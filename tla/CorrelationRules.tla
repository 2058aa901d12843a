-------------------------- MODULE CorrelationRules --------------------------
(***************************************************************************)
(* The pure grouping rules of the detection engine                         *)
(* (detection-engine/app/correlation.py): given the stored events no       *)
(* incident has taken yet, which incidents does one pass report?           *)
(*                                                                         *)
(* An event is a record of the fields the rules look at: its id, the       *)
(* producer's timestamp ts, the source, the scenario it names, its type,   *)
(* the registry of an image pull, its status, and received, the time this  *)
(* server stored it.  The code works through sorted lists with a set of    *)
(* claimed ids; here each rule says which groups those loops end up with.  *)
(* CorrelationLoops states the loops themselves and is compared with this  *)
(* module by TLC.                                                          *)
(***************************************************************************)
EXTENDS Integers, FiniteSets

CONSTANTS SameSourceWindow,   \* SAME_SOURCE_WINDOW_SECONDS, 60 s
          CompositeWindow,    \* COMPOSITE_WINDOW_SECONDS, 300 s
          MaxHold,            \* MAX_HOLD_SECONDS, 600 s
          TrustedRegistries   \* TRUSTED_REGISTRIES

ASSUME WindowsAreNat ==
  /\ SameSourceWindow \in Nat
  /\ CompositeWindow \in Nat
  /\ MaxHold \in Nat

\* The `now` of a pass that treats the events as complete (now is None).
Batch == -1

Scenarios == {"malicious-dependency", "leaked-secret", "other"}
Types     == {"container_image_pull", "http_request", "other"}
Statuses  == {"success", "failure", "error"}
Patterns  == {"composite-dependency-secret", "untrusted-registry-pull", "same-source-burst"}
Severities == {"medium", "high", "critical"}

Abs(n) == IF n < 0 THEN -n ELSE n

IsError(e) == e.status = "error"

Successes(group) == Cardinality({e \in group : e.status = "success"})

Ids(group) == {e.id : e \in group}

NewIncident(pattern, group, severity) ==
  [pattern |-> pattern, events |-> Ids(group), severity |-> severity]

\* The order both sorts use: by timestamp, ties by event id.
Before(e, f) == e.ts < f.ts \/ (e.ts = f.ts /\ e.id < f.id)

-----------------------------------------------------------------------------
(* Pattern 2: a malicious dependency and a leaked secret close in time. *)

Pairs(evs) ==
  {e \in evs : e.scenario = "malicious-dependency"} \X {e \in evs : e.scenario = "leaked-secret"}

WithinCompositeWindow(d, s) == Abs(d.ts - s.ts) <= CompositeWindow

\* Mutant: a secret stays free after a dependency has taken it.
CompositePairsSharing(evs) ==
  {pair \in Pairs(evs) :
     /\ WithinCompositeWindow(pair[1], pair[2])
     /\ \A other \in Pairs(evs) :
          other[1] = pair[1] /\ Before(other[2], pair[2])
            => ~WithinCompositeWindow(other[1], other[2])}

\* The nested loop takes dependencies in order, and for each the first secret
\* in order: a pair is taken unless one half went to an earlier pair.
CompositePairs(evs) ==
  LET Taken[pair \in Pairs(evs)] ==
        /\ WithinCompositeWindow(pair[1], pair[2])
        /\ \A other \in Pairs(evs) :
             \/ other[1] = pair[1] /\ Before(other[2], pair[2])
             \/ other[2] = pair[2] /\ Before(other[1], pair[1])
             => ~Taken[other]
  IN  {pair \in Pairs(evs) : Taken[pair]}

CompositeIncident(d, s) ==
  NewIncident("composite-dependency-secret", {d, s},
              IF Successes({d, s}) = 2 THEN "critical" ELSE "high")

-----------------------------------------------------------------------------
(* Pattern 3: one image pulled from a registry that is not trusted. *)

IsUntrustedPull(e) ==
  e.type = "container_image_pull" /\ e.registry \notin TrustedRegistries

UntrustedIncident(e) == NewIncident("untrusted-registry-pull", {e}, "high")

-----------------------------------------------------------------------------
(* Pattern 1: events of one source, each close in time to the next. *)

\* Mutants: the wait is measured by the producer's clock; it never runs out.
AwaitingPartnerByTimestamp(e, now) ==
  /\ e.scenario \in {"malicious-dependency", "leaked-secret"}
  /\ now - e.ts < CompositeWindow

AwaitingPartnerForever(e, now) ==
  e.scenario \in {"malicious-dependency", "leaked-secret"}

\* A composite candidate is kept out of bursts while its partner may arrive.
AwaitingPartner(e, now) ==
  /\ e.scenario \in {"malicious-dependency", "leaked-secret"}
  /\ now - e.received < CompositeWindow

\* Mutant: candidates wait in a batch as well.
BurstCandidatesAlwaysWaiting(evs, now) ==
  {e \in evs : e.type # "http_request" /\ ~AwaitingPartner(e, now)}

\* What a pass at `now` may put into a burst.
BurstCandidates(evs, now) ==
  {e \in evs : /\ e.type # "http_request"
               /\ now # Batch => ~AwaitingPartner(e, now)}

\* Mutant: a gap of exactly the window cuts.
GapBetweenInclusive(evs, e, f) ==
  \E g \in evs : /\ e.ts <= g.ts /\ g.ts < f.ts
                 /\ \A h \in evs : g.ts < h.ts => h.ts - g.ts >= SameSourceWindow

\* Some event after e, up to f, comes more than a window after all before it.
GapBetween(evs, e, f) ==
  \E g \in evs : /\ e.ts <= g.ts /\ g.ts < f.ts
                 /\ \A h \in evs : g.ts < h.ts => h.ts - g.ts > SameSourceWindow

\* The events of one source, cut wherever the gap exceeds the window.
ClusterByGap(evs) ==
  {{f \in evs : ~GapBetween(evs, e, f) /\ ~GapBetween(evs, f, e)} : e \in evs}

\* Mutants: quiet since its first event only; no limit on the hold.
BurstIsSettledEarly(cluster, now) ==
  \E e \in cluster : now - e.received >= SameSourceWindow

BurstIsSettledWhenQuiet(cluster, now) ==
  \A e \in cluster : now - e.received >= SameSourceWindow

BurstIsSettled(cluster, now) ==
  \/ \A e \in cluster : now - e.received >= SameSourceWindow   \* quiet
  \/ \E e \in cluster : now - e.received >= MaxHold            \* held too long

Bursts(evs, now) ==
  LET eligible == BurstCandidates(evs, now)
      OfSource(src) == {e \in eligible : e.source = src}
  IN  {cluster \in UNION {ClusterByGap(OfSource(e.source)) : e \in eligible} :
         /\ \E e, f \in cluster : e # f
         /\ now # Batch => BurstIsSettled(cluster, now)}

\* Mutant: a level of the API no rule uses.
BurstIncidentLow(cluster) ==
  NewIncident("same-source-burst", cluster,
              IF Successes(cluster) > 0 THEN "high" ELSE "low")

BurstIncident(cluster) ==
  NewIncident("same-source-burst", cluster,
              IF Successes(cluster) > 0 THEN "high" ELSE "medium")

-----------------------------------------------------------------------------
(* One pass over the events: composites first, then pulls, then bursts,    *)
(* each rule looking only at what the ones before it left.                 *)

\* Mutants: a burst may take what another rule took; pulls wait like bursts.
CorrelateUnclaimed(evs, now) ==
  LET live       == {e \in evs : ~IsError(e)}
      composites == CompositePairs(live)
      paired     == {e \in live : \E c \in composites : e = c[1] \/ e = c[2]}
      pulls      == {e \in live \ paired : IsUntrustedPull(e)}
  IN       {CompositeIncident(c[1], c[2]) : c \in composites}
      \cup {UntrustedIncident(e) : e \in pulls}
      \cup {BurstIncident(cluster) : cluster \in Bursts(live, now)}

CorrelateHoldingPulls(evs, now) ==
  LET live       == {e \in evs : ~IsError(e)}
      composites == CompositePairs(live)
      paired     == {e \in live : \E c \in composites : e = c[1] \/ e = c[2]}
      pulls      == {e \in BurstCandidates(live \ paired, now) : IsUntrustedPull(e)}
      bursts     == Bursts(live \ (paired \cup pulls), now)
  IN       {CompositeIncident(c[1], c[2]) : c \in composites}
      \cup {UntrustedIncident(e) : e \in pulls}
      \cup {BurstIncident(cluster) : cluster \in bursts}

Correlate(evs, now) ==
  LET live       == {e \in evs : ~IsError(e)}
      composites == CompositePairs(live)
      paired     == {e \in live : \E c \in composites : e = c[1] \/ e = c[2]}
      pulls      == {e \in live \ paired : IsUntrustedPull(e)}
      bursts     == Bursts(live \ (paired \cup pulls), now)
  IN       {CompositeIncident(c[1], c[2]) : c \in composites}
      \cup {UntrustedIncident(e) : e \in pulls}
      \cup {BurstIncident(cluster) : cluster \in bursts}
=============================================================================
