-------------------------- MODULE CorrelationLoops --------------------------
(***************************************************************************)
(* The loops of correlation.py as they run over sorted lists, compared     *)
(* with the rules of CorrelationRules on every small input.  A behaviour   *)
(* stores one event row after the other; every set of rows it reaches is   *)
(* an input, looked at by a pass at `now`.                                 *)
(***************************************************************************)
EXTENDS CorrelationRules, SequencesExt

CONSTANT Menus    \* families of inputs, each with bounds of its own: the kinds
                  \* of event looked at (every field but id, ts and received),
                  \* the timestamps, the times of receipt, the times a pass may
                  \* run at (Batch among them) and the most rows in one input

ASSUME MenusAssumption ==
  \A m \in Menus : /\ m.timestamps \subseteq Int /\ m.receipts \subseteq Nat
                   /\ m.nows \subseteq Nat \cup {Batch}

VARIABLES menu, rows, now

vars == <<menu, rows, now>>

\* sorted(): the list of the events in order; ids differ, so there is one.
Sorted(evs) ==
  CHOOSE s \in [1..Cardinality(evs) -> evs] :
    \A i, j \in DOMAIN s : i < j => Before(s[i], s[j])

\* _find_composite_incidents: the dependencies in order, each taking the first
\* unclaimed secret inside the window.  Accumulates the pairs.
PairLoop(evs) ==
  LET secrets == Sorted({e \in evs : e.scenario = "leaked-secret"})
      TakeFirst(pairs, dependency) ==
        LET free == {i \in DOMAIN secrets :
                       /\ \A p \in pairs : p[2] # secrets[i]
                       /\ WithinCompositeWindow(dependency, secrets[i])}
        IN  IF free = {} THEN pairs
            ELSE pairs \cup {<<dependency, secrets[Min(free)]>>}
  IN  FoldLeft(TakeFirst, {}, Sorted({e \in evs : e.scenario = "malicious-dependency"}))

\* _cluster_by_gap: append to the last cluster or open a new one.
ClusterLoop(evs) ==
  LET Add(clusters, e) ==
        IF clusters # <<>> /\ e.ts - Last(Last(clusters)).ts <= SameSourceWindow
        THEN Append(Front(clusters), Append(Last(clusters), e))
        ELSE Append(clusters, <<e>>)
  IN  {ToSet(c) : c \in ToSet(FoldLeft(Add, <<>>, Sorted(evs)))}

Row(kind, id, ts, received) ==
  [id |-> id, ts |-> ts, received |-> received, source |-> kind.source,
   scenario |-> kind.scenario, type |-> kind.type, registry |-> kind.registry,
   status |-> kind.status]

Init == menu \in Menus /\ rows = {} /\ now \in menu.nows

Store ==
  /\ Cardinality(rows) < menu.rows
  /\ \E kind \in menu.kinds, ts \in menu.timestamps, received \in menu.receipts :
       rows' = rows \cup {Row(kind, 1 + Cardinality(rows), ts, received)}
  /\ UNCHANGED <<menu, now>>

Spec == Init /\ [][Store]_vars

TypeOK ==
  /\ now \in Nat \cup {Batch}
  /\ \A i \in Correlate(rows, now) :
       i.pattern \in Patterns /\ i.severity \in Severities /\ i.events \subseteq Ids(rows)

\* The greedy nested loop and the declarative rule take the same pairs.
PairingAgrees == PairLoop(rows) = CompositePairs(rows)

\* Cutting a sorted list at its gaps gives the clusters the rule names,
\* whatever the order of events whose timestamps tie.
ClusteringAgrees == ClusterLoop(rows) = ClusterByGap(rows)

\* One pass never puts an event in two of its incidents: the claim rows it
\* writes can only clash with another pass's, so a pass that runs alone commits.
PassIsConsistent ==
  \A i, j \in Correlate(rows, now) : i # j => i.events \cap j.events = {}

\* Waiting only delays: a pass that runs after every wait has run out reports
\* what a one-off batch over the same events reports.
WaitingOnlyDelays ==
  LET late == 1 + MaxHold + CompositeWindow + SameSourceWindow
                + (IF rows = {} THEN 0 ELSE Max({e.received : e \in rows}))
  IN  Correlate(rows, late) = Correlate(rows, Batch)

\* Composites and untrusted pulls are never held back: whenever a pass runs it
\* reports the ones a batch would.
UrgentPatternsNotHeld ==
  LET Urgent(is) == {i \in is : i.pattern # "same-source-burst"}
  IN  Urgent(Correlate(rows, now)) = Urgent(Correlate(rows, Batch))
=============================================================================
