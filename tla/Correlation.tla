----------------------------- MODULE Correlation -----------------------------
(***************************************************************************)
(* The detection engine: POST /events stores events, correlation passes    *)
(* turn them into incidents.  Requests run concurrently with each other    *)
(* and with the passes of every process sharing the database, and a pass   *)
(* reads incidents, claims and events in three queries, so all of these    *)
(* are separate steps.  The database contributes two things: a commit is   *)
(* atomic, and it fails if it would break a primary key.                   *)
(***************************************************************************)
EXTENDS CorrelationRules

CONSTANTS Payload,      \* the events producers post: every field but received
          Request,      \* POST /events calls, each made once
          Pass,         \* the threads that run correlation passes
          Legacy,       \* rows of an incident made before claims existed
          ByHand,       \* BOOLEAN: may a pass also be run without `now`?
          MaxAttempts,  \* _MAX_CORRELATION_ATTEMPTS, 5
          CommitLag,    \* bound: time from flush to commit of a POST
          LastPost,     \* bound: no event is received after this time
          MaxClock,     \* bound on the clock
          MaxFailures   \* bound: passes that fail for another reason

ASSUME CorrelationAssumption ==
  /\ ByHand \in BOOLEAN
  /\ MaxAttempts \in Nat \ {0}
  /\ CommitLag \in Nat /\ LastPost \in Nat /\ MaxClock \in Nat /\ MaxFailures \in Nat

\* Timestamps and times of receipt are in seconds; ids, here numbers, are unique.
ASSUME EventsAssumption ==
  /\ \A payload \in Payload : payload.id \in Int /\ payload.ts \in Int
  /\ IsFiniteSet(Legacy)
  /\ \A e \in Legacy : e.id \in Int /\ e.ts \in Int /\ e.received \in Nat
  /\ \A e, f \in Legacy : e.id = f.id => e = f

VARIABLES clock,
          events,      \* table events: rows, primary key id
          posts,       \* per request: where it is, and its answer
          incidents,   \* table incidents
          claims,      \* table incident_event_claims: its primary keys
          txns,        \* commits so far; stands for the uuid of an incident
          pc, now, attempt,   \* per pass: run_correlation's progress
          seen,               \* per pass: already_correlated
          plan,               \* per pass: the incidents it is about to write
          failures

postVars == <<events, posts>>
passVars == <<pc, now, attempt, seen, plan>>
vars == <<clock, events, posts, incidents, claims, txns, passVars, failures>>

-----------------------------------------------------------------------------
Row(payload, received) ==
  [id |-> payload.id, ts |-> payload.ts, source |-> payload.source,
   scenario |-> payload.scenario, type |-> payload.type,
   registry |-> payload.registry, status |-> payload.status, received |-> received]

Stored(id) == \E e \in events : e.id = id

NoPost == [at |-> "idle"]

Incident(i, txn) ==
  [txn |-> txn, pattern |-> i.pattern, events |-> i.events, severity |-> i.severity]

\* An incident of a database made before this table has no claim rows.
LegacyIncidents == IF Legacy = {} THEN {} ELSE {Incident(BurstIncident(Legacy), 0)}

Init ==
  /\ clock = 0
  /\ events = Legacy
  /\ posts = [r \in Request |-> NoPost]
  /\ incidents = LegacyIncidents
  /\ claims = {}
  /\ txns = 0
  /\ pc = [p \in Pass |-> "idle"]
  /\ now = [p \in Pass |-> 0]
  /\ attempt = [p \in Pass |-> 1]
  /\ seen = [p \in Pass |-> {}]
  /\ plan = [p \in Pass |-> {}]
  /\ failures = 0

-----------------------------------------------------------------------------
(* POST /events *)

\* session.get: an event that is there already is answered with 200.
Lookup(r, payload) ==
  /\ posts[r] = NoPost
  /\ clock <= LastPost
  /\ posts' = [posts EXCEPT ![r] =
       IF Stored(payload.id) THEN [at |-> "answered", id |-> payload.id, code |-> 200]
       ELSE [at |-> "adding", payload |-> payload]]
  /\ UNCHANGED <<clock, events, incidents, claims, txns, passVars, failures>>

\* session.add and the flush that fills in received_at.
Flush(r) ==
  /\ posts[r].at = "adding"
  /\ clock <= LastPost
  /\ posts' = [posts EXCEPT ![r] =
       [at |-> "flushed", row |-> Row(posts[r].payload, clock)]]
  /\ UNCHANGED <<clock, events, incidents, claims, txns, passVars, failures>>

\* Mutant: the clash on the key goes unnoticed.
CommitEventUnchecked(r) ==
  /\ posts[r].at = "flushed"
  /\ events' = {e \in events : e.id # posts[r].row.id} \cup {posts[r].row}
  /\ posts' = [posts EXCEPT ![r] = [at |-> "answered", id |-> posts[r].row.id, code |-> 201]]
  /\ UNCHANGED <<clock, incidents, claims, txns, passVars, failures>>

\* session.commit: a clash on the key means another request won; 200 again.
CommitEvent(r) ==
  /\ posts[r].at = "flushed"
  /\ LET row == posts[r].row
         taken == Stored(row.id)
     IN  /\ events' = IF taken THEN events ELSE events \cup {row}
         /\ posts' = [posts EXCEPT ![r] =
              [at |-> "answered", id |-> row.id, code |-> IF taken THEN 200 ELSE 201]]
  /\ UNCHANGED <<clock, incidents, claims, txns, passVars, failures>>

-----------------------------------------------------------------------------
(* A correlation pass *)

StartPass(p) ==
  /\ pc[p] = "idle"
  /\ \E t \in {clock} \cup (IF ByHand THEN {Batch} ELSE {}) :
       now' = [now EXCEPT ![p] = t]
  /\ attempt' = [attempt EXCEPT ![p] = 1]
  /\ pc' = [pc EXCEPT ![p] = "incidents"]
  /\ UNCHANGED <<clock, postVars, incidents, claims, txns, seen, plan, failures>>

\* Mutant: only the claim table says what is correlated.
ReadIncidentsNot(p) ==
  /\ pc[p] = "incidents"
  /\ seen' = [seen EXCEPT ![p] = {}]
  /\ pc' = [pc EXCEPT ![p] = "claims"]
  /\ UNCHANGED <<clock, postVars, incidents, claims, txns, now, attempt, plan, failures>>

ReadIncidents(p) ==
  /\ pc[p] = "incidents"
  /\ seen' = [seen EXCEPT ![p] = UNION {i.events : i \in incidents}]
  /\ pc' = [pc EXCEPT ![p] = "claims"]
  /\ UNCHANGED <<clock, postVars, incidents, claims, txns, now, attempt, plan, failures>>

ReadClaims(p) ==
  /\ pc[p] = "claims"
  /\ seen' = [seen EXCEPT ![p] = @ \cup claims]
  /\ pc' = [pc EXCEPT ![p] = "events"]
  /\ UNCHANGED <<clock, postVars, incidents, claims, txns, now, attempt, plan, failures>>

\* The last query, and correlate() over what it returned.
ReadEvents(p) ==
  /\ pc[p] = "events"
  /\ plan' = [plan EXCEPT ![p] = Correlate({e \in events : e.id \notin seen[p]}, now[p])]
  /\ pc' = [pc EXCEPT ![p] = "commit"]
  /\ UNCHANGED <<clock, postVars, incidents, claims, txns, now, attempt, seen, failures>>

\* Mutant: no key on the claims of earlier commits.
KeyClashWithin(p) ==
  \E i, j \in plan[p] : i # j /\ i.events \cap j.events # {}

\* The claim rows of a plan clash with each other or with rows already there.
KeyClash(p) ==
  \/ \E i \in plan[p] : i.events \cap claims # {}
  \/ \E i, j \in plan[p] : i # j /\ i.events \cap j.events # {}

CommitPass(p) ==
  /\ pc[p] = "commit"
  /\ ~KeyClash(p)
  /\ incidents' = incidents \cup {Incident(i, txns + 1) : i \in plan[p]}
  /\ claims' = claims \cup UNION {i.events : i \in plan[p]}
  /\ txns' = IF plan[p] = {} THEN txns ELSE txns + 1
  /\ pc' = [pc EXCEPT ![p] = "idle"]
  /\ plan' = [plan EXCEPT ![p] = {}]
  /\ seen' = [seen EXCEPT ![p] = {}]
  /\ UNCHANGED <<clock, postVars, now, attempt, failures>>

\* Mutant: attempts are not counted against a maximum.
RetryPassForever(p) ==
  /\ pc[p] = "commit"
  /\ KeyClash(p)
  /\ pc' = [pc EXCEPT ![p] = "incidents"]
  /\ attempt' = [attempt EXCEPT ![p] = @ + 1]
  /\ plan' = [plan EXCEPT ![p] = {}]
  /\ seen' = [seen EXCEPT ![p] = {}]
  /\ UNCHANGED <<clock, postVars, incidents, claims, txns, now, failures>>

\* IntegrityError: roll back and correlate again, with the same `now`; the last
\* attempt raises, which the scheduler logs before its next pass.
RetryPass(p) ==
  /\ pc[p] = "commit"
  /\ KeyClash(p)
  /\ IF attempt[p] = MaxAttempts
     THEN pc' = [pc EXCEPT ![p] = "idle"] /\ UNCHANGED attempt
     ELSE /\ pc' = [pc EXCEPT ![p] = "incidents"]
          /\ attempt' = [attempt EXCEPT ![p] = @ + 1]
  /\ plan' = [plan EXCEPT ![p] = {}]
  /\ seen' = [seen EXCEPT ![p] = {}]
  /\ UNCHANGED <<clock, postVars, incidents, claims, txns, now, failures>>

\* A locked database, a lost connection, the process dying: nothing is written.
FailPass(p) ==
  /\ pc[p] # "idle"
  /\ failures < MaxFailures
  /\ failures' = failures + 1
  /\ pc' = [pc EXCEPT ![p] = "idle"]
  /\ plan' = [plan EXCEPT ![p] = {}]
  /\ seen' = [seen EXCEPT ![p] = {}]
  /\ UNCHANGED <<clock, postVars, incidents, claims, txns, now, attempt>>

\* Time passes, but not while a POST has been committing for CommitLag.
Tick ==
  /\ clock < MaxClock
  /\ \A r \in Request : posts[r].at = "flushed" => clock < posts[r].row.received + CommitLag
  /\ clock' = clock + 1
  /\ UNCHANGED <<postVars, incidents, claims, txns, passVars, failures>>

-----------------------------------------------------------------------------
RequestStep(r) == (\E payload \in Payload : Lookup(r, payload)) \/ Flush(r) \/ CommitEvent(r)

PassStep(p) == ReadIncidents(p) \/ ReadClaims(p) \/ ReadEvents(p) \/ CommitPass(p) \/ RetryPass(p)

Next ==
  \/ \E r \in Request : RequestStep(r)
  \/ \E p \in Pass : StartPass(p) \/ PassStep(p) \/ FailPass(p)
  \/ Tick

Spec == Init /\ [][Next]_vars

\* The scheduler thread starts a pass every interval and each of its queries
\* returns; time passes; a transaction once flushed commits.  Nothing makes
\* a client send an event.
FairSpec ==
  /\ Spec
  /\ WF_vars(Tick)
  /\ \A r \in Request : WF_vars(Flush(r)) /\ WF_vars(CommitEvent(r))
  /\ \A p \in Pass : WF_vars(StartPass(p)) /\ WF_vars(PassStep(p))

-----------------------------------------------------------------------------
Id == {p.id : p \in Payload} \cup {e.id : e \in Legacy}

PassState == {"idle", "incidents", "claims", "events", "commit"}

PlanEntry == [pattern : Patterns, events : SUBSET Id, severity : Severities]

PostOK(post) ==
  \/ post = NoPost
  \/ \E payload \in Payload : post = [at |-> "adding", payload |-> payload]
  \/ \E payload \in Payload, t \in 0..clock :
       post = [at |-> "flushed", row |-> Row(payload, t)]
  \/ \E id \in Id, code \in {200, 201} :
       post = [at |-> "answered", id |-> id, code |-> code]

TypeOK ==
  /\ clock \in Nat
  /\ \A e \in events : e.id \in Id
  /\ DOMAIN posts = Request /\ \A r \in Request : PostOK(posts[r])
  /\ \A i \in incidents : i.txn \in 0..txns /\ i.events \subseteq Id
  /\ claims \subseteq Id
  /\ txns \in Nat
  /\ pc \in [Pass -> PassState]
  /\ now \in [Pass -> Nat \cup {Batch}]
  /\ attempt \in [Pass -> 1..MaxAttempts]
  /\ seen \in [Pass -> SUBSET Id]
  /\ plan \in [Pass -> SUBSET PlanEntry]
  /\ failures \in 0..MaxFailures

\* An event belongs to at most one incident, whatever passes run at once, and
\* also when one of the incidents is older than the claim table.
OneIncidentPerEvent ==
  \A i, j \in incidents : i # j => i.events \cap j.events = {}

\* The incident tables as IncidentLedger sees them, and the promise it makes:
\* no pass, however it interleaves with others, fails or retries, puts an event
\* into a second incident or takes it out of the one it is in.
Members(is) == UNION {i.events \X {i} : i \in is}

Ledger == INSTANCE IncidentLedger WITH members <- Members(incidents),
                                       Existing <- Members(LegacyIncidents)

ImplementsLedger == Ledger!Spec

\* At most one of the requests that carry an event is told it created it (201):
\* the check-then-insert of ingest_event does not let two through.
CreatedOnce ==
  \A r, q \in Request :
    posts[r].at = "answered" /\ posts[q].at = "answered" /\ r # q /\ posts[r].id = posts[q].id
      => posts[r].code = 200 \/ posts[q].code = 200

ScheduledBursts == {i \in incidents : i.pattern = "same-source-burst" /\ i.txn > 0}
RowsOf(i) == {e \in events : e.id \in i.events}

\* Reported, but not swept into a burst by a scheduled pass.
ReportedOtherwise(e) == \E i \in incidents \ ScheduledBursts : e.id \in i.events

\* "it lost composites" (detection-engine/README.md): of two halves that each
\* arrived while the other was still waited for, a scheduled pass never sweeps
\* one into a burst unless the other was used first, for a composite say.
\* A row is in the table at most CommitLag after it is received.
CompositeNotLost ==
  \A i \in ScheduledBursts, pair \in Pairs(events) :
    /\ WithinCompositeWindow(pair[1], pair[2])
    /\ Abs(pair[1].received - pair[2].received) + CommitLag < CompositeWindow
    /\ ~IsError(pair[1]) /\ ~IsError(pair[2])
    => /\ pair[1].id \in i.events => ReportedOtherwise(pair[2])
       /\ pair[2].id \in i.events => ReportedOtherwise(pair[1])

\* f reached the table when burst i had been quiet, or held, for long enough.
TooLateFor(f, i) ==
  \/ \A e \in RowsOf(i) : f.received + CommitLag >= e.received + SameSourceWindow
  \/ \E e \in RowsOf(i) : f.received + CommitLag >= e.received + MaxHold

\* "split bursts in two": neighbours of one source end up in different bursts
\* only if one of them came too late for the burst of the other.  (Composite
\* candidates are held out of bursts on purpose and are not meant.)
BurstsNotSplit ==
  \A i, j \in ScheduledBursts : i # j =>
    \A e \in RowsOf(i), f \in RowsOf(j) :
      /\ e.source = f.source /\ Abs(e.ts - f.ts) <= SameSourceWindow
      /\ e.scenario = "other" /\ f.scenario = "other"
      => TooLateFor(e, j) \/ TooLateFor(f, i)

\* Two events that make a burst whenever a pass may use them.
Neighbours(e, f) ==
  /\ e # f /\ e.source = f.source /\ Abs(e.ts - f.ts) <= SameSourceWindow
  /\ ~IsError(e) /\ ~IsError(f)
  /\ e.type # "http_request" /\ f.type # "http_request"

\* "so a source can't keep its own burst out of the incident list": once a
\* scheduled pass commits, no burst with an event older than MAX_HOLD at its
\* start is still unreported, however fast the source keeps extending it.
NoBurstHeldPastMax ==
  [][\A p \in Pass : CommitPass(p) =>
       \A e, f \in events :
         /\ Neighbours(e, f)
         /\ now[p] - e.received >= MaxHold
         /\ f.received + CommitLag < now[p] /\ ~AwaitingPartner(f, now[p])
         => \E i \in incidents' : {e.id, f.id} \cap i.events # {}]_vars

\* Every burst is reported in the end, though passes conflict, retry and fail:
\* whenever neighbours are stored of which neither is in an incident, a time
\* comes at which there are none (incidents only grow).
Unreported ==
  \E e, f \in events :
    Neighbours(e, f) /\ \A i \in incidents : {e.id, f.id} \cap i.events = {}

BurstEventuallyReported == Unreported ~> ~Unreported
=============================================================================
