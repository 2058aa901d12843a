-------------------------- MODULE CorrelationProofs --------------------------
(***************************************************************************)
(* For every set of events, requests, passes and legacy incidents, and all *)
(* windows: an event is in at most one incident, and the incident tables   *)
(* implement IncidentLedger.  While every pass is the scheduler's, no      *)
(* composite is lost to a burst and no burst split but by events that came *)
(* too late; none is held for ever, whoever runs the passes.               *)
(***************************************************************************)
EXTENDS Correlation, CorrelationRulesProofs, TLAPS

LegacyIds == Ids(Legacy)

\* A primary key and three orderings make the claim rows enough.  The rows
\* cover every incident made since the table exists; the older ones are never
\* planned again because a pass reads the incidents before the events.
LegacyKept ==
  Legacy # {} => \E i \in incidents : i.events = LegacyIds

ClaimsCover ==
  \A i \in incidents : i.events \subseteq claims \cup LegacyIds

PassSawLegacy ==
  \A p \in Pass : pc[p] \in {"claims", "events"} => LegacyIds \subseteq seen[p]

PlansAvoidLegacy ==
  \A p \in Pass : pc[p] = "commit" => \A i \in plan[p] : i.events \cap LegacyIds = {}

\* A 201 or 200 is only ever answered for an event that is stored.
AnsweredIsStored ==
  \A r \in Request : posts[r].at = "answered" => Stored(posts[r].id)

IInv ==
  /\ TypeOK
  /\ LegacyKept
  /\ ClaimsCover
  /\ PassSawLegacy
  /\ PlansAvoidLegacy
  /\ OneIncidentPerEvent
  /\ AnsweredIsStored
  /\ CreatedOnce

-----------------------------------------------------------------------------
\* What a pass reports has one of the patterns and severities.
LEMMA CorrelateType ==
  ASSUME NEW evs, NEW t, \A e \in evs : e.id \in Id
  PROVE  Correlate(evs, t) \in SUBSET PlanEntry
<1> SUFFICES ASSUME NEW i \in Correlate(evs, t) PROVE i \in PlanEntry
  OBVIOUS
<1>1. i.events \subseteq Id
  BY CorrelateWithin DEF Ids
<1>2. \E group : \E pattern \in Patterns, severity \in Severities :
         i = NewIncident(pattern, group, severity)
  BY Reported
<1> QED BY <1>1, <1>2 DEF NewIncident, PlanEntry

-----------------------------------------------------------------------------
USE DEF PassState

\* The invariant holds at the start: legacy incidents have disjoint events.
LEMMA InitInv == Init => IInv
<1> SUFFICES ASSUME Init PROVE IInv
  OBVIOUS
<1> USE DEF Init
<1>1. \A i \in incidents : i.txn = 0 /\ i.events = LegacyIds /\ Legacy # {}
  BY DEF LegacyIncidents, Incident, BurstIncident, NewIncident, LegacyIds
<1>2. LegacyIds \subseteq Id
  BY DEF LegacyIds, Ids, Id
<1>3. TypeOK
  <2>1. \A e \in events : e.id \in Id
    BY DEF Id
  <2>2. attempt \in [Pass -> 1..MaxAttempts]
    BY CorrelationAssumption
  <2> QED BY <1>1, <1>2, <2>1, <2>2, CorrelationAssumption DEF TypeOK, PostOK
<1>4. OneIncidentPerEvent
  BY DEF OneIncidentPerEvent, LegacyIncidents
<1>5. LegacyKept
  BY DEF LegacyKept, LegacyIncidents, Incident, BurstIncident, NewIncident, LegacyIds
<1>6. AnsweredIsStored /\ CreatedOnce
  BY DEF AnsweredIsStored, CreatedOnce, NoPost
<1> QED BY <1>1, <1>3, <1>4, <1>5, <1>6
        DEF IInv, ClaimsCover, PassSawLegacy, PlansAvoidLegacy

\* A request's step keeps the types and both properties of the answers.
LEMMA RequestInv ==
  ASSUME TypeOK, AnsweredIsStored, CreatedOnce, NEW r \in Request, RequestStep(r)
  PROVE  /\ TypeOK' /\ AnsweredIsStored' /\ CreatedOnce'
         /\ UNCHANGED <<incidents, claims, txns, passVars>>
<1>1. UNCHANGED <<clock, incidents, claims, txns, passVars, failures>>
  BY DEF RequestStep, Lookup, Flush, CommitEvent
<1> USE DEF TypeOK, PostOK, AnsweredIsStored, CreatedOnce, Stored, NoPost
<1>2. CASE \E payload \in Payload : Lookup(r, payload)
  <2>1. PICK payload \in Payload : Lookup(r, payload)
    BY <1>2
  <2>2. payload.id \in Id
    BY DEF Id
  <2>3. CASE Stored(payload.id)
    <3>1. /\ posts' = [posts EXCEPT ![r] = [at |-> "answered", id |-> payload.id, code |-> 200]]
          /\ events' = events
      BY <2>1, <2>3 DEF Lookup
    <3> QED BY <1>1, <2>2, <2>3, <3>1 DEF passVars
  <2>4. CASE ~Stored(payload.id)
    <3>1. /\ posts' = [posts EXCEPT ![r] = [at |-> "adding", payload |-> payload]]
          /\ events' = events
      BY <2>1, <2>4 DEF Lookup
    <3> QED BY <1>1, <3>1 DEF passVars
  <2> QED BY <2>3, <2>4
<1>3. CASE Flush(r)
  <2>1. PICK payload \in Payload : posts[r] = [at |-> "adding", payload |-> payload]
    BY <1>3 DEF Flush
  <2>2. /\ posts' = [posts EXCEPT ![r] = [at |-> "flushed", row |-> Row(payload, clock)]]
        /\ events' = events
    BY <1>3, <2>1 DEF Flush
  <2>3. clock \in 0..clock
    OBVIOUS
  <2> QED BY <1>1, <2>2, <2>3 DEF passVars
<1>4. CASE CommitEvent(r)
  <2>1. PICK payload \in Payload, t \in 0..clock :
          posts[r] = [at |-> "flushed", row |-> Row(payload, t)]
    BY <1>4 DEF CommitEvent
  <2> DEFINE row == Row(payload, t)
  <2>2. row.id \in Id
    BY DEF Id, Row
  <2>3. posts[r].row = row
    BY <2>1
  <2> HIDE DEF row
  <2>4. CASE Stored(row.id)
    <3>1. /\ posts' = [posts EXCEPT ![r] = [at |-> "answered", id |-> row.id, code |-> 200]]
          /\ events' = events
      BY <1>4, <2>3, <2>4 DEF CommitEvent
    <3> QED BY <1>1, <2>2, <2>4, <3>1 DEF passVars
  <2>5. CASE ~Stored(row.id)
    <3>1. /\ posts' = [posts EXCEPT ![r] = [at |-> "answered", id |-> row.id, code |-> 201]]
          /\ events' = events \cup {row}
      BY <1>4, <2>3, <2>5 DEF CommitEvent
    <3> QED BY <1>1, <2>2, <2>5, <3>1 DEF passVars
  <2> QED BY <2>4, <2>5
<1> QED BY <1>1, <1>2, <1>3, <1>4 DEF RequestStep

-----------------------------------------------------------------------------
\* The steps of a pass that only read.
LEMMA ReadInv ==
  ASSUME IInv, NEW p \in Pass,
         StartPass(p) \/ ReadIncidents(p) \/ ReadClaims(p) \/ ReadEvents(p)
  PROVE  IInv' /\ UNCHANGED incidents
<1>1. UNCHANGED <<clock, events, posts, incidents, claims, txns, failures>>
  BY DEF StartPass, ReadIncidents, ReadClaims, ReadEvents, postVars
<1>2. /\ AnsweredIsStored' /\ CreatedOnce' /\ OneIncidentPerEvent'
      /\ LegacyKept' /\ ClaimsCover'
  BY <1>1 DEF IInv, AnsweredIsStored, Stored, CreatedOnce, OneIncidentPerEvent,
              LegacyKept, ClaimsCover
<1>3. \A r \in Request : PostOK(posts[r])'
  BY <1>1 DEF IInv, TypeOK, PostOK
<1> USE DEF IInv, TypeOK, PassSawLegacy, PlansAvoidLegacy
<1>4. CASE StartPass(p)
  <2>1. now' \in [Pass -> Nat \cup {Batch}]
    BY <1>4 DEF StartPass
  <2>2. attempt' \in [Pass -> 1..MaxAttempts]
    BY <1>4, CorrelationAssumption DEF StartPass
  <2>3. /\ pc' = [pc EXCEPT ![p] = "incidents"]
        /\ UNCHANGED <<seen, plan>>
    BY <1>4 DEF StartPass
  <2> QED BY <1>1, <1>2, <1>3, <2>1, <2>2, <2>3
<1>5. CASE ReadIncidents(p)
  <2> DEFINE taken == UNION {i.events : i \in incidents}
  <2>1. taken \subseteq Id
    OBVIOUS
  <2>2. LegacyIds \subseteq taken
    BY DEF LegacyKept, LegacyIds, Ids
  <2>3. /\ pc' = [pc EXCEPT ![p] = "claims"]
        /\ seen' = [seen EXCEPT ![p] = taken]
        /\ UNCHANGED <<now, attempt, plan>>
    BY <1>5 DEF ReadIncidents
  <2> HIDE DEF taken
  <2> QED BY <1>1, <1>2, <1>3, <2>1, <2>2, <2>3
<1>6. CASE ReadClaims(p)
  BY <1>1, <1>2, <1>3, <1>6 DEF ReadClaims
<1>7. CASE ReadEvents(p)
  <2> DEFINE unseen == {e \in events : e.id \notin seen[p]}
             new == Correlate(unseen, now[p])
  <2>1. new \in SUBSET PlanEntry
    BY CorrelateType
  <2>2. \A i \in new : i.events \cap LegacyIds = {}
    <3>1. \A i \in new : i.events \subseteq Ids(unseen)
      BY CorrelateWithin
    <3>2. LegacyIds \subseteq seen[p]
      BY <1>7 DEF ReadEvents
    <3> QED BY <3>1, <3>2 DEF Ids
  <2>3. /\ pc[p] = "events"
        /\ pc' = [pc EXCEPT ![p] = "commit"]
        /\ plan' = [plan EXCEPT ![p] = new]
        /\ UNCHANGED <<now, attempt, seen>>
    BY <1>7 DEF ReadEvents
  <2> HIDE DEF new
  <2> QED BY <1>1, <1>2, <1>3, <2>1, <2>2, <2>3
<1> QED BY <1>1, <1>4, <1>5, <1>6, <1>7

\* The key of the claim table keeps what a pass commits apart from every
\* incident made with claims; PlansAvoidLegacy keeps it apart from the others.
LEMMA CommitInv ==
  ASSUME IInv, NEW p \in Pass, CommitPass(p)
  PROVE  IInv' /\ incidents \subseteq incidents'
<1> DEFINE new == {Incident(i, txns + 1) : i \in plan[p]}
<1>1. /\ incidents' = incidents \cup new
      /\ claims' = claims \cup UNION {i.events : i \in plan[p]}
      /\ pc[p] = "commit" /\ ~KeyClash(p)
      /\ pc' = [pc EXCEPT ![p] = "idle"]
      /\ plan' = [plan EXCEPT ![p] = {}] /\ seen' = [seen EXCEPT ![p] = {}]
      /\ UNCHANGED <<clock, events, posts, now, attempt, failures>>
      /\ txns' \in Nat /\ txns' >= txns /\ (plan[p] # {} => txns' = txns + 1)
  BY DEF CommitPass, postVars, IInv, TypeOK
<1>2. \A n \in new : \E i \in plan[p] : n.events = i.events /\ n.txn = txns + 1 /\ n = Incident(i, txns + 1)
  BY DEF Incident
<1>3. plan[p] \subseteq PlanEntry
  BY DEF IInv, TypeOK
<1> HIDE DEF new
<1>4. \A i, j \in incidents' : i # j => i.events \cap j.events = {}
  <2>1. \A i \in incidents, n \in new : i.events \cap n.events = {}
    BY <1>1, <1>2 DEF IInv, ClaimsCover, PlansAvoidLegacy, KeyClash
  <2>2. \A m, n \in new : m # n => m.events \cap n.events = {}
    BY <1>1, <1>2 DEF KeyClash
  <2> QED BY <1>1, <2>1, <2>2 DEF IInv, OneIncidentPerEvent
<1>5. ClaimsCover'
  BY <1>1, <1>2 DEF IInv, ClaimsCover
<1>6. TypeOK'
  <2>1. \A i \in incidents' : i.txn \in 0..txns' /\ i.events \subseteq Id
    BY <1>1, <1>2, <1>3 DEF IInv, TypeOK, PlanEntry
  <2>2. claims' \subseteq Id
    BY <1>1, <1>3 DEF IInv, TypeOK, PlanEntry
  <2>3. \A r \in Request : PostOK(posts[r])'
    BY <1>1 DEF IInv, TypeOK, PostOK
  <2> QED BY <1>1, <2>1, <2>2, <2>3 DEF IInv, TypeOK
<1>7. LegacyKept' /\ PassSawLegacy' /\ PlansAvoidLegacy'
  BY <1>1 DEF IInv, TypeOK, LegacyKept, PassSawLegacy, PlansAvoidLegacy
<1>8. AnsweredIsStored' /\ CreatedOnce'
  BY <1>1 DEF IInv, AnsweredIsStored, Stored, CreatedOnce
<1> QED BY <1>1, <1>4, <1>5, <1>6, <1>7, <1>8 DEF IInv, OneIncidentPerEvent

\* A pass that rolls back or dies, and the clock.
LEMMA RestInv ==
  ASSUME IInv,
         Tick \/ \E p \in Pass : RetryPass(p) \/ FailPass(p)
  PROVE  IInv' /\ UNCHANGED incidents
<1>1. UNCHANGED <<events, posts, incidents, claims, txns>>
  BY DEF Tick, RetryPass, FailPass, postVars
<1>2. /\ AnsweredIsStored' /\ CreatedOnce' /\ OneIncidentPerEvent'
      /\ LegacyKept' /\ ClaimsCover'
  BY <1>1 DEF IInv, AnsweredIsStored, Stored, CreatedOnce, OneIncidentPerEvent,
              LegacyKept, ClaimsCover
<1>3. clock' \in Nat /\ clock <= clock'
  BY DEF Tick, RetryPass, FailPass, IInv, TypeOK
<1>4. \A r \in Request : PostOK(posts[r])'
  BY <1>1, <1>3 DEF IInv, TypeOK, PostOK
<1> USE DEF IInv, TypeOK, PassSawLegacy, PlansAvoidLegacy
<1>5. CASE Tick
  BY <1>1, <1>2, <1>3, <1>4, <1>5 DEF Tick, passVars
<1>6. ASSUME NEW p \in Pass, RetryPass(p) PROVE IInv'
  <2>1. /\ pc' \in [Pass -> PassState] /\ pc'[p] \in {"idle", "incidents"}
        /\ \A q \in Pass \ {p} : pc'[q] = pc[q]
    BY <1>6 DEF RetryPass
  <2>2. attempt' \in [Pass -> 1..MaxAttempts]
    BY <1>6, CorrelationAssumption DEF RetryPass
  <2>3. /\ plan' = [plan EXCEPT ![p] = {}] /\ seen' = [seen EXCEPT ![p] = {}]
        /\ UNCHANGED <<clock, now, failures>>
    BY <1>6 DEF RetryPass
  <2> QED BY <1>1, <1>2, <1>4, <2>1, <2>2, <2>3
<1>7. ASSUME NEW p \in Pass, FailPass(p) PROVE IInv'
  <2>1. failures' \in 0..MaxFailures
    BY <1>7, CorrelationAssumption DEF FailPass
  <2>2. /\ pc' = [pc EXCEPT ![p] = "idle"]
        /\ plan' = [plan EXCEPT ![p] = {}] /\ seen' = [seen EXCEPT ![p] = {}]
        /\ UNCHANGED <<clock, now, attempt>>
    BY <1>7 DEF FailPass
  <2> QED BY <1>1, <1>2, <1>4, <2>1, <2>2
<1> QED BY <1>1, <1>5, <1>6, <1>7

\* Every step keeps the invariant and every incident.
LEMMA NextInv == IInv /\ [Next]_vars => IInv' /\ incidents \subseteq incidents'
<1> SUFFICES ASSUME IInv, [Next]_vars PROVE IInv' /\ incidents \subseteq incidents'
  OBVIOUS
<1>1. ASSUME NEW r \in Request, RequestStep(r) PROVE IInv' /\ incidents' = incidents
  <2>1. /\ TypeOK' /\ AnsweredIsStored' /\ CreatedOnce'
        /\ UNCHANGED <<incidents, claims, txns, passVars>>
    BY <1>1, RequestInv DEF IInv
  <2> QED BY <2>1 DEF IInv, passVars, LegacyKept, ClaimsCover, PassSawLegacy,
                      PlansAvoidLegacy, OneIncidentPerEvent
<1>2. CASE UNCHANGED vars
  BY <1>2 DEF vars, passVars, IInv, TypeOK, PostOK, LegacyKept, ClaimsCover, PassSawLegacy,
              PlansAvoidLegacy, OneIncidentPerEvent, AnsweredIsStored, Stored, CreatedOnce
<1>3. CASE Next
  <2>1. ASSUME NEW p \in Pass, StartPass(p) \/ PassStep(p) \/ FailPass(p)
        PROVE  IInv' /\ incidents \subseteq incidents'
    BY <2>1, ReadInv, CommitInv, RestInv DEF PassStep
  <2>2. CASE Tick
    BY <2>2, RestInv
  <2> QED BY <1>1, <1>3, <2>1, <2>2 DEF Next
<1> QED BY <1>2, <1>3

-----------------------------------------------------------------------------
\* Every reachable state is well typed.
THEOREM TypeCorrect == Spec => []TypeOK
<1>1. IInv => TypeOK
  BY DEF IInv
<1> QED BY <1>1, InitInv, NextInv, PTL DEF Spec

\* No event is ever in two incidents (the claim table's key, correlation.py).
THEOREM EventsNotShared == Spec => []OneIncidentPerEvent
<1>1. IInv => OneIncidentPerEvent
  BY DEF IInv
<1> QED BY <1>1, InitInv, NextInv, PTL DEF Spec

\* No two requests are told they created the same event (ingest_event).
THEOREM EventsCreatedOnce == Spec => []CreatedOnce
<1>1. IInv => CreatedOnce
  BY DEF IInv
<1> QED BY <1>1, InitInv, NextInv, PTL DEF Spec

\* The incident tables implement the ledger: an event stays in its incident.
THEOREM TablesImplementLedger == Spec => ImplementsLedger
<1>1. IInv => Ledger!InOneIncident(Members(incidents))
  <2> SUFFICES ASSUME IInv, NEW a \in Members(incidents), NEW b \in Members(incidents),
                      a[1] = b[1]
               PROVE  a = b
    BY DEF Ledger!InOneIncident
  <2>1. PICK i \in incidents : a \in i.events \X {i}
    BY DEF Members
  <2>2. PICK j \in incidents : b \in j.events \X {j}
    BY DEF Members
  <2>3. i = j
    BY <2>1, <2>2 DEF IInv, OneIncidentPerEvent
  <2> QED BY <2>1, <2>2, <2>3
<1>2. Init => Ledger!Init
  BY <1>1, InitInv DEF Init, Ledger!Init
<1>3. incidents \subseteq incidents' => Members(incidents) \subseteq Members(incidents)'
  BY DEF Members
<1>4. IInv' => Ledger!InOneIncident(Members(incidents)')
  <2>1. (IInv => Ledger!InOneIncident(Members(incidents)))'
    BY <1>1, PTL
  <2> QED BY <2>1
<1>5. IInv /\ [Next]_vars => [Ledger!Report]_(Members(incidents))
  BY <1>3, <1>4, NextInv DEF Ledger!Report, Ledger!InOneIncident
<1> QED BY <1>2, <1>5, InitInv, NextInv, PTL DEF Spec, ImplementsLedger, Ledger!Spec

(***************************************************************************)
(* Timing.  Nothing in a state says what a pass knew when it grouped the   *)
(* events.  The invariant does: all events but those already reported and  *)
(* those that reached the table too late for its `now`.                    *)
(***************************************************************************)

\* When a pass whose effects can be seen may have started.
Times == (0..clock) \cup (IF ByHand THEN {Batch} ELSE {})

EventsOK == IsEvents(events) /\ \A e \in events : e.received \in Nat

\* A row being committed was received at most CommitLag ago.
PostsOnTime ==
  \A r \in Request : posts[r].at = "flushed" => clock <= posts[r].row.received + CommitLag

InIncident(id) == \E k \in incidents : id \in k.events

SeenReported ==
  /\ \A id \in claims : InIncident(id)
  /\ \A p \in Pass : pc[p] \in {"claims", "events"} => \A id \in seen[p] : InIncident(id)

\* A plan follows from all events but those reported and those that came late.
MadeFrom(p, evs) ==
  /\ plan[p] = Correlate(evs, now[p])
  /\ \A e \in events \ evs : e.received + CommitLag >= now[p] \/ InIncident(e.id)

PlansInformed ==
  \A p \in Pass : pc[p] = "commit" => \E evs \in SUBSET events : MadeFrom(p, evs)

\* So does what commit number t wrote, whose `now` was n.
CommitOf(t) == {i \in incidents : i.txn = t}

Informed(evs, n, t) ==
  /\ CommitOf(t) = {Incident(i, t) : i \in Correlate(evs, n)}
  /\ \A e \in events \ evs : \/ e.received + CommitLag >= n
                             \/ \E k \in incidents : e.id \in k.events /\ k.txn < t

CommitsInformed ==
  \A t \in 1..txns : \E evs \in SUBSET events, n \in Times : Informed(evs, n, t)

TimingInv ==
  /\ EventsOK
  /\ PostsOnTime
  /\ now \in [Pass -> Times]
  /\ SeenReported
  /\ PlansInformed
  /\ CommitsInformed

-----------------------------------------------------------------------------
LEMMA InitTiming == Init => TimingInv
<1> SUFFICES ASSUME Init PROVE TimingInv
  OBVIOUS
<1> USE DEF Init
<1>1. EventsOK
  BY EventsAssumption DEF EventsOK, IsEvents
<1>2. PostsOnTime
  BY DEF PostsOnTime, NoPost
<1>3. now \in [Pass -> Times]
  BY DEF Times
<1>4. SeenReported /\ PlansInformed /\ CommitsInformed
  BY DEF SeenReported, PlansInformed, CommitsInformed
<1> QED BY <1>1, <1>2, <1>3, <1>4 DEF TimingInv

\* Rows are added only at the end of a request, and at most CommitLag after
\* the row was received; incidents are only added, with a later commit.
Grows ==
  /\ events \subseteq events'
  /\ \A e \in events' \ events : e.received \in Nat /\ clock <= e.received + CommitLag
  /\ clock \in Nat /\ clock' \in Nat /\ clock <= clock'
  /\ incidents \subseteq incidents'
  /\ \A i \in incidents' \ incidents : i.txn > txns
  /\ txns \in Nat

LEMMA TimesGrow == clock \in Nat /\ clock' \in Nat /\ clock <= clock' => Times \subseteq Times'
BY DEF Times

\* What was informed stays informed.
LEMMA StaysInformed ==
  ASSUME TypeOK, EventsOK, Grows, NEW t \in 1..txns,
         NEW evs \in SUBSET events, NEW n \in Times, Informed(evs, n, t)
  PROVE  evs \in SUBSET events' /\ n \in Times' /\ Informed(evs, n, t)'
<1>1. evs \in SUBSET events' /\ n \in Times'
  BY TimesGrow DEF Grows
<1>2. CommitOf(t)' = CommitOf(t)
  BY DEF CommitOf, Grows
<1>3. ASSUME NEW e \in events' \ evs
      PROVE  e.received + CommitLag >= n \/ \E k \in incidents' : e.id \in k.events /\ k.txn < t
  <2>1. CASE e \in events
    BY <1>3, <2>1 DEF Informed, Grows
  <2>2. CASE e \notin events
    <3>1. n <= clock
      BY CorrelationAssumption DEF Times, Batch, Grows
    <3>2. clock <= e.received + CommitLag /\ e.received \in Nat
      BY <1>3, <2>2 DEF Grows
    <3> QED BY <3>1, <3>2, CorrelationAssumption DEF Times, Batch, Grows
  <2> QED BY <2>1, <2>2
<1> QED BY <1>1, <1>2, <1>3 DEF Informed

LEMMA StaysMade ==
  ASSUME TypeOK, EventsOK, Grows, NEW p \in Pass, now[p] \in Times,
         now'[p] = now[p], plan'[p] = plan[p],
         NEW evs \in SUBSET events, MadeFrom(p, evs)
  PROVE  evs \in SUBSET events' /\ MadeFrom(p, evs)'
<1>1. evs \in SUBSET events'
  BY DEF Grows
<1>2. ASSUME NEW e \in events' \ evs
      PROVE  e.received + CommitLag >= now[p] \/ \E k \in incidents' : e.id \in k.events
  <2>1. CASE e \in events
    BY <1>2, <2>1 DEF MadeFrom, Grows, InIncident
  <2>2. CASE e \notin events
    <3>1. now[p] <= clock /\ now[p] \in Int /\ clock \in Int
      BY CorrelationAssumption DEF Times, Batch, Grows
    <3>2. clock <= e.received + CommitLag /\ e.received \in Nat
      BY <1>2, <2>2 DEF Grows
    <3> QED BY <3>1, <3>2, CorrelationAssumption
  <2> QED BY <2>1, <2>2
<1> QED BY <1>1, <1>2 DEF MadeFrom, InIncident

\* Steps that write no incident.
LEMMA CommitsKept ==
  ASSUME TypeOK, EventsOK, CommitsInformed, Grows, txns' = txns
  PROVE  CommitsInformed'
<1> SUFFICES ASSUME NEW t \in 1..txns
             PROVE  \E evs \in SUBSET events', n \in Times' : Informed(evs, n, t)'
  BY DEF CommitsInformed
<1>1. PICK evs \in SUBSET events, n \in Times : Informed(evs, n, t)
  BY DEF CommitsInformed
<1> QED BY <1>1, StaysInformed

\* A step of a request adds at most one row, with an id no other row has.
LEMMA RequestTiming ==
  ASSUME IInv, TimingInv, NEW r \in Request, RequestStep(r)
  PROVE  TimingInv'
<1>0. /\ TypeOK /\ EventsOK /\ PostsOnTime /\ CommitsInformed /\ PlansInformed
      /\ now \in [Pass -> Times] /\ clock \in Nat /\ txns \in Nat
  BY DEF IInv, TypeOK, TimingInv
<1>1. UNCHANGED <<clock, incidents, claims, txns, pc, now, attempt, seen, plan, failures>>
  BY DEF RequestStep, Lookup, Flush, CommitEvent, passVars
<1>2. /\ EventsOK' /\ PostsOnTime' /\ events \subseteq events'
      /\ \A e \in events' \ events : e.received \in Nat /\ clock <= e.received + CommitLag
  <2>1. CASE \E payload \in Payload : Lookup(r, payload)
    <3>1. events' = events
      BY <2>1 DEF Lookup
    <3>2. \A q \in Request : posts'[q].at = "flushed" => posts'[q] = posts[q]
      BY <1>0, <2>1 DEF Lookup, TypeOK
    <3> QED BY <1>0, <1>1, <3>1, <3>2 DEF EventsOK, PostsOnTime
  <2>2. CASE Flush(r)
    <3>1. events' = events
      BY <2>2 DEF Flush
    <3>2. \A q \in Request : posts'[q].at = "flushed" =>
            posts'[q] = posts[q] \/ posts'[q].row.received = clock
      BY <1>0, <2>2 DEF Flush, TypeOK, Row
    <3>3. clock <= clock + CommitLag
      BY <1>0, CorrelationAssumption
    <3> QED BY <1>0, <1>1, <3>1, <3>2, <3>3 DEF EventsOK, PostsOnTime
  <2>3. CASE CommitEvent(r)
    <3>1. posts[r].at = "flushed"
      BY <2>3 DEF CommitEvent
    <3>2. PICK payload \in Payload, t \in 0..clock :
            posts[r] = [at |-> "flushed", row |-> Row(payload, t)]
      BY <1>0, <3>1 DEF TypeOK, PostOK, NoPost
    <3> DEFINE row == Row(payload, t)
    <3>3. /\ row.id \in Int /\ row.ts \in Int /\ row.received \in Nat /\ row.received = t
      BY <1>0, EventsAssumption DEF Row
    <3>4. posts[r].row = row /\ clock <= row.received + CommitLag
      BY <1>0, <3>1, <3>2 DEF PostsOnTime
    <3> HIDE DEF row
    <3>5. \A q \in Request : posts'[q].at = "flushed" => posts'[q] = posts[q]
      BY <1>0, <2>3 DEF CommitEvent, TypeOK
    <3>6. events' = events \/ (~Stored(row.id) /\ events' = events \cup {row})
      BY <2>3, <3>4 DEF CommitEvent
    <3>7. EventsOK'
      BY <1>0, <3>3, <3>6, FS_AddElement DEF EventsOK, IsEvents, Stored
    <3> QED BY <1>0, <1>1, <3>3, <3>4, <3>5, <3>6, <3>7 DEF PostsOnTime
  <2> QED BY <2>1, <2>2, <2>3 DEF RequestStep
<1>3. Grows
  BY <1>0, <1>1, <1>2 DEF Grows
<1>4. CommitsInformed'
  BY <1>0, <1>1, <1>3, CommitsKept
<1>5. PlansInformed'
  <2> SUFFICES ASSUME NEW p \in Pass, pc[p] = "commit"
               PROVE  \E evs \in SUBSET events' : MadeFrom(p, evs)'
    BY <1>1 DEF PlansInformed
  <2>1. PICK evs \in SUBSET events : MadeFrom(p, evs)
    BY <1>0 DEF PlansInformed
  <2> QED BY <1>0, <1>1, <1>3, <2>1, StaysMade
<1>6. now' \in [Pass -> Times'] /\ SeenReported'
  BY <1>1 DEF TimingInv, Times, SeenReported, InIncident
<1> QED BY <1>2, <1>4, <1>5, <1>6 DEF TimingInv

\* A pass that starts, reads, gives up or dies writes nothing; what it reads
\* says what it will know.
LEMMA QuietTiming ==
  ASSUME IInv, TimingInv, NEW p \in Pass,
         \/ StartPass(p) \/ ReadIncidents(p) \/ ReadClaims(p) \/ ReadEvents(p)
         \/ RetryPass(p) \/ FailPass(p)
  PROVE  TimingInv'
<1>0. /\ TypeOK /\ EventsOK /\ PostsOnTime /\ CommitsInformed /\ PlansInformed /\ SeenReported
      /\ now \in [Pass -> Times] /\ clock \in Nat /\ txns \in Nat
      /\ pc \in [Pass -> PassState] /\ seen \in [Pass -> SUBSET Id]
      /\ plan \in [Pass -> SUBSET PlanEntry]
  BY DEF IInv, TypeOK, TimingInv
<1>1. UNCHANGED <<clock, events, posts, incidents, claims, txns>>
  BY DEF StartPass, ReadIncidents, ReadClaims, ReadEvents, RetryPass, FailPass, postVars
<1>2. Grows /\ Times' = Times
  BY <1>0, <1>1 DEF Grows, Times
<1>3. CommitsInformed'
  BY <1>0, <1>1, <1>2, CommitsKept
<1>4. EventsOK' /\ PostsOnTime'
  BY <1>0, <1>1 DEF EventsOK, PostsOnTime
<1>5. \A q \in Pass : q # p => /\ pc'[q] = pc[q] /\ now'[q] = now[q]
                               /\ seen'[q] = seen[q] /\ plan'[q] = plan[q]
  BY <1>0 DEF StartPass, ReadIncidents, ReadClaims, ReadEvents, RetryPass, FailPass
<1>6. now' \in [Pass -> Times']
  <2>1. CASE StartPass(p)
    <3>1. PICK t \in {clock} \cup (IF ByHand THEN {Batch} ELSE {}) : now' = [now EXCEPT ![p] = t]
      BY <2>1 DEF StartPass
    <3>2. t \in Times
      BY <1>0, <3>1 DEF Times
    <3> QED BY <1>0, <1>2, <3>1, <3>2
  <2>2. CASE ~StartPass(p)
    <3>1. now' = now
      BY <2>2 DEF ReadIncidents, ReadClaims, ReadEvents, RetryPass, FailPass
    <3> QED BY <1>0, <1>2, <3>1
  <2> QED BY <2>1, <2>2
<1>7. pc'[p] \in {"claims", "events"} => \A id \in seen'[p] : InIncident(id)
  <2>1. CASE ReadIncidents(p)
    BY <1>0, <2>1 DEF ReadIncidents, InIncident
  <2>2. CASE ReadClaims(p)
    BY <1>0, <2>2 DEF ReadClaims, SeenReported
  <2>3. CASE ~ReadIncidents(p) /\ ~ReadClaims(p)
    BY <1>0, <2>3 DEF StartPass, ReadEvents, RetryPass, FailPass
  <2> QED BY <2>1, <2>2, <2>3
<1>8. SeenReported'
  BY <1>0, <1>1, <1>5, <1>7 DEF SeenReported, InIncident
<1>9. pc'[p] = "commit" => \E evs \in SUBSET events : MadeFrom(p, evs)'
  <2>1. CASE ReadEvents(p)
    <3>0. PICK evs : evs = {e \in events : e.id \notin seen[p]}
      OBVIOUS
    <3>1. /\ pc[p] = "events" /\ now' = now
          /\ plan' = [plan EXCEPT ![p] = Correlate(evs, now[p])]
      BY <2>1, <3>0 DEF ReadEvents
    <3>2. plan'[p] = Correlate(evs, now'[p])
      BY <1>0, <3>1
    <3>3. \A e \in events \ evs : InIncident(e.id)
      BY <1>0, <3>0, <3>1 DEF SeenReported
    <3>4. MadeFrom(p, evs)'
      BY <1>1, <3>2, <3>3 DEF MadeFrom, InIncident
    <3> QED BY <3>0, <3>4
  <2>2. ~ReadEvents(p) => pc'[p] # "commit"
    BY <1>0 DEF StartPass, ReadIncidents, ReadClaims, RetryPass, FailPass
  <2> QED BY <2>1, <2>2
<1>10. PlansInformed'
  <2> SUFFICES ASSUME NEW q \in Pass, pc'[q] = "commit", q # p
               PROVE  \E evs \in SUBSET events' : MadeFrom(q, evs)'
    BY <1>1, <1>9 DEF PlansInformed
  <2>1. PICK evs \in SUBSET events : MadeFrom(q, evs)
    BY <1>0, <1>5 DEF PlansInformed
  <2> QED BY <1>0, <1>2, <1>5, <2>1, StaysMade
<1> QED BY <1>3, <1>4, <1>6, <1>8, <1>10 DEF TimingInv

\* A commit writes its plan, with a number of its own.
LEMMA CommitTiming ==
  ASSUME IInv, TimingInv, NEW p \in Pass, CommitPass(p)
  PROVE  TimingInv'
<1> DEFINE new == {Incident(i, txns + 1) : i \in plan[p]}
<1>0. /\ TypeOK /\ EventsOK /\ PostsOnTime /\ CommitsInformed /\ PlansInformed /\ SeenReported
      /\ now \in [Pass -> Times] /\ clock \in Nat /\ txns \in Nat
      /\ pc \in [Pass -> PassState] /\ seen \in [Pass -> SUBSET Id]
      /\ plan \in [Pass -> SUBSET PlanEntry]
      /\ \A i \in incidents : i.txn \in 0..txns
  BY DEF IInv, TypeOK, TimingInv
<1>1. /\ incidents' = incidents \cup new
      /\ claims' = claims \cup UNION {i.events : i \in plan[p]}
      /\ txns' = IF plan[p] = {} THEN txns ELSE txns + 1
      /\ pc[p] = "commit"
      /\ pc' = [pc EXCEPT ![p] = "idle"]
      /\ plan' = [plan EXCEPT ![p] = {}] /\ seen' = [seen EXCEPT ![p] = {}]
      /\ UNCHANGED <<clock, events, posts, now>>
  BY DEF CommitPass, postVars
<1>2. \A n \in new : n.txn = txns + 1 /\ \E i \in plan[p] : n.events = i.events
  BY DEF Incident
<1>3. \A i \in plan[p] : \E n \in new : n.events = i.events
  <2> SUFFICES ASSUME NEW i \in plan[p] PROVE \E n \in new : n.events = i.events
    OBVIOUS
  <2>1. Incident(i, txns + 1) \in new /\ Incident(i, txns + 1).events = i.events
    BY DEF Incident
  <2> QED BY <2>1
<1>4. Grows /\ Times' = Times
  <2>1. \A n \in new : n.txn > txns
    BY <1>0, <1>2
  <2> HIDE DEF new
  <2> QED BY <1>0, <1>1, <2>1 DEF Grows, Times
<1>5. EventsOK' /\ PostsOnTime' /\ now' \in [Pass -> Times']
  BY <1>0, <1>1, <1>4 DEF EventsOK, PostsOnTime
<1>6. SeenReported'
  <2>1. \A id \in claims' : \E k \in incidents' : id \in k.events
    <3> HIDE DEF new
    <3> QED BY <1>0, <1>1, <1>3 DEF SeenReported, InIncident
  <2>2. \A q \in Pass : pc'[q] \in {"claims", "events"} =>
          \A id \in seen'[q] : \E k \in incidents' : id \in k.events
    <3> HIDE DEF new
    <3> QED BY <1>0, <1>1 DEF SeenReported, InIncident
  <2> QED BY <2>1, <2>2 DEF SeenReported, InIncident
<1>7. PlansInformed'
  <2> SUFFICES ASSUME NEW q \in Pass, pc'[q] = "commit"
               PROVE  \E evs \in SUBSET events' : MadeFrom(q, evs)'
    BY DEF PlansInformed
  <2>1. q # p /\ pc[q] = "commit" /\ plan'[q] = plan[q] /\ now'[q] = now[q]
    BY <1>0, <1>1
  <2>2. PICK evs \in SUBSET events : MadeFrom(q, evs)
    BY <1>0, <2>1 DEF PlansInformed
  <2> QED BY <1>0, <1>4, <2>1, <2>2, StaysMade
<1>8. CommitsInformed'
  <2> SUFFICES ASSUME NEW t \in 1..txns'
               PROVE  \E evs \in SUBSET events', n \in Times' : Informed(evs, n, t)'
    BY DEF CommitsInformed
  <2>1. CASE t \in 1..txns
    <3>1. PICK evs \in SUBSET events, n \in Times : Informed(evs, n, t)
      BY <1>0, <2>1 DEF CommitsInformed
    <3> QED BY <1>0, <1>4, <2>1, <3>1, StaysInformed
  <2>2. CASE t \notin 1..txns
    <3>1. t = txns + 1 /\ t \in Nat
      BY <1>0, <1>1, <2>2
    <3>2. PICK evs \in SUBSET events : MadeFrom(p, evs)
      BY <1>0, <1>1 DEF PlansInformed
    <3>3. \A i \in incidents : i.txn < t
      BY <1>0, <3>1
    <3>4. CommitOf(t)' = new
      <4>1. \A n \in new : n.txn = t
        BY <1>2, <3>1
      <4>2. \A i \in incidents : i.txn # t
        BY <1>0, <3>1
      <4> HIDE DEF new
      <4> QED BY <1>1, <4>1, <4>2 DEF CommitOf
    <3>5. new = {Incident(i, t) : i \in Correlate(evs, now[p])}
      BY <3>1, <3>2 DEF MadeFrom
    <3>6. \A e \in events \ evs : \/ e.received + CommitLag >= now[p]
                                  \/ \E k \in incidents : e.id \in k.events /\ k.txn < t
      BY <3>2, <3>3 DEF MadeFrom, InIncident
    <3> HIDE DEF new
    <3>7. Informed(evs, now[p], t)'
      BY <1>1, <3>4, <3>5, <3>6 DEF Informed
    <3> QED BY <1>0, <1>1, <1>4, <3>7
  <2> QED BY <2>1, <2>2
<1> QED BY <1>5, <1>6, <1>7, <1>8 DEF TimingInv

LEMMA TickTiming ==
  ASSUME IInv, TimingInv, Tick
  PROVE  TimingInv'
<1>0. /\ TypeOK /\ EventsOK /\ PostsOnTime /\ CommitsInformed /\ PlansInformed /\ SeenReported
      /\ now \in [Pass -> Times] /\ clock \in Nat /\ txns \in Nat
  BY DEF IInv, TypeOK, TimingInv
<1>1. /\ UNCHANGED <<events, posts, incidents, claims, txns, pc, now, seen, plan>>
      /\ clock' = clock + 1
  BY DEF Tick, postVars, passVars
<1>2. Grows
  BY <1>0, <1>1 DEF Grows
<1>3. CommitsInformed'
  BY <1>0, <1>1, <1>2, CommitsKept
<1>4. PostsOnTime'
  <2> SUFFICES ASSUME NEW r \in Request, posts[r].at = "flushed"
               PROVE  clock + 1 <= posts[r].row.received + CommitLag
    BY <1>1 DEF PostsOnTime
  <2>1. PICK payload \in Payload, t \in 0..clock :
          posts[r] = [at |-> "flushed", row |-> Row(payload, t)]
    BY <1>0 DEF TypeOK, PostOK, NoPost
  <2>2. posts[r].row.received = t
    BY <2>1 DEF Row
  <2>3. clock < posts[r].row.received + CommitLag
    BY DEF Tick
  <2> QED BY <1>0, <2>2, <2>3, CorrelationAssumption
<1>5. now' \in [Pass -> Times']
  BY <1>0, <1>1, <1>2, TimesGrow
<1>6. EventsOK' /\ SeenReported'
  BY <1>0, <1>1 DEF EventsOK, SeenReported, InIncident
<1>7. PlansInformed'
  <2> SUFFICES ASSUME NEW p \in Pass, pc[p] = "commit"
               PROVE  \E evs \in SUBSET events' : MadeFrom(p, evs)'
    BY <1>1 DEF PlansInformed
  <2>1. PICK evs \in SUBSET events : MadeFrom(p, evs)
    BY <1>0 DEF PlansInformed
  <2> QED BY <1>0, <1>1, <1>2, <2>1, StaysMade
<1> QED BY <1>3, <1>4, <1>5, <1>6, <1>7 DEF TimingInv

LEMMA NextTiming == IInv /\ TimingInv /\ [Next]_vars => TimingInv'
<1> SUFFICES ASSUME IInv, TimingInv, [Next]_vars PROVE TimingInv'
  OBVIOUS
<1>1. CASE UNCHANGED vars
  BY <1>1 DEF vars, postVars, passVars, TimingInv, EventsOK, PostsOnTime, Times, SeenReported,
              InIncident, PlansInformed, MadeFrom, CommitsInformed, Informed, CommitOf
<1>2. CASE Next
  BY <1>2, RequestTiming, QuietTiming, CommitTiming, TickTiming DEF Next, PassStep
<1> QED BY <1>1, <1>2

-----------------------------------------------------------------------------
\* A burst that was written is a cluster of the rows its pass knew.
LEMMA BurstOf ==
  ASSUME EventsOK, NEW evs \in SUBSET events, NEW n,
         NEW i \in ScheduledBursts, Informed(evs, n, i.txn)
  PROVE  \E burst \in Bursts(Remaining(evs), n) :
           /\ burst \subseteq Remaining(evs)
           /\ i.events = Ids(burst) /\ RowsOf(i) = burst
<1>1. PICK x \in Correlate(evs, n) : i = Incident(x, i.txn)
  <2>1. i \in CommitOf(i.txn)
    BY DEF CommitOf, ScheduledBursts
  <2> QED BY <2>1 DEF Informed
<1>2. x.pattern = "same-source-burst" /\ x.events = i.events
  BY <1>1 DEF Incident, ScheduledBursts
<1>3. x \in BurstIncidents(evs, n)
  <2>1. x \notin Composites(evs) /\ x \notin PullIncidents(evs)
    <3>1. \A d, f : CompositeIncident(d, f).pattern # "same-source-burst"
      BY DEF CompositeIncident, NewIncident
    <3>2. \A f : UntrustedIncident(f).pattern # "same-source-burst"
      BY DEF UntrustedIncident, NewIncident
    <3> QED BY <1>2, <3>1, <3>2 DEF Composites, PullIncidents
  <2> QED BY <2>1, CorrelateIs
<1>4. PICK burst \in Bursts(Remaining(evs), n) : x = BurstIncident(burst)
  BY <1>3 DEF BurstIncidents
<1>5. x.events = Ids(burst)
  BY <1>4 DEF BurstIncident, NewIncident
<1>6. IsEvents(evs)
  BY FS_Subset DEF EventsOK, IsEvents
<1>7. burst \subseteq Remaining(evs)
  BY <1>6, GroupsOf
<1>8. RowsOf(i) = burst
  <2>1. burst \subseteq events
    BY <1>7 DEF Remaining, Live
  <2> QED BY <1>2, <1>5, <2>1 DEF RowsOf, Ids, EventsOK, IsEvents
<1> QED BY <1>2, <1>5, <1>7, <1>8

\* What a pass used for composites and pulls is in incidents of its commit.
LEMMA UsedFirst ==
  ASSUME NEW evs \in SUBSET events, IsEvents(evs), NEW n, NEW t, Informed(evs, n, t),
         NEW e \in Paired(evs) \cup Pulls(evs)
  PROVE  \E k \in incidents : k.txn = t /\ k.pattern # "same-source-burst" /\ e.id \in k.events
<1>1. \E x \in Correlate(evs, n) : x.pattern # "same-source-burst" /\ e.id \in x.events
  <2>1. CASE e \in Paired(evs)
    <3>1. PICK c \in CompositePairs(Live(evs)) : e = c[1] \/ e = c[2]
      BY <2>1 DEF Paired
    <3>2. CompositeIncident(c[1], c[2]) \in Correlate(evs, n)
      BY CorrelateIs DEF Composites
    <3>3. /\ CompositeIncident(c[1], c[2]).pattern # "same-source-burst"
          /\ e.id \in CompositeIncident(c[1], c[2]).events
      BY <3>1 DEF CompositeIncident, NewIncident, Ids
    <3> QED BY <3>2, <3>3
  <2>2. CASE e \in Pulls(evs)
    <3>1. UntrustedIncident(e) \in Correlate(evs, n)
      BY <2>2, CorrelateIs DEF PullIncidents
    <3>2. /\ UntrustedIncident(e).pattern # "same-source-burst"
          /\ e.id \in UntrustedIncident(e).events
      BY DEF UntrustedIncident, NewIncident, Ids
    <3> QED BY <3>1, <3>2
  <2> QED BY <2>1, <2>2
<1>2. PICK x \in Correlate(evs, n) : x.pattern # "same-source-burst" /\ e.id \in x.events
  BY <1>1
<1>3. Incident(x, t) \in incidents
  BY <1>2 DEF Informed, CommitOf
<1> QED BY <1>2, <1>3 DEF Incident

\* Halves of a composite of which each arrived while the other was waited for.
Halves(x, y) ==
  /\ <<x, y>> \in Pairs(events) \/ <<y, x>> \in Pairs(events)
  /\ Abs(x.ts - y.ts) <= CompositeWindow
  /\ Abs(x.received - y.received) + CommitLag < CompositeWindow
  /\ ~IsError(x) /\ ~IsError(y)

\* When one half is swept into a burst, the other is in an earlier incident or
\* in one of the same commit that is no burst.
LEMMA OtherHalf ==
  ASSUME IInv, TimingInv, ~ByHand, NEW i \in ScheduledBursts,
         NEW x \in events, NEW y \in events, Halves(x, y), x.id \in i.events
  PROVE  \E k \in incidents : /\ y.id \in k.events
                              /\ \/ k.txn < i.txn
                                 \/ k.txn = i.txn /\ k.pattern # "same-source-burst"
<1>0. EventsOK /\ CommitsInformed /\ i.txn \in 1..txns /\ clock \in Nat
  BY DEF IInv, TypeOK, TimingInv, ScheduledBursts
<1>1. PICK evs \in SUBSET events, n \in Times : Informed(evs, n, i.txn)
  BY <1>0 DEF CommitsInformed
<1>2. PICK burst \in Bursts(Remaining(evs), n) :
        burst \subseteq Remaining(evs) /\ RowsOf(i) = burst
  BY <1>0, <1>1, BurstOf
<1>3. n \in Nat /\ n # Batch
  BY <1>0 DEF Times, Batch
<1>4. x \in burst /\ x \in Remaining(evs) /\ x \in Live(evs)
  BY <1>2 DEF RowsOf, Remaining
<1>5. n - x.received >= CompositeWindow
  <2>1. x \in BurstCandidates(Remaining(evs), n)
    BY <1>2, <1>4, BurstOfCandidates
  <2>2. ~AwaitingPartner(x, n)
    BY <1>3, <2>1 DEF BurstCandidates
  <2>3. x.scenario \in {"malicious-dependency", "leaked-secret"}
    BY DEF Halves, Pairs
  <2> QED BY <1>0, <1>3, <2>2, <2>3, WindowsAreNat DEF AwaitingPartner, EventsOK
<1>6. y.received + CommitLag < n
  BY <1>0, <1>3, <1>5, WindowsAreNat, CorrelationAssumption DEF Halves, Abs, EventsOK
<1>7. CASE y \in evs
  <2>1. IsEvents(evs)
    BY <1>0, FS_Subset DEF EventsOK, IsEvents
  <2>2. x \notin Paired(evs)
    BY <1>4 DEF Remaining
  <2>3. x \in Live(evs) /\ y \in Live(evs)
    BY <1>4, <1>7 DEF Live, Halves
  <2>4. y \in Paired(evs)
    <3>1. CASE <<x, y>> \in Pairs(events)
      <4>1. <<x, y>> \in Pairs(Live(evs)) /\ WithinCompositeWindow(x, y)
        BY <2>3, <3>1 DEF Pairs, Halves, WithinCompositeWindow
      <4> QED BY <2>1, <2>2, <4>1, OneHalfPaired
    <3>2. CASE <<y, x>> \in Pairs(events)
      <4>1. <<y, x>> \in Pairs(Live(evs))
        BY <2>3, <3>2 DEF Pairs
      <4>2. WithinCompositeWindow(y, x)
        BY <1>0, WindowsAreNat DEF Halves, WithinCompositeWindow, Abs, EventsOK, IsEvents
      <4> QED BY <2>1, <2>2, <4>1, <4>2, OneHalfPaired
    <3> QED BY <3>1, <3>2 DEF Halves
  <2> QED BY <1>1, <2>1, <2>4, UsedFirst
<1>8. CASE y \notin evs
  <2>1. ~(y.received + CommitLag >= n)
    BY <1>0, <1>3, <1>6, CorrelationAssumption DEF EventsOK
  <2> QED BY <1>1, <1>8, <2>1 DEF Informed
<1> QED BY <1>7, <1>8

LEMMA NotLost ==
  ASSUME IInv, TimingInv, ~ByHand, NEW i \in ScheduledBursts,
         NEW x \in events, NEW y \in events, Halves(x, y), x.id \in i.events
  PROVE  ReportedOtherwise(y)
<1>0. \A j \in incidents : j.txn \in Nat
  BY DEF IInv, TypeOK
<1>1. PICK k \in incidents : /\ y.id \in k.events
                             /\ \/ k.txn < i.txn
                                \/ k.txn = i.txn /\ k.pattern # "same-source-burst"
  BY OtherHalf
<1>2. CASE k \notin ScheduledBursts
  BY <1>1, <1>2 DEF ReportedOtherwise
<1>3. CASE k \in ScheduledBursts
  <2>1. Halves(y, x)
    BY DEF Halves, Abs, TimingInv, EventsOK, IsEvents
  <2>2. PICK m \in incidents : /\ x.id \in m.events
                               /\ \/ m.txn < k.txn
                                  \/ m.txn = k.txn /\ m.pattern # "same-source-burst"
    BY <1>1, <1>3, <2>1, OtherHalf
  <2>3. k.txn < i.txn
    BY <1>1, <1>3 DEF ScheduledBursts
  <2>4. m # i
    BY <1>0, <2>2, <2>3 DEF ScheduledBursts
  <2>5. m.events \cap i.events = {}
    BY <2>4 DEF IInv, OneIncidentPerEvent, ScheduledBursts
  <2> QED BY <2>2, <2>5
<1> QED BY <1>2, <1>3

\* An event that an earlier burst did not take in came too late for it.
LEMMA NotSplit ==
  ASSUME IInv, TimingInv, ~ByHand,
         NEW i \in ScheduledBursts, NEW j \in ScheduledBursts, i # j, i.txn <= j.txn,
         NEW e \in RowsOf(i), NEW f \in RowsOf(j),
         e.source = f.source, Abs(e.ts - f.ts) <= SameSourceWindow, f.scenario = "other"
  PROVE  TooLateFor(f, i)
<1>0. /\ EventsOK /\ CommitsInformed /\ clock \in Nat
      /\ i.txn \in 1..txns /\ j.txn \in 1..txns /\ txns \in Nat
      /\ \A k \in incidents : k.txn \in Nat
      /\ e \in events /\ f \in events /\ f.id \in j.events /\ j \in incidents
  BY DEF IInv, TypeOK, TimingInv, ScheduledBursts, RowsOf
<1>1. PICK evs \in SUBSET events, n \in Times : Informed(evs, n, i.txn)
  BY <1>0 DEF CommitsInformed
<1>2. PICK burst \in Bursts(Remaining(evs), n) :
        burst \subseteq Remaining(evs) /\ i.events = Ids(burst) /\ RowsOf(i) = burst
  BY <1>0, <1>1, BurstOf
<1>3. n \in Nat /\ n # Batch
  BY <1>0 DEF Times, Batch
<1>4. IsEvents(evs)
  BY <1>0, FS_Subset DEF EventsOK, IsEvents
<1>5. ASSUME NEW k \in incidents, f.id \in k.events PROVE k = j
  BY <1>0, <1>5 DEF IInv, OneIncidentPerEvent
<1>6. ~IsError(f) /\ f.type # "http_request"
  <2>1. PICK known \in SUBSET events, m \in Times : Informed(known, m, j.txn)
    BY <1>0 DEF CommitsInformed
  <2>2. PICK other \in Bursts(Remaining(known), m) :
          other \subseteq Remaining(known) /\ RowsOf(j) = other
    BY <1>0, <2>1, BurstOf
  <2>3. f \in Remaining(known) /\ f \in BurstCandidates(Remaining(known), m)
    BY <2>2, BurstOfCandidates
  <2> QED BY <2>3 DEF Remaining, Live, BurstCandidates
<1>7. f \notin evs
  <2> SUFFICES ASSUME f \in evs PROVE FALSE
    OBVIOUS
  <2>1. f \notin Paired(evs) \cup Pulls(evs)
    <3> SUFFICES ASSUME f \in Paired(evs) \cup Pulls(evs) PROVE FALSE
      OBVIOUS
    <3>1. PICK k \in incidents : k.pattern # "same-source-burst" /\ f.id \in k.events
      BY <1>1, <1>4, UsedFirst
    <3> QED BY <1>5, <3>1 DEF ScheduledBursts
  <2>2. f \in BurstCandidates(Remaining(evs), n)
    BY <1>6, <2>1 DEF BurstCandidates, Remaining, Live, AwaitingPartner
  <2>3. \A g \in Remaining(evs) : g.ts \in Int
    BY <1>4 DEF IsEvents, Remaining, Live
  <2>4. f \in burst
    BY <1>2, <2>2, <2>3, BurstClosed
  <2>5. f.id \in i.events
    BY <1>2, <2>4 DEF Ids
  <2> QED BY <1>5, <2>5 DEF ScheduledBursts
<1>8. f.received + CommitLag >= n
  <2>1. ~\E k \in incidents : f.id \in k.events /\ k.txn < i.txn
    BY <1>0, <1>5
  <2> QED BY <1>0, <1>1, <1>7, <2>1 DEF Informed
<1>9. \A g \in RowsOf(i) : g.received \in Nat
  BY <1>0 DEF RowsOf, EventsOK
<1>10. BurstIsSettled(RowsOf(i), n)
  BY <1>2, <1>3, Zenon DEF Bursts
<1>11. f.received \in Nat
  BY <1>0 DEF EventsOK
<1> QED BY <1>3, <1>8, <1>9, <1>10, <1>11, WindowsAreNat, CorrelationAssumption
        DEF BurstIsSettled, TooLateFor

\* A commit reports two neighbours its pass knew, of which one was held too long.
LEMMA NotHeld ==
  ASSUME IInv, TimingInv, CommitLag < MaxHold, CompositeWindow <= MaxHold,
         NEW p \in Pass, CommitPass(p), NEW e \in events, NEW f \in events,
         Neighbours(e, f), now[p] - e.received >= MaxHold,
         f.received + CommitLag < now[p], ~AwaitingPartner(f, now[p])
  PROVE  \E i \in incidents' : {e.id, f.id} \cap i.events # {}
<1>0. /\ EventsOK /\ clock \in Nat /\ now[p] \in Times /\ pc[p] = "commit"
      /\ e.received \in Nat /\ f.received \in Nat
  BY DEF IInv, TypeOK, TimingInv, EventsOK, CommitPass
<1>1. now[p] \in Int
  BY <1>0 DEF Times, Batch
<1>2. PICK evs \in SUBSET events : MadeFrom(p, evs)
  BY <1>0 DEF TimingInv, PlansInformed
<1>3. /\ incidents' = incidents \cup {Incident(i, txns + 1) : i \in plan[p]}
      /\ plan[p] = Correlate(evs, now[p])
  BY <1>2 DEF CommitPass, MadeFrom
<1>4. ASSUME NEW i \in Correlate(evs, now[p]), {e.id, f.id} \cap i.events # {}
      PROVE  \E k \in incidents' : {e.id, f.id} \cap k.events # {}
  <2>1. Incident(i, txns + 1) \in incidents'
    BY <1>3
  <2> QED BY <1>4, <2>1 DEF Incident
<1>5. ASSUME NEW g \in {e, f}, g \notin evs
      PROVE  \E k \in incidents' : {e.id, f.id} \cap k.events # {}
  <2>1. g \in events /\ g.received + CommitLag < now[p]
    BY <1>0, <1>1, WindowsAreNat, CorrelationAssumption
  <2>2. InIncident(g.id)
    BY <1>0, <1>1, <1>2, <1>5, <2>1, CorrelationAssumption DEF MadeFrom, EventsOK
  <2> QED BY <1>3, <1>5, <2>2 DEF InIncident
<1>6. CASE e \in evs /\ f \in evs
  <2>1. IsEvents(evs)
    BY <1>0, FS_Subset DEF EventsOK, IsEvents
  <2>2. e \in Live(evs) /\ f \in Live(evs)
    BY <1>6 DEF Live, Neighbours
  <2>3. CASE \E g \in {e, f} : g \in Paired(evs)
    <3>1. PICK g \in {e, f} : g \in Paired(evs)
      BY <2>3
    <3>2. PICK c \in CompositePairs(Live(evs)) : g = c[1] \/ g = c[2]
      BY <3>1 DEF Paired
    <3>3. CompositeIncident(c[1], c[2]) \in Correlate(evs, now[p])
      BY CorrelateIs DEF Composites
    <3>4. g.id \in CompositeIncident(c[1], c[2]).events
      BY <3>2 DEF CompositeIncident, NewIncident, Ids
    <3> QED BY <1>4, <3>1, <3>3, <3>4
  <2>4. CASE \E g \in {e, f} : g \in Pulls(evs)
    <3>1. PICK g \in {e, f} : g \in Pulls(evs)
      BY <2>4
    <3>2. UntrustedIncident(g) \in Correlate(evs, now[p])
      BY <3>1, CorrelateIs DEF PullIncidents
    <3>3. g.id \in UntrustedIncident(g).events
      BY DEF UntrustedIncident, NewIncident, Ids
    <3> QED BY <1>4, <3>1, <3>2, <3>3
  <2>5. CASE \A g \in {e, f} : g \notin Paired(evs) /\ g \notin Pulls(evs)
    <3>1. ~AwaitingPartner(e, now[p])
      BY <1>0, <1>1, WindowsAreNat DEF AwaitingPartner
    <3>2. e \in BurstCandidates(Remaining(evs), now[p]) /\ f \in BurstCandidates(Remaining(evs), now[p])
      BY <2>2, <2>5, <3>1 DEF BurstCandidates, Remaining, Neighbours
    <3>3. \A g \in Remaining(evs) : g.ts \in Int
      BY <2>1 DEF IsEvents, Remaining, Live
    <3>4. PICK burst \in Bursts(Remaining(evs), now[p]) : e \in burst /\ f \in burst
      BY <3>2, <3>3, HeldIsReported DEF Neighbours
    <3>5. BurstIncident(burst) \in Correlate(evs, now[p])
      BY CorrelateIs DEF BurstIncidents
    <3>6. e.id \in BurstIncident(burst).events
      BY <3>4 DEF BurstIncident, NewIncident, Ids
    <3> QED BY <1>4, <3>5, <3>6
  <2> QED BY <2>3, <2>4, <2>5
<1> QED BY <1>5, <1>6

-----------------------------------------------------------------------------
\* The windows as in the code (60, 300, 600 s), and rows committed long before.
HoldOutlasts == CommitLag < MaxHold /\ CompositeWindow <= MaxHold

\* A half of a composite that came in time for the other is not swept into a
\* burst before the other is used (_awaiting_partner: the wait for a partner
\* is measured by the time of receipt).  All passes are the scheduler's.
THEOREM CompositesKept == ASSUME ~ByHand PROVE Spec => []CompositeNotLost
<1>1. IInv /\ TimingInv => CompositeNotLost
  <2> SUFFICES ASSUME IInv, TimingInv, NEW i \in ScheduledBursts, NEW pair \in Pairs(events),
                      WithinCompositeWindow(pair[1], pair[2]),
                      Abs(pair[1].received - pair[2].received) + CommitLag < CompositeWindow,
                      ~IsError(pair[1]), ~IsError(pair[2])
               PROVE  /\ pair[1].id \in i.events => ReportedOtherwise(pair[2])
                      /\ pair[2].id \in i.events => ReportedOtherwise(pair[1])
    BY DEF CompositeNotLost
  <2>1. EventsOK
    BY DEF TimingInv
  <2>2. /\ pair[1] \in events /\ pair[2] \in events
        /\ pair = <<pair[1], pair[2]>>
    BY <2>1, PairsAre DEF EventsOK
  <2>3. Halves(pair[1], pair[2])
    BY <2>2 DEF Halves, WithinCompositeWindow
  <2>4. Halves(pair[2], pair[1])
    BY <2>1, <2>2, <2>3 DEF Halves, Abs, EventsOK, IsEvents
  <2> QED BY <2>2, <2>3, <2>4, NotLost
<1> QED BY <1>1, InitInv, InitTiming, NextInv, NextTiming, PTL DEF Spec

\* Neighbours of one source are in different bursts only if one came too late
\* for the burst of the other (_burst_is_settled).
THEOREM BurstsWhole == ASSUME ~ByHand PROVE Spec => []BurstsNotSplit
<1>1. IInv /\ TimingInv => BurstsNotSplit
  <2> SUFFICES ASSUME IInv, TimingInv, NEW i \in ScheduledBursts, NEW j \in ScheduledBursts, i # j,
                      NEW e \in RowsOf(i), NEW f \in RowsOf(j),
                      e.source = f.source, Abs(e.ts - f.ts) <= SameSourceWindow,
                      e.scenario = "other", f.scenario = "other"
               PROVE  TooLateFor(e, j) \/ TooLateFor(f, i)
    BY DEF BurstsNotSplit
  <2>1. i.txn \in Nat /\ j.txn \in Nat /\ e.ts \in Int /\ f.ts \in Int
    BY DEF IInv, TypeOK, TimingInv, EventsOK, IsEvents, ScheduledBursts, RowsOf
  <2>2. Abs(f.ts - e.ts) <= SameSourceWindow
    BY <2>1 DEF Abs
  <2>3. CASE i.txn <= j.txn
    BY <2>3, NotSplit
  <2>4. CASE j.txn <= i.txn
    BY <2>2, <2>4, NotSplit
  <2> QED BY <2>1, <2>3, <2>4
<1> QED BY <1>1, InitInv, InitTiming, NextInv, NextTiming, PTL DEF Spec

\* A commit leaves no burst of which an event has been held for MAX_HOLD when
\* the pass began, however fast its source extends it (_burst_is_settled).
THEOREM HoldEnds == ASSUME HoldOutlasts PROVE Spec => NoBurstHeldPastMax
<1>1. ASSUME IInv, TimingInv
      PROVE  \A p \in Pass : CommitPass(p) =>
               \A e, f \in events :
                 /\ Neighbours(e, f)
                 /\ now[p] - e.received >= MaxHold
                 /\ f.received + CommitLag < now[p] /\ ~AwaitingPartner(f, now[p])
                 => \E i \in incidents' : {e.id, f.id} \cap i.events # {}
  BY <1>1, NotHeld DEF HoldOutlasts
<1> QED BY <1>1, InitInv, InitTiming, NextInv, NextTiming, PTL DEF Spec, NoBurstHeldPastMax
=============================================================================
