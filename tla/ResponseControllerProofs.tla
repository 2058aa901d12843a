---------------------- MODULE ResponseControllerProofs ----------------------
(***************************************************************************)
(* What the executor promises about its writes, for any number of          *)
(* proposals, approvers, executions, operators, edits and faults; and what *)
(* a kill command promises of the level it puts in place.                  *)
(***************************************************************************)
EXTENDS ResponseController, FiniteSetTheorems, TLAPS

LEMMA BoundsAreNat ==
  /\ MaxFaults \in Nat /\ MaxApprovals \in Nat /\ MaxEdits \in Nat
  /\ MaxRuns \in Nat /\ MaxClock \in Nat
BY ControllerAssumption, Zenon

(***************************************************************************)
(* Type correctness                                                        *)
(***************************************************************************)

LEMMA InitType == Init => TypeOK
<1> SUFFICES ASSUME Init PROVE TypeOK
  OBVIOUS
<1>1. SwitchTypeOK
  BY KillsAreNat DEF Init, SwitchInit, SwitchTypeOK, Levels, Unreadable
<1>2. GateOK
  BY BoundsAreNat DEF Init, GateOK
<1>3. EffectsOK
  BY DEF Init, EffectsOK
<1>4. JobOK
  BY DEF Init, JobOK, Levels
<1>5. CountersOK
  BY BoundsAreNat DEF Init, CountersOK
<1> QED BY <1>1, <1>2, <1>3, <1>4, <1>5 DEF TypeOK

\* What most steps leave alone keeps its type.
LEMMA SwitchStays == SwitchTypeOK /\ UNCHANGED switchVars => SwitchTypeOK'
BY DEF SwitchTypeOK, switchVars

LEMMA GateStays == GateOK /\ UNCHANGED gateVars => GateOK'
BY DEF GateOK, gateVars

LEMMA JobStays == JobOK /\ UNCHANGED <<jobVars, opened, failing>> => JobOK'
BY DEF JobOK, jobVars

\* A fault is one of those that were left.
LEMMA FaultType ==
  ASSUME CountersOK, NEW k, Fault(k)
  PROVE  faults' \in 0..MaxFaults
BY BoundsAreNat DEF CountersOK, Fault

LEMMA TripType == SwitchTypeOK /\ Trip => SwitchTypeOK'
BY DEF SwitchTypeOK, Trip, Levels

\* What an operator does to the switch.
LEMMA OperatorType ==
  ASSUME SwitchTypeOK, NEW o \in Operator, OperatorStep(o)
  PROVE  SwitchTypeOK'
<1>1. ASSUME NEW l \in {"auto-off", "execution-off"}, Kill(o, l) PROVE SwitchTypeOK'
  <2>1. kills' \in 0..MaxKills
    BY <1>1, KillsAreNat DEF Kill, SwitchTypeOK
  <2>2. (IF operatorFile \in Unreadable THEN l ELSE Stricter(operatorFile, l)) \in Levels
    BY DEF SwitchTypeOK, Stricter, Levels
  <2> QED BY <1>1, <2>1, <2>2 DEF Kill, SwitchTypeOK
<1>2. WriteTmp(o) => SwitchTypeOK'
  BY DEF WriteTmp, SwitchTypeOK
<1>3. Replace(o) => SwitchTypeOK'
  BY DEF Replace, SwitchTypeOK
<1>4. Clear(o) => SwitchTypeOK'
  BY DEF Clear, SwitchTypeOK, Levels
<1>5. Untrip(o) => SwitchTypeOK'
  BY DEF Untrip, SwitchTypeOK
<1> QED BY <1>1, <1>2, <1>3, <1>4, <1>5 DEF OperatorStep, KillStep

LEMMA StepType == TypeOK /\ [Next]_vars => TypeOK'
<1> SUFFICES ASSUME TypeOK, [Next]_vars PROVE TypeOK'
  OBVIOUS
<1>0. SwitchTypeOK /\ GateOK /\ EffectsOK /\ JobOK /\ CountersOK
  BY DEF TypeOK
<1>1. ASSUME NEW p \in Proposal, NEW S \in SUBSET approvals, Begin(p, S) PROVE TypeOK'
  <2>1. SwitchTypeOK'
    BY <1>0, <1>1, SwitchStays DEF Begin
  <2>2. GateOK'
    BY <1>0, <1>1, GateStays DEF Begin
  <2>3. EffectsOK'
    BY <1>0, <1>1 DEF Begin, EffectsOK
  <2>4. JobOK'
    <3>1. Refusal(p, S) \in {"none", "refused", "expired"}
      BY DEF Refusal
    <3>2. {a.approver : a \in Approvals(p, S)} \subseteq Approver
      BY <1>0 DEF Approvals, GateOK
    <3> QED BY <1>0, <1>1, <3>1, <3>2 DEF Begin, JobOK
  <2>5. CountersOK'
    <3>1. runs < MaxRuns /\ runs' = runs + 1 /\ UNCHANGED <<faults, edits>>
      BY <1>1 DEF Begin
    <3> QED BY <1>0, <3>1, BoundsAreNat DEF CountersOK
  <2> QED BY <2>1, <2>2, <2>3, <2>4, <2>5 DEF TypeOK
<1>2. ASSUME ReadOperatorFile PROVE TypeOK'
  <2>1. SwitchTypeOK'
    BY <1>0, <1>2, SwitchStays DEF ReadOperatorFile
  <2>2. GateOK'
    BY <1>0, <1>2, GateStays DEF ReadOperatorFile
  <2>3. EffectsOK'
    BY <1>0, <1>2 DEF ReadOperatorFile, EffectsOK
  <2>4. JobOK'
    BY <1>0, <1>2 DEF ReadOperatorFile, JobOK, SwitchTypeOK, OpenNow, Permits
  <2>5. CountersOK'
    BY <1>0, <1>2 DEF ReadOperatorFile, CountersOK
  <2> QED BY <2>1, <2>2, <2>3, <2>4, <2>5 DEF TypeOK
<1>3. ASSUME Decide PROVE TypeOK'
  <2>1. SwitchTypeOK'
    BY <1>0, <1>3, SwitchStays DEF Decide
  <2>2. GateOK'
    BY <1>0, <1>3, GateStays DEF Decide
  <2>3. EffectsOK'
    BY <1>0, <1>3 DEF Decide, EffectsOK
  <2>4. JobOK'
    BY <1>0, <1>3 DEF Decide, End, NeedsApproval, JobOK
  <2>5. CountersOK'
    BY <1>0, <1>3 DEF Decide, CountersOK
  <2> QED BY <2>1, <2>2, <2>3, <2>4, <2>5 DEF TypeOK
<1>4. ASSUME Guard PROVE TypeOK'
  <2>1. SwitchTypeOK'
    BY <1>0, <1>4, SwitchStays DEF Guard
  <2>2. GateOK'
    BY <1>0, <1>4, GateStays DEF Guard
  <2>3. EffectsOK'
    BY <1>0, <1>4 DEF Guard, EffectsOK
  <2>4. JobOK'
    BY <1>0, <1>4 DEF Guard, End, JobOK
  <2>5. CountersOK'
    BY <1>0, <1>4 DEF Guard, CountersOK
  <2> QED BY <2>1, <2>2, <2>3, <2>4, <2>5 DEF TypeOK
<1>5. ASSUME Preconditions PROVE TypeOK'
  <2>1. SwitchTypeOK'
    BY <1>0, <1>5, SwitchStays DEF Preconditions
  <2>2. GateOK'
    BY <1>0, <1>5, GateStays DEF Preconditions
  <2>3. EffectsOK'
    BY <1>0, <1>5 DEF Preconditions, EffectsOK
  <2>4. JobOK'
    BY <1>0, <1>5 DEF Preconditions, End, JobOK
  <2>5. CountersOK'
    BY <1>0, <1>5, FaultType DEF Preconditions, CountersOK
  <2> QED BY <2>1, <2>2, <2>3, <2>4, <2>5 DEF TypeOK
<1>6. ASSUME RecordExecuting PROVE TypeOK'
  <2>1. SwitchTypeOK'
    BY <1>0, <1>6, SwitchStays DEF RecordExecuting
  <2>2. GateOK'
    BY <1>0, <1>6, GateStays DEF RecordExecuting
  <2>3. EffectsOK'
    BY <1>0, <1>6 DEF RecordExecuting, EffectsOK, JobOK, Ids
  <2>4. JobOK'
    BY <1>0, <1>6 DEF RecordExecuting, JobOK
  <2>5. CountersOK'
    BY <1>0, <1>6, FaultType DEF RecordExecuting, CountersOK
  <2> QED BY <2>1, <2>2, <2>3, <2>4, <2>5 DEF TypeOK
<1>7. ASSUME GetHold PROVE TypeOK'
  <2>1. SwitchTypeOK'
    BY <1>0, <1>7, SwitchStays DEF GetHold
  <2>2. GateOK'
    BY <1>0, <1>7, GateStays DEF GetHold
  <2>3. EffectsOK'
    BY <1>0, <1>7 DEF GetHold, EffectsOK
  <2>4. JobOK'
    BY <1>0, <1>7 DEF GetHold, Fail, JobOK
  <2>5. CountersOK'
    BY <1>0, <1>7, FaultType DEF GetHold, CountersOK
  <2> QED BY <2>1, <2>2, <2>3, <2>4, <2>5 DEF TypeOK
<1>8. ASSUME CreateHold PROVE TypeOK'
  <2>1. SwitchTypeOK'
    BY <1>0, <1>8, SwitchStays DEF CreateHold
  <2>2. GateOK'
    BY <1>0, <1>8, GateStays DEF CreateHold
  <2>3. EffectsOK'
    <3>1. job.id \in Ids
      BY <1>0, <1>8 DEF CreateHold, JobOK, Ids
    <3>2. hold' \in Ids \cup ByHandValue \cup {NoHold}
      BY <1>0, <1>8, <3>1 DEF CreateHold, Request, EffectsOK
    <3>3. writes[job.id] + 1 \in Nat
      BY <1>0, <3>1 DEF EffectsOK
    <3>4. writes' \in [Ids -> Nat]
      BY <1>0, <1>8, <3>1, <3>3 DEF CreateHold, EffectsOK
    <3> QED BY <1>0, <1>8, <3>2, <3>4 DEF CreateHold, EffectsOK
  <2>4. JobOK'
    BY <1>0, <1>8 DEF CreateHold, Request, Fail, JobOK
  <2>5. CountersOK'
    BY <1>0, <1>8, FaultType DEF CreateHold, CountersOK, Request
  <2> QED BY <2>1, <2>2, <2>3, <2>4, <2>5 DEF TypeOK
<1>9. ASSUME DeleteHold PROVE TypeOK'
  <2>1. SwitchTypeOK'
    BY <1>0, <1>9, SwitchStays DEF DeleteHold
  <2>2. GateOK'
    BY <1>0, <1>9, GateStays DEF DeleteHold
  <2>3. EffectsOK'
    <3>1. job.id \in Ids
      BY <1>0, <1>9 DEF DeleteHold, JobOK, Ids
    <3>2. hold' \in Ids \cup ByHandValue \cup {NoHold}
      BY <1>0, <1>9, <3>1 DEF DeleteHold, Request, EffectsOK
    <3>3. writes[job.id] + 1 \in Nat
      BY <1>0, <3>1 DEF EffectsOK
    <3>4. writes' \in [Ids -> Nat]
      BY <1>0, <1>9, <3>1, <3>3 DEF DeleteHold, EffectsOK
    <3> QED BY <1>0, <1>9, <3>2, <3>4 DEF DeleteHold, EffectsOK
  <2>4. JobOK'
    BY <1>0, <1>9 DEF DeleteHold, Request, Fail, JobOK
  <2>5. CountersOK'
    BY <1>0, <1>9, FaultType DEF DeleteHold, CountersOK, Request
  <2> QED BY <2>1, <2>2, <2>3, <2>4, <2>5 DEF TypeOK
<1>10. ASSUME Verify PROVE TypeOK'
  <2>1. SwitchTypeOK'
    BY <1>0, <1>10, SwitchStays DEF Verify
  <2>2. GateOK'
    BY <1>0, <1>10, GateStays DEF Verify
  <2>3. EffectsOK'
    BY <1>0, <1>10 DEF Verify, EffectsOK
  <2>4. JobOK'
    BY <1>0, <1>10 DEF Verify, End, Fail, JobOK
  <2>5. CountersOK'
    BY <1>0, <1>10, FaultType DEF Verify, CountersOK
  <2> QED BY <2>1, <2>2, <2>3, <2>4, <2>5 DEF TypeOK
<1>11. ASSUME TripSwitch PROVE TypeOK'
  <2>1. SwitchTypeOK'
    BY <1>0, <1>11, TripType, SwitchStays DEF TripSwitch
  <2>2. GateOK'
    BY <1>0, <1>11, GateStays DEF TripSwitch
  <2>3. EffectsOK'
    BY <1>0, <1>11 DEF TripSwitch, EffectsOK
  <2>4. JobOK'
    BY <1>0, <1>11 DEF TripSwitch, Return, JobOK, NoJob, Levels
  <2>5. CountersOK'
    BY <1>0, <1>11, FaultType DEF TripSwitch, CountersOK
  <2> QED BY <2>1, <2>2, <2>3, <2>4, <2>5 DEF TypeOK
<1>12. ASSUME RecordOutcome PROVE TypeOK'
  <2>1. SwitchTypeOK'
    BY <1>0, <1>12, SwitchStays DEF RecordOutcome
  <2>2. GateOK'
    BY <1>0, <1>12, GateStays DEF RecordOutcome
  <2>3. EffectsOK'
    BY <1>0, <1>12 DEF RecordOutcome, EffectsOK
  <2>4. JobOK'
    BY <1>0, <1>12 DEF RecordOutcome, Return, JobOK, NoJob, Levels
  <2>5. CountersOK'
    BY <1>0, <1>12, FaultType DEF RecordOutcome, CountersOK
  <2> QED BY <2>1, <2>2, <2>3, <2>4, <2>5 DEF TypeOK
<1>13. ASSUME NEW p \in Proposal, NEW who \in Approver, Approve(p, who) PROVE TypeOK'
  <2>1. SwitchTypeOK'
    BY <1>0, <1>13, SwitchStays DEF Approve
  <2>2. GateOK'
    BY <1>0, <1>13 DEF Approve, GateOK
  <2>3. EffectsOK'
    BY <1>0, <1>13 DEF Approve, EffectsOK
  <2>4. JobOK'
    BY <1>0, <1>13, JobStays DEF Approve
  <2>5. CountersOK'
    BY <1>0, <1>13 DEF Approve, CountersOK
  <2> QED BY <2>1, <2>2, <2>3, <2>4, <2>5 DEF TypeOK
<1>14. ASSUME NEW o \in Operator, OperatorActs(o) PROVE TypeOK'
  <2>1. SwitchTypeOK'
    BY <1>0, <1>14, OperatorType DEF OperatorActs
  <2>2. GateOK'
    BY <1>0, <1>14, GateStays DEF OperatorActs
  <2>3. EffectsOK'
    BY <1>0, <1>14 DEF OperatorActs, EffectsOK
  <2>4. JobOK'
    BY <1>0, <1>14 DEF OperatorActs, jobVars, JobOK
  <2>5. CountersOK'
    BY <1>0, <1>14 DEF OperatorActs, CountersOK
  <2> QED BY <2>1, <2>2, <2>3, <2>4, <2>5 DEF TypeOK
<1>15. ASSUME EditVariable PROVE TypeOK'
  <2>1. SwitchTypeOK'
    BY <1>0, <1>15, SwitchStays DEF EditVariable
  <2>2. GateOK'
    BY <1>0, <1>15, GateStays DEF EditVariable
  <2>3. EffectsOK'
    BY <1>0, <1>15 DEF EditVariable, EffectsOK
  <2>4. JobOK'
    BY <1>0, <1>15, JobStays DEF EditVariable
  <2>5. CountersOK'
    BY <1>0, <1>15, BoundsAreNat DEF EditVariable, CountersOK
  <2> QED BY <2>1, <2>2, <2>3, <2>4, <2>5 DEF TypeOK
<1>16. ASSUME Tick PROVE TypeOK'
  <2>1. SwitchTypeOK'
    BY <1>0, <1>16, SwitchStays DEF Tick
  <2>2. GateOK'
    BY <1>0, <1>16, BoundsAreNat DEF Tick, GateOK
  <2>3. EffectsOK'
    BY <1>0, <1>16 DEF Tick, EffectsOK
  <2>4. JobOK'
    BY <1>0, <1>16, JobStays DEF Tick
  <2>5. CountersOK'
    BY <1>0, <1>16 DEF Tick, CountersOK
  <2> QED BY <2>1, <2>2, <2>3, <2>4, <2>5 DEF TypeOK
<1>17. ASSUME UNCHANGED vars PROVE TypeOK'
  <2>1. SwitchTypeOK' /\ GateOK' /\ JobOK'
    BY <1>0, <1>17, SwitchStays, GateStays, JobStays DEF vars
  <2>2. EffectsOK' /\ CountersOK'
    BY <1>0, <1>17 DEF vars, EffectsOK, CountersOK
  <2> QED BY <2>1, <2>2 DEF TypeOK
<1> QED
  BY <1>1, <1>2, <1>3, <1>4, <1>5, <1>6, <1>7, <1>8, <1>9, <1>10, <1>11, <1>12, <1>13, <1>14,
     <1>15, <1>16, <1>17 DEF Next, ExecutorStep

\* The state of the executor and of the switch is well typed.
THEOREM TypeCorrect == Spec => []TypeOK
<1>1. Init => TypeOK
  BY InitType
<1>2. TypeOK /\ [Next]_vars => TypeOK'
  BY StepType
<1> QED
  BY <1>1, <1>2, PTL DEF Spec

(***************************************************************************)
(* The invariants                                                          *)
(***************************************************************************)

\* Between the checks of a run and its end.
Running == pc \notin {"idle", "outcome", "trip"}

\* Where a run is fixes what the next reading of the switch is for.
StageFits ==
  /\ pc \in {"preconditions", "record"} => stage = "decide"
  /\ pc \in {"get", "create", "delete", "verify"} => stage \in {"get", "create", "delete"}
  /\ Running => stage # "done"

\* Those who approved exactly this proposal while it was open.
Vouched(p) ==
  {who \in Approver : \E a \in approvals : a.proposal = p /\ a.approver = who
                                          /\ p.created <= a.time /\ a.time < p.expires}

\* The approvers a run counts are among them, and enough once it has decided.
Vetted ==
  Running =>
    /\ approvers \subseteq Vouched(job)
    /\ (stage # "decide" \/ pc \in {"preconditions", "record"}) /\ ~needsAuto
         => Cardinality(approvers) >= job.required

\* An action id is recorded before its one write.
WriteAccount ==
  /\ \A id \in Ids : writes[id] <= 1 /\ (id \notin executing => writes[id] = 0)
  /\ Running /\ stage = "decide" => job.id \notin executing
  /\ Running /\ stage # "decide" /\ pc # "verify" => job.id \in executing /\ writes[job.id] = 0

\* After a failure the tripwire is about to be written, or stops whoever reads it.
Tripped ==
  failing => \/ pc = "trip"
             \/ /\ tripwireFile = "execution-off"
                /\ pc \in {"idle", "read operator", "read tripwire", "outcome"}

\* With one operator: the tripwire is deleted only over a cleared switch, and a
\* reading that would permit the job is of a state that did.
OneOperator == \A o, q \in Operator : o = q

Opened ==
  /\ \A o \in Operator : at[o] = "untrip" => operatorFile = "clear"
  /\ pc = "read tripwire" => opened \/ ~Permits(LevelRead, needsAuto)
  /\ AboutToWrite => opened

(***************************************************************************)
(* They are kept                                                           *)
(***************************************************************************)

\* Whatever is in the operator file.
LEMMA TripwireStops ==
  ASSUME operatorSeen \in Levels \cup Unreadable, tripwireFile = "execution-off"
  PROVE  LevelRead = "execution-off"
<1>1. CASE operatorSeen \in Unreadable
  BY <1>1 DEF LevelRead, Effective
<1>2. CASE operatorSeen = "execution-off"
  BY <1>2 DEF LevelRead, Effective, Stricter, Unreadable
<1>3. CASE operatorSeen \in {"clear", "auto-off"}
  <2>1. Rank("execution-off") = 2 /\ Rank(operatorSeen) \in {0, 1}
    BY <1>3 DEF Rank
  <2> QED BY <1>3, <2>1 DEF LevelRead, Effective, Stricter, Unreadable
<1> QED BY <1>1, <1>2, <1>3 DEF Levels

LEMMA InitInvariants ==
  Init => StageFits /\ Vetted /\ WriteAccount /\ Tripped /\ Opened
BY DEF Init, SwitchInit, StageFits, Vetted, WriteAccount, Tripped, Opened, AboutToWrite

\* The stages follow the run.
LEMMA StageStep ==
  ASSUME TypeOK, StageFits, [Next]_vars
  PROVE  StageFits'
<1>1. ASSUME NEW p \in Proposal, NEW S \in SUBSET approvals, Begin(p, S) PROVE StageFits'
  BY <1>1 DEF Begin, StageFits
<1>2. CASE ReadOperatorFile
  BY <1>2 DEF ReadOperatorFile, StageFits, Running
<1>3. CASE Decide
  BY <1>3 DEF Decide, End, StageFits
<1>4. CASE Guard
  BY <1>4 DEF Guard, End, StageFits
<1>5. CASE Preconditions
  BY <1>5 DEF Preconditions, End, StageFits
<1>6. CASE RecordExecuting
  BY <1>6 DEF RecordExecuting, StageFits
<1>7. CASE GetHold
  BY <1>7 DEF GetHold, Fail, StageFits
<1>8. CASE CreateHold
  BY <1>8 DEF CreateHold, Request, Fail, StageFits
<1>9. CASE DeleteHold
  BY <1>9 DEF DeleteHold, Request, Fail, StageFits
<1>10. CASE Verify
  BY <1>10 DEF Verify, End, Fail, StageFits
<1>11. CASE TripSwitch
  BY <1>11 DEF TripSwitch, Return, StageFits
<1>12. CASE RecordOutcome
  BY <1>12 DEF RecordOutcome, Return, StageFits, Running
<1>13. ASSUME NEW p \in Proposal, NEW who \in Approver, Approve(p, who) PROVE StageFits'
  BY <1>13 DEF Approve, jobVars, StageFits, Running
<1>14. ASSUME NEW o \in Operator, OperatorActs(o) PROVE StageFits'
  BY <1>14 DEF OperatorActs, jobVars, StageFits, Running
<1>15. CASE EditVariable
  BY <1>15 DEF EditVariable, jobVars, StageFits, Running
<1>16. CASE Tick
  BY <1>16 DEF Tick, jobVars, StageFits, Running
<1>17. CASE UNCHANGED vars
  BY <1>17 DEF vars, jobVars, StageFits, Running
<1> QED
  BY <1>1, <1>2, <1>3, <1>4, <1>5, <1>6, <1>7, <1>8, <1>9, <1>10, <1>11, <1>12, <1>13, <1>14,
     <1>15, <1>16, <1>17 DEF Next, ExecutorStep

\* The approvers counted stay approvers of this proposal.
LEMMA VettedStep ==
  ASSUME TypeOK, StageFits, Vetted, [Next]_vars
  PROVE  Vetted'
<1>0. SwitchTypeOK /\ GateOK /\ EffectsOK /\ JobOK
  BY DEF TypeOK
<1>1. ASSUME NEW p \in Proposal, NEW S \in SUBSET approvals, Begin(p, S) PROVE Vetted'
  <2>1. Refusal(p, S) = "none" => \A a \in S : a.proposal = p
    BY DEF Refusal, Matches
  <2>2. Refusal(p, S) = "none" => approvers' \subseteq Vouched(p)
    BY <1>0, <1>1, <2>1 DEF Begin, Approvals, Vouched, GateOK
  <2>3. Running' => Refusal(p,
     S) = "none" /\ pc' = "read operator" /\ stage' = "decide" /\ job' = p
    BY <1>1 DEF Begin, Running
  <2>4. UNCHANGED approvals
    BY <1>1 DEF Begin, gateVars
  <2>5. ASSUME Running' PROVE approvers' \subseteq Vouched(job)'
    BY <2>2, <2>3, <2>4, <2>5 DEF Vouched
  <2> QED BY <2>3, <2>5 DEF Vetted
<1>2. CASE ReadOperatorFile
  BY <1>2 DEF ReadOperatorFile, gateVars, Vetted, Running, Vouched
<1>3. CASE Decide
  <2>1. Cardinality(approvers) \in Nat
    BY <1>0, FS_CardinalityType, FS_Subset, ApproverIsFinite DEF JobOK
  <2>2. job \in Proposal /\ job.required \in Nat
    BY <1>0, <1>3, ControllerAssumption DEF Decide, JobOK
  <2>3. Running' => /\ ~(NeedsApproval /\ Cardinality(approvers) < job.required)
                    /\ needsAuto' = ~NeedsApproval
    BY <1>3 DEF Decide, End, Running
  <2>4. ASSUME Running', ~needsAuto' PROVE Cardinality(approvers) >= job.required
    <3>1. NeedsApproval \in BOOLEAN
      BY DEF NeedsApproval
    <3>2. ~(Cardinality(approvers) < job.required)
      BY <2>3, <2>4, <3>1
    <3> QED BY <2>1, <2>2, <3>2
  <2>5. Running /\ UNCHANGED <<job, approvers, approvals>>
    BY <1>3 DEF Decide, Running, gateVars
  <2> QED BY <2>4, <2>5 DEF Vetted, Vouched
<1>4. CASE Guard
  BY <1>4 DEF Guard, gateVars, Vetted, Running, Vouched
<1>5. CASE Preconditions
  BY <1>5 DEF Preconditions, gateVars, Vetted, Running, Vouched
<1>6. CASE RecordExecuting
  BY <1>6 DEF RecordExecuting, gateVars, Vetted, Running, Vouched
<1>7. CASE GetHold
  BY <1>7 DEF GetHold, gateVars, Vetted, Running, StageFits, Vouched
<1>8. CASE CreateHold
  BY <1>8 DEF CreateHold, Request, Fail, gateVars, Vetted, Running, Vouched
<1>9. CASE DeleteHold
  BY <1>9 DEF DeleteHold, Request, Fail, gateVars, Vetted, Running, Vouched
<1>10. CASE Verify
  BY <1>10 DEF Verify, End, Fail, Vetted, Running
<1>11. CASE TripSwitch
  BY <1>11 DEF TripSwitch, Return, Vetted, Running
<1>12. CASE RecordOutcome
  BY <1>12 DEF RecordOutcome, Return, Vetted, Running
<1>13. ASSUME NEW p \in Proposal, NEW who \in Approver, Approve(p, who) PROVE Vetted'
  <2>1. approvals \subseteq approvals' /\ UNCHANGED <<pc, job, approvers, stage, needsAuto>>
    BY <1>13 DEF Approve, jobVars
  <2>2. Vouched(job) \subseteq Vouched(job)'
    BY <2>1 DEF Vouched
  <2> QED BY <2>1, <2>2 DEF Vetted, Running
<1>14. ASSUME NEW o \in Operator, OperatorActs(o) PROVE Vetted'
  BY <1>14 DEF OperatorActs, jobVars, gateVars, Vetted, Running, Vouched
<1>15. CASE EditVariable
  BY <1>15 DEF EditVariable, jobVars, gateVars, Vetted, Running, Vouched
<1>16. CASE Tick
  BY <1>16 DEF Tick, jobVars, Vetted, Running, Vouched
<1>17. CASE UNCHANGED vars
  BY <1>17 DEF vars, jobVars, gateVars, Vetted, Running, Vouched
<1> QED
  BY <1>1, <1>2, <1>3, <1>4, <1>5, <1>6, <1>7, <1>8, <1>9, <1>10, <1>11, <1>12, <1>13, <1>14,
     <1>15, <1>16, <1>17 DEF Next, ExecutorStep

\* An action id is written for once.
LEMMA WriteStep ==
  ASSUME TypeOK, StageFits, WriteAccount, [Next]_vars
  PROVE  WriteAccount'
<1>0. SwitchTypeOK /\ GateOK /\ EffectsOK /\ JobOK
  BY DEF TypeOK
<1>1. ASSUME NEW p \in Proposal, NEW S \in SUBSET approvals, Begin(p, S) PROVE WriteAccount'
  <2>1. Running' => ~AlreadyExecuted(p) /\ job' = p /\ stage' = "decide"
    BY <1>1 DEF Begin, Running, Refusal
  <2> QED BY <1>1, <2>1 DEF Begin, WriteAccount, AlreadyExecuted
<1>2. CASE ReadOperatorFile
  BY <1>2 DEF ReadOperatorFile, WriteAccount, Running
<1>3. CASE Decide
  BY <1>3 DEF Decide, WriteAccount, Running
<1>4. CASE Guard
  BY <1>4 DEF Guard, WriteAccount, Running
<1>5. CASE Preconditions
  BY <1>5 DEF Preconditions, WriteAccount, Running
<1>6. CASE RecordExecuting
  BY <1>0, <1>6 DEF RecordExecuting, WriteAccount, Running, JobOK, Ids
<1>7. CASE GetHold
  BY <1>7 DEF GetHold, WriteAccount, Running, StageFits
<1>8. CASE CreateHold
  BY <1>8 DEF CreateHold, Request, Fail, WriteAccount, Running, StageFits
<1>9. CASE DeleteHold
  BY <1>9 DEF DeleteHold, Request, Fail, WriteAccount, Running, StageFits
<1>10. CASE Verify
  BY <1>10 DEF Verify, End, Fail, WriteAccount, Running
<1>11. CASE TripSwitch
  BY <1>11 DEF TripSwitch, Return, WriteAccount, Running
<1>12. CASE RecordOutcome
  BY <1>12 DEF RecordOutcome, Return, WriteAccount, Running
<1>13. ASSUME NEW p \in Proposal, NEW who \in Approver, Approve(p, who) PROVE WriteAccount'
  BY <1>13 DEF Approve, jobVars, WriteAccount, Running
<1>14. ASSUME NEW o \in Operator, OperatorActs(o) PROVE WriteAccount'
  BY <1>14 DEF OperatorActs, jobVars, WriteAccount, Running
<1>15. CASE EditVariable
  BY <1>15 DEF EditVariable, jobVars, WriteAccount, Running
<1>16. CASE Tick
  BY <1>16 DEF Tick, jobVars, WriteAccount, Running
<1>17. CASE UNCHANGED vars
  BY <1>17 DEF vars, jobVars, WriteAccount, Running
<1> QED
  BY <1>1, <1>2, <1>3, <1>4, <1>5, <1>6, <1>7, <1>8, <1>9, <1>10, <1>11, <1>12, <1>13, <1>14,
     <1>15, <1>16, <1>17 DEF Next, ExecutorStep

\* A failure stops later actions until the tripwire is deleted.
LEMMA TrippedStep ==
  ASSUME TypeOK, Tripped, [Next]_vars
  PROVE  Tripped'
<1>0. SwitchTypeOK /\ GateOK /\ EffectsOK /\ JobOK
  BY DEF TypeOK
<1>1. ASSUME NEW p \in Proposal, NEW S \in SUBSET approvals, Begin(p, S) PROVE Tripped'
  <2>1. pc' \in {"read operator", "outcome"} /\ UNCHANGED <<failing, tripwireFile>> /\ pc = "idle"
    BY <1>1 DEF Begin, switchVars
  <2> QED BY <2>1 DEF Tripped
<1>2. CASE ReadOperatorFile
  BY <1>2 DEF ReadOperatorFile, switchVars, Tripped
<1>3. CASE Decide
  <2>1. tripwireFile = "execution-off" => LevelRead = "execution-off"
    BY <1>0, TripwireStops DEF JobOK
  <2> QED BY <1>3, <2>1 DEF Decide, End, Tripped, switchVars
<1>4. CASE Guard
  <2>1. tripwireFile = "execution-off" => LevelRead = "execution-off"
    BY <1>0, TripwireStops DEF JobOK
  <2> QED BY <1>4, <2>1 DEF Guard, End, Permits, Tripped, switchVars
<1>5. CASE Preconditions
  BY <1>5 DEF Preconditions, Tripped
<1>6. CASE RecordExecuting
  BY <1>6 DEF RecordExecuting, Tripped
<1>7. CASE GetHold
  BY <1>7 DEF GetHold, Fail, Tripped
<1>8. CASE CreateHold
  BY <1>8 DEF CreateHold, Request, Fail, Tripped
<1>9. CASE DeleteHold
  BY <1>9 DEF DeleteHold, Request, Fail, Tripped
<1>10. CASE Verify
  BY <1>10 DEF Verify, Fail, Tripped
<1>11. CASE TripSwitch
  BY <1>11 DEF TripSwitch, Trip, Return, Tripped
<1>12. CASE RecordOutcome
  BY <1>12 DEF RecordOutcome, Return, switchVars, Tripped
<1>13. ASSUME NEW p \in Proposal, NEW who \in Approver, Approve(p, who) PROVE Tripped'
  BY <1>13 DEF Approve, jobVars, switchVars, Tripped
<1>14. ASSUME NEW o \in Operator, OperatorActs(o) PROVE Tripped'
  <2>1. CASE Untrip(o)
    BY <1>14, <2>1 DEF OperatorActs, Tripped
  <2>2. CASE ~Untrip(o)
    <3>1. UNCHANGED tripwireFile
      BY <1>14, <2>2 DEF OperatorActs, OperatorStep, KillStep, Kill, WriteTmp, Replace, Clear
    <3> QED BY <1>14, <3>1 DEF OperatorActs, jobVars, Tripped
  <2> QED BY <2>1, <2>2
<1>15. CASE EditVariable
  BY <1>15 DEF EditVariable, jobVars, switchVars, Tripped
<1>16. CASE Tick
  BY <1>16 DEF Tick, jobVars, switchVars, Tripped
<1>17. CASE UNCHANGED vars
  BY <1>17 DEF vars, jobVars, switchVars, Tripped
<1> QED
  BY <1>1, <1>2, <1>3, <1>4, <1>5, <1>6, <1>7, <1>8, <1>9, <1>10, <1>11, <1>12, <1>13, <1>14,
     <1>15, <1>16, <1>17 DEF Next, ExecutorStep

\* With one operator, a reading makes up no permission.
LEMMA OpenedStep ==
  ASSUME TypeOK, OneOperator, Opened, [Next]_vars
  PROVE  Opened'
<1>0. SwitchTypeOK /\ GateOK /\ EffectsOK /\ JobOK
  BY DEF TypeOK
<1>1. ASSUME NEW p \in Proposal, NEW S \in SUBSET approvals, Begin(p, S) PROVE Opened'
  <2>1. pc' \in {"read operator", "outcome"} /\ UNCHANGED <<at, operatorFile>>
    BY <1>1 DEF Begin, switchVars
  <2> QED BY <2>1 DEF Opened, AboutToWrite
<1>2. CASE ReadOperatorFile
  BY <1>2 DEF ReadOperatorFile, Opened, AboutToWrite, LevelRead, OpenNow, switchVars
<1>3. CASE Decide
  BY <1>3 DEF Decide, End, switchVars, Opened, AboutToWrite
<1>4. CASE Guard
  BY <1>4 DEF Guard, End, switchVars, Opened, AboutToWrite
<1>5. CASE Preconditions
  BY <1>5 DEF Preconditions, End, switchVars, Opened, AboutToWrite
<1>6. CASE RecordExecuting
  BY <1>6 DEF RecordExecuting, switchVars, Opened, AboutToWrite
<1>7. CASE GetHold
  BY <1>7 DEF GetHold, Fail, switchVars, Opened, AboutToWrite
<1>8. CASE CreateHold
  BY <1>8 DEF CreateHold, switchVars, Opened, AboutToWrite
<1>9. CASE DeleteHold
  BY <1>9 DEF DeleteHold, switchVars, Opened, AboutToWrite
<1>10. CASE Verify
  BY <1>10 DEF Verify, End, Fail, switchVars, Opened, AboutToWrite
<1>11. CASE TripSwitch
  <2>1. UNCHANGED <<at, operatorFile>> /\ pc' \in {"idle", "outcome"}
    BY <1>11 DEF TripSwitch, Trip, Return, switchVars
  <2> QED BY <2>1 DEF Opened, AboutToWrite
<1>12. CASE RecordOutcome
  BY <1>12 DEF RecordOutcome, Return, switchVars, Opened, AboutToWrite
<1>13. ASSUME NEW p \in Proposal, NEW who \in Approver, Approve(p, who) PROVE Opened'
  BY <1>13 DEF Approve, jobVars, switchVars, Opened, AboutToWrite, LevelRead
<1>14. ASSUME NEW o \in Operator, OperatorActs(o) PROVE Opened'
  <2>1. UNCHANGED <<pc, operatorSeen, needsAuto>> /\ (opened => opened')
    BY <1>14 DEF OperatorActs, jobVars
  <2>2. CASE Untrip(o)
    <3>1. operatorFile' = "clear" /\ tripwireFile' = "missing"
      BY <2>2 DEF Untrip, Opened
    <3>2. OpenNow'
      BY <3>1 DEF OpenNow, Effective, Permits, Unreadable
    <3>3. pc # "idle" => opened'
      BY <1>14, <3>2 DEF OperatorActs
    <3>4. \A q \in Operator : at'[q] # "untrip"
      BY <1>0, <2>2 DEF Untrip, OneOperator, SwitchTypeOK
    <3> QED BY <2>1, <3>3, <3>4 DEF Opened, AboutToWrite
  <2>3. CASE ~Untrip(o)
    <3>1. UNCHANGED tripwireFile
      BY <1>14, <2>3 DEF OperatorActs, OperatorStep, KillStep, Kill, WriteTmp, Replace, Clear
    <3>2. at'[o] = "untrip" => operatorFile' = "clear"
      BY <1>0, <1>14, <2>3 DEF OperatorActs, OperatorStep, KillStep, Kill, WriteTmp, Replace,
         Clear,
                           SwitchTypeOK
    <3>3. \A q \in Operator : q = o
      BY DEF OneOperator
    <3> QED BY <2>1, <3>1, <3>2, <3>3 DEF Opened, AboutToWrite, LevelRead
  <2> QED BY <2>2, <2>3
<1>15. CASE EditVariable
  BY <1>15 DEF EditVariable, jobVars, switchVars, Opened, AboutToWrite, LevelRead
<1>16. CASE Tick
  BY <1>16 DEF Tick, jobVars, switchVars, Opened, AboutToWrite, LevelRead
<1>17. CASE UNCHANGED vars
  BY <1>17 DEF vars, jobVars, switchVars, Opened, AboutToWrite, LevelRead
<1> QED
  BY <1>1, <1>2, <1>3, <1>4, <1>5, <1>6, <1>7, <1>8, <1>9, <1>10, <1>11, <1>12, <1>13, <1>14,
     <1>15, <1>16, <1>17 DEF Next, ExecutorStep

(***************************************************************************)
(* The theorems                                                            *)
(***************************************************************************)

\* Every write was approved in the version it carries out, or was allowed to
\* run automatically (executor.py, steps 6 to 8).
THEOREM EveryWriteApproved == Spec => []ApprovedExactly
<1> DEFINE IInv == TypeOK /\ StageFits /\ Vetted
<1>1. Init => IInv
  BY InitType, InitInvariants
<1>2. IInv /\ [Next]_vars => IInv'
  BY StepType, StageStep, VettedStep
<1>3. IInv => ApprovedExactly
  <2> SUFFICES ASSUME IInv, AboutToWrite,
     ~needsAuto PROVE Cardinality(Vouched(job)) >= job.required
    BY DEF ApprovedExactly, Vouched
  <2>1. approvers \subseteq Vouched(job) /\ Cardinality(approvers) >= job.required
    BY DEF AboutToWrite, Vetted, StageFits, Running
  <2>2. IsFiniteSet(Vouched(job))
    BY FS_Subset, ApproverIsFinite DEF Vouched
  <2>3. Cardinality(approvers) <= Cardinality(Vouched(job))
    BY <2>1, <2>2, FS_Subset
  <2>4. Cardinality(approvers) \in Nat /\ Cardinality(Vouched(job)) \in Nat
    BY <2>1, <2>2, FS_Subset, FS_CardinalityType
  <2>5. job.required \in Nat
    BY ControllerAssumption DEF AboutToWrite, TypeOK, JobOK
  <2> QED BY <2>1, <2>3, <2>4, <2>5
<1> QED
  BY <1>1, <1>2, <1>3, PTL DEF Spec

\* However often an action id is presented, one write is sent for it.
THEOREM OneWritePerAction == Spec => []WrittenOnce
<1> DEFINE IInv == TypeOK /\ StageFits /\ WriteAccount
<1>1. Init => IInv
  BY InitType, InitInvariants
<1>2. IInv /\ [Next]_vars => IInv'
  BY StepType, StageStep, WriteStep
<1>3. IInv => WrittenOnce
  BY DEF WriteAccount, WrittenOnce
<1> QED
  BY <1>1, <1>2, <1>3, PTL DEF Spec

\* After a failure nothing is written before the tripwire file is deleted.
THEOREM FailureStops == Spec => []AfterFailureNothingActs
<1> DEFINE IInv == TypeOK /\ Tripped
<1>1. Init => IInv
  BY InitType, InitInvariants
<1>2. IInv /\ [Next]_vars => IInv'
  BY StepType, TrippedStep
<1>3. IInv => AfterFailureNothingActs
  BY DEF Tripped, AfterFailureNothingActs, AboutToWrite
<1> QED
  BY <1>1, <1>2, <1>3, PTL DEF Spec

\* With one operator, every write follows a moment at which the switch permitted
\* it, after the check in front of it began.
THEOREM SwitchRespected == OneOperator /\ Spec => []StepsPermitted
<1> SUFFICES ASSUME OneOperator PROVE Spec => []StepsPermitted
  OBVIOUS
<1> DEFINE IInv == TypeOK /\ Opened
<1>1. Init => IInv
  BY InitType, InitInvariants
<1>2. IInv /\ [Next]_vars => IInv'
  BY StepType, OpenedStep
<1>3. IInv => StepsPermitted
  BY DEF Opened, StepsPermitted
<1> QED
  BY <1>1, <1>2, <1>3, PTL DEF Spec

(***************************************************************************)
(* The kill command                                                        *)
(***************************************************************************)

\* What a command under way will put in place is at least as strict as what is
\* there, and once written it is what waits in the temporary file.
PendingIsStricter ==
  \A o \in Operator :
    /\ at[o] \in {"write", "replace"} /\ operatorFile \in Levels
         => Rank(level[o]) >= Rank(operatorFile)
    /\ at[o] = "replace" => tmpFile = level[o]

LEMMA StricterIsStricter ==
  ASSUME NEW l \in Levels, NEW m \in Levels
  PROVE  Rank(Stricter(l, m)) >= Rank(l)
BY DEF Levels, Stricter, Rank

\* With one operator, nobody clears or renames in between.
LEMMA PendingStep ==
  ASSUME OneOperator, SwitchTypeOK, PendingIsStricter, [SwitchNext]_switchVars
  PROVE  PendingIsStricter'
<1>1. ASSUME NEW o \in Operator, OperatorStep(o) PROVE PendingIsStricter'
  <2>0. \A q \in Operator : q = o
    BY DEF OneOperator
  <2>1. ASSUME NEW l \in {"auto-off", "execution-off"}, Kill(o, l) PROVE PendingIsStricter'
    <3>1. l \in Levels /\ at'[o] = "write" /\ operatorFile' = operatorFile
      BY <2>1 DEF Kill, SwitchTypeOK, Levels
    <3>2. operatorFile \in Levels => level'[o] = Stricter(operatorFile, l)
      BY <2>1 DEF Kill, SwitchTypeOK, Levels, Unreadable
    <3>3. operatorFile \in Levels => Rank(level'[o]) >= Rank(operatorFile)
      BY <3>1, <3>2, StricterIsStricter
    <3> QED BY <2>0, <3>1, <3>3 DEF PendingIsStricter
  <2>2. CASE WriteTmp(o)
    BY <2>0, <2>2 DEF WriteTmp, PendingIsStricter, SwitchTypeOK
  <2>3. CASE Replace(o) \/ Clear(o) \/ Untrip(o)
    BY <2>0, <2>3 DEF Replace, Clear, Untrip, PendingIsStricter, SwitchTypeOK
  <2> QED BY <1>1, <2>1, <2>2, <2>3 DEF OperatorStep, KillStep
<1>2. CASE Trip \/ UNCHANGED switchVars
  BY <1>2 DEF Trip, switchVars, PendingIsStricter
<1> QED BY <1>1, <1>2 DEF SwitchNext

\* "Never lowers the current operator level" (kill_switch.py, engage): true of
\* one operator at a time, whatever the controller trips meanwhile.
THEOREM KillsNeverLower == OneOperator /\ SwitchSpec => EngageNeverLowers
<1> SUFFICES ASSUME OneOperator PROVE SwitchSpec => EngageNeverLowers
  OBVIOUS
<1> DEFINE IInv == SwitchTypeOK /\ PendingIsStricter
<1>1. SwitchInit => IInv
  BY KillsAreNat DEF SwitchInit, SwitchTypeOK, PendingIsStricter, Levels, Unreadable
<1>2. IInv /\ [SwitchNext]_switchVars => IInv'
  <2> SUFFICES ASSUME IInv, [SwitchNext]_switchVars PROVE IInv'
    OBVIOUS
  <2>1. SwitchTypeOK'
    BY OperatorType, TripType, SwitchStays DEF SwitchNext
  <2> QED BY <2>1, PendingStep
<1>3. IInv => \A o \in Operator : Replace(o) /\ operatorFile \in Levels
                => Rank(operatorFile') >= Rank(operatorFile)
  <2> SUFFICES ASSUME IInv, NEW o \in Operator, Replace(o), operatorFile \in Levels
               PROVE  Rank(operatorFile') >= Rank(operatorFile)
    OBVIOUS
  <2>1. tmpFile = level[o] /\ level[o] \in Levels /\ Rank(level[o]) >= Rank(operatorFile)
    BY DEF Replace, PendingIsStricter, SwitchTypeOK
  <2>2. operatorFile' = level[o]
    BY <2>1 DEF Replace, Levels
  <2> QED BY <2>1, <2>2
<1>4. IInv /\ [SwitchNext]_switchVars
        => [\A o \in Operator : Replace(o) /\ operatorFile \in Levels
              => Rank(operatorFile') >= Rank(operatorFile)]_switchVars
  BY <1>3
<1> QED
  BY <1>1, <1>2, <1>4, PTL DEF SwitchSpec, EngageNeverLowers
=============================================================================
