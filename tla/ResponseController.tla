------------------------- MODULE ResponseController -------------------------
(***************************************************************************)
(* The response controller's executor (response-controller/executor.py)    *)
(* with its two actions, hold_promotion and lift_promotion_hold            *)
(* (actions/promotion_hold.py).  One executor runs one proposal at a time; *)
(* around it operators pull and clear the kill switch, approvers approve,  *)
(* people change the variable on GitHub by hand, and time passes.  Every   *)
(* file it reads and every request it sends is a step of its own.          *)
(*                                                                         *)
(* The variable on GitHub is an external service, modelled by the answers  *)
(* github_client.py tells apart: a request may fail before or after it     *)
(* took effect.                                                            *)
(***************************************************************************)
EXTENDS KillSwitch, FiniteSets

CONSTANTS Proposal,    \* records [id, version, type, required, created, expires]
          Approver,
          Enabled,     \* RESPONSE_ENABLED_ACTIONS
          DryRuns,     \* the values RESPONSE_DRY_RUN is started with
          ByHandValue, \* what a person may put into the variable
          Faults,      \* which faults occur: github, record, disk
          MaxFaults,   \* bound on their number
          MaxApprovals, \* bound: approvals
          MaxEdits,    \* bound: changes of the variable by hand
          MaxRuns,     \* bound: calls of Executor.run
          MaxClock     \* bound on the clock

Catalog == [hold_promotion |-> "A", lift_promotion_hold |-> "B"]

ASSUME ControllerAssumption ==
  /\ Enabled \subseteq DOMAIN Catalog
  /\ DryRuns \subseteq BOOLEAN
  /\ \A n \in {MaxFaults, MaxApprovals, MaxEdits, MaxRuns, MaxClock} : n \in Nat
  /\ \A p \in Proposal : p.required \in Nat \ {0} /\ p.created \in Nat /\ p.expires \in Nat

ASSUME ApproverIsFinite == IsFiniteSet(Approver)

VARIABLES clock, dryRun,
          approvals,   \* records [proposal, approver, time]
          hold,        \* the variable BANTIS_PROMOTION_HOLD
          executing,   \* action ids recorded as executing
          pc, job,     \* the executor: where it is, and with which proposal
          approvers,   \* the distinct approvers of the job who count
          needsAuto,   \* may the job run only while the switch is clear?
          stage,       \* what the reading of the switch under way is for
          operatorSeen,  \* the level it found in the operator file
          status,      \* of the job, once it has one
          faults, edits, runs,
          opened,      \* history: the switch permitted the job since its reading began
          writes,      \* history: per action id, the writes sent to GitHub
          failing      \* history: a run failed, and the switch was not cleared since

jobVars  == <<pc, job, approvers, needsAuto, stage, operatorSeen, status>>
gateVars == <<clock, dryRun, approvals>>
vars == <<switchVars, gateVars, hold, executing, jobVars, faults, edits, runs,
          opened, writes, failing>>

NoHold == "none"
NoJob  == [id |-> "none"]

Ids == {p.id : p \in Proposal}

Fault(kind) ==
  /\ kind \in Faults
  /\ faults < MaxFaults
  /\ faults' = faults + 1

Init ==
  /\ SwitchInit
  /\ clock = 0
  /\ dryRun \in DryRuns
  /\ approvals = {}
  /\ hold = NoHold
  /\ executing = {}
  /\ pc = "idle" /\ job = NoJob /\ approvers = {} /\ needsAuto = FALSE
  /\ stage = "decide" /\ operatorSeen = "clear" /\ status = "none" /\ opened = FALSE
  /\ faults = 0 /\ edits = 0 /\ runs = 0
  /\ writes = [id \in Ids |-> 0]
  /\ failing = FALSE

-----------------------------------------------------------------------------
(* Executor.run: the checks that read neither the switch nor GitHub. *)

Approvals(p, S) == {a \in S : p.created <= a.time /\ a.time < p.expires}

\* Mutant: any version of the proposal will do.
MatchesId(a, p) == a.proposal.id = p.id

\* An approval names an action id and the hash of one version of it.
Matches(a, p) == a.proposal = p

\* Mutant: what ran is not looked up.
AlreadyExecutedNever(p) == FALSE

AlreadyExecuted(p) == p.id \in executing

\* The status a run ends with before it looks at the switch, or "none".
Refusal(p, S) ==
  IF p.type \notin Enabled \/ AlreadyExecuted(p) THEN "refused"
  ELSE IF clock >= p.expires THEN "expired"
  ELSE IF \E a \in S : ~Matches(a, p) THEN "refused"
  ELSE "none"

Begin(p, S) ==
  /\ pc = "idle"
  /\ runs < MaxRuns
  /\ runs' = runs + 1
  /\ job' = p
  /\ status' = Refusal(p, S)
  /\ pc' = IF Refusal(p, S) = "none" THEN "read operator" ELSE "outcome"
  /\ stage' = "decide"
  /\ approvers' = {a.approver : a \in Approvals(p, S)}
  /\ needsAuto' = FALSE
  /\ UNCHANGED <<switchVars, gateVars, hold, executing, operatorSeen, faults, edits, opened, writes,
                 failing>>

-----------------------------------------------------------------------------
(* Reading the kill switch, for the decision and for every guard. *)

\* Does a switch at level l let the job act?
Permits(l, auto) == l # "execution-off" /\ (auto => l = "clear")

OpenNow == Permits(Effective(operatorFile, tripwireFile), needsAuto)

ReadOperatorFile ==
  /\ pc = "read operator"
  /\ operatorSeen' = operatorFile
  /\ opened' = OpenNow
  /\ pc' = "read tripwire"
  /\ UNCHANGED <<switchVars, gateVars, hold, executing, job, approvers, needsAuto, stage, status,
                 faults, edits, runs, writes, failing>>

LevelRead == Effective(operatorSeen, tripwireFile)

End(s) == status' = s /\ pc' = "outcome"

NeedsApproval == Catalog[job.type] = "B" \/ LevelRead # "clear"

\* Steps 7 and 8 of the executor.
Decide ==
  /\ pc = "read tripwire" /\ stage = "decide"
  /\ IF LevelRead = "execution-off" THEN End("invalidated") /\ UNCHANGED needsAuto
     ELSE IF NeedsApproval /\ Cardinality(approvers) < job.required
     THEN End("awaiting_approval") /\ UNCHANGED needsAuto
     ELSE /\ needsAuto' = ~NeedsApproval
          /\ pc' = "preconditions"
          /\ UNCHANGED status
  /\ UNCHANGED <<switchVars, gateVars, hold, executing, job, approvers, stage, operatorSeen,
                 faults, edits, runs, opened, writes, failing>>

\* Mutant: a guard after the first lets everything pass.
GuardOnce ==
  /\ pc = "read tripwire" /\ stage \in {"start", "get", "create", "delete"}
  /\ IF stage = "start" /\ ~Permits(LevelRead, needsAuto)
     THEN End("invalidated") /\ UNCHANGED stage
     ELSE IF stage = "start"
     THEN /\ stage' = IF job.type = "hold_promotion" THEN "get" ELSE "delete"
          /\ pc' = "read operator"
          /\ UNCHANGED status
     ELSE pc' = stage /\ UNCHANGED <<stage, status>>
  /\ UNCHANGED <<switchVars, gateVars, hold, executing, job, approvers, needsAuto, operatorSeen,
                 faults, edits, runs, opened, writes, failing>>

\* guard.check(): by the executor before the action starts, and by the action
\* before each of its requests.
Guard ==
  /\ pc = "read tripwire" /\ stage \in {"start", "get", "create", "delete"}
  /\ IF ~Permits(LevelRead, needsAuto) THEN End("invalidated") /\ UNCHANGED stage
     ELSE IF stage = "start"
     THEN /\ stage' = IF job.type = "hold_promotion" THEN "get" ELSE "delete"
          /\ pc' = "read operator"
          /\ UNCHANGED status
     ELSE pc' = stage /\ UNCHANGED <<stage, status>>
  /\ UNCHANGED <<switchVars, gateVars, hold, executing, job, approvers, needsAuto, operatorSeen,
                 faults, edits, runs, opened, writes, failing>>

-----------------------------------------------------------------------------
(* The action itself *)

\* preconditions and plan: both ask GitHub, and not being able to is a reason.
\* What plan reads goes into its text only.
Preconditions ==
  /\ pc = "preconditions"
  /\ \/ /\ CASE job.type = "hold_promotion" -> hold \in {NoHold, job.id}
             [] job.type = "lift_promotion_hold" -> hold # NoHold
        /\ IF dryRun THEN End("dry_run") ELSE pc' = "record" /\ UNCHANGED status
        /\ UNCHANGED faults
     \/ /\ CASE job.type = "hold_promotion" -> hold \notin {NoHold, job.id}
             [] job.type = "lift_promotion_hold" -> hold = NoHold
        /\ End("invalidated")
        /\ UNCHANGED faults
     \/ Fault("github") /\ End("invalidated")
  /\ UNCHANGED <<switchVars, gateVars, hold, executing, job, approvers, needsAuto, stage,
                 operatorSeen, edits, runs, opened, writes, failing>>

\* "executing" is recorded first; if it cannot be, the switch trips instead.
RecordExecuting ==
  /\ pc = "record"
  /\ \/ /\ executing' = executing \cup {job.id}
        /\ stage' = "start"
        /\ pc' = "read operator"
        /\ UNCHANGED <<status, faults, failing>>
     \/ /\ Fault("record")
        /\ status' = "refused"
        /\ pc' = "trip"
        /\ failing' = TRUE
        /\ UNCHANGED <<executing, stage>>
  /\ UNCHANGED <<switchVars, gateVars, hold, job, approvers, needsAuto, operatorSeen, edits, runs,
                 opened, writes>>

\* Mutant: a post-check that fails is reported and nothing else.
FailQuietly ==
  /\ status' = "failed"
  /\ pc' = "outcome"
  /\ failing' = TRUE

\* The run has failed: trip the switch, then report it.
Fail ==
  /\ status' = "failed"
  /\ pc' = "trip"
  /\ failing' = TRUE

\* HoldPromotion.execute: is there a hold already?
GetHold ==
  /\ pc = "get"
  /\ \/ /\ IF hold # NoHold THEN pc' = "verify" /\ UNCHANGED stage
           ELSE pc' = "read operator" /\ stage' = "create"
        /\ UNCHANGED <<status, faults, failing>>
     \/ Fault("github") /\ Fail /\ UNCHANGED stage
  /\ UNCHANGED <<switchVars, gateVars, hold, executing, job, approvers, needsAuto, operatorSeen,
                 edits, runs, opened, writes>>

\* A write answers, or fails with or without having taken effect.
Request(effect) ==
  \/ hold' = effect /\ pc' = "verify" /\ UNCHANGED <<status, faults, failing>>
  \/ Fault("github") /\ hold' \in {hold, effect} /\ Fail

\* POST: a variable that exists (409) is left as it is.
CreateHold ==
  /\ pc = "create"
  /\ Request(IF hold = NoHold THEN job.id ELSE hold)
  /\ writes' = [writes EXCEPT ![job.id] = @ + 1]
  /\ UNCHANGED <<switchVars, gateVars, executing, job, approvers, needsAuto, stage, operatorSeen,
                 edits, runs, opened>>

\* LiftPromotionHold.execute: DELETE, whatever the variable holds.
DeleteHold ==
  /\ pc = "delete"
  /\ Request(NoHold)
  /\ writes' = [writes EXCEPT ![job.id] = @ + 1]
  /\ UNCHANGED <<switchVars, gateVars, executing, job, approvers, needsAuto, stage, operatorSeen,
                 edits, runs, opened>>

\* Only a value with the controller's marker counts as a hold.
InPlace == IF job.type = "hold_promotion" THEN hold \in Ids ELSE hold = NoHold

Verify ==
  /\ pc = "verify"
  /\ \/ InPlace /\ End("succeeded") /\ UNCHANGED <<faults, failing>>
     \/ ~InPlace /\ Fail /\ UNCHANGED faults
     \/ Fault("github") /\ Fail
  /\ UNCHANGED <<switchVars, gateVars, hold, executing, job, approvers, needsAuto, stage,
                 operatorSeen, edits, runs, opened, writes>>

\* run returns, and what it held is gone.
Return ==
  /\ pc' = "idle" /\ job' = NoJob /\ approvers' = {} /\ needsAuto' = FALSE
  /\ stage' = "decide" /\ operatorSeen' = "clear" /\ status' = "none" /\ opened' = FALSE

\* A tripwire that cannot be written is logged, and that is all.
TripSwitch ==
  /\ pc = "trip"
  /\ \/ Trip /\ UNCHANGED <<faults, failing>>
     \/ Fault("disk") /\ failing' = FALSE /\ UNCHANGED switchVars
  /\ IF stage = "done" THEN Return
     ELSE /\ pc' = "outcome"
          /\ UNCHANGED <<job, approvers, needsAuto, stage, operatorSeen, status, opened>>
  /\ UNCHANGED <<gateVars, hold, executing, edits, runs, writes>>

\* The outcome goes into the log as well; if it cannot, the switch trips.
RecordOutcome ==
  /\ pc = "outcome"
  /\ \/ Return /\ UNCHANGED <<faults, failing>>
     \/ /\ Fault("record")
        /\ pc' = "trip" /\ stage' = "done" /\ failing' = TRUE
        /\ UNCHANGED <<job, approvers, needsAuto, operatorSeen, status, opened>>
  /\ UNCHANGED <<switchVars, gateVars, hold, executing, edits, runs, writes>>

ExecutorStep ==
  \/ ReadOperatorFile \/ Decide \/ Guard \/ Preconditions \/ RecordExecuting
  \/ GetHold \/ CreateHold \/ DeleteHold \/ Verify \/ TripSwitch \/ RecordOutcome

-----------------------------------------------------------------------------
(* Around the executor *)

Approve(p, who) ==
  /\ clock < p.expires
  /\ Cardinality(approvals) < MaxApprovals
  /\ ~\E a \in approvals : a.proposal = p /\ a.approver = who
  /\ approvals' = approvals \cup {[proposal |-> p, approver |-> who, time |-> clock]}
  /\ UNCHANGED <<switchVars, clock, dryRun, hold, executing, jobVars, faults, edits, runs,
                 opened, writes, failing>>

\* Deleting the tripwire file answers for the failures so far.
OperatorActs(o) ==
  /\ OperatorStep(o)
  /\ UNCHANGED <<gateVars, hold, executing, jobVars, faults, edits, runs, writes>>
  /\ opened' = (opened \/ (pc # "idle" /\ OpenNow'))
  /\ failing' = (failing /\ ~Untrip(o))

EditVariable ==
  /\ edits < MaxEdits
  /\ edits' = edits + 1
  /\ hold' \in (ByHandValue \cup {NoHold}) \ {hold}
  /\ UNCHANGED <<switchVars, gateVars, executing, jobVars, faults, runs, opened, writes, failing>>

Tick ==
  /\ clock < MaxClock
  /\ clock' = clock + 1
  /\ UNCHANGED <<switchVars, dryRun, approvals, hold, executing, jobVars, faults, edits, runs,
                 opened, writes, failing>>

Next ==
  \/ \E p \in Proposal, S \in SUBSET approvals : Begin(p, S)
  \/ ExecutorStep
  \/ \E p \in Proposal, who \in Approver : Approve(p, who)
  \/ \E o \in Operator : OperatorActs(o)
  \/ EditVariable
  \/ Tick

Spec == Init /\ [][Next]_vars

-----------------------------------------------------------------------------
GateOK ==
  /\ clock \in 0..MaxClock
  /\ dryRun \in DryRuns
  /\ approvals \subseteq [proposal : Proposal, approver : Approver, time : 0..MaxClock]

EffectsOK ==
  /\ hold \in Ids \cup ByHandValue \cup {NoHold}
  /\ executing \subseteq Ids
  /\ writes \in [Ids -> Nat]

JobOK ==
  /\ pc \in {"idle", "read operator", "read tripwire", "preconditions", "record", "get", "create",
            "delete", "verify", "trip", "outcome"}
  /\ job \in Proposal \cup {NoJob}
  /\ pc # "idle" => job \in Proposal
  /\ approvers \subseteq Approver
  /\ needsAuto \in BOOLEAN
  /\ stage \in {"decide", "start", "get", "create", "delete", "done"}
  /\ operatorSeen \in Levels \cup Unreadable
  /\ status \in {"none", "refused", "expired", "invalidated", "awaiting_approval", "dry_run",
                "failed", "succeeded"}
  /\ opened \in BOOLEAN /\ failing \in BOOLEAN

CountersOK == faults \in 0..MaxFaults /\ edits \in 0..MaxEdits /\ runs \in 0..MaxRuns

TypeOK == SwitchTypeOK /\ GateOK /\ EffectsOK /\ JobOK /\ CountersOK

AboutToWrite == pc \in {"create", "delete"}

\* "execute, with the kill switch re-checked before every step": no write is
\* sent unless, at some moment since the check in front of it began to read the
\* two files, they did permit this job.  Reading them one after the other does
\* not make up a permission that was never there (with one operator clearing).
StepsPermitted == AboutToWrite => opened

\* The four-eyes rule (executor.py, steps 6 and 8): what is written without the
\* right to run automatically was approved, in this very version and while it
\* was open, by as many different people as it asks for, whatever became of
\* other versions under the same id.
ApprovedExactly ==
  AboutToWrite /\ ~needsAuto =>
    Cardinality({who \in Approver :
        \E a \in approvals : a.proposal = job /\ a.approver = who
                            /\ job.created <= a.time /\ a.time < job.expires}) >= job.required

\* action_id is the idempotency key: whatever runs, fails, is lifted and is
\* presented again, at most one write is ever sent for it.
WrittenOnce == \A id \in Ids : writes[id] <= 1

\* A failed action trips the switch: after a run that failed, none writes
\* before somebody deleted the tripwire file, unless the tripwire file could not
\* be written (which _trip can only log).
AfterFailureNothingActs == failing => ~AboutToWrite
=============================================================================
