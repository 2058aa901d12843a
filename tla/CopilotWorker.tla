---------------------------- MODULE CopilotWorker ----------------------------
(***************************************************************************)
(* The AI Copilot's workers (ai-copilot/worker.py) and the decision log    *)
(* they share (decision_log.py): several processes poll the detection      *)
(* engine for incidents and have each analysed by a paid provider.         *)
(*                                                                         *)
(* A worker's poll is cut where other processes can get in between: the    *)
(* list, each look at the log, the claim, the fetch of the events, the     *)
(* provider's answer, the append.  Every transaction of the log is one     *)
(* atomic step (BEGIN IMMEDIATE).  Time is discrete; lookback 60 s, lease  *)
(* 15 min, back-off 30 s to 10 min, rolling hour and UTC day are constants. *)
(***************************************************************************)
EXTENDS Integers, FiniteSets, Sequences

CONSTANTS Worker,
          Incident,        \* a set of numbers: incident ids in their order
          Severity,        \* [Incident -> 0..3], _SEVERITY_RANK
          Uncorrelated,    \* [Worker -> SUBSET Incident]: what its policy skips
          Since,           \* the start of every worker, or Startup
          Lookback, Lease, AnalysisTime, LockWait,
          RetryAfter, MaxRetryAfter,
          RateWindow, RateLimit,          \* max_analyses_per_hour
          DayLength, TokenBudget,         \* max_tokens_per_day
          Tokens,          \* what one analysis can cost
          CommitLag,       \* time from an incident's created_at to its commit
          Faults,          \* which occur: crash, fetch, outage, log, evidence, reply
          MaxFaults,       \* bound on their number
          Horizon,         \* bound: no incident and no fault after it
          MaxClock         \* bound on the clock

\* Started without --since: only incidents created after startup.
Startup == -1

ASSUME WorkerAssumption ==
  /\ Incident \subseteq Nat
  /\ Severity \in [Incident -> 0..3]
  /\ Uncorrelated \in [Worker -> SUBSET Incident]
  /\ Since \in Nat \cup {Startup}
  /\ \A n \in {Lookback, Lease, AnalysisTime, LockWait, RetryAfter, MaxRetryAfter, RateWindow,
               RateLimit, TokenBudget, CommitLag, MaxFaults, Horizon,
               MaxClock} : n \in Nat
  /\ DayLength \in Nat \ {0}
  /\ Tokens \subseteq Nat

\* A claim outlives the analysis it is for: one event fetch (10 s) and at most
\* 3 model calls, each tried 3 times for 60 s, against a lease of 900 s.
ASSUME LeaseOutlivesAnalysis == AnalysisTime + LockWait < Lease

VARIABLES clock,
          created,      \* per incident: created_at once it is listed, else Absent
          log,          \* table decisions, in order
          claims,       \* table claims: per incident the holder and the time
          faults,       \* faults so far
          pc, cur,      \* per worker: where it is, and with which incident
          epoch,        \* per worker: its lives; with its name, the owner id
          start, cursor, processed, announced,   \* what a worker remembers
          todo, deferred, newest,                \* one poll: the locals of poll_once
          since,        \* when the claim in hand was asked for
          result,       \* the record about to be appended
          backoff, downUntil,                    \* the provider's outage
          paid, lost,   \* history: analyses paid for, and those never recorded
          analyzed, told,  \* history: what this life of a worker analysed, announced
          failures         \* history: outages it met since it last marked the provider up

Absent   == -1
NoClaim  == [owner |-> <<>>, at |-> 0]
NoResult == [kind |-> "none", at |-> 0, tokens |-> 0]

envVars     == <<clock, created>>
logVars     == <<log, claims>>
pollVars    == <<todo, deferred, newest>>
memoryVars  == <<start, epoch, cursor, processed>>
outageVars  == <<backoff, downUntil>>
historyVars == <<paid, lost, analyzed, failures>>
vars == <<envVars, logVars, faults, pc, cur, memoryVars, announced, pollVars, since, result,
          outageVars, historyVars, told>>

MaxOf(a, b) == IF a >= b THEN a ELSE b
MinOfSet(S) == CHOOSE m \in S : \A n \in S : m <= n

Fault(kind) ==
  /\ kind \in Faults
  /\ faults < MaxFaults
  /\ clock <= Horizon
  /\ faults' = faults + 1

-----------------------------------------------------------------------------
(* The decision log *)

Owner(w) == <<w, epoch[w]>>

Decided(i) == \E n \in DOMAIN log : log[n].incident = i

Entry(i, r) == [incident |-> i, kind |-> r.kind, at |-> r.at, tokens |-> r.tokens]

\* append: refuses a second decision of an incident (DuplicateDecisionError).
AppendDecision(i, r) == log' = IF Decided(i) THEN log ELSE Append(log, Entry(i, r))

\* Mutants: another owner's claim does not count; a decided incident can be
\* claimed; a claim never expires.
ClaimableByAnyone(i, owner, now) == ~Decided(i)

ClaimableAgain(i, owner, now) ==
  \/ claims[i] = NoClaim
  \/ claims[i].owner = owner
  \/ now - claims[i].at >= Lease

ClaimableOnce(i, owner, now) ==
  ~Decided(i) /\ (claims[i] = NoClaim \/ claims[i].owner = owner)

\* try_claim at time `now`: granted unless the incident is decided or another
\* owner's claim is younger than the lease.
Claimable(i, owner, now) ==
  /\ ~Decided(i)
  /\ \/ claims[i] = NoClaim
     \/ claims[i].owner = owner
     \/ now - claims[i].at >= Lease

CountAnalysesSince(t) == Cardinality({n \in DOMAIN log : log[n].kind = "analysis" /\ log[n].at >= t})

\* token_usage_between the bounds of a UTC day.
TokensUsed(day) ==
  LET used[n \in 0..Len(log)] ==
        IF n = 0 THEN 0
        ELSE used[n - 1] + (IF log[n].at \div DayLength = day THEN log[n].tokens ELSE 0)
  IN  used[Len(log)]

BudgetExhausted == TokensUsed(clock \div DayLength) >= TokenBudget

WithinRateLimit == CountAnalysesSince(clock - RateWindow) < RateLimit

-----------------------------------------------------------------------------
Init ==
  /\ clock = 0
  /\ created = [i \in Incident |-> Absent]
  /\ log = <<>>
  /\ claims = [i \in Incident |-> NoClaim]
  /\ faults = 0
  /\ pc = [w \in Worker |-> "stopped"]
  /\ cur = [w \in Worker |-> Absent]
  /\ epoch = [w \in Worker |-> 0]
  /\ start = [w \in Worker |-> 0]
  /\ cursor = [w \in Worker |-> 0]
  /\ processed = [w \in Worker |-> {}]
  /\ announced = [w \in Worker |-> {}]
  /\ todo = [w \in Worker |-> {}]
  /\ deferred = [w \in Worker |-> {}]
  /\ newest = [w \in Worker |-> 0]
  /\ since = [w \in Worker |-> 0]
  /\ result = [w \in Worker |-> NoResult]
  /\ backoff = [w \in Worker |-> 0]
  /\ downUntil = [w \in Worker |-> 0]
  /\ paid = [i \in Incident |-> 0]
  /\ lost = [i \in Incident |-> 0]
  /\ analyzed = [w \in Worker |-> {}]
  /\ told = [w \in Worker |-> {}]
  /\ failures = [w \in Worker |-> 0]

\* A correlation pass commits an incident it stamped up to CommitLag ago.
Appear(i) ==
  /\ created[i] = Absent
  /\ clock <= Horizon
  /\ \E t \in MaxOf(0, clock - CommitLag)..clock : created' = [created EXCEPT ![i] = t]
  /\ UNCHANGED <<clock, logVars, faults, pc, cur, memoryVars, announced, pollVars, since,
                 result, outageVars, historyVars, told>>

Busy(w) == pc[w] \in {"fetch", "call", "record"}

\* No analysis runs longer than AnalysisTime.
Tick ==
  /\ clock < MaxClock
  /\ \A w \in Worker : Busy(w) => clock < since[w] + AnalysisTime
  /\ clock' = clock + 1
  /\ UNCHANGED <<created, logVars, faults, pc, cur, memoryVars, announced, pollVars, since,
                 result, outageVars, historyVars, told>>

-----------------------------------------------------------------------------
(* One poll: poll_once *)

\* The worker process starts, for the first time or again, knowing nothing.
Start(w) ==
  LET from == IF Since = Startup THEN clock ELSE Since IN
  /\ pc[w] = "stopped"
  /\ pc' = [pc EXCEPT ![w] = "idle"]
  /\ epoch' = [epoch EXCEPT ![w] = @ + 1]
  /\ start' = [start EXCEPT ![w] = from]
  /\ cursor' = [cursor EXCEPT ![w] = from]
  /\ processed' = [processed EXCEPT ![w] = {}]
  /\ announced' = [announced EXCEPT ![w] = {}]
  /\ backoff' = [backoff EXCEPT ![w] = 0]
  /\ downUntil' = [downUntil EXCEPT ![w] = 0]
  /\ analyzed' = [analyzed EXCEPT ![w] = {}]
  /\ told' = [told EXCEPT ![w] = {}]
  /\ failures' = [failures EXCEPT ![w] = 0]
  /\ UNCHANGED <<envVars, logVars, faults, cur, pollVars, since, result, paid, lost>>

\* list_incidents_since(cursor - lookback), without the ones already dealt with.
Listed(w) == {i \in Incident : created[i] # Absent /\ created[i] >= cursor[w] - Lookback}

\* Mutant: a poll takes what it has dealt with already.
PollAll(w) ==
  /\ pc[w] = "idle"
  /\ pc' = [pc EXCEPT ![w] = "next"]
  /\ todo' = [todo EXCEPT ![w] = {i \in Listed(w) : created[i] >= start[w]}]
  /\ deferred' = [deferred EXCEPT ![w] = {}]
  /\ newest' = [newest EXCEPT ![w] = cursor[w]]
  /\ UNCHANGED <<envVars, logVars, faults, cur, memoryVars, announced, since, result,
                 outageVars, historyVars, told>>

Poll(w) ==
  /\ pc[w] = "idle"
  /\ pc' = [pc EXCEPT ![w] = "next"]
  /\ todo' = [todo EXCEPT ![w] = {i \in Listed(w) \ processed[w] : created[i] >= start[w]}]
  /\ deferred' = [deferred EXCEPT ![w] = {}]
  /\ newest' = [newest EXCEPT ![w] = cursor[w]]
  /\ UNCHANGED <<envVars, logVars, faults, cur, memoryVars, announced, since, result,
                 outageVars, historyVars, told>>

\* The sort key of a poll: most severe first, then oldest, then by id.
SortsBefore(i, j) ==
  \/ Severity[i] > Severity[j]
  \/ Severity[i] = Severity[j] /\ created[i] < created[j]
  \/ Severity[i] = Severity[j] /\ created[i] = created[j] /\ i < j

\* The incident in hand goes out of scope.
Drop(w) ==
  /\ cur' = [cur EXCEPT ![w] = Absent]
  /\ since' = [since EXCEPT ![w] = 0]

\* Set incident i aside for a later poll.
Defer(w, i) ==
  /\ pc' = [pc EXCEPT ![w] = "next"]
  /\ todo' = [todo EXCEPT ![w] = @ \ {i}]
  /\ deferred' = [deferred EXCEPT ![w] = @ \cup {created[i]}]
  /\ Drop(w)
  /\ UNCHANGED <<newest, memoryVars>>

\* Incident i is dealt with: remember it and let the cursor follow.
Finish(w, i) ==
  /\ pc' = [pc EXCEPT ![w] = "next"]
  /\ todo' = [todo EXCEPT ![w] = @ \ {i}]
  /\ newest' = [newest EXCEPT ![w] = MaxOf(@, created[i])]
  /\ processed' = [processed EXCEPT ![w] = @ \cup {i}]
  /\ announced' = [announced EXCEPT ![w] = @ \ {i}]
  /\ Drop(w)
  /\ UNCHANGED <<deferred, start, epoch, cursor>>

\* Hand i on without an analysis, once: _deliver_unanalyzed.
DeliverUnanalyzed(w, i) ==
  /\ announced' = [announced EXCEPT ![w] = @ \cup {i}]
  /\ told' = [told EXCEPT ![w] = @ \cup {i}]

\* The next incident of the poll, unless it is decided by now: _already_logged.
TakeNext(w) ==
  /\ pc[w] = "next"
  /\ \E i \in todo[w] :
       /\ \A j \in todo[w] \ {i} : SortsBefore(i, j)
       /\ IF Decided(i)
          THEN Finish(w, i)
          ELSE /\ pc' = [pc EXCEPT ![w] = "gate"]
               /\ cur' = [cur EXCEPT ![w] = i]
               /\ UNCHANGED <<memoryVars, announced, pollVars, since>>
  /\ UNCHANGED <<envVars, logVars, faults, result, outageVars, historyVars, told>>

\* The policy's skip: recorded without a claim, and done either way.
RecordSkip(w) ==
  /\ pc[w] = "gate"
  /\ cur[w] \in Uncorrelated[w]
  /\ \/ /\ AppendDecision(cur[w], [kind |-> "skipped", at |-> clock, tokens |-> 0])
        /\ UNCHANGED faults
     \/ Fault("log") /\ UNCHANGED log
  /\ Finish(w, cur[w])
  /\ UNCHANGED <<envVars, claims, result, outageVars, historyVars, told>>

ProviderDown(w) == clock < downUntil[w]

WaitForProvider(w) ==
  /\ pc[w] = "gate"
  /\ cur[w] \notin Uncorrelated[w]
  /\ ProviderDown(w)
  /\ DeliverUnanalyzed(w, cur[w])
  /\ Defer(w, cur[w])
  /\ UNCHANGED <<envVars, logVars, faults, result, outageVars, historyVars>>

\* Over the daily budget or the hourly limit.  (Two queries one after the other
\* in the code; the limits can be passed by others between them and the claim.)
WaitForAllowance(w) ==
  /\ pc[w] = "gate"
  /\ cur[w] \notin Uncorrelated[w]
  /\ ~ProviderDown(w)
  /\ BudgetExhausted \/ ~WithinRateLimit
  /\ Defer(w, cur[w])
  /\ UNCHANGED <<envVars, logVars, faults, announced, result, outageVars, historyVars, told>>

PassGate(w) ==
  /\ pc[w] = "gate"
  /\ cur[w] \notin Uncorrelated[w]
  /\ ~ProviderDown(w)
  /\ ~BudgetExhausted /\ WithinRateLimit
  /\ pc' = [pc EXCEPT ![w] = "claim"]
  /\ UNCHANGED <<envVars, logVars, faults, cur, memoryVars, announced, pollVars, since, result,
                 outageVars, historyVars, told>>

\* try_claim reads the clock, then waits up to LockWait for the database.
Claim(w) ==
  LET i == cur[w] IN
  /\ pc[w] = "claim"
  /\ \E now \in MaxOf(0, clock - LockWait)..clock :
       IF Claimable(i, Owner(w), now)
       THEN /\ claims' = [claims EXCEPT ![i] = [owner |-> Owner(w), at |-> now]]
            /\ since' = [since EXCEPT ![w] = clock]
            /\ pc' = [pc EXCEPT ![w] = "fetch"]
            /\ UNCHANGED <<cur, memoryVars, pollVars>>
       ELSE Defer(w, i) /\ UNCHANGED claims
  /\ UNCHANGED <<envVars, log, faults, announced, result, outageVars, historyVars, told>>

-----------------------------------------------------------------------------
(* _analyze and what follows it *)

\* get_incident_events answers.
Fetch(w) ==
  /\ pc[w] = "fetch"
  /\ pc' = [pc EXCEPT ![w] = "call"]
  /\ UNCHANGED <<envVars, logVars, faults, cur, memoryVars, announced, pollVars, since, result,
                 outageVars, historyVars, told>>

\* It fails: the incident waits, and its claim stays with this worker.
FetchFails(w) ==
  /\ pc[w] = "fetch"
  /\ Fault("fetch")
  /\ Defer(w, cur[w])
  /\ UNCHANGED <<envVars, logVars, announced, result, outageVars, historyVars, told>>

MarkProviderUp(w) ==
  /\ backoff' = [backoff EXCEPT ![w] = 0]
  /\ downUntil' = [downUntil EXCEPT ![w] = 0]
  /\ failures' = [failures EXCEPT ![w] = 0]

\* The provider answers, well or badly, and is paid.
Answered(w) ==
  /\ pc[w] = "call"
  /\ \E n \in Tokens :
       result' = [result EXCEPT ![w] = [kind |-> "analysis", at |-> clock, tokens |-> n]]
  /\ paid' = [paid EXCEPT ![cur[w]] = @ + 1]
  /\ analyzed' = [analyzed EXCEPT ![w] = @ \cup {cur[w]}]
  /\ MarkProviderUp(w)
  /\ pc' = [pc EXCEPT ![w] = "record"]
  /\ UNCHANGED <<envVars, logVars, faults, cur, memoryVars, announced, pollVars, since, lost, told>>

\* A failed analysis is recorded as if the provider had not been called, and the
\* provider counts as up.
RecordNoCall(w) ==
  /\ result' = [result EXCEPT ![w] = [kind |-> "no-call", at |-> clock, tokens |-> 0]]
  /\ MarkProviderUp(w)
  /\ pc' = [pc EXCEPT ![w] = "record"]
  /\ UNCHANGED <<envVars, logVars, cur, memoryVars, announced, pollVars, since, told>>

\* Events are missing, or the worker itself errs before it calls.
AnalysisImpossible(w) ==
  /\ pc[w] \in {"fetch", "call"}
  /\ Fault("evidence")
  /\ RecordNoCall(w)
  /\ UNCHANGED <<paid, lost, analyzed>>

\* A reply makes the parser raise something other than OutputParseError, which is
\* the worker's own error (parser.py:69): what was paid is in no record.
ReplyBreaksParser(w) ==
  /\ pc[w] = "call"
  /\ Fault("reply")
  /\ RecordNoCall(w)
  /\ paid' = [paid EXCEPT ![cur[w]] = @ + 1]
  /\ lost' = [lost EXCEPT ![cur[w]] = @ + 1]
  /\ analyzed' = [analyzed EXCEPT ![w] = @ \cup {cur[w]}]

\* release_claim deletes the worker's own claim; if that fails, its lease is left.
ReleaseClaim(w, i) ==
  \/ claims' = IF claims[i].owner = Owner(w) THEN [claims EXCEPT ![i] = NoClaim] ELSE claims
  \/ "log" \in Faults /\ UNCHANGED claims

\* Mutant: the wait does not grow.
ProviderUnavailableConstantWait(w) ==
  LET i == cur[w] IN
  /\ pc[w] = "call"
  /\ Fault("outage")
  /\ ReleaseClaim(w, i)
  /\ backoff' = [backoff EXCEPT ![w] = RetryAfter]
  /\ downUntil' = [downUntil EXCEPT ![w] = clock + RetryAfter]
  /\ failures' = [failures EXCEPT ![w] = @ + 1]
  /\ DeliverUnanalyzed(w, i)
  /\ Defer(w, i)
  /\ UNCHANGED <<envVars, log, result, paid, lost, analyzed>>

\* ProviderUnavailableError: give the claim back, wait longer each time.
ProviderUnavailable(w) ==
  LET i == cur[w]
      delay == IF MaxOf(2 * backoff[w], RetryAfter) <= MaxRetryAfter
               THEN MaxOf(2 * backoff[w], RetryAfter) ELSE MaxRetryAfter
  IN
  /\ pc[w] = "call"
  /\ Fault("outage")
  /\ ReleaseClaim(w, i)
  /\ backoff' = [backoff EXCEPT ![w] = delay]
  /\ downUntil' = [downUntil EXCEPT ![w] = clock + delay]
  /\ failures' = [failures EXCEPT ![w] = @ + 1]
  /\ DeliverUnanalyzed(w, i)
  /\ Defer(w, i)
  /\ UNCHANGED <<envVars, log, result, paid, lost, analyzed>>

\* An answer that was paid for and is not in the log.
LoseAnswer(w) ==
  lost' = IF result[w].kind = "analysis" THEN [lost EXCEPT ![cur[w]] = @ + 1] ELSE lost

\* _record: append and deliver.  A failed write is logged and survived.
Record(w) ==
  LET i == cur[w] IN
  /\ pc[w] = "record"
  /\ \/ /\ AppendDecision(i, result[w])
        /\ UNCHANGED <<faults, lost>>
     \/ /\ Fault("log")
        /\ LoseAnswer(w)
        /\ UNCHANGED log
  /\ result' = [result EXCEPT ![w] = NoResult]
  /\ Finish(w, i)
  /\ UNCHANGED <<envVars, claims, outageVars, paid, analyzed, failures,
                 told>>

\* Mutants: the cursor passes what was deferred; an incident announced exactly
\* at the new cursor is forgotten.
EndPollAtNewest(w) ==
  LET to == newest[w]
      Recent(S) == {i \in S : created[i] >= to - Lookback}
  IN
  /\ pc[w] = "next"
  /\ todo[w] = {}
  /\ cursor' = [cursor EXCEPT ![w] = to]
  /\ processed' = [processed EXCEPT ![w] = Recent(@)]
  /\ announced' = [announced EXCEPT ![w] = Recent(@)]
  /\ pc' = [pc EXCEPT ![w] = "idle"]
  /\ deferred' = [deferred EXCEPT ![w] = {}]
  /\ newest' = [newest EXCEPT ![w] = 0]
  /\ UNCHANGED <<envVars, logVars, faults, cur, start, epoch, todo, since, result, outageVars,
                 historyVars, told>>

EndPollForgetting(w) ==
  LET to == MinOfSet({newest[w]} \cup deferred[w])
      Recent(S) == {i \in S : created[i] > to}
  IN
  /\ pc[w] = "next"
  /\ todo[w] = {}
  /\ cursor' = [cursor EXCEPT ![w] = to]
  /\ processed' = [processed EXCEPT ![w] = Recent(@)]
  /\ announced' = [announced EXCEPT ![w] = Recent(@)]
  /\ pc' = [pc EXCEPT ![w] = "idle"]
  /\ deferred' = [deferred EXCEPT ![w] = {}]
  /\ newest' = [newest EXCEPT ![w] = 0]
  /\ UNCHANGED <<envVars, logVars, faults, cur, start, epoch, todo, since, result, outageVars,
                 historyVars, told>>

\* The end of the poll: the cursor follows the newest incident done but stays
\* at the oldest one deferred; older memories are dropped.
EndPoll(w) ==
  LET to == MinOfSet({newest[w]} \cup deferred[w])
      Recent(S) == {i \in S : created[i] >= to - Lookback}
  IN
  /\ pc[w] = "next"
  /\ todo[w] = {}
  /\ cursor' = [cursor EXCEPT ![w] = to]
  /\ processed' = [processed EXCEPT ![w] = Recent(@)]
  /\ announced' = [announced EXCEPT ![w] = Recent(@)]
  /\ pc' = [pc EXCEPT ![w] = "idle"]
  /\ deferred' = [deferred EXCEPT ![w] = {}]
  /\ newest' = [newest EXCEPT ![w] = 0]
  /\ UNCHANGED <<envVars, logVars, faults, cur, start, epoch, todo, since, result, outageVars,
                 historyVars, told>>

\* The process dies.  A call under way may have been paid for; an answer not
\* yet appended was, and is lost.
Crash(w) ==
  /\ pc[w] # "stopped"
  /\ Fault("crash")
  /\ \/ /\ pc[w] = "call"
        /\ paid' = [paid EXCEPT ![cur[w]] = @ + 1]
        /\ lost' = [lost EXCEPT ![cur[w]] = @ + 1]
     \/ /\ pc[w] = "record"
        /\ LoseAnswer(w)
        /\ UNCHANGED paid
     \/ pc[w] # "record" /\ UNCHANGED <<paid, lost>>
  /\ pc' = [pc EXCEPT ![w] = "stopped"]
  /\ todo' = [todo EXCEPT ![w] = {}]
  /\ deferred' = [deferred EXCEPT ![w] = {}]
  /\ newest' = [newest EXCEPT ![w] = 0]
  /\ result' = [result EXCEPT ![w] = NoResult]
  /\ Drop(w)
  /\ UNCHANGED <<envVars, logVars, memoryVars, announced, outageVars, analyzed, failures, told>>

-----------------------------------------------------------------------------
PollStep(w) ==
  \/ Poll(w) \/ TakeNext(w) \/ RecordSkip(w) \/ WaitForProvider(w) \/ WaitForAllowance(w)
  \/ PassGate(w) \/ Claim(w) \/ Fetch(w) \/ Answered(w) \/ Record(w) \/ EndPoll(w)

FaultStep(w) ==
  \/ FetchFails(w) \/ AnalysisImpossible(w) \/ ReplyBreaksParser(w)
  \/ ProviderUnavailable(w) \/ Crash(w)

Next ==
  \/ \E i \in Incident : Appear(i)
  \/ \E w \in Worker : Start(w) \/ PollStep(w) \/ FaultStep(w)
  \/ Tick

Spec == Init /\ [][Next]_vars

\* run_forever polls again after every interval and each call it makes has a
\* timeout, so a running worker keeps taking steps.  Nothing starts a stopped one.
FairSpec ==
  /\ Spec
  /\ WF_vars(Tick)
  /\ \A w \in Worker : WF_vars(PollStep(w))

-----------------------------------------------------------------------------
(* Properties *)

Kinds == {"analysis", "skipped", "no-call"}

LocalsOK(w) ==
  /\ todo[w] \subseteq {i \in Incident : created[i] # Absent} \ processed[w]
  /\ IF pc[w] \in {"gate", "claim", "fetch", "call", "record"}
     THEN cur[w] \in todo[w]
     ELSE cur[w] = Absent
  /\ IF pc[w] = "record" THEN result[w].kind # "none" ELSE result[w] = NoResult

EnvOK ==
  /\ clock \in Nat /\ faults \in Nat
  /\ created \in [Incident -> Nat \cup {Absent}]

LogOK ==
  /\ log \in Seq([incident : Incident, kind : Kinds, at : Nat, tokens : Nat])
  /\ claims \in [Incident -> {NoClaim} \cup [owner : Worker \X Nat, at : Nat]]

PollOK ==
  /\ pc \in [Worker -> {"stopped", "idle", "next", "gate", "claim", "fetch", "call", "record"}]
  /\ cur \in [Worker -> Incident \cup {Absent}]
  /\ todo \in [Worker -> SUBSET Incident] /\ deferred \in [Worker -> SUBSET Nat]
  /\ newest \in [Worker -> Nat] /\ since \in [Worker -> Nat]
  /\ result \in [Worker -> [kind : Kinds \cup {"none"}, at : Nat, tokens : Nat]]

MemoryOK ==
  /\ epoch \in [Worker -> Nat] /\ start \in [Worker -> Nat] /\ cursor \in [Worker -> Nat]
  /\ processed \in [Worker -> SUBSET Incident] /\ announced \in [Worker -> SUBSET Incident]
  /\ backoff \in [Worker -> Nat] /\ downUntil \in [Worker -> Nat]

HistoryOK ==
  /\ paid \in [Incident -> Nat] /\ lost \in [Incident -> Nat]
  /\ analyzed \in [Worker -> SUBSET Incident] /\ told \in [Worker -> SUBSET Incident]
  /\ failures \in [Worker -> Nat]

TypeOK ==
  EnvOK /\ LogOK /\ PollOK /\ MemoryOK /\ HistoryOK /\ \A w \in Worker : LocalsOK(w)

\* Every decision costs one paid analysis at most, over all workers and their
\* restarts: a second one follows only one whose answer never reached the log,
\* in a crash or a failed write (worker.py "Never re-billed", try_claim's lease).
RebilledOnlyAfterLoss == \A i \in Incident : paid[i] <= 1 + lost[i]

\* A worker about to append finds no decision of its incident, so no analysis
\* is wasted on a duplicate: "Claims should make this unreachable" (_record).
ClaimsPreventDuplicates == \A w \in Worker : pc[w] = "record" => ~Decided(cur[w])

\* Between polls a worker's query window still reaches every incident it is
\* responsible for that nobody has decided: late commits, failed fetches,
\* outages and limits never push one behind the cursor.
NothingFallsBehind ==
  \A w \in Worker : pc[w] = "idle" =>
    \A i \in Incident :
      created[i] >= start[w] /\ created[i] # Absent /\ ~Decided(i) =>
        i \in Listed(w) \ processed[w]

\* During an outage a running worker hands an incident on unanalysed once, no
\* matter how many polls find it still waiting (_deliver_unanalyzed).
AnnouncedOnce ==
  [][\A w \in Worker : \A i \in announced'[w] \ announced[w] : i \notin told[w]]_vars

\* After each failure in a row the wait doubles up to its maximum, across polls,
\* other failures and crashes (_mark_provider_down).  What ends a row is any record,
\* one made without a provider call included (poll_once calls _mark_provider_up for
\* each); ai-copilot/README.md:151 says it is the first success.
BackoffDoubles ==
  \A w \in Worker : failures[w] > 0 =>
    backoff[w] = IF RetryAfter * 2^(failures[w] - 1) <= MaxRetryAfter
                 THEN RetryAfter * 2^(failures[w] - 1) ELSE MaxRetryAfter

\* "An incident is marked done once analyzed": the process that analysed it
\* never sends it to the provider again.
DoneOnceAnalyzed ==
  [][\A w \in Worker :
       Answered(w) \/ ReplyBreaksParser(w) => cur[w] \notin analyzed[w]]_vars

\* Worker w runs, has i in its query window, and is not done with it.
Awaits(w, i) ==
  /\ pc[w] # "stopped"
  /\ i \in Listed(w) \ processed[w]
  /\ created[i] >= start[w]

\* No incident waits for ever: it is decided in the end, through outages, failed
\* fetches, the leases the dead leave behind and the failed writes of others, unless
\* each worker is stopped or has had its own write of it fail.  That one counts as
\* done (_record), so the incident stays undecided until such a worker is restarted.
EveryIncidentDecided ==
  \A i \in Incident : []<>(Decided(i) \/ \A w \in Worker : ~Awaits(w, i))
=============================================================================
