--------------------------- MODULE CopilotSpending ---------------------------
(***************************************************************************)
(* Everything the AI Copilot pays for.  Workers have incidents analysed    *)
(* (worker.py), one at a time each, with up to MaxAttempts replies per     *)
(* analysis (providers/claude.py, analyze_traced); operators ask follow-up *)
(* questions over HTTP (api.py), which FastAPI runs in a pool of threads.  *)
(* All of them check the hourly limits and the daily budget against what   *)
(* the decision log holds, then call, and only then record what it cost.   *)
(*                                                                         *)
(* Who takes which incident, leases and back-off are CopilotWorker's; here *)
(* a worker may take any undecided incident no other is analysing, and the *)
(* gates and the claim are one step: what matters is that the record comes *)
(* later.                                                                  *)
(***************************************************************************)
EXTENDS Integers, FiniteSets, Sequences, FiniteSetsExt

CONSTANTS Worker,
          Question,        \* the questions asked, each once
          Incident,
          Earlier,         \* table decisions at the start: the log outlives the processes
          About,           \* [Question -> Incident]
          Threads,         \* questions the API works on at a time
          MaxAttempts,     \* MAX_VALIDATION_RETRIES + 1
          Cost,            \* tokens a reply can cost
          HistoryTurns,    \* HISTORY_TURNS
          QuestionLimit, AnalysisLimit, RateWindow,
          TokenBudget, DayLength,
          Faults,          \* which faults occur: outage, rejected, reply, log, crash
          MaxFaults,       \* bound on their number
          MaxClock         \* bound on the clock

None    == -1      \* no incident, no status
NoUsage == -1      \* an attempt that got no reply, and was not billed

ASSUME SpendingAssumption ==
  /\ None \notin Incident
  /\ Worker \cap Question = {}
  /\ IsFiniteSet(Worker) /\ Worker # {} /\ IsFiniteSet(Question)
  /\ Earlier \in Seq([incident : Incident, request : BOOLEAN, attempts : Seq(Cost),
                     at : {t \in Int : t < 0}])
  /\ About \in [Question -> Incident]
  /\ Cost \subseteq Nat
  /\ \A n \in {QuestionLimit, AnalysisLimit, RateWindow, MaxFaults, MaxClock} : n \in Nat
  /\ \A n \in {Threads, MaxAttempts, HistoryTurns, TokenBudget, DayLength} : n \in Nat \ {0}

Caller == Worker \cup Question

VARIABLES clock, faults,
          decisions, followups,    \* the two tables, in the order of their rows
          pc,
          job,        \* per worker: the incident it is about to have analysed, or does
          attempts,   \* per caller: the AttemptRecords of its call, as what each cost
          stamp,      \* per caller: recorded_at or asked_at of its record to be
          history,    \* per question: the questions before it that are sent along
          outcome,    \* per question: what came of its call
          status,     \* per question: the HTTP status it was answered with
          answered,   \* history: per question, those answered before it came in
          billed,     \* history: tokens the provider charged
          lost        \* history: those of them no record will tell of

logVars      == <<decisions, followups>>
questionVars == <<history, outcome, status, answered>>
vars == <<clock, faults, logVars, pc, job, attempts, stamp, questionVars, billed, lost>>

Fault(kind) ==
  /\ kind \in Faults
  /\ faults < MaxFaults
  /\ faults' = faults + 1

-----------------------------------------------------------------------------
(* What the log is asked *)

Decided(i) == \E n \in DOMAIN decisions : decisions[n].incident = i

\* The incident has a recorded request to ground an answer in.
Analysed(i) == \E n \in DOMAIN decisions : decisions[n].incident = i /\ decisions[n].request

\* TokenUsage.add_attempts
TokensOf(tries) ==
  SumFunction([n \in DOMAIN tries |-> IF tries[n] = NoUsage THEN 0 ELSE tries[n]])

TokensIn(table, day) ==
  LET rows == {n \in DOMAIN table : table[n].at \div DayLength = day}
  IN  SumFunction([n \in rows |-> TokensOf(table[n].attempts)])

\* token_usage_between the bounds of a UTC day: both tables.
TokensUsed(day) == TokensIn(decisions, day) + TokensIn(followups, day)

BudgetExhausted == TokensUsed(clock \div DayLength) >= TokenBudget

\* count_analyses_since, count_followups_since: records with an attempt in them.
CountSince(table, t) ==
  Cardinality({n \in DOMAIN table : table[n].attempts # <<>> /\ table[n].at >= t})

\* Mutants: one too many is let through.
WithinAnalysisLimitInclusive == CountSince(decisions, clock - RateWindow) <= AnalysisLimit

WithinQuestionLimitInclusive == CountSince(followups, clock - RateWindow) <= QuestionLimit

WithinAnalysisLimit == CountSince(decisions, clock - RateWindow) < AnalysisLimit

WithinQuestionLimit == CountSince(followups, clock - RateWindow) < QuestionLimit

\* The numbers of a set, in order.
InOrder(S) ==
  CHOOSE s \in [1..Cardinality(S) -> S] : \A m, n \in DOMAIN s : m < n => s[m] < s[n]

\* The answered questions about an incident, in the order of their rows.
Turns(i) ==
  LET rows == InOrder({n \in DOMAIN followups :
                         followups[n].answered /\ About[followups[n].question] = i})
  IN  [n \in DOMAIN rows |-> followups[rows[n]].question]

\* Mutant: the first turns instead of the last.
FirstTurns(i) == SubSeq(Turns(i), 1, Min({HistoryTurns, Len(Turns(i))}))

\* history[-HISTORY_TURNS:]
LastTurns(i) ==
  LET turns == Turns(i) IN SubSeq(turns, Max({1, Len(turns) - HistoryTurns + 1}), Len(turns))

-----------------------------------------------------------------------------
Init ==
  /\ clock = 0 /\ faults = 0
  /\ decisions = Earlier /\ followups = <<>>
  /\ pc = [c \in Caller |-> IF c \in Worker THEN "idle" ELSE "unasked"]
  /\ job = [w \in Worker |-> None]
  /\ attempts = [c \in Caller |-> <<>>]
  /\ stamp = [c \in Caller |-> 0]
  /\ history = [q \in Question |-> <<>>]
  /\ outcome = [q \in Question |-> "none"]
  /\ status = [q \in Question |-> None]
  /\ answered = [q \in Question |-> {}]
  /\ billed = 0 /\ lost = 0

Tick ==
  /\ clock < MaxClock
  /\ clock' = clock + 1
  /\ UNCHANGED <<faults, logVars, pc, job, attempts, stamp, questionVars, billed, lost>>

Goto(c, where) == pc' = [pc EXCEPT ![c] = where]

\* A reply of n tokens arrives, and the provider charges for it.
Charge(c, n) ==
  /\ attempts' = [attempts EXCEPT ![c] = Append(@, n)]
  /\ billed' = billed + n

\* The call is over: its record is made, to be appended next.
MakeRecord(c) ==
  /\ Goto(c, "record")
  /\ stamp' = [stamp EXCEPT ![c] = clock]

-----------------------------------------------------------------------------
(* A worker: the gates of poll_once, analyze_traced, _record *)

\* Within the budget and the hourly limit, and with the claim on it, an incident
\* is analysed.  One that is deferred changes nothing here.
Admit(w, i) ==
  /\ pc[w] = "idle"
  /\ ~Decided(i)
  /\ ~BudgetExhausted /\ WithinAnalysisLimit
  /\ \A v \in Worker : job[v] # i
  /\ Goto(w, "call")
  /\ job' = [job EXCEPT ![w] = i]
  /\ UNCHANGED <<clock, faults, logVars, attempts, stamp, questionVars, billed, lost>>

Idle(w) ==
  /\ Goto(w, "idle")
  /\ job' = [job EXCEPT ![w] = None]
  /\ attempts' = [attempts EXCEPT ![w] = <<>>]
  /\ stamp' = [stamp EXCEPT ![w] = 0]

\* A reply parses, or is the last one allowed: the analysis is made, or failed.
FinalReply(w) ==
  /\ pc[w] = "call"
  /\ \E n \in Cost : Charge(w, n)
  /\ MakeRecord(w)
  /\ UNCHANGED <<clock, faults, logVars, job, questionVars, lost>>

\* Mutant: one retry too many.
RejectedReplyOnceMore(w) ==
  /\ pc[w] = "call"
  /\ Len(attempts[w]) < MaxAttempts
  /\ \E n \in Cost : Charge(w, n)
  /\ UNCHANGED <<clock, faults, logVars, pc, job, stamp, questionVars, lost>>

\* A reply is rejected: OutputParseError, or cut off; the model may try again.
RejectedReply(w) ==
  /\ pc[w] = "call"
  /\ Len(attempts[w]) + 1 < MaxAttempts
  /\ \E n \in Cost : Charge(w, n)
  /\ UNCHANGED <<clock, faults, logVars, pc, job, stamp, questionVars, lost>>

\* The provider refuses the request itself: a failed analysis.
AnalysisRefused(w) ==
  /\ pc[w] = "call"
  /\ Fault("rejected")
  /\ attempts' = [attempts EXCEPT ![w] = Append(@, NoUsage)]
  /\ MakeRecord(w)
  /\ UNCHANGED <<clock, logVars, job, questionVars, billed, lost>>

\* Mutant: an outage always ends the call without a record.
AnalysisUnavailableAlways(w) ==
  /\ pc[w] = "call"
  /\ Fault("outage")
  /\ Idle(w)
  /\ UNCHANGED <<clock, logVars, questionVars, billed, lost>>

\* Mutant: and when it does, the claim is kept.
AnalysisUnavailableHolding(w) ==
  /\ pc[w] = "call"
  /\ Fault("outage")
  /\ Goto(w, "idle")
  /\ attempts' = [attempts EXCEPT ![w] = <<>>]
  /\ UNCHANGED <<clock, logVars, job, stamp, questionVars, billed, lost>>

\* It is unreachable.  Before any reply that is ProviderUnavailableError and the
\* incident waits; after one, which was billed, it is a failed analysis.
AnalysisUnavailable(w) ==
  /\ pc[w] = "call"
  /\ Fault("outage")
  /\ IF attempts[w] = <<>>
     THEN Idle(w)
     ELSE /\ attempts' = [attempts EXCEPT ![w] = Append(@, NoUsage)]
          /\ MakeRecord(w)
          /\ UNCHANGED job
  /\ UNCHANGED <<clock, logVars, questionVars, billed, lost>>

\* A reply makes the parser raise what is no OutputParseError (parser.py:69, of an
\* action type that is a list).  It passes through analyze_traced: _analyze takes it for
\* its own error, and its record says that no provider was called.
WorkerError(w) ==
  /\ pc[w] = "call"
  /\ Fault("reply")
  /\ \E n \in Cost : /\ billed' = billed + n
                     /\ lost' = lost + TokensOf(attempts[w]) + n
  /\ attempts' = [attempts EXCEPT ![w] = <<>>]
  /\ MakeRecord(w)
  /\ UNCHANGED <<clock, logVars, job, questionVars>>

\* _record.  The duplicate that append refuses cannot come up here.
RecordDecision(w) ==
  /\ pc[w] = "record"
  /\ \/ /\ decisions' = Append(decisions, [incident |-> job[w], request |-> TRUE,
                                           attempts |-> attempts[w], at |-> stamp[w]])
        /\ UNCHANGED <<faults, lost>>
     \/ /\ Fault("log")
        /\ lost' = lost + TokensOf(attempts[w])
        /\ UNCHANGED decisions
  /\ Idle(w)
  /\ UNCHANGED <<clock, followups, questionVars, billed>>

\* The process dies, and with it what it had been answered.
CrashWorker(w) ==
  /\ pc[w] # "idle"
  /\ Fault("crash")
  /\ lost' = lost + TokensOf(attempts[w])
  /\ Idle(w)
  /\ UNCHANGED <<clock, logVars, questionVars, billed>>

-----------------------------------------------------------------------------
(* A question: the endpoint ask, in one thread of the API *)

InThread(q) == pc[q] \notin {"unasked", "done"}

\* The request is over, answered with this status.
Respond(q, code) ==
  /\ Goto(q, "done")
  /\ status' = [status EXCEPT ![q] = code]
  /\ attempts' = [attempts EXCEPT ![q] = <<>>]
  /\ stamp' = [stamp EXCEPT ![q] = 0]
  /\ history' = [history EXCEPT ![q] = <<>>]
  /\ outcome' = [outcome EXCEPT ![q] = "none"]
  /\ answered' = [answered EXCEPT ![q] = {}]

\* One of the two limits before the call: on to the next, or refused.
Check(q, at, ok, next, code) ==
  /\ pc[q] = at
  /\ IF ok
     THEN Goto(q, next) /\ UNCHANGED <<attempts, stamp, questionVars>>
     ELSE Respond(q, code)
  /\ UNCHANGED <<clock, faults, logVars, job, billed, lost>>

\* The request gets a thread and looks its incident up: analyzed_decision.
Ask(q) ==
  /\ pc[q] = "unasked"
  /\ Cardinality({p \in Question : InThread(p)}) < Threads
  /\ IF Analysed(About[q])
     THEN /\ Goto(q, "limit")
          /\ answered' = [answered EXCEPT
               ![q] = {p \in Question : About[p] = About[q] /\ status[p] = 201}]
          /\ UNCHANGED <<attempts, stamp, history, outcome, status>>
     ELSE Respond(q, IF Decided(About[q]) THEN 409 ELSE 404)
  /\ UNCHANGED <<clock, faults, logVars, job, billed, lost>>

CheckLimit(q) == Check(q, "limit", WithinQuestionLimit, "budget", 429)

CheckBudget(q) == Check(q, "budget", ~BudgetExhausted, "history", 429)

ReadHistory(q) ==
  /\ pc[q] = "history"
  /\ history' = [history EXCEPT ![q] = LastTurns(About[q])]
  /\ Goto(q, "call")
  /\ UNCHANGED <<clock, faults, logVars, job, attempts, stamp, outcome, status, answered, billed, lost>>

EndCall(q, result) ==
  /\ pc[q] = "call"
  /\ outcome' = [outcome EXCEPT ![q] = result]
  /\ MakeRecord(q)
  /\ UNCHANGED <<clock, logVars, job, history, status, answered, lost>>

\* A reply arrives; without text in it, it is no answer.
Reply(q) ==
  /\ \E result \in {"answer", "error"} : EndCall(q, result)
  /\ \E n \in Cost : Charge(q, n)
  /\ UNCHANGED faults

QuestionRefused(q) ==
  /\ EndCall(q, "error")
  /\ Fault("rejected")
  /\ attempts' = [attempts EXCEPT ![q] = <<NoUsage>>]
  /\ UNCHANGED billed

QuestionUnavailable(q) ==
  /\ EndCall(q, "unavailable")
  /\ Fault("outage")
  /\ UNCHANGED <<attempts, billed>>

\* append_followup, whatever came of the call; if it fails so does the request.
RecordFollowup(q) ==
  /\ pc[q] = "record"
  /\ \/ /\ followups' = Append(followups, [question |-> q, answered |-> outcome[q] = "answer",
                                           attempts |-> attempts[q], at |-> stamp[q]])
        /\ Respond(q, CASE outcome[q] = "answer" -> 201
                        [] outcome[q] = "error" -> 502
                        [] outcome[q] = "unavailable" -> 503)
        /\ UNCHANGED <<faults, lost>>
     \/ /\ Fault("log")
        /\ lost' = lost + TokensOf(attempts[q])
        /\ Respond(q, 500)
        /\ UNCHANGED followups
  /\ UNCHANGED <<clock, decisions, job, billed>>

\* The API process dies with all its threads; nobody gets an answer.
CrashApi ==
  LET cut == {q \in Question : InThread(q)} IN
  /\ cut # {}
  /\ Fault("crash")
  /\ lost' = lost + SumFunction([q \in cut |-> TokensOf(attempts[q])])
  /\ pc' = [c \in Caller |-> IF c \in cut THEN "done" ELSE pc[c]]
  /\ attempts' = [c \in Caller |-> IF c \in cut THEN <<>> ELSE attempts[c]]
  /\ stamp' = [c \in Caller |-> IF c \in cut THEN 0 ELSE stamp[c]]
  /\ history' = [q \in Question |-> IF q \in cut THEN <<>> ELSE history[q]]
  /\ outcome' = [q \in Question |-> IF q \in cut THEN "none" ELSE outcome[q]]
  /\ answered' = [q \in Question |-> IF q \in cut THEN {} ELSE answered[q]]
  /\ UNCHANGED <<clock, logVars, job, status, billed>>

-----------------------------------------------------------------------------
WorkerStep(w) ==
  \/ \E i \in Incident : Admit(w, i)
  \/ FinalReply(w) \/ RejectedReply(w) \/ AnalysisRefused(w)
  \/ AnalysisUnavailable(w) \/ WorkerError(w) \/ RecordDecision(w) \/ CrashWorker(w)

QuestionStep(q) ==
  \/ Ask(q) \/ CheckLimit(q) \/ CheckBudget(q) \/ ReadHistory(q)
  \/ Reply(q) \/ QuestionRefused(q) \/ QuestionUnavailable(q) \/ RecordFollowup(q)

Next ==
  \/ Tick
  \/ \E w \in Worker : WorkerStep(w)
  \/ \E q \in Question : QuestionStep(q)
  \/ CrashApi

Spec == Init /\ [][Next]_vars

-----------------------------------------------------------------------------
(* Properties *)

Tries == Seq(Cost \cup {NoUsage})

TypeOK ==
  /\ clock \in Nat /\ faults \in Nat /\ billed \in Nat /\ lost \in Nat
  /\ decisions \in Seq([incident : Incident, request : BOOLEAN, attempts : Tries, at : Int])
  /\ followups \in Seq([question : Question, answered : BOOLEAN, attempts : Tries, at : Nat])
  /\ \A w \in Worker : pc[w] \in {"idle", "call", "record"}
  /\ \A q \in Question :
       pc[q] \in {"unasked", "limit", "budget", "history", "call", "record", "done"}
  /\ job \in [Worker -> Incident \cup {None}]
  /\ \A w \in Worker : pc[w] = "idle" <=> job[w] = None
  /\ \A c \in Caller : attempts[c] # <<>> => pc[c] \in {"call", "record"}
  /\ attempts \in [Caller -> Tries] /\ stamp \in [Caller -> Nat]
  /\ history \in [Question -> Seq(Question)]
  /\ outcome \in [Question -> {"none", "answer", "error", "unavailable"}]
  /\ status \in [Question -> {None, 201, 404, 409, 429, 500, 502, 503}]
  /\ answered \in [Question -> SUBSET Question]

Days == 0..(clock \div DayLength)

Recorded == SumFunction([day \in Days |-> TokensUsed(day)])

InHand == SumFunction([c \in Caller |-> TokensOf(attempts[c])])

\* Every token the provider charged is in the log or in a record about to get there,
\* or went with a crash, a failed write, or a reply that broke the parser: rejected
\* replies and calls that break off half-way are accounted for (budget.py counts by
\* the log).
EveryTokenCounted == billed = Recorded + InHand + lost

\* ai-copilot/README.md:300: "Every model call's token usage is recorded per attempt
\* in the decision log -- including rejected attempts".
EveryCallRecorded == billed = Recorded + InHand

\* The budget is shared by workers and questions, and is not hard: what is
\* recorded for a day exceeds it by less than the calls that can be in flight
\* at once, an analysis per worker and a question per thread, whether or not they
\* began on the day before.
BudgetOvershoot ==
  \A day \in Days : \A most \in Cost :
    (\A n \in Cost : n <= most) =>
      TokensUsed(day) < TokenBudget + (Cardinality(Worker) * MaxAttempts + Threads) * most

\* The most records with an attempt in any hour that has begun.
Within(table, limit) ==
  \A t \in 0..clock :
    Cardinality({n \in DOMAIN table : table[n].attempts # <<>> /\ table[n].at \in t..(t + RateWindow)})
      <= limit

\* The hourly limit on analyses is soft: workers that checked it before the
\* others' answers were in the log exceed it, by less than one per worker.
RateLimitSoft == Within(decisions, AnalysisLimit - 1 + Cardinality(Worker))

\* So is the one on questions, by less than one per thread of the API.
QuestionLimitSoft == Within(followups, QuestionLimit - 1 + Threads)

\* A follow-up continues the conversation: what is sent along has every
\* question about the incident answered before this one was asked, or else is
\* full of later ones (ask: history[-HISTORY_TURNS:]).
ConversationContinues ==
  \A q \in Question : pc[q] \in {"call", "record"} =>
    \A p \in answered[q] :
      \/ \E n \in DOMAIN history[q] : history[q][n] = p
      \/ /\ Len(history[q]) = HistoryTurns
         /\ \A n \in DOMAIN history[q] :
              \E a, b \in DOMAIN followups :
                a < b /\ followups[a].question = p /\ followups[b].question = history[q][n]

\* ai-copilot/README.md:321: "A process can overshoot by at most the one it
\* already had in flight", which holds of the API's process if it has one thread.
OneInFlightPerProcess ==
  \A day \in Days : \A most \in Cost :
    (\A n \in Cost : n <= most) =>
      TokensUsed(day) < TokenBudget + (Cardinality(Worker) * MaxAttempts + 1) * most
=============================================================================
