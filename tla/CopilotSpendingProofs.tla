------------------------ MODULE CopilotSpendingProofs ------------------------
(***************************************************************************)
(* What the copilot pays for, for any number of workers, questions,        *)
(* threads, replies and faults:                                            *)
(*   - how far the hourly limits are exceeded: a limit is checked against  *)
(*     the records there are, and the record of what it let through comes  *)
(*     later; what the check did not count is still in somebody's hands;   *)
(*   - that every token charged is accounted for, a statement about sums,  *)
(*     which are first shown to count what they should;                    *)
(*   - how far the daily budget is exceeded, by the same argument with     *)
(*     replies that may yet be recorded in place of records;               *)
(*   - that a question continues the conversation it is part of.           *)
(***************************************************************************)
EXTENDS CopilotSpending, FiniteSetTheorems, SequenceTheorems, WellFoundedInduction, TLAPS

(***************************************************************************)
(* The invariant of the limits                                             *)
(***************************************************************************)

Decision == [incident : Incident \cup {None}, request : BOOLEAN, attempts : Tries, at : Int]
Followup == [question : Question, answered : BOOLEAN, attempts : Tries, at : Nat]

Where == {"idle", "unasked", "limit", "budget", "history", "call", "record", "done"}

Types ==
  /\ clock \in Nat
  /\ decisions \in Seq(Decision) /\ followups \in Seq(Followup)
  /\ pc \in [Caller -> Where] /\ stamp \in [Caller -> Nat]
  /\ job \in [Worker -> Incident \cup {None}]
  /\ attempts \in [Caller -> Tries]

\* The records of calls that were made in the hour from t on.
InHour(table, t) ==
  {n \in DOMAIN table : table[n].attempts # <<>> /\ table[n].at \in t..(t + RateWindow)}

\* A call under way, or made and not recorded, may be one of them.
MayCome(c, t) ==
  \/ pc[c] \in {"budget", "history", "call"} /\ clock <= t + RateWindow
  \/ pc[c] = "record" /\ stamp[c] \in t..(t + RateWindow)

AnalysesToCome(t)  == {w \in Worker : MayCome(w, t)}
QuestionsToCome(t) == {q \in Question : MayCome(q, t)}

AnalysesCounted ==
  \A t \in Nat : Cardinality(InHour(decisions, t)) + Cardinality(AnalysesToCome(t))
                   <= AnalysisLimit - 1 + Cardinality(Worker)

Asking == {q \in Question : InThread(q)}

QuestionsCounted ==
  /\ Cardinality(Asking) <= Threads
  /\ \A t \in Nat : Cardinality(InHour(followups, t)) + Cardinality(QuestionsToCome(t))
                      <= QuestionLimit - 1 + Threads

(***************************************************************************)
(* Counting                                                                *)
(***************************************************************************)

LEMMA Constants ==
  /\ Worker \cap Question = {}
  /\ IsFiniteSet(Worker) /\ Worker # {} /\ IsFiniteSet(Question)
  /\ RateWindow \in Nat /\ AnalysisLimit \in Nat /\ QuestionLimit \in Nat
  /\ Threads \in Nat /\ Threads > 0 /\ Cost \subseteq Nat
BY SpendingAssumption

LEMMA HourIsFinite ==
  ASSUME NEW S, NEW table \in Seq(S), NEW t
  PROVE  IsFiniteSet(InHour(table, t)) /\ Cardinality(InHour(table, t)) \in Nat
<1>1. DOMAIN table = 1..Len(table) /\ Len(table) \in Nat
  OBVIOUS
<1>2. IsFiniteSet(DOMAIN table)
  BY <1>1, FS_Interval
<1>3. InHour(table, t) \in SUBSET DOMAIN table
  BY DEF InHour
<1> QED BY <1>2, <1>3, FS_Subset, FS_CardinalityType

\* A record more is at most one record more in an hour, if it is of that hour.
LEMMA OneMore ==
  ASSUME NEW S, NEW table \in Seq(S), NEW row \in S, NEW t
  PROVE  /\ Cardinality(InHour(Append(table, row), t)) <= Cardinality(InHour(table, t)) + 1
         /\ row.at \notin t..(t + RateWindow) =>
              Cardinality(InHour(Append(table, row), t)) <= Cardinality(InHour(table, t))
<1> DEFINE longer == Append(table, row)
           old    == InHour(table, t)
           new    == InHour(longer, t)
           n      == Len(table) + 1
<1>1. /\ DOMAIN table = 1..Len(table) /\ Len(table) \in Nat /\ DOMAIN longer = 1..n
      /\ \A i \in 1..Len(table) : longer[i] = table[i]
      /\ longer[n] = row
  OBVIOUS
<1> HIDE DEF longer
<1>2. new \in SUBSET (old \cup {n})
  BY <1>1 DEF InHour
<1>3. row.at \notin t..(t + RateWindow) => new \in SUBSET old
  BY <1>1 DEF InHour
<1>4. IsFiniteSet(old) /\ Cardinality(old) \in Nat
  BY HourIsFinite
<1> HIDE DEF old, new, n
<1>5. IsFiniteSet(old \cup {n}) /\ Cardinality(old \cup {n}) <= Cardinality(old) + 1
  <2>1. IsFiniteSet(old \cup {n})
    BY <1>4, FS_AddElement
  <2>2. Cardinality(old \cup {n}) = IF n \in old THEN Cardinality(old) ELSE Cardinality(old) + 1
    BY <1>4, FS_AddElement
  <2> QED BY <1>4, <2>1, <2>2
<1>6. Cardinality(old \cup {n}) \in Nat /\ Cardinality(new) \in Nat
  BY <1>2, <1>5, FS_Subset, FS_CardinalityType
<1>7. Cardinality(new) <= Cardinality(old \cup {n})
  BY <1>2, <1>5, FS_Subset
<1>8. row.at \notin t..(t + RateWindow) => Cardinality(new) <= Cardinality(old)
  BY <1>3, <1>4, FS_Subset
<1> QED BY <1>4, <1>5, <1>6, <1>7, <1>8 DEF longer, old, new

\* An hour that is not over has no more records than have been made since.
LEMMA HourIsCounted ==
  ASSUME NEW S, NEW table \in Seq(S), \A i \in DOMAIN table : table[i].at \in Int,
         NEW t \in Nat, clock \in Nat, clock <= t + RateWindow
  PROVE  Cardinality(InHour(table, t)) <= CountSince(table, clock - RateWindow)
<1> DEFINE since == {n \in DOMAIN table : table[n].attempts # <<>> /\ table[n].at >= clock - RateWindow}
<1>1. clock - RateWindow <= t /\ clock - RateWindow \in Int /\ RateWindow \in Nat
  BY Constants
<1>2. InHour(table, t) \in SUBSET since
  BY <1>1 DEF InHour
<1>3. IsFiniteSet(since)
  <2>1. DOMAIN table = 1..Len(table) /\ Len(table) \in Nat
    OBVIOUS
  <2>2. IsFiniteSet(DOMAIN table)
    BY <2>1, FS_Interval
  <2> QED BY <2>2, FS_Subset
<1> QED BY <1>2, <1>3, FS_Subset DEF CountSince

\* Fewer to come.
LEMMA FewerToCome ==
  ASSUME NEW S, IsFiniteSet(S), NEW old \in SUBSET S, NEW new \in SUBSET old
  PROVE  /\ Cardinality(new) <= Cardinality(old) /\ Cardinality(old) <= Cardinality(S)
         /\ Cardinality(new) \in Nat /\ Cardinality(old) \in Nat
         /\ \A x \in old : x \notin new => Cardinality(new) + 1 <= Cardinality(old)
<1>1. IsFiniteSet(old) /\ IsFiniteSet(new) /\ Cardinality(old) <= Cardinality(S)
      /\ Cardinality(new) <= Cardinality(old)
  BY FS_Subset
<1>2. Cardinality(new) \in Nat /\ Cardinality(old) \in Nat
  BY <1>1, FS_CardinalityType
<1>3. ASSUME NEW x \in old, x \notin new
      PROVE  Cardinality(new) + 1 <= Cardinality(old)
  <2>1. new \cup {x} \in SUBSET old
    BY <1>3
  <2>2. Cardinality(new \cup {x}) = Cardinality(new) + 1
    BY <1>1, <1>3, FS_AddElement
  <2>3. Cardinality(new \cup {x}) <= Cardinality(old)
    BY <1>1, <2>1, FS_Subset
  <2> QED BY <2>2, <2>3
<1> QED BY <1>1, <1>2, <1>3

(***************************************************************************)
(* The steps                                                               *)
(***************************************************************************)

\* Where a step leaves a caller that it lets through no limit.
Onward(c) ==
  \/ pc'[c] = pc[c] /\ stamp'[c] = stamp[c]
  \/ pc'[c] \notin {"budget", "history", "call", "record"}
  \/ {pc[c], pc'[c]} \subseteq {"budget", "history", "call"}
  \/ pc[c] = "call" /\ pc'[c] = "record" /\ stamp'[c] = clock

LEMMA OnwardComes ==
  ASSUME Types, Types', NEW c \in Caller, Onward(c), clock <= clock', NEW t \in Nat, MayCome(c, t)'
  PROVE  MayCome(c, t)
<1>1. /\ clock \in Nat /\ clock' \in Nat /\ stamp[c] \in Nat /\ stamp'[c] \in Nat /\ RateWindow \in Nat
  BY Constants DEF Types
<1> QED BY <1>1 DEF Onward, MayCome

\* What a step may do to those who do not take it.
Apart(c) == \A d \in Caller \ {c} : pc'[d] = pc[d] /\ stamp'[d] = stamp[d]

LEMMA CallersApart == \A w \in Worker, q \in Question : w \in Caller /\ q \in Caller /\ w # q
BY Constants DEF Caller

LEMMA InitTypes == Init => Types
<1> SUFFICES ASSUME Init PROVE Types
  OBVIOUS
<1>1. <<>> \in Tries
  BY DEF Tries
<1>2. decisions \in Seq(Decision)
  <2> DEFINE Row == [incident : Incident, request : BOOLEAN, attempts : Seq(Cost),
                     at : {t \in Int : t < 0}]
  <2>1. decisions \in Seq(Row)
    BY SpendingAssumption DEF Init
  <2>2. Seq(Cost) \subseteq Tries
    BY DEF Tries
  <2>3. Row \subseteq Decision
    BY <2>2 DEF Decision
  <2> HIDE DEF Row
  <2> QED BY <2>1, <2>3
<1>3. followups \in Seq(Followup)
  BY DEF Init
<1>4. attempts \in [Caller -> Tries]
  BY <1>1 DEF Init
<1> QED BY <1>2, <1>3, <1>4 DEF Init, Types, Where

LEMMA Sequences ==
  /\ <<>> \in Tries
  /\ \A tries \in Tries, n \in Cost \cup {NoUsage} : Append(tries, n) \in Tries
  /\ \A n \in Cost \cup {NoUsage} : <<n>> \in Tries
BY DEF Tries

LEMMA Going ==
  ASSUME Types, NEW c \in Caller, NEW where \in Where, Goto(c, where)
  PROVE  /\ pc' \in [Caller -> Where] /\ pc'[c] = where
         /\ \A d \in Caller \ {c} : pc'[d] = pc[d]
BY DEF Types, Goto

LEMMA MakingRecord ==
  ASSUME Types, NEW c \in Caller, MakeRecord(c)
  PROVE  /\ pc' \in [Caller -> Where] /\ stamp' \in [Caller -> Nat] /\ Apart(c)
         /\ pc'[c] = "record" /\ stamp'[c] = clock
<1>1. /\ pc' \in [Caller -> Where] /\ pc'[c] = "record"
      /\ \A d \in Caller \ {c} : pc'[d] = pc[d]
  BY Going DEF MakeRecord, Where
<1>2. /\ stamp' \in [Caller -> Nat] /\ stamp'[c] = clock
      /\ \A d \in Caller \ {c} : stamp'[d] = stamp[d]
  BY DEF MakeRecord, Types
<1> QED BY <1>1, <1>2 DEF Apart

LEMMA Charging ==
  ASSUME Types, NEW c \in Caller, NEW n \in Cost \cup {NoUsage},
         attempts' = [attempts EXCEPT ![c] = Append(@, n)]
  PROVE  attempts' \in [Caller -> Tries]
<1>1. Append(attempts[c], n) \in Tries
  BY Sequences DEF Types
<1> QED BY <1>1 DEF Types

LEMMA GoingIdle ==
  ASSUME Types, NEW w \in Worker, Idle(w)
  PROVE  /\ pc' \in [Caller -> Where] /\ stamp' \in [Caller -> Nat] /\ Apart(w)
         /\ job' \in [Worker -> Incident \cup {None}] /\ attempts' \in [Caller -> Tries]
         /\ pc'[w] = "idle"
<1>1. w \in Caller /\ "idle" \in Where
  BY DEF Caller, Where
<1>2. /\ pc' \in [Caller -> Where] /\ pc'[w] = "idle"
      /\ \A d \in Caller \ {w} : pc'[d] = pc[d]
  BY <1>1, Going DEF Idle
<1>3. /\ stamp' \in [Caller -> Nat] /\ \A d \in Caller \ {w} : stamp'[d] = stamp[d]
  BY <1>1 DEF Idle, Types
<1>4. job' \in [Worker -> Incident \cup {None}]
  BY DEF Idle, Types
<1>5. attempts' \in [Caller -> Tries]
  BY <1>1, Sequences DEF Idle, Types
<1> QED BY <1>2, <1>3, <1>4, <1>5 DEF Apart

\* A step of one caller: a record more, or none.
Appends(c, table, rows) ==
  \/ table' = table
  \/ \E row \in rows : /\ table' = Append(table, row)
                      /\ pc[c] = "record" /\ pc'[c] \in {"idle", "done"} /\ row.at = stamp[c]

LEMMA AppendTypes ==
  ASSUME NEW c, NEW rows, NEW table \in Seq(rows), NEW longer,
         \/ longer = table
         \/ \E row \in rows : longer = Append(table, row)
  PROVE  longer \in Seq(rows)
OBVIOUS

LEMMA WorkerSteps ==
  ASSUME Types, NEW w \in Worker, WorkerStep(w)
  PROVE  /\ Types' /\ clock' = clock /\ followups' = followups /\ Apart(w)
         /\ Onward(w) \/ \E i \in Incident : Admit(w, i)
         /\ Appends(w, decisions, Decision)
<1>0. w \in Caller /\ "call" \in Where
  BY DEF Caller, Where
<1>1. CASE \E i \in Incident : Admit(w, i)
  <2>1. PICK i \in Incident : Admit(w, i)
    BY <1>1
  <2>2. /\ pc' \in [Caller -> Where] /\ \A d \in Caller \ {w} : pc'[d] = pc[d]
    BY <1>0, <2>1, Going DEF Admit
  <2>3. UNCHANGED <<clock, decisions, followups, stamp, attempts>> /\ job' = [job EXCEPT ![w] = i]
    BY <2>1 DEF Admit, logVars
  <2> QED BY <1>1, <2>2, <2>3 DEF Types, Apart, Appends
<1>2. CASE FinalReply(w)
  <2>1. pc[w] = "call" /\ MakeRecord(w) /\ UNCHANGED <<clock, decisions, followups, job>>
    BY <1>2 DEF FinalReply, logVars
  <2>2. attempts' \in [Caller -> Tries]
    BY <1>0, <1>2, Charging DEF FinalReply, Charge
  <2> QED BY <1>0, <2>1, <2>2, MakingRecord DEF Types, Onward, Appends
<1>3. CASE RejectedReply(w)
  <2>1. UNCHANGED <<clock, decisions, followups, job, pc, stamp>>
    BY <1>3 DEF RejectedReply, logVars
  <2>2. attempts' \in [Caller -> Tries]
    BY <1>0, <1>3, Charging DEF RejectedReply, Charge
  <2> QED BY <1>0, <2>1, <2>2 DEF Types, Onward, Appends, Apart
<1>4. CASE AnalysisRefused(w)
  <2>1. pc[w] = "call" /\ MakeRecord(w) /\ UNCHANGED <<clock, decisions, followups, job>>
    BY <1>4 DEF AnalysisRefused, logVars
  <2>2. attempts' \in [Caller -> Tries]
    BY <1>0, <1>4, Charging DEF AnalysisRefused
  <2> QED BY <1>0, <2>1, <2>2, MakingRecord DEF Types, Onward, Appends
<1>5. CASE AnalysisUnavailable(w)
  <2>1. pc[w] = "call" /\ UNCHANGED <<clock, decisions, followups>>
    BY <1>5 DEF AnalysisUnavailable, logVars
  <2>2. CASE attempts[w] = <<>>
    <3>1. Idle(w)
      BY <1>5, <2>2 DEF AnalysisUnavailable
    <3> QED BY <2>1, <3>1, GoingIdle DEF Types, Onward, Appends
  <2>3. CASE attempts[w] # <<>>
    <3>1. MakeRecord(w) /\ UNCHANGED job /\ attempts' = [attempts EXCEPT ![w] = Append(@, NoUsage)]
      BY <1>5, <2>3 DEF AnalysisUnavailable
    <3>2. attempts' \in [Caller -> Tries]
      BY <1>0, <3>1, Charging
    <3> QED BY <1>0, <2>1, <3>1, <3>2, MakingRecord DEF Types, Onward, Appends
  <2> QED BY <2>2, <2>3
<1>6. CASE RecordDecision(w)
  <2>1. pc[w] = "record" /\ Idle(w) /\ UNCHANGED <<clock, followups>>
    BY <1>6 DEF RecordDecision
  <2>2. /\ pc' \in [Caller -> Where] /\ stamp' \in [Caller -> Nat] /\ Apart(w)
        /\ job' \in [Worker -> Incident \cup {None}] /\ attempts' \in [Caller -> Tries]
        /\ pc'[w] = "idle"
    BY <2>1, GoingIdle
  <2> DEFINE row == [incident |-> job[w], request |-> TRUE, attempts |-> attempts[w], at |-> stamp[w]]
  <2>3. row \in Decision /\ row.at = stamp[w]
    BY <1>0 DEF Types, Decision
  <2>4. decisions' = decisions \/ decisions' = Append(decisions, row)
    BY <1>6 DEF RecordDecision
  <2> HIDE DEF row
  <2>5. Appends(w, decisions, Decision) /\ Appends(w, followups, Followup)
    BY <2>1, <2>2, <2>3, <2>4 DEF Appends
  <2>6. decisions' \in Seq(Decision) /\ followups' \in Seq(Followup)
    BY <2>1, <2>3, <2>4, AppendTypes DEF Types
  <2> QED BY <2>1, <2>2, <2>5, <2>6 DEF Types, Onward
<1>7. CASE CrashWorker(w)
  <2>1. Idle(w) /\ UNCHANGED <<clock, decisions, followups>>
    BY <1>7 DEF CrashWorker, logVars
  <2> QED BY <2>1, GoingIdle DEF Types, Onward, Appends
<1>8. CASE WorkerError(w)
  <2>1. pc[w] = "call" /\ MakeRecord(w) /\ UNCHANGED <<clock, decisions, followups, job>>
    BY <1>8 DEF WorkerError, logVars
  <2>2. attempts' \in [Caller -> Tries]
    BY <1>0, <1>8, Sequences DEF WorkerError, Types
  <2> QED BY <1>0, <2>1, <2>2, MakingRecord DEF Types, Onward, Appends
<1> QED BY <1>1, <1>2, <1>3, <1>4, <1>5, <1>6, <1>7, <1>8 DEF WorkerStep

\* A question that is let through a limit.
Passes(q) == pc[q] = "limit" /\ pc'[q] = "budget" /\ WithinQuestionLimit

LEMMA Responding ==
  ASSUME Types, NEW q \in Question, NEW code, Respond(q, code)
  PROVE  /\ pc' \in [Caller -> Where] /\ stamp' \in [Caller -> Nat] /\ Apart(q)
         /\ attempts' \in [Caller -> Tries] /\ pc'[q] = "done"
<1>1. q \in Caller /\ "done" \in Where
  BY DEF Caller, Where
<1>2. /\ pc' \in [Caller -> Where] /\ pc'[q] = "done"
      /\ \A d \in Caller \ {q} : pc'[d] = pc[d]
  BY <1>1, Going DEF Respond
<1>3. /\ stamp' \in [Caller -> Nat] /\ \A d \in Caller \ {q} : stamp'[d] = stamp[d]
  BY <1>1 DEF Respond, Types
<1>4. attempts' \in [Caller -> Tries]
  BY <1>1, Sequences DEF Respond, Types
<1> QED BY <1>2, <1>3, <1>4 DEF Apart

LEMMA QuestionSteps ==
  ASSUME Types, NEW q \in Question, QuestionStep(q)
  PROVE  /\ Types' /\ clock' = clock /\ decisions' = decisions /\ Apart(q)
         /\ Onward(q) \/ Passes(q)
         /\ InThread(q)' => InThread(q) \/ Cardinality(Asking) < Threads
         /\ Appends(q, followups, Followup)
<1>0. q \in Caller /\ {"limit", "budget", "history", "call"} \subseteq Where
  BY DEF Caller, Where
<1>1. CASE Ask(q)
  <2>1. pc[q] = "unasked" /\ UNCHANGED <<clock, decisions, followups, job>> /\ Cardinality(Asking) < Threads
    BY <1>1 DEF Ask, logVars, Asking
  <2>2. CASE Analysed(About[q])
    <3>1. Goto(q, "limit") /\ UNCHANGED <<attempts, stamp>>
      BY <1>1, <2>2 DEF Ask
    <3>2. /\ pc' \in [Caller -> Where] /\ pc'[q] = "limit" /\ \A d \in Caller \ {q} : pc'[d] = pc[d]
      BY <1>0, <3>1, Going
    <3> QED BY <2>1, <3>1, <3>2 DEF Types, Onward, Apart, Appends
  <2>3. CASE ~Analysed(About[q])
    <3>1. Respond(q, IF Decided(About[q]) THEN 409 ELSE 404)
      BY <1>1, <2>3 DEF Ask
    <3>2. /\ pc' \in [Caller -> Where] /\ stamp' \in [Caller -> Nat] /\ Apart(q)
          /\ attempts' \in [Caller -> Tries] /\ pc'[q] = "done"
      BY <3>1, Responding
    <3> QED BY <2>1, <3>2 DEF Types, Onward, Appends
  <2> QED BY <2>2, <2>3
<1>2. ASSUME NEW at, NEW ok, NEW next \in {"budget", "history"}, NEW code, Check(q, at, ok, next, code),
             at \in {"limit", "budget"}, at = "limit" => next = "budget",
             at = "limit" /\ ok => WithinQuestionLimit
      PROVE  /\ Types' /\ clock' = clock /\ decisions' = decisions /\ Apart(q)
             /\ Onward(q) \/ Passes(q)
             /\ InThread(q)' => InThread(q)
             /\ Appends(q, followups, Followup)
  <2>1. pc[q] = at /\ UNCHANGED <<clock, decisions, followups, job>>
    BY <1>2 DEF Check, logVars
  <2>2. InThread(q)
    BY <1>2, <2>1 DEF InThread
  <2>3. CASE ok
    <3>1. Goto(q, next) /\ UNCHANGED <<attempts, stamp>>
      BY <1>2, <2>3 DEF Check
    <3>2. /\ pc' \in [Caller -> Where] /\ pc'[q] = next /\ \A d \in Caller \ {q} : pc'[d] = pc[d]
      BY <1>0, <1>2, <3>1, Going
    <3>3. Onward(q) \/ Passes(q)
      BY <1>2, <2>1, <2>3, <3>2 DEF Onward, Passes
    <3> QED BY <2>1, <2>2, <3>1, <3>2, <3>3 DEF Types, Apart, Appends
  <2>4. CASE ~ok
    <3>1. Respond(q, code)
      BY <1>2, <2>4 DEF Check
    <3>2. /\ pc' \in [Caller -> Where] /\ stamp' \in [Caller -> Nat] /\ Apart(q)
          /\ attempts' \in [Caller -> Tries] /\ pc'[q] = "done"
      BY <3>1, Responding
    <3> QED BY <2>1, <2>2, <3>2 DEF Types, Onward, Appends
  <2> QED BY <2>3, <2>4
<1>3. CASE CheckLimit(q)
  BY <1>2, <1>3 DEF CheckLimit
<1>4. CASE CheckBudget(q)
  BY <1>2, <1>4 DEF CheckBudget
<1>5. CASE ReadHistory(q)
  <2>1. pc[q] = "history" /\ Goto(q, "call") /\ UNCHANGED <<clock, decisions, followups, job, attempts, stamp>>
    BY <1>5 DEF ReadHistory, logVars
  <2>2. /\ pc' \in [Caller -> Where] /\ pc'[q] = "call" /\ \A d \in Caller \ {q} : pc'[d] = pc[d]
    BY <1>0, <2>1, Going
  <2> QED BY <2>1, <2>2 DEF Types, Onward, Apart, Appends, InThread
<1>6. ASSUME NEW result, EndCall(q, result), attempts' \in [Caller -> Tries]
      PROVE  /\ Types' /\ clock' = clock /\ decisions' = decisions /\ Apart(q)
             /\ Onward(q)
             /\ InThread(q)
             /\ Appends(q, followups, Followup)
  <2>1. pc[q] = "call" /\ MakeRecord(q) /\ UNCHANGED <<clock, decisions, followups, job>>
    BY <1>6 DEF EndCall, logVars
  <2> QED BY <1>0, <1>6, <2>1, MakingRecord DEF Types, Onward, Appends, InThread
<1>7. CASE Reply(q)
  <2>1. attempts' \in [Caller -> Tries]
    BY <1>0, <1>7, Charging DEF Reply, Charge
  <2> QED BY <1>6, <1>7, <2>1 DEF Reply
<1>8. CASE QuestionRefused(q)
  <2>1. attempts' \in [Caller -> Tries]
    BY <1>0, <1>8, Sequences DEF QuestionRefused, Types
  <2> QED BY <1>6, <1>8, <2>1 DEF QuestionRefused
<1>9. CASE QuestionUnavailable(q)
  <2>1. attempts' \in [Caller -> Tries]
    BY <1>9 DEF QuestionUnavailable, Types
  <2> QED BY <1>6, <1>9, <2>1 DEF QuestionUnavailable
<1>10. CASE RecordFollowup(q)
  <2>1. pc[q] = "record" /\ UNCHANGED <<clock, decisions, job>> /\ \E code : Respond(q, code)
    BY <1>10 DEF RecordFollowup
  <2>2. /\ pc' \in [Caller -> Where] /\ stamp' \in [Caller -> Nat] /\ Apart(q)
        /\ attempts' \in [Caller -> Tries] /\ pc'[q] = "done"
    BY <2>1, Responding
  <2> DEFINE row == [question |-> q, answered |-> outcome[q] = "answer",
                     attempts |-> attempts[q], at |-> stamp[q]]
  <2>3. row \in Followup /\ row.at = stamp[q]
    BY <1>0 DEF Types, Followup
  <2>4. followups' = followups \/ followups' = Append(followups, row)
    BY <1>10 DEF RecordFollowup
  <2> HIDE DEF row
  <2>5. Appends(q, followups, Followup)
    BY <2>1, <2>2, <2>3, <2>4 DEF Appends
  <2>6. followups' \in Seq(Followup)
    BY <2>3, <2>4, AppendTypes DEF Types
  <2> QED BY <2>1, <2>2, <2>5, <2>6 DEF Types, Onward, InThread
<1> QED BY <1>1, <1>3, <1>4, <1>5, <1>7, <1>8, <1>9, <1>10 DEF QuestionStep

LEMMA CrashSteps ==
  ASSUME Types, CrashApi
  PROVE  /\ Types' /\ clock' = clock /\ UNCHANGED <<decisions, followups>>
         /\ \A c \in Caller : Onward(c)
         /\ \A q \in Question : ~InThread(q)'
<1>1. UNCHANGED <<clock, decisions, followups, job>>
  BY DEF CrashApi, logVars
<1> DEFINE cut == {q \in Question : InThread(q)}
<1>2. /\ pc' = [c \in Caller |-> IF c \in cut THEN "done" ELSE pc[c]]
      /\ attempts' = [c \in Caller |-> IF c \in cut THEN <<>> ELSE attempts[c]]
      /\ stamp' = [c \in Caller |-> IF c \in cut THEN 0 ELSE stamp[c]]
  BY DEF CrashApi
<1>3. "done" \in Where /\ \A q \in Question : q \in Caller
  BY DEF Where, Caller
<1>4. /\ pc' \in [Caller -> Where] /\ stamp' \in [Caller -> Nat] /\ attempts' \in [Caller -> Tries]
  BY <1>2, <1>3, Sequences DEF Types
<1>5. \A c \in Caller : Onward(c)
  BY <1>2 DEF Onward
<1>6. \A q \in Question : ~InThread(q)'
  BY <1>2, <1>3 DEF InThread
<1> QED BY <1>1, <1>4, <1>5, <1>6 DEF Types

LEMMA TickSteps ==
  ASSUME Types, Tick
  PROVE  Types' /\ clock' = clock + 1 /\ UNCHANGED <<decisions, followups, pc, stamp>>
BY DEF Tick, Types, logVars

LEMMA StepTypes == Types /\ [Next]_vars => Types'
<1>1. CASE UNCHANGED vars
  BY <1>1 DEF vars, logVars, Types
<1> QED BY <1>1, WorkerSteps, QuestionSteps, CrashSteps, TickSteps DEF Next

(***************************************************************************)
(* The limit on analyses                                                   *)
(***************************************************************************)

LEMMA HourTypes ==
  ASSUME Types, NEW t
  PROVE  /\ Cardinality(InHour(decisions, t)) \in Nat
         /\ Cardinality(InHour(followups, t)) \in Nat
BY HourIsFinite DEF Types

\* No analysis is let through the limit, and no record made.
LEMMA NoAnalysisLetThrough ==
  ASSUME Types, Types', AnalysesCounted, clock <= clock', decisions' = decisions,
         \A w \in Worker : Onward(w)
  PROVE  AnalysesCounted'
<1> SUFFICES ASSUME NEW t \in Nat
             PROVE  Cardinality(InHour(decisions', t)) + Cardinality(AnalysesToCome(t)')
                      <= AnalysisLimit - 1 + Cardinality(Worker)
  BY DEF AnalysesCounted, InHour
<1>0. AnalysesToCome(t) \in SUBSET Worker /\ IsFiniteSet(Worker)
  BY Constants DEF AnalysesToCome
<1>1. AnalysesToCome(t)' \in SUBSET AnalysesToCome(t)
  BY OnwardComes DEF AnalysesToCome, Caller
<1>2. /\ Cardinality(AnalysesToCome(t)') <= Cardinality(AnalysesToCome(t))
      /\ Cardinality(AnalysesToCome(t)') \in Nat /\ Cardinality(AnalysesToCome(t)) \in Nat
  BY <1>0, <1>1, FewerToCome
<1>3. Cardinality(InHour(decisions, t)) + Cardinality(AnalysesToCome(t))
        <= AnalysisLimit - 1 + Cardinality(Worker)
  BY DEF AnalysesCounted
<1>4. Cardinality(InHour(decisions, t)) \in Nat /\ Cardinality(Worker) \in Nat /\ AnalysisLimit \in Nat
  BY HourTypes, Constants, FS_CardinalityType
<1> QED BY <1>2, <1>3, <1>4

LEMMA AnalysisRecorded ==
  ASSUME Types, Types', AnalysesCounted, clock' = clock, NEW w \in Worker, Apart(w),
         NEW row \in Decision, decisions' = Append(decisions, row),
         pc[w] = "record", pc'[w] \in {"idle", "done"}, row.at = stamp[w]
  PROVE  AnalysesCounted'
<1> SUFFICES ASSUME NEW t \in Nat
             PROVE  Cardinality(InHour(decisions', t)) + Cardinality(AnalysesToCome(t)')
                      <= AnalysisLimit - 1 + Cardinality(Worker)
  BY DEF AnalysesCounted, InHour
<1> DEFINE old == AnalysesToCome(t)
           new == AnalysesToCome(t)'
<1>1. old \in SUBSET Worker /\ new \in SUBSET old /\ w \notin new
  BY DEF AnalysesToCome, MayCome, Apart, Caller
<1>2. stamp[w] \in t..(t + RateWindow) => w \in old
  BY DEF AnalysesToCome, MayCome
<1>3. Cardinality(InHour(decisions, t)) + Cardinality(old) <= AnalysisLimit - 1 + Cardinality(Worker)
  BY DEF AnalysesCounted
<1>4. /\ Cardinality(InHour(decisions', t)) <= Cardinality(InHour(decisions, t)) + 1
      /\ row.at \notin t..(t + RateWindow) =>
           Cardinality(InHour(decisions', t)) <= Cardinality(InHour(decisions, t))
  BY OneMore DEF Types
<1>5. Cardinality(InHour(decisions, t)) \in Nat /\ Cardinality(InHour(decisions', t)) \in Nat
  <2>1. Cardinality(InHour(decisions', t)) \in Nat
    BY HourIsFinite DEF Types
  <2> QED BY <2>1, HourTypes
<1>6. Cardinality(Worker) \in Nat /\ AnalysisLimit \in Nat /\ IsFiniteSet(Worker)
  BY Constants, FS_CardinalityType
<1> HIDE DEF old, new
<1>7. /\ Cardinality(new) <= Cardinality(old) /\ Cardinality(new) \in Nat /\ Cardinality(old) \in Nat
      /\ w \in old => Cardinality(new) + 1 <= Cardinality(old)
  BY <1>1, <1>6, FewerToCome
<1>8. Cardinality(InHour(decisions', t)) + Cardinality(new) <= AnalysisLimit - 1 + Cardinality(Worker)
  <2>1. CASE stamp[w] \in t..(t + RateWindow)
    BY <1>2, <1>3, <1>4, <1>5, <1>6, <1>7, <2>1
  <2>2. CASE stamp[w] \notin t..(t + RateWindow)
    BY <1>3, <1>4, <1>5, <1>6, <1>7, <2>2
  <2> QED BY <2>1, <2>2
<1> QED BY <1>8 DEF new

\* The check counts every record of an hour that is not over, and the others in
\* whose hands a record is are other workers.
LEMMA AnalysisAdmitted ==
  ASSUME Types, Types', AnalysesCounted, NEW w \in Worker, NEW i, Admit(w, i), Apart(w)
  PROVE  AnalysesCounted'
<1> SUFFICES ASSUME NEW t \in Nat
             PROVE  Cardinality(InHour(decisions', t)) + Cardinality(AnalysesToCome(t)')
                      <= AnalysisLimit - 1 + Cardinality(Worker)
  BY DEF AnalysesCounted, InHour
<1>1. /\ decisions' = decisions /\ clock' = clock /\ pc[w] = "idle" /\ pc'[w] = "call"
      /\ CountSince(decisions, clock - RateWindow) < AnalysisLimit
  <2>1. /\ decisions' = decisions /\ clock' = clock /\ pc[w] = "idle" /\ Goto(w, "call")
        /\ WithinAnalysisLimit
    BY DEF Admit, logVars
  <2> QED BY <2>1 DEF Goto, Types, Caller, WithinAnalysisLimit
<1>2. Cardinality(InHour(decisions, t)) \in Nat /\ Cardinality(Worker) \in Nat /\ AnalysisLimit \in Nat
      /\ IsFiniteSet(Worker)
  BY HourTypes, Constants, FS_CardinalityType
<1>3. CASE clock <= t + RateWindow
  <2>1. \A n \in DOMAIN decisions : decisions[n].at \in Int
    <3>1. \A n \in DOMAIN decisions : decisions[n] \in Decision
      BY DEF Types
    <3> QED BY <3>1 DEF Decision
  <2>2. Cardinality(InHour(decisions, t)) <= CountSince(decisions, clock - RateWindow)
    BY <1>3, <2>1, HourIsCounted DEF Types
  <2>3. CountSince(decisions, clock - RateWindow) \in Nat
    <3>1. DOMAIN decisions = 1..Len(decisions) /\ Len(decisions) \in Nat
      BY DEF Types
    <3>2. IsFiniteSet(DOMAIN decisions)
      BY <3>1, FS_Interval
    <3> QED BY <3>2, FS_Subset, FS_CardinalityType DEF CountSince
  <2>4. Cardinality(AnalysesToCome(t)') <= Cardinality(Worker) /\ Cardinality(AnalysesToCome(t)') \in Nat
    <3>1. AnalysesToCome(t)' \in SUBSET Worker
      BY DEF AnalysesToCome
    <3> QED BY <1>2, <3>1, FS_Subset, FS_CardinalityType
  <2> QED BY <1>1, <1>2, <2>2, <2>3, <2>4
<1>4. CASE ~(clock <= t + RateWindow)
  <2>1. AnalysesToCome(t)' \in SUBSET AnalysesToCome(t)
    BY <1>1, <1>4 DEF AnalysesToCome, MayCome, Apart, Caller
  <2>2. AnalysesToCome(t) \in SUBSET Worker
    BY DEF AnalysesToCome
  <2>3. /\ Cardinality(AnalysesToCome(t)') <= Cardinality(AnalysesToCome(t))
        /\ Cardinality(AnalysesToCome(t)') \in Nat /\ Cardinality(AnalysesToCome(t)) \in Nat
    BY <1>2, <2>1, <2>2, FewerToCome
  <2>4. Cardinality(InHour(decisions, t)) + Cardinality(AnalysesToCome(t))
          <= AnalysisLimit - 1 + Cardinality(Worker)
    BY DEF AnalysesCounted
  <2> QED BY <1>1, <1>2, <2>3, <2>4
<1> QED BY <1>3, <1>4

LEMMA AnalysesStep == Types /\ AnalysesCounted /\ [Next]_vars => AnalysesCounted'
<1> SUFFICES ASSUME Types, AnalysesCounted, [Next]_vars PROVE AnalysesCounted'
  OBVIOUS
<1>1. Types' /\ clock \in Nat /\ Worker \subseteq Caller
  BY StepTypes DEF Types, Caller
<1>2. ASSUME NEW w \in Worker, WorkerStep(w)
      PROVE  AnalysesCounted'
  <2>1. /\ clock' = clock /\ Apart(w) /\ Appends(w, decisions, Decision)
        /\ Onward(w) \/ \E i \in Incident : Admit(w, i)
    BY <1>2, WorkerSteps
  <2>2. CASE \E i \in Incident : Admit(w, i)
    BY <1>1, <2>1, <2>2, AnalysisAdmitted
  <2>3. CASE Onward(w) /\ decisions' = decisions
    <3>1. \A v \in Worker : Onward(v)
      BY <1>1, <2>1, <2>3 DEF Onward, Apart
    <3> QED BY <1>1, <2>1, <2>3, <3>1, NoAnalysisLetThrough
  <2>4. CASE decisions' # decisions
    BY <1>1, <2>1, <2>4, AnalysisRecorded DEF Appends
  <2> QED BY <2>1, <2>2, <2>3, <2>4
<1>3. ASSUME NEW q \in Question, QuestionStep(q)
      PROVE  AnalysesCounted'
  <2>1. clock' = clock /\ decisions' = decisions /\ Apart(q)
    BY <1>3, QuestionSteps
  <2>2. \A w \in Worker : Onward(w)
    BY <2>1, CallersApart DEF Onward, Apart
  <2> QED BY <1>1, <2>1, <2>2, NoAnalysisLetThrough
<1>4. CASE CrashApi
  BY <1>1, <1>4, CrashSteps, NoAnalysisLetThrough
<1>5. CASE Tick
  <2>1. \A w \in Worker : Onward(w)
    BY <1>5, TickSteps DEF Onward
  <2> QED BY <1>1, <1>5, <2>1, TickSteps, NoAnalysisLetThrough
<1>6. CASE UNCHANGED vars
  <2>1. clock' = clock /\ decisions' = decisions /\ \A w \in Worker : Onward(w)
    BY <1>6 DEF vars, logVars, Onward
  <2> QED BY <1>1, <2>1, NoAnalysisLetThrough
<1> QED BY <1>2, <1>3, <1>4, <1>5, <1>6 DEF Next

LEMMA InitAnalyses == Init => AnalysesCounted
<1> SUFFICES ASSUME Init, NEW t \in Nat
             PROVE  Cardinality(InHour(decisions, t)) + Cardinality(AnalysesToCome(t))
                      <= AnalysisLimit - 1 + Cardinality(Worker)
  BY DEF AnalysesCounted
<1>1. AnalysesToCome(t) = {}
  BY DEF Init, AnalysesToCome, MayCome, Caller
<1>2. InHour(decisions, t) = {}
  <2> DEFINE Row == [incident : Incident, request : BOOLEAN, attempts : Seq(Cost),
                     at : {u \in Int : u < 0}]
  <2>1. decisions \in Seq(Row)
    BY SpendingAssumption DEF Init
  <2>2. \A r \in Row : r.at < 0 /\ r.at \in Int
    OBVIOUS
  <2> HIDE DEF Row
  <2>3. \A n \in DOMAIN decisions : decisions[n].at < 0 /\ decisions[n].at \in Int
    BY <2>1, <2>2
  <2> QED BY <2>3 DEF InHour
<1>3. Cardinality(Worker) \in Nat /\ Cardinality(Worker) # 0 /\ AnalysisLimit \in Nat
  BY Constants, FS_CardinalityType, FS_EmptySet
<1> QED BY <1>1, <1>2, <1>3, FS_EmptySet

(***************************************************************************)
(* The limit on questions                                                  *)
(***************************************************************************)

\* As many questions are in somebody's hands as there are threads, at the most.
LEMMA AskingBounds ==
  ASSUME Cardinality(Asking) <= Threads, NEW S \in SUBSET Asking
  PROVE  IsFiniteSet(Asking) /\ Cardinality(S) \in Nat /\ Cardinality(S) <= Threads
<1>1. IsFiniteSet(Asking)
  <2>1. Asking \in SUBSET Question
    BY DEF Asking
  <2> QED BY <2>1, Constants, FS_Subset
<1>2. /\ IsFiniteSet(S) /\ Cardinality(S) <= Cardinality(Asking)
      /\ Cardinality(S) \in Nat /\ Cardinality(Asking) \in Nat /\ Threads \in Nat
  BY <1>1, Constants, FS_Subset, FS_CardinalityType
<1> QED BY <1>1, <1>2

LEMMA ComingIsAsking ==
  \A t : /\ QuestionsToCome(t) \in SUBSET Asking
         /\ QuestionsToCome(t)' \in SUBSET Asking'
BY DEF QuestionsToCome, Asking, MayCome, InThread

LEMMA NoQuestionLetThrough ==
  ASSUME Types, Types', QuestionsCounted, clock <= clock', followups' = followups,
         Cardinality(Asking') <= Threads, \A q \in Question : Onward(q)
  PROVE  QuestionsCounted'
<1> SUFFICES ASSUME NEW t \in Nat
             PROVE  Cardinality(InHour(followups', t)) + Cardinality(QuestionsToCome(t)')
                      <= QuestionLimit - 1 + Threads
  BY DEF QuestionsCounted, InHour, Asking
<1>1. QuestionsToCome(t) \in SUBSET Question /\ IsFiniteSet(Question)
  BY Constants DEF QuestionsToCome
<1>2. QuestionsToCome(t)' \in SUBSET QuestionsToCome(t)
  BY OnwardComes DEF QuestionsToCome, Caller
<1>3. /\ Cardinality(QuestionsToCome(t)') <= Cardinality(QuestionsToCome(t))
      /\ Cardinality(QuestionsToCome(t)') \in Nat /\ Cardinality(QuestionsToCome(t)) \in Nat
  BY <1>1, <1>2, FewerToCome
<1>4. Cardinality(InHour(followups, t)) + Cardinality(QuestionsToCome(t)) <= QuestionLimit - 1 + Threads
  BY DEF QuestionsCounted
<1>5. Cardinality(InHour(followups, t)) \in Nat /\ Threads \in Nat /\ QuestionLimit \in Nat
  BY HourTypes, Constants
<1> QED BY <1>3, <1>4, <1>5

LEMMA QuestionRecorded ==
  ASSUME Types, Types', QuestionsCounted, clock' = clock, NEW q \in Question, Apart(q),
         Cardinality(Asking') <= Threads,
         NEW row \in Followup, followups' = Append(followups, row),
         pc[q] = "record", pc'[q] \in {"idle", "done"}, row.at = stamp[q]
  PROVE  QuestionsCounted'
<1> SUFFICES ASSUME NEW t \in Nat
             PROVE  Cardinality(InHour(followups', t)) + Cardinality(QuestionsToCome(t)')
                      <= QuestionLimit - 1 + Threads
  BY DEF QuestionsCounted, InHour, Asking
<1> DEFINE old == QuestionsToCome(t)
           new == QuestionsToCome(t)'
<1>1. old \in SUBSET Question /\ new \in SUBSET old /\ q \notin new
  BY DEF QuestionsToCome, MayCome, Apart, Caller
<1>2. stamp[q] \in t..(t + RateWindow) => q \in old
  BY DEF QuestionsToCome, MayCome
<1>3. Cardinality(InHour(followups, t)) + Cardinality(old) <= QuestionLimit - 1 + Threads
  BY DEF QuestionsCounted
<1>4. /\ Cardinality(InHour(followups', t)) <= Cardinality(InHour(followups, t)) + 1
      /\ row.at \notin t..(t + RateWindow) =>
           Cardinality(InHour(followups', t)) <= Cardinality(InHour(followups, t))
  BY OneMore DEF Types
<1>5. Cardinality(InHour(followups, t)) \in Nat /\ Cardinality(InHour(followups', t)) \in Nat
  <2>1. Cardinality(InHour(followups', t)) \in Nat
    BY HourIsFinite DEF Types
  <2> QED BY <2>1, HourTypes
<1>6. Threads \in Nat /\ QuestionLimit \in Nat /\ IsFiniteSet(Question)
  BY Constants
<1> HIDE DEF old, new
<1>7. /\ Cardinality(new) <= Cardinality(old) /\ Cardinality(new) \in Nat /\ Cardinality(old) \in Nat
      /\ q \in old => Cardinality(new) + 1 <= Cardinality(old)
  BY <1>1, <1>6, FewerToCome
<1>8. Cardinality(InHour(followups', t)) + Cardinality(new) <= QuestionLimit - 1 + Threads
  <2>1. CASE stamp[q] \in t..(t + RateWindow)
    BY <1>2, <1>3, <1>4, <1>5, <1>6, <1>7, <2>1
  <2>2. CASE stamp[q] \notin t..(t + RateWindow)
    BY <1>3, <1>4, <1>5, <1>6, <1>7, <2>2
  <2> QED BY <2>1, <2>2
<1> QED BY <1>8 DEF new

\* The others in whose hands a record is have threads of their own.
LEMMA QuestionAdmitted ==
  ASSUME Types, Types', QuestionsCounted, clock' = clock, followups' = followups,
         NEW q \in Question, Apart(q), Passes(q), Cardinality(Asking') <= Threads
  PROVE  QuestionsCounted'
<1> SUFFICES ASSUME NEW t \in Nat
             PROVE  Cardinality(InHour(followups', t)) + Cardinality(QuestionsToCome(t)')
                      <= QuestionLimit - 1 + Threads
  BY DEF QuestionsCounted, InHour, Asking
<1>1. pc'[q] = "budget" /\ CountSince(followups, clock - RateWindow) < QuestionLimit
  BY DEF Passes, WithinQuestionLimit
<1>2. Cardinality(InHour(followups, t)) \in Nat /\ Threads \in Nat /\ QuestionLimit \in Nat
      /\ IsFiniteSet(Question)
  BY HourTypes, Constants
<1>3. CASE clock <= t + RateWindow
  <2>1. \A n \in DOMAIN followups : followups[n].at \in Int
    <3>1. \A n \in DOMAIN followups : followups[n] \in Followup
      BY DEF Types
    <3> QED BY <3>1 DEF Followup
  <2>2. Cardinality(InHour(followups, t)) <= CountSince(followups, clock - RateWindow)
    BY <1>3, <2>1, HourIsCounted DEF Types
  <2>3. CountSince(followups, clock - RateWindow) \in Nat
    <3>1. DOMAIN followups = 1..Len(followups) /\ Len(followups) \in Nat
      BY DEF Types
    <3>2. IsFiniteSet(DOMAIN followups)
      BY <3>1, FS_Interval
    <3> QED BY <3>2, FS_Subset, FS_CardinalityType DEF CountSince
  <2>4. Cardinality(QuestionsToCome(t)') <= Threads /\ Cardinality(QuestionsToCome(t)') \in Nat
    <3>1. IsFiniteSet(Asking') /\ QuestionsToCome(t)' \in SUBSET Asking'
      <4>1. Asking' \in SUBSET Question
        BY DEF Asking
      <4> QED BY <1>2, <4>1, ComingIsAsking, FS_Subset
    <3>2. Cardinality(QuestionsToCome(t)') <= Cardinality(Asking') /\ Cardinality(Asking') \in Nat
          /\ Cardinality(QuestionsToCome(t)') \in Nat
      BY <3>1, FS_Subset, FS_CardinalityType
    <3> QED BY <1>2, <3>2
  <2> QED BY <1>1, <1>2, <2>2, <2>3, <2>4
<1>4. CASE ~(clock <= t + RateWindow)
  <2>1. QuestionsToCome(t)' \in SUBSET QuestionsToCome(t)
    BY <1>1, <1>4 DEF QuestionsToCome, MayCome, Apart, Caller
  <2>2. QuestionsToCome(t) \in SUBSET Question
    BY DEF QuestionsToCome
  <2>3. /\ Cardinality(QuestionsToCome(t)') <= Cardinality(QuestionsToCome(t))
        /\ Cardinality(QuestionsToCome(t)') \in Nat /\ Cardinality(QuestionsToCome(t)) \in Nat
    BY <1>2, <2>1, <2>2, FewerToCome
  <2>4. Cardinality(InHour(followups, t)) + Cardinality(QuestionsToCome(t)) <= QuestionLimit - 1 + Threads
    BY DEF QuestionsCounted
  <2> QED BY <1>2, <2>3, <2>4
<1> QED BY <1>3, <1>4

\* A question that comes in finds a thread free.
LEMMA AskingStays ==
  ASSUME Types, Cardinality(Asking) <= Threads, NEW q \in Question, Apart(q),
         InThread(q)' => InThread(q) \/ Cardinality(Asking) < Threads
  PROVE  Cardinality(Asking') <= Threads
<1>1. IsFiniteSet(Asking) /\ Cardinality(Asking) \in Nat /\ Threads \in Nat
  BY AskingBounds, Constants
<1>2. Asking' \in SUBSET (Asking \cup {q})
  BY DEF Asking, InThread, Apart, Caller
<1>3. CASE q \in Asking \/ q \notin Asking'
  <2>1. Asking' \in SUBSET Asking
    BY <1>2, <1>3
  <2>2. Cardinality(Asking') <= Cardinality(Asking) /\ Cardinality(Asking') \in Nat
    BY <1>1, <2>1, FS_Subset, FS_CardinalityType
  <2> QED BY <1>1, <2>2
<1>4. CASE q \notin Asking /\ q \in Asking'
  <2>1. Cardinality(Asking) < Threads
    BY <1>4 DEF Asking, InThread
  <2>2. IsFiniteSet(Asking \cup {q}) /\ Cardinality(Asking \cup {q}) = Cardinality(Asking) + 1
    BY <1>1, <1>4, FS_AddElement
  <2>3. Cardinality(Asking') <= Cardinality(Asking \cup {q}) /\ Cardinality(Asking') \in Nat
    BY <1>2, <2>2, FS_Subset, FS_CardinalityType
  <2> QED BY <1>1, <2>1, <2>2, <2>3
<1> QED BY <1>3, <1>4

LEMMA QuestionsStep == Types /\ QuestionsCounted /\ [Next]_vars => QuestionsCounted'
<1> SUFFICES ASSUME Types, QuestionsCounted, [Next]_vars PROVE QuestionsCounted'
  OBVIOUS
<1>1. Types' /\ clock \in Nat /\ Question \subseteq Caller /\ Cardinality(Asking) <= Threads
  BY StepTypes DEF Types, Caller, QuestionsCounted
<1>2. ASSUME clock <= clock', followups' = followups,
             \A q \in Question : pc'[q] = pc[q] /\ stamp'[q] = stamp[q]
      PROVE  QuestionsCounted'
  <2>1. Asking' = Asking
    BY <1>2 DEF Asking, InThread
  <2>2. \A q \in Question : Onward(q)
    BY <1>2 DEF Onward
  <2> QED BY <1>1, <1>2, <2>1, <2>2, NoQuestionLetThrough
<1>3. ASSUME NEW q \in Question, QuestionStep(q)
      PROVE  QuestionsCounted'
  <2>1. /\ clock' = clock /\ Apart(q) /\ Appends(q, followups, Followup)
        /\ Onward(q) \/ Passes(q)
        /\ InThread(q)' => InThread(q) \/ Cardinality(Asking) < Threads
    BY <1>3, QuestionSteps DEF Asking
  <2>2. Cardinality(Asking') <= Threads
    BY <1>1, <2>1, AskingStays
  <2>3. CASE followups' # followups
    BY <1>1, <2>1, <2>2, <2>3, QuestionRecorded DEF Appends
  <2>4. CASE followups' = followups /\ Passes(q)
    BY <1>1, <2>1, <2>2, <2>4, QuestionAdmitted
  <2>5. CASE followups' = followups /\ Onward(q)
    <3>1. \A p \in Question : Onward(p)
      BY <1>1, <2>1, <2>5 DEF Onward, Apart
    <3> QED BY <1>1, <2>1, <2>2, <2>5, <3>1, NoQuestionLetThrough
  <2> QED BY <2>1, <2>3, <2>4, <2>5
<1>4. ASSUME NEW w \in Worker, WorkerStep(w)
      PROVE  QuestionsCounted'
  <2>1. clock' = clock /\ followups' = followups /\ Apart(w)
    BY <1>4, WorkerSteps
  <2>2. \A q \in Question : pc'[q] = pc[q] /\ stamp'[q] = stamp[q]
    BY <2>1, CallersApart DEF Apart
  <2> QED BY <1>1, <1>2, <2>1, <2>2
<1>5. CASE CrashApi
  <2>1. /\ clock' = clock /\ followups' = followups /\ \A q \in Question : Onward(q)
        /\ Asking' = {}
    BY <1>1, <1>5, CrashSteps DEF Asking
  <2>2. Cardinality(Asking') <= Threads
    BY <2>1, Constants, FS_EmptySet
  <2> QED BY <1>1, <2>1, <2>2, NoQuestionLetThrough
<1>6. CASE Tick
  <2>1. clock' = clock + 1 /\ followups' = followups /\ pc' = pc /\ stamp' = stamp
    BY <1>6, TickSteps
  <2> QED BY <1>1, <1>2, <2>1
<1>7. CASE UNCHANGED vars
  <2>1. clock' = clock /\ followups' = followups /\ pc' = pc /\ stamp' = stamp
    BY <1>7 DEF vars, logVars
  <2> QED BY <1>1, <1>2, <2>1
<1> QED BY <1>3, <1>4, <1>5, <1>6, <1>7 DEF Next

LEMMA InitQuestions == Init => QuestionsCounted
<1> SUFFICES ASSUME Init PROVE QuestionsCounted
  OBVIOUS
<1>1. Asking = {}
  BY Constants DEF Init, Asking, InThread, Caller
<1>2. \A t : QuestionsToCome(t) = {}
  BY <1>1, ComingIsAsking
<1>3. \A t : InHour(followups, t) = {}
  BY DEF Init, InHour
<1>4. Threads \in Nat /\ Threads > 0 /\ QuestionLimit \in Nat
  BY Constants
<1> QED BY <1>1, <1>2, <1>3, <1>4, FS_EmptySet DEF QuestionsCounted

(***************************************************************************)
(* The theorems of the limits                                              *)
(***************************************************************************)

\* In no hour are more analyses recorded than the limit allows and one less
\* than there are workers besides: each worker checks the limit against the log
\* before it calls the provider, and none has more than one call in hand
\* (worker.py, poll_once).
THEOREM AnalysesBounded == Spec => []RateLimitSoft
<1>1. Types /\ AnalysesCounted => RateLimitSoft
  <2> SUFFICES ASSUME Types, AnalysesCounted, NEW t \in 0..clock
               PROVE  Cardinality(InHour(decisions, t)) <= AnalysisLimit - 1 + Cardinality(Worker)
    BY DEF RateLimitSoft, Within, InHour
  <2>1. t \in Nat /\ Cardinality(InHour(decisions, t)) \in Nat
    BY HourTypes DEF Types
  <2>2. Cardinality(AnalysesToCome(t)) \in Nat
    <3>1. AnalysesToCome(t) \in SUBSET Worker
      BY DEF AnalysesToCome
    <3> QED BY <3>1, Constants, FS_Subset, FS_CardinalityType
  <2>3. Cardinality(Worker) \in Nat /\ AnalysisLimit \in Nat
    BY Constants, FS_CardinalityType
  <2> QED BY <2>1, <2>2, <2>3 DEF AnalysesCounted
<1>2. Init => Types /\ AnalysesCounted
  BY InitTypes, InitAnalyses
<1>3. Types /\ AnalysesCounted /\ [Next]_vars => (Types /\ AnalysesCounted)'
  BY StepTypes, AnalysesStep
<1> QED BY <1>1, <1>2, <1>3, PTL DEF Spec

\* Nor more follow-up questions than the limit allows and one less than the API
\* has threads (api.py, ask): a question has a thread from before its check
\* until its record is made, crash or no crash.
THEOREM QuestionsBounded == Spec => []QuestionLimitSoft
<1>1. Types /\ QuestionsCounted => QuestionLimitSoft
  <2> SUFFICES ASSUME Types, QuestionsCounted, NEW t \in 0..clock
               PROVE  Cardinality(InHour(followups, t)) <= QuestionLimit - 1 + Threads
    BY DEF QuestionLimitSoft, Within, InHour
  <2>1. t \in Nat /\ Cardinality(InHour(followups, t)) \in Nat
    BY HourTypes DEF Types
  <2>2. Cardinality(QuestionsToCome(t)) \in Nat
    <3>1. QuestionsToCome(t) \in SUBSET Question
      BY DEF QuestionsToCome
    <3> QED BY <3>1, Constants, FS_Subset, FS_CardinalityType
  <2>3. Threads \in Nat /\ QuestionLimit \in Nat
    BY Constants
  <2> QED BY <2>1, <2>2, <2>3 DEF QuestionsCounted
<1>2. Init => Types /\ QuestionsCounted
  BY InitTypes, InitQuestions
<1>3. Types /\ QuestionsCounted /\ [Next]_vars => (Types /\ QuestionsCounted)'
  BY StepTypes, QuestionsStep
<1> QED BY <1>1, <1>2, <1>3, PTL DEF Spec

(***************************************************************************)
(* Sums                                                                    *)
(*                                                                         *)
(* SumFunction is defined by recursion over an arbitrary choice of the next *)
(* element, so nothing can be said of it before it is known to be well     *)
(* defined: SumIsCount shows that it counts units, of which element x of   *)
(* the domain has f[x].  The rest is about sets and their cardinality.     *)
(***************************************************************************)

Units(f, S) == {u \in S \X Nat : u[2] < f[u[1]]}

Pick(s) == CHOOSE x \in s : TRUE

\* One step of the recursion, of which a sum is the solution.
SumStep(f, g, s) == IF s = {} THEN 0 ELSE f[Pick(s)] + g[s \ {Pick(s)}]

Solves(g, f, S) == g = [s \in SUBSET S |-> SumStep(f, g, s)]

Solution(f, S) == CHOOSE g : Solves(g, f, S)

UnitCounts(f, S) == [s \in SUBSET S |-> Cardinality(Units(f, s))]

(***************************************************************************)
(* A sum is a number of units                                              *)
(***************************************************************************)

LEMMA SumIsSolution ==
  ASSUME NEW f, NEW S
  PROVE  SumFunctionOnSet(f, S) = Solution(f, S)[S]
BY Zenon DEF SumFunctionOnSet, FoldFunctionOnSet, MapThenFoldSet, Solution, Solves, SumStep, Pick

LEMMA UnitsFinite ==
  ASSUME NEW f, NEW S, IsFiniteSet(S), \A x \in S : f[x] \in Nat
  PROVE  IsFiniteSet(Units(f, S))
<1> DEFINE part(x) == {x} \X (0..(f[x] - 1))
           parts == [x \in S |-> part(x)]
           all == {part(x) : x \in S}
<1>1. \A x \in S : IsFiniteSet(part(x))
  <2> TAKE x \in S
  <2>1. f[x] - 1 \in Int
    OBVIOUS
  <2>2. IsFiniteSet({x})
    BY FS_Singleton
  <2>3. IsFiniteSet(0..(f[x] - 1))
    BY <2>1, FS_Interval
  <2> QED BY <2>2, <2>3, FS_Product
<1>2. parts \in Surjection(S, all)
  BY DEF Surjection
<1>3. IsFiniteSet(all)
  BY <1>2, FS_Surjection
<1>4. IsFiniteSet(UNION all)
  BY <1>1, <1>3, FS_UNION
<1>5. Units(f, S) = UNION all
  BY DEF Units
<1> QED BY <1>4, <1>5

LEMMA UnitsOfOneMore ==
  ASSUME NEW f, NEW S, IsFiniteSet(S), \A x \in S : f[x] \in Nat, NEW x \in S
  PROVE  Cardinality(Units(f, S)) = f[x] + Cardinality(Units(f, S \ {x}))
<1> DEFINE new == {x} \X (0..(f[x] - 1))
           old == Units(f, S \ {x})
<1>1. IsFiniteSet({x}) /\ Cardinality({x}) = 1
  BY FS_Singleton
<1>2. IsFiniteSet(0..(f[x] - 1)) /\ Cardinality(0..(f[x] - 1)) = f[x]
  BY FS_Interval
<1>3. IsFiniteSet(new) /\ Cardinality(new) = 1 * f[x]
  BY <1>1, <1>2, FS_Product, SMTT(30)
<1>4. old \cap new = {} /\ Units(f, S) = old \cup new
  BY DEF Units
<1>5. IsFiniteSet(old) /\ Cardinality(old) \in Nat
  BY UnitsFinite, FS_RemoveElement, FS_CardinalityType
<1> HIDE DEF new, old
<1>6. Cardinality(old \cup new) = Cardinality(old) + Cardinality(new) - Cardinality({})
  BY <1>3, <1>4, <1>5, FS_Union
<1> QED BY <1>3, <1>4, <1>5, <1>6, FS_EmptySet DEF old

LEMMA CountsSolve ==
  ASSUME NEW f, NEW S, IsFiniteSet(S), \A x \in S : f[x] \in Nat
  PROVE  Solves(UnitCounts(f, S), f, S)
<1> SUFFICES ASSUME NEW s \in SUBSET S
             PROVE  Cardinality(Units(f, s)) = SumStep(f, UnitCounts(f, S), s)
  BY DEF UnitCounts, Solves
<1>1. IsFiniteSet(s)
  BY FS_Subset
<1>2. CASE s = {}
  <2>1. Units(f, s) = {}
    BY <1>2 DEF Units
  <2> QED BY <1>2, <2>1, FS_EmptySet DEF SumStep
<1>3. CASE s # {}
  <2>1. Pick(s) \in s
    BY <1>3 DEF Pick
  <2>2. Cardinality(Units(f, s)) = f[Pick(s)] + Cardinality(Units(f, s \ {Pick(s)}))
    BY <1>1, <2>1, UnitsOfOneMore
  <2>3. UnitCounts(f, S)[s \ {Pick(s)}] = Cardinality(Units(f, s \ {Pick(s)}))
    BY DEF UnitCounts
  <2> QED BY <1>3, <2>2, <2>3 DEF SumStep
<1> QED BY <1>2, <1>3

\* Two solutions that differed would differ on a smallest set, and do not.
LEMMA SolutionUnique ==
  ASSUME NEW f, NEW S, IsFiniteSet(S), NEW g, NEW h, Solves(g, f, S), Solves(h, f, S)
  PROVE  g = h
<1> DEFINE bad == {s \in SUBSET S : g[s] # h[s]}
<1>1. SUFFICES ASSUME bad # {} PROVE FALSE
  <2>1. \A s \in SUBSET S : g[s] = h[s]
    BY <1>1
  <2> QED BY <2>1 DEF Solves
<1>2. IsWellFoundedOn(StrictSubsetOrdering(S), SUBSET S)
  BY FS_StrictSubsetOrderingWellFounded, FS_FiniteSubsetsOfFinite
<1>3. PICK s \in bad : \A t \in bad : <<t, s>> \notin StrictSubsetOrdering(S)
  <2>1. bad \subseteq SUBSET S
    OBVIOUS
  <2> HIDE DEF bad
  <2> QED BY <1>1, <1>2, <2>1, WFMin
<1>4. g[s] = SumStep(f, g, s) /\ h[s] = SumStep(f, h, s)
  BY DEF Solves
<1>5. s # {}
  BY <1>4 DEF SumStep
<1>6. Pick(s) \in s
  BY <1>5 DEF Pick
<1>7. <<s \ {Pick(s)}, s>> \in StrictSubsetOrdering(S)
  BY <1>6 DEF StrictSubsetOrdering
<1>8. g[s \ {Pick(s)}] = h[s \ {Pick(s)}]
  BY <1>3, <1>7
<1> QED BY <1>4, <1>5, <1>8 DEF SumStep

LEMMA SumIsCount ==
  ASSUME NEW S, IsFiniteSet(S), NEW f \in [S -> Nat]
  PROVE  SumFunction(f) = Cardinality(Units(f, S)) /\ IsFiniteSet(Units(f, S))
<1>1. Solves(UnitCounts(f, S), f, S)
  BY CountsSolve
<1>2. Solves(Solution(f, S), f, S)
  BY <1>1, Zenon DEF Solution
<1>3. Solution(f, S) = UnitCounts(f, S)
  BY <1>1, <1>2, SolutionUnique
<1>4. UnitCounts(f, S)[S] = Cardinality(Units(f, S))
  BY DEF UnitCounts
<1>5. SumFunction(f) = SumFunctionOnSet(f, S)
  BY DEF SumFunction
<1> QED BY <1>3, <1>4, <1>5, SumIsSolution, UnitsFinite

(***************************************************************************)
(* What is used of sums                                                    *)
(***************************************************************************)

LEMMA SumType ==
  ASSUME NEW S, IsFiniteSet(S), NEW f \in [S -> Nat]
  PROVE  SumFunction(f) \in Nat
BY SumIsCount, FS_CardinalityType

\* The sum over a set is the one over a part of it and the one over the rest.
LEMMA SumSplit ==
  ASSUME NEW S, IsFiniteSet(S), NEW T \in SUBSET S, NEW f \in [S -> Nat],
         NEW g \in [T -> Nat], \A x \in T : g[x] = f[x],
         NEW h \in [S \ T -> Nat], \A x \in S \ T : h[x] = f[x]
  PROVE  SumFunction(f) = SumFunction(g) + SumFunction(h)
<1>1. IsFiniteSet(T) /\ IsFiniteSet(S \ T)
  BY FS_Subset, FS_Difference
<1>2. /\ IsFiniteSet(Units(f, S)) /\ SumFunction(f) = Cardinality(Units(f, S))
      /\ IsFiniteSet(Units(g, T)) /\ SumFunction(g) = Cardinality(Units(g, T))
      /\ IsFiniteSet(Units(h, S \ T)) /\ SumFunction(h) = Cardinality(Units(h, S \ T))
  BY <1>1, SumIsCount
<1> DEFINE u == Units(g, T)
           v == Units(h, S \ T)
<1>3. Units(f, S) = u \cup v /\ u \cap v = {}
  BY DEF Units
<1>4. /\ IsFiniteSet(u) /\ SumFunction(g) = Cardinality(u)
      /\ IsFiniteSet(v) /\ SumFunction(h) = Cardinality(v)
      /\ SumFunction(f) = Cardinality(u \cup v)
  BY <1>2, <1>3
<1> HIDE DEF u, v
<1>5. Cardinality(u \cup v) = Cardinality(u) + Cardinality(v) - Cardinality({})
  BY <1>3, <1>4, FS_Union
<1>6. Cardinality(u) \in Nat /\ Cardinality(v) \in Nat
  BY <1>4, FS_CardinalityType
<1> QED BY <1>4, <1>5, <1>6, FS_EmptySet

LEMMA SumOfZeros ==
  ASSUME NEW S, IsFiniteSet(S), NEW f \in [S -> Nat], \A x \in S : f[x] = 0
  PROVE  SumFunction(f) = 0
<1>1. Units(f, S) = {}
  BY DEF Units
<1> QED BY <1>1, SumIsCount, FS_EmptySet

LEMMA SumOfOne ==
  ASSUME NEW x, NEW f \in [{x} -> Nat]
  PROVE  SumFunction(f) = f[x]
<1>1. IsFiniteSet({x})
  BY FS_Singleton
<1>2. Cardinality(Units(f, {x})) = f[x] + Cardinality(Units(f, {x} \ {x}))
  BY <1>1, UnitsOfOneMore
<1>3. Units(f, {x} \ {x}) = {}
  BY DEF Units
<1> QED BY <1>1, <1>2, <1>3, SumIsCount, FS_EmptySet

\* Part of a sum, with the rest zero.
LEMMA SumRest ==
  ASSUME NEW S, IsFiniteSet(S), NEW T \in SUBSET S,
         NEW f \in [S -> Nat], NEW g \in [T -> Nat],
         \A x \in T : g[x] = f[x], \A x \in S \ T : f[x] = 0
  PROVE  SumFunction(f) = SumFunction(g)
<1> DEFINE h == [x \in S \ T |-> f[x]]
<1>1. h \in [S \ T -> Nat] /\ \A x \in S \ T : h[x] = f[x] /\ h[x] = 0
  OBVIOUS
<1> HIDE DEF h
<1>2. SumFunction(f) = SumFunction(g) + SumFunction(h)
  BY <1>1, SumSplit
<1>3. SumFunction(h) = 0 /\ SumFunction(g) \in Nat
  BY <1>1, SumOfZeros, SumType, FS_Difference, FS_Subset
<1> QED BY <1>2, <1>3

LEMMA SumExtend ==
  ASSUME NEW S, IsFiniteSet(S), NEW x, x \notin S,
         NEW f \in [S -> Nat], NEW g \in [S \cup {x} -> Nat], \A y \in S : g[y] = f[y]
  PROVE  SumFunction(g) = SumFunction(f) + g[x]
<1> DEFINE h == [y \in {x} |-> g[y]]
<1>1. h \in [{x} -> Nat] /\ h[x] = g[x] /\ (S \cup {x}) \ S = {x} /\ S \in SUBSET (S \cup {x})
  OBVIOUS
<1> HIDE DEF h
<1>2. IsFiniteSet(S \cup {x})
  BY FS_AddElement
<1>3. SumFunction(g) = SumFunction(f) + SumFunction(h)
  BY <1>1, <1>2, SumSplit
<1> QED BY <1>1, <1>3, SumOfOne

\* One term changes.
LEMMA SumChange ==
  ASSUME NEW S, IsFiniteSet(S), NEW f \in [S -> Nat], NEW g \in [S -> Nat],
         NEW x \in S, \A y \in S \ {x} : g[y] = f[y]
  PROVE  SumFunction(g) + f[x] = SumFunction(f) + g[x]
<1> DEFINE h == [y \in S \ {x} |-> f[y]]
<1>1. /\ h \in [S \ {x} -> Nat] /\ \A y \in S \ {x} : f[y] = h[y] /\ g[y] = h[y]
      /\ S = (S \ {x}) \cup {x} /\ x \notin S \ {x}
  OBVIOUS
<1> HIDE DEF h
<1>2. IsFiniteSet(S \ {x})
  BY FS_RemoveElement
<1>3. SumFunction(f) = SumFunction(h) + f[x] /\ SumFunction(g) = SumFunction(h) + g[x]
  BY <1>1, <1>2, SumExtend
<1>4. SumFunction(h) \in Nat /\ f[x] \in Nat /\ g[x] \in Nat
  BY <1>1, <1>2, SumType
<1> QED BY <1>3, <1>4

LEMMA SumBound ==
  ASSUME NEW S, IsFiniteSet(S), NEW f \in [S -> Nat], NEW m \in Nat, \A x \in S : f[x] <= m
  PROVE  SumFunction(f) <= Cardinality(S) * m
<1> DEFINE box == S \X (0..(m - 1))
<1>1. IsFiniteSet(0..(m - 1)) /\ Cardinality(0..(m - 1)) = m
  BY FS_Interval
<1>2. IsFiniteSet(box) /\ Cardinality(box) = Cardinality(S) * m
  BY <1>1, FS_Product
<1>3. Units(f, S) \in SUBSET box
  BY DEF Units
<1> HIDE DEF box
<1>4. Cardinality(Units(f, S)) <= Cardinality(box)
  BY <1>2, <1>3, FS_Subset
<1> QED BY <1>2, <1>4, SumIsCount

(***************************************************************************)
(* The books                                                               *)
(*                                                                         *)
(* What the provider charged, against what is recorded, in hand or lost.   *)
(***************************************************************************)

Size(n) == IF n = NoUsage THEN 0 ELSE n

LEMMA BudgetConstants ==
  /\ Cost \subseteq Nat /\ MaxAttempts \in Nat /\ MaxAttempts > 0 /\ TokenBudget \in Nat /\ TokenBudget > 0
  /\ DayLength \in Nat /\ DayLength > 0 /\ IsFiniteSet(Caller)
  /\ \A n \in Cost \cup {NoUsage} : Size(n) \in Nat
<1>1. /\ Cost \subseteq Nat /\ MaxAttempts \in Nat /\ MaxAttempts > 0 /\ TokenBudget \in Nat /\ TokenBudget > 0
      /\ DayLength \in Nat /\ DayLength > 0
  BY SpendingAssumption
<1>2. IsFiniteSet(Caller)
  BY SpendingAssumption, FS_Union DEF Caller
<1> QED BY <1>1, <1>2 DEF Size, NoUsage

LEMMA TokensAreSizes ==
  ASSUME NEW tries \in Tries
  PROVE  \E f : /\ f \in [1..Len(tries) -> Nat] /\ TokensOf(tries) = SumFunction(f)
               /\ \A n \in 1..Len(tries) : f[n] = Size(tries[n])
<1> DEFINE f == [n \in DOMAIN tries |-> IF tries[n] = NoUsage THEN 0 ELSE tries[n]]
<1>1. TokensOf(tries) = SumFunction(f)
  BY DEF TokensOf
<1>2. DOMAIN tries = 1..Len(tries) /\ \A n \in 1..Len(tries) : tries[n] \in Cost \cup {NoUsage}
  BY DEF Tries
<1>3. f \in [1..Len(tries) -> Nat] /\ \A n \in 1..Len(tries) : f[n] = Size(tries[n])
  BY <1>2, BudgetConstants DEF Size
<1> HIDE DEF f
<1> QED BY <1>1, <1>3

LEMMA TokensType ==
  ASSUME NEW tries \in Tries
  PROVE  TokensOf(tries) \in Nat
<1>1. PICK f : f \in [1..Len(tries) -> Nat] /\ TokensOf(tries) = SumFunction(f)
  BY TokensAreSizes
<1>2. Len(tries) \in Nat
  BY DEF Tries
<1>3. IsFiniteSet(1..Len(tries))
  BY <1>2, FS_Interval
<1> QED BY <1>1, <1>3, SumType

LEMMA TokensOfNone == TokensOf(<<>>) = 0
<1>1. <<>> \in Tries /\ Len(<<>>) = 0
  BY Sequences
<1>2. PICK f : f \in [1..Len(<<>>) -> Nat] /\ TokensOf(<<>>) = SumFunction(f)
  BY <1>1, TokensAreSizes
<1>3. 1..Len(<<>>) = {}
  BY <1>1
<1>4. f \in [{} -> Nat] /\ \A x \in {} : f[x] = 0
  BY <1>2, <1>3
<1> QED BY <1>2, <1>4, FS_EmptySet, SumOfZeros

LEMMA TokensOfOneMore ==
  ASSUME NEW tries \in Tries, NEW n \in Cost \cup {NoUsage}
  PROVE  TokensOf(Append(tries, n)) = TokensOf(tries) + Size(n)
<1> DEFINE longer == Append(tries, n)
           len == Len(tries)
           old == 1..len
           last == len + 1
<1>1. longer \in Tries
  BY Sequences
<1>2. /\ len \in Nat /\ Len(longer) = len + 1 /\ longer[len + 1] = n
      /\ \A i \in 1..len : longer[i] = tries[i]
  BY DEF Tries
<1>3. PICK f : /\ f \in [1..Len(tries) -> Nat] /\ TokensOf(tries) = SumFunction(f)
            /\ \A i \in 1..Len(tries) : f[i] = Size(tries[i])
  BY TokensAreSizes
<1>4. PICK g : /\ g \in [1..Len(longer) -> Nat] /\ TokensOf(longer) = SumFunction(g)
            /\ \A i \in 1..Len(longer) : g[i] = Size(longer[i])
  BY <1>1, TokensAreSizes
<1> HIDE DEF longer, len
<1>5. 1..Len(longer) = old \cup {last} /\ last \notin old
  BY <1>2
<1>6. /\ f \in [old -> Nat] /\ g \in [old \cup {last} -> Nat]
      /\ \A i \in old : g[i] = f[i]
      /\ g[last] = Size(n)
  BY <1>2, <1>3, <1>4, <1>5 DEF len
<1>7. IsFiniteSet(old)
  BY <1>2, FS_Interval
<1> HIDE DEF old, last
<1>8. last \notin old
  BY <1>5
<1>9. SumFunction(g) = SumFunction(f) + g[last]
  BY <1>6, <1>7, <1>8, SumExtend
<1> QED BY <1>3, <1>4, <1>6, <1>9 DEF longer

LEMMA TokensBound ==
  ASSUME NEW tries \in Tries, NEW most \in Nat, \A n \in Cost : n <= most
  PROVE  TokensOf(tries) <= Len(tries) * most
<1>1. PICK f : /\ f \in [1..Len(tries) -> Nat] /\ TokensOf(tries) = SumFunction(f)
            /\ \A i \in 1..Len(tries) : f[i] = Size(tries[i])
  BY TokensAreSizes
<1>2. Len(tries) \in Nat /\ \A i \in 1..Len(tries) : tries[i] \in Cost \cup {NoUsage}
  BY DEF Tries
<1>3. IsFiniteSet(1..Len(tries))
  BY <1>2, FS_Interval
<1>4. Cardinality(1..Len(tries)) = Len(tries)
  <2> DEFINE len == Len(tries)
  <2>1. len \in Nat
    BY <1>2
  <2> HIDE DEF len
  <2>2. Cardinality(1..len) = len
    BY <2>1, FS_Interval
  <2> QED BY <2>2 DEF len
<1>5. \A i \in 1..Len(tries) : f[i] <= most
  BY <1>1, <1>2, BudgetConstants DEF Size
<1> QED BY <1>1, <1>3, <1>4, <1>5, SumBound

(***************************************************************************)
(* The days                                                                *)
(***************************************************************************)

Day(t) == t \div DayLength

LEMMA DayFacts ==
  /\ \A t \in Int : Day(t) \in Int
  /\ \A t \in Nat : Day(t) \in Nat
  /\ \A t, u \in Int : t <= u => Day(t) <= Day(u)
  /\ \A t \in Int : Day(t + 1) = Day(t) \/ Day(t + 1) = Day(t) + 1
BY BudgetConstants DEF Day

\* A table of records with what they cost and when.
IsTable(table) ==
  /\ DOMAIN table = 1..Len(table) /\ Len(table) \in Nat
  /\ \A n \in DOMAIN table : table[n].attempts \in Tries /\ table[n].at \in Int

\* The longer table has the row more.
Grows(table, longer, row) ==
  \E last : /\ last \notin DOMAIN table /\ DOMAIN longer = DOMAIN table \cup {last}
            /\ \A n \in DOMAIN table : longer[n] = table[n]
            /\ longer[last] = row

RowsOf(table, day) == {n \in DOMAIN table : Day(table[n].at) = day}

LEMMA RowsAreFinite ==
  ASSUME NEW table, IsTable(table), NEW day
  PROVE  IsFiniteSet(RowsOf(table, day))
<1>1. IsFiniteSet(DOMAIN table)
  <2>1. Len(table) \in Nat
    BY DEF IsTable
  <2>2. IsFiniteSet(1..Len(table))
    BY <2>1, FS_Interval
  <2> QED BY <2>2 DEF IsTable
<1>2. RowsOf(table, day) \in SUBSET DOMAIN table
  BY DEF RowsOf
<1> QED BY <1>1, <1>2, FS_Subset

LEMMA TokensInIsSum ==
  ASSUME NEW table, IsTable(table), NEW day
  PROVE  \E f : /\ f \in [RowsOf(table, day) -> Nat] /\ TokensIn(table, day) = SumFunction(f)
               /\ \A n \in RowsOf(table, day) : f[n] = TokensOf(table[n].attempts)
<1> DEFINE f == [n \in RowsOf(table, day) |-> TokensOf(table[n].attempts)]
<1>1. TokensIn(table, day) = SumFunction(f)
  BY DEF TokensIn, RowsOf, Day
<1>2. \A n \in RowsOf(table, day) : TokensOf(table[n].attempts) \in Nat
  BY TokensType DEF RowsOf, IsTable
<1>3. f \in [RowsOf(table, day) -> Nat] /\ \A n \in RowsOf(table, day) : f[n] = TokensOf(table[n].attempts)
  BY <1>2
<1> HIDE DEF f
<1> QED BY <1>1, <1>3

LEMMA TokensInType ==
  ASSUME NEW table, IsTable(table), NEW day
  PROVE  TokensIn(table, day) \in Nat
BY RowsAreFinite, TokensInIsSum, SumType

LEMMA TokensInNone ==
  ASSUME NEW table, IsTable(table), NEW day, RowsOf(table, day) = {}
  PROVE  TokensIn(table, day) = 0
<1>1. PICK f : f \in [{} -> Nat] /\ TokensIn(table, day) = SumFunction(f)
  BY TokensInIsSum
<1> QED BY <1>1, FS_EmptySet, SumOfZeros

\* A record more is as many tokens more, on its day.
LEMMA TokensInOneMore ==
  ASSUME NEW table, IsTable(table), NEW row, row.attempts \in Tries, row.at \in Int,
         NEW last, last \notin DOMAIN table,
         NEW longer, IsTable(longer), DOMAIN longer = DOMAIN table \cup {last},
         \A n \in DOMAIN table : longer[n] = table[n], longer[last] = row, NEW day
  PROVE  TokensIn(longer, day) =
           TokensIn(table, day) + (IF Day(row.at) = day THEN TokensOf(row.attempts) ELSE 0)
<1>0. PICK old : old = RowsOf(table, day)
  OBVIOUS
<1>1. PICK f : /\ f \in [old -> Nat] /\ TokensIn(table, day) = SumFunction(f)
            /\ \A n \in old : f[n] = TokensOf(table[n].attempts)
  BY <1>0, TokensInIsSum
<1>2. PICK g : /\ g \in [RowsOf(longer, day) -> Nat] /\ TokensIn(longer, day) = SumFunction(g)
            /\ \A n \in RowsOf(longer, day) : g[n] = TokensOf(longer[n].attempts)
  BY TokensInIsSum
<1>3. IsFiniteSet(old)
  BY <1>0, RowsAreFinite
<1>5. \A n \in old : longer[n] = table[n]
  BY <1>0 DEF RowsOf
<1>6. CASE Day(row.at) = day
  <2>1. RowsOf(longer, day) = old \cup {last} /\ last \notin old
    BY <1>0, <1>6 DEF RowsOf
  <2>2. g \in [old \cup {last} -> Nat] /\ \A n \in old : g[n] = f[n]
    BY <1>1, <1>2, <1>5, <2>1
  <2>3. SumFunction(g) = SumFunction(f) + g[last]
    <3>1. last \notin old /\ f \in [old -> Nat]
      BY <1>1, <2>1
    <3> QED BY <1>3, <2>2, <3>1, SumExtend
  <2>4. g[last] = TokensOf(row.attempts)
    BY <1>2, <2>1
  <2> QED BY <1>1, <1>2, <1>6, <2>3, <2>4
<1>7. CASE Day(row.at) # day
  <2>1. RowsOf(longer, day) = old
    BY <1>0, <1>7 DEF RowsOf
  <2>2. \A n \in old : g[n] = f[n]
    BY <1>1, <1>2, <1>5, <2>1
  <2>3. f = g
    BY <1>1, <1>2, <2>1, <2>2
  <2>4. TokensIn(table, day) \in Nat
    BY TokensInType
  <2> QED BY <1>1, <1>2, <1>7, <2>3, <2>4
<1> QED BY <1>6, <1>7

(***************************************************************************)
(* What keeps the books in step                                            *)
(***************************************************************************)

WorkerFits(w)   == Len(attempts[w]) <= MaxAttempts /\ (pc[w] # "record" => Len(attempts[w]) < MaxAttempts)
QuestionFits(q) == Len(attempts[q]) <= 1 /\ (pc[q] # "record" => attempts[q] = <<>>)

\* Nothing is dated ahead, and what is in hand has not grown too large.
InStep ==
  /\ billed \in Nat /\ lost \in Nat
  /\ \A c \in Caller : stamp[c] <= clock
  /\ \A n \in DOMAIN decisions : decisions[n].at <= clock
  /\ \A n \in DOMAIN followups : followups[n].at <= clock
  /\ \A w \in Worker : WorkerFits(w)
  /\ \A q \in Question : QuestionFits(q)

LEMMA Tables ==
  ASSUME Types
  PROVE  IsTable(decisions) /\ IsTable(followups)
<1>1. \A n \in DOMAIN decisions : decisions[n].attempts \in Tries /\ decisions[n].at \in Int
  <2>1. \A n \in DOMAIN decisions : decisions[n] \in Decision
    BY DEF Types
  <2> QED BY <2>1 DEF Decision
<1>2. \A n \in DOMAIN followups : followups[n].attempts \in Tries /\ followups[n].at \in Int
  <2>1. \A n \in DOMAIN followups : followups[n] \in Followup
    BY DEF Types
  <2> QED BY <2>1 DEF Followup
<1> QED BY <1>1, <1>2 DEF Types, IsTable

\* What the tokens in hand come to.
LEMMA InHandIsSum ==
  ASSUME Types
  PROVE  \E f : /\ f \in [Caller -> Nat] /\ InHand = SumFunction(f)
               /\ \A c \in Caller : f[c] = TokensOf(attempts[c])
<1> DEFINE f == [c \in Caller |-> TokensOf(attempts[c])]
<1>1. InHand = SumFunction(f)
  BY DEF InHand
<1>2. \A c \in Caller : TokensOf(attempts[c]) \in Nat
  BY TokensType DEF Types
<1>3. f \in [Caller -> Nat] /\ \A c \in Caller : f[c] = TokensOf(attempts[c])
  BY <1>2
<1> HIDE DEF f
<1> QED BY <1>1, <1>3

LEMMA RecordedIsSum ==
  ASSUME Types
  PROVE  \E f : /\ f \in [Days -> Nat] /\ Recorded = SumFunction(f)
               /\ \A day \in Days : f[day] = TokensUsed(day)
<1> DEFINE f == [day \in Days |-> TokensUsed(day)]
<1>1. Recorded = SumFunction(f)
  BY DEF Recorded
<1>2. \A day \in Days : TokensUsed(day) \in Nat
  BY Tables, TokensInType DEF TokensUsed
<1>3. f \in [Days -> Nat] /\ \A day \in Days : f[day] = TokensUsed(day)
  BY <1>2
<1> HIDE DEF f
<1> QED BY <1>1, <1>3

LEMMA DaysAreFinite ==
  ASSUME Types
  PROVE  IsFiniteSet(Days) /\ Days = 0..Day(clock) /\ Day(clock) \in Nat
<1>1. Day(clock) \in Nat
  BY DayFacts DEF Types
<1> QED BY <1>1, FS_Interval DEF Days, Day

LEMMA BookTypes ==
  ASSUME Types
  PROVE  /\ InHand \in Nat /\ Recorded \in Nat
         /\ \A c \in Caller : TokensOf(attempts[c]) \in Nat
BY InHandIsSum, RecordedIsSum, DaysAreFinite, SumType, BudgetConstants, TokensType DEF Types

(***************************************************************************)
(* What a step does to the books                                           *)
(***************************************************************************)

\* What a step of one caller does to its part of the books: it is charged, or
\* loses what it had in hand, or puts it on record.
Balances(c, table) ==
  \/ /\ table' = table
     /\ billed' + lost + TokensOf(attempts[c]) = billed + lost' + TokensOf(attempts'[c])
  \/ /\ \E row : /\ Grows(table, table', row)
                 /\ row.attempts = attempts[c] /\ row.at = stamp[c]
     /\ attempts'[c] = <<>> /\ billed' = billed /\ lost' = lost
     /\ pc[c] = "record" /\ pc'[c] \in {"idle", "done"}

\* Where it leaves a caller that it lets through no budget.
Outward(c) ==
  \/ pc'[c] = pc[c] /\ stamp'[c] = stamp[c]
  \/ pc'[c] \notin {"history", "call", "record"}
  \/ {pc[c], pc'[c]} \subseteq {"history", "call"}
  \/ pc[c] = "call" /\ pc'[c] = "record" /\ stamp'[c] = clock

OthersKeep(c) == \A d \in Caller \ {c} : attempts'[d] = attempts[d]

LEMMA TokensCharged ==
  ASSUME Types, InStep, NEW c \in Caller, NEW n \in Cost, Charge(c, n)
  PROVE  /\ attempts'[c] = Append(attempts[c], n) /\ OthersKeep(c) /\ billed' \in Nat
         /\ Len(attempts'[c]) = Len(attempts[c]) + 1
         /\ billed' + lost + TokensOf(attempts[c]) = billed + lost + TokensOf(attempts'[c])
<1>1. attempts'[c] = Append(attempts[c], n) /\ OthersKeep(c) /\ billed' = billed + n
  BY DEF Charge, Types, OthersKeep
<1>2. n \in Nat /\ billed \in Nat /\ lost \in Nat /\ Size(n) = n /\ attempts[c] \in Tries
  BY BudgetConstants DEF InStep, Types, Size, NoUsage
<1>3. TokensOf(attempts'[c]) = TokensOf(attempts[c]) + n /\ TokensOf(attempts[c]) \in Nat
  BY <1>1, <1>2, TokensOfOneMore, TokensType
<1>4. Len(attempts'[c]) = Len(attempts[c]) + 1
  BY <1>1, <1>2 DEF Tries
<1> QED BY <1>1, <1>2, <1>3, <1>4

LEMMA NothingCharged ==
  ASSUME Types, NEW c \in Caller, attempts' = [attempts EXCEPT ![c] = Append(@, NoUsage)]
  PROVE  /\ OthersKeep(c) /\ Len(attempts'[c]) = Len(attempts[c]) + 1
         /\ TokensOf(attempts'[c]) = TokensOf(attempts[c])
<1>1. attempts'[c] = Append(attempts[c], NoUsage) /\ OthersKeep(c) /\ attempts[c] \in Tries
  BY DEF Types, OthersKeep
<1>2. TokensOf(attempts'[c]) = TokensOf(attempts[c]) + Size(NoUsage)
  BY <1>1, TokensOfOneMore
<1>3. Len(attempts'[c]) = Len(attempts[c]) + 1
  BY <1>1 DEF Tries
<1> QED BY <1>1, <1>2, <1>3, TokensType DEF Size

LEMMA HandsEmptied ==
  ASSUME Types, NEW c \in Caller, attempts' = [attempts EXCEPT ![c] = <<>>]
  PROVE  attempts'[c] = <<>> /\ OthersKeep(c) /\ Len(attempts'[c]) = 0 /\ TokensOf(attempts'[c]) = 0
BY TokensOfNone DEF Types, OthersKeep

\* A record is added.
LEMMA AppendGrows ==
  ASSUME NEW S, NEW table \in Seq(S), NEW row
  PROVE  Grows(table, Append(table, row), row)
<1>1. /\ Len(table) + 1 \notin DOMAIN table
      /\ DOMAIN Append(table, row) = DOMAIN table \cup {Len(table) + 1}
      /\ \A n \in DOMAIN table : Append(table, row)[n] = table[n]
      /\ Append(table, row)[Len(table) + 1] = row
  OBVIOUS
<1> QED BY <1>1 DEF Grows

LEMMA WorkerBooks ==
  ASSUME Types, InStep, NEW w \in Worker, WorkerStep(w)
  PROVE  /\ OthersKeep(w) /\ Balances(w, decisions) /\ billed' \in Nat /\ lost' \in Nat
         /\ WorkerFits(w)' /\ stamp'[w] <= clock
         /\ Outward(w) \/ (~BudgetExhausted /\ stamp' = stamp /\ decisions' = decisions /\ pc'[w] = "call")
<1>0. /\ w \in Caller /\ stamp[w] <= clock /\ clock \in Nat /\ attempts[w] \in Tries
      /\ billed \in Nat /\ lost \in Nat /\ MaxAttempts \in Nat /\ MaxAttempts > 0
      /\ Len(attempts[w]) \in Nat /\ WorkerFits(w)
      /\ TokensOf(attempts[w]) \in Nat
  BY TokensType, BudgetConstants DEF Caller, InStep, Types, Tries, WorkerFits
<1>1. CASE \E i \in Incident : Admit(w, i)
  <2>1. PICK i \in Incident : Admit(w, i)
    BY <1>1
  <2>2. /\ pc[w] = "idle" /\ UNCHANGED <<decisions, attempts, stamp, billed, lost>>
        /\ ~BudgetExhausted /\ pc'[w] = "call"
    BY <1>0, <2>1 DEF Admit, logVars, Goto, Types
  <2> QED BY <1>0, <2>2 DEF OthersKeep, Balances, WorkerFits
<1>2. CASE FinalReply(w)
  <2>1. PICK n \in Cost : Charge(w, n)
    BY <1>2 DEF FinalReply
  <2>2. pc[w] = "call" /\ MakeRecord(w) /\ UNCHANGED <<decisions, lost>>
    BY <1>2 DEF FinalReply, logVars
  <2>3. pc'[w] = "record" /\ stamp'[w] = clock
    BY <1>0, <2>2, MakingRecord
  <2> QED BY <1>0, <2>1, <2>2, <2>3, TokensCharged, SMTT(30) DEF Balances, WorkerFits, Outward
<1>3. CASE RejectedReply(w)
  <2>1. PICK n \in Cost : Charge(w, n)
    BY <1>3 DEF RejectedReply
  <2>2. /\ pc[w] = "call" /\ Len(attempts[w]) + 1 < MaxAttempts
        /\ UNCHANGED <<decisions, pc, stamp, lost>>
    BY <1>3 DEF RejectedReply, logVars
  <2> QED BY <1>0, <2>1, <2>2, TokensCharged, SMTT(30) DEF Balances, WorkerFits, Outward
<1>4. ASSUME pc[w] = "call", MakeRecord(w), attempts' = [attempts EXCEPT ![w] = Append(@, NoUsage)],
             UNCHANGED <<decisions, billed, lost>>
      PROVE  /\ OthersKeep(w) /\ Balances(w, decisions)
             /\ WorkerFits(w)' /\ stamp'[w] <= clock /\ Outward(w)
  <2>1. pc'[w] = "record" /\ stamp'[w] = clock
    BY <1>0, <1>4, MakingRecord
  <2>2. /\ OthersKeep(w) /\ Len(attempts'[w]) = Len(attempts[w]) + 1
        /\ TokensOf(attempts'[w]) = TokensOf(attempts[w])
    BY <1>0, <1>4, NothingCharged
  <2>3. Balances(w, decisions)
    BY <1>4, <2>2 DEF Balances
  <2>4. WorkerFits(w)'
    BY <1>0, <1>4, <2>1, <2>2 DEF WorkerFits
  <2> QED BY <1>0, <1>4, <2>1, <2>2, <2>3, <2>4 DEF Outward
<1>5. CASE AnalysisRefused(w)
  BY <1>0, <1>4, <1>5 DEF AnalysisRefused, logVars
<1>6. ASSUME Idle(w)
      PROVE  /\ OthersKeep(w) /\ TokensOf(attempts'[w]) = 0 /\ attempts'[w] = <<>>
             /\ WorkerFits(w)' /\ stamp'[w] <= clock /\ Outward(w) /\ pc'[w] = "idle"
  <2>1. pc'[w] = "idle" /\ stamp'[w] = 0
    BY <1>0, <1>6 DEF Idle, Goto, Types
  <2>2. attempts' = [attempts EXCEPT ![w] = <<>>]
    BY <1>6 DEF Idle
  <2>3. OthersKeep(w) /\ TokensOf(attempts'[w]) = 0 /\ attempts'[w] = <<>> /\ Len(attempts'[w]) = 0
    BY <1>0, <2>2, HandsEmptied
  <2>4. WorkerFits(w)'
    BY <1>0, <2>3 DEF WorkerFits
  <2> QED BY <1>0, <2>1, <2>3, <2>4 DEF Outward
<1>7. CASE AnalysisUnavailable(w)
  <2>1. pc[w] = "call" /\ UNCHANGED <<decisions, billed, lost>>
    BY <1>7 DEF AnalysisUnavailable, logVars
  <2>2. CASE attempts[w] = <<>>
    <3>1. Idle(w)
      BY <1>7, <2>2 DEF AnalysisUnavailable
    <3> QED BY <1>0, <1>6, <2>1, <2>2, <3>1, TokensOfNone DEF Balances
  <2>3. CASE attempts[w] # <<>>
    BY <1>0, <1>4, <1>7, <2>1, <2>3 DEF AnalysisUnavailable
  <2> QED BY <2>2, <2>3
<1>8. CASE RecordDecision(w)
  <2>1. pc[w] = "record" /\ Idle(w) /\ billed' = billed
    BY <1>8 DEF RecordDecision
  <2> DEFINE row == [incident |-> job[w], request |-> TRUE, attempts |-> attempts[w], at |-> stamp[w]]
  <2>2. \/ decisions' = Append(decisions, row) /\ lost' = lost
        \/ decisions' = decisions /\ lost' = lost + TokensOf(attempts[w])
    BY <1>8 DEF RecordDecision
  <2>3. row.attempts = attempts[w] /\ row.at = stamp[w]
    OBVIOUS
  <2> HIDE DEF row
  <2>4. \/ Grows(decisions, decisions', row) /\ lost' = lost
        \/ decisions' = decisions /\ lost' = lost + TokensOf(attempts[w])
    BY <2>2, AppendGrows DEF Types
  <2>5. lost' \in Nat /\ Balances(w, decisions)
    <3>1. CASE Grows(decisions, decisions', row) /\ lost' = lost
      BY <1>0, <1>6, <2>1, <2>3, <3>1 DEF Balances
    <3>2. CASE decisions' = decisions /\ lost' = lost + TokensOf(attempts[w])
      BY <1>0, <1>6, <2>1, <3>2 DEF Balances
    <3> QED BY <2>4, <3>1, <3>2
  <2> QED BY <1>0, <1>6, <2>1, <2>5
<1>9. CASE CrashWorker(w)
  <2>1. Idle(w) /\ UNCHANGED <<decisions, billed>> /\ lost' = lost + TokensOf(attempts[w])
    BY <1>9 DEF CrashWorker, logVars
  <2> QED BY <1>0, <1>6, <2>1 DEF Balances
<1>10. CASE WorkerError(w)
  <2>1. PICK n \in Cost : billed' = billed + n /\ lost' = lost + TokensOf(attempts[w]) + n
    BY <1>10 DEF WorkerError
  <2>2. /\ pc[w] = "call" /\ MakeRecord(w) /\ attempts' = [attempts EXCEPT ![w] = <<>>]
        /\ UNCHANGED decisions
    BY <1>10 DEF WorkerError, logVars
  <2>3. pc'[w] = "record" /\ stamp'[w] = clock
    BY <1>0, <2>2, MakingRecord
  <2>4. OthersKeep(w) /\ TokensOf(attempts'[w]) = 0 /\ Len(attempts'[w]) = 0
    BY <1>0, <2>2, HandsEmptied
  <2>5. n \in Nat
    BY BudgetConstants
  <2>6. Balances(w, decisions) /\ billed' \in Nat /\ lost' \in Nat
    BY <1>0, <2>1, <2>2, <2>4, <2>5, SMTT(30) DEF Balances
  <2>7. WorkerFits(w)'
    BY <1>0, <2>4 DEF WorkerFits
  <2> QED BY <1>0, <2>2, <2>3, <2>4, <2>6, <2>7 DEF Outward
<1> QED BY <1>1, <1>2, <1>3, <1>5, <1>7, <1>8, <1>9, <1>10 DEF WorkerStep

LEMMA QuestionBooks ==
  ASSUME Types, InStep, NEW q \in Question, QuestionStep(q)
  PROVE  /\ OthersKeep(q) /\ Balances(q, followups) /\ billed' \in Nat /\ lost' \in Nat
         /\ QuestionFits(q)' /\ stamp'[q] <= clock
         /\ Outward(q) \/ (~BudgetExhausted /\ stamp' = stamp /\ followups' = followups /\ pc'[q] = "history")
<1>0. /\ q \in Caller /\ stamp[q] <= clock /\ clock \in Nat /\ attempts[q] \in Tries
      /\ billed \in Nat /\ lost \in Nat /\ QuestionFits(q) /\ TokensOf(attempts[q]) \in Nat
  BY TokensType DEF Caller, InStep, Types, QuestionFits
<1>1. ASSUME NEW code, Respond(q, code)
      PROVE  /\ OthersKeep(q) /\ TokensOf(attempts'[q]) = 0 /\ attempts'[q] = <<>>
             /\ QuestionFits(q)' /\ stamp'[q] <= clock /\ Outward(q) /\ pc'[q] = "done"
  <2>1. pc'[q] = "done" /\ stamp'[q] = 0
    BY <1>0, <1>1 DEF Respond, Goto, Types
  <2>2. attempts' = [attempts EXCEPT ![q] = <<>>]
    BY <1>1 DEF Respond
  <2>3. OthersKeep(q) /\ TokensOf(attempts'[q]) = 0 /\ attempts'[q] = <<>> /\ Len(attempts'[q]) = 0
    BY <1>0, <2>2, HandsEmptied
  <2>4. QuestionFits(q)'
    BY <1>0, <2>3 DEF QuestionFits
  <2> QED BY <1>0, <2>1, <2>3, <2>4 DEF Outward
<1>2. ASSUME NEW code, Respond(q, code), pc[q] # "record", UNCHANGED <<followups, billed, lost>>
      PROVE  Balances(q, followups)
  BY <1>0, <1>1, <1>2, TokensOfNone DEF QuestionFits, Balances
<1>3. ASSUME NEW where \in {"limit", "budget", "history", "call"}, Goto(q, where), pc[q] # "record",
             UNCHANGED <<followups, attempts, stamp, billed, lost>>
      PROVE  /\ OthersKeep(q) /\ Balances(q, followups) /\ QuestionFits(q)' /\ stamp'[q] <= clock
             /\ pc'[q] = where
  BY <1>0, <1>3 DEF Goto, Types, OthersKeep, Balances, QuestionFits
<1>4. CASE Ask(q)
  <2>1. pc[q] = "unasked" /\ UNCHANGED <<followups, billed, lost>>
    BY <1>4 DEF Ask, logVars
  <2>2. CASE Analysed(About[q])
    <3>1. Goto(q, "limit") /\ UNCHANGED <<attempts, stamp>>
      BY <1>4, <2>2 DEF Ask
    <3> QED BY <1>0, <1>3, <2>1, <3>1 DEF Outward
  <2>3. CASE ~Analysed(About[q])
    <3>1. Respond(q, IF Decided(About[q]) THEN 409 ELSE 404)
      BY <1>4, <2>3 DEF Ask
    <3> QED BY <1>0, <1>1, <1>2, <2>1, <3>1
  <2> QED BY <2>2, <2>3
<1>5. ASSUME NEW code, Respond(q, code), pc[q] \in {"limit", "budget"},
             UNCHANGED <<followups, billed, lost>>
      PROVE  /\ OthersKeep(q) /\ Balances(q, followups) /\ billed' \in Nat /\ lost' \in Nat
             /\ QuestionFits(q)' /\ stamp'[q] <= clock /\ Outward(q)
  BY <1>0, <1>1, <1>2, <1>5
<1>6. CASE CheckLimit(q)
  <2>1. pc[q] = "limit" /\ UNCHANGED <<followups, billed, lost>>
    BY <1>6 DEF CheckLimit, Check, logVars
  <2>2. CASE WithinQuestionLimit
    <3>1. Goto(q, "budget") /\ UNCHANGED <<attempts, stamp>>
      BY <1>6, <2>2 DEF CheckLimit, Check
    <3> QED BY <1>0, <1>3, <2>1, <3>1 DEF Outward
  <2>3. CASE ~WithinQuestionLimit
    <3>1. Respond(q, 429)
      BY <1>6, <2>3 DEF CheckLimit, Check
    <3> QED BY <1>5, <2>1, <3>1
  <2> QED BY <2>2, <2>3
<1>7. CASE CheckBudget(q)
  <2>1. pc[q] = "budget" /\ UNCHANGED <<followups, billed, lost>>
    BY <1>7 DEF CheckBudget, Check, logVars
  <2>2. CASE ~BudgetExhausted
    <3>1. Goto(q, "history") /\ UNCHANGED <<attempts, stamp>>
      BY <1>7, <2>2 DEF CheckBudget, Check
    <3> QED BY <1>0, <1>3, <2>1, <2>2, <3>1
  <2>3. CASE BudgetExhausted
    <3>1. Respond(q, 429)
      BY <1>7, <2>3 DEF CheckBudget, Check
    <3> QED BY <1>5, <2>1, <3>1
  <2> QED BY <2>2, <2>3
<1>8. CASE ReadHistory(q)
  <2>1. /\ pc[q] = "history" /\ Goto(q, "call")
        /\ UNCHANGED <<followups, attempts, stamp, billed, lost>>
    BY <1>8 DEF ReadHistory, logVars
  <2> QED BY <1>0, <1>3, <2>1 DEF Outward
<1>9. ASSUME NEW result, EndCall(q, result)
      PROVE  /\ pc[q] = "call" /\ UNCHANGED <<followups, lost>>
             /\ pc'[q] = "record" /\ stamp'[q] = clock /\ Outward(q) /\ attempts[q] = <<>>
  <2>1. pc[q] = "call" /\ MakeRecord(q) /\ UNCHANGED <<followups, lost>>
    BY <1>9 DEF EndCall, logVars
  <2> QED BY <1>0, <2>1, MakingRecord DEF Outward, QuestionFits
<1>10. CASE Reply(q)
  <2>1. PICK n \in Cost : Charge(q, n)
    BY <1>10 DEF Reply
  <2>2. PICK result : EndCall(q, result)
    BY <1>10 DEF Reply
  <2>3. /\ OthersKeep(q) /\ billed' \in Nat /\ Len(attempts'[q]) = Len(attempts[q]) + 1
        /\ billed' + lost + TokensOf(attempts[q]) = billed + lost + TokensOf(attempts'[q])
    BY <1>0, <2>1, TokensCharged
  <2> QED BY <1>0, <1>9, <2>2, <2>3, SMTT(30) DEF Balances, QuestionFits
<1>11. CASE QuestionRefused(q)
  <2>1. EndCall(q, "error") /\ attempts' = [attempts EXCEPT ![q] = <<NoUsage>>] /\ billed' = billed
    BY <1>11 DEF QuestionRefused
  <2>2. attempts'[q] = Append(attempts[q], NoUsage) /\ OthersKeep(q) /\ Len(attempts'[q]) = 1
    BY <1>0, <1>9, <2>1 DEF Types, OthersKeep
  <2>3. TokensOf(attempts'[q]) = TokensOf(attempts[q]) + Size(NoUsage)
    BY <1>0, <2>2, TokensOfOneMore
  <2> QED BY <1>0, <1>9, <2>1, <2>2, <2>3 DEF Balances, QuestionFits, Size
<1>12. CASE QuestionUnavailable(q)
  <2>1. EndCall(q, "unavailable") /\ UNCHANGED <<attempts, billed>>
    BY <1>12 DEF QuestionUnavailable
  <2> QED BY <1>0, <1>9, <2>1 DEF Balances, QuestionFits, OthersKeep
<1>13. CASE RecordFollowup(q)
  <2>1. pc[q] = "record" /\ billed' = billed /\ \E code : Respond(q, code)
    BY <1>13 DEF RecordFollowup
  <2> DEFINE row == [question |-> q, answered |-> outcome[q] = "answer",
                     attempts |-> attempts[q], at |-> stamp[q]]
  <2>2. \/ followups' = Append(followups, row) /\ lost' = lost
        \/ followups' = followups /\ lost' = lost + TokensOf(attempts[q])
    BY <1>13 DEF RecordFollowup
  <2>3. row.attempts = attempts[q] /\ row.at = stamp[q]
    OBVIOUS
  <2> HIDE DEF row
  <2>4. \/ Grows(followups, followups', row) /\ lost' = lost
        \/ followups' = followups /\ lost' = lost + TokensOf(attempts[q])
    BY <2>2, AppendGrows DEF Types
  <2>5. lost' \in Nat /\ Balances(q, followups)
    <3>1. CASE Grows(followups, followups', row) /\ lost' = lost
      BY <1>0, <1>1, <2>1, <2>3, <3>1 DEF Balances
    <3>2. CASE followups' = followups /\ lost' = lost + TokensOf(attempts[q])
      BY <1>0, <1>1, <2>1, <3>2 DEF Balances
    <3> QED BY <2>4, <3>1, <3>2
  <2> QED BY <1>0, <1>1, <2>1, <2>5
<1> QED BY <1>4, <1>6, <1>7, <1>8, <1>10, <1>11, <1>12, <1>13 DEF QuestionStep

(***************************************************************************)
(* The books before and after a step                                       *)
(***************************************************************************)

Held     == \E f : /\ f \in [Caller -> Nat] /\ InHand = SumFunction(f)
                   /\ \A c \in Caller : f[c] = TokensOf(attempts[c])
Kept     == \E f : /\ f \in [Days -> Nat] /\ Recorded = SumFunction(f)
                   /\ \A day \in Days : f[day] = TokensUsed(day)
BooksAre == /\ Held /\ Kept
            /\ IsFiniteSet(Days) /\ Days = 0..Day(clock) /\ Day(clock) \in Nat
            /\ IsTable(decisions) /\ IsTable(followups)
            /\ InHand \in Nat /\ Recorded \in Nat
            /\ \A c \in Caller : TokensOf(attempts[c]) \in Nat

LEMMA Books == Types => BooksAre
BY InHandIsSum, RecordedIsSum, DaysAreFinite, Tables, BookTypes DEF BooksAre, Held, Kept

LEMMA BooksNext == Types' => BooksAre'
BY Books, PTL

\* What one caller has in hand changes.
LEMMA HandChanges ==
  ASSUME Types, Types', NEW c \in Caller, OthersKeep(c)
  PROVE  InHand' + TokensOf(attempts[c]) = InHand + TokensOf(attempts'[c])
<1>1. PICK f : /\ f \in [Caller -> Nat] /\ InHand = SumFunction(f)
            /\ \A d \in Caller : f[d] = TokensOf(attempts[d])
  BY Books DEF BooksAre, Held
<1>2. PICK g : /\ g \in [Caller -> Nat] /\ InHand' = SumFunction(g)
            /\ \A d \in Caller : g[d] = TokensOf(attempts'[d])
  BY BooksNext DEF BooksAre, Held, TokensOf
<1>3. \A d \in Caller \ {c} : g[d] = f[d]
  BY <1>1, <1>2 DEF OthersKeep
<1>4. SumFunction(g) + f[c] = SumFunction(f) + g[c]
  BY <1>1, <1>2, <1>3, BudgetConstants, SumChange
<1> QED BY <1>1, <1>2, <1>4

TokensFor(row, day) == IF Day(row.at) = day THEN TokensOf(row.attempts) ELSE 0

LEMMA TableGrows ==
  ASSUME NEW table, IsTable(table), NEW row, NEW longer, IsTable(longer), Grows(table, longer, row),
         row.attempts \in Tries, row.at \in Int, NEW day
  PROVE  TokensIn(longer, day) = TokensIn(table, day) + TokensFor(row, day)
BY TokensInOneMore DEF Grows, TokensFor

\* On the day of the record, and on no other, more is used.
LEMMA RecordUses ==
  ASSUME Types, Types', NEW row, row.attempts \in Tries, row.at \in Int,
         \/ Grows(decisions, decisions', row) /\ followups' = followups
         \/ Grows(followups, followups', row) /\ decisions' = decisions
  PROVE  \A day : TokensUsed(day)' = TokensUsed(day) + TokensFor(row, day)
<1>1. /\ IsTable(decisions) /\ IsTable(followups) /\ IsTable(decisions') /\ IsTable(followups')
  BY Books, BooksNext DEF BooksAre, IsTable
<1>2. ASSUME NEW day
      PROVE  TokensIn(decisions', day) + TokensIn(followups', day) =
               TokensIn(decisions, day) + TokensIn(followups, day) + TokensFor(row, day)
  <2>1. /\ TokensIn(decisions, day) \in Nat /\ TokensIn(followups, day) \in Nat
        /\ TokensFor(row, day) \in Nat
    BY <1>1, TokensInType, TokensType DEF TokensFor
  <2>2. CASE Grows(decisions, decisions', row) /\ followups' = followups
    <3>1. TokensIn(decisions', day) = TokensIn(decisions, day) + TokensFor(row, day)
      BY <1>1, <2>2, TableGrows
    <3> QED BY <2>1, <2>2, <3>1
  <2>3. CASE Grows(followups, followups', row) /\ decisions' = decisions
    <3>1. TokensIn(followups', day) = TokensIn(followups, day) + TokensFor(row, day)
      BY <1>1, <2>3, TableGrows
    <3> QED BY <2>1, <2>3, <3>1
  <2> QED BY <2>2, <2>3
<1> QED BY <1>2 DEF TokensUsed, TokensIn

LEMMA DayGrows ==
  ASSUME Types, Types', clock' = clock, NEW today, today \in Days, NEW tokens, tokens \in Nat,
         TokensUsed(today)' = TokensUsed(today) + tokens,
         \A day \in Days \ {today} : TokensUsed(day)' = TokensUsed(day)
  PROVE  Recorded' = Recorded + tokens
<1>1. PICK f : /\ f \in [Days -> Nat] /\ Recorded = SumFunction(f)
            /\ \A day \in Days : f[day] = TokensUsed(day)
  BY Books DEF BooksAre, Kept
<1>2. PICK g : /\ g \in [Days' -> Nat] /\ Recorded' = SumFunction(g)
            /\ \A day \in Days' : g[day] = TokensUsed(day)'
  BY BooksNext DEF BooksAre, Kept
<1>3. Days' = Days /\ IsFiniteSet(Days)
  BY Books DEF Days, BooksAre
<1>4. \A day \in Days \ {today} : g[day] = f[day]
  BY <1>1, <1>2, <1>3
<1>5. g[today] = f[today] + tokens /\ f[today] \in Nat
  BY <1>1, <1>2, <1>3
<1>6. /\ f \in [Days -> Nat] /\ g \in [Days -> Nat]
      /\ SumFunction(g) \in Nat /\ SumFunction(f) \in Nat
  BY <1>1, <1>2, <1>3, SumType
<1>7. SumFunction(g) + f[today] = SumFunction(f) + g[today]
  BY <1>3, <1>4, <1>6, SumChange
<1> QED BY <1>1, <1>2, <1>5, <1>6, <1>7

LEMMA RecordKept ==
  ASSUME Types, Types', clock' = clock, NEW row, row.attempts \in Tries, row.at \in Nat, row.at <= clock,
         \A day : TokensUsed(day)' = TokensUsed(day) + TokensFor(row, day)
  PROVE  Recorded' = Recorded + TokensOf(row.attempts)
<1>1. Days = 0..Day(clock) /\ clock \in Nat /\ IsTable(decisions) /\ IsTable(followups)
  BY Books DEF BooksAre, Types
<1>2. Day(row.at) \in Days
  BY <1>1, DayFacts
<1>3. TokensOf(row.attempts) \in Nat /\ \A day : TokensUsed(day) \in Nat
  BY <1>1, TokensType, TokensInType DEF TokensUsed
<1>4. TokensUsed(Day(row.at))' = TokensUsed(Day(row.at)) + TokensOf(row.attempts)
  BY DEF TokensFor
<1>5. \A day \in Days \ {Day(row.at)} : TokensUsed(day)' = TokensUsed(day)
  BY <1>3 DEF TokensFor
<1> QED BY <1>2, <1>3, <1>4, <1>5, DayGrows

LEMMA NothingKept ==
  ASSUME clock' = clock, decisions' = decisions, followups' = followups
  PROVE  Recorded' = Recorded /\ \A day : TokensUsed(day)' = TokensUsed(day)
<1>1. \A day : TokensUsed(day)' = TokensUsed(day)
  BY DEF TokensUsed, TokensIn
<1> QED BY <1>1 DEF Recorded, Days, TokensUsed, TokensIn

\* Nothing is recorded for a day that has not begun.
LEMMA NothingAhead ==
  ASSUME Types, InStep, NEW day \in Int, Day(clock) < day
  PROVE  TokensUsed(day) = 0
<1>1. IsTable(decisions) /\ IsTable(followups) /\ clock \in Nat /\ Day(clock) \in Nat
  BY Books DEF BooksAre, Types
<1>2. ASSUME NEW at \in Int, at <= clock PROVE Day(at) # day
  <2>1. Day(at) <= Day(clock) /\ Day(at) \in Int
    BY <1>1, <1>2, DayFacts
  <2> QED BY <1>1, <2>1
<1>3. RowsOf(decisions, day) = {} /\ RowsOf(followups, day) = {}
  BY <1>1, <1>2 DEF RowsOf, IsTable, InStep
<1> QED BY <1>1, <1>2, <1>3, TokensInNone DEF TokensUsed

LEMMA DayBegins ==
  ASSUME Types, Types', InStep', clock' = clock + 1, UNCHANGED <<decisions, followups>>, InStep
  PROVE  Recorded' = Recorded
<1>1. PICK f : /\ f \in [Days -> Nat] /\ Recorded = SumFunction(f)
            /\ \A day \in Days : f[day] = TokensUsed(day)
  BY Books DEF BooksAre, Kept
<1>2. PICK g : /\ g \in [Days' -> Nat] /\ Recorded' = SumFunction(g)
            /\ \A day \in Days' : g[day] = TokensUsed(day)'
  BY BooksNext DEF BooksAre, Kept
<1>3. \A day : TokensUsed(day)' = TokensUsed(day)
  BY DEF TokensUsed, TokensIn
<1>4. /\ Days = 0..Day(clock) /\ Days' = 0..Day(clock') /\ IsFiniteSet(Days')
      /\ clock \in Nat /\ Day(clock) \in Nat
  BY Books, BooksNext DEF BooksAre, Types, Day
<1>5. Days \in SUBSET Days' /\ \A day \in Days' \ Days : day \in Int /\ Day(clock) < day
  <2>1. Day(clock) <= Day(clock') /\ Day(clock') \in Int
    BY <1>4, DayFacts
  <2> QED BY <1>4, <2>1
<1>6. \A day \in Days' \ Days : g[day] = 0
  BY <1>2, <1>3, <1>5, NothingAhead
<1>7. \A day \in Days : f[day] = g[day]
  BY <1>1, <1>2, <1>3, <1>5
<1>8. SumFunction(g) = SumFunction(f)
  <2>1. f \in [Days -> Nat] /\ g \in [Days' -> Nat] /\ IsFiniteSet(Days') /\ Days \in SUBSET Days'
    BY <1>1, <1>2, <1>4, <1>5
  <2> QED BY <1>6, <1>7, <2>1, SumRest
<1> QED BY <1>1, <1>2, <1>8

(***************************************************************************)
(* Every token is counted                                                  *)
(***************************************************************************)

LEMMA InitInStep == Init => InStep
<1> SUFFICES ASSUME Init PROVE InStep
  OBVIOUS
<1>1. \A n \in DOMAIN decisions : decisions[n].at <= clock
  <2> DEFINE Row == [incident : Incident, request : BOOLEAN, attempts : Seq(Cost),
                     at : {t \in Int : t < 0}]
  <2>1. decisions \in Seq(Row)
    BY SpendingAssumption DEF Init
  <2>2. \A r \in Row : r.at < 0 /\ r.at \in Int
    OBVIOUS
  <2> HIDE DEF Row
  <2>3. \A n \in DOMAIN decisions : decisions[n].at < 0 /\ decisions[n].at \in Int
    BY <2>1, <2>2
  <2> QED BY <2>3 DEF Init
<1>2. \A c \in Caller : Len(attempts[c]) = 0 /\ attempts[c] = <<>>
  BY DEF Init
<1>3. \A n \in DOMAIN followups : followups[n].at <= clock
  BY DEF Init
<1>4. \A w \in Worker : WorkerFits(w)
  BY <1>2, BudgetConstants DEF WorkerFits, Caller
<1>5. \A q \in Question : QuestionFits(q)
  BY <1>2 DEF QuestionFits, Caller
<1> QED BY <1>1, <1>3, <1>4, <1>5 DEF Init, InStep

LEMMA StillDated ==
  ASSUME Types, InStep, clock' = clock, NEW c \in Caller,
         NEW table, NEW longer, \A n \in DOMAIN table : table[n].at <= clock,
         \/ longer = table
         \/ \E row : Grows(table, longer, row) /\ row.at = stamp[c]
  PROVE  \A n \in DOMAIN longer : longer[n].at <= clock'
BY DEF InStep, Grows

LEMMA CallerInStep ==
  ASSUME Types, InStep, clock' = clock, NEW c \in Caller, Apart(c), OthersKeep(c),
         billed' \in Nat, lost' \in Nat, stamp'[c] <= clock,
         c \in Worker => WorkerFits(c)', c \in Question => QuestionFits(c)',
         Balances(c, decisions) \/ decisions' = decisions,
         Balances(c, followups) \/ followups' = followups
  PROVE  InStep'
<1>1. \A n \in DOMAIN decisions' : decisions'[n].at <= clock'
  <2>1. \/ decisions' = decisions
        \/ \E row : Grows(decisions, decisions', row) /\ row.at = stamp[c]
    BY DEF Balances
  <2>2. \A n \in DOMAIN decisions : decisions[n].at <= clock
    BY DEF InStep
  <2> QED BY <2>1, <2>2, StillDated
<1>2. \A n \in DOMAIN followups' : followups'[n].at <= clock'
  <2>1. \/ followups' = followups
        \/ \E row : Grows(followups, followups', row) /\ row.at = stamp[c]
    BY DEF Balances
  <2>2. \A n \in DOMAIN followups : followups[n].at <= clock
    BY DEF InStep
  <2> QED BY <2>1, <2>2, StillDated
<1>3. \A d \in Caller : stamp'[d] <= clock'
  BY DEF InStep, Apart
<1>4. \A w \in Worker : WorkerFits(w)'
  BY DEF InStep, WorkerFits, Apart, OthersKeep, Caller
<1>5. \A q \in Question : QuestionFits(q)'
  BY DEF InStep, QuestionFits, Apart, OthersKeep, Caller
<1> QED BY <1>1, <1>2, <1>3, <1>4, <1>5 DEF InStep

LEMMA TickInStep ==
  ASSUME Types, InStep, clock' \in Nat, clock <= clock', UNCHANGED <<decisions, followups, pc, attempts, stamp, billed, lost>>
  PROVE  InStep'
<1>1. clock \in Nat /\ IsTable(decisions) /\ IsTable(followups)
  BY Books DEF BooksAre, Types
<1>2. /\ \A c \in Caller : stamp'[c] <= clock'
      /\ \A n \in DOMAIN decisions' : decisions'[n].at <= clock'
      /\ \A n \in DOMAIN followups' : followups'[n].at <= clock'
  BY <1>1 DEF InStep, IsTable, Types
<1>3. (\A w \in Worker : WorkerFits(w)') /\ (\A q \in Question : QuestionFits(q)')
  BY DEF InStep, WorkerFits, QuestionFits
<1> QED BY <1>2, <1>3 DEF InStep

\* The tokens that went with the API are those that were in its threads' hands.
LEMMA CrashBooks ==
  ASSUME Types, Types', InStep, CrashApi
  PROVE  /\ InStep' /\ billed' = billed /\ UNCHANGED <<decisions, followups>>
         /\ InHand + lost = InHand' + lost'
         /\ \A c \in Caller : (pc'[c] = pc[c] /\ stamp'[c] = stamp[c]) \/ pc'[c] = "done"
<1>1. PICK cut : cut = {q \in Question : InThread(q)}
  OBVIOUS
<1>2. /\ UNCHANGED <<clock, decisions, followups, billed>>
      /\ pc' = [c \in Caller |-> IF c \in cut THEN "done" ELSE pc[c]]
      /\ attempts' = [c \in Caller |-> IF c \in cut THEN <<>> ELSE attempts[c]]
      /\ stamp' = [c \in Caller |-> IF c \in cut THEN 0 ELSE stamp[c]]
      /\ lost' = lost + SumFunction([q \in cut |-> TokensOf(attempts[q])])
  BY <1>1 DEF CrashApi, logVars
<1>3. PICK h : h = [q \in cut |-> TokensOf(attempts[q])]
  OBVIOUS
<1>4. PICK f : /\ f \in [Caller -> Nat] /\ InHand = SumFunction(f)
            /\ \A c \in Caller : f[c] = TokensOf(attempts[c])
  BY Books DEF BooksAre, Held
<1>5. PICK g : /\ g \in [Caller -> Nat] /\ InHand' = SumFunction(g)
            /\ \A c \in Caller : g[c] = TokensOf(attempts'[c])
  BY BooksNext DEF BooksAre, Held, TokensOf
<1>6. PICK k : k = [c \in Caller \ cut |-> f[c]]
  OBVIOUS
<1>7. cut \in SUBSET Caller /\ IsFiniteSet(Caller) /\ IsFiniteSet(cut) /\ IsFiniteSet(Caller \ cut)
  BY <1>1, BudgetConstants, FS_Subset DEF Caller
<1>8. /\ h \in [cut -> Nat] /\ \A c \in cut : h[c] = f[c]
      /\ k \in [Caller \ cut -> Nat] /\ \A c \in Caller \ cut : k[c] = f[c]
  BY <1>3, <1>4, <1>6, <1>7
<1>9. /\ \A c \in Caller \ cut : k[c] = g[c]
      /\ \A c \in Caller \ (Caller \ cut) : g[c] = 0
      /\ Caller \ cut \in SUBSET Caller
  BY <1>2, <1>4, <1>5, <1>7, <1>8, TokensOfNone
<1>10. SumFunction(f) = SumFunction(h) + SumFunction(k)
  BY <1>4, <1>7, <1>8, SumSplit
<1>11. SumFunction(g) = SumFunction(k)
  BY <1>5, <1>7, <1>8, <1>9, SumRest
<1>12. SumFunction(h) \in Nat /\ SumFunction(k) \in Nat /\ lost \in Nat /\ lost' = lost + SumFunction(h)
  BY <1>2, <1>3, <1>7, <1>8, SumType DEF InStep
<1>13. InHand + lost = InHand' + lost' /\ lost' \in Nat
  BY <1>4, <1>5, <1>10, <1>11, <1>12
<1>14. \A c \in Caller : (pc'[c] = pc[c] /\ stamp'[c] = stamp[c]) \/ pc'[c] = "done"
  BY <1>2
<1>15. InStep'
  <2>1. \A w \in Worker : w \notin cut /\ w \in Caller
    BY <1>1, CallersApart DEF Caller, Constants
  <2>2. \A w \in Worker : WorkerFits(w)'
    BY <1>2, <2>1 DEF InStep, WorkerFits
  <2>3. \A q \in Question : QuestionFits(q)'
    <3> TAKE q \in Question
    <3>1. q \in Caller /\ QuestionFits(q) /\ Len(<<>>) = 0
      BY DEF InStep, Caller
    <3>2. CASE q \in cut
      BY <1>2, <3>1, <3>2 DEF QuestionFits
    <3>3. CASE q \notin cut
      BY <1>2, <3>1, <3>3 DEF QuestionFits
    <3> QED BY <3>2, <3>3
  <2>4. \A c \in Caller : stamp'[c] <= clock'
    BY <1>2 DEF InStep, Types
  <2> QED BY <1>2, <1>13, <2>2, <2>3, <2>4 DEF InStep
<1> QED BY <1>2, <1>13, <1>14, <1>15

LEMMA Recording ==
  ASSUME NEW recorded \in Nat, NEW moved \in Nat, NEW heldLater \in Nat, NEW gone \in Nat,
         NEW held, held = heldLater + moved
  PROVE  recorded + held + gone = (recorded + moved) + heldLater + gone
OBVIOUS

\* The whole step of one caller.
LEMMA CallerBooks ==
  ASSUME Types, Types', InStep, clock' = clock, NEW c \in Caller, OthersKeep(c),
         billed' \in Nat, lost' \in Nat,
         \/ Balances(c, decisions) /\ followups' = followups
         \/ Balances(c, followups) /\ decisions' = decisions,
         EveryTokenCounted
  PROVE  EveryTokenCounted'
<1>1. /\ InHand \in Nat /\ InHand' \in Nat /\ Recorded \in Nat /\ Recorded' \in Nat
      /\ TokensOf(attempts[c]) \in Nat /\ TokensOf(attempts'[c]) \in Nat
      /\ billed \in Nat /\ lost \in Nat
  BY Books, BooksNext DEF BooksAre, InStep, TokensOf
<1>2. InHand' + TokensOf(attempts[c]) = InHand + TokensOf(attempts'[c])
  BY HandChanges
<1>3. CASE UNCHANGED <<decisions, followups>>
           /\ billed' + lost + TokensOf(attempts[c]) = billed + lost' + TokensOf(attempts'[c])
  <2>1. Recorded' = Recorded
    BY <1>3, NothingKept
  <2> QED BY <1>1, <1>2, <1>3, <2>1 DEF EveryTokenCounted
<1>4. ASSUME NEW row,
             \/ Grows(decisions, decisions', row) /\ followups' = followups
             \/ Grows(followups, followups', row) /\ decisions' = decisions,
             row.attempts = attempts[c], row.at = stamp[c],
             attempts'[c] = <<>>, billed' = billed, lost' = lost
      PROVE  EveryTokenCounted'
  <2>1. row.attempts \in Tries /\ row.at \in Nat /\ row.at \in Int /\ row.at <= clock
    BY <1>4 DEF Types, InStep
  <2>2. \A day : TokensUsed(day)' = TokensUsed(day) + TokensFor(row, day)
    BY <1>4, <2>1, RecordUses
  <2>3. Recorded' = Recorded + TokensOf(attempts[c])
    BY <1>4, <2>1, <2>2, RecordKept
  <2>4. TokensOf(attempts'[c]) = 0
    BY <1>4, TokensOfNone
  <2>5. billed = Recorded + InHand + lost
    BY DEF EveryTokenCounted
  <2>6. InHand = InHand' + TokensOf(attempts[c])
    BY <1>1, <1>2, <2>4
  <2>7. Recorded + InHand + lost = (Recorded + TokensOf(attempts[c])) + InHand' + lost
    BY <1>1, <2>6, Recording
  <2> QED BY <1>4, <2>3, <2>5, <2>7 DEF EveryTokenCounted
<1>5. CASE Balances(c, decisions) /\ followups' = followups
  BY <1>3, <1>4, <1>5 DEF Balances
<1>6. CASE Balances(c, followups) /\ decisions' = decisions
  BY <1>3, <1>4, <1>6 DEF Balances
<1> QED BY <1>5, <1>6

LEMMA InStepNext == Types /\ InStep /\ [Next]_vars => InStep'
<1> SUFFICES ASSUME Types, InStep, [Next]_vars PROVE InStep'
  OBVIOUS
<1>1. Types' /\ clock \in Nat /\ \A w \in Worker, q \in Question : w \notin Question /\ q \notin Worker
  BY StepTypes, Constants DEF Types
<1>2. ASSUME NEW w \in Worker, WorkerStep(w)
      PROVE  InStep'
  <2>1. w \in Caller /\ w \notin Question
    BY <1>1 DEF Caller
  <2>2. clock' = clock /\ followups' = followups /\ Apart(w)
    BY <1>2, WorkerSteps
  <2>3. /\ OthersKeep(w) /\ Balances(w, decisions) /\ billed' \in Nat /\ lost' \in Nat
        /\ WorkerFits(w)' /\ stamp'[w] <= clock
    BY <1>2, WorkerBooks
  <2> QED BY <2>1, <2>2, <2>3, CallerInStep
<1>3. ASSUME NEW q \in Question, QuestionStep(q)
      PROVE  InStep'
  <2>1. q \in Caller /\ q \notin Worker
    BY <1>1 DEF Caller
  <2>2. clock' = clock /\ decisions' = decisions /\ Apart(q)
    BY <1>3, QuestionSteps
  <2>3. /\ OthersKeep(q) /\ Balances(q, followups) /\ billed' \in Nat /\ lost' \in Nat
        /\ QuestionFits(q)' /\ stamp'[q] <= clock
    BY <1>3, QuestionBooks
  <2> QED BY <2>1, <2>2, <2>3, CallerInStep
<1>4. CASE CrashApi
  BY <1>1, <1>4, CrashBooks
<1>5. CASE Tick
  BY <1>1, <1>5, TickInStep DEF Tick, logVars
<1>6. CASE UNCHANGED vars
  BY <1>1, <1>6, TickInStep DEF vars, logVars
<1> QED BY <1>2, <1>3, <1>4, <1>5, <1>6 DEF Next

\* What the log held at the start is of days before.
LEMMA NothingUsed ==
  ASSUME Init, NEW day \in Nat
  PROVE  TokensUsed(day) = 0
<1>1. IsTable(decisions) /\ IsTable(followups)
  BY InitTypes, Books DEF BooksAre
<1>2. \A n \in DOMAIN decisions : decisions[n].at < 0 /\ decisions[n].at \in Int
  <2> DEFINE Row == [incident : Incident, request : BOOLEAN, attempts : Seq(Cost),
                     at : {t \in Int : t < 0}]
  <2>1. decisions \in Seq(Row)
    BY SpendingAssumption DEF Init
  <2>2. \A r \in Row : r.at < 0 /\ r.at \in Int
    OBVIOUS
  <2> HIDE DEF Row
  <2> QED BY <2>1, <2>2
<1>3. \A t \in Int : t < 0 => Day(t) < 0
  BY BudgetConstants DEF Day
<1>4. RowsOf(decisions, day) = {}
  BY <1>2, <1>3 DEF RowsOf
<1>5. RowsOf(followups, day) = {}
  BY DEF RowsOf, Init
<1> QED BY <1>1, <1>4, <1>5, TokensInNone DEF TokensUsed

LEMMA InitCounted == Init => EveryTokenCounted
<1> SUFFICES ASSUME Init PROVE EveryTokenCounted
  OBVIOUS
<1>1. Types /\ clock = 0 /\ billed = 0 /\ lost = 0 /\ \A c \in Caller : attempts[c] = <<>>
  BY InitTypes DEF Init
<1>2. PICK f : /\ f \in [Caller -> Nat] /\ InHand = SumFunction(f)
            /\ \A c \in Caller : f[c] = TokensOf(attempts[c])
  BY <1>1, Books DEF BooksAre, Held
<1>3. InHand = 0
  BY <1>1, <1>2, TokensOfNone, BudgetConstants, SumOfZeros
<1>4. PICK g : /\ g \in [Days -> Nat] /\ Recorded = SumFunction(g)
            /\ \A day \in Days : g[day] = TokensUsed(day)
  BY <1>1, Books DEF BooksAre, Kept
<1>5. \A day \in Days : TokensUsed(day) = 0
  BY <1>1, Books, NothingUsed DEF BooksAre
<1>6. Recorded = 0
  BY <1>1, <1>4, <1>5, Books, SumOfZeros DEF BooksAre
<1> QED BY <1>1, <1>3, <1>6 DEF EveryTokenCounted

LEMMA CountedNext == Types /\ InStep /\ EveryTokenCounted /\ [Next]_vars => EveryTokenCounted'
<1> SUFFICES ASSUME Types, InStep, EveryTokenCounted, [Next]_vars PROVE EveryTokenCounted'
  OBVIOUS
<1>1. Types' /\ InStep'
  BY StepTypes, InStepNext
<1>2. ASSUME NEW w \in Worker, WorkerStep(w)
      PROVE  EveryTokenCounted'
  <2>1. w \in Caller /\ clock' = clock /\ followups' = followups
    BY <1>2, WorkerSteps DEF Caller
  <2>2. OthersKeep(w) /\ Balances(w, decisions) /\ billed' \in Nat /\ lost' \in Nat
    BY <1>2, WorkerBooks
  <2> QED BY <1>1, <2>1, <2>2, CallerBooks
<1>3. ASSUME NEW q \in Question, QuestionStep(q)
      PROVE  EveryTokenCounted'
  <2>1. q \in Caller /\ clock' = clock /\ decisions' = decisions
    BY <1>3, QuestionSteps DEF Caller
  <2>2. OthersKeep(q) /\ Balances(q, followups) /\ billed' \in Nat /\ lost' \in Nat
    BY <1>3, QuestionBooks
  <2> QED BY <1>1, <2>1, <2>2, CallerBooks
<1>4. CASE CrashApi
  <2>1. /\ billed' = billed /\ UNCHANGED <<decisions, followups>> /\ clock' = clock
        /\ InHand + lost = InHand' + lost'
    BY <1>1, <1>4, CrashBooks, CrashSteps
  <2>2. Recorded' = Recorded
    BY <2>1, NothingKept
  <2>3. /\ InHand \in Nat /\ InHand' \in Nat /\ Recorded \in Nat /\ lost \in Nat /\ lost' \in Nat
    BY <1>1, Books, BooksNext DEF BooksAre, InStep
  <2>4. billed = Recorded + InHand + lost
    BY DEF EveryTokenCounted
  <2>5. Recorded + InHand + lost = Recorded + InHand' + lost'
    <3> DEFINE held == InHand
               heldLater == InHand'
               recorded == Recorded
               gone == lost
               goneLater == lost'
    <3>1. held \in Nat /\ heldLater \in Nat /\ recorded \in Nat /\ gone \in Nat /\ goneLater \in Nat
      BY <2>3
    <3>2. held + gone = heldLater + goneLater
      BY <2>1
    <3> HIDE DEF held, heldLater, recorded, gone, goneLater
    <3>3. recorded + held + gone = recorded + heldLater + goneLater
      BY <3>1, <3>2
    <3> QED BY <3>3 DEF held, heldLater, recorded, gone, goneLater
  <2> QED BY <2>1, <2>2, <2>4, <2>5 DEF EveryTokenCounted
<1>5. CASE Tick
  <2>1. clock' = clock + 1 /\ UNCHANGED <<decisions, followups, attempts, billed, lost>>
    BY <1>5 DEF Tick, logVars
  <2>2. Recorded' = Recorded
    BY <1>1, <2>1, DayBegins
  <2> QED BY <2>1, <2>2 DEF EveryTokenCounted, InHand, TokensOf
<1>6. CASE UNCHANGED vars
  <2>1. UNCHANGED <<clock, decisions, followups, attempts, billed, lost>>
    BY <1>6 DEF vars, logVars
  <2>2. Recorded' = Recorded
    BY <2>1, NothingKept
  <2> QED BY <2>1, <2>2 DEF EveryTokenCounted, InHand, TokensOf
<1> QED BY <1>2, <1>3, <1>4, <1>5, <1>6 DEF Next

\* Every token the provider has charged is in the log, in a record about to be made, or
\* went with a crash, a failed write, or a reply that broke the parser (worker.py:278):
\* nothing else that breaks off a call leaves out what budget.py counts.
THEOREM TokensCounted == Spec => []EveryTokenCounted
<1>1. Init => Types /\ InStep /\ EveryTokenCounted
  BY InitTypes, InitInStep, InitCounted
<1>2. Types /\ InStep /\ EveryTokenCounted /\ [Next]_vars => (Types /\ InStep /\ EveryTokenCounted)'
  BY StepTypes, InStepNext, CountedNext
<1> QED BY <1>1, <1>2, PTL DEF Spec

\* What keeps a charge from the log.
LosesTokens == {"reply", "log", "crash"}

LEMMA NothingLost ==
  ASSUME Faults \cap LosesTokens = {}, [Next]_vars PROVE lost' = lost
<1>1. ~Fault("reply") /\ ~Fault("log") /\ ~Fault("crash")
  BY DEF Fault, LosesTokens
<1>2. CASE Tick \/ CrashApi \/ UNCHANGED vars
  BY <1>1, <1>2 DEF Tick, CrashApi, vars
<1>3. ASSUME NEW w \in Worker, WorkerStep(w) PROVE lost' = lost
  BY <1>1, <1>3 DEF WorkerStep, Admit, FinalReply, RejectedReply, AnalysisRefused,
    AnalysisUnavailable, WorkerError, RecordDecision, CrashWorker
<1>4. ASSUME NEW q \in Question, QuestionStep(q) PROVE lost' = lost
  BY <1>1, <1>4 DEF QuestionStep, Ask, CheckLimit, CheckBudget, Check, ReadHistory, Reply,
    QuestionRefused, QuestionUnavailable, EndCall, RecordFollowup
<1> QED BY <1>2, <1>3, <1>4 DEF Next

\* ai-copilot/README.md:300, "every model call's token usage is recorded", holds through
\* outages, refused requests and rejected replies; of a reply that breaks the parser the
\* run unrecorded shows that it does not.
THEOREM CallsRecorded ==
  ASSUME Faults \cap LosesTokens = {} PROVE Spec => []EveryCallRecorded
<1>1. Init => lost = 0
  BY DEF Init
<1>2. lost = 0 /\ [Next]_vars => (lost = 0)'
  BY NothingLost
<1>3. Init => Types
  BY InitTypes
<1>4. Types /\ [Next]_vars => Types'
  BY StepTypes
<1>5. Types /\ EveryTokenCounted /\ lost = 0 => EveryCallRecorded
  <2> SUFFICES ASSUME Types, EveryTokenCounted, lost = 0 PROVE EveryCallRecorded
    OBVIOUS
  <2>1. InHand \in Nat /\ Recorded \in Nat
    BY BookTypes
  <2> QED BY <2>1 DEF EveryTokenCounted, EveryCallRecorded
<1> QED BY <1>1, <1>2, <1>3, <1>4, <1>5, TokensCounted, PTL DEF Spec

(***************************************************************************)
(* The budget                                                              *)
(***************************************************************************)

\* Who may yet have tokens recorded for a day: a call under way while the day
\* is not over, and one that was over on that day and is not recorded.
MaySpend(c, day) ==
  \/ pc[c] \in {"history", "call"} /\ Day(clock) <= day
  \/ pc[c] = "record" /\ Day(stamp[c]) = day

AnalysesDue(day)  == {w \in Worker : MaySpend(w, day)}
QuestionsDue(day) == {q \in Question : MaySpend(q, day)}

\* The replies they may have to record, and the most there can be.
RepliesDue(day) == Cardinality(AnalysesDue(day)) * MaxAttempts + Cardinality(QuestionsDue(day))
AllReplies      == Cardinality(Worker) * MaxAttempts + Threads

AtMost(most) == most \in Nat /\ \A n \in Cost : n <= most

DayKept(day, most) ==
  TokensUsed(day) + RepliesDue(day) * most <= TokenBudget - 1 + AllReplies * most

BudgetKept == \A day \in Nat, most \in Nat : AtMost(most) => DayKept(day, most)

\* Fewer replies cost less.
LEMMA FewerCost ==
  ASSUME NEW few \in Nat, NEW many \in Nat, NEW share \in Nat, few + share <= many, NEW most \in Nat
  PROVE  few * most + share * most <= many * most /\ few * most \in Nat /\ many * most \in Nat
         /\ share * most \in Nat
<1>1. few * most \in Nat /\ many * most \in Nat /\ share * most \in Nat
  OBVIOUS
<1>2. many - few - share \in Nat
  OBVIOUS
<1>3. (many - few - share) * most >= 0
  BY <1>2
<1>4. (many - few - share) * most = many * most - few * most - share * most
  OBVIOUS
<1> QED BY <1>1, <1>3, <1>4

DuesAre ==
  /\ IsFiniteSet(Worker) /\ IsFiniteSet(Question) /\ AllReplies \in Nat
  /\ \A day : /\ Cardinality(AnalysesDue(day)) \in Nat /\ Cardinality(QuestionsDue(day)) \in Nat
              /\ RepliesDue(day) \in Nat /\ RepliesDue(day) <= AllReplies

LEMMA Dues == Cardinality(Asking) <= Threads => DuesAre
<1> SUFFICES ASSUME Cardinality(Asking) <= Threads PROVE DuesAre
  OBVIOUS
<1>1. /\ IsFiniteSet(Worker) /\ IsFiniteSet(Question) /\ Threads \in Nat /\ MaxAttempts \in Nat
      /\ Cardinality(Worker) \in Nat
  BY Constants, BudgetConstants, FS_CardinalityType
<1>2. ASSUME NEW day
      PROVE  /\ Cardinality(AnalysesDue(day)) \in Nat /\ Cardinality(QuestionsDue(day)) \in Nat
             /\ Cardinality(AnalysesDue(day)) <= Cardinality(Worker)
             /\ Cardinality(QuestionsDue(day)) <= Threads
  <2>1. AnalysesDue(day) \in SUBSET Worker /\ QuestionsDue(day) \in SUBSET Asking
    BY DEF AnalysesDue, QuestionsDue, Asking, InThread, MaySpend
  <2> QED BY <1>1, <2>1, AskingBounds, FS_Subset, FS_CardinalityType
<1>3. ASSUME NEW few \in Nat, NEW many \in Nat, few <= many, NEW asked \in Nat, asked <= Threads
      PROVE  /\ few * MaxAttempts + asked \in Nat
             /\ few * MaxAttempts + asked <= many * MaxAttempts + Threads
  BY <1>1, <1>3, FewerCost
<1>4. AllReplies \in Nat
  BY <1>1 DEF AllReplies
<1>5. \A day : RepliesDue(day) \in Nat /\ RepliesDue(day) <= AllReplies
  BY <1>1, <1>2, <1>3 DEF RepliesDue, AllReplies
<1> QED BY <1>1, <1>2, <1>4, <1>5 DEF DuesAre

LEMMA DuesNext == (Cardinality(Asking) <= Threads)' => DuesAre'
BY Dues, PTL

LEMMA OutwardSpends ==
  ASSUME Types, Types', NEW c \in Caller, Outward(c), clock <= clock', NEW day \in Nat, MaySpend(c, day)'
  PROVE  MaySpend(c, day)
<1>1. /\ clock \in Int /\ clock' \in Int /\ Day(clock) \in Int /\ Day(clock') \in Int
      /\ Day(clock) <= Day(clock')
  <2>1. clock \in Int /\ clock' \in Int
    BY DEF Types
  <2> QED BY <2>1, DayFacts
<1> QED BY <1>1 DEF Outward, MaySpend, Day

\* Who spends no more than was due.
LEMMA DueFalls ==
  ASSUME DuesAre, DuesAre', NEW day,
         AnalysesDue(day)' \in SUBSET AnalysesDue(day), QuestionsDue(day)' \in SUBSET QuestionsDue(day)
  PROVE  /\ RepliesDue(day)' <= RepliesDue(day)
         /\ \A w \in AnalysesDue(day) :
              w \notin AnalysesDue(day)' => RepliesDue(day)' + MaxAttempts <= RepliesDue(day)
         /\ \A q \in QuestionsDue(day) :
              q \notin QuestionsDue(day)' => RepliesDue(day)' + 1 <= RepliesDue(day)
<1> DEFINE analyses  == Cardinality(AnalysesDue(day))
           questions == Cardinality(QuestionsDue(day))
           analysesLater  == Cardinality(AnalysesDue(day)')
           questionsLater == Cardinality(QuestionsDue(day)')
<1>1. /\ analyses \in Nat /\ questions \in Nat /\ analysesLater \in Nat /\ questionsLater \in Nat
      /\ RepliesDue(day) = analyses * MaxAttempts + questions
      /\ RepliesDue(day)' = analysesLater * MaxAttempts + questionsLater
      /\ MaxAttempts \in Nat
  BY BudgetConstants DEF DuesAre, RepliesDue
<1>2. /\ analysesLater <= analyses
      /\ \A w \in AnalysesDue(day) : w \notin AnalysesDue(day)' => analysesLater + 1 <= analyses
  <2>1. AnalysesDue(day) \in SUBSET Worker /\ IsFiniteSet(Worker)
    BY DEF AnalysesDue, DuesAre
  <2> QED BY <2>1, FewerToCome
<1>3. /\ questionsLater <= questions
      /\ \A q \in QuestionsDue(day) : q \notin QuestionsDue(day)' => questionsLater + 1 <= questions
  <2>1. QuestionsDue(day) \in SUBSET Question /\ IsFiniteSet(Question)
    BY DEF QuestionsDue, DuesAre
  <2> QED BY <2>1, FewerToCome
<1> HIDE DEF analyses, questions, analysesLater, questionsLater
<1>4. analysesLater * MaxAttempts <= analyses * MaxAttempts
      /\ analysesLater * MaxAttempts \in Nat /\ analyses * MaxAttempts \in Nat
  <2>1. analysesLater + 0 <= analyses
    BY <1>1, <1>2
  <2> QED BY <1>1, <2>1, FewerCost
<1>5. analysesLater + 1 <= analyses => analysesLater * MaxAttempts + MaxAttempts <= analyses * MaxAttempts
  BY <1>1, FewerCost
<1> QED BY <1>1, <1>2, <1>3, <1>4, <1>5

LEMMA UsedTypes ==
  ASSUME Types, NEW day
  PROVE  TokensUsed(day) \in Nat
<1>1. TokensIn(decisions, day) \in Nat /\ TokensIn(followups, day) \in Nat
  BY Books, TokensInType DEF BooksAre
<1> QED BY <1>1 DEF TokensUsed

LEMMA Fits ==
  ASSUME NEW used \in Nat, NEW due \in Nat, NEW later \in Nat, NEW share \in Nat, later + share <= due,
         NEW most \in Nat, NEW tokens \in Nat, tokens <= share * most,
         NEW bound \in Int, used + due * most <= bound
  PROVE  (used + tokens) + later * most <= bound
<1>1. /\ later * most + share * most <= due * most
      /\ later * most \in Nat /\ due * most \in Nat /\ share * most \in Nat
  BY FewerCost
<1> QED BY <1>1

\* What is recorded was due.
LEMMA StillKept ==
  ASSUME NEW day, NEW most \in Nat, DayKept(day, most), DuesAre, DuesAre', TokensUsed(day) \in Nat,
         NEW share \in Nat, RepliesDue(day)' + share <= RepliesDue(day),
         NEW tokens \in Nat, tokens <= share * most, TokensUsed(day)' = TokensUsed(day) + tokens
  PROVE  DayKept(day, most)'
<1> DEFINE bound == TokenBudget - 1 + AllReplies * most
           due   == RepliesDue(day)
           later == RepliesDue(day)'
           used  == TokensUsed(day)
<1>1. bound \in Int /\ due \in Nat /\ later \in Nat /\ used \in Nat
  <2>1. AllReplies \in Nat /\ TokenBudget \in Nat
    BY BudgetConstants DEF DuesAre
  <2>2. AllReplies * most \in Nat
    BY <2>1
  <2> QED BY <2>1, <2>2 DEF DuesAre
<1>2. later + share <= due /\ used + due * most <= bound
  BY DEF DayKept
<1> HIDE DEF bound, due, later, used
<1>3. (used + tokens) + later * most <= bound
  BY <1>1, <1>2, Fits
<1> QED BY <1>3 DEF DayKept, bound, later, used, AllReplies

\* A step that lets nothing through.
LEMMA NothingAdmitted ==
  ASSUME Types, Types', DuesAre, DuesAre', BudgetKept, clock <= clock',
         \A day : TokensUsed(day)' = TokensUsed(day), \A c \in Caller : Outward(c)
  PROVE  BudgetKept'
<1> SUFFICES ASSUME NEW day \in Nat, NEW most \in Nat, AtMost(most)
             PROVE  DayKept(day, most)'
  BY DEF BudgetKept, AtMost
<1>1. AnalysesDue(day)' \in SUBSET AnalysesDue(day) /\ QuestionsDue(day)' \in SUBSET QuestionsDue(day)
  BY OutwardSpends DEF AnalysesDue, QuestionsDue, Caller
<1>2. RepliesDue(day)' <= RepliesDue(day) /\ RepliesDue(day) \in Nat /\ RepliesDue(day)' \in Nat
  BY <1>1, DueFalls DEF DuesAre
<1>3. TokensUsed(day) \in Nat /\ DayKept(day, most)
  BY UsedTypes DEF BudgetKept
<1>4. RepliesDue(day)' + 0 <= RepliesDue(day) /\ TokensUsed(day)' = TokensUsed(day) + 0 /\ 0 <= 0 * most
  BY <1>2, <1>3
<1> QED BY <1>3, <1>4, StillKept

\* A step that lets one caller through: within the budget, all there may be to
\* come is on top of it.
LEMMA CallerAdmitted ==
  ASSUME Types, Types', InStep, DuesAre, DuesAre', BudgetKept, clock' = clock,
         UNCHANGED <<decisions, followups, stamp>>, NEW c \in Caller, Apart(c),
         pc'[c] \in {"history", "call"}, ~BudgetExhausted
  PROVE  BudgetKept'
<1> SUFFICES ASSUME NEW day \in Nat, NEW most \in Nat, AtMost(most)
             PROVE  DayKept(day, most)'
  BY DEF BudgetKept, AtMost
<1>0. /\ clock \in Nat /\ Day(clock) \in Nat /\ \A d : TokensUsed(d) \in Nat
      /\ TokensUsed(day)' = TokensUsed(day) /\ TokenBudget \in Nat /\ TokenBudget > 0
  BY UsedTypes, Books, NothingKept, BudgetConstants DEF BooksAre, Types
<1>1. CASE Day(clock) <= day
  <2>1. TokensUsed(day) <= TokenBudget - 1
    <3>1. CASE Day(clock) = day
      BY <1>0, <3>1 DEF BudgetExhausted, Day
    <3>2. CASE Day(clock) < day
      <4>1. TokensUsed(day) = 0
        BY <1>0, <3>2, NothingAhead
      <4> QED BY <1>0, <4>1
    <3> QED BY <1>0, <1>1, <3>1, <3>2
  <2> DEFINE later == RepliesDue(day)'
             used  == TokensUsed(day)
             all   == AllReplies
  <2>2. later \in Nat /\ later <= all /\ all \in Nat /\ used \in Nat /\ used <= TokenBudget - 1
    BY <1>0, <2>1 DEF DuesAre, AllReplies
  <2> HIDE DEF later, used, all
  <2>3. later * most <= all * most /\ later * most \in Nat /\ all * most \in Nat
    <3>1. later + 0 <= all
      BY <2>2
    <3> QED BY <2>2, <3>1, FewerCost
  <2>4. used + later * most <= TokenBudget - 1 + all * most
    BY <1>0, <2>2, <2>3
  <2> QED BY <1>0, <2>4 DEF DayKept, later, used, all, AllReplies
<1>2. CASE day < Day(clock)
  <2>1. ~MaySpend(c, day)' /\ \A d \in Caller \ {c} : MaySpend(d, day)' => MaySpend(d, day)
    BY <1>0, <1>2 DEF MaySpend, Apart, Day
  <2>2. AnalysesDue(day)' \in SUBSET AnalysesDue(day) /\ QuestionsDue(day)' \in SUBSET QuestionsDue(day)
    BY <2>1 DEF AnalysesDue, QuestionsDue, Caller
  <2>3. RepliesDue(day)' <= RepliesDue(day) /\ RepliesDue(day) \in Nat /\ RepliesDue(day)' \in Nat
    BY <2>2, DueFalls DEF DuesAre
  <2>4. DayKept(day, most)
    BY DEF BudgetKept
  <2>5. RepliesDue(day)' + 0 <= RepliesDue(day) /\ TokensUsed(day)' = TokensUsed(day) + 0 /\ 0 <= 0 * most
    BY <1>0, <2>3
  <2> QED BY <1>0, <2>4, <2>5, StillKept
<1> QED BY <1>0, <1>1, <1>2

\* A step that puts a call on record.
LEMMA CallRecorded ==
  ASSUME Types, Types', InStep, DuesAre, DuesAre', BudgetKept, clock' = clock,
         NEW c \in Caller, Apart(c), pc[c] = "record", pc'[c] \in {"idle", "done"},
         NEW row, row.attempts = attempts[c], row.at = stamp[c],
         \A day : TokensUsed(day)' = TokensUsed(day) + TokensFor(row, day)
  PROVE  BudgetKept'
<1> SUFFICES ASSUME NEW day \in Nat, NEW most \in Nat, AtMost(most)
             PROVE  DayKept(day, most)'
  BY DEF BudgetKept, AtMost
<1>0. /\ TokensUsed(day) \in Nat /\ DayKept(day, most) /\ attempts[c] \in Tries
      /\ MaxAttempts \in Nat /\ TokensOf(attempts[c]) \in Nat
  BY UsedTypes, BudgetConstants, TokensType DEF BudgetKept, Types
<1>1. ~MaySpend(c, day)' /\ \A d \in Caller \ {c} : MaySpend(d, day)' => MaySpend(d, day)
  BY DEF MaySpend, Apart, Day
<1>2. AnalysesDue(day)' \in SUBSET AnalysesDue(day) /\ QuestionsDue(day)' \in SUBSET QuestionsDue(day)
  BY <1>1 DEF AnalysesDue, QuestionsDue, Caller
<1>3. CASE Day(stamp[c]) # day
  <2>1. TokensUsed(day)' = TokensUsed(day) + 0
    BY <1>3 DEF TokensFor
  <2>2. RepliesDue(day)' <= RepliesDue(day) /\ RepliesDue(day) \in Nat /\ RepliesDue(day)' \in Nat
    BY <1>2, DueFalls DEF DuesAre
  <2>3. RepliesDue(day)' + 0 <= RepliesDue(day) /\ 0 <= 0 * most
    BY <2>2
  <2> QED BY <1>0, <2>1, <2>3, StillKept
<1>4. CASE Day(stamp[c]) = day
  <2>1. TokensUsed(day)' = TokensUsed(day) + TokensOf(attempts[c])
    BY <1>4 DEF TokensFor
  <2>2. TokensOf(attempts[c]) <= Len(attempts[c]) * most /\ Len(attempts[c]) \in Nat
    <3>1. \A n \in Cost : n <= most
      BY DEF AtMost
    <3>2. TokensOf(attempts[c]) <= Len(attempts[c]) * most
      BY <1>0, <3>1, TokensBound
    <3> QED BY <1>0, <3>2 DEF Tries
  <2>3. MaySpend(c, day)
    BY <1>4 DEF MaySpend
  <2>4. ASSUME NEW share \in Nat, Len(attempts[c]) <= share
        PROVE  TokensOf(attempts[c]) <= share * most
    <3>1. Len(attempts[c]) + 0 <= share
      BY <2>2, <2>4
    <3>2. Len(attempts[c]) * most <= share * most /\ share * most \in Nat /\ Len(attempts[c]) * most \in Nat
      BY <2>2, <3>1, FewerCost
    <3> QED BY <1>0, <2>2, <3>2
  <2>5. CASE c \in Worker
    <3>1. RepliesDue(day)' + MaxAttempts <= RepliesDue(day)
      BY <1>1, <1>2, <2>3, <2>5, DueFalls DEF AnalysesDue
    <3>2. TokensOf(attempts[c]) <= MaxAttempts * most
      BY <1>0, <2>4, <2>5 DEF InStep, WorkerFits
    <3> QED BY <1>0, <2>1, <3>1, <3>2, StillKept
  <2>6. CASE c \in Question
    <3>1. RepliesDue(day)' + 1 <= RepliesDue(day)
      BY <1>1, <1>2, <2>3, <2>6, DueFalls DEF QuestionsDue
    <3>2. TokensOf(attempts[c]) <= 1 * most
      BY <2>4, <2>6 DEF InStep, QuestionFits
    <3> QED BY <1>0, <2>1, <3>1, <3>2, StillKept
  <2> QED BY <2>5, <2>6 DEF Caller
<1> QED BY <1>3, <1>4

LEMMA CallerKeeps ==
  ASSUME Types, Types', InStep, DuesAre, DuesAre', BudgetKept, clock' = clock, NEW c \in Caller, Apart(c),
         NEW where \in {"history", "call"},
         \/ /\ Balances(c, decisions) /\ followups' = followups
            /\ Outward(c) \/ (~BudgetExhausted /\ stamp' = stamp /\ decisions' = decisions /\ pc'[c] = where)
         \/ /\ Balances(c, followups) /\ decisions' = decisions
            /\ Outward(c) \/ (~BudgetExhausted /\ stamp' = stamp /\ followups' = followups /\ pc'[c] = where)
  PROVE  BudgetKept'
<1>1. ASSUME UNCHANGED <<decisions, followups>>, Outward(c)
      PROVE  BudgetKept'
  <2>1. \A d \in Caller : Outward(d)
    BY <1>1 DEF Outward, Apart
  <2>2. \A day : TokensUsed(day)' = TokensUsed(day)
    BY <1>1, NothingKept
  <2>3. clock <= clock'
    BY DEF Types
  <2> QED BY <2>1, <2>2, <2>3, NothingAdmitted
<1>2. ASSUME ~BudgetExhausted, UNCHANGED <<decisions, followups, stamp>>, pc'[c] = where
      PROVE  BudgetKept'
  BY <1>2, CallerAdmitted
<1>3. ASSUME NEW row,
             \/ Grows(decisions, decisions', row) /\ followups' = followups
             \/ Grows(followups, followups', row) /\ decisions' = decisions,
             row.attempts = attempts[c], row.at = stamp[c],
             pc[c] = "record", pc'[c] \in {"idle", "done"}
      PROVE  BudgetKept'
  <2>1. row.attempts \in Tries /\ row.at \in Int
    BY <1>3 DEF Types
  <2>2. \A day : TokensUsed(day)' = TokensUsed(day) + TokensFor(row, day)
    BY <1>3, <2>1, RecordUses
  <2> QED BY <1>3, <2>2, CallRecorded
<1>4. CASE /\ Balances(c, decisions) /\ followups' = followups
           /\ Outward(c) \/ (~BudgetExhausted /\ stamp' = stamp /\ decisions' = decisions /\ pc'[c] = where)
  BY <1>1, <1>2, <1>3, <1>4 DEF Balances, Outward
<1>5. CASE /\ Balances(c, followups) /\ decisions' = decisions
           /\ Outward(c) \/ (~BudgetExhausted /\ stamp' = stamp /\ followups' = followups /\ pc'[c] = where)
  BY <1>1, <1>2, <1>3, <1>5 DEF Balances, Outward
<1> QED BY <1>4, <1>5

LEMMA BudgetNext == Types /\ InStep /\ QuestionsCounted /\ BudgetKept /\ [Next]_vars => BudgetKept'
<1> SUFFICES ASSUME Types, InStep, QuestionsCounted, BudgetKept, [Next]_vars PROVE BudgetKept'
  OBVIOUS
<1>1. Types' /\ DuesAre /\ DuesAre'
  <2>1. Types' /\ QuestionsCounted'
    BY StepTypes, QuestionsStep
  <2>2. Cardinality(Asking) <= Threads /\ (Cardinality(Asking) <= Threads)'
    BY <2>1 DEF QuestionsCounted
  <2> QED BY <2>1, <2>2, Dues, DuesNext
<1>2. ASSUME NEW w \in Worker, WorkerStep(w)
      PROVE  BudgetKept'
  <2>1. w \in Caller /\ clock' = clock /\ followups' = followups /\ Apart(w)
    BY <1>2, WorkerSteps DEF Caller
  <2>2. /\ Balances(w, decisions)
        /\ Outward(w) \/ (~BudgetExhausted /\ stamp' = stamp /\ decisions' = decisions /\ pc'[w] = "call")
    BY <1>2, WorkerBooks
  <2> QED BY <1>1, <2>1, <2>2, CallerKeeps
<1>3. ASSUME NEW q \in Question, QuestionStep(q)
      PROVE  BudgetKept'
  <2>1. q \in Caller /\ clock' = clock /\ decisions' = decisions /\ Apart(q)
    BY <1>3, QuestionSteps DEF Caller
  <2>2. /\ Balances(q, followups)
        /\ Outward(q) \/ (~BudgetExhausted /\ stamp' = stamp /\ followups' = followups /\ pc'[q] = "history")
    BY <1>3, QuestionBooks
  <2> QED BY <1>1, <2>1, <2>2, CallerKeeps
<1>4. ASSUME clock <= clock', UNCHANGED <<decisions, followups>>,
             \A c \in Caller : (pc'[c] = pc[c] /\ stamp'[c] = stamp[c]) \/ pc'[c] = "done"
      PROVE  BudgetKept'
  <2>1. \A day : TokensUsed(day)' = TokensUsed(day)
    BY <1>4 DEF TokensUsed, TokensIn
  <2>2. \A c \in Caller : Outward(c)
    BY <1>4 DEF Outward
  <2> QED BY <1>1, <1>4, <2>1, <2>2, NothingAdmitted
<1>5. CASE CrashApi
  <2>1. clock' = clock /\ clock \in Nat
    BY <1>5, CrashSteps DEF Types
  <2> QED BY <1>1, <1>4, <1>5, <2>1, CrashBooks
<1>6. CASE Tick
  <2>1. clock' = clock + 1 /\ clock \in Nat /\ UNCHANGED <<decisions, followups, pc, stamp>>
    BY <1>6, TickSteps DEF Types
  <2> QED BY <1>4, <2>1
<1>7. CASE UNCHANGED vars
  <2>1. clock' = clock /\ clock \in Nat /\ UNCHANGED <<decisions, followups, pc, stamp>>
    BY <1>7 DEF vars, logVars, Types
  <2> QED BY <1>4, <2>1
<1> QED BY <1>2, <1>3, <1>5, <1>6, <1>7 DEF Next

LEMMA InitBudget == Init => BudgetKept
<1> SUFFICES ASSUME Init, NEW day \in Nat, NEW most \in Nat
             PROVE  DayKept(day, most)
  BY DEF BudgetKept
<1>1. TokensUsed(day) = 0
  BY NothingUsed
<1>2. AnalysesDue(day) = {} /\ QuestionsDue(day) = {}
  BY Constants DEF Init, AnalysesDue, QuestionsDue, MaySpend, Caller
<1>3. RepliesDue(day) = 0
  BY <1>2, FS_EmptySet, BudgetConstants DEF RepliesDue
<1>4. AllReplies \in Nat /\ TokenBudget \in Nat /\ TokenBudget > 0
  <2>1. Cardinality(Asking) <= Threads
    BY InitQuestions DEF QuestionsCounted
  <2> QED BY <2>1, Dues, BudgetConstants DEF DuesAre
<1>5. AllReplies * most \in Nat
  BY <1>4
<1> QED BY <1>1, <1>3, <1>4, <1>5 DEF DayKept

\* The daily budget is exceeded by less than the calls under way can cost: an
\* analysis of every worker, MaxAttempts replies each, and a question of every
\* thread of the API (budget.py, exhausted; worker.py, poll_once; api.py, ask).
THEOREM OvershootBounded == Spec => []BudgetOvershoot
<1>1. Types /\ QuestionsCounted /\ BudgetKept => BudgetOvershoot
  <2> SUFFICES ASSUME Types, QuestionsCounted, BudgetKept, NEW day \in Days, NEW most \in Cost, \A n \in Cost : n <= most
               PROVE  TokensUsed(day) < TokenBudget + (Cardinality(Worker) * MaxAttempts + Threads) * most
    BY DEF BudgetOvershoot
  <2>1. day \in Nat /\ most \in Nat /\ AtMost(most)
    BY Books, BudgetConstants DEF BooksAre, AtMost
  <2>2. DuesAre
    BY Dues DEF QuestionsCounted
  <2>3. /\ RepliesDue(day) \in Nat /\ AllReplies \in Nat /\ TokensUsed(day) \in Nat /\ TokenBudget \in Nat
        /\ TokensUsed(day) + RepliesDue(day) * most <= TokenBudget - 1 + AllReplies * most
    BY <2>1, <2>2, UsedTypes, BudgetConstants DEF DuesAre, BudgetKept, DayKept
  <2>4. RepliesDue(day) * most \in Nat /\ AllReplies * most \in Nat
    BY <2>1, <2>3
  <2>5. TokensUsed(day) < TokenBudget + AllReplies * most
    BY <2>3, <2>4
  <2> QED BY <2>5 DEF AllReplies
<1>2. Init => Types /\ InStep /\ QuestionsCounted /\ BudgetKept
  BY InitTypes, InitInStep, InitQuestions, InitBudget
<1>3. Types /\ InStep /\ QuestionsCounted /\ BudgetKept /\ [Next]_vars
        => (Types /\ InStep /\ QuestionsCounted /\ BudgetKept)'
  BY StepTypes, InStepNext, QuestionsStep, BudgetNext
<1> QED BY <1>1, <1>2, <1>3, PTL DEF Spec

(***************************************************************************)
(* Sets of numbers in order                                                *)
(***************************************************************************)

Increasing(s) == \A m, n \in DOMAIN s : m < n => s[m] < s[n]

Ordered(S) == \E s \in [1..Cardinality(S) -> S] : Increasing(s)

\* A set of numbers has a greatest.
LEMMA Greatest ==
  ASSUME NEW S \in SUBSET Int, IsFiniteSet(S), S # {}
  PROVE  \E m \in S : \A n \in S : n <= m
<1> DEFINE above(n) == {m \in S : n < m}
           aboves == {above(n) : n \in S}
<1>1. IsWellFoundedOn(StrictSubsetOrdering(S), SUBSET S)
  BY FS_StrictSubsetOrderingWellFounded, FS_FiniteSubsetsOfFinite
<1>2. aboves \subseteq SUBSET S /\ aboves # {}
  OBVIOUS
<1>3. PICK A \in aboves : \A B \in aboves : <<B, A>> \notin StrictSubsetOrdering(S)
  <2> HIDE DEF aboves
  <2> QED BY <1>1, <1>2, WFMin
<1>4. PICK m \in S : A = above(m)
  OBVIOUS
<1>5. ASSUME NEW n \in S, m < n PROVE FALSE
  <2>1. m \in Int /\ n \in Int /\ \A k \in S : k \in Int
    OBVIOUS
  <2>2. \A k \in S : n < k => m < k
    BY <1>5, <2>1
  <2>3. n \in above(m) /\ n \notin above(n)
    BY <1>5, <2>1
  <2>4. <<above(n), A>> \in StrictSubsetOrdering(S)
    BY <1>4, <2>2, <2>3 DEF StrictSubsetOrdering
  <2> QED BY <1>3, <2>4
<1> QED BY <1>5

LEMMA OrderedOneMore ==
  ASSUME NEW S \in SUBSET Int, IsFiniteSet(S), NEW m \in S, \A n \in S : n <= m, Ordered(S \ {m})
  PROVE  Ordered(S)
<1> DEFINE c == Cardinality(S)
<1>1. /\ Cardinality(S \ {m}) = c - 1 /\ c \in Nat /\ c - 1 \in Nat
  <2>1. Cardinality(S \ {m}) = c - 1
    BY FS_RemoveElement
  <2>2. c \in Nat
    BY FS_CardinalityType
  <2>3. c # 0
    BY FS_EmptySet
  <2> HIDE DEF c
  <2> QED BY <2>1, <2>2, <2>3
<1>2. PICK s \in [1..(c - 1) -> S \ {m}] : Increasing(s)
  BY <1>1 DEF Ordered
<1> HIDE DEF c
<1> DEFINE t == [k \in 1..c |-> IF k = c THEN m ELSE s[k]]
<1>3. \A k \in 1..c : k # c => k \in 1..(c - 1)
  BY <1>1
<1>4. t \in [1..c -> S]
  BY <1>3
<1>5. ASSUME NEW j \in 1..c, NEW k \in 1..c, j < k
      PROVE  t[j] < t[k]
  <2>1. j \in 1..(c - 1) /\ t[j] = s[j] /\ s[j] \in S /\ s[j] # m /\ s[j] \in Int /\ m \in Int
    <3>1. j \in 1..(c - 1) /\ j # c
      BY <1>1, <1>5
    <3>2. t[j] = s[j] /\ s[j] \in S \ {m}
      BY <1>2, <3>1
    <3> QED BY <3>1, <3>2
  <2>2. CASE k = c
    <3>1. t[k] = m /\ s[j] <= m
      BY <2>1, <2>2
    <3> QED BY <2>1, <3>1
  <2>3. CASE k # c
    BY <1>2, <1>3, <1>5, <2>1, <2>3 DEF Increasing
  <2> QED BY <2>2, <2>3
<1>6. DOMAIN t = 1..c
  OBVIOUS
<1> HIDE DEF t
<1>7. Increasing(t)
  BY <1>5, <1>6 DEF Increasing
<1> QED BY <1>4, <1>7 DEF Ordered, c

\* The numbers of a finite set can be put in order.
LEMMA NumbersOrdered ==
  ASSUME NEW S \in SUBSET Int, IsFiniteSet(S)
  PROVE  Ordered(S)
<1> DEFINE bad == {T \in SUBSET S : ~Ordered(T)}
<1>1. SUFFICES ASSUME bad # {} PROVE FALSE
  OBVIOUS
<1>2. IsWellFoundedOn(StrictSubsetOrdering(S), SUBSET S)
  BY FS_StrictSubsetOrderingWellFounded, FS_FiniteSubsetsOfFinite
<1>3. PICK T \in bad : \A U \in bad : <<U, T>> \notin StrictSubsetOrdering(S)
  <2>1. bad \subseteq SUBSET S
    OBVIOUS
  <2> HIDE DEF bad
  <2> QED BY <1>1, <1>2, <2>1, WFMin
<1>4. T \in SUBSET S /\ T \in SUBSET Int /\ IsFiniteSet(T)
  BY FS_Subset
<1>5. T # {}
  <2>1. Ordered({})
    <3>1. Cardinality({}) = 0 /\ 1..0 = {}
      BY FS_EmptySet
    <3>2. <<>> \in [1..Cardinality({}) -> {}] /\ Increasing(<<>>)
      BY <3>1 DEF Increasing
    <3> QED BY <3>2 DEF Ordered
  <2> QED BY <2>1
<1>6. PICK m \in T : \A n \in T : n <= m
  BY <1>4, <1>5, Greatest
<1>7. <<T \ {m}, T>> \in StrictSubsetOrdering(S)
  BY <1>4 DEF StrictSubsetOrdering
<1>8. Ordered(T \ {m})
  BY <1>3, <1>4, <1>7
<1> QED BY <1>4, <1>6, <1>8, OrderedOneMore

LEMMA InOrderIs ==
  ASSUME NEW S \in SUBSET Int, IsFiniteSet(S), NEW s, s = InOrder(S)
  PROVE  /\ s \in [1..Cardinality(S) -> S] /\ Increasing(s) /\ Cardinality(S) \in Nat
         /\ \A n \in S : \E k \in 1..Cardinality(S) : s[k] = n
<1> DEFINE c == Cardinality(S)
<1>1. c \in Nat /\ IsFiniteSet(1..c) /\ Cardinality(1..c) = c
  <2>1. c \in Nat
    BY FS_CardinalityType
  <2> HIDE DEF c
  <2> QED BY <2>1, FS_Interval
<1>2. s \in [1..c -> S] /\ Increasing(s)
  BY NumbersOrdered, Zenon DEF InOrder, Ordered, Increasing
<1>3. s \in Injection(1..c, S)
  <2>1. \A j, k \in 1..c : s[j] = s[k] => j = k
    <3> SUFFICES ASSUME NEW j \in 1..c, NEW k \in 1..c, s[j] = s[k], j < k PROVE FALSE
      BY <1>1
    <3>1. s[j] < s[k] /\ s[j] \in Int
      BY <1>2 DEF Increasing
    <3> QED BY <3>1
  <2> QED BY <1>2, <2>1 DEF Injection, IsInjective
<1>4. s \in Surjection(1..c, S)
  BY <1>1, <1>3, FS_Injection
<1> QED BY <1>1, <1>2, <1>4 DEF Surjection

(***************************************************************************)
(* The types of the rest of the state, and where each caller can stand     *)
(***************************************************************************)

Outcome == {"none", "answer", "error", "unavailable"}
Status  == {None, 201, 404, 409, 429, 500, 502, 503}

WorkerStands(w) ==
  /\ pc[w] \in {"idle", "call", "record"}
  /\ pc[w] = "idle" <=> job[w] = None
  /\ attempts[w] # <<>> => pc[w] \in {"call", "record"}

QuestionStands(q) ==
  /\ pc[q] \in {"unasked", "limit", "budget", "history", "call", "record", "done"}
  /\ pc[q] = "record" => outcome[q] # "none"
  /\ attempts[q] # <<>> => pc[q] \in {"call", "record"}

TalkTypes ==
  /\ history \in [Question -> Seq(Question)] /\ outcome \in [Question -> Outcome]
  /\ status \in [Question -> Status] /\ answered \in [Question -> SUBSET Question]

Placed ==
  /\ faults \in Nat /\ TalkTypes
  /\ \A n \in DOMAIN decisions : decisions[n].incident \in Incident
  /\ \A w \in Worker : WorkerStands(w)
  /\ \A q \in Question : QuestionStands(q)

\* A decision that is recorded is about an incident.
AboutIncidents(table, longer) ==
  \/ longer = table
  \/ \E row : Grows(table, longer, row) /\ row.incident \in Incident

LEMMA WorkerPlaced ==
  ASSUME Types, Placed, NEW w \in Worker, WorkerStep(w)
  PROVE  /\ WorkerStands(w)' /\ faults' \in Nat /\ UNCHANGED questionVars
         /\ \A v \in Worker \ {w} : job'[v] = job[v]
         /\ AboutIncidents(decisions, decisions')
<1>0. w \in Caller /\ WorkerStands(w) /\ faults \in Nat /\ pc \in [Caller -> Where]
  BY DEF Caller, Placed, Types
<1>1. ASSUME NEW where \in {"idle", "call", "record"}, Goto(w, where)
      PROVE  pc'[w] = where
  BY <1>0, <1>1 DEF Goto
<1>2. ASSUME NEW kind, Fault(kind) PROVE faults' \in Nat
  BY <1>0, <1>2 DEF Fault
<1>3. ASSUME MakeRecord(w), UNCHANGED job, pc[w] = "call"
      PROVE  WorkerStands(w)' /\ \A v \in Worker \ {w} : job'[v] = job[v]
  BY <1>0, <1>1, <1>3 DEF WorkerStands, MakeRecord
<1>4. ASSUME Idle(w)
      PROVE  WorkerStands(w)' /\ \A v \in Worker \ {w} : job'[v] = job[v]
  BY <1>0, <1>1, <1>4 DEF WorkerStands, Idle, Types
<1>5. CASE \E i \in Incident : Admit(w, i)
  <2>1. PICK i \in Incident : Admit(w, i)
    BY <1>5
  <2>2. /\ pc[w] = "idle" /\ pc'[w] = "call" /\ job' = [job EXCEPT ![w] = i]
        /\ UNCHANGED <<attempts, faults, decisions, questionVars>>
    BY <1>1, <2>1 DEF Admit, logVars
  <2>3. i # None
    BY SpendingAssumption
  <2> QED BY <1>0, <2>2, <2>3 DEF WorkerStands, Types, AboutIncidents
<1>6. CASE FinalReply(w)
  BY <1>0, <1>3, <1>6 DEF FinalReply, logVars, AboutIncidents
<1>7. CASE RejectedReply(w)
  <2>1. pc[w] = "call" /\ UNCHANGED <<pc, job, faults, decisions, questionVars>>
    BY <1>7 DEF RejectedReply, logVars
  <2> QED BY <1>0, <2>1 DEF WorkerStands, AboutIncidents
<1>8. CASE AnalysisRefused(w)
  BY <1>0, <1>2, <1>3, <1>8 DEF AnalysisRefused, logVars, AboutIncidents
<1>9. CASE AnalysisUnavailable(w)
  <2>1. pc[w] = "call" /\ Fault("outage") /\ UNCHANGED <<decisions, questionVars>>
    BY <1>9 DEF AnalysisUnavailable, logVars
  <2>2. Idle(w) \/ (MakeRecord(w) /\ UNCHANGED job)
    BY <1>9 DEF AnalysisUnavailable
  <2> QED BY <1>2, <1>3, <1>4, <2>1, <2>2 DEF AboutIncidents
<1>10. CASE RecordDecision(w)
  <2>1. pc[w] = "record" /\ Idle(w) /\ UNCHANGED questionVars /\ faults' \in Nat
    BY <1>0, <1>2, <1>10 DEF RecordDecision
  <2> DEFINE row == [incident |-> job[w], request |-> TRUE, attempts |-> attempts[w], at |-> stamp[w]]
  <2>2. row.incident = job[w] /\ (decisions' = Append(decisions, row) \/ decisions' = decisions)
    BY <1>10 DEF RecordDecision
  <2>3. job[w] \in Incident
    BY <1>0, <2>1 DEF WorkerStands, Types
  <2> HIDE DEF row
  <2>4. AboutIncidents(decisions, decisions')
    BY <2>2, <2>3, AppendGrows DEF AboutIncidents, Types
  <2> QED BY <1>4, <2>1, <2>4
<1>11. CASE CrashWorker(w)
  BY <1>2, <1>4, <1>11 DEF CrashWorker, logVars, AboutIncidents
<1>12. CASE WorkerError(w)
  <2>1. pc[w] = "call" /\ MakeRecord(w) /\ Fault("reply") /\ UNCHANGED <<job, decisions, questionVars>>
    BY <1>12 DEF WorkerError, logVars
  <2> QED BY <1>2, <1>3, <2>1 DEF AboutIncidents
<1> QED BY <1>5, <1>6, <1>7, <1>8, <1>9, <1>10, <1>11, <1>12 DEF WorkerStep

LEMMA TalkEnds ==
  ASSUME Types, Placed, NEW q \in Question, NEW code \in Status, Respond(q, code)
  PROVE  /\ QuestionStands(q)' /\ TalkTypes' /\ pc'[q] = "done"
         /\ status' = [status EXCEPT ![q] = code] /\ answered' = [answered EXCEPT ![q] = {}]
         /\ history' = [history EXCEPT ![q] = <<>>]
<1>0. q \in Caller /\ pc \in [Caller -> Where] /\ attempts \in [Caller -> Tries] /\ TalkTypes
  BY DEF Caller, Placed, Types
<1>1. pc'[q] = "done" /\ attempts'[q] = <<>>
  BY <1>0 DEF Respond, Goto
<1>2. <<>> \in Seq(Question) /\ "none" \in Outcome
  BY DEF Outcome
<1>3. TalkTypes'
  BY <1>0, <1>2 DEF Respond, TalkTypes
<1> QED BY <1>1, <1>3 DEF QuestionStands, Respond

(***************************************************************************)
(* The conversation                                                        *)
(***************************************************************************)

HasRow(p) == \E n \in DOMAIN followups : followups[n].question = p /\ followups[n].answered

\* Who was answered, and whom a question comes after, has a row.
RowsTell ==
  /\ \A q \in Question : status[q] = 201 => HasRow(q)
  /\ \A q \in Question : \A p \in answered[q] : About[p] = About[q] /\ HasRow(p)

\* What is sent along with q has p, or is full of later questions.
Continues(q, p) ==
  \/ \E n \in DOMAIN history[q] : history[q][n] = p
  \/ /\ Len(history[q]) = HistoryTurns
     /\ \A n \in DOMAIN history[q] :
          \E a, b \in DOMAIN followups :
            a < b /\ followups[a].question = p /\ followups[b].question = history[q][n]

\* Rows stay where they are.
RowsStay == \A n \in DOMAIN followups : n \in DOMAIN followups' /\ followups'[n] = followups[n]

LEMMA RowsStayOn ==
  ASSUME NEW table, followups' = table, \/ table = followups
                                        \/ \E row : Grows(followups, table, row)
  PROVE  RowsStay
BY DEF RowsStay, Grows

LEMMA StillTold ==
  ASSUME RowsStay, NEW q \in Question, NEW p
  PROVE  /\ HasRow(p) => HasRow(p)'
         /\ history'[q] = history[q] /\ Continues(q, p) => Continues(q, p)'
<1>1. HasRow(p) => HasRow(p)'
  BY DEF RowsStay, HasRow
<1>2. ASSUME history'[q] = history[q], Continues(q, p)
      PROVE  Continues(q, p)'
  <2>1. ASSUME NEW n \in DOMAIN history[q],
               \E a, b \in DOMAIN followups :
                 a < b /\ followups[a].question = p /\ followups[b].question = history[q][n]
        PROVE  \E a, b \in DOMAIN followups' :
                 a < b /\ followups'[a].question = p /\ followups'[b].question = history[q][n]
    BY <2>1 DEF RowsStay
  <2> QED BY <1>2, <2>1 DEF Continues
<1> QED BY <1>1, <1>2

\* The last turns: each earlier question is one of them, or else they are as many
\* as there may be, and all later.
LEMMA LastTurnsAre ==
  ASSUME Types, NEW i
  PROVE  /\ LastTurns(i) \in Seq(Question)
         /\ \A n \in DOMAIN followups :
              followups[n].answered /\ About[followups[n].question] = i =>
                \/ \E k \in DOMAIN LastTurns(i) : LastTurns(i)[k] = followups[n].question
                \/ /\ Len(LastTurns(i)) = HistoryTurns
                   /\ \A k \in DOMAIN LastTurns(i) :
                        \E m \in DOMAIN followups : n < m /\ followups[m].question = LastTurns(i)[k]
<1> DEFINE S == {n \in DOMAIN followups : followups[n].answered /\ About[followups[n].question] = i}
           rows  == InOrder(S)
           turns == [n \in DOMAIN rows |-> followups[rows[n]].question]
           c     == Cardinality(S)
           first == Max({1, Len(turns) - HistoryTurns + 1})
<1>1. S \subseteq Nat /\ S \subseteq DOMAIN followups /\ IsFiniteSet(S) /\ S \in SUBSET Int
  <2>1. /\ DOMAIN followups = 1..Len(followups) /\ Len(followups) \in Nat
        /\ IsFiniteSet(1..Len(followups))
    BY FS_Interval DEF Types
  <2> QED BY <2>1, FS_Subset
<1>2. /\ rows \in [1..c -> S] /\ Increasing(rows) /\ c \in Nat
      /\ \A n \in S : \E k \in 1..c : rows[k] = n
  <2> HIDE DEF S
  <2> QED BY <1>1, InOrderIs
<1>3. \A n \in S : followups[n].question \in Question
  <2>1. \A n \in DOMAIN followups : followups[n] \in Followup
    BY DEF Types
  <2>2. \A row \in Followup : row.question \in Question
    BY DEF Followup
  <2> HIDE DEF S
  <2> QED BY <1>1, <2>1, <2>2
<1>4. LastTurns(i) = SubSeq(turns, first, Len(turns))
  BY DEF LastTurns, Turns
<1> HIDE DEF S, rows, c
<1>5. DOMAIN turns = 1..c /\ \A k \in 1..c : turns[k] = followups[rows[k]].question /\ turns[k] \in Question
  BY <1>2, <1>3
<1>6. turns \in Seq(Question) /\ Len(turns) = c
  BY <1>2, <1>5
<1>7. HistoryTurns \in Nat /\ HistoryTurns > 0
  BY SpendingAssumption
<1> HIDE DEF turns
<1>8. /\ first \in Nat /\ first >= 1 /\ first >= c - HistoryTurns + 1
      /\ first = 1 \/ first = c - HistoryTurns + 1
  <2>1. \E x \in {1, c - HistoryTurns + 1} : \A y \in {1, c - HistoryTurns + 1} : x >= y
    BY <1>2, <1>7
  <2>2. first \in {1, c - HistoryTurns + 1} /\ \A y \in {1, c - HistoryTurns + 1} : first >= y
    BY <1>6, <2>1, Zenon DEF Max
  <2> HIDE DEF first
  <2> QED BY <1>2, <1>7, <2>2
<1> HIDE DEF first
<1>9. /\ LastTurns(i) \in Seq(Question)
      /\ Len(LastTurns(i)) = IF first <= c THEN c - first + 1 ELSE 0
      /\ \A k \in 1..(c - first + 1) : LastTurns(i)[k] = turns[first + k - 1]
  <2>1. \A k \in first..c : turns[k] \in Question
    BY <1>2, <1>5, <1>8
  <2> QED BY <1>2, <1>4, <1>6, <1>8, <2>1, SubSeqProperties
<1>10. DOMAIN LastTurns(i) = 1..(c - first + 1)
  BY <1>2, <1>8, <1>9
<1>11. ASSUME NEW n \in DOMAIN followups, followups[n].answered, About[followups[n].question] = i
       PROVE  \/ \E k \in DOMAIN LastTurns(i) : LastTurns(i)[k] = followups[n].question
              \/ /\ Len(LastTurns(i)) = HistoryTurns
                 /\ \A k \in DOMAIN LastTurns(i) :
                      \E m \in DOMAIN followups : n < m /\ followups[m].question = LastTurns(i)[k]
  <2>1. PICK j \in 1..c : rows[j] = n
    BY <1>2, <1>11 DEF S
  <2>2. CASE first <= j
    <3>1. j - first + 1 \in 1..(c - first + 1) /\ first + (j - first + 1) - 1 = j
      BY <1>2, <1>8, <2>2
    <3>2. LastTurns(i)[j - first + 1] = followups[n].question
      BY <1>5, <1>9, <2>1, <3>1
    <3> QED BY <1>10, <3>1, <3>2
  <2>3. CASE j < first
    <3>1. first = c - HistoryTurns + 1 /\ Len(LastTurns(i)) = HistoryTurns
      BY <1>2, <1>7, <1>8, <1>9, <2>1, <2>3
    <3>2. ASSUME NEW k \in DOMAIN LastTurns(i)
          PROVE  \E m \in DOMAIN followups : n < m /\ followups[m].question = LastTurns(i)[k]
      <4>1. first + k - 1 \in 1..c /\ j < first + k - 1
        BY <1>2, <1>8, <1>10, <2>1, <2>3, <3>2
      <4>2. n < rows[first + k - 1] /\ rows[first + k - 1] \in DOMAIN followups
        BY <1>1, <1>2, <2>1, <4>1 DEF Increasing
      <4>3. LastTurns(i)[k] = followups[rows[first + k - 1]].question
        BY <1>5, <1>9, <1>10, <4>1
      <4> QED BY <4>2, <4>3
    <3> QED BY <3>1, <3>2
  <2> QED BY <1>2, <1>8, <2>1, <2>2, <2>3
<1> QED BY <1>9, <1>11

(***************************************************************************)
(* The steps of a question                                                 *)
(***************************************************************************)

\* What else a question keeps of its own.
Unspoken(p) == history'[p] = history[p] /\ status'[p] = status[p] /\ answered'[p] = answered[p]

\* Where its step leaves q in the conversation.
Speaks(q) ==
  /\ status'[q] = 201 => status[q] = 201 \/ HasRow(q)'
  /\ answered'[q] \subseteq answered[q] \cup {p \in Question : About[p] = About[q] /\ status[p] = 201}
  /\ pc'[q] \in {"call", "record"} =>
       \/ /\ pc[q] \in {"call", "record"}
          /\ history'[q] = history[q] /\ answered'[q] = answered[q]
       \/ /\ history'[q] = LastTurns(About[q]) /\ answered'[q] = answered[q]
          /\ followups' = followups

LEMMA QuestionPlaced ==
  ASSUME Types, Placed, NEW q \in Question, QuestionStep(q)
  PROVE  /\ QuestionStands(q)' /\ TalkTypes' /\ faults' \in Nat /\ job' = job
         /\ \A p \in Question \ {q} : Unspoken(p) /\ outcome'[p] = outcome[p]
         /\ Speaks(q) /\ RowsStay
<1>0. /\ q \in Caller /\ QuestionStands(q) /\ faults \in Nat /\ pc \in [Caller -> Where]
      /\ attempts \in [Caller -> Tries] /\ TalkTypes
  BY DEF Caller, Placed, Types
<1>1. ASSUME NEW where, Goto(q, where)
      PROVE  pc'[q] = where
  BY <1>0, <1>1 DEF Goto
<1>2. ASSUME NEW kind, Fault(kind) PROVE faults' \in Nat
  BY <1>0, <1>2 DEF Fault
<1>3. ASSUME UNCHANGED questionVars
      PROVE  TalkTypes' /\ \A p \in Question : Unspoken(p) /\ outcome'[p] = outcome[p]
  BY <1>0, <1>3 DEF TalkTypes, Unspoken, questionVars
<1>4. ASSUME NEW code \in Status, Respond(q, code), code = 201 => HasRow(q)'
      PROVE  /\ QuestionStands(q)' /\ TalkTypes'
             /\ \A p \in Question \ {q} : Unspoken(p) /\ outcome'[p] = outcome[p]
             /\ Speaks(q)
  <2>1. /\ QuestionStands(q)' /\ TalkTypes' /\ pc'[q] = "done"
        /\ status' = [status EXCEPT ![q] = code] /\ answered' = [answered EXCEPT ![q] = {}]
        /\ history' = [history EXCEPT ![q] = <<>>] /\ outcome' = [outcome EXCEPT ![q] = "none"]
    BY <1>4, TalkEnds DEF Respond
  <2>2. status'[q] = code /\ answered'[q] = {}
    BY <1>0, <2>1 DEF TalkTypes
  <2>3. \A p \in Question \ {q} : Unspoken(p) /\ outcome'[p] = outcome[p]
    BY <1>0, <2>1 DEF TalkTypes, Unspoken
  <2> QED BY <1>4, <2>1, <2>2, <2>3 DEF Speaks
<1>5. CASE Ask(q)
  <2>1. pc[q] = "unasked" /\ UNCHANGED <<faults, followups, job>>
    BY <1>5 DEF Ask, logVars
  <2>2. CASE Analysed(About[q])
    <3> DEFINE before == {p \in Question : About[p] = About[q] /\ status[p] = 201}
    <3>1. /\ pc'[q] = "limit" /\ UNCHANGED <<attempts, history, outcome, status>>
          /\ answered' = [answered EXCEPT ![q] = before]
      BY <1>1, <1>5, <2>2 DEF Ask
    <3>2. /\ TalkTypes' /\ answered'[q] = before
          /\ \A p \in Question \ {q} : Unspoken(p) /\ outcome'[p] = outcome[p]
      <4>1. before \subseteq Question
        OBVIOUS
      <4> HIDE DEF before
      <4> QED BY <1>0, <3>1, <4>1 DEF TalkTypes, Unspoken
    <3>3. QuestionStands(q)'
      BY <1>0, <2>1, <3>1 DEF QuestionStands
    <3>4. Speaks(q)
      BY <3>1, <3>2 DEF Speaks
    <3> QED BY <1>0, <2>1, <3>2, <3>3, <3>4, RowsStayOn
  <2>3. CASE ~Analysed(About[q])
    <3>1. PICK code \in {409, 404} : Respond(q, code)
      BY <1>5, <2>3 DEF Ask
    <3> QED BY <1>0, <1>4, <2>1, <3>1, RowsStayOn DEF Status
  <2> QED BY <2>2, <2>3
<1>6. ASSUME NEW at, NEW ok, NEW next \in {"budget", "history"}, Check(q, at, ok, next, 429),
             at \in {"limit", "budget"}
      PROVE  /\ QuestionStands(q)' /\ TalkTypes' /\ faults' \in Nat /\ job' = job
             /\ \A p \in Question \ {q} : Unspoken(p) /\ outcome'[p] = outcome[p]
             /\ Speaks(q) /\ RowsStay
  <2>1. pc[q] = at /\ UNCHANGED <<faults, followups, job>>
    BY <1>6 DEF Check, logVars
  <2>2. CASE ok
    <3>1. pc'[q] = next /\ UNCHANGED <<attempts, questionVars>>
      BY <1>1, <1>6, <2>2 DEF Check
    <3>2. QuestionStands(q)' /\ Speaks(q)
      BY <1>0, <1>3, <1>6, <2>1, <3>1 DEF QuestionStands, Speaks, questionVars
    <3> QED BY <1>0, <1>3, <2>1, <3>1, <3>2, RowsStayOn
  <2>3. CASE ~ok
    <3>1. Respond(q, 429)
      BY <1>6, <2>3 DEF Check
    <3> QED BY <1>0, <1>4, <2>1, <3>1, RowsStayOn DEF Status
  <2> QED BY <2>2, <2>3
<1>7. CASE CheckLimit(q)
  BY <1>6, <1>7 DEF CheckLimit
<1>8. CASE CheckBudget(q)
  BY <1>6, <1>8 DEF CheckBudget
<1>9. CASE ReadHistory(q)
  <2>1. /\ pc[q] = "history" /\ pc'[q] = "call" /\ history' = [history EXCEPT ![q] = LastTurns(About[q])]
        /\ UNCHANGED <<faults, followups, job, attempts, outcome, status, answered>>
    BY <1>1, <1>9 DEF ReadHistory, logVars
  <2>2. LastTurns(About[q]) \in Seq(Question)
    BY LastTurnsAre
  <2>3. /\ TalkTypes' /\ history'[q] = LastTurns(About[q])
        /\ \A p \in Question \ {q} : Unspoken(p) /\ outcome'[p] = outcome[p]
    BY <1>0, <2>1, <2>2 DEF TalkTypes, Unspoken
  <2>4. QuestionStands(q)' /\ Speaks(q)
    BY <1>0, <2>1, <2>3 DEF QuestionStands, Speaks
  <2> QED BY <1>0, <2>1, <2>3, <2>4, RowsStayOn
<1>10. ASSUME NEW result \in Outcome \ {"none"}, EndCall(q, result)
       PROVE  /\ QuestionStands(q)' /\ TalkTypes' /\ job' = job
              /\ \A p \in Question \ {q} : Unspoken(p) /\ outcome'[p] = outcome[p]
              /\ Speaks(q) /\ RowsStay
  <2>1. /\ pc[q] = "call" /\ pc'[q] = "record" /\ outcome' = [outcome EXCEPT ![q] = result]
        /\ UNCHANGED <<followups, job, history, status, answered>>
    BY <1>1, <1>10 DEF EndCall, MakeRecord, logVars
  <2>2. /\ TalkTypes' /\ outcome'[q] = result
        /\ \A p \in Question \ {q} : Unspoken(p) /\ outcome'[p] = outcome[p]
    BY <1>0, <2>1 DEF TalkTypes, Unspoken
  <2>3. QuestionStands(q)' /\ Speaks(q)
    BY <1>0, <2>1, <2>2 DEF QuestionStands, Speaks
  <2> QED BY <2>1, <2>2, <2>3, RowsStayOn
<1>11. {"answer", "error", "unavailable"} = Outcome \ {"none"}
  BY DEF Outcome
<1>12. CASE Reply(q)
  BY <1>0, <1>10, <1>11, <1>12 DEF Reply
<1>13. CASE QuestionRefused(q)
  BY <1>2, <1>10, <1>11, <1>13 DEF QuestionRefused
<1>14. CASE QuestionUnavailable(q)
  BY <1>2, <1>10, <1>11, <1>14 DEF QuestionUnavailable
<1>15. CASE RecordFollowup(q)
  <2>1. pc[q] = "record" /\ job' = job
    BY <1>15 DEF RecordFollowup
  <2> DEFINE row  == [question |-> q, answered |-> outcome[q] = "answer",
                      attempts |-> attempts[q], at |-> stamp[q]]
             code == CASE outcome[q] = "answer" -> 201
                       [] outcome[q] = "error" -> 502
                       [] outcome[q] = "unavailable" -> 503
  <2>2. CASE followups' = Append(followups, row) /\ Respond(q, code) /\ faults' = faults
    <3>1. row.question = q /\ (row.answered <=> outcome[q] = "answer")
      OBVIOUS
    <3> HIDE DEF row
    <3>2. Grows(followups, followups', row)
      BY <2>2, AppendGrows DEF Types
    <3>3. outcome[q] \in {"answer", "error", "unavailable"}
      BY <1>0, <2>1 DEF QuestionStands, TalkTypes, Outcome
    <3>4. code \in Status /\ (code = 201 => outcome[q] = "answer")
      BY <3>3 DEF Status
    <3>5. code = 201 => HasRow(q)'
      <4>1. PICK n \in DOMAIN followups' : followups'[n] = row
        BY <3>2 DEF Grows
      <4>2. row.answered => HasRow(q)'
        BY <3>1, <4>1 DEF HasRow
      <4> QED BY <3>1, <3>4, <4>2
    <3> HIDE DEF code
    <3> QED BY <1>0, <1>4, <2>1, <2>2, <3>2, <3>4, <3>5, RowsStayOn
  <2>3. CASE followups' = followups /\ Respond(q, 500) /\ Fault("log")
    BY <1>2, <1>4, <2>1, <2>3, RowsStayOn DEF Status
  <2> QED BY <1>15, <2>2, <2>3 DEF RecordFollowup
<1> QED BY <1>5, <1>7, <1>8, <1>9, <1>12, <1>13, <1>14, <1>15 DEF QuestionStep

(***************************************************************************)
(* The types and the conversation, step by step                            *)
(***************************************************************************)

LEMMA CallersAre ==
  /\ \A w \in Worker : w \in Caller /\ w \notin Question
  /\ \A q \in Question : q \in Caller /\ q \notin Worker
BY Constants DEF Caller

LEMMA StandsOn ==
  /\ \A w \in Worker : WorkerStands(w) /\ pc'[w] = pc[w] /\ attempts'[w] = attempts[w] /\ job'[w] = job[w]
                         => WorkerStands(w)'
  /\ \A q \in Question : QuestionStands(q) /\ pc'[q] = pc[q] /\ attempts'[q] = attempts[q]
                            /\ outcome'[q] = outcome[q]
                           => QuestionStands(q)'
BY DEF WorkerStands, QuestionStands

LEMMA CrashPlaced ==
  ASSUME Types, Placed, CrashApi
  PROVE  /\ Placed' /\ status' = status /\ followups' = followups
         /\ \A q \in Question :
              \/ Unspoken(q) /\ pc'[q] = pc[q]
              \/ pc'[q] = "done" /\ answered'[q] = {}
<1> DEFINE cut == {q \in Question : InThread(q)}
<1>0. /\ \A w \in Worker : w \in Caller /\ w \notin Question
      /\ \A q \in Question : q \in Caller /\ q \notin Worker
      /\ faults \in Nat /\ TalkTypes
  BY CallersAre DEF Placed
<1>1. /\ pc' = [c \in Caller |-> IF c \in cut THEN "done" ELSE pc[c]]
      /\ attempts' = [c \in Caller |-> IF c \in cut THEN <<>> ELSE attempts[c]]
      /\ history' = [q \in Question |-> IF q \in cut THEN <<>> ELSE history[q]]
      /\ outcome' = [q \in Question |-> IF q \in cut THEN "none" ELSE outcome[q]]
      /\ answered' = [q \in Question |-> IF q \in cut THEN {} ELSE answered[q]]
      /\ UNCHANGED <<decisions, followups, job, status>>
  BY DEF CrashApi, logVars
<1>2. faults' \in Nat
  BY <1>0 DEF CrashApi, Fault
<1>3. cut \subseteq Question /\ \A w \in Worker : w \notin cut
  BY <1>0
<1> HIDE DEF cut
<1>4. \A w \in Worker : WorkerStands(w)'
  <2>1. \A w \in Worker : pc'[w] = pc[w] /\ attempts'[w] = attempts[w] /\ job'[w] = job[w]
    BY <1>0, <1>1, <1>3
  <2> QED BY <2>1, StandsOn DEF Placed
<1>5. TalkTypes'
  <2>1. <<>> \in Seq(Question) /\ "none" \in Outcome
    BY DEF Outcome
  <2> QED BY <1>0, <1>1, <2>1 DEF TalkTypes
<1>6. ASSUME NEW q \in Question
      PROVE  /\ QuestionStands(q)'
             /\ \/ Unspoken(q) /\ pc'[q] = pc[q]
                \/ pc'[q] = "done" /\ answered'[q] = {}
  <2>1. CASE q \in cut
    <3>1. pc'[q] = "done" /\ answered'[q] = {} /\ attempts'[q] = <<>>
      BY <1>0, <1>1, <2>1
    <3> QED BY <3>1 DEF QuestionStands
  <2>2. CASE q \notin cut
    <3>1. pc'[q] = pc[q] /\ attempts'[q] = attempts[q] /\ outcome'[q] = outcome[q] /\ Unspoken(q)
      BY <1>0, <1>1, <2>2 DEF Unspoken
    <3> QED BY <3>1, StandsOn DEF Placed
  <2> QED BY <2>1, <2>2
<1> QED BY <1>1, <1>2, <1>4, <1>5, <1>6 DEF Placed

LEMMA PlacedStep == Types /\ InStep /\ Placed /\ [Next]_vars => Placed'
<1> SUFFICES ASSUME Types, InStep, Placed, [Next]_vars PROVE Placed'
  OBVIOUS
<1>0. /\ \A w \in Worker : w \in Caller /\ w \notin Question
      /\ \A q \in Question : q \in Caller /\ q \notin Worker
  BY CallersAre
<1>1. ASSUME NEW w \in Worker, WorkerStep(w)
      PROVE  Placed'
  <2>1. /\ WorkerStands(w)' /\ faults' \in Nat /\ UNCHANGED questionVars
        /\ \A v \in Worker \ {w} : job'[v] = job[v]
        /\ AboutIncidents(decisions, decisions')
    BY <1>1, WorkerPlaced
  <2>2. Apart(w) /\ OthersKeep(w)
    BY <1>1, WorkerSteps, WorkerBooks
  <2>3. \A v \in Worker : WorkerStands(v)'
    BY <1>0, <2>1, <2>2, StandsOn DEF Apart, OthersKeep, Placed, Caller
  <2>4. \A q \in Question : QuestionStands(q)'
    BY <1>0, <2>1, <2>2, StandsOn DEF Apart, OthersKeep, Placed, questionVars
  <2>5. TalkTypes'
    BY <2>1 DEF questionVars, TalkTypes, Placed
  <2>6. \A n \in DOMAIN decisions' : decisions'[n].incident \in Incident
    BY <2>1 DEF AboutIncidents, Grows, Placed
  <2> QED BY <2>1, <2>3, <2>4, <2>5, <2>6 DEF Placed
<1>2. ASSUME NEW q \in Question, QuestionStep(q)
      PROVE  Placed'
  <2>1. /\ QuestionStands(q)' /\ TalkTypes' /\ faults' \in Nat /\ job' = job
        /\ \A p \in Question \ {q} : outcome'[p] = outcome[p]
    BY <1>2, QuestionPlaced
  <2>2. Apart(q) /\ OthersKeep(q) /\ decisions' = decisions
    BY <1>2, QuestionSteps, QuestionBooks
  <2>3. \A v \in Worker : WorkerStands(v)'
    BY <1>0, <2>1, <2>2, StandsOn DEF Apart, OthersKeep, Placed
  <2>4. \A p \in Question : QuestionStands(p)'
    BY <1>0, <2>1, <2>2, StandsOn DEF Apart, OthersKeep, Placed
  <2>5. \A n \in DOMAIN decisions' : decisions'[n].incident \in Incident
    BY <2>2 DEF Placed
  <2> QED BY <2>1, <2>3, <2>4, <2>5 DEF Placed
<1>3. CASE CrashApi
  BY <1>3, CrashPlaced
<1>4. CASE UNCHANGED <<faults, decisions, pc, job, attempts, questionVars>>
  BY <1>4, StandsOn DEF Placed, TalkTypes, questionVars
<1>5. CASE Tick
  BY <1>4, <1>5 DEF Tick, logVars
<1>6. CASE UNCHANGED vars
  BY <1>4, <1>6 DEF vars, logVars
<1> QED BY <1>1, <1>2, <1>3, <1>5, <1>6 DEF Next

LEMMA InitPlaced == Init => Placed
<1> SUFFICES ASSUME Init PROVE Placed
  OBVIOUS
<1>1. /\ \A w \in Worker : w \in Caller /\ w \notin Question
      /\ \A q \in Question : q \in Caller /\ q \notin Worker
  BY CallersAre
<1> DEFINE rows == [incident : Incident, request : BOOLEAN, attempts : Seq(Cost), at : {t \in Int : t < 0}]
<1>2. decisions \in Seq(rows)
  BY SpendingAssumption DEF Init
<1>3. \A n \in DOMAIN decisions : decisions[n].incident \in Incident
  <2>1. \A row \in rows : row.incident \in Incident
    OBVIOUS
  <2> HIDE DEF rows
  <2> QED BY <1>2, <2>1
<1>4. TalkTypes /\ faults \in Nat
  <2>1. <<>> \in Seq(Question) /\ "none" \in Outcome /\ None \in Status
    BY DEF Outcome, Status
  <2> QED BY <2>1 DEF Init, TalkTypes
<1>5. \A w \in Worker : WorkerStands(w)
  BY <1>1 DEF Init, WorkerStands
<1>6. \A q \in Question : QuestionStands(q)
  BY <1>1 DEF Init, QuestionStands
<1> QED BY <1>3, <1>4, <1>5, <1>6 DEF Placed

LEMMA PlacedIsTyped == Types /\ InStep /\ Placed => TypeOK
<1> SUFFICES ASSUME Types, InStep, Placed PROVE TypeOK
  OBVIOUS
<1> DEFINE rows == [incident : Incident, request : BOOLEAN, attempts : Tries, at : Int]
<1>1. decisions \in Seq(rows)
  <2>1. decisions \in Seq(Decision)
    BY DEF Types
  <2>2. \A row \in Decision : row.incident \in Incident => row \in rows
    BY DEF Decision
  <2>3. \A n \in 1..Len(decisions) : decisions[n] \in Decision /\ decisions[n].incident \in Incident
    BY <2>1 DEF Placed
  <2> HIDE DEF rows
  <2> QED BY <2>1, <2>2, <2>3
<1>2. followups \in Seq([question : Question, answered : BOOLEAN, attempts : Tries, at : Nat])
  BY DEF Types, Followup
<1>3. /\ \A w \in Worker : pc[w] \in {"idle", "call", "record"} /\ (pc[w] = "idle" <=> job[w] = None)
      /\ \A q \in Question :
           pc[q] \in {"unasked", "limit", "budget", "history", "call", "record", "done"}
      /\ \A c \in Caller : attempts[c] # <<>> => pc[c] \in {"call", "record"}
  BY DEF Placed, WorkerStands, QuestionStands, Caller
<1> QED BY <1>1, <1>2, <1>3 DEF TypeOK, Types, InStep, Placed, TalkTypes, Outcome, Status

LEMMA PlacedAlways == Spec => [](Types /\ InStep /\ Placed)
<1>1. Init => Types /\ InStep /\ Placed
  BY InitTypes, InitInStep, InitPlaced
<1>2. Types /\ InStep /\ Placed /\ [Next]_vars => (Types /\ InStep /\ Placed)'
  BY StepTypes, InStepNext, PlacedStep
<1> QED BY <1>1, <1>2, PTL DEF Spec

\* The state is well typed: a worker has an incident exactly while it is busy, and
\* only a call under way or about to be recorded has replies in hand (worker.py,
\* poll_once; api.py, ask; decision_log.py, the rows of the two tables).
THEOREM SpendingTyped == Spec => []TypeOK
BY PlacedAlways, PlacedIsTyped, PTL

Conversation == RowsTell /\ ConversationContinues

\* What is sent along continues the conversation, as far as one question goes.
ContinuesAll(q) == pc[q] \in {"call", "record"} => \A p \in answered[q] : Continues(q, p)

LEMMA ContinuesIs == ConversationContinues <=> \A q \in Question : ContinuesAll(q)
BY DEF ConversationContinues, ContinuesAll, Continues

LEMMA ContinuesIsNext == (\A q \in Question : ContinuesAll(q))' <=> ConversationContinues'
BY ContinuesIs, PTL

\* A question that does not speak, while rows stay.
LEMMA ListensOn ==
  ASSUME RowsTell, RowsStay, NEW q \in Question, ContinuesAll(q), Unspoken(q), pc'[q] = pc[q]
  PROVE  ContinuesAll(q)'
BY StillTold DEF Unspoken, ContinuesAll

LEMMA RowsToldOn ==
  ASSUME RowsTell, RowsStay, TalkTypes,
         \A q \in Question :
           /\ status'[q] = 201 => status[q] = 201 \/ HasRow(q)'
           /\ answered'[q] \subseteq answered[q] \cup {p \in Question : About[p] = About[q] /\ status[p] = 201}
  PROVE  RowsTell'
<1>1. \A q \in Question : HasRow(q) => HasRow(q)'
  BY StillTold
<1>2. ASSUME NEW q \in Question, status'[q] = 201 PROVE HasRow(q)'
  BY <1>1, <1>2 DEF RowsTell
<1>3. ASSUME NEW q \in Question, NEW p \in answered'[q] PROVE About[p] = About[q] /\ HasRow(p)'
  <2>1. p \in Question
    BY <1>3 DEF TalkTypes
  <2> QED BY <1>1, <1>3, <2>1 DEF RowsTell
<1> QED BY <1>2, <1>3 DEF RowsTell

LEMMA LastTurnsContinue ==
  ASSUME Types, RowsTell, NEW q \in Question, NEW p \in answered[q], history'[q] = LastTurns(About[q]),
         followups' = followups
  PROVE  Continues(q, p)'
<1>1. PICK n \in DOMAIN followups : followups[n].question = p /\ followups[n].answered
  BY DEF RowsTell, HasRow
<1>2. About[followups[n].question] = About[q]
  BY <1>1 DEF RowsTell
<1>3. \/ \E k \in DOMAIN history'[q] : history'[q][k] = p
      \/ /\ Len(history'[q]) = HistoryTurns
         /\ \A k \in DOMAIN history'[q] :
              \E m \in DOMAIN followups : n < m /\ followups[m].question = history'[q][k]
  BY <1>1, <1>2, LastTurnsAre
<1> QED BY <1>1, <1>3 DEF Continues

LEMMA ConversationStep ==
  Types /\ InStep /\ Placed /\ Conversation /\ [Next]_vars => Conversation'
<1> SUFFICES ASSUME Types, InStep, Placed, Conversation, [Next]_vars PROVE Conversation'
  OBVIOUS
<1>0. /\ \A w \in Worker : w \in Caller /\ w \notin Question
      /\ \A q \in Question : q \in Caller /\ q \notin Worker
      /\ RowsTell /\ TalkTypes /\ \A q \in Question : ContinuesAll(q)
  BY CallersAre, ContinuesIs DEF Conversation, Placed
<1>1. ASSUME UNCHANGED <<followups, questionVars>>, \A q \in Question : pc'[q] = pc[q]
      PROVE  Conversation'
  <2>1. RowsStay /\ \A q \in Question : Unspoken(q)
    BY <1>1, RowsStayOn DEF questionVars, Unspoken
  <2>2. RowsTell'
    BY <1>0, <2>1, RowsToldOn DEF Unspoken
  <2>3. \A q \in Question : ContinuesAll(q)'
    BY <1>0, <1>1, <2>1, ListensOn
  <2> QED BY <2>2, <2>3, ContinuesIsNext DEF Conversation
<1>2. ASSUME NEW w \in Worker, WorkerStep(w)
      PROVE  Conversation'
  BY <1>0, <1>1, <1>2, WorkerPlaced, WorkerSteps DEF Apart
<1>3. ASSUME NEW q \in Question, QuestionStep(q)
      PROVE  Conversation'
  <2>1. /\ \A p \in Question \ {q} : Unspoken(p)
        /\ Speaks(q) /\ RowsStay
    BY <1>3, QuestionPlaced
  <2>2. \A p \in Question \ {q} : pc'[p] = pc[p]
    BY <1>0, <1>3, QuestionSteps DEF Apart
  <2>3. RowsTell'
    BY <1>0, <2>1, RowsToldOn DEF Unspoken, Speaks
  <2>4. ContinuesAll(q)'
    <3> SUFFICES ASSUME pc'[q] \in {"call", "record"}, NEW p \in answered'[q]
                 PROVE  Continues(q, p)'
      BY DEF ContinuesAll
    <3>1. CASE pc[q] \in {"call", "record"} /\ history'[q] = history[q] /\ answered'[q] = answered[q]
      BY <1>0, <2>1, <3>1, StillTold DEF ContinuesAll
    <3>2. CASE history'[q] = LastTurns(About[q]) /\ answered'[q] = answered[q] /\ followups' = followups
      BY <1>0, <3>2, LastTurnsContinue
    <3> QED BY <2>1, <3>1, <3>2 DEF Speaks
  <2>5. \A p \in Question : ContinuesAll(p)'
    BY <1>0, <2>1, <2>2, <2>4, ListensOn
  <2> QED BY <2>3, <2>5, ContinuesIsNext DEF Conversation
<1>4. CASE CrashApi
  <2>1. /\ status' = status /\ RowsStay
        /\ \A q \in Question :
             \/ Unspoken(q) /\ pc'[q] = pc[q]
             \/ pc'[q] = "done" /\ answered'[q] = {}
    BY <1>4, CrashPlaced, RowsStayOn
  <2>2. RowsTell'
    BY <1>0, <2>1, RowsToldOn DEF Unspoken
  <2>3. \A q \in Question : ContinuesAll(q)'
    BY <1>0, <2>1, ListensOn DEF ContinuesAll
  <2> QED BY <2>2, <2>3, ContinuesIsNext DEF Conversation
<1>5. CASE Tick
  BY <1>1, <1>5 DEF Tick, logVars
<1>6. CASE UNCHANGED vars
  BY <1>1, <1>6 DEF vars, logVars
<1> QED BY <1>2, <1>3, <1>4, <1>5, <1>6 DEF Next

LEMMA InitConversation == Init => Conversation
BY CallersAre DEF Init, Conversation, RowsTell, ConversationContinues, None

\* What is sent along with a question has every question about the incident that
\* was answered before it was asked, or is full of later ones (api.py, ask:
\* history[-HISTORY_TURNS:]; decision_log.py, followups_for).
THEOREM ConversationKept == Spec => []ConversationContinues
<1>1. Init => Conversation
  BY InitConversation
<1>2. Types /\ InStep /\ Placed /\ Conversation /\ [Next]_vars => Conversation'
  BY ConversationStep
<1>3. Conversation => ConversationContinues
  BY DEF Conversation
<1> QED BY <1>1, <1>2, <1>3, PlacedAlways, PTL DEF Spec

\* With one request at a time in the API, a process overshoots the budget by at
\* most the call it had in flight (README.md:321): the thread pool is all that
\* stands between the code and this sentence.
THEOREM OvershootOfOneThread ==
  ASSUME Threads = 1 PROVE Spec => []OneInFlightPerProcess
<1>1. BudgetOvershoot => OneInFlightPerProcess
  BY DEF BudgetOvershoot, OneInFlightPerProcess
<1> QED BY <1>1, OvershootBounded, PTL
=============================================================================
