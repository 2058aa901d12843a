------------------------- MODULE CopilotWorkerProofs -------------------------
(***************************************************************************)
(* For every number of workers, incidents and faults, and every setting of *)
(* the times: the state is well typed, an incident is paid for again only  *)
(* after an answer was lost, and claims prevent duplicates.  While writes  *)
(* of the decision log do not fail, no incident falls behind a worker's    *)
(* query window when it is committed within the lookback, and none is      *)
(* analysed twice or handed on unanalysed twice by one process.  The wait  *)
(* for a provider that is down doubles up to its maximum.                  *)
(***************************************************************************)
EXTENDS CopilotWorker, FiniteSetTheorems, WellFoundedInduction, TLAPS

(***************************************************************************)
(* Types                                                                   *)
(***************************************************************************)

(* The least element the cursor falls back to exists. *)
LEMMA MinExists ==
  ASSUME NEW S \in SUBSET Nat, S # {}
  PROVE  MinOfSet(S) \in S /\ \A n \in S : MinOfSet(S) <= n
<1>1. IsWellFoundedOn(OpToRel(<, Nat), Nat)
  BY NatLessThanWellFounded
<1>2. PICK m \in S : \A n \in S : ~(<<n, m>> \in OpToRel(<, Nat))
  BY <1>1, WFMin
<1>3. \A n \in S : m <= n
  <2> SUFFICES ASSUME NEW n \in S PROVE m <= n
    OBVIOUS
  <2>1. ~(n < m)
    BY <1>2 DEF OpToRel
  <2> QED BY <2>1
<1> QED
  BY <1>3 DEF MinOfSet

\* The initial states are well typed.
LEMMA InitType == Init => TypeOK
BY WorkerAssumption, SMT
DEF Init, TypeOK, EnvOK, LogOK, PollOK, MemoryOK, HistoryOK, LocalsOK, NoClaim, NoResult, Absent,
    Kinds

-----------------------------------------------------------------------------
\* What an incident in hand is.
LEMMA InHand ==
  ASSUME TypeOK, NEW w \in Worker, pc[w] \in {"gate", "claim", "fetch", "call", "record"}
  PROVE  cur[w] \in todo[w] /\ cur[w] \in Incident /\ created[cur[w]] \in Nat
<1>1. LocalsOK(w) /\ PollOK /\ EnvOK
  BY DEF TypeOK
<1> QED BY <1>1 DEF LocalsOK, PollOK, EnvOK

\* Setting an incident aside and finishing one keep the locals well typed.
LEMMA DeferType ==
  ASSUME TypeOK, NEW w \in Worker, NEW i \in Incident, created[i] \in Nat, Defer(w, i),
         pc[w] # "record", UNCHANGED <<created, result>>
  PROVE  PollOK' /\ \A v \in Worker : LocalsOK(v)'
<1>0. EnvOK /\ PollOK /\ \A v \in Worker : LocalsOK(v)
  BY DEF TypeOK
<1>1. pc' \in [Worker -> {"stopped", "idle", "next", "gate", "claim", "fetch", "call", "record"}]
  BY <1>0 DEF PollOK, Defer
<1>2. cur' \in [Worker -> Incident \cup {Absent}] /\ since' \in [Worker -> Nat]
  BY <1>0 DEF PollOK, Defer, Drop
<1>3. todo' \in [Worker -> SUBSET Incident] /\ deferred' \in [Worker -> SUBSET Nat]
  BY <1>0 DEF PollOK, Defer
<1>4. PollOK'
  BY <1>0, <1>1, <1>2, <1>3 DEF PollOK, Defer
<1>5. ASSUME NEW v \in Worker PROVE LocalsOK(v)'
  BY <1>0 DEF LocalsOK, PollOK, EnvOK, Defer, Drop, memoryVars
<1> QED BY <1>4, <1>5

\* Finishing an incident keeps the locals well typed.
LEMMA FinishType ==
  ASSUME TypeOK, NEW w \in Worker, NEW i \in Incident, created[i] \in Nat, Finish(w, i),
         UNCHANGED created, result' = [result EXCEPT ![w] = NoResult]
  PROVE  /\ PollOK'
         /\ processed' \in [Worker -> SUBSET Incident] /\ announced' \in [Worker -> SUBSET Incident]
         /\ \A v \in Worker : LocalsOK(v)'
<1>0. EnvOK /\ PollOK /\ MemoryOK /\ \A v \in Worker : LocalsOK(v)
  BY DEF TypeOK
<1>1. pc' \in [Worker -> {"stopped", "idle", "next", "gate", "claim", "fetch", "call", "record"}]
  BY <1>0 DEF PollOK, Finish
<1>2. cur' \in [Worker -> Incident \cup {Absent}] /\ since' \in [Worker -> Nat]
  BY <1>0 DEF PollOK, Finish, Drop
<1>3. todo' \in [Worker -> SUBSET Incident] /\ newest' \in [Worker -> Nat]
  BY <1>0 DEF PollOK, Finish, MaxOf
<1>4. result' \in [Worker -> [kind : Kinds \cup {"none"}, at : Nat, tokens : Nat]]
  BY <1>0 DEF PollOK, NoResult
<1>5. PollOK'
  BY <1>0, <1>1, <1>2, <1>3, <1>4 DEF PollOK, Finish
<1>6. processed' \in [Worker -> SUBSET Incident] /\ announced' \in [Worker -> SUBSET Incident]
  BY <1>0 DEF MemoryOK, Finish
<1>7. ASSUME NEW v \in Worker PROVE LocalsOK(v)'
  <2>1. CASE v = w
    BY <2>1, <1>0 DEF LocalsOK, PollOK, EnvOK, MemoryOK, Finish, Drop, NoResult
  <2>2. CASE v # w
    <3>1. /\ todo'[v] = todo[v] /\ processed'[v] = processed[v] /\ pc'[v] = pc[v]
          /\ cur'[v] = cur[v] /\ result'[v] = result[v]
      BY <2>2, <1>0 DEF PollOK, MemoryOK, Finish, Drop
    <3> QED BY <3>1, <1>0 DEF LocalsOK
  <2> QED BY <2>1, <2>2
<1> QED BY <1>5, <1>6, <1>7

\* A worker that starts has nothing in hand.
LEMMA StartType ==
  ASSUME TypeOK, NEW w \in Worker, Start(w) PROVE TypeOK'
<1>0. EnvOK /\ LogOK /\ PollOK /\ MemoryOK /\ HistoryOK /\ \A v \in Worker : LocalsOK(v)
  BY DEF TypeOK
<1>1. EnvOK'
  BY <1>0, WorkerAssumption DEF Start, EnvOK, envVars
<1>2. LogOK'
  BY <1>0, WorkerAssumption DEF Start, EnvOK, LogOK, logVars, Kinds
<1>3. PollOK'
  BY <1>0, WorkerAssumption DEF Start, EnvOK, PollOK, MemoryOK, pollVars, Kinds
<1>4. MemoryOK'
  BY <1>0, WorkerAssumption DEF Start, EnvOK, MemoryOK, memoryVars, outageVars
<1>5. HistoryOK'
  BY <1>0, WorkerAssumption DEF Start, PollOK, HistoryOK, historyVars
<1>6. ASSUME NEW v \in Worker PROVE LocalsOK(v)'
  BY <1>0 DEF Start, LocalsOK, EnvOK, PollOK, MemoryOK, envVars, pollVars, memoryVars
<1> QED BY <1>1, <1>2, <1>3, <1>4, <1>5, <1>6 DEF TypeOK

\* A poll takes on listed incidents it has not dealt with.
LEMMA PollType ==
  ASSUME TypeOK, NEW w \in Worker, Poll(w) PROVE TypeOK'
<1>0. EnvOK /\ LogOK /\ PollOK /\ MemoryOK /\ HistoryOK /\ \A v \in Worker : LocalsOK(v)
  BY DEF TypeOK
<1>1. EnvOK'
  BY <1>0, WorkerAssumption DEF Poll, Listed, EnvOK, envVars
<1>2. LogOK'
  BY <1>0, WorkerAssumption DEF Poll, Listed, EnvOK, LogOK, logVars, Kinds
<1>3. PollOK'
  BY <1>0, WorkerAssumption DEF Poll, Listed, EnvOK, PollOK, MemoryOK, pollVars, Kinds
<1>4. MemoryOK'
  BY <1>0, WorkerAssumption DEF Poll, Listed, EnvOK, MemoryOK, memoryVars, outageVars
<1>5. HistoryOK'
  BY <1>0, WorkerAssumption DEF Poll, Listed, PollOK, HistoryOK, historyVars
<1>6. ASSUME NEW v \in Worker PROVE LocalsOK(v)'
  BY <1>0 DEF Poll, Listed, LocalsOK, EnvOK, PollOK, MemoryOK, envVars, pollVars, memoryVars
<1> QED BY <1>1, <1>2, <1>3, <1>4, <1>5, <1>6 DEF TypeOK

\* Passing the gate keeps the incident in hand.
LEMMA PassGateType ==
  ASSUME TypeOK, NEW w \in Worker, PassGate(w) PROVE TypeOK'
<1>0. EnvOK /\ LogOK /\ PollOK /\ MemoryOK /\ HistoryOK /\ \A v \in Worker : LocalsOK(v)
  BY DEF TypeOK
<1>1. EnvOK'
  BY <1>0, WorkerAssumption DEF PassGate, EnvOK, envVars
<1>2. LogOK'
  BY <1>0, WorkerAssumption DEF PassGate, EnvOK, LogOK, logVars, Kinds
<1>3. PollOK'
  BY <1>0, WorkerAssumption DEF PassGate, EnvOK, PollOK, MemoryOK, pollVars, Kinds
<1>4. MemoryOK'
  BY <1>0, WorkerAssumption DEF PassGate, EnvOK, MemoryOK, memoryVars, outageVars
<1>5. HistoryOK'
  BY <1>0, WorkerAssumption DEF PassGate, PollOK, HistoryOK, historyVars
<1>6. ASSUME NEW v \in Worker PROVE LocalsOK(v)'
  BY <1>0 DEF PassGate, LocalsOK, EnvOK, PollOK, MemoryOK, envVars, pollVars, memoryVars
<1> QED BY <1>1, <1>2, <1>3, <1>4, <1>5, <1>6 DEF TypeOK

\* Fetching the events keeps the incident in hand.
LEMMA FetchType ==
  ASSUME TypeOK, NEW w \in Worker, Fetch(w) PROVE TypeOK'
<1>0. EnvOK /\ LogOK /\ PollOK /\ MemoryOK /\ HistoryOK /\ \A v \in Worker : LocalsOK(v)
  BY DEF TypeOK
<1>1. EnvOK'
  BY <1>0, WorkerAssumption DEF Fetch, EnvOK, envVars
<1>2. LogOK'
  BY <1>0, WorkerAssumption DEF Fetch, EnvOK, LogOK, logVars, Kinds
<1>3. PollOK'
  BY <1>0, WorkerAssumption DEF Fetch, EnvOK, PollOK, MemoryOK, pollVars, Kinds
<1>4. MemoryOK'
  BY <1>0, WorkerAssumption DEF Fetch, EnvOK, MemoryOK, memoryVars, outageVars
<1>5. HistoryOK'
  BY <1>0, WorkerAssumption DEF Fetch, PollOK, HistoryOK, historyVars
<1>6. ASSUME NEW v \in Worker PROVE LocalsOK(v)'
  BY <1>0 DEF Fetch, LocalsOK, EnvOK, PollOK, MemoryOK, envVars, pollVars, memoryVars
<1> QED BY <1>1, <1>2, <1>3, <1>4, <1>5, <1>6 DEF TypeOK

\* A failed analysis gives a record of its own kind.
LEMMA NoCallType ==
  ASSUME TypeOK, NEW w \in Worker, AnalysisImpossible(w) \/ ReplyBreaksParser(w) PROVE TypeOK'
<1>0. EnvOK /\ LogOK /\ PollOK /\ MemoryOK /\ HistoryOK /\ \A v \in Worker : LocalsOK(v)
  BY DEF TypeOK
<1>1. RecordNoCall(w) /\ cur[w] \in Incident /\ faults' \in Nat
  BY <1>0, InHand DEF AnalysisImpossible, ReplyBreaksParser, Fault, EnvOK
<1>2. EnvOK' /\ LogOK' /\ MemoryOK'
  BY <1>0, <1>1 DEF RecordNoCall, MarkProviderUp, EnvOK, LogOK, MemoryOK, envVars, logVars, memoryVars
<1>3. PollOK'
  BY <1>0, <1>1 DEF RecordNoCall, EnvOK, PollOK, pollVars, Kinds
<1>4. HistoryOK'
  <2>1. failures' \in [Worker -> Nat] /\ told' = told
    BY <1>0, <1>1 DEF RecordNoCall, MarkProviderUp, HistoryOK
  <2>2. CASE AnalysisImpossible(w)
    BY <1>0, <2>1, <2>2 DEF AnalysisImpossible, HistoryOK
  <2>3. CASE ReplyBreaksParser(w)
    <3>1. paid' \in [Incident -> Nat] /\ lost' \in [Incident -> Nat]
      BY <1>0, <1>1, <2>3 DEF ReplyBreaksParser, HistoryOK
    <3>2. analyzed' \in [Worker -> SUBSET Incident]
      BY <1>0, <1>1, <2>3 DEF ReplyBreaksParser, HistoryOK
    <3> QED BY <2>1, <3>1, <3>2, <1>0 DEF HistoryOK
  <2> QED BY <2>2, <2>3
<1>5. pc[w] \in {"fetch", "call"}
  BY DEF AnalysisImpossible, ReplyBreaksParser
<1>6. ASSUME NEW v \in Worker PROVE LocalsOK(v)'
  BY <1>0, <1>1, <1>5 DEF RecordNoCall, LocalsOK, PollOK, envVars, pollVars, memoryVars
<1> QED BY <1>2, <1>3, <1>4, <1>6 DEF TypeOK

\* What is taken up is one of the poll's.
LEMMA TakeNextType ==
  ASSUME TypeOK, NEW w \in Worker, TakeNext(w) PROVE TypeOK'
<1>0. EnvOK /\ LogOK /\ PollOK /\ MemoryOK /\ HistoryOK /\ \A v \in Worker : LocalsOK(v)
  BY DEF TypeOK
<1>1. EnvOK' /\ LogOK' /\ HistoryOK' /\ UNCHANGED <<created, outageVars, result>>
  BY <1>0 DEF TakeNext, EnvOK, LogOK, HistoryOK, envVars, logVars, historyVars
<1>2. PICK i \in todo[w] :
        IF Decided(i)
        THEN Finish(w, i)
        ELSE /\ pc' = [pc EXCEPT ![w] = "gate"]
             /\ cur' = [cur EXCEPT ![w] = i]
             /\ UNCHANGED <<memoryVars, announced, pollVars, since>>
  BY DEF TakeNext
<1>3. i \in Incident /\ created[i] \in Nat /\ pc[w] = "next"
  BY <1>0 DEF TakeNext, LocalsOK, PollOK, EnvOK
<1>4. CASE Decided(i)
  <2>1. result' = [result EXCEPT ![w] = NoResult]
    BY <1>0, <1>1, <1>3 DEF LocalsOK, PollOK
  <2>2. /\ PollOK'
        /\ processed' \in [Worker -> SUBSET Incident] /\ announced' \in [Worker -> SUBSET Incident]
        /\ \A v \in Worker : LocalsOK(v)'
    BY <2>1, <1>1, <1>2, <1>3, <1>4, FinishType
  <2>3. MemoryOK'
    BY <2>2, <1>0, <1>1, <1>2, <1>4 DEF MemoryOK, Finish, outageVars
  <2> QED BY <1>1, <2>2, <2>3 DEF TypeOK
<1>5. CASE ~Decided(i)
  <2>1. PollOK'
    BY <1>0, <1>1, <1>2, <1>3, <1>5 DEF PollOK, pollVars
  <2>3. MemoryOK'
    BY <1>0, <1>1, <1>2, <1>5 DEF MemoryOK, memoryVars, outageVars
  <2>2. ASSUME NEW v \in Worker PROVE LocalsOK(v)'
    BY <1>0, <1>1, <1>2, <1>3, <1>5 DEF LocalsOK, PollOK, pollVars, memoryVars
  <2> QED BY <1>1, <2>1, <2>2, <2>3 DEF TypeOK
<1> QED BY <1>4, <1>5

\* A record appended or refused leaves the log well typed.
LEMMA AppendType ==
  ASSUME LogOK, NEW i \in Incident, NEW r \in [kind : Kinds, at : Nat, tokens : Nat],
         AppendDecision(i, r) \/ UNCHANGED log, UNCHANGED claims
  PROVE  LogOK'
<1> DEFINE Row == [incident : Incident, kind : Kinds, at : Nat, tokens : Nat]
<1>1. Entry(i, r) \in Row
  BY DEF Entry
<1>2. log \in Seq(Row)
  BY DEF LogOK
<1>3. log' \in Seq(Row)
  <2> HIDE DEF Row
  <2>1. Append(log, Entry(i, r)) \in Seq(Row)
    BY <1>1, <1>2
  <2> QED BY <2>1, <1>2, Zenon DEF AppendDecision
<1> QED BY <1>3 DEF LogOK

\* A recorded skip finishes its incident.
LEMMA RecordSkipType ==
  ASSUME TypeOK, NEW w \in Worker, RecordSkip(w) PROVE TypeOK'
<1>0. EnvOK /\ LogOK /\ PollOK /\ MemoryOK /\ HistoryOK /\ \A v \in Worker : LocalsOK(v)
  BY DEF TypeOK
<1>1. cur[w] \in Incident /\ created[cur[w]] \in Nat /\ pc[w] = "gate"
  BY InHand DEF RecordSkip
<1>2. EnvOK'
  BY <1>0 DEF EnvOK, RecordSkip, Fault, envVars
<1>3. LogOK'
  <2>1. [kind |-> "skipped", at |-> clock, tokens |-> 0] \in [kind : Kinds, at : Nat, tokens : Nat]
    BY <1>0 DEF EnvOK, Kinds
  <2> QED BY <2>1, <1>0, <1>1, AppendType DEF RecordSkip
<1>4. HistoryOK' /\ UNCHANGED <<created, outageVars, result>>
  BY <1>0 DEF HistoryOK, RecordSkip, historyVars, envVars
<1>5. result' = [result EXCEPT ![w] = NoResult]
  BY <1>0, <1>1, <1>4 DEF LocalsOK, PollOK
<1>6. /\ PollOK'
      /\ processed' \in [Worker -> SUBSET Incident] /\ announced' \in [Worker -> SUBSET Incident]
      /\ \A v \in Worker : LocalsOK(v)'
  BY <1>1, <1>4, <1>5, FinishType DEF RecordSkip
<1>7. MemoryOK'
  BY <1>6, <1>0, <1>4 DEF MemoryOK, RecordSkip, Finish, outageVars
<1> QED BY <1>2, <1>3, <1>4, <1>6, <1>7 DEF TypeOK

\* A record, written or not, finishes its incident.
LEMMA RecordType ==
  ASSUME TypeOK, NEW w \in Worker, Record(w) PROVE TypeOK'
<1>0. EnvOK /\ LogOK /\ PollOK /\ MemoryOK /\ HistoryOK /\ \A v \in Worker : LocalsOK(v)
  BY DEF TypeOK
<1>1. cur[w] \in Incident /\ created[cur[w]] \in Nat /\ pc[w] = "record"
  BY InHand DEF Record
<1>2. EnvOK'
  BY <1>0 DEF EnvOK, Record, Fault, envVars
<1>3. LogOK'
  <2>1. result[w] \in [kind : Kinds, at : Nat, tokens : Nat]
    BY <1>0, <1>1 DEF LocalsOK, PollOK
  <2> QED BY <2>1, <1>0, <1>1, AppendType DEF Record
<1>4. HistoryOK'
  <2>1. lost' \in [Incident -> Nat]
    BY <1>0, <1>1 DEF HistoryOK, Record, LoseAnswer
  <2> QED BY <2>1, <1>0 DEF HistoryOK, Record
<1>5. /\ PollOK'
      /\ processed' \in [Worker -> SUBSET Incident] /\ announced' \in [Worker -> SUBSET Incident]
      /\ \A v \in Worker : LocalsOK(v)'
  BY <1>1, FinishType DEF Record, envVars
<1>6. MemoryOK'
  BY <1>5, <1>0 DEF MemoryOK, Record, Finish, outageVars
<1> QED BY <1>2, <1>3, <1>4, <1>5, <1>6 DEF TypeOK

\* An incident over a limit is set aside.
LEMMA WaitForAllowanceType ==
  ASSUME TypeOK, NEW w \in Worker, WaitForAllowance(w) PROVE TypeOK'
<1>0. EnvOK /\ LogOK /\ PollOK /\ MemoryOK /\ HistoryOK /\ \A v \in Worker : LocalsOK(v)
  BY DEF TypeOK
<1>1. cur[w] \in Incident /\ created[cur[w]] \in Nat /\ pc[w] # "record"
  BY InHand DEF WaitForAllowance
<1>2. EnvOK' /\ LogOK'
  BY <1>0 DEF EnvOK, LogOK, WaitForAllowance, Fault, envVars, logVars
<1>3. PollOK' /\ \A v \in Worker : LocalsOK(v)'
  BY <1>1, DeferType DEF WaitForAllowance, envVars
<1>4. MemoryOK'
  BY <1>0 DEF MemoryOK, WaitForAllowance, Defer, memoryVars, outageVars
<1>5. HistoryOK'
  BY <1>0 DEF HistoryOK, WaitForAllowance, historyVars
<1> QED BY <1>2, <1>3, <1>4, <1>5 DEF TypeOK

\* An incident whose events cannot be had is set aside.
LEMMA FetchFailsType ==
  ASSUME TypeOK, NEW w \in Worker, FetchFails(w) PROVE TypeOK'
<1>0. EnvOK /\ LogOK /\ PollOK /\ MemoryOK /\ HistoryOK /\ \A v \in Worker : LocalsOK(v)
  BY DEF TypeOK
<1>1. cur[w] \in Incident /\ created[cur[w]] \in Nat /\ pc[w] # "record"
  BY InHand DEF FetchFails
<1>2. EnvOK' /\ LogOK'
  BY <1>0 DEF EnvOK, LogOK, FetchFails, Fault, envVars, logVars
<1>3. PollOK' /\ \A v \in Worker : LocalsOK(v)'
  BY <1>1, DeferType DEF FetchFails, envVars
<1>4. MemoryOK'
  BY <1>0 DEF MemoryOK, FetchFails, Defer, memoryVars, outageVars
<1>5. HistoryOK'
  BY <1>0 DEF HistoryOK, FetchFails, historyVars
<1> QED BY <1>2, <1>3, <1>4, <1>5 DEF TypeOK

\* In an outage an incident is handed on and set aside.
LEMMA WaitForProviderType ==
  ASSUME TypeOK, NEW w \in Worker, WaitForProvider(w) PROVE TypeOK'
<1>0. EnvOK /\ LogOK /\ PollOK /\ MemoryOK /\ HistoryOK /\ \A v \in Worker : LocalsOK(v)
  BY DEF TypeOK
<1>1. cur[w] \in Incident /\ created[cur[w]] \in Nat /\ pc[w] # "record"
  BY InHand DEF WaitForProvider
<1>2. EnvOK' /\ LogOK'
  BY <1>0 DEF EnvOK, LogOK, WaitForProvider, Fault, envVars, logVars
<1>3. PollOK' /\ \A v \in Worker : LocalsOK(v)'
  BY <1>1, DeferType DEF WaitForProvider, envVars
<1>4. MemoryOK'
  <2>1. announced' \in [Worker -> SUBSET Incident]
    BY <1>0, <1>1 DEF MemoryOK, WaitForProvider, DeliverUnanalyzed
  <2> QED BY <2>1, <1>0 DEF MemoryOK, WaitForProvider, Defer, memoryVars, outageVars
<1>5. HistoryOK'
  <2>1. told' \in [Worker -> SUBSET Incident]
    BY <1>0, <1>1 DEF HistoryOK, WaitForProvider, DeliverUnanalyzed
  <2> QED BY <2>1, <1>0 DEF HistoryOK, WaitForProvider, historyVars
<1> QED BY <1>2, <1>3, <1>4, <1>5 DEF TypeOK

\* A call that fails sets its incident aside and starts a wait.
LEMMA ProviderUnavailableType ==
  ASSUME TypeOK, NEW w \in Worker, ProviderUnavailable(w) PROVE TypeOK'
<1>0. EnvOK /\ LogOK /\ PollOK /\ MemoryOK /\ HistoryOK /\ \A v \in Worker : LocalsOK(v)
  BY DEF TypeOK
<1>1. cur[w] \in Incident /\ created[cur[w]] \in Nat /\ pc[w] # "record"
  BY InHand DEF ProviderUnavailable
<1>2. EnvOK' /\ LogOK'
  <2>1. claims' \in [Incident -> {NoClaim} \cup [owner : Worker \X Nat, at : Nat]]
    BY <1>0, <1>1 DEF LogOK, ProviderUnavailable, ReleaseClaim
  <2> QED BY <2>1, <1>0 DEF EnvOK, LogOK, ProviderUnavailable, Fault, envVars
<1>3. PollOK' /\ \A v \in Worker : LocalsOK(v)'
  BY <1>1, DeferType DEF ProviderUnavailable, envVars
<1>4. MemoryOK'
  <2>1. announced' \in [Worker -> SUBSET Incident]
    BY <1>0, <1>1 DEF MemoryOK, ProviderUnavailable, DeliverUnanalyzed
  <2>2. backoff' \in [Worker -> Nat] /\ downUntil' \in [Worker -> Nat]
    BY <1>0, WorkerAssumption DEF MemoryOK, EnvOK, ProviderUnavailable, MaxOf
  <2> QED BY <2>1, <2>2, <1>0 DEF MemoryOK, ProviderUnavailable, Defer, memoryVars
<1>5. HistoryOK'
  <2>1. told' \in [Worker -> SUBSET Incident]
    BY <1>0, <1>1 DEF HistoryOK, ProviderUnavailable, DeliverUnanalyzed
  <2> QED BY <2>1, <1>0 DEF HistoryOK, ProviderUnavailable
<1> QED BY <1>2, <1>3, <1>4, <1>5 DEF TypeOK

\* A claim granted keeps the incident in hand; one refused sets it aside.
LEMMA ClaimType ==
  ASSUME TypeOK, NEW w \in Worker, Claim(w) PROVE TypeOK'
<1>0. EnvOK /\ LogOK /\ PollOK /\ MemoryOK /\ HistoryOK /\ \A v \in Worker : LocalsOK(v)
  BY DEF TypeOK
<1>1. cur[w] \in Incident /\ created[cur[w]] \in Nat /\ pc[w] = "claim"
  BY InHand DEF Claim
<1>2. EnvOK' /\ HistoryOK' /\ UNCHANGED <<log, result, created>>
  BY <1>0 DEF EnvOK, HistoryOK, Claim, envVars, historyVars
<1>3. MemoryOK'
  BY <1>0 DEF MemoryOK, Claim, Defer, memoryVars, outageVars
<1>4. CASE Defer(w, cur[w]) /\ UNCHANGED claims
  <2>1. PollOK' /\ \A v \in Worker : LocalsOK(v)'
    BY <1>1, <1>2, <1>4, DeferType
  <2> QED BY <2>1, <1>0, <1>2, <1>3, <1>4 DEF TypeOK, LogOK
<1>5. CASE \E now \in MaxOf(0, clock - LockWait)..clock :
             /\ claims' = [claims EXCEPT ![cur[w]] = [owner |-> Owner(w), at |-> now]]
             /\ since' = [since EXCEPT ![w] = clock]
             /\ pc' = [pc EXCEPT ![w] = "fetch"]
             /\ UNCHANGED <<cur, memoryVars, pollVars>>
  <2>1. LogOK'
    <3>1. PICK now \in MaxOf(0, clock - LockWait)..clock :
            claims' = [claims EXCEPT ![cur[w]] = [owner |-> Owner(w), at |-> now]]
      BY <1>5
    <3>2. now \in Nat
      BY <1>0, WorkerAssumption DEF EnvOK, MaxOf
    <3>3. [owner |-> Owner(w), at |-> now] \in [owner : Worker \X Nat, at : Nat]
      BY <3>2, <1>0 DEF MemoryOK, Owner
    <3>4. claims' \in [Incident -> {NoClaim} \cup [owner : Worker \X Nat, at : Nat]]
      BY <3>1, <3>3, <1>0, <1>1 DEF LogOK
    <3> QED BY <3>4, <1>0, <1>2 DEF LogOK
  <2>2. PollOK'
    BY <1>0, <1>1, <1>2, <1>5 DEF PollOK, EnvOK, pollVars
  <2>3. ASSUME NEW v \in Worker PROVE LocalsOK(v)'
    BY <1>0, <1>1, <1>2, <1>5 DEF LocalsOK, PollOK, pollVars, memoryVars
  <2> QED BY <2>1, <2>2, <2>3, <1>2, <1>3 DEF TypeOK
<1> QED BY <1>4, <1>5, Zenon DEF Claim

\* An answer is a result to record.
LEMMA AnsweredType ==
  ASSUME TypeOK, NEW w \in Worker, Answered(w) PROVE TypeOK'
<1>0. EnvOK /\ LogOK /\ PollOK /\ MemoryOK /\ HistoryOK /\ \A v \in Worker : LocalsOK(v)
  BY DEF TypeOK
<1>1. cur[w] \in Incident /\ pc[w] = "call"
  BY InHand DEF Answered
<1>2. EnvOK' /\ LogOK' /\ MemoryOK'
  BY <1>0 DEF EnvOK, LogOK, MemoryOK, Answered, MarkProviderUp, envVars, logVars, memoryVars
<1>3. PollOK'
  BY <1>0, WorkerAssumption DEF PollOK, EnvOK, Answered, Kinds, pollVars
<1>4. HistoryOK'
  <2>1. paid' \in [Incident -> Nat]
    BY <1>0, <1>1 DEF HistoryOK, Answered
  <2>2. analyzed' \in [Worker -> SUBSET Incident]
    BY <1>0, <1>1 DEF HistoryOK, Answered
  <2> QED BY <2>1, <2>2, <1>0 DEF HistoryOK, Answered, MarkProviderUp
<1>5. ASSUME NEW v \in Worker PROVE LocalsOK(v)'
  BY <1>0 DEF LocalsOK, PollOK, Answered, envVars, pollVars, memoryVars
<1> QED BY <1>2, <1>3, <1>4, <1>5 DEF TypeOK

\* The new cursor is a moment, and what is forgotten was remembered.
LEMMA EndPollType ==
  ASSUME TypeOK, NEW w \in Worker, EndPoll(w) PROVE TypeOK'
<1>0. EnvOK /\ LogOK /\ PollOK /\ MemoryOK /\ HistoryOK /\ \A v \in Worker : LocalsOK(v)
  BY DEF TypeOK
<1> DEFINE to == MinOfSet({newest[w]} \cup deferred[w])
<1>1. to \in Nat
  <2>1. {newest[w]} \cup deferred[w] \in SUBSET Nat
    BY <1>0 DEF PollOK
  <2> HIDE DEF to
  <2> QED BY <2>1, MinExists DEF to
<1>2. EnvOK' /\ LogOK' /\ HistoryOK'
  BY <1>0 DEF EnvOK, LogOK, HistoryOK, EndPoll, envVars, logVars, historyVars
<1>3. PollOK'
  BY <1>0 DEF PollOK, EndPoll
<1>4. MemoryOK'
  <2>1. cursor' = [cursor EXCEPT ![w] = to]
    BY DEF EndPoll
  <2>2. cursor' \in [Worker -> Nat]
    <3> HIDE DEF to
    <3> QED BY <2>1, <1>0, <1>1 DEF MemoryOK
  <2>3. processed' \in [Worker -> SUBSET Incident] /\ announced' \in [Worker -> SUBSET Incident]
    BY <1>0 DEF MemoryOK, EndPoll
  <2> QED BY <2>2, <2>3, <1>0 DEF MemoryOK, EndPoll, outageVars
<1>5. ASSUME NEW v \in Worker PROVE LocalsOK(v)'
  BY <1>0 DEF LocalsOK, PollOK, MemoryOK, EndPoll, envVars
<1> QED BY <1>2, <1>3, <1>4, <1>5 DEF TypeOK

\* A crash leaves nothing in hand.
LEMMA CrashType ==
  ASSUME TypeOK, NEW w \in Worker, Crash(w) PROVE TypeOK'
<1>0. EnvOK /\ LogOK /\ PollOK /\ MemoryOK /\ HistoryOK /\ \A v \in Worker : LocalsOK(v)
  BY DEF TypeOK
<1>1. EnvOK' /\ LogOK' /\ MemoryOK'
  BY <1>0 DEF EnvOK, LogOK, MemoryOK, Crash, Fault, envVars, logVars, memoryVars, outageVars
<1>2. pc' \in [Worker -> {"stopped", "idle", "next", "gate", "claim", "fetch", "call", "record"}]
  BY <1>0 DEF PollOK, Crash
<1>3. cur' \in [Worker -> Incident \cup {Absent}] /\ since' \in [Worker -> Nat]
  BY <1>0 DEF PollOK, Crash, Drop
<1>4. PollOK'
  BY <1>0, <1>2, <1>3 DEF PollOK, Crash, NoResult
<1>5. HistoryOK'
  <2>1. paid' \in [Incident -> Nat] /\ lost' \in [Incident -> Nat]
    BY <1>0 DEF HistoryOK, Crash, LoseAnswer
  <2> QED BY <2>1, <1>0 DEF HistoryOK, Crash
<1>6. ASSUME NEW v \in Worker PROVE LocalsOK(v)'
  <2>1. CASE v = w
    BY <2>1, <1>0 DEF LocalsOK, PollOK, Crash, Drop
  <2>2. CASE v # w
    <3>1. /\ todo'[v] = todo[v] /\ pc'[v] = pc[v] /\ cur'[v] = cur[v] /\ result'[v] = result[v]
          /\ processed' = processed /\ created' = created
      BY <2>2, <1>0 DEF PollOK, Crash, Drop, memoryVars, envVars
    <3> QED BY <3>1, <1>0 DEF LocalsOK
  <2> QED BY <2>1, <2>2
<1> QED BY <1>1, <1>4, <1>5, <1>6 DEF TypeOK

\* New incidents and the passing of time keep everything well typed.
LEMMA EnvironmentType ==
  ASSUME TypeOK, (\E i \in Incident : Appear(i)) \/ Tick PROVE TypeOK'
<1>0. EnvOK /\ LogOK /\ PollOK /\ MemoryOK /\ HistoryOK /\ \A v \in Worker : LocalsOK(v)
  BY DEF TypeOK
<1>1. LogOK' /\ PollOK' /\ MemoryOK' /\ HistoryOK'
  BY <1>0 DEF LogOK, PollOK, MemoryOK, HistoryOK, Appear, Tick, logVars, pollVars, memoryVars,
    outageVars, historyVars
<1>2. EnvOK'
  BY <1>0, WorkerAssumption DEF EnvOK, Appear, Tick, MaxOf
<1>3. ASSUME NEW v \in Worker PROVE LocalsOK(v)'
  BY <1>0, WorkerAssumption DEF LocalsOK, PollOK, EnvOK, Appear, Tick, MaxOf, Absent, pollVars, memoryVars
<1> QED BY <1>1, <1>2, <1>3 DEF TypeOK

\* Every step keeps the types.
LEMMA NextType ==
  ASSUME TypeOK, [Next]_vars PROVE TypeOK'
<1>1. CASE (\E i \in Incident : Appear(i)) \/ Tick
  BY <1>1, EnvironmentType
<1>2. ASSUME NEW w \in Worker, Start(w) \/ PollStep(w) \/ FaultStep(w) PROVE TypeOK'
  BY <1>2, StartType, PollType, TakeNextType, RecordSkipType, WaitForProviderType,
    WaitForAllowanceType, PassGateType, ClaimType, FetchType, AnsweredType, RecordType,
    EndPollType, FetchFailsType, NoCallType, ProviderUnavailableType, CrashType
    DEF PollStep, FaultStep
<1>3. CASE UNCHANGED vars
  BY <1>3 DEF vars, TypeOK, EnvOK, LogOK, PollOK, MemoryOK, HistoryOK, LocalsOK, envVars, logVars,
    pollVars, memoryVars, outageVars, historyVars
<1> QED BY <1>1, <1>2, <1>3 DEF Next

\* The state of the workers and of the log stays well typed; in particular the
\* incident in hand is one of the poll's, and not one already dealt with.
THEOREM TypeCorrect == Spec => []TypeOK
<1>1. TypeOK /\ [Next]_vars => TypeOK'
  BY NextType
<1> QED BY <1>1, InitType, PTL DEF Spec

(***************************************************************************)
(* Payments and claims                                                     *)
(***************************************************************************)

WorkerStep(w) == Start(w) \/ PollStep(w) \/ FaultStep(w)

-----------------------------------------------------------------------------
(* What every step does to the log and to the other workers. *)

\* An append that the log accepts, or refuses as a duplicate, leaves its incident
\* decided.
LEMMA AppendDecides ==
  ASSUME LogOK, NEW i, NEW r, AppendDecision(i, r)
  PROVE  Decided(i)' /\ \A j : Decided(j) => Decided(j)'
<1>1. CASE Decided(i)
  BY <1>1 DEF AppendDecision, Decided
<1>2. CASE ~Decided(i)
  <2>1. log' = Append(log, Entry(i, r)) /\ log \in Seq([incident : Incident, kind : Kinds, at : Nat, tokens : Nat])
    BY <1>2 DEF AppendDecision, LogOK
  <2>2. Len(log) + 1 \in DOMAIN log' /\ log'[Len(log) + 1] = Entry(i, r)
    BY <2>1
  <2>3. \A n \in DOMAIN log : n \in DOMAIN log' /\ log'[n] = log[n]
    BY <2>1
  <2>4. Entry(i, r).incident = i
    BY DEF Entry
  <2> QED BY <2>2, <2>3, <2>4 DEF Decided
<1> QED BY <1>1, <1>2

\* Nothing un-decides an incident: the log only grows.
LEMMA DecidedStays ==
  ASSUME TypeOK, NEW w \in Worker, WorkerStep(w), NEW i
  PROVE  Decided(i) => Decided(i)'
<1>1. LogOK
  BY DEF TypeOK
<1>2. CASE UNCHANGED log
  BY <1>2 DEF Decided
<1>3. CASE RecordSkip(w) \/ Record(w)
  BY <1>1, <1>2, <1>3, AppendDecides DEF RecordSkip, Record
<1> QED
  BY <1>2, <1>3 DEF WorkerStep, PollStep, FaultStep, Start, Poll, TakeNext, WaitForProvider,
    WaitForAllowance, PassGate, Claim, Fetch, Answered, EndPoll, FetchFails, AnalysisImpossible,
    ReplyBreaksParser, RecordNoCall, ProviderUnavailable, Crash, logVars

\* A step of one worker leaves the locals of the others alone, and the clock.
LEMMA OthersUntouched ==
  ASSUME TypeOK, NEW w \in Worker, NEW v \in Worker \ {w}, WorkerStep(w)
  PROVE  /\ pc'[v] = pc[v] /\ cur'[v] = cur[v] /\ since'[v] = since[v] /\ epoch'[v] = epoch[v]
         /\ result'[v] = result[v] /\ todo'[v] = todo[v] /\ deferred'[v] = deferred[v]
         /\ newest'[v] = newest[v] /\ start'[v] = start[v] /\ cursor'[v] = cursor[v]
         /\ processed'[v] = processed[v] /\ UNCHANGED <<clock, created>>
<1>0. PollOK /\ MemoryOK
  BY DEF TypeOK
<1> USE <1>0 DEF PollOK, MemoryOK, envVars, pollVars, memoryVars
<1>1. CASE Start(w)       BY <1>1 DEF Start
<1>2. CASE Poll(w)        BY <1>2 DEF Poll
<1>3. CASE TakeNext(w)    BY <1>3 DEF TakeNext, Finish, Drop
<1>4. CASE RecordSkip(w)  BY <1>4 DEF RecordSkip, Finish, Drop
<1>5. CASE WaitForProvider(w) \/ WaitForAllowance(w)
  BY <1>5 DEF WaitForProvider, WaitForAllowance, Defer, Drop
<1>6. CASE PassGate(w) \/ Fetch(w)  BY <1>6 DEF PassGate, Fetch
<1>7. CASE Claim(w)
  <2>1. CASE Defer(w, cur[w])
    BY <1>7, <2>1 DEF Claim, Defer, Drop
  <2>2. CASE ~Defer(w, cur[w])
    BY <1>7, <2>2 DEF Claim
  <2> QED BY <2>1, <2>2
<1>8. CASE Answered(w) \/ AnalysisImpossible(w) \/ ReplyBreaksParser(w)
  BY <1>8 DEF Answered, AnalysisImpossible, ReplyBreaksParser, RecordNoCall
<1>9. CASE Record(w)      BY <1>9 DEF Record, Finish, Drop
<1>10. CASE EndPoll(w)    BY <1>10 DEF EndPoll
<1>11. CASE FetchFails(w) \/ ProviderUnavailable(w)
  BY <1>11 DEF FetchFails, ProviderUnavailable, Defer, Drop
<1>12. CASE Crash(w)      BY <1>12 DEF Crash, Drop
<1> QED
  BY <1>1, <1>2, <1>3, <1>4, <1>5, <1>6, <1>7, <1>8, <1>9, <1>10, <1>11, <1>12
  DEF WorkerStep, PollStep, FaultStep

-----------------------------------------------------------------------------
(* One paid analysis per decision. *)

\* While a worker analyses, the claim is its own and its lease cannot have
\* run out.
ClaimHeld(w) ==
  Busy(w) =>
    /\ claims[cur[w]].owner = Owner(w)
    /\ since[w] <= claims[cur[w]].at + LockWait
    /\ clock <= since[w] + AnalysisTime

\* Until its answer comes, nothing is paid for its incident that is not lost.
NothingPaidYet(w) ==
  Busy(w) /\ result[w].kind # "analysis" => paid[cur[w]] <= lost[cur[w]]

\* Nor for an incident undecided and in nobody's hands.
NothingPaidFor(i) ==
  ~Decided(i) /\ (\A w \in Worker : Busy(w) => cur[w] # i) => paid[i] <= lost[i]

PaymentInv ==
  /\ TypeOK
  /\ \A w \in Worker : ClaimHeld(w) /\ NothingPaidYet(w)
  /\ \A i \in Incident : NothingPaidFor(i)
  /\ RebilledOnlyAfterLoss

\* So no two workers analyse one incident at a time.
LEMMA Alone ==
  ASSUME NEW v \in Worker, NEW w \in Worker, Busy(v), Busy(w), cur[v] = cur[w],
         ClaimHeld(v), ClaimHeld(w)
  PROVE  v = w
BY DEF ClaimHeld, Owner

\* A claim that another worker's analysis rests on is not granted.
LEMMA NotGranted ==
  ASSUME TypeOK, NEW w \in Worker, NEW v \in Worker \ {w}, Busy(v), ClaimHeld(v),
         NEW now \in MaxOf(0, clock - LockWait)..clock
  PROVE  ~Claimable(cur[v], Owner(w), now)
<1>1. cur[v] \in Incident
  BY InHand DEF Busy
<1>2. /\ claims[cur[v]] \in {NoClaim} \cup [owner : Worker \X Nat, at : Nat]
      /\ clock \in Nat /\ since[v] \in Nat
  BY <1>1 DEF TypeOK, LogOK, EnvOK, PollOK
<1>3. claims[cur[v]] # NoClaim /\ claims[cur[v]].owner # Owner(w)
  <2>1. claims[cur[v]].owner = <<v, epoch[v]>>
    BY DEF ClaimHeld, Owner
  <2>2. NoClaim.owner = <<>> /\ <<>> # <<v, epoch[v]>>
    BY DEF NoClaim
  <2>3. <<v, epoch[v]>> # <<w, epoch[w]>>
    OBVIOUS
  <2> QED BY <2>1, <2>2, <2>3, Zenon DEF Owner
<1>4. claims[cur[v]].at \in Nat
  BY <1>2, <1>3
<1>5. now \in Int /\ now <= clock
  BY <1>2, WorkerAssumption DEF MaxOf
<1>6. now - claims[cur[v]].at < Lease
  BY <1>2, <1>4, <1>5, WorkerAssumption, LeaseOutlivesAnalysis DEF ClaimHeld
<1> QED BY <1>2, <1>3, <1>4, <1>5, <1>6, WorkerAssumption DEF Claimable

\* The steps in which a worker neither holds nor takes a claim.
Quiet(w) ==
  \/ Start(w) \/ Poll(w) \/ TakeNext(w) \/ RecordSkip(w) \/ WaitForProvider(w)
  \/ WaitForAllowance(w) \/ PassGate(w) \/ EndPoll(w) \/ (Crash(w) /\ ~Busy(w))

\* Such a step leaves the worker without a claim, and claims and payments alone.
LEMMA QuietSteps ==
  ASSUME TypeOK, NEW w \in Worker, Quiet(w)
  PROVE  ~Busy(w) /\ ~Busy(w)' /\ UNCHANGED <<claims, paid, lost>>
<1>0. PollOK
  BY DEF TypeOK
<1> USE <1>0 DEF Busy, PollOK, logVars, historyVars
<1>1. CASE Start(w) \/ Poll(w)
  BY <1>1 DEF Start, Poll
<1>2. CASE TakeNext(w)
  BY <1>2 DEF TakeNext, Finish
<1>3. CASE RecordSkip(w)
  BY <1>3 DEF RecordSkip, Finish
<1>4. CASE WaitForProvider(w) \/ WaitForAllowance(w)
  BY <1>4 DEF WaitForProvider, WaitForAllowance, Defer
<1>5. CASE PassGate(w) \/ EndPoll(w)
  BY <1>5 DEF PassGate, EndPoll
<1>6. CASE Crash(w) /\ ~Busy(w)
  BY <1>6 DEF Crash
<1> QED BY <1>1, <1>2, <1>3, <1>4, <1>5, <1>6 DEF Quiet

\* The steps in which it lets go of the incident in hand.
LettingGo(w) == FetchFails(w) \/ ProviderUnavailable(w) \/ Record(w) \/ Crash(w)

\* Claims survive every step: each worker that analyses holds its incident's claim,
\* unexpired for as long as the call can take.
LEMMA ClaimsInv ==
  ASSUME PaymentInv, [Next]_vars, NEW v \in Worker
  PROVE  ClaimHeld(v)'
<1>0. TypeOK /\ PollOK /\ LogOK /\ EnvOK /\ MemoryOK /\ ClaimHeld(v)
  BY DEF PaymentInv, TypeOK
<1>1. CASE \E i \in Incident : Appear(i)
  BY <1>0, <1>1 DEF Appear, ClaimHeld, Busy, Owner, logVars, memoryVars
<1>2. CASE Tick
  BY <1>0, <1>2, WorkerAssumption
  DEF Tick, ClaimHeld, Busy, Owner, logVars, memoryVars, EnvOK, PollOK
<1>3. CASE UNCHANGED vars
  BY <1>0, <1>3 DEF vars, ClaimHeld, Busy, Owner, logVars, memoryVars, envVars
<1>4. ASSUME NEW w \in Worker, WorkerStep(w) PROVE ClaimHeld(v)'
  <2>1. CASE w # v
    <3>1. /\ pc'[v] = pc[v] /\ cur'[v] = cur[v] /\ since'[v] = since[v] /\ epoch'[v] = epoch[v]
          /\ clock' = clock
      BY <1>0, <1>4, <2>1, OthersUntouched
    <3>2. Busy(v) => claims'[cur[v]] = claims[cur[v]]
      <4> SUFFICES ASSUME Busy(v) PROVE claims'[cur[v]] = claims[cur[v]]
        OBVIOUS
      <4>1. CASE Claim(w)
        <5>1. CASE cur[w] = cur[v]
          <6>1. \A now \in MaxOf(0, clock - LockWait)..clock : ~Claimable(cur[w], Owner(w), now)
            BY <1>0, <2>1, <5>1, NotGranted
          <6> QED BY <4>1, <6>1 DEF Claim
        <5>2. CASE cur[w] # cur[v]
          <6>1. cur[w] \in Incident /\ cur[v] \in Incident
            BY <1>0, <4>1, InHand DEF Claim, Busy
          <6>2. PICK now \in MaxOf(0, clock - LockWait)..clock :
                  \/ claims' = [claims EXCEPT ![cur[w]] = [owner |-> Owner(w), at |-> now]]
                  \/ UNCHANGED claims
            BY <4>1 DEF Claim
          <6> QED BY <1>0, <5>2, <6>1, <6>2 DEF LogOK
        <5> QED BY <5>1, <5>2
      <4>2. CASE ProviderUnavailable(w)
        <5>1. cur[w] \in Incident /\ cur[v] \in Incident
          BY <1>0, <4>2, InHand DEF ProviderUnavailable, Busy
        <5>2. cur[w] = cur[v] => claims[cur[w]].owner # Owner(w)
          BY <1>0, <2>1 DEF ClaimHeld, Owner
        <5> QED BY <1>0, <4>2, <5>1, <5>2 DEF ProviderUnavailable, ReleaseClaim, LogOK
      <4>3. CASE ~Claim(w) /\ ~ProviderUnavailable(w)
        BY <1>0, <1>4, <4>3, QuietSteps DEF WorkerStep, PollStep, FaultStep, Quiet, Fetch, Answered,
          Record, FetchFails, AnalysisImpossible, ReplyBreaksParser, RecordNoCall, Crash, logVars
      <4> QED BY <4>1, <4>2, <4>3
    <3> QED BY <1>0, <3>1, <3>2 DEF ClaimHeld, Busy, Owner
  <2>2. CASE w = v
    <3>1. CASE Claim(w)
      <4>1. cur[w] \in Incident
        BY <1>0, <3>1, InHand DEF Claim
      <4>2. PICK now \in MaxOf(0, clock - LockWait)..clock :
              IF Claimable(cur[w], Owner(w), now)
              THEN /\ claims' = [claims EXCEPT ![cur[w]] = [owner |-> Owner(w), at |-> now]]
                   /\ since' = [since EXCEPT ![w] = clock]
                   /\ pc' = [pc EXCEPT ![w] = "fetch"]
                   /\ UNCHANGED <<cur, memoryVars, pollVars>>
              ELSE Defer(w, cur[w]) /\ UNCHANGED claims
        BY <3>1 DEF Claim
      <4>3. CASE Claimable(cur[w], Owner(w), now)
        <5>1. clock - LockWait <= now /\ now \in Nat /\ clock \in Nat
          BY <1>0, WorkerAssumption DEF EnvOK, MaxOf
        <5>2. /\ claims'[cur'[w]] = [owner |-> Owner(w), at |-> now] /\ since'[w] = clock
              /\ epoch' = epoch /\ clock' = clock
          BY <1>0, <3>1, <4>1, <4>2, <4>3 DEF LogOK, PollOK, Claim, memoryVars, envVars
        <5>3. claims'[cur'[w]].owner = Owner(w)' /\ claims'[cur'[w]].at = now
          BY <5>2 DEF Owner
        <5> QED BY <2>2, <5>1, <5>2, <5>3, WorkerAssumption DEF ClaimHeld
      <4>4. CASE ~Claimable(cur[w], Owner(w), now)
        BY <1>0, <2>2, <4>2, <4>4 DEF Defer, ClaimHeld, Busy, PollOK
      <4> QED BY <4>3, <4>4
    <3>2. CASE Fetch(w) \/ Answered(w) \/ AnalysisImpossible(w) \/ ReplyBreaksParser(w)
      BY <1>0, <2>2, <3>2 DEF Fetch, Answered, AnalysisImpossible, ReplyBreaksParser, RecordNoCall,
        ClaimHeld, Busy, Owner, PollOK, logVars, memoryVars, envVars
    <3>3. CASE LettingGo(w)
      BY <1>0, <2>2, <3>3 DEF LettingGo, FetchFails, ProviderUnavailable, Record, Crash, Defer, Finish,
        ClaimHeld, Busy, PollOK
    <3>4. CASE Quiet(w)
      BY <1>0, <2>2, <3>4, QuietSteps DEF ClaimHeld
    <3> QED BY <1>4, <3>1, <3>2, <3>3, <3>4 DEF WorkerStep, PollStep, FaultStep, LettingGo, Quiet
  <2> QED BY <2>1, <2>2
<1> QED BY <1>1, <1>2, <1>3, <1>4 DEF Next, WorkerStep

\* What a step of a worker that is analysing an incident does to its account.
LEMMA BusyStep ==
  ASSUME PaymentInv, NEW w \in Worker, Busy(w), WorkerStep(w), NEW i, i = cur[w]
  PROVE  /\ \A j \in Incident \ {i} : paid'[j] = paid[j] /\ lost'[j] = lost[j]
         /\ paid'[i] <= 1 + lost'[i]
         /\ Busy(w)' => /\ cur'[w] = i
                        /\ result'[w].kind # "analysis" => paid'[i] <= lost'[i]
         /\ ~Busy(w)' => paid'[i] <= lost'[i] \/ Decided(i)'
<1>0. TypeOK /\ PollOK /\ LogOK /\ HistoryOK /\ LocalsOK(w)
  BY DEF PaymentInv, TypeOK
<1>1. i \in Incident /\ paid[i] \in Nat /\ lost[i] \in Nat
  BY <1>0, InHand DEF Busy, HistoryOK
<1>2. paid[i] <= 1 + lost[i] /\ (result[w].kind # "analysis" => paid[i] <= lost[i])
  BY <1>1 DEF PaymentInv, RebilledOnlyAfterLoss, NothingPaidYet
<1>3. pc[w] # "record" => paid[i] <= lost[i]
  BY <1>0, <1>2 DEF LocalsOK, NoResult
<1>4. CASE Fetch(w) \/ AnalysisImpossible(w)
  <2>1. UNCHANGED <<cur, paid, lost>>
    BY <1>4 DEF Fetch, AnalysisImpossible, RecordNoCall, historyVars
  <2>2. pc[w] # "record"
    BY <1>4 DEF Fetch, AnalysisImpossible
  <2> QED BY <2>1, <2>2, <1>2, <1>3
<1>5. CASE Answered(w)
  <2>1. /\ UNCHANGED <<cur, lost>> /\ paid' = [paid EXCEPT ![i] = @ + 1] /\ pc[w] = "call"
        /\ pc'[w] = "record" /\ result'[w].kind = "analysis"
    BY <1>0, <1>5 DEF Answered, PollOK
  <2>2. paid'[i] = paid[i] + 1 /\ \A j \in Incident \ {i} : paid'[j] = paid[j]
    BY <2>1, <1>0, <1>1 DEF HistoryOK
  <2> QED BY <2>1, <2>2, <1>1, <1>3 DEF Busy
<1>6. CASE FetchFails(w) \/ ProviderUnavailable(w)
  <2>1. UNCHANGED <<paid, lost>> /\ pc[w] # "record" /\ pc'[w] = "next"
    BY <1>0, <1>6 DEF FetchFails, ProviderUnavailable, Defer, historyVars, PollOK
  <2> QED BY <2>1, <1>2, <1>3 DEF Busy
<1>7. CASE Record(w)
  <2>1. pc'[w] = "next" /\ UNCHANGED paid
    BY <1>0, <1>7 DEF Record, Finish, PollOK
  <2>2. CASE AppendDecision(i, result[w]) /\ UNCHANGED lost
    <3>1. Decided(i)'
      BY <2>2, <1>0, AppendDecides
    <3> QED BY <2>1, <2>2, <3>1, <1>2 DEF Busy
  <2>3. CASE LoseAnswer(w)
    <3>1. \A j \in Incident \ {i} : lost'[j] = lost[j]
      BY <2>3, <1>0 DEF LoseAnswer, HistoryOK
    <3>2. paid[i] <= lost'[i] /\ lost'[i] \in Nat
      BY <2>3, <1>0, <1>1, <1>2 DEF LoseAnswer, HistoryOK
    <3> QED BY <2>1, <3>1, <3>2, <1>1 DEF Busy
  <2> QED BY <1>7, <2>2, <2>3 DEF Record
<1>8. CASE Crash(w)
  <2>1. pc'[w] = "stopped"
    BY <1>0, <1>8 DEF Crash, PollOK
  <2>2. CASE pc[w] # "record" /\ UNCHANGED <<paid, lost>>
    BY <2>1, <2>2, <1>2, <1>3 DEF Busy
  <2>3. CASE /\ pc[w] = "call" /\ paid' = [paid EXCEPT ![i] = @ + 1]
             /\ lost' = [lost EXCEPT ![i] = @ + 1]
    <3>1. \A j \in Incident \ {i} : paid'[j] = paid[j] /\ lost'[j] = lost[j]
      BY <2>3, <1>0 DEF HistoryOK
    <3>2. paid'[i] = paid[i] + 1 /\ lost'[i] = lost[i] + 1
      BY <2>3, <1>0, <1>1 DEF HistoryOK
    <3> QED BY <2>1, <2>3, <3>1, <3>2, <1>1, <1>3 DEF Busy
  <2>4. CASE LoseAnswer(w) /\ UNCHANGED paid
    <3>1. \A j \in Incident \ {i} : lost'[j] = lost[j]
      BY <2>4, <1>0 DEF LoseAnswer, HistoryOK
    <3>2. paid[i] <= lost'[i] /\ lost'[i] \in Nat
      BY <2>4, <1>0, <1>1, <1>2 DEF LoseAnswer, HistoryOK
    <3> QED BY <2>1, <2>4, <3>1, <3>2, <1>1 DEF Busy
  <2> QED BY <1>8, <2>2, <2>3, <2>4 DEF Crash
<1>9. CASE ReplyBreaksParser(w)
  <2>1. cur' = cur /\ pc[w] # "record" /\ pc'[w] = "record"
    BY <1>0, <1>9 DEF ReplyBreaksParser, RecordNoCall, PollOK
  <2>2. \A j \in Incident \ {i} : paid'[j] = paid[j] /\ lost'[j] = lost[j]
    BY <1>0, <1>9 DEF ReplyBreaksParser, HistoryOK
  <2>3. paid'[i] = paid[i] + 1 /\ lost'[i] = lost[i] + 1
    BY <1>0, <1>1, <1>9 DEF ReplyBreaksParser, HistoryOK
  <2> QED BY <2>1, <2>2, <2>3, <1>1, <1>3 DEF Busy
<1>10. ~Quiet(w) /\ ~Claim(w)
  BY <1>0, QuietSteps DEF Claim, Busy
<1> QED
  BY <1>4, <1>5, <1>6, <1>7, <1>8, <1>9, <1>10 DEF WorkerStep, PollStep, FaultStep, Quiet

\* Only an undecided incident in nobody's hands is claimed.
LEMMA ClaimStep ==
  ASSUME PaymentInv, NEW w \in Worker, Claim(w)
  PROVE  /\ UNCHANGED <<paid, lost, log>> /\ ~Busy(w)
         /\ Busy(w)' => /\ cur'[w] = cur[w] /\ cur[w] \in Incident
                        /\ ~Decided(cur[w])
                        /\ \A v \in Worker \ {w} : Busy(v) => cur[v] # cur[w]
<1>0. TypeOK /\ PollOK
  BY DEF PaymentInv, TypeOK
<1>1. UNCHANGED <<paid, lost, log>> /\ ~Busy(w) /\ cur[w] \in Incident
  BY <1>0, InHand DEF Claim, Busy, historyVars
<1>2. PICK now \in MaxOf(0, clock - LockWait)..clock :
        IF Claimable(cur[w], Owner(w), now)
        THEN pc' = [pc EXCEPT ![w] = "fetch"] /\ UNCHANGED cur
        ELSE Defer(w, cur[w])
  BY DEF Claim
<1>3. CASE Claimable(cur[w], Owner(w), now)
  <2>1. \A v \in Worker \ {w} : Busy(v) => cur[v] # cur[w]
    BY <1>0, <1>3, NotGranted DEF PaymentInv
  <2> QED BY <1>1, <1>2, <1>3, <2>1 DEF Claimable
<1>4. CASE ~Claimable(cur[w], Owner(w), now)
  BY <1>0, <1>1, <1>2, <1>4 DEF Defer, Busy, PollOK
<1> QED BY <1>3, <1>4

\* The accounts survive every step: what was paid for is decided, in hand, or lost.
LEMMA AccountsInv ==
  ASSUME PaymentInv, [Next]_vars
  PROVE  /\ (\A v \in Worker : NothingPaidYet(v))' /\ (\A i \in Incident : NothingPaidFor(i))'
         /\ RebilledOnlyAfterLoss'
<1>0. /\ TypeOK /\ HistoryOK /\ RebilledOnlyAfterLoss
      /\ \A v \in Worker : NothingPaidYet(v) /\ ClaimHeld(v)
      /\ \A i \in Incident : NothingPaidFor(i)
  BY DEF PaymentInv, TypeOK
<1>1. CASE UNCHANGED <<pc, cur, result, paid, lost, log>>
  BY <1>0, <1>1 DEF NothingPaidYet, NothingPaidFor, RebilledOnlyAfterLoss, Busy, Decided
<1>2. ASSUME NEW w \in Worker, WorkerStep(w)
      PROVE  /\ \A v \in Worker : NothingPaidYet(v)' /\ \A i \in Incident : NothingPaidFor(i)'
             /\ RebilledOnlyAfterLoss'
  <2>1. \A v \in Worker \ {w} :
          /\ Busy(v)' <=> Busy(v)
          /\ cur'[v] = cur[v] /\ result'[v] = result[v]
    BY <1>0, <1>2, OthersUntouched DEF Busy
  <2>2. \A i \in Incident : Decided(i) => Decided(i)'
    BY <1>0, <1>2, DecidedStays
  <2>3. \A v \in Worker : Busy(v) => cur[v] \in Incident
    BY <1>0, InHand DEF Busy
  <2>4. CASE Quiet(w)
    <3>1. ~Busy(w) /\ ~Busy(w)' /\ UNCHANGED <<paid, lost>>
      BY <1>0, <2>4, QuietSteps
    <3> QED BY <1>0, <2>1, <2>2, <3>1 DEF NothingPaidYet, NothingPaidFor, RebilledOnlyAfterLoss
  <2>5. CASE Claim(w)
    <3>1. /\ UNCHANGED <<paid, lost, log>> /\ ~Busy(w)
          /\ Busy(w)' => /\ cur'[w] = cur[w] /\ cur[w] \in Incident
                         /\ ~Decided(cur[w])
                         /\ \A v \in Worker \ {w} : Busy(v) => cur[v] # cur[w]
      BY <2>5, ClaimStep
    <3>2. Busy(w)' => paid[cur[w]] <= lost[cur[w]]
      BY <1>0, <3>1 DEF NothingPaidFor
    <3> QED BY <1>0, <2>1, <2>2, <3>1, <3>2
        DEF NothingPaidYet, NothingPaidFor, RebilledOnlyAfterLoss
  <2>6. CASE Busy(w)
    <3>0. PICK i \in Incident : i = cur[w]
      BY <2>3, <2>6
    <3>1. /\ \A j \in Incident \ {i} : paid'[j] = paid[j] /\ lost'[j] = lost[j]
          /\ paid'[i] <= 1 + lost'[i]
          /\ Busy(w)' => /\ cur'[w] = i
                         /\ result'[w].kind # "analysis" => paid'[i] <= lost'[i]
          /\ ~Busy(w)' => paid'[i] <= lost'[i] \/ Decided(i)'
      BY <1>2, <2>6, <3>0, BusyStep
    <3>2. \A v \in Worker \ {w} : Busy(v) => cur[v] \in Incident \ {i}
      BY <1>0, <2>3, <2>6, <3>0, Alone
    <3>3. ASSUME NEW v \in Worker PROVE NothingPaidYet(v)'
      BY <1>0, <2>1, <3>1, <3>2 DEF NothingPaidYet
    <3>4. ASSUME NEW j \in Incident PROVE NothingPaidFor(j)'
      <4>1. CASE j = i
        BY <3>1, <4>1 DEF NothingPaidFor
      <4>2. CASE j # i
        BY <1>0, <2>1, <2>2, <2>6, <3>0, <3>1, <4>2 DEF NothingPaidFor
      <4> QED BY <4>1, <4>2
    <3>5. RebilledOnlyAfterLoss'
      BY <1>0, <3>1 DEF RebilledOnlyAfterLoss
    <3> QED BY <3>3, <3>4, <3>5
  <2>7. Quiet(w) \/ Claim(w) \/ Busy(w)
    BY <1>2 DEF WorkerStep, PollStep, FaultStep, Quiet, Fetch, Answered, Record, FetchFails,
      AnalysisImpossible, ReplyBreaksParser, RecordNoCall, ProviderUnavailable, Crash, Busy
  <2> QED BY <2>4, <2>5, <2>6, <2>7
<1>3. CASE (\E i \in Incident : Appear(i)) \/ Tick \/ UNCHANGED vars
  BY <1>1, <1>3 DEF Appear, Tick, vars, logVars, historyVars
<1> QED BY <1>2, <1>3 DEF Next, WorkerStep

LEMMA InitPayment == Init => PaymentInv
<1> SUFFICES ASSUME Init PROVE PaymentInv
  OBVIOUS
<1>1. TypeOK
  BY InitType
<1> QED BY <1>1 DEF Init, PaymentInv, ClaimHeld, NothingPaidYet, NothingPaidFor, Busy,
      RebilledOnlyAfterLoss

\* Over all workers, crashes and restarts, a decision costs one paid analysis
\* and one more for every answer lost before it reached the log.
THEOREM PaidOnce == Spec => []RebilledOnlyAfterLoss
<1>1. Init => PaymentInv
  BY InitPayment
<1>2. PaymentInv /\ [Next]_vars => PaymentInv'
  BY NextType, ClaimsInv, AccountsInv DEF PaymentInv
<1>3. PaymentInv => RebilledOnlyAfterLoss
  BY DEF PaymentInv
<1> QED BY <1>1, <1>2, <1>3, PTL DEF Spec

-----------------------------------------------------------------------------
(* No analysis is appended to a decided incident. *)

\* What one worker's policy skips, every other's skips as well.
PoliciesAgree == \A v, w \in Worker : Uncorrelated[v] = Uncorrelated[w]

\* What a worker claims is nobody's to skip, and stays undecided in its hands.
Undecided(w) ==
  /\ pc[w] = "claim" \/ Busy(w) => cur[w] \notin Uncorrelated[w]
  /\ Busy(w) => ~Decided(cur[w])

\* An append decides no other incident.
LEMMA AppendDecidesOnly ==
  ASSUME LogOK, NEW i, NEW r, AppendDecision(i, r), NEW j, Decided(j)', j # i
  PROVE  Decided(j)
<1>1. CASE Decided(i)
  BY <1>1 DEF AppendDecision, Decided
<1>2. CASE ~Decided(i)
  <2>1. log' = Append(log, Entry(i, r)) /\ log \in Seq([incident : Incident, kind : Kinds, at : Nat, tokens : Nat])
    BY <1>2 DEF AppendDecision, LogOK
  <2>2. PICK n \in DOMAIN log' : log'[n].incident = j
    BY DEF Decided
  <2>3. n # Len(log) + 1
    BY <2>1, <2>2 DEF Entry
  <2>4. n \in DOMAIN log /\ log'[n] = log[n]
    BY <2>1, <2>2, <2>3
  <2> QED BY <2>2, <2>4 DEF Decided
<1> QED BY <1>1, <1>2

\* Only these two steps append.
LEMMA LogSteps ==
  ASSUME NEW w \in Worker, WorkerStep(w), ~RecordSkip(w), ~Record(w)
  PROVE  UNCHANGED log
BY DEF WorkerStep, PollStep, FaultStep, Start, Poll, TakeNext, WaitForProvider, WaitForAllowance,
  PassGate, Claim, Fetch, Answered, EndPoll, FetchFails, AnalysisImpossible, ReplyBreaksParser,
  RecordNoCall, ProviderUnavailable, Crash, logVars

\* No step decides the incident in another worker's hands.
LEMMA OthersLeaveUndecided ==
  ASSUME PoliciesAgree, PaymentInv, NEW w \in Worker, WorkerStep(w), NEW v \in Worker \ {w},
         Busy(v), Undecided(v)
  PROVE  ~Decided(cur[v])'
<1>0. TypeOK /\ LogOK /\ ClaimHeld(v) /\ ClaimHeld(w) /\ cur'[v] = cur[v]
  BY OthersUntouched DEF PaymentInv, TypeOK
<1>1. CASE UNCHANGED log
  BY <1>0, <1>1 DEF Undecided, Decided
<1>2. CASE Record(w)
  <2>1. cur[w] # cur[v]
    BY <1>0, <1>2, Alone DEF Record, Busy
  <2>2. UNCHANGED log \/ AppendDecision(cur[w], result[w])
    BY <1>2 DEF Record
  <2> QED BY <1>0, <1>1, <2>1, <2>2, AppendDecidesOnly DEF Undecided
<1>3. CASE RecordSkip(w)
  <2>1. cur[w] # cur[v]
    BY <1>3 DEF RecordSkip, Undecided, PoliciesAgree
  <2>2. \/ UNCHANGED log
        \/ AppendDecision(cur[w], [kind |-> "skipped", at |-> clock, tokens |-> 0])
    BY <1>3 DEF RecordSkip
  <2> QED BY <1>0, <1>1, <2>1, <2>2, AppendDecidesOnly DEF Undecided
<1> QED BY <1>1, <1>2, <1>3, LogSteps

LEMMA UndecidedInv ==
  ASSUME PoliciesAgree, PaymentInv, [Next]_vars, NEW v \in Worker, Undecided(v)
  PROVE  Undecided(v)'
<1>0. TypeOK /\ PollOK
  BY DEF PaymentInv, TypeOK
<1>1. CASE UNCHANGED <<pc, cur, log>>
  BY <1>1 DEF Undecided, Busy, Decided
<1>2. ASSUME NEW w \in Worker, WorkerStep(w), w # v PROVE Undecided(v)'
  BY <1>0, <1>2, OthersUntouched, OthersLeaveUndecided DEF Undecided, Busy
<1>3. ASSUME WorkerStep(v) PROVE Undecided(v)'
  <2>1. CASE Claim(v)
    <3>1. cur[v] \notin Uncorrelated[v] /\ UNCHANGED log
      BY <2>1 DEF Claim, Undecided
    <3>2. Busy(v)' => cur'[v] = cur[v] /\ ~Decided(cur[v])
      BY <2>1, ClaimStep
    <3>3. pc'[v] # "claim"
      BY <1>0, <2>1 DEF Claim, Defer, PollOK
    <3> QED BY <3>1, <3>2, <3>3 DEF Undecided, Decided
  <2>2. CASE PassGate(v)
    BY <1>0, <2>2 DEF PassGate, Undecided, Busy, PollOK
  <2>3. CASE Fetch(v) \/ Answered(v) \/ AnalysisImpossible(v) \/ ReplyBreaksParser(v)
    BY <1>0, <2>3 DEF Fetch, Answered, AnalysisImpossible, ReplyBreaksParser, RecordNoCall,
      Undecided, Busy, Decided, PollOK, logVars
  <2>4. CASE LettingGo(v)
    BY <1>0, <2>4 DEF LettingGo, FetchFails, ProviderUnavailable, Record, Crash, Defer, Finish,
      Undecided, Busy, PollOK
  <2>5. CASE Quiet(v) /\ ~PassGate(v)
    <3>1. ~Busy(v)'
      BY <1>0, <2>5, QuietSteps
    <3>2. pc'[v] # "claim"
      BY <1>0, <2>5 DEF Quiet, Start, Poll, TakeNext, RecordSkip, WaitForProvider, WaitForAllowance,
        EndPoll, Crash, Defer, Finish, PollOK
    <3> QED BY <3>1, <3>2 DEF Undecided
  <2> QED BY <1>3, <2>1, <2>2, <2>3, <2>4, <2>5
      DEF WorkerStep, PollStep, FaultStep, LettingGo, Quiet
<1>4. CASE (\E i \in Incident : Appear(i)) \/ Tick \/ UNCHANGED vars
  BY <1>1, <1>4 DEF Appear, Tick, vars, logVars
<1> QED BY <1>2, <1>3, <1>4 DEF Next, WorkerStep

\* Among workers whose policies agree, no paid answer meets a decision that is
\* already there: worker.py's _record never sees a DuplicateDecisionError.
THEOREM NoDuplicates == PoliciesAgree /\ Spec => []ClaimsPreventDuplicates
<1> SUFFICES ASSUME PoliciesAgree PROVE Spec => []ClaimsPreventDuplicates
  OBVIOUS
<1> DEFINE IInv == PaymentInv /\ \A w \in Worker : Undecided(w)
<1>1. Init => IInv
  BY InitPayment DEF Init, Undecided, Busy
<1>2. IInv /\ [Next]_vars => IInv'
  BY NextType, ClaimsInv, AccountsInv, UndecidedInv DEF PaymentInv
<1>3. IInv => ClaimsPreventDuplicates
  BY DEF Undecided, ClaimsPreventDuplicates, Busy
<1> QED BY <1>1, <1>2, <1>3, PTL DEF Spec

(***************************************************************************)
(* The query window                                                        *)
(***************************************************************************)

LogNeverFails == "log" \notin Faults
LateCommitsInLookback == CommitLag <= Lookback

Polling(w) == pc[w] \notin {"stopped", "idle"}

Responsible(w, i) == created[i] # Absent /\ created[i] >= start[w] /\ ~Decided(i)

\* Between polls: the window reaches whatever the worker answers for.
Reached(w) ==
  pc[w] = "idle" => \A i \in Incident : Responsible(w, i) => created[i] + Lookback >= cursor[w]

\* During one: it is in the poll's list, or holds the cursor, or is too young
\* for anything in the list to move the cursor past it.
Tracked(w) ==
  Polling(w) =>
    \A i \in Incident : Responsible(w, i) =>
      \/ i \in todo[w]
      \/ created[i] \in deferred[w]
      \/ /\ created[i] + Lookback >= newest[w]
         /\ \A j \in todo[w] : created[i] + Lookback >= created[j]

\* What a worker remembers as done is decided.
DoneIsDecided(w) == \A i \in processed[w] : Decided(i)

\* The cursor is in the past, or where the worker was told to start.
CursorInPast(w) ==
  /\ pc[w] # "stopped" => cursor[w] <= MaxOf(start[w], clock)
  /\ Polling(w) => newest[w] <= MaxOf(start[w], clock)

WindowInv ==
  /\ TypeOK
  /\ \A i \in Incident : created[i] <= clock
  /\ \A w \in Worker : Reached(w) /\ Tracked(w) /\ DoneIsDecided(w) /\ CursorInPast(w)

-----------------------------------------------------------------------------
(* The kinds of steps a poll is made of *)

Keeps(w) ==
  /\ Polling(w) /\ Polling(w)'
  /\ todo'[w] = todo[w] /\ deferred'[w] = deferred[w] /\ newest'[w] = newest[w]
  /\ start'[w] = start[w] /\ cursor'[w] = cursor[w] /\ processed'[w] = processed[w]

Defers(w) == Polling(w) /\ \E i \in todo[w] : Defer(w, i)

Finishes(w) == Polling(w) /\ \E i \in todo[w] : Finish(w, i) /\ Decided(i)'

\* As far as its window goes a worker starts, lists, ends its poll, crashes, defers
\* an incident, finishes one that is decided, or leaves the window alone.
LEMMA StepKinds ==
  ASSUME TypeOK, LogNeverFails, NEW w \in Worker, WorkerStep(w)
  PROVE  Start(w) \/ Poll(w) \/ EndPoll(w) \/ Crash(w) \/ Keeps(w) \/ Defers(w) \/ Finishes(w)
<1>0. PollOK /\ MemoryOK /\ LogOK
  BY DEF TypeOK
<1>1. CASE TakeNext(w)
  <2>1. PICK i \in todo[w] :
          IF Decided(i)
          THEN Finish(w, i)
          ELSE /\ pc' = [pc EXCEPT ![w] = "gate"]
               /\ UNCHANGED <<memoryVars, pollVars>>
    BY <1>1 DEF TakeNext
  <2>2. UNCHANGED log /\ Polling(w)
    BY <1>1 DEF TakeNext, logVars, Polling
  <2>3. CASE Decided(i)
    BY <2>1, <2>2, <2>3 DEF Finishes, Decided
  <2>4. CASE ~Decided(i)
    BY <1>0, <2>1, <2>2, <2>4 DEF Keeps, Polling, PollOK, memoryVars, pollVars
  <2> QED BY <2>3, <2>4
<1>2. CASE RecordSkip(w) \/ Record(w)
  <2>1. PICK i \in todo[w] : i = cur[w]
    BY <1>2, InHand DEF RecordSkip, Record
  <2>2. PICK r : AppendDecision(i, r)
    BY <1>2, <2>1 DEF RecordSkip, Record, Fault, LogNeverFails
  <2>3. Decided(i)'
    BY <1>0, <2>2, AppendDecides
  <2>4. Finish(w, i) /\ Polling(w)
    BY <1>2, <2>1 DEF RecordSkip, Record, Polling
  <2> QED BY <2>3, <2>4 DEF Finishes
<1>3. CASE WaitForProvider(w) \/ WaitForAllowance(w) \/ FetchFails(w) \/ ProviderUnavailable(w)
  <2>1. cur[w] \in todo[w]
    BY <1>3, InHand DEF WaitForProvider, WaitForAllowance, FetchFails, ProviderUnavailable
  <2>2. Defer(w, cur[w]) /\ Polling(w)
    BY <1>3 DEF WaitForProvider, WaitForAllowance, FetchFails, ProviderUnavailable, Polling
  <2> QED BY <2>1, <2>2 DEF Defers
<1>4. CASE Claim(w)
  <2>1. cur[w] \in todo[w] /\ pc[w] = "claim"
    BY <1>4, InHand DEF Claim
  <2>2. CASE Defer(w, cur[w])
    BY <2>1, <2>2 DEF Defers, Polling
  <2>3. CASE ~Defer(w, cur[w])
    <3>1. pc' = [pc EXCEPT ![w] = "fetch"] /\ UNCHANGED <<memoryVars, pollVars>>
      BY <1>4, <2>3 DEF Claim
    <3> QED BY <1>0, <2>1, <3>1 DEF Keeps, Polling, PollOK, memoryVars, pollVars
  <2> QED BY <2>2, <2>3
<1>5. CASE PassGate(w) \/ Fetch(w) \/ Answered(w) \/ AnalysisImpossible(w) \/ ReplyBreaksParser(w)
  BY <1>0, <1>5 DEF PassGate, Fetch, Answered, AnalysisImpossible, ReplyBreaksParser, RecordNoCall,
    Keeps, Polling, PollOK, memoryVars, pollVars
<1> QED BY <1>1, <1>2, <1>3, <1>4, <1>5 DEF WorkerStep, PollStep, FaultStep

\* The worker's own part of the invariant survives its own steps.
LEMMA OwnWindow ==
  ASSUME WindowInv, LogNeverFails, NEW w \in Worker, WorkerStep(w), UNCHANGED <<clock, created>>
  PROVE  Reached(w)' /\ Tracked(w)' /\ DoneIsDecided(w)' /\ CursorInPast(w)'
<1>0. /\ TypeOK /\ PollOK /\ MemoryOK /\ EnvOK
      /\ Reached(w) /\ Tracked(w) /\ DoneIsDecided(w) /\ CursorInPast(w)
      /\ \A i \in Incident : created[i] <= clock
  BY DEF WindowInv, TypeOK
<1>1. \A i : Decided(i) => Decided(i)'
  BY <1>0, DecidedStays
<1>2. todo[w] \subseteq Incident /\ \A i \in todo[w] : created[i] \in Nat
  BY <1>0 DEF TypeOK, LocalsOK, EnvOK, PollOK
<1>3. CASE Start(w)
  <2>1. pc'[w] = "idle" /\ cursor'[w] = start'[w] /\ processed'[w] = {} /\ start'[w] \in Nat
    BY <1>0, <1>3, WorkerAssumption DEF Start, PollOK, MemoryOK, EnvOK
  <2>2. \A i \in Incident : created'[i] # Absent => created'[i] \in Nat
    BY <1>0 DEF EnvOK
  <2>3. Reached(w)'
    <3> SUFFICES ASSUME NEW i \in Incident, Responsible(w, i)'
                 PROVE  created'[i] + Lookback >= cursor'[w]
      BY DEF Reached
    <3>1. created'[i] \in Nat /\ created'[i] >= start'[w]
      BY <2>2 DEF Responsible
    <3> QED BY <2>1, <3>1, WorkerAssumption
  <2>4. Tracked(w)' /\ DoneIsDecided(w)'
    BY <2>1 DEF Tracked, DoneIsDecided, Polling
  <2>5. CursorInPast(w)'
    BY <1>0, <2>1 DEF CursorInPast, Polling, MaxOf, EnvOK
  <2> QED BY <2>3, <2>4, <2>5
<1>4. CASE Poll(w)
  <2>1. /\ pc[w] = "idle" /\ pc'[w] = "next" /\ newest'[w] = cursor[w]
        /\ todo'[w] = {i \in Listed(w) \ processed[w] : created[i] >= start[w]}
        /\ UNCHANGED <<start, cursor, processed, log>>
    BY <1>0, <1>4 DEF Poll, PollOK, memoryVars, logVars
  <2>2. ASSUME NEW i \in Incident, Responsible(w, i) PROVE i \in todo'[w]
    <3>1. i \notin processed[w]
      BY <1>0, <2>2 DEF DoneIsDecided, Responsible
    <3>2. created[i] >= cursor[w] - Lookback
      BY <1>0, <2>1, <2>2, WorkerAssumption DEF Reached, EnvOK, MemoryOK, Responsible
    <3> QED BY <2>1, <2>2, <3>1, <3>2 DEF Listed, Responsible
  <2>3. \A i \in Incident : Responsible(w, i)' => Responsible(w, i)
    BY <2>1 DEF Responsible, Decided
  <2>4. Tracked(w)'
    BY <2>2, <2>3 DEF Tracked
  <2> QED BY <1>0, <1>1, <2>1, <2>4 DEF Reached, DoneIsDecided, CursorInPast, Polling
<1>5. CASE EndPoll(w)
  <2> DEFINE S == {newest[w]} \cup deferred[w]
  <2>1. /\ pc[w] = "next" /\ pc'[w] = "idle" /\ todo[w] = {} /\ cursor'[w] = MinOfSet(S)
        /\ processed'[w] \subseteq processed[w] /\ UNCHANGED <<start, log>>
    BY <1>0, <1>5 DEF EndPoll, PollOK, MemoryOK, logVars
  <2>2. MinOfSet(S) \in Nat /\ \A n \in S : MinOfSet(S) <= n
    <3>1. S \in SUBSET Nat /\ S # {}
      BY <1>0 DEF PollOK
    <3> HIDE DEF S
    <3> QED BY <3>1, MinExists
  <2>3. ASSUME NEW i \in Incident, Responsible(w, i) PROVE created[i] + Lookback >= cursor'[w]
    <3>1. created[i] \in deferred[w] \/ created[i] + Lookback >= newest[w]
      BY <1>0, <2>1, <2>3 DEF Tracked, Polling
    <3>2. created[i] \in Nat /\ newest[w] \in Nat /\ Lookback \in Nat
      BY <1>0, <2>3, WorkerAssumption DEF EnvOK, PollOK, Responsible
    <3>3. \E n \in S : created[i] + Lookback >= n
      BY <3>1, <3>2
    <3>4. PICK n \in S : created[i] + Lookback >= n
      BY <3>3
    <3>5. n \in Nat /\ MinOfSet(S) <= n
      BY <1>0, <2>2, <3>4 DEF PollOK
    <3> HIDE DEF S
    <3> QED BY <2>1, <2>2, <3>2, <3>4, <3>5
  <2>4. cursor'[w] <= MaxOf(start[w], clock)
    <3>1. MinOfSet(S) <= newest[w]
      BY <2>2
    <3>2. newest[w] <= MaxOf(start[w], clock) /\ newest[w] \in Nat /\ MaxOf(start[w], clock) \in Nat
      BY <1>0, <2>1 DEF CursorInPast, Polling, PollOK, MemoryOK, EnvOK, MaxOf
    <3> HIDE DEF S
    <3> QED BY <2>1, <2>2, <3>1, <3>2
  <2>5. \A i \in Incident : Responsible(w, i)' => Responsible(w, i)
    BY <2>1 DEF Responsible, Decided
  <2> HIDE DEF S
  <2> QED BY <1>0, <1>1, <2>1, <2>3, <2>4, <2>5
      DEF Reached, Tracked, DoneIsDecided, CursorInPast, Polling, MaxOf
<1>6. CASE Crash(w)
  <2>1. pc'[w] = "stopped" /\ UNCHANGED processed
    BY <1>0, <1>6 DEF Crash, PollOK, memoryVars
  <2> QED BY <1>0, <1>1, <2>1 DEF Reached, Tracked, DoneIsDecided, CursorInPast, Polling
<1>7. CASE Keeps(w)
  <2>1. \A i \in Incident : Responsible(w, i)' => Responsible(w, i)
    BY <1>1, <1>7 DEF Responsible, Keeps
  <2> QED BY <1>0, <1>1, <1>7, <2>1
      DEF Keeps, Reached, Tracked, DoneIsDecided, CursorInPast, Polling, MaxOf
<1>8. CASE Defers(w)
  <2>1. PICK i \in todo[w] : Defer(w, i)
    BY <1>8 DEF Defers
  <2>2. /\ Polling(w) /\ pc'[w] = "next" /\ todo'[w] = todo[w] \ {i}
        /\ deferred'[w] = deferred[w] \cup {created[i]} /\ UNCHANGED <<newest, start, cursor, processed>>
    BY <1>0, <1>8, <2>1 DEF Defers, Defer, PollOK, memoryVars
  <2>3. \A j \in Incident : Responsible(w, j)' => Responsible(w, j)
    BY <1>1, <2>2 DEF Responsible
  <2>4. Tracked(w)'
    BY <1>0, <2>2, <2>3 DEF Tracked
  <2> QED BY <1>0, <1>1, <2>2, <2>4 DEF Reached, DoneIsDecided, CursorInPast, Polling, MaxOf
<1>9. CASE Finishes(w)
  <2>1. PICK i \in todo[w] : Finish(w, i) /\ Decided(i)'
    BY <1>9 DEF Finishes
  <2>2. /\ Polling(w) /\ pc'[w] = "next" /\ todo'[w] = todo[w] \ {i}
        /\ newest'[w] = MaxOf(newest[w], created[i]) /\ processed'[w] = processed[w] \cup {i}
        /\ UNCHANGED <<deferred, start, cursor>>
    BY <1>0, <1>9, <2>1 DEF Finishes, Finish, PollOK, MemoryOK
  <2>3. \A j \in Incident : Responsible(w, j)' => Responsible(w, j) /\ j # i
    BY <1>1, <2>1, <2>2 DEF Responsible
  <2>4. Tracked(w)'
    BY <1>0, <2>2, <2>3 DEF Tracked, MaxOf
  <2>5. newest'[w] <= MaxOf(start[w], clock)
    BY <1>0, <1>2, <2>2 DEF CursorInPast, MaxOf, PollOK, MemoryOK, EnvOK
  <2> QED BY <1>0, <1>1, <2>1, <2>2, <2>4, <2>5 DEF Reached, DoneIsDecided, CursorInPast, Polling, MaxOf
<1> QED BY <1>0, <1>3, <1>4, <1>5, <1>6, <1>7, <1>8, <1>9, StepKinds

\* The invariant survives every step: the window's owner, the others, and the
\* incidents and decisions that come in meanwhile.
LEMMA WindowStep ==
  ASSUME WindowInv, LogNeverFails, LateCommitsInLookback, [Next]_vars PROVE WindowInv'
<1>0. /\ TypeOK /\ EnvOK /\ PollOK /\ MemoryOK
      /\ \A w \in Worker : Reached(w) /\ Tracked(w) /\ DoneIsDecided(w) /\ CursorInPast(w)
      /\ \A i \in Incident : created[i] <= clock
  BY DEF WindowInv, TypeOK
<1>1. TypeOK'
  BY <1>0, NextType
<1>2. ASSUME NEW w \in Worker, WorkerStep(w) PROVE WindowInv'
  <2>1. UNCHANGED <<clock, created>>
    BY <1>2 DEF WorkerStep, PollStep, FaultStep, Start, Poll, TakeNext, RecordSkip, WaitForProvider,
      WaitForAllowance, PassGate, Claim, Fetch, Answered, Record, EndPoll, FetchFails,
      AnalysisImpossible, ReplyBreaksParser, RecordNoCall, ProviderUnavailable, Crash, envVars
  <2>2. ASSUME NEW v \in Worker \ {w}
        PROVE  Reached(v)' /\ Tracked(v)' /\ DoneIsDecided(v)' /\ CursorInPast(v)'
    <3>1. /\ pc'[v] = pc[v] /\ todo'[v] = todo[v] /\ deferred'[v] = deferred[v]
          /\ newest'[v] = newest[v] /\ start'[v] = start[v] /\ cursor'[v] = cursor[v]
          /\ processed'[v] = processed[v]
      BY <1>0, <1>2, OthersUntouched
    <3>2. \A i : Decided(i) => Decided(i)'
      BY <1>0, <1>2, DecidedStays
    <3>3. \A i \in Incident : Responsible(v, i)' => Responsible(v, i)
      BY <2>1, <3>1, <3>2 DEF Responsible
    <3> QED BY <1>0, <2>1, <3>1, <3>2, <3>3
        DEF Reached, Tracked, DoneIsDecided, CursorInPast, Polling, MaxOf
  <2>3. Reached(w)' /\ Tracked(w)' /\ DoneIsDecided(w)' /\ CursorInPast(w)'
    BY <1>2, <2>1, OwnWindow
  <2>4. \A i \in Incident : created'[i] <= clock'
    BY <1>0, <2>1
  <2> QED BY <1>1, <2>2, <2>3, <2>4 DEF WindowInv
<1>3. ASSUME NEW i \in Incident, Appear(i) PROVE WindowInv'
  <2>1. PICK t \in MaxOf(0, clock - CommitLag)..clock : created' = [created EXCEPT ![i] = t]
    BY <1>3 DEF Appear
  <2>2. /\ UNCHANGED <<clock, log, pc, start, cursor, processed, todo, deferred, newest>>
        /\ created[i] = Absent
    BY <1>3 DEF Appear, logVars, memoryVars, pollVars
  <2>3. t \in Nat /\ clock - CommitLag <= t /\ t <= clock /\ clock \in Nat
    BY <1>0, <2>1, WorkerAssumption DEF EnvOK, MaxOf
  <2>4. created'[i] = t /\ \A j \in Incident \ {i} : created'[j] = created[j]
    BY <1>0, <2>1 DEF EnvOK
  <2>5. ASSUME NEW w \in Worker
        PROVE  Reached(w)' /\ Tracked(w)' /\ DoneIsDecided(w)' /\ CursorInPast(w)'
    <3>1. \A j \in Incident \ {i} : Responsible(w, j)' => Responsible(w, j)
      BY <2>2, <2>4 DEF Responsible, Decided
    <3>2. todo[w] \subseteq Incident \ {i} /\ \A j \in todo[w] : created[j] \in Nat /\ created[j] <= clock
      BY <1>0, <2>2 DEF TypeOK, LocalsOK, EnvOK, PollOK
    <3>3. cursor[w] \in Nat /\ start[w] \in Nat /\ newest[w] \in Nat
      BY <1>0 DEF PollOK, MemoryOK
    <3>4. t >= start[w] => t + Lookback >= MaxOf(start[w], clock)
      BY <2>3, <3>3, WorkerAssumption DEF MaxOf, LateCommitsInLookback
    <3>5. Reached(w)'
      <4>1. pc[w] = "idle" /\ t >= start[w] => t + Lookback >= cursor[w]
        BY <1>0, <2>3, <3>3, <3>4, WorkerAssumption DEF CursorInPast, MaxOf
      <4> QED BY <1>0, <2>2, <2>4, <3>1, <4>1 DEF Reached, Responsible
    <3>6. Tracked(w)'
      <4>1. Polling(w) /\ t >= start[w] => t + Lookback >= newest[w]
        BY <1>0, <2>3, <3>3, <3>4, WorkerAssumption DEF CursorInPast, MaxOf
      <4>2. \A j \in todo[w] : t + Lookback >= created[j]
        BY <2>3, <3>2, WorkerAssumption DEF LateCommitsInLookback
      <4>3. \A j \in todo[w] : created'[j] = created[j]
        BY <2>4, <3>2
      <4>4. Polling(w)' <=> Polling(w)
        BY <2>2 DEF Polling
      <4>5. ASSUME NEW j \in Incident, Responsible(w, j)', Polling(w)
            PROVE  \/ j \in todo'[w]
                   \/ created'[j] \in deferred'[w]
                   \/ /\ created'[j] + Lookback >= newest'[w]
                      /\ \A k \in todo'[w] : created'[j] + Lookback >= created'[k]
        <5>1. CASE j = i
          BY <2>2, <2>4, <4>1, <4>2, <4>3, <4>5, <5>1 DEF Responsible
        <5>2. CASE j # i
          BY <1>0, <2>2, <2>4, <3>1, <4>3, <4>5, <5>2 DEF Tracked
        <5> QED BY <5>1, <5>2
      <4> QED BY <4>4, <4>5 DEF Tracked
    <3>7. DoneIsDecided(w)' /\ CursorInPast(w)'
      BY <1>0, <2>2 DEF DoneIsDecided, CursorInPast, Decided, Polling
    <3> QED BY <3>5, <3>6, <3>7
  <2>6. \A j \in Incident : created'[j] <= clock'
    BY <1>0, <2>2, <2>3, <2>4
  <2> QED BY <1>1, <2>5, <2>6 DEF WindowInv
<1>4. CASE Tick \/ UNCHANGED vars
  <2>1. /\ UNCHANGED <<created, log, pc, start, cursor, processed, todo, deferred, newest>>
        /\ clock' \in Nat /\ clock <= clock'
    BY <1>0, <1>4 DEF Tick, vars, logVars, memoryVars, pollVars, envVars, EnvOK
  <2>2. ASSUME NEW w \in Worker
        PROVE  Reached(w)' /\ Tracked(w)' /\ DoneIsDecided(w)' /\ CursorInPast(w)'
    <3>1. Reached(w)' /\ Tracked(w)' /\ DoneIsDecided(w)'
      BY <1>0, <2>1 DEF Reached, Tracked, DoneIsDecided, Responsible, Polling, Decided
    <3>2. CursorInPast(w)'
      BY <1>0, <2>1 DEF CursorInPast, Polling, MaxOf, EnvOK, MemoryOK, PollOK
    <3> QED BY <3>1, <3>2
  <2>3. \A i \in Incident : created'[i] <= clock'
    BY <1>0, <2>1 DEF EnvOK, Absent
  <2> QED BY <1>1, <2>2, <2>3 DEF WindowInv
<1> QED BY <1>2, <1>3, <1>4 DEF Next, WorkerStep

\* A late commit, a failed fetch, an outage or a limit never hides an incident
\* from a running worker, for any number of workers and incidents.
THEOREM WindowReachesAll ==
  ASSUME LogNeverFails, LateCommitsInLookback
  PROVE  Spec => []NothingFallsBehind
<1>1. Init => WindowInv
  <2> SUFFICES ASSUME Init PROVE WindowInv
    OBVIOUS
  <2>1. TypeOK
    BY InitType
  <2> QED BY <2>1 DEF Init, WindowInv, Reached, Tracked, DoneIsDecided, CursorInPast, Polling, Absent
<1>2. WindowInv /\ [Next]_vars => WindowInv'
  BY WindowStep
<1>3. WindowInv => NothingFallsBehind
  <2> SUFFICES ASSUME WindowInv, NEW w \in Worker, pc[w] = "idle", NEW i \in Incident, Responsible(w, i)
               PROVE  i \in Listed(w) \ processed[w]
    BY DEF NothingFallsBehind, Responsible
  <2>1. created[i] + Lookback >= cursor[w] /\ i \notin processed[w]
    BY DEF WindowInv, Reached, DoneIsDecided, Responsible
  <2>2. created[i] \in Nat /\ cursor[w] \in Nat
    BY DEF WindowInv, TypeOK, EnvOK, MemoryOK, Responsible
  <2> QED BY <2>1, <2>2, WorkerAssumption DEF Listed, Responsible
<1> QED BY <1>1, <1>2, <1>3, PTL DEF Spec

(***************************************************************************)
(* Incidents handed on without an analysis                                 *)
(***************************************************************************)

\* What was announced and is not remembered as announced has been decided.
AnnouncedOrDecided(w) == \A i \in told[w] \ announced[w] : Decided(i)

\* The incident in hand, not decided when it was taken up, is not forgotten.
InHandRemembered(w) ==
  pc[w] \in {"gate", "claim", "fetch", "call", "record"} /\ cur[w] \in told[w] => cur[w] \in announced[w]

\* An announced incident stays one that the worker answers for: while it is
\* undecided it holds the cursor, and so comes up again in every poll.
AnnouncedHolds(w) ==
  pc[w] # "stopped" =>
    \A i \in announced[w] :
      /\ created[i] # Absent /\ created[i] >= start[w] /\ i \notin processed[w]
      /\ ~Decided(i) => IF pc[w] = "idle" THEN created[i] >= cursor[w]
                        ELSE i \in todo[w] \/ created[i] \in deferred[w]

\* A poll's list is of incidents the worker answers for.
ListedSinceStart(w) ==
  /\ Polling(w) \/ todo[w] = {}
  /\ \A i \in todo[w] : created[i] >= start[w]

Remembered(w) ==
  AnnouncedOrDecided(w) /\ InHandRemembered(w) /\ AnnouncedHolds(w) /\ ListedSinceStart(w)

AnnounceInv == TypeOK /\ \A w \in Worker : Remembered(w)

\* A step of one worker leaves what the others announced alone.
LEMMA OthersTold ==
  ASSUME TypeOK, NEW w \in Worker, NEW v \in Worker \ {w}, WorkerStep(w)
  PROVE  announced'[v] = announced[v] /\ told'[v] = told[v]
<1>0. announced \in [Worker -> SUBSET Incident] /\ told \in [Worker -> SUBSET Incident]
  BY DEF TypeOK, MemoryOK, HistoryOK
<1>1. CASE Start(w) \/ Poll(w) \/ TakeNext(w) \/ RecordSkip(w)
  BY <1>0, <1>1 DEF Start, Poll, TakeNext, RecordSkip, Finish
<1>2. CASE WaitForProvider(w) \/ WaitForAllowance(w) \/ PassGate(w) \/ Fetch(w) \/ Claim(w)
  BY <1>0, <1>2 DEF WaitForProvider, WaitForAllowance, PassGate, Fetch, Claim, DeliverUnanalyzed
<1>3. CASE Answered(w) \/ AnalysisImpossible(w) \/ ReplyBreaksParser(w) \/ Record(w) \/ EndPoll(w)
  BY <1>0, <1>3 DEF Answered, AnalysisImpossible, ReplyBreaksParser, RecordNoCall, Record, EndPoll,
    Finish
<1>4. CASE FetchFails(w) \/ ProviderUnavailable(w) \/ Crash(w)
  BY <1>0, <1>4 DEF FetchFails, ProviderUnavailable, Crash, DeliverUnanalyzed
<1> QED BY <1>1, <1>2, <1>3, <1>4 DEF WorkerStep, PollStep, FaultStep

\* An incident is announced only when it was not remembered, and so not before.
LEMMA AnnounceOwn ==
  ASSUME AnnounceInv, LogNeverFails, NEW w \in Worker, WorkerStep(w), TypeOK'
  PROVE  /\ Remembered(w)'
         /\ \A i \in announced'[w] \ announced[w] : i \notin told[w]
<1>0. /\ TypeOK /\ PollOK /\ MemoryOK /\ HistoryOK /\ EnvOK /\ LogOK /\ LocalsOK(w)
      /\ Remembered(w)
      /\ AnnouncedOrDecided(w) /\ InHandRemembered(w) /\ AnnouncedHolds(w) /\ ListedSinceStart(w)
  BY DEF AnnounceInv, TypeOK, Remembered
<1>1. \A i : Decided(i) => Decided(i)'
  BY <1>0, DecidedStays
<1>2. /\ todo[w] \subseteq Incident /\ announced[w] \subseteq Incident /\ told[w] \subseteq Incident
      /\ \A i \in todo[w] : created[i] \in Nat /\ i \notin processed[w]
      /\ deferred[w] \subseteq Nat /\ newest[w] \in Nat /\ cursor[w] \in Nat /\ start[w] \in Nat
  BY <1>0 DEF LocalsOK, EnvOK, PollOK, MemoryOK, HistoryOK
<1>3. CASE Start(w)
  <2>1. pc'[w] = "idle" /\ announced'[w] = {} /\ told'[w] = {} /\ todo'[w] = {}
    BY <1>0, <1>3 DEF Start, PollOK, MemoryOK, HistoryOK, pollVars, ListedSinceStart, Polling
  <2> QED BY <2>1 DEF Remembered, ListedSinceStart, AnnouncedOrDecided, InHandRemembered, AnnouncedHolds
<1>4. CASE Poll(w)
  <2>1. /\ pc[w] = "idle" /\ pc'[w] = "next" /\ deferred'[w] = {}
        /\ todo'[w] = {i \in Listed(w) \ processed[w] : created[i] >= start[w]}
        /\ UNCHANGED <<created, log, announced, told, start, processed>>
    BY <1>0, <1>4 DEF Poll, PollOK, envVars, logVars, memoryVars
  <2>2. AnnouncedHolds(w)'
    <3> SUFFICES ASSUME NEW i \in announced[w], ~Decided(i) PROVE i \in todo'[w]
      BY <1>0, <2>1 DEF AnnouncedHolds, Decided
    <3>1. /\ created[i] # Absent /\ created[i] >= start[w] /\ i \notin processed[w] /\ i \in Incident
          /\ created[i] >= cursor[w] /\ created[i] \in Nat
      BY <1>0, <1>2, <2>1 DEF AnnouncedHolds, EnvOK
    <3>2. created[i] >= cursor[w] - Lookback
      BY <1>2, <3>1, WorkerAssumption
    <3> QED BY <2>1, <3>1, <3>2 DEF Listed
  <2> QED BY <1>0, <2>1, <2>2 DEF Remembered, AnnouncedOrDecided, InHandRemembered, ListedSinceStart, Polling, Decided
<1>5. CASE EndPoll(w)
  <2> DEFINE to == MinOfSet({newest[w]} \cup deferred[w])
  <2>1. /\ pc[w] = "next" /\ pc'[w] = "idle" /\ todo[w] = {} /\ cursor'[w] = to
        /\ announced'[w] = {i \in announced[w] : created[i] >= to - Lookback}
        /\ processed'[w] \subseteq processed[w]
        /\ UNCHANGED <<created, log, told, start>>
    BY <1>0, <1>5 DEF EndPoll, PollOK, MemoryOK, envVars, logVars
  <2>2. to \in {newest[w]} \cup deferred[w] /\ \A n \in {newest[w]} \cup deferred[w] : to <= n
    BY <1>2, MinExists
  <2> HIDE DEF to
  <2>3. to \in Nat /\ \A i \in announced[w] : ~Decided(i) => to <= created[i]
    BY <1>0, <1>2, <2>1, <2>2 DEF AnnouncedHolds
  <2>4. \A i \in announced[w] : ~Decided(i) => i \in announced'[w]
    <3> SUFFICES ASSUME NEW i \in announced[w], ~Decided(i) PROVE created[i] >= to - Lookback
      BY <2>1
    <3>1. created[i] \in Nat /\ to <= created[i]
      BY <1>0, <1>2, <2>1, <2>3 DEF AnnouncedHolds, EnvOK
    <3> QED BY <2>3, <3>1, WorkerAssumption
  <2>5. AnnouncedHolds(w)'
    BY <1>0, <2>1, <2>3 DEF AnnouncedHolds, Decided
  <2>6. todo'[w] = {}
    BY <1>0, <1>5, <2>1 DEF EndPoll
  <2> QED BY <1>0, <2>1, <2>4, <2>5, <2>6
      DEF Remembered, AnnouncedOrDecided, InHandRemembered, ListedSinceStart, Decided
<1>6. CASE Crash(w)
  <2>1. pc'[w] = "stopped" /\ todo'[w] = {} /\ UNCHANGED <<log, announced, told>>
    BY <1>0, <1>6 DEF Crash, PollOK, logVars
  <2> QED BY <1>0, <2>1 DEF Remembered, ListedSinceStart, AnnouncedOrDecided, InHandRemembered, AnnouncedHolds, Decided
\* Nothing about the list changes.
<1>7. ASSUME Keeps(w), UNCHANGED <<created, announced, told>>,
             pc'[w] # "next" => \/ cur'[w] = cur[w] /\ pc[w] # "next"
                                \/ ~Decided(cur'[w])
      PROVE  /\ Remembered(w)'
             /\ \A i \in announced'[w] \ announced[w] : i \notin told[w]
  <2>1. AnnouncedOrDecided(w)'
    BY <1>0, <1>1, <1>7 DEF AnnouncedOrDecided
  <2>2. InHandRemembered(w)'
    <3> SUFFICES ASSUME pc'[w] # "next", cur'[w] \in told[w] PROVE cur'[w] \in announced[w]
      BY <1>7 DEF InHandRemembered
    <3>1. CASE ~Decided(cur'[w])
      BY <1>0, <3>1 DEF AnnouncedOrDecided
    <3>2. CASE cur'[w] = cur[w] /\ pc[w] # "next"
      <4>1. pc[w] \in {"gate", "claim", "fetch", "call", "record"}
        BY <1>0, <1>7, <3>2 DEF Keeps, Polling, PollOK
      <4> QED BY <1>0, <3>2, <4>1 DEF InHandRemembered
    <3> QED BY <1>7, <3>1, <3>2
  <2>3. AnnouncedHolds(w)'
    BY <1>0, <1>1, <1>7 DEF AnnouncedHolds, Keeps, Polling
  <2>4. ListedSinceStart(w)'
    BY <1>0, <1>7 DEF ListedSinceStart, Keeps
  <2> QED BY <1>7, <2>1, <2>2, <2>3, <2>4 DEF Remembered
\* An incident is set aside, announced before or not.
<1>8. ASSUME NEW i \in todo[w], Polling(w), Defer(w, i), UNCHANGED <<created, log>>,
             \/ UNCHANGED <<announced, told>>
             \/ DeliverUnanalyzed(w, i) /\ i = cur[w] /\ pc[w] \in {"gate", "call"}
      PROVE  /\ Remembered(w)'
             /\ \A j \in announced'[w] \ announced[w] : j \notin told[w]
  <2>1. /\ pc'[w] = "next" /\ todo'[w] = todo[w] \ {i} /\ deferred'[w] = deferred[w] \cup {created[i]}
        /\ start'[w] = start[w] /\ processed'[w] = processed[w]
    BY <1>0, <1>8 DEF Defer, PollOK, MemoryOK, memoryVars
  <2>2. \/ announced'[w] = announced[w] /\ told'[w] = told[w]
        \/ /\ announced'[w] = announced[w] \cup {i} /\ told'[w] = told[w] \cup {i}
           /\ i = cur[w] /\ pc[w] \in {"gate", "call"}
    BY <1>0, <1>8 DEF DeliverUnanalyzed, MemoryOK, HistoryOK
  <2>3. AnnouncedOrDecided(w)' /\ InHandRemembered(w)'
    BY <1>0, <1>8, <2>1, <2>2 DEF AnnouncedOrDecided, InHandRemembered, Decided
  <2>4. AnnouncedHolds(w)'
    BY <1>0, <1>2, <1>8, <2>1, <2>2 DEF AnnouncedHolds, ListedSinceStart, Polling, Decided, Absent
  <2>5. \A j \in announced'[w] \ announced[w] : j \notin told[w]
    BY <1>0, <2>2 DEF InHandRemembered
  <2>6. ListedSinceStart(w)'
    BY <1>0, <1>8, <2>1 DEF ListedSinceStart, Polling
  <2> QED BY <2>3, <2>4, <2>5, <2>6 DEF Remembered
\* An incident is dealt with and decided: it need not be remembered.
<1>9. ASSUME NEW i \in todo[w], Polling(w), Finish(w, i), Decided(i)', UNCHANGED <<created, told>>
      PROVE  /\ Remembered(w)'
             /\ \A j \in announced'[w] \ announced[w] : j \notin told[w]
  <2>1. /\ pc'[w] = "next" /\ todo'[w] = todo[w] \ {i} /\ deferred'[w] = deferred[w]
        /\ start'[w] = start[w] /\ processed'[w] = processed[w] \cup {i}
        /\ announced'[w] = announced[w] \ {i}
    BY <1>0, <1>9 DEF Finish, PollOK, MemoryOK
  <2>2. AnnouncedOrDecided(w)' /\ InHandRemembered(w)'
    BY <1>0, <1>1, <1>9, <2>1 DEF AnnouncedOrDecided, InHandRemembered
  <2>3. AnnouncedHolds(w)'
    BY <1>0, <1>1, <1>9, <2>1 DEF AnnouncedHolds, Polling
  <2>4. ListedSinceStart(w)'
    BY <1>0, <1>9, <2>1 DEF ListedSinceStart, Polling
  <2> QED BY <2>1, <2>2, <2>3, <2>4 DEF Remembered
<1>10. CASE TakeNext(w)
  <2>1. PICK i \in todo[w] :
          IF Decided(i)
          THEN Finish(w, i)
          ELSE /\ pc' = [pc EXCEPT ![w] = "gate"]
               /\ cur' = [cur EXCEPT ![w] = i]
               /\ UNCHANGED <<memoryVars, announced, pollVars>>
    BY <1>10 DEF TakeNext
  <2>2. Polling(w) /\ UNCHANGED <<created, told>>
    BY <1>10 DEF TakeNext, Polling, envVars
  <2>3. CASE Decided(i)
    BY <1>1, <1>9, <2>1, <2>2, <2>3
  <2>4. CASE ~Decided(i)
    <3>1. pc'[w] = "gate" /\ cur'[w] = i
      BY <1>0, <2>1, <2>4 DEF PollOK
    <3>2. Keeps(w) /\ UNCHANGED announced
      BY <2>1, <2>2, <2>4, <3>1 DEF Keeps, Polling, memoryVars, pollVars
    <3> QED BY <1>7, <2>2, <2>4, <3>1, <3>2
  <2> QED BY <2>3, <2>4
<1>11. CASE RecordSkip(w) \/ Record(w)
  <2>1. PICK i \in todo[w] : i = cur[w]
    BY <1>0, <1>11, InHand DEF RecordSkip, Record
  <2>2. PICK r : AppendDecision(i, r)
    BY <1>11, <2>1 DEF RecordSkip, Record, Fault, LogNeverFails
  <2>3. Decided(i)'
    BY <1>0, <2>2, AppendDecides
  <2>4. Finish(w, i) /\ Polling(w) /\ UNCHANGED <<created, told>>
    BY <1>11, <2>1 DEF RecordSkip, Record, Polling, envVars
  <2> QED BY <1>9, <2>3, <2>4
<1>12. CASE WaitForAllowance(w) \/ FetchFails(w)
  <2>1. cur[w] \in todo[w]
    BY <1>0, <1>12, InHand DEF WaitForAllowance, FetchFails
  <2>2. Defer(w, cur[w]) /\ Polling(w) /\ UNCHANGED <<created, log, announced, told>>
    BY <1>12 DEF WaitForAllowance, FetchFails, Polling, envVars, logVars
  <2> QED BY <1>8, <2>1, <2>2
<1>13. CASE WaitForProvider(w) \/ ProviderUnavailable(w)
  <2>1. cur[w] \in todo[w] /\ pc[w] \in {"gate", "call"}
    BY <1>0, <1>13, InHand DEF WaitForProvider, ProviderUnavailable
  <2>2. /\ Defer(w, cur[w]) /\ Polling(w) /\ DeliverUnanalyzed(w, cur[w])
        /\ UNCHANGED <<created, log>>
    BY <1>13 DEF WaitForProvider, ProviderUnavailable, Polling, envVars, logVars
  <2> QED BY <1>8, <2>1, <2>2
<1>14. CASE Claim(w)
  <2>1. /\ cur[w] \in todo[w] /\ pc[w] = "claim" /\ Polling(w)
        /\ UNCHANGED <<created, log, announced, told>>
    BY <1>0, <1>14, InHand DEF Claim, Polling, envVars
  <2>2. CASE Defer(w, cur[w])
    BY <1>8, <2>1, <2>2
  <2>3. CASE ~Defer(w, cur[w])
    <3>1. pc' = [pc EXCEPT ![w] = "fetch"] /\ UNCHANGED <<cur, memoryVars, pollVars>>
      BY <1>14, <2>3 DEF Claim
    <3>2. Keeps(w)
      BY <1>0, <2>1, <3>1 DEF Keeps, Polling, PollOK, memoryVars, pollVars
    <3> QED BY <1>7, <2>1, <3>1, <3>2
  <2> QED BY <2>2, <2>3
<1>15. CASE PassGate(w) \/ Fetch(w) \/ Answered(w) \/ AnalysisImpossible(w) \/ ReplyBreaksParser(w)
  <2>1. Keeps(w) /\ cur'[w] = cur[w] /\ pc[w] # "next" /\ UNCHANGED <<created, announced, told>>
    BY <1>0, <1>15 DEF PassGate, Fetch, Answered, AnalysisImpossible, ReplyBreaksParser,
      RecordNoCall, Keeps, Polling, PollOK, memoryVars, pollVars, envVars
  <2> QED BY <1>7, <2>1
<1> QED BY <1>3, <1>4, <1>5, <1>6, <1>10, <1>11, <1>12, <1>13, <1>14, <1>15
    DEF WorkerStep, PollStep, FaultStep

\* The invariant survives every step, and the step announces nothing twice.
LEMMA AnnounceStep ==
  ASSUME AnnounceInv, LogNeverFails, [Next]_vars
  PROVE  /\ AnnounceInv'
         /\ \A w \in Worker : \A i \in announced'[w] \ announced[w] : i \notin told[w]
<1>0. TypeOK /\ TypeOK' /\ EnvOK /\ \A w \in Worker : Remembered(w)
  BY NextType DEF AnnounceInv, TypeOK
<1>1. ASSUME NEW w \in Worker, WorkerStep(w)
      PROVE  /\ AnnounceInv'
             /\ \A v \in Worker : \A i \in announced'[v] \ announced[v] : i \notin told[v]
  <2>1. ASSUME NEW v \in Worker \ {w}
        PROVE  Remembered(v)' /\ announced'[v] = announced[v]
    <3>1. /\ pc'[v] = pc[v] /\ cur'[v] = cur[v] /\ todo'[v] = todo[v] /\ deferred'[v] = deferred[v]
          /\ start'[v] = start[v] /\ cursor'[v] = cursor[v] /\ processed'[v] = processed[v]
          /\ UNCHANGED created
      BY <1>0, <1>1, OthersUntouched
    <3>2. announced'[v] = announced[v] /\ told'[v] = told[v]
      BY <1>0, <1>1, OthersTold
    <3>3. \A i : Decided(i) => Decided(i)'
      BY <1>0, <1>1, DecidedStays
    <3> QED BY <1>0, <3>1, <3>2, <3>3
        DEF Remembered, AnnouncedOrDecided, InHandRemembered, AnnouncedHolds, ListedSinceStart, Polling
  <2>2. Remembered(w)' /\ \A i \in announced'[w] \ announced[w] : i \notin told[w]
    BY <1>0, <1>1, AnnounceOwn
  <2> QED BY <1>0, <2>1, <2>2 DEF AnnounceInv
<1>2. CASE (\E i \in Incident : Appear(i)) \/ Tick \/ UNCHANGED vars
  <2>1. UNCHANGED <<log, pc, cur, start, cursor, processed, announced, todo, deferred, told>>
    BY <1>2 DEF Appear, Tick, vars, logVars, memoryVars, pollVars
  <2>2. \A i : created[i] # Absent => created'[i] = created[i]
    <3>1. CASE \E i \in Incident : Appear(i)
      BY <1>0, <3>1 DEF Appear, EnvOK
    <3>2. CASE Tick \/ UNCHANGED vars
      BY <3>2 DEF Tick, vars, envVars
    <3> QED BY <1>2, <3>1, <3>2
  <2>3. \A w \in Worker : \A i \in todo[w] : created[i] # Absent
    BY <1>0 DEF TypeOK, LocalsOK
  <2>4. ASSUME NEW w \in Worker PROVE Remembered(w)'
    BY <1>0, <2>1, <2>2, <2>3
    DEF Remembered, AnnouncedOrDecided, InHandRemembered, AnnouncedHolds, ListedSinceStart, Polling, Decided
  <2> QED BY <1>0, <2>1, <2>4 DEF AnnounceInv
<1> QED BY <1>1, <1>2 DEF Next, WorkerStep

\* However many polls find an incident waiting for a provider that is down, and
\* whatever other workers, fetches and limits do meanwhile, _deliver_unanalyzed
\* hands it on once per life of a worker, as long as writes of the log do not fail.
THEOREM AnnouncedOncePerLife ==
  ASSUME LogNeverFails PROVE Spec => AnnouncedOnce
<1>1. Init => AnnounceInv
  <2> SUFFICES ASSUME Init PROVE AnnounceInv
    OBVIOUS
  <2>1. TypeOK
    BY InitType
  <2> QED BY <2>1 DEF Init, AnnounceInv, Remembered, AnnouncedOrDecided, InHandRemembered,
    AnnouncedHolds, ListedSinceStart
<1>2. AnnounceInv /\ [Next]_vars => AnnounceInv'
  BY AnnounceStep
<1>3. AnnounceInv /\ [Next]_vars =>
        [\A w \in Worker : \A i \in announced'[w] \ announced[w] : i \notin told[w]]_vars
  BY AnnounceStep
<1> QED BY <1>1, <1>2, <1>3, PTL DEF Spec, AnnouncedOnce

(***************************************************************************)
(* The wait for the provider                                               *)
(***************************************************************************)

\* The law of doubling, which the provers do not know, from the size of a
\* power set: half the subsets of 1..n+1 have n + 1 in them.
LEMMA PowersOfTwo ==
  /\ 2^0 = 1
  /\ \A n \in Nat : 2^n \in Nat /\ 2^(n + 1) = 2 * 2^n
<1>1. ASSUME NEW n \in Nat PROVE 2^n \in Nat /\ IsFiniteSet(SUBSET (1..n)) /\ Cardinality(SUBSET (1..n)) = 2^n
  <2>1. IsFiniteSet(1..n) /\ Cardinality(1..n) = n
    BY FS_Interval
  <2>2. IsFiniteSet(SUBSET (1..n)) /\ Cardinality(SUBSET (1..n)) = 2^n
    BY <2>1, FS_SUBSET
  <2> QED BY <2>2, FS_CardinalityType
<1>2. ASSUME NEW n \in Nat PROVE 2^(n + 1) = 2 * 2^n
  <2> DEFINE A == SUBSET (1..n)
             B == {S \in SUBSET (1..n+1) : n + 1 \in S}
             f == [S \in A |-> S \cup {n + 1}]
  <2>1. f \in Bijection(A, B)
    <3>1. f \in [A -> B]
      OBVIOUS
    <3>2. \A S, T \in A : f[S] = f[T] => S = T
      <4>1. \A S \in A : S = f[S] \ {n + 1}
        OBVIOUS
      <4> HIDE DEF f
      <4> QED BY <4>1
    <3>3. \A T \in B : \E S \in A : f[S] = T
      <4> SUFFICES ASSUME NEW T \in B PROVE \E S \in A : f[S] = T
        OBVIOUS
      <4>1. T \ {n + 1} \in A /\ (T \ {n + 1}) \cup {n + 1} = T
        OBVIOUS
      <4> QED BY <4>1
    <3> QED BY <3>1, <3>2, <3>3 DEF Bijection, Injection, Surjection, IsInjective
  <2>2. IsFiniteSet(B) /\ Cardinality(B) = Cardinality(A)
    BY <1>1, <2>1, FS_Bijection, ZenonT(60) DEF ExistsBijection
  <2>3. SUBSET (1..n+1) = A \cup B /\ A \cap B = {}
    OBVIOUS
  <2>4. Cardinality(SUBSET (1..n+1)) = Cardinality(A) + Cardinality(B) - Cardinality(A \cap B)
    BY <1>1, <2>2, <2>3, FS_Union
  <2>5. Cardinality(A \cap B) = 0
    BY <2>3, FS_EmptySet
  <2>6. n + 1 \in Nat
    OBVIOUS
  <2>7. Cardinality(SUBSET (1..n+1)) = 2^(n + 1)
    BY <1>1, <2>6
  <2>8. Cardinality(A) = 2^n /\ 2^n \in Nat
    BY <1>1
  <2> HIDE DEF A, B
  <2> QED BY <2>2, <2>4, <2>5, <2>7, <2>8
<1>3. 2^0 = 1
  <2>1. SUBSET (1..0) = {{}}
    OBVIOUS
  <2>2. Cardinality({{}}) = 1
    BY FS_Singleton
  <2> QED BY <1>1, <2>1, <2>2
<1> QED BY <1>1, <1>2, <1>3

\* A power of two is at least one: {} is a subset.
LEMMA PositivePower == \A n \in Nat : 2^n >= 1
<1> SUFFICES ASSUME NEW n \in Nat PROVE 2^n >= 1
  OBVIOUS
<1>1. IsFiniteSet(1..n) /\ Cardinality(1..n) = n
  BY FS_Interval
<1>2. IsFiniteSet(SUBSET (1..n)) /\ Cardinality(SUBSET (1..n)) = 2^n /\ {} \in SUBSET (1..n)
  BY <1>1, FS_SUBSET
<1>3. 2^n \in Nat /\ 2^n # 0
  BY <1>2, FS_CardinalityType, FS_EmptySet
<1> QED BY <1>3

\* The number of failures in a row decides the wait: none while there are none.
WaitInv == BackoffDoubles /\ \A w \in Worker : failures[w] = 0 => backoff[w] = 0

\* min(max(2 * wait, first), most) is the next of the doubling waits.
LEMMA NextWait ==
  ASSUME NEW first \in Nat, NEW most \in Nat, NEW p \in Nat, NEW q \in Nat, p >= 1, q = 2 * p
  PROVE  LET wait == IF first * p <= most THEN first * p ELSE most
             next == IF MaxOf(2 * wait, first) <= most THEN MaxOf(2 * wait, first) ELSE most
         IN  next = IF first * q <= most THEN first * q ELSE most
<1> DEFINE a == first * p
<1>1. a \in Nat /\ first * q = 2 * a /\ first <= a
  OBVIOUS
<1> HIDE DEF a
<1> QED BY <1>1 DEF MaxOf, a

\* Only a failure, what marks the provider up and a restart touch the wait.
LEMMA WaitStep == TypeOK /\ WaitInv /\ [Next]_vars => WaitInv'
<1> SUFFICES ASSUME TypeOK, WaitInv, [Next]_vars PROVE WaitInv'
  OBVIOUS
<1>1. failures \in [Worker -> Nat] /\ backoff \in [Worker -> Nat]
  BY DEF TypeOK, HistoryOK, MemoryOK
<1>2. CASE \E w \in Worker : Start(w) \/ MarkProviderUp(w)
  <2>1. PICK w \in Worker : failures' = [failures EXCEPT ![w] = 0] /\ backoff' = [backoff EXCEPT ![w] = 0]
    BY <1>2 DEF Start, MarkProviderUp
  <2>2. failures'[w] = 0 /\ backoff'[w] = 0
        /\ \A v \in Worker \ {w} : failures'[v] = failures[v] /\ backoff'[v] = backoff[v]
    BY <1>1, <2>1
  <2> QED BY <2>2 DEF WaitInv, BackoffDoubles
<1>3. CASE \E w \in Worker : ProviderUnavailable(w)
  <2> DEFINE Next2(n) == IF MaxOf(2 * n, RetryAfter) <= MaxRetryAfter
                         THEN MaxOf(2 * n, RetryAfter) ELSE MaxRetryAfter
             Doubled(n) == IF RetryAfter * 2^n <= MaxRetryAfter THEN RetryAfter * 2^n ELSE MaxRetryAfter
  <2>1. PICK w \in Worker : /\ failures' = [failures EXCEPT ![w] = @ + 1]
                             /\ backoff' = [backoff EXCEPT ![w] = Next2(backoff[w])]
    BY <1>3 DEF ProviderUnavailable
  <2>2. /\ failures'[w] = failures[w] + 1 /\ backoff'[w] = Next2(backoff[w])
        /\ \A v \in Worker \ {w} : failures'[v] = failures[v] /\ backoff'[v] = backoff[v]
    BY <1>1, <2>1
  <2>3. Next2(backoff[w]) = Doubled(failures[w])
    <3>1. RetryAfter \in Nat /\ MaxRetryAfter \in Nat /\ failures[w] \in Nat /\ 2^0 = 1
      BY <1>1, WorkerAssumption, PowersOfTwo
    <3>2. CASE failures[w] = 0
      <4>1. backoff[w] = 0 /\ MaxOf(2 * 0, RetryAfter) = RetryAfter /\ RetryAfter * 1 = RetryAfter
        BY <3>1, <3>2 DEF WaitInv, MaxOf
      <4> QED BY <3>1, <3>2, <4>1
    <3>3. CASE failures[w] # 0
      <4> DEFINE n == failures[w] - 1
      <4>1. n \in Nat /\ failures[w] = n + 1 /\ backoff[w] = Doubled(n)
        BY <3>1, <3>3 DEF WaitInv, BackoffDoubles
      <4> HIDE DEF n
      <4>2. 2^n \in Nat /\ 2^(n + 1) \in Nat /\ 2^(n + 1) = 2 * 2^n
        BY <4>1, PowersOfTwo
      <4>3. 2^n >= 1
        BY <4>1, PositivePower
      <4>4. Next2(Doubled(n)) = Doubled(n + 1)
        BY <3>1, <4>2, <4>3, NextWait
      <4> QED BY <4>1, <4>4
    <3> QED BY <3>2, <3>3
  <2>4. failures[w] \in Nat /\ (failures[w] + 1) - 1 = failures[w]
    BY <1>1
  <2> HIDE DEF Next2
  <2>5. \A v \in Worker : failures'[v] > 0 => backoff'[v] = Doubled(failures'[v] - 1)
    <3> SUFFICES ASSUME NEW v \in Worker, failures'[v] > 0
                 PROVE  backoff'[v] = Doubled(failures'[v] - 1)
      OBVIOUS
    <3>1. CASE v = w
      <4> HIDE DEF Doubled
      <4> QED BY <2>2, <2>3, <2>4, <3>1
    <3>2. CASE v # w
      BY <2>2, <3>2 DEF WaitInv, BackoffDoubles
    <3> QED BY <3>1, <3>2
  <2>6. \A v \in Worker : failures'[v] = 0 => backoff'[v] = 0
    BY <2>2, <2>4 DEF WaitInv
  <2> QED BY <2>5, <2>6 DEF WaitInv, BackoffDoubles
<1>4. CASE UNCHANGED <<failures, backoff>>
  BY <1>4 DEF WaitInv, BackoffDoubles
<1>5. ASSUME NEW w \in Worker, WorkerStep(w), ~Start(w), ~MarkProviderUp(w), ~ProviderUnavailable(w)
      PROVE  UNCHANGED <<failures, backoff>>
  BY <1>5 DEF WorkerStep, PollStep, FaultStep, Poll, TakeNext, RecordSkip, WaitForProvider,
    WaitForAllowance, PassGate, Claim, Fetch, Answered, Record, EndPoll, FetchFails,
    AnalysisImpossible, ReplyBreaksParser, RecordNoCall, Crash, outageVars, historyVars
<1>6. CASE (\E i \in Incident : Appear(i)) \/ Tick \/ UNCHANGED vars
  BY <1>4, <1>6 DEF Appear, Tick, vars, outageVars, historyVars
<1>7. \A w \in Worker : WorkerStep(w) => WaitInv'
  BY <1>2, <1>3, <1>4, <1>5
<1>8. CASE \E w \in Worker : WorkerStep(w)
  BY <1>7, <1>8
<1> QED BY <1>4, <1>6, <1>8 DEF Next, WorkerStep

\* _mark_provider_down doubles the wait with every failure up to its maximum, from
\* one _mark_provider_up to the next (worker.py:150 calls it for every record), across
\* polls, other workers and crashes, for any first and longest wait and any faults.
THEOREM WaitDoubles == Spec => []BackoffDoubles
<1>1. Init => WaitInv
  BY DEF Init, WaitInv, BackoffDoubles
<1>2. TypeOK /\ WaitInv /\ [Next]_vars => WaitInv'
  BY WaitStep
<1>3. WaitInv => BackoffDoubles
  BY DEF WaitInv
<1> QED BY <1>1, <1>2, <1>3, TypeCorrect, PTL DEF Spec

(***************************************************************************)
(* "Done once analyzed"                                                    *)
(***************************************************************************)

\* What this life of a worker analysed is decided, unless it is about to record
\* it; so it has nothing in hand that it analysed before.
AnalyzedIsDecided(w) ==
  /\ \A i \in analyzed[w] :
       Decided(i) \/ pc[w] = "stopped" \/ (pc[w] = "record" /\ cur[w] = i)
  /\ pc[w] \in {"gate", "claim", "fetch", "call"} => cur[w] \notin analyzed[w]

AnalyzedInv == TypeOK /\ \A w \in Worker : AnalyzedIsDecided(w)

\* A worker's own steps keep it.
LEMMA AnalyzedOwn ==
  ASSUME AnalyzedInv, LogNeverFails, NEW w \in Worker, WorkerStep(w)
  PROVE  /\ AnalyzedIsDecided(w)'
         /\ \A v \in Worker \ {w} : analyzed'[v] = analyzed[v]
<1>0. TypeOK /\ PollOK /\ HistoryOK /\ LogOK /\ LocalsOK(w) /\ AnalyzedIsDecided(w)
  BY DEF AnalyzedInv, TypeOK
<1>1. \A i : Decided(i) => Decided(i)'
  BY <1>0, DecidedStays
<1> DEFINE Same == analyzed' = analyzed
<1>2. CASE Start(w)
  BY <1>0, <1>2 DEF Start, AnalyzedIsDecided, PollOK, HistoryOK
<1>3. CASE Poll(w) \/ EndPoll(w)
  BY <1>0, <1>1, <1>3 DEF Poll, EndPoll, AnalyzedIsDecided, PollOK, historyVars
<1>4. CASE TakeNext(w)
  <2>1. PICK i \in todo[w] :
          IF Decided(i)
          THEN Finish(w, i)
          ELSE pc' = [pc EXCEPT ![w] = "gate"] /\ cur' = [cur EXCEPT ![w] = i]
    BY <1>4 DEF TakeNext
  <2>2. pc[w] = "next" /\ Same
    BY <1>4 DEF TakeNext, historyVars
  <2>3. i \in analyzed[w] => Decided(i)
    BY <1>0, <2>2 DEF AnalyzedIsDecided
  <2>4. pc'[w] = "next" \/ (pc'[w] = "gate" /\ cur'[w] = i /\ ~Decided(i))
    BY <1>0, <2>1 DEF Finish, PollOK
  <2> QED BY <1>0, <1>1, <2>2, <2>3, <2>4 DEF AnalyzedIsDecided
<1>5. CASE RecordSkip(w) \/ Record(w)
  <2>1. PICK i : i = cur[w]
    OBVIOUS
  <2>2. PICK r : AppendDecision(i, r)
    BY <1>5, <2>1 DEF RecordSkip, Record, Fault, LogNeverFails
  <2>3. Decided(i)'
    BY <1>0, <2>2, AppendDecides
  <2>4. pc'[w] = "next" /\ Same /\ pc[w] # "stopped"
    BY <1>0, <1>5 DEF RecordSkip, Record, Finish, PollOK, historyVars
  <2> QED BY <1>0, <1>1, <2>1, <2>3, <2>4 DEF AnalyzedIsDecided
<1>6. CASE WaitForProvider(w) \/ WaitForAllowance(w) \/ FetchFails(w) \/ ProviderUnavailable(w)
  <2>1. pc'[w] = "next" /\ Same /\ pc[w] \notin {"stopped", "record"}
    BY <1>0, <1>6 DEF WaitForProvider, WaitForAllowance, FetchFails, ProviderUnavailable, Defer, PollOK,
      historyVars
  <2> QED BY <1>0, <1>1, <2>1 DEF AnalyzedIsDecided
<1>7. CASE PassGate(w) \/ Fetch(w)
  BY <1>0, <1>1, <1>7 DEF PassGate, Fetch, AnalyzedIsDecided, PollOK, historyVars
<1>8. CASE Claim(w)
  <2>1. pc[w] = "claim" /\ Same
    BY <1>8 DEF Claim, historyVars
  <2>2. CASE Defer(w, cur[w])
    <3>1. pc'[w] = "next"
      BY <1>0, <2>2 DEF Defer, PollOK
    <3> QED BY <1>0, <1>1, <2>1, <3>1 DEF AnalyzedIsDecided
  <2>3. CASE ~Defer(w, cur[w])
    <3>1. pc'[w] = "fetch" /\ cur' = cur
      BY <1>0, <1>8, <2>3 DEF Claim, PollOK
    <3> QED BY <1>0, <1>1, <2>1, <3>1 DEF AnalyzedIsDecided
  <2> QED BY <2>2, <2>3
<1>9. CASE Answered(w) \/ ReplyBreaksParser(w)
  <2>1. pc'[w] = "record" /\ cur' = cur /\ pc[w] = "call"
    BY <1>0, <1>9 DEF Answered, ReplyBreaksParser, RecordNoCall, PollOK
  <2>2. /\ analyzed'[w] = analyzed[w] \cup {cur[w]}
        /\ \A v \in Worker \ {w} : analyzed'[v] = analyzed[v]
    BY <1>0, <1>9 DEF Answered, ReplyBreaksParser, HistoryOK
  <2> QED BY <1>0, <1>1, <2>1, <2>2 DEF AnalyzedIsDecided
<1>10. CASE AnalysisImpossible(w)
  <2>1. pc'[w] = "record" /\ Same /\ pc[w] \in {"fetch", "call"}
    BY <1>0, <1>10 DEF AnalysisImpossible, RecordNoCall, PollOK
  <2> QED BY <1>0, <1>1, <2>1 DEF AnalyzedIsDecided
<1>11. CASE Crash(w)
  BY <1>0, <1>11 DEF Crash, AnalyzedIsDecided, PollOK
<1> QED
  BY <1>2, <1>3, <1>4, <1>5, <1>6, <1>7, <1>8, <1>9, <1>10, <1>11 DEF WorkerStep, PollStep, FaultStep

\* So does every step.
LEMMA AnalyzedStep ==
  AnalyzedInv /\ LogNeverFails /\ [Next]_vars => AnalyzedInv'
<1> SUFFICES ASSUME AnalyzedInv, LogNeverFails, [Next]_vars PROVE AnalyzedInv'
  OBVIOUS
<1>0. TypeOK /\ TypeOK' /\ \A w \in Worker : AnalyzedIsDecided(w)
  BY NextType DEF AnalyzedInv
<1>1. ASSUME NEW w \in Worker, WorkerStep(w) PROVE AnalyzedInv'
  <2>1. ASSUME NEW v \in Worker \ {w} PROVE AnalyzedIsDecided(v)'
    <3>1. pc'[v] = pc[v] /\ cur'[v] = cur[v]
      BY <1>0, <1>1, OthersUntouched
    <3>2. analyzed'[v] = analyzed[v]
      BY <1>1, AnalyzedOwn
    <3>3. \A i : Decided(i) => Decided(i)'
      BY <1>0, <1>1, DecidedStays
    <3> QED BY <1>0, <3>1, <3>2, <3>3 DEF AnalyzedIsDecided
  <2>2. AnalyzedIsDecided(w)'
    BY <1>1, AnalyzedOwn
  <2> QED BY <1>0, <2>1, <2>2 DEF AnalyzedInv
<1>2. CASE (\E i \in Incident : Appear(i)) \/ Tick \/ UNCHANGED vars
  <2>1. UNCHANGED <<log, pc, cur, analyzed>>
    BY <1>2 DEF Appear, Tick, vars, logVars, historyVars
  <2> QED BY <1>0, <2>1 DEF AnalyzedInv, AnalyzedIsDecided, Decided
<1> QED BY <1>1, <1>2 DEF Next, WorkerStep

\* "An incident is marked done once analyzed" (ai-copilot/README.md:109): as long as
\* writes of the log do not fail, no life of a worker has the provider analyse an
\* incident a second time, whatever the end of a poll forgets and whoever else has claims.
THEOREM AnalyzedOncePerLife ==
  ASSUME LogNeverFails PROVE Spec => DoneOnceAnalyzed
<1>1. Init => AnalyzedInv
  <2> SUFFICES ASSUME Init PROVE AnalyzedInv
    OBVIOUS
  <2>1. TypeOK
    BY InitType
  <2> QED BY <2>1 DEF Init, AnalyzedInv, AnalyzedIsDecided
<1>2. AnalyzedInv /\ [Next]_vars => AnalyzedInv'
  BY AnalyzedStep
<1>3. AnalyzedInv => \A w \in Worker : Answered(w) \/ ReplyBreaksParser(w) => cur[w] \notin analyzed[w]
  BY DEF AnalyzedInv, AnalyzedIsDecided, Answered, ReplyBreaksParser
<1>4. AnalyzedInv /\ [Next]_vars => [\A w \in Worker : Answered(w) \/ ReplyBreaksParser(w) => cur[w] \notin analyzed[w]]_vars
  BY <1>3
<1> QED BY <1>1, <1>2, <1>4, PTL DEF Spec, DoneOnceAnalyzed
=============================================================================
