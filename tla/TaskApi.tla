------------------------------ MODULE TaskApi -------------------------------
(***************************************************************************)
(* The range's task API (range/api/app/routers/tasks.py) over its database *)
(* and its Redis cache.  Reads go to the cache first and fill it; writes   *)
(* commit and then delete the keys they made stale.  Requests run          *)
(* concurrently in one event loop and change places at every await, each   *)
(* of which is a step here.  Requests whose token is refused end before    *)
(* the first of these steps and are left out.                              *)
(*                                                                         *)
(* The table is kept with its history, so that a value that was read can   *)
(* be dated; what a row says is a version number, 0 for no row.            *)
(***************************************************************************)
EXTENDS Integers, Sequences, FiniteSetsExt

CONSTANTS Request,   \* requests, each made once
          Task,      \* task ids, in the order they are given out
          Existing,  \* those of the tasks made before
          Ttl,       \* CACHE_TTL_SECONDS
          Duration,  \* bound: time from a request's arrival to its end
          MaxClock, MaxFaults  \* bounds

ASSUME TaskAssumption ==
  /\ Task \subseteq Nat \ {0} /\ Existing \subseteq Task
  /\ {Ttl, Duration, MaxClock, MaxFaults} \subseteq Nat /\ Ttl > 0

VARIABLES clock,
          history,  \* of the table: its states and when each became current
          cache,    \* by key: what Redis holds under it
          req,      \* by request: where it is in its handler
          faults

vars == <<clock, history, cache, req, faults>>

All == 0   \* stands for the key tasks:all, as a task's id does for its own
Key == {All} \cup Task

\* What the rows named by a key say.
Rows(k)    == IF k = All THEN Task ELSE {k}
View(k, t) == [i \in Rows(k) |-> t[i]]

Table == history[Len(history)].rows

Write(rows) == history' = Append(history, [rows |-> rows, at |-> clock])
Version     == Len(history) + 1   \* new with every write

\* `writers` are the writes under way beside a read, `age` how long ago what was
\* answered had ceased to be true when the request came.
Idle == [at |-> "idle", op |-> "none", key |-> All, started |-> 0, writers |-> {},
         read |-> 0, code |-> 0, age |-> 0]

Reads  == {"list", "get"}
Writes == {"create", "update", "delete"}

Ended(r)    == req[r].at = "done"
Live(r)     == req[r].at \notin {"idle", "done"}
At(r, step) == req[r].at = step
Alive(k)    == cache[k].expires > clock

Nothing == [state |-> 0, writers |-> {}, expires |-> 0]

\* `read` and `state` point into the history: the table a value was read from.
TypeOK ==
  /\ clock \in 0..MaxClock /\ faults \in 0..MaxFaults
  /\ \A k \in Key :
       cache[k] = Nothing \/ /\ cache[k].state \in 1..Len(history)
                             /\ cache[k].expires \in clock..(clock + Ttl)
                             /\ \A r \in cache[k].writers : req[r].op \in Writes
  /\ \A r \in Request :
       /\ req[r].code \in {0, 200, 201, 204, 404, 500}
       /\ Ended(r) <=> req[r].code # 0
       /\ At(r, "put") => req[r].read \in 1..Len(history)
       /\ Live(r) => clock <= req[r].started + Duration

Init ==
  /\ clock = 0
  /\ history = <<[rows |-> [i \in Task |-> IF i \in Existing THEN 1 ELSE 0], at |-> 0]>>
  /\ cache = [k \in Key |-> Nothing]
  /\ req = [r \in Request |-> Idle]
  /\ faults = 0

Arrive(r, op, k) ==
  /\ At(r, "idle")
  /\ op \in {"list", "create"} <=> k = All
  /\ LET writers == IF op \in Reads THEN {q \in Request : Live(q) /\ req[q].op \in Writes} ELSE {}
         step == CASE op \in Reads    -> "lookup"
                   [] op = "create" -> "insert"
                   [] OTHER         -> "find"
     IN  req' = [q \in Request |->
                   CASE q = r -> [Idle EXCEPT !.at = step, !.op = op, !.key = k,
                                              !.started = clock, !.writers = writers]
                     [] q # r /\ op \in Writes /\ Live(q) /\ req[q].op \in Reads
                          -> [req[q] EXCEPT !.writers = @ \cup {r}]
                     [] OTHER -> req[q]]
  /\ UNCHANGED <<clock, history, cache, faults>>

\* What a key stood for in one state of the table was true until then.
TrueUntil(k, n) ==
  LET later == {j \in n..Len(history) : View(k, history[j].rows) # View(k, history[n].rows)}
  IN  IF later = {} THEN clock ELSE history[Min(later)].at

Goto(r, step)   == req' = [req EXCEPT ![r].at = step]
Answer(r, code) ==
  req' = [req EXCEPT ![r] = [Idle EXCEPT !.at = "done", !.op = req[r].op, !.code = code]]
AnswerFrom(r, state) ==
  req' = [req EXCEPT ![r] = [Idle EXCEPT !.at = "done", !.op = req[r].op, !.code = 200,
                               !.age = req[r].started - TrueUntil(req[r].key, state)]]

-----------------------------------------------------------------------------
(* list_tasks and get_task *)

Lookup(r) ==
  /\ At(r, "lookup")
  /\ IF Alive(req[r].key) THEN AnswerFrom(r, cache[req[r].key].state) ELSE Goto(r, "select")
  /\ UNCHANGED <<clock, history, cache, faults>>

\* A list may be empty, and is cached all the same; a task not found is not.
Select(r) ==
  /\ At(r, "select")
  /\ IF req[r].op = "get" /\ Table[req[r].key] = 0
     THEN Answer(r, 404)
     ELSE req' = [req EXCEPT ![r] = [@ EXCEPT !.at = "put", !.read = Len(history)]]
  /\ UNCHANGED <<clock, history, cache, faults>>

\* Mutant: the entry is stored without a time to live.
PutForever(r) ==
  /\ At(r, "put")
  /\ cache' = [cache EXCEPT ![req[r].key] =
                 [state |-> req[r].read, writers |-> req[r].writers, expires |-> MaxClock + Ttl + 1]]
  /\ AnswerFrom(r, req[r].read)
  /\ UNCHANGED <<clock, history, faults>>

\* Mutant: the entry outlives its time by one.
PutLonger(r) ==
  /\ At(r, "put")
  /\ cache' = [cache EXCEPT ![req[r].key] =
                 [state |-> req[r].read, writers |-> req[r].writers, expires |-> clock + Ttl + 1]]
  /\ AnswerFrom(r, req[r].read)
  /\ UNCHANGED <<clock, history, faults>>

Put(r) ==
  /\ At(r, "put")
  /\ cache' = [cache EXCEPT ![req[r].key] =
                 [state |-> req[r].read, writers |-> req[r].writers, expires |-> clock + Ttl]]
  /\ AnswerFrom(r, req[r].read)
  /\ UNCHANGED <<clock, history, faults>>

-----------------------------------------------------------------------------
(* create_task, update_task and delete_task *)

NotGiven == {i \in Task : \A n \in 1..Len(history) : history[n].rows[i] = 0}

Insert(r) ==
  /\ At(r, "insert") /\ NotGiven # {}
  /\ LET i == Min(NotGiven)
     IN  /\ Write([Table EXCEPT ![i] = Version])
         /\ req' = [req EXCEPT ![r] = [@ EXCEPT !.at = "refresh", !.key = i]]
  /\ UNCHANGED <<clock, cache, faults>>

Find(r) ==
  /\ At(r, "find")
  /\ IF Table[req[r].key] = 0 THEN Answer(r, 404) ELSE Goto(r, "commit")
  /\ UNCHANGED <<clock, history, cache, faults>>

\* An update of a row that has gone meanwhile raises; one that changes nothing
\* issues no statement.
CommitUpdate(r) ==
  /\ At(r, "commit") /\ req[r].op = "update"
  /\ \/ IF Table[req[r].key] = 0
        THEN Answer(r, 500) /\ UNCHANGED history
        ELSE Write([Table EXCEPT ![req[r].key] = Version]) /\ Goto(r, "refresh")
     \/ Goto(r, "refresh") /\ UNCHANGED history
  /\ UNCHANGED <<clock, cache, faults>>

\* Deleting a row that has gone meanwhile is only warned about.
CommitDelete(r) ==
  /\ At(r, "commit") /\ req[r].op = "delete"
  /\ IF Table[req[r].key] = 0 THEN UNCHANGED history ELSE Write([Table EXCEPT ![req[r].key] = 0])
  /\ Goto(r, "drop")
  /\ UNCHANGED <<clock, cache, faults>>

\* The row is read again for the answer; if it has gone this raises, and the
\* keys are not deleted.
Refresh(r) ==
  /\ At(r, "refresh")
  /\ IF Table[req[r].key] = 0
     THEN Answer(r, 500)
     ELSE Goto(r, "drop")
  /\ UNCHANGED <<clock, history, cache, faults>>

Code(op) == CASE op = "create" -> 201 [] op = "update" -> 200 [] op = "delete" -> 204

\* Mutant: only the task's own key.
StaleKeysOwn(r) == {req[r].key}

StaleKeys(r) == IF req[r].op = "create" THEN {All} ELSE {All, req[r].key}

Drop(r) ==
  /\ At(r, "drop")
  /\ cache' = [k \in Key |-> IF k \in StaleKeys(r) THEN Nothing ELSE cache[k]]
  /\ Answer(r, Code(req[r].op))
  /\ UNCHANGED <<clock, history, faults>>

-----------------------------------------------------------------------------
\* The database or Redis cannot be reached, or the process dies: a step is not
\* taken and the request ends.  (A commit of which the answer is lost is one
\* followed by this.)
Fail(r) ==
  /\ Live(r) /\ faults < MaxFaults
  /\ faults' = faults + 1
  /\ Answer(r, 500)
  /\ UNCHANGED <<clock, history, cache>>

\* Entries whose time has come are gone.
Tick ==
  /\ clock < MaxClock
  /\ \A r \in Request : Live(r) => clock < req[r].started + Duration
  /\ clock' = clock + 1
  /\ cache' = [k \in Key |-> IF cache[k].expires <= clock + 1 THEN Nothing ELSE cache[k]]
  /\ UNCHANGED <<history, req, faults>>

Handle(r) ==
  \/ Lookup(r) \/ Select(r) \/ Put(r)
  \/ Insert(r) \/ Find(r) \/ CommitUpdate(r) \/ CommitDelete(r) \/ Refresh(r) \/ Drop(r)

Next ==
  \/ \E r \in Request :
       \/ \E op \in Reads \cup Writes, k \in Key : Arrive(r, op, k)
       \/ Handle(r) \/ Fail(r)
  \/ Tick

Spec == Init /\ [][Next]_vars
-----------------------------------------------------------------------------
(* Properties *)

\* What a read answers was true less than a time-to-live, and the time another
\* request took to store what it had read, before the read began; also when a
\* write could not delete its keys, or a slow read put back what a write had
\* deleted (routers/tasks.py:30, :46).
StalenessBounded == \A r \in Request : req[r].age < Ttl + Duration

\* The cache is stale only by a race or a failure, which is what
\* tests/test_tasks.py:26 checks for requests in sequence: if an entry differs
\* from the table, then a write has not deleted its key yet, or never will
\* because it ended in an error, or was under way beside the read that stored it.
StaleOnlyByRace ==
  \A k \in Key :
    Alive(k) /\ View(k, history[cache[k].state].rows) # View(k, Table) =>
      \E w \in Request :
        /\ req[w].op \in Writes
        /\ Live(w) \/ req[w].code = 500 \/ w \in cache[k].writers
=============================================================================
