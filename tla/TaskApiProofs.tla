---------------------------- MODULE TaskApiProofs ----------------------------
(***************************************************************************)
(* How stale the task API's answers can be, and why, for any number of     *)
(* requests, tasks and faults and any time to live.                        *)
(***************************************************************************)
EXTENDS TaskApi, WellFoundedInduction, TLAPS

(***************************************************************************)
(* The invariant                                                           *)
(***************************************************************************)

State == [rows : [Task -> Nat], at : Nat]
Entry == [state : Nat, writers : SUBSET Request, expires : Nat]

ReadSteps  == {"lookup", "select", "put"}
WriteSteps == {"insert", "find", "commit", "refresh", "drop"}

Steps == ReadSteps \cup WriteSteps \cup {"idle", "done"}
Ops   == Reads \cup Writes \cup {"none"}
Codes == {0, 200, 201, 204, 404, 500}

Req == [at : Steps, op : Ops, key : Key, started : Nat, writers : SUBSET Request, read : Nat,
        code : Codes, age : Int]

Types ==
  /\ clock \in 0..MaxClock /\ faults \in 0..MaxFaults
  /\ history \in Seq(State) /\ Len(history) > 0
  /\ cache \in [Key -> Entry]
  /\ req \in [Request -> Req]

\* Which step belongs to which operation and key.
Place(r) ==
  /\ At(r, "idle") => req[r].op = "none"
  /\ req[r].code # 0 <=> Ended(r)
  /\ req[r].at \in ReadSteps => req[r].op \in Reads
  /\ req[r].at \in WriteSteps => req[r].op \in Writes
  /\ req[r].at \in ReadSteps => (req[r].op = "list" <=> req[r].key = All)
  /\ req[r].at \in WriteSteps \ {"insert"} => req[r].key \in Task
  /\ At(r, "insert") => req[r].op = "create"
  /\ At(r, "find") \/ At(r, "commit") => req[r].op # "create"

\* What a request has read became current after it arrived.
Dated(r) ==
  /\ Live(r) => req[r].started <= clock /\ clock <= req[r].started + Duration
  /\ At(r, "put") => /\ req[r].read \in 1..Len(history)
                     /\ req[r].op = "get" => history[req[r].read].rows[req[r].key] # 0
                     /\ \A j \in (req[r].read + 1)..Len(history) : history[j].at >= req[r].started
  /\ req[r].age < Ttl + Duration
  /\ \A w \in req[r].writers : req[w].op \in Writes

\* What is in the cache was current not much longer ago than its lifetime.
EntryOK(k) ==
  cache[k] # Nothing =>
    /\ cache[k].state \in 1..Len(history)
    /\ clock < cache[k].expires /\ cache[k].expires <= clock + Ttl
    /\ k # All => history[cache[k].state].rows[k] # 0
    /\ \A w \in cache[k].writers : req[w].op \in Writes
    /\ \A j \in (cache[k].state + 1)..Len(history) :
         history[j].at + Ttl + Duration >= cache[k].expires

\* A read knows the writes it meets.
Meet ==
  \A r, w \in Request :
    req[r].at \in ReadSteps /\ req[w].at \in WriteSteps => w \in req[r].writers

Stale(k, n) == View(k, history[n].rows) # View(k, Table)

\* Who is to blame for an entry that is stale.
Blamed(w, k) ==
  /\ req[w].op \in Writes
  /\ \/ req[w].at \in {"refresh", "drop"} /\ k \in StaleKeys(w)
     \/ req[w].code = 500
     \/ w \in cache[k].writers

StaleReads == \A r \in Request : At(r, "put") /\ Stale(req[r].key, req[r].read) => req[r].writers # {}

StaleEntries ==
  \A k \in Key : cache[k] # Nothing /\ Stale(k, cache[k].state) => \E w \in Request : Blamed(w, k)

ApiInv ==
  /\ Types
  /\ \A r \in Request : Place(r) /\ Dated(r)
  /\ \A k \in Key : EntryOK(k)
  /\ Meet /\ StaleReads /\ StaleEntries

(***************************************************************************)
(* Constants, and the table's history                                      *)
(***************************************************************************)

LEMMA Constants ==
  /\ Task \subseteq Nat \ {0} /\ Existing \subseteq Task
  /\ Ttl \in Nat /\ Duration \in Nat /\ MaxClock \in Nat /\ MaxFaults \in Nat /\ Ttl > 0
  /\ All \notin Task
BY TaskAssumption DEF All

LEMMA NothingType == Nothing \in Entry
BY DEF Nothing, Entry

LEMMA TableType ==
  ASSUME Types
  PROVE  Table \in [Task -> Nat]
<1>1. history[Len(history)] \in State
  BY DEF Types
<1> QED BY <1>1 DEF State, Table

\* The history stays, or grows by a state that becomes current now.
Grows ==
  \/ history' = history
  \/ \E rows \in [Task -> Nat] : history' = Append(history, [rows |-> rows, at |-> clock])

LEMMA Grown ==
  ASSUME Types, Grows
  PROVE  /\ history' \in Seq(State) /\ Len(history') >= Len(history) /\ Len(history) \in Nat
         /\ \A n \in 1..Len(history) : history'[n] = history[n]
         /\ \A n \in (Len(history) + 1)..Len(history') : history'[n].at = clock
<1>1. CASE history' = history
  BY <1>1 DEF Types
<1>2. ASSUME NEW rows \in [Task -> Nat],
             history' = Append(history, [rows |-> rows, at |-> clock])
      PROVE  /\ history' \in Seq(State) /\ Len(history') >= Len(history) /\ Len(history) \in Nat
             /\ \A n \in 1..Len(history) : history'[n] = history[n]
             /\ \A n \in (Len(history) + 1)..Len(history') : history'[n].at = clock
  <2>1. [rows |-> rows, at |-> clock] \in State
    BY DEF State, Types
  <2>2. history' \in Seq(State) /\ Len(history') = Len(history) + 1 /\ Len(history) \in Nat
    BY <1>2, <2>1 DEF Types
  <2>3. \A n \in 1..Len(history) : history'[n] = history[n]
    BY <1>2, <2>1 DEF Types
  <2>4. history'[Len(history) + 1] = [rows |-> rows, at |-> clock]
    BY <1>2, <2>1 DEF Types
  <2>5. \A n \in (Len(history) + 1)..Len(history') : n = Len(history) + 1
    BY <2>2
  <2> QED BY <2>2, <2>3, <2>4, <2>5
<1> QED BY <1>1, <1>2 DEF Grows

\* The least of a set of numbers.
LEMMA MinIsLeast ==
  ASSUME NEW S \in SUBSET Nat, S # {}
  PROVE  Min(S) \in S
<1>1. IsWellFoundedOn(OpToRel(<, Nat), Nat)
  BY NatLessThanWellFounded
<1>2. PICK m \in S : \A n \in S : ~(<<n, m>> \in OpToRel(<, Nat))
  BY <1>1, WFMin
<1>3. \A n \in S : m <= n
  <2> SUFFICES ASSUME NEW n \in S PROVE m <= n
    OBVIOUS
  <2>1. ~(n < m)
    BY <1>2 DEF OpToRel
  <2> QED BY <2>1
<1> QED BY <1>3 DEF Min

\* A value was true until some later state replaced it, or still is.
LEMMA TrueUntilBound ==
  ASSUME Types, NEW k, NEW n \in 1..Len(history), NEW b \in Int, b <= clock,
         \A j \in (n + 1)..Len(history) : history[j].at >= b
  PROVE  TrueUntil(k, n) \in Nat /\ TrueUntil(k, n) >= b
<1> DEFINE later == {j \in n..Len(history) : View(k, history[j].rows) # View(k, history[n].rows)}
<1>1. TrueUntil(k, n) = IF later = {} THEN clock ELSE history[Min(later)].at
  BY DEF TrueUntil
<1>2. clock \in Nat /\ \A j \in 1..Len(history) : history[j].at \in Nat
  <2>1. clock \in Nat
    BY Constants DEF Types
  <2>2. \A j \in 1..Len(history) : history[j] \in State
    BY DEF Types
  <2> QED BY <2>1, <2>2 DEF State
<1>3. CASE later = {}
  BY <1>1, <1>2, <1>3
<1>4. CASE later # {}
  <2>1. later \in SUBSET Nat /\ \A j \in later : j \in (n + 1)..Len(history)
    BY DEF Types
  <2>2. Min(later) \in later
    BY <1>4, <2>1, MinIsLeast
  <2>3. Min(later) \in (n + 1)..Len(history) /\ Min(later) \in 1..Len(history)
    BY <2>1, <2>2
  <2> HIDE DEF later
  <2> QED BY <1>1, <1>2, <1>4, <2>3
<1> QED BY <1>3, <1>4

(***************************************************************************)
(* Steps of one request                                                    *)
(***************************************************************************)

\* The others stay as they are.
Alone(r) ==
  /\ req' \in [Request -> Req]
  /\ \A q \in Request \ {r} : req'[q] = req[q]

\* It takes a step, and keeps what it knows.
To(r, step) ==
  /\ Alone(r)
  /\ req'[r].at = step /\ req'[r].op = req[r].op /\ req'[r].key = req[r].key
  /\ req'[r].started = req[r].started /\ req'[r].writers = req[r].writers
  /\ req'[r].read = req[r].read /\ req'[r].code = req[r].code /\ req'[r].age = req[r].age

LEMMA Moved ==
  ASSUME Types, NEW r \in Request, NEW step \in Steps, Goto(r, step)
  PROVE  To(r, step)
<1>1. req[r] \in Req /\ req \in [Request -> Req]
  BY DEF Types
<1>2. req' = [req EXCEPT ![r] = [req[r] EXCEPT !.at = step]]
  BY <1>1 DEF Goto
<1>3. [req[r] EXCEPT !.at = step] \in Req
  BY <1>1, Zenon DEF Req
<1>4. req' \in [Request -> Req] /\ req'[r] = [req[r] EXCEPT !.at = step]
  BY <1>1, <1>2, <1>3, Zenon
<1>5. \A q \in Request \ {r} : req'[q] = req[q]
  BY <1>1, <1>2
<1>6. Alone(r)
  BY <1>4, <1>5 DEF Alone
<1> QED BY <1>1, <1>4, <1>6 DEF To, Req

LEMMA IdleType == Idle \in Req
<1>1. "idle" \in Steps /\ "none" \in Ops /\ All \in Key /\ 0 \in Nat /\ 0 \in Int /\ 0 \in Codes
  BY DEF Steps, Ops, Key, Codes
<1> QED BY <1>1, Zenon DEF Idle, Req

\* It ends.
Ends(r, code) ==
  /\ Alone(r)
  /\ req'[r].at = "done" /\ req'[r].op = req[r].op /\ req'[r].writers = {} /\ req'[r].code = code

LEMMA Answered ==
  ASSUME Types, NEW r \in Request, NEW code \in Codes, Answer(r, code)
  PROVE  Ends(r, code) /\ req'[r].age = 0
<1> DEFINE new == [Idle EXCEPT !.at = "done", !.op = req[r].op, !.code = code]
<1>1. req[r] \in Req /\ req \in [Request -> Req]
  BY DEF Types
<1>2. req[r].op \in Ops /\ "done" \in Steps
  BY <1>1 DEF Req, Steps, Codes
<1>3. Idle \in Req
  BY IdleType
<1>4. new \in Req
  BY <1>2, <1>3, Zenon DEF Req
<1>5. req' = [req EXCEPT ![r] = new]
  BY DEF Answer
<1> HIDE DEF new
<1>6. req' \in [Request -> Req] /\ req'[r] = new
  BY <1>1, <1>4, <1>5, Zenon
<1>7. \A q \in Request \ {r} : req'[q] = req[q]
  BY <1>1, <1>5
<1>8. Alone(r)
  BY <1>6, <1>7 DEF Alone
<1>9. new.at = "done" /\ new.op = req[r].op /\ new.writers = {} /\ new.code = code /\ new.age = 0
  BY DEF new, Idle
<1> QED BY <1>6, <1>8, <1>9 DEF Ends

LEMMA AnsweredFrom ==
  ASSUME Types, NEW r \in Request, NEW n, AnswerFrom(r, n),
         TrueUntil(req[r].key, n) \in Nat
  PROVE  Ends(r, 200) /\ req'[r].age = req[r].started - TrueUntil(req[r].key, n)
<1> DEFINE new == [Idle EXCEPT !.at = "done", !.op = req[r].op, !.code = 200,
                               !.age = req[r].started - TrueUntil(req[r].key, n)]
<1>1. req[r] \in Req /\ req \in [Request -> Req]
  BY DEF Types
<1>2. req[r].op \in Ops /\ "done" \in Steps /\ 200 \in Codes
      /\ req[r].started - TrueUntil(req[r].key, n) \in Int
  BY <1>1 DEF Req, Steps, Codes
<1>3. Idle \in Req
  BY IdleType
<1>4. new \in Req
  BY <1>2, <1>3, Zenon DEF Req
<1>5. req' = [req EXCEPT ![r] = new]
  BY DEF AnswerFrom
<1> HIDE DEF new
<1>6. req' \in [Request -> Req] /\ req'[r] = new
  BY <1>1, <1>4, <1>5, Zenon
<1>7. \A q \in Request \ {r} : req'[q] = req[q]
  BY <1>1, <1>5
<1>8. Alone(r)
  BY <1>6, <1>7 DEF Alone
<1>9. /\ new.at = "done" /\ new.op = req[r].op /\ new.writers = {} /\ new.code = 200
      /\ new.age = req[r].started - TrueUntil(req[r].key, n)
  BY DEF new, Idle
<1> QED BY <1>6, <1>8, <1>9 DEF Ends

\* What the others know of the table stays true.
LEMMA OthersKeep ==
  ASSUME ApiInv, NEW r \in Request, Alone(r), req'[r].op = req[r].op, Grows, clock' = clock,
         NEW q \in Request \ {r}
  PROVE  Place(q)' /\ Dated(q)'
<1>1. req'[q] = req[q] /\ \A w \in Request : req'[w].op = req[w].op
  BY DEF Alone
<1>2. Place(q) /\ Dated(q)
  BY DEF ApiInv
<1>3. Place(q)'
  BY <1>1, <1>2 DEF Place, At, Ended
<1>4. /\ Len(history') \in Nat /\ Len(history) \in Nat /\ Len(history') >= Len(history)
      /\ \A n \in 1..Len(history) : history'[n] = history[n]
      /\ \A n \in (Len(history) + 1)..Len(history') : history'[n].at = clock
  BY Grown DEF ApiInv, Types
<1>5. clock \in Nat /\ req[q].started \in Nat /\ req[q].read \in Nat /\ req[q].writers \subseteq Request
  BY Constants DEF ApiInv, Types, Req
<1>6. ASSUME At(q, "put"), NEW j \in (req[q].read + 1)..Len(history')
      PROVE  history'[j].at >= req[q].started
  <2>1. req[q].started <= clock
    BY <1>2, <1>6 DEF Dated, At, Live
  <2>2. CASE j <= Len(history)
    BY <1>2, <1>4, <1>5, <1>6, <2>2 DEF Dated
  <2>3. CASE j > Len(history)
    BY <1>4, <1>5, <2>1, <2>3
  <2> QED BY <1>4, <1>5, <2>2, <2>3
<1>7. Dated(q)'
  BY <1>1, <1>2, <1>4, <1>5, <1>6 DEF Dated, At, Live
<1> QED BY <1>3, <1>7

LEMMA EntriesKeep ==
  ASSUME ApiInv, NEW r \in Request, Alone(r), req'[r].op = req[r].op, Grows, clock' = clock,
         NEW k \in Key, cache'[k] = cache[k] \/ cache'[k] = Nothing
  PROVE  EntryOK(k)'
<1>1. \A w \in Request : req'[w].op = req[w].op
  BY DEF Alone
<1>2. SUFFICES ASSUME cache[k] # Nothing, cache'[k] = cache[k] PROVE EntryOK(k)'
  BY DEF EntryOK
<1>3. EntryOK(k)
  BY DEF ApiInv
<1>4. /\ Len(history') \in Nat /\ Len(history) \in Nat /\ Len(history') >= Len(history)
      /\ \A n \in 1..Len(history) : history'[n] = history[n]
      /\ \A n \in (Len(history) + 1)..Len(history') : history'[n].at = clock
  BY Grown DEF ApiInv, Types
<1>5. clock \in Nat /\ Ttl \in Nat /\ Duration \in Nat
  BY Constants DEF ApiInv, Types
<1>6. cache[k].state \in Nat /\ cache[k].expires \in Nat /\ cache[k].writers \subseteq Request
  BY DEF ApiInv, Types, Entry
<1>7. ASSUME NEW j \in (cache[k].state + 1)..Len(history')
      PROVE  history'[j].at + Ttl + Duration >= cache[k].expires
  <2>1. CASE j <= Len(history)
    BY <1>2, <1>3, <1>4, <1>6, <2>1 DEF EntryOK
  <2>2. CASE j > Len(history)
    BY <1>2, <1>3, <1>4, <1>5, <1>6, <2>2 DEF EntryOK
  <2> QED BY <1>4, <1>6, <2>1, <2>2
<1>8. \A w \in cache[k].writers : req'[w].op \in Writes
  BY <1>1, <1>2, <1>3, <1>6 DEF EntryOK
<1> QED BY <1>2, <1>3, <1>4, <1>6, <1>7, <1>8 DEF EntryOK

\* A step of r does not make it meet others it did not know.
Orderly(r) ==
  /\ req'[r].at \in ReadSteps => req[r].at \in ReadSteps /\ req'[r].writers = req[r].writers
  /\ req'[r].at \in WriteSteps => req[r].at \in WriteSteps

LEMMA MeetKeeps ==
  ASSUME Meet, NEW r \in Request, Alone(r), Orderly(r)
  PROVE  Meet'
<1> SUFFICES ASSUME NEW q \in Request, NEW w \in Request,
                    req'[q].at \in ReadSteps, req'[w].at \in WriteSteps
             PROVE  w \in req'[q].writers
  BY DEF Meet
<1>1. req[q].at \in ReadSteps /\ req'[q].writers = req[q].writers
  BY DEF Alone, Orderly
<1>2. req[w].at \in WriteSteps
  BY DEF Alone, Orderly
<1> QED BY <1>1, <1>2 DEF Meet

\* A step that leaves the table alone.
LEMMA QuietStep ==
  ASSUME ApiInv, NEW r \in Request, Alone(r), req'[r].op = req[r].op, Orderly(r),
         UNCHANGED <<clock, history>>, faults' \in 0..MaxFaults,
         cache' \in [Key -> Entry],
         \A k \in Key : cache'[k] = cache[k] \/ cache'[k] = Nothing,
         Place(r)', Dated(r)',
         At(r, "put")' => req'[r].read = Len(history),
         \A k \in Key : cache'[k] = cache[k] /\ cache[k] # Nothing /\ Blamed(r, k) => Blamed(r, k)'
  PROVE  ApiInv'
<1>1. Grows /\ clock' = clock
  BY DEF Grows
<1>2. Types'
  BY DEF ApiInv, Types, Alone
<1>3. \A q \in Request : Place(q)' /\ Dated(q)'
  BY <1>1, OthersKeep
<1>4. \A k \in Key : EntryOK(k)'
  BY <1>1, EntriesKeep
<1>5. Meet'
  BY MeetKeeps DEF ApiInv
<1>6. \A k, n : Stale(k, n)' = Stale(k, n)
  BY DEF Stale, Table
<1>7. StaleReads'
  <2> SUFFICES ASSUME NEW q \in Request, At(q, "put")', Stale(req'[q].key, req'[q].read)
               PROVE  req'[q].writers # {}
    BY <1>6 DEF StaleReads
  <2>1. CASE q = r
    BY <2>1 DEF Stale, Table
  <2>2. CASE q # r
    BY <2>2 DEF Alone, ApiInv, StaleReads, At
  <2> QED BY <2>1, <2>2
<1>8. StaleEntries'
  <2> SUFFICES ASSUME NEW k \in Key, cache'[k] # Nothing, Stale(k, cache'[k].state)
               PROVE  \E w \in Request : Blamed(w, k)'
    BY <1>6 DEF StaleEntries
  <2>1. cache'[k] = cache[k]
    OBVIOUS
  <2>2. PICK w \in Request : Blamed(w, k)
    BY <2>1 DEF ApiInv, StaleEntries
  <2>3. CASE w = r
    BY <2>1, <2>2, <2>3
  <2>4. CASE w # r
    BY <2>1, <2>2, <2>4 DEF Alone, Blamed, StaleKeys
  <2> QED BY <2>3, <2>4
<1> QED BY <1>2, <1>3, <1>4, <1>5, <1>7, <1>8 DEF ApiInv

\* A step that writes a row: who held a copy of it is known to this writer, or
\* nobody can hold one.
LEMMA WritingStep ==
  ASSUME ApiInv, NEW r \in Request, Alone(r), req'[r].op = req[r].op, Orderly(r),
         NEW i \in Task, NEW v \in Nat,
         history' = Append(history, [rows |-> [Table EXCEPT ![i] = v], at |-> clock]),
         UNCHANGED <<clock, cache, faults>>,
         req[r].at \in WriteSteps, req'[r].at \in {"refresh", "drop"},
         req[r].at \notin {"refresh", "drop"},
         Place(r)', Dated(r)',
         All \in StaleKeys(r)',
         i \in StaleKeys(r)' \/ i \in NotGiven
  PROVE  ApiInv'
<1>1. Table \in [Task -> Nat] /\ clock \in Nat
  BY TableType, Constants DEF ApiInv, Types
<1> DEFINE rows == [Table EXCEPT ![i] = v]
<1>2. rows \in [Task -> Nat] /\ \A j \in Task \ {i} : rows[j] = Table[j]
  BY <1>1
<1> HIDE DEF rows
<1>3. history' = Append(history, [rows |-> rows, at |-> clock])
  BY DEF rows
<1>4. Grows /\ clock' = clock
  BY <1>2, <1>3 DEF Grows
<1>5. /\ history' \in Seq(State) /\ Len(history') \in Nat /\ Len(history') > 0
      /\ \A n \in 1..Len(history) : history'[n] = history[n]
      /\ history'[Len(history')].rows = rows
  <2>1. [rows |-> rows, at |-> clock] \in State
    BY <1>1, <1>2 DEF State
  <2> QED BY <1>3, <2>1 DEF ApiInv, Types
<1>6. Types'
  BY <1>5 DEF ApiInv, Types, Alone
<1>7. \A q \in Request : Place(q)' /\ Dated(q)'
  BY <1>4, OthersKeep
<1>8. \A k \in Key : EntryOK(k)'
  BY <1>4, EntriesKeep
<1>9. Meet'
  BY MeetKeeps DEF ApiInv
<1>10. ASSUME NEW k \in Key, NEW n \in 1..Len(history), k # All => history[n].rows[k] # 0,
              Stale(k, n)', k \notin StaleKeys(r)'
       PROVE  Stale(k, n)
  <2>1. k \in Task /\ k # All
    BY <1>10 DEF Key
  <2>2. k # i
    BY <1>10, <2>1 DEF NotGiven
  <2>3. history'[n].rows[k] = history[n].rows[k] /\ rows[k] = Table[k]
    BY <1>2, <1>5, <2>1, <2>2
  <2>4. View(k, history'[n].rows) = View(k, history[n].rows)
    BY <1>5
  <2>5. View(k, rows) = View(k, Table)
    BY <2>1, <2>3 DEF View, Rows
  <2> QED BY <1>5, <1>10, <2>4, <2>5 DEF Stale, Table
<1>11. StaleReads'
  <2> SUFFICES ASSUME NEW q \in Request, req'[q].at = "put"
               PROVE  req'[q].writers # {}
    BY DEF StaleReads, At
  <2>1. q # r /\ req'[q] = req[q]
    BY DEF Alone
  <2> QED BY <2>1 DEF ApiInv, Meet, ReadSteps
<1>12. StaleEntries'
  <2> SUFFICES ASSUME NEW k \in Key, cache[k] # Nothing, Stale(k, cache[k].state)'
               PROVE  \E w \in Request : Blamed(w, k)'
    BY DEF StaleEntries, Stale
  <2>1. CASE k \in StaleKeys(r)'
    <3>1. req[r].op \in Writes
      BY DEF ApiInv, Place
    <3> QED BY <2>1, <3>1 DEF Blamed
  <2>2. CASE k \notin StaleKeys(r)'
    <3>1. Stale(k, cache[k].state)
      BY <1>10, <2>2 DEF ApiInv, EntryOK
    <3>2. PICK w \in Request : Blamed(w, k)
      BY <3>1 DEF ApiInv, StaleEntries
    <3>3. CASE w = r
      <4>1. req[r].code = 0
        BY DEF ApiInv, Place, Ended, WriteSteps
      <4>2. w \in cache[k].writers /\ req[w].op \in Writes
        BY <3>2, <3>3, <4>1 DEF Blamed
      <4> QED BY <3>3, <4>2 DEF Blamed
    <3>4. CASE w # r
      BY <3>2, <3>4 DEF Alone, Blamed, StaleKeys
    <3> QED BY <3>3, <3>4
  <2> QED BY <2>1, <2>2
<1> QED BY <1>6, <1>7, <1>8, <1>9, <1>11, <1>12 DEF ApiInv

(***************************************************************************)
(* The actions                                                             *)
(***************************************************************************)

LEMMA InitInv == Init => ApiInv
<1> SUFFICES ASSUME Init PROVE ApiInv
  OBVIOUS
<1> DEFINE rows == [i \in Task |-> IF i \in Existing THEN 1 ELSE 0]
<1>1. rows \in [Task -> Nat]
  OBVIOUS
<1>2. history = <<[rows |-> rows, at |-> 0]>>
  BY DEF Init
<1>3. [rows |-> rows, at |-> 0] \in State
  BY <1>1 DEF State
<1> HIDE DEF rows
<1>4. Types
  <2>1. history \in Seq(State) /\ Len(history) > 0
    BY <1>2, <1>3
  <2> QED BY <2>1, NothingType, IdleType, Constants DEF Init, Types
<1>5. \A r \in Request : Place(r) /\ Dated(r)
  BY Constants DEF Init, Idle, Place, Dated, At, Live, Ended, ReadSteps, WriteSteps
<1>6. \A k \in Key : cache[k] = Nothing
  BY DEF Init
<1>7. Meet /\ StaleReads
  BY DEF Init, Idle, Meet, StaleReads, At, ReadSteps
<1> QED BY <1>4, <1>5, <1>6, <1>7 DEF ApiInv, EntryOK, StaleEntries

\* A request goes to its next step without reading.
LEMMA StepDated ==
  ASSUME ApiInv, NEW r \in Request, NEW step, step # "put", Live(r), To(r, step), clock' = clock
  PROVE  Dated(r)'
<1>1. req[r] \in Req /\ Dated(r)
  BY DEF ApiInv, Types
<1>2. req[r].writers \subseteq Request
  BY <1>1 DEF Req
<1>3. \A w \in Request : req'[w].op = req[w].op
  BY DEF Alone, To
<1> QED BY <1>1, <1>2, <1>3 DEF Dated, Live, At, To

\* A request ends.
LEMMA EndsWell ==
  ASSUME ApiInv, NEW r \in Request, NEW code \in Nat \ {0}, Ends(r, code),
         req'[r].age < Ttl + Duration
  PROVE  Dated(r)' /\ Place(r)' /\ Orderly(r) /\ ~At(r, "put")'
<1>1. Dated(r)'
  BY DEF Dated, Live, At, Ends
<1>2. Place(r)'
  BY DEF Place, At, Ended, ReadSteps, WriteSteps, Ends
<1>3. Orderly(r)
  BY DEF Orderly, ReadSteps, WriteSteps, Ends
<1> QED BY <1>1, <1>2, <1>3 DEF At, Ends

\* A request ends with a plain answer, and nothing else happens in the table or
\* the cache but that entries go.
LEMMA AnswerStep ==
  ASSUME ApiInv, NEW r \in Request, Live(r), NEW code \in Codes, code # 0, Answer(r, code),
         UNCHANGED <<clock, history>>, faults' \in 0..MaxFaults,
         cache' \in [Key -> Entry],
         \A k \in Key : cache'[k] = cache[k] \/ cache'[k] = Nothing,
         \A k \in Key : cache'[k] = cache[k] /\ cache[k] # Nothing /\ k \in StaleKeys(r)
                         /\ req[r].at \in {"refresh", "drop"} => code = 500
  PROVE  ApiInv'
<1>1. Ends(r, code) /\ req'[r].age = 0
  BY Answered DEF ApiInv
<1>2. code \in Nat \ {0} /\ 0 < Ttl + Duration
  BY Constants DEF Codes
<1>3. Dated(r)' /\ Place(r)' /\ Orderly(r) /\ ~At(r, "put")'
  BY <1>1, <1>2, EndsWell
<1>4. ASSUME NEW k \in Key, cache'[k] = cache[k], cache[k] # Nothing, Blamed(r, k)
      PROVE  Blamed(r, k)'
  <2>1. req[r].code # 500
    BY DEF ApiInv, Place, Live, Ended
  <2> QED BY <1>1, <1>4, <2>1 DEF Blamed, Ends
<1> QED BY <1>1, <1>3, <1>4, QuietStep DEF Ends

\* A request that is under way is at one of the steps.
LEMMA LiveSteps ==
  ASSUME Types, NEW r \in Request
  PROVE  Live(r) <=> req[r].at \in ReadSteps \cup WriteSteps
<1>1. req[r].at \in Steps
  BY DEF Types, Req
<1> QED BY <1>1 DEF Steps, Live, ReadSteps, WriteSteps

\* What a read answers from was true not long before it arrived.
LEMMA AnswerFromStep ==
  ASSUME ApiInv, NEW r \in Request, NEW n \in 1..Len(history), AnswerFrom(r, n),
         NEW b \in Int, b <= clock, req[r].started < b + Ttl + Duration,
         \A j \in (n + 1)..Len(history) : history[j].at >= b
  PROVE  Ends(r, 200) /\ Dated(r)' /\ Place(r)' /\ Orderly(r) /\ ~At(r, "put")'
<1>1. Types /\ Ttl \in Nat /\ Duration \in Nat
  BY Constants DEF ApiInv
<1> DEFINE t == TrueUntil(req[r].key, n)
<1>2. t \in Nat /\ t >= b
  BY <1>1, TrueUntilBound
<1>3. Ends(r, 200) /\ req'[r].age = req[r].started - t
  BY <1>1, <1>2, AnsweredFrom
<1>4. req[r].started \in Nat
  BY <1>1 DEF Types, Req
<1> HIDE DEF t
<1>5. req'[r].age < Ttl + Duration
  BY <1>1, <1>2, <1>3, <1>4
<1> QED BY <1>3, <1>5, EndsWell

LEMMA LookupInv ==
  ASSUME ApiInv, NEW r \in Request, Lookup(r)
  PROVE  ApiInv'
<1>1. req[r] \in Req /\ req[r].key \in Key /\ Types /\ At(r, "lookup") /\ cache \in [Key -> Entry]
  BY DEF ApiInv, Types, Req, Lookup
<1>2. Live(r) /\ req[r].op \in Reads /\ req[r].code = 0
  BY <1>1 DEF Live, At, Ended, ApiInv, Place, ReadSteps
<1>3. UNCHANGED <<clock, history, cache, faults>>
  BY DEF Lookup
<1>4. \A k \in Key : ~Blamed(r, k)
  BY <1>2 DEF Blamed, Reads, Writes
<1>5. faults \in 0..MaxFaults
  BY <1>1 DEF Types
<1>6. CASE Alive(req[r].key)
  <2> DEFINE k == req[r].key
             n == cache[k].state
             e == cache[k].expires
             b == e - Ttl - Duration
  <2>1. clock \in Nat /\ Ttl \in Nat /\ Duration \in Nat /\ cache[k] \in Entry
    BY <1>1, Constants DEF Types
  <2>2. cache[k] # Nothing
    BY <1>6, <2>1 DEF Alive, Nothing
  <2>3. req[r].started <= clock /\ req[r].started \in Nat
    BY <1>1, <1>2 DEF ApiInv, Dated, Req
  <2>4. /\ n \in 1..Len(history) /\ clock < e /\ e <= clock + Ttl
        /\ \A j \in (n + 1)..Len(history) : history[j].at + Ttl + Duration >= e
    BY <1>1, <2>2 DEF ApiInv, EntryOK
  <2>5. e \in Nat
    BY <2>1 DEF Entry
  <2> HIDE DEF e
  <2>6. b \in Int /\ b <= clock /\ req[r].started < b + Ttl + Duration
    BY <2>1, <2>3, <2>4, <2>5
  <2>7. \A j \in 1..Len(history) : history[j].at \in Nat
    <3>1. \A j \in 1..Len(history) : history[j] \in State
      BY <1>1 DEF Types
    <3> QED BY <3>1 DEF State
  <2>8. Len(history) \in Nat
    BY <1>1 DEF Types
  <2>9. ASSUME NEW j \in (n + 1)..Len(history) PROVE history[j].at >= b
    <3>1. history[j].at \in Nat /\ history[j].at + Ttl + Duration >= e
      BY <2>4, <2>7, <2>8
    <3> QED BY <2>1, <2>5, <3>1
  <2>10. AnswerFrom(r, n)
    BY <1>6 DEF Lookup
  <2> HIDE DEF n, b
  <2>11. Ends(r, 200) /\ Dated(r)' /\ Place(r)' /\ Orderly(r) /\ ~At(r, "put")'
    BY <2>4, <2>6, <2>9, <2>10, AnswerFromStep
  <2> QED BY <1>1, <1>3, <1>4, <1>5, <2>11, QuietStep DEF Ends
<1>7. CASE ~Alive(req[r].key)
  <2>1. Goto(r, "select") /\ "select" \in Steps
    BY <1>7 DEF Lookup, Steps, ReadSteps
  <2>2. To(r, "select")
    BY <1>1, <2>1, Moved
  <2>3. Dated(r)'
    BY <1>2, <1>3, <2>2, StepDated
  <2>4. Place(r)'
    BY <1>1, <1>2, <2>2 DEF To, ApiInv, Place, At, Ended, ReadSteps, WriteSteps
  <2>5. Orderly(r)
    BY <1>1, <2>2 DEF To, Orderly, At, ReadSteps, WriteSteps
  <2> QED BY <1>1, <1>3, <1>4, <1>5, <2>2, <2>3, <2>4, <2>5, QuietStep DEF To, At
<1> QED BY <1>6, <1>7

LEMMA SelectInv ==
  ASSUME ApiInv, NEW r \in Request, Select(r)
  PROVE  ApiInv'
<1>1. /\ req[r] \in Req /\ req \in [Request -> Req] /\ Types /\ At(r, "select")
      /\ cache \in [Key -> Entry] /\ faults \in 0..MaxFaults
  BY DEF ApiInv, Types, Select
<1>2. Live(r) /\ req[r].op \in Reads /\ req[r].code = 0
  BY <1>1 DEF Live, At, Ended, ApiInv, Place, ReadSteps
<1>3. UNCHANGED <<clock, history, cache, faults>>
  BY DEF Select
<1>4. \A k \in Key : ~Blamed(r, k)
  BY <1>2 DEF Blamed, Reads, Writes
<1>5. CASE req[r].op = "get" /\ Table[req[r].key] = 0
  <2>1. Answer(r, 404) /\ 404 \in Codes
    BY <1>5 DEF Select, Codes
  <2>2. req[r].at \notin {"refresh", "drop"}
    BY <1>1 DEF At
  <2> QED BY <1>1, <1>2, <1>3, <2>1, <2>2, AnswerStep
<1>6. CASE ~(req[r].op = "get" /\ Table[req[r].key] = 0)
  <2> DEFINE n == Len(history)
             new == [req[r] EXCEPT !.at = "put", !.read = n]
  <2>1. n \in Nat /\ n \in 1..Len(history) /\ "put" \in Steps
    BY <1>1 DEF Types, Steps, ReadSteps
  <2>2. req' = [req EXCEPT ![r] = new]
    BY <1>1, <1>6 DEF Select
  <2> HIDE DEF n
  <2>3. new \in Req
    BY <1>1, <2>1, Zenon DEF Req
  <2> HIDE DEF new
  <2>4. req' \in [Request -> Req] /\ req'[r] = new
    BY <1>1, <2>2, <2>3, Zenon
  <2>5. Alone(r)
    BY <1>1, <2>2, <2>4 DEF Alone
  <2>6. /\ req'[r].at = "put" /\ req'[r].read = n /\ req'[r].op = req[r].op
        /\ req'[r].key = req[r].key /\ req'[r].started = req[r].started
        /\ req'[r].writers = req[r].writers /\ req'[r].code = req[r].code
        /\ req'[r].age = req[r].age
    BY <1>1, <2>4 DEF new, Req
  <2>7. Place(r)'
    BY <1>1, <1>2, <2>6 DEF ApiInv, Place, At, Ended, ReadSteps, WriteSteps
  <2>8. Orderly(r)
    BY <1>1, <2>6 DEF Orderly, At, ReadSteps, WriteSteps
  <2>9. req[r].op = "get" => history[n].rows[req[r].key] # 0
    BY <1>6 DEF Table, n
  <2>10. Dated(r)'
    <3>1. Dated(r) /\ req[r].writers \subseteq Request
      BY <1>1 DEF ApiInv, Req
    <3>2. \A w \in Request : req'[w].op = req[w].op
      BY <2>5, <2>6 DEF Alone
    <3>3. (n + 1)..Len(history) = {}
      BY <2>1 DEF n
    <3> QED BY <1>2, <1>3, <2>1, <2>6, <2>9, <3>1, <3>2, <3>3 DEF Dated, Live, At
  <2>11. req'[r].read = Len(history)
    BY <2>6 DEF n
  <2> QED BY <1>1, <1>3, <1>4, <2>5, <2>6, <2>7, <2>8, <2>10, <2>11, QuietStep
<1> QED BY <1>5, <1>6

LEMMA FindInv ==
  ASSUME ApiInv, NEW r \in Request, Find(r)
  PROVE  ApiInv'
<1>1. /\ req[r] \in Req /\ Types /\ At(r, "find")
      /\ cache \in [Key -> Entry] /\ faults \in 0..MaxFaults
  BY DEF ApiInv, Types, Find
<1>2. Live(r) /\ req[r].code = 0
  BY <1>1 DEF Live, At, Ended, ApiInv, Place
<1>3. UNCHANGED <<clock, history, cache, faults>>
  BY DEF Find
<1>4. CASE Table[req[r].key] = 0
  <2>1. Answer(r, 404) /\ 404 \in Codes
    BY <1>4 DEF Find, Codes
  <2>2. req[r].at \notin {"refresh", "drop"}
    BY <1>1 DEF At
  <2> QED BY <1>1, <1>2, <1>3, <2>1, <2>2, AnswerStep
<1>5. CASE Table[req[r].key] # 0
  <2>1. Goto(r, "commit") /\ "commit" \in Steps
    BY <1>5 DEF Find, Steps, WriteSteps
  <2>2. To(r, "commit")
    BY <1>1, <2>1, Moved
  <2>3. Dated(r)'
    BY <1>2, <1>3, <2>2, StepDated
  <2>4. Place(r)'
    BY <1>1, <1>2, <2>2 DEF To, ApiInv, Place, At, Ended, ReadSteps, WriteSteps
  <2>5. Orderly(r)
    BY <1>1, <2>2 DEF To, Orderly, At, ReadSteps, WriteSteps
  <2>6. \A k \in Key : cache'[k] = cache[k] /\ Blamed(r, k) => Blamed(r, k)'
    BY <1>1, <2>2 DEF To, At, Blamed
  <2> QED BY <1>1, <1>3, <2>2, <2>3, <2>4, <2>5, <2>6, QuietStep DEF To, At
<1> QED BY <1>4, <1>5

LEMMA RefreshInv ==
  ASSUME ApiInv, NEW r \in Request, Refresh(r)
  PROVE  ApiInv'
<1>1. /\ req[r] \in Req /\ Types /\ At(r, "refresh")
      /\ cache \in [Key -> Entry] /\ faults \in 0..MaxFaults
  BY DEF ApiInv, Types, Refresh
<1>2. Live(r) /\ req[r].code = 0
  BY <1>1 DEF Live, At, Ended, ApiInv, Place
<1>3. UNCHANGED <<clock, history, cache, faults>>
  BY DEF Refresh
<1>4. CASE Table[req[r].key] = 0
  <2>1. Answer(r, 500) /\ 500 \in Codes
    BY <1>4 DEF Refresh, Codes
  <2> QED BY <1>1, <1>2, <1>3, <2>1, AnswerStep
<1>5. CASE Table[req[r].key] # 0
  <2>1. Goto(r, "drop") /\ "drop" \in Steps
    BY <1>5 DEF Refresh, Steps, WriteSteps
  <2>2. To(r, "drop")
    BY <1>1, <2>1, Moved
  <2>3. Dated(r)'
    BY <1>2, <1>3, <2>2, StepDated
  <2>4. Place(r)'
    BY <1>1, <1>2, <2>2 DEF To, ApiInv, Place, At, Ended, ReadSteps, WriteSteps
  <2>5. Orderly(r)
    BY <1>1, <2>2 DEF To, Orderly, At, ReadSteps, WriteSteps
  <2>6. \A k \in Key : cache'[k] = cache[k] /\ Blamed(r, k) => Blamed(r, k)'
    BY <1>1, <2>2 DEF To, At, Blamed, StaleKeys
  <2> QED BY <1>1, <1>3, <2>2, <2>3, <2>4, <2>5, <2>6, QuietStep DEF To, At
<1> QED BY <1>4, <1>5

LEMMA DropInv ==
  ASSUME ApiInv, NEW r \in Request, Drop(r)
  PROVE  ApiInv'
<1>1. /\ req[r] \in Req /\ Types /\ At(r, "drop")
      /\ cache \in [Key -> Entry] /\ faults \in 0..MaxFaults
  BY DEF ApiInv, Types, Drop
<1>2. Live(r) /\ req[r].op \in Writes
  BY <1>1 DEF Live, At, ApiInv, Place, WriteSteps
<1>3. UNCHANGED <<clock, history, faults>> /\ Answer(r, Code(req[r].op))
      /\ cache' = [k \in Key |-> IF k \in StaleKeys(r) THEN Nothing ELSE cache[k]]
  BY DEF Drop
<1>4. Code(req[r].op) \in Codes /\ Code(req[r].op) # 0
  BY <1>2 DEF Code, Codes, Writes
<1>5. /\ cache' \in [Key -> Entry]
      /\ \A k \in Key : cache'[k] = cache[k] \/ cache'[k] = Nothing
      /\ \A k \in Key : k \in StaleKeys(r) => cache'[k] = Nothing
  BY <1>1, <1>3, NothingType
<1> QED BY <1>1, <1>2, <1>3, <1>4, <1>5, AnswerStep

LEMMA FailInv ==
  ASSUME ApiInv, NEW r \in Request, Fail(r)
  PROVE  ApiInv'
<1>1. /\ Live(r) /\ Answer(r, 500) /\ UNCHANGED <<clock, history, cache>>
      /\ cache \in [Key -> Entry] /\ 500 \in Codes
  BY DEF ApiInv, Types, Fail, Codes
<1>2. faults' \in 0..MaxFaults
  BY Constants DEF ApiInv, Types, Fail
<1> QED BY <1>1, <1>2, AnswerStep

\* What a request has read goes into the cache as it was.
LEMMA PutInv ==
  ASSUME ApiInv, NEW r \in Request, Put(r)
  PROVE  ApiInv'
<1>0. /\ req[r] \in Req /\ req[r].key \in Key /\ req[r].read \in Nat /\ Types
      /\ req \in [Request -> Req]
  BY DEF ApiInv, Types, Req
<1> PICK k \in Key, n \in Nat : k = req[r].key /\ n = req[r].read
  BY <1>0
<1> DEFINE entry == [state |-> n, writers |-> req[r].writers, expires |-> clock + Ttl]
<1>1. /\ req[r] \in Req /\ Types /\ At(r, "put") /\ cache \in [Key -> Entry]
      /\ UNCHANGED <<clock, history, faults>> /\ AnswerFrom(r, n)
      /\ cache' = [cache EXCEPT ![k] = entry]
  BY DEF ApiInv, Types, Put
<1>2. /\ k \in Key /\ n \in Nat /\ req[r].started \in Nat /\ req[r].writers \subseteq Request
      /\ clock \in Nat /\ Ttl \in Nat /\ Duration \in Nat /\ Ttl > 0
  BY <1>1, Constants DEF Req, Types
<1>3. Live(r) /\ req[r].op \in Reads /\ req[r].code = 0
  BY <1>1 DEF Live, At, Ended, ApiInv, Place, ReadSteps
<1>4. /\ req[r].started <= clock /\ clock <= req[r].started + Duration
      /\ n \in 1..Len(history)
      /\ req[r].op = "get" => history[n].rows[k] # 0
      /\ \A j \in (n + 1)..Len(history) : history[j].at >= req[r].started
      /\ \A w \in req[r].writers : req[w].op \in Writes
  BY <1>1, <1>3 DEF ApiInv, Dated
<1>5. k # All => req[r].op = "get"
  BY <1>1, <1>3 DEF ApiInv, Place, At, ReadSteps, Reads
<1>6. req[r].started < req[r].started + Ttl + Duration /\ req[r].started \in Int
  BY <1>2
<1>7. entry \in Entry
  BY <1>2 DEF Entry
<1>8. entry.state = n /\ entry.writers = req[r].writers /\ entry.expires = clock + Ttl
  OBVIOUS
<1> HIDE DEF entry
<1>9. /\ cache' \in [Key -> Entry] /\ cache'[k] = entry
      /\ \A l \in Key \ {k} : cache'[l] = cache[l]
  BY <1>1, <1>2, <1>7
<1>10. Ends(r, 200) /\ Dated(r)' /\ Place(r)' /\ Orderly(r) /\ ~At(r, "put")'
  BY <1>1, <1>4, <1>6, AnswerFromStep
<1>11. Alone(r) /\ req'[r].op = req[r].op /\ \A w \in Request : req'[w].op = req[w].op
  BY <1>10 DEF Ends, Alone
<1>12. Types'
  BY <1>1, <1>9, <1>11 DEF Types, Alone
<1>13. Grows /\ clock' = clock
  BY <1>1 DEF Grows
<1>14. \A q \in Request : Place(q)' /\ Dated(q)'
  BY <1>10, <1>11, <1>13, OthersKeep
<1>15. Meet'
  BY <1>10, <1>11, MeetKeeps DEF ApiInv
<1>16. EntryOK(k)'
  <2>1. ASSUME NEW j \in (n + 1)..Len(history)
        PROVE  history[j].at + Ttl + Duration >= clock + Ttl
    <3>1. history[j] \in State
      BY <1>1, <1>2, <1>4 DEF Types
    <3>2. history[j].at \in Nat /\ history[j].at >= req[r].started
      BY <1>4, <3>1 DEF State
    <3> QED BY <1>2, <1>4, <3>2
  <2>2. \A w \in req[r].writers : req'[w].op \in Writes
    BY <1>2, <1>4, <1>11
  <2>3. clock < clock + Ttl /\ clock + Ttl <= clock + Ttl
    BY <1>2
  <2> QED BY <1>1, <1>4, <1>5, <1>8, <1>9, <2>1, <2>2, <2>3 DEF EntryOK
<1>17. \A l \in Key : EntryOK(l)'
  BY <1>9, <1>11, <1>13, <1>16, EntriesKeep
<1>18. \A l, m : Stale(l, m)' = Stale(l, m)
  BY <1>1 DEF Stale, Table
<1>19. StaleReads'
  <2> SUFFICES ASSUME NEW q \in Request, At(q, "put")', Stale(req'[q].key, req'[q].read)
               PROVE  req'[q].writers # {}
    BY <1>18 DEF StaleReads
  <2>1. q # r /\ req'[q] = req[q]
    BY <1>10, <1>11 DEF Alone
  <2> QED BY <2>1 DEF ApiInv, StaleReads, At
<1>20. StaleEntries'
  <2> SUFFICES ASSUME NEW l \in Key, cache'[l] # Nothing, Stale(l, cache'[l].state)
               PROVE  \E w \in Request : Blamed(w, l)'
    BY <1>18 DEF StaleEntries
  <2>2. CASE l = k
    <3>1. Stale(k, n)
      BY <1>8, <1>9, <2>2
    <3>2. PICK w \in req[r].writers : TRUE
      BY <1>1, <3>1 DEF ApiInv, StaleReads
    <3>3. w \in Request /\ req'[w].op \in Writes
      BY <1>2, <1>4, <1>11
    <3> QED BY <1>8, <1>9, <2>2, <3>3 DEF Blamed
  <2>3. CASE l # k
    <3>1. cache'[l] = cache[l]
      BY <1>9, <2>3
    <3>2. PICK w \in Request : Blamed(w, l)
      BY <3>1 DEF ApiInv, StaleEntries
    <3>3. w # r
      BY <1>3, <3>2 DEF Blamed, Reads, Writes
    <3> QED BY <1>11, <3>1, <3>2, <3>3 DEF Alone, Blamed, StaleKeys
  <2> QED BY <2>2, <2>3
<1> QED BY <1>12, <1>14, <1>15, <1>17, <1>19, <1>20 DEF ApiInv

LEMMA CommitDeleteInv ==
  ASSUME ApiInv, NEW r \in Request, CommitDelete(r)
  PROVE  ApiInv'
<1>1. /\ req[r] \in Req /\ Types /\ At(r, "commit") /\ req[r].op = "delete"
      /\ cache \in [Key -> Entry] /\ faults \in 0..MaxFaults
  BY DEF ApiInv, Types, CommitDelete
<1>2. Live(r) /\ req[r].code = 0 /\ req[r].key \in Task
  BY <1>1 DEF Live, At, Ended, ApiInv, Place, WriteSteps
<1>3. UNCHANGED <<clock, cache, faults>> /\ Goto(r, "drop") /\ "drop" \in Steps
  BY DEF CommitDelete, Steps, WriteSteps
<1>4. To(r, "drop")
  BY <1>1, <1>3, Moved
<1>5. Dated(r)'
  BY <1>2, <1>3, <1>4, StepDated
<1>6. Place(r)'
  BY <1>1, <1>2, <1>4 DEF To, ApiInv, Place, At, Ended, ReadSteps, WriteSteps
<1>7. Orderly(r)
  BY <1>1, <1>4 DEF To, Orderly, At, ReadSteps, WriteSteps
<1>8. CASE Table[req[r].key] = 0
  <2>1. UNCHANGED history
    BY <1>8 DEF CommitDelete
  <2>2. \A k \in Key : cache'[k] = cache[k] /\ Blamed(r, k) => Blamed(r, k)'
    BY <1>1, <1>4 DEF To, At, Blamed
  <2> QED BY <1>1, <1>3, <1>4, <1>5, <1>6, <1>7, <2>1, <2>2, QuietStep DEF To, At
<1>9. CASE Table[req[r].key] # 0
  <2>1. history' = Append(history, [rows |-> [Table EXCEPT ![req[r].key] = 0], at |-> clock])
    BY <1>9 DEF CommitDelete, Write
  <2>2. StaleKeys(r)' = {All, req[r].key}
    BY <1>1, <1>4 DEF To, StaleKeys
  <2>3. req[r].at \in WriteSteps \ {"refresh", "drop"} /\ 0 \in Nat
    BY <1>1 DEF At, WriteSteps
  <2> QED BY <1>1, <1>2, <1>3, <1>4, <1>5, <1>6, <1>7, <2>1, <2>2, <2>3, WritingStep DEF To
<1> QED BY <1>8, <1>9

LEMMA CommitUpdateInv ==
  ASSUME ApiInv, NEW r \in Request, CommitUpdate(r)
  PROVE  ApiInv'
<1>1. /\ req[r] \in Req /\ Types /\ At(r, "commit") /\ req[r].op = "update"
      /\ cache \in [Key -> Entry] /\ faults \in 0..MaxFaults
      /\ UNCHANGED <<clock, cache, faults>>
  BY DEF ApiInv, Types, CommitUpdate
<1>2. Live(r) /\ req[r].code = 0 /\ req[r].key \in Task
  BY <1>1 DEF Live, At, Ended, ApiInv, Place, WriteSteps
<1>3. CASE Answer(r, 500) /\ UNCHANGED history
  <2>1. 500 \in Codes
    BY DEF Codes
  <2> QED BY <1>1, <1>2, <1>3, <2>1, AnswerStep
<1>4. ASSUME Goto(r, "refresh")
      PROVE  /\ To(r, "refresh") /\ Dated(r)' /\ Place(r)' /\ Orderly(r)
             /\ StaleKeys(r)' = {All, req[r].key}
  <2>1. "refresh" \in Steps
    BY DEF Steps, WriteSteps
  <2>2. To(r, "refresh")
    BY <1>1, <1>4, <2>1, Moved
  <2>3. Dated(r)'
    BY <1>1, <1>2, <2>2, StepDated
  <2>4. Place(r)'
    BY <1>1, <1>2, <2>2 DEF To, ApiInv, Place, At, Ended, ReadSteps, WriteSteps
  <2>5. Orderly(r)
    BY <1>1, <2>2 DEF To, Orderly, At, ReadSteps, WriteSteps
  <2>6. StaleKeys(r)' = {All, req[r].key}
    BY <1>1, <2>2 DEF To, StaleKeys
  <2> QED BY <2>2, <2>3, <2>4, <2>5, <2>6
<1>5. CASE Goto(r, "refresh") /\ UNCHANGED history
  <2>1. \A k \in Key : cache'[k] = cache[k] /\ Blamed(r, k) => Blamed(r, k)'
    BY <1>1, <1>4, <1>5 DEF To, At, Blamed
  <2> QED BY <1>1, <1>4, <1>5, <2>1, QuietStep DEF To, At
<1>6. CASE Goto(r, "refresh") /\ Write([Table EXCEPT ![req[r].key] = Version])
  <2>1. history' = Append(history, [rows |-> [Table EXCEPT ![req[r].key] = Version], at |-> clock])
    BY <1>6 DEF Write
  <2>2. Version \in Nat
    BY <1>1 DEF Types, Version
  <2>3. req[r].at \in WriteSteps \ {"refresh", "drop"}
    BY <1>1 DEF At, WriteSteps
  <2> QED BY <1>1, <1>2, <1>4, <1>6, <2>1, <2>2, <2>3, WritingStep DEF To
<1> QED BY <1>3, <1>5, <1>6 DEF CommitUpdate

LEMMA InsertInv ==
  ASSUME ApiInv, NEW r \in Request, Insert(r)
  PROVE  ApiInv'
<1> DEFINE i == Min(NotGiven)
           new == [req[r] EXCEPT !.at = "refresh", !.key = i]
<1>1. /\ req[r] \in Req /\ req \in [Request -> Req] /\ Types /\ At(r, "insert")
      /\ NotGiven # {} /\ UNCHANGED <<clock, cache, faults>>
      /\ req' = [req EXCEPT ![r] = new]
      /\ history' = Append(history, [rows |-> [Table EXCEPT ![i] = Version], at |-> clock])
  BY DEF ApiInv, Types, Insert, Write
<1>2. Live(r) /\ req[r].code = 0 /\ req[r].op = "create"
  BY <1>1 DEF Live, At, Ended, ApiInv, Place
<1>3. i \in NotGiven
  <2>1. NotGiven \subseteq Nat
    BY Constants DEF NotGiven
  <2> QED BY <1>1, <2>1, MinIsLeast
<1>4. i \in Task /\ i \in Key /\ "refresh" \in Steps
  BY <1>3 DEF NotGiven, Key, Steps, WriteSteps
<1> HIDE DEF i
<1>5. new \in Req
  BY <1>1, <1>4, Zenon DEF Req
<1>6. /\ new.at = "refresh" /\ new.key = i /\ new.op = req[r].op /\ new.started = req[r].started
      /\ new.writers = req[r].writers /\ new.read = req[r].read /\ new.code = req[r].code
      /\ new.age = req[r].age
  BY <1>1 DEF Req
<1> HIDE DEF new
<1>7. req' \in [Request -> Req] /\ req'[r] = new
  BY <1>1, <1>5, Zenon
<1>8. Alone(r)
  BY <1>1, <1>7 DEF Alone
<1>9. Place(r)'
  BY <1>1, <1>2, <1>4, <1>6, <1>7 DEF Place, At, Ended, ReadSteps, WriteSteps, Writes
<1>10. Orderly(r)
  BY <1>1, <1>6, <1>7 DEF Orderly, At, ReadSteps, WriteSteps
<1>11. Dated(r)'
  <2>1. Dated(r) /\ req[r].writers \subseteq Request
    BY <1>1 DEF ApiInv, Req
  <2>2. \A w \in Request : req'[w].op = req[w].op
    BY <1>6, <1>7, <1>8 DEF Alone
  <2> QED BY <1>1, <1>2, <1>6, <1>7, <2>1, <2>2 DEF Dated, Live, At
<1>12. StaleKeys(r)' = {All}
  BY <1>2, <1>6, <1>7 DEF StaleKeys
<1>13. Version \in Nat /\ req[r].at \in WriteSteps \ {"refresh", "drop"}
  BY <1>1 DEF Types, Version, At, WriteSteps
<1> QED BY <1>1, <1>3, <1>4, <1>6, <1>7, <1>8, <1>9, <1>10, <1>11, <1>12, <1>13, WritingStep

\* A request arrives: the others stay where they are, and reads and writes that
\* meet are told.
LEMMA Arrived ==
  ASSUME ApiInv, NEW r \in Request, NEW op \in Reads \cup Writes, NEW k \in Key, Arrive(r, op, k)
  PROVE  /\ req' \in [Request -> Req]
         /\ req'[r].op = op /\ req'[r].key = k /\ req'[r].started = clock
         /\ req'[r].code = 0 /\ req'[r].age = 0
         /\ op \in Reads => /\ req'[r].at = "lookup"
                            /\ req'[r].writers = {w \in Request : Live(w) /\ req[w].op \in Writes}
         /\ op = "create" => req'[r].at = "insert"
         /\ op \in {"update", "delete"} => req'[r].at = "find"
         /\ op \in Writes => req'[r].writers = {}
         /\ \A q \in Request \ {r} :
              /\ req'[q].at = req[q].at /\ req'[q].op = req[q].op /\ req'[q].key = req[q].key
              /\ req'[q].started = req[q].started /\ req'[q].read = req[q].read
              /\ req'[q].code = req[q].code /\ req'[q].age = req[q].age
              /\ req[q].writers \subseteq req'[q].writers
              /\ req'[q].writers \subseteq req[q].writers \cup (IF op \in Writes THEN {r} ELSE {})
              /\ op \in Writes /\ req[q].at \in ReadSteps => r \in req'[q].writers
<1> DEFINE writers == IF op \in Reads THEN {q \in Request : Live(q) /\ req[q].op \in Writes} ELSE {}
           step == CASE op \in Reads    -> "lookup"
                     [] op = "create" -> "insert"
                     [] OTHER         -> "find"
           new == [Idle EXCEPT !.at = step, !.op = op, !.key = k, !.started = clock,
                               !.writers = writers]
           told(q) == [req[q] EXCEPT !.writers = @ \cup {r}]
           next(q) == CASE q = r -> new
                        [] q # r /\ op \in Writes /\ Live(q) /\ req[q].op \in Reads -> told(q)
                        [] OTHER -> req[q]
<1>1. Types /\ clock \in Nat /\ Reads \cap Writes = {} /\ op \in Ops
  BY Constants DEF ApiInv, Types, Reads, Writes, Ops
<1>2. req' = [q \in Request |-> next(q)]
  BY DEF Arrive
<1>3. step \in Steps /\ writers \in SUBSET Request
  BY DEF Steps, ReadSteps, WriteSteps
<1>4. /\ op \in Reads => step = "lookup"
      /\ op = "create" => step = "insert"
      /\ op \in {"update", "delete"} => step = "find"
  BY DEF Reads
<1> HIDE DEF step, writers
<1>5. new \in Req
  BY <1>1, <1>3, IdleType, Zenon DEF Req
<1>6. /\ new.at = step /\ new.op = op /\ new.key = k /\ new.started = clock
      /\ new.writers = writers /\ new.code = 0 /\ new.age = 0
  BY DEF Idle
<1>7. ASSUME NEW q \in Request \ {r}
      PROVE  told(q) \in Req
  <2>1. req[q] \in Req /\ req[q].writers \cup {r} \in SUBSET Request
    BY <1>1 DEF Types, Req
  <2> QED BY <2>1, Zenon DEF Req
<1> HIDE DEF new
<1>8. \A q \in Request : next(q) \in Req
  BY <1>1, <1>5, <1>7 DEF Types
<1>9. req' \in [Request -> Req] /\ req'[r] = new
  BY <1>2, <1>8
<1>10. op \in Reads => writers = {w \in Request : Live(w) /\ req[w].op \in Writes}
  BY DEF writers
<1>11. op \in Writes => writers = {}
  BY <1>1 DEF writers
<1>12. ASSUME NEW q \in Request \ {r}
       PROVE  /\ req'[q].at = req[q].at /\ req'[q].op = req[q].op /\ req'[q].key = req[q].key
              /\ req'[q].started = req[q].started /\ req'[q].read = req[q].read
              /\ req'[q].code = req[q].code /\ req'[q].age = req[q].age
              /\ req[q].writers \subseteq req'[q].writers
              /\ req'[q].writers \subseteq req[q].writers \cup (IF op \in Writes THEN {r} ELSE {})
              /\ op \in Writes /\ req[q].at \in ReadSteps => r \in req'[q].writers
  <2>1. req[q] \in Req
    BY <1>1 DEF Types
  <2>2. CASE op \in Writes /\ Live(q) /\ req[q].op \in Reads
    <3>1. req'[q] = told(q)
      BY <1>2, <2>2
    <3> QED BY <2>1, <2>2, <3>1 DEF Req
  <2>3. CASE ~(op \in Writes /\ Live(q) /\ req[q].op \in Reads)
    <3>1. req'[q] = req[q]
      BY <1>2, <2>3
    <3>2. req[q].at \in ReadSteps => Live(q) /\ req[q].op \in Reads
      BY <1>1, LiveSteps DEF ApiInv, Place
    <3> QED BY <2>3, <3>1, <3>2
  <2> QED BY <2>2, <2>3
<1> QED BY <1>4, <1>6, <1>9, <1>10, <1>11, <1>12

LEMMA ArriveInv ==
  ASSUME ApiInv, NEW r \in Request, NEW op \in Reads \cup Writes, NEW k \in Key, Arrive(r, op, k)
  PROVE  ApiInv'
<1>1. /\ Types /\ clock \in Nat /\ Duration \in Nat /\ 0 < Ttl + Duration
      /\ UNCHANGED <<clock, history, cache, faults>>
      /\ At(r, "idle") /\ req[r].op = "none" /\ req[r].code = 0
      /\ op \in {"list", "create"} <=> k = All
  <2>1. Types /\ clock \in Nat /\ Duration \in Nat /\ 0 < Ttl + Duration
    BY Constants DEF ApiInv, Types
  <2>2. /\ UNCHANGED <<clock, history, cache, faults>> /\ At(r, "idle")
        /\ op \in {"list", "create"} <=> k = All
    BY DEF Arrive
  <2>3. req[r].op = "none" /\ req[r].code = 0
    BY <2>2 DEF ApiInv, Place, At, Ended
  <2> QED BY <2>1, <2>2, <2>3
<1>2. op \in Reads \/ op = "create" \/ op \in {"update", "delete"}
  BY DEF Writes
<1>3. \A q \in Request : req[q].op \in Writes => req'[q].op \in Writes /\ q # r
  BY <1>1, Arrived DEF Writes
<1>4. Types'
  BY <1>1, Arrived DEF Types
<1>5. Place(r)'
  <2>1. k # All => k \in Task
    BY DEF Key
  <2> QED BY <1>1, <1>2, <2>1, Arrived DEF Place, At, Ended, ReadSteps, WriteSteps, Reads, Writes
<1>6. Dated(r)'
  <2>1. \A w \in req'[r].writers : req'[w].op \in Writes
    BY <1>2, <1>3, Arrived DEF Writes
  <2>2. req'[r].at # "put" /\ req'[r].age = 0 /\ req'[r].started = clock
    BY <1>2, Arrived
  <2> QED BY <1>1, <2>1, <2>2 DEF Dated, Live, At
<1>7. ASSUME NEW q \in Request \ {r}
      PROVE  Place(q)' /\ Dated(q)'
  <2>1. Place(q) /\ Dated(q) /\ req[q].writers \subseteq Request
    BY <1>1 DEF ApiInv, Types, Req
  <2>2. /\ req'[q].at = req[q].at /\ req'[q].op = req[q].op /\ req'[q].key = req[q].key
        /\ req'[q].started = req[q].started /\ req'[q].read = req[q].read
        /\ req'[q].code = req[q].code /\ req'[q].age = req[q].age
        /\ req'[q].writers \subseteq req[q].writers \cup (IF op \in Writes THEN {r} ELSE {})
    BY Arrived
  <2>3. Place(q)'
    BY <2>1, <2>2 DEF Place, At, Ended
  <2>4. \A w \in req'[q].writers : req'[w].op \in Writes
    <3>1. op \in Writes => req'[r].op \in Writes
      BY Arrived
    <3> QED BY <1>3, <2>1, <2>2, <3>1 DEF Dated
  <2> QED BY <1>1, <2>1, <2>2, <2>3, <2>4 DEF Dated, Live, At
<1>8. \A l \in Key : EntryOK(l)'
  <2> SUFFICES ASSUME NEW l \in Key PROVE EntryOK(l)'
    OBVIOUS
  <2>1. EntryOK(l) /\ cache[l].writers \subseteq Request
    BY <1>1 DEF ApiInv, Types, Entry
  <2> QED BY <1>1, <1>3, <2>1 DEF EntryOK
<1>9. Meet'
  <2> SUFFICES ASSUME NEW q \in Request, NEW w \in Request,
                      req'[q].at \in ReadSteps, req'[w].at \in WriteSteps
               PROVE  w \in req'[q].writers
    BY DEF Meet
  <2>1. CASE q = r /\ w # r
    <3>1. op \in Reads
      BY <1>2, <2>1, Arrived DEF ReadSteps
    <3>2. req[w].at \in WriteSteps
      BY <2>1, Arrived
    <3>3. Live(w) /\ req[w].op \in Writes
      BY <1>1, <3>2, LiveSteps DEF ApiInv, Place
    <3> QED BY <2>1, <3>1, <3>3, Arrived
  <2>2. CASE q # r /\ w = r
    <3>1. op \in Writes
      BY <2>2, Arrived DEF WriteSteps
    <3> QED BY <2>2, <3>1, Arrived
  <2>3. CASE q # r /\ w # r
    BY <2>3, Arrived DEF ApiInv, Meet
  <2>4. CASE q = r /\ w = r
    BY <2>4 DEF ReadSteps, WriteSteps
  <2> QED BY <2>1, <2>2, <2>3, <2>4
<1>10. \A l, m : Stale(l, m)' = Stale(l, m)
  BY <1>1 DEF Stale, Table
<1>11. StaleReads'
  <2> SUFFICES ASSUME NEW q \in Request, At(q, "put")', Stale(req'[q].key, req'[q].read)
               PROVE  req'[q].writers # {}
    BY <1>10 DEF StaleReads
  <2>1. q # r
    BY <1>2, Arrived DEF At
  <2>2. At(q, "put") /\ Stale(req[q].key, req[q].read) /\ req[q].writers \subseteq req'[q].writers
    BY <2>1, Arrived DEF At
  <2> QED BY <2>2 DEF ApiInv, StaleReads
<1>12. StaleEntries'
  <2> SUFFICES ASSUME NEW l \in Key, cache[l] # Nothing, Stale(l, cache[l].state)
               PROVE  \E w \in Request : Blamed(w, l)'
    BY <1>1, <1>10 DEF StaleEntries
  <2>1. PICK w \in Request : Blamed(w, l)
    BY DEF ApiInv, StaleEntries
  <2>2. w # r /\ req[w].op \in Writes
    BY <1>3, <2>1 DEF Blamed
  <2>3. req'[w].at = req[w].at /\ req'[w].op = req[w].op /\ req'[w].key = req[w].key
        /\ req'[w].code = req[w].code
    BY <2>2, Arrived
  <2> QED BY <1>1, <2>1, <2>3 DEF Blamed, StaleKeys
<1> QED BY <1>4, <1>5, <1>6, <1>7, <1>8, <1>9, <1>11, <1>12 DEF ApiInv

LEMMA TickInv ==
  ASSUME ApiInv, Tick
  PROVE  ApiInv'
<1>1. /\ Types /\ clock \in Nat /\ MaxClock \in Nat /\ Duration \in Nat /\ cache \in [Key -> Entry]
      /\ UNCHANGED <<history, req, faults>> /\ clock' = clock + 1 /\ clock < MaxClock
      /\ \A r \in Request : Live(r) => clock < req[r].started + Duration
      /\ cache' = [k \in Key |-> IF cache[k].expires <= clock + 1 THEN Nothing ELSE cache[k]]
  BY Constants DEF ApiInv, Types, Tick
<1>2. /\ cache' \in [Key -> Entry]
      /\ \A k \in Key : \/ cache'[k] = Nothing
                        \/ cache'[k] = cache[k] /\ ~(cache[k].expires <= clock + 1)
  <2> DEFINE next(k) == IF cache[k].expires <= clock + 1 THEN Nothing ELSE cache[k]
  <2>1. \A k \in Key : /\ next(k) \in Entry
                      /\ \/ next(k) = Nothing
                         \/ next(k) = cache[k] /\ ~(cache[k].expires <= clock + 1)
    BY <1>1, NothingType
  <2>2. cache' = [k \in Key |-> next(k)]
    BY <1>1
  <2> HIDE DEF next
  <2> QED BY <2>1, <2>2
<1>3. Types'
  BY <1>1, <1>2, Constants DEF Types
<1>4. ASSUME NEW r \in Request
      PROVE  Place(r)' /\ Dated(r)'
  <2>1. Place(r) /\ Dated(r) /\ req[r].started \in Nat
    BY <1>1 DEF ApiInv, Types, Req
  <2>2. Place(r)'
    BY <1>1, <2>1 DEF Place, At, Ended
  <2>3. Live(r) => req[r].started <= clock + 1 /\ clock + 1 <= req[r].started + Duration
    BY <1>1, <2>1 DEF Dated
  <2> QED BY <1>1, <2>1, <2>2, <2>3 DEF Dated, Live, At
<1>5. ASSUME NEW k \in Key
      PROVE  EntryOK(k)'
  <2>1. EntryOK(k) /\ cache[k] \in Entry /\ Ttl \in Nat
    BY <1>1, Constants DEF ApiInv
  <2>2. CASE cache'[k] = Nothing
    BY <2>2 DEF EntryOK
  <2>3. CASE cache'[k] = cache[k] /\ cache[k] # Nothing /\ ~(cache[k].expires <= clock + 1)
    <3>1. clock + 1 < cache[k].expires /\ cache[k].expires <= clock + 1 + Ttl
      BY <1>1, <2>1, <2>3 DEF EntryOK, Entry
    <3> QED BY <1>1, <2>1, <2>3, <3>1 DEF EntryOK
  <2> QED BY <1>2, <2>2, <2>3
<1>6. Meet' /\ StaleReads'
  BY <1>1 DEF ApiInv, Meet, StaleReads, Stale, Table, At
<1>7. StaleEntries'
  <2> SUFFICES ASSUME NEW k \in Key, cache'[k] # Nothing, Stale(k, cache'[k].state)
               PROVE  \E w \in Request : Blamed(w, k)'
    BY <1>1 DEF StaleEntries, Stale, Table
  <2>1. cache'[k] = cache[k]
    BY <1>2
  <2>2. PICK w \in Request : Blamed(w, k)
    BY <2>1 DEF ApiInv, StaleEntries
  <2> QED BY <1>1, <2>1, <2>2 DEF Blamed, StaleKeys
<1> QED BY <1>3, <1>4, <1>5, <1>6, <1>7 DEF ApiInv

(***************************************************************************)
(* The theorems                                                            *)
(***************************************************************************)

LEMMA StepInv == ApiInv /\ [Next]_vars => ApiInv'
<1> SUFFICES ASSUME ApiInv, [Next]_vars PROVE ApiInv'
  OBVIOUS
<1>1. ASSUME NEW r \in Request, NEW op \in Reads \cup Writes, NEW k \in Key, Arrive(r, op, k)
      PROVE  ApiInv'
  BY <1>1, ArriveInv
<1>2. ASSUME NEW r \in Request, Handle(r)
      PROVE  ApiInv'
  BY <1>2, LookupInv, SelectInv, PutInv, InsertInv, FindInv, CommitUpdateInv, CommitDeleteInv,
     RefreshInv, DropInv DEF Handle
<1>3. ASSUME NEW r \in Request, Fail(r)
      PROVE  ApiInv'
  BY <1>3, FailInv
<1>4. CASE Tick
  BY <1>4, TickInv
<1>5. CASE UNCHANGED vars
  BY <1>5 DEF vars, ApiInv, Types, Place, Dated, EntryOK, Meet, StaleReads, StaleEntries, Stale, Blamed,
     StaleKeys, Table, At, Live, Ended
<1> QED BY <1>1, <1>2, <1>3, <1>4, <1>5 DEF Next

LEMMA Invariant == Spec => []ApiInv
<1>1. Init => ApiInv
  BY InitInv
<1>2. ApiInv /\ [Next]_vars => ApiInv'
  BY StepInv
<1> QED BY <1>1, <1>2, PTL DEF Spec

\* The requests, the table, the cache and the clock have the types the module
\* gives them; what is cached or read is always some state of the table.
THEOREM TypeCorrect == Spec => []TypeOK
<1>1. ApiInv => TypeOK
  <2> SUFFICES ASSUME ApiInv PROVE TypeOK
    OBVIOUS
  <2>1. clock \in 0..MaxClock /\ faults \in 0..MaxFaults /\ clock \in Nat /\ Ttl \in Nat
    BY Constants DEF ApiInv, Types
  <2>2. ASSUME NEW k \in Key
        PROVE  cache[k] = Nothing \/ /\ cache[k].state \in 1..Len(history)
                                     /\ cache[k].expires \in clock..(clock + Ttl)
                                     /\ \A r \in cache[k].writers : req[r].op \in Writes
    <3>1. EntryOK(k) /\ cache[k] \in Entry
      BY DEF ApiInv, Types
    <3>2. cache[k].expires \in Nat
      BY <3>1 DEF Entry
    <3> QED BY <2>1, <3>1, <3>2 DEF EntryOK
  <2>3. ASSUME NEW r \in Request
        PROVE  /\ req[r].code \in {0, 200, 201, 204, 404, 500}
               /\ Ended(r) <=> req[r].code # 0
               /\ At(r, "put") => req[r].read \in 1..Len(history)
               /\ Live(r) => clock <= req[r].started + Duration
    BY DEF ApiInv, Types, Req, Codes, Place, Dated
  <2> QED BY <2>1, <2>2, <2>3 DEF TypeOK
<1> QED BY <1>1, Invariant, PTL

\* Whatever requests meet and whatever fails, what a read answers was true less
\* than a time-to-live and a request's duration before the read began: slow
\* readers cannot keep a task stale by storing what they read in turn
\* (routers/tasks.py:30, :46).
THEOREM Staleness == Spec => []StalenessBounded
<1>1. ApiInv => StalenessBounded
  BY DEF ApiInv, Dated, StalenessBounded
<1> QED BY <1>1, Invariant, PTL

\* An entry that differs from the table is the doing of a write that has not
\* deleted its key yet, ended in an error, or ran beside the read that stored
\* it: the requests that tests/test_tasks.py:26 makes one after another never
\* see one.
THEOREM OnlyByRace == Spec => []StaleOnlyByRace
<1>1. ApiInv => StaleOnlyByRace
  <2> SUFFICES ASSUME ApiInv, NEW k \in Key, Alive(k),
                      View(k, history[cache[k].state].rows) # View(k, Table)
               PROVE  \E w \in Request :
                        /\ req[w].op \in Writes
                        /\ Live(w) \/ req[w].code = 500 \/ w \in cache[k].writers
    BY DEF StaleOnlyByRace
  <2>1. cache[k] # Nothing
    BY Constants DEF Alive, Nothing, ApiInv, Types
  <2>2. PICK w \in Request : Blamed(w, k)
    BY <2>1 DEF ApiInv, StaleEntries, Stale
  <2> QED BY <2>2 DEF Blamed, Live
<1> QED BY <1>1, Invariant, PTL
=============================================================================
