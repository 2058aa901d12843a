----------------------- MODULE CorrelationLoopsProofs -----------------------
(***************************************************************************)
(* What the runs of CorrelationLoops show on small inputs, for inputs of   *)
(* any size, kinds, times and windows: the loops of correlation.py compute *)
(* what the rules of CorrelationRules say (PairingIs, ClusteringIs), and   *)
(* a pass over any stored rows keeps its promises.                         *)
(*                                                                         *)
(* A fold over a list is defined by recursion over sets of positions.      *)
(* That the recursion has a solution is FoldExists; what the fold returns  *)
(* follows by counting up the prefixes of the list (CountingUp, UpTo).     *)
(***************************************************************************)
EXTENDS CorrelationLoops, CorrelationRulesProofs

(***************************************************************************)
(* Numbers, and what a fold iterates                                       *)
(***************************************************************************)

\* Counting up from 0.
LEMMA CountingUp ==
  ASSUME NEW n \in Nat, NEW good, 0 \in good,
         \A k \in 0..n-1 : k \in good => k + 1 \in good
  PROVE  0..n \subseteq good
<1> DEFINE bad == {1..k : k \in (0..n) \ good}
<1> SUFFICES ASSUME NEW z \in 0..n, z \notin good PROVE FALSE
  OBVIOUS
<1>1. IsWellFoundedOn(StrictSubsetOrdering(1..n), SUBSET (1..n))
  <2>1. IsFiniteSet(1..n)
    BY FS_Interval
  <2> QED BY <2>1, FS_StrictSubsetOrderingWellFounded, FS_FiniteSubsetsOfFinite
<1>2. PICK B \in bad : \A A \in bad : <<A, B>> \notin StrictSubsetOrdering(1..n)
  <2>1. bad \subseteq SUBSET (1..n) /\ bad # {}
    OBVIOUS
  <2> HIDE DEF bad
  <2> QED BY <1>1, <2>1, WFMin
<1>3. PICK k \in 0..n : k \notin good /\ B = 1..k
  OBVIOUS
<1>4. k # 0 /\ k - 1 \in 0..n-1 /\ k - 1 \notin good
  BY <1>3
<1>5. 1..k-1 \in bad
  BY <1>4
<1>6. k \in 1..k /\ k \notin 1..k-1 /\ 1..k-1 \subseteq 1..k /\ 1..k \subseteq 1..n
  BY <1>4
<1>7. <<1..k-1, 1..k>> \in StrictSubsetOrdering(1..n)
  BY <1>6 DEF StrictSubsetOrdering
<1> QED BY <1>2, <1>3, <1>5, <1>7

\* The greatest and the least of some positions: Max and Min choose by them.
LEMMA Greatest ==
  ASSUME NEW k \in Nat, NEW S \in SUBSET (1..k), k \in S
  PROVE  Max(S) = k
<1>1. \A y \in S : k >= y
  OBVIOUS
<1>2. \A x \in S : (\A y \in S : x >= y) => x = k
  OBVIOUS
<1> QED BY <1>1, <1>2, Zenon DEF Max

LEMMA Least ==
  ASSUME NEW n \in Nat, NEW S \in SUBSET (1..n), S # {}
  PROVE  Min(S) \in S /\ \A y \in S : Min(S) <= y
<1> DEFINE good == {k \in 0..n : \A y \in S : k < y}
<1>1. \E x \in S : \A y \in S : x <= y
  <2> SUFFICES ASSUME \A x \in S : \E y \in S : y < x PROVE FALSE
    OBVIOUS
  <2>1. 0 \in good
    OBVIOUS
  <2>2. \A k \in 0..n-1 : k \in good => k + 1 \in good
    OBVIOUS
  <2> HIDE DEF good
  <2>3. 0..n \subseteq good
    BY <2>1, <2>2, CountingUp
  <2>4. n \in good
    BY <2>3
  <2>5. \A y \in S : n < y
    BY <2>4 DEF good
  <2>6. PICK y \in S : TRUE
    OBVIOUS
  <2>7. n < y /\ y \in 1..n
    BY <2>5
  <2> QED BY <2>7
<1> QED BY <1>1, Zenon DEF Min

\* What FoldLeft iterates exists: a value for every set of positions.
Iterates(g, step, base, s, n) ==
  \A S \in SUBSET (1..n) :
    g[S] = IF S = {} THEN base ELSE step[<<g[S \ {Max(S)}], s[Max(S)]>>]

\* The recursion behind FoldLeft has a solution, for every step and list.
LEMMA FoldExists ==
  ASSUME NEW n \in Nat, NEW X, NEW V, NEW base \in V, NEW step \in [V \X X -> V],
         NEW s \in [1..n -> X]
  PROVE  \E g \in [SUBSET (1..n) -> V] : Iterates(g, step, base, s, n)
<1> DEFINE good == {k \in 0..n : \E g \in [SUBSET (1..k) -> V] : Iterates(g, step, base, s, k)}
<1>1. 0 \in good
  <2> DEFINE g == [S \in SUBSET (1..0) |-> base]
  <2>1. g \in [SUBSET (1..0) -> V] /\ \A S \in SUBSET (1..0) : S = {} /\ g[S] = base
    OBVIOUS
  <2> HIDE DEF g
  <2>2. Iterates(g, step, base, s, 0)
    BY <2>1 DEF Iterates
  <2> QED BY <2>1, <2>2
<1>2. ASSUME NEW k \in 0..n-1, k \in good PROVE k + 1 \in good
  <2>1. PICK g \in [SUBSET (1..k) -> V] : Iterates(g, step, base, s, k)
    BY <1>2
  <2> DEFINE h == [S \in SUBSET (1..k+1) |->
                     IF k + 1 \in S THEN step[<<g[S \ {k + 1}], s[k + 1]>>] ELSE g[S]]
  <2>2. \A S \in SUBSET (1..k+1) : S \ {k + 1} \in SUBSET (1..k)
    OBVIOUS
  <2>3. s[k + 1] \in X
    OBVIOUS
  <2>4. \A S \in SUBSET (1..k+1) : k + 1 \notin S => S \in SUBSET (1..k)
    BY <2>2
  <2>5. h \in [SUBSET (1..k+1) -> V]
    BY <2>2, <2>3, <2>4
  <2>6. ASSUME NEW S \in SUBSET (1..k+1)
        PROVE  h[S] = IF S = {} THEN base ELSE step[<<h[S \ {Max(S)}], s[Max(S)]>>]
    <3>1. CASE k + 1 \in S
      <4>1. Max(S) = k + 1
        BY <3>1, Greatest
      <4>2. h[S \ {k + 1}] = g[S \ {k + 1}]
        BY <2>2
      <4>3. h[S] = step[<<g[S \ {k + 1}], s[k + 1]>>]
        BY <3>1
      <4> QED BY <3>1, <4>1, <4>2, <4>3
    <3>2. CASE k + 1 \notin S
      <4>1. S \in SUBSET (1..k) /\ S \ {Max(S)} \in SUBSET (1..k)
        BY <2>4, <3>2
      <4>2. k + 1 \notin S \ {Max(S)} /\ S \ {Max(S)} \in SUBSET (1..k+1)
        BY <3>2
      <4>3. h[S] = g[S] /\ h[S \ {Max(S)}] = g[S \ {Max(S)}]
        BY <3>2, <4>2
      <4> HIDE DEF h
      <4> QED BY <2>1, <4>1, <4>3 DEF Iterates
    <3> QED BY <3>1, <3>2
  <2> HIDE DEF h
  <2>7. Iterates(h, step, base, s, k + 1)
    BY <2>6 DEF Iterates
  <2> QED BY <2>5, <2>7
<1> HIDE DEF good
<1>3. 0..n \subseteq good
  BY <1>1, <1>2, CountingUp
<1>4. n \in good
  BY <1>3
<1> QED BY <1>4 DEF good

\* The prefixes of 1..n, as the iteration meets them.
LEMMA UpTo ==
  ASSUME NEW n \in Nat, NEW k \in 0..n-1
  PROVE  /\ 1..k+1 \in SUBSET (1..n) /\ 1..k \in SUBSET (1..n) /\ 1..k+1 # {}
         /\ Max(1..k+1) = k + 1 /\ (1..k+1) \ {k + 1} = 1..k
<1>1. Max(1..k+1) = k + 1
  <2>1. k + 1 \in Nat /\ k + 1 \in 1..k+1 /\ 1..k+1 \in SUBSET (1..k+1)
    OBVIOUS
  <2> DEFINE j == k + 1
  <2> HIDE DEF j
  <2>2. j \in Nat /\ j \in 1..j /\ 1..j \in SUBSET (1..j)
    BY <2>1 DEF j
  <2>3. Max(1..j) = j
    BY <2>2, Greatest
  <2> QED BY <2>3 DEF j
<1>2. 1..k+1 \in SUBSET (1..n) /\ 1..k \in SUBSET (1..n) /\ k + 1 \in 1..k+1
  OBVIOUS
<1>3. (1..k+1) \ {k + 1} = 1..k
  OBVIOUS
<1> QED BY <1>1, <1>2, <1>3

LEMMA GreatestIn ==
  ASSUME NEW n \in Nat, NEW T \in SUBSET (1..n), T # {}
  PROVE  Max(T) \in T
<1> DEFINE U == {n + 1 - y : y \in T}
<1>1. PICK t \in T : TRUE
  OBVIOUS
<1>2. n + 1 - t \in U
  OBVIOUS
<1>3. \A y \in T : n + 1 - y \in 1..n
  OBVIOUS
<1>4. U \in SUBSET (1..n) /\ U # {}
  BY <1>2, <1>3
<1>5. \A y \in T : n + 1 - y \in U
  OBVIOUS
<1>6. \A u \in U : \E y \in T : u = n + 1 - y
  OBVIOUS
<1> HIDE DEF U
<1>7. Min(U) \in U /\ \A u \in U : Min(U) <= u
  BY <1>4, Least
<1>8. PICK x \in T : Min(U) = n + 1 - x
  BY <1>6, <1>7
<1>9. \A y \in T : x >= y
  BY <1>5, <1>7, <1>8
<1> QED BY <1>9, Zenon DEF Max

(***************************************************************************)
(* The sorted list                                                         *)
(***************************************************************************)

\* The list is the events, each once, in order.
InOrderOf(s, evs) ==
  /\ s \in [1..Cardinality(evs) -> evs]
  /\ \A i, j \in 1..Cardinality(evs) : i < j => Before(s[i], s[j])

\* Removing the last event in order and putting it at the end.
LEMMA SortExists ==
  ASSUME NEW evs, IsEvents(evs)
  PROVE  \E s : InOrderOf(s, evs)
<1> DEFINE bad == {S \in SUBSET evs : ~\E s : InOrderOf(s, S)}
<1> SUFFICES ASSUME bad # {} PROVE FALSE
  OBVIOUS
<1>1. IsWellFoundedOn(StrictSubsetOrdering(evs), SUBSET evs)
  BY FS_StrictSubsetOrderingWellFounded, FS_FiniteSubsetsOfFinite DEF IsEvents
<1>2. PICK S \in bad : \A T \in bad : <<T, S>> \notin StrictSubsetOrdering(evs)
  <2>1. bad \subseteq SUBSET evs
    OBVIOUS
  <2> HIDE DEF bad
  <2> QED BY <1>1, <2>1, WFMin
<1> DEFINE R == {p \in evs \X evs : Before(p[1], p[2])}
<1>3. S \subseteq evs /\ IsFiniteSet(S) /\ ~\E s : InOrderOf(s, S)
  BY FS_Subset DEF IsEvents
<1>4. Orders(R, S)
  BY <1>3, BeforeOrders DEF Orders
<1>5. S # {}
  <2> SUFFICES ASSUME S = {} PROVE FALSE
    OBVIOUS
  <2>1. InOrderOf([i \in 1..0 |-> 0], S)
    BY FS_EmptySet DEF InOrderOf
  <2> QED BY <1>3, <2>1
<1>6. PICK m \in S : \A n \in S : <<m, n>> \notin R
  <2> HIDE DEF R
  <2> QED BY <1>3, <1>4, <1>5, LastElement
<1>7. \A f \in S \ {m} : Before(f, m)
  BY <1>3, <1>6, BeforeOrders
<1>8. <<S \ {m}, S>> \in StrictSubsetOrdering(evs)
  BY <1>3 DEF StrictSubsetOrdering
<1>9. PICK s : InOrderOf(s, S \ {m})
  BY <1>2, <1>3, <1>8
<1> DEFINE c == Cardinality(S \ {m})
           t == [i \in 1..c+1 |-> IF i = c + 1 THEN m ELSE s[i]]
<1>10. c \in Nat /\ Cardinality(S) = c + 1
  <2>1. IsFiniteSet(S \ {m}) /\ c = Cardinality(S) - 1
    BY <1>3, FS_RemoveElement
  <2> HIDE DEF c
  <2>2. c \in Nat /\ Cardinality(S) \in Nat
    BY <1>3, <2>1, FS_CardinalityType DEF c
  <2> QED BY <2>1, <2>2
<1>11. s \in [1..c -> S \ {m}] /\ \A i, j \in 1..c : i < j => Before(s[i], s[j])
  BY <1>9 DEF InOrderOf
<1> HIDE DEF c
<1>12. t \in [1..c+1 -> S]
  BY <1>10, <1>11
<1>13. ASSUME NEW i \in 1..c+1, NEW j \in 1..c+1, i < j PROVE Before(t[i], t[j])
  <2>1. i \in 1..c /\ t[i] = s[i]
    BY <1>10, <1>13
  <2>2. CASE j = c + 1
    BY <1>7, <1>11, <2>1, <2>2
  <2>3. CASE j # c + 1
    BY <1>10, <1>11, <1>13, <2>1, <2>3
  <2> QED BY <2>2, <2>3
<1> HIDE DEF t
<1>14. InOrderOf(t, S)
  BY <1>10, <1>12, <1>13 DEF InOrderOf
<1> QED BY <1>3, <1>14

\* Sorted(evs) lists every event once, in order.
LEMMA SortedIs ==
  ASSUME NEW evs, IsEvents(evs)
  PROVE  /\ Cardinality(evs) \in Nat
         /\ InOrderOf(Sorted(evs), evs)
         /\ \A e \in evs : \E i \in 1..Cardinality(evs) : e = Sorted(evs)[i]
<1> DEFINE n == Cardinality(evs)
           s == Sorted(evs)
           P(q) == \A i, j \in DOMAIN q : i < j => Before(q[i], q[j])
<1>1. n \in Nat
  BY FS_CardinalityType DEF IsEvents
<1>2. \E q \in [1..n -> evs] : P(q)
  BY SortExists DEF InOrderOf
<1>3. s = CHOOSE q \in [1..n -> evs] : P(q)
  BY Zenon DEF Sorted
<1>4. s \in [1..n -> evs] /\ P(s)
  <2> HIDE DEF P, s, n
  <2> QED BY <1>2, <1>3, Zenon
<1> HIDE DEF s
<1>5. InOrderOf(s, evs)
  BY <1>4 DEF InOrderOf
<1> HIDE DEF n
<1>6. \A i, j \in 1..n : i < j => s[i] # s[j]
  BY <1>4, BeforeOrders
<1>7. s \in Injection(1..n, evs)
  BY <1>1, <1>4, <1>6 DEF Injection, IsInjective
<1>8. IsFiniteSet(1..n) /\ Cardinality(1..n) = n
  BY <1>1, FS_Interval
<1>9. s \in Surjection(1..n, evs)
  BY <1>7, <1>8, FS_Injection DEF n, IsEvents
<1> QED BY <1>1, <1>5, <1>9 DEF Surjection, n, s

(***************************************************************************)
(* _find_composite_incidents                                               *)
(***************************************************************************)

\* How _find_composite_incidents goes on from the pairs of the dependencies so far.
FreeSecrets(secrets, pairs, dependency) ==
  {i \in DOMAIN secrets : /\ \A p \in pairs : p[2] # secrets[i]
                          /\ WithinCompositeWindow(dependency, secrets[i])}

TakeOne(secrets, pairs, dependency) ==
  LET free == FreeSecrets(secrets, pairs, dependency)
  IN  IF free = {} THEN pairs ELSE pairs \cup {<<dependency, secrets[Min(free)]>>}

Dependencies(evs) == {e \in evs : e.scenario = "malicious-dependency"}
Secrets(evs)      == {e \in evs : e.scenario = "leaked-secret"}

\* The pairs taken for the first k dependencies.
PairsOfFirst(evs, k) ==
  {p \in CompositePairs(evs) : \E i \in 1..k : p[1] = Sorted(Dependencies(evs))[i]}

\* PairLoop is the last value of the iteration of TakeOne.
LEMMA PairLoopIterates ==
  ASSUME NEW evs, IsEvents(evs)
  PROVE  LET n == Cardinality(Dependencies(evs))
             g == CHOOSE g : g = [S \in SUBSET (DOMAIN Sorted(Dependencies(evs))) |->
                                    IF S = {} THEN {}
                                    ELSE TakeOne(Sorted(Secrets(evs)), g[S \ {Max(S)}],
                                                 Sorted(Dependencies(evs))[Max(S)])]
         IN  PairLoop(evs) = g[DOMAIN Sorted(Dependencies(evs))]
BY Zenon DEF PairLoop, FoldLeft, MapThenFoldSet, TakeOne, FreeSecrets, Dependencies, Secrets

\* The heart of the greedy pairing: after the pairs of the first k dependencies
\* the next one takes the first free secret, and that pair is one of the rule's.
LEMMA NextPair ==
  ASSUME NEW evs, IsEvents(evs),
         NEW k \in Nat, k + 1 \in 1..Cardinality(Dependencies(evs))
  PROVE  TakeOne(Sorted(Secrets(evs)), PairsOfFirst(evs, k), Sorted(Dependencies(evs))[k + 1])
           = PairsOfFirst(evs, k + 1)
<1> DEFINE D == Sorted(Dependencies(evs))
           S == Sorted(Secrets(evs))
           m == Cardinality(Dependencies(evs))
           n == Cardinality(Secrets(evs))
           d == D[k + 1]
           CP == CompositePairs(evs)
           H == PairsOfFirst(evs, k)
           free == FreeSecrets(S, H, d)
<1>1. IsEvents(Dependencies(evs)) /\ IsEvents(Secrets(evs))
  BY FS_Subset DEF IsEvents, Dependencies, Secrets
<1>2. /\ m \in Nat /\ D \in [1..m -> Dependencies(evs)]
      /\ \A i, j \in 1..m : i < j => Before(D[i], D[j])
      /\ \A e \in Dependencies(evs) : \E i \in 1..m : e = D[i]
  BY <1>1, SortedIs DEF InOrderOf
<1>3. /\ n \in Nat /\ S \in [1..n -> Secrets(evs)]
      /\ \A i, j \in 1..n : i < j => Before(S[i], S[j])
      /\ \A e \in Secrets(evs) : \E i \in 1..n : e = S[i]
  BY <1>1, SortedIs DEF InOrderOf
<1> HIDE DEF D, S
<1>4. k + 1 \in 1..m /\ d \in Dependencies(evs) /\ d \in evs
  BY <1>2 DEF Dependencies
<1>5. Pairs(evs) = Dependencies(evs) \X Secrets(evs)
  BY DEF Pairs, Dependencies, Secrets
<1>6. Dependencies(evs) \subseteq evs /\ Secrets(evs) \subseteq evs
  BY DEF Dependencies, Secrets
\* Earlier dependencies are the first k.
<1>7. \A i \in 1..m : Before(D[i], d) <=> i \in 1..k
  <2> SUFFICES ASSUME NEW i \in 1..m PROVE Before(D[i], d) <=> i \in 1..k
    OBVIOUS
  <2>1. CASE i < k + 1
    BY <1>2, <1>4, <2>1
  <2>2. CASE i = k + 1
    BY <1>4, <2>2, BeforeOrders
  <2>3. CASE i > k + 1
    BY <1>2, <1>4, <1>6, <2>3, BeforeOrders
  <2> QED BY <2>1, <2>2, <2>3
<1> HIDE DEF m, n
<1> DEFINE FirstFree(x) == /\ WithinCompositeWindow(d, x)
                           /\ \A p \in H : p[2] # x
                           /\ \A y \in Secrets(evs) : Before(y, x) => <<d, y>> \notin CP
<1>8. ASSUME NEW x \in Secrets(evs) PROVE <<d, x>> \in CP <=> FirstFree(x)
  <2>1. <<d, x>> \in Pairs(evs) /\ <<d, x>>[1] = d /\ <<d, x>>[2] = x
    BY <1>4, <1>5
  <2>2. <<d, x>> \in CP <=>
          /\ WithinCompositeWindow(d, x)
          /\ \A other \in Pairs(evs) : Blocks(other, <<d, x>>) => other \notin CP
    BY <2>1, PairsTaken
  <2>3. (\A other \in Pairs(evs) : Blocks(other, <<d, x>>) => other \notin CP)
          <=> /\ \A p \in H : p[2] # x
              /\ \A y \in Secrets(evs) : Before(y, x) => <<d, y>> \notin CP
    <3>1. ASSUME \A other \in Pairs(evs) : Blocks(other, <<d, x>>) => other \notin CP,
                 NEW p \in H
          PROVE  p[2] # x
      <4>1. p \in CP /\ p \in Pairs(evs)
        BY PairsTaken DEF PairsOfFirst
      <4>2. PICK i \in 1..k : p[1] = D[i]
        BY DEF PairsOfFirst, D, CP, H, m, n
      <4>3. Before(p[1], d)
        <5>1. i \in 1..m
          BY <1>2, <1>4, <4>2
        <5> QED BY <1>7, <4>2, <5>1
      <4> QED BY <2>1, <3>1, <4>1, <4>3 DEF Blocks
    <3>2. ASSUME \A other \in Pairs(evs) : Blocks(other, <<d, x>>) => other \notin CP,
                 NEW y \in Secrets(evs), Before(y, x)
          PROVE  <<d, y>> \notin CP
      <4>1. <<d, y>> \in Pairs(evs) /\ <<d, y>>[1] = d /\ <<d, y>>[2] = y
        BY <1>4, <1>5
      <4> QED BY <2>1, <3>2, <4>1 DEF Blocks
    <3>3. ASSUME \A p \in H : p[2] # x,
                 \A y \in Secrets(evs) : Before(y, x) => <<d, y>> \notin CP,
                 NEW other \in Pairs(evs), Blocks(other, <<d, x>>)
          PROVE  other \notin CP
      <4>1. other[1] \in Dependencies(evs) /\ other[2] \in Secrets(evs) /\ other = <<other[1], other[2]>>
        BY <1>5
      <4>2. CASE other[1] = d /\ Before(other[2], x)
        BY <3>3, <4>1, <4>2
      <4>3. CASE other[2] = x /\ Before(other[1], d)
        <5>1. PICK i \in 1..m : other[1] = D[i]
          BY <1>2, <4>1
        <5>2. i \in 1..k
          BY <1>7, <4>3, <5>1
        <5> QED BY <3>3, <4>3, <5>1, <5>2 DEF PairsOfFirst, D, CP, H, m, n
      <4> QED BY <2>1, <3>3, <4>2, <4>3 DEF Blocks
    <3> QED BY <3>1, <3>2, <3>3
  <2> HIDE DEF CP, H
  <2> QED BY <2>2, <2>3
<1> HIDE DEF CP, H
<1>9. free \subseteq 1..n
      /\ \A i \in 1..n : i \in free <=> WithinCompositeWindow(d, S[i]) /\ \A p \in H : p[2] # S[i]
  BY <1>3 DEF FreeSecrets
<1> HIDE DEF free
\* What the dependency takes: nothing, or the first of the free secrets.
<1>10. \A i \in 1..n : <<d, S[i]>> \in CP <=> i \in free /\ \A j \in free : i <= j
  <2> SUFFICES ASSUME NEW i \in 1..n
               PROVE  <<d, S[i]>> \in CP <=> i \in free /\ \A j \in free : i <= j
    OBVIOUS
  <2>1. ASSUME <<d, S[i]>> \in CP, NEW j \in free, j < i PROVE FALSE
    <3>1. j \in 1..n /\ S[j] \in Secrets(evs) /\ S[i] \in Secrets(evs) /\ Before(S[j], S[i])
      BY <1>3, <1>9, <2>1
    <3>2. <<d, S[j]>> \in CP
      <4>1. ASSUME NEW y \in Secrets(evs), Before(y, S[j]) PROVE <<d, y>> \notin CP
        BY <1>6, <1>8, <2>1, <3>1, <4>1, BeforeOrders
      <4> QED BY <1>8, <1>9, <3>1, <4>1
    <3> QED BY <1>8, <2>1, <3>1, <3>2
  <2>2. ASSUME i \in free, \A j \in free : i <= j PROVE <<d, S[i]>> \in CP
    <3>1. ASSUME NEW y \in Secrets(evs), Before(y, S[i]), <<d, y>> \in CP PROVE FALSE
      <4>1. PICK j \in 1..n : y = S[j]
        BY <1>3
      <4>2. j \in free
        BY <1>8, <1>9, <3>1, <4>1
      <4>3. i <= j
        BY <2>2, <4>2
      <4>4. ~Before(S[j], S[i])
        BY <1>3, <1>6, <4>3, BeforeOrders
      <4> QED BY <3>1, <4>1, <4>4
    <3>2. S[i] \in Secrets(evs)
      BY <1>3
    <3> QED BY <1>8, <1>9, <2>2, <3>1, <3>2
  <2>3. <<d, S[i]>> \in CP => i \in free
    BY <1>3, <1>8, <1>9
  <2>4. \A j \in free : j \in 1..n
    BY <1>9
  <2> QED BY <2>1, <2>2, <2>3, <2>4
<1>11. PairsOfFirst(evs, k + 1) = H \cup {p \in CP : p[1] = d}
  <2>1. \A i : i \in 1..k+1 <=> i \in 1..k \/ i = k + 1
    OBVIOUS
  <2> QED BY <2>1 DEF PairsOfFirst, D, CP, H, m, n
<1>12. \A p \in CP : /\ p[1] = d => \E i \in 1..n : p = <<d, S[i]>>
                     /\ p \in Pairs(evs)
  BY <1>3, <1>5, PairsTaken DEF CP
<1>13. CASE free = {}
  <2>1. {p \in CP : p[1] = d} = {}
    BY <1>10, <1>12, <1>13
  <2> QED BY <1>11, <1>13, <2>1 DEF TakeOne, free, S, D, H
<1>14. CASE free # {}
  <2>1. Min(free) \in free /\ \A j \in free : Min(free) <= j
    BY <1>3, <1>9, <1>14, Least
  <2> DEFINE first == Min(free)
  <2>2. first \in 1..n /\ \A i \in free : i \in 1..n
    BY <1>9, <2>1
  <2> HIDE DEF first
  <2>3. \A i \in 1..n : <<d, S[i]>> \in CP <=> i = first
    BY <1>10, <2>1, <2>2 DEF first
  <2>4. {p \in CP : p[1] = d} = {<<d, S[first]>>}
    BY <1>12, <2>2, <2>3
  <2> QED BY <1>11, <1>14, <2>4 DEF TakeOne, free, first, S, D, H
<1> QED BY <1>13, <1>14

\* The nested loop takes exactly the pairs the rule names.
LEMMA PairingIs ==
  ASSUME NEW evs, IsEvents(evs)
  PROVE  PairLoop(evs) = CompositePairs(evs)
<1> DEFINE D == Sorted(Dependencies(evs))
           S == Sorted(Secrets(evs))
           m == Cardinality(Dependencies(evs))
           n == Cardinality(Secrets(evs))
           V == SUBSET Pairs(evs)
           Iter(g) == [T \in SUBSET (DOMAIN D) |->
                         IF T = {} THEN {} ELSE TakeOne(S, g[T \ {Max(T)}], D[Max(T)])]
           chosen == CHOOSE g : g = Iter(g)
<1>1. IsEvents(Dependencies(evs)) /\ IsEvents(Secrets(evs))
  BY FS_Subset DEF IsEvents, Dependencies, Secrets
<1>2. /\ m \in Nat /\ D \in [1..m -> Dependencies(evs)]
      /\ \A e \in Dependencies(evs) : \E i \in 1..m : e = D[i]
  BY <1>1, SortedIs DEF InOrderOf
<1>3. n \in Nat /\ S \in [1..n -> Secrets(evs)]
  BY <1>1, SortedIs DEF InOrderOf
<1>4. PairLoop(evs) = chosen[DOMAIN D]
  BY PairLoopIterates, Zenon
<1> HIDE DEF D, S, m, n
<1>5. DOMAIN D = 1..m
  BY <1>2
<1>6. ASSUME NEW v \in V, NEW d \in Dependencies(evs) PROVE TakeOne(S, v, d) \in V
  <2> DEFINE free == FreeSecrets(S, v, d)
  <2>1. free \in SUBSET (1..n)
    BY <1>3 DEF FreeSecrets
  <2> HIDE DEF free
  <2>2. free # {} => S[Min(free)] \in Secrets(evs)
    BY <1>3, <2>1, Least
  <2>3. \A x \in Secrets(evs) : <<d, x>> \in Pairs(evs)
    BY DEF Pairs, Dependencies, Secrets
  <2> QED BY <2>2, <2>3 DEF TakeOne, free
<1> DEFINE step == [p \in V \X Dependencies(evs) |-> TakeOne(S, p[1], p[2])]
<1>7. step \in [V \X Dependencies(evs) -> V]
  <2> HIDE DEF V
  <2> QED BY <1>6
<1>8. PICK g \in [SUBSET (1..m) -> V] : Iterates(g, step, {}, D, m)
  <2>1. {} \in V
    OBVIOUS
  <2> HIDE DEF step, V
  <2> QED BY <1>2, <1>7, <2>1, FoldExists
<1>9. g = Iter(g)
  <2>1. ASSUME NEW T \in SUBSET (1..m)
        PROVE  g[T] = IF T = {} THEN {} ELSE TakeOne(S, g[T \ {Max(T)}], D[Max(T)])
    <3>1. CASE T = {}
      BY <1>8, <3>1 DEF Iterates
    <3>2. CASE T # {}
      <4>1. T \ {Max(T)} \in SUBSET (1..m) /\ g[T \ {Max(T)}] \in V
        OBVIOUS
      <4>2. Max(T) \in 1..m
        BY <1>2, <3>2, GreatestIn
      <4>3. D[Max(T)] \in Dependencies(evs)
        BY <1>2, <4>2
      <4>4. g[T] = step[<<g[T \ {Max(T)}], D[Max(T)]>>]
        BY <1>8, <3>2 DEF Iterates
      <4> HIDE DEF V
      <4>5. step[<<g[T \ {Max(T)}], D[Max(T)]>>] = TakeOne(S, g[T \ {Max(T)}], D[Max(T)])
        BY <4>1, <4>3
      <4> QED BY <3>2, <4>4, <4>5
    <3> QED BY <3>1, <3>2
  <2> HIDE DEF V
  <2>2. g = [T \in SUBSET (1..m) |-> g[T]]
    OBVIOUS
  <2>3. g = [T \in SUBSET (1..m) |->
               IF T = {} THEN {} ELSE TakeOne(S, g[T \ {Max(T)}], D[Max(T)])]
    BY <2>1, <2>2, Zenon
  <2> QED BY <1>5, <2>3, Zenon
<1>10. chosen = Iter(chosen)
  BY <1>9, Zenon
<1>11. \A T \in SUBSET (1..m) :
         chosen[T] = IF T = {} THEN {} ELSE TakeOne(S, chosen[T \ {Max(T)}], D[Max(T)])
  BY <1>5, <1>10, Zenon
<1> HIDE DEF chosen
<1> DEFINE good == {k \in 0..m : chosen[1..k] = PairsOfFirst(evs, k)}
<1>12. 0 \in good
  <2>1. 1..0 = {} /\ {} \in SUBSET (1..m)
    OBVIOUS
  <2>2. chosen[{}] = {}
    BY <1>11, <2>1
  <2>3. PairsOfFirst(evs, 0) = {}
    BY DEF PairsOfFirst
  <2>4. chosen[1..0] = PairsOfFirst(evs, 0)
    BY <2>1, <2>2, <2>3
  <2> QED BY <1>2, <2>4
<1>13. ASSUME NEW k \in 0..m-1, k \in good PROVE k + 1 \in good
  <2>1. chosen[1..k+1] = TakeOne(S, chosen[1..k], D[k + 1])
    BY <1>2, <1>11, UpTo
  <2>2. chosen[1..k] = PairsOfFirst(evs, k) /\ k \in Nat /\ k + 1 \in 1..m /\ k + 1 \in 0..m
    BY <1>2, <1>13
  <2>3. TakeOne(S, PairsOfFirst(evs, k), D[k + 1]) = PairsOfFirst(evs, k + 1)
    BY <2>2, NextPair DEF S, D, m
  <2> QED BY <2>1, <2>2, <2>3
<1>14. chosen[1..m] = PairsOfFirst(evs, m)
  <2> HIDE DEF good
  <2>1. 0..m \subseteq good
    BY <1>2, <1>12, <1>13, CountingUp
  <2>2. m \in good
    BY <1>2, <2>1
  <2> QED BY <2>2 DEF good
<1>15. PairsOfFirst(evs, m) = CompositePairs(evs)
  <2>1. \A p \in CompositePairs(evs) : p[1] \in Dependencies(evs)
    BY PairsTaken DEF Pairs, Dependencies
  <2> QED BY <1>2, <2>1 DEF PairsOfFirst, D
<1> QED BY <1>4, <1>5, <1>14, <1>15

(***************************************************************************)
(* _cluster_by_gap                                                         *)
(***************************************************************************)

\* A list grows and loses its last element at the same end.
LEMMA AppendIs ==
  ASSUME NEW T, NEW q \in Seq(T), NEW x \in T
  PROVE  /\ Append(q, x) \in Seq(T) /\ Append(q, x) # <<>>
         /\ Last(Append(q, x)) = x /\ Front(Append(q, x)) = q
         /\ ToSet(Append(q, x)) = ToSet(q) \cup {x}
<1>1. Append(q, x) \in Seq(T) /\ Append(q, x) # <<>> /\ Last(Append(q, x)) = x
  BY DEF Last
<1>2. Front(Append(q, x)) = q
  BY DEF Front
<1>3. ToSet(Append(q, x)) = ToSet(q) \cup {x}
  <2>1. /\ DOMAIN Append(q, x) = 1..Len(q)+1 /\ DOMAIN q = 1..Len(q) /\ Len(q) \in Nat
        /\ Append(q, x)[Len(q) + 1] = x
        /\ \A i \in 1..Len(q) : Append(q, x)[i] = q[i]
    OBVIOUS
  <2> QED BY <2>1 DEF ToSet
<1> QED BY <1>1, <1>2, <1>3

LEMMA FrontIs ==
  ASSUME NEW T, NEW q \in Seq(T), q # <<>>
  PROVE  /\ Front(q) \in Seq(T) /\ Last(q) \in T
         /\ ToSet(q) = ToSet(Front(q)) \cup {Last(q)}
<1>1. Len(q) \in Nat /\ Len(q) >= 1 /\ DOMAIN q = 1..Len(q)
  OBVIOUS
<1>2. /\ Front(q) \in Seq(T) /\ DOMAIN Front(q) = 1..Len(q)-1
      /\ \A i \in 1..Len(q)-1 : Front(q)[i] = q[i]
  BY <1>1 DEF Front
<1>3. Last(q) \in T /\ Last(q) = q[Len(q)]
  BY <1>1 DEF Last
<1>4. \A i : i \in 1..Len(q) <=> i \in 1..Len(q)-1 \/ i = Len(q)
  BY <1>1
<1>5. ToSet(q) = ToSet(Front(q)) \cup {Last(q)}
  BY <1>1, <1>2, <1>3, <1>4 DEF ToSet
<1> QED BY <1>2, <1>3, <1>5

\* How _cluster_by_gap goes on from the clusters so far.
AddOne(clusters, e) ==
  IF clusters # <<>> /\ e.ts - Last(Last(clusters)).ts <= SameSourceWindow
  THEN Append(Front(clusters), Append(Last(clusters), e))
  ELSE Append(clusters, <<e>>)

\* ClusterLoop is the last value of the iteration of AddOne.
LEMMA ClusterLoopIterates ==
  ASSUME NEW evs
  PROVE  LET g == CHOOSE g : g = [S \in SUBSET (DOMAIN Sorted(evs)) |->
                                    IF S = {} THEN <<>>
                                    ELSE AddOne(g[S \ {Max(S)}], Sorted(evs)[Max(S)])]
         IN  ClusterLoop(evs) = {ToSet(c) : c \in ToSet(g[DOMAIN Sorted(evs)])}
BY Zenon DEF ClusterLoop, FoldLeft, MapThenFoldSet, AddOne

\* Clusters stay lists of events.
LEMMA AddOneType ==
  ASSUME NEW evs, NEW h \in Seq(Seq(evs)), NEW e \in evs
  PROVE  AddOne(h, e) \in Seq(Seq(evs))
<1>1. <<e>> \in Seq(evs) /\ Append(h, <<e>>) \in Seq(Seq(evs))
  OBVIOUS
<1>2. CASE h # <<>>
  <2>1. Front(h) \in Seq(Seq(evs)) /\ Last(h) \in Seq(evs)
    BY <1>2, FrontIs
  <2>2. Append(Last(h), e) \in Seq(evs)
    BY <2>1
  <2>3. Append(Front(h), Append(Last(h), e)) \in Seq(Seq(evs))
    BY <2>1, <2>2
  <2> QED BY <1>1, <2>3 DEF AddOne
<1>3. CASE h = <<>>
  BY <1>1, <1>3 DEF AddOne
<1> QED BY <1>2, <1>3

\* The first k events of the list, and the cluster of one among them.
FirstEvents(evs, k) == {Sorted(evs)[i] : i \in 1..k}
ClusterIn(evs, k, e) == {f \in FirstEvents(evs, k) : Together(evs, e, f)}

\* The clusters after k events: the open one is that of the last event, the
\* closed ones those of the events it is not together with.
ClustersOfFirst(evs, k, h) ==
  LET last == Sorted(evs)[k]
  IN  /\ h \in Seq(Seq(evs)) /\ h # <<>> /\ Last(h) # <<>>
      /\ Last(Last(h)) = last
      /\ ToSet(Last(h)) = ClusterIn(evs, k, last)
      /\ {ToSet(c) : c \in ToSet(Front(h))}
           = {ClusterIn(evs, k, e) : e \in {e \in FirstEvents(evs, k) : ~Together(evs, last, e)}}

\* The gap to the event before decides whether the next one is together with it.
LEMMA NextTogether ==
  ASSUME NEW evs, IsEvents(evs), NEW k \in Nat \ {0}, k + 1 \in 1..Cardinality(evs)
  PROVE  LET s == Sorted(evs) IN
         /\ Together(evs, s[k], s[k + 1]) <=> s[k + 1].ts - s[k].ts <= SameSourceWindow
         /\ \A i \in 1..k : Together(evs, s[i], s[k + 1])
                              <=> Together(evs, s[i], s[k]) /\ Together(evs, s[k], s[k + 1])
<1> DEFINE s == Sorted(evs)
           n == Cardinality(evs)
<1>1. /\ n \in Nat /\ s \in [1..n -> evs] /\ \A e \in evs : \E i \in 1..n : e = s[i]
      /\ \A i, j \in 1..n : i < j => Before(s[i], s[j])
  BY SortedIs DEF InOrderOf
<1> HIDE DEF s, n
<1>2. \A e \in evs : e.ts \in Int
  BY DEF IsEvents
<1>3. \A i, j \in 1..n : i <= j => s[i].ts <= s[j].ts
  BY <1>1, <1>2 DEF Before
<1>4. k \in 1..n /\ k + 1 \in 1..n /\ \A i \in 1..k : i \in 1..n
  BY <1>1 DEF n
<1>5. s[k] \in evs /\ s[k + 1] \in evs
  BY <1>1, <1>4
<1>6. \A h \in evs : s[k].ts < h.ts => s[k + 1].ts <= h.ts
  <2> SUFFICES ASSUME NEW h \in evs, s[k].ts < h.ts PROVE s[k + 1].ts <= h.ts
    OBVIOUS
  <2>1. PICK i \in 1..n : h = s[i]
    BY <1>1
  <2>2. ~(i <= k)
    BY <1>2, <1>3, <1>4, <1>5, <2>1
  <2>3. k + 1 <= i
    BY <1>1, <2>2
  <2> QED BY <1>3, <1>4, <2>1, <2>3
<1>7. ~GapBetween(evs, s[k + 1], s[k])
  <2>1. s[k].ts <= s[k + 1].ts
    BY <1>3, <1>4
  <2> QED BY <1>2, <1>5, <2>1 DEF GapBetween
<1>8. GapBetween(evs, s[k], s[k + 1]) <=> s[k + 1].ts - s[k].ts > SameSourceWindow
  <2>1. ASSUME GapBetween(evs, s[k], s[k + 1]) PROVE s[k + 1].ts - s[k].ts > SameSourceWindow
    <3>1. PICK g \in evs : /\ s[k].ts <= g.ts /\ g.ts < s[k + 1].ts
                           /\ \A h \in evs : g.ts < h.ts => h.ts - g.ts > SameSourceWindow
      BY <2>1 DEF GapBetween
    <3>2. g.ts = s[k].ts
      BY <1>2, <1>5, <1>6, <3>1
    <3> QED BY <1>5, <3>1, <3>2
  <2>2. ASSUME s[k + 1].ts - s[k].ts > SameSourceWindow PROVE GapBetween(evs, s[k], s[k + 1])
    <3>1. s[k].ts < s[k + 1].ts
      BY <1>2, <1>5, <2>2, WindowsAreNat
    <3>2. \A h \in evs : s[k].ts < h.ts => h.ts - s[k].ts > SameSourceWindow
      BY <1>2, <1>5, <1>6, <2>2, WindowsAreNat
    <3> QED BY <1>2, <1>5, <3>1, <3>2 DEF GapBetween
  <2> QED BY <2>1, <2>2
<1>9. Together(evs, s[k], s[k + 1]) <=> s[k + 1].ts - s[k].ts <= SameSourceWindow
  BY <1>2, <1>5, <1>7, <1>8, WindowsAreNat DEF Together
<1>10. ASSUME NEW i \in 1..k
       PROVE  Together(evs, s[i], s[k + 1])
                <=> Together(evs, s[i], s[k]) /\ Together(evs, s[k], s[k + 1])
  <2>1. s[i] \in evs /\ s[i].ts <= s[k].ts /\ s[k].ts <= s[k + 1].ts
    BY <1>1, <1>3, <1>4
  <2>2. Together(evs, s[i], s[k]) /\ Together(evs, s[k], s[k + 1]) => Together(evs, s[i], s[k + 1])
    BY <1>2, <1>5, <2>1, TogetherIsEquivalence
  <2>3. GapBetween(evs, s[i], s[k]) => GapBetween(evs, s[i], s[k + 1])
    BY <1>2, <1>5, <2>1 DEF GapBetween
  <2>4. GapBetween(evs, s[k], s[k + 1]) => GapBetween(evs, s[i], s[k + 1])
    BY <1>2, <1>5, <2>1 DEF GapBetween
  <2>5. ~GapBetween(evs, s[k], s[i])
    BY <1>2, <1>5, <2>1 DEF GapBetween
  <2> QED BY <1>7, <2>2, <2>3, <2>4, <2>5 DEF Together
<1> QED BY <1>9, <1>10 DEF s

\* The first event opens the first cluster.
LEMMA FirstCluster ==
  ASSUME NEW evs, IsEvents(evs), 1 \in 1..Cardinality(evs)
  PROVE  ClustersOfFirst(evs, 1, AddOne(<<>>, Sorted(evs)[1]))
<1> DEFINE e == Sorted(evs)[1]
           h == AddOne(<<>>, e)
<1>1. e \in evs /\ \A f \in evs : f.ts \in Int
  BY SortedIs DEF InOrderOf, IsEvents
<1>2. FirstEvents(evs, 1) = {e}
  BY DEF FirstEvents
<1> HIDE DEF e
<1>3. h = Append(<<>>, <<e>>)
  BY DEF AddOne
<1> HIDE DEF h
<1>4. <<e>> \in Seq(evs) /\ <<e>> # <<>>
  BY <1>1
<1>5. h \in Seq(Seq(evs)) /\ h # <<>> /\ Last(h) = <<e>> /\ Front(h) = <<>>
  <2> DEFINE T == Seq(evs)
             q == <<>>
             c == <<e>>
  <2>1. c \in T /\ q \in Seq(T)
    BY <1>4
  <2> HIDE DEF T, q, c
  <2>2. /\ Append(q, c) \in Seq(T) /\ Append(q, c) # <<>>
        /\ Last(Append(q, c)) = c /\ Front(Append(q, c)) = q
    BY <2>1, AppendIs
  <2> QED BY <1>3, <2>2 DEF T, q, c
<1>6. Last(<<e>>) = e /\ ToSet(<<e>>) = {e}
  BY DEF Last, ToSet
<1>7. {ToSet(c) : c \in ToSet(Front(h))} = {}
  BY <1>5 DEF ToSet
<1>8. Together(evs, e, e)
  BY <1>1, TogetherIsEquivalence
<1>9. ClusterIn(evs, 1, e) = {e}
  BY <1>2, <1>8 DEF ClusterIn
<1>10. {ClusterIn(evs, 1, f) : f \in {f \in FirstEvents(evs, 1) : ~Together(evs, e, f)}} = {}
  BY <1>2, <1>8
<1> QED BY <1>4, <1>5, <1>6, <1>7, <1>9, <1>10 DEF ClustersOfFirst, e, h

\* The next event joins the open cluster or opens one, as the rule has it.
LEMMA NextCluster ==
  ASSUME NEW evs, IsEvents(evs), NEW k \in Nat \ {0}, k + 1 \in 1..Cardinality(evs),
         NEW h, ClustersOfFirst(evs, k, h)
  PROVE  ClustersOfFirst(evs, k + 1, AddOne(h, Sorted(evs)[k + 1]))
<1> DEFINE s == Sorted(evs)
           n == Cardinality(evs)
           l == s[k]
           e == s[k + 1]
           P == FirstEvents(evs, k)
           Q == FirstEvents(evs, k + 1)
           T(a, b) == Together(evs, a, b)
           joins == e.ts - l.ts <= SameSourceWindow
           next == AddOne(h, e)
           Closed(q) == {ToSet(c) : c \in ToSet(Front(q))}
<1>1. /\ n \in Nat /\ s \in [1..n -> evs]
      /\ \A i, j \in 1..n : i < j => Before(s[i], s[j])
  BY SortedIs DEF InOrderOf
<1>2. k \in 1..n /\ k + 1 \in 1..n /\ \A i \in 1..k : i \in 1..n
  BY <1>1
<1>3. l \in evs /\ e \in evs /\ P \subseteq evs /\ l \in P
  BY <1>1, <1>2 DEF FirstEvents
<1>4. Q = P \cup {e}
  <2>1. \A i : i \in 1..k+1 <=> i \in 1..k \/ i = k + 1
    OBVIOUS
  <2> QED BY <2>1 DEF FirstEvents
<1>5. e \notin P
  <2>1. \A i \in 1..k : Before(s[i], e) /\ s[i] \in evs
    BY <1>1, <1>2
  <2> QED BY <1>3, <2>1, BeforeOrders DEF FirstEvents
<1>6. T(l, e) <=> joins
  BY NextTogether
<1>7. \A f \in P : T(f, e) <=> T(f, l) /\ joins
  BY <1>6, NextTogether DEF FirstEvents
<1> HIDE DEF s, n, joins, T
<1>8. /\ \A a \in evs : T(a, a)
      /\ \A a, b \in evs : T(a, b) => T(b, a)
      /\ \A a, b, c \in evs : T(a, b) /\ T(b, c) => T(a, c)
  BY TogetherIsEquivalence DEF T, IsEvents
<1>9. /\ h \in Seq(Seq(evs)) /\ h # <<>> /\ Last(h) # <<>> /\ Last(Last(h)) = l
      /\ ToSet(Last(h)) = ClusterIn(evs, k, l)
      /\ Closed(h) = {ClusterIn(evs, k, a) : a \in {a \in P : ~T(l, a)}}
  BY DEF ClustersOfFirst, s, T
<1>10. \A a : ClusterIn(evs, k, a) = {f \in P : T(a, f)} /\ ClusterIn(evs, k + 1, a) = {f \in Q : T(a, f)}
  BY DEF ClusterIn, T
<1>11. Front(h) \in Seq(Seq(evs)) /\ Last(h) \in Seq(evs) /\ ToSet(h) = ToSet(Front(h)) \cup {Last(h)}
  BY <1>9, FrontIs
<1> HIDE DEF P, Q, l, e
<1>12. CASE joins
  <2> DEFINE c == Append(Last(h), e)
  <2>1. next = Append(Front(h), c)
    BY <1>9, <1>12 DEF AddOne, joins
  <2>2. c \in Seq(evs) /\ c # <<>> /\ Last(c) = e /\ ToSet(c) = ToSet(Last(h)) \cup {e}
    BY <1>3, <1>11, AppendIs
  <2> HIDE DEF c, next
  <2>3. next \in Seq(Seq(evs)) /\ next # <<>> /\ Last(next) = c /\ Front(next) = Front(h)
    BY <1>11, <2>1, <2>2, AppendIs
  <2>4. ClusterIn(evs, k + 1, e) = ClusterIn(evs, k, l) \cup {e}
    BY <1>3, <1>4, <1>6, <1>7, <1>8, <1>10, <1>12
  <2>5. \A a \in P : ~T(l, a) => ClusterIn(evs, k + 1, a) = ClusterIn(evs, k, a)
    BY <1>3, <1>4, <1>7, <1>8, <1>10
  <2>6. \A a : a \in Q /\ ~T(e, a) <=> a \in P /\ ~T(l, a)
    BY <1>3, <1>4, <1>7, <1>8, <1>12
  <2>7. Closed(next) = {ClusterIn(evs, k + 1, a) : a \in {a \in Q : ~T(e, a)}}
    BY <1>9, <2>3, <2>5, <2>6
  <2> QED BY <1>9, <2>2, <2>3, <2>4, <2>7 DEF ClustersOfFirst, T, Q, e, s, next
<1>13. CASE ~joins
  <2>1. next = Append(h, <<e>>)
    BY <1>9, <1>13 DEF AddOne, joins
  <2>2. <<e>> \in Seq(evs) /\ <<e>> # <<>> /\ Last(<<e>>) = e /\ ToSet(<<e>>) = {e}
    BY <1>3 DEF Last, ToSet
  <2> HIDE DEF next
  <2>3. next \in Seq(Seq(evs)) /\ next # <<>> /\ Last(next) = <<e>> /\ Front(next) = h
    <3> DEFINE S == Seq(evs)
               c == <<e>>
    <3>1. c \in S /\ h \in Seq(S)
      BY <1>9, <2>2
    <3> HIDE DEF S, c
    <3>2. /\ Append(h, c) \in Seq(S) /\ Append(h, c) # <<>>
          /\ Last(Append(h, c)) = c /\ Front(Append(h, c)) = h
      BY <3>1, AppendIs
    <3> QED BY <2>1, <3>2 DEF S, c
  <2>4. ClusterIn(evs, k + 1, e) = {e}
    BY <1>3, <1>4, <1>7, <1>8, <1>10, <1>13
  <2>5. \A a \in P : ClusterIn(evs, k + 1, a) = ClusterIn(evs, k, a)
    BY <1>4, <1>7, <1>10, <1>13
  <2>6. \A a : a \in Q /\ ~T(e, a) <=> a \in P
    BY <1>3, <1>4, <1>5, <1>7, <1>8, <1>13
  <2>7. Closed(next) = Closed(h) \cup {ToSet(Last(h))}
    BY <1>11, <2>3
  <2>8. \A a \in P : T(l, a) => ClusterIn(evs, k, a) = ClusterIn(evs, k, l)
    BY <1>3, <1>8, <1>10
  <2>9. {ClusterIn(evs, k, a) : a \in P}
          = {ClusterIn(evs, k, a) : a \in {a \in P : ~T(l, a)}} \cup {ClusterIn(evs, k, l)}
    BY <1>3, <2>8
  <2>10. Closed(next) = {ClusterIn(evs, k, a) : a \in P}
    BY <1>9, <2>7, <2>9
  <2>11. {ClusterIn(evs, k, a) : a \in P}
           = {ClusterIn(evs, k + 1, a) : a \in {a \in Q : ~T(e, a)}}
    BY <2>5, <2>6
  <2> QED BY <2>2, <2>3, <2>4, <2>10, <2>11 DEF ClustersOfFirst, T, Q, e, s, next
<1> QED BY <1>12, <1>13

\* The loop cuts the list into exactly the clusters the rule names.
LEMMA ClusteringIs ==
  ASSUME NEW evs, IsEvents(evs)
  PROVE  ClusterLoop(evs) = ClusterByGap(evs)
<1> DEFINE s == Sorted(evs)
           n == Cardinality(evs)
           V == Seq(Seq(evs))
           Iter(g) == [S \in SUBSET (DOMAIN s) |->
                         IF S = {} THEN <<>> ELSE AddOne(g[S \ {Max(S)}], s[Max(S)])]
           chosen == CHOOSE g : g = Iter(g)
<1>1. n \in Nat /\ s \in [1..n -> evs] /\ \A e \in evs : \E i \in 1..n : e = s[i]
  BY SortedIs DEF InOrderOf
<1>2. ClusterLoop(evs) = {ToSet(c) : c \in ToSet(chosen[DOMAIN s])}
  BY ClusterLoopIterates, Zenon
<1> HIDE DEF s, n
<1>3. DOMAIN s = 1..n
  BY <1>1
<1> DEFINE step == [p \in V \X evs |-> AddOne(p[1], p[2])]
<1>4. step \in [V \X evs -> V]
  <2> HIDE DEF V
  <2>1. \A v \in V, e \in evs : AddOne(v, e) \in V
    BY AddOneType DEF V
  <2> QED BY <2>1
<1>5. PICK g \in [SUBSET (1..n) -> V] : Iterates(g, step, <<>>, s, n)
  <2>1. <<>> \in V
    OBVIOUS
  <2> HIDE DEF step, V
  <2> QED BY <1>1, <1>4, <2>1, FoldExists
<1>6. g = Iter(g)
  <2>1. ASSUME NEW T \in SUBSET (1..n)
        PROVE  g[T] = IF T = {} THEN <<>> ELSE AddOne(g[T \ {Max(T)}], s[Max(T)])
    <3>1. CASE T = {}
      BY <1>5, <3>1 DEF Iterates
    <3>2. CASE T # {}
      <4> HIDE DEF V
      <4>1. g[T \ {Max(T)}] \in V
        OBVIOUS
      <4>2. s[Max(T)] \in evs
        BY <1>1, <3>2, GreatestIn
      <4>3. g[T] = step[<<g[T \ {Max(T)}], s[Max(T)]>>]
        BY <1>5, <3>2 DEF Iterates
      <4>4. step[<<g[T \ {Max(T)}], s[Max(T)]>>] = AddOne(g[T \ {Max(T)}], s[Max(T)])
        BY <4>1, <4>2
      <4> QED BY <3>2, <4>3, <4>4
    <3> QED BY <3>1, <3>2
  <2> HIDE DEF V
  <2>2. g = [T \in SUBSET (1..n) |-> g[T]]
    OBVIOUS
  <2>3. g = [T \in SUBSET (1..n) |->
               IF T = {} THEN <<>> ELSE AddOne(g[T \ {Max(T)}], s[Max(T)])]
    BY <2>1, <2>2, Zenon
  <2> QED BY <1>3, <2>3, Zenon
<1>7. chosen = Iter(chosen)
  BY <1>6, Zenon
<1>8. \A T \in SUBSET (1..n) :
        chosen[T] = IF T = {} THEN <<>> ELSE AddOne(chosen[T \ {Max(T)}], s[Max(T)])
  BY <1>3, <1>7, Zenon
<1> HIDE DEF chosen
<1>9. chosen[{}] = <<>>
  <2>1. {} \in SUBSET (1..n)
    OBVIOUS
  <2> QED BY <1>8, <2>1
<1>10. CASE n = 0
  <2>1. 1..n = {} /\ evs = {}
    BY <1>1, <1>10
  <2>2. ToSet(<<>>) = {}
    BY DEF ToSet
  <2>3. ClusterLoop(evs) = {}
    BY <1>2, <1>3, <1>9, <2>1, <2>2
  <2> QED BY <2>1, <2>3 DEF ClusterByGap
<1>11. CASE n # 0
  <2> DEFINE good == {k \in 0..n-1 : ClustersOfFirst(evs, k + 1, chosen[1..k+1])}
  <2>1. 0 \in good
    <3>1. 1 \in 1..n /\ 0 \in 0..n-1
      BY <1>1, <1>11
    <3>2. chosen[1..0+1] = AddOne(chosen[1..0], s[0 + 1])
      BY <1>1, <1>8, <3>1, UpTo
    <3>3. 1..0 = {} /\ 0 + 1 = 1
      OBVIOUS
    <3>4. chosen[1..0+1] = AddOne(<<>>, s[1])
      BY <1>9, <3>2, <3>3
    <3>5. ClustersOfFirst(evs, 1, AddOne(<<>>, s[1]))
      BY <3>1, FirstCluster DEF s, n
    <3> QED BY <3>1, <3>3, <3>4, <3>5
  <2>2. ASSUME NEW k \in 0..(n-1)-1, k \in good PROVE k + 1 \in good
    <3>1. k + 1 \in 0..n-1 /\ k + 1 \in Nat \ {0} /\ (k + 1) + 1 \in 1..n
      BY <1>1
    <3>2. chosen[1..(k+1)+1] = AddOne(chosen[1..k+1], s[(k + 1) + 1])
      <4> DEFINE j == k + 1
      <4>1. j \in 0..n-1
        BY <3>1
      <4> HIDE DEF j
      <4>2. chosen[1..j+1] = AddOne(chosen[1..j], s[j + 1])
        BY <1>1, <1>8, <4>1, UpTo
      <4> QED BY <4>2 DEF j
    <3>3. ClustersOfFirst(evs, k + 1, chosen[1..k+1])
      BY <2>2
    <3>4. ClustersOfFirst(evs, (k + 1) + 1, AddOne(chosen[1..k+1], s[(k + 1) + 1]))
      BY <3>1, <3>3, NextCluster DEF s, n
    <3> QED BY <3>1, <3>2, <3>4
  <2>3. ClustersOfFirst(evs, n, chosen[1..n])
    <3> HIDE DEF good
    <3>1. n - 1 \in Nat /\ (n - 1) + 1 = n
      BY <1>1, <1>11
    <3>2. 0..n-1 \subseteq good
      BY <2>1, <2>2, <3>1, CountingUp
    <3>3. n - 1 \in good
      BY <3>1, <3>2
    <3>4. ClustersOfFirst(evs, (n - 1) + 1, chosen[1..(n-1)+1])
      BY <3>3 DEF good
    <3> QED BY <3>1, <3>4
  <2> DEFINE h == chosen[1..n]
             l == s[n]
  <2>4. FirstEvents(evs, n) = evs /\ l \in evs
    BY <1>1, <1>11 DEF FirstEvents, s
  <2> HIDE DEF h
  <2>5. /\ h \in Seq(Seq(evs)) /\ h # <<>>
        /\ ToSet(Last(h)) = ClusterIn(evs, n, l)
        /\ {ToSet(c) : c \in ToSet(Front(h))}
             = {ClusterIn(evs, n, e) : e \in {e \in evs : ~Together(evs, l, e)}}
    BY <2>3, <2>4 DEF ClustersOfFirst, h, s
  <2>6. ToSet(h) = ToSet(Front(h)) \cup {Last(h)}
    BY <2>5, FrontIs
  <2>7. \A e : ClusterIn(evs, n, e) = {f \in evs : Together(evs, e, f)}
    BY <2>4 DEF ClusterIn
  <2> HIDE DEF l
  <2>8. \A e \in evs : Together(evs, l, e) => ClusterIn(evs, n, e) = ClusterIn(evs, n, l)
    <3>1. \A e \in evs : e.ts \in Int
      BY DEF IsEvents
    <3> QED BY <2>4, <2>7, <3>1, TogetherIsEquivalence
  <2>9. {ToSet(c) : c \in ToSet(h)} = {ClusterIn(evs, n, e) : e \in evs}
    BY <2>4, <2>5, <2>6, <2>8
  <2>10. ClusterByGap(evs) = {ClusterIn(evs, n, e) : e \in evs}
    BY <2>7 DEF ClusterByGap, Together
  <2> QED BY <1>2, <1>3, <2>9, <2>10 DEF h
<1> QED BY <1>10, <1>11

(***************************************************************************)
(* The rows of CorrelationLoops                                            *)
(***************************************************************************)

\* The rows are finitely many events, numbered as they came.
RowsOK ==
  /\ menu \in Menus /\ now \in menu.nows
  /\ IsEvents(rows)
  /\ \A e \in rows : e.id \in 1..Cardinality(rows) /\ e.received \in Nat
  /\ rows # {} => \E e \in rows : \A f \in rows : f.received <= e.received

LEMMA InitRows == Init => RowsOK
BY FS_EmptySet DEF Init, RowsOK, IsEvents

\* Storing a row keeps RowsOK: it gets the next number as its id.
LEMMA StoreRows == RowsOK /\ [Store]_vars => RowsOK'
<1> SUFFICES ASSUME RowsOK, [Store]_vars PROVE RowsOK'
  OBVIOUS
<1>1. CASE UNCHANGED vars
  BY <1>1 DEF vars, RowsOK
<1>2. CASE Store
  <2>1. PICK kind \in menu.kinds, ts \in menu.timestamps, received \in menu.receipts :
          rows' = rows \cup {Row(kind, 1 + Cardinality(rows), ts, received)}
    BY <1>2 DEF Store
  <2> DEFINE row == Row(kind, 1 + Cardinality(rows), ts, received)
             c   == Cardinality(rows)
  <2>2. /\ ts \in Int /\ received \in Nat /\ c \in Nat
        /\ menu' = menu /\ now' = now /\ menu \in Menus /\ now \in menu.nows
    BY <1>2, MenusAssumption, FS_CardinalityType DEF Store, RowsOK, IsEvents
  <2>3. row.id = 1 + c /\ row.ts = ts /\ row.received = received
    BY DEF Row
  <2> HIDE DEF row
  <2>4. /\ IsFiniteSet(rows) /\ \A e \in rows : e.id \in 1..c /\ e.ts \in Int /\ e.received \in Nat
        /\ \A e, f \in rows : e.id = f.id => e = f
    BY DEF RowsOK, IsEvents
  <2>5. rows' = rows \cup {row} /\ row \notin rows
    BY <2>1, <2>2, <2>3, <2>4 DEF row
  <2>6. IsFiniteSet(rows') /\ Cardinality(rows') = c + 1
    BY <2>4, <2>5, FS_AddElement
  <2> HIDE DEF c
  <2>7. IsEvents(rows')
    BY <2>2, <2>3, <2>4, <2>5, <2>6 DEF IsEvents
  <2>8. \A e \in rows' : e.id \in 1..Cardinality(rows') /\ e.received \in Nat
    BY <2>2, <2>3, <2>4, <2>5, <2>6
  <2>9. \E e \in rows' : \A f \in rows' : f.received <= e.received
    <3>1. CASE rows = {}
      BY <2>2, <2>3, <2>5, <3>1
    <3>2. CASE rows # {}
      <4>1. PICK e \in rows : \A f \in rows : f.received <= e.received
        BY <3>2 DEF RowsOK
      <4>2. CASE received <= e.received
        BY <2>3, <2>5, <4>1, <4>2
      <4>3. CASE ~(received <= e.received)
        <5>1. \A f \in rows' : f.received <= row.received
          BY <2>2, <2>3, <2>4, <2>5, <4>1, <4>3
        <5> QED BY <2>5, <5>1
      <4> QED BY <4>2, <4>3
    <3> QED BY <3>1, <3>2
  <2> QED BY <2>2, <2>7, <2>8, <2>9 DEF RowsOK
<1> QED BY <1>1, <1>2

LEMMA RowsAlways == Spec => []RowsOK
BY InitRows, StoreRows, PTL DEF Spec

\* Whatever rows are stored and whenever the pass runs, every incident
\* correlate() reports has a pattern and a severity of the API and names only
\* stored events.
THEOREM InputsTyped == Spec => []TypeOK
<1>1. RowsOK => TypeOK
  <2> SUFFICES ASSUME RowsOK PROVE TypeOK
    OBVIOUS
  <2>1. now \in Nat \cup {Batch}
    BY MenusAssumption DEF RowsOK
  <2>2. ASSUME NEW i \in Correlate(rows, now)
        PROVE  i.pattern \in Patterns /\ i.severity \in Severities /\ i.events \subseteq Ids(rows)
    BY Reported, CorrelateWithin DEF NewIncident
  <2> QED BY <2>1, <2>2 DEF TypeOK
<1> QED BY <1>1, RowsAlways, PTL

\* The claimed ids correlate() carries from one rule to the next work for every
\* input: no event is in two of the incidents of one pass, so the claim rows a
\* pass writes clash only with those of another pass.
THEOREM PassesConsistent == Spec => []PassIsConsistent
<1>1. RowsOK => PassIsConsistent
  BY IncidentsApart DEF RowsOK, PassIsConsistent
<1> QED BY <1>1, RowsAlways, PTL

\* _awaiting_composite_partner and _burst_is_settled only ever delay: once
\* every wait has run out, a pass with a clock reports exactly what the pass
\* over a finished batch (now is None) reports, for every window and hold.
THEOREM WaitsEnd == Spec => []WaitingOnlyDelays
<1>1. RowsOK => WaitingOnlyDelays
  <2> SUFFICES ASSUME RowsOK PROVE WaitingOnlyDelays
    OBVIOUS
  <2> DEFINE times == {e.received : e \in rows}
             last == IF rows = {} THEN 0 ELSE Max(times)
             late == 1 + MaxHold + CompositeWindow + SameSourceWindow + last
  <2>1. last \in Nat /\ \A e \in rows : e.received \in Nat /\ e.received <= last
    <3>1. CASE rows = {}
      BY <3>1
    <3>2. CASE rows # {}
      <4>1. \E x \in times : \A y \in times : x >= y
        BY <3>2 DEF RowsOK
      <4>2. Max(times) \in times /\ \A y \in times : Max(times) >= y
        BY <4>1, Zenon DEF Max
      <4>3. last = Max(times)
        BY <3>2
      <4> HIDE DEF last
      <4> QED BY <4>2, <4>3 DEF RowsOK
    <3> QED BY <3>1, <3>2
  <2> HIDE DEF last
  <2>2. late \in Nat /\ \A e \in rows : /\ e.received \in Int
                                        /\ late - e.received >= CompositeWindow
                                        /\ late - e.received >= SameSourceWindow
    BY <2>1, WindowsAreNat
  <2> HIDE DEF late
  <2>3. Correlate(rows, late) = Correlate(rows, Batch)
    BY <2>2, NothingWaits
  <2> QED BY <2>3, Zenon DEF WaitingOnlyDelays, late, last
<1> QED BY <1>1, RowsAlways, PTL

\* correlate() passes its clock to the burst rule alone: at any time it reports
\* the composites and the untrusted pulls that a batch over the same events
\* reports.
THEOREM UrgentAtOnce == Spec => []UrgentPatternsNotHeld
<1>1. UrgentPatternsNotHeld
  BY UrgentNow DEF UrgentPatternsNotHeld
<1> QED BY <1>1, PTL

\* _find_composite_incidents, whose nested loop walks sorted lists and a set of
\* claimed ids, takes exactly the pairs CompositePairs names, for any number of
\* candidates and any ties between their timestamps.
THEOREM PairsAgree == Spec => []PairingAgrees
<1>1. RowsOK => PairingAgrees
  BY PairingIs DEF RowsOK, PairingAgrees
<1> QED BY <1>1, RowsAlways, PTL

\* _cluster_by_gap, which compares each event only with the one before it, cuts
\* the events exactly as ClusterByGap does, for any number of events, any ties
\* between their timestamps and any window.
THEOREM ClustersAgree == Spec => []ClusteringAgrees
<1>1. RowsOK => ClusteringAgrees
  BY ClusteringIs DEF RowsOK, ClusteringAgrees
<1> QED BY <1>1, RowsAlways, PTL
=============================================================================
