----------------------- MODULE CorrelationRulesProofs -----------------------
(***************************************************************************)
(* What the grouping rules give for any events, windows and registries.    *)
(* The pairing of composites is defined by recursion over the pairs; that  *)
(* the recursion has a solution for every finite set of events is proved   *)
(* here (PairsTaken), and with it that the incidents of one pass share no  *)
(* event (IncidentsApart).                                                 *)
(***************************************************************************)
EXTENDS CorrelationRules, FiniteSetTheorems, WellFoundedInduction, TLAPS

\* A burst is made of events the burst rule was given.
LEMMA BurstWithin ==
  ASSUME NEW evs, NEW t, NEW cluster \in Bursts(evs, t)
  PROVE  cluster \subseteq evs
<1> DEFINE eligible == BurstCandidates(evs, t)
           OfSource(src) == {e \in eligible : e.source = src}
<1>1. PICK e \in eligible : cluster \in ClusterByGap(OfSource(e.source))
  BY Zenon DEF Bursts
<1>2. cluster \subseteq OfSource(e.source)
  <2> HIDE DEF OfSource
  <2> QED BY <1>1 DEF ClusterByGap
<1>3. eligible \subseteq evs
  BY DEF BurstCandidates
<1> QED BY <1>2, <1>3

\* Every incident a pass reports is made of events it was given.
LEMMA CorrelateWithin ==
  ASSUME NEW evs, NEW t, NEW i \in Correlate(evs, t)
  PROVE  i.events \subseteq Ids(evs)
<1> DEFINE live == {e \in evs : ~IsError(e)}
           composites == CompositePairs(live)
           paired == {e \in live : \E c \in composites : e = c[1] \/ e = c[2]}
           pulls == {e \in live \ paired : IsUntrustedPull(e)}
           rest == live \ (paired \cup pulls)
<1>1. CASE \E c \in composites : i = CompositeIncident(c[1], c[2])
  <2>1. PICK c \in composites : i = CompositeIncident(c[1], c[2])
    BY <1>1
  <2>2. c[1] \in live /\ c[2] \in live
    BY DEF CompositePairs, Pairs
  <2> QED BY <2>1, <2>2 DEF CompositeIncident, NewIncident, Ids
<1>2. CASE \E e \in pulls : i = UntrustedIncident(e)
  BY <1>2 DEF UntrustedIncident, NewIncident, Ids
<1>3. CASE \E cluster \in Bursts(rest, t) : i = BurstIncident(cluster)
  <2>1. PICK cluster \in Bursts(rest, t) : i = BurstIncident(cluster)
    BY <1>3
  <2>2. cluster \subseteq rest
    BY BurstWithin
  <2> QED BY <2>1, <2>2 DEF BurstIncident, NewIncident, Ids
<1> QED BY <1>1, <1>2, <1>3 DEF Correlate

(***************************************************************************)
(* An order has a last element, and what blocks only later things a kernel *)
(***************************************************************************)

\* R orders the elements of S, as a set of pairs.
Orders(R, S) ==
  /\ \A a \in S : <<a, a>> \notin R
  /\ \A a, b, c \in S : <<a, b>> \in R /\ <<b, c>> \in R => <<a, c>> \in R

LEMMA LastElement ==
  ASSUME NEW S, IsFiniteSet(S), S # {}, NEW R, Orders(R, S)
  PROVE  \E m \in S : \A n \in S : <<m, n>> \notin R
<1> DEFINE above(n) == {m \in S : <<n, m>> \in R}
           aboves == {above(n) : n \in S}
<1>1. IsWellFoundedOn(StrictSubsetOrdering(S), SUBSET S)
  BY FS_StrictSubsetOrderingWellFounded, FS_FiniteSubsetsOfFinite
<1>2. aboves \subseteq SUBSET S /\ aboves # {}
  OBVIOUS
<1>3. PICK A \in aboves : \A B \in aboves : <<B, A>> \notin StrictSubsetOrdering(S)
  <2> HIDE DEF aboves
  <2> QED BY <1>1, <1>2, WFMin
<1>4. PICK m \in S : A = above(m)
  OBVIOUS
<1>5. ASSUME NEW n \in S, <<m, n>> \in R PROVE FALSE
  <2>1. \A k \in S : <<n, k>> \in R => <<m, k>> \in R
    BY <1>5 DEF Orders
  <2>2. n \in above(m) /\ n \notin above(n)
    BY <1>5 DEF Orders
  <2>3. <<above(n), A>> \in StrictSubsetOrdering(S)
    BY <1>4, <2>1, <2>2 DEF StrictSubsetOrdering
  <2> QED BY <1>3, <2>3
<1> QED BY <1>5

\* K is what is in W and blocked by nothing in K.
Kernel(K, S, W, B) ==
  \A p \in S : p \in K <=> p \in W /\ \A o \in S : <<o, p>> \in B => o \notin K

LEMMA KernelOneMore ==
  ASSUME NEW S, NEW W, NEW B, NEW m \in S, \A n \in S : <<m, n>> \notin B,
         NEW J \in SUBSET (S \ {m}), Kernel(J, S \ {m}, W, B)
  PROVE  \E K \in SUBSET S : Kernel(K, S, W, B)
<1> DEFINE free == m \in W /\ \A o \in S : <<o, m>> \in B => o \notin J
           K == IF free THEN J \cup {m} ELSE J
<1>1. K \in SUBSET S /\ \A o \in S \ {m} : o \in K <=> o \in J
  OBVIOUS
<1>2. m \in K <=> free
  OBVIOUS
<1> HIDE DEF K
<1>3. m \in K <=> m \in W /\ \A o \in S : <<o, m>> \in B => o \notin K
  BY <1>1, <1>2
<1>4. ASSUME NEW p \in S \ {m}
      PROVE  p \in K <=> p \in W /\ \A o \in S : <<o, p>> \in B => o \notin K
  BY <1>1 DEF Kernel
<1> QED BY <1>1, <1>3, <1>4 DEF Kernel

LEMMA KernelExists ==
  ASSUME NEW P, IsFiniteSet(P), NEW R, Orders(R, P), NEW W, NEW B,
         \A o, p \in P : <<o, p>> \in B => <<o, p>> \in R
  PROVE  \E K \in SUBSET P : Kernel(K, P, W, B)
<1> DEFINE bad == {S \in SUBSET P : ~\E K \in SUBSET S : Kernel(K, S, W, B)}
<1> SUFFICES ASSUME bad # {} PROVE FALSE
  OBVIOUS
<1>1. IsWellFoundedOn(StrictSubsetOrdering(P), SUBSET P)
  BY FS_StrictSubsetOrderingWellFounded, FS_FiniteSubsetsOfFinite
<1>2. PICK S \in bad : \A T \in bad : <<T, S>> \notin StrictSubsetOrdering(P)
  <2>1. bad \subseteq SUBSET P
    OBVIOUS
  <2> HIDE DEF bad
  <2> QED BY <1>1, <2>1, WFMin
<1>3. S \subseteq P /\ IsFiniteSet(S) /\ Orders(R, S)
  BY FS_Subset DEF Orders
<1>4. S # {}
  BY DEF Kernel
<1>5. PICK m \in S : \A n \in S : <<m, n>> \notin R
  BY <1>3, <1>4, LastElement
<1>6. \A n \in S : <<m, n>> \notin B
  BY <1>3, <1>5
<1>7. <<S \ {m}, S>> \in StrictSubsetOrdering(P)
  BY <1>3 DEF StrictSubsetOrdering
<1>8. PICK J \in SUBSET (S \ {m}) : Kernel(J, S \ {m}, W, B)
  BY <1>2, <1>3, <1>7
<1> QED BY <1>6, <1>8, KernelOneMore

(***************************************************************************)
(* The pairs a pass takes                                                  *)
(***************************************************************************)

\* A finite set of stored events: the primary key makes their ids unique.
IsEvents(evs) ==
  /\ IsFiniteSet(evs)
  /\ \A e \in evs : e.id \in Int /\ e.ts \in Int
  /\ \A e, f \in evs : e.id = f.id => e = f

LEMMA BeforeOrders ==
  ASSUME NEW evs, IsEvents(evs)
  PROVE  /\ \A e \in evs : ~Before(e, e)
         /\ \A e, f \in evs : e # f => Before(e, f) \/ Before(f, e)
         /\ \A e, f, g \in evs : Before(e, f) /\ Before(f, g) => Before(e, g)
BY DEF IsEvents, Before

\* A pair comes before another and has a half in common with it.
Blocks(other, pair) ==
  \/ other[1] = pair[1] /\ Before(other[2], pair[2])
  \/ other[2] = pair[2] /\ Before(other[1], pair[1])

\* The order of the loops: by the dependency, then by the secret.
LoopOrder(evs) ==
  {pp \in Pairs(evs) \X Pairs(evs) :
     \/ Before(pp[1][1], pp[2][1])
     \/ pp[1][1] = pp[2][1] /\ Before(pp[1][2], pp[2][2])}

LEMMA PairsAre ==
  ASSUME NEW evs, IsEvents(evs)
  PROVE  /\ IsFiniteSet(Pairs(evs)) /\ Orders(LoopOrder(evs), Pairs(evs))
         /\ \A pair \in Pairs(evs) : /\ pair[1] \in evs /\ pair[2] \in evs
                                    /\ pair = <<pair[1], pair[2]>>
                                    /\ pair[1].scenario = "malicious-dependency"
                                    /\ pair[2].scenario = "leaked-secret"
<1>1. IsFiniteSet(Pairs(evs))
  <2>1. /\ IsFiniteSet({e \in evs : e.scenario = "malicious-dependency"})
        /\ IsFiniteSet({e \in evs : e.scenario = "leaked-secret"})
    BY FS_Subset DEF IsEvents
  <2> QED BY <2>1, FS_Product DEF Pairs
<1>2. \A pair \in Pairs(evs) : /\ pair[1] \in evs /\ pair[2] \in evs
                               /\ pair = <<pair[1], pair[2]>>
                               /\ pair[1].scenario = "malicious-dependency"
                               /\ pair[2].scenario = "leaked-secret"
  BY DEF Pairs
<1>3. \A a \in Pairs(evs) : <<a, a>> \notin LoopOrder(evs)
  BY <1>2, BeforeOrders DEF LoopOrder
<1>4. \A a, b \in Pairs(evs) :
        <<a, b>> \in LoopOrder(evs) <=> Before(a[1], b[1]) \/ (a[1] = b[1] /\ Before(a[2], b[2]))
  BY DEF LoopOrder
<1>5. \A a, b, c \in Pairs(evs) :
        <<a, b>> \in LoopOrder(evs) /\ <<b, c>> \in LoopOrder(evs) => <<a, c>> \in LoopOrder(evs)
  BY <1>2, <1>4, BeforeOrders
<1> QED BY <1>1, <1>2, <1>3, <1>5 DEF Orders

\* The recursion of CompositePairs has a solution: a pair is taken just when it
\* is close enough and no pair that is taken blocks it.
LEMMA PairsTaken ==
  ASSUME NEW evs, IsEvents(evs)
  PROVE  /\ CompositePairs(evs) \subseteq Pairs(evs)
         /\ \A pair \in Pairs(evs) :
              pair \in CompositePairs(evs) <=>
                /\ WithinCompositeWindow(pair[1], pair[2])
                /\ \A other \in Pairs(evs) : Blocks(other, pair) => other \notin CompositePairs(evs)
<1> DEFINE P == Pairs(evs)
           W == {p \in P : WithinCompositeWindow(p[1], p[2])}
           B == {pp \in P \X P : Blocks(pp[1], pp[2])}
           Step(T, pair) == /\ WithinCompositeWindow(pair[1], pair[2])
                            /\ \A other \in P : Blocks(other, pair) => ~T[other]
           Solves(T) == T = [pair \in P |-> Step(T, pair)]
           Taken == CHOOSE T : Solves(T)
<1>1. PICK K \in SUBSET P : Kernel(K, P, W, B)
  <2>1. IsFiniteSet(P) /\ Orders(LoopOrder(evs), P)
    BY PairsAre
  <2>2. \A o, p \in P : <<o, p>> \in B => <<o, p>> \in LoopOrder(evs)
    BY PairsAre DEF Blocks, LoopOrder
  <2> HIDE DEF P, W, B
  <2> QED BY <2>1, <2>2, KernelExists
<1>2. Solves([pair \in P |-> pair \in K])
  <2> DEFINE T == [pair \in P |-> pair \in K]
  <2>1. ASSUME NEW pair \in P
        PROVE  (pair \in K) = Step(T, pair)
    <3>1. pair \in K <=> pair \in W /\ \A o \in P : <<o, pair>> \in B => o \notin K
      BY <1>1 DEF Kernel
    <3>2. \A o \in P : <<o, pair>> \in B <=> Blocks(o, pair)
      OBVIOUS
    <3>3. pair \in W <=> WithinCompositeWindow(pair[1], pair[2])
      OBVIOUS
    <3>4. \A o \in P : T[o] = (o \in K)
      OBVIOUS
    <3> HIDE DEF T, W, B
    <3>5. (pair \in K) <=> Step(T, pair)
      BY <3>1, <3>2, <3>3, <3>4
    <3>6. CASE pair \in K
      <4>1. Step(T, pair) = TRUE
        BY <3>5, <3>6
      <4>2. (pair \in K) = TRUE
        BY <3>6
      <4> QED BY <4>1, <4>2, Zenon
    <3>7. CASE pair \notin K
      <4>1. Step(T, pair) = FALSE
        BY <3>5, <3>7
      <4>2. (pair \in K) = FALSE
        BY <3>7
      <4> QED BY <4>1, <4>2, Zenon
    <3> QED BY <3>6, <3>7
  <2> QED BY <2>1, Zenon
<1>3. Solves(Taken)
  BY <1>2, Zenon
<1>4. CompositePairs(evs) = {pair \in P : Taken[pair]}
  BY Zenon DEF CompositePairs, Blocks
<1>5. \A pair \in P : Taken[pair] = Step(Taken, pair)
  BY <1>3, Zenon
<1> HIDE DEF Taken
<1> QED BY <1>4, <1>5

\* Two pairs that are taken have no half in common.
LEMMA PairsApart ==
  ASSUME NEW evs, IsEvents(evs), NEW p \in CompositePairs(evs), NEW q \in CompositePairs(evs), p # q
  PROVE  {p[1], p[2]} \cap {q[1], q[2]} = {}
<1>1. p \in Pairs(evs) /\ q \in Pairs(evs) /\ ~Blocks(p, q) /\ ~Blocks(q, p)
  BY PairsTaken
<1>2. /\ p = <<p[1], p[2]>> /\ q = <<q[1], q[2]>> /\ {p[1], p[2], q[1], q[2]} \subseteq evs
      /\ p[1].scenario = "malicious-dependency" /\ q[1].scenario = "malicious-dependency"
      /\ p[2].scenario = "leaked-secret" /\ q[2].scenario = "leaked-secret"
  BY <1>1, PairsAre
<1>3. p[1] # q[1]
  BY <1>1, <1>2, BeforeOrders DEF Blocks
<1>4. p[2] # q[2]
  BY <1>1, <1>2, BeforeOrders DEF Blocks
<1> QED BY <1>2, <1>3, <1>4

(***************************************************************************)
(* The clusters of a source                                                *)
(***************************************************************************)

Together(evs, e, f) == ~GapBetween(evs, e, f) /\ ~GapBetween(evs, f, e)

\* No gap between them: an equivalence, so clusters are equal or disjoint.
LEMMA TogetherIsEquivalence ==
  ASSUME NEW evs, \A e \in evs : e.ts \in Int
  PROVE  /\ \A e \in evs : Together(evs, e, e)
         /\ \A e, f \in evs : Together(evs, e, f) => Together(evs, f, e)
         /\ \A e, f, g \in evs : Together(evs, e, f) /\ Together(evs, f, g) => Together(evs, e, g)
<1>1. \A e \in evs : Together(evs, e, e)
  BY DEF Together, GapBetween
<1>2. \A e, f \in evs : Together(evs, e, f) => Together(evs, f, e)
  BY DEF Together
<1>3. ASSUME NEW e \in evs, NEW f \in evs, NEW g \in evs, GapBetween(evs, e, g)
      PROVE  GapBetween(evs, e, f) \/ GapBetween(evs, f, g)
  <2>1. PICK h \in evs : /\ e.ts <= h.ts /\ h.ts < g.ts
                         /\ \A k \in evs : h.ts < k.ts => k.ts - h.ts > SameSourceWindow
    BY <1>3 DEF GapBetween
  <2>2. CASE f.ts <= h.ts
    BY <2>1, <2>2 DEF GapBetween
  <2>3. CASE h.ts < f.ts
    BY <2>1, <2>3 DEF GapBetween
  <2> QED BY <2>2, <2>3
<1>4. \A e, f, g \in evs : Together(evs, e, f) /\ Together(evs, f, g) => Together(evs, e, g)
  BY <1>3 DEF Together
<1> QED BY <1>1, <1>2, <1>4

LEMMA ClustersApart ==
  ASSUME NEW evs, \A e \in evs : e.ts \in Int,
         NEW c \in ClusterByGap(evs), NEW d \in ClusterByGap(evs), c # d
  PROVE  c \cap d = {}
<1>1. PICK a \in evs : c = {f \in evs : Together(evs, a, f)}
  BY DEF ClusterByGap, Together
<1>2. PICK b \in evs : d = {f \in evs : Together(evs, b, f)}
  BY DEF ClusterByGap, Together
<1>3. ASSUME NEW f \in c, f \in d PROVE c = d
  <2>1. Together(evs, a, b) /\ Together(evs, b, a)
    BY <1>1, <1>2, <1>3, TogetherIsEquivalence
  <2>2. \A g \in evs : Together(evs, a, g) <=> Together(evs, b, g)
    BY <2>1, TogetherIsEquivalence
  <2> QED BY <1>1, <1>2, <2>2
<1> QED BY <1>3

\* A burst is a cluster of the candidates of one source.
LEMMA BurstIsCluster ==
  ASSUME NEW evs, NEW t, NEW burst \in Bursts(evs, t)
  PROVE  \E e \in BurstCandidates(evs, t) :
           burst \in ClusterByGap({f \in BurstCandidates(evs, t) : f.source = e.source})
BY Zenon DEF Bursts

LEMMA BurstOfCandidates ==
  ASSUME NEW evs, NEW t, NEW burst \in Bursts(evs, t)
  PROVE  burst \subseteq BurstCandidates(evs, t)
<1>1. PICK e \in BurstCandidates(evs, t) :
         burst \in ClusterByGap({f \in BurstCandidates(evs, t) : f.source = e.source})
  BY BurstIsCluster
<1> QED BY <1>1 DEF ClusterByGap

LEMMA BurstsApart ==
  ASSUME NEW evs, \A e \in evs : e.ts \in Int, NEW t,
         NEW c \in Bursts(evs, t), NEW d \in Bursts(evs, t), c # d
  PROVE  c \cap d = {}
<1> DEFINE OfSource(src) == {f \in BurstCandidates(evs, t) : f.source = src}
<1>1. PICK a \in BurstCandidates(evs, t) : c \in ClusterByGap(OfSource(a.source))
  BY BurstIsCluster
<1>2. PICK b \in BurstCandidates(evs, t) : d \in ClusterByGap(OfSource(b.source))
  BY BurstIsCluster
<1>3. \A src : \A e \in OfSource(src) : e.ts \in Int /\ e.source = src
  BY DEF BurstCandidates
<1> HIDE DEF OfSource
<1>4. c \subseteq OfSource(a.source) /\ d \subseteq OfSource(b.source)
  BY <1>1, <1>2 DEF ClusterByGap
<1>5. CASE a.source = b.source
  BY <1>1, <1>2, <1>3, <1>5, ClustersApart
<1>6. CASE a.source # b.source
  BY <1>3, <1>4, <1>6
<1> QED BY <1>5, <1>6

(***************************************************************************)
(* The incidents of a pass                                                 *)
(***************************************************************************)

\* The three kinds of incident, and what each rule looks at.
Live(evs)      == {e \in evs : ~IsError(e)}
Paired(evs)    == {e \in Live(evs) : \E c \in CompositePairs(Live(evs)) : e = c[1] \/ e = c[2]}
Pulls(evs)     == {e \in Live(evs) \ Paired(evs) : IsUntrustedPull(e)}
Remaining(evs) == Live(evs) \ (Paired(evs) \cup Pulls(evs))

Composites(evs) == {CompositeIncident(c[1], c[2]) : c \in CompositePairs(Live(evs))}
PullIncidents(evs) == {UntrustedIncident(e) : e \in Pulls(evs)}
BurstIncidents(evs, t) == {BurstIncident(cluster) : cluster \in Bursts(Remaining(evs), t)}

LEMMA CorrelateIs ==
  \A evs, t : Correlate(evs, t) = Composites(evs) \cup PullIncidents(evs) \cup BurstIncidents(evs, t)
BY Zenon DEF Correlate, Composites, PullIncidents, BurstIncidents, Live, Paired, Pulls, Remaining

\* The events an incident of each kind is made of.
LEMMA GroupsOf ==
  ASSUME NEW evs, IsEvents(evs), NEW t
  PROVE  /\ \A c \in CompositePairs(Live(evs)) : c[1] \in Paired(evs) /\ c[2] \in Paired(evs)
         /\ \A cluster \in Bursts(Remaining(evs), t) : cluster \subseteq Remaining(evs)
         /\ IsEvents(Live(evs))
<1>1. IsEvents(Live(evs))
  BY FS_Subset DEF IsEvents, Live
<1>2. \A c \in CompositePairs(Live(evs)) : c[1] \in Live(evs) /\ c[2] \in Live(evs)
  BY <1>1, PairsTaken, PairsAre
<1>3. \A cluster \in Bursts(Remaining(evs), t) : cluster \subseteq Remaining(evs)
  BY BurstWithin
<1> QED BY <1>1, <1>2, <1>3 DEF Paired

\* Events that are different have different ids.
LEMMA IdsApart ==
  ASSUME NEW evs, IsEvents(evs), NEW S \in SUBSET evs, NEW T \in SUBSET evs, S \cap T = {}
  PROVE  Ids(S) \cap Ids(T) = {}
BY DEF IsEvents, Ids

\* The incidents one pass reports have no event in common.
LEMMA IncidentsApart ==
  ASSUME NEW evs, IsEvents(evs), NEW t, NEW i \in Correlate(evs, t), NEW j \in Correlate(evs, t), i # j
  PROVE  i.events \cap j.events = {}
<1>0. /\ Paired(evs) \subseteq evs /\ Pulls(evs) \subseteq evs /\ Remaining(evs) \subseteq evs
      /\ Paired(evs) \cap Pulls(evs) = {} /\ Remaining(evs) \cap (Paired(evs) \cup Pulls(evs)) = {}
  BY DEF Live, Paired, Pulls, Remaining
<1>1. /\ \A c \in CompositePairs(Live(evs)) : c[1] \in Paired(evs) /\ c[2] \in Paired(evs)
      /\ \A cluster \in Bursts(Remaining(evs), t) : cluster \subseteq Remaining(evs)
      /\ IsEvents(Live(evs))
  BY GroupsOf
<1>2. /\ \A c : CompositeIncident(c[1], c[2]).events = Ids({c[1], c[2]})
      /\ \A e : UntrustedIncident(e).events = Ids({e})
      /\ \A cluster : BurstIncident(cluster).events = Ids(cluster)
  BY DEF CompositeIncident, UntrustedIncident, BurstIncident, NewIncident
<1>3. \A k \in Composites(evs) : \E S \in SUBSET Paired(evs) : k.events = Ids(S)
  BY <1>1, <1>2 DEF Composites
<1>4. \A k \in PullIncidents(evs) : \E S \in SUBSET Pulls(evs) : k.events = Ids(S)
  BY <1>2 DEF PullIncidents
<1>5. \A k \in BurstIncidents(evs, t) : \E S \in SUBSET Remaining(evs) : k.events = Ids(S)
  BY <1>1, <1>2 DEF BurstIncidents
<1>6. CASE i \in Composites(evs) /\ j \in Composites(evs)
  <2>1. PICK c \in CompositePairs(Live(evs)) : i = CompositeIncident(c[1], c[2])
    BY <1>6 DEF Composites
  <2>2. PICK d \in CompositePairs(Live(evs)) : j = CompositeIncident(d[1], d[2])
    BY <1>6 DEF Composites
  <2>3. {c[1], c[2]} \cap {d[1], d[2]} = {}
    BY <1>1, <2>1, <2>2, PairsApart
  <2>4. {c[1], c[2]} \in SUBSET evs /\ {d[1], d[2]} \in SUBSET evs
    BY <1>0, <1>1
  <2>5. i.events = Ids({c[1], c[2]}) /\ j.events = Ids({d[1], d[2]})
    BY <1>2, <2>1, <2>2
  <2> QED BY <2>3, <2>4, <2>5, IdsApart
<1>7. CASE i \in PullIncidents(evs) /\ j \in PullIncidents(evs)
  <2>1. PICK e \in Pulls(evs) : i = UntrustedIncident(e)
    BY <1>7 DEF PullIncidents
  <2>2. PICK f \in Pulls(evs) : j = UntrustedIncident(f)
    BY <1>7 DEF PullIncidents
  <2>3. {e} \in SUBSET evs /\ {f} \in SUBSET evs /\ {e} \cap {f} = {}
    BY <1>0, <2>1, <2>2
  <2>4. i.events = Ids({e}) /\ j.events = Ids({f})
    BY <1>2, <2>1, <2>2
  <2> QED BY <2>3, <2>4, IdsApart
<1>8. CASE i \in BurstIncidents(evs, t) /\ j \in BurstIncidents(evs, t)
  <2>1. PICK c \in Bursts(Remaining(evs), t) : i = BurstIncident(c)
    BY <1>8 DEF BurstIncidents
  <2>2. PICK d \in Bursts(Remaining(evs), t) : j = BurstIncident(d)
    BY <1>8 DEF BurstIncidents
  <2>3. c \cap d = {}
    BY <1>0, <2>1, <2>2, BurstsApart DEF IsEvents
  <2>4. c \in SUBSET evs /\ d \in SUBSET evs
    BY <1>0, <1>1
  <2> QED BY <1>2, <2>1, <2>2, <2>3, <2>4, IdsApart
<1>9. ASSUME NEW k, NEW A \in SUBSET evs, \E S \in SUBSET A : k.events = Ids(S),
             NEW l, NEW B \in SUBSET evs, \E T \in SUBSET B : l.events = Ids(T),
             A \cap B = {}
      PROVE  k.events \cap l.events = {}
  <2>1. PICK S \in SUBSET A : k.events = Ids(S)
    BY <1>9
  <2>2. PICK T \in SUBSET B : l.events = Ids(T)
    BY <1>9
  <2>3. S \in SUBSET evs /\ T \in SUBSET evs /\ S \cap T = {}
    BY <1>9
  <2> QED BY <2>1, <2>2, <2>3, IdsApart
<1>10. \A k \in Composites(evs), l \in PullIncidents(evs) : k.events \cap l.events = {}
  BY <1>0, <1>3, <1>4, <1>9
<1>11. \A k \in Composites(evs), l \in BurstIncidents(evs, t) : k.events \cap l.events = {}
  <2>1. Paired(evs) \cap Remaining(evs) = {}
    BY <1>0
  <2> QED BY <1>0, <1>3, <1>5, <1>9, <2>1
<1>12. \A k \in PullIncidents(evs), l \in BurstIncidents(evs, t) : k.events \cap l.events = {}
  <2>1. Pulls(evs) \cap Remaining(evs) = {}
    BY <1>0
  <2> QED BY <1>0, <1>4, <1>5, <1>9, <2>1
<1>13. \A k, l : k.events \cap l.events = {} => l.events \cap k.events = {}
  OBVIOUS
<1> HIDE DEF Composites, PullIncidents, BurstIncidents
<1> QED BY <1>6, <1>7, <1>8, <1>10, <1>11, <1>12, <1>13, CorrelateIs

\* A pass holds nothing back once every wait has run out: it reports what a
\* one-off batch over the same events would.
LEMMA NothingWaits ==
  ASSUME NEW evs, NEW t \in Nat,
         \A e \in evs : /\ e.received \in Int
                        /\ t - e.received >= CompositeWindow /\ t - e.received >= SameSourceWindow
  PROVE  Correlate(evs, t) = Correlate(evs, Batch)
<1>1. t # Batch
  BY DEF Batch
<1>2. \A e \in evs : ~AwaitingPartner(e, t)
  BY WindowsAreNat DEF AwaitingPartner
<1>3. ASSUME NEW S \in SUBSET evs
      PROVE  Bursts(S, t) = Bursts(S, Batch)
  <2>1. BurstCandidates(S, t) = BurstCandidates(S, Batch) /\ BurstCandidates(S, t) \subseteq evs
    BY <1>2, <1>3 DEF BurstCandidates
  <2>2. ASSUME NEW C \in SUBSET evs
        PROVE  BurstIsSettled(C, t)
    BY <2>2 DEF BurstIsSettled
  <2> DEFINE clusters(u) == UNION {ClusterByGap({f \in BurstCandidates(S, u) : f.source = e.source}) :
                                     e \in BurstCandidates(S, u)}
  <2>3. clusters(t) = clusters(Batch)
    BY <2>1
  <2>4. ASSUME NEW C \in clusters(t)
        PROVE  C \in SUBSET evs
    <3>1. PICK e \in BurstCandidates(S, t) :
            C \in ClusterByGap({f \in BurstCandidates(S, t) : f.source = e.source})
      BY <2>4
    <3> QED BY <2>1, <3>1 DEF ClusterByGap
  <2>5. ASSUME NEW u
        PROVE  Bursts(S, u) = {C \in clusters(u) : /\ \E e, f \in C : e # f
                                                   /\ u # Batch => BurstIsSettled(C, u)}
    BY DEF Bursts
  <2> HIDE DEF clusters
  <2> QED BY <1>1, <2>2, <2>3, <2>4, <2>5
<1>4. Remaining(evs) \in SUBSET evs
  BY DEF Remaining, Live
<1> QED BY <1>3, <1>4, CorrelateIs DEF BurstIncidents

\* Composites and pulls do not depend on the time of the pass.
LEMMA UrgentNow ==
  ASSUME NEW evs, NEW t, NEW i \in Correlate(evs, t), i.pattern # "same-source-burst", NEW u
  PROVE  i \in Correlate(evs, u)
<1>1. i \notin BurstIncidents(evs, t)
  BY DEF BurstIncidents, BurstIncident, NewIncident
<1> QED BY <1>1, CorrelateIs

\* What a pass reports has one of the patterns and severities of the API.
LEMMA Reported ==
  ASSUME NEW evs, NEW t, NEW i \in Correlate(evs, t)
  PROVE  \E group : \E pattern \in Patterns, severity \in Severities :
           i = NewIncident(pattern, group, severity)
<1>1. CASE \E d, s : i = CompositeIncident(d, s)
  <2>1. PICK d, s : i = CompositeIncident(d, s)
    BY <1>1
  <2>2. (IF Successes({d, s}) = 2 THEN "critical" ELSE "high") \in Severities
    BY DEF Severities
  <2> QED BY <2>1, <2>2, Zenon DEF CompositeIncident, Patterns
<1>2. CASE \E e : i = UntrustedIncident(e)
  BY <1>2, Zenon DEF UntrustedIncident, Patterns, Severities
<1>3. CASE \E c : i = BurstIncident(c)
  <2>1. PICK c : i = BurstIncident(c)
    BY <1>3
  <2>2. (IF Successes(c) > 0 THEN "high" ELSE "medium") \in Severities
    BY DEF Severities
  <2> QED BY <2>1, <2>2, Zenon DEF BurstIncident, Patterns
<1>4. \/ \E d, s : i = CompositeIncident(d, s)
      \/ \E e : i = UntrustedIncident(e)
      \/ \E c : i = BurstIncident(c)
  BY DEF Correlate
<1> QED BY <1>1, <1>2, <1>3, <1>4

(***************************************************************************)
(* Who ends up with whom                                                   *)
(***************************************************************************)

\* Events less than a window apart are never cut apart.
LEMMA CloseTogether ==
  ASSUME NEW evs, \A e \in evs : e.ts \in Int,
         NEW cluster \in ClusterByGap(evs), NEW e \in cluster, NEW f \in evs,
         Abs(e.ts - f.ts) <= SameSourceWindow
  PROVE  f \in cluster
<1>1. PICK a \in evs : cluster = {g \in evs : Together(evs, a, g)}
  BY DEF ClusterByGap, Together
<1>2. e \in evs /\ Together(evs, a, e)
  BY <1>1
<1>3. Together(evs, e, f)
  <2>1. ~GapBetween(evs, e, f)
    BY <1>2, WindowsAreNat DEF GapBetween, Abs
  <2>2. ~GapBetween(evs, f, e)
    BY <1>2, WindowsAreNat DEF GapBetween, Abs
  <2> QED BY <2>1, <2>2 DEF Together
<1>4. Together(evs, a, f)
  BY <1>2, <1>3, TogetherIsEquivalence
<1> QED BY <1>1, <1>4

\* A burst takes in every candidate of its source that close to one of it.
LEMMA BurstClosed ==
  ASSUME NEW evs, \A e \in evs : e.ts \in Int, NEW t,
         NEW burst \in Bursts(evs, t), NEW g \in burst,
         NEW h \in BurstCandidates(evs, t), h.source = g.source,
         Abs(g.ts - h.ts) <= SameSourceWindow
  PROVE  h \in burst
<1>1. PICK a \in BurstCandidates(evs, t) :
         burst \in ClusterByGap({f \in BurstCandidates(evs, t) : f.source = a.source})
  BY Zenon DEF Bursts
<1> DEFINE own == {f \in BurstCandidates(evs, t) : f.source = a.source}
<1>2. \A f \in own : f.ts \in Int
  BY DEF BurstCandidates
<1>3. burst \subseteq own
  BY <1>1 DEF ClusterByGap
<1>4. h \in own
  BY <1>3
<1>5. burst \in ClusterByGap(own)
  BY <1>1
<1> HIDE DEF own
<1> QED BY <1>2, <1>4, <1>5, CloseTogether

\* Two candidates that close make a burst, at the latest when one of them has
\* been held for long enough.
LEMMA HeldIsReported ==
  ASSUME NEW evs, \A e \in evs : e.ts \in Int, NEW t,
         NEW e \in BurstCandidates(evs, t), NEW f \in BurstCandidates(evs, t), e # f,
         e.source = f.source, Abs(e.ts - f.ts) <= SameSourceWindow,
         t - e.received >= MaxHold
  PROVE  \E burst \in Bursts(evs, t) : e \in burst /\ f \in burst
<1> DEFINE own == {g \in BurstCandidates(evs, t) : g.source = e.source}
           burst == {g \in own : Together(own, e, g)}
<1>1. e \in own /\ f \in own /\ \A g \in own : g.ts \in Int
  BY DEF BurstCandidates
<1>2. burst \in ClusterByGap(own)
  BY <1>1 DEF ClusterByGap, Together
<1>3. e \in burst
  BY <1>1, TogetherIsEquivalence
<1>4. f \in burst
  <2> HIDE DEF own, burst
  <2> QED BY <1>1, <1>2, <1>3, CloseTogether
<1>5. BurstIsSettled(burst, t)
  BY <1>3 DEF BurstIsSettled
<1>6. burst \in UNION {ClusterByGap({h \in BurstCandidates(evs, t) : h.source = g.source}) :
                         g \in BurstCandidates(evs, t)}
  BY <1>2
<1>7. burst \in Bursts(evs, t)
  <2> HIDE DEF burst
  <2> QED BY <1>3, <1>4, <1>5, <1>6, Zenon DEF Bursts
<1> QED BY <1>3, <1>4, <1>7

\* Of two halves close in time, one at least goes into a composite.
LEMMA OneHalfPaired ==
  ASSUME NEW evs, IsEvents(evs), NEW pair \in Pairs(Live(evs)),
         WithinCompositeWindow(pair[1], pair[2])
  PROVE  pair[1] \in Paired(evs) \/ pair[2] \in Paired(evs)
<1>1. IsEvents(Live(evs))
  BY GroupsOf
<1>2. pair[1] \in Live(evs) /\ pair[2] \in Live(evs)
  BY <1>1, PairsAre
<1>3. CASE pair \in CompositePairs(Live(evs))
  BY <1>2, <1>3 DEF Paired
<1>4. CASE pair \notin CompositePairs(Live(evs))
  <2>1. PICK other \in CompositePairs(Live(evs)) : Blocks(other, pair)
    BY <1>1, <1>4, PairsTaken
  <2> QED BY <1>2, <2>1 DEF Paired, Blocks
<1> QED BY <1>3, <1>4
=============================================================================
