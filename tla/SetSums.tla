------------------------------ MODULE SetSums ------------------------------
(* What MapThenSumSet computes.  It is a recursive function on the subsets   *)
(* of its argument, which to the provers is a CHOOSE; that there is such a   *)
(* function, only one, and that it yields numbers, follows from the fact     *)
(* that every set of subsets of a finite set has a minimal one.              *)
EXTENDS FiniteSets, Integers, FiniteSetTheorems, TLAPS

(* The element that MapThenSumSet takes out of a set first, and the rest. *)
First(s) == CHOOSE x \in s : TRUE
Rest(s) == s \ {First(s)}

(* h is a table of the sums of g over the subsets of S. *)
Tabulates(h, g, S) ==
  h = [s \in SUBSET S |-> IF s = {} THEN 0 ELSE g[First(s)] + h[Rest(s)]]

LEMMA MinimalSet ==
  ASSUME NEW S, IsFiniteSet(S), NEW Q, Q \subseteq SUBSET S, Q # {}
  PROVE  \E s \in Q : \A u \in Q : u \subseteq s => u = s
<1>1. IsWellFoundedOn(StrictSubsetOrdering(S), SUBSET S)
  BY FS_StrictSubsetOrderingWellFounded, FS_FiniteSubsetsOfFinite
<1>2. PICK s \in Q : \A u \in Q : ~(<<u, s>> \in StrictSubsetOrdering(S))
  BY <1>1, WFMin
<1>3. ASSUME NEW u \in Q, u \subseteq s
      PROVE  u = s
  BY <1>2, <1>3 DEF StrictSubsetOrdering
<1> QED
  BY <1>3

LEMMA LeastNumber ==
  ASSUME NEW S, IsFiniteSet(S), S # {}, \A x \in S : x \in Nat
  PROVE  \E k \in S : \A j \in S : k <= j
<1> DEFINE UpTo(k) == {x \in S : x <= k}
           Q == {s \in SUBSET S : \E k \in S : s = UpTo(k)}
<1>1. \A k \in S : UpTo(k) \in Q
  OBVIOUS
<1>2. PICK s \in Q : \A u \in Q : u \subseteq s => u = s
  <2>1. Q \subseteq SUBSET S
    OBVIOUS
  <2>2. Q # {}
    BY <1>1
  <2> HIDE DEF Q, UpTo
  <2> QED
    BY <2>1, <2>2, MinimalSet
<1>3. PICK k \in S : s = UpTo(k)
  BY <1>2
<1> HIDE DEF Q
<1>4. ASSUME NEW j \in S, j < k
      PROVE  FALSE
  <2>1. k \in Nat /\ j \in Nat
    OBVIOUS
  <2>2. UpTo(j) \subseteq UpTo(k)
    <3>1. ASSUME NEW x \in S, x <= j
          PROVE  x <= k
      <4>1. x \in Nat
        OBVIOUS
      <4> QED
        BY <1>4, <2>1, <3>1, <4>1
    <3> QED
      BY <3>1
  <2>3. UpTo(j) = UpTo(k)
    BY <1>1, <1>2, <1>3, <2>2
  <2>4. k \in UpTo(k) /\ k \notin UpTo(j)
    BY <1>4, <2>1
  <2> HIDE DEF UpTo
  <2> QED
    BY <2>3, <2>4
<1>5. \A j \in S : k <= j
  BY <1>4
<1> QED
  BY <1>5

LEMMA FirstRest ==
  ASSUME NEW S, NEW s \in SUBSET S, s # {}
  PROVE  First(s) \in s /\ First(s) \in S /\ Rest(s) \in SUBSET S
         /\ Rest(s) \subseteq s /\ Rest(s) # s
BY DEF First, Rest

LEMMA TableEntry ==
  ASSUME NEW S, NEW g, NEW h, Tabulates(h, g, S)
  PROVE  /\ h[{}] = 0
         /\ \A s \in SUBSET S : s # {} => h[s] = g[First(s)] + h[Rest(s)]
<1> DEFINE E(s) == IF s = {} THEN 0 ELSE g[First(s)] + h[Rest(s)]
<1>1. h = [s \in SUBSET S |-> E(s)]
  BY DEF Tabulates
<1>2. E({}) = 0 /\ \A s : s # {} => E(s) = g[First(s)] + h[Rest(s)]
  OBVIOUS
<1> HIDE DEF E
<1>3. \A s \in SUBSET S : h[s] = E(s)
  BY <1>1
<1> QED
  BY <1>2, <1>3

(* Two tables agree wherever both are defined. *)
LEMMA TablesAgree ==
  ASSUME NEW S, IsFiniteSet(S), NEW T \in SUBSET S, NEW g,
         NEW h, Tabulates(h, g, S), NEW k, Tabulates(k, g, T)
  PROVE  \A s \in SUBSET T : h[s] = k[s]
<1> DEFINE Q == {s \in SUBSET T : h[s] # k[s]}
<1>1. SUFFICES ASSUME Q # {}
               PROVE  FALSE
  OBVIOUS
<1>2. Q \subseteq SUBSET S
  OBVIOUS
<1>3. PICK s \in Q : \A u \in Q : u \subseteq s => u = s
  <2> HIDE DEF Q
  <2> QED
    BY <1>1, <1>2, MinimalSet
<1>4. s \in SUBSET T /\ s \in SUBSET S /\ h[s] # k[s]
  BY <1>3
<1>5. s # {}
  BY <1>4, TableEntry
<1>6. Rest(s) \in SUBSET T /\ Rest(s) \subseteq s /\ Rest(s) # s
  BY <1>4, <1>5, FirstRest
<1>7. h[Rest(s)] = k[Rest(s)]
  BY <1>3, <1>6
<1>8. h[s] = g[First(s)] + h[Rest(s)] /\ k[s] = g[First(s)] + k[Rest(s)]
  <2>1. h[s] = g[First(s)] + h[Rest(s)]
    BY <1>4, <1>5, TableEntry
  <2>2. k[s] = g[First(s)] + k[Rest(s)]
    BY <1>4, <1>5, TableEntry
  <2> QED
    BY <2>1, <2>2
<1> QED
  BY <1>4, <1>7, <1>8

(* There is a table, and its entries are numbers. *)
LEMMA TableExists ==
  ASSUME NEW S, IsFiniteSet(S), NEW g \in [S -> Nat]
  PROVE  \E h \in [SUBSET S -> Nat] : Tabulates(h, g, S)
<1> DEFINE Q == {s \in SUBSET S : ~\E h \in [SUBSET s -> Nat] : Tabulates(h, g, s)}
<1>1. SUFFICES ASSUME Q # {}
               PROVE  FALSE
  OBVIOUS
<1>2. PICK T \in Q : \A u \in Q : u \subseteq T => u = T
  <2>1. Q \subseteq SUBSET S
    OBVIOUS
  <2> HIDE DEF Q
  <2> QED
    BY <1>1, <2>1, MinimalSet
<1> DEFINE Table(u) == CHOOSE h : h \in [SUBSET u -> Nat] /\ Tabulates(h, g, u)
           H == [s \in SUBSET T |-> IF s = {} THEN 0
                                    ELSE g[First(s)] + Table(Rest(s))[Rest(s)]]
<1>3. ASSUME NEW u \in SUBSET T, u # T
      PROVE  Table(u) \in [SUBSET u -> Nat] /\ Tabulates(Table(u), g, u)
  <2>1. \E h : h \in [SUBSET u -> Nat] /\ Tabulates(h, g, u)
    BY <1>2, <1>3
  <2> QED
    BY <2>1
<1>4. ASSUME NEW s \in SUBSET T, s # {}
      PROVE  /\ Rest(s) \in SUBSET T /\ Rest(s) # T /\ First(s) \in S
             /\ H[s] = g[First(s)] + Table(Rest(s))[Rest(s)]
             /\ H[s] \in Nat
  <2>1. Rest(s) \in SUBSET T /\ Rest(s) # T /\ First(s) \in S
    <3>1. First(s) \in T /\ Rest(s) \in SUBSET T /\ Rest(s) \subseteq s /\ Rest(s) # s
      BY <1>4, FirstRest
    <3>2. T \in SUBSET S
      BY <1>2
    <3> QED
      BY <3>1, <3>2
  <2>2. H[s] = g[First(s)] + Table(Rest(s))[Rest(s)]
    BY <1>4
  <2>3. Table(Rest(s))[Rest(s)] \in Nat /\ g[First(s)] \in Nat
    BY <1>3, <2>1
  <2> HIDE DEF H, Table
  <2> QED
    BY <2>1, <2>2, <2>3
<1>5. H[{}] = 0
  OBVIOUS
<1>6. ASSUME NEW s \in SUBSET T, s # {}
      PROVE  Table(Rest(s))[Rest(s)] = H[Rest(s)]
  <2> DEFINE u == Rest(s)
  <2>1. u \in SUBSET T /\ u # T /\ u \in SUBSET u
    BY <1>4, <1>6
  <2>2. Tabulates(Table(u), g, u)
    BY <1>3, <2>1
  <2>3. CASE u = {}
    BY <1>5, <2>2, <2>3, TableEntry
  <2>4. CASE u # {}
    <3>1. Rest(u) \in SUBSET u /\ Rest(u) \in SUBSET T /\ Rest(u) # T
      BY <1>4, <2>1, <2>4, FirstRest
    <3>2. Tabulates(Table(Rest(u)), g, Rest(u))
      BY <1>3, <3>1
    <3>3. IsFiniteSet(u)
      BY <2>1, FS_Subset
    <3>4. Table(u)[Rest(u)] = Table(Rest(u))[Rest(u)]
      BY <2>2, <3>1, <3>2, <3>3, TablesAgree
    <3>5. Table(u)[u] = g[First(u)] + Table(u)[Rest(u)]
      <4>1. \A h : Tabulates(h, g, u) => h[u] = g[First(u)] + h[Rest(u)]
        BY <2>1, <2>4, TableEntry
      <4> HIDE DEF Table
      <4> QED
        BY <2>2, <4>1
    <3>6. H[u] = g[First(u)] + Table(Rest(u))[Rest(u)]
      BY <1>4, <2>1, <2>4
    <3> HIDE DEF H, Table, u
    <3>7. Table(u)[u] = H[u]
      BY <3>4, <3>5, <3>6
    <3> QED
      BY <3>7 DEF u
  <2> HIDE DEF H, Table
  <2> QED
    BY <2>3, <2>4
<1>7. H \in [SUBSET T -> Nat]
  <2>1. \A s \in SUBSET T : H[s] \in Nat
    BY <1>4, <1>5
  <2> QED
    BY <2>1
<1>8. Tabulates(H, g, T)
  <2> DEFINE K == [s \in SUBSET T |-> IF s = {} THEN 0 ELSE g[First(s)] + H[Rest(s)]]
  <2>1. ASSUME NEW s \in SUBSET T
        PROVE  H[s] = K[s]
    <3>1. CASE s = {}
      BY <1>5, <3>1
    <3>2. CASE s # {}
      <4>1. K[s] = g[First(s)] + H[Rest(s)]
        BY <3>2
      <4>2. H[s] = g[First(s)] + Table(Rest(s))[Rest(s)]
        BY <1>4, <3>2
      <4>3. Table(Rest(s))[Rest(s)] = H[Rest(s)]
        BY <1>6, <3>2
      <4> HIDE DEF H, K, Table
      <4> QED
        BY <4>1, <4>2, <4>3
    <3> QED
      BY <3>1, <3>2
  <2> QED
    BY <2>1 DEF Tabulates
<1> QED
  BY <1>2, <1>7, <1>8

(* There is one table of the sums of natural numbers, and it has numbers. *)
LEMMA TableIsNatural ==
  ASSUME NEW S, IsFiniteSet(S), NEW g \in [S -> Nat]
  PROVE  /\ \E h : Tabulates(h, g, S)
         /\ \A h : Tabulates(h, g, S) => h[S] \in Nat
<1>1. PICK h \in [SUBSET S -> Nat] : Tabulates(h, g, S)
  BY TableExists
<1>2. ASSUME NEW k, Tabulates(k, g, S)
      PROVE  k[S] = h[S]
  BY <1>1, <1>2, TablesAgree
<1> QED
  BY <1>1, <1>2
=============================================================================
