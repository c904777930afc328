--------------------------- MODULE PlannerProofs ----------------------------
(***************************************************************************)
(* Build, proved for any tiers, drives, readings, libraries and scores:     *)
(* nothing is forgotten or planned twice, every move fits when its turn     *)
(* comes, each phase brings back as many as could come back side by side,   *)
(* what is wanted back goes first, and the next plan is empty.              *)
(*                                                                          *)
(* First what Build computes: sums over finite sets, sorting one, the       *)
(* destinations, the greedy heuristic, the search's tree and usage after    *)
(* some moves. Then one invariant for each property: Typed, Parted (what    *)
(* may move is planned, pending or to be looked at, once), Accounts         *)
(* (working is the first reading and what the plan writes and frees), Spent *)
(* (what is left over has no room, or a round goes by for it) and Waiting   *)
(* (fills go on only while too few of those wanted back have room).         *)
(***************************************************************************)
EXTENDS Planner, TLAPS, WellFoundedInduction, FiniteSetTheorems

-----------------------------------------------------------------------------
(* Induction on numbers, and on the size of a set *)

LEMMA LeastElement ==
  ASSUME NEW S \in SUBSET Nat, S # {}
  PROVE  \E n \in S : \A m \in S : n <= m
<1> DEFINE R == {p \in Nat \X Nat : p[1] < p[2]}
<1>1. IsWellFoundedOn(R, Nat)
  BY NatLessThanWellFounded DEF OpToRel
<1>2. PICK n \in S : \A m \in S : ~ (<<m, n>> \in R)
  <2> HIDE DEF R
  <2> QED BY <1>1, WFMin
<1>3. ASSUME NEW m \in S PROVE n <= m
  <2>1. <<m, n>> \in Nat \X Nat /\ <<m, n>>[1] = m /\ <<m, n>>[2] = n
    OBVIOUS
  <2>2. ~(m < n)
    BY <1>2, <2>1
  <2> QED BY <2>2
<1> QED BY <1>3

LEMMA UpTo ==
  ASSUME NEW n \in Nat, NEW S, 0 \in S, \A i \in 0..n - 1 : i \in S => i + 1 \in S
  PROVE  0..n \subseteq S
<1>1. SUFFICES ASSUME (0..n) \ S # {} PROVE FALSE
  OBVIOUS
<1>2. PICK i \in (0..n) \ S : \A j \in (0..n) \ S : i <= j
  <2>1. (0..n) \ S \in SUBSET Nat
    OBVIOUS
  <2> QED BY <1>1, <2>1, LeastElement
<1>3. i - 1 \in 0..n - 1 /\ i - 1 \in S
  BY <1>2
<1> QED BY <1>2, <1>3

LEMMA MaxOfSome ==
  ASSUME NEW n \in Nat, NEW t \in SUBSET (1..n), t # {}
  PROVE  Max(t) \in t /\ \A i \in t : i <= Max(t)
<1> DEFINE D == {n - i : i \in t}
<1>1. D \in SUBSET Nat /\ D # {}
  <2>1. \A i \in t : n - i \in Nat
    OBVIOUS
  <2> QED BY <2>1
<1>2. PICK d \in D : \A e \in D : d <= e
  <2> HIDE DEF D
  <2> QED BY <1>1, LeastElement
<1>3. PICK m \in t : d = n - m
  BY <1>2
<1>4. \A i \in t : m >= i
  <2> TAKE i \in t
  <2>1. d <= n - i /\ i \in 1..n /\ m \in 1..n
    BY <1>2
  <2> QED BY <2>1, <1>3
<1> QED BY <1>4 DEF Max

LEMMA Initials ==
  ASSUME NEW n \in Nat
  PROVE  /\ 1..0 = {}
         /\ \A i \in 0..n : 1..i \in SUBSET (1..n)
         /\ \A i \in 1..n : /\ 1..i # {} /\ Max(1..i) = i
                            /\ (1..i) \ {i} = 1..i - 1 /\ i - 1 \in 0..n
<1>1. ASSUME NEW i \in 1..n PROVE Max(1..i) = i
  <2>1. i \in 1..i /\ 1..i \in SUBSET (1..i) /\ i \in Nat
    OBVIOUS
  <2>2. Max(1..i) \in 1..i /\ i <= Max(1..i)
    BY <2>1, MaxOfSome
  <2> QED BY <2>2
<1> QED BY <1>1

\* What holds of a set's subsets if it does of one with a member more.
LEMMA BySize ==
  ASSUME NEW K, IsFiniteSet(K), NEW G, G \subseteq SUBSET K,
         \A L \in SUBSET K : (\A M \in SUBSET L : M # L => M \in G) => L \in G
  PROVE  K \in G
<1> DEFINE N == Cardinality(K)
           S == {n \in 0..N : \A L \in SUBSET K : Cardinality(L) <= n => L \in G}
<1>1. N \in Nat /\ \A L \in SUBSET K : IsFiniteSet(L) /\ Cardinality(L) \in Nat /\ Cardinality(L) <= N
  BY FS_CardinalityType, FS_Subset
<1>2. \A L \in SUBSET K : \A M \in SUBSET L : M # L => Cardinality(M) < Cardinality(L)
  BY <1>1, FS_Subset
<1>3. 0 \in S
  <2>1. ASSUME NEW L \in SUBSET K, Cardinality(L) <= 0 PROVE L \in G
    <3>1. \A M \in SUBSET L : ~(M # L)
      BY <1>1, <1>2, <2>1
    <3> QED BY <3>1
  <2> QED BY <1>1, <2>1
<1>4. ASSUME NEW n \in 0..N - 1, n \in S PROVE n + 1 \in S
  <2>1. ASSUME NEW L \in SUBSET K, Cardinality(L) <= n + 1 PROVE L \in G
    <3>1. \A M \in SUBSET L : M # L => M \in SUBSET K /\ Cardinality(M) <= n
      BY <1>1, <1>2, <2>1
    <3>2. \A M \in SUBSET L : M # L => M \in G
      BY <1>4, <3>1
    <3> QED BY <3>2
  <2>2. n + 1 \in 0..N
    BY <1>1
  <2> QED BY <2>1, <2>2
<1>5. N \in S
  <2> HIDE DEF S
  <2>1. 0..N \subseteq S
    <3> HIDE DEF N
    <3> QED BY <1>1, <1>3, <1>4, UpTo
  <2> QED BY <2>1, <1>1
<1> QED BY <1>1, <1>5

-----------------------------------------------------------------------------
(* Orders *)

Orders(R, K) == \A x \in K : <<x, x>> \notin R /\ \A y, z \in K : <<x, y>> \in R /\ <<y, z>> \in R => <<x, z>> \in R

\* Something before which there is nothing.
LEMMA FirstOf ==
  ASSUME NEW K, IsFiniteSet(K), K # {}, NEW R, Orders(R, K)
  PROVE  \E m \in K : \A k \in K : <<k, m>> \notin R
<1> DEFINE HasFirst(L) == \E m \in L : \A k \in L : <<k, m>> \notin R
           G == {L \in SUBSET K : L # {} => HasFirst(L)}
<1>1. ASSUME NEW L \in SUBSET K, \A M \in SUBSET L : M # L => M \in G PROVE L \in G
  <2>1. SUFFICES ASSUME L # {} PROVE HasFirst(L)
    OBVIOUS
  <2>2. PICK x \in L : TRUE
    BY <2>1
  <2>3. CASE L = {x}
    BY <2>3 DEF Orders
  <2>4. CASE L # {x}
    <3>1. HasFirst(L \ {x})
      <4>1. L \ {x} \in G /\ L \ {x} # {}
        BY <1>1, <2>2, <2>4
      <4> QED BY <4>1
    <3>2. PICK m \in L \ {x} : \A k \in L \ {x} : <<k, m>> \notin R
      BY <3>1
    <3>3. CASE <<x, m>> \notin R
      BY <3>2, <3>3
    <3>4. CASE <<x, m>> \in R
      <4>1. \A k \in L : <<k, x>> \notin R
        BY <3>2, <3>4, <2>2 DEF Orders
      <4> QED BY <4>1, <2>2
    <3> QED BY <3>3, <3>4
  <2> QED BY <2>3, <2>4
<1>2. K \in G
  <2>1. G \subseteq SUBSET K
    OBVIOUS
  <2> HIDE DEF G
  <2> QED BY <1>1, <2>1, BySize
<1> QED BY <1>2

LEMMA CanSort ==
  ASSUME NEW K, IsFiniteSet(K), NEW R, Orders(R, K)
  PROVE  \E s \in SetToSeqs(K) : \A i, j \in DOMAIN s : i < j => <<s[j], s[i]>> \notin R
<1> DEFINE Sorted(s) == \A i, j \in DOMAIN s : i < j => <<s[j], s[i]>> \notin R
           G == {L \in SUBSET K : \E s \in SetToSeqs(L) : Sorted(s)}
           B == {<<p[2], p[1]>> : p \in {q \in K \X K : q \in R}}
<1>1. Orders(B, K) /\ \A x, y \in K : <<x, y>> \in B <=> <<y, x>> \in R
  <2>1. \A x, y \in K : <<x, y>> \in B <=> <<y, x>> \in R
    <3> TAKE x, y \in K
    <3>1. ASSUME <<x, y>> \in B PROVE <<y, x>> \in R
      <4>1. PICK p \in {q \in K \X K : q \in R} : <<x, y>> = <<p[2], p[1]>>
        BY <3>1
      <4>2. p = <<y, x>>
        BY <4>1
      <4> QED BY <4>1, <4>2
    <3>2. ASSUME <<y, x>> \in R PROVE <<x, y>> \in B
      <4>1. <<y, x>> \in {q \in K \X K : q \in R} /\ <<y, x>>[1] = y /\ <<y, x>>[2] = x
        BY <3>2
      <4> QED BY <4>1
    <3> QED BY <3>1, <3>2
  <2> HIDE DEF B
  <2> QED BY <2>1 DEF Orders
<1>2. ASSUME NEW L \in SUBSET K, \A M \in SUBSET L : M # L => M \in G PROVE L \in G
  <2>0. IsFiniteSet(L)
    BY FS_Subset
  <2>1. CASE L = {}
    <3> DEFINE s == [i \in 1..0 |-> 0]
    <3>1. DOMAIN s = {} /\ 1..0 = {} /\ Cardinality(L) = 0
      BY <2>1, FS_EmptySet
    <3>2. s \in SetToSeqs(L)
      BY <3>1 DEF SetToSeqs
    <3>3. Sorted(s)
      BY <3>1
    <3> HIDE DEF s, Sorted
    <3> QED BY <3>2, <3>3
  <2>2. CASE L # {}
    <3>1. PICK m \in L : \A k \in L : <<m, k>> \notin R
      <4>1. Orders(B, L)
        BY <1>1 DEF Orders
      <4>2. \E m \in L : \A k \in L : <<k, m>> \notin B
        <5> HIDE DEF B
        <5> QED BY <2>0, <2>2, <4>1, FirstOf
      <4> QED BY <1>1, <4>2
    <3> DEFINE M == L \ {m}  n == Cardinality(M)
    <3>2. M \in SUBSET L /\ M # L /\ n \in Nat /\ Cardinality(L) = n + 1
      BY <2>0, FS_RemoveElement, FS_CardinalityType, FS_Subset
    <3>3. PICK s \in SetToSeqs(M) : Sorted(s)
      BY <1>2, <3>2
    <3>4. s \in [1..n -> M] /\ \A i, j \in 1..n : i # j => s[i] # s[j]
      BY <3>3 DEF SetToSeqs
    <3> HIDE DEF n
    <3> DEFINE t == [i \in 1..n + 1 |-> IF i = n + 1 THEN m ELSE s[i]]
    <3>5. DOMAIN t = 1..n + 1 /\ t[n + 1] = m /\ \A i \in 1..n : t[i] = s[i] /\ t[i] \in M
      BY <3>2, <3>4
    <3>6. \A i \in 1..n + 1 : i = n + 1 \/ i \in 1..n
      BY <3>2
    <3>7. t \in [1..n + 1 -> L]
      BY <3>4, <3>6
    <3> HIDE DEF t
    <3>8. \A i, j \in 1..n + 1 : i # j => t[i] # t[j]
      BY <3>4, <3>5, <3>6
    <3>9. Sorted(t)
      <4>1. ASSUME NEW i \in 1..n + 1, NEW j \in 1..n + 1, i < j PROVE <<t[j], t[i]>> \notin R
        <5>1. i \in 1..n
          BY <4>1, <3>2
        <5>2. CASE j = n + 1
          BY <3>1, <3>5, <5>1, <5>2
        <5>3. CASE j \in 1..n
          BY <3>3, <3>4, <3>5, <4>1, <5>1, <5>3
        <5> QED BY <3>6, <5>2, <5>3
      <4> QED BY <3>5, <4>1
    <3>10. t \in SetToSeqs(L)
      BY <3>2, <3>7, <3>8 DEF SetToSeqs
    <3> HIDE DEF Sorted
    <3> QED BY <3>9, <3>10
  <2> QED BY <2>1, <2>2
<1>3. K \in G
  <2>1. G \subseteq SUBSET K
    OBVIOUS
  <2> HIDE DEF G
  <2> QED BY <1>2, <2>1, BySize
<1> QED BY <1>3

\* A set's members in some order are all of them.
LEMMA SeqsOf ==
  ASSUME NEW K, IsFiniteSet(K), NEW s \in SetToSeqs(K)
  PROVE  /\ Cardinality(K) \in Nat
         /\ s \in [1..Cardinality(K) -> K]
         /\ \A k \in K : \E i \in 1..Cardinality(K) : s[i] = k
         /\ \A i, j \in 1..Cardinality(K) : i # j => s[i] # s[j]
<1> DEFINE N == Cardinality(K)
<1>1. N \in Nat
  BY FS_CardinalityType
<1>2. s \in [1..N -> K] /\ \A i, j \in 1..N : i # j => s[i] # s[j]
  BY DEF SetToSeqs
<1>3. s \in Injection(1..N, K)
  BY <1>2 DEF Injection, IsInjective
<1>4. IsFiniteSet(1..N) /\ Cardinality(1..N) = N
  BY <1>1, FS_Interval
<1>5. s \in Surjection(1..N, K)
  BY <1>3, <1>4, FS_Injection
<1>6. \A k \in K : \E i \in 1..N : s[i] = k
  BY <1>5 DEF Surjection
<1> QED BY <1>1, <1>2, <1>6

-----------------------------------------------------------------------------
(* Sums over finite sets *)

Some(t) == CHOOSE x \in t : TRUE

\* g sums f over every set of members of L.
Sums(g, f, L) == g = [t \in SUBSET L |-> IF t = {} THEN 0 ELSE f[Some(t)] + g[t \ {Some(t)}]]

SumsOf(f, L) == CHOOSE g : Sums(g, f, L)

LEMMA SumIs == ASSUME NEW f, NEW L PROVE SumFunctionOnSet(f, L) = SumsOf(f, L)[L]
BY DEF SumFunctionOnSet, FoldFunctionOnSet, MapThenFoldSet, SumsOf, Sums, Some

LEMMA SumsAt ==
  ASSUME NEW f, NEW L, NEW g, Sums(g, f, L), NEW t \in SUBSET L
  PROVE  /\ t = {} => g[t] = 0
         /\ t # {} => Some(t) \in t /\ g[t] = f[Some(t)] + g[t \ {Some(t)}]
<1>1. g[t] = IF t = {} THEN 0 ELSE f[Some(t)] + g[t \ {Some(t)}]
  BY DEF Sums
<1>2. t # {} => Some(t) \in t
  BY DEF Some
<1> QED BY <1>1, <1>2

LEMMA SumsAgree ==
  ASSUME NEW f, NEW L, NEW M, NEW g, Sums(g, f, L), NEW h, Sums(h, f, M), NEW t \in SUBSET L, t \in SUBSET M,
         IsFiniteSet(t)
  PROVE  g[t] = h[t]
<1> DEFINE G == {s \in SUBSET t : g[s] = h[s]}
<1>1. ASSUME NEW s \in SUBSET t, \A u \in SUBSET s : u # s => u \in G PROVE s \in G
  <2>0. s \in SUBSET L /\ s \in SUBSET M
    OBVIOUS
  <2>1. CASE s = {}
    <3>1. g[s] = 0 /\ h[s] = 0
      BY <2>0, <2>1, SumsAt
    <3> QED BY <3>1
  <2>2. CASE s # {}
    <3>1. /\ Some(s) \in s
          /\ g[s] = f[Some(s)] + g[s \ {Some(s)}]
          /\ h[s] = f[Some(s)] + h[s \ {Some(s)}]
      BY <2>0, <2>2, SumsAt
    <3>2. s \ {Some(s)} \in G
      BY <1>1, <3>1
    <3> QED BY <3>1, <3>2
  <2> QED BY <2>1, <2>2
<1>2. t \in G
  <2>1. G \subseteq SUBSET t
    OBVIOUS
  <2> HIDE DEF G
  <2> QED BY <1>1, <2>1, BySize
<1> QED BY <1>2

LEMMA SumsExist ==
  ASSUME NEW f, NEW L, IsFiniteSet(L)
  PROVE  Sums(SumsOf(f, L), f, L)
<1> DEFINE G == {M \in SUBSET L : \E g : Sums(g, f, M)}
<1>1. ASSUME NEW M \in SUBSET L, \A t \in SUBSET M : t # M => t \in G PROVE M \in G
  <2>1. ASSUME NEW t \in SUBSET M, t # M PROVE Sums(SumsOf(f, t), f, t)
    <3>1. \E g : Sums(g, f, t)
      BY <1>1, <2>1
    <3> QED BY <3>1 DEF SumsOf
  <2> DEFINE At(t) == SumsOf(f, t)[t]
             g == [t \in SUBSET M |-> IF t = {} THEN 0 ELSE f[Some(t)] + At(t \ {Some(t)})]
  <2>2. ASSUME NEW t \in SUBSET M, t # M PROVE g[t] = At(t)
    <3>1. Sums(SumsOf(f, t), f, t) /\ t \in SUBSET t
      BY <2>1, <2>2
    <3>2. CASE t = {}
      BY <3>1, <3>2, SumsAt
    <3>3. CASE t # {}
      <4> DEFINE u == t \ {Some(t)}
      <4>1. Some(t) \in t /\ At(t) = f[Some(t)] + SumsOf(f, t)[u]
        BY <3>1, <3>3, SumsAt
      <4>2. u \in SUBSET M /\ u # M /\ u \in SUBSET t /\ IsFiniteSet(u)
        BY <4>1, FS_Subset
      <4>3. SumsOf(f, t)[u] = At(u)
        BY <4>2, <2>1, <3>1, SumsAgree
      <4>4. g[t] = f[Some(t)] + At(u)
        BY <3>3
      <4> QED BY <4>1, <4>3, <4>4
    <3> QED BY <3>2, <3>3
  <2>3. Sums(g, f, M)
    <3>1. ASSUME NEW t \in SUBSET M, t # {} PROVE At(t \ {Some(t)}) = g[t \ {Some(t)}]
      <4>1. Some(t) \in t
        BY <3>1 DEF Some
      <4>2. t \ {Some(t)} \in SUBSET M /\ t \ {Some(t)} # M
        BY <4>1
      <4> HIDE DEF g, At
      <4> QED BY <2>2, <4>2
    <3>2. g = [t \in SUBSET M |-> IF t = {} THEN 0 ELSE f[Some(t)] + g[t \ {Some(t)}]]
      BY <3>1
    <3> HIDE DEF g
    <3> QED BY <3>2 DEF Sums
  <2> HIDE DEF g
  <2> QED BY <2>3
<1>2. L \in G
  <2>1. G \subseteq SUBSET L
    OBVIOUS
  <2> HIDE DEF G
  <2> QED BY <1>1, <2>1, BySize
<1>3. \E g : Sums(g, f, L)
  BY <1>2
<1> QED BY <1>3 DEF SumsOf

LEMMA SumOfNone == ASSUME NEW f PROVE SumFunctionOnSet(f, {}) = 0
<1>1. Sums(SumsOf(f, {}), f, {})
  BY SumsExist, FS_EmptySet
<1> QED BY <1>1, SumIs, SumsAt

LEMMA SumOfSome ==
  ASSUME NEW f, NEW L, IsFiniteSet(L), L # {}
  PROVE  Some(L) \in L /\ SumFunctionOnSet(f, L) = f[Some(L)] + SumFunctionOnSet(f, L \ {Some(L)})
<1> DEFINE M == L \ {Some(L)}
<1>1. IsFiniteSet(M) /\ M \in SUBSET L /\ M \in SUBSET M /\ L \in SUBSET L
  BY FS_Subset
<1>2. Sums(SumsOf(f, L), f, L) /\ Sums(SumsOf(f, M), f, M)
  BY <1>1, SumsExist
<1>3. SumsOf(f, L)[M] = SumsOf(f, M)[M]
  BY <1>1, <1>2, SumsAgree
<1>4. Some(L) \in L /\ SumsOf(f, L)[L] = f[Some(L)] + SumsOf(f, L)[M]
  BY <1>1, <1>2, SumsAt
<1> QED BY <1>3, <1>4, SumIs

LEMMA SumType ==
  ASSUME NEW L, IsFiniteSet(L), NEW f, \A x \in L : f[x] \in Nat
  PROVE  SumFunctionOnSet(f, L) \in Nat
<1> DEFINE G == {M \in SUBSET L : SumFunctionOnSet(f, M) \in Nat}
<1>1. ASSUME NEW M \in SUBSET L, \A t \in SUBSET M : t # M => t \in G PROVE M \in G
  <2>1. CASE M = {}
    BY <2>1, SumOfNone
  <2>2. CASE M # {}
    <3>1. Some(M) \in M /\ SumFunctionOnSet(f, M) = f[Some(M)] + SumFunctionOnSet(f, M \ {Some(M)})
      BY <2>2, SumOfSome, FS_Subset
    <3>2. M \ {Some(M)} \in G /\ f[Some(M)] \in Nat
      BY <1>1, <3>1
    <3> QED BY <3>1, <3>2
  <2> QED BY <2>1, <2>2
<1>2. L \in G
  <2>1. G \subseteq SUBSET L
    OBVIOUS
  <2> HIDE DEF G
  <2> QED BY <1>1, <2>1, BySize
<1> QED BY <1>2

LEMMA SumWithout ==
  ASSUME NEW L, IsFiniteSet(L), NEW f, \A x \in L : f[x] \in Nat, NEW x \in L
  PROVE  SumFunctionOnSet(f, L) = f[x] + SumFunctionOnSet(f, L \ {x})
<1> DEFINE G == {M \in SUBSET L : \A y \in M : SumFunctionOnSet(f, M) = f[y] + SumFunctionOnSet(f, M \ {y})}
<1>1. ASSUME NEW M \in SUBSET L, \A t \in SUBSET M : t # M => t \in G PROVE M \in G
  <2> SUFFICES ASSUME NEW y \in M PROVE SumFunctionOnSet(f, M) = f[y] + SumFunctionOnSet(f, M \ {y})
    OBVIOUS
  <2> DEFINE z == Some(M)
  <2>0. IsFiniteSet(M) /\ M # {}
    BY FS_Subset
  <2>1. z \in M /\ SumFunctionOnSet(f, M) = f[z] + SumFunctionOnSet(f, M \ {z})
    BY <2>0, SumOfSome
  <2> HIDE DEF z
  <2>2. CASE y = z
    BY <2>1, <2>2
  <2>3. CASE y # z
    <3>1. M \ {z} \in G /\ y \in M \ {z} /\ M \ {y} \in G /\ z \in M \ {y}
      BY <1>1, <2>1, <2>3
    <3>2. /\ SumFunctionOnSet(f, M \ {z}) = f[y] + SumFunctionOnSet(f, (M \ {z}) \ {y})
          /\ SumFunctionOnSet(f, M \ {y}) = f[z] + SumFunctionOnSet(f, (M \ {y}) \ {z})
      BY <3>1
    <3>3. (M \ {z}) \ {y} = (M \ {y}) \ {z} /\ IsFiniteSet((M \ {y}) \ {z})
      BY <2>0, FS_Subset
    <3>4. SumFunctionOnSet(f, (M \ {y}) \ {z}) \in Nat /\ f[y] \in Nat /\ f[z] \in Nat
      BY <3>3, <2>1, SumType
    <3> QED BY <2>1, <3>2, <3>3, <3>4
  <2> QED BY <2>2, <2>3
<1>2. L \in G
  <2>1. G \subseteq SUBSET L
    OBVIOUS
  <2> HIDE DEF G
  <2> QED BY <1>1, <2>1, BySize
<1> QED BY <1>2

LEMMA SumOfMore ==
  ASSUME NEW L, IsFiniteSet(L), NEW f, \A x \in L : f[x] \in Nat, NEW K \in SUBSET L
  PROVE  SumFunctionOnSet(f, K) <= SumFunctionOnSet(f, L)
<1> DEFINE G == {M \in SUBSET L : SumFunctionOnSet(f, M \cap K) <= SumFunctionOnSet(f, M)}
<1>1. ASSUME NEW M \in SUBSET L, \A t \in SUBSET M : t # M => t \in G PROVE M \in G
  <2>1. CASE M = {}
    <3>1. M \cap K = {}
      BY <2>1
    <3> QED BY <2>1, <3>1, SumOfNone
  <2>2. CASE M # {}
    <3>0. IsFiniteSet(M) /\ IsFiniteSet(M \cap K)
      BY FS_Subset
    <3>1. PICK y \in M : TRUE
      BY <2>2
    <3> DEFINE all == SumFunctionOnSet(f, M)  less == SumFunctionOnSet(f, M \ {y})
               both == SumFunctionOnSet(f, M \cap K)  lessBoth == SumFunctionOnSet(f, (M \ {y}) \cap K)
    <3>2. all = f[y] + less
      BY <3>0, SumWithout
    <3>3. lessBoth <= less
      <4>1. M \ {y} \in G
        BY <1>1, <3>1
      <4> QED BY <4>1
    <3>4. f[y] \in Nat /\ less \in Nat /\ lessBoth \in Nat
      BY <3>0, SumType, FS_Subset
    <3>5. CASE y \in K
      <4>1. SumFunctionOnSet(f, M \cap K) = f[y] + SumFunctionOnSet(f, (M \cap K) \ {y})
        BY <3>0, <3>5, SumWithout
      <4>2. (M \cap K) \ {y} = (M \ {y}) \cap K
        OBVIOUS
      <4>3. both = f[y] + lessBoth
        BY <4>1, <4>2
      <4>4. both <= all
        <5> HIDE DEF all, less, both, lessBoth
        <5> QED BY <3>2, <3>3, <3>4, <4>3
      <4> QED BY <4>4
    <3>6. CASE y \notin K
      <4>1. M \cap K = (M \ {y}) \cap K
        BY <3>6
      <4>2. both = lessBoth
        BY <4>1
      <4>3. both <= all
        <5> HIDE DEF all, less, both, lessBoth
        <5> QED BY <3>2, <3>3, <3>4, <4>2
      <4> QED BY <4>3
    <3> QED BY <3>5, <3>6
  <2> QED BY <2>1, <2>2
<1>2. L \in G
  <2>1. G \subseteq SUBSET L
    OBVIOUS
  <2> HIDE DEF G
  <2> QED BY <1>1, <2>1, BySize
<1>3. L \cap K = K
  OBVIOUS
<1> QED BY <1>2, <1>3

LEMMA SameSum ==
  ASSUME NEW L, IsFiniteSet(L), NEW f, NEW g, \A x \in L : f[x] = g[x]
  PROVE  SumFunctionOnSet(f, L) = SumFunctionOnSet(g, L)
<1> DEFINE G == {M \in SUBSET L : SumFunctionOnSet(f, M) = SumFunctionOnSet(g, M)}
<1>1. ASSUME NEW M \in SUBSET L, \A t \in SUBSET M : t # M => t \in G PROVE M \in G
  <2>1. CASE M = {}
    BY <2>1, SumOfNone
  <2>2. CASE M # {}
    <3>1. /\ Some(M) \in M
          /\ SumFunctionOnSet(f, M) = f[Some(M)] + SumFunctionOnSet(f, M \ {Some(M)})
          /\ SumFunctionOnSet(g, M) = g[Some(M)] + SumFunctionOnSet(g, M \ {Some(M)})
      BY <2>2, SumOfSome, FS_Subset
    <3>2. M \ {Some(M)} \in G
      BY <1>1, <3>1
    <3> QED BY <3>1, <3>2
  <2> QED BY <2>1, <2>2
<1>2. L \in G
  <2>1. G \subseteq SUBSET L
    OBVIOUS
  <2> HIDE DEF G
  <2> QED BY <1>1, <2>1, BySize
<1> QED BY <1>2

-----------------------------------------------------------------------------
(* Folds *)

\* f: what step makes of base over every set of places in s, the last one last.
Iterates(f, n, s, base, step) ==
  f = [t \in SUBSET (1..n) |-> IF t = {} THEN base ELSE step[<<f[t \ {Max(t)}], s[Max(t)]>>]]

LEMMA IteratesExist ==
  ASSUME NEW n \in Nat, NEW s, NEW base, NEW step
  PROVE  \E f : Iterates(f, n, s, base, step)
<1> DEFINE S == {i \in 0..n : \E f : Iterates(f, i, s, base, step)}
<1>1. 0 \in S
  <2> DEFINE f == [t \in SUBSET (1..0) |-> base]
  <2>1. 1..0 = {}
    BY Initials
  <2>2. \A t \in SUBSET (1..0) : t = {}
    BY <2>1
  <2>3. Iterates(f, 0, s, base, step)
    BY <2>2 DEF Iterates
  <2> HIDE DEF f
  <2> QED BY <2>3
<1>2. ASSUME NEW i \in 0..n - 1, i \in S PROVE i + 1 \in S
  <2>1. PICK f : Iterates(f, i, s, base, step)
    BY <1>2
  <2>2. \A t \in SUBSET (1..i) : f[t] = IF t = {} THEN base ELSE step[<<f[t \ {Max(t)}], s[Max(t)]>>]
    BY <2>1 DEF Iterates
  <2> DEFINE h == [t \in SUBSET (1..i + 1) |-> IF t = {} THEN base ELSE step[<<f[t \ {Max(t)}], s[Max(t)]>>]]
  <2>3. \A t \in SUBSET (1..i) : t \in SUBSET (1..i + 1) /\ h[t] = f[t]
    <3>1. \A t \in SUBSET (1..i) : t \in SUBSET (1..i + 1)
      OBVIOUS
    <3> QED BY <2>2, <3>1
  <2>4. ASSUME NEW t \in SUBSET (1..i + 1), t # {} PROVE h[t \ {Max(t)}] = f[t \ {Max(t)}]
    <3>1. Max(t) \in t /\ \A j \in t : j <= Max(t)
      <4>1. i + 1 \in Nat
        OBVIOUS
      <4> QED BY <2>4, <4>1, MaxOfSome
    <3>2. ASSUME NEW j \in t \ {Max(t)} PROVE j \in 1..i
      <4>1. j \in 1..i + 1 /\ Max(t) \in 1..i + 1 /\ j <= Max(t) /\ j # Max(t)
        BY <3>1
      <4> QED BY <4>1
    <3>3. t \ {Max(t)} \in SUBSET (1..i)
      BY <3>2
    <3> HIDE DEF h
    <3> QED BY <2>3, <3>3
  <2>5. h = [t \in SUBSET (1..i + 1) |-> IF t = {} THEN base ELSE step[<<h[t \ {Max(t)}], s[Max(t)]>>]]
    BY <2>4
  <2> HIDE DEF h
  <2>6. Iterates(h, i + 1, s, base, step)
    BY <2>5 DEF Iterates
  <2>7. i + 1 \in 0..n
    OBVIOUS
  <2> QED BY <2>6, <2>7
<1>3. 0..n \subseteq S
  <2>1. \A i \in 0..n - 1 : i \in S => i + 1 \in S
    BY <1>2
  <2> HIDE DEF S
  <2> QED BY <1>1, <2>1, UpTo
<1> QED BY <1>3

IteratesIn(f, n, s, base, step, X, Y) ==
  \A t \in SUBSET (1..n) :
    /\ f[t] \in X
    /\ t # {} => /\ <<f[t \ {Max(t)}], s[Max(t)]>> \in X \X Y
                 /\ f[t] = step[<<f[t \ {Max(t)}], s[Max(t)]>>]
    /\ t = {} => f[t] = base

\* With a step that stays in X, so do all of them.
LEMMA IteratesStay ==
  ASSUME NEW n \in Nat, NEW X, NEW Y, NEW s \in [1..n -> Y], NEW base \in X, NEW step \in [X \X Y -> X],
         NEW f, Iterates(f, n, s, base, step)
  PROVE  IteratesIn(f, n, s, base, step, X, Y)
<1> DEFINE G == {t \in SUBSET (1..n) : f[t] \in X}
<1>0. \A t \in SUBSET (1..n) : f[t] = IF t = {} THEN base ELSE step[<<f[t \ {Max(t)}], s[Max(t)]>>]
  BY DEF Iterates
<1>1. ASSUME NEW t \in SUBSET (1..n), \A u \in SUBSET t : u # t => u \in G PROVE t \in G
  <2>1. CASE t = {}
    BY <1>0, <2>1
  <2>2. CASE t # {}
    <3>1. Max(t) \in t
      BY <2>2, MaxOfSome
    <3>2. t \ {Max(t)} \in G /\ s[Max(t)] \in Y
      BY <1>1, <3>1
    <3> QED BY <1>0, <2>2, <3>2
  <2> QED BY <2>1, <2>2
<1>2. IsFiniteSet(1..n)
  BY FS_Interval
<1>3. \A t \in SUBSET (1..n) : t \in G
  <2> TAKE t \in SUBSET (1..n)
  <2>1. IsFiniteSet(t)
    BY <1>2, FS_Subset
  <2> DEFINE H == G \cap SUBSET t
  <2>2. H \subseteq SUBSET t
    OBVIOUS
  <2>3. \A L \in SUBSET t : (\A M \in SUBSET L : M # L => M \in H) => L \in H
    <3> TAKE L \in SUBSET t
    <3>1. L \in SUBSET (1..n)
      OBVIOUS
    <3> HAVE \A M \in SUBSET L : M # L => M \in H
    <3>2. \A M \in SUBSET L : M # L => M \in G
      OBVIOUS
    <3>3. L \in G
      <4> HIDE DEF G, H
      <4> QED BY <1>1, <3>1, <3>2
    <3> QED BY <3>3
  <2>4. t \in H
    <3> HIDE DEF H
    <3> QED BY <2>1, <2>2, <2>3, BySize
  <2> QED BY <2>4
<1>4. ASSUME NEW t \in SUBSET (1..n), t # {} PROVE <<f[t \ {Max(t)}], s[Max(t)]>> \in X \X Y
  <2>1. Max(t) \in t
    BY <1>4, MaxOfSome
  <2>2. t \ {Max(t)} \in SUBSET (1..n) /\ s[Max(t)] \in Y
    BY <2>1
  <2> QED BY <1>3, <2>2
<1> QED BY <1>0, <1>3, <1>4 DEF IteratesIn
-----------------------------------------------------------------------------
(* What is given, and usage *)

Given  == input \in Inputs
Usages == [Usable -> Reading]

GivenPlaces ==
  /\ Usable \subseteq Nat \ {0} /\ IsFiniteSet(Usable)
  /\ input.usage \in Usages
  /\ \A p \in Usable : /\ Place(p).target \in Nat /\ Place(p).max \in Nat
                       /\ Place(p).role = "cold" => Place(p).target <= Place(p).max

GivenItems ==
  /\ Len(input.items) \in Nat /\ Items = 1..Len(input.items) /\ IsFiniteSet(Items)
  /\ \A i \in Items : /\ Item(i).size \in Nat
                        /\ Item(i) \in [on : DOMAIN input.places, size : Nat, type : STRING, score : Int, wanted : BOOLEAN,
                                       protected : BOOLEAN, small : BOOLEAN, cooling : BOOLEAN]

LEMMA GivenMeans == Given => GivenPlaces /\ GivenItems
<1> SUFFICES ASSUME Given PROVE GivenPlaces /\ GivenItems
  OBVIOUS
<1>1. PICK d \in Drives, l \in Libraries :
        input = [places |-> d.places, volume |-> d.volume, usage |-> d.usage, items |-> l]
  BY DEF Given, Inputs
<1>2. input.places = d.places /\ input.usage = d.usage /\ input.items = l
  BY <1>1
<1>3. /\ Len(d.places) \in Nat /\ DOMAIN d.places = 1..Len(d.places)
      /\ DOMAIN d.usage \subseteq DOMAIN d.places
      /\ d.usage \in [DOMAIN d.usage -> Reading]
  BY DrivesAssumption
<1>4. \A p \in DOMAIN d.places :
         /\ d.places[p].target \in Nat /\ d.places[p].max \in Nat
         /\ d.places[p].role = "cold" => d.places[p].target <= d.places[p].max
  BY DrivesAssumption
<1>5. GivenPlaces
  <2>1. \A n \in Nat : IsFiniteSet(1..n) /\ 1..n \subseteq Nat \ {0}
    BY FS_Interval
  <2>2. IsFiniteSet(Usable) /\ Usable \subseteq Nat \ {0}
    BY <1>2, <1>3, <2>1, FS_Subset DEF Usable
  <2>3. input.usage \in Usages
    BY <1>2, <1>3 DEF Usages, Usable
  <2>4. \A p \in Usable : p \in DOMAIN d.places /\ Place(p) = d.places[p]
    BY <1>2, <1>3 DEF Usable, Place
  <2> QED BY <1>4, <2>2, <2>3, <2>4 DEF GivenPlaces
<1>6. GivenItems
  <2>1. Len(l) \in Nat /\ DOMAIN l = 1..Len(l)
        /\ \A i \in DOMAIN l : l[i] \in [on : DOMAIN d.places, size : Nat, type : STRING, score : Int, wanted : BOOLEAN,
                                         protected : BOOLEAN, small : BOOLEAN, cooling : BOOLEAN]
    BY LibrariesAssumption
  <2>4. \A i \in DOMAIN l : l[i].size \in Nat
    BY <2>1
  <2>2. \A n \in Nat : IsFiniteSet(1..n)
    BY FS_Interval
  <2>3. IsFiniteSet(DOMAIN l)
    BY <2>1, <2>2
  <2> QED BY <1>2, <2>1, <2>3, <2>4 DEF GivenItems, Items, Item
<1> QED BY <1>5, <1>6

\* Nothing is counted below 0.
LEMMA PlusType ==
  ASSUME NEW u \in Reading, NEW d \in Int
  PROVE  /\ Plus(u, d) \in Reading
         /\ Plus(u, d).total = u.total
         /\ Plus(u, d).used = AtLeast0(u.used + d)
         /\ Plus(u, d).free = AtLeast0(u.free - d)
<1> DEFINE a == AtLeast0(u.used + d)  b == AtLeast0(u.free - d)
<1>1. a \in Nat /\ b \in Nat
  BY DEF Reading, AtLeast0
<1>2. Plus(u, d) = [u EXCEPT !.used = a, !.free = b]
  BY DEF Plus
<1> HIDE DEF a, b
<1>3. Plus(u, d) \in Reading /\ Plus(u, d).total = u.total /\ Plus(u, d).used = a /\ Plus(u, d).free = b
  BY <1>1, <1>2 DEF Reading
<1> QED BY <1>3 DEF a, b

LEMMA ApplyType ==
  ASSUME NEW usage \in Usages, NEW p, NEW d \in Int
  PROVE  /\ Apply(usage, p, d) \in Usages
         /\ \A q \in Usable : Apply(usage, p, d)[q] = IF SameVolume(q, p) THEN Plus(usage[q], d) ELSE usage[q]
<1>1. DOMAIN usage = Usable /\ \A q \in Usable : usage[q] \in Reading
  BY DEF Usages
<1>2. \A q \in Usable : Apply(usage, p, d)[q] = IF SameVolume(q, p) THEN Plus(usage[q], d) ELSE usage[q]
  BY <1>1 DEF Apply
<1>3. \A q \in Usable : Apply(usage, p, d)[q] \in Reading
  BY <1>1, <1>2, PlusType
<1>4. DOMAIN Apply(usage, p, d) = Usable /\ Apply(usage, p, d) = [q \in Usable |-> Apply(usage, p, d)[q]]
  BY <1>1 DEF Apply
<1> QED BY <1>2, <1>3, <1>4 DEF Usages

LEMMA MoveType ==
  ASSUME NEW usage \in Usages, NEW p, NEW q, NEW d \in Nat
  PROVE  Move(usage, p, q, d) \in Usages
<1>1. -d \in Int /\ d \in Int
  OBVIOUS
<1>2. Apply(usage, p, -d) \in Usages
  BY <1>1, ApplyType
<1> QED BY <1>1, <1>2, ApplyType DEF Move

\* What Holds says, in numbers.
LEMMA HoldsMeans ==
  ASSUME NEW u \in Reading, NEW n \in Nat, NEW m \in Nat
  PROVE  Holds(u, n, m) <=> /\ u.total # 0 /\ n <= u.free
                            /\ 100 * (u.used + n) <= m * (u.used + u.free)
                            /\ u.used + n <= u.total
<1>1. u.used \in Nat /\ u.free \in Nat /\ u.total \in Nat
  BY DEF Reading
<1>0. n \in Int /\ Plus(u, n).used = AtLeast0(u.used + n) /\ Plus(u, n).free = AtLeast0(u.free - n)
  BY PlusType
<1>2. Plus(u, n).used = u.used + n
  BY <1>0, <1>1 DEF AtLeast0
<1>3. n <= u.free => Plus(u, n).free = u.free - n
  BY <1>0, <1>1 DEF AtLeast0
<1>4. n <= u.free => Plus(u, n).used + Plus(u, n).free = u.used + u.free
  BY <1>1, <1>2, <1>3
<1> QED BY <1>1, <1>2, <1>4 DEF Holds, Below

-----------------------------------------------------------------------------
(* Destinations *)

LEMMA OptionsType ==
  ASSUME Given, NEW usage, NEW i
  PROVE  /\ HotOptions(usage, Item(i)) \subseteq Usable /\ IsFiniteSet(HotOptions(usage, Item(i)))
         /\ \A p \in HotOptions(usage, Item(i)) : Place(p).role = "hot" /\ Holds(usage[p], Item(i).size, Place(p).max)
<1>1. HotOptions(usage, Item(i)) \subseteq Usable
  BY DEF HotOptions, Accepting
<1>2. IsFiniteSet(HotOptions(usage, Item(i)))
  BY <1>1, GivenMeans, FS_Subset DEF GivenPlaces
<1> QED BY <1>1, <1>2 DEF HotOptions, Accepting

LEMMA WholeType == ASSUME NEW u \in Reading PROVE Whole(u) \in Nat \ {0} /\ u.used \in Nat
BY DEF Reading, Whole

LEMMA CrossOrder ==
  ASSUME NEW a \in Nat, NEW b \in Nat, NEW c \in Nat,
         NEW k \in Nat \ {0}, NEW l \in Nat \ {0}, NEW m \in Nat \ {0},
         a * l >= b * k, b * m >= c * l
  PROVE  a * m >= c * k /\ (a * m = c * k => a * l = b * k /\ b * m = c * l)
<1>1. (a * l) * m >= (b * k) * m /\ (b * m) * k >= (c * l) * k
  BY SMT
<1>2. (a * m) * l = (a * l) * m /\ (b * k) * m = (b * m) * k /\ (c * k) * l = (c * l) * k
  BY SMT
<1>3. /\ (a * l) * m \in Nat /\ (b * k) * m \in Nat /\ (c * k) * l \in Nat /\ (a * m) * l \in Nat
      /\ a * m \in Nat /\ c * k \in Nat /\ a * l \in Nat /\ b * k \in Nat /\ b * m \in Nat /\ c * l \in Nat
  BY SMT
<1>4. (a * m) * l >= (c * k) * l
  BY <1>1, <1>2, <1>3
<1>5. \A x, y \in Nat, z \in Nat \ {0} : (x * z >= y * z => x >= y) /\ (x * z = y * z => x = y)
  BY SMT
<1>6. a * m >= c * k
  BY <1>3, <1>4, <1>5
<1>7. ASSUME a * m = c * k PROVE a * l = b * k /\ b * m = c * l
  <2>1. (a * m) * l = (c * k) * l
    BY <1>7
  <2>2. (a * l) * m = (b * k) * m /\ (b * m) * k = (c * l) * k
    BY <1>1, <1>2, <1>3, <2>1
  <2> QED BY <1>3, <1>5, <2>2
<1> QED BY <1>6, <1>7

\* The fullest is one of them.
LEMMA FullestMeans ==
  ASSUME Given, NEW usage \in Usages, NEW S \in SUBSET Usable, S # {}
  PROVE  Fullest(S, usage) \in S
<1> DEFINE Before(p, q) == Fuller(usage[p], usage[q]) \/ (~Fuller(usage[q], usage[p]) /\ p < q)
           R == {a \in S \X S : Before(a[1], a[2])}
<1>0. IsFiniteSet(S) /\ S \subseteq Nat
  BY GivenMeans, FS_Subset DEF GivenPlaces
<1>1. \A p, q \in S : <<p, q>> \in R <=> Before(p, q)
  OBVIOUS
<1>2. \A p \in S : Whole(usage[p]) \in Nat \ {0} /\ usage[p].used \in Nat
  BY WholeType DEF Usages
<1>3. \A p, q \in S : Fuller(usage[p], usage[q]) <=> usage[p].used * Whole(usage[q]) > usage[q].used * Whole(usage[p])
  BY DEF Fuller
<1> DEFINE val(p) == usage[p].used  of(p) == Whole(usage[p])
<1>4. \A p, q \in S : val(p) * of(q) \in Nat
  BY <1>2
<1> HIDE DEF val, of
<1>5. \A p, q \in S : Before(p, q) <=>
        val(p) * of(q) > val(q) * of(p) \/ (val(p) * of(q) = val(q) * of(p) /\ p < q)
  BY <1>3, <1>4 DEF val, of
<1> HIDE DEF Before, R
<1>6. ASSUME NEW p \in S, NEW q \in S, NEW r \in S, Before(p, q), Before(q, r)
      PROVE  Before(p, r)
  <2>1. /\ val(p) \in Nat /\ val(q) \in Nat /\ val(r) \in Nat
        /\ of(p) \in Nat \ {0} /\ of(q) \in Nat \ {0} /\ of(r) \in Nat \ {0}
    BY <1>2 DEF val, of
  <2>2. val(p) * of(q) >= val(q) * of(p) /\ val(q) * of(r) >= val(r) * of(q)
    BY <1>4, <1>5, <1>6
  <2>3. /\ val(p) * of(r) >= val(r) * of(p)
        /\ val(p) * of(r) = val(r) * of(p) =>
             val(p) * of(q) = val(q) * of(p) /\ val(q) * of(r) = val(r) * of(q)
    BY <2>1, <2>2, CrossOrder
  <2>4. CASE val(p) * of(r) = val(r) * of(p)
    <3>1. p < q /\ q < r
      BY <1>4, <1>5, <1>6, <2>3, <2>4
    <3>2. p < r
      BY <1>0, <3>1
    <3> QED BY <1>5, <2>4, <3>2
  <2>5. CASE val(p) * of(r) # val(r) * of(p)
    <3>1. val(p) * of(r) > val(r) * of(p)
      BY <1>4, <2>3, <2>5
    <3> QED BY <1>5, <3>1
  <2> QED BY <2>4, <2>5
<1>7. \A p \in S : ~Before(p, p)
  BY <1>0, <1>4, <1>5
<1>8. Orders(R, S)
  BY <1>1, <1>6, <1>7 DEF Orders
<1>9. PICK p \in S : \A q \in S : <<q, p>> \notin R
  BY <1>0, <1>8, FirstOf
<1>10. \A q \in S \ {p} : Before(p, q)
  <2> TAKE q \in S \ {p}
  <2>1. ~Before(q, p) /\ p # q /\ p \in Nat /\ q \in Nat
    BY <1>0, <1>1, <1>9
  <2> QED BY <1>4, <1>5, <2>1
<1> QED BY <1>10 DEF Fullest, Before

\* A destination is a cold path that holds the item under its ceiling.
LEMMA DestinationMeans ==
  ASSUME Given, NEW usage \in Usages, NEW i \in Items
  PROVE  LET to == PickDestination(usage, Item(i))
         IN to # None => /\ to \in Usable /\ Place(to).role = "cold"
                         /\ Holds(usage[to], Item(i).size, Place(to).max)
<1> DEFINE cold == Accepting("cold", Item(i))
           preferred == {p \in cold : Holds(usage[p], Item(i).size, Place(p).target)}
           others == {p \in cold : Holds(usage[p], Item(i).size, Place(p).max)}
<1>1. /\ cold \subseteq Usable /\ \A p \in cold : Place(p).role = "cold"
      /\ preferred \in SUBSET Usable /\ others \in SUBSET Usable
  BY DEF Accepting
<1>2. preferred \subseteq others
  <2> SUFFICES ASSUME NEW p \in cold, Holds(usage[p], Item(i).size, Place(p).target)
               PROVE  Holds(usage[p], Item(i).size, Place(p).max)
    OBVIOUS
  <2>1. /\ usage[p] \in Reading /\ Item(i).size \in Nat
        /\ Place(p).target \in Nat /\ Place(p).max \in Nat /\ Place(p).target <= Place(p).max
    BY <1>1, GivenMeans DEF GivenPlaces, GivenItems, Usages
  <2> DEFINE n == usage[p].used + usage[p].free
  <2>2. n \in Nat
    BY <2>1 DEF Reading
  <2> HIDE DEF n
  <2>3. Place(p).target * n <= Place(p).max * n /\ Place(p).target * n \in Nat /\ Place(p).max * n \in Nat
    BY <2>1, <2>2, SMT
  <2>4. 100 * (usage[p].used + Item(i).size) <= Place(p).target * n
    BY <2>1, HoldsMeans DEF n
  <2>5. 100 * (usage[p].used + Item(i).size) \in Nat
    BY <2>1 DEF Reading
  <2>6. 100 * (usage[p].used + Item(i).size) <= Place(p).max * n
    BY <2>3, <2>4, <2>5
  <2> QED BY <2>1, <2>6, HoldsMeans DEF n
<1>3. PickDestination(usage, Item(i)) = IF preferred # {} THEN Fullest(preferred, usage) ELSE Fullest(others, usage)
  BY DEF PickDestination
<1>4. Fullest({}, usage) = None
  BY DEF Fullest
<1> HIDE DEF preferred, others
<1>5. PickDestination(usage, Item(i)) # None => PickDestination(usage, Item(i)) \in others
  BY <1>1, <1>2, <1>3, <1>4, FullestMeans
<1>6. \A p \in others : p \in cold /\ Holds(usage[p], Item(i).size, Place(p).max)
  BY DEF others
<1> QED BY <1>1, <1>5, <1>6

-----------------------------------------------------------------------------
(* The orders of the options and of the candidates *)

LEMMA RoomType ==
  ASSUME NEW u \in Reading, NEW m \in Nat
  PROVE  Room(u, m) \in Int
<1> DEFINE a == 100 * u.free  b == m * (u.used + u.free) - 100 * u.used
<1>1. u.used \in Nat /\ u.free \in Nat
  BY DEF Reading
<1>2. m * (u.used + u.free) \in Nat
  BY <1>1, SMT
<1>3. a \in Int /\ b \in Int
  BY <1>1, <1>2
<1>4. Room(u, m) = Min({a, b})
  BY DEF Room
<1> HIDE DEF a, b
<1>5. \E x \in {a, b} : \A y \in {a, b} : x =< y
  BY <1>3
<1>6. Min({a, b}) \in {a, b}
  BY <1>5 DEF Min
<1> QED BY <1>3, <1>4, <1>6

\* The tightest option comes first, and each is listed once.
LEMMA TightestMeans ==
  ASSUME Given, NEW usage \in Usages, NEW S \in SUBSET Usable
  PROVE  TightestFirst(S, usage) \in SetToSeqs(S)
<1> DEFINE room(p) == Room(usage[p], Place(p).max)
           R == {a \in S \X S : Tighter(usage, a[1], a[2])}
<1>1. IsFiniteSet(S) /\ S \subseteq Nat /\ \A p \in S : room(p) \in Int
  <2>1. IsFiniteSet(S) /\ S \subseteq Nat /\ \A p \in S : usage[p] \in Reading /\ Place(p).max \in Nat
    BY GivenMeans, FS_Subset DEF GivenPlaces, Usages
  <2> QED BY <2>1, RoomType
<1>2. \A p, q \in S : <<p, q>> \in R <=> room(p) < room(q) \/ (room(p) = room(q) /\ p < q)
  BY DEF Tighter
<1> HIDE DEF room
<1>3. Orders(R, S)
  <2>1. \A p \in S : <<p, p>> \notin R
    <3> HIDE DEF R
    <3> QED BY <1>1, <1>2
  <2>2. \A p, q, r \in S : <<p, q>> \in R /\ <<q, r>> \in R => <<p, r>> \in R
    <3> HIDE DEF R
    <3> QED BY <1>1, <1>2
  <2> HIDE DEF R
  <2> QED BY <2>1, <2>2 DEF Orders
<1>4. \A p, q \in S : <<p, q>> \in R <=> Tighter(usage, p, q)
  OBVIOUS
<1> HIDE DEF R
<1>5. PICK s \in SetToSeqs(S) : \A i, j \in DOMAIN s : i < j => <<s[j], s[i]>> \notin R
  BY <1>1, <1>3, CanSort
<1>6. \A i \in DOMAIN s : s[i] \in S
  BY <1>1, SeqsOf
<1>7. \A i, j \in DOMAIN s : i < j => ~Tighter(usage, s[j], s[i])
  BY <1>4, <1>5, <1>6
<1> QED BY <1>5, <1>7 DEF TightestFirst

LEMMA ConstrainedOrder ==
  ASSUME Given, NEW usage, NEW S \in SUBSET Items
  PROVE  Orders({a \in S \X S : MoreConstrained(usage, a[1], a[2])}, S)
<1> DEFINE count(i) == Cardinality(HotOptions(usage, Item(i)))
           size(i) == Item(i).size
           R == {a \in S \X S : MoreConstrained(usage, a[1], a[2])}
<1>1. S \subseteq Nat /\ \A i \in S : count(i) \in Nat /\ size(i) \in Nat
  <2>1. S \subseteq Nat /\ \A i \in S : size(i) \in Nat
    BY GivenMeans DEF GivenItems
  <2>2. \A i \in S : count(i) \in Nat
    BY OptionsType, FS_CardinalityType
  <2> QED BY <2>1, <2>2
<1>2. \A i, j \in S : <<i, j>> \in R <=> \/ count(i) < count(j)
                                         \/ count(i) = count(j) /\ size(i) > size(j)
                                         \/ count(i) = count(j) /\ size(i) = size(j) /\ i < j
  BY DEF MoreConstrained
<1> HIDE DEF count, size
<1>3. \A i \in S : <<i, i>> \notin R
  <2> HIDE DEF R
  <2> QED BY <1>1, <1>2
<1>4. \A i, j, k \in S : <<i, j>> \in R /\ <<j, k>> \in R => <<i, k>> \in R
  <2> HIDE DEF R
  <2> TAKE i, j, k \in S
  <2> QED BY <1>1, <1>2
<1>5. Orders(R, S)
  <2> HIDE DEF R
  <2> QED BY <1>3, <1>4 DEF Orders
<1> QED BY <1>5

\* Among candidates there is one that none is more constrained than.
LEMMA MostConstrained ==
  ASSUME Given, NEW usage, NEW S \in SUBSET Items, S # {}
  PROVE  LET i == CHOOSE i \in S : \A j \in S : ~MoreConstrained(usage, j, i)
         IN i \in S
<1> DEFINE R == {a \in S \X S : MoreConstrained(usage, a[1], a[2])}
<1>0. Orders(R, S)
  BY ConstrainedOrder
<1>1. IsFiniteSet(S)
  BY GivenMeans, FS_Subset DEF GivenItems
<1>2. \A i, j \in S : <<i, j>> \in R <=> MoreConstrained(usage, i, j)
  OBVIOUS
<1> HIDE DEF R
<1>3. \E i \in S : \A j \in S : <<j, i>> \notin R
  BY <1>0, <1>1, FirstOf
<1>4. \E i \in S : \A j \in S : ~MoreConstrained(usage, j, i)
  BY <1>2, <1>3
<1> QED BY <1>4

LEMMA SearchOrderMeans ==
  ASSUME Given, NEW usage, NEW S \in SUBSET Items
  PROVE  SearchOrder(S, usage) \in SetToSeqs(S)
<1> DEFINE R == {a \in S \X S : MoreConstrained(usage, a[1], a[2])}
<1>0. Orders(R, S)
  BY ConstrainedOrder
<1>1. IsFiniteSet(S)
  BY GivenMeans, FS_Subset DEF GivenItems
<1>2. \A i, j \in S : <<i, j>> \in R <=> MoreConstrained(usage, i, j)
  OBVIOUS
<1> HIDE DEF R
<1>3. PICK s \in SetToSeqs(S) : \A i, j \in DOMAIN s : i < j => <<s[j], s[i]>> \notin R
  BY <1>0, <1>1, CanSort
<1>4. \A i \in DOMAIN s : s[i] \in S
  BY <1>1, SeqsOf
<1>5. \A i, j \in DOMAIN s : i < j => ~MoreConstrained(usage, s[j], s[i])
  BY <1>2, <1>3, <1>4
<1> QED BY <1>3, <1>5 DEF SearchOrder

-----------------------------------------------------------------------------
(* Placements, one after another *)

Nodes == [placed : Seq(Items \X Usable), usage : Usages]

Unplaced(usage) == [placed |-> <<>>, usage |-> usage]

Taken(s) == {x[1] : x \in ToSet(s)}

\* h: the usage after each placement of s, which all have room when made.
Seats(h, s, usage) ==
  /\ h \in [0..Len(s) -> Usages] /\ h[0] = usage
  /\ \A k \in 1..Len(s) : /\ s[k][2] \in HotOptions(h[k - 1], Item(s[k][1]))
                          /\ h[k] = Apply(h[k - 1], s[k][2], Item(s[k][1]).size)

Distinct(s) == \A j, k \in 1..Len(s) : s[j][1] = s[k][1] => j = k

Seatings(pending, usage) ==
  {node \in Nodes : /\ Distinct(node.placed) /\ Taken(node.placed) \subseteq pending
                    /\ \E h : Seats(h, node.placed, usage) /\ h[Len(node.placed)] = node.usage}

TakenIs(s, A, B) ==
  /\ Len(s) \in Nat /\ DOMAIN s = 1..Len(s)
  /\ Taken(s) = {s[k][1] : k \in 1..Len(s)} /\ Taken(s) \subseteq A
  /\ \A k \in 1..Len(s) : s[k] \in A \X B /\ s[k][1] \in A /\ s[k][2] \in B

LEMMA TakenMeans ==
  ASSUME NEW A, NEW B, NEW s \in Seq(A \X B)
  PROVE  TakenIs(s, A, B)
<1>1. Len(s) \in Nat /\ DOMAIN s = 1..Len(s) /\ \A k \in 1..Len(s) : s[k] \in A \X B
  OBVIOUS
<1>2. \A k \in 1..Len(s) : s[k][1] \in A /\ s[k][2] \in B
  BY <1>1
<1>3. Taken(s) = {s[k][1] : k \in 1..Len(s)}
  BY <1>1 DEF Taken, ToSet
<1> QED BY <1>1, <1>2, <1>3 DEF TakenIs

LEMMA NoneTaken == Taken(<<>>) = {}
BY DEF Taken, ToSet

OneMore(more, s, i, p) ==
  /\ Len(more) = Len(s) + 1
  /\ more[Len(s) + 1] = <<i, p>> /\ \A k \in 1..Len(s) : more[k] = s[k]
  /\ Taken(more) = Taken(s) \cup {i}
  /\ Distinct(s) /\ i \notin Taken(s) => Distinct(more)

LEMMA OneMoreTaken ==
  ASSUME NEW A, NEW B, NEW s \in Seq(A \X B), NEW i \in A, NEW p \in B
  PROVE  Append(s, <<i, p>>) \in Seq(A \X B) /\ OneMore(Append(s, <<i, p>>), s, i, p)
<1> DEFINE more == Append(s, <<i, p>>)  n == Len(s)
<1>1. /\ more \in Seq(A \X B) /\ n \in Nat /\ Len(more) = n + 1
      /\ more[n + 1] = <<i, p>> /\ \A k \in 1..n : more[k] = s[k]
  OBVIOUS
<1>2. more[n + 1][1] = i /\ \A k \in 1..n : more[k][1] = s[k][1]
  BY <1>1
<1>3. 1..n + 1 = 1..n \cup {n + 1} /\ n + 1 \notin 1..n
  BY <1>1
<1> HIDE DEF more
<1>4. /\ Taken(s) = {s[k][1] : k \in 1..n} /\ Taken(more) = {more[k][1] : k \in 1..n + 1}
  <2>1. TakenIs(s, A, B) /\ TakenIs(more, A, B)
    BY <1>1, TakenMeans
  <2> QED BY <1>1, <2>1 DEF TakenIs
<1> HIDE DEF n
<1>5. Taken(more) = Taken(s) \cup {i}
  BY <1>2, <1>3, <1>4
<1>6. ASSUME Distinct(s), i \notin Taken(s) PROVE Distinct(more)
  <2>1. \A j, k \in 1..n : s[j][1] = s[k][1] => j = k
    BY <1>6 DEF Distinct, n
  <2>2. \A k \in 1..n : s[k][1] # i
    BY <1>4, <1>6
  <2>3. \A j, k \in 1..n + 1 : more[j][1] = more[k][1] => j = k
    BY <1>2, <1>3, <2>1, <2>2
  <2> QED BY <1>1, <2>3 DEF Distinct
<1> QED BY <1>1, <1>5, <1>6 DEF n, more, OneMore

\* As many as were placed are taken.
LEMMA TakenSize ==
  ASSUME NEW A, NEW B, NEW s \in Seq(A \X B), Distinct(s)
  PROVE  IsFiniteSet(Taken(s)) /\ Cardinality(Taken(s)) = Len(s)
<1> DEFINE n == Len(s)
<1>1. n \in Nat /\ Taken(s) = {s[k][1] : k \in 1..n}
  <2>1. Len(s) \in Nat /\ DOMAIN s = 1..Len(s)
    OBVIOUS
  <2> QED BY <2>1 DEF Taken, ToSet
<1> HIDE DEF n
<1>2. IsFiniteSet(1..n) /\ Cardinality(1..n) = n
  BY <1>1, FS_Interval
<1>3. \A j, k \in 1..n : s[j][1] = s[k][1] => j = k
  BY DEF Distinct, n
<1> DEFINE f == [k \in 1..n |-> s[k][1]]
<1>4. f \in [1..n -> Taken(s)] /\ (\A j, k \in 1..n : f[j] = f[k] => j = k) /\ \A x \in Taken(s) : \E k \in 1..n : f[k] = x
  BY <1>1, <1>3
<1> HIDE DEF f
<1>5. f \in Bijection(1..n, Taken(s))
  BY <1>4 DEF Bijection, Injection, Surjection, IsInjective
<1>6. f \in Surjection(1..n, Taken(s)) /\ f \in Injection(1..n, Taken(s))
  BY <1>5 DEF Bijection
<1>7. IsFiniteSet(Taken(s)) /\ (Cardinality(Taken(s)) = n <=> f \in Injection(1..n, Taken(s)))
  BY <1>2, <1>6, FS_Surjection
<1> QED BY <1>6, <1>7 DEF n

LEMMA PutMeans ==
  ASSUME Given, NEW node \in Nodes, NEW i \in Items, NEW p \in Usable
  PROVE  /\ Put(node, i, p) \in Nodes
         /\ Put(node, i, p).placed = Append(node.placed, <<i, p>>)
         /\ Put(node, i, p).usage = Apply(node.usage, p, Item(i).size)
<1> DEFINE s == Append(node.placed, <<i, p>>)  u == Apply(node.usage, p, Item(i).size)
<1>1. node.placed \in Seq(Items \X Usable) /\ node.usage \in Usages
  BY DEF Nodes
<1>2. s \in Seq(Items \X Usable)
  BY <1>1, OneMoreTaken
<1>3. Item(i).size \in Nat
  BY GivenMeans DEF GivenItems
<1>4. Item(i).size \in Int /\ u \in Usages
  BY <1>1, <1>3, ApplyType
<1>5. Put(node, i, p) = [placed |-> s, usage |-> u]
  BY DEF Put
<1> HIDE DEF s, u
<1> QED BY <1>2, <1>4, <1>5 DEF Nodes, s, u

LEMMA SeatedNone ==
  ASSUME NEW usage \in Usages, NEW pending
  PROVE  Unplaced(usage) \in Seatings(pending, usage)
<1> DEFINE h == [k \in 0..0 |-> usage]
<1>1. Unplaced(usage) \in Nodes /\ Unplaced(usage).placed = <<>> /\ Unplaced(usage).usage = usage
  BY DEF Unplaced, Nodes
<1>2. Len(<<>>) = 0 /\ h \in [0..0 -> Usages] /\ h[0] = usage
  OBVIOUS
<1> HIDE DEF h
<1>3. Seats(h, <<>>, usage) /\ h[Len(<<>>)] = usage
  BY <1>2 DEF Seats
<1>4. Distinct(<<>>)
  BY <1>2 DEF Distinct
<1> QED BY <1>1, <1>3, <1>4, NoneTaken DEF Seatings

LEMMA SeatedMore ==
  ASSUME Given, NEW usage, NEW pending, NEW node \in Seatings(pending, usage), NEW wider, pending \subseteq wider,
         NEW i \in Items, i \in wider, i \notin Taken(node.placed), NEW p \in HotOptions(node.usage, Item(i))
  PROVE  Put(node, i, p) \in Seatings(wider, usage)
<1> DEFINE s == node.placed  n == Len(s)  more == Append(s, <<i, p>>)  u == Apply(node.usage, p, Item(i).size)
<1>0. node \in Nodes /\ s \in Seq(Items \X Usable) /\ node.usage \in Usages /\ p \in Usable
  BY OptionsType DEF Seatings, Nodes
<1>1. Put(node, i, p) \in Nodes /\ Put(node, i, p).placed = more /\ Put(node, i, p).usage = u
  BY <1>0, PutMeans
<1>2. /\ Len(more) = n + 1 /\ more[n + 1] = <<i, p>> /\ \A k \in 1..n : more[k] = s[k]
      /\ Taken(more) = Taken(s) \cup {i} /\ Distinct(more)
  <2>1. Distinct(s) /\ i \notin Taken(s)
    BY DEF Seatings
  <2>2. OneMore(more, s, i, p)
    BY <1>0, OneMoreTaken
  <2> HIDE DEF s, more
  <2> QED BY <2>1, <2>2 DEF OneMore
<1>3. PICK h : Seats(h, s, usage) /\ h[n] = node.usage
  BY DEF Seatings
<1> DEFINE g == [k \in 0..n + 1 |-> IF k <= n THEN h[k] ELSE u]
<1>4. n \in Nat /\ h \in [0..n -> Usages] /\ h[0] = usage /\ u \in Usages
  BY <1>0, <1>1, <1>3 DEF Seats, Nodes
<1>5. \A k \in 1..n : s[k][2] \in HotOptions(h[k - 1], Item(s[k][1])) /\ h[k] = Apply(h[k - 1], s[k][2], Item(s[k][1]).size)
  BY <1>3 DEF Seats
<1> HIDE DEF s, n, more, u
<1>6. /\ g \in [0..n + 1 -> Usages] /\ g[0] = usage /\ g[n + 1] = u
      /\ \A k \in 0..n : g[k] = h[k]
  BY <1>4
<1> HIDE DEF g
<1>7. ASSUME NEW k \in 1..n + 1
      PROVE  more[k][2] \in HotOptions(g[k - 1], Item(more[k][1])) /\ g[k] = Apply(g[k - 1], more[k][2], Item(more[k][1]).size)
  <2>1. CASE k = n + 1
    <3>1. g[k - 1] = node.usage /\ g[k] = u /\ more[k][1] = i /\ more[k][2] = p
      <4>1. k - 1 = n /\ n \in 0..n
        BY <1>4, <2>1
      <4> QED BY <1>2, <1>3, <1>6, <2>1, <4>1
    <3> QED BY <3>1 DEF u
  <2>2. CASE k # n + 1
    <3>1. k \in 1..n /\ k - 1 \in 0..n /\ k \in 0..n
      BY <1>4, <2>2
    <3>2. g[k - 1] = h[k - 1] /\ g[k] = h[k] /\ more[k] = s[k]
      BY <1>2, <1>6, <3>1
    <3> QED BY <1>5, <3>1, <3>2
  <2> QED BY <2>1, <2>2
<1>8. Seats(g, more, usage) /\ g[Len(more)] = u
  BY <1>2, <1>6, <1>7 DEF Seats
<1>9. Taken(more) \subseteq wider
  BY <1>2 DEF Seatings, s
<1> QED BY <1>1, <1>2, <1>8, <1>9 DEF Seatings

-----------------------------------------------------------------------------
(* The heuristic *)

Stuck(node, pending) == Placeable(pending \ Taken(node.placed), node.usage) = {}

LEMMA PlaceNextMeans ==
  ASSUME Given, NEW pending \in SUBSET Items, NEW node \in Nodes
  PROVE  \/ Stuck(node, pending) /\ PlaceNext(pending, node) = node
         \/ \E i \in pending \ Taken(node.placed) : \E p \in HotOptions(node.usage, Item(i)) :
              ~Stuck(node, pending) /\ PlaceNext(pending, node) = Put(node, i, p)
<1> DEFINE left == Placeable(pending \ Taken(node.placed), node.usage)
           i == CHOOSE c \in left : \A j \in left : ~MoreConstrained(node.usage, j, c)
           options == HotOptions(node.usage, Item(i))
           p == TightestFirst(options, node.usage)[1]
<1>1. PlaceNext(pending, node) = IF left = {} THEN node ELSE Put(node, i, p)
  BY DEF PlaceNext, Taken
<1>2. CASE left = {}
  BY <1>1, <1>2 DEF Stuck
<1>3. CASE left # {}
  <2>1. left \in SUBSET Items
    BY DEF Placeable
  <2>2. i \in left
    <3> HIDE DEF left
    <3> QED BY <1>3, <2>1, MostConstrained
  <2> HIDE DEF i
  <2>3. i \in pending \ Taken(node.placed) /\ options # {}
    BY <2>2 DEF Placeable
  <2>4. options \in SUBSET Usable /\ node.usage \in Usages /\ IsFiniteSet(options)
    BY OptionsType DEF Nodes
  <2> HIDE DEF options
  <2>5. TightestFirst(options, node.usage) \in SetToSeqs(options)
    BY <2>4, TightestMeans
  <2>6. Cardinality(options) \in Nat /\ Cardinality(options) # 0
    BY <2>3, <2>4, FS_CardinalityType, FS_EmptySet
  <2>7. 1 \in 1..Cardinality(options)
    BY <2>6
  <2>8. p \in options
    BY <2>4, <2>5, <2>7, SeqsOf
  <2> HIDE DEF p
  <2> QED BY <1>1, <1>3, <2>3, <2>8 DEF Stuck, options
<1> QED BY <1>2, <1>3

\* g: what the loop has placed after each turn.
GreedySteps(g, n, pending, usage) ==
  /\ g \in [0..n -> Nodes] /\ g[0] = Unplaced(usage)
  /\ \A k \in 1..n : g[k] = PlaceNext(pending, g[k - 1])
  /\ Greedy(pending, usage) = g[n].placed

LEMMA FoldGreedy ==
  ASSUME Given, NEW pending \in SUBSET Items, NEW usage \in Usages
  PROVE  \E g : GreedySteps(g, Cardinality(pending), pending, usage)
<1> DEFINE n == Cardinality(pending)
           base == Unplaced(usage)
           s == [k \in 1..n |-> k]
           step == [x \in Nodes \X (1..n) |-> PlaceNext(pending, x[1])]
           iter == CHOOSE f : f = [t \in SUBSET DOMAIN s |->
                                     IF t = {} THEN base ELSE PlaceNext(pending, f[t \ {Max(t)}])]
           g == [i \in 0..n |-> iter[1..i]]
<1>1. n \in Nat
  BY GivenMeans, FS_Subset, FS_CardinalityType DEF GivenItems
<1>2. base \in Nodes
  BY SeatedNone DEF Seatings
<1>3. Greedy(pending, usage) = iter[DOMAIN s].placed
  BY DEF Greedy, FoldLeft, MapThenFoldSet, Unplaced
<1> HIDE DEF base, n
<1>4. s \in [1..n -> 1..n] /\ DOMAIN s = 1..n
  OBVIOUS
<1> HIDE DEF s
<1>5. step \in [Nodes \X (1..n) -> Nodes]
  <2>1. ASSUME NEW node \in Nodes PROVE PlaceNext(pending, node) \in Nodes
    <3>1. \A i \in pending \ Taken(node.placed) : \A p \in HotOptions(node.usage, Item(i)) : i \in Items /\ p \in Usable
      BY OptionsType
    <3> QED BY <3>1, PlaceNextMeans, PutMeans
  <2> QED BY <2>1
<1>6. \A x \in Nodes, k \in 1..n : step[<<x, k>>] = PlaceNext(pending, x)
  OBVIOUS
<1> HIDE DEF step
<1>7. PICK f : Iterates(f, n, s, base, step)
  BY <1>1, IteratesExist
<1>8. \A t \in SUBSET (1..n) :
        /\ f[t] \in Nodes
        /\ t # {} => /\ <<f[t \ {Max(t)}], s[Max(t)]>> \in Nodes \X (1..n)
                     /\ f[t] = step[<<f[t \ {Max(t)}], s[Max(t)]>>]
        /\ t = {} => f[t] = base
  <2>1. IteratesIn(f, n, s, base, step, Nodes, 1..n)
    BY <1>1, <1>2, <1>4, <1>5, <1>7, IteratesStay
  <2> QED BY <2>1 DEF IteratesIn
<1>9. f = [t \in SUBSET DOMAIN s |-> IF t = {} THEN base ELSE PlaceNext(pending, f[t \ {Max(t)}])]
  <2>1. \A t \in SUBSET (1..n) : f[t] = IF t = {} THEN base ELSE PlaceNext(pending, f[t \ {Max(t)}])
    BY <1>6, <1>8
  <2>2. DOMAIN f = SUBSET (1..n) /\ f = [t \in SUBSET (1..n) |-> f[t]]
    BY <1>7 DEF Iterates
  <2> QED BY <1>4, <2>1, <2>2
<1>10. iter = [t \in SUBSET (1..n) |-> IF t = {} THEN base ELSE PlaceNext(pending, iter[t \ {Max(t)}])]
  BY <1>4, <1>9
<1> HIDE DEF iter
<1>11. \A t \in SUBSET (1..n) : /\ t = {} => iter[t] = base
                                /\ t # {} => iter[t] = PlaceNext(pending, iter[t \ {Max(t)}])
  BY <1>10
<1>12. \A i \in 0..n : g[i] = iter[1..i]
  OBVIOUS
<1>13. DOMAIN g = 0..n /\ g = [i \in 0..n |-> g[i]]
  OBVIOUS
<1> HIDE DEF g
<1>14. g[0] = base
  <2>1. 0 \in 0..n /\ 1..0 = {} /\ {} \in SUBSET (1..n)
    BY <1>1, Initials
  <2> QED BY <1>11, <1>12, <2>1
<1>15. \A i \in 1..n : g[i] = PlaceNext(pending, g[i - 1])
  <2> TAKE i \in 1..n
  <2>1. /\ 1..i \in SUBSET (1..n) /\ 1..i # {} /\ Max(1..i) = i
        /\ (1..i) \ {i} = 1..i - 1 /\ i - 1 \in 0..n /\ i \in 0..n
    BY <1>1, Initials
  <2>2. iter[1..i] = PlaceNext(pending, iter[1..i - 1])
    BY <1>11, <2>1
  <2> QED BY <1>12, <2>1, <2>2
<1>16. g \in [0..n -> Nodes]
  <2> DEFINE S == {i \in 0..n : g[i] \in Nodes}
  <2>1. 0 \in S
    BY <1>1, <1>2, <1>14
  <2>2. ASSUME NEW i \in 0..n - 1, i \in S PROVE i + 1 \in S
    <3>1. i + 1 \in 1..n /\ i + 1 - 1 = i /\ i \in 0..n /\ i + 1 \in 0..n
      BY <1>1
    <3>2. g[i + 1] = PlaceNext(pending, g[i]) /\ g[i] \in Nodes
      BY <1>15, <2>2, <3>1
    <3>3. \A j \in pending \ Taken(g[i].placed) : \A p \in HotOptions(g[i].usage, Item(j)) : j \in Items /\ p \in Usable
      BY OptionsType
    <3> QED BY <3>1, <3>2, <3>3, PlaceNextMeans, PutMeans
  <2>3. 0..n \subseteq S
    <3>1. \A i \in 0..n - 1 : i \in S => i + 1 \in S
      BY <2>2
    <3> HIDE DEF S
    <3> QED BY <1>1, <2>1, <3>1, UpTo
  <2> QED BY <1>13, <2>3
<1>17. Greedy(pending, usage) = g[n].placed
  BY <1>1, <1>3, <1>4, <1>12
<1> QED BY <1>14, <1>15, <1>16, <1>17 DEF GreedySteps, base, n

\* What the heuristic places has room, and nothing it leaves has.
LEMMA GreedyMeans ==
  ASSUME Given, NEW pending \in SUBSET Items, NEW usage \in Usages
  PROVE  \E node \in Seatings(pending, usage) : Stuck(node, pending) /\ Greedy(pending, usage) = node.placed
<1> DEFINE n == Cardinality(pending)
<1>0. IsFiniteSet(pending) /\ n \in Nat
  BY GivenMeans, FS_Subset, FS_CardinalityType DEF GivenItems
<1>1. PICK g : GreedySteps(g, n, pending, usage)
  BY FoldGreedy
<1>2. /\ g \in [0..n -> Nodes] /\ g[0] = Unplaced(usage)
      /\ \A k \in 1..n : g[k] = PlaceNext(pending, g[k - 1])
      /\ Greedy(pending, usage) = g[n].placed
  BY <1>1 DEF GreedySteps
<1> HIDE DEF n
<1> DEFINE S == {k \in 0..n : g[k] \in Seatings(pending, usage) /\ (Stuck(g[k], pending) \/ Len(g[k].placed) = k)}
<1>3. 0 \in S
  <2>1. Len(<<>>) = 0 /\ Unplaced(usage).placed = <<>> /\ 0 \in 0..n
    BY <1>0 DEF Unplaced
  <2> QED BY <1>2, <2>1, SeatedNone
<1>4. ASSUME NEW k \in 0..n - 1, k \in S PROVE k + 1 \in S
  <2>1. k + 1 \in 1..n /\ k + 1 - 1 = k /\ k \in 0..n /\ k + 1 \in 0..n
    BY <1>0
  <2> DEFINE node == g[k]
  <2>2. node \in Seatings(pending, usage) /\ node \in Nodes /\ (Stuck(node, pending) \/ Len(node.placed) = k)
    BY <1>4 DEF Seatings
  <2>3. g[k + 1] = PlaceNext(pending, node)
    BY <1>2, <2>1
  <2> HIDE DEF node
  <2>4. CASE Stuck(node, pending) /\ PlaceNext(pending, node) = node
    BY <2>1, <2>2, <2>3, <2>4
  <2>5. CASE \E i \in pending \ Taken(node.placed) : \E p \in HotOptions(node.usage, Item(i)) :
               ~Stuck(node, pending) /\ PlaceNext(pending, node) = Put(node, i, p)
    <3>1. PICK i \in pending \ Taken(node.placed) : \E p \in HotOptions(node.usage, Item(i)) :
                 ~Stuck(node, pending) /\ PlaceNext(pending, node) = Put(node, i, p)
      BY <2>5
    <3>2. PICK p \in HotOptions(node.usage, Item(i)) : ~Stuck(node, pending) /\ PlaceNext(pending, node) = Put(node, i, p)
      BY <3>1
    <3>3. i \in Items /\ p \in Usable /\ i \in pending /\ i \notin Taken(node.placed) /\ pending \subseteq pending
      BY OptionsType
    <3>4. Put(node, i, p) \in Seatings(pending, usage)
      BY <2>2, <3>3, SeatedMore
    <3>5. Len(Put(node, i, p).placed) = k + 1
      <4>1. Put(node, i, p).placed = Append(node.placed, <<i, p>>) /\ Len(node.placed) = k
        BY <2>2, <3>2, <3>3, PutMeans
      <4>2. OneMore(Append(node.placed, <<i, p>>), node.placed, i, p)
        BY <2>2, <3>3, OneMoreTaken DEF Nodes
      <4> QED BY <4>1, <4>2 DEF OneMore
    <3> QED BY <2>1, <2>3, <3>2, <3>4, <3>5
  <2> QED BY <2>2, <2>4, <2>5, PlaceNextMeans
<1>5. n \in S
  <2>1. \A k \in 0..n - 1 : k \in S => k + 1 \in S
    BY <1>4
  <2> HIDE DEF S
  <2> QED BY <1>0, <1>3, <2>1, UpTo
<1> DEFINE node == g[n]
<1>6. node \in Seatings(pending, usage) /\ (Stuck(node, pending) \/ Len(node.placed) = n) /\ Greedy(pending, usage) = node.placed
  BY <1>2, <1>5
<1> HIDE DEF node
<1>7. CASE Len(node.placed) = n
  <2>1. node.placed \in Seq(Items \X Usable) /\ Distinct(node.placed) /\ Taken(node.placed) \subseteq pending
    BY <1>6 DEF Seatings, Nodes
  <2>2. Cardinality(Taken(node.placed)) = Cardinality(pending)
    BY <1>7, <2>1, TakenSize DEF n
  <2>3. pending \ Taken(node.placed) = {}
    BY <1>0, <2>1, <2>2, FS_Subset
  <2>4. Stuck(node, pending)
    BY <2>3 DEF Stuck, Placeable
  <2> QED BY <1>6, <2>4
<1> QED BY <1>6, <1>7

-----------------------------------------------------------------------------
(* The search *)

Elems(s) == {s[k] : k \in 1..Len(s)}

LEMMA ElemsJoined ==
  ASSUME NEW X, NEW s \in Seq(X), NEW t \in Seq(X)
  PROVE  s \o t \in Seq(X) /\ Elems(s \o t) = Elems(s) \cup Elems(t)
<1> DEFINE m == Len(s)  n == Len(t)  r == s \o t
<1>1. /\ m \in Nat /\ n \in Nat /\ r \in Seq(X) /\ Len(r) = m + n
      /\ \A k \in 1..m : r[k] = s[k]
      /\ \A k \in 1..n : r[m + k] = t[k]
  OBVIOUS
<1> HIDE DEF m, n, r
<1>2. Elems(r) \subseteq Elems(s) \cup Elems(t)
  <2> SUFFICES ASSUME NEW k \in 1..m + n PROVE r[k] \in Elems(s) \cup Elems(t)
    BY <1>1 DEF Elems
  <2>1. CASE k <= m
    <3>1. k \in 1..m
      BY <1>1, <2>1
    <3> QED BY <1>1, <3>1 DEF Elems, m
  <2>2. CASE k > m
    <3>1. k - m \in 1..n /\ m + (k - m) = k
      BY <1>1, <2>2
    <3>2. r[k] = t[k - m]
      BY <1>1, <3>1
    <3> QED BY <3>1, <3>2 DEF Elems, n
  <2> QED BY <1>1, <2>1, <2>2
<1>3. ASSUME NEW k \in 1..m PROVE s[k] \in Elems(r)
  <2>1. k \in 1..m + n
    BY <1>1
  <2> QED BY <1>1, <2>1 DEF Elems
<1>4. ASSUME NEW k \in 1..n PROVE t[k] \in Elems(r)
  <2>1. m + k \in 1..m + n
    BY <1>1
  <2> QED BY <1>1, <2>1 DEF Elems
<1>5. Elems(s) \cup Elems(t) \subseteq Elems(r)
  BY <1>3, <1>4 DEF Elems, m, n
<1> QED BY <1>1, <1>2, <1>5 DEF r

\* The members of the sequences joined are those of each.
LEMMA FlattenMeans ==
  ASSUME NEW X, NEW n \in Nat, NEW s \in [1..n -> Seq(X)]
  PROVE  FlattenSeq(s) \in Seq(X) /\ Elems(FlattenSeq(s)) = UNION {Elems(s[k]) : k \in 1..n}
<1>0. Len(s) = n /\ s \in Seq(Seq(X)) /\ DOMAIN s = 1..n
  OBVIOUS
<1>1. CASE n = 0
  <2>1. FlattenSeq(s) = s
    BY <1>0, <1>1 DEF FlattenSeq
  <2>2. 1..n = {} /\ s = <<>> /\ Len(<<>>) = 0
    BY <1>0, <1>1
  <2>3. Elems(<<>>) = {} /\ UNION {Elems(s[k]) : k \in 1..n} = {}
    BY <2>2 DEF Elems
  <2> QED BY <2>1, <2>2, <2>3
<1>2. CASE n # 0
  <2> DEFINE step == [x \in Seq(X) \X Seq(X) |-> x[1] \o x[2]]
             flatten == CHOOSE g : g = [i \in 1..n |-> IF i = 1 THEN s[i] ELSE g[i - 1] \o s[i]]
  <2>1. FlattenSeq(s) = flatten[n]
    BY <1>0, <1>2 DEF FlattenSeq
  <2>2. step \in [Seq(X) \X Seq(X) -> Seq(X)] /\ <<>> \in Seq(X) /\ \A a, b \in Seq(X) : step[<<a, b>>] = a \o b
    <3>1. \A a, b \in Seq(X) : a \o b \in Seq(X)
      OBVIOUS
    <3>2. \A x \in Seq(X) \X Seq(X) : x[1] \o x[2] \in Seq(X)
      BY <3>1
    <3>3. step \in [Seq(X) \X Seq(X) -> Seq(X)]
      BY <3>2
    <3>4. \A a, b \in Seq(X) : <<a, b>> \in Seq(X) \X Seq(X) /\ <<a, b>>[1] = a /\ <<a, b>>[2] = b
      OBVIOUS
    <3>5. \A a, b \in Seq(X) : step[<<a, b>>] = a \o b
      BY <3>4
    <3>6. <<>> \in Seq(X)
      OBVIOUS
    <3> QED BY <3>3, <3>5, <3>6
  <2> HIDE DEF step
  <2>3. PICK f : Iterates(f, n, s, <<>>, step)
    BY IteratesExist
  <2>4. IteratesIn(f, n, s, <<>>, step, Seq(X), Seq(X))
    BY <2>2, <2>3, IteratesStay
  <2>5. ASSUME NEW i \in 1..n
        PROVE  /\ 1..i \in SUBSET (1..n) /\ 1..i - 1 \in SUBSET (1..n) /\ f[1..i - 1] \in Seq(X)
               /\ f[1..i] = f[1..i - 1] \o s[i]
    <3>1. /\ 1..i \in SUBSET (1..n) /\ 1..i # {} /\ Max(1..i) = i
          /\ (1..i) \ {i} = 1..i - 1 /\ i - 1 \in 0..n /\ 1..i - 1 \in SUBSET (1..n)
      <4>1. /\ 1..i # {} /\ Max(1..i) = i
            /\ (1..i) \ {i} = 1..i - 1 /\ i - 1 \in 0..n
        BY Initials
      <4>2. 1..i \in SUBSET (1..n)
        OBVIOUS
      <4>3. 1..i - 1 \in SUBSET (1..n)
        BY <4>1, <4>2
      <4> QED BY <4>1, <4>2, <4>3
    <3>2. f[1..i - 1] \in Seq(X) /\ f[1..i] = step[<<f[1..i - 1], s[i]>>]
      BY <2>4, <3>1 DEF IteratesIn
    <3>3. s[i] \in Seq(X)
      OBVIOUS
    <3> QED BY <2>2, <3>1, <3>2, <3>3
  <2>6. f[1..0] = <<>>
    <3>1. 1..0 = {} /\ {} \in SUBSET (1..n)
      BY Initials
    <3> QED BY <2>4, <3>1 DEF IteratesIn
  <2> DEFINE h == [i \in 1..n |-> f[1..i]]
  <2>7. \A i \in 1..n : h[i] = IF i = 1 THEN s[i] ELSE h[i - 1] \o s[i]
    <3> TAKE i \in 1..n
    <3>1. h[i] = f[1..i - 1] \o s[i] /\ s[i] \in Seq(X)
      BY <2>5
    <3>2. CASE i = 1
      <4>1. f[1..i - 1] = <<>>
        BY <2>6, <3>2
      <4> HIDE DEF h
      <4> QED BY <3>1, <3>2, <4>1
    <3>3. CASE i # 1
      <4>1. i - 1 \in 1..n
        BY <3>3
      <4>2. h[i - 1] = f[1..i - 1]
        BY <4>1
      <4> HIDE DEF h
      <4> QED BY <3>1, <3>3, <4>2
    <3> QED BY <3>2, <3>3
  <2>8. h = [i \in 1..n |-> IF i = 1 THEN s[i] ELSE h[i - 1] \o s[i]]
    BY <2>7
  <2> HIDE DEF h
  <2>9. flatten = [i \in 1..n |-> IF i = 1 THEN s[i] ELSE flatten[i - 1] \o s[i]]
    BY <2>8
  <2> HIDE DEF flatten
  <2>10. \A i \in 1..n : flatten[i] = IF i = 1 THEN s[i] ELSE flatten[i - 1] \o s[i]
    BY <2>9
  <2> DEFINE Joined(i) == flatten[i] \in Seq(X) /\ Elems(flatten[i]) = UNION {Elems(s[k]) : k \in 1..i}
             S == {i \in 0..n - 1 : Joined(i + 1)}
  <2>11. 0 \in S
    <3>1. flatten[1] = s[1] /\ s[1] \in Seq(X) /\ 0 \in 0..n - 1
      BY <1>2, <2>10
    <3>2. 1..1 = {1}
      OBVIOUS
    <3>3. Joined(1)
      BY <3>1, <3>2
    <3>4. 0 + 1 = 1
      OBVIOUS
    <3> HIDE DEF Joined
    <3> QED BY <3>1, <3>3, <3>4
  <2>12. ASSUME NEW i \in 0..n - 1 - 1, i \in S PROVE i + 1 \in S
    <3>1. i + 1 \in 0..n - 1 /\ i + 1 + 1 \in 1..n /\ i + 1 + 1 # 1 /\ i + 1 + 1 - 1 = i + 1
      OBVIOUS
    <3>2. Joined(i + 1)
      BY <2>12
    <3>3. flatten[i + 1 + 1] = flatten[i + 1] \o s[i + 1 + 1] /\ s[i + 1 + 1] \in Seq(X)
      <4>1. \A j \in 1..n : j # 1 => flatten[j] = flatten[j - 1] \o s[j] /\ s[j] \in Seq(X)
        BY <2>10
      <4> DEFINE j == i + 1 + 1
      <4>2. j \in 1..n /\ j # 1 /\ j - 1 = i + 1
        BY <3>1
      <4> HIDE DEF j
      <4>3. flatten[j] = flatten[i + 1] \o s[j] /\ s[j] \in Seq(X)
        BY <4>1, <4>2
      <4> QED BY <4>3 DEF j
    <3>4. flatten[i + 1 + 1] \in Seq(X) /\ Elems(flatten[i + 1 + 1]) = Elems(flatten[i + 1]) \cup Elems(s[i + 1 + 1])
      BY <3>2, <3>3, ElemsJoined
    <3>5. 1..i + 1 + 1 = (1..i + 1) \cup {i + 1 + 1}
      OBVIOUS
    <3>6. UNION {Elems(s[k]) : k \in 1..i + 1 + 1} = (UNION {Elems(s[k]) : k \in 1..i + 1}) \cup Elems(s[i + 1 + 1])
      BY <3>5
    <3>7. Joined(i + 1 + 1)
      BY <3>2, <3>4, <3>6
    <3> HIDE DEF Joined
    <3> QED BY <3>1, <3>7
  <2>13. n - 1 \in Nat /\ n - 1 \in 0..n - 1 /\ n - 1 + 1 = n
    BY <1>2
  <2>14. n - 1 \in S
    <3>1. \A i \in 0..n - 1 - 1 : i \in S => i + 1 \in S
      BY <2>12
    <3> HIDE DEF S
    <3>2. 0..n - 1 \subseteq S
      BY <2>11, <2>13, <3>1, UpTo
    <3> QED BY <2>13, <3>2
  <2>15. Joined(n)
    <3> HIDE DEF Joined
    <3> QED BY <2>13, <2>14
  <2> QED BY <2>1, <2>15
<1> QED BY <1>1, <1>2

Spread(node, i) == {Put(node, i, p) : p \in HotOptions(node.usage, Item(i))}

LEMMA BranchesMeans ==
  ASSUME Given, NEW node \in Nodes, NEW i \in Items
  PROVE  /\ Branches(node, i) \in Seq(Nodes)
         /\ Elems(Branches(node, i)) = {node} \cup Spread(node, i)
<1> DEFINE H == HotOptions(node.usage, Item(i))
           options == TightestFirst(H, node.usage)
           n == Cardinality(H)
           s == [k \in 1..n |-> Put(node, i, options[k])]
<1>1. H \in SUBSET Usable /\ IsFiniteSet(H) /\ node.usage \in Usages
  BY OptionsType DEF Nodes
<1> HIDE DEF H
<1>2. options \in SetToSeqs(H)
  BY <1>1, TightestMeans
<1> HIDE DEF options
<1>3. /\ n \in Nat /\ options \in [1..n -> H]
      /\ \A p \in H : \E k \in 1..n : options[k] = p
  BY <1>1, <1>2, SeqsOf
<1>4. \A p \in H : Put(node, i, p) \in Nodes
  BY <1>1, PutMeans
<1> HIDE DEF n
<1>5. s \in Seq(Nodes) /\ Len(s) = n
  <2>1. \A k \in 1..n : Put(node, i, options[k]) \in Nodes
    BY <1>3, <1>4
  <2> QED BY <1>3, <2>1
<1>6. Elems(s) = {Put(node, i, p) : p \in H}
  <2>1. Elems(s) = {Put(node, i, options[k]) : k \in 1..n}
    BY <1>5 DEF Elems
  <2> QED BY <1>3, <2>1
<1>7. Branches(node, i) = Append(s, node)
  <2>1. DOMAIN options = 1..n
    BY <1>3
  <2> QED BY <2>1 DEF Branches, options, H
<1> HIDE DEF s
<1>8. Append(s, node) = s \o <<node>> /\ <<node>> \in Seq(Nodes) /\ Elems(<<node>>) = {node}
  <2>1. Append(s, node) = s \o <<node>> /\ <<node>> \in Seq(Nodes)
    BY <1>5
  <2>2. Len(<<node>>) = 1 /\ <<node>>[1] = node /\ 1..1 = {1}
    OBVIOUS
  <2>3. Elems(<<node>>) = {node}
    BY <2>2 DEF Elems
  <2> QED BY <2>1, <2>3
<1>9. s \o <<node>> \in Seq(Nodes) /\ Elems(s \o <<node>>) = Elems(s) \cup {node}
  <2> DEFINE t == <<node>>
  <2>1. t \in Seq(Nodes) /\ Elems(t) = {node}
    BY <1>8
  <2> HIDE DEF t
  <2>2. s \o t \in Seq(Nodes) /\ Elems(s \o t) = Elems(s) \cup Elems(t)
    BY <1>5, <2>1, ElemsJoined
  <2> QED BY <2>1, <2>2 DEF t
<1> QED BY <1>6, <1>7, <1>8, <1>9 DEF H, Spread

\* Every node as it is, and with i on each of its options.
Grown(N, i) == N \cup UNION {Spread(node, i) : node \in N}

LEMMA GrowMeans ==
  ASSUME Given, NEW nodes \in Seq(Nodes), NEW i \in Items
  PROVE  Grow(nodes, i) \in Seq(Nodes) /\ Elems(Grow(nodes, i)) = Grown(Elems(nodes), i)
<1> DEFINE n == Len(nodes)  s == [k \in 1..n |-> Branches(nodes[k], i)]
<1>1. n \in Nat /\ DOMAIN nodes = 1..n /\ \A k \in 1..n : nodes[k] \in Nodes
  OBVIOUS
<1>2. Grow(nodes, i) = FlattenSeq(s)
  BY <1>1 DEF Grow
<1> HIDE DEF n
<1>3. s \in [1..n -> Seq(Nodes)]
  <2>1. \A k \in 1..n : Branches(nodes[k], i) \in Seq(Nodes)
    BY <1>1, BranchesMeans
  <2> QED BY <2>1
<1>4. \A k \in 1..n : s[k] = Branches(nodes[k], i)
  OBVIOUS
<1> HIDE DEF s
<1>5. FlattenSeq(s) \in Seq(Nodes) /\ Elems(FlattenSeq(s)) = UNION {Elems(s[k]) : k \in 1..n}
  BY <1>1, <1>3, FlattenMeans
<1>6. \A k \in 1..n : Elems(s[k]) = {nodes[k]} \cup Spread(nodes[k], i)
  BY <1>1, <1>4, BranchesMeans
<1>7. UNION {Elems(s[k]) : k \in 1..n} = Grown({nodes[k] : k \in 1..n}, i)
  <2> DEFINE N == {nodes[k] : k \in 1..n}
  <2>1. ASSUME NEW x \in UNION {Elems(s[k]) : k \in 1..n} PROVE x \in N \cup UNION {Spread(node, i) : node \in N}
    BY <1>6
  <2>2. ASSUME NEW x \in N PROVE x \in UNION {Elems(s[k]) : k \in 1..n}
    BY <1>6
  <2>3. ASSUME NEW node \in N, NEW x \in Spread(node, i) PROVE x \in UNION {Elems(s[k]) : k \in 1..n}
    <3>1. PICK k \in 1..n : node = nodes[k]
      OBVIOUS
    <3> QED BY <1>6, <2>3, <3>1
  <2> HIDE DEF N
  <2>4. Grown(N, i) = N \cup UNION {Spread(node, i) : node \in N}
    BY DEF Grown
  <2>5. UNION {Elems(s[k]) : k \in 1..n} = Grown(N, i)
    BY <2>1, <2>2, <2>3, <2>4
  <2> QED BY <2>5 DEF N
<1> QED BY <1>2, <1>5, <1>7 DEF Elems, n

\* g: the nodes of the tree after each candidate of s.
LeafSteps(g, n, s, pending, usage) ==
  /\ g \in [0..n -> Seq(Nodes)] /\ g[0] = <<Unplaced(usage)>>
  /\ \A k \in 1..n : g[k] = Grow(g[k - 1], s[k])
  /\ Leaves(pending, usage) = g[n]

Candidates(s, n, pending, usage) ==
  /\ n \in Nat /\ s \in [1..n -> Items]
  /\ Placeable(pending, usage) = {s[k] : k \in 1..n}
  /\ \A j, k \in 1..n : s[j] = s[k] => j = k

LEMMA FoldLeaves ==
  ASSUME Given, NEW pending \in SUBSET Items, NEW usage \in Usages
  PROVE  \E n, s, g : Candidates(s, n, pending, usage) /\ LeafSteps(g, n, s, pending, usage)
<1> DEFINE C == Placeable(pending, usage)
           n == Cardinality(C)
           s == SearchOrder(C, usage)
           base == <<Unplaced(usage)>>
           step == [x \in Seq(Nodes) \X Items |-> Grow(x[1], x[2])]
           iter == CHOOSE f : f = [t \in SUBSET DOMAIN s |->
                                     IF t = {} THEN base ELSE Grow(f[t \ {Max(t)}], s[Max(t)])]
           g == [i \in 0..n |-> iter[1..i]]
<1>1. C \in SUBSET Items /\ IsFiniteSet(C)
  BY GivenMeans, FS_Subset DEF GivenItems, Placeable
<1>2. base \in Seq(Nodes)
  <2>1. Unplaced(usage) \in Nodes
    BY SeatedNone DEF Seatings
  <2> QED BY <2>1
<1>3. Leaves(pending, usage) = iter[DOMAIN s]
  BY DEF Leaves, FoldLeft, MapThenFoldSet, Unplaced
<1> HIDE DEF base, C
<1>4. s \in SetToSeqs(C)
  BY <1>1, SearchOrderMeans
<1> HIDE DEF s
<1>5. /\ n \in Nat /\ s \in [1..n -> C]
      /\ \A c \in C : \E i \in 1..n : s[i] = c
      /\ \A i, j \in 1..n : i # j => s[i] # s[j]
  BY <1>1, <1>4, SeqsOf
<1> HIDE DEF n
<1>6. s \in [1..n -> Items] /\ DOMAIN s = 1..n /\ C = {s[k] : k \in 1..n}
  BY <1>1, <1>5
<1>7. step \in [Seq(Nodes) \X Items -> Seq(Nodes)]
  BY GrowMeans
<1>8. \A x \in Seq(Nodes), i \in Items : step[<<x, i>>] = Grow(x, i)
  OBVIOUS
<1> HIDE DEF step
<1>9. PICK f : Iterates(f, n, s, base, step)
  BY <1>5, IteratesExist
<1>10. IteratesIn(f, n, s, base, step, Seq(Nodes), Items)
  BY <1>2, <1>5, <1>6, <1>7, <1>9, IteratesStay
<1>11. \A t \in SUBSET (1..n) : /\ f[t] \in Seq(Nodes)
                                /\ f[t] = IF t = {} THEN base ELSE Grow(f[t \ {Max(t)}], s[Max(t)])
  BY <1>8, <1>10 DEF IteratesIn
<1>12. f = [t \in SUBSET DOMAIN s |-> IF t = {} THEN base ELSE Grow(f[t \ {Max(t)}], s[Max(t)])]
  <2>1. DOMAIN f = SUBSET (1..n) /\ f = [t \in SUBSET (1..n) |-> f[t]]
    BY <1>9 DEF Iterates
  <2> QED BY <1>6, <1>11, <2>1
<1>13. iter = [t \in SUBSET (1..n) |-> IF t = {} THEN base ELSE Grow(iter[t \ {Max(t)}], s[Max(t)])]
  BY <1>6, <1>12
<1> HIDE DEF iter
<1>14. \A t \in SUBSET (1..n) : /\ t = {} => iter[t] = base
                                /\ t # {} => iter[t] = Grow(iter[t \ {Max(t)}], s[Max(t)])
  BY <1>13
<1>15. \A i \in 0..n : g[i] = iter[1..i]
  OBVIOUS
<1>16. DOMAIN g = 0..n /\ g = [i \in 0..n |-> g[i]]
  OBVIOUS
<1> HIDE DEF g
<1>17. g[0] = base
  <2>1. 0 \in 0..n /\ 1..0 = {} /\ {} \in SUBSET (1..n)
    BY <1>5, Initials
  <2> QED BY <1>14, <1>15, <2>1
<1>18. \A i \in 1..n : g[i] = Grow(g[i - 1], s[i])
  <2> TAKE i \in 1..n
  <2>1. /\ 1..i \in SUBSET (1..n) /\ 1..i # {} /\ Max(1..i) = i
        /\ (1..i) \ {i} = 1..i - 1 /\ i - 1 \in 0..n /\ i \in 0..n
    BY <1>5, Initials
  <2>2. iter[1..i] = Grow(iter[1..i - 1], s[i])
    BY <1>14, <2>1
  <2> QED BY <1>15, <2>1, <2>2
<1>19. g \in [0..n -> Seq(Nodes)]
  <2> DEFINE S == {i \in 0..n : g[i] \in Seq(Nodes)}
  <2>1. 0 \in S
    BY <1>2, <1>5, <1>17
  <2>2. ASSUME NEW i \in 0..n - 1, i \in S PROVE i + 1 \in S
    <3>1. i + 1 \in 1..n /\ i + 1 - 1 = i /\ i + 1 \in 0..n
      BY <1>5
    <3>2. g[i + 1] = Grow(g[i], s[i + 1]) /\ s[i + 1] \in Items /\ g[i] \in Seq(Nodes)
      BY <1>6, <1>18, <2>2, <3>1
    <3> QED BY <3>1, <3>2, GrowMeans
  <2>3. 0..n \subseteq S
    <3>1. \A i \in 0..n - 1 : i \in S => i + 1 \in S
      BY <2>2
    <3> HIDE DEF S
    <3> QED BY <1>5, <2>1, <3>1, UpTo
  <2> QED BY <1>16, <2>3
<1>20. Leaves(pending, usage) = g[n]
  BY <1>3, <1>5, <1>6, <1>15
<1>21. LeafSteps(g, n, s, pending, usage)
  BY <1>17, <1>18, <1>19, <1>20 DEF LeafSteps, base
<1>22. Candidates(s, n, pending, usage)
  BY <1>5, <1>6 DEF Candidates, C
<1> QED BY <1>21, <1>22

LEMMA MoreToSeat ==
  ASSUME NEW usage, NEW pending, NEW wider, pending \subseteq wider
  PROVE  Seatings(pending, usage) \subseteq Seatings(wider, usage)
BY DEF Seatings

\* Every leaf places items that have room, one after another.
LEMMA LeavesMeans ==
  ASSUME Given, NEW pending \in SUBSET Items, NEW usage \in Usages
  PROVE  /\ Leaves(pending, usage) \in Seq(Nodes)
         /\ Elems(Leaves(pending, usage)) \subseteq Seatings(pending, usage)
         /\ Unplaced(usage) \in Elems(Leaves(pending, usage))
<1>1. PICK n, s, g : Candidates(s, n, pending, usage) /\ LeafSteps(g, n, s, pending, usage)
  BY FoldLeaves
<1>2. /\ n \in Nat /\ s \in [1..n -> Items]
      /\ Placeable(pending, usage) = {s[k] : k \in 1..n}
      /\ \A j, k \in 1..n : s[j] = s[k] => j = k
  BY <1>1 DEF Candidates
<1>3. /\ g \in [0..n -> Seq(Nodes)] /\ g[0] = <<Unplaced(usage)>>
      /\ \A k \in 1..n : g[k] = Grow(g[k - 1], s[k])
      /\ Leaves(pending, usage) = g[n]
  BY <1>1 DEF LeafSteps
<1> DEFINE D(k) == {s[j] : j \in 1..k}
           S == {k \in 0..n : Elems(g[k]) \subseteq Seatings(D(k), usage) /\ Unplaced(usage) \in Elems(g[k])}
<1>4. 0 \in S
  <2>1. Len(g[0]) = 1 /\ g[0][1] = Unplaced(usage) /\ 1..1 = {1}
    BY <1>3
  <2>2. Elems(g[0]) = {Unplaced(usage)} /\ 0 \in 0..n
    BY <1>2, <2>1 DEF Elems
  <2> QED BY <2>2, SeatedNone
<1>5. ASSUME NEW k \in 0..n - 1, k \in S PROVE k + 1 \in S
  <2>1. k + 1 \in 1..n /\ k + 1 - 1 = k /\ k \in 0..n /\ k + 1 \in 0..n /\ k + 1 \notin 1..k
    BY <1>2
  <2>2. 1..k + 1 = 1..k \cup {k + 1} /\ 1..k \subseteq 1..n
    BY <1>2
  <2> DEFINE i == s[k + 1]  N == Elems(g[k])
  <2>3. i \in Items /\ g[k] \in Seq(Nodes) /\ g[k + 1] = Grow(g[k], i)
    BY <1>2, <1>3, <2>1
  <2>4. Elems(g[k + 1]) = Grown(N, i)
    BY <2>3, GrowMeans
  <2>5. N \subseteq Seatings(D(k), usage) /\ Unplaced(usage) \in N
    BY <1>5
  <2>6. D(k) \subseteq D(k + 1) /\ i \in D(k + 1) /\ i \notin D(k)
    BY <1>2, <2>1, <2>2
  <2> HIDE DEF D, N, i
  <2>7. N \subseteq Seatings(D(k + 1), usage)
    BY <2>5, <2>6, MoreToSeat
  <2>8. ASSUME NEW node \in N, NEW p \in HotOptions(node.usage, Item(i))
        PROVE  Put(node, i, p) \in Seatings(D(k + 1), usage)
    <3>1. node \in Seatings(D(k), usage) /\ i \notin Taken(node.placed)
      BY <2>5, <2>6 DEF Seatings
    <3> QED BY <2>3, <2>6, <3>1, SeatedMore
  <2>9. Grown(N, i) \subseteq Seatings(D(k + 1), usage) /\ Unplaced(usage) \in Grown(N, i)
    BY <2>5, <2>7, <2>8 DEF Grown, Spread
  <2> QED BY <2>1, <2>4, <2>9
<1>6. n \in S
  <2>1. \A k \in 0..n - 1 : k \in S => k + 1 \in S
    BY <1>5
  <2>2. n \in Nat /\ n \in 0..n
    BY <1>2
  <2> HIDE DEF S
  <2>3. 0..n \subseteq S
    BY <1>4, <2>1, <2>2, UpTo
  <2> QED BY <2>2, <2>3
<1>7. D(n) \subseteq pending
  BY <1>2 DEF Placeable
<1> HIDE DEF D
<1>8. Elems(g[n]) \subseteq Seatings(pending, usage) /\ Unplaced(usage) \in Elems(g[n]) /\ g[n] \in Seq(Nodes)
  BY <1>2, <1>3, <1>6, <1>7, MoreToSeat
<1> QED BY <1>3, <1>8

LEMMA MaxOfLengths ==
  ASSUME NEW n \in Nat, NEW t \in SUBSET (0..n), t # {}
  PROVE  Max(t) \in t /\ \A i \in t : i <= Max(t)
<1> DEFINE D == {n - i : i \in t}
<1>1. D \in SUBSET Nat /\ D # {}
  <2>1. \A i \in t : n - i \in Nat
    OBVIOUS
  <2> QED BY <2>1
<1>2. PICK d \in D : \A e \in D : d <= e
  <2> HIDE DEF D
  <2> QED BY <1>1, LeastElement
<1>3. PICK m \in t : d = n - m
  BY <1>2
<1>4. \A i \in t : m >= i
  <2> TAKE i \in t
  <2>1. n - m <= n - i
    BY <1>2, <1>3
  <2> QED BY <2>1
<1>5. Max(t) \in t /\ \A y \in t : Max(t) >= y
  BY <1>3, <1>4 DEF Max
<1> QED BY <1>5

\* What is allocated has room, and no leaf places more; unless all are placed.
LEMMA AllocateMeans ==
  ASSUME Given, NEW pending \in SUBSET Items, NEW usage \in Usages
  PROVE  \E node \in Seatings(pending, usage) :
           /\ AllocateReclaims(pending, usage) = node.placed
           /\ Len(Greedy(pending, usage)) <= Len(node.placed)
           /\ \/ Len(node.placed) = Cardinality(pending)
              \/ \A leaf \in Elems(Leaves(pending, usage)) : Len(leaf.placed) <= Len(node.placed)
<1> DEFINE seed == Greedy(pending, usage)
           leaves == Leaves(pending, usage)
           lengths == {Len(leaves[k].placed) : k \in DOMAIN leaves}
           most == Max(lengths)
           best == {k \in DOMAIN leaves : Len(leaves[k].placed) = most}
           leaf == leaves[Min(best)]
<1>1. AllocateReclaims(pending, usage) =
        IF Len(seed) = Cardinality(pending) \/ most <= Len(seed) THEN seed ELSE leaf.placed
  BY DEF AllocateReclaims
<1>2. PICK node \in Seatings(pending, usage) : seed = node.placed
  BY GreedyMeans
<1>3. IsFiniteSet(pending) /\ Cardinality(pending) \in Nat
  BY GivenMeans, FS_Subset, FS_CardinalityType DEF GivenItems
<1>4. /\ leaves \in Seq(Nodes) /\ DOMAIN leaves = 1..Len(leaves) /\ Len(leaves) \in Nat
      /\ DOMAIN leaves # {} /\ Elems(leaves) = {leaves[k] : k \in DOMAIN leaves}
      /\ Elems(leaves) \subseteq Seatings(pending, usage)
  <2>1. leaves \in Seq(Nodes) /\ Elems(leaves) \subseteq Seatings(pending, usage) /\ Elems(leaves) # {}
    BY LeavesMeans
  <2> HIDE DEF leaves
  <2> QED BY <2>1 DEF Elems
<1> HIDE DEF seed, leaves
<1>5. \A x \in Seatings(pending, usage) : Len(x.placed) \in 0..Cardinality(pending)
  <2> TAKE x \in Seatings(pending, usage)
  <2>1. x.placed \in Seq(Items \X Usable) /\ Distinct(x.placed) /\ Taken(x.placed) \in SUBSET pending
    BY DEF Seatings, Nodes
  <2>2. Cardinality(Taken(x.placed)) = Len(x.placed)
    BY <2>1, TakenSize
  <2>3. Cardinality(Taken(x.placed)) <= Cardinality(pending)
    BY <1>3, <2>1, FS_Subset
  <2>4. Len(x.placed) \in Nat
    BY <2>1
  <2> QED BY <1>3, <2>2, <2>3, <2>4
<1>6. \A k \in DOMAIN leaves : leaves[k] \in Seatings(pending, usage)
  BY <1>4
<1>7. lengths \in SUBSET (0..Cardinality(pending)) /\ lengths # {}
  BY <1>4, <1>5, <1>6
<1>8. most \in lengths /\ \A m \in lengths : m <= most
  <2> HIDE DEF lengths
  <2> QED BY <1>3, <1>7, MaxOfLengths
<1>9. \A x \in Elems(leaves) : Len(x.placed) \in Nat /\ Len(x.placed) <= most
  BY <1>4, <1>5, <1>8
<1>10. best \in SUBSET Nat /\ best # {}
  <2>1. \E k \in DOMAIN leaves : Len(leaves[k].placed) = most
    <3> HIDE DEF most
    <3> QED BY <1>8
  <2>2. best \subseteq DOMAIN leaves
    OBVIOUS
  <2>3. DOMAIN leaves \subseteq Nat
    BY <1>4
  <2>4. best # {}
    <3> HIDE DEF most
    <3> QED BY <2>1
  <2> HIDE DEF best
  <2> QED BY <2>2, <2>3, <2>4
<1> HIDE DEF best
<1>11. PICK m \in best : \A k \in best : m <= k
  BY <1>10, LeastElement
<1>12. Min(best) \in best
  BY <1>11 DEF Min
<1>13. leaf \in Seatings(pending, usage) /\ Len(leaf.placed) = most
  BY <1>4, <1>6, <1>12 DEF best
<1>14. most \in Nat /\ Len(seed) \in Nat
  BY <1>2, <1>3, <1>5, <1>7, <1>8
<1> HIDE DEF most, leaf, lengths
<1>15. CASE Len(seed) = Cardinality(pending)
  BY <1>1, <1>2, <1>3, <1>14, <1>15 DEF seed
<1>16. CASE Len(seed) # Cardinality(pending) /\ most <= Len(seed)
  <2>1. \A x \in Elems(leaves) : Len(x.placed) <= Len(seed)
    BY <1>9, <1>14, <1>16
  <2>2. Len(seed) <= Len(seed)
    BY <1>14
  <2> QED BY <1>1, <1>2, <1>16, <2>1, <2>2 DEF seed, leaves
<1>17. CASE Len(seed) # Cardinality(pending) /\ ~(most <= Len(seed))
  <2>1. Len(seed) <= Len(leaf.placed)
    BY <1>13, <1>14, <1>17
  <2>2. \A x \in Elems(leaves) : Len(x.placed) <= Len(leaf.placed)
    BY <1>9, <1>13
  <2> QED BY <1>1, <1>13, <1>17, <2>1, <2>2 DEF seed, leaves
<1> QED BY <1>15, <1>16, <1>17

-----------------------------------------------------------------------------
(* Moves made, and fills projected *)

LEMMA ReclaimedType ==
  ASSUME Given, NEW usage \in Usages, NEW x \in Items \X Usable
  PROVE  Reclaimed(usage, x) \in Usages
<1>1. Item(x[1]).size \in Nat
  BY GivenMeans DEF GivenItems
<1> QED BY <1>1, MoveType DEF Reclaimed

\* g: the usage after each move.
ReclaimSteps(g, s, usage) ==
  /\ g \in [0..Len(s) -> Usages] /\ g[0] = usage
  /\ \A k \in 1..Len(s) : g[k] = Reclaimed(g[k - 1], s[k])
  /\ FoldLeft(Reclaimed, usage, s) = g[Len(s)]

LEMMA FoldReclaimed ==
  ASSUME Given, NEW s \in Seq(Items \X Usable), NEW usage \in Usages
  PROVE  \E g : ReclaimSteps(g, s, usage)
<1> DEFINE n == Len(s)
           base == usage
           step == [x \in Usages \X (Items \X Usable) |-> Reclaimed(x[1], x[2])]
           iter == CHOOSE f : f = [t \in SUBSET DOMAIN s |->
                                     IF t = {} THEN base ELSE Reclaimed(f[t \ {Max(t)}], s[Max(t)])]
           g == [i \in 0..n |-> iter[1..i]]
<1>1. n \in Nat /\ s \in [1..n -> Items \X Usable] /\ DOMAIN s = 1..n
  OBVIOUS
<1>2. base \in Usages
  BY DEF base
<1>3. FoldLeft(Reclaimed, usage, s) = iter[DOMAIN s]
  BY DEF FoldLeft, MapThenFoldSet
<1> HIDE DEF base, n
<1>4. step \in [Usages \X (Items \X Usable) -> Usages]
  BY ReclaimedType
<1>5. \A x \in Usages, y \in Items \X Usable : step[<<x, y>>] = Reclaimed(x, y)
  OBVIOUS
<1> HIDE DEF step
<1>6. PICK f : Iterates(f, n, s, base, step)
  BY <1>1, IteratesExist
<1>7. IteratesIn(f, n, s, base, step, Usages, Items \X Usable)
  BY <1>1, <1>2, <1>4, <1>6, IteratesStay
<1>8. \A t \in SUBSET (1..n) : /\ f[t] \in Usages
                               /\ f[t] = IF t = {} THEN base ELSE Reclaimed(f[t \ {Max(t)}], s[Max(t)])
  BY <1>5, <1>7 DEF IteratesIn
<1>9. f = [t \in SUBSET DOMAIN s |-> IF t = {} THEN base ELSE Reclaimed(f[t \ {Max(t)}], s[Max(t)])]
  <2>1. DOMAIN f = SUBSET (1..n) /\ f = [t \in SUBSET (1..n) |-> f[t]]
    BY <1>6 DEF Iterates
  <2> QED BY <1>1, <1>8, <2>1
<1>10. iter = [t \in SUBSET (1..n) |-> IF t = {} THEN base ELSE Reclaimed(iter[t \ {Max(t)}], s[Max(t)])]
  BY <1>1, <1>9
<1> HIDE DEF iter
<1>11. \A t \in SUBSET (1..n) : /\ t = {} => iter[t] = base
                                /\ t # {} => iter[t] = Reclaimed(iter[t \ {Max(t)}], s[Max(t)])
  BY <1>10
<1>12. \A i \in 0..n : g[i] = iter[1..i]
  OBVIOUS
<1>13. DOMAIN g = 0..n /\ g = [i \in 0..n |-> g[i]]
  OBVIOUS
<1> HIDE DEF g
<1>14. g[0] = base
  <2>1. 0 \in 0..n /\ 1..0 = {} /\ {} \in SUBSET (1..n)
    BY <1>1, Initials
  <2> QED BY <1>11, <1>12, <2>1
<1>15. \A i \in 1..n : g[i] = Reclaimed(g[i - 1], s[i])
  <2> TAKE i \in 1..n
  <2>1. /\ 1..i \in SUBSET (1..n) /\ 1..i # {} /\ Max(1..i) = i
        /\ (1..i) \ {i} = 1..i - 1 /\ i - 1 \in 0..n /\ i \in 0..n
    BY <1>1, Initials, SMTT(30)
  <2>2. iter[1..i] = Reclaimed(iter[1..i - 1], s[i])
    BY <1>11, <2>1
  <2> QED BY <1>12, <2>1, <2>2
<1>16. g \in [0..n -> Usages]
  <2> DEFINE S == {i \in 0..n : g[i] \in Usages}
  <2>1. 0 \in S
    BY <1>1, <1>2, <1>14
  <2>2. ASSUME NEW i \in 0..n - 1, i \in S PROVE i + 1 \in S
    <3>1. i + 1 \in 1..n /\ i + 1 - 1 = i /\ i + 1 \in 0..n
      BY <1>1
    <3>2. g[i + 1] = Reclaimed(g[i], s[i + 1]) /\ s[i + 1] \in Items \X Usable /\ g[i] \in Usages
      BY <1>1, <1>15, <2>2, <3>1
    <3> QED BY <3>1, <3>2, ReclaimedType
  <2>3. 0..n \subseteq S
    <3>1. \A i \in 0..n - 1 : i \in S => i + 1 \in S
      BY <2>2
    <3> HIDE DEF S
    <3> QED BY <1>1, <2>1, <3>1, UpTo
  <2> QED BY <1>13, <2>3
<1>17. FoldLeft(Reclaimed, usage, s) = g[n]
  BY <1>1, <1>3, <1>12
<1> QED BY <1>14, <1>15, <1>16, <1>17 DEF ReclaimSteps, base, n

Rooms == [capacity : Usages, projected : Usages]

LEMMA ProjectType ==
  ASSUME Given, NEW state \in Rooms, NEW i \in Items
  PROVE  Project(state, i) \in Rooms
<1> DEFINE to == PickDestination(state.capacity, Item(i))
           a == Apply(state.capacity, to, Item(i).size)
           b == Move(state.projected, Item(i).on, to, Item(i).size)
<1>1. Item(i).size \in Nat /\ Item(i).size \in Int /\ state.capacity \in Usages /\ state.projected \in Usages
  BY GivenMeans DEF GivenItems, Rooms
<1>2. a \in Usages /\ b \in Usages
  BY <1>1, ApplyType, MoveType
<1>3. Project(state, i) = IF to = None THEN state ELSE [capacity |-> a, projected |-> b]
  BY DEF Project
<1> HIDE DEF to, a, b
<1> QED BY <1>2, <1>3 DEF Rooms

\* g: the room and the usage after each fill.
ProjectSteps(g, s, room, usage) ==
  /\ g \in [0..Len(s) -> Rooms] /\ g[0] = [capacity |-> room, projected |-> usage]
  /\ \A k \in 1..Len(s) : g[k] = Project(g[k - 1], s[k])
  /\ AfterFills(s, room, usage) = g[Len(s)].projected

LEMMA FoldProjected ==
  ASSUME Given, NEW s \in Seq(Items), NEW room \in Usages, NEW usage \in Usages
  PROVE  \E g : ProjectSteps(g, s, room, usage)
<1> DEFINE n == Len(s)
           base == [capacity |-> room, projected |-> usage]
           step == [x \in Rooms \X Items |-> Project(x[1], x[2])]
           iter == CHOOSE f : f = [t \in SUBSET DOMAIN s |->
                                     IF t = {} THEN base ELSE Project(f[t \ {Max(t)}], s[Max(t)])]
           g == [i \in 0..n |-> iter[1..i]]
<1>1. n \in Nat /\ s \in [1..n -> Items] /\ DOMAIN s = 1..n
  OBVIOUS
<1>2. base \in Rooms
  BY DEF Rooms
<1>3. AfterFills(s, room, usage) = iter[DOMAIN s].projected
  BY DEF AfterFills, FoldLeft, MapThenFoldSet
<1> HIDE DEF base, n
<1>4. step \in [Rooms \X Items -> Rooms]
  BY ProjectType
<1>5. \A x \in Rooms, y \in Items : step[<<x, y>>] = Project(x, y)
  OBVIOUS
<1> HIDE DEF step
<1>6. PICK f : Iterates(f, n, s, base, step)
  BY <1>1, IteratesExist
<1>7. IteratesIn(f, n, s, base, step, Rooms, Items)
  BY <1>1, <1>2, <1>4, <1>6, IteratesStay
<1>8. \A t \in SUBSET (1..n) : /\ f[t] \in Rooms
                               /\ f[t] = IF t = {} THEN base ELSE Project(f[t \ {Max(t)}], s[Max(t)])
  BY <1>5, <1>7 DEF IteratesIn
<1>9. f = [t \in SUBSET DOMAIN s |-> IF t = {} THEN base ELSE Project(f[t \ {Max(t)}], s[Max(t)])]
  <2>1. DOMAIN f = SUBSET (1..n) /\ f = [t \in SUBSET (1..n) |-> f[t]]
    BY <1>6 DEF Iterates
  <2> QED BY <1>1, <1>8, <2>1
<1>10. iter = [t \in SUBSET (1..n) |-> IF t = {} THEN base ELSE Project(iter[t \ {Max(t)}], s[Max(t)])]
  BY <1>1, <1>9
<1> HIDE DEF iter
<1>11. \A t \in SUBSET (1..n) : /\ t = {} => iter[t] = base
                                /\ t # {} => iter[t] = Project(iter[t \ {Max(t)}], s[Max(t)])
  BY <1>10
<1>12. \A i \in 0..n : g[i] = iter[1..i]
  OBVIOUS
<1>13. DOMAIN g = 0..n /\ g = [i \in 0..n |-> g[i]]
  OBVIOUS
<1> HIDE DEF g
<1>14. g[0] = base
  <2>1. 0 \in 0..n /\ 1..0 = {} /\ {} \in SUBSET (1..n)
    BY <1>1, Initials
  <2> QED BY <1>11, <1>12, <2>1
<1>15. \A i \in 1..n : g[i] = Project(g[i - 1], s[i])
  <2> TAKE i \in 1..n
  <2>1. /\ 1..i \in SUBSET (1..n) /\ 1..i # {} /\ Max(1..i) = i
        /\ (1..i) \ {i} = 1..i - 1 /\ i - 1 \in 0..n /\ i \in 0..n
    BY <1>1, Initials
  <2>2. iter[1..i] = Project(iter[1..i - 1], s[i])
    BY <1>11, <2>1
  <2> QED BY <1>12, <2>1, <2>2
<1>16. g \in [0..n -> Rooms]
  <2> DEFINE S == {i \in 0..n : g[i] \in Rooms}
  <2>1. 0 \in S
    BY <1>1, <1>2, <1>14
  <2>2. ASSUME NEW i \in 0..n - 1, i \in S PROVE i + 1 \in S
    <3>1. i + 1 \in 1..n /\ i + 1 - 1 = i /\ i + 1 \in 0..n
      BY <1>1
    <3>2. g[i + 1] = Project(g[i], s[i + 1]) /\ s[i + 1] \in Items /\ g[i] \in Rooms
      BY <1>1, <1>15, <2>2, <3>1
    <3> QED BY <3>1, <3>2, ProjectType
  <2>3. 0..n \subseteq S
    <3>1. \A i \in 0..n - 1 : i \in S => i + 1 \in S
      BY <2>2
    <3> HIDE DEF S
    <3> QED BY <1>1, <2>1, <3>1, UpTo
  <2> QED BY <1>13, <2>3
<1>17. AfterFills(s, room, usage) = g[n].projected
  BY <1>1, <1>3, <1>12
<1> QED BY <1>14, <1>15, <1>16, <1>17 DEF ProjectSteps, base, n

LEMMA AfterFillsType ==
  ASSUME Given, NEW s \in Seq(Items), NEW room \in Usages, NEW usage \in Usages
  PROVE  AfterFills(s, room, usage) \in Usages
<1>1. PICK g : ProjectSteps(g, s, room, usage)
  BY FoldProjected
<1>2. Len(s) \in Nat /\ Len(s) \in 0..Len(s)
  OBVIOUS
<1>3. g[Len(s)] \in Rooms
  BY <1>1, <1>2 DEF ProjectSteps
<1> QED BY <1>1, <1>3 DEF ProjectSteps, Rooms

LEMMA MinOfTwo ==
  ASSUME NEW a \in Int, NEW b \in Int
  PROVE  Min({a, b}) = IF a <= b THEN a ELSE b
<1>1. \E x \in {a, b} : \A y \in {a, b} : x =< y
  OBVIOUS
<1>2. Min({a, b}) \in {a, b} /\ \A y \in {a, b} : Min({a, b}) =< y
  BY <1>1 DEF Min
<1> QED BY <1>2

LEMMA CountType ==
  ASSUME Given, NEW pending \in SUBSET Items, NEW usage \in Usages
  PROVE  PlaceableReclaimCount(pending, usage) \in Nat
<1>1. PICK node \in Seatings(pending, usage) : Greedy(pending, usage) = node.placed
  BY GreedyMeans
<1>2. node.placed \in Seq(Items \X Usable)
  BY DEF Seatings, Nodes
<1> QED BY <1>1, <1>2 DEF PlaceableReclaimCount

LEMMA TargetMeans ==
  ASSUME Given, NEW order \in Seq(Items), NEW pending \in SUBSET Items, NEW limit \in Nat, NEW usage \in Usages
  PROVE  LET count == PlaceableReclaimCount(pending, AfterFills(order, usage, usage))
         IN /\ BatchTarget(order, pending, limit, usage) \in 0..limit
            /\ BatchTarget(order, pending, limit, usage) = 0 => pending = {} \/ limit = 0 \/ count = 0
<1> DEFINE count == PlaceableReclaimCount(pending, AfterFills(order, usage, usage))
<1>1. count \in Nat
  BY AfterFillsType, CountType
<1>2. BatchTarget(order, pending, limit, usage) = IF pending = {} THEN 0 ELSE Min({limit, count})
  BY DEF BatchTarget
<1> HIDE DEF count
<1>3. Min({limit, count}) = IF limit <= count THEN limit ELSE count
  BY <1>1, MinOfTwo
<1> QED BY <1>1, <1>2, <1>3 DEF count

-----------------------------------------------------------------------------
(* Type correctness, and what each list holds *)

Misplaced == MisplacedOnCold(input.items)
Leaving   == ColdCandidates(input.items)

LEMMA CandidatesMean ==
  ASSUME Given
  PROVE  /\ Misplaced \subseteq Items /\ Leaving \subseteq Items
         /\ IsFiniteSet(Misplaced) /\ IsFiniteSet(Leaving)
         /\ \A i \in Misplaced : Item(i).on \in Usable /\ Place(Item(i).on).role = "cold"
         /\ \A i \in Leaving : Item(i).on \in Usable /\ Place(Item(i).on).role = "hot"
         /\ Misplaced \cap Leaving = {}
<1>1. Misplaced \subseteq Items /\ \A i \in Misplaced : Item(i).on \in Usable /\ Place(Item(i).on).role = "cold"
  BY DEF Misplaced, MisplacedOnCold, OnTier, Items, Item
<1>2. Leaving \subseteq Items /\ \A i \in Leaving : Item(i).on \in Usable /\ Place(Item(i).on).role = "hot"
  BY DEF Leaving, ColdCandidates, OnTier, Items, Item
<1>3. IsFiniteSet(Misplaced) /\ IsFiniteSet(Leaving)
  BY <1>1, <1>2, GivenMeans, FS_Subset DEF GivenItems
<1>4. Misplaced \cap Leaving = {}
  BY <1>1, <1>2
<1> QED BY <1>1, <1>2, <1>3, <1>4

\* Reclaims go to a hot path and fills to a cold one, each from where it is.
Heading(e) ==
  /\ e.from = Item(e.item).on
  /\ \/ e.item \in Misplaced /\ Place(e.to).role = "hot"
     \/ e.item \in Leaving /\ Place(e.to).role = "cold"

Belong ==
  /\ reclaims \subseteq Misplaced
  /\ ToSet(fills) \subseteq Leaving /\ ToSet(scan) \subseteq Leaving
  /\ \A k \in 1..Len(entries) : Heading(entries[k])

Typed == TypeOK /\ Belong

LEMMA TypedMeans ==
  ASSUME Typed
  PROVE  /\ Given /\ working \in Usages /\ capacity \in Usages
         /\ reclaims \in SUBSET Items /\ fills \in Seq(Items) /\ scan \in Seq(Items)
         /\ phase \in Nat /\ round \in Nat /\ goal \in Nat /\ target \in Nat
         /\ entries \in Seq([item : Items, from : Usable, to : Usable, phase : Nat])
BY DEF Typed, TypeOK, Given, Usages

\* The entries that placing x in this phase adds.
Entry(x, n) == [item |-> x[1], from |-> Item(x[1]).on, to |-> x[2], phase |-> n]

Attempted(node) ==
  /\ node \in Seatings(reclaims, working) /\ AllocateReclaims(reclaims, working) = node.placed
  /\ Len(node.placed) \in Nat /\ Len(entries') = Len(entries) + Len(node.placed)
  /\ \A k \in 1..Len(entries) : entries'[k] = entries[k]
  /\ \A k \in 1..Len(node.placed) : entries'[Len(entries) + k] = Entry(node.placed[k], phase)
  /\ entries' \in Seq([item : Items, from : Usable, to : Usable, phase : Nat])
  /\ working' = FoldLeft(Reclaimed, working, node.placed)
  /\ reclaims' = reclaims \ Taken(node.placed)
  /\ phase' = IF node.placed # <<>> THEN phase + 1 ELSE phase

LEMMA AttemptMeans ==
  ASSUME Typed, AttemptReclaims
  PROVE  \E node : Attempted(node)
<1>0. Given /\ working \in Usages /\ reclaims \in SUBSET Items /\ phase \in Nat /\ Belong
      /\ entries \in Seq([item : Items, from : Usable, to : Usable, phase : Nat])
  BY TypedMeans DEF Typed
<1>1. PICK node \in Seatings(reclaims, working) : AllocateReclaims(reclaims, working) = node.placed
  BY <1>0, AllocateMeans
<1> DEFINE s == node.placed
           E == [item : Items, from : Usable, to : Usable, phase : Nat]
           more == [k \in 1..Len(s) |-> Entry(s[k], phase)]
<1>2. s \in Seq(Items \X Usable) /\ Taken(s) \subseteq reclaims
  BY <1>1 DEF Seatings, Nodes
<1>3. /\ entries' = entries \o more /\ working' = FoldLeft(Reclaimed, working, s)
      /\ reclaims' = reclaims \ Taken(s)
      /\ phase' = IF s # <<>> THEN phase + 1 ELSE phase
  <2>1. DOMAIN s = 1..Len(s)
    BY <1>2
  <2> QED BY <1>1, <2>1 DEF AttemptReclaims, Entry, Taken
<1> HIDE DEF s
<1>4. Len(s) \in Nat /\ Taken(s) = {s[k][1] : k \in 1..Len(s)} /\ \A k \in 1..Len(s) : s[k][1] \in Items /\ s[k][2] \in Usable
  <2>1. TakenIs(s, Items, Usable)
    BY <1>2, TakenMeans
  <2> QED BY <2>1 DEF TakenIs
<1>5. \A k \in 1..Len(s) : Entry(s[k], phase) \in E
  <2>1. \A k \in 1..Len(s) : Item(s[k][1]).on \in Usable
    BY <1>0, <1>2, <1>4, CandidatesMean DEF Belong
  <2> QED BY <1>0, <1>4, <2>1 DEF Entry
<1>6. more \in Seq(E) /\ Len(more) = Len(s) /\ \A k \in 1..Len(s) : more[k] = Entry(s[k], phase)
  BY <1>4, <1>5
<1> HIDE DEF more
<1>7. /\ entries \o more \in Seq(E) /\ Len(entries \o more) = Len(entries) + Len(more)
      /\ \A k \in 1..Len(entries) : (entries \o more)[k] = entries[k]
      /\ \A k \in 1..Len(more) : (entries \o more)[Len(entries) + k] = more[k]
  <2>1. entries \in Seq(E)
    BY <1>0
  <2> HIDE DEF E
  <2> QED BY <1>6, <2>1
<1>8. Attempted(node)
  BY <1>1, <1>3, <1>4, <1>6, <1>7 DEF Attempted, s
<1> QED BY <1>8

Filled(i, to) ==
  /\ i = Head(scan) /\ i \in Leaving /\ to = PickDestination(capacity, Item(i))
  /\ to \in Usable /\ Place(to).role = "cold" /\ Holds(capacity[to], Item(i).size, Place(to).max)
  /\ Len(entries') = Len(entries) + 1
  /\ \A k \in 1..Len(entries) : entries'[k] = entries[k]
  /\ entries'[Len(entries) + 1] = Entry(<<i, to>>, phase)
  /\ entries' \in Seq([item : Items, from : Usable, to : Usable, phase : Nat])
  /\ capacity' = Apply(capacity, to, Item(i).size)
  /\ working' = Move(working, Item(i).on, to, Item(i).size)
  /\ scan # <<>>
  /\ \/ scan' = <<>> /\ fills' = fills \o Tail(scan)
     \/ scan' = Tail(scan) /\ fills' = fills

LEMMA FillMeans ==
  ASSUME Typed, PlanFill
  PROVE  \E i, to : Filled(i, to)
<1>0. /\ Given /\ capacity \in Usages /\ phase \in Nat /\ Belong /\ scan \in Seq(Items)
      /\ entries \in Seq([item : Items, from : Usable, to : Usable, phase : Nat])
  BY TypedMeans DEF Typed
<1> DEFINE i == Head(scan)  to == PickDestination(capacity, Item(i))
           e == Entry(<<i, to>>, phase)
           E == [item : Items, from : Usable, to : Usable, phase : Nat]
<1>1. /\ scan # <<>> /\ to # None /\ entries' = Append(entries, e)
      /\ capacity' = Apply(capacity, to, Item(i).size)
      /\ working' = Move(working, Item(i).on, to, Item(i).size)
      /\ \/ scan' = <<>> /\ fills' = fills \o Tail(scan)
         \/ scan' = Tail(scan) /\ fills' = fills
  BY DEF PlanFill, Entry
<1>2. i \in Leaving /\ i \in Items
  <2>1. Len(scan) \in Nat /\ DOMAIN scan = 1..Len(scan) /\ Len(scan) # 0 /\ i = scan[1]
    BY <1>0, <1>1
  <2>2. i \in ToSet(scan)
    BY <2>1 DEF ToSet
  <2> QED BY <1>0, <2>2, CandidatesMean DEF Belong
<1> HIDE DEF i
<1>3. to \in Usable /\ Place(to).role = "cold" /\ Holds(capacity[to], Item(i).size, Place(to).max)
  BY <1>0, <1>1, <1>2, DestinationMeans
<1> HIDE DEF to
<1>4. e \in E
  <2>1. Item(i).on \in Usable
    BY <1>0, <1>2, CandidatesMean
  <2> QED BY <1>0, <1>2, <1>3, <2>1 DEF Entry
<1> HIDE DEF e
<1>5. /\ Append(entries, e) \in Seq(E) /\ Len(Append(entries, e)) = Len(entries) + 1
      /\ Append(entries, e)[Len(entries) + 1] = e
      /\ \A k \in 1..Len(entries) : Append(entries, e)[k] = entries[k]
  <2>1. entries \in Seq(E)
    BY <1>0
  <2> HIDE DEF E
  <2> QED BY <1>4, <2>1
<1>6. Filled(i, to)
  BY <1>1, <1>2, <1>3, <1>5 DEF Filled, e, i, to
<1> QED BY <1>6

LEMMA ToSetIs ==
  ASSUME NEW X, NEW s \in Seq(X)
  PROVE  ToSet(s) = Elems(s) /\ ToSet(s) \subseteq X
<1>1. Len(s) \in Nat /\ DOMAIN s = 1..Len(s) /\ \A k \in 1..Len(s) : s[k] \in X
  OBVIOUS
<1> QED BY <1>1 DEF ToSet, Elems

\* No member of s is listed twice.
Once(s) == \A j, k \in 1..Len(s) : s[j] = s[k] => j = k

Joining(r, s, t) ==
  /\ ToSet(r) = ToSet(s) \cup ToSet(t) /\ Len(r) = Len(s) + Len(t)
  /\ Once(s) /\ Once(t) /\ ToSet(s) \cap ToSet(t) = {} => Once(r)

LEMMA Joined ==
  ASSUME NEW X, NEW s \in Seq(X), NEW t \in Seq(X)
  PROVE  s \o t \in Seq(X) /\ Joining(s \o t, s, t)
<1> DEFINE m == Len(s)  n == Len(t)  r == s \o t
<1>1. /\ m \in Nat /\ n \in Nat /\ r \in Seq(X) /\ Len(r) = m + n
      /\ \A k \in 1..m : r[k] = s[k]
      /\ \A k \in 1..n : r[m + k] = t[k]
  OBVIOUS
<1>2. Elems(r) = Elems(s) \cup Elems(t)
  BY ElemsJoined
<1>3. ToSet(r) = Elems(r) /\ ToSet(s) = Elems(s) /\ ToSet(t) = Elems(t)
  BY <1>1, ToSetIs
<1>4. ASSUME Once(s), Once(t), ToSet(s) \cap ToSet(t) = {} PROVE Once(r)
  <2>1. \A j, k \in 1..m : s[j] = s[k] => j = k
    BY <1>4 DEF Once
  <2>2. \A j, k \in 1..n : t[j] = t[k] => j = k
    BY <1>4 DEF Once
  <2>3. \A j \in 1..m, k \in 1..n : s[j] # t[k]
    BY <1>3, <1>4 DEF Elems
  <2> HIDE DEF m, n, r
  <2>4. ASSUME NEW j \in 1..m + n, NEW k \in 1..m + n, r[j] = r[k] PROVE j = k
    <3>1. \A x \in 1..m + n : x \in 1..m \/ (x - m \in 1..n /\ m + (x - m) = x)
      BY <1>1
    <3>2. \A x \in 1..m + n : (x \in 1..m /\ r[x] = s[x]) \/ (x - m \in 1..n /\ r[x] = t[x - m])
      BY <1>1, <3>1
    <3>3. CASE j \in 1..m /\ r[j] = s[j] /\ k \in 1..m /\ r[k] = s[k]
      BY <2>1, <2>4, <3>3
    <3>4. CASE j - m \in 1..n /\ r[j] = t[j - m] /\ k - m \in 1..n /\ r[k] = t[k - m]
      <4>1. j - m = k - m
        BY <2>2, <2>4, <3>4
      <4> QED BY <1>1, <4>1
    <3>5. CASE j \in 1..m /\ r[j] = s[j] /\ k - m \in 1..n /\ r[k] = t[k - m]
      BY <2>3, <2>4, <3>5
    <3>6. CASE j - m \in 1..n /\ r[j] = t[j - m] /\ k \in 1..m /\ r[k] = s[k]
      BY <2>3, <2>4, <3>6
    <3> QED BY <3>2, <3>3, <3>4, <3>5, <3>6
  <2> QED BY <1>1, <2>4 DEF Once
<1> HIDE DEF r
<1>5. Joining(r, s, t)
  BY <1>1, <1>2, <1>3, <1>4 DEF Joining, m, n
<1> QED BY <1>1, <1>5 DEF r

LEMMA OnlyOne ==
  ASSUME NEW X, NEW x \in X
  PROVE  <<x>> \in Seq(X) /\ ToSet(<<x>>) = {x} /\ Len(<<x>>) = 1 /\ Once(<<x>>)
<1>1. <<x>> \in Seq(X) /\ Len(<<x>>) = 1 /\ <<x>>[1] = x /\ DOMAIN <<x>> = {1} /\ 1..1 = {1}
  OBVIOUS
<1> QED BY <1>1 DEF ToSet, Once

Split(s, x, t) ==
  /\ s = <<x>> \o t /\ ToSet(s) = {x} \cup ToSet(t) /\ Len(s) = Len(t) + 1
  /\ Once(s) => Once(t) /\ x \notin ToSet(t)

LEMMA HeadAndTail ==
  ASSUME NEW X, NEW s \in Seq(X), s # <<>>
  PROVE  Head(s) \in X /\ Tail(s) \in Seq(X) /\ Split(s, Head(s), Tail(s))
<1> DEFINE x == Head(s)  t == Tail(s)  n == Len(t)
<1>1. /\ x \in X /\ t \in Seq(X) /\ s = <<x>> \o t /\ n \in Nat /\ Len(s) = n + 1 /\ s[1] = x
      /\ \A k \in 1..n : t[k] = s[k + 1]
  OBVIOUS
<1>2. ToSet(t) = Elems(t)
  BY <1>1, ToSetIs
<1> HIDE DEF x, t
<1>3. ToSet(s) = {x} \cup ToSet(t)
  <2>1. <<x>> \in Seq(X) /\ ToSet(<<x>>) = {x}
    BY <1>1, OnlyOne
  <2>2. Joining(<<x>> \o t, <<x>>, t)
    BY <1>1, <2>1, Joined
  <2> QED BY <1>1, <2>1, <2>2 DEF Joining
<1>4. ASSUME Once(s) PROVE Once(t) /\ x \notin ToSet(t)
  <2>1. \A j, k \in 1..n + 1 : s[j] = s[k] => j = k
    BY <1>1, <1>4 DEF Once
  <2> HIDE DEF n
  <2>2. ASSUME NEW j \in 1..n, NEW k \in 1..n, t[j] = t[k] PROVE j = k
    <3>1. j + 1 \in 1..n + 1 /\ k + 1 \in 1..n + 1 /\ s[j + 1] = s[k + 1]
      BY <1>1, <2>2
    <3>2. j + 1 = k + 1
      BY <2>1, <3>1
    <3> QED BY <3>2
  <2>3. ASSUME NEW k \in 1..n PROVE t[k] # x
    <3>1. k + 1 \in 1..n + 1 /\ 1 \in 1..n + 1 /\ k + 1 # 1 /\ t[k] = s[k + 1] /\ x = s[1]
      BY <1>1
    <3> QED BY <2>1, <3>1
  <2> QED BY <1>2, <2>2, <2>3 DEF Once, Elems, n
<1> QED BY <1>1, <1>3, <1>4 DEF Split, n, x, t

-----------------------------------------------------------------------------

LEMMA FillsSorted ==
  ASSUME Given, NEW s \in ColdestFirst(Leaving)
  PROVE  s \in Seq(Items) /\ ToSet(s) = Leaving /\ Once(s) /\ Len(s) = Cardinality(Leaving)
<1> DEFINE n == Cardinality(Leaving)
<1>0. IsFiniteSet(Leaving) /\ Leaving \subseteq Items
  BY CandidatesMean
<1>1. s \in SetToSeqs(Leaving)
  BY DEF ColdestFirst
<1>2. /\ n \in Nat /\ s \in [1..n -> Leaving]
      /\ \A k \in Leaving : \E i \in 1..n : s[i] = k
      /\ \A i, j \in 1..n : i # j => s[i] # s[j]
  BY <1>0, <1>1, SeqsOf
<1>3. s \in Seq(Items) /\ Len(s) = n /\ DOMAIN s = 1..n
  BY <1>0, <1>2
<1>4. ToSet(s) = Leaving
  BY <1>2, <1>3 DEF ToSet
<1>5. Once(s)
  <2> HIDE DEF n
  <2> QED BY <1>2, <1>3 DEF Once
<1> QED BY <1>3, <1>4, <1>5

LEMMA InitTyped == Init => Typed
<1> SUFFICES ASSUME Init PROVE Typed
  OBVIOUS
<1>1. /\ Given /\ at = "reclaims" /\ working = input.usage /\ capacity = input.usage
      /\ reclaims = Misplaced /\ fills \in ColdestFirst(Leaving)
      /\ scan = <<>> /\ target = 0 /\ goal = 1 /\ phase = 0 /\ round = 0
      /\ moved = [reclaims |-> FALSE, fills |-> FALSE] /\ entries = <<>>
  BY DEF Init, Given, Misplaced, Leaving
<1>2. input.usage \in Usages /\ Misplaced \subseteq Items
  BY <1>1, GivenMeans, CandidatesMean DEF GivenPlaces
<1>3. fills \in Seq(Items) /\ ToSet(fills) = Leaving
  BY <1>1, FillsSorted
<1>4. ToSet(<<>>) = {} /\ Len(<<>>) = 0
  BY DEF ToSet
<1>5. TypeOK
  BY <1>1, <1>2, <1>3 DEF TypeOK, Given, Usages
<1>6. Belong
  BY <1>1, <1>3, <1>4 DEF Belong
<1> QED BY <1>5, <1>6 DEF Typed

LEMMA GoalType ==
  ASSUME goal \in Nat, NEW n \in Nat
  PROVE  NextGoal(n) \in Nat
<1>1. n \div 4 \in Nat
  OBVIOUS
<1> QED BY <1>1 DEF NextGoal

LEMMA TypedAfter ==
  ASSUME Given, input' = input, at' \in {"reclaims", "batch", "fills", "planned"},
         working' \in Usages, capacity' \in Usages,
         reclaims' \subseteq Misplaced, fills' \in Seq(Items), scan' \in Seq(Items),
         ToSet(fills') \subseteq Leaving, ToSet(scan') \subseteq Leaving,
         target' \in Nat, goal' \in Nat, phase' \in Nat, round' \in Nat,
         moved' \in [reclaims : BOOLEAN, fills : BOOLEAN],
         entries' \in Seq([item : Items, from : Usable, to : Usable, phase : Nat]),
         \A k \in 1..Len(entries') : Heading(entries'[k])
  PROVE  Typed'
<1>1. Misplaced \subseteq Items
  BY CandidatesMean
<1>2. TypeOK'
  BY <1>1 DEF TypeOK, Given, Usages, Usable, Items
<1>3. Misplaced' = Misplaced /\ Leaving' = Leaving
  BY DEF Misplaced, MisplacedOnCold, Leaving, ColdCandidates, OnTier, Usable, Place
<1>4. \A k \in 1..Len(entries') : Heading(entries[k])'
  BY <1>3 DEF Heading, Item, Place
<1>5. Belong'
  BY <1>3, <1>4 DEF Belong
<1> QED BY <1>2, <1>5 DEF Typed

LEMMA StepTyped == Typed /\ [Next]_vars => Typed'
<1> SUFFICES ASSUME Typed, [Next]_vars PROVE Typed'
  OBVIOUS
<1>0. /\ Given /\ working \in Usages /\ capacity \in Usages
      /\ reclaims \in SUBSET Items /\ fills \in Seq(Items) /\ scan \in Seq(Items)
      /\ phase \in Nat /\ round \in Nat /\ goal \in Nat /\ target \in Nat
      /\ entries \in Seq([item : Items, from : Usable, to : Usable, phase : Nat])
  BY TypedMeans
<1>1. /\ reclaims \subseteq Misplaced
      /\ ToSet(fills) \subseteq Leaving /\ ToSet(scan) \subseteq Leaving
      /\ \A k \in 1..Len(entries) : Heading(entries[k])
      /\ at \in {"reclaims", "batch", "fills", "planned"}
      /\ moved \in [reclaims : BOOLEAN, fills : BOOLEAN]
  BY DEF Typed, Belong, TypeOK
<1>2. Misplaced \subseteq Items /\ Leaving \subseteq Items
  BY <1>0, CandidatesMean
<1>3. CASE AttemptReclaims
  <2>1. PICK node : Attempted(node)
    BY <1>3, AttemptMeans
  <2> DEFINE s == node.placed
  <2>2. s \in Seq(Items \X Usable) /\ Taken(s) \subseteq reclaims /\ Len(s) \in Nat
    BY <2>1 DEF Attempted, Seatings, Nodes
  <2>3. working' \in Usages
    <3>1. PICK g : ReclaimSteps(g, s, working)
      BY <1>0, <2>2, FoldReclaimed
    <3>2. Len(s) \in 0..Len(s)
      BY <2>2
    <3> HIDE DEF s
    <3>3. FoldLeft(Reclaimed, working, s) \in Usages
      BY <3>1, <3>2 DEF ReclaimSteps
    <3> QED BY <2>1, <3>3 DEF Attempted, s
  <2>4. ASSUME NEW k \in 1..Len(entries') PROVE Heading(entries'[k])
    <3> DEFINE m == Len(entries)
    <3>1. m \in Nat /\ Len(entries') = m + Len(s)
      BY <1>0, <2>1 DEF Attempted
    <3>2. CASE k \in 1..m
      BY <1>1, <2>1, <3>2 DEF Attempted
    <3>3. CASE k \notin 1..m
      <4> DEFINE j == k - m
      <4>1. j \in 1..Len(s) /\ k = m + j
        BY <2>2, <3>1, <3>3
      <4>2. TakenIs(s, Items, Usable)
        BY <2>2, TakenMeans
      <4>3. s[j][1] \in Misplaced /\ s[j][1] \in Items
        BY <1>1, <2>2, <4>1, <4>2 DEF TakenIs
      <4>4. Place(s[j][2]).role = "hot"
        <5>1. PICK h : Seats(h, s, working)
          BY <2>1 DEF Attempted, Seatings
        <5>2. s[j][2] \in HotOptions(h[j - 1], Item(s[j][1]))
          BY <4>1, <5>1 DEF Seats
        <5> QED BY <1>0, <5>2, OptionsType
      <4>5. entries'[k] = Entry(s[j], phase)
        BY <2>1, <4>1 DEF Attempted
      <4> QED BY <4>3, <4>4, <4>5 DEF Heading, Entry
    <3> QED BY <3>2, <3>3
  <2>5. /\ input' = input /\ at' = "batch" /\ capacity' = capacity /\ fills' = fills /\ scan' = scan
        /\ target' = target /\ round' = round
        /\ moved' \in [reclaims : BOOLEAN, fills : BOOLEAN]
        /\ (goal' = goal \/ goal' = NextGoal(Cardinality(reclaims')))
    BY <1>3 DEF AttemptReclaims
  <2>6. reclaims' \subseteq Misplaced /\ phase' \in Nat
        /\ entries' \in Seq([item : Items, from : Usable, to : Usable, phase : Nat])
    BY <1>0, <1>1, <2>1 DEF Attempted
  <2>7. goal' \in Nat
    <3>1. Cardinality(reclaims') \in Nat
      BY <1>0, <2>6, CandidatesMean, FS_Subset, FS_CardinalityType
    <3> QED BY <1>0, <2>5, <3>1, GoalType
  <2> QED BY <1>0, <1>1, <2>3, <2>4, <2>5, <2>6, <2>7, TypedAfter
<1>4. CASE StartFills
  <2>1. /\ input' = input /\ at' = "fills" /\ working' = working /\ capacity' = working /\ reclaims' = reclaims
        /\ scan' = fills /\ fills' = <<>> /\ goal' = goal /\ phase' = phase /\ round' = round
        /\ moved' = moved /\ entries' = entries
        /\ target' = BatchTarget(fills, reclaims, goal, working)
    BY <1>4 DEF StartFills
  <2>2. target' \in 0..goal
    BY <1>0, <2>1, TargetMeans
  <2>3. target' \in Nat
    BY <1>0, <2>2
  <2>4. ToSet(fills') \subseteq Leaving /\ fills' \in Seq(Items)
    BY <2>1 DEF ToSet
  <2> QED BY <1>0, <1>1, <2>1, <2>3, <2>4, TypedAfter
<1>5. CASE NoRoomForFill
  <2>1. /\ input' = input /\ at' = at /\ working' = working /\ capacity' = capacity /\ reclaims' = reclaims
        /\ target' = target /\ goal' = goal /\ phase' = phase /\ round' = round
        /\ moved' = moved /\ entries' = entries
        /\ scan # <<>> /\ fills' = Append(fills, Head(scan)) /\ scan' = Tail(scan)
    BY <1>5 DEF NoRoomForFill
  <2>2. Head(scan) \in Items /\ Tail(scan) \in Seq(Items) /\ Split(scan, Head(scan), Tail(scan))
    BY <1>0, <2>1, HeadAndTail
  <2>3. Head(scan) \in Leaving /\ ToSet(Tail(scan)) \subseteq Leaving
    BY <1>1, <2>2 DEF Split
  <2>4. fills' = fills \o <<Head(scan)>>
    BY <1>0, <2>1, <2>2
  <2>5. fills' \in Seq(Items) /\ ToSet(fills') \subseteq Leaving
    <3> DEFINE x == Head(scan)  t == <<x>>
    <3>1. t \in Seq(Items) /\ ToSet(t) = {x}
      BY <2>2, OnlyOne
    <3> HIDE DEF t
    <3>2. fills \o t \in Seq(Items) /\ Joining(fills \o t, fills, t)
      BY <1>0, <3>1, Joined
    <3>3. ToSet(fills \o t) = ToSet(fills) \cup {x}
      BY <3>1, <3>2 DEF Joining
    <3>4. fills' = fills \o t
      BY <2>4 DEF t
    <3> QED BY <1>1, <2>3, <3>2, <3>3, <3>4
  <2> QED BY <1>0, <1>1, <2>1, <2>2, <2>3, <2>5, TypedAfter
<1>6. CASE PlanFill
  <2>1. PICK i, to : Filled(i, to)
    BY <1>6, FillMeans
  <2>2. /\ input' = input /\ at' = at /\ reclaims' = reclaims
        /\ target' = target /\ goal' = goal /\ phase' = phase /\ round' = round
        /\ moved' = [moved EXCEPT !.fills = TRUE]
    BY <1>6 DEF PlanFill
  <2>3. i \in Leaving /\ i \in Items /\ Item(i).size \in Nat /\ Item(i).size \in Int
    BY <1>0, <1>2, <2>1, GivenMeans, SMTT(30) DEF Filled, GivenItems
  <2>4. working' \in Usages /\ capacity' \in Usages
    BY <1>0, <2>1, <2>3, ApplyType, MoveType DEF Filled
  <2>5. /\ fills' \in Seq(Items) /\ ToSet(fills') \subseteq Leaving
        /\ scan' \in Seq(Items) /\ ToSet(scan') \subseteq Leaving
    <3>1. /\ scan # <<>>
          /\ \/ scan' = <<>> /\ fills' = fills \o Tail(scan)
             \/ scan' = Tail(scan) /\ fills' = fills
      BY <2>1 DEF Filled
    <3>2. Tail(scan) \in Seq(Items) /\ Split(scan, Head(scan), Tail(scan))
      BY <1>0, <3>1, HeadAndTail
    <3>3. ToSet(Tail(scan)) \subseteq Leaving
      BY <1>1, <3>2 DEF Split
    <3> DEFINE t == Tail(scan)
    <3> HIDE DEF t
    <3>4. fills \o t \in Seq(Items) /\ ToSet(fills \o t) = ToSet(fills) \cup ToSet(t)
      <4>1. t \in Seq(Items)
        BY <3>2 DEF t
      <4>2. fills \o t \in Seq(Items) /\ Joining(fills \o t, fills, t)
        BY <1>0, <4>1, Joined
      <4> QED BY <4>2 DEF Joining
    <3>5. <<>> \in Seq(Items) /\ ToSet(<<>>) = {}
      BY DEF ToSet
    <3> QED BY <1>0, <1>1, <3>1, <3>2, <3>3, <3>4, <3>5 DEF t
  <2>6. ASSUME NEW k \in 1..Len(entries') PROVE Heading(entries'[k])
    <3>1. Len(entries) \in Nat /\ Len(entries') = Len(entries) + 1
      BY <1>0, <2>1 DEF Filled
    <3>2. CASE k \in 1..Len(entries)
      BY <1>1, <2>1, <3>2 DEF Filled
    <3>3. CASE k = Len(entries) + 1
      BY <2>1, <3>3 DEF Filled, Heading, Entry
    <3> QED BY <3>1, <3>2, <3>3
  <2>7. moved' \in [reclaims : BOOLEAN, fills : BOOLEAN] /\ entries' \in Seq([item : Items, from : Usable, to : Usable, phase : Nat])
    BY <1>1, <2>1, <2>2 DEF Filled
  <2> QED BY <1>0, <1>1, <2>2, <2>4, <2>5, <2>6, <2>7, TypedAfter
<1>7. CASE EndRound
  <2>1. /\ input' = input /\ at' \in {"reclaims", "planned"} /\ working' = working /\ capacity' = capacity
        /\ reclaims' = reclaims /\ scan' = scan /\ fills' = fills /\ target' = target /\ goal' = goal
        /\ (phase' = phase \/ phase' = phase + 1) /\ round' = round + 1
        /\ moved' = moved /\ entries' = entries
    BY <1>7 DEF EndRound
  <2>2. phase' \in Nat /\ round' \in Nat
    BY <1>0, <2>1
  <2> QED BY <1>0, <1>1, <2>1, <2>2, TypedAfter
<1>8. CASE UNCHANGED vars
  BY <1>0, <1>1, <1>8, TypedAfter DEF vars
<1> QED BY <1>3, <1>4, <1>5, <1>6, <1>7, <1>8 DEF Next

\* The plan is built of items, paths and readings, and every entry takes an item
\* from the tier it is on to the other: a misplaced one to a hot path, a cold
\* candidate to a cold one.
THEOREM TypedHolds == Spec => []Typed
BY InitTyped, StepTyped, PTL DEF Spec

\* Every variable of the loop in planner.Build keeps its type.
THEOREM TypeCorrect == Spec => []TypeOK
<1>1. Typed => TypeOK
  BY DEF Typed
<1> QED BY <1>1, TypedHolds, PTL

-----------------------------------------------------------------------------
(* Each item that should move is planned once, or left over *)

ItemsOf(s) == [k \in 1..Len(s) |-> s[k].item]

Planned == ToSet(ItemsOf(entries))

Parted ==
  /\ at # "fills" => scan = <<>>
  /\ Once(ItemsOf(entries)) /\ Once(fills) /\ Once(scan)
  /\ ToSet(fills) \cap ToSet(scan) = {}
  /\ Planned \cap (reclaims \cup ToSet(fills) \cup ToSet(scan)) = {}
  /\ Planned \cup reclaims \cup ToSet(fills) \cup ToSet(scan) = Misplaced \cup Leaving

LEMMA ItemsOfMeans ==
  ASSUME NEW X, NEW s, Len(s) \in Nat, \A k \in 1..Len(s) : s[k].item \in X
  PROVE  ItemsOf(s) \in Seq(X) /\ Len(ItemsOf(s)) = Len(s) /\ ToSet(ItemsOf(s)) = {s[k].item : k \in 1..Len(s)}
<1> DEFINE n == Len(s)
<1>1. n \in Nat /\ \A k \in 1..n : s[k].item \in X
  OBVIOUS
<1>2. ItemsOf(s) = [k \in 1..n |-> s[k].item]
  BY DEF ItemsOf
<1> HIDE DEF n
<1>3. ItemsOf(s) \in Seq(X) /\ Len(ItemsOf(s)) = n /\ DOMAIN ItemsOf(s) = 1..n
  BY <1>1, <1>2
<1>4. ToSet(ItemsOf(s)) = {s[k].item : k \in 1..n}
  BY <1>2, <1>3 DEF ToSet
<1> QED BY <1>3, <1>4 DEF n

LEMMA OnceSize ==
  ASSUME NEW X, NEW s \in Seq(X), Once(s)
  PROVE  IsFiniteSet(ToSet(s)) /\ Cardinality(ToSet(s)) = Len(s)
<1> DEFINE n == Len(s)
<1>1. n \in Nat /\ ToSet(s) = {s[k] : k \in 1..n} /\ s \in [1..n -> ToSet(s)]
  <2>1. ToSet(s) = Elems(s) /\ n \in Nat /\ s \in [1..n -> X]
    BY ToSetIs
  <2> QED BY <2>1 DEF Elems
<1>2. \A j, k \in 1..n : s[j] = s[k] => j = k
  BY DEF Once
<1>0. n \in Nat
  BY <1>1
<1> HIDE DEF n
<1>3. IsFiniteSet(1..n) /\ Cardinality(1..n) = n
  BY <1>0, FS_Interval
<1>4. s \in Surjection(1..n, ToSet(s)) /\ s \in Injection(1..n, ToSet(s))
  BY <1>1, <1>2 DEF Injection, Surjection, IsInjective
<1>5. IsFiniteSet(ToSet(s)) /\ (Cardinality(ToSet(s)) = n <=> s \in Injection(1..n, ToSet(s)))
  BY <1>3, <1>4, FS_Surjection
<1> QED BY <1>4, <1>5 DEF n

\* What has been placed, item by item.
LEMMA FirstsOf ==
  ASSUME NEW s \in Seq(Items \X Usable), Distinct(s)
  PROVE  LET t == [k \in 1..Len(s) |-> s[k][1]]
         IN t \in Seq(Items) /\ Len(t) = Len(s) /\ ToSet(t) = Taken(s) /\ Once(t)
<1> DEFINE n == Len(s)  t == [k \in 1..n |-> s[k][1]]
<1>1. TakenIs(s, Items, Usable)
  BY TakenMeans
<1>2. n \in Nat /\ Taken(s) = {s[k][1] : k \in 1..n} /\ \A k \in 1..n : s[k][1] \in Items
  BY <1>1 DEF TakenIs
<1>3. \A j, k \in 1..n : s[j][1] = s[k][1] => j = k
  BY DEF Distinct
<1> HIDE DEF n
<1>4. t \in Seq(Items) /\ Len(t) = n /\ DOMAIN t = 1..n /\ \A k \in 1..n : t[k] = s[k][1]
  BY <1>2
<1> HIDE DEF t
<1>5. ToSet(t) = Taken(s)
  BY <1>2, <1>4 DEF ToSet
<1>6. Once(t)
  BY <1>3, <1>4 DEF Once
<1> QED BY <1>4, <1>5, <1>6 DEF n, t

LEMMA SameAsJoined ==
  ASSUME NEW X, NEW s \in Seq(X), NEW t \in Seq(X), NEW r \in Seq(X), Len(r) = Len(s) + Len(t),
         \A k \in 1..Len(s) : r[k] = s[k], \A k \in 1..Len(t) : r[Len(s) + k] = t[k]
  PROVE  Joining(r, s, t)
<1> DEFINE m == Len(s)  n == Len(t)  j == s \o t
<1>1. m \in Nat /\ n \in Nat /\ Len(r) = m + n /\ \A k \in 1..n : r[m + k] = t[k]
  OBVIOUS
<1>2. /\ j \in Seq(X) /\ Len(j) = m + n
      /\ \A k \in 1..m : j[k] = s[k]
      /\ \A k \in 1..n : j[m + k] = t[k]
  OBVIOUS
<1> HIDE DEF j, m, n
<1>0. \A x \in Seq(X) : x = [k \in 1..Len(x) |-> x[k]]
  OBVIOUS
<1>3. r = [k \in 1..Len(r) |-> r[k]] /\ j = [k \in 1..Len(j) |-> j[k]]
  BY <1>0, <1>2
<1>4. ASSUME NEW k \in 1..m + n PROVE r[k] = j[k]
  <2>1. CASE k \in 1..m
    BY <1>2, <2>1 DEF m
  <2>2. CASE k \notin 1..m
    <3>1. k - m \in 1..n /\ m + (k - m) = k
      BY <1>1, <2>2
    <3> QED BY <1>1, <1>2, <3>1
  <2> QED BY <2>1, <2>2
<1>5. r = j
  BY <1>1, <1>2, <1>3, <1>4
<1> QED BY <1>5, Joined DEF j

Entries == [item : Items, from : Usable, to : Usable, phase : Nat]

LEMMA EntriesMean ==
  ASSUME NEW s \in Seq(Entries)
  PROVE  /\ Len(s) \in Nat /\ DOMAIN s = 1..Len(s)
         /\ \A k \in 1..Len(s) : s[k].item \in Items /\ s[k].from \in Usable /\ s[k].to \in Usable /\ s[k].phase \in Nat
<1>1. Len(s) \in Nat /\ DOMAIN s = 1..Len(s) /\ \A k \in 1..Len(s) : s[k] \in Entries
  OBVIOUS
<1>2. \A e \in Entries : e.item \in Items /\ e.from \in Usable /\ e.to \in Usable /\ e.phase \in Nat
  BY DEF Entries
<1> QED BY <1>1, <1>2

LEMMA EntriesItems ==
  ASSUME Typed
  PROVE  /\ ItemsOf(entries) \in Seq(Items) /\ Len(entries) \in Nat /\ Len(ItemsOf(entries)) = Len(entries)
         /\ Planned = {entries[k].item : k \in 1..Len(entries)} /\ DOMAIN entries = 1..Len(entries)
<1>1. Len(entries) \in Nat /\ DOMAIN entries = 1..Len(entries) /\ \A k \in 1..Len(entries) : entries[k].item \in Items
  BY TypedMeans, EntriesMean DEF Entries
<1> QED BY <1>1, ItemsOfMeans, ZenonT(30) DEF Planned

LEMMA InitParted == Init => Parted
<1> SUFFICES ASSUME Init PROVE Parted
  OBVIOUS
<1>1. /\ Given /\ at = "reclaims" /\ reclaims = Misplaced /\ fills \in ColdestFirst(Leaving)
      /\ scan = <<>> /\ entries = <<>>
  BY DEF Init, Given, Misplaced, Leaving
<1>2. ToSet(fills) = Leaving /\ Once(fills)
  BY <1>1, FillsSorted
<1>3. Len(<<>>) = 0 /\ 1..0 = {} /\ ToSet(<<>>) = {} /\ Once(<<>>)
  BY DEF ToSet, Once
<1>4. ItemsOf(entries) = <<>>
  BY <1>1, <1>3 DEF ItemsOf
<1> QED BY <1>1, <1>2, <1>3, <1>4 DEF Parted, Planned

LEMMA PartedAfter ==
  ASSUME input' = input, at' # "fills" => scan' = <<>>,
         Once(ItemsOf(entries')), Once(fills'), Once(scan'), ToSet(fills') \cap ToSet(scan') = {},
         ToSet(ItemsOf(entries')) \cap (reclaims' \cup ToSet(fills') \cup ToSet(scan')) = {},
         ToSet(ItemsOf(entries')) \cup reclaims' \cup ToSet(fills') \cup ToSet(scan') = Misplaced \cup Leaving
  PROVE  Parted'
<1>1. Misplaced' = Misplaced /\ Leaving' = Leaving
  BY DEF Misplaced, MisplacedOnCold, Leaving, ColdCandidates, OnTier, Usable, Place
<1> QED BY <1>1 DEF Parted, Planned

LEMMA StepParted == Typed /\ Typed' /\ Parted /\ [Next]_vars => Parted'
<1> SUFFICES ASSUME Typed, Typed', Parted, [Next]_vars PROVE Parted'
  OBVIOUS
<1>0. /\ Given /\ fills \in Seq(Items) /\ scan \in Seq(Items) /\ reclaims \subseteq Misplaced
      /\ ToSet(fills) \subseteq Leaving /\ ToSet(scan) \subseteq Leaving /\ Misplaced \cap Leaving = {}
  BY TypedMeans, CandidatesMean DEF Typed, Belong
<1> DEFINE ids == ItemsOf(entries)
<1>1. /\ at # "fills" => scan = <<>>
      /\ Once(ids) /\ Once(fills) /\ Once(scan)
      /\ ToSet(fills) \cap ToSet(scan) = {}
      /\ ToSet(ids) \cap (reclaims \cup ToSet(fills) \cup ToSet(scan)) = {}
      /\ ToSet(ids) \cup reclaims \cup ToSet(fills) \cup ToSet(scan) = Misplaced \cup Leaving
  BY DEF Parted, Planned
<1>2. ids \in Seq(Items) /\ Len(entries) \in Nat /\ Len(ids) = Len(entries)
  BY EntriesItems
<1>3. \A k \in 1..Len(entries) : ids[k] = entries[k].item
  BY <1>2 DEF ItemsOf
<1> HIDE DEF ids
<1>4. CASE AttemptReclaims
  <2>1. PICK node : Attempted(node)
    BY <1>4, AttemptMeans
  <2> DEFINE s == node.placed  t == [k \in 1..Len(s) |-> s[k][1]]  r == ItemsOf(entries')
  <2>2. s \in Seq(Items \X Usable) /\ Distinct(s) /\ Taken(s) \subseteq reclaims /\ reclaims' = reclaims \ Taken(s)
    BY <2>1 DEF Attempted, Seatings, Nodes
  <2>3. t \in Seq(Items) /\ Len(t) = Len(s) /\ ToSet(t) = Taken(s) /\ Once(t) /\ Len(s) \in Nat
    BY <2>2, FirstsOf
  <2>4. \A k \in 1..Len(s) : t[k] = s[k][1]
    OBVIOUS
  <2> HIDE DEF t
  <2>5. Len(entries') = Len(entries) + Len(s) /\ \A k \in 1..Len(entries') : entries'[k].item \in Items
    BY <2>1, EntriesMean DEF Attempted, Entries
  <2>6. r \in Seq(Items) /\ Len(r) = Len(ids) + Len(t)
    <3>1. Len(entries') \in Nat
      BY <1>2, <2>3, <2>5
    <3> QED BY <1>2, <2>3, <2>5, <3>1, ItemsOfMeans
  <2>7. \A k \in 1..Len(ids) : r[k] = ids[k]
    <3> TAKE k \in 1..Len(ids)
    <3>1. k \in 1..Len(entries') /\ k \in 1..Len(entries)
      BY <1>2, <2>3, <2>5
    <3>2. entries'[k] = entries[k]
      BY <2>1, <3>1 DEF Attempted
    <3> QED BY <1>3, <3>1, <3>2 DEF ItemsOf
  <2>8. \A k \in 1..Len(t) : r[Len(ids) + k] = t[k]
    <3> TAKE k \in 1..Len(t)
    <3>1. Len(ids) + k \in 1..Len(entries') /\ k \in 1..Len(s) /\ Len(ids) = Len(entries)
      BY <1>2, <2>3, <2>5
    <3>2. entries'[Len(entries) + k] = Entry(s[k], phase)
      BY <2>1, <3>1 DEF Attempted
    <3>3. entries'[Len(entries) + k].item = s[k][1]
      BY <3>2 DEF Entry
    <3> QED BY <2>4, <3>1, <3>3 DEF ItemsOf
  <2> HIDE DEF r
  <2>9. Joining(r, ids, t)
    BY <1>2, <2>3, <2>6, <2>7, <2>8, SameAsJoined
  <2>10. input' = input /\ at' = "batch" /\ at # "fills" /\ fills' = fills /\ scan' = scan
    BY <1>4 DEF AttemptReclaims
  <2>11. ToSet(r) = ToSet(ids) \cup Taken(s)
    BY <2>3, <2>9 DEF Joining
  <2>12. Once(r)
    <3>1. ToSet(ids) \cap ToSet(t) = {}
      BY <1>1, <2>2, <2>3
    <3> QED BY <1>1, <2>3, <2>9, <3>1 DEF Joining
  <2>13. Taken(s) \cap (ToSet(fills) \cup ToSet(scan)) = {}
    BY <1>0, <2>2
  <2>14. ToSet(r) \cap (reclaims' \cup ToSet(fills') \cup ToSet(scan')) = {}
    BY <1>1, <2>2, <2>10, <2>11, <2>13
  <2>15. ToSet(r) \cup reclaims' \cup ToSet(fills') \cup ToSet(scan') = Misplaced \cup Leaving
    BY <1>1, <2>2, <2>10, <2>11
  <2> HIDE DEF s
  <2> QED BY <1>1, <2>10, <2>12, <2>14, <2>15, PartedAfter DEF r
<1>5. CASE StartFills
  <2>1. input' = input /\ at # "fills" /\ at' = "fills" /\ scan' = fills /\ fills' = <<>> /\ reclaims' = reclaims /\ entries' = entries
    BY <1>5 DEF StartFills
  <2>2. ToSet(<<>>) = {} /\ Once(<<>>)
    BY DEF ToSet, Once
  <2> QED BY <1>1, <2>1, <2>2, PartedAfter DEF ids
<1>6. CASE NoRoomForFill
  <2>1. /\ input' = input /\ at' = at /\ at = "fills" /\ reclaims' = reclaims /\ entries' = entries
        /\ scan # <<>> /\ fills' = Append(fills, Head(scan)) /\ scan' = Tail(scan)
    BY <1>6 DEF NoRoomForFill
  <2> DEFINE x == Head(scan)  t == <<x>>  u == Tail(scan)
  <2>2. x \in Items /\ u \in Seq(Items) /\ Split(scan, x, u)
    BY <1>0, <2>1, HeadAndTail
  <2>3. t \in Seq(Items) /\ ToSet(t) = {x} /\ Once(t)
    BY <2>2, OnlyOne
  <2>4. fills' = fills \o t
    BY <1>0, <2>1, <2>2
  <2> HIDE DEF x, t, u
  <2>5. Joining(fills', fills, t)
    BY <1>0, <2>3, <2>4, Joined
  <2>6. ToSet(scan) = {x} \cup ToSet(u) /\ Once(u) /\ x \notin ToSet(u)
    BY <1>1, <2>2 DEF Split
  <2>7. ToSet(fills') = ToSet(fills) \cup {x}
    BY <2>3, <2>5 DEF Joining
  <2>8. Once(fills')
    <3>1. ToSet(fills) \cap ToSet(t) = {}
      BY <1>1, <2>3, <2>6
    <3> QED BY <1>1, <2>3, <2>5, <3>1 DEF Joining
  <2>9. ToSet(fills') \cap ToSet(u) = {} /\ ToSet(fills') \cup ToSet(u) = ToSet(fills) \cup ToSet(scan)
    BY <1>1, <2>6, <2>7
  <2>10. scan' = u
    BY <2>1 DEF u
  <2> QED BY <1>1, <2>1, <2>6, <2>8, <2>9, <2>10, PartedAfter DEF ids
<1>7. CASE PlanFill
  <2>1. PICK i, to : Filled(i, to)
    BY <1>7, FillMeans
  <2> DEFINE u == Tail(scan)  t == <<i>>  r == ItemsOf(entries')
  <2>2. scan # <<>> /\ i = Head(scan)
    BY <2>1 DEF Filled
  <2>3. i \in Items /\ u \in Seq(Items) /\ Split(scan, i, u)
    BY <1>0, <2>2, HeadAndTail
  <2> HIDE DEF u
  <2>4. ToSet(scan) = {i} \cup ToSet(u) /\ Once(u) /\ i \notin ToSet(u)
    BY <1>1, <2>3 DEF Split
  <2>5. t \in Seq(Items) /\ ToSet(t) = {i} /\ Len(t) = 1 /\ Once(t) /\ t[1] = i
    BY <2>3, OnlyOne
  <2> HIDE DEF t
  <2>6. Len(entries') = Len(entries) + 1 /\ \A k \in 1..Len(entries') : entries'[k].item \in Items
    BY <2>1, EntriesMean DEF Filled, Entries
  <2>7. r \in Seq(Items) /\ Len(r) = Len(ids) + Len(t)
    <3>1. Len(entries') \in Nat
      BY <1>2, <2>6
    <3> QED BY <1>2, <2>5, <2>6, <3>1, ItemsOfMeans
  <2>8. \A k \in 1..Len(ids) : r[k] = ids[k]
    <3> TAKE k \in 1..Len(ids)
    <3>1. k \in 1..Len(entries') /\ k \in 1..Len(entries)
      BY <1>2, <2>6
    <3>2. entries'[k] = entries[k]
      BY <2>1, <3>1 DEF Filled
    <3> QED BY <1>3, <3>1, <3>2 DEF ItemsOf
  <2>9. \A k \in 1..Len(t) : r[Len(ids) + k] = t[k]
    <3> TAKE k \in 1..Len(t)
    <3>1. k = 1 /\ Len(ids) + 1 \in 1..Len(entries') /\ Len(ids) = Len(entries)
      BY <1>2, <2>5, <2>6
    <3>2. entries'[Len(entries) + 1].item = i
      BY <2>1 DEF Filled, Entry
    <3> QED BY <2>5, <3>1, <3>2 DEF ItemsOf
  <2> HIDE DEF r
  <2>10. Joining(r, ids, t)
    BY <1>2, <2>5, <2>7, <2>8, <2>9, SameAsJoined
  <2>11. ToSet(r) = ToSet(ids) \cup {i} /\ Once(r)
    <3>1. ToSet(ids) \cap ToSet(t) = {}
      BY <1>1, <2>4, <2>5
    <3> QED BY <1>1, <2>5, <2>10, <3>1 DEF Joining
  <2>12. input' = input /\ at' = at /\ at = "fills" /\ reclaims' = reclaims
    BY <1>7 DEF PlanFill
  <2>13. /\ Once(fills') /\ Once(scan') /\ ToSet(fills') \cap ToSet(scan') = {}
         /\ ToSet(fills') \cup ToSet(scan') = ToSet(fills) \cup ToSet(u)
    <3>1. \/ scan' = <<>> /\ fills' = fills \o u
          \/ scan' = u /\ fills' = fills
      BY <2>1 DEF Filled, u
    <3>2. CASE scan' = <<>> /\ fills' = fills \o u
      <4>1. Joining(fills \o u, fills, u)
        BY <1>0, <2>3, Joined
      <4>2. ToSet(<<>>) = {} /\ Once(<<>>)
        BY DEF ToSet, Once
      <4>3. ToSet(fills) \cap ToSet(u) = {}
        BY <1>1, <2>4
      <4> QED BY <1>1, <2>4, <3>2, <4>1, <4>2, <4>3 DEF Joining
    <3>3. CASE scan' = u /\ fills' = fills
      BY <1>1, <2>4, <3>3
    <3> QED BY <3>1, <3>2, <3>3
  <2>14. i \notin reclaims /\ i \notin ToSet(fills) /\ i \in Leaving
    BY <1>0, <1>1, <2>4
  <2>15. ToSet(r) \cap (reclaims' \cup ToSet(fills') \cup ToSet(scan')) = {}
    BY <1>1, <2>4, <2>11, <2>12, <2>13, <2>14
  <2>16. ToSet(r) \cup reclaims' \cup ToSet(fills') \cup ToSet(scan') = Misplaced \cup Leaving
    BY <1>1, <2>4, <2>11, <2>12, <2>13, <2>14
  <2> QED BY <2>11, <2>12, <2>13, <2>15, <2>16, PartedAfter DEF r
<1>8. CASE EndRound
  <2>1. input' = input /\ scan' = scan /\ scan = <<>> /\ fills' = fills /\ reclaims' = reclaims /\ entries' = entries
    BY <1>8 DEF EndRound
  <2> QED BY <1>1, <2>1, PartedAfter DEF ids
<1>9. CASE UNCHANGED vars
  <2>1. input' = input /\ at' = at /\ scan' = scan /\ fills' = fills /\ reclaims' = reclaims /\ entries' = entries
    BY <1>9 DEF vars
  <2> QED BY <1>1, <2>1, PartedAfter DEF ids
<1> QED BY <1>4, <1>5, <1>6, <1>7, <1>8, <1>9 DEF Next

LEMMA PartedInvariant == Spec => []Parted
<1>1. Init => Parted
  BY InitParted
<1>2. Typed /\ Typed' /\ Parted /\ [Next]_vars => Parted'
  BY StepParted
<1> QED BY <1>1, <1>2, TypedHolds, PTL DEF Spec

LEMMA SizeOfBoth ==
  ASSUME NEW S, NEW T, IsFiniteSet(S), IsFiniteSet(T), S \cap T = {}
  PROVE  IsFiniteSet(S \cup T) /\ Cardinality(S \cup T) = Cardinality(S) + Cardinality(T)
<1>1. Cardinality(S \cap T) = 0 /\ Cardinality(S) \in Nat /\ Cardinality(T) \in Nat
  BY FS_EmptySet, FS_CardinalityType
<1>2. IsFiniteSet(S \cup T) /\ Cardinality(S \cup T) = Cardinality(S) + Cardinality(T) - Cardinality(S \cap T)
  BY FS_Union
<1> QED BY <1>1, <1>2

\* Each item that should move is planned once, is left over and warned about, or
\* is still to be looked at: nothing is planned twice, and nothing forgotten,
\* however the loop of planner.Build turns.
THEOREM NoneForgottenHolds == Spec => []NoneForgotten
<1>1. Typed /\ Parted => NoneForgotten
  <2> SUFFICES ASSUME Typed, Parted PROVE NoneForgotten
    OBVIOUS
  <2> DEFINE planned == {entries[k].item : k \in DOMAIN entries}
             P == Planned  F == ToSet(fills)  S == ToSet(scan)
  <2>1. /\ ItemsOf(entries) \in Seq(Items) /\ Len(ItemsOf(entries)) = Len(entries) /\ Len(entries) \in Nat
        /\ planned = P
    BY EntriesItems
  <2>2. /\ fills \in Seq(Items) /\ scan \in Seq(Items) /\ reclaims \subseteq Misplaced /\ IsFiniteSet(Misplaced)
        /\ F \subseteq Leaving /\ S \subseteq Leaving /\ Misplaced \cap Leaving = {}
    BY TypedMeans, CandidatesMean DEF Typed, Belong
  <2>3. /\ Once(ItemsOf(entries)) /\ Once(fills) /\ Once(scan)
        /\ F \cap S = {} /\ P \cap (reclaims \cup F \cup S) = {}
        /\ P \cup reclaims \cup F \cup S = Misplaced \cup Leaving
    BY DEF Parted
  <2>4. /\ IsFiniteSet(P) /\ Cardinality(P) = Len(entries)
        /\ IsFiniteSet(F) /\ Cardinality(F) = Len(fills)
        /\ IsFiniteSet(S) /\ Cardinality(S) = Len(scan)
        /\ IsFiniteSet(reclaims)
    BY <2>1, <2>2, <2>3, OnceSize, FS_Subset DEF Planned
  <2> HIDE DEF P, F, S, planned
  <2>5. IsFiniteSet(P \cup reclaims) /\ Cardinality(P \cup reclaims) = Len(entries) + Cardinality(reclaims)
    BY <2>3, <2>4, SizeOfBoth
  <2> DEFINE A == P \cup reclaims  B == A \cup F
  <2>6. IsFiniteSet(P \cup reclaims \cup F) /\ Cardinality(P \cup reclaims \cup F) = Len(entries) + Cardinality(reclaims) + Len(fills)
    <3>1. (P \cup reclaims) \cap F = {}
      BY <2>2, <2>3
    <3> HIDE DEF A
    <3>2. IsFiniteSet(A \cup F) /\ Cardinality(A \cup F) = Cardinality(A) + Cardinality(F)
      BY <2>4, <2>5, <3>1, SizeOfBoth DEF A
    <3> QED BY <2>4, <2>5, <3>2 DEF A
  <2>7. Cardinality(P \cup reclaims \cup F \cup S) = Len(entries) + Cardinality(reclaims) + Len(fills) + Len(scan)
    <3>1. (P \cup reclaims \cup F) \cap S = {}
      BY <2>2, <2>3
    <3> HIDE DEF B
    <3>2. Cardinality(B \cup S) = Cardinality(B) + Cardinality(S)
      BY <2>4, <2>6, <3>1, SizeOfBoth DEF B
    <3> QED BY <2>4, <2>6, <3>2 DEF B
  <2>8. P \cup reclaims \cup F \cup S = MisplacedOnCold(input.items) \cup ColdCandidates(input.items)
    BY <2>3 DEF Misplaced, Leaving
  <2> QED BY <2>1, <2>7, <2>8 DEF NoneForgotten, planned, F, S
<1> QED BY <1>1, TypedHolds, PartedInvariant, PTL

-----------------------------------------------------------------------------
(* What the entries bring to a path's drive, and take from it *)

SizesOf(s) == [k \in 1..Len(s) |-> Item(s[k].item).size]
Into(s, K, p) == {k \in K : SameVolume(s[k].to, p)}
Out(s, K, p) == {k \in K : SameVolume(s[k].from, p)}
Onto(s, K, p) == SumFunctionOnSet(SizesOf(s), Into(s, K, p))
Off(s, K, p) == SumFunctionOnSet(SizesOf(s), Out(s, K, p))

LEMMA SizesMean ==
  ASSUME Given, NEW s \in Seq(Entries), NEW K \in SUBSET (1..Len(s))
  PROVE  IsFiniteSet(K) /\ \A k \in K : SizesOf(s)[k] = Item(s[k].item).size /\ SizesOf(s)[k] \in Nat
<1>1. Len(s) \in Nat /\ \A k \in 1..Len(s) : s[k].item \in Items
  BY EntriesMean
<1>2. IsFiniteSet(1..Len(s))
  BY <1>1, FS_Interval
<1>3. IsFiniteSet(K)
  BY <1>2, FS_Subset
<1>4. \A k \in K : SizesOf(s)[k] = Item(s[k].item).size /\ Item(s[k].item).size \in Nat
  BY <1>1, GivenMeans DEF SizesOf, GivenItems
<1> QED BY <1>3, <1>4

LEMMA SumsMean ==
  ASSUME Given, NEW s \in Seq(Entries), NEW K \in SUBSET (1..Len(s)), NEW p
  PROVE  /\ Onto(s, K, p) \in Nat /\ Off(s, K, p) \in Nat
         /\ \A L \in SUBSET K : Onto(s, L, p) <= Onto(s, K, p) /\ Off(s, L, p) <= Off(s, K, p)
<1>1. /\ Into(s, K, p) \in SUBSET (1..Len(s)) /\ Out(s, K, p) \in SUBSET (1..Len(s))
      /\ \A L \in SUBSET K : Into(s, L, p) \in SUBSET Into(s, K, p) /\ Out(s, L, p) \in SUBSET Out(s, K, p)
  BY DEF Into, Out
<1> DEFINE I == Into(s, K, p)  O == Out(s, K, p)  f == SizesOf(s)
<1>2. /\ IsFiniteSet(I) /\ IsFiniteSet(O)
      /\ (\A k \in I : f[k] \in Nat) /\ (\A k \in O : f[k] \in Nat)
  BY <1>1, SizesMean
<1> HIDE DEF I, O, f
<1>3. SumFunctionOnSet(f, I) \in Nat /\ SumFunctionOnSet(f, O) \in Nat
  BY <1>2, SumType
<1>4. \A L \in SUBSET K : /\ SumFunctionOnSet(f, Into(s, L, p)) <= SumFunctionOnSet(f, I)
                          /\ SumFunctionOnSet(f, Out(s, L, p)) <= SumFunctionOnSet(f, O)
  <2> TAKE L \in SUBSET K
  <2>1. Into(s, L, p) \in SUBSET I /\ Out(s, L, p) \in SUBSET O
    BY <1>1 DEF I, O
  <2> QED BY <1>2, <2>1, SumOfMore
<1> QED BY <1>3, <1>4 DEF Onto, Off, I, O, f

\* The same entries bring and take the same.
LEMMA SumsSame ==
  ASSUME Given, NEW s \in Seq(Entries), NEW r \in Seq(Entries), NEW K \in SUBSET (1..Len(s)),
         K \subseteq 1..Len(r), \A k \in K : r[k] = s[k], NEW p
  PROVE  Onto(r, K, p) = Onto(s, K, p) /\ Off(r, K, p) = Off(s, K, p)
<1> DEFINE I == Into(s, K, p)  O == Out(s, K, p)
<1>1. Into(r, K, p) = I /\ Out(r, K, p) = O /\ I \in SUBSET K /\ O \in SUBSET K
  BY DEF Into, Out
<1> HIDE DEF I, O
<1>2. IsFiniteSet(K) /\ \A k \in K : SizesOf(r)[k] = SizesOf(s)[k]
  <2>1. IsFiniteSet(K) /\ \A k \in K : SizesOf(s)[k] = Item(s[k].item).size
    BY SizesMean
  <2>2. \A k \in K : SizesOf(r)[k] = Item(r[k].item).size
    BY SizesMean
  <2> QED BY <2>1, <2>2
<1>3. IsFiniteSet(I) /\ IsFiniteSet(O)
  BY <1>1, <1>2, FS_Subset
<1>4. SumFunctionOnSet(SizesOf(r), I) = SumFunctionOnSet(SizesOf(s), I)
  BY <1>1, <1>2, <1>3, SameSum
<1>5. SumFunctionOnSet(SizesOf(r), O) = SumFunctionOnSet(SizesOf(s), O)
  BY <1>1, <1>2, <1>3, SameSum
<1> QED BY <1>1, <1>4, <1>5 DEF Onto, Off, I, O

\* One entry more.
LEMMA SumsMore ==
  ASSUME Given, NEW s \in Seq(Entries), NEW K \in SUBSET (1..Len(s)), NEW j \in 1..Len(s), j \notin K, NEW p
  PROVE  /\ Onto(s, K \cup {j}, p) = Onto(s, K, p) + IF SameVolume(s[j].to, p) THEN Item(s[j].item).size ELSE 0
         /\ Off(s, K \cup {j}, p) = Off(s, K, p) + IF SameVolume(s[j].from, p) THEN Item(s[j].item).size ELSE 0
<1> DEFINE I == Into(s, K, p)  O == Out(s, K, p)  f == SizesOf(s)  z == Item(s[j].item).size
           I2 == Into(s, K \cup {j}, p)  O2 == Out(s, K \cup {j}, p)
<1>1. /\ I \in SUBSET (1..Len(s)) /\ O \in SUBSET (1..Len(s)) /\ I2 \in SUBSET (1..Len(s)) /\ O2 \in SUBSET (1..Len(s))
      /\ j \notin I /\ j \notin O
      /\ I2 = IF SameVolume(s[j].to, p) THEN I \cup {j} ELSE I
      /\ O2 = IF SameVolume(s[j].from, p) THEN O \cup {j} ELSE O
  BY DEF Into, Out
<1>2. f[j] = z
  <2>1. {j} \in SUBSET (1..Len(s))
    OBVIOUS
  <2> QED BY <2>1, SizesMean
<1>3. /\ IsFiniteSet(I2) /\ \A k \in I2 : f[k] \in Nat
      /\ IsFiniteSet(O2) /\ \A k \in O2 : f[k] \in Nat
  BY <1>1, SizesMean
<1>4. SumFunctionOnSet(f, I) \in Nat /\ SumFunctionOnSet(f, O) \in Nat
  BY SumsMean DEF Onto, Off
<1> HIDE DEF I, O, f, z, I2, O2
<1>5. SumFunctionOnSet(f, I2) = SumFunctionOnSet(f, I) + IF SameVolume(s[j].to, p) THEN z ELSE 0
  <2>1. CASE SameVolume(s[j].to, p)
    <3>1. j \in I2 /\ I2 \ {j} = I
      BY <1>1, <2>1
    <3>2. SumFunctionOnSet(f, I2) = f[j] + SumFunctionOnSet(f, I2 \ {j})
      BY <1>3, <3>1, SumWithout
    <3>3. z \in Nat
      BY <1>2, <1>3, <3>1
    <3>4. SumFunctionOnSet(f, I2) = z + SumFunctionOnSet(f, I)
      BY <1>2, <3>1, <3>2
    <3> QED BY <1>4, <2>1, <3>3, <3>4
  <2>2. CASE ~SameVolume(s[j].to, p)
    BY <1>1, <1>4, <2>2
  <2> QED BY <2>1, <2>2
<1>6. SumFunctionOnSet(f, O2) = SumFunctionOnSet(f, O) + IF SameVolume(s[j].from, p) THEN z ELSE 0
  <2>1. CASE SameVolume(s[j].from, p)
    <3>1. j \in O2 /\ O2 \ {j} = O
      BY <1>1, <2>1
    <3>2. SumFunctionOnSet(f, O2) = f[j] + SumFunctionOnSet(f, O2 \ {j})
      BY <1>3, <3>1, SumWithout
    <3>3. z \in Nat
      BY <1>2, <1>3, <3>1
    <3>4. SumFunctionOnSet(f, O2) = z + SumFunctionOnSet(f, O)
      BY <1>2, <3>1, <3>2
    <3> QED BY <1>4, <2>1, <3>3, <3>4
  <2>2. CASE ~SameVolume(s[j].from, p)
    BY <1>1, <1>4, <2>2
  <2> QED BY <2>1, <2>2
<1> QED BY <1>5, <1>6 DEF Onto, Off, I, O, f, z, I2, O2

\* A sum over what the members of K stand for, when no two stand for the same.
LEMMA SumOfImages ==
  ASSUME NEW K, IsFiniteSet(K), NEW f, NEW g, NEW h, \A k \in K : f[k] \in Nat /\ f[k] = g[h[k]],
         \A j, k \in K : h[j] = h[k] => j = k
  PROVE  IsFiniteSet({h[k] : k \in K}) /\ SumFunctionOnSet(f, K) = SumFunctionOnSet(g, {h[k] : k \in K})
<1> DEFINE Im(L) == {h[k] : k \in L}
           G == {L \in SUBSET K : IsFiniteSet(Im(L)) /\ SumFunctionOnSet(f, L) = SumFunctionOnSet(g, Im(L))}
<1>1. ASSUME NEW L \in SUBSET K, \A M \in SUBSET L : M # L => M \in G PROVE L \in G
  <2>1. CASE L = {}
    <3>1. Im(L) = {}
      BY <2>1
    <3> HIDE DEF Im
    <3> QED BY <2>1, <3>1, SumOfNone, FS_EmptySet
  <2>2. CASE L # {}
    <3>1. PICK x \in L : TRUE
      BY <2>2
    <3> DEFINE M == L \ {x}
    <3>2. IsFiniteSet(Im(M)) /\ SumFunctionOnSet(f, M) = SumFunctionOnSet(g, Im(M))
      <4>1. M \in SUBSET L /\ M # L
        BY <3>1
      <4>2. M \in G
        BY <1>1, <4>1
      <4> QED BY <4>2
    <3>3. Im(L) = Im(M) \cup {h[x]} /\ h[x] \in Im(L) /\ Im(L) \ {h[x]} = Im(M)
      <4>1. \A k \in M : h[k] # h[x]
        OBVIOUS
      <4>2. Im(L) = Im(M) \cup {h[x]}
        BY <3>1
      <4>3. h[x] \notin Im(M)
        BY <4>1
      <4> HIDE DEF Im
      <4> QED BY <4>2, <4>3
    <3>4. \A y \in Im(L) : g[y] \in Nat
      OBVIOUS
    <3> HIDE DEF Im, M
    <3>5. IsFiniteSet(Im(L))
      BY <3>2, <3>3, FS_AddElement
    <3>6. IsFiniteSet(L) /\ \A k \in L : f[k] \in Nat
      BY FS_Subset
    <3>7. SumFunctionOnSet(f, L) = f[x] + SumFunctionOnSet(f, M)
      BY <3>1, <3>6, SumWithout DEF M
    <3>8. SumFunctionOnSet(g, Im(L)) = g[h[x]] + SumFunctionOnSet(g, Im(L) \ {h[x]})
      BY <3>3, <3>4, <3>5, SumWithout
    <3>9. f[x] = g[h[x]]
      BY <3>1
    <3> QED BY <3>2, <3>3, <3>5, <3>7, <3>8, <3>9 DEF Im
  <2> QED BY <2>1, <2>2
<1>2. K \in G
  <2>1. G \subseteq SUBSET K
    OBVIOUS
  <2>2. \A L \in SUBSET K : (\A M \in SUBSET L : M # L => M \in G) => L \in G
    BY <1>1
  <2> HIDE DEF G
  <2> QED BY <2>1, <2>2, BySize
<1> QED BY <1>2

Moved(s) ==
  /\ \A j, k \in 1..Len(s) : s[j].item = s[k].item => j = k
  /\ \A k \in 1..Len(s) : s[k].from = Item(s[k].item).on

\* What is taken from a drive was on it, so it is not more than it holds.
LEMMA OffBounded ==
  ASSUME Given, Accounted(input), NEW s \in Seq(Entries), Moved(s), NEW p \in Usable,
         NEW K \in SUBSET (1..Len(s))
  PROVE  Off(s, K, p) <= input.usage[p].used
<1> DEFINE f == SizesOf(s)
           g == [i \in DOMAIN input.items |-> input.items[i].size]
           h == [k \in 1..Len(s) |-> s[k].item]
           there == {i \in DOMAIN input.items : input.volume[input.items[i].on] = input.volume[p]}
           O == Out(s, K, p)
           I == {h[k] : k \in O}
<1>1. SumFunctionOnSet(g, there) <= input.usage[p].used
  BY DEF Accounted, Usable
<1>2. O \in SUBSET (1..Len(s)) /\ \A k \in O : SameVolume(s[k].from, p)
  BY DEF Out
<1>3. \A k \in 1..Len(s) : s[k].item \in Items
  BY EntriesMean
<1>4. IsFiniteSet(O) /\ \A k \in O : f[k] = Item(s[k].item).size /\ f[k] \in Nat
  BY <1>2, SizesMean
<1>5. \A i \in Items : g[i] = Item(i).size /\ g[i] \in Nat
  BY GivenMeans DEF GivenItems, Items, Item
<1>6. \A k \in 1..Len(s) : h[k] = s[k].item
  OBVIOUS
<1>7. there \in SUBSET Items /\ IsFiniteSet(there) /\ I \in SUBSET there
  <2>1. there \in SUBSET Items
    BY DEF Items
  <2>2. \A k \in O : h[k] \in there
    <3> TAKE k \in O
    <3>1. h[k] = s[k].item /\ s[k].item \in Items /\ s[k].from = Item(s[k].item).on /\ SameVolume(s[k].from, p)
      BY <1>2, <1>3, <1>6 DEF Moved
    <3> QED BY <3>1 DEF Items, Item, SameVolume
  <2>3. IsFiniteSet(there)
    BY <2>1, GivenMeans, FS_Subset DEF GivenItems
  <2> HIDE DEF there
  <2> QED BY <2>1, <2>2, <2>3
<1> HIDE DEF there, O, f, g, h
<1>8. \A k \in O : f[k] \in Nat /\ f[k] = g[h[k]]
  BY <1>2, <1>3, <1>4, <1>5, <1>6
<1>9. \A j, k \in O : h[j] = h[k] => j = k
  BY <1>2, <1>6 DEF Moved
<1>10. SumFunctionOnSet(f, O) = SumFunctionOnSet(g, I)
  BY <1>4, <1>8, <1>9, SumOfImages
<1>11. \A i \in there : g[i] \in Nat
  BY <1>5, <1>7
<1> HIDE DEF I
<1>12. SumFunctionOnSet(g, I) <= SumFunctionOnSet(g, there)
  BY <1>7, <1>11, SumOfMore
<1>13. SumFunctionOnSet(g, I) \in Nat /\ SumFunctionOnSet(g, there) \in Nat /\ input.usage[p].used \in Nat
  <2>1. input.usage[p] \in Reading
    BY GivenMeans DEF GivenPlaces, Usages
  <2>2. IsFiniteSet(I) /\ \A i \in I : g[i] \in Nat
    BY <1>7, <1>11, FS_Subset
  <2> QED BY <1>7, <1>11, <2>1, <2>2, SumType DEF Reading
<1> QED BY <1>1, <1>10, <1>12, <1>13 DEF Off, O, f

-----------------------------------------------------------------------------
(* Usage is what the drives held, with what was written and less what was freed *)

\* With d more on it: what is free is no less, and just that if evenly read.
Balance(usage, p, d) ==
  /\ usage[p].total = input.usage[p].total
  /\ usage[p].used = input.usage[p].used + d
  /\ usage[p].free >= input.usage[p].free - d
  /\ EvenlyRead(p) => usage[p].free = input.usage[p].free - d

\* Usage with the entries in K written and those in L freed.
Holding(usage, s, K, L) == \A p \in Usable : Balance(usage, p, Onto(s, K, p) - Off(s, L, p))

LEMMA Balanced ==
  ASSUME NEW a \in Nat, NEW b \in Nat, NEW c \in Nat, NEW e \in Nat, NEW d \in Int, NEW z \in Nat,
         a = c + d, b = e - d, z <= b
  PROVE  a + b = c + e /\ a + z = c + (d + z) /\ d + z <= e
OBVIOUS

LEMMA Lower ==
  ASSUME NEW a \in Nat, NEW c \in Nat, NEW m \in Nat, NEW n \in Nat, NEW z \in Nat, m <= n
  PROVE  z <= a - (c - m) => z <= a - (c - n)
OBVIOUS

LEMMA Enough ==
  ASSUME NEW v \in Nat, NEW m \in Nat, NEW n \in Nat, NEW z \in Nat, m + z <= v
  PROVE  v + (n - m) - z >= 0
OBVIOUS

LEMMA Written1 ==
  ASSUME Given, NEW usage \in Usages, NEW p \in Usable, NEW d \in Int, NEW z \in Nat, Balance(usage, p, d),
         NEW q, EvenlyRead(p) /\ SameVolume(p, q) => z <= usage[p].free
  PROVE  Balance(Apply(usage, q, z), p, d + IF SameVolume(p, q) THEN z ELSE 0)
<1> DEFINE after == Apply(usage, q, z)
<1>0. z \in Int /\ usage[p] \in Reading /\ input.usage[p] \in Reading
  BY GivenMeans DEF GivenPlaces, Usages
<1>1. after[p] = IF SameVolume(p, q) THEN Plus(usage[p], z) ELSE usage[p]
  BY <1>0, ApplyType
<1>2. /\ usage[p].used \in Nat /\ usage[p].free \in Nat /\ usage[p].total \in Nat
      /\ input.usage[p].used \in Nat /\ input.usage[p].free \in Nat
  BY <1>0 DEF Reading
<1>3. /\ usage[p].total = input.usage[p].total /\ usage[p].used = input.usage[p].used + d
      /\ usage[p].free >= input.usage[p].free - d
      /\ EvenlyRead(p) => usage[p].free = input.usage[p].free - d
  BY DEF Balance
<1>4. /\ Plus(usage[p], z).total = usage[p].total
      /\ Plus(usage[p], z).used = AtLeast0(usage[p].used + z)
      /\ Plus(usage[p], z).free = AtLeast0(usage[p].free - z)
  BY <1>0, PlusType
<1>5. Plus(usage[p], z).used = usage[p].used + z
  BY <1>2, <1>4 DEF AtLeast0
<1>6. /\ Plus(usage[p], z).free >= usage[p].free - z
      /\ z <= usage[p].free => Plus(usage[p], z).free = usage[p].free - z
  BY <1>2, <1>4 DEF AtLeast0
<1>7. Plus(usage[p], z).free \in Nat
  BY <1>0, PlusType DEF Reading
<1> HIDE DEF after
<1>8. CASE SameVolume(p, q)
  <2>1. /\ after[p].total = input.usage[p].total
        /\ after[p].used = input.usage[p].used + (d + z)
        /\ after[p].free >= input.usage[p].free - (d + z)
    BY <1>1, <1>2, <1>3, <1>4, <1>5, <1>6, <1>7, <1>8
  <2>2. EvenlyRead(p) => after[p].free = input.usage[p].free - (d + z)
    BY <1>1, <1>2, <1>3, <1>6, <1>8
  <2> QED BY <1>8, <2>1, <2>2 DEF Balance, after
<1>9. CASE ~SameVolume(p, q)
  <2>1. after[p] = usage[p] /\ d + 0 = d
    BY <1>1, <1>9
  <2> QED BY <1>3, <1>9, <2>1 DEF Balance, after
<1> QED BY <1>8, <1>9

LEMMA Freed1 ==
  ASSUME Given, NEW usage \in Usages, NEW p \in Usable, NEW d \in Int, NEW z \in Nat, Balance(usage, p, d),
         NEW q, SameVolume(p, q) => input.usage[p].used + d - z >= 0
  PROVE  Balance(Apply(usage, q, -z), p, d - IF SameVolume(p, q) THEN z ELSE 0)
<1> DEFINE after == Apply(usage, q, -z)
<1>0. -z \in Int /\ usage[p] \in Reading /\ input.usage[p] \in Reading
  BY GivenMeans DEF GivenPlaces, Usages
<1>1. after[p] = IF SameVolume(p, q) THEN Plus(usage[p], -z) ELSE usage[p]
  BY <1>0, ApplyType
<1>2. /\ usage[p].used \in Nat /\ usage[p].free \in Nat /\ usage[p].total \in Nat
      /\ input.usage[p].used \in Nat /\ input.usage[p].free \in Nat
  BY <1>0 DEF Reading
<1>3. /\ usage[p].total = input.usage[p].total /\ usage[p].used = input.usage[p].used + d
      /\ usage[p].free >= input.usage[p].free - d
      /\ EvenlyRead(p) => usage[p].free = input.usage[p].free - d
  BY DEF Balance
<1>4. /\ Plus(usage[p], -z).total = usage[p].total
      /\ Plus(usage[p], -z).used = AtLeast0(usage[p].used + (-z))
      /\ Plus(usage[p], -z).free = AtLeast0(usage[p].free - (-z))
  BY <1>0, PlusType
<1>5. Plus(usage[p], -z).free = usage[p].free + z
  BY <1>2, <1>4 DEF AtLeast0
<1> HIDE DEF after
<1>6. CASE SameVolume(p, q)
  <2>1. Plus(usage[p], -z).used = input.usage[p].used + (d - z)
    BY <1>2, <1>3, <1>4, <1>6 DEF AtLeast0
  <2>2. /\ after[p].total = input.usage[p].total
        /\ after[p].used = input.usage[p].used + (d - z)
        /\ after[p].free >= input.usage[p].free - (d - z)
    BY <1>1, <1>2, <1>3, <1>4, <1>5, <1>6, <2>1
  <2>3. EvenlyRead(p) => after[p].free = input.usage[p].free - (d - z)
    BY <1>1, <1>2, <1>3, <1>5, <1>6
  <2> QED BY <1>6, <2>2, <2>3 DEF Balance, after
<1>7. CASE ~SameVolume(p, q)
  <2>1. after[p] = usage[p] /\ d - 0 = d
    BY <1>1, <1>7
  <2> QED BY <1>3, <1>7, <2>1 DEF Balance, after
<1> QED BY <1>6, <1>7

\* The paths of an evenly read drive have as much left.
LEMMA AsMuchLeft ==
  ASSUME Given, NEW s, NEW K, NEW L, NEW usage, Holding(usage, s, K, L),
         NEW p \in Usable, NEW q \in Usable, EvenlyRead(p), SameVolume(p, q)
  PROVE  usage[q].free = usage[p].free /\ EvenlyRead(q) /\ SameVolume(q, p) /\ input.usage[q] = input.usage[p]
<1>1. input.usage[q] = input.usage[p] /\ SameVolume(q, p) /\ \A r : SameVolume(r, p) <=> SameVolume(r, q)
  BY DEF EvenlyRead, SameVolume
<1>2. EvenlyRead(q)
  BY <1>1 DEF EvenlyRead, SameVolume
<1>3. Into(s, K, p) = Into(s, K, q) /\ Out(s, L, p) = Out(s, L, q)
  BY <1>1 DEF Into, Out
<1>4. Onto(s, K, p) = Onto(s, K, q) /\ Off(s, L, p) = Off(s, L, q)
  BY <1>3 DEF Onto, Off
<1>5. usage[p].free = input.usage[p].free - (Onto(s, K, p) - Off(s, L, p))
  BY DEF Holding, Balance
<1>6. usage[q].free = input.usage[q].free - (Onto(s, K, q) - Off(s, L, q))
  BY <1>2 DEF Holding, Balance
<1> QED BY <1>1, <1>2, <1>4, <1>5, <1>6

\* An entry that has room where it goes, with K written and only L freed: written,
\* and written and freed where all of K is.
LEMMA EntryHolds ==
  ASSUME Given, Accounted(input), NEW s \in Seq(Entries), Moved(s),
         NEW K \in SUBSET (1..Len(s)), NEW L \in SUBSET K, NEW j \in 1..Len(s), j \notin K,
         NEW low \in Usages, NEW usage \in Usages, Holding(low, s, K, L), Holding(usage, s, K, K),
         NEW z, z = Item(s[j].item).size, z <= low[s[j].to].free
  PROVE  /\ Holding(Apply(low, s[j].to, z), s, K \cup {j}, L)
         /\ Holding(Move(usage, s[j].from, s[j].to, z), s, K \cup {j}, K \cup {j})
<1> DEFINE to == s[j].to  from == s[j].from  J == K \cup {j}  freed == Apply(usage, from, -z)
<1>0. /\ to \in Usable /\ from \in Usable /\ z \in Nat /\ -z \in Int /\ J \in SUBSET (1..Len(s))
      /\ L \in SUBSET (1..Len(s)) /\ freed \in Usages
  <2>1. to \in Usable /\ from \in Usable /\ s[j].item \in Items
    BY EntriesMean
  <2>2. z \in Nat
    BY <2>1, GivenMeans DEF GivenItems
  <2>3. -z \in Int
    BY <2>2
  <2> QED BY <2>1, <2>2, <2>3, ApplyType
<1>1. \A p \in Usable : /\ Onto(s, K, p) \in Nat /\ Off(s, K, p) \in Nat /\ Off(s, L, p) \in Nat
                        /\ Off(s, L, p) <= Off(s, K, p)
                        /\ Onto(s, J, p) = Onto(s, K, p) + (IF SameVolume(to, p) THEN z ELSE 0)
                        /\ Off(s, J, p) = Off(s, K, p) + (IF SameVolume(from, p) THEN z ELSE 0)
  <2> TAKE p \in Usable
  <2>1. /\ Onto(s, K, p) \in Nat /\ Off(s, K, p) \in Nat
        /\ \A M \in SUBSET K : Onto(s, M, p) <= Onto(s, K, p) /\ Off(s, M, p) <= Off(s, K, p)
    BY SumsMean
  <2>2. Off(s, L, p) \in Nat
    BY <1>0, SumsMean
  <2>3. Off(s, L, p) <= Off(s, K, p)
    BY <2>1
  <2>4. /\ Onto(s, J, p) = Onto(s, K, p) + IF SameVolume(to, p) THEN z ELSE 0
        /\ Off(s, J, p) = Off(s, K, p) + IF SameVolume(from, p) THEN z ELSE 0
    BY SumsMore, SMTT(30)
  <2> HIDE DEF to, from, J
  <2> QED BY <2>1, <2>2, <2>3, <2>4
<1>2. \A p, q : SameVolume(p, q) <=> SameVolume(q, p)
  BY DEF SameVolume
<1>3. \A p \in Usable : Balance(low, p, Onto(s, K, p) - Off(s, L, p)) /\ Balance(usage, p, Onto(s, K, p) - Off(s, K, p))
  BY DEF Holding
<1> HIDE DEF to, from, J, freed
<1>4. ASSUME NEW p \in Usable PROVE Balance(Apply(low, to, z), p, Onto(s, J, p) - Off(s, L, p))
  <2> DEFINE d == Onto(s, K, p) - Off(s, L, p)
  <2>1. EvenlyRead(p) /\ SameVolume(p, to) => z <= low[p].free
    <3> SUFFICES ASSUME EvenlyRead(p), SameVolume(p, to) PROVE z <= low[p].free
      OBVIOUS
    <3>1. low[to].free = low[p].free
      BY <1>0, AsMuchLeft
    <3> QED BY <3>1 DEF to
  <2>2. d \in Int /\ Balance(low, p, d)
    BY <1>1, <1>3
  <2>3. Onto(s, J, p) - Off(s, L, p) = d + IF SameVolume(p, to) THEN z ELSE 0
    <3>1. CASE SameVolume(p, to)
      BY <1>0, <1>1, <1>2, <3>1
    <3>2. CASE ~SameVolume(p, to)
      BY <1>0, <1>1, <1>2, <3>2
    <3> QED BY <3>1, <3>2
  <2> HIDE DEF d
  <2>4. Balance(Apply(low, to, z), p, d + IF SameVolume(p, to) THEN z ELSE 0)
    BY <1>0, <2>1, <2>2, Written1
  <2> QED BY <2>3, <2>4
<1>5. ASSUME NEW p \in Usable PROVE Balance(freed, p, Onto(s, K, p) - Off(s, J, p))
  <2> DEFINE d == Onto(s, K, p) - Off(s, K, p)  v == input.usage[p].used
  <2>1. d \in Int /\ Balance(usage, p, d)
    BY <1>1, <1>3
  <2>2. Onto(s, K, p) - Off(s, J, p) = d - IF SameVolume(p, from) THEN z ELSE 0
    <3>1. CASE SameVolume(p, from)
      BY <1>0, <1>1, <1>2, <3>1
    <3>2. CASE ~SameVolume(p, from)
      BY <1>0, <1>1, <1>2, <3>2
    <3> QED BY <3>1, <3>2
  <2>3. Off(s, J, p) <= v /\ v \in Nat
    <3>1. input.usage[p] \in Reading
      BY GivenMeans DEF GivenPlaces, Usages
    <3> QED BY <1>0, <3>1, OffBounded DEF Reading
  <2>4. SameVolume(p, from) => v + d - z >= 0
    <3> SUFFICES ASSUME SameVolume(p, from) PROVE v + d - z >= 0
      OBVIOUS
    <3>1. Off(s, J, p) = Off(s, K, p) + z
      BY <1>1, <1>2
    <3>2. Off(s, K, p) + z <= v /\ v \in Nat
      BY <2>3, <3>1
    <3>3. Off(s, K, p) \in Nat /\ Onto(s, K, p) \in Nat /\ z \in Nat
      BY <1>0, <1>1
    <3> HIDE DEF v
    <3> QED BY <3>2, <3>3, Enough
  <2> HIDE DEF d
  <2>5. Balance(Apply(usage, from, -z), p, d - IF SameVolume(p, from) THEN z ELSE 0)
    BY <1>0, <2>1, <2>4, Freed1
  <2> QED BY <2>2, <2>5 DEF freed
<1>6. ASSUME NEW p \in Usable PROVE Balance(Apply(freed, to, z), p, Onto(s, J, p) - Off(s, J, p))
  <2> DEFINE d == Onto(s, K, p) - Off(s, J, p)
  <2>1. d \in Int /\ Balance(freed, p, d)
    <3>1. Off(s, J, p) \in Nat
      BY <1>0, SumsMean
    <3> QED BY <1>1, <1>5, <3>1
  <2>2. EvenlyRead(p) /\ SameVolume(p, to) => z <= freed[p].free
    <3> SUFFICES ASSUME EvenlyRead(p), SameVolume(p, to) PROVE z <= freed[p].free
      OBVIOUS
    <3>1. low[to].free = low[p].free
      BY <1>0, AsMuchLeft
    <3>2. low[p].free = input.usage[p].free - (Onto(s, K, p) - Off(s, L, p))
      BY <1>3 DEF Balance
    <3>3. freed[p].free = input.usage[p].free - (Onto(s, K, p) - Off(s, J, p))
      BY <1>5 DEF Balance
    <3>4. Off(s, L, p) <= Off(s, J, p) /\ Off(s, J, p) \in Nat /\ Off(s, L, p) \in Nat /\ Onto(s, K, p) \in Nat
      <4>1. L \in SUBSET J
        BY DEF J
      <4> QED BY <1>0, <1>1, <4>1, SumsMean
    <3>5. input.usage[p].free \in Nat /\ low[to].free \in Nat
      <4>1. input.usage[p] \in Reading /\ low[to] \in Reading
        BY <1>0, GivenMeans DEF GivenPlaces, Usages
      <4> QED BY <4>1 DEF Reading
    <3>6. z <= low[to].free
      BY DEF to
    <3>7. z <= input.usage[p].free - (Onto(s, K, p) - Off(s, L, p))
      BY <3>1, <3>2, <3>6
    <3>8. z \in Nat
      BY <1>0
    <3>9. z <= input.usage[p].free - (Onto(s, K, p) - Off(s, J, p))
      BY <3>4, <3>5, <3>7, <3>8, Lower
    <3> QED BY <3>3, <3>9
  <2>3. Onto(s, J, p) - Off(s, J, p) = d + IF SameVolume(p, to) THEN z ELSE 0
    <3>0. Off(s, J, p) \in Nat
      BY <1>0, SumsMean
    <3>1. CASE SameVolume(p, to)
      BY <1>0, <1>1, <1>2, <3>0, <3>1
    <3>2. CASE ~SameVolume(p, to)
      BY <1>0, <1>1, <1>2, <3>0, <3>2
    <3> QED BY <3>1, <3>2
  <2> HIDE DEF d
  <2>4. Balance(Apply(freed, to, z), p, d + IF SameVolume(p, to) THEN z ELSE 0)
    BY <1>0, <2>1, <2>2, Written1
  <2> QED BY <2>3, <2>4
<1>7. Holding(Apply(low, to, z), s, J, L)
  BY <1>4 DEF Holding
<1>8. Holding(Apply(freed, to, z), s, J, J)
  BY <1>6 DEF Holding
<1> QED BY <1>7, <1>8 DEF Move, freed, to, from, J

\* It stays within its destination's ceiling.
LEMMA EntryFits ==
  ASSUME Given, NEW s \in Seq(Entries), NEW K \in SUBSET (1..Len(s)), NEW L \in SUBSET K, NEW j \in 1..Len(s), j \notin K,
         NEW low \in Usages, Holding(low, s, K, L), EvenlyRead(s[j].to),
         Holds(low[s[j].to], Item(s[j].item).size, Place(s[j].to).max)
  PROVE  LET to == s[j].to
             growth == Onto(s, K \cup {j}, to) - Off(s, L, to)
         IN /\ growth <= input.usage[to].free
            /\ 100 * (input.usage[to].used + growth) <= Place(to).max * (input.usage[to].used + input.usage[to].free)
<1> DEFINE to == s[j].to  z == Item(s[j].item).size  u == low[to]  v == input.usage[to]
           d == Onto(s, K, to) - Off(s, L, to)
<1>0. to \in Usable /\ z \in Nat /\ L \in SUBSET (1..Len(s)) /\ Place(to).max \in Nat
  <2>1. to \in Usable /\ s[j].item \in Items
    BY EntriesMean
  <2> QED BY <2>1, GivenMeans DEF GivenItems, GivenPlaces
<1>1. u \in Reading /\ v \in Reading
  BY <1>0, GivenMeans DEF GivenPlaces, Usages
<1>2. u.used \in Nat /\ u.free \in Nat /\ v.used \in Nat /\ v.free \in Nat
  BY <1>1 DEF Reading
<1>3. z <= u.free /\ 100 * (u.used + z) <= Place(to).max * (u.used + u.free)
  <2> HIDE DEF u
  <2> QED BY <1>0, <1>1, HoldsMeans DEF u
<1>4. d \in Int /\ Onto(s, K \cup {j}, to) - Off(s, L, to) = d + z
  <2>1. Onto(s, K, to) \in Nat /\ Off(s, L, to) \in Nat
    BY <1>0, SumsMean
  <2>2. SameVolume(to, to) /\ Onto(s, K \cup {j}, to) = Onto(s, K, to) + z
    BY SumsMore DEF SameVolume
  <2> QED BY <1>0, <2>1, <2>2
<1>5. u.used = v.used + d /\ u.free = v.free - d
  BY <1>0 DEF Holding, Balance
<1>6. u.used + u.free = v.used + v.free /\ u.used + z = v.used + (d + z) /\ d + z <= v.free
  <2> HIDE DEF u, v, d, z
  <2>1. z \in Nat /\ z <= u.free /\ d \in Int
    BY <1>0, <1>3, <1>4
  <2> DEFINE a == u.used  b == u.free  c == v.used  e == v.free
  <2>2. a \in Nat /\ b \in Nat /\ c \in Nat /\ e \in Nat
    BY <1>2
  <2>3. a = c + d /\ b = e - d /\ z <= b
    BY <1>5, <2>1
  <2> HIDE DEF a, b, c, e
  <2>4. a + b = c + e /\ a + z = c + (d + z) /\ d + z <= e
    BY <2>1, <2>2, <2>3, Balanced
  <2> QED BY <2>4 DEF a, b, c, e
<1> QED BY <1>3, <1>4, <1>6

-----------------------------------------------------------------------------
(* No phase spends what it only promises to free *)

Earlier(s, n) == {k \in 1..Len(s) : s[k].phase < n}

\* PhaseFits for the j-th entry.
Fits(s, j) ==
  LET to == s[j].to
      earlier == Earlier(s, s[j].phase)
      growth == Onto(s, earlier \cup 1..j, to) - Off(s, earlier, to)
      start == input.usage[to]
  IN EvenlyRead(to) => /\ growth <= start.free
                       /\ 100 * (start.used + growth) <= Place(to).max * (start.used + start.free)

Extends(r, s) == Len(s) <= Len(r) /\ \A k \in 1..Len(s) : r[k] = s[k]

LEMMA HoldingStill ==
  ASSUME Given, NEW s \in Seq(Entries), NEW r \in Seq(Entries), Extends(r, s),
         NEW K \in SUBSET (1..Len(s)), NEW L \in SUBSET (1..Len(s)), NEW usage, Holding(usage, s, K, L)
  PROVE  Holding(usage, r, K, L)
<1>1. /\ Len(s) \in Nat /\ Len(r) \in Nat
      /\ K \subseteq 1..Len(r) /\ L \subseteq 1..Len(r) /\ (\A k \in K : r[k] = s[k]) /\ (\A k \in L : r[k] = s[k])
  <2>1. Len(s) \in Nat /\ Len(r) \in Nat
    BY EntriesMean
  <2> QED BY <2>1 DEF Extends
<1>2. \A p : Onto(r, K, p) = Onto(s, K, p) /\ Off(r, L, p) = Off(s, L, p)
  BY <1>1, SumsSame
<1> QED BY <1>2 DEF Holding

LEMMA FitsStill ==
  ASSUME Given, NEW s \in Seq(Entries), NEW r \in Seq(Entries), Extends(r, s),
         NEW j \in 1..Len(s), Fits(s, j), \A k \in 1..Len(r) : k > Len(s) => s[j].phase <= r[k].phase
  PROVE  Fits(r, j)
<1> DEFINE to == s[j].to  L == Earlier(s, s[j].phase)  K == L \cup 1..j
<1>1. Len(s) \in Nat /\ Len(r) \in Nat /\ r[j] = s[j] /\ \A k \in 1..Len(r) : r[k].phase \in Nat
  BY EntriesMean DEF Extends
<1>2. L \in SUBSET (1..Len(s)) /\ K \in SUBSET (1..Len(s))
  BY <1>1 DEF Earlier
<1>3. Earlier(r, r[j].phase) = L
  <2>1. \A k \in 1..Len(r) : r[k].phase < s[j].phase => k \in 1..Len(s)
    BY <1>1, SMTT(30)
  <2>2. 1..Len(s) \subseteq 1..Len(r) /\ \A k \in 1..Len(s) : r[k].phase = s[k].phase
    BY <1>1 DEF Extends
  <2> QED BY <1>1, <2>1, <2>2 DEF Earlier
<1> HIDE DEF K, L
<1>4. /\ K \subseteq 1..Len(r) /\ L \subseteq 1..Len(r) /\ (\A k \in K : r[k] = s[k]) /\ (\A k \in L : r[k] = s[k])
  BY <1>1, <1>2 DEF Extends
<1>5. Onto(r, K, to) = Onto(s, K, to) /\ Off(r, L, to) = Off(s, L, to)
  BY <1>2, <1>4, SumsSame
<1> QED BY <1>1, <1>3, <1>5 DEF Fits, K, L

LEMMA NextFits ==
  ASSUME Given, Accounted(input), NEW s \in Seq(Entries), Moved(s), NEW j \in 1..Len(s), NEW L,
         L = Earlier(s, s[j].phase), L \subseteq 1..j - 1,
         NEW low \in Usages, NEW usage \in Usages,
         Holding(low, s, 1..j - 1, L), Holding(usage, s, 1..j - 1, 1..j - 1),
         Holds(low[s[j].to], Item(s[j].item).size, Place(s[j].to).max)
  PROVE  /\ Fits(s, j)
         /\ Holding(Apply(low, s[j].to, Item(s[j].item).size), s, 1..j, L)
         /\ Holding(Move(usage, s[j].from, s[j].to, Item(s[j].item).size), s, 1..j, 1..j)
<1> DEFINE K == 1..j - 1  to == s[j].to  z == Item(s[j].item).size
<1>1. Len(s) \in Nat /\ to \in Usable /\ z \in Nat /\ Place(to).max \in Nat
  BY EntriesMean, GivenMeans DEF GivenItems, GivenPlaces
<1>2. /\ K \in SUBSET (1..Len(s)) /\ L \in SUBSET K /\ j \notin K /\ K \cup {j} = 1..j
      /\ L \cup 1..j = 1..j
  BY <1>1
<1>3. z <= low[to].free
  <2>1. low[to] \in Reading
    BY <1>1 DEF Usages
  <2> QED BY <1>1, <2>1, HoldsMeans
<1>4. EvenlyRead(to) =>
        LET growth == Onto(s, K \cup {j}, to) - Off(s, L, to)
        IN /\ growth <= input.usage[to].free
           /\ 100 * (input.usage[to].used + growth) <= Place(to).max * (input.usage[to].used + input.usage[to].free)
  <2> HIDE DEF K
  <2> QED BY <1>2, EntryFits DEF K
<1>5. Fits(s, j)
  BY <1>2, <1>4 DEF Fits
<1>6. Holding(Apply(low, to, z), s, K \cup {j}, L) /\ Holding(Move(usage, s[j].from, to, z), s, K \cup {j}, K \cup {j})
  <2> HIDE DEF K
  <2> QED BY <1>2, <1>3, EntryHolds DEF K
<1> QED BY <1>2, <1>5, <1>6

Phased ==
  \A k \in 1..Len(entries) : /\ entries[k].phase <= phase
                             /\ at # "fills" \/ ~moved.fills => entries[k].phase < phase

Accounts ==
  /\ Accounted(input)
  /\ Phased
  /\ Holding(working, entries, 1..Len(entries), 1..Len(entries))
  /\ at = "fills" => Holding(capacity, entries, 1..Len(entries), Earlier(entries, phase))
  /\ \A j \in 1..Len(entries) : Fits(entries, j)

LEMMA EntriesMoved == Typed /\ Parted => Moved(entries)
<1> SUFFICES ASSUME Typed, Parted PROVE Moved(entries)
  OBVIOUS
<1>1. Len(ItemsOf(entries)) = Len(entries) /\ Once(ItemsOf(entries)) /\ Len(entries) \in Nat
  BY EntriesItems DEF Parted
<1>2. \A k \in 1..Len(entries) : ItemsOf(entries)[k] = entries[k].item
  BY DEF ItemsOf
<1>3. \A k \in 1..Len(entries) : entries[k].from = Item(entries[k].item).on
  BY DEF Typed, Belong, Heading
<1>4. \A j, k \in 1..Len(entries) : entries[j].item = entries[k].item => j = k
  <2> DEFINE t == ItemsOf(entries)
  <2>1. \A j, k \in 1..Len(t) : t[j] = t[k] => j = k
    BY <1>1 DEF Once
  <2> HIDE DEF t
  <2> QED BY <1>1, <1>2, <2>1 DEF t
<1> QED BY <1>3, <1>4 DEF Moved

LEMMA InitAccounts == Init => Accounts
<1> SUFFICES ASSUME Init PROVE Accounts
  OBVIOUS
<1>1. /\ Given /\ Accounted(input) /\ at = "reclaims" /\ working = input.usage /\ entries = <<>>
  BY DEF Init, Given
<1>2. Len(entries) = 0 /\ 1..Len(entries) = {} /\ entries \in Seq(Entries)
  BY <1>1
<1>3. Holding(working, entries, {}, {})
  <2>1. \A p : Onto(entries, {}, p) = 0 /\ Off(entries, {}, p) = 0
    <3>1. \A p : Into(entries, {}, p) = {} /\ Out(entries, {}, p) = {}
      BY DEF Into, Out
    <3> QED BY <3>1, SumOfNone DEF Onto, Off
  <2>2. \A p \in Usable : input.usage[p] \in Reading
    BY <1>1, GivenMeans DEF GivenPlaces, Usages
  <2>3. \A p \in Usable : input.usage[p].used \in Nat /\ input.usage[p].free \in Nat
    BY <2>2 DEF Reading
  <2>4. ASSUME NEW p \in Usable PROVE Balance(working, p, Onto(entries, {}, p) - Off(entries, {}, p))
    <3>1. Onto(entries, {}, p) - Off(entries, {}, p) = 0
      BY <2>1
    <3>2. Balance(working, p, 0)
      BY <1>1, <2>3 DEF Balance
    <3> QED BY <3>1, <3>2
  <2> QED BY <2>4 DEF Holding
<1> QED BY <1>1, <1>2, <1>3 DEF Accounts, Phased

LEMMA AccountsAfter ==
  ASSUME input' = input, Accounted(input),
         \A k \in 1..Len(entries') : /\ entries'[k].phase <= phase'
                                     /\ at' # "fills" \/ ~moved'.fills => entries'[k].phase < phase',
         Holding(working', entries', 1..Len(entries'), 1..Len(entries')),
         at' = "fills" => Holding(capacity', entries', 1..Len(entries'), Earlier(entries', phase')),
         \A j \in 1..Len(entries') : Fits(entries', j)
  PROVE  Accounts'
<1>1. Accounted(input)' /\ Phased'
  BY DEF Phased
<1>2. SizesOf(entries)' = SizesOf(entries')
  BY DEF SizesOf, Item
<1>3. Holding(working, entries, 1..Len(entries), 1..Len(entries))'
  BY <1>2 DEF Holding, Balance, Onto, Off, Into, Out, SameVolume, Usable, EvenlyRead
<1>4. (at = "fills" => Holding(capacity, entries, 1..Len(entries), Earlier(entries, phase)))'
  BY <1>2, SMTT(30) DEF Holding, Balance, Onto, Off, Into, Out, SameVolume, Usable, EvenlyRead, Earlier
<1>5. (\A j \in 1..Len(entries) : Fits(entries, j))'
  BY <1>2 DEF Fits, Onto, Off, Into, Out, SameVolume, Usable, EvenlyRead, Earlier, Place
<1> QED BY <1>1, <1>3, <1>4, <1>5 DEF Accounts

\* Every reclaim of a phase has its room before any of the phase's sources is freed.
LEMMA ReclaimsFit ==
  ASSUME Typed, Typed', Moved(entries)', Accounts, NEW node, Attempted(node), at = "reclaims", input' = input
  PROVE  /\ \A j \in 1..Len(entries') : Fits(entries', j)
         /\ Holding(working', entries', 1..Len(entries'), 1..Len(entries'))
<1> DEFINE s == node.placed  r == entries'  m == Len(entries)  n == Len(s)
<1>0. /\ Given /\ working \in Usages /\ phase \in Nat /\ entries \in Seq(Entries) /\ r \in Seq(Entries)
      /\ s \in Seq(Items \X Usable)
  BY TypedMeans DEF Entries, Attempted, Seatings, Nodes
<1>1. /\ n \in Nat /\ m \in Nat /\ Len(r) = m + n /\ Extends(r, entries)
      /\ \A k \in 1..n : r[m + k] = Entry(s[k], phase)
      /\ working' = FoldLeft(Reclaimed, working, s)
  BY <1>0, EntriesMean DEF Attempted, Extends
<1>2. PICK h : Seats(h, s, working)
  BY DEF Attempted, Seatings
<1>3. PICK g : ReclaimSteps(g, s, working)
  BY <1>0, FoldReclaimed
<1>4. Moved(r)
  BY DEF Moved, Item
<1>5. Accounted(input) /\ Holding(working, entries, 1..m, 1..m) /\ \A k \in 1..m : entries[k].phase < phase
  BY DEF Accounts, Phased
<1>6. ASSUME NEW k \in 1..n PROVE r[m + k].phase = phase /\ r[m + k].to = s[k][2] /\ r[m + k].item = s[k][1] /\ r[m + k].from = Item(s[k][1]).on
  <2>1. r[m + k] = Entry(s[k], phase)
    BY <1>1
  <2> HIDE DEF r, m, s
  <2> QED BY <2>1 DEF Entry
<1>7. \A k \in 1..Len(r) : k > m => r[k].phase = phase
  <2> TAKE k \in 1..Len(r)
  <2> HAVE k > m
  <2>1. k - m \in 1..n /\ m + (k - m) = k
    BY <1>1
  <2> QED BY <1>6, <2>1
<1>8. Earlier(r, phase) = 1..m
  <2>1. \A k \in 1..m : r[k].phase < phase
    BY <1>1, <1>5 DEF Extends
  <2>2. 1..m \subseteq 1..Len(r) /\ \A k \in 1..Len(r) : k \in 1..m \/ r[k].phase = phase
    BY <1>1, <1>7
  <2> QED BY <1>0, <2>1, <2>2 DEF Earlier
<1>9. Holding(working, r, 1..m, 1..m)
  BY <1>0, <1>1, <1>5, HoldingStill
<1> HIDE DEF m, n
<1> DEFINE S == {k \in 0..n : /\ Holding(h[k], r, 1..m + k, 1..m)
                              /\ Holding(g[k], r, 1..m + k, 1..m + k)
                              /\ \A j \in 1..k : Fits(r, m + j)}
<1>10. 0 \in S
  <2>1. h[0] = working /\ g[0] = working /\ m + 0 = m /\ 1..0 = {} /\ 0 \in 0..n
    BY <1>1, <1>2, <1>3 DEF Seats, ReclaimSteps
  <2> QED BY <1>9, <2>1
<1>11. ASSUME NEW k \in 0..n - 1, k \in S PROVE k + 1 \in S
  <2> DEFINE i == k + 1  j == m + i
  <2>1. i \in 1..n /\ i - 1 = k /\ i \in 0..n /\ k \in 0..n /\ j - 1 = m + k /\ j \in 1..Len(r)
    BY <1>1
  <2>2. 1..m \subseteq 1..j - 1 /\ \A x \in 1..i : x \in 1..k \/ x = i
    BY <1>1
  <2> HIDE DEF i, j
  <2>3. /\ s[i][2] \in HotOptions(h[k], Item(s[i][1])) /\ h[i] = Apply(h[k], s[i][2], Item(s[i][1]).size)
        /\ h[k] \in Usages /\ g[k] \in Usages /\ g[i] = Reclaimed(g[k], s[i])
    BY <1>2, <1>3, <2>1 DEF Seats, ReclaimSteps, n
  <2>4. r[j].phase = phase /\ r[j].to = s[i][2] /\ r[j].item = s[i][1] /\ r[j].from = Item(s[i][1]).on
    BY <1>6, <2>1 DEF j
  <2>5. Holds(h[k][r[j].to], Item(r[j].item).size, Place(r[j].to).max)
    BY <1>0, <2>3, <2>4, OptionsType
  <2>6. Holding(h[k], r, 1..j - 1, 1..m) /\ Holding(g[k], r, 1..j - 1, 1..j - 1)
    BY <1>11, <2>1
  <2>7. 1..m = Earlier(r, r[j].phase)
    BY <1>8, <2>4
  <2>8. /\ Fits(r, j)
        /\ Holding(Apply(h[k], r[j].to, Item(r[j].item).size), r, 1..j, 1..m)
        /\ Holding(Move(g[k], r[j].from, r[j].to, Item(r[j].item).size), r, 1..j, 1..j)
    BY <1>0, <1>4, <1>5, <2>1, <2>2, <2>3, <2>5, <2>6, <2>7, NextFits
  <2>9. Holding(h[i], r, 1..m + i, 1..m) /\ Holding(g[i], r, 1..m + i, 1..m + i)
    BY <2>3, <2>4, <2>8 DEF Reclaimed, j
  <2>10. \A x \in 1..i : Fits(r, m + x)
    BY <1>11, <2>2, <2>8 DEF j
  <2>11. i \in S
    BY <2>1, <2>9, <2>10
  <2> QED BY <2>11 DEF i
<1>12. n \in S
  <2>1. \A k \in 0..n - 1 : k \in S => k + 1 \in S
    BY <1>11
  <2>2. n \in Nat /\ n \in 0..n
    BY <1>1
  <2> HIDE DEF S
  <2>3. 0..n \subseteq S
    BY <1>10, <2>1, <2>2, UpTo
  <2> QED BY <2>2, <2>3
<1>13. working' = g[n]
  BY <1>1, <1>3 DEF ReclaimSteps, n
<1>14. Holding(working', r, 1..Len(r), 1..Len(r)) /\ \A j \in 1..n : Fits(r, m + j)
  BY <1>1, <1>12, <1>13
<1>15. ASSUME NEW j \in 1..Len(r) PROVE Fits(r, j)
  <2>1. CASE j \in 1..m
    <3>1. Fits(entries, j) /\ entries[j].phase < phase /\ entries[j].phase \in Nat
      BY <1>0, <1>5, <2>1, EntriesMean DEF Accounts, m
    <3>2. \A k \in 1..Len(r) : k > Len(entries) => entries[j].phase <= r[k].phase
      BY <1>0, <1>7, <3>1 DEF m
    <3> QED BY <1>0, <1>1, <2>1, <3>1, <3>2, FitsStill DEF m
  <2>2. CASE j \notin 1..m
    <3>1. j - m \in 1..n /\ m + (j - m) = j
      BY <1>1, <2>2
    <3> QED BY <1>14, <3>1
  <2> QED BY <2>1, <2>2
<1> QED BY <1>14, <1>15

\* A fill has its room with nothing of the phase freed.
LEMMA FillFits ==
  ASSUME Typed, Typed', Moved(entries)', Accounts, NEW i, NEW to, Filled(i, to), at = "fills", input' = input
  PROVE  /\ \A j \in 1..Len(entries') : Fits(entries', j)
         /\ Holding(working', entries', 1..Len(entries'), 1..Len(entries'))
         /\ Holding(capacity', entries', 1..Len(entries'), Earlier(entries', phase))
         /\ \A j \in 1..Len(entries') : entries'[j].phase <= phase
<1> DEFINE r == entries'  m == Len(entries)  j == m + 1  e == Entry(<<i, to>>, phase)  L == Earlier(entries, phase)
<1>0. /\ Given /\ working \in Usages /\ capacity \in Usages /\ phase \in Nat
      /\ entries \in Seq(Entries) /\ r \in Seq(Entries)
  BY TypedMeans DEF Entries, Filled
<1>1. /\ m \in Nat /\ Len(r) = j /\ Extends(r, entries) /\ r[j] = e
      /\ Holds(capacity[to], Item(i).size, Place(to).max)
      /\ capacity' = Apply(capacity, to, Item(i).size)
      /\ working' = Move(working, Item(i).on, to, Item(i).size)
  BY <1>0, EntriesMean DEF Filled, Extends
<1>2. e.phase = phase /\ e.to = to /\ e.item = i /\ e.from = Item(i).on
  BY DEF Entry
<1>3. Moved(r)
  BY DEF Moved, Item
<1>4. /\ Accounted(input) /\ Holding(working, entries, 1..m, 1..m) /\ Holding(capacity, entries, 1..m, L)
      /\ (\A k \in 1..m : entries[k].phase <= phase) /\ \A k \in 1..m : Fits(entries, k)
  BY DEF Accounts, Phased
<1> HIDE DEF e
<1>5. L = Earlier(r, r[j].phase) /\ L \subseteq 1..m
  <2>1. 1..Len(r) = 1..m \cup {j} /\ j \notin 1..m
    BY <1>1
  <2>2. \A k \in 1..m : r[k].phase = entries[k].phase
    BY <1>1 DEF Extends
  <2>3. ~(r[j].phase < phase) /\ r[j].phase = phase
    BY <1>0, <1>1, <1>2
  <2> HIDE DEF m, j, r
  <2> QED BY <2>1, <2>2, <2>3 DEF Earlier, m
<1> HIDE DEF L
<1>6. Holding(capacity, r, 1..m, L) /\ Holding(working, r, 1..m, 1..m)
  BY <1>0, <1>1, <1>4, <1>5, HoldingStill
<1>7. j - 1 = m /\ j \in 1..Len(r)
  BY <1>1
<1> HIDE DEF j, m
<1>8. /\ Fits(r, j)
      /\ Holding(Apply(capacity, r[j].to, Item(r[j].item).size), r, 1..j, L)
      /\ Holding(Move(working, r[j].from, r[j].to, Item(r[j].item).size), r, 1..j, 1..j)
  <2>1. Holds(capacity[r[j].to], Item(r[j].item).size, Place(r[j].to).max)
    BY <1>1, <1>2
  <2> HIDE DEF r
  <2> QED BY <1>0, <1>3, <1>4, <1>5, <1>6, <1>7, <2>1, NextFits
<1>9. Holding(capacity', r, 1..Len(r), L) /\ Holding(working', r, 1..Len(r), 1..Len(r))
  BY <1>1, <1>2, <1>8
<1>10. ASSUME NEW k \in 1..Len(r) PROVE Fits(r, k) /\ r[k].phase <= phase
  <2>1. CASE k \in 1..m
    <3>1. Fits(entries, k) /\ entries[k].phase <= phase /\ entries[k].phase \in Nat /\ r[k] = entries[k]
      BY <1>0, <1>1, <1>4, <2>1, EntriesMean DEF m, Extends
    <3>2. \A x \in 1..Len(r) : x > Len(entries) => entries[k].phase <= r[x].phase
      <4>1. \A x \in 1..Len(r) : x > Len(entries) => x = j
        BY <1>1 DEF m, j
      <4> QED BY <1>1, <1>2, <3>1, <4>1
    <3>3. Fits(r, k)
      BY <1>0, <1>1, <2>1, <3>1, <3>2, FitsStill DEF m
    <3> QED BY <3>1, <3>3
  <2>2. CASE k \notin 1..m
    <3>1. k = j
      BY <1>1, <2>2 DEF j
    <3> QED BY <1>0, <1>1, <1>2, <1>8, <3>1
  <2> QED BY <2>1, <2>2
<1> QED BY <1>1, <1>2, <1>5, <1>9, <1>10

LEMMA StepAccounts == Typed /\ Typed' /\ Parted /\ Moved(entries)' /\ Accounts /\ [Next]_vars => Accounts'
<1> SUFFICES ASSUME Typed, Typed', Parted, Moved(entries)', Accounts, [Next]_vars PROVE Accounts'
  OBVIOUS
<1>0. Given /\ phase \in Nat /\ entries \in Seq(Entries)
  BY TypedMeans DEF Entries
<1>1. /\ Accounted(input) /\ Holding(working, entries, 1..Len(entries), 1..Len(entries))
      /\ (at = "fills" => Holding(capacity, entries, 1..Len(entries), Earlier(entries, phase)))
      /\ \A j \in 1..Len(entries) : Fits(entries, j)
  BY DEF Accounts
<1>2. \A k \in 1..Len(entries) : /\ entries[k].phase <= phase /\ entries[k].phase \in Nat
                                 /\ at # "fills" \/ ~moved.fills => entries[k].phase < phase
  BY <1>0, EntriesMean DEF Accounts, Phased
<1>3. CASE AttemptReclaims
  <2>1. PICK node : Attempted(node)
    BY <1>3, AttemptMeans
  <2>2. input' = input /\ at = "reclaims" /\ at' = "batch" /\ moved'.fills = FALSE
    BY <1>3 DEF AttemptReclaims
  <2>3. /\ \A j \in 1..Len(entries') : Fits(entries', j)
        /\ Holding(working', entries', 1..Len(entries'), 1..Len(entries'))
    BY <2>1, <2>2, ReclaimsFit
  <2>4. ASSUME NEW k \in 1..Len(entries') PROVE entries'[k].phase < phase' /\ entries'[k].phase <= phase'
    <3> DEFINE s == node.placed  m == Len(entries)
    <3>1. /\ m \in Nat /\ Len(s) \in Nat /\ Len(entries') = m + Len(s)
          /\ \A x \in 1..m : entries'[x] = entries[x]
          /\ \A x \in 1..Len(s) : entries'[m + x] = Entry(s[x], phase)
          /\ phase' = IF s # <<>> THEN phase + 1 ELSE phase
      BY <1>0, <2>1, EntriesMean DEF Attempted
    <3>2. CASE k \in 1..m
      <4>1. entries'[k].phase < phase /\ entries'[k].phase \in Nat
        BY <1>2, <2>2, <3>1, <3>2
      <4> QED BY <1>0, <3>1, <4>1
    <3>3. CASE k \notin 1..m
      <4>1. k - m \in 1..Len(s) /\ m + (k - m) = k
        BY <3>1, <3>3
      <4>2. entries'[k].phase = phase
        <5>1. entries'[k] = Entry(s[k - m], phase)
          BY <3>1, <4>1
        <5> HIDE DEF s, m
        <5> QED BY <5>1 DEF Entry
      <4>3. Len(s) # 0
        BY <3>1, <4>1
      <4>4. s # <<>>
        BY <4>3
      <4> QED BY <1>0, <3>1, <4>2, <4>4
    <3> QED BY <3>2, <3>3
  <2> QED BY <1>1, <2>2, <2>3, <2>4, AccountsAfter
<1>4. CASE StartFills
  <2>1. /\ input' = input /\ at = "batch" /\ at' = "fills" /\ working' = working /\ capacity' = working
        /\ phase' = phase /\ moved' = moved /\ entries' = entries
    BY <1>4 DEF StartFills
  <2>2. Earlier(entries, phase) = 1..Len(entries)
    BY <1>2, <2>1 DEF Earlier
  <2> QED BY <1>1, <1>2, <2>1, <2>2, AccountsAfter
<1>5. CASE NoRoomForFill
  <2>1. /\ input' = input /\ at' = at /\ working' = working /\ capacity' = capacity
        /\ phase' = phase /\ moved' = moved /\ entries' = entries
    BY <1>5 DEF NoRoomForFill
  <2> QED BY <1>1, <1>2, <2>1, AccountsAfter
<1>6. CASE PlanFill
  <2>1. PICK i, to : Filled(i, to)
    BY <1>6, FillMeans
  <2>2. input' = input /\ at = "fills" /\ at' = at /\ phase' = phase /\ moved' = [moved EXCEPT !.fills = TRUE]
    BY <1>6 DEF PlanFill
  <2>3. moved'.fills = TRUE
    BY <2>2 DEF Typed, TypeOK
  <2>4. /\ \A j \in 1..Len(entries') : Fits(entries', j)
        /\ Holding(working', entries', 1..Len(entries'), 1..Len(entries'))
        /\ Holding(capacity', entries', 1..Len(entries'), Earlier(entries', phase))
        /\ \A j \in 1..Len(entries') : entries'[j].phase <= phase
    BY <2>1, <2>2, FillFits
  <2> QED BY <1>1, <2>2, <2>3, <2>4, AccountsAfter
<1>7. CASE EndRound
  <2>1. /\ input' = input /\ at = "fills" /\ at' # "fills" /\ working' = working /\ entries' = entries
        /\ moved' = moved /\ phase' = IF moved.fills THEN phase + 1 ELSE phase
    BY <1>7 DEF EndRound
  <2>2. \A k \in 1..Len(entries) : entries[k].phase < phase' /\ entries[k].phase <= phase'
    BY <1>0, <1>2, <2>1
  <2> QED BY <1>1, <2>1, <2>2, AccountsAfter
<1>8. CASE UNCHANGED vars
  <2>1. /\ input' = input /\ at' = at /\ working' = working /\ capacity' = capacity
        /\ phase' = phase /\ moved' = moved /\ entries' = entries
    BY <1>8 DEF vars
  <2> QED BY <1>1, <1>2, <2>1, AccountsAfter
<1> QED BY <1>3, <1>4, <1>5, <1>6, <1>7, <1>8 DEF Next

LEMMA AccountsHold == Spec => []Accounts
<1>1. Init => Accounts
  BY InitAccounts
<1>2. Typed /\ Typed' /\ Parted /\ Moved(entries)' /\ Accounts /\ [Next]_vars => Accounts'
  BY StepAccounts
<1>3. Typed /\ Parted => Moved(entries)
  BY EntriesMoved
<1> QED BY <1>1, <1>2, <1>3, TypedHolds, PartedInvariant, PTL DEF Spec

\* "A move is never allowed to spend space another move in that same phase only
\* promises to free": with the earlier phases landed, what is ahead of it in its
\* own written and nothing freed, a move of planner.Build's plan stays within its
\* destination's free space and ceiling. The usage the loop keeps is what the
\* drives held with the entries written and freed; reclaims are placed, and
\* fills admitted, on one with this phase's entries written only.
THEOREM PhaseFitsHolds == Spec => []PhaseFits
<1>1. Typed /\ Accounts => PhaseFits
  <2> SUFFICES ASSUME Typed, Accounts, NEW k \in DOMAIN entries, EvenlyRead(entries[k].to)
               PROVE  LET to == entries[k].to
                          earlier == {m \in DOMAIN entries : entries[m].phase < entries[k].phase}
                          growth == Written(earlier \cup 1..k, to) - Freed(earlier, to)
                          start == input.usage[to]
                      IN /\ growth <= start.free
                         /\ 100 * (start.used + growth) <= Place(to).max * (start.used + start.free)
    BY DEF PhaseFits
  <2>1. DOMAIN entries = 1..Len(entries)
    BY EntriesItems
  <2>2. Sizes = SizesOf(entries)
    BY <2>1 DEF Sizes, SizesOf
  <2>3. \A K, p : Written(K, p) = Onto(entries, K, p) /\ Freed(K, p) = Off(entries, K, p)
    BY <2>2 DEF Written, Freed, Onto, Off, Into, Out
  <2>4. Earlier(entries, entries[k].phase) = {m \in DOMAIN entries : entries[m].phase < entries[k].phase}
    BY <2>1 DEF Earlier
  <2>5. Fits(entries, k)
    BY <2>1 DEF Accounts
  <2> QED BY <2>3, <2>4, <2>5 DEF Fits
<1> QED BY <1>1, TypedHolds, AccountsHold, PTL

-----------------------------------------------------------------------------
(* Once a plan has landed there is nothing left to plan *)

\* Usage that has at least as much left.
Roomier(usage, less) ==
  \A p \in Usable : /\ usage[p].total = less[p].total /\ usage[p].used = less[p].used
                    /\ less[p].free <= usage[p].free

LEMMA MoreHeld ==
  ASSUME NEW u \in Reading, NEW w \in Reading, NEW n \in Nat, NEW m \in Nat,
         w.total = u.total, w.used = u.used, u.free <= w.free, Holds(u, n, m)
  PROVE  Holds(w, n, m)
<1>1. u.used \in Nat /\ u.free \in Nat /\ u.total \in Nat /\ w.used \in Nat /\ w.free \in Nat
  BY DEF Reading
<1>2. /\ u.total # 0 /\ n <= u.free
      /\ 100 * (u.used + n) <= m * (u.used + u.free) /\ u.used + n <= u.total
  BY HoldsMeans
<1>3. m * (u.used + u.free) <= m * (u.used + w.free)
  <2>1. \A a, b \in Nat : a <= b => m * a <= m * b
    BY SMT
  <2>2. u.used + u.free \in Nat /\ u.used + w.free \in Nat /\ u.used + u.free <= u.used + w.free
    BY <1>1
  <2> QED BY <2>1, <2>2
<1>4. n <= w.free
  BY <1>1, <1>2
<1>5. 100 * (w.used + n) <= m * (w.used + w.free)
  <2> DEFINE a == m * (u.used + u.free)  b == m * (u.used + w.free)  c == 100 * (u.used + n)
  <2>1. a \in Nat /\ b \in Nat /\ c \in Nat
    BY <1>1, SMT
  <2>2. c <= a /\ a <= b
    BY <1>2, <1>3
  <2> HIDE DEF a, b, c
  <2>3. c <= b
    BY <2>1, <2>2
  <2> QED BY <2>3 DEF b, c
<1> QED BY <1>2, <1>4, <1>5, HoldsMeans

LEMMA NoMoreRoom ==
  ASSUME Given, NEW usage \in Usages, NEW less \in Usages, Roomier(usage, less), NEW i \in Items
  PROVE  /\ HotOptions(usage, Item(i)) = {} => HotOptions(less, Item(i)) = {}
         /\ PickDestination(usage, Item(i)) = None => PickDestination(less, Item(i)) = None
<1>1. Item(i).size \in Nat /\ \A p \in Usable : /\ usage[p] \in Reading /\ less[p] \in Reading
                                               /\ Place(p).target \in Nat /\ Place(p).max \in Nat
  BY GivenMeans DEF GivenItems, GivenPlaces, Usages
<1>2. \A p \in Usable, m \in Nat : Holds(less[p], Item(i).size, m) => Holds(usage[p], Item(i).size, m)
  BY <1>1, MoreHeld DEF Roomier
<1>3. HotOptions(less, Item(i)) \subseteq HotOptions(usage, Item(i))
  BY <1>1, <1>2 DEF HotOptions, Accepting
<1>4. ASSUME PickDestination(usage, Item(i)) = None PROVE PickDestination(less, Item(i)) = None
  <2> DEFINE Under(u) == {p \in Accepting("cold", Item(i)) : Holds(u[p], Item(i).size, Place(p).target)}
             Within(u) == {p \in Accepting("cold", Item(i)) : Holds(u[p], Item(i).size, Place(p).max)}
  <2>1. \A u : PickDestination(u, Item(i)) = IF Under(u) # {} THEN Fullest(Under(u), u) ELSE Fullest(Within(u), u)
    BY DEF PickDestination
  <2>2. Under(less) \subseteq Under(usage) /\ Within(less) \subseteq Within(usage)
    BY <1>1, <1>2 DEF Accepting
  <2>3. \A u : Under(u) \in SUBSET Usable /\ Within(u) \in SUBSET Usable
    BY DEF Accepting
  <2> HIDE DEF Under, Within
  <2>4. \A S \in SUBSET Usable : S # {} => Fullest(S, usage) # None
    <3> TAKE S \in SUBSET Usable
    <3> HAVE S # {}
    <3>1. Fullest(S, usage) \in S
      BY FullestMeans
    <3> QED BY <3>1, GivenMeans DEF GivenPlaces, None
  <2>5. Under(usage) = {} /\ Within(usage) = {}
    BY <1>4, <2>1, <2>3, <2>4
  <2>6. Under(less) = {} /\ Within(less) = {}
    BY <2>2, <2>5
  <2>7. Fullest({}, less) = None
    BY DEF Fullest
  <2> QED BY <2>1, <2>6, <2>7
<1> QED BY <1>3, <1>4

\* Nothing is placed only if nothing has room.
LEMMA NonePlaced ==
  ASSUME Given, NEW pending \in SUBSET Items, NEW usage \in Usages, AllocateReclaims(pending, usage) = <<>>
  PROVE  Placeable(pending, usage) = {}
<1>1. Len(Greedy(pending, usage)) <= 0
  <2>1. PICK best \in Seatings(pending, usage) :
          AllocateReclaims(pending, usage) = best.placed /\ Len(Greedy(pending, usage)) <= Len(best.placed)
    BY AllocateMeans
  <2>2. Len(best.placed) = 0
    BY <2>1
  <2> QED BY <2>1, <2>2
<1>2. PICK node \in Seatings(pending, usage) : Stuck(node, pending) /\ Greedy(pending, usage) = node.placed
  BY GreedyMeans
<1>3. node.placed \in Seq(Items \X Usable)
  BY DEF Seatings, Nodes
<1>4. node.placed = <<>> /\ Len(node.placed) = 0
  <2>1. Len(node.placed) \in Nat /\ Len(node.placed) <= 0
    BY <1>1, <1>2, <1>3
  <2> QED BY <1>3, <2>1
<1>5. node.usage = usage
  BY <1>4 DEF Seatings, Seats
<1>6. pending \ Taken(node.placed) = pending
  BY <1>4, NoneTaken
<1> QED BY <1>2, <1>5, <1>6 DEF Stuck

NoHome(s, usage) == \A i \in ToSet(s) : PickDestination(usage, Item(i)) = None

\* The last round finds room for nothing; each of the others plans an entry.
Spent ==
  /\ at # "planned" => round <= Len(entries)
  /\ at \in {"batch", "fills"} /\ (moved.reclaims \/ moved.fills) => round < Len(entries)
  /\ at = "batch" => ~moved.fills
  /\ at \in {"batch", "fills"} /\ ~moved.reclaims /\ ~moved.fills => Placeable(reclaims, working) = {}
  /\ at = "fills" /\ ~moved.reclaims /\ ~moved.fills => capacity = working /\ NoHome(fills, working)
  /\ at = "planned" => Placeable(reclaims, working) = {} /\ NoHome(fills, working)

LEMMA InitSpent == Init => Spent
<1> SUFFICES ASSUME Init PROVE Spent
  OBVIOUS
<1>1. at = "reclaims" /\ round = 0 /\ entries = <<>>
  BY DEF Init
<1>2. Len(entries) = 0
  BY <1>1
<1> QED BY <1>1, <1>2 DEF Spent

\* Every entry is of another item, so they end before the rounds do.
LEMMA RoundsLeft == Typed /\ Parted => Len(entries) < MaxRounds /\ MaxRounds \in Nat
<1> SUFFICES ASSUME Typed, Parted PROVE Len(entries) < MaxRounds /\ MaxRounds \in Nat
  OBVIOUS
<1>1. /\ ItemsOf(entries) \in Seq(Items) /\ Len(ItemsOf(entries)) = Len(entries) /\ Once(ItemsOf(entries))
      /\ Len(entries) \in Nat
  BY EntriesItems DEF Parted
<1>2. IsFiniteSet(Misplaced) /\ IsFiniteSet(Leaving) /\ Misplaced \cap Leaving = {}
  BY TypedMeans, CandidatesMean
<1>3. IsFiniteSet(Misplaced \cup Leaving) /\ Cardinality(Misplaced \cup Leaving) = Cardinality(Misplaced) + Cardinality(Leaving)
  BY <1>2, SizeOfBoth
<1>4. Cardinality(Planned) = Len(entries)
  BY <1>1, OnceSize DEF Planned
<1>5. Planned \subseteq Misplaced \cup Leaving
  BY DEF Parted
<1>6. Cardinality(Planned) <= Cardinality(Misplaced \cup Leaving)
  BY <1>3, <1>5, FS_Subset
<1>7. MaxRounds = Cardinality(Misplaced) + Cardinality(Leaving) + 1
  BY DEF MaxRounds, Misplaced, Leaving
<1>8. Cardinality(Misplaced) \in Nat /\ Cardinality(Leaving) \in Nat
  BY <1>2, FS_CardinalityType
<1> QED BY <1>1, <1>3, <1>4, <1>6, <1>7, <1>8

LEMMA SpentAfter ==
  ASSUME input' = input,
         at' # "planned" => round' <= Len(entries'),
         at' \in {"batch", "fills"} /\ (moved'.reclaims \/ moved'.fills) => round' < Len(entries'),
         at' = "batch" => ~moved'.fills,
         at' \in {"batch", "fills"} /\ ~moved'.reclaims /\ ~moved'.fills => Placeable(reclaims', working') = {},
         at' = "fills" /\ ~moved'.reclaims /\ ~moved'.fills => capacity' = working' /\ NoHome(fills', working'),
         at' = "planned" => Placeable(reclaims', working') = {} /\ NoHome(fills', working')
  PROVE  Spent'
<1>1. (at \in {"batch", "fills"} /\ ~moved.reclaims /\ ~moved.fills => Placeable(reclaims, working) = {})'
  BY DEF Placeable, HotOptions, Accepting, Usable, Place, Item
<1>2. (at = "planned" => Placeable(reclaims, working) = {})'
  BY DEF Placeable, HotOptions, Accepting, Usable, Place, Item
<1>3. (at = "fills" /\ ~moved.reclaims /\ ~moved.fills => capacity = working)'
  OBVIOUS
<1>4. (at = "fills" /\ ~moved.reclaims /\ ~moved.fills => NoHome(fills, working))'
  BY DEF NoHome, PickDestination, Accepting, Usable, Place, Item
<1>5. (at = "planned" => NoHome(fills, working))'
  BY DEF NoHome, PickDestination, Accepting, Usable, Place, Item
<1> QED BY <1>1, <1>2, <1>3, <1>4, <1>5 DEF Spent

LEMMA StepSpent == Typed /\ Typed' /\ Parted /\ Spent /\ [Next]_vars => Spent'
<1> SUFFICES ASSUME Typed, Typed', Parted, Spent, [Next]_vars PROVE Spent'
  OBVIOUS
<1>0. /\ Given /\ reclaims \in SUBSET Items /\ working \in Usages /\ round \in Nat /\ entries \in Seq(Entries)
      /\ scan \in Seq(Items) /\ fills \in Seq(Items) /\ Len(entries) \in Nat
      /\ moved \in [reclaims : BOOLEAN, fills : BOOLEAN]
      /\ at \in {"reclaims", "batch", "fills", "planned"}
  BY TypedMeans, EntriesMean DEF Entries, Typed, TypeOK
<1>1. /\ at # "planned" => round <= Len(entries)
      /\ at \in {"batch", "fills"} /\ (moved.reclaims \/ moved.fills) => round < Len(entries)
      /\ at = "batch" => ~moved.fills
      /\ at \in {"batch", "fills"} /\ ~moved.reclaims /\ ~moved.fills => Placeable(reclaims, working) = {}
      /\ at = "fills" /\ ~moved.reclaims /\ ~moved.fills => capacity = working /\ NoHome(fills, working)
      /\ at = "planned" => Placeable(reclaims, working) = {} /\ NoHome(fills, working)
  BY DEF Spent
<1>2. CASE AttemptReclaims
  <2>1. PICK node : Attempted(node)
    BY <1>2, AttemptMeans
  <2> DEFINE s == node.placed
  <2>2. /\ s = AllocateReclaims(reclaims, working) /\ s \in Seq(Items \X Usable) /\ Len(s) \in Nat
        /\ Len(entries') = Len(entries) + Len(s) /\ reclaims' = reclaims \ Taken(s)
        /\ working' = FoldLeft(Reclaimed, working, s)
    BY <2>1 DEF Attempted, Seatings, Nodes
  <2>3. /\ input' = input /\ at = "reclaims" /\ at' = "batch" /\ round' = round
        /\ moved' = [reclaims |-> s # <<>>, fills |-> FALSE]
    BY <1>2, <2>2 DEF AttemptReclaims
  <2> HIDE DEF s
  <2>4. moved'.fills = FALSE /\ (moved'.reclaims <=> s # <<>>)
    BY <2>3
  <2>5. s # <<>> => Len(s) > 0
    BY <2>2
  <2>6. round' <= Len(entries') /\ (s # <<>> => round' < Len(entries'))
    BY <1>0, <1>1, <2>2, <2>3, <2>5
  <2>7. ASSUME s = <<>> PROVE Placeable(reclaims', working') = {}
    <3>1. reclaims' = reclaims
      BY <2>2, <2>7, NoneTaken
    <3>2. working' = working
      <4>1. PICK g : ReclaimSteps(g, s, working)
        BY <1>0, <2>2, FoldReclaimed
      <4>2. Len(s) = 0
        BY <2>7
      <4> QED BY <2>2, <4>1, <4>2 DEF ReclaimSteps
    <3>3. Placeable(reclaims, working) = {}
      BY <1>0, <2>2, <2>7, NonePlaced
    <3> QED BY <3>1, <3>2, <3>3
  <2> QED BY <2>3, <2>4, <2>6, <2>7, SpentAfter
<1>3. CASE StartFills
  <2>1. /\ input' = input /\ at = "batch" /\ at' = "fills" /\ working' = working /\ capacity' = working
        /\ reclaims' = reclaims /\ fills' = <<>> /\ round' = round /\ moved' = moved /\ entries' = entries
    BY <1>3 DEF StartFills
  <2>2. NoHome(fills', working')
    BY <2>1 DEF NoHome, ToSet
  <2> QED BY <1>1, <2>1, <2>2, SpentAfter
<1>4. CASE NoRoomForFill
  <2>1. /\ input' = input /\ at = "fills" /\ at' = at /\ working' = working /\ capacity' = capacity
        /\ reclaims' = reclaims /\ round' = round /\ moved' = moved /\ entries' = entries
        /\ scan # <<>> /\ PickDestination(capacity, Item(Head(scan))) = None /\ fills' = Append(fills, Head(scan))
    BY <1>4 DEF NoRoomForFill
  <2>2. ASSUME capacity = working, NoHome(fills, working) PROVE NoHome(fills', working)
    <3> DEFINE x == Head(scan)  t == <<x>>
    <3>1. x \in Items
      BY <1>0, <2>1
    <3>2. t \in Seq(Items) /\ ToSet(t) = {x}
      BY <3>1, OnlyOne
    <3>3. fills' = fills \o t
      BY <1>0, <2>1, <3>1
    <3> HIDE DEF t
    <3>4. Joining(fills \o t, fills, t)
      BY <1>0, <3>2, Joined
    <3>5. ToSet(fills') = ToSet(fills) \cup {x}
      BY <3>2, <3>3, <3>4 DEF Joining
    <3> QED BY <2>1, <2>2, <3>5 DEF NoHome
  <2> QED BY <1>1, <2>1, <2>2, SpentAfter
<1>5. CASE PlanFill
  <2>1. PICK i, to : Filled(i, to)
    BY <1>5, FillMeans
  <2>2. /\ input' = input /\ at = "fills" /\ at' = at /\ round' = round
        /\ moved' = [moved EXCEPT !.fills = TRUE]
    BY <1>5 DEF PlanFill
  <2>3. moved'.fills = TRUE
    BY <1>0, <2>2
  <2>4. Len(entries') = Len(entries) + 1
    BY <2>1 DEF Filled
  <2>5. round' < Len(entries') /\ round' <= Len(entries')
    BY <1>0, <1>1, <2>2, <2>4
  <2> QED BY <2>2, <2>3, <2>5, SpentAfter
<1>6. CASE EndRound
  <2>1. /\ input' = input /\ at = "fills" /\ working' = working /\ capacity' = capacity
        /\ reclaims' = reclaims /\ fills' = fills /\ round' = round + 1 /\ moved' = moved /\ entries' = entries
        /\ at' = IF (moved.reclaims \/ moved.fills) /\ round' < MaxRounds THEN "reclaims" ELSE "planned"
    BY <1>6 DEF EndRound
  <2>2. Len(entries) < MaxRounds /\ MaxRounds \in Nat
    BY RoundsLeft
  <2>3. CASE moved.reclaims \/ moved.fills
    <3>1. round < Len(entries)
      BY <1>1, <2>1, <2>3
    <3>2. round' <= Len(entries') /\ round' < MaxRounds
      BY <1>0, <2>1, <2>2, <3>1
    <3>3. at' = "reclaims"
      BY <2>1, <2>3, <3>2
    <3> QED BY <2>1, <3>2, <3>3, SpentAfter
  <2>4. CASE ~moved.reclaims /\ ~moved.fills
    <3>1. at' = "planned" /\ Placeable(reclaims, working) = {} /\ NoHome(fills, working)
      BY <1>1, <2>1, <2>4
    <3> QED BY <2>1, <3>1, SpentAfter
  <2> QED BY <2>3, <2>4
<1>7. CASE UNCHANGED vars
  <2>1. /\ input' = input /\ at' = at /\ working' = working /\ capacity' = capacity
        /\ reclaims' = reclaims /\ fills' = fills /\ round' = round /\ moved' = moved /\ entries' = entries
    BY <1>7 DEF vars
  <2> QED BY <1>1, <2>1, SpentAfter
<1> QED BY <1>2, <1>3, <1>4, <1>5, <1>6, <1>7 DEF Next

LEMMA SpentHolds == Spec => []Spent
<1>1. Init => Spent
  BY InitSpent
<1>2. Typed /\ Typed' /\ Parted /\ Spent /\ [Next]_vars => Spent'
  BY StepSpent
<1> QED BY <1>1, <1>2, TypedHolds, PartedInvariant, PTL DEF Spec

\* An item is the same wherever it is.
Alike(a, b) ==
  /\ a.size = b.size /\ a.type = b.type /\ a.score = b.score /\ a.wanted = b.wanted
  /\ a.protected = b.protected

LEMMA AlikeMeans ==
  ASSUME NEW a, NEW b, Alike(a, b)
  PROVE  /\ \A u : HotOptions(u, a) = HotOptions(u, b) /\ PickDestination(u, a) = PickDestination(u, b)
         /\ Decision(a) = Decision(b)
<1>1. \A role : Accepting(role, a) = Accepting(role, b)
  BY DEF Alike, Accepting
<1>2. \A u : HotOptions(u, a) = HotOptions(u, b)
  BY <1>1 DEF Alike, HotOptions
<1>3. \A u : PickDestination(u, a) = PickDestination(u, b)
  <2> TAKE u
  <2> DEFINE Under(x) == {p \in Accepting("cold", x) : Holds(u[p], x.size, Place(p).target)}
             Within(x) == {p \in Accepting("cold", x) : Holds(u[p], x.size, Place(p).max)}
  <2>1. \A x : PickDestination(u, x) = IF Under(x) # {} THEN Fullest(Under(x), u) ELSE Fullest(Within(x), u)
    BY DEF PickDestination
  <2>2. Under(a) = Under(b) /\ Within(a) = Within(b)
    BY <1>1 DEF Alike
  <2> HIDE DEF Under, Within
  <2> QED BY <2>1, <2>2
<1>4. Decision(a) = Decision(b)
  BY DEF Alike, Decision
<1> QED BY <1>2, <1>3, <1>4

LEMMA NotWanted ==
  ASSUME NEW a, a.wanted \in BOOLEAN, a.protected \in BOOLEAN, Decision(a) = "cold"
  PROVE  ~a.wanted
<1>1. CASE a.protected
  BY <1>1 DEF Decision
<1>2. CASE ~a.protected /\ a.wanted
  BY <1>2 DEF Decision
<1> QED BY <1>1, <1>2

\* Where the items are once the plan has landed.
Landed(i) ==
  LET ks == {k \in DOMAIN entries : entries[k].item = i}
  IN IF ks = {} THEN Item(i) ELSE [Item(i) EXCEPT !.on = entries[CHOOSE k \in ks : TRUE].to]

LEMMA LandedMeans ==
  ASSUME Typed, NEW i \in Items
  PROVE  /\ Alike(Landed(i), Item(i)) /\ Item(i).wanted \in BOOLEAN /\ Item(i).protected \in BOOLEAN
         /\ i \notin Planned => Landed(i) = Item(i)
         /\ i \in Planned => \/ i \in Misplaced /\ Place(Landed(i).on).role = "hot"
                             \/ i \in Leaving /\ Place(Landed(i).on).role = "cold"
<1> DEFINE ks == {k \in DOMAIN entries : entries[k].item = i}  k == CHOOSE x \in ks : TRUE
           a == Item(i)  b == Landed(i)
<1>1. a \in [on : DOMAIN input.places, size : Nat, type : STRING, score : Int, wanted : BOOLEAN,
             protected : BOOLEAN, small : BOOLEAN, cooling : BOOLEAN]
  BY TypedMeans, GivenMeans DEF GivenItems
<1>2. Planned = {entries[x].item : x \in DOMAIN entries}
  BY EntriesItems
<1>3. b = IF ks = {} THEN a ELSE [a EXCEPT !.on = entries[k].to]
  BY DEF Landed
<1>4. ks = {} <=> i \notin Planned
  BY <1>2
<1>5. ks # {} => k \in DOMAIN entries /\ entries[k].item = i
  OBVIOUS
<1> HIDE DEF ks, k, a, b
<1>6. Alike(b, a) /\ a.wanted \in BOOLEAN /\ a.protected \in BOOLEAN /\ (ks # {} => b.on = entries[k].to)
  BY <1>1, <1>3 DEF Alike
<1>7. ASSUME ks # {}
      PROVE  \/ i \in Misplaced /\ Place(b.on).role = "hot"
             \/ i \in Leaving /\ Place(b.on).role = "cold"
  <2>1. DOMAIN entries = 1..Len(entries)
    BY EntriesItems
  <2>2. Heading(entries[k])
    BY <1>5, <1>7, <2>1 DEF Typed, Belong
  <2> QED BY <1>5, <1>6, <1>7, <2>2 DEF Heading
<1> QED BY <1>3, <1>4, <1>6, <1>7 DEF a, b

\* No less is left than what the plan, landed, leaves.
LEMMA LandedRoom ==
  ASSUME Typed, Accounts, NEW usage,
         usage = [p \in Usable |-> Plus(input.usage[p], Written(DOMAIN entries, p) - Freed(DOMAIN entries, p))]
  PROVE  usage \in Usages /\ Roomier(working, usage)
<1> DEFINE K == 1..Len(entries)
<1>1. Given /\ working \in Usages /\ entries \in Seq(Entries) /\ DOMAIN entries = K /\ K \in SUBSET (1..Len(entries))
  BY TypedMeans, EntriesItems DEF Entries
<1>2. Sizes = SizesOf(entries)
  BY <1>1 DEF Sizes, SizesOf
<1>3. \A p : Written(K, p) = Onto(entries, K, p) /\ Freed(K, p) = Off(entries, K, p)
  BY <1>2 DEF Written, Freed, Onto, Off, Into, Out
<1>4. ASSUME NEW p \in Usable
      PROVE  /\ usage[p] \in Reading /\ working[p].total = usage[p].total /\ working[p].used = usage[p].used
             /\ usage[p].free <= working[p].free
  <2> DEFINE d == Onto(entries, K, p) - Off(entries, K, p)  u == input.usage[p]
  <2>1. usage[p] = Plus(u, d)
    BY <1>1, <1>3
  <2>2. d \in Int
    <3>1. Onto(entries, K, p) \in Nat /\ Off(entries, K, p) \in Nat
      BY <1>1, SumsMean
    <3> QED BY <3>1
  <2>3. Balance(working, p, d)
    BY DEF Accounts, Holding
  <2>4. u \in Reading /\ working[p] \in Reading
    BY <1>1, GivenMeans DEF GivenPlaces, Usages
  <2> HIDE DEF d
  <2>5. /\ working[p].total = u.total /\ working[p].used = u.used + d /\ working[p].free >= u.free - d
    BY <2>3 DEF Balance
  <2> HIDE DEF u
  <2>6. /\ usage[p] \in Reading /\ usage[p].total = u.total
        /\ usage[p].used = AtLeast0(u.used + d) /\ usage[p].free = AtLeast0(u.free - d)
    BY <2>1, <2>2, <2>4, PlusType
  <2>7. /\ working[p].used \in Nat /\ working[p].free \in Nat /\ u.used \in Nat /\ u.free \in Nat
    BY <2>4 DEF Reading
  <2>8. usage[p].used = working[p].used
    BY <2>2, <2>5, <2>6, <2>7 DEF AtLeast0
  <2>9. usage[p].free <= working[p].free
    BY <2>2, <2>5, <2>6, <2>7 DEF AtLeast0
  <2> QED BY <2>5, <2>6, <2>8, <2>9
<1>5. usage \in Usages
  BY <1>4 DEF Usages
<1> QED BY <1>4, <1>5 DEF Roomier

\* Once the plan has landed there is nothing left to plan: what was planned is on
\* the tier it was to be on, and what was left over has no room, for the last
\* round of planner.Build's loop found none for it in all that the plan leaves.
\* MaxRounds never ends the loop before that: each of the other rounds plans an
\* entry, and every entry is of another item.
THEOREM ReplanIsEmptyHolds == Spec => []ReplanIsEmpty
<1>1. Typed /\ Parted /\ Accounts /\ Spent => ReplanIsEmpty
  <2> SUFFICES ASSUME Typed, Parted, Accounts, Spent, at = "planned" PROVE ReplanIsEmpty
    BY DEF ReplanIsEmpty
  <2> DEFINE usage == [p \in Usable |-> Plus(input.usage[p], Written(DOMAIN entries, p) - Freed(DOMAIN entries, p))]
             items == [i \in Items |-> Landed(i)]
  <2>1. /\ Given /\ working \in Usages /\ usage \in Usages /\ Roomier(working, usage)
    BY TypedMeans, LandedRoom
  <2>2. Placeable(reclaims, working) = {} /\ NoHome(fills, working) /\ scan = <<>>
    BY DEF Spent, Parted
  <2>3. /\ Planned \cap reclaims = {} /\ Planned \cup reclaims \cup ToSet(fills) = Misplaced \cup Leaving
        /\ reclaims \subseteq Misplaced /\ ToSet(fills) \subseteq Leaving /\ Misplaced \cap Leaving = {}
    <3>1. ToSet(<<>>) = {}
      BY DEF ToSet
    <3> QED BY <2>1, <2>2, <3>1, CandidatesMean DEF Parted, Typed, Belong
  <2>4. DOMAIN items = Items /\ \A i \in Items : items[i] = Landed(i)
    OBVIOUS
  <2> HIDE DEF usage, items
  <2>5. ASSUME NEW i \in MisplacedOnCold(items) PROVE HotOptions(usage, items[i]) = {}
    <3>1. i \in Items /\ items[i] = Landed(i)
      BY <2>4 DEF MisplacedOnCold
    <3>2. /\ OnTier(Landed(i), "cold") /\ Decision(Landed(i)) # "protected" /\ Landed(i).wanted
      BY <3>1 DEF MisplacedOnCold
    <3>3. /\ Alike(Landed(i), Item(i)) /\ Item(i).wanted \in BOOLEAN /\ Item(i).protected \in BOOLEAN
          /\ i \notin Planned => Landed(i) = Item(i)
          /\ i \in Planned => \/ i \in Misplaced /\ Place(Landed(i).on).role = "hot"
                              \/ i \in Leaving /\ Place(Landed(i).on).role = "cold"
      BY <3>1, LandedMeans
    <3>4. i \notin Leaving
      <4>1. Item(i).wanted
        BY <3>2, <3>3 DEF Alike
      <4>2. i \in Leaving => Decision(Item(i)) = "cold"
        BY <3>1 DEF Leaving, ColdCandidates, Item
      <4>3. Decision(Item(i)) = "cold" => ~Item(i).wanted
        BY <3>3, NotWanted
      <4> QED BY <4>1, <4>2, <4>3
    <3>5. i \notin Planned
      BY <3>2, <3>3, <3>4 DEF OnTier
    <3>6. i \in Misplaced
      BY <3>1, <3>2, <3>3, <3>5 DEF Misplaced, MisplacedOnCold, Items, Item
    <3>7. i \in reclaims
      BY <2>3, <3>4, <3>5, <3>6
    <3>8. HotOptions(working, Item(i)) = {}
      BY <2>2, <3>7 DEF Placeable
    <3>9. HotOptions(usage, Item(i)) = {}
      BY <2>1, <3>1, <3>8, NoMoreRoom
    <3> QED BY <3>1, <3>3, <3>9, AlikeMeans
  <2>6. ASSUME NEW i \in ColdCandidates(items) PROVE PickDestination(usage, items[i]) = None
    <3>1. i \in Items /\ items[i] = Landed(i)
      BY <2>4 DEF ColdCandidates
    <3>2. OnTier(Landed(i), "hot") /\ Decision(Landed(i)) = "cold" /\ ~Landed(i).small /\ ~Landed(i).cooling
      BY <3>1 DEF ColdCandidates
    <3>3. /\ Alike(Landed(i), Item(i)) /\ Item(i).wanted \in BOOLEAN /\ Item(i).protected \in BOOLEAN
          /\ i \notin Planned => Landed(i) = Item(i)
          /\ i \in Planned => \/ i \in Misplaced /\ Place(Landed(i).on).role = "hot"
                              \/ i \in Leaving /\ Place(Landed(i).on).role = "cold"
      BY <3>1, LandedMeans
    <3>4. i \notin Misplaced
      <4>1. Decision(Item(i)) = "cold"
        BY <3>2, <3>3, AlikeMeans
      <4>2. ~Item(i).wanted
        BY <3>3, <4>1, NotWanted
      <4> QED BY <4>2 DEF Misplaced, MisplacedOnCold, Item
    <3>5. i \notin Planned
      BY <3>2, <3>3, <3>4 DEF OnTier
    <3>6. i \in Leaving
      BY <3>1, <3>2, <3>3, <3>5 DEF Leaving, ColdCandidates, Items, Item
    <3>7. i \in ToSet(fills)
      BY <2>3, <3>4, <3>5, <3>6
    <3>8. PickDestination(working, Item(i)) = None
      BY <2>2, <3>7 DEF NoHome
    <3>9. PickDestination(usage, Item(i)) = None
      BY <2>1, <3>1, <3>8, NoMoreRoom
    <3> QED BY <3>1, <3>3, <3>9, AlikeMeans
  <2>7. items = [i \in Items |->
                   LET ks == {k \in DOMAIN entries : entries[k].item = i}
                   IN IF ks = {} THEN Item(i) ELSE [Item(i) EXCEPT !.on = entries[CHOOSE k \in ks : TRUE].to]]
    BY DEF items, Landed
  <2> QED BY <2>5, <2>6, <2>7 DEF ReplanIsEmpty, usage
<1> QED BY <1>1, TypedHolds, PartedInvariant, AccountsHold, SpentHolds, PTL

-----------------------------------------------------------------------------
(* The largest set of reclaims that fits side by side is found *)

\* Once something is written there is no more room than before.
LEMMA LessHeld ==
  ASSUME NEW u \in Reading, NEW a \in Nat, NEW b \in Nat, a <= b, NEW n \in Nat, NEW m \in Nat,
         Holds(Plus(u, b), n, m)
  PROVE  Holds(Plus(u, a), n, m)
<1> DEFINE x == Plus(u, a)  y == Plus(u, b)
<1>1. u.used \in Nat /\ u.free \in Nat /\ u.total \in Nat /\ a \in Int /\ b \in Int
  BY DEF Reading
<1>2. /\ x \in Reading /\ x.total = u.total /\ x.used = AtLeast0(u.used + a) /\ x.free = AtLeast0(u.free - a)
      /\ y \in Reading /\ y.total = u.total /\ y.used = AtLeast0(u.used + b) /\ y.free = AtLeast0(u.free - b)
  BY <1>1, PlusType
<1> HIDE DEF x, y
<1>3. /\ x.used = u.used + a /\ y.used = u.used + b /\ x.used \in Nat /\ y.used \in Nat
      /\ x.free \in Nat /\ y.free \in Nat /\ y.free <= x.free
      /\ (b <= u.free => y.free = u.free - b /\ x.free = u.free - a)
      /\ (b > u.free => y.free = 0)
  BY <1>1, <1>2 DEF AtLeast0
<1>4. /\ u.total # 0 /\ n <= y.free
      /\ 100 * (y.used + n) <= m * (y.used + y.free) /\ y.used + n <= u.total
  BY <1>2, HoldsMeans DEF y
<1>5. n <= x.free /\ x.used + n <= u.total
  BY <1>1, <1>3, <1>4
<1>6. 100 * (x.used + n) <= m * (x.used + x.free)
  <2>1. CASE b <= u.free
    <3>1. x.used + x.free = y.used + y.free /\ x.used + n <= y.used + n
      BY <1>1, <1>3, <2>1
    <3> DEFINE t == m * (y.used + y.free)
    <3>2. t \in Nat /\ 100 * (y.used + n) <= t /\ m * (x.used + x.free) = t
      BY <1>3, <1>4, <3>1
    <3> HIDE DEF t
    <3> QED BY <1>3, <3>1, <3>2
  <2>2. CASE b > u.free
    <3>0. y.free = 0 /\ n <= y.free /\ y.used = u.used + b
      BY <1>3, <1>4, <2>2
    <3>1. n = 0 /\ y.free = 0 /\ y.used > 0
      BY <1>1, <2>2, <3>0
    <3>2. 100 * y.used <= m * y.used
      <4>1. y.used + 0 = y.used
        BY <1>3
      <4> QED BY <1>4, <3>1, <4>1
    <3>3. m >= 100
      <4>1. \A k \in Nat : k > 0 /\ 100 * k <= m * k => m >= 100
        <5> SUFFICES ASSUME NEW k \in Nat, k > 0, m < 100 PROVE ~(100 * k <= m * k)
          OBVIOUS
        <5>1. (99 - m) * k >= 0 /\ (99 - m) * k = 99 * k - m * k
          <6>1. 99 - m \in Nat
            OBVIOUS
          <6> QED BY <6>1, SMT
        <5> QED BY <5>1, SMT
      <4> QED BY <1>3, <3>1, <3>2, <4>1
    <3>4. \A k, l \in Nat : 100 * k <= m * (k + l)
      <4>1. \A k \in Nat : 100 * k <= m * k
        BY <3>3, SMT
      <4>2. \A k, l \in Nat : m * k <= m * (k + l) /\ m * k \in Nat /\ m * (k + l) \in Nat
        BY SMT
      <4>3. ASSUME NEW k \in Nat, NEW l \in Nat PROVE 100 * k <= m * (k + l)
        <5> DEFINE v == m * k  w == m * (k + l)
        <5>1. v \in Nat /\ w \in Nat /\ 100 * k <= v /\ v <= w
          BY <4>1, <4>2
        <5> HIDE DEF v, w
        <5>2. 100 * k <= w
          BY <5>1
        <5> QED BY <5>2 DEF w
      <4> QED BY <4>3
    <3>5. x.used + n = x.used
      BY <1>3, <3>1
    <3> QED BY <1>3, <3>4, <3>5
  <2> QED BY <1>1, <2>1, <2>2
<1> QED BY <1>2, <1>4, <1>5, <1>6, HoldsMeans DEF x

LEMMA PlusTwice ==
  ASSUME NEW u \in Reading, NEW a \in Nat, NEW b \in Nat
  PROVE  Plus(Plus(u, a), b) = Plus(u, a + b)
<1> DEFINE x == Plus(u, a)
<1>1. u.used \in Nat /\ u.free \in Nat /\ a \in Int /\ b \in Int /\ a + b \in Int
  BY DEF Reading
<1>2. x \in Reading /\ x.total = u.total /\ x.used = AtLeast0(u.used + a) /\ x.free = AtLeast0(u.free - a)
  BY <1>1, PlusType
<1> HIDE DEF x
<1> DEFINE y == Plus(x, b)  z == Plus(u, a + b)
<1>3. /\ y \in Reading /\ y.total = x.total /\ y.used = AtLeast0(x.used + b) /\ y.free = AtLeast0(x.free - b)
      /\ z \in Reading /\ z.total = u.total /\ z.used = AtLeast0(u.used + (a + b)) /\ z.free = AtLeast0(u.free - (a + b))
  BY <1>1, <1>2, PlusType
<1> HIDE DEF y, z
<1>4. y.used = z.used /\ y.free = z.free /\ y.total = z.total
  BY <1>1, <1>2, <1>3 DEF AtLeast0
<1>5. y = z
  BY <1>3, <1>4 DEF Reading
<1> QED BY <1>5 DEF x, y, z

LEMMA PlusNothing == ASSUME NEW u \in Reading PROVE Plus(u, 0) = u
<1> DEFINE y == Plus(u, 0)
<1>1. y \in Reading /\ y.total = u.total /\ y.used = AtLeast0(u.used + 0) /\ y.free = AtLeast0(u.free - 0)
  BY PlusType
<1> HIDE DEF y
<1>2. y.used = u.used /\ y.free = u.free
  BY <1>1 DEF AtLeast0, Reading
<1>3. y = u
  BY <1>1, <1>2 DEF Reading
<1> QED BY <1>3 DEF y

\* What those of T bring to p's drive.
Load(S, to, T, p) == SumFunctionOnSet([j \in S |-> Item(j).size], {j \in T : SameVolume(to[j], p)})

\* Usage with all of T placed.
Loaded(u, usage, S, to, T) == \A p \in Usable : u[p] = Plus(usage[p], Load(S, to, T, p))

LEMMA LoadMeans ==
  ASSUME Given, NEW S \in SUBSET Items, NEW to, NEW T \in SUBSET S, NEW p
  PROVE  /\ Load(S, to, T, p) \in Nat
         /\ \A K \in SUBSET T : Load(S, to, K, p) <= Load(S, to, T, p)
         /\ \A i \in S \ T : Load(S, to, T \cup {i}, p) = Load(S, to, T, p) + IF SameVolume(to[i], p) THEN Item(i).size ELSE 0
<1> DEFINE f == [j \in S |-> Item(j).size]  On(K) == {j \in K : SameVolume(to[j], p)}
<1>1. \A j \in S : f[j] = Item(j).size /\ Item(j).size \in Nat
  BY GivenMeans DEF GivenItems
<1>2. \A K \in SUBSET S : On(K) \in SUBSET S /\ IsFiniteSet(On(K)) /\ \A j \in On(K) : f[j] \in Nat
  <2> TAKE K \in SUBSET S
  <2>1. On(K) \in SUBSET S /\ On(K) \in SUBSET Items
    OBVIOUS
  <2> HIDE DEF On, f
  <2>2. IsFiniteSet(On(K))
    BY <2>1, GivenMeans, FS_Subset DEF GivenItems
  <2> QED BY <1>1, <2>1, <2>2
<1>3. \A K : Load(S, to, K, p) = SumFunctionOnSet(f, On(K))
  BY DEF Load
<1>4. \A K \in SUBSET T : On(K) \in SUBSET On(T)
  OBVIOUS
<1>5. \A i \in S \ T : /\ SameVolume(to[i], p) => On(T \cup {i}) \ {i} = On(T) /\ i \in On(T \cup {i})
                       /\ ~SameVolume(to[i], p) => On(T \cup {i}) = On(T)
                       /\ T \cup {i} \in SUBSET S
  OBVIOUS
<1> HIDE DEF f, On
<1>6. Load(S, to, T, p) \in Nat
  BY <1>2, <1>3, SumType
<1>7. \A K \in SUBSET T : Load(S, to, K, p) <= Load(S, to, T, p)
  <2> TAKE K \in SUBSET T
  <2>1. SumFunctionOnSet(f, On(K)) <= SumFunctionOnSet(f, On(T))
    BY <1>2, <1>4, SumOfMore
  <2> QED BY <1>3, <2>1
<1>8. ASSUME NEW i \in S \ T
      PROVE  Load(S, to, T \cup {i}, p) = Load(S, to, T, p) + IF SameVolume(to[i], p) THEN Item(i).size ELSE 0
  <2>1. CASE SameVolume(to[i], p)
    <3> DEFINE L == On(T \cup {i})
    <3>1. i \in L /\ L \ {i} = On(T) /\ IsFiniteSet(L) /\ \A j \in L : f[j] \in Nat
      BY <1>2, <1>5, <2>1
    <3> HIDE DEF L
    <3>2. SumFunctionOnSet(f, L) = f[i] + SumFunctionOnSet(f, On(T))
      BY <3>1, SumWithout
    <3>3. f[i] = Item(i).size /\ Item(i).size \in Nat
      BY <1>1
    <3> QED BY <1>3, <1>6, <2>1, <3>2, <3>3 DEF L
  <2>2. CASE ~SameVolume(to[i], p)
    BY <1>3, <1>5, <1>6, <2>2
  <2> QED BY <2>1, <2>2
<1> QED BY <1>6, <1>7, <1>8

\* S side by side: each where it has room with all of the others there.
SideBySide(S, to, usage) ==
  /\ to \in [S -> Usable]
  /\ \A i \in S : /\ to[i] \in Accepting("hot", Item(i))
                  /\ Holds(Plus(usage[to[i]], Load(S, to, S \ {i}, to[i])), Item(i).size, Place(to[i]).max)

LEMMA SideBySideMeans ==
  ASSUME Given, NEW S \in SUBSET Items, NEW usage \in Usages, RoomForAll(S, usage)
  PROVE  \E to : SideBySide(S, to, usage)
<1> DEFINE f == [j \in S |-> Item(j).size]
<1>1. PICK to \in [S -> Usable] : \A i \in S :
        to[i] \in HotOptions(Apply(usage, to[i], SumFunctionOnSet(f, {j \in S \ {i} : SameVolume(to[j], to[i])})), Item(i))
  BY DEF RoomForAll
<1>2. \A i \in S : SumFunctionOnSet(f, {j \in S \ {i} : SameVolume(to[j], to[i])}) = Load(S, to, S \ {i}, to[i])
  BY DEF Load
<1>3. \A i \in S : to[i] \in HotOptions(Apply(usage, to[i], Load(S, to, S \ {i}, to[i])), Item(i))
  BY <1>1, <1>2
<1>4. ASSUME NEW i \in S
      PROVE  /\ to[i] \in Accepting("hot", Item(i))
             /\ Holds(Plus(usage[to[i]], Load(S, to, S \ {i}, to[i])), Item(i).size, Place(to[i]).max)
  <2> DEFINE n == Load(S, to, S \ {i}, to[i])  u == Apply(usage, to[i], n)  p == to[i]
  <2>1. p \in HotOptions(u, Item(i)) /\ p \in Usable
    BY <1>1, <1>3
  <2>2. n \in Nat
    <3>1. S \ {i} \in SUBSET S
      OBVIOUS
    <3> QED BY <3>1, LoadMeans
  <2> HIDE DEF n, p
  <2>3. u[p] = Plus(usage[p], n)
    <3>1. n \in Int /\ SameVolume(p, p)
      BY <2>2 DEF SameVolume
    <3> QED BY <2>1, <3>1, ApplyType DEF p
  <2> HIDE DEF u
  <2>4. p \in Accepting("hot", Item(i)) /\ Holds(u[p], Item(i).size, Place(p).max)
    BY <2>1 DEF HotOptions
  <2>5. p \in Accepting("hot", Item(i)) /\ Holds(Plus(usage[p], n), Item(i).size, Place(p).max)
    BY <2>3, <2>4
  <2> QED BY <2>5 DEF p, n
<1> QED BY <1>1, <1>4 DEF SideBySide

\* With some of S placed, each other has room where it is to go.
LEMMA RoomWhenLoaded ==
  ASSUME Given, NEW S \in SUBSET Items, NEW usage \in Usages, NEW to, SideBySide(S, to, usage),
         NEW u, NEW T \in SUBSET S, Loaded(u, usage, S, to, T), NEW i \in S \ T
  PROVE  to[i] \in HotOptions(u, Item(i))
<1> DEFINE p == to[i]  a == Load(S, to, T, p)  b == Load(S, to, S \ {i}, p)
<1>1. p \in Accepting("hot", Item(i)) /\ Holds(Plus(usage[p], b), Item(i).size, Place(p).max)
  BY DEF SideBySide
<1>2. p \in Usable /\ u[p] = Plus(usage[p], a)
  BY DEF SideBySide, Loaded
<1>3. a \in Nat /\ b \in Nat /\ a <= b
  <2>1. S \ {i} \in SUBSET S /\ T \in SUBSET (S \ {i})
    OBVIOUS
  <2> HIDE DEF p
  <2> QED BY <2>1, LoadMeans
<1>4. usage[p] \in Reading /\ Item(i).size \in Nat /\ Place(p).max \in Nat
  BY <1>2, GivenMeans DEF GivenItems, GivenPlaces, Usages
<1> HIDE DEF a, b, p
<1>5. Holds(u[p], Item(i).size, Place(p).max)
  BY <1>1, <1>2, <1>3, <1>4, LessHeld
<1> QED BY <1>1, <1>5 DEF HotOptions, p

LEMMA LoadedMore ==
  ASSUME Given, NEW S \in SUBSET Items, NEW usage \in Usages, NEW to \in [S -> Usable],
         NEW u \in Usages, NEW T \in SUBSET S, Loaded(u, usage, S, to, T), NEW i \in S \ T
  PROVE  Loaded(Apply(u, to[i], Item(i).size), usage, S, to, T \cup {i})
<1>1. ASSUME NEW p \in Usable PROVE Apply(u, to[i], Item(i).size)[p] = Plus(usage[p], Load(S, to, T \cup {i}, p))
  <2> DEFINE n == Item(i).size  a == Load(S, to, T, p)  b == Load(S, to, T \cup {i}, p)
  <2>1. n \in Nat /\ usage[p] \in Reading
    BY GivenMeans DEF GivenItems, Usages
  <2>2. a \in Nat /\ b = a + IF SameVolume(to[i], p) THEN n ELSE 0
    <3>1. Load(S, to, T, p) \in Nat
      BY LoadMeans
    <3>2. \A x \in S \ T : Load(S, to, T \cup {x}, p) = Load(S, to, T, p) + IF SameVolume(to[x], p) THEN Item(x).size ELSE 0
      BY LoadMeans, Zenon
    <3>3. Load(S, to, T \cup {i}, p) = Load(S, to, T, p) + IF SameVolume(to[i], p) THEN Item(i).size ELSE 0
      BY <3>2, Zenon
    <3> QED BY <3>1, <3>3
  <2>3. u[p] = Plus(usage[p], a)
    BY DEF Loaded
  <2>4. Apply(u, to[i], n)[p] = IF SameVolume(p, to[i]) THEN Plus(u[p], n) ELSE u[p]
    <3>1. n \in Int
      BY <2>1
    <3> QED BY <3>1, ApplyType
  <2>5. SameVolume(p, to[i]) <=> SameVolume(to[i], p)
    BY DEF SameVolume
  <2> HIDE DEF n, a, b
  <2>6. CASE SameVolume(p, to[i])
    <3>1. b = a + n
      BY <2>2, <2>5, <2>6
    <3>2. Plus(Plus(usage[p], a), n) = Plus(usage[p], a + n)
      BY <2>1, <2>2, PlusTwice
    <3> QED BY <2>3, <2>4, <2>6, <3>1, <3>2 DEF n, b
  <2>7. CASE ~SameVolume(p, to[i])
    <3>1. b = a
      BY <2>2, <2>5, <2>7
    <3> QED BY <2>3, <2>4, <2>7, <3>1 DEF n, b
  <2> QED BY <2>6, <2>7
<1> QED BY <1>1 DEF Loaded

\* A leaf of search's tree that places just T, where to says.
Placing(node, usage, S, to, T) ==
  node \in Nodes /\ Distinct(node.placed) /\ Taken(node.placed) = T /\ Loaded(node.usage, usage, S, to, T)

LEMMA SomeLeaf ==
  ASSUME Given, NEW pending \in SUBSET Items, NEW usage \in Usages, NEW S \in SUBSET pending,
         NEW to, SideBySide(S, to, usage)
  PROVE  \E leaf \in Elems(Leaves(pending, usage)) : Placing(leaf, usage, S, to, S)
<1>1. PICK n, s, g : Candidates(s, n, pending, usage) /\ LeafSteps(g, n, s, pending, usage)
  BY FoldLeaves
<1>2. /\ n \in Nat /\ s \in [1..n -> Items]
      /\ Placeable(pending, usage) = {s[k] : k \in 1..n}
      /\ \A j, k \in 1..n : s[j] = s[k] => j = k
  BY <1>1 DEF Candidates
<1>3. /\ g \in [0..n -> Seq(Nodes)] /\ g[0] = <<Unplaced(usage)>>
      /\ \A k \in 1..n : g[k] = Grow(g[k - 1], s[k])
      /\ Leaves(pending, usage) = g[n]
  BY <1>1 DEF LeafSteps
<1>4. S \in SUBSET Items /\ to \in [S -> Usable]
  BY DEF SideBySide
<1>5. Loaded(usage, usage, S, to, {})
  <2>1. \A p : Load(S, to, {}, p) = 0
    <3>1. \A p : {j \in {} : SameVolume(to[j], p)} = {}
      OBVIOUS
    <3> QED BY <3>1, SumOfNone DEF Load
  <2> QED BY <2>1, PlusNothing DEF Loaded, Usages
<1>6. S \subseteq {s[k] : k \in 1..n}
  <2>1. \A i \in S : to[i] \in HotOptions(usage, Item(i))
    <3> TAKE i \in S
    <3>1. {} \in SUBSET S /\ i \in S \ {}
      OBVIOUS
    <3> QED BY <1>4, <1>5, <3>1, RoomWhenLoaded
  <2> QED BY <1>2, <2>1 DEF Placeable
<1> DEFINE T(k) == S \cap {s[j] : j \in 1..k}
           G == {k \in 0..n : \E node \in Elems(g[k]) : Placing(node, usage, S, to, T(k))}
<1>7. 0 \in G
  <2>1. T(0) = {} /\ 0 \in 0..n
    BY <1>2
  <2>2. Unplaced(usage) \in Elems(g[0])
    <3>1. Len(g[0]) = 1 /\ g[0][1] = Unplaced(usage)
      BY <1>3
    <3> QED BY <3>1 DEF Elems
  <2>3. Placing(Unplaced(usage), usage, S, to, {})
    <3>1. Unplaced(usage).placed = <<>> /\ Unplaced(usage).usage = usage /\ Unplaced(usage) \in Nodes
      BY DEF Unplaced, Nodes
    <3>2. Distinct(<<>>)
      BY DEF Distinct
    <3> QED BY <1>5, <3>1, <3>2, NoneTaken DEF Placing
  <2> QED BY <2>1, <2>2, <2>3
<1>8. ASSUME NEW k \in 0..n - 1, k \in G PROVE k + 1 \in G
  <2> DEFINE l == k + 1  i == s[k + 1]
  <2>1. l \in 1..n /\ l - 1 = k /\ k \in 0..n /\ l \in 0..n /\ 1..l = 1..k \cup {l} /\ 1..k \subseteq 1..n /\ l \notin 1..k
    BY <1>2
  <2>2. i \in Items /\ i \notin {s[j] : j \in 1..k} /\ {s[j] : j \in 1..l} = {s[j] : j \in 1..k} \cup {i}
    BY <1>2, <2>1
  <2>3. PICK node \in Elems(g[k]) : Placing(node, usage, S, to, T(k))
    BY <1>8
  <2> HIDE DEF l
  <2>4. g[l] = Grow(g[k], i) /\ g[k] \in Seq(Nodes)
    BY <1>3, <2>1 DEF l
  <2>5. Elems(g[l]) = Grown(Elems(g[k]), i)
    BY <2>2, <2>4, GrowMeans
  <2>6. CASE i \notin S
    <3>1. T(l) = T(k)
      BY <2>2, <2>6
    <3>2. node \in Elems(g[l])
      BY <2>3, <2>5 DEF Grown
    <3> QED BY <2>1, <2>3, <3>1, <3>2 DEF l
  <2>7. CASE i \in S
    <3>1. T(l) = T(k) \cup {i} /\ T(k) \in SUBSET S /\ i \in S \ T(k)
      BY <2>2, <2>7
    <3> HIDE DEF T, i
    <3>2. /\ node \in Nodes /\ Distinct(node.placed) /\ Taken(node.placed) = T(k)
          /\ Loaded(node.usage, usage, S, to, T(k))
          /\ node.placed \in Seq(Items \X Usable) /\ node.usage \in Usages
      BY <2>3 DEF Placing, Nodes
    <3>3. to[i] \in HotOptions(node.usage, Item(i)) /\ to[i] \in Usable
      BY <1>4, <3>1, <3>2, RoomWhenLoaded
    <3> DEFINE more == Put(node, i, to[i])
    <3>4. more \in Elems(g[l])
      BY <2>3, <2>5, <3>3 DEF Grown, Spread
    <3>5. /\ more \in Nodes /\ more.placed = Append(node.placed, <<i, to[i]>>)
          /\ more.usage = Apply(node.usage, to[i], Item(i).size)
      BY <2>2, <3>2, <3>3, PutMeans
    <3>6. OneMore(more.placed, node.placed, i, to[i])
      BY <2>2, <3>2, <3>3, <3>5, OneMoreTaken, SMTT(30)
    <3>7. Loaded(more.usage, usage, S, to, T(l))
      <4>1. Loaded(Apply(node.usage, to[i], Item(i).size), usage, S, to, T(k) \cup {i})
        <5> DEFINE K == T(k)  u == node.usage
        <5>1. K \in SUBSET S /\ i \in S \ K /\ u \in Usages /\ Loaded(u, usage, S, to, K)
          BY <3>1, <3>2
        <5> HIDE DEF K, u
        <5>2. Loaded(Apply(u, to[i], Item(i).size), usage, S, to, K \cup {i})
          BY <1>4, <5>1, LoadedMore
        <5> QED BY <5>2 DEF K, u
      <4> QED BY <3>1, <3>5, <4>1
    <3>8. Distinct(more.placed) /\ Taken(more.placed) = T(l)
      BY <3>1, <3>2, <3>6 DEF OneMore
    <3>9. Placing(more, usage, S, to, T(l))
      BY <3>5, <3>7, <3>8 DEF Placing
    <3>10. l \in G
      BY <2>1, <3>4, <3>9
    <3> QED BY <3>10 DEF l
  <2> QED BY <2>6, <2>7
<1>9. n \in G
  <2>1. \A k \in 0..n - 1 : k \in G => k + 1 \in G
    BY <1>8
  <2>2. n \in Nat /\ n \in 0..n
    BY <1>2
  <2> HIDE DEF G
  <2>3. 0..n \subseteq G
    BY <1>7, <2>1, <2>2, UpTo
  <2> QED BY <2>2, <2>3
<1>10. T(n) = S
  BY <1>6
<1> HIDE DEF T
<1> QED BY <1>3, <1>9, <1>10

LEMMA NoLargerSet ==
  ASSUME Given, NEW pending \in SUBSET Items, NEW usage \in Usages, NEW S \in SUBSET pending,
         NEW to, SideBySide(S, to, usage)
  PROVE  Cardinality(S) <= Len(AllocateReclaims(pending, usage))
<1>1. PICK leaf \in Elems(Leaves(pending, usage)) : Placing(leaf, usage, S, to, S)
  BY SomeLeaf
<1>2. Cardinality(S) = Len(leaf.placed)
  BY <1>1, TakenSize DEF Placing, Nodes
<1>3. IsFiniteSet(pending) /\ Cardinality(S) <= Cardinality(pending)
  <2>1. IsFiniteSet(pending)
    BY GivenMeans, FS_Subset DEF GivenItems
  <2> QED BY <2>1, FS_Subset
<1>4. PICK node \in Seatings(pending, usage) :
        /\ AllocateReclaims(pending, usage) = node.placed
        /\ \/ Len(node.placed) = Cardinality(pending)
           \/ \A x \in Elems(Leaves(pending, usage)) : Len(x.placed) <= Len(node.placed)
  BY AllocateMeans
<1> QED BY <1>1, <1>2, <1>3, <1>4

\* "The largest feasible reclaim set in one phase": no choice of items and of
\* paths that fit together would bring more of them back than what
\* planner.allocateReclaims places. search tries every item on every path that
\* has room, and what fits with all the others there fits before they are.
THEOREM LargestReclaimsHolds == Spec => []LargestReclaims
<1>1. Typed => LargestReclaims
  <2> SUFFICES ASSUME Typed, NEW S \in SUBSET reclaims, RoomForAll(S, working)
               PROVE  Cardinality(S) <= Len(AllocateReclaims(reclaims, working))
    BY DEF LargestReclaims
  <2>1. Given /\ reclaims \in SUBSET Items /\ working \in Usages
    BY TypedMeans
  <2>2. S \in SUBSET Items
    BY <2>1
  <2>3. PICK to : SideBySide(S, to, working)
    BY <2>1, <2>2, SideBySideMeans
  <2> QED BY <2>1, <2>3, NoLargerSet
<1> QED BY <1>1, TypedHolds, PTL

-----------------------------------------------------------------------------
(* A fill waits for the reclaims that have room *)

\* No hot path shares its drive with a cold one, or with one of another ceiling or reading.
Apart ==
  \A p, q \in Usable :
    Place(p).role = "hot" /\ SameVolume(p, q) =>
      /\ Place(q).role # "cold"
      /\ Place(q).role = "hot" => Place(q).max = Place(p).max /\ input.usage[q] = input.usage[p]

LEMMA ApartMeans == ~SharedUnevenly => Apart
BY DEF SharedUnevenly, Apart

\* The hot paths of a drive have as much left.
Paired(usage) ==
  \A p, q \in Usable : Place(p).role = "hot" /\ Place(q).role = "hot" /\ SameVolume(p, q) => usage[q] = usage[p]

\* What has room last would have had it in the place of any other on that drive.
LEMMA InAnyOrder ==
  ASSUME NEW u \in Reading, NEW l \in Nat, NEW n \in Nat, NEW k \in Nat, NEW m \in Nat,
         k <= l, l <= u.free, Holds(Plus(u, l), n, m)
  PROVE  l + n <= u.free /\ l + n - k \in Nat /\ Holds(Plus(u, l + n - k), k, m)
<1> DEFINE d == l + n - k  x == Plus(u, d)  y == Plus(u, l)
<1>1. u.used \in Nat /\ u.free \in Nat /\ u.total \in Nat /\ d \in Nat /\ d \in Int /\ l \in Int
  BY DEF Reading
<1>2. /\ x \in Reading /\ x.total = u.total /\ x.used = AtLeast0(u.used + d) /\ x.free = AtLeast0(u.free - d)
      /\ y \in Reading /\ y.total = u.total /\ y.used = AtLeast0(u.used + l) /\ y.free = AtLeast0(u.free - l)
  BY <1>1, PlusType
<1> HIDE DEF x, y
<1>3. y.used = u.used + l /\ y.free = u.free - l
  BY <1>1, <1>2 DEF AtLeast0
<1>4. /\ u.total # 0 /\ n <= y.free
      /\ 100 * (y.used + n) <= m * (y.used + y.free) /\ y.used + n <= u.total
  BY <1>2, HoldsMeans DEF y
<1>5. l + n <= u.free /\ d + k = l + n /\ d <= u.free
  BY <1>1, <1>3, <1>4
<1>6. x.used = u.used + d /\ x.free = u.free - d
  BY <1>1, <1>2, <1>5 DEF AtLeast0
<1>7. x.used + k = y.used + n /\ x.used + x.free = y.used + y.free /\ k <= x.free
  BY <1>1, <1>3, <1>5, <1>6
<1>8. Holds(x, k, m)
  <2>1. /\ x.total # 0 /\ k <= x.free
        /\ 100 * (x.used + k) <= m * (x.used + x.free) /\ x.used + k <= x.total
    BY <1>2, <1>4, <1>7
  <2> QED BY <1>2, <2>1, HoldsMeans
<1> QED BY <1>1, <1>5, <1>8 DEF x

LEMMA LoadAlike ==
  ASSUME NEW S, NEW to, NEW T, NEW p, NEW q, SameVolume(p, q)
  PROVE  Load(S, to, T, p) = Load(S, to, T, q)
<1>1. {j \in T : SameVolume(to[j], p)} = {j \in T : SameVolume(to[j], q)}
  BY DEF SameVolume
<1> QED BY <1>1 DEF Load

\* Each of T has room with all of the others of T there.
Sitting(S, to, T, usage) ==
  /\ \A p \in Usable : Place(p).role = "hot" => Load(S, to, T, p) <= usage[p].free
  /\ \A j \in T : /\ to[j] \in Accepting("hot", Item(j))
                  /\ Holds(Plus(usage[to[j]], Load(S, to, T \ {j}, to[j])), Item(j).size, Place(to[j]).max)

LEMMA OneMoreSits ==
  ASSUME Given, Apart, NEW S \in SUBSET Items, NEW to \in [S -> Usable], NEW usage \in Usages, Paired(usage),
         NEW T \in SUBSET S, NEW i \in S \ T, NEW u, Loaded(u, usage, S, to, T),
         to[i] \in HotOptions(u, Item(i)), Sitting(S, to, T, usage)
  PROVE  Sitting(S, to, T \cup {i}, usage)
<1> DEFINE p == to[i]  l == Load(S, to, T, p)  n == Item(i).size  R == T \cup {i}
<1>1. /\ p \in Usable /\ Place(p).role = "hot" /\ p \in Accepting("hot", Item(i))
      /\ Holds(Plus(usage[p], l), n, Place(p).max)
  BY DEF HotOptions, Accepting, Loaded
<1>2. /\ l \in Nat /\ n \in Nat /\ l <= usage[p].free /\ usage[p] \in Reading /\ Place(p).max \in Nat
  <2>1. l \in Nat
    BY LoadMeans
  <2>2. n \in Nat /\ usage[p] \in Reading /\ Place(p).max \in Nat
    BY <1>1, GivenMeans DEF GivenItems, GivenPlaces, Usages
  <2>3. l <= usage[p].free
    BY <1>1 DEF Sitting
  <2> QED BY <2>1, <2>2, <2>3
<1>3. \A K \in SUBSET S, j \in S, q \in Usable : j \notin K =>
        /\ Load(S, to, K, q) \in Nat
        /\ SameVolume(to[j], q) => Load(S, to, K \cup {j}, q) = Load(S, to, K, q) + Item(j).size
        /\ ~SameVolume(to[j], q) => Load(S, to, K \cup {j}, q) = Load(S, to, K, q)
  <2> TAKE K \in SUBSET S, j \in S, q \in Usable
  <2> HAVE j \notin K
  <2>1. Load(S, to, K, q) \in Nat
    BY LoadMeans
  <2>2. \A x \in S \ K : Load(S, to, K \cup {x}, q) = Load(S, to, K, q) + IF SameVolume(to[x], q) THEN Item(x).size ELSE 0
    BY LoadMeans, Zenon
  <2>3. Load(S, to, K \cup {j}, q) = Load(S, to, K, q) + IF SameVolume(to[j], q) THEN Item(j).size ELSE 0
    BY <2>2, Zenon
  <2> QED BY <2>1, <2>3
<1>4. \A q \in Usable : Place(q).role = "hot" /\ SameVolume(p, q) =>
        usage[q] = usage[p] /\ Place(q).max = Place(p).max /\ Load(S, to, T, q) = l
  <2> TAKE q \in Usable
  <2> HAVE Place(q).role = "hot" /\ SameVolume(p, q)
  <2>1. usage[q] = usage[p] /\ Place(q).max = Place(p).max
    BY <1>1 DEF Paired, Apart
  <2>2. Load(S, to, T, p) = Load(S, to, T, q)
    BY LoadAlike
  <2> QED BY <2>1, <2>2
<1>5. l + n <= usage[p].free
  <2>1. 0 <= l /\ 0 \in Nat
    BY <1>2
  <2> HIDE DEF l, n, p
  <2> QED BY <1>1, <1>2, <2>1, InAnyOrder
<1>6. ASSUME NEW q \in Usable, Place(q).role = "hot" PROVE Load(S, to, R, q) <= usage[q].free
  <2>1. CASE SameVolume(p, q)
    <3>1. Load(S, to, R, q) = Load(S, to, T, q) + n
      BY <1>3, <2>1
    <3>2. Load(S, to, T, q) = l /\ usage[q] = usage[p]
      BY <1>4, <1>6, <2>1
    <3> HIDE DEF l, n, p, R
    <3> QED BY <1>5, <3>1, <3>2
  <2>2. CASE ~SameVolume(p, q)
    <3>1. Load(S, to, R, q) = Load(S, to, T, q)
      BY <1>3, <2>2
    <3> HIDE DEF R
    <3> QED BY <1>6, <3>1 DEF Sitting
  <2> QED BY <2>1, <2>2
<1>7. ASSUME NEW j \in R
      PROVE  /\ to[j] \in Accepting("hot", Item(j))
             /\ Holds(Plus(usage[to[j]], Load(S, to, R \ {j}, to[j])), Item(j).size, Place(to[j]).max)
  <2>1. CASE j = i
    <3>1. R \ {j} = T
      BY <2>1
    <3> HIDE DEF R
    <3> QED BY <1>1, <2>1, <3>1
  <2>2. CASE j # i
    <3> DEFINE q == to[j]  K == T \ {j}  k == Item(j).size
    <3>1. /\ j \in T /\ K \in SUBSET S /\ K \cup {j} = T /\ R \ {j} = K \cup {i} /\ j \notin K /\ i \notin K
          /\ q \in Usable /\ q \in Accepting("hot", Item(j)) /\ Place(q).role = "hot"
          /\ Holds(Plus(usage[q], Load(S, to, K, q)), k, Place(q).max)
      BY <2>2 DEF Sitting, Accepting
    <3>2. Load(S, to, K, q) \in Nat /\ k \in Nat
      BY <1>3, <3>1, GivenMeans DEF GivenItems
    <3>5. /\ SameVolume(p, q) => Load(S, to, K \cup {i}, q) = Load(S, to, K, q) + n
          /\ ~SameVolume(p, q) => Load(S, to, K \cup {i}, q) = Load(S, to, K, q)
      <4>1. i \in S /\ i \notin K /\ K \in SUBSET S /\ q \in Usable
        BY <3>1
      <4> HIDE DEF K, q
      <4>2. /\ SameVolume(to[i], q) => Load(S, to, K \cup {i}, q) = Load(S, to, K, q) + Item(i).size
            /\ ~SameVolume(to[i], q) => Load(S, to, K \cup {i}, q) = Load(S, to, K, q)
        BY <1>3, <4>1, Zenon
      <4> QED BY <4>2
    <3>3. CASE SameVolume(p, q)
      <4>1. Load(S, to, K \cup {i}, q) = Load(S, to, K, q) + n
        BY <3>5, <3>3
      <4>2. SameVolume(q, q)
        BY DEF SameVolume
      <4>3. Load(S, to, T, q) = Load(S, to, K, q) + k
        <5>1. j \in S /\ j \notin K /\ K \in SUBSET S /\ q \in Usable /\ K \cup {j} = T
          BY <3>1
        <5> HIDE DEF K
        <5>2. SameVolume(to[j], q) => Load(S, to, K \cup {j}, q) = Load(S, to, K, q) + Item(j).size
          BY <1>3, <5>1, ZenonT(40)
        <5> QED BY <4>2, <5>1, <5>2
      <4>4. usage[q] = usage[p] /\ Place(q).max = Place(p).max /\ Load(S, to, T, q) = l
        BY <1>4, <3>1, <3>3
      <4> DEFINE e == Load(S, to, K, q)
      <4>5. e \in Nat /\ l = e + k /\ Load(S, to, R \ {j}, q) = e + n
        BY <3>1, <3>2, <4>1, <4>3, <4>4
      <4> HIDE DEF e, l, n, k, p, q, R
      <4>6. k <= l /\ l + n - k = e + n
        BY <1>2, <3>2, <4>5
      <4>7. Holds(Plus(usage[p], l + n - k), k, Place(p).max)
        BY <1>1, <1>2, <3>2, <4>6, InAnyOrder
      <4>8. Holds(Plus(usage[q], Load(S, to, R \ {j}, q)), k, Place(q).max)
        BY <4>4, <4>5, <4>6, <4>7
      <4> QED BY <3>1, <4>8 DEF q, k
    <3>4. CASE ~SameVolume(p, q)
      <4>1. Load(S, to, K \cup {i}, q) = Load(S, to, K, q)
        BY <3>5, <3>4
      <4> HIDE DEF R
      <4> QED BY <3>1, <4>1
    <3> QED BY <3>3, <3>4
  <2> QED BY <2>1, <2>2
<1> QED BY <1>6, <1>7 DEF Sitting

\* What can be placed one after another fits side by side, where hot paths of a
\* drive have one ceiling.
LEMMA SeatedTogether ==
  ASSUME Given, Apart, NEW pending \in SUBSET Items, NEW usage \in Usages, Paired(usage),
         NEW node \in Seatings(pending, usage)
  PROVE  \E to : SideBySide(Taken(node.placed), to, usage)
<1> DEFINE s == node.placed  n == Len(s)  S == Taken(s)
           to == [i \in S |-> s[CHOOSE k \in 1..n : s[k][1] = i][2]]
<1>1. s \in Seq(Items \X Usable) /\ Distinct(s)
  BY DEF Seatings, Nodes
<1>2. /\ n \in Nat /\ S = {s[k][1] : k \in 1..n} /\ S \subseteq Items
      /\ \A k \in 1..n : s[k][1] \in Items /\ s[k][2] \in Usable
  <2>1. TakenIs(s, Items, Usable)
    BY <1>1, TakenMeans
  <2> QED BY <2>1 DEF TakenIs
<1>3. \A j, k \in 1..n : s[j][1] = s[k][1] => j = k
  BY <1>1 DEF Distinct
<1>4. PICK h : Seats(h, s, usage)
  BY DEF Seatings
<1>5. /\ h \in [0..n -> Usages] /\ h[0] = usage
      /\ \A k \in 1..n : /\ s[k][2] \in HotOptions(h[k - 1], Item(s[k][1]))
                         /\ h[k] = Apply(h[k - 1], s[k][2], Item(s[k][1]).size)
  BY <1>4 DEF Seats
<1> HIDE DEF s, n, S
<1>6. \A k \in 1..n : s[k][1] \in S /\ to[s[k][1]] = s[k][2]
  <2> TAKE k \in 1..n
  <2> DEFINE j == CHOOSE j \in 1..n : s[j][1] = s[k][1]
  <2>1. j \in 1..n /\ s[j][1] = s[k][1]
    OBVIOUS
  <2>2. j = k
    BY <1>3, <2>1
  <2>3. s[k][1] \in S
    BY <1>2
  <2>4. to[s[k][1]] = s[j][2]
    BY <2>3
  <2> HIDE DEF j
  <2> QED BY <2>2, <2>3, <2>4
<1>7. to \in [S -> Usable]
  <2>1. \A i \in S : to[i] \in Usable
    BY <1>2, <1>6
  <2> QED BY <2>1
<1> HIDE DEF to
<1> DEFINE T(k) == {s[j][1] : j \in 1..k}
           G == {k \in 0..n : Loaded(h[k], usage, S, to, T(k)) /\ Sitting(S, to, T(k), usage)}
<1>8. 0 \in G
  <2>1. T(0) = {} /\ 0 \in 0..n
    BY <1>2
  <2>2. \A p : Load(S, to, {}, p) = 0
    <3>1. \A p : {j \in {} : SameVolume(to[j], p)} = {}
      OBVIOUS
    <3> QED BY <3>1, SumOfNone DEF Load
  <2>3. \A p \in Usable : usage[p] \in Reading /\ usage[p].free \in Nat
    BY DEF Usages, Reading
  <2>4. Loaded(h[0], usage, S, to, {})
    BY <1>5, <2>2, <2>3, PlusNothing DEF Loaded
  <2>5. Sitting(S, to, {}, usage)
    <3>1. \A p \in Usable : Load(S, to, {}, p) <= usage[p].free
      BY <2>2, <2>3
    <3> QED BY <3>1 DEF Sitting
  <2> HIDE DEF T
  <2> QED BY <2>1, <2>4, <2>5
<1>9. ASSUME NEW k \in 0..n - 1, k \in G PROVE k + 1 \in G
  <2> DEFINE l == k + 1  i == s[k + 1][1]
  <2>1. l \in 1..n /\ l - 1 = k /\ k \in 0..n /\ l \in 0..n /\ 1..l = 1..k \cup {l} /\ 1..k \subseteq 1..n /\ l \notin 1..k
    BY <1>2
  <2>2. T(k) \in SUBSET S /\ i \in S \ T(k) /\ T(l) = T(k) \cup {i} /\ to[i] = s[l][2] /\ i \in Items
    <3>1. i \in S /\ to[i] = s[l][2] /\ i \in Items
      BY <1>2, <1>6, <2>1
    <3>2. i \notin T(k)
      BY <1>3, <2>1
    <3>3. T(k) \subseteq S /\ T(l) = T(k) \cup {i}
      BY <1>2, <2>1
    <3> QED BY <3>1, <3>2, <3>3
  <2>3. Loaded(h[k], usage, S, to, T(k)) /\ Sitting(S, to, T(k), usage) /\ h[k] \in Usages
    BY <1>5, <1>9, <2>1
  <2>4. to[i] \in HotOptions(h[k], Item(i)) /\ h[l] = Apply(h[k], to[i], Item(i).size)
    BY <1>5, <2>1, <2>2
  <2> DEFINE R == T(k)  u == h[k]
  <2>5. R \in SUBSET S /\ i \in S \ R /\ Loaded(u, usage, S, to, R) /\ Sitting(S, to, R, usage) /\ u \in Usages
        /\ to[i] \in HotOptions(u, Item(i))
    BY <2>2, <2>3, <2>4
  <2>6. S \in SUBSET Items
    BY <1>2
  <2> HIDE DEF R, u, i, l
  <2>7. Loaded(Apply(u, to[i], Item(i).size), usage, S, to, R \cup {i})
    BY <1>7, <2>5, <2>6, LoadedMore
  <2>8. Sitting(S, to, R \cup {i}, usage)
    BY <1>7, <2>5, <2>6, OneMoreSits
  <2>9. Loaded(h[l], usage, S, to, T(l)) /\ Sitting(S, to, T(l), usage)
    BY <2>2, <2>4, <2>7, <2>8 DEF R, u
  <2> HIDE DEF T
  <2> QED BY <2>1, <2>9 DEF l
<1>10. n \in G
  <2>1. \A k \in 0..n - 1 : k \in G => k + 1 \in G
    BY <1>9
  <2>2. n \in 0..n
    BY <1>2
  <2> HIDE DEF G
  <2>3. 0..n \subseteq G
    BY <1>2, <1>8, <2>1, UpTo
  <2> QED BY <2>2, <2>3
<1>11. T(n) = S
  BY <1>2
<1>12. Sitting(S, to, S, usage)
  <2> HIDE DEF T
  <2> QED BY <1>10, <1>11
<1>13. SideBySide(S, to, usage)
  BY <1>7, <1>12 DEF SideBySide, Sitting
<1> QED BY <1>13 DEF S, s

\* After a phase of reclaims, none of those left has room.
LEMMA AllocationStuck ==
  ASSUME Given, Apart, NEW pending \in SUBSET Items, NEW usage \in Usages, Paired(usage),
         NEW node \in Seatings(pending, usage), AllocateReclaims(pending, usage) = node.placed
  PROVE  Stuck(node, pending)
<1> SUFFICES ASSUME NEW i \in pending, i \notin Taken(node.placed), HotOptions(node.usage, Item(i)) # {}
             PROVE  FALSE
  BY DEF Stuck, Placeable
<1>1. PICK p \in HotOptions(node.usage, Item(i)) : TRUE
  OBVIOUS
<1> DEFINE more == Put(node, i, p)  S == Taken(more.placed)
<1>2. i \in Items /\ p \in Usable /\ node \in Nodes /\ node.placed \in Seq(Items \X Usable) /\ Len(node.placed) \in Nat
  BY <1>1, OptionsType DEF Seatings, Nodes
<1>3. more \in Seatings(pending, usage)
  BY <1>1, <1>2, SeatedMore
<1>4. more.placed = Append(node.placed, <<i, p>>)
  BY <1>2, PutMeans
<1>5. Len(more.placed) = Len(node.placed) + 1
  BY <1>2, <1>4
<1> HIDE DEF more
<1>6. more.placed \in Seq(Items \X Usable) /\ Distinct(more.placed) /\ S \in SUBSET pending
  BY <1>3 DEF Seatings, Nodes
<1>7. Cardinality(S) = Len(node.placed) + 1
  BY <1>5, <1>6, TakenSize
<1>8. PICK to : SideBySide(S, to, usage)
  BY <1>3, SeatedTogether
<1> HIDE DEF S
<1>9. Cardinality(S) <= Len(AllocateReclaims(pending, usage))
  BY <1>6, <1>8, NoLargerSet
<1> QED BY <1>2, <1>7, <1>9

\* The hot paths are alike in both.
Agree(u, v) == \A p \in Usable : Place(p).role = "hot" => u[p] = v[p]

LEMMA AgreeMeans ==
  ASSUME NEW u, NEW v, Agree(u, v), NEW pending
  PROVE  Placeable(pending, u) = Placeable(pending, v)
<1>1. \A i : HotOptions(u, Item(i)) = HotOptions(v, Item(i))
  BY DEF Agree, HotOptions, Accepting
<1> QED BY <1>1 DEF Placeable

LEMMA PairedKept ==
  ASSUME NEW usage \in Usages, NEW p, NEW d \in Int, Paired(usage)
  PROVE  Paired(Apply(usage, p, d))
<1>1. \A q, r \in Usable : SameVolume(q, r) => (SameVolume(q, p) <=> SameVolume(r, p))
  BY DEF SameVolume
<1>2. \A q \in Usable : Apply(usage, p, d)[q] = IF SameVolume(q, p) THEN Plus(usage[q], d) ELSE usage[q]
  BY ApplyType
<1> QED BY <1>1, <1>2 DEF Paired

LEMMA MovePaired ==
  ASSUME NEW usage \in Usages, NEW p, NEW q, NEW d \in Nat, Paired(usage)
  PROVE  Paired(Move(usage, p, q, d))
<1>1. -d \in Int /\ d \in Int
  OBVIOUS
<1>2. Apply(usage, p, -d) \in Usages
  BY <1>1, ApplyType
<1>3. Paired(Apply(usage, p, -d))
  BY <1>1, PairedKept
<1> QED BY <1>1, <1>2, <1>3, PairedKept DEF Move

\* What leaves a cold path leaves no hot one.
LEMMA ColdLeaves ==
  ASSUME Apart, NEW usage \in Usages, NEW p \in Usable, Place(p).role = "cold", NEW d \in Int
  PROVE  Agree(Apply(usage, p, d), usage)
<1>1. \A q \in Usable : Place(q).role = "hot" => ~SameVolume(q, p)
  BY DEF Apart
<1> QED BY <1>1, ApplyType DEF Agree

LEMMA ReclaimedAgree ==
  ASSUME Apart, NEW u \in Usages, NEW v \in Usages, Agree(u, v),
         NEW x, Item(x[1]).size \in Nat, Item(x[1]).on \in Usable, Place(Item(x[1]).on).role = "cold"
  PROVE  Agree(Reclaimed(u, x), Apply(v, x[2], Item(x[1]).size))
<1> DEFINE d == Item(x[1]).size  p == Item(x[1]).on  w == Apply(u, p, -d)
<1>1. d \in Int /\ -d \in Int
  OBVIOUS
<1>2. w \in Usages /\ Agree(w, u)
  BY <1>1, ApplyType, ColdLeaves
<1>3. Reclaimed(u, x) = Apply(w, x[2], d)
  BY DEF Reclaimed, Move
<1> HIDE DEF w, d, p
<1>4. /\ \A q \in Usable : Apply(w, x[2], d)[q] = IF SameVolume(q, x[2]) THEN Plus(w[q], d) ELSE w[q]
      /\ \A q \in Usable : Apply(v, x[2], d)[q] = IF SameVolume(q, x[2]) THEN Plus(v[q], d) ELSE v[q]
  BY <1>1, <1>2, ApplyType
<1>5. Agree(Apply(w, x[2], d), Apply(v, x[2], d))
  BY <1>2, <1>4 DEF Agree
<1> QED BY <1>3, <1>5 DEF d

\* None of what a phase leaves over has room once the phase has landed.
LEMMA NoneLeftBehind ==
  ASSUME Given, Apart, NEW pending \in SUBSET Misplaced, NEW usage \in Usages, Paired(usage),
         NEW node \in Seatings(pending, usage), AllocateReclaims(pending, usage) = node.placed
  PROVE  LET after == FoldLeft(Reclaimed, usage, node.placed)
         IN Paired(after) /\ Placeable(pending \ Taken(node.placed), after) = {}
<1> DEFINE s == node.placed  n == Len(s)
<1>0. pending \in SUBSET Items
  BY CandidatesMean
<1>1. s \in Seq(Items \X Usable) /\ Taken(s) \subseteq pending
  BY DEF Seatings, Nodes
<1>2. Stuck(node, pending)
  BY <1>0, AllocationStuck
<1>3. PICK h : Seats(h, s, usage) /\ h[n] = node.usage
  BY DEF Seatings
<1>4. PICK g : ReclaimSteps(g, s, usage)
  BY <1>1, FoldReclaimed
<1> HIDE DEF s
<1>5. TakenIs(s, Items, Usable)
  BY <1>1, TakenMeans
<1>6. /\ n \in Nat /\ \A k \in 1..n : s[k][1] \in Items /\ s[k][1] \in pending
  BY <1>1, <1>5 DEF TakenIs
<1>7. \A k \in 1..n : /\ Item(s[k][1]).size \in Nat /\ Item(s[k][1]).on \in Usable
                      /\ Place(Item(s[k][1]).on).role = "cold"
  <2> TAKE k \in 1..n
  <2>1. s[k][1] \in Items /\ s[k][1] \in Misplaced
    BY <1>6
  <2> QED BY <2>1, GivenMeans, CandidatesMean DEF GivenItems
<1>8. /\ h \in [0..n -> Usages] /\ h[0] = usage
      /\ \A k \in 1..n : h[k] = Apply(h[k - 1], s[k][2], Item(s[k][1]).size)
  BY <1>3 DEF Seats
<1>9. /\ g \in [0..n -> Usages] /\ g[0] = usage
      /\ \A k \in 1..n : g[k] = Reclaimed(g[k - 1], s[k])
      /\ FoldLeft(Reclaimed, usage, s) = g[n]
  BY <1>4 DEF ReclaimSteps
<1> HIDE DEF n
<1> DEFINE G == {k \in 0..n : Agree(g[k], h[k]) /\ Paired(g[k])}
<1>10. 0 \in G
  BY <1>6, <1>8, <1>9 DEF Agree
<1>11. ASSUME NEW k \in 0..n - 1, k \in G PROVE k + 1 \in G
  <2> DEFINE l == k + 1
  <2>1. l \in 1..n /\ l - 1 = k /\ k \in 0..n /\ l \in 0..n
    BY <1>6
  <2> HIDE DEF l
  <2>2. g[k] \in Usages /\ h[k] \in Usages /\ Agree(g[k], h[k]) /\ Paired(g[k])
    BY <1>8, <1>9, <1>11, <2>1
  <2>3. g[l] = Reclaimed(g[k], s[l]) /\ h[l] = Apply(h[k], s[l][2], Item(s[l][1]).size)
    BY <1>8, <1>9, <2>1
  <2>4. Agree(Reclaimed(g[k], s[l]), Apply(h[k], s[l][2], Item(s[l][1]).size))
    BY <1>7, <2>1, <2>2, ReclaimedAgree
  <2>5. Paired(Reclaimed(g[k], s[l]))
    BY <1>7, <2>1, <2>2, MovePaired DEF Reclaimed
  <2> QED BY <2>1, <2>3, <2>4, <2>5 DEF l
<1>12. n \in G
  <2>1. \A k \in 0..n - 1 : k \in G => k + 1 \in G
    BY <1>11
  <2>2. n \in 0..n
    BY <1>6
  <2> HIDE DEF G
  <2>3. 0..n \subseteq G
    BY <1>6, <1>10, <2>1, UpTo
  <2> QED BY <2>2, <2>3
<1>13. Agree(g[n], node.usage) /\ Paired(g[n])
  BY <1>3, <1>12 DEF n
<1>14. Placeable(pending \ Taken(s), g[n]) = Placeable(pending \ Taken(s), node.usage)
  BY <1>13, AgreeMeans
<1>15. Placeable(pending \ Taken(s), node.usage) = {}
  BY <1>2 DEF Stuck, s
<1> QED BY <1>9, <1>13, <1>14, <1>15 DEF s, n

LEMMA NoneCounted ==
  ASSUME Given, NEW pending \in SUBSET Items, NEW usage \in Usages
  PROVE  Placeable(pending, usage) = {} <=> PlaceableReclaimCount(pending, usage) = 0
<1>1. PICK node \in Seatings(pending, usage) : Stuck(node, pending) /\ Greedy(pending, usage) = node.placed
  BY GreedyMeans
<1> DEFINE s == node.placed
<1>2. s \in Seq(Items \X Usable) /\ Taken(s) \subseteq pending /\ Len(s) \in Nat
  BY DEF Seatings, Nodes
<1>3. PlaceableReclaimCount(pending, usage) = Len(s)
  BY <1>1 DEF PlaceableReclaimCount
<1>4. PICK h : Seats(h, s, usage) /\ h[Len(s)] = node.usage
  BY DEF Seatings
<1> HIDE DEF s
<1>5. ASSUME Len(s) # 0 PROVE Placeable(pending, usage) # {}
  <2>1. 1 \in 1..Len(s) /\ 1 - 1 = 0
    BY <1>2, <1>5
  <2>2. s[1][2] \in HotOptions(h[1 - 1], Item(s[1][1])) /\ h[0] = usage
    BY <1>4, <2>1 DEF Seats
  <2>3. s[1][1] \in pending
    <3>1. TakenIs(s, Items, Usable)
      BY <1>2, TakenMeans
    <3> QED BY <1>2, <2>1, <3>1 DEF TakenIs
  <2> QED BY <2>1, <2>2, <2>3 DEF Placeable
<1>6. ASSUME Len(s) = 0 PROVE Placeable(pending, usage) = {}
  <2>1. s = <<>>
    BY <1>2, <1>6
  <2>2. node.usage = usage
    BY <1>4, <1>6 DEF Seats
  <2>3. pending \ Taken(s) = pending
    BY <2>1, NoneTaken
  <2> QED BY <1>1, <2>2, <2>3 DEF Stuck, s
<1> QED BY <1>3, <1>5, <1>6

\* Whatever a hot path has room for in u, it has in v.
AsRoomy(u, v) ==
  \A p \in Usable, n \in Nat :
    Place(p).role = "hot" /\ Holds(u[p], n, Place(p).max) => Holds(v[p], n, Place(p).max)

LEMMA AsRoomyMeans ==
  ASSUME Given, NEW u, NEW v, AsRoomy(u, v), NEW pending \in SUBSET Items
  PROVE  Placeable(pending, u) \subseteq Placeable(pending, v)
<1> SUFFICES ASSUME NEW i \in pending, HotOptions(u, Item(i)) # {} PROVE HotOptions(v, Item(i)) # {}
  BY DEF Placeable
<1>1. PICK p \in HotOptions(u, Item(i)) : TRUE
  OBVIOUS
<1>2. Item(i).size \in Nat
  BY GivenMeans DEF GivenItems
<1>3. p \in Usable /\ p \in Accepting("hot", Item(i)) /\ Place(p).role = "hot" /\ Holds(u[p], Item(i).size, Place(p).max)
  BY <1>1 DEF HotOptions, Accepting
<1>4. Holds(v[p], Item(i).size, Place(p).max)
  BY <1>2, <1>3 DEF AsRoomy
<1> QED BY <1>3, <1>4 DEF HotOptions

\* Once something is freed there is no less room than before.
LEMMA FreedHeld ==
  ASSUME NEW u \in Reading, NEW z \in Nat, NEW n \in Nat, NEW m \in Nat, Holds(u, n, m)
  PROVE  Holds(Plus(u, -z), n, m)
<1> DEFINE x == Plus(u, -z)
<1>1. u.used \in Nat /\ u.free \in Nat /\ u.total \in Nat /\ -z \in Int
  BY DEF Reading
<1>2. x \in Reading /\ x.total = u.total /\ x.used = AtLeast0(u.used + -z) /\ x.free = AtLeast0(u.free - -z)
  BY <1>1, PlusType
<1> HIDE DEF x
<1>3. /\ x.used \in Nat /\ x.free \in Nat /\ x.free = u.free + z /\ x.used <= u.used
      /\ u.used + u.free <= x.used + x.free
  BY <1>1, <1>2 DEF AtLeast0
<1>4. u.total # 0 /\ n <= u.free /\ 100 * (u.used + n) <= m * (u.used + u.free) /\ u.used + n <= u.total
  BY HoldsMeans
<1>5. m * (u.used + u.free) <= m * (x.used + x.free)
  <2>1. \A a, b \in Nat : a <= b => m * a <= m * b
    <3>1. ASSUME NEW a \in Nat, NEW b \in Nat, a <= b PROVE m * a <= m * b
      <4>1. b - a \in Nat /\ m * (b - a) >= 0 /\ m * (b - a) = m * b - m * a
        BY <3>1, SMT
      <4> QED BY <4>1, SMT
    <3> QED BY <3>1
  <2>2. u.used + u.free \in Nat /\ x.used + x.free \in Nat
    BY <1>1, <1>3
  <2> QED BY <1>3, <2>1, <2>2
<1>6. 100 * (x.used + n) <= m * (x.used + x.free)
  <2> DEFINE a == m * (u.used + u.free)  b == m * (x.used + x.free)
  <2>1. a \in Nat /\ b \in Nat /\ a <= b /\ 100 * (u.used + n) <= a
    BY <1>1, <1>3, <1>4, <1>5
  <2> HIDE DEF a, b
  <2>2. 100 * (x.used + n) <= b
    BY <1>1, <1>3, <2>1
  <2> QED BY <2>2 DEF b
<1>7. x.total # 0 /\ n <= x.free /\ x.used + n <= x.total
  BY <1>1, <1>2, <1>3, <1>4
<1>8. Holds(x, n, m)
  BY <1>2, <1>6, <1>7, HoldsMeans
<1> QED BY <1>8 DEF x

\* A fill leaves hot paths no less room.
LEMMA FillsFree ==
  ASSUME Given, Apart, NEW usage \in Usages, NEW p, NEW q \in Usable, Place(q).role = "cold", NEW d \in Nat
  PROVE  AsRoomy(usage, Move(usage, p, q, d))
<1> DEFINE u == Apply(usage, p, -d)
<1>1. d \in Int /\ -d \in Int
  OBVIOUS
<1>2. u \in Usages /\ \A r \in Usable : u[r] = IF SameVolume(r, p) THEN Plus(usage[r], -d) ELSE usage[r]
  BY <1>1, ApplyType
<1> HIDE DEF u
<1>3. Agree(Apply(u, q, d), u)
  BY <1>1, <1>2, ColdLeaves
<1>4. ASSUME NEW r \in Usable, NEW n \in Nat, Place(r).role = "hot", Holds(usage[r], n, Place(r).max)
      PROVE  Holds(Apply(u, q, d)[r], n, Place(r).max)
  <2>1. usage[r] \in Reading /\ Place(r).max \in Nat
    BY GivenMeans DEF GivenPlaces, Usages
  <2>2. Holds(Plus(usage[r], -d), n, Place(r).max)
    BY <1>4, <2>1, FreedHeld
  <2>3. Holds(u[r], n, Place(r).max)
    BY <1>2, <1>4, <2>2
  <2>4. Apply(u, q, d)[r] = u[r]
    BY <1>3, <1>4 DEF Agree
  <2> QED BY <2>3, <2>4
<1> QED BY <1>4 DEF AsRoomy, Move, u

LEMMA ProjectFrees ==
  ASSUME Given, Apart, NEW state \in Rooms, NEW i \in Items
  PROVE  AsRoomy(state.projected, Project(state, i).projected)
<1> DEFINE to == PickDestination(state.capacity, Item(i))
           a == Apply(state.capacity, to, Item(i).size)
           b == Move(state.projected, Item(i).on, to, Item(i).size)
<1>1. Item(i).size \in Nat /\ state.capacity \in Usages /\ state.projected \in Usages
  BY GivenMeans DEF GivenItems, Rooms
<1>2. Project(state, i) = IF to = None THEN state ELSE [capacity |-> a, projected |-> b]
  BY DEF Project
<1>3. to # None => to \in Usable /\ Place(to).role = "cold"
  BY <1>1, DestinationMeans
<1> HIDE DEF to, a
<1>4. to # None => AsRoomy(state.projected, b)
  BY <1>1, <1>3, FillsFree
<1> HIDE DEF b
<1>5. AsRoomy(state.projected, state.projected)
  BY DEF AsRoomy
<1> QED BY <1>2, <1>4, <1>5

\* What has room before the fills has room after them.
LEMMA RoomAfterFills ==
  ASSUME Given, Apart, NEW s \in Seq(Items), NEW room \in Usages, NEW usage \in Usages
  PROVE  AsRoomy(usage, AfterFills(s, room, usage))
<1> DEFINE n == Len(s)
<1>1. PICK g : ProjectSteps(g, s, room, usage)
  BY FoldProjected
<1>2. n \in Nat /\ \A k \in 1..n : s[k] \in Items
  OBVIOUS
<1>3. /\ g \in [0..n -> Rooms] /\ g[0] = [capacity |-> room, projected |-> usage]
      /\ \A k \in 1..n : g[k] = Project(g[k - 1], s[k])
      /\ AfterFills(s, room, usage) = g[n].projected
  BY <1>1 DEF ProjectSteps
<1> HIDE DEF n
<1> DEFINE G == {k \in 0..n : AsRoomy(usage, g[k].projected)}
<1>4. 0 \in G
  <2>1. g[0].projected = usage
    BY <1>3
  <2> QED BY <1>2, <2>1 DEF AsRoomy
<1>5. ASSUME NEW k \in 0..n - 1, k \in G PROVE k + 1 \in G
  <2> DEFINE l == k + 1
  <2>1. l \in 1..n /\ l - 1 = k /\ k \in 0..n /\ l \in 0..n
    BY <1>2
  <2> HIDE DEF l
  <2>2. g[k] \in Rooms /\ s[l] \in Items /\ g[l] = Project(g[k], s[l]) /\ AsRoomy(usage, g[k].projected)
    BY <1>2, <1>3, <1>5, <2>1
  <2>3. AsRoomy(g[k].projected, Project(g[k], s[l]).projected)
    BY <2>2, ProjectFrees
  <2>4. AsRoomy(usage, g[l].projected)
    BY <2>2, <2>3 DEF AsRoomy
  <2> QED BY <2>1, <2>4 DEF l
<1>6. n \in G
  <2>1. \A k \in 0..n - 1 : k \in G => k + 1 \in G
    BY <1>5
  <2>2. n \in 0..n
    BY <1>2
  <2> HIDE DEF G
  <2>3. 0..n \subseteq G
    BY <1>2, <1>4, <2>1, UpTo
  <2> QED BY <2>2, <2>3
<1> QED BY <1>3, <1>6

\* The fills to come, the first of them and then the others.
LEMMA FillsInTurn ==
  ASSUME Given, NEW s \in Seq(Items), s # <<>>, NEW room \in Usages, NEW usage \in Usages
  PROVE  LET state == Project([capacity |-> room, projected |-> usage], Head(s))
         IN AfterFills(s, room, usage) = AfterFills(Tail(s), state.capacity, state.projected)
<1> DEFINE n == Len(s)  t == Tail(s)  start == [capacity |-> room, projected |-> usage]
           state == Project(start, Head(s))
<1>1. n \in Nat /\ n >= 1 /\ t \in Seq(Items) /\ Len(t) = n - 1 /\ Head(s) = s[1] /\ Head(s) \in Items
      /\ \A k \in 1..n - 1 : t[k] = s[k + 1]
  OBVIOUS
<1>2. start \in Rooms
  BY DEF Rooms
<1>3. state \in Rooms
  BY <1>1, <1>2, ProjectType
<1> HIDE DEF state
<1>4. state.capacity \in Usages /\ state.projected \in Usages
      /\ [capacity |-> state.capacity, projected |-> state.projected] = state
  BY <1>3 DEF Rooms
<1>5. PICK g : ProjectSteps(g, s, room, usage)
  BY FoldProjected
<1>6. PICK f : ProjectSteps(f, t, state.capacity, state.projected)
  BY <1>1, <1>4, FoldProjected
<1>7. /\ g[0] = start /\ \A k \in 1..n : g[k] = Project(g[k - 1], s[k])
      /\ AfterFills(s, room, usage) = g[n].projected
  BY <1>5 DEF ProjectSteps
<1>8. /\ f[0] = state /\ \A k \in 1..n - 1 : f[k] = Project(f[k - 1], t[k])
      /\ AfterFills(t, state.capacity, state.projected) = f[n - 1].projected
  BY <1>1, <1>4, <1>6 DEF ProjectSteps
<1> HIDE DEF n, t, start
<1> DEFINE G == {k \in 0..n - 1 : f[k] = g[k + 1]}
<1>9. 0 \in G
  <2>1. 1 \in 1..n /\ 1 - 1 = 0 /\ 0 + 1 = 1 /\ 0 \in 0..n - 1
    BY <1>1
  <2>2. g[1] = state
    BY <1>1, <1>7, <2>1 DEF state
  <2> QED BY <1>8, <2>1, <2>2
<1>10. ASSUME NEW k \in 0..(n - 1) - 1, k \in G PROVE k + 1 \in G
  <2> DEFINE l == k + 1
  <2>1. l \in 1..n - 1 /\ l - 1 = k /\ l \in 0..n - 1 /\ l + 1 \in 1..n /\ l + 1 - 1 = l
    BY <1>1
  <2>2. f[k] = g[l]
    BY <1>10
  <2> HIDE DEF l
  <2>3. f[l] = Project(f[k], t[l]) /\ g[l + 1] = Project(g[l], s[l + 1]) /\ t[l] = s[l + 1]
    BY <1>1, <1>7, <1>8, <2>1
  <2>4. f[l] = g[l + 1]
    BY <2>2, <2>3
  <2> QED BY <2>1, <2>4 DEF l
<1>11. n - 1 \in G
  <2>1. \A k \in 0..(n - 1) - 1 : k \in G => k + 1 \in G
    BY <1>10
  <2>2. n - 1 \in Nat /\ n - 1 \in 0..n - 1
    BY <1>1
  <2> HIDE DEF G
  <2>3. 0..n - 1 \subseteq G
    BY <1>9, <2>1, <2>2, UpTo
  <2> QED BY <2>2, <2>3
<1>12. f[n - 1] = g[n]
  <2>1. n - 1 + 1 = n
    BY <1>1
  <2> QED BY <1>11, <2>1
<1> QED BY <1>7, <1>8, <1>12 DEF start, t, state

\* Of what is wanted back, what has room was planned before any fill; and the
\* fills go on only while fewer than the target have room, or while none has any,
\* whatever the fills to come leave.
Waiting ==
  /\ goal >= 1
  /\ Apart =>
       /\ Paired(working)
       /\ at = "batch" => Placeable(reclaims, working) = {}
       /\ at = "fills" /\ scan # <<>> =>
            \/ target > 0 /\ target <= goal /\ PlaceableReclaimCount(reclaims, working) < target
            \/ target = 0 /\ Placeable(reclaims, AfterFills(scan, capacity, working)) = {}

LEMMA InitWaiting == Init => Waiting
<1> SUFFICES ASSUME Init PROVE Waiting
  OBVIOUS
<1>1. working = input.usage /\ goal = 1 /\ at = "reclaims"
  BY DEF Init
<1>2. Apart => Paired(working)
  BY <1>1 DEF Apart, Paired
<1> QED BY <1>1, <1>2 DEF Waiting

\* What is computed depends on nothing but its arguments and what is given.
LEMMA CountedAlike ==
  ASSUME input' = input
  PROVE  PlaceableReclaimCount(reclaims, working)' = PlaceableReclaimCount(reclaims', working')
BY DEF PlaceableReclaimCount, Greedy, FoldLeft, MapThenFoldSet, PlaceNext, Placeable, HotOptions, Accepting,
       Usable, Place, Item, MoreConstrained, Put, Apply, SameVolume, TightestFirst, Tighter

LEMMA FilledAlike ==
  ASSUME input' = input
  PROVE  AfterFills(scan, capacity, working)' = AfterFills(scan', capacity', working')
BY DEF AfterFills, FoldLeft, MapThenFoldSet, Project, PickDestination, Accepting, Usable, Place, Item,
       Move, Apply, SameVolume

LEMMA WaitingAfter ==
  ASSUME input' = input, goal' >= 1, Apart => Paired(working'),
         Apart /\ at' = "batch" => Placeable(reclaims', working') = {},
         Apart /\ at' = "fills" /\ scan' # <<>> =>
            \/ target' > 0 /\ target' <= goal' /\ PlaceableReclaimCount(reclaims', working') < target'
            \/ target' = 0 /\ Placeable(reclaims', AfterFills(scan', capacity', working')) = {}
  PROVE  Waiting'
<1>1. Apart' <=> Apart
  BY DEF Apart, Usable, Place, SameVolume
<1>2. (goal >= 1)'
  OBVIOUS
<1>3. (Apart => Paired(working))'
  BY <1>1 DEF Paired, Usable, Place, SameVolume
<1>4. (Apart => (at = "batch" => Placeable(reclaims, working) = {}))'
  BY <1>1 DEF Placeable, HotOptions, Accepting, Usable, Place, Item
<1>5. PlaceableReclaimCount(reclaims, working)' = PlaceableReclaimCount(reclaims', working')
  BY CountedAlike
<1>6. AfterFills(scan, capacity, working)' = AfterFills(scan', capacity', working')
  BY FilledAlike
<1>7. Placeable(reclaims, AfterFills(scan, capacity, working))' = Placeable(reclaims', AfterFills(scan', capacity', working'))
  BY <1>6 DEF Placeable, HotOptions, Accepting, Usable, Place, Item
<1>8. (Apart => (at = "fills" /\ scan # <<>> =>
            \/ target > 0 /\ target <= goal /\ PlaceableReclaimCount(reclaims, working) < target
            \/ target = 0 /\ Placeable(reclaims, AfterFills(scan, capacity, working)) = {}))'
  BY <1>1, <1>5, <1>7
<1> QED BY <1>2, <1>3, <1>4, <1>8 DEF Waiting

LEMMA GoalGrows ==
  ASSUME goal \in Nat, goal >= 1, NEW n \in Nat
  PROVE  NextGoal(n) >= 1
<1>1. NextGoal(n) \in {goal, n, 4 * goal} /\ (NextGoal(n) = n => n > goal \/ n = goal \/ n = 4 * goal)
  BY DEF NextGoal
<1> QED BY <1>1

LEMMA StepWaiting == Typed /\ Typed' /\ Waiting /\ [Next]_vars => Waiting'
<1> SUFFICES ASSUME Typed, Typed', Waiting, [Next]_vars PROVE Waiting'
  OBVIOUS
<1>0. /\ Given /\ reclaims \in SUBSET Items /\ reclaims \in SUBSET Misplaced
      /\ working \in Usages /\ capacity \in Usages
      /\ scan \in Seq(Items) /\ fills \in Seq(Items) /\ goal \in Nat /\ target \in Nat
  BY TypedMeans DEF Typed, Belong
<1>1. /\ goal >= 1
      /\ Apart => Paired(working)
      /\ Apart /\ at = "batch" => Placeable(reclaims, working) = {}
      /\ Apart /\ at = "fills" /\ scan # <<>> =>
            \/ target > 0 /\ target <= goal /\ PlaceableReclaimCount(reclaims, working) < target
            \/ target = 0 /\ Placeable(reclaims, AfterFills(scan, capacity, working)) = {}
  BY DEF Waiting
<1>2. CASE AttemptReclaims
  <2>1. PICK node : Attempted(node)
    BY <1>2, AttemptMeans
  <2>2. /\ node \in Seatings(reclaims, working) /\ AllocateReclaims(reclaims, working) = node.placed
        /\ working' = FoldLeft(Reclaimed, working, node.placed)
        /\ reclaims' = reclaims \ Taken(node.placed)
    BY <2>1 DEF Attempted
  <2>3. input' = input /\ at' = "batch"
    BY <1>2 DEF AttemptReclaims
  <2>4. goal' >= 1
    <3>1. goal' = goal \/ goal' = NextGoal(Cardinality(reclaims'))
      <4>1. goal' = IF AllocateReclaims(reclaims, working) # <<>> THEN NextGoal(Cardinality(reclaims')) ELSE goal
        BY <1>2 DEF AttemptReclaims
      <4> QED BY <4>1
    <3>2. Cardinality(reclaims') \in Nat
      <4>1. IsFiniteSet(Items)
        BY <1>0, GivenMeans DEF GivenItems
      <4>2. IsFiniteSet(reclaims')
        BY <1>0, <2>2, <4>1, FS_Subset
      <4> QED BY <4>2, FS_CardinalityType
    <3> QED BY <1>0, <1>1, <3>1, <3>2, GoalGrows
  <2>5. Apart => Paired(working') /\ Placeable(reclaims', working') = {}
    BY <1>0, <1>1, <2>2, NoneLeftBehind
  <2> QED BY <2>3, <2>4, <2>5, WaitingAfter
<1>3. CASE StartFills
  <2>1. /\ input' = input /\ at = "batch" /\ at' = "fills" /\ working' = working /\ capacity' = working
        /\ reclaims' = reclaims /\ scan' = fills /\ goal' = goal
        /\ target' = BatchTarget(fills, reclaims, goal, working)
    BY <1>3 DEF StartFills
  <2> DEFINE after == AfterFills(fills, working, working)  count == PlaceableReclaimCount(reclaims, after)
  <2>2. /\ target' \in 0..goal /\ (target' = 0 => reclaims = {} \/ goal = 0 \/ count = 0)
    BY <1>0, <2>1, TargetMeans
  <2>3. after \in Usages
    BY <1>0, AfterFillsType
  <2> HIDE DEF after
  <2>4. ASSUME target' = 0 PROVE Placeable(reclaims', after) = {}
    <3>1. CASE reclaims = {}
      BY <2>1, <3>1 DEF Placeable
    <3>2. CASE count = 0
      BY <1>0, <2>1, <2>3, <3>2, NoneCounted
    <3> QED BY <1>0, <1>1, <2>2, <2>4, <3>1, <3>2
  <2>5. ASSUME Apart, target' # 0 PROVE target' > 0 /\ target' <= goal' /\ PlaceableReclaimCount(reclaims', working') < target'
    <3>1. PlaceableReclaimCount(reclaims, working) = 0
      BY <1>0, <1>1, <2>1, <2>5, NoneCounted
    <3> QED BY <1>0, <2>1, <2>2, <2>5, <3>1
  <2>6. Placeable(reclaims', after) = Placeable(reclaims', AfterFills(scan', capacity', working'))
    BY <2>1 DEF after
  <2>7. Apart => \/ target' > 0 /\ target' <= goal' /\ PlaceableReclaimCount(reclaims', working') < target'
                 \/ target' = 0 /\ Placeable(reclaims', AfterFills(scan', capacity', working')) = {}
    BY <2>4, <2>5, <2>6
  <2>8. Apart => Paired(working')
    BY <1>1, <2>1
  <2>9. goal' >= 1 /\ at' # "batch"
    BY <1>1, <2>1
  <2> QED BY <2>1, <2>7, <2>8, <2>9, WaitingAfter
<1>4. CASE NoRoomForFill
  <2>1. /\ input' = input /\ at = "fills" /\ at' = at /\ working' = working /\ capacity' = capacity
        /\ reclaims' = reclaims /\ goal' = goal /\ target' = target
        /\ scan # <<>> /\ PickDestination(capacity, Item(Head(scan))) = None /\ scan' = Tail(scan)
    BY <1>4 DEF NoRoomForFill
  <2> DEFINE start == [capacity |-> capacity, projected |-> working]
  <2>2. Project(start, Head(scan)) = start
    BY <2>1 DEF Project
  <2>3. start.capacity = capacity /\ start.projected = working
    OBVIOUS
  <2>4. AfterFills(scan, capacity, working)
          = AfterFills(Tail(scan), Project(start, Head(scan)).capacity, Project(start, Head(scan)).projected)
    BY <1>0, <2>1, FillsInTurn
  <2> HIDE DEF start
  <2>5. AfterFills(scan, capacity, working) = AfterFills(scan', capacity', working')
    BY <2>1, <2>2, <2>3, <2>4
  <2>6. Apart => \/ target' > 0 /\ target' <= goal' /\ PlaceableReclaimCount(reclaims', working') < target'
                 \/ target' = 0 /\ Placeable(reclaims', AfterFills(scan', capacity', working')) = {}
    BY <1>1, <2>1, <2>5
  <2>7. goal' >= 1 /\ at' # "batch" /\ (Apart => Paired(working'))
    BY <1>1, <2>1
  <2> QED BY <2>1, <2>6, <2>7, WaitingAfter
<1>5. CASE PlanFill
  <2>1. PICK i, to : Filled(i, to)
    BY <1>5, FillMeans
  <2>2. /\ i = Head(scan) /\ i \in Leaving /\ to = PickDestination(capacity, Item(i)) /\ to \in Usable
        /\ capacity' = Apply(capacity, to, Item(i).size)
        /\ working' = Move(working, Item(i).on, to, Item(i).size)
        /\ scan # <<>>
    BY <2>1 DEF Filled
  <2>3. /\ input' = input /\ at = "fills" /\ at' = at /\ reclaims' = reclaims /\ goal' = goal /\ target' = target
        /\ to # None
    BY <1>5, <2>2 DEF PlanFill
  <2>4. IF target > 0 /\ PlaceableReclaimCount(reclaims, working') >= target
        THEN scan' = <<>> ELSE scan' = Tail(scan)
    BY <1>5 DEF PlanFill
  <2>5. Item(i).size \in Nat /\ i \in Items
    BY <1>0, <2>2, GivenMeans, CandidatesMean DEF GivenItems
  <2>6. Apart => Paired(working')
    BY <1>0, <1>1, <2>2, <2>5, MovePaired
  <2>7. PlaceableReclaimCount(reclaims, working') \in Nat
    <3>1. working' \in Usages
      BY <1>0, <2>2, <2>5, MoveType
    <3> QED BY <1>0, <3>1, CountType
  <2>8. ASSUME scan' # <<>>, target > 0 PROVE PlaceableReclaimCount(reclaims', working') < target'
    <3> DEFINE c == PlaceableReclaimCount(reclaims, working')
    <3>1. ~(c >= target) /\ c \in Nat
      BY <2>4, <2>7, <2>8
    <3>2. PlaceableReclaimCount(reclaims', working') = c
      BY <2>3
    <3> HIDE DEF c
    <3> QED BY <1>0, <2>3, <3>1, <3>2
  <2>9. ASSUME scan' # <<>> PROVE AfterFills(scan', capacity', working') = AfterFills(scan, capacity, working)
    <3> DEFINE start == [capacity |-> capacity, projected |-> working]  state == Project(start, i)
    <3>1. start.capacity = capacity /\ start.projected = working
      OBVIOUS
    <3>2. AfterFills(scan, capacity, working) = AfterFills(Tail(scan), state.capacity, state.projected)
      BY <1>0, <2>2, FillsInTurn
    <3> HIDE DEF start
    <3>3. state = [capacity |-> capacity', projected |-> working']
      BY <2>2, <2>3, <3>1 DEF Project
    <3> HIDE DEF state
    <3>4. state.capacity = capacity' /\ state.projected = working' /\ scan' = Tail(scan)
      BY <2>4, <2>9, <3>3
    <3> QED BY <3>2, <3>4
  <2>10. Apart /\ scan' # <<>> =>
            \/ target' > 0 /\ target' <= goal' /\ PlaceableReclaimCount(reclaims', working') < target'
            \/ target' = 0 /\ Placeable(reclaims', AfterFills(scan', capacity', working')) = {}
    BY <1>1, <2>2, <2>3, <2>8, <2>9
  <2>11. goal' >= 1 /\ at' # "batch"
    BY <1>1, <2>3
  <2> QED BY <2>3, <2>6, <2>10, <2>11, WaitingAfter
<1>6. CASE EndRound
  <2>1. /\ input' = input /\ at' \in {"reclaims", "planned"} /\ working' = working /\ goal' = goal
    BY <1>6 DEF EndRound
  <2>2. goal' >= 1 /\ at' # "batch" /\ at' # "fills" /\ (Apart => Paired(working'))
    BY <1>1, <2>1
  <2> QED BY <2>1, <2>2, WaitingAfter
<1>7. CASE UNCHANGED vars
  <2>1. /\ input' = input /\ at' = at /\ working' = working /\ capacity' = capacity /\ reclaims' = reclaims
        /\ scan' = scan /\ goal' = goal /\ target' = target
    BY <1>7 DEF vars
  <2> QED BY <1>1, <2>1, WaitingAfter
<1> QED BY <1>2, <1>3, <1>4, <1>5, <1>6, <1>7 DEF Next

\* "The first newly safe hot-bound item runs immediately": while attemptFills
\* still plans, fewer reclaims have room than the wave asks for. Where hot paths
\* of a drive are alike and no cold one shares it, what a phase of reclaims leaves
\* over has no room, since it would have been placed; the fills only make more; so
\* the target is none just when all of them together make none.
THEOREM HotBoundFirstHolds == Spec => HotBoundFirst
<1>1. Typed /\ Waiting /\ [Next]_vars =>
        [\/ at # "fills" \/ entries' = entries
         \/ PlaceableReclaimCount(reclaims, working) < goal
         \/ SharedUnevenly]_vars
  <2> SUFFICES ASSUME Typed, Waiting, [Next]_vars, at = "fills", entries' # entries, ~SharedUnevenly
               PROVE  PlaceableReclaimCount(reclaims, working) < goal
    OBVIOUS
  <2>1. PlanFill
    BY DEF Next, AttemptReclaims, StartFills, NoRoomForFill, EndRound, vars
  <2>2. scan # <<>>
    BY <2>1 DEF PlanFill
  <2>3. Apart
    BY ApartMeans
  <2>4. /\ Given /\ reclaims \in SUBSET Items /\ working \in Usages /\ capacity \in Usages /\ scan \in Seq(Items)
        /\ goal \in Nat /\ target \in Nat /\ goal >= 1
    BY TypedMeans DEF Waiting
  <2>5. PlaceableReclaimCount(reclaims, working) \in Nat
    BY <2>4, CountType
  <2>6. CASE target <= goal /\ PlaceableReclaimCount(reclaims, working) < target
    BY <2>4, <2>5, <2>6
  <2>7. CASE Placeable(reclaims, AfterFills(scan, capacity, working)) = {}
    <3>1. AsRoomy(working, AfterFills(scan, capacity, working))
      BY <2>3, <2>4, RoomAfterFills
    <3>2. Placeable(reclaims, working) = {}
      BY <2>4, <2>7, <3>1, AsRoomyMeans
    <3>3. PlaceableReclaimCount(reclaims, working) = 0
      BY <2>4, <3>2, NoneCounted
    <3> QED BY <2>4, <3>3
  <2> QED BY <2>2, <2>3, <2>6, <2>7 DEF Waiting
<1>2. Spec => []Waiting
  <2>1. Init => Waiting
    BY InitWaiting
  <2>2. Typed /\ Typed' /\ Waiting /\ [Next]_vars => Waiting'
    BY StepWaiting
  <2> QED BY <2>1, <2>2, TypedHolds, PTL DEF Spec
<1> QED BY <1>1, <1>2, TypedHolds, PTL DEF Spec, HotBoundFirst
=============================================================================
