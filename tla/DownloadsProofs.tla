-------------------------- MODULE DownloadsProofs ---------------------------
(***************************************************************************)
(* A pass of download tiering, proved for any tiers, drives, downloads,     *)
(* labels and events: what shares files moves together, nothing an app      *)
(* still needs is moved, no path passes its max, the plan leaves out        *)
(* nothing it has room for, and the seed label is true.                     *)
(*                                                                          *)
(* First what the plan computes: sorting a finite set, sums over the moves, *)
(* which groups holdGroups lets go, and BuildPlan's loop, by induction on   *)
(* the groups it has placed.  Then the invariant Inv, which relates what    *)
(* the pass has read to the world as it has become, and one lemma for each  *)
(* step that keeps it.                                                      *)
(***************************************************************************)
EXTENDS Downloads, TLAPS, WellFoundedInduction, FiniteSetTheorems
-----------------------------------------------------------------------------
(* Induction on numbers, and on the size of a set *)

LEMMA LeastElement ==
  ASSUME NEW S \in SUBSET Nat, S # {}
  PROVE  \E n \in S : \A m \in S : n <= m
<1> DEFINE R == {p \in Nat \X Nat : p[1] < p[2]}
<1>1. IsWellFoundedOn(R, Nat)
  BY NatLessThanWellFounded DEF OpToRel
<1>2. PICK n \in S : \A m \in S : ~ (<<m, n>> \in R)
  <2> HIDE DEF R
  <2> QED BY <1>1, WFMin
<1>3. ASSUME NEW m \in S PROVE n <= m
  <2>1. <<m, n>> \in Nat \X Nat /\ <<m, n>>[1] = m /\ <<m, n>>[2] = n
    OBVIOUS
  <2>2. ~(m < n)
    BY <1>2, <2>1
  <2> QED BY <2>2
<1> QED BY <1>3

LEMMA UpTo ==
  ASSUME NEW n \in Nat, NEW S, 0 \in S, \A i \in 0..n - 1 : i \in S => i + 1 \in S
  PROVE  0..n \subseteq S
<1>1. SUFFICES ASSUME (0..n) \ S # {} PROVE FALSE
  OBVIOUS
<1>2. PICK i \in (0..n) \ S : \A j \in (0..n) \ S : i <= j
  <2>1. (0..n) \ S \in SUBSET Nat
    OBVIOUS
  <2> QED BY <1>1, <2>1, LeastElement
<1>3. i - 1 \in 0..n - 1 /\ i - 1 \in S
  BY <1>2
<1> QED BY <1>2, <1>3

LEMMA MaxOfSome ==
  ASSUME NEW n \in Nat, NEW t \in SUBSET (1..n), t # {}
  PROVE  Max(t) \in t /\ \A i \in t : i <= Max(t)
<1> DEFINE D == {n - i : i \in t}
<1>1. D \in SUBSET Nat /\ D # {}
  <2>1. \A i \in t : n - i \in Nat
    OBVIOUS
  <2> QED BY <2>1
<1>2. PICK d \in D : \A e \in D : d <= e
  <2> HIDE DEF D
  <2> QED BY <1>1, LeastElement
<1>3. PICK m \in t : d = n - m
  BY <1>2
<1>4. \A i \in t : m >= i
  <2> TAKE i \in t
  <2>1. d <= n - i /\ i \in 1..n /\ m \in 1..n
    BY <1>2
  <2> QED BY <2>1, <1>3
<1> QED BY <1>4 DEF Max

LEMMA Initials ==
  ASSUME NEW n \in Nat
  PROVE  /\ 1..0 = {}
         /\ \A i \in 0..n : 1..i \in SUBSET (1..n)
         /\ \A i \in 1..n : /\ 1..i # {} /\ Max(1..i) = i
                            /\ (1..i) \ {i} = 1..i - 1 /\ i - 1 \in 0..n
<1>1. ASSUME NEW i \in 1..n PROVE Max(1..i) = i
  <2>1. i \in 1..i /\ 1..i \in SUBSET (1..i) /\ i \in Nat
    OBVIOUS
  <2>2. Max(1..i) \in 1..i /\ i <= Max(1..i)
    BY <2>1, MaxOfSome
  <2> QED BY <2>2
<1> QED BY <1>1

\* What holds of a set's subsets if it does of one with a member more.
LEMMA BySize ==
  ASSUME NEW K, IsFiniteSet(K), NEW G, G \subseteq SUBSET K,
         \A L \in SUBSET K : (\A M \in SUBSET L : M # L => M \in G) => L \in G
  PROVE  K \in G
<1> DEFINE N == Cardinality(K)
           S == {n \in 0..N : \A L \in SUBSET K : Cardinality(L) <= n => L \in G}
<1>1. N \in Nat /\ \A L \in SUBSET K : IsFiniteSet(L) /\ Cardinality(L) \in Nat /\ Cardinality(L) <= N
  BY FS_CardinalityType, FS_Subset
<1>2. \A L \in SUBSET K : \A M \in SUBSET L : M # L => Cardinality(M) < Cardinality(L)
  BY <1>1, FS_Subset
<1>3. 0 \in S
  <2>1. ASSUME NEW L \in SUBSET K, Cardinality(L) <= 0 PROVE L \in G
    <3>1. \A M \in SUBSET L : ~(M # L)
      BY <1>1, <1>2, <2>1
    <3> QED BY <3>1
  <2> QED BY <1>1, <2>1
<1>4. ASSUME NEW n \in 0..N - 1, n \in S PROVE n + 1 \in S
  <2>1. ASSUME NEW L \in SUBSET K, Cardinality(L) <= n + 1 PROVE L \in G
    <3>1. \A M \in SUBSET L : M # L => M \in SUBSET K /\ Cardinality(M) <= n
      BY <1>1, <1>2, <2>1
    <3>2. \A M \in SUBSET L : M # L => M \in G
      BY <1>4, <3>1
    <3> QED BY <3>2
  <2>2. n + 1 \in 0..N
    BY <1>1
  <2> QED BY <2>1, <2>2
<1>5. N \in S
  <2> HIDE DEF S
  <2>1. 0..N \subseteq S
    <3> HIDE DEF N
    <3> QED BY <1>1, <1>3, <1>4, UpTo
  <2> QED BY <2>1, <1>1
<1> QED BY <1>1, <1>5

-----------------------------------------------------------------------------
(* Orders *)

Orders(R, K) == \A x \in K : <<x, x>> \notin R /\ \A y, z \in K : <<x, y>> \in R /\ <<y, z>> \in R => <<x, z>> \in R

\* Something before which there is nothing.
LEMMA FirstOf ==
  ASSUME NEW K, IsFiniteSet(K), K # {}, NEW R, Orders(R, K)
  PROVE  \E m \in K : \A k \in K : <<k, m>> \notin R
<1> DEFINE HasFirst(L) == \E m \in L : \A k \in L : <<k, m>> \notin R
           G == {L \in SUBSET K : L # {} => HasFirst(L)}
<1>1. ASSUME NEW L \in SUBSET K, \A M \in SUBSET L : M # L => M \in G PROVE L \in G
  <2>1. SUFFICES ASSUME L # {} PROVE HasFirst(L)
    OBVIOUS
  <2>2. PICK x \in L : TRUE
    BY <2>1
  <2>3. CASE L = {x}
    BY <2>3 DEF Orders
  <2>4. CASE L # {x}
    <3>1. HasFirst(L \ {x})
      <4>1. L \ {x} \in G /\ L \ {x} # {}
        BY <1>1, <2>2, <2>4
      <4> QED BY <4>1
    <3>2. PICK m \in L \ {x} : \A k \in L \ {x} : <<k, m>> \notin R
      BY <3>1
    <3>3. CASE <<x, m>> \notin R
      BY <3>2, <3>3
    <3>4. CASE <<x, m>> \in R
      <4>1. \A k \in L : <<k, x>> \notin R
        BY <3>2, <3>4, <2>2 DEF Orders
      <4> QED BY <4>1, <2>2
    <3> QED BY <3>3, <3>4
  <2> QED BY <2>3, <2>4
<1>2. K \in G
  <2>1. G \subseteq SUBSET K
    OBVIOUS
  <2> HIDE DEF G
  <2> QED BY <1>1, <2>1, BySize
<1> QED BY <1>2

LEMMA CanSort ==
  ASSUME NEW K, IsFiniteSet(K), NEW R, Orders(R, K)
  PROVE  \E s \in SetToSeqs(K) : \A i, j \in DOMAIN s : i < j => <<s[j], s[i]>> \notin R
<1> DEFINE Sorted(s) == \A i, j \in DOMAIN s : i < j => <<s[j], s[i]>> \notin R
           G == {L \in SUBSET K : \E s \in SetToSeqs(L) : Sorted(s)}
           B == {<<p[2], p[1]>> : p \in {q \in K \X K : q \in R}}
<1>1. Orders(B, K) /\ \A x, y \in K : <<x, y>> \in B <=> <<y, x>> \in R
  <2>1. \A x, y \in K : <<x, y>> \in B <=> <<y, x>> \in R
    <3> TAKE x, y \in K
    <3>1. ASSUME <<x, y>> \in B PROVE <<y, x>> \in R
      <4>1. PICK p \in {q \in K \X K : q \in R} : <<x, y>> = <<p[2], p[1]>>
        BY <3>1
      <4>2. p = <<y, x>>
        BY <4>1
      <4> QED BY <4>1, <4>2
    <3>2. ASSUME <<y, x>> \in R PROVE <<x, y>> \in B
      <4>1. <<y, x>> \in {q \in K \X K : q \in R} /\ <<y, x>>[1] = y /\ <<y, x>>[2] = x
        BY <3>2
      <4> QED BY <4>1
    <3> QED BY <3>1, <3>2
  <2> HIDE DEF B
  <2> QED BY <2>1 DEF Orders
<1>2. ASSUME NEW L \in SUBSET K, \A M \in SUBSET L : M # L => M \in G PROVE L \in G
  <2>0. IsFiniteSet(L)
    BY FS_Subset
  <2>1. CASE L = {}
    <3> DEFINE s == [i \in 1..0 |-> 0]
    <3>1. DOMAIN s = {} /\ 1..0 = {} /\ Cardinality(L) = 0
      BY <2>1, FS_EmptySet
    <3>2. s \in SetToSeqs(L)
      BY <3>1 DEF SetToSeqs
    <3>3. Sorted(s)
      BY <3>1
    <3> HIDE DEF s, Sorted
    <3> QED BY <3>2, <3>3
  <2>2. CASE L # {}
    <3>1. PICK m \in L : \A k \in L : <<m, k>> \notin R
      <4>1. Orders(B, L)
        BY <1>1 DEF Orders
      <4>2. \E m \in L : \A k \in L : <<k, m>> \notin B
        <5> HIDE DEF B
        <5> QED BY <2>0, <2>2, <4>1, FirstOf
      <4> QED BY <1>1, <4>2
    <3> DEFINE M == L \ {m}  n == Cardinality(M)
    <3>2. M \in SUBSET L /\ M # L /\ n \in Nat /\ Cardinality(L) = n + 1
      BY <2>0, FS_RemoveElement, FS_CardinalityType, FS_Subset
    <3>3. PICK s \in SetToSeqs(M) : Sorted(s)
      BY <1>2, <3>2
    <3>4. s \in [1..n -> M] /\ \A i, j \in 1..n : i # j => s[i] # s[j]
      BY <3>3 DEF SetToSeqs
    <3> HIDE DEF n
    <3> DEFINE t == [i \in 1..n + 1 |-> IF i = n + 1 THEN m ELSE s[i]]
    <3>5. DOMAIN t = 1..n + 1 /\ t[n + 1] = m /\ \A i \in 1..n : t[i] = s[i] /\ t[i] \in M
      BY <3>2, <3>4
    <3>6. \A i \in 1..n + 1 : i = n + 1 \/ i \in 1..n
      BY <3>2
    <3>7. t \in [1..n + 1 -> L]
      BY <3>4, <3>6
    <3> HIDE DEF t
    <3>8. \A i, j \in 1..n + 1 : i # j => t[i] # t[j]
      BY <3>4, <3>5, <3>6
    <3>9. Sorted(t)
      <4>1. ASSUME NEW i \in 1..n + 1, NEW j \in 1..n + 1, i < j PROVE <<t[j], t[i]>> \notin R
        <5>1. i \in 1..n
          BY <4>1, <3>2
        <5>2. CASE j = n + 1
          BY <3>1, <3>5, <5>1, <5>2
        <5>3. CASE j \in 1..n
          BY <3>3, <3>4, <3>5, <4>1, <5>1, <5>3
        <5> QED BY <3>6, <5>2, <5>3
      <4> QED BY <3>5, <4>1
    <3>10. t \in SetToSeqs(L)
      BY <3>2, <3>7, <3>8 DEF SetToSeqs
    <3> HIDE DEF Sorted
    <3> QED BY <3>9, <3>10
  <2> QED BY <2>1, <2>2
<1>3. K \in G
  <2>1. G \subseteq SUBSET K
    OBVIOUS
  <2> HIDE DEF G
  <2> QED BY <1>2, <2>1, BySize
<1> QED BY <1>3

\* A set's members in some order are all of them.
LEMMA SeqsOf ==
  ASSUME NEW K, IsFiniteSet(K), NEW s \in SetToSeqs(K)
  PROVE  /\ Cardinality(K) \in Nat
         /\ s \in [1..Cardinality(K) -> K]
         /\ \A k \in K : \E i \in 1..Cardinality(K) : s[i] = k
         /\ \A i, j \in 1..Cardinality(K) : i # j => s[i] # s[j]
<1> DEFINE N == Cardinality(K)
<1>1. N \in Nat
  BY FS_CardinalityType
<1>2. s \in [1..N -> K] /\ \A i, j \in 1..N : i # j => s[i] # s[j]
  BY DEF SetToSeqs
<1>3. s \in Injection(1..N, K)
  BY <1>2 DEF Injection, IsInjective
<1>4. IsFiniteSet(1..N) /\ Cardinality(1..N) = N
  BY <1>1, FS_Interval
<1>5. s \in Surjection(1..N, K)
  BY <1>3, <1>4, FS_Injection
<1>6. \A k \in K : \E i \in 1..N : s[i] = k
  BY <1>5 DEF Surjection
<1> QED BY <1>1, <1>2, <1>6

-----------------------------------------------------------------------------
(* Sums over finite sets *)

Some(t) == CHOOSE x \in t : TRUE

\* g sums f over every set of members of L.
Sums(g, f, L) == g = [t \in SUBSET L |-> IF t = {} THEN 0 ELSE f[Some(t)] + g[t \ {Some(t)}]]

SumsOf(f, L) == CHOOSE g : Sums(g, f, L)

LEMMA SumIs == ASSUME NEW f, NEW L PROVE SumFunctionOnSet(f, L) = SumsOf(f, L)[L]
BY DEF SumFunctionOnSet, FoldFunctionOnSet, MapThenFoldSet, SumsOf, Sums, Some

LEMMA SumsAt ==
  ASSUME NEW f, NEW L, NEW g, Sums(g, f, L), NEW t \in SUBSET L
  PROVE  /\ t = {} => g[t] = 0
         /\ t # {} => Some(t) \in t /\ g[t] = f[Some(t)] + g[t \ {Some(t)}]
<1>1. g[t] = IF t = {} THEN 0 ELSE f[Some(t)] + g[t \ {Some(t)}]
  BY DEF Sums
<1>2. t # {} => Some(t) \in t
  BY DEF Some
<1> QED BY <1>1, <1>2

LEMMA SumsAgree ==
  ASSUME NEW f, NEW L, NEW M, NEW g, Sums(g, f, L), NEW h, Sums(h, f, M), NEW t \in SUBSET L, t \in SUBSET M,
         IsFiniteSet(t)
  PROVE  g[t] = h[t]
<1> DEFINE G == {s \in SUBSET t : g[s] = h[s]}
<1>1. ASSUME NEW s \in SUBSET t, \A u \in SUBSET s : u # s => u \in G PROVE s \in G
  <2>0. s \in SUBSET L /\ s \in SUBSET M
    OBVIOUS
  <2>1. CASE s = {}
    <3>1. g[s] = 0 /\ h[s] = 0
      BY <2>0, <2>1, SumsAt
    <3> QED BY <3>1
  <2>2. CASE s # {}
    <3>1. /\ Some(s) \in s
          /\ g[s] = f[Some(s)] + g[s \ {Some(s)}]
          /\ h[s] = f[Some(s)] + h[s \ {Some(s)}]
      BY <2>0, <2>2, SumsAt
    <3>2. s \ {Some(s)} \in G
      BY <1>1, <3>1
    <3> QED BY <3>1, <3>2
  <2> QED BY <2>1, <2>2
<1>2. t \in G
  <2>1. G \subseteq SUBSET t
    OBVIOUS
  <2> HIDE DEF G
  <2> QED BY <1>1, <2>1, BySize
<1> QED BY <1>2

LEMMA SumsExist ==
  ASSUME NEW f, NEW L, IsFiniteSet(L)
  PROVE  Sums(SumsOf(f, L), f, L)
<1> DEFINE G == {M \in SUBSET L : \E g : Sums(g, f, M)}
<1>1. ASSUME NEW M \in SUBSET L, \A t \in SUBSET M : t # M => t \in G PROVE M \in G
  <2>1. ASSUME NEW t \in SUBSET M, t # M PROVE Sums(SumsOf(f, t), f, t)
    <3>1. \E g : Sums(g, f, t)
      BY <1>1, <2>1
    <3> QED BY <3>1 DEF SumsOf
  <2> DEFINE At(t) == SumsOf(f, t)[t]
             g == [t \in SUBSET M |-> IF t = {} THEN 0 ELSE f[Some(t)] + At(t \ {Some(t)})]
  <2>2. ASSUME NEW t \in SUBSET M, t # M PROVE g[t] = At(t)
    <3>1. Sums(SumsOf(f, t), f, t) /\ t \in SUBSET t
      BY <2>1, <2>2
    <3>2. CASE t = {}
      BY <3>1, <3>2, SumsAt
    <3>3. CASE t # {}
      <4> DEFINE u == t \ {Some(t)}
      <4>1. Some(t) \in t /\ At(t) = f[Some(t)] + SumsOf(f, t)[u]
        BY <3>1, <3>3, SumsAt
      <4>2. u \in SUBSET M /\ u # M /\ u \in SUBSET t /\ IsFiniteSet(u)
        BY <4>1, FS_Subset
      <4>3. SumsOf(f, t)[u] = At(u)
        BY <4>2, <2>1, <3>1, SumsAgree
      <4>4. g[t] = f[Some(t)] + At(u)
        BY <3>3
      <4> QED BY <4>1, <4>3, <4>4
    <3> QED BY <3>2, <3>3
  <2>3. Sums(g, f, M)
    <3>1. ASSUME NEW t \in SUBSET M, t # {} PROVE At(t \ {Some(t)}) = g[t \ {Some(t)}]
      <4>1. Some(t) \in t
        BY <3>1 DEF Some
      <4>2. t \ {Some(t)} \in SUBSET M /\ t \ {Some(t)} # M
        BY <4>1
      <4> HIDE DEF g, At
      <4> QED BY <2>2, <4>2
    <3>2. g = [t \in SUBSET M |-> IF t = {} THEN 0 ELSE f[Some(t)] + g[t \ {Some(t)}]]
      BY <3>1
    <3> HIDE DEF g
    <3> QED BY <3>2 DEF Sums
  <2> HIDE DEF g
  <2> QED BY <2>3
<1>2. L \in G
  <2>1. G \subseteq SUBSET L
    OBVIOUS
  <2> HIDE DEF G
  <2> QED BY <1>1, <2>1, BySize
<1>3. \E g : Sums(g, f, L)
  BY <1>2
<1> QED BY <1>3 DEF SumsOf

LEMMA SumOfNone == ASSUME NEW f PROVE SumFunctionOnSet(f, {}) = 0
<1>1. Sums(SumsOf(f, {}), f, {})
  BY SumsExist, FS_EmptySet
<1> QED BY <1>1, SumIs, SumsAt

LEMMA SumOfSome ==
  ASSUME NEW f, NEW L, IsFiniteSet(L), L # {}
  PROVE  Some(L) \in L /\ SumFunctionOnSet(f, L) = f[Some(L)] + SumFunctionOnSet(f, L \ {Some(L)})
<1> DEFINE M == L \ {Some(L)}
<1>1. IsFiniteSet(M) /\ M \in SUBSET L /\ M \in SUBSET M /\ L \in SUBSET L
  BY FS_Subset
<1>2. Sums(SumsOf(f, L), f, L) /\ Sums(SumsOf(f, M), f, M)
  BY <1>1, SumsExist
<1>3. SumsOf(f, L)[M] = SumsOf(f, M)[M]
  BY <1>1, <1>2, SumsAgree
<1>4. Some(L) \in L /\ SumsOf(f, L)[L] = f[Some(L)] + SumsOf(f, L)[M]
  BY <1>1, <1>2, SumsAt
<1> QED BY <1>3, <1>4, SumIs

LEMMA SumType ==
  ASSUME NEW L, IsFiniteSet(L), NEW f, \A x \in L : f[x] \in Nat
  PROVE  SumFunctionOnSet(f, L) \in Nat
<1> DEFINE G == {M \in SUBSET L : SumFunctionOnSet(f, M) \in Nat}
<1>1. ASSUME NEW M \in SUBSET L, \A t \in SUBSET M : t # M => t \in G PROVE M \in G
  <2>1. CASE M = {}
    BY <2>1, SumOfNone
  <2>2. CASE M # {}
    <3>1. Some(M) \in M /\ SumFunctionOnSet(f, M) = f[Some(M)] + SumFunctionOnSet(f, M \ {Some(M)})
      BY <2>2, SumOfSome, FS_Subset
    <3>2. M \ {Some(M)} \in G /\ f[Some(M)] \in Nat
      BY <1>1, <3>1
    <3> QED BY <3>1, <3>2
  <2> QED BY <2>1, <2>2
<1>2. L \in G
  <2>1. G \subseteq SUBSET L
    OBVIOUS
  <2> HIDE DEF G
  <2> QED BY <1>1, <2>1, BySize
<1> QED BY <1>2

LEMMA SumWithout ==
  ASSUME NEW L, IsFiniteSet(L), NEW f, \A x \in L : f[x] \in Nat, NEW x \in L
  PROVE  SumFunctionOnSet(f, L) = f[x] + SumFunctionOnSet(f, L \ {x})
<1> DEFINE G == {M \in SUBSET L : \A y \in M : SumFunctionOnSet(f, M) = f[y] + SumFunctionOnSet(f, M \ {y})}
<1>1. ASSUME NEW M \in SUBSET L, \A t \in SUBSET M : t # M => t \in G PROVE M \in G
  <2> SUFFICES ASSUME NEW y \in M PROVE SumFunctionOnSet(f, M) = f[y] + SumFunctionOnSet(f, M \ {y})
    OBVIOUS
  <2> DEFINE z == Some(M)
  <2>0. IsFiniteSet(M) /\ M # {}
    BY FS_Subset
  <2>1. z \in M /\ SumFunctionOnSet(f, M) = f[z] + SumFunctionOnSet(f, M \ {z})
    BY <2>0, SumOfSome
  <2> HIDE DEF z
  <2>2. CASE y = z
    BY <2>1, <2>2
  <2>3. CASE y # z
    <3>1. M \ {z} \in G /\ y \in M \ {z} /\ M \ {y} \in G /\ z \in M \ {y}
      BY <1>1, <2>1, <2>3
    <3>2. /\ SumFunctionOnSet(f, M \ {z}) = f[y] + SumFunctionOnSet(f, (M \ {z}) \ {y})
          /\ SumFunctionOnSet(f, M \ {y}) = f[z] + SumFunctionOnSet(f, (M \ {y}) \ {z})
      BY <3>1
    <3>3. (M \ {z}) \ {y} = (M \ {y}) \ {z} /\ IsFiniteSet((M \ {y}) \ {z})
      BY <2>0, FS_Subset
    <3>4. SumFunctionOnSet(f, (M \ {y}) \ {z}) \in Nat /\ f[y] \in Nat /\ f[z] \in Nat
      BY <3>3, <2>1, SumType
    <3> QED BY <2>1, <3>2, <3>3, <3>4
  <2> QED BY <2>2, <2>3
<1>2. L \in G
  <2>1. G \subseteq SUBSET L
    OBVIOUS
  <2> HIDE DEF G
  <2> QED BY <1>1, <2>1, BySize
<1> QED BY <1>2

LEMMA SumOfMore ==
  ASSUME NEW L, IsFiniteSet(L), NEW f, \A x \in L : f[x] \in Nat, NEW K \in SUBSET L
  PROVE  SumFunctionOnSet(f, K) <= SumFunctionOnSet(f, L)
<1> DEFINE G == {M \in SUBSET L : SumFunctionOnSet(f, M \cap K) <= SumFunctionOnSet(f, M)}
<1>1. ASSUME NEW M \in SUBSET L, \A t \in SUBSET M : t # M => t \in G PROVE M \in G
  <2>1. CASE M = {}
    <3>1. M \cap K = {}
      BY <2>1
    <3> QED BY <2>1, <3>1, SumOfNone
  <2>2. CASE M # {}
    <3>0. IsFiniteSet(M) /\ IsFiniteSet(M \cap K)
      BY FS_Subset
    <3>1. PICK y \in M : TRUE
      BY <2>2
    <3> DEFINE all == SumFunctionOnSet(f, M)  less == SumFunctionOnSet(f, M \ {y})
               both == SumFunctionOnSet(f, M \cap K)  lessBoth == SumFunctionOnSet(f, (M \ {y}) \cap K)
    <3>2. all = f[y] + less
      BY <3>0, SumWithout
    <3>3. lessBoth <= less
      <4>1. M \ {y} \in G
        BY <1>1, <3>1
      <4> QED BY <4>1
    <3>4. f[y] \in Nat /\ less \in Nat /\ lessBoth \in Nat
      BY <3>0, SumType, FS_Subset
    <3>5. CASE y \in K
      <4>1. SumFunctionOnSet(f, M \cap K) = f[y] + SumFunctionOnSet(f, (M \cap K) \ {y})
        BY <3>0, <3>5, SumWithout
      <4>2. (M \cap K) \ {y} = (M \ {y}) \cap K
        OBVIOUS
      <4>3. both = f[y] + lessBoth
        BY <4>1, <4>2
      <4>4. both <= all
        <5> HIDE DEF all, less, both, lessBoth
        <5> QED BY <3>2, <3>3, <3>4, <4>3
      <4> QED BY <4>4
    <3>6. CASE y \notin K
      <4>1. M \cap K = (M \ {y}) \cap K
        BY <3>6
      <4>2. both = lessBoth
        BY <4>1
      <4>3. both <= all
        <5> HIDE DEF all, less, both, lessBoth
        <5> QED BY <3>2, <3>3, <3>4, <4>2
      <4> QED BY <4>3
    <3> QED BY <3>5, <3>6
  <2> QED BY <2>1, <2>2
<1>2. L \in G
  <2>1. G \subseteq SUBSET L
    OBVIOUS
  <2> HIDE DEF G
  <2> QED BY <1>1, <2>1, BySize
<1>3. L \cap K = K
  OBVIOUS
<1> QED BY <1>2, <1>3

LEMMA SameSum ==
  ASSUME NEW L, IsFiniteSet(L), NEW f, NEW g, \A x \in L : f[x] = g[x]
  PROVE  SumFunctionOnSet(f, L) = SumFunctionOnSet(g, L)
<1> DEFINE G == {M \in SUBSET L : SumFunctionOnSet(f, M) = SumFunctionOnSet(g, M)}
<1>1. ASSUME NEW M \in SUBSET L, \A t \in SUBSET M : t # M => t \in G PROVE M \in G
  <2>1. CASE M = {}
    BY <2>1, SumOfNone
  <2>2. CASE M # {}
    <3>1. /\ Some(M) \in M
          /\ SumFunctionOnSet(f, M) = f[Some(M)] + SumFunctionOnSet(f, M \ {Some(M)})
          /\ SumFunctionOnSet(g, M) = g[Some(M)] + SumFunctionOnSet(g, M \ {Some(M)})
      BY <2>2, SumOfSome, FS_Subset
    <3>2. M \ {Some(M)} \in G
      BY <1>1, <3>1
    <3> QED BY <3>1, <3>2
  <2> QED BY <2>1, <2>2
<1>2. L \in G
  <2>1. G \subseteq SUBSET L
    OBVIOUS
  <2> HIDE DEF G
  <2> QED BY <1>1, <2>1, BySize
<1> QED BY <1>2

-----------------------------------------------------------------------------
(* Names, and the order holdGroups looks at them in *)

Text == Seq(Nat)

LEMMA PrefixMeans ==
  ASSUME NEW p \in Text, NEW q \in Text
  PROVE  /\ IsPrefix(p, q) <=> Len(p) <= Len(q) /\ \A i \in 1..Len(p) : p[i] = q[i]
         /\ IsStrictPrefix(p, q) <=> Len(p) < Len(q) /\ \A i \in 1..Len(p) : p[i] = q[i]
<1>0. Len(p) \in Nat /\ Len(q) \in Nat /\ DOMAIN p = 1..Len(p) /\ DOMAIN q = 1..Len(q)
  BY DEF Text
<1>1. ASSUME IsPrefix(p, q) PROVE \A i \in 1..Len(p) : p[i] = q[i]
  <2> TAKE i \in 1..Len(p)
  <2>1. SubSeq(p, 1, Len(p))[i] = p[i] /\ SubSeq(q, 1, Len(p))[i] = q[i]
    BY <1>1 DEF IsPrefix, Text
  <2> QED BY <1>1, <2>1 DEF IsPrefix
<1>2. ASSUME Len(p) <= Len(q), \A i \in 1..Len(p) : p[i] = q[i] PROVE IsPrefix(p, q)
  <2>1. SubSeq(p, 1, Len(p)) = [i \in 1..Len(p) |-> p[i]]
    BY DEF Text
  <2>2. SubSeq(q, 1, Len(p)) = [i \in 1..Len(p) |-> q[i]]
    BY <1>2 DEF Text
  <2> QED BY <1>2, <2>1, <2>2 DEF IsPrefix
<1>3. ASSUME Len(p) = Len(q), \A i \in 1..Len(p) : p[i] = q[i] PROVE p = q
  BY <1>3 DEF Text
<1>4. IsPrefix(p, q) => Len(p) <= Len(q)
  BY DEF IsPrefix
<1>5. IsPrefix(p, q) <=> Len(p) <= Len(q) /\ \A i \in 1..Len(p) : p[i] = q[i]
  BY <1>1, <1>2, <1>4
<1>6. IsStrictPrefix(p, q) <=> Len(p) < Len(q) /\ \A i \in 1..Len(p) : p[i] = q[i]
  <2>1. IsStrictPrefix(p, q) <=> IsPrefix(p, q) /\ p # q
    BY DEF IsStrictPrefix
  <2>2. Len(p) < Len(q) => p # q
    BY <1>0
  <2>3. \A m, n \in Nat : (m <= n => m < n \/ m = n) /\ (m < n => m <= n)
    OBVIOUS
  <2> QED BY <1>0, <1>3, <1>5, <2>1, <2>2, <2>3
<1> QED BY <1>5, <1>6

LEMMA UnderMeans ==
  ASSUME NEW p \in Text, NEW q \in Text, IsUnder(p, q), p # q
  PROVE  Len(q) < Len(p) /\ \A i \in 1..Len(q) : q[i] = p[i]
BY PrefixMeans DEF IsUnder

\* p is q's beginning, or differs from it first where it is less.
Less(p, q) ==
  \/ Len(p) < Len(q) /\ \A i \in 1..Len(p) : p[i] = q[i]
  \/ \E i \in 1..Len(p) : i <= Len(q) /\ p[i] < q[i] /\ \A j \in 1..i - 1 : p[j] = q[j]

LEMMA BeforeMeans ==
  ASSUME NEW p \in Text, NEW q \in Text
  PROVE  SortsBefore(p, q) <=> Less(p, q)
<1>1. \A i : i \in DOMAIN p \cap DOMAIN q <=> i \in 1..Len(p) /\ i <= Len(q)
  BY DEF Text
<1> QED BY <1>1, PrefixMeans DEF SortsBefore, Less

LEMMA TextMeans == ASSUME NEW p \in Text PROVE Len(p) \in Nat /\ \A i \in 1..Len(p) : p[i] \in Nat
BY DEF Text

LEMMA LessIrreflexive == ASSUME NEW p \in Text PROVE ~Less(p, p)
BY TextMeans DEF Less

LEMMA LessTotal ==
  ASSUME NEW p \in Text, NEW q \in Text, p # q
  PROVE  Less(p, q) \/ Less(q, p)
<1> DEFINE D == {i \in Nat : i \in 1..Len(p) /\ i \in 1..Len(q) /\ p[i] # q[i]}
<1>0. Len(p) \in Nat /\ Len(q) \in Nat
  BY TextMeans
<1>1. CASE D = {}
  <2>1. \A i \in 1..Len(p) : i <= Len(q) => p[i] = q[i]
    <3> TAKE i \in 1..Len(p)
    <3> HAVE i <= Len(q)
    <3>1. i \in Nat /\ i \in 1..Len(q)
      BY <1>0
    <3> QED BY <1>1, <3>1
  <2>2. CASE Len(p) = Len(q)
    BY <2>1, <2>2, <1>0 DEF Text
  <2>3. CASE Len(p) < Len(q)
    BY <2>1, <2>3, <1>0 DEF Less
  <2>4. CASE Len(q) < Len(p)
    <3>1. \A i \in 1..Len(q) : q[i] = p[i]
      BY <2>1, <2>4, <1>0
    <3> QED BY <3>1, <2>4, <1>0 DEF Less
  <2> QED BY <2>2, <2>3, <2>4, <1>0
<1>2. CASE D # {}
  <2>1. D \in SUBSET Nat
    OBVIOUS
  <2>2. PICK i \in D : \A j \in D : i <= j
    <3> HIDE DEF D
    <3> QED BY <1>2, <2>1, LeastElement
  <2>3. i \in 1..Len(p) /\ i \in 1..Len(q) /\ i <= Len(p) /\ i <= Len(q) /\ p[i] # q[i]
    BY <1>0
  <2>4. \A j \in 1..i - 1 : p[j] = q[j] /\ q[j] = p[j]
    <3> TAKE j \in 1..i - 1
    <3>1. j \in 1..Len(p) /\ j \in 1..Len(q) /\ j \in Nat /\ ~(i <= j)
      BY <2>3, <1>0
    <3> QED BY <3>1, <2>2
  <2>5. p[i] \in Nat /\ q[i] \in Nat
    BY <2>3, TextMeans
  <2> QED BY <2>3, <2>4, <2>5 DEF Less
<1> QED BY <1>1, <1>2

LEMMA LessTransitive ==
  ASSUME NEW p \in Text, NEW q \in Text, NEW r \in Text, Less(p, q), Less(q, r)
  PROVE  Less(p, r)
<1>0. Len(p) \in Nat /\ Len(q) \in Nat /\ Len(r) \in Nat
  BY TextMeans
<1>1. CASE Len(p) < Len(q) /\ \A i \in 1..Len(p) : p[i] = q[i]
  <2>1. CASE Len(q) < Len(r) /\ \A i \in 1..Len(q) : q[i] = r[i]
    BY <1>0, <1>1, <2>1 DEF Less
  <2>2. CASE \E i \in 1..Len(q) : i <= Len(r) /\ q[i] < r[i] /\ \A j \in 1..i - 1 : q[j] = r[j]
    <3>1. PICK i \in 1..Len(q) : i <= Len(r) /\ q[i] < r[i] /\ \A j \in 1..i - 1 : q[j] = r[j]
      BY <2>2
    <3>2. CASE i <= Len(p)
      <4>1. i \in 1..Len(p) /\ p[i] = q[i] /\ \A j \in 1..i - 1 : p[j] = r[j]
        BY <1>0, <1>1, <3>1, <3>2
      <4> QED BY <3>1, <4>1 DEF Less
    <3>3. CASE Len(p) < i
      <4>1. Len(p) < Len(r) /\ \A j \in 1..Len(p) : p[j] = r[j]
        BY <1>0, <1>1, <3>1, <3>3
      <4> QED BY <4>1 DEF Less
    <3> QED BY <3>2, <3>3, <1>0
  <2> QED BY <2>1, <2>2 DEF Less
<1>2. CASE \E i \in 1..Len(p) : i <= Len(q) /\ p[i] < q[i] /\ \A j \in 1..i - 1 : p[j] = q[j]
  <2>0. PICK i \in 1..Len(p) : i <= Len(q) /\ p[i] < q[i] /\ \A j \in 1..i - 1 : p[j] = q[j]
    BY <1>2
  <2>1. CASE Len(q) < Len(r) /\ \A k \in 1..Len(q) : q[k] = r[k]
    <3>1. i <= Len(r) /\ q[i] = r[i] /\ \A j \in 1..i - 1 : p[j] = r[j]
      BY <1>0, <2>0, <2>1
    <3> QED BY <2>0, <3>1 DEF Less
  <2>2. CASE \E k \in 1..Len(q) : k <= Len(r) /\ q[k] < r[k] /\ \A j \in 1..k - 1 : q[j] = r[j]
    <3>1. PICK k \in 1..Len(q) : k <= Len(r) /\ q[k] < r[k] /\ \A j \in 1..k - 1 : q[j] = r[j]
      BY <2>2
    <3>2. CASE i < k
      <4>1. i <= Len(r) /\ q[i] = r[i] /\ \A j \in 1..i - 1 : p[j] = r[j]
        BY <1>0, <2>0, <3>1, <3>2
      <4> QED BY <2>0, <4>1 DEF Less
    <3>3. CASE k <= i
      <4>1. k \in 1..Len(p) /\ k <= Len(r) /\ \A j \in 1..k - 1 : p[j] = r[j]
        BY <1>0, <2>0, <3>1, <3>3
      <4>2. p[k] \in Nat /\ q[k] \in Nat /\ r[k] \in Nat
        BY <1>0, <4>1, <3>1, TextMeans
      <4>3. p[k] <= q[k]
        <5>1. CASE k = i
          BY <5>1, <4>2, <2>0
        <5>2. CASE k < i
          BY <1>0, <2>0, <3>1, <4>2, <5>2
        <5> QED BY <5>1, <5>2, <3>3, <1>0
      <4> QED BY <4>1, <4>2, <4>3, <3>1 DEF Less
    <3> QED BY <3>2, <3>3, <1>0
  <2> QED BY <2>1, <2>2 DEF Less
<1> QED BY <1>1, <1>2 DEF Less

\* What sorts between a beginning and what begins with it begins with it, too.
LEMMA BeginsAlike ==
  ASSUME NEW p \in Text, NEW k \in Text, NEW q \in Text,
         Len(p) <= Len(q), \A i \in 1..Len(p) : p[i] = q[i], Less(p, k), Less(k, q)
  PROVE  IsPrefix(p, k)
<1>0. Len(p) \in Nat /\ Len(q) \in Nat /\ Len(k) \in Nat
  BY TextMeans
<1>1. SUFFICES ASSUME NEW i \in 1..Len(p), i <= Len(k), p[i] < k[i], \A j \in 1..i - 1 : p[j] = k[j]
               PROVE  FALSE
  BY <1>0, PrefixMeans DEF Less
<1>2. p[i] = q[i] /\ p[i] \in Nat /\ k[i] \in Nat /\ \A j \in 1..i - 1 : q[j] = k[j]
  BY <1>0, <1>1, TextMeans
<1>3. CASE Len(k) < Len(q) /\ \A j \in 1..Len(k) : k[j] = q[j]
  BY <1>0, <1>1, <1>2, <1>3
<1>4. CASE \E m \in 1..Len(k) : m <= Len(q) /\ k[m] < q[m] /\ \A j \in 1..m - 1 : k[j] = q[j]
  <2>1. PICK m \in 1..Len(k) : m <= Len(q) /\ k[m] < q[m] /\ \A j \in 1..m - 1 : k[j] = q[j]
    BY <1>4
  <2>2. CASE m < i
    <3>1. q[m] = k[m] /\ k[m] \in Nat
      BY <1>0, <1>2, <2>1, <2>2, TextMeans
    <3> QED BY <2>1, <3>1
  <2>3. CASE m = i
    BY <1>1, <1>2, <2>1, <2>3
  <2>4. CASE i < m
    BY <1>0, <1>1, <1>2, <2>1, <2>4
  <2> QED BY <1>0, <2>2, <2>3, <2>4
<1> QED BY <1>3, <1>4 DEF Less

LEMMA InOrderMeans ==
  ASSUME NEW K, IsFiniteSet(K), K \in SUBSET Text
  PROVE  /\ Cardinality(K) \in Nat
         /\ InOrder(K) \in [1..Cardinality(K) -> K]
         /\ \A k \in K : \E i \in 1..Cardinality(K) : InOrder(K)[i] = k
         /\ \A i, j \in 1..Cardinality(K) : i < j => Less(InOrder(K)[i], InOrder(K)[j])
<1> DEFINE R == {a \in K \X K : Less(a[1], a[2])}
           Sorted(s) == \A i, j \in DOMAIN s : i < j => SortsBefore(s[i], s[j])
<1>1. \A p, q \in K : <<p, q>> \in R <=> Less(p, q)
  OBVIOUS
<1>2. Orders(R, K)
  <2> HIDE DEF R
  <2>1. \A p \in K : p \in Text
    OBVIOUS
  <2> QED BY <1>1, <2>1, LessIrreflexive, LessTransitive DEF Orders
<1>3. PICK s \in SetToSeqs(K) : \A i, j \in DOMAIN s : i < j => <<s[j], s[i]>> \notin R
  <2> HIDE DEF R
  <2> QED BY <1>2, CanSort
<1>4. Sorted(s)
  <2> HIDE DEF R
  <2> SUFFICES ASSUME NEW i \in DOMAIN s, NEW j \in DOMAIN s, i < j PROVE SortsBefore(s[i], s[j])
    OBVIOUS
  <2>1. i \in 1..Cardinality(K) /\ j \in 1..Cardinality(K) /\ Cardinality(K) \in Nat
    BY SeqsOf
  <2>2. s[i] \in K /\ s[j] \in K /\ s[i] # s[j]
    BY <2>1, SeqsOf
  <2>3. ~Less(s[j], s[i])
    BY <1>1, <1>3, <2>2
  <2> QED BY <2>2, <2>3, LessTotal, BeforeMeans
<1>5. InOrder(K) \in SetToSeqs(K) /\ Sorted(InOrder(K))
  <2>1. InOrder(K) = CHOOSE o \in SetToSeqs(K) : Sorted(o)
    BY DEF InOrder
  <2> HIDE DEF Sorted
  <2> QED BY <1>4, <2>1
<1>6. /\ Cardinality(K) \in Nat
      /\ InOrder(K) \in [1..Cardinality(K) -> K]
      /\ \A k \in K : \E i \in 1..Cardinality(K) : InOrder(K)[i] = k
  BY <1>5, SeqsOf
<1>7. ASSUME NEW i \in 1..Cardinality(K), NEW j \in 1..Cardinality(K), i < j
      PROVE  Less(InOrder(K)[i], InOrder(K)[j])
  BY <1>5, <1>6, <1>7, BeforeMeans
<1> QED BY <1>6, <1>7

-----------------------------------------------------------------------------
(* Groups *)

\* What a finite set's function takes on is finite.
LEMMA Covered ==
  ASSUME NEW S, IsFiniteSet(S), NEW T, NEW f, \A y \in T : \E x \in S : f[x] = y
  PROVE  IsFiniteSet(T)
<1> DEFINE D == {x \in S : f[x] \in T}
           g == [x \in D |-> f[x]]
<1>1. IsFiniteSet(D)
  BY FS_Subset
<1>2. g \in Surjection(D, T)
  BY DEF Surjection
<1> QED BY <1>1, <1>2, FS_Surjection

LEMMA GroupsMean ==
  ASSUME TypeOK, NEW p
  PROVE  IsFiniteSet(Groups(p)) /\ Groups(p) \subseteq Names /\ Groups(p) \in SUBSET Text
<1> DEFINE f == [h \in DOMAIN list |-> list[h].name]
<1>1. \A n \in Groups(p) : \E h \in DOMAIN list : f[h] = n
  BY DEF Groups
<1>2. Groups(p) \subseteq Names
  BY DEF TypeOK, Groups, Torrent
<1>3. IsFiniteSet(DOMAIN list)
  BY DEF TypeOK
<1> HIDE DEF f
<1>4. IsFiniteSet(Groups(p))
  BY <1>1, <1>3, Covered
<1> QED BY <1>2, <1>4, NamesAssumption DEF Text

\* holdGroups finds every pair of groups of which one lies in the other.
LEMMA NestedMeans ==
  ASSUME TypeOK, NEW p, NEW n \in Groups(p), NEW m \in Groups(p), n # m, IsUnder(m, n)
  PROVE  n \in Nested(p) /\ m \in Nested(p)
<1> DEFINE keys == InOrder(Groups(p))  N == Cardinality(Groups(p))
<1>1. /\ N \in Nat /\ keys \in [1..N -> Groups(p)]
      /\ \A k \in Groups(p) : \E i \in 1..N : keys[i] = k
      /\ \A i, j \in 1..N : i < j => Less(keys[i], keys[j])
      /\ Groups(p) \subseteq Text
  BY GroupsMean, InOrderMeans
<1> HIDE DEF keys, N
<1>2. PICK a \in 1..N : keys[a] = n
  BY <1>1
<1>3. PICK b \in 1..N : keys[b] = m
  BY <1>1
<1>4. n \in Text /\ m \in Text /\ Len(n) < Len(m) /\ \A i \in 1..Len(n) : n[i] = m[i]
  BY <1>1, UnderMeans
<1>5. Less(n, m) /\ ~Less(m, n)
  <2>1. Less(n, m)
    BY <1>4 DEF Less
  <2> QED BY <1>4, <2>1, LessTransitive, LessIrreflexive
<1>6. a < b
  BY <1>1, <1>2, <1>3, <1>5
<1>7. ASSUME NEW i \in a + 1..b PROVE IsPrefix(keys[a], keys[i])
  <2>1. i \in 1..N /\ keys[i] \in Text /\ Less(n, keys[i])
    BY <1>1, <1>2
  <2>2. CASE i = b
    BY <2>2, <1>2, <1>3, <1>4, PrefixMeans, TextMeans
  <2>3. CASE i # b
    <3>1. Less(keys[i], m)
      BY <1>1, <1>3, <2>1, <2>3
    <3>2. Len(n) <= Len(m)
      BY <1>4, TextMeans
    <3> QED BY <1>2, <1>4, <2>1, <3>1, <3>2, BeginsAlike
  <2> QED BY <2>2, <2>3
<1>8. <<a, b>> \in NestedIn(p)
  <2>1. DOMAIN keys = 1..N
    BY <1>1
  <2>2. <<a, b>> \in (DOMAIN keys) \X (DOMAIN keys) /\ <<a, b>>[1] = a /\ <<a, b>>[2] = b
    BY <2>1
  <2> QED BY <1>2, <1>3, <1>6, <1>7, <2>2 DEF NestedIn, keys
<1> QED BY <1>2, <1>3, <1>8 DEF Nested, keys

\* What was done, and settled, when the pass began.
Old(t) == t.done \in Nat /\ now >= t.done + SettleDays

LEMMA ReadyMeans ==
  ASSUME TypeOK, NEW h \in DOMAIN list, State(h) = "ready"
  PROVE  /\ list[h].path \in Hot /\ h \notin queued /\ Old(list[h])
         /\ Importers(list[h]) \X {h} \subseteq answers
<1>1. /\ Managed(list[h]) /\ ~Active(h) /\ list[h].path \notin Cold /\ Settled(list[h]) /\ ClearToTouch(h)
  BY DEF State
<1>2. list[h] \in Torrent
  BY DEF TypeOK
<1>3. list[h].done \in Nat
  BY <1>1, <1>2 DEF Active, Complete, Settled, Torrent, Incomplete, Unknown
<1> QED BY <1>1, <1>3 DEF Managed, Located, Paths, Active, Settled, ClearToTouch, Old

\* What it takes of a move, judged by what the pass has read: the group is whole, none
\* of it held, and nothing else has files of it.
ReadyGroup(e) ==
  /\ e.hashes # {} /\ e.hashes = Members(e.from, e.name)
  /\ \A h \in e.hashes : h \notin queued /\ Old(list[h]) /\ Importers(list[h]) \X {h} \subseteq answers
  /\ \A h \in DOMAIN list : list[h].path = e.from /\ SharesFiles(list[h].name, e.name) => list[h].name = e.name

GroupAt(p, n) == [from |-> p, to |-> p, name |-> n, hashes |-> {h \in Members(p, n) : State(h) = "ready"}]

LEMMA HeldTogether ==
  ASSUME TypeOK, NEW p \in Hot, NEW n \in HoldGroups(p)
  PROVE  n \in Names /\ GroupAt(p, n).hashes \subseteq DOMAIN list /\ ReadyGroup(GroupAt(p, n))
<1> DEFINE e == GroupAt(p, n)
<1>1. n \in Groups(p) /\ n \notin Nested(p) /\ \A h \in Members(p, n) : State(h) = "ready"
  BY DEF HoldGroups
<1>2. e.from = p /\ e.name = n /\ e.hashes = Members(p, n)
  BY <1>1 DEF GroupAt
<1>3. Members(p, n) \subseteq DOMAIN list /\ Members(p, n) # {}
  BY <1>1 DEF Members, Groups
<1>4. \A h \in Members(p, n) : h \notin queued /\ Old(list[h]) /\ Importers(list[h]) \X {h} \subseteq answers
  BY <1>1, <1>3, ReadyMeans
<1>5. ASSUME NEW h \in DOMAIN list, list[h].path = p, SharesFiles(list[h].name, n)
      PROVE  list[h].name = n
  <2>1. list[h].name \in Groups(p)
    BY <1>5 DEF Groups
  <2> QED BY <1>1, <1>5, <2>1, NestedMeans DEF SharesFiles
<1>6. n \in Names
  BY <1>1, GroupsMean
<1> HIDE DEF e
<1> QED BY <1>2, <1>3, <1>4, <1>5, <1>6 DEF ReadyGroup, e


-----------------------------------------------------------------------------
(* The groups in the order they are planned *)

LEMMA FinishedMeans ==
  ASSUME TypeOK, NEW e, e.hashes \in SUBSET DOMAIN list, e.hashes # {}, \A h \in e.hashes : list[h].done \in Nat
  PROVE  FinishedOn(e) \in Nat
<1> DEFINE days == {list[h].done : h \in e.hashes}
           R == {a \in days \X days : a[1] > a[2]}
           f == [h \in e.hashes |-> list[h].done]
<1>1. days \subseteq Nat /\ days # {}
  OBVIOUS
<1>2. IsFiniteSet(days)
  <2>1. IsFiniteSet(e.hashes)
    BY FS_Subset DEF TypeOK
  <2>2. \A d \in days : \E h \in e.hashes : f[h] = d
    OBVIOUS
  <2> HIDE DEF days, f
  <2> QED BY <2>1, <2>2, Covered
<1>3. \A c, d \in days : <<c, d>> \in R <=> c > d
  OBVIOUS
<1>4. \E d \in days : \A o \in days : d >= o
  <2> HIDE DEF days, R
  <2>1. Orders(R, days)
    BY <1>1, <1>3 DEF Orders
  <2>2. PICK d \in days : \A o \in days : <<o, d>> \notin R
    BY <1>1, <1>2, <2>1, FirstOf
  <2>3. ASSUME NEW o \in days PROVE d >= o
    <3>1. d \in Nat /\ o \in Nat /\ ~(o > d)
      BY <1>1, <1>3, <2>2
    <3> QED BY <3>1
  <2> QED BY <2>3
<1>5. FinishedOn(e) \in days
  <2>1. FinishedOn(e) = CHOOSE d \in days : \A o \in days : d >= o
    BY DEF FinishedOn
  <2> HIDE DEF days
  <2> QED BY <1>4, <2>1
<1> QED BY <1>1, <1>5

Left(leave) ==
  {e \in UNION {{GroupAt(p, n) : n \in HoldGroups(p)} : p \in Hot} : ~(e.hashes \subseteq leave)}

LEMMA LeftMeans ==
  ASSUME TypeOK, NEW leave
  PROVE  /\ IsFiniteSet(Left(leave))
         /\ \A e \in Left(leave) : \E p \in Hot : \E n \in HoldGroups(p) : e = GroupAt(p, n)
<1>1. \A e \in Left(leave) : \E p \in Hot : \E n \in HoldGroups(p) : e = GroupAt(p, n)
  BY DEF Left
<1> DEFINE f == [h \in DOMAIN list |-> GroupAt(list[h].path, list[h].name)]
<1>2. ASSUME NEW e \in Left(leave) PROVE \E h \in DOMAIN list : f[h] = e
  <2>1. PICK p \in Hot : \E n \in HoldGroups(p) : e = GroupAt(p, n)
    BY <1>1
  <2>2. PICK n \in HoldGroups(p) : e = GroupAt(p, n)
    BY <2>1
  <2>3. PICK h \in DOMAIN list : list[h].path = p /\ list[h].name = n
    BY DEF HoldGroups, Groups
  <2>4. f[h] = GroupAt(p, n)
    BY <2>3
  <2> HIDE DEF f
  <2> QED BY <2>2, <2>4
<1>3. IsFiniteSet(DOMAIN list)
  BY DEF TypeOK
<1> HIDE DEF f
<1> QED BY <1>1, <1>2, <1>3, Covered

LEMMA ReadyGroupsMean ==
  ASSUME TypeOK, NEW leave
  PROVE  \E n \in Nat : /\ ReadyGroups(leave) \in [1..n -> Left(leave)]
                        /\ \A e \in Left(leave) : \E i \in 1..n : ReadyGroups(leave)[i] = e
<1> DEFINE K == Left(leave)
           R == {a \in K \X K : GoesBefore(a[1], a[2])}
           Sorted(s) == \A i, j \in DOMAIN s : i < j => ~GoesBefore(s[j], s[i])
<1>0. IsFiniteSet(K)
  BY LeftMeans
<1>1. ASSUME NEW e \in K PROVE FinishedOn(e) \in Nat /\ Size[e.name] \in Nat
  <2>1. PICK p \in Hot : \E n \in HoldGroups(p) : e = GroupAt(p, n)
    BY LeftMeans
  <2>2. PICK n \in HoldGroups(p) : e = GroupAt(p, n)
    BY <2>1
  <2> HIDE DEF K
  <2>3. n \in Names /\ e.hashes \subseteq DOMAIN list /\ ReadyGroup(e)
    BY <2>2, HeldTogether
  <2>4. FinishedOn(e) \in Nat
    BY <2>3, FinishedMeans DEF ReadyGroup, Old
  <2>5. e.name = n
    BY <2>2 DEF GroupAt
  <2> QED BY <2>3, <2>4, <2>5, NamesAssumption
<1>2. \A e, f \in K : <<e, f>> \in R <=> GoesBefore(e, f)
  OBVIOUS
<1>3. Orders(R, K)
  <2> HIDE DEF K, R
  <2> QED BY <1>1, <1>2 DEF Orders, GoesBefore
<1>4. PICK s \in SetToSeqs(K) : \A i, j \in DOMAIN s : i < j => <<s[j], s[i]>> \notin R
  <2> HIDE DEF K, R
  <2> QED BY <1>0, <1>3, CanSort
<1> HIDE DEF K, R
<1>5. Sorted(s)
  <2>1. \A i \in DOMAIN s : s[i] \in K
    BY <1>0, SeqsOf
  <2> QED BY <1>2, <1>4, <2>1
<1>6. ReadyGroups(leave) = CHOOSE o \in SetToSeqs(K) : Sorted(o)
  BY DEF ReadyGroups, K, Left, GroupAt
<1>7. ReadyGroups(leave) \in SetToSeqs(K)
  <2> HIDE DEF Sorted
  <2> QED BY <1>5, <1>6
<1>8. /\ Cardinality(K) \in Nat
      /\ ReadyGroups(leave) \in [1..Cardinality(K) -> K]
      /\ \A e \in K : \E i \in 1..Cardinality(K) : ReadyGroups(leave)[i] = e
  BY <1>0, <1>7, SeqsOf
<1> QED BY <1>8 DEF K

-----------------------------------------------------------------------------
(* Where a group goes *)

LEMMA ColdMeans ==
  ASSUME NEW p \in Cold
  PROVE  Total[Disk[p]] \in Nat \ {0} /\ Max_[p] \in Nat /\ Target[p] \in Nat /\ Target[p] <= Max_[p]
         /\ Max_[p] <= Total[Disk[p]]
BY TiersAssumption DEF ValidateTiers

LEMMA FullerTransitive ==
  ASSUME NEW u \in Int, NEW v \in Int, NEW w \in Int, NEW a \in Nat \ {0}, NEW b \in Nat \ {0}, NEW c \in Nat \ {0},
         u * b > v * a, v * c > w * b
  PROVE  u * c > w * a
<1>1. \A m, n \in Int : \A k \in Nat \ {0} : m > n <=> m * k > n * k
  <2> TAKE m, n \in Int
  <2> TAKE k \in Nat \ {0}
  <2>1. (m - n) * k = m * k - n * k
    OBVIOUS
  <2>2. \A d \in Int : d > 0 <=> d * k > 0
    OBVIOUS
  <2>3. m - n > 0 <=> (m - n) * k > 0
    BY <2>2
  <2> QED BY <2>1, <2>3
<1>2. u * b * c > v * a * c /\ v * c * a > w * b * a
  BY <1>1
<1>3. v * a * c = v * c * a /\ u * b * c = u * c * b /\ w * b * a = w * a * b
  OBVIOUS
<1>4. u * c * b > w * a * b
  <2> DEFINE x == u * b * c  y == v * a * c  z == w * b * a
  <2>1. x \in Int /\ y \in Int /\ z \in Int /\ x > y /\ y > z
    BY <1>2, <1>3
  <2> HIDE DEF x, y, z
  <2>2. x > z
    BY <2>1
  <2> QED BY <1>3, <2>2 DEF x, z
<1> QED BY <1>1, <1>4

LEMMA FullestMeans ==
  ASSUME NEW seats \in SUBSET Cold, seats # {}, NEW working, \A p \in Cold : working[p] \in Int
  PROVE  Fullest(working, seats) \in seats
<1> DEFINE R == {a \in seats \X seats : Fuller(working, a[1], a[2])}
<1>1. \A p, q \in seats : <<p, q>> \in R <=> Fuller(working, p, q)
  OBVIOUS
<1> HIDE DEF R
<1>2. \A p, q \in seats : Fuller(working, p, q) <=> working[p] * Total[Disk[q]] > working[q] * Total[Disk[p]]
  BY DEF Fuller
<1>3. \A p \in seats : ~Fuller(working, p, p)
  <2> TAKE p \in seats
  <2>1. working[p] \in Int /\ Total[Disk[p]] \in Int
    BY ColdMeans
  <2> QED BY <1>2, <2>1
<1>4. ASSUME NEW p \in seats, NEW q \in seats, NEW r \in seats, Fuller(working, p, q), Fuller(working, q, r)
      PROVE  Fuller(working, p, r)
  <2>1. /\ working[p] \in Int /\ working[q] \in Int /\ working[r] \in Int
        /\ Total[Disk[p]] \in Nat \ {0} /\ Total[Disk[q]] \in Nat \ {0} /\ Total[Disk[r]] \in Nat \ {0}
    BY ColdMeans
  <2> QED BY <1>2, <1>4, <2>1, FullerTransitive
<1>5. Orders(R, seats)
  BY <1>1, <1>3, <1>4 DEF Orders
<1>6. IsFiniteSet(seats)
  BY FS_Subset, TiersAssumption DEF ValidateTiers
<1>7. \E p \in seats : \A q \in seats : <<q, p>> \notin R
  BY <1>5, <1>6, FirstOf
<1> QED BY <1>1, <1>7 DEF Fullest

\* What is planned so far with one group put on a path.
Put(sofar, e, p) ==
  [working |-> Shift(Shift(sofar.working, e.from, -Size[e.name]), p, Size[e.name]),
   moves   |-> Append(sofar.moves, [e EXCEPT !.to = p]), full |-> FALSE]

LEMMA SeatedMeans ==
  ASSUME NEW sofar, \A p \in Cold : sofar.working[p] \in Int, NEW e, Size[e.name] \in Nat
  PROVE  \/ Seats(sofar.working, e, Max_) = {} /\ Seated(sofar, e) = sofar
         \/ \E p \in Seats(sofar.working, e, Max_) : Seated(sofar, e) = Put(sofar, e, p)
<1> DEFINE under == Seats(sofar.working, e, Target)
           upTo  == Seats(sofar.working, e, Max_)
           seats == IF under # {} THEN under ELSE upTo
<1>1. under \subseteq upTo /\ upTo \subseteq Cold
  BY ColdMeans DEF Seats, Fits
<1>2. Seated(sofar, e) = IF seats = {} THEN sofar ELSE Put(sofar, e, Fullest(sofar.working, seats))
  BY DEF Seated, Put
<1> HIDE DEF under, upTo
<1>3. seats \in SUBSET Cold /\ seats \subseteq upTo /\ (seats = {} => upTo = {})
  BY <1>1
<1> HIDE DEF seats
<1>4. seats # {} => Fullest(sofar.working, seats) \in upTo
  BY <1>3, FullestMeans
<1> QED BY <1>2, <1>3, <1>4 DEF upTo

-----------------------------------------------------------------------------
(* The plan, one group after another *)

PlanAll(base, s) == FoldLeft(Seated, base, s)

\* g: the plan after each group of s.
PlanSteps(g, n, s, base) ==
  /\ g[0] = base
  /\ \A i \in 1..n : g[i] = Seated(g[i - 1], s[i])
  /\ PlanAll(base, s) = g[n]

LEMMA FoldSeated ==
  ASSUME NEW n \in Nat, NEW s, DOMAIN s = 1..n, NEW base
  PROVE  \E g : PlanSteps(g, n, s, base)
<1> DEFINE Folds(f, i) == f = [t \in SUBSET (1..i) |-> IF t = {} THEN base ELSE Seated(f[t \ {Max(t)}], s[Max(t)])]
           S == {i \in 0..n : \E f : Folds(f, i)}
           iter == CHOOSE f : f = [t \in SUBSET DOMAIN s |->
                                     IF t = {} THEN base ELSE Seated(f[t \ {Max(t)}], s[Max(t)])]
           g == [i \in 0..n |-> iter[1..i]]
<1>1. 0 \in S
  <2> DEFINE f == [t \in SUBSET (1..0) |-> base]
  <2>1. 1..0 = {}
    BY Initials
  <2>2. \A t \in SUBSET (1..0) : t = {}
    BY <2>1
  <2>3. Folds(f, 0)
    BY <2>2
  <2> HIDE DEF Folds, f
  <2> QED BY <2>3
<1>2. ASSUME NEW i \in 0..n - 1, i \in S PROVE i + 1 \in S
  <2>1. PICK f : Folds(f, i)
    BY <1>2
  <2>2. \A t \in SUBSET (1..i) : f[t] = IF t = {} THEN base ELSE Seated(f[t \ {Max(t)}], s[Max(t)])
    BY <2>1
  <2> HIDE DEF Folds
  <2> DEFINE h == [t \in SUBSET (1..i + 1) |-> IF t = {} THEN base ELSE Seated(f[t \ {Max(t)}], s[Max(t)])]
  <2>3. \A t \in SUBSET (1..i) : t \in SUBSET (1..i + 1) /\ h[t] = f[t]
    <3>1. \A t \in SUBSET (1..i) : t \in SUBSET (1..i + 1)
      OBVIOUS
    <3> QED BY <2>2, <3>1
  <2>4. ASSUME NEW t \in SUBSET (1..i + 1), t # {} PROVE h[t \ {Max(t)}] = f[t \ {Max(t)}]
    <3>1. Max(t) \in t /\ \A j \in t : j <= Max(t)
      <4>1. i + 1 \in Nat
        OBVIOUS
      <4> QED BY <2>4, <4>1, MaxOfSome
    <3>2. ASSUME NEW j \in t \ {Max(t)} PROVE j \in 1..i
      <4>1. j \in 1..i + 1 /\ Max(t) \in 1..i + 1 /\ j <= Max(t) /\ j # Max(t)
        BY <3>1
      <4> QED BY <4>1
    <3>3. t \ {Max(t)} \in SUBSET (1..i)
      BY <3>2
    <3> HIDE DEF h
    <3> QED BY <2>3, <3>3
  <2>5. h = [t \in SUBSET (1..i + 1) |-> IF t = {} THEN base ELSE Seated(h[t \ {Max(t)}], s[Max(t)])]
    BY <2>4
  <2> HIDE DEF h
  <2>6. Folds(h, i + 1)
    BY <2>5 DEF Folds
  <2>7. i + 1 \in 0..n
    OBVIOUS
  <2> QED BY <2>6, <2>7
<1>3. \E f : Folds(f, n)
  <2> HIDE DEF Folds
  <2>1. \A i \in 0..n - 1 : i \in S => i + 1 \in S
    BY <1>2
  <2>2. 0..n \subseteq S
    <3> HIDE DEF S
    <3> QED BY <1>1, <2>1, UpTo
  <2> QED BY <2>2
<1>4. iter = [t \in SUBSET DOMAIN s |-> IF t = {} THEN base ELSE Seated(iter[t \ {Max(t)}], s[Max(t)])]
  BY <1>3
<1>5. PlanAll(base, s) = iter[DOMAIN s]
  BY DEF PlanAll, FoldLeft, MapThenFoldSet
<1> HIDE DEF iter
<1>6. \A t \in SUBSET (1..n) :
        /\ t = {} => iter[t] = base
        /\ t # {} => iter[t] = Seated(iter[t \ {Max(t)}], s[Max(t)])
  BY <1>4
<1>7. \A i \in 0..n : g[i] = iter[1..i]
  OBVIOUS
<1> HIDE DEF g
<1>8. g[0] = base
  <2>1. 1..0 = {} /\ 1..0 \in SUBSET (1..n) /\ 0 \in 0..n
    BY Initials
  <2>2. iter[{}] = base
    BY <1>6
  <2> QED BY <1>7, <2>1, <2>2
<1>9. ASSUME NEW i \in 1..n PROVE g[i] = Seated(g[i - 1], s[i])
  <2>1. /\ 1..i \in SUBSET (1..n) /\ 1..i # {} /\ Max(1..i) = i
        /\ (1..i) \ {i} = 1..i - 1 /\ i - 1 \in 0..n /\ i \in 0..n
    BY Initials
  <2>2. iter[1..i] = Seated(iter[1..i - 1], s[i])
    BY <1>6, <2>1
  <2> QED BY <1>7, <2>1, <2>2
<1>10. PlanAll(base, s) = g[n]
  BY <1>5, <1>7
<1> QED BY <1>8, <1>9, <1>10 DEF PlanSteps

\* What the first k moves bring to a drive, and take from it.
Sizes(moves)       == [j \in DOMAIN moves |-> Size[moves[j].name]]
Brought(moves, k, d) == SumFunctionOnSet(Sizes(moves), {j \in 1..k : Disk[moves[j].to] = d})
Taken(moves, k, d)   == SumFunctionOnSet(Sizes(moves), {j \in 1..k : Disk[moves[j].from] = d})

LEMMA SizesMean ==
  ASSUME NEW H, NEW moves \in Seq(Entry(H)), NEW I \in SUBSET (1..Len(moves))
  PROVE  IsFiniteSet(I) /\ (\A j \in I : Sizes(moves)[j] \in Nat) /\ SumFunctionOnSet(Sizes(moves), I) \in Nat
<1>1. Len(moves) \in Nat /\ DOMAIN moves = 1..Len(moves)
  OBVIOUS
<1>2. IsFiniteSet(I)
  <2>1. \A n \in Nat : IsFiniteSet(1..n)
    BY FS_Interval
  <2>2. IsFiniteSet(1..Len(moves))
    BY <1>1, <2>1
  <2> QED BY <2>2, FS_Subset
<1>3. \A j \in I : Sizes(moves)[j] \in Nat
  <2> TAKE j \in I
  <2>1. moves[j] \in Entry(H)
    BY <1>1
  <2>2. Size[moves[j].name] \in Nat
    BY <2>1, NamesAssumption DEF Entry
  <2> QED BY <1>1, <2>2 DEF Sizes
<1>4. SumFunctionOnSet(Sizes(moves), I) \in Nat
  BY <1>2, <1>3, SumType
<1> QED BY <1>2, <1>3, <1>4

LEMMA SizesAppended ==
  ASSUME NEW H, NEW moves \in Seq(Entry(H)), NEW e \in Entry(H), NEW I \in SUBSET (1..Len(moves))
  PROVE  LET more == Append(moves, e)
             n == Len(moves)
         IN /\ SumFunctionOnSet(Sizes(more), I) = SumFunctionOnSet(Sizes(moves), I)
            /\ SumFunctionOnSet(Sizes(more), I \cup {n + 1}) = Size[e.name] + SumFunctionOnSet(Sizes(moves), I)
<1> DEFINE more == Append(moves, e)  n == Len(moves)  K == I \cup {n + 1}
<1>1. n \in Nat /\ more \in Seq(Entry(H)) /\ Len(more) = n + 1 /\ more[n + 1] = e
      /\ DOMAIN moves = 1..n /\ DOMAIN more = 1..n + 1
      /\ \A j \in 1..n : more[j] = moves[j]
  OBVIOUS
<1>2. K \in SUBSET (1..Len(more)) /\ I \in SUBSET (1..Len(more)) /\ n + 1 \in K /\ n + 1 \notin I
  <2>1. \A j \in 1..n : j \in 1..n + 1 /\ j # n + 1
    BY <1>1
  <2>2. I \in SUBSET (1..n) /\ n + 1 \in 1..n + 1
    BY <1>1
  <2> HIDE DEF more, n
  <2> QED BY <1>1, <2>1, <2>2
<1>3. IsFiniteSet(I) /\ \A j \in I : Sizes(more)[j] = Sizes(moves)[j]
  <2>1. IsFiniteSet(I)
    BY SizesMean
  <2>2. \A j \in I : j \in DOMAIN moves /\ j \in DOMAIN more /\ more[j] = moves[j]
    BY <1>1
  <2> QED BY <2>1, <2>2 DEF Sizes
<1>4. SumFunctionOnSet(Sizes(more), I) = SumFunctionOnSet(Sizes(moves), I)
  <2> HIDE DEF more
  <2> QED BY <1>3, SameSum
<1>5. IsFiniteSet(K) /\ \A j \in K : Sizes(more)[j] \in Nat
  <2> HIDE DEF K, more
  <2> QED BY <1>1, <1>2, SizesMean
<1>6. SumFunctionOnSet(Sizes(more), K) = Sizes(more)[n + 1] + SumFunctionOnSet(Sizes(more), K \ {n + 1})
  <2> HIDE DEF K, more, n
  <2> QED BY <1>2, <1>5, SumWithout
<1>7. K \ {n + 1} = I
  BY <1>2
<1>8. Sizes(more)[n + 1] = Size[e.name]
  <2> HIDE DEF more
  <2> QED BY <1>1 DEF Sizes
<1> HIDE DEF more, n
<1> QED BY <1>4, <1>6, <1>7, <1>8 DEF more, n

LEMMA Counted ==
  ASSUME NEW H, NEW moves \in Seq(Entry(H)), NEW d, NEW k \in 0..Len(moves)
  PROVE  Brought(moves, k, d) \in Nat /\ Taken(moves, k, d) \in Nat
<1>1. /\ {j \in 1..k : Disk[moves[j].to] = d} \in SUBSET (1..Len(moves))
      /\ {j \in 1..k : Disk[moves[j].from] = d} \in SUBSET (1..Len(moves))
  OBVIOUS
<1> QED BY <1>1, SizesMean DEF Brought, Taken

OneMoved(more, moves, n, e, d) ==
  /\ \A k \in 0..n : Brought(more, k, d) = Brought(moves, k, d) /\ Taken(more, k, d) = Taken(moves, k, d)
  /\ Brought(more, n + 1, d) = Brought(moves, n, d) + IF Disk[e.to] = d THEN Size[e.name] ELSE 0
  /\ Taken(more, n + 1, d) = Taken(moves, n, d) + IF Disk[e.from] = d THEN Size[e.name] ELSE 0

LEMMA CountedAppended ==
  ASSUME NEW H, NEW moves \in Seq(Entry(H)), NEW e \in Entry(H), NEW d
  PROVE  OneMoved(Append(moves, e), moves, Len(moves), e, d)
<1> DEFINE more == Append(moves, e)  n == Len(moves)
           To(m, k) == {j \in 1..k : Disk[m[j].to] = d}
           From(m, k) == {j \in 1..k : Disk[m[j].from] = d}
<1>1. n \in Nat /\ more[n + 1] = e /\ \A j \in 1..n : more[j] = moves[j]
  OBVIOUS
<1>2. ASSUME NEW k \in 0..n
      PROVE  /\ To(more, k) = To(moves, k) /\ To(moves, k) \in SUBSET (1..n)
             /\ From(more, k) = From(moves, k) /\ From(moves, k) \in SUBSET (1..n)
  <2>1. \A j \in 1..k : j \in 1..n /\ more[j] = moves[j]
    BY <1>1
  <2> HIDE DEF more
  <2> QED BY <2>1
<1>3. /\ To(more, n + 1) = IF Disk[e.to] = d THEN To(moves, n) \cup {n + 1} ELSE To(moves, n)
      /\ From(more, n + 1) = IF Disk[e.from] = d THEN From(moves, n) \cup {n + 1} ELSE From(moves, n)
  <2>1. 1..n + 1 = 1..n \cup {n + 1} /\ n + 1 \notin 1..n
    BY <1>1
  <2>2. \A j : j \in 1..n + 1 <=> j = n + 1 \/ j \in 1..n
    BY <2>1
  <2> HIDE DEF more, n
  <2>3. CASE Disk[e.to] = d
    BY <1>1, <2>2, <2>3
  <2>4. CASE Disk[e.to] # d
    BY <1>1, <2>2, <2>4
  <2>5. CASE Disk[e.from] = d
    BY <1>1, <2>2, <2>5
  <2>6. CASE Disk[e.from] # d
    BY <1>1, <2>2, <2>6
  <2>7. To(more, n + 1) = IF Disk[e.to] = d THEN To(moves, n) \cup {n + 1} ELSE To(moves, n)
    BY <2>3, <2>4
  <2>8. From(more, n + 1) = IF Disk[e.from] = d THEN From(moves, n) \cup {n + 1} ELSE From(moves, n)
    BY <2>5, <2>6
  <2> QED BY <2>7, <2>8
<1>4. \A k \in 0..n : /\ Brought(moves, k, d) = SumFunctionOnSet(Sizes(moves), To(moves, k))
                      /\ Taken(moves, k, d) = SumFunctionOnSet(Sizes(moves), From(moves, k))
  BY DEF Brought, Taken
<1>5. \A k \in 0..n + 1 : /\ Brought(more, k, d) = SumFunctionOnSet(Sizes(more), To(more, k))
                          /\ Taken(more, k, d) = SumFunctionOnSet(Sizes(more), From(more, k))
  BY DEF Brought, Taken
<1>6. \A I \in SUBSET (1..n) :
        /\ SumFunctionOnSet(Sizes(more), I) = SumFunctionOnSet(Sizes(moves), I)
        /\ SumFunctionOnSet(Sizes(more), I \cup {n + 1}) = Size[e.name] + SumFunctionOnSet(Sizes(moves), I)
        /\ SumFunctionOnSet(Sizes(moves), I) \in Nat
  BY SizesAppended, SizesMean
<1>7. Size[e.name] \in Nat
  BY NamesAssumption DEF Entry
<1>8. \A k \in 0..n : k \in 0..n + 1
  BY <1>1
<1>9. n \in 0..n /\ n + 1 \in 0..n + 1
  BY <1>1
<1> HIDE DEF more, n, To, From
<1>10. \A k \in 0..n : Brought(more, k, d) = Brought(moves, k, d) /\ Taken(more, k, d) = Taken(moves, k, d)
  BY <1>2, <1>4, <1>5, <1>6, <1>8
<1>11. Brought(more, n + 1, d) = Brought(moves, n, d) + IF Disk[e.to] = d THEN Size[e.name] ELSE 0
  <2>1. /\ Brought(more, n + 1, d) = SumFunctionOnSet(Sizes(more), To(more, n + 1))
        /\ Brought(moves, n, d) = SumFunctionOnSet(Sizes(moves), To(moves, n))
        /\ To(moves, n) \in SUBSET (1..n)
    BY <1>2, <1>4, <1>5, <1>9
  <2> DEFINE was == SumFunctionOnSet(Sizes(moves), To(moves, n))
  <2>2. was \in Nat
    BY <1>6, <2>1
  <2>3. SumFunctionOnSet(Sizes(more), To(more, n + 1)) = IF Disk[e.to] = d THEN Size[e.name] + was ELSE was
    BY <1>3, <1>6, <2>1
  <2> HIDE DEF was
  <2> QED BY <1>7, <2>1, <2>2, <2>3 DEF was
<1>12. Taken(more, n + 1, d) = Taken(moves, n, d) + IF Disk[e.from] = d THEN Size[e.name] ELSE 0
  <2>1. /\ Taken(more, n + 1, d) = SumFunctionOnSet(Sizes(more), From(more, n + 1))
        /\ Taken(moves, n, d) = SumFunctionOnSet(Sizes(moves), From(moves, n))
        /\ From(moves, n) \in SUBSET (1..n)
    BY <1>2, <1>4, <1>5, <1>9
  <2> DEFINE was == SumFunctionOnSet(Sizes(moves), From(moves, n))
  <2>2. was \in Nat
    BY <1>6, <2>1
  <2>3. SumFunctionOnSet(Sizes(more), From(more, n + 1)) = IF Disk[e.from] = d THEN Size[e.name] + was ELSE was
    BY <1>3, <1>6, <2>1
  <2> HIDE DEF was
  <2> QED BY <1>7, <2>1, <2>2, <2>3 DEF was
<1> QED BY <1>10, <1>11, <1>12 DEF more, n, OneMoved

-----------------------------------------------------------------------------
(* What holds of the plan, however far it is *)

LEMMA HeldBackMeans ==
  ASSUME TypeOK
  PROVE  \A p \in Paths : HeldBack[p] = usage[p] + Reserved(p) /\ usage[p] \in Nat /\ Reserved(p) \in Nat
                          /\ HeldBack[p] \in Nat
<1> SUFFICES ASSUME NEW p \in Paths
             PROVE  HeldBack[p] = usage[p] + Reserved(p) /\ usage[p] \in Nat /\ Reserved(p) \in Nat
  OBVIOUS
<1>1. HeldBack[p] = usage[p] + Reserved(p)
  BY DEF HeldBack
<1>2. usage[p] \in Nat
  BY DEF TypeOK
<1> DEFINE under == {h \in DOMAIN list : /\ ~Complete(list[h]) /\ ~Stopped(list[h])
                                         /\ Located(list[h]) /\ Disk[list[h].path] = Disk[p]}
           f == [h \in DOMAIN list |-> Size[list[h].name]]
<1>3. IsFiniteSet(under)
  BY FS_Subset DEF TypeOK
<1>4. \A h \in under : f[h] \in Nat
  <2> TAKE h \in under
  <2>1. list[h] \in Torrent
    BY DEF TypeOK
  <2> QED BY <2>1, NamesAssumption DEF Torrent
<1>5. SumFunctionOnSet(f, under) \in Nat
  <2> HIDE DEF f, under
  <2> QED BY <1>3, <1>4, SumType
<1>6. Reserved(p) \in Nat
  BY <1>5 DEF Reserved
<1> QED BY <1>1, <1>2, <1>6

\* The room each drive has left is what the plan began with, and the moves so far;
\* each of those found room when it was planned.
Sound(sofar) ==
  /\ sofar.working \in [Paths -> Int]
  /\ sofar.moves \in Seq(Entry(DOMAIN list))
  /\ \A j \in 1..Len(sofar.moves) : ReadyGroup(sofar.moves[j])
  /\ \A p \in Paths :
       sofar.working[p] = HeldBack[p] + Brought(sofar.moves, Len(sofar.moves), Disk[p])
                                      - Taken(sofar.moves, Len(sofar.moves), Disk[p])
  /\ \A k \in 1..Len(sofar.moves) :
       HeldBack[sofar.moves[k].to] + Brought(sofar.moves, k, Disk[sofar.moves[k].to])
         - Taken(sofar.moves, k - 1, Disk[sofar.moves[k].to]) <= Max_[sofar.moves[k].to]

\* A group has its move, or there was no room for it, and there is none since.
Served(sofar, e) ==
  \/ \E j \in 1..Len(sofar.moves) : sofar.moves[j].from = e.from /\ sofar.moves[j].name = e.name
  \/ \A c \in Cold \ Unseen :
       \/ HeldBack[c] + Brought(sofar.moves, Len(sofar.moves), Disk[c]) + Size[e.name] > Max_[c]
       \/ Exists(c, e.name)

Nothing == [working |-> HeldBack, moves |-> <<>>, full |-> FALSE]

LEMMA SoundAtFirst ==
  ASSUME TypeOK
  PROVE  Sound(Nothing)
<1>1. Nothing.working = HeldBack /\ Nothing.moves = <<>> /\ Len(Nothing.moves) = 0
  BY DEF Nothing
<1>2. HeldBack \in [Paths -> Int]
  BY HeldBackMeans DEF HeldBack
<1>3. \A d : Brought(<<>>, 0, d) = 0 /\ Taken(<<>>, 0, d) = 0
  <2>1. 1..0 = {}
    BY Initials
  <2> QED BY <2>1, SumOfNone DEF Brought, Taken
<1>4. <<>> \in Seq(Entry(DOMAIN list)) /\ 1..0 = {}
  BY Initials
<1>5. \A p \in Paths : HeldBack[p] = HeldBack[p] + Brought(<<>>, 0, Disk[p]) - Taken(<<>>, 0, Disk[p])
  BY <1>3, HeldBackMeans
<1> QED BY <1>1, <1>2, <1>4, <1>5 DEF Sound

\* A group the plan may move, wherever it puts it.
Candidate(e) ==
  /\ e.from \in Hot /\ e.name \in Names /\ e.hashes \in SUBSET DOMAIN list
  /\ \E p, n : e = GroupAt(p, n)
  /\ ReadyGroup(e)

LEMMA CandidatePut ==
  ASSUME TypeOK, NEW e, Candidate(e), NEW p \in Cold
  PROVE  LET x == [e EXCEPT !.to = p]
         IN x \in Entry(DOMAIN list) /\ ReadyGroup(x) /\ x.from = e.from /\ x.name = e.name /\ x.to = p
<1> DEFINE x == [e EXCEPT !.to = p]
<1>1. PICK q, n : e = GroupAt(q, n)
  BY DEF Candidate
<1>2. x.from = e.from /\ x.name = e.name /\ x.hashes = e.hashes /\ x.to = p
      /\ x = [from |-> e.from, to |-> p, name |-> e.name, hashes |-> e.hashes]
  BY <1>1 DEF GroupAt
<1> HIDE DEF x
<1>3. x \in Entry(DOMAIN list)
  BY <1>2 DEF Candidate, Entry
<1>4. ReadyGroup(x)
  BY <1>2 DEF Candidate, ReadyGroup
<1> QED BY <1>2, <1>3, <1>4 DEF x

PutTo(next, sofar, e, p) ==
  /\ next.working \in [Paths -> Int]
  /\ \A q \in Paths : next.working[q] = sofar.working[q] - (IF Disk[e.from] = Disk[q] THEN Size[e.name] ELSE 0)
                                                        + (IF Disk[p] = Disk[q] THEN Size[e.name] ELSE 0)

LEMMA PutMeans ==
  ASSUME NEW sofar, sofar.working \in [Paths -> Int], NEW e, Size[e.name] \in Nat, NEW p
  PROVE  PutTo(Put(sofar, e, p), sofar, e, p)
<1> DEFINE one == Shift(sofar.working, e.from, -Size[e.name])
           two == Shift(one, p, Size[e.name])
           s == Size[e.name]
<1>1. one = [q \in Paths |-> IF Disk[q] = Disk[e.from] THEN sofar.working[q] + (-Size[e.name]) ELSE sofar.working[q]]
  BY DEF Shift
<1>2. \A q \in Paths : one[q] = sofar.working[q] - (IF Disk[e.from] = Disk[q] THEN Size[e.name] ELSE 0)
  <2> TAKE q \in Paths
  <2>1. sofar.working[q] \in Int
    OBVIOUS
  <2> QED BY <1>1, <2>1
<1>3. one \in [Paths -> Int] /\ \A q \in Paths : one[q] \in Int
  <2>1. \A q \in Paths : sofar.working[q] \in Int
    OBVIOUS
  <2> QED BY <1>1, <2>1
<1>4. two = [q \in Paths |-> IF Disk[q] = Disk[p] THEN one[q] + Size[e.name] ELSE one[q]]
  <2> HIDE DEF one
  <2> QED BY <1>3 DEF Shift
<1> HIDE DEF one
<1>5. \A q \in Paths : two[q] = one[q] + (IF Disk[p] = Disk[q] THEN Size[e.name] ELSE 0)
  BY <1>3, <1>4
<1>6. two \in [Paths -> Int]
  BY <1>3, <1>4
<1>7. Put(sofar, e, p).working = two
  BY DEF Put, one
<1> HIDE DEF two
<1> QED BY <1>2, <1>5, <1>6, <1>7 DEF PutTo

LEMMA SoundAfter ==
  ASSUME TypeOK, NEW sofar, Sound(sofar), NEW e, Candidate(e), NEW p \in Seats(sofar.working, e, Max_)
  PROVE  Sound(Put(sofar, e, p))
<1> DEFINE moves == sofar.moves  n == Len(moves)  x == [e EXCEPT !.to = p]
           next == Put(sofar, e, p)  more == Append(moves, x)
           s == Size[e.name]
<1>1. p \in Cold /\ p \in Paths /\ sofar.working[p] + s <= Max_[p]
  BY DEF Seats, Fits, Paths
<1>2. x \in Entry(DOMAIN list) /\ ReadyGroup(x) /\ x.from = e.from /\ x.name = e.name /\ x.to = p
  BY <1>1, CandidatePut
<1>3. s \in Nat
  BY NamesAssumption DEF Candidate
<1>4. moves \in Seq(Entry(DOMAIN list)) /\ sofar.working \in [Paths -> Int]
  BY DEF Sound
<1>5. /\ next.working \in [Paths -> Int]
      /\ \A q \in Paths : next.working[q] = sofar.working[q] - (IF Disk[e.from] = Disk[q] THEN s ELSE 0)
                                                             + (IF Disk[p] = Disk[q] THEN s ELSE 0)
      /\ next.moves = more
  <2>1. Size[e.name] \in Nat /\ sofar.working \in [Paths -> Int]
    BY <1>3, <1>4
  <2>2. PutTo(Put(sofar, e, p), sofar, e, p)
    BY <2>1, PutMeans
  <2>3. Put(sofar, e, p).moves = Append(sofar.moves, [e EXCEPT !.to = p])
    BY DEF Put
  <2> QED BY <2>2, <2>3 DEF PutTo
<1> HIDE DEF next, x, s
<1>6. n \in Nat /\ more \in Seq(Entry(DOMAIN list)) /\ Len(more) = n + 1 /\ more[n + 1] = x
      /\ (\A j \in 1..n : more[j] = moves[j]) /\ \A j \in 1..n + 1 : j \in 1..n \/ j = n + 1
  BY <1>2, <1>4
<1>7. \A d : /\ \A k \in 0..n : Brought(more, k, d) = Brought(moves, k, d) /\ Taken(more, k, d) = Taken(moves, k, d)
             /\ Brought(more, n + 1, d) = Brought(moves, n, d) + IF Disk[p] = d THEN s ELSE 0
             /\ Taken(more, n + 1, d) = Taken(moves, n, d) + IF Disk[e.from] = d THEN s ELSE 0
  <2> TAKE d
  <2>1. s = Size[x.name]
    BY <1>2 DEF s
  <2>2. /\ \A k \in 0..n : Brought(more, k, d) = Brought(moves, k, d) /\ Taken(more, k, d) = Taken(moves, k, d)
        /\ Brought(more, n + 1, d) = Brought(moves, n, d) + IF Disk[x.to] = d THEN Size[x.name] ELSE 0
        /\ Taken(more, n + 1, d) = Taken(moves, n, d) + IF Disk[x.from] = d THEN Size[x.name] ELSE 0
    <3>1. OneMoved(more, moves, n, x, d)
      BY <1>2, <1>4, CountedAppended
    <3> HIDE DEF more, n, moves
    <3> QED BY <3>1 DEF OneMoved
  <2> HIDE DEF more, n, moves
  <2> QED BY <1>2, <2>1, <2>2
<1>8. \A d, k : k \in 0..n => Brought(moves, k, d) \in Nat /\ Taken(moves, k, d) \in Nat
  BY <1>4, Counted
<1> HIDE DEF more, n
<1>9. \A j \in 1..Len(next.moves) : ReadyGroup(next.moves[j])
  <2>1. \A j \in 1..n : ReadyGroup(moves[j])
    BY DEF Sound, n
  <2> QED BY <1>2, <1>5, <1>6, <2>1
<1>10. ASSUME NEW q \in Paths
       PROVE  next.working[q] = HeldBack[q] + Brought(more, n + 1, Disk[q]) - Taken(more, n + 1, Disk[q])
  <2> DEFINE b == Brought(moves, n, Disk[q])  t == Taken(moves, n, Disk[q])
  <2>1. b \in Nat /\ t \in Nat
    BY <1>6, <1>8
  <2>2. sofar.working[q] = HeldBack[q] + b - t
    BY DEF Sound, n
  <2>3. HeldBack[q] \in Nat
    BY HeldBackMeans
  <2>4. Brought(more, n + 1, Disk[q]) = b + IF Disk[p] = Disk[q] THEN s ELSE 0
    BY <1>7
  <2>5. Taken(more, n + 1, Disk[q]) = t + IF Disk[e.from] = Disk[q] THEN s ELSE 0
    BY <1>7
  <2> HIDE DEF b, t
  <2> QED BY <1>3, <1>5, <2>1, <2>2, <2>3, <2>4, <2>5
<1>11. ASSUME NEW k \in 1..n + 1
       PROVE  HeldBack[more[k].to] + Brought(more, k, Disk[more[k].to]) - Taken(more, k - 1, Disk[more[k].to])
                <= Max_[more[k].to]
  <2>1. CASE k = n + 1
    <3> DEFINE b == Brought(moves, n, Disk[p])  t == Taken(moves, n, Disk[p])
    <3>1. b \in Nat /\ t \in Nat
      BY <1>6, <1>8
    <3>2. sofar.working[p] = HeldBack[p] + b - t
      BY <1>1 DEF Sound, n
    <3>3. HeldBack[p] \in Nat /\ Max_[p] \in Nat
      BY <1>1, HeldBackMeans, ColdMeans
    <3>4. more[k].to = p /\ k - 1 = n /\ n \in 0..n
      BY <1>2, <1>6, <2>1
    <3>5. Brought(more, k, Disk[p]) = b + s /\ Taken(more, k - 1, Disk[p]) = t
      BY <1>7, <2>1, <3>4
    <3> HIDE DEF b, t
    <3>6. HeldBack[p] + (b + s) - t <= Max_[p]
      BY <1>1, <1>3, <3>1, <3>2, <3>3
    <3> QED BY <3>4, <3>5, <3>6
  <2>2. CASE k # n + 1
    <3>1. k \in 1..n /\ k \in 0..n /\ k - 1 \in 0..n
      BY <1>6, <2>2
    <3>2. HeldBack[moves[k].to] + Brought(moves, k, Disk[moves[k].to]) - Taken(moves, k - 1, Disk[moves[k].to])
            <= Max_[moves[k].to]
      BY <3>1 DEF Sound, n
    <3>3. more[k] = moves[k]
      BY <1>6, <3>1
    <3> QED BY <1>7, <3>1, <3>2, <3>3
  <2> QED BY <2>1, <2>2
<1> QED BY <1>5, <1>6, <1>9, <1>10, <1>11 DEF Sound, next

\* What has been served stays served.
LEMMA ServedAfter ==
  ASSUME TypeOK, NEW sofar, Sound(sofar), NEW e, Candidate(e), NEW p \in Seats(sofar.working, e, Max_),
         NEW f, Size[f.name] \in Nat, Served(sofar, f)
  PROVE  Served(Put(sofar, e, p), f)
<1> DEFINE moves == sofar.moves  n == Len(moves)  x == [e EXCEPT !.to = p]
           next == Put(sofar, e, p)  more == Append(moves, x)
<1>1. p \in Cold
  BY DEF Seats
<1>2. x \in Entry(DOMAIN list) /\ Size[x.name] \in Nat
  BY <1>1, CandidatePut, NamesAssumption DEF Entry
<1>3. moves \in Seq(Entry(DOMAIN list))
  BY DEF Sound
<1>4. next.moves = more
  BY DEF Put
<1> HIDE DEF x, next
<1>5. n \in Nat /\ Len(more) = n + 1 /\ \A j \in 1..n : more[j] = moves[j] /\ j \in 1..n + 1
  BY <1>2, <1>3
<1>6. CASE \E j \in 1..n : moves[j].from = f.from /\ moves[j].name = f.name
  <2> HIDE DEF more, n
  <2> QED BY <1>4, <1>5, <1>6 DEF Served, next
<1>7. CASE \A c \in Cold \ Unseen :
             HeldBack[c] + Brought(moves, n, Disk[c]) + Size[f.name] > Max_[c] \/ Exists(c, f.name)
  <2>1. ASSUME NEW c \in Cold \ Unseen, ~Exists(c, f.name)
        PROVE  HeldBack[c] + Brought(more, n + 1, Disk[c]) + Size[f.name] > Max_[c]
    <3> DEFINE b == Brought(moves, n, Disk[c])
    <3>1. HeldBack[c] + b + Size[f.name] > Max_[c]
      BY <1>7, <2>1
    <3>2. b \in Nat
      <4>1. n \in 0..Len(moves)
        BY <1>5
      <4> QED BY <1>3, <4>1, Counted
    <3>3. Brought(more, n + 1, Disk[c]) = b + IF Disk[x.to] = Disk[c] THEN Size[x.name] ELSE 0
      <4>1. OneMoved(more, moves, n, x, Disk[c])
        BY <1>2, <1>3, CountedAppended
      <4> HIDE DEF more, n, moves
      <4> QED BY <4>1 DEF OneMoved
    <3>4. HeldBack[c] \in Nat /\ Max_[c] \in Nat
      BY HeldBackMeans, ColdMeans DEF Paths
    <3> HIDE DEF b, n, more
    <3> QED BY <1>2, <3>1, <3>2, <3>3, <3>4
  <2> HIDE DEF more, n
  <2> QED BY <1>4, <1>5, <2>1 DEF Served, next
<1> QED BY <1>6, <1>7 DEF Served

\* One group more: the plan is as sound, what was served still is, and now it is.
LEMMA OneMore ==
  ASSUME TypeOK, NEW sofar, Sound(sofar), NEW e, Candidate(e)
  PROVE  /\ Sound(Seated(sofar, e))
         /\ Served(Seated(sofar, e), e)
         /\ \A f : Size[f.name] \in Nat /\ Served(sofar, f) => Served(Seated(sofar, e), f)
<1>1. Size[e.name] \in Nat
  BY NamesAssumption DEF Candidate
<1>2. \A p \in Cold : sofar.working[p] \in Int
  BY DEF Sound, Paths
<1>3. CASE Seats(sofar.working, e, Max_) = {} /\ Seated(sofar, e) = sofar
  <2>1. ASSUME NEW c \in Cold \ Unseen, ~Exists(c, e.name)
        PROVE  HeldBack[c] + Brought(sofar.moves, Len(sofar.moves), Disk[c]) + Size[e.name] > Max_[c]
    <3> DEFINE b == Brought(sofar.moves, Len(sofar.moves), Disk[c])
               t == Taken(sofar.moves, Len(sofar.moves), Disk[c])
    <3>1. ~Fits(sofar.working, c, Size[e.name], Max_[c])
      BY <1>3, <2>1 DEF Seats
    <3>2. sofar.working[c] \in Int /\ Max_[c] \in Nat /\ Total[Disk[c]] \in Nat /\ Max_[c] <= Total[Disk[c]]
      BY <1>2, ColdMeans
    <3>3. sofar.working[c] + Size[e.name] > Max_[c]
      BY <1>1, <3>1, <3>2 DEF Fits
    <3>4. b \in Nat /\ t \in Nat
      <4>1. sofar.moves \in Seq(Entry(DOMAIN list)) /\ Len(sofar.moves) \in 0..Len(sofar.moves)
        BY DEF Sound
      <4> QED BY <4>1, Counted
    <3>5. sofar.working[c] = HeldBack[c] + b - t /\ HeldBack[c] \in Nat
      BY HeldBackMeans DEF Sound, Paths
    <3> HIDE DEF b, t
    <3> QED BY <1>1, <3>2, <3>3, <3>4, <3>5 DEF b
  <2>2. Served(sofar, e)
    BY <2>1 DEF Served
  <2> QED BY <1>3, <2>2
<1>4. CASE \E p \in Seats(sofar.working, e, Max_) : Seated(sofar, e) = Put(sofar, e, p)
  <2>1. PICK p \in Seats(sofar.working, e, Max_) : Seated(sofar, e) = Put(sofar, e, p)
    BY <1>4
  <2>2. Sound(Put(sofar, e, p))
    BY SoundAfter
  <2>3. Served(Put(sofar, e, p), e)
    <3> DEFINE x == [e EXCEPT !.to = p]  more == Append(sofar.moves, x)
    <3>1. p \in Cold
      BY DEF Seats
    <3>2. x.from = e.from /\ x.name = e.name /\ x \in Entry(DOMAIN list)
      BY <3>1, CandidatePut
    <3>3. Put(sofar, e, p).moves = more
      BY DEF Put
    <3> HIDE DEF x
    <3>4. Len(more) \in 1..Len(more) /\ more[Len(more)] = x
      <4>1. sofar.moves \in Seq(Entry(DOMAIN list))
        BY DEF Sound
      <4> QED BY <3>2, <4>1
    <3> HIDE DEF more
    <3> QED BY <3>2, <3>3, <3>4 DEF Served
  <2>4. \A f : Size[f.name] \in Nat /\ Served(sofar, f) => Served(Put(sofar, e, p), f)
    BY ServedAfter
  <2> QED BY <2>1, <2>2, <2>3, <2>4
<1> QED BY <1>1, <1>2, <1>3, <1>4, SeatedMeans

LEMMA PlanMeans ==
  ASSUME TypeOK, NEW leave
  PROVE  \E last : /\ Plan(leave) = last.moves
                   /\ Sound(last)
                   /\ \A e \in Left(leave) : Served(last, e)
<1> DEFINE order == ReadyGroups(leave)
<1>1. PICK n \in Nat : order \in [1..n -> Left(leave)] /\ \A e \in Left(leave) : \E i \in 1..n : order[i] = e
  BY ReadyGroupsMean
<1>2. PICK g : /\ g[0] = Nothing
               /\ \A i \in 1..n : g[i] = Seated(g[i - 1], order[i])
               /\ PlanAll(Nothing, order) = g[n]
  <2>1. DOMAIN order = 1..n
    BY <1>1
  <2> HIDE DEF order
  <2>2. \E g : PlanSteps(g, n, order, Nothing)
    BY <2>1, FoldSeated
  <2> QED BY <2>2 DEF PlanSteps
<1>3. Plan(leave) = g[n].moves
  BY <1>2 DEF Plan, Nothing, PlanAll
<1> HIDE DEF order
<1>4. ASSUME NEW e \in Left(leave) PROVE Candidate(e) /\ Size[e.name] \in Nat
  <2>1. PICK p \in Hot : \E m \in HoldGroups(p) : e = GroupAt(p, m)
    BY LeftMeans
  <2>2. PICK m \in HoldGroups(p) : e = GroupAt(p, m)
    BY <2>1
  <2>3. m \in Names /\ e.hashes \subseteq DOMAIN list /\ ReadyGroup(e)
    BY <2>2, HeldTogether
  <2>4. e.from = p /\ e.name = m
    BY <2>2 DEF GroupAt
  <2> QED BY <2>2, <2>3, <2>4, NamesAssumption DEF Candidate
<1> DEFINE Holds(i) == Sound(g[i]) /\ \A j \in 1..i : Served(g[i], order[j])
           S == {i \in 0..n : Holds(i)}
<1>5. 0 \in S
  BY <1>2, SoundAtFirst, Initials
<1>6. ASSUME NEW i \in 0..n - 1, i \in S PROVE i + 1 \in S
  <2>1. i + 1 \in 1..n /\ i + 1 \in 0..n /\ (i + 1) - 1 = i
        /\ \A j \in 1..i + 1 : j = i + 1 \/ j \in 1..i
    OBVIOUS
  <2>2. order[i + 1] \in Left(leave) /\ \A j \in 1..i : order[j] \in Left(leave)
    BY <1>1, <2>1
  <2>3. g[i + 1] = Seated(g[i], order[i + 1])
    BY <1>2, <2>1
  <2>4. Sound(g[i]) /\ \A j \in 1..i : Served(g[i], order[j])
    BY <1>6
  <2>5. /\ Sound(g[i + 1]) /\ Served(g[i + 1], order[i + 1])
        /\ \A f : Size[f.name] \in Nat /\ Served(g[i], f) => Served(g[i + 1], f)
    BY <1>4, <2>2, <2>3, <2>4, OneMore
  <2>6. \A j \in 1..i + 1 : Served(g[i + 1], order[j])
    BY <1>4, <2>1, <2>2, <2>4, <2>5
  <2> QED BY <2>1, <2>5, <2>6
<1>7. n \in S
  <2>1. \A i \in 0..n - 1 : i \in S => i + 1 \in S
    BY <1>6
  <2>2. 0..n \subseteq S
    <3> HIDE DEF S
    <3> QED BY <1>5, <2>1, UpTo
  <2> QED BY <2>2
<1>8. Sound(g[n]) /\ \A e \in Left(leave) : Served(g[n], e)
  BY <1>1, <1>7
<1> QED BY <1>3, <1>8

\* WithinMax of moves planned with this usage and list.
Room(used, listed, moves) ==
  \A k \in DOMAIN moves :
    LET d == Disk[moves[k].to]
        coming == {h \in DOMAIN listed : listed[h].path \in Paths /\ Disk[listed[h].path] = d
                                         /\ listed[h].stage = "downloading"}
        onto == {j \in 1..k : Disk[moves[j].to] = d}
        off == {j \in 1..k - 1 : Disk[moves[j].from] = d}
        size == [j \in DOMAIN moves |-> Size[moves[j].name]]
    IN used[moves[k].to] + SumFunctionOnSet([h \in DOMAIN listed |-> Size[listed[h].name]], coming)
         + SumFunctionOnSet(size, onto) - SumFunctionOnSet(size, off) <= Max_[moves[k].to]

LEMMA RoomMeans == WithinMax <=> (at = "planned" => Room(usage, list, entries))
BY DEF WithinMax, Room

LEMMA SoundRoom ==
  ASSUME TypeOK, NEW sofar, Sound(sofar)
  PROVE  Room(usage, list, sofar.moves)
<1> DEFINE moves == sofar.moves
           size == [j \in DOMAIN moves |-> Size[moves[j].name]]
           f == [h \in DOMAIN list |-> Size[list[h].name]]
           Coming(d) == {h \in DOMAIN list : list[h].path \in Paths /\ Disk[list[h].path] = d
                                             /\ list[h].stage = "downloading"}
<1>1. moves \in Seq(Entry(DOMAIN list)) /\ DOMAIN moves = 1..Len(moves) /\ Len(moves) \in Nat
  BY DEF Sound
<1>2. ASSUME NEW k \in DOMAIN moves
      PROVE  LET d == Disk[moves[k].to]
             IN usage[moves[k].to] + SumFunctionOnSet(f, Coming(d)) + Brought(moves, k, d) - Taken(moves, k - 1, d)
                  <= Max_[moves[k].to]
  <2> DEFINE p == moves[k].to
             under == {h \in DOMAIN list : /\ ~Complete(list[h]) /\ ~Stopped(list[h])
                                           /\ Located(list[h]) /\ Disk[list[h].path] = Disk[p]}
             b == Brought(moves, k, Disk[p])  t == Taken(moves, k - 1, Disk[p])
             c == SumFunctionOnSet(f, Coming(Disk[p]))
  <2>1. p \in Cold /\ p \in Paths
    <3>1. moves[k] \in Entry(DOMAIN list)
      <4> HIDE DEF moves
      <4> QED BY <1>1, <1>2
    <3> HIDE DEF moves
    <3> QED BY <3>1 DEF Entry, Paths
  <2>2. k \in 0..Len(moves) /\ k - 1 \in 0..Len(moves) /\ k \in 1..Len(moves)
    BY <1>1
  <2>3. b \in Nat /\ t \in Nat
    BY <1>1, <2>2, Counted
  <2>4. HeldBack[p] + b - t <= Max_[p]
    BY <2>2 DEF Sound
  <2>5. IsFiniteSet(under) /\ \A h \in under : f[h] \in Nat
    <3>1. IsFiniteSet(under)
      BY FS_Subset DEF TypeOK
    <3>2. \A h \in DOMAIN list : list[h] \in Torrent
      BY DEF TypeOK
    <3>3. \A h \in under : f[h] \in Nat
      BY <3>2, NamesAssumption DEF Torrent
    <3> QED BY <3>1, <3>3
  <2>6. Coming(Disk[p]) \in SUBSET under
    <3>1. \A h \in DOMAIN list : list[h] \in Torrent
      BY DEF TypeOK
    <3> QED BY <3>1 DEF Torrent, Complete, Stopped, Located
  <2>7. SumFunctionOnSet(f, under) = Reserved(p)
    BY DEF Reserved
  <2> HIDE DEF f, under, Coming
  <2>8. c <= Reserved(p) /\ c \in Nat
    <3>1. c <= SumFunctionOnSet(f, under)
      BY <2>5, <2>6, SumOfMore
    <3>2. IsFiniteSet(Coming(Disk[p])) /\ \A h \in Coming(Disk[p]) : f[h] \in Nat
      BY <2>5, <2>6, FS_Subset
    <3> QED BY <2>7, <3>1, <3>2, SumType
  <2>9. HeldBack[p] = usage[p] + Reserved(p) /\ usage[p] \in Nat /\ Reserved(p) \in Nat /\ Max_[p] \in Nat
    BY <2>1, HeldBackMeans, ColdMeans
  <2> HIDE DEF b, t, c, p
  <2>10. usage[p] + c + b - t <= Max_[p]
    BY <2>3, <2>4, <2>8, <2>9
  <2> QED BY <2>10 DEF b, t, c, p
<1>3. size = Sizes(moves)
  BY DEF Sizes
<1> QED BY <1>2, <1>3 DEF Room, Brought, Taken

-----------------------------------------------------------------------------
(* What the invariants rest on *)

WorldOK ==
  /\ clock \in Nat
  /\ torrents \in [DOMAIN torrents -> Torrent] /\ IsFiniteSet(DOMAIN torrents)
  /\ files \subseteq (Paths \cup {"elsewhere"}) \X Names /\ IsFiniteSet(files)
  /\ headed = NoEntry \/ headed \in Entry(headed.hashes)

PassOK ==
  /\ now \in Nat
  /\ at \in {"idle", "reading", "planning", "planned", "running", "landing"}
  /\ list \in [DOMAIN list -> Torrent] /\ IsFiniteSet(DOMAIN list)
  /\ usage \in [Paths -> Nat]
  /\ read \subseteq {"list", "queues"}
  /\ entries \in Seq(Entry(DOMAIN list))
  /\ relabels \subseteq DOMAIN list

LEMMA TypeMeans == TypeOK <=> WorldOK /\ PassOK
BY DEF TypeOK, WorldOK, PassOK

Passing ==
  /\ at = "idle" => read = {}
  /\ at \notin {"idle", "reading"} => read = {"list", "queues"}
  /\ at # "idle" => now <= clock
  /\ at \in {"idle", "reading", "planning"} => entries = <<>> /\ relabels = {}
  /\ at = "landing" => entries # <<>>
  /\ since \subseteq touched

\* A download nobody has touched since is listed, under its name, and is where it was
\* or where Coldarr moves downloads to.
Steady ==
  "list" \in read =>
    \A h \in DOMAIN torrents \ since :
      /\ h \in DOMAIN list
      /\ torrents[h].name = list[h].name
      /\ torrents[h].path = list[h].path \/ torrents[h].path \in Cold

Answered == cache \subseteq imported /\ answers \subseteq imported

\* What an app has in its queue and had not when that was read came after the pass
\* began, so that it is not settled.
Queued ==
  "queues" \in read =>
    \A q \in queue : q[1] \in Connected =>
      \/ q[2] \in queued
      \/ "list" \in read /\ (q[2] \in since \/ (q[2] \in DOMAIN list => ~Old(list[q[2]])))
      \/ "list" \notin read /\ (q[2] \in DOMAIN torrents => ~Old(torrents[q[2]]))

PlanKept ==
  /\ \A i \in 1..Len(entries) : ReadyGroup(entries[i])
  /\ \A h \in relabels : list[h].path \in Cold

Known == PassOK /\ Passing /\ PlanKept /\ WithinMax /\ MovedTogether /\ ImportsUnbroken
Seen  == Steady /\ Queued /\ SeedLabelTrue
Inv   == WorldOK /\ Known /\ Answered /\ Seen

\* What becomes of a download that nobody but Coldarr and qBittorrent touches.
Follows(h) ==
  /\ h \in DOMAIN torrents
  /\ torrents'[h].name = torrents[h].name
  /\ torrents'[h].path = torrents[h].path \/ torrents'[h].path \in Cold
  /\ torrents'[h].category = torrents[h].category \/ torrents'[h].path \in Cold
  /\ torrents'[h].done = torrents[h].done \/ torrents'[h].done = clock

Fresh(h) == h \in DOMAIN torrents' => torrents'[h].done \notin Nat \/ torrents'[h].done = clock

\* A step of the world in which others touch no downloads but these.
OthersTouch(odd) ==
  /\ UNCHANGED <<list, queued, read, now>>
  /\ since \subseteq since' /\ touched \subseteq touched'
  /\ odd \subseteq touched' /\ (at # "idle" => odd \subseteq since')
  /\ \A h \in DOMAIN torrents' \ odd : Follows(h)
  /\ \A h \in DOMAIN torrents' \cap odd :
       Fresh(h) \/ (h \in DOMAIN torrents /\ torrents'[h].done = torrents[h].done)
  /\ \A q \in queue' : q \in queue \/ (q[2] \in odd /\ Fresh(q[2]))

LEMMA SeenAfter ==
  ASSUME Inv, NEW odd, OthersTouch(odd)
  PROVE  Seen'
<1> USE DEF OthersTouch
<1>1. Steady'
  <2>1. SUFFICES ASSUME "list" \in read, NEW h \in DOMAIN torrents' \ since'
                 PROVE  /\ h \in DOMAIN list
                        /\ torrents'[h].name = list[h].name
                        /\ torrents'[h].path = list[h].path \/ torrents'[h].path \in Cold
    BY DEF Steady
  <2>2. at # "idle"
    BY <2>1 DEF Inv, Known, Passing
  <2>3. Follows(h) /\ h \notin since
    BY <2>1, <2>2
  <2> QED BY <2>1, <2>3 DEF Inv, Seen, Steady, Follows
<1>2. Queued'
  <2>1. SUFFICES ASSUME "queues" \in read, NEW q \in queue', q[1] \in Connected
                 PROVE  \/ q[2] \in queued
                        \/ "list" \in read /\ (q[2] \in since' \/ (q[2] \in DOMAIN list => ~Old(list[q[2]])))
                        \/ "list" \notin read /\ (q[2] \in DOMAIN torrents' => ~Old(torrents'[q[2]]))
    BY DEF Queued, Old
  <2>2. at # "idle" /\ now \in Nat /\ clock \in Nat /\ now <= clock /\ SettleDays \in Nat \ {0}
    BY <2>1, TorrentsAssumption DEF Inv, Known, Passing, WorldOK, PassOK, ValidateTorrents
  <2>3. \A t : t.done \notin Nat \/ t.done = clock => ~Old(t)
    BY <2>2 DEF Old
  <2>4. CASE q[2] \in odd /\ Fresh(q[2])
    BY <2>2, <2>3, <2>4 DEF Fresh
  <2>5. CASE q \in queue
    <3>1. \/ q[2] \in queued
          \/ "list" \in read /\ (q[2] \in since \/ (q[2] \in DOMAIN list => ~Old(list[q[2]])))
          \/ "list" \notin read /\ (q[2] \in DOMAIN torrents => ~Old(torrents[q[2]]))
      BY <2>1, <2>5 DEF Inv, Seen, Queued
    <3>2. ASSUME q[2] \in DOMAIN torrents', q[2] \in DOMAIN torrents => ~Old(torrents[q[2]])
          PROVE  ~Old(torrents'[q[2]])
      <4>1. \/ torrents'[q[2]].done \notin Nat \/ torrents'[q[2]].done = clock
            \/ q[2] \in DOMAIN torrents /\ torrents'[q[2]].done = torrents[q[2]].done
        BY <3>2 DEF Follows, Fresh
      <4> QED BY <2>3, <3>2, <4>1 DEF Old
    <3> QED BY <3>1, <3>2
  <2> QED BY <2>4, <2>5
<1>3. SeedLabelTrue'
  <2>1. SUFFICES ASSUME NEW h \in DOMAIN torrents' \ touched', torrents'[h].category = SeedLabel
                 PROVE  torrents'[h].path \in Cold
    BY DEF SeedLabelTrue
  <2>2. Follows(h) /\ h \notin touched
    BY <2>1
  <2> QED BY <2>1, <2>2 DEF Inv, Seen, SeedLabelTrue, Follows
<1> QED BY <1>1, <1>2, <1>3 DEF Seen

LEMMA SeenSame ==
  ASSUME Inv, UNCHANGED <<list, queued, read, now, since, touched, torrents, queue>>
  PROVE  Seen'
<1>1. \A h \in DOMAIN torrents' : Follows(h)
  BY DEF Follows
<1>2. UNCHANGED <<list, queued, read, now>> /\ since' = since /\ touched' = touched /\ queue' = queue
  OBVIOUS
<1>3. OthersTouch({})
  BY <1>1, <1>2 DEF OthersTouch
<1> QED BY <1>3, SeenAfter

\* Nothing the pass knows changes, and no move is asked for.
LEMMA KnownSame ==
  ASSUME Inv, UNCHANGED <<pass, wrong>>, clock <= clock', clock' \in Nat, since' \subseteq touched'
  PROVE  Known'
<1>1. PassOK'
  BY DEF Inv, Known, PassOK, pass
<1>2. Passing'
  BY DEF Inv, Known, PassOK, WorldOK, Passing, pass
<1>3. PlanKept'
  <2>1. \A e : ReadyGroup(e) => ReadyGroup(e)'
    BY DEF pass, ReadyGroup, Members, Old
  <2> QED BY <2>1 DEF Inv, Known, PlanKept, pass
<1>4. WithinMax'
  <2>1. at = "planned" => Room(usage, list, entries)
    BY RoomMeans DEF Inv, Known
  <2>2. at' = "planned" => Room(usage', list', entries')
    BY <2>1 DEF pass
  <2> QED BY <2>2 DEF WithinMax, Room
<1>5. MovedTogether' /\ ImportsUnbroken'
  BY DEF Inv, Known, MovedTogether, ImportsUnbroken
<1> QED BY <1>1, <1>2, <1>3, <1>4, <1>5 DEF Known

LEMMA NothingPlanned ==
  ASSUME entries' = <<>>, relabels' = {}, at' # "planned"
  PROVE  PlanKept' /\ WithinMax'
<1>1. Len(entries') = 0
  OBVIOUS
<1>2. PlanKept'
  BY <1>1, Initials DEF PlanKept
<1>3. WithinMax'
  BY DEF WithinMax
<1> QED BY <1>2, <1>3

\* A pass that is over knows nothing.
LEMMA AfterOver ==
  ASSUME Inv, Over, UNCHANGED <<world, cache, wrong>>
  PROVE  Inv'
<1> USE DEF Over, world, apps
<1>1. WorldOK'
  BY DEF Inv, WorldOK
<1>2. PassOK'
  <2>1. NoList \in [{} -> Torrent] /\ DOMAIN NoList = {}
    BY DEF NoList
  <2>2. [p \in Paths |-> 0] \in [Paths -> Nat]
    OBVIOUS
  <2> QED BY <2>1, <2>2, FS_EmptySet DEF PassOK
<1>3. Passing'
  BY DEF Passing
<1>4. PlanKept' /\ WithinMax'
  <2>1. entries' = <<>> /\ relabels' = {} /\ at' # "planned"
    OBVIOUS
  <2> HIDE DEF Over
  <2> QED BY <2>1, NothingPlanned
<1>5. MovedTogether' /\ ImportsUnbroken'
  BY DEF Inv, Known, MovedTogether, ImportsUnbroken
<1>6. Answered'
  BY DEF Inv, Answered
<1>7. Seen'
  BY DEF Inv, Seen, Steady, Queued, SeedLabelTrue
<1> QED BY <1>1, <1>2, <1>3, <1>4, <1>5, <1>6, <1>7 DEF Inv, Known

-----------------------------------------------------------------------------
(* What the pass does *)

LEMMA UsedMeans ==
  ASSUME WorldOK, NEW d
  PROVE  Used(d) \in Nat
<1> DEFINE f == [x \in files |-> Size[x[2]]]
           on == {x \in files : x[1] \in Paths /\ Disk[x[1]] = d}
<1>1. IsFiniteSet(on)
  BY FS_Subset DEF WorldOK
<1>2. \A x \in on : f[x] \in Nat
  <2> TAKE x \in on
  <2>1. x \in files /\ x[2] \in Names
    BY DEF WorldOK
  <2> QED BY <2>1, NamesAssumption
<1>3. SumFunctionOnSet(f, on) \in Nat
  <2> HIDE DEF f, on
  <2> QED BY <1>1, <1>2, SumType
<1> QED BY <1>3 DEF Used

LEMMA InvInventory ==
  ASSUME Inv, BuildDownloadsInventory
  PROVE  Inv'
<1> USE DEF BuildDownloadsInventory, world, apps
<1>1. WorldOK'
  BY DEF Inv, WorldOK
<1>2. PassOK'
  <2>1. usage' \in [Paths -> Nat]
    <3>1. \A p \in Paths : Used(Disk[p]) \in Nat
      BY UsedMeans DEF Inv
    <3> QED BY <3>1
  <2>2. now' \in Nat
    BY DEF Inv, WorldOK
  <2> QED BY <2>1, <2>2 DEF Inv, Known, PassOK
<1>3. Passing' /\ entries' = <<>> /\ relabels' = {}
  BY DEF Inv, Known, WorldOK, Passing
<1>4. PlanKept' /\ WithinMax'
  BY <1>3, NothingPlanned
<1>5. MovedTogether' /\ ImportsUnbroken' /\ Answered'
  BY DEF Inv, Known, MovedTogether, ImportsUnbroken, Answered
<1>6. Seen'
  BY DEF Inv, Known, Seen, Passing, Steady, Queued, SeedLabelTrue
<1> QED BY <1>1, <1>2, <1>3, <1>4, <1>5, <1>6 DEF Inv, Known

LEMMA InvList ==
  ASSUME Inv, ListTorrents
  PROVE  Inv'
<1> USE DEF ListTorrents, world, apps
<1>1. WorldOK'
  BY DEF Inv, WorldOK
<1>2. Passing' /\ entries' = <<>> /\ relabels' = {}
  BY DEF Inv, Known, Passing
<1>3. PassOK'
  <2>1. <<>> \in Seq(Entry(DOMAIN list'))
    OBVIOUS
  <2>2. list' \in [DOMAIN list' -> Torrent] /\ IsFiniteSet(DOMAIN list')
    BY DEF Inv, WorldOK
  <2> QED BY <1>2, <2>1, <2>2 DEF Inv, Known, PassOK
<1>4. PlanKept' /\ WithinMax'
  BY <1>2, NothingPlanned
<1>5. MovedTogether' /\ ImportsUnbroken' /\ Answered'
  BY DEF Inv, Known, MovedTogether, ImportsUnbroken, Answered
<1>6. Steady'
  BY DEF Steady
<1>7. Queued'
  <2>1. SUFFICES ASSUME "queues" \in read, NEW q \in queue, q[1] \in Connected, q[2] \notin queued
                 PROVE  q[2] \in DOMAIN list' => ~Old(list'[q[2]])
    BY DEF Queued, Old
  <2>2. q[2] \in DOMAIN torrents => ~Old(torrents[q[2]])
    BY <2>1 DEF Inv, Seen, Queued
  <2> QED BY <2>2 DEF Old
<1>8. SeedLabelTrue'
  BY DEF Inv, Seen, SeedLabelTrue
<1> QED BY <1>1, <1>2, <1>3, <1>4, <1>5, <1>6, <1>7, <1>8 DEF Inv, Known, Seen

LEMMA InvQueues ==
  ASSUME Inv, ReadQueues
  PROVE  Inv'
<1> USE DEF ReadQueues, world, apps
<1>1. WorldOK'
  BY DEF Inv, WorldOK
<1>2. Passing' /\ entries' = <<>> /\ relabels' = {}
  BY DEF Inv, Known, Passing
<1>3. PassOK'
  BY DEF Inv, Known, PassOK
<1>4. PlanKept' /\ WithinMax'
  BY <1>2, NothingPlanned
<1>5. MovedTogether' /\ ImportsUnbroken' /\ Answered'
  BY DEF Inv, Known, MovedTogether, ImportsUnbroken, Answered
<1>6. Steady'
  BY DEF Inv, Seen, Steady
<1>7. Queued'
  <2>1. \A q \in queue : q[1] \in Connected => q[2] \in queued'
    BY DEF QueueDownloadIDs
  <2> QED BY <2>1 DEF Queued
<1>8. SeedLabelTrue'
  BY DEF Inv, Seen, SeedLabelTrue
<1> QED BY <1>1, <1>2, <1>3, <1>4, <1>5, <1>6, <1>7, <1>8 DEF Inv, Known, Seen

LEMMA InvAsk ==
  ASSUME Inv, NEW met, AskImports(met)
  PROVE  Inv'
<1> USE DEF AskImports, world, apps
<1>1. WorldOK'
  BY DEF Inv, WorldOK
<1>2. Passing' /\ entries' = <<>> /\ relabels' = {}
  BY DEF Inv, Known, Passing
<1>3. PassOK'
  BY DEF Inv, Known, PassOK
<1>4. PlanKept' /\ WithinMax'
  BY <1>2, NothingPlanned
<1>5. MovedTogether' /\ ImportsUnbroken'
  BY DEF Inv, Known, MovedTogether, ImportsUnbroken
<1>6. Answered'
  <2>1. cache \subseteq imported /\ imported' = imported
    BY DEF Inv, Answered
  <2>2. answers' \subseteq imported
    BY <2>1 DEF Remembered, InHistory
  <2>3. cache' \subseteq imported
    BY <2>1 DEF Keep, InHistory
  <2> QED BY <2>1, <2>2, <2>3 DEF Answered
<1>7. Seen'
  BY SeenSame
<1> QED BY <1>1, <1>2, <1>3, <1>4, <1>5, <1>6, <1>7 DEF Inv, Known

LEMMA InvPlan ==
  ASSUME Inv, NEW leave, BuildDownloadsPlan(leave)
  PROVE  Inv'
<1> USE DEF BuildDownloadsPlan
<1>1. CASE Over
  BY <1>1, AfterOver
<1>2. CASE /\ entries' = Plan(leave) /\ relabels' = {h \in DOMAIN list : Relabel(h)} /\ at' = "planned"
           /\ UNCHANGED <<now, usage, list, queued, read, answers, since>>
  <2> USE <1>2 DEF world, apps
  <2>0. TypeOK
    BY TypeMeans DEF Inv, Known
  <2>1. PICK last : Plan(leave) = last.moves /\ Sound(last)
    BY <2>0, PlanMeans
  <2>2. entries' \in Seq(Entry(DOMAIN list)) /\ \A j \in 1..Len(entries') : ReadyGroup(entries'[j])
    BY <2>1 DEF Sound
  <2>3. \A h \in DOMAIN list : Relabel(h) => list[h].path \in Cold
    BY DEF Relabel, State
  <2>4. Room(usage, list, entries')
    BY <2>0, <2>1, SoundRoom
  <2> HIDE DEF BuildDownloadsPlan
  <2>5. UNCHANGED <<world, cache, wrong, now, usage, list, queued, read, answers, since>>
        /\ at = "planning" /\ at' = "planned"
    BY DEF BuildDownloadsPlan
  <2>6. WorldOK'
    BY <2>5 DEF Inv, WorldOK
  <2>7. PassOK'
    BY <2>2, <2>5 DEF Inv, Known, PassOK
  <2>8. Passing'
    BY <2>5 DEF Inv, Known, Passing
  <2>9. PlanKept'
    <3>1. \A e : ReadyGroup(e) => ReadyGroup(e)'
      BY <2>5 DEF ReadyGroup, Members, Old
    <3> QED BY <2>2, <2>3, <2>5, <3>1 DEF PlanKept
  <2>10. WithinMax'
    <3>1. Room(usage', list', entries')
      BY <2>4, <2>5
    <3> QED BY <3>1 DEF WithinMax, Room
  <2>11. MovedTogether' /\ ImportsUnbroken' /\ Answered'
    BY <2>5 DEF Inv, Known, MovedTogether, ImportsUnbroken, Answered
  <2>12. Seen'
    BY <2>5, SeenSame
  <2> QED BY <2>6, <2>7, <2>8, <2>9, <2>10, <2>11, <2>12 DEF Inv, Known
<1> QED BY <1>1, <1>2

LEMMA InvStart ==
  ASSUME Inv, StartDownloadsApply
  PROVE  Inv'
<1> USE DEF StartDownloadsApply
<1>1. CASE Over
  BY <1>1, AfterOver
<1>2. CASE at' = "running" /\ UNCHANGED <<now, usage, list, queued, read, answers, entries, relabels, since>>
  <2>1. UNCHANGED <<world, cache, wrong, now, usage, list, queued, read, answers, entries, relabels, since>>
        /\ at = "planned" /\ at' = "running"
    BY <1>2
  <2> HIDE DEF StartDownloadsApply
  <2> USE DEF world, apps
  <2>2. WorldOK'
    BY <2>1 DEF Inv, WorldOK
  <2>3. PassOK'
    BY <2>1 DEF Inv, Known, PassOK
  <2>4. Passing'
    BY <2>1 DEF Inv, Known, Passing
  <2>5. PlanKept'
    <3>1. \A e : ReadyGroup(e) => ReadyGroup(e)'
      BY <2>1 DEF ReadyGroup, Members, Old
    <3> QED BY <2>1, <3>1 DEF Inv, Known, PlanKept
  <2>6. WithinMax'
    BY <2>1 DEF WithinMax
  <2>7. MovedTogether' /\ ImportsUnbroken' /\ Answered'
    BY <2>1 DEF Inv, Known, MovedTogether, ImportsUnbroken, Answered
  <2>8. Seen'
    BY <2>1, SeenSame
  <2> QED BY <2>2, <2>3, <2>4, <2>5, <2>6, <2>7, <2>8 DEF Inv, Known
<1> QED BY <1>1, <1>2

\* A download with one thing about it changed.
LEMMA TorrentChanged ==
  ASSUME NEW t \in Torrent
  PROVE  /\ \A p \in Paths : [t EXCEPT !.path = p] \in Torrent
         /\ \A l \in Labels : [t EXCEPT !.category = l] \in Torrent
         /\ \A b \in BOOLEAN : [t EXCEPT !.tmm = b] \in Torrent
         /\ \A s \in {"paused", "seeding", "moving", "checking", "error"} : [t EXCEPT !.stage = s] \in Torrent
         /\ [t EXCEPT !.stage = "moving", !.tmm = FALSE] \in Torrent
         /\ \A p \in Paths : [t EXCEPT !.stage = "seeding", !.path = p] \in Torrent
         /\ \A d \in Nat : [t EXCEPT !.done = d, !.stage = "seeding"] \in Torrent
<1> USE DEF Torrent
<1>1. \A p \in Paths : [t EXCEPT !.path = p] \in Torrent
  OBVIOUS
<1>2. \A l \in Labels : [t EXCEPT !.category = l] \in Torrent
  OBVIOUS
<1>3. \A b \in BOOLEAN : [t EXCEPT !.tmm = b] \in Torrent
  OBVIOUS
<1>4. \A s \in {"paused", "seeding", "moving", "checking", "error"} : [t EXCEPT !.stage = s] \in Torrent
  OBVIOUS
<1>5. [t EXCEPT !.stage = "moving", !.tmm = FALSE] \in Torrent
  OBVIOUS
<1>6. \A p \in Paths : [t EXCEPT !.stage = "seeding", !.path = p] \in Torrent
  OBVIOUS
<1>7. \A d \in Nat : [t EXCEPT !.done = d, !.stage = "seeding"] \in Torrent
  OBVIOUS
<1> HIDE DEF Torrent
<1> QED BY <1>1, <1>2, <1>3, <1>4, <1>5, <1>6, <1>7

\* The next move of a plan.
LEMMA HeadMeans ==
  ASSUME Inv, entries # <<>>
  PROVE  Head(entries) \in Entry(DOMAIN list) /\ ReadyGroup(Head(entries))
<1>1. entries \in Seq(Entry(DOMAIN list)) /\ \A i \in 1..Len(entries) : ReadyGroup(entries[i])
  BY DEF Inv, Known, PassOK, PlanKept
<1>2. Head(entries) = entries[1] /\ 1 \in 1..Len(entries) /\ entries[1] \in Entry(DOMAIN list)
  BY <1>1
<1> QED BY <1>1, <1>2

\* The rest of a plan being carried out.
Onward ==
  /\ at \in {"running", "landing"} /\ at' \in {"running", "landing"}
  /\ at' = "landing" => entries' # <<>>
  /\ \/ entries' = entries
     \/ entries # <<>> /\ entries' = Tail(entries)
     \/ entries' = <<>>
  /\ relabels' \subseteq relabels
  /\ UNCHANGED <<clock, now, usage, list, queued, read, answers, since, touched>>

LEMMA KnownOnward ==
  ASSUME Inv, Onward
  PROVE  PassOK' /\ Passing' /\ PlanKept' /\ WithinMax'
<1> USE DEF Onward
<1>1. entries \in Seq(Entry(DOMAIN list)) /\ \A i \in 1..Len(entries) : ReadyGroup(entries[i])
  BY DEF Inv, Known, PassOK, PlanKept
<1>2. entries' \in Seq(Entry(DOMAIN list)) /\ \A i \in 1..Len(entries') : ReadyGroup(entries'[i])
  <2>1. CASE entries' = entries
    BY <1>1, <2>1
  <2>2. CASE entries # <<>> /\ entries' = Tail(entries)
    <3>1. /\ Tail(entries) \in Seq(Entry(DOMAIN list)) /\ Len(Tail(entries)) = Len(entries) - 1
          /\ \A i \in 1..Len(Tail(entries)) : Tail(entries)[i] = entries[i + 1] /\ i + 1 \in 1..Len(entries)
      BY <1>1, <2>2
    <3> QED BY <1>1, <2>2, <3>1
  <2>3. CASE entries' = <<>>
    <3>1. <<>> \in Seq(Entry(DOMAIN list)) /\ Len(<<>>) = 0
      OBVIOUS
    <3> QED BY <2>3, <3>1, Initials
  <2> QED BY <2>1, <2>2, <2>3
<1>3. PassOK'
  BY <1>2 DEF Inv, Known, PassOK
<1>4. Passing'
  BY DEF Inv, Known, Passing
<1>5. PlanKept'
  <2>1. \A e : ReadyGroup(e) => ReadyGroup(e)'
    BY DEF ReadyGroup, Members, Old
  <2> QED BY <1>2, <2>1 DEF Inv, Known, PlanKept
<1>6. WithinMax'
  BY DEF WithinMax
<1> QED BY <1>3, <1>4, <1>5, <1>6

\* Coldarr, or qBittorrent, changes downloads and nothing else of the world.
LEMMA SeenFollows ==
  ASSUME Inv, UNCHANGED <<list, queued, read, now, since, touched, queue>>, \A h \in DOMAIN torrents' : Follows(h)
  PROVE  Seen'
<1>1. UNCHANGED <<list, queued, read, now>> /\ since' = since /\ touched' = touched /\ queue' = queue
  OBVIOUS
<1>2. OthersTouch({})
  BY <1>1 DEF OthersTouch
<1> QED BY <1>2, SeenAfter

LEMMA WorldSame ==
  ASSUME WorldOK, UNCHANGED <<clock, files>>, headed' = headed \/ headed' \in Entry(headed'.hashes),
         torrents' \in [DOMAIN torrents -> Torrent]
  PROVE  WorldOK'
<1>1. DOMAIN torrents' = DOMAIN torrents
  OBVIOUS
<1> QED BY <1>1 DEF WorldOK

\* What is asked for is whole, and imported.
LEMMA NothingWrong ==
  ASSUME Inv, at = "running", NEW e \in Entry(DOMAIN list), ReadyGroup(e)
  PROVE  "import" \notin WrongWith(e) /\ "apart" \notin WrongWith(e)
<1>1. read = {"list", "queues"} /\ Steady /\ Queued /\ answers \subseteq imported
  BY DEF Inv, Known, Passing, Seen, Answered
<1>2. e.from \in Hot /\ e.from \notin Cold /\ e.hashes \subseteq DOMAIN list
  BY TiersAssumption DEF Entry, ValidateTiers
<1>3. ASSUME NEW h \in e.hashes \ since, NEW a \in Connected, <<a, h>> \in queue PROVE FALSE
  <2>1. h \notin queued /\ Old(list[h]) /\ h \in DOMAIN list
    BY <1>2, <1>3 DEF ReadyGroup
  <2>2. <<a, h>>[1] = a /\ <<a, h>>[2] = h
    OBVIOUS
  <2> QED BY <1>1, <1>3, <2>1, <2>2 DEF Queued
<1>4. \A h \in e.hashes : Importers(list[h]) \X {h} \subseteq imported
  BY <1>1 DEF ReadyGroup
<1>5. ASSUME NEW h \in DOMAIN torrents \ (e.hashes \cup since), torrents[h].path = e.from,
             SharesFiles(torrents[h].name, e.name)
      PROVE  FALSE
  <2>1. h \in DOMAIN list /\ torrents[h].name = list[h].name /\ torrents[h].path = list[h].path
    BY <1>1, <1>2, <1>5 DEF Steady
  <2>2. list[h].name = e.name
    BY <1>5, <2>1 DEF ReadyGroup
  <2>3. h \in e.hashes
    BY <1>5, <2>1, <2>2 DEF ReadyGroup, Members
  <2> QED BY <1>5, <2>3
<1>6. "import" \notin WrongWith(e)
  BY <1>3, <1>4 DEF WrongWith
<1>7. "apart" \notin WrongWith(e)
  BY <1>5 DEF WrongWith
<1> QED BY <1>6, <1>7

LEMMA InvMove ==
  ASSUME Inv, Move
  PROVE  Inv'
<1> DEFINE e == Head(entries)
<1> USE DEF apps
<1>1. e \in Entry(DOMAIN list) /\ ReadyGroup(e)
  BY HeadMeans DEF Move
<1>2. /\ at = "running" /\ entries # <<>> /\ torrents' = Asked(e) /\ headed' = e
      /\ wrong' = wrong \cup WrongWith(e) /\ at' = "landing"
      /\ UNCHANGED <<clock, files, apps, hidden, touched, cache, now, usage, list, queued, read, answers, entries,
                     relabels, since>>
  BY DEF Move
<1> HIDE DEF e
<1>3. /\ torrents' \in [DOMAIN torrents -> Torrent]
      /\ \A h \in DOMAIN torrents' : Follows(h)
  <2>1. \A h \in DOMAIN torrents : torrents[h] \in Torrent
    BY DEF Inv, WorldOK
  <2>2. torrents' = [h \in DOMAIN torrents |->
                       IF h \in e.hashes THEN [torrents[h] EXCEPT !.stage = "moving", !.tmm = FALSE] ELSE torrents[h]]
    BY <1>2 DEF Asked
  <2>3. torrents' \in [DOMAIN torrents -> Torrent]
    BY <2>1, <2>2, TorrentChanged
  <2>4. \A h \in DOMAIN torrents' : Follows(h)
    BY <2>1, <2>2 DEF Follows, Torrent
  <2> QED BY <2>3, <2>4
<1>4. headed' \in Entry(headed'.hashes)
  BY <1>1, <1>2 DEF Entry
<1>5. WorldOK'
  BY <1>2, <1>3, <1>4, WorldSame DEF Inv
<1>6. Onward
  BY <1>2 DEF Onward
<1>7. PassOK' /\ Passing' /\ PlanKept' /\ WithinMax'
  BY <1>6, KnownOnward
<1>8. MovedTogether' /\ ImportsUnbroken'
  BY <1>1, <1>2, NothingWrong DEF Inv, Known, MovedTogether, ImportsUnbroken
<1>9. Answered'
  BY <1>2 DEF Inv, Answered
<1>10. Seen'
  BY <1>2, <1>3, SeenFollows
<1> QED BY <1>5, <1>7, <1>8, <1>9, <1>10 DEF Inv, Known

\* Downloads with automatic management off, and downloads with the seed label.
LEMMA ManualMeans ==
  ASSUME WorldOK, NEW hashes, torrents' = Manual(hashes)
  PROVE  torrents' \in [DOMAIN torrents -> Torrent] /\ \A h \in DOMAIN torrents' : Follows(h)
<1>1. \A h \in DOMAIN torrents : torrents[h] \in Torrent
  BY DEF WorldOK
<1>2. torrents' = [h \in DOMAIN torrents |-> IF h \in hashes THEN [torrents[h] EXCEPT !.tmm = FALSE] ELSE torrents[h]]
  BY DEF Manual
<1>3. torrents' \in [DOMAIN torrents -> Torrent]
  BY <1>1, <1>2, TorrentChanged
<1>4. \A h \in DOMAIN torrents' : Follows(h)
  BY <1>1, <1>2 DEF Follows, Torrent
<1> QED BY <1>3, <1>4

LEMMA SameFollows ==
  ASSUME WorldOK, torrents' = torrents
  PROVE  torrents' \in [DOMAIN torrents -> Torrent] /\ \A h \in DOMAIN torrents' : Follows(h)
BY DEF WorldOK, Follows

LEMMA InvSkip ==
  ASSUME Inv, SkipMove
  PROVE  Inv'
<1> USE DEF apps
<1>1. /\ at = "running" /\ entries # <<>> /\ entries' = Tail(entries)
      /\ UNCHANGED <<clock, files, apps, headed, hidden, touched, cache, at, now, usage, list, queued, read, answers,
                     relabels, since, wrong>>
      /\ \/ torrents' = torrents
         \/ torrents' = Manual(Head(entries).hashes)
  BY DEF SkipMove
<1>2. torrents' \in [DOMAIN torrents -> Torrent] /\ \A h \in DOMAIN torrents' : Follows(h)
  BY <1>1, ManualMeans, SameFollows DEF Inv
<1>3. WorldOK'
  BY <1>1, <1>2, WorldSame DEF Inv
<1>4. Onward
  BY <1>1 DEF Onward
<1>5. PassOK' /\ Passing' /\ PlanKept' /\ WithinMax'
  BY <1>4, KnownOnward
<1>6. MovedTogether' /\ ImportsUnbroken' /\ Answered'
  BY <1>1 DEF Inv, Known, MovedTogether, ImportsUnbroken, Answered
<1>7. Seen'
  BY <1>1, <1>2, SeenFollows
<1> QED BY <1>3, <1>5, <1>6, <1>7 DEF Inv, Known

LEMMA InvLanded ==
  ASSUME Inv, Landed
  PROVE  Inv'
<1> USE DEF apps
<1> DEFINE e == Head(entries)
<1>1. /\ at = "landing" /\ Confirmed(e) /\ entries' = Tail(entries) /\ at' = "running"
      /\ UNCHANGED <<clock, files, apps, headed, hidden, touched, cache, now, usage, list, queued, read, answers,
                     relabels, since, wrong>>
      /\ torrents' = Label(e.hashes) \/ torrents' = torrents
  BY DEF Landed
<1>2. entries # <<>> /\ e \in Entry(DOMAIN list)
  BY <1>1, HeadMeans DEF Inv, Known, Passing
<1> HIDE DEF e
<1>3. torrents' \in [DOMAIN torrents -> Torrent] /\ \A h \in DOMAIN torrents' : Follows(h)
  <2>1. CASE torrents' = torrents
    BY <2>1, SameFollows DEF Inv
  <2>2. CASE torrents' = Label(e.hashes)
    <3>1. \A h \in DOMAIN torrents : torrents[h] \in Torrent
      BY DEF Inv, WorldOK
    <3>2. torrents' = [h \in DOMAIN torrents |->
                         IF h \in e.hashes THEN [torrents[h] EXCEPT !.category = SeedLabel] ELSE torrents[h]]
      BY <2>2 DEF Label
    <3>3. torrents' \in [DOMAIN torrents -> Torrent]
      BY <3>1, <3>2, TorrentChanged, TorrentsAssumption DEF ValidateTorrents
    <3>4. \A h \in e.hashes : torrents[h].path \in Cold
      BY <1>1, <1>2 DEF Confirmed, Entry
    <3>5. \A h \in DOMAIN torrents' : Follows(h)
      BY <3>1, <3>2, <3>4 DEF Follows, Torrent
    <3> QED BY <3>3, <3>5
  <2> QED BY <1>1, <2>1, <2>2
<1>4. WorldOK'
  BY <1>1, <1>3, WorldSame DEF Inv
<1>5. Onward
  BY <1>1, <1>2 DEF Onward
<1>6. PassOK' /\ Passing' /\ PlanKept' /\ WithinMax'
  BY <1>5, KnownOnward
<1>7. MovedTogether' /\ ImportsUnbroken' /\ Answered'
  BY <1>1 DEF Inv, Known, MovedTogether, ImportsUnbroken, Answered
<1>8. Seen'
  BY <1>1, <1>3, SeenFollows
<1> QED BY <1>4, <1>6, <1>7, <1>8 DEF Inv, Known

LEMMA InvLandingFails ==
  ASSUME Inv, LandingFails
  PROVE  Inv'
<1> USE DEF apps, world
<1>1. /\ at = "landing" /\ at' = "running" /\ entries' = <<>>
      /\ UNCHANGED <<world, cache, now, usage, list, queued, read, answers, relabels, since, wrong>>
  BY DEF LandingFails
<1>2. WorldOK'
  BY <1>1 DEF Inv, WorldOK
<1>3. Onward
  BY <1>1 DEF Onward
<1>4. PassOK' /\ Passing' /\ PlanKept' /\ WithinMax'
  BY <1>3, KnownOnward
<1>5. MovedTogether' /\ ImportsUnbroken' /\ Answered'
  BY <1>1 DEF Inv, Known, MovedTogether, ImportsUnbroken, Answered
<1>6. Seen'
  BY <1>1, SeenSame
<1> QED BY <1>2, <1>4, <1>5, <1>6 DEF Inv, Known

LEMMA InvRelabel ==
  ASSUME Inv, RelabelNext
  PROVE  Inv'
<1> USE DEF apps
<1>1. PICK h \in relabels :
        /\ relabels' = relabels \ {h}
        /\ LET managed == {h} \cap {g \in DOMAIN list : list[g].tmm}
           IN \/ torrents' = [g \in DOMAIN torrents |->
                                IF g = h THEN [Label({h})[g] EXCEPT !.tmm = @ /\ managed = {}] ELSE torrents[g]]
              \/ torrents' \in {torrents, Manual(managed)}
  BY DEF RelabelNext
<1>2. /\ at = "running" /\ entries = <<>>
      /\ UNCHANGED <<clock, files, apps, headed, hidden, touched, cache, at, now, usage, list, queued, read, answers,
                     entries, since, wrong>>
  BY DEF RelabelNext
<1> DEFINE managed == {h} \cap {g \in DOMAIN list : list[g].tmm}
           Touched == OthersTouch(since \cap {h})
<1>3. torrents' \in [DOMAIN torrents -> Torrent] /\ Touched
  <2>0. UNCHANGED <<list, queued, read, now>> /\ since' = since /\ touched' = touched /\ queue' = queue
        /\ since \subseteq touched
    BY <1>2 DEF Inv, Known, Passing
  <2>1. CASE torrents' \in {torrents, Manual(managed)}
    <3>1. torrents' \in [DOMAIN torrents -> Torrent] /\ \A g \in DOMAIN torrents' : Follows(g)
      <4> HIDE DEF managed
      <4> QED BY <2>1, ManualMeans, SameFollows DEF Inv
    <3>2. \A g \in DOMAIN torrents' : g \in DOMAIN torrents /\ torrents'[g].done = torrents[g].done
      <4> HIDE DEF managed
      <4>1. \A g \in DOMAIN torrents : torrents[g] \in Torrent
        BY DEF Inv, WorldOK
      <4> QED BY <2>1, <4>1 DEF Manual, Torrent
    <3> QED BY <2>0, <3>1, <3>2 DEF OthersTouch
  <2>2. CASE torrents' = [g \in DOMAIN torrents |->
                            IF g = h THEN [Label({h})[g] EXCEPT !.tmm = @ /\ managed = {}] ELSE torrents[g]]
    <3>1. \A g \in DOMAIN torrents : torrents[g] \in Torrent
      BY DEF Inv, WorldOK
    <3>2. ASSUME h \in DOMAIN torrents
          PROVE  /\ torrents'[h] \in Torrent /\ torrents'[h].name = torrents[h].name
                 /\ torrents'[h].path = torrents[h].path /\ torrents'[h].done = torrents[h].done
      <4> DEFINE t == Label({h})[h]  b == (t.tmm /\ managed = {})
      <4>1. t = [torrents[h] EXCEPT !.category = SeedLabel]
        BY <3>2 DEF Label
      <4>2. /\ t \in Torrent
            /\ t.name = torrents[h].name /\ t.path = torrents[h].path /\ t.done = torrents[h].done
        <5>1. t \in Torrent
          <6>1. SeedLabel \in Labels
            BY TorrentsAssumption DEF ValidateTorrents
          <6>2. [torrents[h] EXCEPT !.category = SeedLabel] \in Torrent
            BY <3>1, <3>2, <6>1, TorrentChanged
          <6> HIDE DEF t
          <6> QED BY <4>1, <6>2
        <5> QED BY <3>1, <3>2, <4>1, <5>1 DEF Torrent
      <4>3. b \in BOOLEAN
        OBVIOUS
      <4>4. torrents'[h] = [t EXCEPT !.tmm = b]
        BY <2>2, <3>2
      <4> HIDE DEF t, b
      <4>5. [t EXCEPT !.tmm = b] \in Torrent
        BY <4>2, <4>3, TorrentChanged
      <4> QED BY <4>2, <4>4, <4>5 DEF Torrent
    <3>3. DOMAIN torrents' = DOMAIN torrents /\ \A g \in DOMAIN torrents : g # h => torrents'[g] = torrents[g]
      BY <2>2
    <3>4. torrents' \in [DOMAIN torrents -> Torrent]
      <4>1. \A g \in DOMAIN torrents : torrents'[g] \in Torrent
        BY <3>1, <3>2, <3>3
      <4>2. torrents' = [g \in DOMAIN torrents |-> torrents'[g]]
        BY <2>2
      <4> QED BY <4>1, <4>2
    <3>5. ASSUME NEW g \in DOMAIN torrents' \ (since \cap {h}) PROVE Follows(g)
      <4>1. CASE g # h
        BY <3>3, <4>1 DEF Follows
      <4>2. CASE g = h
        <5>1. h \in DOMAIN torrents \ since /\ list[h].path \in Cold /\ "list" \in read
          BY <1>1, <1>2, <3>3, <3>5, <4>2 DEF Inv, Known, PlanKept, Passing
        <5>2. torrents[h].path \in Cold
          BY <5>1 DEF Inv, Seen, Steady
        <5> QED BY <3>2, <4>2, <5>1, <5>2 DEF Follows
      <4> QED BY <4>1, <4>2
    <3>6. \A g \in DOMAIN torrents' \cap (since \cap {h}) :
            g \in DOMAIN torrents /\ torrents'[g].done = torrents[g].done
      BY <3>2, <3>3
    <3> QED BY <2>0, <3>4, <3>5, <3>6 DEF OthersTouch
  <2> QED BY <1>1, <2>1, <2>2
<1> HIDE DEF managed
<1>4. WorldOK'
  BY <1>2, <1>3, WorldSame DEF Inv
<1>5. Onward
  BY <1>1, <1>2 DEF Onward
<1>6. PassOK' /\ Passing' /\ PlanKept' /\ WithinMax'
  BY <1>5, KnownOnward
<1>7. MovedTogether' /\ ImportsUnbroken' /\ Answered'
  BY <1>2 DEF Inv, Known, MovedTogether, ImportsUnbroken, Answered
<1>8. Seen'
  BY <1>3, SeenAfter
<1> QED BY <1>4, <1>6, <1>7, <1>8 DEF Inv, Known

-----------------------------------------------------------------------------
(* What everyone else does *)

LEMMA ByOthers ==
  ASSUME Inv, UNCHANGED <<cache, pass, wrong>>, WorldOK', clock <= clock', since' \subseteq touched',
         imported \subseteq imported', Seen'
  PROVE  Inv'
<1>1. Known'
  BY KnownSame DEF WorldOK
<1>2. Answered'
  BY DEF Inv, Answered, pass
<1> QED BY <1>1, <1>2 DEF Inv

LEMMA Renamed ==
  ASSUME WorldOK, NEW h, NEW p \in Paths, NEW n
  PROVE  Arrive(h, p, n) \subseteq (Paths \cup {"elsewhere"}) \X Names /\ IsFiniteSet(Arrive(h, p, n))
<1> DEFINE there == {g \in files : g[1] = torrents[h].path /\ (g[2] = n \/ IsUnder(g[2], n))}
           stay == {x \in files : ~(x[1] = torrents[h].path /\ (x[2] = n \/ IsUnder(x[2], n)))}
           here == {<<p, x[2]>> : x \in there}
           f == [x \in there |-> <<p, x[2]>>]
<1>1. Arrive(h, p, n) = stay \cup here
  BY DEF Arrive
<1>2. there \subseteq files /\ stay \subseteq files /\ IsFiniteSet(there) /\ IsFiniteSet(stay)
  BY FS_Subset DEF WorldOK
<1>3. \A x \in files : x[2] \in Names
  BY DEF WorldOK
<1>4. here \subseteq (Paths \cup {"elsewhere"}) \X Names
  <2> HIDE DEF there
  <2> QED BY <1>2, <1>3
<1>5. IsFiniteSet(here)
  <2>1. \A y \in here : \E x \in there : f[x] = y
    <3> HIDE DEF there
    <3> QED OBVIOUS
  <2> HIDE DEF here, f, there
  <2> QED BY <1>2, <2>1, Covered
<1> HIDE DEF stay, here, there
<1>6. IsFiniteSet(stay \cup here)
  BY <1>2, <1>5, FS_Union
<1> QED BY <1>1, <1>2, <1>4, <1>6 DEF WorldOK

LEMMA InvLands ==
  ASSUME Inv, MoveLands
  PROVE  Inv'
<1> DEFINE there == {h \in headed.hashes : h \in DOMAIN torrents /\ torrents[h].stage = "moving"}
<1>1. /\ headed # NoEntry /\ headed' = NoEntry
      /\ torrents' = [h \in DOMAIN torrents |->
                        IF h \in there THEN [torrents[h] EXCEPT !.stage = "seeding", !.path = headed.to] ELSE torrents[h]]
      /\ files' = IF there = {} THEN files ELSE Arrive(CHOOSE h \in there : TRUE, headed.to, headed.name)
      /\ UNCHANGED <<clock, apps, hidden, touched, cache, pass, since, wrong>>
  BY DEF MoveLands
<1> HIDE DEF there
<1>2. headed.to \in Cold /\ headed.to \in Paths
  BY <1>1 DEF Inv, WorldOK, Entry, Paths
<1>3. \A h \in DOMAIN torrents : torrents[h] \in Torrent
  BY DEF Inv, WorldOK
<1>4. torrents' \in [DOMAIN torrents -> Torrent]
  BY <1>1, <1>2, <1>3, TorrentChanged
<1>5. \A h \in DOMAIN torrents' : Follows(h)
  BY <1>1, <1>2, <1>3 DEF Follows, Torrent
<1>6. files' \subseteq (Paths \cup {"elsewhere"}) \X Names /\ IsFiniteSet(files')
  <2>1. CASE there = {}
    BY <1>1, <2>1 DEF Inv, WorldOK
  <2>2. CASE there # {}
    BY <1>1, <1>2, <2>2, Renamed DEF Inv
  <2> QED BY <2>1, <2>2
<1>7. WorldOK'
  <2>1. DOMAIN torrents' = DOMAIN torrents
    BY <1>4
  <2> QED BY <1>1, <1>4, <1>6, <2>1 DEF Inv, WorldOK
<1>8. UNCHANGED <<list, queued, read, now, since, touched, queue>> /\ imported' = imported
  BY <1>1 DEF pass, apps
<1>9. Seen'
  BY <1>5, <1>8, SeenFollows
<1>10. clock <= clock' /\ since' \subseteq touched'
  <2>1. clock' = clock /\ since' = since /\ touched' = touched
    BY <1>1
  <2>2. clock \in Nat /\ since \subseteq touched
    BY DEF Inv, WorldOK, Known, Passing
  <2> QED BY <2>1, <2>2
<1> QED BY <1>1, <1>7, <1>8, <1>9, <1>10, ByOthers

LEMMA InvGivesUp ==
  ASSUME Inv, MoveGivesUp
  PROVE  Inv'
<1>1. /\ headed' = NoEntry
      /\ torrents' = [h \in DOMAIN torrents |->
                        IF h \in headed.hashes /\ torrents[h].stage = "moving"
                        THEN [torrents[h] EXCEPT !.stage = "seeding"] ELSE torrents[h]]
      /\ UNCHANGED <<clock, files, apps, hidden, touched, cache, pass, since, wrong>>
  BY DEF MoveGivesUp
<1>2. \A h \in DOMAIN torrents : torrents[h] \in Torrent
  BY DEF Inv, WorldOK
<1>3. torrents' \in [DOMAIN torrents -> Torrent]
  BY <1>1, <1>2, TorrentChanged
<1>4. \A h \in DOMAIN torrents' : Follows(h)
  BY <1>1, <1>2 DEF Follows, Torrent
<1>5. WorldOK'
  <2>1. DOMAIN torrents' = DOMAIN torrents
    BY <1>3
  <2> QED BY <1>1, <1>3, <2>1 DEF Inv, WorldOK
<1>6. UNCHANGED <<list, queued, read, now, since, touched, queue>> /\ imported' = imported
  BY <1>1 DEF pass, apps
<1>7. Seen'
  BY <1>4, <1>6, SeenFollows
<1>8. clock <= clock' /\ since' \subseteq touched'
  BY <1>1 DEF Inv, WorldOK, Known, Passing
<1> QED BY <1>1, <1>5, <1>6, <1>7, <1>8, ByOthers

LEMMA InvAdds ==
  ASSUME Inv, Adds
  PROVE  Inv'
<1>1. PICK a \in Arrivals :
       /\ torrents' = [h \in DOMAIN torrents \cup {a.hash} |->
                         IF h = a.hash THEN [a.torrent EXCEPT !.done = IF @ \in Nat THEN clock ELSE @] ELSE torrents[h]]
       /\ queue' = {q \in queue : q[2] # a.hash} \cup (a.by \X {a.hash})
       /\ since' = IF at = "idle" THEN since ELSE since \cup {a.hash}
       /\ touched' = IF at = "idle" /\ ~Mislabeled(a.torrent) THEN touched ELSE touched \cup {a.hash}
       /\ files' = IF Complete(a.torrent) THEN files \cup {<<a.torrent.path, a.torrent.name>>} ELSE files
  BY DEF Adds
<1>2. UNCHANGED <<clock, imported, headed, hidden, cache, pass, wrong>>
  BY DEF Adds
<1> DEFINE t == [a.torrent EXCEPT !.done = IF @ \in Nat THEN clock ELSE @]
<1>3. a.torrent \in Torrent
  BY WorldsAssumption
<1>4. /\ t \in Torrent
      /\ t.done \notin Nat \/ t.done = clock
      /\ t.path = a.torrent.path /\ t.category = a.torrent.category /\ t.name = a.torrent.name
  <2>1. clock \in Nat
    BY DEF Inv, WorldOK
  <2>2. t = [a.torrent EXCEPT !.done = IF a.torrent.done \in Nat THEN clock ELSE a.torrent.done]
    BY <1>3 DEF Torrent
  <2>3. CASE a.torrent.done \in Nat
    <3>1. t = [a.torrent EXCEPT !.done = clock]
      BY <2>2, <2>3
    <3>2. a.torrent.done # Incomplete /\ clock # Incomplete
      BY <2>1, <2>3 DEF Incomplete
    <3> HIDE DEF t
    <3> QED BY <1>3, <2>1, <3>1, <3>2 DEF Torrent
  <2>4. CASE a.torrent.done \notin Nat
    <3>1. t = [a.torrent EXCEPT !.done = a.torrent.done]
      BY <2>2, <2>4
    <3>2. t = a.torrent
      <4> HIDE DEF t
      <4> QED BY <1>3, <3>1 DEF Torrent
    <3> HIDE DEF t
    <3> QED BY <1>3, <2>4, <3>2
  <2> QED BY <2>3, <2>4
<1>5. /\ DOMAIN torrents' = {a.hash} \cup DOMAIN torrents
      /\ torrents'[a.hash] = t
      /\ \A h \in DOMAIN torrents : h # a.hash => torrents'[h] = torrents[h]
      /\ torrents' = [h \in {a.hash} \cup DOMAIN torrents |-> torrents'[h]]
  <2>1. torrents' = [h \in {a.hash} \cup DOMAIN torrents |-> IF h = a.hash THEN t ELSE torrents[h]]
    <3>1. torrents' = [h \in DOMAIN torrents \cup {a.hash} |-> IF h = a.hash THEN t ELSE torrents[h]]
      BY <1>1
    <3> HIDE DEF t
    <3> QED BY <3>1
  <2> HIDE DEF t
  <2> QED BY <2>1
<1> HIDE DEF t
<1>6. WorldOK'
  <2>1. torrents' \in [DOMAIN torrents' -> Torrent]
    <3>1. \A h \in DOMAIN torrents : torrents[h] \in Torrent
      BY DEF Inv, WorldOK
    <3>2. torrents'[a.hash] \in Torrent
      BY <1>4, <1>5
    <3>3. \A h \in DOMAIN torrents : h # a.hash => torrents'[h] \in Torrent
      BY <1>5, <3>1
    <3>4. \A h \in {a.hash} \cup DOMAIN torrents : torrents'[h] \in Torrent
      BY <3>2, <3>3
    <3>5. torrents' = [h \in {a.hash} \cup DOMAIN torrents |-> torrents'[h]]
      BY <1>5
    <3> QED BY <3>4, <3>5
  <2>2. IsFiniteSet(DOMAIN torrents')
    BY <1>5, FS_AddElement DEF Inv, WorldOK
  <2>3. files' \subseteq (Paths \cup {"elsewhere"}) \X Names /\ IsFiniteSet(files')
    <3>1. <<a.torrent.path, a.torrent.name>> \in (Paths \cup {"elsewhere"}) \X Names
      BY <1>3 DEF Torrent
    <3>2. IsFiniteSet(files \cup {<<a.torrent.path, a.torrent.name>>})
      BY FS_AddElement DEF Inv, WorldOK
    <3> QED BY <1>1, <3>1, <3>2 DEF Inv, WorldOK
  <2> QED BY <1>2, <2>1, <2>2, <2>3 DEF Inv, WorldOK
<1>7. since' \subseteq touched'
  BY <1>1 DEF Inv, Known, Passing
<1>8. Seen'
  <2>1. CASE at = "idle" /\ ~Mislabeled(a.torrent)
    <3>1. read' = {} /\ touched' = touched
      BY <1>1, <1>2, <2>1 DEF Inv, Known, Passing, pass
    <3>2. ASSUME NEW h \in DOMAIN torrents' \ touched', torrents'[h].category = SeedLabel
          PROVE  torrents'[h].path \in Cold
      <4>1. CASE h = a.hash
        BY <1>4, <1>5, <2>1, <3>2, <4>1 DEF Mislabeled
      <4>2. CASE h # a.hash
        BY <1>5, <3>1, <3>2, <4>2 DEF Inv, Seen, SeedLabelTrue
      <4> QED BY <4>1, <4>2
    <3> QED BY <3>1, <3>2 DEF Seen, Steady, Queued, SeedLabelTrue
  <2>2. CASE ~(at = "idle" /\ ~Mislabeled(a.torrent))
    <3>1. UNCHANGED <<list, queued, read, now>>
      BY <1>2 DEF pass
    <3>2. /\ since \subseteq since' /\ touched \subseteq touched'
          /\ {a.hash} \subseteq touched' /\ (at # "idle" => {a.hash} \subseteq since')
      BY <1>1, <2>2
    <3>3. \A h \in DOMAIN torrents' \ {a.hash} : Follows(h)
      BY <1>5 DEF Follows
    <3>4. Fresh(a.hash)
      BY <1>4, <1>5 DEF Fresh
    <3>5. ASSUME NEW q \in queue' PROVE q \in queue \/ (q[2] \in {a.hash} /\ Fresh(q[2]))
      <4>1. q \in queue \/ q \in a.by \X {a.hash}
        BY <1>1
      <4>2. q \in a.by \X {a.hash} => q[2] = a.hash
        OBVIOUS
      <4> QED BY <3>4, <4>1, <4>2
    <3>6. \A h \in DOMAIN torrents' \cap {a.hash} : Fresh(h)
      BY <3>4
    <3>7. OthersTouch({a.hash})
      BY <3>1, <3>2, <3>3, <3>5, <3>6 DEF OthersTouch
    <3> QED BY <3>7, SeenAfter
  <2> QED BY <2>1, <2>2
<1>9. clock <= clock' /\ imported \subseteq imported'
  BY <1>2 DEF Inv, WorldOK
<1> QED BY <1>2, <1>6, <1>7, <1>8, <1>9, ByOthers

LEMMA InvCompletes ==
  ASSUME Inv, Completes
  PROVE  Inv'
<1>1. PICK h \in DOMAIN torrents :
        /\ torrents' = [torrents EXCEPT ![h].done = clock, ![h].stage = "seeding"]
        /\ files' = files \cup {<<torrents[h].path, torrents[h].name>>}
  BY DEF Completes
<1>2. UNCHANGED <<clock, apps, headed, hidden, touched, cache, pass, since, wrong>>
  BY DEF Completes
<1>3. (\A g \in DOMAIN torrents : torrents[g] \in Torrent) /\ clock \in Nat
  BY DEF Inv, WorldOK
<1>4. torrents' = [g \in DOMAIN torrents |->
                     IF g = h THEN [torrents[h] EXCEPT !.done = clock, !.stage = "seeding"] ELSE torrents[g]]
  BY <1>1
<1>5. torrents' \in [DOMAIN torrents -> Torrent]
  BY <1>3, <1>4, TorrentChanged
<1>6. \A g \in DOMAIN torrents' : Follows(g)
  BY <1>3, <1>4 DEF Follows, Torrent
<1>7. WorldOK'
  <2>1. DOMAIN torrents' = DOMAIN torrents
    BY <1>5
  <2>2. <<torrents[h].path, torrents[h].name>> \in (Paths \cup {"elsewhere"}) \X Names
    BY <1>3 DEF Torrent
  <2>3. IsFiniteSet(files')
    BY <1>1, FS_AddElement DEF Inv, WorldOK
  <2> QED BY <1>1, <1>2, <1>5, <2>1, <2>2, <2>3 DEF Inv, WorldOK
<1>8. UNCHANGED <<list, queued, read, now, since, touched, queue>> /\ imported' = imported
  BY <1>2 DEF pass, apps
<1>9. Seen'
  BY <1>6, <1>8, SeenFollows
<1>10. clock <= clock' /\ since' \subseteq touched'
  BY <1>2 DEF Inv, WorldOK, Known, Passing
<1> QED BY <1>2, <1>7, <1>8, <1>9, <1>10, ByOthers

LEMMA InvImports ==
  ASSUME Inv, Imports
  PROVE  Inv'
<1>1. /\ queue' \subseteq queue /\ imported \subseteq imported'
      /\ UNCHANGED <<clock, torrents, files, headed, hidden, touched, cache, pass, since, wrong>>
  BY DEF Imports
<1>2. WorldOK'
  BY <1>1 DEF Inv, WorldOK
<1>3. Seen'
  <2>1. UNCHANGED <<list, queued, read, now>> /\ \A h \in DOMAIN torrents' : Follows(h)
    BY <1>1 DEF pass, Follows
  <2>2. OthersTouch({})
    BY <1>1, <2>1 DEF OthersTouch
  <2> QED BY <2>2, SeenAfter
<1>4. clock <= clock' /\ since' \subseteq touched'
  BY <1>1 DEF Inv, WorldOK, Known, Passing
<1> QED BY <1>1, <1>2, <1>3, <1>4, ByOthers

LEMMA InvRemoves ==
  ASSUME Inv, Removes
  PROVE  Inv'
<1>1. PICK h \in DOMAIN torrents :
        /\ torrents' = [g \in DOMAIN torrents \ {h} |-> torrents[g]]
        /\ files' \subseteq files
        /\ queue' = {q \in queue : q[2] # h}
  BY DEF Removes
<1>2. UNCHANGED <<clock, imported, headed, hidden, touched, cache, pass, since, wrong>>
  BY DEF Removes
<1>3. WorldOK'
  <2>1. DOMAIN torrents' = DOMAIN torrents \ {h} /\ IsFiniteSet(DOMAIN torrents \ {h}) /\ IsFiniteSet(files')
    BY <1>1, FS_Subset DEF Inv, WorldOK
  <2>2. torrents' \in [DOMAIN torrents' -> Torrent]
    BY <1>1 DEF Inv, WorldOK
  <2> QED BY <1>1, <1>2, <2>1, <2>2 DEF Inv, WorldOK
<1>4. Seen'
  <2>1. UNCHANGED <<list, queued, read, now>> /\ \A g \in DOMAIN torrents' : Follows(g)
    BY <1>1, <1>2 DEF pass, Follows
  <2>2. OthersTouch({})
    BY <1>1, <1>2, <2>1 DEF OthersTouch
  <2> QED BY <2>2, SeenAfter
<1>5. clock <= clock' /\ since' \subseteq touched' /\ imported \subseteq imported'
  BY <1>2 DEF Inv, WorldOK, Known, Passing
<1> QED BY <1>2, <1>3, <1>4, <1>5, ByOthers

LEMMA InvMeddles ==
  ASSUME Inv, Meddles
  PROVE  Inv'
<1>1. PICK h \in {g \in DOMAIN torrents : Complete(torrents[g]) /\ torrents[g].stage = "seeding"} :
       /\ \/ \E p \in Paths \ {torrents[h].path} :
               /\ torrents' = [torrents EXCEPT ![h].path = p]
               /\ files' = Arrive(h, p, torrents[h].name)
          \/ \E l \in Labels : torrents' = [torrents EXCEPT ![h].category = l] /\ UNCHANGED files
          \/ torrents' = [torrents EXCEPT ![h].tmm = TRUE] /\ UNCHANGED files
          \/ torrents' = [torrents EXCEPT ![h].stage = "checking"] /\ UNCHANGED files
       /\ since' = IF at = "idle" THEN since ELSE since \cup {h}
       /\ touched' = touched \cup {h}
  BY DEF Meddles
<1>2. UNCHANGED <<clock, apps, headed, hidden, cache, pass, wrong>>
  BY DEF Meddles
<1>3. h \in DOMAIN torrents /\ \A g \in DOMAIN torrents : torrents[g] \in Torrent
  BY DEF Inv, WorldOK
<1> DEFINE Only(t) == torrents' = [g \in DOMAIN torrents |-> IF g = h THEN t ELSE torrents[g]]
<1> DEFINE Result == /\ (\E t \in Torrent : t.done = torrents[h].done /\ Only(t))
                     /\ files' \subseteq (Paths \cup {"elsewhere"}) \X Names /\ IsFiniteSet(files')
<1>4. Result
  <2>0. files \subseteq (Paths \cup {"elsewhere"}) \X Names /\ IsFiniteSet(files)
    BY DEF Inv, WorldOK
  <2>1. ASSUME NEW p \in Paths, torrents' = [torrents EXCEPT ![h].path = p], files' = Arrive(h, p, torrents[h].name)
        PROVE  Result
    <3>1. [torrents[h] EXCEPT !.path = p] \in Torrent /\ [torrents[h] EXCEPT !.path = p].done = torrents[h].done
      <4>1. [torrents[h] EXCEPT !.path = p] \in Torrent
        BY <1>3, TorrentChanged
      <4>2. [torrents[h] EXCEPT !.path = p].done = torrents[h].done
        BY <1>3 DEF Torrent
      <4> QED BY <4>1, <4>2
    <3>2. Only([torrents[h] EXCEPT !.path = p])
      BY <2>1
    <3>3. files' \subseteq (Paths \cup {"elsewhere"}) \X Names /\ IsFiniteSet(files')
      BY <2>1, Renamed DEF Inv
    <3> HIDE DEF Only
    <3> QED BY <3>1, <3>2, <3>3
  <2>2. ASSUME NEW l \in Labels, torrents' = [torrents EXCEPT ![h].category = l], UNCHANGED files
        PROVE  Result
    <3>1. [torrents[h] EXCEPT !.category = l] \in Torrent /\ [torrents[h] EXCEPT !.category = l].done = torrents[h].done
      <4>1. [torrents[h] EXCEPT !.category = l] \in Torrent
        BY <1>3, TorrentChanged
      <4>2. [torrents[h] EXCEPT !.category = l].done = torrents[h].done
        BY <1>3 DEF Torrent
      <4> QED BY <4>1, <4>2
    <3>2. Only([torrents[h] EXCEPT !.category = l])
      BY <2>2
    <3> HIDE DEF Only
    <3> QED BY <2>0, <2>2, <3>1, <3>2
  <2>3. ASSUME torrents' = [torrents EXCEPT ![h].tmm = TRUE], UNCHANGED files
        PROVE  Result
    <3>1. [torrents[h] EXCEPT !.tmm = TRUE] \in Torrent /\ [torrents[h] EXCEPT !.tmm = TRUE].done = torrents[h].done
      <4>1. [torrents[h] EXCEPT !.tmm = TRUE] \in Torrent
        BY <1>3, TorrentChanged
      <4>2. [torrents[h] EXCEPT !.tmm = TRUE].done = torrents[h].done
        BY <1>3 DEF Torrent
      <4> QED BY <4>1, <4>2
    <3>2. Only([torrents[h] EXCEPT !.tmm = TRUE])
      BY <2>3
    <3> HIDE DEF Only
    <3> QED BY <2>0, <2>3, <3>1, <3>2
  <2>4. ASSUME torrents' = [torrents EXCEPT ![h].stage = "checking"], UNCHANGED files
        PROVE  Result
    <3>1. [torrents[h] EXCEPT !.stage = "checking"] \in Torrent /\ [torrents[h] EXCEPT !.stage = "checking"].done = torrents[h].done
      <4>1. [torrents[h] EXCEPT !.stage = "checking"] \in Torrent
        BY <1>3, TorrentChanged
      <4>2. [torrents[h] EXCEPT !.stage = "checking"].done = torrents[h].done
        BY <1>3 DEF Torrent
      <4> QED BY <4>1, <4>2
    <3>2. Only([torrents[h] EXCEPT !.stage = "checking"])
      BY <2>4
    <3> HIDE DEF Only
    <3> QED BY <2>0, <2>4, <3>1, <3>2
  <2> HIDE DEF Result, Only
  <2> QED BY <1>1, <2>1, <2>2, <2>3, <2>4
<1>5. PICK t \in Torrent : t.done = torrents[h].done /\ Only(t)
  <2> HIDE DEF Only
  <2> QED BY <1>4
<1>6. WorldOK'
  <2>1. DOMAIN torrents' = DOMAIN torrents /\ torrents' \in [DOMAIN torrents -> Torrent]
    BY <1>3, <1>5
  <2> QED BY <1>2, <1>4, <2>1 DEF Inv, WorldOK
<1>7. Seen'
  <2>1. UNCHANGED <<list, queued, read, now>> /\ queue' = queue
    BY <1>2 DEF pass, apps
  <2>2. \A g \in DOMAIN torrents' \ {h} : Follows(g)
    BY <1>5 DEF Follows
  <2>3. \A g \in DOMAIN torrents' \cap {h} : g \in DOMAIN torrents /\ torrents'[g].done = torrents[g].done
    BY <1>3, <1>5
  <2>4. OthersTouch({h})
    BY <1>1, <2>1, <2>2, <2>3 DEF OthersTouch
  <2> QED BY <2>4, SeenAfter
<1>8. clock <= clock' /\ since' \subseteq touched' /\ imported \subseteq imported'
  BY <1>1, <1>2 DEF Inv, WorldOK, Known, Passing, apps
<1> QED BY <1>2, <1>6, <1>7, <1>8, ByOthers

LEMMA InvChecked ==
  ASSUME Inv, Checked
  PROVE  Inv'
<1>1. PICK h \in DOMAIN torrents : torrents' = [torrents EXCEPT ![h].stage = "seeding"]
  BY DEF Checked
<1>2. UNCHANGED <<clock, files, apps, headed, hidden, touched, cache, pass, since, wrong>>
  BY DEF Checked
<1>3. \A g \in DOMAIN torrents : torrents[g] \in Torrent
  BY DEF Inv, WorldOK
<1>4. torrents' = [g \in DOMAIN torrents |-> IF g = h THEN [torrents[h] EXCEPT !.stage = "seeding"] ELSE torrents[g]]
  BY <1>1
<1>5. torrents' \in [DOMAIN torrents -> Torrent]
  BY <1>3, <1>4, TorrentChanged
<1>6. \A g \in DOMAIN torrents' : Follows(g)
  BY <1>3, <1>4 DEF Follows, Torrent
<1>7. WorldOK'
  BY <1>2, <1>5, WorldSame DEF Inv
<1>8. UNCHANGED <<list, queued, read, now, since, touched, queue>> /\ imported' = imported
  BY <1>2 DEF pass, apps
<1>9. Seen'
  BY <1>6, <1>8, SeenFollows
<1>10. clock <= clock' /\ since' \subseteq touched'
  BY <1>2 DEF Inv, WorldOK, Known, Passing
<1> QED BY <1>2, <1>7, <1>8, <1>9, <1>10, ByOthers

LEMMA InvElse ==
  ASSUME Inv, FileAppears \/ Advance
  PROVE  Inv'
<1>1. UNCHANGED <<torrents, apps, headed, hidden, touched, cache, pass, since, wrong>>
  BY DEF FileAppears, Advance
<1>2. clock' \in Nat /\ clock <= clock'
  BY DEF Inv, WorldOK, FileAppears, Advance
<1>3. files' \subseteq (Paths \cup {"elsewhere"}) \X Names /\ IsFiniteSet(files')
  <2>0. files \subseteq (Paths \cup {"elsewhere"}) \X Names /\ IsFiniteSet(files)
    BY DEF Inv, WorldOK
  <2>1. CASE FileAppears
    <3>1. PICK p \in Cold : \E n \in Names : files' = files \cup {<<p, n>>}
      BY <2>1 DEF FileAppears
    <3>2. PICK n \in Names : files' = files \cup {<<p, n>>}
      BY <3>1
    <3>3. IsFiniteSet(files')
      BY <2>0, <3>2, FS_AddElement
    <3> QED BY <2>0, <3>2, <3>3 DEF Paths
  <2>2. CASE Advance
    BY <2>0, <2>2 DEF Advance
  <2> QED BY <2>1, <2>2
<1>4. WorldOK'
  BY <1>1, <1>2, <1>3 DEF Inv, WorldOK
<1>5. UNCHANGED <<list, queued, read, now, since, touched, torrents, queue>> /\ imported' = imported
  BY <1>1 DEF pass, apps
<1>6. Seen'
  BY <1>5, SeenSame
<1>7. since' \subseteq touched'
  BY <1>1 DEF Inv, Known, Passing
<1> QED BY <1>1, <1>2, <1>4, <1>5, <1>6, <1>7, ByOthers

-----------------------------------------------------------------------------
(* Every behaviour *)

LEMMA InvInit == Init => Inv
<1> SUFFICES ASSUME Init PROVE Inv
  OBVIOUS
<1>1. PICK w \in Worlds :
        /\ torrents = w.torrents
        /\ files = {<<t.path, t.name>> : t \in {u \in Range(w.torrents) : Complete(u)}} \cup w.others
        /\ queue = w.queue
        /\ touched = {h \in DOMAIN w.torrents : Mislabeled(w.torrents[h])}
  BY DEF Init
<1>2. /\ clock = SettleDays /\ headed = NoEntry /\ cache = {} /\ at = "idle" /\ now = 0
      /\ usage = [p \in Paths |-> 0] /\ list = NoList /\ queued = {} /\ read = {} /\ answers = {}
      /\ entries = <<>> /\ relabels = {} /\ since = {} /\ wrong = {}
  BY DEF Init
<1>3. /\ w.torrents \in [DOMAIN w.torrents -> Torrent] /\ IsFiniteSet(DOMAIN w.torrents)
      /\ w.others \subseteq Paths \X Names /\ IsFiniteSet(w.others)
  BY WorldsAssumption
<1>4. WorldOK
  <2> DEFINE D == {h \in DOMAIN torrents : Complete(torrents[h])}
             f == [h \in D |-> <<torrents[h].path, torrents[h].name>>]
             theirs == {<<t.path, t.name>> : t \in {u \in Range(torrents) : Complete(u)}}
  <2>1. \A h \in DOMAIN torrents : torrents[h] \in Torrent
    BY <1>1, <1>3
  <2>2. IsFiniteSet(D)
    BY <1>1, <1>3, FS_Subset
  <2>3. \A y \in theirs : \E h \in D : f[h] = y
    BY DEF Range
  <2>4. IsFiniteSet(theirs)
    <3> HIDE DEF D, f, theirs
    <3> QED BY <2>2, <2>3, Covered
  <2>5. theirs \subseteq (Paths \cup {"elsewhere"}) \X Names
    <3>1. \A h \in D : f[h] \in (Paths \cup {"elsewhere"}) \X Names
      BY <2>1 DEF Torrent
    <3> HIDE DEF D, f, theirs
    <3> QED BY <2>3, <3>1
  <2>6. files = theirs \cup w.others
    BY <1>1
  <2> HIDE DEF theirs
  <2>7. files \subseteq (Paths \cup {"elsewhere"}) \X Names /\ IsFiniteSet(files)
    BY <1>3, <2>4, <2>5, <2>6, FS_Union
  <2>8. clock \in Nat
    BY <1>2, TorrentsAssumption DEF ValidateTorrents
  <2> QED BY <1>1, <1>2, <1>3, <2>7, <2>8 DEF WorldOK
<1>5. PassOK
  <2>1. NoList \in [{} -> Torrent] /\ DOMAIN NoList = {}
    BY DEF NoList
  <2> QED BY <1>2, <2>1, FS_EmptySet DEF PassOK
<1>6. Passing
  BY <1>2 DEF Passing
<1>7. PlanKept
  <2>1. Len(entries) = 0
    BY <1>2
  <2> QED BY <1>2, <2>1, Initials DEF PlanKept
<1>8. WithinMax /\ MovedTogether /\ ImportsUnbroken /\ Answered
  BY <1>2 DEF WithinMax, MovedTogether, ImportsUnbroken, Answered
<1>9. Steady /\ Queued
  BY <1>2 DEF Steady, Queued
<1>10. SeedLabelTrue
  BY <1>1 DEF SeedLabelTrue, Mislabeled
<1> QED BY <1>4, <1>5, <1>6, <1>7, <1>8, <1>9, <1>10 DEF Inv, Known, Seen

LEMMA InvNext == Inv /\ [Next]_vars => Inv'
<1> SUFFICES ASSUME Inv, [Next]_vars PROVE Inv'
  OBVIOUS
<1>1. CASE BuildDownloadsInventory \/ ListTorrents \/ ReadQueues \/ \E met \in SUBSET DOMAIN list : AskImports(met)
  BY <1>1, InvInventory, InvList, InvQueues, InvAsk
<1>2. CASE \E leave \in SUBSET {h \in DOMAIN list : State(h) = "ready"} : BuildDownloadsPlan(leave)
  <2>1. PICK leave : BuildDownloadsPlan(leave)
    BY <1>2
  <2> QED BY <2>1, InvPlan
<1>3. CASE StartDownloadsApply \/ Move \/ SkipMove \/ Landed \/ LandingFails \/ RelabelNext
  BY <1>3, InvStart, InvMove, InvSkip, InvLanded, InvLandingFails, InvRelabel
<1>4. CASE EndRun \/ Crash
  <2>1. Over /\ UNCHANGED <<world, cache, wrong>>
    BY <1>4 DEF EndRun, Crash
  <2> QED BY <2>1, AfterOver
<1>5. CASE MoveLands \/ MoveGivesUp \/ Adds \/ Completes \/ Imports \/ Removes
  BY <1>5, InvLands, InvGivesUp, InvAdds, InvCompletes, InvImports, InvRemoves
<1>6. CASE Meddles \/ Checked \/ FileAppears \/ Advance
  BY <1>6, InvMeddles, InvChecked, InvElse
<1>7. CASE UNCHANGED vars
  <2>1. UNCHANGED <<cache, pass, wrong>> /\ UNCHANGED <<clock, torrents, files, apps, headed, hidden, touched, since>>
    BY <1>7 DEF vars, world
  <2>2. WorldOK'
    BY <2>1 DEF Inv, WorldOK
  <2>3. UNCHANGED <<list, queued, read, now, since, touched, torrents, queue>> /\ imported' = imported
    BY <2>1 DEF pass, apps
  <2>4. Seen'
    BY <2>3, SeenSame
  <2>5. clock <= clock' /\ since' \subseteq touched'
    <3>1. clock' = clock /\ since' = since /\ touched' = touched
      BY <2>1
    <3>2. clock \in Nat /\ since \subseteq touched
      BY DEF Inv, WorldOK, Known, Passing
    <3> QED BY <3>1, <3>2
  <2> QED BY <2>1, <2>2, <2>3, <2>4, <2>5, ByOthers
<1> QED BY <1>1, <1>2, <1>3, <1>4, <1>5, <1>6, <1>7 DEF Next, Others

LEMMA InvAlways == Spec => []Inv
BY InvInit, InvNext, PTL DEF Spec

\* Torrents, lists and plans are what they should be: a plan is a finite sequence of
\* moves of listed downloads from a tier to seed storage, and no download has more than
\* one of the states qBittorrent gives it.
THEOREM TypeCorrect == Spec => []TypeOK
<1>1. Inv => TypeOK
  BY TypeMeans DEF Inv, Known
<1> QED BY <1>1, InvAlways, PTL

\* However the lists, queues, answers and remembered answers are read, whatever is added,
\* imported, removed or finished meanwhile, no download is moved that an app still has
\* queued or that its app has not imported (classifyOne, importResults, Executor.Move).
THEOREM ImportsUnbrokenHolds == Spec => []ImportsUnbroken
<1>1. Inv => ImportsUnbroken
  BY DEF Inv, Known
<1> QED BY <1>1, InvAlways, PTL

\* For every arrangement of cross-seeds and of folders inside folders, no move is asked
\* for that would leave behind a torrent with files of it (holdGroups).
THEOREM MovedTogetherHolds == Spec => []MovedTogether
<1>1. Inv => MovedTogether
  BY DEF Inv, Known
<1> QED BY <1>1, InvAlways, PTL

\* However many moves a plan has, and however the drives are shared, none of them takes a
\* seed path over its max (reservations, placeGroup, Volumes.Apply).
THEOREM WithinMaxHolds == Spec => []WithinMax
<1>1. Inv => WithinMax
  BY DEF Inv, Known
<1> QED BY <1>1, InvAlways, PTL

\* The plan leaves nothing out that it has room for, whatever order the groups and the
\* drives come in (BuildPlan, chooseSeedTier).
THEOREM NoneForgottenHolds == Spec => []NoneForgotten
<1>1. ASSUME Inv, at = "planning", NEW p \in Hot, NEW n \in HoldGroups(p)
      PROVE  LET moves == Plan({})
                 size == [j \in DOMAIN moves |-> Size[moves[j].name]]
                 after(q) == HeldBack[q] + SumFunctionOnSet(size, {j \in DOMAIN moves : Disk[moves[j].to] = Disk[q]})
             IN \/ \E j \in DOMAIN moves : moves[j].from = p /\ moves[j].name = n
                \/ \A c \in Cold \ Unseen : after(c) + Size[n] > Max_[c] \/ Exists(c, n)
  <2> DEFINE e == GroupAt(p, n)  moves == Plan({})
             size == [j \in DOMAIN moves |-> Size[moves[j].name]]
  <2>1. TypeOK
    BY <1>1, TypeMeans DEF Inv, Known
  <2>2. PICK last : Plan({}) = last.moves /\ Sound(last) /\ \A f \in Left({}) : Served(last, f)
    BY <2>1, PlanMeans
  <2>3. n \in Names /\ e.from = p /\ e.name = n
    BY <1>1, <2>1, HeldTogether DEF GroupAt
  <2>4. e.hashes # {}
    <3>1. n \in Groups(p)
      BY <1>1 DEF HoldGroups
    <3>2. PICK h \in DOMAIN list : list[h].path = p /\ list[h].name = n
      BY <3>1 DEF Groups
    <3>3. h \in Members(p, n) /\ State(h) = "ready"
      BY <1>1, <3>2 DEF Members, HoldGroups
    <3> QED BY <3>3 DEF GroupAt
  <2>5. e \in Left({})
    <3> HIDE DEF e
    <3>1. ~(e.hashes \subseteq {})
      BY <2>4
    <3> QED BY <1>1, <3>1 DEF Left, e
  <2>6. Served(last, e)
    BY <2>2, <2>5
  <2>7. moves = last.moves /\ DOMAIN moves = 1..Len(moves)
    BY <2>2 DEF Sound
  <2> HIDE DEF e, moves
  <2>8. \A q : SumFunctionOnSet(size, {j \in DOMAIN moves : Disk[moves[j].to] = Disk[q]})
                 = Brought(moves, Len(moves), Disk[q])
    BY <2>7 DEF Brought, Sizes
  <2> HIDE DEF size
  <2>9. \/ \E j \in DOMAIN moves : moves[j].from = p /\ moves[j].name = n
        \/ \A c \in Cold \ Unseen :
             HeldBack[c] + Brought(moves, Len(moves), Disk[c]) + Size[n] > Max_[c] \/ Exists(c, n)
    BY <2>3, <2>6, <2>7 DEF Served
  <2> QED BY <2>8, <2>9 DEF size, moves
<1>2. Inv => NoneForgotten
  BY <1>1 DEF NoneForgotten
<1> QED BY <1>2, InvAlways, PTL

\* Only what is on seed storage gets the seed label, whenever Coldarr dies and whichever
\* request fails (Executor.Move, Executor.Relabel).
THEOREM SeedLabelTrueHolds == Spec => []SeedLabelTrue
<1>1. Inv => SeedLabelTrue
  BY DEF Inv, Seen
<1> QED BY <1>1, InvAlways, PTL
=============================================================================
