--------------------------- MODULE RemovalProofs ----------------------------
(***************************************************************************)
(* Which downloads share files, what may be removed, whose files go with it *)
(* and what the log says of it, proved for any torrents at any paths, any   *)
(* plan and any number of outside events.                                   *)
(*                                                                          *)
(* Most of it is about what shareClusters, requirement and the cap compute  *)
(* by walking a list: that goes by induction on how far they have come, and *)
(* rests on every set of numbers having a least one.                        *)
(***************************************************************************)
EXTENDS Removal, TLAPS, WellFoundedInduction, FiniteSetTheorems

-----------------------------------------------------------------------------
(* Induction, on sets of numbers *)

LEMMA LeastElement ==
  ASSUME NEW S \in SUBSET Nat, S # {}
  PROVE  \E n \in S : \A m \in S : n <= m
<1> DEFINE R == {p \in Nat \X Nat : p[1] < p[2]}
<1>1. IsWellFoundedOn(R, Nat)
  BY NatLessThanWellFounded DEF OpToRel
<1>2. PICK n \in S : \A m \in S : ~ (<<m, n>> \in R)
  <2> HIDE DEF R
  <2>. QED  BY <1>1, WFMin
<1>3. ASSUME NEW m \in S PROVE n <= m
  <2>1. <<m, n>> \in Nat \X Nat /\ <<m, n>>[1] = m /\ <<m, n>>[2] = n
    OBVIOUS
  <2>2. ~(m < n)
    BY <1>2, <2>1
  <2>. QED  BY <2>2
<1>. QED  BY <1>3

LEMMA UpTo ==
  ASSUME NEW n \in Nat, NEW S, 0 \in S, \A i \in 0..n - 1 : i \in S => i + 1 \in S
  PROVE  0..n \subseteq S
<1>1. SUFFICES ASSUME (0..n) \ S # {} PROVE FALSE
  OBVIOUS
<1>2. PICK i \in (0..n) \ S : \A j \in (0..n) \ S : i <= j
  <2>1. (0..n) \ S \in SUBSET Nat
    OBVIOUS
  <2>. QED  BY <1>1, <2>1, LeastElement
<1>3. i - 1 \in 0..n - 1 /\ i - 1 \in S
  BY <1>2
<1>. QED  BY <1>2, <1>3

LEMMA MaxOfSome ==
  ASSUME NEW n \in Nat, NEW t \in SUBSET (1..n), t # {}
  PROVE  /\ Max(t) \in t
         /\ \A i \in t : i <= Max(t)
<1> DEFINE D == {n - i : i \in t}
<1>1. D \in SUBSET Nat /\ D # {}
  <2>1. \A i \in t : n - i \in Nat
    OBVIOUS
  <2>. QED  BY <2>1
<1>2. PICK d \in D : \A e \in D : d <= e
  <2> HIDE DEF D
  <2>. QED  BY <1>1, LeastElement
<1>3. PICK m \in t : d = n - m
  BY <1>2
<1>4. \A i \in t : m >= i
  <2> TAKE i \in t
  <2>1. n - i \in D
    OBVIOUS
  <2>2. n - m <= n - i
    BY <1>2, <1>3, <2>1
  <2>3. m \in Nat /\ i \in Nat
    OBVIOUS
  <2> HIDE DEF D
  <2>. QED  BY <2>2, <2>3
<1>. QED  BY <1>4 DEF Max

LEMMA MaxOfLot == ASSUME NEW n \in Nat \ {0} PROVE Max(1..n) = n
<1>1. n \in 1..n /\ 1..n \in SUBSET (1..n)
  OBVIOUS
<1>2. Max(1..n) \in 1..n /\ n <= Max(1..n)
  BY <1>1, MaxOfSome
<1>. QED  BY <1>2

-----------------------------------------------------------------------------
(* Folds, as functions of how much of the sequence has been taken in *)

\* f folds G over every set of numbers, smallest first.
FoldsAll(f, n, base, G) ==
  \A t \in SUBSET (1..n) : /\ t = {} => f[t] = base
                           /\ t # {} => f[t] = G[<<f[t \ {Max(t)}], Max(t)>>]

LEMMA FoldExists ==
  ASSUME NEW A, NEW base \in A, NEW n \in Nat, NEW G \in [A \X (1..n) -> A]
  PROVE  \E f \in [SUBSET (1..n) -> A] : FoldsAll(f, n, base, G)
<1> DEFINE Folds(f, k) ==
             \A t \in SUBSET (1..k) : f[t] = IF t = {} THEN base ELSE G[<<f[t \ {Max(t)}], Max(t)>>]
           S == {k \in 0..n : \E f \in [SUBSET (1..k) -> A] : Folds(f, k)}
<1>0. \A k \in 0..n : k \in S <=> \E f \in [SUBSET (1..k) -> A] : Folds(f, k)
  OBVIOUS
<1>1. 0 \in S
  <2> DEFINE f == [t \in SUBSET (1..0) |-> base]
  <2>1. f \in [SUBSET (1..0) -> A]
    OBVIOUS
  <2>2. \A t \in SUBSET (1..0) : t = {}
    OBVIOUS
  <2>3. Folds(f, 0)
    BY <2>2
  <2> HIDE DEF f
  <2>4. \E e \in [SUBSET (1..0) -> A] : Folds(e, 0)
    BY <2>1, <2>3
  <2> HIDE DEF S
  <2>. QED  BY <2>4, <1>0, 0 \in 0..n
<1>2. ASSUME NEW k \in 0..n - 1, k \in S PROVE k + 1 \in S
  <2>1. PICK f \in [SUBSET (1..k) -> A] : Folds(f, k)
    BY <1>2
  <2> DEFINE h == [t \in SUBSET (1..k + 1) |-> IF k + 1 \notin t THEN f[t] ELSE G[<<f[t \ {k + 1}], k + 1>>]]
  <2>2. \A t \in SUBSET (1..k + 1) : t \ {k + 1} \in SUBSET (1..k) /\ (k + 1 \notin t => t \in SUBSET (1..k))
    OBVIOUS
  <2>3. h \in [SUBSET (1..k + 1) -> A]
    BY <2>2
  <2>4. ASSUME NEW t \in SUBSET (1..k + 1), k + 1 \in t
        PROVE  h[t] = IF t = {} THEN base ELSE G[<<h[t \ {Max(t)}], Max(t)>>]
    <3>1. Max(t) = k + 1
      <4>1. k + 1 \in Nat /\ t # {}
        BY <2>4
      <4>2. Max(t) \in t /\ k + 1 <= Max(t)
        BY <2>4, <4>1, MaxOfSome
      <4>3. Max(t) \in 1..k + 1
        BY <4>2
      <4>. QED  BY <4>2, <4>3
    <3>2. t \ {k + 1} \in SUBSET (1..k + 1) /\ k + 1 \notin t \ {k + 1}
      OBVIOUS
    <3>3. h[t \ {k + 1}] = f[t \ {k + 1}]
      BY <3>2
    <3>. QED  BY <2>4, <3>1, <3>3
  <2>5. ASSUME NEW t \in SUBSET (1..k + 1), k + 1 \notin t
        PROVE  h[t] = IF t = {} THEN base ELSE G[<<h[t \ {Max(t)}], Max(t)>>]
    <3>1. t \in SUBSET (1..k) /\ t \ {Max(t)} \in SUBSET (1..k + 1) /\ k + 1 \notin t \ {Max(t)}
      BY <2>2, <2>5
    <3>2. h[t] = f[t] /\ h[t \ {Max(t)}] = f[t \ {Max(t)}]
      BY <2>5, <3>1
    <3>3. f[t] = IF t = {} THEN base ELSE G[<<f[t \ {Max(t)}], Max(t)>>]
      BY <2>1, <3>1
    <3>. QED  BY <3>2, <3>3
  <2> HIDE DEF h
  <2>6. Folds(h, k + 1)
    BY <2>4, <2>5
  <2>7. k + 1 \in 0..n
    OBVIOUS
  <2> HIDE DEF Folds, S
  <2>. QED  BY <2>3, <2>6, <2>7, <1>0
<1>3. n \in S
  <2> HIDE DEF S
  <2>1. 0..n \subseteq S
    BY <1>1, <1>2, UpTo
  <2>. QED  BY <2>1
<1>. QED  BY <1>3 DEF FoldsAll

\* The sets a fold over 1..n passes through.
LEMMA Initials ==
  ASSUME NEW n \in Nat
  PROVE  /\ 1..0 = {}
         /\ \A i \in 0..n : 1..i \in SUBSET (1..n)
         /\ \A i \in 1..n : /\ 1..i # {} /\ Max(1..i) = i
                            /\ (1..i) \ {i} = 1..i - 1 /\ i - 1 \in 0..n
<1>1. \A i \in 1..n : Max(1..i) = i
  BY MaxOfLot
<1>. QED  BY <1>1

LEMMA StaysIn ==
  ASSUME NEW n \in Nat, NEW A, NEW g, g[0] \in A,
         \A i \in 1..n : g[i - 1] \in A => g[i] \in A
  PROVE  \A i \in 0..n : g[i] \in A
<1> DEFINE S == {i \in 0..n : g[i] \in A}
<1>1. 0 \in S
  OBVIOUS
<1>2. ASSUME NEW i \in 0..n - 1, i \in S PROVE i + 1 \in S
  <2>1. i + 1 \in 1..n /\ (i + 1) - 1 = i /\ i + 1 \in 0..n
    OBVIOUS
  <2>. QED  BY <1>2, <2>1
<1> HIDE DEF S
<1>3. 0..n \subseteq S
  BY <1>1, <1>2, UpTo
<1>. QED  BY <1>3 DEF S

StricterAll(base, s) == FoldLeft(Stricter, base, s)

\* g goes through n steps of a fold, within A.
StricterSteps(g, n, s, A, base) ==
  /\ g[0] = base /\ g[n] = StricterAll(base, s)
  /\ \A i \in 0..n : g[i] \in A
  /\ \A i \in 1..n : g[i] = Stricter(g[i - 1], s[i])

LEMMA FoldStricter ==
  ASSUME NEW n \in Nat, NEW s, DOMAIN s = 1..n, NEW A, NEW base \in A,
         \A a \in A, i \in 1..n : Stricter(a, s[i]) \in A
  PROVE  \E g : StricterSteps(g, n, s, A, base)
<1> DEFINE iter == CHOOSE h : h = [t \in SUBSET DOMAIN s |->
                                     IF t = {} THEN base ELSE Stricter(h[t \ {Max(t)}], s[Max(t)])]
           H == [p \in A \X (1..n) |-> Stricter(p[1], s[p[2]])]
           g == [i \in 0..n |-> iter[1..i]]
<1>1. H \in [A \X (1..n) -> A] /\ \A a \in A, i \in 1..n : H[<<a, i>>] = Stricter(a, s[i])
  OBVIOUS
<1>2. PICK f \in [SUBSET (1..n) -> A] : FoldsAll(f, n, base, H)
  <2> HIDE DEF H
  <2>. QED  BY <1>1, FoldExists
<1>3. f = [t \in SUBSET DOMAIN s |-> IF t = {} THEN base ELSE Stricter(f[t \ {Max(t)}], s[Max(t)])]
  <2> HIDE DEF H
  <2>1. ASSUME NEW t \in SUBSET (1..n), t # {}
        PROVE  H[<<f[t \ {Max(t)}], Max(t)>>] = Stricter(f[t \ {Max(t)}], s[Max(t)])
    <3>1. Max(t) \in 1..n /\ f[t \ {Max(t)}] \in A
      BY <2>1, MaxOfSome
    <3>. QED  BY <1>1, <3>1
  <2>. QED  BY <1>2, <2>1 DEF FoldsAll
<1>4. iter = [t \in SUBSET DOMAIN s |-> IF t = {} THEN base ELSE Stricter(iter[t \ {Max(t)}], s[Max(t)])]
  BY <1>3
<1>5. FoldLeft(Stricter, base, s) = iter[DOMAIN s]
  BY DEF FoldLeft, MapThenFoldSet
<1> HIDE DEF iter, H
<1>0. \A t \in SUBSET (1..n) :
        /\ t = {} => iter[t] = base
        /\ t # {} => iter[t] = Stricter(iter[t \ {Max(t)}], s[Max(t)])
  BY <1>4
<1>6. \A i \in 0..n : g[i] = iter[1..i]
  OBVIOUS
<1> HIDE DEF g
<1>7. g[0] = base
  <2>1. 1..0 = {} /\ 1..0 \in SUBSET (1..n) /\ 0 \in 0..n
    BY Initials
  <2>2. iter[{}] = base
    BY <1>0
  <2>3. g[0] = iter[{}]
    BY <1>6, <2>1
  <2>. QED  BY <2>2, <2>3
<1>8. ASSUME NEW i \in 1..n PROVE g[i] = Stricter(g[i - 1], s[i])
  <2>1. /\ 1..i \in SUBSET (1..n) /\ 1..i # {} /\ Max(1..i) = i
        /\ (1..i) \ {i} = 1..i - 1 /\ i - 1 \in 0..n /\ i \in 0..n
    BY Initials
  <2>2. iter[1..i] = Stricter(iter[1..i - 1], s[i])
    BY <1>0, <2>1
  <2>. QED  BY <1>6, <2>1, <2>2
<1>9. \A i \in 0..n : g[i] \in A
  <2>1. \A i \in 1..n : g[i - 1] \in A => g[i] \in A
    BY <1>8
  <2>. QED  BY <1>7, <2>1, StaysIn
<1>10. g[n] = StricterAll(base, s)
  BY <1>5, <1>6 DEF StricterAll
<1>. QED  BY <1>7, <1>8, <1>9, <1>10 DEF StricterSteps

WithinCapAll(base, s) == FoldLeft(WithinCap, base, s)

\* g goes through n steps of a fold, within A.
WithinCapSteps(g, n, s, A, base) ==
  /\ g[0] = base /\ g[n] = WithinCapAll(base, s)
  /\ \A i \in 0..n : g[i] \in A
  /\ \A i \in 1..n : g[i] = WithinCap(g[i - 1], s[i])

LEMMA FoldWithinCap ==
  ASSUME NEW n \in Nat, NEW s, DOMAIN s = 1..n, NEW A, NEW base \in A,
         \A a \in A, i \in 1..n : WithinCap(a, s[i]) \in A
  PROVE  \E g : WithinCapSteps(g, n, s, A, base)
<1> DEFINE iter == CHOOSE h : h = [t \in SUBSET DOMAIN s |->
                                     IF t = {} THEN base ELSE WithinCap(h[t \ {Max(t)}], s[Max(t)])]
           H == [p \in A \X (1..n) |-> WithinCap(p[1], s[p[2]])]
           g == [i \in 0..n |-> iter[1..i]]
<1>1. H \in [A \X (1..n) -> A] /\ \A a \in A, i \in 1..n : H[<<a, i>>] = WithinCap(a, s[i])
  OBVIOUS
<1>2. PICK f \in [SUBSET (1..n) -> A] : FoldsAll(f, n, base, H)
  <2> HIDE DEF H
  <2>. QED  BY <1>1, FoldExists
<1>3. f = [t \in SUBSET DOMAIN s |-> IF t = {} THEN base ELSE WithinCap(f[t \ {Max(t)}], s[Max(t)])]
  <2> HIDE DEF H
  <2>1. ASSUME NEW t \in SUBSET (1..n), t # {}
        PROVE  H[<<f[t \ {Max(t)}], Max(t)>>] = WithinCap(f[t \ {Max(t)}], s[Max(t)])
    <3>1. Max(t) \in 1..n /\ f[t \ {Max(t)}] \in A
      BY <2>1, MaxOfSome
    <3>. QED  BY <1>1, <3>1
  <2>. QED  BY <1>2, <2>1 DEF FoldsAll
<1>4. iter = [t \in SUBSET DOMAIN s |-> IF t = {} THEN base ELSE WithinCap(iter[t \ {Max(t)}], s[Max(t)])]
  BY <1>3
<1>5. FoldLeft(WithinCap, base, s) = iter[DOMAIN s]
  BY DEF FoldLeft, MapThenFoldSet
<1> HIDE DEF iter, H
<1>0. \A t \in SUBSET (1..n) :
        /\ t = {} => iter[t] = base
        /\ t # {} => iter[t] = WithinCap(iter[t \ {Max(t)}], s[Max(t)])
  BY <1>4
<1>6. \A i \in 0..n : g[i] = iter[1..i]
  OBVIOUS
<1> HIDE DEF g
<1>7. g[0] = base
  <2>1. 1..0 = {} /\ 1..0 \in SUBSET (1..n) /\ 0 \in 0..n
    BY Initials
  <2>2. iter[{}] = base
    BY <1>0
  <2>3. g[0] = iter[{}]
    BY <1>6, <2>1
  <2>. QED  BY <2>2, <2>3
<1>8. ASSUME NEW i \in 1..n PROVE g[i] = WithinCap(g[i - 1], s[i])
  <2>1. /\ 1..i \in SUBSET (1..n) /\ 1..i # {} /\ Max(1..i) = i
        /\ (1..i) \ {i} = 1..i - 1 /\ i - 1 \in 0..n /\ i \in 0..n
    BY Initials
  <2>2. iter[1..i] = WithinCap(iter[1..i - 1], s[i])
    BY <1>0, <2>1
  <2>. QED  BY <1>6, <2>1, <2>2
<1>9. \A i \in 0..n : g[i] \in A
  <2>1. \A i \in 1..n : g[i - 1] \in A => g[i] \in A
    BY <1>8
  <2>. QED  BY <1>7, <2>1, StaysIn
<1>10. g[n] = WithinCapAll(base, s)
  BY <1>5, <1>6 DEF WithinCapAll
<1>. QED  BY <1>7, <1>8, <1>9, <1>10 DEF WithinCapSteps

PlaceAll(base, s) == FoldLeft(Place, base, s)

\* g goes through n steps of a fold, within A.
PlaceSteps(g, n, s, A, base) ==
  /\ g[0] = base /\ g[n] = PlaceAll(base, s)
  /\ \A i \in 0..n : g[i] \in A
  /\ \A i \in 1..n : g[i] = Place(g[i - 1], s[i])

LEMMA FoldPlace ==
  ASSUME NEW n \in Nat, NEW s, DOMAIN s = 1..n, NEW A, NEW base \in A,
         \A a \in A, i \in 1..n : Place(a, s[i]) \in A
  PROVE  \E g : PlaceSteps(g, n, s, A, base)
<1> DEFINE iter == CHOOSE h : h = [t \in SUBSET DOMAIN s |->
                                     IF t = {} THEN base ELSE Place(h[t \ {Max(t)}], s[Max(t)])]
           H == [p \in A \X (1..n) |-> Place(p[1], s[p[2]])]
           g == [i \in 0..n |-> iter[1..i]]
<1>1. H \in [A \X (1..n) -> A] /\ \A a \in A, i \in 1..n : H[<<a, i>>] = Place(a, s[i])
  OBVIOUS
<1>2. PICK f \in [SUBSET (1..n) -> A] : FoldsAll(f, n, base, H)
  <2> HIDE DEF H
  <2>. QED  BY <1>1, FoldExists
<1>3. f = [t \in SUBSET DOMAIN s |-> IF t = {} THEN base ELSE Place(f[t \ {Max(t)}], s[Max(t)])]
  <2> HIDE DEF H
  <2>1. ASSUME NEW t \in SUBSET (1..n), t # {}
        PROVE  H[<<f[t \ {Max(t)}], Max(t)>>] = Place(f[t \ {Max(t)}], s[Max(t)])
    <3>1. Max(t) \in 1..n /\ f[t \ {Max(t)}] \in A
      BY <2>1, MaxOfSome
    <3>. QED  BY <1>1, <3>1
  <2>. QED  BY <1>2, <2>1 DEF FoldsAll
<1>4. iter = [t \in SUBSET DOMAIN s |-> IF t = {} THEN base ELSE Place(iter[t \ {Max(t)}], s[Max(t)])]
  BY <1>3
<1>5. FoldLeft(Place, base, s) = iter[DOMAIN s]
  BY DEF FoldLeft, MapThenFoldSet
<1> HIDE DEF iter, H
<1>0. \A t \in SUBSET (1..n) :
        /\ t = {} => iter[t] = base
        /\ t # {} => iter[t] = Place(iter[t \ {Max(t)}], s[Max(t)])
  BY <1>4
<1>6. \A i \in 0..n : g[i] = iter[1..i]
  OBVIOUS
<1> HIDE DEF g
<1>7. g[0] = base
  <2>1. 1..0 = {} /\ 1..0 \in SUBSET (1..n) /\ 0 \in 0..n
    BY Initials
  <2>2. iter[{}] = base
    BY <1>0
  <2>3. g[0] = iter[{}]
    BY <1>6, <2>1
  <2>. QED  BY <2>2, <2>3
<1>8. ASSUME NEW i \in 1..n PROVE g[i] = Place(g[i - 1], s[i])
  <2>1. /\ 1..i \in SUBSET (1..n) /\ 1..i # {} /\ Max(1..i) = i
        /\ (1..i) \ {i} = 1..i - 1 /\ i - 1 \in 0..n /\ i \in 0..n
    BY Initials
  <2>2. iter[1..i] = Place(iter[1..i - 1], s[i])
    BY <1>0, <2>1
  <2>. QED  BY <1>6, <2>1, <2>2
<1>9. \A i \in 0..n : g[i] \in A
  <2>1. \A i \in 1..n : g[i - 1] \in A => g[i] \in A
    BY <1>8
  <2>. QED  BY <1>7, <2>1, StaysIn
<1>10. g[n] = PlaceAll(base, s)
  BY <1>5, <1>6 DEF PlaceAll
<1>. QED  BY <1>7, <1>8, <1>9, <1>10 DEF PlaceSteps

-----------------------------------------------------------------------------
(* Paths, and the order they are walked in *)

\* What a path may be, and how its characters compare.
Text == Seq(Nat \ {0})
Low(c) == IF c = Slash THEN 0 ELSE c
Before(p, q) == SortsBefore(SeparatorFirst(p), SeparatorFirst(q))

LEMMA PrefixMeans ==
  ASSUME NEW T, NEW p \in Seq(T), NEW q \in Seq(T)
  PROVE  IsStrictPrefix(p, q) <=> Len(p) < Len(q) /\ \A i \in 1..Len(p) : p[i] = q[i]
<1>1. ASSUME IsPrefix(p, q) PROVE \A i \in 1..Len(p) : p[i] = q[i]
  <2> TAKE i \in 1..Len(p)
  <2>1. SubSeq(p, 1, Len(p))[i] = p[i] /\ SubSeq(q, 1, Len(p))[i] = q[i]
    BY <1>1 DEF IsPrefix
  <2>. QED  BY <1>1, <2>1 DEF IsPrefix
<1>2. ASSUME Len(p) <= Len(q), \A i \in 1..Len(p) : p[i] = q[i] PROVE IsPrefix(p, q)
  <2>1. SubSeq(p, 1, Len(p)) = [i \in 1..Len(p) |-> p[i]]
    OBVIOUS
  <2>2. SubSeq(q, 1, Len(p)) = [i \in 1..Len(p) |-> q[i]]
    BY <1>2
  <2>. QED  BY <1>2, <2>1, <2>2 DEF IsPrefix
<1>3. ASSUME Len(p) = Len(q), \A i \in 1..Len(p) : p[i] = q[i] PROVE p = q
  BY <1>3
<1>. QED  BY <1>1, <1>2, <1>3 DEF IsStrictPrefix, IsPrefix

LEMMA UnderMeans ==
  ASSUME NEW p \in Text, NEW q \in Text
  PROVE  IsUnder(p, q) <=> \/ p = q
                           \/ /\ Len(q) < Len(p) /\ p[Len(q) + 1] = Slash
                              /\ \A i \in 1..Len(q) : p[i] = q[i]
<1>1. IsStrictPrefix(q, p) <=> Len(q) < Len(p) /\ \A i \in 1..Len(q) : q[i] = p[i]
  BY PrefixMeans DEF Text
<1>. QED  BY <1>1 DEF IsUnder

LEMMA BeforeMeans ==
  ASSUME NEW p \in Text, NEW q \in Text
  PROVE  Before(p, q) <=>
           \/ Len(p) < Len(q) /\ \A i \in 1..Len(p) : p[i] = q[i]
           \/ \E i \in 1..Len(p) : /\ i <= Len(q) /\ Low(p[i]) < Low(q[i])
                                  /\ \A j \in 1..i - 1 : p[j] = q[j]
<1> DEFINE P == SeparatorFirst(p)  Q == SeparatorFirst(q)
<1>1. ASSUME NEW r \in Text
      PROVE  /\ SeparatorFirst(r) \in Seq(Nat) /\ Len(SeparatorFirst(r)) = Len(r)
             /\ DOMAIN SeparatorFirst(r) = 1..Len(r)
             /\ \A i \in 1..Len(r) : SeparatorFirst(r)[i] = Low(r[i]) /\ r[i] \in Nat \ {0}
  <2>1. DOMAIN r = 1..Len(r) /\ \A i \in 1..Len(r) : r[i] \in Nat \ {0}
    BY DEF Text
  <2>2. SeparatorFirst(r) = [i \in 1..Len(r) |-> Low(r[i])]
    BY <2>1 DEF SeparatorFirst, Low
  <2>3. \A i \in 1..Len(r) : Low(r[i]) \in Nat
    BY <2>1 DEF Low
  <2>4. Len(r) \in Nat
    BY DEF Text
  <2>. QED  BY <2>1, <2>2, <2>3, <2>4
<1>2. \A c, d \in Nat \ {0} : Low(c) = Low(d) <=> c = d
  BY DEF Low
<1>3. IsStrictPrefix(P, Q) <=> Len(p) < Len(q) /\ \A i \in 1..Len(p) : P[i] = Q[i]
  <2>1. P \in Seq(Nat) /\ Q \in Seq(Nat) /\ Len(P) = Len(p) /\ Len(Q) = Len(q)
    BY <1>1
  <2> HIDE DEF P, Q
  <2>. QED  BY <2>1, PrefixMeans
<1>4. \A i \in 1..Len(p) : i <= Len(q) => (P[i] = Q[i] <=> p[i] = q[i])
  <2> TAKE i \in 1..Len(p)
  <2> HAVE i <= Len(q)
  <2>1. i \in 1..Len(q) /\ i \in 1..Len(p)
    BY DEF Text
  <2>2. P[i] = Low(p[i]) /\ Q[i] = Low(q[i]) /\ p[i] \in Nat \ {0} /\ q[i] \in Nat \ {0}
    BY <2>1, <1>1
  <2>. QED  BY <2>2, <1>2
<1>5. \A i : i \in 1..Len(p) /\ i <= Len(q) <=> i \in DOMAIN P \cap DOMAIN Q
  <2>1. DOMAIN P = 1..Len(p) /\ DOMAIN Q = 1..Len(q) /\ Len(p) \in Nat /\ Len(q) \in Nat
    BY <1>1 DEF Text
  <2> HIDE DEF P, Q
  <2>. QED  BY <2>1
<1>6. \A i \in 1..Len(p) : i <= Len(q) => P[i] = Low(p[i]) /\ Q[i] = Low(q[i])
  BY <1>1, <1>5
<1>7. Before(p, q) <=> \/ IsStrictPrefix(P, Q)
                      \/ \E i \in DOMAIN P \cap DOMAIN Q : P[i] < Q[i] /\ \A j \in 1..i - 1 : P[j] = Q[j]
  BY DEF Before, SortsBefore
<1>8. Len(p) \in Nat /\ Len(q) \in Nat
  BY DEF Text
<1> HIDE DEF P, Q
<1>9. IsStrictPrefix(P, Q) <=> Len(p) < Len(q) /\ \A i \in 1..Len(p) : p[i] = q[i]
  BY <1>3, <1>4, <1>8
<1>10. ASSUME NEW i \in 1..Len(p), i <= Len(q)
       PROVE  (P[i] < Q[i] /\ \A j \in 1..i - 1 : P[j] = Q[j])
              <=> (Low(p[i]) < Low(q[i]) /\ \A j \in 1..i - 1 : p[j] = q[j])
  <2>1. P[i] = Low(p[i]) /\ Q[i] = Low(q[i])
    BY <1>6, <1>10
  <2>2. \A j \in 1..i - 1 : j \in 1..Len(p) /\ j <= Len(q)
    BY <1>8, <1>10
  <2>. QED  BY <2>1, <2>2, <1>4
<1>11. (\E i \in DOMAIN P \cap DOMAIN Q : P[i] < Q[i] /\ \A j \in 1..i - 1 : P[j] = Q[j])
       <=> \E i \in 1..Len(p) : /\ i <= Len(q) /\ Low(p[i]) < Low(q[i])
                              /\ \A j \in 1..i - 1 : p[j] = q[j]
  BY <1>5, <1>10
<1>. QED  BY <1>7, <1>9, <1>11

LEMMA TextMeans ==
  ASSUME NEW p \in Text
  PROVE  Len(p) \in Nat /\ \A i \in 1..Len(p) : p[i] \in Nat \ {0} /\ Low(p[i]) \in Nat
BY DEF Text, Low

LEMMA LowInjective ==
  ASSUME NEW c \in Nat \ {0}, NEW d \in Nat \ {0}
  PROVE  (Low(c) = Low(d) <=> c = d) /\ (Low(c) = 0 <=> c = Slash)
BY DEF Low

LEMMA SameText ==
  ASSUME NEW p \in Text, NEW q \in Text, Len(p) = Len(q), \A i \in 1..Len(p) : p[i] = q[i]
  PROVE  p = q
BY DEF Text

LEMMA BeforeIrreflexive == ASSUME NEW p \in Text PROVE ~Before(p, p)
BY BeforeMeans, TextMeans

LEMMA BeforeTotal ==
  ASSUME NEW p \in Text, NEW q \in Text, p # q
  PROVE  Before(p, q) \/ Before(q, p)
<1> DEFINE D == {i \in Nat : i \in 1..Len(p) /\ i \in 1..Len(q) /\ p[i] # q[i]}
<1>0. Len(p) \in Nat /\ Len(q) \in Nat
  BY TextMeans
<1>1. CASE D = {}
  <2>1. \A i \in 1..Len(p) : i <= Len(q) => p[i] = q[i]
    <3> TAKE i \in 1..Len(p)
    <3> HAVE i <= Len(q)
    <3>1. i \in Nat /\ i \in 1..Len(q)
      BY <1>0
    <3>. QED  BY <1>1, <3>1
  <2>2. CASE Len(p) = Len(q)
    BY <2>1, <2>2, <1>0, SameText
  <2>3. CASE Len(p) < Len(q)
    BY <2>1, <2>3, <1>0, BeforeMeans
  <2>4. CASE Len(q) < Len(p)
    <3>1. \A i \in 1..Len(q) : q[i] = p[i]
      BY <2>1, <2>4, <1>0
    <3>. QED  BY <3>1, <2>4, <1>0, BeforeMeans
  <2>. QED  BY <2>2, <2>3, <2>4, <1>0
<1>2. CASE D # {}
  <2>1. D \in SUBSET Nat
    OBVIOUS
  <2>2. PICK i \in D : \A j \in D : i <= j
    <3> HIDE DEF D
    <3>. QED  BY <1>2, <2>1, LeastElement
  <2>3. i \in 1..Len(p) /\ i \in 1..Len(q) /\ i <= Len(p) /\ i <= Len(q) /\ p[i] # q[i]
    BY <1>0
  <2>4. \A j \in 1..i - 1 : p[j] = q[j] /\ q[j] = p[j]
    <3> TAKE j \in 1..i - 1
    <3>1. j \in 1..Len(p) /\ j \in 1..Len(q) /\ j \in Nat /\ ~(i <= j)
      BY <2>3, <1>0
    <3>. QED  BY <3>1, <2>2
  <2>5. Low(p[i]) \in Nat /\ Low(q[i]) \in Nat /\ Low(p[i]) # Low(q[i])
    BY <2>3, TextMeans, LowInjective
  <2>. QED  BY <2>3, <2>4, <2>5, BeforeMeans
<1>. QED  BY <1>1, <1>2

LEMMA BeforeTransitive ==
  ASSUME NEW p \in Text, NEW q \in Text, NEW r \in Text, Before(p, q), Before(q, r)
  PROVE  Before(p, r)
<1>0. Len(p) \in Nat /\ Len(q) \in Nat /\ Len(r) \in Nat
  BY TextMeans
<1>1. CASE Len(p) < Len(q) /\ \A i \in 1..Len(p) : p[i] = q[i]
  <2>1. CASE Len(q) < Len(r) /\ \A i \in 1..Len(q) : q[i] = r[i]
    BY <1>0, <1>1, <2>1, BeforeMeans
  <2>2. CASE \E i \in 1..Len(q) : /\ i <= Len(r) /\ Low(q[i]) < Low(r[i])
                                 /\ \A j \in 1..i - 1 : q[j] = r[j]
    <3>1. PICK i \in 1..Len(q) : /\ i <= Len(r) /\ Low(q[i]) < Low(r[i])
                                 /\ \A j \in 1..i - 1 : q[j] = r[j]
      BY <2>2
    <3>2. CASE i <= Len(p)
      <4>1. i \in 1..Len(p) /\ p[i] = q[i] /\ \A j \in 1..i - 1 : p[j] = r[j]
        BY <1>0, <1>1, <3>1, <3>2
      <4>. QED  BY <3>1, <4>1, BeforeMeans
    <3>3. CASE Len(p) < i
      <4>1. Len(p) < Len(r) /\ \A j \in 1..Len(p) : p[j] = r[j]
        BY <1>0, <1>1, <3>1, <3>3
      <4>. QED  BY <4>1, BeforeMeans
    <3>. QED  BY <3>2, <3>3, <1>0
  <2>. QED  BY <2>1, <2>2, BeforeMeans
<1>2. CASE \E i \in 1..Len(p) : /\ i <= Len(q) /\ Low(p[i]) < Low(q[i])
                               /\ \A j \in 1..i - 1 : p[j] = q[j]
  <2>0. PICK i \in 1..Len(p) : /\ i <= Len(q) /\ Low(p[i]) < Low(q[i])
                               /\ \A j \in 1..i - 1 : p[j] = q[j]
    BY <1>2
  <2>1. CASE Len(q) < Len(r) /\ \A k \in 1..Len(q) : q[k] = r[k]
    <3>1. i <= Len(r) /\ q[i] = r[i] /\ \A j \in 1..i - 1 : p[j] = r[j]
      BY <1>0, <2>0, <2>1
    <3>. QED  BY <2>0, <3>1, BeforeMeans
  <2>2. CASE \E k \in 1..Len(q) : /\ k <= Len(r) /\ Low(q[k]) < Low(r[k])
                                 /\ \A j \in 1..k - 1 : q[j] = r[j]
    <3>1. PICK k \in 1..Len(q) : /\ k <= Len(r) /\ Low(q[k]) < Low(r[k])
                                 /\ \A j \in 1..k - 1 : q[j] = r[j]
      BY <2>2
    <3>2. CASE i < k
      <4>1. i <= Len(r) /\ q[i] = r[i] /\ \A j \in 1..i - 1 : p[j] = r[j]
        BY <1>0, <2>0, <3>1, <3>2
      <4>. QED  BY <2>0, <4>1, BeforeMeans
    <3>3. CASE k <= i
      <4>1. k \in 1..Len(p) /\ k <= Len(r) /\ \A j \in 1..k - 1 : p[j] = r[j]
        BY <1>0, <2>0, <3>1, <3>3
      <4>2. Low(p[k]) <= Low(q[k])
        <5>1. CASE k = i
          <6>1. Low(p[i]) \in Nat /\ Low(q[i]) \in Nat
            BY <1>0, <2>0, TextMeans
          <6>. QED  BY <5>1, <6>1, <2>0
        <5>2. CASE k < i
          <6>1. p[k] = q[k] /\ Low(p[k]) \in Nat
            BY <1>0, <2>0, <3>1, <5>2, TextMeans
          <6>. QED  BY <6>1
        <5>. QED  BY <5>1, <5>2, <3>3, <1>0
      <4>3. Low(p[k]) \in Nat /\ Low(q[k]) \in Nat /\ Low(r[k]) \in Nat
        BY <1>0, <4>1, <3>1, TextMeans
      <4>4. Low(p[k]) < Low(r[k])
        BY <4>2, <4>3, <3>1
      <4>. QED  BY <4>1, <4>4, BeforeMeans
    <3>. QED  BY <3>2, <3>3, <1>0
  <2>. QED  BY <2>1, <2>2, BeforeMeans
<1>. QED  BY <1>1, <1>2, BeforeMeans

LEMMA UnderTransitive ==
  ASSUME NEW p \in Text, NEW q \in Text, NEW r \in Text, IsUnder(p, q), IsUnder(q, r)
  PROVE  IsUnder(p, r)
<1>1. Len(p) \in Nat /\ Len(q) \in Nat /\ Len(r) \in Nat
  BY TextMeans
<1>2. CASE p # q /\ q # r
  <2>1. Len(r) < Len(q) /\ Len(q) < Len(p) /\ \A i \in 1..Len(q) : p[i] = q[i]
    BY <1>2, UnderMeans
  <2>2. q[Len(r) + 1] = Slash /\ \A i \in 1..Len(r) : q[i] = r[i]
    BY <1>2, UnderMeans
  <2>3. Len(r) < Len(p) /\ p[Len(r) + 1] = Slash /\ \A i \in 1..Len(r) : p[i] = r[i]
    BY <1>1, <2>1, <2>2
  <2>. QED  BY <2>3, UnderMeans
<1>. QED  BY <1>2

LEMMA UnderAntisymmetric ==
  ASSUME NEW p \in Text, NEW q \in Text, IsUnder(p, q), IsUnder(q, p)
  PROVE  p = q
BY UnderMeans, TextMeans

\* A folder comes before its contents, and nothing else between the two.
LEMMA FolderFirst ==
  ASSUME NEW p \in Text, NEW q \in Text, IsUnder(p, q), p # q
  PROVE  Before(q, p)
BY UnderMeans, BeforeMeans

LEMMA ContentsTogether ==
  ASSUME NEW p \in Text, NEW q \in Text, NEW k \in Text,
         IsUnder(p, q), p # q, Before(q, k), Before(k, p)
  PROVE  IsUnder(k, q)
<1>0. Len(p) \in Nat /\ Len(q) \in Nat /\ Len(k) \in Nat
  BY TextMeans
<1>1. Len(q) < Len(p) /\ p[Len(q) + 1] = Slash /\ \A i \in 1..Len(q) : p[i] = q[i]
  BY UnderMeans
<1>2. ASSUME NEW i \in 1..Len(k), i <= Len(p), Low(k[i]) < Low(p[i]), \A j \in 1..i - 1 : k[j] = p[j]
      PROVE  ~(\E j \in 1..Len(q) : j <= Len(k) /\ Low(q[j]) < Low(k[j]) /\ \A m \in 1..j - 1 : q[m] = k[m])
  <2> SUFFICES ASSUME NEW j \in 1..Len(q), j <= Len(k), Low(q[j]) < Low(k[j]), \A m \in 1..j - 1 : q[m] = k[m]
               PROVE  FALSE
    OBVIOUS
  <2>0. p[j] = q[j] /\ Low(q[j]) \in Nat /\ Low(k[j]) \in Nat /\ Low(k[i]) \in Nat /\ Low(p[i]) \in Nat
    BY <1>0, <1>1, <1>2, TextMeans
  <2>1. CASE j < i
    BY <1>0, <1>2, <2>0, <2>1
  <2>2. CASE i < j
    <3>1. i \in 1..Len(q) /\ q[i] = k[i] /\ p[i] = q[i]
      BY <1>0, <1>1, <2>2
    <3>. QED  BY <3>1, <2>0, <1>2
  <2>3. CASE i = j
    BY <2>0, <2>3, <1>2
  <2>. QED  BY <2>1, <2>2, <2>3, <1>0
<1>3. CASE Len(k) < Len(p) /\ \A i \in 1..Len(k) : k[i] = p[i]
  <2>1. ~(\E j \in 1..Len(q) : j <= Len(k) /\ Low(q[j]) < Low(k[j]) /\ \A m \in 1..j - 1 : q[m] = k[m])
    <3> SUFFICES ASSUME NEW j \in 1..Len(q), j <= Len(k), Low(q[j]) < Low(k[j]) PROVE FALSE
      OBVIOUS
    <3>1. k[j] = q[j] /\ Low(q[j]) \in Nat
      BY <1>0, <1>1, <1>3, TextMeans
    <3>. QED  BY <3>1
  <2>2. Len(q) < Len(k) /\ \A i \in 1..Len(q) : q[i] = k[i]
    BY <2>1, BeforeMeans
  <2>3. k[Len(q) + 1] = Slash
    BY <1>0, <1>1, <1>3, <2>2
  <2>. QED  BY <2>2, <2>3, UnderMeans
<1>4. CASE \E i \in 1..Len(k) : i <= Len(p) /\ Low(k[i]) < Low(p[i]) /\ \A j \in 1..i - 1 : k[j] = p[j]
  <2>0. PICK i \in 1..Len(k) : i <= Len(p) /\ Low(k[i]) < Low(p[i]) /\ \A j \in 1..i - 1 : k[j] = p[j]
    BY <1>4
  <2>1. Len(q) < Len(k) /\ \A j \in 1..Len(q) : q[j] = k[j]
    BY <1>2, <2>0, BeforeMeans
  <2>2. Len(q) < i
    <3>1. SUFFICES ASSUME i <= Len(q) PROVE FALSE
      BY <1>0
    <3>2. i \in 1..Len(q) /\ k[i] = p[i] /\ Low(k[i]) \in Nat
      BY <1>0, <1>1, <2>0, <2>1, <3>1, TextMeans
    <3>. QED  BY <2>0, <3>2
  <2>3. i # Len(q) + 1
    <3>1. SUFFICES ASSUME i = Len(q) + 1 PROVE FALSE
      OBVIOUS
    <3>2. Low(p[i]) = 0 /\ Low(k[i]) \in Nat
      BY <1>0, <1>1, <2>0, <3>1, TextMeans DEF Low
    <3>. QED  BY <2>0, <3>2
  <2>4. k[Len(q) + 1] = Slash
    BY <1>0, <1>1, <2>0, <2>2, <2>3
  <2>. QED  BY <2>1, <2>4, UnderMeans
<1>. QED  BY <1>3, <1>4, BeforeMeans

\* The last of some paths.
LEMMA LastOf ==
  ASSUME NEW K, IsFiniteSet(K), K \in SUBSET Text, K # {}
  PROVE  \E m \in K : \A k \in K : k # m => Before(k, m)
<1> DEFINE HasLast(L) == \E m \in L : \A k \in L : k # m => Before(k, m)
           N == Cardinality(K)
           S == {n \in 0..N : \A L \in SUBSET K : Cardinality(L) = n /\ L # {} => HasLast(L)}
<1>1. N \in Nat
  BY FS_CardinalityType
<1>2. 0 \in S
  <2>1. ASSUME NEW L \in SUBSET K, Cardinality(L) = 0 PROVE L = {}
    BY <2>1, FS_Subset, FS_EmptySet
  <2>. QED  BY <2>1, <1>1
<1>3. ASSUME NEW n \in 0..N - 1, n \in S PROVE n + 1 \in S
  <2>1. ASSUME NEW L \in SUBSET K, Cardinality(L) = n + 1, L # {} PROVE HasLast(L)
    <3>1. PICK x \in L : TRUE
      BY <2>1
    <3> DEFINE M == L \ {x}
    <3>2. M \in SUBSET K /\ Cardinality(M) = n
      <4>1. IsFiniteSet(L)
        BY FS_Subset
      <4>2. Cardinality(M) = (n + 1) - 1
        BY <2>1, <4>1, FS_RemoveElement
      <4>. QED  BY <4>2
    <3>3. CASE M = {}
      BY <3>1, <3>3
    <3>4. CASE M # {}
      <4>1. HasLast(M)
        BY <1>3, <3>2, <3>4
      <4>2. PICK m \in M : \A k \in M : k # m => Before(k, m)
        BY <4>1
      <4>3. m \in Text /\ x \in Text /\ m # x /\ M \subseteq Text
        BY <3>1
      <4>4. CASE Before(m, x)
        <5>1. \A k \in L : k # x => Before(k, x)
          <6> TAKE k \in L
          <6> HAVE k # x
          <6>1. k \in M
            OBVIOUS
          <6>2. CASE k = m
            BY <4>4, <6>2
          <6>3. CASE k # m
            BY <4>2, <4>3, <4>4, <6>1, <6>3, BeforeTransitive
          <6>. QED  BY <6>2, <6>3
        <5>. QED  BY <5>1, <3>1
      <4>5. CASE Before(x, m)
        BY <4>2, <4>5
      <4>. QED  BY <4>3, <4>4, <4>5, BeforeTotal
    <3>. QED  BY <3>3, <3>4
  <2>. QED  BY <2>1, <1>1
<1>4. N \in S
  <2> HIDE DEF S
  <2>1. 0..N \subseteq S
    <3> HIDE DEF N
    <3>. QED  BY <1>1, <1>2, <1>3, UpTo
  <2>. QED  BY <2>1, <1>1
<1>. QED  BY <1>4

Sorted(s) == \A i, j \in DOMAIN s : i < j => Before(s[i], s[j])

LEMMA CanSort ==
  ASSUME NEW K, IsFiniteSet(K), K \in SUBSET Text
  PROVE  \E s \in SetToSeqs(K) : Sorted(s)
<1> DEFINE N == Cardinality(K)
           S == {n \in 0..N : \A L \in SUBSET K : Cardinality(L) = n => \E s \in SetToSeqs(L) : Sorted(s)}
<1>1. N \in Nat
  BY FS_CardinalityType
<1>2. 0 \in S
  <2>1. ASSUME NEW L \in SUBSET K, Cardinality(L) = 0 PROVE \E s \in SetToSeqs(L) : Sorted(s)
    <3> DEFINE s == [i \in 1..0 |-> NoPath]
    <3>1. DOMAIN s = {} /\ 1..0 = {}
      OBVIOUS
    <3>2. s \in SetToSeqs(L)
      BY <2>1, <3>1 DEF SetToSeqs
    <3>3. Sorted(s)
      BY <3>1 DEF Sorted
    <3>. QED  BY <3>2, <3>3
  <2>. QED  BY <2>1, <1>1
<1>3. ASSUME NEW n \in 0..N - 1, n \in S PROVE n + 1 \in S
  <2>1. ASSUME NEW L \in SUBSET K, Cardinality(L) = n + 1 PROVE \E s \in SetToSeqs(L) : Sorted(s)
    <3>0. IsFiniteSet(L) /\ L # {}
      BY <2>1, FS_Subset, FS_EmptySet
    <3>1. PICK m \in L : \A k \in L : k # m => Before(k, m)
      BY <3>0, LastOf
    <3> DEFINE M == L \ {m}
    <3>2. M \in SUBSET K /\ Cardinality(M) = n
      <4>1. Cardinality(M) = (n + 1) - 1
        BY <2>1, <3>0, FS_RemoveElement
      <4>. QED  BY <4>1
    <3>3. PICK s \in SetToSeqs(M) : Sorted(s)
      BY <1>3, <3>2
    <3>4. s \in [1..n -> M] /\ \A i, j \in 1..n : i # j => s[i] # s[j]
      BY <3>2 DEF SetToSeqs
    <3> DEFINE t == [i \in 1..n + 1 |-> IF i = n + 1 THEN m ELSE s[i]]
    <3>5. DOMAIN t = 1..n + 1 /\ t[n + 1] = m /\ \A i \in 1..n : t[i] = s[i] /\ t[i] \in M
      BY <3>4
    <3>6. t \in [1..n + 1 -> L]
      <4>1. ASSUME NEW i \in 1..n + 1 PROVE t[i] \in L
        <5>1. i = n + 1 \/ i \in 1..n
          OBVIOUS
        <5>. QED  BY <3>5, <5>1
      <4>. QED  BY <4>1
    <3>7. \A i, j \in 1..n + 1 : i # j => t[i] # t[j]
      <4> TAKE i, j \in 1..n + 1
      <4> HAVE i # j
      <4>1. (i = n + 1 \/ i \in 1..n) /\ (j = n + 1 \/ j \in 1..n)
        OBVIOUS
      <4> HIDE DEF t
      <4>. QED  BY <3>4, <3>5, <4>1
    <3>8. Sorted(t)
      <4>1. ASSUME NEW i \in 1..n + 1, NEW j \in 1..n + 1, i < j PROVE Before(t[i], t[j])
        <5>1. i \in 1..n /\ (j = n + 1 \/ j \in 1..n)
          BY <4>1
        <5>2. DOMAIN s = 1..n
          BY <3>4
        <5> HIDE DEF t
        <5>. QED  BY <4>1, <5>1, <5>2, <3>1, <3>3, <3>5 DEF Sorted
      <4>. QED  BY <4>1, <3>5 DEF Sorted
    <3>9. t \in SetToSeqs(L)
      <4> HIDE DEF t
      <4>. QED  BY <2>1, <3>6, <3>7 DEF SetToSeqs
    <3>. QED  BY <3>8, <3>9
  <2>. QED  BY <2>1, <1>1
<1>4. N \in S
  <2> HIDE DEF S
  <2>1. 0..N \subseteq S
    <3> HIDE DEF N
    <3>. QED  BY <1>1, <1>2, <1>3, UpTo
  <2>. QED  BY <2>1, <1>1
<1>. QED  BY <1>4

\* A set's members in some order are all of them.
LEMMA SeqsOf ==
  ASSUME NEW K, IsFiniteSet(K), NEW s \in SetToSeqs(K)
  PROVE  /\ Cardinality(K) \in Nat
         /\ s \in [1..Cardinality(K) -> K]
         /\ \A k \in K : \E i \in 1..Cardinality(K) : s[i] = k
<1> DEFINE N == Cardinality(K)
<1>1. N \in Nat
  BY FS_CardinalityType
<1>2. s \in [1..N -> K] /\ \A i, j \in 1..N : i # j => s[i] # s[j]
  BY DEF SetToSeqs
<1>3. s \in Injection(1..N, K)
  BY <1>2 DEF Injection, IsInjective
<1>4. IsFiniteSet(1..N) /\ Cardinality(1..N) = N
  BY <1>1, FS_Interval
<1>5. s \in Surjection(1..N, K)
  BY <1>3, <1>4, FS_Injection
<1>6. \A k \in K : \E i \in 1..N : s[i] = k
  BY <1>5 DEF Surjection
<1>. QED  BY <1>1, <1>2, <1>6

LEMMA InOrderMeans ==
  ASSUME NEW K, IsFiniteSet(K), K \in SUBSET Text
  PROVE  /\ Cardinality(K) \in Nat
         /\ InOrder(K) \in [1..Cardinality(K) -> K]
         /\ \A k \in K : \E i \in 1..Cardinality(K) : InOrder(K)[i] = k
         /\ \A i, j \in 1..Cardinality(K) : i < j => Before(InOrder(K)[i], InOrder(K)[j])
<1>1. InOrder(K) = CHOOSE s \in SetToSeqs(K) : Sorted(s)
  BY DEF InOrder, Sorted, Before
<1>2. InOrder(K) \in SetToSeqs(K) /\ Sorted(InOrder(K))
  BY <1>1, CanSort
<1>. QED  BY <1>2, SeqsOf DEF Sorted

-----------------------------------------------------------------------------
(* The one walk of shareClusters *)

\* The folders open, and the cluster of each path, part way through some paths.
Opens(K) == {a \in [stack : Seq(K), of : UNION {[D -> K] : D \in SUBSET K}] :
               \A i \in DOMAIN a.stack : a.stack[i] \in DOMAIN a.of}

Nothing == [stack |-> <<>>, of |-> [p \in {} |-> p]]

LEMMA OpensMeans ==
  ASSUME NEW K, NEW a \in Opens(K)
  PROVE  /\ a.stack \in Seq(K) /\ DOMAIN a.of \in SUBSET K /\ a.of \in [DOMAIN a.of -> K]
         /\ \A i \in 1..Len(a.stack) : a.stack[i] \in DOMAIN a.of
<1>1. a.stack \in Seq(K) /\ a.of \in UNION {[D -> K] : D \in SUBSET K}
  BY DEF Opens
<1>2. PICK D \in SUBSET K : a.of \in [D -> K]
  BY <1>1
<1>3. DOMAIN a.stack = 1..Len(a.stack)
  BY <1>1
<1>. QED  BY <1>1, <1>2, <1>3 DEF Opens

LEMMA NothingOpens == ASSUME NEW K PROVE Nothing \in Opens(K)
<1>1. [p \in {} |-> p] \in [{} -> K] /\ {} \in SUBSET K
  OBVIOUS
<1>2. [p \in {} |-> p] \in UNION {[D -> K] : D \in SUBSET K}
  BY <1>1
<1>3. <<>> \in Seq(K) /\ DOMAIN <<>> = {}
  OBVIOUS
<1> DEFINE none == [p \in {} |-> p]
<1> HIDE DEF none
<1>4. [stack |-> <<>>, of |-> none] \in Opens(K)
  BY <1>2, <1>3 DEF Opens, none
<1>. QED  BY <1>4 DEF Nothing, none

\* How many of the open folders one path leaves open.
Kept(a, path, m) ==
  LET b == Place(a, path) IN
  /\ m # 0 => IsUnder(path, a.stack[m])
  /\ \A i \in m + 1..Len(a.stack) : ~IsUnder(path, a.stack[i])
  /\ Len(b.stack) = m + 1 /\ b.stack[m + 1] = path
  /\ \A i \in 1..m : b.stack[i] = a.stack[i]
  /\ DOMAIN b.of = DOMAIN a.of \cup {path}
  /\ \A p \in DOMAIN a.of \ {path} : b.of[p] = a.of[p]
  /\ b.of[path] = IF m = 0 THEN path ELSE a.of[a.stack[1]]

LEMMA PlaceMeans ==
  ASSUME NEW K, NEW a \in Opens(K), NEW path \in K
  PROVE  /\ Place(a, path) \in Opens(K)
         /\ \E m \in 0..Len(a.stack) : Kept(a, path, m)
<1> DEFINE containing == {i \in DOMAIN a.stack : IsUnder(path, a.stack[i])}
           m == IF containing = {} THEN 0 ELSE Max(containing)
           stack == SubSeq(a.stack, 1, m)
           of == [p \in DOMAIN a.of \cup {path} |->
                    IF p # path THEN a.of[p]
                    ELSE IF stack = <<>> THEN path ELSE a.of[stack[1]]]
           b == [stack |-> Append(stack, path), of |-> of]
<1>1. Place(a, path) = b
  BY DEF Place
<1>2. /\ a.stack \in Seq(K) /\ DOMAIN a.of \in SUBSET K /\ a.of \in [DOMAIN a.of -> K]
      /\ \A i \in 1..Len(a.stack) : a.stack[i] \in DOMAIN a.of
  BY OpensMeans
<1>3. DOMAIN a.stack = 1..Len(a.stack) /\ Len(a.stack) \in Nat
  BY <1>2
<1>4. containing \in SUBSET (1..Len(a.stack))
  BY <1>3
<1>5. /\ m \in 0..Len(a.stack)
      /\ m # 0 => IsUnder(path, a.stack[m])
      /\ \A i \in m + 1..Len(a.stack) : ~IsUnder(path, a.stack[i])
  <2>1. CASE containing = {}
    <3>1. m = 0
      BY <2>1
    <3>2. \A i \in 1..Len(a.stack) : ~IsUnder(path, a.stack[i])
      BY <2>1, <1>3
    <3> HIDE DEF m
    <3>. QED  BY <3>1, <3>2, <1>3
  <2>2. CASE containing # {}
    <3>1. m = Max(containing)
      BY <2>2
    <3>2. m \in containing /\ \A i \in containing : i <= m
      <4> HIDE DEF containing, m
      <4>. QED  BY <1>3, <1>4, <2>2, <3>1, MaxOfSome
    <3>3. m \in 1..Len(a.stack) /\ IsUnder(path, a.stack[m])
      BY <3>2, <1>3
    <3>4. ASSUME NEW i \in m + 1..Len(a.stack) PROVE ~IsUnder(path, a.stack[i])
      <4>1. i \in DOMAIN a.stack /\ ~(i <= m)
        <5> HIDE DEF m
        <5>. QED  BY <1>3, <3>3
      <4>. QED  BY <3>2, <4>1
    <3> HIDE DEF m
    <3>. QED  BY <3>3, <3>4, <1>3
  <2>. QED  BY <2>1, <2>2
<1> HIDE DEF m, containing
<1>6. stack \in Seq(K) /\ Len(stack) = m /\ \A i \in 1..m : stack[i] = a.stack[i]
  <2>1. \A i \in 1..m : i \in 1..Len(a.stack) /\ a.stack[i] \in K
    BY <1>2, <1>3, <1>5
  <2>2. stack = [i \in 1..m |-> a.stack[i]]
    BY <1>2, <1>3, <1>5
  <2>. QED  BY <1>5, <2>1, <2>2
<1> HIDE DEF stack
<1>7. /\ Append(stack, path) \in Seq(K) /\ Len(Append(stack, path)) = m + 1
      /\ Append(stack, path)[m + 1] = path
      /\ \A i \in 1..m : Append(stack, path)[i] = a.stack[i]
  BY <1>5, <1>6
<1>8. m # 0 => stack[1] = a.stack[1] /\ a.stack[1] \in DOMAIN a.of
  BY <1>2, <1>3, <1>5, <1>6
<1>9. stack = <<>> <=> m = 0
  BY <1>6
<1>10. of[path] = IF m = 0 THEN path ELSE a.of[a.stack[1]]
  BY <1>8, <1>9
<1>11. /\ DOMAIN of = DOMAIN a.of \cup {path} /\ \A p \in DOMAIN a.of \ {path} : of[p] = a.of[p]
       /\ of = [p \in DOMAIN a.of \cup {path} |-> of[p]]
  OBVIOUS
<1> HIDE DEF of
<1>12. of \in [DOMAIN of -> K] /\ DOMAIN of \in SUBSET K
  <2>1. of[path] \in K
    BY <1>2, <1>8, <1>10
  <2>2. \A p \in DOMAIN a.of \cup {path} : of[p] \in K
    BY <1>2, <1>11, <2>1
  <2>. QED  BY <1>2, <1>11, <2>2
<1>13. b \in Opens(K)
  <2>1. of \in UNION {[D -> K] : D \in SUBSET K}
    BY <1>12
  <2>2. ASSUME NEW i \in DOMAIN Append(stack, path) PROVE Append(stack, path)[i] \in DOMAIN of
    <3>1. i \in 1..m \/ i = m + 1
      <4>1. DOMAIN Append(stack, path) = 1..Len(Append(stack, path)) /\ m \in Nat
        BY <1>3, <1>5, <1>7
      <4>2. DOMAIN Append(stack, path) = 1..m + 1
        BY <4>1, <1>7
      <4>. QED  BY <4>1, <4>2
    <3>2. \A j \in 1..m : a.stack[j] \in DOMAIN a.of
      BY <1>2, <1>3, <1>5
    <3>3. \A j \in 1..m : Append(stack, path)[j] = a.stack[j]
      BY <1>7
    <3>4. CASE i \in 1..m
      <4>1. Append(stack, path)[i] = a.stack[i] /\ a.stack[i] \in DOMAIN a.of
        BY <3>2, <3>3, <3>4
      <4>. QED  BY <4>1, <1>11
    <3>5. CASE i = m + 1
      <4>1. Append(stack, path)[i] = path
        BY <3>5, <1>7
      <4>. QED  BY <4>1, <1>11
    <3>. QED  BY <3>1, <3>4, <3>5
  <2>3. b.stack = Append(stack, path) /\ b.of = of /\ b \in [stack : Seq(K), of : UNION {[D -> K] : D \in SUBSET K}]
    BY <1>7, <2>1
  <2> HIDE DEF b
  <2>. QED  BY <2>2, <2>3 DEF Opens
<1>14. b.stack = Append(stack, path) /\ b.of = of
  OBVIOUS
<1> HIDE DEF b
<1>15. Kept(a, path, m)
  BY <1>1, <1>5, <1>7, <1>10, <1>11, <1>14 DEF Kept
<1>. QED  BY <1>1, <1>5, <1>13, <1>15

\* The open folders are those the last path is in, each inside those before it.
StackRight(a, s, i) ==
  /\ \A j \in 1..Len(a.stack) : \E l \in 1..i : a.stack[j] = s[l] /\ IsUnder(s[i], s[l])
  /\ \A l \in 1..i : IsUnder(s[i], s[l]) => \E j \in 1..Len(a.stack) : a.stack[j] = s[l]
  /\ \A j, l \in 1..Len(a.stack) : j < l => IsUnder(a.stack[l], a.stack[j])

\* A path's cluster is that of a folder it is in and no other it is in is above.
RootsRight(of) ==
  \A p \in DOMAIN of :
    /\ of[p] \in DOMAIN of /\ IsUnder(p, of[p])
    /\ \A q \in DOMAIN of : IsUnder(p, q) => IsUnder(q, of[p])

Placed(a, s, i) ==
  /\ StackRight(a, s, i)
  /\ DOMAIN a.of = {s[l] : l \in 1..i}
  /\ RootsRight(a.of)

LEMMA UnderItself == \A p : IsUnder(p, p)
BY DEF IsUnder

LEMMA PlacedStep ==
  ASSUME NEW K \in SUBSET Text, NEW n \in Nat, NEW s \in [1..n -> K],
         \A i, j \in 1..n : i < j => Before(s[i], s[j]),
         NEW i \in 1..n, NEW a \in Opens(K), Placed(a, s, i - 1)
  PROVE  Placed(Place(a, s[i]), s, i)
<1> DEFINE path == s[i]
           b == Place(a, path)
<1>0. path \in K /\ \A l \in 1..n : s[l] \in K /\ s[l] \in Text
  OBVIOUS
<1>1. PICK m \in 0..Len(a.stack) : Kept(a, path, m)
  BY <1>0, PlaceMeans
<1>2. /\ a.stack \in Seq(K) /\ DOMAIN a.of \in SUBSET K
      /\ \A j \in 1..Len(a.stack) : a.stack[j] \in DOMAIN a.of /\ a.stack[j] \in Text
      /\ Len(a.stack) \in Nat
  BY OpensMeans
<1>3. /\ m # 0 => IsUnder(path, a.stack[m])
      /\ \A j \in m + 1..Len(a.stack) : ~IsUnder(path, a.stack[j])
      /\ Len(b.stack) = m + 1 /\ b.stack[m + 1] = path
      /\ \A j \in 1..m : b.stack[j] = a.stack[j]
      /\ DOMAIN b.of = DOMAIN a.of \cup {path}
      /\ \A p \in DOMAIN a.of \ {path} : b.of[p] = a.of[p]
      /\ b.of[path] = IF m = 0 THEN path ELSE a.of[a.stack[1]]
  BY <1>1 DEF Kept
<1>4. /\ \A j \in 1..Len(a.stack) : \E l \in 1..i - 1 : a.stack[j] = s[l] /\ IsUnder(s[i - 1], s[l])
      /\ \A l \in 1..i - 1 : IsUnder(s[i - 1], s[l]) => \E j \in 1..Len(a.stack) : a.stack[j] = s[l]
      /\ \A j, l \in 1..Len(a.stack) : j < l => IsUnder(a.stack[l], a.stack[j])
  BY DEF Placed, StackRight
<1>5. DOMAIN a.of = {s[l] : l \in 1..i - 1}
  BY DEF Placed
<1>6. \A p \in DOMAIN a.of :
        /\ a.of[p] \in DOMAIN a.of /\ IsUnder(p, a.of[p])
        /\ \A q \in DOMAIN a.of : IsUnder(p, q) => IsUnder(q, a.of[p])
  BY DEF Placed, RootsRight
<1> HIDE DEF b, path
\* All that stay open contain the path, and all that contain it stay open.
<1>7. \A j \in 1..m : IsUnder(path, a.stack[j])
  <2> TAKE j \in 1..m
  <2>1. m \in 1..Len(a.stack) /\ j \in 1..Len(a.stack) /\ m # 0
    BY <1>2
  <2>2. CASE j = m
    BY <1>3, <2>1, <2>2
  <2>3. CASE j < m
    <3>1. IsUnder(a.stack[m], a.stack[j]) /\ IsUnder(path, a.stack[m])
      BY <1>3, <1>4, <2>1, <2>3
    <3>. QED  BY <3>1, <1>0, <1>2, <2>1, UnderTransitive
  <2>. QED  BY <2>2, <2>3
<1>8. ASSUME NEW l \in 1..i - 1, IsUnder(path, s[l])
      PROVE  \E j \in 1..m : a.stack[j] = s[l]
  <2>1. i - 1 \in 1..n /\ l \in 1..n /\ Before(s[i - 1], s[i]) /\ Before(s[l], s[i]) /\ path = s[i]
    BY DEF path
  <2>2. IsUnder(s[i - 1], s[l])
    <3>1. CASE l = i - 1
      BY <3>1, UnderItself
    <3>2. CASE l < i - 1
      <4>1. Before(s[l], s[i - 1])
        BY <2>1, <3>2
      <4>2. path # s[l]
        BY <1>0, <2>1, BeforeIrreflexive
      <4>. QED  BY <1>0, <1>8, <2>1, <4>1, <4>2, ContentsTogether
    <3>. QED  BY <3>1, <3>2
  <2>3. PICK j \in 1..Len(a.stack) : a.stack[j] = s[l]
    BY <1>4, <2>2
  <2>4. j \in 1..m
    BY <1>2, <1>3, <1>8, <2>3
  <2>. QED  BY <2>3, <2>4
<1>9. path \notin DOMAIN a.of /\ path = s[i]
  <2>1. ASSUME NEW l \in 1..i - 1, s[l] = s[i] PROVE FALSE
    <3>1. l \in 1..n /\ Before(s[l], s[i])
      OBVIOUS
    <3>. QED  BY <3>1, <2>1, <1>0, BeforeIrreflexive
  <2>. QED  BY <2>1, <1>5 DEF path
<1>10. StackRight(b, s, i)
  <2>1. ASSUME NEW j \in 1..m + 1 PROVE \E l \in 1..i : b.stack[j] = s[l] /\ IsUnder(s[i], s[l])
    <3>1. CASE j = m + 1
      BY <3>1, <1>3, <1>9, UnderItself
    <3>2. CASE j \in 1..m
      <4>1. j \in 1..Len(a.stack) /\ b.stack[j] = a.stack[j] /\ IsUnder(path, a.stack[j])
        BY <1>2, <1>3, <1>7, <3>2
      <4>2. PICK l \in 1..i - 1 : a.stack[j] = s[l]
        BY <1>4, <4>1
      <4>. QED  BY <4>1, <4>2, <1>9
    <3>. QED  BY <3>1, <3>2, <1>2
  <2>2. ASSUME NEW l \in 1..i, IsUnder(s[i], s[l]) PROVE \E j \in 1..m + 1 : b.stack[j] = s[l]
    <3>1. CASE l = i
      BY <3>1, <1>2, <1>3, <1>9
    <3>2. CASE l \in 1..i - 1
      <4>1. PICK j \in 1..m : a.stack[j] = s[l]
        BY <1>8, <1>9, <2>2, <3>2
      <4>2. j \in 1..m + 1 /\ b.stack[j] = s[l]
        BY <4>1, <1>2, <1>3
      <4>. QED  BY <4>2
    <3>. QED  BY <3>1, <3>2
  <2>3. ASSUME NEW j \in 1..m + 1, NEW l \in 1..m + 1, j < l PROVE IsUnder(b.stack[l], b.stack[j])
    <3>1. j \in 1..m /\ j \in 1..Len(a.stack) /\ b.stack[j] = a.stack[j]
      BY <1>2, <1>3, <2>3
    <3>2. CASE l = m + 1
      BY <3>1, <3>2, <1>3, <1>7
    <3>3. CASE l \in 1..m
      <4>1. l \in 1..Len(a.stack) /\ b.stack[l] = a.stack[l]
        BY <1>2, <1>3, <3>3
      <4>. QED  BY <3>1, <4>1, <1>4, <2>3
    <3>. QED  BY <3>2, <3>3, <1>2
  <2>. QED  BY <1>3, <2>1, <2>2, <2>3 DEF StackRight
<1>11. DOMAIN b.of = {s[l] : l \in 1..i}
  <2>1. {s[l] : l \in 1..i} = {s[l] : l \in 1..i - 1} \cup {s[i]}
    <3>1. \A l : l \in 1..i <=> l \in 1..i - 1 \/ l = i
      OBVIOUS
    <3>. QED  BY <3>1
  <2>. QED  BY <2>1, <1>3, <1>5, <1>9
<1>12. RootsRight(b.of)
  <2>0. DOMAIN b.of \subseteq Text /\ path \in Text
    BY <1>0, <1>2, <1>3
  <2>1. /\ b.of[path] \in DOMAIN b.of /\ IsUnder(path, b.of[path])
        /\ \A q \in DOMAIN b.of : IsUnder(path, q) => IsUnder(q, b.of[path])
    <3>1. ASSUME NEW q \in DOMAIN a.of, IsUnder(path, q) PROVE \E j \in 1..m : a.stack[j] = q
      BY <3>1, <1>5, <1>8
    <3>2. CASE m = 0
      <4>1. \A q \in DOMAIN a.of : ~IsUnder(path, q)
        BY <3>1, <3>2
      <4>2. b.of[path] = path
        BY <1>3, <3>2
      <4>. QED  BY <4>1, <4>2, <1>3, UnderItself
    <3>3. CASE m # 0
      <4> DEFINE top == a.stack[1]
      <4>1. 1 \in 1..m /\ 1 \in 1..Len(a.stack) /\ top \in DOMAIN a.of /\ IsUnder(path, top)
        BY <1>2, <1>7, <3>3
      <4>2. b.of[path] = a.of[top] /\ a.of[top] \in DOMAIN a.of /\ IsUnder(top, a.of[top])
        BY <1>3, <1>6, <3>3, <4>1
      <4>3. IsUnder(path, a.of[top])
        BY <1>2, <2>0, <1>3, <4>1, <4>2, UnderTransitive
      <4>4. ASSUME NEW q \in DOMAIN a.of, IsUnder(path, q) PROVE IsUnder(q, a.of[top])
        <5>1. PICK j \in 1..m : a.stack[j] = q
          BY <3>1, <4>4
        <5>2. CASE j = 1
          BY <4>2, <5>1, <5>2
        <5>3. CASE 1 < j
          <6>1. j \in 1..Len(a.stack)
            BY <1>2
          <6>2. IsUnder(q, top)
            BY <1>4, <4>1, <5>1, <5>3, <6>1
          <6>. QED  BY <6>2, <4>1, <4>2, <2>0, <1>3, UnderTransitive
        <5>. QED  BY <5>2, <5>3, <1>2
      <4> HIDE DEF top
      <4>. QED  BY <1>3, <4>2, <4>3, <4>4
    <3>. QED  BY <3>2, <3>3
  <2>2. ASSUME NEW p \in DOMAIN a.of
        PROVE  /\ b.of[p] \in DOMAIN b.of /\ IsUnder(p, b.of[p])
               /\ \A q \in DOMAIN b.of : IsUnder(p, q) => IsUnder(q, b.of[p])
    <3>1. b.of[p] = a.of[p] /\ p # path
      BY <1>3, <1>9
    <3>2. ~IsUnder(p, path)
      <4>1. PICK l \in 1..i - 1 : p = s[l]
        BY <1>5
      <4>2. l \in 1..n /\ Before(s[l], s[i])
        OBVIOUS
      <4>3. SUFFICES ASSUME IsUnder(p, path) PROVE FALSE
        OBVIOUS
      <4>4. Before(path, p)
        BY <4>3, <3>1, <2>0, <1>3, FolderFirst
      <4>5. Before(p, path)
        BY <4>1, <4>2, <1>9
      <4>6. p \in Text
        BY <2>0, <1>3
      <4>7. Before(p, p)
        BY <4>4, <4>5, <4>6, <2>0, BeforeTransitive
      <4>. QED  BY <4>6, <4>7, BeforeIrreflexive
    <3>. QED  BY <1>3, <1>6, <3>1, <3>2
  <2>3. \A p \in DOMAIN b.of : p = path \/ p \in DOMAIN a.of
    BY <1>3
  <2>. QED  BY <2>1, <2>2, <2>3 DEF RootsRight
<1>13. Placed(b, s, i)
  BY <1>10, <1>11, <1>12 DEF Placed
<1>. QED  BY <1>13, <1>9 DEF b

\* The roots shareClusters finds.
Roots(K) == PlaceAll(Nothing, InOrder(K)).of

LEMMA RootsMeans ==
  ASSUME NEW K, IsFiniteSet(K), K \in SUBSET Text
  PROVE  DOMAIN Roots(K) = K /\ RootsRight(Roots(K))
<1> DEFINE n == Cardinality(K)
           s == InOrder(K)
<1>1. /\ n \in Nat /\ s \in [1..n -> K]
      /\ \A k \in K : \E i \in 1..n : s[i] = k
      /\ \A i, j \in 1..n : i < j => Before(s[i], s[j])
  BY InOrderMeans
<1> HIDE DEF n, s
<1>2. \A a \in Opens(K), i \in 1..n : Place(a, s[i]) \in Opens(K)
  BY <1>1, PlaceMeans
<1>3. Nothing \in Opens(K) /\ DOMAIN s = 1..n
  BY <1>1, NothingOpens
<1>4. PICK g : PlaceSteps(g, n, s, Opens(K), Nothing)
  BY <1>1, <1>2, <1>3, FoldPlace
<1> DEFINE S == {i \in 0..n : Placed(g[i], s, i)}
<1>5. 0 \in S
  <2>1. g[0].stack = <<>> /\ DOMAIN g[0].of = {} /\ Len(g[0].stack) = 0
    BY <1>4 DEF Nothing, PlaceSteps
  <2>2. 1..0 = {} /\ {s[l] : l \in 1..0} = {} /\ 0 \in 0..n
    BY <1>1
  <2>3. Placed(g[0], s, 0)
    BY <2>1, <2>2 DEF Placed, StackRight, RootsRight
  <2>. QED  BY <2>2, <2>3
<1>6. ASSUME NEW i \in 0..n - 1, i \in S PROVE i + 1 \in S
  <2>1. i + 1 \in 1..n /\ (i + 1) - 1 = i /\ i \in 0..n /\ i + 1 \in 0..n
    BY <1>1
  <2>2. g[i + 1] = Place(g[i], s[i + 1]) /\ g[i] \in Opens(K) /\ Placed(g[i], s, (i + 1) - 1)
    BY <1>4, <1>6, <2>1 DEF PlaceSteps
  <2>3. Placed(g[i + 1], s, i + 1)
    BY <2>1, <2>2, <1>1, PlacedStep
  <2>. QED  BY <2>1, <2>3
<1>7. Placed(g[n], s, n)
  <2> HIDE DEF S
  <2>1. 0..n \subseteq S
    BY <1>1, <1>5, <1>6, UpTo
  <2>. QED  BY <2>1, <1>1 DEF S
<1>8. {s[l] : l \in 1..n} = K
  BY <1>1
<1>9. Roots(K) = g[n].of
  BY <1>4 DEF Roots, s, PlaceSteps
<1>. QED  BY <1>7, <1>8, <1>9 DEF Placed

-----------------------------------------------------------------------------
(* Clusters *)

\* A listing, its paths, and the downloads in the cluster of one of them.
Listing(list) == DOMAIN list \subseteq Hashes /\ \A h \in DOMAIN list : list[h] \in Torrent
Keys(list) == {list[h].path : h \in DOMAIN list} \ {NoPath}
Members(list, k) == {h \in DOMAIN list : list[h].path \in Keys(list) /\ Roots(Keys(list))[list[h].path] = k}

LEMMA ListingMeans ==
  ASSUME NEW list, Listing(list)
  PROVE  /\ IsFiniteSet(DOMAIN list)
         /\ \A h \in DOMAIN list : /\ list[h].path \in Text /\ list[h].path \in Paths
                                   /\ list[h].seeded \in Nat /\ list[h].asks \in Seq(Nat)
                                   /\ list[h].scanned \in BOOLEAN
  <1>1. IsFiniteSet(DOMAIN list)
    BY HashesAssumption, FS_Subset DEF Listing, HashesAssumption
  <1>. QED  BY <1>1, PathsAssumption DEF Listing, Torrent, Text, PathsAssumption

LEMMA PathsOf ==
  ASSUME NEW list, Listing(list), NEW S \in SUBSET DOMAIN list
  PROVE  IsFiniteSet({list[h].path : h \in S}) /\ {list[h].path : h \in S} \in SUBSET Text
<1> DEFINE P == {list[h].path : h \in S}
           f == [h \in S |-> list[h].path]
<1>1. IsFiniteSet(S)
  BY ListingMeans, FS_Subset
<1>2. f \in Surjection(S, P)
  BY DEF Surjection
<1>3. IsFiniteSet(P)
  <2> HIDE DEF f, P
  <2>. QED  BY <1>1, <1>2, FS_Surjection
<1>. QED  BY <1>3, ListingMeans

LEMMA KeysMeans ==
  ASSUME NEW list, Listing(list)
  PROVE  IsFiniteSet(Keys(list)) /\ Keys(list) \in SUBSET Text
<1>1. DOMAIN list \in SUBSET DOMAIN list
  OBVIOUS
<1> DEFINE P == {list[h].path : h \in DOMAIN list}
<1>2. IsFiniteSet(P) /\ P \in SUBSET Text
  BY <1>1, PathsOf
<1>3. Keys(list) \in SUBSET P
  BY DEF Keys
<1> HIDE DEF P
<1>. QED  BY <1>2, <1>3, FS_Subset

LEMMA ClustersAre ==
  ASSUME NEW list
  PROVE  ShareClusters(list) = {Members(list, k) : k \in Range(Roots(Keys(list)))}
BY DEF ShareClusters, Members, Keys, Roots, PlaceAll, Nothing

LEMMA RootsAgree ==
  ASSUME NEW K, IsFiniteSet(K), K \in SUBSET Text
  PROVE  /\ \A p, q \in K : IsUnder(q, p) => Roots(K)[p] = Roots(K)[q]
         /\ \A p \in K : /\ Roots(K)[p] \in K /\ IsUnder(p, Roots(K)[p])
                         /\ Roots(K)[Roots(K)[p]] = Roots(K)[p]
<1> DEFINE of == Roots(K)
<1>1. \A p \in K : of[p] \in K /\ IsUnder(p, of[p]) /\ \A q \in K : IsUnder(p, q) => IsUnder(q, of[p])
  BY RootsMeans DEF RootsRight
<1> HIDE DEF of
<1>2. ASSUME NEW p \in K, NEW q \in K, IsUnder(q, p) PROVE of[p] = of[q]
  <2>1. p \in Text /\ q \in Text /\ of[p] \in Text /\ of[q] \in Text /\ of[p] \in K /\ of[q] \in K
    BY <1>1
  <2>2. IsUnder(p, of[q])
    BY <1>1, <1>2
  <2>3. IsUnder(of[q], of[p])
    BY <1>1, <2>1, <2>2
  <2>4. IsUnder(q, of[p])
    BY <1>1, <1>2, <2>1, UnderTransitive
  <2>5. IsUnder(of[p], of[q])
    BY <1>1, <2>1, <2>4
  <2>. QED  BY <2>1, <2>3, <2>5, UnderAntisymmetric
<1>3. ASSUME NEW p \in K PROVE of[of[p]] = of[p]
  BY <1>1, <1>2
<1>. QED  BY <1>1, <1>2, <1>3 DEF of

\* Clusters are apart, hold what overlaps, and hang together through their root.
LEMMA ClustersMean ==
  ASSUME NEW list, Listing(list)
  PROVE  /\ \A c \in ShareClusters(list) :
              /\ c \in SUBSET DOMAIN list
              /\ \E r \in c : \A h \in c : /\ IsUnder(list[h].path, list[r].path)
                                           /\ list[h].path # NoPath
         /\ \A c, d \in ShareClusters(list) : c \cap d # {} => c = d
         /\ \A g, h \in DOMAIN list : Overlap(list[g].path, list[h].path) =>
              \E c \in ShareClusters(list) : g \in c /\ h \in c
<1> DEFINE K == Keys(list)
           of == Roots(K)
<1>1. IsFiniteSet(K) /\ K \in SUBSET Text
  BY KeysMeans
<1>2. /\ \A p, q \in K : IsUnder(q, p) => of[p] = of[q]
      /\ \A p \in K : of[p] \in K /\ IsUnder(p, of[p]) /\ of[of[p]] = of[p]
  BY <1>1, RootsAgree
<1>3. DOMAIN of = K
  BY <1>1, RootsMeans
<1>4. Range(of) = {of[p] : p \in K}
  BY <1>3 DEF Range
<1>5. ShareClusters(list) = {Members(list, k) : k \in Range(of)}
  BY ClustersAre
<1>6. \A k, h : h \in Members(list, k) <=> h \in DOMAIN list /\ list[h].path \in K /\ of[list[h].path] = k
  BY DEF Members
<1>7. \A p : p \in K <=> p # NoPath /\ \E h \in DOMAIN list : list[h].path = p
  BY DEF Keys
<1> HIDE DEF of, K
<1>8. ASSUME NEW c \in ShareClusters(list)
      PROVE  /\ c \in SUBSET DOMAIN list
             /\ \E r \in c : \A h \in c : /\ IsUnder(list[h].path, list[r].path)
                                          /\ list[h].path # NoPath
  <2>1. PICK p \in K : c = Members(list, of[p])
    BY <1>4, <1>5
  <2>2. PICK r \in DOMAIN list : list[r].path = of[p]
    BY <1>2, <1>7
  <2>3. r \in c
    BY <1>2, <1>6, <2>1, <2>2
  <2>4. \A h \in c : h \in DOMAIN list /\ IsUnder(list[h].path, list[r].path) /\ list[h].path # NoPath
    BY <1>2, <1>6, <1>7, <2>1, <2>2
  <2>. QED  BY <2>3, <2>4
<1>9. ASSUME NEW c \in ShareClusters(list), NEW d \in ShareClusters(list), c \cap d # {} PROVE c = d
  <2>1. PICK k : c = Members(list, k)
    BY <1>5
  <2>2. PICK l : d = Members(list, l)
    BY <1>5
  <2>3. k = l
    BY <1>6, <1>9, <2>1, <2>2
  <2>. QED  BY <2>1, <2>2, <2>3
<1>10. ASSUME NEW g \in DOMAIN list, NEW h \in DOMAIN list, Overlap(list[g].path, list[h].path)
       PROVE  \E c \in ShareClusters(list) : g \in c /\ h \in c
  <2>1. list[g].path \in K /\ list[h].path \in K
    BY <1>7, <1>10 DEF Overlap
  <2>2. of[list[g].path] = of[list[h].path]
    BY <1>2, <1>10, <2>1 DEF Overlap
  <2>3. Members(list, of[list[g].path]) \in ShareClusters(list)
    BY <1>4, <1>5, <2>1
  <2>. QED  BY <1>6, <2>1, <2>2, <2>3
<1>. QED  BY <1>8, <1>9, <1>10

LEMMA ClustersExactFor ==
  ASSUME Listing(seen)
  PROVE  ClustersExact
<1>1. ASSUME NEW c \in ShareClusters(seen), NEW S \in SUBSET c, S # {}, S # c
      PROVE  \E g \in S, h \in DOMAIN seen \ S : Overlap(seen[g].path, seen[h].path)
  <2>1. PICK r \in c : \A h \in c : /\ IsUnder(seen[h].path, seen[r].path)
                                    /\ seen[h].path # NoPath
    BY ClustersMean
  <2>2. c \in SUBSET DOMAIN seen
    BY ClustersMean
  <2>3. CASE r \in S
    <3>1. PICK h \in c \ S : TRUE
      BY <1>1
    <3>. QED  BY <2>1, <2>2, <2>3, <3>1 DEF Overlap
  <2>4. CASE r \notin S
    <3>1. PICK g \in S : TRUE
      BY <1>1
    <3>. QED  BY <2>1, <2>2, <2>4, <3>1 DEF Overlap
  <2>. QED  BY <2>3, <2>4
<1>2. ASSUME NEW g \in DOMAIN seen, NEW h \in DOMAIN seen, Overlap(seen[g].path, seen[h].path)
      PROVE  \E c \in ShareClusters(seen) : {g, h} \subseteq c
  <2>1. PICK c \in ShareClusters(seen) : g \in c /\ h \in c
    BY <1>2, ClustersMean
  <2>. QED  BY <2>1
<1>. QED  BY <1>1, <1>2 DEF ClustersExact

-----------------------------------------------------------------------------
(* What a plan holds *)

LEMMA SeqMeans ==
  ASSUME NEW A, NEW s \in Seq(A)
  PROVE  /\ ToSet(s) \in SUBSET A
         /\ s # <<>> => /\ Tail(s) \in Seq(A) /\ ToSet(Tail(s)) \subseteq ToSet(s)
                        /\ Head(s) \in ToSet(s) /\ Head(s) \in A
<1>1. DOMAIN s = 1..Len(s) /\ Len(s) \in Nat /\ \A i \in 1..Len(s) : s[i] \in A
  OBVIOUS
<1>2. ASSUME s # <<>>
      PROVE  /\ Tail(s) \in Seq(A) /\ Len(s) # 0
             /\ \A i \in DOMAIN Tail(s) : Tail(s)[i] = s[i + 1] /\ i + 1 \in 1..Len(s)
  BY <1>2
<1>3. ASSUME s # <<>> PROVE ToSet(Tail(s)) \subseteq ToSet(s)
  BY <1>1, <1>2, <1>3 DEF ToSet
<1>4. ASSUME s # <<>> PROVE Head(s) \in ToSet(s)
  <2>1. Head(s) = s[1] /\ 1 \in DOMAIN s
    BY <1>1, <1>2, <1>4
  <2>. QED  BY <2>1 DEF ToSet
<1>. QED  BY <1>1, <1>2, <1>3, <1>4 DEF ToSet

LEMMA RemovalsFinite ==
  ASSUME NEW list, Listing(list), NEW finished
  PROVE  IsFiniteSet(AllRemovals(list, finished))
<1> DEFINE C == {c \in ShareClusters(list) : c \cap finished # {}}
           f == [c \in C |-> RemovalOf(list, c, finished)]
<1>1. IsFiniteSet(SUBSET DOMAIN list)
  BY ListingMeans, FS_SUBSET
<1>2. C \in SUBSET SUBSET DOMAIN list
  BY ClustersMean
<1>3. f \in Surjection(C, AllRemovals(list, finished))
  BY DEF AllRemovals, Surjection
<1> HIDE DEF f, C
<1>4. IsFiniteSet(C)
  BY <1>1, <1>2, FS_Subset
<1>. QED  BY <1>3, <1>4, FS_Surjection

\* However the cap falls, a plan is made of the removals there are.
LEMMA PlansMean ==
  ASSUME NEW list, Listing(list), NEW imports, NEW folders,
         NEW plan \in Plans(list, imports, folders)
  PROVE  plan \in Seq(AllRemovals(list, Removable(list, imports, folders)))
<1> DEFINE all == AllRemovals(list, Removable(list, imports, folders))
           n == Cardinality(all)
<1>1. PICK order \in SetToSeqs(all) : plan = FoldLeft(WithinCap, <<>>, order)
  BY DEF Plans
<1>2. IsFiniteSet(all)
  BY RemovalsFinite
<1> HIDE DEF all
<1>3. n \in Nat /\ order \in [1..n -> all]
  BY <1>2, SeqsOf
<1>4. \A taken \in Seq(all), i \in 1..n : WithinCap(taken, order[i]) \in Seq(all)
  BY <1>3 DEF WithinCap
<1>5. <<>> \in Seq(all) /\ DOMAIN order = 1..n
  BY <1>3
<1> HIDE DEF n
<1>6. PICK g : WithinCapSteps(g, n, order, Seq(all), <<>>)
  BY <1>3, <1>4, <1>5, FoldWithinCap
<1>7. g[n] = WithinCapAll(<<>>, order) /\ g[n] \in Seq(all)
  BY <1>3, <1>6 DEF WithinCapSteps
<1>. QED  BY <1>1, <1>7 DEF WithinCapAll, all

\* A removal is of finished downloads of one cluster, at the path of one of them,
\* and takes the files only if all of the cluster go.
LEMMA RemovalMeans ==
  ASSUME NEW list, Listing(list), NEW finished \in SUBSET DOMAIN list,
         NEW r \in AllRemovals(list, finished)
  PROVE  \E c \in ShareClusters(list) :
           /\ r.hashes = c \cap finished /\ r.hashes # {}
           /\ r.files <=> c \subseteq finished
           /\ \E g \in r.hashes : r.path = list[g].path
<1>1. PICK c \in ShareClusters(list) : c \cap finished # {} /\ r = RemovalOf(list, c, finished)
  BY DEF AllRemovals
<1> DEFINE S == c \cap finished
           P == {list[h].path : h \in S}
<1>2. /\ r.hashes = S /\ r.files = (c \subseteq finished) /\ r.path = InOrder(P)[1]
  BY <1>1 DEF RemovalOf
<1>3. S \in SUBSET DOMAIN list /\ P # {}
  BY <1>1
<1>4. IsFiniteSet(P) /\ P \in SUBSET Text
  BY <1>3, PathsOf
<1> HIDE DEF P
<1>5. Cardinality(P) \in Nat /\ InOrder(P) \in [1..Cardinality(P) -> P] /\ Cardinality(P) # 0
  BY <1>3, <1>4, InOrderMeans, FS_EmptySet
<1>6. InOrder(P)[1] \in P
  BY <1>5
<1>7. \E g \in S : r.path = list[g].path
  BY <1>2, <1>6 DEF P
<1>. QED  BY <1>1, <1>2, <1>7

-----------------------------------------------------------------------------
(* What a download's trackers ask for *)

\* What each tracker heard so far asks for is kept.
Heard(a, asks, i) ==
  /\ a.first => i = 0
  /\ ~a.forever => \A j \in 1..i : asks[j] # 0 /\ asks[j] <= a.days

LEMMA StrictestOfAll ==
  ASSUME NEW asks \in Seq(Nat), asks # <<>>, ~Requirement(asks).forever
  PROVE  /\ Requirement(asks).days \in Nat
         /\ \A i \in DOMAIN asks : asks[i] # 0 /\ asks[i] <= Requirement(asks).days
<1> DEFINE A == [days : Nat, forever : BOOLEAN, first : BOOLEAN]
           base == [days |-> 0, forever |-> FALSE, first |-> TRUE]
           n == Len(asks)
<1>1. n \in Nat /\ DOMAIN asks = 1..n /\ \A i \in 1..n : asks[i] \in Nat
  OBVIOUS
<1>2. base \in A 
  OBVIOUS
<1>3. \A a \in A, i \in 1..n : Stricter(a, asks[i]) \in A
  BY <1>1 DEF Stricter
<1>4. Requirement(asks) = StricterAll(base, asks)
  BY DEF Requirement, StricterAll
<1>5. \A a \in A : a.days \in Nat /\ a.forever \in BOOLEAN /\ a.first \in BOOLEAN
  OBVIOUS
<1> HIDE DEF A, base, n
<1>6. PICK g : StricterSteps(g, n, asks, A, base)
  BY <1>1, <1>2, <1>3, FoldStricter
<1>7. /\ g[0] = base /\ g[n] = Requirement(asks)
      /\ \A i \in 0..n : g[i] \in A
      /\ \A i \in 1..n : g[i] = Stricter(g[i - 1], asks[i])
  BY <1>4, <1>6 DEF StricterSteps
<1> DEFINE S == {i \in 0..n : Heard(g[i], asks, i)}
<1>8. 0 \in S
  <2>1. Heard(g[0], asks, 0)
    BY <1>2, <1>7 DEF Heard
  <2>. QED  BY <2>1, <1>1
<1>9. ASSUME NEW i \in 0..n - 1, i \in S PROVE i + 1 \in S
  <2>1. i + 1 \in 1..n /\ i \in 0..n /\ i + 1 \in 0..n /\ (i + 1) - 1 = i
    BY <1>1
  <2> DEFINE a == g[i]  b == g[i + 1]  days == asks[i + 1]
  <2>2. a \in A /\ b \in A /\ b = Stricter(a, days) /\ Heard(a, asks, i) /\ days \in Nat
    BY <1>1, <1>7, <1>9, <2>1
  <2>3. a.days \in Nat /\ b.days \in Nat /\ a.forever \in BOOLEAN /\ a.first \in BOOLEAN
    BY <1>5, <2>2
  <2> HIDE DEF a, b
  <2>4. /\ b.first = FALSE
        /\ ~b.forever => ~a.forever /\ days # 0
        /\ b.days = IF ~a.forever /\ days # 0 /\ (a.first \/ days > a.days) THEN days ELSE a.days
    BY <2>2 DEF Stricter
  <2>5. ASSUME ~b.forever, NEW j \in 1..i + 1 PROVE asks[j] # 0 /\ asks[j] <= b.days
    <3>1. ~a.forever /\ days # 0
      BY <2>4, <2>5
    <3>2. CASE j = i + 1
      BY <2>2, <2>3, <2>4, <3>1, <3>2
    <3>3. CASE j \in 1..i
      <4>1. asks[j] # 0 /\ asks[j] <= a.days /\ ~a.first
        BY <2>1, <2>2, <3>1, <3>3 DEF Heard
      <4>2. asks[j] \in Nat
        BY <1>1, <2>1, <3>3
      <4>. QED  BY <2>2, <2>3, <2>4, <3>1, <4>1, <4>2
    <3>. QED  BY <3>2, <3>3, <2>1
  <2>6. Heard(b, asks, i + 1)
    BY <2>1, <2>4, <2>5 DEF Heard
  <2>. QED  BY <2>1, <2>6 DEF b
<1>10. Heard(g[n], asks, n)
  <2> HIDE DEF S
  <2>1. 0..n \subseteq S
    BY <1>1, <1>8, <1>9, UpTo
  <2>. QED  BY <2>1, <1>1 DEF S
<1>11. g[n] \in A
  BY <1>1, <1>7
<1>. QED  BY <1>1, <1>5, <1>7, <1>10, <1>11 DEF Heard

\* Each tracker of a download that has met its requirement is satisfied.
LEMMA MetMeans ==
  ASSUME NEW list, Listing(list), NEW h \in DOMAIN list, Met(list[h])
  PROVE  LET t == list[h] IN
         IF t.asks = <<>> THEN MinSeedDays # 0 /\ t.seeded >= MinSeedDays + Grace
         ELSE \A i \in DOMAIN t.asks : t.asks[i] # 0 /\ t.seeded >= t.asks[i] + Grace
<1> DEFINE t == list[h]
<1>1. t.asks \in Seq(Nat) /\ t.seeded \in Nat /\ MinSeedDays \in Nat /\ Grace \in Nat
  BY ListingMeans, NumbersAssumption DEF NumbersAssumption
<1> HIDE DEF t
<1>2. ~Requirement(t.asks).forever /\ t.seeded >= Requirement(t.asks).days + Grace
  BY DEF Met, t
<1>3. CASE t.asks = <<>>
  BY <1>2, <1>3 DEF Requirement, t
<1>4. CASE t.asks # <<>>
  <2>1. ASSUME NEW i \in DOMAIN t.asks PROVE t.asks[i] # 0 /\ t.seeded >= t.asks[i] + Grace
    <3>1. /\ Requirement(t.asks).days \in Nat /\ t.asks[i] # 0
          /\ t.asks[i] <= Requirement(t.asks).days
      BY <1>1, <1>2, <1>4, StrictestOfAll
    <3>2. t.asks[i] \in Nat
      BY <1>1
    <3>. QED  BY <1>1, <1>2, <3>1, <3>2
  <2>. QED  BY <1>4, <2>1 DEF t
<1>. QED  BY <1>3, <1>4

-----------------------------------------------------------------------------
(* What the page shows and the run carries out *)

\* What is still to do comes from one plan of the listing and the folders it was
\* made from.
Planned ==
  \E finished \in SUBSET Removable(seen, Hashes, seenLibrary) :
    todo \in Seq(AllRemovals(seen, finished))

Phases ==
  /\ at \in {"checking", "deleting", "verifying"} => todo # <<>>
  /\ at \in {"idle", "rendering", "shown", "planning"} => removed = {} /\ todo = <<>>
  /\ at \in {"idle", "rendering"} => shown = NotAsked

AsShown == shown # NotAsked => RemovalList(todo) \subseteq shown

PlanInv ==
  /\ Listing(torrents) /\ Listing(seen)
  /\ Planned /\ Phases
  /\ AsShown /\ ConfirmedOnly

LEMMA NoRemovals == ASSUME NEW A PROVE <<>> \in Seq(A) /\ ToSet(<<>>) = {} /\ RemovalList(<<>>) = {}
BY DEF ToSet, RemovalList

LEMMA InitPlan == Init => PlanInv
<1> SUFFICES ASSUME Init PROVE PlanInv
  OBVIOUS
<1>1. Listing(torrents)
  BY TorrentsAssumption DEF Init, Listing, TorrentsAssumption
<1>2. Listing(seen)
  BY DEF Init, Listing
<1>3. Planned
  BY NoRemovals DEF Init, Planned
<1>4. Phases /\ AsShown /\ ConfirmedOnly
  BY DEF Init, Phases, AsShown, ConfirmedOnly
<1>. QED  BY <1>1, <1>2, <1>3, <1>4 DEF PlanInv

\* What others and qBittorrent make of the list stays one.
LEMMA StepListing == Listing(torrents) /\ [Next]_vars => Listing(torrents)'
<1> SUFFICES ASSUME Listing(torrents), [Next]_vars PROVE Listing(torrents)'
  OBVIOUS
<1>1. CASE UNCHANGED torrents
  BY <1>1 DEF Listing
<1>2. CASE Deleted \/ TakenOut
  <2>1. PICK D \in SUBSET DOMAIN torrents : torrents' = Restrict(torrents, D)
    BY <1>2 DEF Deleted, TakenOut
  <2>. QED  BY <2>1 DEF Restrict, Listing
<1>3. CASE Arrives
  BY <1>3, TorrentsAssumption DEF Arrives, Listing, TorrentsAssumption
<1>4. CASE Relocates
  <2>1. PICK h \in DOMAIN torrents, p \in Paths : torrents' = [torrents EXCEPT ![h].path = p]
    BY <1>4 DEF Relocates
  <2>2. [torrents[h] EXCEPT !.path = p] \in Torrent
    BY DEF Listing, Torrent
  <2>. QED  BY <2>1, <2>2 DEF Listing
<1>5. CASE Rechecks
  <2>1. PICK h \in DOMAIN torrents, back \in BOOLEAN :
          torrents' = [torrents EXCEPT ![h].seeding = back, ![h].seeded = 0]
    BY <1>5 DEF Rechecks
  <2>2. torrents[h] \in Torrent
    BY DEF Listing
  <2>3. DOMAIN torrents' = DOMAIN torrents /\ \A g \in DOMAIN torrents \ {h} : torrents'[g] = torrents[g]
    BY <2>1
  <2>4. torrents'[h] = [torrents[h] EXCEPT !.seeding = back, !.seeded = 0]
    BY <2>1
  <2>5. [torrents[h] EXCEPT !.seeding = back, !.seeded = 0] \in Torrent
    BY <2>2 DEF Torrent
  <2>. QED  BY <2>3, <2>4, <2>5 DEF Listing
<1>6. UNCHANGED torrents \/ Deleted \/ TakenOut \/ Arrives \/ Relocates \/ Rechecks
  BY DEF Next, vars, world, OpenPage, RemoveNow, Scheduled, ListTorrents, ShowPage, PlanRun, PlanFails,
         Check, Refuse, RequestFails, Delete, DeleteUnanswered, DeleteIgnored, Logged, StillListed,
         Imports, LibraryTakes
<1>. QED  BY <1>1, <1>2, <1>3, <1>4, <1>5, <1>6

LEMMA RemovableWithin ==
  ASSUME NEW list, Listing(list), NEW imports, NEW folders
  PROVE  Removable(list, imports, folders) \in SUBSET Removable(list, Hashes, folders)
BY DEF Removable, Listing

\* What Current is, while there is anything to do.
LEMMA CurrentMeans ==
  ASSUME PlanInv, todo # <<>>
  PROVE  /\ Current \in ToSet(todo)
         /\ RemovalList(Tail(todo)) \subseteq RemovalList(todo)
         /\ shown # NotAsked => [hashes |-> Current.hashes, files |-> Current.files] \in shown
<1>1. PICK finished \in SUBSET Removable(seen, Hashes, seenLibrary) : todo \in Seq(AllRemovals(seen, finished))
  BY DEF PlanInv, Planned
<1>2. ToSet(Tail(todo)) \subseteq ToSet(todo) /\ Current \in ToSet(todo)
  BY <1>1, SeqMeans DEF Current
<1>3. [hashes |-> Current.hashes, files |-> Current.files] \in RemovalList(todo)
  BY <1>2 DEF RemovalList
<1>. QED  BY <1>2, <1>3 DEF RemovalList, PlanInv, AsShown

\* The run's part, when a removal is over.
LEMMA NextRemovalPlan ==
  ASSUME PlanInv, todo # <<>>, NextRemoval
  PROVE  Planned' /\ AsShown' /\ at' \in {"checking", "over"} /\ (at' = "checking" => todo' # <<>>)
<1>1. PICK finished \in SUBSET Removable(seen, Hashes, seenLibrary) : todo \in Seq(AllRemovals(seen, finished))
  BY DEF PlanInv, Planned
<1>2. todo' \in Seq(AllRemovals(seen, finished)) /\ seen' = seen /\ seenLibrary' = seenLibrary
  BY <1>1, SeqMeans DEF NextRemoval
<1>3. Planned'
  BY <1>2 DEF Planned
<1>4. AsShown'
  BY CurrentMeans DEF NextRemoval, PlanInv, AsShown
<1>. QED  BY <1>3, <1>4 DEF NextRemoval

\* What is deleted was shown.
LEMMA DeletedShown ==
  ASSUME PlanInv, todo # <<>>, Deleted, shown' = shown
  PROVE  ConfirmedOnly'
<1>1. shown # NotAsked => [hashes |-> Current.hashes, files |-> Current.files] \in shown
  BY CurrentMeans
<1>2. removed' = removed \cup {[hash |-> h, files |-> Current.files] : h \in Current.hashes \cap DOMAIN torrents}
  BY DEF Deleted
<1>3. SUFFICES ASSUME shown # NotAsked, NEW x \in removed'
               PROVE  \E s \in shown : x.hash \in s.hashes /\ x.files = s.files
  BY DEF ConfirmedOnly
<1>4. CASE x \in removed
  BY <1>3, <1>4 DEF PlanInv, ConfirmedOnly
<1>5. CASE x \notin removed
  <2>1. PICK h \in Current.hashes : x = [hash |-> h, files |-> Current.files]
    BY <1>2, <1>5
  <2>. QED  BY <1>1, <1>3, <2>1
<1>. QED  BY <1>4, <1>5

LEMMA StepPlan == PlanInv /\ [Next]_vars => PlanInv'
<1> SUFFICES ASSUME PlanInv, [Next]_vars PROVE PlanInv'
  OBVIOUS
<1>0. Listing(torrents)'
  BY StepListing DEF PlanInv
\* Nothing of the run's moves.
<1>1. CASE UNCHANGED <<at, shown, seen, seenLibrary, todo, removed>>
  <2>1. Listing(seen)' /\ Planned' /\ Phases' /\ AsShown' /\ ConfirmedOnly'
    BY <1>1 DEF PlanInv, Listing, Planned, Phases, AsShown, ConfirmedOnly
  <2>. QED  BY <1>0, <2>1 DEF PlanInv
<1>2. CASE OpenPage \/ RemoveNow \/ Scheduled
  <2>1. /\ at \in {"idle", "shown"} /\ at' \in {"rendering", "planning"} /\ seen' = torrents
        /\ at' = "rendering" => at = "idle"
        /\ UNCHANGED <<shown, seenLibrary, todo, removed>>
    BY <1>2 DEF OpenPage, RemoveNow, Scheduled, ListTorrents, done
  <2>2. todo = <<>> /\ removed = {} /\ (at = "idle" => shown = NotAsked)
    BY <2>1 DEF PlanInv, Phases
  <2>3. Planned'
    BY <2>1, <2>2, NoRemovals DEF Planned
  <2>4. Listing(seen)' /\ Phases' /\ AsShown' /\ ConfirmedOnly'
    BY <2>1, <2>2 DEF PlanInv, Listing, Phases, AsShown, ConfirmedOnly
  <2>. QED  BY <1>0, <2>3, <2>4 DEF PlanInv
<1>3. CASE ShowPage
  <2>1. /\ at = "rendering" /\ at' = "shown"
        /\ UNCHANGED <<seen, seenLibrary, todo, removed>>
    BY <1>3 DEF ShowPage, done
  <2>2. todo = <<>> /\ removed = {}
    BY <2>1 DEF PlanInv, Phases
  <2>3. Planned' /\ Listing(seen)'
    BY <2>1 DEF PlanInv, Planned, Listing
  <2>4. Phases' /\ AsShown' /\ ConfirmedOnly'
    BY <2>1, <2>2, NoRemovals DEF Phases, AsShown, ConfirmedOnly
  <2>. QED  BY <1>0, <2>3, <2>4 DEF PlanInv
<1>4. CASE PlanRun
  <2>1. PICK plan \in Plans(seen, imported, library) :
          IF shown # NotAsked /\ RemovalList(plan) # shown THEN todo' = <<>> ELSE todo' = plan
    BY <1>4 DEF PlanRun
  <2>2. /\ at = "planning" /\ at' = IF todo' = <<>> THEN "over" ELSE "checking"
        /\ seenLibrary' = library /\ UNCHANGED <<seen, shown, removed>>
    BY <1>4 DEF PlanRun, done
  <2>3. plan \in Seq(AllRemovals(seen, Removable(seen, imported, library)))
    BY PlansMean DEF PlanInv
  <2>4. Removable(seen, imported, library) \in SUBSET Removable(seen, Hashes, library)
    BY RemovableWithin DEF PlanInv
  <2>5. todo' \in Seq(AllRemovals(seen, Removable(seen, imported, library)))
    BY <2>1, <2>3, NoRemovals
  <2>6. Planned' /\ Listing(seen)'
    BY <2>2, <2>4, <2>5 DEF Planned, PlanInv, Listing
  <2>7. AsShown'
    BY <2>1, <2>2, NoRemovals DEF AsShown
  <2>8. Phases' /\ ConfirmedOnly'
    BY <2>2 DEF PlanInv, Phases, ConfirmedOnly
  <2>. QED  BY <1>0, <2>6, <2>7, <2>8 DEF PlanInv
<1>5. CASE PlanFails
  <2>1. at' = "over" /\ UNCHANGED <<shown, seen, seenLibrary, todo, removed>>
    BY <1>5 DEF PlanFails, done
  <2>2. Listing(seen)' /\ Planned' /\ Phases' /\ AsShown' /\ ConfirmedOnly'
    BY <2>1 DEF PlanInv, Listing, Planned, Phases, AsShown, ConfirmedOnly
  <2>. QED  BY <1>0, <2>2 DEF PlanInv
<1>6. CASE Check \/ DeleteIgnored
  <2>1. /\ at \in {"checking", "deleting"} /\ at' \in {"deleting", "verifying"}
        /\ UNCHANGED <<shown, seen, seenLibrary, todo, removed>>
    BY <1>6 DEF Check, DeleteIgnored, done
  <2>2. Listing(seen)' /\ Planned' /\ Phases' /\ AsShown' /\ ConfirmedOnly'
    BY <2>1 DEF PlanInv, Listing, Planned, Phases, AsShown, ConfirmedOnly
  <2>. QED  BY <1>0, <2>2 DEF PlanInv
<1>7. CASE Delete
  <2>1. /\ at = "deleting" /\ at' = "verifying" /\ Deleted
        /\ UNCHANGED <<shown, seen, seenLibrary, todo>>
    BY <1>7 DEF Delete
  <2>2. ConfirmedOnly'
    BY <2>1, DeletedShown DEF PlanInv, Phases
  <2>3. Listing(seen)' /\ Planned' /\ Phases' /\ AsShown'
    BY <2>1 DEF PlanInv, Listing, Planned, Phases, AsShown
  <2>. QED  BY <1>0, <2>2, <2>3 DEF PlanInv
\* A removal is over.
<1>8. CASE Refuse \/ RequestFails \/ DeleteUnanswered \/ Logged \/ StillListed
  <2>1. at \in {"checking", "deleting", "verifying"} /\ NextRemoval /\ (removed' = removed \/ Deleted)
    BY <1>8 DEF Refuse, RequestFails, DeleteUnanswered, Logged, StillListed, done
  <2>2. todo # <<>>
    BY <2>1 DEF PlanInv, Phases
  <2>3. Planned' /\ AsShown' /\ Phases'
    BY <2>1, <2>2, NextRemovalPlan DEF Phases
  <2>4. shown' = shown /\ seen' = seen
    BY <2>1 DEF NextRemoval
  <2>5. ConfirmedOnly'
    <3>1. CASE removed' = removed
      BY <2>4, <3>1 DEF PlanInv, ConfirmedOnly
    <3>2. CASE Deleted
      BY <2>2, <2>4, <3>2, DeletedShown
    <3>. QED  BY <2>1, <3>1, <3>2
  <2>6. Listing(seen)'
    BY <2>4 DEF PlanInv, Listing
  <2>. QED  BY <1>0, <2>3, <2>5, <2>6 DEF PlanInv
<1>9. CASE Arrives \/ Relocates \/ Rechecks \/ TakenOut \/ Imports \/ LibraryTakes
  <2>1. UNCHANGED <<at, shown, seen, seenLibrary, todo, removed>>
    BY <1>9 DEF Arrives, Relocates, Rechecks, TakenOut, Imports, LibraryTakes, Others, run, done
  <2>. QED  BY <1>1, <2>1
<1>10. CASE UNCHANGED vars
  BY <1>1, <1>10 DEF vars, run, done
<1>. QED
  BY <1>2, <1>3, <1>4, <1>5, <1>6, <1>7, <1>8, <1>9, <1>10 DEF Next

\* However many downloads there are, and wherever they are, shareClusters' one
\* walk over the sorted paths finds exactly the downloads that share files.
THEOREM ClustersExactHolds == Spec => []ClustersExact
<1>1. PlanInv => ClustersExact
  BY ClustersExactFor DEF PlanInv
<1>. QED  BY <1>1, InitPlan, StepPlan, PTL DEF Spec

LEMMA TrackersSatisfied == PlanInv => EveryTrackerSatisfied
<1> SUFFICES ASSUME PlanInv, NEW r \in ToSet(todo), NEW h \in r.hashes
             PROVE  LET t == seen[h] IN
                      IF t.asks = <<>> THEN MinSeedDays # 0 /\ t.seeded >= MinSeedDays + Grace
                      ELSE \A i \in DOMAIN t.asks : t.asks[i] # 0 /\ t.seeded >= t.asks[i] + Grace
  BY DEF EveryTrackerSatisfied
<1>1. PICK finished \in SUBSET Removable(seen, Hashes, seenLibrary) : todo \in Seq(AllRemovals(seen, finished))
  BY DEF PlanInv, Planned
<1>2. finished \in SUBSET DOMAIN seen /\ \A g \in finished : Met(seen[g])
  BY <1>1 DEF Removable
<1>3. r \in AllRemovals(seen, finished)
  BY <1>1, SeqMeans
<1>4. h \in finished
  BY <1>2, <1>3, RemovalMeans DEF PlanInv
<1>. QED  BY <1>2, <1>4, MetMeans DEF PlanInv

\* No download is about to be removed that any of its trackers, however many and
\* in whatever order, still wants seeded.
THEOREM EveryTrackerSatisfiedHolds == Spec => []EveryTrackerSatisfied
BY InitPlan, StepPlan, TrackersSatisfied, PTL DEF Spec

\* Whatever changes between the page and the click, and whichever of its
\* requests fail, Remove now removes only what the page showed, and deletes files
\* only where the page said so.
THEOREM ConfirmedOnlyHolds == Spec => []ConfirmedOnly
<1>1. PlanInv => ConfirmedOnly
  BY DEF PlanInv
<1>. QED  BY <1>1, InitPlan, StepPlan, PTL DEF Spec

-----------------------------------------------------------------------------
(* Whose files go *)

LEMMA UnderDeleted ==
  ASSUME PlanInv, todo # <<>>, Deleted, InPlace
  PROVE  /\ \A h \in lost' \ lost : h \notin DOMAIN seen \/ seen[h].path # torrents[h].path
         /\ \A folder \in lostLibrary' \ lostLibrary : folder \notin seenLibrary
<1>1. PICK finished \in SUBSET Removable(seen, Hashes, seenLibrary) : todo \in Seq(AllRemovals(seen, finished))
  BY DEF PlanInv, Planned
<1>2. /\ finished \in SUBSET DOMAIN seen
      /\ \A g \in finished, folder \in seenLibrary : ~Overlap(seen[g].path, folder)
  BY <1>1 DEF Removable
<1>3. Current \in AllRemovals(seen, finished)
  BY <1>1, SeqMeans DEF Current
<1>4. PICK c \in ShareClusters(seen) :
        /\ Current.hashes = c \cap finished
        /\ Current.files <=> c \subseteq finished
        /\ \E g \in Current.hashes : Current.path = seen[g].path
  BY <1>2, <1>3, RemovalMeans DEF PlanInv
<1>5. PICK g \in Current.hashes : Current.path = seen[g].path
  BY <1>4
\* What is hit is hit at the path the plan found.
<1>6. ASSUME NEW path, \E p \in (IF Current.files THEN {torrents[h].path : h \in Current.hashes \cap DOMAIN torrents}
                                 ELSE {}) : Overlap(p, path)
      PROVE  Current.files /\ Overlap(seen[g].path, path)
  BY <1>5, <1>6 DEF InPlace
<1>7. ASSUME NEW h \in lost' \ lost, h \in DOMAIN seen, seen[h].path = torrents[h].path PROVE FALSE
  <2>1. /\ h \in DOMAIN torrents \ (Current.hashes \cap DOMAIN torrents)
        /\ Current.files /\ Overlap(seen[g].path, torrents[h].path)
    BY <1>6, <1>7 DEF Deleted
  <2>2. g \in c /\ g \in DOMAIN seen
    BY <1>2, <1>4
  <2>3. PICK d \in ShareClusters(seen) : g \in d /\ h \in d
    BY <2>1, <2>2, <1>7, ClustersMean DEF PlanInv
  <2>4. d = c
    BY <2>2, <2>3, ClustersMean DEF PlanInv
  <2>5. h \in Current.hashes
    BY <1>4, <2>1, <2>3, <2>4
  <2>. QED  BY <2>1, <2>5
<1>8. ASSUME NEW folder \in lostLibrary' \ lostLibrary, folder \in seenLibrary PROVE FALSE
  <2>1. Overlap(seen[g].path, folder)
    BY <1>6, <1>8 DEF Deleted
  <2>2. g \in finished
    BY <1>4
  <2>. QED  BY <1>2, <1>8, <2>1, <2>2
<1>. QED  BY <1>7, <1>8

LEMMA OwnFilesStep ==
  PlanInv /\ [Next]_vars =>
    [/\ \A h \in lost' \ lost :
          ~InPlace \/ h \notin DOMAIN seen \/ seen[h].path # torrents[h].path
     /\ \A folder \in lostLibrary' \ lostLibrary :
          ~InPlace \/ folder \notin seenLibrary]_vars
<1> SUFFICES ASSUME PlanInv, Next, InPlace
             PROVE  /\ \A h \in lost' \ lost : h \notin DOMAIN seen \/ seen[h].path # torrents[h].path
                    /\ \A folder \in lostLibrary' \ lostLibrary : folder \notin seenLibrary
  OBVIOUS
<1>1. CASE UNCHANGED <<lost, lostLibrary>>
  BY <1>1
<1>2. CASE Delete \/ DeleteUnanswered
  <2>1. Deleted /\ todo # <<>>
    BY <1>2 DEF Delete, DeleteUnanswered, PlanInv, Phases
  <2>. QED  BY <2>1, UnderDeleted
<1>3. UNCHANGED <<lost, lostLibrary>> \/ Delete \/ DeleteUnanswered
  BY DEF Next, done, OpenPage, RemoveNow, Scheduled, ListTorrents, ShowPage, PlanRun, PlanFails,
         Check, Refuse, RequestFails, DeleteIgnored, Logged, StillListed,
         Arrives, Relocates, Rechecks, TakenOut, Imports, LibraryTakes, Others
<1>. QED  BY <1>1, <1>2, <1>3

\* Whatever shares files with whatever, and whatever comes or moves while a
\* removal goes on, no download and no library folder that is where the plan
\* found it loses files to the removal of another.
THEOREM OnlyItsOwnFilesHolds == Spec => OnlyItsOwnFiles
BY InitPlan, StepPlan, OwnFilesStep, PTL DEF Spec, OnlyItsOwnFiles

-----------------------------------------------------------------------------
(* What the log says *)

\* Gone by Coldarr's hand or another's, or listed still.
Accounted(h, files) ==
  \/ h \in DOMAIN torrents
  \/ h \in takenOut
  \/ [hash |-> h, files |-> files] \in removed

\* The check has seen every download of the removal in the list, and nothing
\* leaves the list unaccounted for.
IInv ==
  /\ LogIsTrue
  /\ at \in {"deleting", "verifying"} =>
       \A h \in Current.hashes : Accounted(h, Current.files)

-----------------------------------------------------------------------------

\* What a request to delete leaves accounted for, whatever becomes of its answer.
LEMMA DeletedAccounts ==
  ASSUME IInv, at = "deleting", Deleted, todo' = todo
  PROVE  /\ \A x \in log' : x \in removed' \/ x.hash \in takenOut'
         /\ \A h \in Current.hashes : Accounted(h, Current.files)'
<1>1. ASSUME NEW h \in Current.hashes
      PROVE  Accounted(h, Current.files)'
  <2>1. Accounted(h, Current.files)
    BY DEF IInv
  <2>2. takenOut' = takenOut /\ removed \subseteq removed' /\ Current' = Current
    BY DEF Deleted, Current
  <2>3. CASE h \in DOMAIN torrents
    BY <2>2, <2>3 DEF Deleted, Accounted
  <2>4. CASE h \notin DOMAIN torrents
    BY <2>1, <2>2, <2>4 DEF Accounted
  <2>. QED  BY <2>3, <2>4
<1>2. log' = log /\ takenOut' = takenOut /\ removed \subseteq removed'
  BY DEF Deleted
<1>. QED  BY <1>1, <1>2 DEF IInv, LogIsTrue

LEMMA InitInv == Init => IInv
BY DEF Init, IInv, LogIsTrue

LEMMA StepInv == IInv /\ [Next]_vars => IInv'
<1> SUFFICES ASSUME IInv, [Next]_vars
             PROVE  IInv'
  OBVIOUS
<1>1. CASE UNCHANGED vars
  BY <1>1 DEF IInv, LogIsTrue, Accounted, Current, vars, world, run, done
\* Before the check, nothing is claimed yet.
<1>2. CASE \/ OpenPage \/ RemoveNow \/ Scheduled \/ ShowPage \/ PlanRun \/ PlanFails
  <2>1. UNCHANGED <<log, removed, takenOut>>
    BY <1>2 DEF OpenPage, RemoveNow, Scheduled, ListTorrents, ShowPage, PlanRun, PlanFails, world, done
  <2>2. at' \notin {"deleting", "verifying"}
    BY <1>2 DEF OpenPage, RemoveNow, Scheduled, ListTorrents, ShowPage, PlanRun, PlanFails
  <2>. QED  BY <2>1, <2>2 DEF IInv, LogIsTrue
<1>3. CASE Check
  BY <1>3 DEF Check, AsPlanned, IInv, LogIsTrue, Accounted, Current, world, done
\* A removal that is over, without having deleted anything itself.
<1>4. CASE Refuse \/ RequestFails \/ StillListed
  <2>1. UNCHANGED <<log, removed, takenOut>>
    BY <1>4 DEF Refuse, RequestFails, StillListed, world, done
  <2>2. at' \notin {"deleting", "verifying"}
    BY <1>4 DEF Refuse, RequestFails, StillListed, NextRemoval
  <2>. QED  BY <2>1, <2>2 DEF IInv, LogIsTrue
<1>5. CASE Delete
  <2>1. Deleted /\ at = "deleting" /\ todo' = todo
    BY <1>5 DEF Delete
  <2>2. Current' = Current
    BY <2>1 DEF Current
  <2>. QED  BY <2>1, <2>2, DeletedAccounts DEF IInv, LogIsTrue
<1>6. CASE DeleteUnanswered
  <2>1. log' = log /\ takenOut' = takenOut /\ removed \subseteq removed'
    BY <1>6 DEF DeleteUnanswered, Deleted
  <2>2. at' \notin {"deleting", "verifying"}
    BY <1>6 DEF DeleteUnanswered, NextRemoval
  <2>. QED  BY <2>1, <2>2 DEF IInv, LogIsTrue
<1>7. CASE DeleteIgnored
  BY <1>7 DEF DeleteIgnored, IInv, LogIsTrue, Accounted, Current, world, done
\* Logged only once none of them is listed: each has to be accounted for.
<1>8. CASE Logged
  <2>1. UNCHANGED <<torrents, removed, takenOut>> /\ at = "verifying"
    BY <1>8 DEF Logged, world
  <2>2. \A h \in Current.hashes : \/ h \in takenOut
                                  \/ [hash |-> h, files |-> Current.files] \in removed
    BY <1>8, <2>1 DEF Logged, IInv, Accounted
  <2>3. LogIsTrue'
    BY <1>8, <2>1, <2>2 DEF Logged, IInv, LogIsTrue
  <2>4. at' \notin {"deleting", "verifying"}
    BY <1>8 DEF Logged, NextRemoval
  <2>. QED  BY <2>3, <2>4 DEF IInv
\* Whoever takes a torrent out is remembered for it.
<1>9. CASE TakenOut
  <2>1. UNCHANGED <<at, todo, removed, log>> /\ takenOut \subseteq takenOut'
    BY <1>9 DEF TakenOut, Others, run, done
  <2>2. \A h \in DOMAIN torrents : h \in DOMAIN torrents' \/ h \in takenOut'
    BY <1>9 DEF TakenOut, Restrict
  <2>3. Current' = Current
    BY <2>1 DEF Current
  <2>. QED  BY <2>1, <2>2, <2>3 DEF IInv, LogIsTrue, Accounted
<1>10. CASE Arrives \/ Relocates \/ Rechecks \/ Imports \/ LibraryTakes
  <2>1. UNCHANGED <<at, todo, removed, log, takenOut>>
    BY <1>10 DEF Arrives, Relocates, Rechecks, Imports, LibraryTakes, Others, run, done
  <2>2. DOMAIN torrents \subseteq DOMAIN torrents'
    BY <1>10 DEF Arrives, Relocates, Rechecks, Imports, LibraryTakes
  <2>3. Current' = Current
    BY <2>1 DEF Current
  <2>. QED  BY <2>1, <2>2, <2>3 DEF IInv, LogIsTrue, Accounted
<1>. QED
  BY <1>1, <1>2, <1>3, <1>4, <1>5, <1>6, <1>7, <1>8, <1>9, <1>10 DEF Next

\* Whatever qBittorrent answers, and whatever others do between the check, the
\* delete and the look after it, the download log claims no removal that did
\* not happen.
THEOREM TrueLog == Spec => []LogIsTrue
<1>1. IInv => LogIsTrue
  BY DEF IInv
<1>. QED  BY <1>1, InitInv, StepInv, PTL DEF Spec
=============================================================================
