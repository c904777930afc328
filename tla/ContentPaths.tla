---------------------------- MODULE ContentPaths ----------------------------
(***************************************************************************)
(* Content paths as the sequences of their characters' codes: which of two  *)
(* downloads share files is decided by comparing and sorting paths, and the *)
(* separator's place among the other characters matters.                    *)
(***************************************************************************)
EXTENDS Integers, Sequences, SequencesExt

CONSTANT Slash  \* the separator's code

NoPath == <<>>

IsUnder(path, root) ==
  \/ path = root
  \/ /\ IsStrictPrefix(root, path)
     /\ path[Len(root) + 1] = Slash

Overlap(p, q) == p # NoPath /\ q # NoPath /\ (IsUnder(p, q) \/ IsUnder(q, p))

SortsBefore(p, q) ==
  \/ IsStrictPrefix(p, q)
  \/ \E i \in DOMAIN p \cap DOMAIN q :
       /\ p[i] < q[i]
       /\ \A j \in 1..i - 1 : p[j] = q[j]
=============================================================================
