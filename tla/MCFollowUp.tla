----------------------------- MODULE MCFollowUp -----------------------------
(***************************************************************************)
(* FollowUp for TLC: a movie and a series of two episodes.                  *)
(***************************************************************************)
EXTENDS FollowUp, TLC

CONSTANTS movie, series, film, first, second

MCLeaves == [i \in {movie, series} |-> IF i = movie THEN {film} ELSE {first, second}]

\* Of two failures the last is of the batch, as when a report fails twice.
SecondInBatch == faults < FaultMax \/ stage \in {"batch", "over"}

Alike == Permutations({first, second})
=============================================================================
