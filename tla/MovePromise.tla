---------------------------- MODULE MovePromise ----------------------------
(***************************************************************************)
(* What a run of the move engine promises its callers, whichever app does  *)
(* the moving: the contract in the comments of mover.Apply, runPhase and   *)
(* runOne.  Each entry is asked for at most once; nothing is asked for     *)
(* while an earlier move of its queue may still be running or a move of an *)
(* earlier phase has not landed; and an entry is only given up when one of *)
(* those can never be satisfied.                                           *)
(***************************************************************************)
EXTENDS Integers

CONSTANTS Entries
VARIABLES
  phaseOf,  \* phaseOf[e]: the phase of entry e
  queueOf,  \* queueOf[e]: the queue e shares with others
  fate,     \* fate[e]: what has become of entry e: "waiting", "open", or one of Final
  over      \* the callers have been told that the run is over

vars == <<phaseOf, queueOf, fate, over>>

Final == {"landed", "refused", "lost", "skipped"}

Ahead(e) == {f \in Entries :
               phaseOf[f] = phaseOf[e] /\ queueOf[f] = queueOf[e] /\ f < e}
Before(e) == {f \in Entries : phaseOf[f] < phaseOf[e]}

Init == fate = [e \in Entries |-> "waiting"] /\ over = FALSE

\* The move is asked for.
Open(e) ==
  /\ fate[e] = "waiting"
  /\ \A f \in Ahead(e) : fate[f] \in {"landed", "refused"}
  /\ \A f \in Before(e) : fate[f] = "landed"
  /\ fate' = [fate EXCEPT ![e] = "open"]

Land(e) ==
  /\ fate[e] = "open"
  /\ fate' = [fate EXCEPT ![e] = "landed"]

\* Nothing of e is, or will be, running.
Refuse(e) ==
  /\ fate[e] \in {"waiting", "open"}
  /\ fate' = [fate EXCEPT ![e] = "refused"]

\* Nobody can tell whether e is running: what waits behind it is given up.
Lose(e) ==
  /\ fate[e] = "open"
  /\ fate' = [f \in Entries |-> IF f = e THEN "lost"
                                ELSE IF e \in Ahead(f) THEN "skipped"
                                ELSE fate[f]]

\* The run ends, giving up entries only behind a phase that did not land.
Finish ==
  /\ \E S \in SUBSET Entries :
       /\ \A e \in S :
            fate[e] = "waiting" /\ \E f \in Before(e) : fate[f] \in Final \ {"landed"}
       /\ \A e \in Entries \ S : fate[e] \in Final
       /\ fate' = [e \in Entries |-> IF e \in S THEN "skipped" ELSE fate[e]]
  /\ over' = TRUE

Next ==
  /\ ~over
  /\ UNCHANGED <<phaseOf, queueOf>>
  /\ \/ \E e \in Entries : /\ Open(e) \/ Land(e) \/ Refuse(e) \/ Lose(e)
                           /\ UNCHANGED over
     \/ Finish

Spec == Init /\ [][Next]_vars
=============================================================================
