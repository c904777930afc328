---------------------------- MODULE MCApplyGate ----------------------------
(* An instance of ApplyGate for TLC: each caller is one attempt at a time.   *)
EXTENDS ApplyGate

\* A process of its own, one page of each domain, the scheduler, and removals.
EveryoneKind == [cli |-> "apply", page |-> "planPage", tock |-> "runDownloads", seeds |-> "removeSeeds"]
Everyone == DOMAIN EveryoneKind
=============================================================================
