----------------------------- MODULE ApplyGate -----------------------------
(***************************************************************************)
(* Who may start moving or removing anything, and when.  Coldarr has one   *)
(* web server, whose handlers and scheduler tick run concurrently, and any *)
(* number of `coldarr apply` processes.  All of them gate on the same      *)
(* three things: whether the server has an apply in flight (memory), what  *)
(* the apps say they are still moving (MovesInFlight) and the flock in the *)
(* config directory.  They do so in different orders, and everything but   *)
(* the flock can change between being read and being relied on.  A crash   *)
(* frees the flock, but moves already handed to an app go on, and a        *)
(* request on its way may be taken when its sender has long been gone.     *)
(***************************************************************************)
EXTENDS Integers, Sequences

CONSTANTS
  Attempts,  \* an entry point some caller may be going through
  Kind,      \* Kind[a]: which entry point
  Nobody,
  RunMax,    \* bound on how many times the lock is taken
  CrashMax   \* bound on how many crashes happen

\* The entry points, and the gates each goes through before it may act:
\* asking Radarr and Sonarr, asking qBittorrent, measuring and planning, the
\* operator's confirmation, and AcquireLock.  (CheckStorage comes right after
\* the asking everywhere, and only ever makes an attempt give up.)
Route == [
  apply         |-> <<"arrs", "qbit", "plan", "confirm", "lock">>,
  planPage      |-> <<"plan", "arrs", "qbit", "lock">>,
  downloadsPage |-> <<"plan", "arrs", "qbit", "lock">>,
  runPlan       |-> <<"arrs", "qbit", "plan", "arrs", "qbit", "lock">>,
  runDownloads  |-> <<"arrs", "qbit", "plan", "arrs", "qbit", "lock">>,
  removeSeeds   |-> <<"arrs", "qbit", "lock", "plan">>]

Kinds     == DOMAIN Route
Scheduled == {"runPlan", "runDownloads"}

ASSUME AttemptsAssumption == Kind \in [Attempts -> Kinds] /\ Nobody \notin Attempts
ASSUME BoundsAssumption == RunMax \in Nat /\ CrashMax \in Nat

Web       == {a \in Attempts : Kind[a] # "apply"}
Downloads == {"downloadsPage", "runDownloads"}
Slot(a)  == IF Kind[a] \in Downloads THEN "downloads" ELSE "library"
App(a)   == IF Kind[a] \in Downloads THEN "qbit" ELSE "arrs"
\* The runs the server keeps a record of.
Publishes(a) == a \in Web /\ Kind[a] # "removeSeeds"

\* A move is known by the run that asked for it and the app that was asked.
Moves == [run : 1..RunMax, app : {"arrs", "qbit"}]

VARIABLES
  at,      \* at[a]: "idle", "entering", "running", "ending" or "released"
  gate,    \* gate[a]: the gates of its route that a has passed
  lock,    \* who holds the flock
  runs,    \* how many runs have taken the lock
  runOf,   \* runOf[a]: a's latest run
  current, \* currentRun and currentDownloadsRun
  active,  \* the attempts whose run.active is set
  late,    \* requests to move something whose answer was lost, and that may yet be taken
  moves,   \* moves the apps are carrying out
  since,   \* since[a]: of these, the ones taken since a last began asking, till its run is over
  crashes

vars == <<at, gate, lock, runs, runOf, current, active, late, moves, since, crashes>>

Init ==
  /\ at = [a \in Attempts |-> "idle"]
  /\ gate = [a \in Attempts |-> 0]
  /\ lock = Nobody
  /\ runs = 0
  /\ runOf = [a \in Attempts |-> 0]
  /\ current = [s \in {"library", "downloads"} |-> Nobody]
  /\ active = {}
  /\ late = {}
  /\ moves = {}
  /\ since = [a \in Attempts |-> {}]
  /\ crashes = 0

ApplyInFlight == \E s \in DOMAIN current : current[s] \in active

-----------------------------------------------------------------------------
(* Going through the gates *)

\* The scheduler's tick runs its tasks one after the other.
TickFree(a) ==
  Kind[a] \in Scheduled =>
    \A b \in Attempts : Kind[b] \in Scheduled => at[b] # "entering"

Begin(a) ==
  /\ at[a] = "idle" /\ runs < RunMax
  /\ a \in Web => ~ApplyInFlight /\ TickFree(a)
  /\ at' = [at EXCEPT ![a] = "entering"]
  /\ UNCHANGED <<gate, lock, runs, runOf, current, active, late, moves, since, crashes>>

\* The attempts in S are over, and what they had read is forgotten.
Forget(S) ==
  /\ at' = [a \in Attempts |-> IF a \in S THEN "idle" ELSE at[a]]
  /\ gate' = [a \in Attempts |-> IF a \in S THEN 0 ELSE gate[a]]
  /\ runOf' = [a \in Attempts |-> IF a \in S THEN 0 ELSE runOf[a]]
  /\ since' = [a \in Attempts |-> IF a \in S THEN {} ELSE since[a]]

Facing(a, g) == /\ at[a] = "entering"
                /\ gate[a] < Len(Route[Kind[a]])
                /\ Route[Kind[a]][gate[a] + 1] = g

Pass(a) == gate' = [gate EXCEPT ![a] = @ + 1]

\* MovesInFlight, first half: no move command is queued or running.
ArrsIdle(a) ==
  /\ Facing(a, "arrs")
  /\ \A m \in moves : m.app # "arrs"
  /\ since' = [since EXCEPT ![a] = {}]
  /\ Pass(a)
  /\ UNCHANGED <<at, lock, runs, runOf, current, active, late, moves, crashes>>

\* Mutant of QbitIdle: qBittorrent is not consulted.
QbitUnasked(a) ==
  /\ Facing(a, "qbit")
  /\ Pass(a)
  /\ UNCHANGED <<at, lock, runs, runOf, current, active, late, moves, since, crashes>>

\* Second half: no torrent is being moved.
QbitIdle(a) ==
  /\ Facing(a, "qbit")
  /\ \A m \in moves : m.app # "qbit"
  /\ Pass(a)
  /\ UNCHANGED <<at, lock, runs, runOf, current, active, late, moves, since, crashes>>

\* The operator said yes.
Confirm(a) ==
  /\ Facing(a, "confirm")
  /\ Pass(a)
  /\ UNCHANGED <<at, lock, runs, runOf, current, active, late, moves, since, crashes>>

\* BuildInventory and BuildPlan.
Plan(a) ==
  /\ Facing(a, "plan")
  /\ Pass(a)
  /\ UNCHANGED <<at, lock, runs, runOf, current, active, late, moves, since, crashes>>

\* Mutant of AcquireLock: without LOCK_NB's error being looked at.
AcquireLockUnchecked(a) ==
  /\ Facing(a, "lock") /\ runs < RunMax
  /\ lock' = a
  /\ runs' = runs + 1
  /\ runOf' = [runOf EXCEPT ![a] = runs + 1]
  /\ Pass(a)
  /\ UNCHANGED <<at, current, active, late, moves, since, crashes>>

AcquireLock(a) ==
  /\ Facing(a, "lock") /\ lock = Nobody /\ runs < RunMax
  /\ lock' = a
  /\ runs' = runs + 1
  /\ runOf' = [runOf EXCEPT ![a] = runs + 1]
  /\ Pass(a)
  /\ UNCHANGED <<at, current, active, late, moves, since, crashes>>

\* Mutant of GiveUp: an error after AcquireLock leaves the lock behind.
GiveUpHolding(a) ==
  /\ at[a] = "entering"
  /\ Forget({a})
  /\ UNCHANGED <<lock, runs, current, active, late, moves, crashes>>

\* Something is still moving, or asking failed; a drive is missing; there is
\* nothing to do; the operator said no; the lock is held by somebody else.
GiveUp(a) ==
  /\ at[a] = "entering"
  /\ Forget({a})
  /\ lock' = IF lock = a THEN Nobody ELSE lock
  /\ UNCHANGED <<runs, current, active, late, moves, crashes>>

-----------------------------------------------------------------------------
(* A run, as far as the gates can tell: see MoveRun for what is inside. *)

Through(a) == at[a] = "entering" /\ gate[a] = Len(Route[Kind[a]])

\* The goroutines are started; the server is told of the run a little later.
StartRun(a) ==
  /\ Through(a)
  /\ at' = [at EXCEPT ![a] = "running"]
  /\ UNCHANGED <<gate, lock, runs, runOf, current, active, late, moves, since, crashes>>

Publish(a) ==
  /\ at[a] = "running" /\ Publishes(a) /\ a \notin active
  /\ current' = [current EXCEPT ![Slot(a)] = a]
  /\ active' = active \cup {a}
  /\ UNCHANGED <<at, gate, lock, runs, runOf, late, moves, since, crashes>>

\* The app takes the request for m, and from then on reports a move.
Taken(m, noticed) ==
  /\ moves' = moves \cup {m}
  /\ since' = [b \in Attempts |-> IF at[b] \in noticed THEN since[b] \cup {m} ELSE since[b]]

\* The request is taken, or its answer is lost and it is still on its way.
SendMove(a) ==
  /\ at[a] = "running" /\ Kind[a] # "removeSeeds"
  /\ LET m == [run |-> runOf[a], app |-> App(a)]
     IN \/ Taken(m, {"entering"}) /\ UNCHANGED late
        \/ late' = late \cup {m} /\ UNCHANGED <<moves, since>>
  /\ UNCHANGED <<at, gate, lock, runs, runOf, current, active, crashes>>

\* The run that asked for m is over, or its process died.
Outlived(m) == \A a \in Attempts : ~(at[a] = "running" /\ runOf[a] = m.run)

\* A request whose answer was lost is taken all the same, however late.
TakenLate(m) ==
  /\ Taken(m, IF Outlived(m) THEN {"entering", "running"} ELSE {"entering"})
  /\ late' = late \ {m}
  /\ UNCHANGED <<at, gate, lock, runs, runOf, current, active, crashes>>

\* The app is done, or will never start; either way it no longer reports it.
MoveOver(m) ==
  /\ moves' = moves \ {m}
  /\ since' = [b \in Attempts |-> since[b] \ {m}]
  /\ UNCHANGED <<at, gate, lock, runs, runOf, current, active, late, crashes>>

\* Every entry has been dealt with.  A move whose answer was lost, or that
\* outlasted SettleMaxWait, may still be running.
RunOver(a) ==
  /\ at[a] = "running"
  /\ Publishes(a) => a \in active
  /\ at' = [at EXCEPT ![a] = "ending"]
  /\ since' = [since EXCEPT ![a] = {}]
  /\ UNCHANGED <<gate, lock, runs, runOf, current, active, late, moves, crashes>>

\* Mutant of Release: the deferred calls in the other order.
ReleaseLast(a) ==
  /\ at[a] = "ending"
  /\ active' = active \ {a}
  /\ at' = [at EXCEPT ![a] = "released"]
  /\ UNCHANGED <<gate, lock, runs, runOf, current, late, moves, since, crashes>>

\* Jellyfin has been told, downloads have been relabelled.
Release(a) ==
  /\ at[a] = "ending"
  /\ lock' = Nobody
  /\ at' = [at EXCEPT ![a] = "released"]
  /\ UNCHANGED <<gate, runs, runOf, current, active, late, moves, since, crashes>>

Deactivate(a) ==
  /\ at[a] = "released"
  /\ active' = active \ {a}
  /\ Forget({a})
  /\ UNCHANGED <<lock, runs, current, late, moves, crashes>>

\* The kernel drops the locks of a process that dies, and nothing else.
Die(S) ==
  /\ crashes < CrashMax
  /\ crashes' = crashes + 1
  /\ Forget(S)
  /\ lock' = IF lock \in S THEN Nobody ELSE lock
  /\ active' = active \ S
  /\ current' = [s \in DOMAIN current |-> IF current[s] \in S THEN Nobody ELSE current[s]]
  /\ UNCHANGED <<runs, late, moves>>

Crash == Die(Web) \/ \E a \in Attempts \ Web : at[a] # "idle" /\ Die({a})

-----------------------------------------------------------------------------

Enter(a) == ArrsIdle(a) \/ QbitIdle(a) \/ Confirm(a) \/ Plan(a) \/ AcquireLock(a)
            \/ GiveUp(a) \/ StartRun(a)
End(a) == Publish(a) \/ RunOver(a) \/ Release(a) \/ Deactivate(a)

Next ==
  \/ \E a \in Attempts : Begin(a) \/ Enter(a) \/ SendMove(a) \/ End(a)
  \/ \E m \in late : TakenLate(m)
  \/ \E m \in moves : MoveOver(m)
  \/ Crash

Spec == Init /\ [][Next]_vars

\* An attempt that began goes on: no gate blocks, a run ends whatever the
\* apps do (MoveRun!RunEnds), and the deferred calls run.  The operator may
\* leave the confirmation unanswered for ever.
Fairness ==
  \A a \in Attempts : /\ WF_vars(Enter(a) /\ ~Facing(a, "confirm"))
                      /\ WF_vars(End(a))

FairSpec == Spec /\ Fairness

-----------------------------------------------------------------------------
(* Properties *)

TypeOK ==
  /\ at \in [Attempts -> {"idle", "entering", "running", "ending", "released"}]
  /\ gate \in [Attempts -> 0..6]
  /\ lock \in Attempts \cup {Nobody}
  /\ runs \in 0..RunMax
  /\ runOf \in [Attempts -> 0..RunMax]
  /\ current \in [{"library", "downloads"} -> Attempts \cup {Nobody}]
  /\ \A s \in DOMAIN current :
       current[s] # Nobody => Publishes(current[s]) /\ Slot(current[s]) = s
  /\ active \subseteq {a \in Attempts : Publishes(a)}
  /\ late \subseteq Moves /\ moves \subseteq Moves
  /\ since \in [Attempts -> SUBSET Moves]
  /\ crashes \in 0..CrashMax

\* lock.go: "only one apply runs at a time system-wide", removals included,
\* until its Jellyfin updates and relabels are done.
OneAtATime ==
  \A a, b \in Attempts :
    at[a] \in {"running", "ending"} /\ at[b] \in {"running", "ending"} => a = b

\* Moves overlap with an earlier run's only through the race the gates leave
\* open: the app took them after this run had begun asking, from a run that was
\* still alive or of a request whose answer had been lost.  What was left moving by
\* a crash before that is never missed, in either domain.
NoOverlapMissed ==
  \A a \in Attempts : at[a] = "running" =>
    \A m \in moves : m.run # runOf[a] => m \in since[a]

\* "never the reverse, or there's a window where a new apply is admitted and
\* then fails on AcquireLock": while a published run holds the lock, the
\* server knows that an apply is in flight.
NoFalseAdmission ==
  \A a \in Attempts :
    lock = a /\ at[a] \in {"ending", "released"} /\ Publishes(a) => ApplyInFlight

\* Whoever takes the lock, the lock becomes free again: after a failure
\* under it, after a run, and after a crash.
LockFreed == (lock # Nobody) ~> (lock = Nobody)
=============================================================================
