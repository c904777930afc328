------------------------------ MODULE MoveRun ------------------------------
(***************************************************************************)
(* The shared move engine, internal/mover: Run, runPhase, runOne and       *)
(* settle, together with the two executors (Radarr/Sonarr and qBittorrent) *)
(* and the app that really copies the bytes.                               *)
(*                                                                         *)
(* A run takes the entries of a plan phase by phase.  Within a phase there *)
(* is one goroutine per queue (normally: per destination volume), and each *)
(* goroutine takes its entries one at a time through runOne.  The app is a *)
(* separate actor: it may accept a request whose answer was lost, refuse   *)
(* it late, or keep writing after Coldarr stopped looking.  What Coldarr   *)
(* knows of an entry (at) and what the app is doing with it (transfer) are *)
(* therefore two variables.                                                *)
(***************************************************************************)
EXTENDS Integers, FiniteSets

CONSTANTS
  Entries,   \* indices of the plan's entries, in plan order
  Paths,     \* tier paths moves read from and write to
  Disks,     \* physical volumes
  Disk,      \* Disk[p]: the volume tier path p really is on
  Limit,     \* Limit[p]: most a volume may hold for a move to p to be let
             \* through: its size, or the hard ceiling's share of it
  Occupied,  \* Occupied[d]: what volume d holds when the run starts
  Plans,     \* the plans the run may be given
  Options,   \* the run's settings: serial queueing, devices resolved
  DriftMax,  \* bound on what anything else writes, which it does to one volume
  CrossMax   \* bound: the entries up to this one may have their path change
             \* between rescan and reading

\* Plan entry: bytes is what the move really adds; size is what Coldarr
\* believes, 0 when it does not know.
Entry == [phase : Nat, src : Paths, dest : Paths, size : Nat, bytes : Nat]

ASSUME EntriesAssumption == Entries \subseteq Nat /\ Entries # {}
ASSUME PathsAssumption ==
  /\ Disk \in [Paths -> Disks]
  /\ Limit \in [Paths -> Nat]
  /\ Occupied \in [Disks -> Nat]
  /\ DriftMax \in Nat /\ CrossMax \in Nat
ASSUME PlansAssumption ==
  /\ Plans \subseteq [Entries -> Entry]
  /\ \A pl \in Plans : \A e \in Entries : pl[e].size \in {0, pl[e].bytes}
ASSUME OptionsAssumption ==
  Options \subseteq [serial : BOOLEAN, known : SUBSET Paths]

VARIABLES
  plan,        \* the plan being run
  opts,        \* mover.Options (serial: a run of torrents) and the volumeOf map
  at,          \* at[e]: where runOne is with entry e
  landed,      \* entries with a LandedPath
  crossed,     \* of these, the ones whose path changed between rescan and reading
  followUps,   \* followUps[e]: Jellyfin follow-ups started for e
  phase,       \* the phase being run
  phaseLanded, \* runPhase's verdict so far
  stage,       \* of the run: "running", "done", "closed"
  transfer,    \* transfer[e]: what the owning app is doing with e
  used,        \* used[d]: what volume d holds
  drift        \* drift[d]: how much of that came from anybody else

engineVars == <<at, landed, crossed, followUps, phase, phaseLanded, stage>>
worldVars  == <<transfer, used, drift>>
vars       == <<plan, opts, engineVars, worldVars>>

-----------------------------------------------------------------------------
(* runOne's control states.  A failure is "failed" when the volume is safe *)
(* for another move, "abandoned" when the transfer may still be running,   *)
(* and "skipped" when the entry was never attempted at all.                *)

InHand   == {"verify", "asking", "waiting", "settling", "reporting", "recording"}
Returned == {"done", "failed", "abandoned"}
Steps    == {"pending", "skipped"} \cup InHand \cup Returned
Decided(e) == at[e] \in Returned \cup {"skipped"}

\* MoveStatus, as a snapshot shows it.
Status(e) == CASE at[e] = "pending" -> "pending"
               [] at[e] \in InHand  -> "moving"
               [] at[e] = "done"    -> "done"
               [] OTHER             -> "failed"

\* newRunProgress and volumeKey: the queue an entry waits in.
QueueOf(e) ==
  IF opts.serial THEN <<"serial">>
  ELSE IF plan[e].dest \in opts.known THEN <<"dev", Disk[plan[e].dest]>>
  ELSE <<"path", plan[e].dest>>

QueueMates(e) ==
  {f \in Entries : plan[f].phase = plan[e].phase /\ QueueOf(f) = QueueOf(e)}

DestDisk(e) == Disk[plan[e].dest]
SrcDisk(e)  == Disk[plan[e].src]

InPhase(n)  == {e \in Entries : plan[e].phase = n}
PlanPhases  == {plan[e].phase : e \in Entries}
IsLeast(n, S) == n \in S /\ \A m \in S : n <= m

Init ==
  /\ plan \in Plans
  /\ opts \in Options
  /\ at = [e \in Entries |-> "pending"]
  /\ landed = {}
  /\ crossed = {}
  /\ followUps = [e \in Entries |-> 0]
  /\ \E n \in PlanPhases : IsLeast(n, PlanPhases) /\ phase = n
  /\ phaseLanded = TRUE
  /\ stage = "running"
  /\ transfer = [e \in Entries |-> "none"]
  /\ used = Occupied
  /\ drift = [d \in Disks |-> 0]

-----------------------------------------------------------------------------
(* runOne, one step at a time. *)

\* Mutant of Start: a goroutine per entry instead of one per queue.
StartUnqueued(e) ==
  /\ stage = "running" /\ plan[e].phase = phase
  /\ at[e] = "pending"
  /\ at' = [at EXCEPT ![e] = "verify"]
  /\ UNCHANGED <<plan, opts, landed, crossed, followUps, phase, phaseLanded, stage, worldVars>>

\* The queue's goroutine reaches e: every entry ahead of it has returned.
Start(e) ==
  /\ stage = "running" /\ plan[e].phase = phase
  /\ at[e] = "pending"
  /\ \A f \in QueueMates(e) : f < e => at[f] \in Returned
  /\ at' = [at EXCEPT ![e] = "verify"]
  /\ UNCHANGED <<plan, opts, landed, crossed, followUps, phase, phaseLanded, stage, worldVars>>

\* Mutant of HasRoom: trusts the numbers the plan was made from.
HasRoomAsPlanned(e) ==
  \/ plan[e].size = 0
  \/ Occupied[DestDisk(e)] + plan[e].size <= Limit[plan[e].dest]

\* verifyRoom: an unknown size is let through unchecked.
HasRoom(e) ==
  \/ plan[e].size = 0
  \/ used[DestDisk(e)] + plan[e].size <= Limit[plan[e].dest]

VerifyPasses(e) ==
  /\ at[e] = "verify"
  /\ HasRoom(e)
  /\ at' = [at EXCEPT ![e] = "asking"]
  /\ UNCHANGED <<plan, opts, landed, crossed, followUps, phase, phaseLanded, stage, worldVars>>

\* e did not land, but nothing of it is running: the queue goes on.
FailSafely(e) ==
  /\ at' = [at EXCEPT ![e] = "failed"]
  /\ phaseLanded' = FALSE
  /\ UNCHANGED <<plan, opts, landed, crossed, followUps, phase, stage, worldVars>>

\* A drive can drop out, or the destination not be readable, at any time,
\* so CheckStorage and verifyRoom's stat may fail whatever the room is.
VerifyFails(e) == at[e] = "verify" /\ FailSafely(e)

\* An unknown app, or the qBittorrent executor's checks before it asks.
SkipRequest(e) == at[e] = "asking" /\ FailSafely(e)

SendRequest(e) ==
  /\ at[e] = "asking"
  /\ at' = [at EXCEPT ![e] = "waiting"]
  /\ transfer' = [transfer EXCEPT ![e] = "sent"]
  /\ UNCHANGED <<plan, opts, landed, crossed, followUps, phase, phaseLanded, stage, used, drift>>

\* The app took the request and its answer arrived.
Accepted(e) ==
  /\ at[e] = "waiting"
  /\ transfer[e] \in {"writing", "whole", "over", "dead"}
  /\ at' = [at EXCEPT ![e] = "settling"]
  /\ UNCHANGED <<plan, opts, landed, crossed, followUps, phase, phaseLanded, stage, worldVars>>

\* The app's refusal arrived: Rejected(err).
Refused(e) == at[e] = "waiting" /\ transfer[e] = "refused" /\ FailSafely(e)

\* e may still be writing: the rest of its queue is not attempted.
Abandon(e) ==
  /\ at' = [f \in Entries |->
              IF f = e THEN "abandoned"
              ELSE IF f \in QueueMates(e) /\ f > e THEN "skipped"
              ELSE at[f]]
  /\ phaseLanded' = FALSE
  /\ UNCHANGED <<plan, opts, landed, crossed, followUps, phase, stage, worldVars>>

\* Mutant of LostAnswer: any error is taken for a refusal.
LostAnswerIsRefusal(e) == at[e] = "waiting" /\ FailSafely(e)

\* The request timed out or its answer was unreadable.
LostAnswer(e) == at[e] = "waiting" /\ Abandon(e)

\* Mutant of SettleFails: markLandingUnmet is forgotten.
SettleFailsUnmarked(e) ==
  /\ at[e] = "settling"
  /\ at' = [f \in Entries |->
              IF f = e THEN "abandoned"
              ELSE IF f \in QueueMates(e) /\ f > e THEN "skipped"
              ELSE at[f]]
  /\ UNCHANGED <<plan, opts, landed, crossed, followUps, phase, phaseLanded, stage, worldVars>>

\* settle gave up: the destination could not be measured, the app called
\* the move failed, or SettleMaxWait passed.
SettleFails(e) == at[e] = "settling" /\ Abandon(e)

\* What ConfirmLanded goes by: the item's path, which an app may change before
\* its files have followed, and 99% of its size, unless that is unknown.
\* qBittorrent says when it is done.
LooksLanded(e) ==
  \/ transfer[e] \in {"whole", "over"}
  \/ ~opts.serial /\ plan[e].size = 0 /\ transfer[e] \in {"writing", "dead"}

\* The rescan and the reading of its result are two requests: the size may still
\* be that of the old folder when the path is already the new one.
LooksCrossed(e) ==
  ~opts.serial /\ plan[e].size # 0 /\ transfer[e] \in {"writing", "dead"} /\ e <= CrossMax

SettleLands(e) ==
  /\ at[e] = "settling"
  /\ \/ LooksLanded(e) /\ UNCHANGED crossed
     \/ LooksCrossed(e) /\ crossed' = crossed \cup {e}
  /\ at' = [at EXCEPT ![e] = "reporting"]
  /\ landed' = landed \cup {e}
  /\ UNCHANGED <<plan, opts, followUps, phase, phaseLanded, stage, worldVars>>

\* Executor.Landed, first half: tell Jellyfin.  A report that goes through
\* starts the item's follow-up; one that fails is left for the end.  Only a
\* library run reports: a torrent gets its seed label, which Record covers.
Report(e) ==
  /\ at[e] = "reporting"
  /\ at' = [at EXCEPT ![e] = "recording"]
  /\ \/ ~opts.serial /\ followUps' = [followUps EXCEPT ![e] = @ + 1]
     \/ UNCHANGED followUps
  /\ UNCHANGED <<plan, opts, landed, crossed, phase, phaseLanded, stage, worldVars>>

\* Second half: append to the history (and label a torrent).  Failing to is
\* shown on the entry, and does not undo the move.
Record(e) ==
  /\ at[e] = "recording"
  /\ \E outcome \in {"done", "failed"} : at' = [at EXCEPT ![e] = outcome]
  /\ UNCHANGED <<plan, opts, landed, crossed, followUps, phase, phaseLanded, stage, worldVars>>

-----------------------------------------------------------------------------
(* Run and its callers. *)

PhaseOver == stage = "running" /\ \A e \in InPhase(phase) : Decided(e)

LaterPhases == {n \in PlanPhases : n > phase}

NextPhase ==
  /\ PhaseOver /\ phaseLanded
  /\ \E n \in LaterPhases : IsLeast(n, LaterPhases) /\ phase' = n
  /\ UNCHANGED <<plan, opts, at, landed, crossed, followUps, phaseLanded, stage, worldVars>>

\* Mutant of EndRun: later phases are dropped without a word.
EndRunSilently ==
  /\ PhaseOver
  /\ phaseLanded => LaterPhases = {}
  /\ stage' = "done"
  /\ UNCHANGED <<plan, opts, at, landed, crossed, followUps, phase, phaseLanded, worldVars>>

\* Mutant of EndRun: the failure branch returns without markDone.
EndRunOnSuccess ==
  /\ PhaseOver
  /\ phaseLanded /\ LaterPhases = {}
  /\ stage' = "done"
  /\ UNCHANGED <<plan, opts, at, landed, crossed, followUps, phase, phaseLanded, worldVars>>

\* The last phase is over, or one did not land: everything later is marked
\* not attempted, and markDone lets the callers of Wait go.
EndRun ==
  /\ PhaseOver
  /\ phaseLanded => LaterPhases = {}
  /\ at' = [e \in Entries |-> IF plan[e].phase > phase THEN "skipped" ELSE at[e]]
  /\ stage' = "done"
  /\ UNCHANGED <<plan, opts, landed, crossed, followUps, phase, phaseLanded, worldVars>>

\* Mutant of CloseRun: everything that moved is followed up again.
CloseRunRepeating ==
  /\ stage = "done"
  /\ stage' = "closed"
  /\ followUps' = [e \in Entries |->
       IF Status(e) = "done" THEN followUps[e] + 1 ELSE followUps[e]]
  /\ UNCHANGED <<plan, opts, at, landed, crossed, phase, phaseLanded, worldVars>>

\* NotifyJellyfinMoved(snapshot.Moved()): follow up what the run could not.
CloseRun ==
  /\ stage = "done"
  /\ stage' = "closed"
  /\ followUps' = [e \in Entries |->
       IF Status(e) = "done" /\ ~opts.serial /\ followUps[e] = 0 THEN 1 ELSE followUps[e]]
  /\ UNCHANGED <<plan, opts, at, landed, crossed, phase, phaseLanded, worldVars>>

-----------------------------------------------------------------------------
(* The app that owns the item, and anything else that writes to a volume.  *)

AppStep(e, from, to) ==
  /\ transfer[e] = from
  /\ transfer' = [transfer EXCEPT ![e] = to]
  /\ UNCHANGED <<plan, opts, engineVars, drift>>

\* A request may be taken, or turned down, long after its sender gave up.
AppAccepts(e) == AppStep(e, "sent", "writing") /\ UNCHANGED used
AppRefuses(e) == AppStep(e, "sent", "refused") /\ UNCHANGED used
AppFails(e)   == AppStep(e, "writing", "dead") /\ UNCHANGED used

\* The destination holds the item (all but the last percent at least).
AppCopies(e) ==
  /\ AppStep(e, "writing", "whole")
  /\ used' = [used EXCEPT ![DestDisk(e)] =
                IF SrcDisk(e) = DestDisk(e) THEN @ ELSE @ + plan[e].bytes]

\* The original is removed.
AppFinishes(e) ==
  /\ AppStep(e, "whole", "over")
  /\ used' = [used EXCEPT ![SrcDisk(e)] =
                IF SrcDisk(e) = DestDisk(e) THEN @ ELSE @ - plan[e].bytes]

OtherWrites(d) ==
  /\ stage = "running" /\ drift[d] < DriftMax /\ (\A other \in Disks \ {d} : drift[other] = 0)
  /\ used'  = [used EXCEPT ![d] = @ + 1]
  /\ drift' = [drift EXCEPT ![d] = @ + 1]
  /\ UNCHANGED <<plan, opts, engineVars, transfer>>

-----------------------------------------------------------------------------

QueueStep(e) ==
  \/ Start(e) \/ VerifyPasses(e) \/ VerifyFails(e)
  \/ SkipRequest(e) \/ SendRequest(e)
  \/ Accepted(e) \/ Refused(e) \/ LostAnswer(e)
  \/ SettleFails(e) \/ SettleLands(e)
  \/ Report(e) \/ Record(e)

RunStep == NextPhase \/ EndRun \/ CloseRun

World ==
  \/ \E e \in Entries : \/ AppAccepts(e) \/ AppRefuses(e) \/ AppFails(e)
                        \/ AppCopies(e) \/ AppFinishes(e)
  \/ \E d \in Disks : OtherWrites(d)

Next == (\E e \in Entries : QueueStep(e)) \/ RunStep \/ World

Spec == Init /\ [][Next]_vars

\* Coldarr's own goroutines keep running: every wait on the app has a
\* timeout (the HTTP client's, SettleMaxWait).  The app promises nothing.
Fairness ==
  /\ \A e \in Entries : WF_vars(QueueStep(e))
  /\ WF_vars(RunStep)

FairSpec == Spec /\ Fairness

-----------------------------------------------------------------------------
(* Properties *)

TransferStates == {"none", "sent", "refused", "writing", "whole", "over", "dead"}

\* Every variable stays in its type.
TypeOK ==
  /\ plan \in Plans /\ opts \in Options
  /\ at \in [Entries -> Steps]
  /\ landed \subseteq Entries /\ crossed \subseteq landed
  /\ followUps \in [Entries -> Nat]
  /\ phase \in Nat
  /\ phaseLanded \in BOOLEAN
  /\ stage \in {"running", "done", "closed"}
  /\ transfer \in [Entries -> TransferStates]
  /\ used \in [Disks -> Int]
  /\ drift \in [Disks -> Nat]

\* A move the app may be carrying out, now or as soon as the request reaches it.
MayWrite(e) == transfer[e] \in {"sent", "writing"}

\* A move whose landing says nothing about its bytes: their number is unknown, or
\* the landing was read across the change of its path.
Unmeasured(e) == ~opts.serial /\ (plan[e].size = 0 \/ e \in crossed)

\* mover.go's reason to exist: never more than one move in flight against
\* one physical disk, whatever answers were lost and whenever the app acts
\* on them.  The ways round it: Apply queues a destination whose device could not
\* be resolved by its path; sizeLanded has nothing to measure a move of unknown
\* size by; and a landing may be read across the change of the item's path.
OneWriterPerDisk ==
  \A e, f \in Entries :
    e # f /\ MayWrite(e) /\ MayWrite(f) /\ DestDisk(e) = DestDisk(f) =>
      \/ \E g \in {e, f} \cap landed : Unmeasured(g)
      \/ /\ ~opts.serial
         /\ plan[e].dest # plan[f].dest
         /\ ~({plan[e].dest, plan[f].dest} \subseteq opts.known)

\* Every volume a plan writes to is told apart correctly.
DevicesResolved == opts.serial \/ {plan[e].dest : e \in Entries} \subseteq opts.known

\* Everything bound for e's volume is of known size, and none of it has landed
\* across a change of its path.
SizesKnown(e) ==
  \A f \in Entries : DestDisk(f) = DestDisk(e) => plan[f].size > 0 /\ f \notin crossed

\* verifyRoom's promise outlives the check: what may still be written fits
\* under the tier's limit, up to what others wrote to the volume since, so
\* no order of landings and lost answers overfills a destination.
RoomForWhatMayBeWritten ==
  DevicesResolved =>
    \A e \in Entries :
      MayWrite(e) /\ SizesKnown(e) =>
        used[DestDisk(e)] + plan[e].bytes <= Limit[plan[e].dest] + drift[DestDisk(e)]

\* A later phase's plan may count on every earlier move, so none of it is
\* asked for until the bytes of all of them are at their destinations, as far
\* as Coldarr knows how many there are and has read their landing right.
PhaseGate ==
  \A e, f \in Entries :
    transfer[e] # "none" /\ plan[f].phase < plan[e].phase =>
      f \in landed /\ (transfer[f] \in {"whole", "over"} \/ Unmeasured(f))

\* "A completed Progress never leaves work silently pending", and nothing is
\* written off without cause: an entry never attempted has an abandoned
\* move ahead of it in its own queue, or a move of an earlier phase that
\* did not land.  In particular one volume's trouble stays its own.
NothingSilentlyDropped ==
  /\ stage # "running" => \A e \in Entries : Decided(e)
  /\ \A e \in Entries : at[e] = "skipped" =>
       \/ \E f \in QueueMates(e) : f < e /\ at[f] = "abandoned"
       \/ \E f \in Entries : plan[f].phase < plan[e].phase /\ f \notin landed

\* Jellyfin restarts its debounce when told twice, so no move is followed up
\* twice; and once a library run is closed every move shown done was followed
\* up.
FollowedUpOnce ==
  /\ \A e \in Entries : followUps[e] <= 1
  /\ stage = "closed" /\ ~opts.serial => \A e \in Entries : Status(e) = "done" => followUps[e] = 1

\* The run ends, whatever the app does or fails to do.
RunEnds == <>(stage = "closed")

-----------------------------------------------------------------------------
(* Refinement: the engine keeps the contract of MovePromise. *)

PhaseMap == [e \in Entries |-> plan[e].phase]
QueueMap == [e \in Entries |-> QueueOf(e)]
FateOf(e) ==
  CASE at[e] \in {"pending", "verify", "asking"} -> "waiting"
    [] at[e] \in {"waiting", "settling"}         -> "open"
    [] e \in landed                              -> "landed"
    [] at[e] = "abandoned"                       -> "lost"
    [] at[e] = "skipped"                         -> "skipped"
    [] OTHER                                     -> "refused"
FateMap == [e \in Entries |-> FateOf(e)]

Promise == INSTANCE MovePromise WITH
  phaseOf <- PhaseMap, queueOf <- QueueMap, fate <- FateMap,
  over <- (stage # "running")

\* The contract of Apply, runPhase and runOne, step by step: each entry asked
\* for at most once, in order, never behind a move that may still be running
\* and never before an earlier phase has landed; given up only for cause.
KeepsPromise == Promise!Spec
=============================================================================
