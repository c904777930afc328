------------------------------- MODULE Settle -------------------------------
(***************************************************************************)
(* What MoveRun takes as one step, `settling` to `reporting`: settle, which *)
(* watches the destination's disk usage to decide when to ask, and the two  *)
(* executors' ConfirmLanded, which ask the app.  The app copies, stalls,    *)
(* changes the item's recorded path before or after its files, gives up, or *)
(* loses the item; anybody may write to or delete from the same volume; and *)
(* Coldarr may not see what the app says is there.                          *)
(***************************************************************************)
EXTENDS Integers

CONSTANTS
  Size,         \* what the item really takes up
  StableTarget, \* SettleStableChecks
  UnseenLimit,  \* unseenLimit
  NoiseMax      \* bound on what else is on the volume

ASSUME SizesAssumption == Size \in Nat \ {0} /\ NoiseMax \in Nat
ASSUME LimitsAssumption == StableTarget \in Nat \ {0} /\ UnseenLimit \in Nat \ {0}

\* The move: who carries it out, its size as far as Coldarr knows, and
\* whether it stays on one volume, where it adds nothing.
Moves == [app : {"arr", "qbit"}, size : {0, Size}, rename : BOOLEAN]

VARIABLES
  move,
  at,        \* where settle is
  tracker,   \* settleTracker: startUsed, lastUsed, grown, stableCount
  noGrowth,  \* noGrowthChecks
  rescan,    \* the app's view as of the last rescan: at the new path, bytes
  sawMoving, \* Executor.sawMoving
  unseen,    \* Executor.unseen
  transfer,  \* what the app is doing
  newPath,   \* the app has the item under its new path
  copied,    \* how much of it is at the destination
  noise,     \* what anything else has on the volume
  visible,   \* how much of what is at the destination Coldarr sees
  quiet      \* readings since anything but settle did something, once it is over

settleVars == <<at, tracker, noGrowth, rescan, sawMoving, unseen>>
worldVars  == <<transfer, newPath, copied, noise, visible>>
allVars == <<move, settleVars, worldVars, quiet>>

Ended == {"landed", "failed", "gaveUp"}
\* qBittorrent will not land it without help.
Broken == {"dead", "errored", "gone", "incomplete"}

Used == noise + IF move.rename THEN 0 ELSE copied

SettleInit ==
  /\ move \in Moves
  /\ at = "baseline"
  /\ tracker = [startUsed |-> 0, lastUsed |-> 0, grown |-> FALSE, stableCount |-> 0]
  /\ noGrowth = 0
  /\ rescan = [new |-> FALSE, bytes |-> 0]
  /\ sawMoving = FALSE /\ unseen = 0
  /\ transfer = "queued" /\ newPath = FALSE /\ copied = 0
  /\ noise \in 0..NoiseMax
  /\ visible = "all"
  /\ quiet = 0

-----------------------------------------------------------------------------
(* settle *)

Goto(place) == at' = place

Baseline ==
  /\ at = "baseline"
  /\ Goto("watching")
  /\ tracker' = [tracker EXCEPT !.startUsed = Used, !.lastUsed = Used]
  /\ UNCHANGED <<move, noGrowth, rescan, sawMoving, unseen, worldVars, quiet>>

\* The destination cannot be measured, or SettleMaxWait has passed.
GiveUp ==
  /\ at \in {"baseline", "watching"}
  /\ Goto("gaveUp")
  /\ UNCHANGED <<move, tracker, noGrowth, rescan, sawMoving, unseen, worldVars, quiet>>

\* newSettleTracker and observe: nine tenths of the item have arrived.
HasGrown == tracker.grown \/ 10 * (Used - tracker.startUsed) >= 9 * move.size

Steady == Used = tracker.lastUsed

Observed ==
  [tracker EXCEPT !.grown = HasGrown,
                  !.lastUsed = Used,
                  !.stableCount = IF ~Steady THEN 0 ELSE IF HasGrown THEN @ + 1 ELSE @]

\* Mutant of NoGrowthObserved: a move that adds nothing is never asked about.
GrowthAwaited == 0

NoGrowthObserved ==
  IF ~HasGrown THEN noGrowth + 1
  ELSE IF Steady /\ Observed.stableCount >= StableTarget THEN noGrowth
  ELSE 0

\* One reading.  It is worth asking the app when usage has grown and then kept
\* still, or when it has not grown for a while.
Observe ==
  /\ at = "watching"
  /\ tracker' = Observed
  /\ noGrowth' = NoGrowthObserved
  /\ Goto(IF \/ Steady /\ HasGrown /\ Observed.stableCount >= StableTarget
             \/ ~HasGrown /\ NoGrowthObserved >= StableTarget
          THEN "asking" ELSE "watching")
  /\ quiet' = IF transfer = "over" /\ visible = "all" THEN quiet + 1 ELSE 0
  /\ UNCHANGED <<move, rescan, sawMoving, unseen, worldVars>>

\* Not confirmed: keep watching.
Retry ==
  /\ Goto("watching")
  /\ tracker' = IF tracker.grown THEN [tracker EXCEPT !.stableCount = 0] ELSE tracker
  /\ noGrowth' = IF tracker.grown THEN noGrowth ELSE 0
  /\ UNCHANGED <<move, rescan, worldVars>>

\* A request that went wrong says nothing about the move.
AskFails ==
  /\ at \in {"asking", "looking"}
  /\ Retry
  /\ quiet' = 0
  /\ UNCHANGED <<sawMoving, unseen>>

-----------------------------------------------------------------------------
(* arrExecutor.ConfirmLanded: rescan, then read what the app has on record. *)

Rescan ==
  /\ move.app = "arr" /\ at = "asking"
  /\ rescan' = [new |-> newPath, bytes |-> IF newPath THEN copied ELSE Size]
  /\ Goto("looking")
  /\ UNCHANGED <<move, tracker, noGrowth, sawMoving, unseen, worldVars, quiet>>

\* Mutant of SizeLanded: half of it will do.
HalfLanded(bytes) == move.size = 0 \/ 2 * bytes >= move.size

\* sizeLanded, and the executor's own comparison.
SizeLanded(bytes) == move.size = 0 \/ 100 * bytes >= 99 * move.size

ArrLanded == transfer # "gone" /\ newPath /\ SizeLanded(rescan.bytes)

ArrConfirms ==
  /\ move.app = "arr" /\ at = "looking"
  /\ ArrLanded
  /\ Goto("landed")
  /\ UNCHANGED <<move, tracker, noGrowth, rescan, sawMoving, unseen, worldVars, quiet>>

ArrDoubts ==
  /\ move.app = "arr" /\ at = "looking"
  /\ ~ArrLanded
  /\ Retry
  /\ UNCHANGED <<sawMoving, unseen, quiet>>

-----------------------------------------------------------------------------
(* Executor.ConfirmLanded: ask qBittorrent, then look at the files. *)

\* Mutant of Hopeless: where it started means that it gave up.
HopelessAtSource == transfer \in {"gone", "errored", "incomplete"} \/ ~newPath

\* Gone, in an error state, incomplete after the move, or back where it
\* started after having been seen moving: ErrMoveFailed.
Hopeless ==
  \/ transfer \in {"gone", "errored", "incomplete"}
  \/ ~newPath /\ sawMoving

InFlight == transfer \in {"moving", "checking"}

Fail ==
  /\ Goto("failed")
  /\ UNCHANGED <<move, tracker, noGrowth, rescan, worldVars>>

QbitFailed ==
  /\ move.app = "qbit" /\ at = "asking"
  /\ ~InFlight /\ Hopeless
  /\ Fail
  /\ UNCHANGED <<sawMoving, unseen, quiet>>

QbitDoubts ==
  /\ move.app = "qbit" /\ at = "asking"
  /\ InFlight \/ (~newPath /\ ~Hopeless)
  /\ sawMoving' = (sawMoving \/ transfer = "moving")
  /\ Retry
  /\ UNCHANGED <<unseen, quiet>>

QbitSaysDone ==
  /\ move.app = "qbit" /\ at = "asking"
  /\ ~InFlight /\ newPath /\ ~Hopeless
  /\ Goto("looking")
  /\ UNCHANGED <<move, tracker, noGrowth, rescan, sawMoving, unseen, worldVars, quiet>>

\* Coldarr does not see it: too often, and that is the mount mismatch.
QbitUnseen ==
  /\ move.app = "qbit" /\ at = "looking"
  /\ visible = "nothing"
  /\ unseen' = unseen + 1
  /\ IF unseen' >= UnseenLimit THEN Fail ELSE Retry
  /\ UNCHANGED <<sawMoving, quiet>>

\* FS.Size: files may still be missing from the folder.
Seen == IF visible = "all" THEN copied ELSE 0

QbitConfirms ==
  /\ move.app = "qbit" /\ at = "looking"
  /\ visible # "nothing" /\ SizeLanded(Seen)
  /\ Goto("landed")
  /\ UNCHANGED <<move, tracker, noGrowth, rescan, sawMoving, unseen, worldVars, quiet>>

QbitShort ==
  /\ move.app = "qbit" /\ at = "looking"
  /\ visible # "nothing" /\ ~SizeLanded(Seen)
  /\ Retry
  /\ UNCHANGED <<sawMoving, unseen, quiet>>

-----------------------------------------------------------------------------
(* The app and everybody else. *)

Elsewhere == quiet' = 0 /\ UNCHANGED <<move, settleVars>>

AppStarts ==
  /\ transfer = "queued" /\ transfer' = "moving"
  /\ Elsewhere /\ UNCHANGED <<newPath, copied, noise, visible>>

\* Radarr and Sonarr may record the new path before the files have followed.
AppRenames ==
  /\ move.app = "arr" /\ transfer \in {"queued", "moving"} /\ ~newPath
  /\ newPath' = TRUE
  /\ Elsewhere /\ UNCHANGED <<transfer, copied, noise, visible>>

AppCopies ==
  /\ transfer = "moving" /\ \E n \in copied + 1 .. Size : copied' = n
  /\ Elsewhere /\ UNCHANGED <<transfer, newPath, noise, visible>>

AppFinishes ==
  /\ transfer = "moving" /\ copied = Size
  /\ transfer' \in IF move.app = "qbit" THEN {"over", "checking"} ELSE {"over"}
  /\ newPath' = TRUE
  /\ Elsewhere /\ UNCHANGED <<copied, noise, visible>>

AppChecks ==
  /\ transfer = "checking" /\ transfer' \in {"over", "incomplete"}
  /\ Elsewhere /\ UNCHANGED <<newPath, copied, noise, visible>>

\* Gives up, and has the item under its old path again.
AppGivesUp ==
  /\ transfer \in {"queued", "moving"} /\ transfer' = "dead"
  /\ newPath' = FALSE
  /\ Elsewhere /\ UNCHANGED <<copied, noise, visible>>

\* An error state of qBittorrent's; an item taken out of the app.
AppLosesIt ==
  /\ \/ move.app = "qbit" /\ transfer \in {"queued", "moving", "checking"} /\ transfer' = "errored"
     \/ transfer \notin Broken /\ transfer' = "gone"
  /\ Elsewhere /\ UNCHANGED <<newPath, copied, noise, visible>>

OthersWrite ==
  /\ \E n \in (0..NoiseMax) \ {noise} : noise' = n
  /\ Elsewhere /\ UNCHANGED <<transfer, newPath, copied, visible>>

\* A network mount shows new files late, or is not the app's drive at all.
MountChanges ==
  /\ move.app = "qbit"
  /\ \E v \in {"nothing", "part", "all"} \ {visible} : visible' = v
  /\ Elsewhere /\ UNCHANGED <<transfer, newPath, copied, noise>>

-----------------------------------------------------------------------------

SettleStep ==
  \/ Baseline \/ GiveUp \/ Observe \/ AskFails
  \/ Rescan \/ ArrConfirms \/ ArrDoubts
  \/ QbitFailed \/ QbitDoubts \/ QbitSaysDone
  \/ QbitUnseen \/ QbitConfirms \/ QbitShort

World ==
  \/ AppStarts \/ AppRenames \/ AppCopies \/ AppFinishes \/ AppChecks
  \/ AppGivesUp \/ AppLosesIt \/ OthersWrite \/ MountChanges

SettleNext == SettleStep \/ World

SettleSpec == SettleInit /\ [][SettleNext]_allVars

-----------------------------------------------------------------------------
(* Properties *)

SettleTypeOK ==
  /\ move \in Moves
  /\ at \in {"baseline", "watching", "asking", "looking"} \cup Ended
  /\ tracker \in [startUsed : Nat, lastUsed : Nat, grown : BOOLEAN, stableCount : 0..StableTarget]
  /\ noGrowth \in 0..StableTarget
  /\ rescan \in [new : BOOLEAN, bytes : 0..Size]
  /\ sawMoving \in BOOLEAN
  /\ unseen \in 0..UnseenLimit
  /\ transfer \in {"queued", "moving", "checking", "over"} \cup Broken
  /\ newPath \in BOOLEAN /\ visible \in {"nothing", "part", "all"}
  /\ copied \in 0..Size /\ noise \in 0..NoiseMax
  /\ quiet \in Nat

\* "Disk usage looking stable is a hint, never proof": whatever the readings
\* looked like and whenever the app acted between the requests, a confirmed
\* item is at the destination but for its last percent.  Radarr and Sonarr
\* are believed on less in two cases: the size is not known, or the path
\* changed after the rescan, which then measured the original.
LandedIsWhole ==
  at = "landed" =>
    \/ 100 * copied >= 99 * Size
    \/ move.app = "arr" /\ (move.size = 0 \/ ~rescan.new)

\* Once the move is over and nothing disturbs the volume, it is confirmed
\* within a bounded number of readings, whether its growth was seen, was over
\* before the first reading, or never showed at all.
PromptlyConfirmed == quiet <= StableTarget + 1

\* ErrMoveFailed "ends the wait at once", so it has to be right: the app will
\* not land the item by itself, or it was invisible unseenLimit times.
FailedForGood ==
  at = "failed" =>
    move.app = "qbit" /\ (transfer \in Broken \/ unseen = UnseenLimit)
=============================================================================
