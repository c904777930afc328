--------------------------- MODULE LandingProofs ---------------------------
(***************************************************************************)
(* Two halves of one subject, told apart by their names: Settle decides     *)
(* that a move has landed, FollowUp is what is done about it.               *)
(*                                                                          *)
(* Settle keeps its promises for every size, number of stable readings and  *)
(* limit on misses, not only those TLC is given.                            *)
(*                                                                          *)
(* What is proved of FollowUp, for any movies and series, any number of     *)
(* episodes and of failed requests: that nothing undoes a refresh, that an  *)
(* item is reported once, that the restore starts only when every item      *)
(* that moved has been resolved, and that what was refreshed is back at its *)
(* old date.                                                                *)
(*                                                                          *)
(* No refresh is undone because of one fact: an item somebody still has to  *)
(* resolve has no refresh in Jellyfin's queue, and no leaf of it has had    *)
(* one; for then what Coldarr has read of it, and is about to send back, is *)
(* not older than a refresh.  That in turn takes that never two calls have  *)
(* the same item, and that a call drops an item as soon as it has asked for *)
(* its refresh, answered or not.                                            *)
(*                                                                          *)
(* The last rests on what a call at work knows of each leaf: it is yet to   *)
(* be written, or being written, or at its old date, or excused (Dating);   *)
(* and whatever Jellyfin does to a date meanwhile excuses the leaf.         *)
(***************************************************************************)
EXTENDS Settle, FollowUp, TLAPS

-----------------------------------------------------------------------------
(* Settle: the inductive invariant SettleInv says what its counters, the    *)
(* app's state and a confirmation under way imply of one another.           *)

Trackers == [startUsed : Nat, lastUsed : Nat, grown : BOOLEAN, stableCount : Nat]

\* What the counters are between readings, so that none passes its target.
CountersInv ==
  /\ at \in {"baseline", "watching"} =>
       tracker.stableCount < StableTarget /\ noGrowth < StableTarget
  /\ at \in {"asking", "looking"} =>
       IF tracker.grown THEN noGrowth < StableTarget ELSE tracker.stableCount < StableTarget
  /\ at # "failed" => unseen < UnseenLimit
  /\ at = "baseline" => ~tracker.grown /\ quiet = 0

\* What the app's state says about where the item is.
PlaceInv ==
  /\ transfer \in {"over", "checking", "incomplete"} => copied = Size /\ newPath
  /\ move.app = "qbit" /\ newPath => transfer \notin {"queued", "moving", "dead"}
  /\ sawMoving => transfer # "queued"

\* What a confirmation under way has already established.
AskedInv ==
  /\ at = "looking" /\ move.app = "qbit" => copied = Size
  /\ at = "looking" /\ rescan.new => rescan.bytes <= copied

\* While nothing is disturbed, every reading counts towards a confirmation,
\* and a confirmation under way will succeed.
QuietInv ==
  quiet > 0 =>
    /\ transfer = "over" /\ visible = "all"
    /\ tracker.lastUsed = Used
    /\ tracker.grown = HasGrown
    /\ tracker.grown => quiet <= tracker.stableCount + 1
    /\ ~tracker.grown => quiet <= noGrowth
    /\ at = "looking" /\ move.app = "arr" => rescan.new /\ rescan.bytes = copied

SettleInv == /\ SettleTypeOK /\ CountersInv /\ PlaceInv /\ AskedInv /\ QuietInv
        /\ LandedIsWhole /\ FailedForGood

-----------------------------------------------------------------------------

\* Disk usage is a number.
LEMMA UsedType == ASSUME SettleTypeOK PROVE Used \in Nat
  BY SizesAssumption DEF SettleTypeOK, Moves, Used

\* One reading, field by field.
LEMMA Reading ==
  ASSUME SettleTypeOK
  PROVE  /\ Observed.startUsed = tracker.startUsed
         /\ Observed.lastUsed = Used
         /\ Observed.grown = HasGrown
         /\ Observed.stableCount = IF ~Steady THEN 0
                                   ELSE IF HasGrown THEN tracker.stableCount + 1
                                   ELSE tracker.stableCount
         /\ HasGrown \in BOOLEAN
         /\ Observed \in Trackers
<1>1. tracker \in Trackers BY LimitsAssumption DEF SettleTypeOK, Trackers
<1>2. HasGrown \in BOOLEAN BY <1>1 DEF HasGrown, Trackers
<1>3. Used \in Nat BY UsedType
<1> DEFINE count == IF ~Steady THEN 0
                    ELSE IF HasGrown THEN tracker.stableCount + 1
                    ELSE tracker.stableCount
<1>4. count \in Nat BY <1>1 DEF Trackers
<1>5. Observed = [tracker EXCEPT !.grown = HasGrown, !.lastUsed = Used, !.stableCount = count]
  BY <1>1 DEF Observed, Trackers
<1> HIDE DEF count
<1>6. QED BY <1>1, <1>2, <1>3, <1>4, <1>5 DEF Trackers, count

\* The bound follows from the two counters.
LEMMA QuietBound == SettleInv => PromptlyConfirmed
  BY LimitsAssumption DEF SettleInv, SettleTypeOK, QuietInv, CountersInv, PromptlyConfirmed

\* It holds before the first reading.
LEMMA InitSettleInv == SettleInit => SettleInv
<1> SUFFICES ASSUME SettleInit PROVE SettleInv OBVIOUS
<1> USE DEF SettleInit
<1>1. SettleTypeOK
  <2>1. tracker \in [startUsed : Nat, lastUsed : Nat, grown : BOOLEAN, stableCount : 0..StableTarget]
    BY LimitsAssumption
  <2>2. rescan \in [new : BOOLEAN, bytes : 0..Size] BY SizesAssumption
  <2>3. /\ noGrowth \in 0..StableTarget /\ unseen \in 0..UnseenLimit
        /\ copied \in 0..Size /\ quiet \in Nat
    BY SizesAssumption, LimitsAssumption
  <2>4. QED BY <2>1, <2>2, <2>3 DEF SettleTypeOK
<1>2. CountersInv BY LimitsAssumption DEF CountersInv
<1>3. PlaceInv /\ AskedInv /\ QuietInv BY DEF PlaceInv, AskedInv, QuietInv
<1>4. LandedIsWhole /\ FailedForGood BY DEF LandedIsWhole, FailedForGood
<1>5. QED BY <1>1, <1>2, <1>3, <1>4 DEF SettleInv

-----------------------------------------------------------------------------
(* The app and everybody else: settle has to know nothing of it. *)

\* What was whole stays whole as more arrives.
LEMMA MoreIsWhole ==
  ASSUME NEW a \in Int, NEW b \in Int, NEW s \in Int, a <= b, 100 * a >= 99 * s
  PROVE  100 * b >= 99 * s
OBVIOUS

\* A step that leaves settle alone need only keep PlaceInv, take nothing away
\* from the destination and mend nothing that is broken.
LEMMA ElsewhereIInv ==
  ASSUME SettleInv, Elsewhere, PlaceInv',
         transfer' \in {"queued", "moving", "checking", "over"} \cup Broken,
         newPath' \in BOOLEAN, visible' \in {"nothing", "part", "all"},
         copied' \in 0..Size, copied <= copied', noise' \in 0..NoiseMax,
         transfer \in Broken => transfer' \in Broken
  PROVE  SettleInv'
<1> USE DEF Elsewhere, settleVars
<1>1. SettleTypeOK' BY DEF SettleInv, SettleTypeOK
<1>2. CountersInv' BY DEF SettleInv, CountersInv
<1>3. AskedInv'
  <2>1. copied \in Int /\ copied' \in Int /\ Size \in Int /\ rescan.bytes \in Int
    BY SizesAssumption DEF SettleInv, SettleTypeOK
  <2>2. at = "looking" /\ move.app = "qbit" => copied' = Size
    BY <2>1 DEF SettleInv, AskedInv
  <2>3. at = "looking" /\ rescan.new => rescan.bytes <= copied'
    BY <2>1 DEF SettleInv, AskedInv
  <2>4. QED BY <2>2, <2>3 DEF AskedInv
<1>4. QuietInv' BY DEF QuietInv
<1>5. LandedIsWhole'
  <2>1. copied \in Int /\ copied' \in Int /\ Size \in Int
    BY SizesAssumption DEF SettleInv, SettleTypeOK
  <2> DEFINE whole(n) == 100 * n >= 99 * Size
  <2>2. whole(copied) => whole(copied') BY <2>1, MoreIsWhole
  <2>3. LandedIsWhole <=> (at = "landed" => whole(copied) \/ (move.app = "arr" /\ (move.size = 0 \/ ~rescan.new)))
    BY DEF LandedIsWhole
  <2>4. LandedIsWhole' <=> (at' = "landed" => whole(copied') \/ (move'.app = "arr" /\ (move'.size = 0 \/ ~rescan'.new)))
    BY DEF LandedIsWhole
  <2> HIDE DEF whole
  <2>5. QED BY <2>2, <2>3, <2>4 DEF SettleInv
<1>6. FailedForGood' BY DEF SettleInv, FailedForGood
<1>7. QED BY <1>1, <1>2, <1>3, <1>4, <1>5, <1>6 DEF SettleInv

\* Every step of the app's, of others on the volume and of the mount is one.
LEMMA WorldIInv ==
  ASSUME SettleInv, World
  PROVE  SettleInv'
<1> USE DEF SettleInv, SettleTypeOK, PlaceInv, Broken
<1>0. Size \in Nat BY SizesAssumption
<1>1. CASE AppStarts
  <2>1. PlaceInv' BY <1>1 DEF AppStarts, Elsewhere, settleVars
  <2>2. /\ transfer' \in {"queued", "moving", "checking", "over"} \cup Broken
        /\ transfer \in Broken => transfer' \in Broken
        /\ newPath' \in BOOLEAN /\ visible' \in {"nothing", "part", "all"}
    BY <1>1 DEF AppStarts
  <2>3. copied' \in 0..Size /\ copied <= copied' /\ noise' \in 0..NoiseMax
    BY <1>0, <1>1 DEF AppStarts
  <2>4. QED BY <1>1, <2>1, <2>2, <2>3, ElsewhereIInv DEF AppStarts
<1>2. CASE AppRenames
  <2>1. PlaceInv' BY <1>2 DEF AppRenames, Elsewhere, settleVars
  <2>2. /\ transfer' \in {"queued", "moving", "checking", "over"} \cup Broken
        /\ transfer \in Broken => transfer' \in Broken
        /\ newPath' \in BOOLEAN /\ visible' \in {"nothing", "part", "all"}
    BY <1>2 DEF AppRenames
  <2>3. copied' \in 0..Size /\ copied <= copied' /\ noise' \in 0..NoiseMax
    BY <1>0, <1>2 DEF AppRenames
  <2>4. QED BY <1>2, <2>1, <2>2, <2>3, ElsewhereIInv DEF AppRenames
<1>3. CASE AppCopies
  <2>1. copied' \in 0..Size /\ copied <= copied' BY <1>0, <1>3 DEF AppCopies
  <2>2. PlaceInv' BY <1>3 DEF AppCopies, Elsewhere, settleVars
  <2>3. QED BY <1>3, <2>1, <2>2, ElsewhereIInv DEF AppCopies
<1>4. CASE AppFinishes
  <2>1. PlaceInv' BY <1>4 DEF AppFinishes, Elsewhere, settleVars
  <2>2. /\ transfer' \in {"queued", "moving", "checking", "over"} \cup Broken
        /\ transfer \in Broken => transfer' \in Broken
        /\ newPath' \in BOOLEAN /\ visible' \in {"nothing", "part", "all"}
    BY <1>4 DEF AppFinishes
  <2>3. copied' \in 0..Size /\ copied <= copied' /\ noise' \in 0..NoiseMax
    BY <1>0, <1>4 DEF AppFinishes
  <2>4. QED BY <1>4, <2>1, <2>2, <2>3, ElsewhereIInv DEF AppFinishes
<1>5. CASE AppChecks
  <2>1. PlaceInv' BY <1>5 DEF AppChecks, Elsewhere, settleVars
  <2>2. /\ transfer' \in {"queued", "moving", "checking", "over"} \cup Broken
        /\ transfer \in Broken => transfer' \in Broken
        /\ newPath' \in BOOLEAN /\ visible' \in {"nothing", "part", "all"}
    BY <1>5 DEF AppChecks
  <2>3. copied' \in 0..Size /\ copied <= copied' /\ noise' \in 0..NoiseMax
    BY <1>0, <1>5 DEF AppChecks
  <2>4. QED BY <1>5, <2>1, <2>2, <2>3, ElsewhereIInv DEF AppChecks
<1>6. CASE AppGivesUp
  <2>1. PlaceInv' BY <1>6 DEF AppGivesUp, Elsewhere, settleVars
  <2>2. /\ transfer' \in {"queued", "moving", "checking", "over"} \cup Broken
        /\ transfer \in Broken => transfer' \in Broken
        /\ newPath' \in BOOLEAN /\ visible' \in {"nothing", "part", "all"}
    BY <1>6 DEF AppGivesUp
  <2>3. copied' \in 0..Size /\ copied <= copied' /\ noise' \in 0..NoiseMax
    BY <1>0, <1>6 DEF AppGivesUp
  <2>4. QED BY <1>6, <2>1, <2>2, <2>3, ElsewhereIInv DEF AppGivesUp
<1>7. CASE AppLosesIt
  <2>1. PlaceInv' BY <1>7 DEF AppLosesIt, Elsewhere, settleVars
  <2>2. /\ transfer' \in {"queued", "moving", "checking", "over"} \cup Broken
        /\ transfer \in Broken => transfer' \in Broken
        /\ newPath' \in BOOLEAN /\ visible' \in {"nothing", "part", "all"}
    BY <1>7 DEF AppLosesIt
  <2>3. copied' \in 0..Size /\ copied <= copied' /\ noise' \in 0..NoiseMax
    BY <1>0, <1>7 DEF AppLosesIt
  <2>4. QED BY <1>7, <2>1, <2>2, <2>3, ElsewhereIInv DEF AppLosesIt
<1>8. CASE OthersWrite
  <2>1. PlaceInv' BY <1>8 DEF OthersWrite, Elsewhere, settleVars
  <2>2. /\ transfer' \in {"queued", "moving", "checking", "over"} \cup Broken
        /\ transfer \in Broken => transfer' \in Broken
        /\ newPath' \in BOOLEAN /\ visible' \in {"nothing", "part", "all"}
    BY <1>8 DEF OthersWrite
  <2>3. copied' \in 0..Size /\ copied <= copied' /\ noise' \in 0..NoiseMax
    BY <1>0, <1>8 DEF OthersWrite
  <2>4. QED BY <1>8, <2>1, <2>2, <2>3, ElsewhereIInv DEF OthersWrite
<1>9. CASE MountChanges
  <2>1. PlaceInv' BY <1>9 DEF MountChanges, Elsewhere, settleVars
  <2>2. /\ transfer' \in {"queued", "moving", "checking", "over"} \cup Broken
        /\ transfer \in Broken => transfer' \in Broken
        /\ newPath' \in BOOLEAN /\ visible' \in {"nothing", "part", "all"}
    BY <1>9 DEF MountChanges
  <2>3. copied' \in 0..Size /\ copied <= copied' /\ noise' \in 0..NoiseMax
    BY <1>0, <1>9 DEF MountChanges
  <2>4. QED BY <1>9, <2>1, <2>2, <2>3, ElsewhereIInv DEF MountChanges
<1>10. QED
  BY <1>1, <1>2, <1>3, <1>4, <1>5, <1>6, <1>7, <1>8, <1>9 DEF World

-----------------------------------------------------------------------------
(* settle's own steps *)

\* The disk usage does not depend on settle.
LEMMA UsedSame ==
  ASSUME UNCHANGED <<move, worldVars>>
  PROVE  Used' = Used
BY DEF Used, worldVars

\* A step that asks the app further, or ends the wait.
LEMMA MoveOnIInv ==
  ASSUME SettleInv,
         UNCHANGED <<move, tracker, noGrowth, sawMoving, worldVars, quiet>>,
         at' \in {"looking"} \cup Ended, at' = "looking" => at = "asking",
         rescan' \in [new : BOOLEAN, bytes : 0..Size],
         unseen' \in 0..UnseenLimit, at' # "failed" => unseen' < UnseenLimit,
         AskedInv', LandedIsWhole', FailedForGood',
         quiet > 0 /\ at' = "looking" /\ move.app = "arr" => rescan'.new /\ rescan'.bytes = copied
  PROVE  SettleInv'
<1> USE DEF worldVars
<1>1. SettleTypeOK' BY DEF SettleInv, SettleTypeOK
<1>2. CountersInv' BY DEF SettleInv, CountersInv, Ended
<1>3. PlaceInv' BY DEF SettleInv, PlaceInv
<1>4. QuietInv'
  <2>1. Used' = Used BY UsedSame
  <2>2. HasGrown' = HasGrown BY <2>1 DEF HasGrown
  <2>3. QED BY <2>1, <2>2 DEF SettleInv, QuietInv
<1>5. QED BY <1>1, <1>2, <1>3, <1>4 DEF SettleInv

\* A step back to watching, when nothing has been quiet.
LEMMA RetryIInv ==
  ASSUME SettleInv, Retry, at \in {"asking", "looking"}, quiet' = 0,
         sawMoving' \in BOOLEAN, sawMoving' => transfer # "queued",
         unseen' \in 0..UnseenLimit, unseen' < UnseenLimit
  PROVE  SettleInv'
<1> USE DEF Retry, Goto, worldVars
<1>1. tracker' \in [startUsed : Nat, lastUsed : Nat, grown : BOOLEAN, stableCount : 0..StableTarget]
  BY LimitsAssumption DEF SettleInv, SettleTypeOK
<1>2. noGrowth' \in 0..StableTarget
  BY LimitsAssumption DEF SettleInv, SettleTypeOK
<1>3. SettleTypeOK' BY <1>1, <1>2 DEF SettleInv, SettleTypeOK
<1>4. CountersInv'
  <2>1. tracker'.stableCount < StableTarget
    BY LimitsAssumption DEF SettleInv, SettleTypeOK, CountersInv
  <2>2. noGrowth' < StableTarget
    BY LimitsAssumption DEF SettleInv, SettleTypeOK, CountersInv
  <2>3. QED BY <2>1, <2>2 DEF CountersInv
<1>5. PlaceInv' BY DEF SettleInv, PlaceInv
<1>6. AskedInv' /\ QuietInv' BY DEF AskedInv, QuietInv
<1>7. LandedIsWhole' /\ FailedForGood' BY DEF LandedIsWhole, FailedForGood
<1>8. QED BY <1>3, <1>4, <1>5, <1>6, <1>7 DEF SettleInv

\* The first reading starts the tracker; giving up changes only the place.
LEMMA StartIInv ==
  ASSUME SettleInv, Baseline \/ GiveUp
  PROVE  SettleInv'
<1> USE DEF Goto, worldVars
<1>1. CASE Baseline
  <2> USE <1>1 DEF Baseline
  <2>1. Used \in Nat BY UsedType DEF SettleInv
  <2>2. tracker' \in [startUsed : Nat, lastUsed : Nat, grown : BOOLEAN, stableCount : 0..StableTarget]
    BY <2>1 DEF SettleInv, SettleTypeOK
  <2>3. SettleTypeOK' BY <2>2 DEF SettleInv, SettleTypeOK
  <2>4. tracker'.stableCount = tracker.stableCount /\ tracker'.grown = tracker.grown
    BY DEF SettleInv, SettleTypeOK
  <2>5. CountersInv' BY <2>4 DEF SettleInv, CountersInv
  <2>6. PlaceInv' BY DEF SettleInv, PlaceInv
  <2>7. AskedInv' /\ LandedIsWhole' /\ FailedForGood'
    BY DEF AskedInv, LandedIsWhole, FailedForGood
  <2>8. QuietInv' BY DEF SettleInv, CountersInv, QuietInv
  <2>9. QED BY <2>3, <2>5, <2>6, <2>7, <2>8 DEF SettleInv
<1>2. CASE GiveUp
  <2> USE <1>2 DEF GiveUp
  <2>1. /\ at' \in Ended /\ at' \notin {"looking", "landed", "failed"}
        /\ rescan' \in [new : BOOLEAN, bytes : 0..Size] /\ unseen' \in 0..UnseenLimit
    BY DEF Ended, SettleInv, SettleTypeOK
  <2>2. unseen' < UnseenLimit BY DEF SettleInv, CountersInv
  <2>3. AskedInv' /\ LandedIsWhole' /\ FailedForGood'
    BY <2>1 DEF AskedInv, LandedIsWhole, FailedForGood
  <2>4. QED BY <2>1, <2>2, <2>3, MoveOnIInv
<1>3. QED BY <1>1, <1>2

\* A reading never takes a counter past its target, and one taken while
\* nothing is disturbed adds to the counter that will end the wait.
LEMMA ObserveIInv ==
  ASSUME SettleInv, Observe
  PROVE  SettleInv'
<1> USE DEF worldVars
<1>0. SettleTypeOK BY DEF SettleInv
<1>1. /\ tracker'.startUsed = tracker.startUsed /\ tracker'.lastUsed = Used
      /\ tracker'.grown = HasGrown /\ HasGrown \in BOOLEAN
      /\ tracker' \in Trackers
      /\ tracker'.stableCount = IF ~Steady THEN 0
                                ELSE IF HasGrown THEN tracker.stableCount + 1
                                ELSE tracker.stableCount
  BY <1>0, Reading DEF Observe
<1>2. /\ tracker.stableCount < StableTarget /\ noGrowth < StableTarget
      /\ tracker.stableCount \in Nat /\ noGrowth \in Nat /\ StableTarget \in Nat \ {0}
      /\ at = "watching"
  BY LimitsAssumption DEF SettleInv, SettleTypeOK, CountersInv, Observe
<1>3. noGrowth' = IF ~HasGrown THEN noGrowth + 1
                  ELSE IF Steady /\ tracker'.stableCount >= StableTarget THEN noGrowth
                  ELSE 0
  BY DEF Observe, NoGrowthObserved
<1>4. at' = IF \/ Steady /\ HasGrown /\ tracker'.stableCount >= StableTarget
               \/ ~HasGrown /\ noGrowth' >= StableTarget
            THEN "asking" ELSE "watching"
  BY DEF Observe, Goto
<1>5. /\ UNCHANGED <<move, rescan, sawMoving, unseen, worldVars>>
      /\ quiet' = IF transfer = "over" /\ visible = "all" THEN quiet + 1 ELSE 0
  BY DEF Observe
<1>6. tracker'.stableCount \in 0..StableTarget /\ noGrowth' \in 0..StableTarget
  BY <1>1, <1>2, <1>3
<1>7. SettleTypeOK'
  <2>1. tracker' \in [startUsed : Nat, lastUsed : Nat, grown : BOOLEAN, stableCount : 0..StableTarget]
    BY <1>1, <1>6 DEF Trackers
  <2>2. at' \in {"watching", "asking"} /\ quiet' \in Nat
    BY <1>0, <1>4, <1>5 DEF SettleTypeOK
  <2>3. QED BY <1>0, <1>5, <1>6, <2>1, <2>2 DEF SettleTypeOK
<1>8. CountersInv'
  <2>1. at' = "watching" => tracker'.stableCount < StableTarget /\ noGrowth' < StableTarget
    BY <1>1, <1>2, <1>3, <1>4
  <2>2. IF tracker'.grown THEN noGrowth' < StableTarget ELSE tracker'.stableCount < StableTarget
    BY <1>1, <1>2, <1>3
  <2>3. unseen' < UnseenLimit BY <1>2, <1>5 DEF SettleInv, CountersInv
  <2>4. at' \in {"watching", "asking"} BY <1>4
  <2>5. QED BY <2>1, <2>2, <2>3, <2>4 DEF CountersInv
<1>9. PlaceInv' BY <1>5 DEF SettleInv, PlaceInv
<1>10. AskedInv' /\ LandedIsWhole' /\ FailedForGood'
  BY <1>4 DEF AskedInv, LandedIsWhole, FailedForGood
<1>11. QuietInv'
  <2> SUFFICES ASSUME quiet' > 0 PROVE QuietInv' BY DEF QuietInv
  <2>1. quiet \in Nat /\ quiet' = quiet + 1 /\ transfer' = "over" /\ visible' = "all"
    BY <1>0, <1>5 DEF SettleTypeOK
  <2>2. Used' = Used BY <1>5, UsedSame
  <2>3. HasGrown' = HasGrown BY <1>1, <1>5, <2>2 DEF HasGrown
  <2>4. HasGrown => quiet' <= tracker'.stableCount + 1
    <3> SUFFICES ASSUME HasGrown PROVE quiet' <= tracker'.stableCount + 1 OBVIOUS
    <3>1. tracker'.stableCount \in Nat BY <1>1 DEF Trackers
    <3>2. CASE quiet = 0 BY <2>1, <3>1, <3>2
    <3>3. CASE quiet > 0
      <4>1. Steady /\ quiet <= tracker.stableCount + 1
        BY <3>3 DEF SettleInv, QuietInv, Steady
      <4>2. tracker'.stableCount = tracker.stableCount + 1 BY <1>1, <4>1
      <4>3. QED BY <1>2, <2>1, <4>1, <4>2
    <3>4. QED BY <2>1, <3>2, <3>3
  <2>5. ~HasGrown => quiet' <= noGrowth'
    BY <1>2, <1>3, <2>1 DEF SettleInv, QuietInv
  <2>6. at' # "looking" BY <1>4
  <2>7. QED BY <1>1, <2>1, <2>2, <2>3, <2>4, <2>5, <2>6 DEF QuietInv
<1>12. QED BY <1>7, <1>8, <1>9, <1>10, <1>11 DEF SettleInv

-----------------------------------------------------------------------------
(* Asking Radarr or Sonarr *)

\* What a rescan found is no more than has arrived, and a confirmation is
\* never withheld from a move that is over.
LEMMA ArrIInv ==
  ASSUME SettleInv, Rescan \/ ArrConfirms \/ ArrDoubts
  PROVE  SettleInv'
<1> USE DEF Goto, worldVars
<1>0. /\ Size \in Nat /\ copied \in 0..Size /\ rescan.bytes \in 0..Size
      /\ move.size \in {0, Size} /\ rescan \in [new : BOOLEAN, bytes : 0..Size]
      /\ quiet \in Nat /\ newPath \in BOOLEAN /\ sawMoving \in BOOLEAN
      /\ unseen \in 0..UnseenLimit
  BY SizesAssumption DEF SettleInv, SettleTypeOK, Moves
<1>1. CASE Rescan
  <2> USE <1>1 DEF Rescan
  <2>1. /\ rescan' \in [new : BOOLEAN, bytes : 0..Size]
        /\ rescan'.new = newPath /\ (newPath => rescan'.bytes = copied)
    BY <1>0
  <2>2. AskedInv' BY <1>0, <2>1 DEF AskedInv
  <2>3. LandedIsWhole' /\ FailedForGood' BY DEF LandedIsWhole, FailedForGood
  <2>4. quiet > 0 => newPath BY DEF SettleInv, QuietInv, PlaceInv
  <2>5. unseen' \in 0..UnseenLimit /\ unseen' < UnseenLimit BY <1>0 DEF SettleInv, CountersInv
  <2>6. QED BY <2>1, <2>2, <2>3, <2>4, <2>5, MoveOnIInv
<1>2. CASE ArrConfirms
  <2> USE <1>2 DEF ArrConfirms
  <2>1. LandedIsWhole'
    <3> SUFFICES ASSUME move.size = Size, rescan.new PROVE 100 * copied >= 99 * Size
      BY <1>0 DEF LandedIsWhole
    <3>1. 100 * rescan.bytes >= 99 * Size
      BY <1>0, SizesAssumption DEF ArrLanded, SizeLanded
    <3>2. rescan.bytes <= copied BY DEF SettleInv, AskedInv
    <3>3. QED BY <1>0, <3>1, <3>2, MoreIsWhole
  <2>2. AskedInv' /\ FailedForGood' BY DEF AskedInv, FailedForGood
  <2>3. unseen' \in 0..UnseenLimit /\ unseen' < UnseenLimit BY <1>0 DEF SettleInv, CountersInv
  <2>4. at' \in Ended BY DEF Ended
  <2>5. QED BY <1>0, <2>1, <2>2, <2>3, <2>4, MoveOnIInv
<1>3. CASE ArrDoubts
  <2> USE <1>3 DEF ArrDoubts
  <2>1. quiet = 0
    <3> SUFFICES ASSUME quiet > 0 PROVE FALSE BY <1>0
    <3>1. transfer = "over" /\ rescan.bytes = copied BY DEF SettleInv, QuietInv
    <3>2. copied = Size /\ newPath BY <3>1 DEF SettleInv, PlaceInv
    <3>3. SizeLanded(rescan.bytes) BY <1>0, <3>1, <3>2 DEF SizeLanded
    <3>4. QED BY <3>1, <3>2, <3>3 DEF ArrLanded
  <2>2. sawMoving' \in BOOLEAN /\ (sawMoving' => transfer # "queued")
    BY <1>0 DEF SettleInv, PlaceInv
  <2>3. unseen' \in 0..UnseenLimit /\ unseen' < UnseenLimit
    BY <1>0 DEF SettleInv, CountersInv
  <2>4. QED BY <2>1, <2>2, <2>3, RetryIInv
<1>4. QED BY <1>1, <1>2, <1>3

-----------------------------------------------------------------------------
(* Asking qBittorrent *)

\* A failure is reported of a broken torrent only, or at the limit on misses.
LEMMA QbitFailIInv ==
  ASSUME SettleInv, QbitFailed \/ QbitUnseen
  PROVE  SettleInv'
<1> USE DEF Goto, worldVars
<1>0. /\ unseen \in Nat /\ unseen < UnseenLimit /\ UnseenLimit \in Nat
      /\ rescan \in [new : BOOLEAN, bytes : 0..Size] /\ sawMoving \in BOOLEAN
      /\ transfer \in {"queued", "moving", "checking", "over"} \cup Broken
      /\ quiet \in Nat /\ (sawMoving => transfer # "queued")
  BY LimitsAssumption DEF SettleInv, SettleTypeOK, CountersInv, PlaceInv, QbitFailed, QbitUnseen
<1>1. CASE QbitFailed
  <2> USE <1>1 DEF QbitFailed, Fail
  <2>1. transfer \in Broken
    BY <1>0 DEF SettleInv, PlaceInv, Hopeless, InFlight, Broken
  <2>2. FailedForGood' BY <2>1 DEF FailedForGood, Broken
  <2>3. AskedInv' /\ LandedIsWhole' BY DEF AskedInv, LandedIsWhole
  <2>4. at' \in Ended /\ unseen' \in 0..UnseenLimit BY <1>0 DEF Ended
  <2>5. QED BY <1>0, <2>2, <2>3, <2>4, MoveOnIInv
<1>2. CASE QbitUnseen /\ unseen' >= UnseenLimit
  <2> USE <1>2 DEF QbitUnseen, Fail
  <2>1. unseen' = UnseenLimit BY <1>0
  <2>2. FailedForGood' BY <2>1 DEF FailedForGood
  <2>3. AskedInv' /\ LandedIsWhole' BY DEF AskedInv, LandedIsWhole
  <2>4. at' \in Ended /\ unseen' \in 0..UnseenLimit BY <1>0, <2>1 DEF Ended
  <2>5. QED BY <1>0, <2>2, <2>3, <2>4, MoveOnIInv
<1>3. CASE QbitUnseen /\ ~(unseen' >= UnseenLimit)
  <2> USE <1>3 DEF QbitUnseen
  <2>1. unseen' \in 0..UnseenLimit /\ unseen' < UnseenLimit BY <1>0
  <2>2. quiet = 0 BY <1>0 DEF SettleInv, QuietInv
  <2>3. QED BY <1>0, <2>1, <2>2, RetryIInv
<1>4. QED BY <1>1, <1>2, <1>3

\* What qBittorrent says is done has all its bytes, so what Coldarr sees of it
\* decides, and nothing of a quiet move is missing.
LEMMA QbitIInv ==
  ASSUME SettleInv, QbitDoubts \/ QbitSaysDone \/ QbitConfirms \/ QbitShort
  PROVE  SettleInv'
<1> USE DEF Goto, worldVars
<1>0. /\ Size \in Nat \ {0} /\ copied \in 0..Size /\ move.size \in {0, Size}
      /\ quiet \in Nat /\ newPath \in BOOLEAN /\ sawMoving \in BOOLEAN
      /\ rescan \in [new : BOOLEAN, bytes : 0..Size]
      /\ unseen \in 0..UnseenLimit /\ unseen < UnseenLimit
      /\ (sawMoving => transfer # "queued")
      /\ transfer \in {"queued", "moving", "checking", "over"} \cup Broken
  BY SizesAssumption DEF SettleInv, SettleTypeOK, Moves, CountersInv, PlaceInv,
     QbitDoubts, QbitSaysDone, QbitConfirms, QbitShort
<1>1. CASE QbitDoubts
  <2> USE <1>1 DEF QbitDoubts
  <2>1. quiet = 0 BY <1>0 DEF SettleInv, QuietInv, PlaceInv, InFlight
  <2>2. sawMoving' \in BOOLEAN /\ (sawMoving' => transfer # "queued") BY <1>0
  <2>3. QED BY <1>0, <2>1, <2>2, RetryIInv
<1>2. CASE QbitSaysDone
  <2> USE <1>2 DEF QbitSaysDone
  <2>1. transfer = "over" BY <1>0 DEF SettleInv, PlaceInv, InFlight, Hopeless, Broken
  <2>2. copied' = Size BY <2>1 DEF SettleInv, PlaceInv
  <2>3. rescan' \in [new : BOOLEAN, bytes : 0..Size] /\ rescan'.bytes <= copied'
    BY <1>0, <2>2
  <2>4. AskedInv' BY <2>2, <2>3 DEF AskedInv
  <2>5. LandedIsWhole' /\ FailedForGood' BY DEF LandedIsWhole, FailedForGood
  <2>6. QED BY <1>0, <2>3, <2>4, <2>5, MoveOnIInv
<1>3. CASE QbitConfirms
  <2> USE <1>3 DEF QbitConfirms
  <2>1. copied = Size BY DEF SettleInv, AskedInv
  <2>2. LandedIsWhole' BY <1>0, <2>1 DEF LandedIsWhole
  <2>3. AskedInv' /\ FailedForGood' BY DEF AskedInv, FailedForGood
  <2>4. at' \in Ended BY DEF Ended
  <2>5. QED BY <1>0, <2>2, <2>3, <2>4, MoveOnIInv
<1>4. CASE QbitShort
  <2> USE <1>4 DEF QbitShort
  <2>1. copied = Size BY DEF SettleInv, AskedInv
  <2>2. SizeLanded(copied) BY <1>0, <2>1 DEF SizeLanded
  <2>3. quiet = 0 BY <1>0, <2>2 DEF SettleInv, QuietInv, Seen
  <2>4. QED BY <1>0, <2>3, RetryIInv
<1>5. QED BY <1>1, <1>2, <1>3, <1>4

-----------------------------------------------------------------------------

\* Every step keeps the invariant.
LEMMA NextSettleInv == SettleInv /\ [SettleNext]_allVars => SettleInv'
<1> SUFFICES ASSUME SettleInv, [SettleNext]_allVars PROVE SettleInv' OBVIOUS
<1>1. CASE AskFails
  <2> USE <1>1 DEF AskFails
  <2>1. sawMoving' \in BOOLEAN /\ (sawMoving' => transfer # "queued")
    BY DEF SettleInv, SettleTypeOK, PlaceInv
  <2>2. unseen' \in 0..UnseenLimit /\ unseen' < UnseenLimit
    BY DEF SettleInv, SettleTypeOK, CountersInv
  <2>3. QED BY <2>1, <2>2, RetryIInv
<1>2. CASE SettleStep /\ ~AskFails
  BY <1>2, StartIInv, ObserveIInv, ArrIInv, QbitFailIInv, QbitIInv DEF SettleStep
<1>3. CASE World BY <1>3, WorldIInv
<1>4. CASE UNCHANGED allVars
  <2> USE <1>4 DEF allVars, settleVars, worldVars
  <2>1. SettleTypeOK' BY DEF SettleInv, SettleTypeOK
  <2>2. CountersInv' /\ PlaceInv' /\ AskedInv'
    BY DEF SettleInv, CountersInv, PlaceInv, AskedInv
  <2>3. QuietInv' BY DEF SettleInv, QuietInv, HasGrown, Used
  <2>4. LandedIsWhole' /\ FailedForGood' BY DEF SettleInv, LandedIsWhole, FailedForGood
  <2>5. QED BY <2>1, <2>2, <2>3, <2>4 DEF SettleInv
<1>5. QED BY <1>1, <1>2, <1>3, <1>4 DEF SettleNext

\* The invariant holds of every run of settle.
THEOREM SettleInvariant == SettleSpec => []SettleInv
BY InitSettleInv, NextSettleInv, PTL DEF SettleSpec

\* Every variable keeps its type; no counter of settle's, and no count of
\* misses, passes its limit.
THEOREM SettleTypeCorrect == SettleSpec => []SettleTypeOK
<1>1. SettleInv => SettleTypeOK BY DEF SettleInv
<1>2. QED BY <1>1, SettleInvariant, PTL

\* What settle reports as landed is at the destination but for its last
\* percent, whatever the size and in whatever order app, settle and others
\* act, outside the two cases that LandedIsWhole names.
THEOREM Landing == SettleSpec => []LandedIsWhole
<1>1. SettleInv => LandedIsWhole BY DEF SettleInv
<1>2. QED BY <1>1, SettleInvariant, PTL

\* A move that is over is confirmed within SettleStableChecks + 1 quiet
\* readings, for every value of that target.
THEOREM Prompt == SettleSpec => []PromptlyConfirmed
BY QuietBound, SettleInvariant, PTL

\* ErrMoveFailed is never reported of a move that may still succeed, but for
\* the limit on misses.
THEOREM Failure == SettleSpec => []FailedForGood
<1>1. SettleInv => FailedForGood BY DEF SettleInv
<1>2. QED BY <1>1, SettleInvariant, PTL

-----------------------------------------------------------------------------
(* FollowUp: Jellyfin's dates and refreshes once a move has landed.          *)

USE DEF ItemsByFolder, ReportMoved, StartScheduledTask, FullRefresh

Call == [at : {"idle", "round", "picking", "reading", "writing", "posting", "done"},
         pending : SUBSET Items, final : BOOLEAN, seen : SUBSET Items, item : Items \cup {"none"},
         shown : [AllLeaves -> Dates \cup {"none"}], todo : SUBSET AllLeaves,
         copy : [leaf : AllLeaves \cup {"none"}, entry : Entry], failed : SUBSET Items]

Types == TypeOK /\ work \in [Workers -> Call]

\* A call's item is one it still has to resolve, and what it writes is that item's.
Shape(c) ==
  /\ c.seen \subseteq c.pending
  /\ c.at \in {"idle", "done"} => c.pending = {}
  /\ c.at \in {"reading", "writing", "posting"} => c.item \in c.pending \ c.seen
  /\ c.at \in {"writing", "posting"} => c.todo \subseteq Leaves[c.item]
  /\ c.at \notin {"writing", "posting"} => c.todo = {}
  /\ c.at = "posting" => c.copy.leaf \in Leaves[c.item] /\ c.copy.entry # Absent

Shapes == \A w \in Workers : Shape(work[w])

-----------------------------------------------------------------------------
(* Items and their leaves *)

LEMMA LeafOf ==
  /\ \A i \in Items : Leaves[i] \subseteq AllLeaves
  /\ \A i \in Items, l \in AllLeaves : l \in Leaves[i] => ItemOf(l) = i
  /\ \A l \in AllLeaves : ItemOf(l) \in Items /\ l \in Leaves[ItemOf(l)]
<1>1. Leaves \in [Items -> SUBSET AllLeaves]
  BY ItemsAssumption
<1>2. ASSUME NEW i \in Items, NEW l \in AllLeaves, l \in Leaves[i] PROVE ItemOf(l) = i
  <2>1. ItemOf(l) \in Items /\ l \in Leaves[ItemOf(l)]
    BY <1>2 DEF ItemOf
  <2> QED BY <1>2, <2>1, ItemsAssumption
<1>3. ASSUME NEW l \in AllLeaves PROVE ItemOf(l) \in Items /\ l \in Leaves[ItemOf(l)]
  <2>1. \E i \in Items : l \in Leaves[i]
    BY <1>1 DEF AllLeaves, Range
  <2> QED BY <2>1 DEF ItemOf
<1> QED BY <1>1, <1>2, <1>3

LEMMA EntryFacts ==
  /\ Absent \in Entry /\ Absent.meta = "none" /\ Absent.date = "none"
  /\ \A e \in Entry : e # Absent => e.date \in Dates /\ e.meta \in {"new", "scanned", "full"}
  /\ \A e \in Entry : e.date \in Dates \cup {"none"}
  /\ \A e \in Entry : e # Absent => [e EXCEPT !.date = "old"] \in Entry \ {Absent}
                                    /\ [e EXCEPT !.date = "old"].meta = e.meta
  /\ \A e \in Entry, m \in {"scanned", "full"} :
       e # Absent => [e EXCEPT !.meta = m] \in Entry \ {Absent} /\ [e EXCEPT !.meta = m].meta = m
  /\ \A d \in Dates : [date |-> d, meta |-> "new"] \in Entry \ {Absent}
BY DEF Entry, Absent, Dates

LEMMA IdleType == Idle \in Call /\ Shape(Idle)
BY EntryFacts DEF Idle, Call, Shape

LEMMA ResolveType ==
  ASSUME NEW items \in SUBSET Items
  PROVE  /\ Resolve(items) \in Call /\ Shape(Resolve(items))
         /\ Resolve(items).pending = items /\ Resolve(items).at \in {"round", "done"}
BY EntryFacts DEF Resolve, Idle, Call, Shape

-----------------------------------------------------------------------------
(* What a call's step does to the call *)

\* All that the proofs need to know of one: an item it drops is accepted, failed, or
\* queued at most.
Steps(w) ==
  /\ work' = [work EXCEPT ![w] = work'[w]]
  /\ work'[w] \in Call /\ Shape(work'[w])
  /\ work[w].at \notin {"idle", "done"} /\ work'[w].at # "idle"
  /\ work'[w].at = "posting" => work'[w].copy.entry = leaf[work'[w].copy.leaf]
  /\ work'[w].pending \subseteq work[w].pending
  /\ work[w].failed \subseteq work'[w].failed /\ accepted \subseteq accepted'
  /\ work[w].pending \subseteq work'[w].pending \cup work'[w].failed \cup accepted'
  /\ \A i \in queue' \ queue : i \in work[w].pending \ work'[w].pending
  /\ queue' \subseteq Items /\ accepted' \subseteq Items /\ excused' \subseteq AllLeaves
  /\ faults' \in 0..FaultMax
  /\ UNCHANGED <<run, listed, scanning>>

LEMMA FaultType == ASSUME TypeOK, Fault \/ Fine PROVE faults' \in 0..FaultMax
BY FaultAssumption DEF TypeOK, Fault, Fine

LEMMA ListStep ==
  ASSUME Types, Shapes, NEW w \in Workers, NEW final \in BOOLEAN, ListItems(w, final)
  PROVE  Steps(w) /\ leaf' = leaf
<1>1. work[w] \in Call /\ Shape(work[w]) /\ work[w].at = "round"
  BY DEF Types, Shapes, ListItems
<1>2. Listed(work[w].pending \cap listed) \in [AllLeaves -> Dates \cup {"none"}]
  BY EntryFacts DEF Listed, Types, TypeOK
<1>3. /\ work' = [work EXCEPT ![w] = work'[w]]
      /\ work'[w] \in Call /\ work'[w].at = "picking" /\ work'[w].pending = work[w].pending
      /\ work'[w].failed = work[w].failed /\ work'[w].todo = work[w].todo
      /\ work'[w].seen \in {work[w].seen, work[w].pending \cap listed}
  BY <1>1, <1>2 DEF ListItems, Types, Call
<1>4. Shape(work'[w])
  BY <1>1, <1>3 DEF Shape
<1>5. UNCHANGED <<run, jellyfin, accepted, excused>> /\ faults' \in 0..FaultMax
  BY FaultType DEF ListItems, Types
<1> QED BY <1>1, <1>3, <1>4, <1>5 DEF Steps, jellyfin, Types, TypeOK

LEMMA PutBackStep ==
  ASSUME Types, Shapes, NEW w \in Workers, work[w].at \in {"picking", "reading"},
         NEW i \in work[w].pending, NEW shown, PutBackAddedDates(w, i, shown)
  PROVE  /\ work' = [work EXCEPT ![w] = work'[w]]
         /\ work'[w] \in Call /\ Shape(work'[w]) /\ work'[w].at \in {"picking", "writing"}
         /\ work'[w].pending = work[w].pending /\ work'[w].failed = work[w].failed
         /\ excused' \subseteq AllLeaves
<1>1. work[w] \in Call /\ Shape(work[w]) /\ i \in Items /\ Leaves[i] \subseteq AllLeaves
  BY LeafOf DEF Types, Shapes, Call
<1> DEFINE missing == {l \in Leaves[i] \cap added : shown[l] = "none"}
<1>2. CASE MustWait(i, missing, work[w].final)
  <2>1. work' = [work EXCEPT ![w].at = "picking", ![w].seen = @ \ {i}, ![w].item = "none"] /\ excused' = excused
    BY <1>2 DEF PutBackAddedDates
  <2>2. /\ work' = [work EXCEPT ![w] = work'[w]] /\ work'[w] \in Call
        /\ work'[w].at = "picking" /\ work'[w].seen = work[w].seen \ {i} /\ work'[w].todo = work[w].todo
        /\ work'[w].pending = work[w].pending /\ work'[w].failed = work[w].failed
    BY <1>1, <2>1 DEF Types, Call
  <2> QED BY <1>1, <2>1, <2>2 DEF Shape, Types, TypeOK
<1>3. CASE ~MustWait(i, missing, work[w].final)
  <2> DEFINE writes == {l \in Leaves[i] \cap added : shown[l] = "move"}
             rest == [l \in AllLeaves |-> IF l \in Leaves[i] THEN "none" ELSE work[w].shown[l]]
  <2>1. /\ work' = [work EXCEPT ![w].at = "writing", ![w].seen = @ \ {i}, ![w].item = i,
                                ![w].shown = rest, ![w].todo = writes]
        /\ excused' = IF work[w].final \/ i \in Movies THEN excused \cup missing ELSE excused
    BY <1>3 DEF PutBackAddedDates
  <2>2. writes \subseteq Leaves[i] /\ writes \in SUBSET AllLeaves /\ missing \subseteq AllLeaves
    BY <1>1
  <2>3. rest \in [AllLeaves -> Dates \cup {"none"}]
    BY <1>1 DEF Call
  <2> HIDE DEF writes, missing, rest
  <2>4. /\ work' = [work EXCEPT ![w] = work'[w]] /\ work'[w] \in Call
        /\ work'[w].at = "writing" /\ work'[w].seen = work[w].seen \ {i} /\ work'[w].todo = writes
        /\ work'[w].item = i
        /\ work'[w].pending = work[w].pending /\ work'[w].failed = work[w].failed
    BY <1>1, <2>1, <2>2, <2>3 DEF Types, Call
  <2> QED BY <1>1, <2>1, <2>2, <2>4 DEF Shape, Types, TypeOK
<1> QED BY <1>2, <1>3

LEMMA PickStep ==
  ASSUME Types, Shapes, NEW w \in Workers, NEW i \in Items, Pick(w, i)
  PROVE  Steps(w) /\ leaf' = leaf
<1>1. work[w] \in Call /\ Shape(work[w]) /\ work[w].at = "picking" /\ i \in work[w].pending
  BY DEF Types, Shapes, Pick, Shape
<1>2. UNCHANGED <<run, jellyfin, accepted>> /\ faults' \in 0..FaultMax
  BY FaultType DEF Pick, Types
<1>3. /\ work' = [work EXCEPT ![w] = work'[w]]
      /\ work'[w] \in Call /\ Shape(work'[w]) /\ work'[w].at \in {"picking", "reading", "writing"}
      /\ work'[w].pending = work[w].pending /\ work'[w].failed = work[w].failed
      /\ excused' \subseteq AllLeaves
  <2>1. CASE i \in Series /\ Leaves[i] \cap added # {}
    <3>1. work' = [work EXCEPT ![w].at = "reading", ![w].seen = @ \ {i}, ![w].item = i] /\ excused' = excused
      BY <2>1 DEF Pick
    <3>2. /\ work' = [work EXCEPT ![w] = work'[w]] /\ work'[w] \in Call
          /\ work'[w].at = "reading" /\ work'[w].seen = work[w].seen \ {i} /\ work'[w].todo = work[w].todo
          /\ work'[w].item = i
          /\ work'[w].pending = work[w].pending /\ work'[w].failed = work[w].failed
      BY <1>1, <3>1 DEF Types, Call
    <3> QED BY <1>1, <3>1, <3>2 DEF Shape, Types, TypeOK
  <2>2. CASE ~(i \in Series /\ Leaves[i] \cap added # {})
    <3>1. PutBackAddedDates(w, i, work[w].shown)
      BY <2>2 DEF Pick
    <3> QED BY <1>1, <3>1, PutBackStep
  <2> QED BY <2>1, <2>2
<1> QED BY <1>1, <1>2, <1>3 DEF Steps, jellyfin, Types, TypeOK

LEMMA ReadLeavesStep ==
  ASSUME Types, Shapes, NEW w \in Workers, ReadLeaves(w)
  PROVE  Steps(w) /\ leaf' = leaf
<1> DEFINE i == work[w].item
<1>1. work[w] \in Call /\ Shape(work[w]) /\ work[w].at = "reading" /\ i \in work[w].pending /\ i \in Items
  BY DEF Types, Shapes, ReadLeaves, Shape, Call
<1>2. UNCHANGED <<run, jellyfin, accepted>> /\ faults' \in 0..FaultMax
  BY FaultType DEF ReadLeaves, Types
<1>3. /\ work' = [work EXCEPT ![w] = work'[w]]
      /\ work'[w] \in Call /\ Shape(work'[w]) /\ work'[w].at \in {"picking", "writing"}
      /\ work'[w].pending = work[w].pending /\ work'[w].failed = work[w].failed
      /\ excused' \subseteq AllLeaves
  <2>1. CASE PutBackAddedDates(w, i, [l \in AllLeaves |-> leaf[l].date])
    BY <1>1, <2>1, PutBackStep
  <2>2. CASE work' = [work EXCEPT ![w].at = "writing"] /\ excused' = excused \cup Leaves[i]
    <3>1. /\ work' = [work EXCEPT ![w] = work'[w]] /\ work'[w] \in Call
          /\ work'[w].at = "writing" /\ work'[w].seen = work[w].seen /\ work'[w].todo = work[w].todo
          /\ work'[w].item = i
          /\ work'[w].pending = work[w].pending /\ work'[w].failed = work[w].failed
      BY <1>1, <2>2 DEF Types, Call
    <3> QED BY <1>1, <2>2, <3>1, LeafOf DEF Shape, Types, TypeOK
  <2>3. CASE work' = [work EXCEPT ![w].at = "picking", ![w].item = "none"] /\ UNCHANGED excused
    <3>1. /\ work' = [work EXCEPT ![w] = work'[w]] /\ work'[w] \in Call
          /\ work'[w].at = "picking" /\ work'[w].seen = work[w].seen /\ work'[w].todo = work[w].todo
          /\ work'[w].pending = work[w].pending /\ work'[w].failed = work[w].failed
      BY <1>1, <2>3 DEF Types, Call
    <3> QED BY <1>1, <2>3, <3>1 DEF Shape, Types, TypeOK
  <2> QED BY <2>1, <2>2, <2>3 DEF ReadLeaves
<1> QED BY <1>1, <1>2, <1>3 DEF Steps, jellyfin, Types, TypeOK

LEMMA ReadItemStep ==
  ASSUME Types, Shapes, NEW w \in Workers, NEW l \in AllLeaves, ReadItem(w, l)
  PROVE  Steps(w) /\ leaf' = leaf
<1>1. work[w] \in Call /\ Shape(work[w]) /\ work[w].at = "writing" /\ l \in Leaves[work[w].item]
      /\ leaf[l] \in Entry
  BY DEF Types, TypeOK, Shapes, ReadItem, Shape
<1>2. UNCHANGED <<run, jellyfin, accepted>> /\ faults' \in 0..FaultMax
  <2>1. Fault \/ Fine
    BY DEF ReadItem
  <2> QED BY <2>1, FaultType DEF ReadItem, Types
<1>3. /\ work' = [work EXCEPT ![w] = work'[w]]
      /\ work'[w] \in Call /\ Shape(work'[w]) /\ work'[w].at \in {"posting", "writing"}
      /\ work'[w].at = "posting" => work'[w].copy.entry = leaf[work'[w].copy.leaf]
      /\ work'[w].pending = work[w].pending /\ work'[w].failed = work[w].failed
      /\ excused' \subseteq AllLeaves
  <2> DEFINE copy == [leaf |-> l, entry |-> leaf[l]]
  <2>1. copy \in [leaf : AllLeaves \cup {"none"}, entry : Entry] /\ copy.leaf = l /\ copy.entry = leaf[l]
    BY <1>1
  <2>2. CASE /\ leaf[l] # Absent /\ UNCHANGED excused
             /\ work' = [work EXCEPT ![w].at = "posting", ![w].todo = @ \ {l}, ![w].copy = copy]
    <3> HIDE DEF copy
    <3>1. /\ work' = [work EXCEPT ![w] = work'[w]] /\ work'[w] \in Call
          /\ work'[w].at = "posting" /\ work'[w].seen = work[w].seen /\ work'[w].todo = work[w].todo \ {l}
          /\ work'[w].item = work[w].item /\ work'[w].copy = copy
          /\ work'[w].pending = work[w].pending /\ work'[w].failed = work[w].failed
      BY <1>1, <2>1, <2>2 DEF Types, Call
    <3> QED BY <1>1, <2>1, <2>2, <3>1 DEF Shape, Types, TypeOK
  <2>3. CASE work' = [work EXCEPT ![w].todo = @ \ {l}] /\ excused' = excused \cup {l}
    <3>1. /\ work' = [work EXCEPT ![w] = work'[w]] /\ work'[w] \in Call
          /\ work'[w].at = "writing" /\ work'[w].seen = work[w].seen /\ work'[w].todo = work[w].todo \ {l}
          /\ work'[w].item = work[w].item
          /\ work'[w].pending = work[w].pending /\ work'[w].failed = work[w].failed
      BY <1>1, <2>3 DEF Types, Call
    <3> QED BY <1>1, <2>3, <3>1 DEF Shape, Types, TypeOK
  <2> QED BY <2>2, <2>3 DEF ReadItem
<1> QED BY <1>1, <1>2, <1>3 DEF Steps, jellyfin, Types, TypeOK

LEMMA PostItemStep ==
  ASSUME Types, Shapes, NEW w \in Workers, PostItem(w)
  PROVE  /\ Steps(w)
         /\ work[w].copy.leaf \in Leaves[work[w].item] /\ work[w].copy.leaf \in AllLeaves
         /\ work[w].item \in work[w].pending
         /\ \/ leaf' = leaf
            \/ /\ leaf[work[w].copy.leaf] # Absent
               /\ leaf' = [leaf EXCEPT ![work[w].copy.leaf] = [work[w].copy.entry EXCEPT !.date = "old"]]
<1>1. /\ work[w] \in Call /\ Shape(work[w]) /\ work[w].at = "posting" /\ work[w].item \in work[w].pending
      /\ work[w].copy.leaf \in Leaves[work[w].item] /\ work[w].item \in Items
  BY DEF Types, Shapes, PostItem, Shape, Call
<1>2. work[w].copy.leaf \in AllLeaves
  BY <1>1, LeafOf
<1>3. UNCHANGED <<run, listed, scanning, queue, accepted>> /\ faults' \in 0..FaultMax
  <2>1. Fault \/ Fine
    BY DEF PostItem
  <2> QED BY <2>1, FaultType DEF PostItem, Types
<1>4. /\ work' = [work EXCEPT ![w] = work'[w]] /\ work'[w] \in Call
      /\ work'[w].at = "writing" /\ work'[w].seen = work[w].seen /\ work'[w].todo = work[w].todo
      /\ work'[w].item = work[w].item
      /\ work'[w].pending = work[w].pending /\ work'[w].failed = work[w].failed
  <2>1. work' = [work EXCEPT ![w].at = "writing", ![w].copy = Idle.copy]
    BY DEF PostItem
  <2>2. Idle.copy \in [leaf : AllLeaves \cup {"none"}, entry : Entry]
    BY EntryFacts DEF Idle
  <2> QED BY <1>1, <2>1, <2>2 DEF Types, Call
<1>5. Shape(work'[w])
  BY <1>1, <1>4 DEF Shape
<1>6. excused' \subseteq AllLeaves
  BY <1>2 DEF PostItem, Types, TypeOK
<1>7. \/ leaf' = leaf
      \/ /\ leaf[work[w].copy.leaf] # Absent
         /\ leaf' = [leaf EXCEPT ![work[w].copy.leaf] = [work[w].copy.entry EXCEPT !.date = "old"]]
  BY DEF PostItem
<1> QED BY <1>1, <1>2, <1>3, <1>4, <1>5, <1>6, <1>7 DEF Steps, Types, TypeOK

LEMMA RefreshStep ==
  ASSUME Types, Shapes, NEW w \in Workers, RefreshItem(w)
  PROVE  Steps(w) /\ leaf' = leaf
<1> DEFINE i == work[w].item
           Onward == [work EXCEPT ![w].at = "picking", ![w].item = "none"]
<1>1. work[w] \in Call /\ Shape(work[w]) /\ work[w].at = "writing" /\ work[w].todo = {}
      /\ i \in work[w].pending /\ i \in Items
  BY DEF Types, Shapes, RefreshItem, Shape, Call
<1>2. UNCHANGED <<run, listed, leaf, scanning, excused>> /\ faults' \in 0..FaultMax
  <2>1. Fault \/ Fine
    BY DEF RefreshItem
  <2> QED BY <2>1, FaultType DEF RefreshItem, Types
<1>3. \/ /\ work' = [Onward EXCEPT ![w].pending = @ \ {i}]
         /\ queue' = queue \cup {i} /\ accepted' = accepted \cup {i}
      \/ work' = Onward /\ UNCHANGED <<queue, accepted>>
      \/ /\ work' = [Onward EXCEPT ![w].pending = @ \ {i}, ![w].failed = @ \cup {i}]
         /\ queue' \subseteq queue \cup {i} /\ accepted' = accepted
  BY DEF RefreshItem
<1>4. /\ work' = [work EXCEPT ![w] = work'[w]] /\ work'[w] \in Call
      /\ work'[w].at = "picking" /\ work'[w].seen = work[w].seen /\ work'[w].todo = {}
      /\ \/ /\ work'[w].pending = work[w].pending \ {i} /\ work'[w].failed = work[w].failed
            /\ queue' = queue \cup {i} /\ accepted' = accepted \cup {i}
         \/ /\ work'[w].pending = work[w].pending /\ work'[w].failed = work[w].failed
            /\ UNCHANGED <<queue, accepted>>
         \/ /\ work'[w].pending = work[w].pending \ {i} /\ work'[w].failed = work[w].failed \cup {i}
            /\ queue' \subseteq queue \cup {i} /\ accepted' = accepted
  <2> DEFINE Same(v) == /\ v = [work EXCEPT ![w] = v[w]] /\ v[w] \in Call
                        /\ v[w].at = "picking" /\ v[w].seen = work[w].seen /\ v[w].todo = {}
  <2>1. Same(Onward) /\ Onward[w].pending = work[w].pending /\ Onward[w].failed = work[w].failed
    BY <1>1 DEF Types, Call
  <2>2. Onward \in [Workers -> Call]
    BY <2>1 DEF Types
  <2> HIDE DEF Onward
  <2>3. CASE /\ work' = [Onward EXCEPT ![w].pending = @ \ {i}]
             /\ queue' = queue \cup {i} /\ accepted' = accepted \cup {i}
    <3>1. Same(work') /\ work'[w].pending = work[w].pending \ {i} /\ work'[w].failed = work[w].failed
      BY <1>1, <2>1, <2>2, <2>3 DEF Types, Call
    <3> QED BY <2>3, <3>1
  <2>4. CASE work' = Onward /\ UNCHANGED <<queue, accepted>>
    BY <2>1, <2>4
  <2>5. CASE /\ work' = [Onward EXCEPT ![w].pending = @ \ {i}, ![w].failed = @ \cup {i}]
             /\ queue' \subseteq queue \cup {i} /\ accepted' = accepted
    <3>1. /\ Same(work') /\ work'[w].pending = work[w].pending \ {i}
          /\ work'[w].failed = work[w].failed \cup {i}
      BY <1>1, <2>1, <2>2, <2>5 DEF Types, Call
    <3> QED BY <2>5, <3>1
  <2> QED BY <1>3, <2>3, <2>4, <2>5
<1>5. work'[w].seen \subseteq work'[w].pending
  BY <1>1, <1>4 DEF Shape
<1>6. Shape(work'[w])
  BY <1>4, <1>5 DEF Shape
<1>7. queue' \subseteq Items /\ accepted' \subseteq Items /\ excused' \subseteq AllLeaves
  BY <1>1, <1>2, <1>4 DEF Types, TypeOK
<1>8. /\ work'[w].pending \subseteq work[w].pending /\ work[w].failed \subseteq work'[w].failed
      /\ accepted \subseteq accepted'
      /\ work[w].pending \subseteq work'[w].pending \cup work'[w].failed \cup accepted'
      /\ \A j \in queue' \ queue : j \in work[w].pending \ work'[w].pending
  BY <1>1, <1>4
<1> QED BY <1>1, <1>2, <1>4, <1>6, <1>7, <1>8 DEF Steps

LEMMA EndRoundStep ==
  ASSUME Types, Shapes, NEW w \in Workers, EndRound(w)
  PROVE  Steps(w) /\ leaf' = leaf
<1>1. work[w] \in Call /\ Shape(work[w]) /\ work[w].at = "picking" /\ work[w].seen = {}
  BY DEF Types, Shapes, EndRound
<1>2. UNCHANGED <<run, jellyfin, accepted, excused>> /\ faults' \in 0..FaultMax
  BY FaultType DEF EndRound, Types
<1>3. CASE work' = [work EXCEPT ![w].at = "round"]
  <2>1. /\ work' = [work EXCEPT ![w] = work'[w]] /\ work'[w] \in Call /\ work'[w].at = "round"
        /\ work'[w].seen = work[w].seen /\ work'[w].todo = work[w].todo
        /\ work'[w].pending = work[w].pending /\ work'[w].failed = work[w].failed
    BY <1>1, <1>3 DEF Types, Call
  <2>2. Shape(work'[w])
    BY <1>1, <2>1 DEF Shape
  <2> QED BY <1>1, <1>2, <2>1, <2>2 DEF Steps, jellyfin, Types, TypeOK
<1>4. CASE work' = [work EXCEPT ![w] = [Idle EXCEPT !.at = "done", !.failed = work[w].failed \cup work[w].pending]]
  <2> DEFINE over == [Idle EXCEPT !.at = "done", !.failed = work[w].failed \cup work[w].pending]
  <2>1. over \in Call /\ over.at = "done" /\ over.seen = {} /\ over.todo = {} /\ over.pending = {}
        /\ over.failed = work[w].failed \cup work[w].pending
    BY <1>1, IdleType DEF Idle, Call
  <2> HIDE DEF over
  <2>2. work'[w] = over /\ work' = [work EXCEPT ![w] = work'[w]]
    BY <1>4 DEF Types, over
  <2>3. Shape(work'[w])
    BY <2>1, <2>2 DEF Shape
  <2> QED BY <1>1, <1>2, <2>1, <2>2, <2>3 DEF Steps, jellyfin, Types, TypeOK
<1> QED BY <1>3, <1>4 DEF EndRound

\* What a call writes to Jellyfin: one leaf of the item it has, as it read it.
Writes(w) ==
  LET l == work[w].copy.leaf
  IN /\ work[w].at = "posting"
     /\ l \in AllLeaves /\ l \in Leaves[work[w].item] /\ work[w].item \in work[w].pending
     /\ leaf[l] # Absent /\ work[w].copy.entry # Absent
     /\ leaf' = [leaf EXCEPT ![l] = [work[w].copy.entry EXCEPT !.date = "old"]]

LEMMA WorkerSteps ==
  ASSUME Types, Shapes, NEW w \in Workers, ResolveAndRefresh(w)
  PROVE  Steps(w) /\ (leaf' = leaf \/ Writes(w))
<1>1. CASE PostItem(w)
  <2>1. work[w].at = "posting" /\ work[w].copy.entry # Absent
    BY <1>1 DEF PostItem, Shapes, Shape
  <2> QED BY <1>1, <2>1, PostItemStep DEF Writes
<1>2. CASE ~PostItem(w)
  BY <1>2, ListStep, PickStep, ReadLeavesStep, ReadItemStep, RefreshStep, EndRoundStep DEF ResolveAndRefresh
<1> QED BY <1>1, <1>2

-----------------------------------------------------------------------------
(* Types *)

LEMMA WorkerTypes ==
  ASSUME Types, Shapes, NEW w \in Workers, Steps(w), leaf' = leaf \/ Writes(w)
  PROVE  Types' /\ Shapes'
<1>1. work' \in [Workers -> Call] /\ Shapes'
  BY DEF Steps, Types, Shapes
<1>2. leaf' \in [AllLeaves -> Entry]
  <2>1. work[w].copy.entry \in Entry
    BY DEF Types, Call
  <2> QED BY <2>1, EntryFacts DEF Writes, Types, TypeOK
<1> QED BY <1>1, <1>2 DEF Steps, run, Types, TypeOK

LEMMA ColdarrTypes ==
  ASSUME Types, Shapes, Coldarr
  PROVE  Types' /\ Shapes'
<1>1. CASE SnapshotAddedDates
  <2>1. Fault \/ Fine
    BY <1>1 DEF SnapshotAddedDates
  <2>2. added' \subseteq AllLeaves
    BY <1>1 DEF SnapshotAddedDates
  <2> QED BY <1>1, <2>1, <2>2, FaultType DEF SnapshotAddedDates, jellyfin, Types, TypeOK, Shapes
<1>2. ASSUME NEW i \in Items, Landed(i) PROVE Types' /\ Shapes'
  <2>1. Fault \/ Fine
    BY <1>2 DEF Landed
  <2>2. {i} \in SUBSET Items /\ i \in Workers
    BY DEF Workers
  <2>3. work' \in [Workers -> Call] /\ Shapes'
    BY <1>2, <2>2, ResolveType DEF Landed, Types, Shapes
  <2>4. told' \in [Items -> Nat] /\ status' \in [Items -> {"moving", "reported", "unreported", "unrecorded", "failed"}]
    BY <1>2 DEF Landed, Types, TypeOK
  <2> QED BY <1>2, <2>1, <2>3, <2>4, FaultType DEF Landed, jellyfin, Types, TypeOK
<1>3. ASSUME NEW i \in Items, MoveFails(i) PROVE Types' /\ Shapes'
  BY <1>3, FaultType DEF MoveFails, jellyfin, Types, TypeOK, Shapes
<1>4. CASE MovesOver
  BY <1>4, FaultType DEF MovesOver, jellyfin, Types, TypeOK, Shapes
<1>5. CASE NotifyJellyfinMoved
  <2>1. Fault \/ Fine
    BY <1>5 DEF NotifyJellyfinMoved
  <2>2. Left \in SUBSET Items /\ "batch" \in Workers
    BY DEF Left, Moved, Workers
  <2>3. work' \in [Workers -> Call] /\ Shapes'
    BY <1>5, <2>2, ResolveType DEF NotifyJellyfinMoved, Types, Shapes
  <2>4. told' \in [Items -> Nat]
    BY <1>5 DEF NotifyJellyfinMoved, Types, TypeOK
  <2> QED BY <1>5, <2>1, <2>3, <2>4, FaultType DEF NotifyJellyfinMoved, jellyfin, Types, TypeOK
<1>6. CASE Notified
  BY <1>6, FaultType DEF Notified, jellyfin, Types, TypeOK, Shapes
<1> QED BY <1>1, <1>2, <1>3, <1>4, <1>5, <1>6 DEF Coldarr

LEMMA JellyfinTypes ==
  ASSUME Types, Shapes, Jellyfin
  PROVE  Types' /\ Shapes'
<1>1. ASSUME NEW i \in Items, Appears(i) PROVE Types' /\ Shapes'
  <2>1. leaf' \in [AllLeaves -> Entry]
    BY <1>1, EntryFacts DEF Appears, Types, TypeOK
  <2> QED BY <1>1, <2>1, FaultType DEF Appears, run, Types, TypeOK, Shapes
<1>2. ASSUME NEW i \in Items, RefreshRuns(i) PROVE Types' /\ Shapes'
  <2>1. leaf' \in [AllLeaves -> Entry]
    BY <1>2, EntryFacts DEF RefreshRuns, Types, TypeOK
  <2> QED BY <1>2, <2>1, FaultType DEF RefreshRuns, run, Types, TypeOK, Shapes
<1>3. ASSUME NEW i \in Items, Vanishes(i) PROVE Types' /\ Shapes'
  <2>1. leaf' \in [AllLeaves -> Entry]
    BY <1>3, EntryFacts DEF Vanishes, Types, TypeOK
  <2> QED BY <1>3, <2>1, FaultType, LeafOf DEF Vanishes, run, Types, TypeOK, Shapes
<1>4. ASSUME NEW l \in AllLeaves, EpisodeAppears(l) PROVE Types' /\ Shapes'
  <2>1. leaf' \in [AllLeaves -> Entry]
    BY <1>4, EntryFacts DEF EpisodeAppears, Types, TypeOK
  <2> QED BY <1>4, <2>1, FaultType DEF EpisodeAppears, run, Types, TypeOK, Shapes
<1>5. ASSUME NEW l \in AllLeaves, ScanTakes(l) PROVE Types' /\ Shapes'
  BY <1>5, FaultType DEF ScanTakes, run, Types, TypeOK, Shapes
<1>6. ASSUME NEW l \in AllLeaves, ScanSaves(l) PROVE Types' /\ Shapes'
  <2>1. leaf' \in [AllLeaves -> Entry] /\ scanning' \in [AllLeaves -> Entry]
    BY <1>6, EntryFacts DEF ScanSaves, Types, TypeOK
  <2> QED BY <1>6, <2>1, FaultType DEF ScanSaves, run, Types, TypeOK, Shapes
<1> QED BY <1>1, <1>2, <1>3, <1>4, <1>5, <1>6 DEF Jellyfin

LEMMA InitTypes == Init => Types /\ Shapes
<1> SUFFICES ASSUME Init PROVE Types /\ Shapes
  OBVIOUS
<1>1. Absent \in Entry
  BY EntryFacts
<1>2. work \in [Workers -> Call] /\ Shapes
  BY IdleType DEF Init, Shapes
<1>3. 0 \in 0..FaultMax
  BY FaultAssumption
<1>4. leaf \in [AllLeaves -> Entry] /\ scanning \in [AllLeaves -> Entry]
  BY <1>1 DEF Init
<1>5. status \in [Items -> {"moving", "reported", "unreported", "unrecorded", "failed"}] /\ told \in [Items -> Nat]
  BY DEF Init
<1> QED BY <1>2, <1>3, <1>4, <1>5 DEF Init, Types, TypeOK

LEMMA NextTypes ==
  ASSUME Types, Shapes, [Next]_vars
  PROVE  Types' /\ Shapes'
<1>1. CASE UNCHANGED vars
  BY <1>1 DEF vars, run, jellyfin, Types, TypeOK, Shapes
<1>2. ASSUME NEW w \in Workers, ResolveAndRefresh(w) PROVE Types' /\ Shapes'
  BY <1>2, WorkerSteps, WorkerTypes
<1> QED BY <1>1, <1>2, ColdarrTypes, JellyfinTypes DEF Next

\* The run, its calls and what Jellyfin has are what their types say, for any items.
THEOREM TypeCorrect == Spec => []TypeOK
<1>1. Types => TypeOK
  BY DEF Types
<1>2. Types /\ Shapes /\ [Next]_vars => (Types /\ Shapes)'
  BY NextTypes
<1> QED BY <1>1, <1>2, InitTypes, PTL DEF Spec

-----------------------------------------------------------------------------
(* Reported once *)

\* Nothing is told of a move still to land; of one whose report failed, what may
\* have come through of that.
Untold == /\ ReportedOnce
          /\ stage \in {"snapshot", "moving", "waiting"} =>
               \A i \in Items : /\ status[i] \in {"moving", "failed"} => told[i] = 0
                                /\ status[i] = "unreported" => told[i] <= 1

LEMMA UntoldKept ==
  ASSUME TypeOK, Untold, [Next]_vars
  PROVE  Untold'
<1>1. CASE UNCHANGED vars \/ Jellyfin
  <2>1. UNCHANGED run
    BY <1>1 DEF Jellyfin, Appears, RefreshRuns, Vanishes, EpisodeAppears, ScanTakes, ScanSaves, vars
  <2> QED BY <2>1 DEF run, Untold, ReportedOnce
<1>2. ASSUME NEW w \in Workers, ResolveAndRefresh(w) PROVE Untold'
  <2>1. UNCHANGED run
    BY <1>2 DEF ResolveAndRefresh, ListItems, Pick, ReadLeaves, ReadItem, PostItem, RefreshItem, EndRound, run
  <2> QED BY <2>1 DEF run, Untold, ReportedOnce
<1>3. CASE SnapshotAddedDates \/ MovesOver
  BY <1>3 DEF SnapshotAddedDates, MovesOver, Untold, ReportedOnce
<1>4. ASSUME NEW i \in Items, Landed(i) PROVE Untold'
  <2>1. told[i] = 0
    BY <1>4 DEF Landed, Untold
  <2> QED BY <1>4, <2>1 DEF Landed, Untold, ReportedOnce, TypeOK
<1>5. ASSUME NEW i \in Items, MoveFails(i) PROVE Untold'
  BY <1>5 DEF MoveFails, Untold, ReportedOnce, TypeOK
<1>6. CASE NotifyJellyfinMoved
  <2>1. \A i \in Unreported : told[i] <= 1 /\ status[i] = "unreported"
    BY <1>6 DEF NotifyJellyfinMoved, Unreported, Left, Moved, Untold
  <2> QED BY <1>6, <2>1 DEF NotifyJellyfinMoved, Untold, ReportedOnce, TypeOK
<1>7. CASE Notified
  BY <1>7 DEF Notified, Untold, ReportedOnce
<1> QED BY <1>1, <1>2, <1>3, <1>4, <1>5, <1>6, <1>7 DEF Next, Coldarr

\* Jellyfin hears of a move once at most, from the runner as it lands; and once more
\* from the batch when that report failed, whether or not it came through.
THEOREM ReportedOnceHolds == Spec => []ReportedOnce
<1>1. Init => Untold
  BY DEF Init, Untold, ReportedOnce
<1>2. TypeOK /\ Untold /\ [Next]_vars => Untold'
  BY UntoldKept
<1>3. Untold => ReportedOnce
  BY DEF Untold
<1> QED BY <1>1, <1>2, <1>3, TypeCorrect, PTL DEF Spec

-----------------------------------------------------------------------------
(* The restore *)

\* An item a call was made for is accepted, failed or still pending; and so is one
\* that moved, of the batch or of its own call, once the batch has begun.
Kept(w, i) == i \in work[w].pending \cup work[w].failed \cup accepted

Resolving ==
  /\ \A i \in Items : work[i].at # "idle" => Kept(i, i)
  /\ stage = "batch" => \A i \in Moved : work[i].at = "done" \/ Kept("batch", i)
  /\ stage # "over" => ~restore
  /\ RestoredAfterAll

LEMMA StepKeeps ==
  ASSUME Types, NEW w \in Workers, Steps(w), NEW v \in Workers, NEW i, Kept(v, i)
  PROVE  Kept(v, i)'
<1>1. CASE v = w
  BY <1>1 DEF Steps, Kept
<1>2. CASE v # w
  <2>1. work'[v] = work[v]
    BY <1>2 DEF Steps, Types
  <2> QED BY <2>1 DEF Steps, Kept
<1> QED BY <1>1, <1>2

LEMMA ResolvingKept ==
  ASSUME Types, Shapes, Resolving, [Next]_vars
  PROVE  Resolving'
<1> USE DEF Resolving
<1>1. CASE UNCHANGED vars \/ Jellyfin
  <2>1. UNCHANGED <<run, work, accepted>>
    BY <1>1 DEF Jellyfin, Appears, RefreshRuns, Vanishes, EpisodeAppears, ScanTakes, ScanSaves, vars
  <2> QED BY <2>1 DEF run, Kept, Moved, RestoredAfterAll
<1>2. ASSUME NEW w \in Workers, ResolveAndRefresh(w) PROVE Resolving'
  <2>1. Steps(w)
    BY <1>2, WorkerSteps
  <2>2. UNCHANGED run /\ Moved' = Moved /\ accepted \subseteq accepted'
    BY <2>1 DEF Steps, run, Moved
  <2>3. \A i \in Items : /\ work'[i].at # "idle" => work[i].at # "idle"
                         /\ work[i].at = "done" => work'[i].at = "done"
    BY <2>1 DEF Steps, Types, Workers
  <2>4. Items \cup {"batch"} \subseteq Workers
    BY DEF Workers
  <2>5. \A i \in Items : work'[i].at # "idle" => Kept(i, i)'
    BY <2>1, <2>3, <2>4, StepKeeps
  <2>6. stage' = "batch" => \A i \in Moved' : work'[i].at = "done" \/ Kept("batch", i)'
    <3> SUFFICES ASSUME stage = "batch", NEW i \in Moved PROVE work'[i].at = "done" \/ Kept("batch", i)'
      BY <2>2 DEF run
    <3>1. i \in Items /\ (work[i].at = "done" \/ Kept("batch", i))
      BY DEF Moved
    <3> QED BY <2>1, <2>3, <2>4, <3>1, StepKeeps
  <2>7. RestoredAfterAll'
    BY <2>2 DEF RestoredAfterAll, run
  <2> QED BY <2>2, <2>5, <2>6, <2>7 DEF run
<1>3. CASE SnapshotAddedDates
  BY <1>3 DEF SnapshotAddedDates, Kept, Moved, RestoredAfterAll
<1>4. ASSUME NEW i \in Items, Landed(i) PROVE Resolving'
  <2>1. i \in Workers /\ {i} \in SUBSET Items
    BY DEF Workers
  <2>2. work' = work \/ work' = [work EXCEPT ![i] = Resolve({i})]
    BY <1>4 DEF Landed
  <2>3. \A j \in Items : work'[j].at # "idle" => Kept(j, j)'
    <3>1. UNCHANGED accepted
      BY <1>4 DEF Landed
    <3>2. CASE work' = work
      BY <3>1, <3>2 DEF Kept
    <3>3. CASE work' = [work EXCEPT ![i] = Resolve({i})]
      BY <2>1, <3>1, <3>3, ResolveType DEF Kept, Types
    <3> QED BY <2>2, <3>2, <3>3
  <2> QED BY <1>4, <2>3 DEF Landed, RestoredAfterAll
<1>5. ASSUME NEW i \in Items, MoveFails(i) PROVE Resolving'
  BY <1>5 DEF MoveFails, Kept, RestoredAfterAll
<1>6. CASE MovesOver
  BY <1>6 DEF MovesOver, Kept, Moved, RestoredAfterAll
<1>7. CASE NotifyJellyfinMoved
  <2>1. Left \in SUBSET Items /\ "batch" \in Workers /\ "batch" \notin Items
    BY ItemsAssumption DEF Left, Moved, Workers
  <2>2. work' = [work EXCEPT !["batch"] = Resolve(Left)] /\ UNCHANGED <<accepted, status, restore>> /\ stage' = "batch"
    BY <1>7 DEF NotifyJellyfinMoved
  <2>3. \A i \in Items : work'[i] = work[i]
    BY <2>1, <2>2 DEF Types
  <2>4. work'["batch"].pending = Left
    BY <2>1, <2>2, ResolveType DEF Types
  <2>5. Moved' = Moved /\ Moved \subseteq Items
    BY <2>2 DEF Moved
  <2>6. \A i \in Moved : work'[i].at = "done" \/ Kept("batch", i)'
    BY <2>3, <2>4, <2>5 DEF Kept, Left, Outcomes
  <2>7. ~restore' /\ stage' # "over"
    BY <1>7, <2>2 DEF NotifyJellyfinMoved
  <2> QED BY <2>2, <2>3, <2>5, <2>6, <2>7 DEF Kept, RestoredAfterAll
<1>8. CASE Notified
  <2>1. work["batch"].pending = {} /\ \A i \in Items : work[i].at = "done" => work[i].pending = {}
    BY <1>8 DEF Notified, Shapes, Shape, Workers
  <2>2. Failed = {} => Moved \subseteq accepted
    <3> SUFFICES ASSUME Failed = {}, NEW i \in Moved PROVE i \in accepted
      OBVIOUS
    <3>1. i \in Items /\ work["batch"].failed = {} /\ work[i].failed = {}
      BY DEF Failed, Moved
    <3>2. (Kept(i, i) /\ work[i].pending = {}) \/ Kept("batch", i)
      BY <1>8, <2>1, <3>1 DEF Notified
    <3> QED BY <2>1, <3>1, <3>2 DEF Kept
  <2> QED BY <1>8, <2>2 DEF Notified, RestoredAfterAll, Moved, Kept
<1> QED BY <1>1, <1>2, <1>3, <1>4, <1>5, <1>6, <1>7, <1>8 DEF Next, Coldarr

\* The user-data restore starts only when the refresh of every item that moved was
\* accepted; when one was not, the library scan is asked for.
THEOREM RestoredAfterAllHolds == Spec => []RestoredAfterAll
<1>1. Init => Resolving
  BY DEF Init, Resolving, RestoredAfterAll, Idle, Workers
<1>2. Types /\ Shapes /\ Resolving /\ [Next]_vars => (Types /\ Shapes /\ Resolving)'
  BY NextTypes, ResolvingKept
<1>3. Resolving => RestoredAfterAll
  BY DEF Resolving
<1> QED BY <1>1, <1>2, <1>3, InitTypes, PTL DEF Spec

-----------------------------------------------------------------------------
(* Nothing undoes a refresh *)

\* Somebody still has to resolve it, or will.
Open(i) ==
  \/ (work[i].at = "idle" /\ stage \notin {"batch", "over"})
  \/ \E w \in Workers : i \in work[w].pending

\* Each goroutine has its own item, and the batch begins when they are all done.
OneCallEach ==
  /\ work["batch"].at # "idle" => /\ stage \in {"batch", "over"}
                                  /\ \A i \in Items : work[i].at \in {"idle", "done"}
  /\ \A i \in Items : work[i].pending \subseteq {i}
  /\ \A i \in Items : status[i] = "moving" => work[i].at = "idle"

Unrefreshed ==
  /\ \A i \in Items : Open(i) => i \notin queue /\ \A l \in Leaves[i] : leaf[l].meta # "full"
  /\ \A w \in Workers : work[w].at = "posting" => work[w].copy.entry.meta # "full"
  /\ \A l \in AllLeaves : scanning[l] # Absent => leaf[l].meta # "full"
  /\ \A l \in AllLeaves : leaf[l] # Absent \/ scanning[l] # Absent => ItemOf(l) \in listed

KeepsFull == \A l \in AllLeaves : leaf[l].meta = "full" => leaf'[l].meta = "full"

\* Who has an item to resolve is the only one.
LEMMA OnePending ==
  ASSUME Types, Shapes, OneCallEach, NEW v \in Workers, NEW i \in work[v].pending
  PROVE  /\ work[i].at # "idle" \/ stage \in {"batch", "over"}
         /\ \A w \in Workers : i \in work[w].pending => w = v
<1>1. \A w \in Workers : work[w].at \in {"idle", "done"} => work[w].pending = {}
  BY DEF Shapes, Shape
<1>2. i \in Items /\ Workers = Items \cup {"batch"}
  BY DEF Types, Call, Workers
<1>3. CASE v = "batch"
  <2>1. work["batch"].at # "idle"
    BY <1>1, <1>3
  <2> QED BY <1>1, <1>2, <1>3, <2>1 DEF OneCallEach
<1>4. CASE v \in Items
  <2>1. v = i /\ work[i].at \notin {"idle", "done"}
    BY <1>1, <1>4 DEF OneCallEach
  <2>2. work["batch"].at = "idle" /\ work["batch"].pending = {}
    BY <1>1, <1>2, <2>1 DEF OneCallEach
  <2> QED BY <1>2, <1>4, <2>1, <2>2 DEF OneCallEach
<1> QED BY <1>2, <1>3, <1>4

LEMMA OneCallEachKept ==
  ASSUME Types, Shapes, OneCallEach, [Next]_vars
  PROVE  OneCallEach'
<1>1. CASE UNCHANGED vars \/ Jellyfin
  <2>1. UNCHANGED <<run, work>>
    BY <1>1 DEF Jellyfin, Appears, RefreshRuns, Vanishes, EpisodeAppears, ScanTakes, ScanSaves, vars
  <2> QED BY <2>1 DEF run, OneCallEach
<1>2. ASSUME NEW w \in Workers, ResolveAndRefresh(w) PROVE OneCallEach'
  <2>1. Steps(w)
    BY <1>2, WorkerSteps
  <2>2. UNCHANGED run /\ \A v \in Workers : v # w => work'[v] = work[v]
    BY <2>1 DEF Steps, Types
  <2>3. work'[w].pending \subseteq work[w].pending /\ work[w].at \notin {"idle", "done"} /\ work'[w].at # "idle"
    BY <2>1 DEF Steps
  <2>4. Workers = Items \cup {"batch"} /\ "batch" \notin Items
    BY ItemsAssumption DEF Workers
  <2>5. \A i \in Items : work'[i].pending \subseteq {i}
    BY <2>2, <2>3, <2>4 DEF OneCallEach
  <2>6. \A i \in Items : status'[i] = "moving" => work'[i].at = "idle"
    BY <2>2, <2>3, <2>4 DEF OneCallEach, run
  <2>7. CASE w = "batch"
    BY <2>2, <2>3, <2>4, <2>5, <2>6, <2>7 DEF OneCallEach, run
  <2>8. CASE w # "batch"
    <3>1. work'["batch"].at = "idle"
      BY <2>2, <2>3, <2>4, <2>8 DEF OneCallEach
    <3> QED BY <2>5, <2>6, <3>1 DEF OneCallEach
  <2> QED BY <2>7, <2>8
<1>3. CASE SnapshotAddedDates \/ MovesOver
  BY <1>3 DEF SnapshotAddedDates, MovesOver, OneCallEach
<1>4. ASSUME NEW i \in Items, Landed(i) PROVE OneCallEach'
  <2>1. i \in Workers /\ {i} \in SUBSET Items /\ "batch" \notin Items /\ "batch" \in Workers
    BY ItemsAssumption DEF Workers
  <2>2. stage = "moving" /\ work["batch"].at = "idle"
    BY <1>4 DEF Landed, OneCallEach
  <2>5. status'[i] # "moving" /\ \A j \in Items : j # i => status'[j] = status[j]
    BY <1>4 DEF Landed, Types, TypeOK
  <2>3. /\ \A v \in Workers : v # i => work'[v] = work[v]
        /\ work'[i].pending \in {work[i].pending, {i}}
    <3>1. CASE work' = work
      BY <3>1
    <3>2. CASE work' = [work EXCEPT ![i] = Resolve({i})]
      BY <2>1, <3>2, ResolveType DEF Types
    <3> QED BY <1>4, <3>1, <3>2 DEF Landed
  <2>4. Items \subseteq Workers
    BY DEF Workers
  <2> QED BY <2>1, <2>2, <2>3, <2>4, <2>5 DEF OneCallEach
<1>5. ASSUME NEW i \in Items, MoveFails(i) PROVE OneCallEach'
  BY <1>5 DEF MoveFails, OneCallEach, Types, TypeOK
<1>6. CASE NotifyJellyfinMoved
  <2>1. "batch" \notin Items
    BY ItemsAssumption
  <2>2. \A i \in Items : work'[i] = work[i] /\ work[i].at \in {"idle", "done"}
    BY <1>6, <2>1 DEF NotifyJellyfinMoved, Types, Workers
  <2>3. stage' = "batch" /\ UNCHANGED status
    BY <1>6 DEF NotifyJellyfinMoved
  <2> QED BY <2>2, <2>3 DEF OneCallEach
<1>7. CASE Notified
  BY <1>7 DEF Notified, OneCallEach
<1> QED BY <1>1, <1>2, <1>3, <1>4, <1>5, <1>6, <1>7 DEF Next, Coldarr

\* A call opens no item, and one whose refresh it has asked for is nobody's any more.
LEMMA StepOpens ==
  ASSUME Types, Shapes, OneCallEach, NEW w \in Workers, Steps(w), NEW i \in Items, Open(i)'
  PROVE  Open(i) /\ (i \in queue' => i \in queue)
<1>1. UNCHANGED run /\ \A v \in Workers : v # w => work'[v] = work[v]
  BY DEF Steps, Types
<1>2. work'[w].pending \subseteq work[w].pending /\ work'[w].at # "idle"
      /\ (i \in queue' /\ i \notin queue => i \in work[w].pending \ work'[w].pending)
  BY DEF Steps
<1>3. i \in Workers
  BY DEF Workers
<1>4. CASE work'[i].at = "idle" /\ stage' \notin {"batch", "over"}
  <2>1. work[i].at = "idle" /\ stage \notin {"batch", "over"}
    BY <1>1, <1>2, <1>3, <1>4 DEF run
  <2>2. i \notin work[w].pending
    BY <2>1, OnePending
  <2> QED BY <1>2, <2>1, <2>2 DEF Open
<1>5. ASSUME NEW v \in Workers, i \in work'[v].pending PROVE Open(i) /\ (i \in queue' => i \in queue)
  <2>1. i \in work[v].pending
    BY <1>1, <1>2, <1>5
  <2>2. i \in work[w].pending => w = v
    BY <2>1, OnePending
  <2> QED BY <1>2, <1>5, <2>1, <2>2 DEF Open
<1> QED BY <1>4, <1>5 DEF Open

LEMMA JellyfinUnrefreshed ==
  ASSUME Types, Unrefreshed, Jellyfin
  PROVE  Unrefreshed' /\ KeepsFull
<1>1. UNCHANGED <<run, work>> /\ \A i \in Items : Open(i)' = Open(i)
  BY DEF Jellyfin, Appears, RefreshRuns, Vanishes, EpisodeAppears, ScanTakes, ScanSaves, run, Open
<1>2. leaf \in [AllLeaves -> Entry] /\ scanning \in [AllLeaves -> Entry]
  BY DEF Types, TypeOK
<1>3. ASSUME NEW i \in Items, Appears(i) PROVE Unrefreshed' /\ KeepsFull
  <2>1. UNCHANGED <<scanning, queue>> /\ listed' = listed \cup {i} /\ i \notin listed
    BY <1>3 DEF Appears
  <2>2. PICK d \in Dates : leaf' = IF i \in Movies THEN [l \in AllLeaves |-> IF l \in Leaves[i] THEN [date |-> d, meta |-> "new"] ELSE leaf[l]]
                                    ELSE leaf
    BY <1>3 DEF Appears
  <2>3. \A l \in Leaves[i] : l \in AllLeaves /\ leaf[l] = Absent /\ leaf[l].meta # "full"
    BY <2>1, LeafOf, EntryFacts DEF Unrefreshed
  <2>4. \A l \in AllLeaves : \/ leaf'[l] = leaf[l]
                             \/ l \in Leaves[i] /\ leaf'[l].meta = "new" /\ ItemOf(l) = i
    BY <2>2, LeafOf
  <2> QED BY <1>1, <2>1, <2>3, <2>4, LeafOf DEF Unrefreshed, KeepsFull
<1>4. ASSUME NEW i \in Items, RefreshRuns(i) PROVE Unrefreshed' /\ KeepsFull
  <2>1. UNCHANGED <<scanning, listed>> /\ queue' \subseteq queue /\ ~Open(i)
    BY <1>4 DEF RefreshRuns, Unrefreshed
  <2>2. \A l \in AllLeaves : \/ leaf'[l] = leaf[l]
                             \/ /\ l \in Leaves[i] /\ leaf[l] # Absent /\ scanning[l] = Absent
                                /\ leaf'[l].meta = "full"
    BY <1>2, <1>4, EntryFacts DEF RefreshRuns
  <2> QED BY <1>1, <2>1, <2>2, LeafOf DEF Unrefreshed, KeepsFull
<1>5. ASSUME NEW i \in Items, Vanishes(i) PROVE Unrefreshed' /\ KeepsFull
  <2>1. UNCHANGED <<scanning, queue>> /\ listed' = listed \ {i}
    BY <1>5 DEF Vanishes
  <2>2. \A l \in AllLeaves : \/ leaf'[l] = leaf[l] /\ l \notin Leaves[i]
                             \/ l \in Leaves[i] /\ leaf'[l] = Absent /\ leaf[l].meta # "full"
    BY <1>5 DEF Vanishes
  <2>3. \A l \in Leaves[i] : l \in AllLeaves /\ scanning[l] = Absent
    BY <1>5, LeafOf DEF Vanishes
  <2> QED BY <1>1, <2>1, <2>2, <2>3, LeafOf, EntryFacts DEF Unrefreshed, KeepsFull
<1>6. ASSUME NEW l \in AllLeaves, EpisodeAppears(l) PROVE Unrefreshed' /\ KeepsFull
  <2>1. UNCHANGED <<scanning, queue, listed>> /\ ItemOf(l) \in listed /\ leaf[l].meta # "full"
    BY <1>6, EntryFacts DEF EpisodeAppears
  <2>2. \A k \in AllLeaves : leaf'[k] = leaf[k] \/ (k = l /\ leaf'[k].meta = "new")
    BY <1>2, <1>6 DEF EpisodeAppears
  <2> QED BY <1>1, <2>1, <2>2, LeafOf DEF Unrefreshed, KeepsFull
<1>7. ASSUME NEW l \in AllLeaves, ScanTakes(l) PROVE Unrefreshed' /\ KeepsFull
  <2>1. UNCHANGED <<leaf, queue, listed>> /\ leaf[l].meta # "full" /\ leaf[l] # Absent
    BY <1>7, EntryFacts DEF ScanTakes
  <2>2. \A k \in AllLeaves : scanning'[k] = scanning[k] \/ k = l
    BY <1>2, <1>7 DEF ScanTakes
  <2> QED BY <1>1, <2>1, <2>2 DEF Unrefreshed, KeepsFull
<1>8. ASSUME NEW l \in AllLeaves, ScanSaves(l) PROVE Unrefreshed' /\ KeepsFull
  <2>1. UNCHANGED <<queue, listed>> /\ leaf[l].meta # "full" /\ scanning[l] # Absent
    BY <1>8 DEF ScanSaves, Unrefreshed
  <2>2. \A k \in AllLeaves : leaf'[k] = leaf[k] \/ (k = l /\ leaf'[k].meta = "scanned")
    BY <1>2, <1>8, EntryFacts DEF ScanSaves
  <2>3. \A k \in AllLeaves : scanning'[k] = scanning[k] \/ (k = l /\ scanning'[k] = Absent)
    BY <1>2, <1>8 DEF ScanSaves
  <2>4. ItemOf(l) \in listed
    BY <2>1 DEF Unrefreshed
  <2> QED BY <1>1, <2>1, <2>2, <2>3, <2>4, LeafOf DEF Unrefreshed, KeepsFull
<1> QED BY <1>3, <1>4, <1>5, <1>6, <1>7, <1>8 DEF Jellyfin

LEMMA WorkerUnrefreshed ==
  ASSUME Types, Shapes, OneCallEach, Unrefreshed, NEW w \in Workers, Steps(w), leaf' = leaf \/ Writes(w)
  PROVE  Unrefreshed' /\ KeepsFull
<1>1. /\ UNCHANGED <<listed, scanning>> /\ \A v \in Workers : v # w => work'[v] = work[v]
      /\ work'[w] \in Call /\ Shape(work'[w]) /\ work'[w].pending \subseteq work[w].pending
      /\ work'[w].at = "posting" => work'[w].copy.entry = leaf[work'[w].copy.leaf]
  BY DEF Steps, Types
<1>2. \A l \in AllLeaves : \/ leaf'[l] = leaf[l]
                           \/ leaf[l] # Absent /\ leaf[l].meta # "full" /\ leaf'[l].meta # "full"
  <2>1. CASE Writes(w)
    <3>1. /\ work[w].copy.leaf \in AllLeaves /\ leaf[work[w].copy.leaf] # Absent
          /\ leaf' = [leaf EXCEPT ![work[w].copy.leaf] = [work[w].copy.entry EXCEPT !.date = "old"]]
      BY <2>1 DEF Writes
    <3>2. Open(work[w].item) /\ work[w].item \in Items /\ leaf[work[w].copy.leaf].meta # "full"
      BY <2>1 DEF Writes, Open, Unrefreshed, Types, Call
    <3>3. [work[w].copy.entry EXCEPT !.date = "old"].meta # "full"
      BY <2>1, EntryFacts DEF Writes, Unrefreshed, Types, Call
    <3> QED BY <3>1, <3>2, <3>3 DEF Types, TypeOK
  <2>2. CASE leaf' = leaf
    BY <2>2
  <2> QED BY <2>1, <2>2
<1>3. KeepsFull
  BY <1>2 DEF KeepsFull
<1>4. \A i \in Items : Open(i)' => i \notin queue' /\ \A l \in Leaves[i] : leaf'[l].meta # "full"
  BY <1>2, StepOpens, LeafOf DEF Unrefreshed
<1>5. \A v \in Workers : work'[v].at = "posting" => work'[v].copy.entry.meta # "full"
  <2>1. ASSUME work'[w].at = "posting" PROVE work'[w].copy.entry.meta # "full"
    <3>1. /\ work'[w].item \in work[w].pending /\ work'[w].item \in Items
          /\ work'[w].copy.leaf \in Leaves[work'[w].item]
      BY <1>1, <2>1 DEF Shape, Call
    <3>2. leaf[work'[w].copy.leaf].meta # "full"
      BY <3>1 DEF Open, Unrefreshed
    <3> QED BY <1>1, <2>1, <3>2
  <2> QED BY <1>1, <2>1 DEF Unrefreshed
<1>6. \A l \in AllLeaves : /\ scanning'[l] # Absent => leaf'[l].meta # "full"
                           /\ leaf'[l] # Absent \/ scanning'[l] # Absent => ItemOf(l) \in listed'
  BY <1>1, <1>2 DEF Unrefreshed
<1> QED BY <1>3, <1>4, <1>5, <1>6 DEF Unrefreshed

LEMMA ColdarrUnrefreshed ==
  ASSUME Types, Shapes, OneCallEach, Unrefreshed, Coldarr
  PROVE  Unrefreshed' /\ KeepsFull
<1>1. UNCHANGED jellyfin
  BY DEF Coldarr, SnapshotAddedDates, Landed, MoveFails, MovesOver, NotifyJellyfinMoved, Notified
<1>2. ASSUME NEW i \in Items, Open(i)' PROVE Open(i)
  <2>1. CASE SnapshotAddedDates \/ MovesOver \/ Notified
    BY <1>2, <2>1 DEF SnapshotAddedDates, MovesOver, Notified, Open
  <2>2. ASSUME NEW j \in Items, Landed(j) PROVE Open(i)
    <3>1. j \in Workers /\ i \in Workers /\ {j} \in SUBSET Items
      BY DEF Workers
    <3>2. Open(j) /\ stage = "moving" /\ stage' = "moving"
      BY <2>2 DEF Landed, OneCallEach, Open
    <3>3. CASE work' = work
      BY <1>2, <3>2, <3>3 DEF Open
    <3>4. CASE work' = [work EXCEPT ![j] = Resolve({j})]
      <4>1. /\ \A v \in Workers : v # j => work'[v] = work[v]
            /\ work'[j].pending = {j} /\ work'[j].at # "idle"
        BY <3>1, <3>4, ResolveType DEF Types
      <4> QED BY <1>2, <3>1, <3>2, <4>1 DEF Open
    <3> QED BY <2>2, <3>3, <3>4 DEF Landed
  <2>3. ASSUME NEW j \in Items, MoveFails(j) PROVE Open(i)
    BY <1>2, <2>3 DEF MoveFails, Open
  <2>4. CASE NotifyJellyfinMoved
    <3>1. Left \in SUBSET Items /\ "batch" \in Workers
      BY DEF Left, Moved, Workers
    <3>2. /\ \A v \in Workers : v # "batch" => work'[v] = work[v]
          /\ work'["batch"].pending = Left
      BY <2>4, <3>1, ResolveType DEF NotifyJellyfinMoved, Types
    <3>3. \A j \in Left : work[j].at = "idle" /\ stage = "waiting"
      BY <2>4, <3>1 DEF NotifyJellyfinMoved, Left, Outcomes
    <3>4. stage' = "batch"
      BY <2>4 DEF NotifyJellyfinMoved
    <3> QED BY <1>2, <3>2, <3>3, <3>4 DEF Open
  <2> QED BY <2>1, <2>2, <2>3, <2>4 DEF Coldarr
<1>3. \A w \in Workers : work'[w].at = "posting" => work'[w] = work[w]
  <2>1. CASE SnapshotAddedDates \/ MovesOver \/ Notified
    BY <2>1 DEF SnapshotAddedDates, MovesOver, Notified
  <2>2. ASSUME NEW j \in Items, Landed(j) PROVE work' = work \/ work' = [work EXCEPT ![j] = Resolve({j})]
    BY <2>2 DEF Landed
  <2>3. ASSUME NEW j \in Items, MoveFails(j) PROVE work' = work
    BY <2>3 DEF MoveFails
  <2>4. CASE NotifyJellyfinMoved
    <3>1. Left \in SUBSET Items
      BY DEF Left, Moved
    <3> QED BY <2>4, <3>1, ResolveType DEF NotifyJellyfinMoved, Types
  <2>5. \A j \in Items : {j} \in SUBSET Items
    OBVIOUS
  <2>6. ASSUME NEW j \in Items, Landed(j), NEW w \in Workers, work'[w].at = "posting" PROVE work'[w] = work[w]
    BY <2>2, <2>5, <2>6, ResolveType DEF Types
  <2> QED BY <2>1, <2>3, <2>4, <2>6 DEF Coldarr
<1> QED BY <1>1, <1>2, <1>3 DEF jellyfin, Unrefreshed, KeepsFull

LEMMA NextUnrefreshed ==
  ASSUME Types, Shapes, OneCallEach, Unrefreshed, [Next]_vars
  PROVE  Unrefreshed' /\ KeepsFull
<1>1. CASE UNCHANGED vars
  BY <1>1 DEF vars, run, jellyfin, Unrefreshed, Open, KeepsFull
<1>2. ASSUME NEW w \in Workers, ResolveAndRefresh(w) PROVE Unrefreshed' /\ KeepsFull
  BY <1>2, WorkerSteps, WorkerUnrefreshed
<1> QED BY <1>1, <1>2, ColdarrUnrefreshed, JellyfinUnrefreshed DEF Next

LEMMA InitUnrefreshed == Init => OneCallEach /\ Unrefreshed
<1> SUFFICES ASSUME Init PROVE OneCallEach /\ Unrefreshed
  OBVIOUS
<1>1. \A w \in Workers : work[w].at = "idle" /\ work[w].pending = {}
  BY DEF Init, Idle
<1>2. Items \cup {"batch"} \subseteq Workers
  BY DEF Workers
<1>3. OneCallEach
  BY <1>1, <1>2 DEF OneCallEach
<1>4. \A l \in AllLeaves : leaf[l] = Absent /\ scanning[l] = Absent /\ leaf[l].meta # "full"
  BY EntryFacts DEF Init
<1> QED BY <1>1, <1>3, <1>4, LeafOf DEF Init, Unrefreshed

\* A leaf that was refreshed stays so: neither Coldarr's copy of an item, sent back
\* whole, nor that of Jellyfin's scan, is older than the refresh.
THEOREM RefreshedLastHolds == Spec => RefreshedLast
<1>1. Init => OneCallEach /\ Unrefreshed
  BY InitUnrefreshed
<1>2. Types /\ Shapes /\ OneCallEach /\ Unrefreshed /\ [Next]_vars
      => (Types /\ Shapes /\ OneCallEach /\ Unrefreshed)' /\ KeepsFull
  BY NextTypes, OneCallEachKept, NextUnrefreshed
<1>3. Types /\ Shapes /\ OneCallEach /\ Unrefreshed /\ [Next]_vars
      => [\A l \in AllLeaves : leaf[l].meta = "full" => leaf'[l].meta = "full"]_vars
  BY <1>2 DEF KeepsFull
<1> QED BY <1>1, <1>2, <1>3, InitTypes, PTL DEF Spec, RefreshedLast

-----------------------------------------------------------------------------
(* The dates *)

\* At the old date, or excused.
Dated(l) == l \in excused \/ leaf[l].date = "old"

\* What a call has not yet dated it has still to write, or is writing; and the movies
\* it was shown at the old date are.
Dating(w) ==
  /\ work[w].at \in {"writing", "posting"} =>
       \A l \in Leaves[work[w].item] \cap added :
         l \in work[w].todo \/ (work[w].at = "posting" /\ work[w].copy.leaf = l) \/ Dated(l)
  /\ \A i \in work[w].seen \cap Movies : \A l \in Leaves[i] \cap added : work[w].shown[l] = "old" => Dated(l)
  /\ work[w].at = "round" => work[w].seen = {}

Datings ==
  /\ DatesPutBack
  /\ \A w \in Workers : Dating(w)
  /\ stage = "snapshot" => accepted = {} /\ \A w \in Workers : work[w].at = "idle"

StaysDated == \A l \in AllLeaves \cap added : Dated(l) => Dated(l)'

\* A call that is left alone stays as good.
LEMMA DatingStays ==
  ASSUME Types, Shapes, StaysDated, added' = added, NEW w \in Workers, Dating(w), work'[w] = work[w]
  PROVE  Dating(w)'
<1>1. /\ work[w].seen \subseteq Items /\ \A i \in Items : Leaves[i] \subseteq AllLeaves
      /\ work[w].at \in {"writing", "posting"} => work[w].item \in Items
  BY LeafOf DEF Types, Shapes, Shape, Call
<1>2. \A i \in Items : \A l \in Leaves[i] \cap added : Dated(l) => Dated(l)'
  BY <1>1 DEF StaysDated
<1> QED BY <1>1, <1>2 DEF Dating

\* A step of a call.
LEMMA StepDates ==
  ASSUME Types, Shapes, Datings, NEW w \in Workers, Steps(w), StaysDated, Dating(w)',
         \A i \in accepted' \ accepted : \A l \in Leaves[i] \cap added : Dated(l)'
  PROVE  Datings'
<1>1. UNCHANGED run /\ added' = added /\ stage' = stage /\ \A v \in Workers : v # w => work'[v] = work[v]
  BY DEF Steps, Types, run
<1>2. \A v \in Workers : Dating(v)'
  BY <1>1, DatingStays DEF Datings
<1>3. DatesPutBack'
  <2> SUFFICES ASSUME NEW i \in accepted', NEW l \in Leaves[i] \cap added PROVE Dated(l)'
    BY <1>1 DEF DatesPutBack, Dated
  <2>1. CASE i \in accepted
    <3>1. Dated(l) /\ l \in AllLeaves
      BY <2>1, LeafOf DEF Datings, DatesPutBack, Dated, Types, TypeOK
    <3> QED BY <3>1 DEF StaysDated
  <2> QED BY <2>1
<1>4. stage # "snapshot"
  BY DEF Steps, Datings
<1> QED BY <1>1, <1>2, <1>3, <1>4 DEF Datings

LEMMA ExcusesMore ==
  ASSUME leaf' = leaf, excused \subseteq excused'
  PROVE  StaysDated
BY DEF StaysDated, Dated

LEMMA ListDates ==
  ASSUME Types, Shapes, Datings, NEW w \in Workers, NEW final \in BOOLEAN, ListItems(w, final)
  PROVE  Datings'
<1>1. Steps(w) /\ leaf' = leaf /\ UNCHANGED <<accepted, excused, added>>
  BY ListStep DEF ListItems, run
<1> DEFINE now == work[w].pending \cap listed
<1>2. work[w] \in Call /\ work[w].seen = {}
  BY DEF Types, ListItems, Datings, Dating
<1>3. /\ work'[w].at = "picking"
      /\ work'[w].seen = {} \/ (work'[w].seen = now /\ work'[w].shown = Listed(now))
  <2> DEFINE table == Listed(now)
  <2> HIDE DEF now, table
  <2>1. \/ work' = [work EXCEPT ![w].at = "picking", ![w].final = final, ![w].seen = now, ![w].shown = table]
        \/ work' = [work EXCEPT ![w].at = "picking", ![w].final = final]
    BY DEF ListItems, now, table
  <2>2. work'[w].at = "picking" /\ (work'[w].seen = {} \/ (work'[w].seen = now /\ work'[w].shown = table))
    BY <1>2, <2>1 DEF Types, Call
  <2> QED BY <2>2 DEF table
<1>4. \A i \in now \cap Movies : \A l \in Leaves[i] : Listed(now)[l] = leaf[l].date
  BY <1>2, LeafOf DEF Listed, Call
<1>5. Dating(w)'
  <2> HIDE DEF now
  <2> QED BY <1>1, <1>3, <1>4 DEF Dating, Dated
<1> QED BY <1>1, <1>5, StepDates, ExcusesMore

\* The date that is shown of a leaf decides whether it is written.
LEMMA PutBackDates ==
  ASSUME Types, Shapes, Datings, NEW w \in Workers, work[w].at \in {"picking", "reading"},
         NEW i \in work[w].pending, NEW shown, PutBackAddedDates(w, i, shown),
         leaf' = leaf, added' = added,
         \A l \in Leaves[i] \cap added : shown[l] \in Dates \cup {"none"} /\ (shown[l] = "old" => Dated(l))
  PROVE  Dating(w)' /\ excused \subseteq excused'
<1>1. work[w] \in Call /\ Shape(work[w]) /\ i \in Items /\ Leaves[i] \subseteq AllLeaves
  BY LeafOf DEF Types, Shapes, Call
<1>2. \A j \in work[w].seen \cap Movies : \A l \in Leaves[j] \cap added : work[w].shown[l] = "old" => Dated(l)
  BY DEF Datings, Dating
<1> DEFINE missing == {l \in Leaves[i] \cap added : shown[l] = "none"}
<1>3. CASE MustWait(i, missing, work[w].final)
  <2>1. work' = [work EXCEPT ![w].at = "picking", ![w].seen = @ \ {i}, ![w].item = "none"] /\ excused' = excused
    BY <1>3 DEF PutBackAddedDates
  <2>2. work'[w].at = "picking" /\ work'[w].seen = work[w].seen \ {i} /\ work'[w].shown = work[w].shown
    BY <1>1, <2>1 DEF Types, Call
  <2> QED BY <1>2, <2>1, <2>2 DEF Dating, Dated
<1>4. CASE ~MustWait(i, missing, work[w].final)
  <2> DEFINE writes == {l \in Leaves[i] \cap added : shown[l] = "move"}
             rest == [l \in AllLeaves |-> IF l \in Leaves[i] THEN "none" ELSE work[w].shown[l]]
  <2>1. /\ work' = [work EXCEPT ![w].at = "writing", ![w].seen = @ \ {i}, ![w].item = i,
                                ![w].shown = rest, ![w].todo = writes]
        /\ excused' = IF work[w].final \/ i \in Movies THEN excused \cup missing ELSE excused
    BY <1>4 DEF PutBackAddedDates
  <2>2. missing = {} \/ work[w].final \/ i \in Movies
    BY <1>1, <1>4 DEF MustWait, Items
  <2>3. \A l \in Leaves[i] \cap added : l \in writes \/ l \in excused' \/ Dated(l)
    BY <2>1, <2>2 DEF Dates
  <2>4. \A l \in AllLeaves : rest[l] = "old" => work[w].shown[l] = "old"
    OBVIOUS
  <2> HIDE DEF writes, missing, rest
  <2>5. work'[w].at = "writing" /\ work'[w].seen = work[w].seen \ {i} /\ work'[w].todo = writes
        /\ work'[w].item = i /\ work'[w].shown = rest
    BY <1>1, <2>1 DEF Types, Call
  <2>6. excused \subseteq excused'
    BY <2>1
  <2>7. \A j \in work'[w].seen \cap Movies : \A l \in Leaves[j] \cap added' : work'[w].shown[l] = "old" => Dated(l)'
    <3> SUFFICES ASSUME NEW j \in work[w].seen \cap Movies, NEW l \in Leaves[j] \cap added, rest[l] = "old"
                 PROVE  Dated(l)'
      BY <2>5
    <3>1. l \in AllLeaves
      BY <1>1, LeafOf DEF Items
    <3> QED BY <1>2, <2>4, <2>6, <3>1 DEF Dated
  <2>8. \A l \in Leaves[work'[w].item] \cap added' : l \in work'[w].todo \/ Dated(l)'
    BY <2>3, <2>5, <2>6 DEF Dated
  <2> QED BY <2>5, <2>6, <2>7, <2>8 DEF Dating
<1> QED BY <1>3, <1>4

LEMMA PickDates ==
  ASSUME Types, Shapes, Datings, NEW w \in Workers, NEW i \in Items, Pick(w, i)
  PROVE  Datings'
<1>1. Steps(w) /\ leaf' = leaf /\ UNCHANGED <<accepted, added>>
  BY PickStep DEF Pick, run
<1>2. work[w] \in Call /\ work[w].at = "picking" /\ i \in work[w].pending /\ i \in work[w].seen
  BY DEF Types, Shapes, Shape, Pick
<1>3. CASE i \in Series /\ Leaves[i] \cap added # {}
  <2>1. work' = [work EXCEPT ![w].at = "reading", ![w].seen = @ \ {i}, ![w].item = i] /\ excused' = excused
    BY <1>3 DEF Pick
  <2>2. work'[w].at = "reading" /\ work'[w].seen = work[w].seen \ {i} /\ work'[w].shown = work[w].shown
    BY <1>2, <2>1 DEF Types, Call
  <2>3. Dating(w)'
    BY <1>1, <2>1, <2>2 DEF Datings, Dating, Dated
  <2> QED BY <1>1, <2>1, <2>3, StepDates, ExcusesMore
<1>4. CASE ~(i \in Series /\ Leaves[i] \cap added # {})
  <2>1. PutBackAddedDates(w, i, work[w].shown)
    BY <1>4 DEF Pick
  <2>2. \A l \in Leaves[i] \cap added :
          work[w].shown[l] \in Dates \cup {"none"} /\ (work[w].shown[l] = "old" => Dated(l))
    <3> SUFFICES ASSUME NEW l \in Leaves[i] \cap added
                 PROVE  work[w].shown[l] \in Dates \cup {"none"} /\ (work[w].shown[l] = "old" => Dated(l))
      OBVIOUS
    <3>1. i \in Movies /\ l \in AllLeaves
      BY <1>4, LeafOf DEF Items
    <3> QED BY <1>2, <3>1 DEF Call, Datings, Dating
  <2>3. Dating(w)' /\ excused \subseteq excused'
    BY <1>1, <1>2, <2>1, <2>2, PutBackDates
  <2> QED BY <1>1, <2>3, StepDates, ExcusesMore
<1> QED BY <1>3, <1>4

LEMMA ReadLeavesDates ==
  ASSUME Types, Shapes, Datings, NEW w \in Workers, ReadLeaves(w)
  PROVE  Datings'
<1> DEFINE i == work[w].item
<1>1. Steps(w) /\ leaf' = leaf /\ UNCHANGED <<accepted, added>>
  BY ReadLeavesStep DEF ReadLeaves, run
<1>2. work[w] \in Call /\ work[w].at = "reading" /\ i \in work[w].pending /\ i \in Items
  BY DEF Types, Shapes, Shape, ReadLeaves, Call
<1>3. \A j \in work[w].seen \cap Movies : \A l \in Leaves[j] \cap added : work[w].shown[l] = "old" => Dated(l)
  BY DEF Datings, Dating
<1>4. CASE PutBackAddedDates(w, i, [l \in AllLeaves |-> leaf[l].date])
  <2> DEFINE shown == [l \in AllLeaves |-> leaf[l].date]
  <2>1. \A l \in Leaves[i] \cap added : shown[l] \in Dates \cup {"none"} /\ (shown[l] = "old" => Dated(l))
    BY <1>2, LeafOf, EntryFacts DEF Dated, Types, TypeOK
  <2> HIDE DEF shown
  <2>2. PutBackAddedDates(w, i, shown)
    BY <1>4 DEF shown
  <2>3. Dating(w)' /\ excused \subseteq excused'
    BY <1>1, <1>2, <2>1, <2>2, PutBackDates
  <2> QED BY <1>1, <2>3, StepDates, ExcusesMore
<1>5. CASE work' = [work EXCEPT ![w].at = "writing"] /\ excused' = excused \cup Leaves[i]
  <2>1. work'[w].at = "writing" /\ work'[w].seen = work[w].seen /\ work'[w].shown = work[w].shown
        /\ work'[w].item = i
    BY <1>2, <1>5 DEF Types, Call
  <2>2. Dating(w)'
    BY <1>1, <1>3, <1>5, <2>1 DEF Dating, Dated
  <2> QED BY <1>1, <1>5, <2>2, StepDates, ExcusesMore
<1>6. CASE work' = [work EXCEPT ![w].at = "picking", ![w].item = "none"] /\ UNCHANGED excused
  <2>1. work'[w].at = "picking" /\ work'[w].seen = work[w].seen /\ work'[w].shown = work[w].shown
    BY <1>2, <1>6 DEF Types, Call
  <2>2. Dating(w)'
    BY <1>1, <1>3, <1>6, <2>1 DEF Dating, Dated
  <2> QED BY <1>1, <1>6, <2>2, StepDates, ExcusesMore
<1> QED BY <1>4, <1>5, <1>6 DEF ReadLeaves

LEMMA ReadItemDates ==
  ASSUME Types, Shapes, Datings, NEW w \in Workers, NEW l \in AllLeaves, ReadItem(w, l)
  PROVE  Datings'
<1>1. Steps(w) /\ leaf' = leaf /\ UNCHANGED <<accepted, added>>
  BY ReadItemStep DEF ReadItem, run
<1>2. work[w] \in Call /\ work[w].at = "writing"
  BY DEF Types, ReadItem
<1>3. /\ \A j \in work[w].seen \cap Movies : \A k \in Leaves[j] \cap added : work[w].shown[k] = "old" => Dated(k)
      /\ \A k \in Leaves[work[w].item] \cap added : k \in work[w].todo \/ Dated(k)
  BY <1>2 DEF Datings, Dating
<1>4. \/ /\ work'[w].at = "posting" /\ work'[w].copy.leaf = l /\ excused' = excused
      \/ /\ work'[w].at = "writing" /\ excused' = excused \cup {l}
  <2> DEFINE copy == [leaf |-> l, entry |-> leaf[l]]
  <2>1. copy.leaf = l
    OBVIOUS
  <2> HIDE DEF copy
  <2>2. CASE UNCHANGED excused /\ work' = [work EXCEPT ![w].at = "posting", ![w].todo = @ \ {l}, ![w].copy = copy]
    BY <1>2, <2>1, <2>2 DEF Types, Call
  <2>3. CASE work' = [work EXCEPT ![w].todo = @ \ {l}] /\ excused' = excused \cup {l}
    BY <1>2, <2>3 DEF Types, Call
  <2> QED BY <2>2, <2>3 DEF ReadItem, copy
<1>5. work'[w].seen = work[w].seen /\ work'[w].shown = work[w].shown /\ work'[w].todo = work[w].todo \ {l}
      /\ work'[w].item = work[w].item
  <2> DEFINE copy == [leaf |-> l, entry |-> leaf[l]]
  <2> HIDE DEF copy
  <2>1. \/ work' = [work EXCEPT ![w].at = "posting", ![w].todo = @ \ {l}, ![w].copy = copy]
        \/ work' = [work EXCEPT ![w].todo = @ \ {l}]
    BY DEF ReadItem, copy
  <2> QED BY <1>2, <2>1 DEF Types, Call
<1>6. excused \subseteq excused'
  BY <1>4
<1>7. Dating(w)'
  BY <1>1, <1>3, <1>4, <1>5, <1>6 DEF Dating, Dated
<1> QED BY <1>1, <1>6, <1>7, StepDates, ExcusesMore

LEMMA PostItemDates ==
  ASSUME Types, Shapes, Datings, NEW w \in Workers, PostItem(w)
  PROVE  Datings'
<1>0. PICK l : l = work[w].copy.leaf
  OBVIOUS
<1> DEFINE entry == [work[w].copy.entry EXCEPT !.date = "old"]
<1>1. Steps(w) /\ l \in Leaves[work[w].item] /\ l \in AllLeaves /\ UNCHANGED <<accepted, added>>
  BY <1>0, PostItemStep DEF PostItem, run
<1>2. work[w] \in Call /\ work[w].at = "posting" /\ leaf \in [AllLeaves -> Entry]
  BY DEF Types, TypeOK, PostItem
<1>3. entry.date = "old"
  <2>1. \A e \in Entry : [e EXCEPT !.date = "old"].date = "old"
    BY DEF Entry, Absent
  <2> QED BY <1>2, <2>1 DEF Call
<1>4. /\ leaf' = leaf \/ leaf' = [leaf EXCEPT ![l] = entry]
      /\ excused' = excused \/ excused' = excused \cup {l}
      /\ l \in excused' \/ leaf' = [leaf EXCEPT ![l] = entry]
  BY <1>0 DEF PostItem
<1> HIDE DEF entry
<1>5. Dated(l)' /\ \A k \in AllLeaves : Dated(k) => Dated(k)'
  <2>1. Dated(l)'
    BY <1>1, <1>2, <1>3, <1>4 DEF Dated
  <2>2. \A k \in AllLeaves : k # l => leaf'[k] = leaf[k]
    BY <1>2, <1>4
  <2>3. excused \subseteq excused'
    BY <1>4
  <2> QED BY <2>1, <2>2, <2>3 DEF Dated
<1>6. /\ work'[w].at = "writing" /\ work'[w].seen = work[w].seen /\ work'[w].shown = work[w].shown
      /\ work'[w].todo = work[w].todo /\ work'[w].item = work[w].item
  BY <1>2 DEF PostItem, Types, Call
<1>7. /\ work[w].seen \subseteq Items /\ work[w].item \in Items /\ \A i \in Items : Leaves[i] \subseteq AllLeaves
  BY <1>2, LeafOf DEF Types, Shapes, Shape, Call
<1>8. Dating(w)'
  <2>0. Dating(w)
    BY DEF Datings
  <2>1. \A j \in work[w].seen \cap Movies : \A k \in Leaves[j] \cap added : work[w].shown[k] = "old" => Dated(k)'
    BY <1>5, <1>7, <2>0 DEF Dating
  <2>2. \A k \in Leaves[work[w].item] \cap added : k \in work[w].todo \/ k = l \/ Dated(k)
    BY <1>0, <1>2, <2>0 DEF Dating
  <2>3. \A k \in Leaves[work[w].item] \cap added : k \in work[w].todo \/ Dated(k)'
    BY <1>5, <1>7, <2>2
  <2> QED BY <1>1, <1>6, <2>1, <2>3 DEF Dating
<1>9. StaysDated
  BY <1>5 DEF StaysDated
<1> QED BY <1>1, <1>8, <1>9, StepDates

LEMMA RefreshDates ==
  ASSUME Types, Shapes, Datings, NEW w \in Workers, RefreshItem(w)
  PROVE  Datings'
<1> DEFINE i == work[w].item
           Onward == [work EXCEPT ![w].at = "picking", ![w].item = "none"]
<1>1. Steps(w) /\ leaf' = leaf /\ excused' = excused /\ added' = added
  BY RefreshStep DEF RefreshItem, run
<1>2. work[w] \in Call /\ work[w].at = "writing" /\ work[w].todo = {}
  BY DEF Types, RefreshItem
<1>3. \A l \in Leaves[i] \cap added : Dated(l)
  BY <1>2 DEF Datings, Dating
<1>4. accepted' = accepted \cup {i} \/ accepted' = accepted
  BY DEF RefreshItem
<1>5. work'[w].at = "picking" /\ work'[w].seen = work[w].seen /\ work'[w].shown = work[w].shown
  <2> DEFINE Same(v) == v[w].at = "picking" /\ v[w].seen = work[w].seen /\ v[w].shown = work[w].shown
  <2>1. Same(Onward) /\ Onward \in [Workers -> Call]
    BY <1>2 DEF Types, Call
  <2>2. \/ work' = [Onward EXCEPT ![w].pending = @ \ {i}]
        \/ work' = Onward
        \/ work' = [Onward EXCEPT ![w].pending = @ \ {i}, ![w].failed = @ \cup {i}]
    BY DEF RefreshItem
  <2> HIDE DEF Onward
  <2> QED BY <2>1, <2>2 DEF Call
<1>6. Dating(w)'
  BY <1>1, <1>5 DEF Datings, Dating, Dated
<1>7. \A j \in accepted' \ accepted : \A l \in Leaves[j] \cap added : Dated(l)'
  BY <1>1, <1>3, <1>4 DEF Dated
<1> QED BY <1>1, <1>6, <1>7, StepDates, ExcusesMore

LEMMA EndRoundDates ==
  ASSUME Types, Shapes, Datings, NEW w \in Workers, EndRound(w)
  PROVE  Datings'
<1>1. Steps(w) /\ leaf' = leaf /\ UNCHANGED <<accepted, excused, added>>
  BY EndRoundStep DEF EndRound, run
<1>2. work[w] \in Call /\ work[w].seen = {}
  BY DEF Types, EndRound
<1>3. work'[w].at \in {"round", "done"} /\ work'[w].seen = {}
  <2>1. CASE work' = [work EXCEPT ![w].at = "round"]
    BY <1>2, <2>1 DEF Types, Call
  <2>2. CASE work' = [work EXCEPT ![w] = [Idle EXCEPT !.at = "done", !.failed = work[w].failed \cup work[w].pending]]
    BY <2>2 DEF Types, Idle
  <2> QED BY <2>1, <2>2 DEF EndRound
<1>4. Dating(w)'
  BY <1>3 DEF Dating
<1> QED BY <1>1, <1>4, StepDates, ExcusesMore

\* What Jellyfin does costs no leaf its old date without excusing it.
LEMMA JellyfinDates ==
  ASSUME Types, Shapes, Unrefreshed, Datings, Jellyfin
  PROVE  Datings'
<1>1. UNCHANGED <<run, work, accepted>>
  BY DEF Jellyfin, Appears, RefreshRuns, Vanishes, EpisodeAppears, ScanTakes, ScanSaves
<1>2. leaf \in [AllLeaves -> Entry] /\ scanning \in [AllLeaves -> Entry]
  BY DEF Types, TypeOK
<1>3. StaysDated
  <2>1. ASSUME NEW i \in Items, Appears(i) PROVE StaysDated
    <3>1. \A l \in AllLeaves : leaf'[l] = leaf[l] \/ (l \in Leaves[i] /\ i \notin listed)
      BY <2>1 DEF Appears
    <3>2. \A l \in AllLeaves : l \in Leaves[i] /\ i \notin listed => leaf[l] = Absent
      BY LeafOf DEF Unrefreshed
    <3> QED BY <2>1, <3>1, <3>2, EntryFacts DEF Appears, StaysDated, Dated
  <2>2. ASSUME NEW i \in Items, RefreshRuns(i) PROVE StaysDated
    <3>1. \A e \in Entry : [e EXCEPT !.meta = "full"].date = e.date
      BY DEF Entry, Absent
    <3>2. \A l \in AllLeaves : leaf'[l].date = leaf[l].date
      BY <1>2, <2>2, <3>1 DEF RefreshRuns
    <3> QED BY <2>2, <3>2 DEF RefreshRuns, StaysDated, Dated
  <2>3. ASSUME NEW i \in Items, Vanishes(i) PROVE StaysDated
    <3>1. \A l \in AllLeaves : leaf'[l] = leaf[l] \/ l \in Leaves[i]
      BY <2>3 DEF Vanishes
    <3> QED BY <2>3, <3>1 DEF Vanishes, StaysDated, Dated
  <2>4. ASSUME NEW l \in AllLeaves, EpisodeAppears(l) PROVE StaysDated
    <3>1. \A k \in AllLeaves : leaf'[k] = leaf[k] \/ leaf[k] = Absent
      BY <1>2, <2>4 DEF EpisodeAppears
    <3> QED BY <2>4, <3>1, EntryFacts DEF EpisodeAppears, StaysDated, Dated
  <2>5. ASSUME NEW l \in AllLeaves, ScanTakes(l) PROVE StaysDated
    BY <2>5 DEF ScanTakes, StaysDated, Dated
  <2>6. ASSUME NEW l \in AllLeaves, ScanSaves(l) PROVE StaysDated
    <3>1. \A e \in Entry : [e EXCEPT !.meta = "scanned"].date = e.date
      BY DEF Entry, Absent
    <3>2. \A k \in AllLeaves : k # l => leaf'[k] = leaf[k]
      BY <1>2, <2>6 DEF ScanSaves
    <3>3. leaf'[l].date = scanning[l].date
      BY <1>2, <2>6, <3>1 DEF ScanSaves
    <3> QED BY <2>6, <3>2, <3>3 DEF ScanSaves, StaysDated, Dated
  <2> QED BY <2>1, <2>2, <2>3, <2>4, <2>5, <2>6 DEF Jellyfin
<1>4. \A w \in Workers : Dating(w)'
  BY <1>1, <1>3, DatingStays DEF Datings, run
<1>5. DatesPutBack'
  <2> SUFFICES ASSUME NEW i \in accepted, NEW l \in Leaves[i] \cap added PROVE Dated(l)'
    BY <1>1 DEF DatesPutBack, Dated, run
  <2>1. Dated(l) /\ l \in AllLeaves
    BY LeafOf DEF Datings, DatesPutBack, Dated, Types, TypeOK
  <2> QED BY <1>3, <2>1 DEF StaysDated
<1> QED BY <1>1, <1>4, <1>5 DEF Datings, run

LEMMA ColdarrDates ==
  ASSUME Types, Shapes, Datings, Coldarr
  PROVE  Datings'
<1>1. UNCHANGED <<leaf, excused, accepted>> /\ StaysDated
  <2>1. UNCHANGED <<leaf, excused, accepted>>
    BY DEF Coldarr, SnapshotAddedDates, Landed, MoveFails, MovesOver, NotifyJellyfinMoved, Notified, jellyfin
  <2> QED BY <2>1, ExcusesMore
<1>2. CASE SnapshotAddedDates
  <2>1. accepted' = {} /\ work' = work /\ stage' = "moving" /\ \A w \in Workers : work[w].at = "idle"
    BY <1>2 DEF SnapshotAddedDates, Datings
  <2>2. \A w \in Workers : work[w].seen = {}
    BY <2>1 DEF Shapes, Shape
  <2> QED BY <2>1, <2>2 DEF Datings, Dating, DatesPutBack
<1>3. ASSUME ~SnapshotAddedDates, UNCHANGED added, stage' # "snapshot",
             \A w \in Workers : work'[w] = work[w] \/ \E items \in SUBSET Items : work'[w] = Resolve(items)
      PROVE  Datings'
  <2>1. ASSUME NEW w \in Workers PROVE Dating(w)'
    <3>1. CASE work'[w] = work[w]
      BY <1>1, <1>3, <3>1, DatingStays DEF Datings
    <3>2. ASSUME NEW items \in SUBSET Items, work'[w] = Resolve(items) PROVE Dating(w)'
      <4>1. work'[w].seen = {} /\ work'[w].at \in {"round", "done"}
        BY <3>2 DEF Resolve, Idle
      <4> QED BY <4>1 DEF Dating
    <3> QED BY <1>3, <3>1, <3>2
  <2>2. DatesPutBack'
    BY <1>1, <1>3 DEF Datings, DatesPutBack
  <2> QED BY <1>3, <2>1, <2>2 DEF Datings
<1>4. ASSUME NEW i \in Items, Landed(i) PROVE Datings'
  <2>1. {i} \in SUBSET Items
    OBVIOUS
  <2>2. work' = work \/ work' = [work EXCEPT ![i] = Resolve({i})]
    BY <1>4 DEF Landed
  <2>3. \A w \in Workers : work'[w] = work[w] \/ \E items \in SUBSET Items : work'[w] = Resolve(items)
    BY <2>1, <2>2 DEF Types
  <2>4. UNCHANGED added /\ stage = "moving" /\ stage' = "moving"
    BY <1>4 DEF Landed
  <2> QED BY <1>3, <2>3, <2>4 DEF SnapshotAddedDates
<1>5. CASE NotifyJellyfinMoved
  <2>1. Left \in SUBSET Items
    BY DEF Left, Moved
  <2>2. \A w \in Workers : work'[w] = work[w] \/ \E items \in SUBSET Items : work'[w] = Resolve(items)
    BY <1>5, <2>1 DEF NotifyJellyfinMoved, Types
  <2>3. UNCHANGED added /\ stage = "waiting" /\ stage' = "batch"
    BY <1>5 DEF NotifyJellyfinMoved
  <2> QED BY <1>3, <2>2, <2>3 DEF SnapshotAddedDates
<1>6. CASE MovesOver \/ Notified \/ \E i \in Items : MoveFails(i)
  <2>1. UNCHANGED <<added, work>> /\ stage # "snapshot" /\ stage' # "snapshot"
    BY <1>6 DEF MovesOver, Notified, MoveFails
  <2> QED BY <1>3, <2>1 DEF SnapshotAddedDates
<1> QED BY <1>2, <1>4, <1>5, <1>6 DEF Coldarr

LEMMA NextDates ==
  ASSUME Types, Shapes, Unrefreshed, Datings, [Next]_vars
  PROVE  Datings'
<1>1. CASE UNCHANGED vars
  <2>1. UNCHANGED <<run, work, accepted, leaf, excused>>
    BY <1>1 DEF vars, jellyfin
  <2> QED BY <2>1 DEF run, Datings, Dating, Dated, DatesPutBack
<1>2. ASSUME NEW w \in Workers, ResolveAndRefresh(w) PROVE Datings'
  BY <1>2, ListDates, PickDates, ReadLeavesDates, ReadItemDates, PostItemDates, RefreshDates, EndRoundDates
     DEF ResolveAndRefresh
<1> QED BY <1>1, <1>2, ColdarrDates, JellyfinDates DEF Next

\* Whatever was refreshed is back at its old date unless something excused it: for any
\* movies and series and however many of them one call resolves, since what a call has
\* not written by then it found at that date.
THEOREM DatesPutBackHolds == Spec => []DatesPutBack
<1> DEFINE IInv == Types /\ Shapes /\ OneCallEach /\ Unrefreshed /\ Datings
<1>1. Init => IInv
  <2> SUFFICES ASSUME Init PROVE Datings
    BY InitTypes, InitUnrefreshed
  <2>1. \A w \in Workers : work[w].at = "idle" /\ work[w].seen = {}
    BY DEF Init, Idle
  <2> QED BY <2>1 DEF Init, Datings, Dating, DatesPutBack
<1>2. IInv /\ [Next]_vars => IInv'
  BY NextTypes, OneCallEachKept, NextUnrefreshed, NextDates
<1>3. IInv => DatesPutBack
  BY DEF Datings
<1> QED BY <1>1, <1>2, <1>3, PTL DEF Spec
=============================================================================
