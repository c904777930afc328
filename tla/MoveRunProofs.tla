--------------------------- MODULE MoveRunProofs ---------------------------
(***************************************************************************)
(* Theorems about MoveRun, for every plan, every choice of volumes and any *)
(* number of entries.  The inductive invariant IInv says how what Coldarr  *)
(* knows of an entry limits what the app can be doing with it, in which    *)
(* order a queue is worked off, what earlier and later phases look like,   *)
(* and why an entry was not attempted.                                     *)
(***************************************************************************)
EXTENDS MoveRun, TLAPS

\* What at[e] tells about the app's side of the move, and about landed.
KnowsTransfer ==
  \A e \in Entries :
    /\ at[e] \in {"pending", "skipped", "verify", "asking"} => transfer[e] = "none"
    /\ MayWrite(e) /\ e \notin landed => at[e] \in {"waiting", "settling", "abandoned"}
    /\ e \in landed => /\ at[e] \in {"reporting", "recording", "done", "failed"}
                       /\ transfer[e] \in {"whole", "over"} \/ Unmeasured(e)
    /\ at[e] \in {"reporting", "recording", "done"} => e \in landed

\* A queue is worked off in order, and nothing behind an abandoned entry is
\* attempted.
QueueOrder ==
  \A e \in Entries : \A f \in QueueMates(e) :
    f < e => /\ at[e] \in InHand \cup Returned => at[f] \in {"done", "failed"}
             /\ at[f] = "abandoned" => at[e] = "skipped"

\* Earlier phases have landed, later ones have not been touched.
PhaseOrder ==
  \A e \in Entries :
    /\ plan[e].phase < phase => e \in landed /\ Decided(e)
    /\ plan[e].phase > phase =>
         at[e] = "pending" \/ (at[e] = "skipped" /\ stage # "running")
    /\ stage # "running" => Decided(e)

\* phaseLanded says whether the current phase has landed as far as decided.
PhaseVerdict ==
  /\ phaseLanded => \A e \in InPhase(phase) : Decided(e) => e \in landed
  /\ ~phaseLanded => \E e \in InPhase(phase) : Decided(e) /\ e \notin landed

\* Why an entry was skipped; the cause is itself final.
SkipCause ==
  \A e \in Entries : at[e] = "skipped" =>
    \/ \E f \in QueueMates(e) : f < e /\ at[f] = "abandoned"
    \/ /\ stage # "running"
       /\ \E f \in Entries : plan[f].phase < plan[e].phase /\ f \notin landed

\* The room found by verifyRoom is still there when the bytes arrive.
Holds(e) == at[e] = "asking" \/ MayWrite(e)
RoomHeld ==
  DevicesResolved =>
    \A e \in Entries :
      Holds(e) /\ SizesKnown(e) =>
        used[DestDisk(e)] + plan[e].bytes <= Limit[plan[e].dest] + drift[DestDisk(e)]

FollowUps ==
  \A e \in Entries :
    /\ followUps[e] <= 1
    /\ at[e] \notin {"recording", "done", "failed"} => followUps[e] = 0
    /\ stage = "closed" /\ ~opts.serial /\ at[e] = "done" => followUps[e] = 1

IInv == /\ TypeOK /\ KnowsTransfer /\ QueueOrder /\ PhaseOrder
        /\ PhaseVerdict /\ SkipCause /\ RoomHeld /\ FollowUps

-----------------------------------------------------------------------------
(* Type correctness *)

\* A run never changes the plan or the options it was given.
LEMMA PlanFixed == [Next]_vars => plan' = plan /\ opts' = opts
<1>1. ASSUME NEW e \in Entries, QueueStep(e) PROVE plan' = plan /\ opts' = opts
  BY <1>1 DEF QueueStep, Start, VerifyPasses, VerifyFails, SkipRequest, SendRequest,
     Accepted, Refused, LostAnswer, SettleFails, SettleLands, Report, Record,
     FailSafely, Abandon
<1>2. RunStep => plan' = plan /\ opts' = opts
  BY DEF RunStep, NextPhase, EndRun, CloseRun
<1>3. World => plan' = plan /\ opts' = opts
  BY DEF World, AppAccepts, AppRefuses, AppFails, AppCopies, AppFinishes, AppStep, OtherWrites
<1> QED BY <1>1, <1>2, <1>3 DEF Next, vars

\* The initial states are well typed.
LEMMA TypeInit == Init => TypeOK
  BY EntriesAssumption, PathsAssumption, PlansAssumption
     DEF Init, TypeOK, Steps, TransferStates, PlanPhases, IsLeast, Entry

\* Every step keeps the variables in their types.
LEMMA TypeStep == TypeOK /\ [Next]_vars => TypeOK'
<1> SUFFICES ASSUME TypeOK, [Next]_vars PROVE TypeOK'
  OBVIOUS
<1> USE EntriesAssumption, PathsAssumption, PlansAssumption
    DEF TypeOK, Steps, InHand, Returned, TransferStates, engineVars, worldVars
<1>1. ASSUME NEW e \in Entries, QueueStep(e) PROVE TypeOK'
  <2>1. CASE Start(e) BY <2>1 DEF Start
  <2>2. CASE VerifyPasses(e) BY <2>2 DEF VerifyPasses
  <2>3. CASE FailSafely(e) BY <2>3 DEF FailSafely
  <2>4. CASE SendRequest(e) BY <2>4 DEF SendRequest
  <2>5. CASE Accepted(e) BY <2>5 DEF Accepted
  <2>6. CASE Abandon(e) BY <2>6 DEF Abandon
  <2>7. CASE SettleLands(e) BY <2>7 DEF SettleLands
  <2>8. CASE Report(e) BY <2>8 DEF Report
  <2>9. CASE Record(e) BY <2>9 DEF Record
  <2> QED
    BY <1>1, <2>1, <2>2, <2>3, <2>4, <2>5, <2>6, <2>7, <2>8, <2>9
       DEF QueueStep, VerifyFails, SkipRequest, Refused, LostAnswer, SettleFails
<1>2. CASE NextPhase BY <1>2 DEF NextPhase, LaterPhases, PlanPhases, IsLeast, Entry
<1>3. CASE EndRun BY <1>3 DEF EndRun
<1>4. CASE CloseRun BY <1>4 DEF CloseRun
<1>5. ASSUME NEW e \in Entries,
             AppAccepts(e) \/ AppRefuses(e) \/ AppFails(e) \/ AppCopies(e) \/ AppFinishes(e)
      PROVE  TypeOK'
  <2> /\ DestDisk(e) \in Disks /\ SrcDisk(e) \in Disks
      /\ plan[e].bytes \in Int
    BY DEF DestDisk, SrcDisk, Entry
  <2>1. \A from, to \in TransferStates :
          AppStep(e, from, to) /\ used' \in [Disks -> Int] => TypeOK'
    BY DEF AppStep
  <2>2. used' \in [Disks -> Int]
    BY <1>5 DEF AppAccepts, AppRefuses, AppFails, AppCopies, AppFinishes
  <2> QED
    BY <1>5, <2>1, <2>2 DEF AppAccepts, AppRefuses, AppFails, AppCopies, AppFinishes
<1>6. ASSUME NEW d \in Disks, OtherWrites(d) PROVE TypeOK'
  BY <1>6 DEF OtherWrites
<1>7. CASE UNCHANGED vars BY <1>7 DEF vars
<1> QED BY <1>1, <1>2, <1>3, <1>4, <1>5, <1>6, <1>7 DEF Next, RunStep, World

\* Every variable of a run stays in its type.
THEOREM TypeCorrect == Spec => []TypeOK
  BY TypeInit, TypeStep, PTL DEF Spec
-----------------------------------------------------------------------------
(* The inductive invariant *)

\* Queues, phases and volumes are those of the plan, which does not change.
FrameFacts ==
  /\ \A e \in Entries : /\ QueueMates(e)' = QueueMates(e)
                        /\ QueueMates(e) \subseteq Entries
                        /\ \A f \in QueueMates(e) : /\ QueueMates(f) = QueueMates(e)
                                                    /\ e \in QueueMates(f)
                                                    /\ plan[f].phase = plan[e].phase
                        /\ DestDisk(e) \in Disks
                        /\ plan[e].phase \in Nat
                        /\ DestDisk(e)' = DestDisk(e)
                        /\ crossed \subseteq crossed' /\ SizesKnown(e)' => SizesKnown(e)
  /\ InPhase(phase)' = {e \in Entries : plan[e].phase = phase'}
  /\ InPhase(phase) = {e \in Entries : plan[e].phase = phase}
  /\ DevicesResolved' = DevicesResolved

\* A step that keeps the plan and the options keeps what is read off them.
LEMMA Frame ==
  ASSUME TypeOK, plan' = plan, opts' = opts
  PROVE  FrameFacts
<1>1. plan \in [Entries -> Entry]
  BY PlansAssumption DEF TypeOK
<1>2. \A e \in Entries : DestDisk(e) \in Disks /\ plan[e].phase \in Nat
  BY <1>1, PathsAssumption DEF Entry, DestDisk
<1>3. \A e \in Entries : \A f \in QueueMates(e) :
        QueueMates(f) = QueueMates(e) /\ e \in QueueMates(f) /\ plan[f].phase = plan[e].phase
  BY DEF QueueMates
<1>4. \A e \in Entries : QueueOf(e)' = QueueOf(e)
  BY DEF QueueOf
<1>5. \A e \in Entries : /\ QueueMates(e)' = QueueMates(e)
                        /\ QueueMates(e) \subseteq Entries
                        /\ DestDisk(e)' = DestDisk(e)
  BY <1>4 DEF QueueMates, DestDisk
<1>6. /\ InPhase(phase)' = {e \in Entries : plan[e].phase = phase'}
      /\ InPhase(phase) = {e \in Entries : plan[e].phase = phase}
      /\ DevicesResolved' = DevicesResolved
  BY DEF InPhase, DevicesResolved
<1>7. \A e \in Entries : crossed \subseteq crossed' /\ SizesKnown(e)' => SizesKnown(e)
  BY <1>5 DEF SizesKnown
<1> QED
  BY <1>2, <1>3, <1>5, <1>6, <1>7 DEF FrameFacts

\* Only the current phase has entries in hand.
LEMMA InHandNow ==
  ASSUME IInv, NEW e \in Entries, at[e] \in InHand
  PROVE  plan[e].phase = phase /\ stage = "running" /\ (e \in landed => at[e] \in {"reporting", "recording"})
<1>1. plan[e].phase \in Nat /\ phase \in Nat
  BY PlansAssumption DEF IInv, TypeOK, Entry
<1> QED
  BY <1>1 DEF IInv, InHand, Returned, PhaseOrder, Decided, KnowsTransfer

\* The invariant holds before anything has been asked for.
LEMMA InitIInv == Init => IInv
<1> SUFFICES ASSUME Init PROVE IInv
  OBVIOUS
<1>1. TypeOK BY TypeInit
<1>2. KnowsTransfer BY DEF Init, KnowsTransfer, Unmeasured, MayWrite
<1>3. QueueOrder BY DEF Init, QueueOrder, InHand, Returned, QueueMates
<1>4. PhaseOrder
  <2>1. \A e \in Entries : plan[e].phase \in Nat /\ phase \in Nat /\ phase <= plan[e].phase
    BY <1>1, PlansAssumption DEF Init, PlanPhases, IsLeast, TypeOK, Entry
  <2> QED BY <2>1 DEF Init, PhaseOrder, Decided
<1>5. PhaseVerdict BY DEF Init, PhaseVerdict, Decided, Returned, InPhase
<1>6. SkipCause BY DEF Init, SkipCause
<1>7. RoomHeld BY DEF Init, RoomHeld, Holds, MayWrite
<1>8. FollowUps BY DEF Init, FollowUps
<1> QED BY <1>1, <1>2, <1>3, <1>4, <1>5, <1>6, <1>7, <1>8 DEF IInv

\* A goroutine takes an entry only behind entries that landed or failed safely.
LEMMA StartIInv ==
  ASSUME IInv, TypeOK', NEW e \in Entries, Start(e)
  PROVE  IInv'
<1> USE EntriesAssumption DEF IInv, TypeOK, Steps, InHand, Returned, Start, worldVars, FrameFacts
<1>0. plan' = plan /\ opts' = opts OBVIOUS
<1>1. FrameFacts BY <1>0, Frame
<1> USE <1>0, <1>1
<1>2. KnowsTransfer' BY DEF KnowsTransfer, Unmeasured, MayWrite
<1>3. QueueOrder' BY DEF QueueOrder
<1>4. PhaseOrder' BY DEF PhaseOrder, Decided, KnowsTransfer
<1>5. PhaseVerdict' BY DEF PhaseVerdict, Decided, KnowsTransfer
<1>6. SkipCause' BY DEF SkipCause, PhaseOrder, Decided
<1>7. RoomHeld' BY DEF RoomHeld, Holds, MayWrite
<1>8. FollowUps' BY DEF FollowUps, PhaseOrder, Decided
<1> QED BY <1>2, <1>3, <1>4, <1>5, <1>6, <1>7, <1>8

\* An entry in hand that goes on, or lands for good, disturbs no order.
LEMMA Advance ==
  ASSUME IInv, NEW e \in Entries, at[e] \in InHand,
         NEW s \in InHand \cup {"done", "failed"}, at' = [at EXCEPT ![e] = s],
         s \in {"done", "failed"} => e \in landed,
         landed' = landed \/ landed' = landed \cup {e},
         UNCHANGED <<plan, opts, phase, phaseLanded, stage>>
  PROVE  QueueOrder' /\ PhaseOrder' /\ PhaseVerdict' /\ SkipCause'
<1> USE EntriesAssumption DEF IInv, TypeOK, Steps, InHand, Returned, FrameFacts
<1>1. FrameFacts BY Frame
<1>2. QueueOrder' BY <1>1 DEF QueueOrder
<1>3. PhaseOrder' BY DEF PhaseOrder, Decided
<1>4. PhaseVerdict' BY <1>1 DEF PhaseVerdict, Decided
<1>5. SkipCause' BY <1>1, InHandNow DEF SkipCause
<1> QED BY <1>2, <1>3, <1>4, <1>5

\* What the apps and other writers do leaves every order as it is.
LEMMA Untouched ==
  ASSUME IInv, UNCHANGED <<plan, opts, engineVars>>
  PROVE  QueueOrder' /\ PhaseOrder' /\ PhaseVerdict' /\ SkipCause' /\ FollowUps'
<1> USE DEF engineVars
<1>1. FrameFacts BY Frame DEF IInv
<1>2. QueueOrder' BY <1>1 DEF IInv, QueueOrder, FrameFacts
<1>3. PhaseOrder' BY DEF IInv, PhaseOrder, Decided
<1>4. PhaseVerdict' BY DEF IInv, PhaseVerdict, Decided, InPhase
<1>5. SkipCause' BY <1>1 DEF IInv, SkipCause, FrameFacts
<1>6. FollowUps' BY DEF IInv, FollowUps
<1> QED BY <1>2, <1>3, <1>4, <1>5, <1>6

\* The room verifyRoom found is what RoomHeld needs.
LEMMA VerifyPassesIInv ==
  ASSUME IInv, TypeOK', NEW e \in Entries, VerifyPasses(e)
  PROVE  IInv'
<1> USE DEF VerifyPasses, InHand, Returned, worldVars
<1>1. FrameFacts BY Frame DEF IInv
<1>2. KnowsTransfer' BY DEF IInv, TypeOK, KnowsTransfer, Unmeasured, MayWrite
<1>3. QueueOrder' /\ PhaseOrder' /\ PhaseVerdict' /\ SkipCause'
  BY Advance DEF IInv, KnowsTransfer
<1>4. RoomHeld'
  <2>1. SizesKnown(e) => used[DestDisk(e)] + plan[e].bytes <= Limit[plan[e].dest] + drift[DestDisk(e)]
    BY <1>1, PathsAssumption, PlansAssumption
       DEF IInv, TypeOK, HasRoom, Entry, SizesKnown, FrameFacts
  <2>2. \A g \in Entries : Holds(g)' => Holds(g) \/ g = e
    BY DEF IInv, TypeOK, Holds, MayWrite
  <2> QED BY <1>1, <2>1, <2>2 DEF IInv, RoomHeld, FrameFacts
<1>5. FollowUps' BY DEF IInv, TypeOK, FollowUps
<1> QED BY <1>2, <1>3, <1>4, <1>5 DEF IInv

\* An entry that fails safely leaves nothing of it writing.
LEMMA FailSafelyIInv ==
  ASSUME IInv, TypeOK', NEW e \in Entries, FailSafely(e), at[e] \in {"verify", "asking"} \/ Refused(e)
  PROVE  IInv'
<1> USE EntriesAssumption DEF IInv, TypeOK, Steps, InHand, Returned, FailSafely, worldVars, FrameFacts, Refused
<1>0. plan' = plan /\ opts' = opts OBVIOUS
<1>1. FrameFacts BY <1>0, Frame
<1> USE <1>0, <1>1
<1>2. KnowsTransfer' BY DEF KnowsTransfer, Unmeasured, MayWrite
<1>3. QueueOrder' BY DEF QueueOrder
<1>4. PhaseOrder' BY DEF PhaseOrder, Decided, KnowsTransfer
<1>5. PhaseVerdict' BY InHandNow DEF PhaseVerdict, Decided, KnowsTransfer
<1>6. SkipCause' BY DEF SkipCause, PhaseOrder, Decided
<1>7. RoomHeld' BY DEF RoomHeld, Holds, MayWrite
<1>8. FollowUps' BY DEF FollowUps, PhaseOrder, Decided
<1> QED BY <1>2, <1>3, <1>4, <1>5, <1>6, <1>7, <1>8

\* From here on the app may act on the request.
LEMMA SendRequestIInv ==
  ASSUME IInv, TypeOK', NEW e \in Entries, SendRequest(e)
  PROVE  IInv'
<1> USE DEF SendRequest, InHand, Returned, worldVars
<1>1. FrameFacts BY Frame DEF IInv
<1>2. KnowsTransfer' BY DEF IInv, TypeOK, KnowsTransfer, Unmeasured, MayWrite
<1>3. QueueOrder' /\ PhaseOrder' /\ PhaseVerdict' /\ SkipCause'
  BY Advance DEF IInv, KnowsTransfer
<1>4. RoomHeld' BY <1>1 DEF IInv, TypeOK, RoomHeld, Holds, MayWrite, FrameFacts
<1>5. FollowUps' BY DEF IInv, TypeOK, FollowUps
<1> QED BY <1>2, <1>3, <1>4, <1>5 DEF IInv

\* The request was taken.
LEMMA AcceptedIInv ==
  ASSUME IInv, TypeOK', NEW e \in Entries, Accepted(e)
  PROVE  IInv'
<1> USE DEF Accepted, InHand, Returned, worldVars
<1>1. FrameFacts BY Frame DEF IInv
<1>2. KnowsTransfer' BY DEF IInv, TypeOK, KnowsTransfer, Unmeasured, MayWrite
<1>3. QueueOrder' /\ PhaseOrder' /\ PhaseVerdict' /\ SkipCause'
  BY Advance DEF IInv, KnowsTransfer
<1>4. RoomHeld' BY <1>1 DEF IInv, TypeOK, RoomHeld, Holds, MayWrite, FrameFacts
<1>5. FollowUps' BY DEF IInv, TypeOK, FollowUps
<1> QED BY <1>2, <1>3, <1>4, <1>5 DEF IInv

\* An abandoned entry takes everything behind it in its queue along.
LEMMA AbandonIInv ==
  ASSUME IInv, TypeOK', NEW e \in Entries, Abandon(e), at[e] \in {"waiting", "settling"}
  PROVE  IInv'
<1> USE EntriesAssumption DEF IInv, TypeOK, Steps, InHand, Returned, Abandon, worldVars, FrameFacts
<1>0. plan' = plan /\ opts' = opts OBVIOUS
<1>1. FrameFacts BY <1>0, Frame
<1> USE <1>0, <1>1
<1>2. plan[e].phase = phase /\ stage = "running" /\ e \notin landed
  BY InHandNow
<1>3. \A f \in QueueMates(e) : f > e => at[f] \in {"pending", "skipped"}
  BY DEF QueueOrder
<1>4. \A f \in Entries : /\ f # e => at'[f] = at[f] \/ (at'[f] = "skipped" /\ at[f] \in {"pending", "skipped"})
                         /\ f \in landed => at'[f] = at[f]
  BY <1>2, <1>3 DEF KnowsTransfer
<1>5. KnowsTransfer'
  BY <1>2, <1>3, <1>4 DEF KnowsTransfer, Unmeasured, MayWrite
<1>6. QueueOrder'
  <2>1. ASSUME NEW g \in Entries, NEW f \in QueueMates(g), f < g
        PROVE  /\ at'[g] \in InHand \cup Returned => at'[f] \in {"done", "failed"}
               /\ at'[f] = "abandoned" => at'[g] = "skipped"
    <3>1. CASE f = e BY <2>1, <3>1, <1>3
    <3>2. CASE g = e BY <2>1, <3>2, <1>3 DEF QueueOrder
    <3>3. CASE f # e /\ g # e BY <2>1, <3>3, <1>3, <1>4 DEF QueueOrder
    <3> QED BY <3>1, <3>2, <3>3
  <2>2. \A g \in Entries : QueueMates(g)' = QueueMates(g)
    OBVIOUS
  <2> QED BY ONLY <2>1, <2>2 DEF QueueOrder
<1>7. PhaseOrder'
  BY <1>2, <1>3, <1>4 DEF PhaseOrder, Decided
<1>8. PhaseVerdict'
  BY <1>2 DEF PhaseVerdict, Decided
<1>9. SkipCause'
  <2>1. ASSUME NEW g \in Entries, at'[g] = "skipped"
        PROVE  \E f \in QueueMates(g) : f < g /\ at'[f] = "abandoned"
    <3>1. CASE g \in QueueMates(e) /\ g > e BY <3>1
    <3>2. CASE at[g] = "skipped"
      <4>1. PICK f \in QueueMates(g) : f < g /\ at[f] = "abandoned"
        BY <3>2, <1>2 DEF SkipCause
      <4> QED BY <4>1, <1>4
    <3> QED BY <2>1, <3>1, <3>2
  <2> HIDE DEF Abandon
  <2> QED BY <2>1 DEF SkipCause
<1>10. RoomHeld'
  BY <1>4 DEF RoomHeld, Holds, MayWrite
<1>11. FollowUps'
  BY <1>2, <1>3, <1>4 DEF FollowUps
<1> QED BY <1>5, <1>6, <1>7, <1>8, <1>9, <1>10, <1>11

\* The move landed.
LEMMA SettleLandsIInv ==
  ASSUME IInv, TypeOK', NEW e \in Entries, SettleLands(e)
  PROVE  IInv'
<1> USE DEF SettleLands, LooksLanded, LooksCrossed, InHand, Returned, worldVars
<1>1. FrameFacts BY Frame DEF IInv
<1>2. KnowsTransfer' BY DEF IInv, TypeOK, KnowsTransfer, Unmeasured, MayWrite
<1>3. QueueOrder' /\ PhaseOrder' /\ PhaseVerdict' /\ SkipCause'
  BY Advance DEF IInv, KnowsTransfer
<1>4. RoomHeld' BY <1>1 DEF IInv, TypeOK, RoomHeld, Holds, MayWrite, FrameFacts
<1>5. FollowUps' BY DEF IInv, TypeOK, FollowUps
<1> QED BY <1>2, <1>3, <1>4, <1>5 DEF IInv

\* At most one follow-up is started for a landed move.
LEMMA ReportIInv ==
  ASSUME IInv, TypeOK', NEW e \in Entries, Report(e)
  PROVE  IInv'
<1> USE DEF Report, InHand, Returned, worldVars
<1>1. FrameFacts BY Frame DEF IInv
<1>2. KnowsTransfer' BY DEF IInv, TypeOK, KnowsTransfer, Unmeasured, MayWrite
<1>3. QueueOrder' /\ PhaseOrder' /\ PhaseVerdict' /\ SkipCause'
  BY Advance DEF IInv, KnowsTransfer
<1>4. RoomHeld' BY <1>1 DEF IInv, TypeOK, RoomHeld, Holds, MayWrite, FrameFacts
<1>5. FollowUps' BY DEF IInv, TypeOK, FollowUps
<1> QED BY <1>2, <1>3, <1>4, <1>5 DEF IInv

\* A landed move returns done, or failed when it could not be recorded.
LEMMA RecordIInv ==
  ASSUME IInv, TypeOK', NEW e \in Entries, Record(e)
  PROVE  IInv'
<1> USE DEF Record, InHand, Returned, worldVars
<1>1. FrameFacts BY Frame DEF IInv
<1>2. KnowsTransfer' BY DEF IInv, TypeOK, KnowsTransfer, Unmeasured, MayWrite
<1>3. QueueOrder' /\ PhaseOrder' /\ PhaseVerdict' /\ SkipCause'
  BY Advance DEF IInv, KnowsTransfer
<1>4. RoomHeld' BY <1>1 DEF IInv, TypeOK, RoomHeld, Holds, MayWrite, FrameFacts
<1>5. FollowUps'
  <2>1. stage = "running" BY InHandNow
  <2> QED BY <2>1 DEF IInv, TypeOK, FollowUps
<1> QED BY <1>2, <1>3, <1>4, <1>5 DEF IInv

\* Two moves of one queue are never both held: the room one of them was
\* found is not taken by the other.
LEMMA Exclusive ==
  ASSUME IInv, NEW e \in Entries, NEW f \in Entries, e # f,
         Holds(e), MayWrite(f), e \notin landed, f \notin landed
  PROVE  QueueOf(e) # QueueOf(f)
<1> SUFFICES ASSUME QueueOf(e) = QueueOf(f) PROVE FALSE
  OBVIOUS
<1> USE EntriesAssumption DEF IInv, TypeOK, Holds, MayWrite, InHand, Returned
<1>0. plan[e].phase \in Nat /\ plan[f].phase \in Nat /\ phase \in Nat
  BY PlansAssumption DEF Entry
<1>1. at[e] \in {"asking", "waiting", "settling", "abandoned"}
  BY DEF KnowsTransfer
<1>2. at[f] \in {"waiting", "settling", "abandoned"}
  BY DEF KnowsTransfer
<1>3. plan[e].phase = plan[f].phase
  BY <1>0, <1>1, <1>2 DEF PhaseOrder, KnowsTransfer
<1>4. f \in QueueMates(e) /\ e \in QueueMates(f)
  BY <1>3 DEF QueueMates
<1> QED BY <1>1, <1>2, <1>4 DEF QueueOrder

\* Destinations on one disk share a queue, unless a device is unresolved.
LEMMA SameDiskSameQueue ==
  ASSUME TypeOK, NEW e \in Entries, NEW f \in Entries, DestDisk(e) = DestDisk(f),
         \/ opts.serial
         \/ plan[e].dest = plan[f].dest
         \/ {plan[e].dest, plan[f].dest} \subseteq opts.known
  PROVE  QueueOf(e) = QueueOf(f)
  BY DEF QueueOf, DestDisk

\* The next phase starts only when everything so far has landed.
LEMMA NextPhaseIInv ==
  ASSUME IInv, TypeOK', NextPhase
  PROVE  IInv'
<1> USE EntriesAssumption DEF IInv, TypeOK, Steps, InHand, Returned, NextPhase, PhaseOver, engineVars, worldVars, FrameFacts
<1>0. plan' = plan /\ opts' = opts OBVIOUS
<1>1. FrameFacts BY <1>0, Frame
<1> USE <1>0, <1>1
<1>9. /\ phase' \in LaterPhases /\ \A m \in LaterPhases : phase' <= m
      /\ phase' \in Nat /\ \A e \in Entries : plan[e].phase \in PlanPhases
  BY DEF IsLeast, PlanPhases
<1>2. KnowsTransfer' BY DEF KnowsTransfer, Unmeasured, MayWrite
<1>3. QueueOrder' BY DEF QueueOrder
<1>4. PhaseOrder'
  <2>1. \A e \in Entries : plan[e].phase < phase' => plan[e].phase <= phase
    <3>1. \A e \in Entries : plan[e].phase > phase => phase' <= plan[e].phase
      BY <1>9 DEF LaterPhases
    <3>2. \A e \in Entries : plan[e].phase \in Nat /\ phase \in Nat /\ phase' \in Nat
      BY <1>9
    <3> QED BY ONLY <3>1, <3>2
  <2>2. \A e \in Entries : plan[e].phase > phase' => plan[e].phase > phase
    BY <1>9 DEF LaterPhases
  <2>3. \A e \in Entries : plan[e].phase = phase => e \in landed /\ Decided(e)
    BY DEF PhaseVerdict
  <2>4. \A e \in Entries : plan[e].phase < phase => e \in landed /\ Decided(e)
    BY DEF PhaseOrder
  <2>5. \A e \in Entries : plan[e].phase < phase' => e \in landed /\ Decided(e)
    <3>1. \A e \in Entries : plan[e].phase \in Nat /\ phase \in Nat OBVIOUS
    <3> SUFFICES ASSUME NEW e \in Entries, plan[e].phase < phase'
                 PROVE  e \in landed /\ Decided(e)
      OBVIOUS
    <3>2. plan[e].phase <= phase BY <2>1
    <3>3. plan[e].phase \in Nat /\ phase \in Nat BY <3>1
    <3>4. plan[e].phase < phase \/ plan[e].phase = phase BY ONLY <3>2, <3>3
    <3> QED BY <2>3, <2>4, <3>4
  <2>6. \A e \in Entries : plan[e].phase > phase' => at[e] = "pending"
    BY <2>2 DEF PhaseOrder
  <2>7. landed' = landed /\ stage' = "running" /\ at' = at
        /\ \A e \in Entries : Decided(e)' = Decided(e)
    BY DEF Decided
  <2> QED BY <2>5, <2>6, <2>7 DEF PhaseOrder
<1>5. PhaseVerdict'
  <2>1. \A e \in Entries : plan[e].phase = phase' => at[e] = "pending"
    BY <1>9 DEF PhaseOrder, LaterPhases
  <2> QED BY <2>1 DEF PhaseVerdict, Decided
<1>6. SkipCause' BY DEF SkipCause, PhaseOrder, Decided
<1>7. RoomHeld' BY DEF RoomHeld, Holds, MayWrite
<1>8. FollowUps' BY DEF FollowUps, PhaseOrder, Decided
<1> QED BY <1>2, <1>3, <1>4, <1>5, <1>6, <1>7, <1>8

\* What is skipped at the end waits behind a phase that did not land.
LEMMA EndRunIInv ==
  ASSUME IInv, TypeOK', EndRun
  PROVE  IInv'
<1> USE EntriesAssumption DEF IInv, TypeOK, Steps, InHand, Returned, EndRun, PhaseOver, engineVars, worldVars, FrameFacts
<1>0. plan' = plan /\ opts' = opts OBVIOUS
<1>1. FrameFacts BY <1>0, Frame
<1> USE <1>0, <1>1
<1>2. KnowsTransfer' BY DEF KnowsTransfer, Unmeasured, MayWrite, PhaseOrder
<1>3. QueueOrder' BY DEF QueueOrder
<1>4. PhaseOrder'
  <2>1. \A e \in Entries : ~(plan[e].phase > phase) => Decided(e)
    <3>1. \A e \in Entries : plan[e].phase = phase => Decided(e) OBVIOUS
    <3>2. \A e \in Entries : plan[e].phase < phase => Decided(e) BY DEF PhaseOrder
    <3>3. \A e \in Entries : plan[e].phase \in Nat /\ phase \in Nat OBVIOUS
    <3>4. \A e \in Entries : ~(plan[e].phase > phase) =>
            plan[e].phase < phase \/ plan[e].phase = phase
      BY ONLY <3>3
    <3> QED BY <3>1, <3>2, <3>4
  <2>2. \A e \in Entries : Decided(e)'
    BY <2>1 DEF Decided
  <2> QED BY <2>2 DEF PhaseOrder
<1>5. PhaseVerdict' BY DEF PhaseVerdict, Decided, KnowsTransfer
<1>6. SkipCause'
  <2>1. ASSUME NEW g \in Entries, plan[g].phase > phase
        PROVE  \E f \in Entries : plan[f].phase < plan[g].phase /\ f \notin landed
    <3>1. ~phaseLanded
      <4>1. plan[g].phase \in LaterPhases BY <2>1 DEF LaterPhases, PlanPhases
      <4> QED BY ONLY <4>1, EndRun, phaseLanded \in BOOLEAN DEF EndRun
    <3>2. PICK f \in InPhase(phase) : f \notin landed BY <3>1 DEF PhaseVerdict
    <3>3. f \in Entries /\ plan[f].phase = phase OBVIOUS
    <3>4. plan[f].phase < plan[g].phase BY <2>1, <3>3
    <3> QED BY <3>2, <3>3, <3>4
  <2>2. ASSUME NEW g \in Entries, ~(plan[g].phase > phase), at[g] = "skipped"
        PROVE  \E f \in QueueMates(g) : f < g /\ at'[f] = "abandoned"
    <3>1. PICK f \in QueueMates(g) : f < g /\ at[f] = "abandoned"
      BY <2>2 DEF SkipCause
    <3> QED BY <2>2, <3>1
  <2>3. stage' # "running" OBVIOUS
  <2>4. \A g \in Entries : at'[g] = "skipped" => plan[g].phase > phase \/ at[g] = "skipped"
    OBVIOUS
  <2> HIDE DEF EndRun, PhaseOver
  <2>5. landed' = landed BY DEF EndRun
  <2>6. \A g \in Entries : QueueMates(g)' = QueueMates(g) OBVIOUS
  <2> QED BY ONLY <1>0, <2>1, <2>2, <2>3, <2>4, <2>5, <2>6 DEF SkipCause
<1>7. RoomHeld'
  <2>1. \A g \in Entries : Holds(g)' => Holds(g) BY DEF Holds, MayWrite
  <2>2. used' = used /\ drift' = drift OBVIOUS
  <2> QED BY <2>1, <2>2 DEF RoomHeld
<1>8. FollowUps' BY DEF FollowUps, PhaseOrder, Decided
<1> QED BY <1>2, <1>3, <1>4, <1>5, <1>6, <1>7, <1>8

\* The follow-ups the run could not start are started once.
LEMMA CloseRunIInv ==
  ASSUME IInv, TypeOK', CloseRun
  PROVE  IInv'
<1> USE DEF CloseRun, worldVars
<1>1. FrameFacts BY Frame DEF IInv
<1>2. KnowsTransfer' BY DEF IInv, KnowsTransfer, Unmeasured, MayWrite
<1>3. QueueOrder' BY <1>1 DEF IInv, QueueOrder, FrameFacts
<1>4. PhaseOrder' BY DEF IInv, PhaseOrder, Decided
<1>5. PhaseVerdict' BY DEF IInv, PhaseVerdict, Decided, InPhase
<1>6. SkipCause' BY <1>1 DEF IInv, SkipCause, FrameFacts
<1>7. RoomHeld' BY <1>1 DEF IInv, RoomHeld, Holds, MayWrite, FrameFacts
<1>8. FollowUps' BY DEF IInv, TypeOK, FollowUps, Status, PhaseOrder, Decided, Returned, InHand
<1> QED BY <1>2, <1>3, <1>4, <1>5, <1>6, <1>7, <1>8 DEF IInv

\* The app starts writing; the bytes are not there yet.
LEMMA AppAcceptsIInv ==
  ASSUME IInv, TypeOK', NEW e \in Entries, AppAccepts(e)
  PROVE  IInv'
<1> USE DEF AppAccepts, AppStep
<1>1. FrameFacts BY Frame DEF IInv
<1>2. KnowsTransfer' BY DEF IInv, TypeOK, KnowsTransfer, Unmeasured, MayWrite, engineVars
<1>3. QueueOrder' /\ PhaseOrder' /\ PhaseVerdict' /\ SkipCause' /\ FollowUps'
  BY Untouched
<1>4. RoomHeld'
  BY <1>1 DEF IInv, TypeOK, KnowsTransfer, RoomHeld, Holds, MayWrite, FrameFacts, engineVars
<1> QED BY <1>2, <1>3, <1>4 DEF IInv

\* Nothing will be written for e.
LEMMA AppRefusesIInv ==
  ASSUME IInv, TypeOK', NEW e \in Entries, AppRefuses(e)
  PROVE  IInv'
<1> USE DEF AppRefuses, AppStep
<1>1. FrameFacts BY Frame DEF IInv
<1>2. KnowsTransfer' BY DEF IInv, TypeOK, KnowsTransfer, Unmeasured, MayWrite, engineVars
<1>3. QueueOrder' /\ PhaseOrder' /\ PhaseVerdict' /\ SkipCause' /\ FollowUps'
  BY Untouched
<1>4. RoomHeld'
  BY <1>1 DEF IInv, TypeOK, KnowsTransfer, RoomHeld, Holds, MayWrite, FrameFacts, engineVars
<1> QED BY <1>2, <1>3, <1>4 DEF IInv

\* Nothing more will be written for e.
LEMMA AppFailsIInv ==
  ASSUME IInv, TypeOK', NEW e \in Entries, AppFails(e)
  PROVE  IInv'
<1> USE DEF AppFails, AppStep
<1>1. FrameFacts BY Frame DEF IInv
<1>2. KnowsTransfer' BY DEF IInv, TypeOK, KnowsTransfer, Unmeasured, MayWrite, engineVars
<1>3. QueueOrder' /\ PhaseOrder' /\ PhaseVerdict' /\ SkipCause' /\ FollowUps'
  BY Untouched
<1>4. RoomHeld'
  BY <1>1 DEF IInv, TypeOK, KnowsTransfer, RoomHeld, Holds, MayWrite, FrameFacts, engineVars
<1> QED BY <1>2, <1>3, <1>4 DEF IInv

\* The copy fills only room that no other move on its disk was counting on.
LEMMA AppCopiesIInv ==
  ASSUME IInv, TypeOK', NEW e \in Entries, AppCopies(e)
  PROVE  IInv'
<1> USE DEF AppCopies, AppStep
<1>1. FrameFacts BY Frame DEF IInv
<1>2. KnowsTransfer' BY DEF IInv, TypeOK, KnowsTransfer, Unmeasured, MayWrite, engineVars
<1>3. QueueOrder' /\ PhaseOrder' /\ PhaseVerdict' /\ SkipCause' /\ FollowUps'
  BY Untouched
<1>4. RoomHeld'
  <2>1. ASSUME NEW g \in Entries, g # e, Holds(g), SizesKnown(g), DevicesResolved
        PROVE  DestDisk(g) # DestDisk(e)
    <3> SUFFICES ASSUME DestDisk(g) = DestDisk(e) PROVE FALSE
      OBVIOUS
    <3>1. MayWrite(e) BY DEF MayWrite
    <3>2. ~Unmeasured(g) /\ ~Unmeasured(e) BY <2>1 DEF SizesKnown, Unmeasured
    <3>3. e \notin landed /\ g \notin landed
      BY <2>1, <3>1, <3>2 DEF IInv, KnowsTransfer, Holds, MayWrite
    <3> QED BY <2>1, <3>1, <3>3, Exclusive, SameDiskSameQueue DEF IInv, DevicesResolved
  <2>2. ASSUME NEW g \in Entries, Holds(g)', SizesKnown(g), DevicesResolved
        PROVE  Holds(g) /\ used'[DestDisk(g)] = used[DestDisk(g)]
    <3>1. g # e /\ Holds(g)
      BY <2>2 DEF Holds, MayWrite, IInv, TypeOK, KnowsTransfer, engineVars
    <3>2. DestDisk(g) # DestDisk(e) BY <2>1, <2>2, <3>1
    <3> QED BY <3>1, <3>2 DEF IInv, TypeOK
  <2>3. drift' = drift BY DEF engineVars
  <2> QED BY <1>1, <2>2, <2>3 DEF IInv, RoomHeld, FrameFacts, engineVars
<1> QED BY <1>2, <1>3, <1>4 DEF IInv

\* Removing the original only frees room.
LEMMA AppFinishesIInv ==
  ASSUME IInv, TypeOK', NEW e \in Entries, AppFinishes(e)
  PROVE  IInv'
<1> USE DEF AppFinishes, AppStep
<1>1. FrameFacts BY Frame DEF IInv
<1>2. KnowsTransfer' BY DEF IInv, TypeOK, KnowsTransfer, Unmeasured, MayWrite, engineVars
<1>3. QueueOrder' /\ PhaseOrder' /\ PhaseVerdict' /\ SkipCause' /\ FollowUps'
  BY Untouched
<1>4. RoomHeld'
  <2>1. \A g \in Entries : /\ used[DestDisk(g)] \in Int /\ drift[DestDisk(g)] \in Int
                           /\ Limit[plan[g].dest] \in Int /\ plan[g].bytes \in Nat
    BY <1>1, PathsAssumption, PlansAssumption DEF IInv, TypeOK, Entry, FrameFacts
  <2>2. \A g \in Entries : /\ used'[DestDisk(g)] <= used[DestDisk(g)]
                           /\ used'[DestDisk(g)] \in Int
    BY <1>1, <2>1 DEF IInv, TypeOK, FrameFacts
  <2>3. \A g \in Entries : Holds(g)' => Holds(g)
    BY DEF IInv, TypeOK, Holds, MayWrite, engineVars
  <2>4. drift' = drift BY DEF engineVars
  <2> QED BY <1>1, <2>1, <2>2, <2>3, <2>4 DEF IInv, RoomHeld, FrameFacts, engineVars
<1> QED BY <1>2, <1>3, <1>4 DEF IInv

\* What others write to a volume is added to both sides of RoomHeld.
LEMMA OtherWritesIInv ==
  ASSUME IInv, TypeOK', NEW d \in Disks, OtherWrites(d)
  PROVE  IInv'
<1> USE DEF OtherWrites
<1>1. FrameFacts BY Frame DEF IInv
<1>2. KnowsTransfer' BY DEF IInv, KnowsTransfer, Unmeasured, MayWrite, engineVars
<1>3. QueueOrder' /\ PhaseOrder' /\ PhaseVerdict' /\ SkipCause' /\ FollowUps'
  BY Untouched
<1>4. RoomHeld'
  <2>1. \A g \in Entries : /\ used[DestDisk(g)] \in Int /\ drift[DestDisk(g)] \in Int
                           /\ Limit[plan[g].dest] \in Int /\ plan[g].bytes \in Nat
    BY <1>1, PathsAssumption, PlansAssumption DEF IInv, TypeOK, Entry, FrameFacts
  <2>2. \A g \in Entries :
          used'[DestDisk(g)] - drift'[DestDisk(g)] = used[DestDisk(g)] - drift[DestDisk(g)]
    BY <1>1, <2>1 DEF IInv, TypeOK, FrameFacts
  <2>3. \A g \in Entries : Holds(g)' <=> Holds(g)
    BY DEF Holds, MayWrite, engineVars
  <2>4. \A g \in Entries : used'[DestDisk(g)] \in Int /\ drift'[DestDisk(g)] \in Int
    BY <1>1 DEF TypeOK, FrameFacts
  <2> QED BY <1>1, <2>1, <2>2, <2>3, <2>4 DEF IInv, RoomHeld, FrameFacts, engineVars
<1> QED BY <1>2, <1>3, <1>4 DEF IInv

-----------------------------------------------------------------------------
(* The theorems *)

\* Every step preserves the invariant.
LEMMA IInvStep == IInv /\ [Next]_vars => IInv'
<1> SUFFICES ASSUME IInv, [Next]_vars PROVE IInv'
  OBVIOUS
<1>1. TypeOK' BY TypeStep DEF IInv
<1>2. ASSUME NEW e \in Entries, QueueStep(e) PROVE IInv'
  <2>1. CASE Start(e) BY <1>1, <2>1, StartIInv
  <2>2. CASE VerifyPasses(e) BY <1>1, <2>2, VerifyPassesIInv
  <2>3. CASE VerifyFails(e) \/ SkipRequest(e) \/ Refused(e)
    BY <1>1, <2>3, FailSafelyIInv DEF VerifyFails, SkipRequest, Refused
  <2>4. CASE SendRequest(e) BY <1>1, <2>4, SendRequestIInv
  <2>5. CASE Accepted(e) BY <1>1, <2>5, AcceptedIInv
  <2>6. CASE LostAnswer(e) \/ SettleFails(e)
    BY <1>1, <2>6, AbandonIInv DEF LostAnswer, SettleFails
  <2>7. CASE SettleLands(e) BY <1>1, <2>7, SettleLandsIInv
  <2>8. CASE Report(e) BY <1>1, <2>8, ReportIInv
  <2>9. CASE Record(e) BY <1>1, <2>9, RecordIInv
  <2> QED BY <1>2, <2>1, <2>2, <2>3, <2>4, <2>5, <2>6, <2>7, <2>8, <2>9 DEF QueueStep
<1>3. CASE RunStep
  BY <1>1, <1>3, NextPhaseIInv, EndRunIInv, CloseRunIInv DEF RunStep
<1>4. CASE World
  BY <1>1, <1>4, AppAcceptsIInv, AppRefusesIInv, AppFailsIInv, AppCopiesIInv,
     AppFinishesIInv, OtherWritesIInv DEF World
<1>5. CASE UNCHANGED vars
  <2> USE <1>5 DEF vars
  <2>1. FrameFacts BY Frame DEF IInv
  <2>2. KnowsTransfer' BY DEF IInv, KnowsTransfer, Unmeasured, MayWrite, engineVars, worldVars
  <2>3. QueueOrder' /\ PhaseOrder' /\ PhaseVerdict' /\ SkipCause' /\ FollowUps'
    BY Untouched
  <2>4. RoomHeld'
    BY <2>1 DEF IInv, RoomHeld, Holds, MayWrite, FrameFacts, engineVars, worldVars
  <2> QED BY <1>1, <2>2, <2>3, <2>4 DEF IInv
<1> QED BY <1>2, <1>3, <1>4, <1>5 DEF Next

\* The invariant holds throughout every run.
LEMMA Invariance == Spec => []IInv
  BY InitIInv, IInvStep, PTL DEF Spec

\* Never two moves that may be writing to one physical disk, unless both are
\* bound for different tiers of which one's device was never resolved, or one
\* was taken for landed too early: its size is unknown, or its landing was read
\* across the change of its path.
THEOREM OneWriter == Spec => []OneWriterPerDisk
<1>1. IInv => OneWriterPerDisk
  <2> SUFFICES ASSUME IInv, NEW e \in Entries, NEW f \in Entries, e # f,
                      MayWrite(e), MayWrite(f), DestDisk(e) = DestDisk(f),
                      ~\E g \in {e, f} \cap landed : Unmeasured(g)
               PROVE  /\ ~opts.serial
                      /\ plan[e].dest # plan[f].dest
                      /\ ~({plan[e].dest, plan[f].dest} \subseteq opts.known)
    BY DEF OneWriterPerDisk
  <2>1. QueueOf(e) # QueueOf(f)
    BY Exclusive DEF Holds, IInv, KnowsTransfer, Unmeasured, MayWrite
  <2> QED BY <2>1, SameDiskSameQueue DEF IInv
<1> QED BY <1>1, Invariance, PTL

\* Whatever may still be written fits, however late the app acts on it.
THEOREM RoomKept == Spec => []RoomForWhatMayBeWritten
<1>1. IInv => RoomForWhatMayBeWritten
  BY DEF IInv, RoomHeld, Holds, RoomForWhatMayBeWritten
<1> QED BY <1>1, Invariance, PTL

\* No move is asked for before every earlier phase has landed.
THEOREM PhasesGated == Spec => []PhaseGate
<1>1. IInv => PhaseGate
  <2> SUFFICES ASSUME IInv, NEW e \in Entries, NEW f \in Entries,
                      transfer[e] # "none", plan[f].phase < plan[e].phase
               PROVE  f \in landed /\ (transfer[f] \in {"whole", "over"} \/ Unmeasured(f))
    BY DEF PhaseGate
  <2>1. plan[e].phase \in Nat /\ plan[f].phase \in Nat /\ phase \in Nat
    BY PlansAssumption DEF IInv, TypeOK, Entry
  <2>2. ~(plan[e].phase > phase)
    BY DEF IInv, PhaseOrder, KnowsTransfer
  <2>3. plan[f].phase < phase
    BY ONLY <2>1, <2>2, plan[f].phase < plan[e].phase
  <2> QED BY <2>3 DEF IInv, PhaseOrder, KnowsTransfer
<1> QED BY <1>1, Invariance, PTL

\* A finished run has decided every entry, and skipped none without cause.
THEOREM NothingDropped == Spec => []NothingSilentlyDropped
<1>1. IInv => NothingSilentlyDropped
  BY DEF IInv, PhaseOrder, SkipCause, NothingSilentlyDropped
<1> QED BY <1>1, Invariance, PTL

\* No move is followed up in Jellyfin twice, and none shown done is missed.
THEOREM FollowedUp == Spec => []FollowedUpOnce
<1>1. IInv => FollowedUpOnce
  <2> SUFFICES ASSUME IInv PROVE FollowedUpOnce
    OBVIOUS
  <2>1. \A e \in Entries : Status(e) = "done" => at[e] = "done"
    BY DEF IInv, TypeOK, Status, Steps, InHand, Returned
  <2> QED BY <2>1 DEF IInv, FollowUps, FollowedUpOnce
<1> QED BY <1>1, Invariance, PTL

-----------------------------------------------------------------------------
(* Refinement *)

\* A step under which no entry's fate changes is a stuttering step.
LEMMA Stutters ==
  ASSUME TypeOK, plan' = plan, opts' = opts, (stage # "running")' = (stage # "running"),
         \A f \in Entries : FateOf(f)' = FateOf(f)
  PROVE  UNCHANGED Promise!vars
<1>1. \A f \in Entries : QueueOf(f)' = QueueOf(f)
  BY DEF QueueOf
<1> QED BY <1>1 DEF Promise!vars, PhaseMap, QueueMap, FateMap

\* A step of one entry in hand is a step of the contract.
LEMMA ByEntry ==
  ASSUME TypeOK, NEW e \in Entries, plan' = plan, opts' = opts,
         stage = "running", stage' = stage,
         Promise!Open(e) \/ Promise!Land(e) \/ Promise!Refuse(e) \/ Promise!Lose(e)
  PROVE  Promise!Next
<1>1. \A f \in Entries : QueueOf(f)' = QueueOf(f)
  BY DEF QueueOf
<1>2. UNCHANGED <<PhaseMap, QueueMap>>
  BY <1>1 DEF PhaseMap, QueueMap
<1> QED BY <1>2 DEF Promise!Next

\* Only the fate of e changes.
LEMMA OneFate ==
  ASSUME NEW e \in Entries, NEW v, FateOf(e)' = v,
         \A f \in Entries \ {e} : FateOf(f)' = FateOf(f)
  PROVE  FateMap' = [FateMap EXCEPT ![e] = v]
BY DEF FateMap

\* Every step of an entry's goroutine is a step of the contract, or a stutter.
LEMMA QueueStepRefines ==
  ASSUME IInv, NEW e \in Entries, QueueStep(e)
  PROVE  Promise!Next \/ UNCHANGED Promise!vars
<1> USE DEF IInv, TypeOK, Steps, InHand, Returned, worldVars
<1>1. CASE Start(e) \/ VerifyPasses(e) \/ Accepted(e)
  BY <1>1, Stutters DEF Start, VerifyPasses, Accepted, FateOf, KnowsTransfer
<1>2. CASE Report(e) \/ Record(e)
  BY <1>2, Stutters DEF Report, Record, FateOf, KnowsTransfer
<1>3. CASE VerifyFails(e) \/ SkipRequest(e) \/ Refused(e)
  <2>1. FailSafely(e) /\ at[e] \in {"verify", "asking", "waiting"}
    BY <1>3 DEF VerifyFails, SkipRequest, Refused
  <2>2. stage = "running" /\ e \notin landed
    BY <2>1, InHandNow
  <2>3. Promise!Refuse(e)
    <3>1. FateMap[e] \in {"waiting", "open"}
      <4>1. FateOf(e) \in {"waiting", "open"} BY <2>1, <2>2 DEF FateOf
      <4> QED BY <4>1 DEF FateMap
    <3>2. FateOf(e)' = "refused"
      <4>1. at'[e] = "failed" /\ landed' = landed BY <2>1 DEF FailSafely
      <4> QED BY <4>1, <2>2 DEF FateOf
    <3>3. \A f \in Entries \ {e} : FateOf(f)' = FateOf(f)
      BY <2>1 DEF FailSafely, FateOf
    <3> QED BY <3>1, <3>2, <3>3, OneFate DEF Promise!Refuse
  <2> QED BY <2>1, <2>2, <2>3, ByEntry DEF FailSafely
<1>4. CASE SendRequest(e)
  <2>1. stage = "running" /\ plan[e].phase = phase /\ e \notin landed
    BY <1>4, InHandNow DEF SendRequest
  <2>2. \A f \in Promise!Ahead(e) : FateMap[f] \in {"landed", "refused"}
    <3> SUFFICES ASSUME NEW f \in Promise!Ahead(e) PROVE FateOf(f) \in {"landed", "refused"}
      BY DEF Promise!Ahead, FateMap
    <3>1. f \in QueueMates(e) /\ f < e
      BY DEF Promise!Ahead, PhaseMap, QueueMap, QueueMates
    <3>2. at[f] \in {"done", "failed"}
      BY <1>4, <3>1 DEF SendRequest, QueueOrder
    <3> QED BY <3>2 DEF FateOf
  <2>3. \A f \in Promise!Before(e) : FateMap[f] = "landed"
    <3> SUFFICES ASSUME NEW f \in Promise!Before(e) PROVE FateOf(f) = "landed"
      BY DEF Promise!Before, FateMap
    <3>1. f \in Entries /\ plan[f].phase < phase
      BY <2>1 DEF Promise!Before, PhaseMap
    <3>2. f \in landed /\ at[f] \in {"reporting", "recording", "done", "failed"}
      BY <3>1 DEF PhaseOrder, KnowsTransfer
    <3> QED BY <3>2 DEF FateOf
  <2>4. Promise!Open(e)
    <3>1. FateMap[e] = "waiting"
      <4>1. FateOf(e) = "waiting" BY <1>4, <2>1 DEF SendRequest, FateOf
      <4> QED BY <4>1 DEF FateMap
    <3>2. FateOf(e)' = "open"
      <4>1. at'[e] = "waiting" /\ e \notin landed' BY <1>4, <2>1 DEF SendRequest
      <4> QED BY <4>1 DEF FateOf
    <3>3. \A f \in Entries \ {e} : FateOf(f)' = FateOf(f)
      BY <1>4 DEF SendRequest, FateOf
    <3>4. FateMap' = [FateMap EXCEPT ![e] = "open"] BY <3>2, <3>3, OneFate
    <3> QED BY ONLY <3>1, <3>4, <2>2, <2>3 DEF Promise!Open
  <2> QED BY <1>4, <2>1, <2>4, ByEntry DEF SendRequest
<1>5. CASE LostAnswer(e) \/ SettleFails(e)
  <2>1. Abandon(e) /\ at[e] \in {"waiting", "settling"}
    BY <1>5 DEF LostAnswer, SettleFails
  <2>2. stage = "running" /\ e \notin landed
    BY <2>1, InHandNow
  <2>3. \A f \in Entries : e \in Promise!Ahead(f) <=> f \in QueueMates(e) /\ f > e
    BY EntriesAssumption DEF Promise!Ahead, PhaseMap, QueueMap, QueueMates
  <2>4. \A f \in QueueMates(e) : f > e => at[f] \in {"pending", "skipped"} /\ f \notin landed
    BY <2>1 DEF QueueOrder, QueueMates, KnowsTransfer
  <2>5. Promise!Lose(e)
    <3>1. FateMap[e] = "open"
      <4>1. FateOf(e) = "open" BY <2>1, <2>2 DEF FateOf
      <4> QED BY <4>1 DEF FateMap
    <3>2. \A f \in Entries : FateOf(f)' = IF f = e THEN "lost"
                                       ELSE IF e \in Promise!Ahead(f) THEN "skipped"
                                       ELSE FateOf(f)
      BY <2>1, <2>2, <2>3, <2>4 DEF Abandon, FateOf
    <3> QED BY <3>1, <3>2 DEF Promise!Lose, FateMap
  <2> QED BY <2>1, <2>2, <2>5, ByEntry DEF Abandon
<1>6. CASE SettleLands(e)
  <2>1. stage = "running" BY <1>6, InHandNow DEF SettleLands
  <2>2. Promise!Land(e)
    <3>1. FateMap[e] = "open"
      <4>1. at[e] = "settling" /\ e \notin landed
        BY <1>6 DEF SettleLands, KnowsTransfer
      <4>2. FateOf(e) = "open" BY <4>1 DEF FateOf
      <4> QED BY <4>2 DEF FateMap
    <3>2. FateOf(e)' = "landed"
      <4>1. at'[e] = "reporting" /\ e \in landed' BY <1>6 DEF SettleLands
      <4> QED BY <4>1 DEF FateOf
    <3>3. \A f \in Entries \ {e} : FateOf(f)' = FateOf(f)
      BY <1>6 DEF SettleLands, FateOf
    <3> QED BY <3>1, <3>2, <3>3, OneFate DEF Promise!Land
  <2> QED BY <1>6, <2>1, <2>2, ByEntry DEF SettleLands
<1> QED BY <1>1, <1>2, <1>3, <1>4, <1>5, <1>6 DEF QueueStep

\* The end of a run gives up exactly what the contract lets it give up.
LEMMA EndRunRefines ==
  ASSUME IInv, EndRun
  PROVE  Promise!Next
<1> USE DEF IInv, TypeOK, Steps, InHand, Returned, worldVars
<1> DEFINE S == {e \in Entries : plan[e].phase > phase}
<1>0. plan' = plan /\ opts' = opts /\ landed' = landed /\ stage = "running" /\ stage' = "done"
  BY DEF EndRun, PhaseOver
<1>1. ASSUME NEW e \in S
      PROVE  FateMap[e] = "waiting" /\ \E f \in Promise!Before(e) : FateMap[f] \in Promise!Final \ {"landed"}
  <2>1. at[e] = "pending" BY <1>0 DEF PhaseOrder
  <2>2. ~phaseLanded BY DEF EndRun, LaterPhases, PlanPhases
  <2>3. PICK f \in InPhase(phase) : Decided(f) /\ f \notin landed
    BY <2>2 DEF PhaseVerdict
  <2>4. f \in Promise!Before(e) BY <2>3 DEF Promise!Before, PhaseMap, InPhase
  <2>5. FateOf(f) \in Promise!Final \ {"landed"}
    BY <2>3 DEF Decided, FateOf, Promise!Final
  <2>6. f \in Entries BY DEF InPhase
  <2>7. FateOf(e) = "waiting" BY <2>1 DEF FateOf, KnowsTransfer
  <2>8. FateMap[e] = "waiting" /\ FateMap[f] = FateOf(f) BY <2>6, <2>7 DEF FateMap
  <2> HIDE DEF S
  <2> QED BY <2>4, <2>5, <2>8
<1>2. ASSUME NEW e \in Entries \ S PROVE FateMap[e] \in Promise!Final
  <2>1. plan[e].phase \in Nat /\ phase \in Nat /\ ~(plan[e].phase > phase)
    BY PlansAssumption DEF Entry
  <2>2. plan[e].phase < phase \/ plan[e].phase = phase
    BY ONLY <2>1
  <2>3. Decided(e) BY <2>2 DEF EndRun, PhaseOver, InPhase, PhaseOrder
  <2>4. FateOf(e) \in Promise!Final
    BY <2>3 DEF Decided, FateOf, Promise!Final
  <2> QED BY <2>4 DEF FateMap
<1>3. \A e \in Entries : FateOf(e)' = IF e \in S THEN "skipped" ELSE FateOf(e)
  <2> SUFFICES ASSUME NEW e \in Entries PROVE FateOf(e)' = IF e \in S THEN "skipped" ELSE FateOf(e)
    OBVIOUS
  <2>1. CASE e \in S
    <3>1. e \notin landed BY <1>0, <2>1 DEF PhaseOrder, KnowsTransfer
    <3>2. at'[e] = "skipped" BY <2>1 DEF EndRun
    <3> QED BY <1>0, <2>1, <3>1, <3>2 DEF FateOf
  <2>2. CASE e \notin S
    <3>1. at'[e] = at[e] BY <2>2 DEF EndRun
    <3> QED BY <1>0, <2>2, <3>1 DEF FateOf
  <2> QED BY <2>1, <2>2
<1>4. FateMap' = [e \in Entries |-> IF e \in S THEN "skipped" ELSE FateMap[e]]
  BY <1>3 DEF FateMap
<1>5. Promise!Finish
  <2>1. S \in SUBSET Entries OBVIOUS
  <2> HIDE DEF S
  <2> QED BY <1>0, <1>1, <1>2, <1>4, <2>1 DEF Promise!Finish
<1>6. \A f \in Entries : QueueOf(f)' = QueueOf(f)
  BY <1>0 DEF QueueOf
<1>7. UNCHANGED <<PhaseMap, QueueMap>>
  BY <1>0, <1>6 DEF PhaseMap, QueueMap
<1> QED BY <1>0, <1>5, <1>7 DEF Promise!Next

\* The move engine implements the contract its callers are given: MovePromise.
THEOREM Implements == Spec => KeepsPromise
<1>1. Init => Promise!Init
  <2> SUFFICES ASSUME Init PROVE Promise!Init
    OBVIOUS
  <2> QED BY DEF Init, Promise!Init, FateMap, FateOf
<1>2. IInv /\ [Next]_vars => [Promise!Next]_(Promise!vars)
  <2> SUFFICES ASSUME IInv, [Next]_vars PROVE Promise!Next \/ UNCHANGED Promise!vars
    OBVIOUS
  <2>1. ASSUME NEW e \in Entries, QueueStep(e) PROVE Promise!Next \/ UNCHANGED Promise!vars
    BY <2>1, QueueStepRefines
  <2>2. CASE NextPhase \/ CloseRun
    BY <2>2, Stutters DEF IInv, NextPhase, CloseRun, PhaseOver, FateOf, worldVars
  <2>3. CASE EndRun BY <2>3, EndRunRefines
  <2>4. CASE World
    BY <2>4, Stutters
       DEF IInv, World, AppAccepts, AppRefuses, AppFails, AppCopies, AppFinishes, AppStep,
           OtherWrites, FateOf, engineVars
  <2>5. CASE UNCHANGED vars
    BY <2>5, Stutters DEF IInv, vars, engineVars, FateOf
  <2> QED BY <2>1, <2>2, <2>3, <2>4, <2>5 DEF Next, RunStep
<1> QED BY <1>1, <1>2, Invariance, PTL DEF Spec, KeepsPromise, Promise!Spec
=============================================================================
