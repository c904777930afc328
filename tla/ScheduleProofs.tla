--------------------------- MODULE ScheduleProofs ---------------------------
(***************************************************************************)
(* What is proved of Schedule, for every set of tasks, length of day, set   *)
(* of schedules and horizon: that an armed task stays not due by the time   *)
(* it was armed, that the times the page shows are of runs, that a restart  *)
(* changes neither them nor when a task is next due, that a tick leaves     *)
(* nothing due that it had a turn for, and that no slot is run twice.       *)
(*                                                                          *)
(* Four facts carry it.  Arming leaves a task that is not due then.  An     *)
(* anchor only ever moves on, or to the time of the tick at work, and       *)
(* neither makes a task due.  What a tick records is no earlier than what   *)
(* was armed with no tick under way.  And the slots of a task are always    *)
(* behind its anchor, or behind a time at which it was armed and not due,   *)
(* so what it is found due for next is a slot past them all (Settled).      *)
(***************************************************************************)
EXTENDS Schedule, TLAPS

USE DEF SchedulerConfig, ValidateScheduler, Tick

-----------------------------------------------------------------------------
(* Days *)

LEMMA DayBounds ==
  ASSUME NEW x \in Nat
  PROVE  /\ Day(x) \in Nat
         /\ Day(x) * DayLength <= x
         /\ x < Day(x) * DayLength + DayLength
BY DayAssumption, SMT DEF Day

LEMMA DayMonotone ==
  ASSUME NEW x \in Nat, NEW y \in Nat, x <= y
  PROVE  Day(x) <= Day(y)
<1>1. Day(x) \in Nat /\ Day(y) \in Nat /\ Day(x) * DayLength <= x /\ y < Day(y) * DayLength + DayLength
  BY DayBounds
<1>2. SUFFICES ASSUME Day(y) + 1 <= Day(x) PROVE FALSE
  BY <1>1
<1>3. (Day(y) + 1) * DayLength <= Day(x) * DayLength
  BY <1>1, <1>2, DayAssumption
<1> QED BY <1>1, <1>3, DayAssumption

LEMMA DayOfSlot ==
  ASSUME NEW d \in Nat, NEW s \in Schedule
  PROVE  SlotOn(d, s) \in Nat /\ Day(SlotOn(d, s)) = d
<1>1. d * DayLength \in Nat /\ s.at \in Nat /\ s.at < DayLength
  BY DayAssumption DEF Schedule
<1>2. SlotOn(d, s) \in Nat /\ SlotOn(d, s) = d * DayLength + s.at
  BY <1>1 DEF SlotOn
<1>3. (d * DayLength + s.at) \div DayLength = d
  BY <1>1, DayAssumption
<1> QED BY <1>2, <1>3 DEF Day

-----------------------------------------------------------------------------
(* Due and Arm *)

LEMMA TimesAreNat ==
  /\ Times \subseteq Nat /\ Never \in Int /\ Moments \subseteq Int
  /\ \A m \in Moments : m = Never \/ m \in Times
  /\ \A time \in Times : time \in Moments /\ Never < time /\ time <= Horizon
  /\ \A time \in Nat : time <= Horizon => time \in Times
BY BoundsAssumption DEF Times, Moments, Never

\* Arming moves an anchor on, to a time that has passed.
LEMMA ArmMovesOn ==
  ASSUME NEW s \in Schedule, Validate(s), NEW anchor \in Moments, NEW now \in Times
  PROVE  Arm(s, anchor, now) \in Moments /\ anchor <= Arm(s, anchor, now)
<1>1. now \in Nat /\ anchor \in Int /\ s.every \in Int /\ s.at \in Int
  BY TimesAreNat DEF Schedule
<1>2. CASE ~Due(s, anchor, now)
  BY <1>1, <1>2 DEF Arm
<1>3. CASE Due(s, anchor, now)
  <2>1. s.every >= 1
    BY <1>1, <1>3 DEF Due, Validate
  <2>2. CASE s.unit = "daily"
    <3>1. Arm(s, anchor, now) = SlotOn(Day(now), s) /\ DueDaily(s, anchor, now)
      BY <1>3, <2>2 DEF Arm, Due
    <3>2. Day(now) \in Nat /\ SlotOn(Day(now), s) \in Nat /\ Day(SlotOn(Day(now), s)) = Day(now)
      BY <1>1, DayBounds, DayOfSlot
    <3>3. SlotOn(Day(now), s) <= now
      BY <3>1 DEF DueDaily
    <3>4. SlotOn(Day(now), s) \in Times
      BY <1>1, <3>2, <3>3, TimesAreNat, BoundsAssumption DEF Times
    <3>5. CASE anchor = Never
      BY <3>1, <3>4, <3>5, TimesAreNat DEF Never, Times
    <3>6. CASE anchor # Never
      <4>1. anchor \in Nat /\ Day(anchor) \in Nat /\ Day(now) >= Day(anchor) + s.every
        BY <3>1, <3>6, TimesAreNat, DayBounds DEF DueDaily
      <4>2. ~(SlotOn(Day(now), s) <= anchor)
        <5>1. SUFFICES ASSUME SlotOn(Day(now), s) <= anchor PROVE FALSE
          OBVIOUS
        <5>2. Day(now) <= Day(anchor)
          BY <3>2, <4>1, <5>1, DayMonotone
        <5> QED BY <1>1, <2>1, <3>2, <4>1, <5>2
      <4> QED BY <3>1, <3>2, <3>4, <4>1, <4>2, TimesAreNat
    <3> QED BY <3>5, <3>6
  <2>3. CASE s.unit # "daily"
    <3>1. Arm(s, anchor, now) = now /\ s.unit = "hourly"
      BY <1>3, <2>3 DEF Arm, Schedule
    <3>2. anchor # Never => now >= anchor + s.every
      BY <1>3, <3>1 DEF Due
    <3> QED BY <1>1, <2>1, <3>1, <3>2, TimesAreNat
  <2> QED BY <2>2, <2>3
<1> QED BY <1>2, <1>3

\* "Starting up never starts a task."
LEMMA ArmedIsNotDue ==
  ASSUME NEW s \in Schedule, Validate(s), NEW anchor \in Moments, NEW now \in Times
  PROVE  ~Due(s, Arm(s, anchor, now), now)
<1>1. now \in Nat /\ now # Never /\ s.every \in Int
  BY TimesAreNat DEF Schedule, Times, Never
<1>2. CASE ~Due(s, anchor, now)
  BY <1>2 DEF Arm
<1>3. CASE Due(s, anchor, now)
  <2>1. s.every >= 1
    BY <1>3 DEF Due, Validate
  <2>2. CASE s.unit = "daily"
    <3>1. Arm(s, anchor, now) = SlotOn(Day(now), s)
      BY <1>3, <2>2 DEF Arm
    <3>2. Day(now) \in Nat /\ SlotOn(Day(now), s) \in Nat /\ Day(SlotOn(Day(now), s)) = Day(now)
      BY <1>1, DayBounds, DayOfSlot
    <3>3. SlotOn(Day(now), s) # Never
      BY <3>2 DEF Never
    <3>4. ~(Day(now) >= Day(SlotOn(Day(now), s)) + s.every)
      BY <1>1, <2>1, <3>2
    <3> QED BY <2>2, <3>1, <3>3, <3>4 DEF Due, DueDaily
  <2>3. CASE s.unit # "daily"
    <3>1. Arm(s, anchor, now) = now /\ s.unit = "hourly"
      BY <1>3, <2>3 DEF Arm, Schedule
    <3>2. ~(now >= now + s.every)
      BY <1>1, <2>1
    <3> QED BY <1>1, <3>1, <3>2 DEF Due
  <2> QED BY <2>2, <2>3
<1> QED BY <1>2, <1>3

\* Moving an anchor on never makes a task due.
LEMMA LaterIsNotDue ==
  ASSUME NEW s \in Schedule, NEW a \in Moments, NEW b \in Moments, a <= b,
         NEW time \in Times, ~Due(s, a, time)
  PROVE  ~Due(s, b, time)
<1>1. s.every \in Int /\ a \in Int /\ b \in Int /\ time \in Int
  BY TimesAreNat DEF Schedule
<1>2. a # Never => b # Never
  BY TimesAreNat, <1>1 DEF Never, Moments, Times
<1>3. CASE s.unit = "hourly"
  BY <1>1, <1>2, <1>3 DEF Due
<1>4. CASE s.unit # "hourly"
  <2>1. s.enabled => ~DueDaily(s, a, time)
    BY <1>4 DEF Due
  <2>2. CASE a # Never
    <3>1. a \in Nat /\ b \in Nat
      BY <1>2, <2>2, TimesAreNat
    <3>2. Day(a) \in Int /\ Day(b) \in Int /\ Day(time) \in Int /\ Day(a) <= Day(b)
      BY <3>1, DayMonotone, DayBounds, TimesAreNat
    <3>3. Day(time) >= Day(b) + s.every => Day(time) >= Day(a) + s.every
      BY <1>1, <3>2
    <3> QED BY <1>2, <1>4, <2>1, <2>2, <3>3 DEF Due, DueDaily
  <2>3. CASE a = Never
    BY <1>4, <2>1, <2>3 DEF Due, DueDaily
  <2> QED BY <2>2, <2>3
<1> QED BY <1>3, <1>4

\* A run recorded at a time leaves the task not due then, nor before.
LEMMA RecordedIsNotDue ==
  ASSUME NEW s \in Schedule, Validate(s), NEW time \in Times, NEW run \in Times, time <= run
  PROVE  ~Due(s, run, time)
<1>1. s.every \in Int /\ time \in Nat /\ run \in Nat /\ run # Never
  BY TimesAreNat DEF Schedule, Times, Never
<1>2. SUFFICES ASSUME s.enabled, s.every >= 1 PROVE ~Due(s, run, time)
  BY DEF Due, Validate
<1>3. Day(time) \in Int /\ Day(run) \in Int /\ Day(time) <= Day(run)
  BY <1>1, DayMonotone, DayBounds
<1>4. ~(time >= run + s.every) /\ ~(Day(time) >= Day(run) + s.every)
  BY <1>1, <1>2, <1>3
<1> QED BY <1>1, <1>4 DEF Due, DueDaily

-----------------------------------------------------------------------------
(* Types *)

\* Times and anchors can be compared.
LEMMA Reflexive == /\ \A m \in Moments : m \in Int /\ m <= m
                   /\ \A m \in Times : m \in Moments /\ m <= m
BY TimesAreNat

LEMMA NeverIsMoment == Never \in Moments
BY DEF Moments

LEMMA InitType == Init => TypeOK
<1> SUFFICES ASSUME Init PROVE TypeOK
  OBVIOUS
<1>1. PICK s \in Starts : clock = s.clock /\ conf = s.conf /\ omit = s.omit /\ file = s.kept /\ before = s.kept
  BY DEF Init
<1>2. clock \in Times /\ conf \in [Tasks -> Schedule] /\ omit \subseteq Days
      /\ file \in [Tasks -> Timing] /\ before \in [Tasks -> Timing]
  BY <1>1, StartsAssumption
<1>3. state \in [Tasks -> Timing]
  BY NeverIsMoment DEF Init, Unrun, Timing
<1>4. tick \in Tick
  BY <1>2, NeverIsMoment, TimesAreNat DEF Init, NoTick
<1>5. armed \in [Tasks -> [time : Moments, quiet : BOOLEAN]]
  BY NeverIsMoment DEF Init
<1> QED BY <1>2, <1>3, <1>4, <1>5, NeverIsMoment DEF Init, TypeOK

LEMMA SaveStateType ==
  ASSUME TypeOK, NEW new \in [Tasks -> Timing], SaveState(new)
  PROVE  state' \in [Tasks -> Timing] /\ file' \in [Tasks -> Timing]
BY DEF SaveState, TypeOK, bounds

LEMMA RecordType ==
  ASSUME TypeOK, NEW t, NEW time \in Moments, RecordTaskRan(t, time)
  PROVE  state' \in [Tasks -> Timing] /\ file' \in [Tasks -> Timing]
<1>1. [state EXCEPT ![t] = [anchor |-> time, lastRan |-> time]] \in [Tasks -> Timing]
  BY DEF TypeOK, Timing
<1> QED BY <1>1, SaveStateType DEF RecordTaskRan

LEMMA RearmedType ==
  ASSUME NEW timing \in Timing, NEW s \in Schedule, Validate(s), NEW now \in Times
  PROVE  /\ Rearmed(timing, s, now) \in Timing
         /\ Rearmed(timing, s, now).anchor = Arm(s, timing.anchor, now)
         /\ Rearmed(timing, s, now).lastRan = timing.lastRan
BY ArmMovesOn DEF Rearmed, Timing

\* Schedules that are configured, or about to be armed, have been validated.
Valid ==
  /\ \A t \in Tasks : Validate(conf[t])
  /\ \A save \in saving : Validate(save.sched)

LEMMA InitValid == Init => Valid
BY StartsAssumption DEF Init, Valid

LEMMA NextValid ==
  ASSUME TypeOK, Valid, [Next]_vars
  PROVE  Valid'
<1>1. CASE UNCHANGED vars
  BY <1>1 DEF vars, Valid
<1>2. CASE \E t \in Tasks, s \in Schedules : UpdateSchedule(t, s)
  <2>1. PICK t \in Tasks, s \in Schedules : UpdateSchedule(t, s)
    BY <1>2
  <2>2. Validate(s) /\ conf' = [conf EXCEPT ![t] = s]
        /\ saving' = saving \cup {[task |-> t, sched |-> s, now |-> clock]}
    BY <2>1 DEF UpdateSchedule, SaveConfig
  <2>3. \A u \in Tasks : Validate(conf'[u])
    BY <2>2 DEF Valid, TypeOK
  <2>4. \A save \in saving' : Validate(save.sched)
    BY <2>2 DEF Valid
  <2> QED BY <2>3, <2>4 DEF Valid, Validate
<1>3. CASE Crash
  BY <1>3 DEF Crash, Valid
<1>4. CASE \E save \in saving : ArmTask(save)
  BY <1>4 DEF ArmTask, Valid
<1>5. CASE conf' = conf /\ saving' = saving
  BY <1>5 DEF Valid
<1>6. CASE StartScheduler \/ Advance \/ StartTick \/ EndTick
  BY <1>5, <1>6 DEF StartScheduler, Advance, StartTick, EndTick
<1>7. CASE \E t \in Tasks : Turn(t) \/ ScanNow(t) \/ ScanNowEnds(t)
  <2>1. PICK t \in Tasks : Turn(t) \/ ScanNow(t) \/ ScanNowEnds(t)
    BY <1>7
  <2> QED BY <1>5, <2>1 DEF Turn, ScanNow, ScanNowEnds, NotDue, FoundDue, PutOff, RunScan, ScanEnds, ScanBefore,
                            ScannedBefore, Refuse, StartApply, Started
<1>8. CASE \E days \in OmitChoices : UpdateWeeklyOmitDays(days)
  BY <1>5, <1>8 DEF UpdateWeeklyOmitDays, SaveConfig
<1> QED BY <1>1, <1>2, <1>3, <1>4, <1>6, <1>7, <1>8 DEF Next, HandleSchedulerSave

\* What nothing but people and starting up changes.
Stays == UNCHANGED <<conf, omit, up, saving, armed, before>>

LEMMA TypeStays ==
  ASSUME TypeOK, Stays, clock' = clock, channel' = channel, byHand' = byHand,
         tick' \in Tick,
         mutex' \in [Tasks -> {"nobody", "tick", "hand"}],
         state' \in [Tasks -> Timing], file' \in [Tasks -> Timing]
  PROVE  TypeOK'
BY DEF TypeOK, Stays

LEMMA TurnType ==
  ASSUME TypeOK, NEW t \in Tasks, Turn(t)
  PROVE  TypeOK'
<1>1. tick.now \in Moments /\ tick.now \in Int
  BY TimesAreNat DEF TypeOK
<1>2. After(t) => tick' \in Tick
  <2>1. tick.left \ {t} \subseteq Tasks
    BY DEF TypeOK
  <2> QED BY <2>1, TimesAreNat DEF After, TypeOK
<1>3. \A at \in {"scanning", "preparing", "planning", "started"} : Goto(at) => tick' \in Tick
  BY DEF Goto, TypeOK
<1>4. CASE NotDue(t) \/ PutOff(t)
  BY <1>2, <1>4, TypeStays DEF NotDue, PutOff, past, bounds, Stays, TypeOK
<1>5. CASE FoundDue(t)
  <2>1. SlotFor(t) \in Int
    <3>1. tick.conf[t] \in Schedule /\ state[t].anchor \in Int
      BY TimesAreNat DEF TypeOK, Timing
    <3>2. tick.conf[t].at \in Int /\ tick.conf[t].every \in Int
      BY <3>1 DEF Schedule
    <3>3. Day(tick.now) * DayLength \in Int
      BY <1>1, DayAssumption DEF Day
    <3> QED BY <1>1, <3>1, <3>2, <3>3 DEF SlotFor, SlotOn
  <2>2. tick' \in Tick
    BY <1>5, <2>1 DEF FoundDue, TypeOK
  <2> QED BY <1>5, <2>2, TypeStays DEF FoundDue, past, bounds, Stays, TypeOK
<1>6. CASE RunScan(t)
  <2>1. mutex' \in [Tasks -> {"nobody", "tick", "hand"}]
    BY <1>6 DEF RunScan, TypeOK
  <2>2. state' \in [Tasks -> Timing] /\ file' \in [Tasks -> Timing]
    BY <1>1, <1>6, RecordType DEF RunScan
  <2> QED BY <1>3, <1>6, <2>1, <2>2, TypeStays DEF RunScan, Stays
<1>7. CASE ScanEnds(t)
  <2>1. mutex' \in [Tasks -> {"nobody", "tick", "hand"}]
    BY <1>7 DEF ScanEnds, TypeOK
  <2> QED BY <1>2, <1>7, <2>1, TypeStays DEF ScanEnds, past, bounds, Stays, TypeOK
<1>8. CASE ScanBefore(t)
  <2>1. mutex' \in [Tasks -> {"nobody", "tick", "hand"}]
    BY <1>8 DEF ScanBefore, TypeOK
  <2>2. tick' \in Tick
    BY <1>3, <1>8 DEF ScanBefore
  <2> QED BY <1>8, <2>1, <2>2, TypeStays DEF ScanBefore, past, bounds, Stays, TypeOK
<1>9. CASE ScannedBefore(t)
  <2>1. mutex' \in [Tasks -> {"nobody", "tick", "hand"}]
    BY <1>9 DEF ScannedBefore, TypeOK
  <2>2. state' \in [Tasks -> Timing] /\ file' \in [Tasks -> Timing]
    BY <1>1, <1>9, RecordType DEF ScannedBefore, TypeOK
  <2> QED BY <1>3, <1>9, <2>1, <2>2, TypeStays DEF ScannedBefore, Stays
<1>10. CASE Refuse(t) \/ Started(t)
  <2>1. state' \in [Tasks -> Timing] /\ file' \in [Tasks -> Timing]
    BY <1>1, <1>10, RecordType DEF Refuse, Started
  <2> QED BY <1>2, <1>10, <2>1, TypeStays DEF Refuse, Started, Stays, TypeOK
<1>11. CASE StartApply(t)
  BY <1>3, <1>11, TypeStays DEF StartApply, bounds, Stays, TypeOK
<1> QED BY <1>4, <1>5, <1>6, <1>7, <1>8, <1>9, <1>10, <1>11 DEF Turn

LEMMA NextType ==
  ASSUME TypeOK, Valid, [Next]_vars
  PROVE  TypeOK'
<1>1. CASE UNCHANGED vars
  BY <1>1 DEF vars, past, bounds, TypeOK
<1>2. CASE StartScheduler
  <2> DEFINE new == [t \in Tasks |-> Rearmed(file[t], conf[t], clock)]
  <2>1. new \in [Tasks -> Timing]
    BY RearmedType DEF TypeOK, Valid
  <2>2. state' \in [Tasks -> Timing] /\ file' \in [Tasks -> Timing]
    <3>1. CASE new = file
      BY <1>2, <2>1, <3>1 DEF StartScheduler, TypeOK
    <3>2. CASE new # file
      BY <1>2, <2>1, <3>2, SaveStateType DEF StartScheduler
    <3> QED BY <3>1, <3>2
  <2>3. armed' \in [Tasks -> [time : Moments, quiet : BOOLEAN]]
    BY <1>2, TimesAreNat DEF StartScheduler, TypeOK
  <2> QED BY <1>2, <2>2, <2>3 DEF StartScheduler, TypeOK
<1>3. CASE Crash
  <2>1. state' \in [Tasks -> Timing]
    BY <1>3, NeverIsMoment DEF Crash, Unrun, Timing
  <2>2. tick' \in Tick
    BY <1>3, NeverIsMoment, TimesAreNat DEF Crash, NoTick, TypeOK
  <2> QED BY <1>3, <2>1, <2>2, NeverIsMoment DEF Crash, TypeOK
<1>4. CASE Advance
  <2>1. clock + 1 \in Times
    BY <1>4, TimesAreNat, BoundsAssumption DEF Advance, TypeOK, Times
  <2> QED BY <1>4, <2>1, TimesAreNat DEF Advance, past, bounds, TypeOK
<1>5. CASE StartTick
  <2>1. tick' \in Tick
    BY <1>5, NeverIsMoment, TimesAreNat DEF StartTick, TypeOK
  <2> QED BY <1>5, <2>1, NeverIsMoment DEF StartTick, bounds, TypeOK
<1>6. CASE EndTick
  <2>1. tick' \in Tick
    BY <1>6, NeverIsMoment, TimesAreNat DEF EndTick, NoTick, TypeOK
  <2> QED BY <1>6, <2>1 DEF EndTick, past, bounds, TypeOK
<1>7. CASE \E t \in Tasks : Turn(t) \/ ScanNow(t) \/ ScanNowEnds(t)
  <2>1. PICK t \in Tasks : Turn(t) \/ ScanNow(t) \/ ScanNowEnds(t)
    BY <1>7
  <2>2. CASE Turn(t)
    BY <2>2, TurnType
  <2>3. CASE ScanNow(t)
    <3>1. mutex' \in [Tasks -> {"nobody", "tick", "hand"}]
      BY <2>3 DEF ScanNow, TypeOK
    <3> QED BY <2>3, <3>1 DEF ScanNow, past, TypeOK
  <2>4. CASE ScanNowEnds(t)
    <3>1. mutex' \in [Tasks -> {"nobody", "tick", "hand"}]
      BY <2>4 DEF ScanNowEnds, TypeOK
    <3>2. clock \in Moments
      BY TimesAreNat DEF TypeOK
    <3>3. state' \in [Tasks -> Timing] /\ file' \in [Tasks -> Timing]
      BY <2>4, <3>2, RecordType DEF ScanNowEnds, TypeOK
    <3> QED BY <2>4, <3>1, <3>3 DEF ScanNowEnds, TypeOK
  <2> QED BY <2>1, <2>2, <2>3, <2>4
<1>8. CASE \E t \in Tasks, s \in Schedules : UpdateSchedule(t, s)
  BY <1>8, SchedulesAssumption DEF UpdateSchedule, SaveConfig, past, TypeOK
<1>9. CASE \E save \in saving : ArmTask(save)
  <2>1. PICK save \in saving : ArmTask(save)
    BY <1>9
  <2> DEFINE t == save.task
             new == Rearmed(state[t], save.sched, save.now)
  <2>2. t \in Tasks /\ save.sched \in Schedule /\ save.now \in Times /\ Validate(save.sched)
    BY DEF TypeOK, Valid
  <2>3. new \in Timing
    BY <2>2, RearmedType DEF TypeOK
  <2>4. [state EXCEPT ![t] = new] \in [Tasks -> Timing]
    BY <2>2, <2>3 DEF TypeOK
  <2>5. state' \in [Tasks -> Timing] /\ file' \in [Tasks -> Timing]
    <3>1. CASE new = state[t]
      BY <2>1, <3>1 DEF ArmTask, TypeOK
    <3>2. CASE new # state[t]
      BY <2>1, <2>4, <3>2, SaveStateType DEF ArmTask
    <3> QED BY <3>1, <3>2
  <2>6. armed' \in [Tasks -> [time : Moments, quiet : BOOLEAN]]
    BY <2>1, <2>2, TimesAreNat DEF ArmTask, TypeOK
  <2> QED BY <2>1, <2>5, <2>6 DEF ArmTask, TypeOK
<1>10. CASE \E days \in OmitChoices : UpdateWeeklyOmitDays(days)
  BY <1>10, SchedulesAssumption DEF UpdateWeeklyOmitDays, SaveConfig, past, TypeOK
<1> QED BY <1>1, <1>2, <1>3, <1>4, <1>5, <1>6, <1>7, <1>8, <1>9, <1>10 DEF Next, HandleSchedulerSave

\* The state, the tick, and schedules saved, are what their types say, under every
\* length of day, set of tasks and horizon.
THEOREM TypeCorrect == Spec => [](TypeOK /\ Valid)
<1>1. Init => TypeOK /\ Valid
  BY InitType, InitValid
<1>2. TypeOK /\ Valid /\ [Next]_vars => (TypeOK /\ Valid)'
  BY NextType, NextValid
<1> QED BY <1>1, <1>2, PTL DEF Spec

-----------------------------------------------------------------------------
(* What the page shows *)

Ran == ran \in [Tasks -> SUBSET Moments]

LEMMA SaveKeepsTruth ==
  ASSUME TypeOK, LastRanIsTrue, NEW new, SaveState(new),
         \A t \in Tasks : ran[t] \subseteq ran'[t],
         \A t \in Tasks : new[t].lastRan \in ran'[t] \cup {Never} /\ new[t].anchor >= new[t].lastRan
  PROVE  LastRanIsTrue'
<1>1. state' = new /\ file' \in {new, file}
  BY DEF SaveState
<1> QED BY <1>1 DEF LastRanIsTrue

LEMMA RecordKeepsTruth ==
  ASSUME TypeOK, Ran, LastRanIsTrue, NEW t, NEW time \in Moments, RecordTaskRan(t, time)
  PROVE  Ran' /\ LastRanIsTrue'
<1> DEFINE new == [state EXCEPT ![t] = [anchor |-> time, lastRan |-> time]]
<1>1. SaveState(new) /\ ran' = [ran EXCEPT ![t] = @ \cup {time}]
  BY DEF RecordTaskRan
<1>2. Ran' /\ \A u \in Tasks : ran[u] \subseteq ran'[u]
  BY <1>1 DEF Ran
<1>3. time >= time
  BY TimesAreNat
<1>4. \A u \in Tasks : new[u].lastRan \in ran'[u] \cup {Never} /\ new[u].anchor >= new[u].lastRan
  <2> SUFFICES ASSUME NEW u \in Tasks
               PROVE  new[u].lastRan \in ran'[u] \cup {Never} /\ new[u].anchor >= new[u].lastRan
    OBVIOUS
  <2>1. CASE u = t
    BY <1>1, <1>3, <2>1 DEF TypeOK, Ran
  <2>2. CASE u # t
    BY <1>2, <2>2 DEF TypeOK, LastRanIsTrue
  <2> QED BY <2>1, <2>2
<1> HIDE DEF new
<1> QED BY <1>1, <1>2, <1>4, SaveKeepsTruth

LEMMA TruthStays ==
  ASSUME Ran, LastRanIsTrue, ran' = ran, state' = state, file' = file
  PROVE  Ran' /\ LastRanIsTrue'
BY DEF Ran, LastRanIsTrue

LEMMA NextTruth ==
  ASSUME TypeOK, Valid, Ran, LastRanIsTrue, [Next]_vars
  PROVE  Ran' /\ LastRanIsTrue'
<1>1. tick.now \in Moments /\ clock \in Moments /\ clock \in Times
  BY TimesAreNat DEF TypeOK
<1>2. CASE UNCHANGED vars
  BY <1>2, TruthStays DEF vars, past
<1>3. CASE StartScheduler
  <2> DEFINE new == [t \in Tasks |-> Rearmed(file[t], conf[t], clock)]
  <2>1. \A t \in Tasks : new[t].lastRan = file[t].lastRan /\ file[t].anchor <= new[t].anchor
                         /\ new[t].anchor \in Int /\ file[t].anchor \in Int /\ file[t].lastRan \in Int
    <3> TAKE t \in Tasks
    <3>1. file[t] \in Timing /\ file[t].anchor \in Moments /\ file[t].lastRan \in Moments
          /\ conf[t] \in Schedule /\ Validate(conf[t])
      BY DEF TypeOK, Valid, Timing
    <3>2. /\ Rearmed(file[t], conf[t], clock).anchor = Arm(conf[t], file[t].anchor, clock)
          /\ Rearmed(file[t], conf[t], clock).lastRan = file[t].lastRan
      BY <1>1, <3>1, RearmedType
    <3>3. Arm(conf[t], file[t].anchor, clock) \in Moments /\ file[t].anchor <= Arm(conf[t], file[t].anchor, clock)
      BY <1>1, <3>1, ArmMovesOn
    <3> QED BY <3>1, <3>2, <3>3, TimesAreNat
  <2>2. \A t \in Tasks : file[t].lastRan \in ran[t] \cup {Never} /\ file[t].anchor >= file[t].lastRan
    BY DEF LastRanIsTrue
  <2>3. \A t \in Tasks : new[t].lastRan \in ran[t] \cup {Never} /\ new[t].anchor >= new[t].lastRan
    BY <2>1, <2>2
  <2>4. ran' = ran
    BY <1>3 DEF StartScheduler
  <2>5. CASE new = file
    <3>1. state' = file /\ file' = file
      BY <1>3, <2>5 DEF StartScheduler
    <3> QED BY <2>2, <2>4, <3>1 DEF LastRanIsTrue, Ran
  <2>6. CASE new # file
    <3>1. SaveState(new)
      BY <1>3, <2>6 DEF StartScheduler
    <3> HIDE DEF new
    <3> QED BY <2>3, <2>4, <3>1, SaveKeepsTruth DEF Ran
  <2> QED BY <2>5, <2>6
<1>4. CASE Crash
  <2>1. state' = Unrun /\ file' = file /\ ran' = ran
    BY <1>4 DEF Crash
  <2> QED BY <2>1, TimesAreNat DEF LastRanIsTrue, Ran, Unrun
<1>5. CASE Advance \/ StartTick \/ EndTick
  BY <1>5, TruthStays DEF Advance, StartTick, EndTick, past
<1>6. CASE \E t \in Tasks : Turn(t) \/ ScanNow(t) \/ ScanNowEnds(t)
  <2>1. PICK t \in Tasks : Turn(t) \/ ScanNow(t) \/ ScanNowEnds(t)
    BY <1>6
  <2>2. CASE NotDue(t) \/ FoundDue(t) \/ PutOff(t) \/ ScanEnds(t) \/ ScanBefore(t) \/ StartApply(t) \/ ScanNow(t)
    BY <2>2, TruthStays DEF NotDue, FoundDue, PutOff, ScanEnds, ScanBefore, StartApply, ScanNow, past
  <2>3. CASE RunScan(t) \/ Refuse(t) \/ Started(t)
    BY <1>1, <2>3, RecordKeepsTruth DEF RunScan, Refuse, Started
  <2>4. CASE ScannedBefore(t)
    BY <1>1, <2>4, RecordKeepsTruth, TruthStays DEF ScannedBefore
  <2>5. CASE ScanNowEnds(t)
    BY <1>1, <2>5, RecordKeepsTruth, TruthStays DEF ScanNowEnds
  <2> QED BY <2>1, <2>2, <2>3, <2>4, <2>5 DEF Turn
<1>7. CASE \E t \in Tasks, s \in Schedules : UpdateSchedule(t, s)
  BY <1>7, TruthStays DEF UpdateSchedule, SaveConfig, past
<1>8. CASE \E save \in saving : ArmTask(save)
  <2>1. PICK save \in saving : ArmTask(save)
    BY <1>8
  <2> DEFINE t == save.task
             one == Rearmed(state[t], save.sched, save.now)
             new == [state EXCEPT ![t] = one]
  <2>2. t \in Tasks /\ save.sched \in Schedule /\ save.now \in Times /\ Validate(save.sched)
        /\ state[t] \in Timing
    BY DEF TypeOK, Valid
  <2>3. one.lastRan = state[t].lastRan /\ state[t].anchor <= one.anchor
        /\ one.anchor \in Int /\ state[t].anchor \in Int /\ state[t].lastRan \in Int
    <3>1. state[t].anchor \in Moments /\ state[t].lastRan \in Int /\ state[t].anchor \in Int
      BY <2>2, TimesAreNat DEF Timing
    <3>2. Arm(save.sched, state[t].anchor, save.now) \in Moments /\ state[t].anchor <= Arm(save.sched, state[t].anchor, save.now)
      BY <2>2, <3>1, ArmMovesOn
    <3> QED BY <2>2, <3>1, <3>2, RearmedType, TimesAreNat
  <2>4. \A u \in Tasks : state[u].lastRan \in ran[u] \cup {Never} /\ state[u].anchor >= state[u].lastRan
    BY DEF LastRanIsTrue
  <2>5. \A u \in Tasks : new[u].lastRan \in ran[u] \cup {Never} /\ new[u].anchor >= new[u].lastRan
    BY <2>2, <2>3, <2>4 DEF TypeOK
  <2>6. ran' = ran
    BY <2>1 DEF ArmTask
  <2>7. CASE one = state[t]
    BY <2>1, <2>6, <2>7, TruthStays DEF ArmTask
  <2>8. CASE one # state[t]
    <3>1. SaveState(new)
      BY <2>1, <2>8 DEF ArmTask
    <3> HIDE DEF new
    <3> QED BY <2>5, <2>6, <3>1, SaveKeepsTruth DEF Ran
  <2> QED BY <2>7, <2>8
<1>9. CASE \E days \in OmitChoices : UpdateWeeklyOmitDays(days)
  BY <1>9, TruthStays DEF UpdateWeeklyOmitDays, SaveConfig, past
<1> QED BY <1>2, <1>3, <1>4, <1>5, <1>6, <1>7, <1>8, <1>9 DEF Next, HandleSchedulerSave

LEMMA InitTruth == Init => Ran /\ LastRanIsTrue
<1> SUFFICES ASSUME Init PROVE Ran /\ LastRanIsTrue
  OBVIOUS
<1>1. PICK s \in Starts : file = s.kept /\ ran = [t \in Tasks |-> {s.kept[t].lastRan} \ {Never}]
  BY DEF Init
<1>2. s.kept \in [Tasks -> Timing] /\ \A t \in Tasks : s.kept[t].lastRan <= s.kept[t].anchor
  BY StartsAssumption
<1>3. \A t \in Tasks : s.kept[t].lastRan \in Moments /\ s.kept[t].anchor \in Int /\ s.kept[t].lastRan \in Int
  BY <1>2, TimesAreNat DEF Timing
<1>4. Ran
  BY <1>1, <1>3 DEF Ran
<1>5. \A t \in Tasks : file[t].lastRan \in ran[t] \cup {Never} /\ file[t].anchor >= file[t].lastRan
  BY <1>1, <1>2, <1>3
<1>6. \A t \in Tasks : state[t].lastRan = Never /\ state[t].anchor = Never
  BY DEF Init, Unrun
<1> QED BY <1>4, <1>5, <1>6, TimesAreNat DEF LastRanIsTrue

\* Whatever is run, scanned by hand, armed, lost or not written: what the page shows as
\* a task's last run was one.
THEOREM LastRanHolds == Spec => []LastRanIsTrue
<1>1. Init => TypeOK /\ Valid /\ Ran /\ LastRanIsTrue
  BY InitType, InitValid, InitTruth
<1>2. TypeOK /\ Valid /\ Ran /\ LastRanIsTrue /\ [Next]_vars => (TypeOK /\ Valid /\ Ran /\ LastRanIsTrue)'
  BY NextType, NextValid, NextTruth
<1> QED BY <1>1, <1>2, PTL DEF Spec

-----------------------------------------------------------------------------
(* What is armed stays not due *)

\* Nothing waits, nor is under way, from before a time when none did or was.
Clocks ==
  /\ channel <= clock
  /\ \A t \in Tasks : armed[t].time <= clock
  /\ up => \A t \in Tasks : armed[t].time \in Times
  /\ ~up => channel = Never /\ tick.at = "idle" /\ saving = {}
  /\ tick.at # "idle" => tick.now \in Times /\ tick.now <= clock /\ (channel # Never => tick.now <= channel)
  /\ \A save \in saving : save.now = clock
  /\ \A t \in Tasks : up /\ armed[t].quiet =>
       /\ channel # Never => armed[t].time <= channel
       /\ tick.at # "idle" => armed[t].time <= tick.now

LEMMA InitClocks == Init => Clocks
<1> SUFFICES ASSUME Init PROVE Clocks
  OBVIOUS
<1>1. clock \in Times
  BY InitType DEF TypeOK
<1> QED BY <1>1, TimesAreNat DEF Init, NoTick, Clocks

LEMMA ClocksStay ==
  ASSUME Clocks, up' = up, armed' = armed, clock' = clock, channel' = channel, saving' = saving,
         tick.at # "idle", tick'.now = tick.now
  PROVE  Clocks'
BY DEF Clocks

LEMMA NextClocks ==
  ASSUME TypeOK, Valid, Clocks, [Next]_vars
  PROVE  Clocks'
<1>1. clock \in Times /\ clock \in Int /\ channel \in Moments /\ channel \in Int /\ tick.now \in Int
      /\ \A t \in Tasks : armed[t].time \in Int
  BY TimesAreNat DEF TypeOK
<1>2. CASE UNCHANGED vars
  BY <1>2 DEF vars, past, Clocks
<1>3. CASE StartScheduler
  <2>1. /\ ~up /\ up' = TRUE /\ channel' = channel /\ tick' = tick /\ saving' = saving /\ clock' = clock
        /\ armed' = [t \in Tasks |-> [time |-> clock, quiet |-> TRUE]]
    BY <1>3 DEF StartScheduler
  <2> QED BY <1>1, <2>1 DEF Clocks
<1>4. CASE Crash
  <2>1. /\ up' = FALSE /\ channel' = Never /\ tick'.at = "idle" /\ saving' = {} /\ clock' = clock /\ armed' = armed
    BY <1>4 DEF Crash, NoTick
  <2> QED BY <1>1, <2>1, TimesAreNat DEF Clocks
<1>5. CASE Advance
  <2>1. /\ clock' = clock + 1 /\ saving = {} /\ saving' = saving /\ up' = up /\ armed' = armed /\ tick' = tick
        /\ channel' = IF up /\ channel = Never THEN clock + 1 ELSE channel
    BY <1>5 DEF Advance, past
  <2>2. CASE channel' = channel
    BY <1>1, <2>1, <2>2 DEF Clocks
  <2>3. CASE channel' = clock + 1
    <3>1. channel' \in Int /\ channel' <= clock' /\ (tick.at # "idle" => tick.now <= channel')
      BY <1>1, <2>1, <2>3 DEF Clocks
    <3>2. \A t \in Tasks : armed[t].time <= clock' /\ armed[t].time <= channel'
      BY <1>1, <2>1, <2>3 DEF Clocks
    <3> QED BY <1>1, <2>1, <3>1, <3>2 DEF Clocks
  <2> QED BY <2>1, <2>2, <2>3
<1>6. CASE StartTick
  <2>1. /\ up /\ tick.at = "idle" /\ channel # Never /\ channel' = Never
        /\ clock' = clock /\ up' = up /\ armed' = armed /\ saving' = saving
        /\ \/ tick' = tick
           \/ tick'.now = channel
    BY <1>6 DEF StartTick
  <2>2. channel \in Times
    BY <2>1, TimesAreNat, <1>1
  <2>3. CASE tick' = tick
    BY <1>1, <2>1, <2>3, TimesAreNat DEF Clocks
  <2>4. CASE tick'.now = channel
    BY <1>1, <2>1, <2>2, <2>4, TimesAreNat DEF Clocks
  <2> QED BY <2>1, <2>3, <2>4
<1>7. CASE EndTick
  <2>1. /\ tick'.at = "idle" /\ clock' = clock /\ up' = up /\ armed' = armed /\ saving' = saving /\ channel' = channel
    BY <1>7 DEF EndTick, NoTick, past
  <2> QED BY <1>1, <2>1 DEF Clocks
<1>8. CASE \E t \in Tasks : Turn(t)
  <2>1. PICK t \in Tasks : Turn(t)
    BY <1>8
  <2>2. (After(t) => tick'.now = tick.now) /\ \A at : Goto(at) => tick'.now = tick.now
    BY DEF After, Goto, TypeOK
  <2>3. tick.at # "idle" /\ tick'.now = tick.now
    BY <2>1, <2>2 DEF Turn, NotDue, FoundDue, PutOff, RunScan, ScanEnds, ScanBefore, ScannedBefore,
                      Refuse, StartApply, Started, Working, TypeOK
  <2>4. UNCHANGED <<up, armed, clock, channel, saving>>
    BY <2>1 DEF Turn, NotDue, FoundDue, PutOff, RunScan, ScanEnds, ScanBefore, ScannedBefore,
                Refuse, StartApply, Started, past
  <2> QED BY <2>3, <2>4, ClocksStay
<1>9. CASE \E t \in Tasks : ScanNow(t) \/ ScanNowEnds(t)
  <2>1. UNCHANGED <<up, armed, clock, channel, saving, tick>>
    BY <1>9 DEF ScanNow, ScanNowEnds, past
  <2> QED BY <2>1 DEF Clocks
<1>10. CASE \E t \in Tasks, s \in Schedules : UpdateSchedule(t, s)
  <2>1. PICK t \in Tasks, s \in Schedules : UpdateSchedule(t, s)
    BY <1>10
  <2>2. UNCHANGED <<up, armed, clock, channel, tick>> /\ up
        /\ saving' = saving \cup {[task |-> t, sched |-> s, now |-> clock]}
    BY <2>1 DEF UpdateSchedule, SaveConfig, past
  <2> QED BY <1>1, <2>2 DEF Clocks
<1>11. CASE \E save \in saving : ArmTask(save)
  <2>1. PICK save \in saving : ArmTask(save)
    BY <1>11
  <2>2. UNCHANGED <<up, clock, channel, tick>> /\ saving' \subseteq saving /\ up
    BY <2>1 DEF ArmTask, Clocks
  <2>3. save.now \in Times /\ save.now = clock /\ save.now <= clock
    <3>1. save.now \in Times /\ save.now = clock
      BY DEF TypeOK, Clocks
    <3> QED BY <1>1, <3>1
  <2>4. \A t \in Tasks : \/ armed'[t] = armed[t]
                         \/ /\ armed'[t].time = save.now
                            /\ armed'[t].quiet => tick.at = "idle" /\ channel = Never
    BY <2>1 DEF ArmTask, TypeOK
  <2> QED BY <1>1, <2>2, <2>3, <2>4 DEF Clocks
<1>12. CASE \E days \in OmitChoices : UpdateWeeklyOmitDays(days)
  BY <1>12 DEF UpdateWeeklyOmitDays, SaveConfig, past, Clocks
<1> QED BY <1>2, <1>3, <1>4, <1>5, <1>6, <1>7, <1>8, <1>9, <1>10, <1>11, <1>12 DEF Next, HandleSchedulerSave

\* Its schedule is saved, and it is not armed yet.
Pending(t) == \E save \in saving : save.task = t /\ save.sched = conf[t]

StaysArmed ==
  \A t \in Tasks : up /\ armed[t].quiet /\ ~Pending(t) => ~Due(conf[t], state[t].anchor, armed[t].time)

LEMMA RecordKeepsArmed ==
  ASSUME TypeOK, Valid, Clocks, StaysArmed, NEW t, NEW time \in Times, RecordTaskRan(t, time),
         UNCHANGED <<conf, up, saving, armed>>,
         \A u \in Tasks : up /\ armed[u].quiet => armed[u].time <= time
  PROVE  StaysArmed'
<1> SUFFICES ASSUME NEW u \in Tasks, up, armed[u].quiet, ~Pending(u)
             PROVE  ~Due(conf[u], state'[u].anchor, armed[u].time)
  BY DEF StaysArmed, Pending
<1>1. state' = [state EXCEPT ![t] = [anchor |-> time, lastRan |-> time]]
  BY DEF RecordTaskRan, SaveState
<1>2. CASE u = t
  <2>1. state'[u].anchor = time
    BY <1>1, <1>2 DEF TypeOK
  <2>2. conf[u] \in Schedule /\ Validate(conf[u]) /\ armed[u].time \in Times /\ armed[u].time <= time
    BY DEF TypeOK, Valid, Clocks
  <2> QED BY <2>1, <2>2, RecordedIsNotDue
<1>3. CASE u # t
  BY <1>1, <1>3 DEF StaysArmed, TypeOK
<1> QED BY <1>2, <1>3

LEMMA ArmedStays ==
  ASSUME StaysArmed, UNCHANGED <<conf, up, state, saving, armed>>
  PROVE  StaysArmed'
BY DEF StaysArmed, Pending

LEMMA NextArmed ==
  ASSUME TypeOK, Valid, Clocks, StaysArmed, [Next]_vars
  PROVE  StaysArmed'
<1>1. \A t \in Tasks : conf[t] \in Schedule /\ Validate(conf[t]) /\ state[t].anchor \in Moments
                       /\ file[t] \in Timing /\ file[t].anchor \in Moments
  BY DEF TypeOK, Valid, Timing
<1>2. clock \in Times
  BY DEF TypeOK
<1>3. CASE UNCHANGED vars
  BY <1>3, ArmedStays DEF vars, past
<1>4. CASE StartScheduler
  <2> DEFINE new == [t \in Tasks |-> Rearmed(file[t], conf[t], clock)]
  <2>1. state' = new /\ conf' = conf /\ armed' = [t \in Tasks |-> [time |-> clock, quiet |-> TRUE]]
    <3>1. CASE new = file
      BY <1>4, <3>1 DEF StartScheduler
    <3>2. CASE new # file
      BY <1>4, <3>2 DEF StartScheduler, SaveState
    <3> QED BY <3>1, <3>2
  <2>2. \A t \in Tasks : state'[t].anchor = Arm(conf[t], file[t].anchor, clock) /\ armed'[t].time = clock
    BY <1>1, <1>2, <2>1, RearmedType
  <2>3. \A t \in Tasks : ~Due(conf[t], state'[t].anchor, armed'[t].time)
    BY <1>1, <1>2, <2>2, ArmedIsNotDue
  <2> QED BY <2>1, <2>3 DEF StaysArmed
<1>5. CASE Crash
  BY <1>5 DEF Crash, StaysArmed
<1>6. CASE Advance \/ StartTick \/ EndTick
  BY <1>6, ArmedStays DEF Advance, StartTick, EndTick, past
<1>7. CASE \E t \in Tasks : Turn(t) \/ ScanNow(t) \/ ScanNowEnds(t)
  <2>1. PICK t \in Tasks : Turn(t) \/ ScanNow(t) \/ ScanNowEnds(t)
    BY <1>7
  <2>2. CASE NotDue(t) \/ FoundDue(t) \/ PutOff(t) \/ ScanEnds(t) \/ ScanBefore(t) \/ StartApply(t) \/ ScanNow(t)
    BY <2>2, ArmedStays DEF NotDue, FoundDue, PutOff, ScanEnds, ScanBefore, StartApply, ScanNow, past
  <2>3. Working(t, "due") \/ Working(t, "planning") \/ Working(t, "preparing") \/ Working(t, "started")
          => tick.now \in Times /\ \A u \in Tasks : up /\ armed[u].quiet => armed[u].time <= tick.now
    BY DEF Working, Clocks
  <2>4. CASE RunScan(t) \/ Refuse(t) \/ Started(t)
    BY <2>3, <2>4, RecordKeepsArmed DEF RunScan, Refuse, Started
  <2>5. CASE ScannedBefore(t)
    BY <2>3, <2>5, RecordKeepsArmed, ArmedStays DEF ScannedBefore
  <2>6. CASE ScanNowEnds(t)
    <3>1. \A u \in Tasks : armed[u].time <= clock
      BY DEF Clocks
    <3> QED BY <1>2, <2>6, <3>1, RecordKeepsArmed, ArmedStays DEF ScanNowEnds
  <2> QED BY <2>1, <2>2, <2>4, <2>5, <2>6 DEF Turn
<1>8. CASE \E t \in Tasks, s \in Schedules : UpdateSchedule(t, s)
  <2>1. PICK t \in Tasks, s \in Schedules : UpdateSchedule(t, s)
    BY <1>8
  <2>2. /\ conf' = [conf EXCEPT ![t] = s]
        /\ saving' = saving \cup {[task |-> t, sched |-> s, now |-> clock]}
        /\ UNCHANGED <<up, state, armed>>
    BY <2>1 DEF UpdateSchedule, SaveConfig, past
  <2>3. Pending(t)'
    <3> DEFINE saved == [task |-> t, sched |-> s, now |-> clock]
    <3>1. conf'[t] = s /\ saved \in saving' /\ saved.task = t /\ saved.sched = s
      BY <2>2 DEF TypeOK
    <3> HIDE DEF saved
    <3> QED BY <3>1 DEF Pending
  <2>4. \A u \in Tasks \ {t} : conf'[u] = conf[u] /\ (Pending(u) => Pending(u)')
    BY <2>2 DEF Pending, TypeOK
  <2> QED BY <2>2, <2>3, <2>4 DEF StaysArmed
<1>9. CASE \E save \in saving : ArmTask(save)
  <2>1. PICK save \in saving : ArmTask(save)
    BY <1>9
  <2> DEFINE t == save.task
             anchor == Arm(save.sched, state[t].anchor, save.now)
  <2>2. t \in Tasks /\ save.sched \in Schedule /\ save.now \in Times /\ Validate(save.sched) /\ state[t] \in Timing
    BY DEF TypeOK, Valid
  <2>3. anchor \in Moments /\ state[t].anchor <= anchor
    BY <1>1, <2>2, ArmMovesOn
  <2>4. state'[t].anchor = anchor /\ \A u \in Tasks \ {t} : state'[u] = state[u]
    <3>1. Rearmed(state[t], save.sched, save.now).anchor = anchor
      BY <2>2, RearmedType
    <3>2. CASE Rearmed(state[t], save.sched, save.now) = state[t]
      BY <2>1, <3>1, <3>2 DEF ArmTask
    <3>3. CASE Rearmed(state[t], save.sched, save.now) # state[t]
      BY <2>1, <2>2, <3>1, <3>3 DEF ArmTask, SaveState, TypeOK
    <3> QED BY <3>2, <3>3
  <2>5. UNCHANGED <<conf, up>> /\ saving' = saving \ {save} /\ \A u \in Tasks \ {t} : armed'[u] = armed[u]
    BY <2>1 DEF ArmTask, TypeOK
  <2>6. \A u \in Tasks \ {t} : Pending(u) => Pending(u)'
    BY <2>5 DEF Pending
  <2>7. CASE save.sched = conf[t]
    <3>1. armed'[t].time = save.now
      BY <2>1, <2>2, <2>7 DEF ArmTask, TypeOK
    <3>2. ~Due(conf[t], anchor, save.now)
      BY <2>2, <1>1, <2>7, ArmedIsNotDue
    <3> HIDE DEF anchor
    <3> QED BY <2>4, <2>5, <2>6, <3>1, <3>2 DEF StaysArmed
  <2>8. CASE save.sched # conf[t]
    <3>1. armed' = armed /\ (Pending(t) => Pending(t)')
      BY <2>1, <2>5, <2>8 DEF ArmTask, Pending
    <3>2. up /\ armed[t].quiet /\ ~Pending(t) => ~Due(conf[t], anchor, armed[t].time)
      <4>1. SUFFICES ASSUME up, armed[t].quiet, ~Pending(t) PROVE ~Due(conf[t], anchor, armed[t].time)
        OBVIOUS
      <4>2. armed[t].time \in Times /\ ~Due(conf[t], state[t].anchor, armed[t].time)
        BY <2>2, <4>1 DEF Clocks, StaysArmed
      <4> QED BY <1>1, <2>2, <2>3, <4>2, LaterIsNotDue
    <3> HIDE DEF anchor
    <3> QED BY <2>2, <2>4, <2>5, <2>6, <3>1, <3>2 DEF StaysArmed
  <2> QED BY <2>7, <2>8
<1>10. CASE \E days \in OmitChoices : UpdateWeeklyOmitDays(days)
  BY <1>10, ArmedStays DEF UpdateWeeklyOmitDays, SaveConfig, past
<1> QED BY <1>3, <1>4, <1>5, <1>6, <1>7, <1>8, <1>9, <1>10 DEF Next, HandleSchedulerSave

\* "Starting up never starts a task", and neither does saving a schedule while no tick
\* is under way, for any schedules, in any order of saves, runs, crashes and restarts.
THEOREM NotOnTheSpotHolds == Spec => []NotOnTheSpot
<1> DEFINE IInv == TypeOK /\ Valid /\ Clocks /\ StaysArmed
<1>1. Init => IInv
  BY InitType, InitValid, InitClocks DEF Init, StaysArmed
<1>2. IInv /\ [Next]_vars => IInv'
  BY NextType, NextValid, NextClocks, NextArmed
<1>3. IInv => NotOnTheSpot
  BY DEF NotOnTheSpot, StaysArmed, Pending
<1> QED BY <1>1, <1>2, <1>3, PTL DEF Spec

-----------------------------------------------------------------------------
(* A restart loses nothing *)

\* Unless an anchor could not be written, the file is what memory is, or was.
Kept ==
  /\ ~up => byHand = {}
  /\ ~faults => file = IF up THEN state ELSE before

LEMMA SaveKeeps ==
  ASSUME NEW new, SaveState(new), up'
  PROVE  Kept'
BY DEF SaveState, Kept

LEMMA KeptStays ==
  ASSUME Kept, UNCHANGED <<up, state, file, before, faults, byHand>>
  PROVE  Kept'
BY DEF Kept

LEMMA NextKept ==
  ASSUME Clocks, Kept, [Next]_vars
  PROVE  Kept'
<1>1. CASE UNCHANGED vars
  BY <1>1, KeptStays DEF vars, past, bounds
<1>2. CASE StartScheduler
  <2> DEFINE new == [t \in Tasks |-> Rearmed(file[t], conf[t], clock)]
  <2>1. up' /\ (new = file => state' = file /\ file' = file) /\ (new # file => SaveState(new))
    BY <1>2 DEF StartScheduler
  <2> HIDE DEF new
  <2> QED BY <2>1, SaveKeeps DEF Kept
<1>3. CASE Crash
  BY <1>3 DEF Crash, Kept
<1>4. CASE Advance \/ StartTick \/ EndTick
  BY <1>4, KeptStays DEF Advance, StartTick, EndTick, past, bounds
<1>5. CASE \E t \in Tasks : Turn(t)
  <2>1. PICK t \in Tasks : Turn(t)
    BY <1>5
  <2>2. tick.at # "idle"
    BY <2>1 DEF Turn, NotDue, FoundDue, PutOff, RunScan, ScanEnds, ScanBefore, ScannedBefore, Refuse, StartApply,
                Started, Working
  <2>3. up
    BY <2>2 DEF Clocks
  <2>4. CASE NotDue(t) \/ FoundDue(t) \/ PutOff(t) \/ ScanEnds(t) \/ ScanBefore(t) \/ StartApply(t)
    BY <2>4, KeptStays DEF NotDue, FoundDue, PutOff, ScanEnds, ScanBefore, StartApply, past, bounds
  <2>5. CASE RunScan(t) \/ Refuse(t) \/ Started(t)
    BY <2>3, <2>5, SaveKeeps DEF RunScan, Refuse, Started, RecordTaskRan
  <2>6. CASE ScannedBefore(t)
    BY <2>3, <2>6, SaveKeeps, KeptStays DEF ScannedBefore, RecordTaskRan, bounds
  <2> QED BY <2>1, <2>4, <2>5, <2>6 DEF Turn
<1>6. CASE \E t \in Tasks : ScanNow(t) \/ ScanNowEnds(t)
  <2>1. PICK t \in Tasks : ScanNow(t) \/ ScanNowEnds(t)
    BY <1>6
  <2>2. CASE ScanNow(t)
    BY <2>2 DEF ScanNow, Kept
  <2>3. CASE ScanNowEnds(t)
    <3>1. up /\ up' = up
      BY <2>3 DEF ScanNowEnds, Kept
    <3>2. CASE RecordTaskRan(t, clock)
      BY <3>1, <3>2, SaveKeeps DEF RecordTaskRan
    <3>3. CASE UNCHANGED <<state, file, bounds, ran>>
      BY <3>1, <3>3 DEF Kept, bounds
    <3> QED BY <2>3, <3>2, <3>3 DEF ScanNowEnds
  <2> QED BY <2>1, <2>2, <2>3
<1>7. CASE HandleSchedulerSave
  BY <1>7, KeptStays DEF HandleSchedulerSave, UpdateSchedule, UpdateWeeklyOmitDays, past
<1>8. CASE \E save \in saving : ArmTask(save)
  <2>1. PICK save \in saving : ArmTask(save)
    BY <1>8
  <2> DEFINE t == save.task
             new == Rearmed(state[t], save.sched, save.now)
             all == [state EXCEPT ![t] = new]
  <2>2. up /\ up' = up /\ byHand' = byHand
    BY <2>1 DEF ArmTask, Clocks
  <2>3. (new = state[t] => UNCHANGED <<state, file, bounds>>) /\ (new # state[t] => SaveState(all))
    BY <2>1 DEF ArmTask
  <2> HIDE DEF new, all
  <2> QED BY <2>2, <2>3, SaveKeeps DEF Kept, bounds
<1> QED BY <1>1, <1>2, <1>3, <1>4, <1>5, <1>6, <1>7, <1>8 DEF Next

LEMMA RestartKeeps ==
  ASSUME TypeOK, Valid, Kept, StartScheduler, ~faults, NEW t \in Tasks
  PROVE  /\ state'[t].lastRan = before[t].lastRan
         /\ ~Due(conf[t], before[t].anchor, clock)
              => NextDue(conf[t], state'[t].anchor, clock) = NextDue(conf[t], before[t].anchor, clock)
<1> DEFINE new == [u \in Tasks |-> Rearmed(file[u], conf[u], clock)]
<1>1. file = before /\ (new = file => state' = file) /\ (new # file => SaveState(new))
  BY DEF StartScheduler, Kept
<1>2. state' = new
  <2> HIDE DEF new
  <2> QED BY <1>1 DEF SaveState
<1>3. state'[t] = Rearmed(before[t], conf[t], clock)
  BY <1>1, <1>2
<1>4. before[t] \in Timing /\ conf[t] \in Schedule /\ Validate(conf[t]) /\ clock \in Times
  BY DEF TypeOK, Valid
<1>5. state'[t].lastRan = before[t].lastRan /\ state'[t].anchor = Arm(conf[t], before[t].anchor, clock)
  BY <1>3, <1>4, RearmedType
<1>6. ~Due(conf[t], before[t].anchor, clock) => state'[t].anchor = before[t].anchor
  BY <1>5 DEF Arm
<1> QED BY <1>5, <1>6

\* A restart never changes when a task next runs, unless that was while Coldarr was
\* down, and forgets no run: for any schedules and any course of runs, saves and deaths
\* before it.
THEOREM RestartKeepsNextRunHolds == Spec => RestartKeepsNextRun
<1> DEFINE IInv == TypeOK /\ Valid /\ Clocks /\ Kept
<1>1. Init => IInv
  BY InitType, InitValid, InitClocks DEF Init, Kept
<1>2. IInv /\ [Next]_vars => IInv'
  BY NextType, NextValid, NextClocks, NextKept
<1>3. IInv /\ [Next]_vars =>
        [StartScheduler /\ ~faults
           => \A t \in Tasks :
                /\ state'[t].lastRan = before[t].lastRan
                /\ ~Due(conf[t], before[t].anchor, clock)
                     => NextDue(conf[t], state'[t].anchor, clock) = NextDue(conf[t], before[t].anchor, clock)]_vars
  BY RestartKeeps
<1> QED BY <1>1, <1>2, <1>3, PTL DEF Spec, RestartKeepsNextRun

-----------------------------------------------------------------------------
(* A tick leaves nothing due *)

\* Only one task's turn it is.
LEMMA OneWorks ==
  ASSUME tick.left \subseteq Tasks, NEW t, NEW u, NEW a, NEW b, Working(t, a), Working(u, b)
  PROVE  t = u
<1>1. t \in Tasks /\ u \in Tasks /\ Place(t) <= Place(u) /\ Place(u) <= Place(t)
  BY DEF Working
<1>2. \A v \in Tasks : Place(v) \in DOMAIN TickOrder /\ TickOrder[Place(v)] = v
  BY TasksAssumption DEF Place, Range
<1>3. DOMAIN TickOrder = 1..8
  BY DEF TickOrder
<1>4. Place(t) = Place(u)
  BY <1>1, <1>2, <1>3
<1> QED BY <1>1, <1>2, <1>4

\* Moving an anchor on, or to the tick's time, never makes a task due.
LEMMA MovedIsNotDue ==
  ASSUME NEW s \in Schedule, Validate(s), NEW time \in Times, NEW a \in Moments, NEW b \in Moments,
         ~Due(s, a, time), a <= b \/ time <= b
  PROVE  ~Due(s, b, time)
<1>1. time <= b => b \in Times
  BY TimesAreNat
<1> QED BY <1>1, LaterIsNotDue, RecordedIsNotDue

\* What has had its turn in this tick, and was not put off, is not due any more.
Turned ==
  tick.at # "idle" =>
    /\ \A t \in Tasks : Validate(tick.conf[t])
    /\ \A t \in Tasks \ (skipped \cup tick.left) : ~Due(tick.conf[t], state[t].anchor, tick.now)
    /\ \A t \in Tasks : Working(t, "scanning") => ~Due(tick.conf[t], state[t].anchor, tick.now)

\* How a task's anchor may move while a tick is under way.
MovesOn(t) == state[t].anchor <= state'[t].anchor \/ tick.now <= state'[t].anchor

LEMMA TurnedStays ==
  ASSUME TypeOK, TypeOK', Clocks, Turned, tick' = tick, skipped' = skipped,
         tick.at # "idle" => \A t \in Tasks : MovesOn(t)
  PROVE  Turned'
<1> SUFFICES ASSUME tick.at # "idle" PROVE Turned'
  BY DEF Turned
<1>1. \A t \in Tasks : ~Due(tick.conf[t], state[t].anchor, tick.now) => ~Due(tick.conf[t], state'[t].anchor, tick.now)
  <2> TAKE t \in Tasks
  <2>1. /\ tick.conf[t] \in Schedule /\ Validate(tick.conf[t]) /\ tick.now \in Times
        /\ state[t].anchor \in Moments /\ state'[t].anchor \in Moments
    BY DEF TypeOK, Clocks, Turned, Timing
  <2> QED BY <2>1, MovedIsNotDue DEF MovesOn
<1> QED BY <1>1 DEF Turned, Working

LEMMA RecordedMoves ==
  ASSUME TypeOK, NEW t, NEW time \in Times, RecordTaskRan(t, time), NEW u \in Tasks
  PROVE  /\ u = t => state'[u].anchor = time
         /\ u # t => state'[u] = state[u]
<1>1. state' = [state EXCEPT ![t] = [anchor |-> time, lastRan |-> time]]
  BY DEF RecordTaskRan, SaveState
<1> QED BY <1>1 DEF TypeOK

\* Arming moves an anchor on.
LEMMA ArmedMoves ==
  ASSUME TypeOK, Valid, NEW save \in saving, ArmTask(save), NEW u \in Tasks
  PROVE  /\ state'[u].anchor \in Moments /\ state[u].anchor <= state'[u].anchor
         /\ u = save.task => ~Due(save.sched, state'[u].anchor, save.now)
<1> DEFINE t == save.task
           anchor == Arm(save.sched, state[t].anchor, save.now)
<1>1. /\ t \in Tasks /\ save.sched \in Schedule /\ save.now \in Times /\ Validate(save.sched) /\ state[t] \in Timing
      /\ state[t].anchor \in Moments /\ state[u].anchor \in Moments /\ state[u].anchor \in Int
  BY TimesAreNat DEF TypeOK, Valid, Timing
<1>2. anchor \in Moments /\ state[t].anchor <= anchor
  BY <1>1, ArmMovesOn
<1>3. ~Due(save.sched, anchor, save.now)
  BY <1>1, ArmedIsNotDue
<1>4. state'[t].anchor = anchor /\ \A v \in Tasks \ {t} : state'[v] = state[v]
  <2>1. Rearmed(state[t], save.sched, save.now).anchor = anchor
    BY <1>1, RearmedType
  <2>2. CASE Rearmed(state[t], save.sched, save.now) = state[t]
    BY <2>1, <2>2 DEF ArmTask
  <2>3. CASE Rearmed(state[t], save.sched, save.now) # state[t]
    BY <1>1, <2>1, <2>3 DEF ArmTask, SaveState, TypeOK
  <2> QED BY <2>2, <2>3
<1> HIDE DEF anchor
<1>5. CASE u = t
  BY <1>2, <1>3, <1>4, <1>5
<1>6. CASE u # t
  BY <1>1, <1>4, <1>6
<1> QED BY <1>5, <1>6

LEMMA TurnTurned ==
  ASSUME TypeOK, TypeOK', Clocks, Turned, NEW t \in Tasks, Turn(t)
  PROVE  Turned'
<1>1. tick.at # "idle"
  BY DEF Turn, NotDue, FoundDue, PutOff, RunScan, ScanEnds, ScanBefore, ScannedBefore, Refuse, StartApply,
         Started, Working
<1>2. tick.now \in Times /\ tick.left \subseteq Tasks
  BY <1>1 DEF Clocks, TypeOK
<1>3. \A u \in Tasks : /\ tick.conf[u] \in Schedule /\ Validate(tick.conf[u])
                       /\ state[u].anchor \in Moments /\ state[u].anchor <= state[u].anchor
  <2> TAKE u \in Tasks
  <2>1. state[u].anchor \in Moments /\ tick.conf[u] \in Schedule
    BY DEF TypeOK, Timing
  <2> QED BY <1>1, <2>1, Reflexive DEF Turned
<1>4. \A u \in Tasks : state'[u] = state[u] \/ state'[u].anchor = tick.now
  <2>1. ASSUME NEW v, RecordTaskRan(v, tick.now), NEW u \in Tasks
        PROVE  state'[u] = state[u] \/ state'[u].anchor = tick.now
    BY <1>2, <2>1, RecordedMoves
  <2> QED BY <2>1 DEF Turn, NotDue, FoundDue, PutOff, RunScan, ScanEnds, ScanBefore, ScannedBefore, Refuse,
                      StartApply, Started
<1>5. \A u \in Tasks : ~Due(tick.conf[u], state[u].anchor, tick.now) => ~Due(tick.conf[u], state'[u].anchor, tick.now)
  <2> TAKE u \in Tasks
  <2>1. tick.now \in Moments /\ tick.now <= tick.now
    BY <1>2, Reflexive
  <2>2. state'[u].anchor = tick.now => ~Due(tick.conf[u], state'[u].anchor, tick.now)
    BY <1>2, <1>3, <2>1, RecordedIsNotDue
  <2> QED BY <1>4, <2>2
<1>6. RecordTaskRan(t, tick.now) => ~Due(tick.conf[t], state'[t].anchor, tick.now)
  <2>1. tick.now <= tick.now
    BY <1>2, Reflexive
  <2> QED BY <1>2, <1>3, <2>1, RecordedMoves, RecordedIsNotDue
<1>7. ASSUME After(t), skipped \subseteq skipped', t \in skipped' \/ ~Due(tick.conf[t], state'[t].anchor, tick.now)
      PROVE  Turned'
  <2>1. tick'.at = "looking" /\ tick'.left = tick.left \ {t} /\ tick'.now = tick.now /\ tick'.conf = tick.conf
    BY <1>7 DEF After, TypeOK
  <2>2. \A u : ~Working(u, "scanning")'
    BY <2>1 DEF Working
  <2> QED BY <1>1, <1>5, <1>7, <2>1, <2>2 DEF Turned
<1>8. ASSUME NEW at, at # "scanning" \/ ~Due(tick.conf[t], state'[t].anchor, tick.now), Working(t, tick.at),
             tick'.at = at, tick'.left = tick.left, tick'.now = tick.now, tick'.conf = tick.conf, skipped' = skipped
      PROVE  Turned'
  <2>1. \A u \in Tasks : Working(u, "scanning")' => u = t /\ at = "scanning"
    <3> SUFFICES ASSUME NEW u \in Tasks, Working(u, "scanning")' PROVE u = t /\ at = "scanning"
      OBVIOUS
    <3>1. at = "scanning" /\ Working(u, tick.at)
      BY <1>8 DEF Working
    <3> QED BY <1>2, <1>8, <3>1, OneWorks
  <2> QED BY <1>1, <1>5, <1>8, <2>1 DEF Turned
<1>9. CASE NotDue(t)
  BY <1>7, <1>9 DEF NotDue, IsDue, past
<1>10. CASE FoundDue(t)
  BY <1>8, <1>10 DEF FoundDue, past, Working, TypeOK
<1>11. CASE PutOff(t)
  BY <1>7, <1>11 DEF PutOff
<1>12. CASE RunScan(t)
  <2>1. /\ tick'.at = "scanning" /\ tick'.left = tick.left /\ tick'.now = tick.now /\ tick'.conf = tick.conf
        /\ skipped' = skipped /\ Working(t, tick.at) /\ RecordTaskRan(t, tick.now)
    BY <1>12 DEF RunScan, Goto, Working, TypeOK
  <2> QED BY <1>6, <1>8, <2>1
<1>13. CASE ScanEnds(t)
  <2>1. Working(t, "scanning") /\ After(t) /\ skipped' = skipped /\ state' = state
    BY <1>13 DEF ScanEnds, past
  <2> QED BY <1>1, <1>7, <2>1 DEF Turned
<1>14. CASE ScanBefore(t) \/ ScannedBefore(t) \/ StartApply(t)
  <2>1. PICK at \in {"preparing", "planning", "started"} : Goto(at)
    BY <1>14 DEF ScanBefore, ScannedBefore, StartApply
  <2>2. /\ tick'.at = at /\ tick'.left = tick.left /\ tick'.now = tick.now /\ tick'.conf = tick.conf
    BY <2>1 DEF Goto, TypeOK
  <2>3. skipped' = skipped /\ Working(t, tick.at)
    BY <1>14 DEF ScanBefore, ScannedBefore, StartApply, past, Working
  <2> QED BY <1>8, <2>2, <2>3
<1>15. CASE Refuse(t) \/ Started(t)
  BY <1>6, <1>7, <1>15 DEF Refuse, Started
<1> QED BY <1>9, <1>10, <1>11, <1>12, <1>13, <1>14, <1>15 DEF Turn

LEMMA NextTurned ==
  ASSUME TypeOK, Valid, Clocks, Turned, [Next]_vars
  PROVE  Turned'
<1>0. TypeOK'
  BY NextType
<1>1. state' = state => \A t \in Tasks : MovesOn(t)
  <2>1. \A t \in Tasks : state[t].anchor \in Moments
    BY DEF TypeOK, Timing
  <2> QED BY <2>1, Reflexive DEF MovesOn
<1>2. CASE UNCHANGED vars
  BY <1>0, <1>1, <1>2, TurnedStays DEF vars, past
<1>3. CASE StartScheduler
  <2>1. tick.at = "idle" /\ tick' = tick
    BY <1>3 DEF StartScheduler, Clocks
  <2> QED BY <2>1 DEF Turned
<1>4. CASE Crash \/ EndTick
  BY <1>4 DEF Crash, EndTick, NoTick, Turned
<1>5. CASE Advance
  BY <1>0, <1>1, <1>5, TurnedStays DEF Advance, past
<1>6. CASE StartTick
  <2>1. CASE tick' = tick
    BY <1>6, <2>1 DEF StartTick, Turned
  <2>2. CASE tick' # tick
    <3>1. tick'.at = "looking" /\ tick'.left = Tasks /\ tick'.conf = conf
      BY <1>6, <2>2 DEF StartTick
    <3> QED BY <3>1 DEF Turned, Working, Valid, Validate
  <2> QED BY <2>1, <2>2
<1>7. CASE \E t \in Tasks : Turn(t)
  BY <1>0, <1>7, TurnTurned
<1>8. CASE \E t \in Tasks : ScanNow(t) \/ ScanNowEnds(t)
  <2>1. PICK t \in Tasks : ScanNow(t) \/ ScanNowEnds(t)
    BY <1>8
  <2>2. tick' = tick /\ skipped' = skipped /\ (state' = state \/ RecordTaskRan(t, clock))
    BY <2>1 DEF ScanNow, ScanNowEnds, past
  <2>3. tick.at # "idle" => tick.now <= clock
    BY DEF Clocks
  <2>4. RecordTaskRan(t, clock) /\ tick.at # "idle" => \A u \in Tasks : MovesOn(u)
    <3> SUFFICES ASSUME RecordTaskRan(t, clock), tick.at # "idle", NEW u \in Tasks PROVE MovesOn(u)
      OBVIOUS
    <3>1. clock \in Times /\ state[u].anchor \in Int
      BY TimesAreNat DEF TypeOK, Timing
    <3> QED BY <2>3, <3>1, RecordedMoves DEF MovesOn
  <2> QED BY <1>0, <1>1, <2>2, <2>4, TurnedStays
<1>9. CASE HandleSchedulerSave
  BY <1>0, <1>1, <1>9, TurnedStays DEF HandleSchedulerSave, UpdateSchedule, UpdateWeeklyOmitDays, past
<1>10. CASE \E save \in saving : ArmTask(save)
  <2>1. PICK save \in saving : ArmTask(save)
    BY <1>10
  <2>2. tick' = tick /\ skipped' = skipped
    BY <2>1 DEF ArmTask
  <2>3. \A u \in Tasks : MovesOn(u)
    BY <2>1, ArmedMoves DEF MovesOn
  <2> QED BY <1>0, <2>2, <2>3, TurnedStays
<1> QED BY <1>2, <1>3, <1>4, <1>5, <1>6, <1>7, <1>8, <1>9, <1>10 DEF Next

LEMMA NotDueIsDone ==
  ASSUME NEW s \in Schedule, s.enabled, NEW anchor \in Moments, NEW now \in Times, ~Due(s, anchor, now)
  PROVE  CASE s.unit = "daily"  -> SlotOn(Day(now), s) <= now => anchor # Never /\ Day(anchor) > Day(now) - s.every
           [] s.unit = "hourly" -> anchor # Never /\ anchor > now - s.every
<1>1. s.every \in Int /\ s.at \in Nat /\ s.unit \in {"daily", "hourly"} /\ now \in Nat /\ anchor \in Int
      /\ (anchor # Never => anchor \in Nat)
  BY TimesAreNat, DayAssumption DEF Schedule
<1>2. Day(now) \in Int /\ (anchor # Never => Day(anchor) \in Int) /\ SlotOn(Day(now), s) \in Int
  BY <1>1, DayBounds, DayOfSlot
<1>3. CASE s.unit = "daily"
  <2>1. SlotOn(Day(now), s) <= now => anchor # Never /\ ~(Day(now) >= Day(anchor) + s.every)
    BY <1>3, <1>1, <1>2 DEF Due, DueDaily
  <2>2. SlotOn(Day(now), s) <= now => anchor # Never /\ Day(anchor) > Day(now) - s.every
    BY <1>1, <1>2, <2>1
  <2> QED BY <1>3, <2>2
<1>4. CASE s.unit = "hourly"
  <2>1. anchor # Never /\ ~(now >= anchor + s.every)
    BY <1>4 DEF Due
  <2>2. anchor # Never /\ anchor > now - s.every
    BY <1>1, <2>1
  <2> QED BY <1>4, <2>2
<1> QED BY <1>1, <1>3, <1>4

LEMMA TurnedIsDone ==
  ASSUME TypeOK, Clocks, Turned
  PROVE  NothingLeftDue
<1> SUFFICES ASSUME tick.at = "looking", tick.left = {}, NEW t \in Tasks \ skipped, tick.conf[t].enabled
             PROVE  CASE tick.conf[t].unit = "daily"  ->
                           SlotOn(Day(tick.now), tick.conf[t]) <= tick.now
                             => state[t].anchor # Never /\ Day(state[t].anchor) > Day(tick.now) - tick.conf[t].every
                      [] tick.conf[t].unit = "hourly" ->
                           state[t].anchor # Never /\ state[t].anchor > tick.now - tick.conf[t].every
  BY DEF NothingLeftDue
<1>1. tick.conf[t] \in Schedule /\ state[t].anchor \in Moments /\ tick.now \in Times
  BY DEF TypeOK, Timing, Clocks
<1>2. ~Due(tick.conf[t], state[t].anchor, tick.now)
  BY DEF Turned
<1> QED BY <1>1, <1>2, NotDueIsDone

\* When a tick is over nothing it had a turn for is due: for any schedules, and whatever
\* is scanned by hand, saved or not written while it works.
THEOREM NothingLeftDueHolds == Spec => []NothingLeftDue
<1> DEFINE IInv == TypeOK /\ Valid /\ Clocks /\ Turned
<1>1. Init => IInv
  BY InitType, InitValid, InitClocks DEF Init, NoTick, Turned
<1>2. IInv /\ [Next]_vars => IInv'
  BY NextType, NextValid, NextClocks, NextTurned
<1>3. IInv => NothingLeftDue
  BY TurnedIsDone
<1> QED BY <1>1, <1>2, <1>3, PTL DEF Spec

-----------------------------------------------------------------------------
(* No slot twice *)

AllBy(X, time) == \A x \in X : x <= time

\* The slots there have been are behind the anchor, or behind a time when the task
\* was not due.
Settled(s, anchor, X, time) == AllBy(X, anchor) \/ (AllBy(X, time) /\ ~Due(s, anchor, time))

\* What begins is no earlier than any slot there has been.
Bounded ==
  /\ slots \in [Tasks -> SUBSET Times]
  /\ \A t \in Tasks : /\ AllBy(slots[t], clock)
                      /\ channel # Never => AllBy(slots[t], channel)
                      /\ tick.at # "idle" => AllBy(slots[t], tick.now)
  /\ tick.at \notin {"idle", "looking"} => tick.slot \in Times /\ tick.slot <= tick.now

Chosen ==
  \A t \in Tasks \ tick.early, at \in {"due", "preparing", "planning"} : Working(t, at) => tick.slot \notin slots[t]

\* Once armed, a task is settled by the schedule configured, ...
SettledNow ==
  \A t \in Tasks : up /\ ~Pending(t) /\ ~Working(t, "started")
                     => Settled(conf[t], state[t].anchor, slots[t], armed[t].time)

\* ... and by the one its tick has read.
SettledThen ==
  tick.at # "idle" =>
    \A t \in Tasks \ tick.early : ~Working(t, "started") =>
      \E time \in Times : time <= tick.now /\ Settled(tick.conf[t], state[t].anchor, slots[t], time)

SlotsInv == Bounded /\ Chosen /\ SettledNow /\ SettledThen /\ OncePerSlot

\* A settled task stays settled when its anchor moves on, or past every slot.
LEMMA SettledStays ==
  ASSUME NEW s \in Schedule, NEW a \in Moments, NEW b \in Moments, NEW X \in SUBSET Times, NEW time \in Times,
         Settled(s, a, X, time), a <= b \/ AllBy(X, b)
  PROVE  Settled(s, b, X, time)
<1>1. CASE AllBy(X, b)
  BY <1>1 DEF Settled
<1>2. CASE a <= b
  <2>1. CASE AllBy(X, a)
    <3>1. a \in Int /\ b \in Int /\ \A x \in X : x \in Int
      BY Reflexive
    <3> QED BY <1>2, <2>1, <3>1 DEF AllBy, Settled
  <2>2. CASE AllBy(X, time) /\ ~Due(s, a, time)
    BY <1>2, <2>2, LaterIsNotDue DEF Settled
  <2> QED BY <2>1, <2>2 DEF Settled
<1> QED BY <1>1, <1>2

\* What a task is due for has come.
LEMMA DueSlot ==
  ASSUME NEW s \in Schedule, Validate(s), NEW a \in Moments, NEW now \in Times, Due(s, a, now),
         NEW slot, slot = IF s.unit = "daily" THEN SlotOn(Day(now), s)
                          ELSE IF a = Never THEN now ELSE a + s.every
  PROVE  slot \in Times /\ slot <= now
<1>1. /\ s.every \in Nat /\ s.unit \in {"daily", "hourly"} /\ now \in Nat /\ (a # Never => a \in Nat)
  BY TimesAreNat DEF Schedule
<1>2. slot \in Nat /\ slot <= now
  <2>1. CASE s.unit = "daily"
    <3>1. Day(now) \in Nat /\ SlotOn(Day(now), s) \in Nat
      BY <1>1, DayBounds, DayOfSlot
    <3> QED BY <1>1, <2>1, <3>1 DEF Due, DueDaily
  <2>2. CASE s.unit = "hourly"
    <3>1. a # Never => now >= a + s.every
      BY <2>2 DEF Due
    <3> QED BY <1>1, <2>2, <3>1
  <2> QED BY <1>1, <2>1, <2>2
<1> QED BY <1>1, <1>2, TimesAreNat, BoundsAssumption

\* What a settled task is due for is a slot there has not been.
LEMMA NewSlot ==
  ASSUME NEW s \in Schedule, Validate(s), NEW a \in Moments, NEW X \in SUBSET Times,
         NEW time \in Times, NEW now \in Times, time <= now, Settled(s, a, X, time), Due(s, a, now),
         NEW slot, slot = IF s.unit = "daily" THEN SlotOn(Day(now), s)
                          ELSE IF a = Never THEN now ELSE a + s.every
  PROVE  slot \in Times /\ slot <= now /\ slot \notin X
<1>1. /\ s.enabled /\ s.every \in Nat /\ s.every >= 1 /\ s.at \in Nat /\ s.unit \in {"daily", "hourly"}
      /\ now \in Nat /\ time \in Nat /\ a \in Int /\ (a # Never => a \in Nat) /\ \A x \in X : x \in Nat /\ x # Never
  BY TimesAreNat, DayAssumption DEF Due, Validate, Schedule, Never
<1>2. AllBy(X, a) /\ X # {} => a # Never
  <2> SUFFICES ASSUME AllBy(X, a), X # {}, a = Never PROVE FALSE
    OBVIOUS
  <2>1. PICK x \in X : x <= Never
    BY DEF AllBy
  <2> QED BY <1>1, <2>1 DEF Never
<1>3. CASE s.unit = "daily"
  <2>1. slot = SlotOn(Day(now), s) /\ DueDaily(s, a, now)
    BY <1>3 DEF Due
  <2>2. /\ Day(now) \in Nat /\ Day(now) * DayLength \in Nat /\ SlotOn(Day(now), s) \in Nat
        /\ SlotOn(Day(now), s) >= Day(now) * DayLength /\ SlotOn(Day(now), s) <= now
    <3>1. Day(now) \in Nat /\ SlotOn(Day(now), s) \in Nat
      BY <1>1, DayBounds, DayOfSlot
    <3>2. Day(now) * DayLength \in Nat
      BY <3>1, DayAssumption
    <3> QED BY <1>1, <2>1, <3>1, <3>2 DEF SlotOn, DueDaily
  <2>3. slot \in Times /\ slot <= now
    BY <1>1, <2>1, <2>2, TimesAreNat, BoundsAssumption
  <2>4. \A y \in Nat : Day(y) < Day(now) => y < slot
    <3> TAKE y \in Nat
    <3>1. SUFFICES ASSUME Day(y) < Day(now), slot <= y PROVE FALSE
      BY <2>1, <2>2
    <3>2. Day(y) \in Nat /\ Day(slot) <= Day(y) /\ Day(slot) = Day(now)
      BY <1>1, <2>1, <2>2, <3>1, DayBounds, DayMonotone, DayOfSlot
    <3> QED BY <2>2, <3>1, <3>2
  <2>5. CASE AllBy(X, a) /\ X # {}
    <3>1. a \in Nat /\ Day(a) \in Nat /\ Day(now) >= Day(a) + s.every
      BY <1>1, <1>2, <2>1, <2>5, DayBounds DEF DueDaily
    <3>2. a < slot
      BY <1>1, <2>2, <2>4, <3>1
    <3>3. \A x \in X : x < slot
      BY <1>1, <2>1, <2>2, <2>5, <3>1, <3>2 DEF AllBy
    <3> QED BY <1>1, <2>1, <2>2, <2>3, <3>3
  <2>6. CASE AllBy(X, time) /\ ~Due(s, a, time)
    <3>1. ~DueDaily(s, a, time)
      BY <1>1, <1>3, <2>6 DEF Due
    <3>2. Day(time) \in Nat /\ Day(time) <= Day(now)
      BY <1>1, DayBounds, DayMonotone
    <3>3. time < slot
      <4>1. CASE Day(time) < Day(now)
        BY <1>1, <2>4, <4>1
      <4>2. CASE Day(time) = Day(now)
        <5>1. ~(time >= SlotOn(Day(now), s))
          BY <2>1, <3>1, <4>2 DEF DueDaily
        <5> QED BY <1>1, <2>1, <2>2, <5>1
      <4> QED BY <2>2, <3>2, <4>1, <4>2
    <3>4. \A x \in X : x < slot
      BY <1>1, <2>1, <2>2, <2>6, <3>3 DEF AllBy
    <3> QED BY <1>1, <2>1, <2>2, <2>3, <3>4
  <2> QED BY <2>3, <2>5, <2>6 DEF Settled
<1>4. CASE s.unit = "hourly"
  <2>1. a # Never => now >= a + s.every
    BY <1>4 DEF Due
  <2>2. slot = IF a = Never THEN now ELSE a + s.every
    BY <1>4
  <2>3. slot \in Nat /\ slot <= now /\ slot \in Times
    <3>1. slot \in Nat /\ slot <= now
      BY <1>1, <2>1, <2>2
    <3> QED BY <1>1, <3>1, TimesAreNat, BoundsAssumption
  <2>4. CASE AllBy(X, a) /\ X # {}
    <3>1. \A x \in X : x < slot
      BY <1>1, <1>2, <2>2, <2>4 DEF AllBy
    <3> QED BY <1>1, <2>3, <3>1
  <2>5. CASE AllBy(X, time) /\ ~Due(s, a, time)
    <3>1. a # Never /\ ~(time >= a + s.every)
      BY <1>1, <1>4, <2>5 DEF Due
    <3>2. \A x \in X : x < slot
      BY <1>1, <2>2, <2>5, <3>1 DEF AllBy
    <3> QED BY <1>1, <2>3, <3>2
  <2> QED BY <2>3, <2>4, <2>5 DEF Settled
<1> QED BY <1>1, <1>3, <1>4

\* Whatever leaves the tick and the slots alone, and moves anchors on.
LEMMA SlotsStay ==
  ASSUME TypeOK, TypeOK', Clocks, SlotsInv, UNCHANGED <<slots, repeats, tick>>,
         clock <= clock', channel' # Never => channel' = channel \/ channel' = clock',
         up => \A t \in Tasks : state[t].anchor <= state'[t].anchor \/ AllBy(slots[t], state'[t].anchor),
         \A t \in Tasks : up' /\ ~Pending(t)' =>
           \/ up /\ ~Pending(t) /\ conf'[t] = conf[t] /\ armed'[t] = armed[t]
           \/ Settled(conf'[t], state'[t].anchor, slots[t], armed'[t].time)
  PROVE  SlotsInv'
<1>1. \A t \in Tasks : /\ slots[t] \in SUBSET Times /\ conf[t] \in Schedule /\ tick.conf[t] \in Schedule
                       /\ state[t].anchor \in Moments /\ state'[t].anchor \in Moments
  BY DEF SlotsInv, Bounded, TypeOK, Timing
<1>2. Bounded'
  <2>1. clock \in Int /\ clock' \in Int
    BY Reflexive DEF TypeOK
  <2>2. \A t \in Tasks : AllBy(slots[t], clock')
    <3> TAKE t \in Tasks
    <3>1. AllBy(slots[t], clock) /\ \A x \in slots[t] : x \in Int
      BY <1>1, Reflexive DEF SlotsInv, Bounded
    <3> QED BY <2>1, <3>1 DEF AllBy
  <2> QED BY <2>2 DEF SlotsInv, Bounded
<1>3. Chosen'
  BY DEF SlotsInv, Chosen, Working
<1>4. \A t : Working(t, "started")' <=> Working(t, "started")
  BY DEF Working
<1>5. SettledNow'
  <2> SUFFICES ASSUME NEW t \in Tasks, up', ~Pending(t)', ~Working(t, "started")
               PROVE  Settled(conf'[t], state'[t].anchor, slots[t], armed'[t].time)
    BY <1>4 DEF SettledNow
  <2>1. CASE up /\ ~Pending(t) /\ conf'[t] = conf[t] /\ armed'[t] = armed[t]
    <3>1. Settled(conf[t], state[t].anchor, slots[t], armed[t].time) /\ armed[t].time \in Times
      BY <2>1 DEF SlotsInv, SettledNow, Clocks
    <3> QED BY <1>1, <2>1, <3>1, SettledStays
  <2> QED BY <2>1
<1>6. SettledThen'
  <2> SUFFICES ASSUME tick.at # "idle", NEW t \in Tasks \ tick.early, ~Working(t, "started")
               PROVE  \E time \in Times : time <= tick.now /\ Settled(tick.conf[t], state'[t].anchor, slots[t], time)
    BY <1>4 DEF SettledThen
  <2>1. PICK time \in Times : time <= tick.now /\ Settled(tick.conf[t], state[t].anchor, slots[t], time)
    BY DEF SlotsInv, SettledThen
  <2>2. up
    BY DEF Clocks
  <2> QED BY <1>1, <2>1, <2>2, SettledStays
<1> QED BY <1>2, <1>3, <1>5, <1>6 DEF SlotsInv, OncePerSlot

\* A task that begins, as its turn comes.
LEMMA BeginsAnew ==
  ASSUME SlotsInv, NEW t \in Tasks, Working(t, "due") \/ Working(t, "planning"), Begins(t)
  PROVE  /\ repeats' = repeats
         /\ slots' = [slots EXCEPT ![t] = @ \cup {tick.slot}]
         /\ tick.slot \in Times /\ tick.slot <= tick.now
<1>1. t \notin tick.early => tick.slot \notin slots[t]
  BY DEF SlotsInv, Chosen
<1>2. tick.slot \in Times /\ tick.slot <= tick.now
  BY DEF SlotsInv, Bounded, Working
<1> QED BY <1>1, <1>2 DEF Begins

\* A turn leaves a task as it was, or with every slot behind its anchor, but for the
\* one whose moves have begun.
TurnDoes ==
  \A u \in Tasks : ~Working(u, "started")' =>
    \/ state'[u] = state[u] /\ slots'[u] = slots[u] /\ ~Working(u, "started")
    \/ AllBy(slots'[u], state'[u].anchor)

LEMMA TurnSettled ==
  ASSUME TypeOK, Clocks, SlotsInv, TurnDoes, tick.at # "idle", slots' \in [Tasks -> SUBSET Times],
         UNCHANGED <<up, conf, saving, armed>>,
         tick'.now = tick.now, tick'.conf = tick.conf, tick'.early = tick.early
  PROVE  SettledNow' /\ SettledThen'
<1>1. SettledNow'
  <2> SUFFICES ASSUME NEW u \in Tasks, up, ~Pending(u), ~Working(u, "started")'
               PROVE  Settled(conf[u], state'[u].anchor, slots'[u], armed[u].time)
    BY DEF SettledNow, Pending
  <2> QED BY DEF SlotsInv, SettledNow, TurnDoes, Settled
<1>2. SettledThen'
  <2> SUFFICES ASSUME NEW u \in Tasks \ tick.early, ~Working(u, "started")'
               PROVE  \E time \in Times : time <= tick.now /\ Settled(tick.conf[u], state'[u].anchor, slots'[u], time)
    BY DEF SettledThen
  <2>1. CASE AllBy(slots'[u], state'[u].anchor)
    <3>1. tick.now \in Times /\ tick.now <= tick.now
      BY Reflexive DEF Clocks
    <3> QED BY <2>1, <3>1 DEF Settled
  <2>2. CASE state'[u] = state[u] /\ slots'[u] = slots[u] /\ ~Working(u, "started")
    BY <2>2 DEF SlotsInv, SettledThen
  <2> QED BY <2>1, <2>2 DEF TurnDoes
<1> QED BY <1>1, <1>2

\* A turn that begins nothing.
LEMMA TurnWithout ==
  ASSUME TypeOK, Clocks, SlotsInv, NEW t \in Tasks, tick.at # "idle", Working(t, tick.at),
         UNCHANGED <<slots, repeats, up, conf, saving, armed, clock, channel>>,
         \A u \in Tasks : \/ state'[u] = state[u] /\ (tick.at = "started" => u # t)
                          \/ state'[u].anchor = tick.now,
         tick'.now = tick.now, tick'.conf = tick.conf, tick'.early = tick.early,
         \/ tick'.at = "looking"
         \/ /\ tick'.at \in {"due", "preparing", "planning", "scanning", "started"} /\ tick'.left = tick.left
            /\ tick'.slot \in Times /\ tick'.slot <= tick.now
            /\ t \notin tick.early => tick'.slot \notin slots[t]
  PROVE  SlotsInv'
<1>1. tick.left \subseteq Tasks /\ slots \in [Tasks -> SUBSET Times]
  BY DEF TypeOK, SlotsInv, Bounded
<1>2. TurnDoes
  <2> SUFFICES ASSUME NEW u \in Tasks
               PROVE  \/ state'[u] = state[u] /\ slots'[u] = slots[u] /\ ~Working(u, "started")
                      \/ AllBy(slots'[u], state'[u].anchor)
    BY DEF TurnDoes
  <2>1. CASE state'[u].anchor = tick.now
    BY <2>1 DEF SlotsInv, Bounded
  <2>2. CASE state'[u] = state[u] /\ (tick.at = "started" => u # t)
    <3>1. Working(u, "started") => u = t /\ tick.at = "started"
      <4>1. Working(u, "started") => u = t
        BY <1>1, OneWorks
      <4> QED BY <4>1 DEF Working
    <3> QED BY <2>2, <3>1
  <2> QED BY <2>1, <2>2
<1>3. SettledNow' /\ SettledThen'
  BY <1>1, <1>2, TurnSettled
<1>4. Bounded'
  BY DEF SlotsInv, Bounded
<1>5. Chosen'
  <2> SUFFICES ASSUME NEW u \in Tasks \ tick.early, NEW at \in {"due", "preparing", "planning"}, Working(u, at)'
               PROVE  tick'.slot \notin slots[u]
    BY DEF Chosen
  <2>1. tick'.at # "looking" /\ Working(u, tick.at)
    BY DEF Working
  <2>2. u = t
    BY <1>1, <2>1, OneWorks
  <2> QED BY <2>1, <2>2
<1> QED BY <1>3, <1>4, <1>5 DEF SlotsInv, OncePerSlot

\* A turn that begins a run, and records it or has it started.
LEMMA TurnBegins ==
  ASSUME TypeOK, Clocks, SlotsInv, NEW t \in Tasks, Working(t, "due") \/ Working(t, "planning"), Begins(t),
         UNCHANGED <<up, conf, saving, armed, clock, channel>>,
         \A u \in Tasks \ {t} : state'[u] = state[u],
         NEW at \in {"scanning", "started"}, Goto(at), at = "scanning" => state'[t].anchor = tick.now
  PROVE  SlotsInv'
<1>1. tick.left \subseteq Tasks /\ slots \in [Tasks -> SUBSET Times] /\ tick.at # "idle" /\ tick.at # "started"
  BY DEF TypeOK, SlotsInv, Bounded, Working
<1>2. /\ repeats' = repeats /\ slots' = [slots EXCEPT ![t] = @ \cup {tick.slot}]
      /\ tick.slot \in Times /\ tick.slot <= tick.now
  BY BeginsAnew
<1>3. /\ tick'.at = at /\ tick'.left = tick.left /\ tick'.slot = tick.slot
      /\ tick'.now = tick.now /\ tick'.conf = tick.conf /\ tick'.early = tick.early
  BY DEF Goto, TypeOK
<1>4. slots' \in [Tasks -> SUBSET Times] /\ slots'[t] = slots[t] \cup {tick.slot}
      /\ \A u \in Tasks \ {t} : slots'[u] = slots[u]
  BY <1>1, <1>2
<1>5. \A u \in Tasks : AllBy(slots'[u], tick.now)
  BY <1>1, <1>2, <1>4 DEF SlotsInv, Bounded, AllBy
<1>6. TurnDoes
  <2> SUFFICES ASSUME NEW u \in Tasks, ~Working(u, "started")'
               PROVE  \/ state'[u] = state[u] /\ slots'[u] = slots[u] /\ ~Working(u, "started")
                      \/ AllBy(slots'[u], state'[u].anchor)
    BY DEF TurnDoes
  <2>1. CASE u = t
    <3>1. Working(t, "started")' <=> at = "started"
      BY <1>3 DEF Working
    <3> QED BY <1>5, <2>1, <3>1
  <2>2. CASE u # t
    BY <1>1, <1>4, <2>2 DEF Working
  <2> QED BY <2>1, <2>2
<1>7. SettledNow' /\ SettledThen'
  BY <1>1, <1>3, <1>4, <1>6, TurnSettled
<1>8. Bounded'
  <2>1. tick.now \in Int /\ clock \in Int /\ channel \in Int /\ tick.now <= clock
        /\ (channel # Never => tick.now <= channel)
    BY <1>1, Reflexive DEF Clocks, TypeOK
  <2>2. \A u \in Tasks : \A x \in slots'[u] : x \in Int
    BY <1>4, Reflexive
  <2>3. \A u \in Tasks : AllBy(slots'[u], clock) /\ (channel # Never => AllBy(slots'[u], channel))
    BY <1>5, <2>1, <2>2 DEF AllBy
  <2> QED BY <1>2, <1>3, <1>4, <1>5, <2>3 DEF Bounded
<1>9. Chosen'
  BY <1>3 DEF Chosen, Working
<1> QED BY <1>2, <1>7, <1>8, <1>9 DEF SlotsInv, OncePerSlot

LEMMA TurnSlots ==
  ASSUME TypeOK, Valid, Clocks, Turned, SlotsInv, NEW t \in Tasks, Turn(t)
  PROVE  SlotsInv'
<1>1. tick.at # "idle" /\ Working(t, tick.at)
  BY DEF Turn, NotDue, FoundDue, PutOff, RunScan, ScanEnds, ScanBefore, ScannedBefore, Refuse, StartApply,
         Started, Working
<1>2. tick.now \in Times
  BY <1>1 DEF Clocks
<1>3. UNCHANGED <<up, conf, saving, armed, clock, channel>>
  BY DEF Turn, NotDue, FoundDue, PutOff, RunScan, ScanEnds, ScanBefore, ScannedBefore, Refuse, StartApply,
         Started, past
<1>4. After(t) => tick'.at = "looking" /\ tick'.now = tick.now /\ tick'.conf = tick.conf /\ tick'.early = tick.early
  BY DEF After, TypeOK
<1>5. ASSUME NEW at, Goto(at)
      PROVE  /\ tick'.at = at /\ tick'.left = tick.left /\ tick'.slot = tick.slot
             /\ tick'.now = tick.now /\ tick'.conf = tick.conf /\ tick'.early = tick.early
  BY <1>5 DEF Goto, TypeOK
<1>6. CASE NotDue(t) \/ PutOff(t) \/ ScanEnds(t)
  <2>1. After(t) /\ tick.at # "started" /\ UNCHANGED <<slots, repeats, state>>
    BY <1>6 DEF NotDue, PutOff, ScanEnds, past, Working
  <2> QED BY <1>1, <1>3, <1>4, <2>1, TurnWithout
<1>7. CASE FoundDue(t)
  <2>1. /\ tick'.at = "due" /\ tick'.left = tick.left /\ tick'.slot = SlotFor(t) /\ tick'.now = tick.now
        /\ tick'.conf = tick.conf /\ tick'.early = tick.early /\ tick.at = "looking"
        /\ UNCHANGED <<slots, repeats, state>>
    BY <1>7 DEF FoundDue, TypeOK, past, Working
  <2>2. SlotFor(t) \in Times /\ SlotFor(t) <= tick.now /\ (t \notin tick.early => SlotFor(t) \notin slots[t])
    <3> DEFINE s == tick.conf[t]
               a == state[t].anchor
    <3>1. s \in Schedule /\ Validate(s) /\ a \in Moments /\ slots[t] \in SUBSET Times /\ Due(s, a, tick.now)
      BY <1>1, <1>7 DEF TypeOK, Timing, Turned, SlotsInv, Bounded, FoundDue, IsDue
    <3>2. SlotFor(t) = IF s.unit = "daily" THEN SlotOn(Day(tick.now), s)
                       ELSE IF a = Never THEN tick.now ELSE a + s.every
      BY DEF SlotFor
    <3> HIDE DEF s, a
    <3>3. SlotFor(t) \in Times /\ SlotFor(t) <= tick.now
      BY <1>2, <3>1, <3>2, DueSlot
    <3>4. ASSUME t \notin tick.early PROVE SlotFor(t) \notin slots[t]
      <4>1. ~Working(t, "started")
        BY <2>1 DEF Working
      <4>2. PICK time \in Times : time <= tick.now /\ Settled(s, a, slots[t], time)
        BY <1>1, <3>4, <4>1 DEF SlotsInv, SettledThen, s, a
      <4> QED BY <1>2, <3>1, <3>2, <4>2, NewSlot
    <3> QED BY <3>3, <3>4
  <2> QED BY <1>1, <1>3, <2>1, <2>2, TurnWithout
<1>8. CASE ScanBefore(t)
  <2>1. PICK at \in {"preparing", "planning"} : Goto(at)
    BY <1>8 DEF ScanBefore
  <2>2. tick.at = "due" /\ UNCHANGED <<slots, repeats, state>> /\ Working(t, "due")
    BY <1>8 DEF ScanBefore, Working, past
  <2>3. tick.slot \in Times /\ tick.slot <= tick.now /\ (t \notin tick.early => tick.slot \notin slots[t])
    BY <2>2 DEF SlotsInv, Bounded, Chosen
  <2>4. /\ tick'.at = at /\ tick'.left = tick.left /\ tick'.slot = tick.slot
        /\ tick'.now = tick.now /\ tick'.conf = tick.conf /\ tick'.early = tick.early
    BY <1>5, <2>1
  <2> QED BY <1>1, <1>3, <2>2, <2>3, <2>4, TurnWithout
<1>9. CASE ScannedBefore(t)
  <2>1. tick.at = "preparing" /\ UNCHANGED <<slots, repeats>> /\ Working(t, "preparing") /\ Goto("planning")
    BY <1>9 DEF ScannedBefore, Working
  <2>2. tick.slot \in Times /\ tick.slot <= tick.now /\ (t \notin tick.early => tick.slot \notin slots[t])
    BY <2>1 DEF SlotsInv, Bounded, Chosen
  <2>3. /\ tick'.at = "planning" /\ tick'.left = tick.left /\ tick'.slot = tick.slot
        /\ tick'.now = tick.now /\ tick'.conf = tick.conf /\ tick'.early = tick.early
    BY <1>5, <2>1
  <2>4. \A u \in Tasks : state'[u] = state[u] \/ state'[u].anchor = tick.now
    <3>1. state' = state \/ RecordTaskRan(ScanFirst[t], tick.now)
      BY <1>9 DEF ScannedBefore
    <3> QED BY <1>2, <3>1, RecordedMoves
  <2> QED BY <1>1, <1>3, <2>1, <2>2, <2>3, <2>4, TurnWithout
<1>10. CASE Refuse(t) \/ Started(t)
  <2>1. RecordTaskRan(t, tick.now) /\ After(t) /\ UNCHANGED <<slots, repeats>>
    BY <1>10 DEF Refuse, Started
  <2>2. \A u \in Tasks : \/ state'[u] = state[u] /\ (tick.at = "started" => u # t)
                         \/ state'[u].anchor = tick.now
    BY <1>2, <2>1, RecordedMoves
  <2> QED BY <1>1, <1>3, <1>4, <2>1, <2>2, TurnWithout
<1>11. CASE RunScan(t)
  <2>1. RecordTaskRan(t, tick.now) /\ Begins(t) /\ Goto("scanning") /\ Working(t, "due")
    BY <1>11 DEF RunScan
  <2>2. state'[t].anchor = tick.now /\ \A u \in Tasks \ {t} : state'[u] = state[u]
    BY <1>2, <2>1, RecordedMoves
  <2> QED BY <1>3, <2>1, <2>2, TurnBegins
<1>12. CASE StartApply(t)
  <2>1. Begins(t) /\ Goto("started") /\ (Working(t, "due") \/ Working(t, "planning")) /\ state' = state
    BY <1>12 DEF StartApply
  <2> QED BY <1>3, <2>1, TurnBegins
<1> QED BY <1>6, <1>7, <1>8, <1>9, <1>10, <1>11, <1>12 DEF Turn

LEMMA NextSlots ==
  ASSUME TypeOK, Valid, Clocks, Turned, SlotsInv, [Next]_vars
  PROVE  SlotsInv'
<1>0. TypeOK'
  BY NextType
<1>1. /\ clock \in Times /\ clock <= clock
      /\ \A t \in Tasks : /\ state[t].anchor \in Moments /\ state[t].anchor <= state[t].anchor
                          /\ conf[t] \in Schedule /\ Validate(conf[t]) /\ AllBy(slots[t], clock)
  <2>1. \A t \in Tasks : state[t].anchor \in Moments /\ conf[t] \in Schedule /\ Validate(conf[t]) /\ AllBy(slots[t], clock)
    BY DEF TypeOK, Timing, Valid, SlotsInv, Bounded
  <2> QED BY <2>1, Reflexive DEF TypeOK
<1>2. \A t \in Tasks : conf' = conf /\ saving' = saving => (Pending(t)' <=> Pending(t))
  BY DEF Pending
<1>3. CASE UNCHANGED vars
  BY <1>0, <1>1, <1>2, <1>3, SlotsStay DEF vars, past
<1>4. CASE StartScheduler
  <2> DEFINE new == [t \in Tasks |-> Rearmed(file[t], conf[t], clock)]
  <2>1. /\ ~up /\ UNCHANGED <<clock, conf, channel, tick, slots, repeats>>
        /\ armed' = [t \in Tasks |-> [time |-> clock, quiet |-> TRUE]]
        /\ (new = file => state' = file) /\ (new # file => SaveState(new))
    BY <1>4 DEF StartScheduler
  <2>2. state' = new
    <3> HIDE DEF new
    <3> QED BY <2>1 DEF SaveState
  <2>3. \A t \in Tasks : Settled(conf'[t], state'[t].anchor, slots[t], armed'[t].time)
    <3> TAKE t \in Tasks
    <3>1. file[t] \in Timing /\ file[t].anchor \in Moments
      BY DEF TypeOK, Timing
    <3>2. state'[t].anchor = Arm(conf[t], file[t].anchor, clock)
      BY <1>1, <2>2, <3>1, RearmedType
    <3>3. ~Due(conf[t], state'[t].anchor, clock)
      BY <1>1, <3>1, <3>2, ArmedIsNotDue
    <3>4. conf'[t] = conf[t] /\ armed'[t].time = clock
      BY <2>1
    <3> QED BY <1>1, <3>3, <3>4 DEF Settled
  <2> HIDE DEF new
  <2> QED BY <1>0, <1>1, <2>1, <2>3, SlotsStay
<1>5. CASE Crash \/ EndTick
  <2>1. /\ tick'.at = "idle" /\ UNCHANGED <<clock, slots, repeats>> /\ (channel' = Never \/ channel' = channel)
    BY <1>5 DEF Crash, EndTick, NoTick, past
  <2>2. SettledNow'
    <3>1. CASE Crash
      BY <3>1 DEF Crash, SettledNow
    <3>2. CASE EndTick
      <4>1. \A t \in Tasks : ~Working(t, "started")
        BY <3>2 DEF EndTick, Working
      <4>2. UNCHANGED <<up, conf, saving, state, armed>>
        BY <3>2 DEF EndTick, past
      <4> QED BY <2>1, <4>1, <4>2 DEF SettledNow, SlotsInv, Pending
    <3> QED BY <1>5, <3>1, <3>2
  <2>3. Bounded' /\ Chosen' /\ SettledThen'
    BY <2>1 DEF SlotsInv, Bounded, Chosen, SettledThen, Working
  <2> QED BY <2>1, <2>2, <2>3 DEF SlotsInv, OncePerSlot
<1>6. CASE Advance
  <2>1. clock <= clock'
    BY <1>1, <1>6, TimesAreNat DEF Advance
  <2> QED BY <1>0, <1>1, <1>2, <1>6, <2>1, SlotsStay DEF Advance, past
<1>7. CASE StartTick
  <2>1. CASE tick' = tick
    BY <1>0, <1>1, <1>2, <1>7, <2>1, SlotsStay DEF StartTick
  <2>2. CASE tick' # tick
    <3>1. /\ tick' = [now |-> channel, conf |-> conf, left |-> Tasks, at |-> "looking", slot |-> Never,
                      early |-> {t \in Tasks : Unarmed(t, channel)}]
          /\ up /\ tick.at = "idle" /\ channel # Never /\ channel' = Never
          /\ UNCHANGED <<clock, conf, up, state, saving, slots, repeats, armed>>
      BY <1>7, <2>2 DEF StartTick
    <3>2. \A t \in Tasks : ~Working(t, "started") /\ ~Working(t, "started")'
      BY <3>1 DEF Working
    <3>3. Bounded'
      BY <3>1 DEF SlotsInv, Bounded
    <3>4. Chosen'
      BY <3>1 DEF Chosen, Working
    <3>5. SettledNow'
      BY <3>1, <3>2 DEF SlotsInv, SettledNow, Pending
    <3>6. SettledThen'
      <4> SUFFICES ASSUME NEW t \in Tasks, ~Unarmed(t, channel)
                   PROVE  \E time \in Times : time <= channel /\ Settled(conf[t], state[t].anchor, slots[t], time)
        BY <3>1 DEF SettledThen
      <4>1. ~(armed[t].time > channel) /\ ~Pending(t)
        BY DEF Unarmed, Pending
      <4>2. armed[t].time \in Times /\ channel \in Int
        BY <3>1, Reflexive DEF Clocks, TypeOK
      <4>3. armed[t].time <= channel
        BY <4>1, <4>2, Reflexive
      <4>4. Settled(conf[t], state[t].anchor, slots[t], armed[t].time)
        BY <3>1, <3>2, <4>1 DEF SlotsInv, SettledNow
      <4> QED BY <4>2, <4>3, <4>4
    <3> QED BY <3>1, <3>3, <3>4, <3>5, <3>6 DEF SlotsInv, OncePerSlot
  <2> QED BY <2>1, <2>2
<1>8. CASE \E t \in Tasks : Turn(t)
  BY <1>8, TurnSlots
<1>9. CASE \E t \in Tasks : ScanNow(t) \/ ScanNowEnds(t)
  <2>1. PICK t \in Tasks : ScanNow(t) \/ ScanNowEnds(t)
    BY <1>9
  <2>2. UNCHANGED <<clock, conf, up, channel, tick, saving, armed, slots, repeats>>
        /\ (state' = state \/ RecordTaskRan(t, clock))
    BY <2>1 DEF ScanNow, ScanNowEnds, past
  <2>3. \A u \in Tasks : state[u].anchor <= state'[u].anchor \/ AllBy(slots[u], state'[u].anchor)
    <3> TAKE u \in Tasks
    <3>1. RecordTaskRan(t, clock) => state'[u] = state[u] \/ state'[u].anchor = clock
      BY <1>1, RecordedMoves
    <3> QED BY <1>1, <2>2, <3>1
  <2> QED BY <1>0, <1>1, <1>2, <2>2, <2>3, SlotsStay
<1>10. CASE \E t \in Tasks, s \in Schedules : UpdateSchedule(t, s)
  <2>1. PICK t \in Tasks, s \in Schedules : UpdateSchedule(t, s)
    BY <1>10
  <2>2. /\ conf' = [conf EXCEPT ![t] = s] /\ saving' = saving \cup {[task |-> t, sched |-> s, now |-> clock]}
        /\ UNCHANGED <<clock, up, state, channel, tick, armed, slots, repeats>>
    BY <2>1 DEF UpdateSchedule, SaveConfig, past
  <2>3. Pending(t)'
    <3>1. conf'[t] = s
      BY <2>2 DEF TypeOK
    <3> DEFINE save == [task |-> t, sched |-> s, now |-> clock]
    <3>2. save \in saving' /\ save.task = t /\ save.sched = conf'[t]
      BY <2>2, <3>1
    <3> QED BY <3>2 DEF Pending
  <2>4. \A u \in Tasks \ {t} : conf'[u] = conf[u] /\ (~Pending(u)' => ~Pending(u))
    <3>1. \A u \in Tasks \ {t} : conf'[u] = conf[u]
      BY <2>2 DEF TypeOK
    <3> QED BY <2>2, <3>1 DEF Pending
  <2> QED BY <1>0, <1>1, <2>2, <2>3, <2>4, SlotsStay
<1>11. CASE \E days \in OmitChoices : UpdateWeeklyOmitDays(days)
  BY <1>0, <1>1, <1>2, <1>11, SlotsStay DEF UpdateWeeklyOmitDays, SaveConfig, past
<1>12. CASE \E save \in saving : ArmTask(save)
  <2>1. PICK save \in saving : ArmTask(save)
    BY <1>12
  <2> DEFINE t == save.task
  <2>2. /\ saving' = saving \ {save} /\ UNCHANGED <<clock, conf, up, channel, tick, slots, repeats>>
        /\ armed' = IF save.sched # conf[t] THEN armed
                    ELSE [armed EXCEPT ![t] = [time |-> save.now, quiet |-> tick.at = "idle" /\ channel = Never]]
        /\ t \in Tasks /\ save.now = clock
    BY <2>1 DEF ArmTask, TypeOK, Clocks
  <2>3. \A u \in Tasks : state[u].anchor <= state'[u].anchor
    BY <2>1, ArmedMoves
  <2>4. ASSUME NEW u \in Tasks, ~Pending(u)'
        PROVE  \/ ~Pending(u) /\ armed'[u] = armed[u]
               \/ Settled(conf'[u], state'[u].anchor, slots[u], armed'[u].time)
    <3>1. CASE u = t /\ save.sched = conf[t]
      <4>1. armed'[u].time = clock
        BY <2>2, <3>1 DEF TypeOK
      <4>2. ~Due(conf'[u], state'[u].anchor, clock)
        BY <2>1, <2>2, <3>1, ArmedMoves
      <4> QED BY <1>1, <4>1, <4>2 DEF Settled
    <3>2. CASE ~(u = t /\ save.sched = conf[t])
      BY <2>2, <2>4, <3>2 DEF Pending, TypeOK
    <3> QED BY <3>1, <3>2
  <2>5. up
    BY <2>1 DEF Clocks
  <2> HIDE DEF t
  <2> QED BY <1>0, <1>1, <2>2, <2>3, <2>4, <2>5, SlotsStay
<1> QED BY <1>3, <1>4, <1>5, <1>6, <1>7, <1>8, <1>9, <1>10, <1>11, <1>12 DEF Next, HandleSchedulerSave

\* No slot is run twice by ticks the task is armed for: for any schedules, length of day
\* and set of tasks, however often Coldarr dies between beginning a run and recording it,
\* fails to write its anchors, has a schedule saved or a scan started by hand.
THEOREM OncePerSlotHolds == Spec => []OncePerSlot
<1> DEFINE IInv == TypeOK /\ Valid /\ Clocks /\ Turned /\ SlotsInv
<1>1. Init => IInv
  <2> SUFFICES ASSUME Init PROVE IInv
    OBVIOUS
  <2>1. tick.at = "idle" /\ channel = Never /\ ~up /\ slots = [t \in Tasks |-> {}] /\ repeats = {}
    BY DEF Init, NoTick
  <2>2. Turned /\ Chosen /\ SettledNow /\ SettledThen /\ OncePerSlot
    BY <2>1 DEF Turned, Chosen, SettledNow, SettledThen, Working, OncePerSlot
  <2>3. Bounded
    BY <2>1 DEF Bounded, AllBy
  <2> QED BY <2>2, <2>3, InitType, InitValid, InitClocks DEF SlotsInv
<1>2. IInv /\ [Next]_vars => IInv'
  BY NextType, NextValid, NextClocks, NextTurned, NextSlots
<1>3. IInv => OncePerSlot
  BY DEF SlotsInv
<1> QED BY <1>1, <1>2, <1>3, PTL DEF Spec
=============================================================================
