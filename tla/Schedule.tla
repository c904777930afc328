------------------------------ MODULE Schedule ------------------------------
(***************************************************************************)
(* The scheduler: one goroutine that a ticker wakes, eight tasks it runs    *)
(* one after the other when Due says so, the anchor each is due by, and the *)
(* file the anchors are kept in.  Meanwhile people save schedules and omit  *)
(* days and start scans by hand, a task can take longer than a tick, saving *)
(* the anchors can fail, and Coldarr can die and be started again at any    *)
(* point.                                                                   *)
(*                                                                          *)
(* Time is counted in hours; a tick comes every hour.                       *)
(***************************************************************************)
EXTENDS Integers, SequencesExt

CONSTANTS
  Tasks,      \* scheduledTasks, or some of them
  DayLength,  \* hours in a day
  Schedules,  \* what the form may send
  OmitChoices, \* omit days that may be saved
  Starts,     \* configurations and times kept to begin with
  Horizon,    \* bound on the clock
  EventMax    \* bound on what people do, crashes, and anchors that cannot be written

\* tick's order.
TickOrder == <<"scan_cutoffs", "run_plan", "rescan_cold", "refresh_links", "scan_orphans",
               "scan_trackers", "expire_seeds", "run_torrent_plan">>
Place(t) == CHOOSE i \in DOMAIN TickOrder : TickOrder[i] = t

\* Tasks that take a mutex of their own, are recorded and then do their work; the
\* others go through the gates of ApplyGate first, and some scan before they plan.
Scans     == {"scan_cutoffs", "rescan_cold", "refresh_links", "scan_orphans", "scan_trackers"}
ByButton  == Scans \ {"rescan_cold"}
Unlocked  == {"refresh_links"}  \* handleRefreshLinksNow takes no mutex
ScanFirst == [t \in {"run_plan", "expire_seeds"} |->
                IF t = "run_plan" THEN "scan_cutoffs" ELSE "scan_trackers"]

Never == -1
Times == 0..Horizon
Moments == Times \cup {Never}
Days  == 0..6

Schedule == [enabled : BOOLEAN, unit : {"daily", "hourly"}, every : Nat, at : 0..DayLength - 1]
SchedulerConfig == [Tasks -> Schedule]
Timing   == [anchor : Moments, lastRan : Moments]

ASSUME TasksAssumption == Tasks \subseteq Range(TickOrder)
ASSUME DayAssumption == DayLength \in Nat \ {0}
ASSUME SchedulesAssumption == Schedules \subseteq Schedule /\ OmitChoices \subseteq SUBSET Days
ASSUME BoundsAssumption == Horizon \in Nat /\ EventMax \in Nat

VARIABLES
  clock,
  conf,     \* conf[t]: the schedule configured; what memory and file both have
  omit,     \* WeeklyOmitDays
  up,       \* Coldarr is running
  state,    \* schedState
  file,     \* coldarr-scheduler.json
  channel,  \* the tick in the ticker's channel, or Never
  tick,     \* the tick being worked on, how far it has got, and the tasks it is too early for
  saving,   \* schedules saved whose tasks are yet to be re-armed
  mutex,    \* mutex[t]: who holds it
  byHand,   \* scans started by hand that are running
  armed,    \* armed[t]: when the schedule it has was armed, and whether no tick was under way or waiting
  slots,    \* slots[t]: the times its runs were scheduled for
  repeats,  \* tasks run twice for one of these
  skipped,  \* tasks the tick had to put off
  ran,      \* ran[t]: when it ran
  before,   \* schedState when Coldarr died
  events,
  faults    \* an anchor could not be written

past   == <<armed, slots, repeats, skipped, ran, before>>
bounds == <<events, faults>>
vars   == <<clock, conf, omit, up, state, file, channel, tick, saving, mutex, byHand, past, bounds>>

-----------------------------------------------------------------------------
(* scheduler.go *)

Day(time) == time \div DayLength
SlotOn(day, s) == day * DayLength + s.at

Validate(s) == s.enabled => s.every >= 1

ValidateScheduler(c, days) == days \subseteq Days /\ \A t \in Tasks : Validate(c[t])

ASSUME StartsAssumption ==
  \A s \in Starts : /\ s.conf \in SchedulerConfig
                    /\ ValidateScheduler(s.conf, s.omit)
                    /\ s.kept \in [Tasks -> Timing]
                    /\ s.clock \in Times
                    /\ \A t \in Tasks : s.kept[t].lastRan <= s.kept[t].anchor /\ s.kept[t].anchor <= s.clock

OmittedOn(days, now) == Day(now) % 7 \in days

\* Mutant of DueDaily: it takes every * 24 hours, not days of the calendar.
DueByHours(s, last, now) ==
  /\ now >= SlotOn(Day(now), s)
  /\ last # Never => now >= last + s.every * DayLength

DueDaily(s, last, now) ==
  /\ now >= SlotOn(Day(now), s)
  /\ last # Never => Day(now) >= Day(last) + s.every

Due(s, last, now) ==
  /\ s.enabled
  /\ IF s.unit = "hourly" THEN last # Never => now >= last + s.every ELSE DueDaily(s, last, now)

\* Mutant of Arm: it anchors whatever it arms.
ArmAlways(s, anchor, now) == IF s.unit = "daily" THEN SlotOn(Day(now), s) ELSE now

Arm(s, anchor, now) ==
  IF ~Due(s, anchor, now) THEN anchor
  ELSE IF s.unit = "daily" THEN SlotOn(Day(now), s) ELSE now

\* When a task is next due after a time, if nothing else happens; Horizon + 1 if
\* not within the horizon.
NextDue(s, anchor, now) ==
  LET times == {time \in now + 1..Horizon : Due(s, anchor, time)}
  IN IF times = {} THEN Horizon + 1 ELSE CHOOSE time \in times : \A other \in times : time <= other

-----------------------------------------------------------------------------
(* schedstate.go *)

NoTick == [now |-> Never, conf |-> conf, left |-> {}, at |-> "idle", slot |-> Never, early |-> {}]
Unrun  == [t \in Tasks |-> [anchor |-> Never, lastRan |-> Never]]

Init ==
  /\ \E s \in Starts : /\ clock = s.clock
                       /\ conf = s.conf
                       /\ omit = s.omit
                       /\ file = s.kept
                       /\ before = s.kept
                       /\ ran = [t \in Tasks |-> {s.kept[t].lastRan} \ {Never}]
  /\ up = FALSE
  /\ state = Unrun
  /\ channel = Never
  /\ tick = NoTick
  /\ saving = {}
  /\ mutex = [t \in Tasks |-> "nobody"]
  /\ byHand = {}
  /\ armed = [t \in Tasks |-> [time |-> Never, quiet |-> TRUE]]
  /\ slots = [t \in Tasks |-> {}]
  /\ repeats = {}
  /\ skipped = {}
  /\ events = 0
  /\ faults = FALSE

Event == events < EventMax /\ events' = events + 1

\* saveSchedulerStateLocked: the whole map, in one rename; a failure is logged.
SaveState(new) ==
  /\ state' = new
  /\ \/ file' = new /\ UNCHANGED bounds
     \/ Event /\ faults' = TRUE /\ UNCHANGED file

\* Mutant of RecordTaskRan: only what the page shows is updated.
RecordLastRan(t, time) ==
  /\ SaveState([state EXCEPT ![t].lastRan = time])
  /\ ran' = [ran EXCEPT ![t] = @ \cup {time}]

RecordTaskRan(t, time) ==
  /\ SaveState([state EXCEPT ![t] = [anchor |-> time, lastRan |-> time]])
  /\ ran' = [ran EXCEPT ![t] = @ \cup {time}]

\* Mutant of Rearmed: arming a task counts as a run of it.
RearmedAndRan(timing, s, now) ==
  LET anchor == Arm(s, timing.anchor, now) IN [anchor |-> anchor, lastRan |-> anchor]

Rearmed(timing, s, now) == [timing EXCEPT !.anchor = Arm(s, @, now)]

-----------------------------------------------------------------------------
(* Starting up and dying *)

\* Mutant of StartScheduler: the tasks are not armed.
StartUnarmed ==
  /\ ~up
  /\ up' = TRUE
  /\ state' = file
  /\ armed' = [t \in Tasks |-> [time |-> clock, quiet |-> TRUE]]
  /\ UNCHANGED <<clock, conf, omit, file, channel, tick, saving, mutex, byHand,
                 slots, repeats, skipped, ran, before, bounds>>

\* New loads the file; armSchedules arms each task, and saves if that moved it.
StartScheduler ==
  LET new == [t \in Tasks |-> Rearmed(file[t], conf[t], clock)]
  IN /\ ~up
     /\ up' = TRUE
     /\ IF new = file THEN state' = file /\ UNCHANGED <<file, bounds>> ELSE SaveState(new)
     /\ armed' = [t \in Tasks |-> [time |-> clock, quiet |-> TRUE]]
     /\ UNCHANGED <<clock, conf, omit, channel, tick, saving, mutex, byHand,
                    slots, repeats, skipped, ran, before>>

Crash ==
  /\ up /\ Event
  /\ up' = FALSE
  /\ before' = state
  /\ state' = Unrun
  /\ channel' = Never
  /\ tick' = NoTick
  /\ saving' = {}
  /\ mutex' = [t \in Tasks |-> "nobody"]
  /\ byHand' = {}
  /\ skipped' = {}
  /\ UNCHANGED <<clock, conf, omit, file, armed, slots, repeats, ran, faults>>

\* It is the turn of a task, and that has got so far.
Working(t, at) == tick.at = at /\ t \in tick.left /\ \A other \in tick.left : Place(t) <= Place(other)

\* An hour passes, which it does not between two statements, but only while nothing
\* is happening or something slow.  The ticker's channel holds one tick, and drops others.
Advance ==
  /\ clock < Horizon
  /\ \/ tick.at \in {"idle", "scanning", "preparing", "planning"}
     \/ Working("expire_seeds", "started")
  /\ saving = {}
  /\ clock' = clock + 1
  /\ channel' = IF up /\ channel = Never THEN clock + 1 ELSE channel
  /\ UNCHANGED <<conf, omit, up, state, file, tick, saving, mutex, byHand, past, bounds>>

-----------------------------------------------------------------------------
(* What people do *)

\* Save: the file is replaced whole, or not, and memory follows it.
SaveConfig(c, days) == conf' = c /\ omit' = days

\* updateScheduleConfig: the configuration is saved and swapped in, ...
UpdateSchedule(t, s) ==
  /\ up /\ Event
  /\ Validate(s)
  /\ SaveConfig([conf EXCEPT ![t] = s], omit)
  /\ saving' = saving \cup {[task |-> t, sched |-> s, now |-> clock]}
  /\ UNCHANGED <<clock, up, state, file, channel, tick, mutex, byHand, past, faults>>

\* ... and then the task is armed.
ArmTask(save) ==
  LET t == save.task
      new == Rearmed(state[t], save.sched, save.now)
  IN /\ save \in saving
     /\ saving' = saving \ {save}
     /\ IF new = state[t] THEN UNCHANGED <<state, file, bounds>> ELSE SaveState([state EXCEPT ![t] = new])
     /\ armed' = IF save.sched # conf[t] THEN armed
                 ELSE [armed EXCEPT ![t] = [time |-> save.now, quiet |-> tick.at = "idle" /\ channel = Never]]
     /\ UNCHANGED <<clock, conf, omit, up, channel, tick, mutex, byHand,
                    slots, repeats, skipped, ran, before>>

UpdateWeeklyOmitDays(days) ==
  /\ up /\ Event
  /\ SaveConfig(conf, days)
  /\ UNCHANGED <<clock, up, state, file, channel, tick, saving, mutex, byHand, past, faults>>

\* One form per task, and one for the days.
HandleSchedulerSave ==
  \/ \E t \in Tasks, s \in Schedules : UpdateSchedule(t, s)
  \/ \E days \in OmitChoices : UpdateWeeklyOmitDays(days)

Waits(t) == mutex[t] = "nobody" \/ t \in Unlocked

\* "Scan now" and "Refresh now": a success counts as a run, a failure does not.
ScanNow(t) ==
  /\ up /\ Event /\ t \in ByButton /\ t \notin byHand /\ Waits(t)
  /\ byHand' = byHand \cup {t}
  /\ mutex' = IF t \in Unlocked THEN mutex ELSE [mutex EXCEPT ![t] = "hand"]
  /\ UNCHANGED <<clock, conf, omit, up, state, file, channel, tick, saving, past, faults>>

ScanNowEnds(t) ==
  /\ t \in byHand
  /\ byHand' = byHand \ {t}
  /\ mutex' = IF t \in Unlocked THEN mutex ELSE [mutex EXCEPT ![t] = "nobody"]
  /\ \/ RecordTaskRan(t, clock)
     \/ UNCHANGED <<state, file, bounds, ran>>
  /\ UNCHANGED <<clock, conf, omit, up, channel, tick, saving, armed, slots, repeats, skipped, before>>

-----------------------------------------------------------------------------
(* A tick *)

Goto(at) == tick' = [tick EXCEPT !.at = at]
After(t) == tick' = [tick EXCEPT !.at = "looking", !.slot = Never, !.left = @ \ {t}]

\* A schedule was saved since the ticker went, or is not armed yet.
Unarmed(t, now) == armed[t].time > now \/ \E save \in saving : save.task = t

\* The configuration is read once for all tasks.
StartTick ==
  /\ up /\ tick.at = "idle" /\ channel # Never
  /\ channel' = Never
  /\ tick' = IF OmittedOn(omit, channel) THEN tick
             ELSE [now |-> channel, conf |-> conf, left |-> Tasks, at |-> "looking", slot |-> Never,
                   early |-> {t \in Tasks : Unarmed(t, channel)}]
  /\ skipped' = {}
  /\ UNCHANGED <<clock, conf, omit, up, state, file, saving, mutex, byHand,
                 armed, slots, repeats, ran, before, bounds>>

EndTick ==
  /\ tick.at = "looking" /\ tick.left = {}
  /\ tick' = NoTick
  /\ UNCHANGED <<clock, conf, omit, up, state, file, channel, saving, mutex, byHand, past, bounds>>

IsDue(t) == Due(tick.conf[t], state[t].anchor, tick.now)

NotDue(t) ==
  /\ Working(t, "looking") /\ ~IsDue(t)
  /\ After(t)
  /\ UNCHANGED <<clock, conf, omit, up, state, file, channel, saving, mutex, byHand, past, bounds>>

\* What it is due for: today's slot, or the hour it was due at.
SlotFor(t) ==
  LET s == tick.conf[t]
      anchor == state[t].anchor
  IN IF s.unit = "daily" THEN SlotOn(Day(tick.now), s)
     ELSE IF anchor = Never THEN tick.now ELSE anchor + s.every

Begins(t) ==
  /\ slots' = [slots EXCEPT ![t] = @ \cup {tick.slot}]
  /\ repeats' = IF tick.slot \in slots[t] /\ t \notin tick.early THEN repeats \cup {t} ELSE repeats

FoundDue(t) ==
  /\ Working(t, "looking") /\ IsDue(t)
  /\ tick' = [tick EXCEPT !.at = "due", !.slot = SlotFor(t)]
  /\ UNCHANGED <<clock, conf, omit, up, state, file, channel, saving, mutex, byHand, past, bounds>>

\* The mutex is taken, or an apply is in flight, moves are, or the lock is held.
PutOff(t) ==
  /\ IF t \in Scans THEN Working(t, "due") /\ mutex[t] # "nobody"
     ELSE \E at \in {"due", "planning"} : Working(t, at)
  /\ After(t)
  /\ skipped' = skipped \cup {t}
  /\ UNCHANGED <<clock, conf, omit, up, state, file, channel, saving, mutex, byHand,
                 armed, slots, repeats, ran, before, bounds>>

\* A scan is recorded as it begins, whatever becomes of it.
RunScan(t) ==
  /\ Working(t, "due") /\ t \in Scans /\ mutex[t] = "nobody"
  /\ mutex' = [mutex EXCEPT ![t] = "tick"]
  /\ RecordTaskRan(t, tick.now)
  /\ Begins(t)
  /\ Goto("scanning")
  /\ UNCHANGED <<clock, conf, omit, up, channel, saving, byHand, armed, skipped, before>>

ScanEnds(t) ==
  /\ Working(t, "scanning")
  /\ mutex' = [mutex EXCEPT ![t] = "nobody"]
  /\ After(t)
  /\ UNCHANGED <<clock, conf, omit, up, state, file, channel, saving, byHand, past, bounds>>

\* The cutoffs, or the trackers, are scanned first, unless somebody does already.
ScanBefore(t) ==
  /\ Working(t, "due") /\ t \in DOMAIN ScanFirst \cap Tasks
  /\ LET scan == ScanFirst[t]
     IN IF scan \in Tasks /\ mutex[scan] = "nobody"
        THEN mutex' = [mutex EXCEPT ![scan] = "tick"] /\ Goto("preparing")
        ELSE Goto("planning") /\ UNCHANGED mutex
  /\ UNCHANGED <<clock, conf, omit, up, state, file, channel, saving, byHand, past, bounds>>

ScannedBefore(t) ==
  /\ Working(t, "preparing")
  /\ mutex' = [mutex EXCEPT ![ScanFirst[t]] = "nobody"]
  /\ Goto("planning")
  /\ \/ RecordTaskRan(ScanFirst[t], tick.now)
     \/ UNCHANGED <<state, file, bounds, ran>>
  /\ UNCHANGED <<clock, conf, omit, up, channel, saving, byHand, armed, slots, repeats, skipped, before>>

\* No engine, a drive missing, no plan, nothing to do: that was the run.
Refuse(t) ==
  /\ t \notin Scans /\ \E at \in {"due", "planning"} : Working(t, at)
  /\ RecordTaskRan(t, tick.now)
  /\ After(t)
  /\ UNCHANGED <<clock, conf, omit, up, channel, saving, mutex, byHand,
                 armed, slots, repeats, skipped, before>>

\* startApply and its like: the moves begin, ...
StartApply(t) ==
  /\ t \notin Scans
  /\ Working(t, IF t \in DOMAIN ScanFirst THEN "planning" ELSE "due")
  /\ Begins(t)
  /\ Goto("started")
  /\ UNCHANGED <<clock, conf, omit, up, state, file, channel, saving, mutex, byHand,
                 armed, skipped, ran, before, bounds>>

\* ... and then the run is recorded.
Started(t) ==
  /\ Working(t, "started")
  /\ RecordTaskRan(t, tick.now)
  /\ After(t)
  /\ UNCHANGED <<clock, conf, omit, up, channel, saving, mutex, byHand,
                 armed, slots, repeats, skipped, before>>

Turn(t) == \/ NotDue(t) \/ FoundDue(t) \/ PutOff(t) \/ RunScan(t) \/ ScanEnds(t)
           \/ ScanBefore(t) \/ ScannedBefore(t) \/ Refuse(t) \/ StartApply(t) \/ Started(t)

Next ==
  \/ StartScheduler \/ Crash \/ Advance \/ StartTick \/ EndTick
  \/ \E t \in Tasks : Turn(t) \/ ScanNow(t) \/ ScanNowEnds(t)
  \/ HandleSchedulerSave
  \/ \E save \in saving : ArmTask(save)

Spec == Init /\ [][Next]_vars

-----------------------------------------------------------------------------
(* Properties *)

Tick == [now : Moments, conf : SchedulerConfig, left : SUBSET Tasks,
         at : {"idle", "looking", "due", "scanning", "preparing", "planning", "started"},
         slot : Int, early : SUBSET Tasks]

TypeOK ==
  /\ clock \in Times /\ conf \in SchedulerConfig /\ omit \subseteq Days /\ up \in BOOLEAN
  /\ state \in [Tasks -> Timing] /\ file \in [Tasks -> Timing]
  /\ channel \in Moments
  /\ tick \in Tick
  /\ saving \subseteq [task : Tasks, sched : Schedule, now : Times]
  /\ mutex \in [Tasks -> {"nobody", "tick", "hand"}]
  /\ byHand \subseteq Tasks
  /\ armed \in [Tasks -> [time : Moments, quiet : BOOLEAN]]
  /\ before \in [Tasks -> Timing]

\* "Starting up never starts a task", and neither does saving a schedule while no tick
\* is under way: what was armed stays not due by the time it was armed, whatever runs,
\* is scanned by hand or is recorded out of order, until its schedule is changed.
NotOnTheSpot ==
  \A t \in Tasks : (up /\ armed[t].quiet /\ ~\E save \in saving : save.task = t)
                     => ~Due(conf[t], state[t].anchor, armed[t].time)

\* No run happens twice: Coldarr may die after the moves have begun and before that
\* is recorded, fail to record it, or find the slot anew once its schedule is saved.
\* The exception is a tick that starts between the two halves of saving a schedule, or
\* with an earlier time than it was saved at: there it is not armed, and may run again.
OncePerSlot == repeats = {}

\* When a tick is over, every task has had its turn or was put off: one that is to
\* run on this day and at this time or before has run since as many days ago as its
\* schedule says, however late in the day; and a failure counts, and is not repeated
\* every minute.
NothingLeftDue ==
  tick.at = "looking" /\ tick.left = {} =>
    \A t \in Tasks \ skipped :
      LET s == tick.conf[t]
          anchor == state[t].anchor
      IN s.enabled =>
           CASE s.unit = "daily"  -> SlotOn(Day(tick.now), s) <= tick.now
                                       => anchor # Never /\ Day(anchor) > Day(tick.now) - s.every
             [] s.unit = "hourly" -> anchor # Never /\ anchor > tick.now - s.every

\* What the page shows as a task's last run was one, by the schedule or by hand, in
\* memory and in the file alike; and arming only ever moves an anchor past it.
LastRanIsTrue ==
  \A timing \in {state, file} : \A t \in Tasks :
    /\ timing[t].lastRan \in ran[t] \cup {Never}
    /\ timing[t].anchor >= timing[t].lastRan

\* A restart never changes when a task next runs, unless that was while Coldarr was
\* down; and it forgets no run.
RestartKeepsNextRun ==
  [][StartScheduler /\ ~faults
       => \A t \in Tasks :
            /\ state'[t].lastRan = before[t].lastRan
            /\ ~Due(conf[t], before[t].anchor, clock)
                 => NextDue(conf[t], state'[t].anchor, clock) = NextDue(conf[t], before[t].anchor, clock)]_vars
=============================================================================
