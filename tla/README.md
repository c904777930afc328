# Coldarr, specified

TLA+ modules for [Coldarr](../src), a storage-tiering service for Radarr, Sonarr and
qBittorrent libraries: it decides what should be on fast and what on cold drives, has
the apps carry the moves out, and keeps Jellyfin and its own history informed. Coldarr
never copies a byte itself. It asks an app to move an item, watches the drive, and asks
again; the app may take a request whose answer was lost, go on after Coldarr died, or
never finish. The specifications are about what can and cannot go wrong there.

All paths below are relative to `src/`; `internal/` is left out where it is clear.

## 1. Inventory

| Component | State | Operations | Talks to |
|---|---|---|---|
| Move engine, `mover/{mover,arr}.go`, `torrents/executor.go` | a run's entries with status, error, landed path, reported flag; per-phase verdict; executor's `sawMoving`, `unseen` | `Run`, `runPhase`, `runOne`, `verifyRoom`, `settle`; `Move`, `Rejected`, `ConfirmLanded`, `Landed` | Radarr/Sonarr/qBittorrent over HTTP, `statfs`, history, Jellyfin follow-up |
| Apply gates and lock, `mover/lock.go`, `cmd/coldarr/apply.go`, `webui/handlers_{plan,downloads,scheduler}.go` | flock in the config directory; `currentRun`, `currentDownloadsRun` and their `active` flags | CLI apply, two page handlers, two scheduled runs, removal of finished seeds | engine's `MovesInFlight` and `CheckStorage`, the move engine |
| Engine, `engine/{engine,downloads}.go` | one per command or request: configuration, clients, loaded history and caches | `BuildInventory`, `BuildPlan`, `CheckStorage`, `MovesInFlight`, `StartJellyfinFollowUp`, `NotifyJellyfinMoved` | everything |
| Library planner, `planner/`, `scoring/` | none (a pure function of the inventory) | `Build`: fills, reclaims, phases, projected usage | called by the engine |
| Download planning, `torrents/{classify,plan,seeding,remove}.go` | none, but for the removal's calls | `Classify`, `BuildPlan`, `PlanRemovals`, `Remove` | qBittorrent |
| App clients, `arrapi/`, `qbit/`, `jellyfin/` | qBittorrent session; none otherwise | typed requests | the apps |
| Jellyfin follow-up, `jellyfin/`, `engine.go` | per-run outcomes and recorded dates | report, wait, restore dates, refresh, fall back to a scan | Jellyfin |
| Scheduler, `scheduler/`, `webui/{schedstate,handlers_scheduler}.go` | persisted anchor and last run per task | `Due`, `Arm`, `tick` every minute | the scheduled tasks |
| History, `history/` | a JSON file each, and the copy each engine loaded | `Append`, `LastMoved`, cooldown | planner, pages |
| Snapshot caches, `{import,cutoff,tracker,link}cache/` | a JSON file and its copy in memory | `Refresh`, `Get` | planner, pages |
| Orphaned storage, `orphans/` | last scan's candidates | `Refresh`, `DeleteDownload` | every service, the disk |
| Configuration and secrets, `config/`, `secrets/` | YAML file, encrypted connections | load, validate, save, set, delete | pages, engine |
| Authentication, `webui/auth.go` | sessions, one-shot login states | login, OIDC callback, logout, expiry | pages |
| Pages, notifications, reports | none of their own | render, notify | all of it |

What is hard here, and what has to hold:

* **Move engine.** A goroutine per destination volume, one verdict for the phase, an app
  that acts on its own time. At most one move in flight per physical drive; room checked
  right before a request is still there when the app writes; nothing of a later phase
  before every earlier move landed; no entry left pending or given up without cause;
  every run ends.
* **Gates.** Six entry points, two processes, three different guards in three different
  orders, and a crash that frees the lock and not the moves. One run at a time; earlier
  moves are noticed; the lock is always freed.
* **Follow-up.** One goroutine per moved item waits for Jellyfin, which is still scanning
  what it writes to. Each item is reported once (once more if that failed), its dates go back before its refresh and
  nothing older is ever sent over the refresh; the restore starts only after everything.
* **Planner.** Reclaims and fills need each other's room, and the moves of a phase run
  side by side. Every move fits with only the earlier phases landed; nothing is forgotten,
  planned twice or undone by the next plan; what people want on hot storage comes first.
* **Removal of downloads.** A plan made from two readings, confirmed by a click minutes
  later, checked again and carried out one removal after another. Nothing not done
  seeding, not imported or shared with the library leaves; files stay while anybody else
  uses them; what is removed is what was shown, and what is logged happened.
* **Moves of downloads.** A pass reads four services one after the other while others add,
  move, label and remove downloads. Cross-seeds and downloads nested in one another move
  together or not at all, only once imported and settled, and never past a drive's limit.
* **Scheduler.** A tick works through slow tasks while people save schedules and start scans,
  anchors fail to be written, and Coldarr dies. Arming neither fires a task nor shifts it; no
  slot runs twice; no task is left out.
* **Orphans.** The list is hours old when somebody deletes an entry of it. A scan lists what is
  no one's and nothing else; a delete takes nothing anybody knew of when it asked.
* **History and caches.** Files rewritten whole by engines that loaded them at different
  times. No completed move should disappear from the cooldown ledger (it can, see section 4).

`PROJECT.json` lists every component with its status, and every hazard with its line and
the properties that cover it.

## 2. Modules

    MovePromise       what a run promises, whichever app moves
       ^ refined by
    MoveRun           Run, runPhase, runOne, executors, the app
       ^ EXTENDS
    MCMoveRun         instances for TLC        MoveRunProofs    TLAPS proofs

    Settle            settle, ConfirmLanded: inside one step of MoveRun
                                               LandingProofs, with FollowUp's

    ApplyGate         entry points, in-flight flags, flock, crashes
    MCApplyGate                                ApplyGateProofs

    Schedule          the ticker, eight tasks, anchors, crashes
    MCSchedule                                 ScheduleProofs

    Planner           Build, its rounds and allocations
    MCPlanner                                  PlannerProofs

    FollowUp          ReportMoved, ResolveAndRefresh, NotifyJellyfinMoved, Jellyfin
    MCFollowUp                                 LandingProofs, with Settle's

    ContentPaths      paths that share files, and how they sort
       ^ EXTENDS
    Downloads         a pass of download tiering, from the inventory to the labels
    MCDownloads                                DownloadsProofs
    Removal           PlanRemovals, the page, removeFinishedSeeds, Remove
    MCRemoval                                  RemovalProofs

    Orphans           Refresh, DeleteDownload, everybody else on the disk
    MCOrphans                                  OrphansProofs

How they fit. `Schedule` decides when a task begins and stops at its `StartApply`; from there
the task is an attempt of `ApplyGate`, which sees a run as start, ask for moves, be over.
`MoveRun` is what is inside a run, and `Settle` what is inside its step from `settling` to
`reporting`. `Planner` makes what `MoveRun` is given: phases whose moves fit when their turn
comes (`PhaseFits`), which `MoveRun` takes as its plans and checks again with `HasRoom`.
`Downloads` makes the serial plans, and has what concerns which torrents move; the lost
answers and the room of such a move are `MoveRun`'s. `Removal` is the inside of `ApplyGate`'s
removal attempts, between their lock and their end. `FollowUp` refines what `MoveRun` counts
as one follow-up. Two facts are handed across: that a run ends, which `ApplyGate`'s fairness
needs, is `MoveRun!RunEnds`; and what `MoveRun` assumes of the volumes at the start, that no
earlier move is still writing to them, is what `ApplyGate!NoOverlapMissed` provides, up to the
race it names.

### MoveRun

| State | In the code |
|---|---|
| `plan`, `opts` | the entries given to `Run`; `Options.Serial` and the `volumeOf` map. `serial` stands for a run of torrents, the only serial one |
| `at[e]` | the goroutine's place in `runOne`; `Status(e)` is the `MoveStatus` a snapshot shows |
| `landed`, `crossed` | entries with a `LandedPath`; of these, history: those whose path changed between `ConfirmLanded`'s two requests |
| `followUps[e]` | Jellyfin follow-ups started, during the run (`Reported`) or after it |
| `phase`, `phaseLanded`, `stage` | the loop in `Run`, `runPhase`'s verdict, `markDone` and the caller's `NotifyJellyfinMoved` |
| `transfer[e]`, `used`, `drift` | not Coldarr's: what the app is doing, what the volumes hold, what others wrote |

An action is one step of `runOne` between two points where another actor can get in:
start, the room check, the request, its answer (accepted, refused, lost), the landing
(or giving it up), the report, the history record. Failures come in the three kinds
`runOne`'s two results distinguish: `failed` (the volume is safe), `abandoned` (the
transfer may be running, so the rest of the queue is `skipped`) and a landed entry whose
record failed (`failed`, with `e \in landed`).

Abstracted: a volume's fullness is a number, and the size and ceiling checks are one
`Limit`; the readings inside `settle` are the conditions under which `ConfirmLanded` may
agree: `LooksLanded` (the item is there but for its last percent, or, size unknown, its path
says so) and `LooksCrossed` (the path changed between the rescan and the reading, so the size
is the original's; `CrossMax` says which entries this may happen to). What has landed in one
of the two ways that do not measure it is `Unmeasured`, which the properties name; titles,
error texts and times are left out. Jellyfin is taken to be configured for a library run.
An app's refusal is taken to be the app's: what a proxy in front of it may answer is not
modelled (see the hazards).

### Settle

What `MoveRun` takes as the one step from `settling` to `reporting`: the loop in `settle`
with its `tracker` and `noGrowth`, the two requests of `arrExecutor.ConfirmLanded`
(`Rescan`, then reading the item), and qBittorrent's answer followed by the look at the
files. `at` is the place in the loop; `sawMoving` and `unseen` are the executor's maps for
this one key. Against it stand an app that copies in any steps, changes the path before
or after the files, checks, gives up, errs or loses the item, other writers on the
volume, and a mount that shows nothing, part or all of what is there. `quiet` counts the
readings since anything but `settle` did something, once the move is over.

It also says how far `MoveRun!SettleLands` may be believed. `LandedIsWhole` has two
exceptions, and both are in the code and in `MoveRun`: an unknown size (`LooksLanded`), and
a path that changed between the rescan and the reading, whose size is then the original's
(`LooksCrossed`). The second takes an app that changes the path before it has copied, at
the very moment it is asked.

Abstracted: sizes are small numbers, compared exactly as the code does; a download group
is one torrent; the deadline may pass at any time; requests and stats may fail at any time.

### ApplyGate

`Route` is the heart of it: the gates of each entry point, in the order the code has
them. `at[a]` and `gate[a]` say how far a caller is; `lock` is the flock, `current` and
`active` the server's memory of its runs, `moves` what the apps report as moving. A run asks
for a move with `SendMove`: the app takes the request, or its answer is lost and it is `late`,
to be taken at any time (`TakenLate`), when the run that asked may be over or dead.
`since[a]` is a history variable: what was taken after `a` had begun asking, which nobody
`a` asks can know of. While the request's own run goes on, that ends when `a` has the lock;
a late request of a run that is over (`Outlived`) may be taken in the middle of `a`'s run.
`MovesInFlight` is two actions, because it is two requests to different apps and a move can
start between them. `Die` is a crash of the server or of one CLI process.

### Schedule

| State | In the code |
|---|---|
| `conf`, `omit` | the `SchedulerConfig` in memory and in the file, which `SaveConfig` changes together |
| `state`, `file` | `schedState` and `coldarr-scheduler.json`: an anchor and a last run per task |
| `channel`, `tick` | the ticker's channel of one, and the tick being worked on: its time, the configuration it read once, the tasks still to have their turn (in the code's order, `Place`), how far the current one is, and those that were not armed when it began (`early`) |
| `saving` | schedules saved whose task is not re-armed yet: two steps in `updateScheduleConfig` |
| `mutex`, `byHand` | the scans' mutexes, and scans started from a page |
| `armed`, `slots`, `repeats`, `skipped`, `ran`, `before` | history, for the properties |

`StartTick` to `EndTick` is `tick`, with a step wherever a task looks, begins, is recorded or
is put off; a planning task may run its scan first, under the scan's own mutex. Time is
hours: a tick per hour instead of per minute, and days of `DayLength` hours. `Advance` lets
time pass only while nothing is happening or something slow is. `SaveState` may fail, and
then memory and file differ. `Crash` is possible at every step; `before` is what was in
memory then.

Abstracted: the eight tasks' work (the other modules'), local time and daylight saving,
a clock that is set back, and the texts of the forms.

### FollowUp

`work[w]` is one call of `ResolveAndRefresh`: one per item reported during the run, and one
for what is left when it is over. A call goes through rounds: `ListItems`, then for each
item that is listed `ReadLeaves` (a series' episodes), `PutBackAddedDates` with `ReadItem` and
`PostItem` for each leaf whose date the move changed, then `RefreshItem`; `EndRound` goes
round again or, when the deadline has passed, gives up. The run itself is
`SnapshotAddedDates`, `Landed` and `MoveFails` per item, `MovesOver`, `NotifyJellyfinMoved`
and `Notified`. `leaf` is what Jellyfin has of a movie or an episode: its date, and whether
its metadata is new, filled in by the scan or fully refreshed; `scanning` the copy its own
scan is about to save; `queue` the refreshes it has accepted.

Jellyfin is the environment: folders and episodes appear, scans run on copies, refreshes run
after the scan of the item, an item may be dropped again, and every request may fail, after or
before it had its effect. `excused` records what the code accepts: a date that a failed
request, Jellyfin's own scan or the deadline cost.

`told` counts the reports of an item that Jellyfin may have acted on: a report that fails may
have got through and only its answer be lost, or only its second request have failed, and the
batch reports the item again (`mover.go:90-99`). So `ReportedOnce` says that what went through is
not repeated, and what failed is repeated once.

Abstracted: dates are `old` or `move`; a report is two requests and fails when either does;
the pauses between rounds are left out, and the deadline may pass before any round. A run
with Jellyfin not configured, or without a landed path, has nothing here. Coldarr dying
ends the state machine wherever it is, which every invariant already covers.

### ContentPaths and Downloads

`ContentPaths` has `IsUnder`, `Overlap` and the order in which paths sort, on sequences of
character codes, since both grouping algorithms depend on it: `a`, `a.b`, `a/b` sort in this
order.

`Downloads` is one pass: `BuildDownloadsInventory` reads the drives, `ListTorrents` and
`ReadQueues` go on at the same time, `AskImports` asks or remembers (about what may be moved
or relabeled, and about what is done seeding, which may be any of the downloads here), `BuildDownloadsPlan`
decides, `StartDownloadsApply` asks `InFlight` once more, and `Move`, `SkipMove`, `Landed`,
`LandingFails` and `RelabelNext` carry it out, one group after another. The decisions are
definitions named for the functions: `Managed`, `Active`, `Settled`, `ImportChecks`,
`ClearToTouch`, `State`, `HoldGroups` with `NestedIn`, `Reserved`, `HeldBack`, `Unseen`,
`ReadyGroups`, `Seats`, `Seated`, `Plan`. `list`, `queued`, `answers`, `usage` are what the pass
read, `torrents`, `queue`, `imported`, `files` what is so by now, `cache` what outlives the pass.

Around it, others add a download (also in the place of one just removed), finish, import,
remove, move, label and check them, put a file where one is to go, and qBittorrent ends a
move or gives it up. `since` and `touched` are history: what others did during this pass, and
ever. `wrong` notes what is wrong with a move at the moment it is asked for.

Abstracted: content is a name below its tier path; what is not inside its save path, and hard
links, only make warnings and are left out; `unseenSample` looks at five downloads, the model
at all; 0 settle days are read as the default of 3 (`config.go:577`).

### Orphans

`doing` is who holds `scanOrphansMu`, `at` how far it has got: `ReadLibrary`, `ReadTorrents` and
`ReadFileNames` ask the services in the code's order, then a scan goes through the tiers with
`Walk` and `Publish`es, a delete `Refuse`s or `RemoveAll`s. A path is the sequence of its parts,
the disk a set of files; a folder is there when something is inside it. `Leftovers` is
the walk of both kinds of folder, with `Opened` for the folders it goes into and `Unfinished`
for the name a file has while it is downloaded. A magnet link has no content yet (`NoPath`) and
claims nothing. `snap` and `saved` are the list in memory
and on disk, which a failed save leaves behind and a crash brings back. `added` and `learned`
are history: what came after Coldarr had asked.

Abstracted: a tier has one path; sizes, warnings and the test whether a folder can be
written are left out; symbolic links, and a tier path inside something a service knows, do
not occur.

### Planner

`Build` is one function, modelled as the loop it is: `AttemptReclaims`, then `StartFills`,
`NoRoomForFill` and `PlanFill` for each fill in turn, `EndRound`. `working` and `capacity`
are its two projections: with every planned move made, and with this phase's fills
written and nothing freed. `entries`, `reclaims`, `fills`, `goal`, `phase` and `round` are
its variables. `allocateReclaims`, which is atomic here, is the greedy heuristic as a fold
(`Greedy`) and the backtracking search as the list of its leaves from left to right
(`Leaves`), of which the first that places most is what the pruned search ends with;
`LargestReclaims` compares it with every choice of items and paths that fit side by side
(`RoomForAll`), each with all of the others there.

Abstracted: bytes and percentages are small numbers; a tier's paths are numbered in
configured order; of scoring, only which verdict takes precedence; `wanted` stands for
the three reasons of `misplacedOnCold`, `small` and `cooling` for the minimum size and the
cooldown; the search's limit of 50,000 nodes is never reached, and where it adds back what
it has tried, the model goes on from the usage before. `Accounted` says that what the apps
report is on a drive is on it, so that nothing used is floored at zero.

Two properties have exceptions, each in the code. `HotBoundFirst` leaves out layouts that are
`SharedUnevenly`. Where a hot and a cold path share a drive, a reclaim frees hot room as it is
planned, the fills of the same round come before the next reclaims, and the target they stop
at counts only what has room after all of them: a fill can take the room, and the item wanted
back is left with the warning that no hot destination has any. Where two hot paths of
different ceilings share one, see section 4. `PhaseFits` leaves out paths that are not
`EvenlyRead`: the paths of a drive are read one after another, and when another process
writes in between they do not agree; see section 4 too.

### Removal

The pure half is a definition for each function: `ShareClusters` is the loop over the
sorted paths with its stack (`Place` is one turn of it), `Requirement` the loop over a
download's trackers, `Removable`, `AllRemovals` and `WithinCap` the three parts of
`PlanRemovals`. A path is a sequence of character codes, since the clusters depend on how
paths sort. `Plans` is a set, because the code breaks ties by names, which are left out.

The other half is what happens around it: the page or the run lists the torrents
(`seen`), reads the libraries later (`seenLibrary`), and carries out `todo` one by one,
each in four steps: the check of what qBittorrent says now, the delete (whose answer may
be lost, or may be 200 with nothing done), the look whether they are gone, the log entry.
Between any two of these, others add, move, re-check or take out torrents, and the
libraries and the importers go on. `removed`, `lost` and `lostLibrary` are history
variables: what was deleted, and whose files went with it.

Abstracted: a download is seeding or not (`Rechecks` changes it); its tier, its label and
its place in an app's queue are the one bit `managed`, which `Remove` does not read
again; an override's host matching is the days the tracker asks for; names and sizes are
left out; a path's trailing separator and the root folder do not occur.

## 3. Runs

| Run | Bounds | Shows |
|---|---|---|
| `move_run` | 7 plans of 3 entries over 4 tiers on 3 drives, 3 queueing modes, 1 unit of outside writes to one drive; the first entry's path may change while it is read | single writer, phase gate, nothing dropped, one follow-up, room outlives its check, every step one of `MovePromise`, the run ends |
| `settle` | an item of 3 units, 3 stable readings, 3 misses, 1 unit of noise; both apps, known or unknown size, one volume or two | landed is whole, promptly confirmed, failed for good |
| `apply_gate` | CLI, Plan page, scheduled downloads run, seed removal; 2 runs, 1 crash | one at a time, no overlap missed, no false admission, lock freed |
| `planner` | up to 3 items of 19 kinds, and one library of 4, on 7 starts of 4 layouts: one hot drive with the other hot path unavailable, two of which one takes no TV, one shared by a hot and a cold path, one by two hot paths of different ceilings, read alike or not | each move fits at its turn, as many reclaims as possible, nothing forgotten, the next plan is empty, hot-bound items first |
| `schedule` | a scan and a task that scans first; 5 schedules, one day of the week omitted or two; days of 3 hours, 8 hours, 2 events | nothing fires on the spot, nothing runs twice for a slot, nothing left due, last runs are true, a restart changes nothing |
| `follow_up` | a movie and a series of 2 episodes, 2 faults, the second in the batch | dates put back, restored after all, reported once, refreshed last |
| `downloads` | 5 beginnings of up to 3 downloads, 2 arrivals, 1 hot and 2 cold paths on 2 drives, 2 days, 2 events (1 in the two largest) | moved together, imports unbroken, within max, none forgotten, seed label true |
| `removal` | 3 torrents, each done, not done for one of its trackers by days or ever, without trackers or unmanaged, in a folder, in it, beside it or nowhere; at most 1 not imported, 1 event by others, 2 downloads a run | clusters are exactly what shares files, every tracker satisfied, only what was confirmed, true log, files and library kept |
| `orphans` | 4 downloads (a folder of its own, none, a file, a magnet link), 2 items, 3 stray files, 3 configurations, 2 events | scan is exact, what is deleted is nobody's |
| `removal_nested` | 2 torrents, no events | finding 1 |
| `downloads_onto` | 2 downloads of one name on two hot paths, no events | finding 2 |
| `orphans_unfinished` | as `orphans` | finding 3 |

Why these bounds are enough:

* `move_run`: three entries are the least with two in one queue and one in another, or in
  a phase before or behind; the plans enumerate these shapes, including the tier pair that
  shares a drive, a later phase listed first and an item of unknown size. Drives have just
  the room their plans need, so any double booking or early start overfills one. A landing
  read across the change of a path is of the first entry, which has others behind it in its
  queue, beside it and in later phases.
* `settle`: 3 units let a copy stall twice short of its end, 3 is the code's own default for
  both counters, and one unit of noise is enough to hide or to feign growth of a part.
* `apply_gate`: two runs are the least that can overlap, and one crash the least that
  leaves moves without a lock.
* `schedule`: 8 hours are almost three days, so a schedule of every second day and an
  omitted one both come round; two events are a crash and what made it matter (a failed
  write, a saved schedule), or two saves. The two tasks are the only pair that shares a mutex
  and a record; others take their turns alike.
* `follow_up`: two episodes are the least of which one is missing; two faults let a request
  fail and its repetition fail too, so a state constraint (`SecondInBatch`) follows a second
  fault only once the batch has begun. The two episodes are symmetric.
* `downloads`: three downloads are the least with one nested in another and a sibling sorting
  between; the paths on one drive have different ceilings and only some groups fit. One event
  separates every pair of steps, two are a removal and an addition in its place.
* `removal`: three torrents are the least with two sharing files and one that could wrongly
  be put with either; the paths are a folder, something in it and a sibling that plain
  string order puts between the two; a limit of 2 lets a pair fit, or be deferred for a
  single. One event, at any point, separates every pair of steps. The torrents are
  symmetric: their hashes are only compared for equality.
* `orphans`: the downloads are one of each way qBittorrent lays out content, and the strays lie
  beside them and inside an item's folder; two events are a download taken out and put back.
* `planner`: three items are the least for the greedy choice to be wrong (a large one where
  two smaller would fit), for a fill to make room for a reclaim with another to spare, and
  for a chain of three phases; drives have a few units of room, so every ceiling is met. The
  one library of four (`Crowded`) has three reclaims for a drive of two ceilings and a fill
  that could be planned before the last of them.

`RunMax`, `CrashMax`, `DriftMax`, `CrossMax`, `NoiseMax`, `UnimportedMax`, `EventMax`, `FaultMax`, `Horizon` and
`Planner`'s `MaxRounds` are the only bounds, each a guard of one action or of the initial
states; `SecondInBatch` and the events a world of `downloads` begins with tighten them.
Deadlock is not checked: a closed run, a finished plan, removal or follow-up, gates with
their runs used up and a clock at its horizon have nothing left to do.

**Fairness.** `MoveRun`: weak fairness of each goroutine's steps and of the run's own
loop. The code justifies it because every wait has a limit: the HTTP clients' timeouts
while asking (`LostAnswer` is always possible in `waiting`), `SettleMaxWait` while
settling (`SettleFails` is always possible in `settling`). Nothing is assumed of the app.
`ApplyGate`: an attempt that has begun goes on, except at the prompt, which the operator
may leave unanswered for ever; a run ends (`RunEnds`), and its deferred calls run. The other
modules state safety only. What should eventually happen there depends on others (Jellyfin
indexing an item, a download being seeded long enough), or is said as safety over a finished
tick (`NothingLeftDue`), plan (`NoneForgotten`) or scan (`ScanIsExact`).

Every property of a passing run has a mutant in `PROJECT.json`: a plausible bug in a
mapped definition (the definition just above it) that makes the property fail.

## 4. Findings

1. *Nested downloads are never removed* (`removal_nested`). "Downloads sharing files are
   removed together" (`remove.go:63-65`), but every download of a removal is compared
   with the path of its first (lines 103 and 226), so one that lies inside another's
   folder "has moved since the plan was made" for ever.
2. *A download can be moved onto another* (`downloads_onto`). It "never moves onto a file or
   folder already at the same name" (`torrents/plan.go:106-109`), but the plan remembers no name
   it has given away, and the move does not look again: of two downloads of one name on
   two hot paths the second is moved onto the first.
3. *A file being downloaded can be deleted as an orphan* (`orphans_unfinished`). Entries are
   deleted "after checking with every service that nothing has started using them since"
   (`docs/configuration/downloads.md:187-189`), but that check compares plain names, and a file
   that is not finished has `.!qB` after its own. The scan knows (`orphans.go:359-362`).

Other disagreements of the code with its comments, met while modelling and without a run of
their own:

* `engine.go:585-587` and `mover.go:96-99`: a failed report is left to `NotifyJellyfinMoved`; but
  when the history record fails too the entry is failed (`mover.go:566-568`), and only done
  entries are handed over.
* `engine.go:193` "every apply entry point must refuse": the CLI asks once, before planning and
  the prompt (`apply.go:34-38`, `:76`). `engine.go:193-196` and `:142-143`: on the pages the plan is
  built before moves in flight and storage are checked (`handlers_plan.go:175-192`,
  `handlers_downloads.go:325-335`).
* `engine/downloads.go:351`: with download tiering switched off while a download moves, nobody asks
  qBittorrent whether it still does.
* `executor.go:46-49` counts misses "in a row"; nothing resets the count (`:248-256`).
* `docs/features.md:123-124` and `server.go:501-504`: neither a restart nor omitted days change
  when a job next runs; but a restart on an omitted day arms the task past that day's slot
  (`server.go:459-466`, `scheduler.go:165`). `Schedule!RestartKeepsNextRun` compares with what `Due`
  says, omitted days aside.
* `server.go:522-527` "saving a schedule can never itself trigger" a run: a tick between the new
  configuration and the arming (`:567-574`) does, and one that began earlier records over the
  arming. `NotOnTheSpot` names both: no tick under way, no save unfinished. So does
  `OncePerSlot`: a tick that begins in between may run a slot that has been run.
* `planner.go:205` "the largest feasible reclaim set in one phase" and `:142-145` "the first newly safe
  hot-bound item runs immediately": the search tries one order only, fewest options and largest
  first. On a drive with 6 of 10 units used, a movie of 2 under a ceiling of 100 goes before two
  episodes of 1 under a ceiling of 80 of another hot path there, and neither fits any more; the
  other way round all three do. They stay behind, and a fill may be planned first. Hence `RoomForAll`
  and the exception of `SharedUnevenly`.
* `planner.go:138-140`, a move never spends what another of its phase frees: `engine.go:163-190` reads
  the paths of a drive one after another, and what one has left is floored at zero by itself
  (`diskusage.go:215-231`). If two read 4 and 1 units free, a reclaim of 3 counts as 1 on the
  second, the fill of 3 that follows gives it 3 back, and a reclaim of 2 is put where 1 is free.
  Hence `EvenlyRead`.
* `history.go:36-38`: each engine rewrites the whole file from what it loaded; one that loaded
  before another's run ended writes that run's moves away.

## 5. Proofs

TLAPS checks, for all values of the constants that meet the assumptions in the modules:

* `MoveRunProofs`: `TypeCorrect`, `OneWriter`, `RoomKept`, `PhasesGated`,
  `NothingDropped`, `FollowedUp`, and `Implements`, that `MoveRun` implements
  `MovePromise`.
* `ApplyGateProofs`: `TypeCorrect`, `OneApply`, `OverlapSeen`, `Admission`.
* `RemovalProofs`: `TrueLog`, `ClustersExactHolds`, `EveryTrackerSatisfiedHolds`,
  `ConfirmedOnlyHolds`, `OnlyItsOwnFilesHolds`.
* `ScheduleProofs`: `TypeCorrect`, `LastRanHolds`, `NotOnTheSpotHolds`,
  `RestartKeepsNextRunHolds`, `NothingLeftDueHolds`, `OncePerSlotHolds`.
* `LandingProofs`, of `Settle`: `SettleTypeCorrect`, `Landing`, `Prompt`, `Failure`; of `FollowUp`:
  `TypeCorrect`, `ReportedOnceHolds`, `RestoredAfterAllHolds`, `RefreshedLastHolds`,
  `DatesPutBackHolds`.
* `OrphansProofs`: `TypeCorrect`, `DeletedIsNobodysHolds`, `ScanIsExactHolds`.
* `DownloadsProofs`: `TypeCorrect`, `MovedTogetherHolds`, `ImportsUnbrokenHolds`,
  `WithinMaxHolds`, `NoneForgottenHolds`, `SeedLabelTrueHolds`.
* `PlannerProofs`: `TypeCorrect`, `NoneForgottenHolds`, `PhaseFitsHolds`, `LargestReclaimsHolds`,
  `ReplanIsEmptyHolds`, `HotBoundFirstHolds`.

None of the properties is inductive.

*MoveRun.* They say what the app may be doing, and the steps are decided by what Coldarr
knows; the strengthening `IInv` ties the two together: for each place in `runOne` what the
transfer can be; that an entry behind another one in its queue has not begun unless that one
returned safely; that nothing of a phase has begun unless every entry before it landed; that
`phaseLanded` is false as soon as an entry of the phase ended otherwise; and, for the room,
that the limit was checked against a volume which nothing but the checked move and `drift`
has added to since. From it the single writer follows because two moves that may write to
one volume would sit in one queue, one behind the other, and the one in front would have to
have both returned and still be open.

*Settle.* What the app's state implies about the bytes and the path, what a confirmation
between its two requests already knows, and that every quiet reading has added to one of the
two counters, so that their targets bound `quiet`; a confirmation that is asked for while it
is quiet succeeds.

*ApplyGate.* Whoever runs or ends holds the lock, with a run number of its own that no
earlier move carries; and for each gate already passed, which moves can still be there
without being in `since`.

*Removal.* From the check to the log every download of the removal is listed still, or
removed with the files the removal says, or taken out by somebody else. For the plan, a walk
over the sorted paths, by induction on the place in it: the stack is the ancestors of the path
last placed, since whatever sorts between a folder and something in it lies in it too; so two
paths get one cluster exactly when a chain of shared files connects them. From that, and from
what the folds over trackers and removals keep, `PlanInv` says of every plan that its removals
take whole clusters of downloads that are all done. It stands on the folds' lemmas and on
`CanSort`, that every finite set of paths has the order `InOrder` chooses.

*Schedule.* Three lemmas about `Due` and `Arm`: arming leaves a task that is not due then; an
anchor only moves on; and moving it on never makes a task due. The first needs the division of
time into days, the last its monotony. What is not under way when a task is armed can record
nothing earlier than the arming, so the anchor stays past it. For the restart: unless a write
has failed, the file holds what memory held (`Kept`), and arming what was not due leaves it
where it was. For what is left due: a task that has had its turn in a tick, and was not put
off, is not due at the tick's time (`Turned`). For the slots: all slots of a task are behind
its anchor, or behind a time at which it was armed and not due (`Settled`), by the configured
schedule and by the one the tick has read; so what it is found due for next is past them all.
That fails only for a tick that meets a task between the saving of its schedule and the arming,
the exception `OncePerSlot` makes.

*FollowUp.* An item is *open* while somebody still has to resolve it: a goroutine that has it
pending, or the batch. An open item has no refresh queued and no leaf refreshed, each
goroutine has only its own item, and the batch begins when all are done; so what is being
sent back was read before any refresh there has been, and a refreshed leaf is in nobody's
hands. For the restore: what is resolved and not failed has been accepted. For the reports:
one that went through is the item's only one, as only items whose report failed are left,
and the batch takes each of these once. For the dates: while a call writes
to an item, each of its leaves is yet to be written, being written, at its old date, or excused
(`Dating`), and whatever Jellyfin does to a date meanwhile excuses the leaf. The proof has any
number of items to a call; the run has one movie and one series.

*Downloads.* `Inv` relates what the pass read to the world as it has become. A download nobody
else has touched since the listing is listed, under its name, and is where it was or on seed
storage (`Steady`); what is in a queue now and was not when that was read came after the pass
began, so it had not been finished long enough to be settled (`Queued`); what an app confirmed, now or
before, is in its history (`Answered`); and every entry of the plan is a whole group of which
nothing listed shares files with anything outside (`PlanKept`). That `holdGroups` sees to the
last follows from the order of the names: whatever sorts between a folder and something in it
begins alike, so the walk does not stop too early. For the plan, by induction on the groups
placed (`Sound`, `Served`): `working` is what the drives held, plus what the moves so far bring,
less what they take, and each move had room when it was placed; a group has its move, or there
was no room for it, and there has been none since unless something left that drive, which is
why `NoneForgotten` does not count what leaves. It rests on lemmas about sums over finite
sets (`SumWithout`, `SumOfMore`, `SameSum`) and on `CanSort`, that a finite set can be ordered by
any order, total or not: names by `SortsBefore`, groups by `GoesBefore`, drives by `Fuller`.

*Orphans.* From the answers on, what is known covers all that was there when they were given
and still is: every download whose place is in `known`, or whose files are each inside
something there. A delete takes a file only if nothing known is above or below its entry.

*Planner.* Five invariants, of which the later use the earlier. `Typed`: each list holds what it
may (reclaims what is misplaced, fills what is leaving) and each entry heads from one role to the
other. `Parted`: what may move is planned, pending or to be looked at, and in one of these only.
`Accounts`: `working` is the first reading plus what all entries write less what they free,
`capacity` the same with only the earlier phases' frees, and each entry fits (`Fits`) by this
account, which adding an entry behind it cannot change; what is on a drive is on it
(`Accounted`), so nothing used is floored, and what is left is floored only where paths read
apart. `Spent`: what is left over has no room, or this round has planned something; a round that
goes on has planned an entry more than there were rounds, each entry is of another item, so
`MaxRounds` cannot cut the loop short. `Waiting`: what a batch leaves over has no room
(`AllocationStuck`), and while fills are looked at, either fewer reclaims have room than the
target, or those still to come will not make room for one (`FillsInTurn`).

For the allocation: what is placed one after another is a path of `search`'s tree (`Seatings`), what
fits side by side fits in any order with some of it there (`RoomWhenLoaded`), so by induction on the
candidates some leaf places just that (`SomeLeaf`) and the first leaf that places most places no
fewer. Conversely, where hot paths of a drive are alike, what was placed one after another fits
side by side (`SeatedTogether`), since the last has room only with all the others there and
the ceiling is the same for each (`InAnyOrder`). It is this that fails with two ceilings. The
folds of the model are brought to sequences of steps once (`Iterates`), and the proofs walk along
these.

Assumptions are those named in the modules: functions are total, plans give each entry a
phase, two tier paths and sizes, kinds of attempts are among the routes, every item has
leaves of its own, schedules are those the form lets through, a download's files are where
its content or save folder is, tiers have different names (which `ValidateTiers` sees to), the
hashes and paths of a removal are finitely many and no path has a NUL in it. For `Downloads`:
there are finitely many downloads, seed paths and files to begin with, names are character
codes, sizes and ceilings are natural numbers, and what is downloading is not complete. For `Planner`: what is read are
natural numbers, each item is on a configured path, and no tier aims above its ceiling
(`ValidateTiers` again). TLC evaluates them in every run.

Induction over data goes through `LeastElement`: every set of natural numbers that is not empty
has a least member, from which a fact that holds of 0 and passes from i to i + 1 holds up to any
n (`UpTo`). The library's own induction theorems take an operator as a parameter, which the
provers here cannot instantiate. What is sorted is a sequence chosen among the orderings of a
set (`InOrder`, `ReadyGroups`), since the library's `SetToSortSeq` is opaque to them.

Only model-checked: liveness (`RunEnds`, `LockFreed`), which the prover does not handle
under fairness. Every other property of a passing run is a theorem. The proofs' invariants were first checked by TLC as
invariants of the same instances.

## 6. Not modelled

* **History ledgers** beyond the fact that an append may fail: what one engine writes over
  another's appends is a disagreement recorded above.
* **Cutoff, link and tracker caches**: one service's last successful answer, replaced whole;
  their contents are inputs of `Planner` and `Removal`.
* **The library's `BuildInventory`** and `scoring`'s arithmetic: a join of the services' answers
  by path and a weighted sum; their results are `Planner`'s items.
* **Clients**: HTTP, JSON, retries of a login. Lost answers and failures are in every module
  that asks something.
* **Authentication and secrets**: sessions and login states in maps with expiry, and encrypted
  connections; nothing else in the system reads or changes them, and a restart forgets
  the former.
* **Configuration forms**: what the validations let through is assumed where it matters
  (`ValidateScheduler`, `ValidateTiers`, `ValidateTorrents`).
* **Disk usage**: `statfs` and the mount table; their results are inputs.
* **Pages, notifications, reports, connection checks, the screenshot fixtures**: output.
* Deleting an orphan inside the destination of a move qBittorrent has still under way: the
  delete does not ask for moves in flight, and `Orphans` has no moves.
* Daylight saving and a clock set back in `Schedule`; termination of `ResolveAndRefresh`, which
  its deadline gives.

What would come next: the ledger as a module of its own beside `ApplyGate`'s processes, and a
search that stops at its 50,000 nodes.
