----------------------------- MODULE Downloads ------------------------------
(***************************************************************************)
(* Moving settled downloads to seed storage: a pass reads the drives, lists *)
(* qBittorrent and reads the apps' queues at the same time, asks who has    *)
(* imported what, decides which downloads are ready, plans where each group *)
(* of cross-seeds goes, and has them moved and labeled one after another.   *)
(* Meanwhile downloads are added, finish, are imported, moved, removed and  *)
(* switched to automatic management, files turn up, requests fail, and      *)
(* Coldarr dies.                                                            *)
(*                                                                          *)
(* A download's content is a name below its tier path; MoveRun and Settle   *)
(* have what happens while a move is under way, Removal what happens to one *)
(* that is done seeding.  Sizes and ceilings are in units of space.         *)
(***************************************************************************)
EXTENDS ContentPaths, FiniteSets, Functions

CONSTANTS
  Hot, Cold,   \* paths of the downloads tiers
  Disk,        \* Disk[p]: the device of a path
  Total,       \* Total[d]: its size
  Target, Max_, \* the ceilings of a seed path
  Names,       \* content below a tier path
  Size,        \* Size[n]
  Rules,       \* Rules[l]: "move", "ignore", "none", or the app that imports what moves
  SeedLabel,
  Connected,   \* apps Coldarr can ask
  AllowDisablingAutoTMM,
  SettleDays,
  Worlds,      \* what there may be to begin with, and how many events went before
  Arrivals,    \* what may be added
  Horizon,     \* bound on the days that pass
  EventMax     \* bound on what others do, failures, and Coldarr dying

Paths  == Hot \cup Cold
Labels == DOMAIN Rules
Apps   == Range(Rules) \ {"move", "ignore", "none"}

Incomplete == -2
Unknown    == -1  \* complete, and qBittorrent does not say since when

Torrent ==
  {t \in [path : Paths \cup {"elsewhere"}, name : Names, done : Nat \cup {Incomplete, Unknown},
          stage : {"downloading", "paused", "seeding", "moving", "checking", "error"},
          category : Labels, tags : SUBSET Labels, tmm : BOOLEAN] :
     t.stage = "downloading" => t.done = Incomplete}

\* A tier of each role, no path in two, and a target within the max, which is at
\* most the whole drive.
ValidateTiers ==
  /\ Hot # {} /\ Cold # {} /\ Hot \cap Cold = {} /\ IsFiniteSet(Cold)
  /\ \A p \in Cold : /\ Target[p] \in Nat \ {0} /\ Max_[p] \in Nat /\ Total[Disk[p]] \in Nat
                    /\ Target[p] <= Max_[p] /\ Max_[p] <= Total[Disk[p]]

\* A label has one rule, only one to move by names an app, and the seed label's is
\* to move and names none.  Zero settle days are read as the default.
ValidateTorrents ==
  /\ Rules \in [Labels -> {"move", "ignore", "none"} \cup Apps]
  /\ SeedLabel \in Labels /\ Rules[SeedLabel] = "move"
  /\ SettleDays \in Nat \ {0}

ASSUME TiersAssumption == ValidateTiers
ASSUME TorrentsAssumption == ValidateTorrents
ASSUME NamesAssumption == Slash \in Nat /\ Names \subseteq Seq(Nat) /\ Size \in [Names -> Nat]
ASSUME WorldsAssumption ==
  /\ \A w \in Worlds : /\ w.torrents \in [DOMAIN w.torrents -> Torrent] /\ IsFiniteSet(DOMAIN w.torrents)
                       /\ w.others \subseteq Paths \X Names /\ IsFiniteSet(w.others)
                       /\ w.imported \subseteq Apps \X DOMAIN w.torrents /\ w.queue \subseteq Apps \X DOMAIN w.torrents
                       /\ w.events \in Nat
  /\ \A a \in Arrivals : a.torrent \in Torrent /\ a.by \subseteq Apps
ASSUME BoundsAssumption == Horizon \in Nat /\ EventMax \in Nat

VARIABLES
  clock,     \* the day
  torrents,  \* what qBittorrent has, by hash
  files,     \* <<path, name>>: content there is
  queue,     \* <<app, hash>>: what an app has in its queue
  imported,  \* <<app, hash>>: what is in an app's history
  headed,    \* the entry qBittorrent is moving
  hidden,    \* paths not mounted into Coldarr where qBittorrent has them
  cache,     \* importcache: what apps have confirmed
  at,        \* how far the pass has got
  now,       \* the day it began
  usage,     \* usage[p], as it read it
  list, queued, read,  \* what it has listed, the hashes queued, and which of the two it has
  answers,   \* imports it has confirmed
  entries,   \* moves still to make
  relabels,  \* downloads to label when they are made
  since,     \* downloads added or moved by others since the listing
  wrong,     \* what has gone wrong with a move: "import", "apart", "onto"
  touched,   \* downloads moved or labeled by others, or added while a pass was on
  events

apps  == <<queue, imported>>
world == <<clock, torrents, files, apps, headed, hidden, touched>>
pass  == <<at, now, usage, list, queued, read, answers, entries, relabels>>
vars  == <<world, cache, pass, since, wrong, events>>

Exists(p, n) == <<p, n>> \in files /\ p \notin hidden
Used(d) == SumFunctionOnSet([f \in files |-> Size[f[2]]], {f \in files : f[1] \in Paths /\ Disk[f[1]] = d})

-----------------------------------------------------------------------------
(* classify.go *)

\* torrent.go; whatever a complete download does is seeding, being paused included.
Seeding(t)   == t.stage = "seeding"
Moving(t)    == t.stage \in {"moving", "checking"}
Stopped(t)   == t.stage \in {"paused", "error"}

\* Under one of the tiers' paths.
Located(t)   == t.path \in Paths

\* Given the seed label by somebody else, where it does not belong.
Mislabeled(t) == t.category = SeedLabel /\ t.path \notin Cold

LabelsOf(t)  == {t.category} \cup t.tags
Importers(t) == {Rules[l] : l \in LabelsOf(t)} \cap Apps
Complete(t)  == t.done # Incomplete

\* matchLabels: "never touch" wins over any label that says to move.
Managed(t) ==
  /\ Located(t)
  /\ \A l \in LabelsOf(t) : Rules[l] # "ignore"
  /\ \E l \in LabelsOf(t) : Rules[l] # "none"

\* Mutant of Active: the queues do not matter.
ActiveInQbit(h) == ~Seeding(list[h]) \/ ~Complete(list[h])

Active(h) == ~Seeding(list[h]) \/ ~Complete(list[h]) \/ h \in queued

Settled(t) == t.done # Unknown /\ now >= t.done + SettleDays

MayTouch(t) == t.tmm => AllowDisablingAutoTMM

\* Imports it takes to remove a download that is done seeding, or to move or relabel
\* one.
ImportChecks(h, met) ==
  LET t == list[h]
      touch == MayTouch(t) /\ IF t.path \in Cold THEN t.category # SeedLabel ELSE Settled(t)
  IN IF Managed(t) /\ ~Active(h) /\ (met \/ touch) THEN Importers(t) \X {h} ELSE {}

ClearToTouch(h) == MayTouch(list[h]) /\ Importers(list[h]) \X {h} \subseteq answers

\* classifyOne
State(h) ==
  LET t == list[h]
  IN IF ~Managed(t) THEN "ignored"
     ELSE IF Active(h) THEN "active"
     ELSE IF t.path \in Cold THEN "parked"
     ELSE IF t.done # Unknown /\ ~Settled(t) THEN "waiting"
     ELSE IF Settled(t) /\ ClearToTouch(h) /\ Exists(t.path, t.name) THEN "ready"
     ELSE "held"

Relabel(h) == State(h) = "parked" /\ list[h].category # SeedLabel /\ ClearToTouch(h)

Members(p, n) == {h \in DOMAIN list : list[h].path = p /\ list[h].name = n}
Groups(p)     == {list[h].name : h \in {g \in DOMAIN list : list[g].path = p}}

\* sort.Strings
InOrder(names) ==
  CHOOSE order \in SetToSeqs(names) :
    \A i, j \in DOMAIN order : i < j => SortsBefore(order[i], order[j])

\* Pairs of groups of which one holds the other's files: each path in order is
\* compared with those after it until they no longer begin with it.
NestedIn(p) ==
  LET keys == InOrder(Groups(p))
  IN {k \in (DOMAIN keys) \X (DOMAIN keys) :
        /\ k[1] < k[2]
        /\ \A i \in k[1] + 1..k[2] : IsPrefix(keys[k[1]], keys[i])
        /\ IsUnder(keys[k[2]], keys[k[1]])}

Nested(p) ==
  LET keys == InOrder(Groups(p))
  IN {keys[k[1]] : k \in NestedIn(p)} \cup {keys[k[2]] : k \in NestedIn(p)}

\* Mutant of HoldGroups: those ready do not wait for the rest.
HoldNested(p) == {n \in Groups(p) : n \notin Nested(p) /\ \E h \in Members(p, n) : State(h) = "ready"}

\* holdGroups: the groups of a path that move, whole.
HoldGroups(p) == {n \in Groups(p) : n \notin Nested(p) /\ \A h \in Members(p, n) : State(h) = "ready"}

-----------------------------------------------------------------------------
(* The inventory's other halves, and the plan *)

\* reservations: what downloads under way will still write to the drive of a path.
Reserved(p) ==
  LET under == {h \in DOMAIN list : /\ ~Complete(list[h]) /\ ~Stopped(list[h])
                                    /\ Located(list[h]) /\ Disk[list[h].path] = Disk[p]}
  IN SumFunctionOnSet([h \in DOMAIN list |-> Size[list[h].name]], under)

\* applyReservations: a path's usage as the plan sees it.
HeldBack == [p \in Paths |-> usage[p] + Reserved(p)]

\* findUnseen: finished downloads are listed there and none can be seen.
Unseen ==
  {p \in Paths : LET there == {h \in DOMAIN list : list[h].path = p /\ Complete(list[h]) /\ Seeding(list[h])}
                 IN there # {} /\ \A h \in there : ~Exists(p, list[h].name)}

FinishedOn(e) == LET days == {list[h].done : h \in e.hashes} IN CHOOSE d \in days : \A o \in days : d >= o

\* readyGroups: longest finished first, then largest.
GoesBefore(e, f) ==
  \/ FinishedOn(e) < FinishedOn(f)
  \/ FinishedOn(e) = FinishedOn(f) /\ Size[e.name] > Size[f.name]

ReadyGroups(leave) ==
  LET ready == UNION {{[from |-> p, to |-> p, name |-> n, hashes |-> {h \in Members(p, n) : State(h) = "ready"}] : n \in HoldGroups(p)} : p \in Hot}
  IN CHOOSE order \in SetToSeqs({e \in ready : ~(e.hashes \subseteq leave)}) :
       \A i, j \in DOMAIN order : i < j => ~GoesBefore(order[j], order[i])

Fits(working, p, size, ceiling) == working[p] + size <= ceiling /\ working[p] + size <= Total[Disk[p]]

Fuller(working, p, q) == working[p] * Total[Disk[q]] > working[q] * Total[Disk[p]]

Seats(working, e, ceilings) ==
  {p \in Cold \ Unseen : Fits(working, p, Size[e.name], ceilings[p]) /\ ~Exists(p, e.name)}

Fullest(working, seats) == CHOOSE p \in seats : \A q \in seats : ~Fuller(working, q, p)

\* Mutant of Shift: a drive's other paths do not notice.
ShiftPath(working, p, size) == [working EXCEPT ![p] = @ + size]

\* Volumes.Apply
Shift(working, p, size) ==
  [q \in DOMAIN working |-> IF Disk[q] = Disk[p] THEN working[q] + size ELSE working[q]]

\* Mutant of Seated: a group that does not fit ends the plan.
SeatedInOrder(sofar, e) ==
  LET under == Seats(sofar.working, e, Target)
      seats == IF under # {} THEN under ELSE Seats(sofar.working, e, Max_)
  IN IF seats = {} \/ sofar.full THEN [sofar EXCEPT !.full = TRUE]
     ELSE LET p == Fullest(sofar.working, seats)
          IN [working |-> Shift(Shift(sofar.working, e.from, -Size[e.name]), p, Size[e.name]),
              moves   |-> Append(sofar.moves, [e EXCEPT !.to = p]), full |-> FALSE]

\* One group: the fullest drive under its target, or failing that under its max,
\* where nothing has the name already.
Seated(sofar, e) ==
  LET under == Seats(sofar.working, e, Target)
      seats == IF under # {} THEN under ELSE Seats(sofar.working, e, Max_)
  IN IF seats = {} THEN sofar
     ELSE LET p == Fullest(sofar.working, seats)
          IN [working |-> Shift(Shift(sofar.working, e.from, -Size[e.name]), p, Size[e.name]),
              moves   |-> Append(sofar.moves, [e EXCEPT !.to = p]), full |-> FALSE]

Plan(leave) ==
  FoldLeft(Seated, [working |-> HeldBack, moves |-> <<>>, full |-> FALSE],
           ReadyGroups(leave)).moves

-----------------------------------------------------------------------------
NoList  == [h \in {} |-> h]
NoEntry == [from |-> "nowhere", to |-> "nowhere", name |-> NoPath, hashes |-> {}]

Init ==
  /\ clock = SettleDays
  /\ \E w \in Worlds : /\ torrents = w.torrents
                       /\ files = {<<t.path, t.name>> : t \in {u \in Range(w.torrents) : Complete(u)}} \cup w.others
                       /\ queue = w.queue
                       /\ imported = w.imported
                       /\ hidden = w.hidden
                       /\ events = w.events
                       /\ touched = {h \in DOMAIN w.torrents : Mislabeled(w.torrents[h])}
  /\ headed = NoEntry
  /\ cache = {}
  /\ at = "idle"
  /\ now = 0
  /\ usage = [p \in Paths |-> 0]
  /\ list = NoList /\ queued = {} /\ read = {}
  /\ answers = {}
  /\ entries = <<>>
  /\ relabels = {}
  /\ since = {}
  /\ wrong = {}

Event == events < EventMax /\ events' = events + 1
Quiet == UNCHANGED events

\* A pass that is over, or given up, forgets what it knew.
Over ==
  /\ at' = "idle" /\ now' = 0 /\ usage' = [p \in Paths |-> 0] /\ list' = NoList /\ queued' = {}
  /\ read' = {} /\ answers' = {} /\ entries' = <<>> /\ relabels' = {}
  /\ since' = {}

\* checkPaths
BuildDownloadsInventory ==
  /\ at = "idle"
  /\ at' = "reading"
  /\ now' = clock
  /\ usage' = [p \in Paths |-> Used(Disk[p])]
  /\ Quiet
  /\ UNCHANGED <<world, cache, list, queued, read, answers, entries, relabels, since, wrong>>

ListTorrents ==
  /\ at = "reading" /\ "list" \notin read
  /\ list' = torrents
  /\ since' = {}
  /\ read' = read \cup {"list"}
  /\ Quiet
  /\ UNCHANGED <<world, cache, at, now, usage, queued, answers, entries, relabels, wrong>>

\* The hashes in an app's queue, all its pages.
QueueDownloadIDs(a) == {q[2] : q \in {r \in queue : r[1] = a}}

ReadQueues ==
  /\ at = "reading" /\ "queues" \notin read
  /\ queued' = UNION {QueueDownloadIDs(a) : a \in Connected}
  /\ read' = read \cup {"queues"}
  /\ Quiet
  /\ UNCHANGED <<world, cache, at, now, usage, list, answers, entries, relabels, since, wrong>>

\* importcache: what was confirmed before; the app's history, for this hash.
Remembered(keys) == keys \cap cache
InHistory(keys)  == keys \cap imported

Keep == {key \in cache : key[2] \in DOMAIN list}

\* importResults: from the cache, or asked of the app; what was confirmed is
\* remembered, and when anything was asked the cache is pruned to the list.  The
\* downloads in met are done seeding (Removal has what that takes).
AskImports(met) ==
  /\ at = "reading" /\ read = {"list", "queues"}
  /\ LET needed == {key \in UNION {ImportChecks(h, h \in met) : h \in DOMAIN list} : key[1] \in Connected}
         ask == needed \ cache
     IN \E failed \in SUBSET ask :
          /\ IF failed = {} THEN Quiet ELSE Event
          /\ answers' = Remembered(needed) \cup InHistory(ask \ failed)
          /\ cache' = IF ask = {} THEN cache ELSE Keep \cup {key \in InHistory(ask \ failed) : key[2] \in DOMAIN list}
  /\ at' = "planning"
  /\ UNCHANGED <<world, now, usage, list, queued, read, entries, relabels, since, wrong>>

\* What is to be removed is left where it is; nothing to do ends it.
BuildDownloadsPlan(leave) ==
  /\ at = "planning"
  /\ LET moves == Plan(leave)
         labels == {h \in DOMAIN list : Relabel(h)}
     IN IF moves = <<>> /\ labels = {} THEN Over
        ELSE /\ entries' = moves
             /\ relabels' = labels
             /\ at' = "planned"
             /\ UNCHANGED <<now, usage, list, queued, read, answers, since>>
  /\ Quiet
  /\ UNCHANGED <<world, cache, wrong>>

InFlight == \E t \in Range(torrents) : Moving(t)

\* Moves that qBittorrent still has under way refuse the run.
StartDownloadsApply ==
  /\ at = "planned"
  /\ IF InFlight THEN Over
     ELSE at' = "running" /\ UNCHANGED <<now, usage, list, queued, read, answers, entries, relabels, since>>
  /\ Quiet
  /\ UNCHANGED <<world, cache, wrong>>

-----------------------------------------------------------------------------
(* executor.go *)

Label(hashes) ==
  [h \in DOMAIN torrents |-> IF h \in hashes THEN [torrents[h] EXCEPT !.category = SeedLabel] ELSE torrents[h]]

\* SetAutoManagement, to off
Manual(hashes) ==
  [h \in DOMAIN torrents |-> IF h \in hashes THEN [torrents[h] EXCEPT !.tmm = FALSE] ELSE torrents[h]]

\* Automatic management switched on since the plan stops a move.
Movable(e) ==
  \A h \in e.hashes : /\ h \in DOMAIN torrents
                      /\ Complete(torrents[h]) /\ Seeding(torrents[h])
                      /\ torrents[h].path = e.from
                      /\ torrents[h].tmm => list[h].tmm

SharesFiles(n, m) == n = m \/ IsUnder(n, m) \/ IsUnder(m, n)

\* Ghost: what is wrong with a move at the moment it is asked for.
WrongWith(e) ==
  {what \in {"import", "apart", "onto"} :
     \/ what = "import" /\ \E h \in e.hashes \ since : \/ \E a \in Connected : <<a, h>> \in queue
                                                      \/ ~(Importers(list[h]) \X {h} \subseteq imported)
     \/ what = "apart" /\ \E h \in DOMAIN torrents \ (e.hashes \cup since) :
                            torrents[h].path = e.from /\ SharesFiles(torrents[h].name, e.name)
     \/ what = "onto" /\ <<e.to, e.name>> \in files}

\* Mutant of Asked: the seed label is given along with the request.
AskedAndLabeled(e) ==
  [h \in DOMAIN torrents |->
     IF h \in e.hashes THEN [torrents[h] EXCEPT !.stage = "moving", !.tmm = FALSE, !.category = SeedLabel]
     ELSE torrents[h]]

Asked(e) ==
  [h \in DOMAIN torrents |->
     IF h \in e.hashes THEN [torrents[h] EXCEPT !.stage = "moving", !.tmm = FALSE] ELSE torrents[h]]

\* Executor.Move
Move ==
  /\ at = "running" /\ entries # <<>>
  /\ LET e == Head(entries)
     IN /\ Movable(e)
        /\ torrents' = Asked(e)
        /\ headed' = e
        /\ wrong' = wrong \cup WrongWith(e)
  /\ at' = "landing"
  /\ Quiet
  /\ UNCHANGED <<clock, files, apps, hidden, touched, cache, now, usage, list, queued, read, answers, entries,
                 relabels, since>>

\* A move not started - a member no longer as planned, no room by now, a request
\* refused, perhaps only the second - leaves the rest to be made.
SkipMove ==
  /\ at = "running" /\ entries # <<>>
  /\ LET e == Head(entries)
     IN \/ ~Movable(e) /\ Quiet /\ UNCHANGED torrents
        \/ Movable(e) /\ Event /\ torrents' \in {torrents, Manual(e.hashes)}
  /\ entries' = Tail(entries)
  /\ UNCHANGED <<clock, files, apps, headed, hidden, touched, cache, at, now, usage, list, queued, read, answers,
                 relabels, since, wrong>>

Confirmed(e) ==
  /\ \A h \in e.hashes : /\ h \in DOMAIN torrents
                         /\ Complete(torrents[h]) /\ Seeding(torrents[h])
                         /\ torrents[h].path = e.to
  /\ Exists(e.to, e.name)

\* Labeling may fail; the move is made all the same.
Landed ==
  /\ at = "landing" /\ Confirmed(Head(entries))
  /\ \/ Quiet /\ torrents' = Label(Head(entries).hashes)
     \/ Event /\ UNCHANGED torrents
  /\ entries' = Tail(entries)
  /\ at' = "running"
  /\ UNCHANGED <<clock, files, apps, headed, hidden, touched, cache, now, usage, list, queued, read, answers,
                 relabels, since, wrong>>

\* One that failed, or was not confirmed in time, is the last.
LandingFails ==
  /\ at = "landing"
  /\ IF headed = NoEntry /\ ~Confirmed(Head(entries)) THEN Quiet ELSE Event
  /\ entries' = <<>>
  /\ at' = "running"
  /\ UNCHANGED <<world, cache, now, usage, list, queued, read, answers, relabels, since, wrong>>

\* Executor.Relabel, without looking again.
RelabelNext ==
  /\ at = "running" /\ entries = <<>>
  /\ \E h \in relabels :
       /\ relabels' = relabels \ {h}
       /\ LET managed == {h} \cap {g \in DOMAIN list : list[g].tmm}
          IN \/ Quiet /\ torrents' = [g \in DOMAIN torrents |->
                                       IF g = h THEN [Label({h})[g] EXCEPT !.tmm = @ /\ managed = {}] ELSE torrents[g]]
             \/ Event /\ torrents' \in {torrents, Manual(managed)}
  /\ UNCHANGED <<clock, files, apps, headed, hidden, touched, cache, at, now, usage, list, queued, read, answers,
                 entries, since, wrong>>

EndRun ==
  /\ at = "running" /\ entries = <<>> /\ relabels = {}
  /\ Over
  /\ Quiet
  /\ UNCHANGED <<world, cache, wrong>>

\* Coldarr dies, or cannot read what a pass needs.
Crash ==
  /\ at # "idle"
  /\ Event
  /\ Over
  /\ UNCHANGED <<world, cache, wrong>>

-----------------------------------------------------------------------------
(* Everyone else *)

Arrive(h, p, n) ==
  {f \in files : ~(f[1] = torrents[h].path /\ (f[2] = n \/ IsUnder(f[2], n)))}
  \cup {<<p, f[2]>> : f \in {g \in files : g[1] = torrents[h].path /\ (g[2] = n \/ IsUnder(g[2], n))}}

\* qBittorrent finishes a move, or gives it up.
MoveLands ==
  /\ headed # NoEntry
  /\ LET there == {h \in headed.hashes : h \in DOMAIN torrents /\ torrents[h].stage = "moving"}
     IN /\ torrents' = [h \in DOMAIN torrents |->
                          IF h \in there THEN [torrents[h] EXCEPT !.stage = "seeding", !.path = headed.to] ELSE torrents[h]]
        /\ files' = IF there = {} THEN files ELSE Arrive(CHOOSE h \in there : TRUE, headed.to, headed.name)
  /\ headed' = NoEntry
  /\ Quiet
  /\ UNCHANGED <<clock, apps, hidden, touched, cache, pass, since, wrong>>

MoveGivesUp ==
  /\ headed # NoEntry
  /\ Event
  /\ torrents' = [h \in DOMAIN torrents |->
                    IF h \in headed.hashes /\ torrents[h].stage = "moving"
                    THEN [torrents[h] EXCEPT !.stage = "seeding"] ELSE torrents[h]]
  /\ headed' = NoEntry
  /\ UNCHANGED <<clock, files, apps, hidden, touched, cache, pass, since, wrong>>

\* An app, or someone, adds a download, in the place of one just removed if that is
\* how it is; an app's history keeps what was.  What is there already, as a cross-seed's
\* content is, has been complete since it was added.
Adds ==
  /\ Event
  /\ \E a \in Arrivals :
       /\ torrents' = [h \in DOMAIN torrents \cup {a.hash} |->
                         IF h = a.hash THEN [a.torrent EXCEPT !.done = IF @ \in Nat THEN clock ELSE @] ELSE torrents[h]]
       /\ queue' = {q \in queue : q[2] # a.hash} \cup (a.by \X {a.hash})
       /\ since' = IF at = "idle" THEN since ELSE since \cup {a.hash}
       /\ touched' = IF at = "idle" /\ ~Mislabeled(a.torrent) THEN touched ELSE touched \cup {a.hash}
       /\ files' = IF Complete(a.torrent) THEN files \cup {<<a.torrent.path, a.torrent.name>>} ELSE files
  /\ UNCHANGED <<clock, imported, headed, hidden, cache, pass, wrong>>

Completes ==
  /\ \E h \in DOMAIN torrents :
       /\ ~Complete(torrents[h])
       /\ torrents' = [torrents EXCEPT ![h].done = clock, ![h].stage = "seeding"]
       /\ files' = files \cup {<<torrents[h].path, torrents[h].name>>}
  /\ Quiet
  /\ UNCHANGED <<clock, apps, headed, hidden, touched, cache, pass, since, wrong>>

Imports ==
  /\ \E q \in queue :
       /\ q[2] \in DOMAIN torrents /\ Complete(torrents[q[2]])
       /\ queue' = queue \ {q}
       /\ imported' = imported \cup {q}
  /\ Quiet
  /\ UNCHANGED <<clock, torrents, files, headed, hidden, touched, cache, pass, since, wrong>>

\* With its files or without.
Removes ==
  /\ Event
  /\ \E h \in DOMAIN torrents, with \in BOOLEAN :
       /\ torrents' = [g \in DOMAIN torrents \ {h} |-> torrents[g]]
       /\ files' = IF with THEN files \ {<<torrents[h].path, torrents[h].name>>} ELSE files
       /\ queue' = {q \in queue : q[2] # h}
  /\ UNCHANGED <<clock, imported, headed, hidden, touched, cache, pass, since, wrong>>

\* Someone moves a download, labels it, or turns automatic management on.
Meddles ==
  /\ Event
  /\ \E h \in {g \in DOMAIN torrents : Complete(torrents[g]) /\ torrents[g].stage = "seeding"} :
       /\ \/ \E p \in Paths \ {torrents[h].path} :
               /\ torrents' = [torrents EXCEPT ![h].path = p]
               /\ files' = Arrive(h, p, torrents[h].name)
          \/ \E l \in Labels : torrents' = [torrents EXCEPT ![h].category = l] /\ UNCHANGED files
          \/ torrents' = [torrents EXCEPT ![h].tmm = TRUE] /\ UNCHANGED files
          \/ torrents' = [torrents EXCEPT ![h].stage = "checking"] /\ UNCHANGED files
       /\ since' = IF at = "idle" THEN since ELSE since \cup {h}
       /\ touched' = touched \cup {h}
  /\ UNCHANGED <<clock, apps, headed, hidden, cache, pass, wrong>>

Checked ==
  /\ \E h \in DOMAIN torrents : /\ torrents[h].stage = "checking"
                                /\ torrents' = [torrents EXCEPT ![h].stage = "seeding"]
  /\ Quiet
  /\ UNCHANGED <<clock, files, apps, headed, hidden, touched, cache, pass, since, wrong>>

\* Something else puts a file or folder where downloads go.
FileAppears ==
  /\ Event
  /\ \E p \in Cold, n \in Names : files' = files \cup {<<p, n>>}
  /\ UNCHANGED <<clock, torrents, apps, headed, hidden, touched, cache, pass, since, wrong>>

Advance ==
  /\ clock < Horizon
  /\ clock' = clock + 1
  /\ Quiet
  /\ UNCHANGED <<torrents, files, apps, headed, hidden, touched, cache, pass, since, wrong>>

Others ==
  \/ MoveLands \/ MoveGivesUp \/ Adds \/ Completes \/ Imports \/ Removes \/ Meddles \/ Checked \/ FileAppears \/ Advance

Next ==
  \/ BuildDownloadsInventory \/ ListTorrents \/ ReadQueues
  \/ \E met \in SUBSET DOMAIN list : AskImports(met)
  \/ \E leave \in SUBSET {h \in DOMAIN list : State(h) = "ready"} : BuildDownloadsPlan(leave)
  \/ StartDownloadsApply \/ Move \/ SkipMove \/ Landed \/ LandingFails \/ RelabelNext \/ EndRun \/ Crash
  \/ Others

Spec == Init /\ [][Next]_vars

-----------------------------------------------------------------------------
(* Properties *)

Entry(hashes) == [from : Hot, to : Cold, name : Names, hashes : SUBSET hashes]

TypeOK ==
  /\ clock \in Nat /\ now \in Nat
  /\ at \in {"idle", "reading", "planning", "planned", "running", "landing"}
  /\ torrents \in [DOMAIN torrents -> Torrent] /\ IsFiniteSet(DOMAIN torrents)
  /\ list \in [DOMAIN list -> Torrent] /\ IsFiniteSet(DOMAIN list)
  /\ files \subseteq (Paths \cup {"elsewhere"}) \X Names /\ IsFiniteSet(files)
  /\ headed = NoEntry \/ headed \in Entry(headed.hashes)
  /\ usage \in [Paths -> Nat]
  /\ read \subseteq {"list", "queues"}
  /\ entries \in Seq(Entry(DOMAIN list))
  /\ relabels \subseteq DOMAIN list

\* Torrents that share files only ever move together: no move is asked for while a
\* torrent the pass listed, and nobody has touched since, would be left behind
\* with files of it (holdGroups, for every arrangement of cross-seeds, folders inside
\* folders, and siblings whose names sort between them).
MovedTogether == "apart" \notin wrong

\* No download is moved that an app still has in its queue, or that the app which
\* imports it has not imported: with the queue, the list, the answers and the
\* remembered answers all read at different times, and downloads removed and
\* added again in between.
ImportsUnbroken == "import" \notin wrong

\* What lands on a drive - all the plan's moves up to any of them, besides what was
\* there and what is still being downloaded to it - stays within the max of every
\* path it lands on, two paths of one drive included.
WithinMax ==
  at = "planned" =>
    \A k \in DOMAIN entries :
      LET d == Disk[entries[k].to]
          coming == {h \in DOMAIN list : list[h].path \in Paths /\ Disk[list[h].path] = d /\ list[h].stage = "downloading"}
          onto == {j \in 1..k : Disk[entries[j].to] = d}
          off == {j \in 1..k - 1 : Disk[entries[j].from] = d}
          size == [j \in DOMAIN entries |-> Size[entries[j].name]]
      IN usage[entries[k].to] + SumFunctionOnSet([h \in DOMAIN list |-> Size[list[h].name]], coming)
           + SumFunctionOnSet(size, onto) - SumFunctionOnSet(size, off) <= Max_[entries[k].to]

\* What is ready and not planned, nor left to be removed, has nowhere to go: with
\* every move of the plan made, and before anything has left a drive that is both left
\* and filled, no seed path could still take it.
NoneForgotten ==
  at = "planning" =>
    LET moves == Plan({})
        size == [j \in DOMAIN moves |-> Size[moves[j].name]]
        after(p) == HeldBack[p] + SumFunctionOnSet(size, {j \in DOMAIN moves : Disk[moves[j].to] = Disk[p]})
    IN \A p \in Hot : \A n \in HoldGroups(p) :
         \/ \E j \in DOMAIN moves : moves[j].from = p /\ moves[j].name = n
         \/ \A c \in Cold \ Unseen : after(c) + Size[n] > Max_[c] \/ Exists(c, n)

\* The seed label is given to what is on seed storage and to nothing else: a
\* download that only Coldarr labeled is there, whatever of the move or the labels
\* failed and whenever Coldarr died.
SeedLabelTrue ==
  \A h \in DOMAIN torrents \ touched : torrents[h].category = SeedLabel => torrents[h].path \in Cold

\* plan.go says a download never moves onto a file or folder already at the same
\* name; the plan looks, the move does not look again.
NeverOntoExisting == "onto" \notin wrong
=============================================================================
