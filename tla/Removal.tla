------------------------------ MODULE Removal -------------------------------
(***************************************************************************)
(* Removing downloads that are done seeding: what PlanRemovals picks out of *)
(* qBittorrent's list, what the Downloads page shows and Remove now         *)
(* confirms, and what Remove checks, deletes, verifies and logs, one        *)
(* removal after another, while people and apps go on adding, moving,       *)
(* re-checking and importing.                                               *)
(*                                                                          *)
(* A path is the sequence of its characters' codes (ContentPaths); <<>> is  *)
(* no path at all.                                                          *)
(***************************************************************************)
EXTENDS ContentPaths, FiniteSets, Functions

CONSTANTS
  Hashes,       \* torrents there may ever be
  Paths,        \* content paths, <<>> among them if one may have none
  Torrents,     \* what a torrent may be like when it is first listed
  Libraries,    \* what folders the libraries may have to begin with
  MinSeedDays,  \* SeedingConfig.MinSeedDays, 0 for ever
  Grace,        \* SeedingConfig.Grace
  Limit,        \* RemovalConfig.Limit
  UnimportedMax, \* bound on those not imported to begin with
  EventMax      \* bound on what others do

\* Where its content is; complete and in a seeding state; days seeded; whether
\* its trackers have been scanned and the days each asks for, 0 for ever; on a
\* downloads tier, under a label that says to move it, and in no app's queue.
Torrent == [path : Paths, seeding : BOOLEAN, seeded : Nat,
            scanned : BOOLEAN, asks : Seq(Nat), managed : BOOLEAN]

ASSUME NumbersAssumption == MinSeedDays \in Nat /\ Grace \in Nat /\ Limit \in Nat
ASSUME BoundsAssumption == UnimportedMax \in Nat /\ EventMax \in Nat
ASSUME LibrariesAssumption == Libraries \subseteq SUBSET Paths
ASSUME HashesAssumption == IsFiniteSet(Hashes)
\* No path holds a NUL, which is what the separator sorts as.
ASSUME PathsAssumption == Slash \in Nat \ {0} /\ Paths \subseteq Seq(Nat \ {0})
ASSUME TorrentsAssumption == Torrents \subseteq Torrent

VARIABLES
  torrents,     \* what qBittorrent lists: a function on those it has
  imported,     \* those their importer confirms
  library,      \* folders of Radarr's, Sonarr's and Lidarr's items
  at,           \* where the run, or the page before it, is
  shown,        \* what the page shows and a click confirms; NotAsked without one
  seen,         \* the listing the plan is made from
  seenLibrary,  \* the folders it was made from
  todo,         \* removals still to carry out
  removed,      \* what Coldarr had deleted, and whether with its files
  takenOut,     \* torrents others took out of qBittorrent
  log,          \* DownloadLog: removals logged
  refused,      \* removals whose check failed
  lost,         \* torrents some of whose files Coldarr deleted
  lostLibrary,  \* folders some of whose files Coldarr deleted
  events        \* what others did

world == <<torrents, imported, library, takenOut, events>>
run   == <<at, shown, seen, seenLibrary, todo>>
done  == <<removed, log, refused, lost, lostLibrary>>
vars  == <<world, run, done>>

\* No list of removals has an empty one.
NotAsked == {[hashes |-> {}, files |-> FALSE]}

-----------------------------------------------------------------------------
(* Paths and sharing *)

\* Mutant of SeparatorFirst: plain string order.
AsItIs(path) == path

\* The separator sorts lowest, so a folder's contents follow it directly.
SeparatorFirst(path) == [i \in DOMAIN path |-> IF path[i] = Slash THEN 0 ELSE path[i]]

InOrder(paths) ==
  CHOOSE order \in SetToSeqs(paths) :
    \A i, j \in DOMAIN order :
      i < j => SortsBefore(SeparatorFirst(order[i]), SeparatorFirst(order[j]))

\* One key of shareClusters' loop: close the folders that do not contain it,
\* and join the cluster of the outermost one left.
Place(open, path) ==
  LET containing == {i \in DOMAIN open.stack : IsUnder(path, open.stack[i])}
      stack == SubSeq(open.stack, 1, IF containing = {} THEN 0 ELSE Max(containing))
  IN [stack |-> Append(stack, path),
      of |-> [p \in DOMAIN open.of \cup {path} |->
                IF p # path THEN open.of[p]
                ELSE IF stack = <<>> THEN path ELSE open.of[stack[1]]]]

\* shareClusters, as sets of torrents.
ShareClusters(list) ==
  LET keys == {list[h].path : h \in DOMAIN list} \ {NoPath}
      of == FoldLeft(Place, [stack |-> <<>>, of |-> [p \in {} |-> p]], InOrder(keys)).of
  IN {{h \in DOMAIN list : list[h].path \in keys /\ of[list[h].path] = k} : k \in Range(of)}

-----------------------------------------------------------------------------
(* Seeding requirements *)

\* Mutant of Stricter: the last tracker's word counts.
LastWord(sofar, days) == [days |-> days, forever |-> days = 0, first |-> FALSE]

\* One host of requirement's loop.
Stricter(sofar, days) ==
  [days    |-> IF ~sofar.forever /\ days # 0 /\ (sofar.first \/ days > sofar.days) THEN days ELSE sofar.days,
   forever |-> sofar.forever \/ days = 0,
   first   |-> FALSE]

Requirement(asks) ==
  IF asks = <<>> THEN [days |-> MinSeedDays, forever |-> MinSeedDays = 0, first |-> FALSE]
  ELSE FoldLeft(Stricter, [days |-> 0, forever |-> FALSE, first |-> TRUE], asks)

Met(t) ==
  LET needed == Requirement(t.asks)
  IN t.scanned /\ ~needed.forever /\ t.seeded >= needed.days + Grace

-----------------------------------------------------------------------------
(* PlanRemovals *)

Removable(list, imports, folders) ==
  {h \in DOMAIN list : /\ list[h].managed /\ list[h].seeding /\ Met(list[h])
                       /\ h \in imports
                       /\ \A folder \in folders : ~Overlap(list[h].path, folder)}

\* Mutant of RemovalOf: the files go with the finished downloads.
RemovalWithFiles(list, cluster, finished) ==
  [hashes |-> cluster \cap finished,
   path   |-> InOrder({list[h].path : h \in cluster \cap finished})[1],
   files  |-> TRUE,
   seeded |-> Min({list[h].seeded : h \in cluster \cap finished})]

\* The finished members of a cluster; their files stay if it has others.
RemovalOf(list, cluster, finished) ==
  [hashes |-> cluster \cap finished,
   path   |-> InOrder({list[h].path : h \in cluster \cap finished})[1],
   files  |-> cluster \subseteq finished,
   seeded |-> Min({list[h].seeded : h \in cluster \cap finished})]

AllRemovals(list, finished) ==
  {RemovalOf(list, cluster, finished) :
     cluster \in {c \in ShareClusters(list) : c \cap finished # {}}}

Count(removals) == Cardinality(UNION {r.hashes : r \in ToSet(removals)})

\* A removal that does not fit is deferred, and smaller ones after it may.
WithinCap(taken, r) ==
  IF Count(taken) + Cardinality(r.hashes) > Limit THEN taken ELSE Append(taken, r)

\* Longest seeded first; names break ties, so any order of those may be.
Plans(list, imports, folders) ==
  LET all == AllRemovals(list, Removable(list, imports, folders))
  IN {FoldLeft(WithinCap, <<>>, order) :
        order \in {s \in SetToSeqs(all) :
                     \A i, j \in DOMAIN s : i < j => s[i].seeded >= s[j].seeded}}

\* What the page shows of a plan, and the click sends back.
RemovalList(removals) == {[hashes |-> r.hashes, files |-> r.files] : r \in ToSet(removals)}

-----------------------------------------------------------------------------
(* The page and the run *)

Init ==
  /\ \E listed \in SUBSET Hashes : torrents \in [listed -> Torrents]
  /\ imported \in {S \in SUBSET Hashes : Cardinality(Hashes \ S) <= UnimportedMax}
  /\ library \in Libraries
  /\ at = "idle"
  /\ shown = NotAsked
  /\ seen = [h \in {} |-> h] /\ seenLibrary = {} /\ todo = <<>>
  /\ removed = {} /\ takenOut = {} /\ log = {} /\ refused = {} /\ lost = {} /\ lostLibrary = {}
  /\ events = 0

\* The Downloads page, or a removal run, asks qBittorrent for its list.
ListTorrents(from, next) ==
  /\ at = from /\ at' = next
  /\ seen' = torrents
  /\ UNCHANGED <<world, shown, seenLibrary, todo, done>>

OpenPage == ListTorrents("idle", "rendering")
RemoveNow == ListTorrents("shown", "planning")
Scheduled == ListTorrents("idle", "planning")

\* The apps' imports and folders are read after the list.
ShowPage ==
  /\ at = "rendering" /\ at' = "shown"
  /\ \E plan \in Plans(seen, imported, library) : shown' = RemovalList(plan)
  /\ UNCHANGED <<world, seen, seenLibrary, todo, done>>

\* Mutant of PlanRun: it carries out whatever the plan is now.
PlanRunUnconfirmed ==
  /\ at = "planning"
  /\ seenLibrary' = library
  /\ todo' \in Plans(seen, imported, library)
  /\ at' = IF todo' = <<>> THEN "over" ELSE "checking"
  /\ UNCHANGED <<world, shown, seen, done>>

\* The plan now has to be the one that was confirmed, if there was one.
PlanRun ==
  /\ at = "planning"
  /\ seenLibrary' = library
  /\ \E plan \in Plans(seen, imported, library) :
       IF shown # NotAsked /\ RemovalList(plan) # shown
       THEN todo' = <<>>
       ELSE todo' = plan
  /\ at' = IF todo' = <<>> THEN "over" ELSE "checking"
  /\ UNCHANGED <<world, shown, seen, done>>

\* A request of the inventory's or the plan's fails: nothing is removed.
PlanFails ==
  /\ at \in {"rendering", "planning"} /\ at' = "over"
  /\ UNCHANGED <<world, shown, seen, seenLibrary, todo, done>>

-----------------------------------------------------------------------------
(* Remover.Remove, for the first of todo *)

Current == Head(todo)

NextRemoval ==
  /\ todo' = Tail(todo)
  /\ at' = IF Tail(todo) = <<>> THEN "over" ELSE "checking"
  /\ UNCHANGED <<shown, seen, seenLibrary>>

\* Still there, finished, where the plan found it and done seeding.
AsPlanned(h) ==
  /\ h \in DOMAIN torrents
  /\ torrents[h].seeding
  /\ torrents[h].path = Current.path
  /\ Met(torrents[h])

Check ==
  /\ at = "checking"
  /\ \A h \in Current.hashes : AsPlanned(h)
  /\ at' = "deleting"
  /\ UNCHANGED <<world, shown, seen, seenLibrary, todo, done>>

Refuse ==
  /\ at = "checking"
  /\ \E h \in Current.hashes : ~AsPlanned(h)
  /\ refused' = refused \cup {Current.hashes}
  /\ NextRemoval
  /\ UNCHANGED <<world, removed, log, lost, lostLibrary>>

\* A request fails with nothing done: before the delete or after it.
RequestFails ==
  /\ at \in {"checking", "deleting", "verifying"}
  /\ NextRemoval
  /\ UNCHANGED <<world, done>>

\* qBittorrent deletes the torrents, with the files under their paths if told.
Deleted ==
  LET gone == Current.hashes \cap DOMAIN torrents
      files == IF Current.files THEN {torrents[h].path : h \in gone} ELSE {}
      hit(path) == \E p \in files : Overlap(p, path)
  IN /\ torrents' = Restrict(torrents, DOMAIN torrents \ gone)
     /\ removed' = removed \cup {[hash |-> h, files |-> Current.files] : h \in gone}
     /\ lost' = lost \cup {h \in DOMAIN torrents \ gone : hit(torrents[h].path)}
     /\ lostLibrary' = lostLibrary \cup {folder \in library : hit(folder)}
     /\ UNCHANGED <<imported, library, takenOut, events, log, refused>>

Delete ==
  /\ at = "deleting" /\ at' = "verifying"
  /\ Deleted
  /\ UNCHANGED <<shown, seen, seenLibrary, todo>>

\* The answer is lost, not the request: deleted, and not logged.
DeleteUnanswered ==
  /\ at = "deleting"
  /\ Deleted
  /\ NextRemoval

\* "qBittorrent answers 200 to every delete".
DeleteIgnored ==
  /\ at = "deleting" /\ at' = "verifying"
  /\ UNCHANGED <<world, shown, seen, seenLibrary, todo, done>>

\* Mutant of Logged: it takes qBittorrent's word.
LoggedUnverified ==
  /\ at = "verifying"
  /\ log' = log \cup {[hash |-> h, files |-> Current.files] : h \in Current.hashes}
  /\ NextRemoval
  /\ UNCHANGED <<world, removed, refused, lost, lostLibrary>>

Logged ==
  /\ at = "verifying"
  /\ Current.hashes \cap DOMAIN torrents = {}
  /\ log' = log \cup {[hash |-> h, files |-> Current.files] : h \in Current.hashes}
  /\ NextRemoval
  /\ UNCHANGED <<world, removed, refused, lost, lostLibrary>>

StillListed ==
  /\ at = "verifying"
  /\ Current.hashes \cap DOMAIN torrents # {}
  /\ NextRemoval
  /\ UNCHANGED <<world, done>>

-----------------------------------------------------------------------------
(* Everybody else *)

Others ==
  /\ events < EventMax /\ events' = events + 1
  /\ UNCHANGED <<run, done>>

\* Added: by an app, or as a cross-seed of files that are already there.
Arrives ==
  /\ \E h \in Hashes \ DOMAIN torrents, t \in Torrents :
       torrents' = [g \in DOMAIN torrents \cup {h} |-> IF g = h THEN t ELSE torrents[g]]
  /\ Others /\ UNCHANGED <<imported, library, takenOut>>

Relocates ==
  /\ \E h \in DOMAIN torrents, p \in Paths \ {NoPath} :
       p # torrents[h].path /\ torrents' = [torrents EXCEPT ![h].path = p]
  /\ Others /\ UNCHANGED <<imported, library, takenOut>>

\* A re-check: not seeding for now, and its seeding time starts again.
Rechecks ==
  /\ \E h \in DOMAIN torrents, back \in BOOLEAN :
       torrents' = [torrents EXCEPT ![h].seeding = back, ![h].seeded = 0]
  /\ Others /\ UNCHANGED <<imported, library, takenOut>>

TakenOut ==
  /\ \E h \in DOMAIN torrents :
       /\ torrents' = Restrict(torrents, DOMAIN torrents \ {h})
       /\ takenOut' = takenOut \cup {h}
  /\ Others /\ UNCHANGED <<imported, library>>

Imports ==
  /\ \E h \in Hashes \ imported : imported' = imported \cup {h}
  /\ Others /\ UNCHANGED <<torrents, library, takenOut>>

LibraryTakes ==
  /\ \E p \in Paths \ ({NoPath} \cup library) : library' = library \cup {p}
  /\ Others /\ UNCHANGED <<torrents, imported, takenOut>>

-----------------------------------------------------------------------------

Next ==
  \/ OpenPage \/ ShowPage \/ RemoveNow \/ Scheduled \/ PlanRun \/ PlanFails
  \/ Check \/ Refuse \/ RequestFails
  \/ Delete \/ DeleteUnanswered \/ DeleteIgnored \/ Logged \/ StillListed
  \/ Arrives \/ Relocates \/ Rechecks \/ TakenOut \/ Imports \/ LibraryTakes

Spec == Init /\ [][Next]_vars

-----------------------------------------------------------------------------
(* Properties *)

\* What a download shares its files with is what shareClusters says: its cluster is
\* everything reachable from it through overlapping paths, and nothing else.
ClustersExact ==
  /\ \A c \in ShareClusters(seen) : \A S \in SUBSET c :
       S # {} => S = c \/ \E g \in S, h \in DOMAIN seen \ S : Overlap(seen[g].path, seen[h].path)
  /\ \A g, h \in DOMAIN seen :
       Overlap(seen[g].path, seen[h].path) => \E c \in ShareClusters(seen) : {g, h} \subseteq c

\* Nothing moved a download of the removal since it was checked.
InPlace == \A h \in Current.hashes \cap DOMAIN torrents : torrents[h].path = Current.path

\* "Never the files of a download that isn't being removed", and "never one any
\* library item lives inside, or that lives inside one": a download or a library
\* folder loses files only if it came, or was moved, after the plan's listing.
OnlyItsOwnFiles ==
  [][/\ \A h \in lost' \ lost :
          ~InPlace \/ h \notin DOMAIN seen \/ seen[h].path # torrents[h].path
     /\ \A folder \in lostLibrary' \ lostLibrary :
          ~InPlace \/ folder \notin seenLibrary]_vars

\* What is to be removed has met what each of its trackers asks for.
EveryTrackerSatisfied ==
  \A r \in ToSet(todo) : \A h \in r.hashes : LET t == seen[h] IN
    IF t.asks = <<>> THEN MinSeedDays # 0 /\ t.seeded >= MinSeedDays + Grace
    ELSE \A i \in DOMAIN t.asks : t.asks[i] # 0 /\ t.seeded >= t.asks[i] + Grace

\* Remove now removes only what its page showed, and deletes only the files
\* the page said it would.
ConfirmedOnly ==
  shown # NotAsked =>
    \A x \in removed : \E s \in shown : x.hash \in s.hashes /\ x.files = s.files

\* The log never claims a removal that did not happen, whatever qBittorrent
\* answered.
LogIsTrue == \A x \in log : x \in removed \/ x.hash \in takenOut

\* Gone, moved, not seeding, or seeding anew since the listing.
Changed(h) ==
  \/ h \notin DOMAIN torrents
  \/ torrents[h].path # seen[h].path
  \/ ~torrents[h].seeding
  \/ torrents[h].seeded < seen[h].seeded

\* "Downloads sharing files are removed together", after asking that each is
\* "still where the plan found it": one that is gets removed.
RemovedTogether ==
  [][\A hashes \in refused' \ refused : \E h \in hashes : Changed(h)]_vars
=============================================================================
