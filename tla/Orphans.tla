------------------------------ MODULE Orphans -------------------------------
(***************************************************************************)
(* Orphaned storage: a scan asks the services what they know, walks the     *)
(* tiers' paths and publishes what nothing accounts for; a delete takes one *)
(* entry of that list, asks again, and removes it.  Between any two of      *)
(* their steps downloads are added, written, and removed, tiers are         *)
(* reconfigured, drives go away, requests fail, and Coldarr dies.           *)
(*                                                                          *)
(* A path is the sequence of its parts, and what is on disk is the files:   *)
(* a folder is there when a file is inside it.  Each tier has one path.     *)
(***************************************************************************)
EXTENDS Integers, Sequences, SequencesExt, FiniteSets

CONSTANTS
  Configs,    \* [tiers, qbit]: what may be configured
  Downloads,  \* [content, save, files]: what may be in qBittorrent; a magnet link has
              \* no content path and no files until its metadata is there
  Items,      \* paths the other services may know
  Strays,     \* files nothing accounts for
  Partial,    \* Partial[n]: what qBittorrent calls a file n it has not finished
  EventMax    \* bound on what others do, failures, and Coldarr dying

Tiers == UNION {c.tiers : c \in Configs}

NoPath == <<>>

\* A download's files are where it says its content is, or in its save folder.
ASSUME FilesAssumption ==
  \A d \in Downloads : /\ d.content \in Seq(STRING) /\ d.save \in Seq(STRING) /\ d.files \subseteq Seq(STRING)
                       /\ d.content = NoPath => d.files = {}
                       /\ \A f \in d.files : IF d.content = d.save THEN IsStrictPrefix(d.save, f) ELSE IsPrefix(d.content, f)
ASSUME PathsAssumption ==
  /\ Items \subseteq Seq(STRING) /\ Strays \subseteq Seq(STRING) /\ \A n \in DOMAIN Partial : Partial[n] \in STRING
  /\ \A t \in Tiers : t.path \in Seq(STRING) /\ t.downloads \in BOOLEAN
\* ValidateTiers: no two tiers have one name.
ASSUME ConfigsAssumption ==
  \A c \in Configs : c.qbit \in BOOLEAN /\ \A t, u \in c.tiers : t.name = u.name => t = u
ASSUME BoundsAssumption == EventMax \in Nat

VARIABLES
  config,    \* what is configured
  torrents,  \* the downloads qBittorrent has
  library,   \* the paths the other services know
  disk,      \* the files there are
  away,      \* the tier paths that fail their check
  snap, saved, \* the list, in memory and on disk
  doing,     \* who holds scanOrphansMu: "nothing", "scan" or "delete"
  at,        \* how far it has got
  cfg,       \* the configuration it works with
  known, listing, \* what it has been told is known; the downloads listed
  left, found, \* tiers to walk; what the scan has found
  victim,    \* what is to be deleted
  added, learned, \* downloads added, and paths the others know, since it asked
  undisturbed, \* nothing else has happened since the scan began
  events

world == <<config, torrents, library, disk, away>>
task  == <<doing, at, cfg, known, listing, left, found, victim>>
ghost == <<added, learned, undisturbed>>
vars  == <<world, snap, saved, task, ghost, events>>

Event == events < EventMax /\ events' = events + 1
Quiet == UNCHANGED events

\* The folder is there, and on its own drive if that is required.
CheckPath(p)   == p \notin away

Within(p, q)   == IsPrefix(q, p)
Under(p, q)    == IsStrictPrefix(q, p)
Unfinished(p)  == IF Last(p) \in DOMAIN Partial THEN [p EXCEPT ![Len(p)] = Partial[Last(p)]] ELSE p
NoCandidate    == [path |-> NoPath, tier |-> "none", downloads |-> FALSE]
NoConfig       == [tiers |-> {}, qbit |-> FALSE]

-----------------------------------------------------------------------------
(* orphans.go *)

\* Mutant of TopOf: the save folder, with all that is in it.
SaveOf(d, f) == d.save

\* The entry of its save folder that a file of a download is in.
TopOf(d, f) == SubSeq(f, 1, Len(d.save) + 1)

\* ancestorDirs: a folder with something known inside is gone into.
Opened(e) == \E k \in known : Under(k, e)

Folder(e) == \E f \in disk : Under(f, e)

Tracked(t, e) == e \in known \/ (t.downloads /\ \E k \in known : e = Unfinished(k))

Entries(t) == UNION {{SubSeq(f, 1, n) : n \in Len(t.path) + 1..Len(f)} : f \in {g \in disk : Under(g, t.path)}}

\* scanPath, scanDownloads: the topmost entries nothing accounts for; loose files
\* only in a download folder.
Leftovers(t) ==
  {e \in Entries(t) :
     /\ t.downloads \/ Folder(e)
     /\ ~Tracked(t, e) /\ ~(Folder(e) /\ Opened(e))
     /\ \A n \in Len(t.path) + 1..Len(e) - 1 : ~Tracked(t, SubSeq(e, 1, n)) /\ Opened(SubSeq(e, 1, n))}

\* A folder of its own, or the save folder.
HasFolder(d)   == d.content \notin {NoPath, d.save}
InSaveFolder(d) == d.content = d.save /\ d.content # NoPath

\* Mutant of InUse: only the entry itself.
InUseItself(p) == p \in known

InUse(p) == \E k \in known : Within(k, p) \/ Within(p, k)

-----------------------------------------------------------------------------
Init ==
  /\ config \in Configs
  /\ torrents \in SUBSET Downloads
  /\ library \in SUBSET Items
  /\ disk = (UNION {d.files : d \in torrents}) \cup Strays
  /\ away = {}
  /\ snap = {} /\ saved = {}
  /\ doing = "nothing" /\ at = "idle" /\ cfg = NoConfig
  /\ known = {} /\ listing = {} /\ left = {} /\ found = {} /\ victim = NoCandidate
  /\ added = {} /\ learned = {} /\ undisturbed = TRUE
  /\ events = 0

\* The whole list, in one rename; or what was there stays.
Save(list) ==
  \/ Quiet /\ saved' = list
  \/ Event /\ UNCHANGED saved

Over ==
  /\ doing' = "nothing" /\ at' = "idle" /\ cfg' = NoConfig
  /\ known' = {} /\ listing' = {} /\ left' = {} /\ found' = {} /\ victim' = NoCandidate
  /\ added' = {} /\ learned' = {} /\ undisturbed' = TRUE

\* scanOrphansNow, runScheduledScanOrphans
StartScan ==
  /\ doing = "nothing"
  /\ doing' = "scan" /\ at' = "library" /\ cfg' = config
  /\ undisturbed' = TRUE
  /\ Quiet
  /\ UNCHANGED <<world, snap, saved, known, listing, left, found, victim, added, learned>>

\* handleOrphanDelete, and DeleteDownload up to asking the services.
StartDelete(c) ==
  /\ doing = "nothing"
  /\ config.qbit
  /\ c \in snap /\ c.downloads
  /\ \E t \in config.tiers : /\ t.name = c.tier /\ t.downloads /\ t.allow
                             /\ Under(c.path, t.path) /\ CheckPath(t.path)
  /\ doing' = "delete" /\ at' = "library" /\ cfg' = config
  /\ victim' = c
  /\ Quiet
  /\ UNCHANGED <<world, snap, saved, known, listing, left, found, ghost>>

\* knownPaths: Radarr, Sonarr, Jellyfin and Lidarr first.
ReadLibrary ==
  /\ at = "library"
  /\ known' = library
  /\ learned' = {}
  /\ at' = IF cfg.qbit THEN "torrents" ELSE "known"
  /\ Quiet
  /\ UNCHANGED <<world, snap, saved, doing, cfg, listing, left, found, victim, added, undisturbed>>

\* addDownloads: qBittorrent's list; then the files of each that has no folder of
\* its own, unless it has been removed since.  One without a content path is skipped.
ReadTorrents ==
  /\ at = "torrents"
  /\ listing' = torrents
  /\ added' = {}
  /\ at' = "names"
  /\ Quiet
  /\ UNCHANGED <<world, snap, saved, doing, cfg, known, left, found, victim, learned, undisturbed>>

ReadFileNames ==
  /\ at = "names"
  /\ known' = known \cup {d.content : d \in {t \in listing : HasFolder(t)}}
                    \cup UNION {{TopOf(d, f) : f \in d.files} : d \in {t \in listing \cap torrents : InSaveFolder(t)}}
  /\ at' = "known"
  /\ Quiet
  /\ UNCHANGED <<world, snap, saved, doing, cfg, listing, left, found, victim, ghost>>

StartWalk ==
  /\ doing = "scan" /\ at = "known"
  /\ left' = cfg.tiers
  /\ at' = "walk"
  /\ Quiet
  /\ UNCHANGED <<world, snap, saved, doing, cfg, known, listing, found, victim, ghost>>

\* One tier's path, unless it fails its check, or holds downloads and there is no
\* qBittorrent to account for them.
Walk ==
  /\ at = "walk"
  /\ \E t \in left :
       /\ left' = left \ {t}
       /\ found' = IF ~CheckPath(t.path) \/ (t.downloads /\ ~cfg.qbit) THEN found
                   ELSE found \cup {[path |-> e, tier |-> t.name, downloads |-> t.downloads] : e \in Leftovers(t)}
  /\ Quiet
  /\ UNCHANGED <<world, snap, saved, doing, at, cfg, known, listing, victim, ghost>>

\* A list that cannot be saved is shown all the same.
Publish ==
  /\ at = "walk" /\ left = {}
  /\ snap' = found
  /\ Save(found)
  /\ Over
  /\ UNCHANGED world

There(p) == {f \in disk : Within(f, p) /\ ~\E t \in away : Within(p, t)}

Refuse ==
  /\ doing = "delete" /\ at = "known"
  /\ InUse(victim.path) \/ There(victim.path) = {}
  /\ Over
  /\ Quiet
  /\ UNCHANGED <<world, snap, saved>>

\* What it was takes it off the list; or some of it, and still on it.
RemoveAll ==
  /\ doing = "delete" /\ at = "known"
  /\ ~InUse(victim.path)
  /\ There(victim.path) # {}
  /\ \E gone \in SUBSET There(victim.path) :
       /\ disk' = disk \ gone
       /\ IF gone = There(victim.path)
          THEN /\ snap' = {c \in snap : c.path # victim.path}
               /\ Save(snap')
          ELSE Event /\ UNCHANGED <<snap, saved>>
  /\ Over
  /\ UNCHANGED <<config, torrents, library, away>>

\* A service that cannot be asked, a folder that cannot be read: nothing is
\* published, nothing deleted.
Fail ==
  /\ doing # "nothing"
  /\ Event
  /\ Over
  /\ UNCHANGED <<world, snap, saved>>

Crash ==
  /\ Event
  /\ snap' = saved
  /\ Over
  /\ UNCHANGED <<world, saved>>

-----------------------------------------------------------------------------
(* Everyone else *)

Meanwhile ==
  /\ Event
  /\ undisturbed' = (doing = "nothing")
  /\ UNCHANGED <<snap, saved, task>>

\* With files of it there already, or not yet; finished or not.
AddDownload ==
  /\ \E d \in Downloads \ torrents :
       /\ torrents' = torrents \cup {d}
       /\ added' = IF doing = "nothing" THEN added ELSE added \cup {d}
       /\ \E some \in SUBSET d.files : disk' = disk \cup {Unfinished(f) : f \in some}
  /\ UNCHANGED <<config, library, away, learned>>

\* Its files may stay, whole or unfinished.
RemoveDownload ==
  /\ \E d \in torrents, with \in BOOLEAN :
       /\ torrents' = torrents \ {d}
       /\ disk' = IF with THEN disk \ (d.files \cup {Unfinished(f) : f \in d.files}) ELSE disk
  /\ UNCHANGED <<config, library, away, added, learned>>

Learn ==
  /\ \E i \in Items :
       IF i \in library THEN library' = library \ {i} /\ UNCHANGED learned
       ELSE library' = library \cup {i} /\ learned' = (IF doing = "nothing" THEN learned ELSE learned \cup {i})
  /\ UNCHANGED <<config, torrents, disk, away, added>>

Reconfigure ==
  /\ config' \in Configs \ {config}
  /\ UNCHANGED <<torrents, library, disk, away, added, learned>>

DriveGoes ==
  /\ \E t \in Tiers : away' = IF t.path \in away THEN away \ {t.path} ELSE away \cup {t.path}
  /\ UNCHANGED <<config, torrents, library, disk, added, learned>>

Others == Meanwhile /\ (AddDownload \/ RemoveDownload \/ Learn \/ Reconfigure \/ DriveGoes)

Next ==
  \/ StartScan \/ (\E c \in snap : StartDelete(c))
  \/ ReadLibrary \/ ReadTorrents \/ ReadFileNames \/ StartWalk \/ Walk \/ Publish \/ Refuse \/ RemoveAll
  \/ Fail \/ Crash \/ Others

Spec == Init /\ [][Next]_vars

-----------------------------------------------------------------------------
Candidate == [path : Seq(STRING), tier : {t.name : t \in Tiers} \cup {"none"}, downloads : BOOLEAN]

TypeOK ==
  /\ config \in Configs /\ cfg \in Configs \cup {NoConfig}
  /\ torrents \subseteq Downloads /\ listing \subseteq Downloads /\ added \subseteq Downloads
  /\ library \subseteq Items /\ learned \subseteq Items
  /\ disk \subseteq Seq(STRING) /\ known \subseteq Seq(STRING) /\ away \subseteq {t.path : t \in Tiers}
  /\ snap \subseteq Candidate /\ saved \subseteq Candidate /\ found \subseteq Candidate /\ victim \in Candidate
  /\ left \subseteq Tiers
  /\ doing \in {"nothing", "scan", "delete"}
  /\ at \in {"idle", "library", "torrents", "names", "known", "walk"}
  /\ undisturbed \in BOOLEAN
  /\ events \in 0..EventMax

Deletes == doing = "delete" /\ doing' = "nothing"

\* What Coldarr deletes belongs to nobody: however old the list, no file of it is of a
\* download that qBittorrent had when it was asked and still has, and none is in
\* anything another service knew and still does (DeleteDownload, for every layout of
\* a download's files and every order of its steps and everyone else's).
DeletedIsNobodys ==
  [][Deletes => \A f \in disk \ disk' : /\ \A d \in torrents \ added : f \notin d.files
                                        /\ \A i \in library \ learned : ~Within(f, i)]_vars

\* downloads.md says Coldarr deletes only after checking that nothing has started using
\* an entry since; a file a download is still writing has another name than the one
\* qBittorrent gives, which the scan knows and the delete does not.
UnfinishedIsKept ==
  [][Deletes => \A f \in disk \ disk' : \A d \in torrents \ added : f \notin {Unfinished(g) : g \in d.files}]_vars

\* What there is of the services' now: a download's content, or else its entries of
\* its save folder; and what is in one, by its name or the one it has unfinished.
Claims ==
  library \cup {d.content : d \in {t \in torrents : HasFolder(t)}}
          \cup UNION {{SubSeq(f, 1, Len(d.save) + 1) : f \in d.files} : d \in {t \in torrents : InSaveFolder(t)}}

Occupied(p) == \E k \in Claims : Within(p, k) \/ Within(p, Unfinished(k))

\* When nothing else happens while it runs, a scan of a download folder that is itself
\* nobody's lists exactly what is no one's: every file is either in an entry of the
\* list or in what a download or an item occupies, and no entry is inside another.
ScanIsExact ==
  at = "walk" /\ left = {} /\ undisturbed =>
    \A t \in {u \in cfg.tiers : u.downloads /\ cfg.qbit /\ u.path \notin away /\ ~Occupied(u.path)} :
      LET listed == {c.path : c \in {d \in found : d.tier = t.name}}
      IN /\ \A f \in {g \in disk : Under(g, t.path) /\ ~Folder(g)} :
              Occupied(f) <=> ~\E p \in listed : Within(f, p)
         /\ \A p, q \in listed : ~Under(p, q)
=============================================================================
