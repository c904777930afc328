--------------------------- MODULE OrphansProofs ----------------------------
(***************************************************************************)
(* What is deleted as an orphan belongs to nobody, and what an undisturbed   *)
(* scan lists is exactly what is no one's, proved for any downloads, any     *)
(* tiers, any suffix and any number of outside events.                       *)
(***************************************************************************)
EXTENDS Orphans, TLAPS, WellFoundedInduction

USE DEF CheckPath, Save, HasFolder, InSaveFolder

\* What the delete will compare against has a download in it.
Accounted(d) ==
  /\ HasFolder(d) => d.content \in known
  /\ InSaveFolder(d) => \A f \in d.files : TopOf(d, f) \in known

\* What has been there since it was asked for is known.
AskedInv ==
  /\ doing = "nothing" <=> at = "idle"
  /\ doing = "delete" => cfg.qbit
  /\ at = "walk" => doing = "scan"
  /\ at \in {"torrents", "names"} => cfg.qbit
  /\ at \in {"torrents", "names", "known", "walk"} => library \ learned \subseteq known
  /\ at = "names" => torrents \ added \subseteq listing
  /\ at \in {"known", "walk"} /\ cfg.qbit => \A d \in torrents \ added : Accounted(d)

IInv == TypeOK /\ AskedInv

-----------------------------------------------------------------------------
(* Paths *)

\* Of two entries that hold a file one holds the other.
LEMMA PrefixesCompare ==
  ASSUME NEW p \in Seq(STRING), NEW q \in Seq(STRING), NEW f \in Seq(STRING), IsPrefix(p, f), IsPrefix(q, f)
  PROVE  IsPrefix(p, q) \/ IsPrefix(q, p)
<1>1. ASSUME NEW a \in Seq(STRING), NEW b \in Seq(STRING), IsPrefix(a, f), IsPrefix(b, f), Len(a) <= Len(b)
      PROVE  IsPrefix(a, b)
  <2>1. /\ Len(a) \in Nat /\ Len(b) \in Nat /\ Len(f) \in Nat
        /\ Len(a) <= Len(f) /\ Len(b) <= Len(f)
        /\ SubSeq(a, 1, Len(a)) = SubSeq(f, 1, Len(a)) /\ SubSeq(b, 1, Len(b)) = SubSeq(f, 1, Len(b))
    BY <1>1 DEF IsPrefix
  <2>2. \A i \in 1..Len(a) : a[i] = f[i]
    <3>1. \A i \in 1..Len(a) : SubSeq(a, 1, Len(a))[i] = a[i] /\ SubSeq(f, 1, Len(a))[i] = f[i]
      BY <2>1
    <3>. QED  BY <2>1, <3>1
  <2>3. \A i \in 1..Len(b) : b[i] = f[i]
    <3>1. \A i \in 1..Len(b) : SubSeq(b, 1, Len(b))[i] = b[i] /\ SubSeq(f, 1, Len(b))[i] = f[i]
      BY <2>1
    <3>. QED  BY <2>1, <3>1
  <2>4. \A i \in 1..Len(a) : a[i] = b[i]
    BY <1>1, <2>1, <2>2, <2>3
  <2>5. SubSeq(a, 1, Len(a)) = SubSeq(b, 1, Len(a))
    BY <1>1, <2>1, <2>4
  <2>. QED  BY <1>1, <2>5 DEF IsPrefix
<1>2. Len(p) <= Len(q) \/ Len(q) <= Len(p)
  OBVIOUS
<1>. QED  BY <1>1, <1>2

\* The entry of a folder that a file is in.
LEMMA TopHolds ==
  ASSUME NEW d \in Downloads, d.content = d.save, NEW f \in d.files
  PROVE  TopOf(d, f) \in Seq(STRING) /\ IsPrefix(TopOf(d, f), f)
<1>1. d.save \in Seq(STRING) /\ f \in Seq(STRING) /\ IsStrictPrefix(d.save, f)
  BY FilesAssumption
<1>2. Len(d.save) <= Len(f) /\ SubSeq(d.save, 1, Len(d.save)) = SubSeq(f, 1, Len(d.save)) /\ d.save # f
  BY <1>1 DEF IsStrictPrefix, IsPrefix
<1>3. Len(d.save) # Len(f)
  <2>1. SUFFICES ASSUME Len(d.save) = Len(f) PROVE FALSE
    OBVIOUS
  <2>2. SubSeq(d.save, 1, Len(d.save)) = d.save /\ SubSeq(f, 1, Len(f)) = f
    BY <1>1
  <2>. QED  BY <1>2, <2>1, <2>2
<1>4. Len(d.save) + 1 \in 1..Len(f)
  BY <1>1, <1>2, <1>3
<1> DEFINE n == Len(d.save) + 1
<1>5. TopOf(d, f) = SubSeq(f, 1, n) /\ n \in Nat /\ n <= Len(f)
  BY <1>1, <1>4 DEF TopOf
<1>6. SubSeq(f, 1, n) \in Seq(STRING) /\ Len(SubSeq(f, 1, n)) = n
  BY <1>1, <1>4, <1>5
<1>7. SubSeq(SubSeq(f, 1, n), 1, n) = SubSeq(f, 1, n)
  BY <1>1, <1>4, <1>6
<1>. QED  BY <1>5, <1>6, <1>7 DEF IsPrefix

\* A file of a download that is accounted for is in nothing that passes the check.
LEMMA AccountedIsInUse ==
  ASSUME NEW d \in Downloads, Accounted(d), known \subseteq Seq(STRING),
         NEW f \in d.files, NEW p \in Seq(STRING), IsPrefix(p, f)
  PROVE  InUse(p)
<1>0. f \in Seq(STRING) /\ d.content \in Seq(STRING)
  BY FilesAssumption
<1>1. \E k \in known : IsPrefix(k, f)
  <2>1. CASE InSaveFolder(d)
    BY <2>1, TopHolds DEF Accounted
  <2>2. CASE HasFolder(d)
    BY <2>2, FilesAssumption DEF Accounted
  <2>3. d.content # NoPath
    BY FilesAssumption
  <2>. QED  BY <2>1, <2>2, <2>3
<1>2. PICK k \in known : IsPrefix(k, f)
  BY <1>1
<1>3. IsPrefix(p, k) \/ IsPrefix(k, p)
  BY <1>0, <1>2, PrefixesCompare
<1>. QED  BY <1>3 DEF InUse, Within

-----------------------------------------------------------------------------
(* Types *)

LEMMA UnfinishedIsAPath ==
  ASSUME NEW f \in Seq(STRING)
  PROVE  Unfinished(f) \in Seq(STRING)
<1>1. CASE Last(f) \in DOMAIN Partial
  <2>1. Partial[Last(f)] \in STRING
    BY <1>1, PathsAssumption
  <2> DEFINE g == [f EXCEPT ![Len(f)] = Partial[Last(f)]]
  <2>2. Len(f) \in Nat /\ DOMAIN f = 1..Len(f) /\ \A i \in 1..Len(f) : f[i] \in STRING
    OBVIOUS
  <2>3. DOMAIN g = 1..Len(f) /\ \A i \in 1..Len(f) : g[i] \in STRING
    BY <2>1, <2>2
  <2>4. g \in [1..Len(f) -> STRING]
    BY <2>3
  <2>5. g \in Seq(STRING)
    BY <2>2, <2>4
  <2>. QED  BY <1>1, <2>5 DEF Unfinished
<1>2. CASE Last(f) \notin DOMAIN Partial
  BY <1>2 DEF Unfinished
<1>. QED  BY <1>1, <1>2

LEMMA LeftoversAreCandidates ==
  ASSUME TypeOK, NEW t \in Tiers
  PROVE  {[path |-> e, tier |-> t.name, downloads |-> t.downloads] : e \in Leftovers(t)} \subseteq Candidate
<1>1. t.path \in Seq(STRING) /\ t.downloads \in BOOLEAN
  BY PathsAssumption
<1>2. \A f \in disk, n \in Nat : n \in Len(t.path) + 1..Len(f) => SubSeq(f, 1, n) \in Seq(STRING)
  BY <1>1 DEF TypeOK
<1>3. Leftovers(t) \subseteq Entries(t)
  BY DEF Leftovers
<1>4. Entries(t) \subseteq Seq(STRING)
  BY <1>1, <1>2 DEF Entries
<1>. QED  BY <1>1, <1>3, <1>4 DEF Candidate

LEMMA ConfigTiers == \A c \in Configs \cup {NoConfig} : c.tiers \subseteq Tiers
BY DEF Tiers, NoConfig

LEMMA NothingIsACandidate == NoCandidate \in Candidate
<1>1. <<>> \in Seq(STRING)
  OBVIOUS
<1>. QED  BY <1>1 DEF NoPath, NoCandidate, Candidate

LEMMA InitType == Init => TypeOK
<1> SUFFICES ASSUME Init PROVE TypeOK
  OBVIOUS
<1>1. disk \subseteq Seq(STRING)
  BY FilesAssumption, PathsAssumption DEF Init
<1>. QED  BY <1>1, NothingIsACandidate, BoundsAssumption DEF Init, TypeOK

\* Between tasks there is nothing to be wrong about.
LEMMA OverType ==
  ASSUME Over
  PROVE  /\ doing' \in {"nothing", "scan", "delete"} /\ at' \in {"idle", "library", "torrents", "names", "known", "walk"}
         /\ cfg' \in Configs \cup {NoConfig} /\ known' \subseteq Seq(STRING) /\ listing' \subseteq Downloads
         /\ left' \subseteq Tiers /\ found' \subseteq Candidate /\ victim' \in Candidate
         /\ added' \subseteq Downloads /\ learned' \subseteq Items /\ undisturbed' \in BOOLEAN
BY NothingIsACandidate DEF Over

LEMMA EventType == ASSUME TypeOK, Event \/ Quiet PROVE events' \in 0..EventMax
BY BoundsAssumption DEF TypeOK, Event, Quiet

LEMMA StepType == TypeOK /\ [Next]_vars => TypeOK'
<1> SUFFICES ASSUME TypeOK, [Next]_vars PROVE TypeOK'
  OBVIOUS
<1> USE DEF TypeOK
<1>1. CASE UNCHANGED vars
  BY <1>1 DEF vars, world, task, ghost
<1>2. CASE StartScan
  BY <1>2 DEF StartScan, Quiet, world
<1>3. ASSUME NEW c \in snap, StartDelete(c) PROVE TypeOK'
  BY <1>3 DEF StartDelete, Quiet, world, ghost
<1>4. CASE ReadLibrary
  BY <1>4, PathsAssumption DEF ReadLibrary, Quiet, world
<1>5. CASE ReadTorrents
  BY <1>5 DEF ReadTorrents, Quiet, world
<1>6. CASE ReadFileNames
  <2>1. {d.content : d \in {t \in listing : HasFolder(t)}} \subseteq Seq(STRING)
    BY FilesAssumption
  <2>2. UNION {{TopOf(d, f) : f \in d.files} : d \in {t \in listing \cap torrents : InSaveFolder(t)}} \subseteq Seq(STRING)
    BY TopHolds
  <2>. QED  BY <1>6, <2>1, <2>2 DEF ReadFileNames, Quiet, world, ghost
<1>7. CASE StartWalk
  BY <1>7, ConfigTiers DEF StartWalk, Quiet, world, ghost
<1>8. CASE Walk
  <2>1. PICK t \in left :
          /\ left' = left \ {t}
          /\ found' \subseteq found \cup {[path |-> e, tier |-> t.name, downloads |-> t.downloads] : e \in Leftovers(t)}
    BY <1>8 DEF Walk
  <2>2. found' \subseteq Candidate
    BY <2>1, LeftoversAreCandidates
  <2>. QED  BY <1>8, <2>1, <2>2 DEF Walk, Quiet, world, ghost
<1>9. CASE Publish
  <2>1. events' \in 0..EventMax
    BY <1>9, EventType DEF Publish
  <2>2. snap' \subseteq Candidate /\ saved' \subseteq Candidate
    BY <1>9 DEF Publish
  <2>. QED  BY <1>9, <2>1, <2>2, OverType DEF Publish, world
<1>10. CASE Refuse
  BY <1>10, OverType DEF Refuse, Quiet, world
<1>11. CASE RemoveAll
  <2>1. events' \in 0..EventMax
    BY <1>11, EventType DEF RemoveAll, Quiet
  <2>2. snap' \subseteq Candidate /\ saved' \subseteq Candidate /\ disk' \subseteq Seq(STRING)
    BY <1>11 DEF RemoveAll
  <2>. QED  BY <1>11, <2>1, <2>2, OverType DEF RemoveAll
<1>12. CASE Fail \/ Crash
  BY <1>12, OverType, EventType DEF Fail, Crash, world
<1>13. CASE Others
  <2> USE <1>13 DEF Others, Meanwhile, task
  <2>0. events' \in 0..EventMax
    BY EventType
  <2>1. CASE AddDownload
    <3>0. PICK d \in Downloads \ torrents :
            /\ torrents' = torrents \cup {d}
            /\ added' \in {added, added \cup {d}}
            /\ \E some \in SUBSET d.files : disk' = disk \cup {Unfinished(f) : f \in some}
      BY <2>1 DEF AddDownload
    <3>1. PICK some \in SUBSET d.files : disk' = disk \cup {Unfinished(f) : f \in some}
      BY <3>0
    <3>2. \A f \in some : Unfinished(f) \in Seq(STRING)
      BY <3>1, FilesAssumption, UnfinishedIsAPath
    <3>. QED  BY <2>0, <2>1, <3>0, <3>1, <3>2 DEF AddDownload
  <2>2. CASE RemoveDownload
    BY <2>0, <2>2 DEF RemoveDownload
  <2>3. CASE Learn
    BY <2>0, <2>3 DEF Learn
  <2>4. CASE Reconfigure
    BY <2>0, <2>4 DEF Reconfigure
  <2>5. CASE DriveGoes
    BY <2>0, <2>5 DEF DriveGoes
  <2>. QED  BY <2>1, <2>2, <2>3, <2>4, <2>5
<1>. QED
  BY <1>1, <1>2, <1>3, <1>4, <1>5, <1>6, <1>7, <1>8, <1>9, <1>10, <1>11, <1>12, <1>13 DEF Next

\* Every state the specification reaches is well typed.
THEOREM TypeCorrect == Spec => []TypeOK
<1>1. Init => TypeOK
  BY InitType
<1>2. TypeOK /\ [Next]_vars => TypeOK'
  BY StepType
<1>. QED  BY <1>1, <1>2, PTL DEF Spec

-----------------------------------------------------------------------------
(* The invariant *)

LEMMA InitInv == Init => IInv
BY InitType DEF Init, IInv, AskedInv

LEMMA StepInv == IInv /\ [Next]_vars => IInv'
<1> SUFFICES ASSUME IInv, [Next]_vars PROVE AskedInv'
  BY StepType DEF IInv
<1> USE DEF IInv, AskedInv
<1>1. CASE UNCHANGED vars
  BY <1>1 DEF vars, world, task, ghost, Accounted, TopOf
<1>2. CASE StartScan \/ \E c \in snap : StartDelete(c)
  BY <1>2 DEF StartScan, StartDelete
<1>3. CASE ReadLibrary
  BY <1>3 DEF ReadLibrary, world, TypeOK
<1>4. CASE ReadTorrents
  BY <1>4 DEF ReadTorrents, world
<1>5. CASE ReadFileNames
  <2>1. /\ doing' = doing /\ cfg' = cfg /\ at' = "known" /\ added' = added /\ learned' = learned
        /\ torrents' = torrents /\ library' = library /\ known \subseteq known'
    BY <1>5 DEF ReadFileNames, world, ghost
  <2>2. \A d \in torrents \ added : /\ HasFolder(d) => d.content \in known'
                                    /\ InSaveFolder(d) => \A f \in d.files : TopOf(d, f) \in known'
    <3> TAKE d \in torrents \ added
    <3>1. d \in listing \cap torrents
      BY <1>5 DEF ReadFileNames
    <3>. QED  BY <1>5, <3>1 DEF ReadFileNames
  <2>. QED  BY <1>5, <2>1, <2>2 DEF ReadFileNames, Accounted, TopOf
<1>6. CASE StartWalk \/ Walk
  BY <1>6 DEF StartWalk, Walk, world, ghost, Accounted, TopOf
<1>7. CASE Publish \/ Refuse \/ RemoveAll \/ Fail \/ Crash
  BY <1>7 DEF Publish, Refuse, RemoveAll, Fail, Crash, Over
<1>8. CASE Others
  <2>1. /\ doing' = doing /\ at' = at /\ cfg' = cfg /\ known' = known /\ listing' = listing
    BY <1>8 DEF Others, Meanwhile, task
  <2>2. at # "idle" => torrents' \ added' \subseteq torrents \ added
    BY <1>8 DEF Others, AddDownload, RemoveDownload, Learn, Reconfigure, DriveGoes
  <2>3. at # "idle" => library' \ learned' \subseteq library \ learned
    BY <1>8 DEF Others, AddDownload, RemoveDownload, Learn, Reconfigure, DriveGoes
  <2>. QED  BY <2>1, <2>2, <2>3 DEF Accounted, TopOf
<1>. QED
  BY <1>1, <1>2, <1>3, <1>4, <1>5, <1>6, <1>7, <1>8 DEF Next

\* What a delete takes is of no download qBittorrent had and has, and in nothing
\* another service knew and knows.
LEMMA DeleteIsHarmless ==
  IInv /\ [Next]_vars =>
    (Deletes => \A f \in disk \ disk' : /\ \A d \in torrents \ added : f \notin d.files
                                        /\ \A i \in library \ learned : ~Within(f, i))
<1> SUFFICES ASSUME IInv, [Next]_vars, Deletes, NEW f \in disk, f \notin disk'
             PROVE  /\ \A d \in torrents \ added : f \notin d.files
                    /\ \A i \in library \ learned : ~Within(f, i)
  OBVIOUS
<1>1. RemoveAll
  <2>1. ~UNCHANGED disk
    OBVIOUS
  <2>2. ~(StartScan \/ (\E c \in snap : StartDelete(c)) \/ ReadLibrary \/ ReadTorrents \/ ReadFileNames \/ StartWalk
          \/ Walk \/ Publish \/ Refuse \/ Fail \/ Crash)
    BY <2>1 DEF StartScan, StartDelete, ReadLibrary, ReadTorrents, ReadFileNames, StartWalk, Walk, Publish, Refuse,
                Fail, Crash, world
  <2>3. ~Others
    BY DEF Others, Meanwhile, task, Deletes
  <2>. QED  BY <2>1, <2>2, <2>3 DEF Next, vars, world
<1>2. at = "known" /\ cfg.qbit /\ ~InUse(victim.path) /\ IsPrefix(victim.path, f)
  BY <1>1 DEF RemoveAll, There, Within, Deletes, IInv, AskedInv
<1>3. f \in Seq(STRING) /\ victim.path \in Seq(STRING) /\ known \subseteq Seq(STRING)
  BY DEF IInv, TypeOK, Candidate
<1>4. ASSUME NEW d \in torrents \ added PROVE f \notin d.files
  <2>1. Accounted(d) /\ d \in Downloads
    BY <1>2 DEF IInv, AskedInv, TypeOK
  <2>. QED  BY <1>2, <1>3, <2>1, AccountedIsInUse
<1>5. ASSUME NEW i \in library \ learned PROVE ~Within(f, i)
  <2>1. i \in known
    BY <1>2 DEF IInv, AskedInv
  <2>2. IsPrefix(i, f) => IsPrefix(victim.path, i) \/ IsPrefix(i, victim.path)
    BY <1>2, <1>3, <2>1, PrefixesCompare
  <2>. QED  BY <1>2, <2>1, <2>2 DEF InUse, Within
<1>. QED  BY <1>4, <1>5

\* Whatever the downloads' layouts, and whatever happens between the scan, the
\* questions and the deletion, nothing is deleted that was in use when it was asked
\* and still is.
THEOREM DeletedIsNobodysHolds == Spec => DeletedIsNobodys
<1>1. Init => IInv
  BY InitInv
<1>2. IInv /\ [Next]_vars => IInv'
  BY StepInv
<1>3. IInv /\ [Next]_vars =>
        [Deletes => \A f \in disk \ disk' : /\ \A d \in torrents \ added : f \notin d.files
                                            /\ \A i \in library \ learned : ~Within(f, i)]_vars
  BY DeleteIsHarmless
<1>. QED  BY <1>1, <1>2, <1>3, PTL DEF Spec, DeletedIsNobodys
-----------------------------------------------------------------------------
(* What a scan finds *)

Listed(u) == {[path |-> e, tier |-> u.name, downloads |-> u.downloads] : e \in Leftovers(u)}

\* The tiers it has walked and not passed over.
Walked == {v \in cfg.tiers \ left : CheckPath(v.path) /\ (v.downloads => cfg.qbit)}

\* A scan nothing has disturbed knows what the services know, and has found what is
\* left over in the tiers it has walked.
ScanInv ==
  /\ at # "walk" => found = {}
  /\ at = "walk" => left \subseteq cfg.tiers
  /\ doing # "nothing" => cfg \in Configs
  /\ undisturbed =>
       /\ at \in {"torrents", "names"} => known = library
       /\ at = "names" => listing = torrents
       /\ at \in {"known", "walk"} => known = IF cfg.qbit THEN Claims ELSE library
       /\ at = "walk" => found = UNION {Listed(u) : u \in Walked}

LEMMA InitScan == Init => ScanInv
BY DEF Init, ScanInv

LEMMA StepScan == IInv /\ ScanInv /\ [Next]_vars => ScanInv'
<1> SUFFICES ASSUME IInv, ScanInv, [Next]_vars PROVE ScanInv'
  OBVIOUS
<1> USE DEF IInv, ScanInv, AskedInv
<1>1. CASE UNCHANGED vars
  BY <1>1 DEF vars, world, task, ghost, Claims, Listed, Walked, Leftovers, Entries, Tracked, Folder, Opened
<1>2. CASE StartScan \/ \E c \in snap : StartDelete(c)
  <2>1. at' = "library" /\ found' = found /\ cfg' = config /\ at = "idle"
    BY <1>2 DEF StartScan, StartDelete
  <2>. QED  BY <2>1 DEF TypeOK
<1>3. CASE ReadLibrary
  <2>1. /\ at' = (IF cfg.qbit THEN "torrents" ELSE "known") /\ known' = library /\ library' = library
        /\ cfg' = cfg /\ found' = found /\ doing' = doing /\ at = "library"
    BY <1>3 DEF ReadLibrary, world
  <2>. QED  BY <2>1
<1>4. CASE ReadTorrents
  <2>1. /\ at' = "names" /\ listing' = torrents /\ torrents' = torrents /\ library' = library /\ known' = known
        /\ cfg' = cfg /\ found' = found /\ doing' = doing /\ at = "torrents" /\ undisturbed' = undisturbed
    BY <1>4 DEF ReadTorrents, world
  <2>. QED  BY <2>1
<1>5. CASE ReadFileNames
  <2>1. /\ at' = "known" /\ at = "names" /\ cfg' = cfg /\ found' = found /\ doing' = doing /\ undisturbed' = undisturbed
        /\ torrents' = torrents /\ library' = library
        /\ known' = known \cup {d.content : d \in {t \in listing : HasFolder(t)}}
                    \cup UNION {{TopOf(d, f) : f \in d.files} : d \in {t \in listing \cap torrents : InSaveFolder(t)}}
    BY <1>5 DEF ReadFileNames, world, ghost
  <2>2. undisturbed => known' = Claims
    BY <2>1 DEF Claims, TopOf
  <2>3. Claims' = Claims
    BY <2>1 DEF Claims
  <2>4. cfg.qbit
    BY <2>1
  <2>. QED  BY <2>1, <2>2, <2>3, <2>4
<1>6. CASE StartWalk
  <2>1. /\ at' = "walk" /\ at = "known" /\ left' = cfg.tiers /\ cfg' = cfg /\ found' = found /\ known' = known
        /\ doing' = doing /\ undisturbed' = undisturbed /\ torrents' = torrents /\ library' = library
    BY <1>6 DEF StartWalk, world, ghost
  <2>2. Claims' = Claims
    BY <2>1 DEF Claims
  <2>3. Walked' = {}
    BY <2>1 DEF Walked
  <2>. QED  BY <2>1, <2>2, <2>3
<1>7. CASE Walk
  <2>1. /\ at' = "walk" /\ at = "walk" /\ cfg' = cfg /\ known' = known /\ disk' = disk /\ away' = away
        /\ doing' = doing /\ undisturbed' = undisturbed /\ torrents' = torrents /\ library' = library
    BY <1>7 DEF Walk, world, task, ghost
  <2>2. Claims' = Claims
    BY <2>1 DEF Claims
  <2>3. \A u : Listed(u)' = Listed(u)
    BY <2>1 DEF Listed, Leftovers, Entries, Tracked, Folder, Opened
  <2>4. PICK t \in left :
          /\ left' = left \ {t}
          /\ found' = IF ~CheckPath(t.path) \/ (t.downloads /\ ~cfg.qbit) THEN found ELSE found \cup Listed(t)
    BY <1>7 DEF Walk, Listed
  <2>5. Walked' = IF ~CheckPath(t.path) \/ (t.downloads /\ ~cfg.qbit) THEN Walked ELSE Walked \cup {t}
    BY <2>1, <2>4 DEF Walked
  <2>6. ASSUME undisturbed PROVE found' = UNION {Listed(u) : u \in Walked'}
    <3>1. found = UNION {Listed(u) : u \in Walked}
      BY <2>1, <2>6
    <3>. QED  BY <2>4, <2>5, <3>1
  <2>7. UNION {Listed(u)' : u \in Walked'} = UNION {Listed(u) : u \in Walked'}
    BY <2>3
  <2>8. left' \subseteq cfg'.tiers
    BY <2>1, <2>4
  <2>. QED  BY <2>1, <2>2, <2>6, <2>7, <2>8
<1>8. CASE Publish \/ Refuse \/ RemoveAll \/ Fail \/ Crash
  BY <1>8 DEF Publish, Refuse, RemoveAll, Fail, Crash, Over
<1>9. CASE Others
  <2>1. /\ doing' = doing /\ at' = at /\ cfg' = cfg /\ known' = known /\ listing' = listing /\ left' = left
        /\ found' = found /\ undisturbed' = (doing = "nothing")
    BY <1>9 DEF Others, Meanwhile, task
  <2>2. undisturbed' => at' = "idle"
    BY <2>1
  <2>. QED  BY <2>1, <2>2
<1>. QED
  BY <1>1, <1>2, <1>3, <1>4, <1>5, <1>6, <1>7, <1>8, <1>9 DEF Next

-----------------------------------------------------------------------------
(* The entries on the way to a file *)

\* One path begins another when their parts agree.
LEMMA PrefixByParts ==
  ASSUME NEW p \in Seq(STRING), NEW f \in Seq(STRING)
  PROVE  IsPrefix(p, f) <=> Len(p) <= Len(f) /\ \A i \in 1..Len(p) : p[i] = f[i]
<1>0. Len(p) \in Nat /\ Len(f) \in Nat
  OBVIOUS
<1>1. ASSUME Len(p) <= Len(f)
      PROVE  SubSeq(p, 1, Len(p)) = SubSeq(f, 1, Len(p)) <=> \A i \in 1..Len(p) : p[i] = f[i]
  <2>1. /\ Len(SubSeq(p, 1, Len(p))) = Len(p) /\ Len(SubSeq(f, 1, Len(p))) = Len(p)
        /\ SubSeq(p, 1, Len(p)) \in Seq(STRING) /\ SubSeq(f, 1, Len(p)) \in Seq(STRING)
        /\ \A i \in 1..Len(p) : SubSeq(p, 1, Len(p))[i] = p[i] /\ SubSeq(f, 1, Len(p))[i] = f[i]
    BY <1>0, <1>1
  <2>. QED  BY <1>0, <2>1
<1>. QED  BY <1>0, <1>1 DEF IsPrefix

\* Two paths of the same parts are one.
LEMMA SameParts ==
  ASSUME NEW p \in Seq(STRING), NEW q \in Seq(STRING), Len(p) = Len(q), \A i \in 1..Len(p) : p[i] = q[i]
  PROVE  p = q
OBVIOUS

LEMMA StrictByParts ==
  ASSUME NEW p \in Seq(STRING), NEW f \in Seq(STRING)
  PROVE  IsStrictPrefix(p, f) <=> Len(p) < Len(f) /\ \A i \in 1..Len(p) : p[i] = f[i]
<1>0. Len(p) \in Nat /\ Len(f) \in Nat
  OBVIOUS
<1>1. IsStrictPrefix(p, f) <=> IsPrefix(p, f) /\ p # f
  BY DEF IsStrictPrefix
<1>2. Len(p) = Len(f) /\ (\A i \in 1..Len(p) : p[i] = f[i]) => p = f
  BY SameParts
<1>. QED  BY <1>0, <1>1, <1>2, PrefixByParts

\* The first parts of a path.
LEMMA FirstParts ==
  ASSUME NEW f \in Seq(STRING), NEW n \in 0..Len(f)
  PROVE  /\ SubSeq(f, 1, n) \in Seq(STRING) /\ Len(SubSeq(f, 1, n)) = n
         /\ \A i \in 1..n : SubSeq(f, 1, n)[i] = f[i]
OBVIOUS

\* An entry on the way to a file is the file's first parts.
LEMMA PrefixIsFirst ==
  ASSUME NEW p \in Seq(STRING), NEW f \in Seq(STRING), IsPrefix(p, f)
  PROVE  Len(p) \in 0..Len(f) /\ p = SubSeq(f, 1, Len(p))
<1>1. Len(p) \in 0..Len(f) /\ \A i \in 1..Len(p) : p[i] = f[i]
  BY PrefixByParts
<1>2. /\ SubSeq(f, 1, Len(p)) \in Seq(STRING) /\ Len(SubSeq(f, 1, Len(p))) = Len(p)
      /\ \A i \in 1..Len(p) : SubSeq(f, 1, Len(p))[i] = f[i]
  BY <1>1, FirstParts
<1>. QED  BY <1>1, <1>2, SameParts

\* A name not finished is another last part, if any.
LEMMA UnfinishedParts ==
  ASSUME NEW k \in Seq(STRING)
  PROVE  /\ Unfinished(k) \in Seq(STRING) /\ Len(Unfinished(k)) = Len(k)
         /\ \A i \in 1..Len(k) - 1 : Unfinished(k)[i] = k[i]
<1>0. Unfinished(k) \in Seq(STRING)
  BY UnfinishedIsAPath
<1>1. CASE Last(k) \in DOMAIN Partial
  <2> DEFINE g == [k EXCEPT ![Len(k)] = Partial[Last(k)]]
  <2>1. Unfinished(k) = g
    BY <1>1 DEF Unfinished
  <2>2. Len(k) \in Nat /\ DOMAIN k = 1..Len(k) /\ DOMAIN g = DOMAIN k /\ \A i \in 1..Len(k) - 1 : g[i] = k[i]
    OBVIOUS
  <2>3. g \in Seq(STRING) /\ Len(g) \in Nat /\ DOMAIN g = 1..Len(g)
    BY <1>0, <2>1
  <2> HIDE DEF g
  <2>4. Len(g) = Len(k)
    <3>1. \A m, n \in Nat : 1..m = 1..n => m = n
      <4> SUFFICES ASSUME NEW m \in Nat, NEW n \in Nat, 1..m = 1..n PROVE m = n
        OBVIOUS
      <4>1. (m \in 1..m <=> m \in 1..n) /\ (n \in 1..n <=> n \in 1..m) /\ (m + 1 \in 1..m <=> m + 1 \in 1..n)
            /\ (n + 1 \in 1..n <=> n + 1 \in 1..m)
        OBVIOUS
      <4>. QED  BY <4>1
    <3>. QED  BY <2>2, <2>3, <3>1
  <2>. QED  BY <1>0, <2>1, <2>2, <2>4
<1>2. CASE Last(k) \notin DOMAIN Partial
  BY <1>2 DEF Unfinished
<1>. QED  BY <1>1, <1>2

-----------------------------------------------------------------------------
(* Exactly what is no one's *)

\* Among numbers there is a least one.
LEMMA LeastElement ==
  ASSUME NEW S \in SUBSET Nat, S # {}
  PROVE  \E n \in S : \A m \in S : n <= m
<1> DEFINE R == {p \in Nat \X Nat : p[1] < p[2]}
<1>1. IsWellFoundedOn(R, Nat)
  BY NatLessThanWellFounded DEF OpToRel
<1>2. PICK n \in S : \A m \in S : ~ (<<m, n>> \in R)
  <2> HIDE DEF R
  <2>. QED  BY <1>1, WFMin
<1>3. ASSUME NEW m \in S PROVE n <= m
  <2>1. <<m, n>> \in Nat \X Nat /\ <<m, n>>[1] = m /\ <<m, n>>[2] = n
    OBVIOUS
  <2>2. ~(m < n)
    BY <1>2, <2>1
  <2>. QED  BY <2>2
<1>. QED  BY <1>3

\* A part of the path that is known, or is the unfinished name of what is known,
\* is what occupies a file of a folder that is not itself occupied.
LEMMA OccupiedOnTheWay ==
  ASSUME TypeOK, known = Claims, NEW t \in Tiers, t.downloads, ~Occupied(t.path),
         NEW f \in Seq(STRING), IsStrictPrefix(t.path, f)
  PROVE  Occupied(f) <=> \E n \in Len(t.path) + 1..Len(f) : Tracked(t, SubSeq(f, 1, n))
<1> DEFINE L == Len(t.path)
<1>0. /\ t.path \in Seq(STRING) /\ L \in Nat /\ Len(f) \in Nat /\ L < Len(f)
      /\ \A i \in 1..L : t.path[i] = f[i]
  BY PathsAssumption, StrictByParts
<1>1. known \subseteq Seq(STRING)
  BY DEF TypeOK
<1>2. ASSUME NEW p \in Seq(STRING), IsPrefix(p, f), ~IsPrefix(p, t.path)
      PROVE  Len(p) \in L + 1..Len(f) /\ p = SubSeq(f, 1, Len(p))
  <2>1. Len(p) \in 0..Len(f) /\ p = SubSeq(f, 1, Len(p)) /\ \A i \in 1..Len(p) : p[i] = f[i]
    BY <1>2, PrefixIsFirst, PrefixByParts
  <2>2. ~(Len(p) <= L)
    <3>1. Len(p) <= L => \A i \in 1..Len(p) : p[i] = t.path[i]
      BY <1>0, <2>1
    <3>. QED  BY <1>0, <1>2, <3>1, PrefixByParts
  <2>. QED  BY <1>0, <2>1, <2>2
<1>3. ASSUME NEW n \in L + 1..Len(f) PROVE IsPrefix(SubSeq(f, 1, n), f)
  <2>0. n \in 0..Len(f)
    BY <1>0
  <2> DEFINE e == SubSeq(f, 1, n)
  <2>1. e \in Seq(STRING) /\ Len(e) = n /\ \A i \in 1..n : e[i] = f[i]
    BY <2>0, FirstParts
  <2> HIDE DEF e
  <2>2. IsPrefix(e, f)
    BY <1>0, <2>0, <2>1, PrefixByParts
  <2>. QED  BY <2>2 DEF e
<1>4. ASSUME Occupied(f) PROVE \E n \in L + 1..Len(f) : Tracked(t, SubSeq(f, 1, n))
  <2>1. PICK k \in known : IsPrefix(k, f) \/ IsPrefix(Unfinished(k), f)
    BY <1>4 DEF Occupied, Within
  <2>2. k \in Seq(STRING) /\ Unfinished(k) \in Seq(STRING) /\ ~IsPrefix(k, t.path) /\ ~IsPrefix(Unfinished(k), t.path)
    BY <1>1, UnfinishedIsAPath DEF Occupied, Within
  <2>3. CASE IsPrefix(k, f)
    BY <1>2, <2>2, <2>3 DEF Tracked
  <2>4. CASE IsPrefix(Unfinished(k), f)
    <3>1. Len(Unfinished(k)) \in L + 1..Len(f) /\ Unfinished(k) = SubSeq(f, 1, Len(Unfinished(k)))
      BY <1>2, <2>2, <2>4
    <3>2. Tracked(t, SubSeq(f, 1, Len(Unfinished(k))))
      BY <3>1 DEF Tracked
    <3>. QED  BY <3>1, <3>2
  <2>. QED  BY <2>1, <2>3, <2>4
<1>5. ASSUME NEW n \in L + 1..Len(f), Tracked(t, SubSeq(f, 1, n)) PROVE Occupied(f)
  BY <1>3, <1>5 DEF Tracked, Occupied, Within
<1>. QED  BY <1>4, <1>5

\* What is tracked inside an entry has it gone into.
LEMMA TrackedOpens ==
  ASSUME TypeOK, NEW t \in Tiers, NEW f \in Seq(STRING), NEW m \in 1..Len(f), NEW n \in 1..Len(f), m < n,
         Tracked(t, SubSeq(f, 1, n))
  PROVE  Opened(SubSeq(f, 1, m))
<1>0. /\ SubSeq(f, 1, m) \in Seq(STRING) /\ Len(SubSeq(f, 1, m)) = m /\ \A i \in 1..m : SubSeq(f, 1, m)[i] = f[i]
      /\ SubSeq(f, 1, n) \in Seq(STRING) /\ Len(SubSeq(f, 1, n)) = n /\ \A i \in 1..n : SubSeq(f, 1, n)[i] = f[i]
  BY FirstParts
<1>1. PICK k \in known : SubSeq(f, 1, n) = k \/ SubSeq(f, 1, n) = Unfinished(k)
  BY DEF Tracked
<1>2. k \in Seq(STRING) /\ Len(k) \in Nat
  BY DEF TypeOK
<1>3. Len(k) = n /\ \A i \in 1..n - 1 : k[i] = f[i]
  <2>1. CASE SubSeq(f, 1, n) = k
    BY <1>0, <2>1
  <2>2. CASE SubSeq(f, 1, n) = Unfinished(k)
    <3>1. Len(Unfinished(k)) = Len(k) /\ \A i \in 1..Len(k) - 1 : Unfinished(k)[i] = k[i]
      BY <1>2, UnfinishedParts
    <3>2. Len(k) = n
      BY <1>0, <2>2, <3>1
    <3>3. \A i \in 1..n - 1 : k[i] = Unfinished(k)[i] /\ i \in 1..n
      BY <3>1, <3>2
    <3>. QED  BY <1>0, <2>2, <3>2, <3>3
  <2>. QED  BY <1>1, <2>1, <2>2
<1>4. \A i \in 1..m : SubSeq(f, 1, m)[i] = k[i]
  BY <1>0, <1>3
<1>5. IsStrictPrefix(SubSeq(f, 1, m), k)
  BY <1>0, <1>2, <1>3, <1>4, StrictByParts
<1>. QED  BY <1>5 DEF Opened, Under

\* The entries on the way to a file are among the tier's.
LEMMA OnTheWay ==
  ASSUME TypeOK, NEW t \in Tiers, NEW f \in disk, IsStrictPrefix(t.path, f),
         NEW m \in Len(t.path) + 1..Len(f)
  PROVE  /\ SubSeq(f, 1, m) \in Entries(t)
         /\ m < Len(f) => Folder(SubSeq(f, 1, m))
         /\ \A n \in Len(t.path) + 1..m : SubSeq(SubSeq(f, 1, m), 1, n) = SubSeq(f, 1, n)
<1>0. f \in Seq(STRING) /\ t.path \in Seq(STRING) /\ Len(t.path) \in Nat /\ Len(f) \in Nat
  BY PathsAssumption DEF TypeOK
<1>1. SubSeq(f, 1, m) \in Seq(STRING) /\ Len(SubSeq(f, 1, m)) = m /\ \A i \in 1..m : SubSeq(f, 1, m)[i] = f[i]
  BY <1>0, FirstParts
<1>2. SubSeq(f, 1, m) \in Entries(t)
  BY DEF Entries, Under
<1>3. m < Len(f) => Folder(SubSeq(f, 1, m))
  BY <1>0, <1>1, StrictByParts DEF Folder, Under
<1>4. ASSUME NEW n \in Len(t.path) + 1..m PROVE SubSeq(SubSeq(f, 1, m), 1, n) = SubSeq(f, 1, n)
  <2>1. n \in 0..Len(f) /\ n \in 0..m
    BY <1>0
  <2>2. /\ SubSeq(f, 1, n) \in Seq(STRING) /\ Len(SubSeq(f, 1, n)) = n /\ \A i \in 1..n : SubSeq(f, 1, n)[i] = f[i]
    BY <1>0, <2>1, FirstParts
  <2> DEFINE e == SubSeq(f, 1, m)
  <2>3. e \in Seq(STRING) /\ Len(e) = m /\ \A i \in 1..n : e[i] = f[i]
    BY <1>1, <2>1
  <2> HIDE DEF e
  <2>4. /\ SubSeq(e, 1, n) \in Seq(STRING) /\ Len(SubSeq(e, 1, n)) = n /\ \A i \in 1..n : SubSeq(e, 1, n)[i] = e[i]
    BY <2>1, <2>3, FirstParts
  <2>5. SubSeq(e, 1, n) = SubSeq(f, 1, n)
    BY <2>2, <2>3, <2>4, SameParts
  <2>. QED  BY <2>5 DEF e
<1>. QED  BY <1>2, <1>3, <1>4

\* Every entry is on the way to some file.
LEMMA EntriesAreOnTheWay ==
  ASSUME TypeOK, NEW t \in Tiers, NEW e \in Entries(t)
  PROVE  \E f \in disk : /\ IsStrictPrefix(t.path, f) /\ f \in Seq(STRING) /\ e \in Seq(STRING)
                         /\ Len(e) \in Len(t.path) + 1..Len(f) /\ e = SubSeq(f, 1, Len(e))
<1>0. PICK f \in disk : IsStrictPrefix(t.path, f) /\ \E n \in Len(t.path) + 1..Len(f) : e = SubSeq(f, 1, n)
  BY DEF Entries, Under
<1>1. PICK n \in Len(t.path) + 1..Len(f) : e = SubSeq(f, 1, n)
  BY <1>0
<1>2. f \in Seq(STRING) /\ t.path \in Seq(STRING) /\ n \in 0..Len(f)
  <2>1. f \in Seq(STRING) /\ t.path \in Seq(STRING)
    BY PathsAssumption DEF TypeOK
  <2>. QED  BY <1>1, <2>1
<1>3. e \in Seq(STRING) /\ Len(e) = n
  BY <1>1, <1>2, FirstParts
<1>. QED  BY <1>0, <1>1, <1>2, <1>3

\* A file something occupies is in no leftover.
LEMMA OccupiedIsNotLeft ==
  ASSUME TypeOK, NEW t \in Tiers, NEW f \in disk, IsStrictPrefix(t.path, f),
         NEW n \in Len(t.path) + 1..Len(f), Tracked(t, SubSeq(f, 1, n)),
         NEW p \in Leftovers(t)
  PROVE  ~IsPrefix(p, f)
<1> SUFFICES ASSUME IsPrefix(p, f) PROVE FALSE
  OBVIOUS
<1>0. f \in Seq(STRING) /\ t.path \in Seq(STRING) /\ Len(t.path) \in Nat /\ Len(f) \in Nat
  BY PathsAssumption DEF TypeOK
<1>1. p \in Seq(STRING) /\ Len(p) \in Nat /\ Len(p) > Len(t.path)
  <2>1. p \in Entries(t)
    BY DEF Leftovers
  <2>. QED  BY <1>0, <2>1, EntriesAreOnTheWay
<1> DEFINE m == Len(p)
<1>2. m \in Len(t.path) + 1..Len(f) /\ p = SubSeq(f, 1, m)
  BY <1>0, <1>1, PrefixIsFirst
<1> HIDE DEF m
<1>3. CASE n < m
  <2>1. n \in Len(t.path) + 1..m - 1 /\ SubSeq(p, 1, n) = SubSeq(f, 1, n)
    BY <1>0, <1>2, <1>3, OnTheWay
  <2>2. \A i \in Len(t.path) + 1..m - 1 : ~Tracked(t, SubSeq(p, 1, i))
    BY DEF Leftovers, m
  <2>. QED  BY <2>1, <2>2
<1>4. CASE n = m
  BY <1>2, <1>4 DEF Leftovers
<1>5. CASE m < n
  <2>1. Opened(p)
    BY <1>0, <1>2, <1>5, TrackedOpens
  <2>2. Folder(p)
    BY <1>0, <1>2, <1>5, OnTheWay
  <2>. QED  BY <2>1, <2>2 DEF Leftovers
<1>. QED  BY <1>0, <1>2, <1>3, <1>4, <1>5

\* A file nothing accounts for is in the topmost entry that is not gone into.
LEMMA LeftIsFound ==
  ASSUME TypeOK, NEW t \in Tiers, t.downloads, NEW f \in disk, IsStrictPrefix(t.path, f), ~Folder(f),
         \A n \in Len(t.path) + 1..Len(f) : ~Tracked(t, SubSeq(f, 1, n))
  PROVE  \E p \in Leftovers(t) : IsPrefix(p, f)
<1>0. f \in Seq(STRING) /\ t.path \in Seq(STRING) /\ Len(t.path) \in Nat /\ Len(f) \in Nat /\ Len(t.path) < Len(f)
  <2>1. f \in Seq(STRING) /\ t.path \in Seq(STRING)
    BY PathsAssumption DEF TypeOK
  <2>. QED  BY <2>1, StrictByParts
<1> DEFINE S == {n \in Len(t.path) + 1..Len(f) : ~(Folder(SubSeq(f, 1, n)) /\ Opened(SubSeq(f, 1, n)))}
<1>1. Len(f) \in S
  <2>1. SubSeq(f, 1, Len(f)) = f
    BY <1>0
  <2>2. ~Folder(SubSeq(f, 1, Len(f)))
    BY <2>1
  <2>3. Len(f) \in Len(t.path) + 1..Len(f)
    BY <1>0
  <2>. QED  BY <2>2, <2>3
<1>2. S \in SUBSET Nat
  BY <1>0
<1>3. PICK m \in S : \A n \in S : m <= n
  <2> HIDE DEF S
  <2>. QED  BY <1>1, <1>2, LeastElement
<1>4. m \in Len(t.path) + 1..Len(f) /\ ~(Folder(SubSeq(f, 1, m)) /\ Opened(SubSeq(f, 1, m)))
  OBVIOUS
<1>5. \A n \in Len(t.path) + 1..m - 1 : Opened(SubSeq(f, 1, n))
  <2> TAKE n \in Len(t.path) + 1..m - 1
  <2>1. n \notin S /\ n \in Len(t.path) + 1..Len(f)
    BY <1>0, <1>3, <1>4
  <2>. QED  BY <2>1
<1> HIDE DEF S
<1> DEFINE p == SubSeq(f, 1, m)
<1>6. p \in Seq(STRING) /\ Len(p) = m /\ IsPrefix(p, f)
  <2>1. /\ m \in 0..Len(f)
    BY <1>0, <1>4
  <2>2. p \in Seq(STRING) /\ Len(p) = m /\ \A i \in 1..m : p[i] = f[i]
    BY <1>0, <2>1, FirstParts
  <2> HIDE DEF p
  <2>3. m \in Nat /\ m <= Len(f)
    BY <1>0, <1>4
  <2>. QED  BY <1>0, <2>2, <2>3, PrefixByParts
<1>7. p \in Entries(t) /\ \A n \in Len(t.path) + 1..m : SubSeq(p, 1, n) = SubSeq(f, 1, n)
  BY <1>4, OnTheWay
<1>8. \A n \in Len(t.path) + 1..m - 1 : ~Tracked(t, SubSeq(p, 1, n)) /\ Opened(SubSeq(p, 1, n))
  <2> TAKE n \in Len(t.path) + 1..m - 1
  <2>1. n \in Len(t.path) + 1..m /\ n \in Len(t.path) + 1..Len(f)
    BY <1>0, <1>4
  <2>2. SubSeq(p, 1, n) = SubSeq(f, 1, n)
    BY <1>7, <2>1
  <2> HIDE DEF p
  <2>. QED  BY <1>5, <2>1, <2>2
<1>9. ~Tracked(t, p) /\ ~(Folder(p) /\ Opened(p))
  BY <1>4
<1> HIDE DEF p
<1>10. p \in Leftovers(t)
  BY <1>6, <1>7, <1>8, <1>9 DEF Leftovers
<1>. QED  BY <1>6, <1>10

\* No leftover is inside another.
LEMMA LeftoversApart ==
  ASSUME TypeOK, NEW t \in Tiers, NEW p \in Leftovers(t), NEW q \in Leftovers(t)
  PROVE  ~IsStrictPrefix(q, p)
<1> SUFFICES ASSUME IsStrictPrefix(q, p) PROVE FALSE
  OBVIOUS
<1>1. p \in Entries(t) /\ q \in Entries(t)
  BY DEF Leftovers
<1>2. PICK f \in disk : /\ IsStrictPrefix(t.path, f) /\ f \in Seq(STRING) /\ p \in Seq(STRING)
                        /\ Len(p) \in Len(t.path) + 1..Len(f) /\ p = SubSeq(f, 1, Len(p))
  BY <1>1, EntriesAreOnTheWay
<1>3. t.path \in Seq(STRING) /\ Len(t.path) \in Nat /\ q \in Seq(STRING) /\ Len(q) \in Nat /\ Len(q) > Len(t.path)
  <2>1. t.path \in Seq(STRING)
    BY PathsAssumption
  <2>. QED  BY <1>1, <2>1, EntriesAreOnTheWay
<1> DEFINE m == Len(q)  l == Len(p)
<1>4. m \in Len(t.path) + 1..l - 1 /\ q = SubSeq(p, 1, m)
  BY <1>2, <1>3, StrictByParts, PrefixIsFirst DEF IsStrictPrefix
<1>5. l \in Len(t.path) + 1..Len(f) /\ p = SubSeq(f, 1, l)
  BY <1>2
<1>6. Opened(SubSeq(p, 1, m))
  BY <1>4 DEF Leftovers
<1> HIDE DEF m, l
<1>7. SubSeq(p, 1, m) = SubSeq(f, 1, m)
  <2>1. m \in Len(t.path) + 1..l
    BY <1>3, <1>4, <1>5, <1>2
  <2>. QED  BY <1>2, <1>5, <2>1, OnTheWay
<1>8. Folder(q)
  <2>1. m \in Len(t.path) + 1..Len(f) /\ m < Len(f)
    BY <1>2, <1>3, <1>4, <1>5
  <2>2. Folder(SubSeq(f, 1, m))
    BY <1>2, <2>1, OnTheWay
  <2>. QED  BY <1>4, <1>7, <2>2
<1>. QED  BY <1>4, <1>6, <1>8 DEF Leftovers

\* What is listed for a tier is what is left over in it.
LEMMA ListedIsLeft ==
  ASSUME IInv, ScanInv, at = "walk", left = {}, undisturbed,
         NEW t \in cfg.tiers, t.downloads, cfg.qbit, t.path \notin away
  PROVE  {c.path : c \in {d \in found : d.tier = t.name}} = Leftovers(t)
<1>1. found = UNION {Listed(u) : u \in Walked} /\ cfg \in Configs /\ t \in Walked /\ Walked \subseteq cfg.tiers
  BY DEF ScanInv, IInv, AskedInv, Walked
<1>2. \A u \in cfg.tiers : u.name = t.name => u = t
  BY <1>1, ConfigsAssumption
<1>3. \A u : \A c \in Listed(u) : c.tier = u.name /\ c.path \in Leftovers(u)
  BY DEF Listed
<1>4. \A c \in found : c.tier = t.name => c.path \in Leftovers(t)
  BY <1>1, <1>2, <1>3
<1>5. \A e \in Leftovers(t) : \E c \in found : c.tier = t.name /\ c.path = e
  <2> TAKE e \in Leftovers(t)
  <2> DEFINE c == [path |-> e, tier |-> t.name, downloads |-> t.downloads]
  <2>1. c \in Listed(t) /\ c.tier = t.name /\ c.path = e
    BY DEF Listed
  <2> HIDE DEF c
  <2>. QED  BY <1>1, <2>1
<1>. QED  BY <1>4, <1>5

LEMMA ScanImpliesExact == IInv /\ ScanInv => ScanIsExact
<1> SUFFICES ASSUME IInv, ScanInv, at = "walk", left = {}, undisturbed,
                    NEW t \in cfg.tiers, t.downloads, cfg.qbit, t.path \notin away, ~Occupied(t.path)
             PROVE  LET listed == {c.path : c \in {d \in found : d.tier = t.name}}
                    IN /\ \A f \in {g \in disk : Under(g, t.path) /\ ~Folder(g)} :
                            Occupied(f) <=> ~\E p \in listed : Within(f, p)
                       /\ \A p, q \in listed : ~Under(p, q)
  BY DEF ScanIsExact
<1>1. {c.path : c \in {d \in found : d.tier = t.name}} = Leftovers(t)
  BY ListedIsLeft
<1>2. TypeOK /\ known = Claims /\ t \in Tiers
  BY ConfigTiers DEF IInv, TypeOK, ScanInv
<1>3. ASSUME NEW f \in disk, Under(f, t.path), ~Folder(f)
      PROVE  Occupied(f) <=> ~\E p \in Leftovers(t) : Within(f, p)
  <2>1. f \in Seq(STRING) /\ IsStrictPrefix(t.path, f)
    BY <1>2, <1>3 DEF TypeOK, Under
  <2>2. Occupied(f) <=> \E n \in Len(t.path) + 1..Len(f) : Tracked(t, SubSeq(f, 1, n))
    BY <1>2, <2>1, OccupiedOnTheWay
  <2>3. (\E n \in Len(t.path) + 1..Len(f) : Tracked(t, SubSeq(f, 1, n))) => ~\E p \in Leftovers(t) : IsPrefix(p, f)
    BY <1>2, <2>1, OccupiedIsNotLeft
  <2>4. (\A n \in Len(t.path) + 1..Len(f) : ~Tracked(t, SubSeq(f, 1, n))) => \E p \in Leftovers(t) : IsPrefix(p, f)
    BY <1>2, <1>3, <2>1, LeftIsFound
  <2>. QED  BY <2>2, <2>3, <2>4 DEF Within
<1>4. \A p, q \in Leftovers(t) : ~Under(p, q)
  BY <1>2, LeftoversApart DEF Under
<1>. QED  BY <1>1, <1>3, <1>4

\* Whatever the downloads' layouts, the names of what is unfinished and the tiers'
\* folders: a scan that nothing disturbs lists, of a download folder, exactly what is
\* no one's, each entry as high up as it can be and none inside another.
THEOREM ScanIsExactHolds == Spec => []ScanIsExact
<1>1. Init => IInv /\ ScanInv
  BY InitInv, InitScan
<1>2. (IInv /\ ScanInv) /\ [Next]_vars => (IInv /\ ScanInv)'
  BY StepInv, StepScan
<1>3. IInv /\ ScanInv => ScanIsExact
  BY ScanImpliesExact
<1>. QED  BY <1>1, <1>2, <1>3, PTL DEF Spec

=============================================================================
