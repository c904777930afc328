---------------------------- MODULE MCDownloads -----------------------------
(***************************************************************************)
(* Downloads for TLC: two seed paths on one drive; a folder, something      *)
(* inside it, and a sibling whose name sorts between.                       *)
(***************************************************************************)
EXTENDS Downloads

MCSlash == 47
MCFolder == <<97>>             \* a
MCInside == <<97, 47, 98>>     \* a/b
MCSibling == <<97, 46, 98>>    \* a.b
MCNames == {MCFolder, MCInside, MCSibling}
MCSize == [n \in MCNames |-> IF n = MCFolder THEN 2 ELSE 1]
MCDisk == [p \in {"hotA", "hotB", "coldA", "coldB"} |-> IF p \in {"hotA", "hotB"} THEN "d1" ELSE "d2"]
MCTotal == [d \in {"d1", "d2"} |-> 5]
MCTarget == [p \in {"coldA", "coldB"} |-> IF p = "coldA" THEN 2 ELSE 1]
MCMax == [p \in {"coldA", "coldB"} |-> IF p = "coldA" THEN 3 ELSE 4]
MCRules == [l \in {"tv", "keep", "seed"} |-> CASE l = "tv" -> "sonarr" [] l = "keep" -> "ignore" [] OTHER -> "move"]

Kind(path, name, done, stage, category, tmm) ==
  [path |-> path, name |-> name, done |-> done, stage |-> stage, category |-> category, tags |-> {}, tmm |-> tmm]
Finished(path, name, category) == Kind(path, name, 0, "seeding", category, FALSE)

\* Ready, nested or not; left alone; still downloading; on seed storage and not
\* labeled yet.
MCKinds ==
  << Finished("hotA", MCFolder, "tv"), Finished("hotA", MCFolder, "keep"), Finished("hotA", MCInside, "tv"),
     Kind("hotA", MCSibling, 0, "seeding", "tv", TRUE),
     Kind("coldA", MCSibling, Incomplete, "downloading", "tv", FALSE), Finished("coldB", MCSibling, "tv") >>

\* A download not imported yet, a name taken, a seed path not mounted.  The two
\* largest worlds have room for one event, the others for EventMax.
MCWorlds ==
  LET Set(k, others, q, unmounted, before) ==
        [torrents |-> [h \in DOMAIN k |-> MCKinds[k[h]]], others |-> others, queue |-> q,
         imported |-> {"sonarr"} \X {h \in DOMAIN k : <<"sonarr", h>> \notin q}, hidden |-> unmounted, events |-> before]
  IN {Set(k, {}, {}, {}, 0) : k \in {<<1, 2>>, <<1, 1>>}}
     \cup {Set(k, {}, {}, {}, EventMax - 1) : k \in {<<1, 5>>, <<1, 3, 4>>}}
     \cup {Set(<<1, 6>>, {<<"coldA", MCFolder>>}, {<<"sonarr", 1>>}, {"coldB"}, 0)}

\* Downloads of one name, ready on two paths.
MCNamesakes ==
  {[torrents |-> <<Finished("hotA", MCSibling, "tv"), Finished("hotB", MCSibling, "tv")>>, others |-> {}, queue |-> {},
    imported |-> {"sonarr"} \X {1, 2}, hidden |-> {}, events |-> 0]}

\* Grabbed; grabbed again.
MCArrivals ==
  {[hash |-> 4, torrent |-> Kind("hotA", MCInside, Incomplete, "downloading", "tv", FALSE), by |-> {"sonarr"}],
   [hash |-> 1, torrent |-> Kind("hotA", MCFolder, Incomplete, "downloading", "tv", FALSE), by |-> {"sonarr"}]}
=============================================================================
