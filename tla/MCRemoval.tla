----------------------------- MODULE MCRemoval ------------------------------
(***************************************************************************)
(* Removal for TLC: a folder, something inside it, and a sibling whose name *)
(* sorts between the two.                                                   *)
(***************************************************************************)
EXTENDS Removal, TLC

MCSlash == 47
MCFolder == <<97>>             \* a
MCInside == <<97, 47, 98>>     \* a/b
MCSibling == <<97, 46, 98>>    \* a.b
MCPaths == {<<>>, MCFolder, MCInside, MCSibling}

\* Done; left alone; not done by one of its two trackers, by days or ever; without
\* any, and done for less long.
MCTorrents ==
  LET Like(paths, seeded, asks, managed) ==
        [path : paths, seeding : {TRUE}, seeded : {seeded}, scanned : {TRUE},
         asks : {asks}, managed : {managed}]
  IN Like(MCPaths, 2, <<1>>, TRUE)
     \cup Like({MCInside}, 2, <<1>>, FALSE)
     \cup Like({MCFolder}, 1, <<2, 1>>, TRUE)
     \cup Like({MCInside}, 2, <<1, 0>>, TRUE)
     \cup Like({MCFolder}, 1, <<>>, TRUE)

MCLibraries == {{}, {MCInside}}

MCSymmetry == Permutations(Hashes)
=============================================================================
