----------------------------- MODULE MCOrphans ------------------------------
(***************************************************************************)
(* Orphans for TLC: a download folder and a library folder; a download with *)
(* a folder of its own, one saved without, one that is a file inside a      *)
(* folder, a magnet link, and leftovers beside them and inside.             *)
(***************************************************************************)
EXTENDS Orphans

Download(content, save, files) == [content |-> content, save |-> save, files |-> files]

MCDownloads ==
  {Download(<<"dl", "tv", "show">>, <<"dl", "tv">>, {<<"dl", "tv", "show", "ep1">>}),
   Download(<<"dl", "tv">>, <<"dl", "tv">>, {<<"dl", "tv", "disc", "a">>, <<"dl", "tv", "b">>}),
   Download(<<"dl", "film">>, <<"dl">>, {<<"dl", "film">>}),
   Download(NoPath, <<"dl">>, {})}

MCItems == {<<"lib", "movie">>, <<"dl", "tv", "old">>}

MCStrays == {<<"dl", "tv", "old", "x">>, <<"dl", "tv", "stray">>, <<"lib", "movie", "m">>}

Tier(name, downloads, allow) == [name |-> name, path |-> <<name>>, downloads |-> downloads, allow |-> allow]

MCConfigs ==
  {[tiers |-> {Tier("dl", TRUE, TRUE), Tier("lib", FALSE, FALSE)}, qbit |-> TRUE],
   [tiers |-> {Tier("dl", TRUE, FALSE), Tier("lib", FALSE, FALSE)}, qbit |-> TRUE],
   [tiers |-> {Tier("dl", TRUE, TRUE), Tier("lib", FALSE, FALSE)}, qbit |-> FALSE]}

MCPartial == [n \in {"film"} |-> "film.!qB"]
=============================================================================
