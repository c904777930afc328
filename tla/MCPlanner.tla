----------------------------- MODULE MCPlanner ------------------------------
(***************************************************************************)
(* Planner for TLC: small libraries on a few layouts of drives, paths 1 and *)
(* 2 hot, 3 and 4 cold.                                                     *)
(***************************************************************************)
EXTENDS Planner

Both == {"movie", "tv"}
Hot(media, max) == [role |-> "hot", media |-> media, target |-> 0, max |-> max]
Cold(media, aim, max) == [role |-> "cold", media |-> media, target |-> aim, max |-> max]
Drive(used, free) == [total |-> 10, used |-> used, free |-> free]

\* One of the hot paths unavailable; two of which one takes no TV.
OneHot == [places |-> <<Hot(Both, 90), Hot(Both, 90), Cold(Both, 70, 90), Cold({"movie"}, 80, 100)>>,
           volume |-> <<1, 2, 3, 4>>]
TwoHot == [places |-> <<Hot(Both, 80), Hot({"movie"}, 100), Cold(Both, 80, 100), Cold(Both, 80, 100)>>,
           volume |-> <<1, 2, 3, 4>>]
\* A hot and a cold path on one drive.
OneDrive == [places |-> <<Hot(Both, 100), Hot(Both, 100), Cold(Both, 80, 100), Cold(Both, 100, 100)>>,
             volume |-> <<1, 2, 1, 3>>]

\* Two hot paths of different ceilings on one drive.
TwoCeilings == [places |-> <<Hot({"tv"}, 80), Hot({"movie"}, 100), Cold(Both, 100, 100), Cold(Both, 100, 100)>>,
                volume |-> <<1, 1, 2, 3>>]

With(layout, usage) == [places |-> layout.places, volume |-> layout.volume, usage |-> usage]

MCDrives ==
  {With(OneHot, 1 :> Drive(8, 2) @@ 3 :> Drive(7, 3) @@ 4 :> Drive(8, 1)),
   With(OneHot, 1 :> Drive(9, 1) @@ 3 :> Drive(8, 2) @@ 4 :> Drive(9, 1)),
   With(TwoHot, <<Drive(4, 6), Drive(9, 1), Drive(9, 1), Drive(8, 2)>>),
   With(TwoHot, <<Drive(8, 2), Drive(9, 1), Drive(7, 3), Drive(9, 1)>>),
   With(TwoCeilings, <<Drive(6, 4), Drive(6, 4), Drive(7, 3), Drive(4, 6)>>),
   With(TwoCeilings, <<Drive(5, 4), Drive(7, 1), Drive(7, 3), Drive(4, 6)>>),
   With(OneDrive, <<Drive(8, 2), Drive(9, 1), Drive(8, 2), Drive(9, 1)>>)}

\* To be filled, wanted back, or left alone for some reason.
Kind(on, size, type, flags) ==
  [on |-> on, size |-> size, type |-> type,
   wanted |-> "wanted" \in flags, protected |-> "protected" \in flags,
   score |-> IF "colder" \in flags THEN 2 ELSE 1, small |-> "small" \in flags, cooling |-> "cooling" \in flags]
Kinds ==
  {Kind(p, n, "movie", {}) : p \in 1..2, n \in 1..3}
  \cup {Kind(p, n, "movie", {"wanted"}) : p \in 3..4, n \in 1..3}
  \cup {Kind(p, 2, "tv", {"colder"}) : p \in 1..2}
  \cup {Kind(p, 2, "tv", {"wanted", "cooling", "small"}) : p \in 3..4}
  \cup {Kind(1, 1, "tv", {"cooling"}), Kind(3, 1, "tv", {"wanted", "protected"}),
        Kind(1, 1, "tv", {"wanted"})}

\* What is placed most of need not leave the third without room.
Crowded == <<Kind(3, 2, "movie", {"wanted"}), Kind(3, 1, "tv", {"wanted"}),
             Kind(4, 1, "tv", {"wanted"}), Kind(1, 1, "tv", {})>>

MCLibraries == UNION {[1..n -> Kinds] : n \in 1..3} \cup {Crowded}
=============================================================================
