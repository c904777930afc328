----------------------------- MODULE MCMoveRun -----------------------------
(* MoveRun for TLC: two cold tiers on one drive, a third on another, and a  *)
(* hot tier the moves come from.                                            *)
EXTENDS MoveRun

MCPaths == {"coldA", "coldB", "coldC", "hot"}
MCDisks == {"d1", "d2", "d3"}
MCDisk  == [p \in MCPaths |-> CASE p \in {"coldA", "coldB"} -> "d1"
                                [] p = "coldC"              -> "d2"
                                [] OTHER                    -> "d3"]
\* d1 holds what may be reclaimed and has room for two items more, d2 has for one.
MCLimit    == [p \in MCPaths |-> CASE p = "hot" -> 9 [] p = "coldC" -> 1 [] OTHER -> 3]
MCOccupied == [d \in MCDisks |-> CASE d = "d3" -> 5 [] d = "d1" -> 1 [] OTHER -> 0]

Fill(n, p)    == [phase |-> n, src |-> "hot", dest |-> p, size |-> 1, bytes |-> 1]
Reclaim(n, p) == [phase |-> n, src |-> p, dest |-> "hot", size |-> 1, bytes |-> 1]
UnknownSize(n, p) == [Fill(n, p) EXCEPT !.size = 0]

\* Three fills: one queue, one queue beside another drive, one over two tiers, a
\* dependent phase in front of or behind them, a plan listing the later phase
\* first, and one with an item of unknown size.
Spread(n, p) == [e \in Entries |-> Fill(n[e], p[e])]
SpreadPlans ==
  { Spread(<<1, 1, 1>>, <<"coldA", "coldA", "coldA">>),
    Spread(<<1, 1, 1>>, <<"coldA", "coldA", "coldC">>),
    Spread(<<2, 1, 1>>, <<"coldC", "coldB", "coldA">>),
    Spread(<<1, 2, 3>>, <<"coldA", "coldC", "coldB">>),
    [Spread(<<1, 1, 2>>, <<"coldA", "coldB", "coldB">>) EXCEPT ![1] = UnknownSize(1, "coldA")] }

\* A reclaim makes the room a later fill needs, next to a busy other drive
\* or a fill of the same.
ReclaimThenFill ==
  {[e \in Entries |-> CASE e = 1 -> Reclaim(1, "coldA")
                        [] e = 2 -> first
                        [] OTHER -> [Fill(2, "coldB") EXCEPT !.size = 2, !.bytes = 2]] :
     first \in {Fill(1, "coldA"), Fill(1, "coldC")}}

MCPlans == SpreadPlans \cup ReclaimThenFill

AllKnown    == [serial |-> FALSE, known |-> MCPaths]
HalfKnown   == [serial |-> FALSE, known |-> {"coldA", "hot"}]
SerialQueue == [serial |-> TRUE, known |-> {}]

MCOptions == {AllKnown, HalfKnown, SerialQueue}
=============================================================================
