------------------------------ MODULE Planner -------------------------------
(***************************************************************************)
(* planner.Build: turning an inventory into phases of moves. Reclaims bring *)
(* what is wanted on hot storage back from cold; fills pack what is cold    *)
(* onto cold storage. Each may need the room the other frees, but the moves *)
(* of a phase run side by side, so what one frees only a later phase has.   *)
(*                                                                          *)
(* Sizes are small numbers, percentages are compared by cross-multiplying.  *)
(* A path is its place in the configured order of tiers and their paths.    *)
(***************************************************************************)
EXTENDS Integers, FiniteSets, Sequences, SequencesExt, Functions

\* What df says of a drive; used and free leave out what is reserved.
Reading == [total : Nat, used : Nat, free : Nat]

CONSTANTS
  Drives,      \* what storage may be: [places, volume, usage]
  Libraries,   \* what items there may be: sequences of them
  Threshold    \* PolicyConfig.ColdScoreThreshold

ASSUME DrivesAssumption ==
  \A d \in Drives :
    /\ Len(d.places) \in Nat /\ DOMAIN d.places = 1..Len(d.places)
    /\ \A p \in DOMAIN d.places :
         /\ d.places[p].target \in Nat /\ d.places[p].max \in Nat
         /\ d.places[p].role = "cold" => d.places[p].target <= d.places[p].max
    /\ DOMAIN d.usage \subseteq DOMAIN d.places
    /\ d.usage \in [DOMAIN d.usage -> Reading]
ASSUME LibrariesAssumption ==
  \A d \in Drives, l \in Libraries :
    /\ Len(l) \in Nat /\ DOMAIN l = 1..Len(l)
    /\ \A i \in DOMAIN l :
         l[i] \in [on : DOMAIN d.places, size : Nat, type : STRING, score : Int,
                  wanted : BOOLEAN, protected : BOOLEAN, small : BOOLEAN, cooling : BOOLEAN]

None == 0

VARIABLES
  input,       \* what Build is given: [places, volume, usage, items]
  at,          \* where the loop is
  working,     \* usage with every move planned so far made
  capacity,    \* usage with this phase's fills written and nothing freed
  reclaims,    \* pendingReclaims: items
  fills,       \* pendingFills: items, in the order they are tried
  scan,        \* fills attemptFills has still to look at
  target,      \* the reclaims this phase of fills should make room for, 0 for none
  goal,        \* reclaimBatchGoal
  phase,
  round,
  moved,       \* whether this round has planned a reclaim, and a fill
  entries      \* the plan: [item, from, to, phase]

vars == <<input, at, working, capacity, reclaims, fills, scan, target, goal, phase, round, moved, entries>>

Place(p) == input.places[p]
Item(i) == input.items[i]
\* Paths that passed their checks; the others are not in Usage.
Usable == DOMAIN input.usage

-----------------------------------------------------------------------------
(* Usage *)

AtLeast0(n) == IF n < 0 THEN 0 ELSE n

Plus(u, delta) == [u EXCEPT !.used = AtLeast0(@ + delta), !.free = AtLeast0(@ - delta)]

SameVolume(p, q) == input.volume[p] = input.volume[q]

\* Mutant of Apply: paths on one drive are counted apart.
ApplyToPath(usage, path, delta) ==
  [p \in DOMAIN usage |-> IF p = path THEN Plus(usage[p], delta) ELSE usage[p]]

Apply(usage, path, delta) ==
  [p \in DOMAIN usage |-> IF SameVolume(p, path) THEN Plus(usage[p], delta) ELSE usage[p]]

\* Percentages of used + free, as df has them.
Below(u, percent) == 100 * u.used <= percent * (u.used + u.free)

Holds(u, size, percent) ==
  /\ u.total # 0
  /\ size <= u.free
  /\ Below(Plus(u, size), percent)
  /\ Plus(u, size).used <= u.total

-----------------------------------------------------------------------------
(* Scoring and candidates *)

\* Mutant of Decision: a high score outweighs being wanted on hot storage.
DecisionByScore(item) ==
  CASE item.protected -> "protected"
    [] ~item.protected /\ item.score >= Threshold -> "cold"
    [] OTHER -> "hot"

\* Evaluate: wanted is a favorite, upcoming, or monitored with an unmet cutoff.
Decision(item) ==
  CASE item.protected -> "protected"
    [] ~item.protected /\ ~item.wanted /\ item.score >= Threshold -> "cold"
    [] OTHER -> "hot"

OnTier(item, role) == item.on \in Usable /\ Place(item.on).role = role

\* misplacedOnCold, in the inventory's order.
MisplacedOnCold(items) ==
  {i \in DOMAIN items : /\ OnTier(items[i], "cold")
                        /\ Decision(items[i]) # "protected"
                        /\ items[i].wanted}

ColdCandidates(items) ==
  {i \in DOMAIN items : /\ OnTier(items[i], "hot")
                        /\ Decision(items[i]) = "cold"
                        /\ ~items[i].small /\ ~items[i].cooling}

ColderThan(i, j) ==
  \/ Item(i).score > Item(j).score
  \/ Item(i).score = Item(j).score /\ Item(i).size > Item(j).size

\* Coldest and biggest first; sort.Slice leaves the order of equals open.
ColdestFirst(S) ==
  {s \in SetToSeqs(S) : \A a, b \in DOMAIN s : a < b => ~ColderThan(s[b], s[a])}

-----------------------------------------------------------------------------
(* Destinations *)

Accepting(role, item) == {p \in Usable : Place(p).role = role /\ item.type \in Place(p).media}

\* Of nothing at all, no part is used.
Whole(u) == IF u.used + u.free = 0 THEN 1 ELSE u.used + u.free

Fuller(u, w) == u.used * Whole(w) > w.used * Whole(u)

\* The fullest, the first of them if there are several.
Fullest(paths, usage) ==
  IF paths = {} THEN None
  ELSE CHOOSE p \in paths : \A q \in paths \ {p} :
         Fuller(usage[p], usage[q]) \/ (~Fuller(usage[q], usage[p]) /\ p < q)

\* Under some target if possible, else under some maximum.
PickDestination(usage, item) ==
  LET fits(p, percent) == Holds(usage[p], item.size, percent)
      preferred == {p \in Accepting("cold", item) : fits(p, Place(p).target)}
  IN IF preferred # {} THEN Fullest(preferred, usage)
     ELSE Fullest({p \in Accepting("cold", item) : fits(p, Place(p).max)}, usage)

HotOptions(usage, item) ==
  {p \in Accepting("hot", item) : Holds(usage[p], item.size, Place(p).max)}

\* Room left to the ceiling, in hundredths.
Room(u, percent) == Min({100 * u.free, percent * (u.used + u.free) - 100 * u.used})

\* Options by the room left, tightest first, as configured among equals.
Tighter(usage, p, q) ==
  LET a == Room(usage[p], Place(p).max)
      b == Room(usage[q], Place(q).max)
  IN a < b \/ (a = b /\ p < q)

TightestFirst(options, usage) ==
  CHOOSE s \in SetToSeqs(options) : \A a, b \in DOMAIN s : a < b => ~Tighter(usage, s[b], s[a])

-----------------------------------------------------------------------------
(* Allocating reclaims *)

\* Fewest options, then largest, then first.
MoreConstrained(usage, i, j) ==
  LET m == Cardinality(HotOptions(usage, Item(i)))
      n == Cardinality(HotOptions(usage, Item(j)))
  IN \/ m < n
     \/ m = n /\ Item(i).size > Item(j).size
     \/ m = n /\ Item(i).size = Item(j).size /\ i < j

Placeable(pending, usage) == {i \in pending : HotOptions(usage, Item(i)) # {}}

Put(node, i, p) ==
  [placed |-> Append(node.placed, <<i, p>>), usage |-> Apply(node.usage, p, Item(i).size)]

\* One turn of greedyReclaimPlacements' loop: nextReclaim, if there is one.
PlaceNext(pending, node) ==
  LET left == Placeable(pending \ {x[1] : x \in ToSet(node.placed)}, node.usage)
  IN IF left = {} THEN node
     ELSE LET i == CHOOSE i \in left : \A j \in left : ~MoreConstrained(node.usage, j, i)
          IN Put(node, i, TightestFirst(HotOptions(node.usage, Item(i)), node.usage)[1])

Greedy(pending, usage) ==
  FoldLeft(LAMBDA node, k : PlaceNext(pending, node), [placed |-> <<>>, usage |-> usage],
           [k \in 1..Cardinality(pending) |-> k]).placed

\* What search tries for one candidate, in turn: each option, then none.
Branches(node, i) ==
  LET options == TightestFirst(HotOptions(node.usage, Item(i)), node.usage)
  IN Append([k \in DOMAIN options |-> Put(node, i, options[k])], node)

SearchOrder(S, usage) ==
  CHOOSE s \in SetToSeqs(S) : \A a, b \in DOMAIN s : a < b => ~MoreConstrained(usage, s[b], s[a])

Grow(nodes, i) == FlattenSeq([k \in DOMAIN nodes |-> Branches(nodes[k], i)])

\* The leaves of search's tree, from left to right, without its node budget.
Leaves(pending, usage) ==
  FoldLeft(Grow, <<[placed |-> <<>>, usage |-> usage]>>, SearchOrder(Placeable(pending, usage), usage))

\* Mutant of AllocateReclaims: no search.
AllocateGreedily(pending, usage) == Greedy(pending, usage)

\* The first leaf that places most, if it places more than the heuristic.
AllocateReclaims(pending, usage) ==
  LET seed == Greedy(pending, usage)
      leaves == Leaves(pending, usage)
      most == Max({Len(leaves[k].placed) : k \in DOMAIN leaves})
  IN IF Len(seed) = Cardinality(pending) \/ most <= Len(seed) THEN seed
     ELSE leaves[Min({k \in DOMAIN leaves : Len(leaves[k].placed) = most})].placed

PlaceableReclaimCount(pending, usage) == Len(Greedy(pending, usage))

\* A move made: its source freed, its destination written.
Move(usage, from, to, size) == Apply(Apply(usage, from, -size), to, size)

\* A fill that fits, where it would go: capacity with nothing freed, projected
\* with everything.
Project(state, i) ==
  LET to == PickDestination(state.capacity, Item(i))
  IN IF to = None THEN state
     ELSE [capacity |-> Apply(state.capacity, to, Item(i).size),
           projected |-> Move(state.projected, Item(i).on, to, Item(i).size)]

\* Usage after every one of the fills that fits.
AfterFills(order, room, usage) ==
  FoldLeft(Project, [capacity |-> room, projected |-> usage], order).projected

\* reclaimBatchTarget: what could be reclaimed after the fills, at most the goal.
BatchTarget(pendingFills, pending, limit, usage) ==
  IF pending = {} THEN 0
  ELSE Min({limit, PlaceableReclaimCount(pending, AfterFills(pendingFills, usage, usage))})

-----------------------------------------------------------------------------
(* Build *)

Inputs == {[places |-> d.places, volume |-> d.volume, usage |-> d.usage, items |-> l] :
           d \in Drives, l \in Libraries}

\* What the apps say is on a drive is on it.
Accounted(in) ==
  \A p \in DOMAIN in.usage :
    SumFunctionOnSet([i \in DOMAIN in.items |-> in.items[i].size],
                     {i \in DOMAIN in.items : in.volume[in.items[i].on] = in.volume[p]}) <= in.usage[p].used

Init ==
  /\ input \in {in \in Inputs : Accounted(in)}
  /\ at = "reclaims"
  /\ working = input.usage /\ capacity = input.usage
  /\ reclaims = MisplacedOnCold(input.items)
  /\ fills \in ColdestFirst(ColdCandidates(input.items))
  /\ scan = <<>> /\ target = 0 /\ goal = 1 /\ phase = 0 /\ round = 0
  /\ moved = [reclaims |-> FALSE, fills |-> FALSE]
  /\ entries = <<>>

MaxRounds == Cardinality(MisplacedOnCold(input.items)) + Cardinality(ColdCandidates(input.items)) + 1

\* Fourfold, up to all that are pending.
NextGoal(pending) ==
  IF goal >= pending THEN goal
  ELSE IF goal > pending \div 4 THEN pending ELSE 4 * goal

Reclaimed(usage, x) == Move(usage, Item(x[1]).on, x[2], Item(x[1]).size)

AttemptReclaims ==
  /\ at = "reclaims" /\ at' = "batch"
  /\ LET placed == AllocateReclaims(reclaims, working)
         any == placed # <<>>
     IN /\ entries' = entries \o [k \in DOMAIN placed |->
             [item |-> placed[k][1], from |-> Item(placed[k][1]).on, to |-> placed[k][2], phase |-> phase]]
        /\ working' = FoldLeft(Reclaimed, working, placed)
        /\ reclaims' = reclaims \ {x[1] : x \in ToSet(placed)}
        /\ moved' = [reclaims |-> any, fills |-> FALSE]
        /\ phase' = IF any THEN phase + 1 ELSE phase
        /\ goal' = IF any THEN NextGoal(Cardinality(reclaims')) ELSE goal
  /\ UNCHANGED <<input, capacity, fills, scan, target, round>>

\* attemptFills begins.
StartFills ==
  /\ at = "batch" /\ at' = "fills"
  /\ target' = BatchTarget(fills, reclaims, goal, working)
  /\ capacity' = working
  /\ scan' = fills /\ fills' = <<>>
  /\ UNCHANGED <<input, working, reclaims, goal, phase, round, moved, entries>>

NoRoomForFill ==
  /\ at = "fills" /\ scan # <<>>
  /\ PickDestination(capacity, Item(Head(scan))) = None
  /\ fills' = Append(fills, Head(scan)) /\ scan' = Tail(scan)
  /\ UNCHANGED <<input, at, working, capacity, reclaims, target, goal, phase, round, moved, entries>>

\* Mutant of PlanFill: what it frees may be spent at once.
PlanFillFreeing ==
  /\ at = "fills" /\ scan # <<>>
  /\ LET i == Head(scan)
         to == PickDestination(capacity, Item(i))
     IN /\ to # None
        /\ entries' = Append(entries, [item |-> i, from |-> Item(i).on, to |-> to, phase |-> phase])
        /\ capacity' = Move(capacity, Item(i).on, to, Item(i).size)
        /\ working' = Move(working, Item(i).on, to, Item(i).size)
  /\ moved' = [moved EXCEPT !.fills = TRUE]
  /\ IF target > 0 /\ PlaceableReclaimCount(reclaims, working') >= target
     THEN scan' = <<>> /\ fills' = fills \o Tail(scan)
     ELSE scan' = Tail(scan) /\ UNCHANGED fills
  /\ UNCHANGED <<input, at, reclaims, target, goal, phase, round>>

\* Mutant of PlanFill: every fill goes first.
PlanFillRegardless ==
  /\ at = "fills" /\ scan # <<>>
  /\ LET i == Head(scan)
         to == PickDestination(capacity, Item(i))
     IN /\ to # None
        /\ entries' = Append(entries, [item |-> i, from |-> Item(i).on, to |-> to, phase |-> phase])
        /\ capacity' = Apply(capacity, to, Item(i).size)
        /\ working' = Move(working, Item(i).on, to, Item(i).size)
  /\ moved' = [moved EXCEPT !.fills = TRUE]
  /\ scan' = Tail(scan)
  /\ UNCHANGED <<input, at, reclaims, fills, target, goal, phase, round>>

\* Mutant of PlanFill: those not looked at are forgotten.
PlanFillForgetting ==
  /\ at = "fills" /\ scan # <<>>
  /\ LET i == Head(scan)
         to == PickDestination(capacity, Item(i))
     IN /\ to # None
        /\ entries' = Append(entries, [item |-> i, from |-> Item(i).on, to |-> to, phase |-> phase])
        /\ capacity' = Apply(capacity, to, Item(i).size)
        /\ working' = Move(working, Item(i).on, to, Item(i).size)
  /\ moved' = [moved EXCEPT !.fills = TRUE]
  /\ scan' = IF target > 0 /\ PlaceableReclaimCount(reclaims, working') >= target THEN <<>> ELSE Tail(scan)
  /\ UNCHANGED <<input, at, reclaims, fills, target, goal, phase, round>>

\* Once enough reclaims have room, the other fills wait for a later phase.
PlanFill ==
  /\ at = "fills" /\ scan # <<>>
  /\ LET i == Head(scan)
         to == PickDestination(capacity, Item(i))
     IN /\ to # None
        /\ entries' = Append(entries, [item |-> i, from |-> Item(i).on, to |-> to, phase |-> phase])
        /\ capacity' = Apply(capacity, to, Item(i).size)
        /\ working' = Move(working, Item(i).on, to, Item(i).size)
  /\ moved' = [moved EXCEPT !.fills = TRUE]
  /\ IF target > 0 /\ PlaceableReclaimCount(reclaims, working') >= target
     THEN scan' = <<>> /\ fills' = fills \o Tail(scan)
     ELSE scan' = Tail(scan) /\ UNCHANGED fills
  /\ UNCHANGED <<input, at, reclaims, target, goal, phase, round>>

EndRound ==
  /\ at = "fills" /\ scan = <<>>
  /\ phase' = IF moved.fills THEN phase + 1 ELSE phase
  /\ round' = round + 1
  /\ at' = IF (moved.reclaims \/ moved.fills) /\ round' < MaxRounds THEN "reclaims" ELSE "planned"
  /\ UNCHANGED <<input, working, capacity, reclaims, fills, scan, target, goal, moved, entries>>

Next == AttemptReclaims \/ StartFills \/ NoRoomForFill \/ PlanFill \/ EndRound

Spec == Init /\ [][Next]_vars

-----------------------------------------------------------------------------
(* Properties *)

Items == DOMAIN input.items

TypeOK ==
  /\ input \in Inputs
  /\ at \in {"reclaims", "batch", "fills", "planned"}
  /\ working \in [Usable -> Reading] /\ capacity \in [Usable -> Reading]
  /\ reclaims \subseteq Items /\ fills \in Seq(Items) /\ scan \in Seq(Items)
  /\ target \in Nat /\ goal \in Nat /\ phase \in Nat /\ round \in Nat
  /\ moved \in [reclaims : BOOLEAN, fills : BOOLEAN]
  /\ entries \in Seq([item : Items, from : Usable, to : Usable, phase : Nat])

Sizes == [k \in DOMAIN entries |-> Item(entries[k].item).size]

\* Bytes the entries in K write to a path's volume, or take from it.
Written(K, path) == SumFunctionOnSet(Sizes, {k \in K : SameVolume(entries[k].to, path)})
Freed(K, path)   == SumFunctionOnSet(Sizes, {k \in K : SameVolume(entries[k].from, path)})

\* The paths of a drive are read one after another, and need not read the same.
EvenlyRead(p) == \A q \in Usable : SameVolume(p, q) => input.usage[q] = input.usage[p]

\* "A move is never allowed to spend space another move in that same phase
\* only promises to free": when its turn comes, with all of the earlier phases
\* landed, and all that is ahead of it in its own written and nothing freed, a
\* move stays within its destination's ceiling. Where two paths of a drive read
\* apart, what one has left is taken for none before it is freed again.
PhaseFits ==
  \A k \in DOMAIN entries :
    LET to == entries[k].to
        earlier == {m \in DOMAIN entries : entries[m].phase < entries[k].phase}
        growth == Written(earlier \cup 1..k, to) - Freed(earlier, to)
        start == input.usage[to]
    IN EvenlyRead(to) => /\ growth <= start.free
                         /\ 100 * (start.used + growth) <= Place(to).max * (start.used + start.free)

\* Whether hot paths have room for all of S side by side: each of them finds
\* its own with all of the others there.
RoomForAll(S, usage) ==
  \E to \in [S -> Usable] : \A i \in S :
    LET others == SumFunctionOnSet([j \in S |-> Item(j).size],
                                   {j \in S \ {i} : SameVolume(to[j], to[i])})
    IN to[i] \in HotOptions(Apply(usage, to[i], others), Item(i))

\* "The largest feasible reclaim set in one phase": no choice of items and paths
\* that fit together would bring more of them back.
LargestReclaims ==
  at = "reclaims" =>
    \A S \in SUBSET reclaims :
      RoomForAll(S, working) => Cardinality(S) <= Len(AllocateReclaims(reclaims, working))

\* Each item that should move is planned once, or left over and warned about.
NoneForgotten ==
  LET planned == {entries[k].item : k \in DOMAIN entries}
  IN /\ planned \cup reclaims \cup ToSet(fills) \cup ToSet(scan)
          = MisplacedOnCold(input.items) \cup ColdCandidates(input.items)
     /\ Cardinality(planned \cup reclaims \cup ToSet(fills) \cup ToSet(scan))
          = Len(entries) + Cardinality(reclaims) + Len(fills) + Len(scan)

\* Once the plan has landed there is nothing left to plan: no move is undone by
\* the next plan, and what was left over has no room.
ReplanIsEmpty ==
  at = "planned" =>
    LET whole == DOMAIN entries
        usage == [p \in Usable |-> Plus(input.usage[p], Written(whole, p) - Freed(whole, p))]
        Planned(i) == {k \in whole : entries[k].item = i}
        items == [i \in Items |-> IF Planned(i) = {} THEN Item(i)
                                  ELSE [Item(i) EXCEPT !.on = entries[CHOOSE k \in Planned(i) : TRUE].to]]
    IN /\ \A i \in MisplacedOnCold(items) : HotOptions(usage, items[i]) = {}
       /\ \A i \in ColdCandidates(items) : PickDestination(usage, items[i]) = None

\* A hot path may share its drive with a cold one, or with one of another
\* ceiling or reading.
SharedUnevenly ==
  \E p, q \in Usable :
    /\ Place(p).role = "hot" /\ SameVolume(p, q)
    /\ \/ Place(q).role = "cold"
       \/ /\ Place(q).role = "hot"
          /\ Place(q).max # Place(p).max \/ input.usage[q] # input.usage[p]

\* "The first newly safe hot-bound item runs immediately": no fill is planned
\* while as many reclaims have room as the wave asks for. It does not hold where
\* a hot and a cold path share a drive: a reclaim frees room there for another,
\* and a fill, planned next, may take it. Nor where two hot paths of different
\* ceilings do: what is placed most of may leave room under the higher one.
HotBoundFirst ==
  [][\/ at # "fills" \/ entries' = entries
     \/ PlaceableReclaimCount(reclaims, working) < goal
     \/ SharedUnevenly]_vars
=============================================================================
