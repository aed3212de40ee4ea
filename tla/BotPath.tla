------------------------------ MODULE BotPath ------------------------------
(***************************************************************************)
(* The way of a bot across the blocks (botnav/path.go) and how it is kept  *)
(* while the bot is knocked about (follow, dropRoute and goToFar of        *)
(* botai/brain.go).                                                        *)
(*                                                                         *)
(* A search is weighted A* over feet cells: walking, jumps of one block,   *)
(* drops, bridges and stairs made of the blocks the bot carries, leaps.    *)
(* It reads the world as it is and builds nothing, so what the later steps *)
(* of a route stand on may be blocks the earlier steps promise to put      *)
(* down.  The bot then follows the route a cell at a time; a blow may put  *)
(* it on another cell, or on the edge of a block with nothing under the    *)
(* cell its feet are in.                                                   *)
(*                                                                         *)
(* Costs are in tenths of the code's.                                      *)
(***************************************************************************)
EXTENDS BotBlocks

CONSTANTS
  Courses,      \* the worlds and errands: [kind, start, aim]
  Levels,       \* bound: the values of y that hold anything
  MaxBlocks,    \* the blocks the bot carries: Opts.MaxBlocks
  PathBudget,   \* Opts.Budget
  MaxKnocks     \* bound: the blows the bot takes

VARIABLES
  course,    \* the errand
  blocks,    \* the world: the cells that are not air, with their block
  carried,   \* the blocks left in the bot's inventory
  mode,      \* "search", "going", "lost", "fallen", "there", "nowhere"
  maxPlace,  \* the blocks this search may place: none, then all
  open,      \* the heap
  best,      \* the cheapest cost pushed for each cell
  expanded,  \* the nodes popped
  route, routeIdx, routeStart,
  lastRoute, \* a route the bot was knocked off
  resumed,   \* the step it was last picked up at, if any
  onEdge,    \* the route was searched from a cell with nothing under it
  here,      \* the cell of the bot's feet
  knocks

pathVars == <<course, blocks, carried, mode, maxPlace, open, best, expanded, route,
              routeIdx, routeStart, lastRoute, resumed, onEdge, here, knocks>>

ASSUME PathAssumption ==
  /\ MaxBlocks \in Nat /\ PathBudget \in Nat /\ MaxKnocks \in Nat
  /\ \A c \in Courses : c.start \in Int \X Int \X Int

searchVars == <<maxPlace, open, best, expanded>>
followVars == <<route, routeIdx, routeStart, lastRoute, resumed, onEdge>>

-----------------------------------------------------------------------------
(* The search. *)

Root(n) == CHOOSE r \in 0..2000 : r * r <= n /\ n < (r + 1) * (r + 1)

\* pathGreed (4.5) times the distance to the aim, in tenths.
Steer(p) ==
  LET a == course.aim
  IN  Root(2025 * ((p[1] - a[1])^2 + (p[2] - a[2])^2 + (p[3] - a[3])^2))

Pushed(n, m) ==
  [cell |-> m.cell, g |-> n.g + m.cost, f |-> n.g + m.cost + Steer(m.cell),
   path |-> Append(n.path, [cell |-> m.cell, place |-> m.place, leap |-> m.leap]),
   used |-> n.used + Len(m.place), placed |-> m.place # <<>>]

\* The pushes of an expansion that are kept: cheap enough, and better than
\* what was pushed for the cell before.
Kept(n) ==
  {e \in {Pushed(n, m) : m \in Moves(blocks, n)} :
     e.used <= maxPlace /\ (e.cell \in DOMAIN best => e.g < best[e.cell])}

StartNode(cell) ==
  [cell |-> cell, g |-> 0, f |-> Steer(cell), path |-> <<>>, used |-> 0, placed |-> FALSE]

BeginSearch(limit) ==
  /\ mode' = "search" /\ maxPlace' = limit
  /\ open' = {StartNode(here)}
  /\ best' = [p \in {here} |-> 0]
  /\ expanded' = 0

\* What a finished search leaves for the garbage collector.
Forget == open' = {} /\ best' = <<>> /\ expanded' = 0 /\ maxPlace' = 0

Popped(n) == n \in open /\ \A e \in open : n.f <= e.f

Expand ==
  /\ mode = "search" /\ expanded < PathBudget
  /\ \E n \in open :
       /\ Popped(n)
       /\ n.cell # course.aim
       /\ \E kept \in {Kept(n)} :
              /\ open' = (open \ {n}) \cup kept
              /\ best' = [p \in DOMAIN best \cup {e.cell : e \in kept} |->
                            IF \E e \in kept : e.cell = p
                            THEN (CHOOSE e \in kept : e.cell = p).g ELSE best[p]]
  /\ expanded' = expanded + 1
  /\ UNCHANGED <<course, blocks, carried, mode, maxPlace, followVars, here, knocks>>

Found ==
  /\ mode = "search" /\ expanded < PathBudget
  /\ \E n \in open :
       /\ Popped(n)
       /\ n.cell = course.aim
       /\ route' = n.path
  /\ routeIdx' = 1 /\ routeStart' = here /\ resumed' = <<>>
  /\ onEdge' = ~ GroundUnder(blocks, here)
  /\ mode' = "going"
  /\ Forget
  /\ UNCHANGED <<course, blocks, carried, lastRoute, here, knocks>>

\* FindRoute: what walking cannot reach is searched again with the blocks.
Exhausted ==
  /\ mode = "search"
  /\ open = {} \/ expanded >= PathBudget
  /\ IF maxPlace = 0 /\ carried > 0
     THEN BeginSearch(carried)
     ELSE mode' = "nowhere" /\ Forget
  /\ UNCHANGED <<course, blocks, carried, followVars, here, knocks>>

-----------------------------------------------------------------------------
(* Following the route. *)

Step == route[routeIdx]
Prev == IF routeIdx > 1 THEN route[routeIdx - 1].cell ELSE routeStart

\* nextPlacement: the step's blocks that are not in place yet, the next of them.
Unbuilt(s) == {k \in DOMAIN s.place : ~ PathCollides(blocks, s.place[k])}
IsNext(k, some) == k \in some /\ \A j \in some : k <= j

HopSkip == 5

\* A later step the bot has landed on, whose blocks are down.
Skipped ==
  {k \in (routeIdx + 1)..Len(route) :
     k <= routeIdx + HopSkip /\ route[k].cell = here /\ Unbuilt(route[k]) = {}}

OnWay == here = Prev \/ here = Step.cell

Arrived ==
  /\ mode = "going" /\ routeIdx > Len(route)
  /\ mode' = "there" /\ route' = <<>> /\ routeIdx' = 1
  /\ UNCHANGED <<course, blocks, carried, searchVars, routeStart, lastRoute, resumed, onEdge, here, knocks>>

Hop ==
  /\ mode = "going" /\ routeIdx <= Len(route) /\ ~ OnWay
  /\ Skipped # {}
  /\ \E k \in Skipped : IsNext(k, Skipped) /\ routeIdx' = k + 1
  /\ UNCHANGED <<course, blocks, carried, mode, searchVars, route, routeStart, lastRoute, resumed, onEdge, here, knocks>>

\* dropRoute.
DropRoute ==
  /\ mode = "going" /\ routeIdx <= Len(route) /\ ~ OnWay
  /\ Skipped = {}
  /\ lastRoute' = route /\ route' = <<>> /\ routeIdx' = 1
  /\ mode' = "lost"
  /\ UNCHANGED <<course, blocks, carried, searchVars, routeStart, resumed, onEdge, here, knocks>>

\* The bot walks to the middle of a cell: with nothing under it, it falls.
WalkTo(cell) ==
  /\ here' = cell
  /\ mode' = IF GroundUnder(blocks, cell) THEN "going" ELSE "fallen"

\* Back to the middle of the cell before, to build the step from there.
StepBack ==
  /\ mode = "going" /\ routeIdx <= Len(route) /\ OnWay
  /\ Unbuilt(Step) # {}
  /\ here # Prev \/ ~ GroundUnder(blocks, here)
  /\ WalkTo(Prev)
  /\ UNCHANGED <<course, blocks, carried, searchVars, followVars, knocks>>

Lay ==
  /\ mode = "going" /\ routeIdx <= Len(route)
  /\ here = Prev /\ GroundUnder(blocks, here)
  /\ Unbuilt(Step) # {}
  /\ IF carried > 0
     THEN /\ \E k \in Unbuilt(Step) :
               /\ IsNext(k, Unbuilt(Step))
               /\ blocks' = [p \in DOMAIN blocks \cup {Step.place[k]} |->
                               IF p \in DOMAIN blocks THEN blocks[p] ELSE "full"]
          /\ carried' = carried - 1
          /\ UNCHANGED <<mode, route, routeIdx>>
     ELSE /\ route' = <<>> /\ routeIdx' = 1 /\ mode' = "lost"
          /\ UNCHANGED <<blocks, carried>>
  /\ UNCHANGED <<course, searchVars, routeStart, lastRoute, resumed, onEdge, here, knocks>>

WalkOn ==
  /\ mode = "going" /\ routeIdx <= Len(route) /\ OnWay
  /\ Unbuilt(Step) = {}
  /\ WalkTo(Step.cell)
  /\ routeIdx' = routeIdx + 1
  /\ UNCHANGED <<course, blocks, carried, searchVars, route, routeStart, lastRoute, resumed, onEdge, knocks>>

-----------------------------------------------------------------------------
(* Picking a lost route up again. *)

Near(a, b) == a[2] = b[2] /\ a[1] - b[1] \in -1..1 /\ a[3] - b[3] \in -1..1
Dist2(a, b) == (a[1] - b[1])^2 + (a[3] - b[3])^2

\* ResumeAt, for a bot that looks at nothing but the distance.
NearestStep(r, p) ==
  LET near    == {i \in DOMAIN r : Near(r[i].cell, p)}
      dist(i) == Dist2(r[i].cell, p)
      i       == CHOOSE k \in near : \A j \in near : dist(k) < dist(j) \/ (dist(k) = dist(j) /\ j <= k)
  IN  IF near = {} THEN 0 ELSE IF dist(i) = 0 THEN i + 1 ELSE i

BugResumeAt(w, r, p) == NearestStep(r, p)

\* The step to go on with from p, 0 for none: the one after the cell it
\* stands on, or the one next to it, but not from a cell over nothing.
ResumeAt(w, r, p) == IF GroundUnder(w, p) THEN NearestStep(r, p) ELSE 0

ResumeFrom(r, i, p) ==
  LET rest == SubSeq(r, i, Len(r))
  IN  IF i = 1 \/ r[i - 1].cell # p THEN [rest EXCEPT ![1].leap = FALSE] ELSE rest

Resume ==
  /\ mode = "lost" /\ here # course.aim
  /\ LET i == ResumeAt(blocks, lastRoute, here)
     IN  /\ lastRoute # <<>> /\ i \in 1..Len(lastRoute)
         /\ resumed # lastRoute[i].cell
         /\ route' = ResumeFrom(lastRoute, i, here)
         /\ resumed' = lastRoute[i].cell
  /\ routeIdx' = 1 /\ routeStart' = here /\ lastRoute' = <<>> /\ onEdge' = FALSE
  /\ mode' = "going"
  /\ UNCHANGED <<course, blocks, carried, searchVars, here, knocks>>

SearchAgain ==
  /\ mode = "lost" /\ here # course.aim
  /\ LET i == ResumeAt(blocks, lastRoute, here)
     IN  ~ (lastRoute # <<>> /\ i \in 1..Len(lastRoute) /\ resumed # lastRoute[i].cell)
  /\ lastRoute' = <<>>
  /\ BeginSearch(0)
  /\ UNCHANGED <<course, blocks, carried, route, routeIdx, routeStart, resumed, onEdge, here, knocks>>

Home ==
  /\ mode = "lost" /\ here = course.aim
  /\ mode' = "there"
  /\ UNCHANGED <<course, blocks, carried, searchVars, followVars, here, knocks>>

\* The cells a bot can be standing in: on a floor, or over nothing, on the
\* edge of the block next to it.
Fits(p) == CellClear(blocks, p) /\ HeadClear(blocks, Above(p, 1))
Holding(p) ==
  /\ Fits(p)
  /\ \/ GroundUnder(blocks, p)
     \/ \E d \in Cardinals : LET q == Moved(p, d[1], 0, d[2])
                             IN Fits(q) /\ Reaches(blocks, Above(q, -1), 9)

\* A blow, a push, a blast: the bot comes down somewhere else close by.
Knocked ==
  /\ mode = "going" /\ knocks < MaxKnocks
  /\ knocks' = knocks + 1
  /\ \E x \in -2..2, y \in -1..0, z \in -1..1 :
       /\ here' = Moved(here, x, y, z)
       /\ here' # here /\ here'[2] \in Levels
       /\ Holding(here')
  /\ UNCHANGED <<course, blocks, carried, mode, searchVars, followVars>>

-----------------------------------------------------------------------------
PathInit ==
  /\ course \in Courses
  /\ blocks = course.kind
  /\ here = course.start
  /\ carried = MaxBlocks
  /\ mode = "search" /\ maxPlace = 0
  /\ open = {StartNode(course.start)}
  /\ best = [p \in {course.start} |-> 0]
  /\ expanded = 0
  /\ route = <<>> /\ routeIdx = 1 /\ routeStart = course.start
  /\ lastRoute = <<>> /\ resumed = <<>> /\ onEdge = FALSE
  /\ knocks = 0

PathNext ==
  \/ Expand \/ Found \/ Exhausted
  \/ Arrived \/ Hop \/ DropRoute \/ StepBack \/ Lay \/ WalkOn
  \/ Resume \/ SearchAgain \/ Home
  \/ Knocked

PathSpec == PathInit /\ [][PathNext]_pathVars

PathTypeOK ==
  /\ carried \in 0..MaxBlocks
  /\ mode \in {"search", "going", "lost", "fallen", "there", "nowhere"}
  /\ maxPlace \in 0..MaxBlocks
  /\ expanded \in 0..PathBudget
  /\ routeIdx \in 1..(Len(route) + 1)
  /\ knocks \in 0..MaxKnocks

\* The world once the blocks of the first i steps of r are down.
After(r, i) ==
  LET laid == UNION {{r[k].place[j] : j \in DOMAIN r[k].place} : k \in 1..i}
  IN  [p \in DOMAIN blocks \cup laid |-> IF p \in DOMAIN blocks THEN blocks[p] ELSE "full"]

From(i) == IF i = 1 THEN routeStart ELSE route[i - 1].cell
Climbs(i) == route[i].cell[2] > From(i)[2]

(* A route that was just searched can be walked: with the blocks of the    *)
(* steps so far down, each step ends on a cell the bot can stand in, has   *)
(* the room over it that a jump takes, and does not bury the cell its      *)
(* blocks are laid from; and the route asks for no more blocks than the    *)
(* bot has.  findPath looks for the later steps in a world without the     *)
(* blocks of the earlier ones.                                             *)
RoutesHold ==
  (mode = "going" /\ routeIdx = 1 /\ resumed = <<>>) =>
     /\ \A i \in 1..Len(route) : /\ Standable(After(route, i), route[i].cell)
                                 /\ i > 1 => Standable(After(route, i), route[i - 1].cell)
                                 /\ Climbs(i) => HeadClear(After(route, i), Above(From(i), 2))
     /\ Cardinality(DOMAIN After(route, Len(route)) \ DOMAIN blocks) <= carried

(* A bot knocked about falls only where it is pushed, never by walking on: *)
(* whatever it resumes, hops to or goes back to build from is held by a    *)
(* block (ResumeAt and the skipping of steps in follow; the code's         *)
(* comments: the next move went into the void).  A route searched afresh   *)
(* from the edge of a block is the one exception, see the README.          *)
WalksOnGround == mode = "fallen" => onEdge
=============================================================================
