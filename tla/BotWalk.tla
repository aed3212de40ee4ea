------------------------------ MODULE BotWalk ------------------------------
(***************************************************************************)
(* A bot's legs: the physics the server runs for it (botnav/physics.go)    *)
(* under the steering that takes it along a route (follow, arrive, leap    *)
(* and straightAhead of botai/brain.go).                                   *)
(*                                                                         *)
(* The route is any sequence of the moves a search may choose (BotBlocks), *)
(* so the module asks of every one of them what path.go takes for granted: *)
(* that the body can make it.  The world is a slice: the bot moves along x *)
(* and y in the middle of lane 0.                                          *)
(*                                                                         *)
(* Lengths are in ten-thousandths of a block, speeds in the same a tick,   *)
(* rounded toward zero.                                                    *)
(***************************************************************************)
EXTENDS BotBlocks

LOCAL INSTANCE FiniteSetsExt
LOCAL INSTANCE SequencesExt

CONSTANTS
  Grounds,      \* the worlds: [ground, start, depth], depth the route's length
  PlaceGap,     \* botSkill.placeGap: ticks between blocks
  Hops,         \* botSkill.hop: bunny-hops down straight stretches
  StuckTicks    \* botStuckTicks

VARIABLES
  ground,   \* the blocks, with what the bot has laid
  way,      \* the route: the moves, in order
  steps,    \* bound: the length of the route
  from,     \* the cell it starts at (routeStart)
  at,       \* routeIdx, 0 before it sets off
  body,     \* [x, y, vx, vy, og, jd]: position, speed, OnGround, jumpDelay
  ran,      \* leapRun: the run-up of the leap to leapCell is done
  nextLay,  \* ticks until it may place again
  since,    \* ticks since the route last advanced
  off       \* dropRoute: it found itself off the route

walkVars == <<ground, steps, way, from, at, body, ran, nextLay, since, off>>

U == 10000

-----------------------------------------------------------------------------
(* The physics. *)

HalfWidth == 3000
StandHeight == 18000
StepHeight == 6000
Gravity == 800
MaxFall == 39200
JumpSpeed == 4200
SprintJump == 2000

Toward0(v, num, den) == IF v >= 0 THEN (v * num) \div den ELSE -(((-v) * num) \div den)
Abs(v) == IF v >= 0 THEN v ELSE -v

\* The collision boxes near a body at x, y that may move by dx, dy.
Boxes(x, y, dx, dy) ==
  LET lox == Min({x, x + dx}) - HalfWidth
      hix == Max({x, x + dx}) + HalfWidth
      loy == Min({y, y + dy})
      hiy == Max({y, y + dy}) + StandHeight
      solid == {p \in ((lox \div U)..(hix \div U)) \X (((loy \div U) - 1)..(hiy \div U)) \X {0} :
                  PathCollides(ground, p)}
  IN  {[x |-> p[1] * U, lo |-> p[2] * U + 1000 * Extent[BlockAt(ground, p)][1],
        hi |-> p[2] * U + 1000 * Extent[BlockAt(ground, p)][2]] : p \in solid}

\* clip along y and along x: the move up to the first box in the way.
ClipY(bs, x, y, dy) ==
  LET over == {b \in bs : x + HalfWidth > b.x /\ x - HalfWidth < b.x + U}
  IN  IF dy > 0 THEN Min({dy} \cup {b.lo - (y + StandHeight) : b \in {c \in over : c.lo >= y + StandHeight}})
      ELSE Max({dy} \cup {b.hi - y : b \in {c \in over : c.hi <= y}})

ClipX(bs, x, y, dx) ==
  LET over == {b \in bs : y + StandHeight > b.lo /\ y < b.hi}
  IN  IF dx > 0 THEN Min({dx} \cup {b.x - (x + HalfWidth) : b \in {c \in over : c.x >= x + HalfWidth}})
      ELSE IF dx < 0 THEN Max({dx} \cup {b.x + U - (x - HalfWidth) : b \in {c \in over : c.x + U <= x - HalfWidth}})
      ELSE 0

\* collide: y first, then x.
Collide(x, y, dx, dy) ==
  CHOOSE m \in UNION {{<<ClipX(bs, x, y + my, dx), my>> : my \in {ClipY(bs, x, y, dy)}} :
                        bs \in {Boxes(x, y, dx, dy)}} : TRUE

\* The auto-step: the move again from up to 0.6 higher, then down.
Stepped(b) ==
  CHOOSE m \in UNION {UNION {{<<sx, up + down>> :
                               down \in {Collide(b.x + sx, b.y + up, 0, -up)[2]}} :
                             sx \in {Collide(b.x, b.y + up, b.vx, 0)[1]}} :
                      up \in {Collide(b.x, b.y, 0, StepHeight)[2]}} : TRUE

\* Body.Move: the move m0, or the auto-step where that gets further.
Tries(b, m0) == m0[1] # b.vx /\ (b.og \/ (b.vy < 0 /\ m0[2] # b.vy))

Reached(b, m) ==
  [b EXCEPT !.x = b.x + m[1], !.y = b.y + m[2],
            !.vx = IF m[1] # b.vx THEN 0 ELSE b.vx,
            !.vy = IF m[2] # b.vy THEN 0 ELSE b.vy,
            !.og = (b.vy < 0 /\ m[2] # b.vy) \/ (b.og /\ m[2] = 0 /\ b.vy <= 0)]

\* An input: the direction in tenths, sprint, jump.
Input(dir, sprint, jump) == [dir |-> dir, sprint |-> sprint, jump |-> jump]
Still == Input(0, FALSE, FALSE)

Jumped(b, in) ==
  LET delay == Max({b.jd - 1, 0})
  IN  IF in.jump /\ b.og /\ delay = 0
      THEN [b EXCEPT !.vy = JumpSpeed, !.og = FALSE, !.jd = 10,
                     !.vx = @ + (IF in.sprint THEN Toward0(SprintJump * in.dir, 1, 10) ELSE 0)]
      ELSE [b EXCEPT !.jd = delay]

Accelerated(b, in) ==
  LET push == IF b.og THEN (IF in.sprint THEN 1300 ELSE 1000)
                      ELSE (IF in.sprint THEN 260 ELSE 200)
  IN  [b EXCEPT !.vx = @ + Toward0(push * in.dir, 1, 10)]

\* Gravity, drag and friction for the next tick.
Slowed(b) ==
  [b EXCEPT !.vy = Max({-MaxFall, Toward0(@ - Gravity, 98, 100)}),
            !.vx = Toward0(@, IF b.og THEN 546 ELSE 910, 1000)]

\* Body.Tick.
BodyTick(in) ==
  \E b1 \in {Jumped(body, in)} : \E b2 \in {Accelerated(b1, in)} :
    \E m0 \in {Collide(b2.x, b2.y, b2.vx, b2.vy)} :
    \E m \in {IF Tries(b2, m0) THEN Stepped(b2) ELSE m0} :
      body' = Slowed(Reached(b2, IF Abs(m[1]) > Abs(m0[1]) THEN m ELSE m0))

-----------------------------------------------------------------------------
(* The steering. *)

FeetCell(b) == <<b.x \div U, (b.y + 100) \div U, 0>>
Middle(cell) == cell[1] * U + U \div 2
Horiz(cell) == Abs(body.x - Middle(cell))
Arrive == 3000

This == way[at]
Before == IF at > 1 THEN way[at - 1].cell ELSE from
Sign(v) == IF v > 0 THEN 1 ELSE IF v < 0 THEN -1 ELSE 0
Heading == Sign(This.cell[1] - Before[1])
RunUp == Moved(Before, -Heading, 0, 0)
Feet == FeetCell(body)

ToLay(s) == SelectSeq(s.place, LAMBDA p : ~ PathCollides(ground, p))

\* toward, at full strength or, closing in on a spot, at three tenths.
Walking(cell, sprint) == Input(10 * Sign(Middle(cell) - body.x), sprint, FALSE)
Closing(cell) == Input(3 * Sign(Middle(cell) - body.x), FALSE, FALSE)

Dropping ==
  Feet[1] = This.cell[1] /\ Feet[2] > This.cell[2] /\ Feet[2] <= Before[2]

OnLeapLine ==
  This.leap /\ (Feet = RunUp \/ (Feet[2] = Before[2] /\ Feet = Moved(Before, Heading, 0, 0)))

OnTheWay == Feet = Before \/ Feet = This.cell \/ Dropping \/ OnLeapLine \/ ~ body.og

\* Landed on a later step of the route, its blocks down.
WalkSkip == 5
LandedOn ==
  {k \in (at + 1)..Min({Len(way), at + WalkSkip}) : way[k].cell = Feet /\ ToLay(way[k]) = <<>>}

\* straightAhead: four flat steps in one line with room for a jump.
HopAhead == 4
StraightAhead ==
  /\ at + HopAhead - 1 <= Len(way)
  /\ Heading # 0
  /\ \A k \in at..(at + HopAhead - 1) :
       /\ way[k].place = <<>> /\ ~ way[k].leap
       /\ way[k].cell = Moved(Before, (k - at + 1) * Heading, 0, 0)
       /\ HeadClear(ground, Above(way[k].cell, 2))

\* The body overlaps the cell a block is to go into.
InTheWay(p) ==
  /\ Abs(body.x - Middle(p)) < HalfWidth + U \div 2
  /\ body.y < (p[2] + 1) * U /\ body.y + StandHeight > p[2] * U

\* The tick's physics under an input, the route advanced or not.
Go(in, next) ==
  /\ BodyTick(in)
  /\ at' = next
  /\ since' = IF next # at THEN 0 ELSE since + 1

Rest == UNCHANGED <<steps, way, from, off>>
NoLay == UNCHANGED ground /\ nextLay' = Max({nextLay - 1, 0})

\* It found itself somewhere else: dropRoute.
StrayOff ==
  /\ ~ off /\ at \in 1..Len(way)
  /\ ~ OnTheWay /\ LandedOn = {}
  /\ off' = TRUE
  /\ UNCHANGED <<ground, steps, way, from, at, body, ran, nextLay, since>>

\* It landed further on: the route goes on from there, in the same tick.
SkipOn ==
  /\ ~ off /\ at \in 1..Len(way)
  /\ body.og /\ Feet # This.cell /\ Feet # Before
  /\ LandedOn # {}
  /\ at' = Min(LandedOn) + 1 /\ since' = 0
  /\ UNCHANGED <<ground, steps, way, from, body, ran, nextLay, off>>

Follows ==
  /\ ~ off /\ at \in 1..Len(way)
  /\ OnTheWay
  /\ ~ (body.og /\ Feet # This.cell /\ Feet # Before /\ LandedOn # {})
  /\ Rest

\* Build the step from the middle of the cell before.
LayTick ==
  /\ Follows /\ ToLay(This) # <<>>
  /\ UNCHANGED ran
  /\ LET p == Head(ToLay(This))
     IN  CASE Feet # Before \/ Horiz(Before) > Arrive ->
                Go(Walking(Before, FALSE), at) /\ NoLay
           [] OTHER ->
                IF InTheWay(p) /\ Horiz(Before) > 200
                THEN Go(Closing(Before), at) /\ NoLay
                ELSE /\ Go(Still, at)
                     /\ IF nextLay = 0
                        THEN /\ ground' = [q \in DOMAIN ground \cup {p} |->
                                             IF q = p THEN "full" ELSE ground[q]]
                             /\ nextLay' = PlaceGap
                        ELSE NoLay

\* leap: back for the run-up, a sprint, the jump off the far half.
BugTakeOff == 0 - 3000

TakeOff == 3000

LeapTick ==
  /\ Follows /\ ToLay(This) = <<>> /\ This.leap
  /\ NoLay
  /\ IF body.og /\ Feet # This.cell
     THEN IF ~ ran /\ Horiz(RunUp) > Arrive
          THEN Go(Walking(RunUp, FALSE), at) /\ UNCHANGED ran
          ELSE /\ ran' = TRUE
               /\ Go([Walking(This.cell, TRUE) EXCEPT !.jump =
                        (body.x + body.vx - Middle(Before)) * Heading >= TakeOff], at)
     ELSE LET landed == {k \in at..Min({Len(way), at + 1}) : way[k].cell = Feet}
          IN  IF body.og /\ landed # {}
              THEN Go(Walking(This.cell, TRUE), Min(landed) + 1) /\ ran' = FALSE
              ELSE Go(Walking(This.cell, TRUE), at) /\ UNCHANGED ran

\* arrive.
Here(s) == Horiz(s.cell) < Arrive /\ Abs(body.y - s.cell[2] * U) < 6000

WalkTick ==
  /\ Follows /\ ToLay(This) = <<>> /\ ~ This.leap
  /\ NoLay /\ UNCHANGED ran
  /\ LET sprint == Len(way) + 1 - at > 3 /\ This.place = <<>>
         climbs == This.cell[2] > Feet[2] /\ body.og /\ Horiz(This.cell) < 15000
         in     == [Walking(This.cell, sprint) EXCEPT !.jump = climbs]
     IN  IF sprint /\ in.dir # 0 /\ Hops /\ StraightAhead
         THEN Go([Walking(way[at + HopAhead - 1].cell, TRUE) EXCEPT !.jump = body.og],
                 IF Feet[1] = This.cell[1] THEN at + 1 ELSE at)
         ELSE Go(in, IF Here(This) THEN at + 1 ELSE at)

\* The route is done, or dropped; the bot comes to rest.
RestTick ==
  /\ off \/ at > Len(way)
  /\ at > 0
  /\ body.vx # 0 \/ ~ body.og
  /\ BodyTick(Still)
  /\ UNCHANGED <<ground, steps, way, from, at, ran, nextLay, since, off>>

-----------------------------------------------------------------------------
\* Bound: what a leap comes down on goes on for two more cells, what a drop
\* comes down on for one.  Both carry the body past the middle of the cell
\* they are for; a landing of one cell can be missed (see the README).
RunOut(w, c, m) ==
  LET d == Sign(m.cell[1] - c[1])
      room(n) == \A k \in 1..n : Standable(w, Moved(m.cell, k * d, 0, 0))
  IN  IF m.leap THEN room(2) ELSE m.cell[2] < c[2] => room(1)

\* The route is put together, any move of the search that goes on along x.
Plan ==
  /\ at = 0 /\ Len(way) < steps
  /\ LET n == IF way = <<>> THEN [cell |-> from, placed |-> FALSE]
              ELSE [cell |-> Last(way).cell, placed |-> Last(way).place # <<>>]
     IN  \E m \in Moves(ground, n) :
           /\ m.cell[1] > n.cell[1]
           /\ RunOut(ground, n.cell, m)
           /\ way' = Append(way, m)
  /\ UNCHANGED <<ground, steps, from, at, body, ran, nextLay, since, off>>

SetOff ==
  /\ at = 0 /\ way # <<>> /\ at' = 1
  /\ UNCHANGED <<ground, steps, way, from, body, ran, nextLay, since, off>>

WalkInit ==
  /\ \E g \in Grounds :
       /\ ground = g.ground /\ from = g.start /\ steps = g.depth
       /\ body = [x |-> Middle(g.start), y |-> 1000 * StandY(g.ground, g.start),
                  vx |-> 0, vy |-> -784, og |-> TRUE, jd |-> 0]
  /\ way = <<>> /\ at = 0
  /\ ran = FALSE /\ nextLay = 0 /\ since = 0 /\ off = FALSE

WalkNext == Plan \/ SetOff \/ StrayOff \/ SkipOn \/ LayTick \/ LeapTick \/ WalkTick \/ RestTick

WalkSpec == WalkInit /\ [][WalkNext]_walkVars

WalkTypeOK ==
  /\ at \in 0..(Len(way) + 1)
  /\ ran \in BOOLEAN /\ off \in BOOLEAN
  /\ nextLay \in 0..PlaceGap
  /\ body.jd \in 0..10

Lowest == Min({from[2]} \cup {way[k].cell[2] : k \in DOMAIN way})

(* Every move the search counts on is one the body makes: following a      *)
(* route of them the bot never leaves it, never falls below it, and gets   *)
(* on to the next step before it would take itself for stuck               *)
(* (botStuckTicks).                                                        *)
MovesAreMade ==
  /\ body.y >= Lowest * U
  /\ since < StuckTicks
=============================================================================
