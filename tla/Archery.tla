------------------------------ MODULE Archery ------------------------------
(***************************************************************************)
(* Items used over time and the arrows that come of it (src/server/        *)
(* consume.go, arrow.go, projectile.go, gameplay/projectile): an archer    *)
(* eats or draws and looses, switches slots, digs, dies and is moved       *)
(* between instances, each with a clock of its own, by another goroutine   *)
(* than the reader's; arrows fly down a lane of cells with walls and       *)
(* targets in it.  A packet's handler counts as one step (its reads of     *)
(* c.instance see one instance); a move is two, what it sheds first and    *)
(* the new instance later.  An arrow that crossed somebody acts after the  *)
(* tick has released projMu.                                               *)
(***************************************************************************)
EXTENDS Integers, FiniteSetsExt

CONSTANTS
    ArrowRoom, HubRoom,   \* the instances, and the one that is the hub
    Bystander, Mates,        \* those in the lane, and the archer's team mates among them
    Width,                \* the lane is the cells 1..Width, the archer stands in 0
    DrawRate,             \* tickloop.Rate: ticks in a second (the code's 20)
    EatTicks, FlightTicks, StuckTicks,
    Infinity,             \* is the bow enchanted so
    MaxArrows,            \* bound: arrows loosed
                          \* (and one block is placed in a lane, none in the hub's)
    LastArrowTick         \* bound: no clock goes further

ASSUME ArcheryAssumption ==
    /\ HubRoom \in ArrowRoom /\ Mates \subseteq Bystander
    /\ {Width, DrawRate, EatTicks, FlightTicks, StuckTicks, MaxArrows} \subseteq Nat \ {0}
    /\ LastArrowTick \in Nat /\ Infinity \in BOOLEAN

VARIABLES
    ticks,      \* each instance's Tick()
    room,       \* c.instance of the archer
    going,      \* where MovePlayer takes the archer, once it has shed the old instance
    archer,     \* [alive, slot: held, bar: what the slots hold, quiver: arrows left]
    use,        \* c.using
    arrow,      \* i.projectiles: every arrow loosed so far
    target,     \* [Target -> where each stands, and whether arrows take notice of it]
    walls,      \* each instance's blocks in the lane
    inHand,     \* history: ticks the thing in use has been in use, and in hand
    earnest     \* history: "yes", or what was used without the time it takes

arrowVars == <<ticks, room, going, archer, use, arrow, target, walls, inHand, earnest>>

Lane == 1 .. Width
Slots == {1, 2}
NoUse == [on |-> FALSE, slot |-> 1, item |-> "none", start |-> 0, inst |-> HubRoom]
Unshot == [state |-> "quiver", inst |-> HubRoom, at |-> 0, pull |-> 0, age |-> 0, plain |-> TRUE,
           hit |-> CHOOSE t \in Bystander : TRUE, past |-> {}]
Spent == [Unshot EXCEPT !.state = "gone"]
Kit == [s \in Slots |-> IF s = 1 THEN "bow" ELSE "golden_apple"]

ArrowInit ==
    /\ ticks = [r \in ArrowRoom |-> 0] /\ room = HubRoom /\ going = "nowhere"
    /\ archer = [alive |-> TRUE, slot |-> 1, bar |-> Kit, quiver |-> MaxArrows]
    /\ use = NoUse /\ arrow = [n \in 1 .. MaxArrows |-> Unshot]
    /\ target \in [Bystander -> [inst : ArrowRoom \ {HubRoom}, cell : {Width}, shows : {TRUE}]]
    /\ walls = [r \in ArrowRoom |-> {}]
    /\ inHand = 0 /\ earnest = "yes"

Held == archer.bar[archer.slot]

BugElapsed(inst, started, start, now) == IF now < start THEN 0 ELSE now - start

\* elapsedOn: every instance has its own clock.
Elapsed(inst, started, start, now) == IF inst # started \/ now < start THEN 0 ELSE now - start

\* DrawForce over 3 * DrawRate^2: vanilla's charge curve (t^2 + 2t) / 3.
Full == 3 * DrawRate * DrawRate
DrawForce(pull) == Min({Full, pull * pull + 2 * DrawRate * pull})
TooWeak(pull) == 10 * DrawForce(pull) < Full

\* An arrow's 3f blocks a tick, in cells; drag, gravity and aim only shorten it.
Reach(pull) == (3 * DrawForce(pull) + Full - 1) \div Full

----------------------------------------------------------------------------
(* The archer's reader *)

BeginUse(item) ==
    /\ use' = [on |-> TRUE, slot |-> archer.slot, item |-> item, start |-> ticks[room], inst |-> room]
    /\ inHand' = 0

\* startUse, startDraw: a bow needs an arrow.
UseItem ==
    /\ archer.alive
    /\ \/ Held = "golden_apple"
       \/ Held = "bow" /\ archer.quiver > 0
    /\ BeginUse(Held)
    /\ UNCHANGED <<ticks, room, going, archer, arrow, target, walls, earnest>>

CancelUse == use' = NoUse /\ inHand' = 0

SetHeldItem(s) ==
    /\ archer' = [archer EXCEPT !.slot = s]
    /\ CancelUse
    /\ UNCHANGED <<ticks, room, going, arrow, target, walls, earnest>>

DigWhileUsing ==
    /\ use.on /\ CancelUse
    /\ UNCHANGED <<ticks, room, going, archer, arrow, target, walls, earnest>>

\* A click that exchanges the two slots: the use stays.
ClickSlots ==
    /\ archer' = [archer EXCEPT !.bar = [s \in Slots |-> archer.bar[3 - s]]]
    /\ UNCHANGED <<ticks, room, going, use, arrow, target, walls, inHand, earnest>>

\* shootBow: the arrow in the air, its facts taken at the release.
Loosed(n, pull) ==
    [state |-> "flying", inst |-> room, at |-> 0, pull |-> pull, age |-> 0, plain |-> ~Infinity,
     hit |-> arrow[n].hit, past |-> walls[room]]

Shoot(n, pull) ==
    /\ arrow' = [arrow EXCEPT ![n] = Loosed(n, pull)]
    /\ archer' = [archer EXCEPT !.quiver = IF Infinity THEN @ ELSE @ - 1]
    /\ earnest' = IF pull > inHand THEN "no" ELSE earnest

Pulled == Elapsed(room, use.inst, use.start, ticks[room])
MayShoot == /\ use.item = "bow" /\ archer.alive
            /\ archer.slot = use.slot /\ Held = "bow"
            /\ ~TooWeak(Pulled) /\ archer.quiver > 0

Release ==
    /\ use.on /\ CancelUse
    /\ IF MayShoot
       THEN \E n \in 1 .. MaxArrows :
                /\ arrow[n].state = "quiver" /\ \A k \in 1 .. (n - 1) : arrow[k].state # "quiver"
                /\ Shoot(n, Pulled)
       ELSE UNCHANGED <<arrow, archer, earnest>>
    /\ UNCHANGED <<ticks, room, going, target, walls>>

Die ==
    /\ archer.alive /\ archer' = [archer EXCEPT !.alive = FALSE]
    /\ CancelUse
    /\ UNCHANGED <<ticks, room, going, arrow, target, walls, earnest>>

Respawn ==
    /\ ~archer.alive /\ archer' = [archer EXCEPT !.alive = TRUE]
    /\ UNCHANGED <<ticks, room, going, use, arrow, target, walls, inHand, earnest>>

----------------------------------------------------------------------------
(* Moves, on another goroutine *)

\* MovePlayer ends a use: it is timed on the old instance's clock.
Shed(to) ==
    /\ going = "nowhere" /\ to # room /\ going' = to
    /\ CancelUse

StartMove(to) ==
    /\ Shed(to)
    /\ UNCHANGED <<ticks, room, archer, arrow, target, walls, earnest>>

\* Out of a game everything goes (resetForHub: revived, the use, the kit).
EnterRoom ==
    /\ going # "nowhere" /\ room' = going /\ going' = "nowhere"
    /\ IF room = HubRoom
       THEN UNCHANGED <<use, archer>> /\ inHand' = 0
       ELSE /\ archer' = [archer EXCEPT !.alive = TRUE, !.bar = [s \in Slots |-> "none"], !.quiver = 0]
            /\ CancelUse
    /\ UNCHANGED <<ticks, arrow, target, walls, earnest>>

\* A game equips its players.
GiveKit ==
    /\ Held = "none"
    /\ archer' = [archer EXCEPT !.bar = Kit, !.quiver = MaxArrows]
    /\ UNCHANGED <<ticks, room, going, use, arrow, target, walls, inHand, earnest>>

----------------------------------------------------------------------------
(* The instance's tick *)

\* consumeTick: a use whose item is no longer held there is let go of, one
\* that has lasted is finished.
LetGo == archer.slot # use.slot \/ Held # use.item
Finished(r, now) == ~LetGo /\ Elapsed(r, use.inst, use.start, now) >= EatTicks

Consumes(r, now) ==
    IF ~use.on \/ room # r THEN UNCHANGED <<use, inHand, earnest>>
    ELSE /\ IF use.item = "bow" \/ ~archer.alive THEN UNCHANGED <<use, earnest>>
            ELSE IF LetGo THEN use' = NoUse /\ UNCHANGED earnest
            ELSE IF Finished(r, now)
            THEN use' = NoUse /\ earnest' = IF inHand + 1 < EatTicks THEN "no" ELSE earnest
            ELSE UNCHANGED <<use, earnest>>
         /\ inHand' = IF use'.on THEN inHand + 1 ELSE 0

\* March: the blocks on the way from one cell to another, both included.
Blocking(r, from, to) == {w \in walls[r] : from <= w /\ w <= to}

\* The last free cell before the first of them.
Stops(from, to, blocking) == IF blocking = {} THEN to ELSE Max({from, Min(blocking) - 1})

\* arrowHitPlayer: the nearest the step crosses.
Crossed(r, from, to) ==
    {t \in Bystander : /\ target[t].shows /\ target[t].inst = r
                    /\ from <= target[t].cell /\ target[t].cell <= to}
Nearest(ts) == CHOOSE t \in ts : \A o \in ts : target[t].cell <= target[o].cell

Flies(a, to, blocking, crossed) ==
    IF crossed # {}
    THEN [a EXCEPT !.state = "struck", !.hit = Nearest(crossed), !.at = target[Nearest(crossed)].cell]
    ELSE IF blocking # {} THEN [a EXCEPT !.state = "stuck", !.at = to, !.age = StuckTicks]
    ELSE IF a.age + 1 >= FlightTicks THEN Spent
    ELSE [a EXCEPT !.at = to, !.age = @ + 1]

FlightStep(a, far) ==
    LET aim == Min({a.at + Min({far, Reach(a.pull)}), Width})
    IN  CHOOSE n \in UNION {{Flies(a, to, Blocking(a.inst, a.at, aim), Crossed(a.inst, a.at, to)) :
            to \in {Stops(a.at, aim, Blocking(a.inst, a.at, aim))}} : x \in {0}} : TRUE

\* An arrow in a block: picked up, or its time runs out.
Waits(a) == IF a.age > 1 THEN [a EXCEPT !.age = @ - 1] ELSE Spent
MayPick(a) ==
    {t \in Bystander : a.plain /\ target[t].shows /\ target[t].inst = a.inst /\ target[t].cell = a.at}

StepArrow(a, r, far) ==
    IF a.inst # r \/ a.state \notin {"flying", "stuck"} THEN {a}
    ELSE IF a.state = "flying" THEN {FlightStep(a, far)}
    ELSE IF MayPick(a) = {} THEN {Waits(a)}
    ELSE {Waits(a), Spent}

Stuck(r) == {n \in 1 .. MaxArrows : arrow[n].state = "struck" /\ arrow[n].inst = r}

Tick(r) ==
    /\ Stuck(r) = {} /\ ticks[r] < LastArrowTick
    /\ ticks' = [ticks EXCEPT ![r] = @ + 1]
    /\ Consumes(r, ticks[r] + 1)
    /\ \E far \in 0 .. 3 : arrow' \in [1 .. MaxArrows -> UNION {StepArrow(arrow[n], r, far) : n \in 1 .. MaxArrows}]
       /\ \A n \in 1 .. MaxArrows : arrow'[n] \in StepArrow(arrow[n], r, far)
    /\ UNCHANGED <<room, going, archer, target, walls>>

\* arrowHit, after the tick: the veto counts only while the shooter is there.
Vetoed(n) == room = arrow[n].inst /\ arrow[n].hit \in Mates
Impact(r) ==
    \E n \in Stuck(r), killed \in BOOLEAN :
        /\ arrow' = [arrow EXCEPT ![n] = Spent]
        /\ IF Vetoed(n) \/ ~target[arrow[n].hit].shows \/ ~killed THEN UNCHANGED target
           ELSE target' = [target EXCEPT ![arrow[n].hit].shows = FALSE]
        /\ UNCHANGED <<ticks, room, going, archer, use, walls, inHand, earnest>>

----------------------------------------------------------------------------
(* The others in the lane *)

Walk(t) ==
    /\ \E c \in Lane \ walls[target[t].inst] : target' = [target EXCEPT ![t].cell = c, ![t].shows = TRUE]
    /\ UNCHANGED <<ticks, room, going, archer, use, arrow, walls, inHand, earnest>>

PlaceBlock(r) ==
    /\ walls[r] = {} /\ r # HubRoom
    /\ \E c \in Lane : walls' = [walls EXCEPT ![r] = {c}]
    /\ UNCHANGED <<ticks, room, going, archer, use, arrow, target, inHand, earnest>>

ArrowNext ==
    \/ UseItem \/ DigWhileUsing \/ ClickSlots \/ Release \/ Die \/ Respawn \/ EnterRoom \/ GiveKit
    \/ \E s \in Slots : SetHeldItem(s)
    \/ \E r \in ArrowRoom : StartMove(r) \/ Tick(r) \/ Impact(r) \/ PlaceBlock(r)
    \/ \E t \in Bystander : Walk(t)

ArrowSpec == ArrowInit /\ [][ArrowNext]_arrowVars

----------------------------------------------------------------------------

ArrowTypeOK ==
    /\ ticks \in [ArrowRoom -> 0 .. LastArrowTick]
    /\ room \in ArrowRoom /\ going \in ArrowRoom \cup {"nowhere"}
    /\ archer.slot \in Slots /\ archer.quiver \in 0 .. MaxArrows
    /\ use.slot \in Slots /\ use.start \in 0 .. LastArrowTick /\ use.inst \in ArrowRoom
    /\ \A n \in 1 .. MaxArrows :
        /\ arrow[n].state \in {"quiver", "flying", "stuck", "struck", "gone"}
        /\ arrow[n].at \in 0 .. Width /\ arrow[n].hit \in Bystander
    /\ \A t \in Bystander : target[t].cell \in Lane /\ target[t].inst \in ArrowRoom
    /\ inHand \in 0 .. 2 * LastArrowTick /\ earnest \in {"yes", "no"}

\* No bow is loosed with more force, and nothing eaten sooner, than the ticks
\* it was in use and in hand allow, whatever the archer switched to, however
\* often it was moved to an instance with another clock and back
\* (consume.go 14-18, elapsedOn).
UsedInEarnest == earnest = "yes"

\* No arrow gets past a block that stood there when it was loosed, however far
\* it flies in a tick (stepProjectiles: a full draw would tunnel through a
\* thin wall).
NeverThrough ==
    \A n \in 1 .. MaxArrows :
        arrow[n].state \in {"flying", "stuck", "struck"} => \A w \in arrow[n].past : arrow[n].at < w
=============================================================================
