------------------------------- MODULE BotDig -------------------------------
(***************************************************************************)
(* A bot at an enemy bed (breakTarget, digAround, digBlock and digging of  *)
(* botai/brain.go, blast and flee of tactics.go, the pusher's tower and    *)
(* TNT of pusher.go): what it digs, tick after tick, between the fights,   *)
(* blasts and blows that take it off the job.                              *)
(*                                                                         *)
(* The bed has Sides, each open or covered by one block, and the bot looks *)
(* at it through one of them.  Times are kept as the ticks they are away.  *)
(***************************************************************************)
EXTENDS Naturals, FiniteSetsExt


CONSTANTS
  Sides,       \* the sides of the bed; "top" is one
  SideOrder,        \* the order in which digAround looks at them
  DigTime,     \* DigTime[kind][tool]: ticks to dig a block of the kind
  HardDig,     \* botHardDig
  MaxDig,      \* botMaxDig
  GiveUpFor,   \* botGiveUpTicks
  FleeFor,     \* botTNTFlee
  PushGap,     \* botPushGap
  TowerMax,    \* the level a tower must reach to stand above the cover
  MaxOthers     \* bound: what others do

ASSUME BotDigAssumption ==
  /\ DigTime \in [{"open", "soft", "hard", "rock", "map"} -> [0..2 -> Nat]]
  /\ {"bed", "away", "none"} \cap Sides = {} /\ {GiveUpFor, FleeFor, PushGap} \subseteq Nat

VARIABLES
  hull,       \* cover[s]: "open", or the kind of block
  foeBedUp,
  stand,       \* [at, up, air, towering]: the side looked through or "away",
               \* the level of the tower, mid-jump, br.towering
  hands,       \* [tool, tnt, blocks]
  job,         \* br.dig: [pos, left, age]: left = doneAt - now, age = now - lastAt
  mind,        \* [quit, around, stuck, flee, push, pusher]: giveUp, around,
               \* hardStuck, fleeUntil, nextPush; it is the team's pusher
  lit,         \* a TNT burns on the top side or beside the cover
  work,        \* the job as it was done: [need, did]
  broke,       \* the last block it broke: [need, did]
  othersActs

digBedVars == <<hull, foeBedUp, stand, hands, job, mind, lit, work, broke, othersActs>>

NoDigJob == [pos |-> "none", left |-> 0, age |-> 2]
NoWork == [need |-> 0, did |-> 1]
Kinds == {"soft", "hard", "rock", "map"}
Tools == 0..2

Down(n) == IF n = 0 THEN 0 ELSE n - 1

\* The block at a side or the bed, and the ticks it takes.
KindAt(p) == IF p = "bed" THEN "soft" ELSE hull[p]
TicksFor(p) == DigTime[KindAt(p)][hands.tool]

\* TNTBreaks: rock is what no TNT scratches.
TNTBreaks(kind) == kind \in {"soft", "hard"}

\* firstBlockOnRay: what it has to dig on its line to the bed.
OnRay == IF hull[stand.at] = "open" THEN "bed" ELSE stand.at

-----------------------------------------------------------------------------
(* Digging. *)

\* Mutant: the job is kept across a break.
BugAtWork(p) == job.pos = p

\* digging: the job on p, carried on from the tick before.
AtWork(p) == job.pos = p /\ job.age <= 1

\* The tick passes; the job not worked on grows old.
Pass(m) == mind' = [m EXCEPT !.quit = Down(@), !.flee = Down(@), !.push = Down(@)]
Quit(m) == [m EXCEPT !.quit = GiveUpFor + 1, !.around = FALSE]
Leave == job' = [job EXCEPT !.left = Down(@), !.age = IF @ > 1 THEN 2 ELSE @ + 1]
NothingDug == UNCHANGED <<hull, foeBedUp, broke, work>>

Breaks(p) ==
  /\ hull' = IF p \in Sides THEN [hull EXCEPT ![p] = "open"] ELSE hull
  /\ foeBedUp' = (foeBedUp /\ p # "bed")

\* A tick of work on p; m is the mind it leaves.
DigOn(p, m) ==
  LET on == AtWork(p)
      left == IF on THEN job.left ELSE TicksFor(p)
      row == job.pos = p /\ job.age <= 1
      now == [need |-> IF on THEN work.need ELSE TicksFor(p),
              did |-> IF row THEN work.did + 1 ELSE 1]
  IN  IF left > 0
      THEN /\ job' = [pos |-> p, left |-> left - 1, age |-> 1]
           /\ work' = now
           /\ Pass(m) /\ UNCHANGED <<hull, foeBedUp, broke>>
      ELSE /\ job' = NoDigJob /\ work' = NoWork /\ broke' = now
           /\ IF KindAt(p) = "map"
              THEN Pass(Quit(m)) /\ UNCHANGED <<hull, foeBedUp>>
              ELSE Pass(m) /\ Breaks(p)

\* The tick leaves it where it is, or moves it.
StandsThere == UNCHANGED <<stand, hands, lit, othersActs>>

-----------------------------------------------------------------------------
(* breakTarget. *)

Fleeing == mind.flee > 0
AtBed == foeBedUp /\ stand.at # "away" /\ mind.quit = 0 /\ ~ Fleeing

\* A cover not worth digging by hand.
TooHard(p) == p # "bed" /\ KindAt(p) # "soft" /\ TicksFor(p) > HardDig

\* blast: light a TNT beside the cover and run.
CanBlast(kind) == hands.tnt > 0 /\ TNTBreaks(kind)
BlowOpen ==
  /\ hands' = [hands EXCEPT !.tnt = @ - 1]
  /\ job' = NoDigJob /\ lit' = TRUE
  /\ Pass([mind EXCEPT !.flee = FleeFor + 1])
  /\ NothingDug /\ UNCHANGED <<stand, othersActs>>

\* digAround, the tick from mind m: the softest side; none: the tool for
\* it, from the shop, if it can pay; else leave the bed.
Ticks(s) == IF hull[s] = "open" THEN 0 ELSE TicksFor(s)
Diggable == {s \in Sides : Ticks(s) <= MaxDig}
Softest ==
  {s \in Diggable :
    \A o \in Diggable : Ticks(s) < Ticks(o) \/ (Ticks(s) = Ticks(o) /\ SideOrder[s] <= SideOrder[o])}

NoSoftSide ==
  /\ Diggable = {}
  /\ job' = NoDigJob
  /\ \E pays \in BOOLEAN :
       Pass(IF pays THEN [mind EXCEPT !.around = FALSE, !.stuck = TRUE]
            ELSE [Quit(mind) EXCEPT !.stuck = FALSE])
  /\ NothingDug /\ StandsThere

WayRound ==
  \E s \in Softest :
  \E m \in {[mind EXCEPT !.around = TRUE]} :
    \/ Ticks(s) > 0 /\ DigOn(s, m) /\ StandsThere    \* within reach from here
    \/ /\ stand.at = s
       /\ IF Ticks(s) > 0 THEN DigOn(s, m) ELSE DigOn("bed", [m EXCEPT !.around = FALSE])
       /\ StandsThere
    \/ /\ stand.at # s
       /\ \/ Pass(m) /\ stand' = [stand EXCEPT !.at = s, !.up = 0]
          \/ Pass(m) /\ UNCHANGED stand          \* on the way, or searching
          \/ Pass(Quit(mind)) /\ UNCHANGED stand \* no way there
       /\ Leave /\ NothingDug /\ UNCHANGED <<hands, lit, othersActs>>

AroundTick ==
  /\ AtBed /\ mind.around
  /\ NoSoftSide \/ (Diggable # {} /\ WayRound)

\* The pusher's TNT comes first; see PushTick.
Covered == hull["top"] # "open"
Pushes ==
  /\ mind.pusher /\ hands.tnt > 0 /\ mind.push = 0
  /\ Covered /\ TNTBreaks(hull["top"])

BreakTick ==
  /\ AtBed /\ ~ mind.around /\ ~ Pushes
  /\ \E p \in {OnRay} :
       IF ~ AtWork(p) /\ TooHard(p)
       THEN IF CanBlast(KindAt(p)) THEN BlowOpen
            ELSE IF TicksFor(p) > MaxDig
            THEN NoSoftSide \/ (Diggable # {} /\ WayRound)
            ELSE DigOn(p, mind) /\ StandsThere
       ELSE DigOn(p, mind) /\ StandsThere

-----------------------------------------------------------------------------
(* pushTNT and tower: jump, fill the cell under the feet, until it stands  *)
(* above the cover; then the TNT on top, and away.                         *)

Towers == stand.up < TowerMax /\ (hands.blocks > 0 \/ stand.air)

\* A jump broken off leaves towering set: the next tower may rise anywhere.
PushTick ==
  /\ foeBedUp /\ mind.quit = 0 /\ ~ Fleeing /\ ~ mind.around /\ Pushes
  /\ stand.at # "away" \/ stand.towering
  /\ \/ /\ Towers /\ ~ stand.air
        /\ stand' = [stand EXCEPT !.air = TRUE, !.towering = TRUE]
        /\ Leave /\ Pass(mind) /\ NothingDug /\ UNCHANGED <<hands, lit, othersActs>>
     \/ /\ Towers /\ stand.air
        /\ \E fills \in BOOLEAN :
             /\ fills => hands.blocks > 0
             /\ hands' = [hands EXCEPT !.blocks = IF fills THEN @ - 1 ELSE @]
             /\ stand' = [stand EXCEPT !.air = FALSE, !.up = IF fills THEN @ + 1 ELSE @]
        /\ Leave /\ Pass(mind) /\ NothingDug /\ UNCHANGED <<lit, othersActs>>
     \/ /\ ~ Towers /\ stand.at = "away"
        /\ stand' = [stand EXCEPT !.towering = FALSE]
        /\ Leave /\ Pass(mind) /\ NothingDug /\ UNCHANGED <<hands, lit, othersActs>>
     \/ /\ ~ Towers /\ stand.at # "away"
        /\ hands' = [hands EXCEPT !.tnt = @ - 1]
        /\ job' = NoDigJob /\ lit' = TRUE
        /\ stand' = [stand EXCEPT !.towering = FALSE, !.air = FALSE]
        /\ Pass([mind EXCEPT !.push = PushGap + 1, !.flee = FleeFor + 1])
        /\ NothingDug /\ UNCHANGED othersActs

-----------------------------------------------------------------------------
(* The other ticks. *)

\* flee: away from the TNT it lit.
FleeTick ==
  /\ Fleeing
  /\ stand' = [stand EXCEPT !.at = "away", !.up = 0, !.air = FALSE]
  /\ Leave /\ Pass(mind) /\ NothingDug /\ UNCHANGED <<hands, lit, othersActs>>

\* Back to the bed; or home for the tool (hardStuck), tier after tier until
\* it digs the cover in time.
ReturnTick ==
  /\ foeBedUp /\ stand.at = "away" /\ ~ Fleeing /\ mind.quit = 0
  /\ ~ (stand.towering /\ Pushes /\ ~ mind.around)
  /\ \E s \in Sides : stand' = [stand EXCEPT !.at = s, !.up = 0, !.air = FALSE]
  /\ Leave /\ Pass(mind) /\ NothingDug /\ UNCHANGED <<hands, lit, othersActs>>

BuyTick ==
  /\ mind.stuck /\ ~ Fleeing
  /\ hands.tool < 2
  /\ hands' = [hands EXCEPT !.tool = @ + 1]
  /\ stand' = [stand EXCEPT !.at = "away", !.up = 0, !.air = FALSE]
  /\ Pass([mind EXCEPT !.stuck = \A s \in Sides : DigTime[hull[s]][hands.tool + 1] > MaxDig])
  /\ Leave /\ NothingDug /\ UNCHANGED <<lit, othersActs>>

\* A fight, a route, a bed given up: a tick with no work done.
OtherTick ==
  /\ ~ Fleeing
  /\ Leave /\ Pass(mind) /\ NothingDug
  /\ stand' = [stand EXCEPT !.air = FALSE]
  /\ UNCHANGED <<hands, lit, othersActs>>

-----------------------------------------------------------------------------
(* What others do, between two ticks. *)

OthersAct == othersActs < MaxOthers /\ othersActs' = othersActs + 1

Covers ==
  /\ OthersAct /\ foeBedUp
  /\ \E s \in Sides, k \in Kinds \ {"map"} :
       hull[s] = "open" /\ hull' = [hull EXCEPT ![s] = k]
  /\ UNCHANGED <<foeBedUp, stand, hands, job, mind, lit, work, broke>>

Uncovers ==
  /\ OthersAct
  /\ \E s \in Sides : hull[s] \in Kinds \ {"map"} /\ hull' = [hull EXCEPT ![s] = "open"]
  /\ UNCHANGED <<foeBedUp, stand, hands, job, mind, lit, work, broke>>

\* The TNT goes off; the bed itself stands it.
GoesOff ==
  /\ lit /\ lit' = FALSE
  /\ \E hit \in SUBSET {s \in Sides : TNTBreaks(hull[s])} :
       hull' = [s \in Sides |-> IF s \in hit THEN "open" ELSE hull[s]]
  /\ UNCHANGED <<foeBedUp, stand, hands, job, mind, work, broke, othersActs>>

\* A blow, or its death: its mind stays as it was.
Displaced ==
  /\ OthersAct
  /\ \E dies \in BOOLEAN :
       hands' = IF dies THEN [hands EXCEPT !.tnt = 0, !.blocks = 0] ELSE hands
  /\ stand' = [stand EXCEPT !.at = "away", !.up = 0, !.air = FALSE]
  /\ UNCHANGED <<hull, foeBedUp, job, mind, lit, work, broke>>

-----------------------------------------------------------------------------
DigBedInit ==
  /\ hull \in [Sides -> {"open", "soft", "hard", "rock", "map"}]
  /\ foeBedUp = TRUE
  /\ \E s \in Sides : stand = [at |-> s, up |-> 0, air |-> FALSE, towering |-> FALSE]
  /\ hands = [tool |-> 0, tnt |-> 1, blocks |-> 2]
  /\ job = NoDigJob
  /\ \E p \in BOOLEAN :
       mind = [quit |-> 0, around |-> FALSE, stuck |-> FALSE, flee |-> 0, push |-> 0, pusher |-> p]
  /\ lit = FALSE /\ work = NoWork /\ broke = NoWork /\ othersActs = 0

DigBedNext ==
  \/ BreakTick \/ AroundTick \/ PushTick \/ FleeTick \/ ReturnTick \/ BuyTick \/ OtherTick
  \/ Covers \/ Uncovers \/ GoesOff \/ Displaced

DigBedSpec == DigBedInit /\ [][DigBedNext]_digBedVars

DigBedTypeOK ==
  /\ hull \in [Sides -> Kinds \cup {"open"}]
  /\ stand.at \in Sides \cup {"away"} /\ stand.up \in 0..TowerMax
  /\ hands.tool \in Tools /\ hands.tnt \in 0..1 /\ hands.blocks \in 0..2
  /\ job.pos \in Sides \cup {"bed", "none"} /\ job.age \in 0..2
  /\ mind.quit \in 0..GiveUpFor /\ mind.flee \in 0..FleeFor /\ mind.push \in 0..PushGap

(* A block the bot breaks it has dug: on every tick, one after the other,  *)
(* for as long as the block took when it began.  A fight, a blast or a     *)
(* trip to the shop in between and it starts over, like a player who let   *)
(* go of the button (digging, brain.go:185-197): a job remembered by the   *)
(* tick it would be done on comes back long done.                          *)
DugInEarnest == broke.did > broke.need
=============================================================================
