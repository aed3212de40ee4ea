------------------------------ MODULE BotFight ------------------------------
(***************************************************************************)
(* A bot and its enemies (think, pickTarget, fight, chase and unreachable  *)
(* of botai/brain.go, the bow of tactics.go, the intruder of team.go): whom*)
(* it takes on, how it closes in, when it falls back, and when it leaves   *)
(* an enemy alone.                                                         *)
(*                                                                         *)
(* An enemy is somewhere (its zone, as far as the bot's reach and sight    *)
(* tell them apart), seen or hidden, and there is a way to it or not.      *)
(* Times are kept as the ticks they are away.  What the bot does when      *)
(* nobody is to fight is BotPursue.                                        *)
(***************************************************************************)
EXTENDS Naturals, FiniteSets

LOCAL INSTANCE FiniteSetsExt

CONSTANTS
  Foes,
  StandOff,       \* botStandOff
  IgnoreFor,      \* botIgnoreFor
  RetreatFor,     \* botRetreatTicks
  TargetEvery,    \* botTargetEvery
  DrawTicks,      \* botDrawTicks
  ShotGap,        \* the ticks between two shots
  React,          \* the longest a swing waits: reaction and rhythm
  FightParts,     \* the parts it may have: "attacker", "archer", "defender"
  MaxMoves        \* bound: what the enemies do

\* botIgnoreFor outlasts the stand-off with each enemy.  With 30 and 100
\* ticks that is so for three enemies; a fourth could hold the bot up.
ASSUME Outlasts == IgnoreFor > Cardinality(Foes) * (StandOff + 1)

VARIABLES
  foe,      \* foe[f]: [zone, way, seen, valid]
  bot,      \* [part, hp, arrows, atBase, friend]: low or well, arrows to shoot,
            \* at an enemy bed, a friend in the line of fire
  target,   \* br.target, or "none"
  ignore,   \* ignore[f]: ticks f is left alone yet
  retreat,  \* ticks of falling back left
  close,    \* ticks the chase's goal has been reached, 0: it is not
  draw,     \* ticks the bow has been drawn, 0: it is not
  wait,     \* [swing, shot]: ticks to the next
  onRoute,  \* it follows a route to the target
  intruder, \* the enemy at its team's bed, or "none"
  phase,    \* ticks to the next look round
  stalled,  \* the ticks it has stood there with nothing done
  moves

fightVars == <<foe, bot, target, ignore, retreat, close, draw, wait, onRoute, intruder,
               phase, stalled, moves>>

NoFoe == "none"
\* hit: within botChaseClose; reach: within botAttackReach; near: within the
\* aggro range; far: within an archer's sight.
Zones == {"hit", "reach", "near", "far", "out"}
ZoneOrder == [hit |-> 1, reach |-> 2, near |-> 3, far |-> 4, out |-> 5]
\* open: a route; there: as close as can be, out of reach yet; none: no route.
Ways == {"open", "there", "none"}
Wane(n) == IF n = 0 THEN 0 ELSE n - 1

-----------------------------------------------------------------------------
(* Whom. *)

Archer == bot.part = "archer" /\ bot.arrows

TargetValid(f) == f # NoFoe /\ foe[f].valid

\* Mutant: the intruder is taken on whether or not there is a way to it.
BugTeamIntruder == IF bot.part = "defender" /\ TargetValid(intruder) THEN intruder ELSE NoFoe

\* teamIntruder: not one it found no way to.
TeamIntruder ==
  IF bot.part = "defender" /\ TargetValid(intruder) /\ (intruder \in Foes => ignore[intruder] = 0)
  THEN intruder ELSE NoFoe

InSight(f) == foe[f].zone \in {"hit", "reach", "near"} \/ (Archer /\ foe[f].zone = "far" /\ foe[f].seen)
Eligible == {f \in Foes : ignore[f] = 0 /\ foe[f].valid /\ InSight(f)}

\* pickTarget: the nearest; a defender, whoever is at the bed.
Picks ==
  IF TeamIntruder # NoFoe THEN {TeamIntruder}
  ELSE IF Eligible = {} THEN {NoFoe}
  ELSE {f \in Eligible : \A o \in Eligible : ZoneOrder[foe[f].zone] <= ZoneOrder[foe[o].zone]}

\* The target of this tick.
Targets == IF phase = 0 \/ ~ TargetValid(target) THEN Picks ELSE {target}

-----------------------------------------------------------------------------
(* How. *)

\* shoot: the shots it may take at f.
CanShoot(f) == bot.arrows /\ foe[f].seen /\ (foe[f].zone # "far" \/ bot.part = "archer") /\ foe[f].zone # "out"

Idle == stalled' = stalled + 1
Occupied == stalled' = 0

\* The clocks every tick turns.
Clocks ==
  /\ phase' = IF phase = 0 THEN TargetEvery - 1 ELSE phase - 1
  /\ UNCHANGED <<foe, bot, intruder, moves>>
Ignores(ig) == ignore' = [f \in Foes |-> Wane(ig[f])]
NoShot == draw' = 0

\* shoot: draw, aim, loose; with a friend in the line step aside.
Shoot(f, t) ==
  /\ target' = t
  /\ IF bot.friend
     THEN draw' = draw /\ wait' = [swing |-> Wane(wait.swing), shot |-> Wane(wait.shot)] /\ Occupied
     ELSE IF draw >= DrawTicks
     THEN /\ draw' = 0
          /\ \E g \in {0, ShotGap} : wait' = [swing |-> Wane(wait.swing), shot |-> g]
          /\ Occupied
     ELSE /\ draw' = IF draw > 0 \/ wait.shot = 0 THEN draw + 1 ELSE 0
          /\ wait' = [swing |-> Wane(wait.swing), shot |-> Wane(wait.shot)]
          /\ Occupied
  /\ Ignores(ignore)

WaitOn == wait' = [swing |-> Wane(wait.swing), shot |-> Wane(wait.shot)]

\* unreachable: shoot it, else leave it be for a while.
Unreachable(f) ==
  IF CanShoot(f)
  THEN Shoot(f, f) /\ UNCHANGED <<retreat, close, onRoute>>
  ELSE /\ Ignores([ignore EXCEPT ![f] = IgnoreFor + 1])
       /\ target' = NoFoe /\ onRoute' = FALSE /\ NoShot /\ WaitOn
       /\ Idle
       /\ UNCHANGED <<retreat, close>>

\* The swing of a tick with the enemy in reach: now, or as soon as the
\* reaction and the rhythm allow.
Swings ==
  \E s \in 0..React :
    wait' = [swing |-> IF wait.swing = 0 THEN s ELSE wait.swing - 1, shot |-> Wane(wait.shot)]

\* chase: along the route, or as close as it gets, for a while.
Chase(f, c0, route0) ==
  IF foe[f].way = "there" /\ ~ route0
  THEN LET c == c0 + 1
       IN  IF c <= StandOff
           THEN /\ close' = c /\ onRoute' = route0 /\ retreat' = retreat
                /\ target' = f /\ NoShot /\ Ignores(ignore)
                /\ IF foe[f].zone = "reach" THEN Swings /\ Occupied ELSE WaitOn /\ Idle
           ELSE Unreachable(f)
  ELSE IF foe[f].way = "none"
  THEN Unreachable(f)
  ELSE /\ close' = 0 /\ onRoute' = (foe[f].way = "open") /\ retreat' = retreat
       /\ target' = f /\ NoShot /\ Ignores(ignore)
       /\ IF foe[f].zone = "reach" THEN Swings ELSE WaitOn
       /\ Occupied

\* fight, with the enemy f the target since t0 (its chase begun anew).
Falls == bot.hp = "low" /\ ~ bot.atBase /\ retreat = 0

Fight(f) ==
  LET new == f # target
      ret == IF Falls THEN RetreatFor ELSE retreat
      c0 == IF new THEN 0 ELSE close
      route0 == ~ new /\ onRoute
  IN  IF ret > 0 /\ foe[f].zone # "hit"
      THEN /\ retreat' = ret /\ target' = NoFoe
           /\ Ignores(ignore) /\ WaitOn /\ Idle
           /\ UNCHANGED <<close, draw, onRoute>>
      ELSE IF (draw > 0 \/ (foe[f].zone \in {"near", "far"} /\ bot.part = "archer")) /\ CanShoot(f)
      THEN Shoot(f, f) /\ close' = c0 /\ onRoute' = route0 /\ retreat' = ret
      ELSE IF (draw > 0 \/ bot.part = "archer") /\ foe[f].zone \in {"far", "out"}
      THEN Unreachable(f)
      ELSE IF foe[f].zone = "hit"
      THEN /\ Swings /\ Occupied /\ target' = f /\ NoShot
           /\ Ignores(ignore) /\ close' = c0 /\ onRoute' = route0 /\ retreat' = ret
      ELSE Chase(f, c0, route0)

\* think: one that falls back fights only an enemy too close to run from.
TakesOn(f) == f # NoFoe /\ (retreat = 0 \/ bot.atBase \/ foe[f].zone = "hit")

-----------------------------------------------------------------------------
(* The ticks. *)

FightTick ==
  /\ \E f \in Targets : TakesOn(f) /\ Fight(f)
  /\ Clocks

\* Home, or what the plan says.
GoOnTick ==
  /\ \E f \in Targets : ~ TakesOn(f) /\ target' = f /\ close' = IF f = target THEN close ELSE 0
  /\ retreat' = IF bot.atBase THEN 0 ELSE Wane(retreat)
  /\ Ignores(ignore) /\ WaitOn /\ NoShot
  /\ onRoute' = FALSE
  /\ Occupied /\ Clocks

-----------------------------------------------------------------------------
(* What the enemies do, between two ticks. *)

Stir == moves < MaxMoves /\ moves' = moves + 1 /\ stalled' = 0
Mind == UNCHANGED <<target, ignore, retreat, close, draw, wait, onRoute, phase>>

FoeMoves ==
  /\ Stir
  /\ \E f \in Foes, z \in Zones, w \in Ways, v \in BOOLEAN :
       foe' = [foe EXCEPT ![f] = [zone |-> z, way |-> w, seen |-> v, valid |-> TRUE]]
  /\ UNCHANGED <<bot, intruder>> /\ Mind

\* Dead, a spectator, gone, or no enemy any more.
FoeGone ==
  /\ Stir
  /\ \E f \in Foes : foe[f].valid /\ foe' = [foe EXCEPT ![f].valid = FALSE]
  /\ UNCHANGED <<bot, intruder>> /\ Mind

AtTheBed ==
  /\ Stir
  /\ intruder' \in (Foes \cup {NoFoe}) \ {intruder}
  /\ UNCHANGED <<foe, bot>> /\ Mind

BotChanges ==
  /\ Stir
  /\ bot' \in {[bot EXCEPT !.hp = IF bot.hp = "low" THEN "well" ELSE "low"],
               [bot EXCEPT !.atBase = ~ bot.atBase],
               [bot EXCEPT !.friend = ~ bot.friend],
               [bot EXCEPT !.arrows = ~ bot.arrows]}
  /\ UNCHANGED <<foe, intruder>> /\ Mind

-----------------------------------------------------------------------------
FightInit ==
  /\ foe \in [Foes -> [zone : Zones, way : Ways, seen : BOOLEAN, valid : {TRUE}]]
  /\ \E p \in FightParts : bot = [part |-> p, hp |-> "well", arrows |-> FALSE, atBase |-> FALSE, friend |-> FALSE]
  /\ target = NoFoe /\ ignore = [f \in Foes |-> 0] /\ retreat = 0 /\ close = 0 /\ draw = 0
  /\ wait = [swing |-> 0, shot |-> 0] /\ onRoute = FALSE /\ intruder = NoFoe /\ phase = 0
  /\ stalled = 0 /\ moves = 0

FightNext == FightTick \/ GoOnTick \/ FoeMoves \/ FoeGone \/ AtTheBed \/ BotChanges

FightSpec == FightInit /\ [][FightNext]_fightVars

FightTypeOK ==
  /\ foe \in [Foes -> [zone : Zones, way : Ways, seen : BOOLEAN, valid : BOOLEAN]]
  /\ target \in Foes \cup {NoFoe} /\ ignore \in [Foes -> 0..IgnoreFor]
  /\ retreat \in 0..RetreatFor /\ close \in 0..StandOff /\ draw \in 0..DrawTicks
  /\ phase \in 0..(TargetEvery - 1)

(* Enemies cannot hold the bot up: while they stay as they are it stands   *)
(* there with nothing done for botStandOff ticks and one for each of them, *)
(* and one tick to turn back.  An enemy it finds no way to is left alone   *)
(* (unreachable), also by a defender whose bed it stands at (teamIntruder),*)
(* and one that falls back does not turn round again (fight,               *)
(* brain.go:367-378).                                                      *)
NotHeldUp == stalled <= Cardinality(Foes) * (StandOff + 1) + 1
=============================================================================
