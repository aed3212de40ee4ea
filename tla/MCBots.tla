------------------------------- MODULE MCBots -------------------------------
(*****************************************************************************)
(* The brain of the bots for TLC, one part per module, and what the          *)
(* anticheat keeps of a player. A behaviour takes the steps of one part,     *)
(* chosen at the start; the variables of the others stay as they are.        *)
(*****************************************************************************)
EXTENDS BotWalk, BotTeam, BotPursue, BotDig, BotFight, Motion, Anticheat

CONSTANTS Parts

VARIABLE part

\* BotWalk: grounds over the void, with gaps, slabs and drops.
Strip(xs, h) == {<<x, h, 0>> : x \in xs}
Full(s) == [p \in s |-> "full"]
Kinded(s, k) == [p \in s |-> IF p[2] = 1 THEN k ELSE "full"]
Ground(w, s, n) == [ground |-> w, start |-> s, depth |-> n]
Stones == {<<2, 0, 0>>, <<3, 0, 0>>, <<4, 0, 0>>, <<5, 0, 0>>, <<4, 1, 0>>}
Plain == Ground(Full(Strip(0..7, 0)), <<0, 1, 0>>, 5)
SomeGrounds ==
    {Ground(Kinded(Strip({0, 1}, 0) \cup s, k), <<1, 1, 0>>, 3) :
        s \in SUBSET Stones, k \in {"slab", "full"}}
    \cup {Ground(Full(Strip({0, 1}, 3) \cup s), <<1, 4, 0>>, 3) : s \in SUBSET Stones}
    \cup {Plain, Ground(Full(Strip({0, 1, 5, 6, 7}, 0)), <<1, 1, 0>>, 3)}
OneLane == {0}
TenLong == 0..9
FlatGround == ground = Plain.ground /\ from = Plain.start /\ steps = Plain.depth

\* BotPursue: the blocks each leg lacks.
Lacks == [target |-> 2, pickup |-> 1, islet |-> 1]

\* A raider keeps its role: one that loses it searches on with no patience.
RaidersStay == raiding => duty' = duty

\* BotDig: three sides of a bed; the ticks a cover takes with each tool.
BedSides == {"front", "left", "top"}
SideRank == [front |-> 1, left |-> 2, top |-> 3]
Times == [open |-> <<0, 0, 0>>, soft |-> <<1, 1, 1>>, hard |-> <<3, 2, 1>>,
          rock |-> <<9, 9, 3>>, map |-> <<1, 1, 1>>]
DigTimes == [k \in DOMAIN Times |-> [t \in 0..2 |-> Times[k][t + 1]]]
OneDig == /\ \A s \in Sides : hull[s] = "open"
          /\ stand.at = "front" /\ ~mind.pusher

\* BotFight: nobody in sight.
OneFoe == /\ \A f \in Foes : /\ ~foe[f].seen
                             /\ foe[f].zone = CHOOSE z \in Zones : TRUE
                             /\ foe[f].way = CHOOSE w \in Ways : TRUE
          /\ bot.part = "archer"

\* Motion: a flat and a steep push.
TwoShoves == {[h |-> 60, up |-> 40], [h |-> 30, up |-> 90]}

PartsInit ==
    /\ part \in Parts
    /\ WalkInit /\ (part # "walk" => FlatGround)
    /\ TeamInit /\ (part # "team" => teamed = {} /\ started)
    /\ PursueInit /\ (part # "pursue" => duty = "attacker")
    /\ DigBedInit /\ (part # "dig" => OneDig)
    /\ FightInit /\ (part # "fight" => OneFoe)
    /\ MotionInit
    /\ WatchInit
    /\ PaceInit
    /\ LadderInit /\ (part # "ladder" => log[1].after = Clean)

PartsNext ==
    \/ /\ part = "walk" /\ WalkNext
       /\ UNCHANGED <<teamVars, pursueVars, digBedVars, fightVars, motionVars, watchVars,
                      paceVars, ladderVars>>
    \/ /\ part = "team" /\ TeamNext
       /\ UNCHANGED <<walkVars, pursueVars, digBedVars, fightVars, motionVars, watchVars,
                      paceVars, ladderVars>>
    \/ /\ part = "pursue" /\ PursueNext
       /\ UNCHANGED <<walkVars, teamVars, digBedVars, fightVars, motionVars, watchVars,
                      paceVars, ladderVars>>
    \/ /\ part = "dig" /\ DigBedNext
       /\ UNCHANGED <<walkVars, teamVars, pursueVars, fightVars, motionVars, watchVars,
                      paceVars, ladderVars>>
    \/ /\ part = "fight" /\ FightNext
       /\ UNCHANGED <<walkVars, teamVars, pursueVars, digBedVars, motionVars, watchVars,
                      paceVars, ladderVars>>
    \/ /\ part = "motion" /\ MotionNext
       /\ UNCHANGED <<walkVars, teamVars, pursueVars, digBedVars, fightVars, watchVars,
                      paceVars, ladderVars>>
    \/ /\ part = "watch" /\ WatchNext
       /\ UNCHANGED <<walkVars, teamVars, pursueVars, digBedVars, fightVars, motionVars,
                      paceVars, ladderVars>>
    \/ /\ part = "pace" /\ PaceNext
       /\ UNCHANGED <<walkVars, teamVars, pursueVars, digBedVars, fightVars, motionVars,
                      watchVars, ladderVars>>
    \/ /\ part = "ladder" /\ LadderNext
       /\ UNCHANGED <<walkVars, teamVars, pursueVars, digBedVars, fightVars, motionVars,
                      watchVars, paceVars>>

partsVars == <<part, walkVars, teamVars, pursueVars, digBedVars, fightVars, motionVars,
               watchVars, paceVars, ladderVars>>

PartsSpec == PartsInit /\ [][PartsNext /\ UNCHANGED part]_partsVars
=============================================================================
