------------------------------ MODULE MCMatch ------------------------------
(*****************************************************************************)
(* What a round's players share, for TLC: the economy, the arena, world      *)
(* edits, spectators, fluids and ender chests; and the password gate. A      *)
(* behaviour takes the steps of one part, chosen at the start; the           *)
(* variables of the others stay as they are.                                 *)
(*****************************************************************************)
EXTENDS Economy, Arena, WorldEdit, Spectating, Fluid, EnderChest, AuthGate, TLC

CONSTANTS Parts, ann, abe, bob, m1, f1, h1, a1, v1, v2

VARIABLE part

\* Economy: two mates against one, the cheapest prices.
Sides == [p \in Shopper |-> IF p = bob THEN 2 ELSE 1]
TwoTiers == <<1, 1>>
OneTrap == <<1>>
TwoTools == <<1, 1>>
Factors == <<1, 1, 2>>

\* Bounds of the economy: the second side's pile grows untouched, the mates
\* stay at home, one of them buys upgrades only, the other dies by bob's hand,
\* and armor is bought in the last tick.
FewShops ==
    part = "economy" =>
        /\ pile[2] = tickNo /\ stands[abe] = 1 /\ stands[ann] = 1
        /\ shop[abe] # NoShop => shop[abe].what = "upgrade"
        /\ kill[ann] # NoKill => kill[ann].by = bob
        /\ kit[ann].armor => tickNo = LastRoundTick

\* Arena: a bed of two halves.
Beds == f1 :> h1 @@ h1 :> f1

\* Bounds of the arena: ann raises, builds and digs, one cell of the bed only;
\* bob looks on, and digs and the tick loop take turns once something dropped.
OneDigs ==
    part = "arena" =>
        /\ act[bob].at \notin {"raise", "build", "dig"} /\ bob \notin owner
        /\ act[ann].at = "dig" => act[ann].cell # h1 /\ act[bob] = AtRest /\ loop = AtRest
        /\ loop # AtRest /\ (ladders # {} \/ tally.drops > 0 \/ ~bedAlive)
             => act[ann] = AtRest \/ act[bob] = AtRest
        /\ act[bob].at = "ask" => act[bob].cell # h1

\* WorldEdit: a row of two cells, one block with two directions.
TwoCells == 0..1
TwoWays == [m \in {"air", "north", "south"} |-> IF m = "air" THEN "air" ELSE "stairs"]

\* AuthGate: both visitors from one address; the second is not ann, and an
\* operator acts in the first second only.
OneAddress == [c \in Visitor |-> "ip"]
FewRoles == part = "gate" => sess[v2].name # ann /\ (operator # Nobody => second = 1)

PartsInit ==
    /\ part \in Parts
    /\ EconInit
    /\ ArenaInit /\ (part # "arena" => owner = {})
    /\ EditInit
    /\ SpectInit
    /\ FluidInit
    /\ EnderInit
    /\ GateInit

PartsNext ==
    \/ /\ part = "economy" /\ EconNext
       /\ UNCHANGED <<arenaVars, editVars, spectVars, fluidVars, enderVars, gateVars>>
    \/ /\ part = "arena" /\ ArenaNext
       /\ UNCHANGED <<econVars, editVars, spectVars, fluidVars, enderVars, gateVars>>
    \/ /\ part = "edit" /\ EditNext
       /\ UNCHANGED <<econVars, arenaVars, spectVars, fluidVars, enderVars, gateVars>>
    \/ /\ part = "watchers" /\ SpectNext
       /\ UNCHANGED <<econVars, arenaVars, editVars, fluidVars, enderVars, gateVars>>
    \/ /\ part = "fluid" /\ FluidNext
       /\ UNCHANGED <<econVars, arenaVars, editVars, spectVars, enderVars, gateVars>>
    \/ /\ part = "chests" /\ EnderNext
       /\ UNCHANGED <<econVars, arenaVars, editVars, spectVars, fluidVars, gateVars>>
    \/ /\ part = "gate" /\ GateNext
       /\ UNCHANGED <<econVars, arenaVars, editVars, spectVars, fluidVars, enderVars>>

partsVars == <<part, econVars, arenaVars, editVars, spectVars, fluidVars, enderVars,
               gateVars>>

PartsSpec == PartsInit /\ [][PartsNext /\ UNCHANGED part]_partsVars
=============================================================================
