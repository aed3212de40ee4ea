------------------------------- MODULE MCPlay -------------------------------
(*****************************************************************************)
(* A player's state for TLC: inventories, entities, archery, damage,         *)
(* effects and digging. A behaviour takes the steps of one part, chosen at   *)
(* the start; the variables of the others stay as they are.                  *)
(*****************************************************************************)
EXTENDS Inventory, Entities, Archery, Vitals, Effects, Digging

CONSTANTS Parts, ann, bob

VARIABLE part

\* Inventory: skulls stack and can be worn, the kit does neither.
Sizes == [k \in Kind |-> IF k = "skull" THEN 2 ELSE 1]
Pieces == [k \in Kind |-> IF k = "skull" THEN 0 ELSE NotWorn]
Stocks == [k \in Kind |-> IF k = "skull" THEN 3 ELSE 0]
Supply == [k \in Kind |-> IF k = "skull" THEN 3 ELSE 1]

\* Archery, a bound: the hub is left within a tick.
BriefHub == part = "archery" => ticks[HubRoom] <= 1

\* Effects: two levels of absorption, three lengths.
SomeGifts ==
    {[kind |-> "absorption", level |-> l, length |-> n] : l \in 1..2, n \in 1..2}
    \cup {[kind |-> "absorption", level |-> 1, length |-> 3]}

\* Digging: stone yields to the pick only.
TwoBlocks == [wool  |-> [hardness |-> 1, harvest |-> {"hand", "pick"}],
              stone |-> [hardness |-> 2, harvest |-> {"pick"}]]
TwoTools == [hand |-> 1, pick |-> 2]
OneDigging == /\ \A r \in DigRoom : \A p \in Place : block[r][p] = "wool"
              /\ \A d \in Digger : inRoom[d] = "game" /\ tool[d] = "hand"

PartsInit ==
    /\ part \in Parts
    /\ InvInit
    /\ EntitiesInit
    /\ ArrowInit
    /\ VitalInit /\ (part # "vitals" => respawns = "screen")
    /\ EffectInit
    /\ DiggingInit /\ (part # "digging" => OneDigging)

PartsNext ==
    \/ /\ part = "inventory" /\ InvNext
       /\ UNCHANGED <<entityVars, arrowVars, vitalVars, effectVars, digVars>>
    \/ /\ part = "entities" /\ EntitiesNext
       /\ UNCHANGED <<invVars, arrowVars, vitalVars, effectVars, digVars>>
    \/ /\ part = "archery" /\ ArrowNext
       /\ UNCHANGED <<invVars, entityVars, vitalVars, effectVars, digVars>>
    \/ /\ part = "vitals" /\ VitalNext
       /\ UNCHANGED <<invVars, entityVars, arrowVars, effectVars, digVars>>
    \/ /\ part = "effects" /\ EffectNext
       /\ UNCHANGED <<invVars, entityVars, arrowVars, vitalVars, digVars>>
    \/ /\ part = "digging" /\ DiggingNext
       /\ UNCHANGED <<invVars, entityVars, arrowVars, vitalVars, effectVars>>

partsVars == <<part, invVars, entityVars, arrowVars, vitalVars, effectVars, digVars>>

PartsSpec == PartsInit /\ [][PartsNext /\ UNCHANGED part]_partsVars
=============================================================================
