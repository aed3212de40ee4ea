---------------------------- MODULE MCWorldSync ----------------------------
(*****************************************************************************)
(* Instances of WorldSync for TLC, two positions in two columns, and         *)
(* explosions, which share nothing with it. A behaviour takes the steps of   *)
(* one part, chosen at the start; the variables of the others stay as they   *)
(* are.                                                                      *)
(*****************************************************************************)
EXTENDS WorldSync, Blast, TLC

CONSTANTS Parts, p1, p2, air, stone, w1, w2, m1, m2

VARIABLE part

OnePos == {p1}
TwoPos == {p1, p2}
Blocks == {air, stone}
OwnColumn == [p \in Pos |-> p]

OneWriter == {w1}
TwoWriters == {w1, w2}
OneClient == {m1}
TwoClients == {m1, m2}

Put(p, k) == [pos |-> p, block |-> k]

\* SetBlock of either position, and a SetBlocks that goes back on itself.
Singles == {<<Put(p1, air)>>, <<Put(p1, stone)>>}
Lists == {<<Put(p1, stone)>>, <<Put(p2, air)>>,
          <<Put(p1, air), Put(p2, stone), Put(p1, stone)>>}

\* Blast: four cells in a row; what a ray loses in each block.
BlastRow == 1..4
Losses == [b \in {"air", "water", "stone", "tnt"} |->
             CASE b = "water" -> 9 [] b = "stone" -> 3 [] OTHER -> 1]
OneScene == (\A x \in Row : wall[x] = "air") /\ (\A p \in Target : where[p] = 1)

\* Clients and writers are told apart by nothing but their states.
ActorSymmetry == Permutations(Client) \cup Permutations(Writer)

PartsInit ==
    /\ part \in Parts
    /\ Init
    /\ BlastInit /\ (part # "blast" => OneScene)

PartsNext ==
    \/ /\ part = "sync" /\ Next
       /\ UNCHANGED <<blastVars>>
    \/ /\ part = "blast" /\ BlastNext
       /\ UNCHANGED <<vars>>

partsVars == <<part, vars, blastVars>>

PartsSpec == PartsInit /\ [][PartsNext /\ UNCHANGED part]_partsVars
=============================================================================
