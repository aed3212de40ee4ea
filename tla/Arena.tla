------------------------------- MODULE Arena -------------------------------
(***************************************************************************)
(* Breaking and placing blocks under BedWars' build rules                  *)
(* (src/server/dig.go, bed.go, tnt.go and handler_play_world.go,           *)
(* src/games/bedwars/bedwars.go and utility.go).                           *)
(*                                                                         *)
(* A break asks the game, which answers under its own lock and takes the   *)
(* block's "placed" mark; the world is read and changed afterwards.  A     *)
(* placement looks at the world, then leaves a mark, then writes.  Readers *)
(* of several players and the tick loop, with its bridge eggs and its     *)
(* explosions, run these steps between one another.  The round has begun;  *)
(* players are in survival.                                                *)
(***************************************************************************)
EXTENDS Integers, FiniteSets

CONSTANTS Builder,      \* players
          Stone,        \* cells of the map
          BedHalf,      \* the two cells of the one team bed
          AirCell,         \* cells that are air on the map
          Beside,       \* a cell of a bed -> the cell of its other half
          MaxAllowed,   \* bound on placements allowed
          MaxTowers     \* bound on pop-up towers

Site == Stone \cup BedHalf \cup AirCell

ASSUME ArenaAssumption ==
    /\ IsFiniteSet(Builder) /\ IsFiniteSet(Site)
    /\ Stone \cap BedHalf = {} /\ Beside \in [BedHalf -> BedHalf]

BedStates == {"bed", "foot", "head"}
Contents == {"air", "stone", "wool", "tnt", "ladder"} \cup BedStates

VARIABLES terrain,    \* World: cell -> what stands there
          placed,    \* bedWars.placed
          bedAlive,  \* teamState.bedAlive of the bed's team
          owner,     \* the players of the bed's team
          act,       \* what each player's reader is in the middle of: a dig
                     \* under way (digPos), or a step of a break or a placement
          loop,      \* what the tick loop is in the middle of
          primed,    \* primed TNT
          tally,     \* placements allowed, and drops of blocks off the bed
          ladders    \* cells towers put their ladders through

arenaVars == <<terrain, placed, bedAlive, owner, act, loop,
               primed, tally, ladders>>

AtRest == [at |-> "rest"]

ArenaInit ==
    /\ terrain = [c \in Site |-> IF c \in Stone THEN "stone"
                                ELSE IF c \in BedHalf THEN "bed" ELSE "air"]
    /\ placed = {} /\ bedAlive = TRUE
    /\ owner \in {{}} \cup {{p} : p \in Builder}
    /\ act = [p \in Builder |-> AtRest]
    /\ loop = AtRest
    /\ primed = 0
    /\ tally = [allowed |-> 0, drops |-> 0]
    /\ ladders = {}

Acts(p, a) == act' = [act EXCEPT ![p] = a]
Puts(c, b) == terrain' = [terrain EXCEPT ![c] = b]
MayAllow == tally.allowed < MaxAllowed
Allowed == tally' = [tally EXCEPT !.allowed = @ + 1]
Dropped(n) == tally' = [tally EXCEPT !.drops = @ + n]
\* A block broken where the bed stands or stood is not counted.
Counted(c) == IF c \in BedHalf THEN 0 ELSE 1

-----------------------------------------------------------------------------
(* Digging *)

\* startDig: an instant block breaks at once, others wait for the finish.
StartDig(p, c) ==
    /\ act[p] = AtRest /\ terrain[c] # "air"
    /\ \/ Acts(p, [at |-> "dig", cell |-> c])
       \/ Acts(p, [at |-> "ask", cell |-> c, then |-> "look"])
    /\ UNCHANGED <<terrain, placed, bedAlive, owner, loop, primed, tally, ladders>>

\* cancelDig, or finishDig of another block, of air or too early.
CancelDig(p) ==
    /\ act[p].at = "dig"
    /\ Acts(p, AtRest)
    /\ UNCHANGED <<terrain, placed, bedAlive, owner, loop, primed, tally, ladders>>

\* finishDig of the block begun, still there and dug long enough.
FinishDig(p) ==
    /\ act[p].at = "dig" /\ terrain[act[p].cell] # "air"
    /\ Acts(p, [at |-> "ask", cell |-> act[p].cell, then |-> "look"])
    /\ UNCHANGED <<terrain, placed, bedAlive, owner, loop, primed, tally, ladders>>

\* tryIgniteTNT: lighting TNT asks like a break.
Ignite(p, c) ==
    /\ act[p] = AtRest /\ terrain[c] = "tnt"
    /\ Acts(p, [at |-> "ask", cell |-> c, then |-> "prime"])
    /\ UNCHANGED <<terrain, placed, bedAlive, owner, loop, primed, tally, ladders>>

\* A mutant: the mark stays when the block is broken.
BugTakeMark(c) == c \in placed /\ UNCHANGED placed

\* The mark of a placed block is what lets it be broken, once.
TakeMark(c) == c \in placed /\ placed' = placed \ {c}

\* bedWars.OnBlockBreak, under g.mu.
AskBreak(p) ==
    LET a == act[p]
        goOn == Acts(p, [a EXCEPT !.at = a.then])
        refused == Acts(p, AtRest) /\ UNCHANGED <<placed, bedAlive>>
    IN  /\ a.at = "ask"
        /\ \/ a.cell \in BedHalf /\ p \in owner /\ refused
           \/ /\ a.cell \in BedHalf /\ p \notin owner
              /\ bedAlive' = FALSE
              /\ IF bedAlive THEN Acts(p, [at |-> "fell", cell |-> a.cell, left |-> BedHalf, then |-> a.then])
                 ELSE goOn
              /\ UNCHANGED placed
           \/ a.cell \notin BedHalf /\ TakeMark(a.cell) /\ goOn /\ UNCHANGED bedAlive
           \/ a.cell \notin BedHalf /\ a.cell \notin placed /\ refused
        /\ UNCHANGED <<terrain, owner, loop, primed, tally, ladders>>

\* The killed bed's halves are cleared one by one, outside the lock.
FellBed(p) ==
    LET a == act[p]
    IN  /\ a.at = "fell"
        /\ IF a.left = {} THEN Acts(p, [at |-> a.then, cell |-> a.cell]) /\ UNCHANGED terrain
           ELSE \E c \in a.left : Puts(c, "air") /\ Acts(p, [a EXCEPT !.left = @ \ {c}])
        /\ UNCHANGED <<placed, bedAlive, owner, loop, primed, tally, ladders>>

\* breakBlock after the veto: nothing for air; else the block is cleared, a
\* bed half with its partner, and drops when the tool in hand harvests it.
BreakBlock(p) ==
    LET c == act[p].cell
        b == terrain[c]
    IN  /\ act[p].at = "look"
        /\ IF b = "air" THEN UNCHANGED <<terrain, tally>>
           ELSE /\ terrain' = [d \in Site |->
                                IF d = c \/ (b \in BedStates /\ d = Beside[c]) THEN "air"
                                ELSE terrain[d]]
                /\ Dropped(Counted(c)) \/ UNCHANGED tally
        /\ Acts(p, AtRest)
        /\ UNCHANGED <<placed, bedAlive, owner, loop, primed, ladders>>

-----------------------------------------------------------------------------
(* Placing *)

\* world.Replaceable
Replaceable(c) == terrain[c] = "air"

\* onUseItemOn and placeBed up to OnBlockPlace: the cells are looked at.
StartPlace(p, c, b) ==
    /\ act[p] = AtRest /\ MayAllow
    /\ Replaceable(c) /\ (b = "foot" => c \in DOMAIN Beside /\ Replaceable(Beside[c]))
    /\ Acts(p, [at |-> "mark", cell |-> c, block |-> b])
    /\ UNCHANGED <<terrain, placed, bedAlive, owner, loop, primed, tally, ladders>>

\* bedWars.OnBlockPlace
MarkPlaced(p) ==
    LET a == act[p]
    IN  /\ a.at = "mark"
        /\ placed' = placed \cup {a.cell}
        /\ Allowed
        /\ Acts(p, [a EXCEPT !.at = "lay"])
        /\ UNCHANGED <<terrain, bedAlive, owner, loop, primed, ladders>>

\* SetBlock; a bed's other half follows, TNT lights itself.
Lay(p) ==
    LET a == act[p]
    IN  /\ a.at = "lay"
        /\ Puts(a.cell, a.block)
        /\ Acts(p, CASE a.block = "foot" -> [at |-> "lay", cell |-> Beside[a.cell], block |-> "head"]
                      [] a.block = "tnt" -> [at |-> "prime", cell |-> a.cell]
                      [] OTHER -> AtRest)
        /\ UNCHANGED <<placed, bedAlive, owner, loop, primed, tally, ladders>>

\* primeTNT: the block, if it is TNT, turns to air and to an entity.
PrimeTNT(p) ==
    LET c == act[p].cell
    IN  /\ act[p].at = "prime"
        /\ IF terrain[c] = "tnt" THEN Puts(c, "air") /\ primed' = primed + 1
           ELSE UNCHANGED <<terrain, primed>>
        /\ Acts(p, AtRest)
        /\ UNCHANGED <<placed, bedAlive, owner, loop, tally, ladders>>

\* buildPopupTower: the walls stand in air only, the ladders anywhere.
StartTower(p, walls, ladder) ==
    /\ act[p] = AtRest /\ MayAllow /\ ladders = {} /\ MaxTowers > 0
    /\ \A c \in walls : Replaceable(c)
    /\ Acts(p, [at |-> "raise", walls |-> walls, ladder |-> ladder])
    /\ UNCHANGED <<terrain, placed, bedAlive, owner, loop, primed, tally, ladders>>

MarkTower(p) ==
    LET a == act[p]
    IN  /\ a.at = "raise"
        /\ placed' = placed \cup a.walls \cup {a.ladder}
        /\ ladders' = ladders \cup {a.ladder}
        /\ tally' = [tally EXCEPT !.allowed = @ + 2]
        /\ Acts(p, [a EXCEPT !.at = "build"])
        /\ UNCHANGED <<terrain, bedAlive, owner, loop, primed>>

Build(p) ==
    LET a == act[p]
    IN  /\ a.at = "build"
        /\ terrain' = [c \in Site |-> IF c = a.ladder THEN "ladder"
                                     ELSE IF c \in a.walls THEN "wool" ELSE terrain[c]]
        /\ Acts(p, AtRest)
        /\ UNCHANGED <<placed, bedAlive, owner, loop, primed, tally, ladders>>

-----------------------------------------------------------------------------
(* The tick loop *)

\* layBridgeBlock: the cell is looked at, then marked and laid.
EggLook(c) ==
    /\ loop = AtRest /\ MayAllow /\ Replaceable(c)
    /\ loop' = [at |-> "egg", cell |-> c]
    /\ UNCHANGED <<terrain, placed, bedAlive, owner, act, primed, tally, ladders>>

EggLay ==
    /\ loop.at = "egg"
    /\ placed' = placed \cup {loop.cell}
    /\ Allowed
    /\ Puts(loop.cell, "wool")
    /\ loop' = AtRest
    /\ UNCHANGED <<bedAlive, owner, act, primed, ladders>>

\* explosionBlocks: what the blast reaches and the vetoes let go; a bed's
\* place is kept out of it (OnExplosionBreak).
Explode(reach) ==
    /\ loop = AtRest /\ primed > 0
    /\ \A c \in reach : terrain[c] # "air"
    /\ LET goes == (reach \ BedHalf) \cap placed
       IN  /\ placed' = placed \ goes
           /\ loop' = IF goes = {} THEN AtRest ELSE [at |-> "blast", cells |-> goes]
    /\ primed' = primed - 1
    /\ UNCHANGED <<terrain, bedAlive, owner, act, tally, ladders>>

\* applyExplosionBlocks: what still stands goes and may drop; TNT the blast
\* reached is lit.
BlastBlocks ==
    /\ loop.at = "blast"
    /\ LET standing == {c \in loop.cells : terrain[c] # "air"}
           chain == {c \in standing : terrain[c] = "tnt"}
       IN  /\ \E n \in 0..Cardinality(standing \ chain) : Dropped(n)
           /\ terrain' = [c \in Site |-> IF c \in standing THEN "air" ELSE terrain[c]]
           /\ primed' = primed + Cardinality(chain)
    /\ loop' = AtRest
    /\ UNCHANGED <<placed, bedAlive, owner, act, ladders>>

Digging(p) ==
    \/ CancelDig(p) \/ FinishDig(p)
    \/ \E c \in Site : StartDig(p, c) \/ Ignite(p, c)

Placing(p) ==
    \/ \E c \in Site, b \in {"wool", "tnt", "foot"} : StartPlace(p, c, b)
    \/ \E wall \in AirCell : \E ladder \in Site \ {wall} : StartTower(p, {wall}, ladder)

ReaderWorks(p) ==
    \/ AskBreak(p) \/ FellBed(p) \/ BreakBlock(p) \/ MarkPlaced(p) \/ Lay(p) \/ PrimeTNT(p)
    \/ MarkTower(p) \/ Build(p)

LoopWorks ==
    \/ EggLay \/ BlastBlocks
    \/ \E c \in Site : EggLook(c)
    \/ \E reach \in SUBSET Site : Explode(reach)

ArenaNext ==
    \/ LoopWorks
    \/ \E p \in Builder : Digging(p) \/ Placing(p) \/ ReaderWorks(p)

ArenaSpec == ArenaInit /\ [][ArenaNext]_arenaVars

-----------------------------------------------------------------------------
Steps == {"rest", "dig", "ask", "fell", "look", "mark", "lay",
          "prime", "raise", "build"}

ArenaTypeOK ==
    /\ terrain \in [Site -> Contents]
    /\ placed \subseteq Site /\ ladders \subseteq Site
    /\ bedAlive \in BOOLEAN
    /\ owner \subseteq Builder
    /\ \A p \in Builder : act[p].at \in Steps
    /\ loop.at \in {"rest", "egg", "blast"}
    /\ primed \in Nat /\ tally.allowed \in Nat /\ tally.drops \in Nat

\* The map survives the round, and a bed stands as long as its team counts it
\* alive (bedwars.go:325-330, "breaking anything else (the map) is vetoed"):
\* whatever players, explosions and bridge eggs do between one another's
\* steps, only the ladder column of a pop-up tower replaces such a block.
MapKept ==
    /\ \A c \in Stone \ ladders : terrain[c] = "stone"
    /\ bedAlive => \A c \in BedHalf \ ladders : terrain[c] = "bed"

\* A block drops once: off the bed, the drops never exceed the placements
\* the game allowed, however digs, explosions and placements overlap.
DropsArePaid == tally.drops <= tally.allowed

\* Both: what the game keeps account of in its arena.
BlocksAccounted == MapKept /\ DropsArePaid
=============================================================================
