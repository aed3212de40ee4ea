------------------------------- MODULE Blast -------------------------------
(***************************************************************************)
(* TNT and explosions (server/tnt.go, server/gameplay/explosion), on a row *)
(* of cells: lighting, the fuse, the rays through the blocks, the exposure *)
(* of players behind them, the shove and the chain reaction.  The tick     *)
(* loop works through an explosion while players light, dig and place the  *)
(* same blocks.                                                            *)
(*                                                                         *)
(* The strongest ray of a side starts with one of Strengths; a cell costs  *)
(* it once.  Bound: the look and the change of primeTNT are one step (two  *)
(* racing ones would both light one block).                                *)
(***************************************************************************)
EXTENDS Integers, Sequences, FiniteSetsExt

CONSTANTS
    Row,             \* an interval of integers
    Target,          \* players
    Kept,            \* cells the game's vetoes keep
    Resistance,      \* what a cell takes off a ray, by what stands there
    Strengths,       \* what rays start with
    Radius,          \* of the blast on players and TNT
    Fuse, ChainFuses, \* ticks
    MaxTnt,          \* bound: TNT blocks placed
    MaxOther         \* bound: other changes of blocks by players

VARIABLES
    wall,            \* World
    tnts,            \* Instance.tnts
    lighting,        \* cells whose lighting has looked and will light
    where,           \* players' cells
    health,          \* players' health: 0 is dead
    blast,           \* what the tick loop is in the middle of
    tally            \* history: TNT placed, blown, dug, fallen; other changes

blastVars == <<wall, tnts, lighting, where, health, blast, tally>>

ASSUME BlastAssumption ==
    /\ Row \subseteq Int /\ IsFiniteSet(Row) /\ Kept \subseteq Row
    /\ Fuse \in Nat \ {0} /\ ChainFuses \subseteq Nat \ {0}

Stuff == {"air", "water", "stone", "tnt"}
Passable(b) == b \in {"air", "water"}
Between(x, y) == {c \in Row : (x < c /\ c <= y) \/ (y <= c /\ c < x)}
Side(x, y) == IF x < y THEN 1 ELSE IF y < x THEN -1 ELSE 0
InRange(x, y) == y - x \in -Radius..Radius
Still == [at |-> "rest", queue |-> <<>>]

BlastInit ==
    /\ wall \in [Row -> {"air", "stone"}]
    /\ tnts = <<>> /\ lighting = {}
    /\ where \in [Target -> Row] /\ \A p \in Target : wall[where[p]] = "air"
    /\ health = [p \in Target |-> 2]
    /\ blast = Still
    /\ tally = [placed |-> 0, blown |-> 0, gone |-> 0, other |-> 0]

----------------------------------------------------------------------------
(* Players *)

\* What the tick loop is doing remembers which cells others changed meanwhile.
Touched(c) == blast' = IF "touched" \in DOMAIN blast
                       THEN [blast EXCEPT !.touched = @ \cup {c}] ELSE blast

Place(c, b) ==
    /\ Passable(wall[c]) /\ \A p \in Target : where[p] # c
    /\ IF b = "tnt" THEN tally.placed < MaxTnt /\ tally' = [tally EXCEPT !.placed = @ + 1]
                    ELSE tally.other < MaxOther /\ tally' = [tally EXCEPT !.other = @ + 1]
    /\ wall' = [wall EXCEPT ![c] = b]
    /\ Touched(c)
    /\ UNCHANGED <<tnts, lighting, where, health>>

Dig(c) ==
    /\ ~Passable(wall[c]) /\ tally.other < MaxOther
    /\ tally' = [placed |-> tally.placed, blown |-> tally.blown, other |-> tally.other + 1,
                 gone |-> IF wall[c] = "tnt" THEN tally.gone + 1 ELSE tally.gone]
    /\ wall' = [wall EXCEPT ![c] = "air"]
    /\ Touched(c)
    /\ UNCHANGED <<tnts, lighting, where, health>>

Walk(p, c) ==
    /\ health[p] > 0 /\ c - where[p] \in {-1, 1} /\ Passable(wall[c])
    /\ where' = [where EXCEPT ![p] = c]
    /\ UNCHANGED <<wall, tnts, lighting, health, blast, tally>>

\* tryIgniteTNT up to the veto.
Ignite(c) ==
    /\ wall[c] = "tnt" /\ c \notin Kept /\ c \notin lighting
    /\ lighting' = lighting \cup {c}
    /\ UNCHANGED <<wall, tnts, where, health, blast, tally>>

Lit(c, fuse) == [cell |-> c, fuse |-> fuse, vel |-> 0]

BugHolds(c) == TRUE
HoldsTnt(c) == wall[c] = "tnt"

\* primeTNT: nothing if the block is no longer TNT.
Primes(c, fuse) ==
    IF HoldsTnt(c)
    THEN wall' = [wall EXCEPT ![c] = "air"] /\ tnts' = Append(tnts, Lit(c, fuse))
    ELSE UNCHANGED <<wall, tnts>>

PrimeTNT(c) ==
    /\ c \in lighting
    /\ lighting' = lighting \ {c}
    /\ Primes(c, Fuse)
    /\ Touched(c)
    /\ UNCHANGED <<where, health, tally>>

----------------------------------------------------------------------------
(* The tick loop *)

\* Step: a cell along, unless it is blocked; with drag and friction it stops some
\* time.  Below the world it is gone, off either end of the row it may be.
Moved(t, stops) ==
    LET to == t.cell + t.vel
    IN  IF to \in Row /\ ~Passable(wall[to])
        THEN [cell |-> t.cell, vel |-> 0, fuse |-> t.fuse - 1]
        ELSE [cell |-> to, vel |-> IF stops THEN 0 ELSE t.vel, fuse |-> t.fuse - 1]

\* What of a sequence is at some places, in order.
Picked(s, places) ==
    LET upTo[n \in 0..Len(s)] == IF n = 0 THEN <<>>
                                 ELSE IF n \in places THEN Append(upTo[n - 1], s[n])
                                 ELSE upTo[n - 1]
    IN  upTo[Len(s)]

StepTNT(stops) ==
    /\ blast = Still /\ tnts # <<>>
    /\ LET now == [k \in DOMAIN tnts |-> Moved(tnts[k], stops)]
           here == {k \in DOMAIN now : now[k].cell \in Row}
           over == {k \in here : now[k].fuse <= 0}
       IN  /\ tnts' = Picked(now, here \ over)
           /\ blast' = [at |-> "next", queue |-> Picked(now, over)]
           /\ tally' = [tally EXCEPT !.gone = @ + Cardinality(DOMAIN now \ here)]
    /\ UNCHANGED <<wall, lighting, where, health>>

AllBlown ==
    /\ blast.at = "next" /\ blast.queue = <<>>
    /\ blast' = Still
    /\ UNCHANGED <<wall, tnts, lighting, where, health, tally>>

\* Blocks: what the rays, of strength l and r to the two sides, get through.
Spent(x, y) == MapThenSumSet(LAMBDA c : Resistance[wall[c]], Between(x, y) \cup {x})
Caught(x, l, r) ==
    IF wall[x] = "water" THEN {}
    ELSE {y \in Row : /\ wall[y] # "air"
                      /\ Spent(x, y) < (IF y < x THEN l ELSE IF y > x THEN r ELSE IF l < r THEN r ELSE l)}

\* The order of an explosion: the players are hurt while the blocks stand.
After == [deciding |-> "hurt", hurting |-> "shove", shoving |-> "clear", chaining |-> "next"]

GoesOnTo(at) ==
    blast' = IF at = "next" THEN [at |-> "next", queue |-> blast.queue]
             ELSE [blast EXCEPT !.at = at]

\* explodeWith: the blocks that go are decided on, ...
Decide(l, r) ==
    /\ blast.at = "next" /\ blast.queue # <<>>
    /\ LET x == Head(blast.queue).cell
       IN  blast' = [at |-> After.deciding, queue |-> Tail(blast.queue), x |-> x,
                     goes |-> Caught(x, l, r) \ Kept, before |-> wall, touched |-> {}]
    /\ tally' = [tally EXCEPT !.blown = @ + 1]
    /\ UNCHANGED <<wall, tnts, lighting, where, health>>

\* ... the players the centre sees are hurt, ...
Exposed(x, p) == \A c \in Between(x, where[p]) : Passable(wall[c])
Hurts(p) == health[p] > 0 /\ InRange(blast.x, where[p]) /\ Exposed(blast.x, p)
HurtPlayers ==
    /\ blast.at = "hurt"
    /\ health' = [p \in Target |-> IF Hurts(p) THEN health[p] - 1 ELSE health[p]]
    /\ GoesOnTo(After.hurting)
    /\ UNCHANGED <<wall, tnts, lighting, where, tally>>

\* ... the lit TNT in range is shoved, ...
ShoveTNT ==
    /\ blast.at = "shove"
    /\ tnts' = [k \in DOMAIN tnts |->
                    IF InRange(blast.x, tnts[k].cell) /\ tnts[k].cell # blast.x
                    THEN [tnts[k] EXCEPT !.vel = Side(blast.x, tnts[k].cell)] ELSE tnts[k]]
    /\ GoesOnTo(After.shoving)
    /\ UNCHANGED <<wall, lighting, where, health, tally>>

\* ... the blocks are looked at again, ...
SortBlocks ==
    /\ blast.at = "clear"
    /\ blast' = [at |-> "write", queue |-> blast.queue, x |-> blast.x, before |-> blast.before,
                 touched |-> blast.touched,
                 chain |-> {c \in blast.goes : wall[c] = "tnt"},
                 goes |-> {c \in blast.goes : wall[c] \notin {"tnt", "air"}}]
    /\ UNCHANGED <<wall, tnts, lighting, where, health, tally>>

\* ... and cleared, but for the TNT, even those placed in their stead since, ...
ClearBlocks ==
    /\ blast.at = "write"
    /\ wall' = [c \in Row |-> IF c \in blast.goes THEN "air" ELSE wall[c]]
    /\ tally' = [tally EXCEPT !.gone = @ + Cardinality({c \in blast.goes : wall[c] = "tnt"})]
    /\ blast' = [blast EXCEPT !.at = "chain"]
    /\ UNCHANGED <<tnts, lighting, where, health>>

\* ... which is lit with a short fuse.
ChainPrime(c, fuse) ==
    /\ blast.at = "chain" /\ c \in blast.chain
    /\ Primes(c, fuse)
    /\ blast' = [blast EXCEPT !.chain = @ \ {c}]
    /\ UNCHANGED <<lighting, where, health, tally>>

Blown ==
    /\ blast.at = "chain" /\ blast.chain = {}
    /\ GoesOnTo(After.chaining)
    /\ UNCHANGED <<wall, tnts, lighting, where, health, tally>>

BlastNext ==
    \/ \E c \in Row : \/ \E b \in {"stone", "tnt", "water"} : Place(c, b)
                      \/ Dig(c) \/ Ignite(c) \/ PrimeTNT(c)
                      \/ \E p \in Target : Walk(p, c)
                      \/ \E f \in ChainFuses : ChainPrime(c, f)
    \/ \E stops \in BOOLEAN : StepTNT(stops)
    \/ \E l, r \in Strengths : Decide(l, r)
    \/ HurtPlayers \/ ShoveTNT \/ SortBlocks \/ ClearBlocks \/ Blown \/ AllBlown

BlastSpec == BlastInit /\ [][BlastNext]_blastVars

----------------------------------------------------------------------------
BlastTypeOK ==
    /\ wall \in [Row -> Stuff]
    /\ \A k \in DOMAIN tnts : /\ tnts[k].cell \in Row /\ tnts[k].vel \in {-1, 0, 1}
                              /\ tnts[k].fuse \in 1..Fuse \cup ChainFuses
    /\ lighting \subseteq Row
    /\ where \in [Target -> Row] /\ health \in [Target -> 0..2]
    /\ blast.at \in {"rest", "next", "hurt", "shove", "clear", "write", "chain"}
    /\ tally \in [{"placed", "blown", "gone", "other"} -> Nat]

\* A TNT block blows once: whoever lights, digs, overwrites or chain-lights it
\* meanwhile, every block of TNT ever placed is still standing, is lit, has gone
\* off, was dug, fell out of the world or was overwritten, and is so only once.
TntConserved ==
    tally.placed = Cardinality({c \in Row : wall[c] = "tnt"}) + Len(tnts) + Len(blast.queue)
                   + tally.blown + tally.gone

\* "A wall shelters whoever hides behind it" (tnt.go:151-153): whom a blast hurts
\* it could see through the blocks that stood as it went off, but for those other
\* players have changed since.
WallShelters ==
    [][\A p \in Target : health'[p] < health[p] =>
          \A c \in Between(blast.x, where[p]) :
              Passable(blast.before[c]) \/ c \in blast.touched]_blastVars
=============================================================================
