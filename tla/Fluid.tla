------------------------------- MODULE Fluid -------------------------------
(***************************************************************************)
(* Flowing water and lava (src/server/gameplay/fluid/fluid.go, fluid.go,   *)
(* bucket.go and sponge.go under src/server).                              *)
(*                                                                         *)
(* A block change schedules itself and its neighbours; the tick loop takes *)
(* what is due and re-derives each fluid block from its neighbours, then   *)
(* lets it spread.  The players' readers change blocks meanwhile: between  *)
(* the loop's reads and its writes, and between their own write and its    *)
(* scheduling.  The cells form a vertical sheet; around it is rock.        *)
(***************************************************************************)
EXTENDS Integers, FiniteSetsExt

CONSTANTS Width, Height,   \* of the sheet
          MaxLevel,        \* the thinnest flowing level
          DropOff,         \* Kind.dropOff: 1 for water, 2 for lava
          Infinite,        \* two sources make a third: water, not lava
          MaxFlowEdits         \* bound on the blocks players change

ASSUME FluidAssumption == {Width, Height, MaxLevel, DropOff} \subseteq Nat

Cell == (1..Width) \X (1..Height)
Falling == MaxLevel + 1
Dry == -1     \* air
Rock == -2        \* a solid block
Level == 0..Falling

VARIABLES blocks,    \* World: air, rock or a fluid level, 0 a source
          flowQueue,     \* Queue.pending
          due,       \* what the tick took and has not updated yet
          flow,      \* the update under way
          edit,      \* what a reader has yet to write, and to schedule
          flowEdits      \* blocks changed by players so far

fluidVars == <<blocks, flowQueue, due, flow, edit, flowEdits>>

IsFluid(b) == b \in Level
FluidSides(c) == {d \in Cell : d[2] = c[2] /\ d[1] \in {c[1] - 1, c[1] + 1}}
UnderOf(c) == <<c[1], c[2] - 1>>
OverOf(c) == <<c[1], c[2] + 1>>
BlockAt(c) == IF c \in Cell THEN blocks[c] ELSE Rock

\* A mutant: a change wakes only its own block.
BugAround(c) == {c}

\* Queue.Schedule
Around(c) == {c} \cup FluidSides(c) \cup ({UnderOf(c), OverOf(c)} \cap Cell)

NoFlow == [at |-> "none"]

\* The update under way goes on, at a cell, with these sides left to look at.
Onward(at, c, left) ==
    [at |-> at, cell |-> c, level |-> flow.level, under |-> flow.under, left |-> left]

NoEdit == [todo |-> {}, wake |-> {}, sponge |-> {}]

\* The map: air over one block.
FluidInit ==
    /\ blocks = [c \in Cell |-> IF c = <<1, 1>> THEN Rock ELSE Dry]
    /\ flowQueue = {}
    /\ due = {}
    /\ flow = NoFlow
    /\ edit = NoEdit
    /\ flowEdits = 0

-----------------------------------------------------------------------------
(* The rules of one block *)

SpreadLevel(level) == IF level >= Falling THEN 0 ELSE level

\* The level the neighbours give a flowing block; Nothing when none feeds it.
Wanted(c) ==
    LET sources == {d \in FluidSides(c) : blocks[d] = 0}
        fed == {n \in {SpreadLevel(blocks[d]) + DropOff :
                          d \in {e \in FluidSides(c) : IsFluid(blocks[e])}} : n <= MaxLevel}
    IN  CASE IsFluid(BlockAt(OverOf(c))) -> Falling
          [] ~IsFluid(BlockAt(OverOf(c))) /\ Infinite /\ Cardinality(sources) >= 2
             /\ BlockAt(UnderOf(c)) \in {0, Rock} -> 0
          [] OTHER -> IF fed = {} THEN Dry ELSE Min(fed)

\* What a block at level pours to its sides.
Thinner(level) == SpreadLevel(level) + DropOff

\* A mutant: a block is poured over one as thick.
BugGivesWay(d, n) ==
    blocks[d] = Dry \/ (blocks[d] \in 1..MaxLevel /\ blocks[d] >= n)

\* Does the block at d give way to a side flow of level n?
GivesWay(d, n) ==
    blocks[d] = Dry \/ (blocks[d] \in 1..MaxLevel /\ blocks[d] > n)

-----------------------------------------------------------------------------
(* The tick loop: Due, then Update of each.                                *)

\* Queue.Due: cells that hold no fluid are dropped.
TakeDue ==
    /\ flow = NoFlow /\ due = {} /\ flowQueue # {}
    /\ due' = {c \in flowQueue : IsFluid(blocks[c])}
    /\ flowQueue' = {}
    /\ UNCHANGED <<blocks, flow, edit, flowEdits>>

\* A write of the loop: SetBlock, which schedules.
Pour(c, b) ==
    /\ blocks' = [blocks EXCEPT ![c] = b]
    /\ flowQueue' = flowQueue \cup Around(c)

\* Update: the block below is read, then the level is derived and set; a
\* block that is not fluid any more is left, one nothing feeds dries up.
Derive(c) ==
    /\ flow = NoFlow /\ c \in due
    /\ due' = due \ {c}
    /\ LET level == blocks[c]
           goOn(l) == flow' = [at |-> "down", cell |-> c, level |-> l,
                               under |-> BlockAt(UnderOf(c)), left |-> FluidSides(c)]
       IN  IF ~IsFluid(level) THEN UNCHANGED <<blocks, flowQueue, flow>>
           ELSE IF level = 0 THEN goOn(0) /\ UNCHANGED <<blocks, flowQueue>>
           ELSE IF Wanted(c) = Dry THEN Pour(c, Dry) /\ UNCHANGED flow
           ELSE /\ goOn(Wanted(c))
                /\ IF Wanted(c) # level THEN Pour(c, Wanted(c))
                   ELSE UNCHANGED <<blocks, flowQueue>>
    /\ UNCHANGED <<edit, flowEdits>>

\* Down first, by what was below when the update began; a flowing block that
\* can fall does not spread.
FlowDown ==
    /\ flow.at = "down"
    /\ LET u == flow.under
           c == flow.cell
           stays == flow.level # 0 /\ (u = Dry \/ IsFluid(u))
       IN  /\ IF u = Dry \/ (u \in 1..MaxLevel) THEN Pour(UnderOf(c), Falling)
              ELSE UNCHANGED <<blocks, flowQueue>>
           /\ flow' = IF stays \/ Thinner(flow.level) > MaxLevel THEN NoFlow
                      ELSE Onward("side", c, flow.left)
    /\ UNCHANGED <<due, edit, flowEdits>>

\* Each side is read, then written.
LookAside ==
    /\ flow.at = "side"
    /\ IF flow.left = {} THEN flow' = NoFlow
       ELSE \E d \in flow.left :
              flow' = Onward(IF GivesWay(d, Thinner(flow.level)) THEN "pour" ELSE "side",
                             d, flow.left \ {d})
    /\ UNCHANGED <<blocks, flowQueue, due, edit, flowEdits>>

PourAside ==
    /\ flow.at = "pour"
    /\ Pour(flow.cell, Thinner(flow.level))
    /\ flow' = Onward("side", flow.cell, flow.left)
    /\ UNCHANGED <<due, edit, flowEdits>>

-----------------------------------------------------------------------------
(* Readers: a bucket emptied or filled, a block or a sponge placed, a      *)
(* block broken.  What is there is read, then the block is written, then   *)
(* the change is scheduled.                                                *)

EditFluid(c, b, sponge) ==
    /\ edit = NoEdit /\ flowEdits < MaxFlowEdits
    /\ edit' = [todo |-> {<<c, b>>}, wake |-> {}, sponge |-> sponge]
    /\ flowEdits' = flowEdits + 1
    /\ UNCHANGED <<blocks, flowQueue, due, flow>>

\* emptyBucket, into air or fluid (RayToPlacement).
EmptyBucket(c) == blocks[c] # Rock /\ EditFluid(c, 0, {})
\* scoopFluid, from a source (RayToSource).
ScoopFluid(c) == blocks[c] = 0 /\ EditFluid(c, Dry, {})
\* A block placed over air or fluid, which may be a sponge, and one broken.
PlaceRock(c) == blocks[c] # Rock /\ \E s \in {{}, {c}} : EditFluid(c, Rock, s)
BreakRock(c) == blocks[c] = Rock /\ EditFluid(c, Dry, {})

\* World.SetBlock, of each change of a list at once.
WriteEdit ==
    /\ edit.todo # {}
    /\ blocks' = [c \in Cell |-> IF \E w \in edit.todo : w[1] = c
                                 THEN (CHOOSE w \in edit.todo : w[1] = c)[2] ELSE blocks[c]]
    /\ edit' = [todo |-> {}, wake |-> {w[1] : w \in edit.todo}, sponge |-> edit.sponge]
    /\ UNCHANGED <<flowQueue, due, flow, flowEdits>>

\* scheduleFluid after it.
ScheduleEdit ==
    /\ edit.wake # {}
    /\ flowQueue' = flowQueue \cup UNION {Around(c) : c \in edit.wake}
    /\ edit' = [todo |-> edit.todo, wake |-> {}, sponge |-> edit.sponge]
    /\ UNCHANGED <<blocks, due, flow, flowEdits>>

\* absorbWater once the sponge stands: the fluid reached from it is listed,
\* to be turned to air by SetBlocks, the sponge to a wet one.
Soak ==
    LET grown[n \in Nat] == IF n = 0 THEN edit.sponge
                            ELSE LET s == grown[n - 1]
                                 IN  s \cup {d \in Cell : IsFluid(blocks[d])
                                                           /\ \E e \in s : d \in Around(e)}
        soaked == grown[Width * Height] \ edit.sponge
    IN  /\ edit.todo = {} /\ edit.wake = {} /\ edit.sponge # {}
        /\ edit' = [todo |-> IF soaked = {} THEN {}
                              ELSE (soaked \X {Dry}) \cup (edit.sponge \X {Rock}),
                     wake |-> {}, sponge |-> {}]
        /\ UNCHANGED <<blocks, flowQueue, due, flow, flowEdits>>

Players == \E c \in Cell : EmptyBucket(c) \/ ScoopFluid(c) \/ PlaceRock(c) \/ BreakRock(c)
ReaderStep == WriteEdit \/ ScheduleEdit \/ Soak

LoopStep == TakeDue \/ FlowDown \/ LookAside \/ PourAside \/ \E c \in Cell : Derive(c)

FluidNext == Players \/ ReaderStep \/ LoopStep

\* The tick loop runs, and a reader in the middle of SetBlock goes on.
FluidFairness == WF_fluidVars(LoopStep) /\ WF_fluidVars(ReaderStep)
FluidSpec == FluidInit /\ [][FluidNext]_fluidVars /\ FluidFairness

-----------------------------------------------------------------------------
FluidTypeOK ==
    /\ blocks \in [Cell -> {Dry, Rock} \cup Level]
    /\ flowQueue \subseteq Cell /\ due \subseteq Cell
    /\ edit.todo \subseteq Cell \X (Level \cup {Dry, Rock})
    /\ edit.wake \cup edit.sponge \subseteq Cell
    /\ flow.at \in {"none", "down", "side", "pour"}
    /\ flowEdits \in 0..MaxFlowEdits

Quiet == flowQueue = {} /\ due = {} /\ flow = NoFlow /\ edit = NoEdit

\* A fluid block that has the level its neighbours give it and has gone
\* wherever it can.
CellSettled(c) ==
    LET level == blocks[c]
        under == BlockAt(UnderOf(c))
    IN  /\ level # 0 => level = Wanted(c)
        /\ under # Dry /\ under \notin 1..MaxLevel
        /\ (level = 0 \/ ~IsFluid(under)) /\ Thinner(level) <= MaxLevel
             => \A d \in FluidSides(c) : ~GivesWay(d, Thinner(level))

\* No update is lost: when nothing is left to re-evaluate, every fluid block is
\* settled (fluid.go:10-17, "a fluid block is re-evaluated only when it or one
\* of its six neighbours changes").
QuietIsSettled == Quiet => \A c \in Cell : IsFluid(blocks[c]) => CellSettled(c)

\* Once the players stop, the water comes to rest: no set of blocks keeps
\* waking one another for ever.
ComesToRest == <>[]Quiet
=============================================================================
