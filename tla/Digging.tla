------------------------------ MODULE Digging ------------------------------
(***************************************************************************)
(* Survival digging (src/server/dig.go, gameplay/dig/dig.go, the formula   *)
(* of src/world/breaking.go, handler_play_world.go onPlayerAction) while   *)
(* the diggers change their tools and are moved between instances, each    *)
(* with a world, rules and a clock of its own.  A reader handles one       *)
(* packet at a time; breakBlock reads c.instance once for the hooks and    *)
(* again for the world.  Movers says who moves players: their own readers  *)
(* (a command) between two packets, or any goroutine (MovePlayer) at any   *)
(* moment.  Reach, view and budget checks only refuse (Pace, Motion).      *)
(***************************************************************************)
EXTENDS Integers

CONSTANTS
    Digger, DigRoom, Place,
    BlockInfo,     \* what blocks there are: [hardness, harvest: who drops it], hardness in
                   \* tenths, as functions of the block's name
    ToolSpeed,     \* the speed of each tool held on these blocks
    Protects,      \* the rooms whose rules allow no break
    Movers,        \* "reader" or "any"
    LastDigTick    \* bound: no clock goes further

Air == "air"
Blocks == DOMAIN BlockInfo

ASSUME DiggingAssumption ==
    /\ \A b \in Blocks : BlockInfo[b].hardness \in Int
    /\ \A t \in DOMAIN ToolSpeed : ToolSpeed[t] \in Nat \ {0}
    /\ Place # {}

VARIABLES
    block,       \* each room's world
    clock,       \* each room's ticks
    inRoom,      \* c.instance
    tool,        \* the tool held
    dig,         \* c.digPos, digStartTick, digInst
    moving,      \* the move under way: where to, or "no"
    hand,        \* the reader: idle, or between two steps of a packet
    begun,       \* history: the dig under way: where, the room's ticks since, and whether
                 \* another block stands there by the time it is broken
    brokeWell    \* history: "yes", or what was wrong with the last break

digVars == <<block, clock, inRoom, tool, dig, moving, hand, begun, brokeWell>>

NoDig == [on |-> FALSE, place |-> CHOOSE p \in Place : TRUE, start |-> 0,
          room |-> CHOOSE r \in DigRoom : TRUE]
Resting == [at |-> "idle", place |-> NoDig.place, tick |-> 0, room |-> NoDig.room]
NotBegun == [on |-> FALSE, place |-> NoDig.place, room |-> NoDig.room, ticks |-> 0,
             replaced |-> FALSE]

DiggingInit ==
    /\ block \in [DigRoom -> [Place -> Blocks]]
    /\ clock = [r \in DigRoom |-> 0]
    /\ inRoom \in [Digger -> DigRoom]
    /\ tool \in [Digger -> DOMAIN ToolSpeed]
    /\ dig = [d \in Digger |-> NoDig] /\ moving = [d \in Digger |-> "no"]
    /\ hand = [d \in Digger |-> Resting] /\ begun = [d \in Digger |-> NotBegun]
    /\ brokeWell = "yes"

CeilDiv(a, b) == (a + b - 1) \div b

\* BreakTicksWith on dry ground: -1 is unbreakable, 0 instant.
BreakTicks(b, t) ==
    LET h == BlockInfo[b].hardness
        perTick == IF t \in BlockInfo[b].harvest THEN 30 ELSE 100
    IN  IF h < 0 THEN -1
        ELSE IF ToolSpeed[t] * 10 >= h * perTick THEN 0 ELSE CeilDiv(h * perTick, 10 * ToolSpeed[t])

\* dig.Accepted: seven tenths of the ticks, the one under way included.
EnoughTicks(needed, elapsed) == needed >= 0 /\ elapsed + 1 >= CeilDiv(7 * needed, 10)

\* elapsedOn
ElapsedOn(room, started, start, now) == IF room # started \/ now < start THEN 0 ELSE now - start

Alone(d) == hand[d].at = "idle" /\ (Movers = "reader" => moving[d] = "no")

-----------------------------------------------------------------------------
(* The reader.                                                             *)

HoldTool(d, t) ==
    /\ Alone(d) /\ t # tool[d]
    /\ tool' = [tool EXCEPT ![d] = t]
    /\ UNCHANGED <<block, clock, inRoom, dig, moving, hand, begun, brokeWell>>

\* startDig: an instant block breaks at once; else the tick is read.
StartDig(d, p) ==
    LET b == block[inRoom[d]][p]
    IN  /\ Alone(d)
        /\ dig' = [dig EXCEPT ![d].on = FALSE]
        /\ IF b = Air \/ BreakTicks(b, tool[d]) < 0
           THEN /\ begun' = [begun EXCEPT ![d].on = FALSE]
                /\ UNCHANGED hand
           ELSE /\ begun' = [begun EXCEPT ![d] = [on |-> TRUE, place |-> p, ticks |-> 0,
                                                  room |-> inRoom[d], replaced |-> FALSE]]
                /\ hand' = [hand EXCEPT ![d] =
                      [at |-> IF BreakTicks(b, tool[d]) = 0 THEN "hooks" ELSE "begin",
                       place |-> p, tick |-> clock[inRoom[d]], room |-> inRoom[d]]]
        /\ UNCHANGED <<block, clock, inRoom, tool, moving, brokeWell>>

\* ... and then the instance whose tick it is taken to be.
BeginDig(d) ==
    /\ hand[d].at = "begin" /\ hand' = [hand EXCEPT ![d] = Resting]
    /\ dig' = [dig EXCEPT ![d] = [on |-> TRUE, place |-> hand[d].place, start |-> hand[d].tick,
                                  room |-> inRoom[d]]]
    /\ UNCHANGED <<block, clock, inRoom, tool, moving, begun, brokeWell>>

CancelDig(d) ==
    /\ Alone(d) /\ dig[d].on
    /\ dig' = [dig EXCEPT ![d].on = FALSE]
    /\ begun' = [begun EXCEPT ![d].on = FALSE]
    /\ UNCHANGED <<block, clock, inRoom, tool, moving, hand, brokeWell>>

\* A mutant: any dig under way pays for the block that is finished.
BugPaidFor(d, p) == dig[d].on

\* finishDig's second condition.
PaidFor(d, p) == dig[d].on /\ dig[d].place = p

FinishDig(d, p) ==
    LET r == inRoom[d]
        b == block[r][p]
        done == /\ b # Air /\ PaidFor(d, p)
                /\ EnoughTicks(BreakTicks(b, tool[d]),
                               ElapsedOn(r, dig[d].room, dig[d].start, clock[r]))
    IN  /\ Alone(d)
        /\ dig' = [dig EXCEPT ![d].on = FALSE]
        /\ hand' = IF done THEN [hand EXCEPT ![d] = [Resting EXCEPT !.at = "hooks", !.place = p,
                                                                    !.room = r]]
                   ELSE hand
        /\ begun' = IF done THEN begun ELSE [begun EXCEPT ![d].on = FALSE]
        /\ UNCHANGED <<block, clock, inRoom, tool, moving, brokeWell>>

\* breakBlock: allowBlockBreak asks the instance of that moment.
AskHooks(d) ==
    /\ hand[d].at = "hooks"
    /\ hand' = IF inRoom[d] \in Protects THEN [hand EXCEPT ![d] = Resting]
               ELSE [hand EXCEPT ![d].at = "look"]
    /\ UNCHANGED <<block, clock, inRoom, tool, dig, moving, begun, brokeWell>>

\* ... then the block is read,
LookAtBlock(d) ==
    /\ hand[d].at = "look"
    /\ hand' = IF block[inRoom[d]][hand[d].place] = Air THEN [hand EXCEPT ![d] = Resting]
               ELSE [hand EXCEPT ![d].at = "break"]
    /\ UNCHANGED <<block, clock, inRoom, tool, dig, moving, begun, brokeWell>>

\* ... cleared, and dropped.
Breaking(d) == hand[d].at \in {"hooks", "look", "break"}
Owed(d, r, p) == EnoughTicks(BreakTicks(block[r][p], tool[d]), begun[d].ticks)
BreakBlock(d) ==
    LET p == hand[d].place
        r == inRoom[d]
    IN  /\ hand[d].at = "break" /\ hand' = [hand EXCEPT ![d] = Resting]
        /\ block' = [block EXCEPT ![r][p] = Air]
        /\ begun' = [begun EXCEPT ![d].on = FALSE]
        /\ brokeWell' = IF r \in Protects THEN "protected"
                        ELSE IF block[r][p] # Air /\ ~begun[d].replaced
                                /\ ~(/\ begun[d].on /\ begun[d].place = p /\ begun[d].room = r
                                     /\ Owed(d, r, p))
                        THEN "early" ELSE "yes"
        /\ UNCHANGED <<clock, inRoom, tool, dig, moving>>

-----------------------------------------------------------------------------
(* moveLocked: the dig is forgotten, then the instance changes.            *)

MoveForgets(d, r) ==
    /\ moving[d] = "no" /\ r # inRoom[d]
    /\ Movers = "reader" => hand[d].at = "idle"
    /\ moving' = [moving EXCEPT ![d] = r]
    /\ dig' = [dig EXCEPT ![d].on = FALSE]
    /\ begun' = [begun EXCEPT ![d].on = FALSE]
    /\ UNCHANGED <<block, clock, inRoom, tool, hand, brokeWell>>

MoveSwitches(d) ==
    /\ moving[d] # "no" /\ moving' = [moving EXCEPT ![d] = "no"]
    /\ inRoom' = [inRoom EXCEPT ![d] = moving[d]]
    /\ UNCHANGED <<block, clock, tool, dig, hand, begun, brokeWell>>

\* Somebody places a block, where there is none.
PutBlock(r, p, b) ==
    /\ block[r][p] = Air /\ r \notin Protects
    /\ block' = [block EXCEPT ![r][p] = b]
    /\ begun' = [d \in Digger |-> IF Breaking(d) /\ begun[d].room = r /\ begun[d].place = p
                                  THEN [begun[d] EXCEPT !.replaced = TRUE] ELSE begun[d]]
    /\ UNCHANGED <<clock, inRoom, tool, dig, moving, hand, brokeWell>>

\* A tick of one instance.
RoomTick(r) ==
    /\ clock[r] < LastDigTick
    /\ clock' = [clock EXCEPT ![r] = @ + 1]
    /\ begun' = [d \in Digger |-> IF begun[d].on /\ begun[d].room = r
                                  THEN [begun[d] EXCEPT !.ticks = @ + 1] ELSE begun[d]]
    /\ UNCHANGED <<block, inRoom, tool, dig, moving, hand, brokeWell>>

DiggingNext ==
    \/ \E d \in Digger :
         \/ \E t \in DOMAIN ToolSpeed : HoldTool(d, t)
         \/ \E p \in Place : StartDig(d, p) \/ FinishDig(d, p)
         \/ BeginDig(d) \/ CancelDig(d) \/ AskHooks(d) \/ LookAtBlock(d) \/ BreakBlock(d)
         \/ \E r \in DigRoom : MoveForgets(d, r)
         \/ MoveSwitches(d)
    \/ \E r \in DigRoom : RoomTick(r) \/ \E p \in Place, b \in Blocks : PutBlock(r, p, b)

DiggingSpec == DiggingInit /\ [][DiggingNext]_digVars

-----------------------------------------------------------------------------
DiggingTypeOK ==
    /\ block \in [DigRoom -> [Place -> Blocks \union {Air}]]
    /\ clock \in [DigRoom -> 0..LastDigTick] /\ inRoom \in [Digger -> DigRoom]
    /\ \A d \in Digger : /\ dig[d].start \in 0..LastDigTick
                         /\ hand[d].at \in {"idle", "begin", "hooks", "look", "break"}
    /\ brokeWell \in {"yes", "early", "protected"}

\* dig.go: a block is broken only by who began to dig that block, in that instance, and
\* seven tenths of the ticks ago that it takes with the tool held now, by that instance's
\* clock: not by a dig begun elsewhere, before a move, or with no dig at all.  (Two
\* diggers may break one block: the second breaks what was put there in between, as
\* breakBlock does not look again.)
DugLongEnough == brokeWell # "early"

\* breakBlock "runs the block-break veto chain (listeners, then the instance hook)":
\* no block is broken in an instance whose rules refuse it.
BreaksAllowed == brokeWell # "protected"
=============================================================================
