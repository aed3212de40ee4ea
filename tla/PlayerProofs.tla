---------------------------- MODULE PlayerProofs ----------------------------
(***************************************************************************)
(* Proofs about what players do and have done to them, and about bots:     *)
(* digging (DigInv), drawing a bow or eating (UseInv), damage (WindowInv), *)
(* effects (EffectInv), the anticheat's punishments (LadderInv), a bot's   *)
(* digging (EarnestInv), the pace of packets (PaceInv, SpikeInv), the      *)
(* teleports a client confirms (WatchInv) and dropped items (UnitsInv).    *)
(***************************************************************************)
EXTENDS WellFoundedInduction, Digging, Archery, Vitals, Effects, Anticheat, BotDig,
        Motion, Entities, SumTheorems, SequenceTheorems, TLAPS

LEMMA MaxPair == ASSUME NEW a \in Int, NEW b \in Int PROVE Max({a, b}) = IF a >= b THEN a ELSE b
BY DEF Max

LEMMA MaxIs ==
    ASSUME NEW S \in SUBSET Int, NEW m \in S, \A y \in S : y <= m
    PROVE  Max(S) = m
<1>1. \A y \in S : m >= y
  OBVIOUS
<1>2. Max(S) \in S /\ \A y \in S : Max(S) >= y
  BY <1>1 DEF Max
<1>3. Max(S) \in Int /\ m \in Int /\ m >= Max(S) /\ Max(S) >= m
  BY <1>1, <1>2
<1> HIDE DEF Max
<1> QED
  BY <1>3

LEMMA OneOn ==
    ASSUME NEW S, NEW s \in Seq(S), NEW x \in S
    PROVE  /\ Append(s, x) \in Seq(S) /\ Len(Append(s, x)) = Len(s) + 1 /\ Append(s, x)[Len(s) + 1] = x
           /\ \A i \in 1..Len(s) : Append(s, x)[i] = s[i]
OBVIOUS

-----------------------------------------------------------------------------
(***************************************************************************)
(* Proof that blocks are dug long enough.  A dig under way counts the      *)
(* ticks of the room its digger is in; a player on the move digs nothing.  *)
(***************************************************************************)

DigTypes ==
    /\ block \in [DigRoom -> [Place -> Blocks \cup {Air}]] /\ clock \in [DigRoom -> Nat]
    /\ inRoom \in [Digger -> DigRoom] /\ tool \in [Digger -> DOMAIN ToolSpeed]
    /\ moving \in [Digger -> DigRoom \cup {"no"}]
    /\ dig \in [Digger -> [on : BOOLEAN, place : Place, start : Nat, room : DigRoom]]
    /\ hand \in [Digger -> [at : {"idle", "begin", "hooks", "look", "break"}, place : Place,
                            tick : Nat, room : DigRoom]]
    /\ begun \in [Digger -> [on : BOOLEAN, place : Place, room : DigRoom, ticks : Nat,
                             replaced : BOOLEAN]]

\* What is being dug, since when.
DigsSince(d, place, start) ==
    /\ begun[d].on /\ begun[d].place = place /\ begun[d].room = inRoom[d]
    /\ start <= clock[inRoom[d]] /\ begun[d].ticks = clock[inRoom[d]] - start

Digs(d) ==
    /\ moving[d] # "no" => hand[d].at = "idle" /\ ~dig[d].on
    /\ dig[d].on => /\ hand[d].at = "idle" /\ dig[d].room = inRoom[d]
                    /\ DigsSince(d, dig[d].place, dig[d].start)
    /\ hand[d].at = "begin" => DigsSince(d, hand[d].place, hand[d].tick)
    /\ Breaking(d) =>
         /\ begun[d].on /\ begun[d].place = hand[d].place /\ begun[d].room = inRoom[d]
         /\ block[inRoom[d]][hand[d].place] # Air /\ ~begun[d].replaced
              => Owed(d, inRoom[d], hand[d].place)

DigInv == DigTypes /\ DugLongEnough /\ \A d \in Digger : Digs(d)

LEMMA CeilDivInt == ASSUME NEW a \in Int, NEW b \in Nat \ {0} PROVE CeilDiv(a, b) \in Int
BY DEF CeilDiv

LEMMA BreakTicksInt ==
    ASSUME NEW b \in Blocks, NEW t \in DOMAIN ToolSpeed PROVE BreakTicks(b, t) \in Int
<1>1. BlockInfo[b].hardness \in Int /\ ToolSpeed[t] \in Nat \ {0}
  BY DiggingAssumption
<1>2. 10 * ToolSpeed[t] \in Nat \ {0}
  BY <1>1
<1>3. \A n \in {30, 100} : BlockInfo[b].hardness * n \in Int
  BY <1>1
<1>4. \A n \in {30, 100} : CeilDiv(BlockInfo[b].hardness * n, 10 * ToolSpeed[t]) \in Int
  BY <1>2, <1>3, CeilDivInt
<1>5. \A n \in {30, 100} : BreakTicks(b, t) \in {-1, 0, CeilDiv(BlockInfo[b].hardness * n, 10 * ToolSpeed[t])}
                             \/ n # (IF t \in BlockInfo[b].harvest THEN 30 ELSE 100)
  BY DEF BreakTicks
<1> QED
  BY <1>4, <1>5

\* A dig that is dropped, a hand that rests.
LEMMA DigOff ==
    ASSUME DigTypes, NEW d \in Digger, dig' = [dig EXCEPT ![d].on = FALSE]
    PROVE  /\ dig' \in [Digger -> [on : BOOLEAN, place : Place, start : Nat, room : DigRoom]]
           /\ dig'[d].on = FALSE /\ \A e \in Digger \ {d} : dig'[e] = dig[e]
<1> DEFINE Work == [on : BOOLEAN, place : Place, start : Nat, room : DigRoom]
<1>1. dig \in [Digger -> Work] /\ dig[d] \in Work
  BY DEF DigTypes
<1>2. \A x \in Work : [x EXCEPT !.on = FALSE] \in Work /\ [x EXCEPT !.on = FALSE].on = FALSE
  OBVIOUS
<1> HIDE DEF Work
<1>3. PICK y \in Work : y = [dig[d] EXCEPT !.on = FALSE] /\ y.on = FALSE
  BY <1>1, <1>2
<1>4. dig' = [dig EXCEPT ![d] = y]
  BY <1>3
<1>5. dig' \in [Digger -> Work] /\ dig'[d] = y /\ \A e \in Digger \ {d} : dig'[e] = dig[e]
  BY <1>1, <1>4
<1> QED
  BY <1>3, <1>5 DEF Work

LEMMA HandRests ==
    ASSUME DigTypes, NEW d \in Digger, hand' = [hand EXCEPT ![d] = Resting]
    PROVE  /\ hand' \in [Digger -> [at : {"idle", "begin", "hooks", "look", "break"}, place : Place,
                                   tick : Nat, room : DigRoom]]
           /\ hand'[d] = Resting /\ \A e \in Digger \ {d} : hand'[e] = hand[e]
<1> DEFINE Work == [at : {"idle", "begin", "hooks", "look", "break"}, place : Place,
                    tick : Nat, room : DigRoom]
<1>1. hand \in [Digger -> Work] /\ dig[d] \in [on : BOOLEAN, place : Place, start : Nat, room : DigRoom]
  BY DEF DigTypes
<1>2. Place # {} /\ DigRoom # {}
  BY <1>1
<1>3. NoDig.place \in Place /\ NoDig.room \in DigRoom
  BY <1>2 DEF NoDig
<1>4. Resting \in Work
  BY <1>3 DEF Resting
<1> HIDE DEF Work
<1>5. hand' \in [Digger -> Work] /\ hand'[d] = Resting /\ \A e \in Digger \ {d} : hand'[e] = hand[e]
  BY <1>1, <1>4
<1> QED
  BY <1>5 DEF Work

\* A dig that is forgotten.
LEMMA Forgets ==
    ASSUME NEW d \in Digger, DigTypes, begun' = [begun EXCEPT ![d].on = FALSE]
    PROVE  /\ begun' \in [Digger -> [on : BOOLEAN, place : Place, room : DigRoom, ticks : Nat,
                                     replaced : BOOLEAN]]
           /\ \A e \in Digger \ {d} : begun'[e] = begun[e]
<1>1. [begun[d] EXCEPT !.on = FALSE] \in [on : BOOLEAN, place : Place, room : DigRoom, ticks : Nat,
                                          replaced : BOOLEAN]
  BY DEF DigTypes
<1>2. begun' = [begun EXCEPT ![d] = [begun[d] EXCEPT !.on = FALSE]]
  OBVIOUS
<1> QED
  BY <1>1, <1>2 DEF DigTypes

\* Digging on does not take it back.
LEMMA LongerIsEnough ==
    ASSUME NEW needed \in Int, NEW elapsed \in Nat, EnoughTicks(needed, elapsed)
    PROVE  EnoughTicks(needed, elapsed + 1)
<1>1. CeilDiv(7 * needed, 10) \in Int
  BY CeilDivInt
<1> QED
  BY <1>1 DEF EnoughTicks

LEMMA InstantIsEnough == ASSUME NEW elapsed \in Nat PROVE EnoughTicks(0, elapsed)
BY DEF EnoughTicks, CeilDiv

\* A step that leaves d and its room as they are.
LEMMA DigsStay ==
    ASSUME NEW d \in Digger, Digs(d),
           UNCHANGED <<clock, inRoom[d], tool[d], moving[d], dig[d], hand[d], begun[d],
                       block[inRoom[d]]>>
    PROVE  Digs(d)'
BY DEF Digs, DigsSince, Breaking, Owed

\* The steps of one digger that leave the world and the clocks alone.
LEMMA OneDigs ==
    ASSUME DigInv, NEW d \in Digger, DigTypes', Digs(d)', UNCHANGED <<block, clock, brokeWell>>,
           \A e \in Digger \ {d} : UNCHANGED <<inRoom[e], tool[e], moving[e], dig[e], hand[e], begun[e]>>
    PROVE  DigInv'
<1>1. ASSUME NEW e \in Digger, e # d PROVE Digs(e)'
  BY <1>1, DigsStay DEF DigInv
<1> QED
  BY <1>1 DEF DigInv, DugLongEnough

LEMMA HoldToolKeeps ==
    ASSUME DigInv, Movers = "reader", NEW d \in Digger, NEW t \in DOMAIN ToolSpeed, HoldTool(d, t)
    PROVE DigInv'
<1>1. /\ DigTypes /\ Digs(d) /\ hand[d].at = "idle" /\ tool' = [tool EXCEPT ![d] = t]
      /\ UNCHANGED <<block, clock, inRoom, dig, moving, hand, begun, brokeWell>>
  BY DEF DigInv, HoldTool, Alone
<1>2. DigTypes' /\ \A e \in Digger \ {d} : tool'[e] = tool[e]
  BY <1>1 DEF DigTypes
<1>3. Digs(d)'
  BY <1>1 DEF Digs, DigsSince, Breaking
<1> QED
  BY <1>1, <1>2, <1>3, OneDigs

LEMMA StartDigKeeps ==
    ASSUME DigInv, Movers = "reader", NEW d \in Digger, NEW p \in Place, StartDig(d, p) PROVE DigInv'
<1> DEFINE b == block[inRoom[d]][p]
<1>1. /\ DigTypes /\ Digs(d) /\ hand[d].at = "idle" /\ moving[d] = "no"
      /\ dig' = [dig EXCEPT ![d].on = FALSE]
      /\ UNCHANGED <<block, clock, inRoom, tool, moving, brokeWell>>
  BY DEF DigInv, StartDig, Alone
<1>2. /\ dig' \in [Digger -> [on : BOOLEAN, place : Place, start : Nat, room : DigRoom]]
      /\ dig'[d].on = FALSE /\ \A e \in Digger \ {d} : dig'[e] = dig[e]
  BY <1>1, DigOff
<1>3. inRoom[d] \in DigRoom /\ clock[inRoom[d]] \in Nat
  BY <1>1 DEF DigTypes
<1>4. CASE b = Air \/ BreakTicks(b, tool[d]) < 0
  <2>1. begun' = [begun EXCEPT ![d].on = FALSE] /\ hand' = hand
    BY <1>4 DEF StartDig
  <2>2. DigTypes' /\ \A e \in Digger \ {d} : begun'[e] = begun[e]
    BY <1>1, <1>2, <2>1, Forgets DEF DigTypes
  <2>3. Digs(d)'
    BY <1>1, <1>2, <2>1 DEF Digs, Breaking
  <2> QED
    BY <1>1, <1>2, <2>1, <2>2, <2>3, OneDigs
<1>5. CASE ~(b = Air \/ BreakTicks(b, tool[d]) < 0)
  <2> DEFINE at == IF BreakTicks(b, tool[d]) = 0 THEN "hooks" ELSE "begin"
  <2>1. /\ begun' = [begun EXCEPT ![d] = [on |-> TRUE, place |-> p, ticks |-> 0,
                                          room |-> inRoom[d], replaced |-> FALSE]]
        /\ hand' = [hand EXCEPT ![d] = [at |-> at, place |-> p, tick |-> clock[inRoom[d]],
                                        room |-> inRoom[d]]]
    BY <1>5 DEF StartDig
  <2>2. /\ begun'[d] = [on |-> TRUE, place |-> p, ticks |-> 0, room |-> inRoom[d], replaced |-> FALSE]
        /\ hand'[d] = [at |-> at, place |-> p, tick |-> clock[inRoom[d]], room |-> inRoom[d]]
        /\ \A e \in Digger \ {d} : begun'[e] = begun[e] /\ hand'[e] = hand[e]
    BY <1>1, <2>1 DEF DigTypes
  <2>3. /\ begun'[d] \in [on : BOOLEAN, place : Place, room : DigRoom, ticks : Nat, replaced : BOOLEAN]
        /\ hand'[d] \in [at : {"idle", "begin", "hooks", "look", "break"}, place : Place,
                         tick : Nat, room : DigRoom]
    BY <1>3, <2>2
  <2>4. DigTypes'
    BY <1>1, <1>2, <2>1, <2>2, <2>3 DEF DigTypes
  <2>5. at = "hooks" => EnoughTicks(BreakTicks(b, tool[d]), 0)
    BY InstantIsEnough
  <2>6. Digs(d)'
    BY <1>1, <1>2, <1>3, <2>2, <2>5 DEF Digs, DigsSince, Breaking, Owed
  <2> QED
    BY <1>1, <1>2, <2>2, <2>4, <2>6, OneDigs
<1> QED
  BY <1>4, <1>5

LEMMA BeginDigKeeps == ASSUME DigInv, NEW d \in Digger, BeginDig(d) PROVE DigInv'
<1>1. /\ DigTypes /\ Digs(d) /\ hand[d].at = "begin" /\ hand' = [hand EXCEPT ![d] = Resting]
      /\ dig' = [dig EXCEPT ![d] = [on |-> TRUE, place |-> hand[d].place, start |-> hand[d].tick,
                                    room |-> inRoom[d]]]
      /\ UNCHANGED <<block, clock, inRoom, tool, moving, begun, brokeWell>>
  BY DEF DigInv, BeginDig
<1>2. Resting.at = "idle" /\ NoDig.place \in Place /\ NoDig.room \in DigRoom
  BY <1>1 DEF Resting, NoDig, DigTypes
<1>3. Resting \in [at : {"idle", "begin", "hooks", "look", "break"}, place : Place, tick : Nat, room : DigRoom]
  BY <1>2 DEF Resting
<1>4. /\ dig'[d] = [on |-> TRUE, place |-> hand[d].place, start |-> hand[d].tick, room |-> inRoom[d]]
      /\ hand'[d] = Resting /\ \A e \in Digger \ {d} : dig'[e] = dig[e] /\ hand'[e] = hand[e]
  BY <1>1 DEF DigTypes
<1>5. DigTypes'
  BY <1>1, <1>3, <1>4 DEF DigTypes
<1>6. Digs(d)'
  BY <1>1, <1>2, <1>4 DEF Digs, DigsSince, Breaking
<1> QED
  BY <1>1, <1>4, <1>5, <1>6, OneDigs

LEMMA CancelDigKeeps ==
    ASSUME DigInv, Movers = "reader", NEW d \in Digger, CancelDig(d) PROVE DigInv'
<1>1. /\ DigTypes /\ Digs(d) /\ hand[d].at = "idle" /\ dig' = [dig EXCEPT ![d].on = FALSE]
      /\ begun' = [begun EXCEPT ![d].on = FALSE]
      /\ UNCHANGED <<block, clock, inRoom, tool, moving, hand, brokeWell>>
  BY DEF DigInv, CancelDig, Alone
<1>2. /\ dig' \in [Digger -> [on : BOOLEAN, place : Place, start : Nat, room : DigRoom]]
      /\ dig'[d].on = FALSE /\ \A e \in Digger \ {d} : dig'[e] = dig[e]
  BY <1>1, DigOff
<1>3. DigTypes' /\ \A e \in Digger \ {d} : begun'[e] = begun[e]
  BY <1>1, <1>2, Forgets DEF DigTypes
<1>4. Digs(d)'
  BY <1>1, <1>2 DEF Digs, Breaking
<1> QED
  BY <1>1, <1>2, <1>3, <1>4, OneDigs

LEMMA FinishDigKeeps ==
    ASSUME DigInv, Movers = "reader", NEW d \in Digger, NEW p \in Place, FinishDig(d, p) PROVE DigInv'
<1>1. PICK r \in DigRoom : r = inRoom[d]
  BY DEF DigInv, DigTypes
<1> DEFINE b == block[r][p]
           done == /\ b # Air /\ PaidFor(d, p)
                   /\ EnoughTicks(BreakTicks(b, tool[d]),
                                  ElapsedOn(r, dig[d].room, dig[d].start, clock[r]))
<1>2. /\ DigTypes /\ Digs(d) /\ hand[d].at = "idle" /\ moving[d] = "no"
      /\ dig' = [dig EXCEPT ![d].on = FALSE]
      /\ UNCHANGED <<block, clock, inRoom, tool, moving, brokeWell>>
  BY DEF DigInv, FinishDig, Alone
<1>3. /\ dig' \in [Digger -> [on : BOOLEAN, place : Place, start : Nat, room : DigRoom]]
      /\ dig'[d].on = FALSE /\ \A e \in Digger \ {d} : dig'[e] = dig[e]
  BY <1>2, DigOff
<1>4. CASE ~done
  <2>1. begun' = [begun EXCEPT ![d].on = FALSE] /\ hand' = hand
    BY <1>1, <1>4 DEF FinishDig
  <2>2. DigTypes' /\ \A e \in Digger \ {d} : begun'[e] = begun[e]
    BY <1>2, <1>3, <2>1, Forgets DEF DigTypes
  <2>3. Digs(d)'
    BY <1>2, <1>3, <2>1 DEF Digs, Breaking
  <2> QED
    BY <1>2, <1>3, <2>1, <2>2, <2>3, OneDigs
<1>5. CASE done
  <2>1. /\ begun' = begun
        /\ hand' = [hand EXCEPT ![d] = [Resting EXCEPT !.at = "hooks", !.place = p, !.room = r]]
    BY <1>1, <1>5 DEF FinishDig
  <2>2. /\ hand'[d] = [at |-> "hooks", place |-> p, tick |-> 0, room |-> r]
        /\ \A e \in Digger \ {d} : hand'[e] = hand[e]
    BY <1>2, <2>1 DEF DigTypes, Resting
  <2>3. hand'[d] \in [at : {"idle", "begin", "hooks", "look", "break"}, place : Place, tick : Nat, room : DigRoom]
    BY <2>2
  <2>4. DigTypes'
    BY <1>2, <1>3, <2>1, <2>2, <2>3 DEF DigTypes
  <2>5. /\ begun[d].on /\ begun[d].place = p /\ begun[d].room = r
        /\ ElapsedOn(r, dig[d].room, dig[d].start, clock[r]) = begun[d].ticks
    BY <1>1, <1>2, <1>5 DEF PaidFor, Digs, DigsSince, ElapsedOn, DigTypes
  <2>6. Owed(d, r, p)
    BY <1>5, <2>5 DEF Owed
  <2>7. Owed(d, r, p)'
    BY <1>2, <2>1, <2>6 DEF Owed
  <2>8. Digs(d)'
    BY <1>1, <1>2, <1>3, <2>1, <2>2, <2>5, <2>7 DEF Digs, Breaking
  <2> QED
    BY <1>2, <1>3, <2>1, <2>2, <2>4, <2>8, OneDigs
<1> QED
  BY <1>4, <1>5

\* The hooks, and the look at the block.
LEMMA BreakingKeeps ==
    ASSUME DigInv, NEW d \in Digger, AskHooks(d) \/ LookAtBlock(d) PROVE DigInv'
<1>1. PICK at \in {"look", "break"} :
        /\ Breaking(d)
        /\ hand' = [hand EXCEPT ![d] = Resting] \/ hand' = [hand EXCEPT ![d].at = at]
        /\ UNCHANGED <<block, clock, inRoom, tool, dig, moving, begun, brokeWell>>
  BY DEF AskHooks, LookAtBlock, Breaking
<1>2. Resting.at = "idle" /\ NoDig.place \in Place /\ NoDig.room \in DigRoom
  BY DEF Resting, NoDig, DigTypes, DigInv
<1>3. Resting \in [at : {"idle", "begin", "hooks", "look", "break"}, place : Place, tick : Nat, room : DigRoom]
  BY <1>2 DEF Resting
<1>4. /\ DigTypes /\ Digs(d) /\ moving[d] = "no" /\ ~dig[d].on
  BY <1>1 DEF DigInv, Digs, Breaking
<1>5. CASE hand' = [hand EXCEPT ![d] = Resting]
  <2>3. /\ hand' \in [Digger -> [at : {"idle", "begin", "hooks", "look", "break"}, place : Place,
                                  tick : Nat, room : DigRoom]]
        /\ hand'[d] = Resting /\ \A e \in Digger \ {d} : hand'[e] = hand[e]
    BY <1>4, <1>5, HandRests
  <2>1. DigTypes' /\ hand'[d] = Resting /\ \A e \in Digger \ {d} : hand'[e] = hand[e]
    BY <1>1, <1>4, <2>3 DEF DigTypes
  <2>2. Digs(d)'
    BY <1>1, <1>2, <1>4, <2>1 DEF Digs, Breaking
  <2> QED
    BY <1>1, <2>1, <2>2, OneDigs
<1>6. CASE hand' = [hand EXCEPT ![d].at = at]
  <2> DEFINE h == [hand[d] EXCEPT !.at = at]
  <2>5. hand[d] \in [at : {"idle", "begin", "hooks", "look", "break"}, place : Place, tick : Nat, room : DigRoom]
    BY <1>4 DEF DigTypes
  <2>3. h \in [at : {"idle", "begin", "hooks", "look", "break"}, place : Place, tick : Nat, room : DigRoom]
    BY <2>5
  <2>4. hand' = [hand EXCEPT ![d] = h] /\ h.at = at /\ h.place = hand[d].place
    BY <1>4, <1>6 DEF DigTypes
  <2> HIDE DEF h
  <2>1. /\ DigTypes' /\ hand'[d].at = at /\ hand'[d].place = hand[d].place
        /\ \A e \in Digger \ {d} : hand'[e] = hand[e]
    BY <1>1, <1>4, <2>3, <2>4 DEF DigTypes
  <2>2. Digs(d)'
    BY <1>1, <1>4, <2>1 DEF Digs, Breaking, Owed
  <2> QED
    BY <1>1, <2>1, <2>2, OneDigs
<1> QED
  BY <1>1, <1>5, <1>6

LEMMA BreakBlockKeeps == ASSUME DigInv, NEW d \in Digger, BreakBlock(d) PROVE DigInv'
<1>1. PICK p \in Place, r \in DigRoom : p = hand[d].place /\ r = inRoom[d]
  BY DEF DigInv, DigTypes
<1>2. /\ DigTypes /\ Digs(d) /\ DugLongEnough /\ hand[d].at = "break" /\ hand' = [hand EXCEPT ![d] = Resting]
      /\ block' = [block EXCEPT ![r][p] = Air] /\ begun' = [begun EXCEPT ![d].on = FALSE]
      /\ UNCHANGED <<clock, inRoom, tool, dig, moving>>
  BY <1>1 DEF DigInv, BreakBlock
<1>3. Resting.at = "idle" /\ NoDig.place \in Place /\ NoDig.room \in DigRoom
  BY <1>2 DEF Resting, NoDig, DigTypes
<1>4. Resting \in [at : {"idle", "begin", "hooks", "look", "break"}, place : Place, tick : Nat, room : DigRoom]
  BY <1>3 DEF Resting
<1>5. /\ hand' \in [Digger -> [at : {"idle", "begin", "hooks", "look", "break"}, place : Place,
                                tick : Nat, room : DigRoom]]
      /\ hand'[d] = Resting /\ \A e \in Digger \ {d} : hand'[e] = hand[e]
  BY <1>2, HandRests
<1>6. block' \in [DigRoom -> [Place -> Blocks \cup {Air}]]
  BY <1>2 DEF DigTypes
<1>7. /\ DigTypes' /\ hand'[d] = Resting
      /\ \A e \in Digger \ {d} : hand'[e] = hand[e] /\ begun'[e] = begun[e]
  BY <1>2, <1>5, <1>6, Forgets DEF DigTypes
<1>8. Digs(d)'
  BY <1>2, <1>3, <1>7 DEF Digs, Breaking
<1>9. DugLongEnough'
  BY <1>1, <1>2 DEF Digs, Breaking, BreakBlock, DugLongEnough
<1>10. ASSUME NEW e \in Digger, e # d PROVE Digs(e)'
  <2>1. block'[inRoom[e]][hand[e].place] \in {Air, block[inRoom[e]][hand[e].place]}
    BY <1>2 DEF DigTypes
  <2> QED
    BY <1>2, <1>7, <1>10, <2>1 DEF DigInv, Digs, DigsSince, Breaking, Owed
<1> QED
  BY <1>7, <1>8, <1>9, <1>10 DEF DigInv

LEMMA MoveKeeps ==
    ASSUME DigInv, Movers = "reader", NEW d \in Digger,
           MoveSwitches(d) \/ \E r \in DigRoom : MoveForgets(d, r)
    PROVE  DigInv'
<1>1. CASE MoveSwitches(d)
  <2>1. /\ DigTypes /\ Digs(d) /\ moving[d] # "no" /\ moving' = [moving EXCEPT ![d] = "no"]
        /\ inRoom' = [inRoom EXCEPT ![d] = moving[d]]
        /\ UNCHANGED <<block, clock, tool, dig, hand, begun, brokeWell>>
    BY <1>1 DEF DigInv, MoveSwitches
  <2>2. DigTypes' /\ \A e \in Digger \ {d} : moving'[e] = moving[e] /\ inRoom'[e] = inRoom[e]
    BY <2>1 DEF DigTypes
  <2>3. Digs(d)'
    BY <2>1 DEF Digs, Breaking, DigTypes
  <2> QED
    BY <2>1, <2>2, <2>3, OneDigs
<1>2. CASE \E r \in DigRoom : MoveForgets(d, r)
  <2>1. PICK r \in DigRoom : MoveForgets(d, r)
    BY <1>2
  <2>2. /\ DigTypes /\ Digs(d) /\ hand[d].at = "idle" /\ moving' = [moving EXCEPT ![d] = r]
        /\ dig' = [dig EXCEPT ![d].on = FALSE] /\ begun' = [begun EXCEPT ![d].on = FALSE]
        /\ UNCHANGED <<block, clock, inRoom, tool, hand, brokeWell>>
    BY <2>1 DEF DigInv, MoveForgets
  <2>5. /\ dig' \in [Digger -> [on : BOOLEAN, place : Place, start : Nat, room : DigRoom]]
        /\ dig'[d].on = FALSE /\ \A e \in Digger \ {d} : dig'[e] = dig[e]
    BY <2>2, DigOff
  <2>6. /\ moving' \in [Digger -> DigRoom \cup {"no"}]
        /\ \A e \in Digger \ {d} : moving'[e] = moving[e]
    BY <2>2 DEF DigTypes
  <2>3. /\ DigTypes' /\ dig'[d].on = FALSE
        /\ \A e \in Digger \ {d} : moving'[e] = moving[e] /\ dig'[e] = dig[e] /\ begun'[e] = begun[e]
    BY <2>2, <2>5, <2>6, Forgets DEF DigTypes
  <2>4. Digs(d)'
    BY <2>2, <2>3 DEF Digs, Breaking
  <2> QED
    BY <2>2, <2>3, <2>4, OneDigs
<1> QED
  BY <1>1, <1>2

LEMMA PutBlockKeeps ==
    ASSUME DigInv, NEW r \in DigRoom, NEW p \in Place, NEW b \in Blocks, PutBlock(r, p, b) PROVE DigInv'
<1>1. /\ DigTypes /\ block[r][p] = Air /\ block' = [block EXCEPT ![r][p] = b]
      /\ begun' = [d \in Digger |-> IF Breaking(d) /\ begun[d].room = r /\ begun[d].place = p
                                    THEN [begun[d] EXCEPT !.replaced = TRUE] ELSE begun[d]]
      /\ UNCHANGED <<clock, inRoom, tool, dig, moving, hand, brokeWell>>
  BY DEF DigInv, PutBlock
<1>2. ASSUME NEW d \in Digger
      PROVE  /\ begun'[d] \in [on : BOOLEAN, place : Place, room : DigRoom, ticks : Nat, replaced : BOOLEAN]
             /\ begun'[d].on = begun[d].on /\ begun'[d].place = begun[d].place
             /\ begun'[d].room = begun[d].room /\ begun'[d].ticks = begun[d].ticks
             /\ ~begun'[d].replaced => /\ ~begun[d].replaced
                                       /\ ~(Breaking(d) /\ begun[d].room = r /\ begun[d].place = p)
  BY <1>1 DEF DigTypes
<1>3. DigTypes'
  <2>1. block' \in [DigRoom -> [Place -> Blocks \cup {Air}]]
    BY <1>1 DEF DigTypes
  <2>2. begun' \in [Digger -> [on : BOOLEAN, place : Place, room : DigRoom, ticks : Nat, replaced : BOOLEAN]]
    BY <1>1, <1>2
  <2> QED
    BY <1>1, <2>1, <2>2 DEF DigTypes
<1>4. ASSUME NEW d \in Digger PROVE Digs(d)'
  <2>1. Digs(d)
    BY DEF DigInv
  <2>2. Breaking(d)' <=> Breaking(d)
    BY <1>1 DEF Breaking
  <2>3. ASSUME Breaking(d), ~begun'[d].replaced
        PROVE  block'[inRoom[d]][hand[d].place] = block[inRoom[d]][hand[d].place]
    BY <1>1, <1>2, <2>1, <2>3 DEF DigTypes, Digs
  <2> QED
    BY <1>1, <1>2, <2>1, <2>2, <2>3 DEF Digs, DigsSince, Owed
<1> QED
  BY <1>1, <1>3, <1>4 DEF DigInv, DugLongEnough

LEMMA RoomTickKeeps == ASSUME DigInv, NEW r \in DigRoom, RoomTick(r) PROVE DigInv'
<1>1. /\ DigTypes /\ clock' = [clock EXCEPT ![r] = @ + 1]
      /\ begun' = [d \in Digger |-> IF begun[d].on /\ begun[d].room = r
                                    THEN [begun[d] EXCEPT !.ticks = @ + 1] ELSE begun[d]]
      /\ UNCHANGED <<block, inRoom, tool, dig, moving, hand, brokeWell>>
  BY DEF DigInv, RoomTick
<1>2. ASSUME NEW d \in Digger
      PROVE  /\ begun'[d] \in [on : BOOLEAN, place : Place, room : DigRoom, ticks : Nat, replaced : BOOLEAN]
             /\ begun'[d].on = begun[d].on /\ begun'[d].place = begun[d].place
             /\ begun'[d].room = begun[d].room /\ begun'[d].replaced = begun[d].replaced
             /\ begun'[d].ticks = IF begun[d].on /\ begun[d].room = r THEN begun[d].ticks + 1
                                  ELSE begun[d].ticks
  <2>1. begun[d] \in [on : BOOLEAN, place : Place, room : DigRoom, ticks : Nat, replaced : BOOLEAN]
    BY <1>1 DEF DigTypes
  <2>2. begun[d].ticks + 1 \in Nat
    BY <2>1
  <2>3. begun'[d] = IF begun[d].on /\ begun[d].room = r
                    THEN [begun[d] EXCEPT !.ticks = begun[d].ticks + 1] ELSE begun[d]
    BY <1>1
  <2>4. [begun[d] EXCEPT !.ticks = begun[d].ticks + 1]
          = [on |-> begun[d].on, place |-> begun[d].place, room |-> begun[d].room,
             ticks |-> begun[d].ticks + 1, replaced |-> begun[d].replaced]
    BY <2>1
  <2> QED
    BY <2>1, <2>2, <2>3, <2>4
<1>3. DigTypes'
  <2>1. clock' \in [DigRoom -> Nat]
    BY <1>1 DEF DigTypes
  <2>2. begun' \in [Digger -> [on : BOOLEAN, place : Place, room : DigRoom, ticks : Nat, replaced : BOOLEAN]]
    BY <1>1, <1>2
  <2> QED
    BY <1>1, <2>1, <2>2 DEF DigTypes
<1>4. ASSUME NEW d \in Digger PROVE Digs(d)'
  <2>1. Digs(d) /\ (Breaking(d)' <=> Breaking(d))
    BY <1>1 DEF DigInv, Breaking
  <2>2. inRoom[d] \in DigRoom /\ clock'[inRoom[d]] = IF inRoom[d] = r THEN clock[inRoom[d]] + 1 ELSE clock[inRoom[d]]
    BY <1>1 DEF DigTypes
  <2>3. \A p \in Place, start \in Nat : DigsSince(d, p, start) =>
           /\ begun'[d].on /\ begun'[d].place = p /\ begun'[d].room = inRoom[d]
           /\ start <= clock'[inRoom[d]] /\ begun'[d].ticks = clock'[inRoom[d]] - start
    BY <1>1, <1>2, <2>2 DEF DigsSince, DigTypes
  <2>4. ASSUME NEW p \in Place, block[inRoom[d]][p] # Air, Owed(d, inRoom[d], p)
        PROVE  EnoughTicks(BreakTicks(block[inRoom[d]][p], tool[d]), begun'[d].ticks)
    <3>1. BreakTicks(block[inRoom[d]][p], tool[d]) \in Int
      BY <1>1, <2>4, BreakTicksInt DEF DigTypes
    <3>2. begun[d].ticks \in Nat
      BY <1>1 DEF DigTypes
    <3> QED
      BY <1>2, <2>4, <3>1, <3>2, LongerIsEnough DEF Owed
  <2>5. dig[d].place \in Place /\ dig[d].start \in Nat /\ hand[d].place \in Place /\ hand[d].tick \in Nat
    BY <1>1 DEF DigTypes
  <2> QED
    BY <1>1, <1>2, <2>1, <2>3, <2>4, <2>5 DEF Digs, DigsSince, Owed
<1> QED
  BY <1>1, <1>3, <1>4 DEF DigInv, DugLongEnough

\* For any diggers, rooms, blocks and tools: where players are moved by their own
\* commands, whatever is broken was dug there for long enough (dig.go).
THEOREM BlocksAreDug == ASSUME Movers = "reader" PROVE DiggingSpec => []DugLongEnough
<1>1. DiggingInit => DigInv
  <2> SUFFICES ASSUME DiggingInit PROVE DigInv
    OBVIOUS
  <2>1. DugLongEnough
    BY DEF DiggingInit, DugLongEnough
  <2>2. ASSUME NEW d \in Digger PROVE Digs(d) /\ NoDig.room \in DigRoom
    BY DEF DiggingInit, Digs, Breaking, NoDig, Resting
  <2>3. DigTypes
    <3>1. ASSUME NEW d \in Digger PROVE NoDig.place \in Place /\ NoDig.room \in DigRoom
      BY DiggingAssumption DEF DiggingInit, NoDig
    <3>2. ASSUME NEW d \in Digger
          PROVE  /\ NoDig \in [on : BOOLEAN, place : Place, start : Nat, room : DigRoom]
                 /\ Resting \in [at : {"idle", "begin", "hooks", "look", "break"}, place : Place,
                                  tick : Nat, room : DigRoom]
                 /\ NotBegun \in [on : BOOLEAN, place : Place, room : DigRoom, ticks : Nat,
                                   replaced : BOOLEAN]
      BY <3>1 DEF NoDig, Resting, NotBegun
    <3>3. block \in [DigRoom -> [Place -> Blocks \cup {Air}]]
      BY DEF DiggingInit
    <3> QED
      BY <3>2, <3>3 DEF DiggingInit, DigTypes
  <2> QED
    BY <2>1, <2>2, <2>3 DEF DigInv
<1>2. DigInv /\ [DiggingNext]_digVars => DigInv'
  <2> SUFFICES ASSUME DigInv, [DiggingNext]_digVars PROVE DigInv'
    OBVIOUS
  <2>1. CASE UNCHANGED digVars
    BY <2>1 DEF digVars, DigInv, DigTypes, DugLongEnough, Digs, DigsSince, Breaking, Owed
  <2> QED
    BY <2>1, HoldToolKeeps, StartDigKeeps, BeginDigKeeps, CancelDigKeeps, FinishDigKeeps,
       BreakingKeeps, BreakBlockKeeps, MoveKeeps, PutBlockKeeps, RoomTickKeeps DEF DiggingNext
<1>3. DigInv => DugLongEnough
  BY DEF DigInv
<1> QED
  BY <1>1, <1>2, <1>3, PTL DEF DiggingSpec

-----------------------------------------------------------------------------
(* How long a thing has been in use.                                       *)

UseTypes ==
    /\ ticks \in [ArrowRoom -> Nat] /\ room \in ArrowRoom /\ inHand \in Nat
    /\ use.start \in Nat

\* A use is timed on the clock of the instance it began in; it outlives a move out of
\* the hub only, on whose clock it then stays.
UseInv ==
    /\ UseTypes /\ UsedInEarnest
    /\ going # "nowhere" => going # room /\ going \in ArrowRoom
    /\ use.on /\ room = HubRoom => use.inst = HubRoom
    /\ use.on /\ use.inst = room => use.start <= ticks[room] /\ ticks[room] - use.start <= inHand

LEMMA NoUseFits == ~NoUse.on /\ NoUse.start = 0
BY DEF NoUse

\* What ends the use, or leaves it alone.
LEMMA UseEnds ==
    ASSUME UseInv, CancelUse, UNCHANGED <<ticks, earnest>>, room' \in ArrowRoom,
           going' # "nowhere" => going' # room' /\ going' \in ArrowRoom
    PROVE  UseInv'
BY NoUseFits DEF UseInv, UseTypes, CancelUse, UsedInEarnest

LEMMA UseStays ==
    ASSUME UseInv, UNCHANGED <<ticks, room, going, use, inHand, earnest>>
    PROVE  UseInv'
BY DEF UseInv, UseTypes, UsedInEarnest

LEMMA UseItemKeeps == ASSUME UseInv, UseItem PROVE UseInv'
<1>1. /\ use' = [on |-> TRUE, slot |-> archer.slot, item |-> Held, start |-> ticks[room], inst |-> room]
      /\ inHand' = 0 /\ UNCHANGED <<ticks, room, going, earnest>>
  BY DEF UseItem, BeginUse
<1>2. ticks[room] \in Nat
  BY DEF UseInv, UseTypes
<1>3. use'.on = TRUE /\ use'.start = ticks[room] /\ use'.inst = room
  BY <1>1
<1> QED
  BY <1>1, <1>2, <1>3 DEF UseInv, UseTypes, UsedInEarnest

\* No bow is pulled for longer than it was in hand.
LEMMA PulledAllowed == ASSUME UseInv, use.on PROVE Pulled \in Nat /\ Pulled <= inHand
<1>1. ticks[room] \in Nat /\ use.start \in Nat /\ inHand \in Nat
  BY DEF UseInv, UseTypes
<1>2. CASE room = use.inst
  BY <1>1, <1>2 DEF UseInv, Pulled, Elapsed
<1>3. CASE room # use.inst
  BY <1>1, <1>3 DEF Pulled, Elapsed
<1> QED
  BY <1>2, <1>3

LEMMA ReleaseKeeps == ASSUME UseInv, Release PROVE UseInv'
<1>1. use.on /\ CancelUse /\ UNCHANGED <<ticks, room, going>>
  BY DEF Release
<1>2. earnest' = earnest
  <2>1. Pulled \in Nat /\ inHand \in Nat /\ Pulled <= inHand
    BY <1>1, PulledAllowed DEF UseInv, UseTypes
  <2>2. ~(Pulled > inHand)
    BY <2>1
  <2> QED
    BY <2>2 DEF Release, Shoot
<1> QED
  BY <1>1, <1>2, UseEnds DEF UseInv, UseTypes

LEMMA EnterKeeps == ASSUME UseInv, EnterRoom PROVE UseInv'
<1>1. /\ going # "nowhere" /\ room' = going /\ going' = "nowhere" /\ going \in ArrowRoom /\ going # room
      /\ UNCHANGED <<ticks, earnest>>
  BY DEF EnterRoom, UseInv
<1>2. CASE room = HubRoom
  <2>1. use' = use /\ inHand' = 0
    BY <1>2 DEF EnterRoom
  <2>2. ~(use.on /\ use.inst = going) /\ going # HubRoom
    BY <1>1, <1>2 DEF UseInv
  <2> QED
    BY <1>1, <2>1, <2>2 DEF UseInv, UseTypes, UsedInEarnest
<1>3. CASE room # HubRoom
  <2>1. CancelUse
    BY <1>3 DEF EnterRoom
  <2> QED
    BY <1>1, <2>1, UseEnds
<1> QED
  BY <1>2, <1>3

LEMMA TickKeeps == ASSUME UseInv, NEW r \in ArrowRoom, Tick(r) PROVE UseInv'
<1> DEFINE now == ticks[r] + 1
<1>1. /\ ticks' = [ticks EXCEPT ![r] = ticks[r] + 1] /\ Consumes(r, now) /\ UNCHANGED <<room, going, archer>>
  BY DEF Tick
<1>2. /\ ticks' \in [ArrowRoom -> Nat] /\ ticks'[r] = now /\ now \in Nat /\ ticks[r] \in Nat
      /\ \A o \in ArrowRoom \ {r} : ticks'[o] = ticks[o]
  BY <1>1 DEF UseInv, UseTypes
<1>3. CASE ~use.on \/ room # r
  <2>1. UNCHANGED <<use, inHand, earnest>>
    BY <1>1, <1>3 DEF Consumes
  <2>2. use.on => ticks'[room] = ticks[room]
    BY <1>2, <1>3 DEF UseInv, UseTypes
  <2> QED
    BY <1>1, <1>2, <2>1, <2>2 DEF UseInv, UseTypes, UsedInEarnest
<1>4. CASE use.on /\ room = r
  <2>1. /\ use' = use \/ use' = NoUse
        /\ inHand' = IF use'.on THEN inHand + 1 ELSE 0
    BY <1>1, <1>4 DEF Consumes
  <2>2. inHand \in Nat /\ use.start \in Nat
    BY DEF UseInv, UseTypes
  <2>3. Finished(r, now) => inHand + 1 >= EatTicks
    <3> SUFFICES ASSUME Finished(r, now) PROVE inHand + 1 >= EatTicks
      OBVIOUS
    <3>1. Elapsed(r, use.inst, use.start, now) >= EatTicks /\ EatTicks \in Nat \ {0}
      BY ArcheryAssumption DEF Finished
    <3>2. CASE r = use.inst
      <4>1. use.start <= ticks[r] /\ ticks[r] - use.start <= inHand
        BY <1>4, <3>2 DEF UseInv
      <4>2. Elapsed(r, use.inst, use.start, now) = now - use.start
        BY <1>2, <2>2, <3>2, <4>1 DEF Elapsed
      <4> QED
        BY <1>2, <2>2, <3>1, <4>1, <4>2
    <3>3. CASE r # use.inst
      BY <3>1, <3>3 DEF Elapsed
    <3> QED
      BY <3>2, <3>3
  <2>4. earnest' = earnest
    <3>1. ~(inHand + 1 < EatTicks) \/ ~Finished(r, now)
      BY <2>2, <2>3, ArcheryAssumption
    <3> QED
      BY <1>1, <1>4, <3>1 DEF Consumes
  <2>5. CASE use' = use
    <3>1. inHand' = inHand + 1
      BY <1>4, <2>1, <2>5
    <3>2. use.inst = room => use.start <= ticks'[room] /\ ticks'[room] - use.start <= inHand + 1
      <4> SUFFICES ASSUME use.inst = room PROVE use.start <= now /\ now - use.start <= inHand + 1
        BY <1>2, <1>4
      <4>1. use.start <= ticks[r] /\ ticks[r] - use.start <= inHand
        BY <1>4 DEF UseInv
      <4> QED
        BY <1>2, <2>2, <4>1
    <3> QED
      BY <1>1, <1>2, <2>2, <2>4, <2>5, <3>1, <3>2 DEF UseInv, UseTypes, UsedInEarnest
  <2>6. CASE use' = NoUse
    <3>1. CancelUse
      BY <2>1, <2>6, NoUseFits DEF CancelUse
    <3> QED
      BY <1>1, <1>2, <2>4, <2>6, <3>1, NoUseFits DEF UseInv, UseTypes, UsedInEarnest, CancelUse
  <2> QED
    BY <2>1, <2>5, <2>6
<1> QED
  BY <1>3, <1>4

LEMMA UseInits == ASSUME ArrowInit PROVE UseInv
<1>1. ~use.on /\ use.start = 0
  BY NoUseFits DEF ArrowInit
<1> QED
  BY <1>1, ArcheryAssumption DEF ArrowInit, UseInv, UseTypes, UsedInEarnest

LEMMA UseSteps == ASSUME UseInv, [ArrowNext]_arrowVars PROVE UseInv'
<1>1. CASE UNCHANGED arrowVars
  BY <1>1, UseStays DEF arrowVars
<1>2. CASE DigWhileUsing \/ Die \/ \E s \in Slots : SetHeldItem(s)
  BY <1>2, UseEnds DEF DigWhileUsing, Die, SetHeldItem, UseInv, UseTypes
<1>3. ASSUME NEW r \in ArrowRoom, StartMove(r) PROVE UseInv'
  <2>1. CancelUse /\ UNCHANGED <<ticks, earnest, room>> /\ going' = r /\ r # room
    BY <1>3 DEF StartMove, Shed
  <2> QED
    BY <2>1, UseEnds DEF UseInv, UseTypes
<1>4. CASE ClickSlots \/ Respawn \/ GiveKit
  BY <1>4, UseStays DEF ClickSlots, Respawn, GiveKit
<1>5. ASSUME NEW r \in ArrowRoom, Impact(r) \/ PlaceBlock(r) PROVE UseInv'
  BY <1>5, UseStays DEF Impact, PlaceBlock
<1>6. ASSUME NEW t \in Bystander, Walk(t) PROVE UseInv'
  BY <1>6, UseStays DEF Walk
<1> QED
  BY <1>1, <1>2, <1>3, <1>4, <1>5, <1>6, UseItemKeeps, ReleaseKeeps, EnterKeeps, TickKeeps DEF ArrowNext

\* No bow is loosed with more force, and nothing eaten sooner, than the ticks it was in
\* use and in hand allow, whatever the archer switched to, however often it was moved to
\* an instance with another clock and back (consume.go 14-18, elapsedOn).
THEOREM UseIsEarnest == ArrowSpec => []UsedInEarnest
<1>1. UseInv => UsedInEarnest
  BY DEF UseInv
<1> QED
  BY <1>1, UseInits, UseSteps, PTL DEF ArrowSpec

-----------------------------------------------------------------------------
(* What a window of invulnerability takes.                                 *)

\* The window has taken what its memory says at most.
WindowInv ==
    /\ fightTick \in Nat
    /\ hurt \in [Fighter -> [at : Nat, amount : Nat]]
    /\ window \in [Fighter -> [taken : Nat, strongest : Nat]]
    /\ \A p \in Fighter : /\ window[p].taken <= hurt[p].amount
                          /\ hurt[p].amount <= window[p].strongest

\* What most steps leave alone.
LEMMA WindowStays == ASSUME WindowInv, UNCHANGED <<hurt, window>>, fightTick' \in Nat PROVE WindowInv'
BY DEF WindowInv

LEMMA ReviveKeeps == ASSUME WindowInv, NEW p, Revive(p), UNCHANGED fightTick PROVE WindowInv'
<1>1. /\ hurt' = [hurt EXCEPT ![p] = [at |-> 0, amount |-> 0]]
      /\ window' = [window EXCEPT ![p] = [taken |-> 0, strongest |-> 0]]
  BY DEF Revive, NoWindow
<1>2. hurt' \in [Fighter -> [at : Nat, amount : Nat]]
  BY <1>1 DEF WindowInv
<1>3. window' \in [Fighter -> [taken : Nat, strongest : Nat]]
  BY <1>1 DEF WindowInv
<1> QED
  BY <1>1, <1>2, <1>3 DEF WindowInv

LEMMA SufferKeeps ==
    ASSUME WindowInv, NEW p, NEW n \in Nat, NEW length, Suffer(p, n, length),
           Landed(p, n, length) # 0, UNCHANGED fightTick
    PROVE  WindowInv'
<1> DEFINE landed == Landed(p, n, length)
           inside == Invulnerable(p, length)
<1>1. /\ hurt' = [hurt EXCEPT ![p] = [at |-> IF inside THEN hurt[p].at ELSE fightTick, amount |-> n]]
      /\ window' = [window EXCEPT ![p] =
             IF inside THEN [taken |-> window[p].taken + landed,
                             strongest |-> Max({window[p].strongest, n})]
             ELSE [taken |-> landed, strongest |-> n]]
  BY DEF Suffer, Remembered
<1>2. CASE p \notin Fighter
  <2>1. hurt' = hurt /\ window' = window
    BY <1>1, <1>2 DEF WindowInv
  <2> QED
    BY <2>1, WindowStays DEF WindowInv
<1>3. CASE p \in Fighter
  <2>1. /\ hurt[p].amount \in Nat /\ hurt[p].at \in Nat /\ window[p].taken \in Nat /\ window[p].strongest \in Nat
        /\ window[p].taken <= hurt[p].amount
    BY <1>3 DEF WindowInv
  <2>2. /\ inside => n > hurt[p].amount /\ landed = n - hurt[p].amount
        /\ ~inside => landed = n
    <3>1. ~down[p]
      BY DEF Landed
    <3>2. landed = IF inside THEN Max({n - hurt[p].amount, 0}) ELSE n
      BY <3>1 DEF Landed
    <3>3. n - hurt[p].amount \in Int
      BY <2>1
    <3>4. Max({n - hurt[p].amount, 0}) = IF n - hurt[p].amount >= 0 THEN n - hurt[p].amount ELSE 0
      BY <3>3, MaxPair
    <3> QED
      BY <2>1, <3>2, <3>4
  <2> HIDE DEF landed, inside
  <2>3. Max({window[p].strongest, n}) \in Nat /\ n <= Max({window[p].strongest, n})
    BY <2>1, MaxPair
  <2>4. CASE inside
    <3>1. /\ hurt' = [hurt EXCEPT ![p] = [at |-> hurt[p].at, amount |-> n]]
          /\ window' = [window EXCEPT ![p] = [taken |-> window[p].taken + landed,
                                              strongest |-> Max({window[p].strongest, n})]]
      BY <1>1, <2>4
    <3>2. window[p].taken + landed \in Nat /\ window[p].taken + landed <= n
      BY <2>1, <2>2, <2>4
    <3> QED
      BY <1>3, <2>1, <2>3, <3>1, <3>2 DEF WindowInv
  <2>5. CASE ~inside
    <3>1. /\ hurt' = [hurt EXCEPT ![p] = [at |-> fightTick, amount |-> n]]
          /\ window' = [window EXCEPT ![p] = [taken |-> n, strongest |-> n]]
      BY <1>1, <2>2, <2>5
    <3> QED
      BY <1>3, <3>1 DEF WindowInv
  <2> QED
    BY <2>4, <2>5
<1> QED
  BY <1>2, <1>3

LEMMA StrikeKeeps ==
    ASSUME WindowInv, NEW t, NEW p, NEW n \in Nat, NEW length, Strike(t, p, n, length) PROVE WindowInv'
<1>1. UNCHANGED fightTick /\ fightTick \in Nat
  BY DEF Strike, WindowInv
<1>2. CASE Landed(p, n, length) = 0
  BY <1>1, <1>2, WindowStays DEF Strike
<1>3. CASE Landed(p, n, length) # 0
  BY <1>1, <1>3, SufferKeeps DEF Strike
<1> QED
  BY <1>2, <1>3

\* For any fighters, strikers and damages (player.go ApplyDamage).
THEOREM WindowsTakeOneBlow == VitalSpec => []OneBlowPerWindow
<1>1. VitalInit => WindowInv
  <2> SUFFICES ASSUME VitalInit PROVE WindowInv
    OBVIOUS
  <2>1. hurt \in [Fighter -> [at : Nat, amount : Nat]] /\ \A p \in Fighter : hurt[p].amount = 0
    BY DEF VitalInit
  <2>2. window \in [Fighter -> [taken : Nat, strongest : Nat]]
        /\ \A p \in Fighter : window[p].taken = 0 /\ window[p].strongest = 0
    BY DEF VitalInit, NoWindow
  <2> QED
    BY <2>1, <2>2 DEF VitalInit, WindowInv
<1>2. WindowInv /\ [VitalNext]_vitalVars => WindowInv'
  <2> SUFFICES ASSUME WindowInv, [VitalNext]_vitalVars PROVE WindowInv'
    OBVIOUS
  <2>0. fightTick \in Nat
    BY DEF WindowInv
  <2>1. ASSUME NEW a, BlowLands(a) PROVE WindowInv'
    <3>1. PICK n \in Damages : Strike(a, doing[a].on, n, InvulnTicks)
      BY <2>1 DEF BlowLands
    <3> QED
      BY <3>1, StrikeKeeps, VitalAssumption
  <2>2. ASSUME BurnHurts PROVE WindowInv'
    <3> DEFINE p == doing[Ticker].on
               n == Min(Damages)
    <3>1. n \in Nat
      BY VitalAssumption DEF Min
    <3> HIDE DEF n
    <3>2. CASE Strike(Ticker, p, n, BurnInvuln)
      BY <3>1, <3>2, StrikeKeeps
    <3>3. CASE ~Strike(Ticker, p, n, BurnInvuln)
      <4>1. /\ IF Landed(p, n, BurnInvuln) > 0 THEN Suffer(p, n, BurnInvuln)
               ELSE UNCHANGED <<hp, gold, down, hurt, window>>
            /\ UNCHANGED fightTick
        BY <2>2, <3>3 DEF BurnHurts, n
      <4>2. CASE Landed(p, n, BurnInvuln) > 0
        BY <3>1, <4>1, <4>2, SufferKeeps
      <4>3. CASE ~(Landed(p, n, BurnInvuln) > 0)
        BY <2>0, <4>1, <4>3, WindowStays
      <4> QED
        BY <4>2, <4>3
    <3> QED
      BY <3>2, <3>3
  <2>3. ASSUME Plunge PROVE WindowInv'
    <3> DEFINE p == doing[Ticker].on
               n == 10 * MaxHealth
    <3>1. n \in Nat
      BY VitalAssumption
    <3> HIDE DEF n
    <3>2. /\ IF Landed(p, n, 0) > 0 THEN Suffer(p, n, 0) ELSE UNCHANGED <<hp, gold, down, hurt, window>>
          /\ UNCHANGED fightTick
      BY <2>3 DEF Plunge, n
    <3>3. CASE Landed(p, n, 0) > 0
      BY <3>1, <3>2, <3>3, SufferKeeps
    <3>4. CASE ~(Landed(p, n, 0) > 0)
      BY <2>0, <3>2, <3>4, WindowStays
    <3> QED
      BY <3>3, <3>4
  <2>4. ASSUME NEW p, ScreenRespawns(p) \/ GameRespawns(p) PROVE WindowInv'
    BY <2>4, ReviveKeeps DEF ScreenRespawns, GameRespawns
  <2>5. ASSUME NEW p, ResetHealth(p) PROVE WindowInv'
    BY <2>0, <2>5, ReviveKeeps, WindowStays DEF ResetHealth
  <2>6. ASSUME NEW t, Bury(t) PROVE WindowInv'
    BY <2>0, <2>6, ReviveKeeps, WindowStays DEF Bury
  <2>7. ASSUME FightTick PROVE WindowInv'
    BY <2>0, <2>7, WindowStays DEF FightTick
  <2>8. ASSUME \/ \E a \in Fighter \cup Striker, v \in Fighter : Swing(a, v)
               \/ \E p \in Fighter : \/ BurnLook(p) \/ BurnOut(p) \/ FallLook(p) \/ AskRespawn(p)
                                     \/ ResetLook(p) \/ ResetPool(p) \/ HealLook(p) \/ Fade(p)
               \/ \E t \in Thread : DieClears(t) \/ DieDrains(t) \/ Golden(t)
                                     \/ \E p \in Fighter : GoldLook(t, p)
               \/ BurnOn \/ Heals \/ UNCHANGED vitalVars
        PROVE WindowInv'
    BY <2>0, <2>8, WindowStays DEF Swing, BurnLook, BurnOut, FallLook, AskRespawn, ResetLook, ResetPool,
         HealLook, Fade, DieClears, DieDrains, Golden, GoldLook, BurnOn, Heals, vitalVars
  <2> QED
    BY <2>1, <2>2, <2>3, <2>4, <2>5, <2>6, <2>7, <2>8 DEF VitalNext
<1>3. WindowInv => OneBlowPerWindow
  <2> SUFFICES ASSUME WindowInv, NEW p \in Fighter PROVE window[p].taken <= window[p].strongest
    BY DEF OneBlowPerWindow
  <2>1. window[p].taken \in Nat /\ window[p].strongest \in Nat /\ hurt[p].amount \in Nat
    BY DEF WindowInv
  <2> QED
    BY <2>1 DEF WindowInv
<1> QED
  BY <1>1, <1>2, <1>3, PTL DEF VitalSpec

-----------------------------------------------------------------------------
\* Every nonempty set of naturals has a least element.
LEMMA LeastOf == ASSUME NEW T \in SUBSET Nat, T # {} PROVE Min(T) \in T /\ \A y \in T : Min(T) <= y
<1> DEFINE R == {p \in Nat \X Nat : p[1] < p[2]}
<1>1. IsWellFoundedOn(R, Nat)
  BY NatLessThanWellFounded DEF OpToRel
<1>2. T \subseteq Nat /\ T # {}
  OBVIOUS
<1> HIDE DEF R
<1>3. PICK x \in T : \A y \in T : ~(<<y, x>> \in R)
  BY <1>1, <1>2, WFMin
<1>4. \A y \in T : ~(y < x)
  BY <1>3 DEF R
<1>5. \A y \in T : x <= y
  BY <1>4
<1> QED
  BY <1>5 DEF Min

-----------------------------------------------------------------------------
(* The chain of one effect.                                                *)

Timed == [level : Nat, ends : Nat]

\* Levels fall along a chain, what has not run out in it was granted, and what was
\* granted is covered by an entry as strong that lasts as long.
Chained(chain, given, now) ==
    /\ \A i, j \in 1..Len(chain) : i < j => chain[j].level < chain[i].level
    /\ \A i \in 1..Len(chain) : now < chain[i].ends => chain[i] \in given
    /\ \A g \in given : now < g.ends /\ \E i \in 1..Len(chain) : /\ g.level <= chain[i].level
                                                                /\ g.ends <= chain[i].ends

EffectInv ==
    /\ moment \in Nat
    /\ table \in [Drinker -> [EffectKind -> Seq(Timed)]]
    /\ granted \in [Drinker -> [EffectKind -> SUBSET Timed]]
    /\ \A p \in Drinker, e \in EffectKind : Chained(table[p][e], granted[p][e], moment)

\* What is left of a chain starts with its first live entry and covers what it covered.
LEMMA LiveIs ==
    ASSUME moment \in Nat, NEW c \in Seq(Timed)
    PROVE  \/ /\ \A i \in 1..Len(c) : c[i].ends <= moment
              /\ LiveChain(c) = <<>>
           \/ \E m \in 1..Len(c) :
                /\ \A i \in 1..Len(c) : i < m => c[i].ends <= moment
                /\ moment < c[m].ends
                /\ LiveChain(c) \in Seq(Timed) /\ Len(LiveChain(c)) = Len(c) - m + 1
                /\ \A i \in 1..Len(c) - m + 1 : LiveChain(c)[i] = c[i + m - 1]
<1> DEFINE alive == {i \in DOMAIN c : moment < c[i].ends}
<1>1. DOMAIN c = 1..Len(c) /\ Len(c) \in Nat /\ \A i \in 1..Len(c) : c[i] \in Timed
  OBVIOUS
<1>2. \A i \in 1..Len(c) : c[i].ends \in Nat
  BY <1>1 DEF Timed
<1>3. CASE alive = {}
  BY <1>1, <1>2, <1>3 DEF LiveChain
<1>4. CASE alive # {}
  <2> DEFINE m == Min(alive)
  <2>1. alive \in SUBSET Nat
    BY <1>1
  <2>2. m \in alive /\ \A y \in alive : m <= y
    BY <2>1, <1>4, LeastOf
  <2>3. LiveChain(c) = SubSeq(c, m, Len(c))
    BY <1>4 DEF LiveChain
  <2>4. m \in 1..Len(c) /\ moment < c[m].ends
    BY <2>2, <1>1
  <2>7. \A i \in 1..Len(c) : i \notin alive => c[i].ends <= moment
    BY <1>1, <1>2
  <2> HIDE DEF m, alive
  <2>5. \A i \in 1..Len(c) : i < m => c[i].ends <= moment
    <3> SUFFICES ASSUME NEW i \in 1..Len(c), i < m PROVE c[i].ends <= moment
      OBVIOUS
    <3>1. i \notin alive
      BY <2>2, <2>4, <1>1
    <3> QED
      BY <3>1, <2>7
  <2>6. /\ SubSeq(c, m, Len(c)) \in Seq(Timed) /\ Len(SubSeq(c, m, Len(c))) = Len(c) - m + 1
        /\ \A i \in 1..Len(c) - m + 1 : SubSeq(c, m, Len(c))[i] = c[i + m - 1]
    BY <2>4, <1>1
  <2> QED
    BY <2>3, <2>4, <2>5, <2>6
<1> QED
  BY <1>3, <1>4

LEMMA LiveKeeps ==
    ASSUME moment \in Nat, NEW c \in Seq(Timed), NEW G \in SUBSET Timed, Chained(c, G, moment)
    PROVE  LiveChain(c) \in Seq(Timed) /\ Chained(LiveChain(c), G, moment)
<1> DEFINE l == LiveChain(c)
<1>1. /\ Len(c) \in Nat
      /\ \A i \in 1..Len(c) : c[i] \in Timed /\ c[i].level \in Nat /\ c[i].ends \in Nat
      /\ \A g \in G : g.level \in Nat /\ g.ends \in Nat
  <2>1. \A t \in Timed : t.level \in Nat /\ t.ends \in Nat
    BY DEF Timed
  <2>2. Len(c) \in Nat /\ \A i \in 1..Len(c) : c[i] \in Timed
    OBVIOUS
  <2> QED
    BY <2>1, <2>2
<1>2. CASE (\A i \in 1..Len(c) : c[i].ends <= moment) /\ l = <<>>
  <2>1. \A g \in G : FALSE
    BY <1>1, <1>2 DEF Chained
  <2>2. l \in Seq(Timed) /\ Len(l) = 0
    BY <1>2
  <2> QED
    BY <2>1, <2>2 DEF Chained
<1>3. ASSUME NEW m \in 1..Len(c), \A i \in 1..Len(c) : i < m => c[i].ends <= moment,
             l \in Seq(Timed), Len(l) = Len(c) - m + 1,
             \A i \in 1..Len(c) - m + 1 : l[i] = c[i + m - 1]
      PROVE  l \in Seq(Timed) /\ Chained(l, G, moment)
  <2> HIDE DEF l
  <2>1. \A i \in 1..Len(l) : i + m - 1 \in 1..Len(c) /\ l[i] = c[i + m - 1]
    BY <1>1, <1>3
  <2>2. \A i, j \in 1..Len(l) : i < j => l[j].level < l[i].level
    <3> SUFFICES ASSUME NEW i \in 1..Len(l), NEW j \in 1..Len(l), i < j PROVE l[j].level < l[i].level
      OBVIOUS
    <3>1. i + m - 1 < j + m - 1
      BY <1>3, <1>1
    <3> QED
      BY <2>1, <3>1 DEF Chained
  <2>3. \A i \in 1..Len(l) : moment < l[i].ends => l[i] \in G
    BY <2>1 DEF Chained
  <2>4. ASSUME NEW g \in G
        PROVE  moment < g.ends /\ \E i \in 1..Len(l) : g.level <= l[i].level /\ g.ends <= l[i].ends
    <3>1. moment < g.ends
      BY DEF Chained
    <3>2. PICK k \in 1..Len(c) : g.level <= c[k].level /\ g.ends <= c[k].ends
      BY DEF Chained
    <3>3. ~(k < m)
      BY <1>1, <1>3, <3>1, <3>2
    <3>4. k - m + 1 \in 1..Len(l) /\ (k - m + 1) + m - 1 = k
      BY <1>1, <1>3, <3>3
    <3>5. l[k - m + 1] = c[k]
      BY <2>1, <3>4
    <3> QED
      BY <3>1, <3>2, <3>4, <3>5
  <2> QED
    BY <1>3, <2>2, <2>3, <2>4 DEF Chained
<1> QED
  BY <1>2, <1>3, LiveIs

\* The first entry a grant does not pass.
LEMMA PassedIs ==
    ASSUME NEW c \in Seq(Timed), NEW g \in Timed
    PROVE  \E k \in 1..Len(c) + 1 :
             /\ \A i \in 1..Len(c) : i < k => g.level < c[i].level /\ g.ends > c[i].ends
             /\ k <= Len(c) => g.level >= c[k].level \/ g.ends <= c[k].ends
             /\ \/ k = Len(c) + 1 /\ Merge(c, g) = Append(c, g)
                \/ /\ k <= Len(c) /\ g.level > c[k].level
                   /\ \E n \in {k, k + 1} :
                        /\ n = k + 1 => c[k].ends <= g.ends
                        /\ Merge(c, g) = SubSeq(c, 1, k - 1) \o <<g>> \o SubSeq(c, n, Len(c))
                \/ k <= Len(c) /\ g.level <= c[k].level /\ g.ends <= c[k].ends /\ Merge(c, g) = c
                \/ k <= Len(c) /\ g.level = c[k].level /\ g.ends > c[k].ends
                   /\ Merge(c, g) = [c EXCEPT ![k].ends = g.ends]
<1> DEFINE passes(i) == g.level < c[i].level /\ g.ends > c[i].ends
           stops == {i \in 1..Len(c) + 1 : i > Len(c) \/ ~passes(i)}
           k == Min(stops)
<1>1. Len(c) \in Nat /\ g.level \in Nat /\ g.ends \in Nat
  BY DEF Timed
<1>2. \A i \in 1..Len(c) : c[i].level \in Nat /\ c[i].ends \in Nat
  <2>1. \A t \in Timed : t.level \in Nat /\ t.ends \in Nat
    BY DEF Timed
  <2>2. \A i \in 1..Len(c) : c[i] \in Timed
    OBVIOUS
  <2> QED
    BY <2>1, <2>2
<1>3. Len(c) + 1 \in stops /\ stops \in SUBSET Nat
  BY <1>1
<1>4. k \in stops /\ \A y \in stops : k <= y
  BY <1>3, LeastOf
<1>5. Merge(c, g) =
        IF k > Len(c) THEN Append(c, g)
        ELSE IF g.level > c[k].level
        THEN SubSeq(c, 1, k - 1) \o <<g>> \o SubSeq(c, IF g.ends < c[k].ends THEN k ELSE k + 1, Len(c))
        ELSE IF g.ends <= c[k].ends THEN c
        ELSE [c EXCEPT ![k].ends = g.ends]
  BY DEF Merge
<1>6. \A i \in stops : i > Len(c) \/ ~passes(i)
  OBVIOUS
<1>7. \A i \in 1..Len(c) : i \notin stops => passes(i)
  BY <1>1
<1>8. k \in 1..Len(c) + 1
  BY <1>4
<1> HIDE DEF k, stops
<1>9. \A i \in 1..Len(c) : i < k => passes(i)
  BY <1>1, <1>4, <1>7, <1>8
<1>10. k <= Len(c) => ~passes(k)
  BY <1>1, <1>4, <1>6, <1>8
<1>11. CASE k > Len(c)
  BY <1>1, <1>5, <1>8, <1>9, <1>11
<1>12. CASE k <= Len(c) /\ g.level > c[k].level
  <2> DEFINE n == IF g.ends < c[k].ends THEN k ELSE k + 1
  <2>1. n \in {k, k + 1} /\ (n = k + 1 => c[k].ends <= g.ends)
    BY <1>1, <1>2, <1>8, <1>12
  <2>2. ~(k > Len(c)) /\ k \in 1..Len(c)
    BY <1>1, <1>8, <1>12
  <2>3. Merge(c, g) = SubSeq(c, 1, k - 1) \o <<g>> \o SubSeq(c, n, Len(c))
    <3> HIDE DEF passes
    <3> QED
      BY <1>5, <1>12, <2>2, Zenon
  <2>4. g.level >= c[k].level
    BY <1>1, <1>2, <1>12, <2>2
  <2> HIDE DEF n
  <2> QED
    BY <1>8, <1>9, <1>12, <2>1, <2>3, <2>4
<1>13. CASE k <= Len(c) /\ ~(g.level > c[k].level) /\ g.ends <= c[k].ends
  <2>1. Merge(c, g) = c
    BY <1>1, <1>5, <1>8, <1>13
  <2> QED
    BY <1>1, <1>2, <1>8, <1>9, <1>13, <2>1
<1>14. CASE k <= Len(c) /\ ~(g.level > c[k].level) /\ ~(g.ends <= c[k].ends)
  <2>1. Merge(c, g) = [c EXCEPT ![k].ends = g.ends]
    BY <1>1, <1>5, <1>8, <1>14
  <2>2. c[k].level \in Nat /\ c[k].ends \in Nat
    BY <1>2, <1>8, <1>14
  <2>3. g.level = c[k].level /\ g.ends > c[k].ends
    BY <1>1, <2>2, <1>10, <1>14
  <2>4. g.level >= c[k].level
    BY <2>2, <2>3
  <2> QED
    BY <1>8, <1>9, <1>14, <2>1, <2>3, <2>4
<1>15. k <= Len(c) \/ k > Len(c)
  BY <1>1, <1>8
<1> QED
  BY <1>15, <1>11, <1>12, <1>13, <1>14

\* A piece of a chain around a grant.
LEMMA Joined ==
    ASSUME NEW S, NEW s \in Seq(S), NEW t \in Seq(S)
    PROVE  /\ s \o t \in Seq(S) /\ Len(s \o t) = Len(s) + Len(t)
           /\ \A i \in 1..Len(s) : (s \o t)[i] = s[i]
           /\ \A i \in Len(s) + 1..Len(s) + Len(t) : (s \o t)[i] = t[i - Len(s)]
OBVIOUS

SplicedIn(m, c, g, k, n) ==
    /\ m \in Seq(Timed) /\ Len(m) = Len(c) + k - n + 1
    /\ \A i \in 1..k - 1 : m[i] = c[i]
    /\ m[k] = g
    /\ \A i \in k + 1..Len(c) + k - n + 1 : m[i] = c[i - k + n - 1]

LEMMA Spliced ==
    ASSUME NEW c \in Seq(Timed), NEW g \in Timed, NEW k \in 1..Len(c), NEW n \in {k, k + 1}
    PROVE  SplicedIn(SubSeq(c, 1, k - 1) \o <<g>> \o SubSeq(c, n, Len(c)), c, g, k, n)
<1>1. Len(c) \in Nat /\ k \in Nat /\ n \in Nat
  OBVIOUS
<1>2. ASSUME NEW a \in Seq(Timed), Len(a) = k - 1, \A i \in 1..k - 1 : a[i] = c[i],
             NEW b \in Seq(Timed), Len(b) = Len(c) - n + 1, \A i \in 1..Len(c) - n + 1 : b[i] = c[i + n - 1]
      PROVE  SplicedIn(a \o <<g>> \o b, c, g, k, n)
  <2>1. ASSUME NEW f \in Seq(Timed), Len(f) = k, \A i \in 1..k - 1 : f[i] = a[i], f[k] = g
        PROVE  SplicedIn(f \o b, c, g, k, n)
    <3>1. ASSUME NEW m \in Seq(Timed), Len(m) = Len(f) + Len(b),
                 \A i \in 1..Len(f) : m[i] = f[i],
                 \A i \in Len(f) + 1..Len(f) + Len(b) : m[i] = b[i - Len(f)]
          PROVE  SplicedIn(m, c, g, k, n)
      <4>1. \A i \in 1..k - 1 : m[i] = c[i]
        BY SMTT(20), <1>1, <1>2, <2>1, <3>1
      <4>2. m[k] = g
        BY <1>1, <2>1, <3>1
      <4>3. \A i \in k + 1..Len(c) + k - n + 1 : m[i] = c[i - k + n - 1]
        BY <1>1, <1>2, <2>1, <3>1
      <4>4. Len(m) = Len(c) + k - n + 1
        BY <1>1, <1>2, <2>1, <3>1
      <4> QED
        BY <3>1, <4>1, <4>2, <4>3, <4>4 DEF SplicedIn
    <3>2. /\ f \o b \in Seq(Timed) /\ Len(f \o b) = Len(f) + Len(b)
          /\ \A i \in 1..Len(f) : (f \o b)[i] = f[i]
          /\ \A i \in Len(f) + 1..Len(f) + Len(b) : (f \o b)[i] = b[i - Len(f)]
      <4>1. f \in Seq(Timed) /\ b \in Seq(Timed)
        BY <1>2, <2>1
      <4> QED
        BY ONLY <4>1, Joined, Zenon
    <3> QED
      BY <3>1, <3>2, Zenon
  <2>2. /\ a \o <<g>> \in Seq(Timed) /\ Len(a \o <<g>>) = k
        /\ (\A i \in 1..k - 1 : (a \o <<g>>)[i] = a[i]) /\ (a \o <<g>>)[k] = g
    <3>1. <<g>> \in Seq(Timed) /\ Len(<<g>>) = 1 /\ <<g>>[1] = g
      OBVIOUS
    <3> DEFINE o == <<g>>
    <3>2. o \in Seq(Timed) /\ Len(o) = 1 /\ o[1] = g
      BY <3>1
    <3> HIDE DEF o
    <3>3. /\ a \o o \in Seq(Timed) /\ Len(a \o o) = Len(a) + Len(o)
          /\ \A i \in 1..Len(a) : (a \o o)[i] = a[i]
          /\ \A i \in Len(a) + 1..Len(a) + Len(o) : (a \o o)[i] = o[i - Len(a)]
      BY <1>2, <3>2, Joined, Zenon
    <3>4. ASSUME NEW f, Len(f) = Len(a) + Len(o), \A i \in 1..Len(a) : f[i] = a[i],
                 \A i \in Len(a) + 1..Len(a) + Len(o) : f[i] = o[i - Len(a)]
          PROVE  Len(f) = k /\ (\A i \in 1..k - 1 : f[i] = a[i]) /\ f[k] = g
      <4>1. Len(a) = k - 1 /\ Len(o) = 1
        BY <1>2, <3>2
      <4>2. k \in Len(a) + 1..Len(a) + Len(o) /\ k - Len(a) = 1
        BY <1>1, <4>1
      <4>3. f[k] = o[1]
        BY <3>4, <4>2
      <4> QED
        BY <1>1, <3>2, <3>4, <4>1, <4>3
    <3>5. Len(a \o o) = k /\ (\A i \in 1..k - 1 : (a \o o)[i] = a[i]) /\ (a \o o)[k] = g
      BY <3>3, <3>4, Zenon
    <3> QED
      BY <3>3, <3>5 DEF o
  <2> QED
    BY <2>1, <2>2, Zenon
<1>3. /\ SubSeq(c, 1, k - 1) \in Seq(Timed) /\ Len(SubSeq(c, 1, k - 1)) = k - 1
      /\ \A i \in 1..k - 1 : SubSeq(c, 1, k - 1)[i] = c[i]
  BY <1>1
<1>4. /\ SubSeq(c, n, Len(c)) \in Seq(Timed) /\ Len(SubSeq(c, n, Len(c))) = Len(c) - n + 1
      /\ \A i \in 1..Len(c) - n + 1 : SubSeq(c, n, Len(c))[i] = c[i + n - 1]
  BY <1>1
<1> QED
  BY <1>2, <1>3, <1>4, Zenon

\* What a longer or rearranged chain must show: falling levels, entries that come from
\* the old chain or are the grant, and nothing covered that no longer is.
LEMMA ChainedAnew ==
    ASSUME NEW c, NEW G \in SUBSET Timed, NEW now \in Nat, Chained(c, G, now),
           NEW g \in Timed, now < g.ends, NEW m,
           \A i, j \in 1..Len(m) : i < j => m[j].level < m[i].level,
           \A i \in 1..Len(m) : m[i] = g \/ \E j \in 1..Len(c) : m[i] = c[j],
           \E i \in 1..Len(m) : g.level <= m[i].level /\ g.ends <= m[i].ends,
           \A j \in 1..Len(c), h \in Timed : h.level <= c[j].level /\ h.ends <= c[j].ends =>
               \E i \in 1..Len(m) : h.level <= m[i].level /\ h.ends <= m[i].ends
    PROVE  Chained(m, G \cup {g}, now)
<1>1. \A i \in 1..Len(m) : now < m[i].ends => m[i] \in G \cup {g}
  BY DEF Chained
<1>2. ASSUME NEW h \in G \cup {g}
      PROVE  now < h.ends /\ \E i \in 1..Len(m) : h.level <= m[i].level /\ h.ends <= m[i].ends
  BY <1>2 DEF Chained
<1> QED
  BY <1>1, <1>2 DEF Chained

LEMMA MergeKeeps ==
    ASSUME NEW c \in Seq(Timed), NEW G \in SUBSET Timed, NEW now \in Nat, Chained(c, G, now),
           NEW g \in Timed, now < g.ends
    PROVE  Merge(c, g) \in Seq(Timed) /\ Chained(Merge(c, g), G \cup {g}, now)
<1> DEFINE M == Merge(c, g)
<1>1. Len(c) \in Nat /\ g.level \in Nat /\ g.ends \in Nat
  BY DEF Timed
<1>2. \A t \in Timed : t.level \in Nat /\ t.ends \in Nat
  BY DEF Timed
<1>3. \A i \in 1..Len(c) : c[i] \in Timed /\ c[i].level \in Nat /\ c[i].ends \in Nat
  BY <1>2
<1>4. \A i, j \in 1..Len(c) : i < j => c[j].level < c[i].level
  BY DEF Chained
<1>5. PICK k \in 1..Len(c) + 1 :
             /\ \A i \in 1..Len(c) : i < k => g.level < c[i].level /\ g.ends > c[i].ends
             /\ k <= Len(c) => g.level >= c[k].level \/ g.ends <= c[k].ends
             /\ \/ k = Len(c) + 1 /\ Merge(c, g) = Append(c, g)
                \/ /\ k <= Len(c) /\ g.level > c[k].level
                   /\ \E n \in {k, k + 1} :
                        /\ n = k + 1 => c[k].ends <= g.ends
                        /\ Merge(c, g) = SubSeq(c, 1, k - 1) \o <<g>> \o SubSeq(c, n, Len(c))
                \/ k <= Len(c) /\ g.level <= c[k].level /\ g.ends <= c[k].ends /\ Merge(c, g) = c
                \/ k <= Len(c) /\ g.level = c[k].level /\ g.ends > c[k].ends
                   /\ Merge(c, g) = [c EXCEPT ![k].ends = g.ends]
  BY PassedIs
<1>10. \A i \in 1..Len(c) : i < k => g.level < c[i].level /\ g.ends > c[i].ends
  BY <1>5
<1> HIDE DEF M
<1>6. CASE k = Len(c) + 1 /\ M = Append(c, g)
  <2>1. /\ M \in Seq(Timed) /\ Len(M) = Len(c) + 1 /\ M[Len(c) + 1] = g
        /\ \A i \in 1..Len(c) : M[i] = c[i]
    BY <1>6
  <2>2. \A i, j \in 1..Len(M) : i < j => M[j].level < M[i].level
    <3> SUFFICES ASSUME NEW i \in 1..Len(M), NEW j \in 1..Len(M), i < j PROVE M[j].level < M[i].level
      OBVIOUS
    <3>1. CASE j = Len(c) + 1
      <4>1. i \in 1..Len(c) /\ i < k
        BY <1>1, <1>6, <2>1, <3>1
      <4> QED
        BY <1>5, <2>1, <3>1, <4>1
    <3>2. CASE j # Len(c) + 1
      <4>1. i \in 1..Len(c) /\ j \in 1..Len(c)
        BY <1>1, <2>1, <3>2
      <4> QED
        BY <1>4, <2>1, <4>1
    <3> QED
      BY <3>1, <3>2
  <2>3. \A i \in 1..Len(M) : M[i] = g \/ \E j \in 1..Len(c) : M[i] = c[j]
    BY <1>1, <2>1
  <2>4. \E i \in 1..Len(M) : g.level <= M[i].level /\ g.ends <= M[i].ends
    <3>1. Len(c) + 1 \in 1..Len(M)
      BY <1>1, <2>1
    <3> QED
      BY <1>1, <2>1, <3>1
  <2>5. \A j \in 1..Len(c) : j \in 1..Len(M) /\ M[j] = c[j]
    BY <1>1, <2>1
  <2>7. \A j \in 1..Len(c), h \in Timed : h.level <= c[j].level /\ h.ends <= c[j].ends =>
               \E i \in 1..Len(M) : h.level <= M[i].level /\ h.ends <= M[i].ends
    BY <2>5
  <2>6. Chained(M, G \cup {g}, now)
    BY <2>2, <2>3, <2>4, <2>7, ChainedAnew, Zenon
  <2> QED
    BY <2>1, <2>6 DEF M
<1>7. ASSUME NEW n \in {k, k + 1}, k <= Len(c), g.level > c[k].level,
             n = k + 1 => c[k].ends <= g.ends,
             M = SubSeq(c, 1, k - 1) \o <<g>> \o SubSeq(c, n, Len(c))
      PROVE  M \in Seq(Timed) /\ Chained(M, G \cup {g}, now)
  <2>0. /\ k \in 1..Len(c) + 1 /\ k <= Len(c) /\ (n = k \/ n = k + 1)
        /\ g.level > c[k].level /\ (n = k + 1 => c[k].ends <= g.ends)
    BY <1>7
  <2>1. k \in 1..Len(c) /\ k \in Nat /\ n \in Nat
    BY <1>1, <2>0
  <2>2. /\ M \in Seq(Timed) /\ Len(M) = Len(c) + k - n + 1
        /\ \A i \in 1..k - 1 : M[i] = c[i]
        /\ M[k] = g
        /\ \A i \in k + 1..Len(c) + k - n + 1 : M[i] = c[i - k + n - 1]
    <3>1. n \in {k, k + 1}
      BY <2>0
    <3>2. M = SubSeq(c, 1, k - 1) \o <<g>> \o SubSeq(c, n, Len(c))
      BY <1>7
    <3> QED
      <4>1. SplicedIn(M, c, g, k, n)
        BY <2>1, <3>1, <3>2, Spliced, Zenon
      <4> QED
        BY <4>1 DEF SplicedIn
  <2>3. \A i \in 1..k - 1 : i \in 1..Len(c) /\ g.level < c[i].level
    BY <1>1, <1>10, <2>1
  <2>4. \A i \in k + 1..Len(M) : /\ i - k + n - 1 \in 1..Len(c) /\ M[i] = c[i - k + n - 1]
                                 /\ k <= i - k + n - 1
    <3>1. Len(M) = Len(c) + k - n + 1
      BY <2>2
    <3>2. \A i \in k + 1..Len(M) : i - k + n - 1 \in 1..Len(c) /\ k <= i - k + n - 1
      BY <1>1, <2>0, <2>1, <3>1
    <3>3. \A i \in k + 1..Len(M) : M[i] = c[i - k + n - 1]
      BY <2>2, <3>1
    <3> QED
      BY <3>2, <3>3
  <2>5. \A i \in k + 1..Len(M) : M[i].level < g.level
    <3> SUFFICES ASSUME NEW i \in k + 1..Len(M) PROVE M[i].level < g.level
      OBVIOUS
    <3>1. PICK x \in 1..Len(c) : M[i] = c[x] /\ k <= x
      BY <2>4
    <3>2. c[x].level <= c[k].level
      BY <1>3, <1>4, <2>1, <3>1
    <3>3. c[x].level \in Nat /\ c[k].level \in Nat
      BY <1>3, <2>1, <3>1
    <3> QED
      BY <1>1, <2>0, <3>1, <3>2, <3>3
  <2>6. \A i, j \in 1..Len(M) : i < j => M[j].level < M[i].level
    <3> SUFFICES ASSUME NEW i \in 1..Len(M), NEW j \in 1..Len(M), i < j PROVE M[j].level < M[i].level
      OBVIOUS
    <3>0. Len(M) \in Nat
      BY <1>1, <2>1, <2>2
    <3>1. CASE j < k
      <4>1. i \in 1..k - 1 /\ j \in 1..k - 1
        BY <2>1, <3>0, <3>1
      <4> QED
        BY <1>4, <2>2, <2>3, <4>1
    <3>2. CASE j = k
      <4>1. i \in 1..k - 1
        BY <2>1, <3>0, <3>2
      <4> QED
        BY <2>2, <2>3, <3>2, <4>1
    <3>3. CASE j > k /\ i < k
      <4>1. i \in 1..k - 1 /\ j \in k + 1..Len(M)
        BY <2>1, <3>0, <3>3
      <4>2. M[j].level < g.level /\ g.level < M[i].level
        BY <2>2, <2>3, <2>5, <4>1
      <4>3. M[j].level \in Nat /\ M[i].level \in Nat
        BY <2>2, <1>2
      <4> QED
        BY <1>1, <4>2, <4>3
    <3>4. CASE j > k /\ i = k
      <4>1. j \in k + 1..Len(M)
        BY <2>1, <3>0, <3>4
      <4> QED
        BY <2>2, <2>5, <3>4, <4>1
    <3>5. CASE j > k /\ i > k
      <4>1. i \in k + 1..Len(M) /\ j \in k + 1..Len(M)
        BY <2>1, <3>0, <3>5
      <4>2. i - k + n - 1 < j - k + n - 1
        BY <2>1, <3>0
      <4> QED
        BY <1>4, <2>4, <4>1, <4>2
    <3> QED
      BY <2>1, <3>0, <3>1, <3>2, <3>3, <3>4, <3>5
  <2>7. \A i \in 1..Len(M) : M[i] = g \/ \E j \in 1..Len(c) : M[i] = c[j]
    <3> SUFFICES ASSUME NEW i \in 1..Len(M) PROVE M[i] = g \/ \E j \in 1..Len(c) : M[i] = c[j]
      OBVIOUS
    <3>1. i \in 1..k - 1 \/ i = k \/ i \in k + 1..Len(M)
      BY <1>1, <2>1, <2>2
    <3> QED
      BY <2>2, <2>3, <2>4, <3>1
  <2>12. Len(M) = Len(c) + k - n + 1
    BY <2>2
  <2>8. k \in 1..Len(M)
    BY <1>1, <2>0, <2>1, <2>12
  <2>9. \E i \in 1..Len(M) : g.level <= M[i].level /\ g.ends <= M[i].ends
    <3>1. g.level <= M[k].level /\ g.ends <= M[k].ends
      BY <1>1, <2>2
    <3> QED
      BY <2>8, <3>1
  <2>10. ASSUME NEW j \in 1..Len(c), NEW h \in Timed, h.level <= c[j].level, h.ends <= c[j].ends
         PROVE  \E i \in 1..Len(M) : h.level <= M[i].level /\ h.ends <= M[i].ends
    <3>1. CASE j < k
      <4>1. j \in 1..k - 1 /\ j \in 1..Len(M)
        BY <1>1, <2>0, <2>1, <2>12, <3>1
      <4> QED
        BY <2>2, <2>10, <4>1
    <3>2. CASE j = k /\ n = k + 1
      <4>1. h.level \in Nat /\ h.ends \in Nat /\ c[k].level \in Nat /\ c[k].ends \in Nat
        BY <1>2, <1>3, <2>1
      <4>2. h.level <= g.level /\ h.ends <= g.ends
        BY <1>1, <2>0, <2>10, <3>2, <4>1
      <4> QED
        BY <2>2, <2>8, <4>2
    <3>3. CASE j >= n
      <4>1. /\ j + k - n + 1 \in k + 1..Len(M) /\ j + k - n + 1 \in 1..Len(M)
            /\ (j + k - n + 1) - k + n - 1 = j
        BY <1>1, <2>0, <2>1, <2>12, <3>3
      <4>2. M[j + k - n + 1] = c[j]
        BY <2>4, <4>1
      <4> QED
        BY <2>10, <4>1, <4>2
    <3> QED
      BY <2>0, <2>1, <3>1, <3>2, <3>3
  <2>11. Chained(M, G \cup {g}, now)
    BY <2>6, <2>7, <2>9, <2>10, ChainedAnew
  <2> QED
    BY <2>2, <2>11
<1>8. CASE k <= Len(c) /\ g.level <= c[k].level /\ g.ends <= c[k].ends /\ M = c
  <2>1. k \in 1..Len(c)
    BY <1>1, <1>8
  <2>2. \E i \in 1..Len(c) : g.level <= c[i].level /\ g.ends <= c[i].ends
    BY <1>8, <2>1
  <2>3. Chained(c, G \cup {g}, now)
    BY <1>4, <2>2, ChainedAnew
  <2> QED
    BY <1>8, <2>3 DEF M
<1>9. CASE k <= Len(c) /\ g.level = c[k].level /\ g.ends > c[k].ends /\ M = [c EXCEPT ![k].ends = g.ends]
  <2>1. k \in 1..Len(c) /\ c[k] \in Timed
    BY <1>1, <1>3, <1>9
  <2>2. [c[k] EXCEPT !.ends = g.ends] = g
    BY <1>9, <2>1 DEF Timed
  <2>3. M = [c EXCEPT ![k] = g]
    BY <1>9, <2>1, <2>2
  <2>4. M \in Seq(Timed) /\ Len(M) = Len(c) /\ \A i \in 1..Len(c) : M[i] = IF i = k THEN g ELSE c[i]
    BY <2>1, <2>3
  <2>5. \A i \in 1..Len(c) : M[i].level = c[i].level
    BY <1>9, <2>1, <2>4
  <2>6. \A i, j \in 1..Len(M) : i < j => M[j].level < M[i].level
    BY <1>4, <2>4, <2>5
  <2>7. \A i \in 1..Len(M) : M[i] = g \/ \E j \in 1..Len(c) : M[i] = c[j]
    BY <2>4
  <2>8. \E i \in 1..Len(M) : g.level <= M[i].level /\ g.ends <= M[i].ends
    BY <1>1, <2>1, <2>4
  <2>9. ASSUME NEW j \in 1..Len(c), NEW h \in Timed, h.level <= c[j].level, h.ends <= c[j].ends
        PROVE  \E i \in 1..Len(M) : h.level <= M[i].level /\ h.ends <= M[i].ends
    <3>1. CASE j = k
      <4>1. h.ends \in Nat /\ c[k].ends \in Nat
        BY <1>2, <2>1
      <4>2. h.level <= g.level /\ h.ends <= g.ends
        BY <1>1, <1>9, <2>9, <3>1, <4>1
      <4> QED
        BY <2>1, <2>4, <4>2
    <3>2. CASE j # k
      BY <2>4, <2>9, <3>2
    <3> QED
      BY <3>1, <3>2
  <2>10. Chained(M, G \cup {g}, now)
    BY <2>6, <2>7, <2>8, <2>9, ChainedAnew
  <2> QED
    BY <2>4, <2>10 DEF M
<1> QED
  BY <1>5, <1>6, <1>7, <1>8, <1>9 DEF M

-----------------------------------------------------------------------------
(* The effects of a player.                                                *)

EffectFits(p, e) ==
    /\ table[p][e] \in Seq(Timed) /\ granted[p][e] \in SUBSET Timed
    /\ Chained(table[p][e], granted[p][e], moment)

\* A step that changes tables and grants chain by chain.
LEMMA ChainByChain ==
    ASSUME EffectInv, moment' = moment,
           table' \in [Drinker -> [EffectKind -> Seq(Timed)]],
           granted' \in [Drinker -> [EffectKind -> SUBSET Timed]],
           \A p \in Drinker, e \in EffectKind : Chained(table'[p][e], granted'[p][e], moment)
    PROVE  EffectInv'
BY DEF EffectInv

LEMMA ChainsStay == ASSUME EffectInv, UNCHANGED <<moment, table, granted>> PROVE EffectInv'
BY DEF EffectInv

\* A chain and its grants, in what EXCEPT makes of them.
LEMMA OneChain ==
    ASSUME NEW T, NEW f \in [Drinker -> [EffectKind -> T]], NEW p, NEW e \in EffectKind, NEW v,
           p \in Drinker => v \in T
    PROVE  /\ [f EXCEPT ![p][e] = v] \in [Drinker -> [EffectKind -> T]]
           /\ \A q \in Drinker, d \in EffectKind :
                [f EXCEPT ![p][e] = v][q][d] = IF q = p /\ d = e THEN v ELSE f[q][d]
OBVIOUS

LEMMA Emptied ==
    ASSUME NEW G, G = {}, NEW now PROVE Chained(<<>>, G, now)
BY DEF Chained

LEMMA GiveKeeps ==
    ASSUME EffectInv, NEW t, NEW p, NEW next,
           NEW gift, gift.kind \in EffectKind, gift.level \in Nat, gift.length \in Nat \ {0},
           GiveEffect(t, p, gift, next)
    PROVE  EffectInv'
<1> DEFINE g == [level |-> gift.level, ends |-> moment + gift.length]
           e == gift.kind
<1>1. /\ moment \in Nat
      /\ table \in [Drinker -> [EffectKind -> Seq(Timed)]]
      /\ granted \in [Drinker -> [EffectKind -> SUBSET Timed]]
  BY DEF EffectInv
<1>2. g \in Timed /\ moment < g.ends
  BY <1>1 DEF Timed
<1>3. /\ table' = [table EXCEPT ![p][e] = Applied(p, gift)]
      /\ granted' = [granted EXCEPT ![p][e] = granted[p][e] \cup {g}]
      /\ moment' = moment
  BY DEF GiveEffect
<1>4. Applied(p, gift) = Merge(LiveChain(table[p][e]), g)
  BY DEF Applied
<1>0. e \in EffectKind
  OBVIOUS
<1> HIDE DEF g, e
<1>5. ASSUME p \in Drinker
      PROVE  /\ Applied(p, gift) \in Seq(Timed) /\ granted[p][e] \cup {g} \in SUBSET Timed
             /\ Chained(Applied(p, gift), granted[p][e] \cup {g}, moment)
  <2>1. table[p][e] \in Seq(Timed) /\ granted[p][e] \in SUBSET Timed
    BY <1>0, <1>1, <1>5
  <2>2. Chained(table[p][e], granted[p][e], moment)
    BY <1>0, <1>5 DEF EffectInv
  <2>3. /\ LiveChain(table[p][e]) \in Seq(Timed)
        /\ Chained(LiveChain(table[p][e]), granted[p][e], moment)
    BY <1>1, <2>1, <2>2, LiveKeeps
  <2>4. /\ Merge(LiveChain(table[p][e]), g) \in Seq(Timed)
        /\ Chained(Merge(LiveChain(table[p][e]), g), granted[p][e] \cup {g}, moment)
    BY <1>1, <1>2, <2>1, <2>3, MergeKeeps
  <2> QED
    BY <1>2, <1>4, <2>1, <2>4
<1>6. /\ table' \in [Drinker -> [EffectKind -> Seq(Timed)]]
      /\ \A q \in Drinker, d \in EffectKind :
           table'[q][d] = IF q = p /\ d = e THEN Applied(p, gift) ELSE table[q][d]
  <2>1. p \in Drinker => Applied(p, gift) \in Seq(Timed)
    BY <1>5
  <2> DEFINE v == Applied(p, gift)
  <2> HIDE DEF v
  <2>2. p \in Drinker => v \in Seq(Timed)
    BY <2>1 DEF v
  <2>3. table' = [table EXCEPT ![p][e] = v]
    BY <1>3 DEF v
  <2>4. /\ [table EXCEPT ![p][e] = v] \in [Drinker -> [EffectKind -> Seq(Timed)]]
        /\ \A q \in Drinker, d \in EffectKind :
             [table EXCEPT ![p][e] = v][q][d] = IF q = p /\ d = e THEN v ELSE table[q][d]
    BY <1>0, <1>1, <2>2
  <2> QED
    BY <2>3, <2>4 DEF v
<1>7. /\ granted' \in [Drinker -> [EffectKind -> SUBSET Timed]]
      /\ \A q \in Drinker, d \in EffectKind :
           granted'[q][d] = IF q = p /\ d = e THEN granted[p][e] \cup {g} ELSE granted[q][d]
  <2> DEFINE v == granted[p][e] \cup {g}
  <2> HIDE DEF v
  <2>2. p \in Drinker => v \in SUBSET Timed
    BY <1>5 DEF v
  <2>3. granted' = [granted EXCEPT ![p][e] = v]
    BY <1>3 DEF v
  <2>4. /\ [granted EXCEPT ![p][e] = v] \in [Drinker -> [EffectKind -> SUBSET Timed]]
        /\ \A q \in Drinker, d \in EffectKind :
             [granted EXCEPT ![p][e] = v][q][d] = IF q = p /\ d = e THEN v ELSE granted[q][d]
    BY <1>0, <1>1, <2>2
  <2> QED
    BY <2>3, <2>4 DEF v
<1>8. ASSUME NEW q \in Drinker, NEW d \in EffectKind
      PROVE  Chained(table'[q][d], granted'[q][d], moment)
  <2>1. CASE q = p /\ d = e
    BY <1>5, <1>6, <1>7, <2>1
  <2>2. CASE ~(q = p /\ d = e)
    <3>1. table'[q][d] = table[q][d] /\ granted'[q][d] = granted[q][d]
      BY <1>6, <1>7, <2>2
    <3>2. Chained(table[q][d], granted[q][d], moment)
      BY DEF EffectInv
    <3> QED
      BY <3>1, <3>2
  <2> QED
    BY <2>1, <2>2
<1> QED
  BY <1>3, <1>6, <1>7, <1>8, ChainByChain

LEMMA ClearKeeps == ASSUME EffectInv, NEW t, NEW p, ClearEffects(t, p) PROVE EffectInv'
<1> DEFINE none == [e \in EffectKind |-> <<>>]
           nothing == [e \in EffectKind |-> {}]
<1>1. /\ table \in [Drinker -> [EffectKind -> Seq(Timed)]]
      /\ granted \in [Drinker -> [EffectKind -> SUBSET Timed]]
  BY DEF EffectInv
<1>2. /\ table' = [table EXCEPT ![p] = none] /\ granted' = [granted EXCEPT ![p] = nothing]
      /\ moment' = moment
  BY DEF ClearEffects
<1>3. /\ none \in [EffectKind -> Seq(Timed)] /\ \A e \in EffectKind : none[e] = <<>>
      /\ nothing \in [EffectKind -> SUBSET Timed] /\ \A e \in EffectKind : nothing[e] = {}
  OBVIOUS
<1> HIDE DEF none, nothing
<1>4. /\ table' \in [Drinker -> [EffectKind -> Seq(Timed)]]
      /\ granted' \in [Drinker -> [EffectKind -> SUBSET Timed]]
      /\ \A q \in Drinker : table'[q] = (IF q = p THEN none ELSE table[q])
      /\ \A q \in Drinker : granted'[q] = (IF q = p THEN nothing ELSE granted[q])
  BY <1>1, <1>2, <1>3
<1>5. ASSUME NEW q \in Drinker, NEW d \in EffectKind
      PROVE  Chained(table'[q][d], granted'[q][d], moment)
  <2>1. CASE q = p
    BY <1>3, <1>4, <2>1, Emptied
  <2>2. CASE q # p
    <3>1. table'[q][d] = table[q][d] /\ granted'[q][d] = granted[q][d]
      BY <1>4, <2>2
    <3>2. Chained(table[q][d], granted[q][d], moment)
      BY DEF EffectInv
    <3> QED
      BY <3>1, <3>2
  <2> QED
    BY <2>1, <2>2
<1> QED
  BY <1>2, <1>4, <1>5, ChainByChain

LEMMA RemoveKeeps ==
    ASSUME EffectInv, NEW p \in Drinker, NEW e \in EffectKind, RemoveEffect(p, e) PROVE EffectInv'
<1>1. /\ table \in [Drinker -> [EffectKind -> Seq(Timed)]]
      /\ granted \in [Drinker -> [EffectKind -> SUBSET Timed]]
  BY DEF EffectInv
<1>2. /\ table' = [table EXCEPT ![p][e] = <<>>] /\ granted' = [granted EXCEPT ![p][e] = {}]
      /\ moment' = moment
  BY DEF RemoveEffect
<1>3. <<>> \in Seq(Timed) /\ {} \in SUBSET Timed
  OBVIOUS
<1>4. /\ table' \in [Drinker -> [EffectKind -> Seq(Timed)]]
      /\ \A q \in Drinker, d \in EffectKind :
           table'[q][d] = IF q = p /\ d = e THEN <<>> ELSE table[q][d]
  BY <1>1, <1>2, <1>3, OneChain
<1>5. /\ granted' \in [Drinker -> [EffectKind -> SUBSET Timed]]
      /\ \A q \in Drinker, d \in EffectKind :
           granted'[q][d] = IF q = p /\ d = e THEN {} ELSE granted[q][d]
  BY <1>1, <1>2, <1>3, OneChain
<1>6. ASSUME NEW q \in Drinker, NEW d \in EffectKind
      PROVE  Chained(table'[q][d], granted'[q][d], moment)
  <2>1. CASE q = p /\ d = e
    BY <1>4, <1>5, <2>1, Emptied
  <2>2. CASE ~(q = p /\ d = e)
    <3>1. table'[q][d] = table[q][d] /\ granted'[q][d] = granted[q][d]
      BY <1>4, <1>5, <2>2
    <3>2. Chained(table[q][d], granted[q][d], moment)
      BY DEF EffectInv
    <3> QED
      BY <3>1, <3>2
  <2> QED
    BY <2>1, <2>2
<1> QED
  BY <1>2, <1>4, <1>5, <1>6, ChainByChain

LEMMA SweepKeeps == ASSUME EffectInv, Sweep PROVE EffectInv'
<1>1. /\ moment \in Nat /\ table \in [Drinker -> [EffectKind -> Seq(Timed)]]
      /\ granted \in [Drinker -> [EffectKind -> SUBSET Timed]]
  BY DEF EffectInv
<1>2. /\ table' = [p \in Drinker |-> [e \in EffectKind |-> LiveChain(table[p][e])]]
      /\ granted' = granted /\ moment' = moment
  BY DEF Sweep
<1>3. ASSUME NEW p \in Drinker, NEW e \in EffectKind
      PROVE  LiveChain(table[p][e]) \in Seq(Timed) /\ Chained(LiveChain(table[p][e]), granted[p][e], moment)
  <2>1. table[p][e] \in Seq(Timed) /\ granted[p][e] \in SUBSET Timed
    BY <1>1
  <2>2. Chained(table[p][e], granted[p][e], moment)
    BY DEF EffectInv
  <2> QED
    BY <1>1, <2>1, <2>2, LiveKeeps
<1>4. /\ table' \in [Drinker -> [EffectKind -> Seq(Timed)]]
      /\ \A p \in Drinker, e \in EffectKind : table'[p][e] = LiveChain(table[p][e])
  BY <1>2, <1>3
<1>5. \A p \in Drinker, e \in EffectKind : Chained(table'[p][e], granted'[p][e], moment)
  BY <1>2, <1>3, <1>4
<1> QED
  BY <1>1, <1>2, <1>4, <1>5, ChainByChain

LEMMA MomentKeeps == ASSUME EffectInv, Moment PROVE EffectInv'
<1>1. /\ moment \in Nat /\ table \in [Drinker -> [EffectKind -> Seq(Timed)]]
      /\ granted \in [Drinker -> [EffectKind -> SUBSET Timed]]
  BY DEF EffectInv
<1>2. moment' = moment + 1 /\ table' = table
  BY DEF Moment
<1>3. granted' = [p \in Drinker |-> [e \in EffectKind |-> {g \in granted[p][e] : moment' < g.ends}]]
  BY DEF Moment
<1>4. granted' \in [Drinker -> [EffectKind -> SUBSET Timed]]
  BY <1>1, <1>3
<1>5. ASSUME NEW p \in Drinker, NEW e \in EffectKind
      PROVE  Chained(table'[p][e], granted'[p][e], moment')
  <2> DEFINE c == table[p][e]
             G == granted[p][e]
             H == {g \in G : moment' < g.ends}
  <2>1. c \in Seq(Timed) /\ Chained(c, G, moment)
    BY <1>1 DEF EffectInv
  <2>2. table'[p][e] = c /\ granted'[p][e] = H
    BY <1>2, <1>3
  <2>3. \A i \in 1..Len(c) : c[i].ends \in Nat
    <3>1. \A t \in Timed : t.ends \in Nat
      BY DEF Timed
    <3>2. \A i \in 1..Len(c) : c[i] \in Timed
      BY <2>1
    <3> QED
      BY <3>1, <3>2
  <2>4. \A i \in 1..Len(c) : moment' < c[i].ends => moment < c[i].ends
    BY <1>1, <1>2, <2>3
  <2> HIDE DEF c, G
  <2>5. Chained(c, H, moment')
    BY <2>1, <2>4 DEF Chained
  <2> QED
    BY <2>2, <2>5
<1> QED
  BY <1>1, <1>2, <1>4, <1>5 DEF EffectInv

LEMMA EffectSteps == ASSUME EffectInv, [EffectNext]_effectVars PROVE EffectInv'
<1>1. CASE UNCHANGED effectVars
  BY <1>1, ChainsStay DEF effectVars
<1>2. ASSUME NEW p \in Drinker, Gift(p) PROVE EffectInv'
  <2>1. PICK gift \in Gifts : GiveEffect(p, p, gift, "idle")
    BY <1>2 DEF Gift
  <2>2. gift.kind \in EffectKind /\ gift.level \in Nat /\ gift.length \in Nat \ {0}
    BY EffectAssumption DEF EffectKind
  <2> QED
    BY <2>1, <2>2, GiveKeeps
<1>3. ASSUME NEW p \in Drinker, StartUse(p) \/ ReleaseUse(p) \/ LoseApple(p) \/ EatLook(p) PROVE EffectInv'
  BY <1>3, ChainsStay DEF StartUse, ReleaseUse, LoseApple, EatLook
<1>4. ASSUME NEW t \in Doer, GildLook(t) \/ Gild(t) \/ DrainPool(t) PROVE EffectInv'
  BY <1>4, ChainsStay DEF GildLook, Gild, DrainPool
<1>5. CASE EatHeals
  <2> DEFINE gift == [kind |-> "regeneration", level |-> 2, length |-> 1]
  <2>1. GiveEffect(TickHand, busy[TickHand].on, gift, "eaten")
    BY <1>5 DEF EatHeals
  <2>2. gift.kind \in EffectKind /\ gift.level \in Nat /\ gift.length \in Nat \ {0}
    BY DEF EffectKind
  <2> QED
    BY <2>1, <2>2, GiveKeeps
<1>6. CASE EatGilds
  <2> DEFINE gift == [kind |-> "absorption", level |-> 1, length |-> 2]
  <2>1. GiveEffect(TickHand, busy[TickHand].on, gift, "spend")
    BY <1>6 DEF EatGilds
  <2>2. gift.kind \in EffectKind /\ gift.level \in Nat /\ gift.length \in Nat \ {0}
    BY DEF EffectKind
  <2> QED
    BY <2>1, <2>2, GiveKeeps
<1>7. CASE Spend
  BY <1>7, ChainsStay DEF Spend
<1> QED
  BY <1>1, <1>2, <1>3, <1>4, <1>5, <1>6, <1>7, ClearKeeps, RemoveKeeps, SweepKeeps, MomentKeeps DEF EffectNext

LEMMA EffectInits == ASSUME EffectInit PROVE EffectInv
<1>1. moment = 0 /\ table = [p \in Drinker |-> [e \in EffectKind |-> <<>>]]
      /\ granted = [p \in Drinker |-> [e \in EffectKind |-> {}]]
  BY DEF EffectInit
<1>2. /\ table \in [Drinker -> [EffectKind -> Seq(Timed)]]
      /\ granted \in [Drinker -> [EffectKind -> SUBSET Timed]]
      /\ \A p \in Drinker, e \in EffectKind : table[p][e] = <<>> /\ granted[p][e] = {}
  BY <1>1
<1>3. \A p \in Drinker, e \in EffectKind : Chained(table[p][e], granted[p][e], moment)
  BY <1>2, Emptied
<1> QED
  BY <1>1, <1>2, <1>3 DEF EffectInv

LEMMA StrongestIsFirst == ASSUME EffectInv PROVE StrongestInForce
<1> SUFFICES ASSUME NEW p \in Drinker, NEW e \in EffectKind
             PROVE  LevelOf(p, e) = Max({0} \cup {g.level : g \in granted[p][e]})
  BY DEF StrongestInForce
<1> DEFINE c == table[p][e]
           G == granted[p][e]
           levels == {0} \cup {g.level : g \in G}
<1>1. moment \in Nat /\ c \in Seq(Timed) /\ G \in SUBSET Timed /\ Chained(c, G, moment)
  BY DEF EffectInv
<1>2. LevelOf(p, e) = IF LiveChain(c) = <<>> THEN 0 ELSE LiveChain(c)[1].level
  BY DEF LevelOf
<1> HIDE DEF c, G
<1>3. \A t \in Timed : t.level \in Nat /\ t.ends \in Nat
  BY DEF Timed
<1>4. \A g \in G : g.level \in Nat /\ g.ends \in Nat
  BY <1>1, <1>3
<1>5. levels \in SUBSET Int
  BY <1>4
<1>6. ASSUME NEW n \in levels, \A x \in levels : x <= n PROVE Max(levels) = n
  BY <1>5, <1>6, MaxIs
<1>7. ASSUME (\A i \in 1..Len(c) : c[i].ends <= moment) /\ LiveChain(c) = <<>>
      PROVE  LevelOf(p, e) = Max(levels)
  <2>1. \A i \in 1..Len(c) : c[i].ends \in Nat
    <3>1. \A i \in 1..Len(c) : c[i] \in Timed
      BY <1>1
    <3> QED
      BY <1>3, <3>1
  <2>2. \A g \in G : FALSE
    BY <1>1, <1>4, <1>7, <2>1 DEF Chained
  <2>3. levels = {0}
    BY <2>2
  <2>4. 0 \in levels /\ \A x \in levels : x <= 0
    BY <2>3
  <2>5. Max(levels) = 0
    BY <1>6, <2>4
  <2> QED
    BY <1>2, <1>7, <2>5
<1>8. ASSUME NEW m \in 1..Len(c), \A i \in 1..Len(c) : i < m => c[i].ends <= moment,
             moment < c[m].ends, Len(LiveChain(c)) = Len(c) - m + 1,
             \A i \in 1..Len(c) - m + 1 : LiveChain(c)[i] = c[i + m - 1],
             LiveChain(c) \in Seq(Timed)
      PROVE  LevelOf(p, e) = Max(levels)
  <2>0. Len(c) \in Nat /\ m \in Nat
    BY <1>1
  <2>1. Len(LiveChain(c)) # 0 /\ 1 \in 1..Len(c) - m + 1 /\ 1 + m - 1 = m
    BY <1>8, <2>0
  <2>2. LevelOf(p, e) = c[m].level
    BY <1>2, <1>8, <2>1
  <2>3. c[m] \in G
    BY <1>1, <1>8 DEF Chained
  <2>4. c[m].level \in levels
    BY <2>3
  <2>5. \A i \in 1..Len(c) : c[i] \in Timed /\ c[i].ends \in Nat /\ c[i].level \in Nat
    <3>1. \A i \in 1..Len(c) : c[i] \in Timed
      BY <1>1
    <3> QED
      BY <1>3, <3>1
  <2>6. ASSUME NEW g \in G PROVE g.level <= c[m].level
    <3>1. moment < g.ends
      BY <1>1 DEF Chained
    <3>2. PICK i \in 1..Len(c) : g.level <= c[i].level /\ g.ends <= c[i].ends
      BY <1>1 DEF Chained
    <3>3. ~(i < m)
      BY <1>1, <1>4, <1>8, <2>5, <3>1, <3>2
    <3>4. c[i].level <= c[m].level
      <4>1. i = m \/ m < i
        BY <2>0, <3>3
      <4>2. m < i => c[i].level < c[m].level
        BY <1>1 DEF Chained
      <4> QED
        BY <2>5, <4>1, <4>2
    <3> QED
      BY <1>4, <2>5, <3>2, <3>4
  <2>7. \A x \in levels : x <= c[m].level
    BY <2>5, <2>6
  <2> QED
    BY <1>6, <2>2, <2>4, <2>7
<1> QED
  BY <1>1, <1>7, <1>8, LiveIs DEF G

\* The effect in force is the strongest of those granted and not yet run out, for any
\* grants with any levels and lengths: a chain's levels fall, so its first live entry is
\* the strongest, and every grant is covered by an entry no weaker and no shorter.
THEOREM StrongestEffectsRule == EffectSpec => []StrongestInForce
<1>1. EffectInit => EffectInv
  BY EffectInits
<1>2. EffectInv /\ [EffectNext]_effectVars => EffectInv'
  BY EffectSteps
<1>3. EffectInv => StrongestInForce
  BY StrongestIsFirst
<1> QED
  BY <1>1, <1>2, <1>3, PTL DEF EffectSpec

-----------------------------------------------------------------------------
(* What the ladder's log says of bans.                                     *)

LogEntry == [by : Visit \cup {"earlier", "reset", "admin"}, after : Int, bans : BOOLEAN]

LadderTypes ==
    /\ log \in Seq(LogEntry) \ {<<>>} /\ logFile \in Seq(LogEntry) \ {<<>>} /\ banned \in BOOLEAN
    /\ punisher \in [Visit -> [at : {"idle", "status", "ban", "record", "kick", "done"}, before : Int]]

\* The ban is in the list before the log tells of it, and the file knows no more than
\* the memory does.
LadderInv ==
    /\ LadderTypes /\ LoggedBansBind
    /\ \A i \in 1..Len(logFile) : \E j \in 1..Len(log) : log[j] = logFile[i]
    /\ \A v \in Visit \ excused : punisher[v].at = "record" /\ StepBans(punisher[v].before) => banned

LEMMA EscalateInt == ASSUME NEW s \in Int PROVE Escalate(s) \in Int
BY DEF Escalate, StatusMax, Min

\* One step of the goroutine that punishes.
LEMMA PunishesOn ==
    ASSUME LadderTypes, NEW v \in Visit,
           NEW to \in {"idle", "status", "ban", "record", "kick", "done"},
           punisher' = [punisher EXCEPT ![v].at = to]
    PROVE  /\ punisher' \in [Visit -> [at : {"idle", "status", "ban", "record", "kick", "done"}, before : Int]]
           /\ punisher'[v].at = to /\ punisher'[v].before = punisher[v].before
           /\ \A u \in Visit \ {v} : punisher'[u] = punisher[u]
<1>1. punisher' = [punisher EXCEPT ![v] = [punisher[v] EXCEPT !.at = to]]
  OBVIOUS
<1>2. [punisher[v] EXCEPT !.at = to] \in [at : {"idle", "status", "ban", "record", "kick", "done"}, before : Int]
  BY DEF LadderTypes
<1>3. [punisher[v] EXCEPT !.at = to].at = to /\ [punisher[v] EXCEPT !.at = to].before = punisher[v].before
  BY DEF LadderTypes
<1> QED
  BY <1>1, <1>2, <1>3 DEF LadderTypes

\* The log grows by an entry whose ban, if it tells of one, binds.
LEMMA Logged ==
    ASSUME LadderInv, NEW rec \in LogEntry, Record(rec), rec.bans /\ rec.by \in Visit \ excused => banned',
           banned => banned', banned' \in BOOLEAN, excused' = excused,
           punisher' \in [Visit -> [at : {"idle", "status", "ban", "record", "kick", "done"}, before : Int]],
           \A v \in Visit : punisher'[v].at = "record" => punisher'[v] = punisher[v]
    PROVE  LadderInv'
<1>1. /\ log \in Seq(LogEntry) /\ log' = Append(log, rec) /\ logFile' \in {log', logFile}
      /\ logFile \in Seq(LogEntry)
  BY DEF LadderInv, LadderTypes, Record
<1>2. /\ log' \in Seq(LogEntry) /\ Len(log) \in Nat /\ Len(log') = Len(log) + 1 /\ log'[Len(log) + 1] = rec
      /\ \A i \in 1..Len(log) : log'[i] = log[i]
  BY <1>1, OneOn
<1>3. \A i \in 1..Len(log') : i \in 1..Len(log) \/ i = Len(log) + 1
  BY <1>2
<1>4. log' # <<>>
  BY <1>2
<1>5. LadderTypes'
  BY <1>1, <1>2, <1>4 DEF LadderInv, LadderTypes
<1>6. LoggedBansBind'
  <2>1. DOMAIN log = 1..Len(log) /\ DOMAIN log' = 1..Len(log')
    BY <1>1, <1>2
  <2> QED
    BY <1>2, <1>3, <2>1 DEF LadderInv, LoggedBansBind
<1>7. \A i \in 1..Len(logFile') : \E j \in 1..Len(log') : log'[j] = logFile'[i]
  <2>1. CASE logFile' = log'
    BY <2>1
  <2>2. CASE logFile' = logFile
    <3>1. \A j \in 1..Len(log) : j \in 1..Len(log') /\ log'[j] = log[j]
      BY <1>2
    <3> QED
      BY <2>2, <3>1 DEF LadderInv
  <2> QED
    BY <1>1, <2>1, <2>2
<1> QED
  BY <1>5, <1>6, <1>7 DEF LadderInv

\* A step that leaves the log, the ban and the excuses alone.
LEMMA LadderStays ==
    ASSUME LadderInv, UNCHANGED <<log, logFile, banned, excused>>,
           punisher' \in [Visit -> [at : {"idle", "status", "ban", "record", "kick", "done"}, before : Int]],
           \A v \in Visit : punisher'[v].at = "record" => punisher'[v] = punisher[v] \/ ~StepBans(punisher'[v].before)
    PROVE  LadderInv'
<1>1. LadderTypes' /\ LoggedBansBind'
  BY DEF LadderInv, LadderTypes, LoggedBansBind
<1> QED
  BY <1>1 DEF LadderInv

LEMMA ReadKeeps == ASSUME LadderInv, NEW v \in Visit, ReadStatus(v) PROVE LadderInv'
<1>1. LadderTypes
  BY DEF LadderInv
<1>2. StatusOf(log) \in Int
  <2>1. Len(log) \in 1..Len(log)
    <3>1. log \in Seq(LogEntry) /\ log # <<>>
      BY <1>1 DEF LadderTypes
    <3> QED
      BY <3>1
  <2> QED
    <3>1. log[Len(log)] \in LogEntry
      BY <1>1, <2>1 DEF LadderTypes
    <3> QED
      BY <3>1 DEF LogEntry, StatusOf
<1> DEFINE task == [at |-> AfterStatus(StatusOf(log)), before |-> StatusOf(log)]
<1>3. task \in [at : {"idle", "status", "ban", "record", "kick", "done"}, before : Int]
  BY <1>2 DEF AfterStatus
<1>4. task.at = "record" => ~StepBans(task.before)
  BY DEF AfterStatus
<1>5. punisher' = [punisher EXCEPT ![v] = task] /\ UNCHANGED <<log, logFile, banned, excused>>
  BY DEF ReadStatus
<1> HIDE DEF task
<1> QED
  BY <1>1, <1>3, <1>4, <1>5, LadderStays DEF LadderTypes

LEMMA AddBanKeeps == ASSUME LadderInv, NEW v \in Visit, AddBan(v) PROVE LadderInv'
<1>1. LadderTypes /\ punisher' = [punisher EXCEPT ![v].at = "record"] /\ UNCHANGED <<log, logFile>>
  BY DEF LadderInv, AddBan, PunishStep
<1>2. /\ punisher' \in [Visit -> [at : {"idle", "status", "ban", "record", "kick", "done"}, before : Int]]
      /\ \A u \in Visit \ {v} : punisher'[u] = punisher[u]
  BY <1>1, PunishesOn
<1>3. (banned' = TRUE /\ excused' = excused) \/ (excused' = excused \union {v} /\ banned' = banned)
  BY DEF AddBan
<1>4. LadderTypes'
  BY <1>1, <1>2, <1>3 DEF LadderTypes
<1>5. LoggedBansBind'
  BY <1>1, <1>3 DEF LadderInv, LoggedBansBind
<1> QED
  BY <1>1, <1>2, <1>3, <1>4, <1>5 DEF LadderInv

LEMMA WriteKeeps == ASSUME LadderInv, NEW v \in Visit, WriteRecord(v) PROVE LadderInv'
<1>1. LadderTypes /\ punisher[v].at = "record" /\ punisher' = [punisher EXCEPT ![v].at = "kick"]
  BY DEF LadderInv, WriteRecord, PunishStep
<1>2. /\ punisher' \in [Visit -> [at : {"idle", "status", "ban", "record", "kick", "done"}, before : Int]]
      /\ punisher'[v].at = "kick" /\ \A u \in Visit \ {v} : punisher'[u] = punisher[u]
  BY <1>1, PunishesOn
<1> DEFINE rec == [by |-> v, after |-> Escalate(punisher[v].before), bans |-> StepBans(punisher[v].before)]
<1>3. rec \in LogEntry
  <2>1. punisher[v].before \in Int
    BY <1>1 DEF LadderTypes
  <2>2. Escalate(punisher[v].before) \in Int
    BY <2>1, EscalateInt
  <2>3. StepBans(punisher[v].before) \in BOOLEAN
    BY DEF StepBans
  <2> QED
    BY <2>2, <2>3 DEF LogEntry
<1>4. rec.bans /\ rec.by \in Visit \ excused => banned
  BY <1>1 DEF LadderInv
<1>5. Record(rec) /\ banned' = banned /\ excused' = excused
  BY DEF WriteRecord
<1> HIDE DEF rec
<1> QED
  BY <1>1, <1>2, <1>3, <1>4, <1>5, Logged DEF LadderTypes

LEMMA ResetKeeps == ASSUME LadderInv, ResetRecord PROVE LadderInv'
<1> DEFINE rec == [by |-> "reset", after |-> Clean, bans |-> FALSE]
<1>1. rec \in LogEntry /\ ~rec.bans
  BY DEF LogEntry, Clean
<1>2. Record(rec) /\ UNCHANGED <<punisher, banned, excused>>
  BY DEF ResetRecord
<1> HIDE DEF rec
<1> QED
  BY <1>1, <1>2, Logged DEF LadderInv, LadderTypes

LEMMA ManualKeeps == ASSUME LadderInv, ManualBan PROVE LadderInv'
<1>1. banned' = TRUE /\ UNCHANGED <<punisher, excused>>
  BY DEF ManualBan
<1>2. CASE StatusOf(log) = StatusMax
  <2> DEFINE rec == [by |-> "admin", after |-> StatusMax, bans |-> TRUE]
  <2>1. rec \in LogEntry
    BY DEF LogEntry, StatusMax
  <2>2. Record(rec)
    BY <1>2 DEF ManualBan
  <2> HIDE DEF rec
  <2> QED
    BY <1>1, <2>1, <2>2, Logged DEF LadderInv, LadderTypes
<1>3. CASE StatusOf(log) # StatusMax
  <2>1. UNCHANGED <<log, logFile>>
    BY <1>3 DEF ManualBan
  <2> QED
    BY <1>1, <2>1 DEF LadderInv, LadderTypes, LoggedBansBind
<1> QED
  BY <1>2, <1>3

LEMMA LiftKeeps == ASSUME LadderInv, LiftBan PROVE LadderInv'
<1>1. /\ banned' = FALSE /\ UNCHANGED <<punisher, log, logFile>>
      /\ \A v \in Visit \ excused' : /\ v \in Visit \ excused /\ punisher[v].at # "record"
                                     /\ \A i \in DOMAIN log : log[i].by # v
  BY DEF LiftBan
<1>2. LadderTypes'
  BY <1>1 DEF LadderInv, LadderTypes
<1>3. LoggedBansBind'
  BY <1>1 DEF LoggedBansBind
<1> QED
  BY <1>1, <1>2, <1>3 DEF LadderInv

LEMMA LadderCrashKeeps == ASSUME LadderInv, LadderCrash PROVE LadderInv'
<1>1. /\ punisher' = [v \in Visit |-> NotPunishing] /\ log' = logFile
      /\ UNCHANGED <<logFile, banned, excused>>
  BY DEF LadderCrash
<1>2. \A v \in Visit : punisher'[v].at = "idle"
  BY <1>1 DEF NotPunishing
<1>3. LadderTypes'
  BY <1>1 DEF LadderInv, LadderTypes, NotPunishing, Clean
<1>4. LoggedBansBind'
  <2>1. DOMAIN log = 1..Len(log) /\ DOMAIN log' = 1..Len(logFile)
    BY <1>1 DEF LadderInv, LadderTypes
  <2> QED
    BY <1>1, <2>1 DEF LadderInv, LoggedBansBind
<1> QED
  BY <1>1, <1>2, <1>3, <1>4 DEF LadderInv

LEMMA LadderInits == ASSUME LadderInit PROVE LadderInv
<1>1. PICK s \in Clean..StatusMax : log = <<[by |-> "earlier", after |-> s, bans |-> FALSE]>>
  BY DEF LadderInit
<1>2. [by |-> "earlier", after |-> s, bans |-> FALSE] \in LogEntry
  BY DEF LogEntry, Clean, StatusMax
<1>3. log \in Seq(LogEntry) \ {<<>>} /\ logFile = log /\ DOMAIN log = {1} /\ ~log[1].bans
  <2> DEFINE rec == [by |-> "earlier", after |-> s, bans |-> FALSE]
  <2>1. rec \in LogEntry /\ ~rec.bans /\ log = <<rec>> /\ logFile = log
    BY <1>1, <1>2 DEF LadderInit
  <2> HIDE DEF rec
  <2> QED
    BY <2>1
<1>4. punisher \in [Visit -> [at : {"idle", "status", "ban", "record", "kick", "done"}, before : Int]]
      /\ \A v \in Visit : punisher[v].at = "idle"
  BY DEF LadderInit, NotPunishing, Clean
<1>5. banned = FALSE
  BY DEF LadderInit
<1>6. LadderTypes
  BY <1>3, <1>4, <1>5 DEF LadderTypes
<1>7. LoggedBansBind
  BY <1>3 DEF LoggedBansBind
<1> QED
  BY <1>3, <1>4, <1>6, <1>7 DEF LadderInv

LEMMA LadderSteps == ASSUME LadderInv, [LadderNext]_ladderVars PROVE LadderInv'
<1>1. CASE UNCHANGED ladderVars
  BY <1>1 DEF ladderVars, LadderInv, LadderTypes, LoggedBansBind
<1>2. ASSUME NEW v \in Visit, AdmitLogin(v) \/ AdmitAnyway(v) \/ ComeIn(v) \/ GoAway(v) PROVE LadderInv'
  BY <1>2 DEF AdmitLogin, AdmitAnyway, ComeIn, GoAway, LadderInv, LadderTypes, LoggedBansBind
<1>3. ASSUME NEW v \in Visit, NEW to \in {"status", "kick", "done"},
             punisher' = [punisher EXCEPT ![v].at = to], UNCHANGED <<log, logFile, banned, excused>>
      PROVE  LadderInv'
  <2>1. /\ punisher' \in [Visit -> [at : {"idle", "status", "ban", "record", "kick", "done"}, before : Int]]
        /\ punisher'[v].at = to /\ \A u \in Visit \ {v} : punisher'[u] = punisher[u]
    BY <1>3, PunishesOn DEF LadderInv
  <2> QED
    BY <1>3, <2>1, LadderStays
<1>4. ASSUME NEW v \in Visit, Detect(v) PROVE LadderInv'
  BY <1>3, <1>4 DEF Detect
<1>5. ASSUME NEW v \in Visit, NoStatus(v) \/ KickDetected(v) PROVE LadderInv'
  BY <1>3, <1>5 DEF NoStatus, KickDetected, PunishStep
<1>6. CASE ResetStatus
  BY <1>6 DEF ResetStatus, LadderInv, LadderTypes, LoggedBansBind
<1> QED
  BY <1>1, <1>2, <1>4, <1>5, <1>6, ReadKeeps, AddBanKeeps, WriteKeeps, ResetKeeps, ManualKeeps, LiftKeeps,
     LadderCrashKeeps DEF LadderNext

\* punish adds the ban before it writes the record of it: a ban the log tells of is in
\* the ban list until it runs out or is lifted, through crashes between the two, records
\* that never reached the file, and any order of the player's sessions.
THEOREM LoggedBansHold == LadderSpec => []LoggedBansBind
<1>1. LadderInv => LoggedBansBind
  BY DEF LadderInv
<1> QED
  BY <1>1, LadderInits, LadderSteps, PTL DEF LadderSpec

-----------------------------------------------------------------------------
(* What a bot has dug.                                                     *)

JobPlaces == Sides \cup {"bed"}

HandKit == [tool : 0..2, tnt : Int, blocks : Int]
Stances == [at : Sides \cup {"away"}, up : Int, air : BOOLEAN, towering : BOOLEAN]

BotDigTypes ==
  /\ hull \in [Sides -> {"open", "soft", "hard", "rock", "map"}]
  /\ hands \in HandKit
  /\ stand \in Stances
  /\ job \in [pos : JobPlaces \cup {"none"}, left : Nat, age : 1..2]
  /\ work \in [need : Nat, did : Nat]

\* A job that is carried on has been worked on for what it no longer needs.
EarnestInv ==
  /\ BotDigTypes /\ DugInEarnest
  /\ job.age <= 1 => work.need <= work.did + job.left

LEMMA DownIs == \A n \in Nat : Down(n) \in Nat /\ (n # 0 => Down(n) = n - 1)
BY DEF Down

LEMMA LeaveIs ==
  ASSUME BotDigTypes, Leave
  PROVE  job' \in [pos : JobPlaces \cup {"none"}, left : Nat, age : 1..2] /\ job'.age = 2
<1>1. job \in [pos : JobPlaces \cup {"none"}, left : Nat, age : 1..2] /\ Down(job.left) \in Nat
  BY DownIs DEF BotDigTypes
<1>2. (IF job.age > 1 THEN 2 ELSE job.age + 1) = 2
  BY <1>1
<1>3. job' = [job EXCEPT !.left = Down(job.left), !.age = 2]
  BY <1>2 DEF Leave
<1>4. job'.pos = job.pos /\ job'.left = Down(job.left) /\ job'.age = 2
  BY <1>1, <1>3
<1>5. job' = [pos |-> job.pos, left |-> Down(job.left), age |-> 2]
  BY <1>1, <1>3
<1> QED
  BY <1>1, <1>5

\* The ticks a block there takes.
LEMMA TicksForIs ==
  ASSUME BotDigTypes, NEW p \in JobPlaces
  PROVE  TicksFor(p) \in Nat
<1>1. KindAt(p) \in {"open", "soft", "hard", "rock", "map"} /\ hands.tool \in 0..2
  BY DEF KindAt, BotDigTypes, JobPlaces, HandKit
<1> QED
  BY <1>1, BotDigAssumption DEF TicksFor

LEMMA DigOnKeeps ==
  ASSUME EarnestInv, NEW p \in JobPlaces, NEW m, DigOn(p, m), UNCHANGED <<stand, hands>>
  PROVE  EarnestInv'
<1>1. TicksFor(p) \in Nat /\ BotDigTypes
  BY TicksForIs DEF EarnestInv
<1> DEFINE on == AtWork(p)
           left == IF on THEN job.left ELSE TicksFor(p)
           now == [need |-> IF on THEN work.need ELSE TicksFor(p), did |-> IF on THEN work.did + 1 ELSE 1]
<1>2. work.need \in Nat /\ work.did \in Nat /\ job.left \in Nat /\ job.age \in 1..2
  BY <1>1 DEF BotDigTypes
<1>3. left \in Nat /\ now.need \in Nat /\ now.did \in Nat /\ now \in [need : Nat, did : Nat]
  BY <1>1, <1>2
<1>4. now.need < now.did + left
  <2>1. CASE on
    BY <1>2, <2>1 DEF EarnestInv, AtWork
  <2>2. CASE ~on
    BY <1>1, <2>2
  <2> QED
    BY <2>1, <2>2
<1>5. CASE left > 0
  <2>1. job' = [pos |-> p, left |-> left - 1, age |-> 1] /\ work' = now /\ UNCHANGED <<hull, broke>>
    BY <1>5 DEF DigOn, AtWork
  <2> HIDE DEF now, left, on
  <2>2. job' \in [pos : JobPlaces \cup {"none"}, left : Nat, age : 1..2] /\ job'.left = left - 1
    BY <1>3, <1>5, <2>1
  <2>3. BotDigTypes' /\ DugInEarnest'
    BY <1>1, <1>3, <2>1, <2>2 DEF EarnestInv, BotDigTypes, DugInEarnest
  <2>4. work'.need <= work'.did + job'.left
    BY <1>3, <1>4, <2>1, <2>2
  <2> QED
    BY <2>3, <2>4 DEF EarnestInv
<1>6. CASE ~(left > 0)
  <2>1. job' = NoDigJob /\ work' = NoWork /\ broke' = now
    BY <1>6 DEF DigOn, AtWork
  <2>2. hull' \in [Sides -> {"open", "soft", "hard", "rock", "map"}]
    <3>1. hull' = hull \/ (p \in Sides /\ hull' = [hull EXCEPT ![p] = "open"])
      BY <1>6 DEF DigOn, Breaks
    <3> QED
      BY <1>1, <3>1 DEF BotDigTypes
  <2>3. left = 0
    BY <1>3, <1>6
  <2> HIDE DEF now, left, on
  <2>4. broke'.did > broke'.need
    BY <1>3, <1>4, <2>1, <2>3
  <2>5. BotDigTypes' /\ job'.age = 2
    BY <1>1, <2>1, <2>2 DEF BotDigTypes, NoDigJob, NoWork
  <2> QED
    BY <2>4, <2>5 DEF EarnestInv, DugInEarnest
<1> QED
  BY <1>5, <1>6

\* A job dropped, or left for a tick, is begun anew.
LEMMA LetGoKeeps ==
  ASSUME EarnestInv, NothingDug, Leave \/ job' = NoDigJob,
         hands' \in HandKit, stand' \in Stances
  PROVE  EarnestInv'
<1>1. job' \in [pos : JobPlaces \cup {"none"}, left : Nat, age : 1..2] /\ job'.age = 2
  BY LeaveIs DEF EarnestInv, NoDigJob
<1> QED
  BY <1>1 DEF EarnestInv, BotDigTypes, DugInEarnest, NothingDug

\* What others do to the cover.
LEMMA OthersKeep ==
  ASSUME EarnestInv, UNCHANGED <<job, work, broke>>,
         hull' \in [Sides -> {"open", "soft", "hard", "rock", "map"}],
         hands' \in HandKit, stand' \in Stances
  PROVE  EarnestInv'
BY DEF EarnestInv, BotDigTypes, DugInEarnest


\* One field at a time.
LEMMA KitFits ==
  ASSUME NEW h \in HandKit, NEW n \in Int
  PROVE  [h EXCEPT !.tnt = n] \in HandKit /\ [h EXCEPT !.blocks = n] \in HandKit
<1>1. [h EXCEPT !.tnt = n] \in HandKit
  BY DEF HandKit
<1>2. [h EXCEPT !.blocks = n] \in HandKit
  BY DEF HandKit
<1> QED
  BY <1>1, <1>2

LEMMA StanceFits ==
  ASSUME NEW h \in Stances
  PROVE  /\ \A s \in Sides \cup {"away"} : [h EXCEPT !.at = s] \in Stances
         /\ \A n \in Int : [h EXCEPT !.up = n] \in Stances
         /\ [h EXCEPT !.air = FALSE] \in Stances /\ [h EXCEPT !.air = TRUE] \in Stances
         /\ [h EXCEPT !.towering = FALSE] \in Stances /\ [h EXCEPT !.towering = TRUE] \in Stances
<1>1. ASSUME NEW s \in Sides \cup {"away"} PROVE [h EXCEPT !.at = s] \in Stances
  BY DEF Stances
<1>2. ASSUME NEW n \in Int PROVE [h EXCEPT !.up = n] \in Stances
  BY DEF Stances
<1>3. [h EXCEPT !.air = FALSE] \in Stances
  BY DEF Stances
<1>4. [h EXCEPT !.air = TRUE] \in Stances
  BY DEF Stances
<1>5. [h EXCEPT !.towering = FALSE] \in Stances
  BY DEF Stances
<1>6. [h EXCEPT !.towering = TRUE] \in Stances
  BY DEF Stances
<1> QED
  BY <1>1, <1>2, <1>3, <1>4, <1>5, <1>6

\* What is in a hand changes.
LEMMA HandsFit ==
  ASSUME BotDigTypes
  PROVE  /\ hands \in HandKit
         /\ [hands EXCEPT !.tnt = @ - 1] \in HandKit
         /\ [hands EXCEPT !.blocks = @ - 1] \in HandKit
         /\ hands.tool < 2 => [hands EXCEPT !.tool = @ + 1] \in HandKit
         /\ [hands EXCEPT !.tnt = 0, !.blocks = 0] \in HandKit
<1>1. hands \in HandKit
  BY DEF BotDigTypes
<1>2. hands.tnt - 1 \in Int /\ hands.blocks - 1 \in Int
  BY <1>1 DEF HandKit
<1>3. hands.tool < 2 => [hands EXCEPT !.tool = @ + 1] \in HandKit
  BY <1>1 DEF HandKit
<1>4. [hands EXCEPT !.tnt = 0, !.blocks = 0] = [[hands EXCEPT !.tnt = 0] EXCEPT !.blocks = 0]
  BY <1>1 DEF HandKit
<1>5. [hands EXCEPT !.tnt = 0] \in HandKit
  BY <1>1 DEF HandKit
<1>6. [[hands EXCEPT !.tnt = 0] EXCEPT !.blocks = 0] \in HandKit
  <2>1. \A h \in HandKit : [h EXCEPT !.blocks = 0] \in HandKit
    BY DEF HandKit
  <2> QED
    BY <1>5, <2>1
<1>7. [hands EXCEPT !.tnt = @ - 1] \in HandKit /\ [hands EXCEPT !.blocks = @ - 1] \in HandKit
  BY <1>1, <1>2, KitFits
<1> QED
  BY <1>1, <1>3, <1>4, <1>6, <1>7

\* Where it stands changes.
LEMMA StandsFit ==
  ASSUME BotDigTypes
  PROVE  /\ stand \in Stances
         /\ \A s \in Sides \cup {"away"} :
               /\ [stand EXCEPT !.at = s, !.up = 0] \in Stances
               /\ [stand EXCEPT !.at = s, !.up = 0, !.air = FALSE] \in Stances
         /\ [stand EXCEPT !.air = TRUE, !.towering = TRUE] \in Stances
         /\ [stand EXCEPT !.air = FALSE, !.up = @ + 1] \in Stances
         /\ [stand EXCEPT !.towering = FALSE] \in Stances
         /\ [stand EXCEPT !.towering = FALSE, !.air = FALSE] \in Stances
         /\ [stand EXCEPT !.air = FALSE] \in Stances
<1>1. stand \in Stances
  BY DEF BotDigTypes
<1>2. stand.up + 1 \in Int
  BY <1>1 DEF Stances
<1>3. ASSUME NEW s \in Sides \cup {"away"}
      PROVE  [stand EXCEPT !.at = s, !.up = 0] \in Stances /\ [stand EXCEPT !.at = s, !.up = 0, !.air = FALSE] \in Stances
  <2>1. [stand EXCEPT !.at = s, !.up = 0] = [[stand EXCEPT !.at = s] EXCEPT !.up = 0]
    BY <1>1 DEF Stances
  <2>2. [stand EXCEPT !.at = s, !.up = 0, !.air = FALSE] = [[[stand EXCEPT !.at = s] EXCEPT !.up = 0] EXCEPT !.air = FALSE]
    BY <1>1 DEF Stances
  <2>3. [stand EXCEPT !.at = s] \in Stances
    BY <1>1, StanceFits
  <2>4. [[stand EXCEPT !.at = s] EXCEPT !.up = 0] \in Stances
    <3>1. \A h \in Stances : [h EXCEPT !.up = 0] \in Stances
      BY DEF Stances
    <3> QED
      BY <2>3, <3>1
  <2>5. [[[stand EXCEPT !.at = s] EXCEPT !.up = 0] EXCEPT !.air = FALSE] \in Stances
    BY <2>4, StanceFits
  <2> QED
    BY <2>1, <2>2, <2>4, <2>5
<1>4. [stand EXCEPT !.air = TRUE, !.towering = TRUE] \in Stances
  <2>1. [stand EXCEPT !.air = TRUE, !.towering = TRUE] = [[stand EXCEPT !.air = TRUE] EXCEPT !.towering = TRUE]
    BY <1>1 DEF Stances
  <2> QED
    BY <1>1, <2>1, StanceFits
<1>5. [stand EXCEPT !.air = FALSE, !.up = @ + 1] \in Stances
  <2>1. [stand EXCEPT !.air = FALSE, !.up = @ + 1] = [[stand EXCEPT !.air = FALSE] EXCEPT !.up = stand.up + 1]
    BY <1>1 DEF Stances
  <2> QED
    BY <1>1, <1>2, <2>1, StanceFits
<1>6. [stand EXCEPT !.towering = FALSE, !.air = FALSE] \in Stances
  <2>1. [stand EXCEPT !.towering = FALSE, !.air = FALSE] = [[stand EXCEPT !.towering = FALSE] EXCEPT !.air = FALSE]
    BY <1>1 DEF Stances
  <2> QED
    BY <1>1, <2>1, StanceFits
<1> QED
  BY <1>1, <1>3, <1>4, <1>5, <1>6, StanceFits

LEMMA NoSideKeeps == ASSUME EarnestInv, NoSoftSide PROVE EarnestInv'
BY LetGoKeeps, HandsFit, StandsFit DEF NoSoftSide, StandsThere, EarnestInv

LEMMA WayRoundKeeps == ASSUME EarnestInv, WayRound PROVE EarnestInv'
<1>1. PICK s \in Softest, m \in {[mind EXCEPT !.around = TRUE]} :
    \/ Ticks(s) > 0 /\ DigOn(s, m) /\ StandsThere
    \/ /\ stand.at = s
       /\ IF Ticks(s) > 0 THEN DigOn(s, m) ELSE DigOn("bed", [m EXCEPT !.around = FALSE])
       /\ StandsThere
    \/ /\ stand.at # s
       /\ stand' = [stand EXCEPT !.at = s, !.up = 0] \/ UNCHANGED stand
       /\ Leave /\ NothingDug /\ UNCHANGED <<hands, lit, othersActs>>
  BY DEF WayRound
<1>2. s \in Sides /\ s \in JobPlaces /\ "bed" \in JobPlaces
  BY DEF Softest, Diggable, JobPlaces
<1>3. CASE StandsThere /\ (DigOn(s, m) \/ DigOn("bed", [m EXCEPT !.around = FALSE]))
  BY <1>2, <1>3, DigOnKeeps DEF StandsThere
<1>4. CASE /\ stand' = [stand EXCEPT !.at = s, !.up = 0] \/ UNCHANGED stand
           /\ Leave /\ NothingDug /\ UNCHANGED hands
  <2>1. stand' \in Stances
    BY <1>2, <1>4, StandsFit DEF EarnestInv
  <2> QED
    BY <1>4, <2>1, LetGoKeeps, HandsFit DEF EarnestInv
<1> QED
  BY <1>1, <1>3, <1>4

LEMMA BlowKeeps == ASSUME EarnestInv, BlowOpen PROVE EarnestInv'
<1>1. hands' = [hands EXCEPT !.tnt = @ - 1] /\ job' = NoDigJob /\ NothingDug /\ stand' = stand
  BY DEF BlowOpen
<1> QED
  BY <1>1, LetGoKeeps, HandsFit, StandsFit DEF EarnestInv

LEMMA BreakKeeps == ASSUME EarnestInv, BreakTick PROVE EarnestInv'
<1>1. AtBed /\ \E p \in {OnRay} : \/ BlowOpen \/ NoSoftSide \/ WayRound
                                  \/ DigOn(p, mind) /\ StandsThere
  BY DEF BreakTick
<1>2. OnRay \in JobPlaces
  BY <1>1 DEF OnRay, JobPlaces, AtBed, EarnestInv, BotDigTypes, Stances
<1>3. CASE DigOn(OnRay, mind) /\ StandsThere
  BY <1>2, <1>3, DigOnKeeps DEF StandsThere
<1> QED
  BY <1>1, <1>3, BlowKeeps, NoSideKeeps, WayRoundKeeps

LEMMA PushTickKeeps == ASSUME EarnestInv, PushTick PROVE EarnestInv'
<1>1. (Leave \/ job' = NoDigJob) /\ NothingDug
  BY DEF PushTick
<1>2. hands' \in HandKit
  <2>1. hands' \in {hands, [hands EXCEPT !.tnt = @ - 1], [hands EXCEPT !.blocks = @ - 1]}
           \/ \E fills \in BOOLEAN : hands' = [hands EXCEPT !.blocks = IF fills THEN @ - 1 ELSE @]
    BY DEF PushTick
  <2>2. [hands EXCEPT !.blocks = @] = hands
    BY HandsFit DEF EarnestInv, HandKit
  <2>3. \A fills \in BOOLEAN : [hands EXCEPT !.blocks = IF fills THEN @ - 1 ELSE @] \in {hands, [hands EXCEPT !.blocks = @ - 1]}
    BY <2>2
  <2> QED
    BY <2>1, <2>3, HandsFit DEF EarnestInv
<1>3. stand' \in Stances
  <2>1. \/ stand' = [stand EXCEPT !.air = TRUE, !.towering = TRUE]
        \/ \E fills \in BOOLEAN : stand' = [stand EXCEPT !.air = FALSE, !.up = IF fills THEN @ + 1 ELSE @]
        \/ stand' = [stand EXCEPT !.towering = FALSE]
        \/ stand' = [stand EXCEPT !.towering = FALSE, !.air = FALSE]
    BY DEF PushTick
  <2>2. [stand EXCEPT !.air = FALSE, !.up = @] = [stand EXCEPT !.air = FALSE]
    BY StandsFit DEF EarnestInv, Stances
  <2>3. \A fills \in BOOLEAN : [stand EXCEPT !.air = FALSE, !.up = IF fills THEN @ + 1 ELSE @]
                   \in {[stand EXCEPT !.air = FALSE], [stand EXCEPT !.air = FALSE, !.up = @ + 1]}
    BY <2>2
  <2> QED
    BY <2>1, <2>3, StandsFit DEF EarnestInv
<1> QED
  BY <1>1, <1>2, <1>3, LetGoKeeps

LEMMA EarnestInits == ASSUME DigBedInit PROVE EarnestInv
<1>1. PICK s \in Sides : stand = [at |-> s, up |-> 0, air |-> FALSE, towering |-> FALSE]
  BY DEF DigBedInit
<1>2. stand \in Stances
  BY <1>1 DEF Stances
<1>3. hands = [tool |-> 0, tnt |-> 1, blocks |-> 2] /\ job = NoDigJob /\ work = NoWork /\ broke = NoWork
  BY DEF DigBedInit
<1>4. hands \in HandKit
  BY <1>3 DEF HandKit
<1>5. job \in [pos : JobPlaces \cup {"none"}, left : Nat, age : 1..2] /\ job.age = 2
  BY <1>3 DEF NoDigJob
<1>6. work \in [need : Nat, did : Nat] /\ broke.did > broke.need
  BY <1>3 DEF NoWork
<1> QED
  BY <1>2, <1>4, <1>5, <1>6 DEF DigBedInit, EarnestInv, BotDigTypes, DugInEarnest

LEMMA EarnestSteps == ASSUME EarnestInv, [DigBedNext]_digBedVars PROVE EarnestInv'
<1> USE DEF EarnestInv
<1>1. CASE UNCHANGED digBedVars
  BY <1>1 DEF digBedVars, BotDigTypes, DugInEarnest
<1>2. CASE AroundTick
  BY <1>2, NoSideKeeps, WayRoundKeeps DEF AroundTick
<1>3. CASE FleeTick \/ OtherTick
  <2>1. Leave /\ NothingDug /\ hands' = hands
    BY <1>3 DEF FleeTick, OtherTick
  <2>2. stand' \in Stances
    BY <1>3, StandsFit DEF FleeTick, OtherTick
  <2> QED
    BY <2>1, <2>2, LetGoKeeps, HandsFit
<1>4. CASE ReturnTick
  <2>1. Leave /\ NothingDug /\ hands' = hands
    BY <1>4 DEF ReturnTick
  <2>2. stand' \in Stances
    <3>1. PICK s \in Sides : stand' = [stand EXCEPT !.at = s, !.up = 0, !.air = FALSE]
      BY <1>4 DEF ReturnTick
    <3> QED
      BY <3>1, StandsFit
  <2> QED
    BY <2>1, <2>2, LetGoKeeps, HandsFit
<1>5. CASE BuyTick
  <2>1. Leave /\ NothingDug /\ hands.tool < 2 /\ hands' = [hands EXCEPT !.tool = @ + 1]
    BY <1>5 DEF BuyTick
  <2>2. stand' \in Stances
    BY <1>5, StandsFit DEF BuyTick
  <2> QED
    BY <2>1, <2>2, LetGoKeeps, HandsFit
<1>6. CASE Covers \/ Uncovers
  <2>1. UNCHANGED <<job, work, broke, hands, stand>>
    BY <1>6 DEF Covers, Uncovers
  <2>2. hull' \in [Sides -> {"open", "soft", "hard", "rock", "map"}]
    BY <1>6 DEF Covers, Uncovers, BotDigTypes, Kinds
  <2> QED
    BY <2>1, <2>2, OthersKeep, HandsFit, StandsFit
<1>7. CASE GoesOff
  <2>1. UNCHANGED <<job, work, broke, hands, stand>>
    BY <1>7 DEF GoesOff
  <2>2. hull' \in [Sides -> {"open", "soft", "hard", "rock", "map"}]
    BY <1>7 DEF GoesOff, BotDigTypes
  <2> QED
    BY <2>1, <2>2, OthersKeep, HandsFit, StandsFit
<1>8. CASE Displaced
  <2>1. UNCHANGED <<job, work, broke, hull>>
    BY <1>8 DEF Displaced
  <2>2. hands' \in HandKit
    BY <1>8, HandsFit DEF Displaced
  <2>3. stand' \in Stances
    BY <1>8, StandsFit DEF Displaced
  <2>4. hull' \in [Sides -> {"open", "soft", "hard", "rock", "map"}]
    BY <2>1 DEF BotDigTypes
  <2> QED
    BY <2>1, <2>2, <2>3, <2>4, OthersKeep
<1> QED
  BY <1>1, <1>2, <1>3, <1>4, <1>5, <1>6, <1>7, <1>8, BreakKeeps, PushTickKeeps DEF DigBedNext

\* A block the bot breaks it has dug, on every tick, one after the other, for as long as
\* the block took when it began (digging): a fight, a blast or a trip to the shop in
\* between, and it starts over.
THEOREM BotsDigInEarnest == DigBedSpec => []DugInEarnest
<1>1. EarnestInv => DugInEarnest
  BY DEF EarnestInv
<1> QED
  BY <1>1, EarnestInits, EarnestSteps, PTL DEF DigBedSpec

-----------------------------------------------------------------------------
LEMMA MinPair == ASSUME NEW a \in Int, NEW b \in Int PROVE Min({a, b}) = IF a <= b THEN a ELSE b
BY DEF Min

-----------------------------------------------------------------------------
(* How fast a client may send.                                             *)

PaceTypes ==
    /\ instant \in Nat /\ played \in Nat /\ held \in Seq(Nat)
    /\ timer \in [started : BOOLEAN, last : Nat, balance : Int]
    /\ bucket \in [started : BOOLEAN, last : Nat, tokens : Nat]
    /\ arrivals \in Seq(Nat) /\ spent \in Seq(Nat) /\ ahead \in BOOLEAN

\* How far the client is ahead on the stretch from the i-th of some times to the last.
AheadOn(times, i) == Len(times) - i - (times[Len(times)] - times[i])

\* b is the most it is ahead on any stretch.
IsWorst(b, times) ==
    /\ \/ b = AheadOn(times, 1)
       \/ \E i \in 1..Len(times) : b = AheadOn(times, i) - TimerMaxBank
    /\ AheadOn(times, 1) <= b /\ \A i \in 1..Len(times) : AheadOn(times, i) - TimerMaxBank <= b

TimerStands ==
    /\ timer.started <=> arrivals # <<>>
    /\ arrivals # <<>> => /\ timer.last = arrivals[Len(arrivals)] /\ IsWorst(timer.balance, arrivals)

BucketStands ==
    /\ bucket.last <= instant /\ bucket.tokens <= Burst
    /\ bucket.started \/ spent = <<>>
    /\ \A i \in 1..Len(spent) :
          /\ spent[i] <= bucket.last
          /\ Len(spent) - i + 1 + bucket.tokens <= Burst + bucket.last - spent[i]
    /\ \A i, j \in 1..Len(spent) : i <= j => j - i + 1 <= Burst + spent[j] - spent[i]

PaceInv == PaceTypes /\ TimerStands /\ BucketStands

\* One more packet on a stretch.
LEMMA OneMoreAhead ==
    ASSUME NEW s \in Seq(Nat), s # <<>>, NEW now \in Nat, NEW i \in 1..Len(s)
    PROVE  AheadOn(Append(s, now), i) = AheadOn(s, i) + 1 - (now - s[Len(s)])
<1> DEFINE t == Append(s, now)
<1>1. Len(t) = Len(s) + 1 /\ t[Len(t)] = now /\ t[i] = s[i]
  OBVIOUS
<1>2. Len(s) \in Nat /\ s[Len(s)] \in Nat /\ s[i] \in Nat /\ i \in Nat
  BY <1>1
<1> HIDE DEF t
<1>3. AheadOn(t, i) = Len(s) + 1 - i - (now - s[i])
  BY <1>1 DEF AheadOn
<1>4. AheadOn(s, i) = Len(s) - i - (s[Len(s)] - s[i])
  BY DEF AheadOn
<1>5. AheadOn(t, i) = AheadOn(s, i) + 1 - (now - s[Len(s)])
  <2> DEFINE l == Len(s)
             a == s[i]
             b == s[l]
  <2>1. l \in Int /\ a \in Int /\ b \in Int /\ i \in Int /\ now \in Int
    BY <1>2
  <2> HIDE DEF l, a, b
  <2>2. l + 1 - i - (now - a) = (l - i - (b - a)) + 1 - (now - b)
    BY <2>1
  <2> QED
    BY <1>3, <1>4, <2>2 DEF l, a, b
<1> QED
  BY <1>5 DEF t

LEMMA AheadNow ==
    ASSUME NEW s \in Seq(Nat), NEW now \in Nat PROVE AheadOn(Append(s, now), Len(s) + 1) = 0
BY DEF AheadOn

LEMMA AheadInt == ASSUME NEW s \in Seq(Nat), NEW i \in 1..Len(s) PROVE AheadOn(s, i) \in Int
<1>1. s # <<>> /\ Len(s) \in 1..Len(s)
  OBVIOUS
<1>2. s[i] \in Nat /\ s[Len(s)] \in Nat /\ Len(s) \in Nat
  BY <1>1
<1> QED
  BY <1>2 DEF AheadOn

LEMMA WorstStarts == ASSUME NEW now \in Nat PROVE IsWorst(0, <<now>>)
<1>1. Len(<<now>>) = 1 /\ AheadOn(<<now>>, 1) = 0
  BY DEF AheadOn
<1> QED
  BY <1>1, PaceAssumption DEF IsWorst

LEMMA BankedIs == ASSUME NEW b \in Int PROVE Banked(b) = IF b >= -TimerMaxBank THEN b ELSE -TimerMaxBank
BY PaceAssumption DEF Banked, Max

LEMMA WorstGrows ==
    ASSUME NEW s \in Seq(Nat), s # <<>>, NEW now \in Nat, NEW b \in Int, IsWorst(b, s)
    PROVE  IsWorst(Banked(b + 1 - (now - s[Len(s)])), Append(s, now))
<1> DEFINE t == Append(s, now)
           d == 1 - (now - s[Len(s)])
           c == Banked(b + d)
<1>1. Len(s) \in Nat \ {0} /\ Len(t) = Len(s) + 1 /\ s[Len(s)] \in Nat /\ d \in Int
  OBVIOUS
<1>2. \A i \in 1..Len(s) : AheadOn(s, i) \in Int /\ AheadOn(t, i) = AheadOn(s, i) + d
  BY OneMoreAhead, AheadInt
<1>3. AheadOn(t, Len(s) + 1) = 0
  BY AheadNow
<1>4. c = IF b + d >= -TimerMaxBank THEN b + d ELSE -TimerMaxBank
  BY <1>1, BankedIs
<1>5. b + 1 - (now - s[Len(s)]) = b + d
  BY <1>1
<1> HIDE DEF t, d, c
<1>6. 1 \in 1..Len(s) /\ TimerMaxBank \in Nat
  BY <1>1, PaceAssumption
<1>7. AheadOn(t, 1) <= c /\ \A i \in 1..Len(t) : AheadOn(t, i) - TimerMaxBank <= c
  <2>1. AheadOn(t, 1) <= c
    BY <1>1, <1>2, <1>4, <1>6 DEF IsWorst
  <2>2. ASSUME NEW i \in 1..Len(s) PROVE AheadOn(t, i) - TimerMaxBank <= c
    <3>1. AheadOn(s, i) - TimerMaxBank <= b
      BY DEF IsWorst
    <3> QED
      BY <1>1, <1>2, <1>4, <1>6, <3>1
  <2>3. AheadOn(t, Len(s) + 1) - TimerMaxBank <= c
    BY <1>1, <1>3, <1>4, <1>6
  <2> QED
    BY <1>1, <2>1, <2>2, <2>3
<1>8. c = AheadOn(t, 1) \/ \E i \in 1..Len(t) : c = AheadOn(t, i) - TimerMaxBank
  <2>1. CASE b + d >= -TimerMaxBank /\ b = AheadOn(s, 1)
    BY <1>2, <1>4, <1>6, <2>1
  <2>2. CASE b + d >= -TimerMaxBank /\ \E i \in 1..Len(s) : b = AheadOn(s, i) - TimerMaxBank
    <3>1. PICK i \in 1..Len(s) : b = AheadOn(s, i) - TimerMaxBank
      BY <2>2
    <3>2. c = AheadOn(t, i) - TimerMaxBank
      BY SMTT(20), <1>1, <1>2, <1>4, <1>6, <2>2, <3>1
    <3> QED
      BY <1>1, <3>2
  <2>3. CASE ~(b + d >= -TimerMaxBank)
    BY <1>1, <1>3, <1>4, <1>6, <2>3
  <2> QED
    BY <2>1, <2>2, <2>3 DEF IsWorst
<1> QED
  BY <1>5, <1>7, <1>8 DEF IsWorst, c, t

LEMMA TimerKeeps ==
    ASSUME PaceInv, PacketArrives, ~(TokensAt(bucket, instant) < 1)
    PROVE  TimerStands' /\ timer' \in [started : BOOLEAN, last : Nat, balance : Int]
<1>1. /\ instant \in Nat /\ timer \in [started : BOOLEAN, last : Nat, balance : Int]
      /\ arrivals \in Seq(Nat) /\ TimerStands
  BY DEF PaceInv, PaceTypes
<1>2. /\ timer' = Balanced(timer, instant)
      /\ arrivals' = IF Flags(timer, instant) THEN <<instant>> ELSE Append(arrivals, instant)
  BY DEF PacketArrives
<1> DEFINE b == Banked(timer.balance + 1 - (instant - timer.last))
<1>3. b \in Int
  BY <1>1, BankedIs, PaceAssumption
<1>4. CASE ~timer.started
  <2>1. arrivals = <<>> /\ ~Flags(timer, instant)
    BY <1>1, <1>4 DEF TimerStands, Flags
  <2>2. arrivals' = <<instant>> /\ timer' = [started |-> TRUE, last |-> instant, balance |-> 0]
    BY <1>1, <1>2, <1>4, <2>1 DEF Balanced
  <2> QED
    BY <1>1, <2>2, WorstStarts DEF TimerStands
<1>5. CASE timer.started /\ Flags(timer, instant)
  <2>1. arrivals' = <<instant>> /\ timer' = [started |-> TRUE, last |-> instant, balance |-> 0]
    BY <1>1, <1>2, <1>5 DEF Flags, Balanced
  <2> QED
    BY <1>1, <2>1, WorstStarts DEF TimerStands
<1>6. CASE timer.started /\ ~Flags(timer, instant)
  <2>1. arrivals' = Append(arrivals, instant) /\ timer' = [started |-> TRUE, last |-> instant, balance |-> b]
    BY <1>1, <1>2, <1>6 DEF Flags, Balanced
  <2>2. arrivals # <<>> /\ timer.last = arrivals[Len(arrivals)] /\ IsWorst(timer.balance, arrivals)
    BY <1>1, <1>6 DEF TimerStands
  <2>3. IsWorst(b, Append(arrivals, instant))
    BY <1>1, <2>2, WorstGrows
  <2>4. arrivals' # <<>> /\ arrivals'[Len(arrivals')] = instant
    BY <1>1, <2>1
  <2> HIDE DEF b
  <2> QED
    BY <1>1, <1>3, <2>1, <2>3, <2>4 DEF TimerStands
<1> QED
  BY <1>4, <1>5, <1>6

\* The bucket after its refill.
LEMMA Refills ==
    ASSUME PaceInv
    PROVE  /\ TokensAt(bucket, instant) \in 0..Burst
           /\ \A i \in 1..Len(spent) : Len(spent) - i + 1 + TokensAt(bucket, instant) <= Burst + instant - spent[i]
<1>1. /\ bucket \in [started : BOOLEAN, last : Nat, tokens : Nat] /\ instant \in Nat
      /\ spent \in Seq(Nat) /\ BucketStands /\ Burst \in Nat \ {0}
  BY PaceAssumption DEF PaceInv, PaceTypes
<1>2. CASE ~bucket.started
  BY <1>1, <1>2 DEF BucketStands, TokensAt
<1>3. CASE bucket.started
  <2> DEFINE n == bucket.tokens + instant - bucket.last
  <2>1. n \in Nat /\ Len(spent) \in Nat
    BY <1>1 DEF BucketStands
  <2>2. TokensAt(bucket, instant) = IF Burst <= n THEN Burst ELSE n
    BY <1>1, <1>3, <2>1, MinPair DEF TokensAt, Refilled
  <2>3. ASSUME NEW i \in 1..Len(spent)
        PROVE  Len(spent) - i + 1 + n <= Burst + instant - spent[i]
    <3>1. Len(spent) - i + 1 + bucket.tokens <= Burst + bucket.last - spent[i]
      BY <1>1 DEF BucketStands
    <3>2. /\ spent[i] \in Nat /\ Len(spent) \in Nat /\ i \in Nat /\ Burst \in Nat
          /\ bucket.tokens \in Nat /\ bucket.last \in Nat /\ instant \in Nat
      BY <1>1, <2>1
    <3>3. \A l, t, a, sp, j, bu, x \in Int :
              l - j + 1 + t <= bu + a - sp => l - j + 1 + (t + x - a) <= bu + x - sp
      OBVIOUS
    <3> QED
      BY SMTT(20), <3>1, <3>2, <3>3
  <2> HIDE DEF n
  <2>4. ASSUME NEW i \in 1..Len(spent)
        PROVE  Len(spent) - i + 1 + TokensAt(bucket, instant) <= Burst + instant - spent[i]
    <3>1. spent[i] \in Nat
      BY <1>1
    <3> QED
      BY SMTT(20), <1>1, <2>1, <2>2, <2>3, <3>1
  <2> QED
    BY <1>1, <2>1, <2>2, <2>4
<1> QED
  BY <1>1, <1>2, <1>3

LEMMA BucketKeeps == ASSUME PaceInv, PacketArrives PROVE BucketStands' /\ bucket' \in [started : BOOLEAN, last : Nat, tokens : Nat] /\ spent' \in Seq(Nat)
<1> DEFINE tokens == TokensAt(bucket, instant)
<1>1. /\ bucket \in [started : BOOLEAN, last : Nat, tokens : Nat] /\ instant \in Nat
      /\ spent \in Seq(Nat) /\ BucketStands /\ Burst \in Nat \ {0} /\ instant' = instant
  BY PaceAssumption DEF PaceInv, PaceTypes, PacketArrives
<1>2. /\ tokens \in 0..Burst
      /\ \A i \in 1..Len(spent) : Len(spent) - i + 1 + tokens <= Burst + instant - spent[i]
  BY Refills
<1>3. bucket' = [started |-> TRUE, last |-> instant, tokens |-> IF tokens < 1 THEN tokens ELSE tokens - 1]
  BY DEF PacketArrives
<1>4. IF tokens < 1 THEN spent' = spent ELSE spent' = Append(spent, instant)
  BY DEF PacketArrives
<1> HIDE DEF tokens
<1>5. ASSUME NEW i \in 1..Len(spent) PROVE spent[i] \in Nat /\ spent[i] <= instant
  <2>1. spent[i] \in Nat
    BY <1>1
  <2>2. spent[i] <= bucket.last /\ bucket.last <= instant
    BY <1>1 DEF BucketStands
  <2> QED
    BY <1>1, <2>1, <2>2
<1>6. CASE tokens < 1
  BY <1>1, <1>2, <1>3, <1>4, <1>5, <1>6 DEF BucketStands
<1>7. CASE ~(tokens < 1)
  <2> DEFINE n == Len(spent)
  <2>1. n \in Nat /\ spent' \in Seq(Nat) /\ Len(spent') = n + 1 /\ spent'[n + 1] = instant
        /\ \A i \in 1..n : spent'[i] = spent[i]
    <3>1. spent' = Append(spent, instant)
      BY <1>4, <1>7
    <3> QED
      BY <1>1, <3>1
  <2>2. bucket'.last = instant /\ bucket'.tokens = tokens - 1 /\ bucket'.started
        /\ bucket' \in [started : BOOLEAN, last : Nat, tokens : Nat]
    BY <1>1, <1>2, <1>3, <1>7
  <2>3. \A i \in 1..n : n - i + 1 + tokens <= Burst + instant - spent[i]
    BY <1>2
  <2> HIDE DEF n
  <2>4. ASSUME NEW i \in 1..(n + 1)
        PROVE  spent'[i] <= instant /\ n + 1 - i + 1 + (tokens - 1) <= Burst + instant - spent'[i]
    <3>1. CASE i = n + 1
      BY <1>1, <1>2, <2>1, <3>1
    <3>2. CASE i # n + 1
      <4>1. i \in 1..n
        BY <2>1, <3>2
      <4>2. spent'[i] = spent[i] /\ spent[i] \in Nat /\ spent[i] <= instant
        BY <1>5, <2>1, <4>1 DEF n
      <4> QED
        BY <1>1, <1>2, <2>1, <2>3, <4>1, <4>2
    <3> QED
      BY <3>1, <3>2
  <2>5. ASSUME NEW i \in 1..(n + 1), NEW j \in 1..(n + 1), i <= j
        PROVE  j - i + 1 <= Burst + spent'[j] - spent'[i]
    <3>1. CASE j = n + 1
      <4>1. spent'[i] <= instant /\ n + 1 - i + 1 + (tokens - 1) <= Burst + instant - spent'[i]
        BY <2>4
      <4>2. spent'[i] \in Nat /\ i \in Nat /\ tokens \in Nat /\ 1 <= tokens
        BY <1>2, <1>7, <2>1
      <4> QED
        BY <1>1, <2>1, <3>1, <4>1, <4>2
    <3>2. CASE j # n + 1
      <4>1. i \in 1..n /\ j \in 1..n
        BY <2>1, <2>5, <3>2
      <4>2. j - i + 1 <= Burst + spent[j] - spent[i]
        BY <1>1, <2>5, <4>1 DEF BucketStands, n
      <4> QED
        BY <2>1, <4>1, <4>2
    <3> QED
      BY <3>1, <3>2
  <2> QED
    BY <1>1, <1>2, <2>1, <2>2, <2>4, <2>5 DEF BucketStands
<1> QED
  BY <1>6, <1>7

LEMMA PaceStarts == ASSUME PaceInit PROVE PaceInv
<1>1. Len(spent) = 0
  BY DEF PaceInit
<1>2. PaceTypes
  <2>1. instant \in Nat /\ played \in Nat /\ held \in Seq(Nat) /\ arrivals \in Seq(Nat) /\ spent \in Seq(Nat)
    BY DEF PaceInit
  <2>2. timer \in [started : BOOLEAN, last : Nat, balance : Int]
    BY DEF PaceInit
  <2>3. bucket \in [started : BOOLEAN, last : Nat, tokens : Nat] /\ ahead \in BOOLEAN
    BY DEF PaceInit
  <2> QED
    BY <2>1, <2>2, <2>3 DEF PaceTypes
<1>3. TimerStands
  BY DEF PaceInit, TimerStands
<1>4. BucketStands
  BY <1>1, PaceAssumption DEF PaceInit, BucketStands
<1> QED
  BY <1>2, <1>3, <1>4 DEF PaceInv

LEMMA PaceSteps == ASSUME PaceInv, [PaceNext]_paceVars PROVE PaceInv'
<1>1. CASE ClientPlays
  BY <1>1 DEF PaceInv, PaceTypes, TimerStands, BucketStands, ClientPlays
<1>2. CASE PaceTick
  BY <1>2 DEF PaceInv, PaceTypes, TimerStands, BucketStands, PaceTick
<1>3. CASE PacketArrives
  <2>1. BucketStands' /\ bucket' \in [started : BOOLEAN, last : Nat, tokens : Nat] /\ spent' \in Seq(Nat)
    BY <1>3, BucketKeeps
  <2>2. held' \in Seq(Nat) /\ instant' = instant /\ played' = played /\ ahead' \in BOOLEAN
    <3>1. held \in Seq(Nat) /\ held # <<>> /\ held' = Tail(held) /\ instant' = instant /\ played' = played
      BY <1>3 DEF PaceInv, PaceTypes, PacketArrives
    <3>2. ahead' \in {ahead, ahead \/ Flags(timer, instant)}
      BY <1>3 DEF PacketArrives
    <3>3. Flags(timer, instant) \in BOOLEAN /\ ahead \in BOOLEAN
      BY DEF Flags, PaceInv, PaceTypes
    <3> QED
      BY <3>1, <3>2, <3>3
  <2>3. arrivals' \in Seq(Nat)
    <3>1. arrivals \in Seq(Nat) /\ instant \in Nat
      BY DEF PaceInv, PaceTypes
    <3>2. arrivals' \in {arrivals, <<instant>>, Append(arrivals, instant)}
      BY <1>3 DEF PacketArrives
    <3>3. <<instant>> \in Seq(Nat) /\ Append(arrivals, instant) \in Seq(Nat)
      BY <3>1
    <3> QED
      BY <3>1, <3>2, <3>3
  <2>4. CASE TokensAt(bucket, instant) < 1
    <3>1. arrivals' = arrivals /\ timer' = timer
      BY <1>3, <2>4 DEF PacketArrives
    <3> QED
      BY <2>1, <2>2, <2>3, <3>1 DEF PaceInv, PaceTypes, TimerStands
  <2>5. CASE ~(TokensAt(bucket, instant) < 1)
    BY <1>3, <2>1, <2>2, <2>3, <2>5, TimerKeeps DEF PaceInv, PaceTypes
  <2> QED
    BY <2>4, <2>5
<1>4. CASE UNCHANGED paceVars
  BY <1>4 DEF PaceInv, PaceTypes, TimerStands, BucketStands, paceVars
<1> QED
  BY <1>1, <1>2, <1>3, <1>4 DEF PaceNext

\* For any tolerance, bank and burst: the two numbers the server keeps stand for every
\* stretch of packets it was sent (timer.go Move, validate.go Allow).
THEOREM TwoNumbersTellAll == PaceSpec => []WorstStretch
<1>1. PaceInit => PaceInv
  BY PaceStarts
<1>2. PaceInv /\ [PaceNext]_paceVars => PaceInv'
  BY PaceSteps
<1>3. PaceInv => WorstStretch
  <2> SUFFICES ASSUME PaceInv PROVE WorstStretch
    OBVIOUS
  <2>1. arrivals \in Seq(Nat) /\ spent \in Seq(Nat) /\ DOMAIN arrivals = 1..Len(arrivals)
        /\ DOMAIN spent = 1..Len(spent) /\ timer.balance \in Int
    BY DEF PaceInv, PaceTypes
  <2>2. ASSUME arrivals # <<>>
        PROVE timer.balance = Max({Excess(1)} \cup {Excess(i) - TimerMaxBank : i \in DOMAIN arrivals})
    <3> DEFINE S == {Excess(1)} \cup {Excess(i) - TimerMaxBank : i \in DOMAIN arrivals}
    <3>1. \A i \in 1..Len(arrivals) : Excess(i) = AheadOn(arrivals, i) /\ Excess(i) \in Int
      BY <2>1, AheadInt DEF Excess, AheadOn
    <3>2. 1 \in 1..Len(arrivals) /\ IsWorst(timer.balance, arrivals)
      BY <2>1, <2>2 DEF PaceInv, TimerStands
    <3>3. S \in SUBSET Int
      BY <2>1, <3>1, <3>2, PaceAssumption
    <3>4. timer.balance \in S /\ \A y \in S : y <= timer.balance
      BY <2>1, <3>1, <3>2 DEF IsWorst
    <3> HIDE DEF S
    <3>5. Max(S) = timer.balance
      BY <3>3, <3>4, MaxIs
    <3> QED
      BY <3>5 DEF S
  <2> QED
    BY <2>1, <2>2 DEF WorstStretch, PaceInv, BucketStands
<1> QED
  BY <1>1, <1>2, <1>3, PTL DEF PaceSpec

\* When the packet that arrives next was made, at the earliest.
NextMade == IF held = <<>> THEN instant + played ELSE held[1]

SpikeInv ==
    /\ PaceInv /\ ~ahead /\ played \in {0, 1}
    /\ \A i \in 1..Len(held) : held[i] <= instant /\ (played = 0 => held[i] < instant)
    /\ \A i, j \in 1..Len(held) : i < j => held[i] < held[j]
    /\ held # <<>> => instant - held[1] <= MaxLag
    /\ timer.started => timer.last <= instant /\ timer.balance + timer.last + 1 <= MaxLag + NextMade

LEMMA SpikePlays ==
    ASSUME SpikeInv, PaceInv', PerTick = 1, MaxLag \in Nat, ClientPlays
    PROVE  SpikeInv'
<1>1. /\ PaceInv /\ PaceInv' /\ instant \in Nat /\ held \in Seq(Nat) /\ played = 0 /\ played' = 1
      /\ held' = Append(held, instant) /\ UNCHANGED <<instant, timer, ahead>>
  BY DEF SpikeInv, ClientPlays, PaceInv, PaceTypes
<1>2. /\ Len(held') = Len(held) + 1 /\ held' # <<>> /\ held'[Len(held) + 1] = instant
      /\ \A i \in 1..Len(held) : held'[i] = held[i]
  BY <1>1
<1>3. NextMade' = NextMade
  BY <1>1, <1>2 DEF NextMade
<1>4. \A i \in 1..Len(held') : held'[i] <= instant
  BY <1>1, <1>2 DEF SpikeInv
<1>5. ASSUME NEW i \in 1..Len(held'), NEW j \in 1..Len(held'), i < j PROVE held'[i] < held'[j]
  <2>1. i \in 1..Len(held) /\ held'[i] = held[i] /\ held[i] < instant
    BY <1>1, <1>2, <1>5 DEF SpikeInv
  <2>2. CASE j = Len(held) + 1
    BY <1>2, <2>1, <2>2
  <2>3. CASE j # Len(held) + 1
    <3>1. j \in 1..Len(held) /\ held'[j] = held[j]
      BY <1>1, <1>2, <2>3
    <3> QED
      BY <1>5, <2>1, <3>1 DEF SpikeInv
  <2> QED
    BY <2>2, <2>3
<1>6. instant - held'[1] <= MaxLag
  BY <1>1, <1>2 DEF SpikeInv
<1>7. timer.started => timer.last <= instant /\ timer.balance + timer.last + 1 <= MaxLag + NextMade
  BY DEF SpikeInv
<1> QED
  BY <1>1, <1>3, <1>4, <1>5, <1>6, <1>7 DEF SpikeInv

LEMMA SpikeTicks ==
    ASSUME SpikeInv, PaceInv', MaxLag \in Nat, PaceTick
    PROVE  SpikeInv'
<1>1. /\ PaceInv /\ PaceInv' /\ instant \in Nat /\ held \in Seq(Nat) /\ played \in {0, 1} /\ played' = 0
      /\ instant' = instant + 1 /\ UNCHANGED <<held, timer, ahead>>
      /\ timer \in [started : BOOLEAN, last : Nat, balance : Int]
      /\ held # <<>> => instant - held[1] < MaxLag
  BY DEF SpikeInv, PaceTick, PaceInv, PaceTypes
<1>2. ASSUME NEW i \in 1..Len(held) PROVE held[i] < instant + 1
  <2>1. held[i] <= instant /\ held[i] \in Nat
    BY <1>1 DEF SpikeInv
  <2> QED
    BY <1>1, <2>1
<1>3. held # <<>> => held[1] \in Nat
  BY <1>1
<1>4. NextMade' \in Nat /\ NextMade \in Nat /\ NextMade <= NextMade'
  BY <1>1, <1>3 DEF NextMade
<1>5. timer.started => timer.last <= instant + 1 /\ timer.balance + timer.last + 1 <= MaxLag + NextMade'
  BY <1>1, <1>4 DEF SpikeInv
<1>6. held # <<>> => instant + 1 - held[1] <= MaxLag
  BY <1>1, <1>3
<1>7. \A i \in 1..Len(held) : held[i] <= instant + 1
  BY <1>1, <1>2
<1> QED
  BY <1>1, <1>2, <1>5, <1>6, <1>7 DEF SpikeInv

LEMMA SpikeArrives ==
    ASSUME SpikeInv, PaceInv', MaxLag \in Nat, MaxLag <= TimerTolerance, PacketArrives
    PROVE  SpikeInv'
<1> DEFINE m == held[1]
           b == Banked(timer.balance + 1 - (instant - timer.last))
<1>1. /\ PaceInv /\ PaceInv' /\ instant \in Nat /\ held \in Seq(Nat) /\ held # <<>> /\ played \in {0, 1}
      /\ held' = Tail(held) /\ UNCHANGED <<instant, played>>
      /\ timer \in [started : BOOLEAN, last : Nat, balance : Int]
      /\ TimerTolerance \in Nat /\ TimerMaxBank \in Nat
  BY PaceAssumption DEF SpikeInv, PacketArrives, PaceInv, PaceTypes
<1>2. 1 \in 1..Len(held) /\ Len(held) \in Nat /\ m \in Nat /\ m <= instant /\ instant - m <= MaxLag
      /\ (played = 0 => m < instant)
  BY <1>1 DEF SpikeInv
<1>3. /\ Len(held') = Len(held) - 1
      /\ \A i \in 1..Len(held') : i + 1 \in 1..Len(held) /\ held'[i] = held[i + 1]
  BY <1>1, <1>2
<1>4. \A i \in 1..Len(held') : held'[i] <= instant /\ (played = 0 => held'[i] < instant) /\ m < held'[i]
  BY <1>1, <1>2, <1>3 DEF SpikeInv
<1>5. \A i, j \in 1..Len(held') : i < j => held'[i] < held'[j]
  BY <1>1, <1>2, <1>3 DEF SpikeInv
<1>6. NextMade' \in Nat /\ m + 1 <= NextMade'
  <2>1. CASE held' = <<>>
    BY SMTT(20), <1>1, <1>2, <2>1 DEF NextMade
  <2>2. CASE held' # <<>>
    <3>1. 1 \in 1..Len(held') /\ held' \in Seq(Nat)
      BY <1>1, <2>2
    <3>2. m < held'[1] /\ held'[1] \in Nat
      BY <1>4, <3>1
    <3> QED
      BY <1>2, <2>2, <3>2 DEF NextMade
  <2> QED
    BY <2>1, <2>2
<1>7. held' # <<>> => instant - held'[1] <= MaxLag
  <2> SUFFICES ASSUME held' # <<>> PROVE instant - held'[1] <= MaxLag
    OBVIOUS
  <2>1. 1 \in 1..Len(held') /\ held'[1] \in Nat
    BY SMTT(20), <1>1
  <2>2. m < held'[1] /\ instant - m <= MaxLag /\ m \in Nat
    BY <1>2, <1>4, <2>1
  <2> HIDE DEF m
  <2> QED
    BY SMTT(20), <1>1, <2>1, <2>2
<1>8. timer.started => /\ b \in Int /\ b <= MaxLag - instant + m /\ ~Flags(timer, instant)
  <2> SUFFICES ASSUME timer.started PROVE b \in Int /\ b <= MaxLag - instant + m /\ ~Flags(timer, instant)
    OBVIOUS
  <2>1. timer.balance + timer.last + 1 <= MaxLag + m
    BY <1>1 DEF SpikeInv, NextMade
  <2>2. b = IF timer.balance + 1 - (instant - timer.last) >= -TimerMaxBank
            THEN timer.balance + 1 - (instant - timer.last) ELSE -TimerMaxBank
    BY <1>1, BankedIs
  <2> HIDE DEF b
  <2>6. timer.balance \in Int /\ timer.last \in Nat /\ m \in Nat /\ instant - m <= MaxLag
    BY <1>1, <1>2
  <2> HIDE DEF m
  <2>3. b \in Int /\ b <= MaxLag - instant + m
    BY SMTT(20), <1>1, <2>1, <2>2, <2>6
  <2>4. b <= TimerTolerance
    BY <1>1, <1>2, <2>3
  <2>5. ~(b > TimerTolerance)
    BY <1>1, <2>3, <2>4
  <2> QED
    BY <2>3, <2>5 DEF Flags, b
<1>9. ~ahead' /\ (timer' = timer \/ timer' = [started |-> TRUE, last |-> instant, balance |-> IF timer.started THEN b ELSE 0])
  <2>1. CASE TokensAt(bucket, instant) < 1
    BY <2>1 DEF PacketArrives, SpikeInv
  <2>2. CASE ~(TokensAt(bucket, instant) < 1)
    <3>1. timer' = Balanced(timer, instant) /\ ahead' = (ahead \/ Flags(timer, instant))
      BY <2>2 DEF PacketArrives
    <3>2. ~ahead
      BY DEF SpikeInv
    <3>3. ~Flags(timer, instant)
      BY <1>8 DEF Flags
    <3>4. timer' = [started |-> TRUE, last |-> instant, balance |-> IF timer.started THEN b ELSE 0]
      BY <3>1, <3>3 DEF Balanced, Flags
    <3>5. ~ahead'
      BY <3>1, <3>2, <3>3
    <3> QED
      BY <3>4, <3>5
  <2> QED
    BY <2>1, <2>2
<1>10. timer'.started => timer'.last <= instant /\ timer'.balance + timer'.last + 1 <= MaxLag + NextMade'
  <2>1. CASE timer' = timer
    <3>1. NextMade = m
      BY <1>1 DEF NextMade
    <3>2. timer.started => timer.last <= instant /\ timer.balance + timer.last + 1 <= MaxLag + NextMade
      BY DEF SpikeInv
    <3>3. timer.started => timer.balance \in Int /\ timer.last \in Nat
      BY <1>1
    <3> HIDE DEF m
    <3>4. m \in Nat /\ NextMade' \in Nat /\ m + 1 <= NextMade'
      BY <1>2, <1>6
    <3>5. \A b1, l, g, k, n \in Int : k + 1 <= n /\ b1 + l + 1 <= g + k => b1 + l + 1 <= g + n
      OBVIOUS
    <3>6. ASSUME timer.started PROVE timer.balance + timer.last + 1 <= MaxLag + NextMade'
      <4>1. timer.balance + timer.last + 1 <= MaxLag + m
        BY <3>1, <3>2, <3>6
      <4>2. timer.balance \in Int /\ timer.last \in Int /\ MaxLag \in Int /\ m \in Int /\ NextMade' \in Int
        BY <3>3, <3>4, <3>6
      <4> QED
        BY <3>4, <3>5, <4>1, <4>2
    <3> QED
      BY <2>1, <3>2, <3>6
  <2>2. CASE timer' = [started |-> TRUE, last |-> instant, balance |-> IF timer.started THEN b ELSE 0]
    <3>1. timer'.last = instant /\ timer'.balance = IF timer.started THEN b ELSE 0
      BY <2>2
    <3>2. m \in Nat /\ m <= instant /\ instant - m <= MaxLag /\ m + 1 <= NextMade' /\ NextMade' \in Nat
      BY <1>2, <1>6
    <3> HIDE DEF b, m
    <3>6. \A x, y, l, n \in Int : x - y <= l /\ y + 1 <= n => 0 + x + 1 <= l + n
      OBVIOUS
    <3>7. instant \in Int /\ MaxLag \in Int /\ m \in Int /\ NextMade' \in Int
      BY <1>1, <3>2
    <3>3. 0 + instant + 1 <= MaxLag + NextMade'
      BY <3>2, <3>6, <3>7
    <3>4. timer.started => b + instant + 1 <= MaxLag + NextMade'
      BY <1>1, <1>8, <3>2
    <3>5. timer'.balance + timer'.last + 1 <= MaxLag + NextMade'
      BY <3>1, <3>3, <3>4
    <3> QED
      BY <1>1, <3>1, <3>5
  <2> QED
    BY <1>9, <2>1, <2>2
<1> QED
  BY <1>1, <1>4, <1>5, <1>7, <1>9, <1>10 DEF SpikeInv

\* A client that makes at most one packet a tick is never flagged, as long as no packet
\* is held back for longer than the tolerance (timer.go Move).
THEOREM SpikesAreForgiven ==
    ASSUME PerTick = 1, MaxLag \in Nat, MaxLag <= TimerTolerance PROVE PaceSpec => []SpikeForgiven
<1>1. PaceInit => SpikeInv
  <2> SUFFICES ASSUME PaceInit PROVE SpikeInv
    OBVIOUS
  <2>1. PaceInv
    BY PaceStarts
  <2>2. Len(held) = 0 /\ held = <<>>
    BY DEF PaceInit
  <2> QED
    BY <2>1, <2>2 DEF PaceInit, SpikeInv
<1>2. SpikeInv /\ [PaceNext]_paceVars => SpikeInv'
  <2> SUFFICES ASSUME SpikeInv, [PaceNext]_paceVars PROVE SpikeInv'
    OBVIOUS
  <2>1. PaceInv'
    BY PaceSteps DEF SpikeInv
  <2>2. CASE UNCHANGED paceVars
    BY <2>1, <2>2 DEF paceVars, SpikeInv, NextMade
  <2> QED
    BY <2>1, <2>2, SpikePlays, SpikeTicks, SpikeArrives DEF PaceNext
<1>3. SpikeInv => SpikeForgiven
  BY DEF SpikeInv, SpikeForgiven
<1> QED
  BY <1>1, <1>2, <1>3, PTL DEF PaceSpec

-----------------------------------------------------------------------------
(* What an honest client has seen.                                         *)

Spots == [era : Nat, step : Nat]
ToClient == [kind : {"sync", "ping", "push"}, id : Nat, spot : Spots]
FromClient == [kind : {"confirm", "move", "pong"}, id : Nat, spot : Spots]
Jobs == [at : {"idle", "begin", "sync", "judge", "apply", "number", "ping"}, id : Nat, spot : Spots]

WatchTypes ==
    /\ serverAt \in Spots /\ clientAt \in Spots
    /\ teleports \in [next : Nat, pending : Seq(Nat)]
    /\ pings = [next |-> pings.next, pending |-> pings.pending] /\ pings.next \in Nat
    /\ handOf \in [WatchHand -> Jobs]
    /\ toView \in Seq(ToClient) /\ toWatch \in Seq(FromClient)
    /\ watchEvents \in Nat /\ serverAt.era <= watchEvents

\* The ids that wait for their confirm grow, up to the last one given out.
Rising ==
    /\ \A i \in 1..Len(teleports.pending) : teleports.pending[i] <= teleports.next
    /\ \A i, j \in 1..Len(teleports.pending) : i < j => teleports.pending[i] < teleports.pending[j]

\* The reader alone teleports.
HandsOf ==
    /\ \A t \in WatchHand \ {Reader} : handOf[t].at \in {"idle", "number", "ping"}
    /\ handOf[Reader].at \in {"begin", "sync", "judge", "apply"} => handOf[Reader].spot.era = serverAt.era
    /\ handOf[Reader].at = "sync" => handOf[Reader].id = teleports.next

NewestWaits ==
    /\ teleports.pending # <<>> /\ teleports.pending[Len(teleports.pending)] = teleports.next
SyncsUpTo(n) == \A k \in 1..Len(toView) : toView[k].kind = "sync" => toView[k].id <= n
ConfirmsUpTo(n) == \A k \in 1..Len(toWatch) : toWatch[k].kind = "confirm" => toWatch[k].id <= n
NoSync == \A k \in 1..Len(toView) : toView[k].kind # "sync"

\* Where the newest teleport is: in the reader's hand, on its way to the client, on its
\* way back, or done with.
InHand == NewestWaits /\ SyncsUpTo(teleports.next - 1) /\ ConfirmsUpTo(teleports.next - 1)

GoesAt(k) ==
    /\ toView[k].kind = "sync" /\ toView[k].id = teleports.next /\ toView[k].spot.era = serverAt.era
    /\ \A j \in 1..Len(toView) : toView[j].kind = "sync" /\ j # k => j < k /\ toView[j].id < teleports.next

OnItsWay == NewestWaits /\ ConfirmsUpTo(teleports.next - 1) /\ \E k \in 1..Len(toView) : GoesAt(k)

ComesAt(k) ==
    /\ toWatch[k].kind = "confirm" /\ toWatch[k].id = teleports.next
    /\ \A j \in 1..Len(toWatch) :
          /\ toWatch[j].kind = "confirm" /\ j # k => toWatch[j].id < teleports.next
          /\ toWatch[j].kind = "move" /\ k < j => toWatch[j].spot.era = serverAt.era

Answered == NewestWaits /\ NoSync /\ clientAt.era = serverAt.era /\ \E k \in 1..Len(toWatch) : ComesAt(k)

DoneWith ==
    /\ teleports.pending = <<>> /\ NoSync /\ clientAt.era = serverAt.era
    /\ \A j \in 1..Len(toWatch) : toWatch[j].kind = "move" => toWatch[j].spot.era = serverAt.era

WatchInv ==
    /\ WatchTypes /\ Rising /\ HandsOf /\ SyncsUpTo(teleports.next) /\ ConfirmsUpTo(teleports.next)
    /\ handOf[Reader].at = "sync" => InHand
    /\ handOf[Reader].at \notin {"begin", "sync"} => OnItsWay \/ Answered \/ DoneWith

LEMMA OneOff ==
    ASSUME NEW S, NEW s \in Seq(S), s # <<>>
    PROVE  /\ Head(s) = s[1] /\ Head(s) \in S /\ Len(s) \in Nat \ {0}
           /\ Tail(s) \in Seq(S) /\ Len(Tail(s)) = Len(s) - 1
           /\ \A i \in 1..Len(Tail(s)) : Tail(s)[i] = s[i + 1]
OBVIOUS

LEMMA TwoOn ==
    ASSUME NEW S, NEW s \in Seq(S), NEW x \in S, NEW y \in S
    PROVE  /\ s \o <<x, y>> \in Seq(S) /\ Len(s \o <<x, y>>) = Len(s) + 2
           /\ (s \o <<x, y>>)[Len(s) + 1] = x /\ (s \o <<x, y>>)[Len(s) + 2] = y
           /\ \A i \in 1..Len(s) : (s \o <<x, y>>)[i] = s[i]
<1>1. <<x, y>> \in Seq(S) /\ Len(<<x, y>>) = 2
  OBVIOUS
<1> QED
  BY <1>1, ConcatProperties

\* What touches neither the wire nor the teleports.
LEMMA WatchStays ==
    ASSUME WatchInv, WatchTypes', HandsOf', serverAt'.era = serverAt.era,
           UNCHANGED <<clientAt, teleports, toView, toWatch>>,
           handOf'[Reader].at = "sync" => handOf[Reader].at = "sync",
           handOf'[Reader].at \notin {"begin", "sync"} => handOf[Reader].at \notin {"begin", "sync"}
    PROVE  WatchInv'
<1>1. Rising' /\ SyncsUpTo(teleports.next)' /\ ConfirmsUpTo(teleports.next)'
  BY DEF WatchInv, Rising, SyncsUpTo, ConfirmsUpTo
<1>2. InHand => InHand'
  BY DEF InHand, NewestWaits, SyncsUpTo, ConfirmsUpTo
<1>3. OnItsWay => OnItsWay'
  BY DEF OnItsWay, NewestWaits, ConfirmsUpTo, GoesAt
<1>4. Answered => Answered'
  BY DEF Answered, NewestWaits, NoSync, ComesAt
<1>5. DoneWith => DoneWith'
  BY DEF DoneWith, NoSync
<1> QED
  BY <1>1, <1>2, <1>3, <1>4, <1>5 DEF WatchInv

\* A packet that is no sync is added to what goes to the client.
LEMMA MoreToView ==
    ASSUME WatchInv, NEW m \in ToClient, m.kind # "sync", toView' = Append(toView, m),
           WatchTypes', HandsOf', UNCHANGED <<serverAt, clientAt, teleports, toWatch>>,
           handOf'[Reader].at = "sync" => handOf[Reader].at = "sync",
           handOf'[Reader].at \notin {"begin", "sync"} => handOf[Reader].at \notin {"begin", "sync"}
    PROVE  WatchInv'
<1>1. /\ Len(toView) \in Nat /\ Len(toView') = Len(toView) + 1 /\ toView'[Len(toView) + 1] = m
      /\ \A i \in 1..Len(toView) : toView'[i] = toView[i]
  <2>1. toView \in Seq(ToClient)
    BY DEF WatchInv, WatchTypes
  <2> QED
    BY <2>1, OneOn
<1>2. \A n : SyncsUpTo(n) => \A k \in 1..Len(toView') : toView'[k].kind = "sync" => toView'[k].id <= n
  BY <1>1 DEF SyncsUpTo
<1>3. Rising' /\ SyncsUpTo(teleports.next)' /\ ConfirmsUpTo(teleports.next)'
  BY <1>2 DEF WatchInv, Rising, SyncsUpTo, ConfirmsUpTo
<1>4. InHand => InHand'
  BY <1>2 DEF InHand, NewestWaits, SyncsUpTo, ConfirmsUpTo
<1>5. OnItsWay => OnItsWay'
  <2> SUFFICES ASSUME OnItsWay PROVE OnItsWay'
    OBVIOUS
  <2>1. PICK k \in 1..Len(toView) : GoesAt(k)
    BY DEF OnItsWay
  <2>2. k \in 1..Len(toView') /\ toView'[k] = toView[k]
    BY <1>1
  <2>3. ASSUME NEW j \in 1..Len(toView'), toView'[j].kind = "sync", j # k
        PROVE  j < k /\ toView'[j].id < teleports.next
    <3>1. j \in 1..Len(toView) /\ toView'[j] = toView[j]
      BY <1>1, <2>3
    <3> QED
      BY <2>1, <2>3, <3>1 DEF GoesAt
  <2>4. NewestWaits' /\ ConfirmsUpTo(teleports.next - 1)'
    BY DEF OnItsWay, NewestWaits, ConfirmsUpTo
  <2>5. GoesAt(k)'
    <3>1. toView'[k].kind = "sync" /\ toView'[k].id = teleports.next /\ toView'[k].spot.era = serverAt.era
      BY <2>1, <2>2 DEF GoesAt
    <3> QED
      BY <2>3, <3>1 DEF GoesAt
  <2> QED
    BY <2>2, <2>4, <2>5 DEF OnItsWay
<1>6. NoSync => NoSync'
  BY <1>1 DEF NoSync
<1>7. Answered => Answered'
  BY <1>6 DEF Answered, NewestWaits, ComesAt
<1>8. DoneWith => DoneWith'
  BY <1>6 DEF DoneWith
<1> QED
  BY <1>3, <1>4, <1>5, <1>7, <1>8 DEF WatchInv

\* The list settles everything up to the id confirmed.
LEMMA Confirming ==
    ASSUME NEW s \in Seq(Nat), NEW i \in 1..Len(s)
    PROVE  /\ Remaining(s, i) \in Seq(Nat) /\ Len(Remaining(s, i)) = Len(s) - i
           /\ \A j \in 1..(Len(s) - i) : Remaining(s, i)[j] = s[i + j]
<1>1. i + 1 \in 1..(Len(s) + 1) /\ Len(s) \in 0..Len(s) /\ Len(s) \in Nat
  OBVIOUS
<1>2. CASE i = Len(s)
  <2>1. Remaining(s, i) = <<>>
    BY <1>1, <1>2 DEF Remaining
  <2> QED
    BY <1>1, <1>2, <2>1
<1>3. CASE i # Len(s)
  <2>1. i + 1 \in 1..Len(s)
    BY <1>1, <1>3
  <2>2. Remaining(s, i) = SubSeq(s, i + 1, Len(s))
    BY DEF Remaining
  <2>3. /\ SubSeq(s, i + 1, Len(s)) \in Seq(Nat) /\ Len(SubSeq(s, i + 1, Len(s))) = Len(s) - i
        /\ \A j \in 1..(Len(s) - i) : SubSeq(s, i + 1, Len(s))[j] = s[i + j]
    BY <1>1, <2>1
  <2> QED
    BY <2>2, <2>3
<1> QED
  BY <1>2, <1>3

\* A packet that is no confirm, and a move from where the client then is, is added to
\* what comes from it.
LEMMA MoreToWatch ==
    ASSUME WatchInv, NEW m \in FromClient, m.kind # "confirm", m.kind = "move" => m.spot.era = clientAt.era,
           toWatch' = Append(toWatch, m), clientAt'.era = clientAt.era,
           WatchTypes', HandsOf', UNCHANGED <<serverAt, teleports, handOf, toView>>
    PROVE  WatchInv'
<1>1. /\ Len(toWatch) \in Nat /\ Len(toWatch') = Len(toWatch) + 1 /\ toWatch'[Len(toWatch) + 1] = m
      /\ \A i \in 1..Len(toWatch) : toWatch'[i] = toWatch[i]
  <2>1. toWatch \in Seq(FromClient)
    BY DEF WatchInv, WatchTypes
  <2> QED
    BY <2>1, OneOn
<1>2. \A n : ConfirmsUpTo(n) => \A k \in 1..Len(toWatch') : toWatch'[k].kind = "confirm" => toWatch'[k].id <= n
  BY <1>1 DEF ConfirmsUpTo
<1>3. Rising' /\ SyncsUpTo(teleports.next)' /\ ConfirmsUpTo(teleports.next)'
  BY <1>2 DEF WatchInv, Rising, SyncsUpTo, ConfirmsUpTo
<1>4. InHand => InHand'
  BY <1>2 DEF InHand, NewestWaits, SyncsUpTo, ConfirmsUpTo
<1>5. OnItsWay => OnItsWay'
  BY <1>2 DEF OnItsWay, NewestWaits, ConfirmsUpTo, GoesAt
<1>6. Answered => Answered'
  <2> SUFFICES ASSUME Answered PROVE Answered'
    OBVIOUS
  <2>1. PICK k \in 1..Len(toWatch) : ComesAt(k)
    BY DEF Answered
  <2>2. k \in 1..Len(toWatch') /\ toWatch'[k] = toWatch[k]
    BY <1>1
  <2>3. ASSUME NEW j \in 1..Len(toWatch')
        PROVE  /\ toWatch'[j].kind = "confirm" /\ j # k => toWatch'[j].id < teleports.next
               /\ toWatch'[j].kind = "move" /\ k < j => toWatch'[j].spot.era = serverAt.era
    <3>1. CASE j \in 1..Len(toWatch)
      BY <1>1, <2>1, <3>1 DEF ComesAt
    <3>2. CASE j = Len(toWatch) + 1
      BY <1>1, <3>2 DEF Answered
    <3> QED
      BY <1>1, <3>1, <3>2
  <2>4. NewestWaits' /\ NoSync' /\ clientAt'.era = serverAt'.era
    BY DEF Answered, NewestWaits, NoSync
  <2>5. ComesAt(k)'
    <3>1. toWatch'[k].kind = "confirm" /\ toWatch'[k].id = teleports.next
      BY <2>1, <2>2 DEF ComesAt
    <3> QED
      BY <2>3, <3>1 DEF ComesAt
  <2> QED
    BY <2>2, <2>4, <2>5 DEF Answered
<1>7. DoneWith => DoneWith'
  <2> SUFFICES ASSUME DoneWith PROVE DoneWith'
    OBVIOUS
  <2>1. ASSUME NEW j \in 1..Len(toWatch'), toWatch'[j].kind = "move"
        PROVE  toWatch'[j].spot.era = serverAt.era
    <3>1. CASE j \in 1..Len(toWatch)
      BY <1>1, <2>1, <3>1 DEF DoneWith
    <3>2. CASE j = Len(toWatch) + 1
      BY <1>1, <2>1, <3>2 DEF DoneWith
    <3> QED
      BY <1>1, <3>1, <3>2
  <2> QED
    BY <2>1 DEF DoneWith, NoSync
<1> QED
  BY <1>3, <1>4, <1>5, <1>6, <1>7 DEF WatchInv

\* The first packet is taken off what comes from the client.
LEMMA LessToWatch ==
    ASSUME WatchInv, toWatch # <<>>, toWatch' = Tail(toWatch), WatchTypes',
           UNCHANGED <<serverAt, clientAt, toView>>, teleports'.next = teleports.next
    PROVE  /\ SyncsUpTo(teleports.next)' /\ ConfirmsUpTo(teleports.next)'
           /\ Head(toWatch) = toWatch[1] /\ Head(toWatch) \in FromClient /\ 1 \in 1..Len(toWatch)
           /\ NewestWaits' /\ OnItsWay => OnItsWay'
           /\ DoneWith /\ teleports'.pending = <<>> => DoneWith'
           /\ NewestWaits' /\ Answered /\ ~ComesAt(1) => Answered'
           /\ ComesAt(1) /\ Answered /\ teleports'.pending = <<>> => DoneWith'
<1>1. /\ Head(toWatch) = toWatch[1] /\ Head(toWatch) \in FromClient
      /\ Len(toWatch) \in Nat \ {0} /\ Len(toWatch') = Len(toWatch) - 1
      /\ \A i \in 1..Len(toWatch') : toWatch'[i] = toWatch[i + 1]
  <2>1. toWatch \in Seq(FromClient)
    BY DEF WatchInv, WatchTypes
  <2> QED
    BY <2>1, OneOff
<1>2. \A i \in 1..Len(toWatch') : i + 1 \in 1..Len(toWatch)
  BY <1>1
<1>3. \A n : ConfirmsUpTo(n) => \A k \in 1..Len(toWatch') : toWatch'[k].kind = "confirm" => toWatch'[k].id <= n
  BY <1>1, <1>2 DEF ConfirmsUpTo
<1>4. SyncsUpTo(teleports.next)' /\ ConfirmsUpTo(teleports.next)'
  BY <1>3 DEF WatchInv, SyncsUpTo, ConfirmsUpTo
<1>5. 1 \in 1..Len(toWatch)
  BY <1>1
<1>6. NewestWaits' /\ OnItsWay => OnItsWay'
  BY <1>3 DEF OnItsWay, ConfirmsUpTo, GoesAt
<1>7. DoneWith /\ teleports'.pending = <<>> => DoneWith'
  BY <1>1, <1>2 DEF DoneWith, NoSync
<1>8. ASSUME NewestWaits', Answered, ~ComesAt(1)
      PROVE  Answered'
  <2>1. PICK k \in 1..Len(toWatch) : ComesAt(k)
    BY <1>8 DEF Answered
  <2>2. k # 1
    BY <1>8, <2>1
  <2>3. k - 1 \in 1..Len(toWatch') /\ toWatch'[k - 1] = toWatch[k]
    <3>1. k - 1 \in 1..Len(toWatch')
      BY <1>1, <2>2
    <3>2. (k - 1) + 1 = k
      OBVIOUS
    <3> QED
      BY <1>1, <3>1, <3>2
  <2>4. ASSUME NEW j \in 1..Len(toWatch')
        PROVE  /\ toWatch'[j].kind = "confirm" /\ j # k - 1 => toWatch'[j].id < teleports.next
               /\ toWatch'[j].kind = "move" /\ k - 1 < j => toWatch'[j].spot.era = serverAt.era
    <3>1. toWatch'[j] = toWatch[j + 1] /\ j + 1 \in 1..Len(toWatch)
      BY <1>1, <1>2
    <3>2. (j # k - 1 => j + 1 # k) /\ (k - 1 < j => k < j + 1)
      OBVIOUS
    <3> QED
      BY <2>1, <3>1, <3>2 DEF ComesAt
  <2>5. toWatch'[k - 1].kind = "confirm" /\ toWatch'[k - 1].id = teleports.next
    BY <2>1, <2>3 DEF ComesAt
  <2>6. ComesAt(k - 1)'
    BY <2>4, <2>5 DEF ComesAt
  <2>7. NoSync' /\ clientAt'.era = serverAt'.era
    BY <1>8 DEF Answered, NoSync
  <2> QED
    BY <1>8, <2>3, <2>6, <2>7 DEF Answered
<1>9. ASSUME ComesAt(1), Answered, teleports'.pending = <<>>
      PROVE  DoneWith'
  <2>1. ASSUME NEW j \in 1..Len(toWatch'), toWatch'[j].kind = "move"
        PROVE  toWatch'[j].spot.era = serverAt.era
    <3>1. toWatch'[j] = toWatch[j + 1] /\ j + 1 \in 1..Len(toWatch) /\ 1 < j + 1
      BY <1>1, <1>2
    <3> QED
      BY <1>9, <2>1, <3>1 DEF ComesAt
  <2> QED
    BY <1>9, <2>1 DEF DoneWith, Answered, NoSync
<1> QED
  BY <1>1, <1>4, <1>5, <1>6, <1>7, <1>8, <1>9

LEMMA SpotsFit ==
    /\ \A e, p \in Nat : Spot(e, p) \in Spots /\ Spot(e, p).era = e
    /\ Start \in Spots
    /\ \A id \in Nat, sp \in Spots :
          /\ \A at \in {"idle", "begin", "sync", "judge", "apply", "number", "ping"} :
                /\ Job(at, id, sp) \in Jobs
                /\ Job(at, id, sp).at = at /\ Job(at, id, sp).id = id /\ Job(at, id, sp).spot = sp
          /\ \A k \in {"sync", "ping", "push"} :
                Message(k, id, sp) \in ToClient /\ Message(k, id, sp).kind = k /\ Message(k, id, sp).id = id
                /\ Message(k, id, sp).spot = sp
          /\ \A k \in {"confirm", "move", "pong"} :
                Message(k, id, sp) \in FromClient /\ Message(k, id, sp).kind = k /\ Message(k, id, sp).id = id
                /\ Message(k, id, sp).spot = sp
    /\ NoTeleport \in Jobs /\ NoTeleport.at = "idle"
BY DEF Spot, Spots, Start, Job, Jobs, Message, ToClient, FromClient, NoTeleport

\* A hand turns to its next task.
LEMMA TurnsTo ==
    ASSUME WatchTypes, NEW t \in WatchHand, NEW task \in Jobs, TurnTo(t, task)
    PROVE  /\ handOf' \in [WatchHand -> Jobs] /\ handOf'[t] = task
           /\ \A u \in WatchHand \ {t} : handOf'[u] = handOf[u]
           /\ Reader \in WatchHand /\ handOf[t] \in Jobs /\ handOf[Reader] \in Jobs
BY DEF WatchTypes, TurnTo, WatchHand

\* A hand that turns to a Ping, or to nothing, leaves the teleports alone.
LEMMA HandsStay ==
    ASSUME HandsOf, NEW t \in WatchHand, UNCHANGED <<serverAt, teleports>>,
           handOf'[t].at \in {"idle", "number", "ping"},
           \A u \in WatchHand \ {t} : handOf'[u] = handOf[u]
    PROVE  HandsOf'
<1>1. CASE t = Reader
  BY <1>1 DEF HandsOf
<1>2. CASE t # Reader
  <2>1. handOf'[Reader] = handOf[Reader]
    BY <1>2 DEF WatchHand
  <2>2. ASSUME NEW u \in WatchHand \ {Reader}
        PROVE  handOf'[u].at \in {"idle", "number", "ping"}
    BY DEF HandsOf
  <2> QED
    BY <2>1, <2>2 DEF HandsOf
<1> QED
  BY <1>1, <1>2

LEMMA TeleportKeeps ==
    ASSUME WatchInv, Teleporters = {Reader}, MaxWatchEvents \in Nat, NEW t \in WatchHand, TeleportPlayer(t)
    PROVE  WatchInv'
<1>1. t = Reader /\ WatchTypes
  BY DEF TeleportPlayer, WatchInv
<1>2. Spot(watchEvents + 1, 0) \in Spots /\ Spot(watchEvents + 1, 0).era = watchEvents + 1
  <2>1. watchEvents + 1 \in Nat /\ 0 \in Nat
    BY <1>1 DEF WatchTypes
  <2> QED
    BY SMTT(20), <2>1, SpotsFit
<1> DEFINE task == Job("begin", 0, Spot(watchEvents + 1, 0))
<1>3. task \in Jobs /\ task.at = "begin" /\ task.spot.era = watchEvents + 1
  BY <1>2, SpotsFit
<1>4. TurnTo(t, task)
  BY DEF TeleportPlayer
<1> HIDE DEF task
<1>5. /\ handOf' \in [WatchHand -> Jobs] /\ handOf'[Reader] = task
      /\ \A u \in WatchHand \ {Reader} : handOf'[u] = handOf[u]
  BY <1>1, <1>3, <1>4, TurnsTo
<1>6. WatchTypes'
  BY <1>1, <1>2, <1>5 DEF WatchTypes, TeleportPlayer
<1>7. HandsOf'
  BY <1>2, <1>3, <1>5 DEF HandsOf, WatchInv, TeleportPlayer
<1>8. Rising' /\ SyncsUpTo(teleports.next)' /\ ConfirmsUpTo(teleports.next)'
  BY DEF WatchInv, Rising, SyncsUpTo, ConfirmsUpTo, TeleportPlayer
<1> QED
  BY <1>3, <1>5, <1>6, <1>7, <1>8 DEF WatchInv

\* A new id goes to the end of the list, which may lose its oldest.
LEMMA Listed ==
    ASSUME NEW s \in Seq(Nat), NEW n \in Nat,
           \A i \in 1..Len(s) : s[i] <= n,
           \A i, j \in 1..Len(s) : i < j => s[i] < s[j]
    PROVE  LET r == Append(s, n + 1)
           IN  /\ r \in Seq(Nat) /\ r # <<>> /\ r[Len(r)] = n + 1
               /\ \A i \in 1..Len(r) : r[i] <= n + 1
               /\ \A i, j \in 1..Len(r) : i < j => r[i] < r[j]
<1> DEFINE r == Append(s, n + 1)
<1>1. /\ r \in Seq(Nat) /\ Len(r) = Len(s) + 1 /\ r[Len(s) + 1] = n + 1
      /\ \A i \in 1..Len(s) : r[i] = s[i]
  BY OneOn
<1> HIDE DEF r
<1>2. Len(s) \in Nat /\ \A i \in 1..Len(s) : s[i] \in Nat
  OBVIOUS
<1>3. r # <<>>
  BY <1>1, <1>2
<1>4. \A i \in 1..Len(r) : i \in 1..Len(s) \/ i = Len(s) + 1
  BY <1>1, <1>2
<1>5. \A i \in 1..Len(r) : r[i] <= n + 1
  BY <1>1, <1>2, <1>4
<1>6. ASSUME NEW i \in 1..Len(r), NEW j \in 1..Len(r), i < j
      PROVE  r[i] < r[j]
  <2>1. i \in 1..Len(s)
    BY <1>1, <1>2, <1>6
  <2>2. CASE j \in 1..Len(s)
    BY <1>1, <1>6, <2>1, <2>2
  <2>3. CASE j = Len(s) + 1
    <3>1. r[i] = s[i] /\ s[i] \in Nat /\ s[i] <= n /\ r[j] = n + 1
      BY <1>1, <1>2, <2>1, <2>3
    <3> QED
      BY <3>1
  <2> QED
    BY <1>4, <2>2, <2>3
<1> QED
  BY <1>1, <1>3, <1>5, <1>6 DEF r

LEMMA BeginKeeps ==
    ASSUME WatchInv, NEW t \in WatchHand, BeginTeleport(t)
    PROVE  WatchInv'
<1>1. WatchTypes /\ handOf[t].at = "begin"
  BY DEF BeginTeleport, WatchInv, Doing
<1>2. t = Reader
  BY <1>1 DEF WatchInv, HandsOf
<1> DEFINE id == teleports.next + 1
           kept == IF Len(teleports.pending) >= MaxPendingTeleports THEN Tail(teleports.pending) ELSE teleports.pending
           task == Job("sync", id, handOf[t].spot)
<1>3. /\ teleports.next \in Nat /\ teleports.pending \in Seq(Nat) /\ id \in Nat /\ handOf[t] \in Jobs
      /\ handOf[t].spot \in Spots
  BY <1>1 DEF WatchTypes, Jobs
<1>4. task \in Jobs /\ task.at = "sync" /\ task.id = id /\ task.spot = handOf[t].spot
  <2>1. \A i \in Nat, sp \in Spots :
           LET b == Job("sync", i, sp) IN b \in Jobs /\ b.at = "sync" /\ b.id = i /\ b.spot = sp
    BY DEF Job, Jobs
  <2> QED
    BY <1>3, <2>1
<1>5. TurnTo(t, task) /\ teleports' = [next |-> id, pending |-> Append(kept, id)]
  BY DEF BeginTeleport
<1>6. /\ kept \in Seq(Nat) /\ \A i \in 1..Len(kept) : kept[i] <= teleports.next
      /\ \A i, j \in 1..Len(kept) : i < j => kept[i] < kept[j]
  <2>1. CASE Len(teleports.pending) >= MaxPendingTeleports
    <3>1. teleports.pending # <<>>
      BY <1>3, <2>1, WatchAssumption
    <3>2. kept = Tail(teleports.pending)
      BY <2>1
    <3> HIDE DEF kept
    <3>3. /\ kept \in Seq(Nat) /\ Len(teleports.pending) \in Nat /\ Len(kept) = Len(teleports.pending) - 1
          /\ \A i \in 1..Len(kept) : kept[i] = teleports.pending[i + 1]
      BY <1>3, <3>1, <3>2, OneOff
    <3>4. \A i \in 1..Len(kept) : i + 1 \in 1..Len(teleports.pending)
      BY <3>3
    <3>5. \A i, j \in 1..Len(kept) : i < j => i + 1 < j + 1
      BY <3>3
    <3> QED
      BY <3>3, <3>4, <3>5 DEF WatchInv, Rising
  <2>2. CASE ~(Len(teleports.pending) >= MaxPendingTeleports)
    BY <1>3, <2>2 DEF WatchInv, Rising
  <2> QED
    BY <2>1, <2>2
<1> HIDE DEF task, kept
<1>7. /\ handOf' \in [WatchHand -> Jobs] /\ handOf'[Reader] = task
      /\ \A u \in WatchHand \ {Reader} : handOf'[u] = handOf[u]
  BY <1>1, <1>2, <1>4, <1>5, TurnsTo
<1>8. /\ teleports'.pending \in Seq(Nat) /\ NewestWaits' /\ Rising' /\ teleports'.next = id
  BY <1>3, <1>5, <1>6, Listed DEF NewestWaits, Rising
<1>9. WatchTypes'
  BY <1>1, <1>3, <1>5, <1>7, <1>8 DEF WatchTypes, BeginTeleport
<1>10. HandsOf'
  BY <1>1, <1>2, <1>4, <1>7, <1>8 DEF HandsOf, WatchInv, BeginTeleport
<1>11. teleports'.next - 1 = teleports.next
  BY <1>3, <1>8
<1>12. SyncsUpTo(teleports.next - 1)' /\ ConfirmsUpTo(teleports.next - 1)'
  BY <1>11 DEF WatchInv, SyncsUpTo, ConfirmsUpTo, BeginTeleport
<1>13. SyncsUpTo(teleports.next)' /\ ConfirmsUpTo(teleports.next)'
  <2>1. /\ \A k \in 1..Len(toView) : toView[k].kind = "sync" => toView[k].id \in Nat
        /\ \A k \in 1..Len(toWatch) : toWatch[k].kind = "confirm" => toWatch[k].id \in Nat
    <3>1. toView \in Seq(ToClient) /\ toWatch \in Seq(FromClient)
      BY <1>1 DEF WatchTypes
    <3>2. /\ \A k \in 1..Len(toView) : toView[k] \in ToClient
          /\ \A k \in 1..Len(toWatch) : toWatch[k] \in FromClient
      BY <3>1
    <3>3. (\A m \in ToClient : m.id \in Nat) /\ (\A m \in FromClient : m.id \in Nat)
      BY DEF ToClient, FromClient
    <3> QED
      BY <3>2, <3>3
  <2>2. \A k \in Nat : k <= teleports.next => k <= id
    BY <1>3
  <2> HIDE DEF id
  <2> QED
    BY <1>8, <2>1, <2>2 DEF WatchInv, SyncsUpTo, ConfirmsUpTo, BeginTeleport
<1> QED
  BY <1>4, <1>7, <1>8, <1>9, <1>10, <1>12, <1>13 DEF WatchInv, InHand

LEMMA ConfirmKeeps ==
    ASSUME WatchInv, TakeConfirm
    PROVE  WatchInv'
<1>1. WatchTypes /\ handOf[Reader].at = "idle" /\ toWatch # <<>> /\ Head(toWatch).kind = "confirm"
  BY DEF TakeConfirm, WatchInv, Doing
<1>2. /\ toWatch' = Tail(toWatch)
      /\ UNCHANGED <<serverAt, clientAt, pings, handOf, toView, watchEvents>>
  BY DEF TakeConfirm
<1>3. teleports.next \in Nat /\ teleports.pending \in Seq(Nat) /\ Len(teleports.pending) \in Nat
  BY <1>1 DEF WatchTypes
<1>4. OnItsWay \/ Answered \/ DoneWith
  BY <1>1 DEF WatchInv
<1>5. toWatch' \in Seq(FromClient)
  BY <1>1, <1>2, OneOff DEF WatchTypes
<1>6. (\E i \in 1..Len(teleports.pending) : teleports.pending[i] = Head(toWatch).id
          /\ teleports' = [teleports EXCEPT !.pending = Remaining(@, i)])
      \/ (teleports' = teleports /\ \A i \in 1..Len(teleports.pending) : teleports.pending[i] # Head(toWatch).id)
  <2>1. DOMAIN teleports.pending = 1..Len(teleports.pending)
    BY <1>3
  <2> QED
    BY <2>1 DEF TakeConfirm
<1>7. CASE teleports' = teleports /\ \A i \in 1..Len(teleports.pending) : teleports.pending[i] # Head(toWatch).id
  <2>1. WatchTypes' /\ HandsOf' /\ Rising'
    BY <1>1, <1>2, <1>5, <1>7 DEF WatchTypes, HandsOf, Rising, WatchInv
  <2>2. /\ SyncsUpTo(teleports.next)' /\ ConfirmsUpTo(teleports.next)' /\ Head(toWatch) = toWatch[1]
        /\ NewestWaits' /\ OnItsWay => OnItsWay'
        /\ DoneWith /\ teleports'.pending = <<>> => DoneWith'
        /\ NewestWaits' /\ Answered /\ ~ComesAt(1) => Answered'
    BY <1>1, <1>2, <1>7, <2>1, LessToWatch
  <2>3. NewestWaits => NewestWaits'
    BY <1>7 DEF NewestWaits
  <2>4. NewestWaits => ~ComesAt(1)
    <3>1. NewestWaits => Len(teleports.pending) \in 1..Len(teleports.pending)
      BY <1>3 DEF NewestWaits
    <3> QED
      BY <1>7, <2>2, <3>1 DEF NewestWaits, ComesAt
  <2>5. OnItsWay' \/ Answered' \/ DoneWith'
    BY <1>4, <1>7, <2>2, <2>3, <2>4 DEF OnItsWay, Answered, DoneWith
  <2> QED
    BY <1>1, <1>2, <2>1, <2>2, <2>5 DEF WatchInv
<1>8. ASSUME NEW i \in 1..Len(teleports.pending), teleports.pending[i] = Head(toWatch).id,
             teleports' = [teleports EXCEPT !.pending = Remaining(@, i)]
      PROVE  WatchInv'
  <2>1. /\ teleports'.next = teleports.next /\ teleports'.pending = Remaining(teleports.pending, i)
        /\ teleports' = [next |-> teleports.next, pending |-> Remaining(teleports.pending, i)]
    BY <1>1, <1>8 DEF WatchTypes
  <2>2. /\ teleports'.pending \in Seq(Nat) /\ Len(teleports'.pending) = Len(teleports.pending) - i
        /\ \A j \in 1..(Len(teleports.pending) - i) : teleports'.pending[j] = teleports.pending[i + j]
    BY <1>3, <2>1, Confirming
  <2>3. WatchTypes'
    BY <1>1, <1>2, <1>3, <1>5, <2>1, <2>2 DEF WatchTypes
  <2>4. HandsOf'
    BY <1>1, <1>2, <2>1 DEF HandsOf, WatchInv
  <2>5. Rising'
    <3>1. \A j \in 1..Len(teleports'.pending) :
             i + j \in 1..Len(teleports.pending) /\ teleports'.pending[j] = teleports.pending[i + j]
      BY <1>3, <2>2
    <3>2. \A j, k \in 1..Len(teleports'.pending) : j < k => i + j < i + k
      BY <1>3
    <3>3. /\ \A j \in 1..Len(teleports.pending) : teleports.pending[j] <= teleports.next
          /\ \A j, k \in 1..Len(teleports.pending) : j < k => teleports.pending[j] < teleports.pending[k]
      BY DEF Rising, WatchInv
    <3>4. \A j \in 1..Len(teleports'.pending) : teleports'.pending[j] <= teleports'.next
      BY <2>1, <3>1, <3>3
    <3>5. \A j, k \in 1..Len(teleports'.pending) : j < k => teleports'.pending[j] < teleports'.pending[k]
      BY <3>1, <3>2, <3>3
    <3> QED
      BY <3>4, <3>5 DEF Rising
  <2>6. /\ SyncsUpTo(teleports.next)' /\ ConfirmsUpTo(teleports.next)' /\ Head(toWatch) = toWatch[1]
        /\ 1 \in 1..Len(toWatch)
        /\ NewestWaits' /\ OnItsWay => OnItsWay'
        /\ NewestWaits' /\ Answered /\ ~ComesAt(1) => Answered'
        /\ ComesAt(1) /\ Answered /\ teleports'.pending = <<>> => DoneWith'
    BY <1>1, <1>2, <2>1, <2>3, LessToWatch
  <2>7. i < Len(teleports.pending) /\ NewestWaits => NewestWaits'
    <3> SUFFICES ASSUME i < Len(teleports.pending), NewestWaits PROVE NewestWaits'
      OBVIOUS
    <3> DEFINE l == Len(teleports.pending) - i
    <3>1. l \in 1..(Len(teleports.pending) - i) /\ i + l = Len(teleports.pending) /\ l # 0
      BY <1>3
    <3>2. Len(teleports'.pending) = l
      BY <2>2
    <3> HIDE DEF l
    <3>3. teleports'.pending[l] = teleports.pending[Len(teleports.pending)]
      BY <2>2, <3>1
    <3>4. teleports'.pending # <<>>
      BY <2>2, <3>1, <3>2
    <3> QED
      BY <2>1, <3>2, <3>3, <3>4 DEF NewestWaits
  <2>8. CASE OnItsWay
    <3>1. Head(toWatch).id <= teleports.next - 1
      BY <1>1, <2>6, <2>8 DEF OnItsWay, ConfirmsUpTo
    <3>2. Head(toWatch).id # teleports.next
      BY <1>3, <1>8, <3>1
    <3>3. i < Len(teleports.pending)
      BY <1>3, <1>8, <2>8, <3>2 DEF OnItsWay, NewestWaits
    <3>4. OnItsWay'
      BY <2>6, <2>7, <2>8, <3>3 DEF OnItsWay
    <3> QED
      BY <1>1, <1>2, <2>3, <2>4, <2>5, <2>6, <3>4 DEF WatchInv
  <2>9. CASE Answered /\ ~ComesAt(1)
    <3>1. PICK k \in 1..Len(toWatch) : ComesAt(k)
      BY <2>9 DEF Answered
    <3>2. Head(toWatch).id < teleports.next
      BY <1>1, <2>6, <2>9, <3>1 DEF ComesAt
    <3>3. Head(toWatch).id # teleports.next
      BY <1>3, <1>8, <3>2
    <3>4. i < Len(teleports.pending)
      BY <1>3, <1>8, <2>9, <3>3 DEF Answered, NewestWaits
    <3>5. Answered'
      BY <2>6, <2>7, <2>9, <3>4 DEF Answered
    <3> QED
      BY <1>1, <1>2, <2>3, <2>4, <2>5, <2>6, <3>5 DEF WatchInv
  <2>10. CASE Answered /\ ComesAt(1)
    <3>1. teleports.pending[i] = teleports.next /\ NewestWaits
      BY <1>8, <2>6, <2>10 DEF ComesAt, Answered
    <3>2. Len(teleports.pending) \in 1..Len(teleports.pending)
      BY <1>3, <3>1 DEF NewestWaits
    <3>3. i = Len(teleports.pending)
      <4>1. SUFFICES ASSUME i < Len(teleports.pending) PROVE FALSE
        BY <1>3, <1>8
      <4>2. teleports.pending[i] < teleports.pending[Len(teleports.pending)]
        BY <3>2, <4>1 DEF WatchInv, Rising
      <4> QED
        BY <1>3, <3>1, <4>2 DEF NewestWaits
    <3>4. teleports'.pending = <<>>
      BY <1>3, <2>2, <3>3
    <3>5. DoneWith'
      BY <2>6, <2>10, <3>4
    <3> QED
      BY <1>1, <1>2, <2>3, <2>4, <2>5, <2>6, <3>5 DEF WatchInv
  <2>11. CASE DoneWith
    BY <1>3, <1>8, <2>11 DEF DoneWith
  <2> QED
    BY <1>4, <2>8, <2>9, <2>10, <2>11
<1> QED
  BY <1>6, <1>7, <1>8

LEMMA WalkedMoveKeeps ==
    ASSUME WatchInv, TakeMove
    PROVE  WatchInv'
<1>1. WatchTypes /\ handOf[Reader].at = "idle" /\ toWatch # <<>> /\ Head(toWatch).kind = "move"
  BY DEF TakeMove, WatchInv, Doing
<1>2. /\ toWatch' = Tail(toWatch)
      /\ UNCHANGED <<serverAt, clientAt, teleports, pings, toView, watchEvents>>
  BY DEF TakeMove
<1>3. OnItsWay \/ Answered \/ DoneWith
  BY <1>1 DEF WatchInv
<1>4. toWatch' \in Seq(FromClient) /\ Head(toWatch) \in FromClient
  BY <1>1, <1>2, OneOff DEF WatchTypes
<1>5. Head(toWatch).spot \in Spots
  BY <1>4 DEF FromClient
<1>6. Rising'
  BY <1>2 DEF WatchInv, Rising
<1>7. CASE teleports.pending # <<>>
  <2>1. handOf' = handOf
    BY <1>7 DEF TakeMove
  <2>2. WatchTypes' /\ HandsOf'
    BY <1>1, <1>2, <1>4, <2>1 DEF WatchTypes, HandsOf, WatchInv
  <2>3. /\ SyncsUpTo(teleports.next)' /\ ConfirmsUpTo(teleports.next)' /\ Head(toWatch) = toWatch[1]
        /\ NewestWaits' /\ OnItsWay => OnItsWay'
        /\ NewestWaits' /\ Answered /\ ~ComesAt(1) => Answered'
    BY <1>1, <1>2, <2>2, LessToWatch
  <2>4. NewestWaits => NewestWaits'
    BY <1>2 DEF NewestWaits
  <2>5. ~ComesAt(1)
    BY <1>1, <2>3 DEF ComesAt
  <2>6. OnItsWay' \/ Answered'
    BY <1>3, <1>7, <2>3, <2>4, <2>5 DEF OnItsWay, Answered, DoneWith
  <2> QED
    BY <1>1, <1>6, <2>1, <2>2, <2>3, <2>6 DEF WatchInv
<1>8. CASE teleports.pending = <<>>
  <2> DEFINE task == Job("judge", 0, Head(toWatch).spot)
  <2>1. TurnTo(Reader, task)
    BY <1>8 DEF TakeMove
  <2>2. task \in Jobs /\ task.at = "judge" /\ task.spot = Head(toWatch).spot
    BY <1>5 DEF Job, Jobs
  <2> HIDE DEF task
  <2>3. Reader \in WatchHand
    BY DEF WatchHand
  <2>4. /\ handOf' \in [WatchHand -> Jobs] /\ handOf'[Reader] = task
        /\ \A u \in WatchHand \ {Reader} : handOf'[u] = handOf[u]
    BY <1>1, <2>1, <2>2, <2>3, TurnsTo
  <2>5. WatchTypes'
    BY <1>1, <1>2, <1>4, <2>4 DEF WatchTypes
  <2>6. /\ SyncsUpTo(teleports.next)' /\ ConfirmsUpTo(teleports.next)' /\ Head(toWatch) = toWatch[1]
        /\ 1 \in 1..Len(toWatch)
        /\ DoneWith /\ teleports'.pending = <<>> => DoneWith'
    BY <1>1, <1>2, <2>5, LessToWatch
  <2>7. DoneWith /\ DoneWith'
    BY <1>2, <1>3, <1>8, <2>6 DEF OnItsWay, Answered, NewestWaits
  <2>8. Head(toWatch).spot.era = serverAt.era
    BY <1>1, <2>6, <2>7 DEF DoneWith
  <2>9. HandsOf'
    BY <1>1, <1>2, <2>2, <2>4, <2>8 DEF HandsOf, WatchInv
  <2> QED
    BY <1>6, <2>2, <2>4, <2>5, <2>6, <2>7, <2>9 DEF WatchInv
<1> QED
  BY <1>7, <1>8

LEMMA JudgeKeeps ==
    ASSUME WatchInv, JudgeMove
    PROVE  WatchInv'
<1>1. WatchTypes /\ handOf[Reader].at = "judge" /\ handOf[Reader].spot.era = serverAt.era
  BY DEF JudgeMove, WatchInv, Doing, HandsOf
<1>2. UNCHANGED <<serverAt, clientAt, teleports, pings, toView, toWatch, watchEvents>>
  BY DEF JudgeMove
<1>3. Reader \in WatchHand /\ handOf[Reader] \in Jobs
  BY <1>1 DEF WatchTypes, WatchHand
<1> DEFINE task == [handOf[Reader] EXCEPT !.at = "apply"]
<1>4. TurnTo(Reader, task)
  BY <1>1 DEF JudgeMove
<1>5. task \in Jobs /\ task.at = "apply" /\ task.spot = handOf[Reader].spot
  BY <1>3 DEF Jobs
<1> HIDE DEF task
<1>6. /\ handOf' \in [WatchHand -> Jobs] /\ handOf'[Reader] = task
      /\ \A u \in WatchHand \ {Reader} : handOf'[u] = handOf[u]
  BY <1>1, <1>3, <1>4, <1>5, TurnsTo
<1>7. WatchTypes'
  BY <1>1, <1>2, <1>6 DEF WatchTypes
<1>8. HandsOf'
  BY <1>1, <1>2, <1>5, <1>6 DEF HandsOf, WatchInv
<1> QED
  BY <1>1, <1>2, <1>5, <1>6, <1>7, <1>8, WatchStays

LEMMA ApplyKeeps ==
    ASSUME WatchInv, ApplyMove
    PROVE  WatchInv'
<1>1. WatchTypes /\ handOf[Reader].at = "apply" /\ handOf[Reader].spot.era = serverAt.era
  BY DEF ApplyMove, WatchInv, Doing, HandsOf
<1>2. UNCHANGED <<clientAt, teleports, pings, toView, toWatch, watchEvents>> /\ serverAt' = handOf[Reader].spot
  BY DEF ApplyMove
<1>3. Reader \in WatchHand /\ NoTeleport \in Jobs /\ NoTeleport.at = "idle"
  BY SpotsFit DEF WatchHand
<1>4. handOf[Reader].spot \in Spots
  BY <1>1, <1>3 DEF WatchTypes, Jobs
<1>5. TurnTo(Reader, NoTeleport)
  BY DEF ApplyMove
<1>6. /\ handOf' \in [WatchHand -> Jobs] /\ handOf'[Reader] = NoTeleport
      /\ \A u \in WatchHand \ {Reader} : handOf'[u] = handOf[u]
  BY <1>1, <1>3, <1>5, TurnsTo
<1>7. WatchTypes'
  BY <1>1, <1>2, <1>4, <1>6 DEF WatchTypes
<1>8. HandsOf'
  BY <1>3, <1>6 DEF HandsOf, WatchInv
<1> QED
  BY <1>1, <1>2, <1>3, <1>6, <1>7, <1>8, WatchStays

LEMMA PushKeeps ==
    ASSUME WatchInv, NEW t \in WatchHand, PushPlayer(t)
    PROVE  WatchInv'
<1>1. WatchTypes /\ handOf[t].at = "idle" /\ watchEvents + 1 \in Nat
  BY DEF PushPlayer, WatchInv, Doing, WatchTypes
<1> DEFINE m == Message("push", watchEvents + 1, Start)
           task == Job("number", watchEvents + 1, Start)
<1>2. m \in ToClient /\ m.kind = "push" /\ task \in Jobs /\ task.at = "number"
  BY SMTT(20), <1>1, SpotsFit
<1>3. /\ toView' = Append(toView, m) /\ TurnTo(t, task) /\ watchEvents' = watchEvents + 1
      /\ UNCHANGED <<serverAt, clientAt, teleports, pings, toWatch>>
  BY DEF PushPlayer
<1> HIDE DEF m, task
<1>4. /\ handOf' \in [WatchHand -> Jobs] /\ handOf'[t] = task
      /\ \A u \in WatchHand \ {t} : handOf'[u] = handOf[u]
  BY <1>1, <1>2, <1>3, TurnsTo
<1>5. WatchTypes'
  <2>1. toView' \in Seq(ToClient)
    BY <1>1, <1>2, <1>3 DEF WatchTypes
  <2> QED
    BY <1>1, <1>3, <1>4, <2>1 DEF WatchTypes, Spots
<1>6. HandsOf'
  <2>1. HandsOf /\ handOf'[t].at \in {"idle", "number", "ping"}
    BY <1>2, <1>4 DEF WatchInv
  <2> QED
    BY <1>3, <1>4, <2>1, HandsStay
<1>7. /\ handOf'[Reader].at = "sync" => handOf[Reader].at = "sync"
      /\ handOf'[Reader].at \notin {"begin", "sync"} => handOf[Reader].at \notin {"begin", "sync"}
  BY <1>1, <1>2, <1>4 DEF WatchHand
<1> QED
  BY <1>2, <1>3, <1>5, <1>6, <1>7, MoreToView

LEMMA TickPingKeeps ==
    ASSUME WatchInv, NEW t \in WatchHand, TickPing(t)
    PROVE  WatchInv'
<1>1. WatchTypes /\ handOf[t].at = "idle" /\ watchEvents + 1 \in Nat
  BY DEF TickPing, WatchInv, Doing, WatchTypes
<1> DEFINE task == Job("number", 0, Start)
<1>2. task \in Jobs /\ task.at = "number"
  BY DEF Job, Jobs, Start, Spot, Spots
<1>3. /\ TurnTo(t, task) /\ watchEvents' = watchEvents + 1
      /\ UNCHANGED <<serverAt, clientAt, teleports, pings, toView, toWatch>>
  BY DEF TickPing
<1> HIDE DEF task
<1>4. /\ handOf' \in [WatchHand -> Jobs] /\ handOf'[t] = task
      /\ \A u \in WatchHand \ {t} : handOf'[u] = handOf[u]
  BY <1>1, <1>2, <1>3, TurnsTo
<1>5. WatchTypes'
  BY <1>1, <1>3, <1>4 DEF WatchTypes, Spots
<1>6. HandsOf'
  <2>1. HandsOf /\ handOf'[t].at \in {"idle", "number", "ping"}
    BY <1>2, <1>4 DEF WatchInv
  <2> QED
    BY <1>3, <1>4, <2>1, HandsStay
<1>7. /\ handOf'[Reader].at = "sync" => handOf[Reader].at = "sync"
      /\ handOf'[Reader].at \notin {"begin", "sync"} => handOf[Reader].at \notin {"begin", "sync"}
  BY <1>1, <1>2, <1>4 DEF WatchHand
<1> QED
  BY <1>3, <1>5, <1>6, <1>7, WatchStays

LEMMA NumberKeeps ==
    ASSUME WatchInv, NEW t \in WatchHand, NumberPing(t)
    PROVE  WatchInv'
<1>1. WatchTypes /\ handOf[t].at = "number" /\ pings.next + 1 \in Nat
  BY DEF NumberPing, WatchInv, Doing, WatchTypes
<1>2. PICK task \in Jobs : TurnTo(t, task) /\ task.at \in {"idle", "ping"}
  <2>1. NoTeleport \in Jobs /\ NoTeleport.at = "idle"
    BY SpotsFit
  <2>2. Job("ping", pings.next + 1, Start) \in Jobs /\ Job("ping", pings.next + 1, Start).at = "ping"
    BY <1>1 DEF Job, Jobs, Start, Spot, Spots
  <2> QED
    BY <2>1, <2>2 DEF NumberPing
<1>3. UNCHANGED <<serverAt, clientAt, teleports, toView, toWatch, watchEvents>>
  BY DEF NumberPing
<1>4. /\ handOf' \in [WatchHand -> Jobs] /\ handOf'[t] = task
      /\ \A u \in WatchHand \ {t} : handOf'[u] = handOf[u]
  BY <1>1, <1>2, TurnsTo
<1>5. WatchTypes'
  <2>1. pings' = [next |-> pings'.next, pending |-> pings'.pending] /\ pings'.next \in Nat
    BY <1>1 DEF NumberPing, WatchTypes
  <2> QED
    BY <1>1, <1>3, <1>4, <2>1 DEF WatchTypes
<1>6. HandsOf'
  <2>1. HandsOf /\ handOf'[t].at \in {"idle", "number", "ping"}
    BY <1>2, <1>4 DEF WatchInv
  <2> QED
    BY <1>3, <1>4, <2>1, HandsStay
<1>7. /\ handOf'[Reader].at = "sync" => handOf[Reader].at = "sync"
      /\ handOf'[Reader].at \notin {"begin", "sync"} => handOf[Reader].at \notin {"begin", "sync"}
  BY <1>1, <1>2, <1>4 DEF WatchHand
<1> QED
  BY <1>3, <1>5, <1>6, <1>7, WatchStays

LEMMA PongKeeps ==
    ASSUME WatchInv, TakePong
    PROVE  WatchInv'
<1>1. WatchTypes /\ handOf[Reader].at = "idle" /\ toWatch # <<>> /\ Head(toWatch).kind = "pong"
  BY DEF TakePong, WatchInv, Doing
<1>2. /\ toWatch' = Tail(toWatch)
      /\ UNCHANGED <<serverAt, clientAt, teleports, handOf, toView, watchEvents>>
  BY DEF TakePong
<1>3. toWatch' \in Seq(FromClient)
  BY <1>1, <1>2, OneOff DEF WatchTypes
<1>4. pings' = [next |-> pings'.next, pending |-> pings'.pending] /\ pings'.next \in Nat
  BY <1>1 DEF TakePong, WatchTypes
<1>5. WatchTypes' /\ HandsOf' /\ Rising'
  BY <1>1, <1>2, <1>3, <1>4 DEF WatchTypes, HandsOf, WatchInv, Rising
<1>6. /\ SyncsUpTo(teleports.next)' /\ ConfirmsUpTo(teleports.next)' /\ Head(toWatch) = toWatch[1]
      /\ NewestWaits' /\ OnItsWay => OnItsWay'
      /\ DoneWith /\ teleports'.pending = <<>> => DoneWith'
      /\ NewestWaits' /\ Answered /\ ~ComesAt(1) => Answered'
  BY <1>1, <1>2, <1>5, LessToWatch
<1>7. NewestWaits => NewestWaits'
  BY <1>2 DEF NewestWaits
<1>8. ~ComesAt(1)
  BY <1>1, <1>6 DEF ComesAt
<1>9. (OnItsWay => OnItsWay') /\ (Answered => Answered') /\ (DoneWith => DoneWith')
  BY <1>2, <1>6, <1>7, <1>8 DEF OnItsWay, Answered, DoneWith
<1> QED
  BY <1>1, <1>2, <1>5, <1>6, <1>9 DEF WatchInv

\* The newest teleport goes out.
LEMMA SyncOut ==
    ASSUME WatchInv, NEW m \in ToClient, m.kind = "sync", m.id = teleports.next, m.spot.era = serverAt.era,
           InHand, toView' = Append(toView, m), UNCHANGED <<serverAt, clientAt, teleports, toWatch>>
    PROVE  OnItsWay' /\ SyncsUpTo(teleports.next)'
<1>1. /\ Len(toView) \in Nat /\ Len(toView') = Len(toView) + 1 /\ toView'[Len(toView) + 1] = m
      /\ \A i \in 1..Len(toView) : toView'[i] = toView[i]
  <2>1. toView \in Seq(ToClient)
    BY DEF WatchInv, WatchTypes
  <2> QED
    BY <2>1, OneOn
<1>2. teleports.next \in Nat /\ \A i \in 1..Len(toView) : toView[i].id \in Nat
  <2>1. toView \in Seq(ToClient) /\ teleports.next \in Nat
    BY DEF WatchInv, WatchTypes
  <2>2. \A i \in 1..Len(toView) : toView[i] \in ToClient
    BY <2>1
  <2> QED
    BY <2>1, <2>2 DEF ToClient
<1>3. PICK l \in 1..Len(toView') : l = Len(toView) + 1
  BY <1>1
<1>4. ASSUME NEW j \in 1..Len(toView'), toView'[j].kind = "sync", j # l
      PROVE  j < l /\ toView'[j].id < teleports.next
  <2>1. j \in 1..Len(toView) /\ j < l /\ toView'[j] = toView[j]
    BY <1>1, <1>3, <1>4
  <2>2. toView[j].id <= teleports.next - 1
    BY <1>4, <2>1 DEF InHand, SyncsUpTo
  <2> QED
    BY <1>2, <2>1, <2>2
<1>5. toView'[l] = m
  BY <1>1, <1>3
<1>6. GoesAt(l)'
  BY <1>4, <1>5 DEF GoesAt
<1>7. NewestWaits' /\ ConfirmsUpTo(teleports.next - 1)'
  BY DEF InHand, NewestWaits, ConfirmsUpTo
<1>8. SyncsUpTo(teleports.next)'
  <2> SUFFICES ASSUME NEW j \in 1..Len(toView'), toView'[j].kind = "sync" PROVE toView'[j].id <= teleports.next
    BY DEF SyncsUpTo
  <2>1. CASE j = l
    BY <1>2, <1>5, <2>1
  <2>2. CASE j # l
    <3>1. toView'[j].id < teleports.next
      BY <1>4, <2>2
    <3>2. toView'[j].id \in Nat
      BY <1>1, <1>2, <1>3, <1>4, <2>2
    <3> QED
      BY <1>2, <3>1, <3>2
  <2> QED
    BY <2>1, <2>2
<1> QED
  BY <1>3, <1>6, <1>7, <1>8 DEF OnItsWay

LEMMA PutOutKeeps ==
    ASSUME WatchInv, NEW t \in WatchHand, PutOut(t)
    PROVE  WatchInv'
<1>1. WatchTypes /\ handOf[t].at \in {"sync", "ping"} /\ handOf[t] \in Jobs
  BY DEF PutOut, WatchInv, WatchTypes
<1> DEFINE m == Message(handOf[t].at, handOf[t].id, handOf[t].spot)
<1>2. m \in ToClient /\ m.kind = handOf[t].at /\ m.id = handOf[t].id /\ m.spot = handOf[t].spot
  BY <1>1 DEF Jobs, Message, ToClient
<1>3. /\ toView' = Append(toView, m) /\ TurnTo(t, NoTeleport)
      /\ UNCHANGED <<serverAt, clientAt, teleports, pings, toWatch, watchEvents>>
  BY DEF PutOut
<1> HIDE DEF m
<1>4. NoTeleport \in Jobs /\ NoTeleport.at = "idle"
  BY SpotsFit
<1>5. /\ handOf' \in [WatchHand -> Jobs] /\ handOf'[t] = NoTeleport
      /\ \A u \in WatchHand \ {t} : handOf'[u] = handOf[u]
  BY <1>1, <1>3, <1>4, TurnsTo
<1>6. WatchTypes'
  <2>1. toView' \in Seq(ToClient)
    BY <1>1, <1>2, <1>3 DEF WatchTypes
  <2> QED
    BY <1>1, <1>3, <1>5, <2>1 DEF WatchTypes, Spots
<1>7. HandsOf'
  <2>1. HandsOf /\ handOf'[t].at \in {"idle", "number", "ping"}
    BY <1>4, <1>5 DEF WatchInv
  <2> QED
    BY <1>3, <1>5, <2>1, HandsStay
<1>8. CASE handOf[t].at = "sync"
  <2>1. t = Reader
    BY <1>8 DEF WatchInv, HandsOf
  <2>2. InHand /\ handOf[Reader].id = teleports.next /\ handOf[Reader].spot.era = serverAt.era
    BY <1>8, <2>1 DEF WatchInv, HandsOf
  <2>3. OnItsWay' /\ SyncsUpTo(teleports.next)'
    BY <1>2, <1>3, <1>8, <2>1, <2>2, SyncOut
  <2>4. Rising' /\ ConfirmsUpTo(teleports.next)'
    BY <1>3 DEF WatchInv, Rising, ConfirmsUpTo
  <2> QED
    BY <1>4, <1>5, <1>6, <1>7, <2>1, <2>3, <2>4 DEF WatchInv
<1>9. CASE handOf[t].at = "ping"
  <2>1. /\ handOf'[Reader].at = "sync" => handOf[Reader].at = "sync"
        /\ handOf'[Reader].at \notin {"begin", "sync"} => handOf[Reader].at \notin {"begin", "sync"}
    BY <1>9, <1>4, <1>5 DEF WatchHand
  <2> QED
    BY <1>2, <1>3, <1>6, <1>7, <1>9, <2>1, MoreToView
<1> QED
  BY <1>1, <1>8, <1>9

LEMMA WalkKeeps ==
    ASSUME WatchInv, ClientWalks
    PROVE  WatchInv'
<1>1. WatchTypes /\ clientAt \in Spots
  BY DEF WatchInv, WatchTypes
<1>2. clientAt' \in Spots /\ clientAt'.era = clientAt.era
  BY <1>1 DEF ClientWalks, Spots
<1> DEFINE m == Message("move", 0, clientAt')
<1>3. m \in FromClient /\ m.kind = "move" /\ m.spot = clientAt'
  BY <1>2 DEF Message, FromClient
<1>4. toWatch' = Append(toWatch, m) /\ UNCHANGED <<serverAt, teleports, pings, handOf, toView, watchEvents>>
  BY DEF ClientWalks
<1> HIDE DEF m
<1>5. toWatch' \in Seq(FromClient)
  BY <1>1, <1>3, <1>4 DEF WatchTypes
<1>6. WatchTypes' /\ HandsOf'
  BY <1>1, <1>2, <1>4, <1>5 DEF WatchTypes, HandsOf, WatchInv
<1> QED
  BY <1>2, <1>3, <1>4, <1>6, MoreToWatch

\* The client takes what is no sync.
LEMMA OtherTaken ==
    ASSUME WatchInv, toView # <<>>, Head(toView).kind # "sync", toView' = Tail(toView),
           WatchTypes', HandsOf', UNCHANGED <<serverAt, clientAt, teleports, handOf>>,
           \A j \in 1..Len(toWatch) : j \in 1..Len(toWatch') /\ toWatch'[j] = toWatch[j],
           \A j \in 1..Len(toWatch') : j \in 1..Len(toWatch) \/ toWatch'[j].kind = "pong"
    PROVE  WatchInv'
<1>1. /\ Head(toView) = toView[1] /\ Len(toView) \in Nat /\ Len(toView') = Len(toView) - 1
      /\ \A i \in 1..Len(toView') : toView'[i] = toView[i + 1]
  <2>1. toView \in Seq(ToClient)
    BY DEF WatchInv, WatchTypes
  <2> QED
    BY <2>1, OneOff
<1>2. \A i \in 1..Len(toView') : i + 1 \in 1..Len(toView)
  BY <1>1
<1>3. \A n : SyncsUpTo(n) => \A k \in 1..Len(toView') : toView'[k].kind = "sync" => toView'[k].id <= n
  BY <1>1, <1>2 DEF SyncsUpTo
<1>10. \A n : ConfirmsUpTo(n) => \A k \in 1..Len(toWatch') : toWatch'[k].kind = "confirm" => toWatch'[k].id <= n
  BY DEF ConfirmsUpTo
<1>4. Rising' /\ SyncsUpTo(teleports.next)' /\ ConfirmsUpTo(teleports.next)'
  BY <1>3, <1>10 DEF WatchInv, Rising, SyncsUpTo, ConfirmsUpTo
<1>5. InHand => InHand'
  BY <1>3, <1>10 DEF InHand, NewestWaits, SyncsUpTo, ConfirmsUpTo
<1>6. NoSync => NoSync'
  BY <1>1, <1>2 DEF NoSync
<1>7. OnItsWay => OnItsWay'
  <2> SUFFICES ASSUME OnItsWay PROVE OnItsWay'
    OBVIOUS
  <2>1. PICK k \in 1..Len(toView) : GoesAt(k)
    BY DEF OnItsWay
  <2>2. k # 1
    BY <1>1, <2>1 DEF GoesAt
  <2>3. PICK l \in 1..Len(toView') : l + 1 = k
    <3>1. k - 1 \in 1..Len(toView') /\ (k - 1) + 1 = k
      BY <1>1, <2>2
    <3> QED
      BY <3>1
  <2>4. ASSUME NEW j \in 1..Len(toView'), toView'[j].kind = "sync", j # l
        PROVE  j < l /\ toView'[j].id < teleports.next
    <3>1. toView'[j] = toView[j + 1] /\ j + 1 \in 1..Len(toView) /\ j + 1 # k
      BY <1>1, <1>2, <2>3, <2>4
    <3>2. j + 1 < k /\ toView[j + 1].id < teleports.next
      BY <2>1, <2>4, <3>1 DEF GoesAt
    <3> QED
      BY <2>3, <3>1, <3>2
  <2>5. toView'[l] = toView[k]
    BY <1>1, <2>3
  <2>6. GoesAt(l)'
    <3>1. toView'[l].kind = "sync" /\ toView'[l].id = teleports.next /\ toView'[l].spot.era = serverAt.era
      BY <2>1, <2>5 DEF GoesAt
    <3> QED
      BY <2>4, <3>1 DEF GoesAt
  <2>7. NewestWaits' /\ ConfirmsUpTo(teleports.next - 1)'
    BY <1>10 DEF OnItsWay, NewestWaits, ConfirmsUpTo
  <2> QED
    BY <2>3, <2>6, <2>7 DEF OnItsWay
<1>8. Answered => Answered'
  <2> SUFFICES ASSUME Answered PROVE Answered'
    OBVIOUS
  <2>1. PICK k \in 1..Len(toWatch) : ComesAt(k)
    BY DEF Answered
  <2>2. k \in 1..Len(toWatch') /\ ComesAt(k)'
    BY <2>1 DEF ComesAt
  <2> QED
    BY <1>6, <2>2 DEF Answered, NewestWaits
<1>9. DoneWith => DoneWith'
  BY <1>6 DEF DoneWith
<1> QED
  BY <1>4, <1>5, <1>7, <1>8, <1>9 DEF WatchInv

\* The client takes a teleport, confirms it and moves from there.
LEMMA SyncTaken ==
    ASSUME WatchInv, toView # <<>>, Head(toView).kind = "sync", toView' = Tail(toView),
           NEW c \in FromClient, c.kind = "confirm", c.id = Head(toView).id,
           NEW m \in FromClient, m.kind = "move", m.spot = Head(toView).spot,
           toWatch' = toWatch \o <<c, m>>, clientAt' = Head(toView).spot,
           WatchTypes', HandsOf', UNCHANGED <<serverAt, teleports, handOf>>
    PROVE  WatchInv'
<1>1. /\ Head(toView) = toView[1] /\ Len(toView) \in Nat \ {0} /\ Len(toView') = Len(toView) - 1
      /\ Head(toView) \in ToClient
      /\ \A i \in 1..Len(toView') : toView'[i] = toView[i + 1]
  <2>1. toView \in Seq(ToClient)
    BY DEF WatchInv, WatchTypes
  <2> QED
    BY <2>1, OneOff
<1>2. \A i \in 1..Len(toView') : i + 1 \in 1..Len(toView)
  BY <1>1
<1>3. /\ Len(toWatch) \in Nat /\ Len(toWatch') = Len(toWatch) + 2
      /\ toWatch'[Len(toWatch) + 1] = c /\ toWatch'[Len(toWatch) + 2] = m
      /\ \A i \in 1..Len(toWatch) : toWatch'[i] = toWatch[i]
  <2>1. toWatch \in Seq(FromClient)
    BY DEF WatchInv, WatchTypes
  <2> QED
    BY <2>1, TwoOn
<1>4. \A j \in 1..Len(toWatch') : j \in 1..Len(toWatch) \/ j = Len(toWatch) + 1 \/ j = Len(toWatch) + 2
  BY <1>3
<1>5. \A n : SyncsUpTo(n) => /\ c.id <= n
                             /\ \A k \in 1..Len(toView') : toView'[k].kind = "sync" => toView'[k].id <= n
  BY <1>1, <1>2 DEF SyncsUpTo
<1>6. \A n : SyncsUpTo(n) /\ ConfirmsUpTo(n) =>
            \A k \in 1..Len(toWatch') : toWatch'[k].kind = "confirm" => toWatch'[k].id <= n
  BY <1>3, <1>4, <1>5 DEF ConfirmsUpTo
<1>7. Rising' /\ SyncsUpTo(teleports.next)' /\ ConfirmsUpTo(teleports.next)'
  BY <1>5, <1>6 DEF WatchInv, Rising, SyncsUpTo, ConfirmsUpTo
<1>8. InHand => InHand'
  BY <1>5, <1>6 DEF InHand, NewestWaits, SyncsUpTo, ConfirmsUpTo
<1>9. ~NoSync
  BY <1>1 DEF NoSync
<1>10. OnItsWay => OnItsWay' \/ Answered'
  <2> SUFFICES ASSUME OnItsWay PROVE OnItsWay' \/ Answered'
    OBVIOUS
  <2>1. PICK k \in 1..Len(toView) : GoesAt(k)
    BY DEF OnItsWay
  <2>2. NewestWaits'
    BY DEF OnItsWay, NewestWaits
  <2>3. CASE k = 1
    <3>1. c.id = teleports.next /\ m.spot.era = serverAt.era /\ clientAt'.era = serverAt.era
      BY <1>1, <2>1, <2>3 DEF GoesAt
    <3>2. NoSync'
      <4> SUFFICES ASSUME NEW j \in 1..Len(toView'), toView'[j].kind = "sync" PROVE FALSE
        BY DEF NoSync
      <4>1. toView[j + 1].kind = "sync" /\ j + 1 \in 1..Len(toView) /\ j + 1 # 1
        BY <1>1, <1>2
      <4>2. j + 1 < 1
        BY <2>1, <2>3, <4>1 DEF GoesAt
      <4> QED
        BY <4>2
    <3>3. PICK l \in 1..Len(toWatch') : l = Len(toWatch) + 1
      BY <1>3
    <3>4. ASSUME NEW j \in 1..Len(toWatch')
          PROVE  /\ toWatch'[j].kind = "confirm" /\ j # l => toWatch'[j].id < teleports.next
                 /\ toWatch'[j].kind = "move" /\ l < j => toWatch'[j].spot.era = serverAt.era
      <4>1. CASE j \in 1..Len(toWatch)
        <5>1. ~(l < j) /\ toWatch'[j] = toWatch[j]
          BY <1>3, <3>3, <4>1
        <5>2. toWatch[j].kind = "confirm" => toWatch[j].id <= teleports.next - 1
          BY <4>1 DEF OnItsWay, ConfirmsUpTo
        <5>3. toWatch[j] \in FromClient /\ teleports.next \in Nat
          BY SMTT(20), <4>1 DEF WatchInv, WatchTypes
        <5>4. toWatch[j].id \in Nat
          BY <5>3 DEF FromClient
        <5> QED
          BY SMTT(20), <5>1, <5>2, <5>3, <5>4
      <4>2. CASE j = Len(toWatch) + 1
        BY <1>3, <3>3, <4>2
      <4>3. CASE j = Len(toWatch) + 2
        BY <1>3, <3>1, <4>3
      <4> QED
        BY <1>4, <4>1, <4>2, <4>3
    <3>5. toWatch'[l] = c
      BY <1>3, <3>3
    <3>6. ComesAt(l)'
      BY <3>1, <3>4, <3>5 DEF ComesAt
    <3> QED
      BY <2>2, <3>1, <3>2, <3>3, <3>6 DEF Answered
  <2>4. CASE k # 1
    <3>1. c.id < teleports.next
      BY <1>1, <2>1, <2>4 DEF GoesAt
    <3>2. PICK l \in 1..Len(toView') : l + 1 = k
      <4>1. k - 1 \in 1..Len(toView') /\ (k - 1) + 1 = k
        BY <1>1, <2>4
      <4> QED
        BY <4>1
    <3>3. ASSUME NEW j \in 1..Len(toView'), toView'[j].kind = "sync", j # l
          PROVE  j < l /\ toView'[j].id < teleports.next
      <4>1. toView'[j] = toView[j + 1] /\ j + 1 \in 1..Len(toView) /\ j + 1 # k
        BY <1>1, <1>2, <3>2, <3>3
      <4>2. j + 1 < k /\ toView[j + 1].id < teleports.next
        BY <2>1, <3>3, <4>1 DEF GoesAt
      <4> QED
        BY <3>2, <4>1, <4>2
    <3>4. toView'[l] = toView[k]
      BY <1>1, <3>2
    <3>5. GoesAt(l)'
      <4>1. toView'[l].kind = "sync" /\ toView'[l].id = teleports.next /\ toView'[l].spot.era = serverAt.era
        BY <2>1, <3>4 DEF GoesAt
      <4> QED
        BY <3>3, <4>1 DEF GoesAt
    <3>6. c.id <= teleports.next - 1
      <4>1. c.id \in Nat /\ teleports.next \in Nat
        BY DEF FromClient, WatchInv, WatchTypes
      <4> QED
        BY <3>1, <4>1
    <3>7. ConfirmsUpTo(teleports.next - 1)'
      BY <1>3, <1>4, <3>6 DEF OnItsWay, ConfirmsUpTo
    <3> QED
      BY <2>2, <3>2, <3>5, <3>7 DEF OnItsWay
  <2> QED
    BY <2>3, <2>4
<1> QED
  BY <1>7, <1>8, <1>9, <1>10 DEF WatchInv, Answered, DoneWith

LEMMA TakesKeeps ==
    ASSUME WatchInv, ClientTakes
    PROVE  WatchInv'
<1>1. WatchTypes /\ toView # <<>> /\ toView' = Tail(toView)
  BY DEF ClientTakes, WatchInv
<1> DEFINE h == Head(toView)
<1>2. h \in ToClient /\ toView' \in Seq(ToClient)
  BY <1>1, OneOff DEF WatchTypes
<1>3. h.id \in Nat /\ h.spot \in Spots /\ h.kind \in {"sync", "ping", "push"}
  BY <1>2 DEF ToClient
<1>4. UNCHANGED <<serverAt, teleports, pings, handOf, watchEvents>>
  BY DEF ClientTakes
<1>5. toWatch \in Seq(FromClient)
  BY <1>1 DEF WatchTypes
<1>6. HandsOf'
  BY <1>4 DEF HandsOf, WatchInv
<1>7. CASE h.kind = "sync"
  <2> DEFINE c == Message("confirm", h.id, Start)
             m == Message("move", 0, h.spot)
  <2>1. toWatch' = toWatch \o <<c, m>> /\ clientAt' = h.spot
    BY <1>7 DEF ClientTakes
  <2>2. c \in FromClient /\ c.kind = "confirm" /\ c.id = h.id
    BY <1>3 DEF Message, FromClient, Start, Spot, Spots
  <2>3. m \in FromClient /\ m.kind = "move" /\ m.spot = h.spot
    BY <1>3 DEF Message, FromClient
  <2> HIDE DEF c, m
  <2>4. toWatch' \in Seq(FromClient)
    BY <1>5, <2>1, <2>2, <2>3, TwoOn
  <2>5. WatchTypes'
    BY <1>1, <1>2, <1>3, <1>4, <2>1, <2>4 DEF WatchTypes
  <2> QED
    BY <1>1, <1>4, <1>6, <1>7, <2>1, <2>2, <2>3, <2>5, SyncTaken
<1>8. CASE h.kind = "push"
  <2>1. toWatch' = toWatch /\ clientAt' = clientAt
    <3>1. toWatch' = toWatch \o <<>> /\ clientAt' = clientAt
      BY <1>8 DEF ClientTakes
    <3> QED
      BY <1>5, <3>1, ConcatEmptySeq
  <2>2. WatchTypes'
    BY <1>1, <1>2, <1>4, <2>1 DEF WatchTypes
  <2> QED
    BY <1>1, <1>4, <1>6, <1>8, <2>1, <2>2, OtherTaken
<1>9. CASE h.kind = "ping"
  <2> DEFINE m == Message("pong", h.id, Start)
  <2>1. toWatch' = toWatch \o <<m>> /\ clientAt' = clientAt
    BY <1>9 DEF ClientTakes
  <2>2. m \in FromClient /\ m.kind = "pong"
    BY <1>3 DEF Message, FromClient, Start, Spot, Spots
  <2> HIDE DEF m
  <2>3. toWatch' = Append(toWatch, m)
    BY <1>5, <2>1, <2>2
  <2>4. toWatch' \in Seq(FromClient)
    BY <1>5, <2>2, <2>3
  <2>5. WatchTypes'
    BY <1>1, <1>2, <1>4, <2>1, <2>4 DEF WatchTypes
  <2>6. /\ \A j \in 1..Len(toWatch) : j \in 1..Len(toWatch') /\ toWatch'[j] = toWatch[j]
        /\ \A j \in 1..Len(toWatch') : j \in 1..Len(toWatch) \/ toWatch'[j].kind = "pong"
    <3>1. /\ Len(toWatch) \in Nat /\ Len(toWatch') = Len(toWatch) + 1 /\ toWatch'[Len(toWatch) + 1] = m
          /\ \A i \in 1..Len(toWatch) : toWatch'[i] = toWatch[i]
      BY <1>5, <2>2, <2>3, OneOn
    <3>2. \A j \in 1..Len(toWatch') : j \in 1..Len(toWatch) \/ j = Len(toWatch) + 1
      BY <3>1
    <3> QED
      BY <2>2, <3>1, <3>2
  <2> QED
    BY <1>1, <1>4, <1>6, <1>9, <2>1, <2>5, <2>6, OtherTaken
<1> QED
  BY <1>3, <1>7, <1>8, <1>9

LEMMA WatchInits ==
    ASSUME WatchInit PROVE WatchInv
<1>1. Start \in Spots /\ NoTeleport \in Jobs /\ NoTeleport.at = "idle" /\ Start.era = 0
  BY SpotsFit DEF Start, Spot
<1>2. WatchTypes
  BY <1>1 DEF WatchInit, WatchTypes
<1>3. HandsOf
  BY <1>1 DEF WatchInit, HandsOf, WatchHand
<1>4. Rising /\ SyncsUpTo(teleports.next) /\ ConfirmsUpTo(teleports.next)
  BY DEF WatchInit, Rising, SyncsUpTo, ConfirmsUpTo
<1>5. DoneWith
  BY <1>1 DEF WatchInit, DoneWith, NoSync
<1>6. handOf[Reader].at = "idle"
  BY <1>1 DEF WatchInit, WatchHand
<1> QED
  BY <1>2, <1>3, <1>4, <1>5, <1>6 DEF WatchInv

LEMMA WatchSteps ==
    ASSUME Teleporters = {Reader}, MaxWatchEvents \in Nat, WatchInv, [WatchNext]_watchVars
    PROVE  WatchInv'
<1>1. CASE UNCHANGED watchVars
  <2>1. WatchTypes' /\ HandsOf'
    BY <1>1 DEF watchVars, WatchInv, WatchTypes, HandsOf
  <2> QED
    BY <1>1, <2>1, WatchStays DEF watchVars
<1>2. CASE WatchNext
  <2>1. ASSUME NEW t \in WatchHand,
               \/ TeleportPlayer(t) \/ BeginTeleport(t) \/ PushPlayer(t) \/ TickPing(t)
               \/ NumberPing(t) \/ PutOut(t)
        PROVE  WatchInv'
    BY <2>1, TeleportKeeps, BeginKeeps, PushKeeps, TickPingKeeps, NumberKeeps, PutOutKeeps
  <2> QED
    BY <1>2, <2>1, ConfirmKeeps, WalkedMoveKeeps, JudgeKeeps, ApplyKeeps, PongKeeps, TakesKeeps, WalkKeeps
       DEF WatchNext
<1> QED
  BY <1>1, <1>2

\* With every teleport on the reader of the player it concerns, no move of an honest
\* client is refused (acceptMove): what it sent before it saw the teleport is dropped
\* while the confirm is on its way, what follows starts from the new place.
THEOREM HonestMovesPass ==
    ASSUME Teleporters = {Reader}
    PROVE  WatchSpec => []HonestMoves
<1>1. MaxWatchEvents \in Nat
  BY WatchAssumption
<1>2. WatchInv => HonestMoves
  BY DEF WatchInv, HandsOf, HonestMoves, Doing
<1> QED
  BY <1>1, <1>2, WatchInits, WatchSteps, PTL DEF WatchSpec

\* Nor is the player then ever put back to a place it was teleported away from: a move
\* that acceptMove lets through was sent after the newest teleport was seen.
THEOREM NeverBack ==
    ASSUME Teleporters = {Reader}
    PROVE  WatchSpec => NoWayBack
<1>1. MaxWatchEvents \in Nat
  BY WatchAssumption
<1>2. ASSUME WatchInv, [WatchNext]_watchVars
      PROVE  [serverAt'.era >= serverAt.era]_watchVars
  <2>1. serverAt.era \in Nat /\ watchEvents \in Nat /\ serverAt.era <= watchEvents
    BY <1>2 DEF WatchInv, WatchTypes, Spots
  <2>2. CASE UNCHANGED watchVars
    BY <2>2 DEF watchVars
  <2>3. ASSUME NEW t \in WatchHand, TeleportPlayer(t)
        PROVE  serverAt'.era >= serverAt.era
    BY <2>1, <2>3 DEF TeleportPlayer, Spot
  <2>4. CASE ApplyMove
    <3>1. serverAt'.era = serverAt.era
      BY <1>2, <2>4 DEF ApplyMove, WatchInv, HandsOf, Doing
    <3> QED
      BY <2>1, <3>1
  <2>5. UNCHANGED serverAt => serverAt'.era >= serverAt.era
    BY <2>1
  <2> QED
    BY <1>2, <2>2, <2>3, <2>4, <2>5
       DEF WatchNext, BeginTeleport, PushPlayer, TickPing, NumberPing, PutOut, TakeConfirm, TakeMove,
           JudgeMove, TakePong, ClientTakes, ClientWalks
<1> QED
  BY <1>1, <1>2, WatchInits, WatchSteps, PTL DEF WatchSpec, NoWayBack

-----------------------------------------------------------------------------
(***************************************************************************)
(* Dropped items.  The ids in the list are of those given out, so a new    *)
(* one is not in it; the units of a pile are a number.                     *)
(***************************************************************************)

Piles ==
    /\ lastEid \in Nat /\ DOMAIN items \subseteq 1..lastEid
    /\ items = [e \in DOMAIN items |-> items[e]]
    /\ \A e \in DOMAIN items : items[e] \in Nat
    /\ units \in [dropped : Nat, taken : Nat, gone : Nat]

UnitsInv == Piles /\ UnitsConserved

\* There are finitely many piles.
LEMMA PilesAreFew == ASSUME Piles PROVE IsFiniteSet(DOMAIN items) /\ lastEid + 1 \notin DOMAIN items
<1>1. lastEid \in Int /\ 1 \in Int /\ DOMAIN items \subseteq 1..lastEid /\ lastEid + 1 \notin 1..lastEid
  BY DEF Piles
<1> QED
  BY <1>1, FS_Interval, FS_Subset

\* A drop that joins a pile, or is one.
LEMMA OnePileMore ==
    ASSUME NEW f, IsFiniteSet(DOMAIN f), \A e \in DOMAIN f : f[e] \in Int, NEW x, NEW n \in Int
    PROVE  Total(With(f, x, n)) = (IF x \in DOMAIN f THEN Total(f) - f[x] ELSE Total(f)) + n
<1> DEFINE g == With(f, x, n)
           T == DOMAIN f \cup {x}
<1>1. DOMAIN g = T /\ g[x] = n /\ \A d \in DOMAIN f \ {x} : g[d] = f[d]
  BY DEF With, Given
<1>2. IsFiniteSet(T) /\ x \in T
  BY FS_AddElement
<1> HIDE DEF g
<1>3. \A d \in T : g[d] \in Int
  BY <1>1
<1>4. Total(g) = SumFunctionOnSet(g, T) /\ Total(f) = SumFunctionOnSet(f, DOMAIN f)
  BY <1>1 DEF Total, SumFunction
<1>5. CASE x \in DOMAIN f
  <2>1. T = DOMAIN f
    BY <1>5
  <2>2. SumFunctionOnSet(g, T) = SumFunctionOnSet(f, T) - f[x] + g[x]
    BY <1>1, <1>2, <1>3, <2>1, SumChanges
  <2>3. SumFunctionOnSet(f, T) \in Int
    BY <1>2, <2>1, SumIsNumber
  <2> QED
    BY <1>1, <1>4, <1>5, <2>1, <2>2, <2>3 DEF g
<1>6. CASE x \notin DOMAIN f
  <2>1. T \ {x} = DOMAIN f
    BY <1>6
  <2>2. SumFunctionOnSet(g, T) = g[x] + SumFunctionOnSet(g, T \ {x})
    BY <1>2, <1>3, SumTakes
  <2>3. SumFunctionOnSet(g, DOMAIN f) = SumFunctionOnSet(f, DOMAIN f)
    BY <1>1, <1>6, SumAgrees
  <2>4. SumFunctionOnSet(f, DOMAIN f) \in Int
    BY SumIsNumber
  <2> QED
    BY <1>1, <1>4, <1>6, <2>1, <2>2, <2>3, <2>4 DEF g
<1> QED
  BY <1>5, <1>6

\* At first nothing has been dropped.
LEMMA UnitsInit == ASSUME EntitiesInit PROVE UnitsInv
<1>1. items = NoUnits /\ lastEid = 0 /\ units = [dropped |-> 0, taken |-> 0, gone |-> 0]
  BY DEF EntitiesInit
<1>2. DOMAIN items = {} /\ items = [e \in DOMAIN items |-> items[e]]
  BY <1>1 DEF NoUnits
<1>3. Total(items) = 0
  BY <1>2, SumOfNothing DEF Total, SumFunction
<1> QED
  BY <1>1, <1>2, <1>3 DEF UnitsInv, Piles, UnitsConserved

\* A drop is dropped once and lies there.
LEMMA DropKeeps ==
    ASSUME UnitsInv, NEW t \in Dropper, NEW n \in 1..StackMax, DropItem(t, n) PROVE UnitsInv'
<1>1. /\ Piles /\ IsFiniteSet(DOMAIN items) /\ \A e \in DOMAIN items : items[e] \in Int
      /\ lastEid + 1 \notin DOMAIN items /\ n \in Nat /\ units \in [dropped : Nat, taken : Nat, gone : Nat]
  BY PilesAreFew, EntitiesAssumption DEF UnitsInv, Piles
<1>2. units' = [units EXCEPT !.dropped = @ + n]
  BY DEF DropItem
<1>3. /\ units' \in [dropped : Nat, taken : Nat, gone : Nat]
      /\ units'.dropped = units.dropped + n /\ units'.taken = units.taken /\ units'.gone = units.gone
  BY <1>1, <1>2
<1>4. Total(items) \in Int
  BY <1>1, SumIsNumber DEF Total, SumFunction
<1>5. ASSUME NEW x, NEW k \in Nat, items' = With(items, x, k),
             x \in 1..lastEid', lastEid' \in Nat, lastEid <= lastEid'
      PROVE  Piles' /\ Total(items') = (IF x \in DOMAIN items THEN Total(items) - items[x] ELSE Total(items)) + k
  <2>1. DOMAIN items' = DOMAIN items \cup {x}
    BY <1>5 DEF With, Given
  <2>2. \A d \in DOMAIN items' : items'[d] = IF d = x THEN k ELSE items[d]
    BY <1>5 DEF With, Given
  <2>3. items' = [d \in DOMAIN items' |-> items'[d]]
    BY <1>5 DEF With, Given
  <2>4. DOMAIN items' \subseteq 1..lastEid'
    BY <1>1, <1>5, <2>1 DEF Piles
  <2>5. \A d \in DOMAIN items' : items'[d] \in Nat
    BY <1>1, <1>5, <2>1, <2>2 DEF Piles
  <2>6. Piles'
    BY <1>3, <1>5, <2>3, <2>4, <2>5 DEF Piles
  <2>7. Total(With(items, x, k)) = (IF x \in DOMAIN items THEN Total(items) - items[x] ELSE Total(items)) + k
    BY <1>1, <1>5, OnePileMore
  <2> QED
    BY <1>5, <2>6, <2>7
<1>6. CASE \E e \in DOMAIN items : CanMerge(e, n) /\ items' = TopUp(e, n) /\ UNCHANGED lastEid
  <2>1. PICK e \in DOMAIN items : items' = With(items, e, items[e] + n) /\ lastEid' = lastEid
    BY <1>6 DEF TopUp
  <2>2. items[e] \in Nat /\ items[e] + n \in Nat /\ e \in 1..lastEid /\ lastEid \in Nat
    BY <1>1 DEF Piles
  <2>3. Piles' /\ Total(items') = (Total(items) - items[e]) + (items[e] + n)
    BY <1>5, <2>1, <2>2
  <2> QED
    BY <1>1, <1>3, <1>4, <2>2, <2>3 DEF UnitsInv, UnitsConserved
<1>7. CASE NewEid /\ items' = With(items, lastEid', n)
  <2>1. lastEid' = lastEid + 1 /\ lastEid \in Nat
    BY <1>1, <1>7 DEF NewEid, Piles
  <2>2. Piles' /\ Total(items') = Total(items) + n
    BY <1>1, <1>5, <1>7, <2>1
  <2> QED
    BY <1>1, <1>3, <1>4, <2>2 DEF UnitsInv, UnitsConserved
<1> QED
  BY <1>6, <1>7 DEF DropItem

\* What a pile loses in a tick was taken or is gone.
LEMMA ItemTickKeeps == ASSUME UnitsInv, ItemTick PROVE UnitsInv'
<1> DEFINE T == DOMAIN items
<1>1. /\ Piles /\ IsFiniteSet(T) /\ \A e \in T : items[e] \in Nat
      /\ units \in [dropped : Nat, taken : Nat, gone : Nat]
  BY PilesAreFew DEF UnitsInv, Piles
<1>2. PICK out \in SUBSET {e \in T : Ripe(e)} :
        \E taken \in [{e \in T \ out : Ripe(e)} -> 0..StackMax] :
          /\ \A e \in DOMAIN taken : taken[e] <= items[e]
          /\ LET left == [e \in T |-> IF e \in DOMAIN taken THEN items[e] - taken[e] ELSE items[e]]
                 lost == out \cup {e \in T : left[e] = 0}
             IN  /\ items' = Without(left, lost)
                 /\ units' = [dropped |-> units.dropped, taken |-> units.taken + Total(taken),
                              gone |-> units.gone + Total(Restrict(items, out))]
                 /\ lastEid' = lastEid
  BY DEF ItemTick
<1>0. PICK taken \in [{e \in T \ out : Ripe(e)} -> 0..StackMax] :
        /\ \A e \in DOMAIN taken : taken[e] <= items[e]
        /\ LET left == [e \in T |-> IF e \in DOMAIN taken THEN items[e] - taken[e] ELSE items[e]]
               lost == out \cup {e \in T : left[e] = 0}
           IN  /\ items' = Without(left, lost)
               /\ units' = [dropped |-> units.dropped, taken |-> units.taken + Total(taken),
                            gone |-> units.gone + Total(Restrict(items, out))]
               /\ lastEid' = lastEid
  BY <1>2
<1> DEFINE B == DOMAIN taken
           left == [e \in T |-> IF e \in B THEN items[e] - taken[e] ELSE items[e]]
           lost == out \cup {e \in T : left[e] = 0}
           A == T \ lost
           k1 == [e \in T |-> IF e \in A THEN left[e] ELSE 0]
           k2 == [e \in T |-> IF e \in B THEN taken[e] ELSE 0]
           k3 == [e \in T |-> IF e \in out THEN items[e] ELSE 0]
           k23 == [e \in T |-> k2[e] + k3[e]]
<1>3. out \subseteq T /\ B \subseteq T /\ B \cap out = {} /\ \A e \in B : taken[e] \in Nat /\ taken[e] <= items[e]
  BY <1>0, EntitiesAssumption
<1>4. \A e \in T : left[e] \in Nat /\ (e \notin B => left[e] = items[e]) /\ (e \in B => left[e] = items[e] - taken[e])
  BY <1>1, <1>3
<1>5. /\ DOMAIN items' = A /\ items' = [e \in A |-> items'[e]] /\ \A e \in A : items'[e] = left[e]
  <2>1. items' = Restrict(left, DOMAIN left \ lost) /\ DOMAIN left = T
    BY <1>0 DEF Without
  <2> HIDE DEF left, lost
  <2> QED
    BY <2>1 DEF Restrict
<1>6. Total(items') = SumFunctionOnSet(k1, T)
  <2>1. Total(items') = SumFunctionOnSet(items', A)
    BY <1>5 DEF Total, SumFunction
  <2>2. A \subseteq T /\ \A e \in T : k1[e] = IF e \in A THEN left[e] ELSE 0
    OBVIOUS
  <2> HIDE DEF A, T, k1, left
  <2>3. \A e \in A : items'[e] = k1[e] /\ k1[e] \in Int
    BY <1>4, <1>5, <2>2
  <2> QED
    BY <1>1, <2>1, <2>2, <2>3, SumWithin
<1>7. Total(taken) = SumFunctionOnSet(k2, T)
  <2>1. Total(taken) = SumFunctionOnSet(taken, B)
    BY DEF Total, SumFunction
  <2>2. \A e \in T : k2[e] = IF e \in B THEN taken[e] ELSE 0
    OBVIOUS
  <2> HIDE DEF B, T, k2
  <2>3. \A e \in B : taken[e] = k2[e] /\ k2[e] \in Int
    BY <1>3, <2>2
  <2> QED
    BY <1>1, <1>3, <2>1, <2>2, <2>3, SumWithin
<1>8. Total(Restrict(items, out)) = SumFunctionOnSet(k3, T)
  <2> DEFINE r == Restrict(items, out)
  <2>1. DOMAIN r = out /\ \A e \in out : r[e] = items[e]
    BY DEF Restrict
  <2>2. \A e \in T : k3[e] = IF e \in out THEN items[e] ELSE 0
    OBVIOUS
  <2> HIDE DEF T, k3, r
  <2>3. Total(r) = SumFunctionOnSet(r, out)
    BY <2>1 DEF Total, SumFunction
  <2>4. \A e \in out : r[e] = k3[e] /\ k3[e] \in Int
    BY <1>1, <1>3, <2>1, <2>2
  <2>5. SumFunctionOnSet(r, out) = SumFunctionOnSet(k3, T)
    BY <1>1, <1>3, <2>2, <2>4, SumWithin
  <2> QED
    BY <2>3, <2>5 DEF r
<1>9. ASSUME NEW e \in T
      PROVE  k1[e] \in Nat /\ k2[e] \in Nat /\ k3[e] \in Nat /\ k23[e] = k2[e] + k3[e] /\ items[e] = k1[e] + k23[e]
  <2>1. items[e] \in Nat /\ left[e] \in Nat /\ (e \in A <=> e \notin out /\ left[e] # 0)
    BY <1>1, <1>4
  <2>2. k1[e] = IF e \in A THEN left[e] ELSE 0
    OBVIOUS
  <2>3. k2[e] = IF e \in B THEN taken[e] ELSE 0
    OBVIOUS
  <2>4. k3[e] = IF e \in out THEN items[e] ELSE 0
    OBVIOUS
  <2>5. k23[e] = k2[e] + k3[e]
    OBVIOUS
  <2>6. (e \notin B => left[e] = items[e]) /\ (e \in B => left[e] = items[e] - taken[e] /\ taken[e] \in Nat /\ e \notin out)
    BY <1>3, <1>4
  <2> HIDE DEF A, B, T, k1, k2, k3, k23, left
  <2> QED
    BY <2>1, <2>2, <2>3, <2>4, <2>5, <2>6
<1> HIDE DEF A, B, T, k1, k2, k3, k23, left, lost
<1>10. SumFunctionOnSet(items, T) = SumFunctionOnSet(k1, T) + SumFunctionOnSet(k23, T)
  <2>1. \A e \in T : k1[e] \in Int /\ k23[e] \in Int /\ items[e] = k1[e] + k23[e]
    BY <1>9
  <2> QED
    BY <1>1, <2>1, SumOfTwo
<1>11. SumFunctionOnSet(k23, T) = SumFunctionOnSet(k2, T) + SumFunctionOnSet(k3, T)
  <2>1. \A e \in T : k2[e] \in Int /\ k3[e] \in Int /\ k23[e] = k2[e] + k3[e]
    BY <1>9
  <2> QED
    BY <1>1, <2>1, SumOfTwo
<1>12. /\ SumFunctionOnSet(k1, T) \in Nat /\ SumFunctionOnSet(k2, T) \in Nat /\ SumFunctionOnSet(k3, T) \in Nat
  BY <1>1, <1>9, SumOfNats
<1>13. Total(items) = SumFunctionOnSet(items, T)
  BY DEF Total, SumFunction, T
<1>14. /\ units'.dropped = units.dropped /\ units'.taken = units.taken + SumFunctionOnSet(k2, T)
       /\ units'.gone = units.gone + SumFunctionOnSet(k3, T) /\ units' \in [dropped : Nat, taken : Nat, gone : Nat]
  <2>1. units' = [dropped |-> units.dropped, taken |-> units.taken + Total(taken),
                  gone |-> units.gone + Total(Restrict(items, out))]
    BY <1>0
  <2> QED
    BY <1>1, <1>7, <1>8, <1>12, <2>1
<1>15. Piles'
  <2>1. DOMAIN items' \subseteq 1..lastEid' /\ lastEid' \in Nat
    BY <1>0, <1>1, <1>5 DEF Piles, A, T
  <2>2. \A e \in DOMAIN items' : items'[e] \in Nat
    BY <1>4, <1>5 DEF A
  <2> QED
    BY <1>5, <1>14, <2>1, <2>2 DEF Piles
<1>16. units.dropped = Total(items) + units.taken + units.gone
  BY DEF UnitsInv, UnitsConserved
<1>17. Total(items') + units'.taken + units'.gone = units'.dropped
  <2>1. units.dropped \in Nat /\ units.taken \in Nat /\ units.gone \in Nat
    BY <1>1
  <2> QED
    BY <1>6, <1>10, <1>11, <1>12, <1>13, <1>14, <1>16, <2>1
<1> QED
  BY <1>15, <1>17 DEF UnitsInv, UnitsConserved

\* The other steps leave the piles alone; ids are only given out.
LEMMA UnitsSteps == ASSUME UnitsInv, [EntitiesNext]_entityVars PROVE UnitsInv'
<1>1. ASSUME UNCHANGED <<items, units>>, lastEid' = lastEid \/ lastEid' = lastEid + 1 PROVE UnitsInv'
  <2>1. lastEid' \in Nat /\ 1..lastEid \subseteq 1..lastEid'
    BY <1>1 DEF UnitsInv, Piles
  <2> QED
    BY <1>1, <2>1 DEF UnitsInv, Piles, UnitsConserved
<1>2. ASSUME NEW t, Send(t) PROVE UnitsInv'
  BY <1>1, <1>2 DEF Send
<1>3. ASSUME NEW t, PrimeEntity(t) \/ Launch(t) PROVE UnitsInv'
  BY <1>1, <1>3 DEF PrimeEntity, Launch, NewEid
<1>4. CASE TntTick \/ FlightTick \/ UNCHANGED entityVars
  BY <1>1, <1>4 DEF TntTick, FlightTick, entityVars
<1>5. ASSUME NEW v, Join(v) \/ Resync(v) \/ JoinStep(v) \/ LeaveView(v) PROVE UnitsInv'
  BY <1>1, <1>5 DEF Join, Resync, JoinStep, LeaveView
<1> QED
  BY <1>2, <1>3, <1>4, <1>5, DropKeeps, ItemTickKeeps DEF EntitiesNext

\* For any droppers, clients, stack sizes and ticks: what was dropped lies there, was
\* taken or is gone for good.
THEOREM UnitsAreConserved == EntitiesSpec => []UnitsConserved
<1>1. UnitsInv => UnitsConserved
  BY DEF UnitsInv
<1> QED
  BY <1>1, UnitsInit, UnitsSteps, PTL DEF EntitiesSpec
=============================================================================
