----------------------------- MODULE Inventory -----------------------------
(***************************************************************************)
(* Player inventories and a chest several players look into                *)
(* (server/gameplay/inventory, server/click.go, chest.go, drop.go,         *)
(* inventory.go, item_entity.go).  The server simulates every window click *)
(* on its own slots; an inventory's lock makes a whole click atomic, but   *)
(* closing a window takes what the cursor and the crafting grid hold in    *)
(* steps, and a move closes the windows of a player from another goroutine *)
(* than the one that reads the player's packets.                           *)
(*                                                                         *)
(* A stack is a kind and a count.  A kind stands for everything SameKind   *)
(* compares.  Creative mode is left out, and so is crafting, which the     *)
(* code does not have.                                                     *)
(***************************************************************************)
EXTENDS Integers, SequencesExt

CONSTANTS
    Viewer,       \* connections
    Kind,         \* kinds of item
    MaxStack,     \* how many of a kind a slot takes
    Piece,        \* the armor slot a kind is worn in (see Shield and NotWorn)
    NoDrop,       \* kinds that must stay in the player's inventory
    GridSlots, ArmorSlots, MainSlots, HotSlots, ChestSlots,  \* sizes
    Stock,        \* units of each kind lying on the ground at first
    MaxMade,      \* bound: units of each kind in existence
    Foreign       \* whether other goroutines close windows and clear inventories

VARIABLES
    inv,      \* Player.slots of each connection
    cursor,   \* Player.cursor
    drag,     \* the drag-click in progress
    menu,     \* whether the chest's window is open
    chest,    \* the chest's slots
    lying,    \* units of each kind lying on the ground
    closing,  \* goroutines on their way through dropCursor and returnCraftGrid
    made      \* history: units of each kind that ought to exist

invVars == <<inv, cursor, drag, menu, chest, lying, closing, made>>

Shield == ArmorSlots
NotWorn == ArmorSlots + 1

ASSUME InventoryAssumption ==
    /\ IsFiniteSet(Viewer)
    /\ GridSlots \in Nat /\ ArmorSlots \in Nat /\ ChestSlots \in Nat
    /\ MainSlots \in Nat \ {0} /\ HotSlots \in Nat \ {0} /\ MaxMade \in [Kind -> Nat]
    /\ MaxStack \in [Kind -> Nat \ {0}] /\ Piece \in [Kind -> 0..NotWorn]
    /\ NoDrop \subseteq Kind /\ Stock \in [Kind -> Nat]
    /\ Foreign \in BOOLEAN

\* Window 0: crafting result, grid, armor, main inventory, hotbar, off hand.
ArmorStart == 1 + GridSlots
MainStart == ArmorStart + ArmorSlots
HotbarStart == MainStart + MainSlots
OffhandSlot == HotbarStart + HotSlots
PlayerSlots == 0..OffhandSlot

Stack == [kind : Kind, count : Nat \ {0}]
NoStack == [count |-> 0]
AStack == Stack \cup {NoStack}
WithCount(st, n) == IF n <= 0 THEN NoStack ELSE [kind |-> st.kind, count |-> n]
Same(a, b) == a # NoStack /\ b # NoStack /\ a.kind = b.kind
Undroppable(st) == st # NoStack /\ st.kind \in NoDrop
Units(st, k) == IF st # NoStack /\ st.kind = k THEN st.count ELSE 0
UnitsAt(slots, k, places) == SumFunctionOnSet([i \in places |-> Units(slots[i], k)], places)
UnitsIn(slots, k) == UnitsAt(slots, k, DOMAIN slots)

----------------------------------------------------------------------------
(* The simulated window.  A view is the window's slots, the cursor, what    *)
(* the click throws, and whether it is a chest's.  A chest's window is the  *)
(* chest followed by the player's slots from MainStart; the off hand, which *)
(* it does not show but the F key reaches, comes last in both windows.      *)

OffIn(v) == IF v.chest THEN ChestSlots + MainSlots + HotSlots ELSE OffhandSlot
HotIn(v) == IF v.chest THEN ChestSlots + MainSlots ELSE HotbarStart
MainIn(v) == IF v.chest THEN ChestSlots ELSE MainStart
Window(v) == 0..(IF v.chest THEN OffIn(v) - 1 ELSE OffIn(v))
IsArmor(v, i) == ~v.chest /\ i \in ArmorStart..(MainStart - 1)

MaxIn(v, i, st) == IF IsArmor(v, i) THEN 1 ELSE MaxStack[st.kind]
MayPlace(v, i, st) ==
    \/ v.chest
    \/ i # 0 /\ (IsArmor(v, i) => Piece[st.kind] = i - ArmorStart)

\* How many of n of st slot i takes (safeInsert), and the slots once it has.
Room(v, i, st, n) ==
    IF st = NoStack \/ ~MayPlace(v, i, st) THEN 0
    ELSE IF v.slots[i] # NoStack /\ ~Same(v.slots[i], st) THEN 0
    ELSE Max({0, Min({n, st.count, MaxIn(v, i, st) - v.slots[i].count})})
PutAt(v, i, st) == [v EXCEPT !.slots = [v.slots EXCEPT ![i] = st]]
Carry(v, st) == [v EXCEPT !.cursor = st]
Put(v, i, st, n) == IF n = 0 THEN v ELSE PutAt(v, i, WithCount(st, v.slots[i].count + n))
\* n of slot i, or of the cursor, are gone from it.
TakeOut(v, i, n) == PutAt(v, i, WithCount(v.slots[i], v.slots[i].count - n))
Deduct(v, n) == Carry(v, WithCount(v.cursor, v.cursor.count - n))
Throw(v, st) ==
    IF st = NoStack THEN v
    ELSE [v EXCEPT !.drops = [v.drops EXCEPT ![st.kind] = @ + st.count]]

\* The cursor puts up to n of what it carries into slot i.
BugPlaceCursor(v, i, n) ==
    LET m == Room(v, i, v.cursor, n)
    IN  Deduct(Put(v, i, v.cursor, m), n)
PlaceCursor(v, i, n) ==
    LET m == Room(v, i, v.cursor, n)
    IN  Deduct(Put(v, i, v.cursor, m), m)

Pickup(v, i, right) ==
    LET cur == v.slots[i]
        car == v.cursor
        n == IF right THEN 1 ELSE car.count
        half == IF right THEN (cur.count + 1) \div 2 ELSE cur.count
    IN  CASE cur = NoStack -> PlaceCursor(v, i, n)
          [] cur # NoStack /\ car = NoStack ->
                Carry(TakeOut(v, i, half), WithCount(cur, half))
          [] Same(cur, car) /\ MayPlace(v, i, car) -> PlaceCursor(v, i, n)
          [] Same(cur, car) /\ ~MayPlace(v, i, car) ->
                LET got == Min({cur.count, MaxStack[car.kind] - car.count})
                IN  Deduct(TakeOut(v, i, got), -got)
          [] OTHER -> IF MayPlace(v, i, car) /\ car.count <= MaxIn(v, i, car)
                      THEN Carry(PutAt(v, i, car), cur)
                      ELSE v

\* st tops up matching slots of the sequence, then fills empty ones; what is
\* left is thrown (Inventory.add).
AddToPlayer(v, st) ==
    LET order == [k \in 1..HotSlots |-> HotIn(v) + k - 1]
                 \o [k \in 1..MainSlots |-> MainIn(v) + k - 1]
        Top(a, i) == LET m == Room(a.v, i, a.st, a.st.count)
                     IN  [v |-> Put(a.v, i, a.st, m), st |-> WithCount(a.st, a.st.count - m)]
        Match(a, i) == IF Same(a.v.slots[i], a.st) THEN Top(a, i) ELSE a
        Fill(a, i) == IF a.v.slots[i] = NoStack THEN Top(a, i) ELSE a
        end == FoldLeft(Fill, FoldLeft(Match, [v |-> v, st |-> st], order), order)
    IN  Throw(end.v, end.st)

\* The number keys and the F key: slot i against the hotbar or the off hand.
SwapWith(v, i, h) ==
    LET hot == v.slots[h]
        cur == v.slots[i]
        limit == MaxIn(v, i, hot)
        over == PutAt(PutAt(v, i, WithCount(hot, limit)), h, WithCount(hot, hot.count - limit))
    IN  IF hot = NoStack THEN PutAt(PutAt(v, h, cur), i, NoStack)
        ELSE IF ~MayPlace(v, i, hot) THEN v
        ELSE IF hot.count <= limit THEN PutAt(PutAt(v, h, cur), i, hot)
        ELSE IF cur = NoStack THEN over ELSE AddToPlayer(over, cur)

\* The slots of a range, ends included.
From(a, b) == [k \in 1..(b - a + 1) |-> a + k - 1]

\* The double click gathers the cursor's kind, from slots that are not full
\* first.
PickupAll(v, i, back) ==
    LET up == From(0, Cardinality(Window(v)) - 1)
        order == IF back THEN Reverse(up) ELSE up
        limit == MaxStack[v.cursor.kind]
        Gather(w, k) ==
            LET n == Min({w.slots[k].count, limit - w.cursor.count})
            IN  IF ~Same(w.slots[k], w.cursor) \/ n <= 0 THEN w
                ELSE Deduct(TakeOut(w, k, n), -n)
        NotFull(w, k) == IF w.slots[k].count = limit THEN w ELSE Gather(w, k)
    IN  IF v.cursor = NoStack \/ v.slots[i] # NoStack THEN v
        ELSE FoldLeft(Gather, FoldLeft(NotFull, v, order), order)

\* The stack of slot i moves to the slots of a range, in order: matching ones
\* first, then the first empty one.
MoveTo(v, i, range, reverse) ==
    LET order == IF reverse THEN Reverse(range) ELSE range
        Merge(w, k) ==
            LET st == w.slots[i]
                n == IF Same(w.slots[k], st)
                     THEN Max({0, Min({st.count, MaxIn(w, k, st) - w.slots[k].count})})
                     ELSE 0
            IN  IF n = 0 THEN w ELSE TakeOut(Put(w, k, st, n), i, n)
        merged == IF MaxStack[v.slots[i].kind] > 1 THEN FoldLeft(Merge, v, order) ELSE v
        st == merged.slots[i]
        free == {k \in DOMAIN order : /\ merged.slots[order[k]] = NoStack
                                      /\ MayPlace(merged, order[k], st)}
        to == order[Min(free)]
        n == Min({st.count, MaxIn(merged, to, st)})
    IN  IF st = NoStack \/ free = {} THEN merged ELSE TakeOut(Put(merged, to, st, n), i, n)

\* One shift-click on slot i.
QuickMove(v, i) ==
    LET p == Piece[v.slots[i].kind]
        main == From(MainStart, HotbarStart - 1)
        hotbar == From(HotbarStart, OffhandSlot - 1)
        both == From(MainStart, OffhandSlot - 1)
    IN  CASE v.slots[i] = NoStack -> v
          [] v.slots[i] # NoStack /\ v.chest ->
                IF i < ChestSlots THEN MoveTo(v, i, From(ChestSlots, OffIn(v) - 1), TRUE)
                                  ELSE MoveTo(v, i, From(0, ChestSlots - 1), FALSE)
          [] v.slots[i] # NoStack /\ ~v.chest /\ i = 0 -> v
          [] v.slots[i] # NoStack /\ ~v.chest /\ i \in 1..(MainStart - 1) ->
                MoveTo(v, i, both, FALSE)
          [] OTHER ->
                IF p < Shield /\ v.slots[ArmorStart + p] = NoStack
                THEN MoveTo(v, i, <<ArmorStart + p>>, FALSE)
                ELSE IF p = Shield /\ v.slots[OffhandSlot] = NoStack
                THEN MoveTo(v, i, <<OffhandSlot>>, FALSE)
                ELSE MoveTo(v, i, IF i \in MainStart..(HotbarStart - 1) THEN hotbar
                                  ELSE IF i = OffhandSlot THEN both
                                  ELSE main, FALSE)

\* It repeats while something moves, which is at most once per slot.
QuickMoveAll(v, i) == FoldSet(LAMBDA k, w : QuickMove(w, i), v, Window(v))

\* A click beside the window.
Outside == -999

\* A drag-click: started, slots added one packet each, ended.  size tells the
\* windows apart.
NoDrag == [on |-> FALSE]
Size(v) == IF v.chest THEN ChestSlots + MainSlots + HotSlots ELSE OffhandSlot + 1
TakesDrag(v, i) ==
    /\ MayPlace(v, i, v.cursor)
    /\ \/ v.slots[i] = NoStack
       \/ Same(v.slots[i], v.cursor) /\ v.slots[i].count <= MaxStack[v.cursor.kind]

DragStart(v, right) ==
    IF v.cursor = NoStack THEN NoDrag
    ELSE [on |-> TRUE, right |-> right, slots |-> {}, size |-> Size(v)]
DragAdd(v, d, i) ==
    IF ~d.on \/ v.cursor = NoStack \/ d.size # Size(v) THEN NoDrag
    ELSE IF i # Outside /\ TakesDrag(v, i) /\ v.cursor.count > Cardinality(d.slots)
    THEN [d EXCEPT !.slots = @ \cup {i}] ELSE d
\* What a drag leaves: each slot gets its share of what was carried.
DragEnd(v, d) ==
    LET car == v.cursor
        each == IF d.right THEN 1 ELSE car.count \div Cardinality(d.slots)
        Deal(i, w) ==
            IF ~TakesDrag(v, i) \/ car.count < Cardinality(d.slots) THEN w
            ELSE LET n == Min({each, MaxIn(v, i, car) - v.slots[i].count})
                 IN  Deduct(Put(w, i, car, n), n)
    IN  IF ~d.on \/ car = NoStack \/ d.size # Size(v) \/ d.slots = {} THEN v
        ELSE IF Cardinality(d.slots) = 1
        THEN Pickup(v, CHOOSE i \in d.slots : TRUE, d.right)
        ELSE FoldSet(Deal, v, d.slots)

\* A click: the view it leaves and the drag it leaves.  Any other click while
\* a drag is going on ends the drag and does nothing else.  right is the second
\* button; for swap the F key, against the first number key; for throw the
\* whole stack; for all the backward sweep.
Clicks == [mode : {"pickup", "swap", "throw", "all"}, right : BOOLEAN]
          \cup [mode : {"move", "add"}, right : {FALSE}]
Strokes == [mode : {"start", "end"}, right : BOOLEAN]
Click(v, d, i, k) ==
    IF k.mode = "start" THEN [v |-> v, d |-> IF d.on THEN NoDrag ELSE DragStart(v, k.right)]
    ELSE IF k.mode = "add" THEN [v |-> v, d |-> DragAdd(v, d, i)]
    ELSE IF k.mode = "end" THEN [v |-> DragEnd(v, d), d |-> NoDrag]
    ELSE IF d.on THEN [v |-> v, d |-> NoDrag]
    ELSE [d |-> d,
          v |-> CASE k.mode \in {"pickup", "move"} /\ i = Outside ->
                        IF v.cursor = NoStack THEN v ELSE
                        LET n == IF k.right THEN 1 ELSE v.cursor.count
                        IN  Deduct(Throw(v, WithCount(v.cursor, n)), n)
                  [] k.mode = "pickup" /\ i # Outside -> Pickup(v, i, k.right)
                  [] k.mode = "move" /\ i # Outside -> QuickMoveAll(v, i)
                  [] k.mode = "swap" /\ i # Outside ->
                        SwapWith(v, i, IF k.right THEN OffIn(v) ELSE HotIn(v))
                  [] k.mode = "throw" /\ i # Outside ->
                        IF v.cursor # NoStack \/ v.slots[i] = NoStack THEN v
                        ELSE LET n == IF k.right THEN v.slots[i].count ELSE 1
                             IN  Throw(TakeOut(v, i, n), WithCount(v.slots[i], n))
                  [] k.mode = "all" /\ i # Outside -> PickupAll(v, i, k.right)
                  [] OTHER -> v]

----------------------------------------------------------------------------
(* The connections. *)

PlayerView(c) == [chest |-> FALSE, slots |-> inv[c], cursor |-> cursor[c],
                  drops |-> [k \in Kind |-> 0]]
ChestView(c) ==
    [chest |-> TRUE, cursor |-> cursor[c], drops |-> [k \in Kind |-> 0],
     slots |-> [i \in 0..(ChestSlots + MainSlots + HotSlots) |->
                    IF i < ChestSlots THEN chest[i] ELSE inv[c][MainStart + i - ChestSlots]]]

\* Where a goroutine in dropCursor or returnCraftGrid is: the places it has yet
\* to empty, the cursor and the grid's slots, and what it has in its hands.
Hand == -1
CloseState(places, at, held, last) == [places |-> places, at |-> at, held |-> held, last |-> last]
NotClosing == CloseState(<< >>, "read", NoStack, "none")
PlaceDone(w) == CloseState(Tail(w.places), "read", NoStack, w.last)
Goroutine == {"reader", "mover"}
GridPlaces == [i \in 1..GridSlots |-> i]
HeldAt(c, p) == IF p = Hand THEN cursor[c] ELSE inv[c][p]
SetAt(c, p, st) ==
    IF p = Hand THEN cursor' = [cursor EXCEPT ![c] = st] /\ inv' = inv
                ELSE inv' = [inv EXCEPT ![c][p] = st] /\ cursor' = cursor

\* Player.Give: tops up stacks of the kind, then empty slots, hotbar first.
GiveOrder == [k \in 1..HotSlots |-> HotbarStart + k - 1]
             \o [k \in 1..MainSlots |-> MainStart + k - 1]
Give(slots, st) ==
    LET Add(a, i) ==
            LET n == Min({a.left, MaxStack[st.kind] - a.slots[i].count})
            IN  IF n <= 0 THEN a
                ELSE [slots |-> [a.slots EXCEPT ![i] = WithCount(st, @.count + n)],
                      left |-> a.left - n]
        Match(a, i) == IF Same(a.slots[i], st) THEN Add(a, i) ELSE a
        Fill(a, i) == IF a.slots[i] = NoStack THEN Add(a, i) ELSE a
    IN  FoldLeft(Fill, FoldLeft(Match, [slots |-> slots, left |-> st.count], GiveOrder),
                 GiveOrder)

InvInit ==
    /\ inv = [c \in Viewer |-> [i \in PlayerSlots |-> NoStack]]
    /\ cursor = [c \in Viewer |-> NoStack]
    /\ drag = [c \in Viewer |-> NoDrag]
    /\ menu = [c \in Viewer |-> FALSE]
    /\ chest = [i \in 0..(ChestSlots - 1) |-> NoStack]
    /\ lying = Stock
    /\ closing = [g \in Goroutine |-> [c \in Viewer |-> NotClosing]]
    /\ made = Stock

ReaderFree(c) == closing["reader"][c] = NotClosing

\* dropsAllowed: no undroppable stack is thrown, and the budget of drops may be
\* used up.
Droppable(v) == \A k \in NoDrop : v.drops[k] = 0
Thrown(v) == \E k \in Kind : v.drops[k] > 0
ThrowAll(v) == lying' = [k \in Kind |-> lying[k] + v.drops[k]]

\* A click in the player's own window.  A refused one leaves the drag's change.
ClickInventory(c, i, k) ==
    /\ ReaderFree(c)
    /\ \E r \in {Click(PlayerView(c), drag[c], i, k)} :
        /\ drag' = [drag EXCEPT ![c] = r.d]
        /\ \/ /\ Droppable(r.v)
              /\ inv' = [inv EXCEPT ![c] = r.v.slots]
              /\ cursor' = [cursor EXCEPT ![c] = r.v.cursor]
              /\ ThrowAll(r.v)
           \/ /\ Thrown(r.v)
              /\ UNCHANGED <<inv, cursor, lying>>
        /\ UNCHANGED <<menu, chest, closing, made>>

\* A click in a chest's window, refused also if it stores an undroppable stack.
StoresUndroppable(v) ==
    \E i \in 0..(ChestSlots - 1) : Undroppable(v.slots[i]) /\ v.slots[i] # chest[i]
ClickChest(c, i, k) ==
    /\ ReaderFree(c) /\ menu[c]
    /\ \E r \in {Click(ChestView(c), drag[c], i, k)} :
        /\ drag' = [drag EXCEPT ![c] = r.d]
        /\ \/ /\ Droppable(r.v) /\ ~StoresUndroppable(r.v)
              /\ inv' = [inv EXCEPT ![c] =
                            [s \in PlayerSlots |->
                                IF s < MainStart THEN @[s]
                                ELSE r.v.slots[s - MainStart + ChestSlots]]]
              /\ chest' = [s \in DOMAIN chest |-> r.v.slots[s]]
              /\ cursor' = [cursor EXCEPT ![c] = r.v.cursor]
              /\ ThrowAll(r.v)
           \/ /\ Thrown(r.v) \/ StoresUndroppable(r.v)
              /\ UNCHANGED <<inv, chest, cursor, lying>>
        /\ UNCHANGED <<menu, closing, made>>

OpenChest(c) ==
    /\ ReaderFree(c) /\ ~menu[c]
    /\ drag' = [drag EXCEPT ![c] = NoDrag]
    /\ menu' = [menu EXCEPT ![c] = TRUE]
    /\ UNCHANGED <<inv, cursor, chest, lying, closing, made>>

\* Close Container: the cursor is emptied; the inventory's own window (0) also
\* gives the grid back, the chest's closes.
CloseContainer(c, win) ==
    /\ ReaderFree(c)
    /\ drag' = [drag EXCEPT ![c] = NoDrag]
    /\ closing' = [closing EXCEPT !["reader"][c] =
                    CloseState(<<Hand>> \o (IF win = 0 THEN GridPlaces ELSE << >>), "read", NoStack,
                               IF win = 0 THEN "none" ELSE "close")]
    /\ UNCHANGED <<inv, cursor, menu, chest, lying, made>>

\* closeWindows: a chest out of reach (the reader), or a move (which may be
\* another goroutine's).
CloseWindows(g, c) ==
    /\ closing[g][c] = NotClosing
    /\ g = "mover" => Foreign
    /\ drag' = [drag EXCEPT ![c] = NoDrag]
    /\ closing' = [closing EXCEPT ![g][c] =
                    CloseState(<<Hand>> \o GridPlaces, "read", NoStack, "close")]
    /\ UNCHANGED <<inv, cursor, menu, chest, lying, made>>

\* dropCursor and returnCraftGrid, place by place: look, ...
CloseRead(g, c) ==
    LET w == closing[g][c]
        p == Head(w.places)
    IN  /\ w.places # << >> /\ w.at = "read"
        /\ closing' = [closing EXCEPT ![g][c] =
                        IF HeldAt(c, p) = NoStack THEN PlaceDone(w)
                        ELSE CloseState(w.places, "empty", HeldAt(c, p), w.last)]
        /\ UNCHANGED <<inv, cursor, drag, menu, chest, lying, made>>

\* ... empty the place, ...
CloseEmpty(g, c) ==
    /\ closing[g][c].at = "empty"
    /\ SetAt(c, Head(closing[g][c].places), NoStack)
    /\ closing' = [closing EXCEPT ![g][c] = [@ EXCEPT !.at = "give"]]
    /\ UNCHANGED <<drag, menu, chest, lying, made>>

\* ... give back or throw what was there (the cursor's stack is given back only
\* if it must not be dropped), ...
CloseGive(g, c) ==
    LET w == closing[g][c]
        given == Give(inv[c], w.held)
        left == WithCount(w.held, given.left)
    IN  /\ w.at = "give"
        /\ IF Head(w.places) = Hand /\ ~Undroppable(w.held)
           THEN /\ lying' = [lying EXCEPT ![w.held.kind] = @ + w.held.count]
                /\ closing' = [closing EXCEPT ![g][c] = PlaceDone(w)]
                /\ UNCHANGED inv
           ELSE /\ inv' = [inv EXCEPT ![c] = given.slots]
                /\ IF left # NoStack /\ Undroppable(w.held)
                   THEN /\ closing' = [closing EXCEPT ![g][c] =
                                        CloseState(w.places, "back", left, w.last)]
                        /\ UNCHANGED lying
                   ELSE /\ closing' = [closing EXCEPT ![g][c] = PlaceDone(w)]
                        /\ lying' = [lying EXCEPT ![w.held.kind] = @ + left.count]
        /\ UNCHANGED <<cursor, drag, menu, chest, made>>

\* ... and what can go nowhere goes back to its place.
CloseBack(g, c) ==
    LET w == closing[g][c]
    IN  /\ w.at = "back"
        /\ SetAt(c, Head(w.places), w.held)
        /\ closing' = [closing EXCEPT ![g][c] = PlaceDone(w)]
        /\ UNCHANGED <<drag, menu, chest, lying, made>>

CloseEnd(g, c) ==
    /\ closing[g][c].places = << >> /\ closing[g][c] # NotClosing
    /\ closing' = [closing EXCEPT ![g][c] = NotClosing]
    /\ menu' = [menu EXCEPT ![c] = @ /\ closing[g][c].last = "none"]
    /\ UNCHANGED <<inv, cursor, drag, chest, lying, made>>

\* The tick loop: a player collects a stack from the ground, what fits of it.
Collect(c, k, n) ==
    LET given == Give(inv[c], [kind |-> k, count |-> n])
    IN  /\ n \in 1..Min({lying[k], MaxStack[k]}) /\ given.left < n
        /\ inv' = [inv EXCEPT ![c] = given.slots]
        /\ lying' = [lying EXCEPT ![k] = @ - (n - given.left)]
        /\ UNCHANGED <<cursor, drag, menu, chest, closing, made>>

\* Q or ctrl+Q: one unit or the whole stack of a hotbar slot, in one Edit.
DropHeld(c, i, all) ==
    LET st == inv[c][i]
        n == IF all THEN st.count ELSE 1
    IN  /\ ReaderFree(c) /\ i \in HotbarStart..(OffhandSlot - 1)
        /\ st # NoStack /\ ~Undroppable(st)
        /\ inv' = [inv EXCEPT ![c][i] = WithCount(st, st.count - n)]
        /\ lying' = [lying EXCEPT ![st.kind] = @ + n]
        /\ UNCHANGED <<cursor, drag, menu, chest, closing, made>>

\* A game or a command gives a stack (giveItem); what does not fit is not made.
GiveStack(c, k) ==
    LET given == Give(inv[c], [kind |-> k, count |-> 1])
    IN  /\ made[k] < MaxMade[k]
        /\ inv' = [inv EXCEPT ![c] = given.slots]
        /\ made' = [made EXCEPT ![k] = @ + 1 - given.left]
        /\ UNCHANGED <<cursor, drag, menu, chest, lying, closing>>

\* Player.Take: n units of the kind, the main inventory before the hotbar, or
\* nothing at all.
Take(slots, k, n) ==
    LET Less(a, i) == LET m == Min({a.left, Units(a.slots[i], k)})
                      IN  [slots |-> [a.slots EXCEPT ![i] = WithCount(@, @.count - m)],
                           left |-> a.left - m]
    IN  FoldLeft(Less, [slots |-> slots, left |-> n], Reverse(GiveOrder)).slots
TakeItem(c, k, n) ==
    /\ n \in 1..MaxMade[k]
    /\ UnitsAt(inv[c], k, MainStart..(OffhandSlot - 1)) >= n
    /\ inv' = [inv EXCEPT ![c] = Take(@, k, n)]
    /\ made' = [made EXCEPT ![k] = @ - n]
    /\ UNCHANGED <<cursor, drag, menu, chest, lying, closing>>

\* Player.Clear: a game's or a move's, which takes the cursor too.
Clear(c) ==
    /\ ReaderFree(c) \/ Foreign
    /\ made' = [k \in Kind |-> made[k] - UnitsIn(inv[c], k) - Units(cursor[c], k)]
    /\ inv' = [inv EXCEPT ![c] = [i \in PlayerSlots |-> NoStack]]
    /\ cursor' = [cursor EXCEPT ![c] = NoStack]
    /\ UNCHANGED <<drag, menu, chest, lying, closing>>

\* Where a click may be: a drag starts and ends beside the slots.
At(k, slots) == IF k \in Strokes THEN {Outside} ELSE slots \cup {Outside}

InvNext ==
    \/ \E c \in Viewer, k \in Clicks \cup Strokes :
        \/ \E i \in At(k, PlayerSlots) : ClickInventory(c, i, k)
        \/ \E i \in At(k, 0..(ChestSlots + MainSlots + HotSlots - 1)) : ClickChest(c, i, k)
    \/ \E c \in Viewer : \/ OpenChest(c)
                         \/ CloseContainer(c, 0)
                         \/ menu[c] /\ CloseContainer(c, 1)
                         \/ Clear(c)
    \/ \E c \in Viewer, g \in Goroutine :
        CloseWindows(g, c) \/ CloseRead(g, c) \/ CloseEmpty(g, c)
            \/ CloseGive(g, c) \/ CloseBack(g, c) \/ CloseEnd(g, c)
    \/ \E c \in Viewer, i \in PlayerSlots, all \in BOOLEAN : DropHeld(c, i, all)
    \/ \E c \in Viewer, k \in Kind :
        \/ GiveStack(c, k)
        \/ \E n \in 1..MaxMade[k] : Collect(c, k, n) \/ TakeItem(c, k, n)

InvSpec == InvInit /\ [][InvNext]_invVars

----------------------------------------------------------------------------
(* Properties. *)

InvTypeOK ==
    /\ inv \in [Viewer -> [PlayerSlots -> AStack]]
    /\ cursor \in [Viewer -> AStack]
    /\ menu \in [Viewer -> BOOLEAN]
    /\ chest \in [0..(ChestSlots - 1) -> AStack]
    /\ lying \in [Kind -> Nat] /\ made \in [Kind -> Int]

InHands(g, c) == IF closing[g][c].at \in {"give", "back"} THEN closing[g][c].held ELSE NoStack
UnitsOf(c, k) == UnitsIn(inv[c], k) + Units(cursor[c], k)
                 + Units(InHands("reader", c), k) + Units(InHands("mover", c), k)

\* No item is lost or made by clicks, drags, closing windows, shared chests,
\* pickups, gifts and payments: what the inventories, the cursors, the chest,
\* the ground and the goroutines' hands hold is what ought to exist.
ItemsConserved ==
    \A k \in Kind :
        made[k] = lying[k] + UnitsIn(chest, k)
            + SumFunctionOnSet([c \in Viewer |-> UnitsOf(c, k)], Viewer)

\* Whatever is clicked, dragged, dropped or closed, an item that must stay with
\* its player (NoDrop, the hub's menu items) is never on the ground or in a
\* chest.
UndroppableStays ==
    \A k \in NoDrop : lying[k] = 0 /\ UnitsIn(chest, k) = 0

\* No sequence of clicks leaves a stack above its size, more than one piece in
\* an armor slot, a piece in the wrong one, or anything in the crafting result.
SlotsLegal ==
    \A c \in Viewer :
        /\ \A i \in PlayerSlots :
            LET st == inv[c][i]
            IN  st # NoStack => /\ i # 0 /\ st.count <= MaxStack[st.kind]
                                /\ i \in ArmorStart..(MainStart - 1) =>
                                    st.count = 1 /\ Piece[st.kind] = i - ArmorStart
        /\ \A st \in {cursor[c]} \cup {chest[i] : i \in DOMAIN chest} :
            st # NoStack => st.count <= MaxStack[st.kind]
=============================================================================
