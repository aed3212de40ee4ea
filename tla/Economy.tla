------------------------------ MODULE Economy ------------------------------
(***************************************************************************)
(* The economy of a BedWars round (games/bedwars: generator.go, shop.go,   *)
(* upgrades.go, traps.go, kit.go and the death rules of bedwars.go).  A    *)
(* purchase looks at what is owned, pays, and is applied, in that order    *)
(* and with g.mu given up in between; several members of a team buy for    *)
(* the same team, each on the goroutine that reads its packets.  A death   *)
(* runs on the killer's goroutine.                                         *)
(*                                                                         *)
(* The four currencies are one, and the five upgrades, which differ in     *)
(* their prices and in what they do, are one.                              *)
(***************************************************************************)
EXTENDS Integers, Sequences, FiniteSetsExt, Functions

CONSTANTS
    Shopper,       \* players
    Side,          \* teams
    SideOf,        \* the team of each player
    TierPrices,    \* price of each tier of the upgrade
    TrapPrices,    \* price of the next trap, by how many are queued
    ToolPrices,    \* price of each tier of the tool
    ArmorPrice,
    GoodsPrice, GoodsPerStack,   \* plain goods; purchases that fill a stack
    GenInterval,   \* ticks between the units of a generator
    ForgeFactor,   \* what the upgrade divides GenInterval by, by tier
    PileCap,       \* units a generator leaves lying
    ScanInterval,  \* ticks between trap scans
    Mortal,        \* bound: who may be killed
    Buyer,         \* bound: who goes shopping
    LastRoundTick  \* bound

VARIABLES
    tickNo,     \* the instance's tick
    pile,       \* units lying at each team's generator
    purse,      \* units in each inventory
    tier,       \* teamState's upgrade
    traps,      \* teamState.traps, as their number
    inside,     \* teamState.inside
    kit,        \* kit of each player: armor and tool tier
    stands,     \* the base each player is in
    alive,      \* "yes", "dead" (to respawn) or "out"
    shop,       \* the purchase each reader is in
    kill,       \* OnPlayerDeath of each victim, on its killer's goroutine
    paid        \* history: units each team paid for upgrades and each player for tools

econVars == <<tickNo, pile, purse, tier, traps, inside, kit, stands, alive, shop, kill, paid>>

ASSUME EconomyAssumption ==
    /\ SideOf \in [Shopper -> Side]
    /\ Mortal \subseteq Shopper /\ Buyer \subseteq Shopper
    /\ TierPrices \in Seq(Nat) /\ TrapPrices \in Seq(Nat) /\ ToolPrices \in Seq(Nat)
    /\ Len(TrapPrices) > 0 /\ Len(ForgeFactor) = Len(TierPrices) + 1
    /\ \A i \in DOMAIN ForgeFactor : ForgeFactor[i] \in Nat \ {0}
    /\ ArmorPrice \in Nat /\ GoodsPrice \in Nat \ {0} /\ GoodsPerStack \in Nat \ {0}
    /\ GenInterval \in Nat \ {0} /\ PileCap \in Nat
    /\ ScanInterval \in Nat \ {0} /\ LastRoundTick \in Nat

MaxTraps == Len(TrapPrices)
NoShop == [pc |-> "idle"]
NoKill == [pc |-> "none"]
\* playerState: the dead who will respawn are still of their team.
OfTeam(p) == alive[p] # "out"

EconInit ==
    /\ tickNo = 0 /\ pile = [s \in Side |-> 0] /\ purse = [p \in Shopper |-> 0]
    /\ tier = [s \in Side |-> 0] /\ traps = [s \in Side |-> 0]
    /\ inside = [s \in Side |-> {}]
    /\ kit = [p \in Shopper |-> [armor |-> FALSE, tool |-> 0]]
    /\ stands = SideOf /\ alive = [p \in Shopper |-> "yes"]
    /\ shop = [p \in Shopper |-> NoShop] /\ kill = [p \in Shopper |-> NoKill]
    /\ paid = [x \in Side \cup Shopper |-> 0]

----------------------------------------------------------------------------
(* The tick loop. *)

\* effectiveIntervalLocked: a tier divides the interval, which is at least 1.
Interval(s) == Max({1, GenInterval \div ForgeFactor[tier[s] + 1]})

\* runGenerators: what is due drops a unit unless the pile is at its cap.
Generated ==
    [s \in Side |-> IF (tickNo + 1) % Interval(s) = 0 /\ pile[s] < PileCap
                    THEN pile[s] + 1 ELSE pile[s]]

\* trapTick: an enemy that was not in the base on the last scan fires the
\* first trap; several enter in some order, each taking a trap while there is
\* one.
Intruders(s) == {p \in Shopper : OfTeam(p) /\ SideOf[p] # s
                                    /\ alive[p] = "yes" /\ stands[p] = s}
Entering(s) == Intruders(s) \ inside[s]
Sprung(s, n) == IF n > traps[s] THEN traps[s] ELSE n

\* EconTick.  Those taken out of their team keep their last entry in inside.
EconTick ==
    /\ tickNo < LastRoundTick
    /\ tickNo' = tickNo + 1
    /\ pile' = Generated
    /\ IF tickNo' % ScanInterval = 0
       THEN /\ inside' = [s \in Side |->
                            Intruders(s) \cup {p \in inside[s] : ~OfTeam(p)}]
            /\ traps' = [s \in Side |->
                            traps[s] - Sprung(s, Quantify(Shopper, LAMBDA p : p \in Entering(s)))]
       ELSE UNCHANGED <<inside, traps>>
    /\ UNCHANGED <<purse, tier, kit, stands, alive, shop, kill, paid>>

\* processRespawns: the kit's tool, the upgrades of the team, nothing else.
EquipAgain(p) ==
    /\ alive[p] = "dead"
    /\ alive' = [alive EXCEPT ![p] = "yes"]
    /\ purse' = [purse EXCEPT ![p] = 0]
    /\ stands' = [stands EXCEPT ![p] = SideOf[p]]
    /\ UNCHANGED <<tickNo, pile, tier, traps, inside, kit, shop, kill, paid>>

\* Players walk, and collect what lies where they stand.
Walk(p, s) ==
    /\ alive[p] = "yes" /\ s # stands[p]
    /\ stands' = [stands EXCEPT ![p] = s]
    /\ UNCHANGED <<tickNo, pile, purse, tier, traps, inside, kit, alive, shop, kill, paid>>

CollectPile(p) ==
    /\ alive[p] = "yes" /\ pile[stands[p]] > 0
    /\ purse' = [purse EXCEPT ![p] = @ + pile[stands[p]]]
    /\ pile' = [pile EXCEPT ![stands[p]] = 0]
    /\ UNCHANGED <<tickNo, tier, traps, inside, kit, stands, alive, shop, kill, paid>>

----------------------------------------------------------------------------
(* The shops.  A menu stays open, and takes clicks, while its player is     *)
(* dead. *)

StartPurchase(p, what, seen, price) ==
    /\ p \in Buyer
    /\ shop[p] = NoShop /\ OfTeam(p)
    /\ shop' = [shop EXCEPT ![p] = [pc |-> "pay", what |-> what, seen |-> seen, price |-> price]]
    /\ UNCHANGED <<tickNo, pile, purse, tier, traps, inside, kit, stands, alive, kill, paid>>

BuyUpgrade(p) ==
    LET t == tier[SideOf[p]]
    IN  t < Len(TierPrices) /\ StartPurchase(p, "upgrade", t, TierPrices[t + 1])
BuyTrap(p) ==
    LET n == traps[SideOf[p]]
    IN  n < MaxTraps /\ StartPurchase(p, "trap", n, TrapPrices[n + 1])
BuyTool(p) ==
    LET t == kit[p].tool
    IN  t < Len(ToolPrices) /\ StartPurchase(p, "tool", t, ToolPrices[t + 1])
BuyArmor(p) == ~kit[p].armor /\ StartPurchase(p, "armor", 0, ArmorPrice)
\* A shift-click buys what fills a stack or what the purse covers, at least one.
BulkPurchases(p) == Max({1, Min({GoodsPerStack, purse[p] \div GoodsPrice})})
BuyGoods(p, bulk) ==
    LET n == IF bulk THEN BulkPurchases(p) ELSE 1
    IN  StartPurchase(p, "goods", n, n * GoodsPrice)

\* pay: TakeItem takes all of the price or nothing.
PaidFor(p, what) ==
    IF what = "tool" THEN {p} ELSE IF what = "upgrade" THEN {SideOf[p]} ELSE {}
BugPay(p) ==
    /\ shop[p].pc = "pay"
    /\ LET got == Min({purse[p], shop[p].price})
       IN  /\ purse' = [purse EXCEPT ![p] = @ - got]
           /\ shop' = [shop EXCEPT ![p].pc = "apply"]
           /\ paid' = [x \in DOMAIN paid |->
                        IF x \in PaidFor(p, shop[p].what) THEN paid[x] + got ELSE paid[x]]
    /\ UNCHANGED <<tickNo, pile, tier, traps, inside, kit, stands, alive, kill>>
Pay(p) ==
    /\ shop[p].pc = "pay"
    /\ IF purse[p] < shop[p].price
       THEN shop' = [shop EXCEPT ![p] = NoShop] /\ UNCHANGED <<purse, paid>>
       ELSE /\ purse' = [purse EXCEPT ![p] = @ - shop[p].price]
            /\ shop' = [shop EXCEPT ![p].pc = "apply"]
            /\ paid' = [x \in DOMAIN paid |->
                        IF x \in PaidFor(p, shop[p].what) THEN paid[x] + shop[p].price
                                                          ELSE paid[x]]
    /\ UNCHANGED <<tickNo, pile, tier, traps, inside, kit, stands, alive, kill>>

\* What was paid for is applied, whatever has changed since it was looked at.
Apply(p) ==
    LET b == shop[p]
        s == SideOf[p]
    IN  /\ b.pc = "apply"
        /\ shop' = [shop EXCEPT ![p] = NoShop]
        /\ tier' = IF b.what = "upgrade" THEN [tier EXCEPT ![s] = b.seen + 1] ELSE tier
        /\ traps' = IF b.what = "trap" THEN [traps EXCEPT ![s] = @ + 1] ELSE traps
        /\ kit' = CASE b.what = "tool" -> [kit EXCEPT ![p].tool = b.seen + 1]
                    [] b.what = "armor" -> [kit EXCEPT ![p].armor = TRUE]
                    [] OTHER -> kit
        /\ UNCHANGED <<tickNo, pile, purse, inside, stands, alive, kill, paid>>

----------------------------------------------------------------------------
(* OnPlayerDeath. *)

\* Under g.mu: a bought tool loses a tier, and the victim will respawn or is
\* out (bed says which).  Without an enemy to loot it, k is the victim.
Slain(v, k, bed) ==
    /\ alive[v] = "yes" /\ kill[v] = NoKill /\ (k = v \/ SideOf[k] # SideOf[v])
    /\ kit' = [kit EXCEPT ![v].tool = IF @ > 1 THEN @ - 1 ELSE @]
    /\ alive' = [alive EXCEPT ![v] = IF bed THEN "dead" ELSE "out"]
    /\ kill' = [kill EXCEPT ![v] = [pc |-> "count", by |-> k, loot |-> 0]]
    /\ UNCHANGED <<tickNo, pile, purse, tier, traps, inside, stands, shop, paid>>

\* Then what the victim carries is counted, given to the killer, and cleared.
CountLoot(v) ==
    /\ kill[v].pc = "count"
    /\ kill' = [kill EXCEPT ![v].pc = "give", ![v].loot = purse[v]]
    /\ UNCHANGED <<tickNo, pile, purse, tier, traps, inside, kit, stands, alive, shop, paid>>
GiveLoot(v) ==
    /\ kill[v].pc = "give"
    /\ purse' = IF kill[v].by = v THEN purse
                ELSE [purse EXCEPT ![kill[v].by] = @ + kill[v].loot]
    /\ kill' = [kill EXCEPT ![v].pc = "clear"]
    /\ UNCHANGED <<tickNo, pile, tier, traps, inside, kit, stands, alive, shop, paid>>
ClearVictim(v) ==
    /\ kill[v].pc = "clear"
    /\ purse' = [purse EXCEPT ![v] = 0]
    /\ kill' = [kill EXCEPT ![v] = NoKill]
    /\ UNCHANGED <<tickNo, pile, tier, traps, inside, kit, stands, alive, shop, paid>>

EconNext ==
    \/ EconTick
    \/ \E p \in Shopper :
        \/ EquipAgain(p) \/ CollectPile(p)
        \/ \E s \in Side : Walk(p, s)
        \/ BuyUpgrade(p) \/ BuyTrap(p) \/ BuyTool(p) \/ BuyArmor(p)
        \/ \E bulk \in BOOLEAN : BuyGoods(p, bulk)
        \/ Pay(p) \/ Apply(p)
        \/ p \in Mortal /\ \E k \in Shopper, bed \in BOOLEAN : Slain(p, k, bed)
        \/ CountLoot(p) \/ GiveLoot(p) \/ ClearVictim(p)

EconSpec == EconInit /\ [][EconNext]_econVars

----------------------------------------------------------------------------
(* Properties. *)

EconTypeOK ==
    /\ tickNo \in 0..LastRoundTick
    /\ pile \in [Side -> 0..PileCap] /\ purse \in [Shopper -> Nat]
    /\ tier \in [Side -> 0..Len(TierPrices)] /\ traps \in [Side -> Nat]
    /\ inside \in [Side -> SUBSET Shopper]
    /\ kit \in [Shopper -> [armor : BOOLEAN, tool : 0..Len(ToolPrices)]]
    /\ stands \in [Shopper -> Side] /\ alive \in [Shopper -> {"yes", "dead", "out"}]

PriceOf(prices, n) == SumFunctionOnSet(prices, 1..n)

\* Whoever buys at the same time, whoever is killed while buying: a team has no
\* tier and a player no tool tier whose price, and that of each tier below it,
\* has not been paid.
NothingForFree ==
    /\ \A s \in Side : paid[s] >= PriceOf(TierPrices, tier[s])
    /\ \A p \in Shopper : paid[p] >= PriceOf(ToolPrices, kit[p].tool)

\* upgrades.go: the trap queue is up to three deep (MaxTraps).
TrapsFewEnough == \A s \in Side : traps[s] <= MaxTraps
=============================================================================
