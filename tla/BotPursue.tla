----------------------------- MODULE BotPursue -----------------------------
(***************************************************************************)
(* What a bot is after when there is nobody to fight (pursue of            *)
(* botai/brain.go, with the shopping, saving and raiding of tactics.go and *)
(* the bed cover of team.go), and the routes that take it there (goTo and  *)
(* goToFar).                                                               *)
(*                                                                         *)
(* One bot, one enemy bed, one generator of gems.  The map is its places:  *)
(* the home island with the spawn, the shop and the station on it, the     *)
(* generator and the enemy bed across the void, and an islet a bot may be  *)
(* knocked down to.  Between them roads, with the number of blocks still   *)
(* to be laid.  How a route is found and followed cell by cell is BotPath  *)
(* and BotWalk; what the bot does beside the bed is BotDig.                *)
(***************************************************************************)
EXTENDS Naturals, FiniteSets

LOCAL INSTANCE FiniteSetsExt

CONSTANTS
  MinBlocks,    \* botMinBlocks
  WantBlocks,   \* botWantBlocks
  Spare,        \* botBlockSpare
  Pack,         \* the blocks a purchase brings
  Gaps,         \* the blocks missing on the roads: [target, pickup, islet]
  Legs,         \* the ticks it takes to walk a road
  GiveUpTicks,  \* botGiveUpTicks
  RaidRest,     \* botRaidRest
  RoleSet,      \* the parts the bot may have in its team
  MaxWallet,    \* bound: of each currency
  MaxTurns      \* bound: the turns of events

VARIABLES
  legs,      \* [at, route, far, last, blocks, gap]: see below
  duty,      \* brain.role
  bedUp,     \* the enemy bed stands
  cover,     \* the own bed still lacks cover
  iron, gold, gems,
  owned,     \* the gear bought: of "gold", "gems"
  pile,      \* gems lie at the generator
  needBlocks, shopping, raiding,
  failed,    \* failed[t]: ticks until given-up "target" or "pickup" counts again
  restIn,    \* nextRaid
  turns,     \* the turns of events so far
  hunts      \* the far searches begun for the bed since the last of them

pursueVars == <<legs, duty, bedUp, cover, iron, gold, gems, owned, pile, needBlocks,
                shopping, raiding, failed, restIn, turns, hunts>>

Keys == {"shop", "station", "home", "defend", "pickup", "target"}
Dest == [shop |-> "shop", station |-> "station", home |-> "home", defend |-> "home",
         pickup |-> "gen", target |-> "bed"]
HomeIsland == {"home", "shop", "station"}

-----------------------------------------------------------------------------
(* Getting there.  legs holds where the bot is (at), the route it is on    *)
(* ([key, left, far], left the steps to go), the far search that runs      *)
(* ([key, found]), the far route it fell off (last: a key), the blocks it  *)
(* carries and the blocks the roads lack (gap).                            *)

NoKey == "none"
NoRoute == [key |-> NoKey, left |-> 0, far |-> FALSE]
NoSearch == [key |-> NoKey, found |-> FALSE]

\* bridgesLeft of the road from where the bot is to the goal of key.
Lacking(l, key) ==
  (IF l.at = "islet" THEN l.gap.islet ELSE 0)
  + (IF key \in DOMAIN l.gap /\ l.at # Dest[key] THEN l.gap[key] ELSE 0)

Laid(l, key) ==
  [l EXCEPT !.blocks = @ - 1,
            !.gap = IF l.at = "islet" /\ l.gap.islet > 0
                    THEN [@ EXCEPT !.islet = @ - 1] ELSE [@ EXCEPT ![key] = @ - 1]]

\* follow: to the edge, then lay what is missing, then walk on.  Without a
\* block to lay the route is gone.
Follow(l) ==
  LET key == l.route.key
  IN  IF l.at \notin {"road", "islet"} THEN [l EXCEPT !.at = "road"]
      ELSE IF Lacking(l, key) > 0
      THEN IF l.blocks > 0 THEN Laid(l, key) ELSE [l EXCEPT !.route = NoRoute]
      ELSE IF l.route.left > 1 THEN [l EXCEPT !.route.left = @ - 1, !.at = "road"]
      ELSE [l EXCEPT !.route = NoRoute, !.at = Dest[key]]

\* What a search finds: the road, if the blocks allowed for it do.
Way(l, key, limit) == Lacking(l, key) <= limit

Routed(l, key, far) == [l EXCEPT !.route = [key |-> key, left |-> Legs, far |-> far]]

\* goToFar: the legs after the tick and the status; a pending search may or
\* may not be done.
FarStart(l, key, limit) ==
  IF l.at = Dest[key]
  THEN {[l |-> l, status |-> "ready", begun |-> FALSE]}
  ELSE {[l |-> [l EXCEPT !.far = [key |-> key, found |-> Way(l, key, limit)]],
         status |-> "pending", begun |-> TRUE]}

FarGo(l, key, limit) ==
  IF l.route.key = key
  THEN {[l |-> Follow(l), status |-> "ready", begun |-> FALSE]}
  ELSE IF l.last = key
  THEN {[l |-> Follow(Routed([l EXCEPT !.last = NoKey], key, TRUE)), status |-> "ready", begun |-> FALSE]}
       \cup FarStart([l EXCEPT !.last = NoKey], key, limit)
  ELSE IF l.far.key = key
  THEN {[l |-> l, status |-> "pending", begun |-> FALSE]} \cup
       (IF l.far.found
        THEN {[l |-> Follow(Routed([l EXCEPT !.far = NoSearch], key, TRUE)), status |-> "ready", begun |-> FALSE]}
        ELSE {[l |-> [l EXCEPT !.far = NoSearch], status |-> "failed", begun |-> FALSE]})
  ELSE FarStart(l, key, limit)

\* goTo: a quick search first, a far one for what that does not find.
GoTo(l, key) ==
  IF l.at = Dest[key] THEN {[l EXCEPT !.route = NoRoute]}
  ELSE IF l.far.key = key \/ (l.route.key = key /\ l.route.far)
  THEN {g.l : g \in FarGo(l, key, l.blocks)}
  ELSE IF l.route.key = key THEN {Follow(l)}
  ELSE IF l.at \in HomeIsland /\ Dest[key] \in HomeIsland
  THEN {Follow(Routed(l, key, FALSE))}
  ELSE {g.l : g \in FarGo([l EXCEPT !.route = NoRoute], key, l.blocks)}

-----------------------------------------------------------------------------
(* What it is after. *)

OnEnemyBase == bedUp /\ legs.at = "bed"
NearHome == legs.at \in HomeIsland
Less1(n) == IF n = 0 THEN 0 ELSE n - 1

Least == Max({MinBlocks, needBlocks})
StockTo == Max({WantBlocks, Least})

\* The blocks to carry before setting out.
Wanted ==
  LET covered == legs.route.key # NoKey /\ Lacking(legs, legs.route.key) <= legs.blocks
      w1 == IF (legs.route.key = "target" /\ covered) \/ OnEnemyBase THEN 0 ELSE Least
  IN  IF ~ raiding THEN w1 ELSE IF covered THEN 0 ELSE Min({w1, MinBlocks})

CanPay == iron > 0

\* wishList: away from home only what gems buy.
Wishes == ({"gold", "gems"} \ owned) \ (IF NearHome THEN {} ELSE {"gold"})
Purse(c) == IF c = "gold" THEN gold ELSE gems

\* wantWare.
Wares == IF OnEnemyBase THEN {} ELSE {c \in Wishes : Purse(c) > 0}

\* br.shopping, as this tick settles it.
Shops ==
  /\ (shopping /\ ~ OnEnemyBase) \/ (legs.blocks < Wanted /\ CanPay) \/ Wares # {}
  /\ ~ ((~ CanPay \/ legs.blocks >= StockTo) /\ Wares = {})

\* endRaid.
EndRaid == raiding' = FALSE /\ restIn' = IF raiding THEN RaidRest ELSE Less1(restIn)
KeepRaid == raiding' = raiding /\ restIn' = Less1(restIn)

Expire == failed' = [t \in DOMAIN failed |-> Less1(failed[t])]
GiveUp(t) == failed' = [[u \in DOMAIN failed |-> Less1(failed[u])] EXCEPT ![t] = GiveUpTicks]

\* A far search for the bed was begun; a given-up bed that counts again is
\* searched again in all fairness.
Hunted(n) ==
  hunts' = IF failed["target"] = 1 THEN n ELSE IF hunts + n > 3 THEN 3 ELSE hunts + n

Need0 == IF bedUp THEN needBlocks ELSE 0
World == UNCHANGED <<duty, bedUp, cover, pile, turns>>
Purses == UNCHANGED <<iron, gold, gems, owned>>

\* Shop for gear first, then for blocks; nextBuy spaces the purchases.
ShopTick ==
  /\ Shops /\ shopping' = TRUE
  /\ needBlocks' = Need0
  /\ EndRaid /\ Expire
  /\ IF legs.at = "shop"
     THEN \/ /\ Wares = {}
             /\ iron' = iron - 1
             /\ legs' = [legs EXCEPT !.blocks = @ + Pack]
             /\ hunts' = 0
             /\ UNCHANGED <<gold, gems, owned>>
          \/ \E c \in Wares :
               /\ owned' = owned \cup {c}
               /\ gold' = IF c = "gold" THEN gold - 1 ELSE gold
               /\ gems' = IF c = "gems" THEN gems - 1 ELSE gems
               /\ hunts' = 0
               /\ UNCHANGED <<legs, iron>>
          \/ UNCHANGED legs /\ Purses /\ Hunted(0)
     ELSE legs' \in GoTo(legs, "shop") /\ Purses /\ Hunted(0)
  /\ World

Goes == ~ Shops /\ shopping' = FALSE

\* saving: stay at the station for gear it cannot pay yet.
SaveTick ==
  /\ Goes /\ needBlocks' = Need0
  /\ NearHome /\ "gold" \in Wishes
  /\ turns < MaxTurns /\ turns' = turns + 1 /\ hunts' = 0
  /\ legs' \in GoTo(legs, "station")
  /\ KeepRaid /\ Expire /\ Purses
  /\ UNCHANGED <<duty, bedUp, cover, pile>>

\* defend: cover the own bed.
Defends == duty = "defender" /\ cover > 0
DefendTick ==
  /\ Goes /\ needBlocks' = Need0 /\ Defends
  /\ KeepRaid /\ Expire /\ Purses
  /\ IF legs.blocks = 0
     THEN legs' \in GoTo(legs, "station") /\ UNCHANGED cover /\ Hunted(0)
     ELSE IF legs.at = "home"
     THEN /\ legs' = [legs EXCEPT !.blocks = @ - 1]
          /\ cover' = cover - 1 /\ Hunted(0)
     ELSE \E g \in FarGo(legs, "defend", 0) :
            /\ legs' = g.l
            /\ cover' = IF g.status = "failed" THEN cover - 1 ELSE cover
            /\ Hunted(0)
  /\ UNCHANGED <<duty, bedUp, pile, turns>>

\* A defender does not wait for blocks once the bed is wrapped up.
Want == IF duty = "defender" THEN 0 ELSE Wanted

EarnTick ==
  /\ Goes /\ needBlocks' = Need0 /\ ~ Defends
  /\ legs.blocks < Want
  /\ legs' \in GoTo(legs, "station")
  /\ KeepRaid /\ Expire /\ Purses /\ Hunted(0)
  /\ World

\* collect: there is a pile worth having.
MayCollect ==
  /\ Goes /\ ~ Defends /\ legs.blocks >= Want
  /\ ~ OnEnemyBase /\ duty \notin {"pusher", "defender"}
  /\ raiding \/ restIn = 0

Pile == pile > 0 /\ failed["pickup"] = 0 /\ "gems" \notin owned

RaidTick ==
  /\ MayCollect /\ Pile /\ needBlocks' = Need0
  /\ \E g \in IF legs.at = "gen" THEN {[l |-> legs, status |-> "ready", begun |-> FALSE]}
              ELSE FarGo(legs, "pickup", legs.blocks) :
       /\ g.status # "failed"
       /\ legs' = g.l
  /\ raiding' = TRUE /\ restIn' = Less1(restIn)
  /\ IF raiding THEN Hunted(0) ELSE hunts' = 0
  /\ Expire /\ Purses /\ World

\* The bed, unless it is down, given up or there.
BedTick(l) ==
  IF ~ bedUp \/ failed["target"] > 0 \/ l.at = "bed" THEN {}
  ELSE FarGo(l, "target", MinBlocks + WantBlocks + Gaps.target + Gaps.islet)

\* Mutant: a bed that cannot be reached with what it has is never given up.
BugTooFew(want) == FALSE

\* The bed is out of its reach for now: it will not go back for more.
TooFew(want) == want = 0

\* One try at the bed: what becomes of the legs, the blocks needed and the
\* bed given up.
BedTry(g, want) ==
  LET lack == Lacking(g.l, "target")
      dropped == [g.l EXCEPT !.route = NoRoute, !.at = legs.at]  \* the step is not taken
  IN  CASE g.status = "failed" -> [go |-> "on", l |-> g.l, need |-> 0]
        [] g.status = "ready" /\ lack > g.l.blocks ->
             IF TooFew(want) THEN [go |-> "on", l |-> dropped, need |-> 0]
             ELSE [go |-> "stop", l |-> dropped, need |-> lack + Spare]
        [] g.status = "ready" -> [go |-> "stop", l |-> g.l, need |-> 0]
        [] OTHER -> [go |-> "stop", l |-> g.l, need |-> needBlocks]

HuntFrom(l) ==
  \E g \in BedTick(l) :
  \E t \in {BedTry(g, Want)} :
    /\ needBlocks' = t.need
    /\ IF t.go = "on" THEN GiveUp("target") ELSE Expire
    /\ legs' \in IF t.go = "on" THEN GoTo(t.l, "station") ELSE {t.l}
    /\ Hunted(IF g.begun THEN 1 ELSE 0)

Idles == Goes /\ ~ Defends /\ legs.blocks >= Want /\ (MayCollect => ~ Pile)

HuntTick ==
  /\ Idles
  /\ IF MayCollect THEN EndRaid ELSE KeepRaid
  /\ HuntFrom(legs)
  /\ Purses /\ World

\* The generator is out of reach: the raid is over.
RaidFails ==
  /\ MayCollect /\ Pile /\ legs.at # "gen" /\ needBlocks' = Need0
  /\ \E g \in FarGo(legs, "pickup", legs.blocks) :
       /\ g.status = "failed"
       /\ GiveUp("pickup") /\ EndRaid
       /\ legs' \in GoTo(g.l, "station")
  /\ hunts' = 0 /\ Purses /\ World

\* At the bed: it breaks, or turns out too hard, or more work is to be done.
BedWork ==
  /\ Idles /\ OnEnemyBase /\ failed["target"] = 0
  /\ needBlocks' = needBlocks
  /\ KeepRaid
  /\ \/ bedUp' = FALSE /\ Expire /\ UNCHANGED legs
     \/ bedUp' = bedUp /\ GiveUp("target") /\ UNCHANGED legs
  /\ Purses /\ hunts' = 0
  /\ UNCHANGED <<duty, cover, pile, turns>>

\* Nothing else to do.
RestTickAtStation ==
  /\ Idles /\ needBlocks' = Need0
  /\ ~ bedUp \/ failed["target"] > 0
  /\ IF MayCollect THEN EndRaid ELSE KeepRaid
  /\ legs' \in GoTo(legs, "station")
  /\ Expire /\ Purses /\ Hunted(0) /\ World

-----------------------------------------------------------------------------
(* What happens to it. *)

Turn == turns < MaxTurns /\ turns' = turns + 1 /\ hunts' = 0

\* It picks up what the station makes, or the pile.
PicksUp ==
  /\ \/ /\ legs.at = "station" /\ iron < MaxWallet
        /\ iron' = iron + 1 /\ UNCHANGED <<gold, gems, pile>>
     \/ /\ legs.at = "station" /\ gold < MaxWallet
        /\ gold' = gold + 1 /\ UNCHANGED <<iron, gems, pile>>
     \/ /\ legs.at = "gen" /\ pile > 0 /\ gems < MaxWallet
        /\ gems' = gems + 1 /\ pile' = 0 /\ UNCHANGED <<iron, gold>>
  /\ Turn
  /\ UNCHANGED <<legs, duty, bedUp, cover, owned, needBlocks, shopping, raiding, failed, restIn>>

PileGrows ==
  /\ pile = 0 /\ pile' = 1 /\ Turn
  /\ UNCHANGED <<legs, duty, bedUp, cover, iron, gold, gems, owned, needBlocks, shopping, raiding,
                 failed, restIn>>

\* A fight, a blast, a fall: the route is left, or replaced by the chase's.
ThrownOff ==
  /\ Turn
  /\ \E to \in {legs.at, "islet"} :
       legs' = [legs EXCEPT !.at = to, !.route = NoRoute,
                            !.last = IF legs.route.far THEN legs.route.key ELSE legs.last]
  /\ UNCHANGED <<duty, bedUp, cover, iron, gold, gems, owned, pile, needBlocks, shopping, raiding,
                 failed, restIn>>

\* Killed: it comes back at home with nothing, its mind as it was.
Killed ==
  /\ Turn
  /\ legs' = [legs EXCEPT !.at = "home", !.route = NoRoute, !.blocks = 0]
  /\ iron' = 0 /\ gold' = 0 /\ gems' = 0
  /\ UNCHANGED <<duty, bedUp, cover, owned, pile, needBlocks, shopping, raiding, failed, restIn>>

TakesRole ==
  /\ Turn
  /\ duty' \in RoleSet \ {duty}
  /\ UNCHANGED <<legs, bedUp, cover, iron, gold, gems, owned, pile, needBlocks, shopping, raiding,
                 failed, restIn>>

-----------------------------------------------------------------------------
PursueInit ==
  /\ legs = [at |-> "home", route |-> NoRoute, far |-> NoSearch, last |-> NoKey,
             blocks |-> 0, gap |-> Gaps]
  /\ duty \in RoleSet
  /\ bedUp = TRUE /\ cover = 1
  /\ iron = 0 /\ gold = 0 /\ gems = 0 /\ owned = {} /\ pile = 0
  /\ needBlocks = 0 /\ shopping = FALSE /\ raiding = FALSE
  /\ failed = [t \in {"target", "pickup"} |-> 0] /\ restIn = 0
  /\ turns = 0 /\ hunts = 0

PursueNext ==
  \/ ShopTick \/ SaveTick \/ DefendTick \/ EarnTick \/ RaidTick \/ RaidFails
  \/ HuntTick \/ BedWork \/ RestTickAtStation
  \/ PicksUp \/ PileGrows \/ ThrownOff \/ Killed \/ TakesRole

PursueSpec == PursueInit /\ [][PursueNext]_pursueVars

PursueTypeOK ==
  /\ legs.at \in HomeIsland \cup {"gen", "bed", "islet", "road"}
  /\ legs.route.key \in Keys \cup {NoKey} /\ legs.far.key \in Keys \cup {NoKey}
  /\ legs.last \in Keys \cup {NoKey}
  /\ duty \in RoleSet /\ owned \subseteq {"gold", "gems"}
  /\ \A t \in DOMAIN failed : failed[t] \in 0..GiveUpTicks
  /\ restIn \in 0..RaidRest

(* A bed out of reach is not searched for over and over: between two turns *)
(* of events the far search for it runs twice at most, the second time     *)
(* with the blocks the first one asked for.  What the search asks for and  *)
(* what sends the bot shopping are worked out apart (needBlocks and want   *)
(* in pursue); where they disagree the bot stands still and searches the   *)
(* whole map every other tick.                                             *)
NoEndlessSearch == hunts <= 2
=============================================================================
