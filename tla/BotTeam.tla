------------------------------ MODULE BotTeam ------------------------------
(***************************************************************************)
(* A team's bots share one brain that hands out roles (botai/team.go), on  *)
(* plans each bot asks the game for in a rhythm of its own (botai/brain.go *)
(* think, games/bedwars/bots.go BotPlan).                                  *)
(*                                                                         *)
(* The bots of an instance tick one after another, in a fresh order every  *)
(* tick (server/bot_body.go botTick); a bot asks for a plan every          *)
(* PlanEvery ticks and takes its role from the team's brain then, the      *)
(* first to find it older than TeamEvery ticks renewing it from the plans  *)
(* the others happen to have.  In between bots are added and removed, die  *)
(* and come back, beds fall and enemies come and go.                       *)
(***************************************************************************)
EXTENDS Naturals, FiniteSets

LOCAL INSTANCE FiniteSetsExt

CONSTANTS
  Bots,        \* the team's bots, by entity id
  EnemyBeds,   \* the other teams' beds
  PlanEvery,   \* botPlanEvery
  TeamEvery,   \* botTeamEvery
  MaxEvents    \* bound: the changes the game goes through

ASSUME TeamRhythm == PlanEvery \in Nat \ {0} /\ TeamEvery \in Nat \ {0}

VARIABLES
  listed,     \* listed[b]: "out", "joining" (in the list, not Ready), "ready"
  life,       \* life[b]: "alive", "dead"
  started,    \* the round runs
  teamed,     \* byEntity: the bots the game has put on the team
  ownBed,     \* the team's bed stands
  bedsUp,     \* the enemy beds that stand
  atBed,      \* an enemy is within botBaseRadius of the team's bed
  plan,       \* plan[b]: the plan it last asked for
  planIn,     \* planAt: ticks until it asks again
  role,       \* brain.role
  brain,      \* teamBrain: [decideIn, roles, intruder, focus]
  turn,       \* the bots that still tick in this tick
  events,     \* the changes so far
  quiet       \* the ticks since the last one, up to Settle

teamVars == <<listed, life, started, teamed, ownBed, bedsUp, atBed, plan, planIn,
              role, brain, turn, events, quiet>>
gameVars == <<listed, life, started, teamed, ownBed, bedsUp, atBed>>
mindVars == <<plan, planIn, role, brain, turn>>

\* The ticks the team may take to follow a change.
Settle == PlanEvery + TeamEvery + 1

IdlePlan == [idle |-> TRUE, team |-> FALSE, defend |-> FALSE, targets |-> {}]
NoBed == "none"

-----------------------------------------------------------------------------
(* The game's answers. *)

Plays(b) == started /\ b \in teamed /\ life[b] = "alive"

BotPlan(b) ==
  IF Plays(b)
  THEN [idle |-> FALSE, team |-> TRUE, defend |-> ownBed, targets |-> bedsUp]
  ELSE IdlePlan

-----------------------------------------------------------------------------
(* The team's decisions. *)

\* The bot of the first i in order of entity id.
Place(b, mates) == Cardinality({m \in mates : m < b})

Defenders(n, bed, intruder) ==
  IF bed /\ n >= 2 THEN (IF intruder /\ n >= 3 THEN 2 ELSE 1) ELSE 0

Archers(n, defenders) == IF n >= 3 /\ n - 1 - defenders >= 1 THEN 1 ELSE 0

RoleFor(b, mates, bed, intruder, targets) ==
  LET n == Cardinality(mates)
      d == Defenders(n, bed, intruder)
      i == Place(b, mates)
  IN  CASE i = 0 -> IF targets # {} THEN "pusher" ELSE "attacker"
        [] i > 0 /\ i <= d -> "defender"
        [] i > d /\ i <= d + Archers(n, d) -> "archer"
        [] OTHER -> "attacker"

\* The team's living bots, by the plans they have.
BugMates(p) == {m \in Bots : listed[m] = "ready" /\ p[m].team /\ ~ p[m].idle}

Mates(p) ==
  {m \in Bots : listed[m] = "ready" /\ p[m].team /\ ~ p[m].idle /\ life[m] # "dead"}

\* decide, with the plans p; the focus is the lead's nearest bed it has not
\* given up, and which that is depends on where it stands and has been.
Decided(p) ==
  LET mates == Mates(p)
      lead  == Min(mates)
      intr  == p[lead].defend /\ atBed
  IN  IF mates = {}
      THEN {[decideIn |-> TeamEvery, roles |-> <<>>, intruder |-> FALSE, focus |-> NoBed]}
      ELSE {[decideIn |-> TeamEvery,
             roles |-> [m \in mates |-> RoleFor(m, mates, p[lead].defend, intr, p[lead].targets)],
             intruder |-> intr, focus |-> t] :
              t \in p[lead].targets \cup {NoBed}}

RoleIn(tb, b) == IF b \in DOMAIN tb.roles THEN tb.roles[b] ELSE "attacker"

-----------------------------------------------------------------------------
(* A tick. *)

\* think, as far as the plan: ask the game, then teamUpdate.
Plans(b) ==
  LET p == [plan EXCEPT ![b] = BotPlan(b)]
  IN  /\ plan' = p
      /\ planIn' = [planIn EXCEPT ![b] = PlanEvery]
      /\ IF ~ p[b].team
         THEN role' = [role EXCEPT ![b] = "attacker"] /\ UNCHANGED brain
         ELSE /\ brain' \in IF brain.decideIn = 0 THEN Decided(p) ELSE {brain}
              /\ role' = [role EXCEPT ![b] = RoleIn(brain', b)]

\* Bot.Tick: a dead bot and a removed one do not think.
BotTurn(b) ==
  /\ b \in turn /\ turn' = turn \ {b}
  /\ IF listed[b] = "ready" /\ life[b] = "alive" /\ planIn[b] = 0
     THEN Plans(b)
     ELSE UNCHANGED <<plan, planIn, role, brain>>
  /\ UNCHANGED <<gameVars, events, quiet>>

Less(n) == IF n = 0 THEN 0 ELSE n - 1

\* botTick: every bot that is Ready.
TeamTick ==
  /\ turn = {}
  /\ turn' = {b \in Bots : listed[b] = "ready"}
  /\ planIn' = [b \in Bots |-> Less(planIn[b])]
  /\ brain' = [brain EXCEPT !.decideIn = Less(@)]
  /\ quiet' = Min({quiet + 1, Settle + 1})
  /\ UNCHANGED <<gameVars, plan, role, events>>

-----------------------------------------------------------------------------
(* What changes meanwhile. *)

Event == events < MaxEvents /\ events' = events + 1 /\ quiet' = 0

\* AddBot: listed by JoinAndAnnounce, then placed by the game (BotJoin), and
\* only then Ready.
BotEnters(b) ==
  /\ Event /\ listed[b] = "out"
  /\ listed' = [listed EXCEPT ![b] = "joining"]
  /\ life' = [life EXCEPT ![b] = "alive"]
  /\ plan' = [plan EXCEPT ![b] = IdlePlan]
  /\ planIn' = [planIn EXCEPT ![b] = 0]
  /\ role' = [role EXCEPT ![b] = "attacker"]
  /\ UNCHANGED <<started, teamed, ownBed, bedsUp, atBed, brain, turn>>

BotJoins(b) ==
  /\ listed[b] = "joining" /\ quiet' = 0
  /\ \/ /\ listed' = [listed EXCEPT ![b] = "ready"]
        /\ teamed' = teamed \cup (IF started THEN {b} ELSE {})
     \/ /\ listed' = [listed EXCEPT ![b] = "out"]       \* the team is full
        /\ UNCHANGED teamed
  /\ UNCHANGED <<events, life, started, ownBed, bedsUp, atBed, mindVars>>

RemoveBot(b) ==
  /\ Event /\ listed[b] = "ready"
  /\ listed' = [listed EXCEPT ![b] = "out"]
  /\ teamed' = teamed \ {b}
  /\ UNCHANGED <<life, started, ownBed, bedsUp, atBed, mindVars>>

RoundStarts ==
  /\ Event /\ ~ started /\ started' = TRUE
  /\ teamed' = {b \in Bots : listed[b] # "out"}
  /\ UNCHANGED <<listed, life, ownBed, bedsUp, atBed, mindVars>>

\* The game keeps a dead bot dead until it brings it back (SetCustomRespawn);
\* with the bed gone it is off the team for good.
BotDies(b) ==
  /\ Event /\ listed[b] = "ready" /\ Plays(b)
  /\ life' = [life EXCEPT ![b] = "dead"]
  /\ teamed' = IF ownBed THEN teamed ELSE teamed \ {b}
  /\ UNCHANGED <<listed, started, ownBed, bedsUp, atBed, mindVars>>

BotReturns(b) ==
  /\ Event /\ listed[b] = "ready" /\ life[b] = "dead" /\ b \in teamed
  /\ life' = [life EXCEPT ![b] = "alive"]
  /\ UNCHANGED <<listed, started, teamed, ownBed, bedsUp, atBed, mindVars>>

BedFalls ==
  /\ Event /\ started
  /\ \/ ownBed /\ ownBed' = FALSE /\ UNCHANGED bedsUp
     \/ \E t \in bedsUp : bedsUp' = bedsUp \ {t} /\ UNCHANGED ownBed
  /\ UNCHANGED <<listed, life, started, teamed, atBed, mindVars>>

EnemyMoves ==
  /\ Event /\ started
  /\ atBed' = ~ atBed
  /\ UNCHANGED <<listed, life, started, teamed, ownBed, bedsUp, mindVars>>

-----------------------------------------------------------------------------
TeamInit ==
  /\ \E ready \in SUBSET Bots :
       /\ listed = [b \in Bots |-> IF b \in ready THEN "ready" ELSE "out"]
       /\ teamed = ready
  /\ life = [b \in Bots |-> "alive"]
  /\ started \in BOOLEAN
  /\ ownBed = TRUE /\ bedsUp = EnemyBeds /\ atBed = FALSE
  /\ plan = [b \in Bots |-> IdlePlan]
  /\ planIn = [b \in Bots |-> 0]
  /\ role = [b \in Bots |-> "attacker"]
  /\ brain = [decideIn |-> 0, roles |-> <<>>, intruder |-> FALSE, focus |-> NoBed]
  /\ turn = {} /\ events = 0 /\ quiet = 0

TeamNext ==
  \/ TeamTick \/ RoundStarts \/ BedFalls \/ EnemyMoves
  \/ \E b \in Bots : BotTurn(b) \/ BotEnters(b) \/ BotJoins(b) \/ RemoveBot(b)
                     \/ BotDies(b) \/ BotReturns(b)

TeamSpec == TeamInit /\ [][TeamNext]_teamVars

TeamTypeOK ==
  /\ \A b \in Bots : /\ listed[b] \in {"out", "joining", "ready"}
                     /\ life[b] \in {"alive", "dead"}
                     /\ planIn[b] \in 0..PlanEvery
                     /\ role[b] \in {"attacker", "defender", "archer", "pusher"}
  /\ teamed \subseteq Bots /\ bedsUp \subseteq EnemyBeds
  /\ brain.decideIn \in 0..TeamEvery
  /\ turn \subseteq Bots

\* The bots a team has in truth.
Fielded == {b \in Bots : listed[b] = "ready" /\ Plays(b)}

(* The team follows what happens: Settle ticks after a change every bot    *)
(* that plays has the part the rules at the head of team.go give it among  *)
(* those that really play now -- one pusher while an enemy bed stands,     *)
(* defenders while the own bed does, two of them for an intruder, an       *)
(* archer if one is free -- and the bed they push on stands.  The brain    *)
(* decides on plans of different ages, which may speak of beds and bots    *)
(* that are gone.                                                          *)
RolesSettle ==
  (quiet > Settle /\ turn = {}) =>
    /\ \A b \in Fielded : role[b] = RoleFor(b, Fielded, ownBed, ownBed /\ atBed, bedsUp)
    /\ Fielded # {} => brain.focus \in bedsUp \cup {NoBed}
=============================================================================
