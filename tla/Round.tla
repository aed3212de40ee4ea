------------------------------- MODULE Round -------------------------------
(***************************************************************************)
(* One BedWars round (games/bedwars): the lobby with its picks and its     *)
(* countdown, the dealing of the teams, beds, deaths and respawns, the     *)
(* decision and the end.                                                   *)
(*                                                                         *)
(* The goroutines: the one moving a player in or out, which runs the join  *)
(* and leave hooks (place); the one that killed a player, which runs the   *)
(* death hook (dying); the instance's tick loop (tick).  Every stretch     *)
(* under g.mu is one step, and so is every read outside it.                *)
(*                                                                         *)
(* Times are kept as what is left of them: countdown is countdownAt - tick *)
(* and pending the same for a respawn, None when there is none.  Players   *)
(* are their entity ids and teams their numbers, from 1.                   *)
(***************************************************************************)
EXTENDS Integers, FiniteSets, SequencesExt

CONSTANTS
    Player,        \* entity ids
    Teams,         \* number of teams
    TeamSize,      \* players a team has room for, 0: any number
    MinPlayers,    \* players the lobby waits for, 0: no lobby
    Countdown,     \* ticks of the start countdown
    RespawnDelay   \* ticks a death lasts

ASSUME RoundAssumption ==
    /\ Player \subseteq Nat /\ IsFiniteSet(Player)
    /\ Teams \in Nat \ {0} /\ TeamSize \in Nat /\ MinPlayers \in Nat
    /\ Countdown \in Nat \ {0} /\ RespawnDelay \in Nat \ {0}

Team == 1..Teams
NoTeam == 0
None == -1

VARIABLES
    place,      \* where the move of each player is
    dead,       \* players with no health left
    dying,      \* goroutines between the last blow and the end of the death hook
    tick,       \* the tick loop: where it is, who falls, who is due back
    waiting, chosen, countdown, forced,   \* the lobby
    started, engaged, over,               \* the round
    members, byEntity,                    \* who plays for whom, by team and by player
    bed,        \* bedAlive of each team
    pending,    \* ticks to each respawn
    teardown,   \* finish's goroutines, asleep
    ended       \* EndGame was called

lobbyVars == <<waiting, chosen, countdown, forced>>
teamVars == <<members, byEntity>>
endVars == <<over, teardown, ended>>
vars == <<place, dead, dying, tick, lobbyVars, started, engaged, teamVars, bed, pending, endVars>>

Place == {"out", "arriving", "lobby", "in", "unlobby", "deciding", "left"}

TypeOK ==
    /\ place \in [Player -> Place]
    /\ dead \subseteq Player
    /\ dying \in [Player -> {"no", "hit", "deciding"}]
    /\ tick \in [at : {"idle", "lobby", "start", "void", "fall", "deciding", "respawn"},
                 falls : SUBSET Player, due : SUBSET Player]
    /\ waiting \subseteq Player
    /\ chosen \in [Player -> Team \cup {NoTeam}]
    /\ countdown \in None..Countdown
    /\ {forced, started, engaged, over, ended} \subseteq BOOLEAN
    /\ members \in [Team -> SUBSET Player]
    /\ byEntity \in [Player -> Team \cup {NoTeam}]
    /\ bed \in [Team -> BOOLEAN]
    /\ pending \in [Player -> None..RespawnDelay]
    /\ teardown \in Nat

Init ==
    /\ place = [p \in Player |-> "out"]
    /\ dead = {} /\ dying = [p \in Player |-> "no"]
    /\ tick = [at |-> "idle", falls |-> {}, due |-> {}]
    /\ waiting = {} /\ chosen = [p \in Player |-> NoTeam]
    /\ countdown = None /\ forced = FALSE
    /\ started = (MinPlayers = 0) /\ engaged = FALSE
    /\ members = [t \in Team |-> {}] /\ byEntity = [p \in Player |-> NoTeam]
    /\ bed = [t \in Team |-> TRUE]
    /\ pending = [p \in Player |-> None]
    /\ over = FALSE /\ teardown = 0 /\ ended = FALSE

-----------------------------------------------------------------------------
(* Teams. *)

HasRoom(m, t) == TeamSize = 0 \/ Cardinality(m[t]) < TeamSize

\* The smallest of the teams of ts, the lowest number among equals.
Smallest(m, ts) ==
    CHOOSE t \in ts : \A u \in ts : \/ Cardinality(m[t]) < Cardinality(m[u])
                                    \/ Cardinality(m[t]) = Cardinality(m[u]) /\ t <= u

\* The team of a newcomer: one with room, or any if they are all full.
Assign(m) ==
    LET open == {t \in Team : HasRoom(m, t)}
    IN  Smallest(m, IF open = {} THEN Team ELSE open)

Place1(m, p, t) == [m EXCEPT ![t] = @ \cup {p}]

InPlay(m, t) == m[t] # {}

TwoInPlay(m) == \E t, u \in Team : t # u /\ InPlay(m, t) /\ InPlay(m, u)

\* winnerLocked: the round is decided (by the team left, or as a draw).
Decided(m) == engaged /\ ~over /\ ~TwoInPlay(m)

RemoveMember(p) ==
    /\ members' = [t \in Team |-> IF t = byEntity[p] THEN members[t] \ {p} ELSE members[t]]
    /\ byEntity' = [byEntity EXCEPT ![p] = NoTeam]

\* finish, by whichever goroutine saw the round decided.
Finish ==
    /\ over' = TRUE
    /\ teardown' = IF over THEN teardown ELSE teardown + 1
    /\ UNCHANGED ended

-----------------------------------------------------------------------------
(* Joining and leaving: the hooks run on the goroutine of the move. *)

\* The player is listed and the hook called.  (A bound: nobody comes back
\* between the tick loop's look at a fall and the kill.)
Arrive(p) ==
    /\ place[p] = "out" /\ p \notin tick.falls
    /\ place' = [place EXCEPT ![p] = "arriving"]
    /\ UNCHANGED <<dead, dying, tick, lobbyVars, started, engaged, teamVars, bed, pending, endVars>>

\* OnPlayerJoin of a running round.
JoinRound(p) ==
    /\ place[p] = "arriving" /\ started
    /\ LET t == Assign(members) IN
       /\ members' = Place1(members, p, t)
       /\ byEntity' = [byEntity EXCEPT ![p] = t]
    /\ engaged' = (engaged \/ TwoInPlay(members'))
    /\ place' = [place EXCEPT ![p] = "in"]
    /\ UNCHANGED <<dead, dying, tick, lobbyVars, started, bed, pending, endVars>>

\* OnPlayerJoin finds the lobby open, gives the lock up ...
SeeLobby(p) ==
    /\ place[p] = "arriving" /\ ~started
    /\ place' = [place EXCEPT ![p] = "lobby"]
    /\ UNCHANGED <<dead, dying, tick, lobbyVars, started, engaged, teamVars, bed, pending, endVars>>

\* ... and takes it again.
JoinLobby(p) ==
    /\ place[p] = "lobby"
    /\ waiting' = waiting \cup {p}
    /\ countdown' = IF Cardinality(waiting') >= MinPlayers /\ countdown = None
                    THEN Countdown ELSE countdown
    /\ place' = [place EXCEPT ![p] = "in"]
    /\ UNCHANGED <<dead, dying, tick, chosen, forced, started, engaged, teamVars, bed, pending,
                   endVars>>

Picks(t) == {p \in Player : chosen[p] = t}

\* A pick no count is kept of.
BugChooseTeam(p, t) ==
    /\ place[p] = "in" /\ ~started /\ chosen[p] # t
    /\ chosen' = [chosen EXCEPT ![p] = t]
    /\ UNCHANGED <<place, dead, dying, tick, waiting, countdown, forced, started, engaged, teamVars,
                   bed, pending, endVars>>

\* The team menu, whose clicks are the player's own.
ChooseTeam(p, t) ==
    /\ place[p] = "in" /\ ~started /\ chosen[p] # t
    /\ TeamSize = 0 \/ Cardinality(Picks(t)) < TeamSize
    /\ chosen' = [chosen EXCEPT ![p] = t]
    /\ UNCHANGED <<place, dead, dying, tick, waiting, countdown, forced, started, engaged, teamVars,
                   bed, pending, endVars>>

\* /forcestart: the next tick starts the round.
ForceStart ==
    /\ ~started /\ waiting # {}
    /\ countdown' = 1 /\ forced' = TRUE
    /\ UNCHANGED <<place, dead, dying, tick, waiting, chosen, started, engaged, teamVars, bed,
                   pending, endVars>>

\* OnPlayerLeave of a running round: it may decide it.
LeaveRound(p) ==
    /\ place[p] = "in" /\ started
    /\ RemoveMember(p)
    /\ pending' = [pending EXCEPT ![p] = None]
    /\ place' = [place EXCEPT ![p] = IF Decided(members') THEN "deciding" ELSE "left"]
    /\ UNCHANGED <<dead, dying, tick, lobbyVars, started, engaged, bed, endVars>>

LeaveFinish(p) ==
    /\ place[p] = "deciding"
    /\ Finish
    /\ place' = [place EXCEPT ![p] = "left"]
    /\ UNCHANGED <<dead, dying, tick, lobbyVars, started, engaged, teamVars, bed, pending>>

\* OnPlayerLeave finds the lobby open, gives the lock up ...
SeeLobbyLeave(p) ==
    /\ place[p] = "in" /\ ~started
    /\ place' = [place EXCEPT ![p] = "unlobby"]
    /\ UNCHANGED <<dead, dying, tick, lobbyVars, started, engaged, teamVars, bed, pending, endVars>>

\* ... and takes it again.
LeaveLobby(p) ==
    /\ place[p] = "unlobby"
    /\ waiting' = waiting \ {p}
    /\ chosen' = [chosen EXCEPT ![p] = NoTeam]
    /\ countdown' = IF Cardinality(waiting') < MinPlayers /\ ~forced THEN None ELSE countdown
    /\ place' = [place EXCEPT ![p] = "left"]
    /\ UNCHANGED <<dead, dying, tick, forced, started, engaged, teamVars, bed, pending, endVars>>

\* The move goes on: whatever the round left on the player is shed
\* (resetForHub), the dead brought back.
Shed(p) ==
    /\ place[p] = "left"
    /\ place' = [place EXCEPT ![p] = "out"]
    /\ dead' = dead \ {p}
    /\ UNCHANGED <<dying, tick, lobbyVars, started, engaged, teamVars, bed, pending, endVars>>

-----------------------------------------------------------------------------
(* Beds and deaths. *)

\* OnBlockBreak of a bed: anyone's but one's own.
BreakBed(p, t) ==
    /\ place[p] = "in" /\ started
    /\ byEntity[p] # t /\ bed[t]
    /\ bed' = [bed EXCEPT ![t] = FALSE]
    /\ UNCHANGED <<place, dead, dying, tick, lobbyVars, started, engaged, teamVars, pending, endVars>>

\* A lethal blow (ApplyDamage says so once); the hook is still to run.  (A
\* bound: nobody is killed between the listing and the hook of its own join.)
Hit(p) ==
    /\ place[p] = "in" /\ started /\ p \notin dead /\ dying[p] = "no"
    /\ dead' = dead \cup {p}
    /\ dying' = [dying EXCEPT ![p] = "hit"]
    /\ UNCHANGED <<place, tick, lobbyVars, started, engaged, teamVars, bed, pending, endVars>>

\* A death whose respawn nobody will see to.
BugOnPlayerDeath(p) ==
    IF byEntity[p] = NoTeam \/ over THEN UNCHANGED <<teamVars, pending>>
    ELSE IF bed[byEntity[p]]
         THEN UNCHANGED <<teamVars, pending>>
         ELSE RemoveMember(p) /\ UNCHANGED pending

\* OnPlayerDeath: with a bed the player comes back in a while, without it
\* never.
OnPlayerDeath(p) ==
    IF byEntity[p] = NoTeam \/ over THEN UNCHANGED <<teamVars, pending>>
    ELSE IF bed[byEntity[p]]
         THEN pending' = [pending EXCEPT ![p] = RespawnDelay] /\ UNCHANGED teamVars
         ELSE RemoveMember(p) /\ UNCHANGED pending

\* Whether the death just handled decided the round.
DeathDecides(p) == byEntity[p] # NoTeam /\ Decided(members')

\* The killer's goroutine; in another instance by now, the death is not this
\* round's.
Death(p) ==
    /\ dying[p] = "hit"
    /\ IF place[p] = "out"
       THEN /\ dying' = [dying EXCEPT ![p] = "no"]
            /\ UNCHANGED <<teamVars, pending>>
       ELSE /\ OnPlayerDeath(p)
            /\ dying' = [dying EXCEPT ![p] = IF DeathDecides(p) THEN "deciding" ELSE "no"]
    /\ UNCHANGED <<place, dead, tick, lobbyVars, started, engaged, bed, endVars>>

DeathFinish(p) ==
    /\ dying[p] = "deciding"
    /\ Finish
    /\ dying' = [dying EXCEPT ![p] = "no"]
    /\ UNCHANGED <<place, dead, tick, lobbyVars, started, engaged, teamVars, bed, pending>>

-----------------------------------------------------------------------------
(* The tick loop. *)

TickTo(at) == tick' = [tick EXCEPT !.at = at]

Sooner(n) == IF n > 0 THEN n - 1 ELSE n

\* OnTick: time goes on, for the lobby or for the round.
OnTick ==
    /\ tick.at = "idle"
    /\ countdown' = Sooner(countdown)
    /\ pending' = [p \in Player |-> Sooner(pending[p])]
    /\ TickTo(IF started THEN "void" ELSE "lobby")
    /\ UNCHANGED <<place, dead, dying, waiting, chosen, forced, started, engaged, teamVars, bed,
                   endVars>>

\* lobbyTick reads the countdown.
LobbyTick ==
    /\ tick.at = "lobby"
    /\ TickTo(IF countdown = 0 THEN "start" ELSE "idle")
    /\ UNCHANGED <<place, dead, dying, lobbyVars, started, engaged, teamVars, bed, pending, endVars>>

\* The players of ps, lowest entity id first.
InOrder(ps) == SetToSortSeq(ps, <)

\* Who gets the team picked: those it still has room for.
DealPicks ==
    FoldLeft(LAMBDA m, p : IF chosen[p] # NoTeam /\ HasRoom(m, chosen[p])
                           THEN Place1(m, p, chosen[p]) ELSE m,
             members, InOrder(waiting))

Dealt(m) == {p \in waiting : \E t \in Team : p \in m[t]}

\* The others go to the smallest teams.
DealRest(m) ==
    FoldLeft(LAMBDA n, p : Place1(n, p, Assign(n)), m, InOrder(waiting \ Dealt(m)))

TeamIn(m, p) == CHOOSE t \in Team : p \in m[t]

\* The teams as startRound deals them.
Deal == DealRest(DealPicks)

\* startRound, if nothing started the round meanwhile.
StartRound ==
    /\ tick.at = "start"
    /\ TickTo("idle")
    /\ started' = TRUE
    /\ IF started
       THEN UNCHANGED <<lobbyVars, engaged, teamVars>>
       ELSE /\ members' = [t \in Team |-> Deal[t]]
            /\ byEntity' = [p \in Player |-> IF p \in waiting THEN TeamIn(Deal, p) ELSE byEntity[p]]
            /\ engaged' = (engaged \/ TwoInPlay(members'))
            /\ waiting' = {} /\ chosen' = [p \in Player |-> NoTeam]
            /\ countdown' = None /\ UNCHANGED forced
    /\ UNCHANGED <<place, dead, dying, bed, pending, endVars>>

\* checkVoid finds a player fallen ...
SeeFall(p) ==
    /\ tick.at = "void"
    /\ place[p] \in {"in", "deciding", "left"} /\ p \notin dead /\ byEntity[p] # NoTeam
    /\ tick' = [tick EXCEPT !.at = "fall", !.falls = {p}]
    /\ UNCHANGED <<place, dead, dying, lobbyVars, started, engaged, teamVars, bed, pending, endVars>>

\* ... and kills it (Die): nothing for the dead, but whoever dies between
\* that look and the damage runs the hook a second time.
Fall ==
    /\ tick.at = "fall"
    /\ \E p \in tick.falls :
       \/ /\ place[p] = "out" \/ p \in dead
          /\ tick' = [tick EXCEPT !.at = "void", !.falls = {}]
          /\ UNCHANGED <<dead, teamVars, pending>>
       \/ /\ place[p] # "out"
          /\ dead' = dead \cup {p}
          /\ OnPlayerDeath(p)
          /\ tick' = [tick EXCEPT !.at = IF DeathDecides(p) THEN "deciding" ELSE "void",
                                  !.falls = {}]
    /\ UNCHANGED <<place, dying, lobbyVars, started, engaged, bed, endVars>>

FallFinish ==
    /\ tick.at = "deciding"
    /\ Finish
    /\ TickTo("void")
    /\ UNCHANGED <<place, dead, dying, lobbyVars, started, engaged, teamVars, bed, pending>>

\* processRespawns takes the players whose time is up, those still on a team.
ProcessRespawns ==
    /\ tick.at = "void"
    /\ LET up == {p \in Player : pending[p] = 0} IN
       /\ pending' = [p \in Player |-> IF p \in up THEN None ELSE pending[p]]
       /\ tick' = [tick EXCEPT !.at = "respawn", !.due = {p \in up : byEntity[p] # NoTeam}]
    /\ UNCHANGED <<place, dead, dying, lobbyVars, started, engaged, teamVars, bed, endVars>>

\* One comes back; after the last the tick is over.
Respawn ==
    /\ tick.at = "respawn"
    /\ IF tick.due = {} THEN TickTo("idle") /\ UNCHANGED dead
       ELSE \E p \in tick.due : /\ dead' = dead \ {p}
                                /\ tick' = [tick EXCEPT !.due = @ \ {p}]
    /\ UNCHANGED <<place, dying, lobbyVars, started, engaged, teamVars, bed, pending, endVars>>

\* finish's goroutine wakes and calls EndGame.
EndGame ==
    /\ teardown > 0
    /\ teardown' = teardown - 1 /\ ended' = TRUE
    /\ UNCHANGED <<place, dead, dying, tick, lobbyVars, started, engaged, teamVars, bed, pending,
                   over>>

-----------------------------------------------------------------------------

\* What a goroutine in the middle of a move still has to do.
MoveOn(p) ==
    \/ JoinRound(p) \/ SeeLobby(p) \/ JoinLobby(p)
    \/ LeaveFinish(p) \/ LeaveLobby(p) \/ Shed(p)

Leave(p) == LeaveRound(p) \/ SeeLobbyLeave(p)

DeathOn(p) == Death(p) \/ DeathFinish(p)

TickLoop ==
    \/ OnTick \/ LobbyTick \/ StartRound
    \/ (\E p \in Player : SeeFall(p)) \/ Fall \/ FallFinish
    \/ ProcessRespawns \/ Respawn

Next ==
    \/ \E p \in Player : Arrive(p) \/ MoveOn(p) \/ Leave(p) \/ Hit(p) \/ DeathOn(p)
    \/ \E p \in Player, t \in Team : ChooseTeam(p, t) \/ BreakBed(p, t)
    \/ ForceStart
    \/ TickLoop
    \/ EndGame

Spec == Init /\ [][Next]_vars

\* The goroutines go on and the tick loop ticks (a void scan ends: every
\* player it kills is dead); nobody has to join, leave, hit or break.
Fairness ==
    /\ \A p \in Player : WF_vars(MoveOn(p)) /\ WF_vars(DeathOn(p))
    /\ WF_vars(OnTick \/ LobbyTick \/ StartRound \/ Fall \/ FallFinish \/ Respawn)
    /\ SF_vars(ProcessRespawns)
    /\ WF_vars(EndGame)

FairSpec == Spec /\ Fairness
-----------------------------------------------------------------------------
(* Properties. *)

\* Somebody has seen the round decided and is about to call finish.
Finishing ==
    \/ \E p \in Player : place[p] = "deciding" \/ dying[p] = "deciding"
    \/ tick.at = "deciding"

\* A round that had two teams and has not two left is over, or somebody is
\* on the way to say so: whatever leaves and deaths run into one another, the
\* last of them sees the decision (winnerLocked).
DecidedIsFinished == Decided(members) => Finishing

\* finish is called by every goroutine that saw the decision; one of them
\* tears the instance down ("Idempotent via over").
EndsOnce == teardown + (IF ended THEN 1 ELSE 0) <= 1

\* A dead player of a running round, its death handled, has a respawn coming
\* or no team: the blow, the fall, the bed's loss and the respawn may come in
\* any order (OnPlayerDeath, checkVoid, processRespawns).
NobodyStuckDead ==
    \A p \in Player :
        (place[p] = "in" /\ p \in dead /\ dying[p] = "no" /\ byEntity[p] # NoTeam /\ ~over)
        => pending[p] # None \/ p \in tick.due

\* What the three rest on.  Shapes: a tick is where it is, and players and
\* teams are looked up in functions.
Shape ==
    /\ place \in [Player -> Place]
    /\ dying \in [Player -> {"no", "hit", "deciding"}]
    /\ tick.at \in {"idle", "lobby", "start", "void", "fall", "deciding", "respawn"}
    /\ tick = [at |-> tick.at, falls |-> tick.falls, due |-> tick.due]
    /\ members = [t \in Team |-> members[t]]
    /\ byEntity = [p \in Player |-> byEntity[p]]
    /\ pending \in [Player -> Int]
    /\ teardown \in Nat /\ {engaged, over, ended, started} \subseteq BOOLEAN

\* Nobody fights, falls or dies before the round has started.
DeathsAreOfTheRound ==
    /\ engaged \/ dead # {} \/ tick.at \in {"void", "fall", "deciding", "respawn"} => started
    /\ tick.falls \subseteq Player
    /\ tick.at # "respawn" => tick.due = {}
    /\ \A p \in Player :
        /\ place[p] \in {"out", "arriving", "lobby"} => p \notin dead
        /\ p \in tick.falls => place[p] \notin {"arriving", "lobby"}

\* An instance is torn down only after the round.
TeardownIsAfter == ~over => teardown = 0 /\ ~ended

\* The inductive invariant of the round.
RInv ==
    /\ Shape /\ DeathsAreOfTheRound /\ TeardownIsAfter
    /\ DecidedIsFinished /\ EndsOnce /\ NobodyStuckDead

\* "The pick is a reservation": whoever waits with a pick starts on that
\* team, though picks, arrivals and leaves go on until the round is dealt
\* (chooseTeam, pickedTeamLocked).
PicksHonoured ==
    [][~started /\ started' => \A p \in waiting : chosen[p] # NoTeam => byEntity'[p] = chosen[p]]_vars

\* A dead player who still has a team comes back, unless it leaves or the
\* round ends first.
RespawnsHappen ==
    \A p \in Player :
        (place[p] = "in" /\ p \in dead /\ byEntity[p] # NoTeam)
        ~> (p \notin dead \/ byEntity[p] = NoTeam \/ over)

\* "members holds the entity IDs of players currently on the team who are
\* still in the game (a player removed from members is either disconnected or
\* eliminated)": nobody who has left counts.
MembersPresent == \A p \in Player : place[p] = "out" => \A t \in Team : p \notin members[t]
=============================================================================
