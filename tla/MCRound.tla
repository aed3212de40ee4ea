------------------------------ MODULE MCRound ------------------------------
(*****************************************************************************)
(* Instances of Round for TLC, and parts that share nothing with it: a       *)
(* connection's transport, the ban table and the ban list, the guards of     *)
(* connections, the client's display and a bot's path search. A behaviour    *)
(* takes the steps of one part, chosen at the start; the variables of the    *)
(* others stay as they are.                                                  *)
(*****************************************************************************)
EXTENDS Round, Transport, BanTable, ConnGuard, BanFile, Hud, BotPath

CONSTANTS Parts, k1, k2

VARIABLE part

TwoPlayers == 1..2
TwoClosers == {k1, k2}

\* Bounds of the round: only the first team's bed is broken, ...
OneBed == \A t \in Team \ {1} : bed[t]

\* ... only one player falls into the void, with the bed standing and no
\* start forced, ...
OneFalls == /\ tick.falls \subseteq {1}
            /\ ~bed[1] \/ forced => tick.falls = {}
            /\ forced => bed[1] /\ chosen[1] = NoTeam

\* ... the other stays from the start to the end, ...
OneLeaves == place[2] \in {"out", "arriving"} => ~started \/ over

\* ... nobody who joined the lobby as it closed is followed further (such a
\* player waits for a round that has begun), ...
NobodyStranded == started => waiting = {}

\* ... and nothing new begins in a round that is over: what is under way ends.
AfterTheEnd ==
    over => /\ UNCHANGED <<bed, chosen, forced>>
            /\ \A p \in Player : /\ place[p] = "out" => place'[p] = "out"
                                /\ dying[p] = "no" => dying'[p] = "no"
            /\ tick'.falls \subseteq tick.falls

\* Hud: two teams, the tags and sidebars that are shown.
HudGroups == <<"blue", "red">>
HudTags == {[group |-> "red", prefix |-> "p"], [group |-> "blue", prefix |-> "p"]}
HudShows == {[title |-> "t", lines |-> <<"a">>],
             [title |-> "u", lines |-> <<"b", "a", "c">>]}

\* BotPath: a wall, an islet and what may lie between them; a pit; a ledge; a
\* slab or a fence on the way.
Floor(xs, h, zs) == {<<x, h, z>> : x \in xs, z \in zs}
AllFull(s) == [p \in s |-> "full"]
Course(kind, start, aim) == [kind |-> kind, start |-> start, aim |-> aim]
Rampart == UNION {Floor(0..5, h, {1}) : h \in -2..8}
TwoEnds == Floor({0, 1}, 0, {0}) \cup Floor({5}, 0, {0})
Stones == {<<2, 0, 0>>, <<2, 2, 0>>, <<3, 1, 0>>, <<4, 1, 0>>}
Bridged(s) == Course(AllFull(Rampart \cup TwoEnds \cup s), <<0, 1, 0>>, <<5, 1, 0>>)
OnTheWay(kind) ==
    Course([p \in Floor(0..4, 0, {0, 1}) \cup {<<2, 1, 0>>, <<3, 1, 1>>} |->
              IF p[2] = 1 THEN kind ELSE "full"], <<0, 1, 0>>, <<4, 1, 1>>)
FlatCourse == Bridged({})
SomeCourses ==
    {Bridged(s) : s \in SUBSET Stones}
    \cup {Course(AllFull(Floor(0..1, 0, {0, 1}) \cup Floor({4}, 2, {0, 1})),
                 <<0, 1, 0>>, <<4, 3, 0>>),
          Course(AllFull(Floor(0..3, 0, {0}) \cup Floor(0..4, -1, {1}) \cup Floor(1..5, 2, {1})
                         \cup {<<4, -1, 0>>, <<4, 2, 0>>}),
                 <<3, 1, 0>>, <<4, 0, 0>>),
          OnTheWay("slab"), OnTheWay("fence")}
TwoLanes == {0, 1}
SixLong == 0..5
SevenHigh == -1..5

PartsInit ==
    /\ part \in Parts
    /\ Init
    /\ WireInit
    /\ TableInit /\ (part # "table" => boot = {} /\ \A n \in Banned : rows[n] = <<>>)
    /\ BanInit
    /\ LimitInit
    /\ KeepInit
    /\ HudInit /\ (part # "display" => \A v \in Viewer : v \in shownIn[CHOOSE g \in Playing : TRUE])
    /\ PathInit /\ (part # "path" => course = FlatCourse)

PartsNext ==
    \/ /\ part = "round" /\ Next
       /\ UNCHANGED <<wireVars, tableVars, banVars, limitVars, keepVars, hudVars, pathVars>>
    \/ /\ part = "wire" /\ WireNext
       /\ UNCHANGED <<vars, tableVars, banVars, limitVars, keepVars, hudVars, pathVars>>
    \/ /\ part = "table" /\ TableNext
       /\ UNCHANGED <<vars, wireVars, banVars, limitVars, keepVars, hudVars, pathVars>>
    \/ /\ part = "banlist" /\ BanNext
       /\ UNCHANGED <<vars, wireVars, tableVars, limitVars, keepVars, hudVars, pathVars>>
    \/ /\ part = "limit" /\ LimitNext
       /\ UNCHANGED <<vars, wireVars, tableVars, banVars, keepVars, hudVars, pathVars>>
    \/ /\ part = "keepalive" /\ KeepAliveNext
       /\ UNCHANGED <<vars, wireVars, tableVars, banVars, limitVars, hudVars, pathVars>>
    \/ /\ part = "display" /\ HudNext
       /\ UNCHANGED <<vars, wireVars, tableVars, banVars, limitVars, keepVars, pathVars>>
    \/ /\ part = "path" /\ PathNext
       /\ UNCHANGED <<vars, wireVars, tableVars, banVars, limitVars, keepVars, hudVars>>

partsVars == <<part, vars, wireVars, tableVars, banVars, limitVars, keepVars, hudVars,
               pathVars>>

PartsSpec == PartsInit /\ [][PartsNext /\ UNCHANGED part]_partsVars

\* Round's fairness, for its part: in the others its tick loop does not run.
PartsFairness ==
    /\ \A p \in Player : /\ WF_vars(part = "round" /\ MoveOn(p))
                         /\ WF_vars(part = "round" /\ DeathOn(p))
    /\ WF_vars(part = "round" /\ (OnTick \/ LobbyTick \/ StartRound
                                    \/ Fall \/ FallFinish \/ Respawn))
    /\ SF_vars(part = "round" /\ ProcessRespawns)
    /\ WF_vars(part = "round" /\ EndGame)

FairPartsSpec == PartsSpec /\ PartsFairness
=============================================================================
