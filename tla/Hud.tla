-------------------------------- MODULE Hud --------------------------------
(***************************************************************************)
(* The client's scoreboard (server/hud/scoreboard, server/sidebar.go,      *)
(* server/name_tags.go): the sidebar and the name-tag groups.  The client  *)
(* keeps both across a Respawn, and the server remembers, per connection,  *)
(* what it shows and sends differences.  The tick loop of the instance,    *)
(* the movers of other players and the client's own mover all send them,   *)
(* each holding the connection's sidebarMu for one difference.             *)
(*                                                                         *)
(* A holder and its team are one with their line.  A bot's role is part of *)
(* its tag.  External: the client, which is kicked by what it can not do.  *)
(***************************************************************************)
EXTENDS Integers, Sequences, FiniteSets
LOCAL INSTANCE SequencesExt

CONSTANTS
    Viewer,          \* connections; also their names
    Inst, Playing,   \* instances, and those with a game
    Groups,          \* the groups' team names, sorted
    Tag,             \* tags a game gives: records of a group and a prefix
    Shows,           \* what a game's sidebar says: records of a title and lines
    MaxLines,        \* SidebarMaxLines
    MaxMoves, MaxTicks   \* bounds, over the run

Group == {Groups[k] : k \in DOMAIN Groups}
Line == 1..MaxLines

ASSUME HudAssumption ==
    /\ Playing \subseteq Inst /\ \A t \in Tag : t.group \in Group
    /\ MaxLines \in Nat \ {0} /\ MaxMoves \in Nat /\ MaxTicks \in Nat

VARIABLES
    shownIn,            \* Instance.Players
    tags,            \* Instance.tags: none or one tag of each player
    sidebar,         \* ClientConnection.sidebar: none or one
    nameTags,        \* ClientConnection.nameTags
    client,          \* what each client shows
    move,            \* where a mover is
    refresh,            \* where an instance's sidebar refresh is
    sync,            \* the syncNameTags a goroutine has to do, and is in
    moves, ticks     \* history

hudVars == <<shownIn, tags, sidebar, nameTags, client, move, refresh, sync, moves, ticks>>

HudHome == CHOOSE i \in Inst \ Playing : TRUE
NoGroups == [g \in Group |-> {}]
NothingShown == [ok |-> TRUE, title |-> {}, display |-> FALSE,
                 score |-> [l \in Line |-> 0], text |-> [l \in Line |-> {}],
                 team |-> NoGroups]
NoSync == [inst |-> HudHome, todo |-> {}, got |-> <<>>]
AtRest == [at |-> "rest", to |-> HudHome]
NoRefresh == [todo |-> {}, of |-> {}, on |-> FALSE]

\* Everybody plays in one game, and has been given the same tag.
FirstTag == CHOOSE t \in Tag : TRUE
FirstGroups == [g \in Group |-> IF g # FirstTag.group THEN {}
                                ELSE {[prefix |-> FirstTag.prefix, members |-> Viewer]}]

HudInit ==
    /\ \E game \in Playing :
        /\ shownIn = [i \in Inst |-> IF i = game THEN Viewer ELSE {}]
        /\ tags = [i \in Inst |-> [v \in Viewer |-> IF i = game THEN {FirstTag} ELSE {}]]
    /\ sidebar = [v \in Viewer |-> {}] /\ nameTags = [v \in Viewer |-> FirstGroups]
    /\ client = [v \in Viewer |-> [NothingShown EXCEPT !.team = FirstGroups]]
    /\ move = [v \in Viewer |-> AtRest]
    /\ refresh = [i \in Playing |-> NoRefresh]
    /\ sync = [t \in Inst \cup Viewer |-> NoSync]
    /\ moves = 0 /\ ticks = 0

----------------------------------------------------------------------------
(* The packets, and the client *)

Objective(act, t) == [p |-> "objective", act |-> act, title |-> t]
DisplayIt == [p |-> "display"]
Score(l, n) == [p |-> "score", line |-> l, value |-> n]      \* 0 takes it out
LineTeam(act, l, t) == [p |-> "line", act |-> act, line |-> l, text |-> t]
Members(act, g, x, who) == [p |-> "team", act |-> act, group |-> g, prefix |-> x, who |-> who]

Kicked(cl) == [cl EXCEPT !.ok = FALSE]

TakesObjective(cl, p) ==
    IF (p.act = "create") = (cl.title # {}) THEN Kicked(cl)
    ELSE IF p.act = "remove"
    THEN [cl EXCEPT !.title = {}, !.display = FALSE, !.score = [l \in Line |-> 0]]
    ELSE [cl EXCEPT !.title = {p.title}]

TakesLine(cl, p) ==
    IF (p.act = "create") = (cl.text[p.line] # {}) THEN Kicked(cl)
    ELSE [cl EXCEPT !.text[p.line] = IF p.act = "remove" THEN {} ELSE {p.text}]

\* A player who joins a team leaves the one it was in.
Without(team, who) ==
    [g \in Group |-> {[prefix |-> x.prefix, members |-> x.members \ who] : x \in team[g]}]
TakesTeam(cl, p) ==
    LET g == p.group
        held == UNION {x.members : x \in cl.team[g]}
        of(x, who) == {[prefix |-> x, members |-> who]}
        now == UNION {{x.prefix} : x \in cl.team[g]}
    IN  IF (p.act = "create") = (cl.team[g] # {}) THEN Kicked(cl)
        ELSE CASE p.act = "create" -> [cl EXCEPT !.team = [Without(@, p.who) EXCEPT ![g] = of(p.prefix, p.who)]]
               [] p.act = "remove" -> [cl EXCEPT !.team[g] = {}]
               [] p.act = "update" -> [cl EXCEPT !.team[g] = of(p.prefix, held)]
               [] p.act = "add" -> [cl EXCEPT !.team = [Without(@, p.who) EXCEPT ![g] =
                                        of(CHOOSE x \in now : TRUE, held \cup p.who)]]
               [] p.act = "drop" -> IF p.who \subseteq held
                                    THEN [cl EXCEPT !.team[g] = of(CHOOSE x \in now : TRUE, held \ p.who)]
                                    ELSE Kicked(cl)

Takes(cl, p) ==
    CASE p.p = "objective" -> TakesObjective(cl, p)
      [] p.p = "display" -> [cl EXCEPT !.display = cl.title # {}]
      [] p.p = "score" -> IF cl.title = {} THEN Kicked(cl) ELSE [cl EXCEPT !.score[p.line] = p.value]
      [] p.p = "line" -> TakesLine(cl, p)
      [] p.p = "team" -> TakesTeam(cl, p)

\* writeScoreboard: in order.
Sent(v, packets) == client' = [client EXCEPT ![v] = FoldLeft(Takes, @, packets)]

----------------------------------------------------------------------------
(* The sidebar *)

\* More than MaxLines lines are cut.
Cut(lines) == SubSeq(lines, 1, IF Len(lines) > MaxLines THEN MaxLines ELSE Len(lines))

LineChanges(prev, lines, l) ==
    IF l > Len(prev) THEN <<LineTeam("create", l, lines[l]), Score(l, Len(lines) - l + 1)>>
    ELSE (IF lines[l] # prev[l] THEN <<LineTeam("update", l, lines[l])>> ELSE <<>>)
         \o (IF Len(lines) # Len(prev) THEN <<Score(l, Len(lines) - l + 1)>> ELSE <<>>)

GoneLine(l) == <<Score(l, 0), LineTeam("remove", l, "")>>

SidebarPackets(prev, next) ==
    LET lines == next.lines
        new(l) == LineChanges(<<>>, lines, l)
    IN  IF prev = {}
        THEN <<Objective("create", next.title)>>
             \o FlattenSeq([l \in DOMAIN lines |-> new(l)]) \o <<DisplayIt>>
        ELSE LET old == CHOOSE s \in prev : TRUE
                 changed(l) == LineChanges(old.lines, lines, l)
             IN  (IF old.title # next.title THEN <<Objective("update", next.title)>> ELSE <<>>)
                 \o FlattenSeq([l \in DOMAIN lines |-> changed(l)])
                 \o FlattenSeq([l \in DOMAIN old.lines |-> IF l > Len(lines) THEN GoneLine(l) ELSE <<>>])

ClearPackets(prev) ==
    IF prev = {} THEN <<>>
    ELSE LET old == CHOOSE s \in prev : TRUE
         IN  [l \in DOMAIN old.lines |-> LineTeam("remove", l, "")] \o <<Objective("remove", "")>>

SetSidebar(v, show) ==
    LET next == [title |-> show.title, lines |-> Cut(show.lines)]
    IN  Sent(v, SidebarPackets(sidebar[v], next)) /\ sidebar' = [sidebar EXCEPT ![v] = {next}]
ClearSidebar(v) == Sent(v, ClearPackets(sidebar[v])) /\ sidebar' = [sidebar EXCEPT ![v] = {}]

----------------------------------------------------------------------------
(* The name tags *)

Tagged(i, g) == {v \in Viewer : \E t \in tags[i][v] : t.group = g}

\* nameTagGroups: the first member's prefix makes the group's, and the members
\* come in any order.
TagGroups(i) ==
    {[g \in Group |-> IF Tagged(i, g) = {} THEN {}
                      ELSE {[prefix |-> (CHOOSE t \in tags[i][first[g]] : TRUE).prefix,
                             members |-> Tagged(i, g)]}] :
        first \in {f \in [Group -> Viewer] :
                        \A g \in Group : Tagged(i, g) # {} => f[g] \in Tagged(i, g)}}

Goes(have, want, g) ==
    IF have[g] = {} THEN <<>>
    ELSE LET h == CHOOSE x \in have[g] : TRUE
             out == h.members \ UNION {w.members : w \in want[g]}
         IN  IF want[g] = {} THEN <<Members("remove", g, "", {})>>
             ELSE IF out # {} THEN <<Members("drop", g, "", out)>> ELSE <<>>
Comes(have, want, g) ==
    IF want[g] = {} THEN <<>>
    ELSE LET w == CHOOSE x \in want[g] : TRUE
             new == w.members \ UNION {h.members : h \in have[g]}
         IN  IF have[g] = {} THEN <<Members("create", g, w.prefix, w.members)>>
             ELSE (IF \E h \in have[g] : h.prefix # w.prefix
                   THEN <<Members("update", g, w.prefix, {})>> ELSE <<>>)
                  \o (IF new # {} THEN <<Members("add", g, "", new)>> ELSE <<>>)

\* Every removal before the first addition.  A mutant takes team by team.
BugTagPackets(have, want) ==
    LET both(k) == Goes(have, want, Groups[k]) \o Comes(have, want, Groups[k])
    IN  FlattenSeq([k \in DOMAIN Groups |-> both(k)])
TagPackets(have, want) ==
    LET goes(k) == Goes(have, want, Groups[k])
        comes(k) == Comes(have, want, Groups[k])
    IN  FlattenSeq([k \in DOMAIN Groups |-> goes(k)]) \o FlattenSeq([k \in DOMAIN Groups |-> comes(k)])

\* syncNameTags(i) for v, by a goroutine: the groups are read, and then sent.
SyncRead(t, v) ==
    /\ v \in sync[t].todo /\ sync[t].got = <<>>
    /\ \E want \in TagGroups(sync[t].inst) :
        sync' = [sync EXCEPT ![t].todo = @ \ {v}, ![t].got = <<[who |-> v, want |-> want]>>]
    /\ UNCHANGED <<shownIn, tags, sidebar, nameTags, client, move, refresh, moves, ticks>>

SyncSend(t) ==
    /\ sync[t].got # <<>>
    /\ LET v == sync[t].got[1].who
           want == sync[t].got[1].want
       IN  Sent(v, TagPackets(nameTags[v], want)) /\ nameTags' = [nameTags EXCEPT ![v] = want]
    /\ sync' = [sync EXCEPT ![t].got = <<>>]
    /\ UNCHANGED <<shownIn, tags, sidebar, move, refresh, moves, ticks>>

Synced(t) == sync[t].todo = {} /\ sync[t].got = <<>>
SyncsAll(t, i, who) == sync' = [sync EXCEPT ![t] = [inst |-> i, todo |-> who, got |-> <<>>]]

\* setNameTag, by a goroutine: the tag, and then everybody's groups.
SetNameTag(t, i, v, tag) ==
    /\ tag # tags[i][v]
    /\ tags' = [tags EXCEPT ![i][v] = tag]
    /\ SyncsAll(t, i, shownIn[i])

----------------------------------------------------------------------------
(* A game's refresh, on the tick loop: for each player of a snapshot, the   *)
(* sidebar and then the tag. *)

RefreshLook(i) ==
    /\ refresh[i] = NoRefresh /\ Synced(i) /\ ticks < MaxTicks
    /\ refresh' = [refresh EXCEPT ![i] = [todo |-> shownIn[i], of |-> {}, on |-> TRUE]]
    /\ ticks' = ticks + 1
    /\ UNCHANGED <<shownIn, tags, sidebar, nameTags, client, move, sync, moves>>

RefreshSidebar(i, v, show) ==
    /\ v \in refresh[i].todo /\ Synced(i)
    /\ SetSidebar(v, show)
    /\ refresh' = [refresh EXCEPT ![i].todo = @ \ {v}, ![i].of = {v}]
    /\ UNCHANGED <<shownIn, tags, nameTags, move, sync, moves, ticks>>

RefreshTag(i, v, tag) ==
    /\ v \in refresh[i].of
    /\ SetNameTag(i, i, v, {tag})
    /\ refresh' = [refresh EXCEPT ![i].of = {}]
    /\ UNCHANGED <<shownIn, sidebar, nameTags, client, move, moves, ticks>>

Refreshed(i) ==
    /\ refresh[i].on /\ refresh[i].todo = {} /\ Synced(i)
    /\ refresh' = [refresh EXCEPT ![i] = NoRefresh]
    /\ UNCHANGED <<shownIn, tags, sidebar, nameTags, client, move, sync, moves, ticks>>

----------------------------------------------------------------------------
(* A move *)

\* LeaveAndAnnounce: the tag goes with the player, ...
LeaveTags(v, to) ==
    /\ move[v] = AtRest /\ Synced(v) /\ moves < MaxMoves /\ v \notin shownIn[to]
    /\ moves' = moves + 1
    /\ move' = [move EXCEPT ![v] = [at |-> "clear", to |-> to]]
    /\ \E from \in {i \in Inst : v \in shownIn[i]} :
        /\ shownIn' = [shownIn EXCEPT ![from] = @ \ {v}]
        /\ tags' = [tags EXCEPT ![from][v] = {}]
        /\ IF tags[from][v] = {} THEN UNCHANGED sync
           ELSE SyncsAll(v, from, shownIn[from] \ {v})
    /\ UNCHANGED <<sidebar, nameTags, client, refresh, ticks>>

\* ... the sidebar comes down, ...
MoveClears(v) ==
    /\ move[v].at = "clear" /\ Synced(v)
    /\ ClearSidebar(v)
    /\ move' = [move EXCEPT ![v].at = "join"]
    /\ UNCHANGED <<shownIn, tags, nameTags, refresh, sync, moves, ticks>>

\* ... and once listed, the new instance's groups replace the old one's, ...
JoinTags(v) ==
    /\ move[v].at = "join"
    /\ shownIn' = [shownIn EXCEPT ![move[v].to] = @ \cup {v}]
    /\ SyncsAll(v, move[v].to, {v})
    /\ move' = [move EXCEPT ![v].at = "hook"]
    /\ UNCHANGED <<tags, sidebar, nameTags, client, refresh, moves, ticks>>

\* ... before the game's OnPlayerJoin, which sets a sidebar and may give a tag.
HookSidebar(v, show) ==
    /\ move[v].at = "hook" /\ Synced(v) /\ move[v].to \in Playing
    /\ SetSidebar(v, show)
    /\ move' = [move EXCEPT ![v].at = "tag"]
    /\ UNCHANGED <<shownIn, tags, nameTags, refresh, sync, moves, ticks>>
HookTag(v, tag) ==
    /\ move[v].at = "tag"
    /\ SetNameTag(v, move[v].to, v, {tag})
    /\ move' = [move EXCEPT ![v] = AtRest]
    /\ UNCHANGED <<shownIn, sidebar, nameTags, client, refresh, moves, ticks>>
MoveEnds(v) ==
    /\ move[v].at = "tag" \/ (move[v].at = "hook" /\ Synced(v) /\ move[v].to \notin Playing)
    /\ move' = [move EXCEPT ![v] = AtRest]
    /\ UNCHANGED <<shownIn, tags, sidebar, nameTags, client, refresh, sync, moves, ticks>>

HudNext ==
    \/ \E v \in Viewer :
        \/ \E i \in Inst : LeaveTags(v, i)
        \/ MoveClears(v) \/ JoinTags(v) \/ MoveEnds(v)
        \/ \E s \in Shows : HookSidebar(v, s)
        \/ \E t \in Tag : HookTag(v, t)
        \/ \E i \in Playing : \/ \E s \in Shows : RefreshSidebar(i, v, s)
                              \/ \E t \in Tag : RefreshTag(i, v, t)
        \/ \E t \in Inst \cup Viewer : SyncRead(t, v)
    \/ \E t \in Inst \cup Viewer : SyncSend(t)
    \/ \E i \in Playing : RefreshLook(i) \/ Refreshed(i)

HudSpec == HudInit /\ [][HudNext]_hudVars

----------------------------------------------------------------------------
HudTypeOK ==
    /\ shownIn \in [Inst -> SUBSET Viewer]
    /\ tags \in [Inst -> [Viewer -> SUBSET Tag]]
    /\ \A v \in Viewer : /\ \A s \in sidebar[v] : Len(s.lines) <= MaxLines
                         /\ Cardinality(sidebar[v]) <= 1
                         /\ move[v].at \in {"rest", "clear", "join", "hook", "tag"}
    /\ moves \in 0..MaxMoves /\ ticks \in 0..MaxTicks

\* What a client that was told everything afresh would show.
Shown(v) ==
    [ok |-> TRUE,
     title |-> {s.title : s \in sidebar[v]},
     display |-> sidebar[v] # {},
     score |-> [l \in Line |-> IF \E s \in sidebar[v] : l \in DOMAIN s.lines
                               THEN Len((CHOOSE s \in sidebar[v] : TRUE).lines) - l + 1 ELSE 0],
     text |-> [l \in Line |-> {s.lines[l] : s \in {x \in sidebar[v] : l \in DOMAIN x.lines}}],
     team |-> nameTags[v]]

\* The client "kicks on an objective or team created twice" and when a player is
\* removed from a team it is no longer in (scoreboard.go:7-9, tags.go:58-62): from
\* whatever goroutines the differences come, and however moves and refreshes fall
\* together, each one makes sense to the client it is sent to, and leaves it with
\* exactly the sidebar and the groups the server will take the next one from.
ClientInStep == \A v \in Viewer : client[v] = Shown(v)
=============================================================================
