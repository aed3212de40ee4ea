------------------------------ MODULE Sessions ------------------------------
(***************************************************************************)
(* The session core of the server: where every connection is, and who may  *)
(* move it.                                                                *)
(*                                                                         *)
(* Goroutines of the program and the processes that stand for them:        *)
(*   - one read loop per connection (rpc): the login handler, then one     *)
(*     command at a time;                                                  *)
(*   - one cleanup per connection (cpc), started by the read loop or by    *)
(*     any of the goroutines that kick (keep-alive, timers, a failed       *)
(*     write, a full queue);                                               *)
(*   - one goroutine per EndGame of an instance (teardown);                *)
(*   - the matchmaker's startGame goroutines (starter);                    *)
(*   - the janitor (sweep).                                                *)
(*                                                                         *)
(* Read loops, EndGame and startGame all call MovePlayer, which runs under *)
(* the moved connection's moveMu.  call[p] is the call process p is in,    *)
(* move[c] is the call that holds c's moveMu and where in moveLocked it    *)
(* is.  One action is one stretch of code between two points where another *)
(* goroutine can be seen to act: taking a lock, or a write that fails once *)
(* the transport is shut.                                                  *)
(***************************************************************************)
EXTENDS Naturals, FiniteSets

CONSTANTS
    Conn,        \* client connections, each used once
    Inst,        \* instance objects: the hub, the lobbies, arenas and rounds
    Hub,         \* Server.Hub
    Landing,     \* where a login lands: the hub, or the auth instance
    Fresh,       \* instances created while the server runs (all Ephemeral)
    Lobbies,     \* the per-mode lobby instances
    LobbyOf,     \* instance -> the lobby of its mode, Hub when it has none
    Starter,     \* startGame goroutines that may run at once (a bound)
    MinPlayers,  \* the queued game's MinPlayers
    None

ASSUME InstAssumption ==
    /\ Hub \in Inst /\ Landing \in Inst
    /\ Fresh \subseteq Inst /\ Lobbies \subseteq Inst
    /\ Hub \notin Fresh /\ Landing \notin Fresh /\ Hub \notin Lobbies
    /\ LobbyOf \in [Inst -> Lobbies \cup {Hub}]

ASSUME ProcessAssumption ==
    /\ Conn \cap Inst = {} /\ Conn \cap Starter = {} /\ Inst \cap Starter = {}
    /\ None \notin Conn \cup Inst \cup Starter
    /\ MinPlayers \in Nat \ {0}

VARIABLES
    istate,    \* instance -> "unborn", "open" (registered) or "removed"
    members,   \* instance -> Instance.Players
    at,        \* connection -> ClientConnection.instance
    rpc,       \* connection -> where its read loop is
    cpc,       \* connection -> where its cleanup is
    move,      \* connection -> the holder of its moveMu
    call,      \* process -> the MovePlayer call it is in
    waiting,   \* the matchmaker queue of one game
    starter,   \* startGame goroutines
    teardown,  \* EndGame goroutines
    sweep      \* the instance the janitor is about to remove

connVars == <<at, rpc, cpc>>
moveVars == <<move, call>>
queueVars == <<waiting, starter>>
instVars == <<istate, members>>
vars == <<istate, members, at, rpc, cpc, move, call, waiting,
          starter, teardown, sweep>>

Mover == Conn \cup Inst \cup Starter

NoCall == [c |-> None, to |-> None]
Calls == [c : Conn, to : Inst] \cup {NoCall}

Free == [pc |-> "free", to |-> None, by |-> None]
MovePc == {"check", "dequeue", "leave", "respawn", "stream", "join"}
Moves == [pc : MovePc, to : Inst, by : Mover]
            \cup {Free, [Free EXCEPT !.pc = "cleanup"]}

Ferries == [pc : {"idle", "create", "ferry"}, todo : SUBSET Conn, inst : Inst \cup {None}]
Teardowns == [pc : {"idle", "ferry", "done"}, todo : SUBSET Conn]
Idle == [pc |-> "idle", todo |-> {}, inst |-> None]

TypeOK ==
    /\ istate \in [Inst -> {"unborn", "open", "removed"}]
    /\ members \in [Inst -> SUBSET Conn]
    /\ at \in [Conn -> Inst \cup {None}]
    /\ rpc \in [Conn -> {"connect", "send", "join", "play", "handle", "ended"}]
    /\ cpc \in [Conn -> {"idle", "spawned", "dequeue", "lock", "leave", "done"}]
    /\ move \in [Conn -> Moves]
    /\ call \in [Mover -> Calls]
    /\ waiting \subseteq Conn
    /\ starter \in [Starter -> Ferries]
    /\ teardown \in [Inst -> Teardowns]
    /\ sweep \in Inst \cup {None}

Init ==
    /\ istate = [i \in Inst |-> IF i \in Fresh THEN "unborn" ELSE "open"]
    /\ members = [i \in Inst |-> {}]
    /\ at = [c \in Conn |-> None]
    /\ rpc = [c \in Conn |-> "connect"]
    /\ cpc = [c \in Conn |-> "idle"]
    /\ move = [c \in Conn |-> Free]
    /\ call = [p \in Mover |-> NoCall]
    /\ waiting = {}
    /\ starter = [s \in Starter |-> Idle]
    /\ teardown = [i \in Inst |-> [pc |-> "idle", todo |-> {}]]
    /\ sweep = None

-----------------------------------------------------------------------------
(* Helpers. *)

\* The transport refuses writes: conn.Conn.Shutdown has run.
Closed(c) == cpc[c] \notin {"idle", "spawned"}

\* A queued write may fail: the transport is shut, or its queue is full, in
\* which case the failing write has issued `go c.cleanup()`.
WriteFails(c) == Closed(c) \/ cpc[c] = "spawned"

\* The cleanup goroutine is asked for; asking twice changes nothing, as only
\* the first Shutdown proceeds.
Spawn(c) == cpc' = [cpc EXCEPT ![c] = IF @ = "idle" THEN "spawned" ELSE @]

\* RemoveInstance: refused for the hub, an instance not registered and one
\* with players, settled under s.mu and joinMu at once.
\* (Bug... are mutants: what a definition would be with a plausible bug in it.)
Removable(i) == i # Hub /\ istate[i] = "open" /\ members[i] = {}
Remove(i) == istate' = [istate EXCEPT ![i] = "removed"]

\* A reader between two packets, its last handler returned.
AtLoopTop(c) == rpc[c] \in {"connect", "play"} /\ call[c] = NoCall
Handling(c) == rpc[c] = "handle"

-----------------------------------------------------------------------------
(* The read loop: login, then packets. *)

\* handleLogin up to `c.instance = ...`: Login Success was queued.
LoginEnter(c) ==
    /\ rpc[c] = "connect" /\ ~Closed(c)
    /\ rpc' = [rpc EXCEPT ![c] = "send"]
    /\ at' = [at EXCEPT ![c] = Landing]
    /\ UNCHANGED <<instVars, cpc, moveVars, queueVars, teardown, sweep>>

\* sendPlayPackets sent everything ...
SendPlayPackets(c) ==
    /\ rpc[c] = "send" /\ ~Closed(c)
    /\ rpc' = [rpc EXCEPT ![c] = "join"]
    /\ UNCHANGED <<instVars, at, cpc, moveVars, queueVars, teardown, sweep>>

\* ... or stopped at a failed write.  The state is Play already, so the error
\* does not end the read loop: the closed transport does, at its top.
SendPlayFails(c) ==
    /\ rpc[c] = "send" /\ WriteFails(c)
    /\ rpc' = [rpc EXCEPT ![c] = "play"]
    /\ UNCHANGED <<instVars, at, cpc, moveVars, queueVars, teardown, sweep>>

\* JoinAndAnnounce of the login: neither under moveMu nor after a look at
\* the transport, its result unused.
LoginJoin(c) ==
    /\ rpc[c] = "join"
    /\ rpc' = [rpc EXCEPT ![c] = "play"]
    /\ members' = [members EXCEPT ![at[c]] =
                     IF istate[at[c]] = "open" THEN @ \cup {c} ELSE @]
    /\ UNCHANGED <<istate, at, cpc, moveVars, queueVars, teardown, sweep>>

\* The loop top: a closed transport ends the loop ...
ReaderEnds(c) ==
    /\ AtLoopTop(c) /\ Closed(c)
    /\ rpc' = [rpc EXCEPT ![c] = "ended"]
    /\ UNCHANGED <<instVars, at, cpc, moveVars, queueVars, teardown, sweep>>

\* ... a read error, a login refused or a panic ends it with a cleanup ...
ReaderFails(c) ==
    /\ AtLoopTop(c)
    /\ rpc' = [rpc EXCEPT ![c] = "ended"]
    /\ Spawn(c)
    /\ UNCHANGED <<instVars, at, moveVars, queueVars, teardown, sweep>>

\* ... and a packet is handed to its handler.
ReadPacket(c) ==
    /\ rpc[c] = "play" /\ call[c] = NoCall /\ ~Closed(c)
    /\ rpc' = [rpc EXCEPT ![c] = "handle"]
    /\ UNCHANGED <<instVars, at, cpc, moveVars, queueVars, teardown, sweep>>

\* A packet that touches no session state.
Handled(c) ==
    /\ Handling(c)
    /\ rpc' = [rpc EXCEPT ![c] = "play"]
    /\ UNCHANGED <<instVars, at, cpc, moveVars, queueVars, teardown, sweep>>

\* The handler calls MovePlayer; the loop top waits for it to return.
CallMove(c, i) ==
    /\ rpc' = [rpc EXCEPT ![c] = "play"]
    /\ call' = [call EXCEPT ![c] = [c |-> c, to |-> i]]

\* /play <game> <arena>, /instance join, the hub's menus: a registered
\* instance other than the one the player is in.
CmdJoin(c, i) ==
    /\ Handling(c) /\ istate[i] = "open" /\ i # at[c]
    /\ CallMove(c, i)
    /\ UNCHANGED <<instVars, at, cpc, move, queueVars, teardown, sweep>>

\* /hub: out of the queue, then to the hub unless there already.
CmdHub(c) ==
    /\ Handling(c)
    /\ waiting' = waiting \ {c}
    /\ IF at[c] = Hub
       THEN rpc' = [rpc EXCEPT ![c] = "play"] /\ UNCHANGED call
       ELSE CallMove(c, Hub)
    /\ UNCHANGED <<instVars, at, cpc, move, starter, teardown, sweep>>

\* /leave: out of the queue, then to the mode's lobby when it is registered,
\* else the hub; nothing more for a player in the hub or a lobby.
CmdLeave(c) ==
    /\ Handling(c)
    /\ waiting' = waiting \ {c}
    /\ IF at[c] \in Lobbies \cup {Hub}
       THEN rpc' = [rpc EXCEPT ![c] = "play"] /\ UNCHANGED call
       ELSE CallMove(c, IF istate[LobbyOf[at[c]]] = "open" THEN LobbyOf[at[c]] ELSE Hub)
    /\ UNCHANGED <<instVars, at, cpc, move, starter, teardown, sweep>>

\* /play leave.
CmdPlayLeave(c) ==
    /\ Handling(c)
    /\ rpc' = [rpc EXCEPT ![c] = "play"]
    /\ waiting' = waiting \ {c}
    /\ UNCHANGED <<instVars, at, cpc, moveVars, starter, teardown, sweep>>

\* /play <game>: Matchmaker.Queue.  Reaching MinPlayers takes everybody out
\* of the queue and hands them to a startGame goroutine.
CmdPlay(c) ==
    /\ Handling(c) /\ c \notin waiting
    /\ rpc' = [rpc EXCEPT ![c] = "play"]
    /\ \/ /\ Cardinality(waiting \cup {c}) < MinPlayers
          /\ waiting' = waiting \cup {c}
          /\ UNCHANGED starter
       \/ /\ Cardinality(waiting \cup {c}) >= MinPlayers
          /\ \E s \in Starter :
               /\ starter[s].pc = "idle"
               /\ starter' = [starter EXCEPT ![s] =
                    [pc |-> "create", todo |-> waiting \cup {c}, inst |-> None]]
          /\ waiting' = {}
    /\ UNCHANGED <<instVars, at, cpc, moveVars, teardown, sweep>>

-----------------------------------------------------------------------------
(* Closing a connection. *)

\* Any goroutine closes the connection: keep-alive or pre-play timeout, a
\* failed write, a full queue, a kick, the anticheat, shutdown.
Kick(c) ==
    /\ cpc[c] = "idle"
    /\ Spawn(c)
    /\ UNCHANGED <<instVars, at, rpc, moveVars, queueVars, teardown, sweep>>

\* link.Shutdown: the first caller goes on, the transport takes no writes.
Shutdown(c) ==
    /\ cpc[c] = "spawned"
    /\ cpc' = [cpc EXCEPT ![c] = "dequeue"]
    /\ UNCHANGED <<instVars, at, rpc, moveVars, queueVars, teardown, sweep>>

CleanupDequeue(c) ==
    /\ cpc[c] = "dequeue"
    /\ cpc' = [cpc EXCEPT ![c] = "lock"]
    /\ waiting' = waiting \ {c}
    /\ UNCHANGED <<instVars, at, rpc, moveVars, starter, teardown, sweep>>

\* LeaveAndAnnounce does nothing for a connection that is not a member.
Leave(c) == members' = [i \in Inst |-> IF i = at[c] THEN members[i] \ {c} ELSE members[i]]

\* moveMu: waits out a MovePlayer in flight.
CleanupLock(c) ==
    /\ cpc[c] = "lock" /\ move[c].pc = "free"
    /\ cpc' = [cpc EXCEPT ![c] = "leave"]
    /\ move' = [move EXCEPT ![c] = [Free EXCEPT !.pc = "cleanup"]]
    /\ UNCHANGED <<instVars, at, rpc, call, queueVars, teardown, sweep>>

CleanupLeave(c) ==
    /\ cpc[c] = "leave"
    /\ cpc' = [cpc EXCEPT ![c] = "done"]
    /\ move' = [move EXCEPT ![c] = Free]
    /\ Leave(c)
    /\ UNCHANGED <<istate, at, rpc, call, queueVars, teardown, sweep>>

-----------------------------------------------------------------------------
(* MovePlayer, for any process p with a call. *)

Target(p) == call[p].c

MoveAcquire(p) ==
    /\ call[p] # NoCall /\ move[Target(p)].pc = "free"
    /\ move' = [move EXCEPT ![Target(p)] = [pc |-> "check", to |-> call[p].to, by |-> p]]
    /\ UNCHANGED <<instVars, connVars, call, queueVars, teardown, sweep>>

\* The deferred unlock and the return to the caller.
Return(c) ==
    /\ move' = [move EXCEPT ![c] = Free]
    /\ call' = [call EXCEPT ![move[c].by] = NoCall]

Advance(c, pc) == move' = [move EXCEPT ![c].pc = pc] /\ UNCHANGED call

\* moveLocked's early returns: disconnected, already there, target gone.
MoveCheck(c) ==
    /\ move[c].pc = "check"
    /\ IF Closed(c) \/ at[c] = move[c].to \/ istate[move[c].to] # "open"
       THEN Return(c)
       ELSE Advance(c, "dequeue")
    /\ UNCHANGED <<instVars, connVars, queueVars, teardown, sweep>>

BugMoveDequeue(c) ==
    /\ move[c].pc = "dequeue"
    /\ Advance(c, "leave")
    /\ UNCHANGED <<instVars, connVars, queueVars, teardown, sweep>>

MoveDequeue(c) ==
    /\ move[c].pc = "dequeue"
    /\ waiting' = waiting \ {c}
    /\ Advance(c, "leave")
    /\ UNCHANGED <<instVars, connVars, starter, teardown, sweep>>

MoveLeave(c) ==
    /\ move[c].pc = "leave"
    /\ Leave(c)
    /\ Advance(c, "respawn")
    /\ UNCHANGED <<istate, connVars, queueVars, teardown, sweep>>

\* Respawn written, then the authoritative pointer is switched.
MoveRespawn(c) ==
    /\ move[c].pc = "respawn" /\ ~Closed(c)
    /\ at' = [at EXCEPT ![c] = move[c].to]
    /\ Advance(c, "stream")
    /\ UNCHANGED <<instVars, rpc, cpc, queueVars, teardown, sweep>>

\* Spawn position, chunks, position: the last checked write succeeded.
MoveStream(c) ==
    /\ move[c].pc = "stream" /\ ~Closed(c)
    /\ Advance(c, "join")
    /\ UNCHANGED <<instVars, connVars, queueVars, teardown, sweep>>

\* An error path that returns to its caller with moveMu still held.
BugMoveWriteFails(c) ==
    /\ move[c].pc \in {"respawn", "stream"} /\ WriteFails(c)
    /\ call' = [call EXCEPT ![move[c].by] = NoCall]
    /\ UNCHANGED <<instVars, connVars, move, queueVars, teardown, sweep>>

\* A checked write failed: MovePlayer returns its error, c in no list.
MoveWriteFails(c) ==
    /\ move[c].pc \in {"respawn", "stream"} /\ WriteFails(c)
    /\ Return(c)
    /\ UNCHANGED <<instVars, connVars, queueVars, teardown, sweep>>

\* Joining without a look at Instance.removed.
BugMoveJoin(c) ==
    /\ move[c].pc = "join"
    /\ members' = [members EXCEPT ![move[c].to] = @ \cup {c}]
    /\ Return(c)
    /\ UNCHANGED <<istate, connVars, queueVars, teardown, sweep>>

\* A refused join reported to the caller instead of falling back to the hub.
BugNoFallback(c) ==
    /\ move[c].pc = "join"
    /\ members' = [members EXCEPT ![move[c].to] =
                     IF istate[move[c].to] = "open" THEN @ \cup {c} ELSE @]
    /\ Return(c)
    /\ UNCHANGED <<istate, connVars, queueVars, teardown, sweep>>

\* JoinAndAnnounce under joinMu; a target removed meanwhile is replaced by
\* the hub and moveLocked starts again, still under moveMu.
MoveJoin(c) ==
    /\ move[c].pc = "join"
    /\ IF istate[move[c].to] = "open"
       THEN /\ members' = [members EXCEPT ![move[c].to] = @ \cup {c}]
            /\ Return(c)
       ELSE /\ IF move[c].to = Hub
               THEN Return(c)
               ELSE /\ move' = [move EXCEPT ![c].to = Hub, ![c].pc = "check"]
                    /\ UNCHANGED call
            /\ UNCHANGED members
    /\ UNCHANGED <<istate, connVars, queueVars, teardown, sweep>>

-----------------------------------------------------------------------------
(* Instances: creation, EndGame, the janitor, /instance delete. *)

\* AddInstance of an ephemeral instance.
Create(i) ==
    /\ istate[i] = "unborn"
    /\ istate' = [istate EXCEPT ![i] = "open"]

\* /arena create, from any operator's read loop.
CreateArena(i) ==
    /\ Create(i)
    /\ UNCHANGED <<members, connVars, moveVars, queueVars, teardown, sweep>>

\* startGame: StartGame, then one Join after another.
StarterCreate(s, i) ==
    /\ starter[s].pc = "create"
    /\ Create(i)
    /\ starter' = [starter EXCEPT ![s].pc = "ferry", ![s].inst = i]
    /\ UNCHANGED <<members, connVars, moveVars, waiting, teardown, sweep>>

\* StartGame failed: the players are told, and stay out of the queue.
StarterFails(s) ==
    /\ starter[s].pc = "create"
    /\ starter' = [starter EXCEPT ![s] = Idle]
    /\ UNCHANGED <<instVars, connVars, moveVars, waiting, teardown, sweep>>

StarterMove(s, c) ==
    /\ starter[s].pc = "ferry" /\ call[s] = NoCall /\ c \in starter[s].todo
    /\ starter' = [starter EXCEPT ![s].todo = @ \ {c}]
    /\ call' = [call EXCEPT ![s] = [c |-> c, to |-> starter[s].inst]]
    /\ UNCHANGED <<instVars, connVars, move, waiting, teardown, sweep>>

StarterDone(s) ==
    /\ starter[s].pc = "ferry" /\ call[s] = NoCall /\ starter[s].todo = {}
    /\ starter' = [starter EXCEPT ![s] = Idle]
    /\ UNCHANGED <<instVars, connVars, moveVars, waiting, teardown, sweep>>

\* EndGame's goroutine: the players are a snapshot ...
EndGame(i) ==
    /\ i \in Fresh /\ istate[i] = "open" /\ teardown[i].pc = "idle"
    /\ teardown' = [teardown EXCEPT ![i] = [pc |-> "ferry", todo |-> members[i]]]
    /\ UNCHANGED <<instVars, connVars, moveVars, queueVars, sweep>>

\* ... each of them is moved to the hub ...
TeardownMove(i, c) ==
    /\ teardown[i].pc = "ferry" /\ call[i] = NoCall /\ c \in teardown[i].todo
    /\ teardown' = [teardown EXCEPT ![i].todo = @ \ {c}]
    /\ call' = [call EXCEPT ![i] = [c |-> c, to |-> Hub]]
    /\ UNCHANGED <<instVars, connVars, move, queueVars, sweep>>

\* ... and the instance is removed, if it is empty; the error is dropped.
TeardownRemove(i) ==
    /\ teardown[i].pc = "ferry" /\ call[i] = NoCall /\ teardown[i].todo = {}
    /\ teardown' = [teardown EXCEPT ![i].pc = "done"]
    /\ IF Removable(i) THEN Remove(i) ELSE UNCHANGED istate
    /\ UNCHANGED <<members, connVars, moveVars, queueVars, sweep>>

\* /instance delete, from any operator's read loop (the operator's own way
\* to the hub, when alone in there, is a CmdJoin).
InstanceDelete(i) ==
    /\ Removable(i)
    /\ Remove(i)
    /\ UNCHANGED <<members, connVars, moveVars, queueVars, teardown, sweep>>

\* A sweep meets an instance whose emptyInstanceTTL may have run out, and
\* sees no players in it ...
JanitorLook(i) ==
    /\ sweep = None /\ i \in Fresh /\ istate[i] = "open" /\ members[i] = {}
    /\ sweep' = i
    /\ UNCHANGED <<instVars, connVars, moveVars, queueVars, teardown>>

\* ... and RemoveInstance counts again: a join since then refuses it.
JanitorRemove ==
    /\ sweep # None
    /\ sweep' = None
    /\ IF Removable(sweep) THEN Remove(sweep) ELSE UNCHANGED istate
    /\ UNCHANGED <<members, connVars, moveVars, queueVars, teardown>>

-----------------------------------------------------------------------------

Reader(c) ==
    \/ LoginEnter(c) \/ SendPlayPackets(c) \/ SendPlayFails(c) \/ LoginJoin(c)
    \/ ReaderEnds(c) \/ ReaderFails(c) \/ ReadPacket(c) \/ Handled(c)
    \/ \E i \in Inst : CmdJoin(c, i)
    \/ CmdHub(c) \/ CmdLeave(c) \/ CmdPlayLeave(c) \/ CmdPlay(c)

Cleanup(c) == Shutdown(c) \/ CleanupDequeue(c) \/ CleanupLock(c) \/ CleanupLeave(c)

MoveStep(c) ==
    \/ MoveCheck(c) \/ MoveDequeue(c) \/ MoveLeave(c) \/ MoveRespawn(c)
    \/ MoveStream(c) \/ MoveWriteFails(c) \/ MoveJoin(c)

StarterStep(s) ==
    \/ \E i \in Fresh : StarterCreate(s, i)
    \/ StarterFails(s) \/ StarterDone(s)
    \/ \E c \in Conn : StarterMove(s, c)

TeardownStep(i) == TeardownRemove(i) \/ \E c \in Conn : TeardownMove(i, c)

\* Every connection is gone and no goroutine has work left.
Terminated ==
    /\ \A c \in Conn : rpc[c] = "ended" /\ cpc[c] = "done"
    /\ \A p \in Mover : call[p] = NoCall
    /\ \A s \in Starter : starter[s].pc = "idle"
    /\ UNCHANGED vars

Next ==
    \/ \E c \in Conn : Reader(c) \/ Kick(c) \/ Cleanup(c) \/ MoveStep(c)
    \/ \E p \in Mover : MoveAcquire(p)
    \/ \E s \in Starter : StarterStep(s)
    \/ \E i \in Fresh : CreateArena(i) \/ EndGame(i) \/ JanitorLook(i)
    \/ \E i \in Inst : TeardownStep(i) \/ InstanceDelete(i)
    \/ JanitorRemove
    \/ Terminated

Spec == Init /\ [][Next]_vars

\* Goroutines run, locks are granted, the network answers a write or fails
\* it.  Nothing makes a client send a packet or an operator act.
Fairness ==
    /\ \A c \in Conn : /\ WF_vars(Cleanup(c)) /\ WF_vars(MoveStep(c))
                       /\ WF_vars(SendPlayPackets(c) \/ SendPlayFails(c) \/ LoginJoin(c))
                       /\ WF_vars(ReaderEnds(c)) /\ WF_vars(Handled(c))
    /\ \A p \in Mover : SF_vars(MoveAcquire(p))
    /\ \A c \in Conn : SF_vars(CleanupLock(c))
    /\ \A s \in Starter : WF_vars(StarterStep(s))
    /\ \A i \in Inst : WF_vars(TeardownStep(i))
    /\ \A i \in Fresh : SF_vars(JanitorLook(i))
    /\ WF_vars(JanitorRemove)

FairSpec == Spec /\ Fairness

-----------------------------------------------------------------------------
(* Safety. *)

\* A player is in the list of the instance it points at and in no other:
\* nobody is ever in two worlds, whichever goroutines move it.
OneWorld == \A c \in Conn, i \in Inst : c \in members[i] => at[c] = i

\* A removed instance (its tick loop stops) has no players, and gets none:
\* joins and RemoveInstance settle it under joinMu.
NobodyInRemoved == \A i \in Inst : istate[i] # "open" => members[i] = {}

\* In play, nothing in flight: no handler call, no move, no cleanup asked for.
Settled(c) == /\ rpc[c] \in {"play", "handle"} /\ move[c].pc = "free"
              /\ cpc[c] = "idle"

\* In the list of its instance, or in a landing that refused the login.
InPlace(c) == c \in members[at[c]] \/ (at[c] = Landing /\ istate[Landing] = "removed")

\* A settled player is in the list of its instance: a move never loses it
\* between two worlds, whatever fails midway.  (A landing instance removed
\* by an operator refuses logins; handleLogin does not look.)
NoLimbo ==
    \A c \in Conn : Settled(c) => InPlace(c)

\* From leaving its old instance on, a player who moves by a command of its
\* own is in no matchmaker queue (moveLocked's Dequeue).
EnteringGivesUpQueue ==
    \A c \in Conn : move[c].by = c /\ move[c].pc \in {"leave", "respawn", "stream", "join"}
                      => c \notin waiting

\* After its cleanup has left, nothing but a login that was already past its
\* writes puts a connection back into a list: no move ever does.
CleanupIsFinal ==
    [][\A c \in Conn, i \in Inst :
          /\ cpc[c] = "done" /\ c \notin members[i] /\ c \in members'[i]
          => rpc[c] = "join"]_vars

-----------------------------------------------------------------------------
(* The inductive invariant: what the safety properties rest on. *)

HubOpen == istate[Hub] = "open"

\* Until its login has joined, no goroutine can have found the player.
UnknownBeforeJoin ==
    \A c \in Conn : rpc[c] \in {"connect", "send", "join"} =>
        /\ \A i \in Inst : c \notin members[i] /\ c \notin teardown[i].todo
        /\ \A s \in Starter : c \notin starter[s].todo
        /\ \A p \in Mover : call[p].c # c
        /\ c \notin waiting
        /\ move[c].pc \in {"free", "cleanup"}

\* Past `c.instance = ...` a read loop has an instance.
InstanceSet ==
    \A c \in Conn : rpc[c] \in {"send", "join", "play", "handle"} => at[c] \in Inst

\* A login lands in the landing instance, which was there from the start.
LoginLands ==
    /\ istate[Landing] # "unborn"
    /\ \A c \in Conn : rpc[c] \in {"send", "join"} => at[c] = Landing

\* The loop that moves the picked players has an instance to move them to.
FerryHasInstance == \A s \in Starter : starter[s].pc = "ferry" => starter[s].inst \in Inst

WellTyped == TypeOK /\ InstanceSet /\ FerryHasInstance

\* moveMu is held by the call it was taken for, one connection per call.
LockHasCaller ==
    \A c \in Conn : move[c].pc \in MovePc => call[move[c].by].c = c

\* A read loop in a call of its own is not in a handler.
CallerWaits == \A c \in Conn : call[c] # NoCall => rpc[c] = "play"

\* Between leaving and joining, a moving player is in no list; it points at
\* the target once the Respawn is out.
BetweenWorlds ==
    \A c \in Conn :
        /\ move[c].pc \in {"respawn", "stream", "join"} => \A i \in Inst : c \notin members[i]
        /\ move[c].pc \in {"stream", "join"} => at[c] = move[c].to

\* The cleanup has moveMu while it leaves, and what takes moveMu after it
\* gets no further than moveLocked's first test.
CleanupHasLock ==
    \A c \in Conn :
        /\ cpc[c] = "leave" <=> move[c].pc = "cleanup"
        /\ cpc[c] = "done" => move[c].pc \in {"free", "check"}

\* A move that has not left yet leaves from a list, or is on its way to the
\* hub after its target was removed.
LeavesFromList ==
    \A c \in Conn :
        rpc[c] \in {"play", "handle"} /\ cpc[c] = "idle" /\ move[c].pc \in {"free", "check", "dequeue", "leave"}
        => \/ InPlace(c)
           \/ move[c].pc # "free" /\ move[c].to = Hub /\ at[c] # Hub

\* A read loop ends with the connection closing.
EndedIsClosing == \A c \in Conn : rpc[c] = "ended" => cpc[c] # "idle"

IInv == /\ WellTyped /\ OneWorld /\ NobodyInRemoved /\ EnteringGivesUpQueue
        /\ HubOpen /\ LoginLands /\ UnknownBeforeJoin /\ LockHasCaller /\ CallerWaits
        /\ BetweenWorlds /\ CleanupHasLock /\ LeavesFromList /\ EndedIsClosing

-----------------------------------------------------------------------------
(* The core implements Presence. *)

Where == [c \in Conn |-> IF \E i \in Inst : c \in members[i] THEN at[c] ELSE None]

P == INSTANCE Presence WITH
        Nowhere <- None,
        where <- Where,
        open <- {i \in Inst : istate[i] = "open"},
        gone <- {i \in Inst : istate[i] = "removed"}

\* The promise of Presence, kept by every step of every goroutine.
ImplementsPresence == P!PresenceSpec

-----------------------------------------------------------------------------
(* Liveness. *)

\* A connection that is asked to close is out of every lock and list wait:
\* its cleanup ends, whoever else is moving it.
CleanupEnds == \A c \in Conn : cpc[c] # "idle" ~> cpc[c] = "done"

\* Every MovePlayer call returns.
MovesReturn == \A p \in Mover : call[p] # NoCall ~> call[p] = NoCall

\* The janitor's purpose: a game instance that stays empty is removed.
EmptyIsCollected ==
    \A i \in Fresh : <>[](istate[i] = "open" => members[i] = {}) => <>[](istate[i] # "open")

\* What the goroutines bring about, in one: nothing that was begun stays open.
Progress == CleanupEnds /\ MovesReturn /\ EmptyIsCollected

-----------------------------------------------------------------------------
(* What comments of the code promise, and the interleavings do not keep. *)

\* cleanup.go: the player leaves whichever instance it ended in instead of
\* staying behind there as a ghost.
NoGhost ==
    \A c \in Conn : cpc[c] = "done" => \A i \in Inst : c \notin members[i]

\* moveLocked: entering a game directly gives up the place in a queue, so
\* that no starting round pulls the player out of the round it is in.
EnteringEndsThePick ==
    \A c \in Conn, s \in Starter :
        move[c].by = c /\ move[c].pc = "join" /\ move[c].to \in Fresh \ {starter[s].inst}
        => c \notin starter[s].todo
=============================================================================
