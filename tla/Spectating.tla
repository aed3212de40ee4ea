----------------------------- MODULE Spectating -----------------------------
(***************************************************************************)
(* Watching a game without playing it (server/spectate.go) and the hooks   *)
(* that tell games and plugins who plays (server/plugins.go): a move of a  *)
(* connection runs the leave hooks, forgets the watching, switches the     *)
(* instance, joins it and runs the join hooks.  The connection's own       *)
(* reader, EndGame, the matchmaker and the cleanup all move it, one at a   *)
(* time (moveMu); Spectate's notes around its move are outside the lock.   *)
(*                                                                         *)
(* Bound (NotedAtOnce): nobody moves a watcher between Spectate's move and *)
(* its note of what is watched; the note would be of an instance the       *)
(* watcher has left, whose game would not be told if it came back to play. *)
(***************************************************************************)
EXTENDS Naturals, FiniteSets

CONSTANTS
    Client, HubInst,
    ArenaInst,       \* instances that can be watched
    RoundInst,       \* the matchmaker's, which can not
    Plugin, Game,    \* the listeners, and the instance's own logic
    NotedAtOnce,
    MaxMoves,        \* bound: moves, over the run
    MaxPanics,       \* bound: hooks that panic
    Nowhere

Insts == {HubInst} \cup ArenaInst \cup RoundInst
Hook == Plugin \cup {Game}

ASSUME SpectatingAssumption ==
    /\ HubInst \notin ArenaInst \cup RoundInst /\ ArenaInst \cap RoundInst = {}
    /\ Nowhere \notin Insts /\ NotedAtOnce \in BOOLEAN /\ Game \notin Plugin

VARIABLES
    inst,            \* ClientConnection.instance; Nowhere once it is cleaned up
    here,            \* Instance.Players
    told,            \* history: whom the hooks of each kind count in each instance
    broken,          \* history: hooks that have panicked
    target, watched, \* ClientConnection.watch
    spect,           \* the connection's reader, in Spectate
    moving,          \* who holds its moveMu, and how far the move is
    mode,            \* player.Gamemode
    shut,            \* connections that have closed
    down,            \* instances removed
    ending,          \* EndGame goroutines: whom they still have to send off
    moves,           \* history: the moves made
    watcher          \* history: who came where it is to watch

spectVars == <<inst, here, told, broken, target, watched, spect, moving, mode, shut,
               down, ending, moves, watcher>>

NotMoving == [at |-> "free"]
NotEnding == [on |-> FALSE, todo |-> {}]
NotInSpectate == [at |-> "rest"]

SpectInit ==
    /\ inst = [c \in Client |-> HubInst]
    /\ here = [i \in Insts |-> IF i = HubInst THEN Client ELSE {}]
    /\ told = [h \in Hook |-> here]
    /\ broken = {}
    /\ target = [c \in Client |-> Nowhere] /\ watched = target
    /\ spect = [c \in Client |-> NotInSpectate]
    /\ moving = [c \in Client |-> NotMoving]
    /\ mode = [c \in Client |-> "adventure"]
    /\ shut = {} /\ down = {}
    /\ ending = [i \in ArenaInst |-> NotEnding]
    /\ moves = 0 /\ watcher = {}

Watching(c, i) == i # Nowhere /\ i \in {target[c], watched[c]}

----------------------------------------------------------------------------
(* A move, under moveMu *)

MovesBy(c, by, to) == moving' = [moving EXCEPT ![c] = [at |-> "leave", by |-> by, to |-> to]]

\* moveLocked's early returns, and resetForHub, which puts the gamemode back
\* unless the player goes from the hub into a game.
MayMove(c, to) == c \notin shut /\ inst[c] # to /\ to \notin down
Sheds(c, to) == to = HubInst \/ inst[c] # HubInst

StartMove(c, by, to) ==
    /\ moving[c] = NotMoving /\ MayMove(c, to) /\ moves < MaxMoves
    /\ NotedAtOnce => spect[c].at # "note"
    /\ moves' = moves + 1
    /\ MovesBy(c, by, to)
    /\ UNCHANGED <<inst, here, told, broken, target, watched, spect, mode, shut, down, ending, watcher>>

\* One hook after another, each under its own recovery: a hook that panics
\* notes nothing, and the others run.  A watcher isn't in the game.
Tells(c, i, panics, joins) ==
    told' = [h \in Hook |->
                IF h \in panics THEN told[h]
                ELSE [told[h] EXCEPT ![i] = IF joins THEN @ \cup {c} ELSE @ \ {c}]]

Fires(c, i, panics, joins) ==
    /\ panics # {} => Cardinality(broken \cup panics) <= MaxPanics
    /\ IF Watching(c, i) THEN panics = {} /\ UNCHANGED told ELSE Tells(c, i, panics, joins)
    /\ broken' = broken \cup panics

\* LeaveAndAnnounce: the hooks, then the list.
LeaveInst(c, panics) ==
    /\ moving[c].at = "leave"
    /\ LET i == inst[c]
       IN  /\ Fires(c, i, panics, FALSE)
           /\ here' = [here EXCEPT ![i] = @ \ {c}]
    /\ moving' = [moving EXCEPT ![c].at = "left"]
    /\ UNCHANGED <<inst, target, watched, spect, mode, shut, down, ending, moves, watcher>>

\* A mutant: the watching is not forgotten.
BugEndWatch(c, old) == watched
EndWatch(c, old) == [watched EXCEPT ![c] = IF @ = old THEN Nowhere ELSE @]

\* endWatch, resetForHub and the switch of c.instance.
Switch(c) ==
    /\ moving[c].at = "left"
    /\ LET to == moving[c].to
       IN  /\ watched' = EndWatch(c, inst[c])
           /\ mode' = IF Sheds(c, to) THEN [mode EXCEPT ![c] = "adventure"] ELSE mode
           /\ inst' = [inst EXCEPT ![c] = to]
    /\ moving' = [moving EXCEPT ![c].at = "join"]
    /\ UNCHANGED <<here, told, broken, target, spect, shut, down, ending, moves, watcher>>

\* JoinAndAnnounce: the list first, or the hub when the instance has gone, ...
JoinList(c) ==
    /\ moving[c].at = "join"
    /\ LET to == moving[c].to
       IN  IF to \in down
           THEN /\ moving' = [moving EXCEPT ![c] = [at |-> "left", by |-> @.by, to |-> HubInst]]
                /\ UNCHANGED here
           ELSE /\ here' = [here EXCEPT ![to] = @ \cup {c}]
                /\ moving' = [moving EXCEPT ![c].at = "hooks"]
    /\ UNCHANGED <<inst, told, broken, target, watched, spect, mode, shut, down, ending, moves, watcher>>

\* ... then the hooks.
JoinHooks(c, panics) ==
    /\ moving[c].at = "hooks"
    /\ Fires(c, moving[c].to, panics, TRUE)
    /\ moving' = [moving EXCEPT ![c] = NotMoving]
    /\ spect' = IF moving[c].by = "spectate" THEN [spect EXCEPT ![c].at = "note"] ELSE spect
    /\ watcher' = IF moving[c].by = "spectate" /\ moving[c].to = spect[c].to
                  THEN watcher \cup {c} ELSE watcher \ {c}
    /\ UNCHANGED <<inst, here, target, watched, mode, shut, down, ending, moves>>

----------------------------------------------------------------------------
(* The connection's reader *)

Reading(c) == /\ c \notin shut /\ spect[c] = NotInSpectate
              /\ (moving[c] # NotMoving => moving[c].by # "reader")

\* /play, /leave, /hub.
Go(c, to) ==
    /\ Reading(c) /\ to \in {HubInst} \cup ArenaInst
    /\ StartMove(c, "reader", to)

\* Spectate: not where the player already is; the target and the gamemode ...
Spectate(c, i) ==
    /\ Reading(c) /\ i \in ArenaInst \ down /\ inst[c] # i
    /\ target' = [target EXCEPT ![c] = i]
    /\ mode' = [mode EXCEPT ![c] = "spectator"]
    /\ spect' = [spect EXCEPT ![c] = [at |-> "move", to |-> i]]
    /\ UNCHANGED <<inst, here, told, broken, watched, moving, shut, down, ending, moves, watcher>>

\* ... are set before the move, ...
SpectateMove(c) ==
    /\ spect[c].at = "move"
    /\ moves < MaxMoves /\ moves' = moves + 1
    /\ moving[c] = NotMoving /\ MayMove(c, spect[c].to)
    /\ MovesBy(c, "spectate", spect[c].to)
    /\ spect' = [spect EXCEPT ![c].at = "moving"]
    /\ UNCHANGED <<inst, here, told, broken, target, watched, mode, shut, down, ending, watcher>>

\* ... which may be refused, ...
SpectateFails(c) ==
    /\ spect[c].at = "move" /\ moving[c] = NotMoving
    /\ c \in shut \/ spect[c].to \in down
    /\ target' = [target EXCEPT ![c] = Nowhere]
    /\ spect' = [spect EXCEPT ![c] = NotInSpectate]
    /\ UNCHANGED <<inst, here, told, broken, watched, moving, mode, shut, down, ending, moves, watcher>>

\* ... and noted after it.  The client, not the player, is given the gamemode again.
SpectateNote(c) ==
    /\ spect[c].at = "note"
    /\ watched' = [watched EXCEPT ![c] = spect[c].to]
    /\ target' = [target EXCEPT ![c] = Nowhere]
    /\ spect' = [spect EXCEPT ![c] = NotInSpectate]
    /\ UNCHANGED <<inst, here, told, broken, moving, mode, shut, down, ending, moves, watcher>>

----------------------------------------------------------------------------
(* Others *)

\* EndGame's goroutine: the players of a snapshot go to the hub, watchers too, ...
EndWatchedGame(i) ==
    /\ ~ending[i].on /\ i \notin down
    /\ ending' = [ending EXCEPT ![i] = [on |-> TRUE, todo |-> here[i]]]
    /\ UNCHANGED <<inst, here, told, broken, target, watched, spect, moving, mode, shut, down, moves, watcher>>

SendOff(i, c) ==
    /\ c \in ending[i].todo /\ moving[c] = NotMoving
    /\ NotedAtOnce => spect[c].at # "note"
    /\ ending' = [ending EXCEPT ![i].todo = @ \ {c}]
    /\ IF MayMove(c, HubInst) THEN MovesBy(c, "endgame", HubInst) ELSE UNCHANGED moving
    /\ UNCHANGED <<inst, here, told, broken, target, watched, spect, mode, shut, down, moves, watcher>>

\* ... and the instance goes, unless somebody has joined it since.
RemoveInst(i) ==
    /\ ending[i].on /\ ending[i].todo = {}
    /\ \A c \in Client : moving[c] # NotMoving => moving[c].by # "endgame"
    /\ down' = IF here[i] = {} THEN down \cup {i} ELSE down
    /\ ending' = [ending EXCEPT ![i] = NotEnding]
    /\ UNCHANGED <<inst, here, told, broken, target, watched, spect, moving, mode, shut, moves, watcher>>

\* startGame moves the players its queue had.
Ferried(c, r) == r \in RoundInst /\ StartMove(c, "starter", r)

\* A connection closes; its cleanup waits for a move in flight.
Shut(c) ==
    /\ c \notin shut
    /\ shut' = shut \cup {c}
    /\ UNCHANGED <<inst, here, told, broken, target, watched, spect, moving, mode, down, ending, moves, watcher>>

CloseSpectator(c, panics) ==
    /\ c \in shut /\ inst[c] # Nowhere /\ moving[c] = NotMoving
    /\ Fires(c, inst[c], panics, FALSE)
    /\ here' = [here EXCEPT ![inst[c]] = @ \ {c}]
    /\ inst' = [inst EXCEPT ![c] = Nowhere]
    /\ UNCHANGED <<target, watched, spect, moving, mode, shut, down, ending, moves, watcher>>

SpectNext ==
    \/ \E c \in Client :
        \/ \E P \in SUBSET Hook : LeaveInst(c, P) \/ JoinHooks(c, P) \/ CloseSpectator(c, P)
        \/ Switch(c) \/ JoinList(c)
        \/ \E i \in Insts : Go(c, i) \/ Spectate(c, i) \/ Ferried(c, i)
        \/ SpectateMove(c) \/ SpectateFails(c) \/ SpectateNote(c)
        \/ \E i \in ArenaInst : SendOff(i, c)
        \/ Shut(c)
    \/ \E i \in ArenaInst : EndWatchedGame(i) \/ RemoveInst(i)

SpectSpec == SpectInit /\ [][SpectNext]_spectVars

----------------------------------------------------------------------------
SpectTypeOK ==
    /\ inst \in [Client -> Insts \cup {Nowhere}]
    /\ here \in [Insts -> SUBSET Client] /\ told \in [Hook -> [Insts -> SUBSET Client]]
    /\ broken \subseteq Hook
    /\ target \in [Client -> Insts \cup {Nowhere}] /\ watched \in [Client -> Insts \cup {Nowhere}]
    /\ \A c \in Client : /\ spect[c].at \in {"rest", "move", "moving", "note"}
                         /\ moving[c].at \in {"free", "leave", "left", "join", "hooks"}
    /\ mode \in [Client -> {"adventure", "spectator"}]
    /\ shut \subseteq Client /\ down \subseteq Insts

AtPeace(c) == moving[c] = NotMoving /\ spect[c] = NotInSpectate

\* "The game's join and leave hooks don't fire for a watcher" (spectate.go:14), and
\* for everybody else they do: between moves a game, and every plugin that has not
\* failed itself, counts in an instance the connections there that don't watch,
\* and no other, however moves, endings, watching and disconnects fell together.
GameKnowsItsPlayers ==
    \A h \in Hook \ broken, i \in Insts \ down, c \in Client :
        AtPeace(c) =>
            (c \in told[h][i] <=> c \in here[i] \ watcher)
=============================================================================
