----------------------------- MODULE WorldSync -----------------------------
(***************************************************************************)
(* One instance's world and what its clients show of it.                   *)
(*                                                                         *)
(* Read loops, the tick loop and games change the world from their own     *)
(* goroutines (Writer): Instance.SetBlock and SetBlocks write the world    *)
(* under its lock, block by block, and only then broadcast what they wrote.*)
(* A client gets the world as Chunk Data, baked by the instance's          *)
(* chunkCache from the columns changed since the last bake, and then as    *)
(* block updates once it is in Instance.Players.  MovePlayer closes the    *)
(* gap between the two by buffering every broadcast for the client         *)
(* (blockStreams); the login and a respawn have no such buffer.            *)
(*                                                                         *)
(* A client's outbound queue keeps the order of the writes, so view[c] is  *)
(* what c shows once its queue has drained.                                *)
(***************************************************************************)
EXTENDS Naturals, Sequences

CONSTANTS
    Pos,         \* block positions
    Block,       \* block states, air among them
    Column,      \* chunk columns
    ColumnOf,    \* position -> its column
    Section,     \* 16x16x16 sections
    SectionOf,   \* position -> its section
    Client, Writer,
    Jobs,        \* the change lists a writer may be asked for
    MaxVersion,  \* no new change list once the world has this version (a bound)
    None

ASSUME MapAssumption ==
    /\ ColumnOf \in [Pos -> Column] /\ SectionOf \in [Pos -> Section]
    /\ MaxVersion \in Nat
    /\ None \notin Block \cup Client

Change == [pos : Pos, block : Block]

ASSUME JobsAssumption == Jobs \subseteq Seq(Change) \ {<<>>}

VARIABLES
    world,       \* position -> block
    version,     \* the world's change counter
    colVersion,  \* column -> the version of its last change
    todo,        \* writer -> the changes it has yet to make
    owed,        \* writer -> position -> what it wrote and has not broadcast
    contested,   \* positions two writers held unannounced at once (history)
    cache,       \* chunkCache: built, version and the baked blocks
    baker,       \* the holder of chunkCache.mu, the version it read, its dirty columns
    load,        \* client -> where it is in getting the world, and by what
    frames,      \* client -> the baked blocks it is about to queue
    view,        \* client -> position -> what it shows
    players,     \* Instance.Players
    streams,     \* the clients blockStreams buffers for ...
    buffer       \* ... and, per position, the last update buffered

worldVars == <<world, version, colVersion>>
writerVars == <<todo, owed, contested>>
cacheVars == <<cache, baker>>
clientVars == <<load, frames, view, players, streams, buffer>>
vars == <<world, version, colVersion, todo, owed, contested, cache, baker,
          load, frames, view, players, streams, buffer>>

Nothing == [p \in Pos |-> None]
Picture == [Pos -> Block \cup {None}]
NoBaker == [by |-> None, v |-> 0, dirty |-> {}]
Out == [pc |-> "out", by |-> "move"]

LoadPc == {"out", "frames", "dirty", "bake", "send", "join", "replay", "in"}

TypeOK ==
    /\ world \in [Pos -> Block]
    /\ version \in Nat
    /\ colVersion \in [Column -> Nat]
    /\ todo \in [Writer -> Seq(Change)]
    /\ owed \in [Writer -> Picture]
    /\ contested \subseteq Pos
    /\ cache \in [built : BOOLEAN, version : Nat, blocks : Picture]
    /\ baker \in [by : Client \cup {None}, v : Nat, dirty : SUBSET Column]
    /\ load \in [Client -> [pc : LoadPc, by : {"move", "login", "respawn"}]]
    /\ frames \in [Client -> Picture]
    /\ view \in [Client -> Picture]
    /\ players \subseteq Client
    /\ streams \subseteq Client
    /\ buffer \in [Client -> Picture]

Init ==
    /\ world \in [Pos -> Block]
    /\ version = 0 /\ colVersion = [k \in Column |-> 0]
    /\ todo = [w \in Writer |-> <<>>]
    /\ owed = [w \in Writer |-> Nothing]
    /\ contested = {}
    /\ cache = [built |-> FALSE, version |-> 0, blocks |-> Nothing]
    /\ baker = NoBaker
    /\ load = [c \in Client |-> Out]
    /\ frames = [c \in Client |-> Nothing]
    /\ view = [c \in Client |-> Nothing]
    /\ players = {} /\ streams = {}
    /\ buffer = [c \in Client |-> Nothing]

-----------------------------------------------------------------------------
(* Writers. *)

\* `new` over `old`: absolute updates, position by position.
Over(new, old) == [p \in Pos |-> IF new[p] # None THEN new[p] ELSE old[p]]

Owes(w, p) == owed[w][p] # None
Pending(p) == \E w \in Writer : Owes(w, p)

\* World.SetBlock, under the world's lock: nothing is touched when the block
\* is what it was.
WorldSetBlock(p, b) ==
    IF world[p] = b
    THEN UNCHANGED worldVars
    ELSE /\ world' = [world EXCEPT ![p] = b]
         /\ version' = version + 1
         /\ colVersion' = [colVersion EXCEPT ![ColumnOf[p]] = version + 1]

\* The first of `changes` is made; the broadcast waits for the last one, and
\* the later of two changes to a position is the one it carries.
MakeChange(w, changes) ==
    LET p == Head(changes).pos
        b == Head(changes).block
    IN  /\ WorldSetBlock(p, b)
        /\ todo' = [todo EXCEPT ![w] = Tail(changes)]
        /\ owed' = [owed EXCEPT ![w][p] = b]
        /\ contested' = IF \E o \in Writer \ {w} : Owes(o, p)
                        THEN contested \cup {p} ELSE contested \ {p}
        /\ UNCHANGED <<cacheVars, clientVars>>

\* Instance.SetBlock (one change) or SetBlocks.
SetBlocks(w) ==
    /\ todo[w] = <<>> /\ owed[w] = Nothing
    /\ version < MaxVersion
    /\ \E job \in Jobs : MakeChange(w, job)

NextChange(w) == todo[w] # <<>> /\ MakeChange(w, todo[w])

\* What the packet for section s carries.
SectionPayload(w, s) == [p \in Pos |-> IF SectionOf[p] = s THEN owed[w][p] ELSE None]

\* The joiners' buffers are forgotten: only who is in Players is told.
BugBroadcastBlocks(w, s) ==
    /\ todo[w] = <<>>
    /\ \E p \in Pos : SectionOf[p] = s /\ Owes(w, p)
    /\ view' = [c \in Client |-> IF c \in players THEN Over(SectionPayload(w, s), view[c])
                                 ELSE view[c]]
    /\ owed' = [owed EXCEPT ![w] = [p \in Pos |-> IF SectionOf[p] = s THEN None ELSE @[p]]]
    /\ UNCHANGED <<worldVars, todo, contested, cacheVars, load, frames, players, streams, buffer>>

\* broadcastBlocks, under streams.mu: to everyone in Players and into every
\* buffer.  (Sections go out in a sorted order; any order here.)
BroadcastBlocks(w, s) ==
    /\ todo[w] = <<>>
    /\ \E p \in Pos : SectionOf[p] = s /\ Owes(w, p)
    /\ LET sent == SectionPayload(w, s)
       IN  /\ view' = [c \in Client |-> IF c \in players THEN Over(sent, view[c]) ELSE view[c]]
           /\ buffer' = [c \in Client |-> IF c \in streams THEN Over(sent, buffer[c])
                                          ELSE buffer[c]]
    /\ owed' = [owed EXCEPT ![w] = [p \in Pos |-> IF SectionOf[p] = s THEN None ELSE @[p]]]
    /\ UNCHANGED <<worldVars, todo, contested, cacheVars, load, frames, players, streams>>

-----------------------------------------------------------------------------
(* Clients getting the world. *)

At(c, pc) == load[c].pc = pc
Go(c, pc) == load' = [load EXCEPT ![c].pc = pc]

\* moveLocked: the Respawn is out, then beginStream.
BeginStream(c) ==
    /\ At(c, "out")
    /\ load' = [load EXCEPT ![c] = [pc |-> "frames", by |-> "move"]]
    /\ streams' = streams \cup {c}
    /\ buffer' = [buffer EXCEPT ![c] = Nothing]
    /\ UNCHANGED <<worldVars, writerVars, cacheVars, frames, view, players>>

\* sendPlayPackets of a login: no stream.
LoginPlay(c) ==
    /\ At(c, "out")
    /\ load' = [load EXCEPT ![c] = [pc |-> "frames", by |-> "login"]]
    /\ UNCHANGED <<worldVars, writerVars, cacheVars, frames, view, players, streams, buffer>>

\* resyncView after a death: the Respawn clears the view, and the client,
\* still in Players, gets the world again: no stream either.
ResyncView(c) ==
    /\ At(c, "in")
    /\ load' = [load EXCEPT ![c] = [pc |-> "frames", by |-> "respawn"]]
    /\ view' = [view EXCEPT ![c] = Nothing]
    /\ UNCHANGED <<worldVars, writerVars, cacheVars, frames, players, streams, buffer>>

\* chunkCache.frames takes cc.mu and reads the version: the cache still
\* stands ...
CacheHit(c) ==
    /\ At(c, "frames") /\ baker.by = None
    /\ cache.built /\ cache.version = version
    /\ frames' = [frames EXCEPT ![c] = cache.blocks]
    /\ Go(c, "send")
    /\ UNCHANGED <<worldVars, writerVars, cacheVars, view, players, streams, buffer>>

\* ... or has to be baked ...
CacheMiss(c) ==
    /\ At(c, "frames") /\ baker.by = None
    /\ ~ (cache.built /\ cache.version = version)
    /\ baker' = [by |-> c, v |-> version, dirty |-> {}]
    /\ Go(c, "dirty")
    /\ UNCHANGED <<worldVars, writerVars, cache, frames, view, players, streams, buffer>>

\* ... from the columns changed since (all of them the first time) ...
ChangedSince(c) ==
    /\ At(c, "dirty")
    /\ baker' = [baker EXCEPT !.dirty =
                   IF cache.built THEN {k \in Column : colVersion[k] > cache.version} ELSE Column]
    /\ Go(c, "bake")
    /\ UNCHANGED <<worldVars, writerVars, cache, frames, view, players, streams, buffer>>

\* ... under the world's read lock, filed under the version read first.
Rebake(c) ==
    LET baked == [p \in Pos |-> IF ColumnOf[p] \in baker.dirty THEN world[p] ELSE cache.blocks[p]]
    IN  /\ At(c, "bake")
        /\ cache' = [built |-> TRUE, version |-> baker.v, blocks |-> baked]
        /\ frames' = [frames EXCEPT ![c] = baked]
        /\ baker' = NoBaker
        /\ Go(c, "send")
        /\ UNCHANGED <<worldVars, writerVars, view, players, streams, buffer>>

\* sendWorldChunks queues the frames; a respawn is then done.
SendWorldChunks(c) ==
    /\ At(c, "send")
    /\ view' = [view EXCEPT ![c] = frames[c]]
    /\ frames' = [frames EXCEPT ![c] = Nothing]
    /\ Go(c, IF load[c].by = "respawn" THEN "in" ELSE "join")
    /\ UNCHANGED <<worldVars, writerVars, cacheVars, players, streams, buffer>>

\* JoinAndAnnounce puts the client into Players; a login is then done.
JoinAndAnnounce(c) ==
    /\ At(c, "join")
    /\ players' = players \cup {c}
    /\ Go(c, IF load[c].by = "move" THEN "replay" ELSE "in")
    /\ UNCHANGED <<worldVars, writerVars, cacheVars, frames, view, streams, buffer>>

\* endStream: the buffer is replayed in order, the last update of a position
\* being what it shows, and buffering stops, all under streams.mu.
EndStream(c) ==
    /\ At(c, "replay")
    /\ Go(c, "in")
    /\ view' = [view EXCEPT ![c] = Over(buffer[c], @)]
    /\ streams' = streams \ {c}
    /\ buffer' = [buffer EXCEPT ![c] = Nothing]
    /\ UNCHANGED <<worldVars, writerVars, cacheVars, frames, players>>

Gone(c) ==
    /\ load' = [load EXCEPT ![c] = Out]
    /\ frames' = [frames EXCEPT ![c] = Nothing]
    /\ view' = [view EXCEPT ![c] = Nothing]

\* A write failed, or the instance refused the join: dropStream.
MoveFails(c) ==
    /\ load[c].pc \in {"send", "join"} /\ load[c].by # "respawn"
    /\ Gone(c)
    /\ streams' = streams \ {c}
    /\ buffer' = [buffer EXCEPT ![c] = Nothing]
    /\ UNCHANGED <<worldVars, writerVars, cacheVars, players>>

\* Off to another instance, or disconnected.
Leave(c) ==
    /\ At(c, "in")
    /\ Gone(c)
    /\ players' = players \ {c}
    /\ UNCHANGED <<worldVars, writerVars, cacheVars, streams, buffer>>

-----------------------------------------------------------------------------

Write(w) == SetBlocks(w) \/ NextChange(w) \/ \E s \in Section : BroadcastBlocks(w, s)

Bake(c) == CacheHit(c) \/ CacheMiss(c) \/ ChangedSince(c) \/ Rebake(c)

Load(c) ==
    \/ BeginStream(c) \/ LoginPlay(c) \/ ResyncView(c)
    \/ Bake(c) \/ SendWorldChunks(c) \/ JoinAndAnnounce(c)
    \/ EndStream(c) \/ MoveFails(c) \/ Leave(c)

Next == (\E w \in Writer : Write(w)) \/ (\E c \in Client : Load(c))

Spec == Init /\ [][Next]_vars

-----------------------------------------------------------------------------
(* Properties. *)

\* The chunk cache is exact for every column not changed after the version it
\* is filed under: whatever lands while a bake runs is baked again, never
\* missed.
CacheExact ==
    cache.built => \A p \in Pos : colVersion[ColumnOf[p]] <= cache.version
                                    => cache.blocks[p] = world[p]

\* What c will show of p is the world's block; or a broadcast of p is still
\* to come; or two writers raced on p.
InStepAt(p, b) == b = world[p] \/ Pending(p) \/ p \in contested

\* A client MovePlayer brought in shows the world: no change made while it
\* was being streamed is lost.
MoverInStep ==
    \A c \in Client : At(c, "in") /\ load[c].by = "move"
        => \A p \in Pos : InStepAt(p, view[c][p])

\* No buffer outlives the move it was opened for.
NoStreamLeft ==
    \A c \in streams : load[c].by = "move"
        /\ load[c].pc \in {"frames", "dirty", "bake", "send", "join", "replay"}

\* The same of a client whose view was rebuilt after a death: resyncView's
\* comment offers it as the way to recover a client out of step.
RespawnInStep ==
    \A c \in Client : At(c, "in") /\ load[c].by = "respawn"
        => \A p \in Pos : InStepAt(p, view[c][p])

-----------------------------------------------------------------------------
(* The inductive invariant. *)

VersionsGrow == \A k \in Column : colVersion[k] <= version

\* The baker has the lock, and baked blocks are whole.
BakerHasLock ==
    /\ \A c \in Client : load[c].pc \in {"dirty", "bake"} <=> baker.by = c
    /\ baker.by # None => baker.v <= version
    /\ cache.version <= version
    /\ baker.by # None /\ cache.built => cache.version <= baker.v

\* What a bake in progress leaves alone is exact up to the version it read.
CleanIsExact ==
    \A c \in Client : At(c, "bake") =>
        \A p \in Pos : ColumnOf[p] \notin baker.dirty /\ colVersion[ColumnOf[p]] <= baker.v
                        => cache.built /\ cache.blocks[p] = world[p]

\* What is buffered is the world's block, or will be superseded.
BufferInStep ==
    \A c \in streams, p \in Pos : buffer[c][p] # None => InStepAt(p, buffer[c][p])

\* What a mover will show of p when it is in: the buffer over what it has.
Ahead(c, has) == Over(buffer[c], has)

MoverAhead ==
    \A c \in Client : load[c].by = "move" =>
        \A p \in Pos :
            /\ At(c, "bake") /\ ColumnOf[p] \notin baker.dirty
                => cache.built /\ InStepAt(p, Ahead(c, cache.blocks)[p])
            /\ At(c, "send") => InStepAt(p, Ahead(c, frames[c])[p])
            /\ load[c].pc \in {"join", "replay"} => InStepAt(p, Ahead(c, view[c])[p])

\* A move has its stream, and its client is in Players from the join on; a
\* respawn never left it.
MoverHasStream ==
    \A c \in Client :
        /\ load[c].by = "move" /\ load[c].pc \notin {"out", "in"} => c \in streams
        /\ load[c].pc \in {"replay", "in"} \/ load[c].by = "respawn" => c \in players

\* What a writer owes is what the world has, unless somebody raced it.
OwedIsWorld ==
    \A w \in Writer, p \in Pos : Owes(w, p) => owed[w][p] = world[p] \/ p \in contested

SyncInv == /\ TypeOK /\ CacheExact /\ MoverInStep /\ NoStreamLeft
           /\ OwedIsWorld /\ VersionsGrow /\ BakerHasLock /\ CleanIsExact /\ BufferInStep
           /\ MoverAhead /\ MoverHasStream
=============================================================================
