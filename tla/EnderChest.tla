----------------------------- MODULE EnderChest -----------------------------
(***************************************************************************)
(* Ender chests and their background saver (server/gameplay/enderchest,    *)
(* server/chest.go, the ender part of server/shutdown.go) over the         *)
(* FileStore: chests are loaded on first use, a click marks its chest, and *)
(* goroutines started a second later, or by the shutdown, write what is    *)
(* marked.  Writes and loads may fail, and the process may die anywhere.   *)
(*                                                                         *)
(* A chest's contents are the number of the edit that made them.  Encode   *)
(* and Decode are each other's inverse on what a chest can hold.           *)
(***************************************************************************)
EXTENDS Integers

CONSTANTS
    Owner,       \* players' UUIDs
    Flusher,     \* goroutines that may flush at a time
    MaxChestEdits     \* bound: edits of one chest, over every run of the server

VARIABLES
    ender,       \* Chests.m: the contents of the loaded chests
    clicked,     \* players between a click's edit and its mark
    marked,     \* Saver.pending
    running,     \* Saver.running: a flush is scheduled
    flush,       \* each goroutine in Flush: its step, batch, chest and snapshot
    stored,      \* FileStore.data
    file,        \* the file behind it
    unwritten,   \* history: chests whose last write failed
    chestEdits,       \* history: the edits made to each chest
    phase        \* of the process: "up", "stopping" (Shutdown is flushing), "down"

enderVars == <<ender, clicked, marked, running, flush, stored, file, unwritten,
               chestEdits, phase>>

ASSUME EnderAssumption == MaxChestEdits \in Nat

NotLoaded == -1
EmptyChest == 0
NotFlushing == [at |-> "rest", batch |-> {}]

EnderInit ==
    /\ ender = [p \in Owner |-> NotLoaded]
    /\ clicked = {} /\ marked = {} /\ running = FALSE
    /\ flush = [f \in Flusher |-> NotFlushing]
    /\ stored = [p \in Owner |-> 1] /\ file = stored
    /\ unwritten = {}
    /\ chestEdits = [p \in Owner |-> 1]
    /\ phase = "up"

\* Chests.For: a chest that cannot be loaded is not kept, and not opened.
LoadChest(p, ok) ==
    /\ phase # "down" /\ ender[p] = NotLoaded
    /\ ender' = IF ok THEN [ender EXCEPT ![p] = stored[p]] ELSE ender
    /\ UNCHANGED <<clicked, marked, running, flush, stored, file, unwritten, chestEdits, phase>>

\* A click in the window, which changes the chest or does not, ...
EditChest(p, changes) ==
    /\ phase # "down" /\ ender[p] # NotLoaded /\ p \notin clicked
    /\ changes => chestEdits[p] < MaxChestEdits
    /\ chestEdits' = IF changes THEN [chestEdits EXCEPT ![p] = @ + 1] ELSE chestEdits
    /\ ender' = IF changes THEN [ender EXCEPT ![p] = chestEdits'[p]] ELSE ender
    /\ clicked' = clicked \cup {p}
    /\ UNCHANGED <<marked, running, flush, stored, file, unwritten, phase>>

\* ... and the mark after it.
MarkChest(p) ==
    /\ p \in clicked
    /\ clicked' = clicked \ {p}
    /\ marked' = marked \cup {p}
    /\ running' = TRUE
    /\ UNCHANGED <<ender, flush, stored, file, unwritten, chestEdits, phase>>

\* The timer's goroutine: another flush may be scheduled from here on.
FlushScheduled(f) ==
    /\ running /\ flush[f] = NotFlushing
    /\ running' = FALSE
    /\ flush' = [flush EXCEPT ![f].at = "wait"]
    /\ UNCHANGED <<ender, clicked, marked, stored, file, unwritten, chestEdits, phase>>

\* Shutdown flushes too, once the players are kicked or five seconds are over.
ShutdownFlush(f) ==
    /\ phase = "up" /\ flush[f] = NotFlushing
    /\ phase' = "stopping"
    /\ flush' = [flush EXCEPT ![f].at = "wait"]
    /\ UNCHANGED <<ender, clicked, marked, running, stored, file, unwritten, chestEdits>>

\* Flush: one at a time under flushMu, it takes all that is marked, ...
Flushing(f) == flush[f].at \in {"read", "write"}
BugFlushTake(f) ==
    /\ flush[f].at = "wait"
    /\ flush' = [flush EXCEPT ![f] = [at |-> "read", batch |-> marked]]
    /\ marked' = {}
    /\ UNCHANGED <<ender, clicked, running, stored, file, unwritten, chestEdits, phase>>
FlushTake(f) ==
    /\ flush[f].at = "wait" /\ \A g \in Flusher : ~Flushing(g)
    /\ flush' = [flush EXCEPT ![f] = [at |-> "read", batch |-> marked]]
    /\ marked' = {}
    /\ UNCHANGED <<ender, clicked, running, stored, file, unwritten, chestEdits, phase>>

\* ... reads one chest's contents, ...
SaveRead(f, p) ==
    /\ flush[f].at = "read" /\ p \in flush[f].batch
    /\ flush' = [flush EXCEPT ![f] =
                    [at |-> "write", batch |-> @.batch, chest |-> p, data |-> ender[p]]]
    /\ UNCHANGED <<ender, clicked, marked, running, stored, file, unwritten, chestEdits, phase>>

\* ... and writes them: the map always, the whole map's file unless it fails.  A
\* failed write is only logged.
SaveWrite(f, ok) ==
    LET p == flush[f].chest
    IN  /\ flush[f].at = "write"
        /\ stored' = [stored EXCEPT ![p] = flush[f].data]
        /\ file' = IF ok THEN stored' ELSE file
        /\ unwritten' = IF ok THEN {} ELSE unwritten \cup {p}
        /\ flush' = [flush EXCEPT ![f] = [at |-> "read", batch |-> @.batch \ {p}]]
        /\ UNCHANGED <<ender, clicked, marked, running, chestEdits, phase>>

FlushEnd(f) ==
    /\ flush[f].at = "read" /\ flush[f].batch = {}
    /\ flush' = [flush EXCEPT ![f] = NotFlushing]
    /\ UNCHANGED <<ender, clicked, marked, running, stored, file, unwritten, chestEdits, phase>>

\* The process ends, after the shutdown or by a crash: what is in memory is gone.
\* The file is replaced by a rename, so it is a whole map at any time.
ProcessEnds ==
    /\ phase # "down"
    /\ phase' = "down"
    /\ clicked' = {} /\ marked' = {} /\ running' = FALSE
    /\ ender' = [p \in Owner |-> NotLoaded]
    /\ flush' = [f \in Flusher |-> NotFlushing]
    /\ UNCHANGED <<stored, file, unwritten, chestEdits>>

\* NewFileStore.
ProcessStarts ==
    /\ phase = "down"
    /\ phase' = "up"
    /\ stored' = file /\ unwritten' = {}
    /\ UNCHANGED <<ender, clicked, marked, running, flush, file, chestEdits>>

EnderNext ==
    \/ \E p \in Owner : \/ \E b \in BOOLEAN : LoadChest(p, b) \/ EditChest(p, b)
                        \/ MarkChest(p)
                        \/ \E f \in Flusher : SaveRead(f, p)
    \/ \E f \in Flusher :
        \/ FlushScheduled(f) \/ ShutdownFlush(f) \/ FlushTake(f) \/ FlushEnd(f)
        \/ \E ok \in BOOLEAN : SaveWrite(f, ok)
    \/ ProcessEnds
    \/ ProcessStarts

EnderSpec == EnderInit /\ [][EnderNext]_enderVars

----------------------------------------------------------------------------
EnderTypeOK ==
    /\ ender \in [Owner -> NotLoaded..MaxChestEdits]
    /\ clicked \subseteq Owner /\ marked \subseteq Owner /\ unwritten \subseteq Owner
    /\ running \in BOOLEAN
    /\ \A f \in Flusher : flush[f].at \in {"rest", "wait", "read", "write"}
                          /\ flush[f].batch \subseteq Owner
    /\ stored \in [Owner -> EmptyChest..MaxChestEdits] /\ file \in [Owner -> EmptyChest..MaxChestEdits]
    /\ chestEdits \in [Owner -> Nat]
    /\ phase \in {"up", "stopping", "down"}

\* However clicks, scheduled flushes, the shutdown's flush, failed loads and
\* writes, and crashes fall together, the file never goes back to older contents
\* of a chest: an older snapshot never lands last, and a chest that could not be
\* loaded never takes the place of the saved one (Saver.flushMu, Chest.unavailable).
NeverOlder == [][\A p \in Owner : file'[p] >= file[p]]_file

\* An edit is never forgotten by the saver: a chest that is not as the file has
\* it is marked, about to be, or being saved, unless its last write failed.
EditsReachTheFile ==
    \A p \in Owner :
        ender[p] \notin {NotLoaded, file[p]} =>
            \/ p \in clicked \cup marked \cup unwritten
            \/ \E f \in Flusher : p \in flush[f].batch
=============================================================================
