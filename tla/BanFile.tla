------------------------------ MODULE BanFile ------------------------------
(***************************************************************************)
(* Bans that survive a restart in a file: the ban list's FileStore (package *)
(* ban) and the IP guard's (IPGuard.Ban, Unban, RecordFail, Save, Load).   *)
(* Both change a map under its lock and then, in another step, rewrite the *)
(* file from a snapshot taken under saveMu.  Both read the file at the     *)
(* start.  Shift is how much later a time reads back than it was set: none *)
(* for the IP guard (RFC 3339); for the ban list, which writes wall-clock  *)
(* times and reads them as UTC, the server's UTC offset if the time is one *)
(* of this run's (local), none if it was read from the file (UTC) itself.  *)
(***************************************************************************)
EXTENDS Integers

CONSTANTS
    Culprit,      \* names, or address keys
    Moderator,    \* goroutines that ban and lift bans
    Terms,        \* how long bans are for
    Shift,        \* what a time read back from the file is late by
    LastHour      \* bound: the clock stops there

VARIABLES
    hour,         \* the time
    bans,         \* the map: when each ban ends (0: none), and if in local time
    banlist,      \* the file: when each ban ends once it is read
    keep,         \* each moderator in Save: "no", "due", or what it writes
    kept,         \* history: the last write of the file succeeded
    sentence      \* history: when the last order ends each ban, 0: lifted

banVars == <<hour, bans, banlist, keep, kept, sentence>>

ASSUME BanAssumption == Terms \subseteq Nat \ {0} /\ Shift \in Int /\ LastHour \in Nat

NotKeeping == [at |-> "no"]
NoBan == [until |-> 0, local |-> FALSE]
BanInit ==
    /\ hour = 1
    /\ bans = [n \in Culprit |-> NoBan]
    /\ banlist = [n \in Culprit |-> 0] /\ sentence = banlist
    /\ keep = [m \in Moderator |-> NotKeeping] /\ kept = TRUE

\* Add, Ban and RecordFail; Remove and Unban (which saves only if there was a ban).
Sentence(m, n, until) ==
    /\ keep[m] = NotKeeping
    /\ bans' = [bans EXCEPT ![n] =
                    IF until = 0 THEN NoBan ELSE [until |-> until, local |-> TRUE]]
    /\ sentence' = [sentence EXCEPT ![n] = until]
    /\ keep' = IF until = 0 /\ bans[n] = NoBan THEN keep
               ELSE [keep EXCEPT ![m] = [at |-> "due"]]
    /\ UNCHANGED <<hour, banlist, kept>>

\* Save: snapshot, temporary file and rename under saveMu; the write may fail.
Written(b) == IF b.local THEN b.until + Shift ELSE b.until
BugKeepSnapshot(m) ==
    /\ keep[m].at = "due"
    /\ keep' = [keep EXCEPT ![m] = [at |-> "write", bans |-> bans]]
    /\ UNCHANGED <<hour, bans, banlist, kept, sentence>>
KeepSnapshot(m) ==
    /\ keep[m].at = "due" /\ \A k \in Moderator : keep[k].at # "write"
    /\ keep' = [keep EXCEPT ![m] = [at |-> "write", bans |-> bans]]
    /\ UNCHANGED <<hour, bans, banlist, kept, sentence>>
KeepWrite(m, ok) ==
    /\ keep[m].at = "write"
    /\ banlist' = IF ok THEN [n \in Culprit |-> Written(keep[m].bans[n])] ELSE banlist
    /\ kept' = ok
    /\ keep' = [keep EXCEPT ![m] = NotKeeping]
    /\ UNCHANGED <<hour, bans, sentence>>

\* The process dies, at a time when no order is half saved, and starts again;
\* bans that are over are dropped, or do nothing.
BanRestart ==
    /\ kept /\ \A m \in Moderator : keep[m] = NotKeeping
    /\ bans' = [n \in Culprit |-> IF banlist[n] <= hour THEN NoBan
                                  ELSE [until |-> banlist[n], local |-> FALSE]]
    /\ UNCHANGED <<hour, banlist, keep, kept, sentence>>

BanTick ==
    /\ hour < LastHour
    /\ hour' = hour + 1
    /\ UNCHANGED <<bans, banlist, keep, kept, sentence>>

BanNext ==
    \/ \E m \in Moderator :
        \/ \E n \in Culprit : Sentence(m, n, 0) \/ \E d \in Terms : Sentence(m, n, hour + d)
        \/ KeepSnapshot(m)
        \/ \E ok \in BOOLEAN : KeepWrite(m, ok)
    \/ BanRestart
    \/ BanTick

BanSpec == BanInit /\ [][BanNext]_banVars

----------------------------------------------------------------------------
BanTypeOK ==
    /\ hour \in Nat /\ kept \in BOOLEAN
    /\ bans \in [Culprit -> [until : Int, local : BOOLEAN]] /\ banlist \in [Culprit -> Int]
    /\ \A m \in Moderator : keep[m].at \in {"no", "due", "write"}

\* What was ordered last of each name is in force, or over, in the map and, once
\* nobody is saving, in the file, whoever else orders and saves at the same time
\* and however often the server restarts.
BansLast ==
    /\ \A n \in Culprit : bans[n].until > hour <=> sentence[n] > hour
    /\ kept /\ (\A m \in Moderator : keep[m] = NotKeeping) =>
        \A n \in Culprit : banlist[n] > hour <=> sentence[n] > hour
=============================================================================
