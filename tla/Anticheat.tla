------------------------------ MODULE Anticheat ------------------------------
(***************************************************************************)
(* What the anticheat knows of an honest client and what it does to one    *)
(* it catches.                                                             *)
(*                                                                         *)
(* The teleports a client has not confirmed and the Pings it has not       *)
(* answered (src/anticheat/teleport.go, transaction.go,                    *)
(* src/server/anticheat.go, handler_play_player.go, move_validate.go).     *)
(* Each list is locked, but the packet goes out after the lock is given    *)
(* up, and the player is moved before the teleport is begun.  The reader   *)
(* of the player, the tick loop and the readers of others do both.  The    *)
(* client answers everything at once and in order; it walks in between.    *)
(* A place is the teleport that led there and the steps walked since: two  *)
(* places of different teleports are too far apart for one move.           *)
(*                                                                         *)
(* The ladder of punishments (src/anticheat/punish.go, store.go,           *)
(* report.go, src/server/anticheat_punish.go; the ban check of the login   *)
(* and the moderators' /ban, /unban and /ac reset).  A detection starts a  *)
(* goroutine that reads the player's status, adds the ban if the step has  *)
(* one, appends the record and kicks; the session may be gone before it is *)
(* done, and the player back in another session.  No lock spans the steps. *)
(* Every answer of a store may be an error.  The log is the FileStore:     *)
(* memory first, then the file.  The ban list is taken to be as durable as *)
(* its Add reports (BanFile has the details).                              *)
(***************************************************************************)
EXTENDS Integers, Sequences, FiniteSetsExt

CONSTANTS Teleporters,      \* goroutines that teleport the player
          Pushers,          \* goroutines that push or ping it
          MaxPendingTeleports, MaxOutstanding,
          MaxWatchEvents,        \* bound on what the server sends of its own accord
          MaxStrides        \* bound on the client's steps

ASSUME WatchAssumption ==
    /\ MaxPendingTeleports \in Nat \ {0} /\ {MaxOutstanding, MaxWatchEvents, MaxStrides} \subseteq Nat

Reader == "reader"
WatchHand == Teleporters \cup Pushers \cup {Reader}

VARIABLES serverAt,     \* player.Player's position
          clientAt,     \* where the client stands
          teleports,    \* Teleports: [next, pending]
          pings,        \* Transactions: [next, pending]
          handOf,       \* what each goroutine is in the middle of
          toView, toWatch,    \* the wire in either direction
          felt,         \* the pushes the client has processed
          settled,      \* the pushes marked as applied by the client
          flagged,        \* what an honest client has been flagged for
          givenUp,     \* kicked for MaxOutstanding unanswered Pings
          watchEvents, strides     \* bounds

watchVars == <<serverAt, clientAt, teleports, pings, handOf, toView, toWatch, felt, settled,
               flagged, givenUp, watchEvents, strides>>

Spot(era, step) == [era |-> era, step |-> step]
Start == Spot(0, 0)
Message(kind, id, spot) == [kind |-> kind, id |-> id, spot |-> spot]
Job(at, id, spot) == [at |-> at, id |-> id, spot |-> spot]
NoTeleport == Job("idle", 0, Start)
Doing(t, at) == handOf[t].at = at
TurnTo(t, job) == handOf' = [handOf EXCEPT ![t] = job]

WatchInit ==
    /\ serverAt = Start /\ clientAt = Start
    /\ teleports = [next |-> 0, pending |-> <<>>]
    /\ pings = [next |-> 0, pending |-> <<>>]
    /\ handOf = [t \in WatchHand |-> NoTeleport]
    /\ toView = <<>> /\ toWatch = <<>>
    /\ felt = {} /\ settled = {}
    /\ flagged = {} /\ givenUp = FALSE
    /\ watchEvents = 0 /\ strides = 0

-----------------------------------------------------------------------------
(* Teleports.                                                              *)

\* Teleport, Respawn, moveLocked: the player is moved, then told.
TeleportPlayer(t) ==
    /\ t \in Teleporters /\ Doing(t, "idle") /\ watchEvents < MaxWatchEvents
    /\ watchEvents' = watchEvents + 1
    /\ serverAt' = Spot(watchEvents + 1, 0)
    /\ TurnTo(t, Job("begin", 0, Spot(watchEvents + 1, 0)))
    /\ UNCHANGED <<clientAt, teleports, pings, toView, toWatch, felt, settled, flagged,
                   givenUp, strides>>

\* Teleports.begin: a full list loses its oldest.
BeginTeleport(t) ==
    LET full == Len(teleports.pending) >= MaxPendingTeleports
        kept == IF full THEN Tail(teleports.pending) ELSE teleports.pending
        id == teleports.next + 1
    IN  /\ Doing(t, "begin")
        /\ teleports' = [next |-> id, pending |-> Append(kept, id)]
        /\ TurnTo(t, Job("sync", id, handOf[t].spot))
        /\ UNCHANGED <<serverAt, clientAt, pings, toView, toWatch, felt, settled, flagged,
                       givenUp, watchEvents, strides>>

\* A mutant: any confirm settles everything.
BugRemaining(pending, i) == <<>>
\* Teleports.Confirm: it settles every older one too.
Remaining(pending, i) == SubSeq(pending, i + 1, Len(pending))

\* onTeleportConfirm: an id that is not pending is a forgery.
TakeConfirm ==
    LET id == Head(toWatch).id
    IN  /\ Doing(Reader, "idle") /\ toWatch # <<>> /\ Head(toWatch).kind = "confirm"
        /\ toWatch' = Tail(toWatch)
        /\ \/ \E i \in DOMAIN teleports.pending :
                 /\ teleports.pending[i] = id
                 /\ teleports' = [teleports EXCEPT !.pending = Remaining(@, i)]
                 /\ UNCHANGED flagged
           \/ /\ \A i \in DOMAIN teleports.pending : teleports.pending[i] # id
              /\ flagged' = flagged \cup {"badpackets.teleport"}
              /\ UNCHANGED teleports
        /\ UNCHANGED <<serverAt, clientAt, pings, handOf, toView, felt, settled, givenUp,
                       watchEvents, strides>>

-----------------------------------------------------------------------------
(* Moves, on the player's reader.                                          *)

\* onMove: a move is dropped while a teleport waits for its confirm.
TakeMove ==
    /\ Doing(Reader, "idle") /\ toWatch # <<>> /\ Head(toWatch).kind = "move"
    /\ toWatch' = Tail(toWatch)
    /\ IF teleports.pending # <<>> THEN UNCHANGED handOf
       ELSE TurnTo(Reader, Job("judge", 0, Head(toWatch).spot))
    /\ UNCHANGED <<serverAt, clientAt, teleports, pings, toView, felt, settled, flagged,
                   givenUp, watchEvents, strides>>

\* acceptMove: one too far from where the player is leads to a setback there.
JudgeMove ==
    /\ Doing(Reader, "judge")
    /\ TurnTo(Reader, IF handOf[Reader].spot.era = serverAt.era
                      THEN [handOf[Reader] EXCEPT !.at = "apply"]
                      ELSE Job("begin", 0, serverAt))
    /\ UNCHANGED <<serverAt, clientAt, teleports, pings, toView, toWatch, felt, settled,
                   flagged, givenUp, watchEvents, strides>>

ApplyMove ==
    /\ Doing(Reader, "apply")
    /\ serverAt' = handOf[Reader].spot
    /\ TurnTo(Reader, NoTeleport)
    /\ UNCHANGED <<clientAt, teleports, pings, toView, toWatch, felt, settled, flagged,
                   givenUp, watchEvents, strides>>

-----------------------------------------------------------------------------
(* Pings.                                                                  *)

\* A push: its velocity packet goes out before its Ping is begun
\* (applyKnockback, explode, arrowHit; giveVelocity).
PushPlayer(t) ==
    /\ t \in Pushers /\ Doing(t, "idle") /\ watchEvents < MaxWatchEvents
    /\ watchEvents' = watchEvents + 1
    /\ toView' = Append(toView, Message("push", watchEvents + 1, Start))
    /\ TurnTo(t, Job("number", watchEvents + 1, Start))
    /\ UNCHANGED <<serverAt, clientAt, teleports, pings, toWatch, felt, settled, flagged,
                   givenUp, strides>>

\* anticheatTick with TickTransactions: a Ping that nothing hangs on (push 0).
TickPing(t) ==
    /\ t = "loop" /\ Doing(t, "idle") /\ watchEvents < MaxWatchEvents
    /\ watchEvents' = watchEvents + 1
    /\ TurnTo(t, Job("number", 0, Start))
    /\ UNCHANGED <<serverAt, clientAt, teleports, pings, toView, toWatch, felt, settled, flagged,
                   givenUp, strides>>

\* sendTransaction, Transactions.Begin.
NumberPing(t) ==
    /\ Doing(t, "number")
    /\ \/ /\ Len(pings.pending) >= MaxOutstanding
          /\ givenUp' = TRUE
          /\ TurnTo(t, NoTeleport)
          /\ UNCHANGED pings
       \/ /\ Len(pings.pending) < MaxOutstanding
          /\ pings' = [next |-> pings.next + 1,
                       pending |-> Append(pings.pending,
                                          [id |-> pings.next + 1, push |-> handOf[t].id])]
          /\ TurnTo(t, Job("ping", pings.next + 1, Start))
          /\ UNCHANGED givenUp
    /\ UNCHANGED <<serverAt, clientAt, teleports, toView, toWatch, felt, settled, flagged,
                   watchEvents, strides>>

\* Transactions.Confirm: the Pings a Pong answers, the oldest or none.
Answers(id, pending) ==
    {pending[i] : i \in {j \in DOMAIN pending : j = 1 /\ pending[j].id = id}}

\* onPong: one that is unknown or skips an older Ping is flagged and settles nothing.
TakePong ==
    LET done == Answers(Head(toWatch).id, pings.pending)
    IN  /\ Doing(Reader, "idle") /\ toWatch # <<>> /\ Head(toWatch).kind = "pong"
        /\ toWatch' = Tail(toWatch)
        /\ pings' = [pings EXCEPT !.pending = SelectSeq(@, LAMBDA p : p \notin done)]
        /\ settled' = settled \cup ({p.push : p \in done} \ {0})
        /\ flagged' = IF done = {} THEN flagged \cup {"badpackets.transaction"} ELSE flagged
        /\ UNCHANGED <<serverAt, clientAt, teleports, handOf, toView, felt, givenUp,
                       watchEvents, strides>>

\* safeWrite of the packet a goroutine holds.
PutOut(t) ==
    /\ handOf[t].at \in {"sync", "ping"}
    /\ toView' = Append(toView, Message(handOf[t].at, handOf[t].id, handOf[t].spot))
    /\ TurnTo(t, NoTeleport)
    /\ UNCHANGED <<serverAt, clientAt, teleports, pings, toWatch, felt, settled, flagged,
                   givenUp, watchEvents, strides>>

-----------------------------------------------------------------------------
(* The client: it takes packets in order and answers each at once.         *)

\* It follows a confirm with a move from the new place.
ClientTakes ==
    LET m == Head(toView)
    IN  /\ toView # <<>>
        /\ toView' = Tail(toView)
        /\ toWatch' = toWatch \o
             CASE m.kind = "sync" -> <<Message("confirm", m.id, Start), Message("move", 0, m.spot)>>
               [] m.kind = "ping" -> <<Message("pong", m.id, Start)>>
               [] m.kind = "push" -> <<>>
        /\ clientAt' = IF m.kind = "sync" THEN m.spot ELSE clientAt
        /\ felt' = IF m.kind = "push" THEN felt \cup {m.id} ELSE felt
        /\ UNCHANGED <<serverAt, teleports, pings, handOf, settled, flagged, givenUp, watchEvents,
                       strides>>

ClientWalks ==
    /\ strides < MaxStrides
    /\ strides' = strides + 1
    /\ clientAt' = [clientAt EXCEPT !.step = @ + 1]
    /\ toWatch' = Append(toWatch, Message("move", 0, clientAt'))
    /\ UNCHANGED <<serverAt, teleports, pings, handOf, toView, felt, settled, flagged,
                   givenUp, watchEvents>>

WatchNext ==
    \/ \E t \in WatchHand :
          \/ TeleportPlayer(t) \/ BeginTeleport(t) \/ PushPlayer(t) \/ TickPing(t)
          \/ NumberPing(t) \/ PutOut(t)
    \/ TakeConfirm \/ TakeMove \/ JudgeMove \/ ApplyMove \/ TakePong
    \/ ClientTakes \/ ClientWalks

WatchSpec == WatchInit /\ [][WatchNext]_watchVars

-----------------------------------------------------------------------------
WatchTypeOK ==
    /\ settled \subseteq 1..MaxWatchEvents /\ felt \subseteq 1..MaxWatchEvents
    /\ Len(teleports.pending) <= MaxPendingTeleports
    /\ Len(pings.pending) <= MaxOutstanding
    /\ flagged \subseteq {"badpackets.teleport", "badpackets.transaction"}
    /\ givenUp \in BOOLEAN

WatchQuiet == toView = <<>> /\ toWatch = <<>> /\ \A t \in WatchHand : Doing(t, "idle")

\* The movement budget of a push starts to shrink when the push is settled, and
\* movement packets count only while no teleport is pending.  In whatever order the
\* goroutines' packets reach the wire, a push is settled only after the client felt
\* it; while no more teleports are in flight than the list holds, no confirm is taken
\* for a forgery; and once everything sent has been answered no teleport is left
\* pending: the player is not frozen for good.
AnswersMeanSeen ==
    /\ settled \subseteq felt
    /\ "badpackets.teleport" \in flagged => teleports.next > MaxPendingTeleports
    /\ WatchQuiet => teleports.pending = <<>>

\* With all teleports on the player's own reader, no move of an honest client is
\* refused: what was sent before it saw a teleport is dropped, not judged.
HonestMoves == Doing(Reader, "judge") => handOf[Reader].spot.era = serverAt.era

\* acceptMove: "Packets sent before the client confirmed a server teleport never
\* get here".  The player is never put back to a place it was teleported away from.
NoWayBack == [][serverAt'.era >= serverAt.era]_watchVars

-----------------------------------------------------------------------------
(* The ladder of punishments, of one player. *)

CONSTANTS
    Visit,         \* the player's sessions, each used once
    MaxRecords,    \* bound: the log is no longer
    MaxCrashes     \* bound

Clean == 0
StatusMax == 5

\* Escalate: where a detection leads and whether it bans.
Escalate(s) == Min({s + 1, StatusMax})
StepBans(s) == s \in 1..4

VARIABLES
    visit,       \* each session: "out", "admitted" (past the ban check), "in", "gone"
    punisher,    \* each session's goroutine: its step, and the status it read
    resetter,    \* an operator's /ac reset: its step
    log, logFile,    \* records: who, the status left, whether it bans; and on disk
    banned,      \* the ban list has the player
    excused,     \* history: the sessions whose ban failed, ran out or was lifted
    crashes

ladderVars == <<visit, punisher, resetter, log, logFile, banned, excused, crashes>>

NotPunishing == [at |-> "idle", before |-> Clean]

LadderInit ==
    /\ visit = [v \in Visit |-> "out"]
    /\ punisher = [v \in Visit |-> NotPunishing] /\ resetter = "idle"
    /\ \E s \in Clean..StatusMax : log = <<[by |-> "earlier", after |-> s, bans |-> FALSE]>>
    /\ logFile = log
    /\ banned = FALSE /\ excused = {} /\ crashes = 0

StatusOf(records) == records[Len(records)].after

-----------------------------------------------------------------------------
(* Sessions.                                                               *)

\* handleLogin: a lookup that fails lets the player in.
AdmitLogin(v) ==
    /\ visit[v] = "out"
    /\ visit' = [visit EXCEPT ![v] = IF banned THEN "gone" ELSE "admitted"]
    /\ UNCHANGED <<punisher, resetter, log, logFile, banned, excused, crashes>>

AdmitAnyway(v) ==
    /\ visit[v] = "out" /\ banned
    /\ visit' = [visit EXCEPT ![v] = "admitted"]
    /\ UNCHANGED <<punisher, resetter, log, logFile, banned, excused, crashes>>

ComeIn(v) ==
    /\ visit[v] = "admitted"
    /\ visit' = [visit EXCEPT ![v] = "in"]
    /\ UNCHANGED <<punisher, resetter, log, logFile, banned, excused, crashes>>

GoAway(v) ==
    /\ visit[v] \in {"admitted", "in"}
    /\ visit' = [visit EXCEPT ![v] = "gone"]
    /\ UNCHANGED <<punisher, resetter, log, logFile, banned, excused, crashes>>

\* detect: the first detection of a session.
Detect(v) ==
    /\ visit[v] = "in" /\ punisher[v] = NotPunishing
    /\ punisher' = [punisher EXCEPT ![v].at = "status"]
    /\ UNCHANGED <<visit, resetter, log, logFile, banned, excused, crashes>>

-----------------------------------------------------------------------------
(* punish, one step per call of a store.                                   *)

PunishStep(v, from, to) ==
    punisher[v].at = from /\ punisher' = [punisher EXCEPT ![v].at = to]

AfterStatus(s) == IF StepBans(s) THEN "ban" ELSE "record"

\* A mutant: the record comes first, then the ban.
BugReadStatus(v) ==
    /\ punisher[v].at = "status"
    /\ punisher' = [punisher EXCEPT ![v] = [at |-> "record", before |-> StatusOf(log)]]
    /\ UNCHANGED <<visit, resetter, log, logFile, banned, excused, crashes>>

ReadStatus(v) ==
    /\ punisher[v].at = "status"
    /\ punisher' = [punisher EXCEPT ![v] = [at |-> AfterStatus(StatusOf(log)),
                                            before |-> StatusOf(log)]]
    /\ UNCHANGED <<visit, resetter, log, logFile, banned, excused, crashes>>

\* No status: kicked without a step.
NoStatus(v) ==
    /\ PunishStep(v, "status", "kick")
    /\ UNCHANGED <<visit, resetter, log, logFile, banned, excused, crashes>>

AddBan(v) ==
    /\ PunishStep(v, "ban", "record")
    /\ \/ banned' = TRUE /\ UNCHANGED excused
       \/ excused' = excused \union {v} /\ UNCHANGED banned
    /\ UNCHANGED <<visit, resetter, log, logFile, crashes>>

\* MemoryStore.Record and FileStore.write: the file may keep the older log.
Record(rec) ==
    /\ Len(log) < MaxRecords
    /\ log' = Append(log, rec)
    /\ \/ logFile' = log'
       \/ UNCHANGED logFile

WriteRecord(v) ==
    /\ PunishStep(v, "record", "kick")
    /\ Record([by |-> v, after |-> Escalate(punisher[v].before),
               bans |-> StepBans(punisher[v].before)])
    /\ UNCHANGED <<visit, resetter, banned, excused, crashes>>

\* kickFor
KickDetected(v) ==
    /\ PunishStep(v, "kick", "done")
    /\ visit' = [visit EXCEPT ![v] = "gone"]
    /\ UNCHANGED <<resetter, log, logFile, banned, excused, crashes>>

-----------------------------------------------------------------------------
(* Operators.                                                              *)

\* acReset: the status it reads only goes into the record.
ResetStatus ==
    /\ resetter = "idle" /\ StatusOf(log) # Clean
    /\ resetter' = "record"
    /\ UNCHANGED <<visit, punisher, log, logFile, banned, excused, crashes>>

ResetRecord ==
    /\ resetter = "record" /\ resetter' = "idle"
    /\ Record([by |-> "reset", after |-> Clean, bans |-> FALSE])
    /\ UNCHANGED <<visit, punisher, banned, excused, crashes>>

\* cmdBan: the ban, the record of RecordManualBan (in one step) if the ladder is at its
\* end, and the kick of one session of the player's, if FindPlayer finds one.
ManualBan ==
    /\ ~banned /\ banned' = TRUE
    /\ IF StatusOf(log) = StatusMax
       THEN Record([by |-> "admin", after |-> StatusMax, bans |-> TRUE])
       ELSE UNCHANGED <<log, logFile>>
    /\ \/ \E v \in Visit :
             visit[v] = "in" /\ visit' = [visit EXCEPT ![v] = "gone"]
       \/ (\A v \in Visit : visit[v] # "in") /\ UNCHANGED visit
    /\ UNCHANGED <<punisher, resetter, excused, crashes>>

\* cmdUnban, or the ban runs out.
LiftBan ==
    /\ banned /\ banned' = FALSE
    /\ excused' = excused \union {v \in Visit : \/ punisher[v].at \in {"record", "kick"}
                                                \/ \E i \in DOMAIN log : log[i].by = v}
    /\ UNCHANGED <<visit, punisher, resetter, log, logFile, crashes>>

\* The server stops and NewFileStore reads the log back.
LadderCrash ==
    /\ crashes < MaxCrashes /\ crashes' = crashes + 1
    /\ visit' = [v \in Visit |-> IF visit[v] = "out" THEN "out" ELSE "gone"]
    /\ punisher' = [v \in Visit |-> NotPunishing] /\ resetter' = "idle"
    /\ log' = logFile
    /\ UNCHANGED <<logFile, banned, excused>>

LadderNext ==
    \/ \E v \in Visit : \/ AdmitLogin(v) \/ AdmitAnyway(v) \/ ComeIn(v) \/ GoAway(v)
                        \/ Detect(v) \/ ReadStatus(v) \/ NoStatus(v) \/ AddBan(v)
                        \/ WriteRecord(v) \/ KickDetected(v)
    \/ ResetStatus \/ ResetRecord \/ ManualBan \/ LiftBan \/ LadderCrash

LadderSpec == LadderInit /\ [][LadderNext]_ladderVars

-----------------------------------------------------------------------------
LadderTypeOK ==
    /\ \A v \in Visit : /\ visit[v] \in {"out", "admitted", "in", "gone"}
                        /\ punisher[v].at \in {"idle", "status", "ban", "record", "kick", "done"}
                        /\ punisher[v].before \in Clean..StatusMax
    /\ \A i \in DOMAIN log : log[i].after \in Clean..StatusMax
    /\ Len(logFile) <= MaxRecords /\ excused \subseteq Visit /\ crashes \in 0..MaxCrashes

\* punish adds the ban before it writes the record: a ban the log tells of (/ac info
\* shows it) is in the ban list until it runs out or is lifted, through crashes between
\* the two, a log whose write failed and any order of the player's sessions.
LoggedBansBind ==
    \A i \in DOMAIN log :
        (log[i].bans /\ log[i].by \in Visit \ excused) => banned
=============================================================================
