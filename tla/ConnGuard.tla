----------------------------- MODULE ConnGuard -----------------------------
(***************************************************************************)
(* The two guards of a connection's ends.                                  *)
(*                                                                         *)
(* The pre-login caps (server/net/connlimit, Server.HandleConn):           *)
(* connections in all, at a time from one address, and new ones from one   *)
(* address within a rate window.  Entries of idle addresses are swept, and *)
(* a connection keeps the entry it was counted in until it is released.    *)
(* The clock ticks in units the window and the sweep are given in.         *)
(*                                                                         *)
(* Keep-alives (server/keep_alive.go, net/conn/keepalive.go): a goroutine  *)
(* that wakes at intervals and sends, waits or gives up; the reader that   *)
(* takes the echoes; a client that echoes everything it gets, once, after  *)
(* any delay.  The wire keeps the order of each direction.                 *)
(***************************************************************************)
EXTENDS Integers, Sequences, FiniteSets, Functions

(* The caps. *)

CONSTANTS
    Ip,                               \* address keys (Key: an IPv6 /64 is one)
    MaxConns, MaxConnsPerIP, ConnRatePerIP,   \* cfg, 0: no limit
    RateWindow, SweepInterval,        \* connRateWindow, connSweepInterval
    LastTick                          \* bound: the clock stops there

VARIABLES
    clock,     \* now()
    total,     \* Limiter.total
    perIP,     \* Limiter.perIP
    lastSweep, \* Limiter.lastSweep
    openConns,      \* connections from each address that are not released
    stray,     \* those of them whose entry is no longer the address's
    admitted   \* history: connections admitted from each address, by age in ticks

limitVars == <<clock, total, perIP, lastSweep, openConns, stray, admitted>>

ASSUME LimitAssumption ==
    /\ IsFiniteSet(Ip)
    /\ MaxConns \in Nat /\ MaxConnsPerIP \in Nat /\ ConnRatePerIP \in Nat
    /\ RateWindow \in Nat \ {0} /\ SweepInterval \in Nat /\ LastTick \in Nat

NoEntry == [active |-> -1]

Ages == 0..(RateWindow - 1)

LimitInit ==
    /\ clock = 0 /\ total = 0 /\ lastSweep = -SweepInterval
    /\ perIP = [ip \in Ip |-> NoEntry]
    /\ openConns = [ip \in Ip |-> 0] /\ stray = openConns
    /\ admitted = [ip \in Ip |-> [age \in Ages |-> 0]]

\* maybeSweep: once a SweepInterval, the entries with nothing open and their
\* window over go.
SweepDue == clock - lastSweep >= SweepInterval
BugSwept(ip) == SweepDue /\ perIP[ip] # NoEntry /\ clock - perIP[ip].start >= RateWindow
Swept(ip) ==
    /\ SweepDue /\ perIP[ip] # NoEntry
    /\ perIP[ip].active = 0 /\ clock - perIP[ip].start >= RateWindow

\* The entry Acquire counts in: the window restarts once it is over.
Entry(ip) ==
    IF perIP[ip] = NoEntry \/ Swept(ip) THEN [active |-> 0, start |-> clock, count |-> 0]
    ELSE IF clock - perIP[ip].start >= RateWindow
    THEN [active |-> perIP[ip].active, start |-> clock, count |-> 0]
    ELSE perIP[ip]
Under(n, limit) == limit > 0 => n < limit

\* Limiter.Acquire: the sweep happens whatever it answers, the entry is made (or
\* its window restarted) unless the server is full.
Acquire(ip) ==
    LET e == Entry(ip)
        admit == Under(total, MaxConns) /\ Under(e.active, MaxConnsPerIP)
                    /\ Under(e.count, ConnRatePerIP)
        mine == IF admit THEN [active |-> e.active + 1, start |-> e.start, count |-> e.count + 1]
                ELSE e
    IN  /\ lastSweep' = IF SweepDue THEN clock ELSE lastSweep
        /\ perIP' = [i \in Ip |-> IF i = ip /\ Under(total, MaxConns) THEN mine
                                  ELSE IF Swept(i) THEN NoEntry ELSE perIP[i]]
        /\ stray' = [i \in Ip |-> IF Swept(i) THEN openConns[i] ELSE stray[i]]
        /\ total' = IF admit THEN total + 1 ELSE total
        /\ openConns' = IF admit THEN [openConns EXCEPT ![ip] = @ + 1] ELSE openConns
        /\ admitted' = IF admit THEN [admitted EXCEPT ![ip][0] = @ + 1] ELSE admitted
        /\ UNCHANGED clock

\* The release func, when a connection is done: it counts down in the entry it
\* was admitted in, if that still is the address's.
Release(ip) ==
    /\ openConns[ip] > 0
    /\ openConns' = [openConns EXCEPT ![ip] = @ - 1]
    /\ total' = total - 1
    /\ IF stray[ip] > 0
       THEN stray' = [stray EXCEPT ![ip] = @ - 1] /\ perIP' = perIP
       ELSE perIP' = [perIP EXCEPT ![ip].active = @ - 1] /\ stray' = stray
    /\ UNCHANGED <<clock, lastSweep, admitted>>

LimitTick ==
    /\ clock < LastTick
    /\ clock' = clock + 1
    /\ admitted' = [ip \in Ip |-> [age \in Ages |-> IF age = 0 THEN 0 ELSE admitted[ip][age - 1]]]
    /\ UNCHANGED <<total, perIP, lastSweep, openConns, stray>>

LimitNext == (\E ip \in Ip : Acquire(ip) \/ Release(ip)) \/ LimitTick

LimitSpec == LimitInit /\ [][LimitNext]_limitVars

----------------------------------------------------------------------------
LimitTypeOK ==
    /\ clock \in 0..LastTick /\ lastSweep \in -SweepInterval..LastTick /\ total \in Nat
    /\ \A ip \in Ip : perIP[ip] = NoEntry \/ perIP[ip].active \in Nat
    /\ openConns \in [Ip -> Nat] /\ stray \in [Ip -> Nat]

OpenCaps ==
    /\ total = SumFunction(openConns)
    /\ MaxConns > 0 => total <= MaxConns
    /\ MaxConnsPerIP > 0 => \A ip \in Ip : openConns[ip] <= MaxConnsPerIP

\* Windows restart at the first connection after the last one's end, so two
\* bursts may touch; but any span as long as a window admits at most twice the
\* rate from one address.
RateHolds ==
    ConnRatePerIP > 0 =>
        \A ip \in Ip : SumFunction(admitted[ip]) <= 2 * ConnRatePerIP

\* Whatever connects, disconnects and is swept meanwhile, no more connections are
\* open than the caps allow, in all and from one address, and new ones come no
\* faster: neither the sweep nor a disconnect resets an address's count.
CapsHold == OpenCaps /\ RateHolds

-----------------------------------------------------------------------------
(* Keep-alives. *)

CONSTANTS KeepAliveInterval, KeepAliveTimeout,
          LastBeat          \* bound: the clock stops there

VARIABLES
    beat,        \* the time
    inPlay,      \* the login is over
    wakes,       \* when the goroutine looks next
    sending,     \* the id it is about to write, 0: none
    pendingID, sentAt,      \* KeepAlive.pendingID, sentNanos
    toClient, toServer,     \* keep-alives and echoes on their way
    flagged,     \* the reader took an echo for a forged one
    dropped,     \* the goroutine gave the connection up
    waitedFor    \* history: how long the oldest unechoed keep-alive took so far

keepVars == <<beat, inPlay, wakes, sending, pendingID, sentAt, toClient, toServer,
              flagged, dropped, waitedFor>>

ASSUME KeepAssumption ==
    KeepAliveInterval \in Nat \ {0} /\ KeepAliveTimeout \in Nat /\ LastBeat \in Nat

KeepInit ==
    /\ beat = 1 /\ inPlay = FALSE /\ wakes = 1 + KeepAliveInterval
    /\ sending = 0 /\ pendingID = 0 /\ sentAt = 0
    /\ toClient = << >> /\ toServer = << >>
    /\ flagged = FALSE /\ dropped = FALSE /\ waitedFor = 0

EnterPlay ==
    /\ ~inPlay
    /\ inPlay' = TRUE
    /\ UNCHANGED <<beat, wakes, sending, pendingID, sentAt, toClient, toServer, flagged,
                   dropped, waitedFor>>

\* KeepAlive.Next: an id is marked pending before it goes out.
BugKeepNext ==
    /\ ~dropped /\ sending = 0 /\ beat >= wakes
    /\ inPlay
    /\ IF pendingID # 0 /\ beat - sentAt > KeepAliveTimeout
       THEN dropped' = TRUE /\ UNCHANGED <<sending, pendingID, sentAt>>
       ELSE sending' = beat /\ pendingID' = beat /\ sentAt' = beat /\ UNCHANGED dropped
    /\ UNCHANGED <<beat, inPlay, wakes, toClient, toServer, flagged, waitedFor>>
KeepNext ==
    /\ ~dropped /\ sending = 0 /\ beat >= wakes
    /\ \/ /\ ~inPlay \/ (pendingID # 0 /\ beat - sentAt <= KeepAliveTimeout)
          /\ wakes' = beat + KeepAliveInterval
          /\ UNCHANGED <<sending, pendingID, sentAt, dropped>>
       \/ /\ inPlay /\ pendingID # 0 /\ beat - sentAt > KeepAliveTimeout
          /\ dropped' = TRUE
          /\ UNCHANGED <<wakes, sending, pendingID, sentAt>>
       \/ /\ inPlay /\ pendingID = 0
          /\ sending' = beat /\ pendingID' = beat /\ sentAt' = beat
          /\ UNCHANGED <<wakes, dropped>>
    /\ UNCHANGED <<beat, inPlay, toClient, toServer, flagged, waitedFor>>

KeepSend ==
    /\ sending # 0
    /\ toClient' = Append(toClient, sending)
    /\ sending' = 0
    /\ wakes' = beat + KeepAliveInterval
    /\ UNCHANGED <<beat, inPlay, pendingID, sentAt, toServer, flagged, dropped, waitedFor>>

\* The client echoes a keep-alive.
Echo ==
    /\ toClient # << >>
    /\ toServer' = Append(toServer, Head(toClient))
    /\ toClient' = Tail(toClient)
    /\ UNCHANGED <<beat, inPlay, wakes, sending, pendingID, sentAt, flagged, dropped, waitedFor>>

\* onKeepAliveResponse: an id that is not the outstanding one is flagged.
TakeEcho ==
    /\ toServer # << >>
    /\ toServer' = Tail(toServer)
    /\ IF Head(toServer) = pendingID THEN pendingID' = 0 /\ flagged' = flagged
                                     ELSE flagged' = TRUE /\ pendingID' = pendingID
    /\ waitedFor' = IF dropped THEN waitedFor ELSE 0
    /\ UNCHANGED <<beat, inPlay, wakes, sending, sentAt, toClient, dropped>>

KeepTick ==
    /\ beat < LastBeat
    /\ beat' = beat + 1
    /\ waitedFor' = IF dropped THEN waitedFor
                    ELSE IF sending # 0 \/ toClient # << >> \/ toServer # << >>
                    THEN waitedFor + 1 ELSE 0
    /\ UNCHANGED <<inPlay, wakes, sending, pendingID, sentAt, toClient, toServer, flagged, dropped>>

KeepAliveNext ==
    EnterPlay \/ KeepNext \/ KeepSend \/ Echo \/ TakeEcho \/ KeepTick

KeepSpec == KeepInit /\ [][KeepAliveNext]_keepVars

----------------------------------------------------------------------------
KeepTypeOK ==
    /\ beat \in Nat /\ wakes \in Nat /\ sending \in Nat /\ pendingID \in Nat /\ sentAt \in Nat
    /\ inPlay \in BOOLEAN /\ flagged \in BOOLEAN /\ dropped \in BOOLEAN

\* A client that echoes every keep-alive is never taken for a forger, however fast
\* or slow its echo is, and never given up on before an echo has been due for
\* longer than the timeout.
HonestKept == ~flagged /\ (dropped => waitedFor > KeepAliveTimeout)
=============================================================================
