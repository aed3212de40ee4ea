------------------------------ MODULE AuthGate ------------------------------
(***************************************************************************)
(* The offline-mode gate (server/access/authgate, server/access/auth): the *)
(* instance players wait in, /register and /login on each connection's     *)
(* reader, the timeout's goroutine, the wrong-password counters and the IP *)
(* bans, and an operator's /banip and /unbanip.  BanFile models the bans'  *)
(* file and restarts.                                                      *)
(*                                                                         *)
(* A guess is right or wrong; names are folded to lower case.  The clock   *)
(* ticks in seconds.  A counter that has expired is dropped at once: the   *)
(* sweep drops it within a minute, and every reader takes it for zero.     *)
(***************************************************************************)
EXTENDS Integers, FiniteSetsExt, Functions

CONSTANTS
    Visitor,      \* connections
    Address,      \* IP keys
    AddressOf,    \* the address of each connection
    AccountName,      \* names
    AuthMaxAttempts, IpSprayFactor, AuthBanDuration,
    BanLengths,   \* what an operator bans for
    LastSecond    \* bound: the clock stops there

VARIABLES
    second,       \* the time
    registered,   \* accounts with a password
    sess,         \* each connection: where it is, its name, its reader's step
    overdue,         \* connections timeoutWatch is about to kick
    pairFails, ipFails, nameFails,
    ipBans,       \* IPGuard.bans, 0: none
    operator,     \* the address a /banip is about to kick from, if any
    guesses       \* history: wrong guesses from each address, by age

gateVars == <<second, registered, sess, overdue, pairFails, ipFails, nameFails, ipBans,
              operator, guesses>>
countVars == <<pairFails, ipFails, nameFails, guesses>>

ASSUME GateAssumption ==
    /\ IsFiniteSet(Visitor) /\ AddressOf \in [Visitor -> Address]
    /\ AuthMaxAttempts \in Nat \ {0} /\ IpSprayFactor \in Nat \ {0}
    /\ AuthBanDuration \in Nat \ {0}
    /\ BanLengths \subseteq Nat /\ LastSecond \in Nat

Nobody == "nobody"
NoSession == [at |-> "out", name |-> Nobody, step |-> "idle"]
NoFails == [n |-> 0, last |-> 0]
GuessAges == 0..(AuthBanDuration - 1)

GateInit ==
    /\ second = 1
    /\ registered = {}
    /\ sess = [c \in Visitor |-> NoSession]
    /\ overdue = {}
    /\ pairFails = [a \in Address |-> [n \in AccountName |-> NoFails]]
    /\ ipFails = [a \in Address |-> NoFails]
    /\ nameFails = [n \in AccountName |-> NoFails]
    /\ ipBans = [a \in Address |-> 0]
    /\ operator = Nobody
    /\ guesses = [a \in Address |-> [age \in GuessAges |-> 0]]

\* failCount.live and bump; sweepLocked, for the next second.
LiveFails(f) == IF second - f.last >= AuthBanDuration THEN 0 ELSE f.n
KeptFails(f) == IF second + 1 - f.last >= AuthBanDuration THEN NoFails ELSE f
Bump(f) == [n |-> LiveFails(f) + 1, last |-> second]

\* forgetIPLocked.
ForgetAddress(a) ==
    /\ ipFails' = [ipFails EXCEPT ![a] = NoFails]
    /\ pairFails' = [pairFails EXCEPT ![a] = [n \in AccountName |-> NoFails]]
    /\ guesses' = [guesses EXCEPT ![a] = [age \in GuessAges |-> 0]]
    /\ UNCHANGED nameFails

\* Login Start: an address that is banned is turned away, a ban that is over is
\* dropped with the address's counters; then the player lands in the gate's
\* instance (Joined) and the timeout's goroutine starts.
ArriveAtGate(c, n) ==
    LET a == AddressOf[c]
    IN  /\ sess[c] = NoSession /\ c \notin overdue
        /\ ipBans[a] = 0 \/ second > ipBans[a]
        /\ IF ipBans[a] # 0
           THEN ipBans' = [ipBans EXCEPT ![a] = 0] /\ ForgetAddress(a)
           ELSE UNCHANGED <<ipBans, countVars>>
        /\ sess' = [sess EXCEPT ![c] = [at |-> "auth", name |-> n, step |-> "idle"]]
        /\ UNCHANGED <<second, registered, overdue, operator>>

\* The connection goes: its reader's command, if one runs, goes on to its end.
Ended(s) == IF s.step \in {"idle", "leave"} THEN NoSession ELSE [s EXCEPT !.at = "out"]
SessionGone(c) == sess' = [sess EXCEPT ![c] = Ended(@)]
\* A command has ended.
Stepped(s) == IF s.at = "out" THEN NoSession ELSE [s EXCEPT !.step = "idle"]
Disconnect(c) ==
    /\ sess[c].at # "out"
    /\ SessionGone(c)
    /\ UNCHANGED <<second, registered, overdue, countVars, ipBans, operator>>

Waiting(c) == sess[c].at = "auth" /\ sess[c].step = "idle"

\* /register: the name is looked up, the password hashed ...
RegisterCheck(c) ==
    /\ Waiting(c) /\ sess[c].name \notin registered
    /\ sess' = [sess EXCEPT ![c].step = "hash"]
    /\ UNCHANGED <<second, registered, overdue, countVars, ipBans, operator>>
\* ... and stored, whoever has registered the name meanwhile.
RegisterStore(c) ==
    /\ sess[c].step = "hash"
    /\ registered' = registered \cup {sess[c].name}
    /\ sess' = [sess EXCEPT ![c].step = "admit"]
    /\ UNCHANGED <<second, overdue, countVars, ipBans, operator>>

\* /login: not while the name has to wait (NameWait), and it has an account.
NameWait(n) ==
    LET fails == LiveFails(nameFails[n])
    IN  IF fails < AuthMaxAttempts THEN 0
        ELSE nameFails[n].last + Min({AuthBanDuration, 2 ^ (fails - AuthMaxAttempts)}) - second
LoginCheck(c) ==
    /\ Waiting(c) /\ sess[c].name \in registered
    /\ NameWait(sess[c].name) <= 0
    /\ sess' = [sess EXCEPT ![c].step = "verify"]
    /\ UNCHANGED <<second, registered, overdue, countVars, ipBans, operator>>

\* The wrong password: RecordFail.  Reaching a limit bans the address and
\* disconnects the guesser.
RecordFail(c) ==
    LET a == AddressOf[c]
        n == sess[c].name
        tripped == \/ pairFails'[a][n].n >= AuthMaxAttempts
                   \/ ipFails'[a].n >= AuthMaxAttempts * IpSprayFactor
    IN  /\ sess[c].step = "verify"
        /\ nameFails' = [nameFails EXCEPT ![n] = Bump(@)]
        /\ pairFails' = [pairFails EXCEPT ![a][n] = Bump(@)]
        /\ ipFails' = [ipFails EXCEPT ![a] = Bump(@)]
        /\ guesses' = [guesses EXCEPT ![a][0] = @ + 1]
        /\ IF tripped
           THEN /\ ipBans' = [ipBans EXCEPT ![a] = second + AuthBanDuration]
                /\ sess' = [sess EXCEPT ![c].step = "leave"]
           ELSE /\ sess' = [sess EXCEPT ![c] = Stepped(@)]
                /\ UNCHANGED ipBans
        /\ UNCHANGED <<second, registered, overdue, operator>>
LoginRight(c) ==
    /\ sess[c].step = "verify"
    /\ sess' = [sess EXCEPT ![c].step = "admit"]
    /\ UNCHANGED <<second, registered, overdue, countVars, ipBans, operator>>

\* After the save, the guesser that tripped the ban is disconnected.
Expel(c) ==
    /\ sess[c].step = "leave"
    /\ SessionGone(c)
    /\ UNCHANGED <<second, registered, overdue, countVars, ipBans, operator>>

ToHub(s) == [s EXCEPT !.at = IF s.at = "auth" THEN "hub" ELSE s.at]
\* admit: only the account's own counters are cleared; the player moves to the hub.
BugAdmit(c) ==
    /\ sess[c].step = "admit"
    /\ ipFails' = [ipFails EXCEPT ![AddressOf[c]] = NoFails]
    /\ pairFails' = [pairFails EXCEPT ![AddressOf[c]] = [n \in AccountName |-> NoFails]]
    /\ nameFails' = [nameFails EXCEPT ![sess[c].name] = NoFails]
    /\ sess' = [sess EXCEPT ![c] = Stepped(ToHub(@))]
    /\ UNCHANGED <<second, registered, overdue, guesses, ipBans, operator>>
Admit(c) ==
    LET n == sess[c].name
    IN  /\ sess[c].step = "admit"
        /\ nameFails' = [nameFails EXCEPT ![n] = NoFails]
        /\ pairFails' = [pairFails EXCEPT ![AddressOf[c]][n] = NoFails]
        /\ sess' = [sess EXCEPT ![c] = Stepped(ToHub(@))]
        /\ UNCHANGED <<second, registered, overdue, ipFails, guesses, ipBans, operator>>

\* timeoutWatch: a look once a second, which may find the time over (how long it
\* is makes no difference here), and the kick after it.
WatchLook(c) ==
    /\ sess[c].at = "auth" /\ c \notin overdue
    /\ overdue' = overdue \cup {c}
    /\ UNCHANGED <<second, registered, sess, countVars, ipBans, operator>>
WatchKick(c) ==
    /\ c \in overdue
    /\ overdue' = overdue \ {c}
    /\ SessionGone(c)
    /\ UNCHANGED <<second, registered, countVars, ipBans, operator>>

\* /banip and /unbanip, by an operator elsewhere.
BanIP(a, length) ==
    /\ operator = Nobody
    /\ ipBans' = [ipBans EXCEPT ![a] = second + length]
    /\ operator' = a
    /\ UNCHANGED <<second, registered, sess, overdue, countVars>>
BanKicks ==
    /\ operator # Nobody
    /\ operator' = Nobody
    /\ sess' = [c \in Visitor |->
                    IF AddressOf[c] = operator THEN Ended(sess[c]) ELSE sess[c]]
    /\ UNCHANGED <<second, registered, overdue, countVars, ipBans>>
UnbanIP(a) ==
    /\ operator = Nobody
    /\ ForgetAddress(a)
    /\ ipBans' = [ipBans EXCEPT ![a] = 0]
    /\ UNCHANGED <<second, registered, sess, overdue, operator>>

GateTick ==
    /\ second < LastSecond
    /\ second' = second + 1
    /\ guesses' = [a \in Address |->
                    [age \in GuessAges |-> IF age = 0 THEN 0 ELSE guesses[a][age - 1]]]
    /\ pairFails' = [a \in Address |-> [n \in AccountName |-> KeptFails(pairFails[a][n])]]
    /\ ipFails' = [a \in Address |-> KeptFails(ipFails[a])]
    /\ nameFails' = [n \in AccountName |-> KeptFails(nameFails[n])]
    /\ UNCHANGED <<registered, sess, overdue, ipBans, operator>>

GateNext ==
    \/ \E c \in Visitor :
        \/ \E n \in AccountName : ArriveAtGate(c, n)
        \/ Disconnect(c) \/ RegisterCheck(c) \/ RegisterStore(c) \/ LoginCheck(c)
        \/ RecordFail(c) \/ LoginRight(c) \/ Expel(c) \/ Admit(c)
        \/ WatchLook(c) \/ WatchKick(c)
    \/ \E a \in Address : UnbanIP(a) \/ \E d \in BanLengths : BanIP(a, d)
    \/ BanKicks
    \/ GateTick

GateSpec == GateInit /\ [][GateNext]_gateVars

----------------------------------------------------------------------------
GateTypeOK ==
    /\ second \in Nat /\ registered \subseteq AccountName /\ overdue \subseteq Visitor
    /\ \A c \in Visitor :
        /\ sess[c].at \in {"out", "auth", "hub"} /\ sess[c].name \in AccountName \cup {Nobody}
        /\ sess[c].step \in {"idle", "hash", "verify", "admit", "leave"}
    /\ ipBans \in [Address -> Nat]
    /\ operator \in Address \cup {Nobody}

\* Over all names and connections, and however many logins succeed in between, an
\* address guesses wrong no more than AuthMaxAttempts x ipSprayFactor times in a
\* ban's duration before it is forgotten (its ban over, or /unbanip), but
\* for one guess of each further connection that was in when the ban came.
GuessesBounded ==
    \A a \in Address :
        LET made == SumFunction(guesses[a])
            limit == AuthMaxAttempts * IpSprayFactor
        IN  made <= limit \/ made < limit + Cardinality({c \in Visitor : AddressOf[c] = a})
=============================================================================
