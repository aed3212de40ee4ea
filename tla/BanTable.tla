----------------------------- MODULE BanTable ------------------------------
(***************************************************************************)
(* Bans in the database (src/store/banstore.go, bans.go, players.go) and   *)
(* the import of an old ban list at the start (main.go importBanlist,      *)
(* ban.Import).  A ban is two statements with no transaction around them:  *)
(* the earlier bans are lifted, the new one is inserted; orders of several *)
(* moderators interleave, a statement may fail, the server may crash       *)
(* between two.  A name is one player row (one spelling).                  *)
(***************************************************************************)
EXTENDS Integers, Sequences

CONSTANTS
    Banned,        \* the names there are orders about
    Clerk,         \* goroutines that run /ban, /unban or a punishment
    BanTerm,       \* how long bans are for
    LastBanHour,   \* bound: the clock stops there
    MaxRows        \* bound: active rows of a name

ASSUME BanTableAssumption ==
    BanTerm \subseteq Nat \ {0} /\ LastBanHour \in Nat /\ MaxRows \in Nat

VARIABLES
    now,       \* the time
    rows,      \* each name's active rows, oldest first: when each expires
    order,     \* what each clerk is in the middle of
    file,      \* the old ban list: when each name's ban ends (0: none)
    boot,      \* what the import has still to go through; {} once the server is up
    word       \* history: what the last order about a name said: until when, 0 lifted,
               \* -1 when orders overlapped, failed half way or are the file's

tableVars == <<now, rows, order, file, boot, word>>

NoOrder == [at |-> "idle", name |-> CHOOSE n \in Banned : TRUE, until |-> 0, alone |-> TRUE]
Open == -1

TableInit ==
    /\ now = 0
    /\ rows \in [Banned -> {<<>>} \cup {<<t>> : t \in BanTerm}]
    /\ order = [c \in Clerk |-> NoOrder]
    /\ file \in [Banned -> {0} \cup BanTerm]
    /\ boot = {n \in Banned : file[n] # 0}
    /\ word = [n \in Banned |-> IF rows[n] = <<>> THEN Open ELSE rows[n][Len(rows[n])]]

\* ActiveForPlayer: the newest active ban that has not expired; 0 is none.
InForce(n) ==
    LET current == {i \in DOMAIN rows[n] : rows[n][i] > now}
    IN  IF current = {} THEN 0 ELSE rows[n][CHOOSE i \in current : \A j \in current : j <= i]

OrdersOn(n) == {c \in Clerk : order[c].at # "idle" /\ order[c].name = n}

\* Nobody's order about a name stands alone when another one starts.
Disturbed(n) == [c \in Clerk |-> IF c \in OrdersOn(n) THEN [order[c] EXCEPT !.alone = FALSE] ELSE order[c]]

\* BanStore.Add: the player's row is found or made.
Resolve(c, n, t) ==
    /\ boot = {} /\ order[c].at = "idle" /\ Len(rows[n]) < MaxRows
    /\ order' = [Disturbed(n) EXCEPT ![c] =
                    [at |-> "resolved", name |-> n, until |-> now + t, alone |-> OrdersOn(n) = {}]]
    /\ UNCHANGED <<now, rows, file, boot, word>>

BugDeactivated(n) == [rows EXCEPT ![n] = SubSeq(@, 1, Len(@) - 1)]

\* Deactivate lifts every active ban of a player.
Deactivated(n) == [rows EXCEPT ![n] = <<>>]

Clear(c) ==
    /\ order[c].at = "resolved"
    /\ rows' = Deactivated(order[c].name)
    /\ order' = [order EXCEPT ![c].at = "cleared"]
    /\ UNCHANGED <<now, file, boot, word>>

Create(c) ==
    /\ order[c].at = "cleared" /\ Len(rows[order[c].name]) < MaxRows
    /\ rows' = [rows EXCEPT ![order[c].name] = Append(@, order[c].until)]
    /\ word' = [word EXCEPT ![order[c].name] = IF order[c].alone THEN order[c].until ELSE Open]
    /\ order' = [order EXCEPT ![c] = NoOrder]
    /\ UNCHANGED <<now, file, boot>>

\* A statement fails: the moderator is told, what is done stays done.
FailOrder(c) ==
    /\ order[c].at # "idle"
    /\ word' = IF order[c].at = "cleared" THEN [word EXCEPT ![order[c].name] = Open] ELSE word
    /\ order' = [order EXCEPT ![c] = NoOrder]
    /\ UNCHANGED <<now, rows, file, boot>>

\* BanStore.Remove is one statement.
Unban(c, n) ==
    /\ boot = {} /\ order[c].at = "idle"
    /\ rows' = Deactivated(n)
    /\ word' = [word EXCEPT ![n] = IF OrdersOn(n) = {} THEN 0 ELSE Open]
    /\ order' = Disturbed(n)
    /\ UNCHANGED <<now, file, boot>>

----------------------------------------------------------------------------
(* The start of the server, before it listens *)

\* Import: what has expired or is banned already is skipped.
Imported(n) == IF file[n] <= now \/ InForce(n) # 0 THEN rows[n] ELSE <<file[n]>>

\* The rename of the whole file may fail; a pardon since an import that did
\* not finish is undone by the next.
ImportOne(n) ==
    /\ n \in boot
    /\ rows' = [rows EXCEPT ![n] = Imported(n)]
    /\ boot' = boot \ {n}
    /\ \/ boot' # {} /\ file' = file
       \/ boot' = {} /\ file' = [k \in Banned |-> 0]
       \/ boot' = {} /\ file' = file
    /\ word' = IF InForce(n) = 0 /\ file[n] > now THEN [word EXCEPT ![n] = Open] ELSE word
    /\ UNCHANGED <<now, order>>

\* An error: the file stays in place for the next start.
ImportStops ==
    /\ boot # {}
    /\ boot' = {}
    /\ UNCHANGED <<now, rows, order, file, word>>

\* A crash or a stop: the orders under way are lost where they are.
TableRestart ==
    /\ order' = [c \in Clerk |-> NoOrder]
    /\ word' = [n \in Banned |-> IF \E c \in OrdersOn(n) : order[c].at = "cleared" THEN Open ELSE word[n]]
    /\ boot' = {n \in Banned : file[n] # 0}
    /\ UNCHANGED <<now, rows, file>>

TableHour ==
    /\ now < LastBanHour /\ now' = now + 1
    /\ UNCHANGED <<rows, order, file, boot, word>>

TableNext ==
    \/ \E c \in Clerk :
        \/ Clear(c) \/ Create(c) \/ FailOrder(c)
        \/ \E n \in Banned : Unban(c, n) \/ \E t \in BanTerm : Resolve(c, n, t)
    \/ \E n \in Banned : ImportOne(n)
    \/ ImportStops \/ TableRestart \/ TableHour

TableSpec == TableInit /\ [][TableNext]_tableVars

----------------------------------------------------------------------------

TableTypeOK ==
    /\ now \in 0 .. LastBanHour
    /\ \A n \in Banned : Len(rows[n]) <= MaxRows /\ word[n] >= Open /\ file[n] \in Nat
    /\ \A c \in Clerk : order[c].at \in {"idle", "resolved", "cleared"} /\ order[c].name \in Banned
    /\ boot \subseteq Banned

\* Once the server is up and no order about a name is under way, the login
\* check says of it what the last order said: banned for as long, or free.
\* Whatever bans raced before it, whatever crashed, failed, or was read from
\* the old file since (banstore.go 69-70, Import's "never clobbered").
LastOrderBinds ==
    \A n \in Banned :
        boot = {} /\ OrdersOn(n) = {} /\ word[n] # Open => InForce(n) = IF word[n] > now THEN word[n] ELSE 0
=============================================================================
