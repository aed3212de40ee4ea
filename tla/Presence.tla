------------------------------ MODULE Presence ------------------------------
(***************************************************************************)
(* What the session core promises about worlds and players, whatever the   *)
(* goroutines do: a player is nowhere or in one world, goes from one world *)
(* to the next by way of nowhere, enters only a world that is running, and *)
(* a world stops only once nobody is in it, for good.                      *)
(***************************************************************************)
CONSTANTS Conn, Inst, Nowhere

VARIABLES
    where,   \* connection -> the world whose list it is in
    open,    \* worlds that run
    gone     \* worlds that have been removed

presenceVars == <<where, open, gone>>

Enter(c, i) ==
    /\ where[c] = Nowhere /\ i \in open
    /\ where' = [where EXCEPT ![c] = i]
    /\ UNCHANGED <<open, gone>>

Exit(c) ==
    /\ where[c] # Nowhere
    /\ where' = [where EXCEPT ![c] = Nowhere]
    /\ UNCHANGED <<open, gone>>

Open(i) ==
    /\ i \notin open \cup gone
    /\ open' = open \cup {i}
    /\ UNCHANGED <<where, gone>>

Close(i) ==
    /\ i \in open /\ \A c \in Conn : where[c] # i
    /\ open' = open \ {i}
    /\ gone' = gone \cup {i}
    /\ UNCHANGED where

PresenceInit ==
    /\ where = [c \in Conn |-> Nowhere]
    /\ open \subseteq Inst
    /\ gone = {}

PresenceNext ==
    \/ \E c \in Conn : Exit(c) \/ \E i \in Inst : Enter(c, i)
    \/ \E i \in Inst : Open(i) \/ Close(i)

PresenceSpec == PresenceInit /\ [][PresenceNext]_presenceVars
=============================================================================
