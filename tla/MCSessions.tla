----------------------------- MODULE MCSessions -----------------------------
(* Instances of Sessions for TLC. *)
EXTENDS Sessions, TLC

CONSTANTS c1, c2, hub, r1, r2, s1

OneConn == {c1}
TwoConns == {c1, c2}

HubAndRound == {hub, r1}
HubAndRounds == {hub, r1, r2}
NoFresh == {}
OneFresh == {r1}
TwoFresh == {r1, r2}
OneStarter == {s1}

NoLobby == [i \in Inst |-> Hub]

ConnSymmetry == Permutations(Conn)

\* Bound: no connection closes while anybody waits for a game or one starts.
\* The instances with one connection close it there as well.
StartsUndisturbed ==
    \/ \A c \in Conn : cpc[c] = "idle"
    \/ waiting = {} /\ \A s \in Starter : starter[s] = Idle /\ call[s] = NoCall
=============================================================================
