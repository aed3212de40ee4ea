--------------------------- MODULE SessionsProofs ---------------------------
(* Proofs about Sessions, for every value of its constants. *)
EXTENDS Sessions, TLAPS

-----------------------------------------------------------------------------
(* The records of calls and moves keep their types. *)

\* A held moveMu names the target and the caller of the move.
LEMMA HeldMove ==
  ASSUME move \in [Conn -> Moves], NEW c \in Conn, move[c].pc \in MovePc
  PROVE  move[c] \in [pc : MovePc, to : Inst, by : Mover]
BY DEF Moves, Free, MovePc

\* A call that has not returned names a connection and an instance.
LEMMA PendingCall ==
  ASSUME call \in [Mover -> Calls], NEW p \in Mover, call[p] # NoCall
  PROVE  call[p] \in [c : Conn, to : Inst]
BY DEF Calls

\* Going on to the next stage of a move keeps the locks typed.
LEMMA AdvanceTyped ==
  ASSUME move \in [Conn -> Moves], NEW c \in Conn, move[c].pc \in MovePc,
         NEW pc \in MovePc, Advance(c, pc)
  PROVE  move' \in [Conn -> Moves] /\ move'[c] = [move[c] EXCEPT !.pc = pc] /\ call' = call
<1>1. move[c] \in [pc : MovePc, to : Inst, by : Mover]
  BY HeldMove
<1>2. [move[c] EXCEPT !.pc = pc] \in Moves
  BY <1>1 DEF Moves
<1>3. move' = [move EXCEPT ![c] = [move[c] EXCEPT !.pc = pc]]
  BY DEF Advance
<1>. QED
  BY <1>2, <1>3 DEF Advance

\* Returning frees moveMu and clears its caller's call, nothing else.
LEMMA ReturnTyped ==
  ASSUME move \in [Conn -> Moves], call \in [Mover -> Calls],
         NEW c \in Conn, move[c].pc \in MovePc, Return(c)
  PROVE  /\ move' \in [Conn -> Moves] /\ call' \in [Mover -> Calls]
         /\ move' = [move EXCEPT ![c] = Free]
         /\ move[c].by \in Mover /\ call' = [call EXCEPT ![move[c].by] = NoCall]
BY HeldMove DEF Return, Moves, Calls

\* Calling MovePlayer keeps the calls typed.
LEMMA CallTyped ==
  ASSUME call \in [Mover -> Calls], NEW p \in Mover, NEW c \in Conn, NEW i \in Inst,
         call' = [call EXCEPT ![p] = [c |-> c, to |-> i]]
  PROVE  call' \in [Mover -> Calls]
BY DEF Calls

\* Every step keeps the types, an instance for every read loop past its
\* login and one for every loop that moves picked players.
LEMMA TypeStep ==
  ASSUME WellTyped, [Next]_vars
  PROVE  WellTyped'
<1>. USE InstAssumption, ProcessAssumption DEF WellTyped, TypeOK, InstanceSet, FerryHasInstance,
         instVars, connVars, moveVars, queueVars
<1>1. ASSUME NEW c \in Conn, LoginEnter(c) PROVE WellTyped'
  BY <1>1 DEF LoginEnter
<1>2. ASSUME NEW c \in Conn, SendPlayPackets(c) PROVE WellTyped'
  BY <1>2 DEF SendPlayPackets
<1>3. ASSUME NEW c \in Conn, SendPlayFails(c) PROVE WellTyped'
  BY <1>3 DEF SendPlayFails
<1>4. ASSUME NEW c \in Conn, LoginJoin(c) PROVE WellTyped'
  BY <1>4 DEF LoginJoin
<1>5. ASSUME NEW c \in Conn, ReaderEnds(c) PROVE WellTyped'
  BY <1>5 DEF ReaderEnds, AtLoopTop
<1>6. ASSUME NEW c \in Conn, ReaderFails(c) PROVE WellTyped'
  BY <1>6 DEF ReaderFails, Spawn, AtLoopTop
<1>7. ASSUME NEW c \in Conn, ReadPacket(c) PROVE WellTyped'
  BY <1>7 DEF ReadPacket
<1>8. ASSUME NEW c \in Conn, Handled(c) PROVE WellTyped'
  BY <1>8 DEF Handled, Handling
<1>9. ASSUME NEW c \in Conn, CmdHub(c) PROVE WellTyped'
  <2>1. CASE UNCHANGED call
    BY <1>9, <2>1 DEF CmdHub, Handling, CallMove
  <2>2. CASE CallMove(c, Hub)
    <3>1. call' \in [Mover -> Calls]
      BY <2>2, CallTyped, c \in Mover DEF CallMove, Mover
    <3>. QED
      BY <1>9, <2>2, <3>1 DEF CmdHub, Handling, CallMove
  <2>. QED
    BY <1>9, <2>1, <2>2 DEF CmdHub
<1>10. ASSUME NEW c \in Conn, CmdLeave(c) PROVE WellTyped'
  <2>1. LobbyOf[at[c]] \in Inst /\ at[c] \in Inst
    BY <1>10 DEF CmdLeave, Handling
  <2>2. CASE UNCHANGED call
    BY <1>10, <2>1, <2>2 DEF CmdLeave, CallMove
  <2>3. ASSUME NEW i \in Inst, CallMove(c, i) PROVE WellTyped'
    <3>1. call' \in [Mover -> Calls]
      BY <2>3, CallTyped, c \in Mover DEF CallMove, Mover
    <3>2. rpc' = [rpc EXCEPT ![c] = "play"] /\ waiting' = waiting \ {c}
      BY <1>10, <2>3 DEF CmdLeave, CallMove
    <3>. QED
      BY <1>10, <2>1, <3>1, <3>2 DEF CmdLeave
  <2>. QED
    BY <1>10, <2>1, <2>2, <2>3 DEF CmdLeave
<1>11. ASSUME NEW c \in Conn, CmdPlayLeave(c) PROVE WellTyped'
  BY <1>11 DEF CmdPlayLeave, Handling
<1>12. ASSUME NEW c \in Conn, CmdPlay(c) PROVE WellTyped'
  <2>1. CASE UNCHANGED starter /\ waiting' = waiting \cup {c}
    BY <1>12, <2>1 DEF CmdPlay, Handling
  <2>2. ASSUME NEW s \in Starter, waiting' = {},
               starter' = [starter EXCEPT ![s] =
                 [pc |-> "create", todo |-> waiting \cup {c}, inst |-> None]]
        PROVE  WellTyped'
    <3>1. [pc |-> "create", todo |-> waiting \cup {c}, inst |-> None] \in Ferries
      BY DEF Ferries
    <3>2. starter' \in [Starter -> Ferries]
      BY <2>2, <3>1
    <3>3. \A x \in Starter : starter'[x].pc = "ferry" => starter'[x].inst \in Inst
      BY <2>2
    <3>. QED
      BY <1>12, <2>2, <3>2, <3>3 DEF CmdPlay, Handling
  <2>. QED
    BY <1>12, <2>1, <2>2 DEF CmdPlay
<1>13. ASSUME NEW c \in Conn, Kick(c) PROVE WellTyped'
  BY <1>13 DEF Kick, Spawn
<1>14. ASSUME NEW c \in Conn, Shutdown(c) PROVE WellTyped'
  BY <1>14 DEF Shutdown
<1>15. ASSUME NEW c \in Conn, CleanupDequeue(c) PROVE WellTyped'
  BY <1>15 DEF CleanupDequeue
<1>16. ASSUME NEW c \in Conn, CleanupLock(c) PROVE WellTyped'
  BY <1>16 DEF CleanupLock, Moves, Free
<1>17. ASSUME NEW c \in Conn, CleanupLeave(c) PROVE WellTyped'
  BY <1>17 DEF CleanupLeave, Leave, Moves
<1>18. ASSUME NEW c \in Conn, MoveCheck(c) PROVE WellTyped'
  <2>1. move' \in [Conn -> Moves] /\ call' \in [Mover -> Calls]
    BY <1>18, AdvanceTyped, ReturnTyped DEF MoveCheck, MovePc
  <2>. QED
    BY <1>18, <2>1 DEF MoveCheck
<1>19. ASSUME NEW c \in Conn, MoveDequeue(c) PROVE WellTyped'
  <2>1. move' \in [Conn -> Moves] /\ call' \in [Mover -> Calls]
    BY <1>19, AdvanceTyped DEF MoveDequeue, MovePc
  <2>. QED
    BY <1>19, <2>1 DEF MoveDequeue
<1>20. ASSUME NEW c \in Conn, MoveLeave(c) PROVE WellTyped'
  <2>1. move' \in [Conn -> Moves] /\ call' \in [Mover -> Calls]
    BY <1>20, AdvanceTyped DEF MoveLeave, MovePc
  <2>. QED
    BY <1>20, <2>1 DEF MoveLeave, Leave
<1>21. ASSUME NEW c \in Conn, MoveRespawn(c) PROVE WellTyped'
  <2>1. move' \in [Conn -> Moves] /\ move[c].to \in Inst /\ UNCHANGED call
    BY <1>21, AdvanceTyped, HeldMove DEF MoveRespawn, MovePc
  <2>. QED
    BY <1>21, <2>1 DEF MoveRespawn
<1>22. ASSUME NEW c \in Conn, MoveStream(c) PROVE WellTyped'
  <2>1. move' \in [Conn -> Moves] /\ call' \in [Mover -> Calls]
    BY <1>22, AdvanceTyped DEF MoveStream, MovePc
  <2>. QED
    BY <1>22, <2>1 DEF MoveStream
<1>23. ASSUME NEW c \in Conn, MoveWriteFails(c) PROVE WellTyped'
  <2>1. move' \in [Conn -> Moves] /\ call' \in [Mover -> Calls]
    BY <1>23, ReturnTyped DEF MoveWriteFails, MovePc
  <2>. QED
    BY <1>23, <2>1 DEF MoveWriteFails
<1>24. ASSUME NEW c \in Conn, MoveJoin(c) PROVE WellTyped'
  <2>1. move[c] \in [pc : MovePc, to : Inst, by : Mover]
    BY <1>24, HeldMove DEF MoveJoin, MovePc
  <2>2. members' \in [Inst -> SUBSET Conn]
    BY <1>24, <2>1 DEF MoveJoin
  <2>3. CASE Return(c)
    BY <1>24, <2>2, <2>3, ReturnTyped DEF MoveJoin, MovePc
  <2>4. CASE move' = [move EXCEPT ![c].to = Hub, ![c].pc = "check"] /\ UNCHANGED call
    <3>1. [[move[c] EXCEPT !.to = Hub] EXCEPT !.pc = "check"] \in Moves
      BY <2>1 DEF Moves, MovePc
    <3>2. move' = [move EXCEPT ![c] = [[move[c] EXCEPT !.to = Hub] EXCEPT !.pc = "check"]]
      BY <2>4
    <3>. QED
      BY <1>24, <2>2, <2>4, <3>1, <3>2 DEF MoveJoin
  <2>. QED
    BY <1>24, <2>3, <2>4 DEF MoveJoin
<1>25. ASSUME NEW c \in Conn, NEW i \in Inst, CmdJoin(c, i) PROVE WellTyped'
  <2>1. call' \in [Mover -> Calls]
    BY <1>25, CallTyped DEF CmdJoin, CallMove, Mover
  <2>. QED
    BY <1>25, <2>1 DEF CmdJoin, Handling, CallMove
<1>26. ASSUME NEW p \in Mover, MoveAcquire(p) PROVE WellTyped'
  <2>1. call[p] \in [c : Conn, to : Inst]
    BY <1>26, PendingCall DEF MoveAcquire
  <2>2. [pc |-> "check", to |-> call[p].to, by |-> p] \in Moves
    BY <2>1 DEF Moves, MovePc
  <2>. QED
    BY <1>26, <2>2 DEF MoveAcquire, Target
<1>27. ASSUME NEW s \in Starter, NEW i \in Fresh, StarterCreate(s, i) PROVE WellTyped'
  <2>1. starter' \in [Starter -> Ferries]
    <3>1. [[starter[s] EXCEPT !.pc = "ferry"] EXCEPT !.inst = i] \in Ferries
      <4>1. starter[s] \in Ferries /\ i \in Inst
        OBVIOUS
      <4>. QED
        BY <4>1 DEF Ferries
    <3>2. starter' = [starter EXCEPT ![s] = [[starter[s] EXCEPT !.pc = "ferry"] EXCEPT !.inst = i]]
      BY <1>27 DEF StarterCreate
    <3>. QED
      BY <3>1, <3>2
  <2>2. \A x \in Starter : starter'[x].pc = "ferry" => starter'[x].inst \in Inst
    BY <1>27 DEF StarterCreate, Ferries
  <2>. QED
    BY <1>27, <2>1, <2>2 DEF StarterCreate, Create
<1>28. ASSUME NEW s \in Starter, StarterFails(s) PROVE WellTyped'
  BY <1>28 DEF StarterFails, Idle, Ferries
<1>29. ASSUME NEW s \in Starter, NEW c \in Conn, StarterMove(s, c) PROVE WellTyped'
  <2>1. starter' \in [Starter -> Ferries]
    BY <1>29 DEF StarterMove, Ferries
  <2>2. \A x \in Starter : starter'[x].pc = "ferry" => starter'[x].inst \in Inst
    BY <1>29 DEF StarterMove, Ferries
  <2>3. call' \in [Mover -> Calls]
    BY <1>29, CallTyped DEF StarterMove, Mover
  <2>. QED
    BY <1>29, <2>1, <2>2, <2>3 DEF StarterMove
<1>30. ASSUME NEW s \in Starter, StarterDone(s) PROVE WellTyped'
  BY <1>30 DEF StarterDone, Idle, Ferries
<1>31. ASSUME NEW i \in Fresh, CreateArena(i) PROVE WellTyped'
  BY <1>31 DEF CreateArena, Create
<1>32. ASSUME NEW i \in Fresh, EndGame(i) PROVE WellTyped'
  BY <1>32 DEF EndGame, Teardowns
<1>33. ASSUME NEW i \in Inst, NEW c \in Conn, TeardownMove(i, c) PROVE WellTyped'
  <2>1. call' \in [Mover -> Calls]
    BY <1>33, CallTyped DEF TeardownMove, Mover
  <2>2. teardown' \in [Inst -> Teardowns]
    BY <1>33 DEF TeardownMove, Teardowns
  <2>. QED
    BY <1>33, <2>1, <2>2 DEF TeardownMove
<1>34. ASSUME NEW i \in Inst, TeardownRemove(i) PROVE WellTyped'
  <2>1. teardown' \in [Inst -> Teardowns]
    BY <1>34 DEF TeardownRemove, Teardowns
  <2>. QED
    BY <1>34, <2>1 DEF TeardownRemove, Removable, Remove
<1>35. ASSUME NEW i \in Inst, InstanceDelete(i) PROVE WellTyped'
  BY <1>35 DEF InstanceDelete, Removable, Remove
<1>36. ASSUME NEW i \in Fresh, JanitorLook(i) PROVE WellTyped'
  BY <1>36 DEF JanitorLook
<1>37. ASSUME JanitorRemove PROVE WellTyped'
  BY <1>37 DEF JanitorRemove, Removable, Remove
<1>38. CASE UNCHANGED vars
  BY <1>38 DEF vars
<1>. QED
  BY <1>1, <1>2, <1>3, <1>4, <1>5, <1>6, <1>7, <1>8, <1>9, <1>10, <1>11, <1>12, <1>13, <1>14,
     <1>15, <1>16, <1>17, <1>18, <1>19, <1>20, <1>21, <1>22, <1>23, <1>24, <1>25, <1>26,
     <1>27, <1>28, <1>29, <1>30, <1>31, <1>32, <1>33, <1>34, <1>35, <1>36, <1>37, <1>38
    DEF Next, Reader, Cleanup, MoveStep, StarterStep, TeardownStep, Terminated

-----------------------------------------------------------------------------
\* The hub stays open, and what is removed stays empty.
LEMMA OpenStep ==
  ASSUME WellTyped, HubOpen, LoginLands, NobodyInRemoved, BetweenWorlds, [Next]_vars
  PROVE  (HubOpen /\ NobodyInRemoved)'
<1>. USE InstAssumption, ProcessAssumption
       DEF WellTyped, TypeOK, InstanceSet, HubOpen, NobodyInRemoved
<1>1. ASSUME NEW c \in Conn, LoginJoin(c) PROVE (HubOpen /\ NobodyInRemoved)'
  BY <1>1 DEF LoginJoin, instVars, connVars, moveVars, queueVars
<1>2. ASSUME NEW c \in Conn, CleanupLeave(c) PROVE (HubOpen /\ NobodyInRemoved)'
  BY <1>2 DEF CleanupLeave, instVars, connVars, moveVars, queueVars, Leave
<1>3. ASSUME NEW c \in Conn, MoveLeave(c) PROVE (HubOpen /\ NobodyInRemoved)'
  BY <1>3 DEF MoveLeave, instVars, connVars, moveVars, queueVars, Advance, Leave
<1>4. ASSUME NEW c \in Conn, MoveJoin(c) PROVE (HubOpen /\ NobodyInRemoved)'
  BY <1>4 DEF MoveJoin, instVars, connVars, moveVars, queueVars, Return
<1>5. ASSUME NEW s \in Starter, NEW i \in Fresh, StarterCreate(s, i)
      PROVE  (HubOpen /\ NobodyInRemoved)'
  BY <1>5 DEF StarterCreate, instVars, connVars, moveVars, queueVars, Create
<1>6. ASSUME NEW i \in Fresh, CreateArena(i) PROVE (HubOpen /\ NobodyInRemoved)'
  BY <1>6 DEF CreateArena, instVars, connVars, moveVars, queueVars, Create
<1>7. ASSUME NEW i \in Inst, TeardownRemove(i) PROVE (HubOpen /\ NobodyInRemoved)'
  BY <1>7 DEF TeardownRemove, instVars, connVars, moveVars, queueVars, Removable, Remove
<1>8. ASSUME NEW i \in Inst, InstanceDelete(i) PROVE (HubOpen /\ NobodyInRemoved)'
  BY <1>8 DEF InstanceDelete, instVars, connVars, moveVars, queueVars, Removable, Remove
<1>9. ASSUME JanitorRemove PROVE (HubOpen /\ NobodyInRemoved)'
  BY <1>9 DEF JanitorRemove, instVars, connVars, moveVars, queueVars, Removable, Remove
<1>10. CASE UNCHANGED <<istate, members>>
  BY <1>10
<1>11. ASSUME NEW c \in Conn, 
               LoginEnter(c) \/ SendPlayPackets(c) \/ SendPlayFails(c) \/ ReaderEnds(c) \/
               ReaderFails(c) \/ ReadPacket(c) \/ Handled(c) \/ CmdHub(c)
      PROVE  UNCHANGED <<istate, members>>
  BY <1>11
    DEF LoginEnter, SendPlayPackets, SendPlayFails, ReaderEnds, ReaderFails, ReadPacket,
        Handled, CmdHub, AtLoopTop, CallMove, Handling, Spawn, instVars, connVars, moveVars,
        queueVars
<1>12. ASSUME NEW c \in Conn, 
               CmdLeave(c) \/ CmdPlayLeave(c) \/ CmdPlay(c) \/ Kick(c) \/ Shutdown(c) \/
               CleanupDequeue(c) \/ CleanupLock(c) \/ MoveCheck(c)
      PROVE  UNCHANGED <<istate, members>>
  BY <1>12
    DEF CmdLeave, CmdPlayLeave, CmdPlay, Kick, Shutdown, CleanupDequeue, CleanupLock,
        MoveCheck, Advance, CallMove, Handling, Return, Spawn, instVars, connVars, moveVars,
        queueVars
<1>13. ASSUME NEW c \in Conn, 
               MoveDequeue(c) \/ MoveRespawn(c) \/ MoveStream(c) \/ MoveWriteFails(c)
      PROVE  UNCHANGED <<istate, members>>
  BY <1>13
    DEF MoveDequeue, MoveRespawn, MoveStream, MoveWriteFails, Advance, Return, instVars,
        connVars, moveVars, queueVars
<1>14. ASSUME NEW c \in Conn, NEW i \in Inst, CmdJoin(c, i)
      PROVE  UNCHANGED <<istate, members>>
  BY <1>14 DEF CmdJoin, CallMove, Handling, instVars, connVars, moveVars, queueVars
<1>15. ASSUME NEW p \in Mover, MoveAcquire(p)
      PROVE  UNCHANGED <<istate, members>>
  BY <1>15 DEF MoveAcquire, Target, instVars, connVars, moveVars, queueVars
<1>16. ASSUME NEW s \in Starter, 
               StarterFails(s) \/ StarterDone(s)
      PROVE  UNCHANGED <<istate, members>>
  BY <1>16 DEF StarterFails, StarterDone, instVars, connVars, moveVars, queueVars
<1>17. ASSUME NEW s \in Starter, NEW c \in Conn, StarterMove(s, c)
      PROVE  UNCHANGED <<istate, members>>
  BY <1>17 DEF StarterMove, instVars, connVars, moveVars, queueVars
<1>18. ASSUME NEW i \in Fresh, 
               EndGame(i) \/ JanitorLook(i)
      PROVE  UNCHANGED <<istate, members>>
  BY <1>18 DEF EndGame, JanitorLook, instVars, connVars, moveVars, queueVars
<1>19. ASSUME NEW i \in Inst, NEW c \in Conn, TeardownMove(i, c)
      PROVE  UNCHANGED <<istate, members>>
  BY <1>19 DEF TeardownMove, instVars, connVars, moveVars, queueVars
<1>20. ASSUME UNCHANGED vars PROVE UNCHANGED <<istate, members>>
  BY <1>20 DEF vars
<1>. QED
  BY <1>1, <1>2, <1>3, <1>4, <1>5, <1>6, <1>7, <1>8, <1>9, <1>10, <1>11, <1>12, <1>13, <1>14,
     <1>15, <1>16, <1>17, <1>18, <1>19, <1>20
    DEF Next, Reader, Cleanup, MoveStep, StarterStep, TeardownStep, Terminated

\* Logins land in the landing instance.
LEMMA LandsStep ==
  ASSUME WellTyped, LoginLands, UnknownBeforeJoin, [Next]_vars
  PROVE  LoginLands'
<1>. USE InstAssumption, ProcessAssumption DEF WellTyped, TypeOK, LoginLands, UnknownBeforeJoin
<1>1. ASSUME NEW c \in Conn, LoginEnter(c) PROVE LoginLands'
  BY <1>1 DEF LoginEnter, instVars, connVars, moveVars, queueVars
<1>2. ASSUME NEW c \in Conn, SendPlayPackets(c) PROVE LoginLands'
  BY <1>2 DEF SendPlayPackets, instVars, connVars, moveVars, queueVars
<1>3. ASSUME NEW c \in Conn, SendPlayFails(c) PROVE LoginLands'
  BY <1>3 DEF SendPlayFails, instVars, connVars, moveVars, queueVars
<1>4. ASSUME NEW c \in Conn, LoginJoin(c) PROVE LoginLands'
  BY <1>4 DEF LoginJoin, instVars, connVars, moveVars, queueVars
<1>5. ASSUME NEW c \in Conn, ReaderEnds(c) PROVE LoginLands'
  BY <1>5 DEF ReaderEnds, instVars, connVars, moveVars, queueVars, AtLoopTop
<1>6. ASSUME NEW c \in Conn, ReaderFails(c) PROVE LoginLands'
  BY <1>6 DEF ReaderFails, instVars, connVars, moveVars, queueVars, Spawn, AtLoopTop
<1>7. ASSUME NEW c \in Conn, ReadPacket(c) PROVE LoginLands'
  BY <1>7 DEF ReadPacket, instVars, connVars, moveVars, queueVars
<1>8. ASSUME NEW c \in Conn, Handled(c) PROVE LoginLands'
  BY <1>8 DEF Handled, instVars, connVars, moveVars, queueVars, Handling
<1>9. ASSUME NEW c \in Conn, CmdHub(c) PROVE LoginLands'
  BY <1>9 DEF CmdHub, instVars, connVars, moveVars, queueVars, Handling, CallMove
<1>10. ASSUME NEW c \in Conn, CmdLeave(c) PROVE LoginLands'
  BY <1>10 DEF CmdLeave, instVars, connVars, moveVars, queueVars, Handling, CallMove
<1>11. ASSUME NEW c \in Conn, CmdPlayLeave(c) PROVE LoginLands'
  BY <1>11 DEF CmdPlayLeave, instVars, connVars, moveVars, queueVars, Handling
<1>12. ASSUME NEW c \in Conn, CmdPlay(c) PROVE LoginLands'
  BY <1>12 DEF CmdPlay, instVars, connVars, moveVars, queueVars, Handling
<1>13. ASSUME NEW c \in Conn, MoveRespawn(c) PROVE LoginLands'
  BY <1>13 DEF MoveRespawn, instVars, connVars, moveVars, queueVars, Advance
<1>14. ASSUME NEW c \in Conn, NEW i \in Inst, CmdJoin(c, i) PROVE LoginLands'
  BY <1>14 DEF CmdJoin, instVars, connVars, moveVars, queueVars, Handling, CallMove
<1>15. ASSUME NEW s \in Starter, NEW i \in Fresh, StarterCreate(s, i) PROVE LoginLands'
  BY <1>15 DEF StarterCreate, instVars, connVars, moveVars, queueVars, Create
<1>16. ASSUME NEW i \in Fresh, CreateArena(i) PROVE LoginLands'
  BY <1>16 DEF CreateArena, instVars, connVars, moveVars, queueVars, Create
<1>17. ASSUME NEW i \in Inst, TeardownRemove(i) PROVE LoginLands'
  BY <1>17 DEF TeardownRemove, instVars, connVars, moveVars, queueVars, Removable, Remove
<1>18. ASSUME NEW i \in Inst, InstanceDelete(i) PROVE LoginLands'
  BY <1>18 DEF InstanceDelete, instVars, connVars, moveVars, queueVars, Removable, Remove
<1>19. ASSUME JanitorRemove PROVE LoginLands'
  BY <1>19 DEF JanitorRemove, instVars, connVars, moveVars, queueVars, Removable, Remove
<1>20. CASE UNCHANGED <<istate, at, rpc>>
  BY <1>20
<1>21. ASSUME NEW c \in Conn, 
               Kick(c) \/ Shutdown(c) \/ CleanupDequeue(c) \/ CleanupLock(c) \/
               CleanupLeave(c) \/ MoveCheck(c) \/ MoveDequeue(c) \/ MoveLeave(c)
      PROVE  UNCHANGED <<istate, at, rpc>>
  BY <1>21
    DEF Kick, Shutdown, CleanupDequeue, CleanupLock, CleanupLeave, MoveCheck, MoveDequeue,
        MoveLeave, Advance, Leave, Return, Spawn, instVars, connVars, moveVars, queueVars
<1>22. ASSUME NEW c \in Conn, 
               MoveStream(c) \/ MoveWriteFails(c) \/ MoveJoin(c)
      PROVE  UNCHANGED <<istate, at, rpc>>
  BY <1>22
    DEF MoveStream, MoveWriteFails, MoveJoin, Advance, Return, instVars, connVars, moveVars,
        queueVars
<1>23. ASSUME NEW p \in Mover, MoveAcquire(p)
      PROVE  UNCHANGED <<istate, at, rpc>>
  BY <1>23 DEF MoveAcquire, Target, instVars, connVars, moveVars, queueVars
<1>24. ASSUME NEW s \in Starter, 
               StarterFails(s) \/ StarterDone(s)
      PROVE  UNCHANGED <<istate, at, rpc>>
  BY <1>24 DEF StarterFails, StarterDone, instVars, connVars, moveVars, queueVars
<1>25. ASSUME NEW s \in Starter, NEW c \in Conn, StarterMove(s, c)
      PROVE  UNCHANGED <<istate, at, rpc>>
  BY <1>25 DEF StarterMove, instVars, connVars, moveVars, queueVars
<1>26. ASSUME NEW i \in Fresh, 
               EndGame(i) \/ JanitorLook(i)
      PROVE  UNCHANGED <<istate, at, rpc>>
  BY <1>26 DEF EndGame, JanitorLook, instVars, connVars, moveVars, queueVars
<1>27. ASSUME NEW i \in Inst, NEW c \in Conn, TeardownMove(i, c)
      PROVE  UNCHANGED <<istate, at, rpc>>
  BY <1>27 DEF TeardownMove, instVars, connVars, moveVars, queueVars
<1>28. ASSUME UNCHANGED vars PROVE UNCHANGED <<istate, at, rpc>>
  BY <1>28 DEF vars
<1>. QED
  BY <1>1, <1>2, <1>3, <1>4, <1>5, <1>6, <1>7, <1>8, <1>9, <1>10, <1>11, <1>12, <1>13, <1>14,
     <1>15, <1>16, <1>17, <1>18, <1>19, <1>20, <1>21, <1>22, <1>23, <1>24, <1>25, <1>26,
     <1>27, <1>28
    DEF Next, Reader, Cleanup, MoveStep, StarterStep, TeardownStep, Terminated

\* The cleanup has moveMu while it leaves.
LEMMA CleanupLockStep ==
  ASSUME WellTyped, CleanupHasLock, [Next]_vars
  PROVE  CleanupHasLock'
<1>. USE  DEF WellTyped, TypeOK, CleanupHasLock, Closed, Free
<1>1. ASSUME NEW c \in Conn, ReaderFails(c) PROVE CleanupHasLock'
  BY <1>1 DEF ReaderFails, instVars, connVars, moveVars, queueVars, Spawn, AtLoopTop
<1>2. ASSUME NEW c \in Conn, Kick(c) PROVE CleanupHasLock'
  BY <1>2 DEF Kick, instVars, connVars, moveVars, queueVars, Spawn
<1>3. ASSUME NEW c \in Conn, Shutdown(c) PROVE CleanupHasLock'
  BY <1>3 DEF Shutdown, instVars, connVars, moveVars, queueVars
<1>4. ASSUME NEW c \in Conn, CleanupDequeue(c) PROVE CleanupHasLock'
  BY <1>4 DEF CleanupDequeue, instVars, connVars, moveVars, queueVars
<1>5. ASSUME NEW c \in Conn, CleanupLock(c) PROVE CleanupHasLock'
  BY <1>5 DEF CleanupLock, instVars, connVars, moveVars, queueVars
<1>6. ASSUME NEW c \in Conn, CleanupLeave(c) PROVE CleanupHasLock'
  BY <1>6 DEF CleanupLeave, instVars, connVars, moveVars, queueVars, Leave
<1>7. ASSUME NEW c \in Conn, MoveCheck(c) PROVE CleanupHasLock'
  <2>1. CASE Return(c)
    BY <1>7, <2>1, ReturnTyped DEF MoveCheck, connVars, MovePc
  <2>2. CASE ~Closed(c) /\ Advance(c, "dequeue")
    <3>1. move[c] \in [pc : MovePc, to : Inst, by : Mover]
      BY <1>7, HeldMove DEF MoveCheck, MovePc
    <3>2. move'[c].pc = "dequeue" /\ \A x \in Conn \ {c} : move'[x] = move[x]
      BY <2>2, <3>1 DEF Advance
    <3>. QED
      BY <1>7, <2>2, <3>2 DEF MoveCheck, connVars
  <2>. QED
    BY <1>7, <2>1, <2>2 DEF MoveCheck
<1>8. ASSUME NEW c \in Conn, MoveDequeue(c) PROVE CleanupHasLock'
  BY <1>8 DEF MoveDequeue, instVars, connVars, moveVars, queueVars, Advance
<1>9. ASSUME NEW c \in Conn, MoveLeave(c) PROVE CleanupHasLock'
  BY <1>9 DEF MoveLeave, instVars, connVars, moveVars, queueVars, Advance, Leave
<1>10. ASSUME NEW c \in Conn, MoveRespawn(c) PROVE CleanupHasLock'
  BY <1>10 DEF MoveRespawn, instVars, connVars, moveVars, queueVars, Advance
<1>11. ASSUME NEW c \in Conn, MoveStream(c) PROVE CleanupHasLock'
  BY <1>11 DEF MoveStream, instVars, connVars, moveVars, queueVars, Advance
<1>12. ASSUME NEW c \in Conn, MoveWriteFails(c) PROVE CleanupHasLock'
  BY <1>12 DEF MoveWriteFails, instVars, connVars, moveVars, queueVars, Return
<1>13. ASSUME NEW c \in Conn, MoveJoin(c) PROVE CleanupHasLock'
  <2>1. CASE Return(c)
    BY <1>13, <2>1, ReturnTyped DEF MoveJoin, connVars, MovePc
  <2>2. CASE move' = [move EXCEPT ![c].to = Hub, ![c].pc = "check"]
    <3>1. move'[c].pc = "check" /\ \A x \in Conn \ {c} : move'[x] = move[x]
      <4>1. move[c] \in [pc : MovePc, to : Inst, by : Mover]
        BY <1>13, HeldMove DEF MoveJoin, MovePc
      <4>. QED
        BY <2>2, <4>1
    <3>. QED
      BY <1>13, <3>1 DEF MoveJoin, connVars
  <2>. QED
    BY <1>13, <2>1, <2>2 DEF MoveJoin
<1>14. ASSUME NEW p \in Mover, MoveAcquire(p) PROVE CleanupHasLock'
  BY <1>14 DEF MoveAcquire, instVars, connVars, moveVars, queueVars, Target
<1>15. CASE UNCHANGED <<cpc, move>>
  BY <1>15
<1>16. ASSUME NEW c \in Conn, 
               LoginEnter(c) \/ SendPlayPackets(c) \/ SendPlayFails(c) \/ LoginJoin(c) \/
               ReaderEnds(c) \/ ReadPacket(c) \/ Handled(c) \/ CmdHub(c)
      PROVE  UNCHANGED <<cpc, move>>
  BY <1>16
    DEF LoginEnter, SendPlayPackets, SendPlayFails, LoginJoin, ReaderEnds, ReadPacket,
        Handled, CmdHub, AtLoopTop, CallMove, Handling, instVars, connVars, moveVars,
        queueVars
<1>17. ASSUME NEW c \in Conn, 
               CmdLeave(c) \/ CmdPlayLeave(c) \/ CmdPlay(c)
      PROVE  UNCHANGED <<cpc, move>>
  BY <1>17
    DEF CmdLeave, CmdPlayLeave, CmdPlay, CallMove, Handling, instVars, connVars, moveVars,
        queueVars
<1>18. ASSUME NEW c \in Conn, NEW i \in Inst, CmdJoin(c, i)
      PROVE  UNCHANGED <<cpc, move>>
  BY <1>18 DEF CmdJoin, CallMove, Handling, instVars, connVars, moveVars, queueVars
<1>19. ASSUME NEW s \in Starter, NEW i \in Fresh, StarterCreate(s, i)
      PROVE  UNCHANGED <<cpc, move>>
  BY <1>19 DEF StarterCreate, Create, instVars, connVars, moveVars, queueVars
<1>20. ASSUME NEW s \in Starter, 
               StarterFails(s) \/ StarterDone(s)
      PROVE  UNCHANGED <<cpc, move>>
  BY <1>20 DEF StarterFails, StarterDone, instVars, connVars, moveVars, queueVars
<1>21. ASSUME NEW s \in Starter, NEW c \in Conn, StarterMove(s, c)
      PROVE  UNCHANGED <<cpc, move>>
  BY <1>21 DEF StarterMove, instVars, connVars, moveVars, queueVars
<1>22. ASSUME NEW i \in Fresh, 
               CreateArena(i) \/ EndGame(i) \/ JanitorLook(i)
      PROVE  UNCHANGED <<cpc, move>>
  BY <1>22 DEF CreateArena, EndGame, JanitorLook, Create, instVars, connVars, moveVars, queueVars
<1>23. ASSUME NEW i \in Inst, NEW c \in Conn, TeardownMove(i, c)
      PROVE  UNCHANGED <<cpc, move>>
  BY <1>23 DEF TeardownMove, instVars, connVars, moveVars, queueVars
<1>24. ASSUME NEW i \in Inst, 
               TeardownRemove(i) \/ InstanceDelete(i)
      PROVE  UNCHANGED <<cpc, move>>
  BY <1>24
    DEF TeardownRemove, InstanceDelete, Removable, Remove, instVars, connVars, moveVars,
        queueVars
<1>25. ASSUME JanitorRemove
      PROVE  UNCHANGED <<cpc, move>>
  BY <1>25 DEF JanitorRemove, Removable, Remove, instVars, connVars, moveVars, queueVars
<1>26. ASSUME UNCHANGED vars PROVE UNCHANGED <<cpc, move>>
  BY <1>26 DEF vars
<1>. QED
  BY <1>1, <1>2, <1>3, <1>4, <1>5, <1>6, <1>7, <1>8, <1>9, <1>10, <1>11, <1>12, <1>13, <1>14,
     <1>15, <1>16, <1>17, <1>18, <1>19, <1>20, <1>21, <1>22, <1>23, <1>24, <1>25, <1>26
    DEF Next, Reader, Cleanup, MoveStep, StarterStep, TeardownStep, Terminated

\* A read loop waits for its own call.
LEMMA CallerStep ==
  ASSUME WellTyped, CallerWaits, [Next]_vars
  PROVE  CallerWaits'
<1>. USE InstAssumption, ProcessAssumption DEF WellTyped, TypeOK, CallerWaits, Mover
<1>1. ASSUME NEW c \in Conn, LoginEnter(c) PROVE CallerWaits'
  BY <1>1 DEF LoginEnter, instVars, connVars, moveVars, queueVars
<1>2. ASSUME NEW c \in Conn, SendPlayPackets(c) PROVE CallerWaits'
  BY <1>2 DEF SendPlayPackets, instVars, connVars, moveVars, queueVars
<1>3. ASSUME NEW c \in Conn, SendPlayFails(c) PROVE CallerWaits'
  BY <1>3 DEF SendPlayFails, instVars, connVars, moveVars, queueVars
<1>4. ASSUME NEW c \in Conn, LoginJoin(c) PROVE CallerWaits'
  BY <1>4 DEF LoginJoin, instVars, connVars, moveVars, queueVars
<1>5. ASSUME NEW c \in Conn, ReaderEnds(c) PROVE CallerWaits'
  BY <1>5 DEF ReaderEnds, instVars, connVars, moveVars, queueVars, AtLoopTop
<1>6. ASSUME NEW c \in Conn, ReaderFails(c) PROVE CallerWaits'
  BY <1>6 DEF ReaderFails, instVars, connVars, moveVars, queueVars, Spawn, AtLoopTop
<1>7. ASSUME NEW c \in Conn, ReadPacket(c) PROVE CallerWaits'
  BY <1>7 DEF ReadPacket, instVars, connVars, moveVars, queueVars
<1>8. ASSUME NEW c \in Conn, Handled(c) PROVE CallerWaits'
  BY <1>8 DEF Handled, instVars, connVars, moveVars, queueVars, Handling
<1>9. ASSUME NEW c \in Conn, CmdHub(c) PROVE CallerWaits'
  BY <1>9 DEF CmdHub, instVars, connVars, moveVars, queueVars, Handling, CallMove
<1>10. ASSUME NEW c \in Conn, CmdLeave(c) PROVE CallerWaits'
  BY <1>10 DEF CmdLeave, instVars, connVars, moveVars, queueVars, Handling, CallMove
<1>11. ASSUME NEW c \in Conn, CmdPlayLeave(c) PROVE CallerWaits'
  BY <1>11 DEF CmdPlayLeave, instVars, connVars, moveVars, queueVars, Handling
<1>12. ASSUME NEW c \in Conn, CmdPlay(c) PROVE CallerWaits'
  BY <1>12 DEF CmdPlay, instVars, connVars, moveVars, queueVars, Handling
<1>13. ASSUME NEW c \in Conn, MoveCheck(c) PROVE CallerWaits'
  BY <1>13 DEF MoveCheck, instVars, connVars, moveVars, queueVars, Return, Advance
<1>14. ASSUME NEW c \in Conn, MoveDequeue(c) PROVE CallerWaits'
  BY <1>14 DEF MoveDequeue, instVars, connVars, moveVars, queueVars, Advance
<1>15. ASSUME NEW c \in Conn, MoveLeave(c) PROVE CallerWaits'
  BY <1>15 DEF MoveLeave, instVars, connVars, moveVars, queueVars, Advance, Leave
<1>16. ASSUME NEW c \in Conn, MoveRespawn(c) PROVE CallerWaits'
  BY <1>16 DEF MoveRespawn, instVars, connVars, moveVars, queueVars, Advance
<1>17. ASSUME NEW c \in Conn, MoveStream(c) PROVE CallerWaits'
  BY <1>17 DEF MoveStream, instVars, connVars, moveVars, queueVars, Advance
<1>18. ASSUME NEW c \in Conn, MoveWriteFails(c) PROVE CallerWaits'
  BY <1>18 DEF MoveWriteFails, instVars, connVars, moveVars, queueVars, Return
<1>19. ASSUME NEW c \in Conn, MoveJoin(c) PROVE CallerWaits'
  BY <1>19 DEF MoveJoin, instVars, connVars, moveVars, queueVars, Return
<1>20. ASSUME NEW c \in Conn, NEW i \in Inst, CmdJoin(c, i) PROVE CallerWaits'
  BY <1>20 DEF CmdJoin, instVars, connVars, moveVars, queueVars, Handling, CallMove
<1>21. ASSUME NEW s \in Starter, NEW c \in Conn, StarterMove(s, c) PROVE CallerWaits'
  BY <1>21 DEF StarterMove, instVars, connVars, moveVars, queueVars
<1>22. ASSUME NEW i \in Inst, NEW c \in Conn, TeardownMove(i, c) PROVE CallerWaits'
  BY <1>22 DEF TeardownMove, instVars, connVars, moveVars, queueVars
<1>23. CASE UNCHANGED <<rpc, call>>
  BY <1>23
<1>24. ASSUME NEW c \in Conn, 
               Kick(c) \/ Shutdown(c) \/ CleanupDequeue(c) \/ CleanupLock(c) \/ CleanupLeave(c)
      PROVE  UNCHANGED <<rpc, call>>
  BY <1>24
    DEF Kick, Shutdown, CleanupDequeue, CleanupLock, CleanupLeave, Leave, Spawn, instVars,
        connVars, moveVars, queueVars
<1>25. ASSUME NEW p \in Mover, MoveAcquire(p)
      PROVE  UNCHANGED <<rpc, call>>
  BY <1>25 DEF MoveAcquire, Target, instVars, connVars, moveVars, queueVars
<1>26. ASSUME NEW s \in Starter, NEW i \in Fresh, StarterCreate(s, i)
      PROVE  UNCHANGED <<rpc, call>>
  BY <1>26 DEF StarterCreate, Create, instVars, connVars, moveVars, queueVars
<1>27. ASSUME NEW s \in Starter, 
               StarterFails(s) \/ StarterDone(s)
      PROVE  UNCHANGED <<rpc, call>>
  BY <1>27 DEF StarterFails, StarterDone, instVars, connVars, moveVars, queueVars
<1>28. ASSUME NEW i \in Fresh, 
               CreateArena(i) \/ EndGame(i) \/ JanitorLook(i)
      PROVE  UNCHANGED <<rpc, call>>
  BY <1>28 DEF CreateArena, EndGame, JanitorLook, Create, instVars, connVars, moveVars, queueVars
<1>29. ASSUME NEW i \in Inst, 
               TeardownRemove(i) \/ InstanceDelete(i)
      PROVE  UNCHANGED <<rpc, call>>
  BY <1>29
    DEF TeardownRemove, InstanceDelete, Removable, Remove, instVars, connVars, moveVars,
        queueVars
<1>30. ASSUME JanitorRemove
      PROVE  UNCHANGED <<rpc, call>>
  BY <1>30 DEF JanitorRemove, Removable, Remove, instVars, connVars, moveVars, queueVars
<1>31. ASSUME UNCHANGED vars PROVE UNCHANGED <<rpc, call>>
  BY <1>31 DEF vars
<1>. QED
  BY <1>1, <1>2, <1>3, <1>4, <1>5, <1>6, <1>7, <1>8, <1>9, <1>10, <1>11, <1>12, <1>13, <1>14,
     <1>15, <1>16, <1>17, <1>18, <1>19, <1>20, <1>21, <1>22, <1>23, <1>24, <1>25, <1>26,
     <1>27, <1>28, <1>29, <1>30, <1>31
    DEF Next, Reader, Cleanup, MoveStep, StarterStep, TeardownStep, Terminated

\* A read loop that ended is closing.
LEMMA EndedStep ==
  ASSUME WellTyped, EndedIsClosing, [Next]_vars
  PROVE  EndedIsClosing'
<1>. USE  DEF WellTyped, TypeOK, EndedIsClosing, Closed
<1>1. ASSUME NEW c \in Conn, LoginEnter(c) PROVE EndedIsClosing'
  BY <1>1 DEF LoginEnter, instVars, connVars, moveVars, queueVars
<1>2. ASSUME NEW c \in Conn, SendPlayPackets(c) PROVE EndedIsClosing'
  BY <1>2 DEF SendPlayPackets, instVars, connVars, moveVars, queueVars
<1>3. ASSUME NEW c \in Conn, SendPlayFails(c) PROVE EndedIsClosing'
  BY <1>3 DEF SendPlayFails, instVars, connVars, moveVars, queueVars
<1>4. ASSUME NEW c \in Conn, LoginJoin(c) PROVE EndedIsClosing'
  BY <1>4 DEF LoginJoin, instVars, connVars, moveVars, queueVars
<1>5. ASSUME NEW c \in Conn, ReaderEnds(c) PROVE EndedIsClosing'
  BY <1>5 DEF ReaderEnds, instVars, connVars, moveVars, queueVars, AtLoopTop
<1>6. ASSUME NEW c \in Conn, ReaderFails(c) PROVE EndedIsClosing'
  BY <1>6 DEF ReaderFails, instVars, connVars, moveVars, queueVars, Spawn, AtLoopTop
<1>7. ASSUME NEW c \in Conn, ReadPacket(c) PROVE EndedIsClosing'
  BY <1>7 DEF ReadPacket, instVars, connVars, moveVars, queueVars
<1>8. ASSUME NEW c \in Conn, Handled(c) PROVE EndedIsClosing'
  BY <1>8 DEF Handled, instVars, connVars, moveVars, queueVars, Handling
<1>9. ASSUME NEW c \in Conn, CmdHub(c) PROVE EndedIsClosing'
  BY <1>9 DEF CmdHub, instVars, connVars, moveVars, queueVars, Handling, CallMove
<1>10. ASSUME NEW c \in Conn, CmdLeave(c) PROVE EndedIsClosing'
  BY <1>10 DEF CmdLeave, instVars, connVars, moveVars, queueVars, Handling, CallMove
<1>11. ASSUME NEW c \in Conn, CmdPlayLeave(c) PROVE EndedIsClosing'
  BY <1>11 DEF CmdPlayLeave, instVars, connVars, moveVars, queueVars, Handling
<1>12. ASSUME NEW c \in Conn, CmdPlay(c) PROVE EndedIsClosing'
  BY <1>12 DEF CmdPlay, instVars, connVars, moveVars, queueVars, Handling
<1>13. ASSUME NEW c \in Conn, Kick(c) PROVE EndedIsClosing'
  BY <1>13 DEF Kick, instVars, connVars, moveVars, queueVars, Spawn
<1>14. ASSUME NEW c \in Conn, Shutdown(c) PROVE EndedIsClosing'
  BY <1>14 DEF Shutdown, instVars, connVars, moveVars, queueVars
<1>15. ASSUME NEW c \in Conn, CleanupDequeue(c) PROVE EndedIsClosing'
  BY <1>15 DEF CleanupDequeue, instVars, connVars, moveVars, queueVars
<1>16. ASSUME NEW c \in Conn, CleanupLock(c) PROVE EndedIsClosing'
  BY <1>16 DEF CleanupLock, instVars, connVars, moveVars, queueVars
<1>17. ASSUME NEW c \in Conn, CleanupLeave(c) PROVE EndedIsClosing'
  BY <1>17 DEF CleanupLeave, instVars, connVars, moveVars, queueVars, Leave
<1>18. ASSUME NEW c \in Conn, NEW i \in Inst, CmdJoin(c, i) PROVE EndedIsClosing'
  BY <1>18 DEF CmdJoin, instVars, connVars, moveVars, queueVars, Handling, CallMove
<1>19. CASE UNCHANGED <<rpc, cpc>>
  BY <1>19
<1>20. ASSUME NEW c \in Conn, 
               MoveCheck(c) \/ MoveDequeue(c) \/ MoveLeave(c) \/ MoveRespawn(c) \/
               MoveStream(c) \/ MoveWriteFails(c) \/ MoveJoin(c)
      PROVE  UNCHANGED <<rpc, cpc>>
  BY <1>20
    DEF MoveCheck, MoveDequeue, MoveLeave, MoveRespawn, MoveStream, MoveWriteFails, MoveJoin,
        Advance, Leave, Return, instVars, connVars, moveVars, queueVars
<1>21. ASSUME NEW p \in Mover, MoveAcquire(p)
      PROVE  UNCHANGED <<rpc, cpc>>
  BY <1>21 DEF MoveAcquire, Target, instVars, connVars, moveVars, queueVars
<1>22. ASSUME NEW s \in Starter, NEW i \in Fresh, StarterCreate(s, i)
      PROVE  UNCHANGED <<rpc, cpc>>
  BY <1>22 DEF StarterCreate, Create, instVars, connVars, moveVars, queueVars
<1>23. ASSUME NEW s \in Starter, 
               StarterFails(s) \/ StarterDone(s)
      PROVE  UNCHANGED <<rpc, cpc>>
  BY <1>23 DEF StarterFails, StarterDone, instVars, connVars, moveVars, queueVars
<1>24. ASSUME NEW s \in Starter, NEW c \in Conn, StarterMove(s, c)
      PROVE  UNCHANGED <<rpc, cpc>>
  BY <1>24 DEF StarterMove, instVars, connVars, moveVars, queueVars
<1>25. ASSUME NEW i \in Fresh, 
               CreateArena(i) \/ EndGame(i) \/ JanitorLook(i)
      PROVE  UNCHANGED <<rpc, cpc>>
  BY <1>25 DEF CreateArena, EndGame, JanitorLook, Create, instVars, connVars, moveVars, queueVars
<1>26. ASSUME NEW i \in Inst, NEW c \in Conn, TeardownMove(i, c)
      PROVE  UNCHANGED <<rpc, cpc>>
  BY <1>26 DEF TeardownMove, instVars, connVars, moveVars, queueVars
<1>27. ASSUME NEW i \in Inst, 
               TeardownRemove(i) \/ InstanceDelete(i)
      PROVE  UNCHANGED <<rpc, cpc>>
  BY <1>27
    DEF TeardownRemove, InstanceDelete, Removable, Remove, instVars, connVars, moveVars,
        queueVars
<1>28. ASSUME JanitorRemove
      PROVE  UNCHANGED <<rpc, cpc>>
  BY <1>28 DEF JanitorRemove, Removable, Remove, instVars, connVars, moveVars, queueVars
<1>29. ASSUME UNCHANGED vars PROVE UNCHANGED <<rpc, cpc>>
  BY <1>29 DEF vars
<1>. QED
  BY <1>1, <1>2, <1>3, <1>4, <1>5, <1>6, <1>7, <1>8, <1>9, <1>10, <1>11, <1>12, <1>13, <1>14,
     <1>15, <1>16, <1>17, <1>18, <1>19, <1>20, <1>21, <1>22, <1>23, <1>24, <1>25, <1>26,
     <1>27, <1>28, <1>29
    DEF Next, Reader, Cleanup, MoveStep, StarterStep, TeardownStep, Terminated

\* Going on, returning and a new call keep every lock with its call.
LEMMA AdvanceHolds ==
  ASSUME move \in [Conn -> Moves], LockHasCaller,
         NEW c \in Conn, move[c].pc \in MovePc, NEW pc \in MovePc, Advance(c, pc)
  PROVE  LockHasCaller'
<1>1. move[c] \in [pc : MovePc, to : Inst, by : Mover]
  BY HeldMove
<1>2. move'[c].by = move[c].by /\ \A x \in Conn \ {c} : move'[x] = move[x]
  BY <1>1, AdvanceTyped DEF Advance
<1>. QED
  BY <1>2 DEF LockHasCaller, Advance

\* A return leaves every other lock with its caller.
LEMMA ReturnHolds ==
  ASSUME move \in [Conn -> Moves], call \in [Mover -> Calls], LockHasCaller,
         NEW c \in Conn, move[c].pc \in MovePc, Return(c)
  PROVE  LockHasCaller'
<1>1. move' = [move EXCEPT ![c] = Free] /\ call' = [call EXCEPT ![move[c].by] = NoCall]
  BY ReturnTyped
<1>2. SUFFICES ASSUME NEW x \in Conn, move'[x].pc \in MovePc
               PROVE  call'[move'[x].by].c = x
  BY DEF LockHasCaller
<1>3. x # c /\ move'[x] = move[x]
  BY <1>1, <1>2 DEF Free, MovePc
<1>4. call[move[x].by].c = x /\ call[move[c].by].c = c /\ move[x].by \in Mover
  BY <1>2, <1>3, HeldMove DEF LockHasCaller
<1>. QED
  BY <1>1, <1>3, <1>4

\* A new call takes no lock away from its caller.
LEMMA CallHolds ==
  ASSUME move \in [Conn -> Moves], call \in [Mover -> Calls], LockHasCaller,
         NEW p \in Mover, call[p] = NoCall, NEW r, call' = [call EXCEPT ![p] = r],
         UNCHANGED move
  PROVE  LockHasCaller'
<1>1. SUFFICES ASSUME NEW x \in Conn, move[x].pc \in MovePc
               PROVE  call'[move[x].by].c = x
  BY DEF LockHasCaller
<1>2. call[move[x].by].c = x /\ move[x].by \in Mover
  BY <1>1, HeldMove DEF LockHasCaller
<1>3. move[x].by # p
  BY <1>2, ProcessAssumption DEF NoCall
<1>. QED
  BY <1>2, <1>3

\* moveMu is held for the call it was taken for.
LEMMA LockStep ==
  ASSUME WellTyped, LockHasCaller, CallerWaits, [Next]_vars
  PROVE  LockHasCaller'
<1>. USE InstAssumption, ProcessAssumption
<1>1. ASSUME NEW c \in Conn, CmdHub(c) PROVE LockHasCaller'
  <2>1. call[c] = NoCall /\ c \in Mover
    BY <1>1 DEF CmdHub, Handling, CallerWaits, Mover
  <2>. QED
    BY <1>1, <2>1, CallHolds DEF CmdHub, CallMove, LockHasCaller, WellTyped, TypeOK
<1>2. ASSUME NEW c \in Conn, CmdLeave(c) PROVE LockHasCaller'
  <2>1. call[c] = NoCall /\ c \in Mover
    BY <1>2 DEF CmdLeave, Handling, CallerWaits, Mover
  <2>. QED
    BY <1>2, <2>1, CallHolds DEF CmdLeave, CallMove, LockHasCaller, WellTyped, TypeOK
<1>3. ASSUME NEW c \in Conn, CleanupLock(c) PROVE LockHasCaller'
  BY <1>3 DEF CleanupLock, LockHasCaller, Free, MovePc, WellTyped, TypeOK
<1>4. ASSUME NEW c \in Conn, CleanupLeave(c) PROVE LockHasCaller'
  BY <1>4 DEF CleanupLeave, LockHasCaller, Free, MovePc, WellTyped, TypeOK
<1>5. ASSUME NEW c \in Conn, MoveCheck(c) PROVE LockHasCaller'
  BY <1>5, ReturnHolds, AdvanceHolds DEF MoveCheck, MovePc, WellTyped, TypeOK
<1>6. ASSUME NEW c \in Conn, MoveDequeue(c) PROVE LockHasCaller'
  BY <1>6, AdvanceHolds DEF MoveDequeue, MovePc, WellTyped, TypeOK
<1>7. ASSUME NEW c \in Conn, MoveLeave(c) PROVE LockHasCaller'
  BY <1>7, AdvanceHolds DEF MoveLeave, MovePc, WellTyped, TypeOK
<1>8. ASSUME NEW c \in Conn, MoveRespawn(c) PROVE LockHasCaller'
  BY <1>8, AdvanceHolds DEF MoveRespawn, MovePc, WellTyped, TypeOK
<1>9. ASSUME NEW c \in Conn, MoveStream(c) PROVE LockHasCaller'
  BY <1>9, AdvanceHolds DEF MoveStream, MovePc, WellTyped, TypeOK
<1>10. ASSUME NEW c \in Conn, MoveWriteFails(c) PROVE LockHasCaller'
  BY <1>10, ReturnHolds DEF MoveWriteFails, MovePc, WellTyped, TypeOK
<1>11. ASSUME NEW c \in Conn, MoveJoin(c) PROVE LockHasCaller'
  <2>1. CASE Return(c)
    BY <1>11, <2>1, ReturnHolds DEF MoveJoin, MovePc, WellTyped, TypeOK
  <2>2. CASE move' = [move EXCEPT ![c].to = Hub, ![c].pc = "check"] /\ UNCHANGED call
    <3>1. move[c] \in [pc : MovePc, to : Inst, by : Mover]
      BY <1>11, HeldMove DEF MoveJoin, MovePc, WellTyped, TypeOK
    <3>2. move'[c].by = move[c].by /\ \A x \in Conn \ {c} : move'[x] = move[x]
      BY <2>2, <3>1 DEF WellTyped, TypeOK
    <3>. QED
      BY <1>11, <2>2, <3>2 DEF LockHasCaller, MoveJoin, MovePc
  <2>. QED
    BY <1>11, <2>1, <2>2 DEF MoveJoin
<1>12. ASSUME NEW c \in Conn, NEW i \in Inst, CmdJoin(c, i) PROVE LockHasCaller'
  <2>1. call[c] = NoCall /\ c \in Mover
    BY <1>12 DEF CmdJoin, Handling, CallerWaits, Mover
  <2>. QED
    BY <1>12, <2>1, CallHolds DEF CmdJoin, CallMove, WellTyped, TypeOK
<1>13. ASSUME NEW p \in Mover, MoveAcquire(p) PROVE LockHasCaller'
  BY <1>13, PendingCall DEF MoveAcquire, Target, LockHasCaller, MovePc, WellTyped, TypeOK, connVars
<1>14. ASSUME NEW s \in Starter, NEW c \in Conn, StarterMove(s, c) PROVE LockHasCaller'
  BY <1>14, CallHolds DEF StarterMove, Mover, WellTyped, TypeOK
<1>15. ASSUME NEW i \in Inst, NEW c \in Conn, TeardownMove(i, c) PROVE LockHasCaller'
  BY <1>15, CallHolds DEF TeardownMove, Mover, WellTyped, TypeOK
<1>16. CASE UNCHANGED <<move, call>>
  BY <1>16 DEF LockHasCaller
<1>17. ASSUME NEW c \in Conn, 
               LoginEnter(c) \/ SendPlayPackets(c) \/ SendPlayFails(c) \/ LoginJoin(c) \/
               ReaderEnds(c) \/ ReaderFails(c) \/ ReadPacket(c) \/ Handled(c)
      PROVE  UNCHANGED <<move, call>>
  BY <1>17
    DEF LoginEnter, SendPlayPackets, SendPlayFails, LoginJoin, ReaderEnds, ReaderFails,
        ReadPacket, Handled, AtLoopTop, Handling, Spawn, instVars, connVars, moveVars,
        queueVars
<1>18. ASSUME NEW c \in Conn, 
               CmdPlayLeave(c) \/ CmdPlay(c) \/ Kick(c) \/ Shutdown(c) \/ CleanupDequeue(c)
      PROVE  UNCHANGED <<move, call>>
  BY <1>18
    DEF CmdPlayLeave, CmdPlay, Kick, Shutdown, CleanupDequeue, Handling, Spawn, instVars,
        connVars, moveVars, queueVars
<1>19. ASSUME NEW s \in Starter, NEW i \in Fresh, StarterCreate(s, i)
      PROVE  UNCHANGED <<move, call>>
  BY <1>19 DEF StarterCreate, Create, instVars, connVars, moveVars, queueVars
<1>20. ASSUME NEW s \in Starter, 
               StarterFails(s) \/ StarterDone(s)
      PROVE  UNCHANGED <<move, call>>
  BY <1>20 DEF StarterFails, StarterDone, instVars, connVars, moveVars, queueVars
<1>21. ASSUME NEW i \in Fresh, 
               CreateArena(i) \/ EndGame(i) \/ JanitorLook(i)
      PROVE  UNCHANGED <<move, call>>
  BY <1>21 DEF CreateArena, EndGame, JanitorLook, Create, instVars, connVars, moveVars, queueVars
<1>22. ASSUME NEW i \in Inst, 
               TeardownRemove(i) \/ InstanceDelete(i)
      PROVE  UNCHANGED <<move, call>>
  BY <1>22
    DEF TeardownRemove, InstanceDelete, Removable, Remove, instVars, connVars, moveVars,
        queueVars
<1>23. ASSUME JanitorRemove
      PROVE  UNCHANGED <<move, call>>
  BY <1>23 DEF JanitorRemove, Removable, Remove, instVars, connVars, moveVars, queueVars
<1>24. ASSUME UNCHANGED vars PROVE UNCHANGED <<move, call>>
  BY <1>24 DEF vars
<1>. QED
  BY <1>1, <1>2, <1>3, <1>4, <1>5, <1>6, <1>7, <1>8, <1>9, <1>10, <1>11, <1>12, <1>13, <1>14,
     <1>15, <1>16, <1>17, <1>18, <1>19, <1>20, <1>21, <1>22, <1>23, <1>24
    DEF Next, Reader, Cleanup, MoveStep, StarterStep, TeardownStep, Terminated

\* What going on, returning and starting over leave of the other moves.
LEMMA AdvanceShape ==
  ASSUME move \in [Conn -> Moves], NEW c \in Conn, move[c].pc \in MovePc,
         NEW pc \in MovePc, Advance(c, pc)
  PROVE  /\ call' = call /\ move'[c].pc = pc
         /\ \A x \in Conn : move'[x].to = move[x].to /\ move'[x].by = move[x].by
         /\ \A x \in Conn \ {c} : move'[x] = move[x]
<1>1. move[c] \in [pc : MovePc, to : Inst, by : Mover]
  BY HeldMove
<1>. QED
  BY <1>1 DEF Advance

\* A return frees one lock and clears one call.
LEMMA ReturnShape ==
  ASSUME move \in [Conn -> Moves], call \in [Mover -> Calls],
         NEW c \in Conn, move[c].pc \in MovePc, Return(c)
  PROVE  /\ move'[c] = Free /\ \A x \in Conn \ {c} : move'[x] = move[x]
         /\ \A p \in Mover : call'[p] \in {call[p], NoCall}
BY ReturnTyped

\* Starting over for the hub keeps moveMu with the caller that has it.
LEMMA RetryShape ==
  ASSUME move \in [Conn -> Moves], NEW c \in Conn, move[c].pc \in MovePc,
         move' = [move EXCEPT ![c].to = Hub, ![c].pc = "check"]
  PROVE  /\ move'[c].pc = "check" /\ move'[c].to = Hub
         /\ \A x \in Conn \ {c} : move'[x] = move[x]
<1>1. move[c] \in [pc : MovePc, to : Inst, by : Mover]
  BY HeldMove
<1>. QED
  BY <1>1

\* Nobody finds a player before its login has joined.
LEMMA UnknownStep ==
  ASSUME WellTyped, UnknownBeforeJoin, [Next]_vars
  PROVE  UnknownBeforeJoin'
<1>. USE InstAssumption, ProcessAssumption
<1>1. ASSUME NEW c \in Conn, LoginEnter(c) PROVE UnknownBeforeJoin'
  BY <1>1
    DEF LoginEnter, instVars, connVars, moveVars, queueVars, UnknownBeforeJoin, WellTyped,
        TypeOK
<1>2. ASSUME NEW c \in Conn, SendPlayPackets(c) PROVE UnknownBeforeJoin'
  BY <1>2
    DEF SendPlayPackets, instVars, connVars, moveVars, queueVars, UnknownBeforeJoin,
        WellTyped, TypeOK
<1>3. ASSUME NEW c \in Conn, SendPlayFails(c) PROVE UnknownBeforeJoin'
  BY <1>3
    DEF SendPlayFails, instVars, connVars, moveVars, queueVars, UnknownBeforeJoin, WellTyped,
        TypeOK
<1>4. ASSUME NEW c \in Conn, LoginJoin(c) PROVE UnknownBeforeJoin'
  BY <1>4
    DEF LoginJoin, instVars, connVars, moveVars, queueVars, UnknownBeforeJoin, WellTyped,
        TypeOK
<1>5. ASSUME NEW c \in Conn, ReaderEnds(c) PROVE UnknownBeforeJoin'
  BY <1>5
    DEF ReaderEnds, instVars, connVars, moveVars, queueVars, AtLoopTop, UnknownBeforeJoin,
        WellTyped, TypeOK
<1>6. ASSUME NEW c \in Conn, ReaderFails(c) PROVE UnknownBeforeJoin'
  BY <1>6
    DEF ReaderFails, instVars, connVars, moveVars, queueVars, Spawn, AtLoopTop,
        UnknownBeforeJoin, WellTyped, TypeOK
<1>7. ASSUME NEW c \in Conn, ReadPacket(c) PROVE UnknownBeforeJoin'
  BY <1>7
    DEF ReadPacket, instVars, connVars, moveVars, queueVars, UnknownBeforeJoin, WellTyped,
        TypeOK
<1>8. ASSUME NEW c \in Conn, Handled(c) PROVE UnknownBeforeJoin'
  BY <1>8
    DEF Handled, instVars, connVars, moveVars, queueVars, Handling, UnknownBeforeJoin,
        WellTyped, TypeOK
<1>9. ASSUME NEW c \in Conn, CmdHub(c) PROVE UnknownBeforeJoin'
  <2>1. CASE UNCHANGED call
    BY <1>9, <2>1 DEF CmdHub, Handling, CallMove, UnknownBeforeJoin, instVars, WellTyped, TypeOK
  <2>2. CASE CallMove(c, Hub)
    <3>1. rpc' = [rpc EXCEPT ![c] = "play"] /\ \A p \in Mover : call'[p] = call[p] \/ call'[p].c = c
      BY <2>2 DEF CallMove, WellTyped, TypeOK
    <3>. QED
      BY <1>9, <3>1 DEF CmdHub, Handling, UnknownBeforeJoin, WellTyped, TypeOK, instVars
  <2>. QED
    BY <1>9, <2>1, <2>2 DEF CmdHub
<1>10. ASSUME NEW c \in Conn, CmdLeave(c) PROVE UnknownBeforeJoin'
  BY <1>10
    DEF CmdLeave, instVars, connVars, moveVars, queueVars, Handling, CallMove, NoCall, Mover,
        UnknownBeforeJoin, WellTyped, TypeOK
<1>11. ASSUME NEW c \in Conn, CmdPlayLeave(c) PROVE UnknownBeforeJoin'
  BY <1>11
    DEF CmdPlayLeave, instVars, connVars, moveVars, queueVars, Handling, UnknownBeforeJoin,
        WellTyped, TypeOK
<1>12. ASSUME NEW c \in Conn, CmdPlay(c) PROVE UnknownBeforeJoin'
  BY <1>12
    DEF CmdPlay, instVars, connVars, moveVars, queueVars, Handling, UnknownBeforeJoin,
        WellTyped, TypeOK
<1>13. ASSUME NEW c \in Conn, CleanupDequeue(c) PROVE UnknownBeforeJoin'
  BY <1>13
    DEF CleanupDequeue, instVars, connVars, moveVars, queueVars, UnknownBeforeJoin,
        WellTyped, TypeOK
<1>14. ASSUME NEW c \in Conn, CleanupLock(c) PROVE UnknownBeforeJoin'
  BY <1>14
    DEF CleanupLock, instVars, connVars, moveVars, queueVars, UnknownBeforeJoin, WellTyped,
        TypeOK, Free
<1>15. ASSUME NEW c \in Conn, CleanupLeave(c) PROVE UnknownBeforeJoin'
  BY <1>15
    DEF CleanupLeave, instVars, connVars, moveVars, queueVars, Leave, UnknownBeforeJoin,
        WellTyped, TypeOK, Free
<1>16. ASSUME NEW c \in Conn, MoveCheck(c) PROVE UnknownBeforeJoin'
  <2>1. CASE Return(c)
    <3>1. /\ move'[c] = Free /\ \A x \in Conn \ {c} : move'[x] = move[x]
          /\ \A p \in Mover : call'[p] \in {call[p], NoCall}
      BY <1>16, <2>1, ReturnShape DEF MoveCheck, MovePc, WellTyped, TypeOK
    <3>. QED
      BY SMTT(20), <1>16, <3>1
        DEF MoveCheck, UnknownBeforeJoin, WellTyped, TypeOK, instVars, connVars, moveVars,
            queueVars, Free, NoCall
  <2>2. CASE Advance(c, "dequeue")
    <3>1. /\ call' = call /\ move'[c].pc = "dequeue"
          /\ \A x \in Conn : move'[x].to = move[x].to /\ move'[x].by = move[x].by
          /\ \A x \in Conn \ {c} : move'[x] = move[x]
      BY <1>16, <2>2, AdvanceShape DEF MoveCheck, MovePc, WellTyped, TypeOK
    <3>. QED
      BY <1>16, <3>1
        DEF MoveCheck, UnknownBeforeJoin, WellTyped, TypeOK, instVars, connVars, moveVars,
            queueVars, Free, NoCall
  <2>. QED
    BY <1>16, <2>1, <2>2 DEF MoveCheck
<1>17. ASSUME NEW c \in Conn, MoveDequeue(c) PROVE UnknownBeforeJoin'
  <2>1. /\ call' = call /\ move'[c].pc = "leave" /\ move[c].pc \in MovePc
        /\ \A x \in Conn : move'[x].to = move[x].to /\ move'[x].by = move[x].by
        /\ \A x \in Conn \ {c} : move'[x] = move[x]
    BY <1>17, AdvanceShape DEF MoveDequeue, MovePc, WellTyped, TypeOK
  <2>. QED
    BY <1>17, <2>1
      DEF MoveDequeue, Leave, UnknownBeforeJoin, WellTyped, TypeOK, instVars, connVars,
          moveVars, queueVars, Free, NoCall
<1>18. ASSUME NEW c \in Conn, MoveLeave(c) PROVE UnknownBeforeJoin'
  <2>1. /\ call' = call /\ move'[c].pc = "respawn" /\ move[c].pc \in MovePc
        /\ \A x \in Conn : move'[x].to = move[x].to /\ move'[x].by = move[x].by
        /\ \A x \in Conn \ {c} : move'[x] = move[x]
    BY <1>18, AdvanceShape DEF MoveLeave, MovePc, WellTyped, TypeOK
  <2>. QED
    BY <1>18, <2>1
      DEF MoveLeave, Leave, UnknownBeforeJoin, WellTyped, TypeOK, instVars, connVars,
          moveVars, queueVars, Free, NoCall
<1>19. ASSUME NEW c \in Conn, MoveRespawn(c) PROVE UnknownBeforeJoin'
  <2>1. /\ call' = call /\ move'[c].pc = "stream" /\ move[c].pc \in MovePc
        /\ \A x \in Conn : move'[x].to = move[x].to /\ move'[x].by = move[x].by
        /\ \A x \in Conn \ {c} : move'[x] = move[x]
    BY <1>19, AdvanceShape DEF MoveRespawn, MovePc, WellTyped, TypeOK
  <2>. QED
    BY <1>19, <2>1
      DEF MoveRespawn, Leave, UnknownBeforeJoin, WellTyped, TypeOK, instVars, connVars,
          moveVars, queueVars, Free, NoCall
<1>20. ASSUME NEW c \in Conn, MoveStream(c) PROVE UnknownBeforeJoin'
  <2>1. /\ call' = call /\ move'[c].pc = "join" /\ move[c].pc \in MovePc
        /\ \A x \in Conn : move'[x].to = move[x].to /\ move'[x].by = move[x].by
        /\ \A x \in Conn \ {c} : move'[x] = move[x]
    BY <1>20, AdvanceShape DEF MoveStream, MovePc, WellTyped, TypeOK
  <2>. QED
    BY <1>20, <2>1
      DEF MoveStream, Leave, UnknownBeforeJoin, WellTyped, TypeOK, instVars, connVars,
          moveVars, queueVars, Free, NoCall
<1>21. ASSUME NEW c \in Conn, MoveWriteFails(c) PROVE UnknownBeforeJoin'
  <2>1. /\ move'[c] = Free /\ \A x \in Conn \ {c} : move'[x] = move[x]
        /\ \A p \in Mover : call'[p] \in {call[p], NoCall}
    BY <1>21, ReturnShape DEF MoveWriteFails, MovePc, WellTyped, TypeOK
  <2>. QED
    BY SMTT(20), <1>21, <2>1
      DEF MoveWriteFails, UnknownBeforeJoin, WellTyped, TypeOK, instVars, connVars, moveVars,
          queueVars, Free, NoCall
<1>22. ASSUME NEW c \in Conn, MoveJoin(c) PROVE UnknownBeforeJoin'
  <2>. move[c] \in [pc : MovePc, to : Inst, by : Mover]
    BY <1>22, HeldMove DEF MoveJoin, MovePc, WellTyped, TypeOK
  <2>1. CASE Return(c)
    <3>1. /\ move'[c] = Free /\ \A x \in Conn \ {c} : move'[x] = move[x]
          /\ \A p \in Mover : call'[p] \in {call[p], NoCall}
      BY <1>22, <2>1, ReturnShape DEF MoveJoin, MovePc, WellTyped, TypeOK
    <3>2. \A i \in Inst : members'[i] \subseteq members[i] \cup {c}
      BY <1>22 DEF MoveJoin, WellTyped, TypeOK
    <3>3. ~(rpc[c] \in {"connect", "send", "join"})
      BY <1>22 DEF MoveJoin, UnknownBeforeJoin
    <3>. QED
      BY SMTT(20), <1>22, <3>1, <3>2, <3>3
        DEF MoveJoin, UnknownBeforeJoin, WellTyped, TypeOK, instVars, connVars, moveVars,
            queueVars, Free, NoCall
  <2>2. CASE move' = [move EXCEPT ![c].to = Hub, ![c].pc = "check"] /\ UNCHANGED <<call, members>>
    <3>1. /\ move'[c].pc = "check" /\ move'[c].to = Hub
          /\ \A x \in Conn \ {c} : move'[x] = move[x]
      BY <1>22, <2>2, RetryShape DEF MoveJoin, MovePc, WellTyped, TypeOK
    <3>. QED
      BY <1>22, <2>2, <3>1
        DEF MoveJoin, UnknownBeforeJoin, WellTyped, TypeOK, instVars, connVars, moveVars,
            queueVars, Free, NoCall
  <2>. QED
    BY <1>22, <2>1, <2>2 DEF MoveJoin
<1>23. ASSUME NEW c \in Conn, NEW i \in Inst, CmdJoin(c, i) PROVE UnknownBeforeJoin'
  BY <1>23
    DEF CmdJoin, instVars, connVars, moveVars, queueVars, Handling, CallMove, NoCall, Mover,
        UnknownBeforeJoin, WellTyped, TypeOK
<1>24. ASSUME NEW p \in Mover, MoveAcquire(p) PROVE UnknownBeforeJoin'
  BY <1>24
    DEF MoveAcquire, instVars, connVars, moveVars, queueVars, Target, NoCall,
        UnknownBeforeJoin, WellTyped, TypeOK, Free
<1>25. ASSUME NEW s \in Starter, NEW i \in Fresh, StarterCreate(s, i) PROVE UnknownBeforeJoin'
  BY <1>25
    DEF StarterCreate, instVars, connVars, moveVars, queueVars, Create, UnknownBeforeJoin,
        WellTyped, TypeOK
<1>26. ASSUME NEW s \in Starter, StarterFails(s) PROVE UnknownBeforeJoin'
  BY <1>26
    DEF StarterFails, instVars, connVars, moveVars, queueVars, Idle, UnknownBeforeJoin,
        WellTyped, TypeOK
<1>27. ASSUME NEW s \in Starter, NEW c \in Conn, StarterMove(s, c) PROVE UnknownBeforeJoin'
  BY <1>27
    DEF StarterMove, instVars, connVars, moveVars, queueVars, NoCall, Mover,
        UnknownBeforeJoin, WellTyped, TypeOK
<1>28. ASSUME NEW s \in Starter, StarterDone(s) PROVE UnknownBeforeJoin'
  BY <1>28
    DEF StarterDone, instVars, connVars, moveVars, queueVars, Idle, UnknownBeforeJoin,
        WellTyped, TypeOK
<1>29. ASSUME NEW i \in Fresh, EndGame(i) PROVE UnknownBeforeJoin'
  BY <1>29
    DEF EndGame, instVars, connVars, moveVars, queueVars, UnknownBeforeJoin, WellTyped,
        TypeOK
<1>30. ASSUME NEW i \in Inst, NEW c \in Conn, TeardownMove(i, c) PROVE UnknownBeforeJoin'
  BY <1>30
    DEF TeardownMove, instVars, connVars, moveVars, queueVars, NoCall, Mover,
        UnknownBeforeJoin, WellTyped, TypeOK
<1>31. ASSUME NEW i \in Inst, TeardownRemove(i) PROVE UnknownBeforeJoin'
  BY <1>31
    DEF TeardownRemove, instVars, connVars, moveVars, queueVars, Removable, Remove,
        UnknownBeforeJoin, WellTyped, TypeOK
<1>32. CASE UNCHANGED <<members, rpc, move, call, waiting, starter, teardown>>
  BY <1>32 DEF UnknownBeforeJoin, WellTyped, TypeOK
<1>33. ASSUME NEW c \in Conn, 
               Kick(c) \/ Shutdown(c)
      PROVE  UNCHANGED <<members, rpc, move, call, waiting, starter, teardown>>
  BY <1>33 DEF Kick, Shutdown, Spawn, instVars, connVars, moveVars, queueVars
<1>34. ASSUME NEW i \in Fresh, 
               CreateArena(i) \/ JanitorLook(i)
      PROVE  UNCHANGED <<members, rpc, move, call, waiting, starter, teardown>>
  BY <1>34 DEF CreateArena, JanitorLook, Create, instVars, connVars, moveVars, queueVars
<1>35. ASSUME NEW i \in Inst, InstanceDelete(i)
      PROVE  UNCHANGED <<members, rpc, move, call, waiting, starter, teardown>>
  BY <1>35 DEF InstanceDelete, Removable, Remove, instVars, connVars, moveVars, queueVars
<1>36. ASSUME JanitorRemove
      PROVE  UNCHANGED <<members, rpc, move, call, waiting, starter, teardown>>
  BY <1>36 DEF JanitorRemove, Removable, Remove, instVars, connVars, moveVars, queueVars
<1>37. ASSUME UNCHANGED vars
       PROVE  UNCHANGED <<members, rpc, move, call, waiting, starter, teardown>>
  BY <1>37 DEF vars
<1>. QED
  BY <1>1, <1>2, <1>3, <1>4, <1>5, <1>6, <1>7, <1>8, <1>9, <1>10, <1>11, <1>12, <1>13, <1>14,
     <1>15, <1>16, <1>17, <1>18, <1>19, <1>20, <1>21, <1>22, <1>23, <1>24, <1>25, <1>26,
     <1>27, <1>28, <1>29, <1>30, <1>31, <1>32, <1>33, <1>34, <1>35, <1>36, <1>37
    DEF Next, Reader, Cleanup, MoveStep, StarterStep, TeardownStep, Terminated

\* Nobody is ever in two worlds.
LEMMA WorldStep ==
  ASSUME WellTyped, OneWorld, BetweenWorlds, UnknownBeforeJoin, [Next]_vars
  PROVE  (OneWorld /\ BetweenWorlds)'
<1>. USE InstAssumption, ProcessAssumption
<1>1. ASSUME NEW c \in Conn, LoginEnter(c) PROVE (OneWorld /\ BetweenWorlds)'
  BY <1>1
    DEF LoginEnter, instVars, connVars, moveVars, queueVars, UnknownBeforeJoin, WellTyped,
        TypeOK, OneWorld, BetweenWorlds
<1>2. ASSUME NEW c \in Conn, LoginJoin(c) PROVE (OneWorld /\ BetweenWorlds)'
  BY <1>2
    DEF LoginJoin, instVars, connVars, moveVars, queueVars, UnknownBeforeJoin, WellTyped,
        TypeOK, OneWorld, BetweenWorlds
<1>3. ASSUME NEW c \in Conn, CleanupLock(c) PROVE (OneWorld /\ BetweenWorlds)'
  BY <1>3
    DEF CleanupLock, instVars, connVars, moveVars, queueVars, WellTyped, TypeOK, OneWorld,
        BetweenWorlds, Free
<1>4. ASSUME NEW c \in Conn, CleanupLeave(c) PROVE (OneWorld /\ BetweenWorlds)'
  BY <1>4
    DEF CleanupLeave, instVars, connVars, moveVars, queueVars, Leave, WellTyped, TypeOK,
        OneWorld, BetweenWorlds, Free
<1>5. ASSUME NEW c \in Conn, MoveCheck(c) PROVE (OneWorld /\ BetweenWorlds)'
  <2>1. CASE Return(c)
    <3>1. /\ move'[c] = Free /\ \A x \in Conn \ {c} : move'[x] = move[x]
          /\ \A p \in Mover : call'[p] \in {call[p], NoCall}
      BY <1>5, <2>1, ReturnShape DEF MoveCheck, MovePc, WellTyped, TypeOK
    <3>. QED
      BY <1>5, <3>1
        DEF MoveCheck, WellTyped, TypeOK, OneWorld, BetweenWorlds, instVars, connVars,
            moveVars, queueVars, Free
  <2>2. CASE Advance(c, "dequeue")
    <3>1. /\ call' = call /\ move'[c].pc = "dequeue"
          /\ \A x \in Conn : move'[x].to = move[x].to /\ move'[x].by = move[x].by
          /\ \A x \in Conn \ {c} : move'[x] = move[x]
      BY <1>5, <2>2, AdvanceShape DEF MoveCheck, MovePc, WellTyped, TypeOK
    <3>. QED
      BY <1>5, <3>1
        DEF MoveCheck, WellTyped, TypeOK, OneWorld, BetweenWorlds, instVars, connVars,
            moveVars, queueVars, Free
  <2>. QED
    BY <1>5, <2>1, <2>2 DEF MoveCheck
<1>6. ASSUME NEW c \in Conn, MoveDequeue(c) PROVE (OneWorld /\ BetweenWorlds)'
  <2>1. /\ call' = call /\ move'[c].pc = "leave" /\ move[c].pc \in MovePc
        /\ \A x \in Conn : move'[x].to = move[x].to /\ move'[x].by = move[x].by
        /\ \A x \in Conn \ {c} : move'[x] = move[x]
    BY <1>6, AdvanceShape DEF MoveDequeue, MovePc, WellTyped, TypeOK
  <2>. QED
    BY <1>6, <2>1
      DEF MoveDequeue, Leave, WellTyped, TypeOK, OneWorld, BetweenWorlds, instVars, connVars,
          moveVars, queueVars, Free
<1>7. ASSUME NEW c \in Conn, MoveLeave(c) PROVE (OneWorld /\ BetweenWorlds)'
  <2>1. /\ call' = call /\ move'[c].pc = "respawn" /\ move[c].pc \in MovePc
        /\ \A x \in Conn : move'[x].to = move[x].to /\ move'[x].by = move[x].by
        /\ \A x \in Conn \ {c} : move'[x] = move[x]
    BY <1>7, AdvanceShape DEF MoveLeave, MovePc, WellTyped, TypeOK
  <2>. QED
    BY <1>7, <2>1
      DEF MoveLeave, Leave, WellTyped, TypeOK, OneWorld, BetweenWorlds, instVars, connVars,
          moveVars, queueVars, Free
<1>8. ASSUME NEW c \in Conn, MoveRespawn(c) PROVE (OneWorld /\ BetweenWorlds)'
  <2>1. /\ call' = call /\ move'[c].pc = "stream" /\ move[c].pc \in MovePc
        /\ \A x \in Conn : move'[x].to = move[x].to /\ move'[x].by = move[x].by
        /\ \A x \in Conn \ {c} : move'[x] = move[x]
    BY <1>8, AdvanceShape DEF MoveRespawn, MovePc, WellTyped, TypeOK
  <2>. QED
    BY <1>8, <2>1
      DEF MoveRespawn, Leave, WellTyped, TypeOK, OneWorld, BetweenWorlds, instVars, connVars,
          moveVars, queueVars, Free
<1>9. ASSUME NEW c \in Conn, MoveStream(c) PROVE (OneWorld /\ BetweenWorlds)'
  <2>1. /\ call' = call /\ move'[c].pc = "join" /\ move[c].pc \in MovePc
        /\ \A x \in Conn : move'[x].to = move[x].to /\ move'[x].by = move[x].by
        /\ \A x \in Conn \ {c} : move'[x] = move[x]
    BY <1>9, AdvanceShape DEF MoveStream, MovePc, WellTyped, TypeOK
  <2>. QED
    BY <1>9, <2>1
      DEF MoveStream, Leave, WellTyped, TypeOK, OneWorld, BetweenWorlds, instVars, connVars,
          moveVars, queueVars, Free
<1>10. ASSUME NEW c \in Conn, MoveWriteFails(c) PROVE (OneWorld /\ BetweenWorlds)'
  <2>1. /\ move'[c] = Free /\ \A x \in Conn \ {c} : move'[x] = move[x]
        /\ \A p \in Mover : call'[p] \in {call[p], NoCall}
    BY <1>10, ReturnShape DEF MoveWriteFails, MovePc, WellTyped, TypeOK
  <2>. QED
    BY <1>10, <2>1
      DEF MoveWriteFails, WellTyped, TypeOK, OneWorld, BetweenWorlds, instVars, connVars,
          moveVars, queueVars, Free
<1>11. ASSUME NEW c \in Conn, MoveJoin(c) PROVE (OneWorld /\ BetweenWorlds)'
  <2>. move[c] \in [pc : MovePc, to : Inst, by : Mover]
    BY <1>11, HeldMove DEF MoveJoin, MovePc, WellTyped, TypeOK
  <2>1. CASE Return(c)
    <3>1. /\ move'[c] = Free /\ \A x \in Conn \ {c} : move'[x] = move[x]
          /\ \A p \in Mover : call'[p] \in {call[p], NoCall}
      BY <1>11, <2>1, ReturnShape DEF MoveJoin, MovePc, WellTyped, TypeOK
    <3>. QED
      BY SMTT(20), <1>11, <3>1
        DEF MoveJoin, WellTyped, TypeOK, OneWorld, BetweenWorlds, instVars, connVars,
            moveVars, queueVars, Free
  <2>2. CASE move' = [move EXCEPT ![c].to = Hub, ![c].pc = "check"] /\ UNCHANGED <<call, members>>
    <3>1. /\ move'[c].pc = "check" /\ move'[c].to = Hub
          /\ \A x \in Conn \ {c} : move'[x] = move[x]
      BY <1>11, <2>2, RetryShape DEF MoveJoin, MovePc, WellTyped, TypeOK
    <3>. QED
      BY <1>11, <2>2, <3>1
        DEF MoveJoin, WellTyped, TypeOK, OneWorld, BetweenWorlds, instVars, connVars,
            moveVars, queueVars, Free
  <2>. QED
    BY <1>11, <2>1, <2>2 DEF MoveJoin
<1>12. ASSUME NEW p \in Mover, MoveAcquire(p) PROVE (OneWorld /\ BetweenWorlds)'
  BY <1>12
    DEF MoveAcquire, instVars, connVars, moveVars, queueVars, Target, WellTyped, TypeOK,
        OneWorld, BetweenWorlds, Free
<1>13. CASE UNCHANGED <<members, at, move>>
  BY <1>13 DEF WellTyped, TypeOK, OneWorld, BetweenWorlds
<1>14. ASSUME NEW c \in Conn, 
               SendPlayPackets(c) \/ SendPlayFails(c) \/ ReaderEnds(c) \/ ReaderFails(c) \/
               ReadPacket(c) \/ Handled(c) \/ CmdHub(c) \/ CmdLeave(c)
      PROVE  UNCHANGED <<members, at, move>>
  BY <1>14
    DEF SendPlayPackets, SendPlayFails, ReaderEnds, ReaderFails, ReadPacket, Handled, CmdHub,
        CmdLeave, AtLoopTop, CallMove, Handling, Spawn, instVars, connVars, moveVars,
        queueVars
<1>15. ASSUME NEW c \in Conn, 
               CmdPlayLeave(c) \/ CmdPlay(c) \/ Kick(c) \/ Shutdown(c) \/ CleanupDequeue(c)
      PROVE  UNCHANGED <<members, at, move>>
  BY <1>15
    DEF CmdPlayLeave, CmdPlay, Kick, Shutdown, CleanupDequeue, Handling, Spawn, instVars,
        connVars, moveVars, queueVars
<1>16. ASSUME NEW c \in Conn, NEW i \in Inst, CmdJoin(c, i)
      PROVE  UNCHANGED <<members, at, move>>
  BY <1>16 DEF CmdJoin, CallMove, Handling, instVars, connVars, moveVars, queueVars
<1>17. ASSUME NEW s \in Starter, NEW i \in Fresh, StarterCreate(s, i)
      PROVE  UNCHANGED <<members, at, move>>
  BY <1>17 DEF StarterCreate, Create, instVars, connVars, moveVars, queueVars
<1>18. ASSUME NEW s \in Starter, 
               StarterFails(s) \/ StarterDone(s)
      PROVE  UNCHANGED <<members, at, move>>
  BY <1>18 DEF StarterFails, StarterDone, instVars, connVars, moveVars, queueVars
<1>19. ASSUME NEW s \in Starter, NEW c \in Conn, StarterMove(s, c)
      PROVE  UNCHANGED <<members, at, move>>
  BY <1>19 DEF StarterMove, instVars, connVars, moveVars, queueVars
<1>20. ASSUME NEW i \in Fresh, 
               CreateArena(i) \/ EndGame(i) \/ JanitorLook(i)
      PROVE  UNCHANGED <<members, at, move>>
  BY <1>20 DEF CreateArena, EndGame, JanitorLook, Create, instVars, connVars, moveVars, queueVars
<1>21. ASSUME NEW i \in Inst, NEW c \in Conn, TeardownMove(i, c)
      PROVE  UNCHANGED <<members, at, move>>
  BY <1>21 DEF TeardownMove, instVars, connVars, moveVars, queueVars
<1>22. ASSUME NEW i \in Inst, 
               TeardownRemove(i) \/ InstanceDelete(i)
      PROVE  UNCHANGED <<members, at, move>>
  BY <1>22
    DEF TeardownRemove, InstanceDelete, Removable, Remove, instVars, connVars, moveVars,
        queueVars
<1>23. ASSUME JanitorRemove
      PROVE  UNCHANGED <<members, at, move>>
  BY <1>23 DEF JanitorRemove, Removable, Remove, instVars, connVars, moveVars, queueVars
<1>24. ASSUME UNCHANGED vars PROVE UNCHANGED <<members, at, move>>
  BY <1>24 DEF vars
<1>. QED
  BY <1>1, <1>2, <1>3, <1>4, <1>5, <1>6, <1>7, <1>8, <1>9, <1>10, <1>11, <1>12, <1>13, <1>14,
     <1>15, <1>16, <1>17, <1>18, <1>19, <1>20, <1>21, <1>22, <1>23, <1>24
    DEF Next, Reader, Cleanup, MoveStep, StarterStep, TeardownStep, Terminated

\* Who enters a game by a command of its own waits for no other.
LEMMA QueueStep ==
  ASSUME WellTyped, EnteringGivesUpQueue, LockHasCaller, CallerWaits, [Next]_vars
  PROVE  EnteringGivesUpQueue'
<1>. USE InstAssumption, ProcessAssumption
<1>1. ASSUME NEW c \in Conn, CmdHub(c) PROVE EnteringGivesUpQueue'
  BY <1>1
    DEF CmdHub, instVars, connVars, moveVars, queueVars, Handling, CallMove, WellTyped,
        TypeOK, EnteringGivesUpQueue
<1>2. ASSUME NEW c \in Conn, CmdLeave(c) PROVE EnteringGivesUpQueue'
  BY <1>2
    DEF CmdLeave, instVars, connVars, moveVars, queueVars, Handling, CallMove, WellTyped,
        TypeOK, EnteringGivesUpQueue
<1>3. ASSUME NEW c \in Conn, CmdPlayLeave(c) PROVE EnteringGivesUpQueue'
  BY <1>3
    DEF CmdPlayLeave, instVars, connVars, moveVars, queueVars, Handling, WellTyped, TypeOK,
        EnteringGivesUpQueue
<1>4. ASSUME NEW c \in Conn, CmdPlay(c) PROVE EnteringGivesUpQueue'
  <2>1. call[c].c # c /\ c \in Conn
    BY <1>4 DEF CmdPlay, Handling, CallerWaits, NoCall
  <2>2. ~(move[c].by = c /\ move[c].pc \in MovePc)
    BY <2>1 DEF LockHasCaller
  <2>3. waiting' \subseteq waiting \cup {c}
    BY <1>4 DEF CmdPlay
  <2>. QED
    BY <1>4, <2>2, <2>3 DEF CmdPlay, EnteringGivesUpQueue, MovePc, moveVars
<1>5. ASSUME NEW c \in Conn, CleanupDequeue(c) PROVE EnteringGivesUpQueue'
  BY <1>5
    DEF CleanupDequeue, instVars, connVars, moveVars, queueVars, WellTyped, TypeOK,
        EnteringGivesUpQueue
<1>6. ASSUME NEW c \in Conn, CleanupLock(c) PROVE EnteringGivesUpQueue'
  BY <1>6
    DEF CleanupLock, instVars, connVars, moveVars, queueVars, WellTyped, TypeOK,
        EnteringGivesUpQueue, Free
<1>7. ASSUME NEW c \in Conn, CleanupLeave(c) PROVE EnteringGivesUpQueue'
  BY <1>7
    DEF CleanupLeave, instVars, connVars, moveVars, queueVars, Leave, WellTyped, TypeOK,
        EnteringGivesUpQueue, Free
<1>8. ASSUME NEW c \in Conn, MoveCheck(c) PROVE EnteringGivesUpQueue'
  <2>1. CASE Return(c)
    <3>1. /\ move'[c] = Free /\ \A x \in Conn \ {c} : move'[x] = move[x]
          /\ \A p \in Mover : call'[p] \in {call[p], NoCall}
      BY <1>8, <2>1, ReturnShape DEF MoveCheck, MovePc, WellTyped, TypeOK
    <3>. QED
      BY <1>8, <3>1
        DEF MoveCheck, WellTyped, TypeOK, EnteringGivesUpQueue, instVars, connVars, moveVars,
            queueVars, Free
  <2>2. CASE Advance(c, "dequeue")
    <3>1. /\ call' = call /\ move'[c].pc = "dequeue"
          /\ \A x \in Conn : move'[x].to = move[x].to /\ move'[x].by = move[x].by
          /\ \A x \in Conn \ {c} : move'[x] = move[x]
      BY <1>8, <2>2, AdvanceShape DEF MoveCheck, MovePc, WellTyped, TypeOK
    <3>. QED
      BY <1>8, <3>1
        DEF MoveCheck, WellTyped, TypeOK, EnteringGivesUpQueue, instVars, connVars, moveVars,
            queueVars, Free
  <2>. QED
    BY <1>8, <2>1, <2>2 DEF MoveCheck
<1>9. ASSUME NEW c \in Conn, MoveDequeue(c) PROVE EnteringGivesUpQueue'
  <2>1. /\ call' = call /\ move'[c].pc = "leave" /\ move[c].pc \in MovePc
        /\ \A x \in Conn : move'[x].to = move[x].to /\ move'[x].by = move[x].by
        /\ \A x \in Conn \ {c} : move'[x] = move[x]
    BY <1>9, AdvanceShape DEF MoveDequeue, MovePc, WellTyped, TypeOK
  <2>. QED
    BY <1>9, <2>1
      DEF MoveDequeue, Leave, WellTyped, TypeOK, EnteringGivesUpQueue, instVars, connVars,
          moveVars, queueVars, Free
<1>10. ASSUME NEW c \in Conn, MoveLeave(c) PROVE EnteringGivesUpQueue'
  <2>1. /\ call' = call /\ move'[c].pc = "respawn" /\ move[c].pc \in MovePc
        /\ \A x \in Conn : move'[x].to = move[x].to /\ move'[x].by = move[x].by
        /\ \A x \in Conn \ {c} : move'[x] = move[x]
    BY <1>10, AdvanceShape DEF MoveLeave, MovePc, WellTyped, TypeOK
  <2>. QED
    BY <1>10, <2>1
      DEF MoveLeave, Leave, WellTyped, TypeOK, EnteringGivesUpQueue, instVars, connVars,
          moveVars, queueVars, Free
<1>11. ASSUME NEW c \in Conn, MoveRespawn(c) PROVE EnteringGivesUpQueue'
  <2>1. /\ call' = call /\ move'[c].pc = "stream" /\ move[c].pc \in MovePc
        /\ \A x \in Conn : move'[x].to = move[x].to /\ move'[x].by = move[x].by
        /\ \A x \in Conn \ {c} : move'[x] = move[x]
    BY <1>11, AdvanceShape DEF MoveRespawn, MovePc, WellTyped, TypeOK
  <2>. QED
    BY <1>11, <2>1
      DEF MoveRespawn, Leave, WellTyped, TypeOK, EnteringGivesUpQueue, instVars, connVars,
          moveVars, queueVars, Free
<1>12. ASSUME NEW c \in Conn, MoveStream(c) PROVE EnteringGivesUpQueue'
  <2>1. /\ call' = call /\ move'[c].pc = "join" /\ move[c].pc \in MovePc
        /\ \A x \in Conn : move'[x].to = move[x].to /\ move'[x].by = move[x].by
        /\ \A x \in Conn \ {c} : move'[x] = move[x]
    BY <1>12, AdvanceShape DEF MoveStream, MovePc, WellTyped, TypeOK
  <2>. QED
    BY <1>12, <2>1
      DEF MoveStream, Leave, WellTyped, TypeOK, EnteringGivesUpQueue, instVars, connVars,
          moveVars, queueVars, Free
<1>13. ASSUME NEW c \in Conn, MoveWriteFails(c) PROVE EnteringGivesUpQueue'
  <2>1. /\ move'[c] = Free /\ \A x \in Conn \ {c} : move'[x] = move[x]
        /\ \A p \in Mover : call'[p] \in {call[p], NoCall}
    BY <1>13, ReturnShape DEF MoveWriteFails, MovePc, WellTyped, TypeOK
  <2>. QED
    BY <1>13, <2>1
      DEF MoveWriteFails, WellTyped, TypeOK, EnteringGivesUpQueue, instVars, connVars,
          moveVars, queueVars, Free
<1>14. ASSUME NEW c \in Conn, MoveJoin(c) PROVE EnteringGivesUpQueue'
  <2>. move[c] \in [pc : MovePc, to : Inst, by : Mover]
    BY <1>14, HeldMove DEF MoveJoin, MovePc, WellTyped, TypeOK
  <2>1. CASE Return(c)
    <3>1. /\ move'[c] = Free /\ \A x \in Conn \ {c} : move'[x] = move[x]
          /\ \A p \in Mover : call'[p] \in {call[p], NoCall}
      BY <1>14, <2>1, ReturnShape DEF MoveJoin, MovePc, WellTyped, TypeOK
    <3>. QED
      BY <1>14, <3>1
        DEF MoveJoin, WellTyped, TypeOK, EnteringGivesUpQueue, instVars, connVars, moveVars,
            queueVars, Free
  <2>2. CASE move' = [move EXCEPT ![c].to = Hub, ![c].pc = "check"] /\ UNCHANGED <<call, members>>
    <3>1. /\ move'[c].pc = "check" /\ move'[c].to = Hub
          /\ \A x \in Conn \ {c} : move'[x] = move[x]
      BY <1>14, <2>2, RetryShape DEF MoveJoin, MovePc, WellTyped, TypeOK
    <3>. QED
      BY <1>14, <2>2, <3>1
        DEF MoveJoin, WellTyped, TypeOK, EnteringGivesUpQueue, instVars, connVars, moveVars,
            queueVars, Free
  <2>. QED
    BY <1>14, <2>1, <2>2 DEF MoveJoin
<1>15. ASSUME NEW p \in Mover, MoveAcquire(p) PROVE EnteringGivesUpQueue'
  BY <1>15
    DEF MoveAcquire, instVars, connVars, moveVars, queueVars, Target, WellTyped, TypeOK,
        EnteringGivesUpQueue, Free
<1>16. CASE UNCHANGED <<waiting, move>>
  BY <1>16 DEF WellTyped, TypeOK, EnteringGivesUpQueue
<1>17. ASSUME NEW c \in Conn, 
               LoginEnter(c) \/ SendPlayPackets(c) \/ SendPlayFails(c) \/ LoginJoin(c) \/
               ReaderEnds(c) \/ ReaderFails(c) \/ ReadPacket(c) \/ Handled(c)
      PROVE  UNCHANGED <<waiting, move>>
  BY <1>17
    DEF LoginEnter, SendPlayPackets, SendPlayFails, LoginJoin, ReaderEnds, ReaderFails,
        ReadPacket, Handled, AtLoopTop, Handling, Spawn, instVars, connVars, moveVars,
        queueVars
<1>18. ASSUME NEW c \in Conn, 
               Kick(c) \/ Shutdown(c)
      PROVE  UNCHANGED <<waiting, move>>
  BY <1>18 DEF Kick, Shutdown, Spawn, instVars, connVars, moveVars, queueVars
<1>19. ASSUME NEW c \in Conn, NEW i \in Inst, CmdJoin(c, i)
      PROVE  UNCHANGED <<waiting, move>>
  BY <1>19 DEF CmdJoin, CallMove, Handling, instVars, connVars, moveVars, queueVars
<1>20. ASSUME NEW s \in Starter, NEW i \in Fresh, StarterCreate(s, i)
      PROVE  UNCHANGED <<waiting, move>>
  BY <1>20 DEF StarterCreate, Create, instVars, connVars, moveVars, queueVars
<1>21. ASSUME NEW s \in Starter, 
               StarterFails(s) \/ StarterDone(s)
      PROVE  UNCHANGED <<waiting, move>>
  BY <1>21 DEF StarterFails, StarterDone, instVars, connVars, moveVars, queueVars
<1>22. ASSUME NEW s \in Starter, NEW c \in Conn, StarterMove(s, c)
      PROVE  UNCHANGED <<waiting, move>>
  BY <1>22 DEF StarterMove, instVars, connVars, moveVars, queueVars
<1>23. ASSUME NEW i \in Fresh, 
               CreateArena(i) \/ EndGame(i) \/ JanitorLook(i)
      PROVE  UNCHANGED <<waiting, move>>
  BY <1>23 DEF CreateArena, EndGame, JanitorLook, Create, instVars, connVars, moveVars, queueVars
<1>24. ASSUME NEW i \in Inst, NEW c \in Conn, TeardownMove(i, c)
      PROVE  UNCHANGED <<waiting, move>>
  BY <1>24 DEF TeardownMove, instVars, connVars, moveVars, queueVars
<1>25. ASSUME NEW i \in Inst, 
               TeardownRemove(i) \/ InstanceDelete(i)
      PROVE  UNCHANGED <<waiting, move>>
  BY <1>25
    DEF TeardownRemove, InstanceDelete, Removable, Remove, instVars, connVars, moveVars,
        queueVars
<1>26. ASSUME JanitorRemove
      PROVE  UNCHANGED <<waiting, move>>
  BY <1>26 DEF JanitorRemove, Removable, Remove, instVars, connVars, moveVars, queueVars
<1>27. ASSUME UNCHANGED vars PROVE UNCHANGED <<waiting, move>>
  BY <1>27 DEF vars
<1>. QED
  BY <1>1, <1>2, <1>3, <1>4, <1>5, <1>6, <1>7, <1>8, <1>9, <1>10, <1>11, <1>12, <1>13, <1>14,
     <1>15, <1>16, <1>17, <1>18, <1>19, <1>20, <1>21, <1>22, <1>23, <1>24, <1>25, <1>26,
     <1>27
    DEF Next, Reader, Cleanup, MoveStep, StarterStep, TeardownStep, Terminated

\* A player who is not moving is in a list.
LEMMA ListStep ==
  ASSUME WellTyped, LeavesFromList, HubOpen, LoginLands, BetweenWorlds, [Next]_vars
  PROVE  LeavesFromList'
<1>. USE InstAssumption, ProcessAssumption
<1>1. ASSUME NEW c \in Conn, LoginEnter(c) PROVE LeavesFromList'
  BY <1>1
    DEF LoginEnter, instVars, connVars, moveVars, queueVars, WellTyped, TypeOK, InstanceSet,
        LeavesFromList, InPlace
<1>2. ASSUME NEW c \in Conn, SendPlayPackets(c) PROVE LeavesFromList'
  BY <1>2
    DEF SendPlayPackets, instVars, connVars, moveVars, queueVars, WellTyped, TypeOK,
        InstanceSet, LeavesFromList, InPlace
<1>3. ASSUME NEW c \in Conn, SendPlayFails(c) PROVE LeavesFromList'
  BY <1>3
    DEF SendPlayFails, instVars, connVars, moveVars, queueVars, WriteFails, Closed,
        WellTyped, TypeOK, InstanceSet, LeavesFromList, InPlace
<1>4. ASSUME NEW c \in Conn, LoginJoin(c) PROVE LeavesFromList'
  BY <1>4
    DEF LoginJoin, instVars, connVars, moveVars, queueVars, LoginLands, WellTyped, TypeOK,
        InstanceSet, LeavesFromList, InPlace
<1>5. ASSUME NEW c \in Conn, ReaderEnds(c) PROVE LeavesFromList'
  BY <1>5
    DEF ReaderEnds, instVars, connVars, moveVars, queueVars, AtLoopTop, WellTyped, TypeOK,
        InstanceSet, LeavesFromList, InPlace
<1>6. ASSUME NEW c \in Conn, ReaderFails(c) PROVE LeavesFromList'
  BY <1>6
    DEF ReaderFails, instVars, connVars, moveVars, queueVars, Spawn, AtLoopTop, WellTyped,
        TypeOK, InstanceSet, LeavesFromList, InPlace
<1>7. ASSUME NEW c \in Conn, ReadPacket(c) PROVE LeavesFromList'
  BY <1>7
    DEF ReadPacket, instVars, connVars, moveVars, queueVars, WellTyped, TypeOK, InstanceSet,
        LeavesFromList, InPlace
<1>8. ASSUME NEW c \in Conn, Handled(c) PROVE LeavesFromList'
  BY <1>8
    DEF Handled, instVars, connVars, moveVars, queueVars, Handling, WellTyped, TypeOK,
        InstanceSet, LeavesFromList, InPlace
<1>9. ASSUME NEW c \in Conn, CmdHub(c) PROVE LeavesFromList'
  BY <1>9
    DEF CmdHub, instVars, connVars, moveVars, queueVars, Handling, CallMove, WellTyped,
        TypeOK, InstanceSet, LeavesFromList, InPlace
<1>10. ASSUME NEW c \in Conn, CmdLeave(c) PROVE LeavesFromList'
  BY <1>10
    DEF CmdLeave, instVars, connVars, moveVars, queueVars, Handling, CallMove, WellTyped,
        TypeOK, InstanceSet, LeavesFromList, InPlace
<1>11. ASSUME NEW c \in Conn, CmdPlayLeave(c) PROVE LeavesFromList'
  BY <1>11
    DEF CmdPlayLeave, instVars, connVars, moveVars, queueVars, Handling, WellTyped, TypeOK,
        InstanceSet, LeavesFromList, InPlace
<1>12. ASSUME NEW c \in Conn, CmdPlay(c) PROVE LeavesFromList'
  BY <1>12
    DEF CmdPlay, instVars, connVars, moveVars, queueVars, Handling, WellTyped, TypeOK,
        InstanceSet, LeavesFromList, InPlace
<1>13. ASSUME NEW c \in Conn, Kick(c) PROVE LeavesFromList'
  BY <1>13
    DEF Kick, instVars, connVars, moveVars, queueVars, Spawn, WellTyped, TypeOK, InstanceSet,
        LeavesFromList, InPlace
<1>14. ASSUME NEW c \in Conn, Shutdown(c) PROVE LeavesFromList'
  BY <1>14
    DEF Shutdown, instVars, connVars, moveVars, queueVars, WellTyped, TypeOK, InstanceSet,
        LeavesFromList, InPlace
<1>15. ASSUME NEW c \in Conn, CleanupDequeue(c) PROVE LeavesFromList'
  BY <1>15
    DEF CleanupDequeue, instVars, connVars, moveVars, queueVars, WellTyped, TypeOK,
        InstanceSet, LeavesFromList, InPlace
<1>16. ASSUME NEW c \in Conn, CleanupLock(c) PROVE LeavesFromList'
  BY <1>16
    DEF CleanupLock, instVars, connVars, moveVars, queueVars, Closed, WellTyped, TypeOK,
        InstanceSet, LeavesFromList, InPlace, Free
<1>17. ASSUME NEW c \in Conn, CleanupLeave(c) PROVE LeavesFromList'
  BY <1>17
    DEF CleanupLeave, instVars, connVars, moveVars, queueVars, Leave, WellTyped, TypeOK,
        InstanceSet, LeavesFromList, InPlace, Free
<1>18. ASSUME NEW c \in Conn, MoveCheck(c) PROVE LeavesFromList'
  <2>1. CASE /\ Return(c)
             /\ Closed(c) \/ at[c] = move[c].to \/ istate[move[c].to] # "open"
    <3>1. /\ move'[c] = Free /\ \A x \in Conn \ {c} : move'[x] = move[x]
          /\ \A p \in Mover : call'[p] \in {call[p], NoCall}
      BY <1>18, <2>1, ReturnShape DEF MoveCheck, MovePc, WellTyped, TypeOK
    <3>3. cpc[c] = "idle" /\ rpc[c] \in {"play", "handle"} => InPlace(c)
      BY <1>18, <2>1 DEF MoveCheck, LeavesFromList, HubOpen, Closed
    <3>. QED
      BY <1>18, <3>1, <3>3
        DEF MoveCheck, WellTyped, TypeOK, InstanceSet, LeavesFromList, InPlace, instVars,
            connVars, moveVars, queueVars, Free, HubOpen, BetweenWorlds, WriteFails, Closed
  <2>2. CASE Advance(c, "dequeue")
    <3>1. /\ call' = call /\ move'[c].pc = "dequeue"
          /\ \A x \in Conn : move'[x].to = move[x].to /\ move'[x].by = move[x].by
          /\ \A x \in Conn \ {c} : move'[x] = move[x]
      BY <1>18, <2>2, AdvanceShape DEF MoveCheck, MovePc, WellTyped, TypeOK
    <3>. QED
      BY <1>18, <3>1
        DEF MoveCheck, WellTyped, TypeOK, InstanceSet, LeavesFromList, InPlace, instVars,
            connVars, moveVars, queueVars, Free, HubOpen, BetweenWorlds, WriteFails, Closed
  <2>. QED
    BY <1>18, <2>1, <2>2 DEF MoveCheck
<1>19. ASSUME NEW c \in Conn, MoveDequeue(c) PROVE LeavesFromList'
  <2>1. /\ call' = call /\ move'[c].pc = "leave" /\ move[c].pc \in MovePc
        /\ \A x \in Conn : move'[x].to = move[x].to /\ move'[x].by = move[x].by
        /\ \A x \in Conn \ {c} : move'[x] = move[x]
    BY <1>19, AdvanceShape DEF MoveDequeue, MovePc, WellTyped, TypeOK
  <2>. QED
    BY <1>19, <2>1
      DEF MoveDequeue, Leave, WellTyped, TypeOK, InstanceSet, LeavesFromList, InPlace,
          instVars, connVars, moveVars, queueVars, Free, HubOpen, BetweenWorlds, WriteFails,
          Closed
<1>20. ASSUME NEW c \in Conn, MoveLeave(c) PROVE LeavesFromList'
  <2>1. /\ call' = call /\ move'[c].pc = "respawn" /\ move[c].pc \in MovePc
        /\ \A x \in Conn : move'[x].to = move[x].to /\ move'[x].by = move[x].by
        /\ \A x \in Conn \ {c} : move'[x] = move[x]
    BY <1>20, AdvanceShape DEF MoveLeave, MovePc, WellTyped, TypeOK
  <2>. QED
    BY <1>20, <2>1
      DEF MoveLeave, Leave, WellTyped, TypeOK, InstanceSet, LeavesFromList, InPlace,
          instVars, connVars, moveVars, queueVars, Free, HubOpen, BetweenWorlds, WriteFails,
          Closed
<1>21. ASSUME NEW c \in Conn, MoveRespawn(c) PROVE LeavesFromList'
  <2>1. /\ call' = call /\ move'[c].pc = "stream" /\ move[c].pc \in MovePc
        /\ \A x \in Conn : move'[x].to = move[x].to /\ move'[x].by = move[x].by
        /\ \A x \in Conn \ {c} : move'[x] = move[x]
    BY <1>21, AdvanceShape DEF MoveRespawn, MovePc, WellTyped, TypeOK
  <2>. QED
    BY <1>21, <2>1
      DEF MoveRespawn, Leave, WellTyped, TypeOK, InstanceSet, LeavesFromList, InPlace,
          instVars, connVars, moveVars, queueVars, Free, HubOpen, BetweenWorlds, WriteFails,
          Closed
<1>22. ASSUME NEW c \in Conn, MoveStream(c) PROVE LeavesFromList'
  <2>1. /\ call' = call /\ move'[c].pc = "join" /\ move[c].pc \in MovePc
        /\ \A x \in Conn : move'[x].to = move[x].to /\ move'[x].by = move[x].by
        /\ \A x \in Conn \ {c} : move'[x] = move[x]
    BY <1>22, AdvanceShape DEF MoveStream, MovePc, WellTyped, TypeOK
  <2>. QED
    BY <1>22, <2>1
      DEF MoveStream, Leave, WellTyped, TypeOK, InstanceSet, LeavesFromList, InPlace,
          instVars, connVars, moveVars, queueVars, Free, HubOpen, BetweenWorlds, WriteFails,
          Closed
<1>23. ASSUME NEW c \in Conn, MoveWriteFails(c) PROVE LeavesFromList'
  <2>1. /\ move'[c] = Free /\ \A x \in Conn \ {c} : move'[x] = move[x]
        /\ \A p \in Mover : call'[p] \in {call[p], NoCall}
    BY <1>23, ReturnShape DEF MoveWriteFails, MovePc, WellTyped, TypeOK
  <2>. QED
    BY <1>23, <2>1
      DEF MoveWriteFails, WellTyped, TypeOK, InstanceSet, LeavesFromList, InPlace, instVars,
          connVars, moveVars, queueVars, Free, HubOpen, BetweenWorlds, WriteFails, Closed
<1>24. ASSUME NEW c \in Conn, MoveJoin(c) PROVE LeavesFromList'
  <2>. move[c] \in [pc : MovePc, to : Inst, by : Mover]
    BY <1>24, HeldMove DEF MoveJoin, MovePc, WellTyped, TypeOK
  <2>1. CASE Return(c)
    <3>1. /\ move'[c] = Free /\ \A x \in Conn \ {c} : move'[x] = move[x]
          /\ \A p \in Mover : call'[p] \in {call[p], NoCall}
      BY <1>24, <2>1, ReturnShape DEF MoveJoin, MovePc, WellTyped, TypeOK
    <3>. QED
      BY <1>24, <3>1
        DEF MoveJoin, WellTyped, TypeOK, InstanceSet, LeavesFromList, InPlace, instVars,
            connVars, moveVars, queueVars, Free, HubOpen, BetweenWorlds, WriteFails, Closed
  <2>2. CASE move' = [move EXCEPT ![c].to = Hub, ![c].pc = "check"] /\ UNCHANGED <<call, members>>
    <3>1. /\ move'[c].pc = "check" /\ move'[c].to = Hub
          /\ \A x \in Conn \ {c} : move'[x] = move[x]
      BY <1>24, <2>2, RetryShape DEF MoveJoin, MovePc, WellTyped, TypeOK
    <3>. QED
      BY <1>24, <2>2, <3>1
        DEF MoveJoin, WellTyped, TypeOK, InstanceSet, LeavesFromList, InPlace, instVars,
            connVars, moveVars, queueVars, Free, HubOpen, BetweenWorlds, WriteFails, Closed
  <2>. QED
    BY <1>24, <2>1, <2>2 DEF MoveJoin
<1>25. ASSUME NEW c \in Conn, NEW i \in Inst, CmdJoin(c, i) PROVE LeavesFromList'
  BY <1>25
    DEF CmdJoin, instVars, connVars, moveVars, queueVars, Handling, CallMove, WellTyped,
        TypeOK, InstanceSet, LeavesFromList, InPlace
<1>26. ASSUME NEW p \in Mover, MoveAcquire(p) PROVE LeavesFromList'
  BY <1>26
    DEF MoveAcquire, instVars, connVars, moveVars, queueVars, Target, WellTyped, TypeOK,
        InstanceSet, LeavesFromList, InPlace, Free
<1>27. ASSUME NEW s \in Starter, NEW i \in Fresh, StarterCreate(s, i) PROVE LeavesFromList'
  BY <1>27
    DEF StarterCreate, instVars, connVars, moveVars, queueVars, Create, WellTyped, TypeOK,
        InstanceSet, LeavesFromList, InPlace
<1>28. ASSUME NEW i \in Fresh, CreateArena(i) PROVE LeavesFromList'
  BY <1>28
    DEF CreateArena, instVars, connVars, moveVars, queueVars, Create, WellTyped, TypeOK,
        InstanceSet, LeavesFromList, InPlace
<1>29. ASSUME NEW i \in Inst, TeardownRemove(i) PROVE LeavesFromList'
  BY <1>29
    DEF TeardownRemove, instVars, connVars, moveVars, queueVars, Removable, Remove,
        WellTyped, TypeOK, InstanceSet, LeavesFromList, InPlace
<1>30. ASSUME NEW i \in Inst, InstanceDelete(i) PROVE LeavesFromList'
  BY <1>30
    DEF InstanceDelete, instVars, connVars, moveVars, queueVars, Removable, Remove,
        WellTyped, TypeOK, InstanceSet, LeavesFromList, InPlace
<1>31. ASSUME JanitorRemove PROVE LeavesFromList'
  BY <1>31
    DEF JanitorRemove, instVars, connVars, moveVars, queueVars, Removable, Remove, WellTyped,
        TypeOK, InstanceSet, LeavesFromList, InPlace
<1>32. CASE UNCHANGED <<istate, members, at, rpc, cpc, move>>
  BY <1>32 DEF WellTyped, TypeOK, InstanceSet, LeavesFromList, InPlace
<1>33. ASSUME NEW s \in Starter, 
               StarterFails(s) \/ StarterDone(s)
      PROVE  UNCHANGED <<istate, members, at, rpc, cpc, move>>
  BY <1>33 DEF StarterFails, StarterDone, instVars, connVars, moveVars, queueVars
<1>34. ASSUME NEW s \in Starter, NEW c \in Conn, StarterMove(s, c)
      PROVE  UNCHANGED <<istate, members, at, rpc, cpc, move>>
  BY <1>34 DEF StarterMove, instVars, connVars, moveVars, queueVars
<1>35. ASSUME NEW i \in Fresh, 
               EndGame(i) \/ JanitorLook(i)
      PROVE  UNCHANGED <<istate, members, at, rpc, cpc, move>>
  BY <1>35 DEF EndGame, JanitorLook, instVars, connVars, moveVars, queueVars
<1>36. ASSUME NEW i \in Inst, NEW c \in Conn, TeardownMove(i, c)
      PROVE  UNCHANGED <<istate, members, at, rpc, cpc, move>>
  BY <1>36 DEF TeardownMove, instVars, connVars, moveVars, queueVars
<1>37. ASSUME UNCHANGED vars PROVE UNCHANGED <<istate, members, at, rpc, cpc, move>>
  BY <1>37 DEF vars
<1>. QED
  BY <1>1, <1>2, <1>3, <1>4, <1>5, <1>6, <1>7, <1>8, <1>9, <1>10, <1>11, <1>12, <1>13, <1>14,
     <1>15, <1>16, <1>17, <1>18, <1>19, <1>20, <1>21, <1>22, <1>23, <1>24, <1>25, <1>26,
     <1>27, <1>28, <1>29, <1>30, <1>31, <1>32, <1>33, <1>34, <1>35, <1>36, <1>37
    DEF Next, Reader, Cleanup, MoveStep, StarterStep, TeardownStep, Terminated

-----------------------------------------------------------------------------
(* The inductive invariant, and what follows from it. *)

\* The server starts in the invariant.
LEMMA InitHolds == Init => IInv
<1>. SUFFICES ASSUME Init PROVE IInv
  OBVIOUS
<1>. USE InstAssumption, ProcessAssumption DEF Init
<1>1. TypeOK
  <2>1. Free \in Moves /\ NoCall \in Calls /\ Idle \in Ferries
        /\ [pc |-> "idle", todo |-> {}] \in Teardowns
    BY DEF Moves, Calls, Idle, Ferries, Teardowns
  <2>. QED
    BY <2>1 DEF TypeOK
<1>2. InstanceSet /\ FerryHasInstance
  BY DEF InstanceSet, FerryHasInstance, Idle
<1>3. OneWorld /\ NobodyInRemoved /\ EnteringGivesUpQueue /\ HubOpen /\ LoginLands
  BY DEF OneWorld, NobodyInRemoved, EnteringGivesUpQueue, HubOpen, LoginLands, Free
<1>4. UnknownBeforeJoin
  BY DEF UnknownBeforeJoin, Idle, NoCall, Free
<1>5. LockHasCaller /\ CallerWaits /\ BetweenWorlds /\ CleanupHasLock
  BY DEF LockHasCaller, CallerWaits, BetweenWorlds, CleanupHasLock, Free, MovePc, Mover
<1>6. LeavesFromList /\ EndedIsClosing
  BY DEF LeavesFromList, EndedIsClosing
<1>. QED
  BY <1>1, <1>2, <1>3, <1>4, <1>5, <1>6 DEF IInv, WellTyped

\* Every step of every goroutine keeps it.
LEMMA StepHolds == IInv /\ [Next]_vars => IInv'
<1>. SUFFICES ASSUME IInv, [Next]_vars PROVE IInv'
  OBVIOUS
<1>1. WellTyped'
  BY TypeStep DEF IInv
<1>2. HubOpen' /\ NobodyInRemoved'
  BY OpenStep DEF IInv
<1>3. LoginLands'
  BY LandsStep DEF IInv
<1>4. CleanupHasLock'
  BY CleanupLockStep DEF IInv
<1>5. CallerWaits' /\ LockHasCaller'
  BY CallerStep, LockStep DEF IInv
<1>6. EndedIsClosing'
  BY EndedStep DEF IInv
<1>7. UnknownBeforeJoin'
  BY UnknownStep DEF IInv
<1>8. OneWorld' /\ BetweenWorlds'
  BY WorldStep DEF IInv
<1>9. EnteringGivesUpQueue'
  BY QueueStep DEF IInv
<1>10. LeavesFromList'
  BY ListStep DEF IInv
<1>. QED
  BY <1>1, <1>2, <1>3, <1>4, <1>5, <1>6, <1>7, <1>8, <1>9, <1>10 DEF IInv

\* The conjunction the safety properties rest on holds in every reachable
\* state, for any number of connections, instances and goroutines.
THEOREM Invariant == Spec => []IInv
BY InitHolds, StepHolds, PTL DEF Spec

\* The state has its types, whatever the goroutines do.
THEOREM TypeCorrect == Spec => []TypeOK
<1>1. IInv => TypeOK
  BY DEF IInv, WellTyped
<1>. QED
  BY <1>1, Invariant, PTL

\* Nobody is ever in two worlds: joins, leaves, moves by any goroutine and
\* the cleanup keep Instance.Players and ClientConnection.instance together.
THEOREM NeverInTwoWorlds == Spec => []OneWorld
<1>1. IInv => OneWorld
  BY DEF IInv
<1>. QED
  BY <1>1, Invariant, PTL

\* A removed instance has no players and gets none, though RemoveInstance
\* and JoinAndAnnounce run on different goroutines.
THEOREM RemovedStaysEmpty == Spec => []NobodyInRemoved
<1>1. IInv => NobodyInRemoved
  BY DEF IInv
<1>. QED
  BY <1>1, Invariant, PTL

\* A player in play whom nobody is moving is in the list of its instance:
\* no move loses a player between two worlds.
THEOREM NobodyInLimbo == Spec => []NoLimbo
<1>1. IInv => NoLimbo
  BY DEF IInv, LeavesFromList, NoLimbo, Settled
<1>. QED
  BY <1>1, Invariant, PTL

\* A player who enters a game by a command of its own is out of every queue
\* by the time it leaves its old instance.
THEOREM EnteringLeavesQueue == Spec => []EnteringGivesUpQueue
<1>1. IInv => EnteringGivesUpQueue
  BY DEF IInv
<1>. QED
  BY <1>1, Invariant, PTL

\* No move puts a connection back into a list after its cleanup.
THEOREM CleanupStays == Spec => CleanupIsFinal
<1>1. IInv /\ [Next]_vars =>
        [\A c \in Conn, i \in Inst :
           /\ cpc[c] = "done" /\ c \notin members[i] /\ c \in members'[i]
           => rpc[c] = "join"]_vars
  <2>. SUFFICES ASSUME IInv, Next,
                       NEW c \in Conn, NEW i \in Inst,
                       cpc[c] = "done", c \notin members[i], c \in members'[i]
                PROVE  rpc[c] = "join"
    BY DEF vars
  <2>. USE DEF IInv, WellTyped, TypeOK
  <2>1. ASSUME NEW x \in Conn, CleanupLeave(x) \/ MoveLeave(x) PROVE FALSE
    BY <2>1 DEF CleanupLeave, MoveLeave, Leave
  <2>2. ASSUME NEW x \in Conn, LoginJoin(x) PROVE rpc[c] = "join"
    BY <2>2 DEF LoginJoin
  <2>3. ASSUME NEW x \in Conn, MoveJoin(x) PROVE FALSE
    <3>1. x = c
      BY <2>3 DEF MoveJoin
    <3>. QED
      BY <2>3, <3>1 DEF MoveJoin, CleanupHasLock
  <2>4. ASSUME NEW x \in Conn,
               \/ LoginEnter(x) \/ SendPlayPackets(x) \/ SendPlayFails(x) \/ ReaderEnds(x)
               \/ ReaderFails(x) \/ ReadPacket(x) \/ Handled(x) \/ CmdHub(x) \/ CmdLeave(x)
               \/ CmdPlayLeave(x) \/ CmdPlay(x) \/ Kick(x) \/ Shutdown(x)
        PROVE FALSE
    BY <2>4 DEF LoginEnter, SendPlayPackets, SendPlayFails, ReaderEnds, ReaderFails, ReadPacket,
         Handled, CmdHub, CmdLeave, CmdPlayLeave, CmdPlay, Kick, Shutdown, instVars
  <2>5. ASSUME NEW x \in Conn,
               \/ CleanupDequeue(x) \/ CleanupLock(x) \/ MoveCheck(x) \/ MoveDequeue(x)
               \/ MoveRespawn(x) \/ MoveStream(x) \/ MoveWriteFails(x)
        PROVE FALSE
    BY <2>5 DEF CleanupDequeue, CleanupLock, MoveCheck, MoveDequeue, MoveRespawn, MoveStream,
         MoveWriteFails, instVars
  <2>6. ASSUME NEW x \in Conn, NEW j \in Inst, CmdJoin(x, j) \/ TeardownMove(j, x) PROVE FALSE
    BY <2>6 DEF CmdJoin, TeardownMove, instVars
  <2>7. ASSUME NEW s \in Starter, NEW x \in Conn, StarterMove(s, x) PROVE FALSE
    BY <2>7 DEF StarterMove, instVars
  <2>8. ASSUME NEW s \in Starter, StarterFails(s) \/ StarterDone(s) PROVE FALSE
    BY <2>8 DEF StarterFails, StarterDone, instVars
  <2>9. ASSUME NEW s \in Starter, NEW j \in Fresh, StarterCreate(s, j) PROVE FALSE
    BY <2>9 DEF StarterCreate
  <2>10. ASSUME NEW j \in Fresh, CreateArena(j) \/ EndGame(j) \/ JanitorLook(j) PROVE FALSE
    BY <2>10 DEF CreateArena, EndGame, JanitorLook, instVars
  <2>11. ASSUME NEW j \in Inst, TeardownRemove(j) \/ InstanceDelete(j) PROVE FALSE
    BY <2>11 DEF TeardownRemove, InstanceDelete
  <2>12. ASSUME JanitorRemove PROVE FALSE
    BY <2>12 DEF JanitorRemove
  <2>13. ASSUME NEW p \in Mover, MoveAcquire(p) PROVE FALSE
    BY <2>13 DEF MoveAcquire, instVars
  <2>. QED
    BY <2>1, <2>2, <2>3, <2>4, <2>5, <2>6, <2>7, <2>8, <2>9, <2>10, <2>11, <2>12, <2>13
       DEF Next, Reader, Cleanup, MoveStep, StarterStep, TeardownStep, Terminated, vars
<1>. QED
  BY <1>1, Invariant, PTL DEF Spec, CleanupIsFinal

-----------------------------------------------------------------------------
(* The core implements Presence: every step of every goroutine enters or    *)
(* leaves one world with one player, opens or closes one world, or does     *)
(* nothing that Presence can see.                                           *)

\* A step that moves nobody and opens or closes nothing is a stutter.
LEMMA SameView ==
  ASSUME UNCHANGED <<istate, members, at>>
  PROVE  UNCHANGED P!presenceVars
BY DEF P!presenceVars, Where

\* A player in no list may be pointed anywhere without Presence seeing it.
LEMMA PointUnseen ==
  ASSUME NEW c \in Conn, NEW i \in Inst, at \in [Conn -> Inst \cup {None}],
         \A j \in Inst : c \notin members[j],
         UNCHANGED <<istate, members>>, at' = [at EXCEPT ![c] = i]
  PROVE  UNCHANGED P!presenceVars
<1>1. \A x \in Conn : Where'[x] = Where[x]
  BY DEF Where
<1>2. Where' = Where
  BY <1>1 DEF Where
<1>. QED
  BY <1>2 DEF P!presenceVars

\* A player in no list who is put into its instance's list enters a world.
LEMMA JoinSeen ==
  ASSUME OneWorld, members \in [Inst -> SUBSET Conn],
         NEW c \in Conn, NEW i \in Inst, at[c] = i, istate[i] = "open",
         \A j \in Inst : c \notin members[j],
         UNCHANGED <<istate, at>>, members' = [members EXCEPT ![i] = @ \cup {c}]
  PROVE  P!Enter(c, i)
<1>1. Where = [x \in Conn |-> IF \E j \in Inst : x \in members[j] THEN at[x] ELSE None]
  BY DEF Where
<1>2. Where[c] = None
  BY <1>1
<1>3. \A x \in Conn : Where'[x] = IF x = c THEN i ELSE Where[x]
  BY <1>1 DEF Where
<1>4. Where' = [Where EXCEPT ![c] = i]
  BY <1>3 DEF Where
<1>. QED
  BY <1>2, <1>4 DEF P!Enter

\* Leaving (LeaveAndAnnounce) is an exit for a member, a stutter for anyone
\* else.
LEMMA LeaveSeen ==
  ASSUME OneWorld, members \in [Inst -> SUBSET Conn], at \in [Conn -> Inst \cup {None}],
         None \notin Inst,
         NEW c \in Conn, Leave(c), UNCHANGED <<istate, at>>
  PROVE  P!Exit(c) \/ UNCHANGED P!presenceVars
<1>1. \A j \in Inst : c \notin members'[j]
  BY DEF Leave, OneWorld
<1>2. \A x \in Conn \ {c}, j \in Inst : x \in members'[j] <=> x \in members[j]
  BY DEF Leave
<1>3. \A x \in Conn : Where'[x] = IF x = c THEN None ELSE Where[x]
  BY <1>1, <1>2 DEF Where
<1>4. Where' = [Where EXCEPT ![c] = None]
  BY <1>3 DEF Where
<1>5. CASE \E j \in Inst : c \in members[j]
  <2>1. Where[c] # None
    BY <1>5 DEF Where, OneWorld
  <2>. QED
    BY <1>4, <2>1 DEF P!Exit
<1>6. CASE \A j \in Inst : c \notin members[j]
  <2>1. Where[c] = None
    BY <1>6 DEF Where
  <2>2. Where' = Where
    BY <1>3, <2>1 DEF Where
  <2>. QED
    BY <2>2 DEF P!presenceVars
<1>. QED
  BY <1>5, <1>6

\* Registering an instance opens a world.
LEMMA CreateSeen ==
  ASSUME istate \in [Inst -> {"unborn", "open", "removed"}],
         NEW i \in Inst, Create(i), UNCHANGED <<members, at>>
  PROVE  P!Open(i)
<1>1. Where' = Where
  BY DEF Where
<1>. QED
  BY <1>1 DEF P!Open, Create

\* RemoveInstance of an empty instance closes a world.
LEMMA RemoveSeen ==
  ASSUME istate \in [Inst -> {"unborn", "open", "removed"}], OneWorld, None \notin Inst,
         NEW i \in Inst, Removable(i), Remove(i), UNCHANGED <<members, at>>
  PROVE  P!Close(i)
<1>1. Where' = Where
  BY DEF Where
<1>2. \A c \in Conn : Where[c] # i
  BY DEF Where, OneWorld, Removable
<1>. QED
  BY <1>1, <1>2 DEF P!Close, Removable, Remove

\* The server's initial states are Presence's.
LEMMA InitSeen == Init => P!PresenceInit
BY InstAssumption, ProcessAssumption DEF Init, P!PresenceInit, Where

\* Every step is a step of Presence or a stutter.
LEMMA StepSeen ==
  ASSUME IInv, [Next]_vars
  PROVE  [P!PresenceNext]_(P!presenceVars)
<1>. USE InstAssumption, ProcessAssumption
<1>. DEFINE Stutter == UNCHANGED P!presenceVars
            Seen == P!PresenceNext \/ Stutter
<1>0. /\ istate \in [Inst -> {"unborn", "open", "removed"}] /\ members \in [Inst -> SUBSET Conn]
      /\ at \in [Conn -> Inst \cup {None}] /\ move \in [Conn -> Moves]
      /\ OneWorld /\ BetweenWorlds /\ UnknownBeforeJoin /\ LoginLands /\ None \notin Inst
  BY DEF IInv, WellTyped, TypeOK
<1>1. ASSUME NEW c \in Conn, LoginEnter(c) PROVE Seen
  BY <1>0, <1>1, PointUnseen DEF LoginEnter, UnknownBeforeJoin, instVars
<1>2. ASSUME NEW c \in Conn, LoginJoin(c) PROVE Seen
  <2>1. at[c] = Landing /\ \A j \in Inst : c \notin members[j]
    BY <1>0, <1>2 DEF LoginJoin, LoginLands, UnknownBeforeJoin
  <2>2. CASE istate[Landing] = "open"
    <3>1. P!Enter(c, Landing)
      BY <1>0, <1>2, <2>1, <2>2, JoinSeen DEF LoginJoin
    <3>. QED
      BY <3>1 DEF P!PresenceNext
  <2>3. CASE istate[Landing] # "open"
    <3>1. members' = members
      BY <1>0, <1>2, <2>1, <2>3 DEF LoginJoin
    <3>. QED
      BY <1>2, <3>1, SameView DEF LoginJoin
  <2>. QED
    BY <2>2, <2>3
<1>3. ASSUME NEW c \in Conn, CleanupLeave(c) \/ MoveLeave(c) PROVE Seen
  <2>1. P!Exit(c) \/ Stutter
    BY <1>0, <1>3, LeaveSeen DEF CleanupLeave, MoveLeave, connVars
  <2>. QED
    BY <2>1 DEF P!PresenceNext
<1>4. ASSUME NEW c \in Conn, MoveRespawn(c) PROVE Seen
  <2>1. move[c].to \in Inst /\ \A j \in Inst : c \notin members[j]
    BY <1>0, <1>4, HeldMove DEF MoveRespawn, BetweenWorlds, MovePc
  <2>. QED
    BY <1>0, <1>4, <2>1, PointUnseen DEF MoveRespawn, instVars
<1>5. ASSUME NEW c \in Conn, MoveJoin(c) PROVE Seen
  <2>1. /\ move[c].to \in Inst /\ at[c] = move[c].to
        /\ \A j \in Inst : c \notin members[j]
    BY <1>0, <1>5, HeldMove DEF MoveJoin, BetweenWorlds, MovePc
  <2>2. CASE istate[move[c].to] = "open"
    <3>1. P!Enter(c, move[c].to)
      BY <1>0, <1>5, <2>1, <2>2, JoinSeen DEF MoveJoin, connVars
    <3>. QED
      BY <2>1, <3>1 DEF P!PresenceNext
  <2>3. CASE istate[move[c].to] # "open"
    BY <1>5, <2>3, SameView DEF MoveJoin, connVars
  <2>. QED
    BY <2>2, <2>3
<1>6. ASSUME NEW s \in Starter, NEW i \in Fresh, StarterCreate(s, i) PROVE Seen
  <2>1. P!Open(i)
    BY <1>0, <1>6, CreateSeen DEF StarterCreate, connVars
  <2>. QED
    BY <2>1 DEF P!PresenceNext
<1>7. ASSUME NEW i \in Fresh, CreateArena(i) PROVE Seen
  <2>1. P!Open(i)
    BY <1>0, <1>7, CreateSeen DEF CreateArena, connVars
  <2>. QED
    BY <2>1 DEF P!PresenceNext
<1>8. ASSUME NEW i \in Inst, Removable(i), Remove(i), UNCHANGED <<members, at>> PROVE Seen
  <2>1. P!Close(i)
    BY <1>0, <1>8, RemoveSeen
  <2>. QED
    BY <2>1 DEF P!PresenceNext
<1>9. ASSUME NEW i \in Inst, TeardownRemove(i) PROVE Seen
  <2>1. CASE Removable(i) /\ Remove(i)
    BY <1>8, <1>9, <2>1 DEF TeardownRemove, connVars
  <2>2. CASE UNCHANGED istate
    BY <1>9, <2>2, SameView DEF TeardownRemove, connVars
  <2>. QED
    BY <1>9, <2>1, <2>2 DEF TeardownRemove
<1>10. ASSUME NEW i \in Inst, InstanceDelete(i) PROVE Seen
  BY <1>8, <1>10 DEF InstanceDelete, connVars
<1>11. ASSUME JanitorRemove PROVE Seen
  <2>1. CASE Removable(sweep) /\ Remove(sweep)
    <3>1. sweep \in Inst
      BY <1>11 DEF JanitorRemove, IInv, WellTyped, TypeOK
    <3>. QED
      BY <1>8, <1>11, <2>1, <3>1 DEF JanitorRemove, connVars
  <2>2. CASE UNCHANGED istate
    BY <1>11, <2>2, SameView DEF JanitorRemove, connVars
  <2>. QED
    BY <1>11, <2>1, <2>2 DEF JanitorRemove
<1>. HIDE DEF Seen, Stutter
<1>12. ASSUME UNCHANGED <<istate, members, at>> PROVE Seen
  BY <1>12, SameView DEF Seen, Stutter
<1>13. ASSUME NEW c \in Conn, 
               SendPlayPackets(c) \/ SendPlayFails(c) \/ ReaderEnds(c) \/ ReaderFails(c) \/
               ReadPacket(c) \/ Handled(c) \/ CmdHub(c) \/ CmdLeave(c)
      PROVE  Seen
  BY <1>13, <1>12
    DEF SendPlayPackets, SendPlayFails, ReaderEnds, ReaderFails, ReadPacket, Handled, CmdHub,
        CmdLeave, instVars, connVars
<1>14. ASSUME NEW c \in Conn, 
               CmdPlayLeave(c) \/ CmdPlay(c) \/ Kick(c) \/ Shutdown(c) \/ CleanupDequeue(c) \/
               CleanupLock(c) \/ MoveCheck(c) \/ MoveDequeue(c)
      PROVE  Seen
  BY <1>14, <1>12
    DEF CmdPlayLeave, CmdPlay, Kick, Shutdown, CleanupDequeue, CleanupLock, MoveCheck,
        MoveDequeue, instVars, connVars
<1>15. ASSUME NEW c \in Conn, 
               MoveStream(c) \/ MoveWriteFails(c)
      PROVE  Seen
  BY <1>15, <1>12 DEF MoveStream, MoveWriteFails, instVars, connVars
<1>16. ASSUME NEW c \in Conn, NEW i \in Inst, 
               CmdJoin(c, i)
      PROVE  Seen
  BY <1>16, <1>12 DEF CmdJoin, instVars, connVars
<1>17. ASSUME NEW p \in Mover, 
               MoveAcquire(p)
      PROVE  Seen
  BY <1>17, <1>12 DEF MoveAcquire, instVars, connVars
<1>18. ASSUME NEW s \in Starter, 
               StarterFails(s) \/ StarterDone(s)
      PROVE  Seen
  BY <1>18, <1>12 DEF StarterFails, StarterDone, instVars, connVars
<1>19. ASSUME NEW s \in Starter, NEW c \in Conn, 
               StarterMove(s, c)
      PROVE  Seen
  BY <1>19, <1>12 DEF StarterMove, instVars, connVars
<1>20. ASSUME NEW i \in Fresh, 
               EndGame(i) \/ JanitorLook(i)
      PROVE  Seen
  BY <1>20, <1>12 DEF EndGame, JanitorLook, instVars, connVars
<1>21. ASSUME NEW i \in Inst, NEW c \in Conn, 
               TeardownMove(i, c)
      PROVE  Seen
  BY <1>21, <1>12 DEF TeardownMove, instVars, connVars
<1>22. ASSUME UNCHANGED vars PROVE Seen
  BY <1>22, <1>12 DEF vars
<1>. QED
  BY <1>1, <1>2, <1>3, <1>4, <1>5, <1>6, <1>7, <1>9, <1>10, <1>11, <1>13, <1>14, <1>15,
     <1>16, <1>17, <1>18, <1>19, <1>20, <1>21, <1>22
    DEF Next, Reader, Cleanup, MoveStep, StarterStep, TeardownStep, Terminated, Seen,
        Stutter

\* The code's promise about worlds and players holds whatever the goroutines
\* do: the session core implements Presence.
THEOREM Refinement == Spec => ImplementsPresence
<1>1. IInv /\ [Next]_vars => [P!PresenceNext]_(P!presenceVars)
  BY StepSeen
<1>. QED
  BY <1>1, InitSeen, Invariant, PTL DEF Spec, ImplementsPresence, P!PresenceSpec
=============================================================================
