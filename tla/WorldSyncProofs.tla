-------------------------- MODULE WorldSyncProofs --------------------------
(***************************************************************************)
(* Proofs about the world: WorldSync, for any number of positions,         *)
(* columns, writers and clients, and any change lists; Fluid; and Blast.   *)
(*                                                                         *)
(* SyncInv is inductive.  Its core: what a writer owes is the world's      *)
(* block unless somebody raced it (OwedIsWorld), so every broadcast puts   *)
(* whoever hears it in step; what a bake leaves alone is exact up to the   *)
(* version it read (CleanIsExact); and a mover's buffer, laid over what it *)
(* has been sent, is in step from the bake on (MoverAhead).                *)
(***************************************************************************)
EXTENDS WorldSync, Fluid, Blast, SumTheorems, SequenceTheorems, TLAPS

\* Laying one picture over another gives a picture.
LEMMA OverIsPicture ==
    ASSUME NEW x \in Picture, NEW y \in Picture
    PROVE  Over(x, y) \in Picture
BY DEF Over, Picture

\* What a section's packet carries is a picture.
LEMMA PayloadIsPicture ==
    ASSUME TypeOK, NEW w \in Writer, NEW s \in Section
    PROVE  SectionPayload(w, s) \in Picture
BY DEF SectionPayload, Picture, TypeOK

\* One change made: nobody is put out of step, because the writer now owes
\* the position it wrote.
LEMMA MakeChangeKeeps ==
    ASSUME SyncInv, NEW w \in Writer,
           NEW changes \in Seq(Change), changes # <<>>, MakeChange(w, changes)
    PROVE  SyncInv'
<1> DEFINE p == Head(changes).pos
           b == Head(changes).block
<1> USE MapAssumption
<1>1. p \in Pos /\ b \in Block /\ Tail(changes) \in Seq(Change) /\ b # None
  <2>1. Head(changes) \in Change /\ Tail(changes) \in Seq(Change)
    BY HeadTailProperties
  <2> QED
    BY <2>1 DEF Change
<1> HIDE DEF p, b
<1>2. /\ UNCHANGED <<cacheVars, clientVars>>
      /\ todo' = [todo EXCEPT ![w] = Tail(changes)]
      /\ owed' = [owed EXCEPT ![w][p] = b]
      /\ contested' = IF \E o \in Writer \ {w} : Owes(o, p)
                      THEN contested \cup {p} ELSE contested \ {p}
      /\ WorldSetBlock(p, b)
  BY DEF MakeChange, p, b
<1>3. /\ world' \in [Pos -> Block] /\ world'[p] = b
      /\ \A q \in Pos : q # p => world'[q] = world[q]
  <2>1. CASE world[p] = b
    BY <1>1, <1>2, <2>1 DEF WorldSetBlock, worldVars, SyncInv, TypeOK
  <2>2. CASE world[p] # b
    <3>1. world' = [world EXCEPT ![p] = b]
      BY <1>2, <2>2 DEF WorldSetBlock
    <3> QED
      BY <1>1, <3>1 DEF SyncInv, TypeOK
  <2> QED
    BY <2>1, <2>2
<1>4. /\ version' \in Nat /\ version <= version'
      /\ colVersion' \in [Column -> Nat]
      /\ \A k \in Column : colVersion'[k] = colVersion[k] \/ colVersion'[k] > version
      /\ \A k \in Column : colVersion[k] <= colVersion'[k] /\ colVersion'[k] <= version'
      /\ \A q \in Pos : world'[q] = world[q] \/ colVersion'[ColumnOf[q]] > version
  <2>1. CASE world[p] = b
    BY <1>1, <1>2, <2>1 DEF WorldSetBlock, worldVars, SyncInv, TypeOK, VersionsGrow
  <2>2. CASE world[p] # b
    <3>1. /\ version' = version + 1
          /\ world' = [world EXCEPT ![p] = b]
          /\ colVersion' = [colVersion EXCEPT ![ColumnOf[p]] = version + 1]
      BY <1>2, <2>2 DEF WorldSetBlock
    <3> QED
      BY <1>1, <3>1 DEF SyncInv, TypeOK, VersionsGrow
  <2> QED
    BY <2>1, <2>2
<1>5. /\ owed' \in [Writer -> Picture] /\ owed'[w][p] = b
      /\ \A o \in Writer, q \in Pos : o # w \/ q # p => owed'[o][q] = owed[o][q]
  BY <1>1, <1>2 DEF SyncInv, TypeOK, Picture
<1>6. TypeOK'
  BY <1>1, <1>2, <1>3, <1>4, <1>5 DEF SyncInv, TypeOK, cacheVars, clientVars
<1>7. ASSUME NEW q \in Pos, NEW x, InStepAt(q, x)
      PROVE  InStepAt(q, x)'
  BY <1>1, <1>2, <1>3, <1>5, <1>7 DEF InStepAt, Pending, Owes
<1>8. MoverInStep'
  BY <1>2, <1>7 DEF SyncInv, MoverInStep, At, clientVars
<1>9. CacheExact'
  BY <1>2, <1>4 DEF SyncInv, TypeOK, CacheExact, BakerHasLock, cacheVars
<1>10. OwedIsWorld'
  BY <1>1, <1>2, <1>3, <1>5 DEF SyncInv, OwedIsWorld, Owes
<1>11. VersionsGrow' /\ BakerHasLock'
  BY <1>2, <1>4 DEF SyncInv, TypeOK, VersionsGrow, BakerHasLock, cacheVars, clientVars
<1>12. CleanIsExact'
  <2> SUFFICES ASSUME NEW c \in Client, At(c, "bake")', NEW q \in Pos,
                      (ColumnOf[q] \notin baker.dirty /\ colVersion[ColumnOf[q]] <= baker.v)'
               PROVE  (cache.built /\ cache.blocks[q] = world[q])'
    BY DEF CleanIsExact
  <2>1. At(c, "bake") /\ baker.by = c /\ baker.v <= version
    BY <1>2 DEF SyncInv, BakerHasLock, At, clientVars, cacheVars
  <2>2. world'[q] = world[q] /\ colVersion[ColumnOf[q]] <= baker.v
    BY <1>2, <1>4, <2>1 DEF SyncInv, TypeOK, cacheVars
  <2> QED
    BY <1>2, <2>1, <2>2 DEF SyncInv, CleanIsExact, cacheVars
<1>13. MoverAhead'
  BY <1>2, <1>7 DEF SyncInv, MoverAhead, At, Ahead, Over, cacheVars, clientVars
<1>14. BufferInStep'
  BY <1>2, <1>7 DEF SyncInv, TypeOK, BufferInStep, clientVars
<1>15. NoStreamLeft' /\ MoverHasStream'
  BY <1>2 DEF SyncInv, NoStreamLeft, MoverHasStream, clientVars
<1> QED
  BY <1>6, <1>8, <1>9, <1>10, <1>11, <1>12, <1>13, <1>14, <1>15 DEF SyncInv

\* The first change of a list ...
LEMMA SetBlocksKeeps ==
    ASSUME SyncInv, NEW w \in Writer, SetBlocks(w)
    PROVE  SyncInv'
BY JobsAssumption, MakeChangeKeeps DEF SetBlocks

\* ... and each later one.
LEMMA NextChangeKeeps ==
    ASSUME SyncInv, NEW w \in Writer, NextChange(w)
    PROVE  SyncInv'
BY MakeChangeKeeps DEF NextChange, SyncInv, TypeOK

\* A section broadcast: whoever is told of a position shows what was written
\* there, which is the world's block unless somebody raced the writer.
LEMMA BroadcastBlocksKeeps ==
    ASSUME SyncInv, NEW w \in Writer, NEW s \in Section, BroadcastBlocks(w, s)
    PROVE  SyncInv'
<1> DEFINE sent == SectionPayload(w, s)
<1>1. sent \in Picture
  BY PayloadIsPicture DEF SyncInv
<1>2. \A q \in Pos : sent[q] # None => sent[q] = owed[w][q] /\ InStepAt(q, sent[q])
  BY DEF SectionPayload, SyncInv, OwedIsWorld, InStepAt, Owes
<1>3. /\ UNCHANGED <<worldVars, todo, contested, cacheVars, load, frames, players, streams>>
      /\ view' = [c \in Client |-> IF c \in players THEN Over(sent, view[c]) ELSE view[c]]
      /\ buffer' = [c \in Client |-> IF c \in streams THEN Over(sent, buffer[c]) ELSE buffer[c]]
      /\ owed' = [owed EXCEPT ![w] = [p \in Pos |-> IF SectionOf[p] = s THEN None ELSE @[p]]]
  BY DEF BroadcastBlocks
<1>4. \A o \in Writer, q \in Pos :
        owed'[o][q] = IF o = w /\ SectionOf[q] = s THEN None ELSE owed[o][q]
  BY <1>3 DEF SyncInv, TypeOK, Picture
<1>5. \A q \in Pos : sent[q] = IF SectionOf[q] = s THEN owed[w][q] ELSE None
  BY DEF SectionPayload
<1> HIDE DEF sent
<1>6. TypeOK'
  <2>1. owed' \in [Writer -> Picture]
    BY <1>3 DEF SyncInv, TypeOK, Picture
  <2>2. view' \in [Client -> Picture] /\ buffer' \in [Client -> Picture]
    BY <1>1, <1>3, OverIsPicture DEF SyncInv, TypeOK
  <2> QED
    BY <1>3, <2>1, <2>2 DEF SyncInv, TypeOK, worldVars, cacheVars
<1>7. ASSUME NEW q \in Pos, NEW x, InStepAt(q, x), sent[q] = None \/ x = sent[q]
      PROVE  InStepAt(q, x)'
  <2>1. CASE sent[q] = None
    BY <1>3, <1>4, <1>5, <1>7, <2>1 DEF InStepAt, Pending, Owes, worldVars
  <2>2. CASE sent[q] # None /\ x = sent[q]
    BY <1>2, <1>3, <1>4, <1>5, <2>2
       DEF SyncInv, OwedIsWorld, InStepAt, Pending, Owes, worldVars
  <2> QED
    BY <1>7, <2>1, <2>2
<1>8. MoverInStep'
  <2> SUFFICES ASSUME NEW c \in Client, At(c, "in")', load'[c].by = "move", NEW q \in Pos
               PROVE  InStepAt(q, view[c][q])'
    BY DEF MoverInStep
  <2>1. c \in players /\ InStepAt(q, view[c][q])
    BY <1>3 DEF SyncInv, MoverInStep, MoverHasStream, At
  <2>2. view'[c][q] = IF sent[q] # None THEN sent[q] ELSE view[c][q]
    BY <1>3, <2>1 DEF Over
  <2> QED
    BY <1>2, <1>7, <2>1, <2>2
<1>9. MoverAhead'
  <2> SUFFICES ASSUME NEW c \in Client, load'[c].by = "move", NEW q \in Pos
               PROVE  /\ At(c, "bake")' /\ ColumnOf[q] \notin baker'.dirty
                           => cache'.built /\ InStepAt(q, Ahead(c, cache.blocks)[q])'
                      /\ At(c, "send")' => InStepAt(q, Ahead(c, frames[c])[q])'
                      /\ load'[c].pc \in {"join", "replay"}
                           => InStepAt(q, Ahead(c, view[c])[q])'
    BY DEF MoverAhead
  <2>1. CASE load[c].pc \notin {"bake", "send", "join", "replay"}
    BY <1>3, <2>1 DEF At
  <2>2. CASE load[c].pc \in {"bake", "send", "join", "replay"}
    <3>1. c \in streams
      BY <1>3, <2>2 DEF SyncInv, MoverHasStream
    <3>2. buffer'[c][q] = IF sent[q] # None THEN sent[q] ELSE buffer[c][q]
      BY <1>3, <3>1 DEF Over
    <3>3. \A has : Ahead(c, has)[q] = IF buffer[c][q] # None THEN buffer[c][q] ELSE has[q]
      BY DEF Ahead, Over
    <3>4. \A has : Over(buffer'[c], has)[q]
                    = IF sent[q] # None THEN sent[q] ELSE Ahead(c, has)[q]
      BY <3>2, <3>3 DEF Over
    <3>5. Over(buffer'[c], view'[c])[q]
            = IF sent[q] # None THEN sent[q] ELSE Ahead(c, view[c])[q]
      BY <1>3, <3>2, <3>3 DEF Over
    <3> QED
      BY <1>2, <1>3, <1>7, <3>4, <3>5 DEF SyncInv, MoverAhead, At, Ahead, cacheVars
  <2> QED
    BY <2>1, <2>2
<1>10. OwedIsWorld'
  BY <1>3, <1>4 DEF SyncInv, OwedIsWorld, Owes, worldVars
<1>11. CacheExact' /\ VersionsGrow' /\ BakerHasLock' /\ CleanIsExact'
  BY <1>3 DEF SyncInv, CacheExact, VersionsGrow, BakerHasLock, CleanIsExact, At,
              worldVars, cacheVars
<1>12. NoStreamLeft' /\ MoverHasStream'
  BY <1>3 DEF SyncInv, NoStreamLeft, MoverHasStream
<1>13. BufferInStep'
  <2> SUFFICES ASSUME NEW c \in streams, NEW q \in Pos, buffer'[c][q] # None
               PROVE  InStepAt(q, buffer[c][q])'
    BY <1>3 DEF BufferInStep
  <2>1. c \in Client /\ buffer'[c][q] = IF sent[q] # None THEN sent[q] ELSE buffer[c][q]
    BY <1>3 DEF Over, SyncInv, TypeOK
  <2> QED
    BY <1>2, <1>7, <2>1 DEF SyncInv, BufferInStep
<1> QED
  BY <1>6, <1>8, <1>9, <1>10, <1>11, <1>12, <1>13 DEF SyncInv

\* Advancing one client's load.
LEMMA GoMoves ==
    ASSUME TypeOK, NEW c \in Client, NEW pc \in LoadPc, Go(c, pc)
    PROVE  /\ load' \in [Client -> [pc : LoadPc, by : {"move", "login", "respawn"}]]
           /\ load'[c].pc = pc /\ load'[c].by = load[c].by
           /\ \A d \in Client \ {c} : load'[d] = load[d]
BY DEF TypeOK, Go

\* A step that leaves world and writers alone leaves everybody as much in
\* step as it was.
LEMMA StillInStep ==
    ASSUME UNCHANGED <<worldVars, writerVars>>
    PROVE  \A q \in Pos : \A x : InStepAt(q, x)' <=> InStepAt(q, x)
BY DEF worldVars, writerVars, InStepAt, Pending, Owes

\* A stream opened: its buffer is empty.
LEMMA BeginStreamKeeps ==
    ASSUME SyncInv, NEW c \in Client, BeginStream(c)
    PROVE  SyncInv'
<1> USE DEF BeginStream, At, worldVars, writerVars, cacheVars
<1>1. TypeOK'
  BY MapAssumption DEF SyncInv, TypeOK, Nothing, Picture, LoadPc
<1>2. CacheExact' /\ VersionsGrow' /\ OwedIsWorld'
  BY
     DEF SyncInv, TypeOK, CacheExact, VersionsGrow, CleanIsExact, BakerHasLock,
         OwedIsWorld, Owes
<1>3. BakerHasLock'
  BY MapAssumption DEF SyncInv, TypeOK, BakerHasLock
<1>4. CleanIsExact'
  BY DEF SyncInv, TypeOK, CleanIsExact, CacheExact, BakerHasLock
<1>5. NoStreamLeft' /\ MoverHasStream'
  BY DEF SyncInv, TypeOK, NoStreamLeft, MoverHasStream
<1>6. \A q \in Pos : \A x : InStepAt(q, x)' <=> InStepAt(q, x)
  BY StillInStep
<1>7. BufferInStep'
  BY <1>6 DEF SyncInv, TypeOK, BufferInStep, Nothing
<1>8. MoverInStep'
  BY <1>6 DEF SyncInv, TypeOK, MoverInStep, MoverAhead, Ahead, Over
<1>9. MoverAhead'
  BY <1>6, MapAssumption
     DEF SyncInv, TypeOK, BufferInStep, MoverAhead, Ahead, Over, Nothing,
         BakerHasLock, CacheExact, VersionsGrow, MoverHasStream
<1> QED
  BY <1>1, <1>2, <1>3, <1>4, <1>5, <1>7, <1>8, <1>9 DEF SyncInv

\* A login is not a move.
LEMMA LoginPlayKeeps ==
    ASSUME SyncInv, NEW c \in Client, LoginPlay(c)
    PROVE  SyncInv'
<1> USE DEF LoginPlay, At, worldVars, writerVars, cacheVars
<1>1. TypeOK'
  BY MapAssumption DEF SyncInv, TypeOK, Picture, LoadPc
<1>2. CacheExact' /\ VersionsGrow' /\ OwedIsWorld'
  BY
     DEF SyncInv, TypeOK, CacheExact, VersionsGrow, CleanIsExact, BakerHasLock,
         OwedIsWorld, Owes
<1>3. BakerHasLock'
  BY MapAssumption DEF SyncInv, TypeOK, BakerHasLock
<1>4. CleanIsExact'
  BY DEF SyncInv, TypeOK, CleanIsExact, CacheExact, BakerHasLock
<1>5. NoStreamLeft' /\ MoverHasStream'
  BY DEF SyncInv, TypeOK, NoStreamLeft, MoverHasStream
<1>6. \A q \in Pos : \A x : InStepAt(q, x)' <=> InStepAt(q, x)
  BY StillInStep
<1>7. BufferInStep'
  BY <1>6 DEF SyncInv, TypeOK, BufferInStep
<1>8. MoverInStep'
  BY <1>6 DEF SyncInv, TypeOK, MoverInStep, MoverAhead, Ahead, Over
<1>9. MoverAhead'
  BY <1>6, MapAssumption
     DEF SyncInv, TypeOK, BufferInStep, MoverAhead, Ahead, Over,
         BakerHasLock, CacheExact, VersionsGrow, MoverHasStream
<1> QED
  BY <1>1, <1>2, <1>3, <1>4, <1>5, <1>7, <1>8, <1>9 DEF SyncInv

\* A respawn ends what a move had established, and leaves Players alone.
LEMMA ResyncViewKeeps ==
    ASSUME SyncInv, NEW c \in Client, ResyncView(c)
    PROVE  SyncInv'
<1> USE DEF ResyncView, At, worldVars, writerVars, cacheVars
<1>1. TypeOK'
  BY MapAssumption DEF SyncInv, TypeOK, Nothing, Picture, LoadPc
<1>2. CacheExact' /\ VersionsGrow' /\ OwedIsWorld'
  BY
     DEF SyncInv, TypeOK, CacheExact, VersionsGrow, CleanIsExact, BakerHasLock,
         OwedIsWorld, Owes
<1>3. BakerHasLock'
  BY MapAssumption DEF SyncInv, TypeOK, BakerHasLock
<1>4. CleanIsExact'
  BY DEF SyncInv, TypeOK, CleanIsExact, CacheExact, BakerHasLock
<1>5. NoStreamLeft' /\ MoverHasStream'
  BY DEF SyncInv, TypeOK, NoStreamLeft, MoverHasStream
<1>6. \A q \in Pos : \A x : InStepAt(q, x)' <=> InStepAt(q, x)
  BY StillInStep
<1>7. BufferInStep'
  BY <1>6 DEF SyncInv, TypeOK, BufferInStep, Nothing
<1>8. MoverInStep'
  BY <1>6 DEF SyncInv, TypeOK, MoverInStep, MoverAhead, Ahead, Over
<1>9. MoverAhead'
  BY <1>6, MapAssumption
     DEF SyncInv, TypeOK, BufferInStep, MoverAhead, Ahead, Over, Nothing,
         BakerHasLock, CacheExact, VersionsGrow, MoverHasStream
<1> QED
  BY <1>1, <1>2, <1>3, <1>4, <1>5, <1>7, <1>8, <1>9 DEF SyncInv

\* The cache filed under the current version is the world.
LEMMA CacheHitKeeps ==
    ASSUME SyncInv, NEW c \in Client, CacheHit(c)
    PROVE  SyncInv'
<1> USE DEF CacheHit, At, worldVars, writerVars, cacheVars
<1>0. /\ load' \in [Client -> [pc : LoadPc, by : {"move", "login", "respawn"}]]
      /\ load'[c].pc = "send"
      /\ load'[c].by = load[c].by
      /\ \A d \in Client \ {c} : load'[d] = load[d]
  BY GoMoves DEF SyncInv, LoadPc
<1>1. TypeOK'
  BY <1>0, MapAssumption DEF SyncInv, TypeOK, Picture
<1>2. CacheExact' /\ VersionsGrow' /\ OwedIsWorld'
  BY <1>0
     DEF SyncInv, TypeOK, CacheExact, VersionsGrow, CleanIsExact, BakerHasLock,
         OwedIsWorld, Owes
<1>3. BakerHasLock'
  BY ZenonT(40), <1>0, MapAssumption DEF SyncInv, TypeOK, BakerHasLock
<1>4. CleanIsExact'
  BY <1>0 DEF SyncInv, TypeOK, CleanIsExact, CacheExact, BakerHasLock
<1>5. NoStreamLeft' /\ MoverHasStream'
  BY ZenonT(40), <1>0 DEF SyncInv, TypeOK, NoStreamLeft, MoverHasStream
<1>6. \A q \in Pos : \A x : InStepAt(q, x)' <=> InStepAt(q, x)
  BY StillInStep
<1>7. BufferInStep'
  BY <1>0, <1>6 DEF SyncInv, TypeOK, BufferInStep
<1>8. MoverInStep'
  BY SMTT(20), <1>0, <1>6 DEF SyncInv, TypeOK, MoverInStep, MoverAhead, Ahead, Over
<1>9. MoverAhead'
  <2> SUFFICES ASSUME NEW d \in Client, load'[d].by = "move", NEW q \in Pos
               PROVE  /\ At(d, "bake")' /\ ColumnOf[q] \notin baker'.dirty
                           => cache'.built /\ InStepAt(q, Ahead(d, cache.blocks)[q])'
                      /\ At(d, "send")' => InStepAt(q, Ahead(d, frames[d])[q])'
                      /\ load'[d].pc \in {"join", "replay"}
                           => InStepAt(q, Ahead(d, view[d])[q])'
    BY DEF MoverAhead
  <2>1. CASE d # c
    BY <1>0, <1>6, <2>1 DEF SyncInv, TypeOK, MoverAhead, Ahead, BakerHasLock
  <2>2. CASE d = c
    <3>1. cache.blocks[q] = world[q]
      BY MapAssumption DEF SyncInv, TypeOK, CacheExact, VersionsGrow
    <3>2. InStepAt(q, Ahead(c, cache.blocks)[q])
      BY <1>0, <2>2, <3>1, MapAssumption
         DEF SyncInv, TypeOK, BufferInStep, MoverHasStream, Ahead, Over, InStepAt
    <3> QED
      BY <1>0, <1>6, <2>2, <3>2 DEF Ahead, SyncInv, TypeOK
  <2> QED
    BY <2>1, <2>2
<1> QED
  BY <1>1, <1>2, <1>3, <1>4, <1>5, <1>7, <1>8, <1>9 DEF SyncInv

\* The baker takes the lock and the version.
LEMMA CacheMissKeeps ==
    ASSUME SyncInv, NEW c \in Client, CacheMiss(c)
    PROVE  SyncInv'
<1> USE DEF CacheMiss, At, worldVars, writerVars, cacheVars
<1>0. /\ load' \in [Client -> [pc : LoadPc, by : {"move", "login", "respawn"}]]
      /\ load'[c].pc = "dirty"
      /\ load'[c].by = load[c].by
      /\ \A d \in Client \ {c} : load'[d] = load[d]
  BY GoMoves DEF SyncInv, LoadPc
<1>1. TypeOK'
  BY <1>0, MapAssumption DEF SyncInv, TypeOK, Picture
<1>2. CacheExact' /\ VersionsGrow' /\ OwedIsWorld'
  BY <1>0
     DEF SyncInv, TypeOK, CacheExact, VersionsGrow, CleanIsExact, BakerHasLock,
         OwedIsWorld, Owes
<1>3. BakerHasLock'
  BY <1>0, MapAssumption DEF SyncInv, TypeOK, BakerHasLock
<1>4. CleanIsExact'
  BY <1>0, MapAssumption DEF SyncInv, CleanIsExact, BakerHasLock
<1>5. NoStreamLeft' /\ MoverHasStream'
  BY ZenonT(40), <1>0 DEF SyncInv, TypeOK, NoStreamLeft, MoverHasStream
<1>6. \A q \in Pos : \A x : InStepAt(q, x)' <=> InStepAt(q, x)
  BY StillInStep
<1>7. BufferInStep'
  BY <1>0, <1>6 DEF SyncInv, TypeOK, BufferInStep
<1>8. MoverInStep'
  BY <1>0, <1>6 DEF SyncInv, TypeOK, MoverInStep, MoverAhead, Ahead, Over
<1>9. MoverAhead'
  <2> SUFFICES ASSUME NEW d \in Client, load'[d].by = "move", NEW q \in Pos
               PROVE  /\ At(d, "bake")' /\ ColumnOf[q] \notin baker'.dirty
                           => cache'.built /\ InStepAt(q, Ahead(d, cache.blocks)[q])'
                      /\ At(d, "send")' => InStepAt(q, Ahead(d, frames[d])[q])'
                      /\ load'[d].pc \in {"join", "replay"}
                           => InStepAt(q, Ahead(d, view[d])[q])'
    BY DEF MoverAhead
  <2>1. CASE d # c
    BY <1>0, <1>6, <2>1, MapAssumption DEF SyncInv, TypeOK, MoverAhead, Ahead, BakerHasLock
  <2>2. CASE d = c
    BY <1>0, <2>2
  <2> QED
    BY <2>1, <2>2
<1> QED
  BY <1>1, <1>2, <1>3, <1>4, <1>5, <1>7, <1>8, <1>9 DEF SyncInv

\* A column not named dirty has not changed since it was baked.
LEMMA ChangedSinceKeeps ==
    ASSUME SyncInv, NEW c \in Client, ChangedSince(c)
    PROVE  SyncInv'
<1> USE DEF ChangedSince, At, worldVars, writerVars, cacheVars
<1>0. /\ load' \in [Client -> [pc : LoadPc, by : {"move", "login", "respawn"}]]
      /\ load'[c].pc = "bake"
      /\ load'[c].by = load[c].by
      /\ \A d \in Client \ {c} : load'[d] = load[d]
  BY GoMoves DEF SyncInv, LoadPc
<1>1. TypeOK'
  BY <1>0, MapAssumption DEF SyncInv, TypeOK, Picture
<1>2. CacheExact' /\ VersionsGrow' /\ OwedIsWorld'
  BY <1>0
     DEF SyncInv, TypeOK, CacheExact, VersionsGrow, CleanIsExact, BakerHasLock,
         OwedIsWorld, Owes
<1>3. BakerHasLock'
  BY <1>0, MapAssumption DEF SyncInv, TypeOK, BakerHasLock
<1>4. CleanIsExact'
  <2>1. baker.by = c
    BY DEF SyncInv, BakerHasLock
  <2>2. \A q \in Pos : ColumnOf[q] \notin baker'.dirty
                         => cache.built /\ cache.blocks[q] = world[q]
    BY MapAssumption DEF SyncInv, TypeOK, CacheExact
  <2> QED
    BY <1>0, <2>1, <2>2 DEF SyncInv, BakerHasLock, CleanIsExact
<1>5. NoStreamLeft' /\ MoverHasStream'
  BY ZenonT(40), <1>0 DEF SyncInv, TypeOK, NoStreamLeft, MoverHasStream
<1>6. \A q \in Pos : \A x : InStepAt(q, x)' <=> InStepAt(q, x)
  BY StillInStep
<1>7. BufferInStep'
  BY <1>0, <1>6 DEF SyncInv, TypeOK, BufferInStep
<1>8. MoverInStep'
  BY <1>0, <1>6 DEF SyncInv, TypeOK, MoverInStep, MoverAhead, Ahead, Over
<1>9. MoverAhead'
  <2> SUFFICES ASSUME NEW d \in Client, load'[d].by = "move", NEW q \in Pos
               PROVE  /\ At(d, "bake")' /\ ColumnOf[q] \notin baker'.dirty
                           => cache'.built /\ InStepAt(q, Ahead(d, cache.blocks)[q])'
                      /\ At(d, "send")' => InStepAt(q, Ahead(d, frames[d])[q])'
                      /\ load'[d].pc \in {"join", "replay"}
                           => InStepAt(q, Ahead(d, view[d])[q])'
    BY DEF MoverAhead
  <2>1. CASE d # c
    BY <1>0, <1>6, <2>1 DEF SyncInv, TypeOK, MoverAhead, Ahead, BakerHasLock
  <2>2. CASE d = c
    <3>1. ColumnOf[q] \notin baker'.dirty => cache.built /\ cache.blocks[q] = world[q]
      BY MapAssumption DEF SyncInv, TypeOK, CacheExact
    <3>2. cache.blocks[q] = world[q] => InStepAt(q, Ahead(c, cache.blocks)[q])
      BY <1>0, <2>2, MapAssumption
         DEF SyncInv, TypeOK, BufferInStep, MoverHasStream, Ahead, Over, InStepAt
    <3> QED
      BY <1>0, <1>6, <2>2, <3>1, <3>2 DEF Ahead, SyncInv, TypeOK
  <2> QED
    BY <2>1, <2>2
<1> QED
  BY <1>1, <1>2, <1>3, <1>4, <1>5, <1>7, <1>8, <1>9 DEF SyncInv

\* The dirty columns are the world; the others are exact up to the version
\* read, and what changed in them since is owed or buffered.
LEMMA RebakeKeeps ==
    ASSUME SyncInv, NEW c \in Client, Rebake(c)
    PROVE  SyncInv'
<1> USE DEF Rebake, At, worldVars, writerVars, cacheVars
<1>0. /\ load' \in [Client -> [pc : LoadPc, by : {"move", "login", "respawn"}]]
      /\ load'[c].pc = "send"
      /\ load'[c].by = load[c].by
      /\ \A d \in Client \ {c} : load'[d] = load[d]
  BY GoMoves DEF SyncInv, LoadPc
<1>1. TypeOK'
  BY <1>0, MapAssumption DEF SyncInv, TypeOK, Picture, NoBaker
<1>2. CacheExact' /\ VersionsGrow' /\ OwedIsWorld'
  BY <1>0
     DEF SyncInv, TypeOK, CacheExact, VersionsGrow, CleanIsExact, BakerHasLock,
         OwedIsWorld, Owes, NoBaker
<1>3. BakerHasLock'
  <2>1. baker.by = c /\ baker.v \in Nat /\ baker.v <= version
    BY MapAssumption DEF SyncInv, TypeOK, BakerHasLock
  <2> QED
    BY <1>0, <2>1, MapAssumption DEF SyncInv, TypeOK, BakerHasLock, NoBaker
<1>4. CleanIsExact'
  BY <1>0 DEF SyncInv, TypeOK, CleanIsExact, CacheExact, BakerHasLock, NoBaker
<1>5. NoStreamLeft' /\ MoverHasStream'
  BY ZenonT(40), <1>0 DEF SyncInv, TypeOK, NoStreamLeft, MoverHasStream
<1>6. \A q \in Pos : \A x : InStepAt(q, x)' <=> InStepAt(q, x)
  BY StillInStep
<1>7. BufferInStep'
  BY <1>0, <1>6 DEF SyncInv, TypeOK, BufferInStep
<1>8. MoverInStep'
  BY <1>0, <1>6 DEF SyncInv, TypeOK, MoverInStep, MoverAhead, Ahead, Over
<1>9. MoverAhead'
  <2> SUFFICES ASSUME NEW d \in Client, load'[d].by = "move", NEW q \in Pos
               PROVE  /\ At(d, "bake")' /\ ColumnOf[q] \notin baker'.dirty
                           => cache'.built /\ InStepAt(q, Ahead(d, cache.blocks)[q])'
                      /\ At(d, "send")' => InStepAt(q, Ahead(d, frames[d])[q])'
                      /\ load'[d].pc \in {"join", "replay"}
                           => InStepAt(q, Ahead(d, view[d])[q])'
    BY DEF MoverAhead
  <2>1. CASE d # c
    BY <1>0, <1>6, <2>1 DEF SyncInv, TypeOK, MoverAhead, Ahead, BakerHasLock
  <2>2. CASE d = c
    <3>1. frames'[c][q] = IF ColumnOf[q] \in baker.dirty THEN world[q] ELSE cache.blocks[q]
      BY DEF SyncInv, TypeOK
    <3>2. Over(buffer[c], frames'[c])[q]
            = IF buffer[c][q] # None THEN buffer[c][q] ELSE frames'[c][q]
      BY DEF Over
    <3>3. CASE ColumnOf[q] \in baker.dirty
      BY <1>0, <1>6, <2>2, <3>1, <3>2, <3>3
         DEF SyncInv, BufferInStep, MoverHasStream, InStepAt, Ahead
    <3>4. CASE ColumnOf[q] \notin baker.dirty
      <4>1. InStepAt(q, Ahead(c, cache.blocks)[q])
        BY <1>0, <2>2, <3>4 DEF SyncInv, MoverAhead
      <4> QED
        BY <1>0, <1>6, <2>2, <3>1, <3>2, <3>4, <4>1 DEF Ahead, Over
    <3> QED
      BY <3>3, <3>4
  <2> QED
    BY <2>1, <2>2
<1> QED
  BY <1>1, <1>2, <1>3, <1>4, <1>5, <1>7, <1>8, <1>9 DEF SyncInv

\* The frames become what the client shows.
LEMMA SendWorldChunksKeeps ==
    ASSUME SyncInv, NEW c \in Client, SendWorldChunks(c)
    PROVE  SyncInv'
<1> USE DEF SendWorldChunks, At, worldVars, writerVars, cacheVars
<1>0. /\ load' \in [Client -> [pc : LoadPc, by : {"move", "login", "respawn"}]]
      /\ load'[c].pc = IF load[c].by = "respawn" THEN "in" ELSE "join"
      /\ load'[c].by = load[c].by
      /\ \A d \in Client \ {c} : load'[d] = load[d]
  BY GoMoves DEF SyncInv, LoadPc
<1>1. TypeOK'
  BY <1>0, MapAssumption DEF SyncInv, TypeOK, Nothing, Picture
<1>2. CacheExact' /\ VersionsGrow' /\ OwedIsWorld'
  BY <1>0
     DEF SyncInv, TypeOK, CacheExact, VersionsGrow, CleanIsExact, BakerHasLock,
         OwedIsWorld, Owes
<1>3. BakerHasLock'
  BY <1>0, MapAssumption DEF SyncInv, TypeOK, BakerHasLock
<1>4. CleanIsExact'
  BY <1>0 DEF SyncInv, TypeOK, CleanIsExact, CacheExact, BakerHasLock
<1>5. NoStreamLeft' /\ MoverHasStream'
  <2>1. load[c].by = "respawn" => c \in players
    BY DEF SyncInv, MoverHasStream
  <2> QED
    BY ZenonT(40), <1>0, <2>1 DEF SyncInv, TypeOK, NoStreamLeft, MoverHasStream
<1>6. \A q \in Pos : \A x : InStepAt(q, x)' <=> InStepAt(q, x)
  BY StillInStep
<1>7. BufferInStep'
  BY <1>0, <1>6 DEF SyncInv, TypeOK, BufferInStep, Nothing
<1>8. MoverInStep'
  BY <1>0, <1>6 DEF SyncInv, TypeOK, MoverInStep, MoverAhead, Ahead, Over
<1>9. MoverAhead'
  BY <1>0, <1>6, MapAssumption
     DEF SyncInv, TypeOK, BufferInStep, MoverAhead, Ahead, Over, Nothing,
         BakerHasLock, CacheExact, VersionsGrow, MoverHasStream
<1> QED
  BY <1>1, <1>2, <1>3, <1>4, <1>5, <1>7, <1>8, <1>9 DEF SyncInv

\* From the join on, broadcasts reach the client and its buffer alike.
LEMMA JoinAndAnnounceKeeps ==
    ASSUME SyncInv, NEW c \in Client, JoinAndAnnounce(c)
    PROVE  SyncInv'
<1> USE DEF JoinAndAnnounce, At, worldVars, writerVars, cacheVars
<1>0. /\ load' \in [Client -> [pc : LoadPc, by : {"move", "login", "respawn"}]]
      /\ load'[c].pc = IF load[c].by = "move" THEN "replay" ELSE "in"
      /\ load'[c].by = load[c].by
      /\ \A d \in Client \ {c} : load'[d] = load[d]
  BY GoMoves DEF SyncInv, LoadPc
<1>1. TypeOK'
  BY <1>0, MapAssumption DEF SyncInv, TypeOK, Picture
<1>2. CacheExact' /\ VersionsGrow' /\ OwedIsWorld'
  BY <1>0
     DEF SyncInv, TypeOK, CacheExact, VersionsGrow, CleanIsExact, BakerHasLock,
         OwedIsWorld, Owes
<1>3. BakerHasLock'
  BY <1>0, MapAssumption DEF SyncInv, TypeOK, BakerHasLock
<1>4. CleanIsExact'
  BY SMTT(20), <1>0 DEF SyncInv, TypeOK, CleanIsExact, CacheExact, BakerHasLock
<1>5. NoStreamLeft' /\ MoverHasStream'
  BY ZenonT(40), <1>0 DEF SyncInv, TypeOK, NoStreamLeft, MoverHasStream
<1>6. \A q \in Pos : \A x : InStepAt(q, x)' <=> InStepAt(q, x)
  BY StillInStep
<1>7. BufferInStep'
  BY <1>0, <1>6 DEF SyncInv, TypeOK, BufferInStep
<1>8. MoverInStep'
  BY <1>0, <1>6 DEF SyncInv, TypeOK, MoverInStep, MoverAhead, Ahead, Over
<1>9. MoverAhead'
  <2> SUFFICES ASSUME NEW d \in Client, load'[d].by = "move", NEW q \in Pos
               PROVE  /\ At(d, "bake")' /\ ColumnOf[q] \notin baker'.dirty
                           => cache'.built /\ InStepAt(q, Ahead(d, cache.blocks)[q])'
                      /\ At(d, "send")' => InStepAt(q, Ahead(d, frames[d])[q])'
                      /\ load'[d].pc \in {"join", "replay"}
                           => InStepAt(q, Ahead(d, view[d])[q])'
    BY DEF MoverAhead
  <2>1. CASE d # c
    BY <1>0, <1>6, <2>1 DEF SyncInv, TypeOK, MoverAhead, Ahead, BakerHasLock
  <2>2. CASE d = c
    BY <1>0, <1>6, <2>2 DEF SyncInv, TypeOK, MoverAhead, Ahead
  <2> QED
    BY <2>1, <2>2
<1> QED
  BY <1>1, <1>2, <1>3, <1>4, <1>5, <1>7, <1>8, <1>9 DEF SyncInv

\* The buffer is replayed over what the client shows.
LEMMA EndStreamKeeps ==
    ASSUME SyncInv, NEW c \in Client, EndStream(c)
    PROVE  SyncInv'
<1> USE DEF EndStream, At, worldVars, writerVars, cacheVars
<1>0. /\ load' \in [Client -> [pc : LoadPc, by : {"move", "login", "respawn"}]]
      /\ load'[c].pc = "in"
      /\ load'[c].by = load[c].by
      /\ \A d \in Client \ {c} : load'[d] = load[d]
  BY GoMoves DEF SyncInv, LoadPc
<1>1. TypeOK'
  BY <1>0, MapAssumption, OverIsPicture DEF SyncInv, TypeOK, Nothing, Picture
<1>2. CacheExact' /\ VersionsGrow' /\ OwedIsWorld'
  BY <1>0
     DEF SyncInv, TypeOK, CacheExact, VersionsGrow, CleanIsExact, BakerHasLock,
         OwedIsWorld, Owes
<1>3. BakerHasLock'
  BY <1>0, MapAssumption DEF SyncInv, TypeOK, BakerHasLock
<1>4. CleanIsExact'
  <2>1. UNCHANGED <<world, colVersion, cache, baker>>
    OBVIOUS
  <2> QED
    BY <1>0, <2>1 DEF SyncInv, CleanIsExact
<1>5. NoStreamLeft' /\ MoverHasStream'
  BY <1>0 DEF SyncInv, TypeOK, NoStreamLeft, MoverHasStream
<1>6. \A q \in Pos : \A x : InStepAt(q, x)' <=> InStepAt(q, x)
  BY StillInStep
<1>7. BufferInStep'
  BY <1>0, <1>6 DEF SyncInv, TypeOK, BufferInStep, Nothing
<1>8. MoverInStep'
  BY <1>0, <1>6 DEF SyncInv, TypeOK, MoverInStep, MoverAhead, Ahead, Over
<1>9. MoverAhead'
  BY <1>0, <1>6, MapAssumption
     DEF SyncInv, TypeOK, BufferInStep, MoverAhead, Ahead, Over, Nothing,
         BakerHasLock, CacheExact, VersionsGrow, MoverHasStream
<1> QED
  BY <1>1, <1>2, <1>3, <1>4, <1>5, <1>7, <1>8, <1>9 DEF SyncInv

\* A failed move drops its stream.
LEMMA MoveFailsKeeps ==
    ASSUME SyncInv, NEW c \in Client, MoveFails(c)
    PROVE  SyncInv'
<1> USE DEF MoveFails, At, Gone, worldVars, writerVars, cacheVars
<1>1. TypeOK'
  BY MapAssumption DEF SyncInv, TypeOK, Out, Nothing, Picture, LoadPc
<1>2. CacheExact' /\ VersionsGrow' /\ OwedIsWorld'
  BY
     DEF SyncInv, TypeOK, CacheExact, VersionsGrow, CleanIsExact, BakerHasLock,
         OwedIsWorld, Owes
<1>3. BakerHasLock'
  BY MapAssumption DEF SyncInv, TypeOK, BakerHasLock, Out
<1>4. CleanIsExact'
  BY DEF SyncInv, TypeOK, CleanIsExact, CacheExact, BakerHasLock, Out
<1>5. NoStreamLeft' /\ MoverHasStream'
  BY DEF SyncInv, TypeOK, NoStreamLeft, MoverHasStream, Out
<1>6. \A q \in Pos : \A x : InStepAt(q, x)' <=> InStepAt(q, x)
  BY StillInStep
<1>7. BufferInStep'
  BY <1>6 DEF SyncInv, TypeOK, BufferInStep, Nothing
<1>8. MoverInStep'
  BY <1>6 DEF SyncInv, TypeOK, MoverInStep, MoverAhead, Ahead, Over, Out
<1>9. MoverAhead'
  BY <1>6, MapAssumption
     DEF SyncInv, TypeOK, BufferInStep, MoverAhead, Ahead, Over, Out, Nothing,
         BakerHasLock, CacheExact, VersionsGrow, MoverHasStream
<1> QED
  BY <1>1, <1>2, <1>3, <1>4, <1>5, <1>7, <1>8, <1>9 DEF SyncInv

\* Leaving ends being in step, and in Players.
LEMMA LeaveKeeps ==
    ASSUME SyncInv, NEW c \in Client, Leave(c)
    PROVE  SyncInv'
<1> USE DEF Leave, At, Gone, worldVars, writerVars, cacheVars
<1>1. TypeOK'
  BY MapAssumption DEF SyncInv, TypeOK, Out, Nothing, Picture, LoadPc
<1>2. CacheExact' /\ VersionsGrow' /\ OwedIsWorld'
  BY
     DEF SyncInv, TypeOK, CacheExact, VersionsGrow, CleanIsExact, BakerHasLock,
         OwedIsWorld, Owes
<1>3. BakerHasLock'
  BY MapAssumption DEF SyncInv, TypeOK, BakerHasLock, Out
<1>4. CleanIsExact'
  BY DEF SyncInv, TypeOK, CleanIsExact, CacheExact, BakerHasLock, Out
<1>5. NoStreamLeft' /\ MoverHasStream'
  BY DEF SyncInv, TypeOK, NoStreamLeft, MoverHasStream, Out
<1>6. \A q \in Pos : \A x : InStepAt(q, x)' <=> InStepAt(q, x)
  BY StillInStep
<1>7. BufferInStep'
  BY <1>6 DEF SyncInv, TypeOK, BufferInStep, Nothing
<1>8. MoverInStep'
  BY <1>6 DEF SyncInv, TypeOK, MoverInStep, MoverAhead, Ahead, Over, Out
<1>9. MoverAhead'
  BY <1>6, MapAssumption
     DEF SyncInv, TypeOK, BufferInStep, MoverAhead, Ahead, Over, Out, Nothing,
         BakerHasLock, CacheExact, VersionsGrow, MoverHasStream
<1> QED
  BY <1>1, <1>2, <1>3, <1>4, <1>5, <1>7, <1>8, <1>9 DEF SyncInv

\* The initial states.
LEMMA InitHolds == Init => SyncInv
BY MapAssumption
   DEF Init, SyncInv, TypeOK, CacheExact, MoverInStep, NoStreamLeft, OwedIsWorld, Owes, Nothing,
       Picture, VersionsGrow, BakerHasLock, NoBaker, CleanIsExact, BufferInStep, MoverAhead,
       MoverHasStream, At, Out, LoadPc

\* A step that changes nothing.
LEMMA StutterKeeps == ASSUME SyncInv, UNCHANGED vars PROVE SyncInv'
BY DEF vars, SyncInv, TypeOK, CacheExact, MoverInStep, NoStreamLeft, OwedIsWorld, Owes,
       VersionsGrow, BakerHasLock, CleanIsExact, BufferInStep, MoverAhead, MoverHasStream, At,
       InStepAt, Pending, Ahead, Over

\* Every step of every goroutine.
LEMMA StepHolds == ASSUME SyncInv, [Next]_vars PROVE SyncInv'
<1>1. ASSUME NEW w \in Writer, Write(w) PROVE SyncInv'
  BY <1>1, SetBlocksKeeps, NextChangeKeeps, BroadcastBlocksKeeps DEF Write
<1>2. ASSUME NEW c \in Client, Load(c) PROVE SyncInv'
  BY <1>2, BeginStreamKeeps, LoginPlayKeeps, ResyncViewKeeps, CacheHitKeeps, CacheMissKeeps,
     ChangedSinceKeeps, RebakeKeeps, SendWorldChunksKeeps, JoinAndAnnounceKeeps,
     EndStreamKeeps, MoveFailsKeeps, LeaveKeeps DEF Load, Bake
<1> QED
  BY <1>1, <1>2, StutterKeeps DEF Next

\* The inductive invariant holds in every state the instance can reach.
THEOREM WorldInvariant == Spec => []SyncInv
<1> QED
  BY InitHolds, StepHolds, PTL DEF Spec

\* The chunk cache never misses a change: a column not changed after the
\* version the cache is filed under is baked as it is.
THEOREM CacheNeverMisses == Spec => []CacheExact
<1>1. SyncInv => CacheExact
  BY DEF SyncInv
<1> QED
  BY <1>1, WorldInvariant, PTL

\* A player MovePlayer brought in shows the instance's world, whatever was
\* changed while it was being streamed.
THEOREM MoversStayInStep == Spec => []MoverInStep
<1>1. SyncInv => MoverInStep
  BY DEF SyncInv
<1> QED
  BY <1>1, WorldInvariant, PTL

\* No block buffer outlives the move it was opened for.
THEOREM StreamsAreDropped == Spec => []NoStreamLeft
<1>1. SyncInv => NoStreamLeft
  BY DEF SyncInv
<1> QED
  BY <1>1, WorldInvariant, PTL

-----------------------------------------------------------------------------
(***************************************************************************)
(* Fluids.  What has not been looked at since a block around it changed is *)
(* queued, or due, or about to be scheduled by the reader that changed it; *)
(* the rest is settled, but for the one the tick loop is updating, of      *)
(* which what the loop has seen still stands.                              *)
(***************************************************************************)

\* The update under way sees to the block at c: it has the level it should
\* have, and of its sides those that give way are still to be looked at.
FlowCovers(c) ==
    /\ blocks[c] = flow.level
    /\ flow.level # 0 => flow.level = Wanted(c)
    /\ flow.at = "down" => /\ flow.cell = c /\ flow.left = FluidSides(c)
                           /\ flow.under = BlockAt(UnderOf(c))
    /\ flow.at \in {"side", "pour"} =>
         /\ BlockAt(UnderOf(c)) # Dry /\ BlockAt(UnderOf(c)) \notin 1..MaxLevel
         /\ \A d \in FluidSides(c) : GivesWay(d, Thinner(flow.level)) =>
                d \in flow.left \/ (flow.at = "pour" /\ d = flow.cell)

\* A reader has changed a block around c, and is to schedule it.
WakeComes(c) == \E d \in edit.wake : c \in Around(d)

Seen(c) ==
    \/ CellSettled(c)
    \/ c \in flowQueue \cup due
    \/ WakeComes(c)
    \/ flow # NoFlow /\ FlowCovers(c)

FluidInv ==
    /\ DOMAIN blocks = Cell /\ blocks = [c \in Cell |-> blocks[c]]
    /\ flow = NoFlow \/ flow.at \in {"down", "side", "pour"}
    /\ edit.todo # {} => edit.wake = {}
    /\ \A c \in Cell : IsFluid(blocks[c]) => Seen(c)

\* A cell's coordinates are numbers.
LEMMA CellIs == ASSUME NEW c \in Cell PROVE c = <<c[1], c[2]>> /\ c[1] \in Int /\ c[2] \in Int
BY FluidAssumption DEF Cell

\* Cells are around one another.
LEMMA AroundEachOther ==
    ASSUME NEW c \in Cell, NEW d \in Cell, c \in Around(d)
    PROVE  d \in Around(c)
<1>1. /\ c = <<c[1], c[2]>> /\ c[1] \in Int /\ c[2] \in Int
      /\ d = <<d[1], d[2]>> /\ d[1] \in Int /\ d[2] \in Int
  BY CellIs
<1>2. CASE c = d
  BY <1>2 DEF Around
<1>3. CASE c \in FluidSides(d)
  BY <1>1, <1>3 DEF Around, FluidSides
<1>4. CASE c = UnderOf(d)
  <2>1. d[1] = c[1] /\ d[2] = c[2] + 1
    BY <1>1, <1>4 DEF UnderOf
  <2>2. d = OverOf(c)
    BY <1>1, <2>1 DEF OverOf
  <2> QED
    BY <2>2 DEF Around
<1>5. CASE c = OverOf(d)
  <2>1. d[1] = c[1] /\ d[2] = c[2] - 1
    BY <1>1, <1>5 DEF OverOf
  <2>2. d = UnderOf(c)
    BY <1>1, <2>1 DEF UnderOf
  <2> QED
    BY <2>2 DEF Around
<1> QED
  BY <1>2, <1>3, <1>4, <1>5 DEF Around

\* What the rules make of a block depends on those around it.
LEMMA RulesLookAround ==
    ASSUME NEW c \in Cell, \A x \in Around(c) : blocks'[x] = blocks[x]
    PROVE  /\ Wanted(c)' = Wanted(c)
           /\ BlockAt(UnderOf(c))' = BlockAt(UnderOf(c))
           /\ blocks'[c] = blocks[c]
           /\ \A d \in FluidSides(c) : \A n : GivesWay(d, n)' = GivesWay(d, n)
<1>1. \A d \in FluidSides(c) : blocks'[d] = blocks[d]
  BY DEF Around
<1>2. blocks'[c] = blocks[c]
  BY DEF Around
<1>3. BlockAt(UnderOf(c))' = BlockAt(UnderOf(c))
  BY DEF Around, BlockAt
<1>4. BlockAt(OverOf(c))' = BlockAt(OverOf(c))
  BY DEF Around, BlockAt
<1>5. \A d \in FluidSides(c) : \A n : GivesWay(d, n)' = GivesWay(d, n)
  BY <1>1 DEF GivesWay
<1>6. Wanted(c)' = Wanted(c)
  <2> DEFINE S == FluidSides(c)
  <2>1. {d \in S : blocks'[d] = 0} = {d \in S : blocks[d] = 0}
    BY <1>1
  <2>2. {e \in S : IsFluid(blocks'[e])} = {e \in S : IsFluid(blocks[e])}
    BY <1>1
  <2>3. {SpreadLevel(blocks'[d]) + DropOff : d \in {e \in S : IsFluid(blocks'[e])}}
          = {SpreadLevel(blocks[d]) + DropOff : d \in {e \in S : IsFluid(blocks[e])}}
    <3> DEFINE F == {e \in S : IsFluid(blocks[e])}
    <3>1. \A d \in F : blocks'[d] = blocks[d]
      BY <1>1
    <3>2. {SpreadLevel(blocks'[d]) + DropOff : d \in F} = {SpreadLevel(blocks[d]) + DropOff : d \in F}
      <4> HIDE DEF F
      <4> QED
        BY <3>1
    <3> QED
      BY <2>2, <3>2
  <2> HIDE DEF S
  <2> QED
    BY <1>3, <1>4, <2>1, <2>2, <2>3, Zenon DEF Wanted, S
<1> QED
  BY <1>2, <1>3, <1>5, <1>6

\* A settled block stays so if nothing changes around it.
LEMMA StaysSettled ==
    ASSUME NEW c \in Cell, \A x \in Around(c) : blocks'[x] = blocks[x]
    PROVE  CellSettled(c)' = CellSettled(c)
BY RulesLookAround DEF CellSettled

\* What a write leaves unseen is queued.
LEMMA PourWakes ==
    ASSUME FluidInv, NEW c, NEW b, Pour(c, b)
    PROVE  /\ DOMAIN blocks' = Cell /\ blocks' = [x \in Cell |-> blocks'[x]]
           /\ \A x \in Cell : x # c => blocks'[x] = blocks[x]
           /\ c \in Cell => blocks'[c] = b
           /\ \A e \in Cell : e \in flowQueue' \/ \A x \in Around(e) : blocks'[x] = blocks[x]
           /\ flowQueue \subseteq flowQueue'
<1>1. /\ DOMAIN blocks' = Cell /\ blocks' = [x \in Cell |-> blocks'[x]]
      /\ \A x \in Cell : x # c => blocks'[x] = blocks[x]
      /\ c \in Cell => blocks'[c] = b
  BY DEF Pour, FluidInv
<1>2. ASSUME NEW e \in Cell, e \notin flowQueue' PROVE \A x \in Around(e) : blocks'[x] = blocks[x]
  <2>1. e \notin Around(c)
    BY <1>2 DEF Pour
  <2>2. Around(e) \subseteq Cell
    BY DEF Around, FluidSides
  <2>3. c \notin Around(e)
    BY <2>1, <2>2, AroundEachOther
  <2> QED
    BY <1>1, <2>2, <2>3
<1> QED
  BY <1>1, <1>2 DEF Pour

\* What is seen to and has nothing changed around it stays so, but for what
\* becomes of the queue and the update under way.
LEMMA SeenStays ==
    ASSUME NEW c \in Cell, Seen(c), \A x \in Around(c) : blocks'[x] = blocks[x], edit' = edit
    PROVE  \/ Seen(c)'
           \/ c \in flowQueue \cup due
           \/ flow # NoFlow /\ FlowCovers(c)
<1>1. CellSettled(c) => Seen(c)'
  BY StaysSettled DEF Seen
<1>2. WakeComes(c) => Seen(c)'
  BY DEF Seen, WakeComes
<1> QED
  BY <1>1, <1>2 DEF Seen

LEMMA TakeDueKeeps == ASSUME FluidInv, TakeDue PROVE FluidInv'
<1>1. ASSUME NEW c \in Cell, IsFluid(blocks'[c]) PROVE Seen(c)'
  <2>1. Seen(c)
    BY <1>1 DEF TakeDue, FluidInv
  <2>2. Seen(c)' \/ c \in flowQueue \cup due \/ (flow # NoFlow /\ FlowCovers(c))
    BY <2>1, SeenStays DEF TakeDue
  <2> QED
    BY <1>1, <2>2 DEF TakeDue, Seen
<1> QED
  BY <1>1 DEF TakeDue, FluidInv

\* A block derived is covered by the update that goes on, or queued.
LEMMA DeriveKeeps == ASSUME FluidInv, NEW k \in Cell, Derive(k) PROVE FluidInv'
<1> DEFINE level == blocks[k]
           Going(l) == [at |-> "down", cell |-> k, level |-> l,
                        under |-> BlockAt(UnderOf(k)), left |-> FluidSides(k)]
<1>0. flow = NoFlow /\ due' = due \ {k} /\ edit' = edit
  BY DEF Derive
<1>1. \/ ~IsFluid(level) /\ UNCHANGED <<blocks, flowQueue, flow>>
      \/ IsFluid(level) /\ Pour(k, Dry) /\ UNCHANGED flow
      \/ IsFluid(level) /\ \E l : Pour(k, l) /\ flow' = Going(l)
      \/ /\ IsFluid(level) /\ (level # 0 => level = Wanted(k))
         /\ flow' = Going(level) /\ UNCHANGED <<blocks, flowQueue>>
  BY DEF Derive
<1>2. ASSUME NEW c \in Cell, IsFluid(blocks'[c]), Seen(c), c # k,
             \A x \in Around(c) : blocks'[x] = blocks[x], flowQueue \subseteq flowQueue'
      PROVE  Seen(c)'
  BY <1>0, <1>2, SeenStays DEF Seen
<1>3. Going(level) # NoFlow /\ \A l : Going(l).at = "down" /\ Going(l).cell = k /\ Going(l).level = l
  BY DEF NoFlow
<1>4. CASE ~IsFluid(level) /\ UNCHANGED <<blocks, flowQueue, flow>>
  <2>1. ASSUME NEW c \in Cell, IsFluid(blocks'[c]) PROVE Seen(c)'
    BY <1>2, <1>4, <2>1 DEF FluidInv
  <2> QED
    BY <1>0, <1>4, <2>1 DEF FluidInv
<1>5. ASSUME NEW l, Pour(k, l), flow' = flow \/ flow' = Going(l) PROVE FluidInv'
  <2>1. ASSUME NEW c \in Cell, IsFluid(blocks'[c]) PROVE Seen(c)'
    <3>1. CASE c \in flowQueue'
      BY <3>1 DEF Seen
    <3>2. CASE c \notin flowQueue'
      <4>1. \A x \in Around(c) : blocks'[x] = blocks[x]
        BY <1>5, <3>2, PourWakes
      <4>2. c # k /\ flowQueue \subseteq flowQueue'
        BY <1>5, <3>2 DEF Pour, Around
      <4>3. IsFluid(blocks[c]) /\ Seen(c)
        BY <2>1, <4>1 DEF Around, FluidInv
      <4> QED
        BY <1>2, <2>1, <4>1, <4>2, <4>3
    <3> QED
      BY <3>1, <3>2
  <2>2. flow' = NoFlow \/ flow'.at = "down"
    BY <1>0, <1>5
  <2>3. DOMAIN blocks' = Cell /\ blocks' = [x \in Cell |-> blocks'[x]]
    BY <1>5, PourWakes
  <2>4. edit'.todo # {} => edit'.wake = {}
    BY <1>0 DEF FluidInv
  <2> QED
    BY <2>1, <2>2, <2>3, <2>4 DEF FluidInv
<1>6. CASE /\ IsFluid(level) /\ (level # 0 => level = Wanted(k))
           /\ flow' = Going(level) /\ UNCHANGED <<blocks, flowQueue>>
  <2>1. ASSUME NEW c \in Cell, IsFluid(blocks'[c]) PROVE Seen(c)'
    <3>1. CASE c = k
      <4>1. /\ blocks'[k] = flow'.level /\ (flow'.level # 0 => flow'.level = Wanted(k))
            /\ flow'.cell = k /\ flow'.left = FluidSides(k) /\ flow'.at = "down"
            /\ flow'.under = BlockAt(UnderOf(k)) /\ flow' # NoFlow
        BY <1>3, <1>6
      <4>2. Wanted(k)' = Wanted(k) /\ BlockAt(UnderOf(k))' = BlockAt(UnderOf(k))
        BY <1>6, RulesLookAround
      <4>3. FlowCovers(k)'
        BY <4>1, <4>2 DEF FlowCovers
      <4> QED
        BY <3>1, <4>1, <4>3 DEF Seen
    <3>2. CASE c # k
      BY <1>2, <1>6, <2>1, <3>2 DEF FluidInv
    <3> QED
      BY <3>1, <3>2
  <2> QED
    BY <1>0, <1>3, <1>6, <2>1 DEF FluidInv
<1> QED
  BY <1>1, <1>4, <1>5, <1>6

\* What lies below is poured into, and wakes the block above it, or stops it.
LEMMA FlowDownKeeps == ASSUME FluidInv, FlowDown PROVE FluidInv'
<1> DEFINE u == flow.under
           k == flow.cell
<1>0. flow.at = "down" /\ due' = due /\ edit' = edit
  BY DEF FlowDown
<1>1. \/ flow' = NoFlow /\ ((flow.level # 0 /\ (u = Dry \/ IsFluid(u))) \/ Thinner(flow.level) > MaxLevel)
      \/ flow' = Onward("side", k, flow.left)
  BY DEF FlowDown
<1>2. flow' = NoFlow \/ flow'.at = "side"
  BY <1>1 DEF Onward
<1>3. edit'.todo # {} => edit'.wake = {}
  BY <1>0 DEF FluidInv
<1>4. CASE u = Dry \/ u \in 1..MaxLevel
  <2>1. Pour(UnderOf(k), Falling)
    BY <1>4 DEF FlowDown
  <2>2. ASSUME NEW c \in Cell, IsFluid(blocks'[c]), c \notin flowQueue' PROVE Seen(c)'
    <3>1. \A x \in Around(c) : blocks'[x] = blocks[x]
      BY <2>1, <2>2, PourWakes
    <3>2. IsFluid(blocks[c]) /\ Seen(c)
      BY <2>2, <3>1 DEF Around, FluidInv
    <3>3. Seen(c)' \/ c \in flowQueue \cup due \/ FlowCovers(c)
      BY <1>0, <3>1, <3>2, SeenStays
    <3>4. ~FlowCovers(c)
      <4>1. SUFFICES ASSUME FlowCovers(c) PROVE FALSE
        OBVIOUS
      <4>2. k = c /\ u = BlockAt(UnderOf(c))
        BY <1>0, <4>1 DEF FlowCovers
      <4>3. Rock # Dry /\ Rock \notin 1..MaxLevel
        BY FluidAssumption DEF Rock, Dry
      <4>4. UnderOf(c) \in Cell
        BY <1>4, <4>2, <4>3 DEF BlockAt
      <4>5. UnderOf(c) \in Around(c)
        BY <4>4 DEF Around
      <4>6. c \in Around(UnderOf(c))
        BY <4>4, <4>5, AroundEachOther
      <4> QED
        BY <2>1, <2>2, <4>2, <4>6 DEF Pour
    <3> QED
      BY <1>0, <2>1, <2>2, <3>3, <3>4 DEF Pour, Seen
  <2>3. DOMAIN blocks' = Cell /\ blocks' = [x \in Cell |-> blocks'[x]]
    BY <2>1, PourWakes
  <2>4. ASSUME NEW c \in Cell, IsFluid(blocks'[c]) PROVE Seen(c)'
    BY <2>2, <2>4 DEF Seen
  <2> QED
    BY <1>2, <1>3, <2>3, <2>4 DEF FluidInv
<1>5. CASE ~(u = Dry \/ u \in 1..MaxLevel)
  <2>1. UNCHANGED <<blocks, flowQueue>>
    BY <1>5 DEF FlowDown
  <2>2. ASSUME NEW c \in Cell, IsFluid(blocks'[c]) PROVE Seen(c)'
    <3>1. Seen(c)' \/ c \in flowQueue \cup due \/ FlowCovers(c)
      BY <1>0, <2>1, <2>2, SeenStays DEF FluidInv
    <3>2. CASE FlowCovers(c)
      <4>1. /\ blocks[c] = flow.level /\ (flow.level # 0 => flow.level = Wanted(c))
            /\ k = c /\ flow.left = FluidSides(c) /\ u = BlockAt(UnderOf(c))
        BY <1>0, <3>2 DEF FlowCovers
      <4>2. CASE flow' = NoFlow /\ ((flow.level # 0 /\ (u = Dry \/ IsFluid(u))) \/ Thinner(flow.level) > MaxLevel)
        <5>1. Thinner(flow.level) > MaxLevel => ~(Thinner(flow.level) <= MaxLevel)
          <6>1. Thinner(flow.level) \in Int /\ MaxLevel \in Int
            <7>1. flow.level \in Int
              BY <2>1, <2>2, <4>1, FluidAssumption DEF IsFluid, Level, Falling
            <7> QED
              BY <7>1, FluidAssumption DEF Thinner, SpreadLevel
          <6> QED
            BY <6>1
        <5>2. CellSettled(c)
          BY <1>5, <4>1, <4>2, <5>1 DEF CellSettled
        <5>3. CellSettled(c)'
          BY <2>1, <5>2, StaysSettled
        <5> QED
          BY <5>3 DEF Seen
      <4>3. CASE flow' = Onward("side", k, flow.left)
        <5>1. flow'.at = "side" /\ flow'.level = flow.level /\ flow'.left = flow.left
          BY <4>3 DEF Onward
        <5>2. flow' # NoFlow
          BY <5>1 DEF NoFlow
        <5>3. Wanted(c)' = Wanted(c) /\ BlockAt(UnderOf(c))' = BlockAt(UnderOf(c))
          BY <2>1, RulesLookAround
        <5>4. FlowCovers(c)'
          BY <1>5, <2>1, <4>1, <5>1, <5>3 DEF FlowCovers
        <5> QED
          BY <5>2, <5>4 DEF Seen
      <4> QED
        BY <1>1, <4>2, <4>3
    <3> QED
      BY <1>0, <2>1, <3>1, <3>2 DEF Seen
  <2> QED
    BY <1>2, <1>3, <2>1, <2>2 DEF FluidInv
<1> QED
  BY <1>4, <1>5

\* A side that does not give way need not be looked at again.
LEMMA LookAsideKeeps == ASSUME FluidInv, LookAside PROVE FluidInv'
<1>0. flow.at = "side" /\ due' = due /\ edit' = edit /\ UNCHANGED <<blocks, flowQueue>>
  BY DEF LookAside
<1>1. \/ flow.left = {} /\ flow' = NoFlow
      \/ \E d \in flow.left : flow' = Onward(IF GivesWay(d, Thinner(flow.level)) THEN "pour" ELSE "side",
                                             d, flow.left \ {d})
  BY DEF LookAside
<1>2. flow' = NoFlow \/ flow'.at \in {"side", "pour"}
  BY <1>1 DEF Onward
<1>3. ASSUME NEW c \in Cell, IsFluid(blocks'[c]) PROVE Seen(c)'
  <2>1. Seen(c)' \/ c \in flowQueue \cup due \/ FlowCovers(c)
    BY <1>0, <1>3, SeenStays DEF FluidInv
  <2>2. CASE FlowCovers(c)
    <3>1. /\ blocks[c] = flow.level /\ (flow.level # 0 => flow.level = Wanted(c))
          /\ BlockAt(UnderOf(c)) # Dry /\ BlockAt(UnderOf(c)) \notin 1..MaxLevel
          /\ \A d \in FluidSides(c) : GivesWay(d, Thinner(flow.level)) => d \in flow.left
      BY <1>0, <2>2 DEF FlowCovers
    <3>2. /\ Wanted(c)' = Wanted(c) /\ BlockAt(UnderOf(c))' = BlockAt(UnderOf(c))
          /\ \A d \in FluidSides(c) : \A n : GivesWay(d, n)' = GivesWay(d, n)
      BY <1>0, RulesLookAround
    <3>3. CASE flow.left = {} /\ flow' = NoFlow
      <4>1. CellSettled(c)
        BY <3>1, <3>3 DEF CellSettled
      <4> QED
        BY <1>0, <4>1, StaysSettled DEF Seen
    <3>4. ASSUME NEW d \in flow.left,
                 flow' = Onward(IF GivesWay(d, Thinner(flow.level)) THEN "pour" ELSE "side",
                                d, flow.left \ {d})
          PROVE  Seen(c)'
      <4>1. /\ flow'.at = IF GivesWay(d, Thinner(flow.level)) THEN "pour" ELSE "side"
            /\ flow'.cell = d /\ flow'.level = flow.level /\ flow'.left = flow.left \ {d}
        BY <3>4 DEF Onward
      <4>2. flow' # NoFlow
        BY <4>1 DEF NoFlow
      <4>3. \A s \in FluidSides(c) : GivesWay(s, Thinner(flow.level))' =>
                s \in flow'.left \/ (flow'.at = "pour" /\ s = flow'.cell)
        BY <3>1, <3>2, <4>1 DEF Thinner
      <4>4. FlowCovers(c)'
        BY <1>0, <3>1, <3>2, <4>1, <4>3 DEF FlowCovers
      <4> QED
        BY <4>2, <4>4 DEF Seen
    <3> QED
      BY <1>1, <3>3, <3>4
  <2> QED
    BY <1>0, <2>1, <2>2 DEF Seen
<1> QED
  BY <1>0, <1>2, <1>3 DEF FluidInv

\* A side poured into wakes the block beside it.
LEMMA PourAsideKeeps == ASSUME FluidInv, PourAside PROVE FluidInv'
<1> DEFINE k == flow.cell
<1>0. /\ flow.at = "pour" /\ due' = due /\ edit' = edit /\ Pour(k, Thinner(flow.level))
      /\ flow' = Onward("side", k, flow.left)
  BY DEF PourAside
<1>1. flow'.at = "side" /\ flow'.level = flow.level /\ flow'.left = flow.left /\ flow' # NoFlow
  BY <1>0 DEF Onward, NoFlow
<1>2. ASSUME NEW c \in Cell, IsFluid(blocks'[c]), c \notin flowQueue' PROVE Seen(c)'
  <2>1. \A x \in Around(c) : blocks'[x] = blocks[x]
    BY <1>0, <1>2, PourWakes
  <2>2. IsFluid(blocks[c]) /\ Seen(c)
    BY <1>2, <2>1 DEF Around, FluidInv
  <2>3. Seen(c)' \/ c \in flowQueue \cup due \/ FlowCovers(c)
    BY <1>0, <2>1, <2>2, SeenStays
  <2>4. CASE FlowCovers(c)
    <3>1. k \notin FluidSides(c)
      <4>1. c \notin Around(k)
        BY <1>0, <1>2 DEF Pour
      <4> QED
        BY <4>1, AroundEachOther DEF FluidSides, Around
    <3>2. /\ blocks[c] = flow.level /\ (flow.level # 0 => flow.level = Wanted(c))
          /\ BlockAt(UnderOf(c)) # Dry /\ BlockAt(UnderOf(c)) \notin 1..MaxLevel
          /\ \A d \in FluidSides(c) : GivesWay(d, Thinner(flow.level)) => d \in flow.left
      BY <1>0, <2>4, <3>1 DEF FlowCovers
    <3>3. /\ Wanted(c)' = Wanted(c) /\ BlockAt(UnderOf(c))' = BlockAt(UnderOf(c))
          /\ \A d \in FluidSides(c) : \A n : GivesWay(d, n)' = GivesWay(d, n)
      BY <2>1, RulesLookAround
    <3>4. \A s \in FluidSides(c) : GivesWay(s, Thinner(flow.level))' => s \in flow'.left
      BY <1>1, <3>2, <3>3 DEF Thinner
    <3>5. blocks'[c] = blocks[c]
      BY <2>1 DEF Around
    <3>6. FlowCovers(c)'
      BY <1>1, <3>2, <3>3, <3>4, <3>5 DEF FlowCovers
    <3> QED
      BY <1>1, <3>6 DEF Seen
  <2> QED
    BY <1>0, <1>2, <2>3, <2>4 DEF Pour, Seen
<1>3. ASSUME NEW c \in Cell, IsFluid(blocks'[c]) PROVE Seen(c)'
  BY <1>2, <1>3 DEF Seen
<1>4. DOMAIN blocks' = Cell /\ blocks' = [x \in Cell |-> blocks'[x]]
  BY <1>0, PourWakes
<1>5. edit'.todo # {} => edit'.wake = {}
  BY <1>0 DEF FluidInv
<1> QED
  BY <1>1, <1>3, <1>4, <1>5 DEF FluidInv

\* As long as the blocks stand and no wake-up is forgotten, all stays seen to.
LEMMA BlocksStand ==
    ASSUME FluidInv, UNCHANGED <<blocks, due, flow>>, flowQueue \subseteq flowQueue',
           \A c \in Cell : WakeComes(c) => WakeComes(c)' \/ c \in flowQueue',
           edit'.todo # {} => edit'.wake = {}
    PROVE  FluidInv'
<1>1. ASSUME NEW c \in Cell, IsFluid(blocks'[c]) PROVE Seen(c)'
  <2>1. Seen(c)
    BY <1>1 DEF FluidInv
  <2>2. CellSettled(c) => CellSettled(c)'
    BY StaysSettled
  <2>3. FlowCovers(c) => FlowCovers(c)'
    BY DEF FlowCovers, Wanted, BlockAt, GivesWay
  <2> QED
    BY <2>1, <2>2, <2>3 DEF Seen
<1> QED
  BY <1>1 DEF FluidInv

\* A reader's change leaves what is around it to be woken.
LEMMA WriteEditKeeps == ASSUME FluidInv, WriteEdit PROVE FluidInv'
<1> DEFINE changed == {w[1] : w \in edit.todo}
<1>0. /\ UNCHANGED <<flowQueue, due, flow>> /\ edit'.todo = {} /\ edit'.wake = changed
      /\ edit.wake = {}
  BY DEF WriteEdit, FluidInv
<1>1. /\ DOMAIN blocks' = Cell /\ blocks' = [x \in Cell |-> blocks'[x]]
      /\ \A x \in Cell : x \notin changed => blocks'[x] = blocks[x]
  BY DEF WriteEdit
<1> HIDE DEF changed
<1>2. ASSUME NEW c \in Cell, IsFluid(blocks'[c]) PROVE Seen(c)'
  <2>1. Around(c) \subseteq Cell
    BY DEF Around, FluidSides
  <2>2. CASE \E x \in Around(c) : x \in changed
    <3>1. PICK x \in Around(c) : x \in changed
      BY <2>2
    <3>2. c \in Around(x)
      BY <2>1, <3>1, AroundEachOther
    <3> QED
      BY <1>0, <3>1, <3>2 DEF Seen, WakeComes
  <2>3. CASE \A x \in Around(c) : x \notin changed
    <3>1. \A x \in Around(c) : blocks'[x] = blocks[x]
      BY <1>1, <2>1, <2>3
    <3>2. blocks'[c] = blocks[c] /\ Seen(c)
      BY <1>2, <3>1 DEF Around, FluidInv
    <3>3. /\ Wanted(c)' = Wanted(c) /\ BlockAt(UnderOf(c))' = BlockAt(UnderOf(c))
          /\ \A d \in FluidSides(c) : \A n : GivesWay(d, n)' = GivesWay(d, n)
      BY <3>1, RulesLookAround
    <3>4. CellSettled(c) => CellSettled(c)'
      BY <3>1, StaysSettled
    <3>5. ~WakeComes(c)
      BY <1>0 DEF WakeComes
    <3>6. ASSUME FlowCovers(c) PROVE FlowCovers(c)'
      <4>1. \A d \in FluidSides(c) : GivesWay(d, Thinner(flow.level))' = GivesWay(d, Thinner(flow.level))
        BY <1>0, <3>3 DEF Thinner
      <4> QED
        BY <1>0, <3>2, <3>3, <3>6, <4>1 DEF FlowCovers
    <3> QED
      BY <1>0, <3>2, <3>4, <3>5, <3>6 DEF Seen
  <2> QED
    BY <2>2, <2>3
<1> QED
  BY <1>0, <1>1, <1>2 DEF FluidInv

\* A change begun, scheduled, or listed by a sponge.
LEMMA EditsKeep ==
    ASSUME FluidInv, Players \/ ScheduleEdit \/ Soak
    PROVE  FluidInv'
<1>1. CASE Players
  <2>1. UNCHANGED <<blocks, due, flow, flowQueue>> /\ edit'.wake = {} /\ edit = NoEdit
    BY <1>1 DEF Players, EmptyBucket, ScoopFluid, PlaceRock, BreakRock, EditFluid
  <2>2. \A c \in Cell : ~WakeComes(c)
    BY <2>1 DEF WakeComes, NoEdit
  <2> QED
    BY <2>1, <2>2, BlocksStand
<1>2. CASE ScheduleEdit
  <2>1. /\ UNCHANGED <<blocks, due, flow>> /\ edit'.wake = {}
        /\ flowQueue' = flowQueue \cup UNION {Around(c) : c \in edit.wake}
    BY <1>2 DEF ScheduleEdit
  <2>2. \A c \in Cell : WakeComes(c) => c \in flowQueue'
    BY <2>1 DEF WakeComes
  <2> QED
    BY <2>1, <2>2, BlocksStand
<1>3. CASE Soak
  <2>1. UNCHANGED <<blocks, due, flow, flowQueue>> /\ edit.wake = {} /\ edit'.wake = {}
    BY <1>3 DEF Soak
  <2>2. \A c \in Cell : ~WakeComes(c)
    BY <2>1 DEF WakeComes
  <2> QED
    BY <2>1, <2>2, BlocksStand
<1> QED
  BY <1>1, <1>2, <1>3

\* At first there is no fluid.
LEMMA FluidStarts == FluidInit => FluidInv
<1>1. Rock \notin Level /\ Dry \notin Level
  BY FluidAssumption DEF Rock, Dry, Level, Falling
<1> QED
  BY <1>1 DEF FluidInit, FluidInv, IsFluid, NoEdit

LEMMA FluidSteps == ASSUME FluidInv, [FluidNext]_fluidVars PROVE FluidInv'
<1>1. CASE UNCHANGED fluidVars
  <2>1. UNCHANGED <<blocks, due, flow, flowQueue, edit>>
    BY <1>1 DEF fluidVars
  <2>2. \A c \in Cell : WakeComes(c) => WakeComes(c)'
    BY <2>1 DEF WakeComes
  <2>3. edit'.todo # {} => edit'.wake = {}
    BY <2>1 DEF FluidInv
  <2> QED
    BY <2>1, <2>2, <2>3, BlocksStand
<1>2. CASE FluidNext
  BY <1>2, EditsKeep, WriteEditKeeps, TakeDueKeeps, FlowDownKeeps, LookAsideKeeps, PourAsideKeeps,
     DeriveKeeps DEF FluidNext, ReaderStep, LoopStep
<1> QED
  BY <1>1, <1>2

\* For any sheet, kind of fluid and number of edits: when nothing is queued,
\* due, being updated or being changed, every fluid block is settled.
THEOREM NoUpdateIsLost == FluidSpec => []QuietIsSettled
<1>1. FluidInv => QuietIsSettled
  <2>1. SUFFICES ASSUME FluidInv, Quiet, NEW c \in Cell, IsFluid(blocks[c]) PROVE CellSettled(c)
    BY DEF QuietIsSettled
  <2>2. Seen(c) /\ ~WakeComes(c) /\ flow = NoFlow /\ c \notin flowQueue \cup due
    BY <2>1 DEF FluidInv, Quiet, WakeComes, NoEdit
  <2> QED
    BY <2>2 DEF Seen
<1> QED
  BY <1>1, FluidStarts, FluidSteps, PTL DEF FluidSpec
-----------------------------------------------------------------------------
(***************************************************************************)
(* TNT.  Every step of a block of TNT, from the row to the lit ones, the   *)
(* queue of the tick, and what has gone off or is gone, takes it out of    *)
(* one count and adds it to the next.                                      *)
(***************************************************************************)

Lighted == [cell : Int, fuse : Int, vel : {-1, 0, 1}]

AtRest == [at : {"rest", "next"}, queue : Seq(Lighted)]
AtWork == [at : {"hurt", "shove", "clear"}, queue : Seq(Lighted), x : Int, goes : SUBSET Row,
           before : [Row -> Stuff], touched : SUBSET Row]
AtBlocks == [at : {"write", "chain"}, queue : Seq(Lighted), x : Int, before : [Row -> Stuff],
             touched : SUBSET Row, chain : SUBSET Row, goes : SUBSET Row]

Tallies == [placed : Nat, blown : Nat, gone : Nat, other : Nat]

Tnts(w) == {c \in Row : w[c] = "tnt"}

BlastTypes ==
    /\ wall \in [Row -> Stuff]
    /\ tnts \in Seq(Lighted)
    /\ blast \in AtRest \cup AtWork \cup AtBlocks
    /\ tally \in Tallies

BlastInv == BlastTypes /\ TntConserved

\* What is picked: the definition's function, and what it has.
PickedUpTo(f, s, places, n) ==
    f = [i \in 0..n |-> IF i = 0 THEN <<>>
                        ELSE IF i \in places THEN Append(f[i - 1], s[i]) ELSE f[i - 1]]

LEMMA PickedIs ==
    ASSUME NEW s, NEW places
    PROVE  Picked(s, places) = (CHOOSE f : PickedUpTo(f, s, places, Len(s)))[Len(s)]
BY DEF Picked, PickedUpTo

LEMMA PickedExists ==
    ASSUME NEW s, NEW places, NEW n \in Nat
    PROVE  \E f : PickedUpTo(f, s, places, n)
<1> DEFINE G == {k \in Nat : \E f : PickedUpTo(f, s, places, k)}
<1>1. 0 \in G
  <2> DEFINE f == [i \in 0..0 |-> <<>>]
  <2>1. PickedUpTo(f, s, places, 0)
    <3>1. \A i \in 0..0 : i = 0
      OBVIOUS
    <3> QED
      BY <3>1 DEF PickedUpTo
  <2> QED
    BY <2>1
<1>2. ASSUME NEW k \in Nat, k \in G PROVE k + 1 \in G
  <2>1. PICK f : PickedUpTo(f, s, places, k)
    BY <1>2
  <2> DEFINE g == [i \in 0..k + 1 |-> IF i = k + 1
                                     THEN IF k + 1 \in places THEN Append(f[k], s[k + 1]) ELSE f[k]
                                     ELSE f[i]]
             h == [i \in 0..k + 1 |-> IF i = 0 THEN <<>>
                                     ELSE IF i \in places THEN Append(g[i - 1], s[i]) ELSE g[i - 1]]
  <2>2. ASSUME NEW i \in 0..k + 1 PROVE g[i] = h[i]
    <3>1. CASE i = k + 1
      <4>1. i # 0 /\ i - 1 = k /\ k \in 0..k + 1 /\ k # k + 1
        BY <3>1
      <4> QED
        BY <3>1, <4>1
    <3>2. CASE i # k + 1 /\ i # 0
      <4>1. i \in 0..k /\ i - 1 \in 0..k + 1 /\ i - 1 # k + 1
        BY <3>2
      <4>2. f[i] = IF i \in places THEN Append(f[i - 1], s[i]) ELSE f[i - 1]
        BY <2>1, <3>2, <4>1 DEF PickedUpTo
      <4> QED
        BY <3>2, <4>1, <4>2
    <3>3. CASE i # k + 1 /\ i = 0
      <4>1. f[0] = <<>>
        BY <2>1 DEF PickedUpTo
      <4> QED
        BY <3>3, <4>1
    <3> QED
      BY <3>1, <3>2, <3>3
  <2>3. g = h
    BY <2>2
  <2>4. PickedUpTo(g, s, places, k + 1)
    BY <2>3 DEF PickedUpTo
  <2> QED
    BY <2>4
<1>3. Nat \subseteq G
  <2> HIDE DEF G
  <2> QED
    BY <1>1, <1>2, CountUp
<1> QED
  BY <1>3

\* As many are picked as there are places.
LEMMA PickedHas ==
    ASSUME NEW S, NEW s \in Seq(S), NEW places \in SUBSET (1..Len(s))
    PROVE  Picked(s, places) \in Seq(S) /\ Len(Picked(s, places)) = Cardinality(places)
<1> DEFINE f == CHOOSE f : PickedUpTo(f, s, places, Len(s))
           First(k) == places \cap 1..k
           G == {k \in Nat : k <= Len(s) => f[k] \in Seq(S) /\ Len(f[k]) = Cardinality(First(k))}
<1>0. Len(s) \in Nat
  OBVIOUS
<1>1. PickedUpTo(f, s, places, Len(s))
  BY <1>0, PickedExists, Zenon
<1>2. \A i \in 0..Len(s) : f[i] = IF i = 0 THEN <<>>
                                  ELSE IF i \in places THEN Append(f[i - 1], s[i]) ELSE f[i - 1]
  <2> HIDE DEF f
  <2> QED
    BY <1>1 DEF PickedUpTo
<1> HIDE DEF f
<1>3. 0 \in G
  <2>1. First(0) = {}
    OBVIOUS
  <2>2. f[0] = <<>>
    BY <1>0, <1>2
  <2>3. Cardinality(First(0)) = 0
    BY <2>1, FS_EmptySet
  <2>4. f[0] \in Seq(S) /\ Len(f[0]) = 0
    BY <2>2
  <2> QED
    BY <2>3, <2>4
<1>4. ASSUME NEW k \in Nat, k \in G PROVE k + 1 \in G
  <2>1. SUFFICES ASSUME k + 1 <= Len(s)
                 PROVE  f[k + 1] \in Seq(S) /\ Len(f[k + 1]) = Cardinality(First(k + 1))
    OBVIOUS
  <2>2. f[k] \in Seq(S) /\ Len(f[k]) = Cardinality(First(k))
    BY <1>0, <1>4, <2>1
  <2>3. f[k + 1] = IF k + 1 \in places THEN Append(f[k], s[k + 1]) ELSE f[k]
    <3>1. k + 1 \in 0..Len(s) /\ k + 1 # 0 /\ (k + 1) - 1 = k
      BY <1>0, <2>1
    <3> QED
      BY <1>2, <3>1
  <2>4. IsFiniteSet(First(k)) /\ k + 1 \notin First(k)
    <3>1. IsFiniteSet(1..k)
      BY FS_Interval
    <3>2. k + 1 \notin 1..k
      OBVIOUS
    <3> QED
      BY <3>1, <3>2, FS_Subset
  <2>5. CASE k + 1 \in places
    <3>1. First(k + 1) = First(k) \cup {k + 1}
      BY <2>5
    <3>2. Cardinality(First(k + 1)) = Cardinality(First(k)) + 1
      BY <2>4, <3>1, FS_AddElement
    <3>3. s[k + 1] \in S
      BY <1>0, <2>1
    <3> HIDE DEF First
    <3> QED
      BY <2>2, <2>3, <2>5, <3>2, <3>3
  <2>6. CASE k + 1 \notin places
    <3>1. First(k + 1) = First(k)
      BY <2>6
    <3> QED
      BY <2>2, <2>3, <2>6, <3>1
  <2> QED
    BY <2>5, <2>6
<1>5. Nat \subseteq G
  <2> HIDE DEF G
  <2> QED
    BY <1>3, <1>4, CountUp
<1>6. First(Len(s)) = places
  OBVIOUS
<1>7. f[Len(s)] \in Seq(S) /\ Len(f[Len(s)]) = Cardinality(places)
  BY <1>0, <1>5, <1>6
<1> QED
  BY <1>7, PickedIs DEF f

\* The row is finite: what stands in it can be counted.
LEMMA TntsAreFew == ASSUME NEW w PROVE IsFiniteSet(Tnts(w)) /\ Cardinality(Tnts(w)) \in Nat
BY BlastAssumption, FS_Subset, FS_CardinalityType DEF Tnts

\* One block changed: a block of TNT more, one less, or as many.
LEMMA OneBlock ==
    ASSUME NEW c \in Row, NEW w, NEW v, \A d \in Row \ {c} : v[d] = w[d]
    PROVE  /\ w[c] # "tnt" /\ v[c] = "tnt" => Cardinality(Tnts(v)) = Cardinality(Tnts(w)) + 1
           /\ w[c] = "tnt" /\ v[c] # "tnt" => Cardinality(Tnts(v)) = Cardinality(Tnts(w)) - 1
           /\ w[c] # "tnt" /\ v[c] # "tnt" => Cardinality(Tnts(v)) = Cardinality(Tnts(w))
<1>1. v[c] = "tnt" => Tnts(v) = Tnts(w) \cup {c}
  BY DEF Tnts
<1>2. v[c] # "tnt" => Tnts(v) = Tnts(w) \ {c}
  BY DEF Tnts
<1>3. c \in Tnts(w) <=> w[c] = "tnt"
  BY DEF Tnts
<1>4. w[c] # "tnt" /\ v[c] = "tnt" => Cardinality(Tnts(v)) = Cardinality(Tnts(w)) + 1
  BY <1>1, <1>3, TntsAreFew, FS_AddElement
<1>5. w[c] = "tnt" /\ v[c] # "tnt" => Cardinality(Tnts(v)) = Cardinality(Tnts(w)) - 1
  BY <1>2, <1>3, TntsAreFew, FS_RemoveElement
<1>6. w[c] # "tnt" /\ v[c] # "tnt" => Tnts(v) = Tnts(w)
  BY <1>2, <1>3
<1> QED
  BY <1>4, <1>5, <1>6

\* What the tick loop is in the middle of, touched or gone on with.
LEMMA BlastGoesOn ==
    /\ \A b \in AtRest : "touched" \notin DOMAIN b
    /\ \A b \in AtWork \cup AtBlocks : \A c \in Row :
           LET s == [b EXCEPT !.touched = @ \cup {c}]
           IN  s \in AtWork \cup AtBlocks /\ s.queue = b.queue
    /\ \A b \in AtWork : \A a \in {"hurt", "shove", "clear"} :
           LET s == [b EXCEPT !.at = a] IN s \in AtWork /\ s.queue = b.queue
    /\ \A b \in AtBlocks :
           LET s == [b EXCEPT !.at = "chain"] IN s \in AtBlocks /\ s.queue = b.queue
    /\ \A b \in AtBlocks : \A c \in Row :
           LET s == [b EXCEPT !.chain = @ \ {c}] IN s \in AtBlocks /\ s.queue = b.queue
<1>1. \A b \in AtRest : "touched" \notin DOMAIN b
  BY DEF AtRest
<1>2. \A b \in AtWork : \A c \in Row :
           LET s == [b EXCEPT !.touched = @ \cup {c}]
           IN  s \in AtWork /\ s.queue = b.queue
  BY DEF AtWork
<1>3. \A b \in AtBlocks : \A c \in Row :
           LET s == [b EXCEPT !.touched = @ \cup {c}]
           IN  s \in AtBlocks /\ s.queue = b.queue
  BY DEF AtBlocks
<1>4. \A b \in AtWork : \A a \in {"hurt", "shove", "clear"} :
           LET s == [b EXCEPT !.at = a] IN s \in AtWork /\ s.queue = b.queue
  BY DEF AtWork
<1>5. \A b \in AtBlocks :
           LET s == [b EXCEPT !.at = "chain"] IN s \in AtBlocks /\ s.queue = b.queue
  BY DEF AtBlocks
<1>6. \A b \in AtBlocks : \A c \in Row :
           LET s == [b EXCEPT !.chain = @ \ {c}] IN s \in AtBlocks /\ s.queue = b.queue
  BY DEF AtBlocks
<1> QED
  BY <1>1, <1>2, <1>3, <1>4, <1>5, <1>6

LEMMA TouchedKeeps ==
    ASSUME BlastTypes, NEW c \in Row, Touched(c)
    PROVE  blast' \in AtRest \cup AtWork \cup AtBlocks /\ blast'.queue = blast.queue
<1>1. CASE blast \in AtRest
  BY <1>1, BlastGoesOn DEF Touched
<1>2. CASE blast \in AtWork \cup AtBlocks
  <2> DEFINE s == [blast EXCEPT !.touched = @ \cup {c}]
  <2>1. s \in AtWork \cup AtBlocks /\ s.queue = blast.queue
    BY <1>2, BlastGoesOn
  <2>2. blast' = s \/ blast' = blast
    BY DEF Touched
  <2> HIDE DEF s
  <2> QED
    BY <1>2, <2>1, <2>2
<1> QED
  BY <1>1, <1>2 DEF BlastTypes

\* The counts are numbers.
LEMMA BlastCounts ==
    ASSUME BlastTypes
    PROVE  /\ blast.queue \in Seq(Lighted) /\ Len(blast.queue) \in Nat /\ Len(tnts) \in Nat
           /\ tally.placed \in Nat /\ tally.blown \in Nat /\ tally.gone \in Nat /\ tally.other \in Nat
           /\ TntConserved <=> tally.placed = Cardinality(Tnts(wall)) + Len(tnts) + Len(blast.queue)
                                                + tally.blown + tally.gone
<1>1. blast.queue \in Seq(Lighted)
  BY DEF BlastTypes, AtRest, AtWork, AtBlocks
<1>2. tnts \in Seq(Lighted)
  BY DEF BlastTypes
<1>3. Len(blast.queue) \in Nat /\ Len(tnts) \in Nat
  BY <1>1, <1>2
<1>4. tally.placed \in Nat /\ tally.blown \in Nat /\ tally.gone \in Nat /\ tally.other \in Nat
  BY DEF BlastTypes, Tallies
<1>5. TntConserved <=> tally.placed = Cardinality(Tnts(wall)) + Len(tnts) + Len(blast.queue)
                                          + tally.blown + tally.gone
  BY DEF TntConserved, Tnts
<1> QED
  BY <1>1, <1>3, <1>4, <1>5

\* One count more.
LEMMA TallyGrows ==
    /\ \A y \in Tallies : LET s == [y EXCEPT !.placed = @ + 1]
                          IN  /\ s \in Tallies /\ s.placed = y.placed + 1
                              /\ s.blown = y.blown /\ s.gone = y.gone
    /\ \A y \in Tallies : LET s == [y EXCEPT !.other = @ + 1]
                          IN  /\ s \in Tallies /\ s.placed = y.placed
                              /\ s.blown = y.blown /\ s.gone = y.gone
    /\ \A y \in Tallies : LET s == [y EXCEPT !.blown = @ + 1]
                          IN  /\ s \in Tallies /\ s.placed = y.placed
                              /\ s.blown = y.blown + 1 /\ s.gone = y.gone
    /\ \A y \in Tallies : \A n \in Nat : LET s == [y EXCEPT !.gone = @ + n]
                                        IN  /\ s \in Tallies /\ s.placed = y.placed
                                            /\ s.blown = y.blown /\ s.gone = y.gone + n
<1>1. \A y \in Tallies : LET s == [y EXCEPT !.placed = @ + 1]
                         IN  /\ s \in Tallies /\ s.placed = y.placed + 1
                             /\ s.blown = y.blown /\ s.gone = y.gone
  BY DEF Tallies
<1>2. \A y \in Tallies : LET s == [y EXCEPT !.other = @ + 1]
                         IN  /\ s \in Tallies /\ s.placed = y.placed
                             /\ s.blown = y.blown /\ s.gone = y.gone
  BY DEF Tallies
<1>3. \A y \in Tallies : LET s == [y EXCEPT !.blown = @ + 1]
                         IN  /\ s \in Tallies /\ s.placed = y.placed
                             /\ s.blown = y.blown + 1 /\ s.gone = y.gone
  BY DEF Tallies
<1>4. \A y \in Tallies : \A n \in Nat : LET s == [y EXCEPT !.gone = @ + n]
                                       IN  /\ s \in Tallies /\ s.placed = y.placed
                                           /\ s.blown = y.blown /\ s.gone = y.gone + n
  BY DEF Tallies
<1> QED
  BY <1>1, <1>2, <1>3, <1>4

\* What one count loses another one gains.
LEMMA Balance ==
    ASSUME BlastInv, BlastTypes',
           tally'.placed - tally.placed
               = (Cardinality(Tnts(wall')) - Cardinality(Tnts(wall))) + (Len(tnts') - Len(tnts))
                 + (Len(blast'.queue) - Len(blast.queue)) + (tally'.blown - tally.blown)
                 + (tally'.gone - tally.gone)
    PROVE  BlastInv'
<1> DEFINE W == Cardinality(Tnts(wall))
           V == Cardinality(Tnts(wall'))
           N == Len(tnts)
           M == Len(tnts')
           Q == Len(blast.queue)
           R == Len(blast'.queue)
           P == tally.placed
           O == tally'.placed
           B == tally.blown
           C == tally'.blown
           G == tally.gone
           H == tally'.gone
<1>1. W \in Int /\ N \in Int /\ Q \in Int /\ P \in Int /\ B \in Int /\ G \in Int
      /\ P = W + N + Q + B + G
  BY BlastCounts, TntsAreFew DEF BlastInv
<1>2. O \in Int /\ C \in Int /\ H \in Int
  BY DEF BlastTypes, Tallies
<1>3. tnts' \in Seq(Lighted) /\ blast'.queue \in Seq(Lighted)
  BY DEF BlastTypes, AtRest, AtWork, AtBlocks
<1>4. M \in Int /\ R \in Int /\ V \in Int
  BY <1>3, TntsAreFew
<1>5. O - P = (V - W) + (M - N) + (R - Q) + (C - B) + (H - G)
  OBVIOUS
<1> HIDE DEF W, V, N, M, Q, R, P, O, B, C, G, H
<1>6. O = V + M + R + C + H
  BY <1>1, <1>2, <1>4, <1>5
<1> QED
  BY <1>6 DEF BlastInv, TntConserved, Tnts, V, M, R, O, C, H

\* A player places or digs a block.
LEMMA PlayersBuild ==
    ASSUME BlastInv, NEW c \in Row, Dig(c) \/ \E b \in {"stone", "tnt", "water"} : Place(c, b)
    PROVE  BlastInv'
<1>0. BlastTypes /\ wall \in [Row -> Stuff] /\ wall[c] \in Stuff /\ "air" \in Stuff /\ tally \in Tallies
      /\ tnts \in Seq(Lighted)
  BY DEF BlastInv, BlastTypes, Stuff
<1>1. Len(tnts) \in Nat /\ Len(blast.queue) \in Nat /\ tally.blown \in Nat /\ tally.gone \in Nat
      /\ tally.placed \in Nat /\ tally.other \in Nat /\ Cardinality(Tnts(wall)) \in Nat
  BY <1>0, BlastCounts, TntsAreFew
<1>2. ASSUME NEW b \in {"stone", "tnt", "water"}, Place(c, b) PROVE BlastInv'
  <2>1. b \in Stuff /\ wall[c] # "tnt" /\ wall' = [wall EXCEPT ![c] = b] /\ tnts' = tnts
    BY <1>2 DEF Place, Passable, Stuff
  <2>2. blast' \in AtRest \cup AtWork \cup AtBlocks /\ blast'.queue = blast.queue
    BY <1>0, <1>2, TouchedKeeps DEF Place
  <2>3. wall' \in [Row -> Stuff]
    BY <1>0, <2>1
  <2>4. Cardinality(Tnts(wall')) = Cardinality(Tnts(wall)) + (IF b = "tnt" THEN 1 ELSE 0)
    <3>1. wall'[c] = b /\ \A d \in Row \ {c} : wall'[d] = wall[d]
      BY <1>0, <2>1
    <3>2. /\ wall'[c] = "tnt" => Cardinality(Tnts(wall')) = Cardinality(Tnts(wall)) + 1
          /\ wall'[c] # "tnt" => Cardinality(Tnts(wall')) = Cardinality(Tnts(wall))
      BY <2>1, <3>1, OneBlock
    <3> QED
      BY <1>1, <3>1, <3>2
  <2>5. /\ tally' \in Tallies /\ tally'.placed = tally.placed + (IF b = "tnt" THEN 1 ELSE 0)
        /\ tally'.blown = tally.blown /\ tally'.gone = tally.gone
    <3>1. CASE b = "tnt"
      <4> DEFINE s == [tally EXCEPT !.placed = @ + 1]
      <4>1. /\ s \in Tallies /\ s.placed = tally.placed + 1
            /\ s.blown = tally.blown /\ s.gone = tally.gone
        BY <1>0, TallyGrows
      <4>2. tally' = s
        BY <1>2, <3>1 DEF Place
      <4> HIDE DEF s
      <4> QED
        BY <3>1, <4>1, <4>2
    <3>2. CASE b # "tnt"
      <4> DEFINE s == [tally EXCEPT !.other = @ + 1]
      <4>1. s \in Tallies /\ s.placed = tally.placed /\ s.blown = tally.blown /\ s.gone = tally.gone
        BY <1>0, TallyGrows
      <4>2. tally' = s
        BY <1>2, <3>2 DEF Place
      <4> HIDE DEF s
      <4> QED
        BY <1>1, <3>2, <4>1, <4>2
    <3> QED
      BY <3>1, <3>2
  <2>6. BlastTypes'
    BY <1>0, <2>1, <2>2, <2>3, <2>5 DEF BlastTypes
  <2>7. /\ Len(tnts') = Len(tnts) /\ Len(blast'.queue) = Len(blast.queue)
        /\ (IF b = "tnt" THEN 1 ELSE 0) \in Int
    BY <2>1, <2>2
  <2> QED
    BY <1>1, <2>4, <2>5, <2>6, <2>7, Balance
<1>3. CASE Dig(c)
  <2>1. wall' = [wall EXCEPT ![c] = "air"] /\ tnts' = tnts
        /\ tally' = [placed |-> tally.placed, blown |-> tally.blown, other |-> tally.other + 1,
                     gone |-> IF wall[c] = "tnt" THEN tally.gone + 1 ELSE tally.gone]
    BY <1>3 DEF Dig
  <2>2. blast' \in AtRest \cup AtWork \cup AtBlocks /\ blast'.queue = blast.queue
    BY <1>0, <1>3, TouchedKeeps DEF Dig
  <2>3. wall' \in [Row -> Stuff]
    BY <1>0, <2>1
  <2>4. tally' \in Tallies /\ tally'.placed = tally.placed /\ tally'.blown = tally.blown
        /\ tally'.gone = IF wall[c] = "tnt" THEN tally.gone + 1 ELSE tally.gone
    BY <1>1, <2>1 DEF Tallies
  <2>5. BlastTypes'
    BY <1>0, <2>1, <2>2, <2>3, <2>4 DEF BlastTypes
  <2>6. Cardinality(Tnts(wall')) = Cardinality(Tnts(wall)) - (IF wall[c] = "tnt" THEN 1 ELSE 0)
    <3>1. wall'[c] # "tnt" /\ \A d \in Row \ {c} : wall'[d] = wall[d]
      BY <1>0, <2>1
    <3>2. /\ wall[c] = "tnt" => Cardinality(Tnts(wall')) = Cardinality(Tnts(wall)) - 1
          /\ wall[c] # "tnt" => Cardinality(Tnts(wall')) = Cardinality(Tnts(wall))
      BY <3>1, OneBlock
    <3> QED
      BY <1>1, <3>2
  <2>7. Len(tnts') = Len(tnts) /\ Len(blast'.queue) = Len(blast.queue)
    BY <2>1, <2>2
  <2> QED
    BY <1>1, <2>4, <2>5, <2>6, <2>7, Balance
<1> QED
  BY <1>2, <1>3

\* A block of TNT is lit: one less in the row, one more alight.
LEMMA Lights ==
    ASSUME BlastInv, NEW c \in Row, NEW fuse \in Int, Primes(c, fuse)
    PROVE  /\ wall' \in [Row -> Stuff] /\ tnts' \in Seq(Lighted)
           /\ \E d \in {0, 1} : /\ Cardinality(Tnts(wall')) = Cardinality(Tnts(wall)) - d
                              /\ Len(tnts') = Len(tnts) + d
<1>1. BlastTypes /\ wall \in [Row -> Stuff] /\ "air" \in Stuff /\ tnts \in Seq(Lighted)
      /\ Cardinality(Tnts(wall)) \in Nat /\ Len(tnts) \in Nat
  BY TntsAreFew, BlastCounts DEF BlastInv, BlastTypes, Stuff
<1>2. CASE wall[c] = "tnt"
  <2> DEFINE v == [wall EXCEPT ![c] = "air"]
             t == Append(tnts, Lit(c, fuse))
  <2>1. v \in [Row -> Stuff] /\ Cardinality(Tnts(v)) = Cardinality(Tnts(wall)) - 1
    <3>1. v \in [Row -> Stuff] /\ v[c] # "tnt" /\ \A d \in Row \ {c} : v[d] = wall[d]
      BY <1>1
    <3> HIDE DEF v
    <3> QED
      BY <1>2, <3>1, OneBlock
  <2>2. Lit(c, fuse) \in Lighted
    BY BlastAssumption DEF Lit, Lighted
  <2>3. t \in Seq(Lighted) /\ Len(t) = Len(tnts) + 1
    BY <1>1, <2>2
  <2>4. wall' = v /\ tnts' = t
    BY <1>2 DEF Primes, HoldsTnt
  <2> HIDE DEF v, t
  <2> QED
    BY <2>1, <2>3, <2>4
<1>3. CASE wall[c] # "tnt"
  <2>1. wall' = wall /\ tnts' = tnts
    BY <1>3 DEF Primes, HoldsTnt
  <2>2. Cardinality(Tnts(wall)) = Cardinality(Tnts(wall)) - 0 /\ Len(tnts) = Len(tnts) + 0
    BY <1>1
  <2> QED
    BY <1>1, <2>1, <2>2
<1> QED
  BY <1>2, <1>3

LEMMA PlayersLight ==
    ASSUME BlastInv, NEW c \in Row, PrimeTNT(c) PROVE BlastInv'
<1>1. BlastTypes /\ Primes(c, Fuse) /\ Fuse \in Int /\ tally' = tally /\ tally \in Tallies
  BY BlastAssumption DEF PrimeTNT, BlastInv, BlastTypes
<1>2. wall' \in [Row -> Stuff] /\ tnts' \in Seq(Lighted)
  BY <1>1, Lights
<1>3. PICK d \in {0, 1} : /\ Cardinality(Tnts(wall')) = Cardinality(Tnts(wall)) - d
                          /\ Len(tnts') = Len(tnts) + d
  BY <1>1, Lights
<1>4. blast' \in AtRest \cup AtWork \cup AtBlocks /\ blast'.queue = blast.queue
  BY <1>1, TouchedKeeps DEF PrimeTNT
<1>5. BlastTypes'
  BY <1>1, <1>2, <1>4 DEF BlastTypes
<1>6. Len(tnts) \in Nat /\ Len(blast.queue) \in Nat /\ tally.blown \in Nat /\ tally.gone \in Nat
      /\ tally.placed \in Nat /\ Cardinality(Tnts(wall)) \in Nat
  BY <1>1, BlastCounts, TntsAreFew
<1> QED
  BY <1>1, <1>3, <1>4, <1>5, <1>6, Balance

LEMMA BlastLights ==
    ASSUME BlastInv, NEW c \in Row, NEW fuse \in ChainFuses, ChainPrime(c, fuse) PROVE BlastInv'
<1>1. BlastTypes /\ Primes(c, fuse) /\ fuse \in Int /\ tally' = tally /\ tally \in Tallies
  BY BlastAssumption DEF ChainPrime, BlastInv, BlastTypes
<1>2. wall' \in [Row -> Stuff] /\ tnts' \in Seq(Lighted)
  BY <1>1, Lights
<1>3. PICK d \in {0, 1} : /\ Cardinality(Tnts(wall')) = Cardinality(Tnts(wall)) - d
                          /\ Len(tnts') = Len(tnts) + d
  BY <1>1, Lights
<1>4. blast' \in AtBlocks /\ blast'.queue = blast.queue
  <2> DEFINE s == [blast EXCEPT !.chain = @ \ {c}]
  <2>1. blast \in AtBlocks
    BY <1>1 DEF ChainPrime, BlastTypes, AtRest, AtWork
  <2>2. s \in AtBlocks /\ s.queue = blast.queue
    BY <2>1, BlastGoesOn
  <2>3. blast' = s
    BY DEF ChainPrime
  <2> HIDE DEF s
  <2> QED
    BY <2>2, <2>3
<1>5. BlastTypes'
  BY <1>1, <1>2, <1>4 DEF BlastTypes
<1>6. Len(tnts) \in Nat /\ Len(blast.queue) \in Nat /\ tally.blown \in Nat /\ tally.gone \in Nat
      /\ tally.placed \in Nat /\ Cardinality(Tnts(wall)) \in Nat
  BY <1>1, BlastCounts, TntsAreFew
<1> QED
  BY <1>1, <1>3, <1>4, <1>5, <1>6, Balance

\* Part of a finite set and the rest of it.
LEMMA PartAndRest ==
    ASSUME NEW S, IsFiniteSet(S), NEW T \in SUBSET S
    PROVE  /\ IsFiniteSet(T) /\ Cardinality(S) \in Nat /\ Cardinality(T) \in Nat
           /\ Cardinality(S \ T) = Cardinality(S) - Cardinality(T)
<1>1. IsFiniteSet(T) /\ Cardinality(S) \in Nat /\ Cardinality(T) \in Nat
  BY FS_Subset, FS_CardinalityType
<1>2. Cardinality(S \ T) = Cardinality(S) - Cardinality(S \cap T)
  BY FS_Difference
<1>3. S \cap T = T
  OBVIOUS
<1> QED
  BY <1>1, <1>2, <1>3

LEMMA MovedIsLit ==
    ASSUME NEW t \in Lighted, NEW stops \in BOOLEAN PROVE Moved(t, stops) \in Lighted
<1>1. t.cell \in Int /\ t.fuse - 1 \in Int /\ t.vel \in {-1, 0, 1} /\ t.cell + t.vel \in Int
  BY DEF Lighted
<1> QED
  BY <1>1 DEF Moved, Lighted

\* The fuses burn: what lies in the row stays lit or is queued, the rest is gone.
LEMMA FusesBurn ==
    ASSUME BlastInv, NEW stops \in BOOLEAN, StepTNT(stops) PROVE BlastInv'
<1> DEFINE now == [k \in DOMAIN tnts |-> Moved(tnts[k], stops)]
           here == {k \in DOMAIN now : now[k].cell \in Row}
           over == {k \in here : now[k].fuse <= 0}
           gone == DOMAIN now \ here
           y == [tally EXCEPT !.gone = @ + Cardinality(gone)]
<1>0. /\ tnts' = Picked(now, here \ over) /\ blast' = [at |-> "next", queue |-> Picked(now, over)]
      /\ tally' = y /\ wall' = wall /\ blast = Still
  BY DEF StepTNT
<1>1. BlastTypes /\ wall \in [Row -> Stuff] /\ tnts \in Seq(Lighted) /\ tally \in Tallies
  BY DEF BlastInv, BlastTypes
<1>2. Len(tnts) \in Nat /\ tally.blown \in Nat /\ tally.gone \in Nat
      /\ tally.placed \in Nat /\ Cardinality(Tnts(wall)) \in Nat
  BY <1>1, BlastCounts, TntsAreFew
<1>3. now \in Seq(Lighted) /\ Len(now) = Len(tnts) /\ DOMAIN now = 1..Len(tnts)
  <2>1. DOMAIN tnts = 1..Len(tnts) /\ \A k \in 1..Len(tnts) : Moved(tnts[k], stops) \in Lighted
    BY <1>1, MovedIsLit
  <2> QED
    BY <1>2, <2>1
<1>4. here \in SUBSET (1..Len(tnts)) /\ over \in SUBSET here
  BY <1>3
<1>5. gone = (1..Len(tnts)) \ here
  BY <1>3
<1> HIDE DEF now, here, over, gone
<1>6. IsFiniteSet(1..Len(tnts)) /\ Cardinality(1..Len(tnts)) = Len(tnts)
  <2> DEFINE n == Len(tnts)
  <2>1. n \in Nat /\ 1 \in Int
    BY <1>2
  <2> HIDE DEF n
  <2>2. IsFiniteSet(1..n) /\ Cardinality(1..n) = IF 1 > n THEN 0 ELSE n - 1 + 1
    BY <2>1, FS_Interval
  <2>3. Cardinality(1..n) = n
    BY <2>1, <2>2
  <2> QED
    BY <2>2, <2>3 DEF n
<1>7. /\ IsFiniteSet(here) /\ Cardinality(here) \in Nat
      /\ Cardinality(gone) = Len(tnts) - Cardinality(here)
  BY <1>4, <1>5, <1>6, PartAndRest
<1>8. /\ Cardinality(over) \in Nat
      /\ Cardinality(here \ over) = Cardinality(here) - Cardinality(over)
  BY <1>4, <1>7, PartAndRest
<1>9. Cardinality(gone) \in Nat
  BY <1>5, <1>6, FS_Difference, FS_CardinalityType
<1>10. /\ Picked(now, here \ over) \in Seq(Lighted)
       /\ Len(Picked(now, here \ over)) = Cardinality(here \ over)
  <2>1. here \ over \in SUBSET (1..Len(now))
    BY <1>3, <1>4
  <2> QED
    BY <1>3, <2>1, PickedHas
<1>11. Picked(now, over) \in Seq(Lighted) /\ Len(Picked(now, over)) = Cardinality(over)
  <2>1. over \in SUBSET (1..Len(now))
    BY <1>3, <1>4
  <2> QED
    BY <1>3, <2>1, PickedHas
<1>12. y \in Tallies /\ y.placed = tally.placed /\ y.blown = tally.blown
       /\ y.gone = tally.gone + Cardinality(gone)
  BY <1>1, <1>9, TallyGrows
<1> HIDE DEF y
<1>13. blast' \in AtRest /\ blast'.queue = Picked(now, over)
  BY <1>0, <1>11 DEF AtRest
<1>14. BlastTypes'
  BY <1>0, <1>1, <1>10, <1>12, <1>13 DEF BlastTypes
<1>15. Len(blast.queue) = 0
  BY <1>0 DEF Still
<1>16. /\ Len(tnts') = Cardinality(here) - Cardinality(over) /\ Len(blast'.queue) = Cardinality(over)
       /\ tally'.placed = tally.placed /\ tally'.blown = tally.blown
       /\ tally'.gone = tally.gone + (Len(tnts) - Cardinality(here))
       /\ Cardinality(Tnts(wall')) = Cardinality(Tnts(wall))
  BY <1>0, <1>7, <1>8, <1>10, <1>11, <1>12, <1>13
<1>17. tally'.placed - tally.placed
           = (Cardinality(Tnts(wall')) - Cardinality(Tnts(wall))) + (Len(tnts') - Len(tnts))
             + (Len(blast'.queue) - Len(blast.queue)) + (tally'.blown - tally.blown)
             + (tally'.gone - tally.gone)
  <2> DEFINE n == Len(tnts)
             h == Cardinality(here)
             o == Cardinality(over)
             g == tally.gone
  <2>1. n \in Int /\ h \in Int /\ o \in Int /\ g \in Int
    BY <1>2, <1>7, <1>8
  <2>2. /\ tally'.placed - tally.placed = 0 /\ tally'.blown - tally.blown = 0
        /\ Cardinality(Tnts(wall')) - Cardinality(Tnts(wall)) = 0
    BY <1>2, <1>16
  <2>3. /\ Len(tnts') - Len(tnts) = (h - o) - n /\ Len(blast'.queue) - Len(blast.queue) = o
        /\ tally'.gone - tally.gone = (g + (n - h)) - g
    BY <1>15, <1>16, <2>1
  <2> HIDE DEF n, h, o, g
  <2>4. 0 = 0 + ((h - o) - n) + o + 0 + ((g + (n - h)) - g)
    BY <2>1
  <2> QED
    BY <2>2, <2>3, <2>4, Zenon
<1> QED
  BY <1>14, <1>17, Balance

\* One block of the queue goes off.
LEMMA OneGoesOff ==
    ASSUME BlastInv, NEW l \in Strengths, NEW r \in Strengths, Decide(l, r) PROVE BlastInv'
<1> DEFINE y == [tally EXCEPT !.blown = @ + 1]
           q == blast.queue
           x == Head(q).cell
<1>0. /\ q # <<>> /\ wall' = wall /\ tnts' = tnts /\ tally' = y
      /\ blast' = [at |-> After.deciding, queue |-> Tail(q), x |-> x,
                    goes |-> Caught(x, l, r) \ Kept, before |-> wall, touched |-> {}]
  BY DEF Decide
<1>1. BlastTypes /\ wall \in [Row -> Stuff] /\ tnts \in Seq(Lighted) /\ tally \in Tallies
  BY DEF BlastInv, BlastTypes
<1>2. Len(tnts) \in Nat /\ tally.blown \in Nat /\ tally.gone \in Nat /\ tally.placed \in Nat
      /\ Cardinality(Tnts(wall)) \in Nat /\ q \in Seq(Lighted)
  BY <1>1, BlastCounts, TntsAreFew
<1>3. y \in Tallies /\ y.placed = tally.placed /\ y.blown = tally.blown + 1 /\ y.gone = tally.gone
  BY <1>1, TallyGrows
<1>4. Tail(q) \in Seq(Lighted) /\ Len(Tail(q)) = Len(q) - 1 /\ Head(q) \in Lighted /\ Len(q) \in Nat
  BY <1>0, <1>2
<1>5. x \in Int
  BY <1>4 DEF Lighted
<1> HIDE DEF y, x
<1>6. Caught(x, l, r) \ Kept \in SUBSET Row /\ {} \in SUBSET Row /\ After.deciding = "hurt"
  BY DEF Caught, After
<1>7. blast' \in AtWork /\ blast'.queue = Tail(q)
  <2> HIDE DEF q
  <2> QED
    BY <1>0, <1>1, <1>4, <1>5, <1>6 DEF AtWork
<1>8. BlastTypes'
  BY <1>0, <1>1, <1>3, <1>7 DEF BlastTypes
<1>9. tally'.placed = tally.placed /\ tally'.blown = tally.blown + 1 /\ tally'.gone = tally.gone
      /\ Cardinality(Tnts(wall')) = Cardinality(Tnts(wall)) /\ Len(tnts') = Len(tnts)
      /\ Len(blast'.queue) = Len(blast.queue) - 1
  BY <1>0, <1>3, <1>4, <1>7
<1> QED
  BY <1>2, <1>4, <1>8, <1>9, Balance

\* The explosion goes on, and no count changes.
LEMMA ExplosionGoesOn ==
    ASSUME BlastInv, HurtPlayers \/ ShoveTNT \/ SortBlocks \/ Blown \/ AllBlown PROVE BlastInv'
<1>1. BlastTypes /\ wall \in [Row -> Stuff] /\ tnts \in Seq(Lighted) /\ tally \in Tallies
      /\ wall' = wall /\ tally' = tally
  BY DEF BlastInv, BlastTypes, HurtPlayers, ShoveTNT, SortBlocks, Blown, AllBlown
<1>2. blast' \in AtRest \cup AtWork \cup AtBlocks /\ Len(blast'.queue) = Len(blast.queue)
  <2>1. CASE HurtPlayers
    <3> DEFINE s == [blast EXCEPT !.at = "shove"]
    <3>1. blast \in AtWork
      BY <1>1, <2>1 DEF BlastTypes, HurtPlayers, AtRest, AtBlocks
    <3>2. s \in AtWork /\ s.queue = blast.queue
      BY <3>1, BlastGoesOn
    <3>3. blast' = s
      BY <2>1 DEF HurtPlayers, GoesOnTo, After
    <3> HIDE DEF s
    <3> QED
      BY <3>2, <3>3
  <2>2. CASE ShoveTNT
    <3> DEFINE s == [blast EXCEPT !.at = "clear"]
    <3>1. blast \in AtWork
      BY <1>1, <2>2 DEF BlastTypes, ShoveTNT, AtRest, AtBlocks
    <3>2. s \in AtWork /\ s.queue = blast.queue
      BY <3>1, BlastGoesOn
    <3>3. blast' = s
      BY <2>2 DEF ShoveTNT, GoesOnTo, After
    <3> HIDE DEF s
    <3> QED
      BY <3>2, <3>3
  <2>3. CASE SortBlocks
    <3> DEFINE ch == {c \in blast.goes : wall[c] = "tnt"}
               go == {c \in blast.goes : wall[c] \notin {"tnt", "air"}}
    <3>1. blast \in AtWork
      BY <1>1, <2>3 DEF BlastTypes, SortBlocks, AtRest, AtBlocks
    <3>2. blast.goes \in SUBSET Row /\ blast.queue \in Seq(Lighted) /\ blast.x \in Int
          /\ blast.before \in [Row -> Stuff] /\ blast.touched \in SUBSET Row
      BY <3>1 DEF AtWork
    <3>3. ch \in SUBSET Row /\ go \in SUBSET Row
      BY <3>2
    <3>4. blast' = [at |-> "write", queue |-> blast.queue, x |-> blast.x, before |-> blast.before,
                    touched |-> blast.touched, chain |-> ch, goes |-> go]
      BY <2>3 DEF SortBlocks
    <3> HIDE DEF ch, go
    <3> QED
      BY <3>2, <3>3, <3>4 DEF AtBlocks
  <2>4. CASE Blown
    <3>1. blast' = [at |-> "next", queue |-> blast.queue]
      BY <2>4 DEF Blown, GoesOnTo, After
    <3>2. blast.queue \in Seq(Lighted)
      BY <1>1, BlastCounts
    <3> QED
      BY <3>1, <3>2 DEF AtRest
  <2>5. CASE AllBlown
    BY <2>5 DEF AllBlown, Still, AtRest
  <2> QED
    BY <2>1, <2>2, <2>3, <2>4, <2>5
<1>3. tnts' \in Seq(Lighted) /\ Len(tnts') = Len(tnts)
  <2>1. CASE ShoveTNT
    <3> DEFINE Pushed(t) == IF InRange(blast.x, t.cell) /\ t.cell # blast.x
                            THEN [t EXCEPT !.vel = Side(blast.x, t.cell)] ELSE t
               s == [k \in DOMAIN tnts |-> Pushed(tnts[k])]
    <3>1. \A x, y : Side(x, y) \in {-1, 0, 1}
      BY DEF Side
    <3>2. \A t \in Lighted : \A v \in {-1, 0, 1} : [t EXCEPT !.vel = v] \in Lighted
      BY DEF Lighted
    <3>3. \A t \in Lighted : Pushed(t) \in Lighted
      BY <3>1, <3>2
    <3>4. tnts' = s
      BY <2>1 DEF ShoveTNT
    <3> HIDE DEF Pushed
    <3>5. DOMAIN tnts = 1..Len(tnts) /\ Len(tnts) \in Nat /\ \A k \in 1..Len(tnts) : tnts[k] \in Lighted
      BY <1>1
    <3>6. s \in Seq(Lighted) /\ Len(s) = Len(tnts)
      BY <3>3, <3>5
    <3> HIDE DEF s
    <3> QED
      BY <3>4, <3>6
  <2>2. CASE ~ShoveTNT
    BY <1>1, <2>2 DEF HurtPlayers, SortBlocks, Blown, AllBlown
  <2> QED
    BY <2>1, <2>2
<1>4. BlastTypes'
  BY <1>1, <1>2, <1>3 DEF BlastTypes
<1>5. Len(tnts) \in Nat /\ tally.blown \in Nat /\ tally.gone \in Nat /\ tally.placed \in Nat
      /\ Cardinality(Tnts(wall)) \in Nat /\ Len(blast.queue) \in Nat
  BY <1>1, BlastCounts, TntsAreFew
<1> QED
  BY <1>1, <1>2, <1>3, <1>4, <1>5, Balance

\* Blocks are overwritten: what was TNT by then is gone.
LEMMA BlocksGo ==
    ASSUME BlastInv, ClearBlocks PROVE BlastInv'
<1> DEFINE lost == {c \in blast.goes : wall[c] = "tnt"}
           y == [tally EXCEPT !.gone = @ + Cardinality(lost)]
           s == [blast EXCEPT !.at = "chain"]
           v == [c \in Row |-> IF c \in blast.goes THEN "air" ELSE wall[c]]
<1>0. wall' = v /\ tally' = y /\ blast' = s /\ tnts' = tnts
  BY DEF ClearBlocks
<1>1. BlastTypes /\ wall \in [Row -> Stuff] /\ tnts \in Seq(Lighted) /\ tally \in Tallies
      /\ blast \in AtBlocks /\ blast.goes \in SUBSET Row
  BY DEF BlastInv, BlastTypes, ClearBlocks, AtRest, AtWork, AtBlocks
<1>2. v \in [Row -> Stuff] /\ lost \in SUBSET Tnts(wall) /\ Tnts(v) = Tnts(wall) \ lost
  BY <1>1 DEF Tnts, Stuff
<1>3. s \in AtBlocks /\ s.queue = blast.queue
  BY <1>1, BlastGoesOn
<1> HIDE DEF v, s, lost
<1>4. /\ Cardinality(Tnts(wall)) \in Nat /\ Cardinality(lost) \in Nat
      /\ Cardinality(Tnts(v)) = Cardinality(Tnts(wall)) - Cardinality(lost)
  BY <1>2, TntsAreFew, PartAndRest
<1>5. y \in Tallies /\ y.placed = tally.placed /\ y.blown = tally.blown
      /\ y.gone = tally.gone + Cardinality(lost)
  BY <1>1, <1>4, TallyGrows
<1> HIDE DEF y
<1>6. BlastTypes'
  BY <1>0, <1>1, <1>2, <1>3, <1>5 DEF BlastTypes
<1>7. Len(tnts) \in Nat /\ tally.blown \in Nat /\ tally.gone \in Nat /\ tally.placed \in Nat
      /\ Len(blast.queue) \in Nat
  BY <1>1, BlastCounts
<1>8. tally'.placed = tally.placed /\ tally'.blown = tally.blown
      /\ tally'.gone = tally.gone + Cardinality(lost) /\ Len(tnts') = Len(tnts)
      /\ Cardinality(Tnts(wall')) = Cardinality(Tnts(wall)) - Cardinality(lost)
      /\ Len(blast'.queue) = Len(blast.queue)
  BY <1>0, <1>3, <1>4, <1>5
<1> QED
  BY <1>4, <1>6, <1>7, <1>8, Balance

LEMMA BlastStarts == BlastInit => BlastInv
<1> SUFFICES ASSUME BlastInit PROVE BlastInv
  OBVIOUS
<1>1. wall \in [Row -> Stuff] /\ tnts = <<>> /\ blast = [at |-> "rest", queue |-> <<>>]
      /\ tally = [placed |-> 0, blown |-> 0, gone |-> 0, other |-> 0]
  BY DEF BlastInit, Still, Stuff
<1>2. BlastTypes
  BY <1>1 DEF BlastTypes, AtRest, Tallies
<1>3. \A c \in Row : wall[c] # "tnt"
  BY DEF BlastInit
<1>4. Tnts(wall) = {}
  BY <1>3 DEF Tnts
<1>5. Cardinality(Tnts(wall)) = 0
  BY <1>4, FS_EmptySet
<1>6. Len(tnts) = 0 /\ Len(blast.queue) = 0 /\ tally.placed = 0 /\ tally.blown = 0 /\ tally.gone = 0
  BY <1>1
<1>7. TntConserved
  BY <1>2, <1>5, <1>6, BlastCounts
<1> QED
  BY <1>2, <1>7 DEF BlastInv

LEMMA BlastSteps == BlastInv /\ [BlastNext]_blastVars => BlastInv'
<1> SUFFICES ASSUME BlastInv, [BlastNext]_blastVars PROVE BlastInv'
  OBVIOUS
<1>1. ASSUME wall' = wall, tnts' = tnts, blast' = blast, tally' = tally PROVE BlastInv'
  BY <1>1 DEF BlastInv, BlastTypes, TntConserved
<1>2. ASSUME NEW c \in Row, \E b \in {"stone", "tnt", "water"} : Place(c, b) PROVE BlastInv'
  BY <1>2, PlayersBuild
<1>3. ASSUME NEW c \in Row, Dig(c) PROVE BlastInv'
  BY <1>3, PlayersBuild
<1>4. ASSUME NEW c \in Row, Ignite(c) PROVE BlastInv'
  BY <1>1, <1>4 DEF Ignite
<1>5. ASSUME NEW c \in Row, PrimeTNT(c) PROVE BlastInv'
  BY <1>5, PlayersLight
<1>6. ASSUME NEW c \in Row, NEW p \in Target, Walk(p, c) PROVE BlastInv'
  BY <1>1, <1>6 DEF Walk
<1>7. ASSUME NEW c \in Row, NEW f \in ChainFuses, ChainPrime(c, f) PROVE BlastInv'
  BY <1>7, BlastLights
<1>8. ASSUME NEW stops \in BOOLEAN, StepTNT(stops) PROVE BlastInv'
  BY <1>8, FusesBurn
<1>9. ASSUME NEW l \in Strengths, NEW r \in Strengths, Decide(l, r) PROVE BlastInv'
  BY <1>9, OneGoesOff
<1>10. ASSUME HurtPlayers \/ ShoveTNT \/ SortBlocks \/ Blown \/ AllBlown PROVE BlastInv'
  BY <1>10, ExplosionGoesOn
<1>11. ASSUME ClearBlocks PROVE BlastInv'
  BY <1>11, BlocksGo
<1>12. CASE UNCHANGED blastVars
  BY <1>1, <1>12 DEF blastVars
<1> QED
  BY <1>2, <1>3, <1>4, <1>5, <1>6, <1>7, <1>8, <1>9, <1>10, <1>11, <1>12, Zenon DEF BlastNext

\* A block of TNT blows once: in every state, every block ever placed still
\* stands, is lit, waits in the tick's queue, has gone off, or is gone, and is so
\* once, whoever lights, digs, overwrites or chain-lights it in between.
THEOREM TntIsConserved == BlastSpec => []TntConserved
<1>1. BlastInv => TntConserved
  BY DEF BlastInv
<1> QED
  BY <1>1, BlastStarts, BlastSteps, PTL DEF BlastSpec
=============================================================================
