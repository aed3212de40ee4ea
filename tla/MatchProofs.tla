----------------------------- MODULE MatchProofs -----------------------------
(***************************************************************************)
(* Proofs about what a round's players share: their ender chests, their    *)
(* arena, its spectators, the edits of its world and its shop, and about   *)
(* the gate they came through.                                             *)
(***************************************************************************)
EXTENDS WellFoundedInduction, EnderChest, Arena, WorldEdit, Spectating, Economy, AuthGate,
        SumTheorems, FiniteSetTheorems, TLAPS

-----------------------------------------------------------------------------
(***************************************************************************)
(* Ender chests.  Contents only get newer on their way from the window to  *)
(* the file: the file, the store, the snapshot of the one goroutine that   *)
(* writes, the loaded chest, the edits made, each at least as new as the   *)
(* one before it.                                                          *)
(***************************************************************************)

Batch == SUBSET Owner
Flushes == [at : {"rest", "wait", "read"}, batch : Batch]
           \cup [at : {"write"}, batch : Batch, chest : Owner, data : Int]

ChestTypes ==
    /\ ender \in [Owner -> Int] /\ stored \in [Owner -> Nat] /\ file \in [Owner -> Nat]
    /\ chestEdits \in [Owner -> Nat]
    /\ flush \in [Flusher -> Flushes]
    /\ clicked \subseteq Owner /\ marked \subseteq Owner

OneFlushes == \A f, g \in Flusher : Flushing(f) /\ Flushing(g) => f = g

\* What is loaded is as new as what is stored; what is to be saved is loaded.
Newer ==
    /\ \A p \in Owner : file[p] <= stored[p] /\ stored[p] <= chestEdits[p]
    /\ \A p \in Owner : ender[p] # NotLoaded => stored[p] <= ender[p] /\ ender[p] <= chestEdits[p]
    /\ \A p \in clicked \cup marked : ender[p] # NotLoaded
    /\ \A f \in Flusher : \A p \in flush[f].batch : ender[p] # NotLoaded
    /\ phase = "down" => /\ ~running
                         /\ \A p \in Owner : ender[p] = NotLoaded
                         /\ \A f \in Flusher : flush[f] = NotFlushing

\* A snapshot is between the store and the chest.
Snapshots ==
    \A f \in Flusher : flush[f].at = "write" =>
        LET p == flush[f].chest
        IN  p \in flush[f].batch /\ stored[p] <= flush[f].data /\ flush[f].data <= ender[p]

EnderInv == ChestTypes /\ OneFlushes /\ Newer /\ Snapshots

\* Each step keeps it, and the file gets no older.
LEMMA EnderSteps ==
    EnderInv /\ [EnderNext]_enderVars => EnderInv' /\ (\A p \in Owner : file'[p] >= file[p])
<1> SUFFICES ASSUME EnderInv, [EnderNext]_enderVars
             PROVE  EnderInv' /\ \A p \in Owner : file'[p] >= file[p]
  OBVIOUS
<1> USE DEF EnderInv, ChestTypes, OneFlushes, Newer, Snapshots, NotLoaded, Batch, Flushes
<1>1. ASSUME NEW p \in Owner, NEW ok \in BOOLEAN, LoadChest(p, ok)
      PROVE  EnderInv' /\ UNCHANGED file
  BY <1>1 DEF LoadChest, Flushing
<1>2. ASSUME NEW p \in Owner, NEW changes \in BOOLEAN, EditChest(p, changes)
      PROVE  EnderInv' /\ UNCHANGED file
  BY <1>2 DEF EditChest, Flushing
<1>3. ASSUME NEW p \in Owner, MarkChest(p) PROVE EnderInv' /\ UNCHANGED file
  BY <1>3 DEF MarkChest, Flushing
<1>4. ASSUME NEW f \in Flusher, FlushScheduled(f) \/ ShutdownFlush(f) PROVE EnderInv' /\ UNCHANGED file
  <2>1. flush[f] = NotFlushing /\ flush' = [flush EXCEPT ![f].at = "wait"] /\ phase # "down"
        /\ UNCHANGED <<ender, clicked, marked, stored, file, chestEdits>> /\ phase' # "down"
    BY <1>4 DEF FlushScheduled, ShutdownFlush
  <2>2. [flush[f] EXCEPT !.at = "wait"] \in [at : {"rest", "wait", "read"}, batch : Batch]
        /\ [flush[f] EXCEPT !.at = "wait"].at = "wait" /\ [flush[f] EXCEPT !.at = "wait"].batch = {}
    BY <2>1 DEF NotFlushing
  <2>3. flush' \in [Flusher -> Flushes] /\ flush'[f].at = "wait" /\ flush'[f].batch = {}
        /\ \A g \in Flusher : g # f => flush'[g] = flush[g]
    BY <2>1, <2>2
  <2> QED
    BY <2>1, <2>3 DEF Flushing, NotFlushing
<1>5. ASSUME NEW f \in Flusher, FlushTake(f) PROVE EnderInv' /\ UNCHANGED file
  BY <1>5 DEF FlushTake, Flushing, NotFlushing
<1>6. ASSUME NEW f \in Flusher, NEW p \in Owner, SaveRead(f, p) PROVE EnderInv' /\ UNCHANGED file
  BY <1>6 DEF SaveRead, Flushing, NotFlushing
<1>7. ASSUME NEW f \in Flusher, NEW ok \in BOOLEAN, SaveWrite(f, ok)
      PROVE  EnderInv' /\ \A p \in Owner : file'[p] >= file[p]
  BY <1>7 DEF SaveWrite, Flushing, NotFlushing
<1>8. ASSUME NEW f \in Flusher, FlushEnd(f) PROVE EnderInv' /\ UNCHANGED file
  BY <1>8 DEF FlushEnd, Flushing, NotFlushing
<1>9. ASSUME ProcessEnds \/ ProcessStarts PROVE EnderInv' /\ UNCHANGED file
  <2>1. CASE ProcessEnds
    <3>1. \A p \in Owner : ender'[p] = NotLoaded
      BY <2>1 DEF ProcessEnds
    <3>2. \A f \in Flusher : flush'[f] = NotFlushing
      BY <2>1 DEF ProcessEnds
    <3> QED
      BY <2>1, <3>1, <3>2 DEF ProcessEnds, Flushing, NotFlushing
  <2>2. CASE ProcessStarts
    BY <2>2 DEF ProcessStarts, Flushing, NotFlushing
  <2> QED
    BY <1>9, <2>1, <2>2
<1>10. CASE UNCHANGED enderVars
  BY <1>10 DEF enderVars, Flushing
<1> QED
  BY <1>1, <1>2, <1>3, <1>4, <1>5, <1>6, <1>7, <1>8, <1>9, <1>10 DEF EnderNext

\* The saver never puts older contents of a chest into the file, for any
\* number of players and of goroutines that flush.
THEOREM ChestsNeverOlder == EnderSpec => NeverOlder
<1>1. EnderInit => EnderInv
  BY DEF EnderInit, EnderInv, ChestTypes, OneFlushes, Newer, Snapshots, Flushing, NotFlushing,
         NotLoaded, Batch, Flushes
<1>2. EnderInv /\ [EnderNext]_enderVars => EnderInv'
  BY EnderSteps
<1>3. EnderInv /\ [EnderNext]_enderVars => [\A p \in Owner : file'[p] >= file[p]]_file
  BY EnderSteps
<1> QED
  BY <1>1, <1>2, <1>3, PTL DEF EnderSpec, NeverOlder
-----------------------------------------------------------------------------
(***************************************************************************)
(* The arena.  A cell is open when a block there may go: off the map and   *)
(* the living bed, or where a tower has put its ladder.  Open cells stay   *)
(* open, and everything under way, and every mark, is about open cells.    *)
(***************************************************************************)

Open(c) == c \in Site \ (Stone \ ladders) /\ (bedAlive => c \notin BedHalf \ ladders)

Deeds ==
    [at : {"rest"}] \cup [at : {"dig"}, cell : Site]
    \cup [at : {"ask", "look", "prime"}, cell : Site, then : {"look", "prime"}]
    \cup [at : {"look", "prime"}, cell : Site]
    \cup [at : {"fell"}, cell : Site, left : SUBSET BedHalf, then : {"look", "prime"}]
    \cup [at : {"mark", "lay"}, cell : Site, block : {"wool", "tnt", "foot", "head"}]
    \cup [at : {"raise", "build"}, walls : {{c} : c \in AirCell}, ladder : Site]

DeedOK(a) ==
    /\ a \in Deeds
    /\ a.at = "fell" => ~bedAlive /\ a.cell \in BedHalf
    /\ a.at = "look" => Open(a.cell) /\ (a.cell \in BedHalf => ~bedAlive)
    /\ a.at \in {"mark", "lay"} =>
         /\ Open(a.cell)
         /\ a.block \in {"foot", "head"} => a.cell \in BedHalf
         /\ a.block = "foot" => Open(Beside[a.cell])
    /\ a.at \in {"raise", "build"} => \A c \in a.walls : Open(c)
    /\ a.at = "build" => a.ladder \in ladders

LoopOK ==
    /\ loop \in [at : {"rest"}] \cup [at : {"egg"}, cell : Site] \cup [at : {"blast"}, cells : SUBSET Site]
    /\ loop.at = "egg" => Open(loop.cell)
    /\ loop.at = "blast" => \A c \in loop.cells : Open(c) /\ c \notin BedHalf

ArenaTypes ==
    /\ terrain \in [Site -> Contents] /\ placed \subseteq Site /\ ladders \subseteq Site
    /\ bedAlive \in BOOLEAN /\ tally \in [allowed : Nat, drops : Nat]
    /\ act \in [Builder -> Deeds]

MapInv ==
    /\ ArenaTypes /\ MapKept /\ LoopOK
    /\ \A c \in Site : terrain[c] \in BedStates => c \in BedHalf
    /\ \A c \in placed : Open(c)
    /\ \A p \in Builder : DeedOK(act[p])

\* What no step takes back.
OpenStays == ladders \subseteq ladders' /\ (bedAlive' => bedAlive)

LEMMA StillOpen == ASSUME OpenStays, NEW c, Open(c) PROVE Open(c)'
BY DEF OpenStays, Open

LEMMA DeedStays == ASSUME OpenStays, NEW a, DeedOK(a) PROVE DeedOK(a)'
BY StillOpen DEF DeedOK, OpenStays

\* A step of one player: the others' deeds are as good as they were.
LEMMA OneActs ==
    ASSUME MapInv, OpenStays, NEW p \in Builder, NEW a, Acts(p, a), DeedOK(a)'
    PROVE  act' \in [Builder -> Deeds] /\ \A q \in Builder : DeedOK(act[q])'
<1>1. a \in Deeds
  BY DEF DeedOK
<1>2. act' \in [Builder -> Deeds] /\ act'[p] = a /\ \A q \in Builder : q # p => act'[q] = act[q]
  BY <1>1 DEF Acts, MapInv, ArenaTypes
<1>3. ASSUME NEW q \in Builder PROVE DeedOK(act[q])'
  <2>1. CASE q = p
    BY <1>2, <2>1 DEF DeedOK, Open
  <2>2. CASE q # p
    <3>1. PICK b : b = act[q]
      OBVIOUS
    <3>2. DeedOK(b)'
      BY <3>1, DeedStays DEF MapInv
    <3> QED
      BY <1>2, <2>2, <3>1, <3>2 DEF DeedOK, Open
  <2> QED
    BY <2>1, <2>2
<1> QED
  BY <1>2, <1>3
\* What a step may do to the map, the marks and the counts.
Touches ==
    /\ terrain' \in [Site -> Contents]
    /\ \A c \in Site : \/ terrain'[c] = terrain[c]
                       \/ Open(c)' /\ (terrain'[c] \in BedStates => c \in BedHalf)

Harmless ==
    /\ OpenStays /\ Touches
    /\ \A c \in placed' : c \in placed \/ Open(c)'
    /\ ladders' \subseteq Site /\ bedAlive' \in BOOLEAN
    /\ tally' \in [allowed : Nat, drops : Nat]

LEMMA NothingTouched ==
    ASSUME MapInv, UNCHANGED <<terrain, placed, bedAlive, ladders, tally>> PROVE Harmless
BY DEF MapInv, ArenaTypes, Harmless, OpenStays, Touches

LEMMA MapStays == ASSUME MapInv, Harmless PROVE MapKept' /\ \A c \in Site : terrain'[c] \in BedStates => c \in BedHalf
<1>1. ASSUME NEW c \in Stone \ ladders' PROVE terrain'[c] = "stone"
  BY <1>1 DEF MapInv, MapKept, Harmless, OpenStays, Touches, Open, Site
<1>2. ASSUME bedAlive', NEW c \in BedHalf \ ladders' PROVE terrain'[c] = "bed"
  BY <1>2 DEF MapInv, MapKept, Harmless, OpenStays, Touches, Open, Site
<1>3. \A c \in Site : terrain'[c] \in BedStates => c \in BedHalf
  BY DEF MapInv, Harmless, Touches
<1> QED
  BY <1>1, <1>2, <1>3 DEF MapKept

LEMMA MarksStay == ASSUME MapInv, Harmless PROVE placed' \subseteq Site /\ \A c \in placed' : Open(c)'
<1>1. ASSUME NEW c \in placed' PROVE Open(c)'
  <2>1. CASE c \in placed
    BY <2>1, StillOpen DEF MapInv, Harmless
  <2> QED
    BY <1>1, <2>1 DEF Harmless
<1> QED
  BY <1>1 DEF Open

LEMMA LoopStays == ASSUME LoopOK, OpenStays, UNCHANGED loop PROVE LoopOK'
<1>1. \A c \in Site : Open(c) => Open(c)'
  BY StillOpen
<1> QED
  BY <1>1 DEF LoopOK, Open

\* A step of a reader, and one of the tick loop.
LEMMA ReaderStep ==
    ASSUME MapInv, Harmless, UNCHANGED loop, NEW p \in Builder, NEW a, Acts(p, a), DeedOK(a)'
    PROVE  MapInv'
<1>1. OpenStays
  BY DEF Harmless
<1>2. act' \in [Builder -> Deeds] /\ \A q \in Builder : DeedOK(act[q])'
  BY <1>1, OneActs
<1>3. ArenaTypes'
  BY <1>2, MarksStay DEF ArenaTypes, Harmless, Touches
<1>4. LoopOK'
  BY <1>1, LoopStays DEF MapInv
<1> QED
  BY <1>2, <1>3, <1>4, MapStays, MarksStay DEF MapInv

LEMMA LoopStep == ASSUME MapInv, Harmless, LoopOK', UNCHANGED act PROVE MapInv'
<1>1. ASSUME NEW q \in Builder PROVE DeedOK(act[q])'
  <2>1. PICK b : b = act[q]
    OBVIOUS
  <2>2. DeedOK(b)'
    BY <2>1, DeedStays DEF MapInv, Harmless
  <2> QED
    BY <2>1, <2>2 DEF DeedOK, Open
<1>2. ArenaTypes'
  BY MarksStay DEF MapInv, ArenaTypes, Harmless, Touches
<1> QED
  BY <1>1, <1>2, MapStays, MarksStay DEF MapInv

\* Digging and lighting begin nothing that is not asked about.
LEMMA RestIsOK == DeedOK(AtRest)'
BY DEF DeedOK, Deeds, AtRest

LEMMA DiggingSteps == ASSUME MapInv, NEW p \in Builder, Digging(p) PROVE MapInv'
<1>1. ASSUME NEW c \in Site, NEW t \in {"look", "prime"} PROVE DeedOK([at |-> "ask", cell |-> c, then |-> t])'
  BY DEF DeedOK, Deeds
<1>2. ASSUME NEW c \in Site PROVE DeedOK([at |-> "dig", cell |-> c])'
  BY DEF DeedOK, Deeds
<1>3. Harmless /\ UNCHANGED loop
  BY NothingTouched DEF Digging, StartDig, CancelDig, FinishDig, Ignite
<1>4. act[p] \in Deeds
  BY DEF MapInv, ArenaTypes
<1>5. CASE CancelDig(p)
  BY <1>3, <1>5, RestIsOK, ReaderStep DEF CancelDig
<1>6. CASE FinishDig(p)
  <2>1. act[p].cell \in Site
    BY <1>4, <1>6 DEF FinishDig, Deeds
  <2>2. PICK c \in Site : c = act[p].cell
    BY <2>1
  <2> QED
    BY <1>1, <1>3, <1>6, <2>2, ReaderStep DEF FinishDig
<1>7. ASSUME NEW c \in Site, StartDig(p, c) PROVE MapInv'
  BY <1>1, <1>2, <1>3, <1>7, ReaderStep DEF StartDig
<1>8. ASSUME NEW c \in Site, Ignite(p, c) PROVE MapInv'
  BY <1>1, <1>3, <1>8, ReaderStep DEF Ignite
<1> QED
  BY <1>5, <1>6, <1>7, <1>8 DEF Digging
\* A cell of air is open: nothing of the map or of a living bed stands there.
LEMMA AirIsOpen == ASSUME MapInv, NEW c \in Site, Replaceable(c) PROVE Open(c)
BY DEF MapInv, MapKept, Replaceable, Open

LEMMA PlacingSteps == ASSUME MapInv, NEW p \in Builder, Placing(p) PROVE MapInv'
<1>1. Harmless /\ UNCHANGED loop
  BY NothingTouched DEF Placing, StartPlace, StartTower
<1>2. ASSUME NEW c \in Site, NEW b \in {"wool", "tnt", "foot"}, StartPlace(p, c, b) PROVE MapInv'
  <2>1. Open(c) /\ (b = "foot" => c \in BedHalf /\ Open(Beside[c]))
    <3>1. b = "foot" => c \in BedHalf /\ Beside[c] \in Site /\ Replaceable(Beside[c])
      BY <1>2, ArenaAssumption DEF StartPlace, Site
    <3> QED
      BY <1>2, <3>1, AirIsOpen DEF StartPlace
  <2>2. PICK a : a = [at |-> "mark", cell |-> c, block |-> b]
    OBVIOUS
  <2>3. DeedOK(a)
    BY <2>1, <2>2 DEF DeedOK, Deeds
  <2> QED
    BY <1>1, <1>2, <2>2, <2>3, DeedStays, ReaderStep DEF StartPlace, Harmless
<1>3. ASSUME NEW wall \in AirCell, NEW ladder \in Site, StartTower(p, {wall}, ladder) PROVE MapInv'
  <2>1. Open(wall)
    BY <1>3, AirIsOpen DEF StartTower, Site
  <2>2. PICK a : a = [at |-> "raise", walls |-> {wall}, ladder |-> ladder]
    OBVIOUS
  <2>3. DeedOK(a)
    BY <2>1, <2>2 DEF DeedOK, Deeds
  <2> QED
    BY <1>1, <1>3, <2>2, <2>3, DeedStays, ReaderStep DEF StartTower, Harmless
<1> QED
  BY <1>2, <1>3 DEF Placing

\* The game lets an open block be broken, or the bed of others.
LEMMA AskBreakStep == ASSUME MapInv, NEW p \in Builder, AskBreak(p) PROVE MapInv'
<1>1. PICK a : a = act[p]
  OBVIOUS
<1>2. /\ a.at = "ask" /\ DeedOK(a) /\ a \in [at : {"ask"}, cell : Site, then : {"look", "prime"}]
      /\ UNCHANGED <<terrain, owner, loop, tally, ladders>>
  BY <1>1 DEF AskBreak, MapInv, DeedOK, Deeds
<1>3. Touches /\ UNCHANGED loop /\ ladders' \subseteq Site /\ tally' \in [allowed : Nat, drops : Nat]
  BY <1>2 DEF Touches, MapInv, ArenaTypes
<1>4. CASE Acts(p, AtRest) /\ UNCHANGED <<placed, bedAlive>>
  BY <1>2, <1>4, NothingTouched, RestIsOK, ReaderStep
<1>5. CASE a.cell \in BedHalf /\ bedAlive' = FALSE /\ UNCHANGED placed
           /\ Acts(p, [at |-> "fell", cell |-> a.cell, left |-> BedHalf, then |-> a.then])
  <2>1. Harmless
    BY <1>2, <1>3, <1>5 DEF Harmless, OpenStays
  <2>2. PICK b : b = [at |-> "fell", cell |-> a.cell, left |-> BedHalf, then |-> a.then]
    OBVIOUS
  <2>3. b \in Deeds /\ b.at = "fell" /\ b.cell = a.cell
    BY <1>2, <2>2 DEF Deeds
  <2>4. DeedOK(b)'
    BY <1>5, <2>3 DEF DeedOK
  <2> QED
    BY <1>2, <1>5, <2>1, <2>2, <2>4, ReaderStep
<1>6. PICK b : b = [a EXCEPT !.at = a.then]
  OBVIOUS
<1>7. b.at = a.then /\ b.cell = a.cell /\ b \in Deeds /\ b.at \in {"look", "prime"}
  BY <1>2, <1>6 DEF Deeds
<1>8. CASE a.cell \in BedHalf /\ bedAlive' = FALSE /\ UNCHANGED placed /\ Acts(p, b)
  <2>1. Harmless
    BY <1>2, <1>3, <1>8 DEF Harmless, OpenStays
  <2>2. Open(a.cell)'
    BY <1>2, <1>8, ArenaAssumption DEF Open
  <2>3. DeedOK(b)'
    BY <1>7, <1>8, <2>2 DEF DeedOK, Open
  <2> QED
    BY <1>2, <1>8, <2>1, <2>3, ReaderStep
<1>9. CASE a.cell \notin BedHalf /\ TakeMark(a.cell) /\ Acts(p, b) /\ UNCHANGED bedAlive
  <2>1. Harmless
    BY <1>2, <1>3, <1>9 DEF Harmless, OpenStays, TakeMark, MapInv, ArenaTypes
  <2>2. Open(a.cell)'
    BY <1>9, <2>1, StillOpen DEF TakeMark, MapInv, Harmless
  <2>3. DeedOK(b)'
    BY <1>7, <1>9, <2>2 DEF DeedOK, Open
  <2> QED
    BY <1>2, <1>9, <2>1, <2>3, ReaderStep
<1> QED
  BY <1>1, <1>2, <1>4, <1>5, <1>6, <1>8, <1>9 DEF AskBreak

LEMMA FellBedStep == ASSUME MapInv, NEW p \in Builder, FellBed(p) PROVE MapInv'
<1>1. PICK a : a = act[p]
  OBVIOUS
<1>2. /\ a.at = "fell" /\ ~bedAlive /\ a.cell \in BedHalf
      /\ a \in [at : {"fell"}, cell : Site, left : SUBSET BedHalf, then : {"look", "prime"}]
      /\ UNCHANGED <<placed, bedAlive, owner, loop, tally, ladders>>
  BY <1>1 DEF FellBed, MapInv, DeedOK, Deeds
<1>3. CASE a.left = {} /\ Acts(p, [at |-> a.then, cell |-> a.cell]) /\ UNCHANGED terrain
  <2>1. Harmless
    BY <1>2, <1>3, NothingTouched
  <2>2. PICK b : b = [at |-> a.then, cell |-> a.cell]
    OBVIOUS
  <2>3. b \in Deeds /\ b.at \in {"look", "prime"} /\ b.cell = a.cell
    BY <1>2, <2>2 DEF Deeds
  <2>4. DeedOK(b)
    BY <1>2, <2>3, ArenaAssumption DEF DeedOK, Open
  <2> QED
    BY <1>2, <1>3, <2>1, <2>2, <2>4, DeedStays, ReaderStep DEF Harmless
<1>4. ASSUME NEW c \in a.left, Puts(c, "air"), Acts(p, [a EXCEPT !.left = @ \ {c}]) PROVE MapInv'
  <2>1. Open(c)'
    BY <1>2, <1>4, ArenaAssumption DEF Open, Site
  <2>2. Touches
    BY <1>4, <2>1 DEF Touches, Puts, MapInv, ArenaTypes, Contents, BedStates
  <2>3. Harmless
    BY <1>2, <2>2 DEF Harmless, OpenStays, MapInv, ArenaTypes
  <2>4. PICK b : b = [a EXCEPT !.left = @ \ {c}]
    OBVIOUS
  <2>5. b \in Deeds /\ b.at = "fell" /\ b.cell = a.cell
    BY <1>2, <2>4 DEF Deeds
  <2>6. DeedOK(b)'
    BY <1>2, <2>5 DEF DeedOK
  <2> QED
    BY <1>2, <1>4, <2>3, <2>4, <2>6, ReaderStep
<1> QED
  BY <1>1, <1>2, <1>3, <1>4 DEF FellBed
\* The counts stay counts.
LEMMA Counting ==
    ASSUME MapInv
    PROVE  /\ Allowed => tally' \in [allowed : Nat, drops : Nat]
           /\ \A n \in Nat : Dropped(n) => tally' \in [allowed : Nat, drops : Nat]
           /\ UNCHANGED tally => tally' \in [allowed : Nat, drops : Nat]
BY DEF MapInv, ArenaTypes, Allowed, Dropped

LEMMA BreakBlockStep == ASSUME MapInv, NEW p \in Builder, BreakBlock(p) PROVE MapInv'
<1>1. PICK a : a = act[p]
  OBVIOUS
<1>2. /\ a.at = "look" /\ a.cell \in Site /\ Open(a.cell) /\ (a.cell \in BedHalf => ~bedAlive)
      /\ UNCHANGED <<placed, bedAlive, owner, loop, primed, ladders>> /\ Acts(p, AtRest)
  BY <1>1 DEF BreakBlock, MapInv, DeedOK, Open
<1>3. OpenStays
  BY <1>2 DEF OpenStays
<1>4. Open(a.cell)' /\ terrain[a.cell] \in BedStates => Open(Beside[a.cell])'
  BY <1>2, ArenaAssumption DEF Open, MapInv, Site
<1>5. Touches
  <2>1. CASE UNCHANGED terrain
    BY <2>1 DEF Touches, MapInv, ArenaTypes
  <2>2. CASE terrain' = [d \in Site |->
                IF d = a.cell \/ (terrain[a.cell] \in BedStates /\ d = Beside[a.cell]) THEN "air"
                ELSE terrain[d]]
    <3>1. Open(a.cell)'
      BY <1>2, <1>3, StillOpen
    <3> QED
      BY <1>4, <2>2, <3>1 DEF Touches, MapInv, ArenaTypes, Contents, BedStates
  <2> QED
    BY <1>1, <2>1, <2>2 DEF BreakBlock
<1>6. tally' \in [allowed : Nat, drops : Nat]
  BY Counting DEF BreakBlock, Counted
<1>7. Harmless
  BY <1>2, <1>3, <1>5, <1>6 DEF Harmless, MapInv, ArenaTypes
<1> QED
  BY <1>2, <1>7, RestIsOK, ReaderStep

LEMMA MarkPlacedStep == ASSUME MapInv, NEW p \in Builder, MarkPlaced(p) PROVE MapInv'
<1>1. PICK a : a = act[p]
  OBVIOUS
<1>2. /\ a.at = "mark" /\ DeedOK(a)
      /\ a \in [at : {"mark"}, cell : Site, block : {"wool", "tnt", "foot", "head"}]
      /\ UNCHANGED <<terrain, bedAlive, owner, loop, primed, ladders>>
      /\ placed' = placed \cup {a.cell} /\ Allowed /\ Acts(p, [a EXCEPT !.at = "lay"])
  BY <1>1 DEF MarkPlaced, MapInv, DeedOK, Deeds
<1>3. OpenStays
  BY <1>2 DEF OpenStays
<1>4. Open(a.cell)'
  BY <1>2, <1>3, StillOpen DEF DeedOK
<1>5. Harmless
  BY <1>2, <1>3, <1>4, Counting DEF Harmless, Touches, MapInv, ArenaTypes
<1>6. PICK b : b = [a EXCEPT !.at = "lay"]
  OBVIOUS
<1>7. b \in Deeds /\ b.at = "lay" /\ b.cell = a.cell /\ b.block = a.block
  BY <1>2, <1>6 DEF Deeds
<1>8. DeedOK(b)
  BY <1>2, <1>7 DEF DeedOK
<1> QED
  BY <1>2, <1>3, <1>5, <1>6, <1>8, DeedStays, ReaderStep

LEMMA LayStep == ASSUME MapInv, NEW p \in Builder, Lay(p) PROVE MapInv'
<1>1. PICK a : a = act[p]
  OBVIOUS
<1>2. /\ a.at = "lay" /\ DeedOK(a) /\ Open(a.cell) /\ a.cell \in Site
      /\ a \in [at : {"lay"}, cell : Site, block : {"wool", "tnt", "foot", "head"}]
      /\ UNCHANGED <<placed, bedAlive, owner, loop, primed, tally, ladders>> /\ Puts(a.cell, a.block)
  BY <1>1 DEF Lay, MapInv, DeedOK, Deeds
<1>3. OpenStays
  BY <1>2 DEF OpenStays
<1>4. Open(a.cell)'
  BY <1>2, <1>3, StillOpen
<1>5. Touches
  BY <1>2, <1>4 DEF Touches, Puts, MapInv, ArenaTypes, Contents, BedStates, DeedOK
<1>6. Harmless
  BY <1>2, <1>3, <1>5 DEF Harmless, MapInv, ArenaTypes
<1>7. CASE a.block = "foot"
  <2>1. PICK b : b = [at |-> "lay", cell |-> Beside[a.cell], block |-> "head"]
    OBVIOUS
  <2>2. DeedOK(b)
    BY <1>2, <1>7, <2>1, ArenaAssumption DEF DeedOK, Deeds, Site
  <2>3. Acts(p, b)
    BY <1>1, <1>7, <2>1 DEF Lay
  <2> QED
    BY <1>2, <1>3, <1>6, <2>2, <2>3, DeedStays, ReaderStep
<1>8. CASE a.block = "tnt"
  <2>1. PICK b : b = [at |-> "prime", cell |-> a.cell]
    OBVIOUS
  <2>2. DeedOK(b)
    BY <1>2, <2>1 DEF DeedOK, Deeds
  <2>3. Acts(p, b)
    BY <1>1, <1>8, <2>1 DEF Lay
  <2> QED
    BY <1>2, <1>3, <1>6, <2>2, <2>3, DeedStays, ReaderStep
<1>9. CASE a.block \notin {"foot", "tnt"}
  <2>1. Acts(p, AtRest)
    BY <1>1, <1>9 DEF Lay
  <2> QED
    BY <1>2, <1>6, <2>1, RestIsOK, ReaderStep
<1> QED
  BY <1>7, <1>8, <1>9

LEMMA PrimeStep == ASSUME MapInv, NEW p \in Builder, PrimeTNT(p) PROVE MapInv'
<1>1. PICK c : c = act[p].cell
  OBVIOUS
<1>2. /\ c \in Site /\ UNCHANGED <<placed, bedAlive, owner, loop, tally, ladders>> /\ Acts(p, AtRest)
      /\ IF terrain[c] = "tnt" THEN Puts(c, "air") ELSE UNCHANGED terrain
  BY <1>1 DEF PrimeTNT, MapInv, ArenaTypes, Deeds
<1>3. OpenStays
  BY <1>2 DEF OpenStays
<1>4. Touches
  <2>1. terrain[c] = "tnt" => Open(c)
    BY <1>2 DEF MapInv, MapKept, Open
  <2>2. terrain[c] = "tnt" => Open(c)'
    BY <1>3, <2>1, StillOpen
  <2> QED
    BY <1>2, <2>2 DEF Touches, Puts, MapInv, ArenaTypes, Contents, BedStates
<1>5. Harmless
  BY <1>2, <1>3, <1>4 DEF Harmless, MapInv, ArenaTypes
<1> QED
  BY <1>2, <1>5, RestIsOK, ReaderStep

LEMMA MarkTowerStep == ASSUME MapInv, NEW p \in Builder, MarkTower(p) PROVE MapInv'
<1>1. PICK a : a = act[p]
  OBVIOUS
<1>2. /\ a.at = "raise" /\ DeedOK(a)
      /\ a \in [at : {"raise"}, walls : {{c} : c \in AirCell}, ladder : Site]
      /\ UNCHANGED <<terrain, bedAlive, owner, loop, primed>>
      /\ placed' = placed \cup a.walls \cup {a.ladder} /\ ladders' = ladders \cup {a.ladder}
      /\ tally' = [tally EXCEPT !.allowed = @ + 2] /\ Acts(p, [a EXCEPT !.at = "build"])
  BY <1>1 DEF MarkTower, MapInv, DeedOK, Deeds
<1>3. OpenStays
  BY <1>2 DEF OpenStays
<1>4. a.ladder \in Site /\ Open(a.ladder)'
  BY <1>2 DEF Open
<1>5. \A c \in a.walls : Open(c)'
  BY <1>2, <1>3, StillOpen DEF DeedOK
<1>6. Harmless
  <2>1. tally' \in [allowed : Nat, drops : Nat]
    BY <1>2 DEF MapInv, ArenaTypes
  <2> QED
    BY <1>2, <1>3, <1>4, <1>5, <2>1 DEF Harmless, Touches, MapInv, ArenaTypes
<1>7. PICK b : b = [a EXCEPT !.at = "build"]
  OBVIOUS
<1>8. b \in Deeds /\ b.at = "build" /\ b.walls = a.walls /\ b.ladder = a.ladder
  BY <1>2, <1>7 DEF Deeds
<1>9. DeedOK(b)'
  BY <1>2, <1>5, <1>8 DEF DeedOK
<1> QED
  BY <1>2, <1>6, <1>7, <1>9, ReaderStep

LEMMA BuildStep == ASSUME MapInv, NEW p \in Builder, Build(p) PROVE MapInv'
<1>1. PICK a : a = act[p]
  OBVIOUS
<1>2. /\ a.at = "build" /\ DeedOK(a)
      /\ a \in [at : {"build"}, walls : {{c} : c \in AirCell}, ladder : Site]
      /\ UNCHANGED <<placed, bedAlive, owner, loop, primed, tally, ladders>> /\ Acts(p, AtRest)
      /\ terrain' = [c \in Site |-> IF c = a.ladder THEN "ladder"
                                    ELSE IF c \in a.walls THEN "wool" ELSE terrain[c]]
  BY <1>1 DEF Build, MapInv, DeedOK, Deeds
<1>3. OpenStays
  BY <1>2 DEF OpenStays
<1>4. Open(a.ladder)' /\ \A c \in a.walls : Open(c)'
  <2>1. Open(a.ladder)
    BY <1>2 DEF DeedOK, Open
  <2> QED
    BY <1>2, <1>3, <2>1, StillOpen DEF DeedOK
<1>5. Touches
  BY <1>2, <1>4 DEF Touches, MapInv, ArenaTypes, Contents, BedStates
<1>6. Harmless
  BY <1>2, <1>3, <1>5 DEF Harmless, MapInv, ArenaTypes
<1> QED
  BY <1>2, <1>6, RestIsOK, ReaderStep
LEMMA LoopSteps == ASSUME MapInv, LoopWorks PROVE MapInv'
<1> USE DEF Contents
<1>1. UNCHANGED <<bedAlive, act, ladders>> /\ OpenStays
  BY DEF LoopWorks, EggLook, EggLay, Explode, BlastBlocks, OpenStays
<1>2. ASSUME NEW c \in Site, EggLook(c) PROVE MapInv'
  <2>1. Open(c) /\ Harmless
    BY <1>2, AirIsOpen, NothingTouched DEF EggLook
  <2>2. LoopOK'
    BY <1>1, <1>2, <2>1 DEF EggLook, LoopOK, Open
  <2> QED
    BY <1>1, <2>1, <2>2, LoopStep
<1>3. CASE EggLay
  <2>1. PICK c : c = loop.cell
    OBVIOUS
  <2>2. c \in Site /\ Open(c) /\ placed' = placed \cup {c} /\ Puts(c, "wool") /\ Allowed /\ loop' = AtRest
    BY <1>3, <2>1 DEF EggLay, MapInv, LoopOK, Open
  <2>3. Open(c)'
    BY <1>1, <2>2, StillOpen
  <2>4. Touches
    BY <2>2, <2>3 DEF Touches, Puts, MapInv, ArenaTypes, BedStates
  <2>5. Harmless
    BY <1>1, <2>2, <2>3, <2>4, Counting DEF Harmless, MapInv, ArenaTypes
  <2>6. LoopOK'
    BY <2>2 DEF LoopOK, AtRest
  <2> QED
    BY <1>1, <2>5, <2>6, LoopStep
<1>4. ASSUME NEW reach \in SUBSET Site, Explode(reach) PROVE MapInv'
  <2>1. PICK goes : goes = (reach \ BedHalf) \cap placed
    OBVIOUS
  <2>2. placed' = placed \ goes /\ UNCHANGED <<terrain, tally>>
        /\ loop' = IF goes = {} THEN AtRest ELSE [at |-> "blast", cells |-> goes]
    BY <1>4, <2>1 DEF Explode
  <2>3. Harmless
    BY <1>1, <2>2 DEF Harmless, Touches, MapInv, ArenaTypes
  <2>4. \A c \in goes : c \in Site /\ c \notin BedHalf /\ Open(c)'
    BY <1>1, <2>1, StillOpen DEF MapInv, ArenaTypes
  <2>5. LoopOK'
    BY <2>2, <2>4 DEF LoopOK, AtRest, Open
  <2> QED
    BY <1>1, <2>3, <2>5, LoopStep
<1>5. CASE BlastBlocks
  <2>1. \A c \in loop.cells : c \in Site /\ Open(c)
    BY <1>5 DEF BlastBlocks, MapInv, LoopOK
  <2>2. \A c \in loop.cells : Open(c)'
    BY <1>1, <2>1, StillOpen
  <2>3. Touches
    BY <1>5, <2>2 DEF BlastBlocks, Touches, MapInv, ArenaTypes, BedStates
  <2>4. tally' \in [allowed : Nat, drops : Nat]
    BY <1>5, Counting DEF BlastBlocks
  <2>5. Harmless
    BY <1>1, <1>5, <2>3, <2>4 DEF Harmless, BlastBlocks, MapInv, ArenaTypes
  <2>6. LoopOK'
    BY <1>5 DEF LoopOK, AtRest, BlastBlocks
  <2> QED
    BY <1>1, <2>5, <2>6, LoopStep
<1> QED
  BY <1>2, <1>3, <1>4, <1>5 DEF LoopWorks

LEMMA MapHolds == MapInv /\ [ArenaNext]_arenaVars => MapInv'
<1> SUFFICES ASSUME MapInv, [ArenaNext]_arenaVars PROVE MapInv'
  OBVIOUS
<1>1. CASE LoopWorks
  BY <1>1, LoopSteps
<1>2. ASSUME NEW p \in Builder, Digging(p) \/ Placing(p) PROVE MapInv'
  BY <1>2, DiggingSteps, PlacingSteps
<1>3. ASSUME NEW p \in Builder, ReaderWorks(p) PROVE MapInv'
  BY <1>3, AskBreakStep, FellBedStep, BreakBlockStep, MarkPlacedStep, LayStep, PrimeStep,
     MarkTowerStep, BuildStep DEF ReaderWorks
<1>4. CASE UNCHANGED arenaVars
  <2>1. Harmless /\ UNCHANGED <<loop, act>>
    BY <1>4, NothingTouched DEF arenaVars
  <2> QED
    BY <2>1, LoopStays, LoopStep DEF MapInv, Harmless
<1> QED
  BY <1>1, <1>2, <1>3, <1>4 DEF ArenaNext
(***************************************************************************)
(* The account of drops: each placement allowed pays for one drop, which   *)
(* is the mark at first, then with the reader that took the mark or in the *)
(* blast that did, and then dropped.                                       *)
(***************************************************************************)

OffBed == placed \ BedHalf
Lookers == {p \in Builder : act[p].at = "look" /\ act[p].cell \notin BedHalf}
Blasted == IF loop.at = "blast" THEN loop.cells ELSE {}

Budget ==
    tally.drops + Cardinality(OffBed) + Cardinality(Lookers) + Cardinality(Blasted) <= tally.allowed

\* Counting a set with one element more, or one less.
LEMMA AtMostOneMore ==
    ASSUME NEW S, IsFiniteSet(S), NEW x, NEW T, T \subseteq S \cup {x}
    PROVE  IsFiniteSet(T) /\ Cardinality(T) <= Cardinality(S) + 1
<1>0. Cardinality(S) \in Nat
  BY FS_CardinalityType
<1>1. IsFiniteSet(S \cup {x}) /\ Cardinality(S \cup {x}) <= Cardinality(S) + 1
  BY <1>0, FS_AddElement
<1>2. IsFiniteSet(T) /\ Cardinality(T) <= Cardinality(S \cup {x})
  BY <1>1, FS_Subset
<1> QED
  BY <1>1, <1>2, FS_CardinalityType

LEMMA AtLeastOneLess ==
    ASSUME NEW S, IsFiniteSet(S), NEW x \in S, NEW T, T \subseteq S \ {x}
    PROVE  IsFiniteSet(T) /\ Cardinality(T) <= Cardinality(S) - 1
<1>1. IsFiniteSet(S \ {x}) /\ Cardinality(S \ {x}) = Cardinality(S) - 1
  BY FS_RemoveElement
<1>2. IsFiniteSet(T) /\ Cardinality(T) <= Cardinality(S \ {x})
  BY <1>1, FS_Subset
<1> QED
  BY <1>1, <1>2

LEMMA Finite ==
    ASSUME MapInv
    PROVE  /\ IsFiniteSet(OffBed) /\ IsFiniteSet(Lookers) /\ IsFiniteSet(Blasted)
           /\ Cardinality(OffBed) \in Nat /\ Cardinality(Lookers) \in Nat /\ Cardinality(Blasted) \in Nat
           /\ tally.drops \in Nat /\ tally.allowed \in Nat
<1>1. OffBed \subseteq Site /\ Lookers \subseteq Builder /\ Blasted \subseteq Site
  BY DEF MapInv, ArenaTypes, LoopOK, OffBed, Lookers, Blasted
<1>2. IsFiniteSet(OffBed) /\ IsFiniteSet(Lookers) /\ IsFiniteSet(Blasted)
  <2>1. IsFiniteSet(Site) /\ IsFiniteSet(Builder)
    BY ArenaAssumption
  <2>2. \A S, T : IsFiniteSet(S) /\ T \subseteq S => IsFiniteSet(T)
    BY FS_Subset
  <2> QED
    BY <1>1, <2>1, <2>2
<1>3. tally.drops \in Nat /\ tally.allowed \in Nat
  BY DEF MapInv, ArenaTypes
<1> QED
  BY <1>2, <1>3, FS_CardinalityType

LEMMA NoMoreSpent ==
    ASSUME MapInv, MapInv', Budget, UNCHANGED tally,
           OffBed' \subseteq OffBed, Lookers' \subseteq Lookers, Blasted' \subseteq Blasted
    PROVE  Budget'
<1>1. /\ Cardinality(OffBed') <= Cardinality(OffBed) /\ Cardinality(Lookers') <= Cardinality(Lookers)
      /\ Cardinality(Blasted') <= Cardinality(Blasted)
  BY Finite, FS_Subset
<1>2. /\ Cardinality(OffBed') \in Nat /\ Cardinality(Lookers') \in Nat /\ Cardinality(Blasted') \in Nat
  <2>1. IsFiniteSet(OffBed') /\ IsFiniteSet(Lookers') /\ IsFiniteSet(Blasted')
    BY Finite, FS_Subset
  <2> QED
    BY <2>1, FS_CardinalityType
<1> QED
  BY <1>1, <1>2, Finite DEF Budget

\* A reader that does something else takes nobody to look.
LEMMA LooksNoMore ==
    ASSUME MapInv, NEW p \in Builder, NEW a, Acts(p, a), a.at # "look" \/ a.cell \in BedHalf
    PROVE  Lookers' \subseteq Lookers \ {p}
BY DEF Lookers, Acts, MapInv, ArenaTypes

LEMMA AskBreakSpends == ASSUME MapInv, MapInv', Budget, NEW p \in Builder, AskBreak(p) PROVE Budget'
<1>1. PICK a : a = act[p]
  OBVIOUS
<1>2. /\ a.at = "ask" /\ a \in [at : {"ask"}, cell : Site, then : {"look", "prime"}]
      /\ UNCHANGED <<terrain, owner, loop, tally, ladders>>
  BY <1>1 DEF AskBreak, MapInv, ArenaTypes, Deeds
<1>3. Blasted' \subseteq Blasted
  BY <1>2 DEF Blasted
<1>4. PICK b : b = [a EXCEPT !.at = a.then]
  OBVIOUS
<1>5. b.at = a.then /\ b.cell = a.cell
  BY <1>2, <1>4
<1>6. CASE Acts(p, AtRest) /\ UNCHANGED placed
  <2>1. Lookers' \subseteq Lookers
    BY <1>6, LooksNoMore DEF AtRest
  <2> QED
    BY <1>2, <1>3, <1>6, <2>1, NoMoreSpent DEF OffBed
<1>7. CASE a.cell \in BedHalf /\ UNCHANGED placed
           /\ Acts(p, [at |-> "fell", cell |-> a.cell, left |-> BedHalf, then |-> a.then])
  <2>1. Lookers' \subseteq Lookers
    BY <1>7, LooksNoMore
  <2> QED
    BY <1>2, <1>3, <1>7, <2>1, NoMoreSpent DEF OffBed
<1>8. CASE a.cell \in BedHalf /\ UNCHANGED placed /\ Acts(p, b)
  <2>1. Lookers' \subseteq Lookers
    BY <1>5, <1>8, LooksNoMore
  <2> QED
    BY <1>2, <1>3, <1>8, <2>1, NoMoreSpent DEF OffBed
<1>9. CASE a.cell \notin BedHalf /\ TakeMark(a.cell) /\ Acts(p, b)
  <2>1. a.cell \in OffBed /\ OffBed' = OffBed \ {a.cell}
    BY <1>9 DEF TakeMark, OffBed
  <2>2. Cardinality(OffBed') <= Cardinality(OffBed) - 1
    BY <2>1, Finite, AtLeastOneLess
  <2>3. Lookers' \subseteq Lookers \cup {p}
    BY <1>9 DEF Lookers, Acts, MapInv, ArenaTypes
  <2>4. Cardinality(Lookers') <= Cardinality(Lookers) + 1
    BY <2>3, Finite, AtMostOneMore
  <2>5. Blasted' = Blasted
    BY <1>2 DEF Blasted
  <2>6. Cardinality(OffBed') \in Nat /\ Cardinality(Lookers') \in Nat
    <3>1. IsFiniteSet(OffBed') /\ IsFiniteSet(Lookers')
      BY <2>1, <2>3, Finite, AtLeastOneLess, AtMostOneMore
    <3> QED
      BY <3>1, FS_CardinalityType
  <2> QED
    BY <1>2, <2>2, <2>4, <2>5, <2>6, Finite DEF Budget
<1> QED
  BY <1>1, <1>2, <1>4, <1>6, <1>7, <1>8, <1>9 DEF AskBreak
LEMMA BreakBlockSpends == ASSUME MapInv, MapInv', Budget, NEW p \in Builder, BreakBlock(p) PROVE Budget'
<1>1. PICK c : c = act[p].cell
  OBVIOUS
<1>2. /\ act[p].at = "look" /\ Acts(p, AtRest) /\ UNCHANGED <<placed, loop>>
      /\ Dropped(Counted(c)) \/ UNCHANGED tally
  BY <1>1 DEF BreakBlock
<1>3. Lookers' \subseteq Lookers \ {p} /\ OffBed' = OffBed /\ Blasted' = Blasted
  BY <1>2, LooksNoMore DEF OffBed, Blasted, AtRest
<1>4. CASE UNCHANGED tally \/ c \in BedHalf
  <2>1. tally' = tally
    BY <1>2, <1>4 DEF Dropped, Counted, MapInv, ArenaTypes
  <2> QED
    BY <1>3, <2>1, NoMoreSpent
<1>5. CASE c \notin BedHalf /\ Dropped(Counted(c))
  <2>1. p \in Lookers
    BY <1>1, <1>2, <1>5 DEF Lookers
  <2>2. Cardinality(Lookers') <= Cardinality(Lookers) - 1 /\ IsFiniteSet(Lookers')
    BY <1>3, <2>1, Finite, AtLeastOneLess
  <2>3. Cardinality(Lookers') \in Nat
    BY <2>2, FS_CardinalityType
  <2>4. tally'.drops = tally.drops + 1 /\ tally'.allowed = tally.allowed
    BY <1>5 DEF Dropped, Counted, MapInv, ArenaTypes
  <2> QED
    BY <1>3, <2>2, <2>3, <2>4, Finite DEF Budget
<1> QED
  BY <1>2, <1>4, <1>5

\* A placement pays for its mark.
LEMMA MarkIsPaid ==
    ASSUME MapInv, MapInv', Budget, NEW c, placed' = placed \cup {c}, Allowed,
           Lookers' \subseteq Lookers, Blasted' \subseteq Blasted
    PROVE  Budget'
<1>1. Cardinality(OffBed') <= Cardinality(OffBed) + 1 /\ IsFiniteSet(OffBed')
  <2>1. OffBed' \subseteq OffBed \cup {c}
    BY DEF OffBed
  <2> QED
    BY <2>1, Finite, AtMostOneMore
<1>2. /\ Cardinality(Lookers') <= Cardinality(Lookers) /\ IsFiniteSet(Lookers')
      /\ Cardinality(Blasted') <= Cardinality(Blasted) /\ IsFiniteSet(Blasted')
  BY Finite, FS_Subset
<1>3. Cardinality(OffBed') \in Nat /\ Cardinality(Lookers') \in Nat /\ Cardinality(Blasted') \in Nat
  BY <1>1, <1>2, FS_CardinalityType
<1>4. tally'.drops = tally.drops /\ tally'.allowed = tally.allowed + 1
  BY DEF Allowed, MapInv, ArenaTypes
<1> QED
  BY <1>1, <1>2, <1>3, <1>4, Finite DEF Budget

LEMMA MarkPlacedSpends == ASSUME MapInv, MapInv', Budget, NEW p \in Builder, MarkPlaced(p) PROVE Budget'
<1>1. PICK a : a = act[p]
  OBVIOUS
<1>2. /\ a \in [at : {"mark"}, cell : Site, block : {"wool", "tnt", "foot", "head"}]
      /\ placed' = placed \cup {a.cell} /\ Allowed /\ UNCHANGED loop
      /\ Acts(p, [a EXCEPT !.at = "lay"])
  BY <1>1 DEF MarkPlaced, MapInv, ArenaTypes, Deeds
<1>3. [a EXCEPT !.at = "lay"].at = "lay"
  BY <1>2
<1>4. Lookers' \subseteq Lookers /\ Blasted' \subseteq Blasted
  BY <1>2, <1>3, LooksNoMore DEF Blasted
<1> QED
  BY <1>2, <1>4, MarkIsPaid

LEMMA MarkTowerSpends == ASSUME MapInv, MapInv', Budget, NEW p \in Builder, MarkTower(p) PROVE Budget'
<1>1. PICK a : a = act[p]
  OBVIOUS
<1>2. /\ a \in [at : {"raise"}, walls : {{c} : c \in AirCell}, ladder : Site]
      /\ placed' = placed \cup a.walls \cup {a.ladder} /\ UNCHANGED loop
      /\ tally' = [tally EXCEPT !.allowed = @ + 2] /\ Acts(p, [a EXCEPT !.at = "build"])
  BY <1>1 DEF MarkTower, MapInv, ArenaTypes, Deeds
<1>3. [a EXCEPT !.at = "build"].at = "build"
  BY <1>2
<1>4. Lookers' \subseteq Lookers /\ Blasted' = Blasted
  BY <1>2, <1>3, LooksNoMore DEF Blasted
<1>5. PICK c : a.walls = {c}
  BY <1>2
<1>6. Cardinality(OffBed \cup {c}) <= Cardinality(OffBed) + 1 /\ IsFiniteSet(OffBed \cup {c})
  BY Finite, AtMostOneMore
<1>7. Cardinality(OffBed') <= Cardinality(OffBed \cup {c}) + 1 /\ IsFiniteSet(OffBed')
  <2>1. OffBed' \subseteq (OffBed \cup {c}) \cup {a.ladder}
    BY <1>2, <1>5 DEF OffBed
  <2> QED
    BY <1>6, <2>1, AtMostOneMore
<1>8. Cardinality(Lookers') <= Cardinality(Lookers) /\ IsFiniteSet(Lookers')
  BY <1>4, Finite, FS_Subset
<1>9. Cardinality(OffBed') \in Nat /\ Cardinality(OffBed \cup {c}) \in Nat /\ Cardinality(Lookers') \in Nat
  BY <1>6, <1>7, <1>8, FS_CardinalityType
<1>10. tally'.drops = tally.drops /\ tally'.allowed = tally.allowed + 2
  BY <1>2 DEF MapInv, ArenaTypes
<1> QED
  BY <1>4, <1>6, <1>7, <1>8, <1>9, <1>10, Finite DEF Budget

LEMMA LoopSpends == ASSUME MapInv, MapInv', Budget, LoopWorks PROVE Budget'
<1>1. Lookers' = Lookers
  BY DEF LoopWorks, EggLook, EggLay, Explode, BlastBlocks, Lookers
<1>2. ASSUME NEW c \in Site, EggLook(c) PROVE Budget'
  BY <1>1, <1>2, NoMoreSpent DEF EggLook, OffBed, Blasted
<1>3. CASE EggLay
  <2>1. Blasted' \subseteq Blasted
    BY <1>3 DEF EggLay, Blasted, AtRest
  <2> QED
    BY <1>1, <1>3, <2>1, MarkIsPaid DEF EggLay
<1>4. ASSUME NEW reach \in SUBSET Site, Explode(reach) PROVE Budget'
  <2>1. PICK goes : goes = (reach \ BedHalf) \cap placed
    OBVIOUS
  <2>2. placed' = placed \ goes /\ UNCHANGED tally /\ loop.at = "rest"
        /\ loop' = IF goes = {} THEN AtRest ELSE [at |-> "blast", cells |-> goes]
    BY <1>4, <2>1 DEF Explode, AtRest
  <2>3. Blasted = {} /\ Blasted' = goes /\ goes \subseteq OffBed /\ OffBed' = OffBed \ goes
    BY <2>1, <2>2 DEF Blasted, OffBed, AtRest
  <2>4. Cardinality(OffBed \ goes) = Cardinality(OffBed) - Cardinality(OffBed \cap goes)
        /\ OffBed \cap goes = goes /\ Cardinality({}) = 0
    BY <2>3, Finite, FS_Difference, FS_EmptySet
  <2>5. Cardinality(goes) \in Nat
    BY <2>3, Finite, FS_Subset, FS_CardinalityType
  <2>6. Cardinality(OffBed') = Cardinality(OffBed) - Cardinality(goes)
        /\ Cardinality(Blasted) = 0 /\ Cardinality(Blasted') = Cardinality(goes)
        /\ Cardinality(Lookers') = Cardinality(Lookers)
    BY <1>1, <2>3, <2>4
  <2> QED
    BY <2>2, <2>5, <2>6, Finite DEF Budget
<1>5. CASE BlastBlocks
  <2>1. Blasted' = {} /\ Blasted = loop.cells /\ OffBed' = OffBed /\ Cardinality({}) = 0
    BY <1>5, FS_EmptySet DEF BlastBlocks, Blasted, OffBed, AtRest
  <2>2. PICK lost \in SUBSET loop.cells : \E n \in 0..Cardinality(lost) : Dropped(n)
    BY <1>5 DEF BlastBlocks
  <2>3. PICK n \in 0..Cardinality(lost) : Dropped(n)
    BY <2>2
  <2>4. Cardinality(lost) <= Cardinality(Blasted) /\ IsFiniteSet(lost)
    <3>1. IsFiniteSet(loop.cells) /\ lost \subseteq loop.cells
      BY <2>1, <2>2, Finite
    <3> QED
      BY <2>1, <3>1, FS_Subset
  <2>5. Cardinality(lost) \in Nat
    BY <2>4, FS_CardinalityType
  <2>6. tally'.drops = tally.drops + n /\ tally'.allowed = tally.allowed
    BY <2>3 DEF Dropped, MapInv, ArenaTypes
  <2> QED
    BY <1>1, <2>1, <2>3, <2>4, <2>5, <2>6, Finite DEF Budget
<1> QED
  BY <1>2, <1>3, <1>4, <1>5 DEF LoopWorks
LEMMA ReaderSpends ==
    ASSUME MapInv, MapInv', Budget, NEW p \in Builder, Digging(p) \/ Placing(p) \/ ReaderWorks(p)
    PROVE  Budget'
<1>1. CASE AskBreak(p) \/ BreakBlock(p) \/ MarkPlaced(p) \/ MarkTower(p)
  BY <1>1, AskBreakSpends, BreakBlockSpends, MarkPlacedSpends, MarkTowerSpends
<1>2. CASE ~(AskBreak(p) \/ BreakBlock(p) \/ MarkPlaced(p) \/ MarkTower(p))
  <2>1. UNCHANGED <<placed, loop, tally>>
    BY <1>2 DEF Digging, StartDig, CancelDig, FinishDig, Ignite, Placing, StartPlace, StartTower,
                ReaderWorks, FellBed, Lay, PrimeTNT, Build
  <2>2. Lookers' \subseteq Lookers
    <3>1. CASE Digging(p)
      <4>1. \/ Acts(p, AtRest)
            \/ \E c \in Site : Acts(p, [at |-> "dig", cell |-> c])
            \/ \E t \in {"look", "prime"} : \E c : Acts(p, [at |-> "ask", cell |-> c, then |-> t])
        BY <3>1 DEF Digging, StartDig, CancelDig, FinishDig, Ignite
      <4> QED
        BY <4>1, LooksNoMore DEF AtRest
    <3>2. CASE Placing(p)
      <4>1. \/ \E c \in Site, b \in {"wool", "tnt", "foot"} :
                  Acts(p, [at |-> "mark", cell |-> c, block |-> b])
            \/ \E w, l : Acts(p, [at |-> "raise", walls |-> w, ladder |-> l])
        BY <3>2 DEF Placing, StartPlace, StartTower
      <4> QED
        BY <4>1, LooksNoMore
    <3>3. CASE FellBed(p)
      <4>1. PICK a : a = act[p]
        OBVIOUS
      <4>2. a.at = "fell" /\ a.cell \in BedHalf
            /\ a \in [at : {"fell"}, cell : Site, left : SUBSET BedHalf, then : {"look", "prime"}]
        BY <3>3, <4>1 DEF FellBed, MapInv, DeedOK, Deeds
      <4>3. CASE Acts(p, [at |-> a.then, cell |-> a.cell])
        BY <4>2, <4>3, LooksNoMore
      <4>4. ASSUME NEW c \in a.left, Acts(p, [a EXCEPT !.left = @ \ {c}])
            PROVE  Lookers' \subseteq Lookers
        <5>1. [a EXCEPT !.left = @ \ {c}].at = "fell"
          BY <4>2
        <5> QED
          BY <4>4, <5>1, LooksNoMore
      <4> QED
        BY <3>3, <4>1, <4>3, <4>4 DEF FellBed
    <3>4. CASE Lay(p)
      BY <3>4, LooksNoMore DEF Lay, AtRest
    <3>5. CASE PrimeTNT(p) \/ Build(p)
      BY <3>5, LooksNoMore DEF PrimeTNT, Build, AtRest
    <3> QED
      BY <1>2, <3>1, <3>2, <3>3, <3>4, <3>5 DEF ReaderWorks
  <2> QED
    BY <2>1, <2>2, NoMoreSpent DEF OffBed, Blasted
<1> QED
  BY <1>1, <1>2

\* The map and the living bed survive whatever breaks, placements, bridge eggs
\* and explosions do between one another's steps, and no block drops twice: for
\* any map, any number of players, placements and towers (bedWars.OnBlockBreak,
\* OnBlockPlace, explosionBlocks).
THEOREM ArenaIsAccounted == ArenaSpec => []BlocksAccounted
<1>1. ArenaInit => MapInv
  <2> SUFFICES ASSUME ArenaInit PROVE MapInv
    OBVIOUS
  <2>1. act \in [Builder -> Deeds] /\ \A p \in Builder : DeedOK(act[p])
    BY DEF ArenaInit, AtRest, Deeds, DeedOK
  <2>2. \A c \in BedHalf : c \in Site /\ c \notin Stone
    BY ArenaAssumption DEF Site
  <2> QED
    BY <2>1, <2>2 DEF ArenaInit, MapInv, ArenaTypes, MapKept, LoopOK, AtRest, Contents, BedStates, Site
<1>2. ArenaInit => Budget
  <2> SUFFICES ASSUME ArenaInit PROVE Budget
    OBVIOUS
  <2>1. OffBed = {} /\ Lookers = {} /\ Blasted = {} /\ tally.drops = 0 /\ tally.allowed = 0
    BY DEF ArenaInit, OffBed, Lookers, Blasted, AtRest
  <2> QED
    BY <2>1, FS_EmptySet DEF Budget
<1>3. MapInv /\ Budget /\ [ArenaNext]_arenaVars => (MapInv /\ Budget)'
  <2> SUFFICES ASSUME MapInv, Budget, [ArenaNext]_arenaVars PROVE MapInv' /\ Budget'
    OBVIOUS
  <2>1. MapInv'
    BY MapHolds
  <2>2. CASE LoopWorks
    BY <2>1, <2>2, LoopSpends
  <2>3. ASSUME NEW p \in Builder, Digging(p) \/ Placing(p) \/ ReaderWorks(p) PROVE Budget'
    BY <2>1, <2>3, ReaderSpends
  <2>4. CASE UNCHANGED arenaVars
    BY <2>1, <2>4, NoMoreSpent DEF arenaVars, OffBed, Lookers, Blasted
  <2> QED
    BY <2>1, <2>2, <2>3, <2>4 DEF ArenaNext
<1>4. MapInv /\ Budget => BlocksAccounted
  BY Finite DEF MapInv, Budget, BlocksAccounted, DropsArePaid
<1> QED
  BY <1>1, <1>2, <1>3, <1>4, PTL DEF ArenaSpec
-----------------------------------------------------------------------------
(***************************************************************************)
(* Spectators.  What the hooks decide by (the target while Spectate runs,  *)
(* what is watched afterwards) says of the instance a connection is in     *)
(* exactly whether it came there to watch.                                 *)
(***************************************************************************)

Moves == [at : {"free"}]
         \cup [at : {"leave", "left", "join", "hooks"},
               by : {"reader", "spectate", "endgame", "starter"}, to : Insts]
Spects == [at : {"rest"}] \cup [at : {"move", "moving", "note"}, to : ArenaInst]

SpectTypes ==
    /\ inst \in [Client -> Insts \cup {Nowhere}] /\ here \in [Insts -> SUBSET Client]
    /\ told \in [Hook -> [Insts -> SUBSET Client]]
    /\ target \in [Client -> ArenaInst \cup {Nowhere}] /\ watched \in [Client -> ArenaInst \cup {Nowhere}]
    /\ spect \in [Client -> Spects] /\ moving \in [Client -> Moves]
    /\ down \subseteq ArenaInst /\ watcher \subseteq Client

\* Where a connection is in its move, it is in the lists.
InLists(c) ==
    /\ moving[c].at \in {"free", "leave"} => \A i \in Insts : c \in here[i] <=> i = inst[c]
    /\ moving[c].at \in {"left", "join"} => \A i \in Insts : c \notin here[i]
    /\ moving[c].at \in {"join", "hooks"} => inst[c] = moving[c].to
    /\ moving[c].at = "hooks" => \A i \in Insts : c \in here[i] <=> i = inst[c]
    /\ inst[c] = Nowhere => moving[c].at = "free" /\ c \in shut

\* Who moves it, and where to.
MovedBy(c) ==
    /\ moving[c].at # "free" /\ moving[c].by \in {"endgame", "starter"} => moving[c].to \notin ArenaInst
    /\ (moving[c].at # "free" /\ moving[c].by = "spectate") <=> spect[c].at = "moving"
    /\ spect[c].at = "moving" => \/ moving[c].to = spect[c].to
                                 \/ moving[c].to = HubInst /\ spect[c].to \in down
    /\ spect[c].at = "move" => /\ inst[c] # spect[c].to
                               /\ moving[c].at # "free" => moving[c].to # spect[c].to
    /\ spect[c].at = "moving" /\ moving[c].at = "leave" => inst[c] # spect[c].to
    /\ spect[c].at = "note" => /\ moving[c].at = "free"
                               /\ \/ inst[c] = spect[c].to /\ c \in watcher
                                  \/ spect[c].to \in down \/ inst[c] = Nowhere

\* What is watched is where it is, as a watcher, or gone.
Watches(c) ==
    /\ target[c] = IF spect[c].at = "rest" THEN Nowhere ELSE spect[c].to
    /\ watched[c] \notin {Nowhere} \cup down /\ inst[c] # Nowhere
         => moving[c].at \in {"free", "leave", "left"} /\ watched[c] = inst[c]
    /\ moving[c].at \in {"free", "leave"} /\ watched[c] = inst[c] /\ inst[c] # Nowhere => c \in watcher

\* Whom the hooks count.
Told(c) ==
    \A h \in Hook \ broken, i \in Insts :
        c \in told[h][i] <=> c \in here[i] \ watcher /\ moving[c].at # "hooks"

Accounted(c) == InLists(c) /\ MovedBy(c) /\ Watches(c) /\ Told(c)

SpectInv ==
    /\ SpectTypes
    /\ \A i \in down : here[i] = {}
    /\ \A c \in Client : Accounted(c)
\* A step that is not about a connection.
LeavesAlone(d) ==
    /\ UNCHANGED <<inst[d], moving[d], spect[d], target[d], watched[d]>>
    /\ \A i \in Insts : d \in here'[i] <=> d \in here[i]
    /\ \A h \in Hook \ broken', i \in Insts : d \in told'[h][i] <=> d \in told[h][i]
    /\ d \in watcher' <=> d \in watcher
    /\ broken \subseteq broken' /\ shut \subseteq shut' /\ down \subseteq down'

LEMMA TheOthers == ASSUME NEW d \in Client, Accounted(d), LeavesAlone(d) PROVE Accounted(d)'
<1>1. InLists(d)'
  BY DEF Accounted, InLists, LeavesAlone
<1>2. MovedBy(d)'
  BY DEF Accounted, MovedBy, LeavesAlone
<1>3. Watches(d)'
  BY DEF Accounted, Watches, LeavesAlone
<1>4. Told(d)'
  BY DEF Accounted, Told, LeavesAlone
<1> QED
  BY <1>1, <1>2, <1>3, <1>4 DEF Accounted

\* What a move that begins must be like.
LEMMA MoveBegins ==
    ASSUME SpectInv, NEW c \in Client, NEW by \in {"reader", "spectate", "endgame", "starter"},
           NEW to \in Insts, moving[c] = NotMoving, MayMove(c, to), MovesBy(c, by, to),
           UNCHANGED <<inst, here, told, broken, target, watched, shut, down, watcher>>,
           spect' \in [Client -> Spects], \A d \in Client : d # c => spect'[d] = spect[d],
           MovedBy(c)', spect[c].at # "rest" <=> spect'[c].at # "rest",
           spect'[c].at # "rest" => spect'[c].to = spect[c].to
    PROVE  SpectInv'
<1>1. moving' \in [Client -> Moves] /\ moving'[c] = [at |-> "leave", by |-> by, to |-> to]
      /\ \A d \in Client : d # c => moving'[d] = moving[d]
  BY DEF MovesBy, SpectInv, SpectTypes, Moves
<1>2. Accounted(c) /\ moving[c].at = "free" /\ inst[c] # Nowhere
  BY DEF SpectInv, NotMoving, MayMove, Accounted, InLists
<1>3. InLists(c)' /\ Watches(c)' /\ Told(c)'
  BY <1>1, <1>2 DEF Accounted, InLists, Watches, Told
<1>4. ASSUME NEW d \in Client, d # c PROVE Accounted(d)'
  BY <1>1, <1>4, TheOthers DEF SpectInv, LeavesAlone
<1>5. SpectTypes'
  BY <1>1 DEF SpectInv, SpectTypes
<1> QED
  BY <1>3, <1>4, <1>5 DEF SpectInv, Accounted

LEMMA BeginSteps ==
    ASSUME SpectInv, NotedAtOnce, NEW c \in Client,
           \/ \E i \in Insts : Go(c, i) \/ Ferried(c, i)
           \/ SpectateMove(c) \/ \E i \in ArenaInst : SendOff(i, c)
    PROVE  SpectInv'
<1>1. Accounted(c) /\ spect[c] \in Spects /\ spect \in [Client -> Spects] /\ SpectTypes
  BY DEF SpectInv, SpectTypes
<1>2. ASSUME NEW i \in Insts, Go(c, i) PROVE SpectInv'
  <2>1. spect[c].at = "rest" /\ moving[c] = NotMoving /\ MayMove(c, i) /\ MovesBy(c, "reader", i)
        /\ UNCHANGED <<inst, here, told, broken, target, watched, shut, down, watcher, spect>>
    BY <1>2 DEF Go, Reading, StartMove, NotInSpectate
  <2>2. moving'[c] = [at |-> "leave", by |-> "reader", to |-> i]
    BY <1>1, <2>1 DEF MovesBy, SpectTypes
  <2>3. MovedBy(c)'
    BY <2>1, <2>2 DEF MovedBy
  <2> QED
    BY <1>1, <2>1, <2>3, MoveBegins
<1>3. ASSUME NEW i \in Insts, Ferried(c, i) PROVE SpectInv'
  <2>1. moving[c] = NotMoving /\ MayMove(c, i) /\ MovesBy(c, "starter", i) /\ spect[c].at # "note"
        /\ i \notin ArenaInst
        /\ UNCHANGED <<inst, here, told, broken, target, watched, shut, down, watcher, spect>>
    BY <1>3, SpectatingAssumption DEF Ferried, StartMove
  <2>2. moving'[c] = [at |-> "leave", by |-> "starter", to |-> i] /\ moving[c].at = "free"
    BY <1>1, <2>1 DEF MovesBy, SpectTypes, NotMoving
  <2>3. MovedBy(c)'
    BY <1>1, <2>1, <2>2 DEF MovedBy, Accounted, Spects
  <2> QED
    BY <1>1, <2>1, <2>3, MoveBegins
<1>4. CASE SpectateMove(c)
  <2>1. PICK i : i = spect[c].to
    OBVIOUS
  <2>2. /\ spect[c].at = "move" /\ i \in ArenaInst /\ spect[c] = [at |-> "move", to |-> i]
        /\ moving[c] = NotMoving /\ MayMove(c, i) /\ MovesBy(c, "spectate", i)
        /\ spect' = [spect EXCEPT ![c].at = "moving"]
        /\ UNCHANGED <<inst, here, told, broken, target, watched, shut, down, watcher>>
    BY <1>1, <1>4, <2>1 DEF SpectateMove, Spects
  <2>3. moving'[c] = [at |-> "leave", by |-> "spectate", to |-> i]
    BY <1>1, <2>2 DEF MovesBy, SpectTypes
  <2>4. /\ spect' \in [Client -> Spects] /\ spect'[c].at = "moving" /\ spect'[c].to = i
        /\ \A d \in Client : d # c => spect'[d] = spect[d]
    BY <1>1, <2>2 DEF Spects
  <2>5. MovedBy(c)'
    BY <1>1, <2>2, <2>3, <2>4 DEF MovedBy, Accounted
  <2> QED
    BY <1>1, <2>1, <2>2, <2>4, <2>5, MoveBegins DEF Insts
<1>5. ASSUME NEW i \in ArenaInst, SendOff(i, c) PROVE SpectInv'
  <2>1. moving[c] = NotMoving /\ spect[c].at # "note"
        /\ UNCHANGED <<inst, here, told, broken, target, watched, shut, down, watcher, spect>>
    BY <1>5 DEF SendOff
  <2>2. CASE MayMove(c, HubInst) /\ MovesBy(c, "endgame", HubInst)
    <3>1. moving'[c] = [at |-> "leave", by |-> "endgame", to |-> HubInst] /\ moving[c].at = "free"
      BY <1>1, <2>1, <2>2 DEF MovesBy, SpectTypes, NotMoving
    <3>2. MovedBy(c)'
      BY <1>1, <2>1, <3>1, SpectatingAssumption DEF MovedBy, Accounted, Spects
    <3> QED
      BY <1>1, <2>1, <2>2, <3>2, MoveBegins DEF Insts
  <2>3. CASE UNCHANGED moving
    BY <2>1, <2>3, TheOthers DEF SpectInv, SpectTypes, LeavesAlone
  <2> QED
    BY <1>5, <2>2, <2>3 DEF SendOff
<1> QED
  BY <1>2, <1>3, <1>4, <1>5
\* The hooks note a connection that does not watch, or forget it; those that
\* panic are out of the account.
LEMMA HooksFire ==
    ASSUME SpectInv, NEW c \in Client, NEW i \in Insts, NEW panics \in SUBSET Hook,
           NEW joins \in BOOLEAN, Fires(c, i, panics, joins)
    PROVE  /\ told' \in [Hook -> [Insts -> SUBSET Client]] /\ broken' = broken \cup panics
           /\ \A h \in Hook \ broken', j \in Insts :
                /\ \A d \in Client : d # c \/ j # i \/ Watching(c, i) => (d \in told'[h][j] <=> d \in told[h][j])
                /\ ~Watching(c, i) /\ joins => c \in told'[h][i]
                /\ ~Watching(c, i) /\ ~joins => c \notin told'[h][i]
<1>1. told \in [Hook -> [Insts -> SUBSET Client]]
  BY DEF SpectInv, SpectTypes
<1>2. broken' = broken \cup panics
  BY DEF Fires
<1>3. CASE Watching(c, i)
  BY <1>1, <1>2, <1>3 DEF Fires
<1>4. CASE ~Watching(c, i) /\ joins
  BY <1>1, <1>2, <1>4 DEF Fires, Tells
<1>5. CASE ~Watching(c, i) /\ ~joins
  BY <1>1, <1>2, <1>5 DEF Fires, Tells
<1> QED
  BY <1>3, <1>4, <1>5

LEMMA HooksJoin ==
    ASSUME SpectInv, NEW c \in Client, NEW i \in Insts, NEW panics \in SUBSET Hook,
           Fires(c, i, panics, TRUE)
    PROVE  /\ told' \in [Hook -> [Insts -> SUBSET Client]] /\ broken \subseteq broken'
           /\ \A h \in Hook \ broken', j \in Insts :
                /\ \A d \in Client : d # c \/ j # i \/ Watching(c, i) => (d \in told'[h][j] <=> d \in told[h][j])
                /\ ~Watching(c, i) => c \in told'[h][i]
<1>1. told \in [Hook -> [Insts -> SUBSET Client]]
  BY DEF SpectInv, SpectTypes
<1>2. broken' = broken \cup panics
  BY DEF Fires
<1>3. CASE Watching(c, i)
  BY <1>1, <1>2, <1>3 DEF Fires
<1>4. CASE ~Watching(c, i)
  BY <1>1, <1>2, <1>4 DEF Fires, Tells
<1> QED
  BY <1>3, <1>4

LEMMA LeaveStep == ASSUME SpectInv, NEW c \in Client, NEW P \in SUBSET Hook, LeaveInst(c, P) PROVE SpectInv'
<1>1. PICK i : i = inst[c]
  OBVIOUS
<1>2. /\ SpectTypes /\ Accounted(c) /\ moving[c].at = "leave" /\ i \in Insts
      /\ moving[c] \in [at : {"leave"}, by : {"reader", "spectate", "endgame", "starter"}, to : Insts]
      /\ Fires(c, i, P, FALSE) /\ here' = [here EXCEPT ![i] = @ \ {c}]
      /\ moving' = [moving EXCEPT ![c].at = "left"]
      /\ UNCHANGED <<inst, target, watched, spect, mode, shut, down, ending, moves, watcher>>
  <2>1. SpectTypes /\ Accounted(c) /\ moving[c].at = "leave"
    BY DEF LeaveInst, SpectInv
  <2>2. moving[c] \in [at : {"leave"}, by : {"reader", "spectate", "endgame", "starter"}, to : Insts]
    BY <2>1 DEF SpectTypes, Moves
  <2>3. i \in Insts
    BY <1>1, <2>1 DEF SpectTypes, Accounted, InLists
  <2> QED
    BY <1>1, <2>1, <2>2, <2>3 DEF LeaveInst
<1>3. /\ moving' \in [Client -> Moves] /\ moving'[c].at = "left" /\ moving'[c].by = moving[c].by
      /\ moving'[c].to = moving[c].to /\ \A d \in Client : d # c => moving'[d] = moving[d]
  BY <1>2 DEF SpectTypes, Moves
<1>4. /\ told' \in [Hook -> [Insts -> SUBSET Client]] /\ broken \subseteq broken'
      /\ \A h \in Hook \ broken', j \in Insts :
           /\ \A d \in Client : d # c \/ j # i \/ Watching(c, i) => (d \in told'[h][j] <=> d \in told[h][j])
           /\ ~Watching(c, i) => c \notin told'[h][i]
  BY <1>2, HooksFire
<1>5. /\ here' \in [Insts -> SUBSET Client]
      /\ \A j \in Insts : /\ c \notin here'[j]
                          /\ \A d \in Client : d # c => (d \in here'[j] <=> d \in here[j])
  BY <1>1, <1>2 DEF SpectTypes, Accounted, InLists
<1>6. SpectTypes' /\ \A j \in down' : here'[j] = {}
  <2>1. SpectTypes'
    BY <1>2, <1>3, <1>4, <1>5 DEF SpectTypes
  <2>2. \A j \in down' : here'[j] = {}
    BY <1>2, SpectatingAssumption DEF SpectInv, SpectTypes, Insts
  <2> QED
    BY <2>1, <2>2
<1>7. InLists(c)' /\ MovedBy(c)' /\ Watches(c)'
  BY <1>2, <1>3, <1>5 DEF Accounted, InLists, MovedBy, Watches, Watching
<1>8. Told(c)'
  <2>1. Watching(c, i) => c \in watcher
    BY <1>1, <1>2 DEF Accounted, MovedBy, Watches, Watching, SpectTypes, Spects
  <2>2. \A h \in Hook \ broken, j \in Insts : c \in told[h][j] => j = i /\ c \notin watcher
    BY <1>1, <1>2 DEF Accounted, Told, InLists
  <2> QED
    BY <1>4, <1>5, <2>1, <2>2 DEF Told
<1>9. ASSUME NEW d \in Client, d # c PROVE Accounted(d)'
  BY <1>2, <1>3, <1>4, <1>5, <1>9, TheOthers DEF SpectInv, LeavesAlone
<1> QED
  BY <1>6, <1>7, <1>8, <1>9 DEF SpectInv, Accounted

LEMMA SwitchStep == ASSUME SpectInv, NEW c \in Client, Switch(c) PROVE SpectInv'
<1>1. PICK to : to = moving[c].to
  OBVIOUS
<1>2. /\ SpectTypes /\ Accounted(c) /\ moving[c].at = "left" /\ to \in Insts
      /\ moving[c] \in [at : {"left"}, by : {"reader", "spectate", "endgame", "starter"}, to : Insts]
      /\ watched' = EndWatch(c, inst[c]) /\ inst' = [inst EXCEPT ![c] = to]
      /\ moving' = [moving EXCEPT ![c].at = "join"]
      /\ UNCHANGED <<here, told, broken, target, spect, shut, down, ending, moves, watcher>>
  BY <1>1 DEF Switch, SpectInv, SpectTypes, Moves
<1>3. /\ moving' \in [Client -> Moves] /\ moving'[c].at = "join" /\ moving'[c].by = moving[c].by
      /\ moving'[c].to = to /\ \A d \in Client : d # c => moving'[d] = moving[d]
  BY <1>1, <1>2 DEF SpectTypes, Moves
<1>4. /\ inst' \in [Client -> Insts \cup {Nowhere}] /\ inst'[c] = to
      /\ watched' \in [Client -> ArenaInst \cup {Nowhere}]
      /\ watched'[c] = IF watched[c] = inst[c] THEN Nowhere ELSE watched[c]
      /\ \A d \in Client : d # c => inst'[d] = inst[d] /\ watched'[d] = watched[d]
  BY <1>2 DEF SpectTypes, EndWatch
<1>5. SpectTypes'
  BY <1>2, <1>3, <1>4 DEF SpectTypes
<1>6. InLists(c)' /\ Told(c)'
  BY <1>2, <1>3, <1>4, SpectatingAssumption DEF Accounted, InLists, Told
<1>7. MovedBy(c)' /\ Watches(c)'
  BY <1>1, <1>2, <1>3, <1>4, SpectatingAssumption DEF Accounted, InLists, MovedBy, Watches
<1>8. ASSUME NEW d \in Client, d # c PROVE Accounted(d)'
  BY <1>2, <1>3, <1>4, <1>8, TheOthers DEF SpectInv, LeavesAlone
<1> QED
  BY <1>2, <1>5, <1>6, <1>7, <1>8 DEF SpectInv, Accounted

LEMMA JoinListStep == ASSUME SpectInv, NEW c \in Client, JoinList(c) PROVE SpectInv'
<1>1. PICK to : to = moving[c].to
  OBVIOUS
<1>2. /\ SpectTypes /\ Accounted(c) /\ moving[c].at = "join" /\ to \in Insts /\ inst[c] = to
      /\ moving[c] \in [at : {"join"}, by : {"reader", "spectate", "endgame", "starter"}, to : Insts]
      /\ UNCHANGED <<inst, told, broken, target, watched, spect, shut, down, ending, moves, watcher>>
  BY <1>1 DEF JoinList, SpectInv, SpectTypes, Moves, Accounted, InLists
<1>3. CASE to \in down
  <2>1. moving' = [moving EXCEPT ![c] = [at |-> "left", by |-> moving[c].by, to |-> HubInst]] /\ here' = here
    BY <1>1, <1>3 DEF JoinList
  <2>2. /\ moving' \in [Client -> Moves] /\ moving'[c].at = "left" /\ moving'[c].by = moving[c].by
        /\ moving'[c].to = HubInst /\ \A d \in Client : d # c => moving'[d] = moving[d]
    BY <1>2, <2>1 DEF SpectTypes, Moves, Insts
  <2>3. SpectTypes'
    BY <1>2, <2>1, <2>2 DEF SpectTypes
  <2>4. InLists(c)' /\ Told(c)' /\ Watches(c)'
    BY <1>2, <1>3, <2>1, <2>2 DEF Accounted, InLists, Told, Watches
  <2>5. MovedBy(c)'
    BY <1>1, <1>2, <1>3, <2>2, SpectatingAssumption DEF Accounted, MovedBy, SpectTypes, Spects
  <2>6. ASSUME NEW d \in Client, d # c PROVE Accounted(d)'
    BY <1>2, <2>1, <2>2, <2>6, TheOthers DEF SpectInv, LeavesAlone
  <2> QED
    BY <1>2, <2>1, <2>3, <2>4, <2>5, <2>6 DEF SpectInv, Accounted
<1>4. CASE to \notin down
  <2>1. moving' = [moving EXCEPT ![c].at = "hooks"] /\ here' = [here EXCEPT ![to] = @ \cup {c}]
    BY <1>1, <1>4 DEF JoinList
  <2>2. /\ moving' \in [Client -> Moves] /\ moving'[c].at = "hooks" /\ moving'[c].by = moving[c].by
        /\ moving'[c].to = to /\ \A d \in Client : d # c => moving'[d] = moving[d]
    BY <1>1, <1>2, <2>1 DEF SpectTypes, Moves
  <2>3. /\ here' \in [Insts -> SUBSET Client]
        /\ \A j \in Insts : /\ c \in here'[j] <=> j = to
                            /\ \A d \in Client : d # c => (d \in here'[j] <=> d \in here[j])
        /\ \A j \in Insts \ {to} : here'[j] = here[j]
    BY <1>2, <2>1 DEF SpectTypes, Accounted, InLists
  <2>4. SpectTypes' /\ \A j \in down' : here'[j] = {}
    BY <1>2, <1>4, <2>2, <2>3 DEF SpectInv, SpectTypes, Insts
  <2>5. InLists(c)' /\ MovedBy(c)' /\ Watches(c)'
    BY <1>1, <1>2, <2>2, <2>3, SpectatingAssumption DEF Accounted, InLists, MovedBy, Watches
  <2>6. Told(c)'
    BY <1>2, <2>2 DEF Accounted, Told, InLists
  <2>7. ASSUME NEW d \in Client, d # c PROVE Accounted(d)'
    BY <1>2, <2>2, <2>3, <2>7, TheOthers DEF SpectInv, LeavesAlone
  <2> QED
    BY <2>4, <2>5, <2>6, <2>7 DEF SpectInv, Accounted
<1> QED
  BY <1>3, <1>4
LEMMA JoinHooksStep == ASSUME SpectInv, NEW c \in Client, NEW P \in SUBSET Hook, JoinHooks(c, P) PROVE SpectInv'
<1>1. PICK to : to = moving[c].to
  OBVIOUS
<1>2. /\ SpectTypes /\ Accounted(c) /\ moving[c].at = "hooks" /\ to \in Insts /\ inst[c] = to
      /\ moving[c] \in [at : {"hooks"}, by : {"reader", "spectate", "endgame", "starter"}, to : Insts]
      /\ Fires(c, to, P, TRUE) /\ moving' = [moving EXCEPT ![c] = NotMoving]
      /\ spect' = (IF moving[c].by = "spectate" THEN [spect EXCEPT ![c].at = "note"] ELSE spect)
      /\ watcher' = (IF moving[c].by = "spectate" /\ to = spect[c].to
                     THEN watcher \cup {c} ELSE watcher \ {c})
      /\ UNCHANGED <<inst, here, target, watched, mode, shut, down, ending, moves>>
  BY ZenonT(40), <1>1 DEF JoinHooks, SpectInv, SpectTypes, Moves, Accounted, InLists
<1>3. moving' \in [Client -> Moves] /\ moving'[c].at = "free" /\ \A d \in Client : d # c => moving'[d] = moving[d]
  BY <1>2 DEF SpectTypes, Moves, NotMoving
<1>4. /\ told' \in [Hook -> [Insts -> SUBSET Client]] /\ broken \subseteq broken'
      /\ \A h \in Hook \ broken', j \in Insts :
           /\ \A d \in Client : d # c \/ j # to \/ Watching(c, to) => (d \in told'[h][j] <=> d \in told[h][j])
           /\ ~Watching(c, to) => c \in told'[h][to]
  BY <1>2, HooksJoin
<1>5. /\ spect' \in [Client -> Spects] /\ \A d \in Client : d # c => spect'[d] = spect[d]
      /\ spect'[c].at = IF moving[c].by = "spectate" THEN "note" ELSE spect[c].at
      /\ spect[c].at # "rest" => spect'[c].to = spect[c].to
  BY <1>2 DEF SpectTypes, Spects, Accounted, MovedBy
<1>6. SpectTypes'
  BY <1>2, <1>3, <1>4, <1>5 DEF SpectTypes
<1>7. to \notin down
  BY <1>2 DEF SpectInv, Accounted, InLists
<1>8. Watching(c, to) <=> c \in watcher'
  <2>1. watched[c] # to
    BY <1>2, <1>7, SpectatingAssumption DEF Accounted, Watches, SpectTypes
  <2>2. target[c] = to <=> moving[c].by = "spectate" /\ to = spect[c].to
    BY <1>1, <1>2, SpectatingAssumption DEF Accounted, Watches, MovedBy, SpectTypes, Spects
  <2> QED
    BY <1>2, <2>1, <2>2, SpectatingAssumption DEF Watching
<1>9. InLists(c)'
  BY <1>2, <1>3 DEF Accounted, InLists
<1>10. MovedBy(c)'
  BY <1>1, <1>2, <1>3, <1>5 DEF Accounted, MovedBy
<1>11. Watches(c)'
  BY <1>2, <1>3, <1>5, <1>7 DEF Accounted, Watches, MovedBy, SpectTypes
<1>12. Told(c)'
  BY <1>2, <1>3, <1>4, <1>8 DEF Accounted, Told, InLists
<1>13. ASSUME NEW d \in Client, d # c PROVE Accounted(d)'
  BY <1>2, <1>3, <1>4, <1>5, <1>13, TheOthers DEF SpectInv, LeavesAlone
<1> QED
  BY <1>2, <1>6, <1>9, <1>10, <1>11, <1>12, <1>13 DEF SpectInv, Accounted

LEMMA CloseStep == ASSUME SpectInv, NEW c \in Client, NEW P \in SUBSET Hook, CloseSpectator(c, P) PROVE SpectInv'
<1>1. PICK i : i = inst[c]
  OBVIOUS
<1>2. /\ SpectTypes /\ Accounted(c) /\ moving[c].at = "free" /\ i \in Insts /\ c \in shut
      /\ Fires(c, i, P, FALSE) /\ here' = [here EXCEPT ![i] = @ \ {c}]
      /\ inst' = [inst EXCEPT ![c] = Nowhere]
      /\ UNCHANGED <<target, watched, spect, moving, mode, shut, down, ending, moves, watcher>>
  <2>1. SpectTypes /\ Accounted(c)
    BY DEF SpectInv
  <2>2. moving[c].at = "free"
    BY DEF CloseSpectator, NotMoving
  <2>3. i \in Insts
    BY <1>1, <2>1 DEF CloseSpectator, SpectTypes
  <2> QED
    BY <1>1, <2>1, <2>2, <2>3 DEF CloseSpectator
<1>3. inst' \in [Client -> Insts \cup {Nowhere}] /\ inst'[c] = Nowhere
      /\ \A d \in Client : d # c => inst'[d] = inst[d]
  BY <1>2 DEF SpectTypes
<1>4. /\ told' \in [Hook -> [Insts -> SUBSET Client]] /\ broken \subseteq broken'
      /\ \A h \in Hook \ broken', j \in Insts :
           /\ \A d \in Client : d # c \/ j # i \/ Watching(c, i) => (d \in told'[h][j] <=> d \in told[h][j])
           /\ ~Watching(c, i) => c \notin told'[h][i]
  BY <1>2, HooksFire
<1>5. /\ here' \in [Insts -> SUBSET Client]
      /\ \A j \in Insts : /\ c \notin here'[j]
                          /\ \A d \in Client : d # c => (d \in here'[j] <=> d \in here[j])
  BY <1>1, <1>2 DEF SpectTypes, Accounted, InLists
<1>6. SpectTypes' /\ \A j \in down' : here'[j] = {}
  <2>1. SpectTypes'
    BY <1>2, <1>3, <1>4, <1>5 DEF SpectTypes
  <2>2. \A j \in down' : here'[j] = {}
    BY <1>2, SpectatingAssumption DEF SpectInv, SpectTypes, Insts
  <2> QED
    BY <2>1, <2>2
<1>7. InLists(c)' /\ MovedBy(c)' /\ Watches(c)'
  <2>1. InLists(c)'
    BY <1>2, <1>3, <1>5, SpectatingAssumption DEF Accounted, InLists
  <2>2. spect[c].at # "rest" => spect[c].to # Nowhere
    BY <1>2, SpectatingAssumption DEF SpectTypes, Spects, Insts
  <2>3. MovedBy(c)'
    BY <1>2, <1>3, <2>2 DEF Accounted, MovedBy, SpectTypes, Spects
  <2>4. Watches(c)'
    BY <1>2, <1>3 DEF Accounted, Watches
  <2> QED
    BY <2>1, <2>3, <2>4
<1>8. Told(c)'
  <2>1. Watching(c, i) => c \in watcher
    BY <1>1, <1>2 DEF Accounted, MovedBy, Watches, Watching, SpectInv, InLists, SpectTypes, Spects
  <2>2. \A h \in Hook \ broken, j \in Insts : c \in told[h][j] => j = i /\ c \notin watcher
    BY <1>1, <1>2 DEF Accounted, Told, InLists
  <2> QED
    BY <1>4, <1>5, <2>1, <2>2 DEF Told
<1>9. ASSUME NEW d \in Client, d # c PROVE Accounted(d)'
  BY <1>2, <1>3, <1>4, <1>5, <1>9, TheOthers DEF SpectInv, LeavesAlone
<1> QED
  BY <1>6, <1>7, <1>8, <1>9 DEF SpectInv, Accounted

\* Spectate around its move.
LEMMA SpectateSteps ==
    ASSUME SpectInv, NEW c \in Client,
           SpectateFails(c) \/ SpectateNote(c) \/ \E i \in Insts : Spectate(c, i)
    PROVE  SpectInv'
<1>1. Accounted(c) /\ SpectTypes /\ spect[c] \in Spects /\ Nowhere \notin ArenaInst
  BY SpectatingAssumption DEF SpectInv, SpectTypes, Insts
<1>2. ASSUME NEW i \in Insts, Spectate(c, i) PROVE SpectInv'
  <2>1. /\ i \in ArenaInst \ down /\ inst[c] # i /\ spect[c].at = "rest" /\ c \notin shut
        /\ moving[c].at # "free" => moving[c].by # "reader"
        /\ target' = [target EXCEPT ![c] = i] /\ spect' = [spect EXCEPT ![c] = [at |-> "move", to |-> i]]
        /\ UNCHANGED <<inst, here, told, broken, watched, moving, shut, down, watcher>>
    BY <1>2 DEF Spectate, Reading, NotInSpectate, NotMoving
  <2>2. spect' \in [Client -> Spects] /\ spect'[c] = [at |-> "move", to |-> i]
        /\ target' \in [Client -> ArenaInst \cup {Nowhere}] /\ target'[c] = i
        /\ \A d \in Client : d # c => spect'[d] = spect[d] /\ target'[d] = target[d]
    BY <1>1, <2>1 DEF SpectTypes, Spects
  <2>3. moving[c].at # "free" => moving[c].to # i
    BY <1>1, <2>1 DEF Accounted, MovedBy, SpectTypes, Moves
  <2>4. InLists(c)' /\ MovedBy(c)' /\ Watches(c)' /\ Told(c)'
    BY <1>1, <2>1, <2>2, <2>3 DEF Accounted, InLists, MovedBy, Watches, Told
  <2>5. ASSUME NEW d \in Client, d # c PROVE Accounted(d)'
    BY <2>1, <2>2, <2>5, TheOthers DEF SpectInv, LeavesAlone
  <2>6. SpectTypes'
    BY <1>1, <2>1, <2>2 DEF SpectTypes
  <2> QED
    BY <2>1, <2>4, <2>5, <2>6 DEF SpectInv, Accounted
<1>3. ASSUME SpectateFails(c) \/ SpectateNote(c) PROVE SpectInv'
  <2>1. /\ spect[c].at \in {"move", "note"}
        /\ spect[c].at = "move" => moving[c].at = "free" /\ watched' = watched
        /\ spect[c].at = "note" => watched' = [watched EXCEPT ![c] = spect[c].to]
        /\ target' = [target EXCEPT ![c] = Nowhere] /\ spect' = [spect EXCEPT ![c] = NotInSpectate]
        /\ UNCHANGED <<inst, here, told, broken, moving, shut, down, watcher>>
    BY <1>3 DEF SpectateFails, SpectateNote, NotMoving
  <2>2. spect' \in [Client -> Spects] /\ spect'[c].at = "rest"
        /\ target' \in [Client -> ArenaInst \cup {Nowhere}] /\ target'[c] = Nowhere
        /\ watched' \in [Client -> ArenaInst \cup {Nowhere}]
        /\ \A d \in Client : d # c => /\ spect'[d] = spect[d] /\ target'[d] = target[d]
                                      /\ watched'[d] = watched[d]
    BY <1>1, <2>1 DEF SpectTypes, Spects, NotInSpectate
  <2>3. watched'[c] = IF spect[c].at = "note" THEN spect[c].to ELSE watched[c]
    BY <1>1, <2>1 DEF SpectTypes
  <2>4. InLists(c)' /\ MovedBy(c)' /\ Told(c)'
    BY <1>1, <2>1, <2>2 DEF Accounted, InLists, MovedBy, Told
  <2>5. Watches(c)'
    <3>1. \A i \in down : inst[c] = i => moving[c].at # "free"
      BY <1>1 DEF SpectInv, Accounted, InLists, SpectTypes, Insts
    <3> QED
      BY <1>1, <2>1, <2>2, <2>3, <3>1 DEF Accounted, Watches, MovedBy
  <2>6. ASSUME NEW d \in Client, d # c PROVE Accounted(d)'
    BY <2>1, <2>2, <2>6, TheOthers DEF SpectInv, LeavesAlone
  <2>7. SpectTypes'
    BY <1>1, <2>1, <2>2 DEF SpectTypes
  <2> QED
    BY <2>1, <2>4, <2>5, <2>6, <2>7 DEF SpectInv, Accounted
<1> QED
  BY <1>2, <1>3
LEMMA SpectSteps == SpectInv /\ NotedAtOnce /\ [SpectNext]_spectVars => SpectInv'
<1> SUFFICES ASSUME SpectInv, NotedAtOnce, [SpectNext]_spectVars PROVE SpectInv'
  OBVIOUS
<1>1. ASSUME UNCHANGED <<inst, here, told, broken, target, watched, spect, moving, watcher>>,
             shut \subseteq shut', down \subseteq down', down' \subseteq ArenaInst,
             \A i \in down' : here[i] = {}
      PROVE  SpectInv'
  <2>1. SpectTypes'
    BY <1>1 DEF SpectInv, SpectTypes
  <2>2. ASSUME NEW d \in Client PROVE Accounted(d)'
    BY <1>1, TheOthers DEF SpectInv, LeavesAlone
  <2> QED
    BY <1>1, <2>1, <2>2 DEF SpectInv
<1>2. ASSUME NEW c \in Client,
             \/ \E P \in SUBSET Hook : LeaveInst(c, P) \/ JoinHooks(c, P) \/ CloseSpectator(c, P)
             \/ Switch(c) \/ JoinList(c)
      PROVE  SpectInv'
  BY <1>2, LeaveStep, JoinHooksStep, CloseStep, SwitchStep, JoinListStep
<1>3. ASSUME NEW c \in Client,
             \/ \E i \in Insts : Go(c, i) \/ Spectate(c, i) \/ Ferried(c, i)
             \/ SpectateMove(c) \/ SpectateFails(c) \/ SpectateNote(c)
             \/ \E i \in ArenaInst : SendOff(i, c)
      PROVE  SpectInv'
  BY <1>3, BeginSteps, SpectateSteps
<1>4. ASSUME NEW c \in Client, Shut(c) PROVE SpectInv'
  BY <1>1, <1>4 DEF Shut, SpectInv, SpectTypes
<1>5. ASSUME NEW i \in ArenaInst, EndWatchedGame(i) \/ RemoveInst(i) PROVE SpectInv'
  BY <1>1, <1>5 DEF EndWatchedGame, RemoveInst, SpectInv, SpectTypes
<1>6. CASE UNCHANGED spectVars
  BY <1>1, <1>6 DEF spectVars, SpectInv, SpectTypes
<1> QED
  BY <1>2, <1>3, <1>4, <1>5, <1>6 DEF SpectNext

\* Between moves every game, and every plugin whose hooks have not failed,
\* counts the connections that came to play and no watcher, for any number of
\* connections, instances, plugins and moves, as long as a watcher is not moved
\* between Spectate's move and its note (spectate.go, plugins.go).
THEOREM GamesKnow == ASSUME NotedAtOnce PROVE SpectSpec => []GameKnowsItsPlayers
<1>1. SpectInit => SpectInv
  <2> SUFFICES ASSUME SpectInit PROVE SpectInv
    OBVIOUS
  <2>1. SpectTypes
    BY DEF SpectInit, SpectTypes, Insts, Moves, Spects, NotMoving, NotInSpectate
  <2>2. ASSUME NEW c \in Client PROVE Accounted(c)
    BY SpectatingAssumption
       DEF SpectInit, Accounted, InLists, MovedBy, Watches, Told, NotMoving, NotInSpectate, Insts
  <2> QED
    BY <2>1, <2>2 DEF SpectInit, SpectInv
<1>2. SpectInv /\ [SpectNext]_spectVars => SpectInv'
  BY SpectSteps
<1>3. SpectInv => GameKnowsItsPlayers
  BY DEF SpectInv, Accounted, Told, GameKnowsItsPlayers, AtPeace, NotMoving
<1> QED
  BY <1>1, <1>2, <1>3, PTL DEF SpectSpec
-----------------------------------------------------------------------------
(***************************************************************************)
(* World edits.  What an undo needs holds between the steps of a command   *)
(* too: an edit about to be pushed shows the world but for the cells of    *)
(* others, a pushed one leads back to the world it is about to be written  *)
(* into, and an undone one is counted in until it is written.              *)
(***************************************************************************)

\* How a command stands.
ReadCommands == [at : {"read"}, place : Place, life : Nat, changes : Patch]
PushCommands == [at : {"push"}, place : Place, life : Nat, changes : Patch, before : Patch]
WriteCommands == [at : {"set"}, place : Place, life : Nat, changes : Patch, undoes : BOOLEAN]
EditCommands == {NoCommand} \cup ReadCommands \cup PushCommands \cup WriteCommands

EditTypes ==
    /\ corner \in [Editor -> [Which -> SUBSET Cells]]
    /\ clipboard \in [Editor -> {NothingCopied} \cup UNION {[S -> Material] : S \in SUBSET Int}]
    /\ undo \in [Editor -> [Place -> Seq(Patch)]]
    /\ hand \in [Editor -> EditCommands]
    /\ built \in [Place -> [Cells -> Material]]
    /\ life \in [Place -> Nat]
    /\ overwritten \in [Editor -> [Place -> Seq([Cells -> Material])]]
    /\ foreign \in [Editor -> [Place -> SUBSET Cells]]
    /\ edits \in Nat

\* Undoing a stack from a world leads back through others, but for some cells.
Retraces(stack, worlds, now, except) ==
    /\ Len(stack) = Len(worlds)
    /\ \A d \in 1..Len(stack), c \in Cells \ except : Undone(stack, d, c, now[c]) = worlds[d][c]

InCommand(e, i, at) == /\ hand[e] # NoCommand /\ hand[e].at = at
                  /\ hand[e].place = i /\ hand[e].life = life[i]

\* The stack of an editor in an instance, with what the command under way has taken off
\* it or put on it.
Traced(e, i) ==
    IF ~InCommand(e, i, "set") THEN Retraces(undo[e][i], overwritten[e][i], built[i], foreign[e][i])
    ELSE IF hand[e].undoes
    THEN Retraces(Append(undo[e][i], hand[e].changes), overwritten[e][i], built[i], foreign[e][i])
    ELSE /\ undo[e][i] # <<>> /\ DOMAIN undo[e][i][Len(undo[e][i])] = DOMAIN hand[e].changes
         /\ Retraces(undo[e][i], Recent(Append(overwritten[e][i], built[i])), built[i], foreign[e][i])

\* What is about to be pushed is what the world shows.
SeenAsIs(e, i) ==
    InCommand(e, i, "push") =>
        /\ DOMAIN hand[e].before = DOMAIN hand[e].changes
        /\ \A c \in DOMAIN hand[e].before \ foreign[e][i] : hand[e].before[c] = built[i][c]

UndoIsFine(e, i) == Len(undo[e][i]) <= MaxUndo /\ (<<e, i>> \in late \/ (Traced(e, i) /\ SeenAsIs(e, i)))

UndoInv ==
    /\ EditTypes
    /\ \A e \in Editor : hand[e] # NoCommand => hand[e].life <= life[hand[e].place]
    /\ \A e \in Editor, i \in Place : UndoIsFine(e, i)

\* A set of numbers has a least one.
LEMMA FirstOf == ASSUME NEW T \in SUBSET Nat, T # {} PROVE \E k \in T : \A m \in T : k <= m
<1> DEFINE R == {p \in Nat \X Nat : p[1] < p[2]}
<1>1. IsWellFoundedOn(R, Nat)
  BY NatLessThanWellFounded DEF OpToRel
<1>2. T \subseteq Nat /\ T # {}
  OBVIOUS
<1> HIDE DEF R
<1>3. PICK x \in T : \A y \in T : ~(<<y, x>> \in R)
  BY <1>1, <1>2, WFMin
<1>4. \A y \in T : ~(y < x)
  BY <1>3 DEF R
<1> QED
  BY <1>4

\* Of the edits of a stack from the d-th on the k-th is the first of a cell; there is none.
FirstAt(s, d, c, k) == k \in d..Len(s) /\ c \in DOMAIN s[k] /\ \A m \in d..Len(s) : c \in DOMAIN s[m] => k <= m
NoneAt(s, d, c) == \A k \in d..Len(s) : c \notin DOMAIN s[k]

\* What an undone cell holds is what the first edit of it on the stack found there.
LEMMA UndoneIs ==
    ASSUME NEW s, Len(s) \in Nat, NEW d \in Nat, NEW c, NEW w
    PROVE  \/ NoneAt(s, d, c) /\ Undone(s, d, c, w) = w
           \/ ~NoneAt(s, d, c) /\ \E k : FirstAt(s, d, c, k) /\ Undone(s, d, c, w) = s[k][c]
<1> DEFINE at == {k \in d..Len(s) : c \in DOMAIN s[k]}
<1>1. Undone(s, d, c, w) = IF at = {} THEN w ELSE s[CHOOSE k \in at : \A m \in at : k <= m][c]
  BY DEF Undone
<1>2. CASE at = {}
  BY <1>1, <1>2 DEF NoneAt
<1>3. CASE at # {}
  <2>1. at \in SUBSET Nat
    OBVIOUS
  <2>2. \E k \in at : \A m \in at : k <= m
    BY <1>3, <2>1, FirstOf
  <2> DEFINE first == CHOOSE k \in at : \A m \in at : k <= m
  <2>3. first \in at /\ \A m \in at : first <= m
    BY <2>2
  <2>4. Undone(s, d, c, w) = s[first][c]
    BY <1>1, <1>3
  <2> HIDE DEF first
  <2> QED
    BY <2>3, <2>4 DEF FirstAt, NoneAt
<1> QED
  BY <1>2, <1>3

\* A cell the stack has an edit of does not depend on what is there now.
LEMMA UndoneCovered ==
    ASSUME NEW s, NEW d, NEW c, NEW w, NEW v, NEW k \in d..Len(s), c \in DOMAIN s[k]
    PROVE  Undone(s, d, c, w) = Undone(s, d, c, v)
BY DEF Undone

\* Without the oldest edit.
LEMMA UndoneTail ==
    ASSUME NEW s \in Seq(Patch), s # <<>>, NEW d \in 1..Len(s) - 1, NEW c, NEW w
    PROVE  Undone(SubSeq(s, 2, Len(s)), d, c, w) = Undone(s, d + 1, c, w)
<1> DEFINE t == SubSeq(s, 2, Len(s))
<1>1. Len(s) \in Nat /\ d \in Nat /\ d + 1 \in Nat
  OBVIOUS
<1>2. Len(t) = Len(s) - 1 /\ \A k \in 1..Len(s) - 1 : t[k] = s[k + 1]
  OBVIOUS
<1> HIDE DEF t
<1>3. CASE NoneAt(s, d + 1, c)
  <2>1. NoneAt(t, d, c)
    BY <1>1, <1>2, <1>3 DEF NoneAt
  <2>2. Undone(t, d, c, w) = w
    BY <1>1, <1>2, <2>1, UndoneIs
  <2>3. Undone(s, d + 1, c, w) = w
    BY <1>1, <1>3, UndoneIs
  <2> QED
    BY <2>2, <2>3 DEF t
<1>4. CASE ~NoneAt(s, d + 1, c)
  <2>1. PICK k : FirstAt(s, d + 1, c, k) /\ Undone(s, d + 1, c, w) = s[k][c]
    BY <1>1, <1>4, UndoneIs
  <2>2. k - 1 \in d..Len(t) /\ t[k - 1] = s[k] /\ c \in DOMAIN t[k - 1]
    BY <1>1, <1>2, <2>1 DEF FirstAt
  <2>3. ~NoneAt(t, d, c) /\ Len(t) \in Nat
    BY <1>1, <1>2, <2>2 DEF NoneAt
  <2>4. PICK j : FirstAt(t, d, c, j) /\ Undone(t, d, c, w) = t[j][c]
    BY SMTT(20), <1>1, <2>3, UndoneIs
  <2>5. j + 1 \in d + 1..Len(s) /\ t[j] = s[j + 1]
    BY <1>1, <1>2, <2>4 DEF FirstAt
  <2>6. k <= j + 1 /\ j <= k - 1
    BY <1>1, <2>1, <2>2, <2>4, <2>5 DEF FirstAt
  <2>7. k \in Int /\ j \in Int
    BY <1>1, <1>2, <2>1, <2>4 DEF FirstAt
  <2>8. k = j + 1
    BY <2>6, <2>7
  <2> QED
    BY <2>1, <2>4, <2>5, <2>8 DEF t
<1> QED
  BY <1>3, <1>4

\* Taking the last edit off a stack undoes it first.
LEMMA UndoneLast ==
    ASSUME NEW s \in Seq(Patch), NEW p \in Patch, NEW d \in 1..Len(s) + 1, NEW c, NEW w
    PROVE  Undone(Append(s, p), d, c, w) = Undone(s, d, c, IF c \in DOMAIN p THEN p[c] ELSE w)
<1> DEFINE t == Append(s, p)
           v == IF c \in DOMAIN p THEN p[c] ELSE w
<1>1. Len(s) \in Nat /\ d \in Nat
  OBVIOUS
<1>2. Len(t) = Len(s) + 1 /\ t[Len(s) + 1] = p /\ \A k \in 1..Len(s) : t[k] = s[k]
  OBVIOUS
<1> HIDE DEF t
<1>3. CASE ~NoneAt(s, d, c)
  <2>1. PICK k : FirstAt(s, d, c, k) /\ Undone(s, d, c, v) = s[k][c]
    <3>1. ASSUME NEW x PROVE \E k : FirstAt(s, d, c, k) /\ Undone(s, d, c, x) = s[k][c]
      <4>1. Len(s) \in Nat /\ d \in Nat
        BY <1>1
      <4>2. \/ NoneAt(s, d, c) /\ Undone(s, d, c, x) = x
            \/ ~NoneAt(s, d, c) /\ \E k : FirstAt(s, d, c, k) /\ Undone(s, d, c, x) = s[k][c]
        BY <4>1, UndoneIs
      <4> QED
        BY <1>3, <4>2
    <3> QED
      BY <3>1
  <2>2. k \in d..Len(t) /\ t[k] = s[k] /\ c \in DOMAIN t[k]
    <3>1. k \in d..Len(s) /\ c \in DOMAIN s[k]
      BY <2>1 DEF FirstAt
    <3>2. k \in 1..Len(s) /\ k \in d..Len(s) + 1
      BY <1>1, <3>1
    <3>3. t[k] = s[k] /\ Len(t) = Len(s) + 1
      BY <1>2, <3>2
    <3> QED
      BY <3>1, <3>2, <3>3
  <2>3. ~NoneAt(t, d, c) /\ Len(t) \in Nat
    BY <1>1, <1>2, <2>2 DEF NoneAt
  <2>4. PICK j : FirstAt(t, d, c, j) /\ Undone(t, d, c, w) = t[j][c]
    BY <1>1, <2>3, UndoneIs
  <2>5. j <= k /\ j \in d..Len(s) /\ t[j] = s[j]
    BY <1>1, <1>2, <2>1, <2>2, <2>4 DEF FirstAt
  <2>6. k <= j
    BY <1>1, <2>1, <2>4, <2>5 DEF FirstAt
  <2>7. k = j
    BY <1>1, <2>1, <2>5, <2>6 DEF FirstAt
  <2> QED
    BY <2>1, <2>4, <2>5, <2>7 DEF t
<1>4. CASE NoneAt(s, d, c)
  <2>1. Undone(s, d, c, v) = v
    BY <1>1, <1>4, UndoneIs
  <2>2. CASE c \in DOMAIN p
    <3>1. ~NoneAt(t, d, c) /\ Len(t) \in Nat
      BY <1>1, <1>2, <2>2 DEF NoneAt
    <3>2. PICK j : FirstAt(t, d, c, j) /\ Undone(t, d, c, w) = t[j][c]
      BY <1>1, <3>1, UndoneIs
    <3>3. j = Len(s) + 1
      BY <1>1, <1>2, <1>4, <3>2 DEF FirstAt, NoneAt
    <3> QED
      BY <1>2, <2>1, <2>2, <3>2, <3>3 DEF t
  <2>3. CASE c \notin DOMAIN p
    <3>1. NoneAt(t, d, c) /\ Len(t) \in Nat
      BY <1>1, <1>2, <1>4, <2>3 DEF NoneAt
    <3>2. Undone(t, d, c, w) = w
      BY <1>1, <3>1, UndoneIs
    <3> QED
      BY <2>1, <2>3, <3>2 DEF t
  <2> QED
    BY <2>2, <2>3
<1> QED
  BY <1>3, <1>4

RowWorlds == [Cells -> Material]

\* An empty stack leads nowhere.
LEMMA NothingRetraces == ASSUME NEW now, NEW except PROVE Retraces(<<>>, <<>>, now, except)
BY DEF Retraces

\* What was read from the world is pushed.
LEMMA PushRetraces ==
    ASSUME NEW s \in Seq(Patch), NEW o \in Seq(RowWorlds), NEW now \in RowWorlds, NEW p \in Patch, NEW except,
           Retraces(s, o, now, except), \A c \in (DOMAIN p) \ except : p[c] = now[c]
    PROVE  Retraces(Append(s, p), Append(o, now), now, except)
<1> DEFINE t == Append(s, p)
           q == Append(o, now)
<1>1. /\ Len(s) \in Nat /\ Len(o) = Len(s)
      /\ \A d \in 1..Len(s), c \in Cells \ except : Undone(s, d, c, now[c]) = o[d][c]
  BY DEF Retraces
<1>2. Len(t) = Len(s) + 1 /\ Len(q) = Len(s) + 1 /\ q[Len(s) + 1] = now /\ \A d \in 1..Len(s) : q[d] = o[d]
  BY <1>1
<1>3. ASSUME NEW d \in 1..Len(s) + 1, NEW c \in Cells \ except PROVE Undone(t, d, c, now[c]) = Undone(s, d, c, now[c])
  <2>1. Undone(t, d, c, now[c]) = Undone(s, d, c, IF c \in DOMAIN p THEN p[c] ELSE now[c])
    BY UndoneLast
  <2>2. (IF c \in DOMAIN p THEN p[c] ELSE now[c]) = now[c]
    OBVIOUS
  <2> QED
    BY <2>1, <2>2
<1> HIDE DEF t, q
<1>4. ASSUME NEW d \in 1..Len(s) + 1, NEW c \in Cells \ except PROVE Undone(t, d, c, now[c]) = q[d][c]
  <2>1. CASE d \in 1..Len(s)
    BY <1>1, <1>2, <1>3, <2>1
  <2>2. CASE d = Len(s) + 1
    <3>1. NoneAt(s, d, c) /\ d \in Nat
      BY <1>1, <2>2 DEF NoneAt
    <3>2. Undone(s, d, c, now[c]) = now[c]
      BY <1>1, <3>1, UndoneIs
    <3> QED
      BY <1>2, <1>3, <2>2, <3>2
  <2> QED
    BY <1>1, <2>1, <2>2
<1> QED
  BY <1>1, <1>2, <1>4 DEF Retraces, t, q

\* The oldest edit is let go of.
LEMMA DropRetraces ==
    ASSUME NEW s \in Seq(Patch), NEW o \in Seq(RowWorlds), NEW now, NEW except,
           s # <<>>, Retraces(s, o, now, except)
    PROVE  Retraces(SubSeq(s, 2, Len(s)), SubSeq(o, 2, Len(o)), now, except)
<1> DEFINE t == SubSeq(s, 2, Len(s))
           q == SubSeq(o, 2, Len(o))
<1>1. /\ Len(s) \in Nat \ {0} /\ Len(o) = Len(s)
      /\ \A d \in 1..Len(s), c \in Cells \ except : Undone(s, d, c, now[c]) = o[d][c]
  BY DEF Retraces
<1>2. Len(t) = Len(s) - 1 /\ Len(q) = Len(s) - 1 /\ \A d \in 1..Len(s) - 1 : q[d] = o[d + 1]
  BY <1>1
<1>3. \A d \in 1..Len(s) - 1, c \in Cells : Undone(t, d, c, now[c]) = Undone(s, d + 1, c, now[c])
  BY UndoneTail
<1> HIDE DEF t, q
<1>4. \A d \in 1..Len(s) - 1 : d + 1 \in 1..Len(s)
  BY <1>1
<1>5. \A d \in 1..Len(t), c \in Cells \ except : Undone(t, d, c, now[c]) = q[d][c]
  BY <1>1, <1>2, <1>3, <1>4
<1> QED
  BY <1>2, <1>5 DEF Retraces, t, q

\* The cells of the last edit are written.
LEMMA WriteRetraces ==
    ASSUME NEW s \in Seq(Patch), NEW o, NEW now, NEW then, NEW except,
           s # <<>>, Retraces(s, o, now, except),
           \A c \in Cells \ DOMAIN s[Len(s)] : then[c] = now[c]
    PROVE  Retraces(s, o, then, except)
<1>1. Len(s) \in Nat \ {0}
  OBVIOUS
<1>2. ASSUME NEW d \in 1..Len(s), NEW c \in Cells \ except
      PROVE  Undone(s, d, c, then[c]) = Undone(s, d, c, now[c])
  <2>1. CASE c \in DOMAIN s[Len(s)]
    <3>1. Len(s) \in d..Len(s)
      BY <1>1
    <3> QED
      BY <2>1, <3>1, UndoneCovered
  <2>2. CASE c \notin DOMAIN s[Len(s)]
    <3>1. then[c] = now[c]
      BY <2>2
    <3> QED
      BY <3>1
  <2> QED
    BY <2>1, <2>2
<1> QED
  BY <1>2 DEF Retraces

\* What an edit found is written over a world.
WrittenOver(now, p, then) ==
    (\A c \in Cells \cap DOMAIN p : then[c] = p[c]) /\ (\A c \in Cells \ DOMAIN p : then[c] = now[c])

\* The last edit, off the stack, is written back.
LEMMA UndoRetraces ==
    ASSUME NEW s \in Seq(Patch), NEW o \in Seq(RowWorlds), NEW now, NEW then, NEW except, NEW p \in Patch,
           Retraces(Append(s, p), o, now, except),
           WrittenOver(now, p, then)
    PROVE  Retraces(s, SubSeq(o, 1, Len(o) - 1), then, except)
<1> DEFINE q == SubSeq(o, 1, Len(o) - 1)
<1>1. Len(s) \in Nat /\ Len(Append(s, p)) = Len(s) + 1
  OBVIOUS
<1>2. /\ Len(o) = Len(s) + 1
      /\ \A d \in 1..Len(s) + 1, c \in Cells \ except : Undone(Append(s, p), d, c, now[c]) = o[d][c]
  BY <1>1 DEF Retraces
<1>3. Len(q) = Len(s) /\ \A d \in 1..Len(s) : q[d] = o[d]
  BY <1>1, <1>2
<1> HIDE DEF q
<1>4. ASSUME NEW d \in 1..Len(s), NEW c \in Cells \ except PROVE Undone(s, d, c, then[c]) = q[d][c]
  <2>1. d \in 1..Len(s) + 1
    BY <1>1
  <2>2. Undone(Append(s, p), d, c, now[c]) = Undone(s, d, c, IF c \in DOMAIN p THEN p[c] ELSE now[c])
    BY <2>1, UndoneLast
  <2>3. then[c] = IF c \in DOMAIN p THEN p[c] ELSE now[c]
    BY DEF WrittenOver
  <2> QED
    BY <1>2, <1>3, <2>1, <2>2, <2>3
<1> QED
  BY <1>3, <1>4 DEF Retraces, q

\* Somebody else's change.
LEMMA OtherRetraces ==
    ASSUME NEW s, NEW o, NEW now, NEW then, NEW except, NEW more,
           Retraces(s, o, now, except), except \subseteq more,
           \A c \in Cells \ more : then[c] = now[c]
    PROVE  Retraces(s, o, then, more)
<1>1. \A c \in Cells \ more : c \in Cells \ except /\ then[c] = now[c]
  OBVIOUS
<1> QED
  BY <1>1 DEF Retraces

\* How many worlds are let go of when one is added.
LetGo(o) == IF Len(o) + 1 > MaxUndo THEN 1 ELSE 0

\* Of the worlds as many are kept as of the edits.
LEMMA RecentIs ==
    ASSUME NEW o \in Seq(RowWorlds), NEW now \in RowWorlds
    PROVE  /\ LetGo(o) \in {0, 1} /\ Recent(Append(o, now)) \in Seq(RowWorlds)
           /\ Len(Recent(Append(o, now))) = Len(o) + 1 - LetGo(o)
           /\ \A d \in 1..Len(o) + 1 - LetGo(o) : Recent(Append(o, now))[d] = Append(o, now)[d + LetGo(o)]
<1> DEFINE q == Append(o, now)
           m == LetGo(o)
<1>1. q \in Seq(RowWorlds) /\ Len(q) = Len(o) + 1 /\ Len(o) \in Nat
  OBVIOUS
<1>2. Recent(q) = SubSeq(q, m + 1, Len(q)) /\ m \in {0, 1}
  BY <1>1 DEF Recent, LetGo
<1> HIDE DEF q, m
<1>3. /\ SubSeq(q, m + 1, Len(q)) \in Seq(RowWorlds) /\ Len(SubSeq(q, m + 1, Len(q))) = Len(q) - m
      /\ \A d \in 1..Len(q) - m : SubSeq(q, m + 1, Len(q))[d] = q[d + m]
  BY <1>1, <1>2
<1>4. /\ m \in {0, 1} /\ Recent(q) \in Seq(RowWorlds) /\ Len(Recent(q)) = Len(o) + 1 - m
      /\ \A d \in 1..Len(o) + 1 - m : Recent(q)[d] = q[d + m]
  BY <1>1, <1>2, <1>3
<1> QED
  BY <1>4 DEF q, m

\* Somebody else's change between an edit's push and its writing.
LEMMA OtherRetracesRecent ==
    ASSUME NEW s, NEW o \in Seq(RowWorlds), NEW now \in RowWorlds, NEW then \in RowWorlds, NEW except, NEW more,
           Retraces(s, Recent(Append(o, now)), now, except), except \subseteq more,
           \A c \in Cells \ more : then[c] = now[c]
    PROVE  Retraces(s, Recent(Append(o, then)), then, more)
<1> DEFINE m == LetGo(o)
           q == Recent(Append(o, now))
           r == Recent(Append(o, then))
<1>1. Retraces(s, q, then, more)
  BY OtherRetraces
<1>2. Len(o) \in Nat /\ m \in {0, 1}
  BY RecentIs
<1>3. Len(q) = Len(o) + 1 - m /\ \A d \in 1..Len(o) + 1 - m : q[d] = Append(o, now)[d + m]
  BY RecentIs
<1>4. Len(r) = Len(o) + 1 - m /\ \A d \in 1..Len(o) + 1 - m : r[d] = Append(o, then)[d + m]
  BY RecentIs
<1>5. ASSUME NEW d \in 1..Len(o) + 1
      PROVE  (Append(o, now)[d] = Append(o, then)[d]) \/ (Append(o, now)[d] = now /\ Append(o, then)[d] = then)
  BY <1>2
<1> HIDE DEF m, q, r
<1>6. \A d \in 1..Len(q) : d + m \in 1..Len(o) + 1
  BY <1>2, <1>3
<1>7. ASSUME NEW d \in 1..Len(q), NEW c \in Cells \ more PROVE r[d][c] = q[d][c]
  <2>1. r[d] = q[d] \/ (r[d] = then /\ q[d] = now)
    BY <1>3, <1>4, <1>5, <1>6, <1>7
  <2>2. then[c] = now[c]
    OBVIOUS
  <2> QED
    BY <2>1, <2>2
<1> QED
  BY <1>1, <1>3, <1>4, <1>7 DEF Retraces, r

\* A push onto a full stack lets go of the oldest edit.
LEMMA LastOnesIs ==
    ASSUME NEW s \in Seq(Patch), NEW p \in Patch, Len(s) <= MaxUndo
    PROVE  LET t == LastOnes(Append(s, p))
           IN  /\ t \in Seq(Patch) /\ Len(t) <= MaxUndo /\ t # <<>> /\ t[Len(t)] = p
               /\ t = IF Len(s) + 1 > MaxUndo THEN SubSeq(Append(s, p), 2, Len(Append(s, p))) ELSE Append(s, p)
<1> DEFINE q == Append(s, p)
<1>1. q \in Seq(Patch) /\ Len(q) = Len(s) + 1 /\ Len(s) \in Nat /\ q[Len(s) + 1] = p /\ MaxUndo \in Nat \ {0}
  BY EditAssumption
<1> HIDE DEF q
<1>2. CASE Len(s) + 1 > MaxUndo
  <2>1. Len(q) > MaxUndo /\ Len(q) - MaxUndo + 1 = 2 /\ Len(q) = MaxUndo + 1
    BY <1>1, <1>2
  <2>2. LastOnes(q) = SubSeq(q, 2, Len(q))
    BY <2>1 DEF LastOnes
  <2>3. /\ SubSeq(q, 2, Len(q)) \in Seq(Patch) /\ Len(SubSeq(q, 2, Len(q))) = MaxUndo
        /\ SubSeq(q, 2, Len(q))[MaxUndo] = q[MaxUndo + 1]
    BY <1>1, <2>1
  <2>4. SubSeq(q, 2, Len(q)) # <<>>
    BY <1>1, <2>3
  <2> QED
    BY <1>1, <1>2, <2>1, <2>2, <2>3, <2>4 DEF q
<1>3. CASE ~(Len(s) + 1 > MaxUndo)
  <2>1. LastOnes(q) = SubSeq(q, 1, Len(q))
    BY <1>1, <1>3 DEF LastOnes
  <2>2. SubSeq(q, 1, Len(q)) = q
    BY <1>1
  <2>3. q # <<>>
    BY <1>1
  <2> QED
    BY <1>1, <1>3, <2>1, <2>2, <2>3 DEF q
<1> QED
  BY <1>2, <1>3

\* A push, on a full stack or not.
LEMMA PushTraces ==
    ASSUME NEW s \in Seq(Patch), NEW o \in Seq(RowWorlds), NEW now \in RowWorlds, NEW p \in Patch, NEW except,
           Len(s) <= MaxUndo, Retraces(s, o, now, except), \A c \in (DOMAIN p) \ except : p[c] = now[c]
    PROVE  Retraces(LastOnes(Append(s, p)), Recent(Append(o, now)), now, except)
<1> DEFINE t == Append(s, p)
           q == Append(o, now)
<1>1. t \in Seq(Patch) /\ q \in Seq(RowWorlds) /\ t # <<>> /\ Len(s) = Len(o) /\ Len(q) = Len(o) + 1 /\ Len(s) \in Nat
  BY DEF Retraces
<1>2. Retraces(t, q, now, except)
  BY PushRetraces
<1>3. LastOnes(t) = IF Len(s) + 1 > MaxUndo THEN SubSeq(t, 2, Len(t)) ELSE t
  BY LastOnesIs
<1> HIDE DEF t, q
<1>4. Recent(q) = IF Len(s) + 1 > MaxUndo THEN SubSeq(q, 2, Len(q)) ELSE q
  BY <1>1 DEF Recent
<1>5. Retraces(SubSeq(t, 2, Len(t)), SubSeq(q, 2, Len(q)), now, except)
  BY <1>1, <1>2, DropRetraces
<1> QED
  BY <1>2, <1>3, <1>4, <1>5 DEF t, q

\* A pair of editor and instance that a step does not touch.
LEMMA FineStays ==
    ASSUME NEW e, NEW i, UndoIsFine(e, i), late \subseteq late',
           undo'[e][i] = undo[e][i], overwritten'[e][i] = overwritten[e][i], built'[i] = built[i],
           life'[i] = life[i], foreign'[e][i] = foreign[e][i],
           hand'[e] = hand[e] \/ (~InCommand(e, i, "set") /\ ~InCommand(e, i, "set")' /\ ~InCommand(e, i, "push")')
    PROVE  UndoIsFine(e, i)'
BY DEF UndoIsFine, Traced, SeenAsIs, InCommand

\* One action after another: a command that begins ...
LEMMA StartsKeeps ==
    ASSUME UndoInv, NEW e \in Editor, NEW i \in Place, NEW changes \in Patch, hand[e] = NoCommand, Starts(e, i, changes)
    PROVE  UndoInv'
<1>1. /\ EditTypes /\ (\A f \in Editor : hand[f] # NoCommand => hand[f].life <= life[hand[f].place])
      /\ \A f \in Editor, j \in Place : UndoIsFine(f, j)
      /\ UNCHANGED <<corner, clipboard, undo, built, life, overwritten, foreign, late>> /\ edits' = edits + 1
      /\ hand' = [hand EXCEPT ![e] = IF DOMAIN changes = {} THEN NoCommand
                   ELSE [at |-> "read", place |-> i, life |-> life[i], changes |-> changes]]
  BY DEF UndoInv, Starts
<1>2. life[i] \in Nat
  BY <1>1 DEF EditTypes
<1>3. [at |-> "read", place |-> i, life |-> life[i], changes |-> changes] \in ReadCommands
  BY <1>2 DEF ReadCommands
<1>4. hand' \in [Editor -> EditCommands]
  BY <1>1, <1>3 DEF EditTypes, EditCommands
<1>5. /\ \A f \in Editor \ {e} : hand'[f] = hand[f]
      /\ hand'[e] = NoCommand \/ hand'[e] = [at |-> "read", place |-> i, life |-> life[i], changes |-> changes]
  BY <1>1 DEF EditTypes
<1>6. EditTypes'
  BY <1>1, <1>4 DEF EditTypes
<1>7. \A f \in Editor : hand'[f] # NoCommand => hand'[f].life <= life'[hand'[f].place]
  BY <1>1, <1>2, <1>5
<1>8. ASSUME NEW f \in Editor, NEW j \in Place PROVE UndoIsFine(f, j)'
  <2>1. hand'[f] = hand[f] \/ (~InCommand(f, j, "set") /\ ~InCommand(f, j, "set")' /\ ~InCommand(f, j, "push")')
    BY <1>5 DEF InCommand
  <2> QED
    BY <1>1, <2>1, FineStays
<1> QED
  BY <1>6, <1>7, <1>8 DEF UndoInv

\* A command that changes none of what the undo stacks are about.
LEMMA AsideKeeps ==
    ASSUME UndoInv, EditTypes', UNCHANGED <<undo, hand, built, life, overwritten, foreign, late>>
    PROVE  UndoInv'
<1>1. \A f \in Editor, j \in Place : UndoIsFine(f, j)'
  BY FineStays DEF UndoInv
<1> QED
  BY <1>1 DEF UndoInv

\* What a command does to some cells is an edit.
LEMMA PatchIs == ASSUME NEW S \in SUBSET Cells, NEW f \in [S -> Material] PROVE f \in Patch
BY DEF Patch

\* ... a corner ...
LEMMA SetCornerKeeps ==
    ASSUME UndoInv, NEW e \in Editor, NEW w \in Which, NEW c \in Cells, SetCorner(e, w, c) PROVE UndoInv'
<1>1. EditTypes'
  BY DEF UndoInv, EditTypes, SetCorner
<1> QED
  BY <1>1, AsideKeeps DEF SetCorner

\* What is selected is in the world.
LEMMA SelectionIn == ASSUME NEW e PROVE Selection(e) \in SUBSET Cells
BY DEF Selection

\* ... the commands, an edit pasted or replaced being one of the world ...
LEMMA CommandsKeep ==
    ASSUME UndoInv, NEW e \in Editor, NEW i \in Place,
           \/ \E b \in Material : SetCommand(e, i, b)
           \/ \E from, to \in Material : ReplaceCommand(e, i, from, to)
           \/ \E feet \in Cells : CopyCommand(e, i, feet) \/ PasteCommand(e, i, feet)
    PROVE  UndoInv'
<1>1. CASE \E b \in Material : SetCommand(e, i, b)
  <2>1. PICK b \in Material : SetCommand(e, i, b)
    BY <1>1
  <2>2. [c \in Selection(e) |-> b] \in Patch
    BY SelectionIn, PatchIs
  <2> QED
    BY <2>1, <2>2, StartsKeeps DEF SetCommand
<1>2. CASE \E from, to \in Material : ReplaceCommand(e, i, from, to)
  <2>1. PICK from \in Material, to \in Material : ReplaceCommand(e, i, from, to)
    BY <1>2
  <2> DEFINE S == {x \in Selection(e) : KindOf[built[i][x]] = KindOf[from]}
  <2>2. S \in SUBSET Cells
    BY SelectionIn
  <2>3. [c \in S |-> to] \in Patch
    BY <2>2, PatchIs
  <2> QED
    BY <2>1, <2>3, StartsKeeps DEF ReplaceCommand
<1>3. ASSUME NEW feet \in Cells, CopyCommand(e, i, feet) PROVE UndoInv'
  <2> DEFINE S == {c - feet : c \in Selection(e)}
             copy == [o \in S |-> built[i][feet + o]]
  <2>1. feet \in Int /\ Selection(e) \in SUBSET Cells /\ Cells \subseteq Int /\ built[i] \in [Cells -> Material]
    BY SelectionIn, EditAssumption DEF UndoInv, EditTypes
  <2>2. S \in SUBSET Int /\ \A o \in S : feet + o \in Cells
    <3>1. ASSUME NEW c \in Selection(e) PROVE c \in Cells /\ c - feet \in Int /\ feet + (c - feet) = c
      <4>1. c \in Cells /\ c \in Int /\ feet \in Int
        BY <2>1
      <4>2. c - feet \in Int /\ feet + (c - feet) = c
        BY ONLY <4>1
      <4> QED
        BY <4>1, <4>2
    <3> QED
      BY <3>1
  <2>3. copy \in [S -> Material]
    BY <2>1, <2>2
  <2>4. clipboard' = [clipboard EXCEPT ![e] = copy]
        /\ UNCHANGED <<corner, undo, hand, built, life, edits, overwritten, foreign, late>>
    BY <1>3 DEF CopyCommand
  <2> HIDE DEF copy, S
  <2>5. copy \in {NothingCopied} \cup UNION {[R -> Material] : R \in SUBSET Int}
    BY <2>2, <2>3
  <2>6. clipboard \in [Editor -> {NothingCopied} \cup UNION {[R -> Material] : R \in SUBSET Int}]
    BY DEF UndoInv, EditTypes
  <2>7. clipboard' \in [Editor -> {NothingCopied} \cup UNION {[R -> Material] : R \in SUBSET Int}]
    BY <2>4, <2>5, <2>6
  <2>8. EditTypes'
    BY <2>4, <2>7 DEF UndoInv, EditTypes
  <2> QED
    BY <2>4, <2>8, AsideKeeps
<1>4. ASSUME NEW feet \in Cells, PasteCommand(e, i, feet) PROVE UndoInv'
  <2> DEFINE R == DOMAIN clipboard[e]
             S == {feet + o : o \in R}
             changes == [c \in S |-> clipboard[e][c - feet]]
  <2>1. feet \in Int /\ S \in SUBSET Cells /\ Cells \subseteq Int
    BY <1>4, EditAssumption DEF PasteCommand
  <2>2. clipboard[e] \in UNION {[T -> Material] : T \in SUBSET Int}
    BY <1>4 DEF UndoInv, EditTypes, PasteCommand
  <2>3. R \in SUBSET Int /\ clipboard[e] \in [R -> Material]
    BY <2>2
  <2>4. \A c \in S : c - feet \in R
    BY <2>1, <2>3
  <2>5. changes \in [S -> Material]
    BY <2>3, <2>4
  <2>6. changes \in Patch
    BY <2>1, <2>5, PatchIs
  <2> QED
    BY <1>4, <2>6, StartsKeeps DEF PasteCommand
<1> QED
  BY <1>1, <1>2, <1>3, <1>4

\* ... what they will overwrite ...
LEMMA OverwritesKeeps == ASSUME UndoInv, NEW e \in Editor, hand[e] # NoCommand, Overwrites(e) PROVE UndoInv'
<1> DEFINE h == hand[e]
           i == hand[e].place
           now == IF hand[e].life = life[i] THEN built[i] ELSE [c \in Cells |-> Air]
           before == [c \in DOMAIN h.changes |-> now[c]]
           next == [at |-> "push", place |-> i, life |-> h.life, changes |-> h.changes, before |-> before]
<1>1. /\ EditTypes /\ (\A f \in Editor : hand[f] # NoCommand => hand[f].life <= life[hand[f].place])
      /\ (\A f \in Editor, j \in Place : UndoIsFine(f, j)) /\ h.at = "read"
      /\ UNCHANGED <<corner, clipboard, undo, built, life, edits, overwritten, foreign, late>>
      /\ hand' = [hand EXCEPT ![e] = next]
  BY DEF UndoInv, Overwrites
<1>2. h \in ReadCommands
  BY <1>1 DEF EditTypes, EditCommands, ReadCommands, PushCommands, WriteCommands
<1>3. i \in Place /\ h.life \in Nat /\ h.changes \in Patch
  BY <1>2 DEF ReadCommands
<1>4. now \in [Cells -> Material]
  BY <1>1, <1>3, EditAssumption DEF EditTypes
<1>5. before \in Patch
  <2>1. PICK S \in SUBSET Cells : h.changes \in [S -> Material]
    BY <1>3 DEF Patch
  <2> HIDE DEF now
  <2>2. before \in [S -> Material]
    BY <1>4, <2>1
  <2> QED
    BY <2>2, PatchIs
<1> HIDE DEF before
<1>6. next \in PushCommands
  BY <1>3, <1>5 DEF PushCommands
<1>7. hand' \in [Editor -> EditCommands] /\ hand'[e] = next /\ \A f \in Editor \ {e} : hand'[f] = hand[f]
  <2> HIDE DEF next
  <2> QED
    BY <1>1, <1>6 DEF EditTypes, EditCommands
<1>8. EditTypes'
  BY <1>1, <1>7 DEF EditTypes
<1>9. \A f \in Editor : hand'[f] # NoCommand => hand'[f].life <= life'[hand'[f].place]
  BY <1>1, <1>7
<1>10. ASSUME NEW f \in Editor, NEW j \in Place PROVE UndoIsFine(f, j)'
  <2>1. CASE f # e \/ j # i \/ h.life # life[j]
    <3>1. hand'[f] = hand[f] \/ (~InCommand(f, j, "set") /\ ~InCommand(f, j, "set")' /\ ~InCommand(f, j, "push")')
      BY <1>1, <1>7, <2>1 DEF InCommand
    <3> QED
      BY <1>1, <3>1, FineStays
  <2>2. CASE f = e /\ j = i /\ h.life = life[i]
    <3>1. ~InCommand(e, i, "set") /\ ~InCommand(e, i, "set")'
      BY <1>1, <1>7 DEF InCommand
    <3>2. DOMAIN before = DOMAIN h.changes /\ \A c \in DOMAIN before : before[c] = built[i][c]
      BY <2>2 DEF before
    <3>3. SeenAsIs(e, i)'
      BY <1>1, <1>7, <3>2 DEF SeenAsIs, InCommand
    <3>4. Traced(e, i) => Traced(e, i)'
      BY <1>1, <3>1 DEF Traced
    <3> QED
      BY <1>1, <1>3, <2>2, <3>3, <3>4 DEF UndoIsFine
  <2> QED
    BY <2>1, <2>2
<1> QED
  BY <1>8, <1>9, <1>10 DEF UndoInv

\* A stack is the rest of it and its last edit.
LEMMA TopIs ==
    ASSUME NEW s \in Seq(Patch), s # <<>>
    PROVE  /\ SubSeq(s, 1, Len(s) - 1) \in Seq(Patch) /\ Len(SubSeq(s, 1, Len(s) - 1)) = Len(s) - 1
           /\ s[Len(s)] \in Patch /\ Append(SubSeq(s, 1, Len(s) - 1), s[Len(s)]) = s
<1>1. Len(s) \in Nat \ {0}
  OBVIOUS
<1>2. s[Len(s)] \in Patch
  BY <1>1
<1>3. ASSUME NEW n \in Nat, n = Len(s) - 1
      PROVE  SubSeq(s, 1, n) \in Seq(Patch) /\ Len(SubSeq(s, 1, n)) = n /\ Append(SubSeq(s, 1, n), s[n + 1]) = s
  <2>1. n <= Len(s) /\ \A k \in 1..n : s[k] \in Patch
    BY <1>1, <1>3
  <2>2. SubSeq(s, 1, n) \in Seq(Patch)
    BY <1>3, <2>1
  <2>3. Len(SubSeq(s, 1, n)) = n
    BY <1>3, <2>1
  <2>4. Append(SubSeq(s, 1, n), s[n + 1]) = s
    BY <1>1, <1>3, <2>2, <2>3
  <2> QED
    BY <2>2, <2>3, <2>4
<1>4. Len(s) - 1 \in Nat /\ Len(s) - 1 + 1 = Len(s)
  BY <1>1
<1> QED
  BY <1>2, <1>3, <1>4

\* ... the push ...
LEMMA PushUndoKeeps ==
    ASSUME UndoInv, NEW e \in Editor, hand[e] # NoCommand, PushUndo(e), NEW h, h = hand[e], NEW i, i = hand[e].place
    PROVE  UndoInv'
<1> DEFINE stack == LastOnes(Append(undo[e][i], h.before))
           next == [at |-> "set", place |-> i, life |-> h.life, changes |-> h.changes, undoes |-> FALSE]
<1>1. /\ EditTypes /\ (\A f \in Editor : hand[f] # NoCommand => hand[f].life <= life[hand[f].place])
      /\ (\A f \in Editor, j \in Place : UndoIsFine(f, j)) /\ h.at = "push"
      /\ UNCHANGED <<corner, clipboard, built, life, edits, overwritten, foreign>>
      /\ undo' = [undo EXCEPT ![e][i] = stack]
      /\ late' = (IF h.life = life[i] THEN late ELSE late \cup {<<e, i>>})
      /\ hand' = [hand EXCEPT ![e] = next]
  BY DEF UndoInv, PushUndo
<1>2. h \in PushCommands
  BY <1>1 DEF EditTypes, EditCommands, ReadCommands, PushCommands, WriteCommands
<1>3. i \in Place /\ h.life \in Nat /\ h.changes \in Patch /\ h.before \in Patch
  BY <1>2 DEF PushCommands
<1>4. undo[e][i] \in Seq(Patch) /\ Len(undo[e][i]) <= MaxUndo
  BY <1>1, <1>3 DEF EditTypes, UndoIsFine
<1>5. stack \in Seq(Patch) /\ Len(stack) <= MaxUndo /\ stack # <<>> /\ stack[Len(stack)] = h.before
  BY <1>3, <1>4, LastOnesIs
<1>6. next \in WriteCommands
  BY <1>3 DEF WriteCommands
<1>7. hand' \in [Editor -> EditCommands] /\ hand'[e] = next /\ \A f \in Editor \ {e} : hand'[f] = hand[f]
  <2> HIDE DEF next
  <2> QED
    BY <1>1, <1>6 DEF EditTypes, EditCommands
<1> HIDE DEF stack
<1>8. /\ undo' \in [Editor -> [Place -> Seq(Patch)]] /\ undo'[e][i] = stack
      /\ \A f \in Editor, j \in Place : f # e \/ j # i => undo'[f][j] = undo[f][j]
  BY <1>1, <1>3, <1>5 DEF EditTypes
<1>9. EditTypes'
  BY <1>1, <1>7, <1>8 DEF EditTypes
<1>10. \A f \in Editor : hand'[f] # NoCommand => hand'[f].life <= life'[hand'[f].place]
  BY <1>1, <1>7
<1>11. ASSUME NEW f \in Editor, NEW j \in Place, f # e \/ j # i PROVE UndoIsFine(f, j)'
  <2>1. hand'[f] = hand[f] \/ (~InCommand(f, j, "set") /\ ~InCommand(f, j, "set")' /\ ~InCommand(f, j, "push")')
    BY <1>1, <1>7, <1>11 DEF InCommand
  <2> QED
    BY <1>1, <1>8, <1>11, <2>1, FineStays
<1>12. CASE h.life # life[i]
  <2>1. <<e, i>> \in late'
    BY <1>1, <1>12
  <2> QED
    BY <1>5, <1>8, <1>9, <1>10, <1>11, <2>1, <1>3 DEF UndoInv, UndoIsFine
<1>13. CASE h.life = life[i] /\ <<e, i>> \in late
  <2>1. <<e, i>> \in late'
    BY <1>1, <1>13
  <2> QED
    BY <1>5, <1>8, <1>9, <1>10, <1>11, <2>1, <1>3 DEF UndoInv, UndoIsFine
<1>14. CASE h.life = life[i] /\ <<e, i>> \notin late
  <2>1. ~InCommand(e, i, "set") /\ InCommand(e, i, "push")
    BY <1>1, <1>14 DEF InCommand
  <2>2. /\ Retraces(undo[e][i], overwritten[e][i], built[i], foreign[e][i])
        /\ DOMAIN h.before = DOMAIN h.changes
        /\ \A c \in (DOMAIN h.before) \ foreign[e][i] : h.before[c] = built[i][c]
    BY <1>1, <1>3, <1>14, <2>1 DEF UndoIsFine, Traced, SeenAsIs
  <2>3. overwritten[e][i] \in Seq(RowWorlds) /\ built[i] \in RowWorlds
    BY <1>1, <1>3 DEF EditTypes, RowWorlds
  <2>4. Retraces(stack, Recent(Append(overwritten[e][i], built[i])), built[i], foreign[e][i])
    BY <1>3, <1>4, <2>2, <2>3, PushTraces DEF stack
  <2>5. /\ overwritten'[e][i] = overwritten[e][i] /\ built'[i] = built[i] /\ foreign'[e][i] = foreign[e][i]
        /\ hand'[e].undoes = FALSE /\ hand'[e].changes = h.changes
    BY <1>1, <1>7
  <2>6. InCommand(e, i, "set")' /\ ~InCommand(e, i, "push")'
    <3>1. next # NoCommand
      BY DEF NoCommand
    <3> QED
      BY <1>1, <1>7, <1>14, <3>1 DEF InCommand
  <2>7. undo'[e][i] # <<>> /\ DOMAIN undo'[e][i][Len(undo'[e][i])] = DOMAIN hand'[e].changes
    BY <1>5, <1>8, <2>2, <2>5
  <2>8. Retraces(undo'[e][i], Recent(Append(overwritten'[e][i], built'[i])), built'[i], foreign'[e][i])
    BY <1>8, <2>4, <2>5
  <2>9. ~hand'[e].undoes
    BY <2>5
  <2>10. Traced(e, i)'
    BY <2>6, <2>7, <2>8, <2>9 DEF Traced
  <2>11. SeenAsIs(e, i)'
    BY <2>6 DEF SeenAsIs
  <2>12. UndoIsFine(e, i)'
    BY <1>5, <1>8, <2>10, <2>11 DEF UndoIsFine
  <2>13. \A f \in Editor, j \in Place : UndoIsFine(f, j)'
    BY <1>11, <2>12
  <2> QED
    BY <1>9, <1>10, <2>13 DEF UndoInv
<1> QED
  BY <1>12, <1>13, <1>14

\* ... an undo, its edit off the stack ...
LEMMA UndoCommandKeeps ==
    ASSUME UndoInv, NEW e \in Editor, NEW i \in Place, UndoCommand(e, i), NEW s, s = undo[e][i] PROVE UndoInv'
<1> DEFINE rest == SubSeq(s, 1, Len(s) - 1)
           next == [at |-> "set", place |-> i, life |-> life[i], changes |-> s[Len(s)], undoes |-> TRUE]
<1>1. /\ EditTypes /\ (\A f \in Editor : hand[f] # NoCommand => hand[f].life <= life[hand[f].place])
      /\ (\A f \in Editor, j \in Place : UndoIsFine(f, j)) /\ hand[e] = NoCommand /\ s # <<>>
      /\ UNCHANGED <<corner, clipboard, built, life, edits, overwritten, foreign, late>>
      /\ undo' = [undo EXCEPT ![e][i] = rest]
      /\ hand' = [hand EXCEPT ![e] = next]
  BY DEF UndoInv, UndoCommand
<1>2. s \in Seq(Patch) /\ Len(s) <= MaxUndo /\ life[i] \in Nat /\ MaxUndo \in Nat
  BY <1>1, EditAssumption DEF EditTypes, UndoIsFine
<1>3. /\ rest \in Seq(Patch) /\ Len(rest) <= MaxUndo /\ s[Len(s)] \in Patch
      /\ Append(rest, s[Len(s)]) = s
  <2>1. Len(s) \in Nat
    BY <1>2
  <2> QED
    BY <1>1, <1>2, <2>1, TopIs
<1>4. next \in WriteCommands /\ next # NoCommand
  BY <1>2, <1>3 DEF WriteCommands, NoCommand
<1>5. hand' \in [Editor -> EditCommands] /\ hand'[e] = next /\ \A f \in Editor \ {e} : hand'[f] = hand[f]
  <2> HIDE DEF next
  <2> QED
    BY <1>1, <1>4 DEF EditTypes, EditCommands
<1> HIDE DEF rest
<1>6. /\ undo' \in [Editor -> [Place -> Seq(Patch)]] /\ undo'[e][i] = rest
      /\ \A f \in Editor, j \in Place : f # e \/ j # i => undo'[f][j] = undo[f][j]
  BY <1>1, <1>3 DEF EditTypes
<1>7. EditTypes'
  BY <1>1, <1>5, <1>6 DEF EditTypes
<1>8. \A f \in Editor : hand'[f] # NoCommand => hand'[f].life <= life'[hand'[f].place]
  BY <1>1, <1>2, <1>5
<1>9. ASSUME NEW f \in Editor, NEW j \in Place, f # e \/ j # i PROVE UndoIsFine(f, j)'
  <2>1. hand'[f] = hand[f] \/ (~InCommand(f, j, "set") /\ ~InCommand(f, j, "set")' /\ ~InCommand(f, j, "push")')
    BY <1>1, <1>5, <1>9 DEF InCommand
  <2> QED
    BY <1>1, <1>6, <1>9, <2>1, FineStays
<1>10. UndoIsFine(e, i)'
  <2>1. CASE <<e, i>> \in late
    BY <1>1, <1>3, <1>6, <2>1 DEF UndoIsFine
  <2>2. CASE <<e, i>> \notin late
    <3>1. ~InCommand(e, i, "set")
      BY <1>1 DEF InCommand
    <3>2. Retraces(s, overwritten[e][i], built[i], foreign[e][i])
      BY <1>1, <2>2, <3>1 DEF UndoIsFine, Traced
    <3>3. InCommand(e, i, "set")' /\ ~InCommand(e, i, "push")'
      BY <1>1, <1>4, <1>5 DEF InCommand
    <3>4. hand'[e].undoes /\ hand'[e].changes = s[Len(s)]
      BY <1>5
    <3>5. Append(undo'[e][i], hand'[e].changes) = s
      BY <1>3, <1>6, <3>4
    <3>6. Traced(e, i)'
      BY <1>1, <3>2, <3>3, <3>4, <3>5 DEF Traced
    <3>7. SeenAsIs(e, i)'
      BY <3>3 DEF SeenAsIs
    <3> QED
      BY <1>3, <1>6, <3>6, <3>7 DEF UndoIsFine
  <2> QED
    BY <2>1, <2>2
<1> QED
  BY <1>7, <1>8, <1>9, <1>10 DEF UndoInv

\* The cells somebody else has changed are foreign to an editor.
LEMMA OtherFine ==
    ASSUME EditTypes, EditTypes', NEW f \in Editor, NEW i \in Place, NEW cells, UndoIsFine(f, i), late' = late,
           undo'[f][i] = undo[f][i], overwritten'[f][i] = overwritten[f][i], life'[i] = life[i], hand'[f] = hand[f],
           \A c \in Cells \ cells : built'[i][c] = built[i][c],
           foreign'[f][i] = IF undo[f][i] # <<>> \/ hand[f] # NoCommand THEN foreign[f][i] \cup cells ELSE foreign[f][i]
    PROVE  UndoIsFine(f, i)'
<1>1. Len(undo'[f][i]) <= MaxUndo /\ (<<f, i>> \in late => <<f, i>> \in late')
  BY DEF UndoIsFine
<1>2. CASE <<f, i>> \in late
  BY <1>1, <1>2 DEF UndoIsFine
<1>3. CASE <<f, i>> \notin late
  <2>1. Traced(f, i) /\ SeenAsIs(f, i)
    BY <1>3 DEF UndoIsFine
  <2>2. \A at \in {"push", "set"} : InCommand(f, i, at)' <=> InCommand(f, i, at)
    BY DEF InCommand
  <2>3. CASE ~(undo[f][i] # <<>> \/ hand[f] # NoCommand)
    <3>1. \A at \in {"push", "set"} : ~InCommand(f, i, at)
      BY <2>3 DEF InCommand
    <3>2. Retraces(undo[f][i], overwritten[f][i], built[i], foreign[f][i])
      BY <2>1, <3>1 DEF Traced
    <3>3. Retraces(undo'[f][i], overwritten'[f][i], built'[i], foreign'[f][i])
      BY <2>3, <3>2 DEF Retraces
    <3>4. Traced(f, i)' /\ SeenAsIs(f, i)'
      BY <2>2, <3>1, <3>3 DEF Traced, SeenAsIs
    <3> QED
      BY <1>1, <3>4 DEF UndoIsFine
  <2>4. CASE undo[f][i] # <<>> \/ hand[f] # NoCommand
    <3>1. foreign[f][i] \subseteq foreign'[f][i] /\ \A c \in Cells \ foreign'[f][i] : built'[i][c] = built[i][c]
      BY <2>4
    <3>2. overwritten[f][i] \in Seq(RowWorlds) /\ built[i] \in RowWorlds /\ built'[i] \in RowWorlds
      BY DEF EditTypes, RowWorlds
    <3>3. Retraces(undo[f][i], overwritten[f][i], built[i], foreign[f][i])
            => Retraces(undo[f][i], overwritten[f][i], built'[i], foreign'[f][i])
      BY <3>1, OtherRetraces
    <3>4. Retraces(Append(undo[f][i], hand[f].changes), overwritten[f][i], built[i], foreign[f][i])
            => Retraces(Append(undo[f][i], hand[f].changes), overwritten[f][i], built'[i], foreign'[f][i])
      BY <3>1, OtherRetraces
    <3>5. Retraces(undo[f][i], Recent(Append(overwritten[f][i], built[i])), built[i], foreign[f][i])
            => Retraces(undo[f][i], Recent(Append(overwritten[f][i], built'[i])), built'[i], foreign'[f][i])
      BY <3>1, <3>2, OtherRetracesRecent
    <3>6. Traced(f, i)'
      BY <2>1, <2>2, <3>3, <3>4, <3>5 DEF Traced
    <3>7. SeenAsIs(f, i)'
      <4>1. SUFFICES ASSUME InCommand(f, i, "push")
                     PROVE  /\ DOMAIN hand[f].before = DOMAIN hand[f].changes
                            /\ \A c \in (DOMAIN hand[f].before) \ foreign'[f][i] : hand[f].before[c] = built'[i][c]
        BY <2>2 DEF SeenAsIs
      <4>2. hand[f] \in PushCommands
        BY <4>1 DEF EditTypes, EditCommands, ReadCommands, PushCommands, WriteCommands, InCommand
      <4>3. DOMAIN hand[f].before \subseteq Cells
        BY <4>2 DEF PushCommands, Patch
      <4> QED
        BY <2>1, <3>1, <4>1, <4>3 DEF SeenAsIs
    <3> QED
      BY <1>1, <3>6, <3>7 DEF UndoIsFine
  <2> QED
    BY <2>3, <2>4
<1> QED
  BY <1>2, <1>3

\* ... somebody else's change ...
LEMMA OtherChangeKeeps ==
    ASSUME UndoInv, NEW i \in Place, NEW c \in Cells, NEW b \in Material, OtherChange(i, c, b) PROVE UndoInv'
<1>1. /\ EditTypes /\ (\A f \in Editor : hand[f] # NoCommand => hand[f].life <= life[hand[f].place])
      /\ \A f \in Editor, j \in Place : UndoIsFine(f, j)
      /\ UNCHANGED <<corner, clipboard, undo, hand, life, overwritten, late>>
      /\ edits' = edits + 1 /\ built' = [built EXCEPT ![i][c] = b] /\ foreign' = Others({}, i, {c})
  BY DEF UndoInv, OtherChange
<1>2. /\ built' \in [Place -> [Cells -> Material]]
      /\ \A j \in Place \ {i} : built'[j] = built[j]
      /\ \A x \in Cells \ {c} : built'[i][x] = built[i][x]
  BY <1>1 DEF EditTypes
<1>3. /\ foreign' \in [Editor -> [Place -> SUBSET Cells]]
      /\ \A f \in Editor, j \in Place \ {i} : foreign'[f][j] = foreign[f][j]
      /\ \A f \in Editor : foreign'[f][i] =
            IF undo[f][i] # <<>> \/ hand[f] # NoCommand THEN foreign[f][i] \cup {c} ELSE foreign[f][i]
  BY <1>1 DEF EditTypes, Others
<1>4. EditTypes'
  <2>1. edits' \in Nat
    BY <1>1 DEF EditTypes
  <2> QED
    BY <1>1, <1>2, <1>3, <2>1 DEF EditTypes
<1>5. ASSUME NEW f \in Editor, NEW j \in Place PROVE UndoIsFine(f, j)'
  <2>1. CASE j = i
    <3>1. \A x \in Cells \ {c} : built'[i][x] = built[i][x]
      BY <1>2
    <3>2. foreign'[f][i] = IF undo[f][i] # <<>> \/ hand[f] # NoCommand THEN foreign[f][i] \cup {c} ELSE foreign[f][i]
      BY <1>3
    <3>3. /\ UndoIsFine(f, i) /\ late' = late /\ undo'[f][i] = undo[f][i] /\ overwritten'[f][i] = overwritten[f][i]
          /\ life'[i] = life[i] /\ hand'[f] = hand[f]
      BY <1>1
    <3>4. UndoIsFine(f, i)'
      BY <1>1, <1>4, <3>1, <3>2, <3>3, OtherFine
    <3> QED
      BY <2>1, <3>4
  <2>2. CASE j # i
    BY ZenonT(40), <1>1, <1>2, <1>3, <2>2, FineStays
  <2> QED
    BY <2>1, <2>2
<1> QED
  BY <1>1, <1>4, <1>5 DEF UndoInv

\* ... the end of an instance, with which its stacks go ...
LEMMA InstanceEndsKeeps == ASSUME UndoInv, NEW i \in Place, InstanceEnds(i) PROVE UndoInv'
<1>1. /\ EditTypes /\ (\A f \in Editor : hand[f] # NoCommand => hand[f].life <= life[hand[f].place])
      /\ \A f \in Editor, j \in Place : UndoIsFine(f, j)
      /\ UNCHANGED <<corner, clipboard, hand, edits, late>>
      /\ life' = [life EXCEPT ![i] = @ + 1] /\ built' = [built EXCEPT ![i] = [c \in Cells |-> Air]]
      /\ undo' = [e \in Editor |-> [undo[e] EXCEPT ![i] = <<>>]]
      /\ overwritten' = [e \in Editor |-> [overwritten[e] EXCEPT ![i] = <<>>]]
      /\ foreign' = [e \in Editor |-> [foreign[e] EXCEPT ![i] = {}]]
  BY DEF UndoInv, InstanceEnds
<1>2. life' \in [Place -> Nat] /\ life'[i] = life[i] + 1 /\ \A j \in Place \ {i} : life'[j] = life[j]
  BY <1>1 DEF EditTypes
<1>3. built' \in [Place -> [Cells -> Material]] /\ \A j \in Place \ {i} : built'[j] = built[j]
  BY <1>1, EditAssumption DEF EditTypes
<1>4. /\ undo' \in [Editor -> [Place -> Seq(Patch)]]
      /\ \A f \in Editor : undo'[f][i] = <<>> /\ \A j \in Place \ {i} : undo'[f][j] = undo[f][j]
  BY <1>1 DEF EditTypes
<1>5. /\ overwritten' \in [Editor -> [Place -> Seq([Cells -> Material])]]
      /\ \A f \in Editor : overwritten'[f][i] = <<>> /\ \A j \in Place \ {i} : overwritten'[f][j] = overwritten[f][j]
  BY <1>1 DEF EditTypes
<1>6. /\ foreign' \in [Editor -> [Place -> SUBSET Cells]]
      /\ \A f \in Editor, j \in Place \ {i} : foreign'[f][j] = foreign[f][j]
  BY <1>1 DEF EditTypes
<1>7. EditTypes'
  BY <1>1, <1>2, <1>3, <1>4, <1>5, <1>6 DEF EditTypes
<1>8. ASSUME NEW f \in Editor, hand[f] # NoCommand
      PROVE  hand[f].life \in Nat /\ hand[f].place \in Place
  BY <1>1, <1>8 DEF EditTypes, EditCommands, ReadCommands, PushCommands, WriteCommands
<1>9. ASSUME NEW f \in Editor, hand'[f] # NoCommand
      PROVE  hand'[f].life <= life'[hand'[f].place] /\ (hand'[f].place = i => hand'[f].life # life'[i])
  <2>1. hand[f] # NoCommand /\ hand'[f] = hand[f]
    BY <1>1, <1>9
  <2>2. hand[f].life <= life[hand[f].place] /\ hand[f].life \in Nat /\ hand[f].place \in Place
    BY <1>1, <1>8, <2>1
  <2>3. life[i] \in Nat
    BY <1>1 DEF EditTypes
  <2>4. CASE hand[f].place = i
    BY <1>2, <2>1, <2>2, <2>3, <2>4
  <2>5. CASE hand[f].place # i
    BY <1>2, <2>1, <2>2, <2>5
  <2> QED
    BY <2>4, <2>5
<1>10. ASSUME NEW f \in Editor, NEW j \in Place PROVE UndoIsFine(f, j)'
  <2>1. CASE j # i
    <3>1. /\ undo'[f][j] = undo[f][j] /\ overwritten'[f][j] = overwritten[f][j] /\ foreign'[f][j] = foreign[f][j]
          /\ built'[j] = built[j] /\ life'[j] = life[j]
      BY <1>2, <1>3, <1>4, <1>5, <1>6, <2>1
    <3>2. UndoIsFine(f, j) /\ late' = late /\ hand'[f] = hand[f]
      BY <1>1
    <3> QED
      BY <3>1, <3>2, FineStays
  <2>2. CASE j = i
    <3>1. ~InCommand(f, i, "set")' /\ ~InCommand(f, i, "push")'
      BY <1>9 DEF InCommand
    <3>2. Retraces(undo'[f][i], overwritten'[f][i], built'[i], foreign'[f][i])
      BY <1>4, <1>5, NothingRetraces
    <3>3. Traced(f, i)' /\ SeenAsIs(f, i)'
      BY <3>1, <3>2 DEF Traced, SeenAsIs
    <3>4. Len(undo'[f][i]) <= MaxUndo
      <4>1. undo'[f][i] = <<>> /\ MaxUndo \in Nat
        BY <1>4, EditAssumption
      <4>2. Len(<<>>) = 0
        OBVIOUS
      <4> QED
        BY <4>1, <4>2
    <3> QED
      BY <2>2, <3>3, <3>4 DEF UndoIsFine
  <2> QED
    BY <2>1, <2>2
<1>11. \A f \in Editor : hand'[f] # NoCommand => hand'[f].life <= life'[hand'[f].place]
  BY <1>9
<1> QED
  BY <1>7, <1>10, <1>11 DEF UndoInv

\* ... and the writing.
LEMMA SetBlocksKeeps ==
    ASSUME UndoInv, NEW e \in Editor, hand[e] # NoCommand, SetBlocks(e), NEW h, h = hand[e], NEW i, i = hand[e].place
    PROVE  UndoInv'
<1> DEFINE old == overwritten[e][i]
           written == [c \in Cells |-> IF c \in DOMAIN h.changes THEN h.changes[c] ELSE built[i][c]]
           worlds == IF ~h.undoes THEN Recent(Append(old, built[i])) ELSE SubSeq(old, 1, Len(old) - 1)
           theirs == Others({e}, i, DOMAIN h.changes)
           mine == IF undo[e][i] = <<>> THEN {} ELSE theirs[e][i]
<1>1. /\ EditTypes /\ (\A f \in Editor : hand[f] # NoCommand => hand[f].life <= life[hand[f].place])
      /\ (\A f \in Editor, j \in Place : UndoIsFine(f, j)) /\ h.at = "set"
      /\ UNCHANGED <<corner, clipboard, undo, life, edits, late>>
      /\ hand' = [hand EXCEPT ![e] = NoCommand]
  BY DEF UndoInv, SetBlocks
<1>2. h \in WriteCommands
  BY <1>1 DEF EditTypes, EditCommands, ReadCommands, PushCommands, WriteCommands
<1>3. i \in Place /\ h.life \in Nat /\ h.changes \in Patch /\ h.undoes \in BOOLEAN
  BY <1>2 DEF WriteCommands
<1>4. /\ built' = (IF h.life # life[i] THEN built ELSE [built EXCEPT ![i] = written])
      /\ overwritten' = (IF h.life # life[i] THEN overwritten ELSE [overwritten EXCEPT ![e][i] = worlds])
      /\ foreign' = (IF h.life # life[i] THEN foreign ELSE [theirs EXCEPT ![e][i] = mine])
  BY <1>3 DEF SetBlocks, Others
<1>5. PICK S \in SUBSET Cells : h.changes \in [S -> Material]
  BY <1>3 DEF Patch
<1>6. built[i] \in RowWorlds /\ old \in Seq(RowWorlds) /\ undo[e][i] \in Seq(Patch)
  BY <1>1, <1>3 DEF EditTypes, RowWorlds
<1>7. /\ written \in RowWorlds /\ \A c \in Cells \ DOMAIN h.changes : written[c] = built[i][c]
      /\ \A c \in Cells : written[c] = IF c \in DOMAIN h.changes THEN h.changes[c] ELSE built[i][c]
  BY <1>5, <1>6 DEF RowWorlds
<1>8. worlds \in Seq(RowWorlds)
  <2>1. Recent(Append(old, built[i])) \in Seq(RowWorlds)
    BY <1>6, RecentIs
  <2>2. SubSeq(old, 1, Len(old) - 1) \in Seq(RowWorlds)
    BY <1>6
  <2> QED
    BY <2>1, <2>2
<1>9. /\ theirs \in [Editor -> [Place -> SUBSET Cells]] /\ theirs[e] = foreign[e]
      /\ \A f \in Editor, j \in Place \ {i} : theirs[f][j] = foreign[f][j]
      /\ \A f \in Editor \ {e} : theirs[f][i] =
            IF undo[f][i] # <<>> \/ hand[f] # NoCommand THEN foreign[f][i] \cup DOMAIN h.changes ELSE foreign[f][i]
  BY <1>1, <1>3, <1>5 DEF EditTypes, Others
<1> HIDE DEF written, worlds, theirs
<1>10. hand' \in [Editor -> EditCommands] /\ hand'[e] = NoCommand /\ \A f \in Editor \ {e} : hand'[f] = hand[f]
  BY <1>1 DEF EditTypes, EditCommands
<1>11. mine \in SUBSET Cells /\ (undo[e][i] = <<>> => mine = {}) /\ (undo[e][i] # <<>> => mine = foreign[e][i])
  BY <1>3, <1>9
<1> HIDE DEF mine
<1>12. built' \in [Place -> [Cells -> Material]] /\ \A j \in Place \ {i} : built'[j] = built[j]
  BY <1>1, <1>3, <1>4, <1>7 DEF EditTypes, RowWorlds
<1>13. /\ overwritten' \in [Editor -> [Place -> Seq([Cells -> Material])]]
       /\ \A f \in Editor, j \in Place : f # e \/ j # i => overwritten'[f][j] = overwritten[f][j]
  BY <1>1, <1>3, <1>4, <1>8 DEF EditTypes, RowWorlds
<1>14. /\ foreign' \in [Editor -> [Place -> SUBSET Cells]]
       /\ \A f \in Editor, j \in Place \ {i} : foreign'[f][j] = foreign[f][j]
  BY <1>1, <1>3, <1>4, <1>9, <1>11 DEF EditTypes
<1>15. EditTypes'
  BY <1>1, <1>10, <1>12, <1>13, <1>14 DEF EditTypes
<1>16. \A f \in Editor : hand'[f] # NoCommand => hand'[f].life <= life'[hand'[f].place]
  BY <1>1, <1>10
<1>17. ASSUME NEW f \in Editor, NEW j \in Place, j # i PROVE UndoIsFine(f, j)'
  <2>1. hand'[f] = hand[f] \/ (~InCommand(f, j, "set") /\ ~InCommand(f, j, "set")' /\ ~InCommand(f, j, "push")')
    BY <1>10, <1>17 DEF InCommand
  <2>2. /\ UndoIsFine(f, j) /\ late \subseteq late' /\ undo'[f][j] = undo[f][j] /\ life'[j] = life[j]
        /\ built'[j] = built[j] /\ overwritten'[f][j] = overwritten[f][j] /\ foreign'[f][j] = foreign[f][j]
    BY <1>1, <1>12, <1>13, <1>14, <1>17
  <2> QED
    BY <2>1, <2>2, FineStays
<1>18. CASE h.life # life[i]
  <2>1. ASSUME NEW f \in Editor PROVE UndoIsFine(f, i)'
    <3>1. hand'[f] = hand[f] \/ (~InCommand(f, i, "set") /\ ~InCommand(f, i, "set")' /\ ~InCommand(f, i, "push")')
      BY <1>10, <1>18 DEF InCommand
    <3>2. built'[i] = built[i] /\ overwritten'[f][i] = overwritten[f][i] /\ foreign'[f][i] = foreign[f][i]
      BY <1>4, <1>18
    <3> QED
      BY <1>1, <1>3, <3>1, <3>2, FineStays
  <2>2. \A f \in Editor, j \in Place : UndoIsFine(f, j)'
    BY <1>17, <2>1
  <2> QED
    BY <1>15, <1>16, <2>2 DEF UndoInv
<1>19. CASE h.life = life[i]
  <2>1. /\ built'[i] = written /\ overwritten'[e][i] = worlds /\ foreign'[e][i] = mine
        /\ \A f \in Editor \ {e} : foreign'[f][i] = theirs[f][i]
    BY <1>1, <1>3, <1>4, <1>9, <1>19 DEF EditTypes
  <2>2. ASSUME NEW f \in Editor \ {e} PROVE UndoIsFine(f, i)'
    <3>1. \A c \in Cells \ DOMAIN h.changes : built'[i][c] = built[i][c]
      BY <1>7, <2>1
    <3>2. foreign'[f][i] =
            IF undo[f][i] # <<>> \/ hand[f] # NoCommand THEN foreign[f][i] \cup DOMAIN h.changes ELSE foreign[f][i]
      BY <1>9, <2>1
    <3>3. /\ UndoIsFine(f, i) /\ late' = late /\ undo'[f][i] = undo[f][i] /\ overwritten'[f][i] = overwritten[f][i]
          /\ life'[i] = life[i] /\ hand'[f] = hand[f]
      BY <1>1, <1>3, <1>10, <1>13
    <3> QED
      BY <1>1, <1>3, <1>15, <3>1, <3>2, <3>3, OtherFine
  <2>3. UndoIsFine(e, i)'
    <3>1. Len(undo'[e][i]) <= MaxUndo
      BY <1>1, <1>3 DEF UndoIsFine
    <3>2. ~InCommand(e, i, "set")' /\ ~InCommand(e, i, "push")'
      BY <1>10 DEF InCommand
    <3>3. CASE <<e, i>> \in late
      BY <1>1, <3>1, <3>3 DEF UndoIsFine
    <3>4. CASE <<e, i>> \notin late
      <4>1. InCommand(e, i, "set") /\ Traced(e, i)
        BY <1>1, <1>3, <1>19, <3>4 DEF InCommand, UndoIsFine
      <4>2. Retraces(undo[e][i], worlds, written, mine)
        <5>1. CASE h.undoes
          <6>1. Retraces(Append(undo[e][i], h.changes), old, built[i], foreign[e][i])
            BY <4>1, <5>1 DEF Traced
          <6>2. Retraces(undo[e][i], SubSeq(old, 1, Len(old) - 1), written, foreign[e][i])
            <7>1. undo[e][i] \in Seq(Patch) /\ old \in Seq(RowWorlds) /\ h.changes \in Patch
              BY <1>3, <1>6
            <7>2. WrittenOver(built[i], h.changes, written)
              BY <1>7 DEF WrittenOver
            <7> HIDE DEF old
            <7> QED
              BY <6>1, <7>1, <7>2, UndoRetraces
          <6>3. Retraces(undo[e][i], worlds, written, foreign[e][i])
            BY <5>1, <6>2 DEF worlds
          <6>4. CASE undo[e][i] = <<>>
            BY <6>3, <6>4 DEF Retraces
          <6>5. CASE undo[e][i] # <<>>
            BY <1>11, <6>3, <6>5
          <6> QED
            BY <6>4, <6>5
        <5>2. CASE ~h.undoes
          <6>1. /\ undo[e][i] # <<>> /\ DOMAIN undo[e][i][Len(undo[e][i])] = DOMAIN h.changes
                /\ Retraces(undo[e][i], Recent(Append(old, built[i])), built[i], foreign[e][i])
            BY <4>1, <5>2 DEF Traced
          <6>2. Retraces(undo[e][i], Recent(Append(old, built[i])), written, foreign[e][i])
            BY <1>6, <1>7, <6>1, WriteRetraces
          <6> QED
            BY <1>11, <5>2, <6>1, <6>2 DEF worlds
        <5> QED
          BY <5>1, <5>2
      <4>3. Retraces(undo'[e][i], overwritten'[e][i], built'[i], foreign'[e][i])
        BY <1>1, <2>1, <4>2
      <4>4. Traced(e, i)' /\ SeenAsIs(e, i)'
        BY <3>2, <4>3 DEF Traced, SeenAsIs
      <4> QED
        BY <3>1, <4>4 DEF UndoIsFine
    <3> QED
      BY <3>3, <3>4
  <2>4. \A f \in Editor, j \in Place : UndoIsFine(f, j)'
    BY <1>17, <2>2, <2>3
  <2> QED
    BY <1>15, <1>16, <2>4 DEF UndoInv
<1> QED
  BY <1>18, <1>19

\* It holds at first ...
LEMMA UndoInvInit == EditInit => UndoInv
<1> SUFFICES ASSUME EditInit PROVE UndoInv
  OBVIOUS
<1>1. EditTypes
  BY EditAssumption DEF EditInit, EditTypes, EditCommands
<1>2. ASSUME NEW e \in Editor, NEW i \in Place PROVE UndoIsFine(e, i)
  <2>1. hand[e] = NoCommand /\ undo[e][i] = <<>> /\ overwritten[e][i] = <<>>
    BY DEF EditInit
  <2>2. Traced(e, i) /\ SeenAsIs(e, i)
    BY <2>1, NothingRetraces DEF Traced, SeenAsIs, InCommand
  <2>3. Len(<<>>) = 0 /\ MaxUndo \in Nat
    BY EditAssumption
  <2>4. Len(undo[e][i]) <= MaxUndo
    BY <2>1, <2>3
  <2> QED
    BY <2>2, <2>4 DEF UndoIsFine
<1>3. \A e \in Editor : hand[e] = NoCommand
  BY DEF EditInit
<1> QED
  BY <1>1, <1>2, <1>3 DEF UndoInv

\* ... is kept by every step ...
LEMMA UndoInvNext == UndoInv /\ [EditNext]_editVars => UndoInv'
<1> SUFFICES ASSUME UndoInv, [EditNext]_editVars PROVE UndoInv'
  OBVIOUS
<1>1. CASE UNCHANGED editVars
  <2>1. EditTypes'
    BY <1>1 DEF UndoInv, EditTypes, editVars
  <2> QED
    BY <1>1, <2>1, AsideKeeps DEF editVars
<1>2. ASSUME NEW e \in Editor, NEW w \in Which, NEW c \in Cells, SetCorner(e, w, c) PROVE UndoInv'
  BY <1>2, SetCornerKeeps
<1>3. ASSUME NEW e \in Editor, NEW i \in Place, NEW b \in Material, SetCommand(e, i, b) PROVE UndoInv'
  BY <1>3, CommandsKeep
<1>4. ASSUME NEW e \in Editor, NEW i \in Place, NEW from \in Material, NEW to \in Material, ReplaceCommand(e, i, from, to)
      PROVE  UndoInv'
  BY <1>4, CommandsKeep
<1>5. ASSUME NEW e \in Editor, NEW i \in Place, NEW feet \in Cells, CopyCommand(e, i, feet) \/ PasteCommand(e, i, feet)
      PROVE  UndoInv'
  BY <1>5, CommandsKeep
<1>6. ASSUME NEW e \in Editor, NEW i \in Place, UndoCommand(e, i) PROVE UndoInv'
  BY <1>6, UndoCommandKeeps
<1>7. ASSUME NEW e \in Editor, Overwrites(e) \/ PushUndo(e) \/ SetBlocks(e) PROVE UndoInv'
  <2>1. hand[e] # NoCommand
    <3>1. Overwrites(e) => hand[e].at = "read"
      BY DEF Overwrites
    <3>2. PushUndo(e) => hand[e].at = "push"
      BY DEF PushUndo
    <3>3. SetBlocks(e) => hand[e].at = "set"
      BY DEF SetBlocks
    <3>4. NoCommand.at = "idle"
      BY DEF NoCommand
    <3> QED
      BY <1>7, <3>1, <3>2, <3>3, <3>4
  <2>2. PICK h, i : h = hand[e] /\ i = hand[e].place
    OBVIOUS
  <2> QED
    BY <1>7, <2>1, <2>2, OverwritesKeeps, PushUndoKeeps, SetBlocksKeeps
<1>8. ASSUME NEW i \in Place, NEW c \in Cells, NEW b \in Material, OtherChange(i, c, b) PROVE UndoInv'
  BY <1>8, OtherChangeKeeps
<1>9. ASSUME NEW i \in Place, InstanceEnds(i) PROVE UndoInv'
  BY <1>9, InstanceEndsKeeps
<1> QED
  BY <1>1, <1>2, <1>3, <1>4, <1>5, <1>6, <1>7, <1>8, <1>9 DEF EditNext

\* ... and says of an editor without a command that undoing leads back.
LEMMA UndoInvGives == UndoInv => UndoRestores
<1> SUFFICES ASSUME UndoInv, NEW e \in Editor, NEW i \in Place, hand[e] = NoCommand, <<e, i>> \notin late
             PROVE  /\ Len(undo[e][i]) = Len(overwritten[e][i])
                    /\ \A d \in DOMAIN undo[e][i], c \in Cells \ foreign[e][i] :
                        Undone(undo[e][i], d, c, built[i][c]) = overwritten[e][i][d][c]
  BY DEF UndoRestores
<1>1. Retraces(undo[e][i], overwritten[e][i], built[i], foreign[e][i])
  BY DEF UndoInv, UndoIsFine, Traced, InCommand
<1>2. DOMAIN undo[e][i] = 1..Len(undo[e][i])
  BY DEF UndoInv, EditTypes
<1> QED
  BY <1>1, <1>2 DEF Retraces

\* Undoing an editor's stack edit by edit leads back through the worlds its edits
\* were made in, but for the cells somebody else has changed and for an edit that
\* outlived its instance, in a world, with a limit and with editors of any number.
THEOREM UndoLeadsBack == EditSpec => []UndoRestores
<1>1. EditSpec => []UndoInv
  BY UndoInvInit, UndoInvNext, PTL DEF EditSpec
<1> QED
  BY <1>1, UndoInvGives, PTL

-----------------------------------------------------------------------------
(***************************************************************************)
(* Purchases.  One that is under way was looked at when the tiers up to    *)
(* the one seen had been paid; once paid, the one it is for is too.  What  *)
(* was paid is never given back.                                           *)
(***************************************************************************)

Paying == Side \cup Shopper
IsPurchase(b) ==
    /\ b = [pc |-> b.pc, what |-> b.what, seen |-> b.seen, price |-> b.price]
    /\ b.pc \in {"pay", "apply"}

EconTypes ==
    /\ tier \in [Side -> 0..Len(TierPrices)]
    /\ kit \in [Shopper -> [armor : BOOLEAN, tool : 0..Len(ToolPrices)]]
    /\ paid \in [Paying -> Nat]
    /\ shop = [p \in Shopper |-> shop[p]]
    /\ \A p \in Shopper : shop[p] = NoShop \/ IsPurchase(shop[p])

\* n tiers and, once paid for, the next one.
PaidUpTo(prices, x, b) ==
    /\ b.seen \in 0..Len(prices) - 1 /\ b.price = prices[b.seen + 1]
    /\ paid[x] >= PriceOf(prices, IF b.pc = "apply" THEN b.seen + 1 ELSE b.seen)

Earnest(p) ==
    shop[p] # NoShop =>
        /\ shop[p].what = "upgrade" => PaidUpTo(TierPrices, SideOf[p], shop[p])
        /\ shop[p].what = "tool" => PaidUpTo(ToolPrices, p, shop[p])

FreeInv == EconTypes /\ NothingForFree /\ \A p \in Shopper : Earnest(p)

\* One tier more costs its price more.
LEMMA PriceGrows ==
    ASSUME NEW prices \in Seq(Nat), NEW n \in 0..Len(prices) - 1
    PROVE  /\ PriceOf(prices, n + 1) = PriceOf(prices, n) + prices[n + 1]
           /\ PriceOf(prices, n) \in Nat /\ PriceOf(prices, n + 1) \in Nat
           /\ PriceOf(prices, n) <= PriceOf(prices, n + 1) /\ prices[n + 1] \in Nat
<1>0. Len(prices) \in Nat
  OBVIOUS
<1> DEFINE T == 1..n + 1
           y == n + 1
<1>1. /\ IsFiniteSet(T) /\ IsFiniteSet(1..n) /\ y \in T /\ T \ {y} = 1..n
  <2>1. n + 1 \in Int /\ n \in Int /\ 1 \in Int /\ n + 1 \in 1..n + 1 /\ (1..n + 1) \ {n + 1} = 1..n
    BY <1>0
  <2> QED
    BY <2>1, FS_Interval
<1>2. \A i \in T : prices[i] \in Nat /\ prices[i] \in Int
  BY <1>0
<1>3. \A i \in 1..n : prices[i] \in Nat
  BY <1>0
<1> HIDE DEF T, y
<1>4. SumFunctionOnSet(prices, T) = prices[y] + SumFunctionOnSet(prices, T \ {y})
  BY <1>1, <1>2, SumTakes
<1>5. SumFunctionOnSet(prices, T) \in Nat /\ SumFunctionOnSet(prices, 1..n) \in Nat
  BY <1>1, <1>2, <1>3, SumOfNats
<1>6. prices[y] \in Nat
  BY <1>1, <1>2
<1>7. PriceOf(prices, n + 1) = SumFunctionOnSet(prices, T) /\ PriceOf(prices, n) = SumFunctionOnSet(prices, 1..n)
  BY DEF PriceOf, T
<1>8. PriceOf(prices, n + 1) = PriceOf(prices, n) + prices[n + 1]
  <2> DEFINE new == SumFunctionOnSet(prices, T)
             old == SumFunctionOnSet(prices, 1..n)
  <2>1. new = prices[y] + old /\ new \in Nat /\ old \in Nat /\ prices[y] \in Nat
    BY <1>1, <1>4, <1>5, <1>6
  <2> HIDE DEF new, old
  <2>2. new = old + prices[y]
    BY <2>1
  <2> QED
    BY <1>7, <2>2 DEF y, new, old
<1> QED
  BY <1>5, <1>6, <1>7, <1>8 DEF y

\* No tier costs nothing.
LEMMA PriceOfNone == ASSUME NEW prices PROVE PriceOf(prices, 0) = 0
<1>1. 1..0 = {}
  OBVIOUS
<1> QED
  BY <1>1, SumOfNothing DEF PriceOf

\* Every price is a number, every shopper has a side.
LEMMA EconConstants ==
    /\ TierPrices \in Seq(Nat) /\ ToolPrices \in Seq(Nat) /\ SideOf \in [Shopper -> Side]
    /\ TrapPrices \in Seq(Nat) /\ ArmorPrice \in Nat /\ GoodsPrice \in Nat \ {0} /\ GoodsPerStack \in Nat \ {0}
    /\ Len(TierPrices) \in Nat /\ Len(ToolPrices) \in Nat
BY EconomyAssumption DEF EconomyAssumption

\* A purchase under way is not the missing one.
LEMMA PurchasesTell == ASSUME NEW b, IsPurchase(b) PROVE b # NoShop
<1>1. b.pc # "idle" /\ NoShop.pc = "idle"
  BY DEF IsPurchase, NoShop
<1> QED
  BY <1>1

\* The tiers up to any one cost a number.
LEMMA PriceIsNat == ASSUME NEW prices \in Seq(Nat), NEW n \in 0..Len(prices) PROVE PriceOf(prices, n) \in Nat
<1>1. Len(prices) \in Nat
  OBVIOUS
<1>2. CASE n = 0
  BY <1>2, PriceOfNone
<1>3. CASE n # 0
  <2>1. n - 1 \in 0..Len(prices) - 1 /\ (n - 1) + 1 = n
    BY <1>1, <1>3
  <2> QED
    BY <2>1, PriceGrows
<1> QED
  BY <1>2, <1>3

\* What has been paid stays paid.
LEMMA PaidStays ==
    ASSUME NEW prices \in Seq(Nat), NEW x \in Paying, NEW p \in Shopper, shop'[p] = shop[p],
           paid[x] \in Nat, paid'[x] \in Nat, paid'[x] >= paid[x], PaidUpTo(prices, x, shop[p])
    PROVE  PaidUpTo(prices, x, shop[p])'
<1> DEFINE n == IF shop[p].pc = "apply" THEN shop[p].seen + 1 ELSE shop[p].seen
<1>1. /\ shop[p].seen \in 0..Len(prices) - 1 /\ shop[p].price = prices[shop[p].seen + 1]
      /\ paid[x] >= PriceOf(prices, n)
  BY DEF PaidUpTo
<1>2. PriceOf(prices, n) \in Nat
  BY <1>1, PriceGrows
<1>3. paid'[x] >= PriceOf(prices, n)
  <2> HIDE DEF n
  <2> QED
    BY <1>1, <1>2
<1> QED
  BY <1>1, <1>3 DEF PaidUpTo

\* Nobody has bought or paid anything at first.
LEMMA EconInits == ASSUME EconInit PROVE FreeInv
<1>1. EconTypes
  BY EconConstants DEF EconInit, EconTypes, Paying
<1>2. NothingForFree
  BY EconConstants, PriceOfNone DEF EconInit, NothingForFree
<1>3. \A p \in Shopper : Earnest(p)
  BY DEF EconInit, Earnest
<1> QED
  BY <1>1, <1>2, <1>3 DEF FreeInv

\* Nothing is bought.
LEMMA NothingBought ==
    ASSUME FreeInv, UNCHANGED <<tier, kit, shop, paid>> PROVE FreeInv'
BY DEF FreeInv, EconTypes, NothingForFree, Earnest, PaidUpTo

\* A purchase begins: the tiers up to the one seen are the team's or the player's.
LEMMA BeginKeeps ==
    ASSUME FreeInv, NEW p \in Shopper, NEW what, NEW seen, NEW price, StartPurchase(p, what, seen, price),
           what = "upgrade" => /\ seen = tier[SideOf[p]] /\ seen \in 0..Len(TierPrices) - 1
                               /\ price = TierPrices[seen + 1],
           what = "tool" => /\ seen = kit[p].tool /\ seen \in 0..Len(ToolPrices) - 1
                            /\ price = ToolPrices[seen + 1]
    PROVE  FreeInv'
<1> DEFINE b == [pc |-> "pay", what |-> what, seen |-> seen, price |-> price]
<1>1. shop' = [shop EXCEPT ![p] = b] /\ UNCHANGED <<tier, kit, paid>>
  BY DEF StartPurchase
<1>2. IsPurchase(b)
  BY DEF IsPurchase
<1>3. EconTypes /\ shop = [q \in Shopper |-> shop[q]]
  BY DEF FreeInv, EconTypes
<1>4. shop' = [q \in Shopper |-> shop'[q]] /\ shop'[p] = b
  BY <1>1, <1>3, Zenon
<1>5. \A q \in Shopper \ {p} : shop'[q] = shop[q]
  BY <1>1, <1>3
<1>6. Earnest(p)'
  <2>1. NothingForFree /\ b.pc = "pay" /\ b.what = what /\ b.seen = seen /\ b.price = price
    BY DEF FreeInv
  <2>2. SideOf[p] \in Side
    BY EconConstants
  <2> HIDE DEF b
  <2>3. what = "upgrade" => PaidUpTo(TierPrices, SideOf[p], shop[p])'
    BY <1>1, <1>4, <2>1, <2>2 DEF NothingForFree, PaidUpTo
  <2>4. what = "tool" => PaidUpTo(ToolPrices, p, shop[p])'
    BY <1>1, <1>4, <2>1 DEF NothingForFree, PaidUpTo
  <2> QED
    BY <1>4, <2>1, <2>3, <2>4 DEF Earnest
<1>7. \A q \in Shopper \ {p} : Earnest(q)'
  BY <1>1, <1>5 DEF FreeInv, Earnest, PaidUpTo
<1>8. EconTypes'
  <2>1. \A q \in Shopper : shop'[q] = NoShop \/ IsPurchase(shop'[q])
    BY <1>2, <1>3, <1>4, <1>5 DEF EconTypes
  <2> QED
    BY <1>1, <1>3, <1>4, <2>1 DEF EconTypes
<1> QED
  BY <1>1, <1>6, <1>7, <1>8 DEF FreeInv, NothingForFree

\* A purchase looks at the tiers that have been paid for.
LEMMA BuyKeeps ==
    ASSUME FreeInv, NEW p \in Shopper,
           \/ BuyUpgrade(p) \/ BuyTrap(p) \/ BuyTool(p) \/ BuyArmor(p)
           \/ \E bulk \in BOOLEAN : BuyGoods(p, bulk)
    PROVE  FreeInv'
<1>1. SideOf[p] \in Side /\ EconTypes
  BY EconConstants DEF FreeInv
<1>2. CASE BuyUpgrade(p)
  <2> DEFINE t == tier[SideOf[p]]
  <2>1. t < Len(TierPrices) /\ StartPurchase(p, "upgrade", t, TierPrices[t + 1])
    BY <1>2 DEF BuyUpgrade
  <2>2. t \in 0..Len(TierPrices) - 1
    BY <1>1, <2>1, EconConstants DEF EconTypes
  <2> QED
    BY <2>1, <2>2, BeginKeeps
<1>3. CASE BuyTrap(p)
  BY <1>3, BeginKeeps DEF BuyTrap
<1>4. CASE BuyTool(p)
  <2> DEFINE t == kit[p].tool
  <2>1. t < Len(ToolPrices) /\ StartPurchase(p, "tool", t, ToolPrices[t + 1])
    BY <1>4 DEF BuyTool
  <2>2. t \in 0..Len(ToolPrices) - 1
    BY <1>1, <2>1, EconConstants DEF EconTypes
  <2> QED
    BY <2>1, <2>2, BeginKeeps
<1>5. CASE BuyArmor(p)
  BY <1>5, BeginKeeps DEF BuyArmor
<1>6. ASSUME NEW bulk \in BOOLEAN, BuyGoods(p, bulk) PROVE FreeInv'
  BY <1>6, BeginKeeps DEF BuyGoods
<1> QED
  BY <1>2, <1>3, <1>4, <1>5, <1>6

\* What is paid is added to what was.
LEMMA PayKeeps == ASSUME FreeInv, NEW p \in Shopper, Pay(p) PROVE FreeInv'
<1>1. /\ EconTypes /\ shop = [q \in Shopper |-> shop[q]] /\ UNCHANGED <<tier, kit>>
      /\ shop[p].pc = "pay" /\ paid \in [Paying -> Nat] /\ SideOf \in [Shopper -> Side]
  BY EconConstants DEF FreeInv, EconTypes, Pay
<1>2. shop[p] # NoShop /\ IsPurchase(shop[p]) /\ Earnest(p)
  BY <1>1 DEF FreeInv, EconTypes, NoShop
<1>3. CASE shop' = [shop EXCEPT ![p] = NoShop] /\ UNCHANGED paid
  <2>1. \A q \in Shopper : shop'[q] = NoShop \/ shop'[q] = shop[q]
    BY <1>1, <1>3
  <2>2. shop' = [q \in Shopper |-> shop'[q]]
    BY <1>1, <1>3, Zenon
  <2>3. EconTypes'
    BY <1>1, <1>3, <2>1, <2>2 DEF EconTypes
  <2>4. \A q \in Shopper : Earnest(q)'
    BY <1>3, <2>1 DEF FreeInv, Earnest, PaidUpTo
  <2> QED
    BY <1>1, <1>3, <2>3, <2>4 DEF FreeInv, NothingForFree
<1>4. CASE /\ shop' = [shop EXCEPT ![p].pc = "apply"]
           /\ paid' = [x \in DOMAIN paid |->
                        IF x \in PaidFor(p, shop[p].what) THEN paid[x] + shop[p].price ELSE paid[x]]
  <2> DEFINE b == shop[p]
             c == [pc |-> "apply", what |-> b.what, seen |-> b.seen, price |-> b.price]
  <2>1. shop'[p] = c /\ \A q \in Shopper \ {p} : shop'[q] = shop[q]
    <3>1. shop'[p] = [b EXCEPT !.pc = "apply"] /\ \A q \in Shopper \ {p} : shop'[q] = shop[q]
      BY <1>1, <1>4
    <3>2. b = [pc |-> b.pc, what |-> b.what, seen |-> b.seen, price |-> b.price]
      BY <1>2 DEF IsPurchase
    <3>3. [b EXCEPT !.pc = "apply"] = c
      BY <3>2
    <3> QED
      BY <3>1, <3>3
  <2>2. shop' = [q \in Shopper |-> shop'[q]]
    BY <1>1, <1>4, Zenon
  <2>3. IsPurchase(c) /\ c.pc = "apply" /\ c.what = b.what /\ c.seen = b.seen /\ c.price = b.price
    BY DEF IsPurchase
  <2>4. /\ b.what = "upgrade" => PaidUpTo(TierPrices, SideOf[p], b)
        /\ b.what = "tool" => PaidUpTo(ToolPrices, p, b)
    BY <1>2 DEF Earnest
  <2> HIDE DEF b, c
  <2>5. b.what \in {"upgrade", "tool"} => b.price \in Nat
    BY <2>4, PriceGrows, EconConstants DEF PaidUpTo
  <2>6. ASSUME NEW x \in Paying
        PROVE  /\ paid[x] \in Nat /\ paid'[x] \in Nat /\ paid'[x] >= paid[x]
               /\ x \in PaidFor(p, b.what) => paid'[x] = paid[x] + b.price
    <3>1. paid[x] \in Nat /\ DOMAIN paid = Paying
      BY <1>1
    <3>2. paid'[x] = IF x \in PaidFor(p, b.what) THEN paid[x] + b.price ELSE paid[x]
      BY <1>4, <3>1 DEF b
    <3>3. x \in PaidFor(p, b.what) => b.what \in {"upgrade", "tool"}
      BY DEF PaidFor
    <3> QED
      BY <2>5, <3>1, <3>2, <3>3
  <2>7. paid' \in [Paying -> Nat]
    BY <1>1, <1>4, <2>6
  <2>8. EconTypes'
    <3>1. \A q \in Shopper : shop'[q] = NoShop \/ IsPurchase(shop'[q])
      BY <1>1, <2>1, <2>3 DEF EconTypes
    <3> QED
      BY <1>1, <2>2, <2>7, <3>1 DEF EconTypes
  <2>9. NothingForFree'
    <3>1. ASSUME NEW s \in Side PROVE paid'[s] >= PriceOf(TierPrices, tier'[s])
      <4>1. paid[s] >= PriceOf(TierPrices, tier[s]) /\ tier'[s] = tier[s] /\ tier[s] \in 0..Len(TierPrices)
        BY <1>1 DEF FreeInv, NothingForFree, EconTypes
      <4>2. PriceOf(TierPrices, tier[s]) \in Nat
        BY <4>1, PriceIsNat, EconConstants
      <4> QED
        BY <2>6, <4>1, <4>2 DEF Paying
    <3>2. ASSUME NEW q \in Shopper PROVE paid'[q] >= PriceOf(ToolPrices, kit'[q].tool)
      <4>1. paid[q] >= PriceOf(ToolPrices, kit[q].tool) /\ kit'[q] = kit[q] /\ kit[q].tool \in 0..Len(ToolPrices)
        BY <1>1 DEF FreeInv, NothingForFree, EconTypes
      <4>2. PriceOf(ToolPrices, kit[q].tool) \in Nat
        BY <4>1, PriceIsNat, EconConstants
      <4> QED
        BY <2>6, <4>1, <4>2 DEF Paying
    <3> QED
      BY <3>1, <3>2 DEF NothingForFree
  <2>10. ASSUME NEW q \in Shopper, q # p PROVE Earnest(q)'
    <3>1. Earnest(q) /\ shop'[q] = shop[q] /\ SideOf[q] \in Paying /\ q \in Paying
      BY <1>1, <2>1, <2>10 DEF FreeInv, Paying
    <3>2. \A x \in Paying : PaidUpTo(TierPrices, x, shop[q]) => PaidUpTo(TierPrices, x, shop[q])'
      BY <2>6, <2>7, <3>1, PaidStays, EconConstants
    <3>3. \A x \in Paying : PaidUpTo(ToolPrices, x, shop[q]) => PaidUpTo(ToolPrices, x, shop[q])'
      BY <2>6, <2>7, <3>1, PaidStays, EconConstants
    <3> QED
      BY <3>1, <3>2, <3>3 DEF Earnest
  <2>11. Earnest(p)'
    <3>1. ASSUME NEW prices \in Seq(Nat), NEW x \in Paying, x \in PaidFor(p, b.what), PaidUpTo(prices, x, b)
          PROVE  PaidUpTo(prices, x, shop[p])'
      <4>1. /\ b.seen \in 0..Len(prices) - 1 /\ b.price = prices[b.seen + 1]
            /\ paid[x] >= PriceOf(prices, b.seen)
        BY <1>1, <3>1 DEF PaidUpTo, b
      <4>2. /\ PriceOf(prices, b.seen + 1) = PriceOf(prices, b.seen) + b.price
            /\ PriceOf(prices, b.seen) \in Nat /\ b.price \in Nat
        BY <4>1, PriceGrows
      <4>3. paid'[x] = paid[x] + b.price /\ paid[x] \in Nat
        BY <2>6, <3>1
      <4>4. paid'[x] >= PriceOf(prices, b.seen + 1)
        BY <4>1, <4>2, <4>3
      <4> QED
        BY <2>1, <2>3, <4>1, <4>4 DEF PaidUpTo
    <3>2. b.what = "upgrade" => SideOf[p] \in Paying /\ SideOf[p] \in PaidFor(p, b.what)
      BY <1>1 DEF Paying, PaidFor
    <3>3. b.what = "tool" => p \in Paying /\ p \in PaidFor(p, b.what)
      BY DEF Paying, PaidFor
    <3>4. /\ b.what = "upgrade" => PaidUpTo(TierPrices, SideOf[p], shop[p])'
          /\ b.what = "tool" => PaidUpTo(ToolPrices, p, shop[p])'
      BY <2>4, <3>1, <3>2, <3>3, EconConstants
    <3> QED
      BY <2>1, <2>3, <3>4 DEF Earnest
  <2> QED
    BY <2>8, <2>9, <2>10, <2>11 DEF FreeInv
<1> QED
  BY <1>3, <1>4 DEF Pay

\* A purchase is applied: what it is for has been paid.
LEMMA ApplyKeeps == ASSUME FreeInv, NEW p \in Shopper, Apply(p) PROVE FreeInv'
<1> DEFINE b == shop[p]
           s == SideOf[p]
<1>1. /\ EconTypes /\ NothingForFree /\ shop = [q \in Shopper |-> shop[q]] /\ paid' = paid
      /\ b.pc = "apply" /\ s \in Side /\ Earnest(p)
  BY EconConstants DEF FreeInv, EconTypes, Apply
<1>2. /\ shop' = [shop EXCEPT ![p] = NoShop]
      /\ tier' = IF b.what = "upgrade" THEN [tier EXCEPT ![s] = b.seen + 1] ELSE tier
      /\ kit' = CASE b.what = "tool" -> [kit EXCEPT ![p].tool = b.seen + 1]
                  [] b.what = "armor" -> [kit EXCEPT ![p].armor = TRUE]
                  [] OTHER -> kit
  BY DEF Apply
<1>3. b # NoShop
  BY <1>1 DEF NoShop
<1>4. /\ b.what = "upgrade" => /\ b.seen + 1 \in 0..Len(TierPrices)
                               /\ paid[s] >= PriceOf(TierPrices, b.seen + 1)
      /\ b.what = "tool" => /\ b.seen + 1 \in 0..Len(ToolPrices)
                            /\ paid[p] >= PriceOf(ToolPrices, b.seen + 1)
  <2>1. /\ b.what = "upgrade" => PaidUpTo(TierPrices, s, b)
        /\ b.what = "tool" => PaidUpTo(ToolPrices, p, b)
    BY <1>1, <1>3 DEF Earnest
  <2> HIDE DEF b, s
  <2> QED
    BY SMTT(20), <1>1, <2>1, EconConstants DEF PaidUpTo
<1>5. \A q \in Shopper : shop'[q] = NoShop \/ shop'[q] = shop[q]
  BY <1>1, <1>2
<1>6. shop' = [q \in Shopper |-> shop'[q]]
  BY <1>1, <1>2, Zenon
<1>7. \A q \in Shopper : Earnest(q)'
  <2>1. \A q \in Shopper : Earnest(q)
    BY DEF FreeInv
  <2> QED
    BY <1>1, <1>5, <2>1 DEF Earnest, PaidUpTo
<1>8. /\ tier' \in [Side -> 0..Len(TierPrices)]
      /\ \A r \in Side : paid[r] >= PriceOf(TierPrices, tier'[r])
  <2> HIDE DEF b, s
  <2>1. CASE b.what = "upgrade"
    BY <1>1, <1>2, <1>4, <2>1 DEF EconTypes, NothingForFree
  <2>2. CASE b.what # "upgrade"
    BY <1>1, <1>2, <2>2 DEF EconTypes, NothingForFree
  <2> QED
    BY <2>1, <2>2
<1>9. /\ kit' \in [Shopper -> [armor : BOOLEAN, tool : 0..Len(ToolPrices)]]
      /\ \A q \in Shopper : paid[q] >= PriceOf(ToolPrices, kit'[q].tool)
  <2> HIDE DEF b, s
  <2>1. CASE b.what = "tool"
    <3>1. kit' = [kit EXCEPT ![p].tool = b.seen + 1]
      BY <1>2, <2>1
    <3>2. kit'[p].tool = b.seen + 1 /\ \A q \in Shopper \ {p} : kit'[q] = kit[q]
      BY <1>1, <3>1 DEF EconTypes
    <3>3. kit' \in [Shopper -> [armor : BOOLEAN, tool : 0..Len(ToolPrices)]]
      BY <1>1, <1>4, <2>1, <3>1 DEF EconTypes
    <3> QED
      BY <1>1, <1>4, <2>1, <3>2, <3>3 DEF NothingForFree
  <2>2. CASE b.what = "armor"
    <3>1. kit' = [kit EXCEPT ![p].armor = TRUE]
      BY <1>2, <2>2
    <3>2. \A q \in Shopper : kit'[q].tool = kit[q].tool
      BY <1>1, <3>1 DEF EconTypes
    <3>3. kit' \in [Shopper -> [armor : BOOLEAN, tool : 0..Len(ToolPrices)]]
      BY <1>1, <3>1 DEF EconTypes
    <3> QED
      BY <1>1, <3>2, <3>3 DEF NothingForFree
  <2>3. CASE b.what # "tool" /\ b.what # "armor"
    <3>1. kit' = kit
      BY <1>2, <2>3
    <3> QED
      BY <1>1, <3>1 DEF EconTypes, NothingForFree
  <2> QED
    BY <2>1, <2>2, <2>3
<1>10. EconTypes'
  BY <1>1, <1>5, <1>6, <1>8, <1>9 DEF EconTypes
<1>11. NothingForFree'
  BY <1>1, <1>8, <1>9 DEF NothingForFree
<1> QED
  BY <1>7, <1>10, <1>11 DEF FreeInv

\* A death takes a tier of the tool.
LEMMA SlainKeeps ==
    ASSUME FreeInv, NEW v \in Shopper, NEW k \in Shopper, NEW bed \in BOOLEAN, Slain(v, k, bed)
    PROVE  FreeInv'
<1>1. /\ kit' = [kit EXCEPT ![v].tool = IF @ > 1 THEN @ - 1 ELSE @] /\ UNCHANGED <<tier, shop, paid>>
      /\ EconTypes /\ NothingForFree /\ kit \in [Shopper -> [armor : BOOLEAN, tool : 0..Len(ToolPrices)]]
  BY DEF Slain, FreeInv, EconTypes
<1> DEFINE n == kit[v].tool
           m == IF n > 1 THEN n - 1 ELSE n
<1>2. n \in 0..Len(ToolPrices) /\ Len(ToolPrices) \in Nat /\ m \in 0..Len(ToolPrices)
  BY <1>1, EconConstants
<1>3. kit' = [kit EXCEPT ![v].tool = m]
  BY <1>1
<1>4. kit' \in [Shopper -> [armor : BOOLEAN, tool : 0..Len(ToolPrices)]]
  BY <1>1, <1>2, <1>3
<1>5. kit'[v].tool = m /\ \A q \in Shopper \ {v} : kit'[q] = kit[q]
  BY <1>1, <1>3
<1>6. PriceOf(ToolPrices, m) <= PriceOf(ToolPrices, n)
  <2>1. CASE n > 1
    <3>1. n - 1 \in 0..Len(ToolPrices) - 1 /\ (n - 1) + 1 = n /\ m = n - 1
      BY <1>2, <2>1
    <3> HIDE DEF n, m
    <3> QED
      BY <3>1, PriceGrows, EconConstants
  <2>2. CASE ~(n > 1)
    BY <1>2, <2>2, PriceIsNat, EconConstants
  <2> QED
    BY <2>1, <2>2
<1>7. /\ PriceOf(ToolPrices, m) \in Nat /\ PriceOf(ToolPrices, n) \in Nat /\ paid[v] \in Nat
      /\ paid[v] >= PriceOf(ToolPrices, n)
  BY <1>1, <1>2, PriceIsNat, EconConstants DEF EconTypes, Paying, NothingForFree
<1> HIDE DEF n, m
<1>8. NothingForFree'
  <2>1. paid[v] >= PriceOf(ToolPrices, m)
    BY <1>6, <1>7
  <2> QED
    BY <1>1, <1>5, <2>1 DEF NothingForFree
<1>9. \A q \in Shopper : Earnest(q)'
  BY <1>1 DEF FreeInv, Earnest, PaidUpTo
<1>10. EconTypes'
  BY <1>1, <1>4 DEF EconTypes
<1> QED
  BY <1>8, <1>9, <1>10 DEF FreeInv

\* Every step of the shop keeps what was paid ahead of what was bought.
LEMMA EconSteps == ASSUME FreeInv, [EconNext]_econVars PROVE FreeInv'
<1>1. CASE UNCHANGED econVars
  BY <1>1, NothingBought DEF econVars
<1>2. CASE EconTick
  BY <1>2, NothingBought DEF EconTick
<1>3. ASSUME NEW p \in Shopper,
             \/ EquipAgain(p) \/ CollectPile(p) \/ CountLoot(p) \/ GiveLoot(p) \/ ClearVictim(p)
             \/ \E s \in Side : Walk(p, s)
      PROVE  FreeInv'
  BY <1>3, NothingBought DEF EquipAgain, CollectPile, CountLoot, GiveLoot, ClearVictim, Walk
<1>4. ASSUME NEW p \in Shopper,
             \/ BuyUpgrade(p) \/ BuyTrap(p) \/ BuyTool(p) \/ BuyArmor(p)
             \/ \E bulk \in BOOLEAN : BuyGoods(p, bulk)
      PROVE  FreeInv'
  BY <1>4, BuyKeeps
<1> QED
  BY <1>1, <1>2, <1>3, <1>4, PayKeeps, ApplyKeeps, SlainKeeps DEF EconNext

\* For any prices, shoppers, teams and killers: no tier of the team's upgrade and of a
\* player's tool is had that was not paid for, and every one below it.
THEOREM NothingIsFree == EconSpec => []NothingForFree
<1>1. FreeInv => NothingForFree
  BY DEF FreeInv
<1> QED
  BY <1>1, EconInits, EconSteps, PTL DEF EconSpec

-----------------------------------------------------------------------------
(***************************************************************************)
(* Wrong passwords.  An address's counter is at least what it guessed      *)
(* wrong in a ban's duration.  Once it is at the limit the address is      *)
(* banned, and each further guess is the last of its connection: the       *)
(* counter and the connections that may still guess do not grow together.  *)
(***************************************************************************)

Sessions == [at : {"out", "auth", "hub"}, name : AccountName \cup {Nobody},
             step : {"idle", "hash", "verify", "admit", "leave"}]

Limit == AuthMaxAttempts * IpSprayFactor
MayGuess(s) == s.step = "verify" \/ (s.at = "auth" /\ s.step = "idle")
From(a) == {c \in Visitor : AddressOf[c] = a}
Guessers(a) == {c \in From(a) : MayGuess(sess[c])}
Fails(a) == LiveFails(ipFails[a])
Made(a) == SumFunctionOnSet(guesses[a], GuessAges)

GateTypes ==
    /\ second \in Nat \ {0} /\ sess \in [Visitor -> Sessions]
    /\ ipFails \in [Address -> [n : Nat, last : Nat]]
    /\ guesses \in [Address -> [GuessAges -> Nat]]
    /\ ipBans \in [Address -> Nat]

\* What was guessed is counted; the count ends when the last guess is too old.
Counts(a) ==
    /\ Made(a) <= Fails(a) /\ ipFails[a].last <= second
    /\ \A age \in GuessAges : age < second - ipFails[a].last => guesses[a][age] = 0

LastGuesses(a) ==
    Fails(a) >= Limit => /\ ipBans[a] # 0
                         /\ Fails(a) + Cardinality(Guessers(a)) < Limit + Cardinality(From(a))

GateInv == GateTypes /\ \A a \in Address : Counts(a) /\ LastGuesses(a)

\* The limit and the ages of a guess are numbers, an address has finitely many connections.
LEMMA GateConstants ==
    /\ Limit \in Nat \ {0} /\ AuthBanDuration \in Nat \ {0} /\ AddressOf \in [Visitor -> Address]
    /\ IsFiniteSet(GuessAges) /\ 0 \in GuessAges /\ GuessAges = 0..AuthBanDuration - 1
    /\ \A a \in Address : IsFiniteSet(From(a)) /\ Cardinality(From(a)) \in Nat
<1>1. /\ AuthMaxAttempts \in Nat \ {0} /\ IpSprayFactor \in Nat \ {0} /\ AuthBanDuration \in Nat \ {0}
      /\ AddressOf \in [Visitor -> Address] /\ IsFiniteSet(Visitor)
  BY GateAssumption DEF GateAssumption
<1>2. Limit \in Nat \ {0}
  BY <1>1 DEF Limit
<1>3. GuessAges = 0..AuthBanDuration - 1 /\ 0 \in GuessAges /\ 0 \in Int /\ AuthBanDuration - 1 \in Int
  BY <1>1 DEF GuessAges
<1>4. \A a \in Address : IsFiniteSet(From(a)) /\ Cardinality(From(a)) \in Nat
  BY <1>1, FS_Subset, FS_CardinalityType DEF From
<1> QED
  BY <1>1, <1>2, <1>3, <1>4, FS_Interval

\* Those who may still guess are some of the connections.
LEMMA GuessersCount ==
    ASSUME NEW a \in Address
    PROVE  /\ IsFiniteSet(Guessers(a)) /\ Cardinality(Guessers(a)) \in Nat
           /\ Cardinality(Guessers(a)) <= Cardinality(From(a))
BY GateConstants, FS_Subset, FS_CardinalityType DEF Guessers

\* What is counted of an address are numbers.
LEMMA NumbersOf ==
    ASSUME GateTypes, NEW a \in Address
    PROVE  /\ Made(a) \in Nat /\ Fails(a) \in Nat /\ ipFails[a].n \in Nat /\ ipFails[a].last \in Nat
           /\ \A age \in GuessAges : guesses[a][age] \in Nat
<1>1. guesses[a] \in [GuessAges -> Nat] /\ ipFails[a] \in [n : Nat, last : Nat]
  BY DEF GateTypes
<1> QED
  BY <1>1, SumOfNats, GateConstants DEF Made, Fails, LiveFails

\* At first nobody has guessed.
LEMMA GateInits == ASSUME GateInit PROVE GateInv
<1>1. GateTypes
  BY DEF GateInit, GateTypes, NoSession, NoFails, Sessions
<1>2. ASSUME NEW a \in Address PROVE Counts(a) /\ LastGuesses(a)
  <2>1. \A age \in GuessAges : guesses[a][age] = 0
    BY DEF GateInit
  <2>2. Made(a) = 0
    BY <2>1, GateConstants, SumOfZeros DEF Made
  <2>3. Fails(a) = 0 /\ ipFails[a].last = 0
    BY DEF GateInit, Fails, LiveFails, NoFails
  <2>4. 0 <= second
    BY DEF GateInit
  <2> QED
    BY <2>1, <2>2, <2>3, <2>4, GateConstants DEF Counts, LastGuesses
<1> QED
  BY <1>1, <1>2 DEF GateInv

\* The counters are left alone, a ban is, and no connection may guess that could not.
LEMMA CountsStay ==
    ASSUME GateInv, UNCHANGED <<second, ipFails, guesses>>, sess' \in [Visitor -> Sessions],
           ipBans' \in [Address -> Nat], \A a \in Address : ipBans[a] # 0 => ipBans'[a] # 0,
           \A c \in Visitor : MayGuess(sess'[c]) => MayGuess(sess[c])
    PROVE  GateInv'
<1>1. GateTypes'
  BY DEF GateInv, GateTypes
<1>2. ASSUME NEW a \in Address PROVE Counts(a)' /\ LastGuesses(a)'
  <2>1. Counts(a) /\ LastGuesses(a) /\ Made(a)' = Made(a) /\ Fails(a)' = Fails(a)
    BY DEF GateInv, Made, Fails, LiveFails
  <2>2. Counts(a)'
    BY <2>1 DEF Counts
  <2>3. Cardinality(Guessers(a)') <= Cardinality(Guessers(a)) /\ Cardinality(Guessers(a)') \in Nat
    <3>1. Guessers(a)' \subseteq Guessers(a)
      BY DEF Guessers, From
    <3> QED
      BY <3>1, GuessersCount, FS_Subset, FS_CardinalityType
  <2>4. /\ Fails(a) \in Nat /\ Cardinality(Guessers(a)) \in Nat /\ Cardinality(From(a)) \in Nat
        /\ Limit \in Nat
    BY NumbersOf, GuessersCount, GateConstants DEF GateInv
  <2>5. ASSUME Fails(a) >= Limit
        PROVE  Fails(a) + Cardinality(Guessers(a)') < Limit + Cardinality(From(a))
    BY <2>1, <2>3, <2>4, <2>5 DEF LastGuesses
  <2>6. LastGuesses(a)'
    BY <2>1, <2>5 DEF LastGuesses
  <2> QED
    BY <2>2, <2>6
<1> QED
  BY <1>1, <1>2 DEF GateInv

\* One connection's session changes.
LEMMA StepStays ==
    ASSUME GateInv, UNCHANGED <<second, ipFails, guesses, ipBans>>, NEW c \in Visitor, NEW s \in Sessions,
           sess' = [sess EXCEPT ![c] = s], MayGuess(s) => MayGuess(sess[c])
    PROVE  GateInv'
<1>1. sess \in [Visitor -> Sessions] /\ ipBans \in [Address -> Nat]
  BY DEF GateInv, GateTypes
<1>2. sess' \in [Visitor -> Sessions] /\ sess'[c] = s /\ \A d \in Visitor \ {c} : sess'[d] = sess[d]
  BY <1>1
<1> QED
  BY <1>1, <1>2, CountsStay

\* What a connection becomes is a session still, and one that ends may guess no more.
LEMMA SessionSteps ==
    ASSUME NEW s \in Sessions
    PROVE  /\ Ended(s) \in Sessions /\ (MayGuess(Ended(s)) => MayGuess(s))
           /\ Stepped(s) \in Sessions /\ (Stepped(s) = NoSession \/ Stepped(s) = [s EXCEPT !.step = "idle"])
           /\ \A t \in {"idle", "hash", "verify", "admit", "leave"} :
                 /\ [s EXCEPT !.step = t] \in Sessions /\ [s EXCEPT !.step = t].at = s.at
                 /\ [s EXCEPT !.step = t].step = t
           /\ NoSession \in Sessions /\ ~MayGuess(NoSession)
           /\ \A t \in {"out", "auth", "hub"} :
                 /\ [s EXCEPT !.at = t] \in Sessions /\ [s EXCEPT !.at = t].at = t
                 /\ [s EXCEPT !.at = t].step = s.step
<1>1. NoSession \in Sessions /\ ~MayGuess(NoSession)
  BY DEF NoSession, Sessions, MayGuess
<1>2. \A t \in {"idle", "hash", "verify", "admit", "leave"} :
        /\ [s EXCEPT !.step = t] \in Sessions /\ [s EXCEPT !.step = t].at = s.at
        /\ [s EXCEPT !.step = t].step = t
  BY DEF Sessions
<1>3. \A t \in {"out", "auth", "hub"} :
        /\ [s EXCEPT !.at = t] \in Sessions /\ [s EXCEPT !.at = t].at = t
        /\ [s EXCEPT !.at = t].step = s.step
  BY DEF Sessions
<1>4. Ended(s) \in Sessions /\ (MayGuess(Ended(s)) => MayGuess(s))
  BY <1>1, <1>3 DEF Ended, MayGuess
<1>5. Stepped(s) \in Sessions /\ (Stepped(s) = NoSession \/ Stepped(s) = [s EXCEPT !.step = "idle"])
  BY <1>1, <1>2 DEF Stepped
<1> QED
  BY <1>1, <1>2, <1>3, <1>4, <1>5

\* A step of one connection that is no guess keeps the invariant.
LEMMA QuietSteps ==
    ASSUME GateInv, NEW c \in Visitor,
           \/ Disconnect(c) \/ RegisterCheck(c) \/ RegisterStore(c) \/ LoginCheck(c)
           \/ LoginRight(c) \/ Expel(c) \/ WatchLook(c) \/ WatchKick(c)
    PROVE  GateInv'
<1>1. sess[c] \in Sessions /\ sess \in [Visitor -> Sessions]
  BY DEF GateInv, GateTypes
<1>2. CASE Disconnect(c) \/ Expel(c) \/ WatchKick(c)
  <2>1. UNCHANGED <<second, ipFails, guesses, ipBans>> /\ sess' = [sess EXCEPT ![c] = Ended(sess[c])]
    BY <1>1, <1>2 DEF Disconnect, Expel, WatchKick, SessionGone, countVars
  <2> QED
    BY <1>1, <2>1, SessionSteps, StepStays
<1>3. ASSUME NEW t \in {"idle", "hash", "verify", "admit", "leave"}, t # "idle",
             sess' = [sess EXCEPT ![c].step = t], UNCHANGED <<second, ipFails, guesses, ipBans>>,
             t = "verify" => MayGuess(sess[c])
      PROVE  GateInv'
  <2> DEFINE s == [sess[c] EXCEPT !.step = t]
  <2>0. sess' = [sess EXCEPT ![c] = s]
    BY <1>3
  <2>1. s \in Sessions /\ s.step = t
    BY <1>1 DEF Sessions
  <2>2. MayGuess(s) => MayGuess(sess[c])
    BY <1>3, <2>1 DEF MayGuess
  <2> HIDE DEF s
  <2> QED
    BY <1>3, <2>0, <2>1, <2>2, StepStays
<1>4. CASE RegisterCheck(c)
  BY <1>3, <1>4 DEF RegisterCheck, countVars
<1>5. CASE RegisterStore(c)
  BY <1>3, <1>5 DEF RegisterStore, countVars
<1>6. CASE LoginCheck(c)
  BY <1>3, <1>6 DEF LoginCheck, Waiting, MayGuess, countVars
<1>7. CASE LoginRight(c)
  BY <1>3, <1>7 DEF LoginRight, MayGuess, countVars
<1>8. CASE WatchLook(c)
  <2>1. UNCHANGED <<second, ipFails, guesses, ipBans, sess>>
    BY <1>8 DEF WatchLook, countVars
  <2> QED
    BY <1>1, <2>1, CountsStay DEF GateInv, GateTypes
<1> QED
  BY <1>2, <1>4, <1>5, <1>6, <1>7, <1>8

\* Letting somebody in is no guess.
LEMMA AdmitKeeps == ASSUME GateInv, NEW c \in Visitor, Admit(c) PROVE GateInv'
<1> DEFINE s == ToHub(sess[c])
<1>1. sess[c] \in Sessions /\ sess \in [Visitor -> Sessions]
  BY DEF GateInv, GateTypes
<1>2. UNCHANGED <<second, ipFails, guesses, ipBans>> /\ sess' = [sess EXCEPT ![c] = Stepped(s)]
  BY <1>1 DEF Admit
<1>3. s \in Sessions /\ s.at # "auth"
  <2> DEFINE t == IF sess[c].at = "auth" THEN "hub" ELSE sess[c].at
  <2>1. s = [sess[c] EXCEPT !.at = t] /\ t \in {"out", "auth", "hub"} /\ t # "auth"
    BY <1>1 DEF Sessions, ToHub
  <2> HIDE DEF t, s
  <2> QED
    BY <1>1, <2>1, SessionSteps
<1> HIDE DEF s
<1>4. Stepped(s) \in Sessions /\ ~MayGuess(Stepped(s))
  <2>1. Stepped(s) \in Sessions /\ (Stepped(s) = NoSession \/ Stepped(s) = [s EXCEPT !.step = "idle"])
    BY <1>3, SessionSteps
  <2>2. ~MayGuess([s EXCEPT !.step = "idle"])
    <3> DEFINE r == [s EXCEPT !.step = "idle"]
    <3>1. r.at # "auth" /\ r.step = "idle"
      BY <1>3, SessionSteps
    <3> HIDE DEF r
    <3>2. ~MayGuess(r)
      BY <3>1 DEF MayGuess
    <3> QED
      BY <3>2 DEF r
  <2>3. ~MayGuess(NoSession)
    BY <1>3, SessionSteps
  <2> QED
    BY <2>1, <2>2, <2>3
<1> QED
  BY <1>2, <1>4, StepStays

\* A ban that is over is dropped, and the address forgotten.
LEMMA Forgotten ==
    ASSUME GateInv, NEW a \in Address, ForgetAddress(a), second' = second,
           sess' \in [Visitor -> Sessions], ipBans' \in [Address -> Nat],
           \A b \in Address \ {a} : ipBans'[b] = ipBans[b],
           \A c \in Visitor : AddressOf[c] # a => sess'[c] = sess[c]
    PROVE  GateInv'
<1> DEFINE none == [age \in GuessAges |-> 0]
<1>1. /\ ipFails' = [ipFails EXCEPT ![a] = NoFails] /\ guesses' = [guesses EXCEPT ![a] = none]
      /\ GateTypes
  BY DEF ForgetAddress, GateInv
<1>2. /\ ipFails'[a] = NoFails /\ guesses'[a] = none
      /\ \A b \in Address \ {a} : ipFails'[b] = ipFails[b] /\ guesses'[b] = guesses[b]
  BY <1>1 DEF GateTypes
<1>3. GateTypes'
  <2>1. NoFails \in [n : Nat, last : Nat] /\ none \in [GuessAges -> Nat]
    BY DEF NoFails
  <2> HIDE DEF none
  <2> QED
    BY <1>1, <2>1 DEF GateTypes
<1>4. Counts(a)' /\ LastGuesses(a)'
  <2>1. \A age \in GuessAges : guesses'[a][age] = 0
    BY <1>2
  <2>2. Made(a)' = 0
    BY <2>1, GateConstants, SumOfZeros DEF Made
  <2>3. Fails(a)' = 0 /\ ipFails'[a].last = 0
    BY <1>2 DEF Fails, LiveFails, NoFails
  <2>4. 0 <= second'
    BY <1>1 DEF GateTypes
  <2> QED
    BY <2>1, <2>2, <2>3, <2>4, GateConstants DEF Counts, LastGuesses
<1>5. ASSUME NEW b \in Address, b # a PROVE Counts(b)' /\ LastGuesses(b)'
  <2>1. Counts(b) /\ LastGuesses(b)
    BY DEF GateInv
  <2>2. Made(b)' = Made(b) /\ Fails(b)' = Fails(b) /\ ipFails'[b] = ipFails[b] /\ guesses'[b] = guesses[b]
    BY <1>2, <1>5 DEF Made, Fails, LiveFails
  <2>3. Guessers(b)' = Guessers(b) /\ From(b)' = From(b)
    BY <1>5 DEF Guessers, From
  <2> QED
    BY <1>5, <2>1, <2>2, <2>3 DEF Counts, LastGuesses
<1> QED
  BY <1>3, <1>4, <1>5 DEF GateInv

\* An unban forgets the counter with the ban.
LEMMA UnbanKeeps == ASSUME GateInv, NEW a \in Address, UnbanIP(a) PROVE GateInv'
<1>1. /\ ForgetAddress(a) /\ UNCHANGED <<second, sess>> /\ ipBans' = [ipBans EXCEPT ![a] = 0]
      /\ sess \in [Visitor -> Sessions] /\ ipBans \in [Address -> Nat]
  BY DEF UnbanIP, GateInv, GateTypes
<1>2. ipBans' \in [Address -> Nat] /\ \A b \in Address \ {a} : ipBans'[b] = ipBans[b]
  BY <1>1
<1> QED
  BY <1>1, <1>2, Forgotten

\* An address that is not banned has guesses left, but those of the connection that comes.
LEMMA ArriveKeeps == ASSUME GateInv, NEW c \in Visitor, NEW n \in AccountName, ArriveAtGate(c, n) PROVE GateInv'
<1> DEFINE a == AddressOf[c]
           s == [at |-> "auth", name |-> n, step |-> "idle"]
<1>1. /\ GateTypes /\ a \in Address /\ s \in Sessions /\ sess \in [Visitor -> Sessions]
      /\ ipBans \in [Address -> Nat]
  BY GateConstants DEF GateInv, GateTypes, Sessions
<1>2. sess' = [sess EXCEPT ![c] = s] /\ second' = second
  BY DEF ArriveAtGate
<1> HIDE DEF s
<1>3. sess' \in [Visitor -> Sessions] /\ \A d \in Visitor \ {c} : sess'[d] = sess[d]
  BY <1>1, <1>2
<1>4. CASE ipBans[a] # 0
  <2>1. ipBans' = [ipBans EXCEPT ![a] = 0] /\ ForgetAddress(a)
    BY <1>4 DEF ArriveAtGate
  <2>2. ipBans' \in [Address -> Nat] /\ \A b \in Address \ {a} : ipBans'[b] = ipBans[b]
    BY <1>1, <2>1
  <2>3. \A d \in Visitor : AddressOf[d] # a => sess'[d] = sess[d]
    BY <1>3
  <2> HIDE DEF a
  <2> QED
    BY <1>1, <1>2, <1>3, <2>1, <2>2, <2>3, Forgotten
<1>5. CASE ipBans[a] = 0
  <2>1. UNCHANGED <<second, ipFails, guesses, ipBans>>
    BY <1>5 DEF ArriveAtGate, countVars
  <2>2. GateTypes'
    BY <1>1, <1>3, <2>1 DEF GateTypes
  <2>3. ASSUME NEW b \in Address PROVE Counts(b)' /\ LastGuesses(b)'
    <3>1. Counts(b) /\ LastGuesses(b) /\ Made(b)' = Made(b) /\ Fails(b)' = Fails(b)
      BY <2>1 DEF GateInv, Made, Fails, LiveFails
    <3>2. Counts(b)'
      BY <2>1, <3>1 DEF Counts
    <3>3. CASE b = a
      <4>1. ~(Fails(b) >= Limit)
        BY <1>5, <3>1, <3>3 DEF LastGuesses
      <4> QED
        BY <3>1, <3>2, <4>1 DEF LastGuesses
    <3>4. CASE b # a
      <4>1. Guessers(b)' = Guessers(b) /\ From(b)' = From(b)
        BY <1>3, <3>4 DEF Guessers, From
      <4> QED
        BY <2>1, <3>1, <3>2, <4>1 DEF LastGuesses
    <3> QED
      BY <3>3, <3>4
  <2> QED
    BY <2>2, <2>3 DEF GateInv
<1> QED
  BY <1>4, <1>5

\* A wrong password counts in both.  At the limit the address is banned and the guesser
\* guesses no more.
LEMMA FailKeeps == ASSUME GateInv, NEW c \in Visitor, RecordFail(c) PROVE GateInv'
<1> DEFINE a == AddressOf[c]
           bump == [n |-> Fails(a) + 1, last |-> second]
           B == guesses'[a]
           A == guesses[a]
<1>1. /\ GateTypes /\ a \in Address /\ second \in Nat \ {0} /\ sess \in [Visitor -> Sessions]
      /\ sess[c] \in Sessions /\ ipFails \in [Address -> [n : Nat, last : Nat]]
      /\ guesses \in [Address -> [GuessAges -> Nat]] /\ ipBans \in [Address -> Nat]
  BY GateConstants DEF GateInv, GateTypes
<1>2. /\ sess[c].step = "verify" /\ second' = second
      /\ ipFails' = [ipFails EXCEPT ![a] = bump] /\ guesses' = [guesses EXCEPT ![a][0] = @ + 1]
  BY <1>1 DEF RecordFail, Bump, Fails
<1>3. Fails(a) \in Nat /\ bump \in [n : Nat, last : Nat]
  BY <1>1, NumbersOf
<1>4. /\ ipFails' \in [Address -> [n : Nat, last : Nat]] /\ ipFails'[a] = bump
      /\ \A b \in Address \ {a} : ipFails'[b] = ipFails[b]
  <2> HIDE DEF bump, a
  <2> QED
    BY <1>1, <1>2, <1>3
<1>5. /\ guesses' \in [Address -> [GuessAges -> Nat]] /\ B = [A EXCEPT ![0] = A[0] + 1]
      /\ \A b \in Address \ {a} : guesses'[b] = guesses[b]
  <2>1. A \in [GuessAges -> Nat] /\ 0 \in GuessAges /\ A[0] \in Nat
    BY <1>1, GateConstants
  <2>2. guesses' = [guesses EXCEPT ![a] = [A EXCEPT ![0] = A[0] + 1]]
    BY <1>1, <1>2
  <2>3. [A EXCEPT ![0] = A[0] + 1] \in [GuessAges -> Nat]
    BY <2>1
  <2> HIDE DEF a
  <2> QED
    BY <1>1, <2>2, <2>3
<1>6. Fails(a)' = Fails(a) + 1
  <2>1. Fails(a)' = IF second - bump.last >= AuthBanDuration THEN 0 ELSE bump.n
    BY <1>2, <1>4 DEF Fails, LiveFails
  <2>2. bump.last = second /\ bump.n = Fails(a) + 1
    OBVIOUS
  <2> QED
    BY <1>1, <2>1, <2>2, GateConstants
<1>7. Made(a)' = Made(a) + 1
  <2>1. A \in [GuessAges -> Nat] /\ 0 \in GuessAges /\ IsFiniteSet(GuessAges) /\ A[0] \in Nat
    BY <1>1, GateConstants
  <2>2. \A age \in GuessAges : A[age] \in Int /\ B[age] \in Int /\ (age # 0 => B[age] = A[age])
    BY <1>5, <2>1
  <2>3. B[0] = A[0] + 1
    BY <1>5, <2>1
  <2>4. Made(a) = SumFunctionOnSet(A, GuessAges) /\ Made(a)' = SumFunctionOnSet(B, GuessAges)
    BY DEF Made
  <2> HIDE DEF A, B
  <2>5. SumFunctionOnSet(B, GuessAges) = SumFunctionOnSet(A, GuessAges) - A[0] + B[0]
    BY <2>1, <2>2, SumChanges
  <2>6. Made(a) \in Nat
    BY <1>1, NumbersOf
  <2> QED
    BY <2>1, <2>3, <2>4, <2>5, <2>6
<1>8. Counts(a)'
  <2>1. Made(a)' <= Fails(a)'
    BY <1>1, <1>3, <1>6, <1>7, NumbersOf DEF GateInv, Counts
  <2>2. ipFails'[a].last = second' /\ second' \in Nat
    <3>1. ipFails'[a] = bump /\ second' = second /\ second \in Nat
      BY <1>1, <1>2, <1>4
    <3>2. bump.last = second
      OBVIOUS
    <3> HIDE DEF bump
    <3> QED
      BY <3>1, <3>2
  <2>3. \A age \in GuessAges : ~(age < second' - ipFails'[a].last)
    <3>1. ASSUME NEW x \in Nat PROVE x - x = 0
      OBVIOUS
    <3>2. second' - ipFails'[a].last = 0
      BY <2>2, <3>1, Zenon
    <3>3. \A age \in GuessAges : ~(age < 0)
      BY GateConstants
    <3> QED
      BY <3>2, <3>3, Zenon
  <2> QED
    BY <2>1, <2>2, <2>3 DEF Counts
<1>9. /\ ipBans' \in [Address -> Nat] /\ sess' \in [Visitor -> Sessions]
      /\ \A b \in Address \ {a} : ipBans'[b] = ipBans[b]
      /\ \A d \in Visitor \ {c} : sess'[d] = sess[d]
      /\ MayGuess(sess'[c]) => ipBans' = ipBans
      /\ ipBans[a] # 0 => ipBans'[a] # 0
      /\ Fails(a)' >= Limit => ipBans'[a] # 0 /\ ~MayGuess(sess'[c])
  <2>1. CASE sess' = [sess EXCEPT ![c].step = "leave"] /\ ipBans' = [ipBans EXCEPT ![a] = second + AuthBanDuration]
    <3>1. /\ sess' = [sess EXCEPT ![c] = [sess[c] EXCEPT !.step = "leave"]]
          /\ second + AuthBanDuration \in Nat /\ second + AuthBanDuration # 0
      BY <1>1, <2>1, GateConstants
    <3>2. [sess[c] EXCEPT !.step = "leave"] \in Sessions /\ [sess[c] EXCEPT !.step = "leave"].step = "leave"
      BY ZenonT(40), <1>1, SessionSteps
    <3>3. ~MayGuess([sess[c] EXCEPT !.step = "leave"])
      BY <3>2 DEF MayGuess
    <3>4. ipBans' \in [Address -> Nat] /\ ipBans'[a] # 0 /\ \A b \in Address \ {a} : ipBans'[b] = ipBans[b]
      BY <1>1, <2>1, <3>1
    <3>5. /\ sess'[c] = [sess[c] EXCEPT !.step = "leave"] /\ sess' \in [Visitor -> Sessions]
          /\ \A d \in Visitor \ {c} : sess'[d] = sess[d]
      BY <1>1, <3>1, <3>2
    <3> QED
      BY <3>3, <3>4, <3>5
  <2>2. CASE /\ sess' = [sess EXCEPT ![c] = Stepped(@)] /\ ipBans' = ipBans
             /\ ~(ipFails'[a].n >= Limit)
    <3>1. sess' = [sess EXCEPT ![c] = Stepped(sess[c])] /\ Stepped(sess[c]) \in Sessions
      BY <1>1, <2>2, SessionSteps
    <3>2. sess' \in [Visitor -> Sessions] /\ \A d \in Visitor \ {c} : sess'[d] = sess[d]
      BY <1>1, <3>1
    <3>3. ipFails'[a].n = Fails(a)'
      BY <1>4, <1>6
    <3> QED
      BY <1>1, <2>2, <3>2, <3>3
  <2> QED
    BY <2>1, <2>2 DEF RecordFail, Limit
<1>10. GateTypes'
  BY <1>1, <1>2, <1>4, <1>5, <1>9 DEF GateTypes
<1>11. LastGuesses(a)'
  <2>1. SUFFICES ASSUME Fails(a)' >= Limit
                 PROVE  /\ ipBans'[a] # 0
                        /\ Fails(a)' + Cardinality(Guessers(a)') < Limit + Cardinality(From(a))
    BY DEF LastGuesses, From
  <2>2. ipBans'[a] # 0 /\ ~MayGuess(sess'[c])
    BY <1>9, <2>1
  <2>3. c \in Guessers(a) /\ Guessers(a)' \subseteq Guessers(a) \ {c}
    BY <1>2, <1>9, <2>2 DEF Guessers, From, MayGuess
  <2>4. /\ IsFiniteSet(Guessers(a)) /\ IsFiniteSet(Guessers(a) \ {c})
        /\ Cardinality(Guessers(a) \ {c}) = Cardinality(Guessers(a)) - 1
    BY <1>1, <2>3, GuessersCount, FS_RemoveElement
  <2>5. Cardinality(Guessers(a)') <= Cardinality(Guessers(a)) - 1 /\ Cardinality(Guessers(a)') \in Nat
    BY <2>3, <2>4, FS_Subset, FS_CardinalityType
  <2>6. /\ Cardinality(Guessers(a)) \in Nat /\ Cardinality(Guessers(a)) <= Cardinality(From(a))
        /\ Cardinality(From(a)) \in Nat /\ Limit \in Nat
    BY <1>1, GuessersCount, GateConstants
  <2>7. Fails(a) >= Limit => Fails(a) + Cardinality(Guessers(a)) < Limit + Cardinality(From(a))
    BY <1>1 DEF GateInv, LastGuesses
  <2>8. Fails(a)' + Cardinality(Guessers(a)') < Limit + Cardinality(From(a))
    <3>1. CASE Fails(a) >= Limit
      BY <1>3, <1>6, <2>5, <2>6, <2>7, <3>1
    <3>2. CASE ~(Fails(a) >= Limit)
      <4>1. Fails(a)' <= Limit
        BY <1>3, <1>6, <2>6, <3>2
      <4> QED
        BY <1>3, <1>6, <2>5, <2>6, <4>1
    <3> QED
      BY <3>1, <3>2
  <2> QED
    BY <2>2, <2>8
<1>12. ASSUME NEW b \in Address, b # a PROVE Counts(b)' /\ LastGuesses(b)'
  <2>1. Counts(b) /\ LastGuesses(b)
    BY DEF GateInv
  <2>2. Made(b)' = Made(b) /\ Fails(b)' = Fails(b) /\ ipFails'[b] = ipFails[b] /\ guesses'[b] = guesses[b]
    BY <1>2, <1>4, <1>5, <1>12 DEF Made, Fails, LiveFails
  <2>3. Guessers(b)' = Guessers(b) /\ From(b)' = From(b)
    BY <1>9, <1>12 DEF Guessers, From
  <2> QED
    BY <1>2, <1>9, <1>12, <2>1, <2>2, <2>3 DEF Counts, LastGuesses
<1> QED
  BY <1>8, <1>10, <1>11, <1>12 DEF GateInv

\* A count that ends is of guesses that are too old.
LEMMA GateTickKeeps == ASSUME GateInv, GateTick PROVE GateInv'
<1>1. /\ second' = second + 1 /\ UNCHANGED <<sess, ipBans>>
      /\ guesses' = [a \in Address |-> [age \in GuessAges |-> IF age = 0 THEN 0 ELSE guesses[a][age - 1]]]
      /\ ipFails' = [a \in Address |-> KeptFails(ipFails[a])]
      /\ GateTypes /\ second \in Nat \ {0}
  BY DEF GateTick, GateInv, GateTypes
<1> DEFINE n == AuthBanDuration - 1
<1>2. n \in Nat /\ GuessAges = 0..n /\ AuthBanDuration \in Nat \ {0}
  BY GateConstants
<1>3. ASSUME NEW a \in Address
      PROVE  /\ guesses'[a] \in [GuessAges -> Nat] /\ ipFails'[a] \in [n : Nat, last : Nat]
             /\ guesses'[a][0] = 0
             /\ \A age \in 1..n : guesses'[a][age] = guesses[a][age - 1]
  <2>1. \A age \in GuessAges : age = 0 \/ (age \in 1..n /\ age - 1 \in GuessAges)
    BY <1>2
  <2>2. \A age \in GuessAges : guesses[a][age] \in Nat
    BY <1>1, NumbersOf
  <2>3. guesses'[a] = [age \in GuessAges |-> IF age = 0 THEN 0 ELSE guesses[a][age - 1]]
    BY <1>1
  <2>4. ipFails'[a] = NoFails \/ ipFails'[a] = ipFails[a]
    BY <1>1 DEF KeptFails
  <2>5. NoFails \in [n : Nat, last : Nat] /\ ipFails[a] \in [n : Nat, last : Nat]
    BY <1>1 DEF NoFails, GateTypes
  <2>6. 0 \in GuessAges /\ \A age \in 1..n : age \in GuessAges /\ age # 0
    BY <1>2
  <2> HIDE DEF n
  <2> QED
    BY <2>1, <2>2, <2>3, <2>4, <2>5, <2>6
<1>4. GateTypes'
  <2>1. guesses' \in [Address -> [GuessAges -> Nat]] /\ ipFails' \in [Address -> [n : Nat, last : Nat]]
    BY <1>1, <1>3
  <2>2. second' \in Nat \ {0}
    BY <1>1
  <2> QED
    BY <1>1, <2>1, <2>2 DEF GateTypes
<1>5. ASSUME NEW a \in Address PROVE Counts(a)' /\ LastGuesses(a)'
  <2> DEFINE A == guesses[a]
             B == guesses'[a]
  <2>1. Counts(a) /\ LastGuesses(a)
    BY DEF GateInv
  <2>2. /\ Made(a) \in Nat /\ Fails(a) \in Nat /\ ipFails[a].n \in Nat /\ ipFails[a].last \in Nat
        /\ \A age \in 0..n : A[age] \in Nat
    BY <1>1, <1>2, NumbersOf
  <2>3. Made(a) = SumFunctionOnSet(A, 0..n) /\ Made(a)' = SumFunctionOnSet(B, 0..n)
    BY <1>2 DEF Made
  <2>4. B[0] = 0 /\ \A age \in 1..n : B[age] = A[age - 1]
    BY <1>3
  <2>5. Made(a)' = Made(a) - A[n]
    <3> HIDE DEF A, B, n
    <3> QED
      BY <1>2, <2>2, <2>3, <2>4, SumShifts
  <2>6. A[n] \in Nat /\ ipFails'[a] = KeptFails(ipFails[a])
    BY <1>1, <1>2, <2>2
  <2>7. Guessers(a)' = Guessers(a) /\ From(a)' = From(a) /\ ipBans'[a] = ipBans[a]
    BY <1>1 DEF Guessers, From
  <2>8. CASE second + 1 - ipFails[a].last >= AuthBanDuration
    <3>1. ipFails'[a] = NoFails
      BY <2>6, <2>8 DEF KeptFails
    <3>2. Fails(a)' = 0 /\ ipFails'[a].last = 0
      BY <3>1 DEF Fails, LiveFails, NoFails
    <3>3. \A age \in GuessAges : B[age] = 0
      <4>1. SUFFICES ASSUME NEW age \in 1..n PROVE A[age - 1] = 0
        BY <1>2, <2>4
      <4>2. age - 1 \in GuessAges /\ age - 1 < second - ipFails[a].last
        <5>1. age - 1 \in 0..n /\ age - 1 < n
          BY <1>2
        <5>2. n <= second - ipFails[a].last
          <6>1. AuthBanDuration \in Nat /\ second \in Nat /\ ipFails[a].last \in Nat
            BY <1>1, <1>2, <2>2
          <6> QED
            BY <2>8, <6>1
        <5>3. n \in Int /\ second - ipFails[a].last \in Int /\ age - 1 \in Int
          BY <1>1, <1>2, <2>2
        <5> QED
          BY <1>2, <5>1, <5>2, <5>3
      <4>3. \A i \in GuessAges : i < second - ipFails[a].last => guesses[a][i] = 0
        BY <2>1 DEF Counts
      <4> QED
        BY <4>2, <4>3
    <3>4. Made(a)' = 0
      <4> HIDE DEF B
      <4> QED
        BY <1>2, <2>3, <3>3, GateConstants, SumOfZeros
    <3>5. 0 <= second'
      BY <1>1
    <3>6. Counts(a)'
      BY <3>2, <3>3, <3>4, <3>5 DEF Counts
    <3>7. LastGuesses(a)'
      BY <3>2, GateConstants DEF LastGuesses
    <3> QED
      BY <3>6, <3>7
  <2>9. CASE ~(second + 1 - ipFails[a].last >= AuthBanDuration)
    <3>1. ipFails'[a] = ipFails[a]
      BY <2>6, <2>9 DEF KeptFails
    <3>2. Fails(a)' = Fails(a)
      <4>1. second' = second + 1 /\ second \in Nat /\ AuthBanDuration \in Nat /\ ipFails[a].last \in Nat
        BY <1>1, <1>2, <2>2
      <4>2. ~(second' - ipFails[a].last >= AuthBanDuration) /\ ~(second - ipFails[a].last >= AuthBanDuration)
        BY <2>9, <4>1
      <4>3. Fails(a)' = ipFails'[a].n /\ Fails(a) = ipFails[a].n
        BY <3>1, <4>2 DEF Fails, LiveFails
      <4> QED
        BY <3>1, <4>3
    <3>3. Made(a)' <= Fails(a)'
      BY <2>1, <2>2, <2>5, <2>6, <3>2 DEF Counts
    <3>4. ipFails'[a].last <= second'
      BY <1>1, <2>1, <2>2, <3>1 DEF Counts
    <3>5. \A age \in GuessAges : age < second' - ipFails'[a].last => B[age] = 0
      <4>1. SUFFICES ASSUME NEW age \in 1..n, age < second' - ipFails'[a].last PROVE A[age - 1] = 0
        BY <1>2, <2>4
      <4>2. age - 1 \in GuessAges /\ age - 1 < second - ipFails[a].last
        BY <1>1, <1>2, <2>2, <3>1, <4>1
      <4> QED
        BY <2>1, <4>2 DEF Counts
    <3> QED
      BY <2>1, <2>7, <3>2, <3>3, <3>4, <3>5 DEF Counts, LastGuesses
  <2> QED
    BY <2>8, <2>9
<1> QED
  BY <1>4, <1>5 DEF GateInv

\* A ban by an operator, and the kicks it comes with, take guesses away.
LEMMA BanKeeps ==
    ASSUME GateInv, BanKicks \/ \E a \in Address : \E d \in BanLengths : BanIP(a, d) PROVE GateInv'
<1>1. GateTypes /\ sess \in [Visitor -> Sessions] /\ ipBans \in [Address -> Nat] /\ second \in Nat \ {0}
  BY DEF GateInv, GateTypes
<1>2. CASE BanKicks
  <2>1. /\ UNCHANGED <<second, ipFails, guesses, ipBans>>
        /\ sess' = [c \in Visitor |-> IF AddressOf[c] = operator THEN Ended(sess[c]) ELSE sess[c]]
    BY <1>2 DEF BanKicks, countVars
  <2>2. ASSUME NEW c \in Visitor
        PROVE  sess'[c] \in Sessions /\ (MayGuess(sess'[c]) => MayGuess(sess[c]))
    <3>1. sess'[c] = Ended(sess[c]) \/ sess'[c] = sess[c]
      BY <2>1
    <3>2. sess[c] \in Sessions
      BY <1>1
    <3>3. Ended(sess[c]) \in Sessions /\ (MayGuess(Ended(sess[c])) => MayGuess(sess[c]))
      BY <3>2, SessionSteps
    <3> QED
      BY <3>1, <3>2, <3>3
  <2>3. sess' \in [Visitor -> Sessions]
    BY <2>1, <2>2
  <2> QED
    BY <1>1, <2>1, <2>2, <2>3, CountsStay
<1>3. ASSUME NEW a \in Address, NEW d \in BanLengths, BanIP(a, d) PROVE GateInv'
  <2>1. UNCHANGED <<second, ipFails, guesses, sess>> /\ ipBans' = [ipBans EXCEPT ![a] = second + d]
    BY <1>3 DEF BanIP, countVars
  <2>2. second + d \in Nat /\ second + d # 0
    BY <1>1, GateAssumption DEF GateAssumption
  <2>3. ipBans' \in [Address -> Nat] /\ \A b \in Address : ipBans[b] # 0 => ipBans'[b] # 0
    BY <1>1, <2>1, <2>2
  <2> QED
    BY <1>1, <2>1, <2>3, CountsStay
<1> QED
  BY <1>2, <1>3

\* Every step of the gate keeps the counts.
LEMMA GateSteps == ASSUME GateInv, [GateNext]_gateVars PROVE GateInv'
<1>1. CASE UNCHANGED gateVars
  BY <1>1, CountsStay DEF gateVars, GateInv, GateTypes
<1> QED
  BY <1>1, QuietSteps, AdmitKeeps, ArriveKeeps, FailKeeps, UnbanKeeps, BanKeeps, GateTickKeeps DEF GateNext

\* For any connections, addresses, names and limits: an address's guesses in a ban's
\* duration stay within its limit, but for the last one of each further connection.
THEOREM FewGuesses == GateSpec => []GuessesBounded
<1>1. GateInv => GuessesBounded
  <2> SUFFICES ASSUME GateInv, NEW a \in Address
               PROVE  LET made == SumFunction(guesses[a])
                      IN  made <= Limit \/ made < Limit + Cardinality(From(a))
    BY DEF GuessesBounded, Limit, From
  <2>1. SumFunction(guesses[a]) = Made(a)
    <3>1. DOMAIN guesses[a] = GuessAges
      BY DEF GateInv, GateTypes
    <3> QED
      BY <3>1 DEF SumFunction, Made
  <2>2. /\ Made(a) \in Nat /\ Fails(a) \in Nat /\ Limit \in Nat /\ Cardinality(From(a)) \in Nat
        /\ Cardinality(Guessers(a)) \in Nat /\ Counts(a) /\ LastGuesses(a)
    BY NumbersOf, GuessersCount, GateConstants DEF GateInv
  <2> QED
    BY <2>1, <2>2 DEF Counts, LastGuesses
<1> QED
  BY <1>1, GateInits, GateSteps, PTL DEF GateSpec
=============================================================================
