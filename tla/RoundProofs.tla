---------------------------- MODULE RoundProofs ----------------------------
(***************************************************************************)
(* Proofs about one connection, the lists kept about its player, and the   *)
(* round it plays.                                                         *)
(*                                                                         *)
(* Closing (CloseInv): Shutdown's compare-and-swap lets one closer         *)
(* through, and a write looks at `closed` under the lock the queue is      *)
(* closed under, so nothing is sent or closed twice.                       *)
(* The wire (WireInv): what was accepted is what was written, then what    *)
(* the loop holds, then the queue; the ciphers and the compression change  *)
(* at the same place in that sequence on both sides.                       *)
(* The ban list (BanInv): the map has the last order; the snapshot stands  *)
(* for it or somebody has still to save; the file does when nobody has.    *)
(* Keep-alives (KeepInv): one id is on its way at a time, and it is the    *)
(* one waited for.                                                         *)
(* The limiter (LimitInv, RateInv): an entry counts what its address has   *)
(* open; what was admitted is of the entry's window or of the one before.  *)
(* The ban table (TableInv): while no order is half way the rows are what  *)
(* the last one said; one that stands alone finds them as it left them.    *)
(***************************************************************************)
EXTENDS Round, BotPath, Transport, ConnGuard, BanFile, BanTable, SumTheorems, SequenceTheorems, TLAPS

\* Asking for a cleanup starts at most one goroutine, before its
\* compare-and-swap.
LEMMA AskKeeps ==
    ASSUME CloseInv, Ask, UNCHANGED <<outClosed, closed, done, panicked>>
    PROVE  CloseInv'
<1>1. CASE UNCHANGED closer
  BY <1>1 DEF CloseInv, NoPanic, First
<1>2. CASE \E k \in Closer : closer[k] = "idle" /\ closer' = [closer EXCEPT ![k] = "asked"]
  <2>1. PICK k \in Closer : closer[k] = "idle" /\ closer' = [closer EXCEPT ![k] = "asked"]
    BY <1>2
  <2>2. First' = First
    BY <2>1 DEF First, CloseInv
  <2> QED
    BY <2>1, <2>2 DEF CloseInv, NoPanic
<1> QED
  BY <1>1, <1>2 DEF Ask

\* A frame or a swap is pushed only while the transport is open.
LEMMA PushKeeps ==
    ASSUME CloseInv, NEW m, Push(m), ~closed, UNCHANGED <<outClosed, closed, done>>
    PROVE  panicked' = panicked
<1>1. ~outClosed /\ panicked' = (panicked \/ outClosed)
  BY DEF CloseInv, Push
<1>2. panicked \in BOOLEAN
  BY DEF CloseInv
<1> QED
  BY <1>1, <1>2

\* What happens with the closers and the channels left alone.
LEMMA QuietKeeps ==
    ASSUME CloseInv, UNCHANGED <<outClosed, closed, done, panicked, closer>>
    PROVE  CloseInv'
BY DEF CloseInv, NoPanic, First

\* The read loop's steps up to Play.
LEMMA LoginKeeps == CloseInv /\ Login => CloseInv'
<1> SUFFICES ASSUME CloseInv, Login PROVE CloseInv'
  OBVIOUS
<1>1. CASE LoginWriteFails
  BY <1>1, AskKeeps DEF LoginWriteFails, linkVars
<1>2. CASE EncryptionRequest
  BY <1>2, PushKeeps, QuietKeeps DEF EncryptionRequest, Accept, closeVars
<1>3. CASE Encrypt
  BY <1>3, PushKeeps, QuietKeeps DEF Encrypt, closeVars
<1>4. CASE EncryptFails
  BY <1>4, AskKeeps DEF EncryptFails
<1>5. CASE EnableCompression
  BY <1>5, PushKeeps, QuietKeeps DEF EnableCompression, Accept, closeVars
<1>6. CASE RefuseLogin
  BY <1>6, PushKeeps, AskKeeps DEF RefuseLogin, Accept
<1>7. CASE LoginSuccess
  BY <1>7, PushKeeps, QuietKeeps DEF LoginSuccess, Accept, closeVars
<1> QED
  BY <1>1, <1>2, <1>3, <1>4, <1>5, <1>6, <1>7 DEF Login

\* The writer's steps: a failed write asks for a cleanup, nothing else here.
LEMMA WriterKeeps == CloseInv /\ WriterStep => CloseInv'
<1> SUFFICES ASSUME CloseInv, WriterStep PROVE CloseInv'
  OBVIOUS
<1>1. CASE TakeFails
  BY <1>1, AskKeeps, QuietKeeps DEF TakeFails, FlushFails, linkVars
<1>2. CASE TakeFrame
  BY <1>2, QuietKeeps DEF TakeFrame, closeVars
<1>3. CASE TakeSwap
  BY <1>3, QuietKeeps DEF TakeSwap, closeVars
<1>4. CASE Flush
  BY <1>4, QuietKeeps DEF Flush, linkVars, closeVars
<1>5. CASE WriterEnds
  BY <1>5, QuietKeeps DEF WriterEnds, linkVars, closeVars
<1> QED
  BY <1>1, <1>2, <1>3, <1>4, <1>5 DEF WriterStep

\* A cleanup's steps.
LEMMA CleanupKeeps == ASSUME CloseInv, NEW k \in Closer, CloserStep(k) PROVE CloseInv'
<1>1. CASE ShutdownConn(k)
  BY <1>1 DEF ShutdownConn, CloseInv, NoPanic, First
<1>2. CASE CloseQueue(k)
  <2>1. ~outClosed /\ ~panicked
    BY <1>2 DEF CloseQueue, CloseInv, NoPanic
  <2>2. First' = First
    BY <1>2 DEF CloseQueue, CloseInv, First
  <2> QED
    BY <1>2, <2>1, <2>2 DEF CloseQueue, CloseInv, NoPanic, First
<1>3. CASE Drained(k)
  BY <1>3 DEF Drained, linkVars, CloseInv, NoPanic, First
<1>4. CASE FinishConn(k)
  BY <1>4 DEF FinishConn, CloseInv, NoPanic, First
<1> QED
  BY <1>1, <1>2, <1>3, <1>4 DEF CloserStep

\* The invariant holds initially and every step keeps it.
LEMMA CloseHolds == WireSpec => []CloseInv
<1>1. WireInit => CloseInv
  BY DEF WireInit, CloseInv, NoPanic, First
<1>2. CloseInv /\ [WireNext]_wireVars => CloseInv'
  <2> SUFFICES ASSUME CloseInv, [WireNext]_wireVars PROVE CloseInv'
    OBVIOUS
  <2>1. CASE Login
    BY <2>1, LoginKeeps
  <2>2. CASE Write
    BY <2>2, PushKeeps, QuietKeeps DEF Write, Accept, closeVars
  <2>3. CASE WriteRefused
    BY <2>3, AskKeeps, QuietKeeps DEF WriteRefused, Refused, linkVars
  <2>4. CASE WriterStep
    BY <2>4, WriterKeeps
  <2>5. CASE CloseConn
    BY <2>5, AskKeeps DEF CloseConn, Ask, linkVars
  <2>6. CASE \E k \in Closer : CloserStep(k)
    BY <2>6, CleanupKeeps
  <2>7. CASE UNCHANGED wireVars
    BY <2>7, QuietKeeps DEF wireVars
  <2> QED
    BY <2>1, <2>2, <2>3, <2>4, <2>5, <2>6, <2>7 DEF WireNext, WireOver
<1> QED
  BY <1>1, <1>2, PTL DEF WireSpec

\* No goroutine ever sends on the closed queue, closes it twice or closes
\* Done twice: a write racing a kick is refused, never a crash.
THEOREM ClosingIsSafe == WireSpec => []NoPanic
<1>1. CloseInv => NoPanic
  BY DEF CloseInv
<1> QED
  BY <1>1, CloseHolds, PTL
-----------------------------------------------------------------------------
(***************************************************************************)
(* What the wire carries.  The argument follows the accepted frames from   *)
(* the queue through the batch to the wire: there is one sequence of them, *)
(* `all`, of which the wire has a beginning, the batch what comes next,    *)
(* and the queue the rest, the swap standing behind the first frame.       *)
(***************************************************************************)

HasSwap == \E j \in DOMAIN queue : queue[j] = Swap
Alive == writer.pc # "over"
Ahead == Len(wire) + Len(writer.pending)

\* The number of the queue's i-th frame.
Number(i) == IF HasSwap /\ i > 2 - Ahead THEN Ahead + i - 1 ELSE Ahead + i

\* The login orders its frames: one request, first; Set Compression in the
\* plain framing and the compressed one from there on.
Ordered(all) ==
    /\ Len(all) = sent
    /\ \A i \in 1..sent : /\ all[i].n = i
                          /\ all[i].what = "request" => i = 1
                          /\ all[i].as = "compressed" <=>
                                \E j \in 1..(i - 1) : all[j].what = "compression"
    /\ framing = "compressed" <=> \E j \in 1..sent : all[j].what = "compression"
    /\ stage = "handshake" => sent = 0
    /\ stage \in {"requested", "ciphered"} => sent = 1 /\ all[1].what = "request"

Online(all) == sent > 0 /\ all[1].what = "request"

\* The wire has a beginning of them, deciphered from the second one on if
\* the first is a request.
OnWire(all) ==
    /\ Len(wire) <= sent
    /\ \A i \in DOMAIN wire : /\ wire[i].frame = all[i]
                              /\ wire[i].on = "cipher" <=> i > 1 /\ Online(all)

\* The batch and the queue have the rest.
Waiting(all) ==
    /\ sent = Ahead + Len(queue) - (IF HasSwap THEN 1 ELSE 0)
    /\ \A i \in DOMAIN writer.pending : writer.pending[i] = all[Len(wire) + i]
    /\ \A i \in DOMAIN queue : IF queue[i] = Swap THEN Ahead + i = 2
                               ELSE queue[i] = all[Number(i)]

\* The swap comes up after the request, and before anything else.
Swapping(all) ==
    /\ HasSwap => Online(all) /\ writer.socket = "clear"
    /\ writer.socket = "cipher" => Online(all) /\ Len(wire) > 0 /\ ~HasSwap
    /\ Online(all) /\ writer.socket = "clear" /\ ~HasSwap
         => sent = 1 /\ stage \in {"requested", "over"}
    /\ stage = "requested" => ~HasSwap /\ writer.socket = "clear"

Story(all) == Ordered(all) /\ OnWire(all) /\ (Alive => Waiting(all) /\ Swapping(all))

\* A writer that ended without a failure has written everything; a closer
\* that went past the drain in time has seen it end.
LastWords ==
    /\ ~Alive => writer.pending = <<>>
    /\ ~Alive /\ ~failed => outClosed /\ Len(wire) = sent
    /\ (\E k \in Closer : closer[k] \in {"finish", "done"}) /\ ~timedOut => ~Alive

WireInv == WireTypeOK /\ CloseInv /\ LastWords /\ \E all \in Seq(Frame) : Story(all)

Wired == [frame : Frame, on : {"clear", "cipher"}]

\* What a socket write leaves on the wire.
LEMMA WritesAppends ==
    ASSUME WireTypeOK, NEW s \in Seq(Frame), Writes(s)
    PROVE  /\ wire' \in Seq(Wired) /\ Len(wire') = Len(wire) + Len(s)
           /\ \A i \in DOMAIN wire : wire'[i] = wire[i]
           /\ \A i \in DOMAIN wire' : i > Len(wire) =>
                wire'[i] = [frame |-> s[i - Len(wire)], on |-> writer.socket]
<1> DEFINE o == On(writer.socket, s)
<1>1. o \in Seq(Wired) /\ Len(o) = Len(s)
      /\ \A i \in 1..Len(s) : o[i] = [frame |-> s[i], on |-> writer.socket]
  <2>1. \A i \in 1..Len(s) : s[i] \in Frame
    OBVIOUS
  <2>2. writer.socket \in {"clear", "cipher"}
    BY DEF WireTypeOK
  <2>3. \A i \in 1..Len(s) : [frame |-> s[i], on |-> writer.socket] \in Wired
    BY <2>1, <2>2 DEF Wired
  <2>4. o = [i \in 1..Len(s) |-> [frame |-> s[i], on |-> writer.socket]]
    BY DEF On
  <2>5. o \in [1..Len(s) -> Wired] /\ Len(s) \in Nat
    BY <2>3, <2>4
  <2>6. o \in Seq(Wired) /\ Len(o) = Len(s)
    BY <2>5
  <2> QED
    BY <2>4, <2>6
<1>2. wire \in Seq(Wired)
  BY DEF WireTypeOK, Wired
<1>3. wire' = wire \o o
  BY DEF Writes
<1> HIDE DEF o
<1>4. /\ wire' \in Seq(Wired) /\ Len(wire') = Len(wire) + Len(o)
      /\ \A i \in 1..(Len(wire) + Len(o)) : wire'[i] = IF i <= Len(wire) THEN wire[i] ELSE o[i - Len(wire)]
  <2>1. wire \o o \in Seq(Wired) /\ Len(wire \o o) = Len(wire) + Len(o)
    BY <1>1, <1>2, ConcatProperties, Zenon
  <2>2. \A i \in 1..(Len(wire) + Len(o)) : (wire \o o)[i] = IF i <= Len(wire) THEN wire[i] ELSE o[i - Len(wire)]
    BY <1>1, <1>2
  <2> QED
    BY <1>3, <2>1, <2>2
<1>5. Len(wire) \in Nat /\ Len(s) \in Nat /\ DOMAIN wire = 1..Len(wire)
      /\ DOMAIN wire' = 1..Len(wire')
  BY <1>2, <1>4
<1>6. \A i \in DOMAIN wire' : i > Len(wire) =>
        wire'[i] = o[i - Len(wire)] /\ i - Len(wire) \in 1..Len(s)
  BY <1>1, <1>4, <1>5
<1>7. wire' \in Seq(Wired) /\ Len(wire') = Len(wire) + Len(s)
  BY <1>1, <1>4
<1>8. \A i \in DOMAIN wire : wire'[i] = wire[i]
  BY <1>1, <1>4, <1>5
<1>9. \A i \in DOMAIN wire' : i > Len(wire) =>
        wire'[i] = [frame |-> s[i - Len(wire)], on |-> writer.socket]
  BY <1>1, <1>6
<1> QED
  BY <1>7, <1>8, <1>9

\* The beginning of a batch.
LEMMA Beginning ==
    ASSUME NEW s \in Seq(Frame), NEW k \in 0..Len(s)
    PROVE  /\ SubSeq(s, 1, k) \in Seq(Frame) /\ Len(SubSeq(s, 1, k)) = k
           /\ \A i \in 1..k : SubSeq(s, 1, k)[i] = s[i]
OBVIOUS

\* Taking the next of the queue, and putting one behind it.
LEMMA NextOut ==
    ASSUME NEW S, NEW q \in Seq(S), q # <<>>
    PROVE  /\ Head(q) = q[1] /\ q[1] \in S /\ Tail(q) \in Seq(S) /\ Len(Tail(q)) = Len(q) - 1
           /\ \A i \in 1..(Len(q) - 1) : Tail(q)[i] = q[i + 1]
OBVIOUS

LEMMA OneMore ==
    ASSUME NEW S, NEW q \in Seq(S), NEW m \in S
    PROVE  /\ Append(q, m) \in Seq(S) /\ Len(Append(q, m)) = Len(q) + 1
           /\ \A i \in 1..Len(q) : Append(q, m)[i] = q[i]
           /\ Append(q, m)[Len(q) + 1] = m
OBVIOUS

\* Each variable keeps its type.
LEMMA WireTypes == WireTypeOK /\ [WireNext]_wireVars => WireTypeOK'
<1> SUFFICES ASSUME WireTypeOK, [WireNext]_wireVars PROVE WireTypeOK'
  OBVIOUS
<1> USE SizeAssumption
<1>1. ASSUME Ask PROVE closer' \in [Closer -> {"idle", "asked", "shut", "drain", "finish", "done", "late"}]
  BY <1>1 DEF Ask, WireTypeOK
<1>2. ASSUME NEW what \in What, Accept(what)
      PROVE  /\ queue' \in Seq(Frame \cup {Swap}) /\ Len(queue') <= QueueSize
             /\ sent' \in 0..MaxFrames /\ panicked' \in BOOLEAN
  <2>1. NextFrame(what) \in Frame
    BY <1>2 DEF Accept, NextFrame, Frame, WireTypeOK
  <2>2. queue' = Append(queue, NextFrame(what)) /\ ~Full
    BY <1>2 DEF Accept, Push
  <2> QED
    BY <1>2, <2>1, <2>2, OneMore DEF Accept, Push, Full, WireTypeOK
<1>3. CASE Login
  <2>1. CASE LoginWriteFails
    BY <1>1, <2>1 DEF LoginWriteFails, linkVars, writerVars, WireTypeOK
  <2>2. CASE EncryptionRequest
    BY <1>2, <2>2 DEF EncryptionRequest, writerVars, closeVars, WireTypeOK, What
  <2>3. CASE Encrypt
    <3>1. queue' \in Seq(Frame \cup {Swap}) /\ Len(queue') <= QueueSize /\ panicked' \in BOOLEAN
      BY <2>3, OneMore DEF Encrypt, Push, Full, WireTypeOK
    <3> QED
      BY <2>3, <3>1 DEF Encrypt, writerVars, closeVars, WireTypeOK
  <2>4. CASE EncryptFails
    BY <1>1, <2>4 DEF EncryptFails, writerVars, WireTypeOK
  <2>5. CASE EnableCompression
    BY <1>2, <2>5 DEF EnableCompression, writerVars, closeVars, WireTypeOK, What
  <2>6. CASE RefuseLogin
    BY <1>1, <1>2, <2>6 DEF RefuseLogin, writerVars, WireTypeOK, What
  <2>7. CASE LoginSuccess
    BY <1>2, <2>7 DEF LoginSuccess, writerVars, closeVars, WireTypeOK, What
  <2> QED
    BY <1>3, <2>1, <2>2, <2>3, <2>4, <2>5, <2>6, <2>7 DEF Login
<1>4. CASE Write
  BY <1>2, <1>4 DEF Write, writerVars, closeVars, WireTypeOK, What
<1>5. CASE WriteRefused
  BY <1>1, <1>5 DEF WriteRefused, Refused, linkVars, writerVars, WireTypeOK
<1>6. CASE WriterStep
  <2> DEFINE Writers == [pc : {"first", "batch", "over"}, pending : Seq(Frame),
                         socket : {"clear", "cipher"}]
  <2>0. <<>> \in Seq(Frame) /\ Len(<<>>) = 0 /\ QueueSize >= 0
    BY EmptySeq
  <2>1. writer.pending \in Seq(Frame)
    BY DEF WireTypeOK
  <2>2. ASSUME NEW s \in Seq(Frame), Writes(s)
        PROVE  wire' \in Seq([frame : Frame, on : {"clear", "cipher"}])
    BY <2>2, WritesAppends DEF Wired
  <2>3. ASSUME \E k \in 0..Len(writer.pending) : Writes(SubSeq(writer.pending, 1, k))
        PROVE  wire' \in Seq([frame : Frame, on : {"clear", "cipher"}])
    BY <2>1, <2>2, <2>3, Beginning
  <2>4. [writer EXCEPT !.pc = "over", !.pending = <<>>]
          \in Writers
    BY <2>0 DEF WireTypeOK, Writers
  <2>5. CASE TakeFails
    BY <1>1, <2>3, <2>4, <2>5 DEF TakeFails, FlushFails, linkVars, WireTypeOK
  <2>6. CASE TakeFrame
    <3>1. Head(queue) \in Frame /\ Tail(queue) \in Seq(Frame \cup {Swap}) /\ Len(Tail(queue)) <= QueueSize
      BY <2>6, NextOut DEF TakeFrame, WireTypeOK
    <3>2. Append(writer.pending, Head(queue)) \in Seq(Frame)
          /\ Len(Append(writer.pending, Head(queue))) <= QueueSize
      BY <2>1, <2>6, <3>1, OneMore DEF TakeFrame, WireTypeOK
    <3>3. [writer EXCEPT !.pc = "batch", !.pending = Append(@, Head(queue))] \in Writers
      BY <3>2 DEF WireTypeOK
    <3> QED
      BY <2>6, <3>1, <3>2, <3>3 DEF TakeFrame, closeVars, WireTypeOK
  <2>7. CASE TakeSwap
    <3>1. Tail(queue) \in Seq(Frame \cup {Swap}) /\ Len(Tail(queue)) <= QueueSize
      BY <2>7, NextOut DEF TakeSwap, WireTypeOK
    <3>2. writer' \in Writers /\ Len(writer'.pending) = 0
      BY <2>0, <2>7 DEF TakeSwap
    <3>3. wire' \in Seq([frame : Frame, on : {"clear", "cipher"}])
      BY <2>1, <2>2, <2>7 DEF TakeSwap
    <3> QED
      BY <2>0, <2>7, <3>1, <3>2, <3>3 DEF TakeSwap, closeVars, WireTypeOK
  <2>8. CASE Flush
    <3>1. writer' \in Writers /\ Len(writer'.pending) = 0
      BY <2>0, <2>8 DEF Flush, WireTypeOK
    <3>2. wire' \in Seq([frame : Frame, on : {"clear", "cipher"}])
      BY <2>1, <2>2, <2>8 DEF Flush
    <3> QED
      BY <2>0, <2>8, <3>1, <3>2 DEF Flush, linkVars, closeVars, WireTypeOK
  <2>9. CASE WriterEnds
    <3>1. writer' \in Writers /\ Len(writer'.pending) = 0
      BY <2>0, <2>4, <2>9 DEF WriterEnds, WireTypeOK
    <3>2. wire' \in Seq([frame : Frame, on : {"clear", "cipher"}])
      BY <2>1, <2>2, <2>3, <2>9 DEF WriterEnds
    <3>3. failed' \in BOOLEAN
      BY <2>9 DEF WriterEnds, WireTypeOK
    <3> QED
      BY <2>0, <2>9, <3>1, <3>2, <3>3 DEF WriterEnds, linkVars, closeVars, WireTypeOK
  <2> QED
    BY <1>6, <2>5, <2>6, <2>7, <2>8, <2>9 DEF WriterStep
<1>7. CASE CloseConn
  BY <1>7 DEF CloseConn, linkVars, writerVars, WireTypeOK
<1>8. CASE \E k \in Closer : CloserStep(k)
  <2> SUFFICES ASSUME NEW k \in Closer, CloserStep(k) PROVE WireTypeOK'
    BY <1>8
  <2>1. CASE ShutdownConn(k)
    BY <2>1 DEF ShutdownConn, writerVars, WireTypeOK
  <2>2. CASE CloseQueue(k)
    BY <2>2 DEF CloseQueue, writerVars, WireTypeOK
  <2>3. CASE Drained(k)
    BY <2>3 DEF Drained, linkVars, writerVars, WireTypeOK
  <2>4. CASE FinishConn(k)
    BY <2>4 DEF FinishConn, writerVars, WireTypeOK
  <2> QED
    BY <2>1, <2>2, <2>3, <2>4 DEF CloserStep
<1>9. CASE UNCHANGED wireVars
  BY <1>9 DEF wireVars, WireTypeOK
<1> QED
  BY <1>3, <1>4, <1>5, <1>6, <1>7, <1>8, <1>9 DEF WireNext, WireOver

-----------------------------------------------------------------------------
(* The story of the frames, step by step. *)

\* A write with nothing written yet of what it adds: `more` is the story with
\* the new frame, and tells of the wire, the batch and the queue as before.
Grown(all, more, what) ==
    /\ more \in Seq(Frame) /\ Len(more) = sent'
    /\ \A i \in 1..sent : more[i] = all[i]
    /\ more[sent + 1] = NextFrame(what) /\ sent' = sent + 1
    /\ \A i \in 1..sent' :
         /\ more[i].n = i
         /\ more[i].what = "request" => i = 1
         /\ more[i].as = "compressed" <=> \E j \in 1..(i - 1) : more[j].what = "compression"
    /\ framing' = "compressed" <=> \E j \in 1..sent' : more[j].what = "compression"
    /\ OnWire(more)' /\ (Alive => Waiting(more)') /\ (HasSwap' <=> HasSwap)

LEMMA AcceptStory ==
    ASSUME WireTypeOK, NEW all \in Seq(Frame), Story(all),
           NEW what \in What, Accept(what), UNCHANGED <<writer, wire>>,
           what = "request" => sent = 0,
           framing' = (IF what = "compression" THEN "compressed" ELSE framing),
           NEW more, more = Append(all, NextFrame(what))
    PROVE  Grown(all, more, what)
<1> DEFINE f == NextFrame(what)
<1>1. f \in Frame /\ f.n = sent + 1 /\ f.what = what /\ f.as = framing /\ f # Swap
  <2>1. sent + 1 \in 1..MaxFrames /\ framing \in {"plain", "compressed"}
    BY SizeAssumption DEF Accept, WireTypeOK
  <2>2. f \in Frame
    BY <2>1 DEF NextFrame, Frame
  <2>3. f.n # Swap.n
    BY <2>1 DEF NextFrame, Swap
  <2> QED
    BY <2>2, <2>3 DEF NextFrame
<1>2. sent \in Nat /\ sent' = sent + 1 /\ Len(all) = sent
  BY DEF Accept, WireTypeOK, Story, Ordered
<1>3. /\ more \in Seq(Frame) /\ Len(more) = sent'
      /\ \A i \in 1..sent : more[i] = all[i]
      /\ more[sent + 1] = f
  BY <1>1, <1>2, OneMore
<1>4. /\ queue' \in Seq(Frame \cup {Swap}) /\ Len(queue') = Len(queue) + 1
      /\ \A i \in 1..Len(queue) : queue'[i] = queue[i]
      /\ queue'[Len(queue) + 1] = f
  BY <1>1, OneMore DEF Accept, Push, WireTypeOK
<1> HIDE DEF f
<1>5. DOMAIN queue = 1..Len(queue) /\ DOMAIN queue' = 1..(Len(queue) + 1) /\ Len(queue) \in Nat
  BY <1>4 DEF WireTypeOK
<1>6. HasSwap' <=> HasSwap
  BY SMTT(20), <1>1, <1>4, <1>5 DEF HasSwap
<1>7. \A i \in 1..sent' :
         /\ more[i].n = i
         /\ more[i].what = "request" => i = 1
         /\ more[i].as = "compressed" <=> \E j \in 1..(i - 1) : more[j].what = "compression"
  <2> SUFFICES ASSUME NEW i \in 1..sent'
               PROVE  /\ more[i].n = i
                      /\ more[i].what = "request" => i = 1
                      /\ more[i].as = "compressed" <=> \E j \in 1..(i - 1) : more[j].what = "compression"
    OBVIOUS
  <2>1. CASE i \in 1..sent
    BY <1>2, <1>3, <2>1 DEF Story, Ordered
  <2>2. CASE i = sent + 1
    BY <1>1, <1>2, <1>3, <2>2 DEF Story, Ordered
  <2> QED
    BY <1>2, <2>1, <2>2
<1>8. framing' = "compressed" <=> \E j \in 1..sent' : more[j].what = "compression"
  BY <1>1, <1>2, <1>3 DEF Story, Ordered
<1>9. OnWire(more)'
  <2>1. Len(wire) <= sent /\ DOMAIN wire = 1..Len(wire) /\ Len(wire) \in Nat /\ wire' = wire
    BY DEF Story, OnWire, WireTypeOK
  <2>2. sent > 0 => (Online(more)' <=> Online(all))
    BY <1>2, <1>3 DEF Online
  <2> QED
    BY <1>2, <1>3, <2>1, <2>2 DEF Story, OnWire
<1>10. Alive => Waiting(more)'
  <2> SUFFICES ASSUME Alive PROVE Waiting(more)'
    OBVIOUS
  <2>0. /\ Len(wire) \in Nat /\ Len(writer.pending) \in Nat /\ wire' = wire /\ writer' = writer
        /\ DOMAIN writer.pending = 1..Len(writer.pending)
    BY DEF WireTypeOK
  <2>1. Ahead' = Ahead /\ Ahead \in Nat
    BY <2>0 DEF Ahead
  <2>2. \A i \in 1..Len(queue) : Number(i)' = Number(i)
    BY <1>6, <2>1 DEF Number
  <2>3. sent = Ahead + Len(queue) - (IF HasSwap THEN 1 ELSE 0)
    BY DEF Story, Waiting
  <2>4. sent' = Ahead' + Len(queue') - (IF HasSwap' THEN 1 ELSE 0)
    BY <1>2, <1>4, <1>5, <1>6, <2>1, <2>3
  <2>5. \A i \in DOMAIN writer.pending : writer.pending[i] = more[Len(wire) + i]
    <3> SUFFICES ASSUME NEW i \in DOMAIN writer.pending
                 PROVE  writer.pending[i] = more[Len(wire) + i]
      OBVIOUS
    <3>1. HasSwap => Len(queue) >= 1
      BY <1>5 DEF HasSwap
    <3>2. Len(wire) + i \in 1..sent
      <4>1. i \in Nat \ {0} /\ i <= Len(writer.pending)
        BY <2>0
      <4>2. Ahead <= sent
        BY <1>2, <1>5, <2>1, <2>3, <3>1
      <4> QED
        BY <1>2, <2>0, <4>1, <4>2 DEF Ahead
    <3> QED
      BY <1>3, <3>2 DEF Story, Waiting
  <2>6. ASSUME NEW i \in 1..Len(queue)
        PROVE  IF queue'[i] = Swap THEN Ahead' + i = 2 ELSE queue'[i] = more[Number(i)']
    <3>1. IF queue[i] = Swap THEN Ahead + i = 2 ELSE queue[i] = all[Number(i)]
      BY <1>5 DEF Story, Waiting
    <3>2. CASE queue[i] = Swap
      BY <1>4, <2>1, <3>1, <3>2
    <3>3. CASE queue[i] # Swap
      <4>1. Number(i) \in 1..sent
        <5>1. CASE ~HasSwap
          BY <1>5, <2>1, <2>3, <5>1 DEF Number
        <5>2. CASE HasSwap
          <6>1. PICK j \in 1..Len(queue) : queue[j] = Swap
            BY <1>5, <5>2 DEF HasSwap
          <6>2. Ahead + j = 2 /\ j # i
            BY <1>5, <3>3, <6>1 DEF Story, Waiting
          <6> QED
            BY <1>5, <2>1, <2>3, <5>2, <6>1, <6>2 DEF Number
        <5> QED
          BY <5>1, <5>2
      <4> QED
        BY <1>3, <1>4, <2>2, <3>1, <3>3, <4>1
    <3> QED
      BY <3>2, <3>3
  <2>7. ASSUME NEW i, i = Len(queue) + 1
        PROVE  queue'[i] = more[Number(i)'] /\ queue'[i] # Swap
    <3>1. Number(i)' = (IF HasSwap /\ i > 2 - Ahead THEN Ahead + i - 1 ELSE Ahead + i)
      BY <1>6, <2>1 DEF Number
    <3>2. CASE ~HasSwap
      <4>1. Number(i)' = sent + 1
        BY <1>5, <2>1, <2>3, <2>7, <3>1, <3>2
      <4> QED
        BY <1>1, <1>3, <1>4, <2>7, <4>1
    <3>3. CASE HasSwap
      <4>1. PICK j \in 1..Len(queue) : queue[j] = Swap
        BY <1>5, <3>3 DEF HasSwap
      <4>2. Ahead + j = 2
        BY <1>5, <4>1 DEF Story, Waiting
      <4>3. Number(i)' = sent + 1
        BY <1>5, <2>1, <2>3, <2>7, <3>1, <3>3, <4>1, <4>2
      <4> QED
        BY <1>1, <1>3, <1>4, <2>7, <4>3
    <3> QED
      BY <3>2, <3>3
  <2>8. ASSUME NEW i \in DOMAIN queue'
        PROVE  IF queue'[i] = Swap THEN Ahead' + i = 2 ELSE queue'[i] = more[Number(i)']
    <3>1. CASE i \in 1..Len(queue)
      BY <2>6, <3>1
    <3>2. CASE i = Len(queue) + 1
      BY <2>7, <3>2
    <3>3. i \in 1..Len(queue) \/ i = Len(queue) + 1
      <4>1. i \in 1..(Len(queue) + 1)
        BY <1>5
      <4> QED
        BY <1>5, <4>1
    <3> QED
      BY <3>1, <3>2, <3>3
  <2> QED
    BY <2>0, <2>4, <2>5, <2>8 DEF Waiting
<1> QED
  BY <1>2, <1>3, <1>6, <1>7, <1>8, <1>9, <1>10 DEF f, Grown
\* A step that leaves the frames alone, at most giving the login up.
LEMMA QuietStory ==
    ASSUME NEW all \in Seq(Frame), Story(all),
           UNCHANGED <<sent, framing, queue, writer, wire>>, stage' = stage \/ stage' = "over"
    PROVE  \E more \in Seq(Frame) : Story(more)'
<1>1. Ordered(all)' /\ OnWire(all)'
  BY DEF Story, Ordered, OnWire, Online
<1>2. Alive => Waiting(all)'
  BY DEF Story, Alive, Waiting, Number, HasSwap, Ahead
<1>3. Alive => Swapping(all)'
  BY DEF Story, Alive, Swapping, HasSwap, Online
<1> QED
  BY <1>1, <1>2, <1>3 DEF Story, Alive

\* The steps that queue a frame.
Accepting == EncryptionRequest \/ EnableCompression \/ RefuseLogin \/ LoginSuccess \/ Write

LEMMA AcceptingStory ==
    ASSUME WireTypeOK, NEW all \in Seq(Frame), Story(all), Accepting
    PROVE  \E more \in Seq(Frame) : Story(more)'
<1>1. UNCHANGED <<writer, wire>>
  BY DEF Accepting, EncryptionRequest, EnableCompression, RefuseLogin, LoginSuccess, Write, writerVars
<1>2. ASSUME NEW what \in What, Accept(what), what = "request" => sent = 0,
             framing' = (IF what = "compression" THEN "compressed" ELSE framing),
             stage \notin {"requested", "over"}, stage' \notin {"handshake", "ciphered"},
             what = "request" <=> stage' = "requested"
      PROVE  \E more \in Seq(Frame) : Story(more)'
  <2>1. PICK more : more = Append(all, NextFrame(what))
    OBVIOUS
  <2>2. Grown(all, more, what)
    BY <1>1, <1>2, <2>1, AcceptStory
  <2>3. sent \in Nat
    BY DEF WireTypeOK
  <2>4. sent > 0 => (Online(more)' <=> Online(all))
    BY <2>2, <2>3 DEF Online, Grown
  <2>5. sent = 0 => ~Online(all) /\ (Online(more)' <=> what = "request")
    BY <2>2 DEF Online, NextFrame, Grown
  <2>6. Ordered(more)'
    BY <1>2, <2>2, <2>3 DEF Ordered, NextFrame, Grown
  <2>7. ASSUME Alive PROVE Swapping(more)'
    <3>1. Swapping(all) /\ writer' = writer /\ wire' = wire /\ (HasSwap' <=> HasSwap)
      BY <1>1, <2>2, <2>7 DEF Story, Grown
    <3>2. CASE sent = 0
      <4>1. writer.socket \in {"clear", "cipher"}
        BY DEF WireTypeOK
      <4> QED
        BY <1>2, <2>2, <2>5, <3>1, <3>2, <4>1 DEF Swapping, Grown
    <3>3. CASE sent > 0
      BY <1>2, <2>3, <2>4, <3>1, <3>3 DEF Swapping, Grown
    <3> QED
      BY <2>3, <3>2, <3>3
  <2> QED
    BY <1>1, <2>2, <2>6, <2>7 DEF Story, Alive, Grown
<1>3. CASE EncryptionRequest
  BY <1>2, <1>3 DEF EncryptionRequest, What, Story, Ordered
<1>4. CASE EnableCompression
  BY <1>2, <1>4 DEF EnableCompression, What
<1>5. CASE RefuseLogin
  BY <1>2, <1>5 DEF RefuseLogin, What
<1>6. CASE LoginSuccess
  BY <1>2, <1>6 DEF LoginSuccess, What
<1>7. CASE Write
  BY <1>2, <1>7 DEF Write, What
<1> QED
  BY <1>3, <1>4, <1>5, <1>6, <1>7 DEF Accepting

\* The swap is queued while the request is the only frame there is.
LEMMA EncryptStory ==
    ASSUME WireTypeOK, NEW all \in Seq(Frame), Story(all), Encrypt
    PROVE  \E more \in Seq(Frame) : Story(more)'
<1>1. UNCHANGED <<sent, framing, writer, wire>> /\ queue' = Append(queue, Swap)
      /\ stage = "requested" /\ stage' = "ciphered"
  BY DEF Encrypt, Push, writerVars
<1>2. /\ queue' \in Seq(Frame \cup {Swap}) /\ Len(queue') = Len(queue) + 1
      /\ \A i \in 1..Len(queue) : queue'[i] = queue[i]
      /\ queue'[Len(queue) + 1] = Swap
  BY <1>1, OneMore DEF WireTypeOK
<1>3. DOMAIN queue = 1..Len(queue) /\ DOMAIN queue' = 1..(Len(queue) + 1) /\ Len(queue) \in Nat
      /\ Len(wire) \in Nat /\ Len(writer.pending) \in Nat
  BY <1>2 DEF WireTypeOK
<1>4. sent = 1 /\ Online(all)
  BY <1>1 DEF Story, Ordered, Online
<1>5. Ordered(all)' /\ OnWire(all)'
  BY <1>1 DEF Story, Ordered, OnWire, Online
<1>6. HasSwap'
  <2>1. Len(queue) + 1 \in DOMAIN queue'
    BY <1>3
  <2> QED
    BY <1>2, <2>1 DEF HasSwap
<1>7. CASE Alive
  <2>1. ~HasSwap /\ writer.socket = "clear" /\ Waiting(all)
    BY <1>1, <1>7 DEF Story, Swapping
  <2>2. Ahead + Len(queue) = 1 /\ Ahead' = Ahead /\ Ahead \in Nat
    BY <1>1, <1>3, <1>4, <2>1 DEF Waiting, Ahead
  <2>3. ASSUME NEW i \in 1..Len(queue)
        PROVE  queue'[i] # Swap /\ queue'[i] = all[Number(i)']
    <3>1. queue[i] # Swap /\ Number(i) = Ahead + i
      BY <1>3, <2>1 DEF HasSwap, Number
    <3>2. Number(i)' = Ahead + i
      BY <1>3, <2>2 DEF Number
    <3> QED
      BY <1>2, <1>3, <2>1, <3>1, <3>2 DEF Waiting
  <2>4. ASSUME NEW i \in DOMAIN queue'
        PROVE  IF queue'[i] = Swap THEN Ahead' + i = 2 ELSE queue'[i] = all[Number(i)']
    <3>1. i \in 1..Len(queue) \/ i = Len(queue) + 1
      <4>1. i \in 1..(Len(queue) + 1)
        BY <1>3
      <4> QED
        BY <1>3, <4>1
    <3>2. CASE i \in 1..Len(queue)
      BY <2>3, <3>2
    <3>3. CASE i = Len(queue) + 1
      BY <1>2, <1>3, <2>2, <3>3
    <3> QED
      BY <3>1, <3>2, <3>3
  <2>5. sent' = Ahead' + Len(queue') - (IF HasSwap' THEN 1 ELSE 0)
    BY <1>1, <1>2, <1>3, <1>4, <1>6, <2>2
  <2>6. \A i \in DOMAIN writer'.pending : writer'.pending[i] = all[Len(wire') + i]
    BY <1>1, <2>1 DEF Waiting
  <2>7. Waiting(all)'
    BY <2>4, <2>5, <2>6 DEF Waiting
  <2>8. Online(all)'
    BY <1>1, <1>4 DEF Online
  <2>9. Swapping(all)'
    BY <1>1, <1>6, <2>1, <2>8 DEF Swapping
  <2> QED
    BY <1>5, <2>7, <2>9 DEF Story
<1>8. CASE ~Alive
  BY <1>1, <1>5, <1>8 DEF Story, Alive
<1> QED
  BY <1>7, <1>8
\* A write of the batch, whole or not: while the socket is the clear one,
\* nothing behind the request is in it.
LEMMA OutKeeps ==
    ASSUME WireTypeOK, NEW all \in Seq(Frame), Story(all), Alive, UNCHANGED sent,
           NEW s \in Seq(Frame), Len(s) <= Len(writer.pending), Writes(s),
           \A i \in 1..Len(s) : s[i] = writer.pending[i]
    PROVE  OnWire(all)' /\ Len(wire') = Len(wire) + Len(s) /\ wire' \in Seq(Wired)
<1>1. /\ wire' \in Seq(Wired) /\ Len(wire') = Len(wire) + Len(s)
      /\ \A i \in DOMAIN wire : wire'[i] = wire[i]
      /\ \A i \in DOMAIN wire' : i > Len(wire) =>
           wire'[i] = [frame |-> s[i - Len(wire)], on |-> writer.socket]
  BY WritesAppends
<1>2. /\ Len(wire) \in Nat /\ Len(s) \in Nat /\ Len(writer.pending) \in Nat /\ Len(queue) \in Nat
      /\ sent \in Nat /\ DOMAIN wire = 1..Len(wire) /\ DOMAIN wire' = 1..(Len(wire) + Len(s))
      /\ DOMAIN writer.pending = 1..Len(writer.pending) /\ DOMAIN queue = 1..Len(queue)
  BY <1>1 DEF WireTypeOK
<1>3. Waiting(all) /\ Swapping(all) /\ OnWire(all)
  BY DEF Story
<1>4. sent = Ahead + Len(queue) - (IF HasSwap THEN 1 ELSE 0)
  BY <1>3 DEF Waiting
<1>5. Ahead \in Nat /\ Ahead <= sent /\ Len(wire) + Len(s) <= Ahead
  <2>1. HasSwap => Len(queue) >= 1
    BY <1>2 DEF HasSwap
  <2> QED
    BY <1>2, <1>4, <2>1 DEF Ahead
<1>6. Online(all) /\ writer.socket = "clear" => Ahead <= 1
  <2>1. CASE HasSwap
    <3>1. PICK j \in 1..Len(queue) : queue[j] = Swap
      BY <1>2, <2>1 DEF HasSwap
    <3>2. Ahead + j = 2
      BY <1>2, <1>3, <3>1 DEF Waiting
    <3> QED
      BY <1>5, <3>1, <3>2
  <2>2. CASE ~HasSwap
    BY <1>3, <1>5, <2>2 DEF Swapping
  <2> QED
    BY <2>1, <2>2
<1>7. Online(all)' <=> Online(all)
  BY DEF Online
<1>8. ASSUME NEW i \in DOMAIN wire'
      PROVE  wire'[i].frame = all[i] /\ (wire'[i].on = "cipher" <=> i > 1 /\ Online(all))
  <2>1. CASE i <= Len(wire)
    <3>1. i \in DOMAIN wire
      BY <1>2, <2>1
    <3> QED
      BY <1>1, <1>3, <3>1 DEF OnWire
  <2>2. CASE i > Len(wire)
    <3>1. i - Len(wire) \in 1..Len(s) /\ i - Len(wire) \in DOMAIN writer.pending
          /\ Len(wire) + (i - Len(wire)) = i /\ i <= Ahead
      BY <1>2, <1>5, <2>2
    <3>2. wire'[i].frame = s[i - Len(wire)] /\ wire'[i].on = writer.socket
      BY <1>1, <2>2
    <3>3. wire'[i].frame = all[i]
      BY <1>3, <3>1, <3>2 DEF Waiting
    <3>4. writer.socket = "cipher" => i > 1 /\ Online(all)
      BY <1>2, <1>3, <2>2, <3>1 DEF Swapping
    <3>5. writer.socket \in {"clear", "cipher"}
      BY DEF WireTypeOK
    <3>6. i > 1 /\ Online(all) => writer.socket = "cipher"
      BY <1>5, <1>6, <3>1, <3>5, <1>2
    <3> QED
      BY <3>2, <3>3, <3>4, <3>6
  <2> QED
    BY <1>2, <2>1, <2>2
<1>9. Len(wire') <= sent'
  BY <1>1, <1>2, <1>5
<1> QED
  BY <1>1, <1>7, <1>8, <1>9 DEF OnWire

\* The whole batch, and any beginning of it.
LEMMA BatchOut ==
    ASSUME WireTypeOK, NEW all \in Seq(Frame), Story(all), Alive, UNCHANGED sent, Writes(writer.pending)
    PROVE  OnWire(all)' /\ Len(wire') = Len(wire) + Len(writer.pending)
<1>1. writer.pending \in Seq(Frame) /\ Len(writer.pending) \in Nat
  BY DEF WireTypeOK
<1> QED
  BY <1>1, OutKeeps

LEMMA PartOut ==
    ASSUME WireTypeOK, NEW all \in Seq(Frame), Story(all), Alive, UNCHANGED sent,
           \E k \in 0..Len(writer.pending) : Writes(SubSeq(writer.pending, 1, k))
    PROVE  OnWire(all)'
<1>1. writer.pending \in Seq(Frame) /\ Len(writer.pending) \in Nat
  BY DEF WireTypeOK
<1>2. PICK k \in 0..Len(writer.pending) : Writes(SubSeq(writer.pending, 1, k))
  OBVIOUS
<1>3. PICK s : s = SubSeq(writer.pending, 1, k)
  OBVIOUS
<1>4. s \in Seq(Frame) /\ Len(s) = k /\ \A i \in 1..k : s[i] = writer.pending[i]
  BY <1>1, <1>3, Beginning
<1>5. Writes(s)
  BY <1>2, <1>3
<1>6. Len(s) <= Len(writer.pending) /\ \A i \in 1..Len(s) : s[i] = writer.pending[i]
  BY <1>1, <1>4
<1> QED
  BY <1>4, <1>5, <1>6, OutKeeps

\* The writer's last step leaves the beginning of the frames on the wire.
LEMMA EndStory ==
    ASSUME WireTypeOK, NEW all \in Seq(Frame), Story(all), TakeFails \/ WriterEnds
    PROVE  \E more \in Seq(Frame) : Story(more)'
<1>1. Alive /\ UNCHANGED <<sent, stage, framing>> /\ writer'.pc = "over"
  BY DEF TakeFails, FlushFails, WriterEnds, linkVars, Alive, WireTypeOK
<1>2. OnWire(all)'
  BY <1>1, BatchOut, PartOut DEF TakeFails, FlushFails, WriterEnds
<1>3. Ordered(all)' /\ ~Alive'
  BY <1>1 DEF Story, Ordered, Alive
<1> QED
  BY <1>2, <1>3 DEF Story

LEMMA FlushStory ==
    ASSUME WireTypeOK, NEW all \in Seq(Frame), Story(all), Flush
    PROVE  \E more \in Seq(Frame) : Story(more)'
<1>1. Alive /\ UNCHANGED <<sent, stage, framing, queue>> /\ Writes(writer.pending)
      /\ writer'.pending = <<>> /\ writer'.socket = writer.socket
  BY DEF Flush, linkVars, Alive, WireTypeOK
<1>2. OnWire(all)' /\ Len(wire') = Len(wire) + Len(writer.pending)
  BY <1>1, BatchOut
<1>3. Ordered(all)'
  BY <1>1 DEF Story, Ordered
<1>4. /\ Len(<<>>) = 0 /\ DOMAIN <<>> = {} /\ Len(wire) \in Nat /\ Len(writer.pending) \in Nat
  BY DEF WireTypeOK
<1>5. Ahead' = Ahead /\ (HasSwap' <=> HasSwap)
  BY <1>1, <1>2, <1>4 DEF Ahead, HasSwap
<1>6. Waiting(all)'
  BY <1>1, <1>4, <1>5 DEF Story, Waiting, Number
<1>7. Swapping(all)'
  BY <1>1, <1>2, <1>4, <1>5 DEF Story, Swapping, Online
<1> QED
  BY <1>2, <1>3, <1>6, <1>7 DEF Story
\* Where the swap stands, there is no other.
LEMMA OneSwap ==
    ASSUME WireTypeOK, NEW all \in Seq(Frame), Waiting(all),
           NEW i \in DOMAIN queue, NEW j \in DOMAIN queue, queue[i] = Swap, queue[j] = Swap
    PROVE  i = j /\ Ahead + i = 2
<1>1. Ahead \in Nat /\ i \in Nat /\ j \in Nat
  BY DEF WireTypeOK, Ahead
<1>2. Ahead + i = 2 /\ Ahead + j = 2
  BY DEF Waiting
<1> QED
  BY <1>1, <1>2

LEMMA TakeFrameStory ==
    ASSUME WireTypeOK, NEW all \in Seq(Frame), Story(all), TakeFrame
    PROVE  \E more \in Seq(Frame) : Story(more)'
<1>1. Alive /\ UNCHANGED <<sent, stage, framing, wire>> /\ queue # <<>> /\ queue' = Tail(queue)
      /\ Head(queue) # Swap /\ writer'.pending = Append(writer.pending, Head(queue))
      /\ writer'.socket = writer.socket
  BY DEF TakeFrame, closeVars, Alive, WireTypeOK
<1>2. /\ Head(queue) = queue[1] /\ queue[1] \in Frame \cup {Swap}
      /\ queue' \in Seq(Frame \cup {Swap}) /\ Len(queue') = Len(queue) - 1
      /\ \A i \in 1..(Len(queue) - 1) : queue'[i] = queue[i + 1]
  BY <1>1, NextOut DEF WireTypeOK
<1>3. /\ Len(wire) \in Nat /\ Len(queue) \in Nat \ {0} /\ Len(writer.pending) \in Nat
      /\ DOMAIN queue = 1..Len(queue) /\ DOMAIN queue' = 1..(Len(queue) - 1)
      /\ DOMAIN writer.pending = 1..Len(writer.pending)
  BY <1>1, <1>2 DEF WireTypeOK
<1>4. /\ writer'.pending \in Seq(Frame) /\ Len(writer'.pending) = Len(writer.pending) + 1
      /\ \A i \in 1..Len(writer.pending) : writer'.pending[i] = writer.pending[i]
      /\ writer'.pending[Len(writer.pending) + 1] = queue[1]
  BY <1>1, <1>2, OneMore DEF WireTypeOK
<1>5. Waiting(all) /\ Swapping(all)
  BY <1>1 DEF Story
<1>6. HasSwap' <=> HasSwap
  <2>1. ASSUME HasSwap PROVE HasSwap'
    <3>1. PICK j \in 1..Len(queue) : queue[j] = Swap
      BY <1>3, <2>1 DEF HasSwap
    <3>2. j # 1
      BY <1>1, <1>2, <3>1
    <3>3. j - 1 \in 1..(Len(queue) - 1) /\ (j - 1) + 1 = j
      BY <1>3, <3>2
    <3> QED
      BY <1>2, <1>3, <3>1, <3>3 DEF HasSwap
  <2>2. ASSUME HasSwap' PROVE HasSwap
    <3>1. PICK j \in 1..(Len(queue) - 1) : queue'[j] = Swap
      BY <1>3, <2>2 DEF HasSwap
    <3>2. j + 1 \in 1..Len(queue) /\ queue[j + 1] = Swap
      BY <1>2, <1>3, <3>1
    <3> QED
      BY <1>3, <3>2 DEF HasSwap
  <2> QED
    BY <2>1, <2>2
<1>7. Ahead' = Ahead + 1 /\ Ahead \in Nat
  BY <1>1, <1>3, <1>4 DEF Ahead
<1>8. ASSUME NEW i \in 1..(Len(queue) - 1) PROVE Number(i)' = Number(i + 1)
  BY <1>3, <1>6, <1>7 DEF Number
<1>9. Number(1) = Ahead + 1
  <2>1. CASE HasSwap
    <3>1. PICK j \in 1..Len(queue) : queue[j] = Swap
      BY <1>3, <2>1 DEF HasSwap
    <3>2. j # 1 /\ Ahead + j = 2
      BY <1>1, <1>2, <1>3, <1>5, <3>1 DEF Waiting
    <3> QED
      BY <1>3, <1>7, <3>2 DEF Number
  <2>2. CASE ~HasSwap
    BY <2>2 DEF Number
  <2> QED
    BY <2>1, <2>2
<1>10. sent' = Ahead' + Len(queue') - (IF HasSwap' THEN 1 ELSE 0)
  <2>1. sent = Ahead + Len(queue) - (IF HasSwap THEN 1 ELSE 0)
    BY <1>5 DEF Waiting
  <2>2. sent' = sent /\ Len(queue') = Len(queue) - 1
    BY <1>1, <1>2
  <2>3. (IF HasSwap' THEN 1 ELSE 0) = (IF HasSwap THEN 1 ELSE 0)
    BY <1>6
  <2> QED
    BY SMTT(20), <2>1, <2>2, <2>3, <1>3, <1>7
<1>11. ASSUME NEW i \in DOMAIN writer'.pending PROVE writer'.pending[i] = all[Len(wire) + i]
  <2>1. i \in 1..(Len(writer.pending) + 1)
    BY <1>4
  <2>2. CASE i \in 1..Len(writer.pending)
    BY <1>3, <1>4, <1>5, <2>2 DEF Waiting
  <2>3. CASE i = Len(writer.pending) + 1
    <3>1. queue[1] = all[Ahead + 1]
      BY <1>1, <1>2, <1>3, <1>5, <1>9 DEF Waiting
    <3>2. Len(wire) + i = Ahead + 1
      BY <1>3, <2>3 DEF Ahead
    <3> QED
      BY <1>4, <2>3, <3>1, <3>2
  <2> QED
    BY <1>3, <2>1, <2>2, <2>3
<1>12. ASSUME NEW i \in DOMAIN queue'
       PROVE  IF queue'[i] = Swap THEN Ahead' + i = 2 ELSE queue'[i] = all[Number(i)']
  <2>1. i \in 1..(Len(queue) - 1) /\ i + 1 \in DOMAIN queue /\ queue'[i] = queue[i + 1]
    BY <1>2, <1>3
  <2>2. IF queue[i + 1] = Swap THEN Ahead + (i + 1) = 2 ELSE queue[i + 1] = all[Number(i + 1)]
    BY <1>5, <2>1 DEF Waiting
  <2>3. CASE queue[i + 1] = Swap
    BY <1>7, <2>1, <2>2, <2>3
  <2>4. CASE queue[i + 1] # Swap
    BY <1>8, <2>1, <2>2, <2>4
  <2> QED
    BY <2>3, <2>4
<1>13. Waiting(all)'
  BY <1>1, <1>10, <1>11, <1>12 DEF Waiting
<1>14. Swapping(all)'
  BY <1>1, <1>5, <1>6 DEF Swapping, Online
<1>15. Ordered(all)' /\ OnWire(all)'
  BY <1>1 DEF Story, Ordered, OnWire, Online
<1> QED
  BY <1>13, <1>14, <1>15 DEF Story

\* The swap comes up when the request alone is ahead of it.
LEMMA TakeSwapStory ==
    ASSUME WireTypeOK, NEW all \in Seq(Frame), Story(all), TakeSwap
    PROVE  \E more \in Seq(Frame) : Story(more)'
<1>1. Alive /\ UNCHANGED <<sent, stage, framing>> /\ queue # <<>> /\ queue' = Tail(queue)
      /\ Head(queue) = Swap /\ Writes(writer.pending) /\ writer'.pending = <<>>
      /\ writer'.socket = "cipher"
  BY DEF TakeSwap, closeVars, Alive
<1>2. /\ Head(queue) = queue[1]
      /\ queue' \in Seq(Frame \cup {Swap}) /\ Len(queue') = Len(queue) - 1
      /\ \A i \in 1..(Len(queue) - 1) : queue'[i] = queue[i + 1]
  BY <1>1, NextOut DEF WireTypeOK
<1>3. /\ Len(wire) \in Nat /\ Len(queue) \in Nat \ {0} /\ Len(writer.pending) \in Nat
      /\ DOMAIN queue = 1..Len(queue) /\ DOMAIN queue' = 1..(Len(queue) - 1)
      /\ Len(<<>>) = 0 /\ DOMAIN <<>> = {}
  BY <1>1, <1>2 DEF WireTypeOK
<1>4. Waiting(all) /\ Swapping(all)
  BY <1>1 DEF Story
<1>5. HasSwap
  BY <1>1, <1>2, <1>3 DEF HasSwap
<1>6. Ahead = 1
  BY SMTT(20), <1>1, <1>2, <1>3, <1>4, OneSwap DEF Ahead
<1>7. OnWire(all)' /\ Len(wire') = Len(wire) + Len(writer.pending)
  BY <1>1, BatchOut
<1>8. Len(wire') = 1 /\ Ahead' = 1
  BY <1>1, <1>3, <1>6, <1>7 DEF Ahead
<1>9. \A i \in 1..(Len(queue) - 1) : queue[i + 1] # Swap
  <2>1. 1 \in DOMAIN queue /\ \A i \in 1..(Len(queue) - 1) : i + 1 \in DOMAIN queue /\ i + 1 # 1
    BY <1>3
  <2> QED
    BY <1>1, <1>2, <1>4, <2>1, OneSwap
<1>10. ~HasSwap'
  BY <1>2, <1>3, <1>9 DEF HasSwap
<1>11. ASSUME NEW i \in DOMAIN queue' PROVE queue'[i] # Swap /\ queue'[i] = all[Number(i)']
  <2>1. i \in 1..(Len(queue) - 1) /\ i + 1 \in DOMAIN queue /\ queue'[i] = queue[i + 1]
    BY <1>2, <1>3
  <2>2. Number(i + 1) = Ahead + i
    BY <1>3, <1>5, <1>6, <2>1 DEF Number
  <2>3. Number(i)' = 1 + i
    BY <1>8, <1>10 DEF Number
  <2> QED
    BY <1>4, <1>6, <1>9, <2>1, <2>2, <2>3 DEF Waiting
<1>12. sent' = Ahead' + Len(queue') - (IF HasSwap' THEN 1 ELSE 0)
  BY <1>1, <1>2, <1>3, <1>4, <1>5, <1>6, <1>8, <1>10 DEF Waiting
<1>13. Waiting(all)'
  BY <1>1, <1>3, <1>11, <1>12 DEF Waiting
<1>14. Swapping(all)'
  BY <1>1, <1>4, <1>5, <1>8, <1>10 DEF Swapping, Online
<1>15. Ordered(all)'
  BY <1>1 DEF Story, Ordered
<1> QED
  BY <1>7, <1>13, <1>14, <1>15 DEF Story
\* Every step keeps the story, or adds a chapter to it.
LEMMA StoryGoesOn ==
    ASSUME WireTypeOK, NEW all \in Seq(Frame), Story(all), [WireNext]_wireVars
    PROVE  \E more \in Seq(Frame) : Story(more)'
<1>1. CASE Accepting
  BY <1>1, AcceptingStory
<1>2. CASE Encrypt
  BY <1>2, EncryptStory
<1>3. CASE LoginWriteFails \/ EncryptFails \/ WriteRefused
  BY <1>3, QuietStory DEF LoginWriteFails, EncryptFails, WriteRefused, Refused, linkVars, writerVars
<1>4. CASE WriterStep
  BY <1>4, EndStory, FlushStory, TakeFrameStory, TakeSwapStory DEF WriterStep
<1>5. CASE CloseConn
  BY <1>5, QuietStory DEF CloseConn, linkVars, writerVars
<1>6. CASE \E k \in Closer : CloserStep(k)
  BY <1>6, QuietStory
     DEF CloserStep, ShutdownConn, CloseQueue, Drained, FinishConn, linkVars, writerVars
<1>7. CASE UNCHANGED wireVars
  BY <1>7, QuietStory DEF wireVars
<1> QED
  BY <1>1, <1>2, <1>3, <1>4, <1>5, <1>6, <1>7 DEF WireNext, Login, Accepting, WireOver

\* A writer that has ended takes no step, and after it nothing is accepted:
\* it ended on a closed queue, or on a failure.
LEMMA LastWordsHold ==
    ASSUME WireTypeOK, CloseInv, LastWords, NEW all \in Seq(Frame), Story(all), [WireNext]_wireVars
    PROVE  LastWords'
<1> DEFINE Past == {k \in Closer : closer[k] \in {"finish", "done"}}
<1>0. LastWords <=> /\ ~Alive => writer.pending = <<>>
                    /\ ~Alive /\ ~failed => outClosed /\ Len(wire) = sent
                    /\ Past # {} /\ ~timedOut => ~Alive
  BY DEF LastWords
<1>1. ASSUME Ask PROVE Past' = Past
  BY <1>1 DEF Ask, CloseInv
<1>2. ASSUME UNCHANGED <<writer, wire, failed, outClosed, timedOut>>, Past' = Past,
             ~Alive /\ ~failed => sent' = sent
      PROVE  LastWords'
  BY <1>0, <1>2 DEF LastWords, Alive
<1>3. CASE Accepting
  <2>1. ~closed /\ UNCHANGED <<writer, wire, failed, outClosed, timedOut>>
    BY <1>3 DEF Accepting, EncryptionRequest, EnableCompression, RefuseLogin, LoginSuccess, Write,
                Accept, writerVars, closeVars
  <2>2. Ask \/ UNCHANGED closer
    BY <1>3 DEF Accepting, EncryptionRequest, EnableCompression, RefuseLogin, LoginSuccess, Write,
                closeVars
  <2>3. Past' = Past
    BY <1>1, <2>2
  <2>4. Alive \/ failed
    BY <1>0, <2>1 DEF CloseInv
  <2> QED
    BY <1>2, <2>1, <2>3, <2>4
<1>4. CASE Encrypt
  BY <1>2, <1>4 DEF Encrypt, writerVars, closeVars
<1>5. CASE LoginWriteFails \/ EncryptFails \/ WriteRefused
  <2>1. UNCHANGED <<writer, wire, failed, outClosed, timedOut, sent>> /\ (Ask \/ UNCHANGED closer)
    BY <1>5 DEF LoginWriteFails, EncryptFails, WriteRefused, Refused, linkVars, writerVars
  <2> QED
    BY <1>1, <1>2, <2>1
<1>6. CASE TakeFails
  <2>1. failed' /\ writer'.pc = "over" /\ writer'.pending = <<>> /\ (Ask \/ UNCHANGED closer)
    BY <1>6 DEF TakeFails, FlushFails, WireTypeOK
  <2> QED
    BY <2>1 DEF LastWords, Alive
<1>7. CASE TakeFrame \/ TakeSwap \/ Flush
  <2>1. Alive /\ writer'.pc # "over" /\ UNCHANGED <<timedOut, closer>>
    <3>1. writer = [pc |-> writer.pc, pending |-> writer.pending, socket |-> writer.socket]
      BY DEF WireTypeOK
    <3>2. CASE TakeFrame
      BY <3>1, <3>2 DEF TakeFrame, closeVars, Alive
    <3>3. CASE TakeSwap
      BY <3>3 DEF TakeSwap, closeVars, Alive
    <3>4. CASE Flush
      BY <3>1, <3>4 DEF Flush, closeVars, Alive
    <3> QED
      BY <1>7, <3>2, <3>3, <3>4
  <2> QED
    BY <1>0, <2>1 DEF LastWords, Alive
<1>8. CASE WriterEnds
  <2>1. Alive /\ queue = <<>> /\ outClosed /\ writer'.pc = "over" /\ writer'.pending = <<>>
        /\ UNCHANGED <<outClosed, sent>>
    BY <1>8 DEF WriterEnds, linkVars, WireTypeOK, Alive
  <2>2. sent = Len(wire) + Len(writer.pending)
    <3>1. Len(queue) = 0 /\ ~HasSwap /\ Len(wire) \in Nat /\ Len(writer.pending) \in Nat
      BY <2>1 DEF HasSwap, WireTypeOK
    <3> QED
      BY <2>1, <3>1 DEF Story, Waiting, Ahead
  <2>3. failed' \/ Len(wire') = sent'
    BY <1>8, <2>1, <2>2, BatchOut DEF WriterEnds
  <2> QED
    BY <2>1, <2>3 DEF LastWords, Alive
<1>9. CASE CloseConn
  <2>1. UNCHANGED <<writer, wire, failed, outClosed, timedOut, sent>> /\ Ask
    BY <1>9 DEF CloseConn, Ask, linkVars, writerVars
  <2> QED
    BY <1>1, <1>2, <2>1
<1>10. ASSUME NEW k \in Closer, CloserStep(k) PROVE LastWords'
  <2>1. UNCHANGED <<writer, wire, failed, sent>>
    BY <1>10 DEF CloserStep, ShutdownConn, CloseQueue, Drained, FinishConn, linkVars, writerVars
  <2>2. CASE ShutdownConn(k)
    <3>1. Past' = Past /\ UNCHANGED <<outClosed, timedOut>>
      BY <2>2 DEF ShutdownConn, CloseInv
    <3> QED
      BY <1>2, <2>1, <3>1
  <2>3. CASE CloseQueue(k)
    <3>1. Past' = Past /\ outClosed' /\ timedOut' = timedOut
      BY <2>3 DEF CloseQueue, CloseInv
    <3> QED
      BY <1>0, <2>1, <3>1 DEF LastWords, Alive
  <2>4. CASE Drained(k)
    <3>1. outClosed' = outClosed /\ timedOut' = Alive
      BY <2>4 DEF Drained, linkVars, Alive
    <3> QED
      BY <1>0, <2>1, <3>1 DEF LastWords, Alive
  <2>5. CASE FinishConn(k)
    <3>1. Past' = Past /\ UNCHANGED <<outClosed, timedOut>>
      BY <2>5 DEF FinishConn, CloseInv
    <3> QED
      BY <1>2, <2>1, <3>1
  <2> QED
    BY <1>10, <2>2, <2>3, <2>4, <2>5 DEF CloserStep
<1>11. CASE UNCHANGED wireVars
  BY <1>2, <1>11 DEF wireVars
<1> QED
  BY <1>3, <1>4, <1>5, <1>6, <1>7, <1>8, <1>9, <1>10, <1>11
     DEF WireNext, Login, Accepting, WriterStep, WireOver

\* The inductive invariant.
LEMMA WireInvHolds == WireSpec => []WireInv
<1>1. WireInit => WireTypeOK
  <2>1. <<>> \in Seq(Frame) /\ <<>> \in Seq(Frame \cup {Swap}) /\ Len(<<>>) = 0
        /\ <<>> \in Seq([frame : Frame, on : {"clear", "cipher"}])
    BY EmptySeq
  <2> QED
    <3> SUFFICES ASSUME WireInit PROVE WireTypeOK
      OBVIOUS
    <3>1. writer \in [pc : {"first", "batch", "over"}, pending : Seq(Frame), socket : {"clear", "cipher"}]
      BY <2>1 DEF WireInit
    <3>2. Len(writer.pending) = 0 /\ Len(queue) = 0 /\ 0 <= QueueSize /\ 0 \in 0..MaxFrames
      BY <2>1, SizeAssumption DEF WireInit
    <3>3. queue \in Seq(Frame \cup {Swap}) /\ wire \in Seq([frame : Frame, on : {"clear", "cipher"}])
      BY <2>1 DEF WireInit
    <3> QED
      BY <3>1, <3>2, <3>3 DEF WireInit, WireTypeOK
<1>2. WireInit => Story(<<>>) /\ LastWords
  <2> SUFFICES ASSUME WireInit PROVE Story(<<>>) /\ LastWords
    OBVIOUS
  <2>1. Len(<<>>) = 0 /\ DOMAIN <<>> = {} /\ Alive /\ ~HasSwap /\ sent = 0 /\ queue = <<>>
        /\ wire = <<>> /\ writer.pending = <<>> /\ Ahead = 0
    BY DEF WireInit, HasSwap, Alive, Ahead
  <2>2. Ordered(<<>>) /\ OnWire(<<>>)
    BY <2>1 DEF WireInit, Ordered, OnWire
  <2>3. Waiting(<<>>) /\ Swapping(<<>>)
    BY <2>1 DEF WireInit, Waiting, Swapping, Online
  <2>4. LastWords
    BY <2>1 DEF WireInit, LastWords
  <2> QED
    BY <2>2, <2>3, <2>4 DEF Story
<1>3. WireInit => CloseInv
  BY DEF WireInit, CloseInv, NoPanic, First
<1>4. WireInit => WireInv
  <2>1. <<>> \in Seq(Frame)
    BY EmptySeq
  <2> QED
    BY <1>1, <1>2, <1>3, <2>1 DEF WireInv
<1>5. WireInv /\ [WireNext]_wireVars /\ CloseInv' => WireInv'
  BY WireTypes, StoryGoesOn, LastWordsHold DEF WireInv
<1> QED
  BY <1>4, <1>5, CloseHolds, PTL DEF WireSpec

\* A client gets every frame it is sent once, in order and such that it can
\* read it, and a kick's last words reach it (Conn, writerLoop), for any
\* queue, any number of frames and of goroutines that close it.
THEOREM WireIsSafe == WireSpec => []WireSafety
<1>1. WireInv => WireSafety
  <2> SUFFICES ASSUME WireInv PROVE WireSafety
    OBVIOUS
  <2>1. PICK all \in Seq(Frame) : Story(all)
    BY DEF WireInv
  <2>2. /\ Len(wire) \in Nat /\ DOMAIN wire = 1..Len(wire) /\ sent \in Nat /\ Len(wire) <= sent
        /\ \A i \in 1..Len(wire) : wire[i].frame = all[i] /\ (wire[i].on = "cipher" <=> i > 1 /\ Online(all))
        /\ \A i \in 1..Len(wire) : i \in 1..sent
    BY <2>1 DEF WireInv, WireTypeOK, Story, OnWire
  <2>3. \A i \in 1..sent : /\ all[i].n = i
                           /\ all[i].what = "request" => i = 1
                           /\ all[i].as = "compressed" <=> \E j \in 1..(i - 1) : all[j].what = "compression"
    BY <2>1 DEF Story, Ordered
  <2>4. WireInOrder
    BY <2>2, <2>3 DEF WireInOrder
  <2>5. ASSUME NEW i \in 1..Len(wire)
        PROVE  wire[i].on = "cipher" <=> Before(i, "request")
    <3>1. Before(i, "request") <=> \E j \in 1..Len(wire) : j < i /\ all[j].what = "request"
      BY <2>2 DEF Before
    <3>2. (\E j \in 1..Len(wire) : j < i /\ all[j].what = "request") <=> i > 1 /\ Online(all)
      BY <2>2, <2>3 DEF Online
    <3> QED
      BY <2>2, <3>1, <3>2
  <2>6. ASSUME NEW i \in 1..Len(wire)
        PROVE  wire[i].frame.as = "compressed" <=> Before(i, "compression")
    <3>1. Before(i, "compression") <=> \E j \in 1..Len(wire) : j < i /\ all[j].what = "compression"
      BY <2>2 DEF Before
    <3>2. (\E j \in 1..Len(wire) : j < i /\ all[j].what = "compression")
            <=> \E j \in 1..(i - 1) : all[j].what = "compression"
      BY <2>2
    <3> QED
      BY <2>2, <2>3, <3>1, <3>2
  <2>7. NoPanic /\ KickDelivered
    BY DEF WireInv, CloseInv, LastWords, KickDelivered
  <2> QED
    BY <2>2, <2>4, <2>5, <2>6, <2>7 DEF WireSafety, Readable
<1> QED
  BY <1>1, WireInvHolds, PTL
-----------------------------------------------------------------------------
(***************************************************************************)
(* The ban list.  The map has the last orders; a moderator who is to save, *)
(* or is writing the map as it is, makes up for what the file lacks.       *)
(***************************************************************************)

\* A time stands for an order: it is the one that was given, or both are over.
Stands(until, n) == until = sentence[n] \/ (until <= hour /\ sentence[n] <= hour)

Bans == [until : Int, local : BOOLEAN]
Saves == {NotKeeping, [at |-> "due"]} \cup [at : {"write"}, bans : [Culprit -> Bans]]

BanTypes ==
    /\ hour \in Nat /\ kept \in BOOLEAN
    /\ bans \in [Culprit -> Bans] /\ banlist \in [Culprit -> Int]
    /\ sentence \in [Culprit -> Int]
    /\ keep \in [Moderator -> Saves]

\* Someone has yet to take the snapshot it will write.
SaveDue == \E m \in Moderator : keep[m].at = "due"
OneWrites == \A m, k \in Moderator : keep[m].at = "write" /\ keep[k].at = "write" => m = k

InMap == \A n \in Culprit : Stands(bans[n].until, n)
InSnapshot == \A m \in Moderator : keep[m].at = "write" =>
                  SaveDue \/ \A n \in Culprit : Stands(keep[m].bans[n].until, n)
InFile == kept /\ (\A m \in Moderator : keep[m] = NotKeeping) =>
              \A n \in Culprit : Stands(banlist[n], n)

BanInv == /\ BanTypes /\ hour > 0 /\ OneWrites
          /\ InMap /\ InSnapshot /\ InFile

LEMMA SentenceKeeps ==
    ASSUME BanInv, NEW m \in Moderator, NEW n \in Culprit, NEW until \in Int, until = 0 \/ until > hour,
           Sentence(m, n, until)
    PROVE  BanInv'
<1>1. /\ BanTypes /\ hour > 0 /\ keep[m] = NotKeeping /\ UNCHANGED <<hour, banlist, kept>>
      /\ sentence' = [sentence EXCEPT ![n] = until]
      /\ bans' = [bans EXCEPT ![n] = IF until = 0 THEN NoBan ELSE [until |-> until, local |-> TRUE]]
      /\ keep' = IF until = 0 /\ bans[n] = NoBan THEN keep ELSE [keep EXCEPT ![m] = [at |-> "due"]]
  BY DEF BanInv, Sentence
<1>2. NoBan \in Bans /\ [until |-> until, local |-> TRUE] \in Bans
  BY DEF NoBan, Bans
<1>3. BanTypes'
  BY <1>1, <1>2 DEF BanTypes, Saves
<1>4. bans'[n].until = until /\ \A o \in Culprit : o # n => bans'[o] = bans[o] /\ sentence'[o] = sentence[o]
  BY <1>1 DEF BanTypes, NoBan
<1>5. sentence'[n] = until
  BY <1>1 DEF BanTypes
<1>6. InMap'
  BY <1>1, <1>4, <1>5 DEF BanInv, InMap, Stands
<1>7. CASE until = 0 /\ bans[n] = NoBan
  <2>1. keep' = keep /\ sentence[n] <= hour
    BY <1>1, <1>7 DEF BanInv, InMap, Stands, NoBan, BanTypes
  <2>2. \A x \in Int, o \in Culprit : Stands(x, o) => x = sentence'[o] \/ (x <= hour' /\ sentence'[o] <= hour')
    BY <1>1, <1>4, <1>5, <1>7, <2>1 DEF BanTypes, Stands
  <2>3. InSnapshot'
    <3>1. ASSUME NEW k \in Moderator, keep[k].at = "write", NEW o \in Culprit
          PROVE  keep[k].bans[o].until \in Int
      BY <3>1, <1>1 DEF BanTypes, Saves, NotKeeping, Bans
    <3> QED
      BY <2>1, <2>2, <3>1 DEF BanInv, InSnapshot, SaveDue, Stands
  <2>4. InFile'
    BY <1>1, <2>1, <2>2 DEF BanInv, InFile, Stands, BanTypes
  <2> QED
    BY <1>1, <1>3, <1>6, <2>1, <2>3, <2>4 DEF BanInv, OneWrites
<1>8. CASE ~(until = 0 /\ bans[n] = NoBan)
  <2>1. keep' = [keep EXCEPT ![m] = [at |-> "due"]]
    BY <1>1, <1>8
  <2>2. keep'[m].at = "due" /\ keep'[m] # NotKeeping /\ \A k \in Moderator : k # m => keep'[k] = keep[k]
    BY <1>1, <2>1 DEF BanTypes, NotKeeping
  <2>3. OneWrites' /\ InSnapshot' /\ InFile'
    BY <2>2 DEF BanInv, OneWrites, InSnapshot, SaveDue, InFile
  <2> QED
    BY <1>1, <1>3, <1>6, <2>3 DEF BanInv
<1> QED
  BY <1>7, <1>8

LEMMA KeepSnapshotKeeps == ASSUME BanInv, NEW m \in Moderator, KeepSnapshot(m) PROVE BanInv'
<1>1. /\ BanTypes /\ hour > 0 /\ keep[m].at = "due" /\ \A k \in Moderator : keep[k].at # "write"
      /\ keep' = [keep EXCEPT ![m] = [at |-> "write", bans |-> bans]]
      /\ UNCHANGED <<hour, bans, banlist, kept, sentence>>
  BY DEF BanInv, KeepSnapshot
<1>2. [at |-> "write", bans |-> bans] \in Saves
  BY <1>1 DEF BanTypes, Saves
<1>3. BanTypes'
  BY <1>1, <1>2 DEF BanTypes
<1>4. keep'[m] = [at |-> "write", bans |-> bans] /\ \A k \in Moderator : k # m => keep'[k] = keep[k]
  BY <1>1 DEF BanTypes
<1>5. OneWrites' /\ keep'[m] # NotKeeping
  BY <1>1, <1>4 DEF OneWrites, NotKeeping
<1>6. InMap' /\ InSnapshot' /\ InFile'
  BY <1>1, <1>4, <1>5 DEF BanInv, InMap, InSnapshot, InFile, Stands
<1> QED
  BY <1>1, <1>3, <1>5, <1>6 DEF BanInv

LEMMA KeepWriteKeeps ==
    ASSUME Shift = 0, BanInv, NEW m \in Moderator, NEW ok \in BOOLEAN, KeepWrite(m, ok) PROVE BanInv'
<1>1. /\ BanTypes /\ hour > 0 /\ keep[m].at = "write" /\ kept' = ok
      /\ banlist' = IF ok THEN [n \in Culprit |-> Written(keep[m].bans[n])] ELSE banlist
      /\ keep' = [keep EXCEPT ![m] = NotKeeping]
      /\ UNCHANGED <<hour, bans, sentence>>
  BY DEF BanInv, KeepWrite
<1>2. keep[m].bans \in [Culprit -> Bans]
  BY <1>1 DEF BanTypes, Saves, NotKeeping
<1>3. \A n \in Culprit : keep[m].bans[n].until \in Int /\ Written(keep[m].bans[n]) = keep[m].bans[n].until
  BY <1>2 DEF Bans, Written
<1>4. BanTypes'
  BY <1>1, <1>3 DEF BanTypes, Saves
<1>5. keep'[m] = NotKeeping /\ \A k \in Moderator : k # m => keep'[k] = keep[k]
  BY <1>1 DEF BanTypes
<1>6. OneWrites' /\ InMap' /\ (SaveDue' <=> SaveDue)
  BY <1>1, <1>5 DEF BanInv, OneWrites, InMap, Stands, SaveDue, NotKeeping
<1>7. InSnapshot'
  BY <1>1, <1>5, <1>6 DEF BanInv, InSnapshot, Stands, NotKeeping
<1>8. InFile'
  <2> SUFFICES ASSUME kept', \A k \in Moderator : keep'[k] = NotKeeping, NEW n \in Culprit
               PROVE  Stands(banlist[n], n)'
    BY <1>1 DEF InFile
  <2>1. ~SaveDue
    BY <1>6 DEF SaveDue, NotKeeping
  <2>2. Stands(keep[m].bans[n].until, n)
    BY <1>1, <2>1 DEF BanInv, InSnapshot
  <2>3. banlist'[n] = keep[m].bans[n].until
    BY <1>1, <1>3
  <2> QED
    BY <1>1, <2>2, <2>3 DEF Stands
<1> QED
  BY <1>1, <1>4, <1>6, <1>7, <1>8 DEF BanInv

LEMMA BanRestartKeeps == ASSUME BanInv, BanRestart PROVE BanInv'
<1>1. /\ BanTypes /\ hour > 0 /\ kept /\ \A m \in Moderator : keep[m] = NotKeeping
      /\ bans' = [n \in Culprit |-> IF banlist[n] <= hour THEN NoBan
                                    ELSE [until |-> banlist[n], local |-> FALSE]]
      /\ UNCHANGED <<hour, banlist, keep, kept, sentence>>
  BY DEF BanInv, BanRestart
<1>2. \A n \in Culprit : NoBan \in Bans /\ [until |-> banlist[n], local |-> FALSE] \in Bans
  BY <1>1 DEF NoBan, Bans, BanTypes
<1>3. BanTypes'
  BY <1>1, <1>2 DEF BanTypes
<1>4. \A n \in Culprit : Stands(banlist[n], n)
  BY <1>1 DEF BanInv, InFile
<1>5. InMap'
  BY <1>1, <1>4 DEF InMap, Stands, NoBan, BanTypes
<1> QED
  BY <1>1, <1>3, <1>5 DEF BanInv, OneWrites, InSnapshot, SaveDue, InFile, Stands

LEMMA BanTickKeeps == ASSUME BanInv, BanTick PROVE BanInv'
<1>1. BanTypes /\ hour > 0 /\ hour' = hour + 1 /\ UNCHANGED <<bans, banlist, keep, kept, sentence>>
  BY DEF BanInv, BanTick
<1>2. \A x \in Int, n \in Culprit : Stands(x, n) => x = sentence'[n] \/ (x <= hour' /\ sentence'[n] <= hour')
  BY <1>1 DEF BanTypes, Stands
<1>3. \A k \in Moderator, n \in Culprit : keep[k].at = "write" => keep[k].bans[n].until \in Int
  BY <1>1 DEF BanTypes, Saves, NotKeeping, Bans
<1>4. \A n \in Culprit : bans[n].until \in Int /\ banlist[n] \in Int
  BY <1>1 DEF BanTypes, Bans
<1>5. BanTypes' /\ hour' > 0
  BY <1>1 DEF BanTypes
<1>6. InMap' /\ InFile'
  BY <1>1, <1>2, <1>4 DEF BanInv, InMap, InFile, Stands
<1>7. InSnapshot'
  BY <1>1, <1>2, <1>3 DEF BanInv, InSnapshot, SaveDue, Stands
<1> QED
  BY <1>1, <1>5, <1>6, <1>7 DEF BanInv, OneWrites

\* While times read back as they were set (the address guard; the ban list of a
\* server on UTC), every order is in the map and in a file nobody is saving, for
\* any moderators, names and terms (ban.go, ipguard.go).
THEOREM BansOutlastRestarts == ASSUME Shift = 0 PROVE BanSpec => []BansLast
<1>1. BanInit => BanInv
  <2> SUFFICES ASSUME BanInit PROVE BanInv
    OBVIOUS
  <2>1. NoBan \in Bans /\ NotKeeping \in Saves
    BY DEF NoBan, Bans, Saves
  <2>2. BanTypes /\ hour > 0
    BY <2>1 DEF BanInit, BanTypes
  <2> QED
    BY <2>2 DEF BanInit, BanInv, OneWrites, InMap, InSnapshot, InFile, Stands, NoBan, NotKeeping
<1>2. BanInv /\ [BanNext]_banVars => BanInv'
  <2> SUFFICES ASSUME BanInv, [BanNext]_banVars PROVE BanInv'
    OBVIOUS
  <2>1. ASSUME NEW m \in Moderator, NEW n \in Culprit, Sentence(m, n, 0) PROVE BanInv'
    BY <2>1, SentenceKeeps
  <2>2. ASSUME NEW m \in Moderator, NEW n \in Culprit, NEW d \in Terms, Sentence(m, n, hour + d)
        PROVE  BanInv'
    <3>1. hour + d \in Int /\ hour + d > hour
      BY BanAssumption DEF BanInv, BanTypes
    <3> QED
      BY <2>2, <3>1, SentenceKeeps
  <2>3. CASE UNCHANGED banVars
    BY <2>3 DEF banVars, BanInv, BanTypes, OneWrites, InMap, InSnapshot, SaveDue, InFile, Stands
  <2> QED
    BY <2>1, <2>2, <2>3, KeepSnapshotKeeps, KeepWriteKeeps, BanRestartKeeps, BanTickKeeps DEF BanNext
<1>3. BanInv => BansLast
  <2> SUFFICES ASSUME BanInv PROVE BansLast
    OBVIOUS
  <2>1. \A n \in Culprit : bans[n].until \in Int /\ banlist[n] \in Int /\ sentence[n] \in Int /\ hour \in Nat
    BY DEF BanInv, BanTypes, Bans
  <2> QED
    BY <2>1 DEF BanInv, BansLast, InMap, InFile, Stands
<1> QED
  BY <1>1, <1>2, <1>3, PTL DEF BanSpec

(***************************************************************************)
(* Keep-alives.  One id at a time is on its way: it is being sent, or the  *)
(* client has yet to get it, or its echo has yet to be read.               *)
(***************************************************************************)

OnItsWay ==
    \/ sending = pendingID /\ toClient = << >> /\ toServer = << >>
    \/ sending = 0 /\ toClient = <<pendingID>> /\ toServer = << >>
    \/ sending = 0 /\ toClient = << >> /\ toServer = <<pendingID>>

KeepInv ==
    /\ beat \in Nat \ {0} /\ pendingID \in Nat /\ sentAt \in Nat /\ waitedFor \in Nat
    /\ flagged = FALSE /\ dropped \in BOOLEAN
    /\ IF pendingID = 0 THEN sending = 0 /\ toClient = << >> /\ toServer = << >> ELSE OnItsWay
    /\ ~dropped => waitedFor = IF pendingID = 0 THEN 0 ELSE beat - sentAt
    /\ dropped => waitedFor > KeepAliveTimeout

LEMMA OneElement ==
    ASSUME NEW x PROVE /\ <<x>> # << >> /\ Head(<<x>>) = x /\ Tail(<<x>>) = << >>
                       /\ Append(<< >>, x) = <<x>>
OBVIOUS

\* An honest client is neither taken for a forger nor given up on early,
\* for any interval and timeout (keep_alive.go, keepalive.go).
THEOREM HonestClientsKept == KeepSpec => []HonestKept
<1>1. KeepInit => KeepInv
  <2> SUFFICES ASSUME KeepInit PROVE KeepInv
    OBVIOUS
  <2>1. beat = 1 /\ pendingID = 0 /\ sentAt = 0 /\ waitedFor = 0 /\ sending = 0
    BY DEF KeepInit
  <2>2. flagged = FALSE /\ dropped = FALSE /\ toClient = << >> /\ toServer = << >>
    BY DEF KeepInit
  <2>3. ~dropped /\ dropped \in BOOLEAN
    BY <2>2
  <2> QED
    BY <2>1, <2>2, <2>3 DEF KeepInv
<1>2. KeepInv /\ [KeepAliveNext]_keepVars => KeepInv'
  <2> SUFFICES ASSUME KeepInv, [KeepAliveNext]_keepVars PROVE KeepInv'
    OBVIOUS
  <2>1. CASE EnterPlay
    BY <2>1 DEF EnterPlay, KeepInv, OnItsWay
  <2>2. CASE KeepNext
    <3>1. CASE UNCHANGED <<sending, pendingID, sentAt, dropped>>
      BY <2>2, <3>1 DEF KeepNext, KeepInv, OnItsWay
    <3>2. CASE pendingID # 0 /\ beat - sentAt > KeepAliveTimeout /\ dropped' = TRUE
      BY <2>2, <3>2 DEF KeepNext, KeepInv, OnItsWay
    <3>3. CASE pendingID = 0 /\ sending' = beat /\ pendingID' = beat /\ sentAt' = beat
      BY <2>2, <3>3 DEF KeepNext, KeepInv, OnItsWay
    <3> QED
      BY <2>2, <3>1, <3>2, <3>3 DEF KeepNext
  <2>3. CASE KeepSend
    BY <2>3, OneElement DEF KeepSend, KeepInv, OnItsWay
  <2>4. CASE Echo
    BY <2>4, OneElement DEF Echo, KeepInv, OnItsWay
  <2>5. CASE TakeEcho
    <3>1. pendingID # 0 /\ sending = 0 /\ toClient = << >> /\ toServer = <<pendingID>>
      BY <2>5 DEF TakeEcho, KeepInv, OnItsWay
    <3>2. pendingID' = 0 /\ flagged' = flagged /\ toServer' = << >>
      BY <2>5, <3>1, OneElement DEF TakeEcho
    <3>3. waitedFor' = IF dropped THEN waitedFor ELSE 0
      BY <2>5 DEF TakeEcho
    <3> QED
      BY <2>5, <3>1, <3>2, <3>3 DEF TakeEcho, KeepInv
  <2>6. CASE KeepTick
    BY SMTT(20), <2>6, OneElement DEF KeepTick, KeepInv, OnItsWay
  <2>7. CASE UNCHANGED keepVars
    BY <2>7 DEF keepVars, KeepInv, OnItsWay
  <2> QED
    BY <2>1, <2>2, <2>3, <2>4, <2>5, <2>6, <2>7 DEF KeepAliveNext
<1>3. KeepInv => HonestKept
  BY DEF KeepInv, HonestKept
<1> QED
  BY <1>1, <1>2, <1>3, PTL DEF KeepSpec

-----------------------------------------------------------------------------
(***************************************************************************)
(* The connection limiter.  An address with an entry has as many open      *)
(* connections as the entry says, one without has none; each entry's       *)
(* window counts the admissions since it began.                            *)
(***************************************************************************)

Entries == {NoEntry} \cup [active : Nat, start : Int, count : Nat]

LimitTypes ==
    /\ clock \in Nat /\ lastSweep \in Int /\ total \in Nat
    /\ perIP \in [Ip -> Entries] /\ openConns \in [Ip -> Nat]
    /\ stray = [ip \in Ip |-> 0]

\* An address without an entry has nothing open, an entry counts what is.
EntryCounts(ip) ==
    IF perIP[ip] = NoEntry THEN openConns[ip] = 0
    ELSE perIP[ip] \in [active : Nat, start : Int, count : Nat] /\ perIP[ip].active = openConns[ip]

LimitInv == LimitTypes /\ OpenCaps /\ \A ip \in Ip : EntryCounts(ip)

\* An entry that counts is not the missing one.
LEMMA EntriesTell ==
    /\ NoEntry \in Entries
    /\ \A e \in [active : Nat, start : Int, count : Nat] : e # NoEntry /\ e \in Entries
<1>1. ASSUME NEW e \in [active : Nat, start : Int, count : Nat] PROVE e # NoEntry /\ e \in Entries
  <2>1. e.active \in Nat /\ NoEntry.active = -1
    BY DEF NoEntry
  <2> QED
    BY <2>1 DEF Entries
<1> QED
  BY <1>1 DEF Entries

\* One connection more or less counts once.
LEMMA OneConnMore ==
    ASSUME LimitAssumption, openConns \in [Ip -> Nat], openConns' \in [Ip -> Nat], NEW ip \in Ip,
           \A i \in Ip \ {ip} : openConns'[i] = openConns[i]
    PROVE  SumFunction(openConns') = SumFunction(openConns) - openConns[ip] + openConns'[ip]
<1>1. DOMAIN openConns = Ip /\ DOMAIN openConns' = Ip
  OBVIOUS
<1>2. \A i \in Ip : openConns[i] \in Int /\ openConns'[i] \in Int
  OBVIOUS
<1>3. IsFiniteSet(Ip)
  BY DEF LimitAssumption
<1> QED
  BY <1>1, <1>2, <1>3, SumChanges DEF SumFunction

\* Before anybody connects nothing is counted and nothing is open.
LEMMA LimitInits == ASSUME LimitAssumption, LimitInit PROVE LimitInv
<1>1. LimitTypes
  BY EntriesTell DEF LimitInit, LimitTypes, LimitAssumption
<1>2. SumFunction(openConns) = 0
  <2>1. IsFiniteSet(Ip) /\ openConns = [ip \in Ip |-> 0] /\ DOMAIN openConns = Ip
    BY DEF LimitInit, LimitAssumption
  <2>2. \A ip \in Ip : openConns[ip] = 0
    BY <2>1
  <2> QED
    BY <2>1, <2>2, SumOfZeros DEF SumFunction
<1>3. OpenCaps
  BY <1>2 DEF OpenCaps, LimitInit, LimitAssumption
<1>4. \A ip \in Ip : EntryCounts(ip)
  BY DEF EntryCounts, LimitInit
<1> QED
  BY <1>1, <1>3, <1>4 DEF LimitInv

\* An admission counts the connection it opens; a sweep drops no entry that counts one.
LEMMA AcquireKeeps == ASSUME LimitAssumption, LimitInv, NEW ip \in Ip, Acquire(ip) PROVE LimitInv'
<1> DEFINE e == Entry(ip)
           admit == Under(total, MaxConns) /\ Under(e.active, MaxConnsPerIP)
                    /\ Under(e.count, ConnRatePerIP)
           mine == IF admit THEN [active |-> e.active + 1, start |-> e.start, count |-> e.count + 1] ELSE e
           R == [active : Nat, start : Int, count : Nat]
<1>1. /\ lastSweep' = IF SweepDue THEN clock ELSE lastSweep
      /\ perIP' = [i \in Ip |-> IF i = ip /\ Under(total, MaxConns) THEN mine
                                ELSE IF Swept(i) THEN NoEntry ELSE perIP[i]]
      /\ stray' = [i \in Ip |-> IF Swept(i) THEN openConns[i] ELSE stray[i]]
      /\ total' = IF admit THEN total + 1 ELSE total
      /\ openConns' = IF admit THEN [openConns EXCEPT ![ip] = @ + 1] ELSE openConns
      /\ UNCHANGED clock
  BY DEF Acquire
<1>2. /\ LimitTypes /\ \A i \in Ip : EntryCounts(i)
      /\ openConns \in [Ip -> Nat] /\ perIP \in [Ip -> Entries] /\ clock \in Nat
  BY DEF LimitInv, LimitTypes
<1>3. \A i \in Ip : Swept(i) => openConns[i] = 0
  BY <1>2 DEF Swept, EntryCounts
<1>4. e \in R /\ e.active = openConns[ip]
  <2>1. perIP[ip] # NoEntry => perIP[ip] \in R /\ perIP[ip].active = openConns[ip]
    BY <1>2 DEF EntryCounts
  <2>2. CASE perIP[ip] = NoEntry \/ Swept(ip)
    <3>1. openConns[ip] = 0
      BY <1>2, <1>3, <2>2 DEF EntryCounts
    <3>2. e = [active |-> 0, start |-> clock, count |-> 0]
      BY <2>2 DEF Entry
    <3> QED
      BY <1>2, <3>1, <3>2
  <2>3. CASE ~(perIP[ip] = NoEntry \/ Swept(ip))
    <3>1. e = [active |-> perIP[ip].active, start |-> clock, count |-> 0] \/ e = perIP[ip]
      BY <2>3 DEF Entry
    <3> QED
      BY <1>2, <2>1, <2>3, <3>1
  <2> QED
    BY <2>2, <2>3
<1> HIDE DEF e
<1>5. mine \in R /\ mine.active = IF admit THEN openConns[ip] + 1 ELSE openConns[ip]
  BY <1>4
<1>6. stray' = [i \in Ip |-> 0]
  BY <1>1, <1>2, <1>3 DEF LimitTypes
<1> HIDE DEF mine
<1>7. admit => Under(total, MaxConns)
  OBVIOUS
<1>8. openConns' \in [Ip -> Nat] /\ \A i \in Ip \ {ip} : openConns'[i] = openConns[i]
  BY <1>1, <1>2
<1>9. openConns'[ip] = IF admit THEN openConns[ip] + 1 ELSE openConns[ip]
  BY <1>1, <1>2
<1> HIDE DEF admit
<1>10. \A i \in Ip : EntryCounts(i)' /\ perIP'[i] \in Entries
  <2>1. SUFFICES ASSUME NEW i \in Ip PROVE EntryCounts(i)' /\ perIP'[i] \in Entries
    OBVIOUS
  <2>2. CASE i = ip /\ Under(total, MaxConns)
    <3>1. perIP'[i] = mine
      BY <1>1, <2>2
    <3> QED
      BY <1>5, <1>9, <2>2, <3>1, EntriesTell DEF EntryCounts
  <2>3. CASE ~(i = ip /\ Under(total, MaxConns))
    <3>1. perIP'[i] = IF Swept(i) THEN NoEntry ELSE perIP[i]
      BY <1>1, <2>3
    <3>2. openConns'[i] = openConns[i]
      BY <1>7, <1>8, <1>9, <2>3
    <3> QED
      BY <1>2, <1>3, <3>1, <3>2, EntriesTell DEF EntryCounts
  <2> QED
    BY <2>2, <2>3
<1>11. perIP' \in [Ip -> Entries]
  BY <1>1, <1>10
<1>12. total' \in Nat /\ lastSweep' \in Int /\ clock' \in Nat
  BY <1>1, <1>2 DEF LimitTypes
<1>13. total' = SumFunction(openConns')
  <2>1. SumFunction(openConns') = SumFunction(openConns) - openConns[ip] + openConns'[ip]
    BY <1>2, <1>8, OneConnMore
  <2>2. total = SumFunction(openConns) /\ total \in Nat
    BY <1>2 DEF LimitInv, OpenCaps, LimitTypes
  <2>3. openConns[ip] \in Nat
    BY <1>2
  <2> QED
    BY <1>1, <1>9, <2>1, <2>2, <2>3
<1>14. MaxConns > 0 => total' <= MaxConns
  <2>1. total \in Nat /\ (MaxConns > 0 => total <= MaxConns) /\ MaxConns \in Nat
    BY <1>2 DEF LimitInv, OpenCaps, LimitTypes, LimitAssumption
  <2> QED
    BY <1>1, <1>7, <2>1 DEF Under
<1>15. MaxConnsPerIP > 0 => \A i \in Ip : openConns'[i] <= MaxConnsPerIP
  <2>1. MaxConnsPerIP \in Nat /\ (MaxConnsPerIP > 0 => \A i \in Ip : openConns[i] <= MaxConnsPerIP)
    BY DEF LimitInv, OpenCaps, LimitAssumption
  <2>2. admit => Under(openConns[ip], MaxConnsPerIP)
    BY <1>4 DEF admit
  <2>3. openConns[ip] \in Nat
    BY <1>2
  <2>4. MaxConnsPerIP > 0 => openConns'[ip] <= MaxConnsPerIP
    BY <1>9, <2>1, <2>2, <2>3 DEF Under
  <2> QED
    BY <1>8, <2>1, <2>4
<1>16. OpenCaps'
  BY <1>13, <1>14, <1>15 DEF OpenCaps
<1> QED
  BY <1>6, <1>8, <1>10, <1>11, <1>12, <1>16 DEF LimitInv, LimitTypes

\* A release gives back the one connection it closes.
LEMMA ReleaseKeeps == ASSUME LimitAssumption, LimitInv, NEW ip \in Ip, Release(ip) PROVE LimitInv'
<1> DEFINE R == [active : Nat, start : Int, count : Nat]
<1>1. /\ LimitTypes /\ \A i \in Ip : EntryCounts(i)
      /\ openConns \in [Ip -> Nat] /\ perIP \in [Ip -> Entries] /\ stray = [i \in Ip |-> 0]
  BY DEF LimitInv, LimitTypes
<1>2. /\ openConns[ip] > 0 /\ total' = total - 1 /\ UNCHANGED <<clock, lastSweep, stray>>
      /\ openConns' = [openConns EXCEPT ![ip] = @ - 1]
      /\ perIP' = [perIP EXCEPT ![ip].active = @ - 1]
  BY <1>1 DEF Release
<1>3. perIP[ip] \in R /\ perIP[ip].active = openConns[ip]
  BY <1>1, <1>2 DEF EntryCounts
<1>4. openConns[ip] \in Nat
  BY <1>1
<1>5. openConns'[ip] = openConns[ip] - 1 /\ \A i \in Ip \ {ip} : openConns'[i] = openConns[i]
  BY <1>1, <1>2
<1>6. openConns' \in [Ip -> Nat]
  BY <1>1, <1>2, <1>4
<1>7. \A i \in Ip \ {ip} : perIP'[i] = perIP[i]
  BY <1>1, <1>2
<1>8. perIP'[ip] \in R /\ perIP'[ip].active = openConns'[ip]
  <2>1. perIP'[ip] = [perIP[ip] EXCEPT !.active = @ - 1]
    BY <1>1, <1>2
  <2>2. perIP[ip].active - 1 \in Nat
    BY <1>2, <1>3, <1>4
  <2> QED
    BY <1>3, <1>5, <2>1, <2>2
<1>9. \A i \in Ip : EntryCounts(i)' /\ perIP'[i] \in Entries
  <2>1. EntryCounts(ip)' /\ perIP'[ip] \in Entries
    BY <1>8, EntriesTell DEF EntryCounts
  <2>2. ASSUME NEW i \in Ip \ {ip} PROVE EntryCounts(i)' /\ perIP'[i] \in Entries
    BY <1>1, <1>5, <1>7 DEF EntryCounts
  <2> QED
    BY <2>1, <2>2
<1>10. perIP' \in [Ip -> Entries]
  BY <1>1, <1>2, <1>9
<1>11. total' = SumFunction(openConns') /\ total' \in Nat /\ total' <= total
  <2>1. SumFunction(openConns') = SumFunction(openConns) - openConns[ip] + openConns'[ip]
    BY <1>1, <1>5, <1>6, OneConnMore
  <2>2. total = SumFunction(openConns) /\ total \in Nat
    BY <1>1 DEF LimitInv, OpenCaps, LimitTypes
  <2>3. SumFunction(openConns') \in Nat
    <3>1. IsFiniteSet(Ip) /\ DOMAIN openConns' = Ip
      BY <1>6 DEF LimitAssumption
    <3> QED
      BY <1>6, <3>1, SumOfNats DEF SumFunction
  <2> QED
    BY <1>2, <1>4, <1>5, <2>1, <2>2, <2>3
<1>12. OpenCaps'
  <2>1. MaxConns > 0 => total' <= MaxConns
    <3>1. (MaxConns > 0 => total <= MaxConns) /\ MaxConns \in Nat /\ total \in Nat
      BY <1>1 DEF LimitInv, OpenCaps, LimitAssumption, LimitTypes
    <3> QED
      BY <1>11, <3>1
  <2>2. MaxConnsPerIP > 0 => \A i \in Ip : openConns'[i] <= MaxConnsPerIP
    <3>1. (MaxConnsPerIP > 0 => \A i \in Ip : openConns[i] <= MaxConnsPerIP) /\ MaxConnsPerIP \in Nat
      BY DEF LimitInv, OpenCaps, LimitAssumption
    <3>2. openConns'[ip] <= openConns[ip] /\ openConns'[ip] \in Nat
      BY <1>4, <1>5, <1>6
    <3>3. MaxConnsPerIP > 0 => openConns'[ip] <= MaxConnsPerIP
      BY <1>4, <3>1, <3>2
    <3> QED
      BY <1>5, <3>1, <3>3
  <2> QED
    BY <1>11, <2>1, <2>2 DEF OpenCaps
<1>13. clock' \in Nat /\ lastSweep' \in Int /\ stray' = [i \in Ip |-> 0]
  BY <1>1, <1>2 DEF LimitTypes
<1> QED
  BY <1>6, <1>9, <1>10, <1>11, <1>12, <1>13 DEF LimitInv, LimitTypes

\* Every step of the limiter keeps its counts.
LEMMA LimitSteps == ASSUME LimitAssumption, LimitInv, [LimitNext]_limitVars PROVE LimitInv'
<1>1. CASE UNCHANGED limitVars
  BY <1>1 DEF limitVars, LimitInv, LimitTypes, OpenCaps, EntryCounts
<1>2. CASE LimitTick
  <2>1. clock' \in Nat /\ UNCHANGED <<total, perIP, lastSweep, openConns, stray>>
    BY <1>2 DEF LimitTick, LimitInv, LimitTypes
  <2> QED
    BY <2>1 DEF LimitInv, LimitTypes, OpenCaps, EntryCounts
<1> QED
  BY <1>1, <1>2, AcquireKeeps, ReleaseKeeps DEF LimitNext

-----------------------------------------------------------------------------
(* The rate. *)

Span == 0..RateWindow - 1
Young(ip) == {age \in Span : age <= clock - perIP[ip].start}
YoungOnes(ip) == SumFunctionOnSet(admitted[ip], Young(ip))
AllOnes(ip) == SumFunctionOnSet(admitted[ip], Span)

\* No window runs for the address: what it admitted is of the last one, and none of
\* it is of this tick.
WindowOver(ip) == admitted[ip][0] = 0 /\ AllOnes(ip) <= ConnRatePerIP

\* The window counts what was admitted since it began; what is older is of the
\* window before.
WindowRuns(ip) ==
    /\ perIP[ip].start <= clock /\ perIP[ip].count <= ConnRatePerIP
    /\ YoungOnes(ip) <= perIP[ip].count
    /\ AllOnes(ip) <= YoungOnes(ip) + ConnRatePerIP
    /\ \A age \in Span : age <= clock - perIP[ip].start - RateWindow => admitted[ip][age] = 0

RateOf(ip) == IF perIP[ip] = NoEntry THEN WindowOver(ip) ELSE WindowRuns(ip)

RateInv ==
    /\ admitted \in [Ip -> [Span -> Nat]]
    /\ ConnRatePerIP > 0 => \A ip \in Ip : RateOf(ip)

\* The ages of a window are finitely many, the first is 0.
LEMMA Spans == ASSUME LimitAssumption
               PROVE  /\ IsFiniteSet(Span) /\ 0 \in Span /\ Span = Ages /\ RateWindow \in Nat \ {0}
                      /\ ConnRatePerIP \in Nat
<1>1. RateWindow \in Nat \ {0} /\ ConnRatePerIP \in Nat /\ 0 \in Int /\ RateWindow - 1 \in Int
  BY DEF LimitAssumption
<1>2. 0 \in 0..RateWindow - 1
  BY <1>1
<1> QED
  BY <1>1, <1>2, FS_Interval DEF Span, Ages

\* The numbers the sums are of.
LEMMA Counted ==
    ASSUME LimitAssumption, LimitInv, RateInv, NEW ip \in Ip
    PROVE  /\ AllOnes(ip) \in Nat /\ YoungOnes(ip) \in Nat /\ IsFiniteSet(Young(ip))
           /\ \A age \in Span : admitted[ip][age] \in Nat /\ admitted[ip][age] \in Int
<1>1. admitted[ip] \in [Span -> Nat]
  BY DEF RateInv
<1>2. IsFiniteSet(Span) /\ IsFiniteSet(Young(ip))
  BY Spans, FS_Subset DEF Young
<1>3. \A age \in Span : admitted[ip][age] \in Nat
  BY <1>1
<1>4. \A age \in Young(ip) : admitted[ip][age] \in Nat
  BY <1>3 DEF Young
<1> QED
  BY <1>2, <1>3, <1>4, SumOfNats DEF AllOnes, YoungOnes

\* Once a window is over, all it counted is as old as the span.
LEMMA Over ==
    ASSUME LimitAssumption, LimitInv, RateInv, ConnRatePerIP > 0, NEW ip \in Ip,
           perIP[ip] = NoEntry \/ clock - perIP[ip].start >= RateWindow
    PROVE  WindowOver(ip)
<1>1. RateOf(ip) /\ clock \in Nat /\ (perIP[ip] # NoEntry => perIP[ip] \in [active : Nat, start : Int, count : Nat])
  BY DEF RateInv, LimitInv, LimitTypes, EntryCounts
<1>2. CASE perIP[ip] = NoEntry
  BY <1>1, <1>2 DEF RateOf
<1>3. CASE perIP[ip] # NoEntry
  <2>1. WindowRuns(ip) /\ perIP[ip].start \in Int /\ perIP[ip].count \in Nat
    BY <1>1, <1>3 DEF RateOf
  <2>2. Young(ip) = Span
    <3>1. clock - perIP[ip].start >= RateWindow
      BY <1>3
    <3> QED
      BY <1>1, <2>1, <3>1, Spans DEF Young, Span
  <2>3. AllOnes(ip) <= ConnRatePerIP
    <3>1. AllOnes(ip) = YoungOnes(ip)
      BY <2>2 DEF AllOnes, YoungOnes
    <3> QED
      BY <2>1, <3>1, Counted, Spans DEF WindowRuns
  <2>4. admitted[ip][0] = 0
    <3>1. 0 <= clock - perIP[ip].start - RateWindow
      BY <1>1, <1>3, <2>1, Spans
    <3> QED
      BY <2>1, <3>1, Spans DEF WindowRuns
  <2> QED
    BY <2>3, <2>4 DEF WindowOver
<1> QED
  BY <1>2, <1>3

\* Nobody has been admitted at first.
LEMMA RateInits == ASSUME LimitAssumption, LimitInit PROVE RateInv
<1>1. admitted = [ip \in Ip |-> [age \in Span |-> 0]] /\ perIP = [ip \in Ip |-> NoEntry]
  BY Spans DEF LimitInit
<1>2. ASSUME NEW ip \in Ip PROVE RateOf(ip)
  <2>1. IsFiniteSet(Span) /\ \A age \in Span : admitted[ip][age] = 0
    BY <1>1, Spans
  <2>2. AllOnes(ip) = 0
    BY <2>1, SumOfZeros DEF AllOnes
  <2>3. WindowOver(ip)
    BY <2>1, <2>2, Spans DEF WindowOver
  <2> QED
    BY <1>1, <2>3 DEF RateOf
<1>3. admitted \in [Ip -> [Span -> Nat]]
  BY <1>1
<1> QED
  BY <1>2, <1>3 DEF RateInv

\* With a window and its numbers left alone.
LEMMA RateStays ==
    ASSUME LimitAssumption, RateInv, ConnRatePerIP > 0, NEW ip \in Ip, clock' = clock,
           admitted'[ip] = admitted[ip],
           perIP[ip] = NoEntry <=> perIP'[ip] = NoEntry,
           perIP[ip] # NoEntry => perIP'[ip].start = perIP[ip].start /\ perIP'[ip].count = perIP[ip].count
    PROVE  RateOf(ip)'
<1>1. RateOf(ip)
  BY DEF RateInv
<1>2. AllOnes(ip)' = AllOnes(ip)
  BY DEF AllOnes, Span
<1>3. CASE perIP[ip] = NoEntry
  BY <1>1, <1>2, <1>3 DEF RateOf, WindowOver
<1>4. CASE perIP[ip] # NoEntry
  <2>1. Young(ip)' = Young(ip)
    BY <1>4 DEF Young, Span
  <2>2. YoungOnes(ip)' = YoungOnes(ip)
    BY <2>1 DEF YoungOnes
  <2> QED
    BY <1>1, <1>2, <1>4, <2>2 DEF RateOf, WindowRuns, Span
<1> QED
  BY <1>3, <1>4

\* The window of the entry a connection is counted in, before it is.
LEMMA EntryRuns ==
    ASSUME LimitAssumption, LimitInv, RateInv, ConnRatePerIP > 0, NEW ip \in Ip,
           NEW e, e = Entry(ip), NEW Y, Y = {age \in Span : age <= clock - e.start}
    PROVE  /\ e \in [active : Nat, start : Int, count : Nat]
           /\ e.start <= clock /\ e.count <= ConnRatePerIP /\ clock - e.start < RateWindow
           /\ SumFunctionOnSet(admitted[ip], Y) \in Nat
           /\ SumFunctionOnSet(admitted[ip], Y) <= e.count
           /\ AllOnes(ip) <= SumFunctionOnSet(admitted[ip], Y) + ConnRatePerIP
<1> DEFINE R == [active : Nat, start : Int, count : Nat]
<1>1. /\ clock \in Nat /\ (perIP[ip] # NoEntry => perIP[ip] \in R) /\ RateOf(ip)
      /\ ConnRatePerIP \in Nat /\ RateWindow \in Nat \ {0} /\ AllOnes(ip) \in Nat
  BY Spans, Counted DEF RateInv, LimitInv, LimitTypes, EntryCounts
<1>2. CASE perIP[ip] = NoEntry \/ clock - perIP[ip].start >= RateWindow
  <2>1. WindowOver(ip)
    BY <1>2, Over
  <2>2. e \in R /\ e.start = clock /\ e.count = 0
    <3>1. CASE perIP[ip] = NoEntry \/ Swept(ip)
      <4>1. e = [active |-> 0, start |-> clock, count |-> 0]
        BY <3>1 DEF Entry
      <4> QED
        BY <1>1, <4>1
    <3>2. CASE ~(perIP[ip] = NoEntry \/ Swept(ip))
      <4>1. e = [active |-> perIP[ip].active, start |-> clock, count |-> 0]
        BY <1>2, <3>2 DEF Entry
      <4> QED
        BY <1>1, <3>2, <4>1
    <3> QED
      BY <3>1, <3>2
  <2>3. Y = {0}
    BY <1>1, <2>2, Spans DEF Span
  <2>4. SumFunctionOnSet(admitted[ip], Y) = 0
    <3>1. IsFiniteSet({0}) /\ \A age \in {0} : admitted[ip][age] = 0
      BY <2>1, FS_Singleton DEF WindowOver
    <3> QED
      BY <2>3, <3>1, SumOfZeros
  <2> QED
    BY <1>1, <2>1, <2>2, <2>4 DEF WindowOver
<1>3. CASE ~(perIP[ip] = NoEntry \/ clock - perIP[ip].start >= RateWindow)
  <2>1. e = perIP[ip] /\ e \in R
    BY <1>1, <1>3 DEF Entry, Swept
  <2>2. Y = Young(ip)
    BY <2>1 DEF Young
  <2>3. WindowRuns(ip) /\ YoungOnes(ip) = SumFunctionOnSet(admitted[ip], Y) /\ YoungOnes(ip) \in Nat
    BY <1>1, <1>3, <2>2, Counted DEF RateOf, YoungOnes
  <2>4. clock - e.start < RateWindow
    BY <1>1, <1>3, <2>1
  <2> QED
    BY <2>1, <2>3, <2>4 DEF WindowRuns
<1> QED
  BY <1>2, <1>3

\* An admission enters the last second and the window that counts it.
LEMMA AcquireRates ==
    ASSUME LimitAssumption, LimitInv, RateInv, NEW ip \in Ip, Acquire(ip) PROVE RateInv'
<1> DEFINE e == Entry(ip)
           admit == Under(total, MaxConns) /\ Under(e.active, MaxConnsPerIP)
                    /\ Under(e.count, ConnRatePerIP)
           mine == IF admit THEN [active |-> e.active + 1, start |-> e.start, count |-> e.count + 1] ELSE e
           R == [active : Nat, start : Int, count : Nat]
           A == admitted[ip]
           B == admitted'[ip]
<1>1. /\ perIP' = [i \in Ip |-> IF i = ip /\ Under(total, MaxConns) THEN mine
                                ELSE IF Swept(i) THEN NoEntry ELSE perIP[i]]
      /\ admitted' = IF admit THEN [admitted EXCEPT ![ip][0] = @ + 1] ELSE admitted
      /\ clock' = clock
  BY DEF Acquire
<1>2. admitted \in [Ip -> [Span -> Nat]] /\ clock \in Nat
  BY DEF RateInv, LimitInv, LimitTypes
<1>3. admitted[ip] \in [Span -> Nat] /\ 0 \in Span /\ admitted[ip][0] \in Nat
  BY <1>2, Spans
<1>4. /\ admitted' \in [Ip -> [Span -> Nat]]
      /\ \A i \in Ip \ {ip} : admitted'[i] = admitted[i]
      /\ B = IF admit THEN [A EXCEPT ![0] = A[0] + 1] ELSE A
  <2>1. CASE admit
    <3>1. admitted' = [admitted EXCEPT ![ip] = [A EXCEPT ![0] = A[0] + 1]]
      BY <1>1, <1>2, <2>1
    <3>2. [A EXCEPT ![0] = A[0] + 1] \in [Span -> Nat]
      BY <1>3
    <3> QED
      BY <1>2, <2>1, <3>1, <3>2
  <2>2. CASE ~admit
    BY <1>1, <1>2, <2>2
  <2> QED
    BY <2>1, <2>2
<1> SUFFICES ASSUME ConnRatePerIP > 0, NEW i \in Ip PROVE RateOf(i)'
  BY <1>4 DEF RateInv, Span
<1>5. CASE i = ip /\ Under(total, MaxConns)
  <2> DEFINE Y == {age \in Span : age <= clock - e.start}
  <2>1. /\ e \in R /\ e.start <= clock /\ e.count <= ConnRatePerIP /\ clock - e.start < RateWindow
        /\ SumFunctionOnSet(A, Y) \in Nat /\ SumFunctionOnSet(A, Y) <= e.count
        /\ AllOnes(ip) <= SumFunctionOnSet(A, Y) + ConnRatePerIP
    BY EntryRuns
  <2>2. perIP'[i] = mine
    BY <1>1, <1>5
  <2> HIDE DEF e
  <2>3. mine \in R /\ mine.start = e.start /\ mine.count = IF admit THEN e.count + 1 ELSE e.count
    BY <2>1
  <2>4. mine # NoEntry
    BY <2>3, EntriesTell
  <2>5. Young(i)' = Y
    BY <1>1, <2>2, <2>3 DEF Young, Span
  <2>6. 0 \in Y /\ IsFiniteSet(Y) /\ IsFiniteSet(Span) /\ Y \subseteq Span
    <3>1. 0 \in Y
      BY <1>2, <2>1, Spans
    <3> QED
      BY <3>1, Spans, FS_Subset
  <2>7. admit => e.count < ConnRatePerIP
    BY DEF Under
  <2>8. AllOnes(i)' = SumFunctionOnSet(B, Span) /\ YoungOnes(i)' = SumFunctionOnSet(B, Y)
    BY <1>5, <2>5 DEF AllOnes, YoungOnes, Span
  <2>9. /\ AllOnes(ip) = SumFunctionOnSet(A, Span) /\ AllOnes(ip) \in Nat
        /\ e.count \in Nat /\ ConnRatePerIP \in Nat /\ RateWindow \in Nat
    BY <2>1, Counted, Spans DEF AllOnes
  <2>10. WindowRuns(i)'
    <3>1. CASE admit
      <4>1. B = [A EXCEPT ![0] = A[0] + 1]
        BY <1>4, <3>1
      <4>2. \A age \in Span : A[age] \in Int /\ B[age] \in Int /\ (age # 0 => B[age] = A[age])
        BY <1>3, <4>1
      <4>3. B[0] = A[0] + 1
        BY <1>3, <4>1
      <4> HIDE DEF A, B, Y
      <4>4. SumFunctionOnSet(B, Y) = SumFunctionOnSet(A, Y) - A[0] + B[0]
        BY <2>6, <4>2, SumChanges
      <4>5. SumFunctionOnSet(B, Span) = SumFunctionOnSet(A, Span) - A[0] + B[0]
        BY <1>3, <2>6, <4>2, SumChanges
      <4>6. A[0] \in Nat
        BY <1>3 DEF A
      <4>7. SumFunctionOnSet(B, Y) = SumFunctionOnSet(A, Y) + 1
        BY <2>1, <4>3, <4>4, <4>6
      <4>8. SumFunctionOnSet(B, Span) = SumFunctionOnSet(A, Span) + 1
        BY <2>9, <4>3, <4>5, <4>6
      <4>9. YoungOnes(i)' <= mine.count /\ AllOnes(i)' <= YoungOnes(i)' + ConnRatePerIP
        BY <2>1, <2>3, <2>8, <2>9, <3>1, <4>7, <4>8
      <4>10. mine.count <= ConnRatePerIP
        BY <2>3, <2>7, <2>9, <3>1
      <4>11. \A age \in Span : ~(age <= clock - e.start - RateWindow)
        BY SMTT(20), <1>2, <2>1, <2>9 DEF Span
      <4> QED
        BY <1>1, <2>1, <2>2, <2>3, <4>9, <4>10, <4>11 DEF WindowRuns, Span
    <3>2. CASE ~admit
      <4>1. B = A
        BY <1>4, <3>2
      <4> HIDE DEF A, B, Y
      <4>2. YoungOnes(i)' <= mine.count /\ AllOnes(i)' <= YoungOnes(i)' + ConnRatePerIP
        BY <2>1, <2>3, <2>8, <2>9, <3>2, <4>1
      <4>11. \A age \in Span : ~(age <= clock - e.start - RateWindow)
        BY SMTT(20), <1>2, <2>1, <2>9 DEF Span
      <4> QED
        BY <1>1, <2>1, <2>2, <2>3, <3>2, <4>2, <4>11 DEF WindowRuns, Span
    <3> QED
      BY <3>1, <3>2
  <2> QED
    BY <2>2, <2>4, <2>10 DEF RateOf
<1>6. CASE ~(i = ip /\ Under(total, MaxConns))
  <2>1. perIP'[i] = IF Swept(i) THEN NoEntry ELSE perIP[i]
    BY <1>1, <1>6
  <2>2. admitted'[i] = admitted[i]
    BY <1>4, <1>6
  <2>3. CASE Swept(i)
    <3>1. WindowOver(i)
      BY <2>3, Over DEF Swept
    <3>2. WindowOver(i)'
      BY <2>2, <3>1 DEF WindowOver, AllOnes, Span
    <3> QED
      BY <2>1, <2>3, <3>2 DEF RateOf
  <2>4. CASE ~Swept(i)
    BY <1>1, <2>1, <2>2, <2>4, RateStays
  <2> QED
    BY <2>3, <2>4
<1> QED
  BY <1>5, <1>6

\* A release leaves the admissions alone.
LEMMA ReleaseRates ==
    ASSUME LimitAssumption, LimitInv, LimitInv', RateInv, NEW ip \in Ip, Release(ip) PROVE RateInv'
<1>1. /\ openConns[ip] > 0 /\ UNCHANGED <<clock, admitted>>
      /\ perIP' = [perIP EXCEPT ![ip].active = @ - 1]
  BY DEF Release, LimitInv, LimitTypes
<1>2. perIP \in [Ip -> Entries] /\ perIP[ip] \in [active : Nat, start : Int, count : Nat]
  BY <1>1 DEF LimitInv, LimitTypes, EntryCounts
<1>3. \A i \in Ip \ {ip} : perIP'[i] = perIP[i]
  BY <1>1, <1>2
<1>4. /\ perIP'[ip] = [perIP[ip] EXCEPT !.active = @ - 1]
      /\ perIP'[ip].start = perIP[ip].start /\ perIP'[ip].count = perIP[ip].count
  BY <1>1, <1>2
<1>5. perIP[ip] # NoEntry /\ perIP'[ip] # NoEntry
  <2>1. perIP[ip].active \in Nat \ {0} /\ perIP'[ip].active = perIP[ip].active - 1
    <3>1. perIP[ip].active = openConns[ip] /\ openConns[ip] \in Nat
      BY <1>1 DEF LimitInv, LimitTypes, EntryCounts
    <3> QED
      BY <1>1, <1>2, <1>4, <3>1
  <2> QED
    BY <2>1 DEF NoEntry
<1>6. ASSUME ConnRatePerIP > 0, NEW i \in Ip PROVE RateOf(i)'
  BY <1>1, <1>3, <1>4, <1>5, <1>6, RateStays
<1>7. admitted' \in [Ip -> [Span -> Nat]]
  BY <1>1 DEF RateInv
<1> QED
  BY <1>6, <1>7 DEF RateInv, Span

\* A second later every admission is a second older.
LEMMA TickRates == ASSUME LimitAssumption, LimitInv, RateInv, LimitTick PROVE RateInv'
<1>1. /\ clock' = clock + 1 /\ UNCHANGED perIP
      /\ admitted' = [ip \in Ip |-> [age \in Span |-> IF age = 0 THEN 0 ELSE admitted[ip][age - 1]]]
  BY Spans DEF LimitTick
<1>2. admitted \in [Ip -> [Span -> Nat]] /\ clock \in Nat
  BY DEF RateInv, LimitInv, LimitTypes
<1>3. RateWindow \in Nat \ {0} /\ ConnRatePerIP \in Nat
  BY Spans
<1>4. ASSUME NEW ip \in Ip PROVE admitted'[ip] \in [Span -> Nat]
  <2>1. ASSUME NEW age \in Span PROVE (IF age = 0 THEN 0 ELSE admitted[ip][age - 1]) \in Nat
    <3>1. age # 0 => age - 1 \in Span
      BY <1>3 DEF Span
    <3> QED
      BY <1>2, <3>1
  <2> QED
    BY <1>1, <2>1
<1>5. admitted' \in [Ip -> [Span -> Nat]]
  BY <1>1, <1>4
<1> SUFFICES ASSUME ConnRatePerIP > 0, NEW ip \in Ip PROVE RateOf(ip)'
  BY <1>5 DEF RateInv, Span
<1> DEFINE A == admitted[ip]
           B == admitted'[ip]
           n == RateWindow - 1
<1>6. n \in Nat /\ Span = 0..n /\ \A k \in 0..n : A[k] \in Nat /\ B[k] \in Nat
  BY <1>2, <1>3, <1>4 DEF Span
<1>7. B[0] = 0 /\ \A k \in 1..n : B[k] = A[k - 1]
  BY <1>1, <1>6, Spans
<1> HIDE DEF A, B, n
<1>8. SumFunctionOnSet(B, 0..n) = SumFunctionOnSet(A, 0..n) - A[n]
  BY <1>6, <1>7, SumShifts
<1>9. AllOnes(ip)' = SumFunctionOnSet(B, 0..n) /\ AllOnes(ip) = SumFunctionOnSet(A, 0..n)
  BY <1>6 DEF AllOnes, Span, A, B, n
<1>10. AllOnes(ip) \in Nat /\ AllOnes(ip)' <= AllOnes(ip)
  BY <1>6, <1>8, <1>9, Counted
<1>10a. AllOnes(ip)' \in Int
  BY <1>6, <1>8, <1>9, <1>10
<1>11. RateOf(ip)
  BY DEF RateInv
<1>12. CASE perIP[ip] = NoEntry
  <2>1. WindowOver(ip)'
    BY <1>3, <1>7, <1>10, <1>10a, <1>11, <1>12 DEF RateOf, WindowOver, B
  <2> QED
    BY <1>1, <1>12, <2>1 DEF RateOf
<1>13. CASE perIP[ip] # NoEntry
  <2>1. WindowRuns(ip) /\ perIP[ip].start \in Int /\ perIP[ip].count \in Nat /\ perIP[ip].start <= clock
    BY <1>11, <1>13 DEF RateOf, WindowRuns, LimitInv, EntryCounts
  <2> DEFINE d == clock - perIP[ip].start
  <2>2. d \in Nat /\ clock' - perIP'[ip].start = d + 1
    <3>1. clock \in Nat /\ clock' = clock + 1 /\ perIP'[ip].start = perIP[ip].start
      BY <1>1, <1>2
    <3> QED
      BY <2>1, <3>1
  <2>3. Young(ip)' = {age \in Span : age <= d + 1} /\ Young(ip) = {age \in Span : age <= d}
    BY <1>1, <2>2 DEF Young, Span
  <2>4. YoungOnes(ip)' = SumFunctionOnSet(B, Young(ip)') /\ YoungOnes(ip) = SumFunctionOnSet(A, Young(ip))
    BY DEF YoungOnes, A, B
  <2>5. YoungOnes(ip) \in Nat
    BY Counted
  <2>6. YoungOnes(ip)' <= YoungOnes(ip) /\ AllOnes(ip)' <= YoungOnes(ip)' + ConnRatePerIP
    <3> HIDE DEF d
    <3>1. CASE d + 1 <= n
      <4>1. Young(ip)' = 0..d + 1 /\ Young(ip) = 0..d
        BY <1>6, <2>2, <2>3, <3>1
      <4>2. (\A k \in 0..d + 1 : A[k] \in Nat) /\ (\A k \in 1..d + 1 : B[k] = A[k - 1]) /\ d + 1 \in Nat
        BY <1>6, <1>7, <2>2, <3>1
      <4>3. SumFunctionOnSet(B, 0..d + 1) = SumFunctionOnSet(A, 0..d + 1) - A[d + 1]
        BY <1>7, <4>2, SumShifts
      <4>5. SumFunctionOnSet(A, 0..d + 1) = A[d + 1] + SumFunctionOnSet(A, 0..d)
        <5>1. \A k \in 0..d + 1 : A[k] \in Int
          BY <4>2
        <5> QED
          BY <2>2, <5>1, SumUpTo
      <4>6. SumFunctionOnSet(A, 0..d) = YoungOnes(ip) /\ SumFunctionOnSet(B, 0..d + 1) = YoungOnes(ip)'
        BY <2>4, <4>1
      <4>7. A[d + 1] \in Nat
        BY <2>2, <4>2
      <4>8. YoungOnes(ip)' = YoungOnes(ip)
        BY <2>5, <4>3, <4>5, <4>6, <4>7
      <4> QED
        BY <1>3, <1>10, <1>10a, <2>1, <2>5, <4>8 DEF WindowRuns
    <3>2. CASE d + 1 > n
      <4>1. Young(ip)' = 0..n /\ Young(ip) = 0..n
        BY <1>6, <2>2, <2>3, <3>2
      <4>2. YoungOnes(ip)' = AllOnes(ip)' /\ YoungOnes(ip) = AllOnes(ip)
        BY <1>9, <2>4, <4>1
      <4> QED
        BY <1>3, <1>10, <1>10a, <4>2
    <3> QED
      BY <1>6, <2>2, <3>1, <3>2
  <2>7. \A age \in Span : age <= d + 1 - RateWindow => B[age] = 0
    <3>1. SUFFICES ASSUME NEW age \in Span, age <= d + 1 - RateWindow, age # 0 PROVE B[age] = 0
      BY <1>7
    <3>2. age \in 1..n /\ age - 1 \in Span /\ age - 1 <= d - RateWindow
      BY <1>3, <1>6, <2>2, <3>1 DEF n
    <3>3. A[age - 1] = 0
      BY <2>1, <3>2 DEF WindowRuns, A
    <3> QED
      BY <1>7, <3>2, <3>3
  <2>8. YoungOnes(ip)' \in Int
    <3>1. IsFiniteSet(Young(ip)') /\ Young(ip)' \subseteq 0..n
      BY <2>3, <1>6, Spans, FS_Subset
    <3>2. \A k \in Young(ip)' : B[k] \in Int
      BY <1>6, <3>1
    <3> QED
      BY <2>4, <3>1, <3>2, SumIsNumber
  <2>9. WindowRuns(ip)'
    <3>1. YoungOnes(ip)' <= perIP'[ip].count
      BY <1>1, <2>1, <2>5, <2>6, <2>8 DEF WindowRuns
    <3>2. perIP'[ip].start <= clock' /\ perIP'[ip].count <= ConnRatePerIP
      BY <1>1, <1>2, <2>1 DEF WindowRuns
    <3>3. \A age \in Span : age <= clock' - perIP'[ip].start - RateWindow => admitted'[ip][age] = 0
      BY <2>2, <2>7 DEF B
    <3> QED
      BY <2>6, <3>1, <3>2, <3>3 DEF WindowRuns, Span
  <2> QED
    BY <1>1, <1>13, <2>9 DEF RateOf
<1> QED
  BY <1>12, <1>13

\* Every step of the limiter keeps the windows.
LEMMA RateSteps == ASSUME LimitAssumption, LimitInv, LimitInv', RateInv, [LimitNext]_limitVars PROVE RateInv'
<1>1. CASE UNCHANGED limitVars
  <2>1. UNCHANGED <<clock, perIP, admitted>>
    BY <1>1 DEF limitVars
  <2>2. admitted' \in [Ip -> [Span -> Nat]]
    BY <2>1 DEF RateInv
  <2>3. ConnRatePerIP > 0 => \A ip \in Ip : RateOf(ip)'
    BY <2>1, RateStays
  <2> QED
    BY <2>2, <2>3 DEF RateInv, Span
<1> QED
  BY <1>1, AcquireRates, ReleaseRates, TickRates DEF LimitNext

\* An address admits no more in its window than its entry lets it.
LEMMA RateFollows == ASSUME LimitAssumption, LimitInv, RateInv PROVE RateHolds
<1> SUFFICES ASSUME ConnRatePerIP > 0, NEW ip \in Ip PROVE SumFunction(admitted[ip]) <= 2 * ConnRatePerIP
  BY DEF RateHolds
<1>1. RateOf(ip) /\ ConnRatePerIP \in Nat /\ AllOnes(ip) \in Nat /\ YoungOnes(ip) \in Nat
  BY Spans, Counted DEF RateInv
<1>2. AllOnes(ip) <= 2 * ConnRatePerIP
  <2>1. CASE perIP[ip] = NoEntry
    BY <1>1, <2>1 DEF RateOf, WindowOver
  <2>2. CASE perIP[ip] # NoEntry
    <3>1. WindowRuns(ip) /\ perIP[ip].count \in Nat
      BY <1>1, <2>2 DEF RateOf, LimitInv, EntryCounts
    <3> QED
      BY <1>1, <3>1 DEF WindowRuns
  <2> QED
    BY <2>1, <2>2
<1>3. DOMAIN admitted[ip] = Span
  BY DEF RateInv
<1> QED
  BY <1>2, <1>3 DEF SumFunction, AllOnes

\* Whatever connects, disconnects and is swept meanwhile, no more connections are open
\* than the caps allow, and no address gets more than twice its rate into a window.
THEOREM CapsAlwaysHold == LimitSpec => []CapsHold
<1>1. LimitInv => OpenCaps
  BY DEF LimitInv
<1>2. OpenCaps /\ RateHolds => CapsHold
  BY DEF CapsHold
<1> QED
  BY <1>1, <1>2, LimitAssumption, LimitInits, LimitSteps, RateInits, RateSteps, RateFollows, PTL DEF LimitSpec

-----------------------------------------------------------------------------
(***************************************************************************)
(* Bans in the database.  While no order about a name is half way, its     *)
(* rows are what the last order said.  An order that stands alone is the   *)
(* only one about its name, and finds the rows as it left them.  While the *)
(* server comes up there are no orders.                                    *)
(***************************************************************************)

Orders == [at : {"resolved", "cleared"}, name : Banned, until : Nat \ {0}, alone : BOOLEAN]

TableTypes ==
    /\ now \in Nat /\ rows \in [Banned -> Seq(Nat)]
    /\ order \in [Clerk -> {NoOrder} \cup Orders]
    /\ file \in [Banned -> Nat] /\ word \in [Banned -> Nat \cup {Open}]
    /\ boot \subseteq Banned

Cleared(n) == {c \in OrdersOn(n) : order[c].at = "cleared"}

RowsSay(n) ==
    word[n] # Open /\ Cleared(n) = {} => rows[n] = IF word[n] = 0 THEN <<>> ELSE <<word[n]>>

Alone(c) ==
    order[c].at # "idle" /\ order[c].alone =>
        /\ OrdersOn(order[c].name) = {c}
        /\ order[c].at = "cleared" => rows[order[c].name] = <<>>

TableInv ==
    /\ TableTypes
    /\ \A n \in Banned : RowsSay(n)
    /\ \A c \in Clerk : Alone(c)
    /\ boot # {} => \A c \in Clerk : order[c] = NoOrder

\* An order under way is not the missing one.
LEMMA OrdersTell == /\ NoOrder.at = "idle"
                    /\ \A o \in Orders : o.at # "idle" /\ o # NoOrder /\ o.name \in Banned /\ o.alone \in BOOLEAN
<1>1. NoOrder.at = "idle"
  BY DEF NoOrder
<1>2. \A o \in Orders : o.at \in {"resolved", "cleared"} /\ o.name \in Banned /\ o.alone \in BOOLEAN
  BY DEF Orders
<1> QED
  BY <1>1, <1>2

\* What a clerk is in the middle of is an order, or nothing.
LEMMA OrderIs ==
    ASSUME TableTypes, NEW c \in Clerk
    PROVE  /\ order[c].at # "idle" => order[c] \in Orders
           /\ order[c].at = "idle" <=> order[c] = NoOrder
<1>1. order[c] = NoOrder \/ order[c] \in Orders
  BY DEF TableTypes
<1> QED
  BY <1>1, OrdersTell

\* What is in force where there is at most one row.
LEMMA InForceIs ==
    ASSUME TableTypes, NEW n \in Banned, NEW w \in Nat,
           rows[n] = IF w = 0 THEN <<>> ELSE <<w>>
    PROVE  InForce(n) = IF w > now THEN w ELSE 0
<1> DEFINE current == {i \in DOMAIN rows[n] : rows[n][i] > now}
           last == CHOOSE i \in current : \A j \in current : j <= i
<1>1. InForce(n) = IF current = {} THEN 0 ELSE rows[n][last]
  BY DEF InForce
<1>2. now \in Nat
  BY DEF TableTypes
<1>3. CASE w > now
  <2>1. rows[n] = <<w>>
    BY <1>2, <1>3
  <2>2. DOMAIN rows[n] = {1} /\ rows[n][1] = w
    BY <2>1
  <2>3. current = {1}
    BY <1>3, <2>2
  <2>4. last = 1
    <3>1. \E i \in {1} : \A j \in {1} : j <= i
      OBVIOUS
    <3>2. (CHOOSE i \in {1} : \A j \in {1} : j <= i) \in {1}
      BY <3>1
    <3> QED
      BY <2>3, <3>2
  <2> HIDE DEF current, last
  <2> QED
    BY <1>1, <1>3, <2>2, <2>3, <2>4
<1>4. CASE ~(w > now)
  <2>1. current = {}
    <3>1. CASE w = 0
      <4>1. DOMAIN rows[n] = {}
        BY <3>1
      <4> QED
        BY <4>1
    <3>2. CASE w # 0
      <4>1. DOMAIN rows[n] = {1} /\ rows[n][1] = w
        BY <3>2
      <4> QED
        BY <1>4, <4>1
    <3> QED
      BY <3>1, <3>2
  <2> HIDE DEF current
  <2> QED
    BY <1>1, <1>4, <2>1
<1> QED
  BY <1>3, <1>4

\* At first the rows are all there is, and a name with a row has the word of it.
LEMMA TableInits == ASSUME TableInit PROVE TableInv
<1>1. BanTerm \subseteq Nat \ {0}
  BY BanTableAssumption DEF BanTableAssumption
<1>2. \A n \in Banned : rows[n] = <<>> \/ \E t \in BanTerm : rows[n] = <<t>>
  BY DEF TableInit
<1>3. \A n \in Banned :
        /\ rows[n] \in Seq(Nat) /\ word[n] \in Nat \cup {Open}
        /\ word[n] # Open => word[n] # 0 /\ rows[n] = <<word[n]>>
  <2> SUFFICES ASSUME NEW n \in Banned
               PROVE  /\ rows[n] \in Seq(Nat) /\ word[n] \in Nat \cup {Open}
                      /\ word[n] # Open => word[n] # 0 /\ rows[n] = <<word[n]>>
    OBVIOUS
  <2>1. word[n] = IF rows[n] = <<>> THEN Open ELSE rows[n][Len(rows[n])]
    BY DEF TableInit
  <2>2. CASE rows[n] = <<>>
    <3>1. word[n] = Open /\ <<>> \in Seq(Nat)
      BY <2>1, <2>2
    <3> QED
      BY <2>2, <3>1
  <2>3. ASSUME NEW t \in BanTerm, rows[n] = <<t>>
        PROVE  /\ rows[n] \in Seq(Nat) /\ word[n] \in Nat \cup {Open}
               /\ word[n] # Open => word[n] # 0 /\ rows[n] = <<word[n]>>
    <3>1. t \in Nat \ {0} /\ rows[n] # <<>> /\ Len(rows[n]) = 1 /\ rows[n][1] = t
      BY <1>1, <2>3
    <3> QED
      BY <2>1, <2>3, <3>1
  <2> QED
    BY <1>2, <2>2, <2>3
<1>4. rows \in [Banned -> Seq(Nat)] /\ word \in [Banned -> Nat \cup {Open}]
  BY <1>3 DEF TableInit
<1>5. order = [c \in Clerk |-> NoOrder] /\ now = 0 /\ file \in [Banned -> Nat] /\ boot \subseteq Banned
  <2>1. file \in [Banned -> {0} \cup BanTerm] /\ {0} \cup BanTerm \subseteq Nat
    BY <1>1 DEF TableInit
  <2>2. file \in [Banned -> Nat]
    BY <2>1
  <2> QED
    BY <2>2 DEF TableInit
<1>6. TableTypes
  BY <1>4, <1>5 DEF TableTypes
<1>7. \A c \in Clerk : Alone(c)
  BY <1>5, OrdersTell DEF Alone
<1>8. \A n \in Banned : RowsSay(n)
  BY <1>3 DEF RowsSay
<1> QED
  BY <1>5, <1>6, <1>7, <1>8 DEF TableInv

\* One order goes on, is over or is lost.
LEMMA OrderMoves ==
    ASSUME TableTypes, NEW c \in Clerk, NEW o \in {NoOrder} \cup Orders, order' = [order EXCEPT ![c] = o]
    PROVE  /\ order' \in [Clerk -> {NoOrder} \cup Orders] /\ order'[c] = o
           /\ \A d \in Clerk \ {c} : order'[d] = order[d]
           /\ \A n : OrdersOn(n)' = IF o # NoOrder /\ o.name = n THEN OrdersOn(n) \cup {c} ELSE OrdersOn(n) \ {c}
<1>1. order \in [Clerk -> {NoOrder} \cup Orders]
  BY DEF TableTypes
<1>2. /\ order' \in [Clerk -> {NoOrder} \cup Orders] /\ order'[c] = o
      /\ \A d \in Clerk \ {c} : order'[d] = order[d]
  BY <1>1
<1>3. o # NoOrder <=> o.at # "idle"
  BY OrdersTell
<1>4. \A n : OrdersOn(n)' = IF o # NoOrder /\ o.name = n THEN OrdersOn(n) \cup {c} ELSE OrdersOn(n) \ {c}
  BY <1>2, <1>3 DEF OrdersOn
<1> QED
  BY <1>2, <1>4

\* Lifting the earlier bans leaves no row; an order alone finds it so when it inserts.
LEMMA ClearKeeps == ASSUME TableInv, NEW c \in Clerk, Clear(c) PROVE TableInv'
<1> DEFINE m == order[c].name
           o == [order[c] EXCEPT !.at = "cleared"]
<1>1. /\ TableTypes /\ order[c].at = "resolved" /\ order[c] \in Orders /\ order[c] # NoOrder
      /\ m \in Banned /\ UNCHANGED <<now, file, boot, word>> /\ rows \in [Banned -> Seq(Nat)]
      /\ rows' = [rows EXCEPT ![m] = <<>>] /\ order' = [order EXCEPT ![c].at = "cleared"]
  BY OrderIs, OrdersTell DEF TableInv, TableTypes, Clear, Deactivated
<1>2. /\ o \in Orders /\ o.at = "cleared" /\ o.name = m /\ o.alone = order[c].alone
  <2>1. \A r \in Orders : LET s == [r EXCEPT !.at = "cleared"]
                          IN  s \in Orders /\ s.at = "cleared" /\ s.name = r.name /\ s.alone = r.alone
    BY DEF Orders
  <2> QED
    BY <1>1, <2>1
<1>3. order' = [order EXCEPT ![c] = o]
  BY <1>1
<1> HIDE DEF o, m
<1>4. /\ order' \in [Clerk -> {NoOrder} \cup Orders] /\ order'[c] = o
      /\ \A d \in Clerk \ {c} : order'[d] = order[d]
      /\ \A n : OrdersOn(n)' = IF o.name = n THEN OrdersOn(n) \cup {c} ELSE OrdersOn(n) \ {c}
  <2>1. o \in {NoOrder} \cup Orders /\ o # NoOrder /\ TableTypes
    BY <1>1, <1>2, OrdersTell
  <2>2. /\ order' \in [Clerk -> {NoOrder} \cup Orders] /\ order'[c] = o
        /\ \A d \in Clerk \ {c} : order'[d] = order[d]
        /\ \A n : OrdersOn(n)' = IF o # NoOrder /\ o.name = n THEN OrdersOn(n) \cup {c} ELSE OrdersOn(n) \ {c}
    BY <1>3, <2>1, OrderMoves
  <2> QED
    BY <2>1, <2>2
<1>5. c \in OrdersOn(m) /\ \A n : n # m => c \notin OrdersOn(n)
  BY <1>1 DEF OrdersOn, m
<1>6. \A n : OrdersOn(n)' = OrdersOn(n)
  BY <1>2, <1>4, <1>5
<1>7. rows' \in [Banned -> Seq(Nat)] /\ rows'[m] = <<>> /\ \A n \in Banned \ {m} : rows'[n] = rows[n]
  <2>1. <<>> \in Seq(Nat)
    OBVIOUS
  <2> QED
    BY <1>1, <2>1
<1>8. TableTypes'
  BY <1>1, <1>4, <1>7 DEF TableTypes
<1>9. ASSUME NEW n \in Banned PROVE RowsSay(n)'
  <2>1. CASE n = m
    <3>1. c \in Cleared(n)'
      BY <1>2, <1>4, <1>5, <1>6, <2>1 DEF Cleared
    <3> QED
      BY <3>1 DEF RowsSay
  <2>2. CASE n # m
    <3>1. Cleared(n)' = Cleared(n)
      BY <1>4, <1>5, <1>6, <2>2 DEF Cleared, OrdersOn
    <3> QED
      BY <1>1, <1>7, <2>2, <3>1 DEF RowsSay, TableInv
  <2> QED
    BY <2>1, <2>2
<1>10. ASSUME NEW d \in Clerk PROVE Alone(d)'
  <2>1. CASE d = c
    BY ZenonT(40), <1>1, <1>2, <1>4, <1>6, <1>7, <2>1 DEF Alone, TableInv, m
  <2>2. CASE d # c
    <3>1. Alone(d) /\ order'[d] = order[d]
      BY <1>4, <2>2 DEF TableInv
    <3>2. order[d].at # "idle" /\ order[d].alone => order[d].name # m
      BY <1>5, <2>2, <3>1 DEF Alone
    <3>3. order[d].at # "idle" => order[d].name \in Banned
      BY <1>1, OrderIs, OrdersTell
    <3> QED
      BY <1>6, <1>7, <3>1, <3>2, <3>3 DEF Alone
  <2> QED
    BY <2>1, <2>2
<1>11. boot' = {}
  BY <1>1 DEF TableInv
<1> QED
  BY <1>8, <1>9, <1>10, <1>11 DEF TableInv

\* An order alone inserts the only row; one that is not has no word.
LEMMA CreateKeeps == ASSUME TableInv, NEW c \in Clerk, Create(c) PROVE TableInv'
<1> DEFINE m == order[c].name
           u == order[c].until
           w == IF order[c].alone THEN u ELSE Open
<1>1. /\ TableTypes /\ order[c].at = "cleared" /\ order[c] \in Orders /\ order[c] # NoOrder
      /\ m \in Banned /\ u \in Nat \ {0} /\ UNCHANGED <<now, file, boot>>
      /\ rows \in [Banned -> Seq(Nat)] /\ word \in [Banned -> Nat \cup {Open}]
      /\ rows' = [rows EXCEPT ![m] = Append(rows[m], u)]
      /\ word' = [word EXCEPT ![m] = w] /\ order' = [order EXCEPT ![c] = NoOrder]
  BY OrderIs, OrdersTell DEF TableInv, TableTypes, Create, Orders
<1>2. w \in Nat \cup {Open} /\ Append(rows[m], u) \in Seq(Nat)
  BY <1>1
<1>3. Alone(c)
  BY DEF TableInv
<1> HIDE DEF m, u, w
<1>4. /\ order' \in [Clerk -> {NoOrder} \cup Orders] /\ order'[c] = NoOrder
      /\ \A d \in Clerk \ {c} : order'[d] = order[d]
      /\ \A n : OrdersOn(n)' = OrdersOn(n) \ {c}
  BY <1>1, OrderMoves
<1>5. c \in OrdersOn(m) /\ \A n : n # m => c \notin OrdersOn(n)
  BY <1>1 DEF OrdersOn, m
<1>6. /\ rows' \in [Banned -> Seq(Nat)] /\ rows'[m] = Append(rows[m], u)
      /\ \A n \in Banned \ {m} : rows'[n] = rows[n]
  BY <1>1, <1>2
<1>7. /\ word' \in [Banned -> Nat \cup {Open}] /\ word'[m] = w
      /\ \A n \in Banned \ {m} : word'[n] = word[n]
  BY <1>1, <1>2
<1>8. TableTypes'
  BY <1>1, <1>4, <1>6, <1>7 DEF TableTypes
<1>9. ASSUME NEW n \in Banned PROVE RowsSay(n)'
  <2>1. CASE n = m
    <3>1. CASE order[c].alone
      <4>1. rows[m] = <<>> /\ w = u
        BY <1>1, <1>3, <3>1 DEF Alone, m, w
      <4>2. rows'[m] = <<u>>
        BY <1>6, <4>1
      <4> QED
        BY <1>1, <1>7, <2>1, <4>1, <4>2 DEF RowsSay
    <3>2. CASE ~order[c].alone
      BY <1>7, <2>1, <3>2 DEF RowsSay, w, Open
    <3> QED
      BY <3>1, <3>2
  <2>2. CASE n # m
    <3>1. Cleared(n)' = Cleared(n)
      BY <1>4, <1>5, <2>2 DEF Cleared, OrdersOn
    <3> QED
      BY <1>1, <1>6, <1>7, <2>2, <3>1 DEF RowsSay, TableInv
  <2> QED
    BY <2>1, <2>2
<1>10. ASSUME NEW d \in Clerk PROVE Alone(d)'
  <2>1. CASE d = c
    BY <1>4, <2>1, OrdersTell DEF Alone
  <2>2. CASE d # c
    <3>1. Alone(d) /\ order'[d] = order[d]
      BY <1>4, <2>2 DEF TableInv
    <3>2. order[d].at # "idle" /\ order[d].alone => order[d].name # m
      BY <1>5, <2>2, <3>1 DEF Alone
    <3>3. order[d].at # "idle" => order[d].name \in Banned
      BY <1>1, OrderIs, OrdersTell
    <3> QED
      BY <1>4, <1>5, <1>6, <3>1, <3>2, <3>3 DEF Alone
  <2> QED
    BY <2>1, <2>2
<1>11. boot' = {}
  BY <1>1 DEF TableInv
<1> QED
  BY <1>8, <1>9, <1>10, <1>11 DEF TableInv

\* An order that fails half way has no word, one that fails before changed nothing.
LEMMA FailKeepsRows == ASSUME TableInv, NEW c \in Clerk, FailOrder(c) PROVE TableInv'
<1> DEFINE m == order[c].name
<1>1. /\ TableTypes /\ order[c].at # "idle" /\ order[c] \in Orders /\ order[c] # NoOrder
      /\ m \in Banned /\ UNCHANGED <<now, file, boot, rows>>
      /\ rows \in [Banned -> Seq(Nat)] /\ word \in [Banned -> Nat \cup {Open}]
      /\ word' = (IF order[c].at = "cleared" THEN [word EXCEPT ![m] = Open] ELSE word)
      /\ order' = [order EXCEPT ![c] = NoOrder]
  BY OrderIs, OrdersTell DEF TableInv, TableTypes, FailOrder
<1> HIDE DEF m
<1>2. /\ order' \in [Clerk -> {NoOrder} \cup Orders] /\ order'[c] = NoOrder
      /\ \A d \in Clerk \ {c} : order'[d] = order[d]
      /\ \A n : OrdersOn(n)' = OrdersOn(n) \ {c}
  BY <1>1, OrderMoves
<1>3. word' \in [Banned -> Nat \cup {Open}] /\ \A n \in Banned : word'[n] = word[n] \/ word'[n] = Open
  BY <1>1
<1>4. order[c].at = "cleared" => word'[m] = Open
  BY <1>1
<1>5. TableTypes'
  BY <1>1, <1>2, <1>3 DEF TableTypes
<1>6. ASSUME NEW n \in Banned PROVE RowsSay(n)'
  <2>1. ASSUME word'[n] # Open PROVE Cleared(n)' = Cleared(n) /\ word'[n] = word[n]
    <3>1. word'[n] = word[n] /\ ~(order[c].at = "cleared" /\ n = m)
      BY <1>3, <1>4, <2>1
    <3>2. c \notin Cleared(n)
      BY <3>1 DEF Cleared, OrdersOn, m
    <3>3. c \notin Cleared(n)'
      BY <1>2 DEF Cleared
    <3>4. \A d \in Clerk \ {c} : d \in Cleared(n)' <=> d \in Cleared(n)
      BY <1>2 DEF Cleared, OrdersOn
    <3>5. Cleared(n) \subseteq Clerk /\ Cleared(n)' \subseteq Clerk
      BY DEF Cleared, OrdersOn
    <3> QED
      BY <3>1, <3>2, <3>3, <3>4, <3>5
  <2> QED
    BY <1>1, <2>1 DEF RowsSay, TableInv
<1>7. ASSUME NEW d \in Clerk PROVE Alone(d)'
  <2>1. CASE d = c
    BY <1>2, <2>1, OrdersTell DEF Alone
  <2>2. CASE d # c
    <3>1. Alone(d) /\ order'[d] = order[d]
      BY <1>2, <2>2 DEF TableInv
    <3> QED
      BY <1>1, <1>2, <2>2, <3>1 DEF Alone
  <2> QED
    BY <2>1, <2>2
<1>8. boot' = {}
  BY <1>1 DEF TableInv
<1> QED
  BY <1>5, <1>6, <1>7, <1>8 DEF TableInv

\* What a new order about a name does to those under way.
LEMMA DisturbedIs ==
    ASSUME TableTypes, NEW n
    PROVE  /\ Disturbed(n) \in [Clerk -> {NoOrder} \cup Orders]
           /\ \A d \in Clerk :
                /\ Disturbed(n)[d].at = order[d].at /\ Disturbed(n)[d].name = order[d].name
                /\ d \in OrdersOn(n) => ~Disturbed(n)[d].alone
                /\ d \notin OrdersOn(n) => Disturbed(n)[d] = order[d]
<1>1. ASSUME NEW d \in Clerk
      PROVE  /\ Disturbed(n)[d] \in {NoOrder} \cup Orders
             /\ Disturbed(n)[d].at = order[d].at /\ Disturbed(n)[d].name = order[d].name
             /\ d \in OrdersOn(n) => ~Disturbed(n)[d].alone
             /\ d \notin OrdersOn(n) => Disturbed(n)[d] = order[d]
  <2>1. CASE d \in OrdersOn(n)
    <3>1. order[d] \in Orders
      BY <2>1, OrderIs DEF OrdersOn
    <3>2. Disturbed(n)[d] = [order[d] EXCEPT !.alone = FALSE]
      BY <2>1 DEF Disturbed
    <3>3. \A r \in Orders : LET s == [r EXCEPT !.alone = FALSE]
                            IN  s \in Orders /\ s.at = r.at /\ s.name = r.name /\ ~s.alone
      BY DEF Orders
    <3> QED
      BY <2>1, <3>1, <3>2, <3>3
  <2>2. CASE d \notin OrdersOn(n)
    <3>1. Disturbed(n)[d] = order[d]
      BY <2>2 DEF Disturbed
    <3> QED
      BY <2>2, <3>1 DEF TableTypes
  <2> QED
    BY <2>1, <2>2
<1>2. Disturbed(n) = [d \in Clerk |-> Disturbed(n)[d]]
  BY DEF Disturbed
<1> QED
  BY <1>1, <1>2

\* An unban leaves no row, and no order about the name stands alone any longer.
LEMMA UnbanRows == ASSUME TableInv, NEW c \in Clerk, NEW m \in Banned, Unban(c, m) PROVE TableInv'
<1> DEFINE w == IF OrdersOn(m) = {} THEN 0 ELSE Open
<1>1. /\ TableTypes /\ boot = {} /\ UNCHANGED <<now, file, boot>>
      /\ rows \in [Banned -> Seq(Nat)] /\ word \in [Banned -> Nat \cup {Open}]
      /\ rows' = [rows EXCEPT ![m] = <<>>] /\ word' = [word EXCEPT ![m] = w] /\ order' = Disturbed(m)
  BY DEF TableInv, TableTypes, Unban, Deactivated
<1>2. w \in Nat \cup {Open} /\ <<>> \in Seq(Nat)
  OBVIOUS
<1> HIDE DEF w
<1>3. /\ rows' \in [Banned -> Seq(Nat)] /\ rows'[m] = <<>>
      /\ \A n \in Banned \ {m} : rows'[n] = rows[n]
  BY <1>1, <1>2
<1>4. /\ word' \in [Banned -> Nat \cup {Open}] /\ word'[m] = w
      /\ \A n \in Banned \ {m} : word'[n] = word[n]
  BY <1>1, <1>2
<1>5. /\ order' \in [Clerk -> {NoOrder} \cup Orders]
      /\ \A d \in Clerk : /\ order'[d].at = order[d].at /\ order'[d].name = order[d].name
                          /\ d \in OrdersOn(m) => ~order'[d].alone
                          /\ d \notin OrdersOn(m) => order'[d] = order[d]
  BY <1>1, DisturbedIs
<1>6. \A n : OrdersOn(n)' = OrdersOn(n) /\ Cleared(n)' = Cleared(n)
  BY <1>5 DEF OrdersOn, Cleared
<1>7. TableTypes'
  BY <1>1, <1>3, <1>4, <1>5 DEF TableTypes
<1>8. ASSUME NEW n \in Banned PROVE RowsSay(n)'
  <2>1. CASE n = m
    BY <1>3, <1>4, <2>1 DEF RowsSay, w
  <2>2. CASE n # m
    BY <1>1, <1>3, <1>4, <1>6, <2>2 DEF RowsSay, TableInv
  <2> QED
    BY <2>1, <2>2
<1>9. ASSUME NEW d \in Clerk PROVE Alone(d)'
  <2>1. CASE d \in OrdersOn(m)
    BY <1>5, <2>1 DEF Alone
  <2>2. CASE d \notin OrdersOn(m)
    <3>1. Alone(d) /\ order'[d] = order[d]
      BY <1>5, <2>2 DEF TableInv
    <3>2. order[d].at # "idle" => order[d].name # m /\ order[d].name \in Banned
      BY <1>1, <2>2, OrderIs, OrdersTell DEF OrdersOn
    <3> QED
      BY <1>3, <1>6, <3>1, <3>2 DEF Alone
  <2> QED
    BY <2>1, <2>2
<1> QED
  BY <1>1, <1>7, <1>8, <1>9 DEF TableInv

\* An order that begins stands alone only when it is the only one about its name.
LEMMA ResolveKeeps ==
    ASSUME TableInv, NEW c \in Clerk, NEW m \in Banned, NEW t \in BanTerm, Resolve(c, m, t) PROVE TableInv'
<1> DEFINE o == [at |-> "resolved", name |-> m, until |-> now + t, alone |-> OrdersOn(m) = {}]
<1>1. /\ TableTypes /\ boot = {} /\ order[c].at = "idle" /\ UNCHANGED <<now, rows, file, boot, word>>
      /\ order' = [Disturbed(m) EXCEPT ![c] = o]
  BY DEF TableInv, Resolve
<1>2. now + t \in Nat \ {0} /\ o \in Orders /\ o.at = "resolved" /\ o.name = m /\ o.alone = (OrdersOn(m) = {})
  <2>1. now \in Nat /\ t \in Nat \ {0}
    BY <1>1, BanTableAssumption DEF TableTypes, BanTableAssumption
  <2>2. (OrdersOn(m) = {}) \in BOOLEAN
    OBVIOUS
  <2> QED
    BY <2>1, <2>2 DEF Orders
<1> HIDE DEF o
<1>3. /\ order' \in [Clerk -> {NoOrder} \cup Orders] /\ order'[c] = o
      /\ \A d \in Clerk \ {c} : /\ order'[d].at = order[d].at /\ order'[d].name = order[d].name
                                /\ d \in OrdersOn(m) => ~order'[d].alone
                                /\ d \notin OrdersOn(m) => order'[d] = order[d]
  <2>1. /\ Disturbed(m) \in [Clerk -> {NoOrder} \cup Orders]
        /\ \A d \in Clerk : /\ Disturbed(m)[d].at = order[d].at /\ Disturbed(m)[d].name = order[d].name
                            /\ d \in OrdersOn(m) => ~Disturbed(m)[d].alone
                            /\ d \notin OrdersOn(m) => Disturbed(m)[d] = order[d]
    BY <1>1, DisturbedIs
  <2>2. \A d \in Clerk \ {c} : order'[d] = Disturbed(m)[d]
    BY <1>1, <2>1
  <2> QED
    BY <1>1, <1>2, <2>1, <2>2
<1>4. c \notin OrdersOn(m) /\ \A n : c \notin OrdersOn(n)
  BY <1>1 DEF OrdersOn
<1>5. \A n : OrdersOn(n)' = (IF n = m THEN OrdersOn(n) \cup {c} ELSE OrdersOn(n)) /\ Cleared(n)' = Cleared(n)
  BY <1>2, <1>3, <1>4 DEF OrdersOn, Cleared
<1>6. TableTypes'
  BY <1>1, <1>3 DEF TableTypes
<1>7. \A n \in Banned : RowsSay(n)'
  BY <1>1, <1>5 DEF RowsSay, TableInv
<1>8. ASSUME NEW d \in Clerk PROVE Alone(d)'
  <2>1. CASE d = c
    BY <1>2, <1>3, <1>5, <2>1 DEF Alone
  <2>2. CASE d # c /\ d \in OrdersOn(m)
    BY <1>3, <2>2 DEF Alone
  <2>3. CASE d # c /\ d \notin OrdersOn(m)
    <3>1. Alone(d) /\ order'[d] = order[d]
      BY <1>3, <2>3 DEF TableInv
    <3>2. order[d].at # "idle" => order[d].name # m
      BY <2>3 DEF OrdersOn
    <3> QED
      BY <1>1, <1>5, <3>1, <3>2 DEF Alone
  <2> QED
    BY <2>1, <2>2, <2>3
<1> QED
  BY <1>1, <1>6, <1>7, <1>8 DEF TableInv

\* The import writes a row only where it takes the word away.
LEMMA ImportKeeps == ASSUME TableInv, NEW m \in Banned, ImportOne(m) PROVE TableInv'
<1>1. /\ TableTypes /\ m \in boot /\ boot' = boot \ {m} /\ UNCHANGED <<now, order>>
      /\ rows \in [Banned -> Seq(Nat)] /\ word \in [Banned -> Nat \cup {Open}] /\ file \in [Banned -> Nat]
      /\ rows' = [rows EXCEPT ![m] = Imported(m)]
      /\ file' = file \/ file' = [k \in Banned |-> 0]
      /\ word' = (IF InForce(m) = 0 /\ file[m] > now THEN [word EXCEPT ![m] = Open] ELSE word)
      /\ \A c \in Clerk : order[c] = NoOrder
  BY DEF TableInv, TableTypes, ImportOne
<1>2. now \in Nat /\ file[m] \in Nat
  BY <1>1 DEF TableTypes
<1>3. Imported(m) \in Seq(Nat)
  BY <1>1, <1>2 DEF Imported
<1>4. /\ rows' \in [Banned -> Seq(Nat)] /\ rows'[m] = Imported(m)
      /\ \A n \in Banned \ {m} : rows'[n] = rows[n]
  BY <1>1, <1>3
<1>5. /\ word' \in [Banned -> Nat \cup {Open}] /\ \A n \in Banned : word'[n] = word[n] \/ word'[n] = Open
      /\ InForce(m) = 0 /\ file[m] > now => word'[m] = Open
  BY <1>1
<1>6. TableTypes'
  <2>1. file' \in [Banned -> Nat] /\ boot' \subseteq Banned
    BY <1>1 DEF TableTypes
  <2> QED
    BY <1>1, <1>4, <1>5, <2>1 DEF TableTypes
<1>7. ASSUME NEW n \in Banned PROVE RowsSay(n)'
  <2>1. Cleared(n)' = Cleared(n)
    BY <1>1 DEF Cleared, OrdersOn
  <2>2. word'[n] # Open => rows'[n] = rows[n] /\ word'[n] = word[n]
    BY <1>2, <1>4, <1>5 DEF Imported
  <2> QED
    BY <2>1, <2>2 DEF RowsSay, TableInv
<1>8. \A c \in Clerk : Alone(c)'
  BY <1>1, OrdersTell DEF Alone
<1> QED
  BY <1>1, <1>6, <1>7, <1>8 DEF TableInv

\* A crash leaves no orders, and no word where one was half way.
LEMMA RestartKeeps == ASSUME TableInv, TableRestart PROVE TableInv'
<1>1. /\ TableTypes /\ order' = [c \in Clerk |-> NoOrder] /\ UNCHANGED <<now, rows, file>>
      /\ word' = [n \in Banned |-> IF Cleared(n) # {} THEN Open ELSE word[n]]
      /\ boot' = {n \in Banned : file[n] # 0}
  BY DEF TableInv, TableRestart, Cleared
<1>2. word' \in [Banned -> Nat \cup {Open}]
  BY <1>1 DEF TableTypes
<1>3. TableTypes'
  BY <1>1, <1>2 DEF TableTypes
<1>4. \A n \in Banned : RowsSay(n)'
  BY <1>1 DEF RowsSay, TableInv
<1>5. \A c \in Clerk : Alone(c)' /\ order'[c] = NoOrder
  BY <1>1, OrdersTell DEF Alone
<1> QED
  BY <1>3, <1>4, <1>5 DEF TableInv

\* Every step keeps the table as its last word says.
LEMMA TableSteps == ASSUME TableInv, [TableNext]_tableVars PROVE TableInv'
<1>1. CASE UNCHANGED tableVars \/ TableHour \/ ImportStops
  <2>1. UNCHANGED <<rows, order, file, word>> /\ (boot' = boot \/ boot' = {}) /\ now' \in Nat
    BY <1>1 DEF tableVars, TableHour, ImportStops, TableInv, TableTypes
  <2>2. \A n : OrdersOn(n)' = OrdersOn(n) /\ Cleared(n)' = Cleared(n)
    BY <2>1 DEF OrdersOn, Cleared
  <2> QED
    BY <2>1, <2>2 DEF TableInv, TableTypes, RowsSay, Alone
<1> QED
  BY <1>1, ClearKeeps, CreateKeeps, FailKeepsRows, UnbanRows, ResolveKeeps, ImportKeeps, RestartKeeps
     DEF TableNext

\* For any names, moderators and terms, whatever overlaps, fails, crashes or is read
\* from the old file: a name is as banned as the last order that stood alone said.
THEOREM TheLastOrderBinds == TableSpec => []LastOrderBinds
<1>1. TableInv => LastOrderBinds
  <2> SUFFICES ASSUME TableInv, NEW n \in Banned, boot = {}, OrdersOn(n) = {}, word[n] # Open
               PROVE  InForce(n) = IF word[n] > now THEN word[n] ELSE 0
    BY DEF LastOrderBinds
  <2>1. TableTypes /\ word[n] \in Nat /\ Cleared(n) = {}
    BY DEF TableInv, TableTypes, Cleared
  <2>2. rows[n] = IF word[n] = 0 THEN <<>> ELSE <<word[n]>>
    BY <2>1 DEF TableInv, RowsSay
  <2> QED
    BY <2>1, <2>2, InForceIs
<1> QED
  BY <1>1, TableInits, TableSteps, PTL DEF TableSpec

-----------------------------------------------------------------------------
(***************************************************************************)
(* A decided round is finished, once, and nobody stays dead who should     *)
(* come back: proofs for every number of players and teams, every room,    *)
(* countdown and delay; and at the end, that its bots walk on ground.      *)
(*                                                                         *)
(* The argument for the decision: members only grows by a join, so a round *)
(* that had two teams in play and has not any more got there by a leave,   *)
(* a death or a fall, each of which looks (winnerLocked) in the step that  *)
(* took the member away and then goes on to finish.  The start of the      *)
(* round comes before anything is engaged.  The argument for the dead: a   *)
(* death starts in a running round, its hook queues the respawn or takes   *)
(* the team away, and the respawn leaves pending only to be due.           *)
(***************************************************************************)

\* Teams in play stay in play when members only grows.
LEMMA GrowingKeepsTwo ==
    ASSUME NEW m, NEW n, TwoInPlay(m), \A t \in Team : m[t] \subseteq n[t]
    PROVE  TwoInPlay(n)
BY DEF TwoInPlay, InPlay

\* A join takes nobody off a team.
LEMMA JoinGrows ==
    ASSUME NEW m, NEW p, NEW s, m = [t \in Team |-> m[t]]
    PROVE  /\ \A t \in Team : m[t] \subseteq Place1(m, p, s)[t]
           /\ Place1(m, p, s) = [t \in Team |-> Place1(m, p, s)[t]]
BY DEF Place1

\* The first state satisfies the invariant.
LEMMA InitRInv == ASSUME Init PROVE RInv
<1>1. Shape
  <2>1. started \in BOOLEAN
    BY DEF Init
  <2>2. None \in Int
    BY DEF None
  <2> QED BY <2>1, <2>2 DEF Init, Shape, Place
<1>3. DeathsAreOfTheRound /\ TeardownIsAfter
    BY DEF Init, DeathsAreOfTheRound, TeardownIsAfter
<1>2. DecidedIsFinished /\ EndsOnce /\ NobodyStuckDead
    BY DEF Init, DecidedIsFinished, Decided, EndsOnce, NobodyStuckDead
<1> QED BY <1>1, <1>2, <1>3 DEF RInv

-----------------------------------------------------------------------------
(* One lemma per action that changes teams, the dead or the end. *)

\* finish's effect on the invariant's parts about the end.
LEMMA FinishEnds ==
    ASSUME Shape, TeardownIsAfter, EndsOnce, Finish
    PROVE  /\ over' = TRUE /\ teardown' \in Nat /\ ended' = ended
           /\ TeardownIsAfter' /\ EndsOnce' /\ DecidedIsFinished' /\ NobodyStuckDead'
BY DEF Shape, TeardownIsAfter, EndsOnce, Finish, DecidedIsFinished, Decided, NobodyStuckDead

LEMMA JoinRoundKeeps ==
    ASSUME RInv, NEW p \in Player, JoinRound(p) PROVE RInv'
<1> USE DEF RInv
<1> DEFINE t == Assign(members)
<1>1. /\ place[p] = "arriving" /\ started
      /\ members' = Place1(members, p, t) /\ byEntity' = [byEntity EXCEPT ![p] = t]
      /\ engaged' = (engaged \/ TwoInPlay(members'))
      /\ place' = [place EXCEPT ![p] = "in"]
      /\ UNCHANGED <<dead, dying, tick, started, pending, over, teardown, ended>>
    BY DEF JoinRound, endVars
<1>2. /\ \A s \in Team : members[s] \subseteq members'[s]
      /\ members' = [s \in Team |-> members'[s]]
    BY <1>1, JoinGrows DEF Shape
<1>3. Shape'
    BY <1>1, <1>2 DEF Shape, Place, TwoInPlay
<1>4. DeathsAreOfTheRound' /\ TeardownIsAfter' /\ EndsOnce'
    BY <1>1 DEF Shape, DeathsAreOfTheRound, TeardownIsAfter, EndsOnce
<1>5. Finishing => Finishing'
    BY <1>1 DEF Shape, Finishing
<1>6. DecidedIsFinished'
  <2> SUFFICES ASSUME Decided(members)' PROVE Finishing'
    BY DEF DecidedIsFinished
  <2>1. ~TwoInPlay(members') /\ engaged' /\ ~over
    BY <1>1 DEF Decided, TwoInPlay, InPlay
  <2>2. engaged /\ ~TwoInPlay(members)
    BY <1>1, <1>2, <2>1, GrowingKeepsTwo
  <2> QED BY <1>5, <2>1, <2>2 DEF Decided, DecidedIsFinished
<1>7. NobodyStuckDead'
    BY <1>1 DEF Shape, DeathsAreOfTheRound, NobodyStuckDead
<1> QED BY <1>3, <1>4, <1>6, <1>7

LEMMA LeaveRoundKeeps ==
    ASSUME RInv, NEW p \in Player, LeaveRound(p) PROVE RInv'
<1> USE DEF RInv
<1>1. /\ place[p] = "in" /\ started
      /\ members' = [t \in Team |-> IF t = byEntity[p] THEN members[t] \ {p} ELSE members[t]]
      /\ byEntity' = [byEntity EXCEPT ![p] = NoTeam]
      /\ pending' = [pending EXCEPT ![p] = None]
      /\ place' = [place EXCEPT ![p] = IF Decided(members') THEN "deciding" ELSE "left"]
      /\ UNCHANGED <<dead, dying, tick, started, engaged, over, teardown, ended>>
    BY DEF LeaveRound, RemoveMember, endVars
<1>2. Shape'
  <2>1. None \in Int
    BY DEF None
  <2>2. place'[p] \in Place /\ place' \in [Player -> Place]
    BY <1>1 DEF Shape, Place
  <2> QED BY <1>1, <2>1, <2>2 DEF Shape
<1>3. DeathsAreOfTheRound' /\ TeardownIsAfter' /\ EndsOnce'
    BY <1>1 DEF Shape, DeathsAreOfTheRound, TeardownIsAfter, EndsOnce
<1>4. DecidedIsFinished'
  <2> SUFFICES ASSUME Decided(members)' PROVE Finishing'
    BY DEF DecidedIsFinished
  <2>1. Decided(members')
    BY <1>1 DEF Decided, TwoInPlay, InPlay
  <2> QED BY <1>1, <2>1 DEF Shape, Finishing
<1>5. NobodyStuckDead'
    BY <1>1 DEF Shape, NobodyStuckDead
<1> QED BY <1>2, <1>3, <1>4, <1>5

\* The death hook: it queues the respawn, takes the team away, or finds the
\* player without a team or the round over.
LEMMA HookDoes ==
    ASSUME RInv, NEW p \in Player, OnPlayerDeath(p),
           UNCHANGED <<engaged, over>>
    PROVE  /\ members' = [t \in Team |-> members'[t]]
           /\ byEntity' = [q \in Player |-> byEntity'[q]]
           /\ pending' \in [Player -> Int]
           /\ \A q \in Player \ {p} : byEntity'[q] = byEntity[q] /\ pending'[q] = pending[q]
           /\ over \/ byEntity'[p] = NoTeam \/ pending'[p] # None
           /\ Decided(members)' => DeathDecides(p) \/ Decided(members)
<1> USE DEF RInv, Shape
<1>1. CASE byEntity[p] = NoTeam \/ over
  <2>1. UNCHANGED <<members, byEntity, pending>>
    BY <1>1 DEF OnPlayerDeath, teamVars
  <2> QED BY <1>1, <2>1 DEF Decided, TwoInPlay, InPlay
<1>2. CASE byEntity[p] # NoTeam /\ ~over
  <2>1. Decided(members)' => DeathDecides(p)
    BY <1>2 DEF DeathDecides, Decided, TwoInPlay, InPlay
  <2>2. CASE bed[byEntity[p]]
    <3>1. pending' = [pending EXCEPT ![p] = RespawnDelay] /\ UNCHANGED <<members, byEntity>>
      BY <1>2, <2>2 DEF OnPlayerDeath, teamVars
    <3>2. RespawnDelay \in Int /\ RespawnDelay # None
      BY RoundAssumption DEF None
    <3> QED BY <2>1, <3>1, <3>2
  <2>3. CASE ~bed[byEntity[p]]
    <3>1. /\ members' = [t \in Team |-> IF t = byEntity[p] THEN members[t] \ {p} ELSE members[t]]
          /\ byEntity' = [byEntity EXCEPT ![p] = NoTeam]
          /\ UNCHANGED pending
      BY <1>2, <2>3 DEF OnPlayerDeath, RemoveMember
    <3> QED BY <2>1, <3>1
  <2> QED BY <2>2, <2>3
<1> QED BY <1>1, <1>2

LEMMA DeathKeeps ==
    ASSUME RInv, NEW p \in Player, Death(p) PROVE RInv'
<1> USE DEF RInv
<1>1. dying[p] = "hit" /\ UNCHANGED <<place, dead, tick, started, engaged, over, teardown, ended>>
    BY DEF Death, endVars
<1>2. DeathsAreOfTheRound' /\ TeardownIsAfter' /\ EndsOnce'
    BY <1>1 DEF DeathsAreOfTheRound, TeardownIsAfter, EndsOnce
<1>3. CASE place[p] = "out"
  <2>1. dying' = [dying EXCEPT ![p] = "no"] /\ UNCHANGED <<members, byEntity, pending>>
    BY <1>3 DEF Death, teamVars
  <2>2. Shape' /\ NobodyStuckDead'
    BY <1>1, <1>3, <2>1 DEF Shape, NobodyStuckDead
  <2>3. DecidedIsFinished'
    BY <1>1, <2>1 DEF Shape, DecidedIsFinished, Decided, TwoInPlay, InPlay, Finishing
  <2> QED BY <1>2, <2>2, <2>3
<1>4. CASE place[p] # "out"
  <2>1. /\ OnPlayerDeath(p)
        /\ dying' = [dying EXCEPT ![p] = IF DeathDecides(p) THEN "deciding" ELSE "no"]
    BY <1>4 DEF Death
  <2>2. /\ members' = [t \in Team |-> members'[t]]
        /\ byEntity' = [q \in Player |-> byEntity'[q]]
        /\ pending' \in [Player -> Int]
        /\ \A q \in Player \ {p} : byEntity'[q] = byEntity[q] /\ pending'[q] = pending[q]
        /\ over \/ byEntity'[p] = NoTeam \/ pending'[p] # None
        /\ Decided(members)' => DeathDecides(p) \/ Decided(members)
    BY <1>1, <2>1, HookDoes
  <2>3. Shape'
    <3>1. dying' \in [Player -> {"no", "hit", "deciding"}]
      BY <2>1 DEF Shape
    <3> QED BY <1>1, <2>2, <3>1 DEF Shape
  <2>4. NobodyStuckDead'
    BY <1>1, <2>1, <2>2 DEF Shape, NobodyStuckDead
  <2>5. Finishing => Finishing'
    BY <1>1, <2>1 DEF Shape, Finishing
  <2>6. DeathDecides(p) => Finishing'
    BY <2>1 DEF Shape, Finishing
  <2>7. DecidedIsFinished'
    BY <2>2, <2>5, <2>6 DEF DecidedIsFinished
  <2> QED BY <1>2, <2>3, <2>4, <2>7
<1> QED BY <1>3, <1>4

LEMMA FallKeeps ==
    ASSUME RInv, Fall PROVE RInv'
<1> USE DEF RInv
<1>1. /\ tick.at = "fall"
      /\ UNCHANGED <<place, dying, started, engaged, over, teardown, ended>>
    BY DEF Fall, endVars
<1>2. TeardownIsAfter' /\ EndsOnce'
    BY <1>1 DEF TeardownIsAfter, EndsOnce
<1>3. PICK p \in tick.falls :
       \/ /\ place[p] = "out" \/ p \in dead
          /\ tick' = [tick EXCEPT !.at = "void", !.falls = {}]
          /\ UNCHANGED <<dead, teamVars, pending>>
       \/ /\ place[p] # "out"
          /\ dead' = dead \cup {p}
          /\ OnPlayerDeath(p)
          /\ tick' = [tick EXCEPT !.at = IF DeathDecides(p) THEN "deciding" ELSE "void",
                                  !.falls = {}]
    BY DEF Fall
<1>4. p \in Player /\ place[p] \notin {"arriving", "lobby"} /\ started /\ tick.due = {}
    BY <1>1, <1>3 DEF DeathsAreOfTheRound
<1>5. /\ tick'.at \in {"void", "deciding"} /\ tick'.falls = {} /\ tick'.due = {}
      /\ tick' = [at |-> tick'.at, falls |-> tick'.falls, due |-> tick'.due]
    BY <1>3, <1>4 DEF Shape
<1>6. CASE /\ tick' = [tick EXCEPT !.at = "void", !.falls = {}]
           /\ UNCHANGED <<dead, teamVars, pending>>
  <2>1. UNCHANGED <<dead, members, byEntity, pending>>
    BY <1>6 DEF teamVars
  <2>2. Shape' /\ DeathsAreOfTheRound' /\ NobodyStuckDead'
    BY <1>1, <1>4, <1>5, <2>1 DEF Shape, DeathsAreOfTheRound, NobodyStuckDead
  <2>3. DecidedIsFinished'
    BY <1>1, <2>1 DEF DecidedIsFinished, Decided, TwoInPlay, InPlay, Finishing
  <2> QED BY <1>2, <2>2, <2>3
<1>7. CASE /\ place[p] # "out"
           /\ dead' = dead \cup {p}
           /\ OnPlayerDeath(p)
           /\ tick' = [tick EXCEPT !.at = IF DeathDecides(p) THEN "deciding" ELSE "void",
                                  !.falls = {}]
  <2>1. /\ members' = [t \in Team |-> members'[t]]
        /\ byEntity' = [q \in Player |-> byEntity'[q]]
        /\ pending' \in [Player -> Int]
        /\ \A q \in Player \ {p} : byEntity'[q] = byEntity[q] /\ pending'[q] = pending[q]
        /\ over \/ byEntity'[p] = NoTeam \/ pending'[p] # None
        /\ Decided(members)' => DeathDecides(p) \/ Decided(members)
    BY <1>1, <1>4, <1>7, HookDoes
  <2>2. Shape'
    BY <1>1, <1>5, <2>1 DEF Shape
  <2>3. DeathsAreOfTheRound'
    BY <1>1, <1>4, <1>5, <1>7 DEF DeathsAreOfTheRound
  <2>4. NobodyStuckDead'
    BY <1>1, <1>4, <1>5, <1>7, <2>1 DEF NobodyStuckDead
  <2>5. Finishing => Finishing'
    BY <1>1 DEF Finishing
  <2>6. DeathDecides(p) => Finishing'
    BY <1>7 DEF Shape, Finishing
  <2>7. DecidedIsFinished'
    BY <2>1, <2>5, <2>6 DEF DecidedIsFinished
  <2> QED BY <1>2, <2>2, <2>3, <2>4, <2>7
<1> QED BY <1>3, <1>6, <1>7

\* The start: nothing was engaged and nobody dead before it.
LEMMA StartRoundKeeps ==
    ASSUME RInv, StartRound PROVE RInv'
<1> USE DEF RInv
<1>1. /\ tick.at = "start" /\ tick' = [tick EXCEPT !.at = "idle"] /\ started' = TRUE
      /\ UNCHANGED <<place, dead, dying, pending, over, teardown, ended>>
    BY DEF StartRound, TickTo, endVars
<1>2. TeardownIsAfter' /\ EndsOnce'
    BY <1>1 DEF TeardownIsAfter, EndsOnce
<1>3. DeathsAreOfTheRound'
    BY <1>1 DEF Shape, DeathsAreOfTheRound
<1>4. tick' = [at |-> tick'.at, falls |-> tick'.falls, due |-> tick'.due] /\ tick'.at = "idle"
      /\ tick'.due = tick.due
    BY <1>1 DEF Shape
<1>5. Finishing => Finishing'
    BY <1>1 DEF Finishing
<1>6. CASE started
  <2>1. UNCHANGED <<members, byEntity, engaged>>
    BY <1>6 DEF StartRound, teamVars
  <2>2. Shape'
    BY <1>1, <1>4, <2>1 DEF Shape
  <2>3. NobodyStuckDead'
    BY <1>1, <1>4, <2>1 DEF NobodyStuckDead
  <2>4. DecidedIsFinished'
    BY <1>1, <1>5, <2>1 DEF DecidedIsFinished, Decided, TwoInPlay, InPlay
  <2> QED BY <1>2, <1>3, <2>2, <2>3, <2>4
<1>7. CASE ~started
  <2>1. ~engaged /\ dead = {}
    BY <1>7 DEF DeathsAreOfTheRound
  <2>2. /\ members' = [t \in Team |-> Deal[t]]
        /\ byEntity' = [p \in Player |-> IF p \in waiting THEN TeamIn(Deal, p) ELSE byEntity[p]]
        /\ engaged' = (engaged \/ TwoInPlay(members'))
    BY <1>7 DEF StartRound
  <2>3. Shape'
    BY <1>1, <1>4, <2>2 DEF Shape, TwoInPlay
  <2>4. NobodyStuckDead'
    BY <1>1, <2>1 DEF NobodyStuckDead
  <2>5. DecidedIsFinished'
    BY <2>1, <2>2 DEF DecidedIsFinished, Decided, TwoInPlay, InPlay
  <2> QED BY <1>2, <1>3, <2>3, <2>4, <2>5
<1> QED BY <1>6, <1>7

\* finish by a leaver, by a killer or by the tick loop.
LEMMA FinishKeeps ==
    ASSUME RInv, Finish, UNCHANGED <<dead, started, engaged, members, byEntity, pending>>,
           Shape', DeathsAreOfTheRound'
    PROVE  RInv'
BY FinishEnds DEF RInv

LEMMA FinishersKeep ==
    ASSUME RInv, \/ \E p \in Player : LeaveFinish(p) \/ DeathFinish(p)
                 \/ FallFinish
    PROVE  RInv'
<1> USE DEF RInv
<1>1. over' = TRUE /\ teardown' \in Nat /\ ended' = ended
    BY FinishEnds DEF LeaveFinish, DeathFinish, FallFinish
<1>2. CASE \E p \in Player : LeaveFinish(p)
  <2>1. PICK p \in Player : LeaveFinish(p)
    BY <1>2
  <2>2. /\ place[p] = "deciding" /\ place' = [place EXCEPT ![p] = "left"] /\ Finish
        /\ UNCHANGED <<dead, dying, tick, started, engaged, members, byEntity, pending>>
    BY <2>1 DEF LeaveFinish, teamVars
  <2>3. Shape' /\ DeathsAreOfTheRound'
    BY <1>1, <2>2 DEF Shape, Place, DeathsAreOfTheRound
  <2> QED BY <2>2, <2>3, FinishKeeps
<1>3. CASE \E p \in Player : DeathFinish(p)
  <2>1. PICK p \in Player : DeathFinish(p)
    BY <1>3
  <2>2. /\ dying' = [dying EXCEPT ![p] = "no"] /\ Finish
        /\ UNCHANGED <<place, dead, tick, started, engaged, members, byEntity, pending>>
    BY <2>1 DEF DeathFinish, teamVars
  <2>3. Shape' /\ DeathsAreOfTheRound'
    BY <1>1, <2>2 DEF Shape, DeathsAreOfTheRound
  <2> QED BY <2>2, <2>3, FinishKeeps
<1>4. CASE FallFinish
  <2>1. /\ tick.at = "deciding" /\ tick' = [tick EXCEPT !.at = "void"] /\ Finish
        /\ UNCHANGED <<place, dead, dying, started, engaged, members, byEntity, pending>>
    BY <1>4 DEF FallFinish, TickTo, teamVars
  <2>2. Shape' /\ DeathsAreOfTheRound'
    BY <1>1, <2>1 DEF Shape, DeathsAreOfTheRound
  <2> QED BY <2>1, <2>2, FinishKeeps
<1> QED BY <1>2, <1>3, <1>4

-----------------------------------------------------------------------------
(* The steps that leave the teams and the end alone. *)

LEMMA CalmKeeps ==
    ASSUME RInv, UNCHANGED <<engaged, over, members, teardown, ended>>,
           Finishing => Finishing', Shape', DeathsAreOfTheRound', NobodyStuckDead'
    PROVE  RInv'
<1>1. TeardownIsAfter' /\ EndsOnce'
    BY DEF RInv, TeardownIsAfter, EndsOnce
<1>2. DecidedIsFinished'
    BY DEF RInv, DecidedIsFinished, Decided, TwoInPlay, InPlay
<1> QED BY <1>1, <1>2 DEF RInv

\* A player's move goes from a place to another; neither is a finisher's.
LEMMA WalkKeeps ==
    ASSUME RInv, NEW p \in Player,
           SeeLobby(p) \/ JoinLobby(p) \/ SeeLobbyLeave(p) \/ LeaveLobby(p) \/ Shed(p) \/ Arrive(p)
    PROVE  RInv'
<1> USE DEF RInv
<1>1. UNCHANGED <<dying, tick, started, engaged, members, byEntity, pending, over, teardown, ended>>
    BY DEF SeeLobby, JoinLobby, SeeLobbyLeave, LeaveLobby, Shed, Arrive, teamVars, endVars
<1>2. /\ place[p] # "deciding"
      /\ \E v \in Place \ {"deciding"} : place' = [place EXCEPT ![p] = v]
    BY DEF SeeLobby, JoinLobby, SeeLobbyLeave, LeaveLobby, Shed, Arrive, Place
<1>3. Finishing => Finishing'
    BY <1>1, <1>2 DEF Shape, Finishing
<1>4. Shape'
    BY <1>1, <1>2 DEF Shape
<1>5. CASE SeeLobby(p) \/ JoinLobby(p)
  <2>1. /\ place[p] \in {"arriving", "lobby"} /\ dead' = dead
        /\ place' = [place EXCEPT ![p] = "lobby"] \/ place' = [place EXCEPT ![p] = "in"]
    BY <1>5 DEF SeeLobby, JoinLobby
  <2>2. DeathsAreOfTheRound' /\ NobodyStuckDead'
    BY <1>1, <2>1 DEF Shape, DeathsAreOfTheRound, NobodyStuckDead
  <2> QED BY <1>1, <1>3, <1>4, <2>2, CalmKeeps
<1>6. CASE SeeLobbyLeave(p) \/ LeaveLobby(p)
  <2>1. /\ dead' = dead
        /\ place' = [place EXCEPT ![p] = "unlobby"] \/ place' = [place EXCEPT ![p] = "left"]
    BY <1>6 DEF SeeLobbyLeave, LeaveLobby
  <2>2. DeathsAreOfTheRound' /\ NobodyStuckDead'
    BY <1>1, <2>1 DEF Shape, DeathsAreOfTheRound, NobodyStuckDead
  <2> QED BY <1>1, <1>3, <1>4, <2>2, CalmKeeps
<1>7. CASE Shed(p)
  <2>1. dead' = dead \ {p} /\ place' = [place EXCEPT ![p] = "out"]
    BY <1>7 DEF Shed
  <2>2. DeathsAreOfTheRound' /\ NobodyStuckDead'
    BY <1>1, <2>1 DEF Shape, DeathsAreOfTheRound, NobodyStuckDead
  <2> QED BY <1>1, <1>3, <1>4, <2>2, CalmKeeps
<1>8. CASE Arrive(p)
  <2>1. /\ place[p] = "out" /\ p \notin tick.falls /\ dead' = dead
        /\ place' = [place EXCEPT ![p] = "arriving"]
    BY <1>8 DEF Arrive
  <2>2. DeathsAreOfTheRound' /\ NobodyStuckDead'
    BY <1>1, <2>1 DEF Shape, DeathsAreOfTheRound, NobodyStuckDead
  <2> QED BY <1>1, <1>3, <1>4, <2>2, CalmKeeps
<1> QED BY <1>5, <1>6, <1>7, <1>8

\* Picks, the forced start and beds.
LEMMA AsideKeeps ==
    ASSUME RInv,
           \/ ForceStart
           \/ \E p \in Player, t \in Team : ChooseTeam(p, t) \/ BreakBed(p, t)
           \/ UNCHANGED vars
    PROVE  RInv'
<1>1. UNCHANGED <<place, dead, dying, tick, started, engaged, members, byEntity, pending, over,
                  teardown, ended>>
    BY DEF ForceStart, ChooseTeam, BreakBed, vars, lobbyVars, teamVars, endVars
<1>2. Finishing => Finishing'
    BY <1>1 DEF Finishing
<1>3. Shape' /\ DeathsAreOfTheRound' /\ NobodyStuckDead'
    BY <1>1 DEF RInv, Shape, DeathsAreOfTheRound, NobodyStuckDead
<1> QED BY <1>1, <1>2, <1>3, CalmKeeps

LEMMA HitKeeps ==
    ASSUME RInv, NEW p \in Player, Hit(p) PROVE RInv'
<1> USE DEF RInv
<1>1. /\ place[p] = "in" /\ started /\ dying[p] = "no"
      /\ dead' = dead \cup {p} /\ dying' = [dying EXCEPT ![p] = "hit"]
      /\ UNCHANGED <<place, tick, started, engaged, members, byEntity, pending, over, teardown,
                     ended>>
    BY DEF Hit, teamVars, endVars
<1>2. Finishing => Finishing'
    BY <1>1 DEF Shape, Finishing
<1>3. Shape' /\ DeathsAreOfTheRound' /\ NobodyStuckDead'
    BY <1>1 DEF Shape, DeathsAreOfTheRound, NobodyStuckDead
<1> QED BY <1>1, <1>2, <1>3, CalmKeeps

\* The tick loop where it finishes nothing.
LEMMA TickKeeps ==
    ASSUME RInv,
           OnTick \/ LobbyTick \/ (\E p \in Player : SeeFall(p)) \/ ProcessRespawns \/ Respawn
    PROVE  RInv'
<1> USE DEF RInv
<1>1. UNCHANGED <<place, dying, started, engaged, members, byEntity, over, teardown, ended>>
    BY DEF OnTick, LobbyTick, SeeFall, ProcessRespawns, Respawn, teamVars, endVars
<1>2. tick.at # "deciding"
    BY DEF OnTick, LobbyTick, SeeFall, ProcessRespawns, Respawn
<1>3. Finishing => Finishing'
    BY <1>1, <1>2 DEF Finishing
<1>4. CASE OnTick
  <2>1. /\ tick.at = "idle" /\ dead' = dead
        /\ pending' = [p \in Player |-> Sooner(pending[p])]
        /\ tick' = [tick EXCEPT !.at = IF started THEN "void" ELSE "lobby"]
    BY <1>4 DEF OnTick, TickTo
  <2>2. \A p \in Player : /\ Sooner(pending[p]) \in Int
                          /\ pending[p] # None => Sooner(pending[p]) # None
    BY DEF Shape, Sooner, None
  <2>3. Shape' /\ DeathsAreOfTheRound' /\ NobodyStuckDead'
    BY <1>1, <2>1, <2>2 DEF Shape, DeathsAreOfTheRound, NobodyStuckDead
  <2> QED BY <1>1, <1>3, <2>3, CalmKeeps
<1>5. CASE LobbyTick
  <2>1. /\ tick.at = "lobby" /\ UNCHANGED <<dead, pending>>
        /\ tick' = [tick EXCEPT !.at = IF countdown = 0 THEN "start" ELSE "idle"]
    BY <1>5 DEF LobbyTick, TickTo
  <2>2. Shape' /\ DeathsAreOfTheRound' /\ NobodyStuckDead'
    BY <1>1, <2>1 DEF Shape, DeathsAreOfTheRound, NobodyStuckDead
  <2> QED BY <1>1, <1>3, <2>2, CalmKeeps
<1>6. CASE \E p \in Player : SeeFall(p)
  <2>1. PICK p \in Player : SeeFall(p)
    BY <1>6
  <2>2. /\ tick.at = "void" /\ place[p] \in {"in", "deciding", "left"}
        /\ tick' = [tick EXCEPT !.at = "fall", !.falls = {p}] /\ UNCHANGED <<dead, pending>>
    BY <2>1 DEF SeeFall
  <2>3. Shape' /\ DeathsAreOfTheRound' /\ NobodyStuckDead'
    BY <1>1, <2>2 DEF Shape, DeathsAreOfTheRound, NobodyStuckDead
  <2> QED BY <1>1, <1>3, <2>3, CalmKeeps
<1>7. CASE ProcessRespawns
  <2> DEFINE up == {p \in Player : pending[p] = 0}
  <2>1. /\ tick.at = "void" /\ dead' = dead
        /\ pending' = [p \in Player |-> IF p \in up THEN None ELSE pending[p]]
        /\ tick' = [tick EXCEPT !.at = "respawn", !.due = {p \in up : byEntity[p] # NoTeam}]
    BY <1>7 DEF ProcessRespawns
  <2>2. None \in Int
    BY DEF None
  <2>3. Shape' /\ DeathsAreOfTheRound'
    BY <1>1, <2>1, <2>2 DEF Shape, DeathsAreOfTheRound
  <2>4. tick.due = {} /\ tick'.due = {p \in up : byEntity[p] # NoTeam}
    BY <2>1 DEF Shape, DeathsAreOfTheRound
  <2>5. NobodyStuckDead'
    BY <1>1, <2>1, <2>4 DEF NobodyStuckDead
  <2> QED BY <1>1, <1>3, <2>3, <2>5, CalmKeeps
<1>8. CASE Respawn
  <2>1. tick.at = "respawn" /\ pending' = pending /\ started
    BY <1>8 DEF Respawn, DeathsAreOfTheRound
  <2>2. CASE tick.due = {} /\ tick' = [tick EXCEPT !.at = "idle"] /\ dead' = dead
    <3>1. Shape' /\ DeathsAreOfTheRound' /\ NobodyStuckDead'
      BY <1>1, <2>1, <2>2 DEF Shape, DeathsAreOfTheRound, NobodyStuckDead
    <3> QED BY <1>1, <1>3, <3>1, CalmKeeps
  <2>3. CASE \E p \in tick.due : dead' = dead \ {p} /\ tick' = [tick EXCEPT !.due = @ \ {p}]
    <3>1. Shape' /\ DeathsAreOfTheRound' /\ NobodyStuckDead'
      BY <1>1, <2>1, <2>3 DEF Shape, DeathsAreOfTheRound, NobodyStuckDead
    <3> QED BY <1>1, <1>3, <3>1, CalmKeeps
  <2> QED BY <1>8, <2>2, <2>3 DEF Respawn, TickTo
<1> QED BY <1>4, <1>5, <1>6, <1>7, <1>8

LEMMA EndGameKeeps ==
    ASSUME RInv, EndGame PROVE RInv'
<1> USE DEF RInv
<1>1. /\ teardown > 0 /\ teardown' = teardown - 1 /\ ended' = TRUE
      /\ UNCHANGED <<place, dead, dying, tick, started, engaged, members, byEntity, pending, over>>
    BY DEF EndGame, teamVars
<1>2. Shape' /\ DeathsAreOfTheRound' /\ NobodyStuckDead' /\ TeardownIsAfter' /\ EndsOnce'
    BY <1>1 DEF Shape, DeathsAreOfTheRound, NobodyStuckDead, TeardownIsAfter, EndsOnce
<1>3. DecidedIsFinished'
    BY <1>1 DEF DecidedIsFinished, Decided, TwoInPlay, InPlay, Finishing
<1> QED BY <1>2, <1>3

-----------------------------------------------------------------------------
(* The theorems. *)

\* Every step keeps the invariant.
LEMMA NextRInv == RInv /\ [Next]_vars => RInv'
<1> SUFFICES ASSUME RInv, [Next]_vars PROVE RInv'
    OBVIOUS
<1>1. CASE \E p \in Player : Arrive(p) \/ MoveOn(p) \/ Leave(p) \/ Hit(p) \/ DeathOn(p)
    BY <1>1, JoinRoundKeeps, LeaveRoundKeeps, DeathKeeps, FinishersKeep, WalkKeeps, HitKeeps
       DEF MoveOn, Leave, DeathOn
<1>2. CASE ForceStart \/ (\E p \in Player, t \in Team : ChooseTeam(p, t) \/ BreakBed(p, t))
    BY <1>2, AsideKeeps
<1>3. CASE TickLoop
    BY <1>3, StartRoundKeeps, FallKeeps, FinishersKeep, TickKeeps DEF TickLoop
<1>4. CASE EndGame
    BY <1>4, EndGameKeeps
<1>5. CASE UNCHANGED vars
    BY <1>5, AsideKeeps
<1> QED BY <1>1, <1>2, <1>3, <1>4, <1>5 DEF Next

\* The inductive invariant of a round (games/bedwars), whatever joins, leaves,
\* blows, falls and ticks run into one another.
THEOREM RoundInvariant == Spec => []RInv
BY InitRInv, NextRInv, PTL DEF Spec

\* A round that is decided is over, or a goroutine is on its way to finish
\* (winnerLocked and finish).
THEOREM DecidedRoundsFinish == Spec => []DecidedIsFinished
<1>1. RInv => DecidedIsFinished
    BY DEF RInv
<1> QED BY <1>1, RoundInvariant, PTL

\* However many goroutines saw the decision, one tears the instance down
\* (finish).
THEOREM RoundEndsOnce == Spec => []EndsOnce
<1>1. RInv => EndsOnce
    BY DEF RInv
<1> QED BY <1>1, RoundInvariant, PTL

\* No order of blows, falls, beds, leaves and respawns leaves a player with a
\* team dead and forgotten (OnPlayerDeath, processRespawns).
THEOREM NobodyForgottenDead == Spec => []NobodyStuckDead
<1>1. RInv => NobodyStuckDead
    BY DEF RInv
<1> QED BY <1>1, RoundInvariant, PTL
-----------------------------------------------------------------------------
(***************************************************************************)
(* The ways of the bots.  Whatever becomes of a route (dropped, picked up  *)
(* again, its steps skipped), the cell of each of its steps is held by the *)
(* world or will be by a block the step itself lays: blocks are only       *)
(* added, and only where there is none.                                    *)
(***************************************************************************)

PathCells == Int \X Int \X Int
PathSteps == [cell : PathCells, place : Seq(PathCells), leap : BOOLEAN]

PathTypes ==
    /\ course \in Courses /\ here \in PathCells /\ routeStart \in PathCells
    /\ \A n \in open : n.cell \in PathCells /\ n.path \in Seq(PathSteps)
    /\ route \in Seq(PathSteps) /\ lastRoute \in Seq(PathSteps)
    /\ routeIdx \in 1..Len(route) + 1

\* The cell of a step is held by the world, or will be by a block the step puts
\* down where there is none.
Held(s) ==
    \/ GroundUnder(blocks, s.cell)
    \/ /\ ~PathCollides(blocks, Above(s.cell, -1))
       /\ \E k \in DOMAIN s.place : s.place[k] = Above(s.cell, -1)

AllHeld(r) == \A k \in DOMAIN r : Held(r[k])

GroundInv ==
    /\ PathTypes
    /\ AllHeld(route) /\ AllHeld(lastRoute) /\ \A n \in open : AllHeld(n.path)
    /\ mode = "going" /\ routeIdx > 1 => GroundUnder(blocks, route[routeIdx - 1].cell)
    /\ mode = "going" /\ ~onEdge => GroundUnder(blocks, routeStart)
    /\ WalksOnGround

\* A block where there was none takes the ground from nothing.
LayHolds(p) ==
    /\ ~PathCollides(blocks, p)
    /\ blocks' = [q \in DOMAIN blocks \cup {p} |-> IF q \in DOMAIN blocks THEN blocks[q] ELSE "full"]

\* What is ground stays ground.
LEMMA GroundStays ==
    ASSUME NEW p, LayHolds(p), NEW c, GroundUnder(blocks, c)
    PROVE  GroundUnder(blocks', c)
<1>1. ASSUME NEW q, PathCollides(blocks, q) PROVE BlockAt(blocks', q) = BlockAt(blocks, q)
  BY <1>1 DEF LayHolds, PathCollides, BlockAt
<1>2. \A q : PathCollides(blocks, q) => PathCollides(blocks', q) /\ BlockAt(blocks', q) = BlockAt(blocks, q)
  BY <1>1 DEF PathCollides
<1> QED
  BY <1>2 DEF GroundUnder, Reaches

\* What is held, or will be, stays so.
LEMMA HeldStays ==
    ASSUME NEW p, LayHolds(p), NEW s, Held(s)
    PROVE  Held(s)'
<1> DEFINE b == Above(s.cell, -1)
<1>1. CASE GroundUnder(blocks, s.cell)
  BY <1>1, GroundStays DEF Held
<1>2. CASE ~PathCollides(blocks, b) /\ \E k \in DOMAIN s.place : s.place[k] = b
  <2>1. CASE p = b /\ p \notin DOMAIN blocks
    <3>1. BlockAt(blocks', b) = "full"
      BY <2>1 DEF LayHolds, BlockAt
    <3>2. Reaches(blocks', b, 9)
      BY <3>1 DEF Reaches, PathCollides, Extent
    <3> QED
      BY <3>2 DEF Held, GroundUnder
  <2>2. CASE p # b \/ p \in DOMAIN blocks
    <3>1. BlockAt(blocks', b) = BlockAt(blocks, b)
      BY <2>2 DEF LayHolds, BlockAt
    <3>2. ~PathCollides(blocks', b)
      BY <1>2, <3>1 DEF PathCollides
    <3> QED
      BY <1>2, <3>2 DEF Held
  <2> QED
    BY <2>1, <2>2
<1> QED
  BY <1>1, <1>2 DEF Held

\* A step whose blocks are in place ends on ground.
LEMMA BuiltIsHeld == ASSUME NEW s, Held(s), Unbuilt(s) = {} PROVE GroundUnder(blocks, s.cell)
BY DEF Held, Unbuilt

\* Cells next to cells.
LEMMA MovedIs ==
    ASSUME NEW c \in PathCells, NEW x \in Int, NEW y \in Int, NEW z \in Int
    PROVE  Moved(c, x, y, z) \in PathCells
BY DEF Moved, PathCells

\* Up or down.
LEMMA AboveIs ==
    ASSUME NEW c \in PathCells, NEW n \in Int
    PROVE  Above(c, n) \in PathCells
BY MovedIs DEF Above

\* Up and down again.
LEMMA DownAgain == ASSUME NEW c \in PathCells PROVE Above(Above(c, 1), -1) = c
<1>1. c[1] \in Int /\ c[2] \in Int /\ c[3] \in Int /\ c = <<c[1], c[2], c[3]>>
  BY DEF PathCells
<1>2. Above(c, 1) = <<c[1] + 0, c[2] + 1, c[3] + 0>>
  BY DEF Above, Moved
<1>3. Above(Above(c, 1), -1) = <<c[1] + 0 + 0, c[2] + 1 + (-1), c[3] + 0 + 0>>
  BY <1>2 DEF Above, Moved
<1>4. c[1] + 0 + 0 = c[1] /\ c[2] + 1 + (-1) = c[2] /\ c[3] + 0 + 0 = c[3]
  BY <1>1
<1> QED
  BY <1>1, <1>3, <1>4

\* A move that ends where something holds it.
GoodMove(m) == m.cell \in PathCells /\ m.place \in Seq(PathCells) /\ m.leap \in BOOLEAN /\ Held(m)

\* A move onto ground, ...
LEMMA WalkIsGood ==
    ASSUME NEW t \in PathCells, GroundUnder(blocks, t), NEW cost, NEW leap \in BOOLEAN
    PROVE  GoodMove(Move(t, cost, <<>>, leap))
BY DEF GoodMove, Move, Held

\* ... one onto a block of its own, ...
LEMMA BuildIsGood ==
    ASSUME NEW t \in PathCells, NEW blocksLaid \in Seq(PathCells), NEW cost,
           ~PathCollides(blocks, Above(t, -1)), \E k \in DOMAIN blocksLaid : blocksLaid[k] = Above(t, -1)
    PROVE  GoodMove(Move(t, cost, blocksLaid, FALSE))
BY DEF GoodMove, Move, Held

\* ... the moves of a search: level, by a bridge or not, ...
LEMMA LevelIsGood ==
    ASSUME NEW c, NEW t \in PathCells, NEW s, NEW m \in LevelMoves(blocks, c, t, s) PROVE GoodMove(m)
<1>1. CASE m = Move(t, 10, <<>>, FALSE) /\ Standable(blocks, t)
  BY <1>1, WalkIsGood DEF Standable
<1>2. CASE m = Move(t, 40, <<Above(t, -1)>>, FALSE) /\ Bridgeable(blocks, t)
  <2> DEFINE p == <<Above(t, -1)>>
  <2>1. p \in Seq(PathCells) /\ 1 \in DOMAIN p /\ p[1] = Above(t, -1)
    BY AboveIs
  <2>2. ~PathCollides(blocks, Above(t, -1))
    BY <1>2 DEF Bridgeable
  <2> HIDE DEF p
  <2>3. GoodMove(Move(t, 40, p, FALSE))
    BY <2>1, <2>2, BuildIsGood
  <2> QED
    BY <1>2, <2>3 DEF p
<1> QED
  BY <1>1, <1>2 DEF LevelMoves

\* ... up, by a stair or not, ...
LEMMA UpIsGood ==
    ASSUME NEW c, NEW t \in PathCells, NEW s, NEW m \in UpMoves(blocks, c, t, s) PROVE GoodMove(m)
<1> DEFINE up == Above(t, 1)
           step == StairStep(blocks, t, s)
           below == Above(t, -1)
<1>1. up \in PathCells /\ Above(up, -1) = t /\ below \in PathCells
  BY AboveIs, DownAgain
<1> HIDE DEF up, below
<1>2. CASE m = Move(up, 20, <<>>, FALSE) /\ Standable(blocks, up)
  BY <1>1, <1>2, WalkIsGood DEF Standable
<1>3. CASE step # <<>> /\ m = Move(up, 50 + 40 * (Len(step) - 1), step, FALSE)
  <2>1. ~PathCollides(blocks, t) /\ (step = <<t>> \/ step = <<below, t>>)
    BY <1>3 DEF StairStep, below
  <2>2. step \in Seq(PathCells) /\ \E k \in DOMAIN step : step[k] = t
    <3>1. CASE step = <<t>>
      <4>1. <<t>> \in Seq(PathCells) /\ 1 \in DOMAIN <<t>> /\ <<t>>[1] = t
        OBVIOUS
      <4> QED
        BY <3>1, <4>1
    <3>2. CASE step = <<below, t>>
      <4>1. <<below, t>> \in Seq(PathCells) /\ 2 \in DOMAIN <<below, t>> /\ <<below, t>>[2] = t
        BY <1>1
      <4> QED
        BY <3>2, <4>1
    <3> QED
      BY <2>1, <3>1, <3>2
  <2> HIDE DEF step
  <2> QED
    BY <1>1, <1>3, <2>1, <2>2, BuildIsGood
<1> QED
  BY <1>2, <1>3 DEF UpMoves, up

\* ... down, ...
LEMMA DropIsGood == ASSUME NEW t \in PathCells, NEW m \in DropMoves(blocks, t) PROVE GoodMove(m)
<1>1. PICK k \in 1..PathMaxDrop : m = Move(Above(t, -k), 15 + 5 * k, <<>>, FALSE) /\ Standable(blocks, Above(t, -k))
  BY DEF DropMoves
<1>2. -k \in Int
  BY <1>1 DEF PathMaxDrop
<1>3. Above(t, -k) \in PathCells
  BY <1>2, AboveIs
<1> QED
  BY <1>1, <1>3, WalkIsGood DEF Standable

\* ... across ...
LEMMA LeapIsGood ==
    ASSUME NEW c \in PathCells, NEW d \in Cardinals, NEW m \in LeapMoves(blocks, c, d) PROVE GoodMove(m)
<1> DEFINE land(k) == Moved(c, k * d[1], 0, k * d[2])
<1>1. PICK k \in 2..MaxLeap + 1 : m = Move(land(k), 20 + 10 * k + LeapCost, <<>>, TRUE) /\ Standable(blocks, land(k))
  BY DEF LeapMoves
<1>2. k \in Int /\ d[1] \in {-1, 0, 1} /\ d[2] \in {-1, 0, 1}
  BY DEF Cardinals
<1>3. k * d[1] \in Int /\ k * d[2] \in Int
  BY <1>2
<1>4. land(k) \in PathCells
  BY <1>3, MovedIs
<1> HIDE DEF land
<1> QED
  BY <1>1, <1>4, WalkIsGood DEF Standable

\* ... and diagonally.
LEMMA DiagonalIsGood == ASSUME NEW c \in PathCells, NEW m \in DiagonalMoves(blocks, c) PROVE GoodMove(m)
<1>1. PICK d \in Diagonals : m = Move(Moved(c, d[1], 0, d[2]), 14, <<>>, FALSE) /\ Standable(blocks, Moved(c, d[1], 0, d[2]))
  BY DEF DiagonalMoves
<1>2. d[1] \in Int /\ d[2] \in Int
  BY DEF Diagonals
<1>3. Moved(c, d[1], 0, d[2]) \in PathCells
  BY <1>2, MovedIs
<1> QED
  BY <1>1, <1>3, WalkIsGood DEF Standable

\* All of them.
LEMMA MovesAreGood == ASSUME NEW n, n.cell \in PathCells, NEW m \in Moves(blocks, n) PROVE GoodMove(m)
<1> DEFINE c == n.cell
           s == Supports(blocks, n)
           t(d) == Moved(c, d[1], 0, d[2])
<1>1. \A d \in Cardinals : t(d) \in PathCells
  <2> SUFFICES ASSUME NEW d \in Cardinals PROVE t(d) \in PathCells
    OBVIOUS
  <2>1. d[1] \in Int /\ d[2] \in Int
    BY DEF Cardinals
  <2> QED
    BY <2>1, MovedIs
<1>2. CASE m \in DiagonalMoves(blocks, c)
  BY <1>2, DiagonalIsGood
<1>3. ASSUME NEW d \in Cardinals,
             m \in LevelMoves(blocks, c, t(d), s) \cup UpMoves(blocks, c, t(d), s)
                     \cup DropMoves(blocks, t(d)) \cup LeapMoves(blocks, c, d)
      PROVE  GoodMove(m)
  <2>1. t(d) \in PathCells
    BY <1>1
  <2> HIDE DEF t, s
  <2> QED
    BY <1>3, <2>1, LevelIsGood, UpIsGood, DropIsGood, LeapIsGood
<1> QED
  BY <1>2, <1>3 DEF Moves

\* An expansion appends a move to the route so far.
LEMMA PushedIsHeld ==
    ASSUME NEW n, n.cell \in PathCells, n.path \in Seq(PathSteps), AllHeld(n.path), NEW e \in Kept(n)
    PROVE  e.cell \in PathCells /\ e.path \in Seq(PathSteps) /\ AllHeld(e.path)
<1>1. PICK m \in Moves(blocks, n) : e = Pushed(n, m)
  BY DEF Kept
<1>2. GoodMove(m)
  BY <1>1, MovesAreGood
<1> DEFINE s == [cell |-> m.cell, place |-> m.place, leap |-> m.leap]
<1>3. s \in PathSteps /\ s.cell = m.cell /\ s.place = m.place
  BY <1>2 DEF GoodMove, PathSteps
<1>4. Held(s)
  BY <1>2, <1>3 DEF GoodMove, Held
<1>5. e.cell = m.cell /\ e.path = Append(n.path, s)
  BY <1>1 DEF Pushed
<1> HIDE DEF s
<1>6. /\ Append(n.path, s) \in Seq(PathSteps)
      /\ \A k \in DOMAIN Append(n.path, s) : \/ k \in DOMAIN n.path /\ Append(n.path, s)[k] = n.path[k]
                                           \/ Append(n.path, s)[k] = s
  BY <1>3
<1>7. AllHeld(Append(n.path, s))
  BY <1>4, <1>6 DEF AllHeld
<1> QED
  BY <1>2, <1>5, <1>6, <1>7 DEF GoodMove

\* One action after another: the search, ...
LEMMA ExpandKeeps == ASSUME GroundInv, Expand PROVE GroundInv'
<1>1. PICK n \in open : open' = (open \ {n}) \cup Kept(n)
  BY DEF Expand
<1>2. UNCHANGED <<course, blocks, mode, route, routeIdx, routeStart, lastRoute, onEdge, here>>
  BY DEF Expand, followVars
<1>3. \A e \in open' : e.cell \in PathCells /\ e.path \in Seq(PathSteps) /\ AllHeld(e.path)
  BY <1>1, PushedIsHeld DEF GroundInv, PathTypes
<1>4. PathTypes'
  BY <1>2, <1>3 DEF GroundInv, PathTypes
<1>5. \A r : AllHeld(r) => AllHeld(r)'
  BY <1>2 DEF AllHeld, Held
<1> QED
  BY <1>2, <1>3, <1>4, <1>5 DEF GroundInv, WalksOnGround

\* What a search begins with.
LEMMA StartsHeld ==
    ASSUME here \in PathCells, open' = {StartNode(here)}
    PROVE  \A n \in open' : n.cell \in PathCells /\ n.path \in Seq(PathSteps) /\ \A k \in DOMAIN n.path : FALSE
<1>1. \A n \in open' : n.cell = here /\ n.path = <<>>
  BY DEF StartNode
<1>2. <<>> \in Seq(PathSteps) /\ \A k \in DOMAIN <<>> : FALSE
  OBVIOUS
<1> QED
  BY <1>1, <1>2

\* A step that lays nothing.
LEMMA SameWorld == ASSUME UNCHANGED blocks, NEW r, AllHeld(r) PROVE AllHeld(r)'
BY DEF AllHeld, Held

\* ... its beginning and its end, and what ends a route, ...
LEMMA SearchKeeps == ASSUME GroundInv, Found \/ Exhausted \/ SearchAgain \/ Home \/ Arrived \/ DropRoute PROVE GroundInv'
<1>1. CASE Found
  <2>1. PICK n \in open : route' = n.path
    BY <1>1 DEF Found
  <2>2. /\ routeIdx' = 1 /\ routeStart' = here /\ onEdge' = ~GroundUnder(blocks, here) /\ mode' = "going" /\ open' = {}
        /\ UNCHANGED <<course, blocks, lastRoute, here>>
    BY <1>1 DEF Found, Forget
  <2>3. n.path \in Seq(PathSteps) /\ AllHeld(n.path)
    BY <2>1 DEF GroundInv, PathTypes
  <2>4. PathTypes'
    <3>1. Len(n.path) \in Nat
      BY <2>3
    <3>2. 1 \in 1..Len(n.path) + 1
      BY <3>1
    <3> QED
      BY <2>1, <2>2, <2>3, <3>2 DEF GroundInv, PathTypes
  <2>5. AllHeld(route)' /\ AllHeld(lastRoute)'
    BY <2>1, <2>2, <2>3, SameWorld DEF GroundInv
  <2>6. ~onEdge' => GroundUnder(blocks', routeStart')
    BY <2>2
  <2>7. ~(routeIdx' > 1) /\ mode' # "fallen" /\ \A e \in open' : AllHeld(e.path)'
    BY <2>2
  <2> QED
    BY <2>4, <2>5, <2>6, <2>7 DEF GroundInv, WalksOnGround
<1>2. CASE Exhausted
  <2>1. UNCHANGED <<course, blocks, route, routeIdx, routeStart, lastRoute, onEdge, here>>
    BY <1>2 DEF Exhausted, followVars
  <2>2. mode' \in {"search", "nowhere"} /\ (open' = {} \/ open' = {StartNode(here)})
    BY <1>2 DEF Exhausted, BeginSearch, Forget
  <2>3. \A n \in open' : n.cell \in PathCells /\ n.path \in Seq(PathSteps) /\ \A k \in DOMAIN n.path : FALSE
    BY <2>2, StartsHeld DEF GroundInv, PathTypes
  <2>4. PathTypes'
    BY <2>1, <2>3 DEF GroundInv, PathTypes
  <2>5. \A n \in open' : AllHeld(n.path)'
    BY <2>3 DEF AllHeld
  <2>6. AllHeld(route)' /\ AllHeld(lastRoute)'
    BY <2>1 DEF GroundInv, AllHeld, Held
  <2> QED
    BY <2>2, <2>4, <2>5, <2>6 DEF GroundInv, WalksOnGround
<1>3. CASE SearchAgain
  <2>1. UNCHANGED <<course, blocks, route, routeIdx, routeStart, onEdge, here>> /\ lastRoute' = <<>>
    BY <1>3 DEF SearchAgain
  <2>2. mode' = "search" /\ open' = {StartNode(here)}
    BY <1>3 DEF SearchAgain, BeginSearch
  <2>3. \A n \in open' : n.cell \in PathCells /\ n.path \in Seq(PathSteps) /\ \A k \in DOMAIN n.path : FALSE
    BY <2>2, StartsHeld DEF GroundInv, PathTypes
  <2>4. PathTypes'
    BY <2>1, <2>3 DEF GroundInv, PathTypes
  <2>5. \A n \in open' : AllHeld(n.path)'
    BY <2>3 DEF AllHeld
  <2>6. AllHeld(route)' /\ AllHeld(lastRoute)'
    BY <2>1 DEF GroundInv, AllHeld, Held
  <2> QED
    BY <2>2, <2>4, <2>5, <2>6 DEF GroundInv, WalksOnGround
<1>4. CASE Home \/ Arrived \/ DropRoute
  <2>1. UNCHANGED <<course, blocks, open, routeStart, onEdge, here>>
    BY <1>4 DEF Home, Arrived, DropRoute, searchVars, followVars
  <2>2. mode' \in {"there", "lost"}
    BY <1>4 DEF Home, Arrived, DropRoute
  <2>3. \/ route' = route /\ routeIdx' = routeIdx
        \/ route' = <<>> /\ routeIdx' = 1
    BY <1>4 DEF Home, Arrived, DropRoute, followVars
  <2>4. lastRoute' = lastRoute \/ lastRoute' = route
    BY <1>4 DEF Home, Arrived, DropRoute, followVars
  <2>5. 1 \in 1..Len(<<>>) + 1 /\ <<>> \in Seq(PathSteps)
    OBVIOUS
  <2>6. PathTypes'
    BY <2>1, <2>3, <2>4, <2>5 DEF GroundInv, PathTypes
  <2>7. AllHeld(route)' /\ AllHeld(lastRoute)' /\ \A n \in open' : AllHeld(n.path)'
    BY <2>1, <2>3, <2>4 DEF GroundInv, AllHeld, Held
  <2> QED
    BY <2>2, <2>6, <2>7 DEF GroundInv, WalksOnGround
<1> QED
  BY <1>1, <1>2, <1>3, <1>4

\* ... a step landed on, ...
LEMMA HopKeeps == ASSUME GroundInv, Hop PROVE GroundInv'
<1>1. PICK k \in Skipped : routeIdx' = k + 1
  BY DEF Hop
<1>2. UNCHANGED <<course, blocks, mode, open, route, routeStart, lastRoute, onEdge, here>>
  BY DEF Hop, searchVars
<1>3. k \in (routeIdx + 1)..Len(route) /\ Unbuilt(route[k]) = {} /\ routeIdx \in 1..Len(route) + 1 /\ Len(route) \in Nat
  BY <1>1 DEF Skipped, GroundInv, PathTypes
<1>4. k \in 1..Len(route) /\ k \in DOMAIN route /\ k + 1 \in 1..Len(route) + 1 /\ k + 1 - 1 = k
  BY <1>3 DEF GroundInv, PathTypes
<1>5. GroundUnder(blocks, route[k].cell)
  BY <1>3, <1>4, BuiltIsHeld DEF GroundInv, AllHeld
<1>6. PathTypes'
  BY <1>1, <1>2, <1>4 DEF GroundInv, PathTypes
<1>7. AllHeld(route)' /\ AllHeld(lastRoute)' /\ \A n \in open' : AllHeld(n.path)'
  BY <1>2 DEF GroundInv, AllHeld, Held
<1>8. GroundUnder(blocks', route'[routeIdx' - 1].cell)
  BY <1>1, <1>2, <1>4, <1>5
<1> QED
  BY <1>2, <1>6, <1>7, <1>8 DEF GroundInv, WalksOnGround

\* The step under way and the one before.
LEMMA StepIs ==
    ASSUME GroundInv, mode = "going", routeIdx <= Len(route)
    PROVE  /\ routeIdx \in DOMAIN route /\ Step \in PathSteps /\ Held(Step) /\ Prev \in PathCells
           /\ ~onEdge \/ routeIdx > 1 => GroundUnder(blocks, Prev)
<1>1. routeIdx \in 1..Len(route) + 1 /\ route \in Seq(PathSteps) /\ routeStart \in PathCells
  BY DEF GroundInv, PathTypes
<1>2. routeIdx \in DOMAIN route /\ Step \in PathSteps
  BY <1>1 DEF Step
<1>3. Held(Step)
  BY <1>2 DEF GroundInv, AllHeld, Step
<1>4. routeIdx > 1 => routeIdx - 1 \in DOMAIN route /\ route[routeIdx - 1] \in PathSteps
  BY <1>1
<1>5. Prev \in PathCells
  BY <1>1, <1>4 DEF Prev, PathSteps
<1>6. ~onEdge \/ routeIdx > 1 => GroundUnder(blocks, Prev)
  BY DEF Prev, GroundInv
<1> QED
  BY <1>2, <1>3, <1>5, <1>6

\* ... the way back, ...
LEMMA StepBackKeeps == ASSUME GroundInv, StepBack PROVE GroundInv'
<1>1. /\ UNCHANGED <<course, blocks, open, route, routeIdx, routeStart, lastRoute, onEdge>> /\ here' = Prev
      /\ mode' = (IF GroundUnder(blocks, Prev) THEN "going" ELSE "fallen") /\ mode = "going"
  BY DEF StepBack, WalkTo, searchVars, followVars
<1>2. Prev \in PathCells /\ (~onEdge \/ routeIdx > 1 => GroundUnder(blocks, Prev))
  BY StepIs DEF StepBack
<1>3. PathTypes'
  BY <1>1, <1>2 DEF GroundInv, PathTypes
<1>4. AllHeld(route)' /\ AllHeld(lastRoute)' /\ \A n \in open' : AllHeld(n.path)'
  BY <1>1 DEF GroundInv, AllHeld, Held
<1> QED
  BY <1>1, <1>2, <1>3, <1>4 DEF GroundInv, WalksOnGround

\* ... the way on, ...
LEMMA WalkOnKeeps == ASSUME GroundInv, WalkOn PROVE GroundInv'
<1>1. /\ UNCHANGED <<course, blocks, open, route, routeStart, lastRoute, onEdge>> /\ here' = Step.cell
      /\ mode' = (IF GroundUnder(blocks, Step.cell) THEN "going" ELSE "fallen") /\ mode = "going"
      /\ routeIdx' = routeIdx + 1 /\ Unbuilt(Step) = {} /\ routeIdx <= Len(route)
  BY DEF WalkOn, WalkTo, searchVars
<1>2. routeIdx \in DOMAIN route /\ Step \in PathSteps /\ Held(Step)
  BY <1>1, StepIs
<1>3. GroundUnder(blocks, Step.cell) /\ Step.cell \in PathCells
  BY <1>1, <1>2, BuiltIsHeld DEF PathSteps
<1>4. routeIdx \in 1..Len(route) /\ Len(route) \in Nat /\ routeIdx + 1 - 1 = routeIdx
  BY <1>1 DEF GroundInv, PathTypes
<1>5. routeIdx + 1 \in 1..Len(route) + 1
  BY <1>4
<1>6. PathTypes'
  BY <1>1, <1>3, <1>5 DEF GroundInv, PathTypes
<1>7. AllHeld(route)' /\ AllHeld(lastRoute)' /\ \A n \in open' : AllHeld(n.path)'
  BY <1>1 DEF GroundInv, AllHeld, Held
<1>8. GroundUnder(blocks', route'[routeIdx' - 1].cell)
  BY <1>1, <1>3, <1>4 DEF Step
<1> QED
  BY <1>1, <1>3, <1>6, <1>7, <1>8 DEF GroundInv, WalksOnGround

\* ... a block laid, ...
LEMMA LayKeeps == ASSUME GroundInv, Lay PROVE GroundInv'
<1>1. UNCHANGED <<course, open, routeStart, lastRoute, onEdge, here>> /\ mode = "going" /\ routeIdx <= Len(route)
  BY DEF Lay, searchVars
<1>2. CASE carried > 0
  <2>1. PICK k \in Unbuilt(Step) :
            blocks' = [p \in DOMAIN blocks \cup {Step.place[k]} |-> IF p \in DOMAIN blocks THEN blocks[p] ELSE "full"]
    BY <1>2 DEF Lay
  <2>2. UNCHANGED <<mode, route, routeIdx>>
    BY <1>2 DEF Lay
  <2>3. LayHolds(Step.place[k])
    BY <2>1 DEF LayHolds, Unbuilt
  <2>4. PathTypes'
    BY <1>1, <2>2 DEF GroundInv, PathTypes
  <2>5. \A s : Held(s) => Held(s)'
    BY <2>3, HeldStays
  <2>6. AllHeld(route)' /\ AllHeld(lastRoute)' /\ \A n \in open' : AllHeld(n.path)'
    BY <1>1, <2>2, <2>5 DEF GroundInv, AllHeld
  <2>7. \A c : GroundUnder(blocks, c) => GroundUnder(blocks', c)
    BY <2>3, GroundStays
  <2> QED
    BY <1>1, <2>2, <2>4, <2>6, <2>7 DEF GroundInv, WalksOnGround
<1>3. CASE ~(carried > 0)
  <2>1. route' = <<>> /\ routeIdx' = 1 /\ mode' = "lost" /\ UNCHANGED blocks
    BY <1>3 DEF Lay
  <2>2. 1 \in 1..Len(<<>>) + 1 /\ <<>> \in Seq(PathSteps)
    OBVIOUS
  <2>3. PathTypes'
    BY <1>1, <2>1, <2>2 DEF GroundInv, PathTypes
  <2>4. AllHeld(route)' /\ AllHeld(lastRoute)' /\ \A n \in open' : AllHeld(n.path)'
    BY <1>1, <2>1 DEF GroundInv, AllHeld, Held
  <2> QED
    BY <2>1, <2>3, <2>4 DEF GroundInv, WalksOnGround
<1> QED
  BY <1>2, <1>3

\* What is left of a route from one of its steps on.
LEMMA RestIsHeld ==
    ASSUME NEW r \in Seq(PathSteps), NEW i \in 1..Len(r), NEW p, AllHeld(r)
    PROVE  ResumeFrom(r, i, p) \in Seq(PathSteps) /\ AllHeld(ResumeFrom(r, i, p))
<1> DEFINE rest == SubSeq(r, i, Len(r))
           first == [rest EXCEPT ![1].leap = FALSE]
<1>1. Len(r) \in Nat /\ i \in Nat /\ i <= Len(r) /\ 1 <= i
  OBVIOUS
<1>2. rest \in Seq(PathSteps) /\ Len(rest) = Len(r) - i + 1 /\ \A k \in 1..Len(r) - i + 1 : rest[k] = r[k + i - 1]
  BY <1>1
<1> HIDE DEF rest
<1>3. ASSUME NEW k \in DOMAIN rest PROVE Held(rest[k])
  <2>1. k \in 1..Len(r) - i + 1
    BY <1>1, <1>2
  <2>2. k + i - 1 \in DOMAIN r
    BY <1>1, <2>1
  <2> QED
    BY <1>2, <2>1, <2>2 DEF AllHeld
<1>4. 1 \in DOMAIN rest /\ rest[1] \in PathSteps
  BY <1>1, <1>2
<1>5. /\ DOMAIN first = DOMAIN rest /\ \A k \in DOMAIN rest \ {1} : first[k] = rest[k]
      /\ first[1] = [rest[1] EXCEPT !.leap = FALSE]
  BY <1>4
<1>6. first[1] \in PathSteps /\ first[1].cell = rest[1].cell /\ first[1].place = rest[1].place
  BY <1>4, <1>5 DEF PathSteps
<1> HIDE DEF first
<1>7. \A k \in DOMAIN first : first[k] \in PathSteps /\ Held(first[k])
  <2>1. Held(first[1])
    BY <1>3, <1>4, <1>6 DEF Held
  <2>2. ASSUME NEW k \in DOMAIN rest, k # 1 PROVE first[k] \in PathSteps /\ Held(first[k])
    <3>1. first[k] = rest[k]
      BY <1>5, <2>2
    <3>2. rest[k] \in PathSteps
      BY <1>2
    <3>3. Held(rest[k])
      BY <1>3
    <3> QED
      BY <3>1, <3>2, <3>3
  <2>3. DOMAIN first = DOMAIN rest
    BY <1>5
  <2> QED
    BY <1>6, <2>1, <2>2, <2>3
<1>8. first \in Seq(PathSteps)
  <2>1. first = [rest EXCEPT ![1] = first[1]]
    BY <1>4, <1>6 DEF first
  <2> QED
    BY <1>2, <1>4, <1>6, <2>1
<1>9. ResumeFrom(r, i, p) = rest \/ ResumeFrom(r, i, p) = first
  BY DEF ResumeFrom, rest, first
<1> QED
  BY <1>2, <1>3, <1>7, <1>8, <1>9 DEF AllHeld

\* ... a route picked up again ...
LEMMA ResumeKeeps == ASSUME GroundInv, Resume PROVE GroundInv'
<1>1. PICK i : /\ i = ResumeAt(blocks, lastRoute, here) /\ i \in 1..Len(lastRoute)
               /\ route' = ResumeFrom(lastRoute, i, here)
  BY DEF Resume
<1>2. /\ UNCHANGED <<course, blocks, open, here>> /\ routeIdx' = 1 /\ routeStart' = here /\ lastRoute' = <<>>
      /\ onEdge' = FALSE /\ mode' = "going"
  BY DEF Resume, searchVars
<1>3. lastRoute \in Seq(PathSteps) /\ AllHeld(lastRoute) /\ here \in PathCells
  BY DEF GroundInv, PathTypes
<1>4. GroundUnder(blocks, here)
  <2>1. i # 0
    BY <1>1, <1>3
  <2> QED
    BY <1>1, <2>1 DEF ResumeAt
<1>5. route' \in Seq(PathSteps) /\ AllHeld(route')
  BY <1>1, <1>3, RestIsHeld
<1>6. 1 \in 1..Len(route') + 1
  BY <1>5
<1>7. PathTypes'
  BY <1>2, <1>3, <1>5, <1>6 DEF GroundInv, PathTypes
<1>8. AllHeld(route)' /\ AllHeld(lastRoute)' /\ \A n \in open' : AllHeld(n.path)'
  BY <1>2, <1>5 DEF GroundInv, AllHeld, Held
<1> QED
  BY <1>2, <1>4, <1>7, <1>8 DEF GroundInv, WalksOnGround

\* ... and a blow.
LEMMA KnockedKeeps == ASSUME GroundInv, Knocked PROVE GroundInv'
<1>1. /\ UNCHANGED <<course, blocks, mode, open, route, routeIdx, routeStart, lastRoute, onEdge>>
      /\ \E x \in -2..2, y \in -1..0, z \in -1..1 : here' = Moved(here, x, y, z)
  BY DEF Knocked, searchVars, followVars
<1>2. here' \in PathCells
  BY <1>1, MovedIs DEF GroundInv, PathTypes
<1>3. PathTypes'
  BY <1>1, <1>2 DEF GroundInv, PathTypes
<1>4. AllHeld(route)' /\ AllHeld(lastRoute)' /\ \A n \in open' : AllHeld(n.path)'
  BY <1>1 DEF GroundInv, AllHeld, Held
<1> QED
  BY <1>1, <1>3, <1>4 DEF GroundInv, WalksOnGround

\* A bot falls off a route only where it was pushed, or searched for its route from
\* the edge of a block, in any world and however often it is knocked about.
THEOREM BotsWalkOnGround == PathSpec => []WalksOnGround
<1>1. PathInit => GroundInv
  <2> SUFFICES ASSUME PathInit PROVE GroundInv
    OBVIOUS
  <2>1. here \in PathCells /\ course \in Courses /\ routeStart = here
    BY PathAssumption DEF PathInit, PathCells
  <2>2. /\ mode = "search" /\ open = {StartNode(course.start)} /\ route = <<>> /\ routeIdx = 1 /\ lastRoute = <<>>
        /\ course.start = here
    BY DEF PathInit
  <2>3. 1 \in 1..Len(<<>>) + 1 /\ <<>> \in Seq(PathSteps) /\ AllHeld(<<>>)
    BY DEF AllHeld
  <2>4. \A n \in open : n.cell \in PathCells /\ n.path = <<>>
    BY <2>1, <2>2 DEF StartNode
  <2>5. PathTypes
    BY <2>1, <2>2, <2>3, <2>4 DEF PathTypes
  <2> QED
    BY <2>2, <2>3, <2>4, <2>5 DEF GroundInv, WalksOnGround
<1>2. GroundInv /\ [PathNext]_pathVars => GroundInv'
  <2> SUFFICES ASSUME GroundInv, [PathNext]_pathVars PROVE GroundInv'
    OBVIOUS
  <2>1. CASE UNCHANGED pathVars
    <3>1. UNCHANGED <<course, blocks, mode, open, route, routeIdx, routeStart, lastRoute, onEdge, here>>
      BY <2>1 DEF pathVars
    <3>2. PathTypes'
      BY <3>1 DEF GroundInv, PathTypes
    <3>3. AllHeld(route)' /\ AllHeld(lastRoute)' /\ \A n \in open' : AllHeld(n.path)'
      BY <3>1 DEF GroundInv, AllHeld, Held
    <3> QED
      BY <3>1, <3>2, <3>3 DEF GroundInv, WalksOnGround
  <2> QED
    BY <2>1, ExpandKeeps, SearchKeeps, HopKeeps, StepBackKeeps, LayKeeps, WalkOnKeeps, ResumeKeeps, KnockedKeeps
       DEF PathNext
<1>3. GroundInv => WalksOnGround
  BY DEF GroundInv
<1> QED
  BY <1>1, <1>2, <1>3, PTL DEF PathSpec
=============================================================================
