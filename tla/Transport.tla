------------------------------ MODULE Transport ------------------------------
(***************************************************************************)
(* One client's transport (server/net/conn): the outbound queue, the       *)
(* writer goroutine that batches it into socket writes, the two switches   *)
(* of a login (encryption, compression), and closing, which any goroutine  *)
(* may start at any time.                                                  *)
(*                                                                         *)
(* The goroutines: the read loop (stage), whoever writes to a client in    *)
(* play (their calls are one critical section of sendMu each, so they have *)
(* no state here), the writer, and the goroutines that run cleanup         *)
(* (closer).                                                               *)
(*                                                                         *)
(* A frame is its number among the accepted ones, what it is, and how it   *)
(* was framed; on the wire it also has the socket it was written to.       *)
(***************************************************************************)
EXTENDS Naturals, Sequences

CONSTANTS
    QueueSize,   \* frames the queue holds, and a batch at most
    Closer,      \* cleanup goroutines (a bound on how many run at once)
    MaxFrames    \* frames accepted in a behaviour (a bound)

ASSUME SizeAssumption == QueueSize \in Nat \ {0} /\ MaxFrames \in Nat

VARIABLES
    stage,      \* where the read loop is
    framing,    \* Conn.threshold: "plain" or "compressed"
    raw,        \* Conn.raw: "clear", "cipher", and "closed" after Finish
    queue,      \* Conn.out ...
    outClosed,  \* ... and whether it is closed
    closed,     \* Conn.closed
    done,       \* Conn.done is closed
    sent,       \* number of frames accepted into the queue
    writer,     \* writerLoop: where it is, its batch, its socket
    wire,       \* what went over the sockets
    failed,     \* a socket write failed, or what was left was given up
    closer,     \* cleanup goroutines
    timedOut,   \* Shutdown's drain ran out
    panicked    \* a channel was used after it was closed

linkVars == <<framing, raw, queue, outClosed, closed, done, sent>>
writerVars == <<writer, wire, failed>>
closeVars == <<closer, timedOut>>
wireVars == <<stage, framing, raw, queue, outClosed, closed, done, sent, writer, wire,
          failed, closer, timedOut, panicked>>

What == {"request", "compression", "data"}
Frame == [n : 1..MaxFrames, what : What, as : {"plain", "compressed"}]
Swap == [n |-> 0, what |-> "swap", as |-> "plain"]

WireTypeOK ==
    /\ stage \in {"handshake", "requested", "ciphered", "compressing", "play", "over"}
    /\ framing \in {"plain", "compressed"}
    /\ raw \in {"clear", "cipher", "closed"}
    /\ queue \in Seq(Frame \cup {Swap}) /\ Len(queue) <= QueueSize
    /\ outClosed \in BOOLEAN /\ closed \in BOOLEAN /\ done \in BOOLEAN
    /\ sent \in 0..MaxFrames
    /\ writer \in [pc : {"first", "batch", "over"}, pending : Seq(Frame),
                   socket : {"clear", "cipher"}]
    /\ Len(writer.pending) <= QueueSize
    /\ wire \in Seq([frame : Frame, on : {"clear", "cipher"}])
    /\ failed \in BOOLEAN /\ timedOut \in BOOLEAN /\ panicked \in BOOLEAN
    /\ closer \in [Closer -> {"idle", "asked", "shut", "drain", "finish", "done", "late"}]

WireInit ==
    /\ stage = "handshake" /\ framing = "plain" /\ raw = "clear"
    /\ queue = <<>> /\ outClosed = FALSE /\ closed = FALSE /\ done = FALSE
    /\ sent = 0
    /\ writer = [pc |-> "first", pending |-> <<>>, socket |-> "clear"]
    /\ wire = <<>> /\ failed = FALSE
    /\ closer = [k \in Closer |-> "idle"] /\ timedOut = FALSE
    /\ panicked = FALSE

-----------------------------------------------------------------------------
(* Queueing, under sendMu. *)

\* `go c.cleanup()`.  With every goroutine of the bound running, one more
\* would find the connection closing.
Ask == \/ \E k \in Closer : closer[k] = "idle" /\ closer' = [closer EXCEPT ![k] = "asked"]
       \/ (\A k \in Closer : closer[k] # "idle") /\ UNCHANGED closer

Full == Len(queue) >= QueueSize

\* The channel send, which panics once the channel is closed.
Push(m) ==
    /\ ~Full
    /\ queue' = Append(queue, m)
    /\ panicked' = (panicked \/ outClosed)

NextFrame(what) == [n |-> sent + 1, what |-> what, as |-> framing]

\* A frame is built with the framing of the moment and queued.
Accept(what) ==
    /\ sent < MaxFrames /\ ~closed
    /\ Push(NextFrame(what))
    /\ sent' = sent + 1

\* No write gets in: the transport is closing, or the queue is full, which
\* asks for a cleanup.
Refused ==
    /\ closed \/ Full
    /\ IF closed THEN UNCHANGED closer ELSE Ask
    /\ UNCHANGED <<linkVars, panicked>>

-----------------------------------------------------------------------------
(* The read loop up to Play, and the writes of a client in play. *)

\* Its write refused, the login is given up: the read loop's deferred cleanup.
LoginWriteFails ==
    /\ stage \in {"handshake", "ciphered", "compressing"}
    /\ closed \/ Full
    /\ stage' = "over"
    /\ Ask
    /\ UNCHANGED <<linkVars, writerVars, timedOut, panicked>>

\* Online mode: the Encryption Request ...
EncryptionRequest ==
    /\ stage = "handshake"
    /\ Accept("request")
    /\ stage' = "requested"
    /\ UNCHANGED <<framing, raw, outClosed, closed, done, writerVars, closeVars>>

\* ... and, its answer read, the switch: the read side at once, the write
\* side when the swap message comes up.
Encrypt ==
    /\ stage = "requested" /\ ~closed
    /\ raw' = "cipher"
    /\ Push(Swap)
    /\ stage' = "ciphered"
    /\ UNCHANGED <<framing, outClosed, closed, done, sent, writerVars, closeVars>>

\* The answer does not come or is wrong, or the client sent more behind it;
\* or the swap finds the queue full, the read side changed already.
EncryptFails ==
    /\ stage = "requested"
    /\ raw' = raw \/ (~closed /\ Full /\ raw' = "cipher")
    /\ stage' = "over"
    /\ Ask
    /\ UNCHANGED <<framing, queue, outClosed, closed, done, sent, writerVars, timedOut, panicked>>

\* Set Compression, queued in the framing before it (in offline mode there is
\* no encryption to wait for).
EnableCompression ==
    /\ stage \in {"handshake", "ciphered"}
    /\ Accept("compression")
    /\ framing' = "compressed"
    /\ stage' = "compressing"
    /\ UNCHANGED <<raw, outClosed, closed, done, writerVars, closeVars>>

\* A login refused: the Disconnect, then the cleanup.
RefuseLogin ==
    /\ stage \in {"handshake", "ciphered"}
    /\ Accept("data")
    /\ stage' = "over"
    /\ Ask
    /\ UNCHANGED <<framing, raw, outClosed, closed, done, writerVars, timedOut>>

\* Login Success.
LoginSuccess ==
    /\ stage = "compressing"
    /\ Accept("data")
    /\ stage' = "play"
    /\ UNCHANGED <<framing, raw, outClosed, closed, done, writerVars, closeVars>>

\* Any goroutine's safeWrite to a client in play, taken ...
Write ==
    /\ stage = "play"
    /\ Accept("data")
    /\ UNCHANGED <<stage, framing, raw, outClosed, closed, done, writerVars, closeVars>>

\* ... or not.
WriteRefused ==
    /\ stage = "play"
    /\ Refused
    /\ UNCHANGED <<stage, writerVars, timedOut>>

-----------------------------------------------------------------------------
(* The writer. *)

On(socket, frames) == [i \in 1..Len(frames) |-> [frame |-> frames[i], on |-> socket]]

Writes(frames) == wire' = wire \o On(writer.socket, frames)

\* A flush that fails put part of the batch on the wire; the server is told
\* unless it is closing already.
FlushFails ==
    /\ \E k \in 0..Len(writer.pending) : Writes(SubSeq(writer.pending, 1, k))
    /\ failed' = TRUE
    /\ writer' = [writer EXCEPT !.pc = "over", !.pending = <<>>]
    /\ IF closed THEN UNCHANGED closer ELSE Ask

\* The socket write of a batch (or of what a swap finds pending) fails: the
\* network, the deadline, the socket closed under it.
TakeFails ==
    /\ writer.pc = "batch" /\ writer.pending # <<>>
    /\ FlushFails
    /\ UNCHANGED <<stage, linkVars, timedOut, panicked>>

\* The next frame joins the batch; the first one starts it.
TakeFrame ==
    /\ writer.pc # "over" /\ queue # <<>> /\ Head(queue) # Swap
    /\ Len(writer.pending) < QueueSize
    /\ queue' = Tail(queue)
    /\ writer' = [writer EXCEPT !.pc = "batch", !.pending = Append(@, Head(queue))]
    /\ UNCHANGED <<stage, framing, raw, outClosed, closed, done, sent, wire, failed, closeVars,
                   panicked>>

\* A swap that forgets what is pending.
BugTakeSwap ==
    /\ writer.pc # "over" /\ queue # <<>> /\ Head(queue) = Swap
    /\ queue' = Tail(queue)
    /\ writer' = [pc |-> "batch", pending |-> <<>>, socket |-> "cipher"]
    /\ UNCHANGED <<stage, framing, raw, outClosed, closed, done, sent, wire, failed, closeVars,
                   panicked>>

\* A swap: what is pending goes to the old socket first.
TakeSwap ==
    /\ writer.pc # "over" /\ queue # <<>> /\ Head(queue) = Swap
    /\ Len(writer.pending) < QueueSize
    /\ raw # "closed" \/ writer.pending = <<>>
    /\ queue' = Tail(queue)
    /\ Writes(writer.pending)
    /\ writer' = [pc |-> "batch", pending |-> <<>>, socket |-> "cipher"]
    /\ UNCHANGED <<stage, framing, raw, outClosed, closed, done, sent, failed, closeVars, panicked>>

\* A flushed batch that is not reset.
BugFlushAgain ==
    /\ writer.pc = "batch" /\ raw # "closed"
    /\ Writes(writer.pending)
    /\ writer' = [writer EXCEPT !.pc = "first"]
    /\ UNCHANGED <<stage, linkVars, failed, closeVars, panicked>>

\* The window is over, or the batch full: it goes out.
Flush ==
    /\ writer.pc = "batch" /\ raw # "closed"
    /\ Writes(writer.pending)
    /\ writer' = [writer EXCEPT !.pc = "first", !.pending = <<>>]
    /\ UNCHANGED <<stage, linkVars, failed, closeVars, panicked>>

\* The channel is closed and empty: what is left goes out, errors ignored.
WriterEnds ==
    /\ writer.pc # "over" /\ queue = <<>> /\ outClosed
    /\ \/ /\ raw # "closed" \/ writer.pending = <<>>
          /\ Writes(writer.pending)
          /\ UNCHANGED failed
       \/ /\ writer.pending # <<>>
          /\ \E k \in 0..Len(writer.pending) : Writes(SubSeq(writer.pending, 1, k))
          /\ failed' = TRUE
    /\ writer' = [writer EXCEPT !.pc = "over", !.pending = <<>>]
    /\ UNCHANGED <<stage, linkVars, closeVars, panicked>>

-----------------------------------------------------------------------------
(* Closing. *)

\* A timer, a kick, a read error, the shutdown of the server.
CloseConn ==
    /\ \E k \in Closer : closer[k] = "idle" /\ closer' = [closer EXCEPT ![k] = "asked"]
    /\ UNCHANGED <<stage, linkVars, writerVars, timedOut, panicked>>

\* Shutdown's compare-and-swap: the first one goes on.
ShutdownConn(k) ==
    /\ closer[k] = "asked"
    /\ closed' = TRUE
    /\ closer' = [closer EXCEPT ![k] = IF closed THEN "late" ELSE "shut"]
    /\ UNCHANGED <<stage, framing, raw, queue, outClosed, done, sent, writerVars, timedOut,
                   panicked>>

\* The queue is closed under sendMu.
CloseQueue(k) ==
    /\ closer[k] = "shut"
    /\ outClosed' = TRUE
    /\ panicked' = (panicked \/ outClosed)
    /\ closer' = [closer EXCEPT ![k] = "drain"]
    /\ UNCHANGED <<stage, framing, raw, queue, closed, done, sent, writerVars, timedOut>>

\* The writer is done, or the drain has lasted long enough.
Drained(k) ==
    /\ closer[k] = "drain"
    /\ timedOut' = (writer.pc # "over")
    /\ closer' = [closer EXCEPT ![k] = "finish"]
    /\ UNCHANGED <<stage, linkVars, writerVars, panicked>>

\* Finish: the socket is closed, then Done.
FinishConn(k) ==
    /\ closer[k] = "finish"
    /\ raw' = "closed"
    /\ done' = TRUE
    /\ panicked' = (panicked \/ done)
    /\ closer' = [closer EXCEPT ![k] = "done"]
    /\ UNCHANGED <<stage, framing, queue, outClosed, closed, sent, writerVars, timedOut>>

-----------------------------------------------------------------------------

Login ==
    \/ LoginWriteFails \/ EncryptionRequest \/ Encrypt \/ EncryptFails
    \/ EnableCompression \/ RefuseLogin \/ LoginSuccess

WriterStep == TakeFails \/ TakeFrame \/ TakeSwap \/ Flush \/ WriterEnds

CloserStep(k) == ShutdownConn(k) \/ CloseQueue(k) \/ Drained(k) \/ FinishConn(k)

\* The connection is gone; a login may be blocked reading no more.
WireOver ==
    /\ done /\ writer.pc = "over"
    /\ \A k \in Closer : closer[k] \in {"idle", "done", "late"}
    /\ UNCHANGED wireVars

WireNext ==
    \/ Login \/ Write \/ WriteRefused
    \/ WriterStep
    \/ CloseConn \/ \E k \in Closer : CloserStep(k)
    \/ WireOver

WireSpec == WireInit /\ [][WireNext]_wireVars

\* The writer and the cleanups run: a socket write ends, by its deadline if
\* by nothing else, and so does the drain.
WireFairness == WF_wireVars(WriterStep) /\ \A k \in Closer : WF_wireVars(CloserStep(k))

FairWireSpec == WireSpec /\ WireFairness

-----------------------------------------------------------------------------
(* Properties. *)

\* The frames on the wire are the accepted ones, in the order they were
\* accepted: none twice, none out of turn, none missing in between.
WireInOrder == \A i \in DOMAIN wire : wire[i].frame.n = i

Before(i, what) == \E j \in DOMAIN wire : j < i /\ wire[j].frame.what = what

\* The client can read all of it: it deciphers from its answer to the
\* Encryption Request on, and expands what follows Set Compression.
Readable ==
    \A i \in DOMAIN wire :
        /\ wire[i].on = "cipher" <=> Before(i, "request")
        /\ wire[i].frame.as = "compressed" <=> Before(i, "compression")

\* No write reaches a closed queue and nothing is closed twice, whoever
\* closes the connection.
NoPanic == ~panicked

\* What NoPanic rests on: one closer at most got past the compare-and-swap,
\* and the channels are closed in its steps only.
First == {k \in Closer : closer[k] \in {"shut", "drain", "finish", "done"}}

CloseInv ==
    /\ NoPanic /\ {panicked, outClosed, done, closed} \subseteq BOOLEAN
    /\ closer \in [Closer -> {"idle", "asked", "shut", "drain", "finish", "done", "late"}]
    /\ outClosed \/ done \/ First # {} => closed
    /\ \A j, k \in First : j = k
    /\ \A k \in Closer : /\ closer[k] = "shut" => ~outClosed
                         /\ closer[k] \in {"shut", "drain", "finish"} => ~done

\* A kick's last words: with the writer done in time and no write failed,
\* everything accepted has gone out before the socket is closed.
KickDelivered ==
    (\E k \in Closer : closer[k] \in {"finish", "done"}) /\ ~timedOut /\ ~failed
        => Len(wire) = sent

\* What the socket promises its client, in one: order, a stream it can read,
\* no panic, a kick's last words.
WireSafety == WireInOrder /\ Readable /\ NoPanic /\ KickDelivered

\* An accepted frame goes out, or the transport fails or is closed.
Delivered ==
    \A n \in 1..MaxFrames : sent >= n ~> Len(wire) >= n \/ failed \/ done

\* A client whose socket fails does not stay connected.
FailureCloses == failed ~> done

\* Both: the writer leaves nobody waiting.
WireProgress == Delivered /\ FailureCloses
=============================================================================
