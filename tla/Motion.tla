------------------------------- MODULE Motion -------------------------------
(***************************************************************************)
(* What the anticheat makes of a player's movement packets.                *)
(*                                                                         *)
(* First the movement checks and the pushes the server gives a player      *)
(* (src/anticheat/velocity.go, motion.go, knock.go; src/server/anticheat.go *)
(* giveVelocity, movement.go checkMotion, actions.go pushApplied).  An     *)
(* honest client walks, jumps and is pushed along a line; heights and      *)
(* distances are in hundredths of a block, speeds per move.  One goroutine *)
(* deals the pushes, the player's reader judges the moves, the wire keeps  *)
(* the order of each direction.  No walls, fluids, ice or effects: those   *)
(* only widen the limits.  The hover check needs more moves than a run has.*)
(*                                                                         *)
(* Then how fast they may come: the balance of the packets against real    *)
(* time (src/anticheat/timer.go) and the token bucket of everything the    *)
(* client does (validate.go, RateLimiter), in client ticks of 50 ms.  The  *)
(* network holds packets back and lets them through at once.               *)
(***************************************************************************)
EXTENDS Integers, Sequences, FiniteSetsExt

CONSTANTS Shoves,       \* the pushes that may be dealt: [h, up]
          Walks,        \* what a client walks in a tick (a velocity packet takes its own speed
                        \* away, so that it has none against the push)
          MaxShoves, MaxTicks    \* bounds

MaxHorizontal == 75     \* maxHorizontal
FlyMargin == 20         \* flyMargin
LaunchSpeed == 42         \* JumpVelocity(0)
SpeedBufferMax == 30
KnockMoves == 5
KnockMinH == 20

VARIABLES puppet,         \* the client: [x, y, up, rides]: where, how fast it rises, its pushes
          dealing,      \* the push in the hands of the goroutine that deals it, and how far
          impulses,     \* Velocity.list
          judged,       \* MoveState: [x, y, groundY, buffer, knock]
          toBody, toJudge,      \* the wire in either direction
          ticksPlayed, dealt,   \* bounds
          verdict       \* "clean" until a move is flagged: "early" when it rode a push
                      \* that was not on the list yet, "wronged" otherwise

motionVars == <<puppet, dealing, impulses, judged, toBody, toJudge, ticksPlayed, dealt, verdict>>

NoKnock == [active |-> FALSE, h |-> 0, start |-> 0, moves |-> 0, best |-> 0]
NotDealing == [at |-> "idle", push |-> [id |-> 0, h |-> 0, up |-> 0]]

MotionInit ==
    /\ puppet = [x |-> 0, y |-> 0, up |-> 0, rides |-> <<>>]
    /\ dealing = NotDealing
    /\ impulses = <<>>
    /\ judged = [x |-> 0, y |-> 0, groundY |-> 0, buffer |-> 0, knock |-> NoKnock]
    /\ toBody = <<>> /\ toJudge = <<>>
    /\ ticksPlayed = 0 /\ dealt = 0 /\ verdict = "clean"

\* What is left of a horizontal push after some moves (AirDrag), in the air.
DragLeft[n \in Nat] == IF n = 0 THEN 10000 ELSE (DragLeft[n - 1] * 91) \div 100
ShareOf(h, moves) == (h * DragLeft[moves]) \div 10000

\* Gravity, and how high a body launched at v rises (Apex).
AfterGravity(v) == ((v - 8) * 98) \div 100
Apex[v \in Int] == IF v <= 0 THEN 0 ELSE v + Apex[AfterGravity(v)]

SumOver(s, Value(_)) == FoldSet(LAMBDA i, acc : acc + Value(s[i]), 0, DOMAIN s)

-----------------------------------------------------------------------------
(* Dealing a push: the velocity packet, the budget, the Ping.              *)

DealPush ==
    /\ dealing.at = "idle" /\ dealt < MaxShoves
    /\ \E s \in Shoves :
          LET push == [id |-> dealt + 1, h |-> s.h, up |-> s.up]
          IN  /\ toBody' = Append(toBody, [kind |-> "velocity", push |-> push])
              /\ dealing' = [at |-> "add", push |-> push]
    /\ dealt' = dealt + 1
    /\ UNCHANGED <<puppet, impulses, judged, toJudge, ticksPlayed, verdict>>

\* A mutant: the push is taken for applied at once.
BugImpulse(push) == [push |-> push, confirmed |-> TRUE, moves |-> 0, landed |-> FALSE]

\* Velocity.Add.
Impulse(push) == [push |-> push, confirmed |-> FALSE, moves |-> 0, landed |-> FALSE]

AddImpulse ==
    /\ dealing.at = "add"
    /\ impulses' = Append(impulses, Impulse(dealing.push))
    /\ dealing' = [dealing EXCEPT !.at = "ping"]
    /\ UNCHANGED <<puppet, judged, toBody, toJudge, ticksPlayed, dealt, verdict>>

PingAfterPush ==
    /\ dealing.at = "ping"
    /\ toBody' = Append(toBody, [kind |-> "ping", push |-> dealing.push])
    /\ dealing' = NotDealing
    /\ UNCHANGED <<puppet, impulses, judged, toJudge, ticksPlayed, dealt, verdict>>

-----------------------------------------------------------------------------
(* The client.                                                             *)

\* A velocity packet sets how fast it rises and starts a ride along the push.
BodyTakes ==
    LET m == Head(toBody)
    IN  /\ toBody # <<>>
        /\ toBody' = Tail(toBody)
        /\ \/ /\ m.kind = "velocity"
              /\ puppet' = [puppet EXCEPT !.up = m.push.up,
                                      !.rides = Append(@, [push |-> m.push, age |-> 0])]
              /\ UNCHANGED toJudge
           \/ /\ m.kind = "ping"
              /\ toJudge' = Append(toJudge, [kind |-> "pong", push |-> m.push])
              /\ UNCHANGED puppet
        /\ UNCHANGED <<dealing, impulses, judged, ticksPlayed, dealt, verdict>>

\* A client tick: it may jump from the ground, and moves.
BodyMoves ==
    /\ ticksPlayed < MaxTicks
    /\ ticksPlayed' = ticksPlayed + 1
    /\ \E walk \in Walks, jump \in BOOLEAN :
          LET rise == IF jump THEN LaunchSpeed ELSE puppet.up
              y == Max({0, puppet.y + rise})
              x == puppet.x + walk + SumOver(puppet.rides, LAMBDA r : ShareOf(r.push.h, r.age))
          IN  /\ jump => puppet.y = 0 /\ puppet.up <= 0
              /\ puppet' = [x |-> x, y |-> y, up |-> IF y = 0 THEN 0 ELSE AfterGravity(rise),
                          rides |-> [i \in DOMAIN puppet.rides |->
                                        [puppet.rides[i] EXCEPT !.age = @ + 1]]]
              /\ toJudge' = Append(toJudge, [kind |-> "move", x |-> x, y |-> y,
                                             rode |-> {puppet.rides[i].push.id :
                                                           i \in DOMAIN puppet.rides}])
    /\ UNCHANGED <<dealing, impulses, judged, toBody, dealt, verdict>>

-----------------------------------------------------------------------------
(* The reader.                                                             *)

\* Velocity.Confirm; pushApplied follows a push that is large enough.
TakeApplied ==
    LET push == Head(toJudge).push
    IN  /\ toJudge # <<>> /\ Head(toJudge).kind = "pong"
        /\ toJudge' = Tail(toJudge)
        /\ impulses' = [i \in DOMAIN impulses |->
                            IF impulses[i].push = push
                            THEN [impulses[i] EXCEPT !.confirmed = TRUE] ELSE impulses[i]]
        /\ judged' = IF push.h < KnockMinH THEN judged
                     ELSE [judged EXCEPT !.knock = [active |-> TRUE, h |-> push.h,
                                                    start |-> judged.x, moves |-> 0, best |-> 0]]
        /\ UNCHANGED <<puppet, dealing, toBody, ticksPlayed, dealt, verdict>>

\* Velocity.Allowance: a push counts in full until it is confirmed.
PushH == SumOver(impulses, LAMBDA im : IF im.confirmed THEN ShareOf(im.push.h, im.moves)
                                     ELSE im.push.h)
PushUp == SumOver(impulses, LAMBDA im : IF im.landed THEN 0 ELSE im.push.up)

Advanced(im, onGround) ==
    LET moves == im.moves + 1
    IN  [im EXCEPT !.moves = moves, !.landed = im.landed \/ (onGround /\ moves > 1)]

\* Velocity.Moved: confirmed pushes age; a landed one is dropped when spent.
Aged(list, onGround) ==
    LET after == [i \in DOMAIN list |-> IF list[i].confirmed THEN Advanced(list[i], onGround)
                                        ELSE list[i]]
    IN  SelectSeq(after, LAMBDA im : ~(im.landed /\ ShareOf(im.push.h, im.moves) < 1))

\* KnockCheck.Follow.
Followed(k, x) ==
    IF ~k.active THEN k
    ELSE [k EXCEPT !.moves = @ + 1, !.best = Max({@, x - k.start}),
                   !.active = k.moves + 1 < KnockMoves]
Resisted(k) == k.moves = KnockMoves /\ ~k.active /\ k.best * 10 < 3 * k.h

\* checkMotion, MoveState.Judge.  A refused move ends the run: what
\* follows is a setback (Anticheat).
JudgeMotion ==
    LET m == Head(toJudge)
        onGround == m.y = 0
        excess == Max({m.x - judged.x, judged.x - m.x}) - (MaxHorizontal + PushH)
        buffer == IF excess > 0 THEN judged.buffer + excess ELSE Max({0, judged.buffer - 5})
        tooFast == buffer > SpeedBufferMax
        tooHigh == ~tooFast /\ ~onGround
                     /\ m.y - judged.groundY > Apex[LaunchSpeed] + Apex[PushUp] + FlyMargin
        knock == Followed(judged.knock, m.x)
        flagged == tooFast \/ tooHigh \/ (judged.knock.active /\ Resisted(knock))
        moved == [judged EXCEPT !.x = m.x, !.y = m.y]
    IN  /\ toJudge # <<>> /\ m.kind = "move" /\ verdict = "clean"
        /\ toJudge' = Tail(toJudge)
        /\ impulses' = Aged(impulses, onGround)
        /\ judged' = [(IF tooFast \/ tooHigh THEN judged ELSE moved)
                          EXCEPT !.buffer = IF tooFast THEN 0 ELSE buffer,
                                 !.knock = knock,
                                 !.groundY = IF onGround /\ ~tooFast THEN m.y ELSE @]
        /\ verdict' = IF ~flagged THEN verdict
                      ELSE IF \A id \in m.rode : \E i \in DOMAIN impulses : impulses[i].push.id = id
                      THEN "wronged" ELSE "early"
        /\ UNCHANGED <<puppet, dealing, toBody, ticksPlayed, dealt>>

MotionNext ==
    DealPush \/ AddImpulse \/ PingAfterPush \/ BodyTakes \/ BodyMoves \/ TakeApplied \/ JudgeMotion

MotionSpec == MotionInit /\ [][MotionNext]_motionVars

-----------------------------------------------------------------------------
MotionTypeOK ==
    /\ dealing.at \in {"idle", "add", "ping"}
    /\ judged.buffer \in 0..SpeedBufferMax
    /\ judged.knock.moves \in 0..KnockMoves
    /\ \A i \in DOMAIN impulses : impulses[i].moves \in 0..MaxTicks
    /\ verdict \in {"clean", "early", "wronged"}

\* velocity.go: "A move that a vanilla client could only make with that push must not
\* be flagged."  However late its packets and its answers are, an honest client is
\* flagged for no move whose pushes are all on the list: not for its speed, not for
\* its height, not for resisting the push.
PushesAllowFor == verdict # "wronged"

-----------------------------------------------------------------------------
(* The pace of the packets.                                                *)

CONSTANTS TimerTolerance, TimerMaxBank,      \* in ticks
          Burst,            \* of the token bucket; it refills by one a tick
          PerTick,          \* movement packets the client makes in a tick at most
          MaxLag,           \* how long the network holds a packet at most
          LastPace          \* bound on the time

ASSUME PaceAssumption == TimerTolerance \in Nat /\ TimerMaxBank \in Nat /\ Burst \in Nat \ {0}

VARIABLES instant,      \* the time
          held,         \* when each packet the network holds was made
          played,       \* packets the client made in this tick
          timer,        \* Timer: [started, last, balance]
          bucket,       \* RateLimiter: [started, last, tokens]
          arrivals,     \* when packets arrived, since the timer last started over
          spent,        \* when the bucket let a packet pass
          ahead         \* the client was flagged for its timer

paceVars == <<instant, held, played, timer, bucket, arrivals, spent, ahead>>

PaceInit ==
    /\ instant = 0 /\ held = <<>> /\ played = 0
    /\ timer = [started |-> FALSE, last |-> 0, balance |-> 0]
    /\ bucket = [started |-> FALSE, last |-> 0, tokens |-> 0]
    /\ arrivals = <<>> /\ spent = <<>> /\ ahead = FALSE

ClientPlays ==
    /\ played < PerTick
    /\ played' = played + 1
    /\ held' = Append(held, instant)
    /\ UNCHANGED <<instant, timer, bucket, arrivals, spent, ahead>>

\* No packet is held for longer than MaxLag.
PaceTick ==
    /\ instant < LastPace
    /\ held # <<>> => instant - held[1] < MaxLag
    /\ instant' = instant + 1
    /\ played' = 0
    /\ UNCHANGED <<held, timer, bucket, arrivals, spent, ahead>>

\* A mutant: time in the bank is not capped.
BugBanked(balance) == balance

\* An idle client's bank is capped.
Banked(balance) == Max({balance, -TimerMaxBank})

\* Timer.Move: a flag starts the balance over.
Balanced(t, now) ==
    LET b == Banked(t.balance + 1 - (now - t.last))
    IN  IF ~t.started THEN [started |-> TRUE, last |-> now, balance |-> 0]
        ELSE [started |-> TRUE, last |-> now, balance |-> IF b > TimerTolerance THEN 0 ELSE b]

Flags(t, now) == t.started /\ Banked(t.balance + 1 - (now - t.last)) > TimerTolerance

Refilled(tokens) == Min({Burst, tokens})

\* RateLimiter.Allow: the tokens there are at now.
TokensAt(b, now) == IF b.started THEN Refilled(b.tokens + now - b.last) ELSE Burst

\* allowPacket, countMove: the oldest packet held arrives.
PacketArrives ==
    LET tokens == TokensAt(bucket, instant)
    IN  /\ held # <<>>
        /\ held' = Tail(held)
        /\ bucket' = [started |-> TRUE, last |-> instant,
                      tokens |-> IF tokens < 1 THEN tokens ELSE tokens - 1]
        /\ IF tokens < 1 THEN UNCHANGED <<timer, arrivals, spent, ahead>>
           ELSE /\ timer' = Balanced(timer, instant)
                /\ ahead' = (ahead \/ Flags(timer, instant))
                /\ arrivals' = IF Flags(timer, instant) THEN <<instant>>
                               ELSE Append(arrivals, instant)
                /\ spent' = Append(spent, instant)
        /\ UNCHANGED <<instant, played>>

PaceNext == ClientPlays \/ PaceTick \/ PacketArrives

PaceSpec == PaceInit /\ [][PaceNext]_paceVars

-----------------------------------------------------------------------------
PaceTypeOK ==
    /\ timer.balance \in -TimerMaxBank..TimerTolerance
    /\ bucket.tokens \in 0..Burst
    /\ Len(arrivals) <= PerTick * (LastPace + 1)

\* From the i-th arrival to the last: the game time of the packets in between less
\* the real time.
Excess(i) == Len(arrivals) - i - (arrivals[Len(arrivals)] - arrivals[i])

\* The balance, one number, stands for every stretch of arrivals: it is the most the
\* client is ahead of real time on any stretch since the last flag, an idle time
\* before the stretch counting for at most TimerMaxBank; and the bucket lets no more
\* than Burst packets and one a tick through on any stretch.
WorstStretch ==
    /\ arrivals # <<>> =>
           timer.balance = Max({Excess(1)} \cup {Excess(i) - TimerMaxBank : i \in DOMAIN arrivals})
    /\ \A i, j \in DOMAIN spent :
           i <= j => j - i + 1 <= Burst + spent[j] - spent[i]

\* timer.go: "A lag spike delays packets and then delivers them at once: the balance
\* dips first and the burst only brings it back."  A client that makes no more than
\* one packet a tick is not flagged, however the network bunches them up.
SpikeForgiven == ~ahead
=============================================================================
