------------------------------ MODULE Effects ------------------------------
(***************************************************************************)
(* Timed effects and what grants and ends them                             *)
(* (src/server/gameplay/effect/effect.go, src/server/modifiers.go,         *)
(* absorption.go, consume.go).                                             *)
(*                                                                         *)
(* The table is locked; an Absorption grant, which fills the player's pool *)
(* of yellow hearts, and an effect's end, which empties it, are not one    *)
(* step with the table's change.  Three goroutines act on a player: its    *)
(* own reader, the reader of whoever kills it, and the tick loop.          *)
(***************************************************************************)
EXTENDS Integers, Sequences, FiniteSetsExt

CONSTANTS Drinker,      \* the players
          Gifts,        \* what games and potions grant: [kind, level, length]
          LastMoment      \* bound on the clock

EffectKind == {"regeneration", "absorption"}
TickHand == "tick"
Doer == Drinker \cup {"killer", TickHand}   \* the goroutines
PoolPerLevel == 1                       \* AbsorptionPerLevel

ASSUME EffectAssumption ==
    Gifts \subseteq [kind : EffectKind, level : Nat, length : Nat \ {0}]

VARIABLES moment,     \* time.Now
          table,    \* Table.players: an effect and the chain hidden under it
          pool,     \* player.Player's absorption
          using,    \* a golden apple is being eaten
          apples,   \* apples in the hand
          busy,     \* what each goroutine is in the middle of
          granted   \* (ghost) the unexpired grants since the last removal

effectVars == <<moment, table, pool, using, apples, busy, granted>>

Unbusy == [at |-> "idle"]
Busy(at, p, n, then) == [at |-> at, on |-> p, n |-> n, then |-> then]
GoOn(then, p) == IF then = "idle" THEN Unbusy ELSE Busy(then, p, 0, "idle")
Holds(t, at) == busy[t].at = at
Turn(t, task) == busy' = [busy EXCEPT ![t] = task]

EffectInit ==
    /\ moment = 0
    /\ table = [p \in Drinker |-> [e \in EffectKind |-> <<>>]]
    /\ pool = [p \in Drinker |-> 0]
    /\ using = [p \in Drinker |-> FALSE]
    /\ apples = [p \in Drinker |-> 1]
    /\ busy = [t \in Doer |-> Unbusy]
    /\ granted = [p \in Drinker |-> [e \in EffectKind |-> {}]]

-----------------------------------------------------------------------------
(* The effect table.  An entry is the chain of one timed effect: its head  *)
(* and, under it, weaker effects that outlast it.                          *)

\* timed.live: the chain from its first unexpired effect on.
LiveChain(chain) ==
    LET alive == {i \in DOMAIN chain : moment < chain[i].ends}
    IN  IF alive = {} THEN <<>> ELSE SubSeq(chain, Min(alive), Len(chain))

\* Table.Level: 0 when there is none.
LevelOf(p, e) ==
    LET chain == LiveChain(table[p][e])
    IN  IF chain = <<>> THEN 0 ELSE chain[1].level

\* A mutant: the weaker effect a stronger one takes over from is lost.
BugMerge(chain, g) ==
    IF chain = <<>> \/ g.level > chain[1].level THEN <<g>>
    ELSE IF g.ends <= chain[1].ends THEN chain
    ELSE IF g.level = chain[1].level THEN [chain EXCEPT ![1].ends = g.ends]
    ELSE chain

\* timed.update: a weaker grant that outlasts an effect goes to what is
\* hidden under it; the first effect it does not pass decides.
Merge(chain, g) ==
    LET passes(i) == g.level < chain[i].level /\ g.ends > chain[i].ends
        k == Min({i \in 1..Len(chain) + 1 : i > Len(chain) \/ ~passes(i)})
        above == SubSeq(chain, 1, k - 1)
        below(i) == SubSeq(chain, i, Len(chain))
    IN  IF k > Len(chain) THEN Append(chain, g)
        ELSE IF g.level > chain[k].level
        THEN above \o <<g>> \o below(IF g.ends < chain[k].ends THEN k ELSE k + 1)
        ELSE IF g.ends <= chain[k].ends THEN chain
        ELSE [chain EXCEPT ![k].ends = g.ends]

\* Table.Apply of [kind, level, length] to p.
Applied(p, gift) ==
    Merge(LiveChain(table[p][gift.kind]),
          [level |-> gift.level, ends |-> moment + gift.length])

\* AbsorptionPool
PoolOf(level, current) == Max({PoolPerLevel * level, current})

\* applyEffect by goroutine t: the table, then grantAbsorption's read of the
\* pool, then its write.
GiveEffect(t, p, gift, next) ==
    /\ table' = [table EXCEPT ![p][gift.kind] = Applied(p, gift)]
    /\ granted' = [granted EXCEPT ![p][gift.kind] =
                     @ \cup {[level |-> gift.level, ends |-> moment + gift.length]}]
    /\ Turn(t, IF gift.kind = "absorption"
               THEN Busy("gild", p, Applied(p, gift)[1].level, next)
               ELSE GoOn(next, p))
    /\ UNCHANGED <<moment, pool, using, apples>>

GildLook(t) ==
    /\ Holds(t, "gild")
    /\ LET p == busy[t].on
       IN  Turn(t, Busy("gilded", p, PoolOf(busy[t].n, pool[p]), busy[t].then))
    /\ UNCHANGED <<moment, table, pool, using, apples, granted>>

Gild(t) ==
    /\ Holds(t, "gilded")
    /\ pool' = [pool EXCEPT ![busy[t].on] = busy[t].n]
    /\ Turn(t, GoOn(busy[t].then, busy[t].on))
    /\ UNCHANGED <<moment, table, using, apples, granted>>

\* A game or a command grants an effect on the player's reader.
Gift(p) ==
    /\ Holds(p, "idle")
    /\ \E gift \in Gifts : GiveEffect(p, p, gift, "idle")

\* clearEffects and cancelUse: a death, on the killer's reader, or a move to
\* the hub, on the player's own.
ClearEffects(t, p) ==
    /\ Holds(t, "idle") /\ t \in {p, "killer"}
    /\ table' = [table EXCEPT ![p] = [e \in EffectKind |-> <<>>]]
    /\ granted' = [granted EXCEPT ![p] = [e \in EffectKind |-> {}]]
    /\ using' = [using EXCEPT ![p] = FALSE]
    /\ Turn(t, IF table[p]["absorption"] # <<>> THEN Busy("drain", {p}, 0, "idle") ELSE Unbusy)
    /\ UNCHANGED <<moment, pool, apples>>

\* Table.Remove of one kind (RemoveEffect).
RemoveEffect(p, e) ==
    /\ Holds(p, "idle") /\ table[p][e] # <<>>
    /\ table' = [table EXCEPT ![p][e] = <<>>]
    /\ granted' = [granted EXCEPT ![p][e] = {}]
    /\ Turn(p, IF e = "absorption" THEN Busy("drain", {p}, 0, "idle") ELSE Unbusy)
    /\ UNCHANGED <<moment, pool, using, apples>>

\* effectTable.sweep: an expired effect goes or falls back to the one hidden
\* under it; whose Absorption ended loses the hearts.
Sweep ==
    /\ Holds(TickHand, "idle")
    /\ \E p \in Drinker, e \in EffectKind : LiveChain(table[p][e]) # table[p][e]
    /\ table' = [p \in Drinker |-> [e \in EffectKind |-> LiveChain(table[p][e])]]
    /\ LET ended == {p \in Drinker : /\ table[p]["absorption"] # <<>>
                                     /\ LiveChain(table[p]["absorption"]) = <<>>}
       IN  Turn(TickHand, IF ended = {} THEN Unbusy ELSE Busy("drain", ended, 0, "idle"))
    /\ UNCHANGED <<moment, pool, using, apples, granted>>

\* sendEffectsRemoved: the effect's end takes the leftover hearts.
DrainPool(t) ==
    /\ Holds(t, "drain")
    /\ \E p \in busy[t].on :
         /\ pool' = [pool EXCEPT ![p] = 0]
         /\ LET left == busy[t].on \ {p}
            IN  Turn(t, IF left = {} THEN Unbusy ELSE Busy("drain", left, 0, "idle"))
    /\ UNCHANGED <<moment, table, using, apples, granted>>

(* Golden apples: the reader starts and drops a use, consumeTick ends it.  *)

StartUse(p) ==
    /\ Holds(p, "idle") /\ apples[p] > 0 /\ ~using[p]
    /\ using' = [using EXCEPT ![p] = TRUE]
    /\ UNCHANGED <<moment, table, pool, apples, busy, granted>>

ReleaseUse(p) ==
    /\ Holds(p, "idle") /\ using[p]
    /\ using' = [using EXCEPT ![p] = FALSE]
    /\ UNCHANGED <<moment, table, pool, apples, busy, granted>>

\* The stack is clicked or thrown away while it is being eaten.
LoseApple(p) ==
    /\ Holds(p, "idle") /\ apples[p] > 0
    /\ apples' = [apples EXCEPT ![p] = @ - 1]
    /\ UNCHANGED <<moment, table, pool, using, busy, granted>>

\* consumeTick: the use is over; without the stack in hand it is dropped.
EatLook(p) ==
    /\ Holds(TickHand, "idle") /\ using[p]
    /\ using' = [using EXCEPT ![p] = FALSE]
    /\ Turn(TickHand, IF apples[p] > 0 THEN Busy("eat", p, 0, "idle") ELSE Unbusy)
    /\ UNCHANGED <<moment, table, pool, apples, granted>>

\* finishConsume: Regeneration II, then Absorption I, then consumeHeld.
EatHeals ==
    /\ Holds(TickHand, "eat")
    /\ GiveEffect(TickHand, busy[TickHand].on,
                  [kind |-> "regeneration", level |-> 2, length |-> 1], "eaten")

EatGilds ==
    /\ Holds(TickHand, "eaten")
    /\ GiveEffect(TickHand, busy[TickHand].on,
                  [kind |-> "absorption", level |-> 1, length |-> 2], "spend")

Spend ==
    /\ Holds(TickHand, "spend")
    /\ apples' = [apples EXCEPT ![busy[TickHand].on] = Max({@ - 1, 0})]
    /\ Turn(TickHand, Unbusy)
    /\ UNCHANGED <<moment, table, pool, using, granted>>

\* Time passes, between any two steps.
Moment ==
    /\ moment < LastMoment
    /\ moment' = moment + 1
    /\ granted' = [p \in Drinker |-> [e \in EffectKind |->
                     {g \in granted[p][e] : moment' < g.ends}]]
    /\ UNCHANGED <<table, pool, using, apples, busy>>

EffectNext ==
    \/ \E p \in Drinker : Gift(p) \/ StartUse(p) \/ ReleaseUse(p) \/ LoseApple(p)
                             \/ EatLook(p)
    \/ \E p \in Drinker, e \in EffectKind : RemoveEffect(p, e)
    \/ \E t \in Doer : GildLook(t) \/ Gild(t) \/ DrainPool(t)
                        \/ \E p \in Drinker : ClearEffects(t, p)
    \/ Sweep \/ EatHeals \/ EatGilds \/ Spend \/ Moment

EffectSpec == EffectInit /\ [][EffectNext]_effectVars

-----------------------------------------------------------------------------
EffectTypeOK ==
    /\ moment \in 0..LastMoment
    /\ \A p \in Drinker : pool[p] >= 0 /\ apples[p] \in 0..1
    /\ using \in [Drinker -> BOOLEAN]
    /\ DOMAIN busy = Doer

\* The effect in force is the strongest of those granted and not yet run
\* out, whatever was granted, in which order, over what, and whenever the
\* sweep came by (effect.go:149-155: "a lower level never weakens or
\* shortens a stronger one but waits hidden under it").
StrongestInForce ==
    \A p \in Drinker, e \in EffectKind :
        LevelOf(p, e) = Max({0} \cup {g.level : g \in granted[p][e]})
=============================================================================
