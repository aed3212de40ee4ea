------------------------------- MODULE Vitals -------------------------------
(***************************************************************************)
(* Health, invulnerability, fire and deaths (src/player/player.go,         *)
(* src/server/combat.go, fluid.go, and the health side of absorption.go    *)
(* and modifiers.go; the effect table is module Effects).                  *)
(*                                                                         *)
(* A fighter's numbers are changed by three goroutines: the reader of the  *)
(* player who strikes it, its own reader, and the tick loop.  Each access  *)
(* of player.Player is locked; what a goroutine does between two of them   *)
(* is not, and is a step of its own here.                                  *)
(***************************************************************************)
EXTENDS Integers, FiniteSetsExt

CONSTANTS Fighter,      \* the players whose numbers are followed
          Striker,      \* players who only strike them
          MaxHealth,    \* hit points of a full bar
          InvulnTicks,  \* Combat.InvulnTicks
          BurnInvuln,   \* lavaInvulnTicks, fireInvulnTicks
          Damages,      \* what a blow can take, after armour
          AbsorptionPool,   \* the hearts an Absorption grant fills
          FireTicks,    \* fireFromLavaTicks
          LastFightTick      \* bound on the instance's tick

ASSUME VitalAssumption ==
    /\ MaxHealth \in Nat /\ Damages \subseteq Nat
    /\ \E n \in Damages : \A m \in Damages : n <= m

Ticker == "tick"                    \* the instance's tick goroutine
Thread == Fighter \cup Striker \cup {Ticker}   \* and the readers

VARIABLES fightTick,      \* Instance.Tick
          respawns,  \* "custom", "instant" or "screen": the instance's mode
          hp, gold, down,  \* player.Player: health, absorption, dead
          hurt,      \* lastHurtTick and lastHurtAmount
          fire,      \* fireTicks
          doing,     \* what each goroutine is in the middle of
          awaiting,  \* BedWars' pending: dead players the game brings back
          window     \* (ghost) what the current invulnerability window took

vitalVars == <<fightTick, respawns, hp, gold, down, hurt, fire, doing, awaiting, window>>

AtEase == [at |-> "idle"]
Midway(at, p, n, then) == [at |-> at, on |-> p, n |-> n, then |-> then]
Onward(then, p) == IF then = "idle" THEN AtEase ELSE Midway(then, p, 0, "idle")
Within(t, at) == doing[t].at = at
NoWindow == [taken |-> 0, strongest |-> 0]

VitalInit ==
    /\ fightTick = 0
    /\ respawns \in {"custom", "instant", "screen"}
    /\ hp = [p \in Fighter |-> MaxHealth]
    /\ gold = [p \in Fighter |-> 0]
    /\ down = [p \in Fighter |-> FALSE]
    /\ hurt = [p \in Fighter |-> [at |-> 0, amount |-> 0]]
    /\ fire = [p \in Fighter |-> 0]
    /\ doing = [t \in Thread |-> AtEase]
    /\ awaiting = {}
    /\ window = [p \in Fighter |-> NoWindow]

-----------------------------------------------------------------------------
(* player.Player *)

\* ApplyDamage: what lands, and what the window remembers.
Invulnerable(p, length) == fightTick >= hurt[p].at /\ fightTick - hurt[p].at < length

Landed(p, n, length) ==
    IF down[p] THEN 0
    ELSE IF Invulnerable(p, length) THEN Max({n - hurt[p].amount, 0})
    ELSE n

\* A mutant: the surplus lands, and the window forgets it did.
BugRemembered(p, n, length) ==
    IF Invulnerable(p, length) THEN hurt[p] ELSE [at |-> fightTick, amount |-> n]

Remembered(p, n, length) ==
    [at |-> IF Invulnerable(p, length) THEN hurt[p].at ELSE fightTick, amount |-> n]

\* A blow that lands: absorption first, then health, then death.
Suffer(p, n, length) ==
    LET landed == Landed(p, n, length)
        left == hp[p] - (landed - Min({landed, gold[p]}))
    IN  /\ hurt' = [hurt EXCEPT ![p] = Remembered(p, n, length)]
        /\ gold' = [gold EXCEPT ![p] = @ - Min({landed, gold[p]})]
        /\ hp' = [hp EXCEPT ![p] = Max({left, 0})]
        /\ down' = [down EXCEPT ![p] = left <= 0]
        /\ window' = [window EXCEPT ![p] =
             IF Invulnerable(p, length)
             THEN [taken |-> @.taken + landed, strongest |-> Max({@.strongest, n})]
             ELSE [taken |-> landed, strongest |-> n]]

Lethal(p, n, length) ==
    LET landed == Landed(p, n, length)
    IN  hp[p] <= landed - Min({landed, gold[p]})

\* Player.Respawn
Revive(p) ==
    /\ hp' = [hp EXCEPT ![p] = MaxHealth]
    /\ gold' = [gold EXCEPT ![p] = 0]
    /\ down' = [down EXCEPT ![p] = FALSE]
    /\ hurt' = [hurt EXCEPT ![p] = [at |-> 0, amount |-> 0]]
    /\ window' = [window EXCEPT ![p] = NoWindow]

Proceed(t, task) == doing' = [doing EXCEPT ![t] = task]

\* Goroutine t's ApplyDamage on p: swallowed, survived or lethal.
Strike(t, p, n, length) ==
    /\ IF Landed(p, n, length) = 0
       THEN Proceed(t, AtEase) /\ UNCHANGED <<hp, gold, down, hurt, window>>
       ELSE /\ Suffer(p, n, length)
            /\ Proceed(t, IF Lethal(p, n, length) THEN Midway("clear", p, 0, "bury") ELSE AtEase)
    /\ UNCHANGED <<fightTick, respawns, fire, awaiting>>

-----------------------------------------------------------------------------
(* Melee: the attacker's reader looks at both, then strikes.               *)

Swing(a, v) ==
    /\ Within(a, "idle") /\ a # v /\ ~down[v]
    /\ a \in Fighter => ~down[a]
    /\ Proceed(a, Midway("swing", v, 0, "idle"))
    /\ UNCHANGED <<fightTick, respawns, hp, gold, down, hurt, fire, awaiting, window>>

BlowLands(a) ==
    /\ Within(a, "swing")
    /\ \E n \in Damages : Strike(a, doing[a].on, n, InvulnTicks)

(* Lava and fire: burnTick of a living player, its damage with its own     *)
(* window, and the fire it leaves.                                         *)

BurnLook(p) ==
    /\ Within(Ticker, "idle") /\ ~down[p]
    /\ \E inLava \in BOOLEAN :
         /\ inLava \/ fire[p] > 0
         /\ Proceed(Ticker, Midway("burn", p, IF inLava THEN FireTicks ELSE fire[p] - 1, "idle"))
    /\ UNCHANGED <<fightTick, respawns, hp, gold, down, hurt, fire, awaiting, window>>

\* hurtEnvironment; a death skips the fire this tick would have left.
BurnHurts ==
    /\ Within(Ticker, "burn")
    /\ LET p == doing[Ticker].on
           n == Min(Damages)
       IN  IF Landed(p, n, BurnInvuln) > 0 /\ Lethal(p, n, BurnInvuln)
           THEN Strike(Ticker, p, n, BurnInvuln)
           ELSE /\ IF Landed(p, n, BurnInvuln) > 0 THEN Suffer(p, n, BurnInvuln)
                   ELSE UNCHANGED <<hp, gold, down, hurt, window>>
                /\ Proceed(Ticker, Midway("char", p, doing[Ticker].n, "idle"))
                /\ UNCHANGED <<fightTick, respawns, fire, awaiting>>

BurnOn ==
    /\ Within(Ticker, "char")
    /\ fire' = [fire EXCEPT ![doing[Ticker].on] = doing[Ticker].n]
    /\ Proceed(Ticker, AtEase)
    /\ UNCHANGED <<fightTick, respawns, hp, gold, down, hurt, awaiting, window>>

\* burnTick of a dead player: extinguish.
BurnOut(p) ==
    /\ Within(Ticker, "idle") /\ down[p] /\ fire[p] > 0
    /\ fire' = [fire EXCEPT ![p] = 0]
    /\ UNCHANGED <<fightTick, respawns, hp, gold, down, hurt, doing, awaiting, window>>

(* Die: the void, on the tick goroutine.  The outcome of ApplyDamage is    *)
(* not looked at: whoever was alive a moment ago goes through the death.   *)

FallLook(p) ==
    /\ Within(Ticker, "idle") /\ ~down[p]
    /\ Proceed(Ticker, Midway("fall", p, 0, "idle"))
    /\ UNCHANGED <<fightTick, respawns, hp, gold, down, hurt, fire, awaiting, window>>

Plunge ==
    /\ Within(Ticker, "fall")
    /\ LET p == doing[Ticker].on
       IN  /\ IF Landed(p, 10 * MaxHealth, 0) > 0 THEN Suffer(p, 10 * MaxHealth, 0)
              ELSE UNCHANGED <<hp, gold, down, hurt, window>>
           /\ Proceed(Ticker, Midway("clear", p, 0, "bury"))
    /\ UNCHANGED <<fightTick, respawns, fire, awaiting>>

-----------------------------------------------------------------------------
(* die: extinguish, clearEffects, cancelUse, then by the instance's mode.  *)
(* resetForHub ends with the same clearing.                                *)

DieClears(t) ==
    /\ Within(t, "clear")
    /\ LET p == doing[t].on
           next == doing[t].then
       IN  /\ fire' = [fire EXCEPT ![p] = 0]
           /\ \E golden \in BOOLEAN :
                Proceed(t, IF golden THEN Midway("drain", p, 0, next) ELSE Onward(next, p))
    /\ UNCHANGED <<fightTick, respawns, hp, gold, down, hurt, awaiting, window>>

\* sendEffectsRemoved: the effect's end takes the leftover hearts.
DieDrains(t) ==
    /\ Within(t, "drain")
    /\ gold' = [gold EXCEPT ![doing[t].on] = 0]
    /\ Proceed(t, Onward(doing[t].then, doing[t].on))
    /\ UNCHANGED <<fightTick, respawns, hp, down, hurt, fire, awaiting, window>>

Bury(t) ==
    /\ Within(t, "bury")
    /\ LET p == doing[t].on
       IN  IF respawns = "instant"
           THEN Revive(p) /\ UNCHANGED awaiting
           ELSE /\ awaiting' = IF respawns = "custom" THEN awaiting \cup {p} ELSE awaiting
                /\ UNCHANGED <<hp, gold, down, hurt, window>>
    /\ Proceed(t, AtEase)
    /\ UNCHANGED <<fightTick, respawns, fire>>

\* processRespawns (custom), on the tick goroutine.
GameRespawns(p) ==
    /\ Within(Ticker, "idle") /\ p \in awaiting
    /\ awaiting' = awaiting \ {p}
    /\ Revive(p)
    /\ UNCHANGED <<fightTick, respawns, fire, doing>>

\* SbPlayClientCommand (death screen), on the player's reader.
AskRespawn(p) ==
    /\ Within(p, "idle") /\ down[p] /\ respawns # "custom"
    /\ Proceed(p, Midway("respawn", p, 0, "idle"))
    /\ UNCHANGED <<fightTick, respawns, hp, gold, down, hurt, fire, awaiting, window>>

ScreenRespawns(p) ==
    /\ Within(p, "respawn")
    /\ Revive(p)
    /\ Proceed(p, AtEase)
    /\ UNCHANGED <<fightTick, respawns, fire, awaiting>>

(* resetForHub, on the reader of the player who moves.                     *)

ResetLook(p) ==
    /\ Within(p, "idle")
    /\ Proceed(p, Midway("reset", p, IF down[p] THEN 1 ELSE 0, "idle"))
    /\ UNCHANGED <<fightTick, respawns, hp, gold, down, hurt, fire, awaiting, window>>

ResetHealth(p) ==
    /\ Within(p, "reset")
    /\ IF doing[p].n = 1 THEN Revive(p)
       ELSE hp' = [hp EXCEPT ![p] = MaxHealth] /\ UNCHANGED <<gold, down, hurt, window>>
    /\ Proceed(p, Midway("empty", p, 0, "idle"))
    /\ UNCHANGED <<fightTick, respawns, fire, awaiting>>

ResetPool(p) ==
    /\ Within(p, "empty")
    /\ gold' = [gold EXCEPT ![p] = 0]
    /\ Proceed(p, Midway("clear", p, 0, "idle"))
    /\ UNCHANGED <<fightTick, respawns, hp, down, hurt, fire, awaiting, window>>

-----------------------------------------------------------------------------
(* Healing, on the tick goroutine: natural regeneration (combatTick) and   *)
(* Regeneration (effectsTick) read the health, then set it.                *)

HealLook(p) ==
    /\ Within(Ticker, "idle") /\ ~down[p] /\ hp[p] < MaxHealth
    /\ Proceed(Ticker, Midway("heal", p, hp[p], "idle"))
    /\ UNCHANGED <<fightTick, respawns, hp, gold, down, hurt, fire, awaiting, window>>

Heals ==
    /\ Within(Ticker, "heal")
    /\ hp' = [hp EXCEPT ![doing[Ticker].on] = Min({doing[Ticker].n + 1, MaxHealth})]
    /\ Proceed(Ticker, AtEase)
    /\ UNCHANGED <<fightTick, respawns, gold, down, hurt, fire, awaiting, window>>

\* grantAbsorption, on the tick goroutine (an apple eaten) or the player's
\* reader: it reads the pool, then sets it to the larger.
GoldLook(t, p) ==
    /\ Within(t, "idle") /\ t \in {p, Ticker}
    /\ Proceed(t, Midway("gild", p, Max({AbsorptionPool, gold[p]}), "idle"))
    /\ UNCHANGED <<fightTick, respawns, hp, gold, down, hurt, fire, awaiting, window>>

Golden(t) ==
    /\ Within(t, "gild")
    /\ gold' = [gold EXCEPT ![doing[t].on] = doing[t].n]
    /\ Proceed(t, AtEase)
    /\ UNCHANGED <<fightTick, respawns, hp, down, hurt, fire, awaiting, window>>

\* The sweep: the Absorption that ran out takes its hearts.
Fade(p) ==
    /\ Within(Ticker, "idle") /\ gold[p] > 0
    /\ gold' = [gold EXCEPT ![p] = 0]
    /\ UNCHANGED <<fightTick, respawns, hp, down, hurt, fire, doing, awaiting, window>>

FightTick ==
    /\ fightTick < LastFightTick /\ Within(Ticker, "idle")
    /\ fightTick' = fightTick + 1
    /\ UNCHANGED <<respawns, hp, gold, down, hurt, fire, doing, awaiting, window>>

VitalNext ==
    \/ \E a \in Fighter \cup Striker : BlowLands(a) \/ \E v \in Fighter : Swing(a, v)
    \/ \E p \in Fighter :
         \/ BurnLook(p) \/ BurnOut(p) \/ FallLook(p)
         \/ GameRespawns(p) \/ AskRespawn(p) \/ ScreenRespawns(p)
         \/ ResetLook(p) \/ ResetHealth(p) \/ ResetPool(p)
         \/ HealLook(p) \/ Fade(p)
    \/ \E t \in Thread : DieClears(t) \/ DieDrains(t) \/ Bury(t) \/ Golden(t)
                          \/ \E p \in Fighter : GoldLook(t, p)
    \/ BurnHurts \/ BurnOn \/ Plunge \/ Heals \/ FightTick

VitalSpec == VitalInit /\ [][VitalNext]_vitalVars

-----------------------------------------------------------------------------
VitalTypeOK ==
    /\ fightTick \in 0..LastFightTick
    /\ \A p \in Fighter : hp[p] \in 0..MaxHealth /\ gold[p] >= 0 /\ fire[p] \in 0..FireTicks
    /\ down \in [Fighter -> BOOLEAN]
    /\ awaiting \subseteq Fighter
    /\ DOMAIN doing = Thread

\* However many strike, an invulnerability window takes no more than its
\* strongest single blow (player.go:187-196).
OneBlowPerWindow ==
    \A p \in Fighter : window[p].taken <= window[p].strongest
=============================================================================
