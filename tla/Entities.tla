------------------------------ MODULE Entities ------------------------------
(***************************************************************************)
(* Dropped items, primed TNT and projectiles of an instance, and what the  *)
(* clients see of them (src/server/item_entity.go, tnt.go, projectile.go,  *)
(* arrow.go and world_entities.go).                                        *)
(*                                                                         *)
(* Each kind has a list under a lock of its own.  An item is listed under  *)
(* the lock and shown after it; TNT and projectiles are shown under it.    *)
(* The tick removes items and TNT under the lock and tells the clients     *)
(* afterwards.  A joining client is listed, then sent what each list held. *)
(* A broadcast reaches every listed client at once; an item's spawn is     *)
(* sent before its pickup delay is over.                                   *)
(***************************************************************************)
EXTENDS Integers, Sequences, FiniteSetsExt, Functions

CONSTANTS Watcher,      \* clients
          Dropper,     \* goroutines that drop items
          StackMax,    \* inventory.MaxStackFor
          MaxSpawns,   \* bound on entities spawned
          MaxUnits     \* bound on units dropped

ASSUME EntitiesAssumption == {StackMax, MaxSpawns, MaxUnits} \subseteq Nat

Eid == 1..MaxSpawns
EntityThread == Dropper \cup {"tick"} \cup Watcher

VARIABLES items,     \* Instance.items: entity id -> units
          tnts,      \* Instance.tnts
          flights,   \* Instance.projectiles: entity id -> "flying" or "stuck"
          lastEid,   \* Server.nextEntityID
          listed,    \* clients in Instance.Players
          shown,     \* per client, entity id -> the units it displays
          born,      \* entity id -> the clients in when it spawned, and since
          outbox,    \* per goroutine, packets built and not sent yet
          joining,   \* per client, the lists it is still to be sent
          units      \* units dropped, taken by players, and gone for good

entityVars == <<items, tnts, flights, lastEid, listed, shown, born, outbox,
                joining, units>>

NoUnits == [e \in {} |-> 0]
Without(f, es) == Restrict(f, DOMAIN f \ es)
Given(f, es, n) == [d \in DOMAIN f \cup es |-> IF d \in es THEN n ELSE f[d]]
With(f, e, n) == Given(f, {e}, n)
Total(f) == SumFunction(f)

EntitiesInit ==
    /\ items = NoUnits /\ tnts = {} /\ flights = NoUnits
    /\ lastEid = 0
    /\ listed = {}
    /\ shown = [v \in Watcher |-> NoUnits]
    /\ born = [e \in Eid |-> {}]
    /\ outbox = [t \in EntityThread |-> <<>>]
    /\ joining = [v \in Watcher |-> <<>>]
    /\ units = [dropped |-> 0, taken |-> 0, gone |-> 0]

-----------------------------------------------------------------------------
(* Packets *)

SpawnPacket(e, n) == [kind |-> "spawn", eids |-> {e}, count |-> n]
Meta(e, n) == [kind |-> "meta", eids |-> {e}, count |-> n]
Removal(es) == [kind |-> "remove", eids |-> es, count |-> 0]
RemovalOf(es) == IF es = {} THEN <<>> ELSE <<Removal(es)>>

\* What a client displays once packet p has reached it.
Display(f, p) ==
    CASE p.kind = "spawn" -> Given(f, p.eids, p.count)
      [] p.kind = "meta" -> Given(f, p.eids \cap DOMAIN f, p.count)
      [] OTHER -> Without(f, p.eids)

ShownTo(vs, p) == [v \in Watcher |-> IF v \in vs THEN Display(shown[v], p) ELSE shown[v]]

\* A goroutine sends the next packet it built: to a joining client alone, or
\* to everyone listed.
Send(t) ==
    /\ outbox[t] # <<>>
    /\ shown' = ShownTo(IF t \in Watcher THEN {t} ELSE listed, Head(outbox[t]))
    /\ outbox' = [outbox EXCEPT ![t] = Tail(@)]
    /\ UNCHANGED <<items, tnts, flights, lastEid, listed, born, joining, units>>

NewEid ==
    /\ lastEid < MaxSpawns
    /\ lastEid' = lastEid + 1
    /\ born' = [born EXCEPT ![lastEid'] =
                  {v \in listed : joining[v] = <<>> /\ outbox[v] = <<>>}]

-----------------------------------------------------------------------------
(* Dropped items *)

\* Entity.CanMerge, the kind and the distance being right.
CanMerge(e, n) == items[e] + n <= StackMax

\* A mutant: the pile takes the count of the new drop.
BugTopUp(e, n) == With(items, e, n)

\* The pile that absorbs the drop.
TopUp(e, n) == With(items, e, items[e] + n)

\* spawnStack: a drop (not a throw) close to a pile it fits joins it.
DropItem(t, n) ==
    /\ outbox[t] = <<>> /\ units.dropped + n <= MaxUnits
    /\ \/ \E e \in DOMAIN items :
            /\ CanMerge(e, n)
            /\ items' = TopUp(e, n)
            /\ outbox' = [outbox EXCEPT ![t] = <<Meta(e, items'[e])>>]
            /\ UNCHANGED <<lastEid, born>>
       \/ /\ NewEid
          /\ items' = With(items, lastEid', n)
          /\ outbox' = [outbox EXCEPT ![t] = <<SpawnPacket(lastEid', n)>>]
    /\ units' = [units EXCEPT !.dropped = @ + n]
    /\ UNCHANGED <<tnts, flights, listed, shown, joining>>

\* An item whose spawn is still to be sent is younger than its pickup delay.
Ripe(e) == \A t \in Dropper : outbox[t] = <<>> \/ e \notin Head(outbox[t]).eids

\* stepItems: some items fall out of the world or expire, one is taken by a
\* player standing there, in part when the inventory is full; the packets go
\* out after the unlock.
ItemTick ==
    /\ outbox["tick"] = <<>>
    /\ \E out \in SUBSET {e \in DOMAIN items : Ripe(e)} :
       \E taken \in [{e \in DOMAIN items \ out : Ripe(e)} -> 0..StackMax] :
         /\ \A e \in DOMAIN taken : taken[e] <= items[e]
         /\ Cardinality({e \in DOMAIN taken : taken[e] > 0}) + Cardinality(out) = 1
         /\ LET left == [e \in DOMAIN items |-> IF e \in DOMAIN taken THEN items[e] - taken[e]
                                                ELSE items[e]]
                lost == out \cup {e \in DOMAIN items : left[e] = 0}
                part == {e \in DOMAIN taken : taken[e] > 0 /\ left[e] > 0}
            IN  /\ items' = Without(left, lost)
                /\ outbox' = [outbox EXCEPT !["tick"] =
                     FoldSet(LAMBDA e, q : Append(q, Meta(e, left[e])), <<>>, part) \o RemovalOf(lost)]
                /\ units' = [dropped |-> units.dropped, taken |-> units.taken + Total(taken),
                              gone |-> units.gone + Total(Restrict(items, out))]
    /\ UNCHANGED <<tnts, flights, lastEid, listed, shown, born, joining>>

-----------------------------------------------------------------------------
(* Primed TNT and projectiles *)

\* The spawn is broadcast under the lock.
ShowNew(t, e) ==
    shown' = ShownTo(listed, SpawnPacket(e, 0)) /\ UNCHANGED outbox

\* primeTNT
PrimeEntity(t) ==
    /\ outbox[t] = <<>>
    /\ NewEid
    /\ tnts' = tnts \cup {lastEid'}
    /\ ShowNew(t, lastEid')
    /\ UNCHANGED <<items, flights, listed, joining, units>>

\* stepTNT: what has exploded or left the world is removed; told afterwards.
TntTick ==
    /\ outbox["tick"] = <<>>
    /\ \E out \in SUBSET tnts \ {{}} :
         /\ tnts' = tnts \ out
         /\ outbox' = [outbox EXCEPT !["tick"] = RemovalOf(out)]
    /\ UNCHANGED <<items, flights, lastEid, listed, shown, born, joining, units>>

\* addProjectile, for a throw, an arrow loosed or a game's launch.
Launch(t) ==
    /\ outbox[t] = <<>>
    /\ NewEid
    /\ flights' = With(flights, lastEid', 1)
    /\ ShowNew(t, lastEid')
    /\ UNCHANGED <<items, tnts, listed, joining, units>>

\* stepProjectiles: an arrow sticks in a block; a flight that lands, hits or
\* expires, and a stuck arrow picked up or out of time, is removed and told
\* under the lock.  0 stands for a stuck arrow.
FlightTick ==
    /\ outbox["tick"] = <<>>
    /\ \E e \in DOMAIN flights :
         \/ flights[e] = 1 /\ flights' = With(flights, e, 0) /\ UNCHANGED shown
         \/ flights' = Without(flights, {e}) /\ shown' = ShownTo(listed, Removal({e}))
    /\ UNCHANGED <<items, tnts, lastEid, listed, born, outbox, joining, units>>

-----------------------------------------------------------------------------
(* Clients: moveLocked and the login send the entities, then list the       *)
(* client; a respawn and a resync send them to a listed one.                *)

Lists == <<"items", "tnts", "flights">>

\* The client forgets every entity (Respawn, or a new login).
ForgetAll(v) ==
    /\ outbox[v] = <<>> /\ joining[v] = <<>>
    /\ shown' = [shown EXCEPT ![v] = NoUnits]
    /\ born' = [e \in Eid |-> born[e] \ {v}]

Join(v) ==
    /\ v \notin listed
    /\ ForgetAll(v)
    /\ joining' = [joining EXCEPT ![v] = Lists \o <<"list">>]
    /\ UNCHANGED <<items, tnts, flights, lastEid, listed, outbox, units>>

Resync(v) ==
    /\ v \in listed
    /\ ForgetAll(v)
    /\ joining' = [joining EXCEPT ![v] = Lists]
    /\ UNCHANGED <<items, tnts, flights, lastEid, listed, outbox, units>>

\* sendItemEntities, sendTNTEntities, sendProjectiles: a list is copied under
\* its lock and sent after it; then Players gets the client.
JoinStep(v) ==
    /\ joining[v] # <<>> /\ outbox[v] = <<>>
    /\ LET held == CASE Head(joining[v]) = "items" -> items
                     [] Head(joining[v]) = "tnts" -> [e \in tnts |-> 0]
                     [] Head(joining[v]) = "flights" -> [e \in DOMAIN flights |-> 0]
                     [] OTHER -> NoUnits
       IN  outbox' = [outbox EXCEPT ![v] =
                        FoldSet(LAMBDA e, q : Append(q, SpawnPacket(e, held[e])), <<>>, DOMAIN held)]
    /\ listed' = IF Head(joining[v]) = "list" THEN listed \cup {v} ELSE listed
    /\ joining' = [joining EXCEPT ![v] = Tail(@)]
    /\ UNCHANGED <<items, tnts, flights, lastEid, shown, born, units>>

LeaveView(v) ==
    /\ v \in listed
    /\ ForgetAll(v)
    /\ listed' = listed \ {v}
    /\ UNCHANGED <<items, tnts, flights, lastEid, outbox, joining, units>>

-----------------------------------------------------------------------------
EntitiesNext ==
    \/ \E t \in EntityThread : Send(t)
    \/ \E t \in Dropper : PrimeEntity(t) \/ Launch(t) \/ \E n \in 1..StackMax : DropItem(t, n)
    \/ ItemTick \/ TntTick \/ FlightTick
    \/ \E v \in Watcher : Join(v) \/ Resync(v) \/ JoinStep(v) \/ LeaveView(v)

EntitiesSpec == EntitiesInit /\ [][EntitiesNext]_entityVars

EntitiesTypeOK ==
    /\ DOMAIN items \subseteq Eid /\ \A e \in DOMAIN items : items[e] \in 1..StackMax
    /\ tnts \subseteq Eid
    /\ DOMAIN flights \subseteq Eid /\ \A e \in DOMAIN flights : flights[e] \in 0..1
    /\ listed \subseteq Watcher
    /\ \A v \in Watcher : DOMAIN shown[v] \subseteq Eid
    /\ \A e \in Eid : born[e] \subseteq Watcher

\* No unit is lost or made by merging, partial pickups and expiry: what was
\* dropped lies there, was taken or is gone.
UnitsConserved == units.dropped = Total(items) + units.taken + units.gone

Alive == DOMAIN items \cup tnts \cup DOMAIN flights

\* A client that was in when an entity appeared, and stays, shows it exactly as long as it
\* lives, once no removal is on its way (tnt.go:85-87, "its packets can't
\* overtake the Spawn and leave a ghost on the client").
ResidentsSeeTruly ==
    (\A t \in EntityThread : outbox[t] = <<>>) =>
        \A e \in 1..lastEid : \A v \in born[e] \cap listed :
            e \in DOMAIN shown[v] <=> e \in Alive
=============================================================================
