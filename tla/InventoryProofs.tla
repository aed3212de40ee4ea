-------------------------- MODULE InventoryProofs --------------------------
(***************************************************************************)
(* No item is lost or made (ItemsConserved), for any players, kinds, sizes *)
(* of stacks and windows.                                                  *)
(*                                                                         *)
(* The argument: what a click does to the simulated window is told         *)
(* operation by operation, each keeping the units of every kind (Held) in  *)
(* slots, cursor and drops; those that sweep the slots are folds, which    *)
(* stay where their steps keep them (FoldStays, FoldKeeps).  The player's  *)
(* slots and the chest's then take back what the window shows of them.     *)
(* What closes a window holds in its hands what it took (InvInv), so every *)
(* step of one player moves units between its slots, the chest and the     *)
(* ground (OneSteps, GoodsMove).                                           *)
(***************************************************************************)
EXTENDS WellFoundedInduction, Inventory, SumTheorems, SequenceTheorems, TLAPS

\* g folds the steps h over the subsets of T, taking c[s] of each subset s.
Folded(g, T, b, c, h) == g = [s \in SUBSET T |-> IF s = {} THEN b ELSE h[s][g[s \ {c[s]}]]]

\* A fold exists, taking c[s] of each set s, and stays where its steps keep it.
LEMMA FoldExists ==
    ASSUME NEW T, IsFiniteSet(T), NEW Good, NEW b, b \in Good[{}], NEW c, NEW h,
           \A s \in SUBSET T : s # {} => c[s] \in s,
           \A s \in SUBSET T : s # {} => \A w \in Good[s \ {c[s]}] : h[s][w] \in Good[s]
    PROVE  \E g : Folded(g, T, b, c, h) /\ \A s \in SUBSET T : g[s] \in Good[s]
<1> DEFINE F(g, D) ==
               /\ g = [s \in D |-> IF s = {} THEN b ELSE h[s][g[s \ {c[s]}]]]
               /\ \A s \in D : g[s] \in Good[s]
           UpTo(n) == {x \in SUBSET T : Cardinality(x) <= n}
           G == {n \in Nat : \E g : F(g, UpTo(n))}
<1>1. \A s \in SUBSET T : /\ IsFiniteSet(s) /\ Cardinality(s) \in Nat
                          /\ s # {} => /\ s \ {c[s]} \in SUBSET T
                                       /\ Cardinality(s \ {c[s]}) = Cardinality(s) - 1
  BY FS_Subset, FS_CardinalityType, FS_RemoveElement
<1>2. \A s \in SUBSET T : Cardinality(s) = 0 <=> s = {}
  BY <1>1, FS_EmptySet
<1>3. 0 \in G
  <2> DEFINE D == UpTo(0)
             g == [s \in D |-> b]
  <2>1. \A s \in D : s = {}
    <3> SUFFICES ASSUME NEW s \in SUBSET T, Cardinality(s) <= 0 PROVE s = {}
      OBVIOUS
    <3>1. Cardinality(s) \in Nat
      BY <1>1
    <3>2. Cardinality(s) = 0
      BY <3>1
    <3> QED
      BY <1>2, <3>2
  <2>2. g = [s \in D |-> IF s = {} THEN b ELSE h[s][g[s \ {c[s]}]]]
    BY <2>1
  <2>3. \A s \in D : g[s] \in Good[s]
    BY <2>1
  <2>4. F(g, UpTo(0))
    BY <2>2, <2>3
  <2> QED
    BY <2>4
<1>4. ASSUME NEW n \in Nat, n \in G PROVE n + 1 \in G
  <2>1. PICK g : F(g, UpTo(n))
    BY <1>4
  <2> DEFINE D == UpTo(n)
             E == UpTo(n + 1)
             d == [s \in E |-> IF s \in D THEN g[s] ELSE h[s][g[s \ {c[s]}]]]
             e == [s \in E |-> IF s = {} THEN b ELSE h[s][d[s \ {c[s]}]]]
  <2>2. /\ \A s \in D : g[s] = IF s = {} THEN b ELSE h[s][g[s \ {c[s]}]]
        /\ \A s \in D : g[s] \in Good[s]
    BY <2>1
  <2>3. {} \in D /\ D \subseteq E
    <3>1. {} \in SUBSET T /\ Cardinality({}) <= n
      BY <1>2
    <3>2. ASSUME NEW s \in SUBSET T, Cardinality(s) <= n PROVE Cardinality(s) <= n + 1
      <4>1. Cardinality(s) \in Nat
        BY <1>1
      <4> QED
        BY <3>2, <4>1
    <3> QED
      BY <3>1, <3>2
  <2>4. ASSUME NEW s \in E, s # {} PROVE s \ {c[s]} \in D
    <3>1. Cardinality(s) \in Nat /\ Cardinality(s) <= n + 1
      BY <1>1
    <3>2. s \ {c[s]} \in SUBSET T /\ Cardinality(s \ {c[s]}) = Cardinality(s) - 1
      BY <1>1, <2>4
    <3>3. Cardinality(s \ {c[s]}) <= n
      BY <3>1, <3>2
    <3> QED
      BY <3>2, <3>3
  <2>5. \A s \in E : d[s] = e[s]
    <3> SUFFICES ASSUME NEW s \in E PROVE d[s] = e[s]
      OBVIOUS
    <3>1. CASE s = {}
      BY <2>2, <2>3, <3>1
    <3>2. CASE s # {}
      <4>1. s \ {c[s]} \in D /\ s \ {c[s]} \in E
        BY <2>3, <2>4, <3>2
      <4>2. d[s \ {c[s]}] = g[s \ {c[s]}]
        BY <4>1
      <4>3. d[s] = h[s][g[s \ {c[s]}]]
        BY <2>2, <3>2
      <4> QED
        BY <3>2, <4>2, <4>3
    <3> QED
      BY <3>1, <3>2
  <2>6. d = e
    BY <2>5
  <2>7. \A s \in E : d[s] \in Good[s]
    <3> SUFFICES ASSUME NEW s \in E PROVE d[s] \in Good[s]
      OBVIOUS
    <3>1. CASE s \in D
      BY <2>2, <3>1
    <3>2. CASE s \notin D
      <4>1. s # {} /\ s \ {c[s]} \in D /\ s \in SUBSET T
        BY <2>3, <2>4, <3>2
      <4>2. g[s \ {c[s]}] \in Good[s \ {c[s]}]
        BY <2>2, <4>1
      <4> QED
        BY <3>2, <4>1, <4>2
    <3> QED
      BY <3>1, <3>2
  <2>8. F(d, UpTo(n + 1))
    BY <2>6, <2>7
  <2> HIDE DEF F, UpTo, d
  <2>9. n + 1 \in Nat /\ \E x : F(x, UpTo(n + 1))
    BY <2>8
  <2> QED
    BY <2>9
<1>5. Nat \subseteq G
  <2> HIDE DEF G
  <2> QED
    BY <1>3, <1>4, CountUp
<1>6. Cardinality(T) \in Nat /\ \A s \in SUBSET T : Cardinality(s) <= Cardinality(T)
  BY FS_Subset, FS_CardinalityType
<1>7. UpTo(Cardinality(T)) = SUBSET T
  BY <1>6
<1>8. PICK g : F(g, UpTo(Cardinality(T)))
  BY <1>5, <1>6
<1>9. F(g, SUBSET T)
  <2> HIDE DEF F, UpTo
  <2> QED
    BY <1>7, <1>8
<1> QED
  BY <1>9 DEF Folded

\* Whatever computes the fold stays where its steps keep it.
LEMMA FoldStays ==
    ASSUME NEW T, IsFiniteSet(T), NEW Good, NEW c, NEW g, g[{}] \in Good[{}],
           \A s \in SUBSET T : s # {} => c[s] \in s,
           \A s \in SUBSET T : s # {} /\ g[s \ {c[s]}] \in Good[s \ {c[s]}] => g[s] \in Good[s]
    PROVE  g[T] \in Good[T]
<1> DEFINE G == {s \in SUBSET T : g[s] \in Good[s]}
<1>1. {} \in G
  OBVIOUS
<1>2. \A s \in SUBSET T : s # {} /\ (\A x \in s : s \ {x} \in G) => s \in G
  OBVIOUS
<1>3. SUBSET T \subseteq G
  <2> HIDE DEF G
  <2> QED
    BY <1>1, <1>2, GrowUp
<1> QED
  BY <1>3

\* The greatest and the least of finitely many numbers.
LEMMA GreatestIs ==
    ASSUME NEW S \in SUBSET Int, IsFiniteSet(S), S # {} PROVE Max(S) \in S /\ \A y \in S : y <= Max(S)
<1> DEFINE G == {s \in SUBSET S : s # {} => \E m \in s : \A y \in s : y <= m}
<1>1. {} \in G
  OBVIOUS
<1>2. ASSUME NEW s \in SUBSET S, s # {}, \A x \in s : s \ {x} \in G PROVE s \in G
  <2>1. PICK x \in s : TRUE
    BY <1>2
  <2>2. CASE s \ {x} = {}
    <3>1. \A y \in s : y = x
      BY <2>2
    <3> QED
      BY <2>1, <3>1
  <2>3. CASE s \ {x} # {}
    <3>1. PICK m \in s \ {x} : \A y \in s \ {x} : y <= m
      BY <1>2, <2>3
    <3>2. x \in Int /\ m \in Int /\ \A y \in s : y \in Int
      OBVIOUS
    <3>3. CASE x <= m
      <4>1. m \in s /\ \A y \in s : y <= m
        BY <3>1, <3>3
      <4> QED
        BY <4>1
    <3>4. CASE ~(x <= m)
      <4>1. x \in s /\ \A y \in s : y <= x
        BY <3>1, <3>2, <3>4
      <4> QED
        BY <4>1
    <3> QED
      BY <3>3, <3>4
  <2> QED
    BY <2>2, <2>3
<1>3. SUBSET S \subseteq G
  <2> HIDE DEF G
  <2> QED
    BY <1>1, <1>2, GrowUp
<1>4. \E m \in S : \A y \in S : y <= m
  BY <1>3
<1>5. \E m \in S : \A y \in S : m >= y
  BY <1>4
<1>6. Max(S) \in S /\ \A y \in S : Max(S) >= y
  BY <1>5 DEF Max
<1> HIDE DEF Max
<1> QED
  BY <1>6

-----------------------------------------------------------------------------
(***************************************************************************)
(* Stacks, and the simulated window.  Legal stacks are within their size;  *)
(* a view's armor slots hold one piece each.                               *)
(***************************************************************************)

Legal == {st \in AStack : st # NoStack => st.count <= MaxStack[st.kind]}

LEMMA NoStackIs == NoStack \in Legal /\ NoStack.count = 0 /\ \A k : Units(NoStack, k) = 0
BY DEF NoStack, Legal, AStack, Units

LEMMA StackIs ==
    ASSUME NEW st \in AStack
    PROVE  /\ st.count \in Nat /\ (st.count = 0 <=> st = NoStack)
           /\ st # NoStack => st.kind \in Kind /\ st = [kind |-> st.kind, count |-> st.count]
           /\ \A k : Units(st, k) \in Nat
           /\ \A k : Units(st, k) = IF st # NoStack /\ st.kind = k THEN st.count ELSE 0
<1>1. CASE st \in Stack
  <2>1. st.count \in Nat \ {0} /\ st.kind \in Kind /\ st = [kind |-> st.kind, count |-> st.count]
    BY <1>1 DEF Stack
  <2>2. st # NoStack
    BY <2>1 DEF NoStack
  <2> QED
    BY <2>1, <2>2 DEF Units
<1>2. CASE st = NoStack
  BY <1>2 DEF NoStack, Units
<1> QED
  BY <1>1, <1>2 DEF AStack

LEMMA LegalIs ==
    /\ Legal \subseteq AStack
    /\ \A st \in Legal : st # NoStack => st.kind \in Kind /\ st.count <= MaxStack[st.kind]
    /\ \A st \in AStack : (st # NoStack => st.count <= MaxStack[st.kind]) => st \in Legal
<1>1. \A st \in AStack : st # NoStack => st.kind \in Kind
  BY StackIs
<1> QED
  BY <1>1 DEF Legal

\* A stack of another count.
LEMMA CountedIs ==
    ASSUME NEW st, st.kind \in Kind, NEW n \in Int
    PROVE  /\ WithCount(st, n) \in AStack
           /\ WithCount(st, n).count = IF n <= 0 THEN 0 ELSE n
           /\ WithCount(st, n) = NoStack <=> n <= 0
           /\ n > 0 => WithCount(st, n).kind = st.kind
           /\ n <= MaxStack[st.kind] => WithCount(st, n) \in Legal
           /\ \A k : Units(WithCount(st, n), k) = IF n > 0 /\ st.kind = k THEN n ELSE 0
<1>1. CASE n <= 0
  BY <1>1, NoStackIs DEF WithCount, AStack
<1>2. CASE n > 0
  <2> DEFINE s == [kind |-> st.kind, count |-> n]
  <2>1. s \in Stack /\ s.count = n /\ s.kind = st.kind
    BY <1>2 DEF Stack
  <2>2. s # NoStack
    BY <1>2 DEF NoStack
  <2>3. WithCount(st, n) = s
    BY <1>2 DEF WithCount
  <2> HIDE DEF s
  <2> QED
    BY <1>2, <2>1, <2>2, <2>3 DEF AStack, Legal, Units
<1> QED
  BY <1>1, <1>2

LEMMA NoneIsNone == ASSUME NEW n \in Int, n <= 0, NEW st PROVE WithCount(st, n) = NoStack
BY DEF WithCount

LEMMA SameIs ==
    ASSUME NEW a \in AStack, NEW b \in AStack, Same(a, b)
    PROVE  a # NoStack /\ b # NoStack /\ a.kind = b.kind /\ a.kind \in Kind
BY StackIs DEF Same

LEMMA SizesAre ==
    /\ GridSlots \in Nat /\ ArmorSlots \in Nat /\ ChestSlots \in Nat
    /\ MainSlots \in Nat /\ HotSlots \in Nat /\ MainSlots > 0 /\ HotSlots > 0
    /\ ArmorStart = 1 + GridSlots /\ MainStart = ArmorStart + ArmorSlots
    /\ HotbarStart = MainStart + MainSlots /\ OffhandSlot = HotbarStart + HotSlots
    /\ PlayerSlots = 0..OffhandSlot
    /\ \A k \in Kind : MaxStack[k] \in Nat /\ MaxStack[k] > 0
BY InventoryAssumption DEF ArmorStart, MainStart, HotbarStart, OffhandSlot, PlayerSlots

SlotsOf(ch) == IF ch THEN 0..(ChestSlots + MainSlots + HotSlots) ELSE PlayerSlots

LEMMA SlotsAreFew == \A ch \in BOOLEAN : SlotsOf(ch) \in SUBSET Int /\ IsFiniteSet(SlotsOf(ch))
<1>1. ASSUME NEW n \in Nat PROVE 0..n \in SUBSET Int /\ IsFiniteSet(0..n)
  BY FS_Interval
<1>2. OffhandSlot \in Nat /\ ChestSlots + MainSlots + HotSlots \in Nat
  BY SizesAre
<1> QED
  BY <1>1, <1>2, SizesAre DEF SlotsOf

Views(ch) == [chest : {ch}, slots : [SlotsOf(ch) -> Legal], cursor : Legal, drops : [Kind -> Nat]]
Fits(v) == \A i \in SlotsOf(v.chest) : IsArmor(v, i) => v.slots[i].count <= 1
Held(v, k) == UnitsIn(v.slots, k) + Units(v.cursor, k) + v.drops[k]

\* The views that hold as many units of each kind.
Like(ch, t) == {v \in Views(ch) : Fits(v) /\ \A k \in Kind : Held(v, k) = t[k]}

LEMMA ViewIs ==
    ASSUME NEW ch \in BOOLEAN, NEW v \in Views(ch)
    PROVE  /\ v.chest = ch /\ v.slots \in [SlotsOf(ch) -> Legal] /\ DOMAIN v.slots = SlotsOf(ch)
           /\ v.cursor \in Legal /\ v.drops \in [Kind -> Nat]
           /\ \A i \in SlotsOf(ch) : v.slots[i] \in Legal
BY DEF Views

\* What slots hold is a number, and one slot's change changes it by as much.
LEMMA UnitsAreCounted ==
    ASSUME NEW S, IsFiniteSet(S), NEW f \in [S -> Legal], NEW k
    PROVE  /\ UnitsIn(f, k) \in Nat
           /\ \A i \in S : \A st \in Legal :
                 UnitsIn([f EXCEPT ![i] = st], k) = UnitsIn(f, k) - Units(f[i], k) + Units(st, k)
<1> DEFINE u == [j \in S |-> Units(f[j], k)]
<1>1. DOMAIN f = S /\ \A j \in S : f[j] \in AStack
  BY LegalIs
<1>2. \A j \in S : u[j] \in Nat
  BY <1>1, StackIs
<1>3. UnitsIn(f, k) = SumFunctionOnSet(u, S)
  BY <1>1 DEF UnitsIn, UnitsAt
<1>4. UnitsIn(f, k) \in Nat
  <2> HIDE DEF u
  <2> QED
    BY <1>2, <1>3, SumOfNats
<1>5. ASSUME NEW i \in S, NEW st \in Legal
      PROVE  UnitsIn([f EXCEPT ![i] = st], k) = UnitsIn(f, k) - Units(f[i], k) + Units(st, k)
  <2> DEFINE e == [j \in S |-> Units([f EXCEPT ![i] = st][j], k)]
  <2>1. UnitsIn([f EXCEPT ![i] = st], k) = SumFunctionOnSet(e, S)
    BY <1>1 DEF UnitsIn, UnitsAt
  <2>2. e[i] = Units(st, k) /\ u[i] = Units(f[i], k) /\ \A j \in S \ {i} : e[j] = u[j]
    BY <1>1
  <2>3. Units(st, k) \in Nat
    BY StackIs, LegalIs
  <2>4. \A j \in S : u[j] \in Int /\ e[j] \in Int
    BY <1>2, <2>2, <2>3
  <2> HIDE DEF u, e
  <2>6. IsFiniteSet(S) /\ i \in S /\ \A j \in S : u[j] \in Int /\ e[j] \in Int /\ (j # i => e[j] = u[j])
    BY <2>2, <2>4
  <2>5. SumFunctionOnSet(e, S) = SumFunctionOnSet(u, S) - u[i] + e[i]
    BY <2>6, SumChanges
  <2> QED
    BY <1>3, <2>1, <2>2, <2>5
<1> QED
  BY <1>4, <1>5

LEMMA HeldIs ==
    ASSUME NEW ch \in BOOLEAN, NEW v \in Views(ch), NEW k \in Kind
    PROVE  /\ UnitsIn(v.slots, k) \in Nat /\ Units(v.cursor, k) \in Nat /\ v.drops[k] \in Nat
           /\ Held(v, k) \in Nat
<1>1. UnitsIn(v.slots, k) \in Nat
  BY SlotsAreFew, ViewIs, UnitsAreCounted
<1>2. Units(v.cursor, k) \in Nat /\ v.drops[k] \in Nat
  BY ViewIs, LegalIs, StackIs
<1> QED
  BY <1>1, <1>2 DEF Held

\* A slot, the cursor or the drops of a view changed.
LEMMA PutAtIs ==
    ASSUME NEW ch \in BOOLEAN, NEW v \in Views(ch), NEW i \in SlotsOf(ch), NEW st \in Legal
    PROVE  LET w == PutAt(v, i, st)
           IN  /\ w \in Views(ch) /\ w.slots[i] = st /\ w.cursor = v.cursor /\ w.drops = v.drops
               /\ w.chest = v.chest /\ \A j \in SlotsOf(ch) : j # i => w.slots[j] = v.slots[j]
               /\ \A k \in Kind : Held(w, k) = Held(v, k) - Units(v.slots[i], k) + Units(st, k)
               /\ Fits(v) /\ (IsArmor(v, i) => st.count <= 1) => Fits(w)
<1> DEFINE e == [v.slots EXCEPT ![i] = st]
           w == PutAt(v, i, st)
<1>1. v.slots \in [SlotsOf(ch) -> Legal] /\ v.chest = ch
  BY ViewIs
<1>2. e \in [SlotsOf(ch) -> Legal] /\ e[i] = st /\ \A j \in SlotsOf(ch) : j # i => e[j] = v.slots[j]
  BY <1>1
<1>3. w \in Views(ch) /\ w.slots = e /\ w.cursor = v.cursor /\ w.drops = v.drops /\ w.chest = v.chest
  <2>1. w = [v EXCEPT !.slots = e]
    BY DEF PutAt
  <2> HIDE DEF e, w
  <2> QED
    BY <1>2, <2>1 DEF Views
<1>4. ASSUME NEW k \in Kind PROVE Held(w, k) = Held(v, k) - Units(v.slots[i], k) + Units(st, k)
  <2>1. UnitsIn(e, k) = UnitsIn(v.slots, k) - Units(v.slots[i], k) + Units(st, k)
    BY <1>1, SlotsAreFew, UnitsAreCounted
  <2>2. Units(v.slots[i], k) \in Nat /\ Units(st, k) \in Nat
    BY <1>1, LegalIs, StackIs
  <2>3. UnitsIn(v.slots, k) \in Nat /\ Units(v.cursor, k) \in Nat /\ v.drops[k] \in Nat
    BY HeldIs
  <2> HIDE DEF e, w
  <2>4. Held(w, k) = UnitsIn(e, k) + Units(v.cursor, k) + v.drops[k]
    BY <1>3 DEF Held
  <2> QED
    BY <2>1, <2>2, <2>3, <2>4 DEF Held
<1>5. Fits(v) /\ (IsArmor(v, i) => st.count <= 1) => Fits(w)
  <2> HIDE DEF e, w
  <2>1. \A j : IsArmor(w, j) <=> IsArmor(v, j)
    BY <1>3 DEF IsArmor
  <2> QED
    BY <1>1, <1>2, <1>3, <2>1 DEF Fits
<1> HIDE DEF w
<1>6. w.slots[i] = st /\ \A j \in SlotsOf(ch) : j # i => w.slots[j] = v.slots[j]
  BY <1>2, <1>3
<1> QED
  BY <1>3, <1>4, <1>5, <1>6 DEF w

LEMMA CarryIs ==
    ASSUME NEW ch \in BOOLEAN, NEW v \in Views(ch), NEW st \in Legal
    PROVE  LET w == Carry(v, st)
           IN  /\ w \in Views(ch) /\ w.slots = v.slots /\ w.cursor = st /\ w.drops = v.drops
               /\ w.chest = v.chest /\ (Fits(v) => Fits(w))
               /\ \A k \in Kind : Held(w, k) = Held(v, k) - Units(v.cursor, k) + Units(st, k)
<1> DEFINE w == Carry(v, st)
<1>1. w \in Views(ch) /\ w.slots = v.slots /\ w.cursor = st /\ w.drops = v.drops /\ w.chest = v.chest
  BY DEF Carry, Views
<1> HIDE DEF w
<1>2. ASSUME NEW k \in Kind PROVE Held(w, k) = Held(v, k) - Units(v.cursor, k) + Units(st, k)
  <2>1. UnitsIn(v.slots, k) \in Nat /\ Units(v.cursor, k) \in Nat /\ v.drops[k] \in Nat
    BY HeldIs
  <2>2. Units(st, k) \in Nat
    BY LegalIs, StackIs
  <2> QED
    BY <1>1, <2>1, <2>2 DEF Held
<1>3. Fits(v) => Fits(w)
  BY <1>1 DEF Fits, IsArmor
<1> QED
  BY <1>1, <1>2, <1>3 DEF w

LEMMA ThrowIs ==
    ASSUME NEW ch \in BOOLEAN, NEW v \in Views(ch), NEW st \in AStack
    PROVE  LET w == Throw(v, st)
           IN  /\ w \in Views(ch) /\ w.slots = v.slots /\ w.cursor = v.cursor
               /\ w.chest = v.chest /\ (Fits(v) => Fits(w))
               /\ \A k \in Kind : Held(w, k) = Held(v, k) + Units(st, k)
<1> DEFINE w == Throw(v, st)
<1>1. CASE st = NoStack
  <2>1. w = v /\ \A k \in Kind : Units(st, k) = 0 /\ Held(v, k) \in Nat
    BY <1>1, NoStackIs, HeldIs DEF Throw
  <2> HIDE DEF w
  <2> QED
    BY <2>1 DEF w
<1>2. CASE st # NoStack
  <2> DEFINE e == [v.drops EXCEPT ![st.kind] = @ + st.count]
  <2>1. st.kind \in Kind /\ st.count \in Nat /\ v.drops \in [Kind -> Nat]
    BY <1>2, StackIs, ViewIs
  <2>2. e \in [Kind -> Nat] /\ \A k \in Kind : e[k] = v.drops[k] + Units(st, k)
    <3>1. \A k \in Kind : Units(st, k) = IF st.kind = k THEN st.count ELSE 0
      BY <1>2, StackIs
    <3> QED
      BY <2>1, <3>1
  <2>3. w \in Views(ch) /\ w.slots = v.slots /\ w.cursor = v.cursor /\ w.drops = e /\ w.chest = v.chest
    <3>1. w = [v EXCEPT !.drops = e]
      BY <1>2 DEF Throw
    <3> HIDE DEF e, w
    <3> QED
      BY <2>2, <3>1 DEF Views
  <2> HIDE DEF e, w
  <2>4. ASSUME NEW k \in Kind PROVE Held(w, k) = Held(v, k) + Units(st, k)
    <3>1. UnitsIn(v.slots, k) \in Nat /\ Units(v.cursor, k) \in Nat /\ v.drops[k] \in Nat
      BY HeldIs
    <3>2. Units(st, k) \in Nat
      BY StackIs
    <3> QED
      BY <2>2, <2>3, <3>1, <3>2 DEF Held
  <2>5. Fits(v) => Fits(w)
    BY <2>3 DEF Fits, IsArmor
  <2> QED
    BY <2>3, <2>4, <2>5 DEF w
<1> QED
  BY <1>1, <1>2

\* What a few units more or less of a kind come to.
Of(kind, n, k) == IF kind = k THEN n ELSE 0

LEMMA PutIs ==
    ASSUME NEW ch \in BOOLEAN, NEW v \in Views(ch), Fits(v), NEW i \in SlotsOf(ch),
           NEW st \in AStack, st # NoStack, NEW n \in Nat,
           n > 0 => v.slots[i] = NoStack \/ Same(v.slots[i], st),
           n > 0 => v.slots[i].count + n <= MaxStack[st.kind],
           n > 0 => (IsArmor(v, i) => v.slots[i].count + n <= 1)
    PROVE  LET w == Put(v, i, st, n)
           IN  /\ w \in Views(ch) /\ Fits(w) /\ w.cursor = v.cursor /\ w.chest = v.chest
               /\ w.slots[i].count = v.slots[i].count + n
               /\ n > 0 => w.slots[i] # NoStack /\ w.slots[i].kind = st.kind
               /\ \A j \in SlotsOf(ch) : j # i => w.slots[j] = v.slots[j]
               /\ \A k \in Kind : Held(w, k) = Held(v, k) + Of(st.kind, n, k)
<1> DEFINE w == Put(v, i, st, n)
           cur == v.slots[i]
           new == WithCount(st, cur.count + n)
<1>0. st.kind \in Kind /\ cur \in AStack /\ cur.count \in Nat /\ cur.count + n \in Int
  BY ViewIs, LegalIs, StackIs
<1>1. CASE n = 0
  <2>1. w = v /\ cur.count = cur.count + n
    BY <1>0, <1>1 DEF Put
  <2>2. \A k \in Kind : Held(v, k) = Held(v, k) + Of(st.kind, n, k)
    BY <1>1, HeldIs DEF Of
  <2> HIDE DEF w
  <2> QED
    BY <1>1, <2>1, <2>2 DEF w
<1>2. CASE n > 0
  <2>1. /\ new \in Legal /\ new.count = cur.count + n /\ new # NoStack /\ new.kind = st.kind
        /\ \A k : Units(new, k) = IF st.kind = k THEN cur.count + n ELSE 0
    BY <1>0, <1>2, CountedIs
  <2>2. \A k : Units(cur, k) = IF st.kind = k THEN cur.count ELSE 0
    <3>1. cur # NoStack => cur.kind = st.kind
      BY <1>2 DEF Same
    <3>2. cur = NoStack => cur.count = 0
      BY NoStackIs
    <3>3. \A k : Units(cur, k) = IF cur # NoStack /\ cur.kind = k THEN cur.count ELSE 0
      BY <1>0, StackIs
    <3> QED
      BY <3>1, <3>2, <3>3
  <2>3. w = PutAt(v, i, new)
    BY <1>2 DEF Put
  <2> HIDE DEF w, cur, new
  <2>4. IsArmor(v, i) => new.count <= 1
    BY <1>2, <2>1 DEF cur
  <2>5. /\ w \in Views(ch) /\ w.slots[i] = new /\ w.cursor = v.cursor /\ w.chest = v.chest
        /\ \A j \in SlotsOf(ch) : j # i => w.slots[j] = v.slots[j]
        /\ Fits(w)
    BY <2>1, <2>3, <2>4, PutAtIs
  <2>6. ASSUME NEW k \in Kind PROVE Held(w, k) = Held(v, k) + Of(st.kind, n, k)
    <3>1. Held(w, k) = Held(v, k) - Units(cur, k) + Units(new, k)
      BY <2>1, <2>3, PutAtIs DEF cur
    <3>2. Held(v, k) \in Nat
      BY HeldIs
    <3> QED
      BY <1>0, <2>1, <2>2, <3>1, <3>2 DEF Of
  <2> QED
    BY <1>2, <2>1, <2>5, <2>6 DEF w, cur
<1> QED
  BY <1>1, <1>2

LEMMA TakeOutIs ==
    ASSUME NEW ch \in BOOLEAN, NEW v \in Views(ch), Fits(v), NEW i \in SlotsOf(ch),
           v.slots[i] # NoStack, NEW n \in Nat, n <= v.slots[i].count
    PROVE  LET w == TakeOut(v, i, n)
           IN  /\ w \in Views(ch) /\ Fits(w) /\ w.cursor = v.cursor /\ w.chest = v.chest
               /\ w.drops = v.drops /\ w.slots[i].count = v.slots[i].count - n
               /\ \A j \in SlotsOf(ch) : j # i => w.slots[j] = v.slots[j]
               /\ \A k \in Kind : Held(w, k) = Held(v, k) - Of(v.slots[i].kind, n, k)
<1> DEFINE w == TakeOut(v, i, n)
           cur == v.slots[i]
           new == WithCount(cur, cur.count - n)
<1>1. cur \in AStack /\ cur.kind \in Kind /\ cur.count \in Nat /\ cur.count <= MaxStack[cur.kind]
      /\ MaxStack[cur.kind] \in Nat
  BY ViewIs, LegalIs, StackIs, SizesAre
<1>2. cur.count - n \in Nat /\ cur.count - n <= MaxStack[cur.kind]
  BY <1>1
<1>3. /\ new \in Legal /\ new.count = cur.count - n
      /\ \A k : Units(new, k) = IF cur.kind = k THEN cur.count - n ELSE 0
  BY <1>1, <1>2, CountedIs
<1>4. \A k : Units(cur, k) = IF cur.kind = k THEN cur.count ELSE 0
  BY <1>1, StackIs
<1>5. w = PutAt(v, i, new)
  BY DEF TakeOut
<1>6. IsArmor(v, i) => new.count <= 1
  <2>1. IsArmor(v, i) => cur.count <= 1
    BY ViewIs DEF Fits
  <2> QED
    BY <1>1, <1>3, <2>1
<1> HIDE DEF w, cur, new
<1>7. /\ w \in Views(ch) /\ w.slots[i] = new /\ w.cursor = v.cursor /\ w.chest = v.chest
      /\ w.drops = v.drops
      /\ \A j \in SlotsOf(ch) : j # i => w.slots[j] = v.slots[j]
      /\ Fits(w)
  BY <1>3, <1>5, <1>6, PutAtIs
<1>8. ASSUME NEW k \in Kind PROVE Held(w, k) = Held(v, k) - Of(cur.kind, n, k)
  <2>1. Held(w, k) = Held(v, k) - Units(cur, k) + Units(new, k)
    BY <1>3, <1>5, PutAtIs DEF cur
  <2>2. Held(v, k) \in Nat
    BY HeldIs
  <2> QED
    BY <1>1, <1>3, <1>4, <2>1, <2>2 DEF Of
<1> QED
  BY <1>3, <1>7, <1>8 DEF w, cur

LEMMA DeductIs ==
    ASSUME NEW ch \in BOOLEAN, NEW v \in Views(ch), Fits(v), v.cursor # NoStack,
           NEW n \in Int, n <= v.cursor.count, v.cursor.count - n <= MaxStack[v.cursor.kind]
    PROVE  LET w == Deduct(v, n)
           IN  /\ w \in Views(ch) /\ Fits(w) /\ w.slots = v.slots /\ w.chest = v.chest
               /\ w.cursor.count = v.cursor.count - n
               /\ w.cursor # NoStack => w.cursor.kind = v.cursor.kind
               /\ \A k \in Kind : Held(w, k) = Held(v, k) - Of(v.cursor.kind, n, k)
<1> DEFINE w == Deduct(v, n)
           cur == v.cursor
           new == WithCount(cur, cur.count - n)
<1>1. cur \in AStack /\ cur.kind \in Kind /\ cur.count \in Nat
  BY ViewIs, LegalIs, StackIs
<1>2. cur.count - n \in Nat
  BY <1>1
<1>3. /\ new \in Legal /\ new.count = cur.count - n /\ (new # NoStack => new.kind = cur.kind)
      /\ \A k : Units(new, k) = IF cur.kind = k THEN cur.count - n ELSE 0
  BY <1>1, <1>2, CountedIs
<1>4. \A k : Units(cur, k) = IF cur.kind = k THEN cur.count ELSE 0
  BY <1>1, StackIs
<1>5. w = Carry(v, new)
  BY DEF Deduct
<1> HIDE DEF w, cur, new
<1>6. /\ w \in Views(ch) /\ Fits(w) /\ w.slots = v.slots /\ w.cursor = new /\ w.chest = v.chest
  BY <1>3, <1>5, CarryIs
<1>7. ASSUME NEW k \in Kind PROVE Held(w, k) = Held(v, k) - Of(cur.kind, n, k)
  <2>1. Held(w, k) = Held(v, k) - Units(cur, k) + Units(new, k)
    BY <1>3, <1>5, CarryIs DEF cur
  <2>2. Held(v, k) \in Nat
    BY HeldIs
  <2> QED
    BY <1>1, <1>3, <1>4, <2>1, <2>2 DEF Of
<1> QED
  BY <1>3, <1>6, <1>7 DEF w, cur

LEMMA DeductNone ==
    ASSUME NEW ch \in BOOLEAN, NEW v \in Views(ch)
    PROVE  Deduct(v, 0) = v
<1>1. WithCount(v.cursor, v.cursor.count - 0) = v.cursor
  <2>1. v.cursor \in AStack
    BY ViewIs, LegalIs
  <2>2. CASE v.cursor = NoStack
    BY <2>2, NoStackIs DEF WithCount
  <2>3. CASE v.cursor # NoStack
    BY <2>1, <2>3, StackIs DEF WithCount
  <2> QED
    BY <2>2, <2>3
<1>2. Carry(v, v.cursor) = v
  BY DEF Carry, Views
<1> QED
  BY <1>1, <1>2 DEF Deduct

LEMMA LeastPair == ASSUME NEW a \in Int, NEW b \in Int
                   PROVE  Min({a, b}) \in Int /\ Min({a, b}) = IF a <= b THEN a ELSE b
BY DEF Min

LEMMA LeastThree ==
    ASSUME NEW a \in Int, NEW b \in Int, NEW c \in Int
    PROVE  /\ Min({a, b, c}) \in Int /\ Min({a, b, c}) \in {a, b, c}
           /\ Min({a, b, c}) <= a /\ Min({a, b, c}) <= b /\ Min({a, b, c}) <= c
<1> DEFINE S == {a, b, c}
<1>1. \E x \in S : \A y \in S : x <= y
  OBVIOUS
<1>2. Min(S) \in S /\ \A y \in S : Min(S) <= y
  BY <1>1 DEF Min
<1> HIDE DEF Min
<1> QED
  BY <1>2

LEMMA NotBelow == ASSUME NEW b \in Int PROVE Max({0, b}) = IF b > 0 THEN b ELSE 0
BY DEF Max

\* What fits of n into a slot: a stack of the same kind, or none, that stays
\* within its size.
LEMMA RoomIs ==
    ASSUME NEW ch \in BOOLEAN, NEW v \in Views(ch), NEW i \in SlotsOf(ch),
           NEW st \in AStack, NEW n \in Nat
    PROVE  LET m == Room(v, i, st, n)
           IN  /\ m \in Nat /\ m <= n /\ m <= st.count
               /\ m > 0 => /\ st # NoStack
                           /\ v.slots[i] = NoStack \/ Same(v.slots[i], st)
                           /\ v.slots[i].count + m <= MaxStack[st.kind]
                           /\ IsArmor(v, i) => v.slots[i].count + m <= 1
<1> DEFINE m == Room(v, i, st, n)
           cur == v.slots[i].count
           max == MaxIn(v, i, st)
           all == st.count
           gap == max - cur
           low == Min({n, all, gap})
<1>1. cur \in Nat /\ all \in Nat
  BY ViewIs, LegalIs, StackIs
<1>2. CASE st = NoStack \/ ~MayPlace(v, i, st) \/ (v.slots[i] # NoStack /\ ~Same(v.slots[i], st))
  <2>1. m = 0
    BY <1>2 DEF Room
  <2> HIDE DEF m
  <2> QED
    BY <1>1, <2>1 DEF m
<1>3. CASE ~(st = NoStack \/ ~MayPlace(v, i, st) \/ (v.slots[i] # NoStack /\ ~Same(v.slots[i], st)))
  <2>1. m = Max({0, low})
    BY <1>3 DEF Room
  <2>2. /\ max \in Int /\ max <= MaxStack[st.kind] /\ (IsArmor(v, i) => max = 1)
        /\ MaxStack[st.kind] \in Int
    BY <1>3, StackIs, SizesAre DEF MaxIn
  <2>3. gap \in Int /\ n \in Int /\ all \in Int
    BY <1>1, <2>2
  <2> HIDE DEF m, cur, max, all, gap
  <2>4. low \in Int /\ low <= n /\ low <= all /\ low <= gap
    BY <2>3, LeastThree
  <2> HIDE DEF low
  <2>5. m = IF low > 0 THEN low ELSE 0
    BY <2>1, <2>4, NotBelow
  <2>6. m \in Nat /\ m <= n /\ m <= all /\ (m > 0 => cur + m <= max)
    BY <1>1, <2>2, <2>4, <2>5 DEF gap
  <2>7. m > 0 => cur + m <= MaxStack[st.kind] /\ (IsArmor(v, i) => cur + m <= 1)
    BY <1>1, <2>2, <2>6
  <2> QED
    BY <1>3, <2>6, <2>7 DEF m, cur, all
<1> QED
  BY <1>2, <1>3

LEMMA LikeIs ==
    ASSUME NEW ch, NEW t, NEW v
    PROVE  v \in Like(ch, t) <=> v \in Views(ch) /\ Fits(v) /\ \A k \in Kind : Held(v, k) = t[k]
BY DEF Like

\* The cursor's stack goes into a slot.
LEMMA PlaceCursorIs ==
    ASSUME NEW ch \in BOOLEAN, NEW t, NEW v \in Like(ch, t), NEW i \in SlotsOf(ch), NEW n \in Nat
    PROVE  PlaceCursor(v, i, n) \in Like(ch, t)
<1> DEFINE car == v.cursor
           m == Room(v, i, car, n)
           w == Put(v, i, car, m)
<1>1. PlaceCursor(v, i, n) = Deduct(w, m)
  BY DEF PlaceCursor
<1>2. /\ v \in Views(ch) /\ Fits(v) /\ car \in AStack /\ car \in Legal
      /\ \A k \in Kind : Held(v, k) = t[k] /\ Held(v, k) \in Nat
  BY LikeIs, ViewIs, LegalIs, HeldIs
<1>3. /\ m \in Nat /\ m <= car.count
      /\ m > 0 => /\ car # NoStack /\ (v.slots[i] = NoStack \/ Same(v.slots[i], car))
                  /\ v.slots[i].count + m <= MaxStack[car.kind]
                  /\ IsArmor(v, i) => v.slots[i].count + m <= 1
  BY <1>2, RoomIs
<1> HIDE DEF m
<1>4. CASE car = NoStack
  <2>1. m = 0
    BY <1>3, <1>4
  <2>2. w = v
    BY <2>1 DEF Put
  <2> QED
    BY <1>1, <1>2, <2>1, <2>2, DeductNone
<1>5. CASE car # NoStack
  <2>1. /\ w \in Views(ch) /\ Fits(w) /\ w.cursor = car
        /\ \A k \in Kind : Held(w, k) = Held(v, k) + Of(car.kind, m, k)
    BY <1>2, <1>3, <1>5, PutIs
  <2>2. car.kind \in Kind /\ car.count \in Nat /\ car.count <= MaxStack[car.kind]
        /\ MaxStack[car.kind] \in Nat
    BY <1>2, <1>5, LegalIs, StackIs, SizesAre
  <2> DEFINE x == Deduct(w, m)
  <2> HIDE DEF w
  <2>3. car.count - m <= MaxStack[car.kind] /\ m \in Int
    BY <1>3, <2>2
  <2>4. /\ x \in Views(ch) /\ Fits(x)
        /\ \A k \in Kind : Held(x, k) = Held(w, k) - Of(car.kind, m, k)
    BY <1>3, <1>5, <2>1, <2>3, DeductIs
  <2> HIDE DEF x, car
  <2>5. ASSUME NEW k \in Kind PROVE Held(x, k) = t[k]
    BY <1>2, <1>3, <2>1, <2>4 DEF Of
  <2> QED
    BY <1>1, <2>4, <2>5, LikeIs DEF x
<1> QED
  BY <1>4, <1>5

\* A click on a slot.
LEMMA PickupIs ==
    ASSUME NEW ch \in BOOLEAN, NEW t, NEW v \in Like(ch, t), NEW i \in SlotsOf(ch), NEW right \in BOOLEAN
    PROVE  Pickup(v, i, right) \in Like(ch, t)
<1> DEFINE cur == v.slots[i]
           car == v.cursor
           n == IF right THEN 1 ELSE car.count
           half == IF right THEN (cur.count + 1) \div 2 ELSE cur.count
           got == Min({cur.count, MaxStack[car.kind] - car.count})
<1>1. /\ v \in Views(ch) /\ Fits(v) /\ car \in AStack /\ car \in Legal /\ cur \in AStack /\ cur \in Legal
      /\ \A k \in Kind : Held(v, k) = t[k] /\ Held(v, k) \in Nat
  BY LikeIs, ViewIs, LegalIs, HeldIs
<1>2. car.count \in Nat /\ cur.count \in Nat
  BY <1>1, StackIs
<1>3. n \in Nat
  BY <1>2
<1>4. CASE cur = NoStack
  <2>1. Pickup(v, i, right) = PlaceCursor(v, i, n)
    BY <1>4 DEF Pickup, Same
  <2> QED
    BY <1>3, <2>1, PlaceCursorIs
<1>5. CASE cur # NoStack /\ car = NoStack
  <2> DEFINE w == TakeOut(v, i, half)
             h == WithCount(cur, half)
             x == Carry(w, h)
  <2>1. Pickup(v, i, right) = x
    BY <1>5 DEF Pickup, Same
  <2>2. cur.kind \in Kind /\ cur.count > 0 /\ cur.count <= MaxStack[cur.kind] /\ MaxStack[cur.kind] \in Nat
    BY <1>1, <1>2, <1>5, StackIs, LegalIs, SizesAre
  <2>3. half \in Nat /\ half > 0 /\ half <= cur.count /\ half <= MaxStack[cur.kind]
    BY <1>2, <2>2
  <2> HIDE DEF half
  <2>4. /\ w \in Views(ch) /\ Fits(w) /\ w.cursor = car
        /\ \A k \in Kind : Held(w, k) = Held(v, k) - Of(cur.kind, half, k)
    BY <1>1, <1>5, <2>3, TakeOutIs
  <2>5. h \in Legal /\ \A k : Units(h, k) = IF cur.kind = k THEN half ELSE 0
    BY <2>2, <2>3, CountedIs
  <2> HIDE DEF w, h
  <2>6. /\ x \in Views(ch) /\ Fits(x)
        /\ \A k \in Kind : Held(x, k) = Held(w, k) - Units(w.cursor, k) + Units(h, k)
    BY <2>4, <2>5, CarryIs
  <2>7. \A k : Units(w.cursor, k) = 0
    BY <1>5, <2>4, NoStackIs
  <2> HIDE DEF x, car, cur
  <2>8. ASSUME NEW k \in Kind PROVE Held(x, k) = t[k]
    BY <1>1, <2>3, <2>4, <2>5, <2>6, <2>7 DEF Of
  <2> QED
    BY <2>1, <2>6, <2>8, LikeIs
<1>6. CASE cur # NoStack /\ car # NoStack /\ Same(cur, car) /\ MayPlace(v, i, car)
  <2>1. Pickup(v, i, right) = PlaceCursor(v, i, n)
    BY <1>6 DEF Pickup
  <2> QED
    BY <1>3, <2>1, PlaceCursorIs
<1>7. CASE cur # NoStack /\ car # NoStack /\ Same(cur, car) /\ ~MayPlace(v, i, car)
  <2> DEFINE w == TakeOut(v, i, got)
             x == Deduct(w, -got)
  <2>1. Pickup(v, i, right) = x
    BY <1>7 DEF Pickup
  <2>2. /\ car.kind \in Kind /\ cur.kind = car.kind /\ car.count <= MaxStack[car.kind]
        /\ MaxStack[car.kind] \in Nat
    BY <1>1, <1>7, SameIs, LegalIs, StackIs, SizesAre
  <2> DEFINE left == MaxStack[car.kind] - car.count
  <2>3. left \in Nat
    BY <1>2, <2>2
  <2>4. got \in Nat /\ got <= cur.count /\ got <= left
    <3> HIDE DEF left, cur
    <3>1. Min({cur.count, left}) = IF cur.count <= left THEN cur.count ELSE left
      BY <1>2, <2>3, LeastPair
    <3> QED
      BY <1>2, <2>3, <3>1 DEF left
  <2> HIDE DEF got
  <2>5. /\ w \in Views(ch) /\ Fits(w) /\ w.cursor = car
        /\ \A k \in Kind : Held(w, k) = Held(v, k) - Of(cur.kind, got, k)
    BY <1>1, <1>7, <2>4, TakeOutIs
  <2> HIDE DEF w
  <2>6. -got \in Int /\ -got <= car.count /\ car.count - (-got) <= MaxStack[car.kind]
    BY <1>2, <2>2, <2>4
  <2>7. /\ x \in Views(ch) /\ Fits(x)
        /\ \A k \in Kind : Held(x, k) = Held(w, k) - Of(car.kind, -got, k)
    BY <1>7, <2>5, <2>6, DeductIs
  <2> HIDE DEF x, car, cur
  <2>8. ASSUME NEW k \in Kind PROVE Held(x, k) = t[k]
    BY <1>1, <2>2, <2>4, <2>5, <2>7 DEF Of
  <2> QED
    BY <2>1, <2>7, <2>8, LikeIs
<1>8. CASE cur # NoStack /\ car # NoStack /\ ~Same(cur, car)
  <2> DEFINE w == PutAt(v, i, car)
             x == Carry(w, cur)
  <2>1. Pickup(v, i, right) = IF MayPlace(v, i, car) /\ car.count <= MaxIn(v, i, car) THEN x ELSE v
    BY <1>8 DEF Pickup
  <2>2. CASE ~(MayPlace(v, i, car) /\ car.count <= MaxIn(v, i, car))
    BY <2>1, <2>2
  <2>3. CASE MayPlace(v, i, car) /\ car.count <= MaxIn(v, i, car)
    <3>1. IsArmor(v, i) => car.count <= 1
      BY <2>3 DEF MaxIn
    <3>2. /\ w \in Views(ch) /\ Fits(w) /\ w.cursor = car
          /\ \A k \in Kind : Held(w, k) = Held(v, k) - Units(cur, k) + Units(car, k)
      BY <1>1, <3>1, PutAtIs
    <3> HIDE DEF w
    <3>3. /\ x \in Views(ch) /\ Fits(x)
          /\ \A k \in Kind : Held(x, k) = Held(w, k) - Units(car, k) + Units(cur, k)
      BY <1>1, <3>2, CarryIs
    <3>4. \A k \in Kind : Units(car, k) \in Nat /\ Units(cur, k) \in Nat
      BY <1>1, StackIs
    <3> HIDE DEF x, car, cur
    <3>5. ASSUME NEW k \in Kind PROVE Held(x, k) = t[k]
      BY <1>1, <3>2, <3>3, <3>4
    <3> QED
      BY <2>1, <2>3, <3>3, <3>5, LikeIs
  <2> QED
    BY <2>2, <2>3
<1> QED
  BY <1>4, <1>5, <1>6, <1>7, <1>8

LEMMA LastOf ==
    ASSUME NEW n \in Nat
    PROVE  \A s \in SUBSET (1..n) : s # {} => Max(s) \in s /\ s \ {Max(s)} \in SUBSET (1..n)
<1> SUFFICES ASSUME NEW s \in SUBSET (1..n), s # {} PROVE Max(s) \in s
  OBVIOUS
<1>1. IsFiniteSet(1..n) /\ s \in SUBSET Int
  BY FS_Interval
<1>2. IsFiniteSet(s)
  BY <1>1, FS_Subset
<1> QED
  BY <1>1, <1>2, GreatestIs

\* g folds the steps q[j] over the positions of a sequence and stays in X.
Goes(g, n, X, b, q) ==
    /\ g \in [SUBSET (1..n) -> X] /\ g[{}] = b
    /\ \A s \in SUBSET (1..n) : s # {} => g[s] = q[Max(s)][g[s \ {Max(s)}]]

LEMMA FoldGoes ==
    ASSUME NEW n \in Nat, NEW X, NEW b \in X, NEW q, \A j \in 1..n : \A w \in X : q[j][w] \in X
    PROVE  \E g : Goes(g, n, X, b, q)
<1> DEFINE T == 1..n
           c == [s \in SUBSET T |-> Max(s)]
           h == [s \in SUBSET T |-> q[Max(s)]]
           Good == [s \in SUBSET T |-> X]
<1>1. IsFiniteSet(T) /\ b \in Good[{}]
  BY FS_Interval
<1>2. \A s \in SUBSET T : s # {} => c[s] \in s
  BY LastOf
<1>3. \A s \in SUBSET T : s # {} => \A w \in Good[s \ {c[s]}] : h[s][w] \in Good[s]
  BY <1>2
<1>4. PICK g : Folded(g, T, b, c, h) /\ \A s \in SUBSET T : g[s] \in Good[s]
  <2> HIDE DEF T, c, h, Good
  <2> QED
    BY <1>1, <1>2, <1>3, FoldExists
<1>5. \A s \in SUBSET T : g[s] = IF s = {} THEN b ELSE q[Max(s)][g[s \ {Max(s)}]]
  BY <1>4 DEF Folded
<1>6. g \in [SUBSET T -> X]
  BY <1>4 DEF Folded
<1> QED
  BY <1>5, <1>6 DEF Goes

LEMMA FoldKeeps ==
    ASSUME NEW n \in Nat, NEW X, NEW g, g[{}] \in X,
           \A s \in SUBSET (1..n) : s # {} /\ g[s \ {Max(s)}] \in X => g[s] \in X
    PROVE  g[1..n] \in X
<1> DEFINE T == 1..n
           c == [s \in SUBSET T |-> Max(s)]
           Good == [s \in SUBSET T |-> X]
<1>1. IsFiniteSet(T) /\ g[{}] \in Good[{}]
  BY FS_Interval
<1>2. \A s \in SUBSET T : s # {} => c[s] \in s
  BY LastOf
<1>3. \A s \in SUBSET T : s # {} /\ g[s \ {c[s]}] \in Good[s \ {c[s]}] => g[s] \in Good[s]
  BY <1>2
<1>4. g[T] \in Good[T]
  <2> HIDE DEF T, c, Good
  <2> QED
    BY <1>1, <1>2, <1>3, FoldStays
<1> QED
  BY <1>4

\* The slots' numbers.
LEMMA WindowIs ==
    ASSUME NEW ch \in BOOLEAN, NEW v, v.chest = ch
    PROVE  /\ HotIn(v) \in Nat /\ MainIn(v) \in Nat /\ OffIn(v) \in Nat /\ Size(v) \in Nat
           /\ SlotsOf(ch) = 0..OffIn(v) /\ Size(v) <= OffIn(v) + 1
           /\ HotIn(v) + HotSlots = OffIn(v) /\ MainIn(v) + MainSlots = HotIn(v)
           /\ \A i \in Int : IsArmor(v, i) => i < MainIn(v)
<1>1. CASE ch
  <2>1. OffIn(v) = ChestSlots + MainSlots + HotSlots /\ HotIn(v) = ChestSlots + MainSlots
        /\ MainIn(v) = ChestSlots /\ Size(v) = ChestSlots + MainSlots + HotSlots
        /\ SlotsOf(ch) = 0..(ChestSlots + MainSlots + HotSlots) /\ \A i : ~IsArmor(v, i)
    BY <1>1 DEF OffIn, HotIn, MainIn, Size, SlotsOf, IsArmor
  <2> QED
    BY <2>1, SizesAre
<1>2. CASE ~ch
  <2>1. OffIn(v) = OffhandSlot /\ HotIn(v) = HotbarStart
        /\ MainIn(v) = MainStart /\ Size(v) = OffhandSlot + 1
        /\ SlotsOf(ch) = 0..OffhandSlot /\ \A i : IsArmor(v, i) => i \in ArmorStart..(MainStart - 1)
    BY <1>2, SizesAre DEF OffIn, HotIn, MainIn, Size, SlotsOf, IsArmor
  <2> QED
    BY <2>1, SizesAre
<1> QED
  BY <1>1, <1>2

\* A stack on its way into a player's slots.
Giving(ch, t) == {a \in [v : Views(ch), st : AStack] :
                     Fits(a.v) /\ \A k \in Kind : Held(a.v, k) + Units(a.st, k) = t[k]}

LEMMA TopIs ==
    ASSUME NEW ch \in BOOLEAN, NEW t, NEW a \in Giving(ch, t), NEW i \in SlotsOf(ch)
    PROVE  LET m == Room(a.v, i, a.st, a.st.count)
           IN  [v |-> Put(a.v, i, a.st, m), st |-> WithCount(a.st, a.st.count - m)] \in Giving(ch, t)
<1> DEFINE v == a.v
           st == a.st
           m == Room(v, i, st, st.count)
           w == Put(v, i, st, m)
           left == WithCount(st, st.count - m)
           e == [v |-> w, st |-> left]
<1>1. /\ v \in Views(ch) /\ st \in AStack /\ Fits(v)
      /\ \A k \in Kind : Held(v, k) + Units(st, k) = t[k]
  BY DEF Giving
<1>2. /\ st.count \in Nat /\ (st.count = 0 <=> st = NoStack) /\ (st # NoStack => st.kind \in Kind)
      /\ \A k : Units(st, k) = IF st # NoStack /\ st.kind = k THEN st.count ELSE 0
      /\ \A k \in Kind : Held(v, k) \in Nat
  BY <1>1, StackIs, HeldIs
<1>3. /\ m \in Nat /\ m <= st.count
      /\ m > 0 => /\ st # NoStack /\ (v.slots[i] = NoStack \/ Same(v.slots[i], st))
                  /\ v.slots[i].count + m <= MaxStack[st.kind]
                  /\ IsArmor(v, i) => v.slots[i].count + m <= 1
  BY <1>1, <1>2, RoomIs
<1> HIDE DEF m
<1>4. /\ w \in Views(ch) /\ Fits(w) /\ left \in AStack
      /\ \A k \in Kind : Held(w, k) + Units(left, k) = t[k]
  <2>1. CASE st = NoStack
    <3>1. m = 0 /\ st.count - m = 0
      BY <1>2, <1>3, <2>1
    <3>2. w = v /\ left = NoStack
      BY <3>1 DEF Put, WithCount
    <3> QED
      BY <1>1, <2>1, <3>2
  <2>2. CASE st # NoStack
    <3>1. /\ w \in Views(ch) /\ Fits(w)
          /\ \A k \in Kind : Held(w, k) = Held(v, k) + Of(st.kind, m, k)
      BY <1>1, <1>3, <2>2, PutIs
    <3>2. st.count - m \in Nat
      BY <1>2, <1>3
    <3>3. /\ left \in AStack
          /\ \A k : Units(left, k) = IF st.count - m > 0 /\ st.kind = k THEN st.count - m ELSE 0
      BY <1>2, <2>2, <3>2, CountedIs
    <3> HIDE DEF w, left, v, st
    <3>4. ASSUME NEW k \in Kind PROVE Held(w, k) + Units(left, k) = t[k]
      BY <1>1, <1>2, <1>3, <2>2, <3>1, <3>2, <3>3 DEF Of
    <3> QED
      BY <3>1, <3>3, <3>4
  <2> QED
    BY <2>1, <2>2
<1>5. e.v = w /\ e.st = left /\ e \in [v : Views(ch), st : AStack]
  BY <1>4
<1> HIDE DEF e, w, left
<1>6. e \in Giving(ch, t)
  BY <1>4, <1>5 DEF Giving
<1> QED
  BY <1>6 DEF e, w, left, m

\* A stack given to a player's slots: in them, or thrown.
LEMMA AddToPlayerIs ==
    ASSUME NEW ch \in BOOLEAN, NEW t, NEW v \in Views(ch), Fits(v), NEW st \in AStack,
           \A k \in Kind : Held(v, k) + Units(st, k) = t[k]
    PROVE  AddToPlayer(v, st) \in Like(ch, t)
<1> DEFINE hot == [k \in 1..HotSlots |-> HotIn(v) + k - 1]
           main == [k \in 1..MainSlots |-> MainIn(v) + k - 1]
           order == hot \o main
           Top(a, i) == LET m == Room(a.v, i, a.st, a.st.count)
                        IN  [v |-> Put(a.v, i, a.st, m), st |-> WithCount(a.st, a.st.count - m)]
           Match(a, i) == IF Same(a.v.slots[i], a.st) THEN Top(a, i) ELSE a
           Fill(a, i) == IF a.v.slots[i] = NoStack THEN Top(a, i) ELSE a
           X == Giving(ch, t)
           n == HotSlots + MainSlots
           T == 1..n
           MF(g, b, S) == g = [s \in SUBSET S |-> IF s = {} THEN b
                                                 ELSE Match(g[s \ {Max(s)}], order[Max(s)])]
           FF(g, b, S) == g = [s \in SUBSET S |-> IF s = {} THEN b
                                                 ELSE Fill(g[s \ {Max(s)}], order[Max(s)])]
           a0 == [v |-> v, st |-> st]
           a1 == (CHOOSE g : MF(g, a0, DOMAIN order))[DOMAIN order]
           a2 == (CHOOSE g : FF(g, a1, DOMAIN order))[DOMAIN order]
<1>1. AddToPlayer(v, st) = Throw(a2.v, a2.st)
  BY DEF AddToPlayer, FoldLeft, MapThenFoldSet
<1>2. DOMAIN order = T /\ n \in Nat /\ \A j \in T : order[j] \in SlotsOf(ch)
  <2>1. /\ v.chest = ch /\ HotIn(v) \in Nat /\ MainIn(v) \in Nat /\ SlotsOf(ch) = 0..OffIn(v)
        /\ HotIn(v) + HotSlots = OffIn(v) /\ MainIn(v) + MainSlots = HotIn(v) /\ OffIn(v) \in Nat
    BY ViewIs, WindowIs
  <2>2. \A j \in 1..HotSlots : HotIn(v) + j - 1 \in 0..OffIn(v)
    BY SMTT(20), <2>1, SizesAre
  <2>3. \A j \in 1..MainSlots : MainIn(v) + j - 1 \in 0..OffIn(v)
    BY <2>1, SizesAre
  <2>4. hot \in Seq(0..OffIn(v)) /\ Len(hot) = HotSlots
    BY <2>2, SizesAre
  <2>5. main \in Seq(0..OffIn(v)) /\ Len(main) = MainSlots
    BY <2>3, SizesAre
  <2> HIDE DEF hot, main
  <2>6. order \in Seq(0..OffIn(v)) /\ Len(order) = n
    BY <2>4, <2>5
  <2> HIDE DEF order
  <2>7. order \in Seq(SlotsOf(ch))
    BY <2>1, <2>6
  <2>8. DOMAIN order = 1..Len(order) /\ \A j \in 1..Len(order) : order[j] \in SlotsOf(ch)
    BY <2>7
  <2> QED
    BY <2>6, <2>8, SizesAre
<1> HIDE DEF order
<1>3. \A j \in T : \A a \in X : Top(a, order[j]) \in X
  BY <1>2, TopIs
<1> HIDE DEF Top
<1>4. \A j \in T : \A a \in X : Match(a, order[j]) \in X /\ Fill(a, order[j]) \in X
  BY <1>3
<1> HIDE DEF Match, Fill, X, n
<1>5. ASSUME NEW b \in X PROVE (CHOOSE g : MF(g, b, T))[T] \in X
  <2> DEFINE q == [j \in T |-> [a \in X |-> Match(a, order[j])]]
  <2>1. \A j \in T : \A a \in X : q[j][a] \in X
    BY <1>4
  <2>2. PICK g : Goes(g, n, X, b, q)
    <3> HIDE DEF q
    <3> QED
      BY <1>2, <2>1, FoldGoes
  <2>3. \A s \in SUBSET T : s # {} => Max(s) \in T /\ s \ {Max(s)} \in SUBSET T
    BY <1>2, LastOf
  <2>4. \A s \in SUBSET T : s # {} => g[s] = Match(g[s \ {Max(s)}], order[Max(s)])
    BY <2>2, <2>3 DEF Goes
  <2>5. MF(g, b, T)
    BY <2>2, <2>4 DEF Goes
  <2> HIDE DEF MF
  <2> DEFINE f == CHOOSE f : MF(f, b, T)
  <2>6. MF(f, b, T)
    BY <2>5
  <2> HIDE DEF f
  <2>7. f[{}] = b /\ \A s \in SUBSET T : s # {} => f[s] = Match(f[s \ {Max(s)}], order[Max(s)])
    BY <2>6 DEF MF
  <2>8. \A s \in SUBSET T : s # {} /\ f[s \ {Max(s)}] \in X => f[s] \in X
    <3> SUFFICES ASSUME NEW s \in SUBSET T, s # {}, f[s \ {Max(s)}] \in X PROVE f[s] \in X
      OBVIOUS
    <3>1. f[s] = Match(f[s \ {Max(s)}], order[Max(s)]) /\ Max(s) \in T
      BY <2>3, <2>7
    <3> QED
      BY <1>4, <3>1
  <2>9. f[T] \in X
    BY <1>2, <2>7, <2>8, FoldKeeps
  <2> QED
    BY <2>9 DEF f
<1>6. ASSUME NEW b \in X PROVE (CHOOSE g : FF(g, b, T))[T] \in X
  <2> DEFINE q == [j \in T |-> [a \in X |-> Fill(a, order[j])]]
  <2>1. \A j \in T : \A a \in X : q[j][a] \in X
    BY <1>4
  <2>2. PICK g : Goes(g, n, X, b, q)
    <3> HIDE DEF q
    <3> QED
      BY <1>2, <2>1, FoldGoes
  <2>3. \A s \in SUBSET T : s # {} => Max(s) \in T /\ s \ {Max(s)} \in SUBSET T
    BY <1>2, LastOf
  <2>4. \A s \in SUBSET T : s # {} => g[s] = Fill(g[s \ {Max(s)}], order[Max(s)])
    BY <2>2, <2>3 DEF Goes
  <2>5. FF(g, b, T)
    BY <2>2, <2>4 DEF Goes
  <2> HIDE DEF FF
  <2> DEFINE f == CHOOSE f : FF(f, b, T)
  <2>6. FF(f, b, T)
    BY <2>5
  <2> HIDE DEF f
  <2>7. f[{}] = b /\ \A s \in SUBSET T : s # {} => f[s] = Fill(f[s \ {Max(s)}], order[Max(s)])
    BY <2>6 DEF FF
  <2>8. \A s \in SUBSET T : s # {} /\ f[s \ {Max(s)}] \in X => f[s] \in X
    <3> SUFFICES ASSUME NEW s \in SUBSET T, s # {}, f[s \ {Max(s)}] \in X PROVE f[s] \in X
      OBVIOUS
    <3>1. f[s] = Fill(f[s \ {Max(s)}], order[Max(s)]) /\ Max(s) \in T
      BY <2>3, <2>7
    <3> QED
      BY <1>4, <3>1
  <2>9. f[T] \in X
    BY <1>2, <2>7, <2>8, FoldKeeps
  <2> QED
    BY <2>9 DEF f
<1> HIDE DEF MF, FF
<1>7. a0 \in X
  BY DEF X, Giving
<1>8. a1 \in X
  BY <1>2, <1>5, <1>7
<1>9. a2 \in X
  BY <1>2, <1>6, <1>8
<1> DEFINE w == Throw(a2.v, a2.st)
<1> HIDE DEF a0, a1, a2
<1>10. /\ a2.v \in Views(ch) /\ a2.st \in AStack /\ Fits(a2.v)
       /\ \A k \in Kind : Held(a2.v, k) + Units(a2.st, k) = t[k]
  BY <1>9 DEF X, Giving
<1>11. /\ w \in Views(ch) /\ Fits(w)
       /\ \A k \in Kind : Held(w, k) = Held(a2.v, k) + Units(a2.st, k)
  BY <1>10, ThrowIs
<1> HIDE DEF w
<1> QED
  BY <1>1, <1>10, <1>11, LikeIs DEF w

\* A slot against a hotbar slot or the off hand.
LEMMA SwapWithIs ==
    ASSUME NEW ch \in BOOLEAN, NEW t, NEW v \in Like(ch, t), NEW i \in SlotsOf(ch),
           NEW h \in SlotsOf(ch), ~IsArmor(v, h)
    PROVE  SwapWith(v, i, h) \in Like(ch, t)
<1> DEFINE hot == v.slots[h]
           cur == v.slots[i]
           limit == MaxIn(v, i, hot)
           some == WithCount(hot, limit)
           rest == WithCount(hot, hot.count - limit)
           one == PutAt(v, i, some)
           over == PutAt(one, h, rest)
           moved == PutAt(v, h, cur)
<1>1. /\ v \in Views(ch) /\ Fits(v) /\ hot \in Legal /\ cur \in Legal /\ hot \in AStack /\ cur \in AStack
      /\ \A k \in Kind : Held(v, k) = t[k] /\ Held(v, k) \in Nat
      /\ \A k : Units(hot, k) \in Nat /\ Units(cur, k) \in Nat
  BY LikeIs, ViewIs, LegalIs, HeldIs, StackIs
<1>2. /\ moved \in Views(ch) /\ Fits(moved) /\ moved.chest = v.chest
      /\ \A k \in Kind : Held(moved, k) = Held(v, k) - Units(hot, k) + Units(cur, k)
      /\ moved.slots[i] = cur
  BY <1>1, PutAtIs
<1>3. CASE hot = NoStack
  <2> DEFINE w == PutAt(moved, i, NoStack)
  <2>1. SwapWith(v, i, h) = w
    BY <1>3 DEF SwapWith
  <2>2. NoStack.count <= 1 /\ NoStack \in Legal /\ \A k : Units(NoStack, k) = 0
    BY NoStackIs
  <2> HIDE DEF moved
  <2>3. /\ w \in Views(ch) /\ Fits(w)
        /\ \A k \in Kind : Held(w, k) = Held(moved, k) - Units(cur, k) + Units(NoStack, k)
    BY <1>2, <2>2, PutAtIs
  <2>4. \A k : Units(hot, k) = 0
    BY <1>3, <2>2
  <2> HIDE DEF w, hot, cur
  <2>5. ASSUME NEW k \in Kind PROVE Held(w, k) = t[k]
    BY <1>1, <1>2, <2>2, <2>3, <2>4
  <2> QED
    BY <2>1, <2>3, <2>5, LikeIs
<1>4. CASE hot # NoStack /\ ~MayPlace(v, i, hot)
  BY <1>4 DEF SwapWith
<1>5. CASE hot # NoStack /\ MayPlace(v, i, hot) /\ hot.count <= limit
  <2> DEFINE w == PutAt(moved, i, hot)
  <2>1. SwapWith(v, i, h) = w
    BY <1>5 DEF SwapWith
  <2>2. IsArmor(moved, i) => hot.count <= 1
    BY <1>2, <1>5 DEF IsArmor, MaxIn
  <2> HIDE DEF moved
  <2>3. /\ w \in Views(ch) /\ Fits(w)
        /\ \A k \in Kind : Held(w, k) = Held(moved, k) - Units(cur, k) + Units(hot, k)
    BY SMTT(20), <1>1, <1>2, <2>2, PutAtIs
  <2> HIDE DEF w, hot, cur
  <2>5. ASSUME NEW k \in Kind PROVE Held(w, k) = t[k]
    BY <1>1, <1>2, <2>3
  <2> QED
    BY <2>1, <2>3, <2>5, LikeIs
<1>6. CASE hot # NoStack /\ MayPlace(v, i, hot) /\ ~(hot.count <= limit)
  <2>1. /\ hot.kind \in Kind /\ hot.count \in Nat /\ hot.count <= MaxStack[hot.kind]
        /\ MaxStack[hot.kind] \in Nat
        /\ \A k : Units(hot, k) = IF hot.kind = k THEN hot.count ELSE 0
    BY <1>1, <1>6, LegalIs, StackIs, SizesAre
  <2>2. IsArmor(v, i) /\ limit = 1
    BY <1>6, <2>1 DEF MaxIn
  <2>3. i # h /\ hot.count > 1
    BY <1>6, <2>1, <2>2
  <2>4. limit \in Int /\ limit <= MaxStack[hot.kind] /\ hot.count - limit \in Int
        /\ hot.count - limit <= MaxStack[hot.kind] /\ hot.count - limit > 0
    BY <2>1, <2>2, <2>3
  <2>5. some \in Legal /\ some.count = 1 /\ \A k : Units(some, k) = IF hot.kind = k THEN 1 ELSE 0
    BY <2>1, <2>2, <2>4, CountedIs
  <2>6. rest \in Legal /\ \A k : Units(rest, k) = IF hot.kind = k THEN hot.count - limit ELSE 0
    BY <2>1, <2>4, CountedIs
  <2> HIDE DEF some, rest
  <2>7. /\ one \in Views(ch) /\ Fits(one) /\ one.chest = v.chest /\ one.slots[h] = hot
        /\ \A k \in Kind : Held(one, k) = Held(v, k) - Units(cur, k) + Units(some, k)
    BY SMTT(20), <1>1, <2>3, <2>5, PutAtIs
  <2> HIDE DEF one
  <2>8. ~IsArmor(one, h)
    BY <2>7 DEF IsArmor
  <2>9. /\ over \in Views(ch) /\ Fits(over)
        /\ \A k \in Kind : Held(over, k) = Held(one, k) - Units(hot, k) + Units(rest, k)
    BY <2>6, <2>7, <2>8, PutAtIs
  <2>10. ASSUME NEW k \in Kind PROVE Held(over, k) + Units(cur, k) = t[k]
    <3>1. /\ Held(one, k) = t[k] - Units(cur, k) + Units(some, k)
          /\ Held(over, k) = Held(one, k) - Units(hot, k) + Units(rest, k)
          /\ t[k] \in Nat /\ Units(cur, k) \in Nat
      BY <1>1, <2>7, <2>9
    <3> HIDE DEF over, cur, hot
    <3> QED
      BY <2>1, <2>2, <2>5, <2>6, <3>1
  <2>11. CASE cur = NoStack
    <3>1. SwapWith(v, i, h) = over
      BY <1>6, <2>11 DEF SwapWith, one, some, rest
    <3>2. \A k \in Kind : Units(cur, k) = 0 /\ Held(over, k) \in Nat
      BY <2>9, <2>11, NoStackIs, HeldIs
    <3> HIDE DEF over, cur
    <3>3. \A k \in Kind : Held(over, k) = t[k]
      BY <2>10, <3>2
    <3> QED
      BY <2>9, <3>1, <3>3, LikeIs
  <2>12. CASE cur # NoStack
    <3>1. SwapWith(v, i, h) = AddToPlayer(over, cur)
      BY <1>6, <2>12 DEF SwapWith, one, some, rest
    <3> HIDE DEF over, cur
    <3> QED
      BY <1>1, <2>9, <2>10, <3>1, AddToPlayerIs
  <2> QED
    BY <2>11, <2>12
<1> QED
  BY <1>3, <1>4, <1>5, <1>6

LEMMA ReverseIs ==
    ASSUME NEW S, NEW f \in Seq(S)
    PROVE  Reverse(f) \in Seq(S) /\ Len(Reverse(f)) = Len(f)
<1> DEFINE n == Len(f)
<1>1. n \in Nat /\ \A k \in 1..n : f[k] \in S
  OBVIOUS
<1>2. Reverse(f) = [k \in 1..n |-> f[n - k + 1]]
  BY DEF Reverse
<1> HIDE DEF n
<1>3. \A k \in 1..n : f[n - k + 1] \in S
  <2> TAKE k \in 1..n
  <2>1. n - k + 1 \in 1..n
    BY <1>1
  <2> QED
    BY <1>1, <2>1
<1> DEFINE r == [k \in 1..n |-> f[n - k + 1]]
<1>4. r \in Seq(S) /\ Len(r) = n
  BY <1>1, <1>3
<1> QED
  BY <1>2, <1>4 DEF n

LEMMA FromIs ==
    ASSUME NEW S, NEW a \in Int, NEW b \in Int, a <= b + 1, a..b \subseteq S
    PROVE  /\ From(a, b) \in Seq(S) /\ Reverse(From(a, b)) \in Seq(S)
           /\ Len(From(a, b)) = b - a + 1
<1> DEFINE n == b - a + 1
<1>1. n \in Nat
  OBVIOUS
<1>2. From(a, b) = [k \in 1..n |-> a + k - 1]
  BY DEF From
<1>3. \A k \in 1..n : a + k - 1 \in S
  OBVIOUS
<1> HIDE DEF n
<1>4. From(a, b) \in Seq(S) /\ Len(From(a, b)) = n
  BY <1>1, <1>2, <1>3
<1> QED
  BY <1>4, ReverseIs DEF n

\* What the whole window's sweep goes through.
LEMMA SweepIs ==
    ASSUME NEW ch \in BOOLEAN, NEW v, v.chest = ch
    PROVE  /\ From(0, Cardinality(Window(v)) - 1) \in Seq(SlotsOf(ch))
           /\ Reverse(From(0, Cardinality(Window(v)) - 1)) \in Seq(SlotsOf(ch))
           /\ IsFiniteSet(Window(v))
<1> DEFINE m == IF v.chest THEN OffIn(v) - 1 ELSE OffIn(v)
<1>1. OffIn(v) \in Nat /\ SlotsOf(ch) = 0..OffIn(v)
  BY WindowIs
<1>2. m \in Int /\ 0 <= m + 1 /\ 0..m \subseteq SlotsOf(ch)
  BY <1>1
<1>3. Window(v) = 0..m
  BY DEF Window
<1> HIDE DEF m
<1>4. IsFiniteSet(0..m) /\ Cardinality(0..m) = m + 1
  BY <1>2, FS_Interval
<1>5. Cardinality(Window(v)) - 1 = m
  BY <1>2, <1>3, <1>4
<1> QED
  BY <1>2, <1>3, <1>4, <1>5, FromIs

\* A stack gathered by the double click.
LEMMA GatherIs ==
    ASSUME NEW ch \in BOOLEAN, NEW t, NEW w \in Like(ch, t), w.cursor # NoStack, NEW k \in SlotsOf(ch),
           Same(w.slots[k], w.cursor),
           NEW n \in Nat, n <= w.slots[k].count, n <= MaxStack[w.cursor.kind] - w.cursor.count
    PROVE  LET x == Deduct(TakeOut(w, k, n), -n)
           IN  x \in Like(ch, t) /\ x.cursor # NoStack /\ x.cursor.kind = w.cursor.kind
<1> DEFINE u == TakeOut(w, k, n)
           x == Deduct(u, -n)
           cur == w.slots[k]
           car == w.cursor
<1>1. /\ w \in Views(ch) /\ Fits(w) /\ car \in AStack /\ car \in Legal /\ cur \in AStack
      /\ \A m \in Kind : Held(w, m) = t[m] /\ Held(w, m) \in Nat
  BY LikeIs, ViewIs, LegalIs, HeldIs
<1>2. /\ cur # NoStack /\ car # NoStack /\ cur.kind = car.kind /\ car.kind \in Kind /\ car.count \in Nat
      /\ car.count > 0 /\ MaxStack[car.kind] \in Nat
  <2>1. cur # NoStack /\ car # NoStack /\ cur.kind = car.kind
    BY DEF Same
  <2>2. car.kind \in Kind /\ car.count \in Nat /\ car.count # 0
    BY <1>1, <2>1, StackIs
  <2> QED
    BY <2>1, <2>2, SizesAre
<1>3. /\ u \in Views(ch) /\ Fits(u) /\ u.cursor = car
      /\ \A m \in Kind : Held(u, m) = Held(w, m) - Of(cur.kind, n, m)
  BY <1>1, <1>2, TakeOutIs
<1> HIDE DEF u
<1>4. -n \in Int /\ -n <= car.count /\ car.count - (-n) <= MaxStack[car.kind] /\ car.count - (-n) > 0
  BY <1>2
<1>5. /\ x \in Views(ch) /\ Fits(x) /\ x.cursor.count = car.count - (-n)
      /\ x.cursor # NoStack => x.cursor.kind = car.kind
      /\ \A m \in Kind : Held(x, m) = Held(u, m) - Of(car.kind, -n, m)
  BY <1>2, <1>3, <1>4, DeductIs
<1>6. x.cursor # NoStack
  BY <1>4, <1>5, NoStackIs
<1> HIDE DEF x, car, cur
<1>7. ASSUME NEW m \in Kind PROVE Held(x, m) = t[m]
  BY <1>1, <1>2, <1>3, <1>5 DEF Of
<1> QED
  BY <1>5, <1>6, <1>7, LikeIs DEF x, u, car

\* The double click.
LEMMA PickupAllIs ==
    ASSUME NEW ch \in BOOLEAN, NEW t, NEW v \in Like(ch, t), NEW i \in SlotsOf(ch), NEW back \in BOOLEAN
    PROVE  PickupAll(v, i, back) \in Like(ch, t)
<1> DEFINE up == From(0, Cardinality(Window(v)) - 1)
           order == IF back THEN Reverse(up) ELSE up
           limit == MaxStack[v.cursor.kind]
           Gather(w, k) ==
               LET n == Min({w.slots[k].count, limit - w.cursor.count})
               IN  IF ~Same(w.slots[k], w.cursor) \/ n <= 0 THEN w
                   ELSE Deduct(TakeOut(w, k, n), -n)
           NotFull(w, k) == IF w.slots[k].count = limit THEN w ELSE Gather(w, k)
           X == {w \in Like(ch, t) : w.cursor # NoStack /\ w.cursor.kind = v.cursor.kind}
           n == Len(order)
           T == 1..n
           NF(g, b, S) == g = [s \in SUBSET S |-> IF s = {} THEN b
                                                 ELSE NotFull(g[s \ {Max(s)}], order[Max(s)])]
           GF(g, b, S) == g = [s \in SUBSET S |-> IF s = {} THEN b
                                                 ELSE Gather(g[s \ {Max(s)}], order[Max(s)])]
           a1 == (CHOOSE g : NF(g, v, DOMAIN order))[DOMAIN order]
           a2 == (CHOOSE g : GF(g, a1, DOMAIN order))[DOMAIN order]
<1>1. PickupAll(v, i, back) = IF v.cursor = NoStack \/ v.slots[i] # NoStack THEN v ELSE a2
  BY DEF PickupAll, FoldLeft, MapThenFoldSet
<1>2. v \in Views(ch) /\ v.chest = ch
  BY LikeIs, ViewIs
<1>3. DOMAIN order = T /\ n \in Nat /\ \A j \in T : order[j] \in SlotsOf(ch)
  <2>1. order \in Seq(SlotsOf(ch))
    BY <1>2, SweepIs
  <2> HIDE DEF order
  <2> QED
    BY <2>1
<1> HIDE DEF order
<1>4. ASSUME NEW w \in X, NEW k \in SlotsOf(ch) PROVE Gather(w, k) \in X
  <2> DEFINE got == w.slots[k].count
             gap == limit - w.cursor.count
             m == Min({got, gap})
  <2>1. w \in Like(ch, t) /\ w \in Views(ch) /\ w.cursor # NoStack /\ w.cursor.kind = v.cursor.kind
    BY LikeIs
  <2>2. got \in Nat /\ gap \in Int
    <3>1. w.cursor.kind \in Kind /\ w.cursor.count \in Nat
      BY <2>1, ViewIs, LegalIs, StackIs
    <3>2. limit \in Nat
      BY <2>1, <3>1, SizesAre
    <3> QED
      BY <2>1, <3>1, <3>2, ViewIs, LegalIs, StackIs
  <2>3. Gather(w, k) = IF ~Same(w.slots[k], w.cursor) \/ m <= 0 THEN w
                       ELSE Deduct(TakeOut(w, k, m), -m)
    OBVIOUS
  <2> HIDE DEF Gather
  <2>4. CASE ~Same(w.slots[k], w.cursor) \/ m <= 0
    BY <2>3, <2>4
  <2>5. CASE Same(w.slots[k], w.cursor) /\ ~(m <= 0)
    <3>1. m \in Nat /\ m <= got /\ m <= gap
      <4> HIDE DEF got, gap
      <4> QED
        BY <2>2, <2>5, LeastPair
    <3> DEFINE x == Deduct(TakeOut(w, k, m), -m)
    <3> HIDE DEF m
    <3>2. x \in Like(ch, t) /\ x.cursor # NoStack /\ x.cursor.kind = w.cursor.kind
      BY <2>1, <2>5, <3>1, GatherIs
    <3>3. Gather(w, k) = x
      BY <2>3, <2>5
    <3> HIDE DEF x
    <3> QED
      BY <2>1, <3>2, <3>3
  <2> QED
    BY <2>4, <2>5
<1> HIDE DEF Gather
<1>5. \A j \in T : \A w \in X : Gather(w, order[j]) \in X /\ NotFull(w, order[j]) \in X
  BY <1>3, <1>4
<1> HIDE DEF NotFull, X, n
<1>6. ASSUME NEW b \in X PROVE (CHOOSE g : NF(g, b, T))[T] \in X
  <2> DEFINE q == [j \in T |-> [w \in X |-> NotFull(w, order[j])]]
  <2>1. \A j \in T : \A w \in X : q[j][w] \in X
    BY <1>5
  <2>2. PICK g : Goes(g, n, X, b, q)
    <3> HIDE DEF q
    <3> QED
      BY <1>3, <2>1, FoldGoes
  <2>3. \A s \in SUBSET T : s # {} => Max(s) \in T /\ s \ {Max(s)} \in SUBSET T
    BY <1>3, LastOf
  <2>4. \A s \in SUBSET T : s # {} => g[s] = NotFull(g[s \ {Max(s)}], order[Max(s)])
    BY <2>2, <2>3 DEF Goes
  <2>5. NF(g, b, T)
    BY <2>2, <2>4 DEF Goes
  <2> HIDE DEF NF
  <2> DEFINE f == CHOOSE f : NF(f, b, T)
  <2>6. NF(f, b, T)
    BY <2>5
  <2> HIDE DEF f
  <2>7. f[{}] = b /\ \A s \in SUBSET T : s # {} => f[s] = NotFull(f[s \ {Max(s)}], order[Max(s)])
    BY <2>6 DEF NF
  <2>8. \A s \in SUBSET T : s # {} /\ f[s \ {Max(s)}] \in X => f[s] \in X
    <3> SUFFICES ASSUME NEW s \in SUBSET T, s # {}, f[s \ {Max(s)}] \in X PROVE f[s] \in X
      OBVIOUS
    <3>1. f[s] = NotFull(f[s \ {Max(s)}], order[Max(s)]) /\ Max(s) \in T
      BY <2>3, <2>7
    <3> QED
      BY <1>5, <3>1
  <2>9. f[T] \in X
    BY <1>3, <2>7, <2>8, FoldKeeps
  <2> QED
    BY <2>9 DEF f
<1>7. ASSUME NEW b \in X PROVE (CHOOSE g : GF(g, b, T))[T] \in X
  <2> DEFINE q == [j \in T |-> [w \in X |-> Gather(w, order[j])]]
  <2>1. \A j \in T : \A w \in X : q[j][w] \in X
    BY <1>5
  <2>2. PICK g : Goes(g, n, X, b, q)
    <3> HIDE DEF q
    <3> QED
      BY <1>3, <2>1, FoldGoes
  <2>3. \A s \in SUBSET T : s # {} => Max(s) \in T /\ s \ {Max(s)} \in SUBSET T
    BY <1>3, LastOf
  <2>4. \A s \in SUBSET T : s # {} => g[s] = Gather(g[s \ {Max(s)}], order[Max(s)])
    BY <2>2, <2>3 DEF Goes
  <2>5. GF(g, b, T)
    BY <2>2, <2>4 DEF Goes
  <2> HIDE DEF GF
  <2> DEFINE f == CHOOSE f : GF(f, b, T)
  <2>6. GF(f, b, T)
    BY <2>5
  <2> HIDE DEF f
  <2>7. f[{}] = b /\ \A s \in SUBSET T : s # {} => f[s] = Gather(f[s \ {Max(s)}], order[Max(s)])
    BY <2>6 DEF GF
  <2>8. \A s \in SUBSET T : s # {} /\ f[s \ {Max(s)}] \in X => f[s] \in X
    <3> SUFFICES ASSUME NEW s \in SUBSET T, s # {}, f[s \ {Max(s)}] \in X PROVE f[s] \in X
      OBVIOUS
    <3>1. f[s] = Gather(f[s \ {Max(s)}], order[Max(s)]) /\ Max(s) \in T
      BY <2>3, <2>7
    <3> QED
      BY <1>5, <3>1
  <2>9. f[T] \in X
    BY <1>3, <2>7, <2>8, FoldKeeps
  <2> QED
    BY <2>9 DEF f
<1> HIDE DEF NF, GF
<1>8. CASE v.cursor = NoStack \/ v.slots[i] # NoStack
  BY <1>1, <1>8
<1>9. CASE ~(v.cursor = NoStack \/ v.slots[i] # NoStack)
  <2>1. v \in X
    BY <1>9 DEF X
  <2>2. a1 \in X
    BY <1>3, <1>6, <2>1
  <2>3. a2 \in X
    BY <1>3, <1>7, <2>2
  <2> HIDE DEF a2
  <2> QED
    BY <1>1, <1>9, <2>3 DEF X
<1> QED
  BY <1>8, <1>9

\* Some units of slot i move to slot k.
LEMMA ShiftIs ==
    ASSUME NEW ch \in BOOLEAN, NEW t, NEW w \in Like(ch, t), NEW i \in SlotsOf(ch), NEW k \in SlotsOf(ch),
           NEW st, st = w.slots[i], st # NoStack, NEW n \in Nat, n <= st.count,
           n > 0 => w.slots[k] = NoStack \/ Same(w.slots[k], st),
           n > 0 => w.slots[k].count + n <= MaxIn(w, k, st)
    PROVE  TakeOut(Put(w, k, st, n), i, n) \in Like(ch, t)
<1> DEFINE u == Put(w, k, st, n)
           x == TakeOut(u, i, n)
<1>1. /\ w \in Views(ch) /\ Fits(w) /\ st \in AStack /\ st.kind \in Kind /\ st.count \in Nat
      /\ w.slots[k].count \in Nat
      /\ \A m \in Kind : Held(w, m) = t[m] /\ Held(w, m) \in Nat
  BY LikeIs, ViewIs, LegalIs, HeldIs, StackIs
<1>2. n > 0 => /\ w.slots[k].count + n <= MaxStack[st.kind]
               /\ IsArmor(w, k) => w.slots[k].count + n <= 1
  <2>1. MaxStack[st.kind] \in Nat /\ MaxStack[st.kind] > 0
    BY <1>1, SizesAre
  <2> DEFINE c == w.slots[k].count
             max == MaxStack[st.kind]
  <2>2. n > 0 => c + n <= IF IsArmor(w, k) THEN 1 ELSE max
    BY DEF MaxIn
  <2> HIDE DEF c, max
  <2>3. n > 0 => c + n <= max /\ (IsArmor(w, k) => c + n <= 1)
    BY <1>1, <2>1, <2>2 DEF c, max
  <2> QED
    BY <2>3 DEF c, max
<1>3. /\ u \in Views(ch) /\ Fits(u) /\ u.slots[k].count = w.slots[k].count + n
      /\ n > 0 => u.slots[k] # NoStack /\ u.slots[k].kind = st.kind
      /\ \A j \in SlotsOf(ch) : j # k => u.slots[j] = w.slots[j]
      /\ \A m \in Kind : Held(u, m) = Held(w, m) + Of(st.kind, n, m)
  BY <1>1, <1>2, PutIs
<1>4. n = 0 => u = w
  BY DEF Put
<1> HIDE DEF u
<1>5. u.slots[i] # NoStack /\ u.slots[i].kind = st.kind /\ n <= u.slots[i].count
  <2>1. CASE n = 0
    BY <1>1, <1>4, <2>1
  <2>2. CASE n > 0 /\ i = k
    BY <1>1, <1>3, <2>2
  <2>3. CASE n > 0 /\ i # k
    BY <1>3, <2>3
  <2> QED
    BY <2>1, <2>2, <2>3
<1>6. /\ x \in Views(ch) /\ Fits(x)
      /\ \A m \in Kind : Held(x, m) = Held(u, m) - Of(st.kind, n, m)
  BY <1>3, <1>5, TakeOutIs
<1> HIDE DEF x
<1>7. ASSUME NEW m \in Kind PROVE Held(x, m) = t[m]
  BY <1>1, <1>3, <1>6 DEF Of
<1> QED
  BY <1>6, <1>7, LikeIs DEF x, u

\* A stack moved to the slots of a range.
LEMMA MoveToIs ==
    ASSUME NEW ch \in BOOLEAN, NEW t, NEW v \in Like(ch, t), NEW i \in SlotsOf(ch),
           NEW range \in Seq(SlotsOf(ch)), NEW reverse \in BOOLEAN
    PROVE  MoveTo(v, i, range, reverse) \in Like(ch, t)
<1> DEFINE order == IF reverse THEN Reverse(range) ELSE range
           Merge(w, k) ==
               LET st == w.slots[i]
                   n == IF Same(w.slots[k], st)
                        THEN Max({0, Min({st.count, MaxIn(w, k, st) - w.slots[k].count})})
                        ELSE 0
               IN  IF n = 0 THEN w ELSE TakeOut(Put(w, k, st, n), i, n)
           n == Len(order)
           T == 1..n
           X == Like(ch, t)
           MF(g, b, S) == g = [s \in SUBSET S |-> IF s = {} THEN b
                                                 ELSE Merge(g[s \ {Max(s)}], order[Max(s)])]
           merged == IF MaxStack[v.slots[i].kind] > 1
                     THEN (CHOOSE g : MF(g, v, DOMAIN order))[DOMAIN order] ELSE v
           st == merged.slots[i]
           free == {k \in DOMAIN order : /\ merged.slots[order[k]] = NoStack
                                         /\ MayPlace(merged, order[k], st)}
           to == order[Min(free)]
           some == Min({st.count, MaxIn(merged, to, st)})
<1>1. MoveTo(v, i, range, reverse) =
        IF st = NoStack \/ free = {} THEN merged ELSE TakeOut(Put(merged, to, st, some), i, some)
  BY DEF MoveTo, FoldLeft, MapThenFoldSet
<1>2. DOMAIN order = T /\ n \in Nat /\ \A j \in T : order[j] \in SlotsOf(ch)
  <2>1. order \in Seq(SlotsOf(ch))
    BY ReverseIs
  <2> HIDE DEF order
  <2> QED
    BY <2>1
<1> HIDE DEF order
<1>3. ASSUME NEW w \in X, NEW k \in SlotsOf(ch) PROVE Merge(w, k) \in X
  <2> DEFINE cur == w.slots[i]
             max == MaxIn(w, k, cur)
             has == w.slots[k].count
             all == cur.count
             gap == max - has
             low == Min({all, gap})
             m == IF Same(w.slots[k], cur) THEN Max({0, low}) ELSE 0
  <2>1. Merge(w, k) = IF m = 0 THEN w ELSE TakeOut(Put(w, k, cur, m), i, m)
    OBVIOUS
  <2>2. w \in Views(ch) /\ cur \in AStack /\ w.slots[k] \in AStack /\ all \in Nat /\ has \in Nat
    BY LikeIs, ViewIs, LegalIs, StackIs
  <2> HIDE DEF Merge
  <2>3. CASE ~Same(w.slots[k], cur)
    BY <2>1, <2>3
  <2>4. CASE Same(w.slots[k], cur)
    <3>1. cur # NoStack /\ cur.kind \in Kind
      BY <2>2, <2>4, SameIs
    <3>2. max \in Nat
      BY <3>1, SizesAre DEF MaxIn
    <3>3. m = Max({0, low})
      BY <2>4
    <3> HIDE DEF m, max, has, all
    <3>4. gap \in Int
      BY <2>2, <3>2
    <3> HIDE DEF gap
    <3>5. low \in Int /\ low <= all /\ low <= gap
      BY <2>2, <3>4, LeastPair
    <3> HIDE DEF low
    <3>6. m = IF low > 0 THEN low ELSE 0
      BY <3>3, <3>5, NotBelow
    <3>7. m \in Nat /\ m <= all /\ (m > 0 => has + m <= max)
      BY <2>2, <3>2, <3>4, <3>5, <3>6 DEF gap
    <3>8. TakeOut(Put(w, k, cur, m), i, m) \in X
      BY <2>4, <3>1, <3>7, ShiftIs DEF has, all, max
    <3> QED
      BY <2>1, <3>8
  <2> QED
    BY <2>3, <2>4
<1> HIDE DEF Merge
<1>4. \A j \in T : \A w \in X : Merge(w, order[j]) \in X
  BY <1>2, <1>3
<1> HIDE DEF X, n
<1>5. ASSUME NEW b \in X PROVE (CHOOSE g : MF(g, b, T))[T] \in X
  <2> DEFINE q == [j \in T |-> [w \in X |-> Merge(w, order[j])]]
  <2>1. \A j \in T : \A w \in X : q[j][w] \in X
    BY <1>4
  <2>2. PICK g : Goes(g, n, X, b, q)
    <3> HIDE DEF q
    <3> QED
      BY <1>2, <2>1, FoldGoes
  <2>3. \A s \in SUBSET T : s # {} => Max(s) \in T /\ s \ {Max(s)} \in SUBSET T
    BY <1>2, LastOf
  <2>4. \A s \in SUBSET T : s # {} => g[s] = Merge(g[s \ {Max(s)}], order[Max(s)])
    BY <2>2, <2>3 DEF Goes
  <2>5. MF(g, b, T)
    BY <2>2, <2>4 DEF Goes
  <2> HIDE DEF MF
  <2> DEFINE f == CHOOSE f : MF(f, b, T)
  <2>6. MF(f, b, T)
    BY <2>5
  <2> HIDE DEF f
  <2>7. f[{}] = b /\ \A s \in SUBSET T : s # {} => f[s] = Merge(f[s \ {Max(s)}], order[Max(s)])
    BY <2>6 DEF MF
  <2>8. \A s \in SUBSET T : s # {} /\ f[s \ {Max(s)}] \in X => f[s] \in X
    <3> SUFFICES ASSUME NEW s \in SUBSET T, s # {}, f[s \ {Max(s)}] \in X PROVE f[s] \in X
      OBVIOUS
    <3>1. f[s] = Merge(f[s \ {Max(s)}], order[Max(s)]) /\ Max(s) \in T
      BY <2>3, <2>7
    <3> QED
      BY <1>4, <3>1
  <2>9. f[T] \in X
    BY <1>2, <2>7, <2>8, FoldKeeps
  <2> QED
    BY <2>9 DEF f
<1> HIDE DEF MF
<1>6. merged \in X
  BY <1>2, <1>5 DEF X
<1> HIDE DEF merged
<1>7. CASE st = NoStack \/ free = {}
  BY <1>1, <1>6, <1>7 DEF X
<1>8. CASE st # NoStack /\ free # {}
  <2>1. free \in SUBSET Nat
    BY <1>2
  <2>2. Min(free) \in free
    <3>1. \E k \in free : \A m \in free : k <= m
      BY <1>8, <2>1, LeastNumber
    <3> HIDE DEF free
    <3> QED
      BY <3>1 DEF Min
  <2>3. to \in SlotsOf(ch) /\ merged.slots[to] = NoStack
    BY <1>2, <2>2
  <2> HIDE DEF to
  <2> DEFINE max == MaxIn(merged, to, st)
             all == st.count
  <2>4. merged \in Views(ch) /\ st.kind \in Kind /\ all \in Nat
    BY <1>6, <1>8, LikeIs, ViewIs, LegalIs, StackIs DEF X
  <2>5. max \in Nat
    BY <2>4, SizesAre DEF MaxIn
  <2>6. some \in Nat /\ some <= all /\ some <= max
    <3>1. some = Min({all, max})
      OBVIOUS
    <3> HIDE DEF some, max, all
    <3> QED
      BY <2>4, <2>5, <3>1, LeastPair
  <2> HIDE DEF some
  <2>7. merged.slots[to].count + some <= max
    BY <2>3, <2>5, <2>6, NoStackIs
  <2>8. TakeOut(Put(merged, to, st, some), i, some) \in Like(ch, t)
    BY <1>6, <1>8, <2>3, <2>6, <2>7, ShiftIs DEF X
  <2> QED
    BY <1>1, <1>8, <2>8
<1> QED
  BY <1>7, <1>8

\* One shift-click.
LEMMA QuickMoveIs ==
    ASSUME NEW ch \in BOOLEAN, NEW t, NEW v \in Like(ch, t), NEW i \in SlotsOf(ch)
    PROVE  QuickMove(v, i) \in Like(ch, t)
<1> DEFINE p == Piece[v.slots[i].kind]
           main == From(MainStart, HotbarStart - 1)
           hotbar == From(HotbarStart, OffhandSlot - 1)
           both == From(MainStart, OffhandSlot - 1)
<1>1. v \in Views(ch) /\ v.chest = ch /\ v.slots[i] \in AStack
  BY LikeIs, ViewIs, LegalIs
<1>2. CASE v.slots[i] = NoStack
  BY <1>2 DEF QuickMove
<1>3. CASE v.slots[i] # NoStack /\ v.chest
  <2> DEFINE inv0 == From(ChestSlots, OffIn(v) - 1)
             ch0 == From(0, ChestSlots - 1)
  <2>1. inv0 \in Seq(SlotsOf(ch)) /\ ch0 \in Seq(SlotsOf(ch))
    <3>1. OffIn(v) = ChestSlots + MainSlots + HotSlots /\ SlotsOf(ch) = 0..(ChestSlots + MainSlots + HotSlots)
      BY <1>1, <1>3 DEF OffIn, SlotsOf
    <3>2. /\ ChestSlots \in Int /\ OffIn(v) - 1 \in Int /\ ChestSlots <= (OffIn(v) - 1) + 1
          /\ ChestSlots..(OffIn(v) - 1) \subseteq SlotsOf(ch)
      BY <3>1, SizesAre
    <3>3. ChestSlots - 1 \in Int /\ 0 <= (ChestSlots - 1) + 1 /\ 0..(ChestSlots - 1) \subseteq SlotsOf(ch)
      BY <3>1, SizesAre
    <3>4. inv0 \in Seq(SlotsOf(ch))
      BY <3>2, FromIs
    <3>5. ch0 \in Seq(SlotsOf(ch))
      <4> DEFINE b == ChestSlots - 1
      <4>1. b \in Int /\ 0 <= b + 1 /\ 0..b \subseteq SlotsOf(ch)
        BY <3>3
      <4> HIDE DEF b
      <4>2. From(0, b) \in Seq(SlotsOf(ch))
        BY <4>1, FromIs
      <4> QED
        BY <4>2 DEF b
    <3> QED
      BY <3>4, <3>5
  <2>2. QuickMove(v, i) = IF i < ChestSlots THEN MoveTo(v, i, inv0, TRUE) ELSE MoveTo(v, i, ch0, FALSE)
    BY <1>3 DEF QuickMove
  <2> HIDE DEF inv0, ch0
  <2> QED
    BY <2>1, <2>2, MoveToIs
<1>4. CASE v.slots[i] # NoStack /\ ~v.chest
  <2>1. SlotsOf(ch) = 0..OffhandSlot /\ v.slots[i].kind \in Kind
    BY <1>1, <1>4, SizesAre, StackIs DEF SlotsOf
  <2>2. main \in Seq(SlotsOf(ch)) /\ hotbar \in Seq(SlotsOf(ch)) /\ both \in Seq(SlotsOf(ch))
    <3>1. /\ MainStart \in Int /\ HotbarStart - 1 \in Int /\ MainStart <= (HotbarStart - 1) + 1
          /\ MainStart..(HotbarStart - 1) \subseteq SlotsOf(ch)
      BY <2>1, SizesAre
    <3>2. /\ HotbarStart \in Int /\ OffhandSlot - 1 \in Int /\ HotbarStart <= (OffhandSlot - 1) + 1
          /\ HotbarStart..(OffhandSlot - 1) \subseteq SlotsOf(ch)
      BY <2>1, SizesAre
    <3>3. MainStart <= (OffhandSlot - 1) + 1 /\ MainStart..(OffhandSlot - 1) \subseteq SlotsOf(ch)
      BY <2>1, SizesAre
    <3> QED
      BY <3>1, <3>2, <3>3, FromIs
  <2>3. CASE i = 0
    BY <1>4, <2>3 DEF QuickMove
  <2>4. CASE i # 0 /\ i \in 1..(MainStart - 1)
    <3>1. QuickMove(v, i) = MoveTo(v, i, both, FALSE)
      BY <1>4, <2>4 DEF QuickMove
    <3> QED
      BY <2>2, <3>1, MoveToIs
  <2>5. CASE i # 0 /\ i \notin 1..(MainStart - 1)
    <3> DEFINE worn == <<ArmorStart + p>>
               off == <<OffhandSlot>>
               rest == IF i \in MainStart..(HotbarStart - 1) THEN hotbar
                       ELSE IF i = OffhandSlot THEN both ELSE main
    <3>1. QuickMove(v, i) = IF p < Shield /\ v.slots[ArmorStart + p] = NoStack
                            THEN MoveTo(v, i, worn, FALSE)
                            ELSE IF p = Shield /\ v.slots[OffhandSlot] = NoStack
                            THEN MoveTo(v, i, off, FALSE)
                            ELSE MoveTo(v, i, rest, FALSE)
      BY <1>4, <2>5 DEF QuickMove
    <3>2. p < Shield => worn \in Seq(SlotsOf(ch))
      <4>1. p \in Nat
        <5>1. \A k \in Kind : Piece[k] \in 0..NotWorn
          BY InventoryAssumption
        <5> QED
          BY <2>1, <5>1
      <4> HIDE DEF p
      <4>2. p < Shield => ArmorStart + p \in 0..OffhandSlot
        BY <4>1, SizesAre DEF Shield
      <4> QED
        BY <2>1, <4>2
    <3>3. off \in Seq(SlotsOf(ch)) /\ rest \in Seq(SlotsOf(ch))
      <4>1. OffhandSlot \in 0..OffhandSlot
        BY SizesAre
      <4> HIDE DEF main, hotbar, both
      <4> QED
        BY <2>1, <2>2, <4>1
    <3> HIDE DEF worn, off, rest, p
    <3> QED
      BY <3>1, <3>2, <3>3, MoveToIs
  <2> QED
    BY <2>3, <2>4, <2>5
<1> QED
  BY <1>2, <1>3, <1>4

LEMMA FirstOf == ASSUME NEW T PROVE \A s \in SUBSET T : s # {} => Least(s) \in s
BY DEF Least

\* A shift-click repeated.
LEMMA QuickMoveAllIs ==
    ASSUME NEW ch \in BOOLEAN, NEW t, NEW v \in Like(ch, t), NEW i \in SlotsOf(ch)
    PROVE  QuickMoveAll(v, i) \in Like(ch, t)
<1> DEFINE T == Window(v)
           X == Like(ch, t)
           c == [s \in SUBSET T |-> Least(s)]
           h == [s \in SUBSET T |-> [w \in X |-> QuickMove(w, i)]]
           Good == [s \in SUBSET T |-> X]
           F(g) == g = [s \in SUBSET T |-> IF s = {} THEN v
                                           ELSE QuickMove(g[s \ {CHOOSE x \in s : TRUE}], i)]
           f == CHOOSE f : F(f)
<1>1. QuickMoveAll(v, i) = f[T]
  BY DEF QuickMoveAll, FoldSet, MapThenFoldSet
<1>2. IsFiniteSet(T)
  BY LikeIs, ViewIs, SweepIs
<1>3. \A w \in X : QuickMove(w, i) \in X
  BY QuickMoveIs
<1>4. \A s \in SUBSET T : s # {} => c[s] \in s /\ s \ {c[s]} \in SUBSET T
  BY FirstOf
<1> HIDE DEF X, T
<1>5. \E g : F(g)
  <2>1. v \in Good[{}] /\ \A s \in SUBSET T : s # {} => \A w \in Good[s \ {c[s]}] : h[s][w] \in Good[s]
    BY <1>3, <1>4 DEF X
  <2>2. PICK g : Folded(g, T, v, c, h) /\ \A s \in SUBSET T : g[s] \in Good[s]
    <3> HIDE DEF c, h, Good
    <3> QED
      BY <1>2, <1>4, <2>1, FoldExists
  <2>3. \A s \in SUBSET T : s # {} => h[s][g[s \ {c[s]}]] = QuickMove(g[s \ {CHOOSE x \in s : TRUE}], i)
    BY <1>4, <2>2 DEF Least
  <2>4. F(g)
    BY <2>2, <2>3 DEF Folded
  <2> QED
    BY <2>4
<1>6. F(f)
  <2> HIDE DEF F
  <2> QED
    BY <1>5
<1> HIDE DEF f
<1>7. f[{}] = v /\ \A s \in SUBSET T : s # {} => f[s] = QuickMove(f[s \ {c[s]}], i)
  BY <1>6 DEF Least
<1>8. f[{}] \in Good[{}]
  BY <1>7 DEF X
<1>9. \A s \in SUBSET T : s # {} /\ f[s \ {c[s]}] \in Good[s \ {c[s]}] => f[s] \in Good[s]
  BY <1>3, <1>4, <1>7
<1>10. f[T] \in Good[T]
  <2> HIDE DEF c, Good, F
  <2> QED
    BY <1>2, <1>4, <1>8, <1>9, FoldStays
<1> QED
  BY <1>1, <1>10 DEF X

-----------------------------------------------------------------------------
(* Drags. *)

Drags == {NoDrag} \cup {d \in [on : {TRUE}, right : BOOLEAN, slots : SUBSET Int, size : Int] :
                           d.slots \subseteq 0..(d.size - 1)}

LEMMA DragIs ==
    ASSUME NEW d \in Drags
    PROVE  /\ NoDrag \in Drags /\ ~NoDrag.on /\ d.on \in BOOLEAN
           /\ d.on => /\ d.right \in BOOLEAN /\ d.size \in Int /\ d.slots \subseteq 0..(d.size - 1)
                      /\ IsFiniteSet(d.slots)
<1>1. NoDrag \in Drags /\ ~NoDrag.on
  BY DEF Drags, NoDrag
<1>2. CASE d = NoDrag
  BY <1>1, <1>2 DEF NoDrag
<1>3. CASE d # NoDrag
  <2>1. /\ d.on = TRUE /\ d.right \in BOOLEAN /\ d.size \in Int /\ d.slots \subseteq 0..(d.size - 1)
    BY <1>3 DEF Drags
  <2>2. IsFiniteSet(d.slots)
    <3>1. IsFiniteSet(0..(d.size - 1))
      BY <2>1, FS_Interval
    <3> QED
      BY <2>1, <3>1, FS_Subset
  <2> QED
    BY <1>1, <2>1, <2>2
<1> QED
  BY <1>2, <1>3

\* Shares of what is carried.
LEMMA ShareIs ==
    ASSUME NEW all \in Nat, NEW n \in Nat \ {0}, n <= all
    PROVE  (all \div n) \in Nat /\ all \div n >= 1 /\ (all \div n) * n <= all
OBVIOUS

LEMMA SharesGrow ==
    ASSUME NEW e \in Nat, NEW m \in Nat, NEW n \in Nat, m <= n
    PROVE  e * m \in Nat /\ e * n \in Nat /\ e * m <= e * n /\ e * (m + 1) = e * m + e
OBVIOUS

\* Some units of the cursor's stack go to slot i.
LEMMA GivesOut ==
    ASSUME NEW ch \in BOOLEAN, NEW t, NEW w \in Like(ch, t), NEW i \in SlotsOf(ch),
           NEW car \in AStack, car # NoStack, w.cursor # NoStack, w.cursor.kind = car.kind,
           NEW n \in Nat, n <= w.cursor.count, w.slots[i] = NoStack \/ Same(w.slots[i], car),
           w.slots[i].count + n <= MaxIn(w, i, car)
    PROVE  LET x == Deduct(Put(w, i, car, n), n)
           IN  /\ x \in Like(ch, t) /\ x.cursor.count = w.cursor.count - n
               /\ x.cursor # NoStack => x.cursor.kind = car.kind
               /\ \A j \in SlotsOf(ch) : j # i => x.slots[j] = w.slots[j]
<1> DEFINE u == Put(w, i, car, n)
           x == Deduct(u, n)
           has == w.slots[i].count
           max == MaxStack[car.kind]
<1>1. /\ w \in Views(ch) /\ Fits(w)
      /\ \A k \in Kind : Held(w, k) = t[k] /\ Held(w, k) \in Nat
  BY LikeIs, ViewIs, HeldIs
<1>2. w.slots[i] \in AStack /\ w.cursor \in AStack /\ w.cursor \in Legal
  BY <1>1, ViewIs, LegalIs
<1>3. car.kind \in Kind /\ has \in Nat /\ w.cursor.count \in Nat
  BY <1>2, StackIs
<1>4. max \in Nat /\ max > 0 /\ w.cursor.count <= max
  BY <1>2, <1>3, LegalIs, SizesAre
<1>5. has + n <= max /\ (IsArmor(w, i) => has + n <= 1)
  <2>1. has + n <= IF IsArmor(w, i) THEN 1 ELSE max
    BY DEF MaxIn
  <2> HIDE DEF has, max
  <2> QED
    BY <1>3, <1>4, <2>1
<1>6. /\ u \in Views(ch) /\ Fits(u) /\ u.cursor = w.cursor
      /\ \A j \in SlotsOf(ch) : j # i => u.slots[j] = w.slots[j]
      /\ \A k \in Kind : Held(u, k) = Held(w, k) + Of(car.kind, n, k)
  BY <1>1, <1>5, PutIs
<1> HIDE DEF u
<1>7. n \in Int /\ n <= w.cursor.count /\ w.cursor.count - n <= MaxStack[w.cursor.kind]
  BY <1>3, <1>4
<1>8. /\ x \in Views(ch) /\ Fits(x) /\ x.slots = u.slots /\ x.cursor.count = w.cursor.count - n
      /\ x.cursor # NoStack => x.cursor.kind = w.cursor.kind
      /\ \A k \in Kind : Held(x, k) = Held(u, k) - Of(car.kind, n, k)
  BY <1>6, <1>7, DeductIs
<1> HIDE DEF x
<1>9. ASSUME NEW k \in Kind PROVE Held(x, k) = t[k]
  BY <1>1, <1>3, <1>6, <1>8 DEF Of
<1>10. x \in Like(ch, t) /\ \A j \in SlotsOf(ch) : j # i => x.slots[j] = w.slots[j]
  BY <1>6, <1>8, <1>9, LikeIs
<1> QED
  BY <1>8, <1>10 DEF x, u

\* What a slot's share of the drag is.
LEMMA DealtIs ==
    ASSUME NEW ch \in BOOLEAN, NEW v \in Views(ch), Fits(v), v.cursor # NoStack,
           NEW i \in SlotsOf(ch), TakesDrag(v, i), NEW e \in Nat
    PROVE  LET n == Min({e, MaxIn(v, i, v.cursor) - v.slots[i].count})
           IN  /\ n \in Nat /\ n <= e /\ v.slots[i].count + n <= MaxIn(v, i, v.cursor)
               /\ v.slots[i] = NoStack \/ Same(v.slots[i], v.cursor)
<1> DEFINE has == v.slots[i].count
           stack == MaxStack[v.cursor.kind]
           max == MaxIn(v, i, v.cursor)
           gap == max - has
           n == Min({e, gap})
<1>1. /\ has \in Nat /\ stack \in Nat /\ stack > 0
  BY ViewIs, LegalIs, StackIs, SizesAre
<1>2. (v.slots[i] = NoStack \/ Same(v.slots[i], v.cursor)) /\ has <= stack
  <2>1. v.slots[i] = NoStack => has = 0
    BY NoStackIs
  <2> QED
    BY <1>1, <2>1 DEF TakesDrag
<1>3. max = (IF IsArmor(v, i) THEN 1 ELSE stack) /\ (IsArmor(v, i) => has <= 1)
  BY ViewIs DEF MaxIn, Fits
<1> HIDE DEF has, max, stack
<1>4. gap \in Nat /\ max \in Nat
  BY <1>1, <1>2, <1>3
<1> HIDE DEF gap
<1>5. n \in Nat /\ n <= e /\ n <= gap
  BY <1>4, LeastPair
<1> HIDE DEF n
<1>6. has + n <= max
  BY <1>1, <1>4, <1>5 DEF gap
<1> QED
  BY <1>2, <1>5, <1>6 DEF n, gap, max, has

\* The end of a drag.
LEMMA DragEndIs ==
    ASSUME NEW ch \in BOOLEAN, NEW t, NEW v \in Like(ch, t), NEW d \in Drags
    PROVE  DragEnd(v, d) \in Like(ch, t)
<1> DEFINE car == v.cursor
           T == d.slots
           all == car.count
           N == Cardinality(T)
           each == IF d.right THEN 1 ELSE all \div N
           Deal(i, w) ==
               IF ~TakesDrag(v, i) \/ all < N THEN w
               ELSE LET n == Min({each, MaxIn(v, i, car) - v.slots[i].count})
                    IN  Deduct(Put(w, i, car, n), n)
           F(g) == g = [s \in SUBSET T |-> IF s = {} THEN v
                                           ELSE Deal(CHOOSE x \in s : TRUE, g[s \ {CHOOSE x \in s : TRUE}])]
           f == CHOOSE f : F(f)
<1>1. DragEnd(v, d) = IF ~d.on \/ car = NoStack \/ d.size # Size(v) \/ T = {} THEN v
                      ELSE IF N = 1 THEN Pickup(v, CHOOSE i \in T : TRUE, d.right)
                      ELSE f[T]
  BY DEF DragEnd, FoldSet, MapThenFoldSet
<1>2. /\ v \in Views(ch) /\ Fits(v) /\ v.chest = ch /\ car \in AStack /\ all \in Nat
  BY LikeIs, ViewIs, LegalIs, StackIs
<1>3. CASE ~d.on \/ car = NoStack \/ d.size # Size(v) \/ T = {}
  BY <1>1, <1>3
<1>4. CASE d.on /\ car # NoStack /\ d.size = Size(v) /\ T # {}
  <2>1. d.right \in BOOLEAN /\ IsFiniteSet(T) /\ T \subseteq SlotsOf(ch) /\ N \in Nat /\ N # 0
    <3>1. d.right \in BOOLEAN /\ T \subseteq 0..(d.size - 1) /\ IsFiniteSet(T)
      BY <1>4, DragIs
    <3>2. SlotsOf(ch) = 0..OffIn(v) /\ Size(v) <= OffIn(v) + 1 /\ Size(v) \in Nat /\ OffIn(v) \in Nat
      BY <1>2, WindowIs
    <3>3. 0..(d.size - 1) \subseteq SlotsOf(ch)
      BY <1>4, <3>2
    <3> QED
      BY <1>4, <3>1, <3>3, FS_CardinalityType, FS_EmptySet
  <2>2. CASE N = 1
    <3> DEFINE i == CHOOSE i \in T : TRUE
    <3>1. i \in SlotsOf(ch)
      BY <1>4, <2>1
    <3>2. DragEnd(v, d) = Pickup(v, i, d.right)
      BY <1>1, <1>4, <2>2
    <3> HIDE DEF i
    <3> QED
      BY <2>1, <3>1, <3>2, PickupIs
  <2>3. CASE N # 1
    <3>1. DragEnd(v, d) = f[T]
      BY <1>1, <1>4, <2>3
    <3> DEFINE Good == [s \in SUBSET T |->
                           {w \in Like(ch, t) : /\ w.cursor.count + each * Cardinality(s) >= all
                                                /\ w.cursor # NoStack => w.cursor.kind = car.kind
                                                /\ \A j \in T \ s : w.slots[j] = v.slots[j]}]
               c == [s \in SUBSET T |-> Least(s)]
               h == [s \in SUBSET T |-> [w \in Like(ch, t) |-> Deal(Least(s), w)]]
    <3>2. \A s \in SUBSET T : s # {} => c[s] \in s /\ s \ {c[s]} \in SUBSET T
      BY FirstOf
    <3>3. ASSUME NEW s \in SUBSET T, s # {}, NEW w \in Good[s \ {c[s]}] PROVE Deal(c[s], w) \in Good[s]
      <4> DEFINE i == c[s]
                 r == s \ {i}
                 m == Cardinality(r)
      <4>1. i \in s /\ i \in SlotsOf(ch) /\ r \in SUBSET T /\ c[s] = i
        BY <2>1, <3>2, <3>3
      <4>2. m \in Nat /\ Cardinality(s) = m + 1 /\ m + 1 <= N
        <5>1. IsFiniteSet(s) /\ Cardinality(s) <= N /\ IsFiniteSet(r)
          BY <2>1, FS_Subset
        <5>2. Cardinality(r) = Cardinality(s) - 1
          BY <4>1, <5>1, FS_RemoveElement
        <5>3. Cardinality(s) \in Nat /\ Cardinality(r) \in Nat
          BY <5>1, FS_CardinalityType
        <5> HIDE DEF r, N
        <5> QED
          BY <2>1, <5>1, <5>2, <5>3
      <4>3. /\ w \in Like(ch, t) /\ w.cursor.count + each * m >= all
            /\ w.cursor # NoStack => w.cursor.kind = car.kind
            /\ \A j \in T \ r : w.slots[j] = v.slots[j]
        BY <3>3, <4>1
      <4> HIDE DEF i
      <4>4. w.cursor.count \in Nat /\ (w.cursor = NoStack <=> w.cursor.count = 0)
        BY <4>3, LikeIs, ViewIs, LegalIs, StackIs
      <4>5. w.slots[i] = v.slots[i] /\ \A j \in T \ s : w.slots[j] = v.slots[j]
        BY <4>1, <4>3
      <4> DEFINE x == Deal(i, w)
      <4>6. CASE ~TakesDrag(v, i) \/ all < N
        <5>1. x = w
          BY <4>6
        <5>2. w.cursor.count + each * (m + 1) >= all
          <6>1. each \in Nat
            BY SMTT(20), <1>2, <2>1
          <6> HIDE DEF each, m, all
          <6> QED
            BY <1>2, <4>2, <4>3, <4>4, <6>1
        <5> HIDE DEF x, each, all, m
        <5> QED
          BY <4>1, <4>2, <4>3, <4>5, <5>1, <5>2 DEF x, i
      <4>7. CASE TakesDrag(v, i) /\ ~(all < N)
        <5>1. each \in Nat /\ each >= 1 /\ each * N <= all
          <6>1. N <= all /\ N \in Nat \ {0}
            BY <1>2, <2>1, <4>7
          <6> HIDE DEF N, all
          <6> QED
            BY <1>2, <2>1, <6>1, ShareIs
        <5> DEFINE n == Min({each, MaxIn(v, i, car) - v.slots[i].count})
                   y == Deduct(Put(w, i, car, n), n)
        <5>2. x = y
          BY <4>7
        <5> HIDE DEF x, each, all, m, N
        <5>3. each * m + each <= all
          BY <1>2, <2>1, <4>2, <5>1, SharesGrow
        <5>4. each <= w.cursor.count /\ w.cursor # NoStack
          BY <1>2, <4>2, <4>3, <4>4, <5>1, <5>3, SharesGrow
        <5>9. /\ n \in Nat /\ n <= each /\ v.slots[i].count + n <= MaxIn(v, i, v.cursor)
              /\ v.slots[i] = NoStack \/ Same(v.slots[i], v.cursor)
          BY <1>2, <1>4, <4>1, <4>7, <5>1, DealtIs
        <5>10. /\ w.slots[i] = NoStack \/ Same(w.slots[i], car)
               /\ w.slots[i].count + n <= MaxIn(w, i, car) /\ n <= w.cursor.count
          <6>1. w.chest = v.chest /\ n <= w.cursor.count
            <7> HIDE DEF n
            <7> QED
              BY <1>2, <4>3, <4>4, <5>1, <5>4, <5>9, LikeIs, ViewIs
          <6>2. MaxIn(w, i, car) = MaxIn(v, i, v.cursor)
            BY <6>1 DEF MaxIn, IsArmor
          <6> HIDE DEF n
          <6> QED
            BY <4>5, <5>9, <6>1, <6>2
        <5> HIDE DEF n
        <5>5. /\ n \in Nat /\ n <= each /\ y \in Like(ch, t) /\ y.cursor.count = w.cursor.count - n
              /\ y.cursor # NoStack => y.cursor.kind = car.kind
              /\ \A j \in SlotsOf(ch) : j # i => y.slots[j] = w.slots[j]
          BY <1>2, <1>4, <4>1, <4>3, <5>4, <5>9, <5>10, GivesOut
        <5> HIDE DEF y
        <5>6. y.cursor.count + each * (m + 1) >= all
          BY <1>2, <4>2, <4>3, <4>4, <5>1, <5>5, SharesGrow
        <5>7. \A j \in T \ s : y.slots[j] = v.slots[j]
          BY <2>1, <4>1, <4>5, <5>5
        <5> QED
          BY <4>1, <4>2, <5>2, <5>5, <5>6, <5>7 DEF x
      <4> QED
        BY <4>6, <4>7
    <3> HIDE DEF Deal, each, all, N
    <3>4. v \in Good[{}]
      <4>1. Cardinality({}) = 0 /\ {} \in SUBSET T
        BY FS_EmptySet
      <4>2. each \in Int
        BY <1>2, <2>1 DEF each
      <4>3. v.cursor.count + each * 0 >= all
        BY <1>2, <4>2 DEF all
      <4> QED
        BY <4>1, <4>3
    <3>5. \A s \in SUBSET T : Good[s] \subseteq Like(ch, t)
      OBVIOUS
    <3>6. \A s \in SUBSET T : s # {} => \A w \in Good[s \ {c[s]}] : h[s][w] \in Good[s]
      <4> SUFFICES ASSUME NEW s \in SUBSET T, s # {}, NEW w \in Good[s \ {c[s]}] PROVE h[s][w] \in Good[s]
        OBVIOUS
      <4>1. w \in Like(ch, t)
        BY <3>2, <3>5
      <4>2. h[s][w] = Deal(c[s], w)
        BY <4>1
      <4> HIDE DEF h, Good
      <4> QED
        BY <3>3, <4>2
    <3> HIDE DEF Good
    <3>7. PICK g : Folded(g, T, v, c, h) /\ \A s \in SUBSET T : g[s] \in Good[s]
      <4> HIDE DEF c, h
      <4> QED
        BY <2>1, <3>2, <3>4, <3>6, FoldExists
    <3>8. \A s \in SUBSET T : s # {} => h[s][g[s \ {c[s]}]] = Deal(CHOOSE x \in s : TRUE, g[s \ {CHOOSE x \in s : TRUE}])
      <4> SUFFICES ASSUME NEW s \in SUBSET T, s # {}
                   PROVE  h[s][g[s \ {c[s]}]] = Deal(c[s], g[s \ {c[s]}])
        BY DEF Least
      <4>1. g[s \ {c[s]}] \in Like(ch, t)
        BY <3>2, <3>5, <3>7
      <4> QED
        BY <4>1
    <3>9. F(g)
      <4> HIDE DEF c, h
      <4>1. g = [s \in SUBSET T |-> IF s = {} THEN v ELSE h[s][g[s \ {c[s]}]]]
        BY <3>7 DEF Folded
      <4> QED
        BY <3>8, <4>1
    <3> HIDE DEF F
    <3>10. F(f)
      BY <3>9
    <3> HIDE DEF f
    <3>11. f[{}] = v /\ \A s \in SUBSET T : s # {} => f[s] = Deal(c[s], f[s \ {c[s]}])
      BY <3>10 DEF F, Least
    <3>12. \A s \in SUBSET T : s # {} /\ f[s \ {c[s]}] \in Good[s \ {c[s]}] => f[s] \in Good[s]
      <4> HIDE DEF c
      <4> QED
        BY <3>3, <3>11
    <3>13. f[T] \in Good[T]
      <4> HIDE DEF c
      <4> QED
        BY <2>1, <3>2, <3>4, <3>11, <3>12, FoldStays
    <3> QED
      BY <3>1, <3>5, <3>13
  <2> QED
    BY <2>2, <2>3
<1> QED
  BY <1>3, <1>4

\* Slots are topped by a window's size.
LEMMA SizeIs ==
    ASSUME NEW ch \in BOOLEAN, NEW v \in Views(ch)
    PROVE  /\ Size(v) \in Nat /\ 0..(Size(v) - 1) \subseteq SlotsOf(ch)
           /\ HotIn(v) \in SlotsOf(ch) /\ OffIn(v) \in SlotsOf(ch)
           /\ ~IsArmor(v, HotIn(v)) /\ ~IsArmor(v, OffIn(v))
<1>1. v.chest = ch
  BY ViewIs
<1>2. /\ HotIn(v) \in Nat /\ MainIn(v) \in Nat /\ OffIn(v) \in Nat /\ Size(v) \in Nat
      /\ SlotsOf(ch) = 0..OffIn(v) /\ Size(v) <= OffIn(v) + 1
      /\ HotIn(v) + HotSlots = OffIn(v) /\ MainIn(v) + MainSlots = HotIn(v)
      /\ \A i \in Int : IsArmor(v, i) => i < MainIn(v)
  BY <1>1, WindowIs
<1>3. MainIn(v) <= HotIn(v) /\ HotIn(v) <= OffIn(v)
  BY <1>2, SizesAre
<1> QED
  BY <1>2, <1>3

\* A whole click.
LEMMA ClickIs ==
    ASSUME NEW ch \in BOOLEAN, NEW t, NEW v \in Like(ch, t), NEW d \in Drags,
           NEW i \in 0..(Size(v) - 1) \cup {Outside}, NEW k \in Clicks \cup Strokes
    PROVE  Click(v, d, i, k).v \in Like(ch, t) /\ Click(v, d, i, k).d \in Drags
<1>1. v \in Views(ch) /\ Fits(v) /\ v.cursor \in AStack /\ v.cursor \in Legal
      /\ \A m \in Kind : Held(v, m) = t[m] /\ Held(v, m) \in Nat
  BY LikeIs, ViewIs, LegalIs, HeldIs
<1>2. i # Outside => i \in SlotsOf(ch)
  BY <1>1, SizeIs
<1>3. NoDrag \in Drags /\ d.on \in BOOLEAN
  BY DragIs
<1>4. k.right \in BOOLEAN /\ k.mode \in {"pickup", "swap", "throw", "all", "move", "add", "start", "end"}
  BY DEF Clicks, Strokes
<1>5. CASE k.mode = "start"
  <2>1. DragStart(v, k.right) \in Drags
    <3>1. CASE v.cursor = NoStack
      BY <1>3, <3>1 DEF DragStart
    <3>2. CASE v.cursor # NoStack
      <4> DEFINE e == [on |-> TRUE, right |-> k.right, slots |-> {}, size |-> Size(v)]
      <4>1. e = DragStart(v, k.right)
        BY <3>2 DEF DragStart
      <4>2. e \in Drags
        BY <1>1, <1>4, SizeIs DEF Drags
      <4> QED
        BY <4>1, <4>2
    <3> QED
      BY <3>1, <3>2
  <2>2. Click(v, d, i, k) = [v |-> v, d |-> IF d.on THEN NoDrag ELSE DragStart(v, k.right)]
    BY <1>5 DEF Click
  <2> QED
    BY <1>3, <2>1, <2>2
<1>6. CASE k.mode = "add"
  <2>1. DragAdd(v, d, i) \in Drags
    <3>1. CASE ~d.on \/ v.cursor = NoStack \/ d.size # Size(v)
      BY <1>3, <3>1 DEF DragAdd
    <3>2. CASE d.on /\ v.cursor # NoStack /\ d.size = Size(v) /\ i = Outside
      BY <3>2 DEF DragAdd
    <3>3. CASE d.on /\ v.cursor # NoStack /\ d.size = Size(v) /\ i # Outside
      <4> DEFINE e == [d EXCEPT !.slots = @ \cup {i}]
      <4>1. DragAdd(v, d, i) \in {d, e}
        BY <3>3 DEF DragAdd
      <4>2. d # NoDrag
        BY <3>3, DragIs
      <4>3. d \in [on : {TRUE}, right : BOOLEAN, slots : SUBSET Int, size : Int]
            /\ d.slots \subseteq 0..(d.size - 1)
        BY <4>2 DEF Drags
      <4>4. i \in 0..(d.size - 1) /\ d.slots \cup {i} \in SUBSET Int
        BY <1>1, <3>3, <4>3, SizeIs
      <4>5. e \in [on : {TRUE}, right : BOOLEAN, slots : SUBSET Int, size : Int]
            /\ e.slots = d.slots \cup {i} /\ e.size = d.size
        BY <4>3, <4>4
      <4> HIDE DEF e
      <4>6. e \in Drags
        BY <4>3, <4>4, <4>5 DEF Drags
      <4> QED
        BY <4>1, <4>6
    <3> QED
      BY <1>3, <3>1, <3>2, <3>3
  <2>2. Click(v, d, i, k) = [v |-> v, d |-> DragAdd(v, d, i)]
    BY <1>6 DEF Click
  <2> QED
    BY <2>1, <2>2
<1>7. CASE k.mode = "end"
  <2>1. Click(v, d, i, k) = [v |-> DragEnd(v, d), d |-> NoDrag]
    BY <1>7 DEF Click
  <2> QED
    BY <1>3, <2>1, DragEndIs
<1>8. CASE k.mode \in {"pickup", "swap", "throw", "all", "move"} /\ d.on
  <2>1. Click(v, d, i, k) = [v |-> v, d |-> NoDrag]
    BY <1>8 DEF Click
  <2> QED
    BY <1>3, <2>1
<1>9. CASE k.mode \in {"pickup", "swap", "throw", "all", "move"} /\ ~d.on
  <2> DEFINE r == Click(v, d, i, k)
  <2>1. r.d = d
    BY <1>9 DEF Click
  <2>2. CASE k.mode \in {"pickup", "move"} /\ i = Outside
    <3> DEFINE n == IF k.right THEN 1 ELSE v.cursor.count
               some == WithCount(v.cursor, n)
               u == Throw(v, some)
               x == Deduct(u, n)
    <3>1. r.v = IF v.cursor = NoStack THEN v ELSE x
      BY <1>9, <2>2 DEF Click
    <3>2. CASE v.cursor # NoStack
      <4>1. /\ v.cursor.kind \in Kind /\ v.cursor.count \in Nat /\ v.cursor.count > 0
            /\ v.cursor.count <= MaxStack[v.cursor.kind] /\ MaxStack[v.cursor.kind] \in Nat
        <5>1. v.cursor.kind \in Kind /\ v.cursor.count \in Nat /\ v.cursor.count # 0
          BY <1>1, <3>2, StackIs
        <5> QED
          BY <1>1, <3>2, <5>1, LegalIs, SizesAre
      <4>2. n \in Nat /\ n > 0 /\ n <= v.cursor.count
        BY <4>1
      <4> HIDE DEF n
      <4>3. some \in AStack /\ \A m : Units(some, m) = IF v.cursor.kind = m THEN n ELSE 0
        BY <4>1, <4>2, CountedIs
      <4> HIDE DEF some
      <4>4. /\ u \in Views(ch) /\ Fits(u) /\ u.cursor = v.cursor
            /\ \A m \in Kind : Held(u, m) = Held(v, m) + Units(some, m)
        BY <1>1, <4>3, ThrowIs
      <4> HIDE DEF u
      <4>5. v.cursor.count - n <= MaxStack[v.cursor.kind] /\ n \in Int
        BY <4>1, <4>2
      <4>6. /\ x \in Views(ch) /\ Fits(x)
            /\ \A m \in Kind : Held(x, m) = Held(u, m) - Of(v.cursor.kind, n, m)
        BY <3>2, <4>2, <4>4, <4>5, DeductIs
      <4> HIDE DEF x
      <4>7. ASSUME NEW m \in Kind PROVE Held(x, m) = t[m]
        BY <1>1, <4>2, <4>3, <4>4, <4>6 DEF Of
      <4>8. x \in Like(ch, t)
        BY <4>6, <4>7, LikeIs
      <4> HIDE DEF r
      <4> QED
        BY <2>1, <3>1, <3>2, <4>8 DEF r
    <3> HIDE DEF x, r
    <3> QED
      BY <2>1, <3>1, <3>2 DEF r
  <2>3. CASE k.mode = "pickup" /\ i # Outside
    <3>1. r.v = Pickup(v, i, k.right)
      BY <1>9, <2>3 DEF Click
    <3> QED
      BY <1>2, <1>4, <2>1, <2>3, <3>1, PickupIs
  <2>4. CASE k.mode = "move" /\ i # Outside
    <3>1. r.v = QuickMoveAll(v, i)
      BY <1>9, <2>4 DEF Click
    <3> QED
      BY <1>2, <2>1, <2>4, <3>1, QuickMoveAllIs
  <2>5. CASE k.mode = "swap" /\ i # Outside
    <3> DEFINE h == IF k.right THEN OffIn(v) ELSE HotIn(v)
    <3>1. r.v = SwapWith(v, i, h)
      BY <1>9, <2>5 DEF Click
    <3>2. h \in SlotsOf(ch) /\ ~IsArmor(v, h)
      BY <1>1, SizeIs
    <3> HIDE DEF h
    <3> QED
      BY <1>2, <2>1, <2>5, <3>1, <3>2, SwapWithIs
  <2>6. CASE k.mode = "throw" /\ i # Outside
    <3> DEFINE cur == v.slots[i]
               n == IF k.right THEN cur.count ELSE 1
               some == WithCount(cur, n)
               u == TakeOut(v, i, n)
               x == Throw(u, some)
    <3>1. r.v = IF v.cursor # NoStack \/ cur = NoStack THEN v ELSE x
      BY <1>9, <2>6 DEF Click
    <3>2. CASE cur # NoStack
      <4>1. cur.kind \in Kind /\ cur.count \in Nat /\ cur.count # 0
        BY <1>1, <1>2, <2>6, <3>2, ViewIs, LegalIs, StackIs
      <4>2. n \in Nat /\ n > 0 /\ n <= cur.count
        BY <4>1
      <4> HIDE DEF n
      <4>3. some \in AStack /\ \A m : Units(some, m) = IF cur.kind = m THEN n ELSE 0
        BY <4>1, <4>2, CountedIs
      <4> HIDE DEF some
      <4>4. /\ u \in Views(ch) /\ Fits(u)
            /\ \A m \in Kind : Held(u, m) = Held(v, m) - Of(cur.kind, n, m)
        BY <1>1, <1>2, <2>6, <3>2, <4>2, TakeOutIs
      <4> HIDE DEF u
      <4>5. /\ x \in Views(ch) /\ Fits(x)
            /\ \A m \in Kind : Held(x, m) = Held(u, m) + Units(some, m)
        BY <4>3, <4>4, ThrowIs
      <4> HIDE DEF x, cur
      <4>6. ASSUME NEW m \in Kind PROVE Held(x, m) = t[m]
        BY <1>1, <4>2, <4>3, <4>4, <4>5 DEF Of
      <4>7. x \in Like(ch, t)
        BY <4>5, <4>6, LikeIs
      <4> HIDE DEF r
      <4> QED
        BY <2>1, <3>1, <4>7 DEF r
    <3> HIDE DEF x, r
    <3> QED
      BY <2>1, <3>1, <3>2 DEF r
  <2>7. CASE k.mode = "all" /\ i # Outside
    <3>1. r.v = PickupAll(v, i, k.right)
      BY <1>9, <2>7 DEF Click
    <3> QED
      BY <1>2, <1>4, <2>1, <2>7, <3>1, PickupAllIs
  <2>8. CASE k.mode \in {"swap", "throw", "all"} /\ i = Outside
    <3>1. r.v = v
      BY <1>9, <2>8 DEF Click
    <3> QED
      BY <2>1, <3>1
  <2> QED
    BY <1>9, <2>2, <2>3, <2>4, <2>5, <2>6, <2>7, <2>8
<1> QED
  BY <1>4, <1>5, <1>6, <1>7, <1>8, <1>9

\* A sum in two parts.
LEMMA SumSplits ==
    ASSUME NEW T, IsFiniteSet(T), NEW A \in SUBSET T, NEW f, \A x \in T : f[x] \in Int
    PROVE  SumFunctionOnSet(f, T) = SumFunctionOnSet(f, A) + SumFunctionOnSet(f, T \ A)
<1> DEFINE B == T \ A
           a == [x \in T |-> IF x \in A THEN f[x] ELSE 0]
           b == [x \in T |-> IF x \in A THEN 0 ELSE f[x]]
<1>1. \A x \in T : a[x] \in Int /\ b[x] \in Int /\ f[x] = a[x] + b[x]
  OBVIOUS
<1>2. \A x \in A : f[x] = a[x] /\ a[x] \in Int
  OBVIOUS
<1>3. \A x \in T \ A : a[x] = 0
  OBVIOUS
<1>4. B \in SUBSET T /\ \A x \in B : f[x] = b[x] /\ b[x] \in Int
  OBVIOUS
<1>5. \A x \in T \ B : b[x] = 0
  OBVIOUS
<1> HIDE DEF a, b, B
<1>6. SumFunctionOnSet(f, T) = SumFunctionOnSet(a, T) + SumFunctionOnSet(b, T)
  BY <1>1, SumOfTwo
<1>7. SumFunctionOnSet(f, A) = SumFunctionOnSet(a, T)
  BY <1>2, <1>3, SumWithin
<1>8. SumFunctionOnSet(f, B) = SumFunctionOnSet(b, T)
  BY <1>4, <1>5, SumWithin
<1> QED
  BY <1>6, <1>7, <1>8 DEF B

\* The same numbers under other names, which p gives.
LEMMA SumRenamed ==
    ASSUME NEW T, IsFiniteSet(T), NEW R, NEW p \in [T -> R], NEW f, NEW e,
           \A x \in T : f[x] \in Int /\ e[p[x]] = f[x],
           \A x \in T, y \in T : p[x] = p[y] => x = y, \A z \in R : \E x \in T : p[x] = z
    PROVE  SumFunctionOnSet(f, T) = SumFunctionOnSet(e, R)
<1> DEFINE P(s) == {p[x] : x \in s}
           G == {s \in SUBSET T : SumFunctionOnSet(f, s) = SumFunctionOnSet(e, P(s))}
<1>0. IsFiniteSet(R)
  <2>1. p \in Surjection(T, R)
    BY DEF Surjection
  <2> QED
    BY <2>1, FS_Surjection
<1>1. {} \in G
  <2>1. P({}) = {}
    OBVIOUS
  <2> QED
    BY <2>1, SumOfNothing
<1>2. ASSUME NEW s \in SUBSET T, s # {}, \A x \in s : s \ {x} \in G PROVE s \in G
  <2> DEFINE l == Least(s)
             r == s \ {l}
  <2>1. l \in s /\ l \in T /\ IsFiniteSet(s) /\ IsFiniteSet(r) /\ r \subseteq T
    BY <1>2, FS_Subset DEF Least
  <2>2. SumFunctionOnSet(f, s) = f[l] + SumFunctionOnSet(f, r)
    BY <1>2, <2>1, SumTakesLeast
  <2>3. IsFiniteSet(P(s)) /\ p[l] \in P(s) /\ P(s) \ {p[l]} = P(r)
    <3>1. IsFiniteSet(P(s))
      <4>1. P(s) \subseteq R
        BY <2>1
      <4> QED
        BY <1>0, <4>1, FS_Subset
    <3>2. P(s) \ {p[l]} = P(r)
      <4> HIDE DEF l
      <4> QED
        BY <2>1
    <3> QED
      BY <2>1, <3>1, <3>2
  <2>4. \A z \in P(s) : e[z] \in Int
    OBVIOUS
  <2> HIDE DEF P
  <2>5. SumFunctionOnSet(e, P(s)) = e[p[l]] + SumFunctionOnSet(e, P(s) \ {p[l]})
    BY <2>3, <2>4, SumTakes
  <2>6. SumFunctionOnSet(f, r) = SumFunctionOnSet(e, P(r)) /\ e[p[l]] = f[l]
    BY <1>2, <2>1
  <2>7. SumFunctionOnSet(f, s) = SumFunctionOnSet(e, P(s))
    BY <2>2, <2>3, <2>5, <2>6
  <2> QED
    BY <2>7
<1>3. SUBSET T \subseteq G
  <2> HIDE DEF G
  <2> QED
    BY <1>1, <1>2, GrowUp
<1>4. P(T) = R
  OBVIOUS
<1> QED
  BY <1>3, <1>4

-----------------------------------------------------------------------------
(* A player's slots. *)

Worn(f) == \A i \in ArmorStart..(MainStart - 1) : f[i].count <= 1
Loose == MainStart..(OffhandSlot - 1)

LEMMA GiveOrderIs ==
    /\ GiveOrder \in Seq(Loose) /\ Loose \subseteq PlayerSlots /\ IsFiniteSet(Loose)
    /\ \A i \in Loose : \E j \in DOMAIN GiveOrder : GiveOrder[j] = i
    /\ \A i \in Loose : i \notin ArmorStart..(MainStart - 1) /\ i \notin 1..GridSlots
<1> DEFINE hot == [k \in 1..HotSlots |-> HotbarStart + k - 1]
           main == [k \in 1..MainSlots |-> MainStart + k - 1]
<1>1. hot \in Seq(Loose) /\ Len(hot) = HotSlots /\ \A k \in 1..HotSlots : hot[k] = HotbarStart + k - 1
  <2>1. \A k \in 1..HotSlots : HotbarStart + k - 1 \in Loose
    BY SizesAre DEF Loose
  <2> QED
    BY <2>1, SizesAre
<1>2. main \in Seq(Loose) /\ Len(main) = MainSlots /\ \A k \in 1..MainSlots : main[k] = MainStart + k - 1
  <2>1. \A k \in 1..MainSlots : MainStart + k - 1 \in Loose
    BY SizesAre DEF Loose
  <2> QED
    BY <2>1, SizesAre
<1>3. GiveOrder = hot \o main
  BY DEF GiveOrder
<1> HIDE DEF hot, main
<1>4. /\ GiveOrder \in Seq(Loose) /\ DOMAIN GiveOrder = 1..(HotSlots + MainSlots)
      /\ \A j \in 1..HotSlots : GiveOrder[j] = hot[j]
      /\ \A j \in 1..MainSlots : GiveOrder[HotSlots + j] = main[j]
  <2>1. /\ GiveOrder \in Seq(Loose) /\ Len(GiveOrder) = HotSlots + MainSlots
        /\ \A j \in 1..(HotSlots + MainSlots) :
              GiveOrder[j] = IF j <= HotSlots THEN hot[j] ELSE main[j - HotSlots]
    BY <1>1, <1>2, <1>3, ConcatProperties
  <2>2. \A j \in 1..HotSlots : j \in 1..(HotSlots + MainSlots) /\ j <= HotSlots
    BY SizesAre
  <2>4. DOMAIN GiveOrder = 1..(HotSlots + MainSlots)
    BY <2>1, SizesAre
  <2>5. \A j \in 1..HotSlots : GiveOrder[j] = hot[j]
    BY <2>1, <2>2
  <2>6. ASSUME NEW j \in 1..MainSlots PROVE GiveOrder[HotSlots + j] = main[j]
    <3> DEFINE m == HotSlots + j
    <3>1. m \in 1..(HotSlots + MainSlots) /\ ~(m <= HotSlots) /\ m - HotSlots = j
      BY SizesAre
    <3> HIDE DEF m
    <3>2. GiveOrder[m] = main[j]
      BY <2>1, <3>1
    <3> QED
      BY <3>2 DEF m
  <2> QED
    BY <2>1, <2>4, <2>5, <2>6
<1>5. ASSUME NEW i \in Loose PROVE \E j \in DOMAIN GiveOrder : GiveOrder[j] = i
  <2>1. i \in Int /\ i >= MainStart /\ i < OffhandSlot
    BY SizesAre DEF Loose
  <2>2. CASE i >= HotbarStart
    <3>1. i - HotbarStart + 1 \in 1..HotSlots /\ HotbarStart + (i - HotbarStart + 1) - 1 = i
      BY <2>1, <2>2, SizesAre
    <3>2. i - HotbarStart + 1 \in 1..(HotSlots + MainSlots)
      BY <3>1, SizesAre
    <3> QED
      BY <1>1, <1>4, <3>1, <3>2
  <2>3. CASE i < HotbarStart
    <3> DEFINE m == i - MainStart + 1
    <3>1. m \in 1..MainSlots /\ MainStart + m - 1 = i
      BY <2>1, <2>3, SizesAre
    <3>2. HotSlots + m \in 1..(HotSlots + MainSlots)
      BY <3>1, SizesAre
    <3> HIDE DEF m
    <3> QED
      BY <1>2, <1>4, <3>1, <3>2
  <2> QED
    BY <2>1, <2>2, <2>3, SizesAre
<1>6. Loose \subseteq PlayerSlots /\ IsFiniteSet(Loose)
  <2>1. MainStart \in Int /\ OffhandSlot - 1 \in Int /\ Loose \subseteq PlayerSlots
    BY SizesAre DEF Loose
  <2> QED
    BY <2>1, FS_Interval DEF Loose
<1>7. \A i \in Loose : i \notin ArmorStart..(MainStart - 1) /\ i \notin 1..GridSlots
  BY SizesAre DEF Loose
<1> QED
  BY <1>4, <1>5, <1>6, <1>7

\* What some of a player's slots hold.
LEMMA UnitsAtChanges ==
    ASSUME NEW f \in [PlayerSlots -> Legal], NEW k, NEW R \in SUBSET PlayerSlots, NEW i \in R,
           NEW st \in Legal
    PROVE  /\ UnitsAt(f, k, R) \in Nat
           /\ UnitsAt([f EXCEPT ![i] = st], k, R) = UnitsAt(f, k, R) - Units(f[i], k) + Units(st, k)
<1> DEFINE u == [j \in R |-> Units(f[j], k)]
           e == [j \in R |-> Units([f EXCEPT ![i] = st][j], k)]
<1>1. UnitsAt(f, k, R) = SumFunctionOnSet(u, R) /\ UnitsAt([f EXCEPT ![i] = st], k, R) = SumFunctionOnSet(e, R)
  BY DEF UnitsAt
<1>2. e[i] = Units(st, k) /\ u[i] = Units(f[i], k) /\ \A j \in R \ {i} : e[j] = u[j]
  OBVIOUS
<1>3. \A j \in R : u[j] \in Nat
  BY LegalIs, StackIs
<1>4. Units(st, k) \in Nat
  BY StackIs, LegalIs
<1>5. IsFiniteSet(R)
  <2>1. IsFiniteSet(PlayerSlots)
    BY SlotsAreFew DEF SlotsOf
  <2> QED
    BY <2>1, FS_Subset
<1> HIDE DEF u, e
<1>6. SumFunctionOnSet(u, R) \in Nat
  BY <1>3, <1>5, SumOfNats
<1>7. \A j \in R : u[j] \in Int /\ e[j] \in Int /\ (j # i => e[j] = u[j])
  BY <1>2, <1>3, <1>4
<1>8. SumFunctionOnSet(e, R) = SumFunctionOnSet(u, R) - u[i] + e[i]
  <2>1. IsFiniteSet(R) /\ i \in R /\ (\A j \in R : u[j] \in Int /\ e[j] \in Int) /\ \A j \in R \ {i} : e[j] = u[j]
    BY <1>5, <1>7
  <2> QED
    BY <2>1, SumChanges
<1> QED
  BY <1>1, <1>2, <1>6, <1>8

LEMMA WornIs ==
    ASSUME NEW f, Worn(f), NEW g, \A i \in PlayerSlots \ Loose : g[i] = f[i]
    PROVE  Worn(g)
<1>1. \A i \in ArmorStart..(MainStart - 1) : i \in PlayerSlots \ Loose
  BY SizesAre DEF Loose
<1> QED
  BY <1>1 DEF Worn

\* Player.Give: as many units more as are not left over.
LEMMA GiveIs ==
    ASSUME NEW f \in [PlayerSlots -> Legal], NEW st \in AStack, st # NoStack
    PROVE  LET g == Give(f, st)
           IN  /\ g.slots \in [PlayerSlots -> Legal] /\ g.left \in Nat /\ g.left <= st.count
               /\ \A i \in PlayerSlots \ Loose : g.slots[i] = f[i]
               /\ \A k \in Kind : UnitsIn(g.slots, k) + Of(st.kind, g.left, k)
                                      = UnitsIn(f, k) + Of(st.kind, st.count, k)
<1> DEFINE order == GiveOrder
           Add(a, i) ==
               LET n == Min({a.left, MaxStack[st.kind] - a.slots[i].count})
               IN  IF n <= 0 THEN a
                   ELSE [slots |-> [a.slots EXCEPT ![i] = WithCount(st, @.count + n)],
                         left |-> a.left - n]
           Match(a, i) == IF Same(a.slots[i], st) THEN Add(a, i) ELSE a
           Fill(a, i) == IF a.slots[i] = NoStack THEN Add(a, i) ELSE a
           X == {a \in [slots : [PlayerSlots -> Legal], left : Nat] :
                    /\ a.left <= st.count
                    /\ \A i \in PlayerSlots \ Loose : a.slots[i] = f[i]
                    /\ \A k \in Kind : UnitsIn(a.slots, k) + Of(st.kind, a.left, k)
                                           = UnitsIn(f, k) + Of(st.kind, st.count, k)}
           n == Len(order)
           T == 1..n
           MF(g, b, S) == g = [s \in SUBSET S |-> IF s = {} THEN b
                                                 ELSE Match(g[s \ {Max(s)}], order[Max(s)])]
           FF(g, b, S) == g = [s \in SUBSET S |-> IF s = {} THEN b
                                                 ELSE Fill(g[s \ {Max(s)}], order[Max(s)])]
           a0 == [slots |-> f, left |-> st.count]
           a1 == (CHOOSE g : MF(g, a0, DOMAIN order))[DOMAIN order]
           a2 == (CHOOSE g : FF(g, a1, DOMAIN order))[DOMAIN order]
<1>1. Give(f, st) = a2
  BY DEF Give, FoldLeft, MapThenFoldSet
<1>2. DOMAIN order = T /\ n \in Nat /\ \A j \in T : order[j] \in Loose
  BY GiveOrderIs
<1>3. /\ st.kind \in Kind /\ st.count \in Nat /\ MaxStack[st.kind] \in Nat
  BY StackIs, SizesAre
<1>4. IsFiniteSet(PlayerSlots) /\ Loose \subseteq PlayerSlots
  BY SlotsAreFew, GiveOrderIs DEF SlotsOf
<1>5. ASSUME NEW a \in X, NEW i \in Loose, a.slots[i] = NoStack \/ Same(a.slots[i], st) PROVE Add(a, i) \in X
  <2> DEFINE has == a.slots[i].count
             gap == MaxStack[st.kind] - has
             m == Min({a.left, gap})
             new == WithCount(st, has + m)
             e == [a.slots EXCEPT ![i] = new]
             b == [slots |-> e, left |-> a.left - m]
  <2>1. /\ a.slots \in [PlayerSlots -> Legal] /\ a.left \in Nat /\ a.left <= st.count
        /\ \A j \in PlayerSlots \ Loose : a.slots[j] = f[j]
        /\ \A k \in Kind : UnitsIn(a.slots, k) + Of(st.kind, a.left, k)
                               = UnitsIn(f, k) + Of(st.kind, st.count, k)
    OBVIOUS
  <2>2. a.slots[i] \in AStack /\ has \in Nat /\ gap \in Int /\ a.left \in Int
    BY <1>3, <1>4, <2>1, LegalIs, StackIs
  <2>3. m \in Int /\ m <= a.left /\ m <= gap
    <3> HIDE DEF gap
    <3> QED
      BY <2>2, LeastPair
  <2>4. Add(a, i) = IF m <= 0 THEN a ELSE b
    OBVIOUS
  <2>5. CASE m <= 0
    BY <2>4, <2>5
  <2>6. CASE m > 0
    <3> HIDE DEF Add, m
    <3>1. has + m \in Int /\ has + m > 0 /\ has + m <= MaxStack[st.kind] /\ a.left - m \in Nat
          /\ a.left - m <= st.count
      BY <1>3, <2>1, <2>2, <2>3, <2>6
    <3>2. new \in Legal /\ \A k : Units(new, k) = IF st.kind = k THEN has + m ELSE 0
      BY <1>3, <3>1, CountedIs
    <3>3. \A k : Units(a.slots[i], k) = IF st.kind = k THEN has ELSE 0
      <4>1. a.slots[i] # NoStack => a.slots[i].kind = st.kind
        BY <1>5 DEF Same
      <4>2. a.slots[i] = NoStack => has = 0
        BY NoStackIs
      <4>3. \A k : Units(a.slots[i], k) = IF a.slots[i] # NoStack /\ a.slots[i].kind = k THEN has ELSE 0
        BY <2>2, StackIs
      <4> QED
        BY <4>1, <4>2, <4>3
    <3> HIDE DEF new
    <3>4. e \in [PlayerSlots -> Legal] /\ \A j \in PlayerSlots \ Loose : e[j] = f[j]
      BY <1>4, <2>1, <3>2
    <3>5. \A k \in Kind : /\ UnitsIn(e, k) = UnitsIn(a.slots, k) - Units(a.slots[i], k) + Units(new, k)
                          /\ UnitsIn(a.slots, k) \in Nat /\ UnitsIn(f, k) \in Nat
      BY <1>4, <2>1, <3>2, UnitsAreCounted
    <3> HIDE DEF e
    <3>6. ASSUME NEW k \in Kind
          PROVE  UnitsIn(e, k) + Of(st.kind, a.left - m, k) = UnitsIn(f, k) + Of(st.kind, st.count, k)
      <4> DEFINE l == a.left
      <4>1. l \in Int /\ UnitsIn(a.slots, k) + Of(st.kind, l, k) = UnitsIn(f, k) + Of(st.kind, st.count, k)
        BY <2>1
      <4> HIDE DEF l, has
      <4>2. UnitsIn(e, k) + Of(st.kind, l - m, k) = UnitsIn(f, k) + Of(st.kind, st.count, k)
        BY <1>3, <2>2, <2>3, <3>2, <3>3, <3>5, <4>1 DEF Of
      <4> QED
        BY <4>2 DEF l
    <3>7. b.slots = e /\ b.left = a.left - m /\ b \in [slots : [PlayerSlots -> Legal], left : Nat]
      BY <3>1, <3>4
    <3> HIDE DEF b
    <3>8. b \in X
      BY <3>1, <3>4, <3>6, <3>7
    <3> HIDE DEF X
    <3> QED
      BY <2>4, <2>6, <3>8
  <2> QED
    BY <2>3, <2>5, <2>6
<1> HIDE DEF Add
<1>6. \A j \in T : \A a \in X : Match(a, order[j]) \in X /\ Fill(a, order[j]) \in X
  <2> HIDE DEF X, order
  <2> QED
    BY <1>2, <1>5
<1>7. a0 \in X
  <2>1. a0.slots = f /\ a0.left = st.count /\ a0 \in [slots : [PlayerSlots -> Legal], left : Nat]
    BY <1>3
  <2> HIDE DEF a0
  <2> QED
    BY <1>3, <2>1
<1> HIDE DEF Match, Fill, X, n, order
<1>8. ASSUME NEW b \in X PROVE (CHOOSE g : MF(g, b, T))[T] \in X
  <2> DEFINE q == [j \in T |-> [a \in X |-> Match(a, order[j])]]
  <2>1. \A j \in T : \A a \in X : q[j][a] \in X
    BY <1>6
  <2>2. PICK g : Goes(g, n, X, b, q)
    <3> HIDE DEF q
    <3> QED
      BY <1>2, <2>1, FoldGoes
  <2>3. \A s \in SUBSET T : s # {} => Max(s) \in T /\ s \ {Max(s)} \in SUBSET T
    BY <1>2, LastOf
  <2>4. \A s \in SUBSET T : s # {} => g[s] = Match(g[s \ {Max(s)}], order[Max(s)])
    BY <2>2, <2>3 DEF Goes
  <2>5. MF(g, b, T)
    BY <2>2, <2>4 DEF Goes
  <2> HIDE DEF MF
  <2> DEFINE y == CHOOSE y : MF(y, b, T)
  <2>6. MF(y, b, T)
    BY <2>5
  <2> HIDE DEF y
  <2>7. y[{}] = b /\ \A s \in SUBSET T : s # {} => y[s] = Match(y[s \ {Max(s)}], order[Max(s)])
    BY <2>6 DEF MF
  <2>8. \A s \in SUBSET T : s # {} /\ y[s \ {Max(s)}] \in X => y[s] \in X
    <3> SUFFICES ASSUME NEW s \in SUBSET T, s # {}, y[s \ {Max(s)}] \in X PROVE y[s] \in X
      OBVIOUS
    <3>1. y[s] = Match(y[s \ {Max(s)}], order[Max(s)]) /\ Max(s) \in T
      BY <2>3, <2>7
    <3> QED
      BY <1>6, <3>1
  <2>9. y[T] \in X
    BY <1>2, <2>7, <2>8, FoldKeeps
  <2> QED
    BY <2>9 DEF y
<1>9. ASSUME NEW b \in X PROVE (CHOOSE g : FF(g, b, T))[T] \in X
  <2> DEFINE q == [j \in T |-> [a \in X |-> Fill(a, order[j])]]
  <2>1. \A j \in T : \A a \in X : q[j][a] \in X
    BY <1>6
  <2>2. PICK g : Goes(g, n, X, b, q)
    <3> HIDE DEF q
    <3> QED
      BY <1>2, <2>1, FoldGoes
  <2>3. \A s \in SUBSET T : s # {} => Max(s) \in T /\ s \ {Max(s)} \in SUBSET T
    BY <1>2, LastOf
  <2>4. \A s \in SUBSET T : s # {} => g[s] = Fill(g[s \ {Max(s)}], order[Max(s)])
    BY <2>2, <2>3 DEF Goes
  <2>5. FF(g, b, T)
    BY <2>2, <2>4 DEF Goes
  <2> HIDE DEF FF
  <2> DEFINE y == CHOOSE y : FF(y, b, T)
  <2>6. FF(y, b, T)
    BY <2>5
  <2> HIDE DEF y
  <2>7. y[{}] = b /\ \A s \in SUBSET T : s # {} => y[s] = Fill(y[s \ {Max(s)}], order[Max(s)])
    BY <2>6 DEF FF
  <2>8. \A s \in SUBSET T : s # {} /\ y[s \ {Max(s)}] \in X => y[s] \in X
    <3> SUFFICES ASSUME NEW s \in SUBSET T, s # {}, y[s \ {Max(s)}] \in X PROVE y[s] \in X
      OBVIOUS
    <3>1. y[s] = Fill(y[s \ {Max(s)}], order[Max(s)]) /\ Max(s) \in T
      BY <2>3, <2>7
    <3> QED
      BY <1>6, <3>1
  <2>9. y[T] \in X
    BY <1>2, <2>7, <2>8, FoldKeeps
  <2> QED
    BY <2>9 DEF y
<1> HIDE DEF MF, FF
<1>10. a1 \in X
  BY <1>2, <1>7, <1>8
<1>11. a2 \in X
  BY <1>2, <1>9, <1>10
<1> HIDE DEF a2
<1> QED
  BY <1>1, <1>11 DEF X

LEMMA BackOrderIs ==
    /\ Reverse(GiveOrder) \in Seq(Loose)
    /\ \A i \in Loose : \E j \in DOMAIN Reverse(GiveOrder) : Reverse(GiveOrder)[j] = i
<1> DEFINE g == GiveOrder
           r == Reverse(g)
           n == Len(g)
<1>1. g \in Seq(Loose) /\ n \in Nat /\ DOMAIN g = 1..n
  BY GiveOrderIs
<1>2. r \in Seq(Loose) /\ Len(r) = n /\ DOMAIN r = 1..n
  BY <1>1, ReverseIs
<1>3. \A j \in 1..n : r[j] = g[n - j + 1]
  BY DEF Reverse
<1>4. ASSUME NEW i \in Loose PROVE \E j \in DOMAIN r : r[j] = i
  <2>1. PICK j \in 1..n : g[j] = i
    BY <1>1, GiveOrderIs
  <2> HIDE DEF g, r, n
  <2>2. n - j + 1 \in 1..n /\ n - (n - j + 1) + 1 = j
    BY <1>1
  <2>3. r[n - j + 1] = g[n - (n - j + 1) + 1]
    BY <1>3, <2>2
  <2> QED
    BY <1>2, <2>1, <2>2, <2>3
<1> QED
  BY <1>2, <1>4

\* Player.Take: so many units less.
LEMMA TakeIs ==
    ASSUME NEW f \in [PlayerSlots -> Legal], NEW k \in Kind, NEW n \in Nat, n <= UnitsAt(f, k, Loose)
    PROVE  /\ Take(f, k, n) \in [PlayerSlots -> Legal]
           /\ \A i \in PlayerSlots \ Loose : Take(f, k, n)[i] = f[i]
           /\ \A m \in Kind : UnitsIn(Take(f, k, n), m) = UnitsIn(f, m) - Of(k, n, m)
<1> DEFINE order == Reverse(GiveOrder)
           Less(a, i) == LET m == Min({a.left, Units(a.slots[i], k)})
                         IN  [slots |-> [a.slots EXCEPT ![i] = WithCount(@, @.count - m)],
                              left |-> a.left - m]
           N == Len(order)
           T == 1..N
           a0 == [slots |-> f, left |-> n]
           F(g, S) == g = [s \in SUBSET S |-> IF s = {} THEN a0
                                              ELSE Less(g[s \ {Max(s)}], order[Max(s)])]
           end == (CHOOSE g : F(g, DOMAIN order))[DOMAIN order]
           X == {a \in [slots : [PlayerSlots -> Legal], left : Nat] :
                    /\ a.left <= n
                    /\ \A i \in PlayerSlots \ Loose : a.slots[i] = f[i]
                    /\ \A m \in Kind : UnitsIn(a.slots, m) = UnitsIn(f, m) - Of(k, n - a.left, m)
                    /\ UnitsAt(a.slots, k, Loose) = UnitsAt(f, k, Loose) - (n - a.left)}
           Good == [s \in SUBSET T |-> {a \in X : a.left = 0 \/ \A j \in s : Units(a.slots[order[j]], k) = 0}]
           c == [s \in SUBSET T |-> Max(s)]
           h == [s \in SUBSET T |-> [a \in X |-> Less(a, order[Max(s)])]]
<1>1. Take(f, k, n) = end.slots
  BY DEF Take, FoldLeft, MapThenFoldSet
<1>2. /\ DOMAIN order = T /\ N \in Nat /\ IsFiniteSet(T) /\ \A j \in T : order[j] \in Loose
      /\ \A i \in Loose : \E j \in T : order[j] = i
  <2>1. order \in Seq(Loose)
    BY BackOrderIs
  <2>2. DOMAIN order = T /\ N \in Nat /\ \A j \in T : order[j] \in Loose
    <3> HIDE DEF order
    <3> QED
      BY <2>1
  <2> QED
    BY <2>2, BackOrderIs, FS_Interval
<1>3. IsFiniteSet(PlayerSlots) /\ Loose \subseteq PlayerSlots /\ IsFiniteSet(Loose)
  BY SlotsAreFew, GiveOrderIs DEF SlotsOf
<1>4. \A s \in SUBSET T : s # {} => c[s] \in s /\ s \ {c[s]} \in SUBSET T
  BY <1>2, LastOf
<1> HIDE DEF order, N
<1>5. ASSUME NEW a \in X, NEW i \in Loose
      PROVE  /\ Less(a, i) \in X
             /\ Less(a, i).left = 0 \/ Units(Less(a, i).slots[i], k) = 0
             /\ a.left = 0 => Less(a, i).left = 0
             /\ \A j \in Loose : Units(a.slots[j], k) = 0 => Units(Less(a, i).slots[j], k) = 0
  <2> DEFINE cur == a.slots[i]
             l == a.left
             u == Units(cur, k)
             m == Min({l, u})
             new == WithCount(cur, cur.count - m)
             e == [a.slots EXCEPT ![i] = new]
             b == [slots |-> e, left |-> l - m]
  <2>1. /\ a.slots \in [PlayerSlots -> Legal] /\ l \in Nat /\ l <= n
        /\ \A j \in PlayerSlots \ Loose : a.slots[j] = f[j]
        /\ \A x \in Kind : UnitsIn(a.slots, x) = UnitsIn(f, x) - Of(k, n - l, x)
        /\ UnitsAt(a.slots, k, Loose) = UnitsAt(f, k, Loose) - (n - l)
    OBVIOUS
  <2>2. /\ i \in PlayerSlots /\ cur \in Legal /\ cur \in AStack /\ cur.count \in Nat
        /\ (cur.count = 0 <=> cur = NoStack) /\ (cur # NoStack => cur.kind \in Kind)
        /\ u \in Nat /\ \A x : Units(cur, x) = IF cur # NoStack /\ cur.kind = x THEN cur.count ELSE 0
    BY <1>3, <2>1, LegalIs, StackIs
  <2>3. m \in Nat /\ m <= l /\ m <= u /\ (m = l \/ m = u)
    <3> HIDE DEF l, u
    <3> QED
      BY <2>1, <2>2, LeastPair
  <2>4. Less(a, i) = b
    OBVIOUS
  <2> HIDE DEF Less, m
  <2>5. new \in Legal /\ \A x : Units(new, x) = Units(cur, x) - Of(k, m, x)
    <3>1. CASE cur = NoStack
      <4>1. u = 0 /\ m = 0
        BY <2>2, <2>3, <3>1
      <4>2. cur.count - m <= 0 /\ cur.count - m \in Int
        BY <2>2, <3>1, <4>1
      <4>3. new = NoStack
        BY <4>2, NoneIsNone
      <4> QED
        BY <2>2, <3>1, <4>1, <4>3, NoStackIs DEF Of
    <3>2. CASE cur # NoStack
      <4>1. u = IF cur.kind = k THEN cur.count ELSE 0
        BY <2>2, <3>2
      <4>2. cur.count <= MaxStack[cur.kind] /\ MaxStack[cur.kind] \in Nat
        BY <2>2, <3>2, LegalIs, SizesAre
      <4>3. cur.count - m \in Int /\ cur.count - m >= 0 /\ cur.count - m <= MaxStack[cur.kind]
            /\ (cur.kind # k => m = 0)
        BY <2>2, <2>3, <4>1, <4>2
      <4>4. new \in Legal /\ \A x : Units(new, x) = IF cur.count - m > 0 /\ cur.kind = x THEN cur.count - m ELSE 0
        BY <2>2, <3>2, <4>3, CountedIs
      <4> HIDE DEF new, u, cur
      <4>5. ASSUME NEW x PROVE Units(new, x) = Units(cur, x) - Of(k, m, x)
        BY <2>2, <2>3, <3>2, <4>3, <4>4 DEF Of
      <4> QED
        BY <4>4, <4>5
    <3> QED
      BY <3>1, <3>2
  <2> HIDE DEF new
  <2>6. /\ e \in [PlayerSlots -> Legal] /\ e[i] = new /\ \A j \in PlayerSlots : j # i => e[j] = a.slots[j]
    BY <2>1, <2>2, <2>5
  <2>7. ASSUME NEW x \in Kind PROVE UnitsIn(e, x) = UnitsIn(f, x) - Of(k, n - (l - m), x)
    <3>1. UnitsIn(e, x) = UnitsIn(a.slots, x) - Units(cur, x) + Units(new, x)
      BY <1>3, <2>1, <2>2, <2>5, UnitsAreCounted
    <3>2. UnitsIn(f, x) \in Nat /\ UnitsIn(a.slots, x) \in Nat
      BY <1>3, <2>1, UnitsAreCounted
    <3>3. UnitsIn(a.slots, x) = UnitsIn(f, x) - Of(k, n - l, x) /\ Units(new, x) = Units(cur, x) - Of(k, m, x)
          /\ Units(cur, x) \in Nat
      BY <2>1, <2>2, <2>5, StackIs
    <3> HIDE DEF e, l, cur
    <3> QED
      BY <2>1, <2>3, <3>1, <3>2, <3>3 DEF Of
  <2>8. UnitsAt(e, k, Loose) = UnitsAt(f, k, Loose) - (n - (l - m))
    <3>1. /\ UnitsAt(e, k, Loose) = UnitsAt(a.slots, k, Loose) - Units(cur, k) + Units(new, k)
          /\ UnitsAt(a.slots, k, Loose) \in Nat
      BY <1>3, <2>1, <2>5, UnitsAtChanges
    <3>2. UnitsAt(f, k, Loose) \in Nat
      BY <1>3, <2>2, NoStackIs, UnitsAtChanges
    <3>3. Units(new, k) = Units(cur, k) - m /\ Units(cur, k) \in Nat
      BY <2>2, <2>5 DEF Of
    <3> HIDE DEF e, l, cur
    <3> QED
      BY <2>1, <2>3, <3>1, <3>2, <3>3
  <2>9. b.slots = e /\ b.left = l - m /\ b \in [slots : [PlayerSlots -> Legal], left : Nat] /\ l - m <= n
    BY <2>1, <2>3, <2>6
  <2>10. \A j \in PlayerSlots \ Loose : e[j] = f[j]
    BY <2>1, <2>6
  <2>11. Units(new, k) = u - m
    BY <2>2, <2>3, <2>5 DEF Of
  <2>12. \A j \in Loose : Units(a.slots[j], k) = 0 => Units(e[j], k) = 0
    <3> SUFFICES ASSUME NEW j \in Loose, Units(a.slots[j], k) = 0 PROVE Units(e[j], k) = 0
      OBVIOUS
    <3>1. CASE j = i
      <4> HIDE DEF e
      <4> QED
        BY <2>2, <2>3, <2>6, <2>11, <3>1
    <3>2. CASE j # i
      BY <1>3, <2>6, <3>2
    <3> QED
      BY <3>1, <3>2
  <2>13. l - m = 0 \/ Units(e[i], k) = 0
    <3> HIDE DEF e, l, u
    <3> QED
      BY <2>1, <2>2, <2>3, <2>6, <2>11
  <2>14. l = 0 => l - m = 0
    <3> HIDE DEF l
    <3> QED
      BY <2>1, <2>3
  <2> HIDE DEF b, e, l
  <2>15. b \in X
    BY <2>7, <2>8, <2>9, <2>10
  <2> HIDE DEF X
  <2> QED
    BY <2>4, <2>9, <2>12, <2>13, <2>14, <2>15 DEF l
<1> HIDE DEF Less
<1>6. ASSUME NEW s \in SUBSET T, s # {}, NEW a \in Good[s \ {c[s]}] PROVE Less(a, order[c[s]]) \in Good[s]
  <2> DEFINE i == order[c[s]]
             b == Less(a, i)
             r == s \ {c[s]}
  <2>1. c[s] \in s /\ r \in SUBSET T /\ i \in Loose
    BY <1>2, <1>4, <1>6
  <2>2. a \in X /\ (a.left = 0 \/ \A j \in r : Units(a.slots[order[j]], k) = 0)
    BY <1>6, <2>1
  <2> HIDE DEF X
  <2>3. /\ b \in X /\ (b.left = 0 \/ Units(b.slots[i], k) = 0) /\ (a.left = 0 => b.left = 0)
        /\ \A j \in Loose : Units(a.slots[j], k) = 0 => Units(b.slots[j], k) = 0
    BY <1>5, <2>1, <2>2
  <2> HIDE DEF b
  <2>4. b.left = 0 \/ \A j \in s : Units(b.slots[order[j]], k) = 0
    <3> SUFFICES ASSUME b.left # 0, NEW j \in s PROVE Units(b.slots[order[j]], k) = 0
      OBVIOUS
    <3>1. CASE j = c[s]
      BY <2>3, <3>1
    <3>2. CASE j # c[s]
      <4>1. j \in r /\ order[j] \in Loose
        BY <1>2, <3>2
      <4> QED
        BY <2>2, <2>3, <4>1
    <3> QED
      BY <3>1, <3>2
  <2> QED
    BY <2>3, <2>4 DEF b
<1>7. a0 \in Good[{}]
  <2>1. a0.slots = f /\ a0.left = n /\ a0 \in [slots : [PlayerSlots -> Legal], left : Nat] /\ n - n = 0
    OBVIOUS
  <2>2. \A m \in Kind : UnitsIn(f, m) \in Nat /\ Of(k, 0, m) = 0
    BY <1>3, UnitsAreCounted DEF Of
  <2>3. UnitsAt(f, k, Loose) \in Nat
    <3>1. MainStart \in Loose
      BY SizesAre DEF Loose
    <3> QED
      BY <1>3, <3>1, NoStackIs, UnitsAtChanges
  <2> HIDE DEF a0
  <2>4. a0 \in X
    BY <2>1, <2>2, <2>3
  <2> HIDE DEF X
  <2> QED
    BY <2>4
<1>8. \A s \in SUBSET T : Good[s] \subseteq X
  OBVIOUS
<1> HIDE DEF X
<1>9. \A s \in SUBSET T : s # {} => \A a \in Good[s \ {c[s]}] : h[s][a] \in Good[s]
  <2> SUFFICES ASSUME NEW s \in SUBSET T, s # {}, NEW a \in Good[s \ {c[s]}] PROVE h[s][a] \in Good[s]
    OBVIOUS
  <2>1. a \in X
    BY <1>4, <1>8
  <2>2. h[s][a] = Less(a, order[c[s]])
    BY <2>1
  <2> HIDE DEF h, Good
  <2> QED
    BY <1>6, <2>2
<1>10. Good[T] = {a \in X : a.left = 0 \/ \A j \in T : Units(a.slots[order[j]], k) = 0}
  OBVIOUS
<1> HIDE DEF Good, a0
<1>11. \E g : F(g, T)
  <2>1. PICK g : Folded(g, T, a0, c, h) /\ \A s \in SUBSET T : g[s] \in Good[s]
    <3>1. \A s \in SUBSET T : s # {} => c[s] \in s
      BY <1>4
    <3>2. IsFiniteSet(T)
      BY <1>2
    <3>3. \A s \in SUBSET T : s # {} => \A w \in Good[s \ {c[s]}] : h[s][w] \in Good[s]
      BY <1>9
    <3>4. a0 \in Good[{}]
      BY <1>7
    <3> HIDE DEF c, h, T, F, end
    <3> QED
      BY <3>1, <3>2, <3>3, <3>4, FoldExists
  <2>2. \A s \in SUBSET T : s # {} => h[s][g[s \ {c[s]}]] = Less(g[s \ {Max(s)}], order[Max(s)])
    <3> SUFFICES ASSUME NEW s \in SUBSET T, s # {}
                 PROVE  h[s][g[s \ {c[s]}]] = Less(g[s \ {c[s]}], order[c[s]])
      OBVIOUS
    <3>1. g[s \ {c[s]}] \in X
      BY <1>4, <1>8, <2>1
    <3> QED
      BY <3>1
  <2>3. F(g, T)
    <3> HIDE DEF c, h
    <3>1. g = [s \in SUBSET T |-> IF s = {} THEN a0 ELSE h[s][g[s \ {c[s]}]]]
      BY <2>1 DEF Folded
    <3> QED
      BY <2>2, <3>1
  <2> QED
    BY <2>3
<1> HIDE DEF F
<1> DEFINE g == CHOOSE g : F(g, T)
<1>12. F(g, T) /\ end = g[T]
  BY <1>2, <1>11
<1> HIDE DEF g, end
<1>13. g[{}] = a0 /\ \A s \in SUBSET T : s # {} => g[s] = Less(g[s \ {c[s]}], order[c[s]])
  BY <1>12 DEF F
<1>14. \A s \in SUBSET T : s # {} /\ g[s \ {c[s]}] \in Good[s \ {c[s]}] => g[s] \in Good[s]
  <2> HIDE DEF c
  <2> QED
    BY <1>6, <1>13
<1>15. g[T] \in Good[T]
  <2> HIDE DEF c
  <2> QED
    BY <1>2, <1>4, <1>7, <1>13, <1>14, FoldStays
<1>16. end \in X /\ (end.left = 0 \/ \A j \in T : Units(end.slots[order[j]], k) = 0)
  BY <1>10, <1>12, <1>15
<1>17. /\ end.slots \in [PlayerSlots -> Legal] /\ end.left \in Nat /\ end.left <= n
       /\ \A i \in PlayerSlots \ Loose : end.slots[i] = f[i]
       /\ \A m \in Kind : UnitsIn(end.slots, m) = UnitsIn(f, m) - Of(k, n - end.left, m)
       /\ UnitsAt(end.slots, k, Loose) = UnitsAt(f, k, Loose) - (n - end.left)
  BY <1>16 DEF X
<1>18. end.left = 0
  <2> SUFFICES ASSUME end.left # 0 PROVE FALSE
    OBVIOUS
  <2> DEFINE u == [i \in Loose |-> Units(end.slots[i], k)]
  <2>1. \A i \in Loose : Units(end.slots[i], k) = 0
    BY <1>2, <1>16
  <2>2. \A i \in Loose : u[i] = 0
    BY <2>1
  <2>3. UnitsAt(end.slots, k, Loose) = SumFunctionOnSet(u, Loose)
    BY DEF UnitsAt
  <2> HIDE DEF u
  <2>4. SumFunctionOnSet(u, Loose) = 0
    BY <1>3, <2>2, SumOfZeros
  <2>5. UnitsAt(f, k, Loose) \in Nat
    <3>1. MainStart \in Loose
      BY SizesAre DEF Loose
    <3> QED
      BY <1>3, <3>1, NoStackIs, UnitsAtChanges
  <2> QED
    BY <1>17, <2>3, <2>4, <2>5
<1> QED
  BY <1>1, <1>17, <1>18

\* A player's slots in two parts, and a chest's window in the same two.
Low == 0..(MainStart - 1)
High == MainStart..OffhandSlot

LEMMA PartsAre ==
    ASSUME NEW f \in [PlayerSlots -> Legal], NEW k
    PROVE  /\ UnitsIn(f, k) = UnitsAt(f, k, Low) + UnitsAt(f, k, High)
           /\ UnitsAt(f, k, Low) \in Int /\ UnitsAt(f, k, High) \in Int
<1> DEFINE u == [i \in PlayerSlots |-> Units(f[i], k)]
           l == [i \in Low |-> Units(f[i], k)]
           h == [i \in High |-> Units(f[i], k)]
<1>1. /\ UnitsIn(f, k) = SumFunctionOnSet(u, PlayerSlots)
      /\ UnitsAt(f, k, Low) = SumFunctionOnSet(l, Low) /\ UnitsAt(f, k, High) = SumFunctionOnSet(h, High)
  BY DEF UnitsIn, UnitsAt
<1>2. IsFiniteSet(PlayerSlots)
  BY SlotsAreFew DEF SlotsOf
<1>3. Low \subseteq PlayerSlots /\ High \subseteq PlayerSlots /\ PlayerSlots \ Low = High /\ PlayerSlots \ High = Low
  BY SizesAre DEF Low, High, PlayerSlots
<1>4. \A i \in PlayerSlots : u[i] \in Nat
  BY LegalIs, StackIs
<1>5. (\A i \in Low : l[i] = u[i]) /\ (\A i \in High : h[i] = u[i])
  BY <1>3
<1> HIDE DEF u, l, h
<1>6. IsFiniteSet(Low) /\ IsFiniteSet(High)
  BY <1>2, <1>3, FS_Subset
<1>7. ASSUME NEW R \in SUBSET PlayerSlots, IsFiniteSet(R), NEW e, \A i \in R : e[i] = u[i]
      PROVE  SumFunctionOnSet(e, R) = SumFunctionOnSet(u, R) /\ SumFunctionOnSet(e, R) \in Nat
  <2> DEFINE z == [i \in R |-> 0]
  <2>1. \A i \in R : u[i] \in Int /\ z[i] \in Int /\ e[i] = u[i] + z[i] /\ z[i] = 0
    BY <1>4, <1>7
  <2> HIDE DEF z
  <2>2. SumFunctionOnSet(e, R) = SumFunctionOnSet(u, R) + SumFunctionOnSet(z, R)
    BY <1>7, <2>1, SumOfTwo
  <2>3. SumFunctionOnSet(z, R) = 0
    BY <1>7, <2>1, SumOfZeros
  <2>4. \A i \in R : u[i] \in Nat
    BY <1>4
  <2>5. SumFunctionOnSet(u, R) \in Nat
    BY <1>7, <2>4, SumOfNats
  <2> QED
    BY <2>2, <2>3, <2>5
<1>8. \A i \in PlayerSlots : u[i] \in Int
  BY <1>4
<1>9. SumFunctionOnSet(u, PlayerSlots) = SumFunctionOnSet(u, Low) + SumFunctionOnSet(u, High)
  BY <1>2, <1>3, <1>8, SumSplits
<1>10. SumFunctionOnSet(l, Low) = SumFunctionOnSet(u, Low) /\ SumFunctionOnSet(l, Low) \in Nat
  BY <1>3, <1>5, <1>6, <1>7
<1>11. SumFunctionOnSet(h, High) = SumFunctionOnSet(u, High) /\ SumFunctionOnSet(h, High) \in Nat
  BY <1>3, <1>5, <1>6, <1>7
<1> QED
  BY <1>1, <1>9, <1>10, <1>11

LEMMA ChestSums ==
    ASSUME NEW g \in [SlotsOf(TRUE) -> Legal], NEW f \in [PlayerSlots -> Legal],
           NEW h \in [0..(ChestSlots - 1) -> Legal], NEW k,
           \A i \in 0..(ChestSlots - 1) : g[i] = h[i],
           \A s \in High : g[s - MainStart + ChestSlots] = f[s]
    PROVE  UnitsIn(g, k) = UnitsIn(h, k) + UnitsAt(f, k, High)
<1> DEFINE C == ChestSlots
           n == MainSlots + HotSlots + 1
           T == SlotsOf(TRUE)
           A == 0..(C - 1)
           u == [i \in T |-> Units(g[i], k)]
           a == [i \in A |-> Units(h[i], k)]
           b == [i \in High |-> Units(f[i], k)]
<1>1. /\ UnitsIn(g, k) = SumFunctionOnSet(u, T) /\ UnitsIn(h, k) = SumFunctionOnSet(a, A)
      /\ UnitsAt(f, k, High) = SumFunctionOnSet(b, High)
  BY DEF UnitsIn, UnitsAt
<1>2. /\ C \in Nat /\ n \in Nat /\ MainStart \in Nat /\ OffhandSlot = MainStart + n - 1 /\ T = 0..(C + n - 1)
      /\ High = MainStart..(MainStart + n - 1)
  BY SizesAre DEF SlotsOf, High
<1>3. IsFiniteSet(T) /\ A \in SUBSET T /\ T \ A = C..(C + n - 1)
  <2>1. IsFiniteSet(T)
    BY SlotsAreFew
  <2> HIDE DEF C, n, T
  <2>2. A \in SUBSET T /\ T \ A = C..(C + n - 1)
    BY <1>2
  <2> QED
    BY <2>1, <2>2
<1>4. \A i \in T : u[i] \in Int
  <2> SUFFICES ASSUME NEW i \in T PROVE Units(g[i], k) \in Int
    OBVIOUS
  <2>1. g[i] \in Legal
    OBVIOUS
  <2> QED
    BY <2>1, LegalIs, StackIs
<1>5. \A i \in A : a[i] = u[i]
  BY <1>3
<1>6. ASSUME NEW s \in High PROVE s - MainStart + C \in T /\ b[s] = u[s - MainStart + C]
  <2> DEFINE m == s - MainStart + C
  <2>1. m \in T
    <3> HIDE DEF C, n, T
    <3> QED
      BY <1>2
  <2>2. g[m] = f[s]
    OBVIOUS
  <2> QED
    BY <2>1, <2>2
<1> HIDE DEF u, a, b, C, n, T, A
<1>7. SumFunctionOnSet(u, T) = SumFunctionOnSet(u, A) + SumFunctionOnSet(u, C..(C + n - 1))
  <2>1. SumFunctionOnSet(u, T) = SumFunctionOnSet(u, A) + SumFunctionOnSet(u, T \ A)
    <3>1. IsFiniteSet(T) /\ A \in SUBSET T
      BY <1>3
    <3> QED
      BY <1>4, <3>1, SumSplits
  <2> QED
    BY <1>3, <2>1
<1>8. SumFunctionOnSet(a, A) = SumFunctionOnSet(u, A)
  <2>1. IsFiniteSet(A) /\ (\A i \in A : a[i] = u[i] /\ u[i] \in Int) /\ A \ A = {}
    BY <1>3, <1>4, <1>5, FS_Subset
  <2> QED
    BY <2>1, SumWithin
<1>9. SumFunctionOnSet(b, High) = SumFunctionOnSet(u, C..(C + n - 1))
  <2> DEFINE p == [s \in High |-> s - MainStart + C]
             R == C..(C + n - 1)
  <2>1. p \in [High -> R] /\ \A x \in High, y \in High : p[x] = p[y] => x = y
    BY <1>2
  <2>2. ASSUME NEW z \in R PROVE \E x \in High : p[x] = z
    <3>1. z - C + MainStart \in High /\ p[z - C + MainStart] = z
      BY <1>2
    <3> QED
      BY <3>1
  <2>3. \A x \in High : b[x] \in Int /\ u[p[x]] = b[x]
    BY <1>4, <1>6
  <2>4. IsFiniteSet(High)
    BY <1>2, FS_Interval
  <2>5. SumFunctionOnSet(b, High) = SumFunctionOnSet(u, R)
    <3> HIDE DEF p, R
    <3> QED
      BY <2>1, <2>2, <2>3, <2>4, SumRenamed
  <2> QED
    BY <2>5
<1> QED
  BY <1>1, <1>7, <1>8, <1>9

-----------------------------------------------------------------------------
(* The two windows of a player with the slots f who carries s, and a chest's h. *)

NoDrops == [k \in Kind |-> 0]
OwnView(f, s) == [chest |-> FALSE, slots |-> f, cursor |-> s, drops |-> NoDrops]
SharedView(f, s, h) ==
    [chest |-> TRUE, cursor |-> s, drops |-> NoDrops,
     slots |-> [i \in 0..(ChestSlots + MainSlots + HotSlots) |->
                    IF i < ChestSlots THEN h[i] ELSE f[MainStart + i - ChestSlots]]]

LEMMA OwnViewIs ==
    ASSUME NEW f \in [PlayerSlots -> Legal], Worn(f), NEW s \in Legal
    PROVE  OwnView(f, s) \in Like(FALSE, [k \in Kind |-> UnitsIn(f, k) + Units(s, k)])
<1> DEFINE v == OwnView(f, s)
<1>1. v.chest = FALSE /\ v.slots = f /\ v.cursor = s /\ v.drops = NoDrops
  BY DEF OwnView
<1>2. v \in Views(FALSE)
  BY DEF Views, OwnView, NoDrops, SlotsOf
<1> HIDE DEF v
<1>3. Fits(v)
  BY <1>1 DEF Fits, IsArmor, Worn
<1>4. \A k \in Kind : Held(v, k) = UnitsIn(f, k) + Units(s, k)
  <2>1. \A k \in Kind : UnitsIn(f, k) \in Int /\ Units(s, k) \in Int /\ NoDrops[k] = 0
    BY PartsAre, LegalIs, StackIs DEF NoDrops
  <2> QED
    BY <1>1, <2>1 DEF Held
<1> QED
  BY <1>2, <1>3, <1>4 DEF Like, v

LEMMA SharedViewIs ==
    ASSUME NEW f \in [PlayerSlots -> Legal], NEW s \in Legal, NEW h \in [0..(ChestSlots - 1) -> Legal]
    PROVE  SharedView(f, s, h)
               \in Like(TRUE, [k \in Kind |-> UnitsIn(h, k) + UnitsAt(f, k, High) + Units(s, k)])
<1> DEFINE v == SharedView(f, s, h)
<1>1. v.chest = TRUE /\ v.cursor = s /\ v.drops = NoDrops
  BY DEF SharedView
<1>2. \A i \in SlotsOf(TRUE) :
         /\ v.slots[i] = IF i < ChestSlots THEN h[i] ELSE f[MainStart + i - ChestSlots]
         /\ i < ChestSlots => i \in 0..(ChestSlots - 1)
         /\ ~(i < ChestSlots) => MainStart + i - ChestSlots \in PlayerSlots
  BY SizesAre DEF SharedView, SlotsOf, PlayerSlots
<1>3. v.slots \in [SlotsOf(TRUE) -> Legal]
  <2>1. \A i \in SlotsOf(TRUE) : v.slots[i] \in Legal
    BY <1>2
  <2>2. v.slots = [i \in SlotsOf(TRUE) |-> v.slots[i]]
    BY DEF SharedView, SlotsOf
  <2> QED
    BY <2>1, <2>2
<1>4. v \in Views(TRUE)
  BY <1>1, <1>3 DEF Views, SharedView, NoDrops
<1> HIDE DEF v
<1>5. Fits(v)
  BY <1>1 DEF Fits, IsArmor
<1>6. ASSUME NEW k \in Kind PROVE Held(v, k) = UnitsIn(h, k) + UnitsAt(f, k, High) + Units(s, k)
  <2>1. \A i \in 0..(ChestSlots - 1) : v.slots[i] = h[i]
    BY <1>2, SizesAre DEF SlotsOf
  <2>2. ASSUME NEW j \in High PROVE v.slots[j - MainStart + ChestSlots] = f[j]
    <3> DEFINE m == j - MainStart + ChestSlots
    <3>1. m \in SlotsOf(TRUE) /\ ~(m < ChestSlots) /\ MainStart + m - ChestSlots = j
      BY SizesAre DEF SlotsOf, High
    <3> HIDE DEF m
    <3>2. v.slots[m] = f[j]
      BY <1>2, <3>1
    <3> QED
      BY <3>2 DEF m
  <2>3. UnitsIn(v.slots, k) = UnitsIn(h, k) + UnitsAt(f, k, High)
    BY <1>3, <2>1, <2>2, ChestSums
  <2>4. UnitsIn(v.slots, k) \in Nat
    <3>1. IsFiniteSet(SlotsOf(TRUE))
      BY SlotsAreFew
    <3> QED
      BY <1>3, <3>1, UnitsAreCounted
  <2>5. Units(s, k) \in Int /\ NoDrops[k] = 0
    BY LegalIs, StackIs DEF NoDrops
  <2> QED
    BY <1>1, <2>3, <2>4, <2>5 DEF Held
<1> QED
  BY <1>4, <1>5, <1>6 DEF Like, v

-----------------------------------------------------------------------------
(* The inductive invariant. *)

Closings == [places : Seq({Hand} \cup 1..GridSlots), at : {"read", "empty", "give", "back"},
             held : Legal, last : {"none", "close"}]
InHand(w) == IF w.at \in {"give", "back"} THEN w.held ELSE NoStack
InPlace(f, s, p) == IF p = Hand THEN s ELSE f[p]

\* A player with the slots f, the cursor s, the drag d, closing as w says.  What
\* it looked at it empties, and the place is empty until it has dealt with that.
Sound(f, s, d, w) ==
    /\ f \in [PlayerSlots -> Legal] /\ Worn(f)
    /\ s \in Legal /\ d \in Drags /\ w \in Closings
    /\ w.at # "read" => /\ w.places # << >> /\ w.held # NoStack
                        /\ InPlace(f, s, Head(w.places)) = IF w.at = "empty" THEN w.held ELSE NoStack
Weight(f, s, w, k) == UnitsIn(f, k) + Units(s, k) + Units(InHand(w), k)

InvInv ==
    /\ inv \in [Viewer -> [PlayerSlots -> Legal]] /\ cursor \in [Viewer -> Legal]
    /\ drag \in [Viewer -> Drags] /\ closing \in [Goroutine -> [Viewer -> Closings]]
    /\ chest \in [0..(ChestSlots - 1) -> Legal]
    /\ lying \in [Kind -> Nat] /\ made \in [Kind -> Int]
    /\ \A c \in Viewer : /\ Sound(inv[c], cursor[c], drag[c], closing["reader"][c])
                         /\ closing["mover"][c] = NotClosing
    /\ ItemsConserved

LEMMA NotClosingIs ==
    /\ NotClosing \in Closings /\ InHand(NotClosing) = NoStack
    /\ NotClosing.at = "read" /\ NotClosing.places = << >>
BY NoStackIs DEF NotClosing, CloseState, Closings, InHand

LEMMA InHandIs ==
    ASSUME NEW w \in Closings
    PROVE  /\ InHand(w) \in Legal /\ \A k : Units(InHand(w), k) \in Nat
           /\ w.held \in Legal /\ w.places \in Seq({Hand} \cup 1..GridSlots)
           /\ w.at \in {"read", "empty", "give", "back"} /\ w.last \in {"none", "close"}
<1>1. InHand(w) \in Legal
  BY NoStackIs DEF InHand, Closings
<1>2. \A k : Units(InHand(w), k) \in Nat
  BY <1>1, LegalIs, StackIs
<1> QED
  BY <1>1, <1>2 DEF Closings

LEMMA WeightIs ==
    ASSUME NEW f, NEW s, NEW d, NEW w, Sound(f, s, d, w), NEW k
    PROVE  /\ Weight(f, s, w, k) \in Nat /\ UnitsIn(f, k) \in Nat
           /\ Units(s, k) \in Nat /\ Units(InHand(w), k) \in Nat
<1>1. f \in [PlayerSlots -> Legal] /\ s \in Legal /\ w \in Closings
  BY DEF Sound
<1>2. IsFiniteSet(PlayerSlots)
  BY SlotsAreFew DEF SlotsOf
<1>3. UnitsIn(f, k) \in Nat
  BY <1>1, <1>2, UnitsAreCounted
<1>4. Units(s, k) \in Nat /\ Units(InHand(w), k) \in Nat
  BY <1>1, LegalIs, StackIs, InHandIs
<1> QED
  BY <1>3, <1>4 DEF Weight

\* A step of one player, which leaves the goods in balance.
Steps(c, f, s, d, w) ==
    /\ inv' = [inv EXCEPT ![c] = f] /\ cursor' = [cursor EXCEPT ![c] = s]
    /\ drag' = [drag EXCEPT ![c] = d] /\ closing' = [closing EXCEPT !["reader"][c] = w]
Balanced(c, f, s, w) ==
    /\ chest' \in [0..(ChestSlots - 1) -> Legal] /\ lying' \in [Kind -> Nat] /\ made' \in [Kind -> Int]
    /\ \A k \in Kind : made'[k] - lying'[k] - UnitsIn(chest', k) - Weight(f, s, w, k)
                           = made[k] - lying[k] - UnitsIn(chest, k)
                             - Weight(inv[c], cursor[c], closing["reader"][c], k)

LEMMA ViewerChanges ==
    ASSUME NEW u, NEW e, NEW c \in Viewer, \A x \in Viewer : u[x] \in Int /\ e[x] \in Int,
           \A x \in Viewer \ {c} : e[x] = u[x]
    PROVE  /\ SumFunctionOnSet(e, Viewer) = SumFunctionOnSet(u, Viewer) - u[c] + e[c]
           /\ SumFunctionOnSet(u, Viewer) \in Int
<1>1. IsFiniteSet(Viewer) /\ c \in Viewer /\ (\A x \in Viewer : u[x] \in Int /\ e[x] \in Int)
      /\ \A x \in Viewer \ {c} : e[x] = u[x]
  BY InventoryAssumption
<1>2. SumFunctionOnSet(e, Viewer) = SumFunctionOnSet(u, Viewer) - u[c] + e[c]
  BY <1>1, SumChanges
<1>3. SumFunctionOnSet(u, Viewer) \in Int
  BY <1>1, SumIsNumber
<1> QED
  BY <1>2, <1>3

LEMMA OneSteps ==
    ASSUME InvInv, NEW c \in Viewer, NEW f, NEW s, NEW d, NEW w, Sound(f, s, d, w),
           Steps(c, f, s, d, w), Balanced(c, f, s, w)
    PROVE  InvInv'
<1>0. f \in [PlayerSlots -> Legal] /\ s \in Legal /\ d \in Drags /\ w \in Closings
  BY DEF Sound
<1>1. /\ inv'[c] = f /\ \A x \in Viewer : x # c => inv'[x] = inv[x]
      /\ inv' \in [Viewer -> [PlayerSlots -> Legal]]
  BY <1>0 DEF InvInv, Steps
<1>2. /\ cursor'[c] = s /\ \A x \in Viewer : x # c => cursor'[x] = cursor[x]
      /\ cursor' \in [Viewer -> Legal]
  BY <1>0 DEF InvInv, Steps
<1>3. /\ drag'[c] = d /\ \A x \in Viewer : x # c => drag'[x] = drag[x]
      /\ drag' \in [Viewer -> Drags]
  BY <1>0 DEF InvInv, Steps
<1>4. /\ closing'["reader"][c] = w /\ \A x \in Viewer : x # c => closing'["reader"][x] = closing["reader"][x]
      /\ \A x \in Viewer : closing'["mover"][x] = closing["mover"][x]
      /\ closing' \in [Goroutine -> [Viewer -> Closings]]
  <2>1. closing \in [Goroutine -> [Viewer -> Closings]] /\ closing' = [closing EXCEPT !["reader"][c] = w]
    BY DEF InvInv, Steps
  <2> QED
    BY <1>0, <2>1 DEF Goroutine
<1>5. \A x \in Viewer : Sound(inv[x], cursor[x], drag[x], closing["reader"][x])
  BY DEF InvInv
<1>6. ASSUME NEW x \in Viewer PROVE Sound(inv'[x], cursor'[x], drag'[x], closing'["reader"][x])
  <2>1. CASE x = c
    BY <1>1, <1>2, <1>3, <1>4, <2>1
  <2>2. CASE x # c
    BY <1>1, <1>2, <1>3, <1>4, <1>5, <2>2
  <2> QED
    BY <2>1, <2>2
<1>7. \A x \in Viewer : closing'["mover"][x] = NotClosing /\ closing["mover"][x] = NotClosing
  BY <1>4 DEF InvInv
<1>8. \A k \in Kind : /\ made'[k] \in Int /\ lying'[k] \in Int /\ UnitsIn(chest', k) \in Int
                      /\ made[k] \in Int /\ lying[k] \in Int /\ UnitsIn(chest, k) \in Int
  <2>1. IsFiniteSet(0..(ChestSlots - 1))
    BY SizesAre, FS_Interval
  <2>2. /\ chest' \in [0..(ChestSlots - 1) -> Legal] /\ chest \in [0..(ChestSlots - 1) -> Legal]
        /\ lying \in [Kind -> Nat] /\ made \in [Kind -> Int]
        /\ lying' \in [Kind -> Nat] /\ made' \in [Kind -> Int]
    BY DEF InvInv, Balanced
  <2>3. \A k \in Kind : UnitsIn(chest', k) \in Nat
    BY <2>1, <2>2, UnitsAreCounted
  <2>4. \A k \in Kind : UnitsIn(chest, k) \in Nat
    BY <2>1, <2>2, UnitsAreCounted
  <2> QED
    BY <2>2, <2>3, <2>4
<1>9. ASSUME NEW k \in Kind
      PROVE  made'[k] = lying'[k] + UnitsIn(chest', k)
                            + SumFunctionOnSet([x \in Viewer |-> UnitsOf(x, k)'], Viewer)
  <2>1. PICK u : u = [x \in Viewer |-> UnitsOf(x, k)]
    OBVIOUS
  <2>2. PICK e : e = [x \in Viewer |-> UnitsOf(x, k)']
    OBVIOUS
  <2>3. ASSUME NEW x \in Viewer
        PROVE  /\ u[x] = Weight(inv[x], cursor[x], closing["reader"][x], k) /\ u[x] \in Int
               /\ e[x] = Weight(inv'[x], cursor'[x], closing'["reader"][x], k) /\ e[x] \in Int
    <3>1. /\ UnitsIn(inv[x], k) \in Nat /\ Units(cursor[x], k) \in Nat
          /\ Units(InHand(closing["reader"][x]), k) \in Nat
      BY <1>5, WeightIs
    <3>2. /\ UnitsIn(inv'[x], k) \in Nat /\ Units(cursor'[x], k) \in Nat
          /\ Units(InHand(closing'["reader"][x]), k) \in Nat
      BY <1>6, WeightIs
    <3>3. Units(InHand(NotClosing), k) = 0
      BY NotClosingIs, NoStackIs
    <3>4. u[x] = UnitsIn(inv[x], k) + Units(cursor[x], k) + Units(InHand(closing["reader"][x]), k)
                     + Units(InHand(closing["mover"][x]), k)
      BY <2>1 DEF UnitsOf, InHands, InHand
    <3>5. e[x] = UnitsIn(inv'[x], k) + Units(cursor'[x], k) + Units(InHand(closing'["reader"][x]), k)
                     + Units(InHand(closing'["mover"][x]), k)
      BY <2>2 DEF UnitsOf, InHands, InHand
    <3> QED
      BY <1>7, <3>1, <3>2, <3>3, <3>4, <3>5 DEF Weight
  <2>4. ASSUME NEW x \in Viewer \ {c} PROVE e[x] = u[x]
    BY <1>1, <1>2, <1>4, <2>3
  <2>5. made[k] = lying[k] + UnitsIn(chest, k) + SumFunctionOnSet(u, Viewer)
    BY <2>1 DEF InvInv, ItemsConserved
  <2>6. /\ u[c] = Weight(inv[c], cursor[c], closing["reader"][c], k)
        /\ e[c] = Weight(f, s, w, k)
    BY <1>1, <1>2, <1>4, <2>3
  <2>7. made'[k] - lying'[k] - UnitsIn(chest', k) - e[c] = made[k] - lying[k] - UnitsIn(chest, k) - u[c]
    BY <2>6 DEF Balanced
  <2>8. \A x \in Viewer : u[x] \in Int /\ e[x] \in Int
    BY <2>3
  <2>9. /\ SumFunctionOnSet(e, Viewer) = SumFunctionOnSet(u, Viewer) - u[c] + e[c]
        /\ SumFunctionOnSet(u, Viewer) \in Int
    BY <2>4, <2>8, ViewerChanges
  <2>10. made'[k] = lying'[k] + UnitsIn(chest', k) + SumFunctionOnSet(e, Viewer)
    <3> DEFINE m1 == made'[k]
               l1 == lying'[k]
               h1 == UnitsIn(chest', k)
               m == made[k]
               l == lying[k]
               h == UnitsIn(chest, k)
    <3>1. /\ m1 \in Int /\ l1 \in Int /\ h1 \in Int /\ m \in Int /\ l \in Int /\ h \in Int
          /\ m1 - l1 - h1 - e[c] = m - l - h - u[c] /\ m = l + h + SumFunctionOnSet(u, Viewer)
          /\ u[c] \in Int /\ e[c] \in Int
      BY <1>8, <2>5, <2>7, <2>8
    <3> HIDE DEF m1, l1, h1, m, l, h
    <3>2. m1 = l1 + h1 + SumFunctionOnSet(e, Viewer)
      BY <2>9, <3>1
    <3> QED
      BY <3>2 DEF m1, l1, h1
  <2> QED
    BY <2>2, <2>10
<1>10. ItemsConserved'
  BY <1>9 DEF ItemsConserved
<1>11. /\ chest' \in [0..(ChestSlots - 1) -> Legal] /\ lying' \in [Kind -> Nat]
       /\ made' \in [Kind -> Int]
  BY DEF Balanced
<1> QED
  BY <1>1, <1>2, <1>3, <1>4, <1>6, <1>7, <1>10, <1>11 DEF InvInv

\* A click in the player's own window.
LEMMA OwnClickIs ==
    ASSUME NEW f \in [PlayerSlots -> Legal], Worn(f), NEW s \in Legal, NEW d \in Drags,
           NEW i \in PlayerSlots \cup {Outside}, NEW k \in Clicks \cup Strokes
    PROVE  LET r == Click(OwnView(f, s), d, i, k)
           IN  /\ r.d \in Drags /\ r.v.slots \in [PlayerSlots -> Legal] /\ Worn(r.v.slots)
               /\ r.v.cursor \in Legal /\ r.v.drops \in [Kind -> Nat]
               /\ \A m \in Kind : UnitsIn(r.v.slots, m) + Units(r.v.cursor, m) + r.v.drops[m]
                                      = UnitsIn(f, m) + Units(s, m)
<1> DEFINE v == OwnView(f, s)
           t == [m \in Kind |-> UnitsIn(f, m) + Units(s, m)]
           r == Click(v, d, i, k)
           w == r.v
<1>1. v \in Like(FALSE, t)
  BY OwnViewIs
<1>2. v.chest = FALSE
  BY DEF OwnView
<1> HIDE DEF v, t
<1>3. i \in 0..(Size(v) - 1) \cup {Outside}
  BY <1>2, SizesAre DEF Size, PlayerSlots
<1>4. w \in Like(FALSE, t) /\ r.d \in Drags
  BY <1>1, <1>3, ClickIs
<1> HIDE DEF r
<1>5. w \in Views(FALSE) /\ Fits(w) /\ \A m \in Kind : Held(w, m) = t[m]
  BY <1>4 DEF Like
<1>6. /\ w.chest = FALSE /\ w.slots \in [PlayerSlots -> Legal] /\ w.cursor \in Legal
      /\ w.drops \in [Kind -> Nat]
  BY <1>5 DEF Views, SlotsOf
<1> HIDE DEF w
<1>7. Worn(w.slots)
  <2>1. ArmorStart..(MainStart - 1) \subseteq PlayerSlots
    BY SizesAre DEF PlayerSlots
  <2> QED
    BY <1>5, <1>6, <2>1 DEF Fits, Worn, IsArmor, SlotsOf
<1>8. \A m \in Kind : UnitsIn(w.slots, m) + Units(w.cursor, m) + w.drops[m]
                          = UnitsIn(f, m) + Units(s, m)
  BY <1>5 DEF Held, t
<1> QED
  BY <1>4, <1>6, <1>7, <1>8 DEF w, r, v

\* What a click in a chest's window leaves the player and the chest.
Own(f, g) == [x \in PlayerSlots |-> IF x < MainStart THEN f[x] ELSE g[x - MainStart + ChestSlots]]
Shared(g) == [x \in 0..(ChestSlots - 1) |-> g[x]]

LEMMA SharedClickIs ==
    ASSUME NEW f \in [PlayerSlots -> Legal], Worn(f), NEW s \in Legal, NEW d \in Drags,
           NEW h \in [0..(ChestSlots - 1) -> Legal],
           NEW i \in 0..(ChestSlots + MainSlots + HotSlots - 1) \cup {Outside}, NEW k \in Clicks \cup Strokes
    PROVE  LET r == Click(SharedView(f, s, h), d, i, k)
               p == Own(f, r.v.slots)
               b == Shared(r.v.slots)
           IN  /\ r.d \in Drags /\ p \in [PlayerSlots -> Legal] /\ Worn(p)
               /\ b \in [0..(ChestSlots - 1) -> Legal]
               /\ r.v.cursor \in Legal /\ r.v.drops \in [Kind -> Nat]
               /\ \A m \in Kind :
                     UnitsIn(p, m) + UnitsIn(b, m) + Units(r.v.cursor, m) + r.v.drops[m]
                         = UnitsIn(f, m) + UnitsIn(h, m) + Units(s, m)
<1> DEFINE v == SharedView(f, s, h)
           t == [m \in Kind |-> UnitsIn(h, m) + UnitsAt(f, m, High) + Units(s, m)]
           r == Click(v, d, i, k)
           w == r.v
           p == Own(f, w.slots)
           b == Shared(w.slots)
<1>1. v \in Like(TRUE, t)
  BY SharedViewIs
<1>2. v.chest = TRUE
  BY DEF SharedView
<1> HIDE DEF v, t
<1>3. i \in 0..(Size(v) - 1) \cup {Outside}
  <2>1. Size(v) = ChestSlots + MainSlots + HotSlots
    BY <1>2 DEF Size
  <2>2. Size(v) - 1 = ChestSlots + MainSlots + HotSlots - 1
    BY <2>1, SizesAre
  <2> HIDE DEF r, w, p, b
  <2> QED
    BY <2>2
<1>4. w \in Like(TRUE, t) /\ r.d \in Drags
  BY <1>1, <1>3, ClickIs
<1> HIDE DEF r
<1>5. w \in Views(TRUE) /\ \A m \in Kind : Held(w, m) = t[m]
  BY <1>4 DEF Like
<1>6. /\ w.slots \in [SlotsOf(TRUE) -> Legal] /\ w.cursor \in Legal
      /\ w.drops \in [Kind -> Nat]
  BY <1>5 DEF Views
<1> HIDE DEF w
<1>7. /\ \A x \in High : x - MainStart + ChestSlots \in SlotsOf(TRUE) /\ x \in PlayerSlots /\ ~(x < MainStart)
      /\ \A x \in Low : x \in PlayerSlots /\ x < MainStart
      /\ 0..(ChestSlots - 1) \subseteq SlotsOf(TRUE)
      /\ \A x \in PlayerSlots : x \in Low \/ x \in High
  BY SizesAre DEF High, Low, PlayerSlots, SlotsOf
<1>8. p \in [PlayerSlots -> Legal] /\ \A x \in High : w.slots[x - MainStart + ChestSlots] = p[x]
  <2>1. ASSUME NEW x \in PlayerSlots PROVE p[x] \in Legal
    BY <1>6, <1>7 DEF Own
  <2>2. p = [x \in PlayerSlots |-> p[x]]
    BY DEF Own
  <2>3. \A x \in High : w.slots[x - MainStart + ChestSlots] = p[x]
    BY <1>7 DEF Own
  <2> QED
    BY <2>1, <2>2, <2>3
<1>9. /\ b \in [0..(ChestSlots - 1) -> Legal] /\ \A x \in 0..(ChestSlots - 1) : w.slots[x] = b[x]
  BY <1>6, <1>7 DEF Shared
<1>10. \A x \in Low : p[x] = f[x]
  BY <1>7 DEF Own
<1>11. Worn(p)
  <2>1. ArmorStart..(MainStart - 1) \subseteq Low
    BY SizesAre DEF Low
  <2> QED
    BY <1>10, <2>1 DEF Worn
<1> HIDE DEF p, b
<1>12. ASSUME NEW m \in Kind
       PROVE  UnitsIn(p, m) + UnitsIn(b, m) + Units(w.cursor, m) + w.drops[m]
                  = UnitsIn(f, m) + UnitsIn(h, m) + Units(s, m)
  <2>1. UnitsIn(w.slots, m) = UnitsIn(b, m) + UnitsAt(p, m, High)
    BY <1>6, <1>8, <1>9, ChestSums
  <2>2. /\ UnitsIn(p, m) = UnitsAt(p, m, Low) + UnitsAt(p, m, High)
        /\ UnitsAt(p, m, Low) \in Int /\ UnitsAt(p, m, High) \in Int
    BY <1>8, PartsAre
  <2>3. /\ UnitsIn(f, m) = UnitsAt(f, m, Low) + UnitsAt(f, m, High)
        /\ UnitsAt(f, m, Low) \in Int /\ UnitsAt(f, m, High) \in Int
    BY PartsAre
  <2>4. UnitsAt(p, m, Low) = UnitsAt(f, m, Low)
    BY <1>10 DEF UnitsAt
  <2>5. UnitsIn(w.slots, m) + Units(w.cursor, m) + w.drops[m]
            = UnitsIn(h, m) + UnitsAt(f, m, High) + Units(s, m)
    BY <1>5 DEF Held, t
  <2>6. IsFiniteSet(0..(ChestSlots - 1))
    BY SizesAre, FS_Interval
  <2>7. UnitsIn(h, m) \in Nat /\ UnitsIn(b, m) \in Nat
    BY <1>9, <2>6, UnitsAreCounted
  <2>8. Units(s, m) \in Nat /\ Units(w.cursor, m) \in Nat /\ w.drops[m] \in Nat
    BY <1>6, LegalIs, StackIs
  <2> DEFINE pl == UnitsAt(p, m, Low)
             ph == UnitsAt(p, m, High)
             fh == UnitsAt(f, m, High)
             uh == UnitsIn(h, m)
             ub == UnitsIn(b, m)
             us == Units(s, m)
             uc == Units(w.cursor, m)
             ud == w.drops[m]
  <2>9. /\ pl \in Int /\ ph \in Int /\ fh \in Int /\ uh \in Int /\ ub \in Int /\ us \in Int /\ uc \in Int /\ ud \in Int
        /\ UnitsIn(p, m) = pl + ph /\ UnitsIn(f, m) = pl + fh
        /\ ub + ph + uc + ud = uh + fh + us
    BY <2>1, <2>2, <2>3, <2>4, <2>5, <2>7, <2>8
  <2> HIDE DEF pl, ph, fh, uh, ub, us, uc, ud
  <2>10. UnitsIn(p, m) + ub + uc + ud = UnitsIn(f, m) + uh + us
    BY <2>9
  <2> QED
    BY <2>10 DEF ub, uc, ud, uh, us
<1> QED
  BY <1>4, <1>6, <1>8, <1>9, <1>11, <1>12 DEF w, r, v, p, b

LEMMA HereIs ==
    ASSUME InvInv, NEW c \in Viewer
    PROVE  /\ inv = [inv EXCEPT ![c] = inv[c]] /\ cursor = [cursor EXCEPT ![c] = cursor[c]]
           /\ drag = [drag EXCEPT ![c] = drag[c]]
           /\ closing = [closing EXCEPT !["reader"][c] = closing["reader"][c]]
           /\ Sound(inv[c], cursor[c], drag[c], closing["reader"][c])
           /\ closing["mover"][c] = NotClosing
           /\ chest \in [0..(ChestSlots - 1) -> Legal]
           /\ lying \in [Kind -> Nat] /\ made \in [Kind -> Int]
           /\ \A k \in Kind : /\ UnitsIn(chest, k) \in Nat /\ lying[k] \in Nat /\ made[k] \in Int
                              /\ Weight(inv[c], cursor[c], closing["reader"][c], k) \in Nat
<1>1. /\ inv \in [Viewer -> [PlayerSlots -> Legal]] /\ cursor \in [Viewer -> Legal]
      /\ drag \in [Viewer -> Drags] /\ closing \in [Goroutine -> [Viewer -> Closings]]
      /\ chest \in [0..(ChestSlots - 1) -> Legal] /\ lying \in [Kind -> Nat] /\ made \in [Kind -> Int]
      /\ Sound(inv[c], cursor[c], drag[c], closing["reader"][c]) /\ closing["mover"][c] = NotClosing
  BY DEF InvInv
<1>2. /\ inv = [inv EXCEPT ![c] = inv[c]] /\ cursor = [cursor EXCEPT ![c] = cursor[c]]
      /\ drag = [drag EXCEPT ![c] = drag[c]]
  BY <1>1
<1>3. closing = [closing EXCEPT !["reader"][c] = closing["reader"][c]]
  BY <1>1 DEF Goroutine
<1>4. IsFiniteSet(0..(ChestSlots - 1))
  BY SizesAre, FS_Interval
<1>5. \A k \in Kind : UnitsIn(chest, k) \in Nat
  BY <1>1, <1>4, UnitsAreCounted
<1>6. \A k \in Kind : Weight(inv[c], cursor[c], closing["reader"][c], k) \in Nat
  BY <1>1, WeightIs
<1> QED
  BY <1>1, <1>2, <1>3, <1>5, <1>6

\* Neither the ground nor the chest is touched, and no more or less is held.
LEMMA NothingMoves ==
    ASSUME InvInv, NEW c \in Viewer, NEW f, NEW s, NEW d, NEW w, Sound(f, s, d, w),
           Steps(c, f, s, d, w), UNCHANGED <<chest, lying, made>>,
           \A k \in Kind : Weight(f, s, w, k) = Weight(inv[c], cursor[c], closing["reader"][c], k)
    PROVE  InvInv'
<1>1. Balanced(c, f, s, w)
  BY HereIs DEF Balanced
<1> QED
  BY <1>1, OneSteps

\* Only the drag changes.
LEMMA DragChanges ==
    ASSUME InvInv, NEW c \in Viewer, NEW d \in Drags, drag' = [drag EXCEPT ![c] = d],
           UNCHANGED <<inv, cursor, closing, chest, lying, made>>
    PROVE  InvInv'
<1> DEFINE f == inv[c]
           s == cursor[c]
           w == closing["reader"][c]
<1>1. Sound(f, s, drag[c], w) /\ Steps(c, f, s, d, w)
  BY HereIs DEF Steps
<1>2. Sound(f, s, d, w)
  BY <1>1 DEF Sound
<1>3. UNCHANGED <<chest, lying, made>>
  OBVIOUS
<1> QED
  BY <1>1, <1>2, <1>3, NothingMoves

LEMMA KeepsClickInventory ==
    ASSUME InvInv, NEW c \in Viewer, NEW k \in Clicks \cup Strokes, NEW i \in At(k, PlayerSlots),
           ClickInventory(c, i, k)
    PROVE  InvInv'
<1> DEFINE f == inv[c]
           s == cursor[c]
           d == drag[c]
           w == closing["reader"][c]
           r == Click(PlayerView(c), drag[c], i, k)
           v == r.v
<1>1. PlayerView(c) = OwnView(f, s)
  BY DEF PlayerView, OwnView, NoDrops
<1>2. /\ Sound(f, s, d, w) /\ f \in [PlayerSlots -> Legal] /\ Worn(f) /\ s \in Legal /\ d \in Drags
      /\ i \in PlayerSlots \cup {Outside}
  BY HereIs DEF Sound, At
<1>3. /\ r.d \in Drags /\ v.slots \in [PlayerSlots -> Legal] /\ Worn(v.slots)
      /\ v.cursor \in Legal /\ v.drops \in [Kind -> Nat]
      /\ \A m \in Kind : UnitsIn(v.slots, m) + Units(v.cursor, m) + v.drops[m] = UnitsIn(f, m) + Units(s, m)
  <2>1. r = Click(OwnView(f, s), d, i, k)
    BY <1>1
  <2> HIDE DEF f, s, d, w, r
  <2> QED
    BY <1>2, <2>1, OwnClickIs
<1>4. /\ w = NotClosing /\ drag' = [drag EXCEPT ![c] = r.d]
      /\ UNCHANGED <<chest, closing, made>>
      /\ \/ /\ inv' = [inv EXCEPT ![c] = v.slots]
            /\ cursor' = [cursor EXCEPT ![c] = v.cursor]
            /\ ThrowAll(v)
         \/ UNCHANGED <<inv, cursor, lying>>
  BY DEF ClickInventory, ReaderFree
<1> HIDE DEF r, v
<1>5. CASE UNCHANGED <<inv, cursor, lying>>
  BY <1>3, <1>4, <1>5, DragChanges
<1>6. CASE /\ inv' = [inv EXCEPT ![c] = v.slots]
           /\ cursor' = [cursor EXCEPT ![c] = v.cursor]
           /\ ThrowAll(v)
  <2>1. Steps(c, v.slots, v.cursor, r.d, w)
    BY <1>4, <1>6, HereIs DEF Steps
  <2>2. Sound(v.slots, v.cursor, r.d, w)
    BY <1>3, <1>4, NotClosingIs DEF Sound
  <2>3. lying' = [m \in Kind |-> lying[m] + v.drops[m]] /\ chest' = chest /\ made' = made
    BY <1>4, <1>6 DEF ThrowAll
  <2>4. ASSUME NEW m \in Kind
        PROVE  made'[m] - lying'[m] - UnitsIn(chest', m) - Weight(v.slots, v.cursor, w, m)
                   = made[m] - lying[m] - UnitsIn(chest, m) - Weight(f, s, w, m)
    <3>1. /\ made[m] \in Int /\ lying[m] \in Nat /\ v.drops[m] \in Nat /\ UnitsIn(chest, m) \in Nat
          /\ lying'[m] = lying[m] + v.drops[m]
      BY <1>3, <2>3, HereIs
    <3>2. Weight(v.slots, v.cursor, w, m) + v.drops[m] = Weight(f, s, w, m) /\ Weight(f, s, w, m) \in Nat
          /\ Weight(v.slots, v.cursor, w, m) \in Nat
      <4>1. /\ UnitsIn(v.slots, m) \in Nat /\ Units(v.cursor, m) \in Nat /\ Units(InHand(w), m) \in Nat
            /\ Weight(v.slots, v.cursor, w, m) \in Nat
        BY <2>2, WeightIs
      <4>2. UnitsIn(f, m) \in Nat /\ Units(s, m) \in Nat /\ Weight(f, s, w, m) \in Nat
        BY <1>2, WeightIs
      <4>3. UnitsIn(v.slots, m) + Units(v.cursor, m) + v.drops[m] = UnitsIn(f, m) + Units(s, m)
        BY <1>3
      <4> HIDE DEF f, s, w
      <4> QED
        BY <3>1, <4>1, <4>2, <4>3 DEF Weight
    <3> HIDE DEF f, s, w
    <3> QED
      BY <2>3, <3>1, <3>2
  <2>5. lying' \in [Kind -> Nat] /\ chest' \in [0..(ChestSlots - 1) -> Legal] /\ made' \in [Kind -> Int]
    BY <1>3, <2>3, HereIs
  <2>6. Balanced(c, v.slots, v.cursor, w)
    BY <2>4, <2>5 DEF Balanced
  <2> QED
    BY <2>1, <2>2, <2>6, OneSteps
<1> QED
  BY <1>4, <1>5, <1>6

LEMMA KeepsClickChest ==
    ASSUME InvInv, NEW c \in Viewer, NEW k \in Clicks \cup Strokes,
           NEW i \in At(k, 0..(ChestSlots + MainSlots + HotSlots - 1)), ClickChest(c, i, k)
    PROVE  InvInv'
<1> DEFINE f == inv[c]
           s == cursor[c]
           d == drag[c]
           w == closing["reader"][c]
           h == chest
           r == Click(ChestView(c), drag[c], i, k)
           v == r.v
           p == Own(f, v.slots)
           b == Shared(v.slots)
<1>1. ChestView(c) = SharedView(f, s, h)
  BY DEF ChestView, SharedView, NoDrops
<1>2. /\ Sound(f, s, d, w) /\ f \in [PlayerSlots -> Legal] /\ Worn(f) /\ s \in Legal /\ d \in Drags
      /\ h \in [0..(ChestSlots - 1) -> Legal]
      /\ i \in 0..(ChestSlots + MainSlots + HotSlots - 1) \cup {Outside}
  BY HereIs DEF Sound, At
<1>3. /\ r.d \in Drags /\ p \in [PlayerSlots -> Legal] /\ Worn(p)
      /\ b \in [0..(ChestSlots - 1) -> Legal]
      /\ v.cursor \in Legal /\ v.drops \in [Kind -> Nat]
      /\ \A m \in Kind : UnitsIn(p, m) + UnitsIn(b, m) + Units(v.cursor, m) + v.drops[m]
                             = UnitsIn(f, m) + UnitsIn(h, m) + Units(s, m)
  <2>1. r = Click(SharedView(f, s, h), d, i, k)
    BY <1>1
  <2> HIDE DEF f, s, d, w, r, h
  <2> QED
    BY <1>2, <2>1, SharedClickIs
<1>4. /\ w = NotClosing /\ drag' = [drag EXCEPT ![c] = r.d]
      /\ UNCHANGED <<closing, made>>
      /\ \/ /\ inv' = [inv EXCEPT ![c] = p]
            /\ chest' = b
            /\ cursor' = [cursor EXCEPT ![c] = v.cursor]
            /\ ThrowAll(v)
         \/ UNCHANGED <<inv, chest, cursor, lying>>
  <2>1. DOMAIN chest = 0..(ChestSlots - 1)
    BY <1>2
  <2> QED
    BY <2>1 DEF ClickChest, ReaderFree, Own, Shared
<1> HIDE DEF r, v, p, b, h
<1>5. CASE UNCHANGED <<inv, chest, cursor, lying>>
  BY <1>3, <1>4, <1>5, DragChanges
<1>6. CASE /\ inv' = [inv EXCEPT ![c] = p]
           /\ chest' = b
           /\ cursor' = [cursor EXCEPT ![c] = v.cursor]
           /\ ThrowAll(v)
  <2>1. Steps(c, p, v.cursor, r.d, w)
    BY <1>4, <1>6, HereIs DEF Steps
  <2>2. Sound(p, v.cursor, r.d, w)
    BY <1>3, <1>4, NotClosingIs DEF Sound
  <2>3. lying' = [m \in Kind |-> lying[m] + v.drops[m]] /\ chest' = b /\ made' = made
    BY <1>4, <1>6 DEF ThrowAll
  <2>4. ASSUME NEW m \in Kind
        PROVE  made'[m] - lying'[m] - UnitsIn(chest', m) - Weight(p, v.cursor, w, m)
                   = made[m] - lying[m] - UnitsIn(chest, m) - Weight(f, s, w, m)
    <3>1. /\ made[m] \in Int /\ lying[m] \in Nat /\ v.drops[m] \in Nat /\ UnitsIn(h, m) \in Nat
          /\ lying'[m] = lying[m] + v.drops[m]
      BY <1>3, <2>3, HereIs DEF h
    <3>2. UnitsIn(b, m) \in Nat
      <4>1. IsFiniteSet(0..(ChestSlots - 1))
        BY SizesAre, FS_Interval
      <4> QED
        BY <1>3, <4>1, UnitsAreCounted
    <3>3. /\ Weight(p, v.cursor, w, m) + v.drops[m] + UnitsIn(b, m) = Weight(f, s, w, m) + UnitsIn(h, m)
          /\ Weight(f, s, w, m) \in Nat /\ Weight(p, v.cursor, w, m) \in Nat
      <4>1. /\ UnitsIn(p, m) \in Nat /\ Units(v.cursor, m) \in Nat /\ Units(InHand(w), m) \in Nat
            /\ Weight(p, v.cursor, w, m) \in Nat
        BY <2>2, WeightIs
      <4>2. UnitsIn(f, m) \in Nat /\ Units(s, m) \in Nat /\ Weight(f, s, w, m) \in Nat
        BY <1>2, WeightIs
      <4>3. UnitsIn(p, m) + UnitsIn(b, m) + Units(v.cursor, m) + v.drops[m]
                = UnitsIn(f, m) + UnitsIn(h, m) + Units(s, m)
        BY <1>3
      <4> DEFINE a1 == UnitsIn(p, m)
                 a2 == Units(v.cursor, m)
                 a3 == Units(InHand(w), m)
                 a4 == v.drops[m]
                 a5 == UnitsIn(b, m)
                 b1 == UnitsIn(f, m)
                 b2 == Units(s, m)
                 b5 == UnitsIn(h, m)
      <4>4. /\ a1 \in Nat /\ a2 \in Nat /\ a3 \in Nat /\ a4 \in Nat /\ a5 \in Nat
            /\ b1 \in Nat /\ b2 \in Nat /\ b5 \in Nat
            /\ a1 + a5 + a2 + a4 = b1 + b5 + b2
        BY <3>1, <3>2, <4>1, <4>2, <4>3
      <4>5. Weight(p, v.cursor, w, m) = a1 + a2 + a3 /\ Weight(f, s, w, m) = b1 + b2 + a3
        BY DEF Weight
      <4> HIDE DEF a1, a2, a3, a4, a5, b1, b2, b5
      <4>6. (a1 + a2 + a3) + a4 + a5 = (b1 + b2 + a3) + b5
        BY <4>4
      <4> QED
        BY <4>1, <4>2, <4>5, <4>6 DEF a4, a5, b5
    <3>4. UnitsIn(chest', m) = UnitsIn(b, m) /\ UnitsIn(chest, m) = UnitsIn(h, m) /\ made'[m] = made[m]
      BY <2>3 DEF h
    <3> DEFINE new == Weight(p, v.cursor, w, m)
               old == Weight(f, s, w, m)
               y == made[m]
               z == lying[m]
               a4 == v.drops[m]
               a5 == UnitsIn(b, m)
               b5 == UnitsIn(h, m)
    <3>5. /\ new \in Int /\ old \in Int /\ y \in Int /\ z \in Int /\ a4 \in Int /\ a5 \in Int /\ b5 \in Int
          /\ new + a4 + a5 = old + b5
      BY <3>1, <3>2, <3>3
    <3>6. lying'[m] = z + a4 /\ UnitsIn(chest', m) = a5 /\ UnitsIn(chest, m) = b5 /\ made'[m] = y
      BY <3>1, <3>4
    <3> HIDE DEF new, old, y, z, a4, a5, b5
    <3>7. y - (z + a4) - a5 - new = y - z - b5 - old
      BY <3>5
    <3> QED
      BY <3>6, <3>7 DEF new, old, y, z
  <2>5. lying' \in [Kind -> Nat] /\ chest' \in [0..(ChestSlots - 1) -> Legal] /\ made' \in [Kind -> Int]
    BY <1>3, <2>3, HereIs
  <2>6. Balanced(c, p, v.cursor, w)
    BY <2>4, <2>5 DEF Balanced
  <2> QED
    BY <2>1, <2>2, <2>6, OneSteps
<1> QED
  BY <1>4, <1>5, <1>6

LEMMA KeepsOpenChest == ASSUME InvInv, NEW c \in Viewer, OpenChest(c) PROVE InvInv'
<1>1. NoDrag \in Drags /\ drag' = [drag EXCEPT ![c] = NoDrag]
      /\ UNCHANGED <<inv, cursor, closing, chest, lying, made>>
  BY DEF OpenChest, Drags
<1> QED
  BY <1>1, DragChanges

-----------------------------------------------------------------------------
(* Closing a window. *)

GridAndHand == {Hand} \cup 1..GridSlots

LEMMA CloseStateIs ==
    ASSUME NEW q \in Seq(GridAndHand), NEW at \in {"read", "empty", "give", "back"}, NEW st \in Legal,
           NEW l \in {"none", "close"}
    PROVE  LET w == CloseState(q, at, st, l)
           IN  /\ w \in Closings /\ w.places = q /\ w.at = at /\ w.held = st /\ w.last = l
               /\ InHand(w) = IF at \in {"give", "back"} THEN st ELSE NoStack
BY DEF CloseState, Closings, InHand, GridAndHand

\* The reader sets out, or is done with a place, with nothing in its hands.
LEMMA ReaderMoves ==
    ASSUME InvInv, NEW c \in Viewer, NEW d \in Drags, NEW w \in Closings,
           closing["reader"][c].at = "read",
           w.at = "read" \/ /\ w.at = "empty" /\ w.places # << >> /\ w.held # NoStack
                            /\ InPlace(inv[c], cursor[c], Head(w.places)) = w.held,
           drag' = [drag EXCEPT ![c] = d], closing' = [closing EXCEPT !["reader"][c] = w],
           UNCHANGED <<inv, cursor, chest, lying, made>>
    PROVE  InvInv'
<1>1. Steps(c, inv[c], cursor[c], d, w)
  BY HereIs DEF Steps
<1>2. Sound(inv[c], cursor[c], drag[c], closing["reader"][c])
  BY HereIs
<1>3. Sound(inv[c], cursor[c], d, w)
  BY <1>2 DEF Sound
<1>4. InHand(w) = NoStack /\ InHand(closing["reader"][c]) = NoStack
  BY DEF InHand
<1>5. \A k \in Kind : Weight(inv[c], cursor[c], w, k) = Weight(inv[c], cursor[c], closing["reader"][c], k)
  BY <1>4 DEF Weight
<1>6. UNCHANGED <<chest, lying, made>>
  OBVIOUS
<1> QED
  BY <1>1, <1>3, <1>5, <1>6, NothingMoves

LEMMA SetsOut ==
    ASSUME NEW q \in {GridPlaces, << >>}
    PROVE  <<Hand>> \o q \in Seq(GridAndHand)
<1>1. q \in Seq(GridAndHand)
  <2>1. \A i \in 1..GridSlots : i \in GridAndHand
    BY DEF GridAndHand
  <2>2. GridPlaces \in Seq(GridAndHand)
    BY <2>1, SizesAre DEF GridPlaces
  <2>3. << >> \in Seq(GridAndHand)
    OBVIOUS
  <2> QED
    BY <2>2, <2>3
<1>2. <<Hand>> \in Seq(GridAndHand)
  BY DEF GridAndHand
<1> QED
  BY <1>1, <1>2, ConcatProperties

LEMMA KeepsCloseContainer ==
    ASSUME InvInv, NEW c \in Viewer, NEW win, CloseContainer(c, win) PROVE InvInv'
<1> DEFINE q == <<Hand>> \o (IF win = 0 THEN GridPlaces ELSE << >>)
           l == IF win = 0 THEN "none" ELSE "close"
           w == CloseState(q, "read", NoStack, l)
<1>1. q \in Seq(GridAndHand)
  BY SetsOut
<1>2. l \in {"none", "close"} /\ NoStack \in Legal /\ NoDrag \in Drags
  BY NoStackIs DEF Drags
<1>3. closing["reader"][c].at = "read"
  BY NotClosingIs DEF CloseContainer, ReaderFree
<1>4. drag' = [drag EXCEPT ![c] = NoDrag] /\ closing' = [closing EXCEPT !["reader"][c] = w]
      /\ UNCHANGED <<inv, cursor, chest, lying, made>>
  BY DEF CloseContainer
<1> HIDE DEF q, l
<1>5. w \in Closings /\ w.at = "read"
  BY <1>1, <1>2, CloseStateIs
<1> HIDE DEF w
<1> QED
  BY <1>2, <1>3, <1>4, <1>5, ReaderMoves

LEMMA KeepsCloseWindows ==
    ASSUME ~Foreign, InvInv, NEW c \in Viewer, NEW g \in Goroutine, CloseWindows(g, c) PROVE InvInv'
<1> DEFINE q == <<Hand>> \o GridPlaces
           w == CloseState(q, "read", NoStack, "close")
<1>1. q \in Seq(GridAndHand)
  BY SetsOut
<1>2. NoStack \in Legal /\ NoDrag \in Drags
  BY NoStackIs DEF Drags
<1>3. g = "reader" /\ closing["reader"][c].at = "read"
  BY NotClosingIs DEF CloseWindows, Goroutine
<1>4. drag' = [drag EXCEPT ![c] = NoDrag] /\ closing' = [closing EXCEPT !["reader"][c] = w]
      /\ UNCHANGED <<inv, cursor, chest, lying, made>>
  BY <1>3 DEF CloseWindows
<1> HIDE DEF q
<1>5. w \in Closings /\ w.at = "read"
  BY <1>1, <1>2, CloseStateIs
<1> HIDE DEF w
<1> QED
  BY <1>2, <1>3, <1>4, <1>5, ReaderMoves

\* One slot of a player's.
LEMMA SlotChanges ==
    ASSUME NEW f \in [PlayerSlots -> Legal], NEW p \in PlayerSlots, NEW st \in Legal, NEW k
    PROVE  /\ UnitsIn([f EXCEPT ![p] = st], k) = UnitsIn(f, k) - Units(f[p], k) + Units(st, k)
           /\ UnitsIn(f, k) \in Nat /\ Units(f[p], k) \in Nat /\ Units(st, k) \in Nat
<1>1. f[p] \in Legal
  OBVIOUS
<1>2. Units(f[p], k) \in Nat /\ Units(st, k) \in Nat
  BY <1>1, LegalIs, StackIs
<1>3. /\ UnitsIn(f, k) = UnitsAt(f, k, PlayerSlots)
      /\ UnitsIn([f EXCEPT ![p] = st], k) = UnitsAt([f EXCEPT ![p] = st], k, PlayerSlots)
  BY DEF UnitsIn
<1>4. /\ UnitsAt(f, k, PlayerSlots) \in Nat
      /\ UnitsAt([f EXCEPT ![p] = st], k, PlayerSlots)
             = UnitsAt(f, k, PlayerSlots) - Units(f[p], k) + Units(st, k)
  BY UnitsAtChanges
<1> QED
  BY <1>2, <1>3, <1>4

\* One of the places a closing window empties, after st is put there.
SlotsWith(f, p, st) == IF p = Hand THEN f ELSE [f EXCEPT ![p] = st]
CursorWith(s, p, st) == IF p = Hand THEN st ELSE s

LEMMA PlaceIs ==
    ASSUME NEW f \in [PlayerSlots -> Legal], NEW s \in Legal, NEW p \in GridAndHand
    PROVE  InPlace(f, s, p) \in Legal /\ (p # Hand => p \in PlayerSlots \ Loose)
<1>1. p # Hand => p \in PlayerSlots \ Loose
  BY SizesAre DEF GridAndHand, PlayerSlots, Loose
<1> QED
  BY <1>1 DEF InPlace

LEMMA PlaceChanges ==
    ASSUME NEW f \in [PlayerSlots -> Legal], Worn(f), NEW s \in Legal, NEW p \in GridAndHand, NEW st \in Legal
    PROVE  LET e == SlotsWith(f, p, st)
               x == CursorWith(s, p, st)
           IN  /\ e \in [PlayerSlots -> Legal] /\ Worn(e) /\ x \in Legal /\ InPlace(e, x, p) = st
               /\ \A k : UnitsIn(e, k) + Units(x, k) + Units(InPlace(f, s, p), k)
                             = UnitsIn(f, k) + Units(s, k) + Units(st, k)
<1> DEFINE e == SlotsWith(f, p, st)
           x == CursorWith(s, p, st)
<1>1. \A y \in Legal : \A k : Units(y, k) \in Nat
  BY LegalIs, StackIs
<1>2. IsFiniteSet(PlayerSlots)
  BY SlotsAreFew DEF SlotsOf
<1>3. CASE p = Hand
  <2>1. e = f /\ x = st /\ InPlace(f, s, p) = s /\ InPlace(e, x, p) = st
    BY <1>3 DEF SlotsWith, CursorWith, InPlace
  <2>2. ASSUME NEW k
        PROVE  UnitsIn(f, k) + Units(st, k) + Units(s, k) = UnitsIn(f, k) + Units(s, k) + Units(st, k)
    <3>1. UnitsIn(f, k) \in Nat /\ Units(st, k) \in Nat /\ Units(s, k) \in Nat
      BY <1>1, <1>2, UnitsAreCounted
    <3> QED
      BY <3>1
  <2> HIDE DEF e, x
  <2>3. \A k : UnitsIn(e, k) + Units(x, k) + Units(InPlace(f, s, p), k) = UnitsIn(f, k) + Units(s, k) + Units(st, k)
    BY <2>1, <2>2
  <2> QED
    BY <2>1, <2>3 DEF e, x
<1>4. CASE p # Hand
  <2>1. p \in PlayerSlots \ Loose /\ p \in 1..GridSlots
    BY <1>4, PlaceIs DEF GridAndHand
  <2>2. e = [f EXCEPT ![p] = st] /\ x = s /\ InPlace(f, s, p) = f[p] /\ InPlace(e, x, p) = e[p]
    BY <1>4 DEF SlotsWith, CursorWith, InPlace
  <2> HIDE DEF e, x
  <2>3. e \in [PlayerSlots -> Legal] /\ e[p] = st /\ \A y \in PlayerSlots : y # p => e[y] = f[y]
    BY <2>1, <2>2
  <2>4. Worn(e)
    <3>1. \A y \in ArmorStart..(MainStart - 1) : y \in PlayerSlots /\ y # p
      BY <2>1, SizesAre DEF PlayerSlots
    <3> QED
      BY <2>3, <3>1 DEF Worn
  <2>5. ASSUME NEW k
        PROVE  UnitsIn(e, k) + Units(s, k) + Units(f[p], k) = UnitsIn(f, k) + Units(s, k) + Units(st, k)
    <3>1. UnitsIn(e, k) = UnitsIn(f, k) - Units(f[p], k) + Units(st, k) /\ UnitsIn(f, k) \in Nat
      <4>1. p \in PlayerSlots
        BY <2>1
      <4>2. /\ UnitsIn([f EXCEPT ![p] = st], k) = UnitsIn(f, k) - Units(f[p], k) + Units(st, k)
            /\ UnitsIn(f, k) \in Nat
        BY <4>1, SlotChanges
      <4> QED
        BY <2>2, <4>2
    <3>2. Units(st, k) \in Nat /\ Units(s, k) \in Nat /\ Units(f[p], k) \in Nat
      BY <1>1, <2>1
    <3> QED
      BY <3>1, <3>2
  <2>6. \A k : UnitsIn(e, k) + Units(x, k) + Units(InPlace(f, s, p), k) = UnitsIn(f, k) + Units(s, k) + Units(st, k)
    BY <2>2, <2>5
  <2> QED
    BY <2>2, <2>3, <2>4, <2>6 DEF e, x
<1> QED
  BY <1>3, <1>4

LEMMA SetAtIs ==
    ASSUME InvInv, NEW c \in Viewer, NEW p, NEW st, SetAt(c, p, st)
    PROVE  /\ inv' = [inv EXCEPT ![c] = SlotsWith(inv[c], p, st)]
           /\ cursor' = [cursor EXCEPT ![c] = CursorWith(cursor[c], p, st)]
<1>1. inv = [inv EXCEPT ![c] = inv[c]] /\ cursor = [cursor EXCEPT ![c] = cursor[c]]
  BY HereIs
<1>2. CASE p = Hand
  BY <1>1, <1>2 DEF SetAt, SlotsWith, CursorWith
<1>3. CASE p # Hand
  BY <1>1, <1>3 DEF SetAt, SlotsWith, CursorWith
<1> QED
  BY <1>2, <1>3

\* Who is on the way through a closing window, and where.
LEMMA ReaderIs ==
    ASSUME InvInv, NEW c \in Viewer, NEW g \in Goroutine, closing[g][c] # NotClosing
    PROVE  g = "reader"
BY HereIs DEF Goroutine

LEMMA PlacesAre ==
    ASSUME InvInv, NEW c \in Viewer, closing["reader"][c].places # << >>
    PROVE  LET w == closing["reader"][c]
           IN  /\ Head(w.places) \in GridAndHand /\ PlaceDone(w) \in Closings
               /\ PlaceDone(w).at = "read" /\ InHand(PlaceDone(w)) = NoStack
               /\ w \in Closings /\ w.places \in Seq(GridAndHand) /\ w.held \in Legal
               /\ w.last \in {"none", "close"}
<1> DEFINE w == closing["reader"][c]
<1>1. Sound(inv[c], cursor[c], drag[c], w)
  BY HereIs
<1>2. w \in Closings
  BY <1>1 DEF Sound
<1>3. w.places \in Seq(GridAndHand) /\ w.held \in Legal /\ w.last \in {"none", "close"}
  BY <1>2, InHandIs DEF GridAndHand
<1> HIDE DEF w
<1>4. Head(w.places) \in GridAndHand /\ Tail(w.places) \in Seq(GridAndHand)
  BY <1>3 DEF w
<1>5. /\ PlaceDone(w) \in Closings /\ PlaceDone(w).at = "read" /\ InHand(PlaceDone(w)) = NoStack
  <2> DEFINE q == Tail(w.places)
             l == w.last
  <2>1. q \in Seq(GridAndHand) /\ l \in {"none", "close"} /\ NoStack \in Legal
    BY <1>3, <1>4, NoStackIs
  <2>2. PlaceDone(w) = CloseState(q, "read", NoStack, l)
    BY DEF PlaceDone
  <2> HIDE DEF q, l
  <2> QED
    BY <2>1, <2>2, CloseStateIs
<1> QED
  BY <1>2, <1>3, <1>4, <1>5 DEF w

LEMMA KeepsCloseRead ==
    ASSUME InvInv, NEW c \in Viewer, NEW g \in Goroutine, CloseRead(g, c) PROVE InvInv'
<1> DEFINE w == closing["reader"][c]
           p == Head(w.places)
           st == InPlace(inv[c], cursor[c], p)
           n == IF st = NoStack THEN PlaceDone(w) ELSE CloseState(w.places, "empty", st, w.last)
<1>1. g = "reader"
  BY ReaderIs, NotClosingIs DEF CloseRead
<1>2. w.places # << >> /\ w.at = "read" /\ closing' = [closing EXCEPT !["reader"][c] = n]
      /\ UNCHANGED <<inv, cursor, drag, chest, lying, made>>
  BY <1>1 DEF CloseRead, HeldAt, InPlace
<1>3. /\ p \in GridAndHand /\ PlaceDone(w) \in Closings /\ PlaceDone(w).at = "read"
      /\ w.places \in Seq(GridAndHand) /\ w.last \in {"none", "close"}
  BY <1>2, PlacesAre
<1>4. Sound(inv[c], cursor[c], drag[c], w) /\ drag = [drag EXCEPT ![c] = drag[c]]
  BY HereIs
<1>5. st \in Legal /\ drag[c] \in Drags
  BY <1>3, <1>4, PlaceIs DEF Sound
<1> HIDE DEF w, p, st
<1>6. n \in Closings /\ (n.at = "read" \/ /\ n.at = "empty" /\ n.places # << >> /\ n.held # NoStack
                                          /\ n.places = w.places /\ n.held = st)
  BY <1>2, <1>3, <1>5, CloseStateIs
<1> HIDE DEF n
<1>7. n.at = "read" \/ /\ n.at = "empty" /\ n.places # << >> /\ n.held # NoStack
                       /\ InPlace(inv[c], cursor[c], Head(n.places)) = n.held
  BY <1>6 DEF st, p
<1>8. drag' = [drag EXCEPT ![c] = drag[c]] /\ UNCHANGED <<inv, cursor, chest, lying, made>>
      /\ closing["reader"][c].at = "read"
  BY <1>2, <1>4 DEF w
<1> QED
  BY <1>2, <1>5, <1>6, <1>7, <1>8, ReaderMoves

LEMMA KeepsCloseEnd ==
    ASSUME InvInv, NEW c \in Viewer, NEW g \in Goroutine, CloseEnd(g, c) PROVE InvInv'
<1> DEFINE w == closing["reader"][c]
<1>1. g = "reader"
  BY ReaderIs DEF CloseEnd
<1>2. /\ w.places = << >> /\ closing' = [closing EXCEPT !["reader"][c] = NotClosing]
      /\ UNCHANGED <<inv, cursor, drag, chest, lying, made>>
  BY <1>1 DEF CloseEnd
<1>3. Sound(inv[c], cursor[c], drag[c], w) /\ drag = [drag EXCEPT ![c] = drag[c]]
  BY HereIs
<1>4. w.at = "read" /\ drag[c] \in Drags
  BY <1>2, <1>3 DEF Sound
<1>5. NotClosing \in Closings /\ NotClosing.at = "read"
  BY NotClosingIs
<1>6. drag' = [drag EXCEPT ![c] = drag[c]] /\ UNCHANGED <<inv, cursor, chest, lying, made>>
  BY <1>2, <1>3
<1> QED
  BY <1>2, <1>4, <1>5, <1>6, ReaderMoves

\* n units of a kind go to the ground and q units of it come into being.
LEMMA GoodsMove ==
    ASSUME InvInv, NEW c \in Viewer, NEW f, NEW s, NEW d, NEW w, Sound(f, s, d, w), Steps(c, f, s, d, w),
           chest' = chest, lying' \in [Kind -> Nat], made' \in [Kind -> Int],
           NEW kind, NEW n \in Int, NEW q \in Int,
           \A m \in Kind : lying'[m] = lying[m] + Of(kind, n, m) /\ made'[m] = made[m] + Of(kind, q, m),
           \A m \in Kind : Weight(f, s, w, m) + Of(kind, n, m)
                               = Weight(inv[c], cursor[c], closing["reader"][c], m) + Of(kind, q, m)
    PROVE  InvInv'
<1> DEFINE new(m) == Weight(f, s, w, m)
           old(m) == Weight(inv[c], cursor[c], closing["reader"][c], m)
<1>1. ASSUME NEW m \in Kind
      PROVE  made'[m] - lying'[m] - UnitsIn(chest', m) - new(m)
                 = made[m] - lying[m] - UnitsIn(chest, m) - old(m)
  <2> DEFINE a == Of(kind, n, m)
             b == Of(kind, q, m)
             x == made[m]
             y == lying[m]
             z == UnitsIn(chest, m)
             u == new(m)
             v == old(m)
  <2>1. x \in Int /\ y \in Int /\ z \in Int /\ u \in Int /\ v \in Int
    BY HereIs, WeightIs
  <2>2. a \in Int /\ b \in Int
    BY DEF Of
  <2>3. made'[m] = x + b /\ lying'[m] = y + a /\ UnitsIn(chest', m) = z /\ u + a = v + b
    OBVIOUS
  <2> HIDE DEF a, b, x, y, z, u, v, new, old
  <2>4. (x + b) - (y + a) - z - u = x - y - z - v
    BY <2>1, <2>2, <2>3
  <2> QED
    BY <2>3, <2>4 DEF x, y, z, u, v
<1>2. chest' \in [0..(ChestSlots - 1) -> Legal]
  BY HereIs
<1>3. Balanced(c, f, s, w)
  BY <1>1, <1>2 DEF Balanced
<1> QED
  BY <1>3, OneSteps

LEMMA KeepsCloseEmpty ==
    ASSUME InvInv, NEW c \in Viewer, NEW g \in Goroutine, CloseEmpty(g, c) PROVE InvInv'
<1> DEFINE f == inv[c]
           s == cursor[c]
           w == closing["reader"][c]
           p == Head(w.places)
           n == CloseState(w.places, "give", w.held, w.last)
           e == SlotsWith(f, p, NoStack)
           x == CursorWith(s, p, NoStack)
<1>1. g = "reader"
  BY ReaderIs, NotClosingIs DEF CloseEmpty
<1>2. Sound(f, s, drag[c], w) /\ drag = [drag EXCEPT ![c] = drag[c]]
  BY HereIs
<1>3. w.at = "empty" /\ w.places # << >> /\ w.held # NoStack /\ InPlace(f, s, p) = w.held
  BY <1>1, <1>2 DEF CloseEmpty, Sound
<1>4. /\ p \in GridAndHand /\ w \in Closings /\ w.places \in Seq(GridAndHand) /\ w.held \in Legal
      /\ w.last \in {"none", "close"}
  BY <1>3, PlacesAre
<1>5. /\ closing' = [closing EXCEPT !["reader"][c] = n] /\ SetAt(c, p, NoStack)
      /\ UNCHANGED <<drag, chest, lying, made>>
  <2>1. [w EXCEPT !.at = "give"] = n
    BY <1>4 DEF Closings, CloseState
  <2>2. /\ closing' = [closing EXCEPT !["reader"][c] = [w EXCEPT !.at = "give"]]
        /\ SetAt(c, p, NoStack) /\ UNCHANGED <<drag, chest, lying, made>>
    BY <1>1 DEF CloseEmpty
  <2> HIDE DEF w, n
  <2> QED
    BY <2>1, <2>2
<1>6. inv' = [inv EXCEPT ![c] = e] /\ cursor' = [cursor EXCEPT ![c] = x]
  <2> HIDE DEF p
  <2> QED
    BY <1>5, SetAtIs
<1>7. f \in [PlayerSlots -> Legal] /\ Worn(f) /\ s \in Legal /\ drag[c] \in Drags /\ NoStack \in Legal
  BY <1>2, NoStackIs DEF Sound
<1> HIDE DEF f, s, w, p
<1>8. n \in Closings /\ n.at = "give" /\ n.places = w.places /\ n.held = w.held /\ InHand(n) = w.held
  BY <1>4, CloseStateIs
<1> HIDE DEF n
<1>9. /\ e \in [PlayerSlots -> Legal] /\ Worn(e) /\ x \in Legal /\ InPlace(e, x, p) = NoStack
      /\ \A k : UnitsIn(e, k) + Units(x, k) + Units(w.held, k) = UnitsIn(f, k) + Units(s, k) + Units(NoStack, k)
  BY <1>3, <1>4, <1>7, PlaceChanges
<1> HIDE DEF e, x
<1>10. Sound(e, x, drag[c], n)
  <2>1. InPlace(e, x, Head(n.places)) = NoStack
    BY <1>8, <1>9 DEF p
  <2> QED
    BY <1>3, <1>7, <1>8, <1>9, <2>1 DEF Sound
<1>11. Steps(c, e, x, drag[c], n)
  BY <1>2, <1>5, <1>6 DEF Steps
<1>12. ASSUME NEW k \in Kind PROVE Weight(e, x, n, k) = Weight(f, s, w, k)
  <2>1. InHand(w) = NoStack /\ Units(NoStack, k) = 0
    BY <1>3, NoStackIs DEF InHand
  <2>2. UnitsIn(f, k) \in Nat /\ Units(s, k) \in Nat
    BY <1>2, WeightIs
  <2>3. UnitsIn(e, k) + Units(x, k) + Units(w.held, k) = UnitsIn(f, k) + Units(s, k) + Units(NoStack, k)
    BY <1>9
  <2> QED
    BY <1>8, <2>1, <2>2, <2>3 DEF Weight
<1>13. UNCHANGED <<chest, lying, made>>
  BY <1>5
<1> QED
  BY <1>10, <1>11, <1>12, <1>13, NothingMoves DEF f, s, w

LEMMA KeepsCloseBack ==
    ASSUME InvInv, NEW c \in Viewer, NEW g \in Goroutine, CloseBack(g, c) PROVE InvInv'
<1> DEFINE f == inv[c]
           s == cursor[c]
           w == closing["reader"][c]
           p == Head(w.places)
           n == PlaceDone(w)
           st == w.held
           e == SlotsWith(f, p, st)
           x == CursorWith(s, p, st)
<1>1. g = "reader"
  BY ReaderIs, NotClosingIs DEF CloseBack
<1>2. Sound(f, s, drag[c], w) /\ drag = [drag EXCEPT ![c] = drag[c]]
  BY HereIs
<1>3. w.at = "back" /\ w.places # << >> /\ InPlace(f, s, p) = NoStack
  BY <1>1, <1>2 DEF CloseBack, Sound
<1>4. p \in GridAndHand /\ n \in Closings /\ n.at = "read" /\ InHand(n) = NoStack /\ st \in Legal
  BY <1>3, PlacesAre
<1>5. /\ closing' = [closing EXCEPT !["reader"][c] = n] /\ SetAt(c, p, st)
      /\ UNCHANGED <<drag, chest, lying, made>>
  BY <1>1 DEF CloseBack
<1>6. inv' = [inv EXCEPT ![c] = e] /\ cursor' = [cursor EXCEPT ![c] = x]
  <2> HIDE DEF p, st
  <2> QED
    BY <1>5, SetAtIs
<1>7. f \in [PlayerSlots -> Legal] /\ Worn(f) /\ s \in Legal /\ drag[c] \in Drags
  BY <1>2 DEF Sound
<1>0. InHand(w) = st
  BY <1>3 DEF InHand
<1> HIDE DEF f, s, w, p, n, st
<1>9. /\ e \in [PlayerSlots -> Legal] /\ Worn(e) /\ x \in Legal
      /\ \A k : UnitsIn(e, k) + Units(x, k) + Units(NoStack, k) = UnitsIn(f, k) + Units(s, k) + Units(st, k)
  BY <1>3, <1>4, <1>7, PlaceChanges
<1> HIDE DEF e, x
<1>10. Sound(e, x, drag[c], n)
  BY <1>4, <1>7, <1>9 DEF Sound
<1>11. Steps(c, e, x, drag[c], n)
  BY <1>2, <1>5, <1>6 DEF Steps
<1>12. ASSUME NEW k \in Kind PROVE Weight(e, x, n, k) = Weight(f, s, w, k)
  <2>1. Units(NoStack, k) = 0
    BY NoStackIs
  <2>2. UnitsIn(e, k) \in Nat /\ Units(x, k) \in Nat
    BY <1>10, WeightIs
  <2>3. UnitsIn(e, k) + Units(x, k) + Units(NoStack, k) = UnitsIn(f, k) + Units(s, k) + Units(st, k)
    BY <1>9
  <2> QED
    BY <1>0, <1>4, <2>1, <2>2, <2>3 DEF Weight
<1>13. UNCHANGED <<chest, lying, made>>
  BY <1>5
<1> QED
  BY <1>10, <1>11, <1>12, <1>13, NothingMoves DEF f, s, w

\* The slots that are given to and taken from are not those a window empties.
LEMMA LooseChanges ==
    ASSUME NEW f, NEW s, NEW d, NEW w, Sound(f, s, d, w), NEW e \in [PlayerSlots -> Legal],
           \A i \in PlayerSlots \ Loose : e[i] = f[i]
    PROVE  Sound(e, s, d, w)
<1>1. f \in [PlayerSlots -> Legal] /\ Worn(f) /\ s \in Legal /\ d \in Drags /\ w \in Closings
  BY DEF Sound
<1>2. Worn(e)
  BY <1>1, WornIs
<1>3. ASSUME w.at # "read"
      PROVE  /\ w.places # << >> /\ w.held # NoStack
             /\ InPlace(e, s, Head(w.places)) = IF w.at = "empty" THEN w.held ELSE NoStack
  <2> DEFINE p == Head(w.places)
  <2>1. /\ w.places # << >> /\ w.held # NoStack
        /\ InPlace(f, s, p) = IF w.at = "empty" THEN w.held ELSE NoStack
    BY <1>3 DEF Sound
  <2>2. p \in GridAndHand
    <3>1. w.places \in Seq(GridAndHand)
      BY <1>1, InHandIs DEF GridAndHand
    <3> QED
      BY <2>1, <3>1
  <2> HIDE DEF p
  <2>3. p # Hand => p \in PlayerSlots \ Loose
    BY <1>1, <2>2, PlaceIs
  <2>4. InPlace(e, s, p) = InPlace(f, s, p)
    BY <2>3 DEF InPlace
  <2> QED
    BY <2>1, <2>4 DEF p
<1> QED
  BY <1>1, <1>2, <1>3 DEF Sound

LEMMA KeepsCollect ==
    ASSUME InvInv, NEW c \in Viewer, NEW k \in Kind, NEW n, Collect(c, k, n) PROVE InvInv'
<1> DEFINE f == inv[c]
           s == cursor[c]
           d == drag[c]
           w == closing["reader"][c]
           st == [kind |-> k, count |-> n]
           given == Give(f, st)
           e == given.slots
           l == given.left
           a == 0 - (n - l)
<1>1. /\ n \in 1..Min({lying[k], MaxStack[k]}) /\ l < n
      /\ inv' = [inv EXCEPT ![c] = e] /\ lying' = [lying EXCEPT ![k] = @ - (n - l)]
      /\ UNCHANGED <<cursor, drag, menu, chest, closing, made>>
  BY DEF Collect
<1>2. /\ Sound(f, s, d, w) /\ lying[k] \in Nat /\ MaxStack[k] \in Nat
      /\ lying \in [Kind -> Nat] /\ made \in [Kind -> Int]
  BY HereIs, SizesAre
<1>3. n \in Nat /\ n > 0 /\ n <= lying[k]
  <2> DEFINE x == lying[k]
             y == MaxStack[k]
  <2>1. x \in Int /\ y \in Int /\ n \in 1..Min({x, y})
    BY <1>1, <1>2
  <2> HIDE DEF x, y
  <2>2. Min({x, y}) \in Int /\ Min({x, y}) <= x
    BY <2>1, LeastPair
  <2>3. n \in Nat /\ n > 0 /\ n <= x
    BY <2>1, <2>2
  <2> QED
    BY <2>3 DEF x
<1>4. st \in AStack /\ st # NoStack /\ st.kind = k /\ st.count = n
  BY <1>3 DEF AStack, Stack, NoStack
<1>5. f \in [PlayerSlots -> Legal]
  BY <1>2 DEF Sound
<1> HIDE DEF f, s, d, w, st
<1>6. /\ e \in [PlayerSlots -> Legal] /\ l \in Nat /\ l <= n
      /\ \A i \in PlayerSlots \ Loose : e[i] = f[i]
      /\ \A m \in Kind : UnitsIn(e, m) + Of(k, l, m) = UnitsIn(f, m) + Of(k, n, m)
  BY <1>4, <1>5, GiveIs
<1> HIDE DEF given, e, l
<1>7. Sound(e, s, d, w)
  BY <1>2, <1>6, LooseChanges
<1>8. Steps(c, e, s, d, w)
  <2>1. /\ inv' = [inv EXCEPT ![c] = e] /\ cursor' = [cursor EXCEPT ![c] = cursor[c]]
        /\ drag' = [drag EXCEPT ![c] = drag[c]]
        /\ closing' = [closing EXCEPT !["reader"][c] = closing["reader"][c]]
    BY <1>1, HereIs
  <2> QED
    BY <2>1 DEF Steps, s, d, w
<1>9. a \in Int /\ n - l \in Nat /\ lying[k] - (n - l) \in Nat
  BY <1>2, <1>3, <1>6
<1>10. lying' \in [Kind -> Nat] /\ made' \in [Kind -> Int] /\ chest' = chest
  BY <1>1, <1>2, <1>9
<1>11. ASSUME NEW m \in Kind
       PROVE  lying'[m] = lying[m] + Of(k, a, m) /\ made'[m] = made[m] + Of(k, 0, m)
  <2>1. lying[m] \in Int /\ made[m] \in Int /\ made'[m] = made[m]
        /\ lying'[m] = IF m = k THEN lying[m] - (n - l) ELSE lying[m]
    BY <1>1, <1>2
  <2> QED
    BY <1>3, <1>6, <2>1 DEF Of
<1>12. ASSUME NEW m \in Kind
       PROVE  Weight(e, s, w, m) + Of(k, a, m) = Weight(f, s, w, m) + Of(k, 0, m)
  <2>1. /\ UnitsIn(e, m) \in Nat /\ UnitsIn(f, m) \in Nat /\ Units(s, m) \in Nat /\ Units(InHand(w), m) \in Nat
    BY <1>2, <1>7, WeightIs
  <2>2. UnitsIn(e, m) + Of(k, l, m) = UnitsIn(f, m) + Of(k, n, m)
    BY <1>6
  <2> DEFINE x == UnitsIn(e, m)
             y == UnitsIn(f, m)
             z == Units(s, m)
             u == Units(InHand(w), m)
  <2>3. x \in Nat /\ y \in Nat /\ z \in Nat /\ u \in Nat /\ x + Of(k, l, m) = y + Of(k, n, m)
    BY <2>1, <2>2
  <2>4. Weight(e, s, w, m) = x + z + u /\ Weight(f, s, w, m) = y + z + u
    BY DEF Weight
  <2> HIDE DEF x, y, z, u
  <2>5. (x + z + u) + Of(k, a, m) = (y + z + u) + Of(k, 0, m)
    BY <1>3, <1>6, <2>3 DEF Of
  <2> QED
    BY <2>4, <2>5
<1> HIDE DEF a
<1> QED
  BY <1>7, <1>8, <1>9, <1>10, <1>11, <1>12, GoodsMove DEF f, s, w

LEMMA KeepsGiveStack ==
    ASSUME InvInv, NEW c \in Viewer, NEW k \in Kind, GiveStack(c, k) PROVE InvInv'
<1> DEFINE f == inv[c]
           s == cursor[c]
           d == drag[c]
           w == closing["reader"][c]
           st == [kind |-> k, count |-> 1]
           given == Give(f, st)
           e == given.slots
           l == given.left
           q == 1 - l
<1>1. /\ inv' = [inv EXCEPT ![c] = e] /\ made' = [made EXCEPT ![k] = @ + 1 - l]
      /\ UNCHANGED <<cursor, drag, menu, chest, lying, closing>>
  BY DEF GiveStack
<1>2. /\ Sound(f, s, d, w) /\ lying \in [Kind -> Nat] /\ made \in [Kind -> Int]
  BY HereIs
<1>3. st \in AStack /\ st # NoStack /\ st.kind = k /\ st.count = 1
  BY DEF AStack, Stack, NoStack
<1>4. f \in [PlayerSlots -> Legal]
  BY <1>2 DEF Sound
<1> HIDE DEF f, s, d, w, st
<1>5. /\ e \in [PlayerSlots -> Legal] /\ l \in Nat /\ l <= 1
      /\ \A i \in PlayerSlots \ Loose : e[i] = f[i]
      /\ \A m \in Kind : UnitsIn(e, m) + Of(k, l, m) = UnitsIn(f, m) + Of(k, 1, m)
  BY <1>3, <1>4, GiveIs
<1> HIDE DEF given, e, l
<1>6. Sound(e, s, d, w)
  BY <1>2, <1>5, LooseChanges
<1>7. Steps(c, e, s, d, w)
  <2>1. /\ inv' = [inv EXCEPT ![c] = e] /\ cursor' = [cursor EXCEPT ![c] = cursor[c]]
        /\ drag' = [drag EXCEPT ![c] = drag[c]]
        /\ closing' = [closing EXCEPT !["reader"][c] = closing["reader"][c]]
    BY <1>1, HereIs
  <2> QED
    BY <2>1 DEF Steps, s, d, w
<1>8. q \in Int /\ \A x \in Int : x + 1 - l \in Int
  BY <1>5
<1>9. lying' \in [Kind -> Nat] /\ made' \in [Kind -> Int] /\ chest' = chest
  BY <1>1, <1>2, <1>8
<1>10. ASSUME NEW m \in Kind
       PROVE  lying'[m] = lying[m] + Of(k, 0, m) /\ made'[m] = made[m] + Of(k, q, m)
  <2>1. lying[m] \in Int /\ made[m] \in Int /\ lying'[m] = lying[m]
        /\ made'[m] = IF m = k THEN made[m] + 1 - l ELSE made[m]
    BY <1>1, <1>2
  <2> QED
    BY <1>5, <2>1 DEF Of
<1>11. ASSUME NEW m \in Kind
       PROVE  Weight(e, s, w, m) + Of(k, 0, m) = Weight(f, s, w, m) + Of(k, q, m)
  <2>1. /\ UnitsIn(e, m) \in Nat /\ UnitsIn(f, m) \in Nat /\ Units(s, m) \in Nat /\ Units(InHand(w), m) \in Nat
    BY <1>2, <1>6, WeightIs
  <2>2. UnitsIn(e, m) + Of(k, l, m) = UnitsIn(f, m) + Of(k, 1, m)
    BY <1>5
  <2> DEFINE x == UnitsIn(e, m)
             y == UnitsIn(f, m)
             z == Units(s, m)
             u == Units(InHand(w), m)
  <2>3. x \in Nat /\ y \in Nat /\ z \in Nat /\ u \in Nat /\ x + Of(k, l, m) = y + Of(k, 1, m)
    BY <2>1, <2>2
  <2>4. Weight(e, s, w, m) = x + z + u /\ Weight(f, s, w, m) = y + z + u
    BY DEF Weight
  <2> HIDE DEF x, y, z, u
  <2>5. (x + z + u) + Of(k, 0, m) = (y + z + u) + Of(k, q, m)
    BY <1>5, <2>3 DEF Of
  <2> QED
    BY <2>4, <2>5
<1>12. q \in Int /\ 0 \in Int
  BY <1>8
<1> HIDE DEF q
<1> QED
  BY <1>6, <1>7, <1>9, <1>10, <1>11, <1>12, GoodsMove DEF f, s, w

LEMMA KeepsTakeItem ==
    ASSUME InvInv, NEW c \in Viewer, NEW k \in Kind, NEW n, TakeItem(c, k, n) PROVE InvInv'
<1> DEFINE f == inv[c]
           s == cursor[c]
           d == drag[c]
           w == closing["reader"][c]
           e == Take(f, k, n)
           q == 0 - n
<1>1. /\ n \in 1..MaxMade[k] /\ UnitsAt(f, k, Loose) >= n
      /\ inv' = [inv EXCEPT ![c] = e] /\ made' = [made EXCEPT ![k] = @ - n]
      /\ UNCHANGED <<cursor, drag, menu, chest, lying, closing>>
  BY DEF TakeItem, Loose
<1>2. /\ Sound(f, s, d, w) /\ lying \in [Kind -> Nat] /\ made \in [Kind -> Int]
  BY HereIs
<1>3. n \in Nat
  BY <1>1, InventoryAssumption
<1>4. f \in [PlayerSlots -> Legal]
  BY <1>2 DEF Sound
<1>5. n <= UnitsAt(f, k, Loose)
  <2>1. UnitsAt(f, k, Loose) \in Nat
    <3>1. MainStart \in Loose /\ Loose \in SUBSET PlayerSlots
      BY SizesAre, GiveOrderIs DEF Loose
    <3> HIDE DEF f
    <3> QED
      BY <1>4, <3>1, NoStackIs, UnitsAtChanges
  <2> QED
    BY <1>1, <1>3, <2>1
<1> HIDE DEF f, s, d, w
<1>6. /\ e \in [PlayerSlots -> Legal]
      /\ \A i \in PlayerSlots \ Loose : e[i] = f[i]
      /\ \A m \in Kind : UnitsIn(e, m) = UnitsIn(f, m) - Of(k, n, m)
  BY <1>3, <1>4, <1>5, TakeIs
<1> HIDE DEF e
<1>7. Sound(e, s, d, w)
  BY <1>2, <1>6, LooseChanges
<1>8. Steps(c, e, s, d, w)
  <2>1. /\ inv' = [inv EXCEPT ![c] = e] /\ cursor' = [cursor EXCEPT ![c] = cursor[c]]
        /\ drag' = [drag EXCEPT ![c] = drag[c]]
        /\ closing' = [closing EXCEPT !["reader"][c] = closing["reader"][c]]
    BY <1>1, HereIs
  <2> QED
    BY <2>1 DEF Steps, s, d, w
<1>9. lying' \in [Kind -> Nat] /\ made' \in [Kind -> Int] /\ chest' = chest
  <2>1. made[k] - n \in Int
    BY <1>2, <1>3
  <2> QED
    BY <1>1, <1>2, <2>1
<1>10. ASSUME NEW m \in Kind
       PROVE  lying'[m] = lying[m] + Of(k, 0, m) /\ made'[m] = made[m] + Of(k, q, m)
  <2>1. lying[m] \in Int /\ made[m] \in Int /\ lying'[m] = lying[m]
        /\ made'[m] = IF m = k THEN made[m] - n ELSE made[m]
    BY <1>1, <1>2
  <2> QED
    BY <1>3, <2>1 DEF Of
<1>11. ASSUME NEW m \in Kind
       PROVE  Weight(e, s, w, m) + Of(k, 0, m) = Weight(f, s, w, m) + Of(k, q, m)
  <2>1. /\ UnitsIn(e, m) \in Nat /\ UnitsIn(f, m) \in Nat /\ Units(s, m) \in Nat /\ Units(InHand(w), m) \in Nat
    BY <1>2, <1>7, WeightIs
  <2>2. UnitsIn(e, m) = UnitsIn(f, m) - Of(k, n, m)
    BY <1>6
  <2> DEFINE x == UnitsIn(e, m)
             y == UnitsIn(f, m)
             z == Units(s, m)
             u == Units(InHand(w), m)
  <2>3. x \in Nat /\ y \in Nat /\ z \in Nat /\ u \in Nat /\ x = y - Of(k, n, m)
    BY <2>1, <2>2
  <2>4. Weight(e, s, w, m) = x + z + u /\ Weight(f, s, w, m) = y + z + u
    BY DEF Weight
  <2> HIDE DEF x, y, z, u
  <2>5. (x + z + u) + Of(k, 0, m) = (y + z + u) + Of(k, q, m)
    BY <1>3, <2>3 DEF Of
  <2> QED
    BY <2>4, <2>5
<1>12. q \in Int /\ 0 \in Int
  BY <1>3
<1> HIDE DEF q
<1> QED
  BY <1>7, <1>8, <1>9, <1>10, <1>11, <1>12, GoodsMove DEF f, s, w

LEMMA KeepsDropHeld ==
    ASSUME InvInv, NEW c \in Viewer, NEW i \in PlayerSlots, NEW all \in BOOLEAN, DropHeld(c, i, all)
    PROVE  InvInv'
<1> DEFINE f == inv[c]
           s == cursor[c]
           d == drag[c]
           w == closing["reader"][c]
           st == f[i]
           k == st.kind
           n == IF all THEN st.count ELSE 1
           left == WithCount(st, st.count - n)
           e == [f EXCEPT ![i] = left]
<1>1. /\ i \in Loose /\ st # NoStack
      /\ inv' = [inv EXCEPT ![c][i] = left] /\ lying' = [lying EXCEPT ![k] = @ + n]
      /\ UNCHANGED <<cursor, drag, menu, chest, closing, made>>
  <2>1. i \in HotbarStart..(OffhandSlot - 1) => i \in Loose
    BY SizesAre DEF Loose
  <2> QED
    BY <2>1 DEF DropHeld
<1>2. /\ Sound(f, s, d, w) /\ lying \in [Kind -> Nat] /\ made \in [Kind -> Int]
  BY HereIs
<1>3. f \in [PlayerSlots -> Legal]
  BY <1>2 DEF Sound
<1>4. /\ st \in Legal /\ k \in Kind /\ st.count \in Nat /\ st.count > 0 /\ st.count <= MaxStack[k]
      /\ MaxStack[k] \in Nat /\ \A m : Units(st, m) = Of(k, st.count, m)
  <2>1. st \in Legal /\ st \in AStack
    BY <1>3, LegalIs
  <2> HIDE DEF st
  <2> QED
    BY <1>1, <2>1, LegalIs, StackIs, SizesAre DEF Of
<1>5. inv' = [inv EXCEPT ![c] = e]
  BY <1>1
<1> HIDE DEF f, s, d, w, st, k
<1>6. n \in Nat /\ n > 0 /\ st.count - n \in Nat /\ st.count - n <= MaxStack[k]
  BY <1>4
<1>7. left \in Legal /\ \A m : Units(left, m) = Of(k, st.count - n, m)
  <2> DEFINE x == st.count - n
  <2>1. x \in Int /\ x >= 0 /\ x <= MaxStack[st.kind] /\ st.kind \in Kind
    BY <1>4, <1>6 DEF k
  <2> HIDE DEF x
  <2>2. WithCount(st, x) \in Legal /\ \A m : Units(WithCount(st, x), m) = IF x > 0 /\ st.kind = m THEN x ELSE 0
    BY <2>1, CountedIs
  <2>3. \A m : Units(WithCount(st, x), m) = Of(k, x, m)
    BY <2>1, <2>2 DEF Of, k
  <2> QED
    BY <2>2, <2>3 DEF x
<1> HIDE DEF n, left
<1>8. /\ e \in [PlayerSlots -> Legal] /\ \A j \in PlayerSlots \ Loose : e[j] = f[j]
      /\ \A m : UnitsIn(e, m) = UnitsIn(f, m) - Units(st, m) + Units(left, m)
  <2>1. \A m : UnitsIn([f EXCEPT ![i] = left], m) = UnitsIn(f, m) - Units(f[i], m) + Units(left, m)
    BY <1>3, <1>7, SlotChanges
  <2>2. e \in [PlayerSlots -> Legal] /\ \A j \in PlayerSlots \ Loose : e[j] = f[j]
    BY <1>1, <1>3, <1>7
  <2> QED
    BY <2>1, <2>2 DEF st
<1> HIDE DEF e
<1>9. Sound(e, s, d, w)
  BY <1>2, <1>8, LooseChanges
<1>10. Steps(c, e, s, d, w)
  <2>1. /\ inv' = [inv EXCEPT ![c] = e] /\ cursor' = [cursor EXCEPT ![c] = cursor[c]]
        /\ drag' = [drag EXCEPT ![c] = drag[c]]
        /\ closing' = [closing EXCEPT !["reader"][c] = closing["reader"][c]]
    BY <1>1, <1>5, HereIs
  <2> QED
    BY <2>1 DEF Steps, s, d, w
<1>11. lying' \in [Kind -> Nat] /\ made' \in [Kind -> Int] /\ chest' = chest
  <2>1. lying[k] + n \in Nat
    BY <1>2, <1>4, <1>6
  <2> QED
    BY <1>1, <1>2, <2>1
<1>12. ASSUME NEW m \in Kind
       PROVE  lying'[m] = lying[m] + Of(k, n, m) /\ made'[m] = made[m] + Of(k, 0, m)
  <2>1. lying[m] \in Int /\ made[m] \in Int /\ made'[m] = made[m]
        /\ lying'[m] = IF m = k THEN lying[m] + n ELSE lying[m]
    BY <1>1, <1>2
  <2> QED
    BY <1>6, <2>1 DEF Of
<1>13. ASSUME NEW m \in Kind
       PROVE  Weight(e, s, w, m) + Of(k, n, m) = Weight(f, s, w, m) + Of(k, 0, m)
  <2>1. /\ UnitsIn(e, m) \in Nat /\ UnitsIn(f, m) \in Nat /\ Units(s, m) \in Nat /\ Units(InHand(w), m) \in Nat
    BY <1>2, <1>9, WeightIs
  <2> DEFINE x == UnitsIn(e, m)
             y == UnitsIn(f, m)
             z == Units(s, m)
             u == Units(InHand(w), m)
             h == st.count
  <2>2. x \in Nat /\ y \in Nat /\ z \in Nat /\ u \in Nat /\ h \in Nat /\ h - n \in Nat
        /\ x = y - Of(k, h, m) + Of(k, h - n, m)
    BY <1>4, <1>6, <1>7, <1>8, <2>1
  <2>3. Weight(e, s, w, m) = x + z + u /\ Weight(f, s, w, m) = y + z + u
    BY DEF Weight
  <2> HIDE DEF x, y, z, u, h
  <2>4. (x + z + u) + Of(k, n, m) = (y + z + u) + Of(k, 0, m)
    BY <1>6, <2>2 DEF Of
  <2> QED
    BY <2>3, <2>4
<1>14. n \in Int /\ 0 \in Int
  BY <1>6
<1> QED
  BY <1>9, <1>10, <1>11, <1>12, <1>13, <1>14, GoodsMove DEF f, s, w

\* What was on the cursor is thrown.
Throws(c, w) ==
    /\ w.at = "give" /\ lying' = [lying EXCEPT ![w.held.kind] = @ + w.held.count]
    /\ closing' = [closing EXCEPT !["reader"][c] = PlaceDone(w)]
    /\ UNCHANGED <<inv, cursor, drag, chest, made>>

LEMMA KeepsThrow ==
    ASSUME InvInv, NEW c \in Viewer, Throws(c, closing["reader"][c]) PROVE InvInv'
<1> DEFINE f == inv[c]
           s == cursor[c]
           d == drag[c]
           w == closing["reader"][c]
           st == w.held
           k == st.kind
           n == st.count
           x == PlaceDone(w)
<1>0. /\ w.at = "give" /\ lying' = [lying EXCEPT ![k] = @ + n]
      /\ closing' = [closing EXCEPT !["reader"][c] = x]
      /\ UNCHANGED <<inv, cursor, drag, chest, made>>
  BY DEF Throws
<1>1. /\ Sound(f, s, d, w) /\ lying \in [Kind -> Nat] /\ made \in [Kind -> Int]
  BY HereIs
<1>2. w.places # << >> /\ st # NoStack /\ InHand(w) = st
  BY <1>0, <1>1 DEF Sound, InHand
<1>3. st \in Legal /\ x \in Closings /\ x.at = "read" /\ InHand(x) = NoStack
  BY <1>2, PlacesAre
<1>4. Steps(c, f, s, d, x)
  <2>1. /\ inv' = [inv EXCEPT ![c] = f] /\ cursor' = [cursor EXCEPT ![c] = s]
        /\ drag' = [drag EXCEPT ![c] = d]
    BY <1>0, HereIs
  <2> QED
    BY <1>0, <2>1 DEF Steps
<1>5. lying' = [lying EXCEPT ![k] = @ + n] /\ made' = made /\ chest' = chest
  BY <1>0
<1> HIDE DEF f, s, d, w, st, x
<1>6. k \in Kind /\ n \in Nat /\ n > 0 /\ \A m : Units(st, m) = Of(k, n, m)
  <2>1. st \in AStack
    BY <1>3, LegalIs
  <2> QED
    BY <1>2, <2>1, StackIs DEF Of
<1> HIDE DEF k, n
<1>7. Sound(f, s, d, x)
  BY <1>1, <1>3 DEF Sound
<1>8. lying' \in [Kind -> Nat] /\ made' \in [Kind -> Int]
  <2>1. lying[k] + n \in Nat
    BY <1>1, <1>6
  <2> QED
    BY <1>1, <1>5, <2>1
<1>9. ASSUME NEW m \in Kind
      PROVE  lying'[m] = lying[m] + Of(k, n, m) /\ made'[m] = made[m] + Of(k, 0, m)
  <2>1. lying[m] \in Int /\ made[m] \in Int /\ made'[m] = made[m]
        /\ lying'[m] = IF m = k THEN lying[m] + n ELSE lying[m]
    BY <1>1, <1>5
  <2> QED
    BY <1>6, <2>1 DEF Of
<1>10. ASSUME NEW m \in Kind
       PROVE  Weight(f, s, x, m) + Of(k, n, m) = Weight(f, s, w, m) + Of(k, 0, m)
  <2>1. /\ UnitsIn(f, m) \in Nat /\ Units(s, m) \in Nat
    BY <1>1, WeightIs
  <2>2. Units(NoStack, m) = 0
    BY NoStackIs
  <2> DEFINE y == UnitsIn(f, m)
             z == Units(s, m)
  <2>3. y \in Nat /\ z \in Nat /\ Weight(f, s, x, m) = y + z + 0 /\ Weight(f, s, w, m) = y + z + Of(k, n, m)
    BY <1>2, <1>3, <1>6, <2>1, <2>2 DEF Weight
  <2> HIDE DEF y, z
  <2>4. (y + z + 0) + Of(k, n, m) = (y + z + Of(k, n, m)) + Of(k, 0, m)
    BY <1>6, <2>3 DEF Of
  <2> QED
    BY <2>3, <2>4
<1>11. n \in Int /\ 0 \in Int
  BY <1>6
<1> QED
  BY <1>4, <1>5, <1>7, <1>8, <1>9, <1>10, <1>11, GoodsMove DEF f, s, w

\* What was in the grid, or must not be dropped, is given back: l units of it
\* stay in the hand, or a go to the ground.
GivesBack(c, w, x, a, l) ==
    /\ w.at = "give" /\ l = Give(inv[c], w.held).left
    /\ inv' = [inv EXCEPT ![c] = Give(inv[c], w.held).slots]
    /\ closing' = [closing EXCEPT !["reader"][c] = x]
    /\ lying' = [lying EXCEPT ![w.held.kind] = @ + a]
    /\ UNCHANGED <<cursor, drag, chest, made>>
    /\ \/ x.at = "read" /\ a = l
       \/ /\ x.at = "back" /\ a = 0 /\ x.places = w.places
          /\ x.held # NoStack /\ \A m : Units(x.held, m) = Of(w.held.kind, l, m)

LEMMA KeepsGivenBack ==
    ASSUME InvInv, NEW c \in Viewer, NEW x \in Closings, NEW a \in Nat, NEW l \in Nat,
           GivesBack(c, closing["reader"][c], x, a, l)
    PROVE  InvInv'
<1> DEFINE f == inv[c]
           s == cursor[c]
           d == drag[c]
           w == closing["reader"][c]
           st == w.held
           k == st.kind
           n == st.count
           g == Give(f, st)
           e == g.slots
<1>0. /\ w.at = "give" /\ inv' = [inv EXCEPT ![c] = e] /\ UNCHANGED <<cursor, drag>>
      /\ closing' = [closing EXCEPT !["reader"][c] = x]
  BY DEF GivesBack
<1>1. /\ Sound(f, s, d, w) /\ lying \in [Kind -> Nat] /\ made \in [Kind -> Int]
  BY HereIs
<1>2. /\ w.places # << >> /\ st # NoStack /\ InHand(w) = st /\ InPlace(f, s, Head(w.places)) = NoStack
      /\ f \in [PlayerSlots -> Legal]
  BY <1>0, <1>1 DEF Sound, InHand
<1>3. st \in Legal
  BY <1>2, PlacesAre
<1>4. Steps(c, e, s, d, x)
  <2>1. cursor' = [cursor EXCEPT ![c] = s] /\ drag' = [drag EXCEPT ![c] = d]
    BY <1>0, HereIs
  <2> QED
    BY <1>0, <2>1 DEF Steps
<1>5. /\ lying' = [lying EXCEPT ![k] = @ + a] /\ made' = made /\ chest' = chest /\ l = g.left
      /\ w.at = "give"
      /\ \/ x.at = "read" /\ a = l
         \/ /\ x.at = "back" /\ a = 0 /\ x.places = w.places
            /\ x.held # NoStack /\ \A m : Units(x.held, m) = Of(k, l, m)
  BY DEF GivesBack
<1> HIDE DEF f, s, d, w, st
<1>6. st \in AStack /\ k \in Kind /\ n \in Nat /\ n > 0 /\ \A m : Units(st, m) = Of(k, n, m)
  <2>1. st \in AStack
    BY <1>3, LegalIs
  <2> QED
    BY <1>2, <2>1, StackIs DEF Of
<1>7. /\ e \in [PlayerSlots -> Legal] /\ \A i \in PlayerSlots \ Loose : e[i] = f[i]
      /\ \A m \in Kind : UnitsIn(e, m) + Of(k, l, m) = UnitsIn(f, m) + Of(k, n, m)
  <2>1. /\ g.slots \in [PlayerSlots -> Legal]
        /\ \A i \in PlayerSlots \ Loose : g.slots[i] = f[i]
        /\ \A m \in Kind : UnitsIn(g.slots, m) + Of(st.kind, g.left, m) = UnitsIn(f, m) + Of(st.kind, st.count, m)
    BY <1>2, <1>6, GiveIs
  <2> HIDE DEF g
  <2> QED
    BY <1>5, <2>1
<1> HIDE DEF k, n, g, e
<1>8. Sound(e, s, d, w)
  BY <1>1, <1>7, LooseChanges
<1>9. Sound(e, s, d, x)
  <2>1. x.at = "back" => /\ x.places # << >> /\ x.held # NoStack /\ InPlace(e, s, Head(x.places)) = NoStack
    BY <1>2, <1>5, <1>8 DEF Sound
  <2> QED
    BY <1>5, <1>8, <2>1 DEF Sound
<1>10. lying' \in [Kind -> Nat] /\ made' \in [Kind -> Int]
  <2>1. lying[k] + a \in Nat
    BY <1>1, <1>6
  <2> QED
    BY <1>1, <1>5, <2>1
<1>11. ASSUME NEW m \in Kind
       PROVE  lying'[m] = lying[m] + Of(k, a, m) /\ made'[m] = made[m] + Of(k, 0, m)
  <2>1. lying[m] \in Int /\ made[m] \in Int /\ made'[m] = made[m]
        /\ lying'[m] = IF m = k THEN lying[m] + a ELSE lying[m]
    BY <1>1, <1>5
  <2> QED
    BY <1>6, <2>1 DEF Of
<1>12. ASSUME NEW m \in Kind
       PROVE  Weight(e, s, x, m) + Of(k, a, m) = Weight(f, s, w, m) + Of(k, 0, m)
  <2> DEFINE y == UnitsIn(f, m)
             y1 == UnitsIn(e, m)
             z == Units(s, m)
             u == Units(InHand(x), m)
  <2>1. y \in Nat /\ y1 \in Nat /\ z \in Nat
    BY <1>1, <1>8, WeightIs
  <2>2. y1 + Of(k, l, m) = y + Of(k, n, m)
    BY <1>7
  <2>3. u + Of(k, a, m) = Of(k, l, m) /\ u \in Nat
    <3>1. CASE x.at = "read"
      <4>1. u = 0 /\ a = l
        BY <1>5, <3>1, NoStackIs DEF InHand
      <4> HIDE DEF u
      <4> QED
        BY <4>1 DEF Of
    <3>2. CASE x.at = "back"
      <4>1. u = Of(k, l, m) /\ a = 0
        BY <1>5, <3>2 DEF InHand
      <4> HIDE DEF u
      <4> QED
        BY <4>1 DEF Of
    <3> QED
      BY <1>5, <3>1, <3>2
  <2>4. Weight(e, s, x, m) = y1 + z + u /\ Weight(f, s, w, m) = y + z + Of(k, n, m)
    BY <1>2, <1>6 DEF Weight
  <2> HIDE DEF y, y1, z, u
  <2>5. (y1 + z + u) + Of(k, a, m) = (y + z + Of(k, n, m)) + Of(k, 0, m)
    <3> DEFINE r == Of(k, l, m)
               t == Of(k, n, m)
               b == Of(k, a, m)
    <3>1. r \in Int /\ t \in Int /\ b \in Int /\ Of(k, 0, m) = 0
      BY <1>6 DEF Of
    <3>2. y1 + r = y + t /\ u + b = r
      BY <2>2, <2>3
    <3> HIDE DEF r, t, b
    <3>3. (y1 + z + u) + b = (y + z + t) + 0
      BY <2>1, <2>3, <3>1, <3>2
    <3> QED
      BY <3>1, <3>3 DEF t, b
  <2> QED
    BY <2>4, <2>5
<1>13. a \in Int /\ 0 \in Int /\ chest' = chest
  BY <1>5
<1> QED
  BY <1>4, <1>9, <1>10, <1>11, <1>12, <1>13, GoodsMove DEF f, s, w

LEMMA KeepsCloseGive ==
    ASSUME InvInv, NEW c \in Viewer, NEW g \in Goroutine, CloseGive(g, c) PROVE InvInv'
<1> DEFINE w == closing["reader"][c]
           st == w.held
           l == Give(inv[c], st).left
           left == WithCount(st, l)
           b == CloseState(w.places, "back", left, w.last)
<1>1. g = "reader"
  BY ReaderIs, NotClosingIs DEF CloseGive
<1>2. Sound(inv[c], cursor[c], drag[c], w) /\ lying \in [Kind -> Nat]
  BY HereIs
<1>3. w.at = "give" /\ w.places # << >> /\ st # NoStack /\ inv[c] \in [PlayerSlots -> Legal]
  BY <1>1, <1>2 DEF CloseGive, Sound
<1>4. /\ st \in Legal /\ PlaceDone(w) \in Closings /\ PlaceDone(w).at = "read"
      /\ w.places \in Seq(GridAndHand) /\ w.last \in {"none", "close"}
  BY <1>3, PlacesAre
<1>5. \/ /\ lying' = [lying EXCEPT ![st.kind] = @ + st.count]
         /\ closing' = [closing EXCEPT !["reader"][c] = PlaceDone(w)]
         /\ UNCHANGED <<inv, cursor, drag, chest, made>>
      \/ /\ inv' = [inv EXCEPT ![c] = Give(inv[c], st).slots]
         /\ UNCHANGED <<cursor, drag, chest, made>>
         /\ \/ /\ left # NoStack /\ lying' = lying
               /\ closing' = [closing EXCEPT !["reader"][c] = b]
            \/ /\ lying' = [lying EXCEPT ![st.kind] = @ + left.count]
               /\ closing' = [closing EXCEPT !["reader"][c] = PlaceDone(w)]
  BY <1>1 DEF CloseGive
<1>6. /\ l \in Nat /\ left \in Legal /\ left.count = l
      /\ \A m : Units(left, m) = Of(st.kind, l, m)
  <2>1. st \in AStack /\ st.kind \in Kind /\ st.count <= MaxStack[st.kind] /\ st.count \in Nat
        /\ MaxStack[st.kind] \in Nat
    <3> HIDE DEF st
    <3>1. st \in AStack /\ st.kind \in Kind /\ st.count <= MaxStack[st.kind]
      BY <1>3, <1>4, LegalIs
    <3> QED
      BY <3>1, StackIs, SizesAre
  <2>2. l \in Nat /\ l <= st.count
    <3> HIDE DEF st
    <3> QED
      BY <1>3, <2>1, GiveIs
  <2> HIDE DEF l, st
  <2>3. l \in Int /\ l <= MaxStack[st.kind]
    BY <2>1, <2>2
  <2>4. /\ WithCount(st, l).count = IF l <= 0 THEN 0 ELSE l
        /\ WithCount(st, l) \in Legal
        /\ \A m : Units(WithCount(st, l), m) = IF l > 0 /\ st.kind = m THEN l ELSE 0
    BY <2>1, <2>3, CountedIs
  <2> QED
    BY <2>2, <2>4 DEF Of
<1>7. CASE /\ lying' = [lying EXCEPT ![st.kind] = @ + st.count]
           /\ closing' = [closing EXCEPT !["reader"][c] = PlaceDone(w)]
           /\ UNCHANGED <<inv, cursor, drag, chest, made>>
  <2>1. Throws(c, w)
    BY <1>3, <1>7 DEF Throws
  <2> QED
    BY <2>1, KeepsThrow
<1>8. CASE /\ inv' = [inv EXCEPT ![c] = Give(inv[c], st).slots]
           /\ UNCHANGED <<cursor, drag, chest, made>>
           /\ left # NoStack /\ lying' = lying
           /\ closing' = [closing EXCEPT !["reader"][c] = b]
  <2>1. b \in Closings /\ b.places = w.places /\ b.at = "back" /\ b.held = left
    <3> HIDE DEF w, left
    <3> QED
      BY <1>4, <1>6, CloseStateIs
  <2>2. lying' = [lying EXCEPT ![st.kind] = @ + 0]
    <3>1. \A k : [lying EXCEPT ![k] = @ + 0] = lying
      <4>1. \A k \in Kind : lying[k] + 0 = lying[k]
        BY <1>2
      <4> QED
        BY <1>2, <4>1
    <3> QED
      BY <1>8, <3>1
  <2>3. GivesBack(c, w, b, 0, l)
    <3> HIDE DEF w, b, left
    <3> QED
      BY <1>3, <1>6, <1>8, <2>1, <2>2 DEF GivesBack
  <2> HIDE DEF b, l
  <2> QED
    BY <1>6, <2>1, <2>3, KeepsGivenBack
<1>9. CASE /\ inv' = [inv EXCEPT ![c] = Give(inv[c], st).slots]
           /\ UNCHANGED <<cursor, drag, chest, made>>
           /\ lying' = [lying EXCEPT ![st.kind] = @ + left.count]
           /\ closing' = [closing EXCEPT !["reader"][c] = PlaceDone(w)]
  <2>1. GivesBack(c, w, PlaceDone(w), l, l)
    <3> HIDE DEF w, left
    <3> QED
      BY <1>3, <1>4, <1>6, <1>9 DEF GivesBack
  <2> HIDE DEF l
  <2> QED
    BY <1>4, <1>6, <2>1, KeepsGivenBack
<1> QED
  BY <1>5, <1>7, <1>8, <1>9

\* Nothing is in empty slots.
LEMMA NothingIn ==
    ASSUME NEW S, IsFiniteSet(S), NEW f, f = [i \in S |-> NoStack], NEW k
    PROVE  UnitsIn(f, k) = 0
<1> DEFINE u == [i \in S |-> Units(f[i], k)]
<1>1. \A i \in S : u[i] = 0
  BY NoStackIs
<1>2. UnitsIn(f, k) = SumFunctionOnSet(u, S)
  BY DEF UnitsIn, UnitsAt
<1> HIDE DEF u
<1>3. SumFunctionOnSet(u, S) = 0
  BY <1>1, SumOfZeros
<1> QED
  BY <1>2, <1>3

LEMMA EmptySlots ==
    LET f == [i \in PlayerSlots |-> NoStack]
    IN  f \in [PlayerSlots -> Legal] /\ Worn(f) /\ \A k : UnitsIn(f, k) = 0
<1> DEFINE f == [i \in PlayerSlots |-> NoStack]
<1>1. f \in [PlayerSlots -> Legal]
  BY NoStackIs
<1>2. Worn(f)
  <2>1. \A i \in ArmorStart..(MainStart - 1) : i \in PlayerSlots
    BY SizesAre DEF PlayerSlots
  <2> QED
    BY <2>1, NoStackIs DEF Worn
<1>3. \A k : UnitsIn(f, k) = 0
  <2>1. IsFiniteSet(PlayerSlots)
    BY SlotsAreFew DEF SlotsOf
  <2> QED
    BY <2>1, NothingIn
<1> QED
  BY <1>1, <1>2, <1>3

LEMMA KeepsClear ==
    ASSUME ~Foreign, InvInv, NEW c \in Viewer, Clear(c) PROVE InvInv'
<1> DEFINE f == inv[c]
           s == cursor[c]
           d == drag[c]
           w == closing["reader"][c]
           e == [i \in PlayerSlots |-> NoStack]
<1>1. /\ w = NotClosing
      /\ made' = [k \in Kind |-> made[k] - UnitsIn(f, k) - Units(s, k)]
      /\ inv' = [inv EXCEPT ![c] = e] /\ cursor' = [cursor EXCEPT ![c] = NoStack]
      /\ UNCHANGED <<drag, chest, lying, closing>>
  BY DEF Clear, ReaderFree
<1>2. Sound(f, s, d, w) /\ made \in [Kind -> Int] /\ lying \in [Kind -> Nat]
      /\ chest \in [0..(ChestSlots - 1) -> Legal]
  BY HereIs
<1>3. Steps(c, e, NoStack, d, w)
  BY <1>1, HereIs DEF Steps
<1>4. e \in [PlayerSlots -> Legal] /\ Worn(e) /\ \A k : UnitsIn(e, k) = 0
  BY EmptySlots
<1> HIDE DEF e, f, s, d, w
<1>5. Sound(e, NoStack, d, w)
  BY <1>1, <1>2, <1>4, NoStackIs, NotClosingIs DEF Sound
<1>6. ASSUME NEW k \in Kind
      PROVE  /\ UnitsIn(f, k) \in Nat /\ Units(s, k) \in Nat /\ made'[k] = made[k] - UnitsIn(f, k) - Units(s, k)
             /\ made[k] \in Int
             /\ Weight(f, s, w, k) = UnitsIn(f, k) + Units(s, k) /\ Weight(e, NoStack, w, k) = 0
  <2>1. Units(InHand(w), k) = 0 /\ Units(NoStack, k) = 0
    BY <1>1, NotClosingIs, NoStackIs
  <2>2. UnitsIn(f, k) \in Nat /\ Units(s, k) \in Nat
    BY <1>2, WeightIs
  <2> QED
    BY <1>1, <1>2, <1>4, <2>1, <2>2 DEF Weight
<1>7. made' \in [Kind -> Int]
  <2>1. \A k \in Kind : made[k] - UnitsIn(f, k) - Units(s, k) \in Int
    BY <1>6
  <2> QED
    BY <1>1, <2>1
<1>8. ASSUME NEW k \in Kind
      PROVE  made'[k] - lying'[k] - UnitsIn(chest', k) - Weight(e, NoStack, w, k)
                 = made[k] - lying[k] - UnitsIn(chest, k) - Weight(f, s, w, k)
  <2> DEFINE x == made[k]
             y == lying[k]
             z == UnitsIn(chest, k)
             u == UnitsIn(f, k)
             v == Units(s, k)
  <2>1. x \in Int /\ y \in Int /\ z \in Int /\ u \in Int /\ v \in Int
    BY <1>6, HereIs
  <2>2. /\ made'[k] = x - u - v /\ lying'[k] = y /\ UnitsIn(chest', k) = z
        /\ Weight(e, NoStack, w, k) = 0 /\ Weight(f, s, w, k) = u + v
    BY <1>1, <1>6
  <2> HIDE DEF x, y, z, u, v
  <2>3. (x - u - v) - y - z - 0 = x - y - z - (u + v)
    BY <2>1
  <2> QED
    BY <2>2, <2>3 DEF x, y, z
<1>9. Balanced(c, e, NoStack, w)
  BY <1>1, <1>2, <1>7, <1>8 DEF Balanced, f, s, w
<1> QED
  BY <1>3, <1>5, <1>9, OneSteps

LEMMA ItemsStart == InvInit => InvInv
<1> SUFFICES ASSUME InvInit PROVE InvInv
  OBVIOUS
<1> DEFINE e == [i \in PlayerSlots |-> NoStack]
<1>1. e \in [PlayerSlots -> Legal] /\ Worn(e) /\ \A k : UnitsIn(e, k) = 0
  BY EmptySlots
<1>2. NoStack \in Legal /\ NoDrag \in Drags /\ NotClosing \in Closings /\ NotClosing.at = "read"
  BY NoStackIs, NotClosingIs DEF Drags
<1>3. /\ \A c \in Viewer : /\ inv[c] = e /\ cursor[c] = NoStack /\ drag[c] = NoDrag
                           /\ closing["reader"][c] = NotClosing /\ closing["mover"][c] = NotClosing
      /\ chest = [i \in 0..(ChestSlots - 1) |-> NoStack] /\ lying = Stock /\ made = Stock
  BY DEF InvInit, Goroutine
<1> HIDE DEF e
<1>4. /\ inv \in [Viewer -> [PlayerSlots -> Legal]] /\ cursor \in [Viewer -> Legal]
      /\ drag \in [Viewer -> Drags] /\ closing \in [Goroutine -> [Viewer -> Closings]]
  <2>1. inv = [c \in Viewer |-> e]
    BY DEF InvInit, e
  <2> QED
    BY <1>1, <1>2, <2>1 DEF InvInit
<1>5. chest \in [0..(ChestSlots - 1) -> Legal] /\ lying \in [Kind -> Nat] /\ made \in [Kind -> Int]
  BY <1>2, <1>3, InventoryAssumption
<1>6. \A c \in Viewer : /\ Sound(inv[c], cursor[c], drag[c], closing["reader"][c])
                        /\ closing["mover"][c] = NotClosing
  BY <1>1, <1>2, <1>3 DEF Sound
<1>7. ASSUME NEW k \in Kind
      PROVE  made[k] = lying[k] + UnitsIn(chest, k)
                           + SumFunctionOnSet([c \in Viewer |-> UnitsOf(c, k)], Viewer)
  <2> DEFINE u == [c \in Viewer |-> UnitsOf(c, k)]
  <2>1. \A c \in Viewer : u[c] = 0
    <3>1. Units(NoStack, k) = 0
      BY NoStackIs
    <3>2. \A c \in Viewer : InHands("reader", c) = NoStack /\ InHands("mover", c) = NoStack
      BY <1>2, <1>3 DEF InHands
    <3> QED
      BY <1>1, <1>3, <3>1, <3>2 DEF UnitsOf
  <2>2. UnitsIn(chest, k) = 0
    <3>1. IsFiniteSet(0..(ChestSlots - 1))
      BY SizesAre, FS_Interval
    <3> QED
      BY <1>3, <3>1, NothingIn
  <2> HIDE DEF u
  <2>3. SumFunctionOnSet(u, Viewer) = 0
    BY <2>1, SumOfZeros, InventoryAssumption
  <2>4. made[k] = lying[k] /\ lying[k] \in Int
    BY <1>3, InventoryAssumption
  <2>5. made[k] = lying[k] + UnitsIn(chest, k) + SumFunctionOnSet(u, Viewer)
    BY <2>2, <2>3, <2>4
  <2> QED
    BY <2>5 DEF u
<1>8. ItemsConserved
  BY <1>7 DEF ItemsConserved
<1> QED
  BY <1>4, <1>5, <1>6, <1>8 DEF InvInv

LEMMA ItemsStep == ASSUME ~Foreign, InvInv, [InvNext]_invVars PROVE InvInv'
<1>1. CASE UNCHANGED invVars
  BY <1>1 DEF invVars, InvInv, ItemsConserved, UnitsOf, InHands
<1>2. ASSUME NEW c \in Viewer, NEW k \in Clicks \cup Strokes,
             \/ \E i \in At(k, PlayerSlots) : ClickInventory(c, i, k)
             \/ \E i \in At(k, 0..(ChestSlots + MainSlots + HotSlots - 1)) : ClickChest(c, i, k)
      PROVE  InvInv'
  BY <1>2, KeepsClickInventory, KeepsClickChest
<1>3. ASSUME NEW c \in Viewer,
             OpenChest(c) \/ CloseContainer(c, 0) \/ CloseContainer(c, 1) \/ Clear(c)
      PROVE  InvInv'
  BY <1>3, KeepsOpenChest, KeepsCloseContainer, KeepsClear
<1>4. ASSUME NEW c \in Viewer, NEW g \in Goroutine,
             CloseWindows(g, c) \/ CloseRead(g, c) \/ CloseEmpty(g, c)
                 \/ CloseGive(g, c) \/ CloseBack(g, c) \/ CloseEnd(g, c)
      PROVE  InvInv'
  BY <1>4, KeepsCloseWindows, KeepsCloseRead, KeepsCloseEmpty, KeepsCloseGive, KeepsCloseBack, KeepsCloseEnd
<1>5. ASSUME NEW c \in Viewer, NEW i \in PlayerSlots, NEW all \in BOOLEAN, DropHeld(c, i, all)
      PROVE  InvInv'
  BY <1>5, KeepsDropHeld
<1>6. ASSUME NEW c \in Viewer, NEW k \in Kind, NEW n \in 1..MaxMade[k],
             GiveStack(c, k) \/ Collect(c, k, n) \/ TakeItem(c, k, n)
      PROVE  InvInv'
  BY <1>6, KeepsGiveStack, KeepsCollect, KeepsTakeItem
<1>7. ASSUME NEW c \in Viewer, NEW k \in Kind, GiveStack(c, k) PROVE InvInv'
  BY <1>7, KeepsGiveStack
<1>8. InvNext \/ UNCHANGED invVars
  OBVIOUS
<1> QED
  BY <1>1, <1>2, <1>3, <1>4, <1>5, <1>6, <1>7, <1>8 DEF InvNext

\* For any players, kinds, stacks and windows: where only the goroutine that reads
\* a player's packets closes its windows and clears its inventory, no item is lost
\* or made, whatever is clicked, dragged, dropped, given, paid and closed midway.
THEOREM ItemsAreConserved == ASSUME ~Foreign PROVE InvSpec => []ItemsConserved
<1>1. InvInv /\ [InvNext]_invVars => InvInv'
  BY ItemsStep
<1>2. InvInv => ItemsConserved
  BY DEF InvInv
<1> QED
  BY <1>1, <1>2, ItemsStart, PTL DEF InvSpec
=============================================================================
