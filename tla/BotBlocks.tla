------------------------------ MODULE BotBlocks ------------------------------
(***************************************************************************)
(* The blocks as a bot sees them (botnav/path.go): where its feet can be,  *)
(* and the moves a search may take out of a cell.  Nothing here has state; *)
(* BotPath searches with these moves and BotWalk makes them.               *)
(*                                                                         *)
(* Heights are in tenths of a block, costs in tenths of the code's.        *)
(***************************************************************************)
EXTENDS Integers, Sequences, FiniteSets

CONSTANTS
  Lanes,        \* bound: the values of z; all else is solid rock
  Length,       \* bound: the values of x, likewise
  MaxLeap,      \* Opts.MaxLeap
  LeapCost      \* Opts.LeapCost, in tenths

-----------------------------------------------------------------------------
(* The blocks. *)

Moved(p, x, y, z) == <<p[1] + x, p[2] + y, p[3] + z>>
Above(p, n) == Moved(p, 0, n, 0)

\* The collision box of a block, lo..hi in tenths; air has none.
Extent == [full |-> <<0, 10>>, slab |-> <<0, 5>>, top |-> <<5, 10>>, fence |-> <<0, 15>>]

BlockAt(w, p) ==
  IF p[1] \notin Length \/ p[3] \notin Lanes THEN "full"
  ELSE IF p \in DOMAIN w THEN w[p] ELSE "air"

PathCollides(w, p) == BlockAt(w, p) # "air"
Low(w, p) == PathCollides(w, p) /\ Extent[BlockAt(w, p)][1] = 0 /\ Extent[BlockAt(w, p)][2] <= 6
Reaches(w, p, h) == PathCollides(w, p) /\ Extent[BlockAt(w, p)][2] > h

CellClear(w, p) == ~ Reaches(w, Above(p, -1), 10) /\ (PathCollides(w, p) => Low(w, p))
StandY(w, p) == 10 * p[2] + (IF Low(w, p) THEN Extent[BlockAt(w, p)][2] ELSE 0)
Rise(w, c, t) == StandY(w, t) - StandY(w, c)
HeadClear(w, p) == ~ PathCollides(w, p)

GroundUnder(w, p) ==
  \/ PathCollides(w, p) /\ Extent[BlockAt(w, p)][1] = 0
  \/ Reaches(w, Above(p, -1), 9)

Standable(w, p) ==
  /\ CellClear(w, p)
  /\ HeadClear(w, Above(p, 1))
  /\ GroundUnder(w, p)
  /\ StandY(w, p) - 10 * p[2] > 2 => HeadClear(w, Above(p, 2))

Bridgeable(w, t) ==
  /\ CellClear(w, t) /\ HeadClear(w, Above(t, 1)) /\ ~ GroundUnder(w, t)
  /\ ~ PathCollides(w, Above(t, -1))

\* stairStep: the blocks to put down for a step up over t, <<>> for none.
StairStep(w, t, supported) ==
  LET fits  == /\ CellClear(w, Above(t, 1)) /\ HeadClear(w, Above(t, 2))
               /\ ~ PathCollides(w, t)
      below == Above(t, -1)
  IN  IF ~ fits THEN <<>>
      ELSE IF PathCollides(w, below) THEN <<t>>
      ELSE IF supported THEN <<below, t>> ELSE <<>>

\* leapClear: nothing to walk on, and room for the jump, between c and k on.
LeapClear(w, c, d, k) ==
  \A i \in 1..(k - 1) :
    LET p == Moved(c, i * d[1], 0, i * d[2])
    IN  /\ CellClear(w, p) /\ HeadClear(w, Above(p, 1)) /\ HeadClear(w, Above(p, 2))
        /\ ~ GroundUnder(w, p)

-----------------------------------------------------------------------------
(* The moves out of a node: [cell, cost, place, leap].  No two of them go   *)
(* to one cell.                                                            *)

Cardinals == {<<1, 0>>, <<-1, 0>>, <<0, 1>>, <<0, -1>>}
Diagonals == {<<1, 1>>, <<1, -1>>, <<-1, 1>>, <<-1, -1>>}

Move(cell, cost, place, leap) == [cell |-> cell, cost |-> cost, place |-> place, leap |-> leap]

LevelMoves(w, c, t, supported) ==
  IF Standable(w, t) /\ Rise(w, c, t) <= 6 THEN {Move(t, 10, <<>>, FALSE)}
  ELSE IF supported /\ Bridgeable(w, t) THEN {Move(t, 40, <<Above(t, -1)>>, FALSE)}
  ELSE {}

UpMoves(w, c, t, supported) ==
  LET up   == Above(t, 1)
      step == StairStep(w, t, supported)
  IN  IF ~ HeadClear(w, Above(c, 2)) THEN {}
      ELSE IF Standable(w, up) /\ Rise(w, c, up) <= 12 THEN {Move(up, 20, <<>>, FALSE)}
      ELSE IF step # <<>> THEN {Move(up, 50 + 40 * (Len(step) - 1), step, FALSE)}
      ELSE {}

PathMaxDrop == 3

DropMoves(w, t) ==
  LET open_ == CellClear(w, t) /\ HeadClear(w, Above(t, 1)) /\ ~ GroundUnder(w, t)
      lands == {k \in 1..PathMaxDrop : /\ Standable(w, Above(t, -k))
                                       /\ \A j \in 1..(k - 1) : /\ ~ Standable(w, Above(t, -j))
                                                                /\ CellClear(w, Above(t, -j))}
  IN  IF open_ THEN {Move(Above(t, -k), 15 + 5 * k, <<>>, FALSE) : k \in lands} ELSE {}

LeapMoves(w, c, d) ==
  LET land(k) == Moved(c, k * d[1], 0, k * d[2])
      good(k) == /\ Standable(w, land(k)) /\ Rise(w, c, land(k)) <= 0
                 /\ Standable(w, Moved(c, -d[1], 0, -d[2]))
      ks == {k \in 2..(MaxLeap + 1) : LeapClear(w, c, d, k) /\ good(k)}
      nearest == {k \in ks : \A j \in ks : k <= j}
  IN  {Move(land(k), 20 + 10 * k + LeapCost, <<>>, TRUE) : k \in nearest}

DiagonalMoves(w, c) ==
  LET free(p) == CellClear(w, p) /\ HeadClear(w, Above(p, 1))
      t(d) == Moved(c, d[1], 0, d[2])
  IN  {Move(t(d), 14, <<>>, FALSE) :
         d \in {e \in Diagonals : /\ Standable(w, t(e)) /\ Rise(w, c, t(e)) <= 6
                                  /\ free(Moved(c, e[1], 0, 0)) /\ free(Moved(c, 0, 0, e[2]))}}

\* What may be built sideways from n: off a block, or off the one it placed.
Supports(w, n) == n.placed \/ PathCollides(w, Above(n.cell, -1))

Moves(w, n) ==
  LET c == n.cell
      s == Supports(w, n)
  IN  DiagonalMoves(w, c) \cup
      UNION {LET t == Moved(c, d[1], 0, d[2])
             IN  LevelMoves(w, c, t, s) \cup UpMoves(w, c, t, s)
                   \cup DropMoves(w, t) \cup LeapMoves(w, c, d) : d \in Cardinals}
=============================================================================
