----------------------------- MODULE WorldEdit -----------------------------
(***************************************************************************)
(* The region editor (plugins/worldedit): selections and clipboards per    *)
(* player, undo stacks per player and instance.  A command runs on its     *)
(* player's connection; it reads the world, pushes what it will overwrite  *)
(* and only then writes, while others change the same blocks and the       *)
(* instance may be torn down, and created again under the same name.       *)
(*                                                                         *)
(* The world is a row of cells, a selection the cells between two corners. *)
(* Bound: one connection per editor's name.                                *)
(***************************************************************************)
EXTENDS Integers, Sequences, FiniteSets

CONSTANTS
    Editor,          \* ops with an editor session
    Place,           \* instance IDs
    Cells,           \* an interval of integers
    Material, KindOf, \* blocks, and the name each has whatever its properties
    Air,             \* what a new instance is made of
    MaxBlocks, MaxUndo,
    MaxEdits,        \* bound: edits, over the run
    MaxLives         \* bound: instances that have one ID after another

VARIABLES
    corner,          \* session.pos1, pos2: none or one cell each
    clipboard,       \* session.clipboard: blocks by their offset
    undo,            \* session.undo
    hand,            \* the command an editor's connection is running
    built,          \* the world of the instance an ID stands for
    life,            \* the number of that instance
    edits,           \* history: the edits made
    overwritten,     \* history: the world before each edit still on the stack
    foreign,         \* history: cells somebody else changed meanwhile
    late             \* history: an edit outlived its instance

editVars == <<corner, clipboard, undo, hand, built, life, edits, overwritten,
              foreign, late>>

ASSUME EditAssumption ==
    /\ Cells \subseteq Int /\ Air \in Material
    /\ MaxBlocks \in Nat /\ MaxUndo \in Nat \ {0} /\ MaxEdits \in Nat /\ MaxLives \in Nat \ {0}

Which == {"pos1", "pos2"}
NothingCopied == <<>>
NoCommand == [at |-> "idle"]

EditInit ==
    /\ corner = [e \in Editor |-> [w \in Which |-> {}]]
    /\ clipboard = [e \in Editor |-> NothingCopied]
    /\ undo = [e \in Editor |-> [i \in Place |-> <<>>]]
    /\ hand = [e \in Editor |-> NoCommand]
    /\ built = [i \in Place |-> [c \in Cells |-> Air]]
    /\ life = [i \in Place |-> 1]
    /\ edits = 0
    /\ overwritten = [e \in Editor |-> [i \in Place |-> <<>>]]
    /\ foreign = [e \in Editor |-> [i \in Place |-> {}]]
    /\ late = {}

\* A click with the wand, or //pos1 and //pos2 where the player stands.  The
\* clicked block stays as it is: the hook consumes the click.
SetCorner(e, w, c) ==
    /\ hand[e] = NoCommand
    /\ corner' = [corner EXCEPT ![e][w] = {c}]
    /\ UNCHANGED <<clipboard, undo, hand, built, life, edits, overwritten, foreign, late>>

Selection(e) ==
    {c \in Cells : \E a \in corner[e]["pos1"], b \in corner[e]["pos2"] :
                        (a <= c /\ c <= b) \/ (b <= c /\ c <= a)}
SmallEnough(e) == Cardinality(Selection(e)) \in 1..MaxBlocks

\* A command that has decided on its changes; with none it is already over.
Starts(e, i, changes) ==
    /\ edits < MaxEdits
    /\ edits' = edits + 1
    /\ hand' = [hand EXCEPT ![e] =
                   IF DOMAIN changes = {} THEN NoCommand
                   ELSE [at |-> "read", place |-> i, life |-> life[i], changes |-> changes]]
    /\ UNCHANGED <<corner, clipboard, undo, built, life, overwritten, foreign, late>>

SetCommand(e, i, b) ==
    /\ hand[e] = NoCommand /\ SmallEnough(e)
    /\ Starts(e, i, [c \in Selection(e) |-> b])

ReplaceCommand(e, i, from, to) ==
    /\ hand[e] = NoCommand /\ SmallEnough(e)
    /\ Starts(e, i, [c \in {x \in Selection(e) : KindOf[built[i][x]] = KindOf[from]} |-> to])

CopyCommand(e, i, feet) ==
    /\ hand[e] = NoCommand /\ SmallEnough(e)
    /\ clipboard' = [clipboard EXCEPT ![e] =
                        [o \in {c - feet : c \in Selection(e)} |-> built[i][feet + o]]]
    /\ UNCHANGED <<corner, undo, hand, built, life, edits, overwritten, foreign, late>>

\* Bound: the copy is pasted inside the row.
PasteCommand(e, i, feet) ==
    /\ hand[e] = NoCommand /\ clipboard[e] # NothingCopied
    /\ \A o \in DOMAIN clipboard[e] : feet + o \in Cells
    /\ Starts(e, i, [c \in {feet + o : o \in DOMAIN clipboard[e]} |-> clipboard[e][c - feet]])

\* apply: what the changes will overwrite, in the instance the command was given in, ...
Overwrites(e) ==
    /\ hand[e].at = "read"
    /\ LET i == hand[e].place
           now == IF hand[e].life = life[i] THEN built[i] ELSE [c \in Cells |-> Air]
       IN  hand' = [hand EXCEPT ![e] =
                      [at |-> "push", place |-> i, life |-> @.life, changes |-> @.changes,
                       before |-> [c \in DOMAIN @.changes |-> now[c]]]]
    /\ UNCHANGED <<corner, clipboard, undo, built, life, edits, overwritten, foreign, late>>

\* ... the push, which lets go of the oldest edit beyond the limit, ...
BugLastOnes(stack) == SubSeq(stack, 1, IF Len(stack) > MaxUndo THEN MaxUndo ELSE Len(stack))
LastOnes(stack) ==
    SubSeq(stack, IF Len(stack) > MaxUndo THEN Len(stack) - MaxUndo + 1 ELSE 1, Len(stack))

PushUndo(e) ==
    /\ hand[e].at = "push"
    /\ LET i == hand[e].place
       IN  /\ undo' = [undo EXCEPT ![e][i] = LastOnes(Append(@, hand[e].before))]
           /\ late' = IF hand[e].life = life[i] THEN late ELSE late \cup {<<e, i>>}
    /\ hand' = [hand EXCEPT ![e] = [at |-> "set", place |-> @.place, life |-> @.life,
                                    changes |-> @.changes, undoes |-> FALSE]]
    /\ UNCHANGED <<corner, clipboard, built, life, edits, overwritten, foreign>>

\* The worlds the edits on a stack were made in, as far back as it goes.
Recent(worlds) == SubSeq(worlds, IF Len(worlds) > MaxUndo THEN 2 ELSE 1, Len(worlds))

\* ... and the changes.  An undo takes its edit off the stack before it writes.
UndoCommand(e, i) ==
    /\ hand[e] = NoCommand /\ undo[e][i] # <<>>
    /\ LET top == Len(undo[e][i])
       IN  /\ undo' = [undo EXCEPT ![e][i] = SubSeq(@, 1, top - 1)]
           /\ hand' = [hand EXCEPT ![e] = [at |-> "set", place |-> i, life |-> life[i],
                                           changes |-> undo[e][i][top], undoes |-> TRUE]]
    /\ UNCHANGED <<corner, clipboard, built, life, edits, overwritten, foreign, late>>

\* Who minds a change to some cells: the editors, but those who made it, with
\* something on the stack, or on its way there.
Others(makers, i, cells) ==
    [f \in Editor |->
        [j \in Place |->
            IF f \notin makers /\ j = i /\ (undo[f][i] # <<>> \/ hand[f] # NoCommand)
            THEN foreign[f][j] \cup cells
            ELSE foreign[f][j]]]

SetBlocks(e) ==
    /\ hand[e].at = "set"
    /\ hand' = [hand EXCEPT ![e] = NoCommand]
    /\ LET i == hand[e].place
           changes == hand[e].changes
           old == overwritten[e][i]
           there == hand[e].life = life[i]
           done == undo[e][i] = <<>>
       IN  /\ built' = IF ~there THEN built
                        ELSE [built EXCEPT ![i] =
                                [c \in Cells |-> IF c \in DOMAIN changes THEN changes[c] ELSE @[c]]]
           /\ overwritten' =
                IF ~there THEN overwritten
                ELSE [overwritten EXCEPT ![e][i] =
                        IF ~hand[e].undoes THEN Recent(Append(old, built[i]))
                        ELSE SubSeq(old, 1, Len(old) - 1)]
           /\ foreign' = IF ~there THEN foreign
                         ELSE [Others({e}, i, DOMAIN changes) EXCEPT ![e][i] = IF done THEN {} ELSE @]
    /\ UNCHANGED <<corner, clipboard, undo, life, edits, late>>

\* A player digs or places, a game or an explosion changes a block.
OtherChange(i, c, b) ==
    /\ b # built[i][c]
    /\ edits < MaxEdits /\ edits' = edits + 1
    /\ built' = [built EXCEPT ![i][c] = b]
    /\ foreign' = Others({}, i, {c})
    /\ UNCHANGED <<corner, clipboard, undo, hand, life, overwritten, late>>

\* OnInstanceEnd; an arena may be created again under the same name.
InstanceEnds(i) ==
    /\ life[i] < MaxLives
    /\ life' = [life EXCEPT ![i] = @ + 1]
    /\ built' = [built EXCEPT ![i] = [c \in Cells |-> Air]]
    /\ undo' = [e \in Editor |-> [undo[e] EXCEPT ![i] = <<>>]]
    /\ overwritten' = [e \in Editor |-> [overwritten[e] EXCEPT ![i] = <<>>]]
    /\ foreign' = [e \in Editor |-> [foreign[e] EXCEPT ![i] = {}]]
    /\ UNCHANGED <<corner, clipboard, hand, edits, late>>

EditNext ==
    \/ \E e \in Editor :
        \/ \E w \in Which, c \in Cells : SetCorner(e, w, c)
        \/ \E i \in Place :
            \/ \E b \in Material : SetCommand(e, i, b)
            \/ \E from, to \in Material : ReplaceCommand(e, i, from, to)
            \/ \E feet \in Cells : CopyCommand(e, i, feet) \/ PasteCommand(e, i, feet)
            \/ UndoCommand(e, i)
        \/ Overwrites(e) \/ PushUndo(e) \/ SetBlocks(e)
    \/ \E i \in Place : \/ \E c \in Cells, b \in Material : OtherChange(i, c, b)
                        \/ InstanceEnds(i)

EditSpec == EditInit /\ [][EditNext]_editVars

----------------------------------------------------------------------------
Patch == UNION {[S -> Material] : S \in SUBSET Cells}
EditTypeOK ==
    /\ corner \in [Editor -> [Which -> SUBSET Cells]]
    /\ \A e \in Editor, i \in Place :
        /\ Len(undo[e][i]) <= MaxUndo /\ \A k \in DOMAIN undo[e][i] : undo[e][i][k] \in Patch
        /\ Len(overwritten[e][i]) <= MaxUndo
        /\ foreign[e][i] \subseteq Cells
    /\ \A e \in Editor : hand[e].at \in {"idle", "read", "push", "set"}
    /\ built \in [Place -> [Cells -> Material]]
    /\ life \in [Place -> 1..MaxLives]
    /\ late \subseteq Editor \X Place

\* What a cell holds once the edits on a stack from the d-th on are undone.
Undone(stack, d, c, now) ==
    LET at == {k \in d..Len(stack) : c \in DOMAIN stack[k]}
    IN  IF at = {} THEN now ELSE stack[CHOOSE k \in at : \A m \in at : k <= m][c]

\* //undo "revert[s] your last edit in this instance" (worldedit.go:138): when an
\* editor's commands are over, undoing the edits of its stack one by one leads
\* back through the very worlds they were made in, for every cell nobody else has
\* changed meanwhile, whatever was pasted, replaced or dropped from the stack.
\* (An edit in flight as its instance ends pushes after OnInstanceEnd has cleared
\* the stacks; "late" excludes the editors this has happened to.)
UndoRestores ==
    \A e \in Editor, i \in Place :
        hand[e] = NoCommand /\ <<e, i>> \notin late =>
            /\ Len(undo[e][i]) = Len(overwritten[e][i])
            /\ \A d \in DOMAIN undo[e][i], c \in Cells \ foreign[e][i] :
                Undone(undo[e][i], d, c, built[i][c]) = overwritten[e][i][d][c]
=============================================================================
