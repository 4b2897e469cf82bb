------------------------------- MODULE UndoRedo -------------------------------
(***************************************************************************)
(* What undo and redo of an editor promise: the recorded contents before   *)
(* and at the present one, and those that redo gives back.                 *)
(***************************************************************************)
EXTENDS Integers, Sequences

VARIABLES
    past,     \* recorded contents, the present one last
    future    \* contents undone, the next one for redo first

UndoRedoInit == Len(past) = 1 /\ future = <<>>

\* A new content is recorded behind the present one; nothing is left to redo.
Record ==
    /\ Len(past') = Len(past) + 1
    /\ SubSeq(past', 1, Len(past)) = past
    /\ future' = <<>>

\* The present content becomes the first one to redo, and the other way round.
TakeBack ==
    /\ Len(past) > 1
    /\ past' = SubSeq(past, 1, Len(past) - 1)
    /\ future' = <<past[Len(past)]>> \o future
PutBack ==
    /\ future # <<>>
    /\ past' = Append(past, Head(future))
    /\ future' = Tail(future)

UndoRedoSpec == UndoRedoInit /\ [][Record \/ TakeBack \/ PutBack]_<<past, future>>
=============================================================================
