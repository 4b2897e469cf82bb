------------------------------ MODULE NoteHistory ------------------------------
(***************************************************************************)
(* History of the rich-text editor (materialNote.js): one array of         *)
(* snapshots and an offset into it.  What a snapshot holds is the matter   *)
(* of the module that extends this one, or of Snapshots.  JavaScript       *)
(* counts from 0: the present snapshot is stack[stackOffset + 1].          *)
(***************************************************************************)
EXTENDS Integers, Sequences

CONSTANT Snapshots    \* what makeSnapshot may return, where it is left open

VARIABLES
    stack,         \* snapshots, the oldest first
    stackOffset    \* the snapshot undo and redo start from

historyVars == <<stack, stackOffset>>

Present == stack[stackOffset + 1]

\* new History(): the first recordUndo, from offset -1.
HistoryInit(snapshot) == stack = <<snapshot>> /\ stackOffset = 0

\* The snapshots after the present one are washed out.
recordUndo(snapshot) ==
    /\ stackOffset' = stackOffset + 1
    /\ stack' = Append(SubSeq(stack, 1, stackOffset + 1), snapshot)

undo ==
    /\ 0 < stackOffset
    /\ stackOffset' = stackOffset - 1
    /\ UNCHANGED stack

redo ==
    /\ Len(stack) - 1 > stackOffset
    /\ stackOffset' = stackOffset + 1
    /\ UNCHANGED stack

HistoryNext == (\E s \in Snapshots : recordUndo(s)) \/ undo \/ redo

HistorySpec == (\E s \in Snapshots : HistoryInit(s)) /\ [][HistoryNext]_historyVars

------------------------------------------------------------------------------
HistoryTypeOK ==
    /\ stack \in Seq(Snapshots)
    /\ stackOffset \in 0 .. Len(stack) - 1

Promise == INSTANCE UndoRedo WITH
    past <- SubSeq(stack, 1, stackOffset + 1),
    future <- SubSeq(stack, stackOffset + 2, Len(stack))

\* Undo and redo walk one line of recorded contents in both directions, and a
\* new record forgets what was undone (History, its offset arithmetic).
KeepsUndoPromise == Promise!UndoRedoSpec
=============================================================================
