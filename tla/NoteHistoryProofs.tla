--------------------------- MODULE NoteHistoryProofs ---------------------------
(***************************************************************************)
(* Proofs about NoteHistory: the offset never leaves the array, and the    *)
(* array with its offset implements the past and the future of UndoRedo.   *)
(***************************************************************************)
EXTENDS NoteHistory, TLAPS, SequenceTheorems

\* The offset of the present snapshot stays inside the array, so undo and redo
\* always find a snapshot to apply (History).
THEOREM HistoryTypeCorrect == HistorySpec => []HistoryTypeOK
<1>1. (\E s \in Snapshots : HistoryInit(s)) => HistoryTypeOK
  BY DEF HistoryInit, HistoryTypeOK
<1>2. HistoryTypeOK /\ [HistoryNext]_historyVars => HistoryTypeOK'
  <2> SUFFICES ASSUME HistoryTypeOK, [HistoryNext]_historyVars PROVE HistoryTypeOK'
    OBVIOUS
  <2> USE DEF HistoryTypeOK
  <2>1. ASSUME NEW s \in Snapshots, recordUndo(s) PROVE HistoryTypeOK'
    <3>1. /\ SubSeq(stack, 1, stackOffset + 1) \in Seq(Snapshots)
          /\ Len(SubSeq(stack, 1, stackOffset + 1)) = stackOffset + 1
      OBVIOUS
    <3> QED BY <2>1, <3>1 DEF recordUndo
  <2>2. CASE undo
    BY <2>2 DEF undo
  <2>3. CASE redo
    BY <2>3 DEF redo
  <2>4. CASE UNCHANGED historyVars
    BY <2>4 DEF historyVars
  <2> QED BY <2>1, <2>2, <2>3, <2>4 DEF HistoryNext
<1> QED BY <1>1, <1>2, PTL DEF HistorySpec

\* A sequence is its first n elements, its element n + 1 and the rest.
LEMMA SplitAt ==
    ASSUME NEW S, NEW s \in Seq(S), NEW n \in 1 .. Len(s)
    PROVE  /\ SubSeq(s, 1, n) = Append(SubSeq(s, 1, n - 1), s[n])
           /\ SubSeq(s, n, Len(s)) = <<s[n]>> \o SubSeq(s, n + 1, Len(s))
<1>1. SubSeq(s, 1, n) = Append(SubSeq(s, 1, n - 1), s[n])
  OBVIOUS
<1>2. SubSeq(s, n, Len(s)) = <<s[n]>> \o SubSeq(s, n + 1, Len(s))
  OBVIOUS
<1> QED BY <1>1, <1>2

\* Appending to a sequence keeps what it was.
LEMMA AppendKeeps ==
    ASSUME NEW S, NEW s \in Seq(S), NEW e \in S
    PROVE  Len(Append(s, e)) = Len(s) + 1 /\ SubSeq(Append(s, e), 1, Len(s)) = s
<1>1. Append(s, e) \in Seq(S) /\ Len(Append(s, e)) = Len(s) + 1
  OBVIOUS
<1>2. \A i \in 1 .. Len(s) : Append(s, e)[i] = s[i]
  OBVIOUS
<1> QED BY <1>1, <1>2

\* What a step of History may be, whatever the snapshots are.
HistoryMoves == (\E s : recordUndo(s)) \/ undo \/ redo \/ UNCHANGED historyVars
OffsetInside == (\E S : stack \in Seq(S)) /\ stackOffset \in 0 .. Len(stack) - 1

LEMMA OffsetStep == OffsetInside /\ HistoryMoves => OffsetInside'
<1> SUFFICES ASSUME OffsetInside, HistoryMoves PROVE OffsetInside'
  OBVIOUS
<1>1. PICK S : stack \in Seq(S)
  BY DEF OffsetInside
<1>2. stackOffset \in 0 .. Len(stack) - 1
  BY DEF OffsetInside
<1>3. ASSUME NEW s, recordUndo(s) PROVE OffsetInside'
  <2> DEFINE T == S \cup {s}
  <2>1. stack \in Seq(T) /\ s \in T
    BY <1>1, SeqMonotonic
  <2> HIDE DEF T
  <2>2. /\ SubSeq(stack, 1, stackOffset + 1) \in Seq(T)
        /\ Len(SubSeq(stack, 1, stackOffset + 1)) = stackOffset + 1
    BY <1>2, <2>1
  <2>3. /\ stack' = Append(SubSeq(stack, 1, stackOffset + 1), s)
        /\ stackOffset' = stackOffset + 1
    BY <1>3 DEF recordUndo
  <2>4. stack' \in Seq(T) /\ Len(stack') = stackOffset + 2
    BY <1>2, <2>1, <2>2, <2>3
  <2> QED BY <1>2, <2>3, <2>4 DEF OffsetInside
<1>4. CASE undo
  BY <1>1, <1>2, <1>4 DEF undo, OffsetInside
<1>5. CASE redo
  BY <1>1, <1>2, <1>5 DEF redo, OffsetInside
<1>6. CASE UNCHANGED historyVars
  BY <1>1, <1>2, <1>6 DEF historyVars, OffsetInside
<1> QED BY <1>3, <1>4, <1>5, <1>6 DEF HistoryMoves

\* Every step of the array is one of the line of past and future, or a stutter.
LEMMA PromiseStep ==
    ASSUME OffsetInside, HistoryMoves
    PROVE  [Promise!Record \/ Promise!TakeBack \/ Promise!PutBack]_
               <<SubSeq(stack, 1, stackOffset + 1), SubSeq(stack, stackOffset + 2, Len(stack))>>
<1> DEFINE Past == SubSeq(stack, 1, stackOffset + 1)
           Future == SubSeq(stack, stackOffset + 2, Len(stack))
<1>1. PICK S : stack \in Seq(S)
  BY DEF OffsetInside
<1>2. stackOffset \in 0 .. Len(stack) - 1
  BY DEF OffsetInside
<1>3. /\ Past \in Seq(S) /\ Len(Past) = stackOffset + 1
      /\ Future \in Seq(S) /\ Len(Future) = Len(stack) - stackOffset - 1
  BY <1>1, <1>2
<1>4. ASSUME NEW s, recordUndo(s) PROVE Promise!Record
  <2> DEFINE T == S \cup {s}
  <2>1. stack \in Seq(T) /\ s \in T
    BY <1>1, SeqMonotonic
  <2> HIDE DEF T
  <2>2. Past \in Seq(T)
    BY <1>2, <2>1
  <2>3. stack' = Append(Past, s) /\ stackOffset' = Len(Past)
    BY <1>3, <1>4 DEF recordUndo
  <2>4. Past' = Append(Past, s)
    BY <1>2, <2>1, <2>2, <2>3
  <2>5. Future' = <<>>
    BY <1>2, <2>1, <2>2, <2>3
  <2>6. Len(Past') = Len(Past) + 1 /\ SubSeq(Past', 1, Len(Past)) = Past
    <3>1. /\ Len(Append(Past, s)) = Len(Past) + 1
          /\ SubSeq(Append(Past, s), 1, Len(Past)) = Past
      <4> HIDE DEF Past
      <4> QED BY <2>1, <2>2, AppendKeeps
    <3> HIDE DEF Past
    <3> QED BY <2>4, <3>1
  <2> QED BY <2>5, <2>6 DEF Promise!Record
<1>5. ASSUME undo PROVE Promise!TakeBack
  <2>1. stack' = stack /\ stackOffset' = stackOffset - 1 /\ stackOffset > 0
    BY <1>2, <1>5 DEF undo
  <2>2. Past' = SubSeq(Past, 1, Len(Past) - 1)
    BY <1>1, <1>2, <1>3, <2>1
  <2>3. Future' = <<Past[Len(Past)]>> \o Future
    BY <1>1, <1>2, <1>3, <2>1, SplitAt
  <2>4. Len(Past) > 1
    BY <1>2, <1>3, <2>1
  <2> QED BY <2>2, <2>3, <2>4 DEF Promise!TakeBack
<1>6. ASSUME redo PROVE Promise!PutBack
  <2>1. stack' = stack /\ stackOffset' = stackOffset + 1 /\ Len(stack) > stackOffset + 1
    BY <1>1, <1>2, <1>6 DEF redo
  <2>2. Past' = Append(Past, Head(Future))
    BY <1>1, <1>2, <1>3, <2>1, SplitAt
  <2>3. Future' = Tail(Future)
    BY <1>1, <1>2, <1>3, <2>1
  <2>4. Future # <<>>
    <3>1. stackOffset \in Int /\ Len(stack) \in Int
      BY <1>1, <1>2
    <3>2. Len(Future) # 0
      <4> HIDE DEF Future
      <4> QED BY <1>3, <2>1, <3>1
    <3> HIDE DEF Future
    <3> QED BY <3>2
  <2> QED BY <2>2, <2>3, <2>4 DEF Promise!PutBack
<1>7. ASSUME UNCHANGED historyVars PROVE UNCHANGED <<Past, Future>>
  BY <1>7 DEF historyVars
<1> QED BY <1>4, <1>5, <1>6, <1>7 DEF HistoryMoves

\* Every behaviour of History keeps the promise of undo and redo (the array
\* and the offset against what the user is told they do).
THEOREM HistoryKeepsPromise == HistorySpec => KeepsUndoPromise
<1>1. (\E s \in Snapshots : HistoryInit(s)) => Promise!UndoRedoInit
  BY DEF HistoryInit, Promise!UndoRedoInit
<1>2. HistoryTypeOK /\ [HistoryNext]_historyVars
      => [Promise!Record \/ Promise!TakeBack \/ Promise!PutBack]_
             <<SubSeq(stack, 1, stackOffset + 1), SubSeq(stack, stackOffset + 2, Len(stack))>>
  <2>1. HistoryTypeOK => OffsetInside
    BY DEF HistoryTypeOK, OffsetInside
  <2>2. [HistoryNext]_historyVars => HistoryMoves
    BY DEF HistoryNext, HistoryMoves
  <2> QED BY <2>1, <2>2, PromiseStep
<1> QED BY <1>1, <1>2, HistoryTypeCorrect, PTL
        DEF HistorySpec, KeepsUndoPromise, Promise!UndoRedoSpec
=============================================================================
