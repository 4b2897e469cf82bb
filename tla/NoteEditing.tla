----------------------------- MODULE NoteEditing -----------------------------
(***************************************************************************)
(* Editor and History of the rich-text editor (materialNote.js): the       *)
(* document, its selection and the undo stack, changed by the commands of  *)
(* the toolbar and the keyboard.  An exception that a command meets, where *)
(* the script has no answer for a missing node, ends the command at that   *)
(* place.  Numbering the nodes anew after each command changes nothing a   *)
(* command can see.                                                        *)
(***************************************************************************)
EXTENDS NoteCommands

CONSTANTS
    Documents,     \* what the editor can be opened with
    Budget(_),     \* bound on the commands of a behaviour, by its document
    MaxNodes       \* bound on the nodes of a document a command starts from

ASSUME NoteBounds == MaxNodes \in Nat

VARIABLES
    doc,          \* the editable's content, as a document
    sel,          \* document.getSelection(), a range of doc
    bogus,        \* KEY_BOGUS: the span of fontSize at a caret, Null when not in doc
    stack,        \* History: snapshots, the oldest first
    stackOffset,  \* History: the snapshot undo and redo start from
    unrecorded,   \* the document changed since the last snapshot was made or applied
    budget,       \* commands still allowed
    last          \* the last action

noteVars == <<doc, sel, bogus, stack, stackOffset, unrecorded, budget, last>>

History == INSTANCE NoteHistory WITH Snapshots <- {}

------------------------------------------------------------------------------
(* History.                                                                *)

makeSnapshot(d, rng) ==
    [contents |-> html(d),
     bookmark |-> IF rng = NoRange THEN emptyBookmark ELSE bookmark(d, rng)]

\* A parser closes a P at the start of a block, so a document with a block in a
\* P is not read back as it was written: behaviours are not followed further.
Blocks(d) == Paras(d) \cup Lists(d) \cup Tables(d) \cup Blockquotes(d)
Serialisable(d) ==
    LET parasAndCells == Named(d, {"P", "TD", "TH"}) IN
    \A n \in Attached(d) \cap Blocks(d) :
        LET nearest == ancestor(d, Parent(d, n), parasAndCells)
        IN nearest # Null => d.tag[nearest] # "P"

\* The content first, then the selection, which setStart and setEnd may refuse.
applySnapshot(s) ==
    LET rng == createFromBookmark(s.contents, s.bookmark) IN
    /\ Serialisable(s.contents)
    /\ doc' = s.contents
    /\ sel' = IF IsRange(s.contents, rng) THEN rng ELSE Caret(Point(Editable, 0))
    /\ bogus' = Null

\* The places a browser lets a caret stand at, in document order: in a text,
\* in an empty element before its line break, between void nodes.
CaretPoints(d) ==
    LET voids == Voids(d)
        CanStand(pt) == /\ isVisiblePoint(d, pt)
                        /\ pt.node \notin voids
                        /\ isEmpty(d, pt.node) => pt.offset = 0
    IN SelectSeq(AllPoints(d), CanStand)

\* The first snapshot is made before code() fills the editor, of no content.
NoContent ==
    LET Of(x) == [n \in {Editable} |-> x]
    IN [tag |-> Of("EDITABLE"), up |-> Of(Null), kids |-> Of(<<>>), text |-> Of(<<>>),
        margin |-> Of(0)]

NoteInit ==
    /\ doc \in Documents
    /\ sel = Caret(Head(CaretPoints(doc)))
    /\ bogus = Null
    /\ History!HistoryInit([contents |-> NoContent, bookmark |-> emptyBookmark])
    /\ unrecorded = (doc # NoContent)
    /\ budget = Budget(doc)
    /\ last = "code"

------------------------------------------------------------------------------

Select ==
    /\ budget > 0
    /\ last' = "Select"
    /\ LET pts == CaretPoints(doc) IN
       \E i, j \in DOMAIN pts :
           /\ i <= j
           /\ sel' = RangeOf(pts[i], pts[j])
    /\ UNCHANGED <<doc, bogus, stack, stackOffset, unrecorded, budget>>

------------------------------------------------------------------------------
(* Commands: beforeCommand, the change, afterCommand.  To select a node    *)
(* that is no longer in the document leaves no selection, and a command    *)
(* without one meets null and changes nothing.                             *)

Ready == sel # NoRange /\ Serialisable(doc) /\ budget > 0 /\ Cardinality(Nodes(doc)) <= MaxNodes

Renumbered(r) ==
    LET New(pt) == Point(NewNumber(r.doc, pt.node), pt.offset)
    IN Result(Renumber(r.doc), IF {r.rng.s.node, r.rng.e.node} \subseteq Attached(r.doc)
                               THEN RangeOf(New(r.rng.s), New(r.rng.e)) ELSE NoRange)

\* Mutant: the snapshot is made before the change.
CommitTooSoon(results) ==
    \E r \in results : \E t \in {Renumbered(r)} :
        /\ doc' = t.doc
        /\ sel' = t.rng
        /\ bogus' = NewNumber(r.doc, bogus)
        /\ History!recordUndo(makeSnapshot(doc, sel))
        /\ unrecorded' = FALSE
        /\ budget' = budget - 1

\* One of the documents and selections a command may leave, recorded for undo.
Commit(results) ==
    \E r \in results : \E t \in {Renumbered(r)} :
        /\ doc' = t.doc
        /\ sel' = t.rng
        /\ bogus' = NewNumber(r.doc, bogus)
        /\ History!recordUndo(makeSnapshot(t.doc, t.rng))
        /\ unrecorded' = FALSE
        /\ budget' = budget - 1

\* The same, not recorded; node becomes the bogus one.
UncommittedWith(results, node) ==
    /\ \E r \in results : \E t \in {Renumbered(r)} :
          /\ doc' = t.doc
          /\ sel' = t.rng
          /\ bogus' = NewNumber(r.doc, node)
    /\ unrecorded' = TRUE
    /\ budget' = budget - 1
    /\ UNCHANGED <<stack, stackOffset>>
Uncommitted(results) == UncommittedWith(results, bogus)

\* The command leaves d; where the caret is then is the browser's matter.
AnyCaret(d) == {Result(d, Caret(pt)) : pt \in Range(CaretPoints(d))}

AnySelection(d) ==
    LET pts == CaretPoints(d) IN
    IF isCollapsed(sel) THEN AnyCaret(d)
    ELSE UNION {{Result(d, RangeOf(pts[i], pts[j])) : j \in i .. Len(pts)} :
                    i \in DOMAIN pts}

\* The command ends with select(): setStart and setEnd throw when the node is
\* missing or has no such offset, as the paths of a paraBookmark may lead past an
\* item's former content.
CanSelect(r) ==
    \A pt \in {r.rng.s, r.rng.e} :
        pt.node \in Nodes(r.doc) /\ pt.offset \in 0 .. nodeLength(r.doc, pt.node)
SelectAndCommit(results) ==
    \E r \in results : IF CanSelect(r) THEN Commit({r}) ELSE Uncommitted(AnySelection(r.doc))

InsertParagraph ==
    Ready /\ last' = "InsertParagraph" /\ SelectAndCommit({insertParagraph(doc, sel)})
InsertList(name) == Ready /\ last' = "List" /\ SelectAndCommit({toggleList(doc, sel, name)})
Indent == Ready /\ last' = "Indent" /\ SelectAndCommit({indent(doc, sel)})
Outdent == Ready /\ last' = "Outdent" /\ SelectAndCommit({outdent(doc, sel)})

\* Tab: to the next cell of a table with the caret in it, else blanks.
OnCell == isCollapsed(sel) /\ isOn(doc, sel, Cells(doc))
TabKey ==
    /\ Ready
    /\ last' = "Tab"
    /\ IF OnCell
       THEN /\ sel' = tabInTable(doc, sel, FALSE)
            /\ UNCHANGED <<doc, bogus, stack, stackOffset, unrecorded, budget>>
       ELSE Commit({insertTab(doc, sel, 1)})
UntabKey ==
    /\ Ready /\ OnCell
    /\ last' = "Tab"
    /\ sel' = tabInTable(doc, sel, TRUE)
    /\ UNCHANGED <<doc, bogus, stack, stackOffset, unrecorded, budget>>

\* insertNode, as the upload's answer calls it, and insertImage: the selection
\* moves behind the node.
InsertImage ==
    /\ Ready
    /\ last' = "InsertImage"
    /\ LET img == Fresh(doc)
       IN \E d \in {insertNode(create(doc, "IMG"), sel, img)} :
             Commit({Result(d, createFromNodeAfter(d, img))})

InsertText ==
    /\ Ready
    /\ last' = "InsertText"
    /\ LET t == Fresh(doc)
       IN \E d \in {insertNode(createText(doc, <<"t">>), sel, t)} :
             Commit({Result(d, Caret(Point(t, 1)))})

\* pasteHTML of two nodes of one kind, texts or paragraphs with a text.  After an
\* exception nothing is recorded, and the caret is where the browser left it.
Pasted(d, block) ==
    LET n == Fresh(d)
        texts == createText(createText(d, <<"x">>), <<"y">>)
        paras == createText(createText(create(create(d, "P"), "P"), <<"x">>), <<"y">>)
    IN IF block THEN appendChild(appendChild(paras, n, n + 2), n + 1, n + 3) ELSE texts

PasteHTML(block) ==
    /\ Ready
    /\ last' = "PasteHTML"
    /\ LET n == Fresh(doc)
       IN \E r \in {pasteHTML(Pasted(doc, block), sel, <<n, n + 1>>)} :
             IF r.failed THEN Uncommitted(AnyCaret(r.doc))
             ELSE Commit({Result(r.doc, createFromNodeAfter(r.doc, n + 1))})

\* insertTable: the table goes in the place of the selection.  Where the caret
\* is then is the browser's matter.
InsertTable ==
    /\ Ready
    /\ last' = "InsertTable"
    /\ \E del \in {deleteContents(doc, sel)} : \E t \in {createTable(del.doc, 1, 1)} :
          Commit(AnyCaret(insertNode(t.doc, del.rng, t.node)))

\* insertHorizontalRule: no beforeCommand, no afterCommand.  The divider is a
\* DIV; the caret again the browser's matter.
InsertHorizontalRule ==
    /\ Ready
    /\ last' = "InsertHorizontalRule"
    /\ Uncommitted(AnyCaret(insertNode(create(doc, "DIV"), sel, Fresh(doc))))

\* fontSize: spans around the selected texts; for a caret a bogus span with a
\* zero-width character, not recorded.
FontSize ==
    /\ Ready
    /\ last' = "FontSize"
    /\ \E spans \in {styleNodes(doc, sel, "SPAN", FALSE, FALSE)} :
          LET span == Head(spans.found)
              zero == Fresh(spans.doc)
              d == appendChild(createText(spans.doc, <<"0">>), span, zero)
          IN IF isCollapsed(sel)
             THEN UncommittedWith({Result(d, Caret(Point(zero, 1)))}, span)
             ELSE Commit({Result(spans.doc, splitText(doc, sel).rng)})

\* removeBogus, on keyup and mouseup: the zero-width character of the bogus span
\* goes, and the span with it if that left it empty.  A span without a text of
\* its own ends it with an exception.
KeyUp ==
    /\ last' = "KeyUp"
    /\ bogus # Null
    /\ LET texts == SelectSeq(doc.kids[bogus], LAMBDA n : n \in Texts(doc))
           t == Head(texts)
           found == "0" \in Range(doc.text[t])
           zero == PlaceIn(doc.text[t], "0")
           d == IF found THEN [doc EXCEPT !.text[t] = RemoveAt(@, zero)] ELSE doc
           gone == isEmpty(d, bogus)
           Moved(pt) ==
               IF gone /\ pt.node \in Range(DepthFirst(doc, bogus))
               THEN Point(Parent(doc, bogus), position(doc, bogus) + Len(doc.kids[bogus]))
               ELSE IF found /\ pt.node = t /\ pt.offset >= zero
               THEN Point(t, pt.offset - 1) ELSE pt
       IN /\ texts # <<>>
          /\ UncommittedWith({Result(IF gone THEN remove(d, bogus, FALSE) ELSE d,
                                     RangeOf(Moved(sel.s), Moved(sel.e)))}, Null)

\* lineHeight, floatMe, imageShape, imageClass, resize: a change of style alone.
Restyle == Ready /\ last' = "Restyle" /\ Commit({Result(doc, sel)})

\* createLink with the range getLinkInfo kept for the dialog, widened to the link
\* it is in: the selected texts, or a new text in their place.  Without a text to
\* select, or with neighbours styleNodes cannot join, an exception ends it before
\* it is recorded.
CreateLink(changed) ==
    /\ Ready
    /\ last' = "CreateLink"
    /\ LET rng == expand(doc, sel, Anchors(doc))
           a == Fresh(doc)
           new == appendChild(createText(create(doc, "A"), <<"t">>), a, a + 1)
       IN \E link \in {IF changed
                        THEN Styled(insertNode(new, rng, a), <<a>>)
                        ELSE styleNodes(doc, rng, "A", TRUE, TRUE)} :
             IF link.failed \/ link.found = <<>> THEN Uncommitted(AnyCaret(link.doc))
             ELSE Commit({Result(link.doc,
                                 RangeOf(createFromNode(link.doc, Head(link.found)).s,
                                         createFromNode(link.doc, Last(link.found)).e))})

\* unlink: the browser dissolves the link both ends of the selection are in.
Unlink ==
    /\ Ready
    /\ last' = "Unlink"
    /\ isOn(doc, sel, Anchors(doc))
    /\ LET a == ancestor(doc, sel.s.node, Anchors(doc))
           at == position(doc, a)
       IN Commit({Result(remove(doc, a, FALSE),
                         RangeOf(Point(Parent(doc, a), at),
                                 Point(Parent(doc, a), at + Len(doc.kids[a]))))})

\* removeMedia: the image the pointer chose is detached; the selection moves
\* with its surroundings.
RemoveMedia ==
    /\ Ready
    /\ last' = "RemoveMedia"
    /\ \E img \in Attached(doc) \cap Named(doc, {"IMG"}) :
          LET After(pt) == IF pt.node = Parent(doc, img) /\ pt.offset > position(doc, img)
                           THEN [pt EXCEPT !.offset = @ - 1] ELSE pt
          IN Commit({Result(remove(doc, img, TRUE), RangeOf(After(sel.s), After(sel.e)))})

\* Ctrl+Z and Ctrl+Y.
Undo ==
    /\ last' = "Undo"
    /\ History!undo
    /\ applySnapshot(stack[stackOffset])
    /\ unrecorded' = FALSE
    /\ UNCHANGED budget
Redo ==
    /\ last' = "Redo"
    /\ History!redo
    /\ applySnapshot(stack[stackOffset + 2])
    /\ unrecorded' = FALSE
    /\ UNCHANGED budget

ListCommand == \/ \E name \in {"UL", "OL"} : InsertList(name)
               \/ Indent
               \/ Outdent
InsertCommand == \/ InsertImage
                 \/ InsertText
                 \/ \E block \in BOOLEAN : PasteHTML(block)
                 \/ InsertTable
                 \/ InsertHorizontalRule
NoteNext ==
    \/ Select
    \/ InsertParagraph
    \/ ListCommand
    \/ TabKey
    \/ UntabKey
    \/ InsertCommand
    \/ FontSize
    \/ KeyUp
    \/ Restyle
    \/ \E changed \in BOOLEAN : CreateLink(changed)
    \/ Unlink
    \/ RemoveMedia
    \/ Undo
    \/ Redo

NoteSpec == NoteInit /\ [][NoteNext]_noteVars

------------------------------------------------------------------------------
(* Properties.                                                             *)

\* The document is a tree below the editable, numbered with parents before their
\* children, and the selection is in it: what every command relies on (dom,
\* WrappedRange.select).
IsTree(d) ==
    /\ IsFiniteSet(Nodes(d)) /\ Nodes(d) = 0 .. Cardinality(Nodes(d)) - 1
    /\ d \in [tag : [Nodes(d) -> STRING], up : [Nodes(d) -> Nodes(d) \cup {Null}],
              kids : [Nodes(d) -> Seq(Nodes(d))], text : [Nodes(d) -> Seq(STRING)],
              margin : [Nodes(d) -> Nat]]
    /\ Editable \in Nodes(d) /\ d.up[Editable] = Null
    /\ \A n \in Nodes(d) \ {Editable} :
          d.up[n] \in 0 .. n - 1 /\ ChildAt(d, d.up[n], position(d, n)) = n
    /\ \A n \in Nodes(d) : \A i \in DOMAIN d.kids[n] :
          d.up[d.kids[n][i]] = n /\ position(d, d.kids[n][i]) = i - 1
    /\ \A n \in Texts(d) : d.kids[n] = <<>>

NoteTypeOK ==
    /\ IsTree(doc)
    /\ Attached(doc) = Nodes(doc)
    /\ sel \in [s : Points(doc), e : Points(doc)]
    /\ sel # NoRange => IsRange(doc, sel)
    /\ bogus \in Nodes(doc) \cup {Null}
    /\ stackOffset \in 0 .. Len(stack) - 1

\* What the editor shows is the snapshot undo starts from, unless a command
\* that records nothing ran since: an undo never skips a recorded change
\* (beforeCommand, afterCommand, History).
HistoryIsCurrent == unrecorded \/ stack[stackOffset + 1].contents = html(doc)

\* A selection saved as paths below the editable and read back is the same
\* selection (bookmark, makeOffsetPath, fromOffsetPath).
BookmarkFindsSelection ==
    sel # NoRange => createFromBookmark(doc, bookmark(doc, sel)) = sel

\* Both: what undo starts from is what the editor shows, and a selection survives
\* the way into a snapshot and back.
SnapshotIsCurrent == HistoryIsCurrent /\ BookmarkFindsSelection

\* The word before the caret reaches back to a blank or to the start of its text,
\* and holds no blank (getWordRange, prevPointUntil, isCharPoint).
Between(d, rng) == SubSeq(d.text[rng.s.node], rng.s.offset + 1, rng.e.offset)
WordBeforeCaret ==
    \A n \in Texts(doc) : \A i \in 0 .. nodeLength(doc, n) :
        LET word == getWordRange(doc, Caret(Point(n, i))) IN
        /\ word.s.node = n
        /\ " " \notin Range(Between(doc, word))
        /\ word.s.offset > 0 => doc.text[n][word.s.offset] = " "

\* What is pasted at a caret behind a character of a text stands there as one
\* piece, in the order of the clipboard (pasteHTML, insertNode, splitPoint).  At
\* the left edge of a text the order is turned round.
PasteInOrder ==
    /\ last' = "PasteHTML" /\ isCollapsed(sel)
    /\ sel.s.node \in Texts(doc) /\ sel.s.offset > 0
    => \E j \in 0 .. Len(TextOf(doc)) :
           TextOf(doc') = SubSeq(TextOf(doc), 1, j) \o <<"x", "y">>
                          \o SubSeq(TextOf(doc), j + 1, Len(TextOf(doc)))

\* A command given at a caret leaves a caret or a selection, never none: the next
\* command finds a range (every command but outdent, which may select an item it
\* has replaced).
SelectionKept == [][isCollapsed(sel) /\ sel # NoRange /\ last' # "Outdent" => sel' # NoRange]_noteVars

\* The text the editor was opened with: what commands insert is other characters.
IsOriginal(c) == c \in {"a", "b"}
Original(d) == SelectSeq(TextOf(d), IsOriginal)

\* A command given at a caret, and a list or style command given for any
\* selection, moves nodes about but neither loses nor reorders the text.  But the
\* text of a link is replaced by the one the dialog asks for, and to toggle a list
\* off puts what a list in an item holds behind the rest of the item (releaseList
\* takes the items out of the list one by one).
ListInItem(d) == \E l \in Lists(d) : Parent(d, l) \in Lis(d)
ListCommands == {"List", "Indent", "Outdent"}
StyleCommands == {"FontSize", "KeyUp", "Restyle", "Unlink"}
Histories == {"Undo", "Redo"}
CaretKeepsText ==
    /\ isCollapsed(sel) \/ last' \in ListCommands \cup StyleCommands
    /\ last' \notin Histories
    /\ last' = "CreateLink" => ~isOn(doc, sel, Anchors(doc))
    /\ last' = "List" => ~ListInItem(doc)
    => Original(doc') = Original(doc)

\* Lists hold items and lists alone, and items are in lists, after every such
\* command that found them so (Bullet: wrapList, releaseList).
ListsWellFormed(d) ==
    /\ \A l \in Lists(d) : Range(d.kids[l]) \subseteq Lis(d) \cup Lists(d)
    /\ \A i \in Lis(d) : Parent(d, i) \in Lists(d)
ListsKept ==
    /\ isCollapsed(sel) \/ last' \in ListCommands \cup StyleCommands \cup {"CreateLink"}
    /\ last' \notin Histories
    /\ ListsWellFormed(doc)
    => ListsWellFormed(doc')

\* Where blocks stand beside blocks alone and in no paragraph or item, no command
\* but a paste puts a block into a P, where the markup that is saved would be read
\* back as another document (splitPoint, wrapList).  Elsewhere two of them do:
\* wrapBodyInlineWithPara wraps a block with the text beside it, and releaseList
\* turns an item with a list in it into a P.
BlocksApart(d) ==
    \A b \in Attached(d) \cap Blocks(d) :
        /\ Parent(d, b) \notin Paras(d)
        /\ Range(d.kids[Parent(d, b)]) \subseteq Blocks(d)
StaysSerialisable ==
    /\ BlocksApart(doc) /\ Serialisable(doc)
    /\ last' # "PasteHTML"
    => Serialisable(doc')

\* Both: a command leaves lists as HTML has them, and blocks where they were so.
StructureKept == [][ListsKept /\ StaysSerialisable]_noteVars

\* A command that replaces the selection deletes the selected characters and no
\* other (deleteContents before the insertion); a paste does if the selection is
\* within one text.  A wider one it may not find the end of, when a node it
\* detached held it, and it deletes what follows, too (deleteContents for each
\* node that is pasted).
Selected(d, rng) ==
    LET w == walkPoint(d, rng.s, rng.e, FALSE)
        Passed(i) == IF w[i].node \in Texts(d) /\ w[i - 1].node = w[i].node
                     THEN <<d.text[w[i].node][w[i].offset]>> ELSE <<>>
    IN FlattenSeq([i \in 1 .. Len(w) - 1 |-> Passed(i + 1)])
WithinText(d, rng) == rng.s.node = rng.e.node /\ rng.s.node \in Texts(d)
DeletesSelection ==
    \/ last' \in {"InsertParagraph", "InsertText", "InsertImage", "InsertTable", "Tab"}
    \/ last' = "PasteHTML" /\ WithinText(doc, sel)
    => Len(Original(doc)) = Len(Original(doc'))
                             + Len(SelectSeq(Selected(doc, sel), IsOriginal))

\* The three: but for the exceptions named, a command loses no text but what is
\* selected, and what it inserts comes in order.
TextKept == [][PasteInOrder /\ CaretKeepsText /\ DeletesSelection]_noteVars
=============================================================================
