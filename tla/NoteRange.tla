------------------------------ MODULE NoteRange ------------------------------
(***************************************************************************)
(* range and WrappedRange of the rich-text editor (materialNote.js): a     *)
(* range is two points of a document; its operators find the nodes it      *)
(* covers, delete and insert content, and save a range as paths that       *)
(* survive a rewriting of the document.  document.getSelection() is the    *)
(* caller's; the code for browsers without W3C ranges is left out.         *)
(***************************************************************************)
EXTENDS NoteDom

RangeOf(s, e) == [s |-> s, e |-> e]
Caret(pt) == RangeOf(pt, pt)
isCollapsed(rng) == rng.s = rng.e
collapse(rng, toStart) == Caret(IF toStart THEN rng.s ELSE rng.e)

\* Mutant: forgets that listPrev counts the node itself.
RangePastNode(d, n) ==
    LET before == Len(listPrev(d, n, {})) IN
    IF n \in Voids(d) THEN RangeOf(Point(Parent(d, n), before), Point(Parent(d, n), before + 1))
    ELSE RangeOf(Point(n, 0), Point(n, nodeLength(d, n)))

\* createFromNode: around a node; a void node is addressed in its parent.
createFromNode(d, n) ==
    LET before == Len(listPrev(d, n, {})) IN
    RangeOf(IF n \in Voids(d) THEN Point(Parent(d, n), before - 1) ELSE Point(n, 0),
            IF d.tag[n] = "BR" THEN Point(Parent(d, n), before - 1)
            ELSE IF n \in Voids(d) THEN Point(Parent(d, n), before)
            ELSE Point(n, nodeLength(d, n)))
createFromNodeAfter(d, n) == collapse(createFromNode(d, n), FALSE)

\* normalize: move each end to a point a caret can stand at.
VisiblePoint(d, pt) == UntilVisible(d, pt, isLeftEdgePoint(pt))
normalize(d, rng) == RangeOf(VisiblePoint(d, rng.s), VisiblePoint(d, rng.e))

------------------------------------------------------------------------------
(* nodes: those of pred that the range touches; or, with includeAncestor,  *)
(* the nearest ancestor of pred of each; or, with fullyContains, those the *)
(* walk meets at the left edge and later at the right edge.                *)

Walked(d, rng) ==
    SelectSeq(walkPoint(d, rng.s, rng.e, TRUE), LAMBDA pt : pt.node # Editable)
NodesOf(d, found, pred) ==
    unique(SelectSeq(found, LAMBDA n : n # Null /\ n \in pred))

nodes(d, rng, pred) ==
    LET w == Walked(d, rng) IN NodesOf(d, [i \in DOMAIN w |-> w[i].node], pred)
nodesWithAncestor(d, rng, pred) ==
    LET w == Walked(d, rng)
    IN NodesOf(d, [i \in DOMAIN w |-> ancestor(d, w[i].node, pred)], pred)
\* Mutant: a node left is taken as contained, wherever it was entered.
NodesLeft(d, rng, pred) ==
    LET w == Walked(d, rng)
    IN NodesOf(d, [i \in DOMAIN w |-> IF isRightEdgePoint(d, w[i]) THEN w[i].node ELSE Null],
               pred)

nodesContained(d, rng, pred) ==
    LET w == Walked(d, rng)
        Entered(i) == \E j \in 1 .. i :
                         w[j].node = w[i].node /\ isLeftEdgePoint(w[j])
    IN NodesOf(d, [i \in DOMAIN w |->
                     IF isRightEdgePoint(d, w[i]) /\ Entered(i)
                     THEN w[i].node ELSE Null], pred)

expand(d, rng, pred) ==
    LET a == ancestor(d, rng.s.node, pred)
        b == ancestor(d, rng.e.node, pred)
    IN RangeOf(IF a = Null THEN rng.s ELSE Point(a, 0),
               IF b = Null THEN rng.e ELSE Point(b, nodeLength(d, b)))

isOn(d, rng, pred) ==
    LET a == ancestor(d, rng.s.node, pred)
    IN a # Null /\ a = ancestor(d, rng.e.node, pred)

\* getWordRange(): the word before the end of the range.
getWordRange(d, rng) ==
    IF ~isCharPoint(d, rng.e) THEN rng ELSE RangeOf(UntilNoChar(d, rng.e), rng.e)

------------------------------------------------------------------------------
(* Changes through a range.  Each gives the document and the range after.  *)

\* splitText: both ends leave their text; the end goes first.
splitText(d, rng) ==
    LET inner(e, pt) == IsText(e, pt.node) /\ ~isEdgePoint(e, pt)
        Halved(split) ==
            [doc |-> split.doc,
             rng |-> RangeOf(Point(split.node, 0),
                             IF rng.s.node = rng.e.node
                             THEN Point(split.node, rng.e.offset - rng.s.offset)
                             ELSE rng.e)]
        AtStart(e) == IF inner(e, rng.s)
                      THEN Halved(SplitText(e, rng.s.node, rng.s.offset))
                      ELSE [doc |-> e, rng |-> rng]
    IN AtStart(IF inner(d, rng.e) THEN SplitText(d, rng.e.node, rng.e.offset).doc ELSE d)

\* deleteContents: the nodes the range contains go, their children having gone
\* before them, and then each parent this left empty, unless the caret is in it.
deleteNodes(split, gone) ==
    LET pt == prevPointOutside(split.doc, split.rng.s, Range(gone))
        DropNode(memo, n) ==
            LET p == Parent(memo.doc, n) IN
            [doc |-> remove(memo.doc, n, FALSE),
             emptied |-> IF p # pt.node /\ nodeLength(memo.doc, p) = 1
                         THEN Append(memo.emptied, p) ELSE memo.emptied]
        Left(removed) == removeAll(removed.doc, removed.emptied, FALSE)
        AtPoint(e) == [doc |-> e, rng |-> normalize(e, Caret(pt))]
    IN AtPoint(Left(FoldLeft(DropNode, [doc |-> split.doc, emptied |-> <<>>], gone)))

deleteContained(split) ==
    deleteNodes(split, nodesContained(split.doc, split.rng, Nodes(split.doc)))

deleteContents(d, rng) ==
    IF isCollapsed(rng) THEN [doc |-> d, rng |-> rng] ELSE deleteContained(splitText(d, rng))

\* wrapBodyInlineWithPara: an empty container gets an empty paragraph; inline
\* content outside paragraphs gets one around it and its neighbours.
emptyParaIn(d, n) ==
    LET p == Fresh(d)
        e == appendChild(create(d, "P"), n, p)
    IN appendChild(create(removeAll(e, d.kids[n], TRUE), "BR"), p, Fresh(e))

paraAround(d, ns) ==
    LET Joined(w) == appendChildNodes(w.doc, w.node, Tail(ns))
    IN Joined(wrap(d, Head(ns), "P"))

wrapBodyInlineWithPara(d, rng) ==
    LET sc == rng.s.node
        up == listAncestor(d, sc, Nodes(d) \ Inlines(d))
        top == IF sc \notin Inlines(d)
               THEN ChildAt(d, sc, IF rng.s.offset > 0 THEN rng.s.offset - 1 ELSE 0)
               ELSE IF Last(up) \in Inlines(d) THEN Last(up)
               ELSE ItemAt(up, Len(up) - 1)
        Around(n) == Reverse(listPrev(d, n, ParaInlines(d)))
                     \o listNext(d, NextSibling(d, n), ParaInlines(d))
        Wrapped(ns) == IF sc \in ParaInlines(d) \cup Paras(d) \/ ns = <<>> THEN d
                       ELSE paraAround(d, ns)
        Normal(e) == [doc |-> e, rng |-> normalize(e, rng)]
    IN IF sc \in BodyContainers(d) /\ isEmpty(d, sc)
       THEN [doc |-> emptyParaIn(d, sc), rng |-> Caret(Point(Fresh(d), 0))]
       ELSE Normal(Wrapped(Around(top)))

\* What insertNode and pasteHTML begin with: a paragraph, without the selection.
deleteIn(para) == deleteContents(para.doc, para.rng)
deleteInPara(d, rng) == deleteIn(wrapBodyInlineWithPara(d, rng))

\* insertNode: the detached node n, at the start of the range, in its place.  In
\* an editable that deleteContents left empty, inline content goes behind the
\* editable, out of the document.
splitFor(rest, n) == splitPoint(rest.doc, rest.rng.s, n \in Inlines(rest.doc))
insertNode(d, rng, n) ==
    LET Put(at) == IF at.rightNode # Null THEN insertBefore(at.doc, n, at.rightNode)
                   ELSE IF at.container = Null THEN at.doc
                   ELSE appendChild(at.doc, at.container, n)
    IN Put(splitFor(deleteInPara(d, rng), n))

\* pasteHTML: the pasted nodes, last first, each inserted at the range that was
\* there before the first.  An exception ends it: there is no parent to wrap or
\* walk from once the start was deleted, and splitText refuses an end past the
\* characters that are left.
IsStale(d, rng) ==
    \/ rng.s.node \notin Attached(d)
    \/ rng.e.node \in Texts(d) /\ rng.e.offset > nodeLength(d, rng.e.node)

\* Mutant: the first of the pasted nodes is inserted first.
PasteFirstFirst(d, rng, ns) ==
    FoldLeft(LAMBDA memo, n : [memo EXCEPT !.doc = insertNode(@, rng, n)],
             [doc |-> deleteInPara(d, rng).doc, failed |-> FALSE], ns)

pasteHTML(d, rng, ns) ==
    FoldLeft(LAMBDA memo, n :
                IF memo.failed \/ IsStale(memo.doc, rng)
                THEN [memo EXCEPT !.failed = TRUE]
                ELSE [memo EXCEPT !.doc = insertNode(@, rng, n)],
             [doc |-> deleteInPara(d, rng).doc, failed |-> FALSE], Reverse(ns))

------------------------------------------------------------------------------
(* Bookmarks: a range as paths below the editable, or below the first and  *)
(* the last of some paragraphs.                                            *)

bookmark(d, rng) ==
    [s |-> [path |-> makeOffsetPath(d, Editable, rng.s.node), offset |-> rng.s.offset],
     e |-> [path |-> makeOffsetPath(d, Editable, rng.e.node), offset |-> rng.e.offset]]
emptyBookmark == [s |-> [path |-> <<>>, offset |-> 0],
                  e |-> [path |-> <<>>, offset |-> 0]]
createFromBookmark(d, b) ==
    RangeOf(Point(fromOffsetPath(d, Editable, b.s.path), b.s.offset),
            Point(fromOffsetPath(d, Editable, b.e.path), b.e.offset))

PathBelow(d, top, n) ==
    LET path == makeOffsetPath(d, top, n) IN IF path = <<>> THEN path ELSE Tail(path)
paraBookmark(d, rng, paras) ==
    [s |-> [path |-> PathBelow(d, Head(paras), rng.s.node), offset |-> rng.s.offset],
     e |-> [path |-> PathBelow(d, Last(paras), rng.e.node), offset |-> rng.e.offset]]
createFromParaBookmark(d, b, paras) ==
    RangeOf(Point(fromOffsetPath(d, Head(paras), b.s.path), b.s.offset),
            Point(fromOffsetPath(d, Last(paras), b.e.path), b.e.offset))

\* setStart and setEnd accept the points of the attached nodes.
IsRange(d, rng) ==
    \A pt \in {rng.s, rng.e} :
        pt.node \in Attached(d) /\ pt.offset \in 0 .. nodeLength(d, pt.node)
=============================================================================
