----------------------------- MODULE NoteCommands -----------------------------
(***************************************************************************)
(* What the editing commands of the rich-text editor do to the document:   *)
(* Style, Bullet, Typing and Table (materialNote.js), which are free of    *)
(* state.  Each takes the document and the selection, and gives the        *)
(* document and the range it selects.  A paragraph's left margin is        *)
(* counted in steps of 25px; other CSS is left out.                        *)
(***************************************************************************)
EXTENDS NoteRange

Result(d, rng) == [doc |-> d, rng |-> rng]

\* No selection, or after an exception none the command makes.
NoRange == Caret(NoPoint)

------------------------------------------------------------------------------
(* Style.                                                                  *)

\* styleNodes: an element of the name around each text the range contains,
\* or the parent of that name the text is the only child of; with
\* expandClosestSibling, neighbours of that name (in the range, with
\* onlyPartialContains) become one.  The children of a neighbour are a live
\* list that shrinks as they move: with more than one, every other moves until
\* the list has no next, and the exception ends the command.
Styled(d, found) == [doc |-> d, found |-> found, failed |-> FALSE]

wrapTexts(d, rng, name) ==
    LET texts == nodesContained(d, rng, Texts(d))
        One(memo, t) ==
            LET only == singleChildAncestor(memo.doc, t, Named(memo.doc, {name}))
                new == wrap(memo.doc, t, name)
            IN IF only # Null THEN [memo EXCEPT !.found = Append(@, only)]
               ELSE Styled(new.doc, Append(memo.found, new.node))
    IN FoldLeft(One, Styled(d, <<>>), texts)

joinSiblings(memo, n, pred) ==
    LET siblings == withClosestSiblings(memo.doc, n, pred)
        head == Head(siblings)
        EveryOther(ks) == [i \in 1 .. (Len(ks) + 1) \div 2 |-> ks[2 * i - 1]]
        Join(m, next) ==
            IF m.failed THEN m
            ELSE IF Len(m.doc.kids[next]) > 1
            THEN [m EXCEPT !.doc = appendChildNodes(@, head, EveryOther(@.kids[next])),
                           !.failed = TRUE]
            ELSE [m EXCEPT !.doc = remove(appendChildNodes(@, head, @.kids[next]), next, FALSE)]
    IN FoldLeft(Join, [memo EXCEPT !.found = Append(@, head)], Tail(siblings))

joinNodes(w, rng, name, onlyPartialContains) ==
    LET inRange == IF onlyPartialContains THEN Range(nodes(w.doc, rng, Nodes(w.doc)))
                                          ELSE Nodes(w.doc)
        pred == Named(w.doc, {name}) \cap inRange
    IN FoldLeft(LAMBDA memo, n : IF memo.failed THEN memo ELSE joinSiblings(memo, n, pred),
                Styled(w.doc, <<>>), w.found)

styleSplit(split, name, expandClosestSibling, onlyPartialContains) ==
    LET bogus == Fresh(split.doc) IN
    IF isCollapsed(split.rng)
    THEN Styled(insertNode(create(split.doc, name), split.rng, bogus), <<bogus>>)
    ELSE IF ~expandClosestSibling THEN wrapTexts(split.doc, split.rng, name)
    ELSE joinNodes(wrapTexts(split.doc, split.rng, name), split.rng, name,
                   onlyPartialContains)

styleNodes(d, rng, name, expandClosestSibling, onlyPartialContains) ==
    styleSplit(splitText(d, rng), name, expandClosestSibling, onlyPartialContains)

------------------------------------------------------------------------------
(* Bullet.                                                                 *)

\* Mutant: the condition is turned round.
ReplaceOthers(d, ns, pred, name) ==
    FoldLeft(LAMBDA memo, n :
                LET r == replace(memo.doc, n, name)
                IN IF n \notin pred THEN [doc |-> r.doc, paras |-> Append(memo.paras, r.node)]
                   ELSE [memo EXCEPT !.paras = Append(@, n)],
             [doc |-> d, paras |-> <<>>], ns)

\* wrapList: the paragraphs become items of the list before them, or of a new
\* one; the items of the list after them follow.
replaceAll(d, ns, pred, name) ==
    FoldLeft(LAMBDA memo, n :
                LET r == replace(memo.doc, n, name)
                IN IF n \in pred THEN [doc |-> r.doc, paras |-> Append(memo.paras, r.node)]
                   ELSE [memo EXCEPT !.paras = Append(@, n)],
             [doc |-> d, paras |-> <<>>], ns)

wrapList(d, paras, name) ==
    LET before == PreviousSibling(d, Head(paras))
        after == NextSibling(d, Last(paras))
        prevList == before \in Lists(d)
        listNode == IF prevList THEN before ELSE Fresh(d)
        e == IF prevList THEN d ELSE insertAfter(create(d, name), listNode, Last(paras))
        Followed(f) ==
            IF after \notin Lists(d) THEN f
            ELSE remove(appendChildNodes(f, listNode, f.kids[after]), after, FALSE)
        Listed(lis) == [doc |-> Followed(appendChildNodes(lis.doc, listNode, lis.paras)),
                        paras |-> lis.paras]
    IN Listed(replaceAll(e, paras, PureParas(d), "LI"))

\* Mutant: the lists go whether they are empty or not.
RemoveLists(d, roots) == removeAll(d, roots, TRUE)

\* releaseList, for one run of items: the list splits around them, they leave
\* it (all lists, with isEscapseToBody) and lists left empty go.
removeEmptyLists(d, roots) ==
    FoldLeft(LAMBDA e, r :
                FoldLeft(LAMBDA f, n : IF nodeLength(f, n) = 0
                                       THEN remove(f, n, TRUE) ELSE f,
                         e, Reverse(<<r>> \o listDescendant(e, r, Lists(e)))),
             d, roots)

splitBehind(d, headList, last) ==
    IF nodeLength(d, headList) > 1
    THEN splitTree(d, headList, Point(Parent(d, last), position(d, last) + 1),
                   {"isSkipPaddingBlankHTML"})
    ELSE [doc |-> d, node |-> Null]

splitBefore(tail, headList, head) ==
    LET Three(middle) == [doc |-> middle.doc, lists |-> <<headList, middle.node, tail.node>>]
    IN Three(splitTree(tail.doc, headList,
                       Point(Parent(tail.doc, head), position(tail.doc, head)),
                       {"isSkipPaddingBlankHTML"}))

releaseItems(split, isEscapseToBody) ==
    LET e == split.doc
        headList == split.lists[1]
        middle == split.lists[2]
        items == IF isEscapseToBody THEN listDescendant(e, middle, Lis(e))
                 ELSE SelectSeq(e.kids[middle], LAMBDA n : n \in Lis(e))
        Moved(freed) ==
            [doc |-> removeEmptyLists(FoldLeft(LAMBDA g, n : insertAfter(g, n, headList),
                                               freed.doc, Reverse(freed.paras)),
                                      compact(split.lists)),
             paras |-> freed.paras, failed |-> FALSE]
    IN Moved(IF isEscapseToBody \/ Parent(e, headList) \notin Lists(e)
             THEN replaceAll(e, items, Nodes(e), "P") ELSE [doc |-> e, paras |-> items])

\* Items that an earlier run has replaced are in no list any more: an exception.
Released(d) == [doc |-> d, paras |-> <<>>, failed |-> FALSE]

releaseRun(d, paras, isEscapseToBody) ==
    LET headList == IF isEscapseToBody THEN lastAncestor(d, Head(paras), Lists(d))
                                       ELSE Parent(d, Head(paras))
    IN IF headList = Null THEN [Released(d) EXCEPT !.failed = TRUE]
       ELSE releaseItems(splitBefore(splitBehind(d, headList, Last(paras)), headList, Head(paras)),
                    isEscapseToBody)

releaseList(d, clustereds, isEscapseToBody) ==
    FoldLeft(LAMBDA memo, paras :
                LET r == releaseRun(memo.doc, paras, isEscapseToBody)
                IN IF memo.failed THEN memo ELSE [r EXCEPT !.paras = memo.paras \o @],
             Released(d), clustereds)

\* Mutant: answers with the paragraphs that the items replaced.
WrapListsFormerly(d, clustereds, name) ==
    FoldLeft(LAMBDA memo, paras :
                [doc |-> wrapList(memo.doc, paras, name).doc, paras |-> memo.paras \o paras],
             [doc |-> d, paras |-> <<>>], clustereds)

wrapLists(d, clustereds, name) ==
    FoldLeft(LAMBDA memo, paras :
                LET r == wrapList(memo.doc, paras, name)
                IN [doc |-> r.doc, paras |-> memo.paras \o r.paras],
             [doc |-> d, paras |-> <<>>], clustereds)

toggleParas(body, paras, name) ==
    LET e == body.doc
        clustereds == clusterByParent(e, paras)
        diff == SelectSeq(nodesWithAncestor(e, body.rng, Lists(e)),
                          LAMBDA l : e.tag[l] # name)
        saved == paraBookmark(e, body.rng, paras)
        Selected(r) == Result(r.doc, createFromParaBookmark(r.doc, saved, r.paras))
        Freed(r) == IF r.failed THEN Result(r.doc, NoRange) ELSE Selected(r)
    IN IF Range(paras) \cap PureParas(e) # {} THEN Selected(wrapLists(e, clustereds, name))
       ELSE IF diff # <<>>
       THEN Selected([doc |-> replaceAll(e, diff, Nodes(e), name).doc, paras |-> paras])
       ELSE Freed(releaseList(e, clustereds, TRUE))

ParasIn(body) == nodesWithAncestor(body.doc, body.rng, Paras(body.doc))

toggleBody(body, name) == toggleParas(body, ParasIn(body), name)
toggleList(d, sel, name) == toggleBody(wrapBodyInlineWithPara(d, sel), name)

\* indent and outdent: items one list deeper or shallower, other paragraphs
\* one step of margin.
Margin(d, ns, step) ==
    [d EXCEPT !.margin = [n \in Nodes(d) |->
        IF n \notin Range(ns) THEN @[n]
        ELSE IF step > 0 THEN @[n] + 1
        ELSE IF @[n] > 1 THEN @[n] - 1 ELSE 0]]

indentRun(d, paras) ==
    IF Head(paras) \in Lis(d)
    THEN wrapList(d, paras, d.tag[Parent(d, Head(paras))]).doc
    ELSE Margin(d, paras, 1)
outdentRun(memo, paras) ==
    IF memo.failed THEN memo
    ELSE IF Head(paras) \in Lis(memo.doc) THEN releaseRun(memo.doc, paras, FALSE)
    ELSE Released(Margin(memo.doc, paras, -1))

indent(d, sel) ==
    LET Deeper(body) ==
            Result(FoldLeft(indentRun, body.doc, clusterByParent(body.doc, ParasIn(body))),
                   body.rng)
    IN Deeper(wrapBodyInlineWithPara(d, sel))
outdent(d, sel) ==
    LET Chosen(r, rng) == Result(r.doc, IF r.failed THEN NoRange ELSE rng)
        Shallower(body) ==
            Chosen(FoldLeft(outdentRun, Released(body.doc),
                            clusterByParent(body.doc, ParasIn(body))), body.rng)
    IN Shallower(wrapBodyInlineWithPara(d, sel))

------------------------------------------------------------------------------
(* Typing.                                                                 *)

tabAt(del, tabsize) ==
    LET tab == Fresh(del.doc)
        blanks == createText(del.doc, [i \in 1 .. tabsize |-> " "])
    IN Result(insertNode(blanks, del.rng, tab), Caret(Point(tab, tabsize)))
insertTab(d, sel, tabsize) == tabAt(deleteContents(d, sel), tabsize)

\* insertParagraph: the selection goes, the paragraph splits at the caret, and
\* links this left empty go; an empty list item leaves its list instead.
removeEmptyAnchors(d, n) ==
    removeAll(d, listDescendant(d, n, {a \in Anchors(d) : isEmpty(d, a)}), FALSE)

paragraphAt(body) ==
    LET e == body.doc
        at == body.rng.s
        splitRoot == ancestor(e, at.node, Paras(e))
        next == ChildAt(e, at.node, at.offset)
        p == Fresh(e)
        blank == appendChild(create(create(e, "P"), "BR"), p, p + 1)
        Placed(f) == IF next # Null THEN insertBefore(f, p, next)
                     ELSE appendChild(f, at.node, p)
        Into(f, n) == Result(f, normalize(f, Caret(Point(n, 0))))
        Tidied(split) == Into(removeEmptyAnchors(removeEmptyAnchors(split.doc, splitRoot),
                                                 split.node), split.node)
    IN IF splitRoot = Null THEN Into(Placed(blank), p)
       ELSE IF isEmpty(e, splitRoot) /\ splitRoot \in Lis(e)
       THEN toggleList(e, body.rng, e.tag[Parent(e, splitRoot)])
       ELSE Tidied(splitTree(e, splitRoot, at, {}))

wrapRest(del) == wrapBodyInlineWithPara(del.doc, del.rng)
insertParagraph(d, sel) == paragraphAt(wrapRest(deleteContents(d, sel)))

------------------------------------------------------------------------------
(* Table.                                                                  *)

\* tab: the caret goes to the next or previous cell of the table, if any.
tabInTable(d, sel, isShift) ==
    LET cell == ancestor(d, commonAncestor(d, sel.s.node, sel.e.node), Cells(d))
        cells == listDescendant(d, ancestor(d, cell, Tables(d)), Cells(d))
        nextCell == IF isShift THEN prevItem(cells, cell) ELSE nextItem(cells, cell)
    IN IF nextCell = Null THEN sel ELSE Caret(Point(nextCell, 0))

\* createTable: a row of headers and rows of cells, each with its word.
RowOf(d, row, name, chars, cols) ==
    FoldLeft(LAMBDA e, i :
                LET cell == Fresh(e) IN
                appendChild(createText(appendChild(create(e, name), row, cell), chars),
                            cell, cell + 1),
             d, [i \in 1 .. cols |-> i])
createTable(d, cols, rows) ==
    LET t == Fresh(d)
        names == <<"TABLE", "THEAD", "TBODY">>
        frame == FoldLeft(create, d, names)
        e == appendChildNodes(frame, t, <<t + 1, t + 2>>)
        Row(f, section, name, chars) ==
            RowOf(appendChild(create(f, "TR"), section, Fresh(f)), Fresh(f),
                  name, chars, cols)
    IN [doc |-> FoldLeft(LAMBDA f, i : Row(f, t + 2, "TD", <<"i">>),
                         Row(e, t + 1, "TH", <<"h">>), [i \in 1 .. rows |-> i]),
        node |-> t]
=============================================================================
