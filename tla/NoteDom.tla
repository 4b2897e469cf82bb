------------------------------- MODULE NoteDom -------------------------------
(***************************************************************************)
(* The document of the rich-text editor that editor.Richtext puts on an    *)
(* admin page, and the helpers "list" and "dom" its commands are built     *)
(* from (materialNote.js).  A document is a value: nodes are numbers, tag, *)
(* up, kids, text and margin give each node's name, parent, children,      *)
(* characters and left margin (in steps of 25px).  Node 0 is the editable  *)
(* element.  A removed node stays in the document, detached, as it stays   *)
(* in memory for the script.  A predicate on nodes is the set of nodes     *)
(* that satisfy it.  An operator that changes the document returns it with *)
(* the result.                                                             *)
(***************************************************************************)
EXTENDS Integers, Sequences, FiniteSets, TLC, SequencesExt, Functions

Null == -1
Editable == 0

Nodes(d) == DOMAIN d.tag
Named(d, names) == {n \in Nodes(d) : d.tag[n] \in names}

------------------------------------------------------------------------------
(* What a node is, by its name.  Names a property does not tell apart are  *)
(* left out: one heading stands for all, an image for other inline media.  *)

Texts(d) == Named(d, {"#text"})
IsText(d, n) == d.tag[n] = "#text"
Voids(d) == Named(d, {"BR", "IMG", "HR"})
Paras(d) == Named(d, {"DIV", "P", "LI", "H1"})
Lis(d) == Named(d, {"LI"})
PureParas(d) == Paras(d) \ Lis(d)
Lists(d) == Named(d, {"UL", "OL"})
Tables(d) == Named(d, {"TABLE"})
\* The names that start with TD or TH: a table's head counts as a cell.
Cells(d) == Named(d, {"TD", "TH", "THEAD"})
Anchors(d) == Named(d, {"A"})
Blockquotes(d) == Named(d, {"BLOCKQUOTE"})
BodyContainers(d) == Cells(d) \cup Blockquotes(d) \cup {Editable}

\* Mutant: tables are taken for inline content.
InlineTables(d) == Nodes(d) \ (BodyContainers(d) \cup Lists(d) \cup Paras(d))

\* Everything else is inline: a table's rows and sections, and rulers, too.
Inlines(d) ==
    Nodes(d) \ (BodyContainers(d) \cup Lists(d) \cup Paras(d) \cup Tables(d))

------------------------------------------------------------------------------
(* The tree around a node.                                                 *)

Kids(d, n) == d.kids[n]

Parent(d, n) == d.up[n]

\* A point: a node and an offset among its children or characters.
Point(n, i) == [node |-> n, offset |-> i]
NoPoint == Point(Null, 0)
BoundaryPoints(d) == [node : Nodes(d), offset : Nat]
Points(d) == BoundaryPoints(d) \cup {NoPoint}
EndOf(d, n) == Point(n, Len(d.kids[n]))

ItemAt(s, i) == IF i \in DOMAIN s THEN s[i] ELSE Null
PlaceIn(s, x) == CHOOSE i \in DOMAIN s : s[i] = x

position(d, n) ==
    IF Parent(d, n) = Null THEN 0 ELSE PlaceIn(d.kids[Parent(d, n)], n) - 1

ChildAt(d, n, offset) == ItemAt(d.kids[n], offset + 1)

Sibling(d, n, step) ==
    IF n = Null \/ Parent(d, n) = Null THEN Null
    ELSE ChildAt(d, Parent(d, n), position(d, n) + step)
NextSibling(d, n) == Sibling(d, n, 1)
PreviousSibling(d, n) == Sibling(d, n, -1)

nodeLength(d, n) ==
    IF IsText(d, n) THEN Len(d.text[n]) ELSE Len(d.kids[n])

\* No content, or the line break of blankHTML alone, or empty texts alone.
isEmpty(d, n) ==
    \/ nodeLength(d, n) = 0
    \/ ~IsText(d, n) /\ Len(d.kids[n]) = 1 /\ d.tag[d.kids[n][1]] = "BR"
    \/ /\ ~IsText(d, n)
       /\ \A k \in Range(d.kids[n]) : IsText(d, k) /\ d.text[k] = <<>>

ancestor(d, n, pred) ==
    LET Up[m \in Nodes(d) \cup {Null}] ==
            IF m = Null \/ m \in pred THEN m
            ELSE IF m = Editable THEN Null ELSE Up[Parent(d, m)]
    IN Up[n]

ParaInlines(d) == {n \in Inlines(d) : ancestor(d, n, Paras(d)) # Null}

\* The nearest proper ancestor in pred that every step reaches as an only child.
singleChildAncestor(d, n, pred) ==
    LET Up[m \in Nodes(d) \cup {Null}] ==
            IF m = Null \/ nodeLength(d, m) # 1 THEN Null
            ELSE IF m \in pred THEN m
            ELSE IF m = Editable THEN Null ELSE Up[Parent(d, m)]
    IN Up[Parent(d, n)]

\* From n up to the first node of pred, that one included, never the editable.
listAncestor(d, n, pred) ==
    LET Up[m \in Nodes(d) \cup {Null}] ==
            IF m \in {Null, Editable} THEN <<>>
            ELSE IF m \in pred THEN <<m>>
            ELSE <<m>> \o Up[Parent(d, m)]
    IN Up[n]

lastAncestor(d, n, pred) ==
    LET found == SelectSeq(listAncestor(d, n, {}), LAMBDA m : m \in pred)
    IN ItemAt(found, Len(found))

\* Ancestors never hold the editable, so two nodes of different top-level
\* blocks have no common ancestor.
commonAncestor(d, a, b) ==
    LET Up[m \in Nodes(d) \cup {Null}] ==
            IF m = Null \/ m \in Range(listAncestor(d, a, {})) THEN m
            ELSE Up[Parent(d, m)]
    IN Up[b]

\* n and its siblings on one side, as far as the first node of stop.
Along(d, n, step, stop) ==
    LET From[m \in Nodes(d) \cup {Null}] ==
            IF m = Null \/ m \in stop THEN <<>>
            ELSE <<m>> \o From[Sibling(d, m, step)]
    IN From[n]
listPrev(d, n, stop) == Along(d, n, -1, stop)
listNext(d, n, stop) == Along(d, n, 1, stop)

\* n and what is below it, in document order: the nodes that begin before a point.
DepthFirst(d, n) ==
    LET Before[p \in BoundaryPoints(d)] ==
            IF p.offset \notin DOMAIN Kids(d, p.node) THEN <<p.node>>
            ELSE Before[Point(p.node, p.offset - 1)]
                 \o Before[EndOf(d, Kids(d, p.node)[p.offset])]
    IN Before[EndOf(d, n)]
listDescendant(d, n, pred) ==
    SelectSeq(Tail(DepthFirst(d, n)), LAMBDA m : m \in pred)

Attached(d) == Range(DepthFirst(d, Editable))

withClosestSiblings(d, n, pred) ==
    LET Kept(m) == IF m \in pred THEN <<m>> ELSE <<>>
    IN Kept(PreviousSibling(d, n)) \o <<n>> \o Kept(NextSibling(d, n))

------------------------------------------------------------------------------
(* list: the helpers the standard modules do not have.                     *)

nextItem(s, x) == IF x \in Range(s) THEN ItemAt(s, PlaceIn(s, x) + 1) ELSE Null
prevItem(s, x) == IF x \in Range(s) THEN ItemAt(s, PlaceIn(s, x) - 1) ELSE Null
compact(s) == SelectSeq(s, LAMBDA x : x # Null)
unique(s) ==
    FoldLeft(LAMBDA kept, x : IF x \in Range(kept) THEN kept ELSE Append(kept, x),
             <<>>, s)

\* list.clusterBy with func.peq2('parentNode'): runs of nodes of one parent.
clusterByParent(d, s) ==
    FoldLeft(LAMBDA memo, n :
                IF memo # <<>> /\ Parent(d, Last(Last(memo))) = Parent(d, n)
                THEN Append(Front(memo), Append(Last(memo), n))
                ELSE Append(memo, <<n>>),
             <<>>, s)

------------------------------------------------------------------------------
(* Changes of the tree.                                                    *)

\* create, createText: a new detached node, always the greatest number.
Fresh(d) == Cardinality(Nodes(d))
NewNode(d, name, chars, margin) ==
    LET n == Fresh(d) IN
    [tag |-> d.tag @@ (n :> name),
     up |-> d.up @@ (n :> Null),
     kids |-> d.kids @@ (n :> <<>>),
     text |-> d.text @@ (n :> chars),
     margin |-> d.margin @@ (n :> margin)]
create(d, name) == NewNode(d, name, <<>>, 0)
createText(d, chars) == NewNode(d, "#text", chars, 0)
cloneNode(d, n) == NewNode(d, d.tag[n], <<>>, d.margin[n])

Detach(d, n) ==
    IF d.up[n] = Null THEN d
    ELSE [d EXCEPT !.kids[d.up[n]] = SelectSeq(@, LAMBDA k : k # n), !.up[n] = Null]

\* n as the child at an offset of p.
Attach(d, n, p, offset) ==
    [d EXCEPT !.kids[p] = InsertAt(@, offset + 1, n), !.up[n] = p]

appendChild(d, p, n) ==
    LET e == Detach(d, n) IN Attach(e, n, p, Len(e.kids[p]))
appendChildNodes(d, p, ns) ==
    FoldLeft(LAMBDA e, n : appendChild(e, p, n), d, ns)

\* insertBefore(n, m), for m a child of its parent.
insertBefore(d, n, m) ==
    LET e == Detach(d, n) IN Attach(e, n, Parent(e, m), position(e, m))
insertAfter(d, n, m) ==
    LET e == Detach(d, n) IN Attach(e, n, Parent(e, m), position(e, m) + 1)

\* remove: the node alone, its children take its place, unless withKids.
remove(d, n, withKids) ==
    IF n = Null \/ Parent(d, n) = Null THEN d
    ELSE IF withKids THEN Detach(d, n)
    ELSE Detach(FoldLeft(LAMBDA e, k : insertBefore(e, k, n), d, d.kids[n]), n)
removeAll(d, ns, withKids) ==
    FoldLeft(LAMBDA e, n : remove(e, n, withKids), d, ns)

wrap(d, n, name) ==
    LET w == Fresh(d) IN
    [doc |-> appendChild(insertBefore(create(d, name), w, n), w, n), node |-> w]

\* replace: a node of another name with the children and the style of n.
replace(d, n, name) ==
    IF d.tag[n] = name THEN [doc |-> d, node |-> n]
    ELSE LET m == Fresh(d)
             e == appendChildNodes(NewNode(d, name, <<>>, d.margin[n]), m, d.kids[n])
         IN [doc |-> remove(insertAfter(e, m, n), n, FALSE), node |-> m]

paddingBlankHTML(d, n) ==
    IF n \in Voids(d) \/ nodeLength(d, n) # 0 THEN d
    ELSE appendChild(create(d, "BR"), n, Fresh(d))

------------------------------------------------------------------------------
(* Points.                                                                 *)

isLeftEdgePoint(pt) == pt.offset = 0
isRightEdgePoint(d, pt) == pt.offset = nodeLength(d, pt.node)
isEdgePoint(d, pt) == isLeftEdgePoint(pt) \/ isRightEdgePoint(d, pt)

isLeftEdgeOf(d, n, top) ==
    LET Up[m \in Nodes(d) \cup {Null}] ==
            m \in {Null, top} \/ (position(d, m) = 0 /\ Up[Parent(d, m)])
    IN Up[n]

isRightEdgeOf(d, n, top) ==
    LET Up[m \in Nodes(d) \cup {Null}] ==
            m \in {Null, top} \/ /\ position(d, m) = nodeLength(d, Parent(d, m)) - 1
                                 /\ Up[Parent(d, m)]
    IN Up[n]

prevPoint(d, pt, skipInner) ==
    IF pt.offset = 0
    THEN IF pt.node = Editable THEN NoPoint
         ELSE Point(Parent(d, pt.node), position(d, pt.node))
    ELSE IF d.kids[pt.node] # <<>>
    THEN LET n == d.kids[pt.node][pt.offset] IN Point(n, nodeLength(d, n))
    ELSE Point(pt.node, IF skipInner THEN 0 ELSE pt.offset - 1)

nextPoint(d, pt, skipInner) ==
    IF pt.offset = nodeLength(d, pt.node)
    THEN IF pt.node = Editable THEN NoPoint
         ELSE Point(Parent(d, pt.node), position(d, pt.node) + 1)
    ELSE IF d.kids[pt.node] # <<>>
    THEN Point(d.kids[pt.node][pt.offset + 1], 0)
    ELSE Point(pt.node, IF skipInner THEN nodeLength(d, pt.node) ELSE pt.offset + 1)

\* A caret can stand in a text, in a node without children or content, and
\* between void nodes.
isVisiblePoint(d, pt) ==
    \/ IsText(d, pt.node)
    \/ d.kids[pt.node] = <<>>
    \/ isEmpty(d, pt.node)
    \/ \A i \in {pt.offset - 1, pt.offset} :
          ChildAt(d, pt.node, i) \in Voids(d) \cup {Null}

\* prevPointUntil and nextPointUntil, for the predicate isVisiblePoint and
\* for "outside a set of nodes".
UntilVisible(d, pt, forward) ==
    LET From[p \in Points(d)] ==
            IF p = NoPoint \/ isVisiblePoint(d, p) THEN p
            ELSE From[IF forward THEN nextPoint(d, p, FALSE) ELSE prevPoint(d, p, FALSE)]
    IN From[pt]

prevPointOutside(d, pt, nodes) ==
    LET From[p \in Points(d)] ==
            IF p = NoPoint \/ p.node \notin nodes THEN p ELSE From[prevPoint(d, p, FALSE)]
    IN From[pt]

\* Mutant: the character behind the point is looked at.
IsCharBehind(d, pt) ==
    /\ IsText(d, pt.node)
    /\ pt.offset + 1 \in DOMAIN d.text[pt.node]
    /\ d.text[pt.node][pt.offset + 1] # " "

\* isCharPoint: the character before the point is no blank.
isCharPoint(d, pt) ==
    /\ IsText(d, pt.node)
    /\ pt.offset \in DOMAIN d.text[pt.node]
    /\ d.text[pt.node][pt.offset] # " "

UntilNoChar(d, pt) ==
    LET From[p \in Points(d)] ==
            IF p = NoPoint \/ ~isCharPoint(d, p) THEN p ELSE From[prevPoint(d, p, FALSE)]
    IN From[pt]

\* walkPoint: the points its handler is called for, from start to end, or to
\* the end of the document if end is not reached.
walkPoint(d, start, end, skipInner) ==
    LET Next(p) == nextPoint(d, p, skipInner /\ p.node \notin {start.node, end.node})
        From[p \in Points(d)] ==
            IF p = NoPoint THEN <<>>
            ELSE IF p = end THEN <<p>> ELSE <<p>> \o From[Next(p)]
    IN From[start]

\* All points of the document in order.
AllPoints(d) ==
    walkPoint(d, Point(Editable, 0), Point(Editable, nodeLength(d, Editable)), FALSE)

\* Mutant: the path leads from the node up.
PathUpwards(d, top, n) ==
    LET up == listAncestor(d, n, {top}) IN [i \in DOMAIN up |-> position(d, up[i])]

makeOffsetPath(d, top, n) ==
    LET up == listAncestor(d, n, {top})
    IN Reverse([i \in DOMAIN up |-> position(d, up[i])])

\* Past the last child, the last child; below a leaf there is nothing.
fromOffsetPath(d, top, path) ==
    LET Below(n, i) == IF n = Null \/ d.kids[n] = <<>> THEN Null
                       ELSE IF Len(d.kids[n]) <= i THEN Last(d.kids[n])
                       ELSE d.kids[n][i + 1]
        Reached[j \in 0 .. Len(path)] == IF j = 0 THEN top ELSE Below(Reached[j - 1], path[j])
    IN Reached[Len(path)]

------------------------------------------------------------------------------
(* Splitting.  An option is in the set opts when the caller sets it.       *)

SplitText(d, n, i) ==
    LET m == Fresh(d)
        Placed(e) == IF Parent(d, n) = Null THEN e ELSE insertAfter(e, m, n)
        e == createText(d, SubSeq(d.text[n], i + 1, Len(d.text[n])))
    IN [doc |-> Placed([e EXCEPT !.text[n] = SubSeq(@, 1, i)]), node |-> m]

splitNode(d, pt, opts) ==
    IF /\ isEdgePoint(d, pt)
       /\ IsText(d, pt.node) \/ "isNotSplitEdgePoint" \in opts
    THEN [doc |-> d,
          node |-> IF isLeftEdgePoint(pt) THEN pt.node ELSE NextSibling(d, pt.node)]
    ELSE IF IsText(d, pt.node) THEN SplitText(d, pt.node, pt.offset)
    ELSE LET clone == Fresh(d)
             Padded(e) == IF "isSkipPaddingBlankHTML" \in opts THEN e
                          ELSE paddingBlankHTML(paddingBlankHTML(e, pt.node), clone)
         IN [doc |-> Padded(appendChildNodes(
                        insertAfter(cloneNode(d, pt.node), clone, pt.node), clone,
                        listNext(d, ChildAt(d, pt.node, pt.offset), {}))),
             node |-> clone]

\* splitTree: split at the point, then each ancestor up to root before the
\* right half (after its last child when there is no right half).
splitTree(d, root, pt, opts) ==
    LET up == listAncestor(d, pt.node, {root})
        Above(split, parent) ==
            Point(parent, IF split.node = Null THEN nodeLength(split.doc, parent)
                                               ELSE position(split.doc, split.node))
    IN IF up = <<>> THEN [doc |-> d, node |-> Null]
       ELSE FoldLeft(LAMBDA split, parent :
                        splitNode(split.doc, Above(split, parent), opts),
                     splitNode(d, pt, opts), Tail(up))

\* splitPoint: inline content splits up to a child of the paragraph, a block
\* up to a child of the body container.
splitPoint(d, pt, inline) ==
    LET pred == IF inline THEN Paras(d) ELSE BodyContainers(d)
        up == listAncestor(d, pt.node, pred)
        top == IF up = <<>> THEN pt.node ELSE Last(up)
        splitRoot == IF top \in pred THEN ItemAt(up, Len(up) - 1) ELSE top
        opts == IF inline THEN {"isSkipPaddingBlankHTML", "isNotSplitEdgePoint"}
                          ELSE {}
        Place(split, container) ==
            [doc |-> split.doc,
             rightNode |-> IF split.node = Null /\ container = pt.node
                           THEN ChildAt(split.doc, pt.node, pt.offset) ELSE split.node,
             container |-> container]
    IN Place(IF splitRoot = Null THEN [doc |-> d, node |-> Null]
             ELSE splitTree(d, splitRoot, pt, opts),
             IF top \in pred THEN top ELSE Parent(d, top))

------------------------------------------------------------------------------
(* Writing the document out and reading it back, and its text.             *)

\* The attached nodes, numbered in document order, with the range moved along.
Renumber(d) ==
    LET Ordered(order) ==
            LET Old(i) == order[i + 1]
                New(n) == PlaceIn(order, n) - 1
                All == 0 .. Len(order) - 1
            IN [tag |-> [i \in All |-> d.tag[Old(i)]],
                up |-> [i \in All |-> IF i = Editable THEN Null ELSE New(d.up[Old(i)])],
                kids |-> [i \in All |->
                            [j \in DOMAIN d.kids[Old(i)] |-> New(d.kids[Old(i)][j])]],
                text |-> [i \in All |-> d.text[Old(i)]],
                margin |-> [i \in All |-> d.margin[Old(i)]]]
    IN Ordered(DepthFirst(d, Editable))
NewNumber(d, n) ==
    IF n \in Attached(d) THEN PlaceIn(DepthFirst(d, Editable), n) - 1 ELSE Null

\* innerHTML read back: neighbouring texts come back as one, empty ones not.
RunFrom(d, ks, i) ==
    LET Run[j \in Nat] == IF j \notin DOMAIN ks \/ ~IsText(d, ks[j]) THEN <<>>
                          ELSE d.text[ks[j]] \o Run[j + 1]
    IN Run[i]
StartsRun(d, ks, i) ==
    IsText(d, ks[i]) => /\ (i > 1 => ~IsText(d, ks[i - 1]))
                        /\ RunFrom(d, ks, i) # <<>>
KeptKids(d, ks) ==
    LET Kept[i \in 0 .. Len(ks)] ==
            IF i = 0 THEN <<>>
            ELSE IF StartsRun(d, ks, i) THEN Append(Kept[i - 1], ks[i]) ELSE Kept[i - 1]
    IN Kept[Len(ks)]
JoinedText(d, n) ==
    IF ~IsText(d, n) \/ Parent(d, n) = Null THEN d.text[n]
    ELSE RunFrom(d, d.kids[Parent(d, n)], position(d, n) + 1)
html(d) ==
    Renumber([d EXCEPT !.text = [n \in Nodes(d) |-> JoinedText(d, n)],
                       !.kids = [n \in Nodes(d) |-> KeptKids(d, d.kids[n])]])

TextOf(d) ==
    LET order == DepthFirst(d, Editable)
    IN FlattenSeq([i \in DOMAIN order |-> d.text[order[i]]])
=============================================================================
