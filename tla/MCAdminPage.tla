------------------------------ MODULE MCAdminPage ------------------------------
(***************************************************************************)
(* The page of a content item in the admin area, on small instances.  A    *)
(* behaviour follows one of its parts, the focus; the others stay as they  *)
(* start, for they share no state.  Budget, MaxNodes, MaxRecords, Delay,   *)
(* MaxFades, MaxShowings and MaxClicks bound the behaviours.               *)
(***************************************************************************)
EXTENDS NoteEditing, NoteSession, NoteDialogs, NoteGestures, NoteMarkup,
        PageTooltip, PostForm

CONSTANTS wordSpot, caretSpot

VARIABLE focus

Parts == {"editing", "session", "dialogs", "gestures", "markup", "tooltip", "form"}

pageVars == <<noteVars, sessionVars, dialogVars, gestureVars, markupVars, tooltipVars,
              formVars, focus>>

------------------------------------------------------------------------------
(* Documents: the nodes in the order of their numbers, each with its tag   *)
(* and its children, or its text.                                          *)

Doc(ns) ==
    LET Numbers == 0 .. Len(ns) - 1
        Tag(i) == ns[i + 1][1]
        HasText(i) == Tag(i) = "#text"
        Below(i) == IF HasText(i) THEN <<>> ELSE ns[i + 1][2]
    IN [tag |-> [i \in Numbers |-> Tag(i)],
        kids |-> [i \in Numbers |-> Below(i)],
        up |-> [i \in Numbers |->
            IF i = 0 THEN Null
            ELSE CHOOSE p \in Numbers : \E j \in DOMAIN Below(p) : Below(p)[j] = i],
        text |-> [i \in Numbers |-> IF HasText(i) THEN ns[i + 1][2] ELSE <<>>],
        margin |-> [i \in Numbers |-> 0]]

Text(s) == <<"#text", s>>
OnePara == Doc(<< <<"EDITABLE", <<1>>>>, <<"P", <<2>>>>, Text(<<"a">>) >>)
OneItem == Doc(<< <<"EDITABLE", <<1>>>>, <<"UL", <<2>>>>, <<"LI", <<3>>>>, Text(<<"a">>) >>)

SomeDocuments == {
    NoContent, OnePara, OneItem,
    \* two words in the editable itself, and in a paragraph
    Doc(<< <<"EDITABLE", <<1>>>>, Text(<<"a", " ", "b">>) >>),
    Doc(<< <<"EDITABLE", <<1>>>>, <<"P", <<2>>>>, Text(<<"a", "b">>) >>),
    \* two paragraphs
    Doc(<< <<"EDITABLE", <<1, 3>>>>, <<"P", <<2>>>>, Text(<<"a">>),
           <<"P", <<4>>>>, Text(<<"b">>) >>),
    \* two items, an item with a list below it, a list before a paragraph
    Doc(<< <<"EDITABLE", <<1>>>>, <<"UL", <<2, 4>>>>, <<"LI", <<3>>>>, Text(<<"a">>),
           <<"LI", <<5>>>>, Text(<<"b">>) >>),
    Doc(<< <<"EDITABLE", <<1>>>>, <<"UL", <<2, 4>>>>, <<"LI", <<3>>>>, Text(<<"a">>),
           <<"UL", <<5>>>>, <<"LI", <<6>>>>, Text(<<"b">>) >>),
    Doc(<< <<"EDITABLE", <<1, 4>>>>, <<"OL", <<2>>>>, <<"LI", <<3>>>>, Text(<<"a">>),
           <<"P", <<5>>>>, Text(<<"b">>) >>),
    Doc(<< <<"EDITABLE", <<1, 3>>>>, <<"P", <<2>>>>, Text(<<"a">>),
           <<"UL", <<4>>>>, <<"LI", <<5>>>>, Text(<<"b">>) >>),
    \* a link before a text, two links, a row of a table, a quotation
    Doc(<< <<"EDITABLE", <<1>>>>, <<"P", <<2, 4>>>>, <<"A", <<3>>>>, Text(<<"a">>),
           Text(<<"b">>) >>),
    Doc(<< <<"EDITABLE", <<1>>>>, <<"P", <<2, 4>>>>, <<"A", <<3>>>>, Text(<<"a">>),
           <<"A", <<5, 6>>>>, <<"IMG", <<>>>>, Text(<<"b">>) >>),
    Doc(<< <<"EDITABLE", <<1>>>>, <<"TABLE", <<2>>>>, <<"TR", <<3, 5>>>>,
           <<"TD", <<4>>>>, Text(<<"a">>), <<"TD", <<6>>>>, Text(<<"b">>) >>),
    Doc(<< <<"EDITABLE", <<1>>>>, <<"BLOCKQUOTE", <<2, 4>>>>, <<"P", <<3>>>>, Text(<<"a">>),
           <<"P", <<5>>>>, Text(<<"b">>) >>),
    \* a list in an item, behind its text, before it and alone, a text before a
    \* paragraph
    Doc(<< <<"EDITABLE", <<1>>>>, <<"UL", <<2>>>>, <<"LI", <<3, 4>>>>, Text(<<"a">>),
           <<"UL", <<5>>>>, <<"LI", <<6>>>>, Text(<<"b">>) >>),
    Doc(<< <<"EDITABLE", <<1>>>>, <<"UL", <<2>>>>, <<"LI", <<3, 6>>>>, <<"UL", <<4>>>>,
           <<"LI", <<5>>>>, Text(<<"a">>), Text(<<"b">>) >>),
    Doc(<< <<"EDITABLE", <<1>>>>, <<"UL", <<2>>>>, <<"LI", <<3>>>>, <<"UL", <<4>>>>,
           <<"LI", <<5>>>>, Text(<<"a">>) >>),
    Doc(<< <<"EDITABLE", <<1, 2>>>>, Text(<<"a">>), <<"P", <<3>>>>, Text(<<"b">>) >>) }

\* Two commands, so that undo and redo have a past, where documents are smallest.
SmallBudget(d) == IF d \in {NoContent, OneItem} THEN 2 ELSE 1

------------------------------------------------------------------------------
(* The other parts.                                                        *)

\* A paragraph with a typographic quotation mark, without it an empty one.
PlainPieces == [p \in Pieces |-> IF p = "quote" THEN "para" ELSE p]

Words == [s \in Spots |-> IF s = caretSpot THEN "" ELSE "w"]

\* Tags, one of them with ">" in an attribute, texts and blanks.
Pieced == {<<"<", "t", ">">>, <<"<", "t", ">", " ", "t", ">">>, <<"t">>, <<" ">>}
SmallMarkups == {FlattenSeq(ps) : ps \in UNION {[1 .. n -> Pieced] : n \in 0 .. 4}}

PageInit ==
    /\ focus \in Parts
    /\ NoteInit /\ (focus # "editing" => doc = NoContent)
    /\ SessionInit /\ (focus # "session" => hidden = Blank)
    /\ DialogInit /\ (focus # "dialogs" => selected = caretSpot)
    /\ MarkupInit /\ (focus # "markup" => markup = <<"t">>)
    /\ PostFormInit /\ (focus # "form" => published = 0 /\ ~pendingTab)
    /\ GestureInit /\ (focus # "gestures" => sized = Editors)
    /\ TooltipInit

PageNext ==
    /\ UNCHANGED focus
    /\ \/ /\ focus = "editing" /\ NoteNext
          /\ UNCHANGED <<sessionVars, dialogVars, gestureVars, markupVars, tooltipVars, formVars>>
       \/ /\ focus = "session" /\ SessionNext
          /\ UNCHANGED <<noteVars, dialogVars, gestureVars, markupVars, tooltipVars, formVars>>
       \/ /\ focus = "dialogs" /\ DialogNext
          /\ UNCHANGED <<noteVars, sessionVars, gestureVars, markupVars, tooltipVars, formVars>>
       \/ /\ focus = "gestures" /\ GestureNext
          /\ UNCHANGED <<noteVars, sessionVars, dialogVars, markupVars, tooltipVars, formVars>>
       \/ /\ focus = "markup" /\ MarkupNext
          /\ UNCHANGED <<noteVars, sessionVars, dialogVars, gestureVars, tooltipVars, formVars>>
       \/ /\ focus = "tooltip" /\ TooltipNext
          /\ UNCHANGED <<noteVars, sessionVars, dialogVars, gestureVars, markupVars, formVars>>
       \/ /\ focus = "form" /\ PostFormNext
          /\ UNCHANGED <<noteVars, sessionVars, dialogVars, gestureVars, markupVars, tooltipVars>>

\* The layout of the code view runs to its end, and timers and fades do.
PageFairness ==
    /\ WF_markupVars(focus = "markup" /\ MarkupNext)
    /\ \A b \in Buttons :
          /\ WF_tooltipVars(focus = "tooltip" /\ Tick(b))
          /\ WF_tooltipVars(focus = "tooltip" /\ FadeEnd(b))

PageSpec == PageInit /\ [][PageNext]_pageVars /\ PageFairness

\* Every variable of the parts has its type; for the editor that is a tree with a
\* selection in it.
PageTypeOK ==
    /\ NoteTypeOK
    /\ SessionTypeOK
    /\ DialogTypeOK
    /\ GestureTypeOK
    /\ MarkupTypeOK
    /\ TooltipTypeOK
    /\ PostFormTypeOK
=============================================================================
