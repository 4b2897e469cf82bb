------------------------------ MODULE NoteMarkup ------------------------------
(***************************************************************************)
(* beautifyHTML (materialNote.js), which lays the markup out for the code  *)
(* view, one tag or text per line.  Markup is a sequence of characters; the*)
(* recursion is a loop.  Indents and empty lines are left out: the level   *)
(* and the tags that close themselves decide about nothing else.           *)
(***************************************************************************)
EXTENDS Integers, SequencesExt

CONSTANT Markups   \* the markups to lay out

Chars == {"<", ">", " ", "t"}   \* "t" stands for every other character

ASSUME MarkupAssumption == Markups \subseteq Seq(Chars)

VARIABLES
    markup,   \* what the code view was opened with
    rest,     \* code: what is still to lay out
    lines,    \* the chunks laid out so far
    returned  \* the outermost call has returned

markupVars == <<markup, rest, lines, returned>>

MarkupInit ==
    /\ markup \in Markups
    /\ rest = markup
    /\ lines = <<>>
    /\ returned = FALSE

------------------------------------------------------------------------------
(* String.prototype: places count from 0, and -1 is none.                  *)

indexOf(s, c) == SelectInSeq(s, LAMBDA x : x = c) - 1
lastIndexOf(s, c) == SelectLastInSeq(s, LAMBDA x : x = c) - 1

\* substring(0, n) and substring(n), which take a negative place for the first.
Upto(s, n) == SubSeq(s, 1, n)
From(s, n) == SubSeq(s, IF n < 0 THEN 1 ELSE n + 1, Len(s))

trim(s) ==
    LET Visible(x) == x # " "
    IN SubSeq(s, IF SelectInSeq(s, Visible) = 0 THEN 1 ELSE SelectInSeq(s, Visible),
              SelectLastInSeq(s, Visible))

------------------------------------------------------------------------------

\* The call ends if nothing is left, else the next one has what is left.
Lay(n) ==
    /\ lines' = IF trim(Upto(rest, n)) = <<>> THEN lines ELSE Append(lines, trim(Upto(rest, n)))
    /\ rest' = trim(From(rest, n))
    /\ returned' = (From(rest, n) = <<>>)
    /\ UNCHANGED markup

\* Mutant: the tag is cut before the character that closes it.
CutShort ==
    /\ ~returned
    /\ indexOf(rest, "<") = 0
    /\ Lay(indexOf(rest, ">"))

LayTag ==
    /\ ~returned
    /\ indexOf(rest, "<") = 0
    /\ Lay(indexOf(rest, ">") + 1)

\* Mutant: the text takes the character that opens the tag with it.
CutLate ==
    /\ ~returned
    /\ indexOf(rest, "<") # 0
    /\ Lay(indexOf(rest, "<") + 1)

\* With no tag left, indexOf gives -1, and nothing is taken off: a call with what
\* this one was given, until the stack is full.
LayText ==
    /\ ~returned
    /\ indexOf(rest, "<") # 0
    /\ Lay(indexOf(rest, "<"))

MarkupNext == LayTag \/ LayText

MarkupFairness == WF_markupVars(MarkupNext)
MarkupSpec == MarkupInit /\ [][MarkupNext]_markupVars /\ MarkupFairness

------------------------------------------------------------------------------
(* Properties.                                                             *)

MarkupTypeOK ==
    /\ markup \in Seq(Chars) /\ rest \in Seq(Chars)
    /\ lines \in Seq(Seq(Chars))
    /\ returned \in BOOLEAN

\* The layout loses, repeats and moves no character but blanks, and no line has
\* more than one tag or text, or less: what the code view writes back is what was
\* in the editor, with blanks between chunks.  A tag is cut, and blanks put into
\* it, only where an attribute has a ">" (beautifyHTML, deactivate).
IsVisible(c) == c # " "
ClosesTag(s, i) ==
    \E j \in 1 .. i - 1 : s[j] = "<" /\ \A k \in j + 1 .. i - 1 : s[k] \notin {"<", ">"}
TagsAreSimple(s) == \A i \in DOMAIN s : s[i] = ">" => ClosesTag(s, i)
IsChunk(s) ==
    \/ {"<", ">"} \cap Range(s) = {}
    \/ indexOf(s, "<") = 0 /\ lastIndexOf(s, "<") = 0 /\ indexOf(s, ">") = Len(s) - 1
LayoutKeepsMarkup ==
    /\ SelectSeq(FlattenSeq(lines) \o rest, IsVisible) = SelectSeq(markup, IsVisible)
    /\ TagsAreSimple(markup) => \A i \in DOMAIN lines : IsChunk(lines[i])

\* The code view opens for every markup that ends in a tag, apart from blanks, if
\* no attribute of it has a ">"; for every other the recursion runs until the stack
\* is full, and the view does not open (beautifyHTML, activate).
EndsInTag(s) ==
    LET tail == From(s, lastIndexOf(s, "<"))
    IN trim(From(tail, indexOf(tail, ">") + 1)) = <<>>
LayoutEnds == EndsInTag(markup) ~> returned
=============================================================================
