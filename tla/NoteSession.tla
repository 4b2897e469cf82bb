------------------------------ MODULE NoteSession ------------------------------
(***************************************************************************)
(* A rich-text field on an admin form, from the page's load to the         *)
(* submission of the form: the script of editor.Richtext (elements.go)     *)
(* with the events, History, Codeview and uploads of materialNote.js.  The *)
(* form sends the hidden input, not what the editor shows; an event of the *)
(* editor copies the one to the other, with typographic characters         *)
(* replaced (util.js).  A content is a set of pieces.                      *)
(***************************************************************************)
EXTENDS Integers, Sequences

CONSTANTS
    Pieces,     \* what a content is made of
    Images,     \* the pieces that uploads bring
    Plain,      \* a piece without the characters that replaceBadChars replaces
    EmptyPara,  \* the piece dom.emptyPara, what an emptied code view leaves
    MaxRecords  \* bound on the snapshots recorded

ASSUME SessionAssumption ==
    /\ Images \subseteq Pieces
    /\ EmptyPara \in Pieces \ Images
    /\ Plain \in [Pieces -> Pieces]
    /\ MaxRecords \in Nat

Contents == SUBSET Pieces
Blank == {}

VARIABLES
    shown,        \* innerHTML of the editable
    hidden,       \* the value of the hidden input
    code,         \* the value of the code view's textarea
    inCode,       \* the code view is active
    records,      \* History: the contents of its snapshots
    offset,       \* History: its stackOffset
    uploads,      \* images the server has not answered for
    unannounced,  \* shown changed and no event was triggered since
    unlogged,     \* shown changed and no snapshot was made or applied since
    submitted     \* the form is gone; what it sent is hidden

sessionVars == <<shown, hidden, code, inCode, records, offset, uploads,
                 unannounced, unlogged, submitted>>

Log == INSTANCE NoteHistory WITH
    Snapshots <- Contents, stack <- records, stackOffset <- offset

Open == ~submitted
Editing == Open /\ ~inCode

replaceBadChars(content) == {Plain[p] : p \in content}

\* Mutant: the event comes before the change.
TriggerTooSoon ==
    /\ hidden' = replaceBadChars(shown)
    /\ unannounced' = FALSE

\* materialnote.change, and the input event of the browser: the hidden input
\* takes the content.
triggerOnChange ==
    /\ hidden' = replaceBadChars(shown')
    /\ unannounced' = FALSE

\* Mutants: a full stack keeps its snapshots and moves its offset all the same;
\* what was undone stays behind the new snapshot.
RecordUnlessFull(content) ==
    /\ offset < MaxRecords
    /\ offset' = offset + 1
    /\ records' = IF Len(records) < MaxRecords
                  THEN Append(SubSeq(records, 1, offset + 1), content) ELSE records
RecordBeforeRest(content) ==
    /\ offset + 1 < MaxRecords
    /\ offset' = offset + 1
    /\ records' = Append(SubSeq(records, 1, offset + 1), content)
                  \o SubSeq(records, offset + 2, Len(records))

Record(content) == offset + 1 < MaxRecords /\ Log!recordUndo(content)

\* The editor is attached to an empty div, whose content is the first snapshot;
\* then code() puts the stored value in.
SessionInit ==
    /\ hidden \in Contents
    /\ shown = hidden
    /\ code = Blank /\ inCode = FALSE
    /\ Log!HistoryInit(Blank)
    /\ uploads = {}
    /\ unannounced = FALSE
    /\ unlogged = (hidden # Blank)
    /\ submitted = FALSE

------------------------------------------------------------------------------

\* Mutant: the snapshot is made before the change.
CommandRecordedFirst ==
    /\ Editing
    /\ shown' \in Contents
    /\ Record(shown)
    /\ triggerOnChange
    /\ unlogged' = FALSE
    /\ UNCHANGED <<code, inCode, uploads, submitted>>

\* A command between beforeCommand and afterCommand, and a native one, whose
\* change the browser announces.
Command ==
    /\ Editing
    /\ shown' \in Contents
    /\ Record(shown')
    /\ triggerOnChange
    /\ unlogged' = FALSE
    /\ UNCHANGED <<code, inCode, uploads, submitted>>

\* insertHorizontalRule, fontSize at a caret, removeBogus, and a pasteHTML that an
\* exception ends: neither recorded nor announced.
SilentChange ==
    /\ Editing
    /\ shown' \in Contents
    /\ unannounced' = TRUE
    /\ unlogged' = TRUE
    /\ UNCHANGED <<hidden, code, inCode, records, offset, uploads, submitted>>

\* A character typed: the browser's input event.
Type ==
    /\ Editing
    /\ shown' \in Contents
    /\ triggerOnChange
    /\ unlogged' = TRUE
    /\ UNCHANGED <<code, inCode, records, offset, uploads, submitted>>

\* Backspace, space and paste: afterCommand first, and then what the browser does.
EditKey ==
    /\ Editing
    /\ Record(shown)
    /\ shown' \in Contents
    /\ triggerOnChange
    /\ unlogged' = TRUE
    /\ UNCHANGED <<code, inCode, uploads, submitted>>

\* undo and redo: the content of the snapshot, and then its selection; where
\* the saved paths do not fit an exception keeps the change from being announced.
\* With nothing to undo, the content is announced nevertheless.
Apply ==
    /\ shown' = records[offset' + 1]
    /\ unlogged' = FALSE
    /\ \/ triggerOnChange
       \/ UNCHANGED hidden /\ unannounced' = TRUE
UndoShown ==
    /\ Editing
    /\ Log!undo
    /\ Apply
    /\ UNCHANGED <<code, inCode, uploads, submitted>>
RedoShown ==
    /\ Editing
    /\ Log!redo
    /\ Apply
    /\ UNCHANGED <<code, inCode, uploads, submitted>>
UndoNothing ==
    /\ Editing
    /\ offset = 0
    /\ UNCHANGED <<shown, code, inCode, records, offset, uploads, unlogged, submitted>>
    /\ triggerOnChange

------------------------------------------------------------------------------

\* codeview: the textarea takes the content, laid out afresh; the edits of the
\* textarea trigger nothing.
Activate ==
    /\ Editing
    /\ code' = shown
    /\ inCode' = TRUE
    /\ UNCHANGED <<shown, hidden, records, offset, uploads, unannounced, unlogged,
                   submitted>>
EditCode ==
    /\ Open /\ inCode
    /\ code' \in Contents
    /\ UNCHANGED <<shown, hidden, inCode, records, offset, uploads, unannounced,
                   unlogged, submitted>>

\* The change is announced when the markup differs, in layout or in content; it
\* is not recorded.
Deactivate ==
    /\ Open /\ inCode
    /\ inCode' = FALSE
    /\ shown' = (IF code = Blank THEN {EmptyPara} ELSE code)
    /\ \/ triggerOnChange
       \/ shown' = shown /\ UNCHANGED <<hidden, unannounced>>
    /\ unlogged' = (unlogged \/ shown' # shown)
    /\ UNCHANGED <<code, records, offset, uploads, submitted>>

\* onImageUpload: one request for the first of the files.
Upload(img) ==
    /\ Editing
    /\ uploads' = uploads \cup {img}
    /\ UNCHANGED <<shown, hidden, code, inCode, records, offset, unannounced,
                   unlogged, submitted>>

\* The answer inserts the image in place of what is selected at that time,
\* recorded and announced like a command, also while the code view is open;
\* then it may land outside the editable, which is not displayed.
UploadAnswer(img) ==
    /\ Open
    /\ img \in uploads
    /\ uploads' = uploads \ {img}
    /\ \/ \E kept \in SUBSET shown : shown' = kept \cup {img}
       \/ inCode /\ shown' = shown
    /\ Record(shown')
    /\ triggerOnChange
    /\ unlogged' = FALSE
    /\ UNCHANGED <<code, inCode, submitted>>

\* A failed request; and an answer that finds no selection to insert at.
UploadError(img) ==
    /\ Open
    /\ img \in uploads
    /\ uploads' = uploads \ {img}
    /\ UNCHANGED <<shown, hidden, code, inCode, records, offset, unannounced,
                   unlogged, submitted>>

\* The form sends the hidden input as it is, code view or not, answers or not.
Submit ==
    /\ Open
    /\ submitted' = TRUE
    /\ UNCHANGED <<shown, hidden, code, inCode, records, offset, uploads,
                   unannounced, unlogged>>

SessionNext ==
    \/ Command
    \/ SilentChange
    \/ Type
    \/ EditKey
    \/ UndoShown
    \/ RedoShown
    \/ UndoNothing
    \/ Activate
    \/ EditCode
    \/ Deactivate
    \/ \E img \in Images : Upload(img) \/ UploadAnswer(img) \/ UploadError(img)
    \/ Submit

SessionSpec == SessionInit /\ [][SessionNext]_sessionVars

------------------------------------------------------------------------------
(* Properties.                                                             *)

SessionTypeOK ==
    /\ shown \in Contents /\ hidden \in Contents /\ code \in Contents
    /\ inCode \in BOOLEAN /\ submitted \in BOOLEAN
    /\ unannounced \in BOOLEAN /\ unlogged \in BOOLEAN
    /\ records \in Seq(Contents) /\ offset \in 0 .. Len(records) - 1
    /\ uploads \in SUBSET Images

\* What the form would send is what the editable holds, but for typographic
\* characters, except after a change no event announces: through typing, commands,
\* code view, late answers of uploads and undo (the handlers of elements.go, the
\* calls of triggerOnChange).
HiddenIsShown == unannounced \/ hidden \in {shown, replaceBadChars(shown)}

\* The content of the editable is the snapshot undo starts from, except after a
\* change that is not recorded (recordUndo in afterCommand, applySnapshot).
ShownIsRecorded == unlogged \/ records[offset + 1] = shown

\* Both: the three copies of a field's content agree.
CopiesAgree == HiddenIsShown /\ ShownIsRecorded

\* Whatever happens to the field, its snapshots are the past and the future of
\* one line of recorded contents (History within the Editor).
SessionKeepsUndoPromise == Log!KeepsUndoPromise
=============================================================================
