----------------------------- MODULE NoteGestures -----------------------------
(***************************************************************************)
(* What the mouse does to the editors of a page (materialNote.js): drags   *)
(* of a status bar and of the handle of an image, and files dragged over   *)
(* the page.  The editors share the handlers of the document: off takes    *)
(* those of all of them.  Sizes and positions are left out.                *)
(***************************************************************************)
EXTENDS Integers, FiniteSets

CONSTANTS
    Editors,    \* the editors of the page
    Targets,    \* elements that what is dragged gets over
    Outside     \* not over the page

ASSUME GestureAssumption == Outside \notin Targets

Kinds == {"height", "image"}

VARIABLES
    mousemove,  \* handlers of the document's mousemove: <<kind, editor>>
    mouseup,    \* handlers of one mouseup, likewise
    resized,    \* editors with an image resized since it was recorded
    over,       \* the element below what is dragged
    left,       \* the element whose dragleave is due, after a dragenter
    collection, \* per editor, the elements entered and not left
    dragover,   \* editors that show their dropzone
    codeview,   \* editors in code view
    sized       \* editors with a width and a height, which the page gives them

dragVars == <<mousemove, mouseup, resized>>
dropVars == <<over, left, collection, dragover>>
viewVars == <<codeview, sized>>
gestureVars == <<dragVars, dropVars, viewVars>>

GestureInit ==
    /\ mousemove = {} /\ mouseup = {} /\ resized = {}
    /\ over = Outside /\ left = Outside
    /\ collection = [e \in Editors |-> {}]
    /\ dragover = {}
    /\ codeview = {}
    /\ sized \in SUBSET Editors

------------------------------------------------------------------------------

\* hStatusbarMousedown and hHandleMousedown.  A mouseup that the page never saw
\* leaves the handlers of an earlier drag.
MouseDown(kind, e) ==
    /\ kind = "image" => e \notin codeview
    /\ mousemove' = mousemove \cup {<<kind, e>>}
    /\ mouseup' = mouseup \cup {<<kind, e>>}
    /\ UNCHANGED <<resized, dropVars, viewVars>>

\* resizeTo changes the image without a command around it.
MouseMove ==
    /\ resized' = resized \cup {e \in Editors : <<"image", e>> \in mousemove}
    /\ UNCHANGED <<mousemove, mouseup, dropVars, viewVars>>

\* Mutant: the handlers of mousemove stay.
MouseUpWithoutOff ==
    /\ mouseup # {}
    /\ mouseup' = {}
    /\ resized' = resized \ {e \in Editors : <<"image", e>> \in mouseup}
    /\ UNCHANGED <<mousemove, dropVars, viewVars>>

\* off takes every handler of mousemove; a handle records its change.
MouseUp ==
    /\ mouseup # {}
    /\ mousemove' = {}
    /\ mouseup' = {}
    /\ resized' = resized \ {e \in Editors : <<"image", e>> \in mouseup}
    /\ UNCHANGED <<dropVars, viewVars>>

ToggleCodeview(e) ==
    /\ over = Outside /\ left = Outside
    /\ codeview' = (IF e \in codeview THEN codeview \ {e} ELSE codeview \cup {e})
    /\ UNCHANGED <<dragVars, dropVars, sized>>

\* The page lays the editor out with a size, or without one.
ShowOrHide(e) ==
    /\ over = Outside /\ left = Outside
    /\ sized' = (IF e \in sized THEN sized \ {e} ELSE sized \cup {e})
    /\ UNCHANGED <<dragVars, dropVars, codeview>>

------------------------------------------------------------------------------

\* Mutant: the element that was left is taken as entered.
EnterLeft(t) ==
    /\ left = Outside /\ t # over
    /\ left' = over
    /\ over' = t
    /\ dragover' = dragover \cup {e \in sized \ codeview : collection[e] = {}}
    /\ collection' = [e \in Editors |-> collection[e] \cup {over}]
    /\ UNCHANGED <<dragVars, viewVars>>

\* The browser tells the element that is entered before the one that is left.
DragEnter(t) ==
    /\ left = Outside /\ t # over
    /\ left' = over
    /\ over' = t
    /\ dragover' = dragover \cup {e \in sized \ codeview : collection[e] = {}}
    /\ collection' = [e \in Editors |-> collection[e] \cup {t}]
    /\ UNCHANGED <<dragVars, viewVars>>

\* Mutant: the dropzone goes with the first element that is left.
LeaveAtOnce(t) ==
    /\ collection' = [e \in Editors |-> collection[e] \ {t}]
    /\ dragover' = {}

LeaveElement(t) ==
    /\ collection' = [e \in Editors |-> collection[e] \ {t}]
    /\ dragover' = dragover \ {e \in Editors : collection'[e] = {}}

DragLeave ==
    /\ left # Outside
    /\ left' = Outside
    /\ LeaveElement(left)
    /\ UNCHANGED <<over, dragVars, viewVars>>

\* The drag leaves the page or is given up.
DragOut ==
    /\ left = Outside /\ over # Outside
    /\ over' = Outside
    /\ LeaveElement(over)
    /\ UNCHANGED <<left, dragVars, viewVars>>

Drop ==
    /\ left = Outside /\ over # Outside
    /\ over' = Outside
    /\ collection' = [e \in Editors |-> {}]
    /\ dragover' = {}
    /\ UNCHANGED <<left, dragVars, viewVars>>

GestureNext ==
    \/ \E kind \in Kinds, e \in Editors : MouseDown(kind, e)
    \/ MouseMove
    \/ MouseUp
    \/ \E e \in Editors : ToggleCodeview(e) \/ ShowOrHide(e)
    \/ \E t \in Targets : DragEnter(t)
    \/ DragLeave
    \/ DragOut
    \/ Drop

GestureSpec == GestureInit /\ [][GestureNext]_gestureVars

------------------------------------------------------------------------------
(* Properties.                                                             *)

GestureTypeOK ==
    /\ mousemove \in SUBSET (Kinds \X Editors)
    /\ mouseup \in SUBSET (Kinds \X Editors)
    /\ {resized, dragover, codeview, sized} \subseteq SUBSET Editors
    /\ {over, left} \subseteq Targets \cup {Outside}
    /\ collection \in [Editors -> SUBSET Targets]

\* Whatever drags of several editors overlap, the next mouseup records every image
\* resized, and the resizing of none goes on after it (hHandleMousedown).
ResizingGetsRecorded ==
    /\ \A e \in resized : <<"image", e>> \in mouseup
    /\ mousemove \subseteq mouseup

\* The dropzones are displayed while something is dragged over the page, by every
\* editor but those in code view or without a size, and are gone when it is
\* (attachDragAndDropEvent).
DropzoneFollowsDrag ==
    dragover = IF over = Outside THEN {} ELSE sized \ codeview
=============================================================================
