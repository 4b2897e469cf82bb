------------------------------- MODULE PageProofs -------------------------------
(***************************************************************************)
(* Proofs about the parts of an item's page in the admin area: tooltips of *)
(* any number of buttons and any delay, drags over any number of editors,  *)
(* any number of showings of the link dialog, markup of any length, items  *)
(* published at any time, and sessions of any length in a field.           *)
(***************************************************************************)
EXTENDS PageTooltip, NoteGestures, NoteDialogs, NoteMarkup, PostForm, NoteSession,
        TLAPS, SequenceTheorems, WellFoundedInduction

------------------------------------------------------------------------------
(* Tooltips.  Only the button below the pointer has a timer, so that the   *)
(* tooltip a tick shows belongs to that button.                            *)

TooltipInv ==
    /\ TooltipTypeOK
    /\ NoTooltipIsLeftBehind
    /\ timers \subseteq {hover}
    /\ timers # {} => counterInterval = hover

LEMMA TooltipStep == TooltipInv /\ [TooltipNext]_tooltipVars => TooltipInv'
<1> SUFFICES ASSUME TooltipInv, [TooltipNext]_tooltipVars PROVE TooltipInv'
  OBVIOUS
<1> USE TooltipAssumption DEF TooltipAssumption, TooltipInv, TooltipTypeOK,
        NoTooltipIsLeftBehind
<1>1. ASSUME NEW b \in Buttons, MouseEnter(b) PROVE TooltipInv'
  BY <1>1 DEF MouseEnter
<1>2. ASSUME NEW b \in Buttons, Tick(b) PROVE TooltipInv'
  <2>1. hover = b /\ hover' = hover /\ UNCHANGED <<timers, counterInterval, fading>>
    BY <1>2 DEF Tick
  <2>2. counter' \in 0 .. Delay
    BY <1>2 DEF Tick
  <2>3. CASE counter' >= Delay /\ ~started
    BY <1>2, <2>1, <2>2, <2>3 DEF Tick
  <2>4. CASE ~(counter' >= Delay /\ ~started)
    BY <1>2, <2>1, <2>2, <2>4 DEF Tick
  <2> QED BY <2>3, <2>4
<1>3. ASSUME NEW b \in Buttons, MouseLeave(b) PROVE TooltipInv'
  <2>1. timers' = {}
    BY <1>3 DEF MouseLeave
  <2>2. fading' \in [Buttons -> 0 .. MaxFades] /\ fading'[b] > 0
    BY <1>3 DEF MouseLeave
  <2>3. NoTooltipIsLeftBehind'
    BY <1>3, <2>2 DEF MouseLeave
  <2> QED BY <1>3, <2>1, <2>2, <2>3 DEF MouseLeave
<1>4. ASSUME NEW b \in Buttons, FadeEnd(b) PROVE TooltipInv'
  <2>1. fading' \in [Buttons -> 0 .. MaxFades]
    BY <1>4 DEF FadeEnd
  <2> QED BY <1>4, <2>1 DEF FadeEnd
<1>5. CASE UNCHANGED tooltipVars
  BY <1>5 DEF tooltipVars
<1> QED BY <1>1, <1>2, <1>3, <1>4, <1>5 DEF TooltipNext

LEMMA TooltipStart == TooltipInit => TooltipInv
<1> SUFFICES ASSUME TooltipInit PROVE TooltipInv
  OBVIOUS
<1> USE TooltipAssumption DEF TooltipAssumption, TooltipInit
<1>1. fading \in [Buttons -> 0 .. MaxFades] /\ counter \in 0 .. Delay
  OBVIOUS
<1>2. TooltipTypeOK
  BY <1>1 DEF TooltipTypeOK
<1> QED BY <1>2 DEF TooltipInv, NoTooltipIsLeftBehind

LEMMA TooltipInvHolds == TooltipSpec => []TooltipInv
  BY TooltipStart, TooltipStep, PTL DEF TooltipSpec

\* Every variable of the tooltips has its type.
THEOREM TooltipTypeCorrect == TooltipSpec => []TooltipTypeOK
  BY TooltipInvHolds, PTL DEF TooltipInv

\* A tooltip is displayed only at the pointer or while it fades, for any number of
\* buttons and any delay (ckTooltip).
THEOREM NoneLeftBehind == TooltipSpec => []NoTooltipIsLeftBehind
  BY TooltipInvHolds, PTL DEF TooltipInv

------------------------------------------------------------------------------
(* Drags.  Each editor has the same collection: what is below the pointer, *)
(* and what has been entered and is about to be left.                      *)

GestureInv ==
    /\ GestureTypeOK
    /\ ResizingGetsRecorded
    /\ DropzoneFollowsDrag
    /\ collection = [e \in Editors |-> {over, left} \ {Outside}]
    /\ left # over \/ left = Outside
    /\ left # Outside => over # Outside

LEMMA GestureStep == GestureInv /\ [GestureNext]_gestureVars => GestureInv'
<1> SUFFICES ASSUME GestureInv, [GestureNext]_gestureVars PROVE GestureInv'
  OBVIOUS
<1> USE GestureAssumption DEF GestureAssumption, GestureInv, GestureTypeOK,
        ResizingGetsRecorded, DropzoneFollowsDrag, dragVars, dropVars, viewVars
<1>1. ASSUME NEW kind \in Kinds, NEW e \in Editors, MouseDown(kind, e)
      PROVE  GestureInv'
  BY <1>1 DEF MouseDown
<1>2. CASE MouseMove
  BY <1>2 DEF MouseMove
<1>3. CASE MouseUp
  BY <1>3 DEF MouseUp
<1>4. ASSUME NEW e \in Editors, ToggleCodeview(e) PROVE GestureInv'
  BY <1>4 DEF ToggleCodeview
<1>10. ASSUME NEW e \in Editors, ShowOrHide(e) PROVE GestureInv'
  BY <1>10 DEF ShowOrHide
<1>5. ASSUME NEW t \in Targets, DragEnter(t) PROVE GestureInv'
  <2>1. collection' = [e \in Editors |-> {over', left'} \ {Outside}]
    BY <1>5 DEF DragEnter
  <2>2. dragover' = sized \ codeview
    BY <1>5 DEF DragEnter
  <2> QED BY <1>5, <2>1, <2>2 DEF DragEnter
<1>6. CASE DragLeave
  <2>1. collection' = [e \in Editors |-> {over', left'} \ {Outside}]
    BY <1>6 DEF DragLeave, LeaveElement
  <2>2. dragover' = dragover
    BY <1>6, <2>1 DEF DragLeave, LeaveElement
  <2> QED BY <1>6, <2>1, <2>2 DEF DragLeave
<1>7. CASE DragOut
  <2>1. collection' = [e \in Editors |-> {over', left'} \ {Outside}]
    BY <1>7 DEF DragOut, LeaveElement
  <2>2. dragover' = {}
    BY <1>7, <2>1 DEF DragOut, LeaveElement
  <2> QED BY <1>7, <2>1, <2>2 DEF DragOut
<1>8. CASE Drop
  BY <1>8 DEF Drop
<1>9. CASE UNCHANGED gestureVars
  BY <1>9 DEF gestureVars
<1> QED BY <1>1, <1>2, <1>3, <1>4, <1>5, <1>6, <1>7, <1>8, <1>9, <1>10 DEF GestureNext

LEMMA GestureStart == GestureInit => GestureInv
  BY DEF GestureInit, GestureInv, GestureTypeOK, ResizingGetsRecorded,
     DropzoneFollowsDrag

LEMMA GestureInvHolds == GestureSpec => []GestureInv
  BY GestureStart, GestureStep, PTL DEF GestureSpec

\* Every variable of the drags has its type.
THEOREM GestureTypeCorrect == GestureSpec => []GestureTypeOK
  BY GestureInvHolds, PTL DEF GestureInv

\* A mouseup records every image that drags of any editors have resized
\* (hHandleMousedown, hStatusbarMousedown).
THEOREM ResizingIsRecorded == GestureSpec => []ResizingGetsRecorded
  BY GestureInvHolds, PTL DEF GestureInv

\* The dropzones follow what is dragged, however it moves between the elements of
\* the page (attachDragAndDropEvent).
THEOREM DropzonesFollow == GestureSpec => []DropzoneFollowsDrag
  BY GestureInvHolds, PTL DEF GestureInv

------------------------------------------------------------------------------
(* The link dialog.  A handler clears the url field, so that the handlers  *)
(* after it in the same click find it empty.                               *)

NothingLeftToGive == given = 0 \/ ~clicking \/ urlField = ""
ClickInv == given \in 0 .. 1 /\ NothingLeftToGive

\* A handler gives the fields to a place if no handler before it in the click did.
LEMMA HandlerStep == ClickInv /\ RunLinkHandler => ClickInv'
<1> SUFFICES ASSUME ClickInv, RunLinkHandler PROVE ClickInv'
  OBVIOUS
<1> DEFINE Filled == urlField # ""
<1>1. given = 0 \/ ~Filled
  BY Zenon DEF ClickInv, NothingLeftToGive, RunLinkHandler, LinkAt
<1>2. given \in 0 .. 1 /\ given' = given + (IF Filled THEN 1 ELSE 0)
  BY Zenon DEF ClickInv, RunLinkHandler, LinkAt
<1>3. NothingLeftToGive'
  BY Zenon DEF NothingLeftToGive, RunLinkHandler
<1> HIDE DEF Filled
<1>4. given' \in 0 .. 1
  BY <1>1, <1>2
<1> QED BY <1>3, <1>4 DEF ClickInv

LEMMA ClickStep == ClickInv /\ ClickLink => ClickInv'
<1> SUFFICES ASSUME ClickLink PROVE ClickInv'
  OBVIOUS
<1>1. given' = 0
  BY Zenon DEF ClickLink
<1>2. given' \in 0 .. 1
  BY <1>1
<1>3. NothingLeftToGive'
  BY <1>1, Zenon DEF NothingLeftToGive
<1> QED BY <1>2, <1>3 DEF ClickInv

LEMMA DialogStep == ClickInv /\ [DialogNext]_dialogVars => ClickInv'
<1> SUFFICES ASSUME ClickInv, [DialogNext]_dialogVars PROVE ClickInv'
  OBVIOUS
<1> USE DEF ClickInv, NothingLeftToGive
<1>1. ASSUME NEW s \in Spots, SelectSpot(s) PROVE ClickInv'
  BY <1>1 DEF SelectSpot, linkVars
<1>2. CASE Close
  BY <1>2 DEF Close
<1>3. CASE ShowLinkDialog
  BY <1>3 DEF ShowLinkDialog
<1>4. ASSUME NEW entry \in Entries, TypeLinkUrl(entry) PROVE ClickInv'
  BY <1>4 DEF TypeLinkUrl
<1>5. ASSUME NEW entry \in Entries, TypeLinkText(entry) PROVE ClickInv'
  BY <1>5 DEF TypeLinkText
<1>6. ASSUME NEW entry \in Entries, TypeImageUrl(entry) PROVE ClickInv'
  BY <1>6 DEF TypeImageUrl, linkVars
<1>7. CASE ClickLink
  BY <1>7, ClickStep
<1>8. CASE RunLinkHandler
  BY <1>8, HandlerStep
<1>9. CASE LinkHandlerThrows
  BY <1>9 DEF LinkHandlerThrows
<1>10. CASE ClickLinkInVain
  BY <1>10 DEF ClickLinkInVain
<1>11. CASE ShowImageDialog
  BY <1>11 DEF ShowImageDialog, linkVars
<1>12. CASE ChooseFile
  BY <1>12 DEF ChooseFile, linkVars
<1>13. CASE ClickImage
  BY <1>13 DEF ClickImage, linkVars
<1>14. ASSUME NEW i \in DOMAIN images, ImageArrives(i) \/ ImageFails(i) PROVE ClickInv'
  <2>1. UNCHANGED <<given, clicking, urlField>>
    BY <1>14, Zenon DEF ImageArrives, ImageFails, linkVars
  <2> QED BY <2>1
<1>15. CASE UNCHANGED dialogVars
  BY <1>15 DEF dialogVars, linkVars
<1> QED BY <1>1, <1>2, <1>3, <1>4, <1>5, <1>6, <1>7, <1>8, <1>9, <1>10, <1>11, <1>12,
           <1>13, <1>14, <1>15 DEF DialogNext

\* The fields of a click reach one place at most, however many showings were closed
\* without a link before (showLinkDialog).
THEOREM OneSpotPerClick == DialogSpec => []FieldsReachOneSpot
<1>1. ASSUME DialogInit PROVE ClickInv
  <2>1. given = 0
    BY <1>1 DEF DialogInit
  <2>2. given \in 0 .. 1
    BY <2>1
  <2> QED BY <2>1, <2>2, Zenon DEF ClickInv, NothingLeftToGive
<1>2. ASSUME ClickInv PROVE FieldsReachOneSpot
  <2>1. given \in 0 .. 1
    BY <1>2 DEF ClickInv
  <2> QED BY <2>1 DEF FieldsReachOneSpot
<1> QED BY <1>1, <1>2, DialogStep, PTL DEF DialogSpec

\* What the dialog keeps as long as no showing was closed without a link: the only
\* handler left is the one of the showing that is open, and unless an image came in
\* the place of its range, the text field has the text found there if the user typed
\* none.
OneHandlerOpen ==
    IF dialog = "link"
    THEN /\ linkInfos # <<>> /\ handlers \in {<<>>, <<Len(linkInfos)>>}
         /\ ~linkInfos[Len(linkInfos)].stale /\ ~wordTyped
            /\ (\A i \in DOMAIN linkInfos : linkInfos[i].text # "")
            => textField = spots[linkInfos[Len(linkInfos)].range].text
    ELSE handlers = <<>> /\ ~clicking

\* Every image is where it was asked for, or will be, unless the selection moved.
ImagesFollow ==
    /\ ImagesWhereAsked
    /\ \A i \in DOMAIN images : images[i].state = "loading" /\ ~images[i].moved
          => dialog = "closed" /\ selected = images[i].asked

LinkInfos == [range : Spots, text : FieldTexts, stale : BOOLEAN]
ImageRecords == [by : FieldTexts \cup {"file"}, asked : Spots,
                 state : {"loading", "inserted", "failed"},
                 at : Spots \cup {Elsewhere}, moved : BOOLEAN]
LinkInv == DialogTypeOK /\ (~abandoned => OneHandlerOpen) /\ ImagesFollow

\* A sequence stays one when its elements change.
LEMMA Changed ==
    ASSUME NEW S, NEW s \in Seq(S), NEW v \in [DOMAIN s -> S]
    PROVE  v \in Seq(S) /\ Len(v) = Len(s) /\ DOMAIN v = DOMAIN s
<1>1. Len(s) \in Nat /\ DOMAIN s = 1 .. Len(s)
  BY LenProperties
<1>2. v \in [1 .. Len(s) -> S]
  BY <1>1
<1>3. v \in Seq(S)
  BY <1>1, <1>2, SeqDef
<1> QED BY <1>1, <1>2, <1>3, LenProperties

\* The infos stay infos when some become stale, and images images when they are moved.
LEMMA StaleInfos ==
    ASSUME linkInfos \in Seq(LinkInfos), NEW at,
           linkInfos' = [i \in DOMAIN linkInfos |->
               [linkInfos[i] EXCEPT !.stale = @ \/ linkInfos[i].range = at]]
    PROVE  /\ linkInfos' \in Seq(LinkInfos) /\ Len(linkInfos') = Len(linkInfos)
           /\ DOMAIN linkInfos' = DOMAIN linkInfos
           /\ \A i \in DOMAIN linkInfos :
                 /\ linkInfos'[i].range = linkInfos[i].range
                 /\ linkInfos'[i].text = linkInfos[i].text
                 /\ (linkInfos'[i].stale <=> linkInfos[i].stale \/ linkInfos[i].range = at)
<1>1. ASSUME NEW i \in DOMAIN linkInfos
      PROVE  /\ linkInfos'[i] \in LinkInfos
             /\ linkInfos'[i].range = linkInfos[i].range
             /\ linkInfos'[i].text = linkInfos[i].text
             /\ (linkInfos'[i].stale <=> linkInfos[i].stale \/ linkInfos[i].range = at)
  <2> DEFINE info == linkInfos[i]
             b == info.stale \/ info.range = at
  <2>1. info \in LinkInfos
    BY LenProperties, ElementOfSeq
  <2>2. linkInfos'[i] = [info EXCEPT !.stale = b] /\ b \in BOOLEAN
    OBVIOUS
  <2> HIDE DEF info, b
  <2>3. /\ linkInfos'[i] \in LinkInfos /\ linkInfos'[i].range = info.range
        /\ linkInfos'[i].text = info.text /\ linkInfos'[i].stale = b
    BY <2>1, <2>2 DEF LinkInfos
  <2> QED BY <2>3 DEF info, b
<1>2. linkInfos' \in [DOMAIN linkInfos -> LinkInfos]
  BY <1>1
<1>3. /\ linkInfos' \in Seq(LinkInfos) /\ Len(linkInfos') = Len(linkInfos)
      /\ DOMAIN linkInfos' = DOMAIN linkInfos
  BY <1>2, Changed
<1> QED BY <1>1, <1>3

LEMMA MovedImages ==
    ASSUME images \in Seq(ImageRecords), SelectionMoves
    PROVE  /\ images' \in Seq(ImageRecords) /\ DOMAIN images' = DOMAIN images
           /\ \A i \in DOMAIN images :
                 /\ images'[i].state = images[i].state
                 /\ images'[i].at = images[i].at /\ images'[i].asked = images[i].asked
                 /\ images'[i].moved = (images[i].moved \/ images[i].state = "loading")
<1>1. ASSUME NEW i \in DOMAIN images
      PROVE  /\ images'[i] \in ImageRecords
             /\ images'[i].state = images[i].state
             /\ images'[i].at = images[i].at /\ images'[i].asked = images[i].asked
             /\ images'[i].moved = (images[i].moved \/ images[i].state = "loading")
  <2> DEFINE image == images[i]
             b == image.moved \/ image.state = "loading"
  <2>1. image \in ImageRecords
    BY LenProperties, ElementOfSeq
  <2>2. images'[i] = [image EXCEPT !.moved = b] /\ b \in BOOLEAN
    BY DEF SelectionMoves
  <2> HIDE DEF image, b
  <2>3. /\ images'[i] \in ImageRecords /\ images'[i].state = image.state
        /\ images'[i].at = image.at /\ images'[i].asked = image.asked
        /\ images'[i].moved = b
    BY <2>1, <2>2 DEF ImageRecords
  <2> QED BY <2>3 DEF image, b
<1>2. images' \in [DOMAIN images -> ImageRecords]
  BY <1>1, Zenon DEF SelectionMoves
<1>3. images' \in Seq(ImageRecords) /\ DOMAIN images' = DOMAIN images
  BY <1>2, Changed
<1> QED BY <1>1, <1>3

\* Nothing that moves the selection disturbs where images are to be.
LEMMA MovedFollow ==
    ASSUME DialogTypeOK, ImagesFollow, SelectionMoves
    PROVE  ImagesFollow'
<1>1. images \in Seq(ImageRecords)
  BY DEF DialogTypeOK, ImageRecords
<1>2. /\ DOMAIN images' = DOMAIN images
      /\ \A i \in DOMAIN images :
            /\ images'[i].state = images[i].state
            /\ images'[i].at = images[i].at /\ images'[i].asked = images[i].asked
            /\ images'[i].moved = (images[i].moved \/ images[i].state = "loading")
  BY <1>1, MovedImages
<1> QED BY <1>2, Zenon DEF ImagesFollow, ImagesWhereAsked

LEMMA SavedType ==
    ASSUME DialogTypeOK, SaveRange
    PROVE  /\ savedRange' \in Spots /\ selected' \in Spots \cup {Elsewhere}
           /\ images' \in Seq(ImageRecords) /\ imageUrl' = imageUrl
<1>1. images' \in Seq(ImageRecords) /\ imageUrl' = imageUrl
  <2>1. images \in Seq(ImageRecords) /\ SelectionMoves
    BY DEF DialogTypeOK, ImageRecords, SaveRange
  <2> QED BY <2>1, MovedImages DEF SelectionMoves
<1>2. savedRange' \in Spots /\ selected' \in Spots \cup {Elsewhere}
  BY Zenon DEF DialogTypeOK, SaveRange
<1> QED BY <1>1, <1>2

\* The type of what a showing adds, and of what its handler changes.
LEMMA ShowLinkType ==
    ASSUME DialogTypeOK, ShowLinkDialog
    PROVE  DialogTypeOK'
<1> DEFINE here == spots[savedRange']
           info == [range |-> savedRange', text |-> here.text, stale |-> FALSE]
<1>0. /\ savedRange' \in Spots /\ selected' \in Spots \cup {Elsewhere}
      /\ images' \in Seq(ImageRecords) /\ imageUrl' = imageUrl
  <2>1. SaveRange
    BY DEF ShowLinkDialog
  <2> QED BY <2>1, SavedType
<1>1. here \in [text : FieldTexts, url : FieldTexts] /\ info \in LinkInfos
  BY <1>0 DEF DialogTypeOK, LinkInfos
<1>2. /\ linkInfos' = Append(linkInfos, info)
      /\ handlers' = Append(handlers, Len(linkInfos) + 1)
  BY Zenon DEF ShowLinkDialog
<1> HIDE DEF info
<1>3. linkInfos' \in Seq(LinkInfos) /\ Len(linkInfos') = Len(linkInfos) + 1
  BY <1>1, <1>2 DEF DialogTypeOK, LinkInfos
<1>4. handlers' \in Seq(1 .. Len(linkInfos'))
  <2>1. /\ Len(linkInfos) \in Nat /\ handlers \in Seq(1 .. Len(linkInfos))
    BY DEF DialogTypeOK
  <2>2. 1 .. Len(linkInfos) \subseteq 1 .. Len(linkInfos')
    BY <1>3, <2>1
  <2>3. handlers \in Seq(1 .. Len(linkInfos')) /\ Len(linkInfos) + 1 \in 1 .. Len(linkInfos')
    BY <1>3, <2>1, <2>2, SeqMonotonic
  <2> QED BY <1>2, <2>3, AppendProperties
<1>5. textField' \in FieldTexts /\ urlField' \in FieldTexts
  <2> DEFINE text == here.text
             url == here.url
  <2>1. text \in FieldTexts /\ url \in FieldTexts
    BY <1>1
  <2>2. /\ textField' = text
        /\ urlField' = IF url # "" THEN url ELSE IF text # "" THEN text ELSE "http://"
    BY Zenon DEF ShowLinkDialog
  <2> HIDE DEF text, url
  <2>3. urlField' \in {url, text, "http://"}
    BY <2>2, Zenon
  <2> QED BY <2>1, <2>2, <2>3 DEF FieldTexts
<1>6. /\ dialog' = "link" /\ wordTyped' = FALSE
      /\ UNCHANGED <<spots, clicking, given, abandoned, pendingImage>>
  BY Zenon DEF ShowLinkDialog
<1> QED BY <1>0, <1>3, <1>4, <1>5, <1>6 DEF DialogTypeOK, LinkInfos, ImageRecords

LEMMA HandlerType ==
    ASSUME DialogTypeOK, RunLinkHandler
    PROVE  DialogTypeOK'
<1> DEFINE info == linkInfos[Head(handlers)]
<1>1. /\ Head(handlers) \in 1 .. Len(linkInfos)
      /\ Tail(handlers) \in Seq(1 .. Len(linkInfos))
  <2>1. handlers \in Seq(1 .. Len(linkInfos)) /\ handlers # <<>>
    BY Zenon DEF DialogTypeOK, RunLinkHandler
  <2> QED BY <2>1, HeadTailProperties
<1>2. linkInfos \in Seq(LinkInfos) /\ info \in LinkInfos
  <2>1. linkInfos \in Seq(LinkInfos)
    BY DEF DialogTypeOK, LinkInfos
  <2> QED BY <1>1, <2>1, ElementOfSeq
<1>3. /\ linkInfos' = [i \in DOMAIN linkInfos |->
               [linkInfos[i] EXCEPT !.stale = @ \/ linkInfos[i].range = info.range]]
      /\ handlers' = Tail(handlers) /\ SelectionMoves
  BY Zenon DEF RunLinkHandler, LinkAt
<1>4. linkInfos' \in Seq(LinkInfos) /\ Len(linkInfos') = Len(linkInfos)
  <2> HIDE DEF info
  <2> QED BY <1>2, <1>3, StaleInfos
<1>5. handlers' \in Seq(1 .. Len(linkInfos'))
  BY <1>1, <1>3, <1>4
<1>6. images' \in Seq(ImageRecords) /\ imageUrl' = imageUrl
  <2>1. images \in Seq(ImageRecords)
    BY DEF DialogTypeOK, ImageRecords
  <2> QED BY <1>3, <2>1, MovedImages DEF SelectionMoves
<1>7. spots' \in [Spots -> [text : FieldTexts, url : FieldTexts]] /\ selected' \in Spots
  <2>1. info.range \in Spots
    BY <1>2 DEF LinkInfos
  <2>2. [text |-> textField, url |-> urlField] \in [text : FieldTexts, url : FieldTexts]
    BY DEF DialogTypeOK
  <2>3. spots' = [spots EXCEPT ![info.range] = [text |-> textField, url |-> urlField]]
        /\ selected' = info.range
    BY Zenon DEF RunLinkHandler, LinkAt
  <2> HIDE DEF info
  <2> QED BY <2>1, <2>2, <2>3 DEF DialogTypeOK
<1>8. given' \in Nat /\ clicking' \in BOOLEAN
  <2> DEFINE Filled == urlField # ""
  <2>1. given' = given + (IF Filled THEN 1 ELSE 0) /\ given \in Nat
    BY Zenon DEF RunLinkHandler, LinkAt, DialogTypeOK
  <2>2. clicking' \in BOOLEAN
    BY Zenon DEF RunLinkHandler, LinkAt
  <2> HIDE DEF Filled
  <2> QED BY <2>1, <2>2
<1>9. /\ textField' \in FieldTexts /\ urlField' \in FieldTexts /\ dialog' = "closed"
      /\ UNCHANGED <<savedRange, wordTyped, abandoned, pendingImage>>
  BY DEF RunLinkHandler, LinkAt, FieldTexts
<1> HIDE DEF info
<1> QED BY <1>4, <1>5, <1>6, <1>7, <1>8, <1>9 DEF DialogTypeOK, LinkInfos, ImageRecords

LEMMA TypeTextType ==
    ASSUME DialogTypeOK, NEW entry \in Entries, TypeLinkText(entry)
    PROVE  DialogTypeOK'
<1> DEFINE v == [i \in DOMAIN linkInfos |-> [linkInfos[i] EXCEPT !.text = entry]]
<1>1. entry \in FieldTexts
  BY DEF FieldTexts
<1>2. linkInfos \in Seq(LinkInfos)
  BY DEF DialogTypeOK, LinkInfos
<1>3. v \in [DOMAIN linkInfos -> LinkInfos]
  <2> SUFFICES ASSUME NEW i \in DOMAIN linkInfos
               PROVE  [linkInfos[i] EXCEPT !.text = entry] \in LinkInfos
    OBVIOUS
  <2>1. linkInfos[i] \in LinkInfos
    BY <1>2, LenProperties, ElementOfSeq
  <2> QED BY <1>1, <2>1 DEF LinkInfos
<1>4. linkInfos' = v
  BY Zenon DEF TypeLinkText
<1>5. linkInfos' \in Seq(LinkInfos) /\ Len(linkInfos') = Len(linkInfos)
  <2> HIDE DEF v
  <2> QED BY <1>2, <1>3, <1>4, Changed
<1> QED BY <1>1, <1>5 DEF TypeLinkText, DialogTypeOK, LinkInfos, imageVars

\* The clicks of the image dialog resolve its deferreds and may ask for an image.
LEMMA ImageType ==
    ASSUME DialogTypeOK, ShowImageDialog \/ ChooseFile \/ ClickImage
    PROVE  DialogTypeOK'
<1>1. pendingImage' \in Seq(BOOLEAN)
  <2>1. CASE ShowImageDialog
    BY <2>1 DEF ShowImageDialog, DialogTypeOK
  <2>2. CASE ChooseFile
    <3>1. /\ pendingImage \in Seq(BOOLEAN)
          /\ pendingImage' = [pendingImage EXCEPT ![Len(pendingImage)] = FALSE]
      BY <2>2, Zenon DEF ChooseFile, DialogTypeOK
    <3>2. pendingImage \in [1 .. Len(pendingImage) -> BOOLEAN] /\ Len(pendingImage) \in Nat
      BY <3>1, LenProperties
    <3>3. pendingImage' \in [1 .. Len(pendingImage) -> BOOLEAN]
      BY <3>1, <3>2, Zenon
    <3> QED BY <3>2, <3>3, SeqDef
  <2>3. CASE ClickImage
    <3>1. pendingImage' = [i \in 1 .. Len(pendingImage) |-> FALSE] /\ Len(pendingImage) \in Nat
      <4>1. /\ pendingImage \in Seq(BOOLEAN)
            /\ pendingImage' = [i \in DOMAIN pendingImage |-> FALSE]
        BY <2>3, Zenon DEF ClickImage, DialogTypeOK
      <4> QED BY <4>1, LenProperties
    <3>2. pendingImage' \in [1 .. Len(pendingImage) -> BOOLEAN]
      BY <3>1, Zenon
    <3> QED BY <3>1, <3>2, SeqDef
  <2> QED BY <2>1, <2>2, <2>3
<1>2. /\ images' \in Seq(ImageRecords) /\ selected' \in Spots \cup {Elsewhere}
      /\ savedRange' \in Spots
  <2>1. CASE ShowImageDialog
    BY <2>1, SavedType DEF ShowImageDialog
  <2>2. CASE ChooseFile
    <3>1. Asked("file") /\ savedRange' = savedRange
      BY <2>2, Zenon DEF ChooseFile
    <3>2. images' = Append(images, [by |-> "file", asked |-> savedRange, state |-> "loading",
                                    at |-> Elsewhere, moved |-> FALSE])
          /\ selected' = savedRange
      BY <3>1 DEF Asked
    <3>3. [by |-> "file", asked |-> savedRange, state |-> "loading", at |-> Elsewhere,
           moved |-> FALSE] \in ImageRecords
      BY DEF DialogTypeOK, ImageRecords
    <3>4. images \in Seq(ImageRecords) /\ savedRange \in Spots
      BY DEF DialogTypeOK, ImageRecords
    <3> QED BY <3>1, <3>2, <3>3, <3>4, AppendProperties
  <2>3. CASE ClickImage
    <3>1. /\ Asked(imageUrl) \/ (images' = images /\ selected' = savedRange)
          /\ savedRange' = savedRange
      BY <2>3, Zenon DEF ClickImage
    <3>2. [by |-> imageUrl, asked |-> savedRange, state |-> "loading", at |-> Elsewhere,
           moved |-> FALSE] \in ImageRecords
      BY DEF DialogTypeOK, ImageRecords
    <3>3. images \in Seq(ImageRecords) /\ savedRange \in Spots
      BY DEF DialogTypeOK, ImageRecords
    <3>4. images' \in Seq(ImageRecords)
      <4>1. CASE Asked(imageUrl)
        <5>1. images' = Append(images, [by |-> imageUrl, asked |-> savedRange,
                                        state |-> "loading", at |-> Elsewhere, moved |-> FALSE])
          BY <4>1 DEF Asked
        <5> QED BY <3>2, <3>3, <5>1, AppendProperties
      <4>2. CASE images' = images
        BY <3>3, <4>2
      <4> QED BY <3>1, <4>1, <4>2
    <3>5. selected' = savedRange
      BY <3>1 DEF Asked
    <3> QED BY <3>1, <3>3, <3>4, <3>5
  <2> QED BY <2>1, <2>2, <2>3
<1>3. /\ dialog' \in {"closed", "link", "image"} /\ imageUrl' \in FieldTexts
      /\ UNCHANGED linkVars
  <2>1. /\ dialog' \in {"image", "closed"}
        /\ imageUrl' \in {imageUrl, ""} /\ UNCHANGED linkVars
    BY Zenon DEF ShowImageDialog, SaveRange, SelectionMoves, ChooseFile, ClickImage
  <2> QED BY <2>1 DEF DialogTypeOK, FieldTexts
<1> QED BY <1>1, <1>2, <1>3 DEF DialogTypeOK, linkVars, ImageRecords

\* What an image that arrives or fails changes.
LEMMA LoadedImage ==
    ASSUME images \in Seq(ImageRecords), NEW i \in DOMAIN images,
           selected \in Spots \cup {Elsewhere}, ImageArrives(i) \/ ImageFails(i)
    PROVE  /\ images' \in Seq(ImageRecords) /\ DOMAIN images' = DOMAIN images
           /\ \A j \in DOMAIN images : j # i => images'[j] = images[j]
           /\ images'[i].asked = images[i].asked /\ images'[i].moved = images[i].moved
           /\ \/ images'[i].state = "inserted" /\ images'[i].at = selected
              \/ images'[i].state = "failed"
<1>1. images[i] \in ImageRecords
  BY LenProperties, ElementOfSeq
<1>2. CASE ImageArrives(i)
  <2>1. images' = [images EXCEPT ![i].state = "inserted", ![i].at = selected]
    BY <1>2 DEF ImageArrives
  <2>2. /\ [images[i] EXCEPT !.state = "inserted", !.at = selected] \in ImageRecords
        /\ [images[i] EXCEPT !.state = "inserted", !.at = selected].state = "inserted"
        /\ [images[i] EXCEPT !.state = "inserted", !.at = selected].at = selected
        /\ [images[i] EXCEPT !.state = "inserted", !.at = selected].asked = images[i].asked
        /\ [images[i] EXCEPT !.state = "inserted", !.at = selected].moved = images[i].moved
    BY <1>1 DEF ImageRecords
  <2>3. images'[i] = [images[i] EXCEPT !.state = "inserted", !.at = selected]
        /\ \A j \in DOMAIN images : j # i => images'[j] = images[j]
    BY <2>1
  <2>4. \A j \in DOMAIN images : images[j] \in ImageRecords
    BY LenProperties, ElementOfSeq
  <2>5. images' \in [DOMAIN images -> ImageRecords]
    BY <2>1, <2>2, <2>3, <2>4
  <2> QED BY <2>2, <2>3, <2>5, Changed
<1>3. CASE ImageFails(i)
  <2>1. images' = [images EXCEPT ![i].state = "failed"]
    BY <1>3 DEF ImageFails
  <2>2. /\ [images[i] EXCEPT !.state = "failed"] \in ImageRecords
        /\ [images[i] EXCEPT !.state = "failed"].state = "failed"
        /\ [images[i] EXCEPT !.state = "failed"].asked = images[i].asked
        /\ [images[i] EXCEPT !.state = "failed"].moved = images[i].moved
    BY <1>1 DEF ImageRecords
  <2>3. images'[i] = [images[i] EXCEPT !.state = "failed"]
        /\ \A j \in DOMAIN images : j # i => images'[j] = images[j]
    BY <2>1
  <2>4. \A j \in DOMAIN images : images[j] \in ImageRecords
    BY LenProperties, ElementOfSeq
  <2>5. images' \in [DOMAIN images -> ImageRecords]
    BY <2>1, <2>2, <2>3, <2>4
  <2> QED BY <2>2, <2>3, <2>5, Changed
<1> QED BY <1>2, <1>3

LEMMA LoadType ==
    ASSUME DialogTypeOK, NEW i \in DOMAIN images, ImageArrives(i) \/ ImageFails(i)
    PROVE  DialogTypeOK'
<1>1. images \in Seq(ImageRecords) /\ linkInfos \in Seq(LinkInfos)
  BY DEF DialogTypeOK, ImageRecords, LinkInfos
<1>2. images' \in Seq(ImageRecords)
  <2>1. selected \in Spots \cup {Elsewhere}
    BY DEF DialogTypeOK
  <2> QED BY <1>1, <2>1, LoadedImage
<1>3. CASE ImageArrives(i)
  <2>1. /\ linkInfos' = [j \in DOMAIN linkInfos |->
               [linkInfos[j] EXCEPT !.stale = @ \/ linkInfos[j].range = selected]]
        /\ spots' = [s \in Spots |-> IF s = selected THEN [text |-> "", url |-> ""]
                                     ELSE spots[s]]
        /\ UNCHANGED <<selected, savedRange, dialog, textField, urlField, handlers, clicking,
                       given, wordTyped, abandoned, imageUrl, pendingImage>>
    BY <1>3, Zenon DEF ImageArrives
  <2>2. linkInfos' \in Seq(LinkInfos) /\ Len(linkInfos') = Len(linkInfos)
    BY <1>1, <2>1, StaleInfos
  <2>3. spots' \in [Spots -> [text : FieldTexts, url : FieldTexts]]
    <3>1. [text |-> "", url |-> ""] \in [text : FieldTexts, url : FieldTexts]
      BY DEF FieldTexts
    <3>2. \A s \in Spots : spots[s] \in [text : FieldTexts, url : FieldTexts]
      BY DEF DialogTypeOK
    <3> QED BY <2>1, <3>1, <3>2
  <2> QED BY <1>2, <2>1, <2>2, <2>3 DEF DialogTypeOK, LinkInfos, ImageRecords
<1>4. CASE ImageFails(i)
  <2>1. UNCHANGED <<selected, savedRange, dialog, linkVars, imageUrl, pendingImage>>
    BY <1>4, Zenon DEF ImageFails
  <2> QED BY <1>2, <2>1 DEF DialogTypeOK, linkVars, ImageRecords
<1> QED BY <1>3, <1>4

LEMMA DialogTypeStep ==
    ASSUME DialogTypeOK, [DialogNext]_dialogVars
    PROVE  DialogTypeOK'
<1>0. images \in Seq(ImageRecords)
  BY DEF DialogTypeOK, ImageRecords
<1>1. ASSUME NEW s \in Spots, SelectSpot(s) PROVE DialogTypeOK'
  <2>1. /\ selected' = s /\ SelectionMoves /\ imageUrl' = imageUrl
        /\ UNCHANGED <<savedRange, dialog, linkVars, pendingImage>>
    BY <1>1 DEF SelectSpot, SelectionMoves
  <2>2. images' \in Seq(ImageRecords)
    BY <1>0, <2>1, MovedImages
  <2> QED BY <2>1, <2>2 DEF linkVars, DialogTypeOK, ImageRecords
<1>2. CASE Close
  BY <1>2 DEF Close, imageVars, DialogTypeOK
<1>3. CASE ShowLinkDialog
  BY <1>3, ShowLinkType
<1>4. ASSUME NEW entry \in Entries, TypeLinkUrl(entry) PROVE DialogTypeOK'
  <2>1. entry \in FieldTexts
    BY DEF FieldTexts
  <2> QED BY <1>4, <2>1 DEF TypeLinkUrl, imageVars, DialogTypeOK
<1>5. ASSUME NEW entry \in Entries, TypeLinkText(entry) PROVE DialogTypeOK'
  BY <1>5, TypeTextType
<1>6. ASSUME NEW entry \in Entries, TypeImageUrl(entry) PROVE DialogTypeOK'
  <2>1. entry \in FieldTexts
    BY DEF FieldTexts
  <2> QED BY <1>6, <2>1 DEF TypeImageUrl, linkVars, DialogTypeOK
<1>7. CASE ClickLink
  BY <1>7 DEF ClickLink, imageVars, DialogTypeOK
<1>8. CASE RunLinkHandler
  BY <1>8, HandlerType
<1>9. CASE LinkHandlerThrows
  <2>1. handlers \in Seq(1 .. Len(linkInfos)) /\ handlers # <<>>
    BY <1>9, Zenon DEF LinkHandlerThrows, DialogTypeOK
  <2>2. handlers' \in Seq(1 .. Len(linkInfos))
    <3>1. handlers' = Tail(handlers)
      BY <1>9 DEF LinkHandlerThrows
    <3> QED BY <2>1, <3>1, HeadTailProperties
  <2>3. selected' = savedRange /\ clicking' = FALSE /\ SelectionMoves
        /\ UNCHANGED <<savedRange, dialog, spots, textField, urlField, linkInfos, given,
                       wordTyped, abandoned, pendingImage>>
    BY <1>9, Zenon DEF LinkHandlerThrows
  <2>4. images' \in Seq(ImageRecords) /\ imageUrl' = imageUrl
    BY <1>0, <2>3, MovedImages DEF SelectionMoves
  <2> QED BY <2>2, <2>3, <2>4 DEF DialogTypeOK, ImageRecords
<1>10. CASE ClickLinkInVain
  BY <1>10 DEF ClickLinkInVain, imageVars, DialogTypeOK
<1>11. CASE ShowImageDialog \/ ChooseFile \/ ClickImage
  BY <1>11, ImageType
<1>12. ASSUME NEW i \in DOMAIN images, ImageArrives(i) \/ ImageFails(i) PROVE DialogTypeOK'
  BY <1>12, LoadType
<1>13. CASE UNCHANGED dialogVars
  BY <1>13 DEF dialogVars, linkVars, imageVars, DialogTypeOK
<1> QED BY <1>1, <1>2, <1>3, <1>4, <1>5, <1>6, <1>7, <1>8, <1>9, <1>10, <1>11, <1>12,
           <1>13 DEF DialogNext

LEMMA LinkStart == DialogInit => LinkInv
<1> SUFFICES ASSUME DialogInit PROVE LinkInv
  OBVIOUS
<1>1. spots \in [Spots -> [text : FieldTexts, url : FieldTexts]]
  <2>1. \A s \in Spots : [text |-> WordAt[s], url |-> ""] \in [text : FieldTexts, url : FieldTexts]
    BY DEF FieldTexts
  <2> QED BY <2>1 DEF DialogInit
<1>2. DialogTypeOK
  <2>1. /\ linkInfos \in Seq([range : Spots, text : FieldTexts, stale : BOOLEAN])
        /\ images \in Seq(ImageRecords)
        /\ pendingImage \in Seq(BOOLEAN) /\ handlers \in Seq(1 .. Len(linkInfos))
    BY EmptySeq, Zenon DEF DialogInit
  <2>2. /\ selected \in Spots /\ savedRange \in Spots
        /\ dialog = "closed" /\ textField = "" /\ urlField = "" /\ imageUrl = ""
        /\ clicking = FALSE /\ given = 0 /\ wordTyped = FALSE /\ abandoned = FALSE
    BY Zenon DEF DialogInit
  <2>3. "" \in FieldTexts
    BY DEF FieldTexts
  <2> QED BY <1>1, <2>1, <2>2, <2>3 DEF DialogTypeOK, ImageRecords
<1>3. OneHandlerOpen
  BY DEF DialogInit, OneHandlerOpen
<1>4. ImagesFollow
  <2>1. images = <<>>
    BY DEF DialogInit
  <2>2. DOMAIN images = {}
    BY <2>1
  <2> QED BY <2>2, Zenon DEF ImagesFollow, ImagesWhereAsked
<1> QED BY <1>2, <1>3, <1>4 DEF LinkInv

\* As long as no showing was closed, every click finds the one handler of its showing.
LEMMA OneHandlerStep ==
    ASSUME LinkInv, [DialogNext]_dialogVars, ~abandoned'
    PROVE  OneHandlerOpen'
<1> DEFINE last == linkInfos[Len(linkInfos)]
<1>1. OneHandlerOpen /\ ~abandoned
  <2>1. abandoned => abandoned'
    BY Zenon DEF DialogNext, dialogVars, linkVars, SelectSpot, Close, ShowLinkDialog,
         TypeLinkUrl, TypeLinkText, TypeImageUrl, ClickLink, RunLinkHandler, LinkAt,
         LinkHandlerThrows, ClickLinkInVain, ShowImageDialog, ChooseFile, ClickImage,
         ImageArrives, ImageFails
  <2> QED BY <2>1, Zenon DEF LinkInv
<1>2. /\ linkInfos \in Seq(LinkInfos) /\ Len(linkInfos) \in Nat
      /\ DOMAIN linkInfos = 1 .. Len(linkInfos)
  BY LenProperties DEF LinkInv, DialogTypeOK, LinkInfos
<1>3. ASSUME NEW s \in Spots, SelectSpot(s) PROVE OneHandlerOpen'
  BY <1>1, <1>3, Zenon DEF SelectSpot, OneHandlerOpen, linkVars
<1>4. CASE Close
  <2>1. /\ dialog # "closed" /\ dialog' = "closed" /\ (dialog = "link" => abandoned')
        /\ UNCHANGED <<handlers, clicking>>
    BY <1>4, Zenon DEF Close
  <2>2. dialog # "link" /\ handlers = <<>> /\ ~clicking
    BY <1>1, <2>1, Zenon DEF OneHandlerOpen
  <2> QED BY <2>1, <2>2 DEF OneHandlerOpen
<1>5. CASE ShowLinkDialog
  <2> DEFINE here == spots[savedRange']
             info == [range |-> savedRange', text |-> here.text, stale |-> FALSE]
  <2>1. /\ dialog' = "link" /\ linkInfos' = Append(linkInfos, info) /\ textField' = here.text
        /\ handlers' = Append(handlers, Len(linkInfos) + 1) /\ handlers = <<>>
        /\ spots' = spots
    BY <1>1, <1>5, Zenon DEF ShowLinkDialog, OneHandlerOpen
  <2>2. info \in LinkInfos /\ info.range = savedRange'
    <3>1. SaveRange
      BY <1>5 DEF ShowLinkDialog
    <3>2. savedRange' \in Spots
      BY <3>1, SavedType DEF LinkInv
    <3> QED BY <3>2 DEF LinkInv, DialogTypeOK, LinkInfos
  <2> HIDE DEF info
  <2>3. /\ Len(linkInfos') = Len(linkInfos) + 1 /\ linkInfos'[Len(linkInfos')] = info
        /\ linkInfos' # <<>>
    BY <1>2, <2>1, <2>2, AppendProperties
  <2>4. handlers' = <<Len(linkInfos')>>
    BY <2>1, <2>3
  <2>5. textField' = spots'[linkInfos'[Len(linkInfos')].range].text
    BY <2>1, <2>2, <2>3, Zenon
  <2> QED BY <2>1, <2>3, <2>4, <2>5, Zenon DEF OneHandlerOpen
<1>6. ASSUME NEW entry \in Entries, TypeLinkUrl(entry) PROVE OneHandlerOpen'
  <2>1. /\ dialog = "link" /\ dialog' = "link"
        /\ UNCHANGED <<linkInfos, handlers, wordTyped, spots>>
        /\ (\A i \in DOMAIN linkInfos : linkInfos[i].text # "") => textField' = textField
    BY <1>6, Zenon DEF TypeLinkUrl
  <2> QED BY <1>1, <2>1, Zenon DEF OneHandlerOpen
<1>7. ASSUME NEW entry \in Entries, TypeLinkText(entry) PROVE OneHandlerOpen'
  <2>1. /\ dialog = "link" /\ dialog' = "link" /\ wordTyped' = TRUE /\ handlers' = handlers
        /\ linkInfos' = [i \in DOMAIN linkInfos |-> [linkInfos[i] EXCEPT !.text = entry]]
    BY <1>7, Zenon DEF TypeLinkText
  <2>2. linkInfos # <<>> /\ handlers \in {<<>>, <<Len(linkInfos)>>}
    BY <1>1, <2>1, Zenon DEF OneHandlerOpen
  <2>3. linkInfos' \in [DOMAIN linkInfos -> LinkInfos]
    <3> SUFFICES ASSUME NEW i \in 1 .. Len(linkInfos)
                 PROVE  [linkInfos[i] EXCEPT !.text = entry] \in LinkInfos
      BY <1>2, <2>1
    <3>1. linkInfos[i] \in LinkInfos /\ entry \in FieldTexts
      BY <1>2, ElementOfSeq DEF FieldTexts
    <3> QED BY <3>1 DEF LinkInfos
  <2>4. linkInfos' \in Seq(LinkInfos) /\ Len(linkInfos') = Len(linkInfos)
    BY <1>2, <2>3, Changed
  <2>5. linkInfos' # <<>>
    BY <1>2, <2>2, <2>4, EmptySeq
  <2>6. handlers' \in {<<>>, <<Len(linkInfos')>>}
    BY <2>1, <2>2, <2>4, Zenon
  <2> HIDE DEF last
  <2> QED BY <2>1, <2>5, <2>6, Zenon DEF OneHandlerOpen
<1>8. ASSUME NEW entry \in Entries, TypeImageUrl(entry) PROVE OneHandlerOpen'
  BY <1>1, <1>8, Zenon DEF TypeImageUrl, OneHandlerOpen, linkVars
<1>9. CASE ClickLink
  BY <1>1, <1>9, Zenon DEF ClickLink, OneHandlerOpen
<1>10. CASE RunLinkHandler
  <2>1. dialog' = "closed" /\ handlers' = Tail(handlers) /\ clicking' = (handlers' # <<>>)
        /\ handlers # <<>> /\ clicking
    BY <1>10, Zenon DEF RunLinkHandler, LinkAt
  <2>2. handlers = <<Len(linkInfos)>>
    BY <1>1, <2>1, Zenon DEF OneHandlerOpen
  <2>3. handlers' = <<>>
    BY <2>1, <2>2
  <2> QED BY <2>1, <2>3 DEF OneHandlerOpen
<1>11. CASE LinkHandlerThrows
  <2>1. handlers # <<>> /\ clicking /\ handlers' = Tail(handlers) /\ clicking' = FALSE
        /\ UNCHANGED <<dialog, spots, textField, linkInfos, wordTyped>>
    BY <1>11, Zenon DEF LinkHandlerThrows
  <2>2. handlers = <<Len(linkInfos)>>
    BY <1>1, <2>1, Zenon DEF OneHandlerOpen
  <2>3. handlers' = <<>>
    BY <2>1, <2>2
  <2> QED BY <1>1, <2>1, <2>3, Zenon DEF OneHandlerOpen
<1>12. CASE ClickLinkInVain
  BY <1>1, <1>12, Zenon DEF ClickLinkInVain, OneHandlerOpen
<1>13. CASE ShowImageDialog
  <2>1. dialog = "closed" /\ dialog' = "image" /\ handlers' = handlers /\ clicking' = clicking
    BY <1>13, Zenon DEF ShowImageDialog, linkVars
  <2>2. handlers = <<>> /\ ~clicking
    BY <1>1, <2>1, Zenon DEF OneHandlerOpen
  <2> QED BY <2>1, <2>2 DEF OneHandlerOpen
<1>14. CASE ChooseFile \/ ClickImage
  <2>1. dialog = "image" /\ dialog' = "closed" /\ handlers' = handlers /\ clicking' = clicking
    BY <1>14, Zenon DEF ChooseFile, ClickImage, linkVars
  <2>2. handlers = <<>> /\ ~clicking
    BY <1>1, <2>1, Zenon DEF OneHandlerOpen
  <2> QED BY <2>1, <2>2 DEF OneHandlerOpen
<1>15. ASSUME NEW i \in DOMAIN images, ImageArrives(i) PROVE OneHandlerOpen'
  <2>1. /\ linkInfos' = [j \in DOMAIN linkInfos |->
               [linkInfos[j] EXCEPT !.stale = @ \/ linkInfos[j].range = selected]]
        /\ spots' = [s \in Spots |-> IF s = selected THEN [text |-> "", url |-> ""]
                                     ELSE spots[s]]
        /\ UNCHANGED <<dialog, textField, handlers, clicking, wordTyped>>
    BY <1>15, Zenon DEF ImageArrives
  <2>2. /\ linkInfos' \in Seq(LinkInfos) /\ Len(linkInfos') = Len(linkInfos)
        /\ DOMAIN linkInfos' = DOMAIN linkInfos
        /\ \A j \in DOMAIN linkInfos :
              /\ linkInfos'[j].range = linkInfos[j].range
              /\ linkInfos'[j].text = linkInfos[j].text
              /\ (linkInfos'[j].stale <=> linkInfos[j].stale \/ linkInfos[j].range = selected)
    <3> DEFINE at == selected
    <3>1. linkInfos' = [j \in DOMAIN linkInfos |->
              [linkInfos[j] EXCEPT !.stale = @ \/ linkInfos[j].range = at]]
      BY <2>1
    <3> HIDE DEF at
    <3>2. /\ linkInfos' \in Seq(LinkInfos) /\ Len(linkInfos') = Len(linkInfos)
          /\ DOMAIN linkInfos' = DOMAIN linkInfos
          /\ \A j \in DOMAIN linkInfos :
                /\ linkInfos'[j].range = linkInfos[j].range
                /\ linkInfos'[j].text = linkInfos[j].text
                /\ (linkInfos'[j].stale <=> linkInfos[j].stale \/ linkInfos[j].range = at)
      BY ONLY <1>2, <3>1, StaleInfos
    <3> QED BY <3>2 DEF at
  <2>3. CASE dialog = "link"
    <3>1. linkInfos # <<>> /\ handlers \in {<<>>, <<Len(linkInfos)>>}
      BY <1>1, <2>3, Zenon DEF OneHandlerOpen
    <3>2. linkInfos' # <<>> /\ Len(linkInfos) \in DOMAIN linkInfos
      BY <1>2, <2>2, <3>1, EmptySeq
    <3>3. ASSUME ~linkInfos'[Len(linkInfos')].stale, ~wordTyped',
                 \A j \in DOMAIN linkInfos' : linkInfos'[j].text # ""
          PROVE  textField' = spots'[linkInfos'[Len(linkInfos')].range].text
      <4>1. ~last.stale /\ last.range # selected
            /\ linkInfos'[Len(linkInfos')].range = last.range
        BY <2>2, <3>2, <3>3, Zenon
      <4>2. \A j \in DOMAIN linkInfos : linkInfos[j].text # ""
        BY <2>2, <3>3, Zenon
      <4>3. textField = spots[last.range].text
        BY <1>1, <2>1, <2>3, <3>3, <4>1, <4>2, Zenon DEF OneHandlerOpen
      <4>4. last.range \in Spots
        <5>1. last \in LinkInfos
          BY <1>2, <3>2, ElementOfSeq
        <5> QED BY <5>1 DEF LinkInfos
      <4> HIDE DEF last
      <4>5. spots'[last.range] = spots[last.range]
        BY <2>1, <4>1, <4>4
      <4> QED BY <2>1, <4>1, <4>3, <4>5, Zenon
    <3>4. handlers' \in {<<>>, <<Len(linkInfos')>>} /\ dialog' = "link"
      BY <2>1, <2>2, <2>3, <3>1, Zenon
    <3> HIDE DEF last
    <3> QED BY <3>2, <3>3, <3>4, Zenon DEF OneHandlerOpen
  <2>4. CASE dialog # "link"
    BY <1>1, <2>1, <2>4, Zenon DEF OneHandlerOpen
  <2> QED BY <2>3, <2>4
<1>16. ASSUME NEW i \in DOMAIN images, ImageFails(i) PROVE OneHandlerOpen'
  BY <1>1, <1>16, Zenon DEF ImageFails, OneHandlerOpen, linkVars
<1>17. CASE UNCHANGED dialogVars
  BY <1>1, <1>17, Zenon DEF dialogVars, linkVars, OneHandlerOpen
<1> QED BY <1>3, <1>4, <1>5, <1>6, <1>7, <1>8, <1>9, <1>10, <1>11, <1>12, <1>13, <1>14,
           <1>15, <1>16, <1>17 DEF DialogNext

LEMMA HeadOfOne == \A n : Head(<<n>>) = n
  OBVIOUS

\* A click of the image dialog asks for one image more, where the dialog was shown.
LEMMA AskedFollow ==
    ASSUME DialogTypeOK, ImagesFollow, dialog = "image", dialog' = "closed",
           NEW by \in FieldTexts \cup {"file"}, Asked(by)
    PROVE  ImagesFollow'
<1> DEFINE new == [by |-> by, asked |-> savedRange, state |-> "loading", at |-> Elsewhere,
                   moved |-> FALSE]
<1>1. images' = Append(images, new) /\ selected' = savedRange
  BY DEF Asked
<1>2. images \in Seq(ImageRecords) /\ Len(images) \in Nat /\ DOMAIN images = 1 .. Len(images)
  BY LenProperties DEF DialogTypeOK, ImageRecords
<1>3. new.state = "loading" /\ new.asked = savedRange /\ new \in ImageRecords
  BY DEF DialogTypeOK, ImageRecords
<1> HIDE DEF new
<1>4. /\ DOMAIN images' = 1 .. Len(images) + 1 /\ images'[Len(images) + 1] = new
      /\ \A i \in 1 .. Len(images) : images'[i] = images[i]
  <2>1. images' = Append(images, new) /\ images \in Seq(ImageRecords) /\ new \in ImageRecords
    BY <1>1, <1>2, <1>3
  <2> QED BY ONLY <2>1, AppendProperties, LenProperties
<1>5. ImagesWhereAsked'
  BY <1>2, <1>3, <1>4 DEF ImagesFollow, ImagesWhereAsked
<1> QED BY <1>1, <1>2, <1>3, <1>4, <1>5 DEF ImagesFollow

\* Where images are to be is not disturbed by any step.
LEMMA ImagesStep ==
    ASSUME LinkInv, [DialogNext]_dialogVars
    PROVE  ImagesFollow'
<1>1. DialogTypeOK /\ ImagesFollow
  BY DEF LinkInv
<1>2. CASE SelectionMoves
  BY <1>1, <1>2, MovedFollow
<1>3. ASSUME images' = images, selected' = selected, dialog' \in {dialog, "closed"}
      PROVE  ImagesFollow'
  BY <1>1, <1>3, Zenon DEF ImagesFollow, ImagesWhereAsked
<1>4. CASE ChooseFile \/ ClickImage
  <2>1. dialog = "image" /\ dialog' = "closed"
    BY <1>4, Zenon DEF ChooseFile, ClickImage
  <2>2. Asked("file") \/ Asked(imageUrl) \/ images' = images
    BY <1>4, Zenon DEF ChooseFile, ClickImage
  <2>3. CASE images' = images
    BY <1>1, <2>1, <2>3, Zenon DEF ImagesFollow, ImagesWhereAsked
  <2>4. ASSUME NEW by \in {"file", imageUrl}, Asked(by) PROVE ImagesFollow'
    <3>1. by \in FieldTexts \cup {"file"}
      BY <1>1 DEF DialogTypeOK
    <3> QED BY <1>1, <2>1, <2>4, <3>1, AskedFollow
  <2> QED BY <2>2, <2>3, <2>4
<1>5. ASSUME NEW i \in DOMAIN images, ImageArrives(i) \/ ImageFails(i) PROVE ImagesFollow'
  <2>1. images \in Seq(ImageRecords) /\ selected \in Spots \cup {Elsewhere}
    BY <1>1 DEF DialogTypeOK, ImageRecords
  <2>2. /\ DOMAIN images' = DOMAIN images
        /\ \A j \in DOMAIN images : j # i => images'[j] = images[j]
        /\ images'[i].asked = images[i].asked /\ images'[i].moved = images[i].moved
        /\ \/ images'[i].state = "inserted" /\ images'[i].at = selected
           \/ images'[i].state = "failed"
    BY <1>5, <2>1, LoadedImage
  <2>3. /\ images[i].state = "loading" /\ selected' = selected /\ dialog' = dialog
    BY <1>5, Zenon DEF ImageArrives, ImageFails
  <2>4. ASSUME NEW j \in DOMAIN images', images'[j].state = "inserted", ~images'[j].moved
        PROVE  images'[j].at = images'[j].asked
    <3>1. CASE j = i
      BY <1>1, <2>2, <2>3, <2>4, <3>1, Zenon DEF ImagesFollow
    <3>2. CASE j # i
      BY <1>1, <2>2, <2>4, <3>2, Zenon DEF ImagesFollow, ImagesWhereAsked
    <3> QED BY <3>1, <3>2
  <2>5. ASSUME NEW j \in DOMAIN images', images'[j].state = "loading", ~images'[j].moved
        PROVE  dialog' = "closed" /\ selected' = images'[j].asked
    <3>1. j # i
      BY <2>2, <2>5
    <3> QED BY <1>1, <2>2, <2>3, <2>5, <3>1, Zenon DEF ImagesFollow
  <2> QED BY <2>4, <2>5, Zenon DEF ImagesFollow, ImagesWhereAsked
<1>6. ASSUME NEW s \in Spots, SelectSpot(s) PROVE ImagesFollow'
  BY <1>2, <1>6, Zenon DEF SelectSpot
<1>7. CASE ShowLinkDialog \/ ShowImageDialog
  BY <1>2, <1>7, Zenon DEF ShowLinkDialog, ShowImageDialog, SaveRange
<1>8. CASE RunLinkHandler \/ LinkHandlerThrows
  BY <1>2, <1>8, Zenon DEF RunLinkHandler, LinkAt, LinkHandlerThrows
<1>9. CASE Close \/ ClickLink \/ ClickLinkInVain \/ UNCHANGED dialogVars
  BY <1>3, <1>9, Zenon DEF Close, ClickLink, ClickLinkInVain, dialogVars, imageVars
<1>10. ASSUME NEW entry \in Entries,
              TypeLinkUrl(entry) \/ TypeLinkText(entry) \/ TypeImageUrl(entry)
       PROVE  ImagesFollow'
  BY <1>3, <1>10, Zenon DEF TypeLinkUrl, TypeLinkText, TypeImageUrl, imageVars
<1> QED BY <1>4, <1>5, <1>6, <1>7, <1>8, <1>9, <1>10 DEF DialogNext

LEMMA LinkStep == LinkInv /\ [DialogNext]_dialogVars => LinkInv'
  BY DialogTypeStep, OneHandlerStep, ImagesStep DEF LinkInv

\* A step that changes a text of the document while a click is under way is the only
\* handler's of the showing, and puts there what the text field holds.
LEMMA WordKept ==
    ASSUME LinkInv, [DialogNext]_dialogVars
    PROVE  LinkKeepsWord
<1> SUFFICES ASSUME clicking, handlers # <<>>, ~linkInfos[Head(handlers)].stale,
                    ~abandoned, ~wordTyped,
                    \A i \in DOMAIN linkInfos : linkInfos[i].text # "",
                    NEW s \in Spots
             PROVE  spots'[s].text = spots[s].text
  BY DEF LinkKeepsWord
<1>1. CASE RunLinkHandler
  <2> DEFINE info == linkInfos[Head(handlers)]
  <2>1. spots' = [spots EXCEPT ![info.range] = [text |-> textField, url |-> urlField]]
    BY <1>1, Zenon DEF RunLinkHandler, LinkAt
  <2>2. OneHandlerOpen
    BY DEF LinkInv
  <2>3. handlers = <<Len(linkInfos)>>
    BY <2>2, Zenon DEF OneHandlerOpen
  <2>4. Head(handlers) = Len(linkInfos)
    BY <2>3, HeadOfOne, Zenon
  <2>5. textField = spots[info.range].text
    BY <2>2, <2>4, Zenon DEF OneHandlerOpen
  <2>6. spots \in [Spots -> [text : FieldTexts, url : FieldTexts]]
    BY DEF LinkInv, DialogTypeOK
  <2> HIDE DEF info
  <2>7. CASE s = info.range
    <3>1. spots'[s] = [text |-> textField, url |-> urlField]
      BY <2>1, <2>6, <2>7
    <3>2. spots'[s].text = textField
      <4>1. [text |-> textField, url |-> urlField].text = textField
        OBVIOUS
      <4> QED BY <3>1, <4>1, Zenon
    <3>3. spots[s].text = textField
      BY <2>5, <2>7, Zenon
    <3> QED BY <3>2, <3>3, Zenon
  <2>8. CASE s # info.range
    BY <2>1, <2>6, <2>8
  <2> QED BY <2>7, <2>8
<1>2. CASE ~RunLinkHandler
  <2>1. spots' = spots
    BY <1>2, Zenon DEF DialogNext, dialogVars, linkVars, SelectSpot, Close, ShowLinkDialog,
           TypeLinkUrl, TypeLinkText, TypeImageUrl, ClickLink, LinkHandlerThrows,
           ClickLinkInVain, ShowImageDialog, ChooseFile, ClickImage, ImageArrives, ImageFails
  <2> QED BY <2>1
<1> QED BY <1>1, <1>2

\* Only a file and a click resolve deferreds, and the first one takes what it is given.
LEMMA FirstAsked ==
    ASSUME LinkInv, [DialogNext]_dialogVars
    PROVE  FirstImageAsked
<1> SUFFICES ASSUME dialog = "image", dialog' = "closed", pendingImage' # pendingImage,
                    pendingImage[1], imageUrl # ""
             PROVE  /\ Len(images') = Len(images) + 1
                    /\ images'[Len(images')].by \in {"file", imageUrl}
  BY DEF FirstImageAsked
<1>1. ChooseFile \/ ClickImage
  BY Zenon DEF DialogNext, dialogVars, imageVars, SelectSpot, Close, ShowLinkDialog,
         TypeLinkUrl, TypeLinkText, TypeImageUrl, ClickLink, RunLinkHandler, LinkAt,
         LinkHandlerThrows, ClickLinkInVain, ShowImageDialog, ImageArrives, ImageFails
<1>2. PICK by \in {"file", imageUrl} : Asked(by)
  BY <1>1, Zenon DEF ChooseFile, ClickImage
<1> DEFINE new == [by |-> by, asked |-> savedRange, state |-> "loading", at |-> Elsewhere,
                   moved |-> FALSE]
<1>3. images' = Append(images, new) /\ new.by = by
  BY <1>2 DEF Asked
<1>4. images \in Seq(ImageRecords)
  BY DEF LinkInv, DialogTypeOK, ImageRecords
<1>5. new \in ImageRecords
  BY DEF LinkInv, DialogTypeOK, ImageRecords
<1> HIDE DEF new
<1>6. Len(images') = Len(images) + 1 /\ images'[Len(images')] = new
  <2>1. images' = Append(images, new)
    BY <1>3
  <2> QED BY ONLY <1>4, <1>5, <2>1, AppendProperties
<1> QED BY <1>3, <1>6

LEMMA LinkInvHolds == DialogSpec => []LinkInv
  BY LinkStart, LinkStep, PTL DEF DialogSpec

\* Every variable of the dialogs has its type: a link gets no text and no url that was
\* not there or typed (LinkDialog, ImageDialog).
THEOREM DialogTypeCorrect == DialogSpec => []DialogTypeOK
<1>1. LinkInv => DialogTypeOK
  BY DEF LinkInv
<1> QED BY <1>1, LinkInvHolds, PTL

\* The first use of a dialog does what its fields say, for any number of showings: the
\* handlers that pile up do not change words, the first showing that is accepted asks
\* for its image, and the image is inserted where the dialog was shown unless the
\* selection moved while it was loading (showLinkDialog, showImageDialog, insertImage).
THEOREM FirstUse == DialogSpec => FirstUseAsAsked
<1>1. LinkInv /\ [DialogNext]_dialogVars
          => [LinkKeepsWord /\ FirstImageAsked /\ ImagesWhereAsked']_dialogVars
  BY WordKept, FirstAsked, ImagesStep DEF ImagesFollow
<1> QED BY <1>1, LinkInvHolds, PTL DEF DialogSpec, FirstUseAsAsked

------------------------------------------------------------------------------
(* The layout of the code view: what is cut and trimmed is made of the     *)
(* markup's characters.                                                    *)

Smaller == {p \in Nat \X Nat : p[1] < p[2]}

LEMMA SmallerIsWellFounded == IsWellFoundedOn(Smaller, Nat)
<1>1. Smaller = OpToRel(<, Nat)
  BY Zenon DEF Smaller, OpToRel
<1> QED BY <1>1, NatLessThanWellFounded, Zenon

LEMMA MinIsIn ==
    ASSUME NEW T \in SUBSET Nat, T # {}
    PROVE  Min(T) \in T
<1>1. PICK x \in T : \A y \in T : <<y, x>> \notin Smaller
  BY SmallerIsWellFounded, WFMin
<1>2. ASSUME NEW y \in T PROVE x =< y
  <2>1. <<y, x>> \notin Smaller /\ x \in Nat /\ y \in Nat
    BY <1>1
  <2> QED BY <2>1 DEF Smaller
<1> QED BY <1>2 DEF Min

LEMMA MaxIsIn ==
    ASSUME NEW n \in Nat, NEW T \in SUBSET (1 .. n), T # {}
    PROVE  Max(T) \in T
<1> DEFINE U == {m \in Nat : n - m \in T}
<1>1. U \in SUBSET Nat /\ U # {}
  <2>1. PICK y \in T : TRUE
    OBVIOUS
  <2>2. n - y \in Nat /\ n - (n - y) = y
    OBVIOUS
  <2> QED BY <2>1, <2>2
<1>2. PICK u \in U : \A y \in U : <<y, u>> \notin Smaller
  <2> HIDE DEF U
  <2> QED BY <1>1, SmallerIsWellFounded, WFMin
<1>3. ASSUME NEW y \in T PROVE n - u >= y
  <2>1. n - y \in U /\ n - y \in Nat /\ u \in Nat
    OBVIOUS
  <2>2. <<n - y, u>> \notin Smaller
    BY <1>2, <2>1
  <2> QED BY <2>1, <2>2 DEF Smaller
<1>4. n - u \in T
  OBVIOUS
<1> QED BY <1>3, <1>4 DEF Max

LEMMA PartType ==
    ASSUME NEW s \in Seq(Chars), NEW m \in Nat \ {0}, NEW n \in Int, n <= Len(s)
    PROVE  SubSeq(s, m, n) \in Seq(Chars)
<1>1. \A i \in m .. n : s[i] \in Chars
  OBVIOUS
<1> QED BY ONLY <1>1, m \in Nat, n \in Int, SubSeqProperties

\* What is selected in a sequence is one of its places, or none.
LEMMA PlaceOf ==
    ASSUME NEW s \in Seq(Chars), NEW c \in Chars
    PROVE  indexOf(s, c) \in -1 .. Len(s) - 1
<1> DEFINE I == {i \in 1 .. Len(s) : s[i] = c}
<1>1. indexOf(s, c) = (IF I # {} THEN Min(I) ELSE 0) - 1
  BY DEF indexOf, SelectInSeq
<1>2. I # {} => Min(I) \in 1 .. Len(s)
  <2>1. I \in SUBSET Nat /\ I \subseteq 1 .. Len(s)
    OBVIOUS
  <2> HIDE DEF I
  <2> QED BY <2>1, MinIsIn
<1>3. Len(s) \in Nat
  OBVIOUS
<1> QED BY <1>1, <1>2, <1>3

LEMMA TrimType ==
    ASSUME NEW s \in Seq(Chars)
    PROVE  trim(s) \in Seq(Chars)
<1> DEFINE Visible(x) == x # " "
           I == {i \in 1 .. Len(s) : Visible(s[i])}
           begin == IF I # {} THEN Min(I) ELSE 0
           end == IF I # {} THEN Max(I) ELSE 0
<1>1. trim(s) = SubSeq(s, IF begin = 0 THEN 1 ELSE begin, end)
  BY Zenon DEF trim, SelectInSeq, SelectLastInSeq
<1> HIDE DEF Visible
<1>2. Len(s) \in Nat /\ I \in SUBSET Nat /\ I \in SUBSET (1 .. Len(s))
  OBVIOUS
<1>3. begin \in 0 .. Len(s) /\ end \in 0 .. Len(s)
  <2> HIDE DEF I
  <2>1. CASE I = {}
    BY <1>2, <2>1
  <2>2. CASE I # {}
    <3>1. Min(I) \in I /\ Max(I) \in I
      BY ONLY <1>2, <2>2, MinIsIn, MaxIsIn
    <3>2. begin = Min(I) /\ end = Max(I)
      BY <2>2
    <3> HIDE DEF begin, end
    <3>3. \A i \in I : i \in 0 .. Len(s)
      <4>1. \A i \in 1 .. Len(s) : i \in 0 .. Len(s)
        BY <1>2
      <4> QED BY ONLY <1>2, <4>1, Zenon
    <3>4. Min(I) \in 0 .. Len(s) /\ Max(I) \in 0 .. Len(s)
      BY ONLY <3>1, <3>3, Zenon
    <3> QED BY ONLY <3>2, <3>4
  <2> QED BY <2>1, <2>2
<1> HIDE DEF begin, end
<1> QED BY <1>1, <1>2, <1>3, PartType

LEMMA CutType ==
    ASSUME NEW s \in Seq(Chars), NEW n \in -1 .. Len(s)
    PROVE  Upto(s, n) \in Seq(Chars) /\ From(s, n) \in Seq(Chars)
<1>1. Len(s) \in Nat
  OBVIOUS
<1>2. Upto(s, n) \in Seq(Chars)
  BY <1>1, PartType DEF Upto
<1>3. From(s, n) \in Seq(Chars)
  BY <1>1, PartType DEF From
<1> QED BY <1>2, <1>3

LEMMA LayType ==
    ASSUME MarkupTypeOK, NEW n \in -1 .. Len(rest), Lay(n)
    PROVE  MarkupTypeOK'
<1>1. /\ markup \in Seq(Chars) /\ rest \in Seq(Chars) /\ lines \in Seq(Seq(Chars))
  BY DEF MarkupTypeOK
<1>2. Upto(rest, n) \in Seq(Chars) /\ From(rest, n) \in Seq(Chars)
  BY <1>1, CutType
<1> DEFINE line == trim(Upto(rest, n))
           remains == trim(From(rest, n))
<1>3. line \in Seq(Chars) /\ remains \in Seq(Chars)
  BY <1>2, TrimType
<1>4. /\ lines' = IF line = <<>> THEN lines ELSE Append(lines, line)
      /\ rest' = remains /\ markup' = markup
      /\ returned' \in BOOLEAN
  BY DEF Lay
<1> HIDE DEF line, remains
<1> DEFINE S == Seq(Chars)
<1>5. lines' \in Seq(S)
  <2>1. lines \in Seq(S) /\ line \in S
    BY <1>1, <1>3
  <2> HIDE DEF S
  <2>2. Append(lines, line) \in Seq(S)
    BY ONLY <2>1, AppendProperties
  <2> QED BY ONLY <1>4, <2>1, <2>2
<1> QED BY <1>1, <1>3, <1>4, <1>5 DEF MarkupTypeOK

LEMMA MarkupStep == MarkupTypeOK /\ [MarkupNext]_markupVars => MarkupTypeOK'
<1> SUFFICES ASSUME MarkupTypeOK, [MarkupNext]_markupVars PROVE MarkupTypeOK'
  OBVIOUS
<1>0. rest \in Seq(Chars) /\ Len(rest) \in Nat
  BY DEF MarkupTypeOK
<1>1. CASE LayTag
  <2>1. indexOf(rest, ">") \in -1 .. Len(rest) - 1
    BY <1>0, PlaceOf DEF Chars
  <2> DEFINE n == indexOf(rest, ">") + 1
  <2>2. n \in -1 .. Len(rest)
    BY <1>0, <2>1
  <2>3. Lay(n)
    BY <1>1 DEF LayTag
  <2> HIDE DEF n
  <2> QED BY <2>2, <2>3, LayType
<1>2. CASE LayText
  <2> DEFINE n == indexOf(rest, "<")
  <2>1. n \in -1 .. Len(rest) - 1
    BY <1>0, PlaceOf DEF Chars
  <2>2. Lay(n)
    BY <1>2 DEF LayText
  <2> HIDE DEF n
  <2>3. n \in -1 .. Len(rest)
    BY <1>0, <2>1
  <2> QED BY <2>2, <2>3, LayType
<1>3. CASE UNCHANGED markupVars
  BY <1>3 DEF markupVars, MarkupTypeOK
<1> QED BY <1>1, <1>2, <1>3 DEF MarkupNext

LEMMA MarkupStart == MarkupInit => MarkupTypeOK
<1> SUFFICES ASSUME MarkupInit PROVE MarkupTypeOK
  OBVIOUS
<1>1. markup \in Seq(Chars) /\ rest = markup /\ lines = <<>> /\ returned = FALSE
  BY MarkupAssumption DEF MarkupAssumption, MarkupInit
<1> DEFINE S == Seq(Chars)
<1>2. lines \in Seq(S)
  <2> HIDE DEF S
  <2> QED BY <1>1
<1> QED BY <1>1, <1>2 DEF MarkupTypeOK

\* Every cut lies within the markup, of whatever length: what is laid out, and what
\* is left, is made of its characters (beautifyHTML).
THEOREM MarkupTypeCorrect == MarkupSpec => []MarkupTypeOK
  BY MarkupStart, MarkupStep, PTL DEF MarkupSpec

------------------------------------------------------------------------------
(* The form of an item: nothing is sent while the fields hold anything but *)
(* the time of publication split in two.                                   *)

FormInv ==
    /\ published \in Nat
    /\ dateFields = setDefaultTimeAndDate(published)
    /\ SavingKeepsTime

LEMMA ThereAndBack ==
    ASSUME NEW t \in Nat
    PROVE  updateTimestamp(setDefaultTimeAndDate(t)) = t + (IF t % 24 = 12 THEN 12 ELSE 0)
<1>1. t = 24 * (t \div 24) + (t % 24) /\ t % 24 \in 0 .. 23 /\ t \div 24 \in Nat
  OBVIOUS
<1> DEFINE h == t % 24  d == t \div 24
<1>2. setDefaultTimeAndDate(t) = [day |-> d, hh |-> IF h > 12 THEN h - 12 ELSE h,
                                  pd |-> IF h >= 12 THEN "PM" ELSE "AM"]
  BY DEF setDefaultTimeAndDate, getPartialTime, getPartialDate
<1> HIDE DEF h, d
<1>3. updateTimestamp(setDefaultTimeAndDate(t)) =
        24 * d + (IF h > 12 THEN h - 12 ELSE h) + (IF h >= 12 THEN 12 ELSE 0)
  BY <1>2 DEF updateTimestamp
<1>4. t = 24 * d + h /\ h \in 0 .. 23 /\ d \in Nat
  BY <1>1 DEF h, d
<1>5. updateTimestamp(setDefaultTimeAndDate(t)) = t + (IF h = 12 THEN 12 ELSE 0)
  BY <1>3, <1>4
<1> QED BY <1>5 DEF h

LEMMA FormStep == FormInv /\ [PostFormNext]_formVars => FormInv'
<1> SUFFICES ASSUME FormInv, [PostFormNext]_formVars PROVE FormInv'
  OBVIOUS
<1>1. UNCHANGED <<published, dateFields>>
  BY DEF PostFormNext, Save, Approve, Delete, Reject, Click, formVars
<1>2. CASE SendForm(formAction')
  <2>1. posted'.time = updateTimestamp(dateFields)
    BY <1>2 DEF SendForm
  <2>2. posted'.time = published + (IF published % 24 = 12 THEN 12 ELSE 0)
    BY <2>1, ThereAndBack DEF FormInv
  <2>3. published \in Nat /\ (published % 24 # 12 => posted'.time = published)
    BY <2>2 DEF FormInv
  <2> QED BY <1>1, <2>3 DEF FormInv, SavingKeepsTime
<1>3. CASE posted' = posted
  BY <1>1, <1>3 DEF FormInv, SavingKeepsTime
<1> QED BY <1>2, <1>3 DEF PostFormNext, Save, Approve, Delete, Reject, Confirmed, formVars

LEMMA FormStart == PostFormInit => FormInv
  BY PostFormAssumption DEF PostFormAssumption, PostFormInit, FormInv, SavingKeepsTime,
     NotSent

\* The script sends the time of publication back as it was, whatever the time, if
\* that is not in the hour after noon (manager.Manage, util.js).
THEOREM TimeIsKept == PostFormSpec => []SavingKeepsTime
<1>1. FormInv => SavingKeepsTime
  BY DEF FormInv
<1> QED BY <1>1, FormStart, FormStep, PTL DEF PostFormSpec

\* What the buttons append to the form's action.
FormSuffixes == {"/approve", "/delete", "/delete?reject=true", "?status=pending"}

LEMMA PathOfNone == Path(<<>>) = "edit" /\ Query(<<>>) = "none"
  BY DEF Path, Query

LEMMA PathOfOne ==
    ASSUME NEW x \in FormSuffixes
    PROVE  /\ Path(<<x>>) = IF x = "?status=pending" THEN "edit"
                            ELSE IF x = "/approve" THEN "approve" ELSE "delete"
           /\ Query(<<x>>) = IF x \in {"?status=pending", "/delete?reject=true"}
                             THEN x ELSE "none"
<1> DEFINE action == <<x>>
           Asks(i) == action[i] \in {"?status=pending", "/delete?reject=true"}
           Slashes == {i \in DOMAIN action : action[i] # "?status=pending"
                                             /\ \A j \in 1 .. i - 1 : ~Asks(j)}
<1>1. DOMAIN action = {1} /\ Len(action) = 1 /\ action[1] = x
  OBVIOUS
<1>2. CASE x = "?status=pending"
  <2>1. Slashes = {}
    BY <1>1, <1>2
  <2> QED BY <1>1, <1>2, <2>1 DEF Path, Query
<1>3. CASE x # "?status=pending"
  <2>1. Slashes = {1}
    BY <1>1, <1>3
  <2>2. Path(action) = IF action[CHOOSE i \in Slashes : TRUE] = "/approve"
                       THEN "approve" ELSE "delete"
    BY <2>1 DEF Path
  <2>3. (CHOOSE i \in Slashes : TRUE) = 1
    BY <2>1
  <2>4. Query(action) = IF x = "/delete?reject=true" THEN x ELSE "none"
    BY <1>1, <1>3 DEF Query
  <2> QED BY <1>1, <1>3, <2>2, <2>3, <2>4
<1> QED BY <1>2, <1>3

\* Until a confirmation is declined or something is sent, the action is what the
\* page came with, however many buttons there are.
ActionInv ==
    /\ formAction \in Seq(FormSuffixes)
    /\ posted = NotSent /\ ~declined => formAction = <<>> /\ clicks = <<>>
    /\ SentAsAsked

\* The click of a button, on an action as ActionInv describes it.
LEMMA ClickAction ==
    ASSUME ActionInv, NEW button \in {"save", "approve", "delete", "reject"},
           NEW suffix \in {<<>>} \cup {<<x>> : x \in FormSuffixes}, Click(button, suffix)
    PROVE  /\ formAction' \in Seq(FormSuffixes)
           /\ ~declined => formAction' = suffix /\ clicks' = <<button>>
           /\ UNCHANGED pendingTab
<1>1. formAction' = formAction \o suffix /\ clicks' = Append(clicks, button)
      /\ pendingTab' = pendingTab /\ posted = NotSent
  BY DEF Click
<1>2. formAction \in Seq(FormSuffixes) /\ suffix \in Seq(FormSuffixes)
  <2>1. CASE suffix = <<>>
    BY <2>1 DEF ActionInv
  <2>2. CASE \E x \in FormSuffixes : suffix = <<x>>
    BY <2>2 DEF ActionInv
  <2> QED BY <2>1, <2>2
<1>3. formAction' \in Seq(FormSuffixes)
  BY <1>1, <1>2
<1>4. ASSUME ~declined PROVE formAction' = suffix /\ clicks' = <<button>>
  <2>1. formAction = <<>> /\ clicks = <<>>
    BY <1>1, <1>4 DEF ActionInv
  <2> QED BY <1>1, <1>2, <2>1
<1> QED BY <1>1, <1>3, <1>4

\* What is sent is what the button asks for.
LEMMA SentInv ==
    ASSUME ActionInv, NEW button \in {"save", "approve", "delete", "reject"},
           NEW suffix \in {<<>>} \cup {<<x>> : x \in FormSuffixes},
           Click(button, suffix), SendForm(formAction'), UNCHANGED declined,
           button = "save" => suffix = IF pendingTab THEN <<"?status=pending">> ELSE <<>>,
           button = "approve" => suffix = <<"/approve">>,
           button = "delete" => suffix = <<"/delete">>,
           button = "reject" => suffix = <<"/delete?reject=true">>
    PROVE  ActionInv'
<1>1. /\ formAction' \in Seq(FormSuffixes)
      /\ ~declined => formAction' = suffix /\ clicks' = <<button>>
      /\ UNCHANGED pendingTab
  BY ClickAction
<1>2. /\ posted'.path = Path(formAction')
      /\ posted'.pending = (Query(formAction') = "?status=pending")
      /\ posted'.reject = (Query(formAction') = "/delete?reject=true")
  BY DEF SendForm
<1>3. CASE declined
  BY <1>1, <1>3 DEF ActionInv, SentAsAsked
<1>4. CASE ~declined
  <2>1. formAction' = suffix /\ clicks' = <<button>> /\ clicks'[Len(clicks')] = button
    <3>1. formAction' = suffix /\ clicks' = <<button>>
      BY <1>1, <1>4
    <3>2. Len(<<button>>) = 1 /\ <<button>>[1] = button
      OBVIOUS
    <3> QED BY ONLY <3>1, <3>2
  <2>2. /\ posted'.path = Expected[button]
        /\ posted'.reject <=> button = "reject"
        /\ posted'.pending <=> pendingTab /\ button = "save"
    <3>1. CASE button = "save" /\ pendingTab
      <4>1. suffix = <<"?status=pending">>
        BY <3>1
      <4>2. Path(suffix) = "edit" /\ Query(suffix) = "?status=pending"
        BY <4>1, PathOfOne DEF FormSuffixes
      <4> QED BY <1>2, <2>1, <3>1, <4>2 DEF Expected
    <3>2. CASE button = "save" /\ ~pendingTab
      <4>1. suffix = <<>>
        BY <3>2
      <4> QED BY <1>2, <2>1, <3>2, <4>1, PathOfNone DEF Expected
    <3>3. CASE button = "approve"
      <4>1. suffix = <<"/approve">>
        BY <3>3
      <4>2. Path(suffix) = "approve" /\ Query(suffix) = "none"
        BY <4>1, PathOfOne DEF FormSuffixes
      <4> QED BY <1>2, <2>1, <3>3, <4>2 DEF Expected
    <3>4. CASE button = "delete"
      <4>1. suffix = <<"/delete">>
        BY <3>4
      <4>2. Path(suffix) = "delete" /\ Query(suffix) = "none"
        BY <4>1, PathOfOne DEF FormSuffixes
      <4> QED BY <1>2, <2>1, <3>4, <4>2 DEF Expected
    <3>5. CASE button = "reject"
      <4>1. suffix = <<"/delete?reject=true">>
        BY <3>5
      <4>2. Path(suffix) = "delete" /\ Query(suffix) = "/delete?reject=true"
        BY <4>1, PathOfOne DEF FormSuffixes
      <4> QED BY <1>2, <2>1, <3>5, <4>2 DEF Expected
    <3> QED BY <3>1, <3>2, <3>3, <3>4, <3>5
  <2>3. posted'.path # "none"
    BY <2>2 DEF Expected
  <2>4. posted' # NotSent
    BY <2>3 DEF NotSent
  <2>5. SentAsAsked'
    BY <1>1, <1>4, <2>1, <2>2 DEF SentAsAsked
  <2> QED BY <1>1, <2>4, <2>5 DEF ActionInv
<1> QED BY <1>3, <1>4

\* Of what is sent after a confirmation was declined, nothing is claimed.
LEMMA DeclinedInv ==
    ASSUME ActionInv, NEW button \in {"delete", "reject"},
           NEW x \in {"/delete", "/delete?reject=true"},
           Click(button, <<x>>), declined' = TRUE, UNCHANGED posted
    PROVE  ActionInv'
<1>1. formAction' \in Seq(FormSuffixes)
  BY ClickAction DEF FormSuffixes
<1> QED BY <1>1 DEF ActionInv, SentAsAsked

LEMMA ActionStep == ActionInv /\ [PostFormNext]_formVars => ActionInv'
<1> SUFFICES ASSUME ActionInv, [PostFormNext]_formVars PROVE ActionInv'
  OBVIOUS
<1>1. CASE Save
  <2>1. PICK suffix \in {<<>>} \cup {<<x>> : x \in FormSuffixes} :
            /\ suffix = IF pendingTab THEN <<"?status=pending">> ELSE <<>>
            /\ Click("save", suffix)
    BY <1>1 DEF Save, FormSuffixes
  <2> QED BY <1>1, <2>1, SentInv DEF Save
<1>2. CASE Approve
  BY <1>2, SentInv DEF Approve, FormSuffixes
<1>3. ASSUME NEW yes \in BOOLEAN, Delete(yes) PROVE ActionInv'
  <2>1. Click("delete", <<"/delete">>) /\ Confirmed(yes)
    BY <1>3 DEF Delete
  <2>2. CASE SendForm(formAction') /\ UNCHANGED declined
    BY <2>1, <2>2, SentInv DEF FormSuffixes
  <2>3. CASE declined' = TRUE /\ UNCHANGED posted
    BY <2>1, <2>3, DeclinedInv
  <2> QED BY <2>1, <2>2, <2>3 DEF Confirmed
<1>4. ASSUME NEW yes \in BOOLEAN, Reject(yes) PROVE ActionInv'
  <2>1. Click("reject", <<"/delete?reject=true">>) /\ Confirmed(yes)
    BY <1>4 DEF Reject
  <2>2. CASE SendForm(formAction') /\ UNCHANGED declined
    BY <2>1, <2>2, SentInv DEF FormSuffixes
  <2>3. CASE declined' = TRUE /\ UNCHANGED posted
    BY <2>1, <2>3, DeclinedInv
  <2> QED BY <2>1, <2>2, <2>3 DEF Confirmed
<1>5. CASE UNCHANGED formVars
  BY <1>5 DEF formVars, ActionInv, SentAsAsked
<1> QED BY <1>1, <1>2, <1>3, <1>4, <1>5 DEF PostFormNext

LEMMA ActionStart == PostFormInit => ActionInv
<1> SUFFICES ASSUME PostFormInit PROVE ActionInv
  OBVIOUS
<1>1. formAction = <<>> /\ clicks = <<>> /\ posted = NotSent /\ ~declined
  BY Zenon DEF PostFormInit
<1>2. formAction \in Seq(FormSuffixes)
  BY <1>1
<1>3. SentAsAsked
  BY <1>1 DEF SentAsAsked, NotSent
<1> QED BY <1>1, <1>2, <1>3 DEF ActionInv

\* Until a confirmation was declined, the button clicked last decides what is done
\* to the item (editor.Form, server.go).
THEOREM ButtonsAreHeeded == PostFormSpec => []SentAsAsked
<1>1. ActionInv => SentAsAsked
  BY DEF ActionInv
<1> QED BY <1>1, ActionStart, ActionStep, PTL DEF PostFormSpec

\* The two together: until a confirmation was declined, a post does what its button
\* stands for, and outside the hour after noon with the item's own time.
THEOREM PostsAreAsAsked == PostFormSpec => []PostedAsAsked
<1>1. SavingKeepsTime /\ SentAsAsked => PostedAsAsked
  BY DEF PostedAsAsked
<1> QED BY <1>1, TimeIsKept, ButtonsAreHeeded, PTL

\* The requests a form can send.
Requests == [path : {"none", "edit", "approve", "delete", "not found"},
             pending : BOOLEAN, reject : BOOLEAN, time : Nat]
PostInv == FormInv /\ ActionInv /\ posted \in Requests

LEMMA PostStart == PostFormInit => PostInv
<1>1. PostFormInit => posted = NotSent
  BY DEF PostFormInit
<1>2. NotSent \in Requests
  BY DEF NotSent, Requests
<1> QED BY <1>1, <1>2, FormStart, ActionStart DEF PostInv

LEMMA PostStep == PostInv /\ [PostFormNext]_formVars => PostInv'
<1> SUFFICES ASSUME PostInv, [PostFormNext]_formVars PROVE posted' \in Requests
  BY FormStep, ActionStep DEF PostInv
<1>1. CASE SendForm(formAction')
  <2>1. Path(formAction') \in {"edit", "approve", "delete", "not found"}
    BY Zenon DEF Path
  <2>2. updateTimestamp(dateFields) \in Nat
    <3>1. published \in Nat /\ dateFields = setDefaultTimeAndDate(published)
      BY DEF PostInv, FormInv
    <3> QED BY <3>1, ThereAndBack
  <2> DEFINE path == Path(formAction')
             time == updateTimestamp(dateFields)
             query == Query(formAction')
  <2>3. posted' = [path |-> path, pending |-> query = "?status=pending",
                   reject |-> query = "/delete?reject=true", time |-> time]
    BY <1>1 DEF SendForm
  <2> HIDE DEF path, time, query
  <2> QED BY <2>1, <2>2, <2>3 DEF Requests, path, time
<1>2. CASE posted' = posted
  BY <1>2 DEF PostInv
<1> QED BY <1>1, <1>2, Zenon
        DEF PostFormNext, Save, Approve, Delete, Reject, Confirmed, formVars

LEMMA PostType == PostInv => PostFormTypeOK
<1> SUFFICES ASSUME PostInv PROVE PostFormTypeOK
  OBVIOUS
<1>1. published \in Nat /\ dateFields = setDefaultTimeAndDate(published)
  BY DEF PostInv, FormInv
<1>2. dateFields \in [day : Nat, hh : 0 .. 12, pd : {"AM", "PM"}]
  BY <1>1 DEF setDefaultTimeAndDate, getPartialTime, getPartialDate
<1> QED BY <1>1, <1>2 DEF PostInv, ActionInv, FormSuffixes, Requests, PostFormTypeOK

\* The fields hold a date and an hour of twelve, the action is made of what the
\* buttons append, and what is sent is a request of the form (editor.Form, util.js).
THEOREM PostFormTypeCorrect == PostFormSpec => []PostFormTypeOK
  BY PostStart, PostStep, PostType, PTL DEF PostFormSpec

------------------------------------------------------------------------------
(* A session in a field: the type invariant, the two invariants that tie   *)
(* the hidden input and History to the content, and undo's promise.        *)

SessionInv == SessionTypeOK /\ HiddenIsShown /\ ShownIsRecorded

\* What a snapshot of the array, and an array with a new one, are.
LEMMA SnapshotType ==
    ASSUME SessionTypeOK
    PROVE  \A i \in 0 .. Len(records) - 1 : records[i + 1] \in Contents
  BY DEF SessionTypeOK

LEMMA RecordType ==
    ASSUME SessionTypeOK, NEW c \in Contents, Record(c)
    PROVE  /\ records' \in Seq(Contents)
           /\ offset' \in 0 .. Len(records') - 1
           /\ records'[offset' + 1] = c
<1>1. /\ SubSeq(records, 1, offset + 1) \in Seq(Contents)
      /\ Len(SubSeq(records, 1, offset + 1)) = offset + 1
  BY DEF SessionTypeOK
<1> QED BY <1>1 DEF SessionTypeOK, Record, Log!recordUndo

LEMMA PlainType == \A c \in Contents : replaceBadChars(c) \in Contents
  BY SessionAssumption DEF Contents, replaceBadChars

\* After an event the hidden input holds the content.
LEMMA Announced ==
    ASSUME triggerOnChange, shown' \in Contents
    PROVE  hidden' \in Contents /\ unannounced' = FALSE /\ HiddenIsShown'
<1>1. hidden' = replaceBadChars(shown)' /\ unannounced' = FALSE
  BY DEF triggerOnChange, replaceBadChars
<1>2. replaceBadChars(shown)' \in Contents
  BY PlainType DEF replaceBadChars
<1> QED BY <1>1, <1>2 DEF HiddenIsShown

LEMMA SessionStart == SessionInit => SessionInv
<1> SUFFICES ASSUME SessionInit PROVE SessionInv
  OBVIOUS
<1>1. Blank \in Contents
  BY DEF Blank, Contents
<1>2. records \in Seq(Contents) /\ offset \in 0 .. Len(records) - 1 /\ records[offset + 1] = Blank
  BY <1>1 DEF SessionInit, Log!HistoryInit
<1> QED BY <1>1, <1>2 DEF SessionInit, SessionInv, SessionTypeOK, HiddenIsShown, ShownIsRecorded

LEMMA SessionStep == SessionInv /\ [SessionNext]_sessionVars => SessionInv'
<1> SUFFICES ASSUME SessionInv, [SessionNext]_sessionVars PROVE SessionInv'
  OBVIOUS
<1> USE DEF SessionInv, SessionTypeOK, ShownIsRecorded
<1>1. CASE Command
  BY <1>1, RecordType, Announced DEF Command
<1>2. CASE SilentChange
  BY <1>2 DEF SilentChange, HiddenIsShown
<1>3. CASE Type
  BY <1>3, Announced DEF Type
<1>4. CASE EditKey
  BY <1>4, RecordType, Announced DEF EditKey
<1>5. CASE UndoShown
  <2>1. /\ offset' \in 0 .. Len(records) - 1 /\ records' = records
        /\ shown' = records[offset' + 1] /\ shown' \in Contents
    BY <1>5, SnapshotType DEF UndoShown, Apply, Log!undo
  <2> QED BY <1>5, <2>1, Announced DEF UndoShown, Apply, HiddenIsShown
<1>6. CASE RedoShown
  <2>1. /\ offset' \in 0 .. Len(records) - 1 /\ records' = records
        /\ shown' = records[offset' + 1] /\ shown' \in Contents
    BY <1>6, SnapshotType DEF RedoShown, Apply, Log!redo
  <2> QED BY <1>6, <2>1, Announced DEF RedoShown, Apply, HiddenIsShown
<1>7. CASE UndoNothing
  BY <1>7, Announced DEF UndoNothing
<1>8. CASE Activate
  BY <1>8 DEF Activate, HiddenIsShown
<1>9. CASE EditCode
  BY <1>9 DEF EditCode, HiddenIsShown
<1>10. CASE Deactivate
  <2>1. shown' \in Contents
    BY <1>10, SessionAssumption DEF Deactivate, Contents
  <2>2. HiddenIsShown'
    <3>1. CASE triggerOnChange
      BY <2>1, <3>1, Announced
    <3>2. CASE shown' = shown /\ UNCHANGED <<hidden, unannounced>>
      BY <3>2 DEF HiddenIsShown, replaceBadChars
    <3> QED BY <1>10, <3>1, <3>2 DEF Deactivate
  <2>3. ShownIsRecorded'
    BY <1>10 DEF Deactivate
  <2>4. SessionTypeOK'
    BY <1>10, <2>1, Announced DEF Deactivate
  <2> QED BY <2>2, <2>3, <2>4
<1>11. ASSUME NEW img \in Images, Upload(img) PROVE SessionInv'
  BY <1>11 DEF Upload, HiddenIsShown
<1>12. ASSUME NEW img \in Images, UploadAnswer(img) PROVE SessionInv'
  <2>1. shown' \in Contents
    <3>1. img \in Pieces
      BY SessionAssumption
    <3> QED BY <1>12, <3>1 DEF UploadAnswer, Contents
  <2>2. uploads' \in SUBSET Images
    BY <1>12 DEF UploadAnswer
  <2> QED BY <1>12, <2>1, <2>2, RecordType, Announced DEF UploadAnswer
<1>13. ASSUME NEW img \in Images, UploadError(img) PROVE SessionInv'
  BY <1>13 DEF UploadError, HiddenIsShown
<1>14. CASE Submit
  BY <1>14 DEF Submit, HiddenIsShown
<1>15. CASE UNCHANGED sessionVars
  BY <1>15 DEF sessionVars, HiddenIsShown, replaceBadChars
<1> QED
  BY <1>1, <1>2, <1>3, <1>4, <1>5, <1>6, <1>7, <1>8, <1>9, <1>10, <1>11, <1>12,
     <1>13, <1>14, <1>15 DEF SessionNext

THEOREM SessionInvariant == SessionSpec => []SessionInv
  BY SessionStart, SessionStep, PTL DEF SessionSpec

\* Every content and flag of a session stays in its set, and the offset in the
\* array of snapshots, so that undo and redo always find one.
THEOREM SessionTypeCorrect == SessionSpec => []SessionTypeOK
<1>1. SessionInv => SessionTypeOK
  BY DEF SessionInv
<1> QED BY <1>1, SessionInvariant, PTL

\* In a session of any length, with any uploads under way, the hidden input the
\* form sends is what the editable holds, unless an unannounced change was made.
THEOREM HiddenFollows == SessionSpec => []HiddenIsShown
<1>1. SessionInv => HiddenIsShown
  BY DEF SessionInv
<1> QED BY <1>1, SessionInvariant, PTL

\* The content of the editable is the snapshot undo starts from, unless a change
\* was made that is not recorded.
THEOREM HistoryFollows == SessionSpec => []ShownIsRecorded
<1>1. SessionInv => ShownIsRecorded
  BY DEF SessionInv
<1> QED BY <1>1, SessionInvariant, PTL

\* The two together: what is shown, what is sent and what undo starts from agree.
THEOREM CopiesStayInStep == SessionSpec => []CopiesAgree
<1>1. HiddenIsShown /\ ShownIsRecorded => CopiesAgree
  BY DEF CopiesAgree
<1> QED BY <1>1, HiddenFollows, HistoryFollows, PTL

LogProofs == INSTANCE NoteHistoryProofs WITH
    Snapshots <- Contents, stack <- records, stackOffset <- offset

\* Commands, typing, undo, redo, the code view and late answers of uploads in any
\* order move along one line of recorded contents, as undo promises.
THEOREM SessionKeepsPromise == SessionSpec => SessionKeepsUndoPromise
<1>1. SessionInit => \E s \in Contents : LogProofs!HistoryInit(s)
  <2>1. Blank \in Contents
    BY DEF Blank, Contents
  <2> QED BY <2>1 DEF SessionInit, Log!HistoryInit, LogProofs!HistoryInit
<1>2. SessionInv /\ SessionInv' /\ [SessionNext]_sessionVars
      => [LogProofs!HistoryNext]_(LogProofs!historyVars)
  <2> SUFFICES ASSUME SessionInv, SessionInv', [SessionNext]_sessionVars
               PROVE  [LogProofs!HistoryNext]_(LogProofs!historyVars)
    OBVIOUS
  <2>1. ASSUME NEW c \in Contents, Record(c) PROVE LogProofs!HistoryNext
    BY <2>1 DEF Record, Log!recordUndo, LogProofs!HistoryNext, LogProofs!recordUndo
  <2>2. shown \in Contents /\ shown' \in Contents
    BY DEF SessionInv, SessionTypeOK
  <2>3. CASE Command \/ EditKey \/ \E img \in Images : UploadAnswer(img)
    BY <2>1, <2>2, <2>3 DEF Command, EditKey, UploadAnswer
  <2>4. CASE UndoShown \/ RedoShown
    BY <2>4 DEF UndoShown, RedoShown, Log!undo, Log!redo, LogProofs!HistoryNext,
                LogProofs!undo, LogProofs!redo
  <2>5. CASE UNCHANGED <<records, offset>>
    BY <2>5 DEF LogProofs!historyVars
  <2>6. CASE SilentChange \/ Type \/ UndoNothing \/ Activate \/ EditCode \/ Deactivate
             \/ Submit \/ \E img \in Images : Upload(img) \/ UploadError(img)
    BY <2>5, <2>6 DEF SilentChange, Type, UndoNothing, Activate, EditCode, Deactivate,
                      Submit, Upload, UploadError
  <2>7. CASE UNCHANGED sessionVars
    BY <2>5, <2>7 DEF sessionVars
  <2> QED BY <2>3, <2>4, <2>6, <2>7 DEF SessionNext
<1>3. SessionSpec => LogProofs!HistorySpec
  BY <1>1, <1>2, SessionInvariant, PTL DEF SessionSpec, LogProofs!HistorySpec
<1>4. LogProofs!HistorySpec => LogProofs!KeepsUndoPromise
  BY LogProofs!HistoryKeepsPromise
<1>5. LogProofs!KeepsUndoPromise => SessionKeepsUndoPromise
  BY PTL DEF SessionKeepsUndoPromise, Log!KeepsUndoPromise, LogProofs!KeepsUndoPromise,
             Log!Promise!UndoRedoSpec, Log!Promise!UndoRedoInit, Log!Promise!Record,
             Log!Promise!TakeBack, Log!Promise!PutBack,
             LogProofs!Promise!UndoRedoSpec, LogProofs!Promise!UndoRedoInit,
             LogProofs!Promise!Record, LogProofs!Promise!TakeBack, LogProofs!Promise!PutBack
<1> QED BY <1>3, <1>4, <1>5, PTL
==============================================================================
