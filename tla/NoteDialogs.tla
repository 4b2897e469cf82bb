------------------------------ MODULE NoteDialogs ------------------------------
(***************************************************************************)
(* LinkDialog and ImageDialog of the rich-text editor (materialNote.js).   *)
(* Each showing adds its handlers to the controls of the one dialog, and   *)
(* those of earlier showings stay: a click runs them all, in order.  An    *)
(* image from a url is inserted when it has loaded, one from a file when   *)
(* its upload is answered, and either where the selection is by then.  A   *)
(* text is "" where the selection is a caret.  Check boxes, labels, and    *)
(* the classes of buttons are left out: Enter clicks a disabled button too.*)
(***************************************************************************)
EXTENDS Integers, Sequences

CONSTANTS
    Spots,       \* the places of the document that get selected; none overlap
    Elsewhere,   \* outside of the document, as in a field of a dialog
    WordAt,      \* the text of each at first
    Entries,     \* what the user types in a field
    MaxShowings  \* bound on the showings of the two dialogs

ASSUME DialogAssumption ==
    /\ Elsewhere \notin Spots
    /\ WordAt \in [Spots -> STRING]
    /\ Entries \subseteq STRING
    /\ MaxShowings \in Nat

VARIABLES
    selected,     \* the selection
    savedRange,   \* the range that saveRange keeps with the editable
    dialog,       \* the dialog that is open
    spots,        \* per spot, its text and the url of its link, "" for none
    textField,    \* .note-link-text
    urlField,     \* .note-link-url
    linkInfos,    \* linkInfo of each showing, and whether its range is stale
    handlers,     \* the showings whose handler for one click is left
    clicking,     \* a click on the link button has handlers to run
    imageUrl,     \* .note-image-url
    pendingImage, \* per showing of the image dialog: its deferred is not resolved
    images,       \* images asked for: [by: a url or "file", asked: the spot,
                  \*   state: loading, inserted or failed, at: where it is inserted,
                  \*   moved: the selection moved while it was loading]
    given,        \* links that got the fields of the click under way
    wordTyped,    \* the user typed in the text field in this showing
    abandoned     \* a showing of the link dialog was closed without a link

linkVars == <<spots, textField, urlField, linkInfos, handlers, clicking, given, wordTyped,
              abandoned>>
imageVars == <<imageUrl, pendingImage, images>>
dialogVars == <<selected, savedRange, dialog, linkVars, imageVars>>

DialogInit ==
    /\ selected \in Spots
    /\ savedRange = selected
    /\ dialog = "closed"
    /\ spots = [s \in Spots |-> [text |-> WordAt[s], url |-> ""]]
    /\ textField = "" /\ urlField = ""
    /\ linkInfos = <<>> /\ handlers = <<>>
    /\ clicking = FALSE
    /\ imageUrl = "" /\ pendingImage = <<>> /\ images = <<>>
    /\ given = 0 /\ wordTyped = FALSE /\ abandoned = FALSE

\* Images that are still loading will not be where they were asked for.
SelectionMoves ==
    /\ images' = [i \in DOMAIN images |->
           [images[i] EXCEPT !.moved = @ \/ images[i].state = "loading"]]
    /\ UNCHANGED imageUrl

SelectSpot(s) ==
    /\ dialog = "closed" /\ ~clicking
    /\ selected' = s
    /\ SelectionMoves
    /\ UNCHANGED <<savedRange, dialog, linkVars, pendingImage>>

\* The buttons that close a dialog resolve nothing: no range is restored.
Close ==
    /\ dialog # "closed" /\ ~clicking
    /\ dialog' = "closed"
    /\ abandoned' = (abandoned \/ dialog = "link")
    /\ UNCHANGED <<selected, savedRange, spots, textField, urlField, linkInfos, handlers,
                   clicking, given, wordTyped, imageVars>>

------------------------------------------------------------------------------

\* saveRange: the editable gets the focus, and with it a selection in it.  The
\* focus goes on to the dialog, the selection with it in some browsers.
SaveRange ==
    /\ savedRange' \in (IF selected \in Spots THEN {selected} ELSE Spots)
    /\ selected' \in {savedRange', Elsewhere}
    /\ SelectionMoves

\* show, getLinkInfo and showLinkDialog.  The url field starts with the link's
\* url, else with the text, else with "http://".
ShowLinkDialog ==
    /\ dialog = "closed" /\ ~clicking
    /\ Len(linkInfos) + Len(pendingImage) < MaxShowings
    /\ dialog' = "link"
    /\ SaveRange
    /\ LET here == spots[savedRange'] IN
       /\ linkInfos' = Append(linkInfos, [range |-> savedRange', text |-> here.text,
                                          stale |-> FALSE])
       /\ textField' = here.text
       /\ urlField' = (IF here.url # "" THEN here.url
                       ELSE IF here.text # "" THEN here.text ELSE "http://")
    /\ handlers' = Append(handlers, Len(linkInfos) + 1)
    /\ wordTyped' = FALSE
    /\ UNCHANGED <<spots, clicking, given, abandoned, pendingImage>>

\* Mutant: the url is copied over a text, too.
CopyUrl(entry) ==
    /\ dialog = "link" /\ ~clicking
    /\ urlField' = entry
    /\ textField' = entry
    /\ UNCHANGED <<selected, savedRange, dialog, spots, linkInfos, handlers, clicking,
                   given, wordTyped, abandoned, imageVars>>

\* keyup in the url field: the handler of each showing without a text copies the
\* url to the text field.
TypeLinkUrl(entry) ==
    /\ dialog = "link" /\ ~clicking
    /\ urlField' = entry
    /\ textField' = (IF \E i \in DOMAIN linkInfos : linkInfos[i].text = ""
                     THEN entry ELSE textField)
    /\ UNCHANGED <<selected, savedRange, dialog, spots, linkInfos, handlers, clicking,
                   given, wordTyped, abandoned, imageVars>>

\* keyup in the text field: every showing takes the text.
TypeLinkText(entry) ==
    /\ dialog = "link" /\ ~clicking
    /\ textField' = entry
    /\ linkInfos' = [i \in DOMAIN linkInfos |-> [linkInfos[i] EXCEPT !.text = entry]]
    /\ wordTyped' = TRUE
    /\ UNCHANGED <<selected, savedRange, dialog, spots, urlField, handlers, clicking,
                   given, abandoned, imageVars>>

ClickLink ==
    /\ dialog = "link" /\ ~clicking
    /\ clicking' = TRUE
    /\ given' = 0
    /\ UNCHANGED <<selected, savedRange, dialog, spots, textField, urlField, linkInfos,
                   handlers, wordTyped, abandoned, imageVars>>

\* createLink in a range, with what the fields hold by now.
LinkAt(range) ==
    /\ spots' = [spots EXCEPT ![range] = [text |-> textField, url |-> urlField]]
    /\ linkInfos' = [i \in DOMAIN linkInfos |->
           [linkInfos[i] EXCEPT !.stale = @ \/ linkInfos[i].range = range]]
    /\ selected' = range
    /\ SelectionMoves
    /\ given' = given + (IF urlField # "" THEN 1 ELSE 0)
    /\ dialog' = "closed"
    /\ handlers' = Tail(handlers)
    /\ clicking' = (handlers' # <<>>)
    /\ UNCHANGED <<savedRange, wordTyped, abandoned, pendingImage>>

\* Mutant: the fields keep what they hold.
LinkHandlerUncleared ==
    /\ clicking /\ handlers # <<>>
    /\ LinkAt(linkInfos[Head(handlers)].range)
    /\ UNCHANGED <<textField, urlField>>

\* The first handler left: createLink in the range of its showing, after which
\* the fields are cleared.
RunLinkHandler ==
    /\ clicking /\ handlers # <<>>
    /\ LinkAt(linkInfos[Head(handlers)].range)
    /\ textField' = "" /\ urlField' = ""

\* In a range whose nodes are no longer what they were, toString may throw: the
\* remaining handlers wait for another click.
LinkHandlerThrows ==
    /\ clicking /\ handlers # <<>>
    /\ linkInfos[Head(handlers)].stale
    /\ selected' = savedRange
    /\ SelectionMoves
    /\ handlers' = Tail(handlers)
    /\ clicking' = FALSE
    /\ UNCHANGED <<savedRange, dialog, spots, textField, urlField, linkInfos, given,
                   wordTyped, abandoned, pendingImage>>

\* The handlers of all showings have run: nothing happens.
ClickLinkInVain ==
    /\ clicking /\ handlers = <<>>
    /\ clicking' = FALSE
    /\ UNCHANGED <<selected, savedRange, dialog, spots, textField, urlField, linkInfos,
                   handlers, given, wordTyped, abandoned, imageVars>>

------------------------------------------------------------------------------

ShowImageDialog ==
    /\ dialog = "closed" /\ ~clicking
    /\ Len(linkInfos) + Len(pendingImage) < MaxShowings
    /\ dialog' = "image"
    /\ SaveRange
    /\ pendingImage' = Append(pendingImage, TRUE)
    /\ UNCHANGED linkVars

TypeImageUrl(entry) ==
    /\ dialog = "image"
    /\ imageUrl' = entry
    /\ UNCHANGED <<selected, savedRange, dialog, linkVars, pendingImage, images>>

\* Mutant: the range that was saved is not restored.
AskedUnrestored(by) ==
    /\ selected' = selected
    /\ images' = Append(images, [by |-> by, asked |-> savedRange, state |-> "loading",
                                 at |-> Elsewhere, moved |-> FALSE])

\* restoreRange, and then insertImage or the upload of a file starts.
Asked(by) ==
    /\ selected' = savedRange
    /\ images' = Append(images, [by |-> by, asked |-> savedRange, state |-> "loading",
                                 at |-> Elsewhere, moved |-> FALSE])

\* change of the file input, which is cloned afresh by each showing.
ChooseFile ==
    /\ dialog = "image"
    /\ pendingImage[Len(pendingImage)]
    /\ pendingImage' = [pendingImage EXCEPT ![Len(pendingImage)] = FALSE]
    /\ Asked("file")
    /\ imageUrl' = ""
    /\ dialog' = "closed"
    /\ UNCHANGED <<savedRange, linkVars>>

\* Mutant: the fields are cleared before they are read.
ClickImageTooLate ==
    /\ dialog = "image"
    /\ selected' = savedRange
    /\ pendingImage' = [i \in DOMAIN pendingImage |-> FALSE]
    /\ imageUrl' = ""
    /\ dialog' = "closed"
    /\ UNCHANGED <<images, savedRange, linkVars>>

\* The handlers of all showings run: the first one has the url, if its deferred
\* still takes it, and clears the field; the others resolve theirs with "",
\* which no image loads from.
ClickImage ==
    /\ dialog = "image"
    /\ IF pendingImage[1] /\ imageUrl # ""
       THEN Asked(imageUrl)
       ELSE UNCHANGED images /\ selected' = savedRange
    /\ pendingImage' = [i \in DOMAIN pendingImage |-> FALSE]
    /\ imageUrl' = ""
    /\ dialog' = "closed"
    /\ UNCHANGED <<savedRange, linkVars>>

\* The load event, or the answer to the upload: insertNode at the selection of
\* that moment, in place of what is selected.
ImageArrives(i) ==
    /\ images[i].state = "loading" /\ ~clicking
    /\ images' = [images EXCEPT ![i].state = "inserted", ![i].at = selected]
    /\ spots' = [s \in Spots |-> IF s = selected THEN [text |-> "", url |-> ""] ELSE spots[s]]
    /\ linkInfos' = [j \in DOMAIN linkInfos |->
           [linkInfos[j] EXCEPT !.stale = @ \/ linkInfos[j].range = selected]]
    /\ UNCHANGED <<selected, savedRange, dialog, textField, urlField, handlers, clicking,
                   given, wordTyped, abandoned, imageUrl, pendingImage>>

\* The error or abort event, or an upload that is refused.
ImageFails(i) ==
    /\ images[i].state = "loading" /\ ~clicking
    /\ images' = [images EXCEPT ![i].state = "failed"]
    /\ UNCHANGED <<selected, savedRange, dialog, linkVars, imageUrl, pendingImage>>

DialogNext ==
    \/ \E s \in Spots : SelectSpot(s)
    \/ Close
    \/ ShowLinkDialog
    \/ \E entry \in Entries :
          TypeLinkUrl(entry) \/ TypeLinkText(entry) \/ TypeImageUrl(entry)
    \/ ClickLink
    \/ RunLinkHandler
    \/ LinkHandlerThrows
    \/ ClickLinkInVain
    \/ ShowImageDialog
    \/ ChooseFile
    \/ ClickImage
    \/ \E i \in DOMAIN images : ImageArrives(i) \/ ImageFails(i)

DialogSpec == DialogInit /\ [][DialogNext]_dialogVars

------------------------------------------------------------------------------
(* Properties.                                                             *)

\* Nothing gets into a field or a link that was not there or typed.
FieldTexts == Entries \cup {WordAt[s] : s \in Spots} \cup {"", "http://"}

DialogTypeOK ==
    /\ selected \in Spots \cup {Elsewhere} /\ savedRange \in Spots
    /\ dialog \in {"closed", "link", "image"}
    /\ spots \in [Spots -> [text : FieldTexts, url : FieldTexts]]
    /\ textField \in FieldTexts /\ urlField \in FieldTexts /\ imageUrl \in FieldTexts
    /\ linkInfos \in Seq([range : Spots, text : FieldTexts, stale : BOOLEAN])
    /\ handlers \in Seq(1 .. Len(linkInfos))
    /\ {clicking, wordTyped, abandoned} \subseteq BOOLEAN
    /\ pendingImage \in Seq(BOOLEAN)
    /\ images \in Seq([by : FieldTexts \cup {"file"}, asked : Spots,
                       state : {"loading", "inserted", "failed"},
                       at : Spots \cup {Elsewhere}, moved : BOOLEAN])
    /\ given \in Nat

\* However many showings were closed without a link, the fields of a click reach
\* one place of the document at most (one, and the clearing after createLink).
FieldsReachOneSpot == given <= 1

\* As long as no showing was closed without a link and none was at a caret, a
\* link leaves the words as they are, unless the user types another text, or an
\* image came in the word's place: typing a url does not touch a text that is
\* there (showLinkDialog).
LinkKeepsWord ==
    /\ clicking /\ handlers # <<>> /\ ~linkInfos[Head(handlers)].stale
    /\ ~abandoned /\ ~wordTyped
    /\ \A i \in DOMAIN linkInfos : linkInfos[i].text # ""
    => \A s \in Spots : spots'[s].text = spots[s].text

\* However many showings were closed before without an image, the first one that
\* is accepted starts to load its image (showImageDialog).  A later url gets lost.
FirstImageAsked ==
    /\ dialog = "image" /\ dialog' = "closed" /\ pendingImage' # pendingImage
    /\ pendingImage[1] /\ imageUrl # ""
    => /\ Len(images') = Len(images) + 1
       /\ images'[Len(images')].by \in {"file", imageUrl}

\* An image is inserted where its dialog was shown, however late it loads, unless
\* the selection moved in between, by the user, a dialog or a link: then it is
\* wherever the selection went, or in the dialog (restoreRange, insertImage).
ImagesWhereAsked ==
    \A i \in DOMAIN images :
        images[i].state = "inserted" /\ ~images[i].moved => images[i].at = images[i].asked

\* The three: the first use of a dialog does what its fields say.
FirstUseAsAsked == [][LinkKeepsWord /\ FirstImageAsked /\ ImagesWhereAsked']_dialogVars
=============================================================================
