SPECIFICATION PageSpec
CONSTANTS
    wordSpot = wordSpot
    caretSpot = caretSpot
    Documents <- SomeDocuments
    Budget <- SmallBudget
    MaxNodes = 7
    Pieces = {"image", "para", "quote"}
    Images = {"image"}
    Plain <- PlainPieces
    EmptyPara = "para"
    MaxRecords = 2
    Spots = {wordSpot, caretSpot}
    Elsewhere = Elsewhere
    WordAt <- Words
    Entries = {"u"}
    MaxShowings = 3
    Editors = {e1, e2}
    Targets = {t1, t2}
    Outside = Outside
    Markups <- SmallMarkups
    Buttons = {b1, b2}
    NoButton = NoButton
    Delay = 2
    MaxFades = 2
    Times = {0, 1, 11, 12, 13, 23, 24, 36}
    MaxClicks = 3
INVARIANTS
    PageTypeOK
    SnapshotIsCurrent
    WordBeforeCaret
    CopiesAgree
    FieldsReachOneSpot
    ResizingGetsRecorded
    DropzoneFollowsDrag
    LayoutKeepsMarkup
    NoTooltipIsLeftBehind
    PostedAsAsked
PROPERTIES
    SelectionKept
    TextKept
    StructureKept
    SessionKeepsUndoPromise
    FirstUseAsAsked
    LayoutEnds
    TooltipsSettle
CHECK_DEADLOCK FALSE
