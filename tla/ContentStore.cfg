SPECIFICATION Spec
CONSTANTS
    r1 = r1
    r2 = r2
    u1 = u1
    post = post
    title = title
    f1 = f1
    f2 = f2
    v1 = v1
    Types <- OnePost
    Bases <- OneTitle
    MaxSuffix = 1
    ClientSlugs <- TitleSlug
    Fields = {f1}
    Values = {}
    Blank = Blank
    MaxId = 2
    Requests <- TwoRequests
    Uploads = {u1}
    Uploaded = Uploaded
    NoSlug = NoSlug
    NoItem = NoItem
    NoTarget = NoTarget
SYMMETRY RequestSymmetry
INVARIANTS TypeOK IndexSound NothingBeyondSequence SlugForLife
PROPERTIES IndexMovesForward ImplementsDirectory
