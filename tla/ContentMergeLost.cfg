SPECIFICATION Spec
CONSTANTS
    r1 = r1
    r2 = r2
    u1 = u1
    post = post
    title = title
    f1 = f1
    f2 = f2
    v1 = v1
    Types <- OnePost
    Bases <- OneTitle
    MaxSuffix = 0
    ClientSlugs = {}
    Fields = {f1, f2}
    Values = {v1}
    Blank = Blank
    MaxId = 1
    Requests <- TwoRequests
    Uploads = {}
    Uploaded = Uploaded
    NoSlug = NoSlug
    NoItem = NoItem
    NoTarget = NoTarget
PROPERTY MergeKeepsOtherFields
