---------------------------- MODULE ContentStore ----------------------------
(***************************************************************************)
(* The content buckets of system/db/content.go, the __contentIndex that    *)
(* maps a slug to "type:id", and the request handlers that change them:    *)
(* the content API (create, update, delete) and the admin pages (create,   *)
(* save, approve, reject, delete).  Uploaded files have records of their   *)
(* own, but their names are entered in the same index (db.SetUpload).      *)
(*                                                                         *)
(* One bolt write transaction is one step: bolt has one writer, and its    *)
(* transactions commit entirely or not at all.  Reads that a handler makes *)
(* in a transaction of their own (db.Content, checkSlugForDuplicate) are   *)
(* steps of their own, so other handlers run between a read and the write  *)
(* that uses it.  A request is a goroutine of the server, or an edit form  *)
(* open in an administrator's browser.                                     *)
(*                                                                         *)
(* What follows a transaction changes none of this state: sorting is in    *)
(* SortScheduler, cache invalidation in ConfigCache.                       *)
(***************************************************************************)
EXTENDS Naturals

CONSTANTS
    Types,         \* content types (namespaces) registered in item.Types
    Bases,         \* slugs that item.Slug derives from an item's title
    MaxSuffix,     \* bound: largest "-n" checkSlugForDuplicate appends
    ClientSlugs,   \* slugs that a client of the API may put in its form
    Fields,        \* the other fields of a content type
    Values,        \* what a field may hold
    Blank,         \* an empty field, or a field missing from a form
    MaxId,         \* bound: ids that NextSequence issues in one bucket
    Requests,      \* goroutines serving requests, and open edit forms
    Uploads,       \* goroutines of storeFileInfo
    Uploaded,      \* what the index has for an upload: "__uploads:id"
    NoSlug, NoItem, NoTarget

Slugs == Bases \X (0 .. MaxSuffix)
Ids == 1 .. MaxId
Spaces == Types \X {"public", "pending"}
Targets == Types \X Ids
Bodies == [Fields -> Values \cup {Blank}]
Items == [slug : Slugs \cup {NoSlug}, body : Bodies]

ASSUME ConstantsAssumption ==
    /\ MaxId \in Nat
    /\ MaxSuffix \in Nat
    /\ ClientSlugs \subseteq Slugs
    /\ Blank \notin Values
    /\ NoSlug \notin Slugs
    /\ NoItem \notin Items
    /\ NoTarget \notin Targets
    /\ Uploaded \notin Targets \cup {NoTarget}

VARIABLES
    bucket,   \* the bolt buckets "T" and "T__pending": id to item
    seq,      \* each bucket's auto-increment sequence
    index,    \* the bucket __contentIndex: slug to "type:id"
    req,      \* what each request holds between its steps
    naming,   \* the slug each storeFileInfo has found free for its file
    born      \* history: the slug each public id was inserted with

vars == <<bucket, seq, index, req, naming, born>>

(***************************************************************************)
(* A request is idle; or it shows an item in a form ("form"); or it has    *)
(* posted the form and not yet run update's transaction ("save"); or it    *)
(* has read an item to merge a form into it ("merge") or to delete it      *)
(* ("delete"); or it has published the item it approves ("published").     *)
(***************************************************************************)
Idle == [step |-> "idle"]
Holding(step, sp, id, item) ==
    [step |-> step, space |-> sp, id |-> id, item |-> item]
Merging(sp, id, item, form) ==
    [step |-> "merge", space |-> sp, id |-> id, item |-> item, form |-> form]

ReqRecords ==
    {Idle}
    \cup [step : {"form", "save", "delete", "published"},
          space : Spaces, id : Ids, item : Items]
    \cup [step : {"merge"}, space : Spaces, id : Ids, item : Items, form : Bodies]

Init ==
    /\ bucket = [sp \in Spaces |-> [i \in Ids |-> NoItem]]
    /\ seq = [sp \in Spaces |-> 0]
    /\ index = [s \in Slugs |-> NoTarget]
    /\ req = [r \in Requests |-> Idle]
    /\ naming = [u \in Uploads |-> NoSlug]
    /\ born = [x \in Targets |-> NoSlug]

----------------------------------------------------------------------------
(* checkSlugForDuplicate: the first of base, base-1, base-2, ... that has  *)
(* no entry in the index.                                                  *)
FirstFree(s) ==
    /\ index[s] = NoTarget
    /\ \A n \in 0 .. MaxSuffix : n < s[2] => index[<<s[1], n>>] # NoTarget

(* Mutant: a slug is generated at every save, not only when there is none. *)
SlugForAlwaysNew(given, s) == FirstFree(s)

(* The slug that postToJSON leaves in an item: the one in the form, or one *)
(* generated from the title.                                               *)
SlugFor(given, s) ==
    IF given = NoSlug THEN FirstFree(s) ELSE s = given

(* Mutant: ids are issued from 0, bolt's initial sequence.                 *)
InsertPublicFromZero(t, s, body) ==
    LET sp == <<t, "public">>
        id == seq[sp]
    IN  /\ seq' = [seq EXCEPT ![sp] = id + 1]
        /\ bucket' = [bucket EXCEPT ![sp] =
                        [i \in Ids |-> IF i = id THEN [slug |-> s, body |-> body]
                                                 ELSE @[i]]]
        /\ index' = [index EXCEPT ![s] = <<t, id>>]
        /\ UNCHANGED <<naming, born>>

(* Mutant: the older of two items with one slug keeps the index entry.     *)
InsertPublicFirstWins(t, s, body) ==
    LET sp == <<t, "public">>
        id == seq[sp] + 1
    IN  /\ id \in Ids
        /\ seq' = [seq EXCEPT ![sp] = id]
        /\ bucket' = [bucket EXCEPT ![sp][id] = [slug |-> s, body |-> body]]
        /\ index' = [index EXCEPT ![s] = IF @ = NoTarget THEN <<t, id>> ELSE @]
        /\ born' = [born EXCEPT ![<<t, id>>] = s]
        /\ UNCHANGED naming

(* insert's transaction for public content: a new id, the item, and the    *)
(* index entry of its slug, whether or not that slug was taken.            *)
InsertPublic(t, s, body) ==
    LET sp == <<t, "public">>
        id == seq[sp] + 1
    IN  /\ id \in Ids
        /\ seq' = [seq EXCEPT ![sp] = id]
        /\ bucket' = [bucket EXCEPT ![sp][id] = [slug |-> s, body |-> body]]
        /\ index' = [index EXCEPT ![s] = <<t, id>>]
        /\ born' = [born EXCEPT ![<<t, id>>] = s]
        /\ UNCHANGED naming

(* Mutant: the id comes from the sequence of the bucket without specifier. *)
InsertPendingPublicId(t, given, body) ==
    LET id == seq[<<t, "public">>] + 1
    IN  /\ id \in Ids
        /\ seq' = [seq EXCEPT ![<<t, "public">>] = id]
        /\ bucket' = [bucket EXCEPT ![<<t, "pending">>][id] =
                                                [slug |-> given, body |-> body]]
        /\ UNCHANGED <<index, naming, born>>

(* insert's transaction with the specifier __pending: no slug is generated *)
(* and none is indexed.                                                    *)
InsertPending(t, given, body) ==
    LET sp == <<t, "pending">>
        id == seq[sp] + 1
    IN  /\ id \in Ids
        /\ seq' = [seq EXCEPT ![sp] = id]
        /\ bucket' = [bucket EXCEPT ![sp][id] = [slug |-> given, body |-> body]]
        /\ UNCHANGED <<index, naming, born>>

(* POST /api/content/create of a Trustable type, and an admin's new item   *)
(* (whose form has no slug).                                               *)
CreatePublic(r, t, given, s, body) ==
    /\ req[r].step = "idle"
    /\ SlugFor(given, s)
    /\ InsertPublic(t, s, body)
    /\ UNCHANGED req

(* POST /api/content/create of any other type.                             *)
CreatePending(r, t, given, body) ==
    /\ req[r].step = "idle"
    /\ InsertPending(t, given, body)
    /\ UNCHANGED req

----------------------------------------------------------------------------
(* GET of the admin's edit page: the form keeps a copy of the item.        *)
OpenForm(r, sp, id) ==
    /\ req[r].step = "idle"
    /\ bucket[sp][id] # NoItem
    /\ req' = [req EXCEPT ![r] = Holding("form", sp, id, bucket[sp][id])]
    /\ UNCHANGED <<bucket, seq, index, naming, born>>

(* A request names an item that is not there: whatever it was to do, it    *)
(* ends with an error and changes nothing.                                 *)
NotFound(r, sp, id) ==
    /\ req[r].step = "idle"
    /\ bucket[sp][id] = NoItem
    /\ UNCHANGED vars

CloseForm(r) ==
    /\ req[r].step = "form"
    /\ req' = [req EXCEPT ![r] = Idle]
    /\ UNCHANGED <<bucket, seq, index, naming, born>>

(* The form is posted: SetContent replaces the whole item.  The slug is    *)
(* the one the form was opened with; an item without one (a pending item)  *)
(* gets one now, which is checked against the index and not entered in it. *)
SubmitForm(r, s, body) ==
    /\ req[r].step = "form"
    /\ SlugFor(req[r].item.slug, s)
    /\ req' = [req EXCEPT ![r] = Holding("save", req[r].space, req[r].id,
                                         [slug |-> s, body |-> body])]
    /\ UNCHANGED <<bucket, seq, index, naming, born>>

(* Mutant: update, like insert, writes the index entry of public content.  *)
PutAndIndex(r, item) ==
    LET q == req[r]
    IN  /\ bucket' = [bucket EXCEPT ![q.space][q.id] = item]
        /\ index' = IF q.space[2] = "public"
                       THEN [index EXCEPT ![item.slug] = <<q.space[1], q.id>>]
                       ELSE index
        /\ req' = [req EXCEPT ![r] = Idle]
        /\ UNCHANGED <<seq, naming, born>>

(* update's transaction: Put at the id, whatever is there by now.          *)
Put(r, item) ==
    /\ bucket' = [bucket EXCEPT ![req[r].space][req[r].id] = item]
    /\ req' = [req EXCEPT ![r] = Idle]
    /\ UNCHANGED <<seq, index, naming, born>>

SaveWrite(r) ==
    /\ req[r].step = "save"
    /\ Put(r, req[r].item)

(* POST /api/content/update: UpdateContent reads the public item.          *)
MergeRead(r, t, id, form) ==
    LET sp == <<t, "public">>
    IN  /\ req[r].step = "idle"
        /\ bucket[sp][id] # NoItem
        /\ req' = [req EXCEPT ![r] = Merging(sp, id, bucket[sp][id], form)]
        /\ UNCHANGED <<bucket, seq, index, naming, born>>

(* mergeData: the fields of the form replace those of the item that was    *)
(* read; fields that are empty in the form are ignored, and its slug too.  *)
Merged(item, form) ==
    [slug |-> item.slug,
     body |-> [f \in Fields |-> IF form[f] = Blank THEN item.body[f] ELSE form[f]]]

MergeWrite(r) ==
    /\ req[r].step = "merge"
    /\ Put(r, Merged(req[r].item, req[r].form))

----------------------------------------------------------------------------
(* DeleteContent reads the item for its slug; without one it fails.        *)
DeleteRead(r, sp, id) ==
    /\ req[r].step = "idle"
    /\ bucket[sp][id] # NoItem
    /\ req' = [req EXCEPT ![r] = Holding("delete", sp, id, bucket[sp][id])]
    /\ UNCHANGED <<bucket, seq, index, naming, born>>

(* Mutant: DeleteContent leaves the index alone.                           *)
IndexKept(s) == index

(* The index after DeleteContent: the entry of the slug it read is gone,   *)
(* in whichever bucket the item was and whatever the entry names by now.   *)
IndexWithout(s) ==
    IF s = NoSlug THEN index ELSE [index EXCEPT ![s] = NoTarget]

(* DeleteContent's transaction.                                            *)
DeleteCommit(r) ==
    /\ req[r].step = "delete"
    /\ bucket' = [bucket EXCEPT ![req[r].space][req[r].id] = NoItem]
    /\ index' = IndexWithout(req[r].item.slug)
    /\ req' = [req EXCEPT ![r] = Idle]
    /\ UNCHANGED <<seq, naming, born>>

(* An admin approves a pending item: SetContent(type:-1) of the form.      *)
Approve(r, s, body) ==
    LET q == req[r]
    IN  /\ q.step = "form"
        /\ q.space[2] = "pending"
        /\ SlugFor(q.item.slug, s)
        /\ InsertPublic(q.space[1], s, body)
        /\ req' = [req EXCEPT ![r] = Holding("published", q.space, q.id, q.item)]

(* approveContentHandler goes on to DeleteContent of the pending item; an  *)
(* error (the item is gone) is logged and the request ends.                *)
ApproveRead(r) ==
    LET q == req[r]
        old == bucket[q.space][q.id]
    IN  /\ q.step = "published"
        /\ req' = [req EXCEPT ![r] =
                     IF old = NoItem THEN Idle
                                     ELSE Holding("delete", q.space, q.id, old)]
        /\ UNCHANGED <<bucket, seq, index, naming, born>>

----------------------------------------------------------------------------
(* SetUpload of a file just stored: its name is its slug, made free of     *)
(* duplicates in a read transaction...                                     *)
NameUpload(u, s) ==
    /\ naming[u] = NoSlug
    /\ FirstFree(s)
    /\ naming' = [naming EXCEPT ![u] = s]
    /\ UNCHANGED <<bucket, seq, index, req, born>>

(* ... and entered in the index by the transaction that stores the record, *)
(* whoever has taken it since.  DeleteUpload leaves the entry behind.      *)
StoreUpload(u) ==
    /\ naming[u] # NoSlug
    /\ index' = [index EXCEPT ![naming[u]] = Uploaded]
    /\ naming' = [naming EXCEPT ![u] = NoSlug]
    /\ UNCHANGED <<bucket, seq, req, born>>

----------------------------------------------------------------------------
(* The server stops and starts again: requests being served are gone, what *)
(* was committed stays, and so do the forms open in browsers.              *)
Crash ==
    /\ \/ \E r \in Requests : req[r].step \notin {"idle", "form"}
       \/ \E u \in Uploads : naming[u] # NoSlug
    /\ req' = [r \in Requests |-> IF req[r].step = "form" THEN req[r] ELSE Idle]
    /\ naming' = [u \in Uploads |-> NoSlug]
    /\ UNCHANGED <<bucket, seq, index, born>>

Next ==
    \/ \E r \in Requests, t \in Types, given \in ClientSlugs \cup {NoSlug},
          s \in Slugs, body \in Bodies : CreatePublic(r, t, given, s, body)
    \/ \E r \in Requests, t \in Types, given \in ClientSlugs \cup {NoSlug},
          body \in Bodies : CreatePending(r, t, given, body)
    \/ \E r \in Requests, sp \in Spaces, id \in Ids : OpenForm(r, sp, id)
    \/ \E r \in Requests, sp \in Spaces, id \in Ids : NotFound(r, sp, id)
    \/ \E r \in Requests : CloseForm(r)
    \/ \E r \in Requests, s \in Slugs, body \in Bodies : SubmitForm(r, s, body)
    \/ \E r \in Requests : SaveWrite(r)
    \/ \E r \in Requests, t \in Types, id \in Ids, form \in Bodies :
          MergeRead(r, t, id, form)
    \/ \E r \in Requests : MergeWrite(r)
    \/ \E r \in Requests, sp \in Spaces, id \in Ids : DeleteRead(r, sp, id)
    \/ \E r \in Requests : DeleteCommit(r)
    \/ \E r \in Requests, s \in Slugs, body \in Bodies : Approve(r, s, body)
    \/ \E r \in Requests : ApproveRead(r)
    \/ \E u \in Uploads, s \in Slugs : NameUpload(u, s)
    \/ \E u \in Uploads : StoreUpload(u)
    \/ Crash

Spec == Init /\ [][Next]_vars

----------------------------------------------------------------------------
(* Every variable has its type. *)
TypeOK ==
    /\ bucket \in [Spaces -> [Ids -> Items \cup {NoItem}]]
    /\ seq \in [Spaces -> 0 .. MaxId]
    /\ index \in [Slugs -> Targets \cup {Uploaded, NoTarget}]
    /\ req \in [Requests -> ReqRecords]
    /\ naming \in [Uploads -> Slugs \cup {NoSlug}]
    /\ born \in [Targets -> Slugs \cup {NoSlug}]

Public(x) == bucket[<<x[1], "public">>][x[2]]

(* Whatever requests interleave, restart or hold stale copies, an entry of *)
(* __contentIndex for content leads to a public item that exists and has   *)
(* that slug, so GET /api/content?slug= (db.ContentBySlug) never follows a *)
(* dead entry or answers with an item of another slug.                     *)
IndexSound ==
    \A s \in Slugs : index[s] \in Targets =>
        /\ Public(index[s]) # NoItem
        /\ Public(index[s]).slug = s

(* Only NextSequence makes ids: nothing is stored, and no request holds a  *)
(* copy to be stored, under an id the bucket has not issued.  A stale form *)
(* or merge written late can therefore never take an id that insert is     *)
(* still going to issue.                                                   *)
ItemsIssued ==
    \A sp \in Spaces, i \in Ids : bucket[sp][i] # NoItem => i <= seq[sp]
CopiesIssued ==
    \A r \in Requests : req[r] # Idle => req[r].id <= seq[req[r].space]
NothingBeyondSequence == ItemsIssued /\ CopiesIssued

(* The slug of a public id never changes, through replacing saves, merges, *)
(* deletion and a stale write that brings the item back.                   *)
SlugForLife ==
    \A x \in Targets : Public(x) # NoItem => Public(x).slug = born[x]

(* A slug in the index, be it an item's or an upload's, is redirected to   *)
(* content only for an item that is new: no write of an old copy ever      *)
(* takes an entry back.                                                    *)
IndexMovesForward ==
    [][\A s \in Slugs :
          (index[s] # NoTarget /\ index'[s] \in Targets \ {index[s]})
             => index'[s][2] > seq[<<index'[s][1], "public">>]]_vars

(***************************************************************************)
(* The content buckets and the index, seen without the requests, implement *)
(* the SlugDirectory.                                                      *)
(***************************************************************************)
Directory ==
    INSTANCE SlugDirectory
    WITH issued <- [t \in Types |-> seq[<<t, "public">>]],
         slugOf <- born,
         live <- {x \in Targets : Public(x) # NoItem},
         dir <- [s \in Slugs |-> IF index[s] = Uploaded THEN NoTarget ELSE index[s]]

(* Every step of every handler publishes, takes down, puts back or loses   *)
(* an entry, as SlugDirectory allows, or does not concern the directory.   *)
ImplementsDirectory == Directory!Spec

(* What the documentation of item.Sluggable says (an item is "locatable by *)
(* URL with it's own path", though "slugs may overlap"): the slug of every *)
(* public item has an entry in the index.                                  *)
LocatableBySlug ==
    \A x \in Targets : Public(x) # NoItem => index[Public(x).slug] \in Targets

(* What the comment on update says of a merge ("empty/missing fields are   *)
(* ignored"): it leaves the fields its form does not hold as they are.     *)
MergeKeepsOtherFields ==
    [][\A r \in Requests, x \in Targets, f \in Fields :
          /\ MergeWrite(r)
          /\ req[r].space[1] = x[1]
          /\ req[r].id = x[2]
          /\ req[r].form[f] = Blank
          /\ Public(x) # NoItem
          => Public(x)'.body[f] = Public(x).body[f]]_vars
=============================================================================
