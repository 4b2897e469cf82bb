------------------------- MODULE ContentStoreProofs -------------------------
(***************************************************************************)
(* Proofs about ContentStore, for any types, slugs, fields, ids and        *)
(* requests: type correctness, the soundness of __contentIndex and what it *)
(* rests on, and the implementation of SlugDirectory.                      *)
(***************************************************************************)
EXTENDS ContentStore, TLAPS

(* Every id that was issued for public content was issued with a slug.     *)
IssuedHaveSlug ==
    \A x \in Targets : x[2] <= seq[<<x[1], "public">>] => born[x] \in Slugs

(* What the invariant says of the buckets and the index...                 *)
StoreInv ==
    /\ bucket \in [Spaces -> [Ids -> Items \cup {NoItem}]]
    /\ seq \in [Spaces -> 0 .. MaxId]
    /\ index \in [Slugs -> Targets \cup {Uploaded, NoTarget}]
    /\ born \in [Targets -> Slugs \cup {NoSlug}]
    /\ ItemsIssued
    /\ IssuedHaveSlug
    /\ SlugForLife
    /\ IndexSound

(* ... and of a copy q that a form or a handler holds: its id was issued,  *)
(* and the copy of a public item has the slug its id was inserted with.    *)
CopyOK(q) ==
    /\ q \in ReqRecords
    /\ q # Idle => /\ q.id <= seq[q.space]
                   /\ q.space[2] = "public" =>
                         q.item.slug = born[<<q.space[1], q.id>>]

CopiesOK == /\ req \in [Requests -> ReqRecords]
            /\ \A r \in Requests : CopyOK(req[r])

(* An upload that has been named holds a slug.                             *)
NamingOK == naming \in [Uploads -> Slugs \cup {NoSlug}]

(* IndexSound is not inductive by itself: DeleteCommit removes the entry   *)
(* of the slug its request read, and Put stores a copy.  Both are safe     *)
(* only because every copy carries the slug of its id.                     *)
IndInv == StoreInv /\ CopiesOK /\ NamingOK

-----------------------------------------------------------------------------
(* The values the actions build have their types. *)
LEMMA HoldingType ==
    ASSUME NEW step \in {"form", "save", "delete", "published"},
           NEW sp \in Spaces, NEW id \in Ids, NEW item \in Items
    PROVE  /\ Holding(step, sp, id, item) \in ReqRecords
           /\ Holding(step, sp, id, item) # Idle
  BY DEF Holding, ReqRecords, Idle

(* What a request holds between reading an item and merging a form into it.*)
LEMMA MergingType ==
    ASSUME NEW sp \in Spaces, NEW id \in Ids, NEW item \in Items, NEW form \in Bodies
    PROVE  /\ Merging(sp, id, item, form) \in ReqRecords
           /\ Merging(sp, id, item, form) # Idle
  BY DEF Merging, ReqRecords, Idle

(* A request that is not idle holds a space, an id and an item.            *)
LEMMA BusyType ==
    ASSUME NEW q \in ReqRecords, q # Idle
    PROVE  /\ q.step \in {"form", "save", "delete", "published", "merge"}
           /\ q.space \in Spaces
           /\ q.id \in Ids
           /\ q.item \in Items
           /\ q.step = "merge" => q.form \in Bodies
<1>1. CASE q \in [step : {"form", "save", "delete", "published"},
                  space : Spaces, id : Ids, item : Items]
  BY <1>1
<1>2. CASE q \in [step : {"merge"}, space : Spaces, id : Ids,
                  item : Items, form : Bodies]
  BY <1>2
<1> QED
  BY <1>1, <1>2 DEF ReqRecords

(* An idle request is a request.                                           *)
LEMMA IdleType == Idle \in ReqRecords
  BY DEF ReqRecords

(* mergeData returns an item, and keeps the slug of the one it read.       *)
LEMMA MergedType ==
    ASSUME NEW item \in Items, NEW form \in Bodies
    PROVE  /\ Merged(item, form) \in Items
           /\ Merged(item, form).slug = item.slug
<1>1. item.body \in Bodies /\ item.slug \in Slugs \cup {NoSlug}
  BY DEF Items
<1>2. Merged(item, form).body \in Bodies
  BY <1>1 DEF Merged, Bodies
<1> QED
  BY <1>1, <1>2 DEF Merged, Items

-----------------------------------------------------------------------------
(* What the transactions do to the store.  Each one also keeps every copy  *)
(* that some request holds as good as it was.                              *)

(* A target has a public bucket, a type and an id.                         *)
LEMMA PublicTarget ==
    ASSUME NEW x \in Targets
    PROVE  /\ <<x[1], "public">> \in Spaces
           /\ x[1] \in Types /\ x[2] \in Ids
           /\ x = <<x[1], x[2]>>
  BY DEF Targets, Spaces

(* A bucket has a type and a specifier, and its ids make targets.          *)
LEMMA SpaceParts ==
    ASSUME NEW sp \in Spaces
    PROVE  /\ sp = <<sp[1], sp[2]>>
           /\ sp[1] \in Types
           /\ sp[2] \in {"public", "pending"}
           /\ \A i \in Ids : <<sp[1], i>> \in Targets
  BY DEF Spaces, Targets

(* insert's transaction for public content.                                *)
LEMMA InsertPublicStep ==
    ASSUME StoreInv, NEW t \in Types, NEW s \in Slugs, NEW body \in Bodies,
           InsertPublic(t, s, body)
    PROVE  /\ StoreInv'
           /\ \A q : CopyOK(q) => CopyOK(q)'
           /\ \A sp \in Spaces : seq'[sp] >= seq[sp]
<1> DEFINE sp == <<t, "public">>
           id == seq[sp] + 1
           x == <<t, id>>
           new == [slug |-> s, body |-> body]
<1>1. /\ sp \in Spaces /\ id \in Ids /\ x \in Targets /\ new \in Items
      /\ seq[sp] \in 0 .. MaxId /\ MaxId \in Nat
  BY ConstantsAssumption DEF InsertPublic, Spaces, Targets, Items, StoreInv
<1>2. /\ seq' = [seq EXCEPT ![sp] = id]
      /\ bucket' = [bucket EXCEPT ![sp][id] = new]
      /\ index' = [index EXCEPT ![s] = x]
      /\ born' = [born EXCEPT ![x] = s]
  BY DEF InsertPublic
<1> HIDE DEF sp, id, x, new
<1>3. /\ bucket' \in [Spaces -> [Ids -> Items \cup {NoItem}]]
      /\ seq' \in [Spaces -> 0 .. MaxId]
      /\ index' \in [Slugs -> Targets \cup {Uploaded, NoTarget}]
      /\ born' \in [Targets -> Slugs \cup {NoSlug}]
  BY <1>1, <1>2 DEF StoreInv, Ids
<1>4. /\ \A sp1 \in Spaces : seq'[sp1] >= seq[sp1]
      /\ seq'[sp] = id
  BY <1>1, <1>2 DEF StoreInv, id
(* Under the new id there was nothing, so no entry led to it.              *)
<1>5. \A i \in Ids : bucket[sp][i] # NoItem => i # id
  BY <1>1 DEF StoreInv, ItemsIssued, id, Ids
<1>6. Public(x) = NoItem /\ \A s1 \in Slugs : index[s1] # x
  <2>1. Public(x) = NoItem
    BY <1>1, <1>5 DEF Public, x, sp
  <2> QED
    BY <2>1, <1>1, ConstantsAssumption DEF StoreInv, IndexSound
<1>7. \A y \in Targets : Public(y)' = IF y = x THEN new ELSE Public(y)
  BY <1>1, <1>2, PublicTarget DEF StoreInv, Public, x, sp
<1>8. ItemsIssued'
  BY <1>1, <1>2, <1>4 DEF StoreInv, ItemsIssued, Ids
<1>9. IssuedHaveSlug'
  <2> SUFFICES ASSUME NEW y \in Targets, y[2] <= seq'[<<y[1], "public">>]
               PROVE  born'[y] \in Slugs
    BY DEF IssuedHaveSlug
  <2>1. CASE y = x
    BY <2>1, <1>1, <1>2 DEF StoreInv
  <2>2. CASE y # x
    <3>1. CASE y[1] = t
      <4>1. y[2] # id /\ y[2] \in Nat /\ y[2] <= seq'[sp]
        BY <3>1, <2>2, PublicTarget DEF x, sp, Ids
      <4>2. y[2] <= seq[sp]
        BY <4>1, <1>1, <1>4 DEF id
      <4> QED
        BY <4>2, <3>1, <2>2, <1>1, <1>2 DEF StoreInv, IssuedHaveSlug, sp
    <3>2. CASE y[1] # t
      <4>1. <<y[1], "public">> # sp /\ <<y[1], "public">> \in Spaces
        BY <3>2, PublicTarget DEF sp
      <4> QED
        BY <4>1, <2>2, <1>1, <1>2 DEF StoreInv, IssuedHaveSlug
    <3> QED
      BY <3>1, <3>2
  <2> QED
    BY <2>1, <2>2
<1>10. SlugForLife'
  BY <1>1, <1>2, <1>7 DEF StoreInv, SlugForLife, new
<1>11. IndexSound'
  <2>1. new # NoItem /\ new.slug = s
    BY <1>1, ConstantsAssumption DEF new
  <2> QED
    BY <2>1, <1>1, <1>2, <1>6, <1>7 DEF StoreInv, IndexSound
<1>12. ASSUME NEW q, CopyOK(q)
       PROVE  CopyOK(q)'
  <2>1. CASE q = Idle
    BY <2>1, IdleType DEF CopyOK
  <2>2. CASE q # Idle
    <3>1. /\ q \in ReqRecords
          /\ q.space \in Spaces /\ q.id \in Ids
          /\ q.id <= seq[q.space]
      BY <1>12, <2>2, BusyType DEF CopyOK
    <3>2. q.id <= seq'[q.space]
      BY <3>1, <1>3, <1>4 DEF StoreInv, Ids
    <3>3. ASSUME q.space[2] = "public"
          PROVE  q.item.slug = born'[<<q.space[1], q.id>>]
      <4>1. q.space = <<q.space[1], "public">> /\ <<q.space[1], q.id>> \in Targets
        BY <3>1, <3>3, SpaceParts
      <4>2. <<q.space[1], q.id>> # x
        <5> SUFFICES ASSUME q.space[1] = t, q.id = id
                     PROVE  FALSE
          BY DEF x
        <5>1. q.space = sp
          BY <4>1 DEF sp
        <5> QED
          BY <5>1, <3>1, <1>1 DEF id
      <4> QED
        BY <4>1, <4>2, <1>2, <2>2, <3>3, <1>12 DEF CopyOK, StoreInv
    <3> QED
      BY <3>1, <3>2, <3>3 DEF CopyOK
  <2> QED
    BY <2>1, <2>2
<1> QED
  BY <1>3, <1>4, <1>8, <1>9, <1>10, <1>11, <1>12 DEF StoreInv

(* insert's transaction for pending content.                               *)
LEMMA InsertPendingStep ==
    ASSUME StoreInv, NEW t \in Types, NEW given \in Slugs \cup {NoSlug},
           NEW body \in Bodies, InsertPending(t, given, body)
    PROVE  /\ StoreInv'
           /\ \A q : CopyOK(q) => CopyOK(q)'
<1> DEFINE sp == <<t, "pending">>
           id == seq[sp] + 1
           new == [slug |-> given, body |-> body]
<1>1. /\ sp \in Spaces /\ id \in Ids /\ new \in Items
      /\ seq[sp] \in 0 .. MaxId /\ MaxId \in Nat
      /\ \A t1 : <<t1, "public">> # sp
  BY ConstantsAssumption DEF InsertPending, Spaces, Items, StoreInv
<1>2. /\ seq' = [seq EXCEPT ![sp] = id]
      /\ bucket' = [bucket EXCEPT ![sp][id] = new]
      /\ index' = index /\ born' = born
  BY DEF InsertPending
<1> HIDE DEF sp, id, new
<1>3. /\ bucket' \in [Spaces -> [Ids -> Items \cup {NoItem}]]
      /\ seq' \in [Spaces -> 0 .. MaxId]
  BY <1>1, <1>2 DEF StoreInv, Ids
<1>4. /\ \A sp1 \in Spaces : seq'[sp1] >= seq[sp1]
      /\ seq'[sp] = id
  BY <1>1, <1>2 DEF StoreInv, id
<1>5. ItemsIssued'
  BY <1>1, <1>2, <1>4 DEF StoreInv, ItemsIssued, Ids
<1>6. \A y \in Targets : /\ Public(y)' = Public(y)
                         /\ seq'[<<y[1], "public">>] = seq[<<y[1], "public">>]
  BY <1>1, <1>2, PublicTarget DEF StoreInv, Public
<1>7. IssuedHaveSlug' /\ SlugForLife' /\ IndexSound'
  <2>1. IssuedHaveSlug' /\ SlugForLife'
    BY <1>2, <1>6 DEF StoreInv, IssuedHaveSlug, SlugForLife
  <2>2. IndexSound'
    BY <1>2, <1>6 DEF StoreInv, IndexSound
  <2> QED
    BY <2>1, <2>2
<1>8. ASSUME NEW q, CopyOK(q)
      PROVE  CopyOK(q)'
  <2>1. q # Idle => /\ q.space \in Spaces /\ q.id \in Ids
                    /\ q.id <= seq[q.space]
    BY <1>8, BusyType DEF CopyOK
  <2>2. q # Idle => q.id <= seq'[q.space]
    BY <2>1, <1>3, <1>4 DEF StoreInv, Ids
  <2> QED
    BY <2>2, <1>2, <1>8 DEF CopyOK
<1> QED
  BY <1>2, <1>3, <1>5, <1>7, <1>8 DEF StoreInv

(* Writing a copy back, over the item, over a newer version of it, or over *)
(* nothing, changes no slug.                                               *)
LEMMA PutStep ==
    ASSUME StoreInv, NEW sp \in Spaces, NEW id \in Ids, NEW item \in Items,
           id <= seq[sp],
           sp[2] = "public" => item.slug = born[<<sp[1], id>>],
           bucket' = [bucket EXCEPT ![sp][id] = item],
           UNCHANGED <<seq, index, born>>
    PROVE  /\ StoreInv'
           /\ \A q : CopyOK(q) => CopyOK(q)'
<1>1. bucket' \in [Spaces -> [Ids -> Items \cup {NoItem}]]
  BY DEF StoreInv
<1>2. ItemsIssued'
  BY DEF StoreInv, ItemsIssued
<1>3. IssuedHaveSlug'
  BY DEF StoreInv, IssuedHaveSlug
<1>4. \A y \in Targets :
        \/ Public(y)' = Public(y)
        \/ Public(y)' = item /\ item # NoItem /\ item.slug = born[y]
  <2> TAKE y \in Targets
  <2>1. item # NoItem
    BY ConstantsAssumption
  <2>2. CASE <<y[1], "public">> = sp /\ y[2] = id
    <3>1. y = <<sp[1], id>> /\ sp[2] = "public"
      BY <2>2, PublicTarget
    <3>2. Public(y)' = item
      BY <2>2 DEF StoreInv, Public
    <3> QED
      BY <3>1, <3>2, <2>1
  <2>3. CASE ~(<<y[1], "public">> = sp /\ y[2] = id)
    BY <2>3, PublicTarget DEF StoreInv, Public
  <2> QED
    BY <2>2, <2>3
<1>5. SlugForLife'
  BY <1>4 DEF StoreInv, SlugForLife
<1>6. IndexSound'
  <2>1. \A s \in Slugs : index[s] \in Targets => born[index[s]] = s
    BY DEF StoreInv, IndexSound, SlugForLife
  <2> QED
    BY <2>1, <1>4 DEF StoreInv, IndexSound
<1>7. \A q : CopyOK(q) => CopyOK(q)'
  BY DEF CopyOK
<1> QED
  BY <1>1, <1>2, <1>3, <1>5, <1>6, <1>7 DEF StoreInv

(* DeleteContent removes the entry of the slug it read, which is the only  *)
(* one that can lead to the item it deletes.                               *)
LEMMA DeleteStep ==
    ASSUME StoreInv, NEW sp \in Spaces, NEW id \in Ids, NEW item \in Items,
           id <= seq[sp],
           sp[2] = "public" => item.slug = born[<<sp[1], id>>],
           bucket' = [bucket EXCEPT ![sp][id] = NoItem],
           index' = IndexWithout(item.slug),
           UNCHANGED <<seq, born>>
    PROVE  /\ StoreInv'
           /\ \A q : CopyOK(q) => CopyOK(q)'
<1>1. bucket' \in [Spaces -> [Ids -> Items \cup {NoItem}]]
  BY DEF StoreInv
<1>2. /\ index' \in [Slugs -> Targets \cup {Uploaded, NoTarget}]
      /\ \A s \in Slugs : index'[s] \in Targets =>
                              index'[s] = index[s] /\ s # item.slug
  BY ConstantsAssumption DEF StoreInv, IndexWithout
<1>3. ItemsIssued'
  BY DEF StoreInv, ItemsIssued
<1>4. IssuedHaveSlug'
  BY DEF StoreInv, IssuedHaveSlug
<1>5. \A y \in Targets :
        \/ Public(y)' = Public(y)
        \/ Public(y)' = NoItem /\ item.slug = born[y]
  <2> SUFFICES ASSUME NEW y \in Targets
               PROVE  \/ Public(y)' = Public(y)
                      \/ Public(y)' = NoItem /\ item.slug = born[y]
    OBVIOUS
  <2>1. /\ <<y[1], "public">> \in Spaces /\ y[2] \in Ids /\ y = <<y[1], y[2]>>
        /\ sp = <<sp[1], sp[2]>>
    BY PublicTarget, SpaceParts
  <2>2. CASE <<y[1], "public">> # sp \/ y[2] # id
    BY <2>1, <2>2 DEF StoreInv, Public
  <2>3. CASE <<y[1], "public">> = sp /\ y[2] = id
    <3>1. y = <<sp[1], id>> /\ sp[2] = "public"
      BY <2>1, <2>3
    <3> QED BY <2>1, <2>3, <3>1 DEF StoreInv, Public
  <2> QED BY <2>2, <2>3
<1>6. SlugForLife'
  BY <1>5 DEF StoreInv, SlugForLife
<1>7. IndexSound'
  <2>1. \A s \in Slugs : index[s] \in Targets => born[index[s]] = s
    BY DEF StoreInv, IndexSound, SlugForLife
  <2> QED
    BY <2>1, <1>2, <1>5 DEF StoreInv, IndexSound
<1>8. \A q : CopyOK(q) => CopyOK(q)'
  BY DEF CopyOK
<1> QED
  BY <1>1, <1>2, <1>3, <1>4, <1>6, <1>7, <1>8 DEF StoreInv

(* A request that reads an item holds a good copy of it.                   *)
LEMMA ReadCopy ==
    ASSUME StoreInv, NEW sp \in Spaces, NEW id \in Ids, bucket[sp][id] # NoItem
    PROVE  /\ bucket[sp][id] \in Items
           /\ id <= seq[sp]
           /\ sp[2] = "public" => bucket[sp][id].slug = born[<<sp[1], id>>]
<1>1. bucket[sp][id] \in Items /\ id <= seq[sp]
  BY DEF StoreInv, ItemsIssued
<1>2. ASSUME sp[2] = "public"
      PROVE  bucket[sp][id].slug = born[<<sp[1], id>>]
  BY <1>2, SpaceParts DEF StoreInv, SlugForLife, Public
<1> QED
  BY <1>1, <1>2

-----------------------------------------------------------------------------
(* A step that changes the copy of one request.                            *)
LEMMA OneCopyChanges ==
    ASSUME CopiesOK, NEW r \in Requests, NEW q, CopyOK(q)',
           req' = [req EXCEPT ![r] = q],
           \A q1 : CopyOK(q1) => CopyOK(q1)'
    PROVE  CopiesOK'
<1>1. req' \in [Requests -> ReqRecords]
  BY DEF CopiesOK, CopyOK
<1>2. ASSUME NEW r1 \in Requests
      PROVE  CopyOK(req[r1])'
  <2>1. CASE r1 = r
    <3>1. req'[r1] = q
      BY <2>1 DEF CopiesOK
    <3> QED
      BY <3>1 DEF CopyOK
  <2>2. CASE r1 # r
    <3>1. req'[r1] = req[r1]
      BY <2>2 DEF CopiesOK
    <3>2. CopyOK(req[r1])
      BY DEF CopiesOK
    <3> QED
      BY <3>1, <3>2 DEF CopyOK
  <2> QED
    BY <2>1, <2>2
<1> QED
  BY <1>1, <1>2 DEF CopiesOK

(* A request that holds no copy holds none that is wrong.                  *)
LEMMA IdleCopy == CopyOK(Idle)
  BY IdleType DEF CopyOK

(* A step that leaves the buckets alone.                                   *)
LEMMA SameStore ==
    ASSUME StoreInv, UNCHANGED <<bucket, seq, index, born>>
    PROVE  StoreInv' /\ \A q : CopyOK(q)' <=> CopyOK(q)
  BY DEF StoreInv, ItemsIssued, IssuedHaveSlug, SlugForLife, IndexSound, Public, CopyOK

(* SetUpload overwrites an entry: what it led to is merely lost from sight.*)
LEMMA EntryOverwritten ==
    ASSUME StoreInv, NEW s \in Slugs, index' = [index EXCEPT ![s] = Uploaded],
           UNCHANGED <<bucket, seq, born>>
    PROVE  StoreInv' /\ \A q : CopyOK(q)' <=> CopyOK(q)
<1>1. /\ index' \in [Slugs -> Targets \cup {Uploaded, NoTarget}]
      /\ \A s1 \in Slugs : index'[s1] \in Targets => index'[s1] = index[s1]
  BY ConstantsAssumption DEF StoreInv
<1>2. \A q : CopyOK(q)' <=> CopyOK(q)
  BY DEF CopyOK
<1> QED
  BY <1>1, <1>2 DEF StoreInv, ItemsIssued, IssuedHaveSlug, SlugForLife, IndexSound, Public

(* The invariant holds when the system is new.                             *)
THEOREM InitInv == Init => IndInv
<1> SUFFICES ASSUME Init PROVE IndInv
  OBVIOUS
<1>1. \A x \in Targets : Public(x) = NoItem
  BY PublicTarget DEF Init, Public
<1>2. StoreInv
  <2>1. 0 \in 0 .. MaxId /\ \A i \in Ids : ~(i <= 0)
    BY ConstantsAssumption DEF Ids
  <2> QED
    BY <1>1, <2>1, PublicTarget, ConstantsAssumption DEF Init, StoreInv, ItemsIssued, IssuedHaveSlug,
       SlugForLife, IndexSound
<1>3. CopiesOK
  BY IdleType, IdleCopy DEF Init, CopiesOK
<1>4. NamingOK
  BY DEF Init, NamingOK
<1> QED
  BY <1>2, <1>3, <1>4 DEF IndInv

(* What a request that is not idle holds, under the invariant.             *)
LEMMA HeldCopy ==
    ASSUME IndInv, NEW r \in Requests, req[r].step # "idle"
    PROVE  /\ req[r].space \in Spaces
           /\ req[r].id \in Ids
           /\ req[r].item \in Items
           /\ req[r].step = "merge" => req[r].form \in Bodies
           /\ req[r].id <= seq[req[r].space]
           /\ req[r].space[2] = "public" =>
                 req[r].item.slug = born[<<req[r].space[1], req[r].id>>]
<1>1. req[r] # Idle /\ req[r] \in ReqRecords /\ CopyOK(req[r])
  BY DEF IndInv, CopiesOK, Idle
<1> QED
  BY <1>1, BusyType DEF CopyOK

(* A new copy is good if its item is. *)
LEMMA NewCopy ==
    ASSUME NEW step \in {"form", "save", "delete", "published"},
           NEW sp \in Spaces, NEW id \in Ids, NEW item \in Items,
           id <= seq[sp],
           sp[2] = "public" => item.slug = born[<<sp[1], id>>]
    PROVE  CopyOK(Holding(step, sp, id, item))
  BY HoldingType DEF CopyOK, Holding

(* A copy read by UpdateContent is as good as the item it was read from.   *)
LEMMA NewMerge ==
    ASSUME NEW sp \in Spaces, NEW id \in Ids, NEW item \in Items,
           NEW form \in Bodies, id <= seq[sp],
           sp[2] = "public" => item.slug = born[<<sp[1], id>>]
    PROVE  CopyOK(Merging(sp, id, item, form))
  BY MergingType DEF CopyOK, Merging

(* Every action keeps the store sound and the copies good.                 *)
LEMMA NextStoreInv == IndInv /\ [Next]_vars => (StoreInv /\ CopiesOK)'
<1> SUFFICES ASSUME IndInv, [Next]_vars PROVE (StoreInv /\ CopiesOK)'
  OBVIOUS
<1> USE DEF IndInv
<1>1. ASSUME NEW r \in Requests, NEW t \in Types,
             NEW given \in ClientSlugs \cup {NoSlug},
             NEW s \in Slugs, NEW body \in Bodies,
             CreatePublic(r, t, given, s, body)
      PROVE  (StoreInv /\ CopiesOK)'
  <2>1. StoreInv' /\ \A q : CopyOK(q) => CopyOK(q)'
    BY <1>1, InsertPublicStep DEF CreatePublic
  <2>2. CopiesOK'
    BY <1>1, <2>1 DEF CreatePublic, CopiesOK, CopyOK
  <2> QED
    BY <2>1, <2>2
<1>2. ASSUME NEW r \in Requests, NEW t \in Types,
             NEW given \in ClientSlugs \cup {NoSlug}, NEW body \in Bodies,
             CreatePending(r, t, given, body)
      PROVE  (StoreInv /\ CopiesOK)'
  <2>1. StoreInv' /\ \A q : CopyOK(q) => CopyOK(q)'
    BY <1>2, InsertPendingStep, ConstantsAssumption DEF CreatePending
  <2>2. CopiesOK'
    BY <1>2, <2>1 DEF CreatePending, CopiesOK, CopyOK
  <2> QED
    BY <2>1, <2>2
<1>3. ASSUME NEW r \in Requests, NEW sp \in Spaces, NEW id \in Ids,
             OpenForm(r, sp, id) \/ DeleteRead(r, sp, id)
      PROVE  (StoreInv /\ CopiesOK)'
  <2>1. PICK step \in {"form", "delete"} :
          /\ bucket[sp][id] # NoItem
          /\ req' = [req EXCEPT ![r] = Holding(step, sp, id, bucket[sp][id])]
          /\ UNCHANGED <<bucket, seq, index, born>>
    BY <1>3 DEF OpenForm, DeleteRead
  <2>2. CopyOK(Holding(step, sp, id, bucket[sp][id]))
    BY <2>1, ReadCopy, NewCopy
  <2> QED
    BY <2>1, <2>2, SameStore, OneCopyChanges
<1>4. ASSUME NEW r \in Requests, NEW sp \in Spaces, NEW id \in Ids,
             NotFound(r, sp, id)
      PROVE  (StoreInv /\ CopiesOK)'
  BY <1>4, SameStore DEF NotFound, vars, CopiesOK, CopyOK
<1>5. ASSUME NEW r \in Requests, CloseForm(r)
      PROVE  (StoreInv /\ CopiesOK)'
  BY <1>5, IdleCopy, SameStore, OneCopyChanges DEF CloseForm
<1>6. ASSUME NEW r \in Requests, NEW s \in Slugs, NEW body \in Bodies,
             SubmitForm(r, s, body)
      PROVE  (StoreInv /\ CopiesOK)'
  <2> DEFINE new == [slug |-> s, body |-> body]
  <2>1. /\ req[r].step # "idle"
        /\ SlugFor(req[r].item.slug, s)
        /\ req' = [req EXCEPT ![r] = Holding("save", req[r].space, req[r].id, new)]
        /\ UNCHANGED <<bucket, seq, index, born>>
    BY <1>6 DEF SubmitForm
  <2>2. new \in Items /\ new.slug = s
    BY DEF Items
(* A public item has a slug already, and SlugFor leaves it.                *)
  <2>3. req[r].space[2] = "public" => s = born[<<req[r].space[1], req[r].id>>]
    <3> SUFFICES ASSUME req[r].space[2] = "public"
                 PROVE  s = born[<<req[r].space[1], req[r].id>>]
      OBVIOUS
    <3> DEFINE x == <<req[r].space[1], req[r].id>>
    <3>1. /\ x \in Targets /\ x[2] <= seq[<<x[1], "public">>]
          /\ req[r].item.slug = born[x]
      <4>1. /\ req[r].space = <<req[r].space[1], "public">>
            /\ <<req[r].space[1], req[r].id>> \in Targets
        BY <2>1, HeldCopy, SpaceParts
      <4> QED
        BY <4>1, <2>1, HeldCopy
    <3>2. req[r].item.slug \in Slugs
      BY <3>1 DEF StoreInv, IssuedHaveSlug
    <3> QED
      BY <3>1, <3>2, <2>1, ConstantsAssumption DEF SlugFor
  <2> HIDE DEF new
  <2>4. CopyOK(Holding("save", req[r].space, req[r].id, new))
    BY <2>1, <2>2, <2>3, HeldCopy, NewCopy
  <2> QED
    BY <2>1, <2>4, SameStore, OneCopyChanges
<1>7. ASSUME NEW r \in Requests, SaveWrite(r)
      PROVE  (StoreInv /\ CopiesOK)'
  <2>1. StoreInv' /\ \A q : CopyOK(q) => CopyOK(q)'
    BY <1>7, HeldCopy, PutStep DEF SaveWrite, Put
  <2> QED
    BY <1>7, <2>1, IdleCopy, OneCopyChanges DEF SaveWrite, Put
<1>8. ASSUME NEW r \in Requests, NEW t \in Types, NEW id \in Ids,
             NEW form \in Bodies, MergeRead(r, t, id, form)
      PROVE  (StoreInv /\ CopiesOK)'
  <2> DEFINE sp == <<t, "public">>
  <2>1. /\ bucket[sp][id] # NoItem
        /\ req' = [req EXCEPT ![r] = Merging(sp, id, bucket[sp][id], form)]
        /\ UNCHANGED <<bucket, seq, index, born>>
    BY <1>8 DEF MergeRead
  <2>2. sp \in Spaces
    BY DEF Spaces
  <2> HIDE DEF sp
  <2>3. CopyOK(Merging(sp, id, bucket[sp][id], form))
    BY <2>1, <2>2, ReadCopy, NewMerge
  <2> QED
    BY <2>1, <2>3, SameStore, OneCopyChanges
<1>9. ASSUME NEW r \in Requests, MergeWrite(r)
      PROVE  (StoreInv /\ CopiesOK)'
  <2> DEFINE new == Merged(req[r].item, req[r].form)
  <2>1. new \in Items /\ new.slug = req[r].item.slug
    BY <1>9, HeldCopy, MergedType DEF MergeWrite
  <2>2. Put(r, new) /\ req[r].step # "idle"
    BY <1>9 DEF MergeWrite
  <2> HIDE DEF new
  <2>3. StoreInv' /\ \A q : CopyOK(q) => CopyOK(q)'
    BY <2>1, <2>2, HeldCopy, PutStep DEF Put
  <2> QED
    BY <2>2, <2>3, IdleCopy, OneCopyChanges DEF Put
<1>10. ASSUME NEW r \in Requests, DeleteCommit(r)
       PROVE  (StoreInv /\ CopiesOK)'
  <2>1. StoreInv' /\ \A q : CopyOK(q) => CopyOK(q)'
    BY <1>10, HeldCopy, DeleteStep DEF DeleteCommit
  <2> QED
    BY <1>10, <2>1, IdleCopy, OneCopyChanges DEF DeleteCommit
<1>11. ASSUME NEW r \in Requests, NEW s \in Slugs, NEW body \in Bodies,
              Approve(r, s, body)
       PROVE  (StoreInv /\ CopiesOK)'
  <2>1. /\ req[r].step # "idle"
        /\ InsertPublic(req[r].space[1], s, body)
        /\ req' = [req EXCEPT ![r] =
                     Holding("published", req[r].space, req[r].id, req[r].item)]
    BY <1>11 DEF Approve
  <2>2. StoreInv' /\ \A q : CopyOK(q) => CopyOK(q)'
    BY <2>1, HeldCopy, SpaceParts, InsertPublicStep
  <2>3. CopyOK(Holding("published", req[r].space, req[r].id, req[r].item))
    BY <2>1, HeldCopy, NewCopy
  <2> QED
    BY <2>1, <2>2, <2>3, OneCopyChanges
<1>12. ASSUME NEW r \in Requests, ApproveRead(r)
       PROVE  (StoreInv /\ CopiesOK)'
  <2> DEFINE old == bucket[req[r].space][req[r].id]
  <2>1. /\ req[r].step # "idle"
        /\ req' = [req EXCEPT ![r] =
              IF old = NoItem THEN Idle
                              ELSE Holding("delete", req[r].space, req[r].id, old)]
        /\ UNCHANGED <<bucket, seq, index, born>>
    BY <1>12 DEF ApproveRead
  <2>2. CASE old = NoItem
    BY <2>1, <2>2, IdleCopy, SameStore, OneCopyChanges
  <2>3. CASE old # NoItem
    <3>1. CopyOK(Holding("delete", req[r].space, req[r].id, old))
      BY <2>1, <2>3, HeldCopy, ReadCopy, NewCopy
    <3> QED
      BY <2>1, <2>3, <3>1, SameStore, OneCopyChanges
  <2> QED
    BY <2>2, <2>3
<1>13. ASSUME Crash
       PROVE  (StoreInv /\ CopiesOK)'
  <2>1. StoreInv' /\ \A q : CopyOK(q)' <=> CopyOK(q)
    BY <1>13, SameStore DEF Crash
  <2>2. \A r \in Requests : req'[r] = req[r] \/ req'[r] = Idle
    BY <1>13 DEF Crash
  <2>3. \A r \in Requests : CopyOK(req'[r])
    BY <2>2, IdleCopy DEF CopiesOK
  <2>4. req' \in [Requests -> ReqRecords]
    BY <1>13, IdleType DEF Crash, CopiesOK
  <2>5. UNCHANGED <<seq, born>>
    BY <1>13 DEF Crash
  <2>6. CopiesOK'
    BY <2>3, <2>4, <2>5 DEF CopiesOK, CopyOK
  <2> QED
    BY <2>1, <2>6
<1>14. ASSUME UNCHANGED vars
       PROVE  (StoreInv /\ CopiesOK)'
  BY <1>14, SameStore DEF vars, CopiesOK, CopyOK
<1>15. ASSUME NEW u \in Uploads, NEW s \in Slugs, NameUpload(u, s)
       PROVE  (StoreInv /\ CopiesOK)'
  BY <1>15, SameStore DEF NameUpload, CopiesOK, CopyOK
<1>16. ASSUME NEW u \in Uploads, StoreUpload(u)
       PROVE  (StoreInv /\ CopiesOK)'
  <2>1. naming[u] \in Slugs
    BY <1>16 DEF StoreUpload, NamingOK
  <2>2. StoreInv' /\ \A q : CopyOK(q)' <=> CopyOK(q)
    BY <1>16, <2>1, EntryOverwritten DEF StoreUpload
  <2> QED
    BY <1>16, <2>2 DEF StoreUpload, CopiesOK
<1> QED
  BY <1>1, <1>2, <1>3, <1>4, <1>5, <1>6, <1>7, <1>8, <1>9, <1>10, <1>11,
     <1>12, <1>13, <1>14, <1>15, <1>16 DEF Next

(* Only the goroutines of uploads, and a restart, change what is named.    *)
LEMMA NextNaming == IndInv /\ [Next]_vars => NamingOK'
<1> SUFFICES ASSUME IndInv, [Next]_vars PROVE NamingOK'
  OBVIOUS
<1>1. ASSUME NEW u \in Uploads, NEW s \in Slugs, NameUpload(u, s)
      PROVE  NamingOK'
  BY <1>1 DEF NameUpload, IndInv, NamingOK
<1>2. ASSUME NEW u \in Uploads, StoreUpload(u)
      PROVE  NamingOK'
  BY <1>2 DEF StoreUpload, IndInv, NamingOK
<1>3. CASE Crash
  BY <1>3 DEF Crash, NamingOK
<1>4. CASE UNCHANGED naming
  BY <1>4 DEF IndInv, NamingOK
<1> QED
  BY <1>1, <1>2, <1>3, <1>4 DEF Next, vars, CreatePublic, CreatePending,
     InsertPublic, InsertPending, OpenForm, NotFound, CloseForm, SubmitForm,
     SaveWrite, Put, MergeRead, MergeWrite, DeleteRead, DeleteCommit, Approve,
     ApproveRead

(* Every action keeps the invariant. *)
THEOREM NextInv == IndInv /\ [Next]_vars => IndInv'
<1>1. IndInv /\ [Next]_vars => (StoreInv /\ CopiesOK)'
  BY NextStoreInv
<1>2. IndInv /\ [Next]_vars => NamingOK'
  BY NextNaming
<1> QED
  BY <1>1, <1>2 DEF IndInv

-----------------------------------------------------------------------------
(* The invariant holds in every reachable state.                           *)
THEOREM Inductive == Spec => []IndInv
<1>1. Init => IndInv
  BY InitInv
<1>2. IndInv /\ [Next]_vars => IndInv'
  BY NextInv
<1> QED
  BY <1>1, <1>2, PTL DEF Spec

(* Every variable of ContentStore keeps its type.                          *)
THEOREM TypeCorrect == Spec => []TypeOK
<1>1. IndInv => TypeOK
  BY DEF IndInv, StoreInv, CopiesOK, NamingOK, TypeOK
<1> QED
  BY <1>1, Inductive, PTL

(* An entry of __contentIndex always leads to a public item of its slug.   *)
THEOREM IndexIsSound == Spec => []IndexSound
<1>1. IndInv => IndexSound
  BY DEF IndInv, StoreInv
<1> QED
  BY <1>1, Inductive, PTL

(* No item and no copy exists under an id that was not issued.             *)
THEOREM NothingBeyond == Spec => []NothingBeyondSequence
<1>1. IndInv => NothingBeyondSequence
  BY DEF IndInv, StoreInv, CopiesOK, CopyOK, NothingBeyondSequence, CopiesIssued
<1> QED
  BY <1>1, Inductive, PTL

(* The item of a public id has one slug for ever.                          *)
THEOREM OneSlugForLife == Spec => []SlugForLife
<1>1. IndInv => SlugForLife
  BY DEF IndInv, StoreInv
<1> QED
  BY <1>1, Inductive, PTL

-----------------------------------------------------------------------------
(* The refinement: each transaction is one step of the SlugDirectory.      *)

Live == {x \in Targets : Public(x) # NoItem}
IssuedIds == [t \in Types |-> seq[<<t, "public">>]]
Dir == [s \in Slugs |-> IF index[s] = Uploaded THEN NoTarget ELSE index[s]]

(* An entry for content, or its removal, shows in the directory as it is;  *)
(* the entry of an upload shows as none.                                   *)
LEMMA EntryShows ==
    ASSUME IndInv, NEW s \in Slugs, NEW e \in Targets \cup {Uploaded, NoTarget},
           index' = [index EXCEPT ![s] = e]
    PROVE  Dir' = [Dir EXCEPT ![s] = IF e = Uploaded THEN NoTarget ELSE e]
  BY DEF IndInv, StoreInv, Dir

(* insert's transaction for public content publishes in the directory.     *)
LEMMA PublishStep ==
    ASSUME IndInv, NEW t \in Types, NEW s \in Slugs, NEW body \in Bodies,
           InsertPublic(t, s, body)
    PROVE  Directory!Publish(t, s)
<1> DEFINE sp == <<t, "public">>
           id == seq[sp] + 1
           x == <<t, id>>
           new == [slug |-> s, body |-> body]
<1>1. /\ sp \in Spaces /\ id \in Ids /\ x \in Targets
      /\ new \in Items /\ new # NoItem
  BY ConstantsAssumption DEF InsertPublic, Spaces, Targets, Items
<1>2. /\ seq' = [seq EXCEPT ![sp] = id]
      /\ bucket' = [bucket EXCEPT ![sp][id] = new]
      /\ index' = [index EXCEPT ![s] = x]
      /\ born' = [born EXCEPT ![x] = s]
  BY DEF InsertPublic
<1>3. x = <<t, IssuedIds[t] + 1>>
  BY DEF IssuedIds
<1>4. IssuedIds' = [IssuedIds EXCEPT ![t] = @ + 1]
  <2>1. \A t1 \in Types : seq'[<<t1, "public">>] =
          IF t1 = t THEN id ELSE seq[<<t1, "public">>]
    BY <1>1, <1>2 DEF IndInv, StoreInv, Spaces
  <2> QED
    BY <2>1 DEF IssuedIds
<1> HIDE DEF new
<1>5. \A y \in Targets : Public(y)' = IF y = x THEN new ELSE Public(y)
  BY <1>1, <1>2, PublicTarget DEF IndInv, StoreInv, Public
<1>6. Live' = Live \cup {x}
  BY <1>1, <1>5 DEF Live
<1>7. Dir' = [Dir EXCEPT ![s] = x]
  BY <1>1, <1>2, EntryShows, ConstantsAssumption
<1> QED
  BY <1>1, <1>2, <1>3, <1>4, <1>6, <1>7 DEF Directory!Publish, Directory!Targets,
     Targets, Live, IssuedIds, Dir

(* What a write at a public id does to the items that are up.              *)
LEMMA LiveChange ==
    ASSUME IndInv, NEW sp \in Spaces, NEW id \in Ids, NEW v \in Items \cup {NoItem},
           bucket' = [bucket EXCEPT ![sp][id] = v]
    PROVE  /\ sp[2] = "pending" => Live' = Live
           /\ sp[2] = "public" =>
                 Live' = IF v = NoItem THEN Live \ {<<sp[1], id>>}
                                       ELSE Live \cup {<<sp[1], id>>}
<1>1. ASSUME sp[2] = "pending" PROVE Live' = Live
  <2>1. \A y \in Targets : Public(y)' = Public(y)
    <3> TAKE y \in Targets
    <3>1. <<y[1], "public">> # sp
      BY <1>1
    <3> QED
      BY <3>1, PublicTarget DEF IndInv, StoreInv, Public
  <2> QED
    BY <2>1 DEF Live
<1>2. ASSUME sp[2] = "public"
      PROVE  Live' = IF v = NoItem THEN Live \ {<<sp[1], id>>}
                                   ELSE Live \cup {<<sp[1], id>>}
  <2> DEFINE x == <<sp[1], id>>
  <2>1. sp = <<sp[1], "public">> /\ x \in Targets
    BY <1>2, SpaceParts
  <2>2. Public(x)' = v
    BY <2>1 DEF IndInv, StoreInv, Public
  <2>3. \A y \in Targets : y # x => Public(y)' = Public(y)
    <3> SUFFICES ASSUME NEW y \in Targets, y # x
                 PROVE  Public(y)' = Public(y)
      OBVIOUS
    <3>1. <<y[1], "public">> # sp \/ y[2] # id
      BY <2>1, PublicTarget
    <3> QED
      BY <3>1, PublicTarget DEF IndInv, StoreInv, Public
  <2> QED
    BY <2>1, <2>2, <2>3 DEF Live
<1> QED
  BY <1>1, <1>2

(* update's transaction puts an item back in the directory, or shows not.  *)
LEMMA DirectoryPut ==
    ASSUME IndInv, NEW r \in Requests, req[r].step # "idle",
           NEW item \in Items, Put(r, item)
    PROVE  [Directory!Next]_Directory!vars
<1> DEFINE sp == req[r].space
           x == <<sp[1], req[r].id>>
<1>1. /\ sp \in Spaces /\ req[r].id \in Ids
      /\ req[r].id <= seq[sp]
      /\ bucket' = [bucket EXCEPT ![sp][req[r].id] = item]
      /\ UNCHANGED <<seq, index, born>>
  BY HeldCopy DEF Put
<1>2. IssuedIds' = IssuedIds
  BY <1>1 DEF IssuedIds
<1>3. CASE sp[2] = "pending"
  <2>1. Live' = Live
    BY <1>1, <1>3, LiveChange
  <2> QED
    BY <1>1, <1>2, <2>1 DEF Directory!vars, Live, IssuedIds
<1>4. CASE sp[2] = "public"
  <2>1. Live' = Live \cup {x}
    BY <1>1, <1>4, LiveChange, ConstantsAssumption
  <2>2. /\ x \in Targets
        /\ x[2] <= IssuedIds[x[1]]
    BY <1>1, <1>4, SpaceParts DEF IssuedIds
  <2>3. Directory!PutBack(x)
    BY <1>1, <1>2, <2>1, <2>2 DEF Directory!PutBack, Directory!Issued, Live, IssuedIds
  <2> QED
    BY <2>2, <2>3 DEF Directory!Next, Directory!Targets, Targets
<1> QED
  BY <1>1, <1>3, <1>4, SpaceParts

(* DeleteContent's transaction takes an item down, or loses an entry, or   *)
(* shows not.                                                              *)
LEMMA DirectoryDelete ==
    ASSUME IndInv, NEW r \in Requests, DeleteCommit(r)
    PROVE  [Directory!Next]_Directory!vars
<1> DEFINE sp == req[r].space
           x == <<sp[1], req[r].id>>
           s == req[r].item.slug
<1>1. /\ sp \in Spaces /\ req[r].id \in Ids /\ req[r].item \in Items
      /\ req[r].id <= seq[sp]
      /\ sp[2] = "public" => s = born[x]
  BY HeldCopy DEF DeleteCommit
<1>2. /\ bucket' = [bucket EXCEPT ![sp][req[r].id] = NoItem]
      /\ index' = IndexWithout(s)
      /\ UNCHANGED <<seq, born>>
  BY DEF DeleteCommit
<1>3. IssuedIds' = IssuedIds
  BY <1>2 DEF IssuedIds
<1>4. s \in Slugs \cup {NoSlug}
  BY <1>1 DEF Items
<1>5. CASE sp[2] = "pending"
  <2>1. Live' = Live
    BY <1>1, <1>2, <1>5, LiveChange
  <2>2. CASE s = NoSlug
    BY <1>2, <1>3, <2>1, <2>2 DEF IndexWithout, Directory!vars, Live, IssuedIds
  <2>3. CASE s \in Slugs
    <3>1. Dir' = [Dir EXCEPT ![s] = NoTarget]
      BY <1>2, <2>3, EntryShows, ConstantsAssumption DEF IndexWithout
    <3>2. Directory!LoseEntry(s)
      BY <1>2, <1>3, <2>1, <3>1 DEF Directory!LoseEntry, Live, IssuedIds, Dir
    <3> QED
      BY <2>3, <3>2 DEF Directory!Next, Directory!LoseEntry
  <2> QED
    BY <1>4, <2>2, <2>3
<1>6. CASE sp[2] = "public"
  <2>1. Live' = Live \ {x}
    BY <1>1, <1>2, <1>6, LiveChange
  <2>2. /\ x \in Targets
        /\ x[2] <= IssuedIds[x[1]]
        /\ x[2] <= seq[<<x[1], "public">>]
    BY <1>1, <1>6, SpaceParts DEF IssuedIds
  <2>3. s \in Slugs
    BY <1>1, <1>6, <2>2 DEF IndInv, StoreInv, IssuedHaveSlug
  <2>4. Dir' = [Dir EXCEPT ![born[x]] = NoTarget]
    BY <1>1, <1>2, <1>6, <2>3, EntryShows, ConstantsAssumption DEF IndexWithout
  <2>5. Directory!TakeDown(x)
    BY <1>2, <1>3, <2>1, <2>2, <2>4 DEF Directory!TakeDown, Directory!Issued,
       Live, IssuedIds, Dir
  <2> QED
    BY <2>2, <2>5 DEF Directory!Next, Directory!TakeDown, Directory!Targets, Targets
<1> QED
  BY <1>1, <1>5, <1>6, SpaceParts

(* A new system is an empty directory.                                     *)
THEOREM DirectoryInit == Init => Directory!Init
<1> SUFFICES ASSUME Init PROVE Directory!Init
  OBVIOUS
<1>1. Live = {}
  BY PublicTarget DEF Init, Live, Public
<1>2. IssuedIds = [t \in Types |-> 0]
  BY DEF Init, IssuedIds, Spaces
<1> QED
  BY <1>1, <1>2 DEF Init, Directory!Init, Directory!Targets, Targets, Live, IssuedIds

(* Reads, forms and crashes do not concern the directory.                  *)
LEMMA DirectoryStutter ==
    ASSUME UNCHANGED <<bucket, seq, index, born>>
    PROVE  UNCHANGED Directory!vars
  BY DEF Directory!vars, Public

(* insert's transaction for pending content does not show in the directory.*)
LEMMA DirectoryPending ==
    ASSUME IndInv, NEW t \in Types, NEW given \in Slugs \cup {NoSlug},
           NEW body \in Bodies, InsertPending(t, given, body)
    PROVE  UNCHANGED Directory!vars
<1> DEFINE sp == <<t, "pending">>
           id == seq[sp] + 1
           new == [slug |-> given, body |-> body]
<1>1. /\ sp \in Spaces /\ id \in Ids /\ new \in Items
      /\ seq' = [seq EXCEPT ![sp] = id]
      /\ bucket' = [bucket EXCEPT ![sp][id] = new]
      /\ UNCHANGED <<index, born>>
  BY DEF InsertPending, Spaces, Items
<1>2. Live' = Live
  BY <1>1, LiveChange
<1>3. IssuedIds' = IssuedIds
  BY <1>1 DEF IndInv, StoreInv, IssuedIds, Spaces
<1> QED
  BY <1>1, <1>2, <1>3 DEF Directory!vars, Live, IssuedIds

(* Every step of every handler is a step of the directory, or shows not.   *)
THEOREM DirectoryNext == IndInv /\ [Next]_vars => [Directory!Next]_Directory!vars
<1> SUFFICES ASSUME IndInv, [Next]_vars PROVE [Directory!Next]_Directory!vars
  OBVIOUS
<1>1. ASSUME NEW t \in Types, NEW s \in Slugs, NEW body \in Bodies,
             InsertPublic(t, s, body)
      PROVE  [Directory!Next]_Directory!vars
  BY <1>1, PublishStep DEF Directory!Next
<1>2. ASSUME NEW r \in Requests, NEW t \in Types,
             NEW given \in ClientSlugs \cup {NoSlug},
             NEW s \in Slugs, NEW body \in Bodies,
             CreatePublic(r, t, given, s, body)
      PROVE  [Directory!Next]_Directory!vars
  BY <1>1, <1>2 DEF CreatePublic
<1>3. ASSUME NEW r \in Requests, NEW t \in Types,
             NEW given \in ClientSlugs \cup {NoSlug}, NEW body \in Bodies,
             CreatePending(r, t, given, body)
      PROVE  [Directory!Next]_Directory!vars
  BY <1>3, DirectoryPending, ConstantsAssumption DEF CreatePending
<1>4. ASSUME NEW r \in Requests,
             \/ \E sp \in Spaces, id \in Ids :
                  OpenForm(r, sp, id) \/ DeleteRead(r, sp, id) \/ NotFound(r, sp, id)
             \/ CloseForm(r) \/ ApproveRead(r) \/ Crash
             \/ \E s \in Slugs, body \in Bodies : SubmitForm(r, s, body)
             \/ \E t \in Types, id \in Ids, form \in Bodies : MergeRead(r, t, id, form)
      PROVE  [Directory!Next]_Directory!vars
  <2>1. UNCHANGED <<bucket, seq, index, born>>
    BY <1>4 DEF OpenForm, DeleteRead, NotFound, CloseForm, ApproveRead, Crash,
       SubmitForm, MergeRead, vars
  <2> QED
    BY <2>1, DirectoryStutter
<1>5. ASSUME NEW r \in Requests, SaveWrite(r)
      PROVE  [Directory!Next]_Directory!vars
  BY <1>5, HeldCopy, DirectoryPut DEF SaveWrite
<1>6. ASSUME NEW r \in Requests, MergeWrite(r)
      PROVE  [Directory!Next]_Directory!vars
  <2>1. req[r].step # "idle" /\ Merged(req[r].item, req[r].form) \in Items
    BY <1>6, HeldCopy, MergedType DEF MergeWrite
  <2> QED
    BY <1>6, <2>1, DirectoryPut DEF MergeWrite
<1>7. ASSUME NEW r \in Requests, DeleteCommit(r)
      PROVE  [Directory!Next]_Directory!vars
  BY <1>7, DirectoryDelete
<1>8. ASSUME NEW r \in Requests, NEW s \in Slugs, NEW body \in Bodies,
             Approve(r, s, body)
      PROVE  [Directory!Next]_Directory!vars
  <2>1. req[r].space[1] \in Types /\ InsertPublic(req[r].space[1], s, body)
    BY <1>8, HeldCopy, SpaceParts DEF Approve
  <2> QED
    BY <2>1, <1>1
<1>9. CASE UNCHANGED vars
  BY <1>9, DirectoryStutter DEF vars
<1>10. CASE Crash
  BY <1>10, DirectoryStutter DEF Crash
<1>11. ASSUME NEW u \in Uploads, NEW s \in Slugs, NameUpload(u, s)
       PROVE  [Directory!Next]_Directory!vars
  BY <1>11, DirectoryStutter DEF NameUpload
<1>12. ASSUME NEW u \in Uploads, StoreUpload(u)
       PROVE  [Directory!Next]_Directory!vars
  <2> DEFINE s == naming[u]
  <2>1. s \in Slugs
    BY <1>12 DEF StoreUpload, IndInv, NamingOK
  <2>2. /\ index' = [index EXCEPT ![s] = Uploaded]
        /\ UNCHANGED <<bucket, seq, born>>
    BY <1>12 DEF StoreUpload
  <2> HIDE DEF s
  <2>3. Dir' = [Dir EXCEPT ![s] = NoTarget]
    BY <2>1, <2>2, EntryShows
  <2>4. Directory!LoseEntry(s)
    BY <2>2, <2>3 DEF Directory!LoseEntry, Public, Dir
  <2> QED
    BY <2>1, <2>4 DEF Directory!Next, Directory!LoseEntry
<1> QED
  BY <1>2, <1>3, <1>4, <1>5, <1>6, <1>7, <1>8, <1>9, <1>10, <1>11, <1>12 DEF Next

(* The content store implements the SlugDirectory. *)
THEOREM Implements == Spec => ImplementsDirectory
<1>1. Init => Directory!Init
  BY DirectoryInit
<1>2. IndInv /\ [Next]_vars => [Directory!Next]_Directory!vars
  BY DirectoryNext
<1> QED
  BY <1>1, <1>2, Inductive, PTL DEF Spec, ImplementsDirectory, Directory!Spec

(* An entry of the index is redirected only to an item inserted by that    *)
(* very step.                                                              *)
LEMMA RedirectedByPublish ==
    ASSUME IndInv, [Directory!Next]_Directory!vars, NEW s \in Slugs,
           index'[s] \in Targets \ {index[s]}
    PROVE  index'[s][2] > seq[<<index'[s][1], "public">>]
<1>0. Dir'[s] = index'[s] /\ Dir'[s] \notin {NoTarget, Dir[s]}
  BY ConstantsAssumption DEF Dir
<1>1. PICK t \in Types, s1 \in Slugs : Directory!Publish(t, s1)
  BY <1>0 DEF Directory!Next, Directory!vars, Directory!TakeDown, Directory!PutBack,
     Directory!LoseEntry, Dir
<1>2. Dir' = [Dir EXCEPT ![s1] = <<t, IssuedIds[t] + 1>>]
  BY <1>1 DEF Directory!Publish, IssuedIds, Dir
<1>3. index'[s] = <<t, seq[<<t, "public">>] + 1>>
  <2>1. Dir'[s] = <<t, IssuedIds[t] + 1>>
    BY <1>0, <1>2 DEF Dir
  <2> QED
    BY <1>0, <2>1 DEF IssuedIds
<1>4. seq[<<t, "public">>] \in Nat
  BY ConstantsAssumption DEF IndInv, StoreInv, Spaces
<1> QED
  BY <1>3, <1>4

(* Whatever old copies are written late, a slug in the index is redirected *)
(* only by publication, to an id that the sequence had not issued.         *)
THEOREM IndexForward == Spec => IndexMovesForward
<1>1. IndInv /\ [Next]_vars =>
        [\A s \in Slugs :
           (index[s] # NoTarget /\ index'[s] \in Targets \ {index[s]})
             => index'[s][2] > seq[<<index'[s][1], "public">>]]_vars
  BY DirectoryNext, RedirectedByPublish
<1> QED
  BY <1>1, Inductive, PTL DEF Spec, IndexMovesForward
=============================================================================
