--------------------------- MODULE ConfigCacheProofs ---------------------------
(***************************************************************************)
(* Proofs about ConfigCache, for any number of requests and any settings:  *)
(* its type invariant, and that configCache is what the bucket holds once  *)
(* no SetConfig is under way.                                              *)
(*                                                                         *)
(* The invariant says what "overlapped" stands for: while it is FALSE, the *)
(* request about to set configCache is the one that stored the settings    *)
(* last, and the only one.                                                 *)
(***************************************************************************)
EXTENDS ConfigCache, TLAPS

USE ConstantsAssumption DEF ConstantsAssumption

Caching(r) == req[r].step = "cache"

LastStoreCaches ==
    ~overlapped =>
        /\ \A r, s \in Requests : Caching(r) /\ Caching(s) => r = s
        /\ \A r \in Requests : Caching(r) => req[r].cfg = stored

StoppedServesNobody ==
    ~up => \A r \in Requests : req[r].step \in {"idle", "form"}

IInv == TypeOK /\ LastStoreCaches /\ StoppedServesNobody /\ CacheIsStored

------------------------------------------------------------------------------
(* What requests hold.                                                     *)

LEMMA Kinds ==
    ASSUME NEW q \in ReqRecords
    PROVE  \/ q = Idle
           \/ q = Changed
           \/ \E e \in 0 .. MaxClock : q = Invalidating(e)
           \/ \E s \in {"form", "put", "cache"}, c \in Configs : q = Holding(s, c)
  BY DEF ReqRecords

LEMMA HoldsEtag ==
    ASSUME NEW q \in ReqRecords, q.step = "invalidating"
    PROVE  q.etag \in 0 .. MaxClock
  BY Kinds DEF Idle, Changed, Invalidating, Holding

LEMMA HoldsConfig ==
    ASSUME NEW q \in ReqRecords, q.step \in {"form", "put", "cache"}
    PROVE  q.cfg \in Configs
  BY Kinds DEF Idle, Changed, Invalidating, Holding

LEMMA StatesOK ==
    /\ Idle \in ReqRecords /\ Changed \in ReqRecords
    /\ \A e \in 0 .. MaxClock : Invalidating(e) \in ReqRecords
    /\ \A s \in {"form", "put", "cache"}, c \in Configs : Holding(s, c) \in ReqRecords
  BY DEF ReqRecords

LEMMA Steps ==
    /\ Idle.step = "idle" /\ Changed.step = "changed"
    /\ \A e : Invalidating(e).step = "invalidating"
    /\ \A s, c : Holding(s, c).step = s /\ Holding(s, c).cfg = c
  BY DEF Idle, Changed, Invalidating, Holding

\* A request goes on to a state in which it is not about to set configCache, nor
\* was; nothing else of the invariant's changes.
LEMMA QuietMove ==
    ASSUME IInv, NEW r \in Requests, NEW q \in ReqRecords, Goto(r, q),
           up \/ q.step \in {"idle", "form"},
           ~Caching(r), q.step # "cache",
           UNCHANGED <<clock, stored, cached, up, overlapped>>,
           changedAt' \in 0 .. MaxClock
    PROVE  IInv'
<1>1. req' = [req EXCEPT ![r] = q]
  BY DEF Goto
<1>2. req' \in [Requests -> ReqRecords]
  BY <1>1 DEF IInv, TypeOK
<1>3. \A s \in Requests : req'[s] = IF s = r THEN q ELSE req[s]
  BY <1>1 DEF IInv, TypeOK
<1>4. TypeOK'
  BY <1>2 DEF IInv, TypeOK
<1>5. \A s \in Requests : (Caching(s))' <=> Caching(s)
  BY <1>3 DEF Caching
<1>6. LastStoreCaches'
  BY <1>3, <1>5 DEF IInv, LastStoreCaches, Caching
<1>7. CacheIsStored'
  BY <1>5 DEF IInv, CacheIsStored, Caching
<1>8. StoppedServesNobody'
  BY <1>3 DEF IInv, StoppedServesNobody
<1> QED BY <1>4, <1>6, <1>7, <1>8 DEF IInv

\* A request stores settings, and is then about to set configCache.
LEMMA CommitMove ==
    ASSUME IInv, up, NEW r \in Requests, NEW c \in Configs, ~Caching(r),
           Commit(c), Goto(r, Holding("cache", c)),
           UNCHANGED <<clock, cached, up, changedAt>>
    PROVE  IInv'
<1>1. req' = [req EXCEPT ![r] = Holding("cache", c)]
  BY DEF Goto
<1>2. req' \in [Requests -> ReqRecords]
  BY <1>1, StatesOK DEF IInv, TypeOK
<1>3. \A s \in Requests : req'[s] = IF s = r THEN Holding("cache", c) ELSE req[s]
  BY <1>1 DEF IInv, TypeOK
<1>4. stored' = c /\ (overlapped' <=> \E s \in Requests : Caching(s))
  BY DEF Commit, Caching
<1>5. TypeOK'
  BY <1>2, <1>4 DEF IInv, TypeOK, Commit
<1>6. LastStoreCaches'
  <2> SUFFICES ASSUME ~overlapped'
               PROVE  \A s \in Requests : (Caching(s))' => s = r /\ req'[s].cfg = stored'
    BY DEF LastStoreCaches
  <2> QED BY <1>3, <1>4, Steps DEF Caching
<1>7. CacheIsStored'
  BY <1>3, Steps DEF CacheIsStored
<1>8. StoppedServesNobody'
  BY DEF StoppedServesNobody
<1> QED BY <1>5, <1>6, <1>7, <1>8 DEF IInv

------------------------------------------------------------------------------

LEMMA InitInv == Init => IInv
<1> SUFFICES ASSUME Init PROVE IInv
  OBVIOUS
<1>1. \A r \in Requests : req[r] = Idle /\ req[r].step = "idle"
  BY Steps DEF Init
<1>2. TypeOK
  <2>1. stored \in Configs /\ cached \in Configs
    BY DEF Init
  <2>2. req \in [Requests -> ReqRecords]
    BY StatesOK DEF Init
  <2>3. clock \in 0 .. MaxClock /\ changedAt \in 0 .. MaxClock
    BY DEF Init
  <2>4. up \in BOOLEAN /\ overlapped \in BOOLEAN
    BY Zenon DEF Init
  <2> QED BY <2>1, <2>2, <2>3, <2>4 DEF TypeOK
<1> QED BY <1>1, <1>2 DEF Init, IInv, LastStoreCaches, StoppedServesNobody,
              CacheIsStored, Caching

LEMMA StepInv == IInv /\ [Next]_vars => IInv'
<1> SUFFICES ASSUME IInv, [Next]_vars PROVE IInv'
  OBVIOUS
<1>0. TypeOK /\ StoppedServesNobody
  BY DEF IInv
<1>1. ASSUME NEW r \in Requests, ChangeContent(r) PROVE IInv'
  <2>1. ~Caching(r) /\ clock \in 0 .. MaxClock
    BY <1>0, <1>1, Steps DEF ChangeContent, Caching, TypeOK
  <2> QED BY <1>1, <2>1, QuietMove, StatesOK, Steps DEF ChangeContent
<1>2. ASSUME NEW r \in Requests, InvalidateCache(r) PROVE IInv'
  <2>1. /\ ~Caching(r) /\ clock \in 0 .. MaxClock /\ changedAt \in 0 .. MaxClock
        /\ up
    BY <1>0, <1>2, Steps DEF InvalidateCache, Caching, TypeOK, StoppedServesNobody
  <2>2. Invalidating(clock) \in ReqRecords
    BY <2>1, StatesOK
  <2> QED BY <1>2, <2>1, <2>2, QuietMove, Steps DEF InvalidateCache
<1>3. ASSUME NEW r \in Requests, PutRead(r) PROVE IInv'
  <2>1. /\ ~Caching(r) /\ changedAt \in 0 .. MaxClock /\ up
        /\ req[r].etag \in 0 .. MaxClock
    BY <1>0, <1>3, HoldsEtag DEF PutRead, Caching, TypeOK, StoppedServesNobody
  <2>2. [stored EXCEPT !.etag = req[r].etag] \in Configs
    BY <1>0, <2>1 DEF TypeOK, Configs
  <2>3. Holding("put", [stored EXCEPT !.etag = req[r].etag]) \in ReqRecords
    BY <2>2, StatesOK
  <2>4. Holding("put", [stored EXCEPT !.etag = req[r].etag]).step = "put"
    BY Steps
  <2> QED BY <1>3, <2>1, <2>3, <2>4, QuietMove DEF PutRead
<1>4. ASSUME NEW r \in Requests, PutCommit(r) PROVE IInv'
  <2>1. /\ ~Caching(r) /\ changedAt \in 0 .. MaxClock /\ up
        /\ req[r].cfg \in Configs
    BY <1>0, <1>4, HoldsConfig DEF PutCommit, Caching, TypeOK, StoppedServesNobody
  <2>2. CASE SurvivesPut(req[r].cfg)
    BY <1>4, <2>1, <2>2, CommitMove DEF PutCommit
  <2>3. CASE ~SurvivesPut(req[r].cfg)
    BY <1>4, <2>1, <2>3, QuietMove, StatesOK, Steps DEF PutCommit
  <2> QED BY <2>2, <2>3
<1>5. ASSUME NEW r \in Requests, SetCache(r) PROVE IInv'
  <2>1. req' = [req EXCEPT ![r] = Idle] /\ cached' = req[r].cfg
    BY <1>5 DEF SetCache, Goto
  <2>2. \A s \in Requests : req'[s] = IF s = r THEN Idle ELSE req[s]
    BY <1>0, <2>1 DEF TypeOK
  <2>3. req[r].cfg \in Configs /\ Caching(r)
    BY <1>0, <1>5, HoldsConfig DEF SetCache, TypeOK, Caching
  <2>4. TypeOK'
    BY <1>0, <1>5, <2>1, <2>3, StatesOK DEF SetCache, TypeOK
  <2>5. \A s \in Requests : (Caching(s))' <=> Caching(s) /\ s # r
    BY <2>2, Steps DEF Caching
  <2>6. LastStoreCaches'
    BY <1>5, <2>2, <2>5 DEF SetCache, IInv, LastStoreCaches
  <2>7. CacheIsStored'
    BY <1>5, <2>1, <2>3, <2>5 DEF SetCache, IInv, LastStoreCaches, CacheIsStored, Caching
  <2>8. StoppedServesNobody'
    BY <1>0, <1>5, <2>2, Steps DEF SetCache, StoppedServesNobody
  <2> QED BY <2>4, <2>6, <2>7, <2>8 DEF IInv
<1>6. ASSUME NEW r \in Requests, OpenSettings(r) PROVE IInv'
  <2>1. ~Caching(r) /\ stored \in Configs /\ changedAt \in 0 .. MaxClock
    BY <1>0, <1>6, Steps DEF OpenSettings, Caching, TypeOK
  <2>2. Holding("form", stored) \in ReqRecords /\ Holding("form", stored).step = "form"
    BY <2>1, StatesOK, Steps
  <2> QED BY <1>6, <2>1, <2>2, QuietMove DEF OpenSettings
<1>7. ASSUME NEW r \in Requests, CloseSettings(r) PROVE IInv'
  <2>1. ~Caching(r) /\ changedAt \in 0 .. MaxClock
    BY <1>0, <1>7 DEF CloseSettings, Caching, TypeOK
  <2> QED BY <1>7, <2>1, QuietMove, StatesOK, Steps DEF CloseSettings
<1>8. ASSUME NEW r \in Requests, NEW age \in Ages, NEW setting \in Settings,
             NEW invalidate \in BOOLEAN, SaveSettings(r, age, setting, invalidate)
      PROVE  IInv'
  <2> DEFINE cfg == [etag |-> IF invalidate THEN clock ELSE req[r].cfg.etag,
                     age |-> age, setting |-> setting]
  <2>1. /\ up /\ Commit(cfg) /\ Goto(r, Holding("cache", cfg))
        /\ UNCHANGED <<clock, cached, up, changedAt>> /\ ~Caching(r)
    BY <1>8 DEF SaveSettings, Caching
  <2>2. req[r].cfg \in Configs
    BY <1>0, <1>8, HoldsConfig DEF SaveSettings, TypeOK
  <2>3. cfg \in Configs
    BY <1>0, <2>2 DEF TypeOK, Configs
  <2> HIDE DEF cfg
  <2> QED BY <2>1, <2>3, CommitMove
<1>9. CASE Tick
  BY <1>9 DEF Tick, IInv, TypeOK, LastStoreCaches, StoppedServesNobody, CacheIsStored,
     Caching
<1>10. CASE Crash
  <2>1. \A s \in Requests : req'[s] = IF req[s].step = "form" THEN req[s] ELSE Idle
    BY <1>10 DEF Crash
  <2>2. \A s \in Requests : req'[s] \in ReqRecords /\ req'[s].step \in {"idle", "form"}
    BY <1>0, <2>1, StatesOK, Steps DEF TypeOK
  <2>3. req' \in [Requests -> ReqRecords]
    BY <1>10, <2>2 DEF Crash
  <2>4. TypeOK'
    BY <1>0, <1>10, <2>3 DEF Crash, TypeOK
  <2> QED BY <1>10, <2>2, <2>4 DEF Crash, IInv, LastStoreCaches, StoppedServesNobody,
             CacheIsStored, Caching
<1>11. CASE Boot
  <2>1. \A s \in Requests : ~Caching(s)
    BY <1>0, <1>11 DEF Boot, StoppedServesNobody, Caching
  <2>2. req' = req
    BY <1>11 DEF Boot
  <2>3. CASE SurvivesPut(stored)
    <3>1. stored' = [stored EXCEPT !.etag = clock] /\ cached' = stored' /\ up'
          /\ overlapped' \in BOOLEAN
      BY <1>11, <2>3 DEF Boot, Commit
    <3>2. stored' \in Configs
      BY <1>0, <3>1 DEF TypeOK, Configs
    <3>3. TypeOK'
      BY <1>0, <1>11, <2>2, <3>1, <3>2 DEF Boot, TypeOK
    <3> QED BY <2>1, <2>2, <3>1, <3>3 DEF IInv, LastStoreCaches, StoppedServesNobody,
               CacheIsStored, Caching
  <2>4. CASE ~SurvivesPut(stored)
    BY <1>0, <1>11, <2>1, <2>2, <2>4 DEF Boot, IInv, TypeOK, LastStoreCaches,
       StoppedServesNobody, CacheIsStored, Caching
  <2> QED BY <2>3, <2>4
<1>12. CASE UNCHANGED vars
  BY <1>12 DEF vars, IInv, TypeOK, LastStoreCaches, StoppedServesNobody, CacheIsStored,
     Caching
<1> QED BY <1>1, <1>2, <1>3, <1>4, <1>5, <1>6, <1>7, <1>8, <1>9, <1>10, <1>11, <1>12
        DEF Next, Step

LEMMA InvHolds == Spec => []IInv
  BY InitInv, StepInv, PTL DEF Spec

\* Every variable of the settings has its type.
THEOREM TypeCorrect == Spec => []TypeOK
  BY InvHolds, PTL DEF IInv

\* configCache is what the bucket holds once no SetConfig is under way, unless two
\* of them overlapped (SetConfig, PutConfig and the start of the server).
THEOREM CacheFollows == Spec => []CacheIsStored
  BY InvHolds, PTL DEF IInv
=============================================================================
