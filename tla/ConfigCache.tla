----------------------------- MODULE ConfigCache -----------------------------
(***************************************************************************)
(* The settings of system/db/config.go: the record "settings" of the bolt  *)
(* bucket __config, configCache in memory, the page that edits them, and   *)
(* InvalidateCache of system/db/cache.go, which every change of content    *)
(* and every start of the server calls to renew the Etag.                  *)
(*                                                                         *)
(* PutConfig reads the settings in one transaction, changes one of them    *)
(* and writes all of them in another; configCache is set after that, under *)
(* a mutex of its own.  Each is a step, so that requests interleave.       *)
(*                                                                         *)
(* An Etag is the time in seconds at which NewEtag made it.                *)
(***************************************************************************)
EXTENDS Naturals

CONSTANTS
    Requests,   \* goroutines that change content, and open settings pages
    Settings,   \* what the other settings may be
    MaxClock    \* bound: seconds that pass

ASSUME ConstantsAssumption == MaxClock \in Nat /\ Settings # {}

(* cache_max_age: 0 (the default), a number of at most six digits, or a    *)
(* larger one.                                                             *)
Ages == {"zero", "small", "large"}
Configs == [etag : 0 .. MaxClock, age : Ages, setting : Settings]

VARIABLES
    clock,       \* seconds since the system was configured
    stored,      \* "settings" in the bucket __config
    cached,      \* configCache
    req,         \* what each request is doing
    up,          \* is the server running?
    changedAt,   \* history: when content was last changed
    overlapped   \* history: was "settings" last stored before a request that
                 \* stored it earlier had set configCache?

vars == <<clock, stored, cached, req, up, changedAt, overlapped>>

Idle == [step |-> "idle"]
Changed == [step |-> "changed"]
Invalidating(etag) == [step |-> "invalidating", etag |-> etag]
Holding(step, cfg) == [step |-> step, cfg |-> cfg]

ReqRecords ==
    {Idle, Changed}
    \cup {Invalidating(e) : e \in 0 .. MaxClock}
    \cup {Holding(s, c) : s \in {"form", "put", "cache"}, c \in Configs}

(* The system has just been configured by initHandler.                     *)
Init ==
    /\ clock = 0
    /\ stored \in {c \in Configs : c.etag = 0 /\ c.age = "zero"}
    /\ cached = stored
    /\ req = [r \in Requests |-> Idle]
    /\ up = TRUE
    /\ changedAt = 0
    /\ overlapped = FALSE

Goto(r, state) == req' = [req EXCEPT ![r] = state]

(* PutConfig formats every setting with %v and SetConfig parses it again.  *)
(* Max-Age, a float64 by then, has an exponent from a million upwards,     *)
(* which is not an int64: the form does not decode.                        *)
SurvivesPut(cfg) == cfg.age # "large"

Commit(cfg) ==
    /\ stored' = cfg
    /\ overlapped' = \E r \in Requests : req[r].step = "cache"

----------------------------------------------------------------------------
(* A transaction of insert, update or DeleteContent.                       *)
ChangeContent(r) ==
    /\ up
    /\ req[r] = Idle
    /\ changedAt' = clock
    /\ Goto(r, Changed)
    /\ UNCHANGED <<clock, stored, cached, up, overlapped>>

(* Mutant: insert, update and DeleteContent leave the Etag alone.          *)
InvalidateCacheSkipped(r) ==
    /\ req[r] = Changed
    /\ Goto(r, Idle)
    /\ UNCHANGED <<clock, stored, cached, up, changedAt, overlapped>>

(* Mutant: the time in an Etag is rounded up.                              *)
InvalidateCacheRoundedUp(r) ==
    /\ req[r] = Changed
    /\ Goto(r, Invalidating(clock + 1))
    /\ UNCHANGED <<clock, stored, cached, up, changedAt, overlapped>>

(* InvalidateCache: PutConfig("etag", NewEtag()).                          *)
InvalidateCache(r) ==
    /\ req[r] = Changed
    /\ Goto(r, Invalidating(clock))
    /\ UNCHANGED <<clock, stored, cached, up, changedAt, overlapped>>

(* PutConfig reads the settings and sets one of them.                      *)
PutRead(r) ==
    /\ req[r].step = "invalidating"
    /\ Goto(r, Holding("put", [stored EXCEPT !.etag = req[r].etag]))
    /\ UNCHANGED <<clock, stored, cached, up, changedAt, overlapped>>

(* Mutant: configCache is set even when the transaction failed.            *)
PutCommitCachesAnyway(r) ==
    /\ req[r].step = "put"
    /\ IF SurvivesPut(req[r].cfg) THEN Commit(req[r].cfg)
                                  ELSE UNCHANGED <<stored, overlapped>>
    /\ Goto(r, Holding("cache", req[r].cfg))
    /\ UNCHANGED <<clock, cached, up, changedAt>>

(* SetConfig, called by PutConfig: the transaction, or an error.           *)
PutCommit(r) ==
    /\ req[r].step = "put"
    /\ IF SurvivesPut(req[r].cfg)
         THEN Commit(req[r].cfg) /\ Goto(r, Holding("cache", req[r].cfg))
         ELSE Goto(r, Idle) /\ UNCHANGED <<stored, overlapped>>
    /\ UNCHANGED <<clock, cached, up, changedAt>>

(* SetConfig, after its transaction, under the mutex.                      *)
SetCache(r) ==
    /\ req[r].step = "cache"
    /\ cached' = req[r].cfg
    /\ Goto(r, Idle)
    /\ UNCHANGED <<clock, stored, up, changedAt, overlapped>>

(* GET /admin/configure: the page holds all settings, the Etag included.   *)
OpenSettings(r) ==
    /\ up
    /\ req[r] = Idle
    /\ Goto(r, Holding("form", stored))
    /\ UNCHANGED <<clock, stored, cached, up, changedAt, overlapped>>

CloseSettings(r) ==
    /\ req[r].step = "form"
    /\ Goto(r, Idle)
    /\ UNCHANGED <<clock, stored, cached, up, changedAt, overlapped>>

(* POST /admin/configure: SetConfig of the form, whose numbers are as they *)
(* were typed; a new Etag only if "Invalidate cache on save" is checked.   *)
SaveSettings(r, age, setting, invalidate) ==
    LET etag == IF invalidate THEN clock ELSE req[r].cfg.etag
        cfg == [etag |-> etag, age |-> age, setting |-> setting]
    IN  /\ up
        /\ req[r].step = "form"
        /\ Commit(cfg)
        /\ Goto(r, Holding("cache", cfg))
        /\ UNCHANGED <<clock, cached, up, changedAt>>

Tick ==
    /\ clock < MaxClock
    /\ clock' = clock + 1
    /\ UNCHANGED <<stored, cached, req, up, changedAt, overlapped>>

(* The server stops: requests and configCache are gone, pages stay open.   *)
Crash ==
    /\ up
    /\ up' = FALSE
    /\ req' = [r \in Requests |-> IF req[r].step = "form" THEN req[r] ELSE Idle]
    /\ UNCHANGED <<clock, stored, cached, changedAt, overlapped>>

(* db.Init: LoadCacheConfig, then InvalidateCache; if that fails the       *)
(* server logs a fatal error and exits.                                    *)
Boot ==
    /\ ~up
    /\ IF SurvivesPut(stored)
         THEN /\ Commit([stored EXCEPT !.etag = clock])
              /\ cached' = stored'
              /\ up' = TRUE
         ELSE cached' = stored /\ UNCHANGED <<stored, overlapped, up>>
    /\ UNCHANGED <<clock, req, changedAt>>

Step(r) == InvalidateCache(r) \/ PutRead(r) \/ PutCommit(r) \/ SetCache(r)

Next ==
    \/ \E r \in Requests :
         \/ ChangeContent(r) \/ Step(r)
         \/ OpenSettings(r) \/ CloseSettings(r)
         \/ \E age \in Ages, setting \in Settings, invalidate \in BOOLEAN :
                SaveSettings(r, age, setting, invalidate)
    \/ Tick \/ Crash \/ Boot

(* A request that is being served goes on, and a stopped server is started *)
(* again.  Nobody has to change content or settings.                       *)
Fairness ==
    /\ \A r \in Requests : WF_vars(Step(r))
    /\ WF_vars(Boot)

Spec == Init /\ [][Next]_vars /\ Fairness

----------------------------------------------------------------------------
(* Every variable has its type. *)
TypeOK ==
    /\ clock \in 0 .. MaxClock
    /\ stored \in Configs
    /\ cached \in Configs
    /\ req \in [Requests -> ReqRecords]
    /\ up \in BOOLEAN
    /\ changedAt \in 0 .. MaxClock
    /\ overlapped \in BOOLEAN

(* configCache, which every handler works with, is what the bucket holds   *)
(* once no SetConfig is under way: a PutConfig that fails half-way leaves  *)
(* nothing in it, and only two SetConfigs that overlap, so that the older  *)
(* sets configCache last, can make the two differ.                         *)
CacheIsStored ==
    /\ up
    /\ \A r \in Requests : req[r].step # "cache"
    /\ ~overlapped
    => cached = stored

(* A request has changed content at time c and not yet called              *)
(* InvalidateCache.                                                        *)
ChangedAt(c) == changedAt = c /\ \E r \in Requests : req[r] = Changed

(* Whatever the settings pages, other changes and restarts do meanwhile, a *)
(* change of content is followed by an Etag not older than the change: its *)
(* own, a later one, or that of the restart; unless Max-Age is large.      *)
EtagRenewedUnlessLarge ==
    \A c \in 0 .. MaxClock :
        ChangedAt(c) ~> (stored.etag >= c \/ stored.age = "large")

(* What docs/src/System-Configuration/Settings.md says ("The cache is      *)
(* invalidated when content changes"), for every Max-Age, the documented   *)
(* 2592000 among them.                                                     *)
EtagRenewed ==
    \A c \in 0 .. MaxClock : ChangedAt(c) ~> stored.etag >= c
=============================================================================
