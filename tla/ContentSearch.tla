----------------------------- MODULE ContentSearch -----------------------------
(***************************************************************************)
(* The search index of one content type: the goroutines that insert,       *)
(* update and DeleteContent of system/db/content.go leave after their      *)
(* transaction, in an order nothing fixes.  They find the index only once  *)
(* InitSearchIndex, a goroutine of its own beside the serving of requests, *)
(* has opened it.  A version stands for the data of an item; pending items *)
(* have a bucket and ids of their own, but the index knows one set of ids. *)
(***************************************************************************)
EXTENDS Integers

CONSTANTS
    MaxIds,       \* bound on the ids of each bucket
    MaxVersions,  \* bound on the versions stored
    MaxStops      \* bound on the restarts of the server

ASSUME SearchAssumption == {MaxIds, MaxVersions, MaxStops} \subseteq Nat

Buckets == {"public", "pending"}
Ids == 1 .. MaxIds
Absent == 0

VARIABLES
    stored,    \* per bucket and id, the version there, or Absent
    issued,    \* per bucket, the last id of its sequence
    index,     \* per id, the version the index has, or Absent
    open,      \* does Search know the type's index?
    tasks,     \* the goroutines not run yet: [id, version]
    versions,  \* the last version stored
    disturbed, \* history: ids whose last public write was not alone on its way
               \* to the index, or got there with an error
    missed,    \* history: ids of goroutines that found no index since then
    stops      \* restarts so far

searchVars ==
    <<stored, issued, index, open, tasks, versions, disturbed, missed, stops>>

SearchInit ==
    /\ stored = [b \in Buckets |-> [i \in Ids |-> Absent]]
    /\ issued = [b \in Buckets |-> 0]
    /\ index = [i \in Ids |-> Absent]
    /\ open = FALSE
    /\ tasks = {}
    /\ versions = 0
    /\ disturbed = {}
    /\ missed = {}
    /\ stops = 0

\* The goroutine for an id starts; it is alone if none before it is on its way,
\* and if it is about the public item of that id.
Quiet(b, i) == b = "public" /\ \A t \in tasks : t.id # i

Go(b, i, version) ==
    /\ tasks' = tasks \cup {[id |-> i, version |-> version]}
    /\ disturbed' = IF Quiet(b, i) THEN disturbed \ {i} ELSE disturbed \cup {i}
    /\ missed' = IF Quiet(b, i) THEN missed \ {i} ELSE missed

\* InvalidateCache failed, and the function returned before the goroutine.
NotIndexed(b, i) ==
    /\ disturbed' = IF b = "public" THEN disturbed \cup {i} ELSE disturbed
    /\ UNCHANGED <<tasks, missed>>

Store(b, i) ==
    /\ versions < MaxVersions
    /\ versions' = versions + 1
    /\ stored' = [stored EXCEPT ![b][i] = versions']
    /\ Go(b, i, versions') \/ NotIndexed(b, i)
    /\ UNCHANGED <<index, open, stops>>

\* Mutant: the id is taken before the sequence moves on.
InsertTooSoon(b) ==
    /\ issued[b] < MaxIds
    /\ issued' = [issued EXCEPT ![b] = @ + 1]
    /\ Store(b, issued[b])

\* insert: the target in the index has the type without its specifier.
Insert(b) ==
    /\ issued[b] < MaxIds
    /\ issued' = [issued EXCEPT ![b] = @ + 1]
    /\ Store(b, issued'[b])

\* update, likewise, also of an item that is gone by now.
Update(b, i) ==
    /\ i <= issued[b]
    /\ Store(b, i)
    /\ UNCHANGED issued

\* Mutant: the goroutine indexes what was deleted.
DeleteAsUpdate(b, i) ==
    /\ stored[b][i] # Absent
    /\ stored' = [stored EXCEPT ![b][i] = Absent]
    /\ b = "public" /\ Go(b, i, stored[b][i])
    /\ UNCHANGED <<issued, index, open, versions, stops>>

\* DeleteContent leaves the index alone for a type with a specifier.
Delete(b, i) ==
    /\ stored[b][i] # Absent
    /\ stored' = [stored EXCEPT ![b][i] = Absent]
    /\ \/ b = "public" /\ Go(b, i, Absent)
       \/ NotIndexed(b, i)
    /\ UNCHANGED <<issued, index, open, versions, stops>>

\* InitSearchIndex gets to the type; MapIndex opens its index as it is.
MapIndex ==
    /\ ~open
    /\ open' = TRUE
    /\ UNCHANGED <<stored, issued, index, tasks, versions, disturbed, missed, stops>>

\* The goroutine runs.
Finish(t) ==
    /\ t \in tasks
    /\ tasks' = tasks \ {t}
    /\ UNCHANGED <<stored, issued, open, versions, stops>>

\* Mutant: deletions are left out.
RunUpdatesOnly(t) ==
    /\ Finish(t) /\ open
    /\ index' = IF t.version = Absent THEN index ELSE [index EXCEPT ![t.id] = t.version]
    /\ UNCHANGED <<disturbed, missed>>

\* UpdateIndex and DeleteIndex.
RunTask(t) ==
    /\ Finish(t) /\ open
    /\ index' = [index EXCEPT ![t.id] = t.version]
    /\ UNCHANGED <<disturbed, missed>>

\* They return an error, which is logged.
FailTask(t) ==
    /\ Finish(t) /\ open
    /\ disturbed' = disturbed \cup {t.id}
    /\ UNCHANGED <<index, missed>>

\* They find no index for the type, and return without an error.
MissIndex(t) ==
    /\ Finish(t) /\ ~open
    /\ missed' = missed \cup {t.id}
    /\ UNCHANGED <<index, disturbed>>

\* The server stops and starts; Search is empty again.
Stop ==
    /\ stops < MaxStops
    /\ stops' = stops + 1
    /\ tasks' = {}
    /\ open' = FALSE
    /\ disturbed' = disturbed \cup {t.id : t \in tasks}
    /\ UNCHANGED <<stored, issued, index, versions, missed>>

SearchNext ==
    \/ \E b \in Buckets : Insert(b)
    \/ \E b \in Buckets, i \in Ids : Update(b, i)
    \/ \E b \in Buckets, i \in Ids : Delete(b, i)
    \/ \E t \in tasks : RunTask(t) \/ FailTask(t) \/ MissIndex(t)
    \/ MapIndex \/ Stop

SearchSpec == SearchInit /\ [][SearchNext]_searchVars

------------------------------------------------------------------------------
(* Properties.                                                             *)

SearchTypeOK ==
    /\ stored \in [Buckets -> [Ids -> 0 .. MaxVersions]]
    /\ issued \in [Buckets -> 0 .. MaxIds]
    /\ index \in [Ids -> 0 .. MaxVersions]
    /\ open \in BOOLEAN
    /\ tasks \in SUBSET [id : Ids, version : 0 .. MaxVersions]
    /\ versions \in 0 .. MaxVersions
    /\ disturbed \in SUBSET Ids
    /\ missed \in SUBSET Ids
    /\ stops \in 0 .. MaxStops

\* The index has what the public bucket has once the goroutine of the id's last
\* public write has run, if that write found none on its way, none was started or
\* lost since, and the goroutine found the index open and returned no error: a
\* quiet write repairs whatever races, failures, stops, a late MapIndex and
\* pending items of the same id did before (update, insert, DeleteContent).
IndexFollowsQuietWrites ==
    \A i \in Ids \ (disturbed \cup missed) :
        (\A t \in tasks : t.id # i) => index[i] = stored["public"][i]

\* A goroutine still on its way for an undisturbed id is the only one, and brings
\* what is stored.
OneTaskIfQuiet ==
    \A t \in tasks : t.id \notin disturbed =>
        /\ t.version = stored["public"][t.id]
        /\ \A u \in tasks : u.id = t.id => u = t
=============================================================================
