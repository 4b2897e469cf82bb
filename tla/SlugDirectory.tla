---------------------------- MODULE SlugDirectory ----------------------------
(***************************************************************************)
(* What the public content and its slugs promise, apart from how the       *)
(* requests of ContentStore interleave: a directory of slugs over items    *)
(* that are published under a new id, taken down, and perhaps put back by  *)
(* the late write of a copy.                                               *)
(*                                                                         *)
(*   - an id names one item for ever, and an item keeps one slug for ever; *)
(*   - only publication makes a directory entry, for the new item;         *)
(*   - an item is never taken down without its directory entry.            *)
(*                                                                         *)
(* The directory does not promise that an item that is up has an entry.    *)
(***************************************************************************)
EXTENDS Naturals

CONSTANTS Types, Ids, Slugs, NoSlug, NoTarget

VARIABLES
    issued,   \* the number of ids issued to each type
    slugOf,   \* the slug of each item ever published
    live,     \* the items that are up
    dir       \* slug to item

vars == <<issued, slugOf, live, dir>>

Targets == Types \X Ids
Issued(x) == x[2] <= issued[x[1]]

Init ==
    /\ issued = [t \in Types |-> 0]
    /\ slugOf = [x \in Targets |-> NoSlug]
    /\ live = {}
    /\ dir = [s \in Slugs |-> NoTarget]

Publish(t, s) ==
    LET x == <<t, issued[t] + 1>>
    IN  /\ x \in Targets
        /\ issued' = [issued EXCEPT ![t] = @ + 1]
        /\ slugOf' = [slugOf EXCEPT ![x] = s]
        /\ live' = live \cup {x}
        /\ dir' = [dir EXCEPT ![s] = x]

(* An item is taken down (or was, already), and its slug's entry goes.     *)
TakeDown(x) ==
    /\ Issued(x)
    /\ live' = live \ {x}
    /\ dir' = [dir EXCEPT ![slugOf[x]] = NoTarget]
    /\ UNCHANGED <<issued, slugOf>>

(* A copy of an item that was taken down is written back.                  *)
PutBack(x) ==
    /\ Issued(x)
    /\ live' = live \cup {x}
    /\ UNCHANGED <<issued, slugOf, dir>>

(* A slug's entry is lost to a pending item that carried the same slug, or *)
(* to an upload.                                                           *)
LoseEntry(s) ==
    /\ dir' = [dir EXCEPT ![s] = NoTarget]
    /\ UNCHANGED <<issued, slugOf, live>>

Next ==
    \/ \E t \in Types, s \in Slugs : Publish(t, s)
    \/ \E x \in Targets : TakeDown(x) \/ PutBack(x)
    \/ \E s \in Slugs : LoseEntry(s)

Spec == Init /\ [][Next]_vars
=============================================================================
