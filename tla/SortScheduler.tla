---------------------------- MODULE SortScheduler ----------------------------
(***************************************************************************)
(* SortContent of system/db/content.go for one content type: who rewrites  *)
(* the bucket T__sorted, from which state of the bucket T, and when.       *)
(*                                                                         *)
(* A transaction of insert or update on public content is followed by a    *)
(* call of SortContent in a goroutine; DeleteContent calls it itself, and  *)
(* not at all if InvalidateCache fails before.  Calls closer together than *)
(* waitDuration are debounced by enoughTime, whose test and update of the  *)
(* time of the last invocation are separate critical sections of           *)
(* sortMutex; a call that comes too soon leaves a goroutine that waits and *)
(* calls SortContent again, unless some call went through meanwhile.       *)
(*                                                                         *)
(* The bucket T is the number of transactions applied to it, T__sorted the *)
(* number of those that its rows reflect.  Time is counted in ticks.       *)
(***************************************************************************)
EXTENDS Naturals

CONSTANTS
    Wait,        \* waitDuration, in ticks
    InvalidationFails,  \* may InvalidateCache fail (its Etag is stored in
                 \* the settings, which may not decode any more)?
    TornReads,   \* may the slices that ContentAll returns be overwritten
                 \* before they are decoded (they outlive its transaction)?
    MaxWrites,   \* bound: transactions on the bucket T
    MaxCrashes   \* bound: restarts of the server

ASSUME ConstantsAssumption ==
    /\ Wait \in Nat
    /\ InvalidationFails \in BOOLEAN
    /\ TornReads \in BOOLEAN
    /\ MaxWrites \in Nat
    /\ MaxCrashes \in Nat

VARIABLES
    content,   \* transactions applied to the bucket T
    owed,      \* history: the last of them that a call of SortContent followed
    sorted,    \* how many of them T__sorted reflects
    covered,   \* history: the most that T__sorted ever reflected
    failed,    \* history: the most that a sort read that then gave up
    age,       \* ticks since sortContentCalls[T]; Wait + 1 if longer or never
    call,      \* the calls of SortContent, and their delayed goroutines
    crashes

vars == <<content, owed, sorted, covered, failed, age, call, crashes>>

(* Call 0 is the one InitSearchIndex makes when the server starts; call i  *)
(* is the one that follows transaction i.                                  *)
Calls == 0 .. MaxWrites

At(p) == [at |-> p]
Sorting(v) == [at |-> "sorting", snap |-> v]
Timer(left, superseded) ==
    [at |-> "timer", left |-> left, superseded |-> superseded]

CallStates ==
    {At(p) : p \in {"none", "called", "passed", "running", "waiting"}}
    \cup {Sorting(v) : v \in 0 .. MaxWrites}
    \cup {Timer(d, b) : d \in 0 .. Wait, b \in BOOLEAN}

(* Every variable has its type. *)
TypeOK ==
    /\ content \in 0 .. MaxWrites
    /\ owed \in 0 .. content
    /\ sorted \in 0 .. MaxWrites
    /\ covered \in 0 .. MaxWrites
    /\ failed \in 0 .. MaxWrites
    /\ age \in 0 .. Wait + 1
    /\ call \in [Calls -> CallStates]
    /\ crashes \in 0 .. MaxCrashes

Init ==
    /\ content = 0 /\ owed = 0 /\ sorted = 0 /\ covered = 0 /\ failed = 0
    /\ age = Wait + 1
    /\ call = [i \in Calls |-> At(IF i = 0 THEN "called" ELSE "none")]
    /\ crashes = 0

Larger(m, n) == IF m > n THEN m ELSE n

Goto(i, state) == call' = [call EXCEPT ![i] = state]

(* A transaction on public content, and the call of SortContent it is owed. *)
Commit ==
    /\ content < MaxWrites
    /\ content' = content + 1
    /\ UNCHANGED <<sorted, covered, failed, age, crashes>>

CallSort ==
    /\ owed' = content'
    /\ Goto(content', At("called"))

(* insert and update start the goroutine before they call InvalidateCache. *)
WriteContent == Commit /\ CallSort

(* DeleteContent returns the error of InvalidateCache before it sorts.     *)
DeleteContent ==
    /\ Commit
    /\ \/ CallSort
       \/ InvalidationFails /\ UNCHANGED <<owed, call>>

(* Mutant: a call that comes too soon is simply dropped.                   *)
CheckAndDrop(i) ==
    /\ call[i] = At("called")
    /\ Goto(i, At(IF age > Wait THEN "passed" ELSE "none"))
    /\ UNCHANGED <<content, owed, sorted, covered, failed, age, crashes>>

(* enoughTime looks up the last invocation...                              *)
Check(i) ==
    /\ call[i] = At("called")
    /\ Goto(i, At(IF age > Wait THEN "passed" ELSE "waiting"))
    /\ UNCHANGED <<content, owed, sorted, covered, failed, age, crashes>>

(* ... and, when that is long enough ago, sets it.  Delayed goroutines     *)
(* that looked it up before will find a later one.                         *)
SetLastInvocation(i) ==
    /\ call[i] = At("passed")
    /\ age' = 0
    /\ call' = [j \in Calls |->
                  IF j = i THEN At("running")
                  ELSE IF call[j].at = "timer" THEN Timer(call[j].left, TRUE)
                  ELSE call[j]]
    /\ UNCHANGED <<content, owed, sorted, covered, failed, crashes>>

(* ContentAll reads the bucket in a transaction of its own.                *)
ReadAll(i) ==
    /\ call[i] = At("running")
    /\ Goto(i, Sorting(content))
    /\ UNCHANGED <<content, owed, sorted, covered, failed, age, crashes>>

(* The transaction that drops T__sorted and writes it anew.                *)
StoreSorted(i) ==
    /\ call[i].at = "sorting"
    /\ sorted' = call[i].snap
    /\ covered' = Larger(covered, call[i].snap)
    /\ Goto(i, At("none"))
    /\ UNCHANGED <<content, owed, failed, age, crashes>>

(* An item does not decode: SortContent logs the error and gives up.       *)
DecodeFails(i) ==
    /\ TornReads
    /\ call[i].at = "sorting"
    /\ failed' = Larger(failed, call[i].snap)
    /\ Goto(i, At("none"))
    /\ UNCHANGED <<content, owed, sorted, covered, age, crashes>>

(* The delayed goroutine looks up the last invocation and starts a timer.  *)
Arm(i) ==
    /\ call[i] = At("waiting")
    /\ Goto(i, Timer(Wait, FALSE))
    /\ UNCHANGED <<content, owed, sorted, covered, failed, age, crashes>>

(* Mutant: the delayed goroutine calls SortContent if one did go through.  *)
FireSwapped(i) ==
    /\ call[i].at = "timer"
    /\ call[i].left = 0
    /\ Goto(i, At(IF call[i].superseded THEN "called" ELSE "none"))
    /\ UNCHANGED <<content, owed, sorted, covered, failed, age, crashes>>

(* The timer is up: SortContent, unless another call went through.         *)
Fire(i) ==
    /\ call[i].at = "timer"
    /\ call[i].left = 0
    /\ Goto(i, At(IF call[i].superseded THEN "none" ELSE "called"))
    /\ UNCHANGED <<content, owed, sorted, covered, failed, age, crashes>>

(* Mutant: the time left on a timer has no floor.                          *)
TimeLeftUnfloored(d) == d - 1
TimeLeft(d) == IF d = 0 THEN 0 ELSE d - 1

(* Time passes; a timer may fire late, and a step may take any time.       *)
Tick ==
    /\ age' = IF age > Wait THEN age ELSE age + 1
    /\ call' = [i \in Calls |->
                  IF call[i].at = "timer"
                    THEN Timer(TimeLeft(call[i].left), call[i].superseded)
                    ELSE call[i]]
    /\ UNCHANGED <<content, owed, sorted, covered, failed, crashes>>

(* The server stops and starts: what is in memory is gone, and             *)
(* InitSearchIndex sorts the type again, all that is in the bucket.        *)
Crash ==
    /\ crashes < MaxCrashes
    /\ crashes' = crashes + 1
    /\ age' = Wait + 1
    /\ call' = [i \in Calls |-> At(IF i = 0 THEN "called" ELSE "none")]
    /\ owed' = content
    /\ UNCHANGED <<content, sorted, covered, failed>>

Step(i) ==
    \/ Check(i) \/ SetLastInvocation(i) \/ ReadAll(i) \/ StoreSorted(i)
    \/ Arm(i) \/ Fire(i)

Next ==
    \/ WriteContent \/ DeleteContent \/ Tick \/ Crash
    \/ \E i \in Calls : Step(i) \/ DecodeFails(i)

(* The Go scheduler runs every runnable goroutine, and time passes; nobody *)
(* has to write, and nothing has to fail.                                  *)
Fairness ==
    /\ WF_vars(Tick)
    /\ \A i \in Calls : WF_vars(Step(i))

Spec == Init /\ [][Next]_vars /\ Fairness

----------------------------------------------------------------------------
(* Whether a call or a delayed goroutine will still sort what SortContent  *)
(* was called for, if nothing stops it.                                    *)
WillCover(i) ==
    \/ call[i].at \in {"called", "passed", "running", "waiting"}
    \/ call[i].at = "timer" /\ ~call[i].superseded
    \/ call[i].at = "sorting" /\ call[i].snap >= owed

(* The debounce forgets no call: while T__sorted has never reflected the   *)
(* last transaction that SortContent was called for, some call or delayed  *)
(* goroutine is on its way that will, however calls race through           *)
(* enoughTime; unless a sort that did read the transaction gave up.  That  *)
(* is every transaction but deletions at the end whose InvalidateCache     *)
(* failed: the next write or restart makes up for those.                   *)
NoWriteForgotten ==
    Larger(covered, failed) < owed => \E i \in Calls : WillCover(i)

(* Every transaction that SortContent was called for, or before a call or  *)
(* a restart, gets to T__sorted, though a debounced call sorts nothing:    *)
(* some sort reads it, and either rewrites T__sorted or gives up.          *)
WritesReachSorted ==
    \A w \in 1 .. MaxWrites : owed >= w ~> Larger(covered, failed) >= w

(* What the comment in enoughTime is after ("dispatch a delayed invocation *)
(* in case no additional one follows"): when no call is on its way any     *)
(* more, T__sorted is the content that the API then serves.                *)
QuietMeansSorted ==
    (\A i \in Calls : call[i].at \in {"none", "timer"}
                         /\ (call[i].at = "timer" => call[i].superseded))
        => sorted = content
=============================================================================
