------------------------------ MODULE Analytics ------------------------------
(***************************************************************************)
(* The analytics of system/api/analytics: requests to the API are queued   *)
(* in memory (requestChan), written to the bucket __requests in batches,   *)
(* counted by day into the bucket __metrics when an administrator looks at *)
(* the dashboard (ChartData), and pruned.                                  *)
(*                                                                         *)
(* Time is counted in days; a request is made at midnight or later in the  *)
(* day.  The server's time zone is UTC.  __metrics is keyed by "01/02",    *)
(* the date without its year.  The number of distinct addresses, counted   *)
(* next to the total by the same loop, is left out.                        *)
(***************************************************************************)
EXTENDS Integers, FiniteSets

CONSTANTS
    RANGE,      \* days charted, and kept
    Year,       \* days until a date comes round again
    Cap,        \* capacity of requestChan
    Viewers,    \* administrators looking at the dashboard
    MaxReqs,    \* bound: requests made
    MaxDay,     \* bound: days that pass
    NoMetric, NotMade

Days == 0 .. MaxDay
Dates == 0 .. Year - 1
Date(d) == d % Year
Reqs == 1 .. MaxReqs
PruneInterval == RANGE \div 2
Made == [day : Days, midnight : BOOLEAN]
Metrics == [day : Days, total : 0 .. MaxReqs]

ASSUME ConstantsAssumption ==
    /\ RANGE \in Nat \ {0} /\ Year \in Nat /\ RANGE < Year
    /\ Cap \in Nat \ {0}
    /\ MaxReqs \in Nat /\ MaxDay \in Nat
    /\ NoMetric \notin Metrics /\ NotMade \notin Made

VARIABLES
    today,
    pruneDue,  \* the day pruneDBTimer ticks next
    place,     \* where each request is: see Places
    made,      \* when each request was made
    serving,   \* what serve's goroutine is doing: "idle" or "inserting"
    metrics,   \* the bucket __metrics; .day is history: the day it counts
    chart      \* per viewer: the metrics ChartData has counted, if it runs

vars == <<today, pruneDue, place, made, serving, metrics, chart>>

(* A request is not made yet; or in a goroutine of Record that has to send *)
(* it; or in requestChan; or drained from it by batchInsert; or in the     *)
(* bucket __requests; or gone: deleted by ChartData as its date has a      *)
(* metric, pruned, or lost with the memory that held it.                   *)
InMemory == {"sending", "queued", "drained"}
Places == {"none", "stored", "deleted", "pruned", "lost"} \cup InMemory

(* A viewer's ChartData is not running, or has counted these metrics.      *)
Idle == [at |-> "idle", fresh |-> {}]
Counted(fresh) == [at |-> "counted", fresh |-> fresh]

At(p) == {i \in Reqs : place[i] = p}
Move(S, p) == place' = [i \in Reqs |-> IF i \in S THEN p ELSE place[i]]

Init ==
    /\ today = 0
    /\ pruneDue = PruneInterval
    /\ place = [i \in Reqs |-> "none"]
    /\ made = [i \in Reqs |-> NotMade]
    /\ serving = "idle"
    /\ metrics = [d \in Dates |-> NoMetric]
    /\ chart = [v \in Viewers |-> Idle]

----------------------------------------------------------------------------
(* Record: a goroutine for each request to the API.                        *)
Record(i, midnight) ==
    /\ place[i] = "none"
    /\ \A j \in Reqs : j < i => place[j] # "none"
    /\ Move({i}, "sending")
    /\ made' = [made EXCEPT ![i] = [day |-> today, midnight |-> midnight]]
    /\ UNCHANGED <<today, pruneDue, serving, metrics, chart>>

(* Mutant: the channel is one shorter, that is, unbuffered.                *)
SendUnbuffered(i) ==
    /\ place[i] = "sending"
    /\ Cardinality(At("queued")) < Cap - 1
    /\ Move({i}, "queued")
    /\ UNCHANGED <<today, pruneDue, made, serving, metrics, chart>>

(* It waits while the channel is full.                                     *)
Send(i) ==
    /\ place[i] = "sending"
    /\ Cardinality(At("queued")) < Cap
    /\ Move({i}, "queued")
    /\ UNCHANGED <<today, pruneDue, made, serving, metrics, chart>>

(* batchInsert takes what is in the channel...                             *)
BatchDrain ==
    /\ serving = "idle"
    /\ serving' = "inserting"
    /\ Move(At("queued"), "drained")
    /\ UNCHANGED <<today, pruneDue, made, metrics, chart>>

(* ... and stores it in one transaction...                                 *)
BatchInsert ==
    /\ serving = "inserting"
    /\ serving' = "idle"
    /\ Move(At("drained"), "stored")
    /\ UNCHANGED <<today, pruneDue, made, metrics, chart>>

(* ... which, when it fails, loses it.                                     *)
BatchFails ==
    /\ serving = "inserting"
    /\ serving' = "idle"
    /\ Move(At("drained"), "lost")
    /\ UNCHANGED <<today, pruneDue, made, metrics, chart>>

(* A tick of pruneDBTimer, every RANGE/2 days, and batchPrune(RANGE days): *)
(* the day it compares with is today plus that duration.                   *)
Prune ==
    LET max == today + RANGE
    IN  /\ serving = "idle"
        /\ today >= pruneDue
        /\ pruneDue' = pruneDue + PruneInterval
        /\ Move({i \in At("stored") :
                    \/ made[i].day < max
                    \/ made[i].day = max /\ made[i].midnight}, "pruned")
        /\ UNCHANGED <<today, made, serving, metrics, chart>>

----------------------------------------------------------------------------
(* Mutant: the comparison with the thresholds is the other way round.      *)
CountedOnBackwards(i) ==
    LET m == made[i]
    IN  IF m.day <= today - RANGE THEN {}
        ELSE IF m.day = today \/ m.midnight THEN {m.day}
        ELSE {d \in Days : today - RANGE < d /\ d <= m.day}

(* The days whose totals the loop CHECK_REQUEST increments for a request:  *)
(* today's for a request of today; none for one before the first of RANGE  *)
(* days; the day of one made at midnight; and for any other, since the     *)
(* loop goes on, its day and every later one before today.                 *)
CountedOn(i) ==
    LET m == made[i]
    IN  IF m.day <= today - RANGE THEN {}
        ELSE IF m.day = today \/ m.midnight THEN {m.day}
        ELSE m.day .. today - 1

(* Mutant: the branches of the loop fall through and count twice.          *)
CountTwice(d, kept) ==
    [day |-> d, total |-> 2 * Cardinality({i \in kept : d \in CountedOn(i)})]

Count(d, kept) ==
    [day |-> d, total |-> Cardinality({i \in kept : d \in CountedOn(i)})]

(* Mutant: every request of a past day goes once it has been read.         *)
DroppedPast == {i \in At("stored") : made[i].day < today}

(* The requests of past days whose date has a metric.                      *)
Dropped == {i \in At("stored") : made[i].day < today
                                    /\ metrics[Date(made[i].day)] # NoMetric}

(* ChartData's first transaction, and the counting: stored requests of     *)
(* past days whose date has a metric are deleted, the others are counted   *)
(* for the dates of RANGE days that have none.                             *)
ChartRead(v) ==
    LET kept == At("stored") \ Dropped
        past == {d \in Days : today - RANGE < d /\ d < today}
        fresh == {d \in past : /\ metrics[Date(d)] = NoMetric
                               /\ Count(d, kept).total # 0}
    IN  /\ chart[v] = Idle
        /\ Move(Dropped, "deleted")
        /\ chart' = [chart EXCEPT ![v] = Counted({Count(d, kept) : d \in fresh})]
        /\ UNCHANGED <<today, pruneDue, made, serving, metrics>>

(* Mutant: the bucket is not asked again before a metric is put in it.     *)
ChartWriteUnchecked(v) ==
    /\ chart[v] # Idle
    /\ metrics' = [e \in Dates |->
          IF \E m \in chart[v].fresh : Date(m.day) = e
            THEN CHOOSE m \in chart[v].fresh : Date(m.day) = e
            ELSE metrics[e]]
    /\ chart' = [chart EXCEPT ![v] = Idle]
    /\ UNCHANGED <<today, pruneDue, place, made, serving>>

(* Its second transaction puts the metrics whose date still has none.      *)
ChartWrite(v) ==
    /\ chart[v] # Idle
    /\ metrics' = [e \in Dates |->
          IF metrics[e] = NoMetric /\ \E m \in chart[v].fresh : Date(m.day) = e
            THEN CHOOSE m \in chart[v].fresh : Date(m.day) = e
            ELSE metrics[e]]
    /\ chart' = [chart EXCEPT ![v] = Idle]
    /\ UNCHANGED <<today, pruneDue, place, made, serving>>

NextDay ==
    /\ today < MaxDay
    /\ today' = today + 1
    /\ UNCHANGED <<pruneDue, place, made, serving, metrics, chart>>

(* The server stops and starts again.                                      *)
Crash ==
    /\ Move(UNION {At(p) : p \in InMemory}, "lost")
    /\ serving' = "idle"
    /\ chart' = [v \in Viewers |-> Idle]
    /\ pruneDue' = today + PruneInterval
    /\ UNCHANGED <<today, made, metrics>>

Next ==
    \/ \E i \in Reqs, midnight \in BOOLEAN : Record(i, midnight)
    \/ \E i \in Reqs : Send(i)
    \/ BatchDrain \/ BatchInsert \/ BatchFails \/ Prune
    \/ \E v \in Viewers : ChartRead(v) \/ ChartWrite(v)
    \/ NextDay \/ Crash

(* serve's ticker fires, a batch ends, and a goroutine that can send does. *)
Fairness ==
    /\ \A i \in Reqs : WF_vars(Send(i))
    /\ WF_vars(BatchDrain)
    /\ WF_vars(BatchInsert \/ BatchFails)

Spec == Init /\ [][Next]_vars /\ Fairness

----------------------------------------------------------------------------
(* Every variable has its type. *)
TypeOK ==
    /\ today \in Days
    /\ pruneDue \in 0 .. MaxDay + PruneInterval
    /\ place \in [Reqs -> Places]
    /\ made \in [Reqs -> Made \cup {NotMade}]
    /\ serving \in {"idle", "inserting"}
    /\ metrics \in [Dates -> Metrics \cup {NoMetric}]
    /\ chart \in [Viewers -> [at : {"idle", "counted"}, fresh : SUBSET Metrics]]

(* A metric never counts a request made after its day, however batches,    *)
(* prunes, days and dashboards interleave: its total is at most the number *)
(* of requests made up to that day.                                        *)
CountsNoLaterRequest ==
    \A e \in Dates : metrics[e] # NoMetric =>
        metrics[e].total <=
            Cardinality({i \in Reqs : place[i] # "none"
                                        /\ made[i].day <= metrics[e].day})

(* ChartData deletes a stored request only when a metric stands for its    *)
(* date already: two dashboards opened at once, one of which has not       *)
(* written its metrics yet, or dies, delete nothing that is not counted.   *)
DeletedHaveMetric ==
    \A i \in At("deleted") : metrics[Date(made[i].day)] # NoMetric

(* A metric, once written, is the figure of its date for good: a dashboard *)
(* that counted other requests (later batches, a prune) does not change it.*)
MetricsWrittenOnce ==
    [][\A e \in Dates : metrics[e] # NoMetric => metrics'[e] = metrics[e]]_vars

(* No request stays in memory: it is stored, or lost to a failed batch or  *)
(* to a restart, and a full channel delays it without blocking it for good.*)
RequestsLeaveMemory ==
    \A i \in Reqs : place[i] \in InMemory ~> place[i] \notin InMemory

(* What the comment on ChartData promises ("RANGE days of data by day"):   *)
(* no more requests are counted for a day than were made on it.            *)
CountedByDay ==
    \A e \in Dates : metrics[e] # NoMetric =>
        metrics[e].total <=
            Cardinality({i \in Reqs : place[i] # "none"
                                        /\ made[i].day = metrics[e].day})

(* What the comment on batchPrune and the one on pruneDBTimer say ("remove *)
(* analytics older than RANGE days"): no younger request is pruned.        *)
PrunesOnlyOld ==
    [][\A i \in Reqs : place[i] = "stored" /\ place'[i] = "pruned"
            => made[i].day <= today - RANGE]_vars
=============================================================================
