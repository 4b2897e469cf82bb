---------------------------- MODULE AnalyticsProofs ----------------------------
(***************************************************************************)
(* Proofs about Analytics, for any RANGE, any capacity of requestChan, any *)
(* number of dashboards, requests and days.                                *)
(*                                                                         *)
(* What the runs check of __metrics is extended to the metrics a dashboard *)
(* has counted and not written yet; the number of requests made up to a    *)
(* day only grows, so that a count stays below it however late it comes.   *)
(***************************************************************************)
EXTENDS Analytics, FiniteSetTheorems, TLAPS

USE ConstantsAssumption DEF ConstantsAssumption

UpTo(d) == {i \in Reqs : place[i] # "none" /\ made[i].day <= d}

MadeAreDated == \A i \in Reqs : place[i] # "none" => made[i] \in Made

FreshCountNoLater ==
    \A v \in Viewers : \A m \in chart[v].fresh : m.total <= Cardinality(UpTo(m.day))

IInv ==
    /\ TypeOK /\ MadeAreDated /\ DeletedHaveMetric
    /\ CountsNoLaterRequest /\ FreshCountNoLater

------------------------------------------------------------------------------
(* Dates, days and numbers of requests.                                    *)

LEMMA DateType == ASSUME NEW d \in Days PROVE Date(d) \in Dates
  BY DEF Date, Dates, Days

LEMMA ReqsFinite ==
    /\ IsFiniteSet(Reqs) /\ Cardinality(Reqs) = MaxReqs
    /\ \A S \in SUBSET Reqs : IsFiniteSet(S) /\ Cardinality(S) \in 0 .. MaxReqs
<1>1. IsFiniteSet(Reqs) /\ Cardinality(Reqs) = MaxReqs
  BY FS_Interval DEF Reqs
<1>2. ASSUME NEW S \in SUBSET Reqs
      PROVE  IsFiniteSet(S) /\ Cardinality(S) \in 0 .. MaxReqs
  BY <1>1, FS_Subset, FS_CardinalityType
<1> QED BY <1>1, <1>2

LEMMA SmallerCount ==
    ASSUME NEW S \in SUBSET Reqs, NEW T \in SUBSET Reqs, S \subseteq T
    PROVE  Cardinality(S) <= Cardinality(T)
  BY ReqsFinite, FS_Subset

\* What is counted for a day was made on it or before.
LEMMA CountedWereMade ==
    ASSUME TypeOK, MadeAreDated, NEW i \in Reqs, place[i] = "stored",
           NEW d \in CountedOn(i)
    PROVE  made[i].day <= d
<1>1. made[i].day \in Days /\ today \in Days
  BY DEF TypeOK, MadeAreDated, Made
<1> QED BY <1>1 DEF CountedOn, Days

LEMMA CountType ==
    ASSUME TypeOK, MadeAreDated, NEW d \in Days, NEW kept \in SUBSET At("stored")
    PROVE  /\ Count(d, kept) \in Metrics
           /\ Count(d, kept).day = d
           /\ Count(d, kept).total <= Cardinality(UpTo(d))
<1> DEFINE S == {i \in kept : d \in CountedOn(i)}
<1>1. S \in SUBSET Reqs /\ UpTo(d) \in SUBSET Reqs
  BY DEF At, UpTo
<1>2. S \subseteq UpTo(d)
  BY CountedWereMade DEF At, UpTo
<1>3. Cardinality(S) \in 0 .. MaxReqs /\ Cardinality(S) <= Cardinality(UpTo(d))
  BY <1>1, <1>2, ReqsFinite, SmallerCount
<1>4. Count(d, kept) = [day |-> d, total |-> Cardinality(S)]
  BY DEF Count
<1> QED BY <1>3, <1>4 DEF Metrics

------------------------------------------------------------------------------
(* Steps.                                                                  *)

\* Requests once made stay made.
StayMade ==
    \A i \in Reqs : place[i] # "none" => place'[i] # "none" /\ made'[i] = made[i]

LEMMA CountsGrow ==
    ASSUME StayMade, NEW d \in Days
    PROVE  Cardinality(UpTo(d)) <= Cardinality(UpTo(d)')
<1>1. UpTo(d) \in SUBSET Reqs /\ UpTo(d)' \in SUBSET Reqs
  BY DEF UpTo
<1>2. UpTo(d) \subseteq UpTo(d)'
  BY DEF UpTo, StayMade
<1> QED BY <1>1, <1>2, SmallerCount

\* A count that was below the requests of a day stays below them.
LEMMA StaysBelow ==
    ASSUME StayMade, NEW m \in Metrics, m.total <= Cardinality(UpTo(m.day))
    PROVE  m.total <= Cardinality(UpTo(m.day)')
<1>1. m.day \in Days /\ m.total \in Nat
  BY DEF Metrics
<1>2. Cardinality(UpTo(m.day)) \in Nat /\ Cardinality(UpTo(m.day)') \in Nat
  BY ReqsFinite DEF UpTo
<1>3. Cardinality(UpTo(m.day)) <= Cardinality(UpTo(m.day)')
  BY <1>1, CountsGrow
<1> QED BY <1>1, <1>2, <1>3

\* A step that leaves __metrics alone, deletes requests of dates with a metric at
\* most, and leaves dashboards with counts that are below the requests made.
LEMMA MetricsStay ==
    ASSUME IInv, TypeOK', MadeAreDated', StayMade, metrics' = metrics,
           \A i \in Reqs : place'[i] = "deleted" =>
               \/ place[i] = "deleted"
               \/ place[i] # "none" /\ metrics[Date(made[i].day)] # NoMetric,
           \A v \in Viewers : \A m \in chart'[v].fresh :
               m \in Metrics /\ m.total <= Cardinality(UpTo(m.day))
    PROVE  IInv'
<1>1. DeletedHaveMetric'
  <2> SUFFICES ASSUME NEW i \in Reqs, place'[i] = "deleted"
               PROVE  metrics[Date(made'[i].day)] # NoMetric
    BY DEF DeletedHaveMetric, At
  <2>1. place[i] # "none" /\ made'[i] = made[i]
    BY DEF StayMade
  <2> QED BY <2>1 DEF IInv, DeletedHaveMetric, At
<1>2. CountsNoLaterRequest'
  <2> SUFFICES ASSUME NEW e \in Dates, metrics[e] # NoMetric
               PROVE  metrics[e].total <= Cardinality(UpTo(metrics[e].day)')
    BY DEF CountsNoLaterRequest, UpTo
  <2>1. metrics[e] \in Metrics
    BY DEF IInv, TypeOK
  <2>2. metrics[e].total <= Cardinality(UpTo(metrics[e].day))
    BY DEF IInv, CountsNoLaterRequest, UpTo
  <2> QED BY <2>1, <2>2, StaysBelow
<1>3. FreshCountNoLater'
  <2> SUFFICES ASSUME NEW v \in Viewers, NEW m \in chart'[v].fresh
               PROVE  m.total <= Cardinality(UpTo(m.day)')
    BY DEF FreshCountNoLater, UpTo
  <2> QED BY StaysBelow
<1> QED BY <1>1, <1>2, <1>3 DEF IInv

\* Requests move from one place to another.
LEMMA MovedType ==
    ASSUME TypeOK, NEW S \in SUBSET Reqs, NEW p \in Places, Move(S, p)
    PROVE  /\ place' \in [Reqs -> Places]
           /\ \A i \in Reqs : place'[i] = IF i \in S THEN p ELSE place[i]
  BY DEF Move, TypeOK

\* A step that only moves requests, to a place other than "none" and "deleted".
LEMMA MoveInv ==
    ASSUME IInv, NEW S \in SUBSET Reqs, NEW p \in Places \ {"none", "deleted"},
           Move(S, p), UNCHANGED <<today, made, metrics>>,
           \A i \in S : place[i] # "none",
           chart' = chart \/ chart' = [v \in Viewers |-> Idle],
           pruneDue' \in 0 .. MaxDay + PruneInterval,
           serving' \in {"idle", "inserting"}
    PROVE  IInv'
<1>1. /\ place' \in [Reqs -> Places]
      /\ \A i \in Reqs : place'[i] = IF i \in S THEN p ELSE place[i]
  BY MovedType DEF IInv
<1>2. chart' \in [Viewers -> [at : {"idle", "counted"}, fresh : SUBSET Metrics]]
  BY DEF IInv, TypeOK, Idle
<1>3. TypeOK'
  BY <1>1, <1>2 DEF IInv, TypeOK
<1>4. StayMade
  BY <1>1 DEF StayMade
<1>5. MadeAreDated'
  BY <1>1 DEF IInv, MadeAreDated
<1>6. \A v \in Viewers : \A m \in chart'[v].fresh :
          m \in Metrics /\ m.total <= Cardinality(UpTo(m.day))
  <2>1. \A v \in Viewers : chart[v].fresh \subseteq Metrics
    BY DEF IInv, TypeOK
  <2>2. \A v \in Viewers : chart'[v].fresh \subseteq chart[v].fresh
    BY DEF Idle
  <2> QED BY <2>1, <2>2 DEF IInv, FreshCountNoLater
<1> QED BY <1>1, <1>3, <1>4, <1>5, <1>6, MetricsStay

LEMMA InitInv == Init => IInv
<1> SUFFICES ASSUME Init PROVE IInv
  OBVIOUS
<1>1. PruneInterval \in Nat
  BY DEF PruneInterval
<1>2. TypeOK
  BY <1>1 DEF Init, TypeOK, Days, Places, Idle
<1> QED BY <1>2 DEF Init, IInv, MadeAreDated, DeletedHaveMetric, At,
           CountsNoLaterRequest, FreshCountNoLater, Idle

LEMMA ChartReadInv ==
    ASSUME IInv, NEW v \in Viewers, ChartRead(v) PROVE IInv'
<1> DEFINE kept == At("stored") \ Dropped
           past == {d \in Days : today - RANGE < d /\ d < today}
           fresh == {d \in past : /\ metrics[Date(d)] = NoMetric
                                  /\ Count(d, kept).total # 0}
           counted == {Count(d, kept) : d \in fresh}
<1>1. /\ Move(Dropped, "deleted")
      /\ chart' = [chart EXCEPT ![v] = Counted(counted)]
      /\ UNCHANGED <<today, pruneDue, made, serving, metrics>>
  BY DEF ChartRead
<1>2. TypeOK /\ MadeAreDated /\ Dropped \in SUBSET Reqs
  BY DEF IInv, Dropped, At
<1>3. kept \in SUBSET At("stored") /\ fresh \in SUBSET Days
  OBVIOUS
<1> HIDE DEF kept, fresh
<1>4. \A m \in counted : m \in Metrics /\ m.total <= Cardinality(UpTo(m.day))
  BY <1>2, <1>3, CountType
<1> HIDE DEF counted
<1>5. /\ place' \in [Reqs -> Places]
      /\ \A i \in Reqs : place'[i] = IF i \in Dropped THEN "deleted" ELSE place[i]
  BY <1>1, <1>2, MovedType DEF Places
<1>6. /\ chart' \in [Viewers -> [at : {"idle", "counted"}, fresh : SUBSET Metrics]]
      /\ \A w \in Viewers : chart'[w] = IF w = v THEN Counted(counted) ELSE chart[w]
  BY <1>1, <1>2, <1>4 DEF TypeOK, Counted
<1>7. TypeOK'
  BY <1>1, <1>2, <1>5, <1>6 DEF TypeOK
<1>8. \A i \in Dropped : place[i] = "stored" /\ metrics[Date(made[i].day)] # NoMetric
  BY DEF Dropped, At
<1>9. StayMade
  BY <1>1, <1>5, <1>8 DEF StayMade
<1>10. MadeAreDated'
  BY <1>1, <1>2, <1>5, <1>8 DEF MadeAreDated
<1>11. \A w \in Viewers : \A m \in chart'[w].fresh :
           m \in Metrics /\ m.total <= Cardinality(UpTo(m.day))
  <2>1. \A w \in Viewers : chart[w].fresh \subseteq Metrics
    BY <1>2 DEF TypeOK
  <2>2. \A w \in Viewers : chart'[w].fresh = IF w = v THEN counted ELSE chart[w].fresh
    BY <1>6 DEF Counted
  <2> QED BY <1>4, <2>1, <2>2 DEF IInv, FreshCountNoLater
<1>12. \A i \in Reqs : place'[i] = "deleted" =>
           \/ place[i] = "deleted"
           \/ place[i] # "none" /\ metrics[Date(made[i].day)] # NoMetric
  BY <1>5, <1>8
<1> QED BY <1>1, <1>7, <1>9, <1>10, <1>11, <1>12, MetricsStay

\* What the second transaction puts in the bucket.
LEMMA WrittenMetrics ==
    ASSUME TypeOK, NEW v \in Viewers, ChartWrite(v), NEW e \in Dates
    PROVE  \/ metrics'[e] = metrics[e]
           \/ metrics[e] = NoMetric /\ metrics'[e] \in chart[v].fresh
<1> DEFINE some == CHOOSE m \in chart[v].fresh : Date(m.day) = e
<1>1. metrics'[e] = IF metrics[e] = NoMetric /\ \E m \in chart[v].fresh : Date(m.day) = e
                    THEN some ELSE metrics[e]
  BY DEF ChartWrite
<1>2. (\E m \in chart[v].fresh : Date(m.day) = e) => some \in chart[v].fresh
  OBVIOUS
<1> HIDE DEF some
<1> QED BY <1>1, <1>2

LEMMA ChartWriteInv ==
    ASSUME IInv, NEW v \in Viewers, ChartWrite(v) PROVE IInv'
<1>1. /\ UNCHANGED <<today, pruneDue, place, made, serving>>
      /\ chart' = [chart EXCEPT ![v] = Idle]
  BY DEF ChartWrite
<1>2. TypeOK /\ chart[v].fresh \subseteq Metrics
  BY DEF IInv, TypeOK
<1>3. \A e \in Dates : metrics'[e] \in Metrics \cup {NoMetric}
  BY <1>2, WrittenMetrics DEF TypeOK
<1>4. metrics' \in [Dates -> Metrics \cup {NoMetric}]
  BY <1>3 DEF ChartWrite
<1>5. /\ chart' \in [Viewers -> [at : {"idle", "counted"}, fresh : SUBSET Metrics]]
      /\ \A w \in Viewers : chart'[w].fresh \subseteq chart[w].fresh
  BY <1>1, <1>2 DEF TypeOK, Idle
<1>6. TypeOK' /\ MadeAreDated'
  BY <1>1, <1>2, <1>4, <1>5 DEF IInv, TypeOK, MadeAreDated
<1>7. DeletedHaveMetric'
  <2> SUFFICES ASSUME NEW i \in Reqs, place[i] = "deleted"
               PROVE  metrics'[Date(made[i].day)] # NoMetric
    BY <1>1 DEF DeletedHaveMetric, At
  <2>1. made[i].day \in Days
    BY DEF IInv, MadeAreDated, Made
  <2>2. Date(made[i].day) \in Dates
    BY <2>1, DateType
  <2>3. metrics[Date(made[i].day)] # NoMetric
    BY DEF IInv, DeletedHaveMetric, At
  <2> QED BY <1>2, <2>2, <2>3, WrittenMetrics
<1>8. CountsNoLaterRequest'
  <2> SUFFICES ASSUME NEW e \in Dates, metrics'[e] # NoMetric
               PROVE  metrics'[e].total <= Cardinality(UpTo(metrics'[e].day))
    BY <1>1 DEF CountsNoLaterRequest, UpTo
  <2>1. CASE metrics'[e] = metrics[e]
    BY <2>1 DEF IInv, CountsNoLaterRequest, UpTo
  <2>2. CASE metrics'[e] \in chart[v].fresh
    BY <2>2 DEF IInv, FreshCountNoLater
  <2> QED BY <1>2, <2>1, <2>2, WrittenMetrics
<1>9. FreshCountNoLater'
  BY <1>1, <1>5 DEF IInv, FreshCountNoLater, UpTo
<1> QED BY <1>6, <1>7, <1>8, <1>9 DEF IInv

LEMMA StepInv == IInv /\ [Next]_vars => IInv'
<1> SUFFICES ASSUME IInv, [Next]_vars PROVE IInv'
  OBVIOUS
<1>0. /\ TypeOK /\ MadeAreDated
      /\ pruneDue \in 0 .. MaxDay + PruneInterval /\ PruneInterval \in Nat
      /\ today \in Days /\ serving \in {"idle", "inserting"}
      /\ \A p : At(p) \in SUBSET Reqs
  BY DEF IInv, TypeOK, At, PruneInterval
<1>fresh. \A v \in Viewers : \A m \in chart[v].fresh :
              m \in Metrics /\ m.total <= Cardinality(UpTo(m.day))
  BY <1>0 DEF TypeOK, IInv, FreshCountNoLater
<1>1. ASSUME NEW i \in Reqs, NEW midnight \in BOOLEAN, Record(i, midnight)
      PROVE  IInv'
  <2>1. /\ Move({i}, "sending") /\ place[i] = "none"
        /\ made' = [made EXCEPT ![i] = [day |-> today, midnight |-> midnight]]
        /\ UNCHANGED <<today, pruneDue, serving, metrics, chart>>
    BY <1>1 DEF Record
  <2>2. /\ place' \in [Reqs -> Places]
        /\ \A j \in Reqs : place'[j] = IF j = i THEN "sending" ELSE place[j]
    BY <1>0, <2>1, MovedType DEF Places, InMemory
  <2>3. /\ made' \in [Reqs -> Made \cup {NotMade}]
        /\ made'[i] \in Made
        /\ \A j \in Reqs : j # i => made'[j] = made[j]
    BY <1>0, <2>1 DEF TypeOK, Made
  <2>4. TypeOK'
    BY <1>0, <2>1, <2>2, <2>3 DEF TypeOK
  <2>5. MadeAreDated' /\ StayMade
    BY <1>0, <2>1, <2>2, <2>3 DEF MadeAreDated, StayMade
  <2> QED BY <1>fresh, <2>1, <2>2, <2>4, <2>5, MetricsStay
<1>2. ASSUME NEW i \in Reqs, Send(i) PROVE IInv'
  BY <1>0, <1>2, MoveInv DEF Send, Places, InMemory
<1>3. CASE BatchDrain
  BY <1>0, <1>3, MoveInv DEF BatchDrain, Places, InMemory, At
<1>4. CASE BatchInsert
  BY <1>0, <1>4, MoveInv DEF BatchInsert, Places, InMemory, At
<1>5. CASE BatchFails
  BY <1>0, <1>5, MoveInv DEF BatchFails, Places, InMemory, At
<1>6. CASE Prune
  <2> DEFINE S == {i \in At("stored") :
                      \/ made[i].day < today + RANGE
                      \/ made[i].day = today + RANGE /\ made[i].midnight}
  <2>1. /\ Move(S, "pruned") /\ pruneDue' = pruneDue + PruneInterval
        /\ today >= pruneDue /\ UNCHANGED <<today, made, serving, metrics, chart>>
    BY <1>6 DEF Prune
  <2>2. S \in SUBSET Reqs /\ \A i \in S : place[i] # "none"
    BY DEF At
  <2>3. pruneDue' \in 0 .. MaxDay + PruneInterval
    BY <1>0, <2>1 DEF Days
  <2> HIDE DEF S
  <2>4. "pruned" \in Places \ {"none", "deleted"}
    BY DEF Places
  <2> QED BY <1>0, <2>1, <2>2, <2>3, <2>4, MoveInv
<1>7. ASSUME NEW v \in Viewers, ChartRead(v) PROVE IInv'
  BY <1>7, ChartReadInv
<1>8. ASSUME NEW v \in Viewers, ChartWrite(v) PROVE IInv'
  BY <1>8, ChartWriteInv
<1>9. CASE NextDay
  <2>1. TypeOK' /\ MadeAreDated'
    BY <1>0, <1>9 DEF NextDay, TypeOK, MadeAreDated, Days
  <2>2. StayMade
    BY <1>9 DEF NextDay, StayMade
  <2> QED BY <1>9, <1>fresh, <2>1, <2>2, MetricsStay DEF NextDay
<1>10. CASE Crash
  <2>1. UNION {At(p) : p \in InMemory} \in SUBSET Reqs
    BY DEF At
  <2>2. \A i \in UNION {At(p) : p \in InMemory} : place[i] # "none"
    BY DEF At, InMemory
  <2>3. pruneDue' \in 0 .. MaxDay + PruneInterval
    BY <1>0, <1>10 DEF Crash, Days
  <2>4. "lost" \in Places \ {"none", "deleted"}
    BY DEF Places
  <2> QED BY <1>10, <2>1, <2>2, <2>3, <2>4, MoveInv DEF Crash
<1>11. CASE UNCHANGED vars
  BY <1>11 DEF vars, IInv, TypeOK, MadeAreDated, DeletedHaveMetric, At,
     CountsNoLaterRequest, FreshCountNoLater, UpTo
<1> QED BY <1>1, <1>2, <1>3, <1>4, <1>5, <1>6, <1>7, <1>8, <1>9, <1>10, <1>11 DEF Next

LEMMA InvHolds == Spec => []IInv
  BY InitInv, StepInv, PTL DEF Spec

\* Every variable of the analytics has its type.
THEOREM TypeCorrect == Spec => []TypeOK
  BY InvHolds, PTL DEF IInv

\* A metric counts no request made after its day, however late it is written
\* (ChartData).
THEOREM NoLaterRequest == Spec => []CountsNoLaterRequest
  BY InvHolds, PTL DEF IInv

\* A request is deleted only when its date has a metric, for any number of
\* dashboards at once (ChartData).
THEOREM DeletedAreCounted == Spec => []DeletedHaveMetric
  BY InvHolds, PTL DEF IInv

\* A metric, once written, does not change (ChartData's second transaction).
THEOREM WrittenOnce == Spec => MetricsWrittenOnce
<1>1. ASSUME IInv, [Next]_vars, NEW e \in Dates, metrics[e] # NoMetric
      PROVE  metrics'[e] = metrics[e]
  <2>1. CASE \E v \in Viewers : ChartWrite(v)
    BY <1>1, <2>1, WrittenMetrics DEF IInv
  <2>2. CASE ~\E v \in Viewers : ChartWrite(v)
    BY <1>1, <2>2 DEF Next, Record, Send, BatchDrain, BatchInsert, BatchFails, Prune,
       ChartRead, NextDay, Crash, vars
  <2> QED BY <2>1, <2>2
<1>2. IInv /\ [Next]_vars =>
        [\A e \in Dates : metrics[e] # NoMetric => metrics'[e] = metrics[e]]_vars
  BY <1>1
<1> QED BY <1>2, InvHolds, PTL DEF Spec, MetricsWrittenOnce
=============================================================================
