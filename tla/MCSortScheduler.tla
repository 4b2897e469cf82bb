--------------------------- MODULE MCSortScheduler ---------------------------
(***************************************************************************)
(* What is derived from the content, on small instances: T__sorted, the    *)
(* pages read from it, and the search index.  A behaviour follows one of   *)
(* them, the focus, while the others stay as they start: they share no     *)
(* state.                                                                  *)
(***************************************************************************)
EXTENDS SortScheduler, ContentPaging, ContentSearch

VARIABLE focus

derivedVars == <<vars, pagingVars, searchVars, focus>>

\* Milliseconds of different eras have different lengths, and times may be equal.
\* Rows are stored newest first.
SomeTimes ==
    {<<>>} \cup {[i \in 1 .. n |-> <<5>>] : n \in {3, 12}}
    \cup {s \in UNION {[1 .. n -> {<<1>>, <<9>>, <<1, 0>>, <<1, 2>>}] : n \in 1 .. 4} :
             \A i \in 2 .. Len(s) :
                 LET Value(t) == IF Len(t) = 1 THEN t[1] ELSE 10 * t[1] + t[2]
                 IN Value(s[i]) <= Value(s[i - 1])}
SomeSizes == {-2, 0, 1, 2, 3, 5}

DerivedInit ==
    /\ focus \in {"sorting", "paging", "search"}
    /\ Init
    /\ PagingInit /\ (focus # "paging" =>
                        times = <<>> /\ size = 0 /\ ~asc /\ offset = 0)
    /\ SearchInit

DerivedNext ==
    /\ UNCHANGED focus
    /\ \/ /\ focus = "sorting" /\ Next
          /\ UNCHANGED <<pagingVars, searchVars>>
       \/ /\ focus = "paging" /\ ReadPage
          /\ UNCHANGED <<vars, searchVars>>
       \/ /\ focus = "search" /\ SearchNext
          /\ UNCHANGED <<vars, pagingVars>>

\* SortScheduler's Fairness, where it is followed.
DerivedFairness ==
    /\ WF_vars(focus = "sorting" /\ Tick)
    /\ \A i \in Calls : WF_vars(focus = "sorting" /\ Step(i))

DerivedSpec == DerivedInit /\ [][DerivedNext]_derivedVars /\ DerivedFairness

\* Every variable of the three parts has its type.
DerivedTypeOK == TypeOK /\ PagingTypeOK /\ SearchTypeOK

=============================================================================
