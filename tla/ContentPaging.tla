----------------------------- MODULE ContentPaging -----------------------------
(***************************************************************************)
(* Query of system/db/content.go over the rows that SortContent stores:    *)
(* the order of the keys, the bounds of a page, and a client that reads    *)
(* page after page.  A time is the sequence of its decimal digits.         *)
(***************************************************************************)
EXTENDS Integers, Sequences, FiniteSets

CONSTANTS
    TimeLists,   \* the times of the items, in the order of sort.Sort
    PageSizes    \* counts a client asks for

ASSUME PagingAssumption ==
    /\ TimeLists \subseteq Seq(Seq(0 .. 9))
    /\ PageSizes \subseteq Int

VARIABLES
    times,    \* the times of the rows, row i under the key "time:(i - 1)"
    size,     \* opts.Count
    asc,      \* opts.Order is "asc"
    offset,   \* opts.Offset of the next page
    page,     \* the page read last, as rows
    seen      \* the pages before it, one after the other

pagingVars == <<times, size, asc, offset, page, seen>>

Colon == 10       \* greater than every digit, as in ASCII

\* %d of fmt.Sprintf.
Digits[n \in Nat] == IF n < 10 THEN <<n>> ELSE Append(Digits[n \div 10], n % 10)

\* Mutant: the position comes before the time.
PositionFirst(ts, i) == Digits[i - 1] \o <<Colon>> \o ts[i]

Key(ts, i) == ts[i] \o <<Colon>> \o Digits[i - 1]

\* The order of keys in a bolt bucket: by bytes.
Before(k, l) ==
    \/ Len(k) < Len(l) /\ SubSeq(l, 1, Len(k)) = k
    \/ \E n \in DOMAIN k \cap DOMAIN l :
          k[n] < l[n] /\ SubSeq(k, 1, n - 1) = SubSeq(l, 1, n - 1)

\* The place of row i among the keys of the bucket, from the first one.
Rank(ts, i) == Cardinality({j \in DOMAIN ts : Before(Key(ts, j), Key(ts, i))}) + 1

\* Mutant: the rows are counted from 0.
RowsFromZero(ts, ascending) ==
    [r \in DOMAIN ts |-> IF ascending THEN r - 1 ELSE Len(ts) - r]

\* The rows as the cursor meets them: from the first key, or from the last back.
CursorOrder(ts, ascending) ==
    [r \in DOMAIN ts |->
        CHOOSE i \in DOMAIN ts : Rank(ts, i) = IF ascending THEN r ELSE Len(ts) - r + 1]

\* Mutant: the row at the end is left out.
QueryShort(ts, count, off, ascending) ==
    LET n == Len(ts)
        first == IF count < 0 THEN 0 ELSE count * (IF off < 0 THEN 0 ELSE off)
        end == IF count < 0 THEN n ELSE first + count
        start == IF first > n THEN n - count ELSE first
        stop == IF end > n THEN n - 1 ELSE end
    IN SubSeq(CursorOrder(ts, ascending), IF start < 0 THEN 1 ELSE start + 1, stop)

\* Positions are counted from 0, and a page goes from start to end - 1; a start
\* below 0 is passed at once.
Query(ts, count, off, ascending) ==
    LET n == Len(ts)
        first == IF count < 0 THEN 0 ELSE count * (IF off < 0 THEN 0 ELSE off)
        end == IF count < 0 THEN n ELSE first + count
        start == IF first > n THEN n - count ELSE first
        stop == IF end > n THEN n ELSE end
    IN SubSeq(CursorOrder(ts, ascending), IF start < 0 THEN 1 ELSE start + 1, stop)

PagingInit ==
    /\ times \in TimeLists
    /\ size \in PageSizes
    /\ asc \in BOOLEAN
    /\ offset \in {-1, 0}
    /\ page = <<>> /\ seen = <<>>

\* The client reads on until it has gone one page past the last row.
ReadPage ==
    /\ offset <= 0 \/ (size > 0 /\ (offset - 1) * size <= Len(times))
    /\ page' = Query(times, size, offset, asc)
    /\ seen' = seen \o page
    /\ offset' = (IF offset < 0 THEN 0 ELSE offset) + 1
    /\ UNCHANGED <<times, size, asc>>

PagingSpec == PagingInit /\ [][ReadPage]_pagingVars

------------------------------------------------------------------------------
(* Properties.                                                             *)

PagingTypeOK ==
    /\ size \in Int /\ asc \in BOOLEAN /\ offset \in Int
    /\ times \in TimeLists
    /\ {page, seen} \subseteq Seq(DOMAIN times)

\* Pages read one after the other are the rows in the cursor's order, none twice
\* and none left out; a page that starts past the last row repeats the last rows
\* of the bucket (the bounds check of Query).
PagesFollowOn ==
    LET rows == CursorOrder(times, asc)
        from == size * (offset - 1)
    IN /\ size < 0 /\ offset > 0 => page = rows
       /\ size >= 0 /\ offset > 0 /\ from <= Len(times) =>
             seen \o page = SubSeq(rows, 1, IF from + size < Len(times)
                                            THEN from + size ELSE Len(times))
       /\ size > 0 /\ offset > 0 /\ from > Len(times) =>
             page = SubSeq(rows, IF Len(times) > size THEN Len(times) - size + 1 ELSE 1,
                           Len(times))

\* With times of one length, as those of one era in milliseconds are, the newest
\* come first, or last if the client asks for "asc" (the keys of SortContent).
NewestFirst ==
    (\A i, j \in DOMAIN times : Len(times[i]) = Len(times[j])) =>
        \A i, j \in DOMAIN page : i < j =>
            IF asc THEN ~Before(times[page[j]], times[page[i]])
            ELSE ~Before(times[page[i]], times[page[j]])

\* Both: a client that reads on gets every row once, by time.
PagesInOrder == PagesFollowOn /\ NewestFirst
=============================================================================
