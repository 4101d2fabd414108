------------------------------- MODULE RowCache -------------------------------
(***************************************************************************)
(* The sparse cache of a model's rows in the plugin (qbackendmodel.cpp): a   *)
(* function from some of the row numbers, counted from 0, to the rows' data. *)
(* Here are the pure parts: what each signal of the backend makes of a cache, *)
(* which rows a read asks for, and which rows are dropped.  `rows` is the     *)
(* application's list of all rows, a sequence.                                *)
(***************************************************************************)
EXTENDS Integers, Sequences, FiniteSets

CONSTANTS BatchSize,   \* m_batchSize
          CacheSize    \* m_cacheSize

ASSUME CacheAssumption == BatchSize \in Nat /\ CacheSize \in Nat

EmptyCache == [k \in {} |-> 0]

\* A cache tells nothing but the truth about the rows.
AgreesWith(cache, rows) ==
  \A k \in DOMAIN cache : k \in 0..(Len(rows) - 1) /\ cache[k] = rows[k + 1]

\* What the application does to its rows.
InsertRows(all, start, new) ==
  SubSeq(all, 1, start) \o new \o SubSeq(all, start + 1, Len(all))
RemoveRows(all, start, count) ==
  SubSeq(all, 1, start) \o SubSeq(all, start + count + 1, Len(all))
MoveRows(all, start, count, destination) ==
  LET block == SubSeq(all, start + 1, start + count)
      to    == IF destination < start THEN destination ELSE destination - count
  IN InsertRows(RemoveRows(all, start, count), to, block)

-----------------------------------------------------------------------------
\* The rows from start on get new data.
Overlay(cache, start, new) ==
  [k \in DOMAIN cache \cup start..(start + Len(new) - 1) |->
     IF k \in start..(start + Len(new) - 1) THEN new[k - start + 1] ELSE cache[k]]

\* A mistake: room is made for one row, however many are inserted.
ShiftForInsertByOne(cache, start, size) ==
  LET below == {k \in DOMAIN cache : k < start}
      above == {k \in DOMAIN cache : k >= start}
  IN [k \in below \cup {j + 1 : j \in above} |-> IF k < start THEN cache[k] ELSE cache[k - 1]]

\* The rows from start on make room for size new ones.
ShiftForInsert(cache, start, size) ==
  LET below == {k \in DOMAIN cache : k < start}
      above == {k \in DOMAIN cache : k >= start}
  IN [k \in below \cup {j + size : j \in above} |->
        IF k < start THEN cache[k] ELSE cache[k - size]]

InsertInCache(cache, start, new, size) ==
  Overlay(ShiftForInsert(cache, start, size), start, new)

\* A mistake: the rows that go are moved up with those after them.
RemoveFromCacheAfter(cache, start, end) ==
  LET size  == end - start + 1
      below == {k \in DOMAIN cache : k < start}
      above == {k \in DOMAIN cache : k >= start}
  IN [k \in below \cup {j - size : j \in above} |->
        IF k + size \in above THEN cache[k + size] ELSE cache[k]]

\* The rows start..end go, and those after them move up.
RemoveFromCache(cache, start, end) ==
  LET size  == end - start + 1
      below == {k \in DOMAIN cache : k < start}
      above == {k \in DOMAIN cache : k > end}
  IN [k \in below \cup {j - size : j \in above} |->
        IF k < start THEN cache[k] ELSE cache[k + size]]

\* Where row k is after the rows start..end have moved to before the row that
\* was at destination, and where the row at k came from.
MovedTo(start, end, destination, k) ==
  LET size == end - start + 1 IN
  IF k \in start..end
  THEN IF destination < start THEN k - start + destination ELSE destination - end - 1 + k
  ELSE IF destination < start
       THEN IF k \in destination..(start - 1) THEN k + size ELSE k
       ELSE IF k \in (end + 1)..(destination - 1) THEN k - size ELSE k

MovedFrom(start, end, destination, k) ==
  LET size == end - start + 1 IN
  IF destination < start
  THEN IF k \in destination..(destination + size - 1) THEN k - destination + start
       ELSE IF k \in (destination + size)..end THEN k - size ELSE k
  ELSE IF k \in (destination - size)..(destination - 1) THEN k - destination + end + 1
       ELSE IF k \in start..(destination - size - 1) THEN k + size ELSE k

MoveInCache(cache, start, end, destination) ==
  [k \in {MovedTo(start, end, destination, j) : j \in DOMAIN cache} |->
     cache[MovedFrom(start, end, destination, k)]]

-----------------------------------------------------------------------------
Least(S) == CHOOSE x \in S : \A y \in S : x <= y
Greatest(S) == CHOOSE x \in S : \A y \in S : x >= y
Lower(x, y) == IF x <= y THEN x ELSE y
Higher(x, y) == IF x >= y THEN x ELSE y
Distance(x, y) == IF x >= y THEN x - y ELSE y - x

\* The rows around row without data, and how many of them one request takes.
Gap(known, rowCount, row) ==
  LET before == {k \in known : k < row}
      after  == {k \in known : k > row}
  IN [start |-> IF before = {} THEN 0 ELSE Greatest(before) + 1,
      end   |-> IF after = {} THEN rowCount - 1 ELSE Least(after) - 1]

ClipToBatch(gap, row) ==
  LET half == BatchSize \div 2 IN
  IF BatchSize = 0 THEN gap
  ELSE IF gap.start > row - half
  THEN [gap EXCEPT !.end = Lower(gap.end, gap.start + BatchSize)]
  ELSE IF gap.end < row + half
  THEN [gap EXCEPT !.start = Higher(gap.start, gap.end - BatchSize)]
  ELSE [start |-> Higher(gap.start, row - half), end |-> Lower(gap.end, row + half)]

FetchWindow(known, rowCount, row) == ClipToBatch(Gap(known, rowCount, row), row)

\* cleanRowCache drops the row furthest from rowHint, one of the two at the ends,
\* until CacheSize rows are left.
Furthest(known, rowHint) ==
  IF Distance(rowHint, Least(known)) >= Distance(Greatest(known), rowHint)
  THEN Least(known) ELSE Greatest(known)

CleanRowCache(cache, rowHint) ==
  LET excess == Cardinality(DOMAIN cache) - CacheSize
      dropped[n \in 0..excess] ==
        IF n = 0 THEN {}
        ELSE dropped[n - 1] \cup {Furthest(DOMAIN cache \ dropped[n - 1], rowHint)}
  IN IF CacheSize < 2 \/ excess <= 0 THEN cache
     ELSE [k \in DOMAIN cache \ dropped[excess] |-> cache[k]]
=============================================================================
