---------------------------- MODULE RowCacheProofs ----------------------------
(***************************************************************************)
(* What each signal makes of the cache is right for every cache and all rows: *)
(* a cache that agrees with the rows before a change agrees with the rows     *)
(* after it, once the signal of the change is applied.  And a fetch asks for  *)
(* the row that is read, which cleaning does not drop.                        *)
(***************************************************************************)
EXTENDS RowCache, SequenceTheorems, WellFoundedInduction, FiniteSetTheorems, TLAPS

LEMMA SubSeqElements ==
  ASSUME NEW S, NEW s \in Seq(S), NEW m \in 1..(Len(s) + 1), NEW n \in 0..Len(s), m <= n + 1
  PROVE  /\ SubSeq(s, m, n) \in Seq(S)
         /\ Len(SubSeq(s, m, n)) = n - m + 1
         /\ \A i \in 1..(n - m + 1) : SubSeq(s, m, n)[i] = s[m + i - 1]
  <1>1. Len(s) \in Nat /\ m \in Int /\ n \in Int
    BY LenProperties
  <1>2. \A i \in m..n : s[i] \in S
    BY <1>1, ElementOfSeq
  <1>3. /\ SubSeq(s, m, n) \in Seq(S)
        /\ Len(SubSeq(s, m, n)) = IF m <= n THEN n - m + 1 ELSE 0
        /\ \A i \in 1..(n - m + 1) : SubSeq(s, m, n)[i] = s[m + i - 1]
    BY <1>1, <1>2, SubSeqProperties
  <1> QED
    BY <1>1, <1>3

LEMMA InsertedRows ==
  ASSUME NEW S, NEW all \in Seq(S), NEW new \in Seq(S), NEW start \in 0..Len(all)
  PROVE  /\ InsertRows(all, start, new) \in Seq(S)
         /\ Len(InsertRows(all, start, new)) = Len(all) + Len(new)
         /\ \A i \in 1..(Len(all) + Len(new)) :
              InsertRows(all, start, new)[i] =
                IF i <= start THEN all[i]
                ELSE IF i <= start + Len(new) THEN new[i - start] ELSE all[i - Len(new)]
  <1> DEFINE front == SubSeq(all, 1, start)
             back  == SubSeq(all, start + 1, Len(all))
  <1>1. Len(all) \in Nat /\ Len(new) \in Nat
    BY LenProperties
  <1>2. front \in Seq(S) /\ Len(front) = start /\ \A i \in 1..start : front[i] = all[i]
    BY <1>1, SubSeqElements
  <1>3. /\ back \in Seq(S) /\ Len(back) = Len(all) - start
        /\ \A i \in 1..(Len(all) - start) : back[i] = all[start + i]
    <2>1. start + 1 \in 1..(Len(all) + 1) /\ Len(all) \in 0..Len(all)
          /\ start + 1 <= Len(all) + 1
      BY <1>1
    <2>2. /\ back \in Seq(S)
          /\ Len(back) = Len(all) - (start + 1) + 1
          /\ \A i \in 1..(Len(all) - (start + 1) + 1) : back[i] = all[(start + 1) + i - 1]
      BY <2>1, SubSeqElements
    <2> QED
      BY <1>1, <2>2
  <1> HIDE DEF front, back
  <1>4. /\ front \o new \in Seq(S) /\ Len(front \o new) = start + Len(new)
        /\ \A i \in 1..(start + Len(new)) :
             (front \o new)[i] = IF i <= start THEN front[i] ELSE new[i - start]
    BY <1>2, ConcatProperties
  <1>5. /\ (front \o new) \o back \in Seq(S)
        /\ Len((front \o new) \o back) = start + Len(new) + (Len(all) - start)
        /\ \A i \in 1..(start + Len(new) + (Len(all) - start)) :
             ((front \o new) \o back)[i] =
               IF i <= start + Len(new) THEN (front \o new)[i] ELSE back[i - (start + Len(new))]
    BY <1>3, <1>4, ConcatProperties
  <1>6. InsertRows(all, start, new) = (front \o new) \o back
    BY DEF InsertRows, front, back
  <1>7. Len(InsertRows(all, start, new)) = Len(all) + Len(new)
    BY <1>1, <1>5, <1>6
  <1> SUFFICES ASSUME NEW i \in 1..(Len(all) + Len(new))
               PROVE  InsertRows(all, start, new)[i] =
                        IF i <= start THEN all[i]
                        ELSE IF i <= start + Len(new) THEN new[i - start] ELSE all[i - Len(new)]
    BY <1>5, <1>6, <1>7
  <1>8. CASE i <= start + Len(new)
    BY <1>1, <1>2, <1>4, <1>5, <1>6, <1>8
  <1>9. CASE i > start + Len(new)
    <2>1. i - (start + Len(new)) \in 1..(Len(all) - start)
      BY <1>1, <1>9
    <2>2. back[i - (start + Len(new))] = all[start + (i - (start + Len(new)))]
      BY <1>3, <2>1
    <2>3. start + (i - (start + Len(new))) = i - Len(new) /\ ~(i <= start)
      BY <1>1, <1>9
    <2>4. InsertRows(all, start, new)[i] = back[i - (start + Len(new))]
      <3>1. i \in 1..(start + Len(new) + (Len(all) - start)) /\ ~(i <= start + Len(new))
        BY <1>1, <1>9
      <3>2. ((front \o new) \o back)[i] =
              IF i <= start + Len(new) THEN (front \o new)[i] ELSE back[i - (start + Len(new))]
        BY <1>5, <3>1
      <3> QED
        BY <1>6, <3>1, <3>2
    <2> QED
      BY <1>1, <1>9, <2>2, <2>3, <2>4
  <1> QED
    BY <1>1, <1>8, <1>9

\* What is left of the rows, and what is taken out of them, row by row.
Remain(rest, all, start, count) ==
  /\ Len(rest) = Len(all) - count
  /\ \A i \in 1..(Len(all) - count) : rest[i] = IF i <= start THEN all[i] ELSE all[i + count]
Leave(block, all, start, count) ==
  /\ Len(block) = count
  /\ \A i \in 1..count : block[i] = all[start + i]

LEMMA RemainingRows ==
  ASSUME NEW S, NEW all \in Seq(S), NEW start \in Nat, NEW count \in Nat \ {0},
         start + count <= Len(all)
  PROVE  /\ RemoveRows(all, start, count) \in Seq(S)
         /\ Remain(RemoveRows(all, start, count), all, start, count)
  <1> DEFINE front == SubSeq(all, 1, start)
             back  == SubSeq(all, start + count + 1, Len(all))
  <1>1. Len(all) \in Nat
    BY LenProperties
  <1>2. front \in Seq(S) /\ Len(front) = start /\ \A i \in 1..start : front[i] = all[i]
    BY <1>1, SubSeqElements
  <1>3. /\ back \in Seq(S) /\ Len(back) = Len(all) - (start + count)
        /\ \A i \in 1..(Len(all) - (start + count)) : back[i] = all[start + count + i]
    <2>1. start + count + 1 \in 1..(Len(all) + 1) /\ Len(all) \in 0..Len(all)
          /\ start + count + 1 <= Len(all) + 1
      BY <1>1
    <2>2. /\ back \in Seq(S)
          /\ Len(back) = Len(all) - (start + count + 1) + 1
          /\ \A i \in 1..(Len(all) - (start + count + 1) + 1) :
               back[i] = all[(start + count + 1) + i - 1]
      BY <2>1, SubSeqElements
    <2> QED
      BY <1>1, <2>2
  <1> HIDE DEF front, back
  <1>4. /\ front \o back \in Seq(S)
        /\ Len(front \o back) = start + (Len(all) - (start + count))
        /\ \A i \in 1..(start + (Len(all) - (start + count))) :
             (front \o back)[i] = IF i <= start THEN front[i] ELSE back[i - start]
    <2>1. front \in Seq(S) /\ back \in Seq(S)
      BY <1>2, <1>3
    <2>2. /\ front \o back \in Seq(S)
          /\ Len(front \o back) = Len(front) + Len(back)
          /\ \A i \in 1..(Len(front) + Len(back)) :
               (front \o back)[i] = IF i <= Len(front) THEN front[i] ELSE back[i - Len(front)]
      BY ONLY <2>1, ConcatProperties
    <2>3. Len(front) = start /\ Len(back) = Len(all) - (start + count)
      BY <1>2, <1>3
    <2> QED
      BY <2>2, <2>3
  <1>5. RemoveRows(all, start, count) = front \o back
    BY DEF RemoveRows, front, back
  <1>6. Len(RemoveRows(all, start, count)) = Len(all) - count
    BY <1>1, <1>4, <1>5
  <1> SUFFICES ASSUME NEW i \in 1..(Len(all) - count)
               PROVE  RemoveRows(all, start, count)[i] =
                        IF i <= start THEN all[i] ELSE all[i + count]
    BY <1>4, <1>5, <1>6 DEF Remain
  <1>7. CASE i <= start
    BY <1>1, <1>2, <1>4, <1>5, <1>7
  <1>8. CASE i > start
    <2>1. i - start \in 1..(Len(all) - (start + count))
      BY <1>1, <1>8
    <2>2. back[i - start] = all[start + count + (i - start)]
      BY <1>3, <2>1
    <2> QED
      BY <1>1, <1>4, <1>5, <1>8, <2>2
  <1> QED
    BY <1>7, <1>8
-----------------------------------------------------------------------------
\* The first rows of a reset are the rows (qbackendmodel.cpp:228).
THEOREM ResetAgrees ==
  ASSUME NEW S, NEW all \in Seq(S), NEW n \in 0..Len(all)
  PROVE  AgreesWith(Overlay(EmptyCache, 0, SubSeq(all, 1, n)), all)
  <1>1. Len(all) \in Nat
    BY LenProperties
  <1>2. Len(SubSeq(all, 1, n)) = n /\ \A i \in 1..n : SubSeq(all, 1, n)[i] = all[i]
    BY <1>1, SubSeqElements
  <1> QED
    BY <1>1, <1>2 DEF AgreesWith, Overlay, EmptyCache

\* A row that has changed (qbackendmodel.cpp:347).
THEOREM UpdateAgrees ==
  ASSUME NEW S, NEW all \in Seq(S), NEW cache, AgreesWith(cache, all),
         NEW row \in 0..(Len(all) - 1), NEW v \in S
  PROVE  AgreesWith(Overlay(cache, row, <<v>>), [all EXCEPT ![row + 1] = v])
  <1>1. Len(all) \in Nat /\ DOMAIN all = 1..Len(all)
    BY LenProperties
  <1>2. Len([all EXCEPT ![row + 1] = v]) = Len(all)
    BY <1>1, ExceptSeq
  <1> QED
    BY <1>1, <1>2 DEF AgreesWith, Overlay

\* Rows that were fetched, if no signal was overtaken (qbackendmodel.cpp:358).
THEOREM FetchAgrees ==
  ASSUME NEW S, NEW all \in Seq(S), NEW cache, AgreesWith(cache, all),
         NEW start \in 0..Len(all), NEW n \in 0..(Len(all) - start)
  PROVE  AgreesWith(Overlay(cache, start, SubSeq(all, start + 1, start + n)), all)
  <1>1. Len(all) \in Nat
    BY LenProperties
  <1>2. Len(SubSeq(all, start + 1, start + n)) = n
        /\ \A i \in 1..n : SubSeq(all, start + 1, start + n)[i] = all[start + i]
    <2>1. start + 1 \in 1..(Len(all) + 1) /\ start + n \in 0..Len(all)
          /\ start + 1 <= start + n + 1
      BY <1>1
    <2>2. /\ Len(SubSeq(all, start + 1, start + n)) = (start + n) - (start + 1) + 1
          /\ \A i \in 1..((start + n) - (start + 1) + 1) :
               SubSeq(all, start + 1, start + n)[i] = all[(start + 1) + i - 1]
      BY <2>1, SubSeqElements
    <2> QED
      BY <1>1, <2>2
  <1> QED
    BY <1>1, <1>2 DEF AgreesWith, Overlay

\* Inserted rows, the first n of them with their data (qbackendmodel.cpp:247).
THEOREM InsertAgrees ==
  ASSUME NEW S, NEW all \in Seq(S), NEW new \in Seq(S), NEW cache, AgreesWith(cache, all),
         NEW start \in 0..Len(all), NEW n \in 0..Len(new)
  PROVE  AgreesWith(InsertInCache(cache, start, SubSeq(new, 1, n), Len(new)),
                    InsertRows(all, start, new))
  <1> DEFINE size    == Len(new)
             shifted == ShiftForInsert(cache, start, size)
             sent    == SubSeq(new, 1, n)
             after   == InsertRows(all, start, new)
  <1>1. Len(all) \in Nat /\ size \in Nat
    BY LenProperties
  <1>2. Len(sent) = n /\ \A i \in 1..n : sent[i] = new[i]
    BY <1>1, SubSeqElements
  <1>3. /\ Len(after) = Len(all) + size
        /\ \A i \in 1..(Len(all) + size) :
             after[i] = IF i <= start THEN all[i]
                        ELSE IF i <= start + size THEN new[i - start] ELSE all[i - size]
    BY InsertedRows
  <1>4. \A k \in DOMAIN cache : k \in 0..(Len(all) - 1) /\ cache[k] = all[k + 1]
    BY DEF AgreesWith
  <1> HIDE DEF sent, after, size
  <1>5. \A k \in DOMAIN shifted :
          /\ k \in 0..(Len(all) + size - 1)
          /\ k < start => shifted[k] = all[k + 1]
          /\ k >= start => k >= start + size /\ shifted[k] = all[k - size + 1]
    <2> SUFFICES ASSUME NEW k \in DOMAIN shifted
                 PROVE  /\ k \in 0..(Len(all) + size - 1)
                        /\ k < start => shifted[k] = all[k + 1]
                        /\ k >= start => k >= start + size /\ shifted[k] = all[k - size + 1]
      OBVIOUS
    <2>1. CASE k \in {j \in DOMAIN cache : j < start}
      BY <1>1, <1>4, <2>1 DEF ShiftForInsert
    <2>2. CASE k \in {j + size : j \in {i \in DOMAIN cache : i >= start}}
      <3>1. PICK j \in DOMAIN cache : j >= start /\ k = j + size
        BY <2>2
      <3>2. j \in 0..(Len(all) - 1) /\ cache[j] = all[j + 1] /\ k - size = j
        BY <1>1, <1>4, <3>1
      <3>3. shifted[k] = cache[j]
        BY <1>1, <3>1, <3>2 DEF ShiftForInsert
      <3> QED
        BY <1>1, <3>1, <3>2, <3>3
    <2> QED
      BY <2>1, <2>2 DEF ShiftForInsert
  <1> HIDE DEF shifted
  <1> SUFFICES ASSUME NEW k \in DOMAIN Overlay(shifted, start, sent)
               PROVE  /\ k \in 0..(Len(after) - 1)
                      /\ Overlay(shifted, start, sent)[k] = after[k + 1]
    BY DEF AgreesWith, InsertInCache, shifted, sent, after, size
  <1>6. CASE k \in start..(start + n - 1)
    <2>1. k \in Int /\ k - start + 1 \in 1..n /\ k + 1 \in 1..(Len(all) + size)
      BY <1>1, <1>6 DEF size
    <2>2. Overlay(shifted, start, sent)[k] = new[k - start + 1]
      BY <1>2, <1>6, <2>1 DEF Overlay
    <2>3. after[k + 1] = new[k - start + 1]
      <3>1. ~(k + 1 <= start) /\ k + 1 <= start + size /\ k + 1 - start = k - start + 1
        BY <1>1, <1>6, <2>1 DEF size
      <3> QED
        BY <1>3, <2>1, <3>1
    <2> QED
      BY <1>1, <1>3, <2>1, <2>2, <2>3
  <1>7. CASE k \notin start..(start + n - 1)
    <2>1. k \in DOMAIN shifted /\ Overlay(shifted, start, sent)[k] = shifted[k]
      BY <1>2, <1>7 DEF Overlay
    <2>2. k \in 0..(Len(all) + size - 1) /\ k + 1 \in 1..(Len(all) + size)
      BY <1>1, <1>5, <2>1
    <2>3. CASE k < start
      BY <1>1, <1>3, <1>5, <2>1, <2>2, <2>3
    <2>4. CASE k >= start
      <3>1. k >= start + size /\ shifted[k] = all[k - size + 1]
        BY <1>5, <2>1, <2>4
      <3>2. ~(k + 1 <= start) /\ ~(k + 1 <= start + size) /\ k + 1 - size = k - size + 1
        BY <1>1, <2>2, <3>1
      <3> QED
        BY <1>1, <1>3, <2>1, <2>2, <3>1, <3>2
    <2> QED
      BY <2>2, <2>3, <2>4
  <1> QED
    BY <1>6, <1>7

LEMMA RowsThatMove ==
  ASSUME NEW S, NEW all \in Seq(S), NEW start \in Nat, NEW count \in Nat \ {0},
         start + count <= Len(all)
  PROVE  /\ SubSeq(all, start + 1, start + count) \in Seq(S)
         /\ Leave(SubSeq(all, start + 1, start + count), all, start, count)
  <1> DEFINE block == SubSeq(all, start + 1, start + count)
  <1>1. start + 1 \in 1..(Len(all) + 1) /\ start + count \in 0..Len(all)
        /\ start + 1 <= start + count + 1
    BY LenProperties
  <1>2. /\ block \in Seq(S)
        /\ Len(block) = (start + count) - (start + 1) + 1
        /\ \A i \in 1..((start + count) - (start + 1) + 1) :
             block[i] = all[(start + 1) + i - 1]
    BY <1>1, SubSeqElements
  <1>3. (start + count) - (start + 1) + 1 = count
    OBVIOUS
  <1>4. \A i \in 1..count : (start + 1) + i - 1 = start + i
    OBVIOUS
  <1> HIDE DEF block
  <1>5. Len(block) = count /\ \A i \in 1..count : block[i] = all[start + i]
    BY <1>2, <1>3, <1>4
  <1> QED
    BY <1>2, <1>5 DEF Leave, block

\* Removed rows (qbackendmodel.cpp:273).
THEOREM RemoveAgrees ==
  ASSUME NEW S, NEW all \in Seq(S), NEW cache, AgreesWith(cache, all),
         NEW start \in Nat, NEW count \in Nat \ {0}, start + count <= Len(all)
  PROVE  AgreesWith(RemoveFromCache(cache, start, start + count - 1),
                    RemoveRows(all, start, count))
  <1> DEFINE end   == start + count - 1
             left  == RemoveFromCache(cache, start, end)
             after == RemoveRows(all, start, count)
  <1>0. count \in Nat
    OBVIOUS
  <1>1. Len(all) \in Nat /\ end - start + 1 = count
    BY LenProperties
  <1>2. /\ Len(after) = Len(all) - count
        /\ \A i \in 1..(Len(all) - count) :
             after[i] = IF i <= start THEN all[i] ELSE all[i + count]
    <2>1. Remain(RemoveRows(all, start, count), all, start, count)
      BY RemainingRows
    <2> HIDE DEF after
    <2>2. Remain(after, all, start, count)
      BY <2>1 DEF after
    <2> QED
      BY <2>2 DEF Remain
  <1>3. \A k \in DOMAIN cache : k \in 0..(Len(all) - 1) /\ cache[k] = all[k + 1]
    BY DEF AgreesWith
  <1> HIDE DEF after
  <1> SUFFICES ASSUME NEW k \in DOMAIN left
               PROVE  k \in 0..(Len(after) - 1) /\ left[k] = after[k + 1]
    BY DEF AgreesWith, after
  <1>4. DOMAIN left = {j \in DOMAIN cache : j < start}
                        \cup {j - count : j \in {i \in DOMAIN cache : i > end}}
    BY <1>1 DEF RemoveFromCache
  <1>5. left[k] = IF k < start THEN cache[k] ELSE cache[k + count]
    BY <1>1, <1>4 DEF RemoveFromCache
  <1>6. CASE k \in DOMAIN cache /\ k < start
    <2>1. k \in 0..(Len(all) - 1) /\ cache[k] = all[k + 1]
      BY <1>3, <1>6
    <2>2. k + 1 \in 1..(Len(all) - count) /\ k + 1 <= start
      BY <1>1, <1>6, <2>1
    <2> QED
      BY <1>1, <1>2, <1>5, <1>6, <2>1, <2>2
  <1>7. CASE k \in {j - count : j \in {i \in DOMAIN cache : i > end}}
    <2>1. PICK j \in DOMAIN cache : j > end /\ k = j - count
      BY <1>7
    <2>2. j \in 0..(Len(all) - 1) /\ cache[j] = all[j + 1]
      BY <1>3, <2>1
    <2>3. /\ k + 1 \in 1..(Len(all) - count) /\ ~(k + 1 <= start) /\ ~(k < start)
          /\ k + count = j /\ k + 1 + count = j + 1
      BY <1>1, <2>1, <2>2
    <2>4. after[k + 1] = all[k + 1 + count]
      BY <1>2, <2>3
    <2>5. left[k] = cache[k + count]
      BY <1>5, <2>3
    <2>6. left[k] = after[k + 1]
      BY <2>2, <2>3, <2>4, <2>5
    <2>7. k \in 0..(Len(after) - 1)
      <3>1. Len(after) = Len(all) - count
        BY <1>2
      <3>2. k \in Int /\ k >= 0 /\ k + 1 <= Len(all) - count
        BY <1>0, <1>1, <2>1, <2>2, <2>3
      <3> QED
        BY <1>0, <1>1, <3>1, <3>2
    <2> QED
      BY <2>6, <2>7
  <1> QED
    BY <1>4, <1>6, <1>7

LEMMA MovedRows ==
  ASSUME NEW S, NEW all \in Seq(S), NEW start \in Nat, NEW count \in Nat \ {0},
         start + count <= Len(all),
         NEW destination \in 0..Len(all), destination \notin start..(start + count)
  PROVE  /\ Len(MoveRows(all, start, count, destination)) = Len(all)
         /\ \A k \in 0..(Len(all) - 1) :
              LET from == MovedFrom(start, start + count - 1, destination, k)
              IN /\ from \in 0..(Len(all) - 1)
                 /\ MoveRows(all, start, count, destination)[k + 1] = all[from + 1]
  <1> DEFINE block == SubSeq(all, start + 1, start + count)
             rest  == RemoveRows(all, start, count)
             to    == IF destination < start THEN destination ELSE destination - count
             after == InsertRows(rest, to, block)
  <1>0. count \in Nat
    OBVIOUS
  <1>1. Len(all) \in Nat
    BY LenProperties
  <1>2. /\ rest \in Seq(S) /\ Len(rest) = Len(all) - count
        /\ \A i \in 1..(Len(all) - count) :
             rest[i] = IF i <= start THEN all[i] ELSE all[i + count]
    <2>1. rest \in Seq(S) /\ Remain(RemoveRows(all, start, count), all, start, count)
      BY RemainingRows
    <2> HIDE DEF rest
    <2>2. Remain(rest, all, start, count)
      BY <2>1 DEF rest
    <2> QED
      BY <2>1, <2>2 DEF Remain
  <1>3. /\ block \in Seq(S) /\ Len(block) = count
        /\ \A i \in 1..count : block[i] = all[start + i]
    <2>1. block \in Seq(S) /\ Leave(block, all, start, count)
      BY RowsThatMove
    <2> HIDE DEF block
    <2> QED
      BY <2>1 DEF Leave
  <1>4. to \in Nat /\ to \in 0..(Len(all) - count)
    BY <1>0, <1>1
  <1>5. MoveRows(all, start, count, destination) = after
    BY DEF MoveRows
  <1> HIDE DEF rest, block
  <1>6. /\ Len(after) = Len(all)
        /\ \A i \in 1..Len(all) :
             after[i] = IF i <= to THEN rest[i]
                        ELSE IF i <= to + count THEN block[i - to] ELSE rest[i - count]
    <2>1. /\ Len(after) = Len(rest) + Len(block)
          /\ \A i \in 1..(Len(rest) + Len(block)) :
               after[i] = IF i <= to THEN rest[i]
                          ELSE IF i <= to + Len(block) THEN block[i - to]
                          ELSE rest[i - Len(block)]
      <3>1. rest \in Seq(S) /\ block \in Seq(S) /\ to \in 0..Len(rest)
        BY <1>2, <1>3, <1>4
      <3> HIDE DEF to
      <3> QED
        BY ONLY <3>1, InsertedRows DEF after
    <2>2. Len(rest) + Len(block) = Len(all)
      BY <1>0, <1>1, <1>2, <1>3
    <2>3. Len(block) = count
      BY <1>3
    <2> QED
      BY <2>1, <2>2, <2>3
  <1> SUFFICES ASSUME NEW k \in 0..(Len(all) - 1),
                      NEW from, from = MovedFrom(start, start + count - 1, destination, k)
               PROVE  from \in 0..(Len(all) - 1) /\ after[k + 1] = all[from + 1]
    BY <1>5, <1>6
  <1>7. after[k + 1] = IF k + 1 <= to THEN rest[k + 1]
                       ELSE IF k + 1 <= to + count THEN block[k + 1 - to]
                       ELSE rest[k + 1 - count]
    <2>1. k + 1 \in 1..Len(all)
      BY <1>1
    <2>2. \A i \in 1..Len(all) :
            after[i] = IF i <= to THEN rest[i]
                       ELSE IF i <= to + count THEN block[i - to] ELSE rest[i - count]
      BY <1>6
    <2>3. to \in Nat
      BY <1>4
    <2>4. PICK i \in 1..Len(all) : i = k + 1
      BY <2>1
    <2> HIDE DEF to, after
    <2>5. after[i] = IF i <= to THEN rest[i]
                     ELSE IF i <= to + count THEN block[i - to] ELSE rest[i - count]
      BY <2>2
    <2> QED
      BY <1>0, <1>1, <2>3, <2>4, <2>5, SMTT(30)
  <1> HIDE DEF after
  <1>8. CASE k < to
    <2>1. k + 1 \in 1..(Len(all) - count)
      BY <1>1, <1>4, <1>8
    <2>2. after[k + 1] = IF k + 1 <= start THEN all[k + 1] ELSE all[k + 1 + count]
      BY <1>1, <1>2, <1>4, <1>7, <1>8, <2>1
    <2>3. from = IF k + 1 <= start THEN k ELSE k + count
      BY <1>1, <1>8 DEF MovedFrom
    <2>4. CASE k + 1 <= start
      BY <2>2, <2>3, <2>4
    <2>5. CASE ~(k + 1 <= start)
      <3>1. after[k + 1] = all[k + 1 + count] /\ from = k + count
        BY <2>2, <2>3, <2>5
      <3>2. k + 1 + count = from + 1 /\ from \in 0..(Len(all) - 1)
        BY <1>0, <1>1, <2>1, <3>1
      <3> QED
        BY <3>1, <3>2
    <2> QED
      BY <2>4, <2>5
  <1>9. CASE k \in to..(to + count - 1)
    <2>1. k + 1 - to \in 1..count
      BY <1>1, <1>4, <1>9
    <2>2. after[k + 1] = all[start + (k + 1 - to)]
      BY <1>1, <1>3, <1>4, <1>7, <1>9, <2>1
    <2>3. from = k - to + start
      BY <1>1, <1>9 DEF MovedFrom
    <2> HIDE DEF to
    <2>4. start + (k + 1 - to) = from + 1
      BY <1>1, <1>4, <2>3
    <2>5. from \in 0..(Len(all) - 1)
      BY <1>0, <1>1, <1>4, <2>1, <2>3
    <2> QED
      BY <2>2, <2>4, <2>5
  <1>10. CASE k >= to + count
    <2>1. k + 1 - count \in 1..(Len(all) - count)
      BY <1>1, <1>4, <1>10
    <2>2. rest[k + 1 - count] = IF k + 1 - count <= start THEN all[k + 1 - count]
                                ELSE all[k + 1 - count + count]
      BY <1>2, <2>1
    <2>3. after[k + 1] = IF k + 1 - count <= start THEN all[k + 1 - count] ELSE all[k + 1]
      BY <1>1, <1>4, <1>7, <1>10, <2>2
    <2>4. from = IF k + 1 - count <= start THEN k - count ELSE k
      BY <1>1, <1>10 DEF MovedFrom
    <2>5. CASE k + 1 - count <= start
      <3>1. after[k + 1] = all[k + 1 - count] /\ from = k - count
        BY <2>3, <2>4, <2>5
      <3>2. k + 1 - count = from + 1 /\ from \in 0..(Len(all) - 1)
        BY <1>0, <1>1, <2>1, <3>1
      <3> QED
        BY <3>1, <3>2
    <2>6. CASE ~(k + 1 - count <= start)
      BY <2>3, <2>4, <2>6
    <2> QED
      BY <2>5, <2>6
  <1> QED
    BY <1>1, <1>4, <1>8, <1>9, <1>10

\* Moved rows (qbackendmodel.cpp:295).
THEOREM MoveAgrees ==
  ASSUME NEW S, NEW all \in Seq(S), NEW cache, AgreesWith(cache, all),
         NEW start \in Nat, NEW count \in Nat \ {0}, start + count <= Len(all),
         NEW destination \in 0..Len(all), destination \notin start..(start + count)
  PROVE  AgreesWith(MoveInCache(cache, start, start + count - 1, destination),
                    MoveRows(all, start, count, destination))
  <1> DEFINE end   == start + count - 1
             moved == MoveInCache(cache, start, end, destination)
             after == MoveRows(all, start, count, destination)
  <1>1. Len(all) \in Nat /\ count \in Nat
    BY LenProperties
  <1>2. /\ Len(after) = Len(all)
        /\ \A k \in 0..(Len(all) - 1) :
             after[k + 1] = all[MovedFrom(start, end, destination, k) + 1]
    BY MovedRows
  <1> HIDE DEF after
  <1> SUFFICES ASSUME NEW k \in DOMAIN moved
               PROVE  k \in 0..(Len(after) - 1) /\ moved[k] = after[k + 1]
    BY DEF AgreesWith, after
  <1>3. PICK j \in DOMAIN cache : k = MovedTo(start, end, destination, j)
    BY DEF MoveInCache
  <1>4. j \in 0..(Len(all) - 1) /\ cache[j] = all[j + 1]
    BY DEF AgreesWith
  <1>5. k \in 0..(Len(all) - 1) /\ MovedFrom(start, end, destination, k) = j
    <2>1. j \in Int /\ 0 <= j /\ j < Len(all) /\ end - start + 1 = count
      BY <1>1, <1>4
    <2>2. CASE destination < start /\ j \in start..end
      <3>1. k = j - start + destination
        BY <1>3, <2>2 DEF MovedTo
      <3> QED
        BY <1>1, <2>1, <2>2, <3>1 DEF MovedFrom
    <2>3. CASE destination < start /\ j \in destination..(start - 1)
      <3>1. k = j + count
        BY <1>1, <1>3, <2>1, <2>3 DEF MovedTo
      <3> QED
        BY <1>1, <2>1, <2>3, <3>1 DEF MovedFrom
    <2>4. CASE destination < start /\ j \notin start..end /\ j \notin destination..(start - 1)
      <3>1. k = j
        BY <1>3, <2>4 DEF MovedTo
      <3> QED
        BY <1>1, <2>1, <2>4, <3>1 DEF MovedFrom
    <2>5. CASE destination > start + count /\ j \in start..end
      <3>1. k = destination - end - 1 + j
        BY <1>1, <1>3, <2>5 DEF MovedTo
      <3> QED
        BY <1>1, <2>1, <2>5, <3>1 DEF MovedFrom
    <2>6. CASE destination > start + count /\ j \in (end + 1)..(destination - 1)
      <3>1. k = j - count
        BY <1>1, <1>3, <2>1, <2>6 DEF MovedTo
      <3> QED
        BY <1>1, <2>1, <2>6, <3>1 DEF MovedFrom
    <2>7. CASE /\ destination > start + count
               /\ j \notin start..end
               /\ j \notin (end + 1)..(destination - 1)
      <3>1. k = j
        BY <1>1, <1>3, <2>7 DEF MovedTo
      <3> QED
        BY <1>1, <2>1, <2>7, <3>1 DEF MovedFrom
    <2> QED
      BY <1>1, <2>2, <2>3, <2>4, <2>5, <2>6, <2>7
  <1>6. moved[k] = cache[j]
    BY <1>5 DEF MoveInCache
  <1> QED
    BY <1>2, <1>4, <1>5, <1>6
-----------------------------------------------------------------------------
LEMMA LeastIsLeast ==
  ASSUME NEW T \in SUBSET Nat, T # {}
  PROVE  Least(T) \in T /\ \A y \in T : Least(T) <= y
  <1>1. PICK x \in T : \A y \in T : ~(<<y, x>> \in OpToRel(<, Nat))
    BY NatLessThanWellFounded, WFMin
  <1>2. \A y \in T : x \in Nat /\ y \in Nat
    OBVIOUS
  <1>3. \A y \in T : ~(y < x)
    <2> SUFFICES ASSUME NEW y \in T, y < x
                 PROVE  FALSE
      OBVIOUS
    <2>1. <<y, x>> \in Nat \X Nat
      BY <1>2
    <2>2. <<y, x>> \in OpToRel(<, Nat)
      BY <2>1 DEF OpToRel
    <2> QED
      BY <1>1, <2>2
  <1>4. \A y \in T : x <= y
    BY <1>2, <1>3
  <1> QED
    BY <1>4 DEF Least

LEMMA GreatestIsGreatest ==
  ASSUME NEW n \in Nat, NEW T \in SUBSET (0..n), T # {}
  PROVE  Greatest(T) \in T /\ \A y \in T : Greatest(T) >= y
  <1> DEFINE U == {n - y : y \in T}
  <1>0. \A y \in T : y \in 0..n
    OBVIOUS
  <1>1. U \in SUBSET Nat /\ U # {}
    <2>1. \A y \in T : n - y \in Nat
      BY <1>0
    <2> QED
      BY <2>1
  <1>2. Least(U) \in U /\ \A u \in U : Least(U) <= u
    BY <1>1, LeastIsLeast
  <1>3. PICK x \in T : Least(U) = n - x
    BY <1>2
  <1>4. \A y \in T : x >= y
    <2> SUFFICES ASSUME NEW y \in T
                 PROVE  x >= y
      OBVIOUS
    <2>1. n - y \in U
      OBVIOUS
    <2>2. n - x <= n - y
      BY <1>2, <1>3, <2>1
    <2> QED
      BY <1>0, <2>2
  <1> QED
    BY <1>4 DEF Greatest

\* The gap around a row without data ends at its neighbours (qbackendmodel.cpp:176).
LEMMA GapHasRow ==
  ASSUME NEW rowCount \in Nat, NEW row \in 0..(rowCount - 1),
         NEW known \in SUBSET (0..(rowCount - 1)), row \notin known,
         NEW gap, gap = Gap(known, rowCount, row)
  PROVE  /\ gap = [start |-> gap.start, end |-> gap.end]
         /\ gap.start \in 0..row
         /\ gap.end \in row..(rowCount - 1)
         /\ \A k \in known : k < gap.start \/ k > gap.end
  <1> DEFINE before == {k \in known : k < row}
             after  == {k \in known : k > row}
  <1>0. \A k \in known : k \in 0..(rowCount - 1)
    OBVIOUS
  <1>1. /\ gap = [start |-> gap.start, end |-> gap.end]
        /\ gap.start = IF before = {} THEN 0 ELSE Greatest(before) + 1
        /\ gap.end = IF after = {} THEN rowCount - 1 ELSE Least(after) - 1
    BY DEF Gap
  <1>2. before # {} => Greatest(before) \in before /\ \A y \in before : Greatest(before) >= y
    <2>0. \A k \in before : k \in 0..rowCount
      BY <1>0
    <2>1. before \in SUBSET (0..rowCount)
      BY ONLY <2>0
    <2> HIDE DEF before
    <2> QED
      BY <2>1, GreatestIsGreatest
  <1>3. after # {} => Least(after) \in after /\ \A y \in after : Least(after) <= y
    <2>0. \A k \in after : k \in Nat
      BY <1>0
    <2>1. after \in SUBSET Nat
      BY ONLY <2>0
    <2> HIDE DEF after
    <2> QED
      BY <2>1, LeastIsLeast
  <1>4. gap.start \in 0..row /\ \A k \in before : k < gap.start
    <2>1. CASE before = {}
      BY <1>1, <2>1
    <2>2. CASE before # {}
      <3>1. /\ Greatest(before) \in 0..(rowCount - 1)
            /\ Greatest(before) < row
            /\ gap.start = Greatest(before) + 1
        BY <1>0, <1>1, <1>2, <2>2
      <3>2. \A k \in before : k \in Int /\ Greatest(before) >= k
        BY <1>0, <1>2, <2>2
      <3> HIDE DEF before
      <3> QED
        BY <3>1, <3>2
    <2> QED
      BY <2>1, <2>2
  <1>5. gap.end \in row..(rowCount - 1) /\ \A k \in after : k > gap.end
    <2>1. CASE after = {}
      BY <1>1, <2>1
    <2>2. CASE after # {}
      <3>1. /\ Least(after) \in 0..(rowCount - 1)
            /\ Least(after) > row
            /\ gap.end = Least(after) - 1
        BY <1>0, <1>1, <1>3, <2>2
      <3>2. \A k \in after : k \in Int /\ Least(after) <= k
        BY <1>0, <1>3, <2>2
      <3> HIDE DEF after
      <3> QED
        BY <3>1, <3>2
    <2> QED
      BY <2>1, <2>2
  <1>6. \A k \in known : k \in before \/ k \in after
    BY <1>0
  <1> QED
    BY <1>1, <1>4, <1>5, <1>6

\* What fetchRow asks for: the row that is read is in it, no row that is known is,
\* no row that does not exist is, and with a batch size b it is at most b + 1 rows
\* (qbackendmodel.cpp:173).
THEOREM WindowHasRow ==
  ASSUME NEW rowCount \in Nat, NEW row \in 0..(rowCount - 1),
         NEW known \in SUBSET (0..(rowCount - 1)), row \notin known
  PROVE  LET window == FetchWindow(known, rowCount, row)
         IN /\ window.start \in 0..row
            /\ window.end \in row..(rowCount - 1)
            /\ \A k \in known : k < window.start \/ k > window.end
            /\ BatchSize > 0 => window.end - window.start <= BatchSize
  <1> DEFINE gap    == Gap(known, rowCount, row)
             window == FetchWindow(known, rowCount, row)
             half   == BatchSize \div 2
  <1>1. /\ gap = [start |-> gap.start, end |-> gap.end]
        /\ gap.start \in 0..row
        /\ gap.end \in row..(rowCount - 1)
        /\ \A k \in known : k < gap.start \/ k > gap.end
    BY GapHasRow
  <1>2. window = ClipToBatch(gap, row)
    BY DEF FetchWindow
  <1>3. BatchSize \in Nat /\ half \in Nat /\ 2 * half <= BatchSize
    BY CacheAssumption
  <1> HIDE DEF gap, window
  <1>4. /\ window.start \in gap.start..row
        /\ window.end \in row..gap.end
        /\ BatchSize > 0 => window.end - window.start <= BatchSize
    <2>1. CASE BatchSize = 0
      BY <1>1, <1>2, <2>1 DEF ClipToBatch
    <2>2. CASE BatchSize > 0 /\ gap.start > row - half
      <3>1. window.start = gap.start /\ window.end = Lower(gap.end, gap.start + BatchSize)
        BY <1>1, <1>2, <1>3, <2>2 DEF ClipToBatch
      <3> HIDE DEF half
      <3> QED
        BY <1>1, <1>3, <2>2, <3>1 DEF Lower
    <2>3. CASE BatchSize > 0 /\ ~(gap.start > row - half) /\ gap.end < row + half
      <3>1. window.start = Higher(gap.start, gap.end - BatchSize) /\ window.end = gap.end
        BY <1>1, <1>2, <1>3, <2>3 DEF ClipToBatch
      <3> HIDE DEF half
      <3> QED
        BY <1>1, <1>3, <2>3, <3>1 DEF Higher
    <2>4. CASE BatchSize > 0 /\ ~(gap.start > row - half) /\ ~(gap.end < row + half)
      <3>1. window.start = Higher(gap.start, row - half) /\ window.end = Lower(gap.end, row + half)
        BY <1>1, <1>2, <1>3, <2>4 DEF ClipToBatch
      <3> HIDE DEF half
      <3> QED
        BY <1>1, <1>3, <2>4, <3>1 DEF Higher, Lower
    <2> QED
      BY <1>3, <2>1, <2>2, <2>3, <2>4
  <1>5. \A k \in known : k \in 0..(rowCount - 1)
    OBVIOUS
  <1>6. window = FetchWindow(known, rowCount, row)
    BY DEF window
  <1> QED
    BY <1>1, <1>4, <1>5, <1>6

-----------------------------------------------------------------------------
\* One row is dropped, and never one that is near the hint while more rows are
\* left than fit around it.
LEMMA DropsFurthest ==
  ASSUME NEW n \in Nat, NEW known \in SUBSET (0..n), known # {}, NEW hint \in Nat
  PROVE  LET k == Furthest(known, hint)
         IN /\ k \in known
            /\ \A row \in known :
                 2 * Distance(row, hint) + 1 < Cardinality(known) => row # k
  <1> DEFINE lo == Least(known)
             hi == Greatest(known)
             k  == Furthest(known, hint)
  <1>1. \A y \in known : y \in 0..n
    OBVIOUS
  <1>2. lo \in known /\ \A y \in known : lo <= y
    <2>1. known \in SUBSET Nat
      BY <1>1
    <2> QED
      BY <2>1, LeastIsLeast
  <1>3. IsFiniteSet(known)
    <2>1. IsFiniteSet(0..n)
      BY FS_Interval
    <2> QED
      BY <2>1, FS_Subset
  <1>4. hi \in known /\ \A y \in known : hi >= y
    BY GreatestIsGreatest
  <1>5. k = IF Distance(hint, lo) >= Distance(hi, hint) THEN lo ELSE hi
    BY DEF Furthest
  <1> HIDE DEF lo, hi, k
  <1>6. k \in known /\ lo \in Nat /\ hi \in Nat
    BY <1>1, <1>2, <1>4, <1>5
  <1>7. ASSUME NEW d \in Nat, \A y \in known : hint - d <= y /\ y <= hint + d
        PROVE  Cardinality(known) <= 2 * d + 1
    <2>1. known \in SUBSET ((hint - d)..(hint + d))
      BY <1>1, <1>7
    <2>2. hint - d \in Int /\ hint + d \in Int /\ hint + d - (hint - d) + 1 = 2 * d + 1
          /\ ~(hint - d > hint + d)
      OBVIOUS
    <2> DEFINE from == hint - d
               to   == hint + d
    <2>3. from \in Int /\ to \in Int /\ to - from + 1 = 2 * d + 1 /\ ~(from > to)
          /\ known \in SUBSET (from..to)
      BY <2>1, <2>2
    <2> HIDE DEF from, to
    <2>4. IsFiniteSet(from..to) /\ Cardinality(from..to) = 2 * d + 1
      BY <2>3, FS_Interval
    <2>5. Cardinality(known) <= Cardinality(from..to)
      BY <2>3, <2>4, FS_Subset
    <2> QED
      BY <2>4, <2>5
  <1>8. ASSUME NEW row \in known, row = k
        PROVE  Cardinality(known) <= 2 * Distance(row, hint) + 1
    <2>1. row \in Nat /\ Distance(row, hint) \in Nat
      BY <1>1 DEF Distance
    <2>2. \A y \in known : hint - Distance(row, hint) <= y /\ y <= hint + Distance(row, hint)
      <3> SUFFICES ASSUME NEW y \in known
                   PROVE  hint - Distance(row, hint) <= y /\ y <= hint + Distance(row, hint)
        OBVIOUS
      <3>1. y \in Nat /\ lo <= y /\ y <= hi
        BY <1>1, <1>2, <1>4
      <3>2. CASE k = lo /\ Distance(hint, lo) >= Distance(hi, hint)
        BY <1>6, <1>8, <3>1, <3>2 DEF Distance
      <3>3. CASE k = hi /\ ~(Distance(hint, lo) >= Distance(hi, hint))
        BY <1>6, <1>8, <3>1, <3>3 DEF Distance
      <3> QED
        BY <1>5, <3>2, <3>3
    <2> QED
      BY <1>7, <2>1, <2>2
  <1>9. Cardinality(known) \in Nat
    BY <1>3, FS_CardinalityType
  <1>10. ASSUME NEW row \in known
         PROVE  Distance(row, hint) \in Nat
    <2>1. row \in Int
      BY <1>1
    <2> QED
      BY <2>1 DEF Distance
  <1> QED
    BY <1>6, <1>8, <1>9, <1>10 DEF k

\* The recursion of cleanRowCache.
Dropping(known, hint, excess, f) ==
  [m \in 0..excess |-> IF m = 0 THEN {} ELSE f[m - 1] \cup {Furthest(known \ f[m - 1], hint)}]

\* Each of its steps drops one row more, and never one that is near the hint.
LEMMA DropsFar ==
  ASSUME NEW n \in Nat, NEW known \in SUBSET (0..n), NEW hint \in Nat,
         NEW excess \in Nat, Cardinality(known) = CacheSize + excess,
         NEW dropped, dropped = Dropping(known, hint, excess, dropped)
  PROVE  /\ Cardinality(known \ dropped[excess]) = CacheSize
         /\ \A row \in known : 2 * Distance(row, hint) < CacheSize => row \notin dropped[excess]
  <1> DEFINE Holds(m) ==
               /\ Cardinality(known \ dropped[m]) = CacheSize + excess - m
               /\ \A row \in known : 2 * Distance(row, hint) < CacheSize => row \notin dropped[m]
             T == {m \in 0..excess : ~Holds(m)}
  <1>1. CacheSize \in Nat
    BY CacheAssumption
  <1>2. Holds(0)
    <2>1. dropped[0] = {}
      BY DEF Dropping
    <2>2. known \ dropped[0] = known
      BY <2>1
    <2> QED
      BY <1>1, <2>1, <2>2
  <1>3. ASSUME NEW m \in 1..excess, Holds(m - 1)
        PROVE  Holds(m)
    <2> DEFINE left == known \ dropped[m - 1]
               k    == Furthest(left, hint)
    <2>1. dropped[m] = dropped[m - 1] \cup {k}
      <3>1. m \in 0..excess /\ m # 0
        OBVIOUS
      <3> QED
        BY <3>1 DEF Dropping
    <2>2. left \in SUBSET (0..n) /\ known \ dropped[m] = left \ {k}
      BY <2>1
    <2>3. Cardinality(left) = CacheSize + excess - (m - 1)
      BY <1>3
    <2>4. \A row \in known : 2 * Distance(row, hint) < CacheSize => row \in left
      BY <1>3
    <2> HIDE DEF Holds, left, k
    <2>5. Cardinality(left) > CacheSize /\ Cardinality(left) \in Nat
      BY <1>1, <2>3
    <2>6. IsFiniteSet(left)
      <3>1. IsFiniteSet(0..n)
        BY FS_Interval
      <3> QED
        BY <2>2, <3>1, FS_Subset
    <2>7. left # {}
      BY <1>1, <2>5, FS_EmptySet
    <2>8. /\ k \in left
          /\ \A row \in left : 2 * Distance(row, hint) + 1 < Cardinality(left) => row # k
      BY <2>2, <2>7, DropsFurthest DEF k
    <2>9. Cardinality(left \ {k}) = Cardinality(left) - 1
      BY <2>6, <2>8, FS_RemoveElement
    <2>10. ASSUME NEW row \in known, 2 * Distance(row, hint) < CacheSize
           PROVE  row \in left \ {k}
      <3>1. row \in left
        BY <2>4, <2>10
      <3>2. row \in Nat
        BY <2>2, <3>1
      <3>3. Distance(row, hint) \in Nat
        BY <3>2 DEF Distance
      <3>4. 2 * Distance(row, hint) + 1 < Cardinality(left)
        BY <1>1, <2>5, <2>10, <3>3
      <3> QED
        BY <2>8, <3>1, <3>4
    <2>11. Cardinality(known \ dropped[m]) = CacheSize + excess - m
      <3>1. m \in Int /\ CacheSize + excess - (m - 1) - 1 = CacheSize + excess - m
        BY <1>1
      <3>2. Cardinality(known \ dropped[m]) = Cardinality(left) - 1
        BY ONLY <2>2, <2>9
      <3>3. Cardinality(known \ dropped[m]) = CacheSize + excess - (m - 1) - 1
        BY ONLY <1>1, <2>3, <3>2
      <3> QED
        BY ONLY <3>1, <3>3
    <2>12. \A row \in known : 2 * Distance(row, hint) < CacheSize => row \notin dropped[m]
      BY <2>2, <2>10
    <2> QED
      BY <2>11, <2>12 DEF Holds
  <1> HIDE DEF Holds
  <1>4. T = {}
    <2> SUFFICES ASSUME T # {} PROVE FALSE
      OBVIOUS
    <2>1. T \in SUBSET Nat
      OBVIOUS
    <2>2. Least(T) \in T /\ \A y \in T : Least(T) <= y
      <3> HIDE DEF T
      <3> QED
        BY <2>1, LeastIsLeast
    <2>3. PICK m \in T : \A y \in T : m <= y
      BY <2>2
    <2>4. m \in 1..excess /\ m - 1 \in 0..excess /\ m - 1 \notin T
      BY <1>2, <2>3
    <2>5. Holds(m - 1)
      BY <2>4
    <2> QED
      BY <1>3, <2>3, <2>4, <2>5
  <1>5. Holds(excess)
    BY <1>4
  <1>6. Cardinality(known \ dropped[excess]) = CacheSize + excess - excess
    BY ONLY <1>5 DEF Holds
  <1>7. CacheSize + excess - excess = CacheSize
    BY <1>1
  <1>8. \A row \in known : 2 * Distance(row, hint) < CacheSize => row \notin dropped[excess]
    BY ONLY <1>5 DEF Holds
  <1> QED
    BY ONLY <1>6, <1>7, <1>8

\* It is well-defined.
LEMMA DropsDefined ==
  ASSUME NEW known, NEW hint, NEW excess \in Nat
  PROVE  \E f : f = Dropping(known, hint, excess, f)
  <1> DEFINE More(d)   == d \cup {Furthest(known \ d, hint)}
             Is(f, n)  == f = [m \in 0..n |-> IF m = 0 THEN {} ELSE More(f[m - 1])]
             T         == {n \in 0..excess : ~(\E f : Is(f, n))}
  <1>1. \E f : Is(f, 0)
    <2> DEFINE g == [m \in 0..0 |-> {}]
    <2> HIDE DEF More
    <2>1. Is(g, 0)
      OBVIOUS
    <2> QED
      BY <2>1
  <1>2. ASSUME NEW n \in Nat, NEW f, Is(f, n)
        PROVE  \E g : Is(g, n + 1)
    <2> DEFINE g == [m \in 0..(n + 1) |-> IF m = n + 1 THEN More(f[n]) ELSE f[m]]
    <2> HIDE DEF More
    <2>1. ASSUME NEW m \in 0..(n + 1)
          PROVE  g[m] = IF m = 0 THEN {} ELSE More(g[m - 1])
      <3>1. CASE m = n + 1
        <4>1. n \in 0..(n + 1) /\ n # n + 1 /\ m # 0 /\ m - 1 = n
          BY <3>1
        <4> QED
          BY <3>1, <4>1
      <3>2. CASE m = 0
        <4>1. m \in 0..n /\ m # n + 1
          BY <3>2
        <4> QED
          BY <1>2, <3>2, <4>1
      <3>3. CASE m \in 1..n
        <4>1. m \in 0..n /\ m # n + 1 /\ m # 0 /\ m - 1 \in 0..(n + 1) /\ m - 1 # n + 1
          BY <3>3
        <4>2. g[m] = f[m] /\ g[m - 1] = f[m - 1]
          BY <4>1
        <4>3. f[m] = More(f[m - 1])
          BY <1>2, <4>1
        <4> QED
          BY <4>1, <4>2, <4>3
      <3> QED
        BY <3>1, <3>2, <3>3
    <2>2. Is(g, n + 1)
      BY <2>1
    <2> QED
      BY <2>2
  <1> HIDE DEF Is, More
  <1>3. T = {}
    <2> SUFFICES ASSUME T # {} PROVE FALSE
      OBVIOUS
    <2>1. T \in SUBSET Nat
      OBVIOUS
    <2>2. PICK n \in T : \A y \in T : n <= y
      <3> HIDE DEF T
      <3> QED
        BY <2>1, LeastIsLeast
    <2>3. n \in 1..excess /\ n - 1 \in 0..excess /\ n - 1 \notin T
      BY <1>1, <2>2
    <2>4. PICK f : Is(f, n - 1)
      BY <2>3
    <2>5. n - 1 \in Nat /\ n - 1 + 1 = n
      BY <2>3
    <2>6. \E g : Is(g, n - 1 + 1)
      BY <1>2, <2>4, <2>5
    <2> QED
      BY <2>2, <2>5, <2>6
  <1>4. \E f : Is(f, excess)
    BY <1>3
  <1> QED
    BY <1>4 DEF Is, More, Dropping

\* cleanRowCache keeps the rows around the hint that fit the cache, and no more
\* rows than the cache may have (qbackendmodel.cpp:204).
THEOREM CleanKeepsNear ==
  ASSUME NEW n \in Nat, NEW cache, DOMAIN cache \in SUBSET (0..n), NEW hint \in Nat
  PROVE  LET left == CleanRowCache(cache, hint)
         IN /\ CacheSize >= 2 => Cardinality(DOMAIN left) <= CacheSize
            /\ \A row \in DOMAIN cache :
                 CacheSize < 2 \/ 2 * Distance(row, hint) < CacheSize => row \in DOMAIN left
  <1> DEFINE known   == DOMAIN cache
             excess  == Cardinality(known) - CacheSize
             dropped == CHOOSE f : f = Dropping(known, hint, excess, f)
  <1>1. CacheSize \in Nat
    BY CacheAssumption
  <1>2. CleanRowCache(cache, hint)
        = IF CacheSize < 2 \/ excess <= 0 THEN cache
          ELSE [k \in known \ dropped[excess] |-> cache[k]]
    BY DEF CleanRowCache, Dropping
  <1>3. IsFiniteSet(known) /\ Cardinality(known) \in Nat
    <2>1. IsFiniteSet(0..n)
      BY FS_Interval
    <2> QED
      BY <2>1, FS_Subset, FS_CardinalityType
  <1>4. CASE CacheSize < 2 \/ excess <= 0
    BY <1>1, <1>2, <1>3, <1>4
  <1>5. CASE ~(CacheSize < 2 \/ excess <= 0)
    <2>1. excess \in Nat /\ Cardinality(known) = CacheSize + excess
      BY <1>1, <1>3, <1>5
    <2>2. dropped = Dropping(known, hint, excess, dropped)
      <3>1. \E f : f = Dropping(known, hint, excess, f)
        <4> HIDE DEF known, excess
        <4> QED
          BY <2>1, DropsDefined
      <3> QED
        BY <3>1
    <2> HIDE DEF excess, dropped
    <2>3. /\ Cardinality(known \ dropped[excess]) = CacheSize
          /\ \A row \in known : 2 * Distance(row, hint) < CacheSize => row \notin dropped[excess]
      BY <2>1, <2>2, DropsFar
    <2>4. DOMAIN CleanRowCache(cache, hint) = known \ dropped[excess]
      BY <1>2, <1>5
    <2> QED
      BY <1>1, <1>5, <2>3, <2>4
  <1> QED
    BY <1>4, <1>5
===============================================================================
