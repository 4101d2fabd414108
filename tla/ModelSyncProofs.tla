---------------------------- MODULE ModelSyncProofs ----------------------------
(***************************************************************************)
(* Both sides of a list model agree.  The signals that are on their way are   *)
(* a history of the application's list: the one before the first signal is    *)
(* the plugin's, the one after the last is the application's.                 *)
(***************************************************************************)
EXTENDS ModelSync, RowCacheProofs

Size(s) == Len(s.data) + s.more

\* The list has the right length and shape after the change that s announces ...
Fits(s, old, new) ==
  /\ s.sig \in {"described", "modelRowData"} => new = old
  /\ s.sig = "modelReset" => Len(new) = Size(s)
  /\ s.sig = "modelInsert" =>
       s.start <= Len(old) /\ Size(s) > 0 /\ Len(new) = Len(old) + Size(s)
  /\ s.sig = "modelRemove" =>
       s.start <= s.end /\ s.end < Len(old) /\ Len(new) = Len(old) - (s.end - s.start + 1)
  /\ s.sig = "modelMove" =>
       /\ s.start <= s.end /\ s.end < Len(old) /\ s.destination <= Len(old)
       /\ s.destination \notin s.start..(s.end + 1)
       /\ Len(new) = Len(old)
  /\ s.sig = "modelUpdate" => s.start < Len(old) /\ Len(s.data) = 1 /\ Len(new) = Len(old)

\* ... and the rows that s makes of it.
Tells(s, old, new) ==
  /\ s.sig = "modelReset" => s.data = SubSeq(new, 1, Len(s.data))
  /\ s.sig = "modelInsert" =>
       \E ins \in Seq(Val) : /\ Len(ins) = Size(s) /\ s.data = SubSeq(ins, 1, Len(s.data))
                             /\ new = InsertRows(old, s.start, ins)
  /\ s.sig = "modelRemove" => new = RemoveRows(old, s.start, s.end - s.start + 1)
  /\ s.sig = "modelMove" => new = MoveRows(old, s.start, s.end - s.start + 1, s.destination)
  /\ s.sig = "modelUpdate" => new = [old EXCEPT ![s.start + 1] = s.data[1]]
  /\ s.sig = "modelRowData" =>
       \/ s.data = <<>>
       \/ /\ s.start + Len(s.data) <= Len(old)
          /\ s.data = SubSeq(old, s.start + 1, s.start + Len(s.data))

\* h is the list before each of the signals sigs, and after the last one.
History(h, sigs, all) ==
  /\ h \in Seq(Seq(Val)) /\ Len(h) = Len(sigs) + 1 /\ h[Len(h)] = all
  /\ \A i \in 1..Len(sigs) :
       Fits(sigs[i], h[i], h[i + 1]) /\ (InOrder => Tells(sigs[i], h[i], h[i + 1]))

\* Row k will be written anew by one of the signals before it gets another number.
Rewrites(s, k) == s.sig = "modelReset" \/ (s.sig = "modelUpdate" /\ s.start = k)
Awaits(k, sigs) ==
  \E j \in 1..Len(sigs) :
    Rewrites(sigs[j], k) /\ \A i \in 1..(j - 1) : ~Renumbers(sigs[i])

\* What the plugin has is the list before the first signal, but for rows that a
\* signal on its way writes anew.
Follows(old) ==
  /\ rowCount = Len(old)
  /\ DOMAIN cache \subseteq 0..(rowCount - 1)
  /\ InOrder /\ ~overtook =>
       \A k \in DOMAIN cache : cache[k] = old[k + 1] \/ Awaits(k, signals)

Tracks(h) == History(h, signals, rows) /\ (model = "synced" => Follows(h[1]))

\* The inductive invariant: there is such a history.
Inv ==
  /\ TypeOK
  /\ ref \/ (signals = <<>> /\ model \in {"unused", "asked"})
  /\ \E h \in Seq(Seq(Val)) : Tracks(h)

\* What the application announces leads from its old list to its new one, and is
\* no answer to a request.
Says(s, old, new) == Fits(s, old, new) /\ (InOrder => Tells(s, old, new))
News(s, old, new) == Says(s, old, new) /\ s.sig # "modelRowData"
Announces(sigs, old, new) ==
  \/ \E s \in Signals : sigs = <<s>> /\ News(s, old, new)
  \/ \E s, t \in Signals, mid \in Seq(Val) :
       sigs = <<s, t>> /\ News(s, old, mid) /\ News(t, mid, new)
-----------------------------------------------------------------------------
\* What the operations on a cache do to its keys and to its values.
Typed(c) == DOMAIN c \subseteq Nat /\ \A k \in DOMAIN c : c[k] \in Val
Below(c, n) == DOMAIN c \subseteq 0..(n - 1)

LEMMA OverlayKeeps ==
  ASSUME NEW c, Typed(c), NEW start \in Nat, NEW new \in Seq(Val),
         NEW n \in Int, Below(c, n) => start + Len(new) <= n
  PROVE  Typed(Overlay(c, start, new)) /\ (Below(c, n) => Below(Overlay(c, start, new), n))
  <1> DEFINE all == Overlay(c, start, new)
             keys == start..(start + Len(new) - 1)
  <1>1. Len(new) \in Nat
    BY LenProperties
  <1>2. DOMAIN all = DOMAIN c \cup keys
    BY DEF Overlay
  <1>3. \A k \in DOMAIN all : all[k] = IF k \in keys THEN new[k - start + 1] ELSE c[k]
    BY DEF Overlay
  <1> HIDE DEF all
  <1>4. \A k \in keys : k \in Nat /\ new[k - start + 1] \in Val
    <2> SUFFICES ASSUME NEW k \in keys
                 PROVE  k \in Nat /\ new[k - start + 1] \in Val
      OBVIOUS
    <2>1. k \in Nat /\ k - start + 1 \in 1..Len(new)
      BY <1>1
    <2> QED
      BY <2>1, ElementOfSeq
  <1>5. Typed(all)
    BY <1>2, <1>3, <1>4 DEF Typed
  <1>6. Below(c, n) => Below(all, n)
    BY <1>1, <1>2 DEF Below
  <1> QED
    BY <1>5, <1>6 DEF all

LEMMA InsertKeeps ==
  ASSUME NEW c, Typed(c), NEW start \in Nat, NEW new \in Seq(Val), NEW size \in Nat,
         Len(new) <= size, NEW n \in Int, Below(c, n) => start <= n
  PROVE  /\ Typed(InsertInCache(c, start, new, size))
         /\ Below(c, n) => Below(InsertInCache(c, start, new, size), n + size)
  <1> DEFINE shifted == ShiftForInsert(c, start, size)
  <1>1. Len(new) \in Nat
    BY LenProperties
  <1>2. DOMAIN shifted = {k \in DOMAIN c : k < start}
                         \cup {j + size : j \in {k \in DOMAIN c : k >= start}}
    BY DEF ShiftForInsert
  <1>3. \A k \in DOMAIN shifted : shifted[k] = IF k < start THEN c[k] ELSE c[k - size]
    BY DEF ShiftForInsert
  <1>4. \A k \in DOMAIN c : k \in Nat /\ c[k] \in Val
    BY DEF Typed
  <1> HIDE DEF shifted
  <1>5. \A k \in DOMAIN shifted : k \in Nat /\ shifted[k] \in Val
    <2> SUFFICES ASSUME NEW k \in DOMAIN shifted
                 PROVE  k \in Nat /\ shifted[k] \in Val
      OBVIOUS
    <2>1. CASE k \in DOMAIN c /\ k < start
      BY <1>3, <1>4, <2>1
    <2>2. ASSUME NEW j \in DOMAIN c, j >= start, k = j + size
          PROVE  k \in Nat /\ shifted[k] \in Val
      <3>1. k \in Nat /\ k - size = j /\ ~(k < start)
        BY <1>4, <2>2
      <3> QED
        BY <1>3, <1>4, <3>1
    <2> QED
      BY <1>2, <2>1, <2>2
  <1>6. Typed(shifted)
    BY <1>5 DEF Typed
  <1>7. Below(c, n) => Below(shifted, n + size) /\ start + Len(new) <= n + size
    <2> SUFFICES ASSUME Below(c, n)
                 PROVE  Below(shifted, n + size) /\ start + Len(new) <= n + size
      OBVIOUS
    <2>1. \A k \in DOMAIN c : k \in 0..(n - 1)
      BY DEF Below
    <2>2. \A k \in DOMAIN shifted : k \in 0..(n + size - 1)
      BY <1>2, <2>1
    <2> QED
      BY <1>1, <2>2 DEF Below
  <1>8. CASE Below(c, n)
    <2>1. Below(shifted, n + size) /\ start + Len(new) <= n + size /\ n + size \in Int
      BY <1>7, <1>8
    <2> QED
      BY <1>6, <2>1, OverlayKeeps DEF InsertInCache, shifted
  <1>9. CASE ~Below(c, n)
    <2>1. PICK b \in Int : b = start + Len(new)
      BY <1>1
    <2>2. Typed(Overlay(shifted, start, new))
      BY <1>1, <1>6, <2>1, OverlayKeeps
    <2> QED
      BY <1>9, <2>2 DEF InsertInCache, shifted
  <1> QED
    BY <1>8, <1>9

LEMMA RemoveKeeps ==
  ASSUME NEW c, Typed(c), NEW start \in Nat, NEW end \in Int, start <= end,
         NEW n \in Int, Below(c, n) => end < n
  PROVE  /\ Typed(RemoveFromCache(c, start, end))
         /\ Below(c, n) => Below(RemoveFromCache(c, start, end), n - (end - start + 1))
  <1> DEFINE left == RemoveFromCache(c, start, end)
             size == end - start + 1
  <1>1. size \in Nat /\ end + 1 = start + size
    OBVIOUS
  <1>2. DOMAIN left = {k \in DOMAIN c : k < start}
                      \cup {j - size : j \in {k \in DOMAIN c : k > end}}
    BY DEF RemoveFromCache
  <1>3. \A k \in DOMAIN left : left[k] = IF k < start THEN c[k] ELSE c[k + size]
    BY DEF RemoveFromCache
  <1>4. \A k \in DOMAIN c : k \in Nat /\ c[k] \in Val
    BY DEF Typed
  <1> HIDE DEF left, size
  <1> SUFFICES ASSUME NEW k \in DOMAIN left
               PROVE  /\ k \in Nat /\ left[k] \in Val
                      /\ Below(c, n) => k \in 0..(n - size - 1)
    <2>1. n - (end - start + 1) - 1 = n - size - 1
      BY DEF size
    <2> QED
      BY <2>1 DEF Typed, Below, left
  <1>5. CASE k \in DOMAIN c /\ k < start
    BY <1>1, <1>3, <1>4, <1>5 DEF Below
  <1>6. ASSUME NEW j \in DOMAIN c, j > end, k = j - size
        PROVE  /\ k \in Nat /\ left[k] \in Val
               /\ Below(c, n) => k \in 0..(n - size - 1)
    <2>1. j \in Nat /\ c[j] \in Val
      BY <1>4
    <2>2. k \in Nat /\ k + size = j /\ ~(k < start)
      BY <1>1, <1>6, <2>1
    <2>3. Below(c, n) => k \in 0..(n - size - 1)
      BY <1>1, <1>6, <2>1, <2>2 DEF Below
    <2> QED
      BY <1>3, <2>1, <2>2, <2>3
  <1> QED
    BY <1>2, <1>5, <1>6

LEMMA MovedBack ==
  ASSUME NEW start \in Nat, NEW end \in Int, start <= end, NEW destination \in Nat,
         destination \notin start..(end + 1), NEW j \in Nat
  PROVE  LET k == MovedTo(start, end, destination, j)
         IN /\ k \in Nat /\ MovedFrom(start, end, destination, k) = j
            /\ \A n \in Int : j < n /\ end < n /\ destination <= n => k < n
  <1> DEFINE size == end - start + 1
  <1>1. PICK k : k = MovedTo(start, end, destination, j)
    OBVIOUS
  <1> SUFFICES /\ k \in Nat /\ MovedFrom(start, end, destination, k) = j
               /\ \A n \in Int : j < n /\ end < n /\ destination <= n => k < n
    BY <1>1
  <1>2. CASE destination < start /\ j \in start..end
    <2>1. k = j - start + destination
      BY <1>1, <1>2 DEF MovedTo
    <2> QED
      BY <1>2, <2>1 DEF MovedFrom
  <1>3. CASE destination < start /\ j \in destination..(start - 1)
    <2>1. k = j + size
      BY <1>1, <1>3 DEF MovedTo
    <2> QED
      BY <1>3, <2>1 DEF MovedFrom
  <1>4. CASE destination < start /\ j \notin start..end /\ j \notin destination..(start - 1)
    <2>1. k = j
      BY <1>1, <1>4 DEF MovedTo
    <2> QED
      BY <1>4, <2>1 DEF MovedFrom
  <1>5. CASE destination > end + 1 /\ j \in start..end
    <2>1. k = destination - end - 1 + j
      BY <1>1, <1>5 DEF MovedTo
    <2> QED
      BY <1>5, <2>1 DEF MovedFrom
  <1>6. CASE destination > end + 1 /\ j \in (end + 1)..(destination - 1)
    <2>1. k = j - size
      BY <1>1, <1>6 DEF MovedTo
    <2> QED
      BY <1>6, <2>1 DEF MovedFrom
  <1>7. CASE /\ destination > end + 1 /\ j \notin start..end
             /\ j \notin (end + 1)..(destination - 1)
    <2>1. k = j
      BY <1>1, <1>7 DEF MovedTo
    <2> QED
      BY <1>7, <2>1 DEF MovedFrom
  <1> QED
    BY <1>2, <1>3, <1>4, <1>5, <1>6, <1>7

LEMMA MoveKeeps ==
  ASSUME NEW c, Typed(c), NEW start \in Nat, NEW end \in Int, start <= end,
         NEW destination \in Nat, destination \notin start..(end + 1),
         NEW n \in Int, Below(c, n) => end < n /\ destination <= n
  PROVE  /\ Typed(MoveInCache(c, start, end, destination))
         /\ Below(c, n) => Below(MoveInCache(c, start, end, destination), n)
  <1> DEFINE moved == MoveInCache(c, start, end, destination)
  <1> SUFFICES ASSUME NEW k \in DOMAIN moved
               PROVE  k \in Nat /\ moved[k] \in Val /\ (Below(c, n) => k \in 0..(n - 1))
    BY DEF Typed, Below
  <1>1. PICK j \in DOMAIN c : k = MovedTo(start, end, destination, j)
    BY DEF MoveInCache
  <1>2. j \in Nat /\ c[j] \in Val
    BY DEF Typed
  <1>3. /\ k \in Nat /\ MovedFrom(start, end, destination, k) = j
        /\ \A m \in Int : j < m /\ end < m /\ destination <= m => k < m
    BY <1>1, <1>2, MovedBack
  <1>4. moved[k] = c[j]
    BY <1>3 DEF MoveInCache
  <1>5. Below(c, n) => k \in 0..(n - 1)
    <2> SUFFICES ASSUME Below(c, n)
                 PROVE  k \in 0..(n - 1)
      OBVIOUS
    <2>1. j \in 0..(n - 1)
      BY DEF Below
    <2>2. k < n
      BY <1>3, <2>1
    <2> QED
      BY <1>3, <2>2
  <1> QED
    BY <1>2, <1>3, <1>4, <1>5

LEMMA CleanKeeps ==
  ASSUME NEW c, NEW hint
  PROVE  LET left == CleanRowCache(c, hint)
         IN DOMAIN left \subseteq DOMAIN c /\ \A k \in DOMAIN left : left[k] = c[k]
  BY DEF CleanRowCache

-----------------------------------------------------------------------------
\* A history grows with the signals that are sent, and shrinks with those taken.
LEMMA RemovedAt ==
  ASSUME NEW S, NEW s \in Seq(S), NEW i \in 1..Len(s)
  PROVE  /\ RemoveAt(s, i) \in Seq(S)
         /\ Len(RemoveAt(s, i)) = Len(s) - 1
         /\ \A j \in 1..(Len(s) - 1) : RemoveAt(s, i)[j] = IF j < i THEN s[j] ELSE s[j + 1]
  <1>1. Len(s) \in Nat
    BY LenProperties
  <1>2. PICK p \in Nat : p = i - 1
    BY <1>1
  <1>3. p + 1 <= Len(s) /\ i = p + 1 /\ i + 1 = p + 1 + 1 /\ 1 \in Nat \ {0}
    BY <1>1, <1>2
  <1>4. RemoveRows(s, p, 1) \in Seq(S) /\ Remain(RemoveRows(s, p, 1), s, p, 1)
    BY <1>3, RemainingRows
  <1>5. RemoveRows(s, p, 1) = RemoveAt(s, i)
    BY <1>2, <1>3 DEF RemoveRows, RemoveAt
  <1>6. PICK r : r = RemoveAt(s, i)
    OBVIOUS
  <1>7. r \in Seq(S) /\ Remain(r, s, p, 1)
    BY <1>4, <1>5, <1>6
  <1> QED
    BY <1>1, <1>3, <1>6, <1>7 DEF Remain

LEMMA HistoryAppend ==
  ASSUME NEW h, NEW sigs \in Seq(Signals), NEW all, History(h, sigs, all),
         NEW s \in Signals, NEW new \in Seq(Val),
         Fits(s, all, new), InOrder => Tells(s, all, new)
  PROVE  History(Append(h, new), Append(sigs, s), new) /\ Append(h, new)[1] = h[1]
  <1> DEFINE n  == Len(sigs)
             hh == Append(h, new)
             ss == Append(sigs, s)
  <1>1. n \in Nat /\ h \in Seq(Seq(Val)) /\ Len(h) = n + 1 /\ h[n + 1] = all
    BY LenProperties DEF History
  <1>2. /\ hh \in Seq(Seq(Val)) /\ Len(hh) = n + 2
        /\ \A i \in 1..(n + 1) : hh[i] = h[i]
        /\ hh[n + 2] = new
    BY <1>1, AppendProperties
  <1>3. /\ Len(ss) = n + 1
        /\ \A i \in 1..n : ss[i] = sigs[i]
        /\ ss[n + 1] = s
    BY <1>1, AppendProperties
  <1>4. \A i \in 1..n : /\ Fits(sigs[i], h[i], h[i + 1])
                        /\ InOrder => Tells(sigs[i], h[i], h[i + 1])
    BY DEF History
  <1> HIDE DEF n, hh, ss
  <1>5. ASSUME NEW i \in 1..(n + 1)
        PROVE  Fits(ss[i], hh[i], hh[i + 1]) /\ (InOrder => Tells(ss[i], hh[i], hh[i + 1]))
    <2>1. CASE i \in 1..n
      <3>1. ss[i] = sigs[i] /\ hh[i] = h[i] /\ hh[i + 1] = h[i + 1]
        BY <1>1, <1>2, <1>3, <2>1
      <3> QED
        BY <1>4, <2>1, <3>1
    <2>2. CASE i = n + 1
      <3>1. ss[i] = s /\ hh[i] = all /\ hh[i + 1] = new
        BY <1>1, <1>2, <1>3, <2>2
      <3> QED
        BY <3>1
    <2> QED
      BY <1>1, <2>1, <2>2
  <1>6. History(hh, ss, new)
    BY <1>1, <1>2, <1>3, <1>5 DEF History
  <1>7. hh[1] = h[1]
    BY <1>1, <1>2
  <1> QED
    BY <1>6, <1>7 DEF hh, ss

LEMMA HistoryTail ==
  ASSUME NEW h, NEW sigs \in Seq(Signals), sigs # <<>>, NEW all, History(h, sigs, all)
  PROVE  /\ History(Tail(h), Tail(sigs), all) /\ Tail(h)[1] = h[2]
         /\ h[1] \in Seq(Val) /\ h[2] \in Seq(Val) /\ Head(sigs) = sigs[1]
         /\ Head(sigs) \in Signals
         /\ Fits(Head(sigs), h[1], h[2])
         /\ InOrder => Tells(Head(sigs), h[1], h[2])
  <1> DEFINE n == Len(sigs)
  <1>1. n \in Nat \ {0} /\ h \in Seq(Seq(Val)) /\ Len(h) = n + 1 /\ h[n + 1] = all
    BY LenProperties, EmptySeq DEF History
  <1>2. h # <<>>
    BY <1>1, EmptySeq
  <1>3. /\ Tail(h) \in Seq(Seq(Val)) /\ Len(Tail(h)) = n
        /\ \A i \in 1..n : Tail(h)[i] = h[i + 1]
    BY <1>1, <1>2, HeadTailProperties
  <1>4. /\ Len(Tail(sigs)) = n - 1 /\ Head(sigs) \in Signals /\ Head(sigs) = sigs[1]
        /\ \A i \in 1..(n - 1) : Tail(sigs)[i] = sigs[i + 1]
    BY HeadTailProperties
  <1>5. \A i \in 1..n : /\ Fits(sigs[i], h[i], h[i + 1])
                        /\ InOrder => Tells(sigs[i], h[i], h[i + 1])
    BY DEF History
  <1> HIDE DEF n
  <1>6. ASSUME NEW i \in 1..(n - 1)
        PROVE  /\ Fits(Tail(sigs)[i], Tail(h)[i], Tail(h)[i + 1])
               /\ InOrder => Tells(Tail(sigs)[i], Tail(h)[i], Tail(h)[i + 1])
    <2>1. PICK j \in 1..n : j = i + 1
      BY <1>1
    <2>2. Tail(sigs)[i] = sigs[j] /\ Tail(h)[i] = h[j] /\ Tail(h)[i + 1] = h[j + 1]
      BY <1>1, <1>3, <1>4, <2>1
    <2> QED
      BY <1>5, <2>2
  <1>7. Tail(h)[n] = all /\ Tail(h)[1] = h[2]
    BY <1>1, <1>3
  <1>8. History(Tail(h), Tail(sigs), all)
    BY <1>1, <1>3, <1>4, <1>6, <1>7 DEF History
  <1>9. h[1] \in Seq(Val) /\ h[2] \in Seq(Val)
    BY <1>1, ElementOfSeq
  <1>10. Fits(sigs[1], h[1], h[2]) /\ (InOrder => Tells(sigs[1], h[1], h[2]))
    <2>1. 1 \in 1..n /\ 1 + 1 = 2
      BY <1>1
    <2> QED
      BY <1>5, <2>1
  <1> QED
    BY <1>4, <1>7, <1>8, <1>9, <1>10

LEMMA HistoryRemove ==
  ASSUME NEW h, NEW sigs \in Seq(Signals), NEW all, History(h, sigs, all),
         NEW i \in 1..Len(sigs), h[i] = h[i + 1]
  PROVE  History(RemoveAt(h, i), RemoveAt(sigs, i), all) /\ RemoveAt(h, i)[1] = h[1]
  <1> DEFINE n  == Len(sigs)
             hh == RemoveAt(h, i)
             ss == RemoveAt(sigs, i)
  <1>1. n \in Nat /\ i \in 1..n /\ h \in Seq(Seq(Val)) /\ Len(h) = n + 1 /\ h[n + 1] = all
    BY LenProperties DEF History
  <1>2. /\ hh \in Seq(Seq(Val)) /\ Len(hh) = n
        /\ \A j \in 1..n : hh[j] = IF j < i THEN h[j] ELSE h[j + 1]
    <2>1. i \in 1..Len(h) /\ Len(h) - 1 = n
      BY <1>1
    <2> QED
      BY <1>1, <2>1, RemovedAt
  <1>3. /\ Len(ss) = n - 1
        /\ \A j \in 1..(n - 1) : ss[j] = IF j < i THEN sigs[j] ELSE sigs[j + 1]
    BY RemovedAt
  <1>4. \A j \in 1..n : /\ Fits(sigs[j], h[j], h[j + 1])
                        /\ InOrder => Tells(sigs[j], h[j], h[j + 1])
    BY DEF History
  <1> HIDE DEF n, hh, ss
  <1>5. ASSUME NEW j \in 1..(n - 1)
        PROVE  Fits(ss[j], hh[j], hh[j + 1]) /\ (InOrder => Tells(ss[j], hh[j], hh[j + 1]))
    <2>1. CASE j < i
      <3>1. ss[j] = sigs[j] /\ hh[j] = h[j] /\ j \in 1..n
        BY <1>1, <1>2, <1>3, <2>1
      <3>2. hh[j + 1] = h[j + 1]
        BY <1>1, <1>2, <2>1
      <3> QED
        BY <1>4, <3>1, <3>2
    <2>2. CASE j >= i
      <3>1. PICK k \in 1..n : k = j + 1
        BY <1>1
      <3>2. ss[j] = sigs[k] /\ hh[j] = h[k] /\ hh[j + 1] = h[k + 1]
        BY <1>1, <1>2, <1>3, <2>2, <3>1
      <3> QED
        BY <1>4, <3>2
    <2> QED
      BY <1>1, <2>1, <2>2
  <1>6. hh[n] = all
    BY <1>1, <1>2
  <1>7. hh[1] = h[1]
    BY <1>1, <1>2
  <1>8. History(hh, ss, all)
    BY <1>1, <1>2, <1>3, <1>5, <1>6 DEF History
  <1> QED
    BY <1>7, <1>8 DEF hh, ss

LEMMA AwaitsAppend ==
  ASSUME NEW sigs \in Seq(Signals), NEW s \in Signals, NEW k, Awaits(k, sigs)
  PROVE  Awaits(k, Append(sigs, s))
  <1>1. /\ Len(sigs) \in Nat /\ Len(Append(sigs, s)) = Len(sigs) + 1
        /\ \A i \in 1..Len(sigs) : Append(sigs, s)[i] = sigs[i]
    BY LenProperties, AppendProperties
  <1>2. PICK j \in 1..Len(sigs) :
          Rewrites(sigs[j], k) /\ \A i \in 1..(j - 1) : ~Renumbers(sigs[i])
    BY DEF Awaits
  <1>3. j \in 1..Len(Append(sigs, s)) /\ \A i \in 1..(j - 1) : i \in 1..Len(sigs)
    BY <1>1
  <1> QED
    BY <1>1, <1>2, <1>3 DEF Awaits

LEMMA AwaitsTail ==
  ASSUME NEW sigs \in Seq(Signals), sigs # <<>>, NEW k, Awaits(k, sigs)
  PROVE  \/ Rewrites(Head(sigs), k)
         \/ ~Renumbers(Head(sigs)) /\ Awaits(k, Tail(sigs))
  <1> DEFINE n == Len(sigs)
  <1>1. /\ n \in Nat \ {0} /\ Len(Tail(sigs)) = n - 1 /\ Head(sigs) = sigs[1]
        /\ \A i \in 1..(n - 1) : Tail(sigs)[i] = sigs[i + 1]
    BY LenProperties, EmptySeq, HeadTailProperties
  <1>2. PICK j \in 1..n :
          Rewrites(sigs[j], k) /\ \A i \in 1..(j - 1) : ~Renumbers(sigs[i])
    BY DEF Awaits
  <1> HIDE DEF n
  <1>3. CASE j = 1
    BY <1>1, <1>2, <1>3
  <1>4. CASE j > 1
    <2>1. PICK p \in 1..(n - 1) : p = j - 1
      BY <1>1, <1>4
    <2>2. Rewrites(Tail(sigs)[p], k)
      BY <1>1, <1>2, <2>1
    <2>3. ASSUME NEW i \in 1..(p - 1)
          PROVE  ~Renumbers(Tail(sigs)[i])
      <3>1. PICK q \in 1..(j - 1) : q = i + 1
        BY <1>1, <2>1
      <3>2. Tail(sigs)[i] = sigs[q]
        BY <1>1, <2>1, <3>1
      <3> QED
        BY <1>2, <3>2
    <2>4. ~Renumbers(sigs[1])
      BY <1>2, <1>4
    <2> QED
      BY <1>1, <2>2, <2>3, <2>4 DEF Awaits
  <1> QED
    BY <1>1, <1>3, <1>4

LEMMA AwaitsRemove ==
  ASSUME NEW sigs \in Seq(Signals), NEW k, Awaits(k, sigs),
         NEW i \in 1..Len(sigs), ~Rewrites(sigs[i], k)
  PROVE  Awaits(k, RemoveAt(sigs, i))
  <1> DEFINE n  == Len(sigs)
             ss == RemoveAt(sigs, i)
  <1>1. /\ n \in Nat /\ i \in 1..n /\ Len(ss) = n - 1
        /\ \A j \in 1..(n - 1) : ss[j] = IF j < i THEN sigs[j] ELSE sigs[j + 1]
    BY LenProperties, RemovedAt
  <1>2. PICK j \in 1..n :
          Rewrites(sigs[j], k) /\ \A m \in 1..(j - 1) : ~Renumbers(sigs[m])
    BY DEF Awaits
  <1> HIDE DEF n, ss
  <1>3. PICK p \in 1..(n - 1) : p = IF j < i THEN j ELSE j - 1
    <2>1. j # i
      BY <1>2
    <2> QED
      BY <1>1, <2>1
  <1>4. ss[p] = sigs[j]
    <2>1. j # i
      BY <1>2
    <2> QED
      BY <1>1, <1>3, <2>1
  <1>5. ASSUME NEW m \in 1..(p - 1)
        PROVE  ~Renumbers(ss[m])
    <2>1. PICK q \in 1..(j - 1) : q = IF m < i THEN m ELSE m + 1
      BY <1>1, <1>3
    <2>2. ss[m] = sigs[q]
      BY <1>1, <1>3, <2>1
    <2> QED
      BY <1>2, <2>2
  <1> QED
    BY <1>1, <1>2, <1>3, <1>4, <1>5 DEF Awaits, ss

\* Up to a signal that renumbers rows, a row that none writes anew stays.
LEMMA RowStays ==
  ASSUME InOrder, NEW h, NEW sigs \in Seq(Signals), NEW all, History(h, sigs, all),
         NEW i \in 1..Len(sigs), \A j \in 1..(i - 1) : ~Renumbers(sigs[j]),
         NEW k \in 0..(Len(h[1]) - 1), ~Awaits(k, sigs)
  PROVE  Len(h[i]) = Len(h[1]) /\ h[i][k + 1] = h[1][k + 1]
  <1> DEFINE Same(m) == Len(h[m]) = Len(h[1]) /\ h[m][k + 1] = h[1][k + 1]
             T == {m \in Nat : m \in 1..i /\ ~Same(m)}
  <1>1. Len(sigs) \in Nat /\ h \in Seq(Seq(Val)) /\ Len(h) = Len(sigs) + 1
    BY LenProperties DEF History
  <1>2. \A m \in 1..Len(h) : h[m] \in Seq(Val) /\ Len(h[m]) \in Nat /\ DOMAIN h[m] = 1..Len(h[m])
    BY <1>1, ElementOfSeq, LenProperties
  <1> HIDE DEF Same
  <1>0. i \in Nat /\ i \in 1..i /\ i <= Len(sigs)
    BY <1>1
  <1> SUFFICES ASSUME ~Same(i)
               PROVE  FALSE
    BY DEF Same
  <1>3. PICK m \in T : \A y \in T : m <= y
    <2>1. i \in T /\ T \in SUBSET Nat
      BY <1>0
    <2> HIDE DEF T
    <2> QED
      BY <2>1, LeastIsLeast
  <1>4. m \in Nat /\ m \in 1..i /\ ~Same(m) /\ m # 1
    BY DEF Same
  <1>5. PICK p \in 1..(i - 1) : m = p + 1
    <2>1. m - 1 \in 1..(i - 1) /\ m = (m - 1) + 1
      BY <1>0, <1>4
    <2> QED
      BY <2>1
  <1>6. Same(p)
    <2>1. p \in Nat /\ p \in 1..i /\ ~(m <= p)
      BY <1>0, <1>5
    <2> QED
      BY <1>3, <2>1
  <1>7. /\ Fits(sigs[p], h[p], h[m]) /\ Tells(sigs[p], h[p], h[m])
        /\ sigs[p] \in Signals /\ ~Renumbers(sigs[p]) /\ ~Rewrites(sigs[p], k)
    <2>1. p \in 1..Len(sigs)
      BY <1>0, <1>1, <1>5
    <2>2. \A j \in 1..(p - 1) : ~Renumbers(sigs[j])
      <3>1. \A j \in 1..(p - 1) : j \in 1..(i - 1)
        BY <1>0, <1>5
      <3> QED
        BY <3>1
    <2> QED
      BY <1>5, <2>1, <2>2, ElementOfSeq DEF History, Awaits
  <1>8. CASE sigs[p].sig \in {"described", "modelRowData"}
    BY <1>4, <1>6, <1>7, <1>8 DEF Fits, Same
  <1>9. CASE sigs[p].sig = "modelUpdate"
    <2>1. /\ h[m] = [h[p] EXCEPT ![sigs[p].start + 1] = sigs[p].data[1]]
          /\ sigs[p].start # k /\ Len(h[m]) = Len(h[p])
      BY <1>7, <1>9 DEF Tells, Fits, Rewrites
    <2>2. k + 1 \in DOMAIN h[p] /\ sigs[p].start + 1 # k + 1
      <3>1. sigs[p].start \in Nat
        BY <1>7 DEF Signals
      <3>2. p \in 1..Len(h) /\ Len(h[1]) \in Nat
        BY <1>0, <1>1, <1>2, <1>5
      <3>3. DOMAIN h[p] = 1..Len(h[1])
        BY <1>2, <1>6, <3>2 DEF Same
      <3> QED
        BY <2>1, <3>1, <3>2, <3>3
    <2>3. h[m][k + 1] = h[p][k + 1]
      BY <2>1, <2>2
    <2> QED
      BY <1>4, <1>6, <2>1, <2>3 DEF Same
  <1> QED
    BY <1>7, <1>8, <1>9 DEF Signals, Renumbers, Rewrites

-----------------------------------------------------------------------------
\* The signals say what was done.
LEMMA InsertedLen ==
  ASSUME NEW S, NEW all \in Seq(S), NEW new \in Seq(S), NEW start \in 0..Len(all)
  PROVE  /\ InsertRows(all, start, new) \in Seq(S)
         /\ Len(InsertRows(all, start, new)) = Len(all) + Len(new)
  <1>1. all \in Seq(S) /\ new \in Seq(S) /\ start \in 0..Len(all)
    OBVIOUS
  <1> QED
    BY ONLY <1>1, InsertedRows

LEMMA GotRows ==
  ASSUME NEW all \in Seq(Val), NEW start \in Nat, NEW count \in Int, NEW size \in Nat
  PROVE  LET data == GetRows(all, start, count, size).data
         IN /\ data \in Seq(Val)
            /\ \/ data = <<>>
               \/ /\ start + Len(data) <= Len(all)
                  /\ data = SubSeq(all, start + 1, start + Len(data))
  <1> DEFINE wanted == IF count < 0 THEN Len(all) - start ELSE count
             from   == IF start + wanted > Len(all) THEN Lower(start, Len(all)) ELSE start
             found  == IF start + wanted > Len(all) THEN Len(all) - from ELSE wanted
             sent   == IF size > 0 THEN Lower(found, size) ELSE found
             data   == GetRows(all, start, count, size).data
  <1>1. Len(all) \in Nat /\ from \in Nat /\ found \in Int
    BY LenProperties DEF Lower
  <1>2. data = SubSeq(all, from + 1, from + sent)
    BY DEF GetRows
  <1>3. sent \in Int /\ sent <= found
    BY <1>1 DEF Lower
  <1>4. found > 0 => from = start /\ from + found <= Len(all)
    <2>0. wanted \in Int
      BY <1>1
    <2>1. PICK w \in Int : w = wanted
      BY ONLY <2>0
    <2>2. CASE start + w > Len(all)
      <3>1. from = Lower(start, Len(all)) /\ found = Len(all) - from
        BY <2>1, <2>2
      <3> HIDE DEF from, found
      <3> QED
        BY <1>1, <3>1 DEF Lower
    <2>3. CASE ~(start + w > Len(all))
      <3>1. from = start /\ found = w
        BY <2>1, <2>3
      <3> QED
        BY <1>1, <2>1, <2>3, <3>1
    <2> QED
      BY <2>2, <2>3
  <1> HIDE DEF from, found, sent, data
  <1>5. CASE sent <= 0
    <2>1. data = <<>>
      BY <1>1, <1>2, <1>3, <1>5, SubSeqEmpty
    <2> QED
      BY <2>1, EmptySeq DEF data
  <1>6. CASE sent > 0
    <2>1. from = start /\ from + sent <= Len(all)
      BY <1>1, <1>3, <1>4, <1>6
    <2>2. from + 1 \in 1..(Len(all) + 1) /\ from + sent \in 0..Len(all)
          /\ from + 1 <= from + sent + 1
      BY <1>1, <1>3, <1>6, <2>1
    <2>3. data \in Seq(Val) /\ Len(data) = (from + sent) - (from + 1) + 1
      BY <1>2, <2>2, SubSeqElements
    <2>4. Len(data) = sent
      BY <1>1, <1>3, <2>3
    <2> QED
      BY <1>2, <2>1, <2>3, <2>4 DEF data
  <1> QED
    BY <1>3, <1>5, <1>6

LEMMA GotCounted ==
  ASSUME NEW all \in Seq(Val), NEW start \in Nat, NEW count \in Nat, NEW size \in Nat,
         start + count <= Len(all)
  PROVE  LET got == GetRows(all, start, count, size)
         IN /\ got.data \in Seq(Val) /\ got.more \in Nat
            /\ Len(got.data) \in Nat /\ Len(got.data) + got.more = count
            /\ \A i \in 1..Len(got.data) : got.data[i] = all[start + i]
  <1> DEFINE sent == IF size > 0 THEN Lower(count, size) ELSE count
             got  == GetRows(all, start, count, size)
  <1>1. Len(all) \in Nat
    BY LenProperties
  <1>2. got = [data |-> SubSeq(all, start + 1, start + sent), more |-> count - sent]
    <2>1. ~(count < 0) /\ ~(start + count > Len(all))
      BY <1>1
    <2> QED
      BY <2>1 DEF GetRows
  <1>3. sent \in 0..count
    BY DEF Lower
  <1> HIDE DEF sent, got
  <1>4. start + 1 \in 1..(Len(all) + 1) /\ start + sent \in 0..Len(all)
        /\ start + 1 <= start + sent + 1
    BY <1>1, <1>3
  <1>5. /\ got.data \in Seq(Val)
        /\ Len(got.data) = (start + sent) - (start + 1) + 1
        /\ \A i \in 1..((start + sent) - (start + 1) + 1) : got.data[i] = all[(start + 1) + i - 1]
    BY <1>2, <1>4, SubSeqElements
  <1>6. Len(got.data) = sent /\ got.more = count - sent
    BY <1>2, <1>3, <1>5
  <1>7. ASSUME NEW i \in 1..Len(got.data)
        PROVE  got.data[i] = all[start + i]
    BY <1>3, <1>5, <1>6, <1>7
  <1> QED
    BY <1>3, <1>5, <1>6, <1>7 DEF got

\* data is the first rows of ins if it is so row by row.
LEMMA FirstRows ==
  ASSUME NEW data \in Seq(Val), NEW ins \in Seq(Val), Len(data) <= Len(ins),
         \A i \in 1..Len(data) : data[i] = ins[i]
  PROVE  data = SubSeq(ins, 1, Len(data))
  <1>1. Len(data) \in Nat /\ Len(ins) \in Nat
    BY LenProperties
  <1>2. PICK n \in 0..Len(ins) : n = Len(data)
    BY <1>1
  <1>3. /\ SubSeq(ins, 1, n) \in Seq(Val) /\ Len(SubSeq(ins, 1, n)) = n
        /\ \A i \in 1..n : SubSeq(ins, 1, n)[i] = ins[i]
    <2>1. 1 \in 1..(Len(ins) + 1) /\ n \in 0..Len(ins) /\ 1 <= n + 1 /\ n - 1 + 1 = n
      BY <1>1
    <2>2. /\ SubSeq(ins, 1, n) \in Seq(Val) /\ Len(SubSeq(ins, 1, n)) = n - 1 + 1
          /\ \A i \in 1..(n - 1 + 1) : SubSeq(ins, 1, n)[i] = ins[1 + i - 1]
      BY <2>1, SubSeqElements
    <2> QED
      BY <2>1, <2>2
  <1>4. \A i \in 1..Len(data) : data[i] = SubSeq(ins, 1, n)[i]
    BY <1>2, <1>3
  <1> QED
    BY <1>2, <1>3, <1>4, SeqEqual

LEMMA ResetSays ==
  ASSUME batch \in Nat, NEW all \in Seq(Val), NEW old
  PROVE  ResetSignal(all) \in Signals /\ Says(ResetSignal(all), old, all)
  <1> DEFINE got == GetRows(all, 0, -1, batch)
             s   == ResetSignal(all)
  <1>1. Len(all) \in Nat
    BY LenProperties
  <1>2. got = GetRows(all, 0, Len(all), batch)
    BY <1>1 DEF GetRows
  <1>3. /\ got.data \in Seq(Val) /\ got.more \in Nat
        /\ Len(got.data) \in Nat /\ Len(got.data) + got.more = Len(all)
        /\ \A i \in 1..Len(got.data) : got.data[i] = all[0 + i]
    <2>1. 0 + Len(all) <= Len(all)
      BY <1>1
    <2> HIDE DEF got
    <2> QED
      BY <1>1, <1>2, <2>1, GotCounted
  <1>4. s = [sig |-> "modelReset", start |-> 0, end |-> 0, destination |-> 0,
             data |-> got.data, more |-> got.more]
    BY DEF ResetSignal, Signal
  <1> HIDE DEF got, s
  <1>5. s \in Signals
    BY <1>3, <1>4 DEF Signals
  <1>6. s.data = SubSeq(all, 1, Len(s.data))
    <2>1. \A i \in 1..Len(got.data) : got.data[i] = all[i]
      BY <1>3
    <2> QED
      BY <1>1, <1>3, <1>4, <2>1, FirstRows
  <1>7. s.sig = "modelReset" /\ Len(all) = Size(s)
    BY <1>3, <1>4 DEF Size
  <1>8. Fits(s, old, all) /\ Tells(s, old, all)
    BY <1>6, <1>7 DEF Fits, Tells
  <1> QED
    BY <1>5, <1>8 DEF Says, s

\* all may be a later list than the one the rows ins were put into.
LEMMA InsertSays ==
  ASSUME batch \in Nat, NEW old \in Seq(Val), NEW ins \in Seq(Val), Len(ins) > 0,
         NEW start \in 0..Len(old), NEW all \in Seq(Val), start + Len(ins) <= Len(all),
         InOrder => \A i \in 1..Len(ins) : all[start + i] = ins[i],
         NEW count, count = Len(ins)
  PROVE  /\ InsertSignal(all, start, count) \in Signals
         /\ Says(InsertSignal(all, start, count), old, InsertRows(old, start, ins))
  <1> DEFINE got == GetRows(all, start, count, batch)
             s   == InsertSignal(all, start, count)
             new == InsertRows(old, start, ins)
  <1>1. Len(old) \in Nat /\ Len(ins) \in Nat /\ Len(all) \in Nat /\ start \in Nat
    BY LenProperties
  <1>2. /\ got.data \in Seq(Val) /\ got.more \in Nat
        /\ Len(got.data) \in Nat /\ Len(got.data) + got.more = Len(ins)
        /\ \A i \in 1..Len(got.data) : got.data[i] = all[start + i]
    <2> HIDE DEF got
    <2>1. got = GetRows(all, start, Len(ins), batch)
      BY DEF got
    <2> QED
      BY <1>1, <2>1, GotCounted
  <1>3. s = [sig |-> "modelInsert", start |-> start, end |-> 0, destination |-> 0,
             data |-> got.data, more |-> got.more]
    BY DEF InsertSignal, Signal
  <1>4. Len(new) = Len(old) + Len(ins)
    BY InsertedLen
  <1> HIDE DEF got, s, new
  <1>5. s \in Signals
    BY <1>1, <1>2, <1>3 DEF Signals
  <1>6. s.sig = "modelInsert" /\ s.start = start /\ Size(s) = Len(ins) /\ s.data = got.data
    BY <1>2, <1>3 DEF Size
  <1>7. Fits(s, old, new)
    BY <1>1, <1>4, <1>6 DEF Fits
  <1>8. InOrder => Tells(s, old, new)
    <2> SUFFICES ASSUME InOrder
                 PROVE  Tells(s, old, new)
      OBVIOUS
    <2>1. \A i \in 1..Len(got.data) : got.data[i] = ins[i] /\ Len(got.data) <= Len(ins)
      BY <1>1, <1>2
    <2>2. got.data = SubSeq(ins, 1, Len(got.data))
      BY <1>1, <1>2, <2>1, FirstRows
    <2>3. new = InsertRows(old, start, ins)
      BY DEF new
    <2> QED
      BY <1>6, <2>2, <2>3 DEF Tells
  <1> QED
    BY <1>5, <1>7, <1>8 DEF Says, s, new

LEMMA RemoveSays ==
  ASSUME NEW old \in Seq(Val), NEW start \in Nat, NEW count \in Nat \ {0},
         start + count <= Len(old)
  PROVE  /\ RemoveRows(old, start, count) \in Seq(Val)
         /\ RemoveSignal(start, count) \in Signals
         /\ Says(RemoveSignal(start, count), old, RemoveRows(old, start, count))
  <1> DEFINE s   == RemoveSignal(start, count)
             new == RemoveRows(old, start, count)
  <1>1. Len(old) \in Nat /\ count \in Nat /\ start + count - 1 \in Int
    BY LenProperties
  <1>2. s = [sig |-> "modelRemove", start |-> start, end |-> start + count - 1,
             destination |-> 0, data |-> <<>>, more |-> 0]
    BY DEF RemoveSignal, Signal
  <1>3. new \in Seq(Val) /\ Len(new) = Len(old) - count
    BY RemainingRows DEF Remain
  <1> HIDE DEF s, new
  <1>4. s \in Signals
    BY <1>1, <1>2, EmptySeq DEF Signals
  <1>5. s.end - s.start + 1 = count
    BY <1>1, <1>2
  <1>6. Fits(s, old, new)
    BY <1>1, <1>2, <1>3, <1>5 DEF Fits
  <1>7. Tells(s, old, new)
    BY <1>2, <1>5 DEF Tells, new
  <1> QED
    BY <1>3, <1>4, <1>6, <1>7 DEF Says, s, new

LEMMA MoveSays ==
  ASSUME NEW old \in Seq(Val), NEW start \in Nat, NEW count \in Nat \ {0},
         start + count <= Len(old),
         NEW destination \in 0..Len(old), destination \notin start..(start + count)
  PROVE  /\ MoveRows(old, start, count, destination) \in Seq(Val)
         /\ MoveSignal(start, count, destination) \in Signals
         /\ Says(MoveSignal(start, count, destination), old,
                 MoveRows(old, start, count, destination))
  <1> DEFINE s   == MoveSignal(start, count, destination)
             new == MoveRows(old, start, count, destination)
             rest  == RemoveRows(old, start, count)
             block == SubSeq(old, start + 1, start + count)
             to    == IF destination < start THEN destination ELSE destination - count
  <1>1. Len(old) \in Nat /\ count \in Nat /\ start + count - 1 \in Int /\ destination \in Nat
    BY LenProperties
  <1>2. s = [sig |-> "modelMove", start |-> start, end |-> start + count - 1,
             destination |-> destination, data |-> <<>>, more |-> 0]
    BY DEF MoveSignal, Signal
  <1>3. new \in Seq(Val) /\ Len(new) = Len(old)
    <2>1. rest \in Seq(Val) /\ Len(rest) = Len(old) - count
      BY RemainingRows DEF Remain
    <2>2. block \in Seq(Val) /\ Len(block) = count
      BY RowsThatMove DEF Leave
    <2>3. to \in 0..Len(rest)
      BY <1>1, <2>1
    <2>4. new = InsertRows(rest, to, block)
      BY DEF MoveRows
    <2> HIDE DEF rest, block, to, new
    <2>5. new \in Seq(Val) /\ Len(new) = Len(rest) + Len(block)
      BY <2>1, <2>2, <2>3, <2>4, InsertedLen
    <2> QED
      BY <1>1, <2>1, <2>2, <2>5
  <1> HIDE DEF s, new
  <1>4. s \in Signals
    BY <1>1, <1>2, EmptySeq DEF Signals
  <1>5. s.end - s.start + 1 = count /\ s.end + 1 = start + count
    BY <1>1, <1>2
  <1>6. Fits(s, old, new)
    BY <1>1, <1>2, <1>3, <1>5 DEF Fits
  <1>7. Tells(s, old, new)
    BY <1>2, <1>5 DEF Tells, new
  <1> QED
    BY <1>3, <1>4, <1>6, <1>7 DEF Says, s, new

LEMMA UpdateSays ==
  ASSUME NEW old \in Seq(Val), NEW row \in 0..(Len(old) - 1), NEW v \in Val
  PROVE  /\ ReplaceAt(old, row + 1, v) \in Seq(Val)
         /\ UpdateSignal(ReplaceAt(old, row + 1, v), row) \in Signals
         /\ Says(UpdateSignal(ReplaceAt(old, row + 1, v), row), old, ReplaceAt(old, row + 1, v))
  <1> DEFINE new == ReplaceAt(old, row + 1, v)
             s   == UpdateSignal(new, row)
  <1>1. Len(old) \in Nat /\ row \in Nat
    BY LenProperties
  <1>2. PICK i \in 1..Len(old) : i = row + 1
    BY <1>1
  <1>3. new \in Seq(Val) /\ Len(new) = Len(old) /\ new[i] = v /\ new = [old EXCEPT ![row + 1] = v]
    BY <1>2, ExceptSeq DEF ReplaceAt
  <1> HIDE DEF new
  <1>4. s = [sig |-> "modelUpdate", start |-> row, end |-> 0,
             destination |-> 0, data |-> <<v>>, more |-> 0]
    BY <1>2, <1>3 DEF UpdateSignal, Signal
  <1> HIDE DEF s
  <1>5. <<v>> \in Seq(Val) /\ Len(<<v>>) = 1
    OBVIOUS
  <1>6. s \in Signals
    BY <1>1, <1>4, <1>5 DEF Signals
  <1>7. Fits(s, old, new)
    BY <1>1, <1>3, <1>4, <1>5 DEF Fits
  <1>8. Tells(s, old, new)
    BY <1>3, <1>4 DEF Tells
  <1> QED
    BY <1>3, <1>6, <1>7, <1>8 DEF Says, s, new

-----------------------------------------------------------------------------
\* SortModelInserted, of one row or of two.
LEMMA Placed ==
  ASSUME NEW all \in Seq(Val), NEW i \in Nat, i < Len(all)
  PROVE  /\ Place(all, i) \in 0..i
         /\ \A j \in 0..i : j < Place(all, i) => j # i /\ ~(all[i + 1] < all[j + 1])
         /\ Place(all, i) = i \/ all[i + 1] < all[Place(all, i) + 1]
  <1> DEFINE places == {j \in 0..i : j = i \/ all[i + 1] < all[j + 1]}
  <1>1. places \in SUBSET Nat /\ places # {}
    <2>1. i \in places
      OBVIOUS
    <2> QED
      BY <2>1
  <1>2. Place(all, i) = Least(places)
    BY DEF Place
  <1>3. \A j \in places : j \in 0..i /\ (j = i \/ all[i + 1] < all[j + 1])
    OBVIOUS
  <1>4. \A j \in 0..i : j \notin places => j # i /\ ~(all[i + 1] < all[j + 1])
    OBVIOUS
  <1> HIDE DEF places
  <1>5. Place(all, i) \in places /\ \A j \in places : Place(all, i) <= j
    BY <1>1, <1>2, LeastIsLeast
  <1>6. /\ Place(all, i) \in 0..i
        /\ Place(all, i) = i \/ all[i + 1] < all[Place(all, i) + 1]
    BY <1>3, <1>5
  <1>7. ASSUME NEW j \in 0..i, j < Place(all, i)
        PROVE  j \notin places
    BY <1>5, <1>6, <1>7
  <1> QED
    BY <1>4, <1>6, <1>7

LEMMA OneInserted ==
  ASSUME NEW x \in Seq(Val), NEW a \in Val, NEW n \in 0..Len(x)
  PROVE  /\ InsertRows(x, n, <<a>>) \in Seq(Val)
         /\ Len(InsertRows(x, n, <<a>>)) = Len(x) + 1
         /\ \A i \in 1..(Len(x) + 1) :
              InsertRows(x, n, <<a>>)[i] =
                IF i <= n THEN x[i] ELSE IF i <= n + 1 THEN a ELSE x[i - 1]
  <1>0. <<a>> \in Seq(Val)
    OBVIOUS
  <1>1. PICK one \in Seq(Val) : one = <<a>>
    BY <1>0
  <1>2. Len(one) = 1 /\ one[1] = a /\ Len(x) \in Nat
    BY <1>1, LenProperties
  <1>3. PICK all : all = InsertRows(x, n, one)
    OBVIOUS
  <1>4. /\ all \in Seq(Val) /\ Len(all) = Len(x) + Len(one)
        /\ \A i \in 1..(Len(x) + Len(one)) :
             all[i] = IF i <= n THEN x[i]
                      ELSE IF i <= n + Len(one) THEN one[i - n] ELSE x[i - Len(one)]
    <2>1. x \in Seq(Val) /\ one \in Seq(Val) /\ n \in 0..Len(x)
      OBVIOUS
    <2> QED
      BY ONLY <1>3, <2>1, InsertedRows
  <1>5. ASSUME NEW i \in 1..(Len(x) + 1)
        PROVE  all[i] = IF i <= n THEN x[i] ELSE IF i <= n + 1 THEN a ELSE x[i - 1]
    <2>1. all[i] = IF i <= n THEN x[i] ELSE IF i <= n + 1 THEN one[i - n] ELSE x[i - 1]
      BY <1>2, <1>4
    <2>2. i > n /\ i <= n + 1 => i - n = 1
      BY <1>2
    <2> QED
      BY <1>2, <2>1, <2>2
  <1>6. all \in Seq(Val) /\ Len(all) = Len(x) + 1
    BY <1>2, <1>4
  <1> QED
    BY <1>1, <1>3, <1>5, <1>6

\* Rows, another one, and the rest.
LEMMA RowBetween ==
  ASSUME NEW old \in Seq(Val), NEW a \in Val, NEW rest \in Seq(Val),
         NEW all, all = (old \o <<a>>) \o rest
  PROVE  /\ all \in Seq(Val) /\ Len(all) = Len(old) + 1 + Len(rest)
         /\ \A i \in 1..(Len(old) + 1 + Len(rest)) :
              all[i] = IF i <= Len(old) THEN old[i]
                       ELSE IF i <= Len(old) + 1 THEN a ELSE rest[i - (Len(old) + 1)]
         /\ all[Len(old) + 1] = a
         /\ \A i \in 1..Len(old) : all[i] = old[i]
  <1>1. Len(old) \in Nat /\ Len(rest) \in Nat
    BY LenProperties
  <1>2. <<a>> \in Seq(Val) /\ Len(<<a>>) = 1 /\ <<a>>[1] = a
    OBVIOUS
  <1>3. /\ old \o <<a>> \in Seq(Val) /\ Len(old \o <<a>>) = Len(old) + 1
        /\ \A i \in 1..(Len(old) + 1) : (old \o <<a>>)[i] = IF i <= Len(old) THEN old[i] ELSE a
    <2>1. /\ old \o <<a>> \in Seq(Val) /\ Len(old \o <<a>>) = Len(old) + Len(<<a>>)
          /\ \A i \in 1..(Len(old) + Len(<<a>>)) :
               (old \o <<a>>)[i] = IF i <= Len(old) THEN old[i] ELSE <<a>>[i - Len(old)]
      BY <1>2, ConcatProperties
    <2> QED
      BY <1>1, <1>2, <2>1
  <1>4. /\ all \in Seq(Val) /\ Len(all) = Len(old) + 1 + Len(rest)
        /\ \A i \in 1..(Len(old) + 1 + Len(rest)) :
             all[i] = IF i <= Len(old) THEN old[i]
                      ELSE IF i <= Len(old) + 1 THEN a ELSE rest[i - (Len(old) + 1)]
    <2>0. all = (old \o <<a>>) \o rest
      OBVIOUS
    <2>1. /\ all \in Seq(Val) /\ Len(all) = Len(old \o <<a>>) + Len(rest)
          /\ \A i \in 1..(Len(old \o <<a>>) + Len(rest)) :
               all[i] = IF i <= Len(old \o <<a>>) THEN (old \o <<a>>)[i]
                        ELSE rest[i - Len(old \o <<a>>)]
      BY <1>3, <2>0, ConcatProperties
    <2> QED
      BY <1>1, <1>3, <2>1
  <1>5. all[Len(old) + 1] = a /\ \A i \in 1..Len(old) : all[i] = old[i]
    BY <1>1, <1>4
  <1> QED
    BY <1>4, <1>5

\* The row after the first ones goes to its place among them; rest stays.
LEMMA SortedIn ==
  ASSUME NEW old \in Seq(Val), NEW a \in Val, NEW rest \in Seq(Val),
         NEW n \in 0..Len(old), NEW all, all = (old \o <<a>>) \o rest
  PROVE  InsertRows(RemoveRows(all, Len(old), 1), n, <<a>>) = InsertRows(old, n, <<a>>) \o rest
  <1> DEFINE left  == RemoveRows(all, Len(old), 1)
             moved == InsertRows(left, n, <<a>>)
             put   == InsertRows(old, n, <<a>>)
  <1>1. Len(old) \in Nat /\ Len(rest) \in Nat
    BY LenProperties
  <1>2. /\ all \in Seq(Val) /\ Len(all) = Len(old) + 1 + Len(rest)
        /\ \A i \in 1..(Len(old) + 1 + Len(rest)) :
             all[i] = IF i <= Len(old) THEN old[i]
                      ELSE IF i <= Len(old) + 1 THEN a ELSE rest[i - (Len(old) + 1)]
    BY RowBetween
  <1>3. /\ left \in Seq(Val) /\ Len(left) = Len(old) + Len(rest)
        /\ \A i \in 1..(Len(old) + Len(rest)) :
             left[i] = IF i <= Len(old) THEN old[i] ELSE rest[i - Len(old)]
    <2>1. Len(old) + 1 <= Len(all) /\ 1 \in Nat \ {0} /\ Len(all) - 1 = Len(old) + Len(rest)
      BY <1>1, <1>2
    <2>2. left \in Seq(Val) /\ Remain(left, all, Len(old), 1)
      BY <1>1, <1>2, <2>1, RemainingRows
    <2> HIDE DEF left
    <2>3. /\ Len(left) = Len(old) + Len(rest)
          /\ \A i \in 1..(Len(old) + Len(rest)) :
               left[i] = IF i <= Len(old) THEN all[i] ELSE all[i + 1]
      BY <2>1, <2>2 DEF Remain
    <2>4. ASSUME NEW i \in 1..(Len(old) + Len(rest))
          PROVE  left[i] = IF i <= Len(old) THEN old[i] ELSE rest[i - Len(old)]
      <3>1. CASE i <= Len(old)
        BY <1>1, <1>2, <2>3, <3>1
      <3>2. CASE i > Len(old)
        <4>1. PICK j \in 1..(Len(old) + 1 + Len(rest)) : j = i + 1
          BY <1>1
        <4>2. all[j] = rest[j - (Len(old) + 1)] /\ j - (Len(old) + 1) = i - Len(old)
          BY <1>1, <1>2, <3>2, <4>1
        <4> QED
          BY <1>1, <2>3, <3>2, <4>1, <4>2
      <3> QED
        BY <1>1, <3>1, <3>2
    <2> QED
      BY <2>2, <2>3, <2>4
  <1> HIDE DEF left
  <1>4. /\ moved \in Seq(Val) /\ Len(moved) = Len(old) + Len(rest) + 1
        /\ \A i \in 1..(Len(old) + Len(rest) + 1) :
             moved[i] = IF i <= n THEN left[i] ELSE IF i <= n + 1 THEN a ELSE left[i - 1]
    <2>1. n \in 0..Len(left) /\ left \in Seq(Val) /\ Len(left) = Len(old) + Len(rest)
      BY <1>1, <1>3
    <2> QED
      BY <2>1, OneInserted
  <1>5. /\ put \in Seq(Val) /\ Len(put) = Len(old) + 1
        /\ \A i \in 1..(Len(old) + 1) :
             put[i] = IF i <= n THEN old[i] ELSE IF i <= n + 1 THEN a ELSE old[i - 1]
    BY OneInserted
  <1> HIDE DEF moved, put
  <1>6. /\ put \o rest \in Seq(Val) /\ Len(put \o rest) = Len(old) + 1 + Len(rest)
        /\ \A i \in 1..(Len(old) + 1 + Len(rest)) :
             (put \o rest)[i] = IF i <= Len(old) + 1 THEN put[i] ELSE rest[i - (Len(old) + 1)]
    <2>1. /\ put \o rest \in Seq(Val) /\ Len(put \o rest) = Len(put) + Len(rest)
          /\ \A i \in 1..(Len(put) + Len(rest)) :
               (put \o rest)[i] = IF i <= Len(put) THEN put[i] ELSE rest[i - Len(put)]
      BY <1>5, ConcatProperties
    <2> QED
      BY <1>5, <2>1
  <1>7. ASSUME NEW i \in 1..Len(moved)
        PROVE  moved[i] = (put \o rest)[i]
    <2>1. i \in 1..(Len(old) + 1 + Len(rest)) /\ i \in 1..(Len(old) + Len(rest) + 1)
      BY <1>1, <1>4
    <2>2. n \in Nat /\ n <= Len(old)
      BY <1>1
    <2>3. CASE i <= n
      <3>1. moved[i] = left[i] /\ i \in 1..(Len(old) + Len(rest)) /\ i \in 1..(Len(old) + 1)
        BY <1>1, <1>4, <2>1, <2>2, <2>3
      <3>2. left[i] = old[i] /\ put[i] = old[i]
        BY <1>3, <1>5, <2>2, <2>3, <3>1
      <3> QED
        BY <1>6, <2>1, <3>1, <3>2
    <2>4. CASE i = n + 1
      <3>1. moved[i] = a /\ i \in 1..(Len(old) + 1)
        BY <1>1, <1>4, <2>1, <2>2, <2>4
      <3>2. put[i] = a
        BY <1>5, <2>2, <2>4, <3>1
      <3> QED
        BY <1>6, <2>1, <3>1, <3>2
    <2>5. CASE i > n + 1 /\ i <= Len(old) + 1
      <3>1. PICK j \in 1..Len(old) : j = i - 1
        BY <1>1, <2>1, <2>5
      <3>2. moved[i] = left[j] /\ put[i] = old[j]
        BY <1>1, <1>4, <1>5, <2>1, <2>5, <3>1
      <3>3. left[j] = old[j]
        BY <1>1, <1>3, <3>1
      <3> QED
        BY <1>6, <2>1, <2>5, <3>2, <3>3
    <2>6. CASE i > Len(old) + 1
      <3>1. PICK j \in 1..(Len(old) + Len(rest)) : j = i - 1 /\ j > Len(old)
        BY <1>1, <2>1, <2>6
      <3>2. moved[i] = left[j]
        BY <1>1, <1>4, <2>1, <2>6, <3>1
      <3>3. left[j] = rest[j - Len(old)] /\ j - Len(old) = i - (Len(old) + 1)
        BY <1>1, <1>3, <2>1, <3>1
      <3> QED
        BY <1>1, <1>6, <2>1, <2>6, <3>2, <3>3
    <2>7. i \in Nat /\ Len(old) \in Nat
      BY <1>1, <2>1
    <2>8. i <= n \/ i = n + 1 \/ (i > n + 1 /\ i <= Len(old) + 1) \/ i > Len(old) + 1
      BY ONLY <2>2, <2>7
    <2> QED
      BY <2>3, <2>4, <2>5, <2>6, <2>8
  <1>8. moved = put \o rest
    <2>1. Len(moved) = Len(put \o rest)
      BY <1>1, <1>4, <1>6
    <2> QED
      BY <1>4, <1>6, <1>7, <2>1, SeqEqual
  <1> QED
    BY <1>8 DEF left, moved, put

\* Two rows that are put next to each other are one run.
LEMMA TwoInserted ==
  ASSUME NEW old \in Seq(Val), NEW a \in Val, NEW b \in Val,
         NEW m \in 0..Len(old), NEW n \in {m, m + 1}
  PROVE  InsertRows(InsertRows(old, m, <<a>>), n, <<b>>)
         = InsertRows(old, m, IF n = m THEN <<b, a>> ELSE <<a, b>>)
  <1> DEFINE mid == InsertRows(old, m, <<a>>)
             fin == InsertRows(mid, n, <<b>>)
             two == IF n = m THEN <<b, a>> ELSE <<a, b>>
             put == InsertRows(old, m, two)
  <1>1. Len(old) \in Nat
    BY LenProperties
  <1>2. two \in Seq(Val) /\ Len(two) = 2
        /\ two[1] = (IF n = m THEN b ELSE a) /\ two[2] = (IF n = m THEN a ELSE b)
    OBVIOUS
  <1> HIDE DEF two
  <1>3. /\ mid \in Seq(Val) /\ Len(mid) = Len(old) + 1
        /\ \A i \in 1..(Len(old) + 1) :
             mid[i] = IF i <= m THEN old[i] ELSE IF i <= m + 1 THEN a ELSE old[i - 1]
    BY OneInserted
  <1> HIDE DEF mid
  <1>4. /\ fin \in Seq(Val) /\ Len(fin) = Len(old) + 2
        /\ \A i \in 1..(Len(old) + 2) :
             fin[i] = IF i <= n THEN mid[i] ELSE IF i <= n + 1 THEN b ELSE mid[i - 1]
    <2>1. mid \in Seq(Val) /\ n \in 0..Len(mid) /\ Len(mid) + 1 = Len(old) + 2
      BY <1>1, <1>3
    <2> QED
      BY <2>1, OneInserted
  <1>5. /\ put \in Seq(Val) /\ Len(put) = Len(old) + 2
        /\ \A i \in 1..(Len(old) + 2) :
             put[i] = IF i <= m THEN old[i] ELSE IF i <= m + 2 THEN two[i - m] ELSE old[i - 2]
    <2>1. old \in Seq(Val) /\ two \in Seq(Val) /\ m \in 0..Len(old)
      BY <1>2
    <2>2. /\ put \in Seq(Val) /\ Len(put) = Len(old) + Len(two)
          /\ \A i \in 1..(Len(old) + Len(two)) :
               put[i] = IF i <= m THEN old[i]
                        ELSE IF i <= m + Len(two) THEN two[i - m] ELSE old[i - Len(two)]
      BY ONLY <2>1, InsertedRows
    <2> HIDE DEF put
    <2> QED
      BY <1>2, <2>2
  <1> HIDE DEF fin, put
  <1>6. ASSUME NEW i \in 1..(Len(old) + 2)
        PROVE  fin[i] = put[i]
    <2>1. m \in Nat /\ n \in Nat /\ i \in Nat
      BY <1>1
    <2>2. CASE i <= m
      BY <1>1, <1>3, <1>4, <1>5, <2>1, <2>2
    <2>3. CASE i = m + 1
      BY <1>1, <1>2, <1>3, <1>4, <1>5, <2>1, <2>3
    <2>4. CASE i = m + 2
      <3>1. mid[m + 1] = a
        BY <1>1, <1>3, <2>1
      <3>2. fin[i] = IF n = m THEN mid[m + 1] ELSE b
        BY <1>1, <1>4, <2>1, <2>4
      <3>3. put[i] = two[2]
        BY <1>1, <1>5, <2>1, <2>4
      <3> QED
        BY <1>2, <3>1, <3>2, <3>3
    <2>5. CASE i > m + 2
      <3>1. PICK j \in 1..(Len(old) + 1) : j = i - 1
        BY <1>1, <2>1, <2>5
      <3>2. fin[i] = mid[j]
        BY <1>1, <1>4, <2>1, <2>5, <3>1
      <3>3. mid[j] = old[j - 1] /\ j - 1 = i - 2
        BY <1>1, <1>3, <2>1, <2>5, <3>1
      <3> QED
        BY <1>1, <1>5, <2>1, <2>5, <3>2, <3>3
    <2> QED
      BY <1>1, <2>1, <2>2, <2>3, <2>4, <2>5
  <1>7. fin = put
    BY <1>1, <1>4, <1>5, <1>6, SeqEqual
  <1> QED
    BY <1>7 DEF fin, put, mid, two

\* The recursion ends after one row or two.
NoRun(all) == [rows |-> all, first |-> -1, last |-> -1, sigs |-> <<>>]
Ended(so) ==
  [rows |-> so.rows,
   sigs |-> IF so.first < 0 THEN so.sigs
            ELSE Append(so.sigs, InsertSignal(so.rows, so.first, so.last - so.first + 1))]

LEMMA SortEnds ==
  ASSUME NEW all, NEW start \in Nat, NEW end \in {start + 1, start + 2}
  PROVE  LET one == SortStep(NoRun(all), start)
             two == SortStep(one, start + 1)
         IN SortModelInserted(all, start, end) = Ended(IF end = start + 1 THEN one ELSE two)
  <1> DEFINE one  == SortStep(NoRun(all), start)
             two  == SortStep(one, start + 1)
             F(f) == [i \in start..end |-> IF i = start THEN NoRun(all) ELSE SortStep(f[i - 1], i - 1)]
             so   == CHOOSE f : f = F(f)
             g    == [i \in start..end |-> IF i = start THEN NoRun(all)
                                           ELSE IF i = start + 1 THEN one ELSE two]
  <1>1. g = F(g)
    <2> SUFFICES ASSUME NEW i \in start..end
                 PROVE  g[i] = IF i = start THEN NoRun(all) ELSE SortStep(g[i - 1], i - 1)
      OBVIOUS
    <2> HIDE DEF one, two
    <2>1. CASE i = start
      BY <2>1
    <2>2. CASE i = start + 1
      <3>1. g[i] = one /\ i - 1 = start /\ start \in start..end /\ i # start
        BY <2>2
      <3>2. g[start] = NoRun(all)
        BY <3>1
      <3> QED
        BY <3>1, <3>2 DEF one
    <2>3. CASE i = start + 2
      <3>1. g[i] = two /\ i - 1 = start + 1 /\ start + 1 \in start..end /\ i # start
        BY <2>3
      <3>2. g[start + 1] = one
        BY <3>1
      <3> QED
        BY <3>1, <3>2 DEF two
    <2>4. i = start \/ i = start + 1 \/ i = start + 2
      OBVIOUS
    <2> QED
      BY <2>1, <2>2, <2>3, <2>4
  <1>2. so = F(so)
    <2> HIDE DEF g, F
    <2> QED
      BY <1>1
  <1>3. so[start] = NoRun(all)
    <2>1. start \in start..end
      OBVIOUS
    <2> HIDE DEF so
    <2> QED
      BY <1>2, <2>1
  <1>4. so[start + 1] = one
    <2>1. start + 1 \in start..end /\ start + 1 # start /\ start + 1 - 1 = start
      OBVIOUS
    <2> HIDE DEF so
    <2>2. so[start + 1] = SortStep(so[start], start)
      BY <1>2, <2>1
    <2> QED
      BY <1>3, <2>2
  <1>5. end = start + 2 => so[start + 2] = two
    <2> SUFFICES ASSUME end = start + 2
                 PROVE  so[start + 2] = two
      OBVIOUS
    <2>1. start + 2 \in start..end /\ start + 2 # start /\ start + 2 - 1 = start + 1
      OBVIOUS
    <2> HIDE DEF so
    <2>2. so[start + 2] = SortStep(so[start + 1], start + 1)
      BY <1>2, <2>1
    <2> HIDE DEF one
    <2> QED
      BY <1>4, <2>2
  <1>6. SortModelInserted(all, start, end) = Ended(so[end])
    BY DEF SortModelInserted, Ended, NoRun
  <1>7. so[end] = IF end = start + 1 THEN one ELSE two
    <2> HIDE DEF so, one, two
    <2> QED
      BY <1>4, <1>5
  <1> HIDE DEF so, one, two
  <1>8. SortModelInserted(all, start, end) = Ended(IF end = start + 1 THEN one ELSE two)
    BY <1>6, <1>7
  <1> QED
    BY <1>8 DEF one, two

LEMMA NewRowsAre ==
  ASSUME NEW new \in NewRows(2)
  PROVE  \/ \E a \in Val : new = <<a>>
         \/ \E a, b \in Val : new = <<a, b>> /\ (Sorted(new) => a <= b)
  <1>1. PICK n \in 1..2 : new \in [1..n -> Val]
    BY DEF NewRows
  <1>2. CASE n = 1
    <2>1. new[1] \in Val /\ new = <<new[1]>>
      BY <1>1, <1>2
    <2> QED
      BY <2>1
  <1>3. CASE n = 2
    <2>1. new[1] \in Val /\ new[2] \in Val /\ new = <<new[1], new[2]>>
      BY <1>1, <1>3
    <2>2. Sorted(new) => new[1] <= new[2]
      <3>1. Len(new) - 1 = 1 /\ 1 \in 1..1 /\ 1 + 1 = 2
        BY <2>1
      <3> QED
        BY <3>1 DEF Sorted
    <2> QED
      BY <2>1, <2>2
  <1> QED
    BY <1>2, <1>3

LEMMA SortMoves ==
  ASSUME NEW old \in Seq(Val), NEW a \in Val, NEW rest \in Seq(Val)
  PROVE  LET i   == Len(old)
             all == (old \o <<a>>) \o rest
             n   == Place(all, i)
         IN /\ n \in 0..i
            /\ InsertRows(RemoveRows(all, i, 1), n, <<all[i + 1]>>)
               = InsertRows(old, n, <<a>>) \o rest
            /\ \A j \in 0..i : j < n => j # i /\ ~(a < old[j + 1])
            /\ n = i \/ a < old[n + 1]
  <1> DEFINE i   == Len(old)
             all == (old \o <<a>>) \o rest
             n   == Place(all, i)
  <1>1. i \in Nat /\ Len(rest) \in Nat /\ 0 \in 0..i
    BY LenProperties
  <1>2. /\ all \in Seq(Val) /\ Len(all) = i + 1 + Len(rest) /\ all[i + 1] = a
        /\ \A j \in 1..i : all[j] = old[j]
    BY RowBetween
  <1>3. i < Len(all)
    <2> HIDE DEF i, all
    <2> QED
      BY <1>1, <1>2
  <1>4. /\ n \in 0..i
        /\ \A j \in 0..i : j < n => j # i /\ ~(all[i + 1] < all[j + 1])
        /\ n = i \/ all[i + 1] < all[n + 1]
    <2> HIDE DEF i, all
    <2> QED
      BY <1>1, <1>2, <1>3, Placed
  <1>5. InsertRows(RemoveRows(all, i, 1), n, <<a>>) = InsertRows(old, n, <<a>>) \o rest
    <2>1. PICK k \in 0..Len(old) : k = n
      BY <1>4
    <2>2. InsertRows(RemoveRows(all, i, 1), k, <<a>>) = InsertRows(old, k, <<a>>) \o rest
      <3>1. all = (old \o <<a>>) \o rest
        OBVIOUS
      <3> HIDE DEF all
      <3> QED
        BY <3>1, SortedIn
    <2> HIDE DEF i, all, n
    <2> QED
      BY <2>1, <2>2
  <1> HIDE DEF i, all, n
  <1>6. ASSUME NEW j \in 0..i, j < n
        PROVE  j # i /\ ~(a < old[j + 1])
    <2>1. PICK k \in 1..i : k = j + 1
      BY <1>1, <1>4, <1>6
    <2> QED
      BY <1>2, <1>4, <1>6, <2>1
  <1>7. n = i \/ a < old[n + 1]
    <2>1. SUFFICES ASSUME n # i
                   PROVE  a < old[n + 1]
      OBVIOUS
    <2>2. PICK k \in 1..i : k = n + 1
      BY <1>1, <1>4, <2>1
    <2> QED
      BY <1>2, <1>4, <2>1, <2>2
  <1> QED
    BY <1>2, <1>4, <1>5, <1>6, <1>7 DEF all, n, i

LEMMA FirstStep ==
  ASSUME NEW all, NEW i, NEW n, n = Place(all, i),
         NEW moved, moved = InsertRows(RemoveRows(all, i, 1), n, <<all[i + 1]>>)
  PROVE  SortStep(NoRun(all), i) = [rows |-> moved, first |-> n, last |-> n, sigs |-> <<>>]
  <1> DEFINE so == NoRun(all)
  <1>1. so.rows = all /\ so.first < 0
    BY DEF NoRun
  <1>2. SortStep(so, i) = [so EXCEPT !.rows = moved, !.first = n, !.last = n]
    <2> HIDE DEF so
    <2> QED
      BY <1>1 DEF SortStep
  <1> QED
    BY <1>2 DEF NoRun

LEMMA SecondStep ==
  ASSUME NEW all, NEW i, NEW first \in Nat, NEW sigs, NEW n, n = Place(all, i),
         NEW moved, moved = InsertRows(RemoveRows(all, i, 1), n, <<all[i + 1]>>)
  PROVE  SortStep([rows |-> all, first |-> first, last |-> first, sigs |-> sigs], i)
         = IF n \in first..(first + 1)
           THEN [rows |-> moved, first |-> first, last |-> first + 1, sigs |-> sigs]
           ELSE [rows |-> moved, first |-> n, last |-> n,
                 sigs |-> Append(sigs, InsertSignal(moved, first, first - first + 1))]
  <1> DEFINE so == [rows |-> all, first |-> first, last |-> first, sigs |-> sigs]
  <1>1. so.rows = all /\ so.first = first /\ so.last = first /\ so.sigs = sigs /\ ~(first < 0)
    OBVIOUS
  <1>2. SortStep(so, i)
        = IF n \in first..(first + 1) THEN [so EXCEPT !.rows = moved, !.last = @ + 1]
          ELSE [rows |-> moved, first |-> n, last |-> n,
                sigs |-> Append(sigs, InsertSignal(moved, first, first - first + 1))]
    <2> HIDE DEF so
    <2> QED
      BY <1>1 DEF SortStep
  <1>3. [so EXCEPT !.rows = moved, !.last = @ + 1]
        = [rows |-> moved, first |-> first, last |-> first + 1, sigs |-> sigs]
    <2>1. PICK r : r = [so EXCEPT !.rows = moved]
      OBVIOUS
    <2>2. r = [rows |-> moved, first |-> first, last |-> first, sigs |-> sigs]
      BY <2>1
    <2>3. [r EXCEPT !.last = first + 1]
          = [rows |-> moved, first |-> first, last |-> first + 1, sigs |-> sigs]
      BY <2>2
    <2>4. [so EXCEPT !.rows = moved, !.last = @ + 1] = [r EXCEPT !.last = first + 1]
      <3> HIDE DEF so
      <3> QED
        BY <1>1, <2>1
    <2> QED
      BY <2>3, <2>4
  <1> QED
    BY <1>2, <1>3

LEMMA PairIsConcat ==
  ASSUME NEW S, NEW a \in S, NEW b \in S
  PROVE  <<a>> \o <<b>> = <<a, b>>
  <1>1. PICK x : x = <<a, b>>
    OBVIOUS
  <1>2. x \in Seq(S) /\ Len(x) = 2 /\ x[1] = a /\ x[2] = b
    BY <1>1
  <1>3. PICK y : y = <<a>> \o <<b>>
    OBVIOUS
  <1>4. /\ <<a>> \in Seq(S) /\ Len(<<a>>) = 1 /\ <<a>>[1] = a
        /\ <<b>> \in Seq(S) /\ Len(<<b>>) = 1 /\ <<b>>[1] = b
    OBVIOUS
  <1>5. /\ y \in Seq(S) /\ Len(y) = 2
        /\ \A i \in 1..2 : y[i] = IF i <= 1 THEN <<a>>[i] ELSE <<b>>[i - 1]
    <2>1. /\ y \in Seq(S) /\ Len(y) = Len(<<a>>) + Len(<<b>>)
          /\ \A i \in 1..(Len(<<a>>) + Len(<<b>>)) :
               y[i] = IF i <= Len(<<a>>) THEN <<a>>[i] ELSE <<b>>[i - Len(<<a>>)]
      BY <1>3, <1>4, ConcatProperties
    <2> QED
      BY <1>4, <2>1
  <1>6. \A i \in 1..Len(x) : x[i] = y[i]
    BY <1>2, <1>4, <1>5
  <1> QED
    BY <1>1, <1>2, <1>3, <1>5, <1>6, SeqEqual

LEMMA PairIsAppended ==
  ASSUME NEW S, NEW s \in S, NEW t \in S, NEW e, e = <<>>
  PROVE  Append(Append(e, s), t) = <<s, t>>
  <1>1. e \in Seq(S) /\ Len(e) = 0
    BY EmptySeq
  <1>2. PICK u : u = Append(e, s)
    OBVIOUS
  <1>3. u \in Seq(S) /\ Len(u) = 1 /\ u[1] = s
    BY <1>1, <1>2, AppendProperties
  <1>4. PICK v : v = Append(u, t)
    OBVIOUS
  <1>5. v \in Seq(S) /\ Len(v) = 2 /\ v[1] = s /\ v[2] = t
    <2>1. /\ Append(u, t) \in Seq(S)
          /\ Len(Append(u, t)) = Len(u) + 1
          /\ \A i \in 1..Len(u) : Append(u, t)[i] = u[i]
          /\ Append(u, t)[Len(u) + 1] = t
      <3>1. u \in Seq(S)
        BY <1>3
      <3> QED
        BY ONLY <3>1, t \in S, AppendProperties
    <2>2. 1 \in 1..Len(u) /\ Len(u) + 1 = 2
      BY <1>3
    <2>3. /\ v \in Seq(S) /\ Len(v) = Len(u) + 1
          /\ \A i \in 1..Len(u) : v[i] = u[i]
          /\ v[Len(u) + 1] = t
      BY ONLY <1>4, <2>1
    <2> QED
      BY ONLY <1>3, <2>2, <2>3
  <1>6. v = <<s, t>>
    BY <1>5
  <1> QED
    BY <1>2, <1>4, <1>6

LEMMA RowPlaced ==
  ASSUME NEW x \in Seq(Val), NEW a \in Val, NEW n \in 0..Len(x)
  PROVE  InsertRows(x, n, <<a>>)[n + 1] = a
  <1>1. Len(x) \in Nat
    BY LenProperties
  <1>2. PICK i \in 1..(Len(x) + 1) : i = n + 1
    BY <1>1
  <1>3. ~(i <= n) /\ i <= n + 1
    BY <1>2
  <1>4. InsertRows(x, n, <<a>>)[i] = IF i <= n THEN x[i] ELSE IF i <= n + 1 THEN a ELSE x[i - 1]
    BY OneInserted
  <1> QED
    BY <1>2, <1>3, <1>4

LEMMA IsInsert ==
  ASSUME NEW all, NEW start, NEW count
  PROVE  InsertSignal(all, start, count).sig = "modelInsert"
  BY DEF InsertSignal, Signal

LEMMA SortOne ==
  ASSUME batch \in Nat, NEW old \in Seq(Val), NEW a \in Val,
         NEW so, so = SortModelInserted(old \o <<a>>, Len(old), Len(old) + 1)
  PROVE  so.rows \in Seq(Val) /\ Announces(so.sigs, old, so.rows)
  <1>1. Len(old) \in Nat
    BY LenProperties
  <1> DEFINE L   == Len(old)
             all == (old \o <<a>>) \o <<>>
             m   == Place(all, L)
             mid == InsertRows(old, m, <<a>>)
  <1>2. <<a>> \in Seq(Val) /\ Len(<<a>>) = 1 /\ <<a>>[1] = a /\ <<>> \in Seq(Val)
    BY EmptySeq
  <1>3. old \o <<a>> \in Seq(Val) /\ all = old \o <<a>>
    <2>1. old \o <<a>> \in Seq(Val)
      BY <1>2, ConcatProperties
    <2> QED
      BY <2>1, ConcatEmptySeq
  <1>4. m \in 0..L /\ InsertRows(RemoveRows(all, L, 1), m, <<all[L + 1]>>) = mid \o <<>>
    BY <1>1, <1>2, SortMoves
  <1>5. m = Place(all, L)
    OBVIOUS
  <1>6. mid = InsertRows(old, m, <<a>>)
    OBVIOUS
  <1>7. L = Len(old) /\ L \in Nat
    BY <1>1
  <1> HIDE DEF all, m, mid, L
  <1>8. mid \in Seq(Val) /\ Len(mid) = L + 1 /\ mid \o <<>> = mid
    <2>1. mid \in Seq(Val) /\ Len(mid) = Len(old) + Len(<<a>>)
      BY <1>2, <1>4, <1>6, <1>7, InsertedLen
    <2> QED
      BY <1>2, <1>7, <2>1, ConcatEmptySeq
  <1>9. SortStep(NoRun(all), L) = [rows |-> mid, first |-> m, last |-> m, sigs |-> <<>>]
    BY <1>4, <1>5, <1>8, FirstStep
  <1>10. so = Ended(SortStep(NoRun(all), L))
    <2>1. so = SortModelInserted(all, L, L + 1)
      BY <1>3, <1>7
    <2> QED
      BY <1>7, <2>1, SortEnds
  <1>11. so = [rows |-> mid, sigs |-> Append(<<>>, InsertSignal(mid, m, m - m + 1))]
    <2>1. ~(m < 0)
      BY <1>4
    <2> QED
      BY <1>9, <1>10, <2>1 DEF Ended
  <1>12. /\ InsertSignal(mid, m, m - m + 1) \in Signals
         /\ Says(InsertSignal(mid, m, m - m + 1), old, mid)
    <2>1. m - m + 1 = Len(<<a>>) /\ Len(<<a>>) > 0 /\ m + Len(<<a>>) <= Len(mid)
      BY <1>2, <1>4, <1>7, <1>8
    <2>2. mid[m + 1] = a
      BY <1>4, <1>6, <1>7, RowPlaced
    <2>3. \A i \in 1..Len(<<a>>) : mid[m + i] = <<a>>[i]
      BY <1>2, <2>2
    <2> QED
      BY <1>2, <1>4, <1>6, <1>7, <1>8, <2>1, <2>3, InsertSays
  <1>13. so.rows = mid /\ so.sigs = <<InsertSignal(mid, m, m - m + 1)>>
    BY <1>11
  <1> QED
    BY <1>8, <1>12, <1>13, IsInsert DEF Announces, News

\* The first of two rows is followed by the second one, before it is moved too.
LEMMA SortTwo ==
  ASSUME batch \in Nat, NEW old \in Seq(Val), NEW a \in Val, NEW b \in Val,
         InOrder => a <= b,
         NEW so, so = SortModelInserted(old \o <<a, b>>, Len(old), Len(old) + 2)
  PROVE  so.rows \in Seq(Val) /\ Announces(so.sigs, old, so.rows)
  <1> DEFINE L    == Len(old)
             all  == (old \o <<a>>) \o <<b>>
             m    == Place(all, L)
             mid  == InsertRows(old, m, <<a>>)
             all2 == (mid \o <<b>>) \o <<>>
             K    == Len(mid)
             n    == Place(all2, K)
             fin  == InsertRows(mid, n, <<b>>)
  <1>1. L = Len(old) /\ L \in Nat
    BY LenProperties
  <1>2. /\ <<a>> \in Seq(Val) /\ Len(<<a>>) = 1 /\ <<a>>[1] = a
        /\ <<b>> \in Seq(Val) /\ Len(<<b>>) = 1 /\ <<b>>[1] = b
        /\ <<>> \in Seq(Val)
    BY EmptySeq
  <1>3. all = old \o <<a, b>>
    <2>1. <<a>> \o <<b>> = <<a, b>>
      BY PairIsConcat
    <2>2. old \in Seq(Val) /\ <<a>> \in Seq(Val) /\ <<b>> \in Seq(Val)
      BY <1>2
    <2>3. (old \o <<a>>) \o <<b>> = old \o (<<a>> \o <<b>>)
      BY ONLY <2>2, ConcatAssociative
    <2> QED
      BY <2>1, <2>3
  <1>4. /\ m \in 0..L
        /\ InsertRows(RemoveRows(all, L, 1), m, <<all[L + 1]>>) = mid \o <<b>>
        /\ \A j \in 0..L : j < m => j # L /\ ~(a < old[j + 1])
    <2>1. old \in Seq(Val) /\ a \in Val /\ <<b>> \in Seq(Val)
      BY <1>2
    <2>2. LET i   == Len(old)
              rows2 == (old \o <<a>>) \o <<b>>
              to  == Place(rows2, i)
          IN /\ to \in 0..i
             /\ InsertRows(RemoveRows(rows2, i, 1), to, <<rows2[i + 1]>>)
                = InsertRows(old, to, <<a>>) \o <<b>>
             /\ \A j \in 0..i : j < to => j # i /\ ~(a < old[j + 1])
             /\ to = i \/ a < old[to + 1]
      BY ONLY <2>1, SortMoves
    <2> QED
      BY <2>2
  <1>5. m = Place(all, L) /\ mid = InsertRows(old, m, <<a>>)
    OBVIOUS
  <1> HIDE DEF L, all, m, mid
  <1>6. mid \in Seq(Val) /\ Len(mid) = L + 1
    BY <1>1, <1>4, <1>5, OneInserted
  <1>7. /\ n \in 0..K
        /\ InsertRows(RemoveRows(all2, K, 1), n, <<all2[K + 1]>>) = fin \o <<>>
        /\ n = K \/ b < mid[n + 1]
    <2>1. mid \in Seq(Val) /\ b \in Val /\ <<>> \in Seq(Val)
      BY <1>2, <1>6
    <2>2. LET i   == Len(mid)
              rows2 == (mid \o <<b>>) \o <<>>
              to  == Place(rows2, i)
          IN /\ to \in 0..i
             /\ InsertRows(RemoveRows(rows2, i, 1), to, <<rows2[i + 1]>>)
                = InsertRows(mid, to, <<b>>) \o <<>>
             /\ \A j \in 0..i : j < to => j # i /\ ~(b < mid[j + 1])
             /\ to = i \/ b < mid[to + 1]
      BY ONLY <2>1, SortMoves
    <2> QED
      BY <2>2
  <1>8. n = Place(all2, K) /\ fin = InsertRows(mid, n, <<b>>) /\ K = L + 1
    BY <1>6
  <1>9. mid \o <<b>> \in Seq(Val) /\ all2 = mid \o <<b>>
    <2>1. mid \o <<b>> \in Seq(Val)
      BY <1>2, <1>6, ConcatProperties
    <2> QED
      BY <2>1, ConcatEmptySeq
  <1> HIDE DEF all2, K, n, fin
  <1>10. fin \in Seq(Val) /\ Len(fin) = L + 2 /\ fin \o <<>> = fin
    <2>1. n \in 0..Len(mid)
      BY <1>6, <1>7, <1>8
    <2>2. fin \in Seq(Val) /\ Len(fin) = Len(mid) + 1
      BY <1>6, <1>8, <2>1, OneInserted
    <2> QED
      BY <1>1, <1>6, <2>2, ConcatEmptySeq
  <1>11. SortStep(NoRun(all), L) = [rows |-> all2, first |-> m, last |-> m, sigs |-> <<>>]
    <2>1. m = Place(all, L) /\ all2 = InsertRows(RemoveRows(all, L, 1), m, <<all[L + 1]>>)
      BY <1>4, <1>5, <1>9
    <2> QED
      BY ONLY <2>1, FirstStep
  <1>12. SortStep([rows |-> all2, first |-> m, last |-> m, sigs |-> <<>>], K)
         = IF n \in m..(m + 1)
           THEN [rows |-> fin, first |-> m, last |-> m + 1, sigs |-> <<>>]
           ELSE [rows |-> fin, first |-> n, last |-> n,
                 sigs |-> Append(<<>>, InsertSignal(fin, m, m - m + 1))]
    <2>1. m \in Nat /\ n = Place(all2, K)
          /\ fin = InsertRows(RemoveRows(all2, K, 1), n, <<all2[K + 1]>>)
      BY <1>1, <1>4, <1>7, <1>8, <1>10
    <2> DEFINE sigs == <<>>
    <2> HIDE DEF sigs
    <2>2. SortStep([rows |-> all2, first |-> m, last |-> m, sigs |-> sigs], K)
         = IF n \in m..(m + 1)
           THEN [rows |-> fin, first |-> m, last |-> m + 1, sigs |-> sigs]
           ELSE [rows |-> fin, first |-> n, last |-> n,
                 sigs |-> Append(sigs, InsertSignal(fin, m, m - m + 1))]
      BY ONLY <2>1, SecondStep
    <2> QED
      BY <2>2 DEF sigs
  <1>13. so = Ended(SortStep(SortStep(NoRun(all), L), K))
    <2>1. so = SortModelInserted(all, L, L + 2)
      BY <1>1, <1>3
    <2>2. L + 2 \in {L + 1, L + 2} /\ L + 2 # L + 1
      BY <1>1
    <2> QED
      BY <1>1, <1>8, <2>1, <2>2, SortEnds
  <1>14. fin[n + 1] = b /\ mid[m + 1] = a
    <2>1. n \in 0..Len(mid) /\ m \in 0..Len(old)
      BY <1>1, <1>4, <1>6, <1>7, <1>8
    <2> QED
      BY <1>5, <1>6, <1>8, <2>1, RowPlaced
  <1>15. CASE n \in m..(m + 1)
    <2> DEFINE s   == InsertSignal(fin, m, m + 1 - m + 1)
               two == IF n = m THEN <<b, a>> ELSE <<a, b>>
    <2>1. so.rows = fin /\ so.sigs = <<s>>
      <3>1. so = Ended([rows |-> fin, first |-> m, last |-> m + 1, sigs |-> <<>>])
        BY <1>11, <1>12, <1>13, <1>15
      <3>2. ~(m < 0)
        BY <1>4
      <3>3. PICK r : r = [rows |-> fin, first |-> m, last |-> m + 1, sigs |-> <<>>]
        OBVIOUS
      <3>4. r.rows = fin /\ r.first = m /\ r.last = m + 1 /\ r.sigs = <<>>
        BY <3>3
      <3> HIDE DEF s
      <3>5. so = [rows |-> fin, sigs |-> Append(<<>>, InsertSignal(fin, m, m + 1 - m + 1))]
        <4>1. so = Ended(r) /\ ~(r.first < 0)
          BY <3>1, <3>2, <3>3, <3>4
        <4>2. Ended(r) = [rows |-> r.rows,
                          sigs |-> Append(r.sigs, InsertSignal(r.rows, r.first, r.last - r.first + 1))]
          BY <4>1 DEF Ended
        <4>3. PICK e : e = <<>>
          OBVIOUS
        <4>4. r.sigs = e /\ r.rows = fin /\ r.first = m /\ r.last = m + 1
          BY <3>4, <4>3
        <4>5. Ended(r) = [rows |-> fin, sigs |-> Append(e, InsertSignal(fin, m, m + 1 - m + 1))]
          <5>1. r.last - r.first + 1 = m + 1 - m + 1
            <6>1. m \in Nat
              BY <1>1, <1>4
            <6> QED
              BY <4>4, <6>1
          <5>2. Ended(r) = [rows |-> r.rows,
                            sigs |-> Append(r.sigs, InsertSignal(r.rows, r.first, m + 1 - m + 1))]
            BY ONLY <4>2, <5>1
          <5> QED
            BY ONLY <4>4, <5>2
        <4> QED
          BY ONLY <4>1, <4>3, <4>5
      <3> QED
        BY <3>5 DEF s
    <2>2. m \in 0..Len(old) /\ n \in {m, m + 1} /\ m \in Nat
      BY <1>1, <1>4, <1>15
    <2>3. two \in Seq(Val) /\ Len(two) = 2
      OBVIOUS
    <2>4. fin = InsertRows(old, m, two)
      <3> HIDE DEF two, s
      <3>1. InsertRows(InsertRows(old, m, <<a>>), n, <<b>>)
            = InsertRows(old, m, IF n = m THEN <<b, a>> ELSE <<a, b>>)
        BY <2>2, TwoInserted
      <3> QED
        BY <1>5, <1>8, <3>1 DEF two
    <2> HIDE DEF two
    <2>5. \A i \in 1..Len(two) : fin[m + i] = two[i]
      <3>1. \A i \in 1..(Len(old) + Len(two)) :
              fin[i] = IF i <= m THEN old[i]
                       ELSE IF i <= m + Len(two) THEN two[i - m] ELSE old[i - Len(two)]
        <4>1. old \in Seq(Val) /\ two \in Seq(Val) /\ m \in 0..Len(old)
          BY <2>2, <2>3
        <4> QED
          BY ONLY <2>4, <4>1, InsertedRows
      <3>2. ASSUME NEW i \in 1..Len(two)
            PROVE  fin[m + i] = two[i]
        <4>1. PICK k \in 1..(Len(old) + Len(two)) : k = m + i
          BY <1>1, <2>2, <2>3
        <4>2. k - m = i /\ ~(k <= m) /\ k <= m + Len(two)
          BY <1>1, <2>2, <2>3, <4>1
        <4> QED
          BY <3>1, <4>1, <4>2
      <3> QED
        BY <3>2
    <2>6. m + Len(two) <= Len(fin) /\ Len(two) > 0 /\ m + 1 - m + 1 = Len(two)
      BY <1>1, <1>10, <2>2, <2>3
    <2>7. s \in Signals /\ Says(s, old, fin)
      <3>1. /\ InsertSignal(fin, m, m + 1 - m + 1) \in Signals
            /\ Says(InsertSignal(fin, m, m + 1 - m + 1), old, InsertRows(old, m, two))
        BY <1>10, <2>2, <2>3, <2>5, <2>6, InsertSays
      <3> QED
        BY <2>4, <3>1
    <2>8. s.sig # "modelRowData"
      BY IsInsert
    <2> HIDE DEF s
    <2> QED
      BY <1>10, <2>1, <2>7, <2>8 DEF Announces, News
  <1>16. CASE n \notin m..(m + 1)
    <2> DEFINE s == InsertSignal(fin, m, m - m + 1)
               t == InsertSignal(fin, n, n - n + 1)
    <2>1. so.rows = fin /\ so.sigs = <<s, t>>
      <3>1. so = Ended([rows |-> fin, first |-> n, last |-> n, sigs |-> Append(<<>>, s)])
        BY <1>11, <1>12, <1>13, <1>16
      <3>2. ~(n < 0)
        BY <1>7
      <3> HIDE DEF s
      <3>3. so = [rows |-> fin, sigs |-> Append(Append(<<>>, s), t)]
        BY <3>1, <3>2 DEF Ended
      <3> HIDE DEF t
      <3>4. Append(Append(<<>>, s), t) = <<s, t>>
        <4>1. s \in {s, t} /\ t \in {s, t}
          OBVIOUS
        <4>2. PICK e : e = <<>>
          OBVIOUS
        <4>3. Append(Append(e, s), t) = <<s, t>>
          BY ONLY <4>1, <4>2, PairIsAppended
        <4> QED
          BY ONLY <4>2, <4>3
      <3>5. so.rows = fin /\ so.sigs = Append(Append(<<>>, s), t)
        BY ONLY <3>3
      <3> QED
        BY ONLY <3>4, <3>5
    <2>2. m \in 0..Len(old) /\ n \in 0..Len(mid) /\ m \in Nat /\ n \in Nat
      BY <1>1, <1>4, <1>6, <1>7, <1>8
    <2>3. InOrder => fin[m + 1] = a
      <3> SUFFICES ASSUME InOrder
                   PROVE  fin[m + 1] = a
        OBVIOUS
      <3>1. n > m + 1
        <4>1. SUFFICES ASSUME n < m
                       PROVE  FALSE
          BY <1>16, <2>2
        <4>2. PICK k \in 1..L : k = n + 1 /\ k <= m
          BY <1>1, <1>4, <2>2, <4>1
        <4>3. b < mid[k]
          BY <1>1, <1>4, <1>7, <1>8, <2>2, <4>1, <4>2
        <4>4. mid[k] = old[k]
          <5>1. k \in 1..(Len(old) + 1)
            BY <1>1
          <5> QED
            BY <1>5, <2>2, <4>2, <5>1, OneInserted
        <4>5. ~(a < old[k])
          BY <1>1, <1>4, <2>2, <4>1, <4>2
        <4>6. old[k] \in Int /\ a \in Int /\ b \in Int /\ a <= b
          <5>1. old[k] \in Val
            BY <1>1, ElementOfSeq
          <5> QED
            BY <5>1, ModelAssumption
        <4> QED
          BY ONLY <4>3, <4>4, <4>5, <4>6
      <3>2. \A i \in 1..(Len(mid) + 1) :
              fin[i] = IF i <= n THEN mid[i] ELSE IF i <= n + 1 THEN b ELSE mid[i - 1]
        <4>1. mid \in Seq(Val) /\ b \in Val /\ n \in 0..Len(mid)
          BY <1>6, <2>2
        <4>2. \A i \in 1..(Len(mid) + 1) :
                InsertRows(mid, n, <<b>>)[i]
                = IF i <= n THEN mid[i] ELSE IF i <= n + 1 THEN b ELSE mid[i - 1]
          BY ONLY <4>1, OneInserted
        <4> QED
          BY <1>8, <4>2
      <3>3. m + 1 \in 1..(Len(mid) + 1) /\ m + 1 <= n
        BY <1>1, <1>4, <1>6, <3>1, <2>2
      <3> QED
        BY <1>14, <3>2, <3>3
    <2>4. s \in Signals /\ Says(s, old, mid)
      <3>1. m + Len(<<a>>) <= Len(fin) /\ Len(<<a>>) > 0 /\ m - m + 1 = Len(<<a>>)
        BY <1>1, <1>2, <1>4, <1>10, <2>2
      <3>2. InOrder => \A i \in 1..Len(<<a>>) : fin[m + i] = <<a>>[i]
        BY <1>2, <2>3
      <3>3. /\ InsertSignal(fin, m, m - m + 1) \in Signals
            /\ Says(InsertSignal(fin, m, m - m + 1), old, InsertRows(old, m, <<a>>))
        BY <1>2, <1>10, <2>2, <3>1, <3>2, InsertSays
      <3> QED
        BY <1>5, <3>3
    <2>5. t \in Signals /\ Says(t, mid, fin)
      <3>1. n + Len(<<b>>) <= Len(fin) /\ Len(<<b>>) > 0 /\ n - n + 1 = Len(<<b>>)
        BY <1>1, <1>2, <1>6, <1>10, <2>2
      <3>2. InOrder => \A i \in 1..Len(<<b>>) : fin[n + i] = <<b>>[i]
        BY <1>2, <1>14
      <3>3. /\ InsertSignal(fin, n, n - n + 1) \in Signals
            /\ Says(InsertSignal(fin, n, n - n + 1), mid, InsertRows(mid, n, <<b>>))
        BY <1>2, <1>6, <1>10, <2>2, <3>1, <3>2, InsertSays
      <3> QED
        BY <1>8, <3>3
    <2>6. s.sig # "modelRowData" /\ t.sig # "modelRowData"
      BY IsInsert
    <2> HIDE DEF s, t
    <2> QED
      BY <1>6, <1>10, <2>1, <2>4, <2>5, <2>6 DEF Announces, News
  <1> QED
    BY <1>15, <1>16

LEMMA SortSays ==
  ASSUME batch \in Nat, NEW old \in Seq(Val), NEW new \in NewRows(2), InOrder => Sorted(new)
  PROVE  LET so == SortModelInserted(old \o new, Len(old), Len(old) + Len(new))
         IN so.rows \in Seq(Val) /\ Announces(so.sigs, old, so.rows)
  <1>1. CASE \E a \in Val : new = <<a>>
    <2>1. PICK a \in Val : new = <<a>>
      BY <1>1
    <2> QED
      BY <2>1, SortOne
  <1>2. CASE \E a, b \in Val : new = <<a, b>> /\ (Sorted(new) => a <= b)
    <2>1. PICK a \in Val, b \in Val : new = <<a, b>> /\ (Sorted(new) => a <= b)
      BY <1>2
    <2> QED
      BY <2>1, SortTwo
  <1> QED
    BY <1>1, <1>2, NewRowsAre

-----------------------------------------------------------------------------
\* What the plugin has stays as good while it is not touched.
LEMMA Followed ==
  ASSUME NEW old, Follows(old), UNCHANGED <<rowCount, cache, overtook>>,
         \A k : Awaits(k, signals) => Awaits(k, signals')
  PROVE  Follows(old)'
  BY DEF Follows

\* The history and the signals of both sides get longer together.
LEMMA TracksOneMore ==
  ASSUME Inv, ref' = TRUE, NEW new \in Seq(Val), NEW s \in Signals,
         rows' = new, signals' = Append(signals, s), Says(s, rows, new),
         model' = "synced" => model = "synced", UNCHANGED <<rowCount, cache, overtook>>
  PROVE  \E h \in Seq(Seq(Val)) : Tracks(h)'
  <1>1. PICK h \in Seq(Seq(Val)) : Tracks(h)
    BY DEF Inv
  <1>2. signals \in Seq(Signals)
    BY DEF Inv, TypeOK
  <1> DEFINE hh == Append(h, new)
  <1>3. History(hh, signals', rows') /\ hh[1] = h[1]
    BY <1>1, <1>2, HistoryAppend DEF Tracks, Says
  <1>4. hh \in Seq(Seq(Val))
    BY <1>3 DEF History
  <1>5. \A k : Awaits(k, signals) => Awaits(k, signals')
    BY <1>2, AwaitsAppend
  <1> HIDE DEF hh
  <1>6. model' = "synced" => Follows(hh[1])'
    <2>1. PICK old : old = h[1]
      OBVIOUS
    <2>2. model' = "synced" => Follows(old)'
      <3>1. model = "synced" => Follows(old)
        BY <1>1, <2>1 DEF Tracks
      <3> QED
        BY <1>5, <3>1, Followed
    <2>3. hh[1] = old
      BY <1>3, <2>1
    <2> QED
      BY <2>2, <2>3
  <1>7. Tracks(hh)'
    BY <1>3, <1>6 DEF Tracks
  <1> QED
    BY <1>4, <1>7

LEMMA TracksTwoMore ==
  ASSUME Inv, ref' = TRUE, NEW mid \in Seq(Val), NEW new \in Seq(Val),
         NEW s \in Signals, NEW t \in Signals,
         rows' = new, signals' = Append(Append(signals, s), t),
         Says(s, rows, mid), Says(t, mid, new),
         model' = "synced" => model = "synced", UNCHANGED <<rowCount, cache, overtook>>
  PROVE  \E h \in Seq(Seq(Val)) : Tracks(h)'
  <1>1. PICK h \in Seq(Seq(Val)) : Tracks(h)
    BY DEF Inv
  <1>2. signals \in Seq(Signals) /\ Append(signals, s) \in Seq(Signals)
    <2>1. signals \in Seq(Signals)
      BY DEF Inv, TypeOK
    <2> QED
      BY <2>1, AppendProperties
  <1> DEFINE h1 == Append(h, mid)
             hh == Append(h1, new)
  <1>3. History(h1, Append(signals, s), mid) /\ h1[1] = h[1]
    BY <1>1, <1>2, HistoryAppend DEF Tracks, Says
  <1> HIDE DEF h1
  <1>4. History(hh, signals', rows') /\ hh[1] = h1[1]
    <2>1. PICK sigs \in Seq(Signals) : sigs = Append(signals, s)
      BY <1>2
    <2>2. History(h1, sigs, mid) /\ Fits(t, mid, new) /\ (InOrder => Tells(t, mid, new))
      BY <1>3, <2>1 DEF Says
    <2>3. History(Append(h1, new), Append(sigs, t), new) /\ Append(h1, new)[1] = h1[1]
      BY <2>2, HistoryAppend
    <2> QED
      BY <2>1, <2>3
  <1>5. hh \in Seq(Seq(Val))
    BY <1>4 DEF History
  <1>6. \A k : Awaits(k, signals) => Awaits(k, signals')
    <2>1. \A k : Awaits(k, signals) => Awaits(k, Append(signals, s))
      BY <1>2, AwaitsAppend
    <2>2. \A k : Awaits(k, Append(signals, s)) => Awaits(k, signals')
      BY <1>2, AwaitsAppend
    <2> QED
      BY <2>1, <2>2
  <1> HIDE DEF hh
  <1>7. model' = "synced" => Follows(hh[1])'
    <2>1. PICK old : old = h[1]
      OBVIOUS
    <2>2. model' = "synced" => Follows(old)'
      <3>1. model = "synced" => Follows(old)
        BY <1>1, <2>1 DEF Tracks
      <3> QED
        BY <1>6, <3>1, Followed
    <2>3. hh[1] = old
      BY <1>3, <1>4, <2>1
    <2> QED
      BY <2>2, <2>3
  <1>8. Tracks(hh)'
    BY <1>4, <1>7 DEF Tracks
  <1> QED
    BY <1>5, <1>8

\* Nothing is announced to a client without a reference.
LEMMA TracksNothing ==
  ASSUME rows' \in Seq(Val), signals' = <<>>, model' # "synced"
  PROVE  \E h \in Seq(Seq(Val)) : Tracks(h)'
  <1>1. PICK new \in Seq(Val) : new = rows'
    OBVIOUS
  <1>2. PICK h : h = <<new>>
    OBVIOUS
  <1>3. h \in Seq(Seq(Val)) /\ Len(h) = 1 /\ h[1] = new /\ Len(signals') = 0
    BY <1>2
  <1>4. 1..Len(signals') = {}
    BY <1>3
  <1>5. History(h, signals', rows')
    BY <1>1, <1>3, <1>4 DEF History
  <1>6. Tracks(h)'
    BY <1>5 DEF Tracks
  <1> QED
    BY <1>3, <1>6

LEMMA AnnounceStep ==
  ASSUME Inv, NEW new \in Seq(Val), NEW sigs, Announces(sigs, rows, new), Announce(new, sigs)
  PROVE  Inv'
  <1>1. /\ signals \in Seq(Signals) /\ rows' = new /\ ref \in BOOLEAN
        /\ ref' = ref /\ model' = model /\ UNCHANGED <<rowCount, cache, overtook>>
        /\ signals' = IF ref THEN signals \o sigs ELSE signals
    BY DEF Inv, TypeOK, Announce, EmitAll, pluginVars
  <1>2. changes' \in 0..MaxChanges
    BY ModelAssumption DEF Inv, TypeOK, Announce
  <1>3. CASE ~ref
    <2>1. signals' = <<>> /\ model' \in {"unused", "asked"} /\ model' # "synced"
      BY <1>1, <1>3 DEF Inv
    <2>2. \E h \in Seq(Seq(Val)) : Tracks(h)'
      BY <1>1, <2>1, TracksNothing
    <2>3. TypeOK'
      BY <1>1, <1>2, <1>3 DEF Inv, TypeOK, Announce, pluginVars
    <2> QED
      BY <2>1, <2>2, <2>3 DEF Inv
  <1>4. CASE ref
    <2>1. CASE \E s \in Signals : sigs = <<s>> /\ News(s, rows, new)
      <3>1. PICK s \in Signals : sigs = <<s>> /\ Says(s, rows, new)
        BY <2>1 DEF News
      <3>2. signals' = Append(signals, s)
        <4>1. signals' = signals \o <<s>>
          BY <1>1, <1>4, <3>1
        <4> QED
          BY <1>1, <4>1, AppendIsConcat
      <3>3. signals' \in Seq(Signals)
        <4>1. Append(signals, s) \in Seq(Signals)
          BY <1>1, AppendProperties
        <4> QED
          BY <3>2, <4>1
      <3>4. \E h \in Seq(Seq(Val)) : Tracks(h)'
        BY <1>1, <1>4, <3>1, <3>2, TracksOneMore
      <3>5. TypeOK'
        BY <1>1, <1>2, <3>3 DEF Inv, TypeOK, Announce, pluginVars
      <3> QED
        BY <1>1, <1>4, <3>4, <3>5 DEF Inv
    <2>2. CASE \E s, t \in Signals, mid \in Seq(Val) :
                 sigs = <<s, t>> /\ News(s, rows, mid) /\ News(t, mid, new)
      <3>1. PICK s \in Signals, t \in Signals, mid \in Seq(Val) :
              sigs = <<s, t>> /\ Says(s, rows, mid) /\ Says(t, mid, new)
        BY <2>2 DEF News
      <3>2. /\ Append(signals, s) \in Seq(Signals)
            /\ Append(Append(signals, s), t) \in Seq(Signals)
        <4>1. Append(signals, s) \in Seq(Signals)
          BY <1>1, AppendProperties
        <4> QED
          BY <4>1, AppendProperties
      <3>3. signals' = Append(Append(signals, s), t)
        <4>1. signals' = signals \o (<<s>> \o <<t>>)
          <5>1. <<s>> \o <<t>> = <<s, t>>
            BY PairIsConcat
          <5> QED
            BY <1>1, <1>4, <3>1, <5>1
        <4>2. <<s>> \in Seq(Signals) /\ <<t>> \in Seq(Signals)
          OBVIOUS
        <4>3. (signals \o <<s>>) \o <<t>> = signals \o (<<s>> \o <<t>>)
          BY ONLY <1>1, <4>2, ConcatAssociative
        <4>4. Append(signals, s) = signals \o <<s>>
          BY <1>1, AppendIsConcat
        <4>5. Append(Append(signals, s), t) = Append(signals, s) \o <<t>>
          BY <3>2, AppendIsConcat
        <4> QED
          BY <4>1, <4>3, <4>4, <4>5
      <3>4. \E h \in Seq(Seq(Val)) : Tracks(h)'
        BY <1>1, <1>4, <3>1, <3>3, TracksTwoMore
      <3>5. TypeOK'
        BY <1>1, <1>2, <3>2, <3>3 DEF Inv, TypeOK, Announce, pluginVars
      <3> QED
        BY <1>1, <1>4, <3>4, <3>5 DEF Inv
    <2> QED
      BY <2>1, <2>2 DEF Announces
  <1> QED
    BY <1>1, <1>3, <1>4

-----------------------------------------------------------------------------
\* What the application does.
LEMMA OneAnnounces ==
  ASSUME NEW old, NEW new, NEW s \in Signals, Says(s, old, new), s.sig # "modelRowData"
  PROVE  Announces(<<s>>, old, new)
  BY DEF Announces, News

LEMMA ApplicationAnnounces ==
  ASSUME Inv, Application
  PROVE  \E new \in Seq(Val) : \E sigs : Announces(sigs, rows, new) /\ Announce(new, sigs)
  <1>1. rows \in Seq(Val) /\ batch \in Nat /\ Len(rows) \in Nat
    <2>1. rows \in Seq(Val) /\ batch \in Nat
      BY DEF Inv, TypeOK
    <2> QED
      BY <2>1, LenProperties
  <1>2. NewRows(3) \subseteq Seq(Val) /\ \A new \in NewRows(3) : Len(new) \in 1..3
    <2>1. \A new \in NewRows(3) : new \in Seq(Val) /\ Len(new) \in 1..3
      <3>1. SUFFICES ASSUME NEW new \in NewRows(3)
                     PROVE  new \in Seq(Val) /\ Len(new) \in 1..3
        OBVIOUS
      <3>2. PICK n \in 1..3 : new \in [1..n -> Val]
        BY DEF NewRows
      <3> QED
        BY <3>2
    <2> QED
      BY <2>1
  <1>3. CASE AppReset
    <2>1. PICK new \in NewRows(3) \cup {<<>>} : Announce(new, <<ResetSignal(new)>>)
      BY <1>3 DEF AppReset
    <2>2. new \in Seq(Val)
      BY <1>2, EmptySeq
    <2>3. PICK s : s = ResetSignal(new)
      OBVIOUS
    <2>4. s \in Signals /\ Says(s, rows, new)
      BY <1>1, <2>2, <2>3, ResetSays
    <2>5. Announces(<<s>>, rows, new)
      BY <2>3, <2>4, OneAnnounces DEF ResetSignal, Signal
    <2> QED
      BY <2>1, <2>2, <2>3, <2>5
  <1>4. CASE AppInsert
    <2>1. PICK start \in 0..Len(rows), new \in NewRows(3) :
            Announce(InsertRows(rows, start, new),
                     <<InsertSignal(InsertRows(rows, start, new), start, Len(new))>>)
      BY <1>4 DEF AppInsert
    <2>2. PICK old : old = rows
      OBVIOUS
    <2>3. PICK all : all = InsertRows(rows, start, new)
      OBVIOUS
    <2>4. new \in Seq(Val) /\ Len(new) \in Nat /\ Len(new) > 0
      BY <1>2
    <2>5. /\ all \in Seq(Val) /\ Len(all) = Len(rows) + Len(new)
          /\ \A i \in 1..(Len(rows) + Len(new)) :
               all[i] = IF i <= start THEN rows[i]
                        ELSE IF i <= start + Len(new) THEN new[i - start] ELSE rows[i - Len(new)]
      <3>1. rows \in Seq(Val) /\ new \in Seq(Val) /\ start \in 0..Len(rows)
        BY <1>1, <2>4
      <3> QED
        BY ONLY <2>3, <3>1, InsertedRows
    <2>6. \A i \in 1..Len(new) : all[start + i] = new[i]
      <3>1. SUFFICES ASSUME NEW i \in 1..Len(new)
                     PROVE  all[start + i] = new[i]
        OBVIOUS
      <3>2. PICK k \in 1..(Len(rows) + Len(new)) : k = start + i
        BY <1>1, <2>4
      <3>3. k - start = i /\ ~(k <= start) /\ k <= start + Len(new)
        BY <1>1, <2>4, <3>2
      <3> QED
        BY <2>5, <3>2, <3>3
    <2>7. start + Len(new) <= Len(all)
      BY <1>1, <2>4, <2>5
    <2>8. PICK s : s = InsertSignal(all, start, Len(new))
      OBVIOUS
    <2>9. s \in Signals /\ Says(s, rows, all)
      <3>1. old \in Seq(Val) /\ start \in 0..Len(old) /\ all = InsertRows(old, start, new)
        BY <1>1, <2>2, <2>3
      <3>2. /\ InsertSignal(all, start, Len(new)) \in Signals
            /\ Says(InsertSignal(all, start, Len(new)), old, InsertRows(old, start, new))
        BY <1>1, <2>4, <2>5, <2>6, <2>7, <3>1, InsertSays
      <3> QED
        BY <2>2, <2>3, <2>8, <3>2
    <2>10. Announces(<<s>>, rows, all) /\ Announce(all, <<s>>)
      BY <2>1, <2>3, <2>8, <2>9, OneAnnounces, IsInsert
    <2> QED
      BY <2>5, <2>10
  <1>5. CASE AppRemove
    <2>1. PICK start \in 0..(Len(rows) - 1), count \in 1..3 :
            /\ start + count <= Len(rows)
            /\ Announce(RemoveRows(rows, start, count), <<RemoveSignal(start, count)>>)
      BY <1>5 DEF AppRemove
    <2>2. PICK all : all = RemoveRows(rows, start, count)
      OBVIOUS
    <2>3. PICK s : s = RemoveSignal(start, count)
      OBVIOUS
    <2>4. all \in Seq(Val) /\ s \in Signals /\ Says(s, rows, all)
      <3>1. start \in Nat /\ count \in Nat \ {0}
        BY <1>1
      <3> QED
        BY <1>1, <2>1, <2>2, <2>3, <3>1, RemoveSays
    <2>5. Announces(<<s>>, rows, all) /\ Announce(all, <<s>>)
      BY <2>1, <2>2, <2>3, <2>4, OneAnnounces DEF RemoveSignal, Signal
    <2> QED
      BY <2>4, <2>5
  <1>6. CASE AppMove
    <2>1. PICK start \in 0..(Len(rows) - 1), count \in 1..3, destination \in 0..Len(rows) :
            /\ start + count <= Len(rows)
            /\ destination \notin start..(start + count)
            /\ Announce(MoveRows(rows, start, count, destination),
                        <<MoveSignal(start, count, destination)>>)
      BY <1>6 DEF AppMove
    <2>2. PICK all : all = MoveRows(rows, start, count, destination)
      OBVIOUS
    <2>3. PICK s : s = MoveSignal(start, count, destination)
      OBVIOUS
    <2>4. all \in Seq(Val) /\ s \in Signals /\ Says(s, rows, all)
      <3>1. start \in Nat /\ count \in Nat \ {0}
        BY <1>1
      <3> QED
        BY <1>1, <2>1, <2>2, <2>3, <3>1, MoveSays
    <2>5. Announces(<<s>>, rows, all) /\ Announce(all, <<s>>)
      BY <2>1, <2>2, <2>3, <2>4, OneAnnounces DEF MoveSignal, Signal
    <2> QED
      BY <2>4, <2>5
  <1>7. CASE AppUpdate
    <2>1. PICK row \in 0..(Len(rows) - 1), v \in Val :
            Announce(ReplaceAt(rows, row + 1, v),
                     <<UpdateSignal(ReplaceAt(rows, row + 1, v), row)>>)
      BY <1>7 DEF AppUpdate
    <2>2. PICK all : all = ReplaceAt(rows, row + 1, v)
      OBVIOUS
    <2>3. PICK s : s = UpdateSignal(all, row)
      OBVIOUS
    <2>4. all \in Seq(Val) /\ s \in Signals /\ Says(s, rows, all)
      BY <1>1, <2>2, <2>3, UpdateSays
    <2>5. Announces(<<s>>, rows, all) /\ Announce(all, <<s>>)
      BY <2>1, <2>2, <2>3, <2>4, OneAnnounces DEF UpdateSignal, Signal
    <2> QED
      BY <2>4, <2>5
  <1>8. CASE AppSortInserted
    <2>1. PICK new \in NewRows(2) :
            /\ InOrder => Sorted(new)
            /\ LET so == SortModelInserted(rows \o new, Len(rows), Len(rows) + Len(new))
               IN Announce(so.rows, so.sigs)
      BY <1>8 DEF AppSortInserted
    <2>2. PICK so : so = SortModelInserted(rows \o new, Len(rows), Len(rows) + Len(new))
      OBVIOUS
    <2>3. so.rows \in Seq(Val) /\ Announces(so.sigs, rows, so.rows)
      BY <1>1, <2>1, <2>2, SortSays
    <2>4. Announce(so.rows, so.sigs)
      BY <2>1, <2>2
    <2> QED
      BY <2>3, <2>4
  <1> QED
    BY <1>3, <1>4, <1>5, <1>6, <1>7, <1>8 DEF Application

LEMMA ApplicationStep ==
  ASSUME Inv, Application
  PROVE  Inv'
  BY ApplicationAnnounces, AnnounceStep

-----------------------------------------------------------------------------
\* What the backend does with a request.
LEMMA TracksSame ==
  ASSUME Inv, UNCHANGED <<rows, signals, rowCount, cache, overtook>>,
         model' = "synced" => model = "synced"
  PROVE  \E h \in Seq(Seq(Val)) : Tracks(h)'
  <1>1. PICK h \in Seq(Seq(Val)) : Tracks(h)
    BY DEF Inv
  <1>2. PICK old : old = h[1]
    OBVIOUS
  <1>3. History(h, signals', rows')
    BY <1>1 DEF Tracks
  <1>4. model' = "synced" => Follows(old)'
    <2>1. model = "synced" => Follows(old)
      BY <1>1, <1>2 DEF Tracks
    <2> QED
      BY <2>1, Followed
  <1>5. Tracks(h)'
    BY <1>2, <1>3, <1>4 DEF Tracks
  <1> QED
    BY <1>5

LEMMA EmitStep ==
  ASSUME Inv, NEW s \in Signals, Says(s, rows, rows), EmitAll(<<s>>),
         UNCHANGED <<rows, ref, model, rowCount, cache, overtook>>
  PROVE  /\ signals' \in Seq(Signals)
         /\ ref' \/ (signals' = <<>> /\ model' \in {"unused", "asked"})
         /\ \E h \in Seq(Seq(Val)) : Tracks(h)'
  <1>1. signals \in Seq(Signals) /\ ref \in BOOLEAN /\ rows \in Seq(Val)
    BY DEF Inv, TypeOK
  <1>2. CASE ~ref
    <2>1. signals' = signals
      BY <1>2 DEF EmitAll
    <2>2. \E h \in Seq(Seq(Val)) : Tracks(h)'
      BY <2>1, TracksSame
    <2> QED
      BY <1>1, <2>1, <2>2 DEF Inv
  <1>3. CASE ref
    <2>1. signals' = Append(signals, s)
      <3>1. signals' = signals \o <<s>>
        BY <1>3 DEF EmitAll
      <3> QED
        BY <1>1, <3>1, AppendIsConcat
    <2>2. signals' \in Seq(Signals)
      <3>1. Append(signals, s) \in Seq(Signals)
        BY <1>1, AppendProperties
      <3> QED
        BY <2>1, <3>1
    <2>3. PICK new \in Seq(Val) : new = rows
      BY <1>1
    <2>4. \E h \in Seq(Seq(Val)) : Tracks(h)'
      <3>1. ref' = TRUE
        BY <1>1, <1>3
      <3> QED
        BY <2>1, <2>3, <3>1, TracksOneMore
    <2> QED
      BY <1>3, <2>2, <2>4
  <1> QED
    BY <1>1, <1>2, <1>3

LEMMA RequestHandled ==
  ASSUME Inv, NEW do, HandleRequest(do)
  PROVE  /\ Head(requests) \in Requests /\ requests' \in Seq(Requests)
         /\ UNCHANGED <<rows, changes, model, rowCount, cache, fetching, overtook>>
  <1>1. requests \in Seq(Requests) /\ requests # <<>> /\ requests' = Tail(requests)
    BY DEF Inv, TypeOK, HandleRequest
  <1>2. Head(requests) \in Requests /\ Tail(requests) \in Seq(Requests)
    BY <1>1, HeadTailProperties
  <1> QED
    BY <1>1, <1>2 DEF HandleRequest, pluginVars

LEMMA ProcessStep ==
  ASSUME Inv, Process
  PROVE  Inv'
  <1>1. rows \in Seq(Val) /\ batch \in Nat /\ ref \in BOOLEAN /\ signals \in Seq(Signals)
    BY DEF Inv, TypeOK
  <1>2. CASE Describe
    <2>1. /\ requests' \in Seq(Requests)
          /\ UNCHANGED <<rows, changes, model, rowCount, cache, fetching, overtook>>
      BY <1>2, RequestHandled DEF Describe
    <2>2. PICK s : s = Signal("described", 0, 0, 0, <<>>, 0)
      OBVIOUS
    <2>3. s \in Signals /\ Says(s, rows, rows)
      <3>1. s = [sig |-> "described", start |-> 0, end |-> 0, destination |-> 0,
                 data |-> <<>>, more |-> 0]
        BY <2>2 DEF Signal
      <3>2. s \in Signals
        BY <3>1, EmptySeq DEF Signals
      <3>3. s.sig = "described"
        BY <3>1
      <3> QED
        BY <3>2, <3>3 DEF Says, Fits, Tells
    <2>4. ref' = TRUE /\ signals' = Append(signals, s) /\ batch' = batch
      BY <1>2, <2>2 DEF Describe
    <2>5. signals' \in Seq(Signals)
      <3>1. Append(signals, s) \in Seq(Signals)
        BY <1>1, <2>3, AppendProperties
      <3> QED
        BY <2>4, <3>1
    <2>6. \E h \in Seq(Seq(Val)) : Tracks(h)'
      <3>1. PICK new \in Seq(Val) : new = rows
        BY <1>1
      <3> QED
        BY <2>1, <2>3, <2>4, <3>1, TracksOneMore
    <2>7. TypeOK'
      BY <2>1, <2>4, <2>5 DEF Inv, TypeOK
    <2> QED
      BY <2>4, <2>6, <2>7 DEF Inv
  <1>3. CASE SetBatchSize
    <2>1. /\ Head(requests) \in Requests /\ requests' \in Seq(Requests)
          /\ UNCHANGED <<rows, changes, model, rowCount, cache, fetching, overtook>>
      BY <1>3, RequestHandled DEF SetBatchSize
    <2>2. batch' = Higher(Head(requests).count, 0) /\ UNCHANGED <<ref, signals>>
      BY <1>3 DEF SetBatchSize
    <2>3. batch' \in Nat
      BY <2>1, <2>2 DEF Requests, Higher
    <2>4. \E h \in Seq(Seq(Val)) : Tracks(h)'
      BY <2>1, <2>2, TracksSame
    <2>5. TypeOK'
      BY <2>1, <2>2, <2>3 DEF Inv, TypeOK
    <2> QED
      BY <2>1, <2>2, <2>4, <2>5 DEF Inv
  <1>4. CASE Reset
    <2>1. /\ requests' \in Seq(Requests)
          /\ UNCHANGED <<rows, changes, model, rowCount, cache, fetching, overtook>>
      BY <1>4, RequestHandled DEF Reset
    <2>2. PICK s : s = ResetSignal(rows)
      OBVIOUS
    <2>3. s \in Signals /\ Says(s, rows, rows)
      BY <1>1, <2>2, ResetSays
    <2>4. EmitAll(<<s>>) /\ UNCHANGED <<batch, ref>>
      BY <1>4, <2>2 DEF Reset
    <2>5. /\ signals' \in Seq(Signals)
          /\ ref' \/ (signals' = <<>> /\ model' \in {"unused", "asked"})
          /\ \E h \in Seq(Seq(Val)) : Tracks(h)'
      BY <2>1, <2>3, <2>4, EmitStep
    <2>6. TypeOK'
      BY <2>1, <2>4, <2>5 DEF Inv, TypeOK
    <2> QED
      BY <2>5, <2>6 DEF Inv
  <1>5. CASE RequestRows
    <2>1. /\ Head(requests) \in Requests /\ requests' \in Seq(Requests)
          /\ UNCHANGED <<rows, changes, model, rowCount, cache, fetching, overtook>>
      BY <1>5, RequestHandled DEF RequestRows
    <2>2. PICK asked \in Requests : asked = Head(requests)
      BY <2>1
    <2>3. PICK data : data = GetRows(rows, asked.start, asked.count, 0).data
      OBVIOUS
    <2>4. PICK s : s = Signal("modelRowData", asked.start, 0, 0, data, 0)
      OBVIOUS
    <2>5. s \in Signals /\ Says(s, rows, rows)
      <3>1. asked.start \in Nat /\ asked.count \in Int
        BY DEF Requests
      <3>2. /\ data \in Seq(Val)
            /\ \/ data = <<>>
               \/ /\ asked.start + Len(data) <= Len(rows)
                  /\ data = SubSeq(rows, asked.start + 1, asked.start + Len(data))
        <4>1. rows \in Seq(Val) /\ asked.start \in Nat /\ asked.count \in Int /\ 0 \in Nat
          BY <1>1, <3>1
        <4>2. LET got == GetRows(rows, asked.start, asked.count, 0).data
              IN /\ got \in Seq(Val)
                 /\ \/ got = <<>>
                    \/ /\ asked.start + Len(got) <= Len(rows)
                       /\ got = SubSeq(rows, asked.start + 1, asked.start + Len(got))
          BY ONLY <4>1, GotRows
        <4> QED
          BY <2>3, <4>2
      <3>3. s = [sig |-> "modelRowData", start |-> asked.start, end |-> 0, destination |-> 0,
                 data |-> data, more |-> 0]
        BY <2>4 DEF Signal
      <3>4. s \in Signals
        BY <3>1, <3>2, <3>3 DEF Signals
      <3>5. s.sig = "modelRowData" /\ s.start = asked.start /\ s.data = data
        BY <3>3
      <3>6. Fits(s, rows, rows) /\ Tells(s, rows, rows)
        BY <3>2, <3>5 DEF Fits, Tells
      <3> QED
        BY <3>4, <3>6 DEF Says
    <2>6. EmitAll(<<s>>) /\ UNCHANGED <<batch, ref>>
      BY <1>5, <2>2, <2>3, <2>4 DEF RequestRows
    <2>7. /\ signals' \in Seq(Signals)
          /\ ref' \/ (signals' = <<>> /\ model' \in {"unused", "asked"})
          /\ \E h \in Seq(Seq(Val)) : Tracks(h)'
      BY <2>1, <2>5, <2>6, EmitStep
    <2>8. TypeOK'
      BY <2>1, <2>6, <2>7 DEF Inv, TypeOK
    <2> QED
      BY <2>7, <2>8 DEF Inv
  <1> QED
    BY <1>2, <1>3, <1>4, <1>5 DEF Process

-----------------------------------------------------------------------------
\* What the plugin does.
LEMMA CacheTyped ==
  ASSUME TypeOK
  PROVE  Typed(cache)
  BY DEF TypeOK, Typed

\* An answer, or the description, says nothing of the rows: it can be left out.
LEMMA TracksTaken ==
  ASSUME NEW h, NEW sigs \in Seq(Signals), NEW all, History(h, sigs, all),
         NEW i \in 1..Len(sigs), sigs[i].sig \in {"described", "modelRowData"}
  PROVE  History(RemoveAt(h, i), RemoveAt(sigs, i), all) /\ RemoveAt(h, i)[1] = h[1]
  <1>1. h[i] = h[i + 1]
    BY DEF History, Fits
  <1> QED
    BY <1>1, HistoryRemove

LEMMA UseStep ==
  ASSUME Inv, UseModel
  PROVE  Inv'
  <1>1. UNCHANGED <<rows, batch, ref, changes, signals, rowCount, cache, fetching, overtook>>
        /\ model = "unused" /\ model' = "asked"
        /\ requests' = Append(requests, Request("describe", 0, 0))
    BY DEF UseModel, backendVars
  <1>2. requests' \in Seq(Requests)
    <2>1. PICK r : r = Request("describe", 0, 0)
      OBVIOUS
    <2>2. r \in Requests
      BY <2>1 DEF Request, Requests
    <2>3. requests \in Seq(Requests)
      BY DEF Inv, TypeOK
    <2>4. Append(requests, r) \in Seq(Requests)
      BY <2>2, <2>3, AppendProperties
    <2> QED
      BY <1>1, <2>1, <2>4
  <1>3. \E h \in Seq(Seq(Val)) : Tracks(h)'
    BY <1>1, TracksSame
  <1>4. TypeOK'
    BY <1>1, <1>2 DEF Inv, TypeOK
  <1> QED
    BY <1>1, <1>3, <1>4 DEF Inv

LEMMA ConnectStep ==
  ASSUME Inv, Connect
  PROVE  Inv'
  <1>1. /\ UNCHANGED <<rows, batch, ref, changes, rowCount, cache, fetching, overtook>>
        /\ model = "asked" /\ model' = "connected"
    BY DEF Connect, backendVars
  <1>2. signals \in Seq(Signals) /\ requests \in Seq(Requests)
    BY DEF Inv, TypeOK
  <1>3. PICK i \in DOMAIN signals : TakeFirst("described", i)
    BY DEF Connect
  <1>4. i \in 1..Len(signals) /\ signals[i].sig = "described" /\ signals' = RemoveAt(signals, i)
    BY <1>2, <1>3, LenProperties DEF TakeFirst
  <1>5. PICK h \in Seq(Seq(Val)) : History(h, signals, rows)
    BY DEF Inv, Tracks
  <1> DEFINE hh == RemoveAt(h, i)
  <1>6. History(hh, signals', rows')
    BY <1>1, <1>2, <1>4, <1>5, TracksTaken
  <1> HIDE DEF hh
  <1>7. hh \in Seq(Seq(Val)) /\ Tracks(hh)'
    BY <1>1, <1>6 DEF History, Tracks
  <1>8. requests' \in Seq(Requests)
    <2> DEFINE size  == IF BatchSize > 0 THEN <<Request("setBatchSize", 0, BatchSize)>> ELSE <<>>
               reset == <<Request("reset", 0, 0)>>
    <2>1. Request("setBatchSize", 0, BatchSize) \in Requests /\ Request("reset", 0, 0) \in Requests
      BY CacheAssumption DEF Request, Requests
    <2>2. reset \in Seq(Requests)
      BY <2>1
    <2>3. size \in Seq(Requests)
      <3>1. CASE BatchSize > 0
        BY <2>1, <3>1
      <3>2. CASE ~(BatchSize > 0)
        BY <3>2, EmptySeq
      <3> QED
        BY <3>1, <3>2
    <2>4. requests' = requests \o size \o reset
      BY DEF Connect
    <2> HIDE DEF size, reset
    <2>5. requests \o size \in Seq(Requests)
      BY <1>2, <2>3, ConcatProperties
    <2>6. (requests \o size) \o reset \in Seq(Requests)
      BY <2>2, <2>5, ConcatProperties
    <2> QED
      BY <2>4, <2>6
  <1>9. signals' \in Seq(Signals)
    <2>1. RemoveAt(signals, i) \in Seq(Signals)
      BY <1>2, <1>4, RemovedAt
    <2> QED
      BY <1>4, <2>1
  <1>10. TypeOK'
    BY <1>1, <1>8, <1>9 DEF Inv, TypeOK
  <1>11. ref'
    <2>1. signals # <<>>
      BY <1>2, <1>4, EmptySeq
    <2> QED
      BY <1>1, <2>1 DEF Inv
  <1> QED
    BY <1>7, <1>10, <1>11 DEF Inv

\* Rows are only dropped.
LEMMA ReadStep ==
  ASSUME Inv, NEW row, ReadCached(row)
  PROVE  Inv'
  <1>1. /\ UNCHANGED <<rows, batch, ref, changes, requests, signals, model, rowCount, fetching, overtook>>
        /\ cache' = CleanRowCache(cache, row)
    BY DEF ReadCached, backendVars
  <1>2. DOMAIN cache' \subseteq DOMAIN cache /\ \A k \in DOMAIN cache' : cache'[k] = cache[k]
    BY <1>1, CleanKeeps
  <1>3. PICK h \in Seq(Seq(Val)) : Tracks(h)
    BY DEF Inv
  <1>4. PICK old : old = h[1]
    OBVIOUS
  <1>5. model' = "synced" => Follows(old)'
    <2>1. model = "synced" => Follows(old)
      BY <1>3, <1>4 DEF Tracks
    <2> QED
      BY <1>1, <1>2, <2>1 DEF Follows, Awaits
  <1>6. Tracks(h)'
    BY <1>1, <1>3, <1>4, <1>5 DEF Tracks
  <1>7. TypeOK'
    BY <1>1, <1>2 DEF Inv, TypeOK
  <1> QED
    BY <1>1, <1>6, <1>7 DEF Inv

LEMMA WindowTyped ==
  ASSUME NEW known \in SUBSET Nat, NEW n \in Int, NEW row \in Nat
  PROVE  FetchWindow(known, n, row).start \in Nat /\ FetchWindow(known, n, row).end \in Int
  <1> DEFINE before == {k \in known : k < row}
             after  == {k \in known : k > row}
             half   == BatchSize \div 2
  <1>1. PICK gap : gap = Gap(known, n, row)
    OBVIOUS
  <1>2. gap = [start |-> IF before = {} THEN 0 ELSE Greatest(before) + 1,
               end   |-> IF after = {} THEN n - 1 ELSE Least(after) - 1]
    BY <1>1 DEF Gap
  <1>3. before \in SUBSET (0..row) /\ after \in SUBSET Nat
    <2>1. (\A k \in before : k \in 0..row) /\ (\A k \in after : k \in Nat)
      OBVIOUS
    <2> QED
      BY ONLY <2>1
  <1> HIDE DEF before, after
  <1>4. gap.start \in Nat /\ gap.end \in Int
    <2>1. before # {} => Greatest(before) \in 0..row
      BY <1>3, GreatestIsGreatest
    <2>2. after # {} => Least(after) \in Nat
      BY <1>3, LeastIsLeast
    <2> QED
      BY <1>2, <2>1, <2>2
  <1>5. half \in Int /\ BatchSize \in Nat
    BY CacheAssumption
  <1>6. FetchWindow(known, n, row)
        = IF BatchSize = 0 THEN gap
          ELSE IF gap.start > row - half
          THEN [gap EXCEPT !.end = Lower(gap.end, gap.start + BatchSize)]
          ELSE IF gap.end < row + half
          THEN [gap EXCEPT !.start = Higher(gap.start, gap.end - BatchSize)]
          ELSE [start |-> Higher(gap.start, row - half), end |-> Lower(gap.end, row + half)]
    BY <1>1 DEF FetchWindow, ClipToBatch
  <1> HIDE DEF half
  <1>7. /\ [gap EXCEPT !.end = Lower(gap.end, gap.start + BatchSize)].start \in Nat
        /\ [gap EXCEPT !.end = Lower(gap.end, gap.start + BatchSize)].end \in Int
    BY <1>2, <1>4, <1>5 DEF Lower
  <1>8. /\ [gap EXCEPT !.start = Higher(gap.start, gap.end - BatchSize)].start \in Nat
        /\ [gap EXCEPT !.start = Higher(gap.start, gap.end - BatchSize)].end \in Int
    BY <1>2, <1>4, <1>5 DEF Higher
  <1>9. Higher(gap.start, row - half) \in Nat /\ Lower(gap.end, row + half) \in Int
    BY <1>4, <1>5 DEF Higher, Lower
  <1> QED
    BY <1>4, <1>6, <1>7, <1>8, <1>9

LEMMA FetchStep ==
  ASSUME Inv, NEW row \in Nat, FetchRow(row)
  PROVE  Inv'
  <1> DEFINE window == FetchWindow(DOMAIN cache, rowCount, row)
             asked  == Request("requestRows", window.start, window.end - window.start + 1)
  <1>1. /\ UNCHANGED <<rows, batch, ref, changes, signals, model, rowCount, cache, overtook>>
        /\ fetching' = row /\ requests' = Append(requests, asked)
    BY DEF FetchRow, backendVars
  <1>2. requests' \in Seq(Requests)
    <2>1. DOMAIN cache \in SUBSET Nat /\ rowCount \in Int /\ requests \in Seq(Requests)
      BY DEF Inv, TypeOK
    <2>2. window.start \in Nat /\ window.end \in Int
      BY <2>1, WindowTyped
    <2> HIDE DEF window
    <2>3. asked \in Requests
      BY <2>2 DEF Request, Requests
    <2> HIDE DEF asked
    <2>4. Append(requests, asked) \in Seq(Requests)
      BY <2>1, <2>3, AppendProperties
    <2> QED
      BY <1>1, <2>4
  <1> HIDE DEF asked
  <1>3. \E h \in Seq(Seq(Val)) : Tracks(h)'
    BY <1>1, TracksSame
  <1>4. TypeOK'
    BY <1>1, <1>2 DEF Inv, TypeOK
  <1> QED
    BY <1>1, <1>3, <1>4 DEF Inv

LEMMA PartOfRows ==
  ASSUME NEW all \in Seq(Val), NEW start \in Nat, NEW data \in Seq(Val),
         start + Len(data) <= Len(all),
         data = SubSeq(all, start + 1, start + Len(data)),
         NEW k \in start..(start + Len(data) - 1)
  PROVE  data[k - start + 1] = all[k + 1]
  <1>1. Len(all) \in Nat /\ Len(data) \in Nat /\ k \in Nat
    BY LenProperties
  <1>2. PICK m \in 1..(Len(all) + 1) : m = start + 1
    BY <1>1
  <1>3. PICK n \in 0..Len(all) : n = start + Len(data)
    BY <1>1
  <1>4. m <= n + 1
    BY <1>1, <1>2, <1>3
  <1>5. \A j \in 1..(n - m + 1) : SubSeq(all, m, n)[j] = all[m + j - 1]
    BY <1>4, SubSeqElements
  <1>6. PICK j \in 1..(n - m + 1) : j = k - start + 1
    BY <1>1, <1>2, <1>3
  <1>7. m + j - 1 = k + 1
    BY <1>1, <1>2, <1>6
  <1>8. data[j] = all[m + j - 1]
    BY <1>2, <1>3, <1>5
  <1> QED
    BY <1>6, <1>7, <1>8

\* The answer tells the rows as they were at its place in the history.
LEMMA AnswerStep ==
  ASSUME Inv, FetchAnswer
  PROVE  Inv'
  <1>1. /\ UNCHANGED <<rows, batch, ref, changes, requests, model, rowCount>>
        /\ fetching' = NoRow
    BY DEF FetchAnswer, backendVars
  <1>2. signals \in Seq(Signals) /\ overtook \in BOOLEAN /\ rowCount \in Int /\ Typed(cache)
    BY CacheTyped DEF Inv, TypeOK
  <1>3. PICK i \in DOMAIN signals :
          /\ TakeFirst("modelRowData", i)
          /\ DoRowData(signals[i].start, signals[i].data)
          /\ overtook' = (overtook \/ \E j \in 1..(i - 1) : Renumbers(signals[j]))
    BY DEF FetchAnswer
  <1>4. /\ i \in 1..Len(signals) /\ Len(signals) \in Nat
        /\ signals[i].sig = "modelRowData" /\ signals' = RemoveAt(signals, i)
    BY <1>2, <1>3, LenProperties DEF TakeFirst
  <1>5. PICK s \in Signals : s = signals[i]
    BY <1>2, <1>4, ElementOfSeq
  <1>6. s.start \in Nat /\ s.data \in Seq(Val) /\ Len(s.data) \in Nat
    <2>1. s.start \in Nat /\ s.data \in Seq(Val)
      BY DEF Signals
    <2> QED
      BY <2>1, LenProperties
  <1>7. PICK h \in Seq(Seq(Val)) : Tracks(h)
    BY DEF Inv
  <1>8. PICK old : old = h[1]
    OBVIOUS
  <1> DEFINE hh == RemoveAt(h, i)
  <1>9. History(hh, signals', rows') /\ hh[1] = old
    BY <1>1, <1>2, <1>4, <1>7, <1>8, TracksTaken DEF Tracks
  <1> HIDE DEF hh
  <1> DEFINE fits == s.data # <<>> /\ s.start + Len(s.data) <= rowCount
             over == Overlay(cache, s.start, s.data)
  <1>10. /\ fits => DOMAIN cache' \subseteq DOMAIN over /\ \A k \in DOMAIN cache' : cache'[k] = over[k]
         /\ ~fits => cache' = cache
    <2>1. cache' = IF fits THEN CleanRowCache(over, s.start + Len(s.data) \div 2) ELSE cache
      BY <1>3, <1>5 DEF DoRowData
    <2> HIDE DEF fits, over
    <2> QED
      BY <2>1, CleanKeeps
  <1>11. Typed(over) /\ (fits /\ Below(cache, rowCount) => Below(over, rowCount))
    <2>1. Typed(over)
      <3>1. PICK n \in Int : n = s.start + Len(s.data)
        BY <1>6
      <3> QED
        BY <1>2, <1>6, <3>1, OverlayKeeps
    <2>2. ASSUME fits, Below(cache, rowCount)
          PROVE  Below(over, rowCount)
      BY <1>2, <1>6, <2>2, OverlayKeeps
    <2> QED
      BY <2>1, <2>2
  <1>12. /\ DOMAIN over = DOMAIN cache \cup s.start..(s.start + Len(s.data) - 1)
         /\ \A k \in DOMAIN over :
              over[k] = IF k \in s.start..(s.start + Len(s.data) - 1)
                        THEN s.data[k - s.start + 1] ELSE cache[k]
    BY DEF Overlay
  <1>13. ASSUME NEW k, Awaits(k, signals)
         PROVE  Awaits(k, signals')
    <2>1. ~Rewrites(signals[i], k)
      BY <1>4 DEF Rewrites
    <2> QED
      BY <1>2, <1>4, <1>13, <2>1, AwaitsRemove
  <1>14. ASSUME model = "synced", InOrder, ~overtook', fits,
                NEW k \in s.start..(s.start + Len(s.data) - 1)
         PROVE  s.data[k - s.start + 1] = old[k + 1] \/ Awaits(k, signals)
    <2>1. SUFFICES ASSUME ~Awaits(k, signals)
                   PROVE  s.data[k - s.start + 1] = old[k + 1]
      OBVIOUS
    <2>2. History(h, signals, rows) /\ rowCount = Len(old)
      BY <1>7, <1>8, <1>14 DEF Tracks, Follows
    <2>3. \A j \in 1..(i - 1) : ~Renumbers(signals[j])
      BY <1>3, <1>14
    <2>4. k \in 0..(Len(h[1]) - 1) /\ k \in Nat
      BY <1>6, <1>8, <1>14, <2>2
    <2>5. h[i][k + 1] = h[1][k + 1]
      BY <1>2, <1>4, <1>14, <2>1, <2>2, <2>3, <2>4, RowStays
    <2>6. /\ s.start + Len(s.data) <= Len(h[i])
          /\ s.data = SubSeq(h[i], s.start + 1, s.start + Len(s.data))
      BY <1>4, <1>5, <1>14, <2>2 DEF History, Tells
    <2>7. s.data[k - s.start + 1] = h[i][k + 1]
      <3>1. h[i] \in Seq(Val)
        <4>1. h \in Seq(Seq(Val)) /\ i \in 1..Len(h)
          BY <1>4, <2>2 DEF History
        <4> QED
          BY <4>1, ElementOfSeq
      <3>2. PICK all \in Seq(Val) : all = h[i]
        BY <3>1
      <3>3. /\ s.start + Len(s.data) <= Len(all)
            /\ s.data = SubSeq(all, s.start + 1, s.start + Len(s.data))
        BY <2>6, <3>2
      <3>4. s.data[k - s.start + 1] = all[k + 1]
        BY <1>6, <1>14, <3>3, PartOfRows
      <3> QED
        BY <3>2, <3>4
    <2> QED
      BY <1>8, <2>5, <2>7
  <1> HIDE DEF over, fits
  <1>15. model' = "synced" => Follows(old)'
    <2>1. SUFFICES ASSUME model = "synced"
                   PROVE  Follows(old)'
      BY <1>1
    <2>2. Follows(old)
      BY <1>7, <1>8, <2>1 DEF Tracks
    <2>3. Below(cache, rowCount)
      BY <2>2 DEF Follows, Below
    <2>4. DOMAIN cache' \subseteq 0..(rowCount' - 1)
      BY <1>1, <1>10, <1>11, <2>3 DEF Below
    <2>5. ASSUME InOrder, ~overtook', NEW k \in DOMAIN cache'
          PROVE  cache'[k] = old[k + 1] \/ Awaits(k, signals')
      <3>1. k \in DOMAIN cache => cache[k] = old[k + 1] \/ Awaits(k, signals)
        BY <1>3, <2>2, <2>5 DEF Follows
      <3>2. cache'[k] = old[k + 1] \/ Awaits(k, signals)
        <4>1. CASE ~fits
          BY <1>10, <2>5, <3>1, <4>1
        <4>2. CASE fits
          BY <1>10, <1>12, <1>14, <2>1, <2>5, <3>1, <4>2
        <4> QED
          BY <4>1, <4>2
      <3> QED
        BY <1>13, <3>2
    <2> QED
      BY <1>1, <2>2, <2>4, <2>5 DEF Follows
  <1>16. hh \in Seq(Seq(Val)) /\ Tracks(hh)'
    BY <1>9, <1>15 DEF History, Tracks
  <1>17. signals' \in Seq(Signals)
    <2>1. RemoveAt(signals, i) \in Seq(Signals)
      BY <1>2, <1>4, RemovedAt
    <2> QED
      BY <1>4, <2>1
  <1>18. DOMAIN cache' \subseteq Nat /\ \A k \in DOMAIN cache' : cache'[k] \in Val
    BY <1>2, <1>10, <1>11 DEF Typed
  <1>19. TypeOK'
    BY <1>1, <1>3, <1>17, <1>18 DEF Inv, TypeOK
  <1>20. ref'
    <2>1. signals # <<>>
      BY <1>2, <1>4, EmptySeq
    <2> QED
      BY <1>1, <2>1 DEF Inv
  <1> QED
    BY <1>16, <1>19, <1>20 DEF Inv

-----------------------------------------------------------------------------
\* The slots take the first signal, and with it the first list of the history.
LEMMA Received ==
  ASSUME Inv, NEW sig, Receive(sig)
  PROVE  /\ signals \in Seq(Signals) /\ signals # <<>> /\ signals' = Tail(signals)
         /\ UNCHANGED <<rows, batch, ref, changes, requests, fetching>>
         /\ Head(signals) \in Signals /\ Head(signals).sig = sig
         /\ model \in {"connected", "synced"}
         /\ Typed(cache) /\ rowCount \in Int /\ overtook \in BOOLEAN
  <1>1. signals \in Seq(Signals) /\ signals # <<>> /\ signals' = Tail(signals)
        /\ UNCHANGED <<rows, batch, ref, changes, requests, fetching>>
        /\ Head(signals).sig = sig /\ model \in {"connected", "synced"}
        /\ rowCount \in Int /\ overtook \in BOOLEAN
    BY DEF Inv, TypeOK, Receive, backendVars
  <1>2. Head(signals) \in Signals
    BY <1>1, HeadTailProperties
  <1> QED
    BY <1>1, <1>2, CacheTyped DEF Inv

LEMMA SignalTyped ==
  ASSUME NEW s \in Signals
  PROVE  /\ s.start \in Nat /\ s.end \in Int /\ s.destination \in Nat
         /\ s.data \in Seq(Val) /\ s.more \in Nat /\ Len(s.data) \in Nat
         /\ Size(s) \in Nat /\ Len(s.data) <= Size(s)
  <1>1. /\ s.start \in Nat /\ s.end \in Int /\ s.destination \in Nat
        /\ s.data \in Seq(Val) /\ s.more \in Nat
    BY DEF Signals
  <1>2. Len(s.data) \in Nat
    BY <1>1, LenProperties
  <1> QED
    BY <1>1, <1>2 DEF Size

LEMMA SlotDone ==
  ASSUME Inv, NEW sig, Receive(sig), NEW h, Tracks(h), NEW new, new = h[2],
         Typed(cache)', rowCount' \in Int, overtook' \in BOOLEAN,
         model' \in {"connected", "synced"}, model' = "synced" => Follows(new)'
  PROVE  Inv'
  <1>1. /\ signals \in Seq(Signals) /\ signals # <<>> /\ signals' = Tail(signals)
        /\ UNCHANGED <<rows, batch, ref, changes, requests, fetching>>
    BY Received
  <1>2. History(Tail(h), Tail(signals), rows) /\ Tail(h)[1] = h[2]
    BY <1>1, HistoryTail DEF Tracks
  <1> DEFINE hh == Tail(h)
  <1>3. History(hh, signals', rows') /\ hh[1] = new
    BY <1>1, <1>2
  <1> HIDE DEF hh
  <1>4. hh \in Seq(Seq(Val)) /\ Tracks(hh)'
    BY <1>3 DEF History, Tracks
  <1>5. signals' \in Seq(Signals)
    BY <1>1, HeadTailProperties
  <1>6. DOMAIN cache' \subseteq Nat /\ \A k \in DOMAIN cache' : cache'[k] \in Val
    BY DEF Typed
  <1>7. TypeOK'
    BY <1>1, <1>5, <1>6 DEF Inv, TypeOK
  <1>8. ref'
    BY <1>1 DEF Inv
  <1> QED
    BY <1>4, <1>7, <1>8 DEF Inv

\* Before a signal that renumbers rows, every row in the cache is right.
LEMMA AgreesBefore ==
  ASSUME NEW old \in Seq(Val), Follows(old), InOrder, ~overtook, signals \in Seq(Signals),
         signals # <<>>, Renumbers(Head(signals))
  PROVE  AgreesWith(cache, old)
  <1>1. rowCount = Len(old) /\ DOMAIN cache \subseteq 0..(rowCount - 1)
    BY DEF Follows
  <1>2. ASSUME NEW k \in DOMAIN cache
        PROVE  cache[k] = old[k + 1]
    <2>1. ~Rewrites(Head(signals), k)
      BY DEF Rewrites, Renumbers
    <2>2. ~Awaits(k, signals)
      BY <2>1, AwaitsTail
    <2> QED
      BY <1>2, <2>2 DEF Follows
  <1> QED
    BY <1>1, <1>2 DEF AgreesWith

LEMMA ResetStep ==
  ASSUME Inv, DoReset
  PROVE  Inv'
  <1>1. Receive("modelReset")
    BY DEF DoReset
  <1>2. PICK h \in Seq(Seq(Val)) : Tracks(h)
    BY DEF Inv
  <1>3. PICK old, new : old = h[1] /\ new = h[2]
    OBVIOUS
  <1>4. PICK s \in Signals : s = Head(signals) /\ s.sig = "modelReset"
    BY <1>1, Received
  <1>5. old \in Seq(Val) /\ new \in Seq(Val) /\ Fits(s, old, new) /\ (InOrder => Tells(s, old, new))
    <2>1. signals \in Seq(Signals) /\ signals # <<>> /\ History(h, signals, rows)
      BY <1>1, <1>2, Received DEF Tracks
    <2> QED
      BY <1>3, <1>4, <2>1, HistoryTail
  <1>6. /\ s.data \in Seq(Val) /\ Len(s.data) \in Nat /\ Size(s) \in Nat /\ Len(s.data) <= Size(s)
    BY SignalTyped
  <1>7. /\ cache' = Overlay(EmptyCache, 0, s.data) /\ rowCount' = Size(s)
        /\ model' = "synced" /\ overtook' = FALSE
    BY <1>4 DEF DoReset, Size
  <1>8. Typed(cache') /\ Below(cache', Size(s))
    <2>1. Typed(EmptyCache) /\ Below(EmptyCache, Size(s))
      BY DEF Typed, Below, EmptyCache
    <2>2. PICK c : c = EmptyCache
      OBVIOUS
    <2>3. Typed(c) /\ Below(c, Size(s)) /\ 0 \in Nat /\ 0 + Len(s.data) <= Size(s)
      BY <1>6, <2>1, <2>2
    <2>4. Typed(Overlay(c, 0, s.data)) /\ Below(Overlay(c, 0, s.data), Size(s))
      BY <1>6, <2>3, OverlayKeeps
    <2> QED
      BY <1>7, <2>2, <2>4
  <1>9. Len(new) = Size(s)
    BY <1>4, <1>5 DEF Fits
  <1>10. InOrder => AgreesWith(cache', new)
    <2>1. SUFFICES ASSUME InOrder
                   PROVE  AgreesWith(cache', new)
      OBVIOUS
    <2>2. PICK n \in 0..Len(new) : n = Len(s.data)
      BY <1>6, <1>9
    <2>3. s.data = SubSeq(new, 1, n)
      BY <1>4, <1>5, <2>1, <2>2 DEF Tells
    <2>4. AgreesWith(Overlay(EmptyCache, 0, SubSeq(new, 1, n)), new)
      BY <1>5, ResetAgrees
    <2> QED
      BY <1>7, <2>3, <2>4
  <1>11. Follows(new)'
    BY <1>7, <1>8, <1>9, <1>10 DEF Follows, Below, AgreesWith
  <1>12. Typed(cache)'
    BY <1>8 DEF Typed
  <1>13. rowCount' \in Int /\ overtook' \in BOOLEAN /\ model' \in {"connected", "synced"}
    <2>1. rowCount' \in Int
      BY <1>6, <1>7
    <2>2. overtook' \in BOOLEAN /\ model' \in {"connected", "synced"}
      BY <1>7
    <2> QED
      BY <2>1, <2>2
  <1> QED
    BY <1>1, <1>2, <1>3, <1>11, <1>12, <1>13, SlotDone

LEMMA InsertStep ==
  ASSUME Inv, DoInsert
  PROVE  Inv'
  <1>1. Receive("modelInsert")
    BY DEF DoInsert
  <1>2. PICK h \in Seq(Seq(Val)) : Tracks(h)
    BY DEF Inv
  <1>3. PICK old, new : old = h[1] /\ new = h[2]
    OBVIOUS
  <1>4. PICK s \in Signals : s = Head(signals) /\ s.sig = "modelInsert"
    BY <1>1, Received
  <1>5. /\ signals \in Seq(Signals) /\ signals # <<>> /\ signals' = Tail(signals)
        /\ Typed(cache) /\ rowCount \in Int /\ overtook \in BOOLEAN
        /\ model \in {"connected", "synced"}
    BY <1>1, Received
  <1>6. /\ old \in Seq(Val) /\ new \in Seq(Val) /\ Fits(s, old, new)
        /\ InOrder => Tells(s, old, new)
    <2>1. History(h, signals, rows)
      BY <1>2 DEF Tracks
    <2> QED
      BY <1>3, <1>4, <1>5, <2>1, HistoryTail
  <1>7. /\ s.start \in Nat /\ s.end \in Int /\ s.destination \in Nat
        /\ s.data \in Seq(Val) /\ Len(s.data) \in Nat
        /\ Size(s) \in Nat /\ Len(s.data) <= Size(s)
    BY SignalTyped
  <1>8. Len(old) \in Nat
    BY <1>6, LenProperties
  <1>9. PICK c : c = cache
    OBVIOUS
  <1>10. model = "synced" => rowCount = Len(old) /\ Below(c, rowCount)
    BY <1>2, <1>3, <1>9 DEF Tracks, Follows, Below
  <1>11. model = "synced" /\ InOrder /\ ~overtook => AgreesWith(c, old)
    <2>1. model = "synced" => Follows(old)
      BY <1>2, <1>3 DEF Tracks
    <2>2. Renumbers(Head(signals))
      BY <1>4 DEF Renumbers
    <2> QED
      BY <1>5, <1>6, <1>9, <2>1, <2>2, AgreesBefore
  <1>12. /\ s.start <= Len(old) /\ Size(s) > 0 /\ Len(new) = Len(old) + Size(s)
         /\ cache' = InsertInCache(c, s.start, s.data, Size(s))
         /\ rowCount' = rowCount + Size(s) /\ model' = model /\ overtook' = overtook
    <2>1. s.start <= Len(old) /\ Size(s) > 0 /\ Len(new) = Len(old) + Size(s)
      BY <1>4, <1>6 DEF Fits
    <2>2. ~(Size(s) < 1)
      BY <1>7, <2>1
    <2> QED
      BY <1>4, <1>9, <2>1, <2>2 DEF DoInsert, Size
  <1>13. Typed(cache')
    <2>1. Typed(InsertInCache(c, s.start, s.data, Size(s)))
      <3>1. PICK n \in Int : n = s.start
        BY <1>7
      <3> QED
        BY <1>5, <1>7, <1>9, <3>1, InsertKeeps
    <2> QED
      BY <1>12, <2>1
  <1>14. model = "synced" => rowCount' = Len(new) /\ Below(cache', rowCount')
    <2>1. SUFFICES ASSUME model = "synced"
                   PROVE  rowCount' = Len(new) /\ Below(cache', rowCount')
      OBVIOUS
    <2>2. Below(InsertInCache(c, s.start, s.data, Size(s)), rowCount + Size(s))
      <3>1. Below(c, rowCount) /\ s.start <= rowCount
        BY <1>10, <1>12, <2>1
      <3> QED
        BY <1>5, <1>7, <1>9, <3>1, InsertKeeps
    <2> QED
      BY <1>10, <1>12, <2>1, <2>2
  <1>15. model = "synced" /\ InOrder /\ ~overtook => AgreesWith(cache', new)
    <2>1. SUFFICES ASSUME model = "synced", InOrder, ~overtook
                   PROVE  AgreesWith(cache', new)
      OBVIOUS
    <2>2. PICK ins \in Seq(Val) :
            /\ Len(ins) = Size(s) /\ s.data = SubSeq(ins, 1, Len(s.data))
            /\ new = InsertRows(old, s.start, ins)
      BY <1>4, <1>6, <2>1 DEF Tells
    <2>3. PICK n \in 0..Len(ins) : n = Len(s.data)
      BY <1>7, <2>2
    <2>4. PICK start \in 0..Len(old) : start = s.start
      BY <1>7, <1>8, <1>12
    <2>5. AgreesWith(InsertInCache(c, start, SubSeq(ins, 1, n), Len(ins)),
                     InsertRows(old, start, ins))
      BY <1>6, <1>11, <2>1, InsertAgrees
    <2> QED
      BY <1>12, <2>2, <2>3, <2>4, <2>5
  <1>16. model' = "synced" => Follows(new)'
    BY <1>12, <1>14, <1>15 DEF Follows, Below, AgreesWith
  <1>17. Typed(cache)'
    BY <1>13 DEF Typed
  <1>18. rowCount' \in Int /\ overtook' \in BOOLEAN /\ model' \in {"connected", "synced"}
    BY <1>5, <1>7, <1>12
  <1> QED
    BY <1>1, <1>2, <1>3, <1>16, <1>17, <1>18, SlotDone

LEMMA RemoveStep ==
  ASSUME Inv, DoRemove
  PROVE  Inv'
  <1>1. Receive("modelRemove")
    BY DEF DoRemove
  <1>2. PICK h \in Seq(Seq(Val)) : Tracks(h)
    BY DEF Inv
  <1>3. PICK old, new : old = h[1] /\ new = h[2]
    OBVIOUS
  <1>4. PICK s \in Signals : s = Head(signals) /\ s.sig = "modelRemove"
    BY <1>1, Received
  <1>5. /\ signals \in Seq(Signals) /\ signals # <<>> /\ signals' = Tail(signals)
        /\ Typed(cache) /\ rowCount \in Int /\ overtook \in BOOLEAN
        /\ model \in {"connected", "synced"}
    BY <1>1, Received
  <1>6. /\ old \in Seq(Val) /\ new \in Seq(Val) /\ Fits(s, old, new)
        /\ InOrder => Tells(s, old, new)
    <2>1. History(h, signals, rows)
      BY <1>2 DEF Tracks
    <2> QED
      BY <1>3, <1>4, <1>5, <2>1, HistoryTail
  <1>7. /\ s.start \in Nat /\ s.end \in Int /\ s.destination \in Nat
        /\ s.data \in Seq(Val) /\ Len(s.data) \in Nat
        /\ Size(s) \in Nat /\ Len(s.data) <= Size(s)
    BY SignalTyped
  <1>8. Len(old) \in Nat
    BY <1>6, LenProperties
  <1>9. PICK c : c = cache
    OBVIOUS
  <1>10. model = "synced" => rowCount = Len(old) /\ Below(c, rowCount)
    BY <1>2, <1>3, <1>9 DEF Tracks, Follows, Below
  <1>11. model = "synced" /\ InOrder /\ ~overtook => AgreesWith(c, old)
    <2>1. model = "synced" => Follows(old)
      BY <1>2, <1>3 DEF Tracks
    <2>2. Renumbers(Head(signals))
      BY <1>4 DEF Renumbers
    <2> QED
      BY <1>5, <1>6, <1>9, <2>1, <2>2, AgreesBefore
  <1>12. /\ s.start <= s.end /\ s.end < Len(old)
         /\ Len(new) = Len(old) - (s.end - s.start + 1)
         /\ cache' = RemoveFromCache(c, s.start, s.end)
         /\ rowCount' = rowCount - (s.end - s.start + 1)
         /\ model' = model /\ overtook' = overtook
    <2>1. /\ s.start <= s.end /\ s.end < Len(old)
          /\ Len(new) = Len(old) - (s.end - s.start + 1)
      BY <1>4, <1>6 DEF Fits
    <2> QED
      BY <1>4, <1>9, <2>1 DEF DoRemove
  <1>13. Typed(cache')
    <2>1. Typed(RemoveFromCache(c, s.start, s.end))
      <3>1. PICK n \in Int : n = s.end + 1
        BY <1>7
      <3>2. s.end < n
        BY <1>7, <3>1
      <3> QED
        BY <1>5, <1>7, <1>9, <1>12, <3>2, RemoveKeeps
    <2> QED
      BY <1>12, <2>1
  <1>14. model = "synced" => rowCount' = Len(new) /\ Below(cache', rowCount')
    <2>1. SUFFICES ASSUME model = "synced"
                   PROVE  rowCount' = Len(new) /\ Below(cache', rowCount')
      OBVIOUS
    <2>2. Below(RemoveFromCache(c, s.start, s.end), rowCount - (s.end - s.start + 1))
      <3>1. Below(c, rowCount) /\ s.end < rowCount
        BY <1>10, <1>12, <2>1
      <3> QED
        BY <1>5, <1>7, <1>9, <1>12, <3>1, RemoveKeeps
    <2> QED
      BY <1>10, <1>12, <2>1, <2>2
  <1>15. model = "synced" /\ InOrder /\ ~overtook => AgreesWith(cache', new)
    <2>1. SUFFICES ASSUME model = "synced", InOrder, ~overtook
                   PROVE  AgreesWith(cache', new)
      OBVIOUS
    <2>2. PICK count \in Nat \ {0} : count = s.end - s.start + 1
      BY <1>7, <1>12
    <2>3. s.start + count - 1 = s.end /\ s.start + count <= Len(old)
      <3>1. /\ s.start \in Nat /\ s.end \in Int /\ Len(old) \in Nat /\ s.end < Len(old)
            /\ count \in Nat /\ count = s.end - s.start + 1
        BY <1>7, <1>8, <1>12, <2>2
      <3> QED
        BY ONLY <3>1
    <2>4. AgreesWith(RemoveFromCache(c, s.start, s.start + count - 1),
                     RemoveRows(old, s.start, count))
      BY <1>6, <1>7, <1>11, <2>1, <2>3, RemoveAgrees
    <2>5. new = RemoveRows(old, s.start, count)
      BY <1>4, <1>6, <2>1, <2>2 DEF Tells
    <2> QED
      BY <1>12, <2>3, <2>4, <2>5
  <1>16. model' = "synced" => Follows(new)'
    BY <1>12, <1>14, <1>15 DEF Follows, Below, AgreesWith
  <1>17. Typed(cache)'
    BY <1>13 DEF Typed
  <1>18. rowCount' \in Int /\ overtook' \in BOOLEAN /\ model' \in {"connected", "synced"}
    BY <1>5, <1>7, <1>12
  <1> QED
    BY <1>1, <1>2, <1>3, <1>16, <1>17, <1>18, SlotDone

LEMMA MoveStep ==
  ASSUME Inv, DoMove
  PROVE  Inv'
  <1>1. Receive("modelMove")
    BY DEF DoMove
  <1>2. PICK h \in Seq(Seq(Val)) : Tracks(h)
    BY DEF Inv
  <1>3. PICK old, new : old = h[1] /\ new = h[2]
    OBVIOUS
  <1>4. PICK s \in Signals : s = Head(signals) /\ s.sig = "modelMove"
    BY <1>1, Received
  <1>5. /\ signals \in Seq(Signals) /\ signals # <<>> /\ signals' = Tail(signals)
        /\ Typed(cache) /\ rowCount \in Int /\ overtook \in BOOLEAN
        /\ model \in {"connected", "synced"}
    BY <1>1, Received
  <1>6. /\ old \in Seq(Val) /\ new \in Seq(Val) /\ Fits(s, old, new)
        /\ InOrder => Tells(s, old, new)
    <2>1. History(h, signals, rows)
      BY <1>2 DEF Tracks
    <2> QED
      BY <1>3, <1>4, <1>5, <2>1, HistoryTail
  <1>7. /\ s.start \in Nat /\ s.end \in Int /\ s.destination \in Nat
        /\ s.data \in Seq(Val) /\ Len(s.data) \in Nat
        /\ Size(s) \in Nat /\ Len(s.data) <= Size(s)
    BY SignalTyped
  <1>8. Len(old) \in Nat
    BY <1>6, LenProperties
  <1>9. PICK c : c = cache
    OBVIOUS
  <1>10. model = "synced" => rowCount = Len(old) /\ Below(c, rowCount)
    BY <1>2, <1>3, <1>9 DEF Tracks, Follows, Below
  <1>11. model = "synced" /\ InOrder /\ ~overtook => AgreesWith(c, old)
    <2>1. model = "synced" => Follows(old)
      BY <1>2, <1>3 DEF Tracks
    <2>2. Renumbers(Head(signals))
      BY <1>4 DEF Renumbers
    <2> QED
      BY <1>5, <1>6, <1>9, <2>1, <2>2, AgreesBefore
  <1>12. /\ s.start <= s.end /\ s.end < Len(old) /\ s.destination <= Len(old)
         /\ s.destination \notin s.start..(s.end + 1) /\ Len(new) = Len(old)
         /\ cache' = MoveInCache(c, s.start, s.end, s.destination)
         /\ rowCount' = rowCount /\ model' = model /\ overtook' = overtook
    <2>1. /\ s.start <= s.end /\ s.end < Len(old) /\ s.destination <= Len(old)
          /\ s.destination \notin s.start..(s.end + 1) /\ Len(new) = Len(old)
      BY <1>4, <1>6 DEF Fits
    <2> QED
      BY <1>4, <1>9, <2>1 DEF DoMove
  <1>13. Typed(cache')
    <2>1. Typed(MoveInCache(c, s.start, s.end, s.destination))
      <3>1. PICK n \in Int : n = Len(old)
        BY <1>8
      <3>2. s.end < n /\ s.destination <= n
        BY <1>12, <3>1
      <3> QED
        BY <1>5, <1>7, <1>9, <1>12, <3>2, MoveKeeps
    <2> QED
      BY <1>12, <2>1
  <1>14. model = "synced" => rowCount' = Len(new) /\ Below(cache', rowCount')
    <2>1. SUFFICES ASSUME model = "synced"
                   PROVE  rowCount' = Len(new) /\ Below(cache', rowCount')
      OBVIOUS
    <2>2. Below(MoveInCache(c, s.start, s.end, s.destination), rowCount)
      <3>1. Below(c, rowCount) /\ s.end < rowCount /\ s.destination <= rowCount
        BY <1>10, <1>12, <2>1
      <3> QED
        BY <1>5, <1>7, <1>9, <1>12, <3>1, MoveKeeps
    <2> QED
      BY <1>10, <1>12, <2>1, <2>2
  <1>15. model = "synced" /\ InOrder /\ ~overtook => AgreesWith(cache', new)
    <2>1. SUFFICES ASSUME model = "synced", InOrder, ~overtook
                   PROVE  AgreesWith(cache', new)
      OBVIOUS
    <2>2. PICK count \in Nat \ {0} : count = s.end - s.start + 1
      BY <1>7, <1>12
    <2>3. /\ s.start + count - 1 = s.end /\ s.start + count = s.end + 1
          /\ s.start + count <= Len(old)
      <3>1. /\ s.start \in Nat /\ s.end \in Int /\ Len(old) \in Nat /\ s.end < Len(old)
            /\ count \in Nat /\ count = s.end - s.start + 1
        BY <1>7, <1>8, <1>12, <2>2
      <3> QED
        BY ONLY <3>1
    <2>4. s.destination \in 0..Len(old) /\ s.destination \notin s.start..(s.start + count)
      BY <1>7, <1>8, <1>12, <2>3
    <2>5. AgreesWith(MoveInCache(c, s.start, s.start + count - 1, s.destination),
                     MoveRows(old, s.start, count, s.destination))
      BY <1>6, <1>7, <1>11, <2>1, <2>3, <2>4, MoveAgrees
    <2>6. new = MoveRows(old, s.start, count, s.destination)
      BY <1>4, <1>6, <2>1, <2>2 DEF Tells
    <2> QED
      BY <1>12, <2>3, <2>5, <2>6
  <1>16. model' = "synced" => Follows(new)'
    BY <1>12, <1>14, <1>15 DEF Follows, Below, AgreesWith
  <1>17. Typed(cache)'
    BY <1>13 DEF Typed
  <1>18. rowCount' \in Int /\ overtook' \in BOOLEAN /\ model' \in {"connected", "synced"}
    BY <1>5, <1>7, <1>12
  <1> QED
    BY <1>1, <1>2, <1>3, <1>16, <1>17, <1>18, SlotDone

LEMMA UpdateStep ==
  ASSUME Inv, DoUpdate
  PROVE  Inv'
  <1>1. Receive("modelUpdate")
    BY DEF DoUpdate
  <1>2. PICK h \in Seq(Seq(Val)) : Tracks(h)
    BY DEF Inv
  <1>3. PICK old, new : old = h[1] /\ new = h[2]
    OBVIOUS
  <1>4. PICK s \in Signals : s = Head(signals) /\ s.sig = "modelUpdate"
    BY <1>1, Received
  <1>5. /\ signals \in Seq(Signals) /\ signals # <<>> /\ signals' = Tail(signals)
        /\ Typed(cache) /\ rowCount \in Int /\ overtook \in BOOLEAN
        /\ model \in {"connected", "synced"}
    BY <1>1, Received
  <1>6. /\ old \in Seq(Val) /\ new \in Seq(Val) /\ Fits(s, old, new)
        /\ InOrder => Tells(s, old, new)
    <2>1. History(h, signals, rows)
      BY <1>2 DEF Tracks
    <2> QED
      BY <1>3, <1>4, <1>5, <2>1, HistoryTail
  <1>7. /\ s.start \in Nat /\ s.end \in Int /\ s.destination \in Nat
        /\ s.data \in Seq(Val) /\ Len(s.data) \in Nat
        /\ Size(s) \in Nat /\ Len(s.data) <= Size(s)
    BY SignalTyped
  <1>8. Len(old) \in Nat
    BY <1>6, LenProperties
  <1>9. PICK c : c = cache
    OBVIOUS
  <1>10. model = "synced" => rowCount = Len(old) /\ Below(c, rowCount)
    BY <1>2, <1>3, <1>9 DEF Tracks, Follows, Below
  <1>11. /\ s.start < Len(old) /\ Len(s.data) = 1 /\ Len(new) = Len(old)
         /\ cache' = IF s.start < rowCount THEN Overlay(c, s.start, s.data) ELSE c
         /\ rowCount' = rowCount /\ model' = model /\ overtook' = overtook
    <2>1. s.start < Len(old) /\ Len(s.data) = 1 /\ Len(new) = Len(old)
      BY <1>4, <1>6 DEF Fits
    <2> QED
      BY <1>4, <1>9, <2>1 DEF DoUpdate
  <1>12. Typed(cache')
    <2>1. Typed(Overlay(c, s.start, s.data))
      <3>1. PICK n \in Int : n = s.start + Len(s.data)
        BY <1>7
      <3> QED
        BY <1>5, <1>7, <1>9, <3>1, OverlayKeeps
    <2> QED
      BY <1>5, <1>9, <1>11, <2>1
  <1>13. model = "synced" => rowCount' = Len(new) /\ Below(cache', rowCount')
    <2>1. SUFFICES ASSUME model = "synced"
                   PROVE  rowCount' = Len(new) /\ Below(cache', rowCount')
      OBVIOUS
    <2>2. Below(Overlay(c, s.start, s.data), rowCount)
      <3>1. Below(c, rowCount) /\ s.start + Len(s.data) <= rowCount
        BY <1>7, <1>8, <1>10, <1>11, <2>1
      <3> QED
        BY <1>5, <1>7, <1>9, <3>1, OverlayKeeps
    <2> QED
      BY <1>10, <1>11, <2>1, <2>2
  <1>14. ASSUME model = "synced", InOrder, ~overtook, NEW k \in DOMAIN cache'
         PROVE  cache'[k] = new[k + 1] \/ Awaits(k, signals')
    <2>1. cache' = Overlay(c, s.start, s.data)
      BY <1>10, <1>11, <1>14
    <2>2. new = [old EXCEPT ![s.start + 1] = s.data[1]]
      BY <1>4, <1>6, <1>14 DEF Tells
    <2>3. s.start..(s.start + Len(s.data) - 1) = {s.start}
      BY <1>7, <1>11
    <2>4. /\ DOMAIN cache' = DOMAIN c \cup {s.start}
          /\ \A j \in DOMAIN cache' :
               cache'[j] = IF j \in {s.start} THEN s.data[j - s.start + 1] ELSE c[j]
      BY <2>1, <2>3 DEF Overlay
    <2>5. DOMAIN old = 1..Len(old)
      BY <1>6, LenProperties
    <2>6. CASE k = s.start
      <3>1. cache'[k] = s.data[1]
        <4>1. k - s.start + 1 = 1
          BY <1>7, <2>6
        <4> QED
          BY <1>14, <2>4, <2>6, <4>1
      <3>2. s.start + 1 \in DOMAIN old
        BY <1>7, <1>8, <1>11, <2>5
      <3> QED
        BY <2>2, <2>6, <3>1, <3>2
    <2>7. CASE k # s.start
      <3>1. k \in DOMAIN c /\ cache'[k] = c[k]
        BY <1>14, <2>4, <2>7
      <3>2. k \in 0..(Len(old) - 1)
        BY <1>10, <1>14, <3>1 DEF Below
      <3>3. new[k + 1] = old[k + 1]
        <4>1. k + 1 # s.start + 1 /\ k + 1 \in DOMAIN old
          BY <1>7, <1>8, <2>5, <2>7, <3>2
        <4> QED
          BY <2>2, <4>1
      <3>4. c[k] = old[k + 1] \/ Awaits(k, signals)
        BY <1>2, <1>3, <1>9, <1>14, <3>1 DEF Tracks, Follows
      <3>5. Awaits(k, signals) => Awaits(k, signals')
        <4>1. ~Rewrites(Head(signals), k)
          BY <1>4, <2>7 DEF Rewrites
        <4> QED
          BY <1>5, <4>1, AwaitsTail
      <3> QED
        BY <3>1, <3>3, <3>4, <3>5
    <2> QED
      BY <2>6, <2>7
  <1>15. model' = "synced" => Follows(new)'
    BY <1>11, <1>13, <1>14 DEF Follows, Below
  <1>16. Typed(cache)'
    BY <1>12 DEF Typed
  <1>17. rowCount' \in Int /\ overtook' \in BOOLEAN /\ model' \in {"connected", "synced"}
    BY <1>5, <1>11
  <1> QED
    BY <1>1, <1>2, <1>3, <1>15, <1>16, <1>17, SlotDone

\* The signals of the application are all applied.
LEMMA SlotsStep ==
  ASSUME Inv, Slots
  PROVE  Inv'
  BY ResetStep, InsertStep, RemoveStep, MoveStep, UpdateStep DEF Slots

\* A state in which nothing happens.
LEMMA StutterStep ==
  ASSUME Inv, UNCHANGED vars
  PROVE  Inv'
  <1>1. /\ UNCHANGED <<rows, batch, ref, changes, requests, signals>>
        /\ UNCHANGED <<model, rowCount, cache, fetching, overtook>>
    BY DEF vars, backendVars, pluginVars
  <1>2. \E h \in Seq(Seq(Val)) : Tracks(h)'
    BY <1>1, TracksSame
  <1>3. TypeOK'
    BY <1>1 DEF Inv, TypeOK
  <1> QED
    BY <1>1, <1>2, <1>3 DEF Inv

LEMMA InitInv == Init => Inv
  <1> SUFFICES ASSUME Init
               PROVE  Inv
    OBVIOUS
  <1>1. TypeOK
    <2>1. DOMAIN cache = {}
      BY DEF Init, EmptyCache
    <2>2. requests \in Seq(Requests) /\ signals \in Seq(Signals)
      BY EmptySeq DEF Init
    <2>3. rows \in Seq(Val) /\ changes \in 0..MaxChanges
      BY ModelAssumption DEF Init
    <2>4. ref \in BOOLEAN /\ overtook \in BOOLEAN
      BY DEF Init
    <2>5. /\ batch \in Nat /\ rowCount \in Int /\ fetching \in Nat \cup {NoRow}
          /\ model \in {"unused", "asked", "connected", "synced"}
      BY DEF Init
    <2> QED
      BY <2>1, <2>2, <2>3, <2>4, <2>5 DEF TypeOK
  <1>2. PICK h : h = <<Rows0>>
    OBVIOUS
  <1>3. h \in Seq(Seq(Val)) /\ Len(h) = 1 /\ h[1] = Rows0
    BY <1>2, ModelAssumption
  <1>4. Len(signals) = 0 /\ 1..Len(signals) = {}
    BY DEF Init
  <1>5. History(h, signals, rows)
    BY <1>3, <1>4 DEF Init, History
  <1>6. Tracks(h)
    BY <1>5 DEF Init, Tracks
  <1> QED
    BY <1>1, <1>3, <1>6 DEF Inv, Init

LEMMA NextInv == Inv /\ [Next]_vars => Inv'
  <1> SUFFICES ASSUME Inv, [Next]_vars
               PROVE  Inv'
    OBVIOUS
  <1>1. CASE View
    <2>1. CASE \E row \in 0..(rowCount - 1) : ReadCached(row) \/ FetchRow(row)
      <3>1. PICK row \in 0..(rowCount - 1) : ReadCached(row) \/ FetchRow(row)
        BY <2>1
      <3>2. row \in Nat
        BY DEF Inv, TypeOK
      <3> QED
        BY <3>1, <3>2, ReadStep, FetchStep
    <2> QED
      BY <1>1, <2>1, UseStep DEF View
  <1>2. CASE Next /\ ~View
    BY <1>2, ApplicationStep, ProcessStep, ConnectStep, SlotsStep, AnswerStep DEF Next
  <1> QED
    BY <1>1, <1>2, StutterStep

LEMMA SpecInv == Spec => []Inv
  BY InitInv, NextInv, PTL DEF Spec

-----------------------------------------------------------------------------
\* Both sides keep well-formed values, whatever the application does with its list
\* (model.go, modelsort.go) and whichever signal the plugin takes out of its order
\* (qbackendmodel.cpp:188): no row of the cache has a negative number, no signal
\* names one as its first, and what SortModelInserted announces is a list of signals.
THEOREM ModelTyped == Spec => []TypeOK
  <1>1. Inv => TypeOK
    BY DEF Inv
  <1> QED
    BY <1>1, SpecInv, PTL

\* What the invariant says of the list before the first signal.
LEMMA SyncedFollows ==
  ASSUME Inv, model = "synced", NEW h, Tracks(h)
  PROVE  /\ h \in Seq(Seq(Val)) /\ Len(h) = Len(signals) + 1 /\ h[Len(h)] = rows
         /\ Follows(h[1])
  BY DEF Tracks, History

\* After everything announced has been applied, the plugin's model has as many rows
\* as the application's list (rowCount, qbackendmodel.cpp:124), whatever
\* was inserted, removed, moved or sorted in, and even after an answer that
\* overtook other signals.
THEOREM SameCount == Spec => []RowCountAgrees
  <1>1. Inv => RowCountAgrees
    <2> SUFFICES ASSUME Inv, Quiet
                 PROVE  rowCount = Len(rows)
      BY DEF RowCountAgrees
    <2>1. PICK h \in Seq(Seq(Val)) : Tracks(h)
      BY DEF Inv
    <2>2. Len(h) = 1 /\ h[Len(h)] = rows /\ Follows(h[1])
      BY <2>1, SyncedFollows DEF Quiet
    <2> QED
      BY <2>2 DEF Follows
  <1> QED
    BY <1>1, SpecInv, PTL

\* Once there was a reset, no row is stored outside the plugin's model
\* (qbackendmodel.cpp:363), and rows that move or go take their data along.
THEOREM NoRowOutside == Spec => []CacheInBounds
  <1>1. Inv => CacheInBounds
    <2> SUFFICES ASSUME Inv, model = "synced"
                 PROVE  DOMAIN cache \subseteq 0..(rowCount - 1)
      BY DEF CacheInBounds
    <2>1. PICK h \in Seq(Seq(Val)) : Tracks(h)
      BY DEF Inv
    <2> QED
      BY <2>1, SyncedFollows DEF Follows
  <1> QED
    BY <1>1, SpecInv, PTL

\* Once there was a reset, the next signal names only rows that the plugin's model
\* has: what beginInsertRows, beginRemoveRows and beginMoveRows assert
\* (qbackendmodel.cpp:254, 275 and 297) is so.
THEOREM SignalsFit == Spec => []SignalsInRange
  <1>1. Inv => SignalsInRange
    <2> SUFFICES ASSUME Inv, model = "synced", signals # <<>>
                 PROVE  InRange(Head(signals))
      BY DEF SignalsInRange
    <2>1. PICK h \in Seq(Seq(Val)) : Tracks(h)
      BY DEF Inv
    <2>2. signals \in Seq(Signals) /\ History(h, signals, rows) /\ rowCount = Len(h[1])
      BY <2>1, SyncedFollows DEF Inv, TypeOK, Tracks, Follows
    <2>3. Fits(Head(signals), h[1], h[2])
      BY <2>2, HistoryTail
    <2> QED
      BY <2>2, <2>3 DEF Fits, InRange
  <1> QED
    BY <1>1, SpecInv, PTL

\* "When data changes, you must call Model's methods to notify the client of the
\* change" (backend/model.go:10): after everything announced has been applied, the
\* rows that the plugin has are those of the application, for who gives
\* SortModelInserted its rows in order, unless a fetched row was taken past a signal
\* that renumbers rows since the last reset (qbackendmodel.cpp:188).
THEOREM RowsSame ==
  ASSUME InOrder
  PROVE  Spec => []RowsAgreeUnlessOvertaken
  <1>1. Inv => RowsAgreeUnlessOvertaken
    <2> SUFFICES ASSUME Inv, Quiet, ~overtook
                 PROVE  AgreesWith(cache, rows)
      BY DEF RowsAgreeUnlessOvertaken
    <2>1. PICK h \in Seq(Seq(Val)) : Tracks(h)
      BY DEF Inv
    <2>2. Len(h) = 1 /\ h[Len(h)] = rows /\ Follows(h[1]) /\ Len(signals) = 0
      BY <2>1, SyncedFollows DEF Quiet
    <2>3. \A k : ~Awaits(k, signals)
      BY <2>2 DEF Awaits
    <2> QED
      BY <2>2, <2>3 DEF Follows, AgreesWith
  <1> QED
    BY <1>1, SpecInv, PTL
===============================================================================
