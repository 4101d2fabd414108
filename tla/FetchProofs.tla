------------------------------ MODULE FetchProofs ------------------------------
(***************************************************************************)
(* A read that blocks finds the row it asked for: there is one request or one *)
(* answer on its way while somebody waits, the answer has the row unless a     *)
(* signal that reshapes the model is on its way too, and cleaning the cache    *)
(* drops other rows first.                                                    *)
(***************************************************************************)
EXTENDS ModelSyncProofs

IsAsk(r)    == r.do = "requestRows"
IsAnswer(s) == s.sig = "modelRowData"
IsSteady(s) == s.sig \in {"modelUpdate", "modelRowData"}

NoAsk(reqs)     == \A i \in 1..Len(reqs) : ~IsAsk(reqs[i])
NoAnswer(sigs)  == \A i \in 1..Len(sigs) : ~IsAnswer(sigs[i])
OneAsk(reqs)    == \A i, j \in 1..Len(reqs) : IsAsk(reqs[i]) /\ IsAsk(reqs[j]) => i = j
OneAnswer(sigs) == \A i, j \in 1..Len(sigs) : IsAnswer(sigs[i]) /\ IsAnswer(sigs[j]) => i = j
AllSteady(sigs) == \A i \in 1..Len(sigs) : IsSteady(sigs[i])

\* The rows from start on have the row, and fit the model and the cache.
Covers(row, n, start, count) ==
  /\ start <= row /\ row < start + count /\ start + count <= n
  /\ BatchSize > 0 => count <= BatchSize + 1

AsksFor(reqs, row, n) ==
  \A i \in 1..Len(reqs) : IsAsk(reqs[i]) => Covers(row, n, reqs[i].start, reqs[i].count)
AnswersFor(sigs, row, n) ==
  \A i \in 1..Len(sigs) :
    IsAnswer(sigs[i]) => Covers(row, n, sigs[i].start, Len(sigs[i].data))

\* Until the first reset, it is on its way, and handled before any fetch is answered.
ResetSent(sigs) == \E i \in 1..Len(sigs) : sigs[i].sig = "modelReset"
ResetAsked(reqs) ==
  \E i \in 1..Len(reqs) : reqs[i].do = "reset" /\ \A j \in 1..(i - 1) : ~IsAsk(reqs[j])
ResetDue(reqs, sigs) == ResetSent(sigs) \/ (NoAnswer(sigs) /\ ResetAsked(reqs))

OneFetch ==
  /\ OneAsk(requests) /\ OneAnswer(signals)
  /\ NoAsk(requests) \/ NoAnswer(signals)
  /\ fetching = NoRow => NoAsk(requests) /\ NoAnswer(signals)
FetchFits ==
  AsksFor(requests, fetching, rowCount)
  /\ (AllSteady(signals) => AnswersFor(signals, fetching, rowCount))

\* The inductive invariant.
Fetching ==
  /\ OneFetch
  /\ model = "connected" => ResetDue(requests, signals)
  /\ fetching # NoRow => model \in {"connected", "synced"}
  /\ fetching # NoRow /\ model = "synced" => FetchFits

-----------------------------------------------------------------------------
\* What is appended, and what is taken.
Extends(seq, new, S) ==
  /\ Len(seq) \in Nat /\ Len(new) \in Nat /\ Len(seq) <= Len(new)
  /\ \A i \in 1..Len(seq) : new[i] = seq[i]
  /\ \A i \in (Len(seq) + 1)..Len(new) : new[i] \in S

LEMMA AppendExtends ==
  ASSUME NEW S, NEW T, NEW seq \in Seq(S), NEW e \in S, e \in T
  PROVE  Extends(seq, Append(seq, e), T)
  <1>1. Len(seq) \in Nat
    BY LenProperties
  <1>2. /\ Len(Append(seq, e)) = Len(seq) + 1
        /\ \A i \in 1..Len(seq) : Append(seq, e)[i] = seq[i]
        /\ Append(seq, e)[Len(seq) + 1] = e
    BY AppendProperties
  <1> QED
    BY <1>1, <1>2 DEF Extends

LEMMA ConcatExtends ==
  ASSUME NEW S, NEW T, NEW seq \in Seq(S), NEW more \in Seq(S),
         \A i \in 1..Len(more) : more[i] \in T
  PROVE  Extends(seq, seq \o more, T)
  <1>1. Len(seq) \in Nat /\ Len(more) \in Nat
    BY LenProperties
  <1>2. /\ Len(seq \o more) = Len(seq) + Len(more)
        /\ \A i \in 1..(Len(seq) + Len(more)) :
             (seq \o more)[i] = IF i <= Len(seq) THEN seq[i] ELSE more[i - Len(seq)]
    BY ConcatProperties
  <1>3. PICK new : new = seq \o more
    OBVIOUS
  <1>4. ASSUME NEW i \in (Len(seq) + 1)..Len(new)
        PROVE  new[i] \in T
    <2>1. i - Len(seq) \in 1..Len(more)
      BY <1>1, <1>2, <1>3
    <2>2. new[i] = more[i - Len(seq)]
      BY <1>1, <1>2, <1>3
    <2> QED
      BY <2>1, <2>2
  <1> QED
    BY <1>1, <1>2, <1>3, <1>4 DEF Extends

LEMMA TailTaken ==
  ASSUME NEW S, NEW seq \in Seq(S), seq # <<>>
  PROVE  /\ Tail(seq) \in Seq(S) /\ Len(seq) \in Nat \ {0} /\ Len(Tail(seq)) = Len(seq) - 1
         /\ \A i \in 1..(Len(seq) - 1) : Tail(seq)[i] = seq[i + 1]
         /\ Head(seq) = seq[1]
  BY LenProperties, EmptySeq, HeadTailProperties

\* Signals that are no answers change nothing for who waits.
LEMMA NewsArrives ==
  ASSUME NEW sigs, NEW new, NEW T, Extends(sigs, new, T), \A s \in T : ~IsAnswer(s),
         NEW row, NEW n
  PROVE  /\ NoAnswer(sigs) => NoAnswer(new)
         /\ OneAnswer(sigs) => OneAnswer(new)
         /\ AllSteady(new) => AllSteady(sigs)
         /\ ResetSent(sigs) => ResetSent(new)
         /\ AnswersFor(sigs, row, n) => AnswersFor(new, row, n)
  <1>1. /\ Len(sigs) \in Nat /\ Len(new) \in Nat /\ Len(sigs) <= Len(new)
        /\ \A i \in 1..Len(sigs) : new[i] = sigs[i]
        /\ \A i \in (Len(sigs) + 1)..Len(new) : ~IsAnswer(new[i])
    BY DEF Extends
  <1>2. \A i \in 1..Len(new) : i \in 1..Len(sigs) \/ i \in (Len(sigs) + 1)..Len(new)
    BY <1>1
  <1>3. \A i \in 1..Len(new) : IsAnswer(new[i]) => i \in 1..Len(sigs) /\ new[i] = sigs[i]
    BY <1>1, <1>2
  <1>4. \A i \in 1..Len(sigs) : i \in 1..Len(new) /\ new[i] = sigs[i]
    BY <1>1
  <1> QED
    BY ONLY <1>3, <1>4 DEF NoAnswer, OneAnswer, AllSteady, ResetSent, AnswersFor

\* An answer is the only one.
LEMMA AnswerArrives ==
  ASSUME NEW sigs \in Seq(Signals), NoAnswer(sigs), NEW s \in Signals
  PROVE  LET new == Append(sigs, s)
         IN /\ OneAnswer(new)
            /\ AllSteady(new) => AllSteady(sigs)
            /\ ResetSent(sigs) => ResetSent(new)
            /\ \A row, n : Covers(row, n, s.start, Len(s.data)) => AnswersFor(new, row, n)
  <1>1. PICK new : new = Append(sigs, s)
    OBVIOUS
  <1>2. /\ Len(sigs) \in Nat /\ Len(new) = Len(sigs) + 1
        /\ \A i \in 1..Len(sigs) : new[i] = sigs[i]
        /\ new[Len(sigs) + 1] = s
    BY <1>1, AppendProperties, LenProperties
  <1>3. \A i \in 1..Len(new) : i \in 1..Len(sigs) \/ i = Len(sigs) + 1
    BY <1>2
  <1>4. \A i \in 1..Len(new) : IsAnswer(new[i]) => i = Len(sigs) + 1 /\ new[i] = s
    BY <1>2, <1>3 DEF NoAnswer
  <1>5. \A i \in 1..Len(sigs) : i \in 1..Len(new) /\ new[i] = sigs[i]
    BY <1>2
  <1>6. /\ OneAnswer(new)
        /\ AllSteady(new) => AllSteady(sigs)
        /\ ResetSent(sigs) => ResetSent(new)
        /\ \A row, n : Covers(row, n, s.start, Len(s.data)) => AnswersFor(new, row, n)
    BY ONLY <1>4, <1>5 DEF OneAnswer, AllSteady, ResetSent, AnswersFor
  <1> QED
    BY <1>1, <1>6

\* Requests are appended ...
LEMMA RequestSent ==
  ASSUME NEW reqs \in Seq(Requests), NEW r \in Requests
  PROVE  LET new == Append(reqs, r)
         IN /\ NoAsk(reqs) /\ ~IsAsk(r) => NoAsk(new)
            /\ NoAsk(reqs) => OneAsk(new)
            /\ ResetAsked(reqs) => ResetAsked(new)
            /\ NoAsk(reqs) /\ r.do = "reset" => ResetAsked(new)
            /\ \A row, n : NoAsk(reqs) /\ Covers(row, n, r.start, r.count) => AsksFor(new, row, n)
  <1>1. PICK new : new = Append(reqs, r)
    OBVIOUS
  <1>2. /\ Len(reqs) \in Nat /\ Len(new) = Len(reqs) + 1
        /\ \A i \in 1..Len(reqs) : new[i] = reqs[i]
        /\ new[Len(reqs) + 1] = r
    BY <1>1, AppendProperties, LenProperties
  <1>3. \A i \in 1..Len(new) : i \in 1..Len(reqs) \/ i = Len(reqs) + 1
    BY <1>2
  <1>4. NoAsk(reqs) => \A i \in 1..Len(new) : IsAsk(new[i]) => i = Len(reqs) + 1 /\ new[i] = r
    BY <1>2, <1>3 DEF NoAsk
  <1>5. NoAsk(reqs) /\ ~IsAsk(r) => NoAsk(new)
    BY ONLY <1>4 DEF NoAsk
  <1>6. NoAsk(reqs) => OneAsk(new)
    BY ONLY <1>4 DEF OneAsk
  <1>7. \A row, n : NoAsk(reqs) /\ Covers(row, n, r.start, r.count) => AsksFor(new, row, n)
    BY ONLY <1>4 DEF AsksFor
  <1>8. ASSUME NEW i \in 1..Len(reqs), reqs[i].do = "reset", \A j \in 1..(i - 1) : ~IsAsk(reqs[j])
        PROVE  ResetAsked(new)
    <2>1. i \in 1..Len(new) /\ new[i].do = "reset"
      BY <1>2, <1>8
    <2>2. \A j \in 1..(i - 1) : j \in 1..Len(reqs) /\ new[j] = reqs[j]
      BY <1>2
    <2>3. \A j \in 1..(i - 1) : ~IsAsk(new[j])
      BY <1>8, <2>2
    <2> QED
      BY <2>1, <2>3 DEF ResetAsked
  <1>9. ResetAsked(reqs) => ResetAsked(new)
    BY <1>8 DEF ResetAsked
  <1>10. ASSUME NoAsk(reqs), r.do = "reset"
         PROVE  ResetAsked(new)
    <2>1. PICK i \in 1..Len(new) : i = Len(reqs) + 1
      BY <1>2
    <2>2. \A j \in 1..(i - 1) : j \in 1..Len(reqs) /\ new[j] = reqs[j]
      BY <1>2, <2>1
    <2>3. \A j \in 1..(i - 1) : ~IsAsk(new[j])
      BY <1>10, <2>2 DEF NoAsk
    <2> QED
      BY <1>2, <1>10, <2>1, <2>3 DEF ResetAsked
  <1> QED
    BY <1>1, <1>5, <1>6, <1>7, <1>9, <1>10

\* ... and the first one is handled.
LEMMA RequestTaken ==
  ASSUME NEW reqs \in Seq(Requests), reqs # <<>>, OneAsk(reqs)
  PROVE  LET new == Tail(reqs)
         IN /\ OneAsk(new)
            /\ NoAsk(reqs) \/ IsAsk(Head(reqs)) => NoAsk(new)
            /\ ResetAsked(reqs) => /\ ~IsAsk(Head(reqs))
                                   /\ Head(reqs).do = "reset" \/ ResetAsked(new)
            /\ \A row, n : AsksFor(reqs, row, n) =>
                 /\ AsksFor(new, row, n)
                 /\ IsAsk(Head(reqs)) => Covers(row, n, Head(reqs).start, Head(reqs).count)
  <1>1. PICK new : new = Tail(reqs)
    OBVIOUS
  <1>2. /\ Len(reqs) \in Nat \ {0} /\ Len(new) = Len(reqs) - 1
        /\ \A i \in 1..(Len(reqs) - 1) : new[i] = reqs[i + 1]
        /\ Head(reqs) = reqs[1]
    BY <1>1, TailTaken
  <1>3. ASSUME NEW i \in 1..Len(new)
        PROVE  i + 1 \in 1..Len(reqs) /\ i + 1 # 1 /\ new[i] = reqs[i + 1]
    BY <1>2
  <1>4. 1 \in 1..Len(reqs)
    BY <1>2
  <1>5. OneAsk(new)
    <2> SUFFICES ASSUME NEW i \in 1..Len(new), NEW j \in 1..Len(new), IsAsk(new[i]), IsAsk(new[j])
                 PROVE  i = j
      BY DEF OneAsk
    <2>1. i + 1 = j + 1
      BY <1>3 DEF OneAsk
    <2> QED
      BY <1>2, <2>1
  <1>6. NoAsk(reqs) \/ IsAsk(Head(reqs)) => NoAsk(new)
    BY <1>2, <1>3, <1>4 DEF NoAsk, OneAsk
  <1>7. ASSUME NEW row, NEW n, AsksFor(reqs, row, n)
        PROVE  /\ AsksFor(new, row, n)
               /\ IsAsk(Head(reqs)) => Covers(row, n, Head(reqs).start, Head(reqs).count)
    BY <1>2, <1>3, <1>4, <1>7 DEF AsksFor
  <1>8. ASSUME NEW i \in 1..Len(reqs), reqs[i].do = "reset", \A j \in 1..(i - 1) : ~IsAsk(reqs[j])
        PROVE  ~IsAsk(Head(reqs)) /\ (Head(reqs).do = "reset" \/ ResetAsked(new))
    <2>1. CASE i = 1
      BY <1>2, <1>8, <2>1 DEF IsAsk
    <2>2. CASE i # 1
      <3>1. 1 \in 1..(i - 1) /\ i - 1 \in 1..Len(new) /\ (i - 1) + 1 = i
        BY <1>2, <2>2
      <3>2. ASSUME NEW j \in 1..(i - 1 - 1)
            PROVE  ~IsAsk(new[j])
        <4>1. j \in 1..Len(new) /\ j + 1 \in 1..(i - 1)
          BY <1>2
        <4>2. new[j] = reqs[j + 1]
          BY <1>3, <4>1
        <4> QED
          BY <1>8, <4>1, <4>2
      <3>3. new[i - 1] = reqs[i]
        BY <1>3, <3>1
      <3>4. ResetAsked(new)
        BY <1>8, <3>1, <3>2, <3>3 DEF ResetAsked
      <3> QED
        BY <1>2, <1>8, <3>1, <3>4
    <2> QED
      BY <2>1, <2>2
  <1> QED
    BY <1>1, <1>5, <1>6, <1>7, <1>8 DEF ResetAsked

\* The first signal is taken while nobody waits ...
LEMMA SignalTaken ==
  ASSUME NEW sigs \in Seq(Signals), sigs # <<>>, NoAnswer(sigs)
  PROVE  LET new == Tail(sigs)
         IN /\ NoAnswer(new) /\ OneAnswer(new)
            /\ ResetSent(sigs) /\ Head(sigs).sig # "modelReset" => ResetSent(new)
  <1>1. PICK new : new = Tail(sigs)
    OBVIOUS
  <1>2. /\ Len(sigs) \in Nat \ {0} /\ Len(new) = Len(sigs) - 1
        /\ \A i \in 1..(Len(sigs) - 1) : new[i] = sigs[i + 1]
        /\ Head(sigs) = sigs[1]
    BY <1>1, TailTaken
  <1>3. NoAnswer(new)
    <2> SUFFICES ASSUME NEW i \in 1..Len(new)
                 PROVE  ~IsAnswer(new[i])
      BY DEF NoAnswer
    <2>1. i + 1 \in 1..Len(sigs) /\ new[i] = sigs[i + 1]
      BY <1>2
    <2> QED
      BY <2>1 DEF NoAnswer
  <1>4. ASSUME ResetSent(sigs), Head(sigs).sig # "modelReset"
        PROVE  ResetSent(new)
    <2>1. PICK i \in 1..Len(sigs) : sigs[i].sig = "modelReset"
      BY <1>4 DEF ResetSent
    <2>2. i # 1
      BY <1>2, <1>4, <2>1
    <2>3. i - 1 \in 1..Len(new) /\ new[i - 1] = sigs[(i - 1) + 1] /\ (i - 1) + 1 = i
      BY <1>2, <2>2
    <2> QED
      BY <2>1, <2>3 DEF ResetSent
  <1> QED
    BY <1>1, <1>3, <1>4 DEF NoAnswer, OneAnswer

\* ... and one is taken out by who waits for it.
LEMMA SignalAwaited ==
  ASSUME NEW sigs \in Seq(Signals), NEW i \in 1..Len(sigs), OneAnswer(sigs),
         NoAnswer(sigs) \/ IsAnswer(sigs[i])
  PROVE  LET new == RemoveAt(sigs, i)
         IN /\ NoAnswer(new) /\ OneAnswer(new)
            /\ ResetSent(sigs) /\ sigs[i].sig # "modelReset" => ResetSent(new)
  <1>1. PICK new : new = RemoveAt(sigs, i)
    OBVIOUS
  <1>2. /\ Len(sigs) \in Nat /\ Len(new) = Len(sigs) - 1
        /\ \A j \in 1..(Len(sigs) - 1) : new[j] = IF j < i THEN sigs[j] ELSE sigs[j + 1]
    BY <1>1, RemovedAt, LenProperties
  <1>3. NoAnswer(new)
    <2> SUFFICES ASSUME NEW j \in 1..Len(new)
                 PROVE  ~IsAnswer(new[j])
      BY DEF NoAnswer
    <2>1. \E k \in 1..Len(sigs) : k # i /\ new[j] = sigs[k]
      <3>1. CASE j < i
        BY <1>2, <3>1
      <3>2. CASE ~(j < i)
        <4>1. j + 1 \in 1..Len(sigs) /\ j + 1 # i /\ new[j] = sigs[j + 1]
          BY <1>2, <3>2
        <4> QED
          BY <4>1
      <3> QED
        BY <3>1, <3>2
    <2> QED
      BY <2>1 DEF NoAnswer, OneAnswer
  <1>4. ASSUME ResetSent(sigs), sigs[i].sig # "modelReset"
        PROVE  ResetSent(new)
    <2>1. PICK k \in 1..Len(sigs) : sigs[k].sig = "modelReset"
      BY <1>4 DEF ResetSent
    <2>2. k # i
      BY <1>4, <2>1
    <2>3. CASE k < i
      <3>1. k \in 1..Len(new) /\ new[k] = sigs[k]
        BY <1>2, <2>3
      <3> QED
        BY <2>1, <3>1 DEF ResetSent
    <2>4. CASE k > i
      <3>1. k - 1 \in 1..Len(new) /\ new[k - 1] = sigs[(k - 1) + 1] /\ (k - 1) + 1 = k
        BY <1>2, <2>4
      <3> QED
        BY <2>1, <3>1 DEF ResetSent
    <2> QED
      BY <1>2, <2>2, <2>3, <2>4
  <1> QED
    BY <1>1, <1>3, <1>4 DEF NoAnswer, OneAnswer

-----------------------------------------------------------------------------
\* Who is answered has the rows that were asked for, if their number is the same.
LEMMA SameLength ==
  ASSUME NEW sigs \in Seq(Signals), NEW h, NEW all, History(h, sigs, all), AllSteady(sigs)
  PROVE  Len(all) = Len(h[1])
  <1> DEFINE T == {m \in Nat : m \in 1..Len(h) /\ Len(h[m]) # Len(h[1])}
  <1>1. Len(sigs) \in Nat /\ Len(h) = Len(sigs) + 1 /\ h[Len(h)] = all
    BY LenProperties DEF History
  <1>2. ASSUME NEW i \in 1..Len(sigs)
        PROVE  Len(h[i + 1]) = Len(h[i])
    <2>1. Fits(sigs[i], h[i], h[i + 1]) /\ sigs[i].sig \in {"modelUpdate", "modelRowData"}
      BY DEF History, AllSteady, IsSteady
    <2> QED
      BY <2>1 DEF Fits
  <1>3. T = {}
    <2> SUFFICES ASSUME T # {} PROVE FALSE
      OBVIOUS
    <2>1. PICK m \in T : \A y \in T : m <= y
      <3>1. T \in SUBSET Nat
        OBVIOUS
      <3> HIDE DEF T
      <3> QED
        BY <3>1, LeastIsLeast
    <2>2. m \in Nat /\ m \in 1..Len(h) /\ Len(h[m]) # Len(h[1]) /\ m # 1
      OBVIOUS
    <2>3. PICK p \in 1..Len(sigs) : m = p + 1
      <3>1. m - 1 \in 1..Len(sigs) /\ m = (m - 1) + 1
        BY <1>1, <2>2
      <3> QED
        BY <3>1
    <2>4. p \in Nat /\ p \in 1..Len(h) /\ ~(m <= p)
      BY <1>1, <2>3
    <2>5. Len(h[p]) = Len(h[1])
      BY <2>1, <2>4
    <2> QED
      BY <1>2, <2>2, <2>3, <2>5
  <1>4. Len(h) \in Nat /\ Len(h) \in 1..Len(h)
    BY <1>1
  <1> QED
    BY <1>1, <1>3, <1>4

LEMMA GotAsked ==
  ASSUME NEW all \in Seq(Val), NEW start \in Nat, NEW count \in Nat \ {0},
         start + count <= Len(all)
  PROVE  Len(GetRows(all, start, count, 0).data) = count
  <1>1. GetRows(all, start, count, 0).data = SubSeq(all, start + 1, start + count)
    <2>1. ~(count < 0) /\ ~(start + count > Len(all)) /\ ~(0 > 0)
      BY LenProperties
    <2> QED
      BY <2>1 DEF GetRows
  <1>2. Len(all) \in Nat
    BY LenProperties
  <1>3. PICK m \in 1..(Len(all) + 1) : m = start + 1
    BY <1>2
  <1>4. PICK n \in 0..Len(all) : n = start + count
    BY <1>2
  <1>5. m <= n + 1 /\ n - m + 1 = count
    BY <1>3, <1>4
  <1>6. Len(SubSeq(all, m, n)) = n - m + 1
    BY <1>5, SubSeqElements
  <1> QED
    BY <1>1, <1>3, <1>4, <1>5, <1>6

-----------------------------------------------------------------------------
\* The steps.
LEMMA NewsFetching ==
  ASSUME Fetching, NEW T, Extends(signals, signals', T), \A s \in T : ~IsAnswer(s),
         UNCHANGED <<requests, model, rowCount, fetching>>
  PROVE  Fetching'
  <1>1. PICK new : new = signals'
    OBVIOUS
  <1>2. /\ NoAnswer(signals) => NoAnswer(new)
        /\ OneAnswer(signals) => OneAnswer(new)
        /\ AllSteady(new) => AllSteady(signals)
        /\ ResetSent(signals) => ResetSent(new)
        /\ AnswersFor(signals, fetching, rowCount) => AnswersFor(new, fetching, rowCount)
    BY <1>1, NewsArrives
  <1>3. OneFetch'
    BY <1>1, <1>2 DEF Fetching, OneFetch
  <1>4. model = "connected" => ResetDue(requests, new)
    BY <1>2 DEF Fetching, ResetDue
  <1>5. FetchFits => FetchFits'
    BY <1>1, <1>2 DEF FetchFits
  <1> QED
    BY <1>1, <1>3, <1>4, <1>5 DEF Fetching

LEMMA HandledFetching ==
  ASSUME Fetching, requests \in Seq(Requests), requests # <<>>, requests' = Tail(requests),
         ~IsAsk(Head(requests)),
         NEW T, Extends(signals, signals', T), \A s \in T : ~IsAnswer(s),
         Head(requests).do = "reset" /\ model = "connected" => ResetSent(signals'),
         UNCHANGED <<model, rowCount, fetching>>
  PROVE  Fetching'
  <1>1. PICK new : new = signals'
    OBVIOUS
  <1>2. /\ NoAnswer(signals) => NoAnswer(new)
        /\ OneAnswer(signals) => OneAnswer(new)
        /\ AllSteady(new) => AllSteady(signals)
        /\ ResetSent(signals) => ResetSent(new)
        /\ AnswersFor(signals, fetching, rowCount) => AnswersFor(new, fetching, rowCount)
    BY <1>1, NewsArrives
  <1>3. PICK left : left = requests'
    OBVIOUS
  <1>4. /\ OneAsk(left)
        /\ NoAsk(requests) => NoAsk(left)
        /\ ResetAsked(requests) => Head(requests).do = "reset" \/ ResetAsked(left)
        /\ AsksFor(requests, fetching, rowCount) => AsksFor(left, fetching, rowCount)
    BY <1>3, RequestTaken DEF Fetching, OneFetch
  <1>5. OneFetch'
    BY <1>1, <1>2, <1>3, <1>4 DEF Fetching, OneFetch
  <1>6. model = "connected" => ResetDue(left, new)
    BY <1>1, <1>2, <1>4 DEF Fetching, ResetDue
  <1>7. FetchFits => FetchFits'
    BY <1>1, <1>2, <1>3, <1>4 DEF FetchFits
  <1> QED
    BY <1>1, <1>3, <1>5, <1>6, <1>7 DEF Fetching

\* The signals are as they were.
LEMMA NoNews ==
  ASSUME NEW sigs \in Seq(Signals), NEW T
  PROVE  Extends(sigs, sigs, T)
  BY LenProperties DEF Extends

LEMMA ApplicationFetches ==
  ASSUME Inv, Fetching, Application
  PROVE  Fetching'
  <1> DEFINE T == {s \in Signals : ~IsAnswer(s)}
  <1>1. PICK new \in Seq(Val) : \E sigs : Announces(sigs, rows, new) /\ Announce(new, sigs)
    BY ApplicationAnnounces
  <1>2. PICK sigs : Announces(sigs, rows, new) /\ Announce(new, sigs)
    BY <1>1
  <1>3. /\ UNCHANGED <<requests, model, rowCount, fetching>>
        /\ signals' = IF ref THEN signals \o sigs ELSE signals
    BY <1>2 DEF Announce, EmitAll, pluginVars
  <1>4. signals \in Seq(Signals)
    BY DEF Inv, TypeOK
  <1>5. sigs \in Seq(Signals) /\ \A i \in 1..Len(sigs) : sigs[i] \in T
    <2>1. CASE \E s \in Signals : sigs = <<s>> /\ News(s, rows, new)
      <3>1. PICK s \in Signals : sigs = <<s>> /\ s.sig # "modelRowData"
        BY <2>1 DEF News
      <3>2. Len(sigs) = 1 /\ sigs[1] = s /\ sigs \in Seq(Signals)
        BY <3>1
      <3>3. s \in T
        BY <3>1 DEF IsAnswer
      <3> QED
        BY <3>2, <3>3
    <2>2. CASE \E s, t \in Signals, mid \in Seq(Val) :
                 sigs = <<s, t>> /\ News(s, rows, mid) /\ News(t, mid, new)
      <3>1. PICK s \in Signals, t \in Signals :
              sigs = <<s, t>> /\ s.sig # "modelRowData" /\ t.sig # "modelRowData"
        BY <2>2 DEF News
      <3>2. Len(sigs) = 2 /\ sigs[1] = s /\ sigs[2] = t /\ sigs \in Seq(Signals)
        BY <3>1
      <3>3. s \in T /\ t \in T
        BY <3>1 DEF IsAnswer
      <3>4. \A i \in 1..Len(sigs) : i = 1 \/ i = 2
        BY <3>2
      <3> QED
        BY <3>2, <3>3, <3>4
    <2> QED
      BY <1>2, <2>1, <2>2 DEF Announces
  <1>6. \A s \in T : ~IsAnswer(s)
    OBVIOUS
  <1> HIDE DEF T
  <1>7. Extends(signals, signals', T)
    <2>1. CASE ref
      <3>1. Extends(signals, signals \o sigs, T)
        BY <1>4, <1>5, ConcatExtends
      <3> QED
        BY <1>3, <2>1, <3>1
    <2>2. CASE ~ref
      <3>1. Extends(signals, signals, T)
        BY <1>4, NoNews
      <3> QED
        BY <1>3, <2>2, <3>1
    <2> QED
      BY <2>1, <2>2
  <1> QED
    BY <1>3, <1>6, <1>7, NewsFetching

LEMMA DescribeFetches ==
  ASSUME Inv, Fetching, Describe
  PROVE  Fetching'
  <1> DEFINE T == {s \in Signals : ~IsAnswer(s)}
  <1>1. /\ requests \in Seq(Requests) /\ signals \in Seq(Signals)
        /\ requests # <<>> /\ Head(requests).do = "describe" /\ requests' = Tail(requests)
        /\ UNCHANGED <<model, rowCount, fetching>>
        /\ signals' = Append(signals, Signal("described", 0, 0, 0, <<>>, 0))
    BY DEF Inv, TypeOK, Describe, HandleRequest, pluginVars
  <1>2. PICK s : s = Signal("described", 0, 0, 0, <<>>, 0)
    OBVIOUS
  <1>3. s = [sig |-> "described", start |-> 0, end |-> 0, destination |-> 0,
             data |-> <<>>, more |-> 0]
    BY <1>2 DEF Signal
  <1>4. s \in Signals /\ s \in T
    BY <1>3, EmptySeq DEF Signals, IsAnswer
  <1>5. \A t \in T : ~IsAnswer(t)
    OBVIOUS
  <1> HIDE DEF T
  <1>6. Extends(signals, signals', T)
    <2>1. Extends(signals, Append(signals, s), T)
      BY <1>1, <1>4, AppendExtends
    <2> QED
      BY <1>1, <1>2, <2>1
  <1> QED
    BY <1>1, <1>5, <1>6, HandledFetching DEF IsAsk

LEMMA SetBatchSizeFetches ==
  ASSUME Inv, Fetching, SetBatchSize
  PROVE  Fetching'
  <1>1. /\ requests \in Seq(Requests) /\ signals \in Seq(Signals)
        /\ requests # <<>> /\ Head(requests).do = "setBatchSize" /\ requests' = Tail(requests)
        /\ UNCHANGED <<model, rowCount, fetching, signals>>
    BY DEF Inv, TypeOK, SetBatchSize, HandleRequest, pluginVars
  <1>2. Extends(signals, signals', {})
    <2>1. Extends(signals, signals, {})
      BY <1>1, NoNews
    <2> QED
      BY <1>1, <2>1
  <1> QED
    BY <1>1, <1>2, HandledFetching DEF IsAsk

LEMMA ResetFetches ==
  ASSUME Inv, Fetching, Reset
  PROVE  Fetching'
  <1> DEFINE T == {s \in Signals : ~IsAnswer(s)}
  <1>1. /\ requests \in Seq(Requests) /\ signals \in Seq(Signals) /\ rows \in Seq(Val)
        /\ requests # <<>> /\ Head(requests).do = "reset" /\ requests' = Tail(requests)
        /\ UNCHANGED <<model, rowCount, fetching>>
        /\ EmitAll(<<ResetSignal(rows)>>)
    BY DEF Inv, TypeOK, Reset, HandleRequest, pluginVars
  <1>2. PICK s : s = ResetSignal(rows)
    OBVIOUS
  <1>3. s \in Signals
    BY <1>1, <1>2, ResetSays DEF Inv, TypeOK
  <1>4. s.sig = "modelReset" /\ s \in T
    BY <1>2, <1>3 DEF ResetSignal, Signal, IsAnswer
  <1>5. \A t \in T : ~IsAnswer(t)
    OBVIOUS
  <1> HIDE DEF T
  <1>6. CASE ref
    <2>1. signals' = Append(signals, s)
      <3>1. signals' = signals \o <<s>>
        BY <1>1, <1>2, <1>6 DEF EmitAll
      <3> QED
        BY <1>1, <1>3, <3>1, AppendIsConcat
    <2>2. Extends(signals, signals', T)
      <3>1. Extends(signals, Append(signals, s), T)
        BY <1>1, <1>3, <1>4, AppendExtends
      <3> QED
        BY <2>1, <3>1
    <2>3. ResetSent(signals')
      <3>1. PICK new : new = Append(signals, s)
        OBVIOUS
      <3>2. Len(signals) \in Nat /\ Len(new) = Len(signals) + 1 /\ new[Len(signals) + 1] = s
        BY <1>1, <1>3, <3>1, AppendProperties, LenProperties
      <3>3. ResetSent(new)
        BY <1>4, <3>2 DEF ResetSent
      <3> QED
        BY <2>1, <3>1, <3>3
    <2> QED
      BY <1>1, <1>5, <2>2, <2>3, HandledFetching DEF IsAsk
  <1>7. CASE ~ref
    <2>1. signals' = signals /\ model # "connected"
      BY <1>1, <1>7 DEF EmitAll, Inv
    <2>2. Extends(signals, signals', T)
      <3>1. Extends(signals, signals, T)
        BY <1>1, NoNews
      <3> QED
        BY <2>1, <3>1
    <2> QED
      BY <1>1, <1>5, <2>1, <2>2, HandledFetching DEF IsAsk
  <1> QED
    BY <1>6, <1>7

\* The answer has the rows that were asked for, unless their number changed.
LEMMA RequestRowsFetches ==
  ASSUME Inv, Fetching, RequestRows
  PROVE  Fetching'
  <1>1. /\ requests \in Seq(Requests) /\ signals \in Seq(Signals) /\ rows \in Seq(Val)
        /\ requests # <<>> /\ Head(requests).do = "requestRows" /\ requests' = Tail(requests)
        /\ UNCHANGED <<rows, model, rowCount, fetching>>
        /\ rowCount \in Int /\ fetching \in Nat \cup {NoRow}
    BY DEF Inv, TypeOK, RequestRows, HandleRequest, pluginVars
  <1>2. PICK asked \in Requests : asked = Head(requests) /\ IsAsk(asked)
    BY <1>1, HeadTailProperties DEF IsAsk
  <1>3. asked.start \in Nat /\ asked.count \in Int
    BY DEF Requests
  <1>4. PICK data : data = GetRows(rows, asked.start, asked.count, 0).data
    OBVIOUS
  <1>5. PICK s : s = Signal("modelRowData", asked.start, 0, 0, data, 0)
    OBVIOUS
  <1>6. EmitAll(<<s>>)
    BY <1>2, <1>4, <1>5 DEF RequestRows
  <1>7. data \in Seq(Val)
    BY <1>1, <1>3, <1>4, GotRows
  <1>8. s = [sig |-> "modelRowData", start |-> asked.start, end |-> 0, destination |-> 0,
             data |-> data, more |-> 0]
    BY <1>5 DEF Signal
  <1>9. s \in Signals /\ s.start = asked.start /\ s.data = data
    BY <1>3, <1>7, <1>8 DEF Signals
  <1>10. ~NoAsk(requests)
    <2>1. Len(requests) \in Nat \ {0} /\ Head(requests) = requests[1]
      BY <1>1, TailTaken
    <2>2. 1 \in 1..Len(requests) /\ IsAsk(requests[1])
      BY <1>2, <2>1
    <2> QED
      BY <2>2 DEF NoAsk
  <1>11. NoAnswer(signals) /\ fetching # NoRow
    BY <1>10 DEF Fetching, OneFetch
  <1>12. PICK left : left = Tail(requests)
    OBVIOUS
  <1>13. /\ NoAsk(left) /\ OneAsk(left) /\ ~ResetAsked(requests)
         /\ \A row, n : AsksFor(requests, row, n) =>
              AsksFor(left, row, n) /\ Covers(row, n, asked.start, asked.count)
    BY <1>1, <1>2, <1>12, RequestTaken DEF Fetching, OneFetch
  <1>14. ref
    BY <1>11 DEF Fetching, Inv
  <1>15. signals' = Append(signals, s)
    <2>1. signals' = signals \o <<s>>
      BY <1>6, <1>14 DEF EmitAll
    <2> QED
      BY <1>1, <1>9, <2>1, AppendIsConcat
  <1>16. PICK new : new = Append(signals, s)
    OBVIOUS
  <1>17. /\ OneAnswer(new)
         /\ AllSteady(new) => AllSteady(signals)
         /\ ResetSent(signals) => ResetSent(new)
         /\ \A row, n : Covers(row, n, s.start, Len(s.data)) => AnswersFor(new, row, n)
    BY <1>1, <1>9, <1>11, <1>16, AnswerArrives
  <1>18. OneFetch'
    BY <1>1, <1>11, <1>12, <1>13, <1>15, <1>16, <1>17 DEF OneFetch
  <1>19. model = "connected" => ResetDue(left, new)
    BY <1>13, <1>17 DEF Fetching, ResetDue
  <1>20. ASSUME model = "synced"
         PROVE  FetchFits'
    <2>1. AsksFor(requests, fetching, rowCount)
      BY <1>11, <1>20 DEF Fetching, FetchFits
    <2>2. AsksFor(left, fetching, rowCount) /\ Covers(fetching, rowCount, asked.start, asked.count)
      BY <1>13, <2>1
    <2>3. ASSUME AllSteady(signals)
          PROVE  Len(data) = asked.count
      <3>1. PICK h \in Seq(Seq(Val)) : Tracks(h)
        BY DEF Inv
      <3>2. History(h, signals, rows) /\ rowCount = Len(h[1])
        BY <1>20, <3>1 DEF Tracks, Follows
      <3>3. Len(rows) = rowCount
        BY <1>1, <2>3, <3>2, SameLength
      <3>4. fetching \in Nat
        BY <1>1, <1>11
      <3>5. asked.start <= fetching /\ fetching < asked.start + asked.count
            /\ asked.start + asked.count <= Len(rows)
        BY <2>2, <3>3 DEF Covers
      <3>6. asked.count \in Nat \ {0}
        BY <1>3, <3>4, <3>5
      <3> QED
        BY <1>1, <1>3, <1>4, <3>5, <3>6, GotAsked
    <2>4. AllSteady(new) => AnswersFor(new, fetching, rowCount)
      BY <1>9, <1>17, <2>2, <2>3
    <2> QED
      BY <1>1, <1>12, <1>15, <1>16, <2>2, <2>4 DEF FetchFits
  <1> QED
    BY <1>1, <1>12, <1>15, <1>16, <1>18, <1>19, <1>20 DEF Fetching

LEMMA UseFetches ==
  ASSUME Inv, Fetching, UseModel
  PROVE  Fetching'
  <1>1. /\ requests \in Seq(Requests) /\ UNCHANGED <<signals, rowCount, fetching>>
        /\ model = "unused" /\ model' = "asked"
        /\ requests' = Append(requests, Request("describe", 0, 0))
    BY DEF Inv, TypeOK, UseModel
  <1>2. PICK r : r = Request("describe", 0, 0)
    OBVIOUS
  <1>3. r \in Requests /\ ~IsAsk(r)
    BY <1>2 DEF Request, Requests, IsAsk
  <1>4. fetching = NoRow /\ NoAsk(requests) /\ NoAnswer(signals)
    BY <1>1 DEF Fetching, OneFetch
  <1>5. NoAsk(Append(requests, r)) /\ OneAsk(Append(requests, r))
    BY <1>1, <1>3, <1>4, RequestSent
  <1> QED
    BY <1>1, <1>2, <1>4, <1>5 DEF Fetching, OneFetch

LEMMA ConnectFetches ==
  ASSUME Inv, Fetching, Connect
  PROVE  Fetching'
  <1>1. /\ requests \in Seq(Requests) /\ signals \in Seq(Signals)
        /\ UNCHANGED <<rowCount, fetching>> /\ model = "asked" /\ model' = "connected"
    BY DEF Inv, TypeOK, Connect
  <1>2. fetching = NoRow /\ NoAsk(requests) /\ NoAnswer(signals)
    BY <1>1 DEF Fetching, OneFetch
  <1>3. PICK size : size = Request("setBatchSize", 0, BatchSize)
    OBVIOUS
  <1>4. PICK reset : reset = Request("reset", 0, 0)
    OBVIOUS
  <1>5. /\ size \in Requests /\ ~IsAsk(size)
        /\ reset \in Requests /\ ~IsAsk(reset) /\ reset.do = "reset"
    BY <1>3, <1>4, CacheAssumption DEF Request, Requests, IsAsk
  <1>6. PICK more : more = IF BatchSize > 0 THEN Append(requests, size) ELSE requests
    OBVIOUS
  <1>7. requests \o (IF BatchSize > 0 THEN <<size>> ELSE <<>>) = more
    <2>1. requests \o <<size>> = Append(requests, size)
      BY <1>1, <1>5, AppendIsConcat
    <2>2. requests \o <<>> = requests
      BY <1>1, ConcatEmptySeq
    <2> QED
      BY <1>6, <2>1, <2>2
  <1>8. more \in Seq(Requests) /\ NoAsk(more)
    <2>1. Append(requests, size) \in Seq(Requests) /\ NoAsk(Append(requests, size))
      BY <1>1, <1>2, <1>5, RequestSent, AppendProperties
    <2> QED
      BY <1>1, <1>2, <1>6, <2>1
  <1>9. requests' = Append(more, reset)
    <2>1. requests' = more \o <<reset>>
      BY <1>3, <1>4, <1>7 DEF Connect
    <2> QED
      BY <1>5, <1>8, <2>1, AppendIsConcat
  <1>10. LET new == Append(more, reset) IN NoAsk(new) /\ OneAsk(new) /\ ResetAsked(new)
    BY <1>5, <1>8, RequestSent
  <1>11. PICK i \in 1..Len(signals) : signals' = RemoveAt(signals, i)
    BY <1>1, LenProperties DEF Connect, TakeFirst
  <1>12. LET new == RemoveAt(signals, i) IN NoAnswer(new) /\ OneAnswer(new)
    BY <1>1, <1>2, SignalAwaited DEF Fetching, OneFetch
  <1>13. OneFetch'
    BY <1>9, <1>10, <1>11, <1>12 DEF OneFetch
  <1>14. ResetDue(requests', signals')
    BY <1>9, <1>10, <1>11, <1>12 DEF ResetDue
  <1> QED
    BY <1>1, <1>2, <1>13, <1>14 DEF Fetching

LEMMA ReadFetches ==
  ASSUME Fetching, NEW row, ReadCached(row)
  PROVE  Fetching'
  <1>1. UNCHANGED <<requests, signals, model, rowCount, fetching>>
    BY DEF ReadCached
  <1> QED
    BY <1>1 DEF Fetching, OneFetch, FetchFits

\* Who asks waits for no other row, and asks for rows that the model has.
LEMMA FetchFetches ==
  ASSUME Inv, Fetching, NEW row \in Nat, FetchRow(row)
  PROVE  Fetching'
  <1>1. /\ requests \in Seq(Requests) /\ rowCount \in Int /\ DOMAIN cache \in SUBSET Nat
        /\ UNCHANGED <<signals, model, rowCount>> /\ fetching' = row
        /\ model \in {"connected", "synced"} /\ fetching = NoRow
        /\ row < rowCount /\ row \notin DOMAIN cache
    BY DEF Inv, TypeOK, FetchRow
  <1>2. NoAsk(requests) /\ NoAnswer(signals)
    BY <1>1 DEF Fetching, OneFetch
  <1>3. PICK window : window = FetchWindow(DOMAIN cache, rowCount, row)
    OBVIOUS
  <1>4. PICK r : r = Request("requestRows", window.start, window.end - window.start + 1)
    OBVIOUS
  <1>5. requests' = Append(requests, r)
    BY <1>3, <1>4 DEF FetchRow
  <1>6. window.start \in Nat /\ window.end \in Int
    BY <1>1, <1>3, WindowTyped
  <1>7. r \in Requests /\ r.start = window.start /\ r.count = window.end - window.start + 1
    BY <1>4, <1>6 DEF Request, Requests
  <1>8. PICK new : new = Append(requests, r)
    OBVIOUS
  <1>9. /\ OneAsk(new) /\ (ResetAsked(requests) => ResetAsked(new))
        /\ Covers(row, rowCount, r.start, r.count) => AsksFor(new, row, rowCount)
    BY <1>1, <1>2, <1>7, <1>8, RequestSent
  <1>10. OneFetch'
    BY <1>1, <1>2, <1>5, <1>8, <1>9 DEF OneFetch, NoRow, NoAnswer, OneAnswer
  <1>11. model = "connected" => ResetDue(new, signals)
    BY <1>9 DEF Fetching, ResetDue
  <1>12. ASSUME model = "synced"
         PROVE  FetchFits'
    <2>1. DOMAIN cache \in SUBSET (0..(rowCount - 1))
      <3>1. PICK h \in Seq(Seq(Val)) : Tracks(h)
        BY DEF Inv
      <3> QED
        BY <1>12, <3>1, SyncedFollows DEF Follows
    <2>2. rowCount \in Nat /\ row \in 0..(rowCount - 1)
      BY <1>1
    <2>3. /\ window.start \in 0..row /\ window.end \in row..(rowCount - 1)
          /\ BatchSize > 0 => window.end - window.start <= BatchSize
      BY <1>1, <1>3, <2>1, <2>2, WindowHasRow
    <2>4. Covers(row, rowCount, r.start, r.count)
      BY <1>1, <1>6, <1>7, <2>3, CacheAssumption DEF Covers
    <2>5. AnswersFor(signals, row, rowCount)
      BY <1>2 DEF NoAnswer, AnswersFor
    <2> QED
      BY <1>1, <1>5, <1>8, <1>9, <2>4, <2>5 DEF FetchFits
  <1> QED
    BY <1>1, <1>5, <1>8, <1>10, <1>11, <1>12 DEF Fetching

LEMMA AnswerFetches ==
  ASSUME Inv, Fetching, FetchAnswer
  PROVE  Fetching'
  <1>1. /\ signals \in Seq(Signals) /\ UNCHANGED <<requests, model, rowCount>>
        /\ fetching' = NoRow
    BY DEF Inv, TypeOK, FetchAnswer
  <1>2. PICK i \in 1..Len(signals) : signals[i].sig = "modelRowData" /\ signals' = RemoveAt(signals, i)
    BY <1>1, LenProperties DEF FetchAnswer, TakeFirst
  <1>3. ~NoAnswer(signals) /\ NoAsk(requests) /\ OneAsk(requests) /\ OneAnswer(signals)
    BY <1>2 DEF NoAnswer, IsAnswer, Fetching, OneFetch
  <1>4. LET new == RemoveAt(signals, i)
        IN NoAnswer(new) /\ OneAnswer(new) /\ (ResetSent(signals) => ResetSent(new))
    BY <1>1, <1>2, <1>3, SignalAwaited DEF IsAnswer
  <1>5. OneFetch'
    BY <1>1, <1>2, <1>3, <1>4 DEF OneFetch
  <1>6. model = "connected" => ResetSent(signals')
    BY <1>2, <1>3, <1>4 DEF Fetching, ResetDue
  <1> QED
    BY <1>1, <1>5, <1>6 DEF Fetching, ResetDue

\* The slots run while nobody waits.
LEMMA SlotsFetch ==
  ASSUME Inv, Fetching, NEW sig, Receive(sig),
         model' = "connected" => model = "connected" /\ sig # "modelReset"
  PROVE  Fetching'
  <1>1. /\ signals \in Seq(Signals) /\ signals # <<>> /\ signals' = Tail(signals)
        /\ UNCHANGED <<requests, fetching>> /\ Head(signals).sig = sig
        /\ fetching = NoRow
    BY Received DEF Receive
  <1>2. NoAsk(requests) /\ OneAsk(requests) /\ NoAnswer(signals)
    BY <1>1 DEF Fetching, OneFetch
  <1>3. LET new == Tail(signals)
        IN /\ NoAnswer(new) /\ OneAnswer(new)
           /\ ResetSent(signals) /\ Head(signals).sig # "modelReset" => ResetSent(new)
    BY <1>1, <1>2, SignalTaken
  <1>4. OneFetch'
    BY <1>1, <1>2, <1>3 DEF OneFetch
  <1>5. model' = "connected" => ResetDue(requests, Tail(signals))
    BY <1>1, <1>3 DEF Fetching, ResetDue
  <1> QED
    BY <1>1, <1>4, <1>5 DEF Fetching

LEMMA InitFetching == Init => Fetching
  <1> SUFFICES ASSUME Init
               PROVE  Fetching
    OBVIOUS
  <1>1. 1..Len(requests) = {} /\ 1..Len(signals) = {}
    BY DEF Init
  <1> QED
    BY <1>1 DEF Init, Fetching, OneFetch, NoAsk, NoAnswer, OneAsk, OneAnswer

LEMMA NextFetching == Inv /\ Fetching /\ [Next]_vars => Fetching'
  <1> SUFFICES ASSUME Inv, Fetching, [Next]_vars
               PROVE  Fetching'
    OBVIOUS
  <1>1. CASE Application
    BY <1>1, ApplicationFetches
  <1>2. CASE Process
    BY <1>2, DescribeFetches, SetBatchSizeFetches, ResetFetches, RequestRowsFetches DEF Process
  <1>3. CASE Connect
    BY <1>3, ConnectFetches
  <1>4. CASE Slots
    <2>1. CASE DoReset
      <3>1. Receive("modelReset") /\ model' = "synced"
        BY <2>1 DEF DoReset
      <3> QED
        BY <3>1, SlotsFetch
    <2>2. CASE DoInsert \/ DoRemove \/ DoMove \/ DoUpdate
      <3>1. /\ UNCHANGED model
            /\ \E sig \in {"modelInsert", "modelRemove", "modelMove", "modelUpdate"} : Receive(sig)
        BY <2>2 DEF DoInsert, DoRemove, DoMove, DoUpdate
      <3> QED
        BY <3>1, SlotsFetch
    <2> QED
      BY <1>4, <2>1, <2>2 DEF Slots
  <1>5. CASE View
    <2>1. CASE \E row \in 0..(rowCount - 1) : ReadCached(row) \/ FetchRow(row)
      <3>1. PICK row \in 0..(rowCount - 1) : ReadCached(row) \/ FetchRow(row)
        BY <2>1
      <3>2. row \in Nat
        BY DEF Inv, TypeOK
      <3> QED
        BY <3>1, <3>2, ReadFetches, FetchFetches
    <2> QED
      BY <1>5, <2>1, UseFetches DEF View
  <1>6. CASE FetchAnswer
    BY <1>6, AnswerFetches
  <1>7. CASE UNCHANGED vars
    BY <1>7 DEF vars, backendVars, pluginVars, Fetching, OneFetch, FetchFits
  <1> QED
    BY <1>1, <1>2, <1>3, <1>4, <1>5, <1>6, <1>7 DEF Next

LEMMA SpecFetching == Spec => [](Inv /\ Fetching)
  BY InitInv, NextInv, InitFetching, NextFetching, PTL DEF Spec

-----------------------------------------------------------------------------
\* No row of an answer is further from its middle than the rows that the cache is
\* certain to keep, or the cache is never cleaned.
RoomForFetch ==
  CacheSize < 2 \/ (BatchSize > 0 /\ 2 * ((BatchSize + 1) \div 2) < CacheSize)

LEMMA AnswerFound ==
  ASSUME RoomForFetch, Inv, Fetching, FetchAnswer, AllSteady(signals)
  PROVE  fetching \in DOMAIN cache'
  <1>1. /\ signals \in Seq(Signals) /\ rowCount \in Int /\ fetching \in Nat
        /\ fetching # NoRow /\ DOMAIN cache \in SUBSET Nat
    BY DEF Inv, TypeOK, FetchAnswer
  <1>2. PICK i \in 1..Len(signals) :
          signals[i].sig = "modelRowData" /\ DoRowData(signals[i].start, signals[i].data)
    BY <1>1, LenProperties DEF FetchAnswer, TakeFirst
  <1>3. PICK s \in Signals : s = signals[i] /\ IsAnswer(s)
    BY <1>1, <1>2, ElementOfSeq DEF IsAnswer
  <1>4. s.start \in Nat /\ s.data \in Seq(Val) /\ Len(s.data) \in Nat
    BY SignalTyped
  <1>5. model = "synced"
    <2>1. ~ResetSent(signals)
      BY DEF ResetSent, AllSteady, IsSteady
    <2>2. ~NoAnswer(signals)
      BY <1>3 DEF NoAnswer
    <2> QED
      BY <1>1, <2>1, <2>2 DEF Fetching, ResetDue
  <1>6. Covers(fetching, rowCount, s.start, Len(s.data))
    BY <1>1, <1>3, <1>5 DEF Fetching, FetchFits, AnswersFor
  <1>7. /\ s.start <= fetching /\ fetching < s.start + Len(s.data)
        /\ s.start + Len(s.data) <= rowCount
        /\ BatchSize > 0 => Len(s.data) <= BatchSize + 1
    BY <1>6 DEF Covers
  <1>8. Len(s.data) > 0 /\ s.data # <<>>
    BY <1>1, <1>4, <1>7, EmptySeq
  <1>9. PICK all : all = Overlay(cache, s.start, s.data)
    OBVIOUS
  <1>10. PICK hint : hint = s.start + Len(s.data) \div 2
    OBVIOUS
  <1>11. cache' = CleanRowCache(all, hint)
    BY <1>2, <1>3, <1>7, <1>8, <1>9, <1>10 DEF DoRowData
  <1>12. PICK n \in Nat : n = rowCount
    BY <1>1, <1>4, <1>7
  <1>13. DOMAIN all = DOMAIN cache \cup s.start..(s.start + Len(s.data) - 1)
    BY <1>9 DEF Overlay
  <1>14. DOMAIN all \in SUBSET (0..n) /\ fetching \in DOMAIN all
    <2>1. PICK h \in Seq(Seq(Val)) : Tracks(h)
      BY DEF Inv
    <2>2. DOMAIN cache \subseteq 0..(rowCount - 1)
      BY <1>5, <2>1, SyncedFollows DEF Follows
    <2> QED
      BY <1>1, <1>4, <1>7, <1>12, <1>13, <2>2
  <1>15. hint \in Nat /\ 2 * Distance(fetching, hint) <= Len(s.data)
    <2>1. PICK l \in Nat : l = Len(s.data)
      BY <1>4
    <2>2. PICK half \in Nat : half = l \div 2 /\ 2 * half <= l /\ l <= 2 * half + 1
      OBVIOUS
    <2>3. hint = s.start + half
      BY <1>10, <2>1, <2>2
    <2>4. PICK at \in Nat : fetching = s.start + at /\ at < l
      <3>1. fetching - s.start \in Nat /\ fetching - s.start < l
        BY <1>1, <1>4, <1>7, <2>1
      <3> QED
        BY <1>1, <1>4, <3>1
    <2>5. /\ fetching >= hint => Distance(fetching, hint) = at - half
          /\ ~(fetching >= hint) => Distance(fetching, hint) = half - at
      BY <1>4, <2>3, <2>4 DEF Distance
    <2>6. PICK far \in Int : far = Distance(fetching, hint) /\ far <= half
      BY <2>2, <2>4, <2>5
    <2>7. 2 * far <= l
      BY <2>2, <2>6
    <2> QED
      BY <1>4, <2>1, <2>3, <2>6, <2>7
  <1>16. CacheSize < 2 \/ 2 * Distance(fetching, hint) < CacheSize
    <2>1. PICK far \in Int : far = Distance(fetching, hint)
      <3>1. Distance(fetching, hint) \in Int
        BY <1>1, <1>15 DEF Distance
      <3> QED
        BY <3>1
    <2>2. CASE ~(CacheSize < 2)
      <3>1. PICK b \in Nat : b = BatchSize
        BY CacheAssumption
      <3>2. 2 * far <= b + 1
        BY <1>4, <1>7, <1>15, <2>1, <2>2, <3>1 DEF RoomForFetch
      <3>3. PICK half \in Nat : half = (b + 1) \div 2 /\ b + 1 <= 2 * half + 1
        BY <3>1
      <3>4. 2 * half < CacheSize
        BY <2>2, <3>1, <3>3 DEF RoomForFetch
      <3>5. far <= half
        BY <3>2, <3>3
      <3> QED
        BY <2>1, <3>4, <3>5, CacheAssumption
    <2> QED
      BY <2>2
  <1> QED
    BY <1>11, <1>14, <1>15, <1>16, CleanKeepsNear

\* A read that blocks finds the row it asked for when its answer comes, unless a
\* signal that reshapes the model was on its way (qbackendmodel.cpp:198): whatever
\* the application did meanwhile, and although the answer is the middle of a batch
\* and the cache is cleaned around it.  The code's batches of 100 rows and its cache
\* of 1000 (qbackendmodel_p.h:20) leave room for an answer.
THEOREM FetchFinds ==
  ASSUME RoomForFetch
  PROVE  Spec => FetchFindsRow
  <1>1. Inv /\ Fetching /\ [Next]_vars =>
          [fetching # NoRow /\ fetching' = NoRow
             /\ (\A i \in DOMAIN signals : signals[i].sig \in {"modelUpdate", "modelRowData"})
           => fetching \in DOMAIN cache']_vars
    <2> SUFFICES ASSUME Inv, Fetching, Next, fetching # NoRow, fetching' = NoRow,
                        \A i \in DOMAIN signals : signals[i].sig \in {"modelUpdate", "modelRowData"}
                 PROVE  fetching \in DOMAIN cache'
      BY DEF vars, pluginVars
    <2>1. AllSteady(signals)
      BY LenProperties DEF Inv, TypeOK, AllSteady, IsSteady
    <2>2. FetchAnswer
      <3>1. UNCHANGED fetching \/ (\E row \in 0..(rowCount - 1) : FetchRow(row)) \/ FetchAnswer
        <4>1. CASE Application
          <5>1. PICK new, sigs : Announce(new, sigs)
            BY <4>1, ApplicationAnnounces
          <5> QED
            BY <5>1 DEF Announce, pluginVars
        <4>2. CASE Process
          BY <4>2 DEF Process, Describe, SetBatchSize, Reset, RequestRows, HandleRequest, pluginVars
        <4>3. CASE Connect \/ Slots
          BY <4>3 DEF Connect, Slots, DoReset, DoInsert, DoRemove, DoMove, DoUpdate, Receive
        <4>4. CASE View
          BY <4>4 DEF View, UseModel, ReadCached
        <4> QED
          BY <4>1, <4>2, <4>3, <4>4 DEF Next
      <3>2. \A row : ~FetchRow(row)
        BY DEF FetchRow
      <3> QED
        BY <3>1, <3>2
    <2> QED
      BY <2>1, <2>2, AnswerFound
  <1> QED
    BY <1>1, SpecFetching, PTL DEF Spec, FetchFindsRow
================================================================================
