------------------------------ MODULE ModelSync ------------------------------
(***************************************************************************)
(* A list model kept in two places: the application's rows, announced by the *)
(* methods of Model (backend/model.go, modelsort.go), and their sparse copy   *)
(* in a QBackendModel (plugin/qbackendmodel.cpp), which blocks to fetch rows  *)
(* it does not have.  Between them are the requests and the signals of the    *)
(* internal object _qb_model.                                                 *)
(***************************************************************************)
EXTENDS RowCache, SequencesExt

CONSTANTS Val,         \* the contents of a row, numbers that RowLess compares
          Rows0,       \* the application's rows at first
          MaxRows,     \* the application has no more rows (model bound)
          MaxChanges,  \* nor makes more changes (model bound)
          InOrder      \* TRUE: rows are given to SortModelInserted in order

ASSUME ModelAssumption ==
  /\ Val \subseteq Int /\ Rows0 \in Seq(Val)
  /\ MaxRows \in Nat /\ MaxChanges \in Nat
  /\ InOrder \in BOOLEAN

VARIABLES rows,      \* the application's rows
          batch,     \* modelAPI.BatchSize
          ref,       \* the client has a reference on the modelAPI
          changes,   \* changes the application has made
          requests,  \* to the backend
          signals,   \* to the plugin
          model,     \* how far the plugin's model is set up
          rowCount,  \* m_rowCount
          cache,     \* m_rowData
          fetching,  \* the row that fetchRow waits for, or NoRow
          overtook   \* an answer was taken past a signal that renumbers rows

backendVars == <<rows, batch, ref, changes>>
pluginVars  == <<model, rowCount, cache, fetching, overtook>>
vars == <<backendVars, requests, signals, pluginVars>>

NoRow == -1
Request(do, start, count) == [do |-> do, start |-> start, count |-> count]
Signal(sig, start, end, destination, data, more) ==
  [sig |-> sig, start |-> start, end |-> end, destination |-> destination,
   data |-> data, more |-> more]

Requests == [do : {"describe", "setBatchSize", "reset", "requestRows"}, start : Nat, count : Int]
Signals ==
  [sig : {"described", "modelReset", "modelInsert", "modelRemove", "modelMove",
          "modelUpdate", "modelRowData"},
   start : Nat, end : Int, destination : Nat, data : Seq(Val), more : Nat]

TypeOK ==
  /\ rows \in Seq(Val)
  /\ batch \in Nat /\ ref \in BOOLEAN /\ changes \in 0..MaxChanges
  /\ requests \in Seq(Requests)
  /\ signals \in Seq(Signals)
  /\ model \in {"unused", "asked", "connected", "synced"}
  /\ rowCount \in Int
  /\ DOMAIN cache \subseteq Nat /\ \A k \in DOMAIN cache : cache[k] \in Val
  /\ fetching \in Nat \cup {NoRow}
  /\ overtook \in BOOLEAN

Init ==
  /\ rows = Rows0 /\ batch = 0 /\ ref = FALSE /\ changes = 0
  /\ requests = <<>> /\ signals = <<>>
  /\ model = "unused" /\ rowCount = 0 /\ cache = EmptyCache
  /\ fetching = NoRow /\ overtook = FALSE

-----------------------------------------------------------------------------
\* modelAPI.getRows: the rows from start on, at most size of them, and how many
\* were left out.  A negative count is for all.
GetRows(all, start, count, size) ==
  LET wanted == IF count < 0 THEN Len(all) - start ELSE count
      from   == IF start + wanted > Len(all) THEN Lower(start, Len(all)) ELSE start
      found  == IF start + wanted > Len(all) THEN Len(all) - from ELSE wanted
      sent   == IF size > 0 THEN Lower(found, size) ELSE found
  IN [data |-> SubSeq(all, from + 1, from + sent), more |-> found - sent]

ResetSignal(all) ==
  LET got == GetRows(all, 0, -1, batch) IN Signal("modelReset", 0, 0, 0, got.data, got.more)

\* Model.Inserted.
InsertSignal(all, start, count) ==
  LET got == GetRows(all, start, count, batch)
  IN Signal("modelInsert", start, 0, 0, got.data, got.more)

\* A mistake: Model.Removed names the row after the last one.
RemoveSignalPastEnd(start, count) == Signal("modelRemove", start, start + count, 0, <<>>, 0)

\* Model.Removed, Model.Moved and Model.Updated.
RemoveSignal(start, count) == Signal("modelRemove", start, start + count - 1, 0, <<>>, 0)
MoveSignal(start, count, destination) ==
  Signal("modelMove", start, start + count - 1, destination, <<>>, 0)
UpdateSignal(all, row) == Signal("modelUpdate", row, 0, 0, <<all[row + 1]>>, 0)

\* Emit does nothing for an object the client has no reference on.
EmitAll(sigs) == signals' = IF ref THEN signals \o sigs ELSE signals

\* The application changes its rows and says so.
Announce(newRows, sigs) ==
  /\ changes < MaxChanges /\ changes' = changes + 1
  /\ Len(newRows) <= MaxRows
  /\ rows' = newRows
  /\ EmitAll(sigs)
  /\ UNCHANGED <<batch, ref, requests, pluginVars>>

\* New rows are at most three, or two that are sorted in (model bounds).
NewRows(most) == UNION {[1..n -> Val] : n \in 1..most}

AppReset ==
  \E new \in NewRows(3) \cup {<<>>} : Announce(new, <<ResetSignal(new)>>)

AppInsert ==
  \E start \in 0..Len(rows), new \in NewRows(3) :
    LET all == InsertRows(rows, start, new)
    IN Announce(all, <<InsertSignal(all, start, Len(new))>>)

AppRemove ==
  \E start \in 0..(Len(rows) - 1), count \in 1..2 :
    /\ start + count <= Len(rows)
    /\ Announce(RemoveRows(rows, start, count), <<RemoveSignal(start, count)>>)

AppMove ==
  \E start \in 0..(Len(rows) - 1), count \in 1..2, destination \in 0..Len(rows) :
    /\ start + count <= Len(rows)
    /\ destination \notin start..(start + count)
    /\ Announce(MoveRows(rows, start, count, destination),
                <<MoveSignal(start, count, destination)>>)

AppUpdate ==
  \E row \in 0..(Len(rows) - 1), v \in Val :
    LET all == ReplaceAt(rows, row + 1, v) IN Announce(all, <<UpdateSignal(all, row)>>)

-----------------------------------------------------------------------------
\* SortModelInserted moves each of the new rows to its place and announces runs
\* of neighbours.  so.rows is the list so far, so.first..so.last the run that is
\* not announced yet (none: -1), so.sigs what was announced.
Place(all, i) ==   \* sort.Search among the rows before i
  Least({j \in 0..i : j = i \/ all[i + 1] < all[j + 1]})

SortStep(so, i) ==
  LET n     == Place(so.rows, i)
      moved == InsertRows(RemoveRows(so.rows, i, 1), n, <<so.rows[i + 1]>>)
  IN IF so.first < 0
     THEN [so EXCEPT !.rows = moved, !.first = n, !.last = n]
     ELSE IF n \in so.first..(so.last + 1)
     THEN [so EXCEPT !.rows = moved, !.last = @ + 1]
     ELSE [rows |-> moved, first |-> n, last |-> n,
           sigs |-> Append(so.sigs, InsertSignal(moved, so.first, so.last - so.first + 1))]

\* so[i] is after the rows start..(i - 1).
SortModelInserted(all, start, end) ==
  LET so[i \in start..end] ==
        IF i = start THEN [rows |-> all, first |-> -1, last |-> -1, sigs |-> <<>>]
        ELSE SortStep(so[i - 1], i - 1)
      last == so[end]
  IN [rows |-> last.rows,
      sigs |-> IF last.first < 0 THEN last.sigs
               ELSE Append(last.sigs, InsertSignal(last.rows, last.first, last.last - last.first + 1))]

Sorted(all) == \A i \in 1..(Len(all) - 1) : all[i] <= all[i + 1]

\* New rows are appended to sorted ones, and then sorted in.
AppSortInserted ==
  \E new \in NewRows(2) :
    /\ Sorted(rows) /\ (InOrder => Sorted(new))
    /\ LET so == SortModelInserted(rows \o new, Len(rows), Len(rows) + Len(new))
       IN Announce(so.rows, so.sigs)

-----------------------------------------------------------------------------
\* Process handles a request; what it makes the modelAPI emit is the answer.
HandleRequest(do) ==
  /\ requests # <<>> /\ Head(requests).do = do
  /\ requests' = Tail(requests)
  /\ UNCHANGED <<rows, changes, pluginVars>>

\* OBJECT_REF and OBJECT_QUERY of the modelAPI.
Describe ==
  /\ HandleRequest("describe")
  /\ ref' = TRUE
  /\ signals' = Append(signals, Signal("described", 0, 0, 0, <<>>, 0))
  /\ UNCHANGED batch

SetBatchSize ==
  /\ HandleRequest("setBatchSize")
  /\ batch' = Higher(Head(requests).count, 0)
  /\ UNCHANGED <<ref, signals>>

Reset ==
  /\ HandleRequest("reset")
  /\ EmitAll(<<ResetSignal(rows)>>)
  /\ UNCHANGED <<batch, ref>>

RequestRows ==
  /\ HandleRequest("requestRows")
  /\ LET asked == Head(requests)
         got   == GetRows(rows, asked.start, asked.count, 0)
     IN EmitAll(<<Signal("modelRowData", asked.start, 0, 0, got.data, 0)>>)
  /\ UNCHANGED <<batch, ref>>

-----------------------------------------------------------------------------
\* ensureModel: the first use of the model reads _qb_model, which blocks for its
\* description; signals that came before it are handled afterwards.
UseModel ==
  /\ model = "unused" /\ model' = "asked"
  /\ requests' = Append(requests, Request("describe", 0, 0))
  /\ UNCHANGED <<backendVars, signals, rowCount, cache, fetching, overtook>>

\* A mistake: only the next signal is looked at.
TakeNext(sig, i) ==
  /\ i = 1 /\ i \in DOMAIN signals /\ signals[i].sig = sig
  /\ signals' = RemoveAt(signals, i)

\* The first signal of a kind is taken out of the others.
TakeFirst(sig, i) ==
  /\ i \in DOMAIN signals /\ signals[i].sig = sig
  /\ \A j \in 1..(i - 1) : signals[j].sig # sig
  /\ signals' = RemoveAt(signals, i)

Connect ==
  /\ model = "asked" /\ model' = "connected"
  /\ \E i \in DOMAIN signals : TakeFirst("described", i)
  /\ requests' = requests
       \o (IF BatchSize > 0 THEN <<Request("setBatchSize", 0, BatchSize)>> ELSE <<>>)
       \o <<Request("reset", 0, 0)>>
  /\ UNCHANGED <<backendVars, rowCount, cache, fetching, overtook>>

Receive(sig) ==
  /\ model \in {"connected", "synced"} /\ fetching = NoRow
  /\ signals # <<>> /\ Head(signals).sig = sig
  /\ signals' = Tail(signals)
  /\ UNCHANGED <<backendVars, requests, fetching>>

\* A mistake: the rows of before the reset are kept.
DoResetOverOld ==
  /\ Receive("modelReset")
  /\ LET s == Head(signals) IN
     /\ cache' = Overlay(cache, 0, s.data)
     /\ rowCount' = Len(s.data) + s.more
  /\ model' = "synced"
  /\ overtook' = FALSE

DoReset ==
  /\ Receive("modelReset")
  /\ LET s == Head(signals) IN
     /\ cache' = Overlay(EmptyCache, 0, s.data)
     /\ rowCount' = Len(s.data) + s.more
  /\ model' = "synced"
  /\ overtook' = FALSE

\* A mistake: rows that were announced without their data are not counted.
DoInsertCountingData ==
  /\ Receive("modelInsert")
  /\ LET s    == Head(signals)
         size == Len(s.data)
     IN /\ cache' = InsertInCache(cache, s.start, s.data, size)
        /\ rowCount' = rowCount + size
  /\ UNCHANGED <<model, overtook>>

DoInsert ==
  /\ Receive("modelInsert")
  /\ LET s    == Head(signals)
         size == Len(s.data) + s.more
     IN IF size < 1 THEN UNCHANGED <<cache, rowCount>>
        ELSE /\ cache' = InsertInCache(cache, s.start, s.data, size)
             /\ rowCount' = rowCount + size
  /\ UNCHANGED <<model, overtook>>

DoRemove ==
  /\ Receive("modelRemove")
  /\ LET s == Head(signals) IN
     /\ cache' = RemoveFromCache(cache, s.start, s.end)
     /\ rowCount' = rowCount - (s.end - s.start + 1)
  /\ UNCHANGED <<model, overtook>>

DoMove ==
  /\ Receive("modelMove")
  /\ LET s == Head(signals)
     IN cache' = MoveInCache(cache, s.start, s.end, s.destination)
  /\ UNCHANGED <<model, rowCount, overtook>>

DoUpdate ==
  /\ Receive("modelUpdate")
  /\ LET s == Head(signals)
     IN cache' = IF s.start < rowCount THEN Overlay(cache, s.start, s.data) ELSE cache
  /\ UNCHANGED <<model, rowCount, overtook>>

\* data(): a row in the cache is returned, and the cache cleaned; for another
\* one fetchRow asks and blocks.
ReadCached(row) ==
  /\ model \in {"connected", "synced"} /\ fetching = NoRow
  /\ row < rowCount /\ row \in DOMAIN cache
  /\ cache' = CleanRowCache(cache, row)
  /\ UNCHANGED <<backendVars, requests, signals, model, rowCount, fetching, overtook>>

FetchRow(row) ==
  /\ model \in {"connected", "synced"} /\ fetching = NoRow
  /\ row < rowCount /\ row \notin DOMAIN cache
  /\ fetching' = row
  /\ LET window == FetchWindow(DOMAIN cache, rowCount, row)
     IN requests' = Append(requests, Request("requestRows", window.start,
                                             window.end - window.start + 1))
  /\ UNCHANGED <<backendVars, signals, model, rowCount, cache, overtook>>

\* A mistake: the cache is cleaned around the first of the rows.
DoRowDataFromStart(start, data) ==
  cache' = IF data # <<>> /\ start + Len(data) <= rowCount
           THEN CleanRowCache(Overlay(cache, start, data), start)
           ELSE cache

DoRowData(start, data) ==
  cache' = IF data # <<>> /\ start + Len(data) <= rowCount
           THEN CleanRowCache(Overlay(cache, start, data), start + Len(data) \div 2)
           ELSE cache

Renumbers(s) == s.sig \in {"modelInsert", "modelRemove", "modelMove"}

\* waitForMessage takes the answer past everything that was sent before it.
FetchAnswer ==
  /\ fetching # NoRow /\ fetching' = NoRow
  /\ \E i \in DOMAIN signals :
       /\ TakeFirst("modelRowData", i)
       /\ DoRowData(signals[i].start, signals[i].data)
       /\ overtook' = (overtook \/ \E j \in 1..(i - 1) : Renumbers(signals[j]))
  /\ UNCHANGED <<backendVars, requests, model, rowCount>>

-----------------------------------------------------------------------------
Application ==
  AppReset \/ AppInsert \/ AppRemove \/ AppMove \/ AppUpdate \/ AppSortInserted
Process == Describe \/ SetBatchSize \/ Reset \/ RequestRows
Slots == DoReset \/ DoInsert \/ DoRemove \/ DoMove \/ DoUpdate
View == UseModel \/ \E row \in 0..(rowCount - 1) : ReadCached(row) \/ FetchRow(row)

Next == Application \/ Process \/ Connect \/ Slots \/ View \/ FetchAnswer

Spec == Init /\ [][Next]_vars

\* The backend handles what it is asked; the plugin handles what it gets.
Fairness == WF_vars(Process) /\ WF_vars(Connect) /\ SF_vars(Slots) /\ WF_vars(FetchAnswer)
FairSpec == Spec /\ Fairness

-----------------------------------------------------------------------------
\* Everything announced has been applied.
Quiet == model = "synced" /\ requests = <<>> /\ signals = <<>> /\ fetching = NoRow

\* "When data changes, you must call Model's methods to notify the client of the
\* change" (model.go:10): who does so has the same rows on both sides.
RowsAgree == Quiet => AgreesWith(cache, rows)

\* They differ only after a fetched row was taken past a signal that renumbers
\* rows (qbackendmodel.cpp:188), and until the next reset; not for what the
\* application calls to tell of its changes, SortModelInserted among it, which
\* is to "sort newly inserted rows ... and emit signals" (modelsort.go:21).
RowsAgreeUnlessOvertaken == Quiet /\ ~overtook => AgreesWith(cache, rows)

\* The number of rows agrees in any case.
RowCountAgrees == Quiet => rowCount = Len(rows)

\* No row is stored outside the model (qbackendmodel.cpp:363), and no signal names
\* rows that the plugin's model does not have (beginInsertRows, beginRemoveRows
\* and beginMoveRows assert it), once there was a reset.
CacheInBounds == model = "synced" => DOMAIN cache \subseteq 0..(rowCount - 1)

InRange(s) ==
  CASE s.sig = "modelInsert" -> s.start <= rowCount
    [] s.sig = "modelRemove" -> s.end < rowCount
    [] s.sig = "modelMove"   -> s.end < rowCount /\ s.destination <= rowCount
    [] s.sig = "modelUpdate" -> s.start < rowCount
    [] OTHER -> TRUE
SignalsInRange ==
  model = "synced" /\ signals # <<>> /\ fetching = NoRow => InRange(Head(signals))

\* A read that blocks finds the row it asked for, unless a signal that reshapes
\* the model was on its way (qbackendmodel.cpp:198); it never waits for ever.
FetchFindsRow ==
  [][fetching # NoRow /\ fetching' = NoRow
       /\ (\A i \in DOMAIN signals : signals[i].sig \in {"modelUpdate", "modelRowData"})
     => fetching \in DOMAIN cache']_vars
FetchEnds == fetching # NoRow ~> fetching = NoRow
=============================================================================
