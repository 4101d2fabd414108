# qbackend in TLA+

qbackend lets a Go program (the *backend*) publish objects to QML (the *plugin*, or
client). The backend is `backend/`, the plugin `plugin/`. Both sides hold a picture of the
same objects and keep the pictures together over one stream of messages. This directory
models that: which objects exist, who holds them, what is in flight, and which goroutine
runs when.

## The system

| Part | Code | State | Operations | Where it interacts |
|---|---|---|---|---|
| Registry | `backend/object.go`, `connection.go` | objects by identifier; per object the client's reference (a boolean), `refCount`, `refChildren`, the grace time; `knownTypes` | the commands `OBJECT_REF`, `OBJECT_DEREF`, `OBJECT_QUERY`, `OBJECT_CREATE`, `INVOKE`; signals, property updates, `InitObject`; collection | reads the wire in `Process`, writes it from `Process` and from the application |
| Goroutines | `connection.go`, `lockable.go` | `queue`, `processSignal`, `err`; the lock's two channels | `handle`, `Run`, `RunLockable`, `Process`, `Lock`, `Unlock` | channels between the reader, the runner and the application |
| Dispatch | `plugin/qbackendconnection.cpp` | the handshake state, `m_pendingMessages`, `m_syncCallback`, `m_syncResult` | `handleMessage`, `waitForMessage` (blocks, may nest) | the socket, the event loop, the JavaScript engine |
| Proxies | `qbackendconnection.cpp`, `qbackendobject.cpp` | `m_objects`, `m_typeCache`; per proxy the received properties | creation on first mention, replacement of a doomed proxy, deletion, blocking property read, calls | the engine's garbage collector, the wire |
| Promises | `promise.cpp`, `qbackendobject.cpp` | `m_promises` by return identifier | call, resolve, reject | `INVOKE_RETURN` |
| Model | `model.go`, `modelsort.go`, `qbackendmodel.cpp` | the rows; the plugin's sparse cache of them | reset, insert, remove, move, update, blocking fetch | signals of `_qb_model` |
| Types | `type.go`, the meta objects of `qbackendobject.cpp` | a table of parsed types | reflection | descriptions in messages |
| Framing | both connection files | a byte buffer | size, blob, newline | the socket |
| Wrappers | `qmlscene`, `qbackendprocess.cpp`, `plugin.cpp`, `instantiable.h` | none to speak of | start, connect, register types | |

What is hard here: three garbage collectors (JavaScript's, Go's, and the backend's own) that
must agree over messages in flight; a client that deletes proxies late and replaces them
early; a grace period that stands in for an acknowledgement; a GUI thread that blocks on a
message and takes it out of order; and a reader goroutine, a runner and lock holders that
meet on bounded channels which are closed under them. `PROJECT.json` lists each hazard at
its line, with the property that covers it or the reason why none does.

What makes the parts right:

* Registry: counts equal mentions; what is referenced or mentioned stays registered; what
  the plugin can use never disappears; what nobody uses is released.
* Goroutines: the lock excludes `Process`; every message is handled once, in order, and in
  the end; `Run` returns when, and only when, the connection has ended.
* Proxies: each reference is given back exactly once, whatever is replaced or deleted in
  whatever order; a type is never unknown; a blocked read is answered.
* Dispatch: every message is handled once, and in turn unless somebody waits for it; the
  handshake takes its steps in order; nothing that is put off is forgotten.
* Promises: each call is settled, unless its proxy is deleted first.
* Model: once the signals are handled the cache shows each row at its place.

## Modules

| Module | Contents |
|---|---|
| `Wire` | the messages and the two FIFOs; an object is an identifier, a payload the set of objects it mentions and the types it leaves out |
| `Registry` | the backend's variables; one action per command, per application call, and for time |
| `Proxies` | the plugin's variables; one action per command it receives and per thing the engine does |
| `ObjectLifetime` | both over the wire; the properties that relate them |
| `ObjectLifetimeProofs` | theorems about `ObjectLifetime`: types, counts, what is never collected |
| `ReferenceProofs` | theorems about `ObjectLifetime`: the client's references, the types it knows, the contract of `object.go:145` |
| `ProcessLoop` | the goroutines of one connection |
| `ProcessLoopProofs` | theorems about `ProcessLoop` |
| `Delivery` | what the plugin promises of the messages it is sent: the abstract specification |
| `Dispatch` | how the plugin keeps it: the call stack of its thread, from bytes to handlers |
| `DispatchProofs` | theorems about `Dispatch`: the messages |
| `DataProofs` | theorem about `Dispatch`: the data they bring |
| `RowCache` | the plugin's cache of a model's rows, as operators without state |
| `RowCacheProofs` | theorems about them |
| `ModelSync` | a model on both sides, with the requests and signals between them |
| `ModelSyncProofs` | theorems about `ModelSync`: both sides agree |
| `FetchProofs` | theorem about `ModelSync`: a read finds its row |
| `MCObjectLifetime`, `MCProcessLoop`, `MCDispatch`, `MCModelSync` | small instances for TLC |

`PROJECT.json` maps every definition to its lines. The operators introduced by a comment
"A mistake" are not part of any specification: each is a plausible bug that the property it
was written for must find when it takes the place of the definition after it.

### Registry

A handler of `Process` is one action. It takes the message from the queue, does what the
command's case does, and ends with the collection of `connection.go:347` (`Sweep`), which is
therefore part of every handler. `INVOKE` is the exception: a method is application code,
it may take long and call back into qbackend, so the call is two actions, `HandleInvoke`
and `InvokeReturn`, and the application may act in between (`AppMayRun`). What an object's
fields hold is chosen when it is marshaled, among `Shapes[o]`: the application may have
assigned them at any time before. `marshalObject` gives up and takes references inside its
loop over properties, so that a child may be counted down in one property and up again in the
next. `Recount` is that loop (`RecountFields`), property by property (`RecountField`), with
the children spread over them in any way; it is within one step, since nothing else runs in
between.

Time is a number of ticks. `grace[o]` counts down to the moment `refGraceTime` has passed
and `elapsed` up to the collection interval. `elapsed` starts anew in each call of
`Process`, because `lastCollection` is a local variable there. A tick may pass inside a
method, between calls of `Process`, and between two handlers.

After `fatal` both streams are closed, and after a panic the process is gone: in the model
the backend stops (`health`). The messages `Process` would still drain after `fatal` reach
nobody. A write that fails or blocks is not modelled; neither are types and parameters that
do not parse, `InitObjectId` with an identifier chosen by the application, and the commands
of a client other than the plugin.

### Proxies

`proxy[o]` says what `m_objects` has: nothing, a proxy, or one that JavaScript has collected
and the event loop will delete (`doomed`). `ensureObject` returns a doomed proxy;
`ensureJSObject` replaces it, and the replaced one (`orphans`) is deleted later, when it
must not take its successor's entry. `view[o]` is the set of objects mentioned in the last
data. JavaScript may read anything in `view` again at any time, which is why the backend
must keep it. A property read without data sends `OBJECT_QUERY` and blocks: while `waiting`,
the plugin takes nothing but the first `OBJECT_RESET` of that object, from wherever it is in
the stream. Handlers of change signals that read other properties are not nested inside a
read; the engine performs them as steps of its own.

### ProcessLoop

The program counters of the reader (`handle`) and of the caller of `Process`, and of each
goroutine that locks. A step is one operation on a channel or on `err`. `Locker = {}` gives
`Run`, a non-empty `Locker` gives `RunLockable`; with `Polls`, `Process` may also be
called without the signal, as an application does that calls it in a loop. `Rejected` holds the messages that make `Process` call `fatal`. The
contents of messages, and what handling does to objects, are in `Registry`: there, the queue
and the goroutines are one FIFO, and `HandledInOrder` and `MessagesHandled` here say why
that is right. `c.err` is read and written without synchronization; the model treats it as
sequentially consistent.

### Dispatch and Delivery

`Delivery` says what the comment of `waitForMessage` promises: messages are handled once and
oldest first; a caller may wait for one, until then nothing else is handled, and that one "is
taken out of order". It says nothing of buffers, queues and frames.

`Dispatch` is the code. The plugin has one thread, so its state is a call stack (`stack`, top
first) and the variables the frames share. A frame is a `handleDataReady` (`data`), a
`handlePendingMessages` with the rest of its copy (`flush`), a `waitForMessage` with the
callback and result it saved (`wait`), or JavaScript that may read and call (`js`). A step is
one turn of a frame's loop; `HandleMessage` is `handleMessage` with everything it does, and
leaves on the stack what it calls last: `setState` a flush, a change signal or a promise
perhaps JavaScript. JavaScript that reads a property of an object without data pushes a `wait`
and below that the stack goes on where it was, with whatever was read and put off meanwhile;
this is where messages may overtake each other. Waits do not nest in each other: the four
messages that are waited for here run no JavaScript (an awaited `OBJECT_RESET` signals no change,
`qbackendobject.cpp:215`), so while one waits nothing runs that could wait. That is part of
what is proved, not assumed. `waitForMessage` has a fifth user, `fetchRow`
(`qbackendmodel.cpp:188`), which is in `ModelSync`; the slot that handles its `modelRowData`
(`doRowData`) neither waits nor runs JavaScript, so it would not change this.

A message is its position in `sent`, the history of what the backend wrote, and arrives in
`Pieces` parts; the buffer is `read` and `parsed`. The backend is there only as far as it is
needed: it greets, changes, signals and answers. `Singleton` is the import of
`Crimson.QBackend`, where types are registered first and the engine comes with the singleton's
callback or with the first instance (`SetQmlEngine`); without it, a `BackendConnection`
element, which blocks for root at once. A connection that C++ gives an engine in its
constructor is not modelled. `DataReady` waits while a flush is posted, because Qt delivers
posted events before it looks at sockets. The objects' data is a version, which
`FreshWhenQuiet` compares with the backend's. An older version can really come after a newer
one: a flush puts off a reset, JavaScript that a message before it ran reads the object, the
wait takes the answer out of turn, and then the flush goes on with the older reset.

`DeliversInTurn` maps `waiting` to whether a callback is set and whether it has its result.

### RowCache and ModelSync

`RowCache` has what the slots of `qbackendmodel.cpp` make of the cache (a function from some
row numbers to rows), the window `fetchRow` asks for, and the cleaning. In-place loops are
stated by what they leave behind.

`ModelSync` puts the application's rows at the other end. `Announce` is the application
changing its rows and calling the method of `Model` that says so, in one step, as it does in a
method or under the lock. A signal carries up to `BatchSize` rows and the number of those it
leaves out. `modelAPI` is an object like others: it emits nothing before the client has a
reference on it (`ref`), and the plugin gets it with its first use of the model. The slots
take signals in order; `FetchRow` blocks, and `FetchAnswer` takes the first `modelRowData`
from wherever it is among the signals. `overtook` is a history variable: a fetch has overtaken a signal
that renumbers rows, and no reset has come since. `InOrder` is an assumption on applications,
that the rows they give to `SortModelInserted` are in order, so that later ones never go before
earlier ones; run `model_sort` shows what happens without it. `getRows` has the branch for models without `Rows()`.

## Runs

| Run | Question | Bounds |
|---|---|---|
| `lifetime` | does the bookkeeping survive any order and any delay? | root and one object that may hold itself, two requests and one update in flight before another is caused, grace and interval of 2 ticks |
| `prompt` | does the contract of `object.go:145` hold when its assumptions do? | root and an object QML instantiates, one request and one update, grace and interval of 1 tick |
| `drop` | ... and when the application drops a child? (violated) | as `prompt`, without instances |
| `release` | is what nobody refers to collected some time, while messages come? (violated) | as `drop`, but any delay |
| `loop` | the lock, wakeups, order, progress, and how `Run` ends | 4 messages, channels of 2, 2 lockers; the third message is rejected, the client may hang up, `Process` may be called at any time |
| `loop_spin` | does `Run` end when the connection does? (violated) | 1 message |
| `loop_race` | is application data safe under the lock? (violated) | 1 message, 2 lockers |
| `dispatch` | does the plugin handle its messages as `Delivery` says, and all of them? | an object of the backend, one of QML, one call; nothing is sent unasked after 5 messages; 2 pieces each |
| `element` | does a connection declared in QML get its root? (violated) | as `dispatch`, 3 messages |
| `model` | do the rows agree when everything is handled, and is a fetched row there? | 2 changes, at most 5 rows of 2 values, batches of 2, a cache of 3 |
| `model_fetch` | do the rows agree also after a fetch overtook a signal? (violated) | as `model` |
| `model_sort` | ... and if new rows are sorted in that do not come in order? (violated) | 1 change, 4 rows of 3 values |

Two objects suffice for the lifetime runs to show every relation of interest: a parent that
mentions a child, two parents of one child (root and the object itself), a self reference,
an argument, a result and a signal parameter. With `Properties` = 2 each child may be in one
property, in the other or in both, which is every order in which the loop can come upon it.
`MaxRequests` and `MaxUpdates` bound what is in flight when
another message is caused; answers may exceed them. Two requests are enough for a release
and a new reference of the same object to meet. `SignalCap` is the code's 2; `QueueCap` is 2
instead of 128, so that it is reached. Four messages fill both channels and the reader's
hands. In `dispatch`, the three messages of the greeting and two more let one message be put
off while another is awaited and a third arrives; answers come on top of `MaxSent`. Two pieces
show every cut of the stream that a handler can notice. In `model`, with batches of 2
every insertion and reset of three rows leaves one out, so that fetching is needed. Windows have up to three rows.
The cache of 3 is the smallest that has room for them: of 4 or 5 rows a fetch drops some,
and if it is cleaned around the wrong row, the row that is read may be among them. One change may be in
flight in front of a fetch and another behind it. The list begins with one row; insertions and
resets bring at most three, sorting in two, and at most two are removed or moved at once.
Deadlock is checked in `prompt` and `dispatch`; in the other passing runs the
connection may end or the application stop, and the system really stops.

`prompt` assumes two things the code does not enforce, and says so by constants. `Prompt`:
no message stays in flight for as long as a tick, that is, the grace period is long enough
("handles object references that may be in flight", `object.go:149`). `KeepsChildren`: the
application only adds to what properties mention. `drop` removes the second assumption and
finds the defect at `object.go:588`. Without the first, an `OBJECT_REF` that waits in the
queue behind a method of five seconds comes too late; `lifetime` therefore claims nothing
about `NeverDisappears`.

## Fairness

`ObjectLifetime`: `ProcessBegin` is weakly fair (Run answers every signal). Handlers are
strongly fair: `Process` may return between two messages any number of times, but it does
not return while the queue holds a message, so it cannot do so for ever without handling
one. Methods return. The plugin handles what arrives, from the event loop or from within
the blocked read. Nothing is assumed of the application, of JavaScript or of time, except in
`release`, whose `TimedSpec` lets time pass between the calls of `Process` again and again
(strong fairness of the clock there): that is all that a grace period and an interval need.
`ReleasesAbandoned` has the rest of its conditions in the property, that messages keep coming
and that `Process` keeps returning. It is the code that fails it and not the conditions. With
`elapsed` kept from one call of `Process` to the next, TLC still finds it violated, by an object
that mentions itself (`connection.go:384`); if then collections also go by the mentions in other
referenced objects instead of the counts, it holds on the whole instance.

`ProcessLoop`: every goroutine that can go on does. A `select` that is offered a signal, or
a `Lock`, again and again takes it some time (Go chooses at random among the ready cases):
strong fairness of `Wake` and `Grant`. Who holds the lock unlocks it. The client need not
send anything. `MessagesHandled` and `LockGranted` end with the connection (`err`).

`Dispatch`: the thread goes on while it can (`Handle`, `WaitForBytes`, `EndWait`, `EndJS`,
`Setup`); the event loop comes to what is posted and to the socket, however often JavaScript
runs in between (strong fairness); the backend greets, and answers each request. Nothing is
assumed of changes, signals and what JavaScript does.

`ModelSync`: the backend handles requests; the plugin handles what it gets, signals also
between reads that block again and again (strong fairness of `Slots`).

## Proofs

All are checked by TLAPS for every value of the constants allowed by the modules' assumptions.

`ObjectLifetimeProofs`. `TypeCorrect` goes action by action; the sequences need
`HeadTailProperties` and friends. `CountsExact` says that `refCount[k]` is the cardinality
of the set of objects that mention `k`. It is inductive with the types: only `Recount`
changes either side, and it changes the set by the one object it is called for, so the
finite set gains or loses one element (this is where `Object` must be finite). What `Recount`
does is `RecountNets`: the loop ends with the children that are mentioned and moves each count
by one if the child is new or gone, and not at all if it was given up on the way and taken
again. The loop's invariant (`LoopNets`) is that after each property the counts are as if what
it has met so far were all there is; it is an induction over the properties, carried out by a
least counterexample.
`HeldRegistered` is not inductive by itself. A collection could take an object that is
mentioned if its count were zero, which `CountsExact` excludes (`MentionedIsCounted`); and
it could take root, which the greeting does not protect by a count, if the plugin gave root
back. `RootStays` says it never does: root's proxy is never doomed, no `OBJECT_DEREF` of root
is in flight, and a greeted root is referenced.

`ReferenceProofs`. `OmittedCached`: the backend leaves out the types it knows the client to know,
and it learns them from `OBJECT_REF`, which a client sends for a proxy only, whose type it has
cached by then. So the invariant (`TypesCached`) follows the type all the way round: it is in the
cache when the request is in flight, when the backend knows it, and when it is left out of a
message. `NothingLeaks`: `OnlyProxiesHold` follows the requests in flight to their end
(`WillHold`) and says that whoever is referenced then has a proxy, which will give the
reference back. It holds whatever the engine replaces and deletes in whatever order.

The other three are about the contract, with the hypotheses `Prompt` and `KeepsChildren`, as
in the run `prompt`: without the second the run `drop` violates `NeverDisappears`, and without
the first a reference may outlive the grace time in flight. Instances satisfy them, `prompt` is
one. The invariant `Leased` says why an object the plugin can name is registered: it is
`Spared`, that is, referenced, counted or in its grace time, at each place where its name may
be, and under `Prompt` the clock only moves when nothing is in flight. What requests name is
spared, or is an instance that an earlier request creates (`Served`); what data mentions is
counted, and other parameters are spared (`Delivered`); so are proxies and what they show
(`ProxiesSpared`). Each proxy has its reference or has asked for it (`AskedFor`), the converse of
`OnlyProxiesHold`, and both together are `BothAgree`.

`ProcessLoopProofs`. `LockExcludes` and `NoLostWakeup` are inductive with the types.
`HandledInOrder` says of every step that takes a message that it is the one after the last, and of every
other step that the position stays; it needs `Contiguous`: the queue continues what was handled without a gap, and
the reader's message continues the queue. `ReturnsWithError` needs the order in which the
reader ends (`EndsInOrder`). `ReturnsWhenAllHandled` joins them all with `EndOfStream`: while
nothing was rejected, an error can only mean that the reader has read everything; `Process`
returns on an empty queue, and the closed signal is seen only when, by `NoLostWakeup`,
nothing is queued.

`RowCacheProofs`. For any rows and any cache that agrees with them, the cache still agrees
after each signal is applied to it and the change it tells of to the rows: `ResetAgrees`,
`UpdateAgrees`, `FetchAgrees`, `InsertAgrees`, `RemoveAgrees`, `MoveAgrees`. So a wrong row in
`ModelSync` can only come from the order in which signals and rows are applied, which is the
subject of `ModelSyncProofs`. The lemmas
say element by element what the application's changes make of the rows; `MoveAgrees` shows
that `MovedFrom` is the inverse of `MovedTo` and is where the rows went. `WindowHasRow`: the
window a read asks for holds the row, no row that is known or beyond the end, and with a
batch size `b` at most `b + 1` rows.
`CleanKeepsNear`: `cleanRowCache` leaves no more rows than the cache may have, and every row
that is nearer to the hint than half of that. It is an induction over the rows that are
dropped, carried out by a least counterexample: the row dropped is always at an end
(`DropsFurthest`), so while more rows are left than fit, one of them is further than a near one.

`DispatchProofs`. The inductive invariant (`Queued`) says where the messages are that were
parsed and not handled: in the copy a flush of the event loop has left (`outer`), in
`m_pendingMessages`, and in the copy a flush in a wait or in the set up has left (`inner`),
each sorted, and every message of one older than every message of the next. `Shape` lists the
stacks this can happen on: while messages are handled as they come, in the set up, and in a
wait, of which there is never more than one, because JavaScript does not run in it. It is not
inductive without the handshake (`Handshake`, `Greeted`): in the set up a message is taken out
of the middle of what is pending only if it is the version or the types, which are the first
and the second that are sent. Nor without knowing that a whole message in the buffer means
that nothing is pending (`Complete => pending = <<>>`) when `handleDataReady` is about to go
on: JavaScript that it called may have waited and put messages off, but only having read the
buffer to its end. From this a message that is handled is either the oldest or the one waited
for (`HandlesInTurn`), which is `Implements`: `Dispatch` implements `Delivery`.
`NoMessageLost` counts what the stacks of `Shape` hold (`Keeps`). `DispatchTyped` and
`HandshakeInOrder` are parts of the invariant.

`DataProofs`. `LastDataShown` is not a matter of order alone, because the order may be wrong (see
above). `Fresh(o)` says, with `Queued`, that the backend's version is the one of the last reset
sent, and that a proxy shows some reset and every later one is still to be handled, with one
exception: an object's first reset may have been taken past older ones that a flush still
holds. That is harmless if the reset that was taken repeats the
version before it, as the answer to a query does, or a later one is sent or due. The exception happens once for each
object, because a proxy that has data is not read by waiting. TLC checked this invariant on
the run's instance, and with more messages, before it was proved.

`ModelSyncProofs`. The two sides agree only when nothing is in flight, so the invariant (`Inv`)
speaks of the stream: there is a history of the application's list, one entry before each
signal in flight and one after the last, such that each signal tells of the step from its
entry to the next, the cache follows the first entry and the last is the list the application
has. "Tells" is about numbers always (`Fits`: the ranges are in the list of that entry, and
the lengths add up) and about rows if nothing was overtaken; a row that differs must be
awaited, that is, rewritten by a signal in flight. That exception is needed: an answer that is taken past an update or a reset brings
the row that this signal will bring again. `SameCount`, `SignalsFit` and `NoRowOutside` need no hypothesis. `RowsSame` has `InOrder`, without
which it is false (run `model_sort`); under it a signal of an insertion carries the rows at its place.
The handling of each signal cites the lemmas of `RowCacheProofs`.

`FetchProofs`. `FetchFinds` has `RoomForFetch` as its hypothesis: the cache has more rows than twice
half of a batch, rounded up, or is never cleaned. The code sets 1000 and 100
(`qbackendmodel_p.h:20`) and has no setter for either; the run has 3 and 2, as tight as can be.
Without it the row may be dropped before `fetchRow` looks it up: with a cache of 2 and batches
of 3 or of 2 TLC finds it. The inductive invariant (`Fetching`)
follows the fetch: there is one request or one answer in flight while somebody waits and none
otherwise (`OneFetch`); before the first reset is applied it is on its way ahead of the answer
(`ResetDue`), so the step's condition that no reset is in flight means that the rows are known;
and the request names rows that are in the model, the wanted one among them (`Covers`, by
`WindowHasRow`). The answer names the same unless a signal in flight changes the number of rows:
that the backend has as many as the plugin counted is the history of `Inv`, none of whose steps
then changes the length (`SameLength`). The answer's middle is the hint that the cache is cleaned
around, and `CleanKeepsNear` keeps what is within half a batch of it.

Every safety invariant and every action property of the passing runs is a theorem. Only
model-checked is what needs fairness (`BlockedReadEnds`, `MessagesHandled`, `LockGranted`,
`WaitsEnd`, `CallsSettle`, `FetchEnds`), which is beyond the provers.

## Where code and documentation differ

The violation runs show seven differences, quoted with their lines in `PROJECT.json`
("findings"): the grace period that is renewed for the parent instead of the child
(`object.go:588`), an interval between collections that only a call of `Process` as long as
itself can fill (`connection.go:245`), `Process` spinning on the closed queue (`connection.go:259`), root
marshaled outside `Process` (`connection.go:130`), a `BackendConnection` element that waits
for root for ever (`qbackendconnection.cpp:437`), fetched rows that overtake the signals
that renumber them (`qbackendmodel.cpp:188`), and rows that are sorted in and announced where
they no longer are (`modelsort.go:38`).

Four more are known and excluded by how the models are set up:

* An application that calls `Process` in a loop, as `doc.go:92` allows, and does not receive
  from `ProcessSignal` blocks the reader with the fourth message (`connection.go:187`). The
  runs let `Process` be called besides the signal, not instead of it.
* An object that mentions itself keeps its own count above zero, and the counts of a collected
  object's children are never given back, so such objects are never collected
  (`connection.go:384`). `ReleasesAbandoned` says they are, but the run violates it for the
  interval first; see "Fairness".
* `getRows` returns `Rows()[start:count]` (`model.go:131`), which is right for `start = 0`
  only. Nothing in the repository implements `Rows()`.
* A read that gets no data for five seconds ends the program (`qbackendconnection.cpp:580`).
  The models wait as long as it takes.

## Not modelled, and what is left

* Writing a property (it becomes a call), what a promise is settled with, roles and columns of
  a row: data without control.
* `ensureConnectionConfig`, `setUrl`, moving the connection to another thread, a second engine.
* The digits of a message's size. The backend's reader has no state between messages.
* A write that fails or blocks, and the messages `Process` drains after `fatal`.
* Between them, `Proxies` has the objects but no stack, and `Dispatch` the stack but of objects
  only their data. `Proxies` keeps the stream in one sequence from which a blocked read takes
  its answer; `DeliversInTurn` is the reason why that is what the plugin sees.

Left out for good: reflection over Go types and the construction of meta objects (data
conversion), starting processes and scenes (I/O), the examples but for how they change rows,
and the limit of ten instantiable types (a counter that is touched before the connection starts).

Worth doing next: the registry and the proxies as a refinement of a lease on each object, with
`Leased` as its invariant.
