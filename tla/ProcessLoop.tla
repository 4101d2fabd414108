----------------------------- MODULE ProcessLoop -----------------------------
(***************************************************************************)
(* The goroutines of a Connection (backend/connection.go, lockable.go): the *)
(* reader (handle) that greets the client, reads its messages, queues and  *)
(* signals them; the runner that calls Process (Run, RunLockable, or an     *)
(* application that polls); and the application's goroutines that take the  *)
(* lock RunLockable returns.                                               *)
(*                                                                         *)
(* A channel is what Go makes of it: a send blocks while the buffer is     *)
(* full; a receive from a closed, drained channel succeeds at once; an     *)
(* unbuffered channel is a rendezvous.  A message is its position in the    *)
(* stream.  Reads and writes of c.err are not synchronized in the code;    *)
(* here they are sequentially consistent.                                   *)
(***************************************************************************)
EXTENDS Integers, Sequences

CONSTANTS Messages,   \* how many messages the client may send (model bound)
          Rejected,   \* the messages Process answers with fatal
          QueueCap,   \* the capacity of Connection.queue
          SignalCap,  \* the capacity of Connection.processSignal
          Locker,     \* goroutines that use RunLockable's lock; none for Run
          Polls,      \* TRUE: Process may also be called without the signal
          HangsUp     \* TRUE: the client may close the connection

ASSUME LoopAssumption ==
  /\ Messages \in Nat
  /\ Rejected \subseteq 1..Messages
  /\ QueueCap \in Nat \ {0}
  /\ SignalCap \in Nat \ {0}
  /\ Polls \in BOOLEAN
  /\ HangsUp \in BOOLEAN

VARIABLES sent,        \* messages the client has written
          hungUp,      \* the client has closed the stream
          taken,       \* messages the reader has read off the stream
          queue,       \* Connection.queue
          queueOpen,   \* it has not been closed
          signals,     \* values in Connection.processSignal
          signalOpen,  \* it has not been closed
          err,         \* Connection.err is set (and both streams are closed)
          reader,      \* where handle is
          runner,      \* where the caller of Process is
          locker,      \* where each application goroutine is
          handled      \* the last message Process took off the queue

channelVars == <<queue, queueOpen, signals, signalOpen>>
streamVars  == <<sent, hungUp, taken>>
vars == <<streamVars, channelVars, err, reader, runner, locker, handled>>

ReaderPlaces == {"greet", "marshal", "loop", "read", "queue", "signal",
                 "closeQueue", "closeSignal", "done"}
RunnerPlaces == {"wait", "process", "handle", "locked", "returned"}
LockerPlaces == {"idle", "locking", "held", "unlocking"}

TypeOK ==
  /\ sent \in 0..Messages
  /\ hungUp \in BOOLEAN
  /\ taken \in 0..sent
  /\ queue \in Seq(0..Messages) /\ Len(queue) <= QueueCap
  /\ queueOpen \in BOOLEAN
  /\ signals \in 0..SignalCap
  /\ signalOpen \in BOOLEAN
  /\ err \in BOOLEAN
  /\ reader \in ReaderPlaces
  /\ runner \in RunnerPlaces
  /\ locker \in [Locker -> LockerPlaces]
  /\ handled \in 0..Messages

\* ensureHandler has started handle; the runner is about to wait.
Init ==
  /\ sent = 0 /\ hungUp = FALSE /\ taken = 0
  /\ queue = <<>> /\ queueOpen = TRUE
  /\ signals = 0 /\ signalOpen = TRUE
  /\ err = FALSE
  /\ reader = "greet"
  /\ runner = "wait"
  /\ locker = [p \in Locker |-> "idle"]
  /\ handled = 0

-----------------------------------------------------------------------------
\* The client writes a message, or closes the stream.
Send ==
  /\ ~hungUp /\ sent < Messages
  /\ sent' = sent + 1
  /\ UNCHANGED <<hungUp, taken, channelVars, err, reader, runner, locker, handled>>

HangUp ==
  /\ HangsUp /\ ~hungUp
  /\ hungUp' = TRUE
  /\ UNCHANGED <<sent, taken, channelVars, err, reader, runner, locker, handled>>

-----------------------------------------------------------------------------
\* handle sends VERSION and CREATABLE_TYPES, then reads the root object's
\* fields, then sends ROOT.
GreetBegin ==
  /\ reader = "greet"
  /\ reader' = "marshal"
  /\ UNCHANGED <<streamVars, channelVars, err, runner, locker, handled>>

GreetEnd ==
  /\ reader = "marshal"
  /\ reader' = "loop"
  /\ UNCHANGED <<streamVars, channelVars, err, runner, locker, handled>>

\* The loop's condition.
CheckError ==
  /\ reader = "loop"
  /\ reader' = IF err THEN "closeQueue" ELSE "read"
  /\ UNCHANGED <<streamVars, channelVars, err, runner, locker, handled>>

\* A whole message is read; it may have been in the buffer of a closed stream.
Read ==
  /\ reader = "read" /\ taken < sent
  /\ taken' = taken + 1
  /\ reader' = "queue"
  /\ UNCHANGED <<sent, hungUp, channelVars, err, runner, locker, handled>>

\* A mistake: handle returns without an error.
EndSilently ==
  /\ reader = "read" /\ (err \/ (hungUp /\ taken = sent))
  /\ reader' = "closeQueue"
  /\ UNCHANGED <<streamVars, channelVars, err, runner, locker, handled>>

\* The read fails: the client has closed the stream, or fatal has.
ReadFails ==
  /\ reader = "read" /\ (err \/ (hungUp /\ taken = sent))
  /\ err' = TRUE
  /\ reader' = "closeQueue"
  /\ UNCHANGED <<streamVars, channelVars, runner, locker, handled>>

PutMessage ==
  /\ reader = "queue" /\ Len(queue) < QueueCap
  /\ queue' = Append(queue, taken)
  /\ reader' = "signal"
  /\ UNCHANGED <<streamVars, queueOpen, signals, signalOpen, err, runner, locker, handled>>

\* A mistake: the signal does not wait for room in the channel.
PutSignalUnbounded ==
  /\ reader = "signal"
  /\ signals' = signals + 1
  /\ reader' = "loop"
  /\ UNCHANGED <<streamVars, queue, queueOpen, signalOpen, err, runner, locker, handled>>

\* A mistake: when the channel is full, the message is queued again with its signal.
PutSignalOrRetry ==
  /\ reader = "signal"
  /\ signals' = IF signals < SignalCap THEN signals + 1 ELSE signals
  /\ reader' = IF signals < SignalCap THEN "loop" ELSE "queue"
  /\ UNCHANGED <<streamVars, queue, queueOpen, signalOpen, err, runner, locker, handled>>

PutSignal ==
  /\ reader = "signal" /\ signals < SignalCap
  /\ signals' = signals + 1
  /\ reader' = "loop"
  /\ UNCHANGED <<streamVars, queue, queueOpen, signalOpen, err, runner, locker, handled>>

\* A mistake: the signal is sent before the message is queued.
SignalThenPost ==
  \/ /\ reader = "queue" /\ signals < SignalCap
     /\ signals' = signals + 1
     /\ reader' = "signal"
     /\ UNCHANGED <<streamVars, queue, queueOpen, signalOpen, err, runner, locker, handled>>
  \/ /\ reader = "signal" /\ Len(queue) < QueueCap
     /\ queue' = Append(queue, taken)
     /\ reader' = "loop"
     /\ UNCHANGED <<streamVars, queueOpen, signals, signalOpen, err, runner, locker, handled>>

\* Queue and signal.
Post == PutMessage \/ PutSignal

\* The deferred calls, last one first.
CloseQueue ==
  /\ reader = "closeQueue"
  /\ queueOpen' = FALSE
  /\ reader' = "closeSignal"
  /\ UNCHANGED <<streamVars, queue, signals, signalOpen, err, runner, locker, handled>>

CloseSignal ==
  /\ reader = "closeSignal"
  /\ signalOpen' = FALSE
  /\ reader' = "done"
  /\ UNCHANGED <<streamVars, queue, queueOpen, signals, err, runner, locker, handled>>

-----------------------------------------------------------------------------
\* Run and RunLockable: a signal starts a call of Process, and the closed,
\* drained channel ends the loop.
Wake ==
  /\ runner = "wait" /\ signals > 0
  /\ signals' = signals - 1
  /\ runner' = "process"
  /\ UNCHANGED <<streamVars, queue, queueOpen, signalOpen, err, reader, locker, handled>>

SignalClosed ==
  /\ runner = "wait" /\ signals = 0 /\ ~signalOpen
  /\ runner' = "returned"
  /\ UNCHANGED <<streamVars, channelVars, err, reader, locker, handled>>

\* An application that also calls Process on its own.
Poll ==
  /\ Polls
  /\ runner = "wait"
  /\ runner' = "process"
  /\ UNCHANGED <<streamVars, channelVars, err, reader, locker, handled>>

\* Process takes a message and handles it.
Take ==
  /\ runner = "process" /\ queue # <<>>
  /\ handled' = Head(queue)
  /\ queue' = Tail(queue)
  /\ runner' = "handle"
  /\ UNCHANGED <<streamVars, queueOpen, signals, signalOpen, err, reader, locker>>

Handle ==
  /\ runner = "handle"
  /\ err' = (err \/ handled \in Rejected)
  /\ runner' = "process"
  /\ UNCHANGED <<streamVars, channelVars, reader, locker, handled>>

\* A mistake: Process returns as soon as there is an error.
ReturnOnError ==
  /\ runner = "process" /\ (err \/ (queue = <<>> /\ queueOpen))
  /\ runner' = IF err THEN "returned" ELSE "wait"
  /\ UNCHANGED <<streamVars, channelVars, err, reader, locker, handled>>

\* Nothing is queued: Process returns c.err.
Return ==
  /\ runner = "process" /\ queue = <<>> /\ queueOpen
  /\ runner' = IF err THEN "returned" ELSE "wait"
  /\ UNCHANGED <<streamVars, channelVars, err, reader, locker, handled>>

\* The closed queue is always ready: no data is an invalid message, and
\* Process continues with the next.
Spin ==
  /\ runner = "process" /\ queue = <<>> /\ ~queueOpen
  /\ err' = TRUE
  /\ UNCHANGED <<streamVars, channelVars, reader, runner, locker, handled>>

-----------------------------------------------------------------------------
\* Lock and Unlock are called; each blocks until the runner receives.
CallLock(p) ==
  /\ locker[p] = "idle"
  /\ locker' = [locker EXCEPT ![p] = "locking"]
  /\ UNCHANGED <<streamVars, channelVars, err, reader, runner, handled>>

CallUnlock(p) ==
  /\ locker[p] = "held"
  /\ locker' = [locker EXCEPT ![p] = "unlocking"]
  /\ UNCHANGED <<streamVars, channelVars, err, reader, runner, handled>>

\* A mistake: RunLockable does not wait for the Unlock.
GrantWithoutWaiting(p) ==
  /\ runner = "wait" /\ locker[p] = "locking"
  /\ locker' = [locker EXCEPT ![p] = "held"]
  /\ UNCHANGED <<streamVars, channelVars, err, reader, runner, handled>>

\* RunLockable receives from L, and then waits to receive from U.
Grant(p) ==
  /\ runner = "wait" /\ locker[p] = "locking"
  /\ locker' = [locker EXCEPT ![p] = "held"]
  /\ runner' = "locked"
  /\ UNCHANGED <<streamVars, channelVars, err, reader, handled>>

\* A mistake: Unlock returns though the runner has not received from U.
ReleaseUnheard(p) ==
  /\ runner = "locked" /\ locker[p] = "unlocking"
  /\ locker' = [locker EXCEPT ![p] = "idle"]
  /\ UNCHANGED <<streamVars, channelVars, err, reader, runner, handled>>

Release(p) ==
  /\ runner = "locked" /\ locker[p] = "unlocking"
  /\ locker' = [locker EXCEPT ![p] = "idle"]
  /\ runner' = "wait"
  /\ UNCHANGED <<streamVars, channelVars, err, reader, handled>>

-----------------------------------------------------------------------------
Reader ==
  \/ GreetBegin \/ GreetEnd
  \/ CheckError \/ Read \/ ReadFails
  \/ Post
  \/ CloseQueue \/ CloseSignal

Process == Take \/ Handle \/ Return \/ Spin

Runner == Wake \/ SignalClosed \/ Poll \/ Process

Application ==
  \E p \in Locker : CallLock(p) \/ CallUnlock(p) \/ Grant(p) \/ Release(p)

Next == Send \/ HangUp \/ Reader \/ Runner \/ Application

Spec == Init /\ [][Next]_vars

\* The scheduler runs every goroutine that can go on; a select that can always
\* again receive a signal, or a Lock, picks each of them some time; what holds
\* the lock unlocks it.
Fairness ==
  /\ WF_vars(Reader)
  /\ WF_vars(SignalClosed \/ Process)
  /\ SF_vars(Wake)
  /\ \A p \in Locker :
       /\ WF_vars(CallUnlock(p))
       /\ SF_vars(Grant(p))
       /\ WF_vars(Release(p))
FairSpec == Spec /\ Fairness

-----------------------------------------------------------------------------
\* "locking guarantees that Process() is not and will not run until unlocked"
\* (lockable.go:26), and one goroutine at a time has the lock: the runner is
\* parked for as long as the lock is held or being given back.
LockExcludes ==
  \A p \in Locker :
    locker[p] \in {"held", "unlocking"} =>
      /\ runner = "locked"
      /\ \A q \in Locker \ {p} : locker[q] \notin {"held", "unlocking"}

\* "Application data (objects and their fields) is never accessed except during
\* calls to Process() or other qbackend methods ... Objects can be safely
\* modified while holding this lock" (connection.go:237, lockable.go:29).
LockProtectsData ==
  \A p \in Locker :
    locker[p] = "held" => reader # "marshal" /\ runner \notin {"process", "handle"}

\* No wakeup is lost: a runner that waits while a message is queued will be
\* signalled, or has been (the reader queues first, then signals; Process does
\* not return until the queue is empty).
NoLostWakeup ==
  runner \in {"wait", "locked"} /\ queue # <<>> =>
    signals > 0 \/ reader = "signal"

\* Process handles every message once, in the order of the stream: each time it
\* begins to handle a message, that message is the one after the last, and
\* between two such steps nothing is passed over (connection.go:164, 234).
InOrder ==
  [][handled' = IF runner # "handle" /\ runner' = "handle" THEN handled + 1 ELSE handled]_vars

\* Run and RunLockable end with an error, whichever way they learn of the end:
\* from Process, or from the closed signal (connection.go:225, lockable.go:35).
ErrorOnReturn == runner = "returned" => err

\* What the client sent before it hung up is handled before Run returns, unless
\* Process itself has closed the connection.
AllHandledOnReturn ==
  runner = "returned" /\ (\A m \in Rejected : m > handled) => handled = sent

\* Every message is handled, whatever the application locks in between
\* (connection.go:234 for Process; Run and RunLockable call it on the signal),
\* unless the connection ends.
MessagesHandled == \A m \in 1..Messages : sent >= m ~> handled >= m \/ err

\* A goroutine that calls Lock gets the lock, unless the connection ends.
LockGranted == \A p \in Locker : locker[p] = "locking" ~> locker[p] = "held" \/ err

\* "RunLockable also returns a channel, which will receive one error value and
\* close when the connection is closed" (lockable.go:35); the same for Run, which
\* "processes messages until the connection is closed" (connection.go:216).
ReturnsWhenClosed == ~signalOpen ~> runner = "returned"
=============================================================================
