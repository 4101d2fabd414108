-------------------------- MODULE ProcessLoopProofs --------------------------
(***************************************************************************)
(* What holds of the goroutines of a Connection for any number of messages *)
(* and of application goroutines, and any capacity of the two channels.     *)
(***************************************************************************)
EXTENDS ProcessLoop, SequenceTheorems, TLAPS

LEMMA InitTyped == Init => TypeOK
  <1> SUFFICES ASSUME Init PROVE TypeOK
    OBVIOUS
  <1>1. queue \in Seq(0..Messages) /\ Len(queue) <= QueueCap
    BY LoopAssumption, EmptySeq DEF Init
  <1>2. sent \in 0..Messages /\ taken \in 0..sent /\ signals \in 0..SignalCap
        /\ handled \in 0..Messages
    BY LoopAssumption DEF Init
  <1> QED
    BY <1>1, <1>2 DEF Init, TypeOK, ReaderPlaces, RunnerPlaces, LockerPlaces

\* One step per group of actions; only PutMessage and Take touch the queue.
LEMMA NextTyped == TypeOK /\ [Next]_vars => TypeOK'
  <1> SUFFICES ASSUME TypeOK, [Next]_vars PROVE TypeOK'
    OBVIOUS
  <1> USE DEF channelVars, streamVars
  <1> DEFINE Numbers == /\ sent \in 0..Messages
                        /\ taken \in 0..sent
                        /\ signals \in 0..SignalCap
                        /\ handled \in 0..Messages
  <1>0. Numbers /\ Messages \in Nat /\ SignalCap \in Nat
    BY LoopAssumption DEF TypeOK
  <1>1. CASE Send \/ HangUp
    <2>1. Numbers'
      BY <1>0, <1>1 DEF Send, HangUp
    <2> QED
      BY <1>1, <2>1 DEF Send, HangUp, TypeOK
  <1>2. CASE GreetBegin \/ GreetEnd \/ CheckError \/ CloseQueue \/ CloseSignal
    BY <1>2 DEF GreetBegin, GreetEnd, CheckError, CloseQueue, CloseSignal, TypeOK, ReaderPlaces
  <1>3. CASE Read \/ ReadFails
    <2>1. Numbers'
      BY <1>0, <1>3 DEF Read, ReadFails
    <2> QED
      BY <1>3, <2>1 DEF Read, ReadFails, TypeOK, ReaderPlaces
  <1>4. CASE PutMessage
    <2>1. taken \in 0..Messages
      BY <1>0
    <2>2. queue \in Seq(0..Messages) /\ Len(queue) \in Nat
      BY LenProperties DEF TypeOK
    <2>3. queue' \in Seq(0..Messages) /\ Len(queue') = Len(queue) + 1
      BY <1>4, <2>1, <2>2, AppendProperties DEF PutMessage
    <2> QED
      BY <1>4, <2>2, <2>3, LoopAssumption DEF PutMessage, TypeOK, ReaderPlaces
  <1>5. CASE PutSignal
    BY <1>5, LoopAssumption DEF PutSignal, TypeOK, ReaderPlaces
  <1>6. CASE Wake \/ SignalClosed \/ Poll \/ Return \/ Spin
    <2>1. Numbers'
      BY <1>0, <1>6 DEF Wake, SignalClosed, Poll, Return, Spin
    <2> QED
      BY <1>6, <2>1 DEF Wake, SignalClosed, Poll, Return, Spin, TypeOK, RunnerPlaces
  <1>7. CASE Handle
    <2>1. err' \in BOOLEAN
      BY <1>7, Zenon DEF Handle
    <2> QED
      BY <1>7, <2>1 DEF Handle, TypeOK, RunnerPlaces
  <1>8. CASE Take
    <2>1. Head(queue) \in 0..Messages /\ Tail(queue) \in Seq(0..Messages)
      BY <1>8, HeadTailProperties DEF Take, TypeOK
    <2>2. Len(queue) \in Nat /\ Len(Tail(queue)) = Len(queue) - 1
      BY <1>8, HeadTailProperties, LenProperties DEF Take, TypeOK
    <2> QED
      BY <1>8, <2>1, <2>2, LoopAssumption DEF Take, TypeOK, RunnerPlaces
  <1>9. CASE Application
    BY <1>9 DEF Application, CallLock, CallUnlock, Grant, Release, TypeOK, RunnerPlaces,
                LockerPlaces
  <1>10. CASE UNCHANGED vars
    BY <1>10 DEF vars, TypeOK
  <1> QED
    BY <1>1, <1>2, <1>3, <1>4, <1>5, <1>6, <1>7, <1>8, <1>9, <1>10
    DEF Next, Reader, Post, Runner, Process

\* Every variable keeps its type.
THEOREM LoopTypeCorrect == Spec => []TypeOK
  BY InitTyped, NextTyped, PTL DEF Spec

-----------------------------------------------------------------------------
\* The lock.

LEMMA NextLocks == TypeOK /\ LockExcludes /\ [Next]_vars => LockExcludes'
  <1> SUFFICES ASSUME TypeOK, LockExcludes, [Next]_vars PROVE LockExcludes'
    OBVIOUS
  <1> USE DEF channelVars, streamVars
  <1>1. ASSUME UNCHANGED <<runner, locker>>
        PROVE  LockExcludes'
    BY <1>1 DEF LockExcludes
  <1>2. ASSUME UNCHANGED locker, runner # "locked"
        PROVE  LockExcludes'
    BY <1>2 DEF LockExcludes
  <1>3. CASE Send \/ HangUp \/ Reader
    BY <1>1, <1>3 DEF Send, HangUp, Reader, GreetBegin, GreetEnd, CheckError, Read, ReadFails,
                      Post, PutMessage, PutSignal, CloseQueue, CloseSignal
  <1>4. CASE Runner
    BY <1>2, <1>4 DEF Runner, Wake, SignalClosed, Poll, Process, Take, Handle, Return, Spin
  <1>5. ASSUME NEW p \in Locker, CallLock(p) \/ CallUnlock(p) \/ Grant(p) \/ Release(p)
        PROVE  LockExcludes'
    <2>1. locker \in [Locker -> LockerPlaces]
      BY DEF TypeOK
    <2>2. CASE CallLock(p)
      BY <2>1, <2>2 DEF CallLock, LockExcludes
    <2>3. CASE CallUnlock(p)
      BY <2>1, <2>3 DEF CallUnlock, LockExcludes
    <2>4. CASE Grant(p)
      BY <2>1, <2>4 DEF Grant, LockExcludes
    <2>5. CASE Release(p)
      BY <2>1, <2>5 DEF Release, LockExcludes
    <2> QED
      BY <1>5, <2>2, <2>3, <2>4, <2>5
  <1>6. CASE UNCHANGED vars
    BY <1>1, <1>6 DEF vars
  <1> QED
    BY <1>3, <1>4, <1>5, <1>6 DEF Next, Application

\* Whoever holds the lock of RunLockable, or is about to give it back, is alone,
\* and the goroutine that calls Process is parked.
THEOREM LockIsExclusive == Spec => []LockExcludes
  <1>1. Init => LockExcludes
    BY DEF Init, LockExcludes
  <1> QED
    BY <1>1, NextLocks, LoopTypeCorrect, PTL DEF Spec

-----------------------------------------------------------------------------
\* The signal.

LEMMA NextWakes == TypeOK /\ NoLostWakeup /\ [Next]_vars => NoLostWakeup'
  <1> SUFFICES ASSUME TypeOK, NoLostWakeup, [Next]_vars PROVE NoLostWakeup'
    OBVIOUS
  <1> USE DEF channelVars, streamVars
  <1>1. CASE Send \/ HangUp \/ UNCHANGED vars
    BY <1>1 DEF Send, HangUp, NoLostWakeup, vars
  <1>2. CASE GreetBegin \/ GreetEnd \/ CheckError \/ Read \/ ReadFails \/ CloseQueue \/ CloseSignal
    BY <1>2 DEF GreetBegin, GreetEnd, CheckError, Read, ReadFails, CloseQueue, CloseSignal,
                NoLostWakeup
  <1>3. CASE PutMessage
    BY <1>3 DEF PutMessage, NoLostWakeup
  <1>4. CASE PutSignal
    BY <1>4, LoopAssumption DEF PutSignal, NoLostWakeup, TypeOK
  <1>5. CASE Runner
    BY <1>5 DEF Runner, Wake, SignalClosed, Poll, Process, Take, Handle, Return, Spin,
                NoLostWakeup
  <1>6. CASE Application
    BY <1>6 DEF Application, CallLock, CallUnlock, Grant, Release, NoLostWakeup
  <1> QED
    BY <1>1, <1>2, <1>3, <1>4, <1>5, <1>6 DEF Next, Reader, Post

\* A queued message is always followed by a signal that Run has not seen.
THEOREM WakeupsAreKept == Spec => []NoLostWakeup
  <1>1. Init => NoLostWakeup
    BY DEF Init, NoLostWakeup
  <1> QED
    BY <1>1, NextWakes, LoopTypeCorrect, PTL DEF Spec

-----------------------------------------------------------------------------
\* The order of messages.

\* What InOrder says of one step.
NextInStream ==
  handled' = IF runner # "handle" /\ runner' = "handle" THEN handled + 1 ELSE handled

\* What is queued follows what Process has taken, without a gap, and what the
\* reader holds follows that.
Contiguous ==
  /\ \A i \in 1..Len(queue) : queue[i] = handled + i
  /\ taken = handled + Len(queue) + (IF reader = "queue" THEN 1 ELSE 0)

LEMMA NextContiguous ==
  TypeOK /\ Contiguous /\ [Next]_vars =>
    Contiguous' /\ NextInStream
  <1> SUFFICES ASSUME TypeOK, Contiguous, [Next]_vars
               PROVE  Contiguous' /\ NextInStream
    OBVIOUS
  <1> USE DEF channelVars, streamVars
  <1>1. /\ queue \in Seq(0..Messages) /\ Len(queue) \in Nat
        /\ handled \in Nat /\ taken \in Nat
    BY LoopAssumption, LenProperties DEF TypeOK
  <1>2. ASSUME UNCHANGED <<taken, queue, handled>>,
                (reader' = "queue") <=> (reader = "queue"),
                runner' = "handle" => runner = "handle"
        PROVE  Contiguous' /\ NextInStream
    BY <1>2 DEF Contiguous, NextInStream
  <1>3. CASE Send \/ HangUp \/ UNCHANGED vars
    BY <1>2, <1>3 DEF Send, HangUp, vars
  <1>4. CASE GreetBegin \/ GreetEnd \/ CheckError \/ ReadFails \/ PutSignal \/ CloseQueue
             \/ CloseSignal
    BY <1>2, <1>4 DEF GreetBegin, GreetEnd, CheckError, ReadFails, PutSignal, CloseQueue,
                      CloseSignal
  <1>5. CASE Read
    BY <1>1, <1>5 DEF Read, Contiguous, NextInStream
  <1>6. CASE PutMessage
    <2>1. queue' = Append(queue, taken) /\ taken = handled + Len(queue) + 1
      BY <1>6 DEF PutMessage, Contiguous
    <2>0. taken \in 0..Messages
      BY LoopAssumption DEF TypeOK
    <2>2. /\ Len(queue') = Len(queue) + 1
          /\ \A i \in 1..Len(queue) : queue'[i] = queue[i]
          /\ queue'[Len(queue) + 1] = taken
      BY <1>1, <2>0, <2>1, AppendProperties
    <2>3. ASSUME NEW i \in 1..Len(queue')
          PROVE  queue'[i] = handled + i
      <3>1. CASE i = Len(queue) + 1
        BY <1>1, <2>1, <2>2, <3>1
      <3>2. CASE i # Len(queue) + 1
        BY <1>1, <2>2, <3>2 DEF Contiguous
      <3> QED
        BY <3>1, <3>2
    <2>4. handled' = handled /\ taken' = taken /\ reader' = "signal" /\ runner' = runner
      BY <1>6 DEF PutMessage
    <2> QED
      BY <1>1, <2>1, <2>2, <2>3, <2>4 DEF Contiguous, NextInStream
  <1>7. CASE Wake \/ SignalClosed \/ Poll \/ Handle \/ Return \/ Spin
    BY <1>2, <1>7 DEF Wake, SignalClosed, Poll, Handle, Return, Spin
  <1>8. CASE Take
    <2>1. /\ queue # <<>> /\ queue' = Tail(queue) /\ handled' = Head(queue)
          /\ runner = "process" /\ runner' = "handle"
          /\ UNCHANGED <<taken, reader>>
      BY <1>8 DEF Take
    <2>2. /\ Len(queue') = Len(queue) - 1 /\ Len(queue) >= 1
          /\ Head(queue) = queue[1]
          /\ \A i \in 1..Len(queue') : queue'[i] = queue[i + 1]
      <3>1. Len(Tail(queue)) = Len(queue) - 1
        BY <1>1, <2>1, HeadTailProperties
      <3>2. \A i \in 1..Len(Tail(queue)) : Tail(queue)[i] = queue[i + 1]
        BY <1>1, <2>1, HeadTailProperties
      <3>3. Len(queue) # 0
        BY <1>1, <2>1, EmptySeq
      <3> QED
        BY <1>1, <2>1, <3>1, <3>2, <3>3
    <2>3. handled' = handled + 1
      BY <1>1, <2>1, <2>2 DEF Contiguous
    <2>4. ASSUME NEW i \in 1..Len(queue')
          PROVE  queue'[i] = handled' + i
      <3>1. i + 1 \in 1..Len(queue) /\ queue'[i] = queue[i + 1]
        BY <1>1, <2>2
      <3> QED
        BY <1>1, <2>3, <3>1 DEF Contiguous
    <2>5. taken' = handled' + Len(queue') + (IF reader' = "queue" THEN 1 ELSE 0)
      BY <1>1, <2>1, <2>2, <2>3 DEF Contiguous
    <2> QED
      BY <2>1, <2>3, <2>4, <2>5 DEF Contiguous, NextInStream
  <1>9. CASE Application
    BY <1>2, <1>9 DEF Application, CallLock, CallUnlock, Grant, Release
  <1> QED
    BY <1>3, <1>4, <1>5, <1>6, <1>7, <1>8, <1>9 DEF Next, Reader, Post, Runner, Process

LEMMA InitContiguous == Init => Contiguous
  BY DEF Init, Contiguous

\* Each time Process begins to handle a message it is the one after the last:
\* none is passed over, none is handled twice.
THEOREM HandledInOrder == Spec => InOrder
  <1>1. TypeOK /\ Contiguous /\ [Next]_vars => [NextInStream]_vars
    BY NextContiguous
  <1>2. TypeOK /\ Contiguous /\ [Next]_vars => Contiguous'
    BY NextContiguous
  <1>3. Spec => [][NextInStream]_vars
    BY <1>1, <1>2, InitContiguous, LoopTypeCorrect, PTL DEF Spec
  <1> QED
    BY <1>3 DEF InOrder, NextInStream

-----------------------------------------------------------------------------
\* The end of the connection.

Closing == {"closeQueue", "closeSignal", "done"}

\* What has been closed, and the error that caused it.
EndsInOrder ==
  /\ reader \in Closing => err
  /\ ~queueOpen => reader \in Closing
  /\ ~signalOpen => reader \in Closing
  /\ runner = "returned" => err

LEMMA NextEnds == TypeOK /\ EndsInOrder /\ [Next]_vars => EndsInOrder'
  <1> SUFFICES ASSUME TypeOK, EndsInOrder, [Next]_vars PROVE EndsInOrder'
    OBVIOUS
  <1> USE DEF channelVars, streamVars, EndsInOrder, Closing
  <1>1. CASE Send \/ HangUp \/ UNCHANGED vars
    BY <1>1 DEF Send, HangUp, vars
  <1>2. CASE Reader
    BY <1>2 DEF Reader, GreetBegin, GreetEnd, CheckError, Read, ReadFails, Post, PutMessage,
                PutSignal, CloseQueue, CloseSignal
  <1>3. CASE Runner
    BY <1>3 DEF Runner, Wake, SignalClosed, Poll, Process, Take, Handle, Return, Spin
  <1>4. CASE Application
    BY <1>4 DEF Application, CallLock, CallUnlock, Grant, Release
  <1> QED
    BY <1>1, <1>2, <1>3, <1>4 DEF Next

\* Run and RunLockable never end without an error to return.
THEOREM ReturnsWithError == Spec => []ErrorOnReturn
  <1>1. Init => EndsInOrder
    BY DEF Init, EndsInOrder, Closing
  <1>2. EndsInOrder => ErrorOnReturn
    BY DEF EndsInOrder, ErrorOnReturn
  <1> QED
    BY <1>1, <1>2, NextEnds, LoopTypeCorrect, PTL DEF Spec

\* While Process has rejected nothing, an error means that the reader found the
\* client's end of the stream, and Run has returned only with all of it handled.
NoneRejected == \A m \in Rejected : m > handled

EndOfStream ==
  err /\ NoneRejected => hungUp /\ taken = sent /\ reader \in Closing

LEMMA NextEndOfStream ==
  TypeOK /\ Contiguous /\ EndsInOrder /\ EndOfStream /\ [Next]_vars => EndOfStream'
  <1> SUFFICES ASSUME TypeOK, Contiguous, EndsInOrder, EndOfStream, [Next]_vars,
                      err', NoneRejected'
               PROVE  hungUp' /\ taken' = sent' /\ reader' \in Closing
    BY DEF EndOfStream
  <1> USE DEF channelVars, streamVars
  <1>1. NoneRejected
    <2>1. handled' >= handled /\ handled \in Nat /\ handled' \in Nat
      BY LoopAssumption, NextContiguous, NextTyped DEF TypeOK, NextInStream
    <2>2. Rejected \subseteq Int
      BY LoopAssumption
    <2> QED
      BY <2>1, <2>2 DEF NoneRejected
  <1>2. CASE Send \/ HangUp \/ UNCHANGED vars
    BY <1>1, <1>2 DEF Send, HangUp, vars, EndOfStream
  <1>3. CASE Reader
    <2>1. CASE ReadFails
      BY <1>1, <2>1 DEF ReadFails, EndOfStream, Closing
    <2>2. CASE GreetBegin \/ GreetEnd \/ CheckError \/ Read \/ Post
      BY <1>1, <2>2 DEF GreetBegin, GreetEnd, CheckError, Read, Post, PutMessage, PutSignal,
                        EndOfStream, Closing
    <2>3. CASE CloseQueue \/ CloseSignal
      BY <1>1, <2>3 DEF CloseQueue, CloseSignal, EndOfStream, Closing
    <2> QED
      BY <1>3, <2>1, <2>2, <2>3 DEF Reader
  <1>4. CASE Wake \/ SignalClosed \/ Poll \/ Take \/ Return
    BY <1>1, <1>4 DEF Wake, SignalClosed, Poll, Take, Return, EndOfStream
  <1>5. CASE Handle
    <2>1. handled \notin Rejected
      <3>1. handled' = handled /\ handled \in Nat
        BY <1>5 DEF Handle, TypeOK
      <3> QED
        BY <3>1 DEF NoneRejected
    <2> QED
      BY <1>1, <1>5, <2>1 DEF Handle, EndOfStream
  <1>6. CASE Spin
    <2>1. err
      BY <1>6 DEF Spin, EndsInOrder
    <2> QED
      BY <1>1, <1>6, <2>1 DEF Spin, EndOfStream
  <1>7. CASE Application
    <2>1. UNCHANGED <<err, hungUp, taken, sent, reader>>
      BY <1>7 DEF Application, CallLock, CallUnlock, Grant, Release
    <2> QED
      BY <1>1, <2>1 DEF EndOfStream
  <1> QED
    BY <1>2, <1>3, <1>4, <1>5, <1>6, <1>7 DEF Next, Runner, Process

LEMMA NextAllHandled ==
  /\ TypeOK /\ NoLostWakeup /\ Contiguous /\ EndsInOrder /\ EndOfStream /\ AllHandledOnReturn
  /\ [Next]_vars
  => AllHandledOnReturn'
  <1> SUFFICES ASSUME TypeOK, NoLostWakeup, Contiguous, EndsInOrder, EndOfStream,
                      AllHandledOnReturn, [Next]_vars, runner' = "returned", NoneRejected'
               PROVE  handled' = sent'
    BY DEF AllHandledOnReturn, NoneRejected
  <1> USE DEF channelVars, streamVars
  <1>1. NoneRejected
    <2>1. handled' >= handled /\ handled \in Nat /\ handled' \in Nat
      BY LoopAssumption, NextContiguous, NextTyped DEF TypeOK, NextInStream
    <2>2. Rejected \subseteq Int
      BY LoopAssumption
    <2> QED
      BY <2>1, <2>2 DEF NoneRejected
  <1>2. CASE runner = "returned"
    <2>1. handled = sent /\ hungUp
      BY <1>1, <1>2 DEF AllHandledOnReturn, NoneRejected, EndsInOrder, EndOfStream
    <2>2. UNCHANGED <<handled, sent>>
      BY <1>2, <2>1 DEF Next, vars, Send, HangUp, Reader, GreetBegin, GreetEnd, CheckError, Read,
                        ReadFails, Post, PutMessage, PutSignal, CloseQueue, CloseSignal, Runner,
                        Wake, SignalClosed, Poll, Process, Take, Handle, Return, Spin,
                        Application, CallLock, CallUnlock, Grant, Release
    <2> QED
      BY <2>1, <2>2
  <1>3. CASE runner # "returned"
    <2>1. SignalClosed \/ Return
      BY <1>3 DEF Next, vars, Send, HangUp, Reader, GreetBegin, GreetEnd, CheckError, Read,
                  ReadFails, Post, PutMessage, PutSignal, CloseQueue, CloseSignal, Runner,
                  Wake, Poll, Process, Take, Handle, Spin,
                  Application, CallLock, CallUnlock, Grant, Release
    <2>2. queue = <<>> /\ err /\ UNCHANGED <<handled, sent>>
      <3>1. CASE SignalClosed
        BY <3>1 DEF SignalClosed, NoLostWakeup, EndsInOrder, Closing
      <3>2. CASE Return
        BY <3>2 DEF Return
      <3> QED
        BY <2>1, <3>1, <3>2
    <2>3. taken = sent /\ reader # "queue"
      BY <1>1, <2>2 DEF EndOfStream, Closing
    <2>4. Len(queue) = 0 /\ handled \in Nat
      BY <2>2, EmptySeq DEF TypeOK
    <2>5. taken = handled
      BY <2>3, <2>4 DEF Contiguous
    <2> QED
      BY <2>2, <2>3, <2>5
  <1> QED
    BY <1>2, <1>3

\* Run has handled all that was sent when it returns, unless Process closed the
\* connection over a message.
THEOREM ReturnsWhenAllHandled == Spec => []AllHandledOnReturn
  <1>1. Init => EndsInOrder /\ EndOfStream /\ AllHandledOnReturn /\ NoLostWakeup
    BY DEF Init, EndsInOrder, Closing, EndOfStream, AllHandledOnReturn, NoLostWakeup
  <1> QED
    BY <1>1, InitContiguous, NextContiguous, NextEnds, NextEndOfStream, NextAllHandled, NextWakes,
       LoopTypeCorrect, PTL DEF Spec
=============================================================================
