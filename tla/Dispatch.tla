------------------------------- MODULE Dispatch -------------------------------
(***************************************************************************)
(* How QBackendConnection (plugin/qbackendconnection.cpp) takes messages off *)
(* the socket and handles them: framing, the handshake, the queue of         *)
(* pending messages, and waitForMessage, which blocks in the middle of a     *)
(* handler.  There is one thread; `stack` is its call stack, top first.      *)
(*                                                                         *)
(* A message is its position in `sent`, the history of what the backend has  *)
(* written; it arrives in Pieces that the socket may hand out one by one.    *)
(***************************************************************************)
EXTENDS Integers, Sequences

CONSTANTS Obj,          \* objects that JavaScript may read
          Instances,    \* those of them that QML creates itself
          Calls,        \* calls that JavaScript may make
          Nothing,      \* no object and no call
          MaxSent,      \* the backend sends nothing unasked beyond it (model bound)
          Pieces,       \* in how many pieces a message may arrive
          Singleton     \* TRUE: import of Crimson.QBackend; FALSE: a BackendConnection element

ASSUME DispatchAssumption ==
  /\ Instances \subseteq Obj
  /\ Obj \cap Calls = {}
  /\ Nothing \notin Obj \cup Calls
  /\ MaxSent \in Nat /\ Pieces \in Nat \ {0}
  /\ Singleton \in BOOLEAN

VARIABLES sent,      \* what the backend has written
          version,   \* of each object's data, in the backend
          requests,  \* queries and calls the backend has not answered
          read,      \* pieces read off the socket
          parsed,    \* messages taken out of m_msgBuf
          state,     \* m_state
          engine,    \* m_qmlEngine is set
          root,      \* m_rootObject is set
          pending,   \* m_pendingMessages
          sync,      \* m_syncCallback: what it accepts
          result,    \* m_syncResult: a message, or 0
          posted,    \* a call of handlePendingMessages is in the event queue
          stack,     \* the call stack
          phase,     \* how far the set up of the connection is
          handled,   \* messages that were handled
          data,      \* the version of each object's data in its proxy; 0: none
          call       \* what became of each call

backendVars == <<sent, version, requests>>
socketVars  == <<read, parsed>>
syncVars    == <<sync, result>>
setupVars   == <<state, engine, root>>
effectVars  == <<setupVars, handled, data, call>>
vars == <<backendVars, socketVars, pending, syncVars, posted, stack, phase, effectVars>>

Message(cmd, about, ver) == [cmd |-> cmd, about |-> about, ver |-> ver]
Pattern(cmd, about) == [cmd |-> cmd, about |-> about]
NoWait == Pattern("none", Nothing)
Matches(msg, pattern) == msg.cmd = pattern.cmd /\ msg.about = pattern.about

Commands == {"VERSION", "CREATABLE_TYPES", "ROOT", "OBJECT_RESET", "EMIT", "INVOKE_RETURN"}
About == Obj \cup Calls \cup {Nothing}
Greeting == <<Message("VERSION", Nothing, 0), Message("CREATABLE_TYPES", Nothing, 0),
              Message("ROOT", Nothing, 0)>>

\* What may be on the stack: handleDataReady; handlePendingMessages, with the
\* rest of its copy; waitForMessage, with what it saved; JavaScript.
Frame(kind, rest, savedSync, savedResult) ==
  [kind |-> kind, rest |-> rest, sync |-> savedSync, result |-> savedResult]
DataFrame == Frame("data", <<>>, NoWait, 0)
FlushFrame(rest) == Frame("flush", rest, NoWait, 0)
JSFrame == Frame("js", <<>>, NoWait, 0)

Patterns == [cmd : Commands \cup {"none"}, about : About]
Frames == [kind : {"data", "flush", "wait", "js"}, rest : Seq(Nat),
           sync : Patterns, result : Nat]

TypeOK ==
  /\ sent \in Seq([cmd : Commands, about : About, ver : Nat])
  /\ version \in [Obj -> Nat]
  /\ requests \subseteq Obj \cup Calls
  /\ read \in Nat /\ parsed \in Nat
  /\ Pieces * parsed <= read /\ read <= Pieces * Len(sent)
  /\ state \in {"WantVersion", "WantTypes", "WantEngine", "Ready"}
  /\ engine \in BOOLEAN /\ root \in BOOLEAN /\ posted \in BOOLEAN
  /\ pending \in Seq(Nat)
  /\ sync \in Patterns /\ result \in Nat
  /\ stack \in Seq(Frames)
  /\ phase \in {"connect", "version", "types", "registered", "root", "running"}
  /\ handled \subseteq Nat
  /\ data \in [Obj -> Nat]
  /\ call \in [Calls -> {"none", "pending", "settled", "dropped"}]

Init ==
  /\ sent = <<>> /\ version = [o \in Obj |-> 1] /\ requests = {}
  /\ read = 0 /\ parsed = 0
  /\ state = "WantVersion" /\ engine = FALSE /\ root = FALSE
  /\ pending = <<>> /\ sync = NoWait /\ result = 0 /\ posted = FALSE
  /\ stack = <<>> /\ phase = "connect"
  /\ handled = {} /\ data = [o \in Obj |-> 0] /\ call = [c \in Calls |-> "none"]

OnTop(kind) == stack # <<>> /\ Head(stack).kind = kind
EventLoop == stack = <<>> /\ phase \in {"registered", "running"}

\* The plugin has a proxy for the object.
Known(o) == IF o \in Instances THEN phase = "running" ELSE root

-----------------------------------------------------------------------------
\* The backend greets the client, sends changed objects and signals, and
\* answers queries and calls.
Write(msg) == sent' = Append(sent, msg)

Greet ==
  /\ Len(sent) < Len(Greeting)
  /\ Write(Greeting[Len(sent) + 1])
  /\ UNCHANGED <<version, requests>>

Unasked == Len(sent) >= Len(Greeting) /\ Len(sent) < MaxSent

Change(o) ==
  /\ Unasked /\ Known(o)
  /\ version' = [version EXCEPT ![o] = @ + 1]
  /\ Write(Message("OBJECT_RESET", o, version[o] + 1))
  /\ UNCHANGED requests

Emit ==
  /\ Unasked /\ root
  /\ Write(Message("EMIT", Nothing, 0))
  /\ UNCHANGED <<version, requests>>

Answer(r) ==
  /\ r \in requests /\ Len(sent) >= Len(Greeting)
  /\ Write(IF r \in Calls THEN Message("INVOKE_RETURN", r, 0)
                          ELSE Message("OBJECT_RESET", r, version[r]))
  /\ requests' = requests \ {r}
  /\ UNCHANGED version

Backend ==
  /\ Greet \/ Emit \/ (\E o \in Obj : Change(o)) \/ (\E r \in requests : Answer(r))
  /\ UNCHANGED <<socketVars, pending, syncVars, posted, stack, phase, effectVars>>

-----------------------------------------------------------------------------
\* handleDataReady reads what has arrived, at least one piece of it.
Available == Pieces * Len(sent) - read

ReadSocket(frames) ==
  /\ \E n \in 1..Available : read' = read + n
  /\ stack' = <<DataFrame>> \o frames
  /\ UNCHANGED parsed

\* A mistake: the buffer is not compared with the size of the message.
CompleteAtOnce == Pieces * parsed < read

\* Whether a whole message is in m_msgBuf.
Complete == Pieces * (parsed + 1) <= read

\* A mistake: the copy is made, and the messages stay where they are.
FlushAndKeep(frames) ==
  /\ stack' = <<FlushFrame(pending)>> \o frames
  /\ UNCHANGED pending

\* handlePendingMessages works on a copy.
Flush(frames) ==
  /\ stack' = <<FlushFrame(pending)>> \o frames
  /\ pending' = <<>>

\* setState flushes what is pending; WantEngine is passed over if there is one.
SetState(newState, frames) ==
  /\ state' = IF newState = "WantEngine" /\ engine THEN "Ready" ELSE newState
  /\ Flush(frames)

\* JavaScript's handlers run once the engine has its objects.
RunsHandlers(frames) ==
  stack' \in IF phase = "running" THEN {frames, <<JSFrame>> \o frames} ELSE {frames}

\* A mistake: a message is not shown to m_syncCallback.
DoDeliverAny(m) ==
  /\ result = 0
  /\ \/ state = "Ready"
     \/ state = "WantVersion" /\ sent[m].cmd = "VERSION"
     \/ state = "WantTypes" /\ sent[m].cmd = "CREATABLE_TYPES"

\* Whether handleMessage takes a message now, or puts it off.
DoDeliver(m) ==
  /\ result = 0
  /\ \/ state = "Ready"
     \/ state = "WantVersion" /\ sent[m].cmd = "VERSION"
     \/ state = "WantTypes" /\ sent[m].cmd = "CREATABLE_TYPES"
  /\ sync = NoWait \/ Matches(sent[m], sync)

\* What the message does.  The reset that a read waits for signals no change.
Deliver(m, frames) ==
  LET msg == sent[m] IN
  /\ handled' = handled \cup {m}
  /\ result' = IF sync = NoWait THEN result ELSE m
  /\ \/ /\ msg.cmd = "VERSION"
        /\ SetState("WantTypes", frames)
        /\ UNCHANGED <<engine, root, data, call>>
     \/ /\ msg.cmd = "CREATABLE_TYPES"
        /\ SetState("WantEngine", frames)
        /\ UNCHANGED <<engine, root, data, call>>
     \/ /\ msg.cmd = "ROOT"
        /\ root' = TRUE
        /\ stack' = frames
        /\ UNCHANGED <<state, engine, pending, data, call>>
     \/ /\ msg.cmd = "OBJECT_RESET"
        /\ data' = [data EXCEPT ![msg.about] = msg.ver]
        /\ IF sync = NoWait THEN RunsHandlers(frames) ELSE stack' = frames
        /\ UNCHANGED <<setupVars, pending, call>>
     \/ /\ msg.cmd = "EMIT"
        /\ RunsHandlers(frames)
        /\ UNCHANGED <<setupVars, pending, data, call>>
     \/ /\ msg.cmd = "INVOKE_RETURN"
        /\ call' = [call EXCEPT ![msg.about] = IF @ = "pending" THEN "settled" ELSE @]
        /\ RunsHandlers(frames)
        /\ UNCHANGED <<setupVars, pending, data>>

\* A mistake: the newest message is put first.
PutOffFirst(m, frames) ==
  /\ pending' = <<m>> \o pending
  /\ stack' = frames
  /\ UNCHANGED <<result, effectVars>>

\* A mistake: a message that comes while another is waited for is dropped.
PutOffInSetup(m, frames) ==
  /\ pending' = IF sync = NoWait \/ state # "Ready" THEN Append(pending, m) ELSE pending
  /\ stack' = frames
  /\ UNCHANGED <<result, effectVars>>

PutOff(m, frames) ==
  /\ pending' = Append(pending, m)
  /\ stack' = frames
  /\ UNCHANGED <<result, effectVars>>

HandleMessage(m, frames) ==
  IF DoDeliver(m) THEN Deliver(m, frames) ELSE PutOff(m, frames)

\* The loop of handleDataReady.
Parse ==
  /\ OnTop("data")
  /\ IF Complete
     THEN /\ parsed' = parsed + 1
          /\ HandleMessage(parsed + 1, stack)
     ELSE /\ stack' = Tail(stack)
          /\ UNCHANGED <<parsed, pending, result, effectVars>>
  /\ UNCHANGED <<backendVars, read, sync, posted, phase>>

\* The loop of handlePendingMessages.
FlushNext ==
  /\ OnTop("flush")
  /\ LET rest == Head(stack).rest IN
     IF rest = <<>>
     THEN /\ stack' = Tail(stack)
          /\ UNCHANGED <<pending, result, effectVars>>
     ELSE HandleMessage(Head(rest), <<FlushFrame(Tail(rest))>> \o Tail(stack))
  /\ UNCHANGED <<backendVars, socketVars, sync, posted, phase>>

-----------------------------------------------------------------------------
\* A mistake: only the socket is looked at, not what is pending.
BeginWaitUnflushed(pattern) ==
  /\ sync' = pattern /\ result' = 0
  /\ stack' = <<Frame("wait", <<>>, sync, result)>> \o stack
  /\ UNCHANGED pending

\* waitForMessage saves who waits, flushes what is pending, reads until the
\* message has come, and leaves the rest to the event loop.
BeginWait(pattern) ==
  /\ sync' = pattern /\ result' = 0
  /\ Flush(<<Frame("wait", <<>>, sync, result)>> \o stack)

WaitForBytes ==
  /\ OnTop("wait") /\ result = 0
  /\ ReadSocket(stack)
  /\ UNCHANGED <<backendVars, pending, syncVars, posted, phase, effectVars>>

\* A mistake: nobody is told of what is pending.
EndWaitSilently ==
  /\ OnTop("wait") /\ result # 0
  /\ sync' = Head(stack).sync /\ result' = Head(stack).result
  /\ stack' = Tail(stack)
  /\ UNCHANGED <<backendVars, socketVars, pending, posted, phase, effectVars>>

EndWait ==
  /\ OnTop("wait") /\ result # 0
  /\ sync' = Head(stack).sync /\ result' = Head(stack).result
  /\ posted' = (posted \/ pending # <<>>)
  /\ stack' = Tail(stack)
  /\ UNCHANGED <<backendVars, socketVars, pending, phase, effectVars>>

-----------------------------------------------------------------------------
\* The event loop: what was posted comes before the socket is looked at.
HandlePosted ==
  /\ EventLoop /\ posted
  /\ posted' = FALSE
  /\ Flush(<<>>)
  /\ UNCHANGED <<backendVars, socketVars, syncVars, phase, effectVars>>

DataReady ==
  /\ EventLoop /\ ~posted
  /\ ReadSocket(<<>>)
  /\ UNCHANGED <<backendVars, pending, syncVars, posted, phase, effectVars>>

\* The user, a timer or a binding makes JavaScript run.
RunJS ==
  /\ EventLoop /\ phase = "running"
  /\ stack' = <<JSFrame>>
  /\ UNCHANGED <<backendVars, socketVars, pending, syncVars, posted, phase, effectVars>>

EndJS ==
  /\ OnTop("js")
  /\ stack' = Tail(stack)
  /\ UNCHANGED <<backendVars, socketVars, pending, syncVars, posted, phase, effectVars>>

\* A property is read before the object has data.
ReadProperty(o) ==
  /\ OnTop("js") /\ Known(o) /\ data[o] = 0
  /\ requests' = requests \cup {o}
  /\ BeginWait(Pattern("OBJECT_RESET", o))
  /\ UNCHANGED <<sent, version, socketVars, posted, phase, effectVars>>

\* The singleton's callback, once the connection has an engine.
ReadRoot ==
  /\ OnTop("js") /\ ~root
  /\ BeginWait(Pattern("ROOT", Nothing))
  /\ UNCHANGED <<backendVars, socketVars, posted, phase, effectVars>>

\* A method that returns a promise, and the deletion of the proxy it waits in.
Invoke(c) ==
  /\ OnTop("js") /\ root /\ call[c] = "none"
  /\ call' = [call EXCEPT ![c] = "pending"]
  /\ requests' = requests \cup {c}
  /\ UNCHANGED <<sent, version, socketVars, pending, syncVars, posted, stack, phase,
                 setupVars, handled, data>>

DeleteProxy(c) ==
  /\ EventLoop /\ call[c] = "pending"
  /\ call' = [call EXCEPT ![c] = "dropped"]
  /\ UNCHANGED <<backendVars, socketVars, pending, syncVars, posted, stack, phase,
                 setupVars, handled, data>>

-----------------------------------------------------------------------------
\* setBackendIo looks at the socket once; then the connection is set up.
SetBackendIo ==
  /\ phase = "connect" /\ phase' = "version"
  /\ ReadSocket(<<>>) \/ UNCHANGED <<socketVars, stack>>
  /\ UNCHANGED <<backendVars, pending, syncVars, posted, effectVars>>

\* ensureConnectionInit.
EnsureVersion ==
  /\ phase = "version" /\ stack = <<>>
  /\ IF state = "WantVersion"
     THEN BeginWait(Pattern("VERSION", Nothing)) /\ UNCHANGED phase
     ELSE /\ phase' = IF Singleton THEN "types" ELSE "root"
          /\ UNCHANGED <<pending, syncVars, stack>>
  /\ UNCHANGED <<backendVars, socketVars, posted, effectVars>>

\* A mistake: types are registered before they are known.
EnsureTypesAtOnce ==
  /\ phase = "types" /\ stack = <<>>
  /\ phase' = "registered"
  /\ UNCHANGED <<backendVars, socketVars, pending, syncVars, posted, stack, effectVars>>

\* registerTypes.
EnsureTypes ==
  /\ phase = "types" /\ stack = <<>>
  /\ IF state = "WantTypes"
     THEN BeginWait(Pattern("CREATABLE_TYPES", Nothing)) /\ UNCHANGED phase
     ELSE phase' = "registered" /\ UNCHANGED <<pending, syncVars, stack>>
  /\ UNCHANGED <<backendVars, socketVars, posted, effectVars>>

\* The engine becomes known from the singleton's callback, which goes on to
\* ensureRootObject, or from the first instance QML creates.
SetQmlEngine ==
  /\ EventLoop /\ ~engine
  /\ engine' = TRUE
  /\ \/ phase' = "root" /\ SetState("Ready", <<>>)
     \/ Instances # {} /\ phase' = "running" /\ SetState("Ready", <<JSFrame>>)
  /\ UNCHANGED <<backendVars, socketVars, syncVars, posted, root, handled, data, call>>

\* ensureRootObject.
EnsureRoot ==
  /\ phase = "root" /\ stack = <<>>
  /\ IF root
     THEN phase' = "running" /\ UNCHANGED <<pending, syncVars, stack>>
     ELSE BeginWait(Pattern("ROOT", Nothing)) /\ UNCHANGED phase
  /\ UNCHANGED <<backendVars, socketVars, posted, effectVars>>

-----------------------------------------------------------------------------
Setup == SetBackendIo \/ EnsureVersion \/ EnsureTypes \/ EnsureRoot
Handle == Parse \/ FlushNext
JavaScript ==
  \/ RunJS \/ EndJS \/ ReadRoot
  \/ \E o \in Obj : ReadProperty(o)
  \/ \E c \in Calls : Invoke(c) \/ DeleteProxy(c)

Next ==
  \/ Backend
  \/ Handle \/ WaitForBytes \/ EndWait
  \/ HandlePosted \/ DataReady
  \/ JavaScript
  \/ Setup \/ SetQmlEngine

Spec == Init /\ [][Next]_vars

\* The thread goes on while it can; the event loop comes to what is posted and
\* to the socket, however often JavaScript runs in between; the backend greets
\* and answers.
Fairness ==
  /\ WF_vars(Handle \/ WaitForBytes \/ EndWait \/ EndJS \/ Setup)
  /\ SF_vars(HandlePosted)
  /\ SF_vars(DataReady)
  /\ WF_vars(Backend /\ Len(sent) < Len(Greeting))
  /\ \A r \in Obj \cup Calls : WF_vars(Answer(r) /\ Backend)
FairSpec == Spec /\ Fairness

-----------------------------------------------------------------------------
\* Every message is handled once and in turn, except the one that is waited for
\* (qbackendconnection.cpp:552): Dispatch implements Delivery.
D == INSTANCE Delivery WITH
       waiting <- IF sync = NoWait THEN "no" ELSE IF result = 0 THEN "yes" ELSE "over",
       wanted  <- sync
DeliversInTurn == D!Spec

\* No message is lost or doubled between the buffer, the pending messages and
\* the copies that are being flushed (qbackendconnection.cpp:515).
Places ==
  {<<0, i>> : i \in DOMAIN pending}
  \cup UNION {{<<f, i>> : i \in DOMAIN stack[f].rest} : f \in DOMAIN stack}
At(p) == IF p[1] = 0 THEN pending[p[2]] ELSE stack[p[1]].rest[p[2]]
LosesNothing ==
  /\ {At(p) : p \in Places} = (1..parsed) \ handled
  /\ \A p, q \in Places : At(p) = At(q) => p = q
  /\ handled \subseteq 1..parsed

\* What the code asserts of the handshake: types are registered only when they
\* are known, the engine comes after the types, and root after the engine
\* (qbackendconnection.cpp:247, 402, 411, 462).
SetupInOrder ==
  /\ phase = "types" => state # "WantVersion"
  /\ phase = "registered" => state = "WantEngine"
  /\ engine <=> state = "Ready"
  /\ root => state = "Ready"
  /\ phase = "running" => root \/ Instances # {}

\* Once nothing is in flight, each proxy has the backend's last data, although a
\* read takes newer data past older (qbackendconnection.cpp:557).
Quiet == stack = <<>> /\ pending = <<>> /\ parsed = Len(sent) /\ requests = {}
FreshWhenQuiet ==
  Quiet => \A o \in Obj : data[o] = version[o] \/ (data[o] = 0 /\ version[o] = 1)

\* What waits for a message gets it (qbackendconnection.cpp:552).
WaitsEnd == sync # NoWait ~> sync = NoWait

\* Once there is an engine, every message is handled: what is put off is not
\* forgotten (qbackendconnection.cpp:558).
MessagesHandled == engine ~> handled = 1..Len(sent)

\* A promise is settled unless its proxy is deleted first (qbackendobject.cpp:113).
CallsSettle == \A c \in Calls : call[c] = "pending" ~> call[c] # "pending"

\* "Block to wait for the connection to complete; this ensures that root is
\* always available" (qbackendconnection.cpp:274).
RootAvailable == phase = "version" ~> root
=============================================================================
