---------------------------- MODULE ObjectLifetime ----------------------------
(***************************************************************************)
(* The backend's registry and the plugin's proxies over the wire: from the *)
(* first mention of an object to its collection.                           *)
(***************************************************************************)
EXTENDS Registry, Proxies

CONSTANTS MaxUpdates,  \* updates in flight before another is caused: by the application
                       \* sending one, or the engine making a call (model bound)
          Prompt       \* TRUE: no message stays in flight for as long as a tick

ASSUME LifetimeAssumption ==
  /\ MaxUpdates \in Nat
  /\ MaxRequests \in Nat
  /\ Prompt \in BOOLEAN

vars == <<wireVars, registryVars, proxyVars>>

TypeOK == WireTypeOK /\ RegistryTypeOK /\ ProxiesTypeOK

Init ==
  /\ toBackend = <<>>
  /\ toClient = <<>>
  /\ RegistryInit
  /\ ProxiesInit

-----------------------------------------------------------------------------
\* What Process does with the connection's messages.
Handler ==
  \/ HandleRef
  \/ HandleDeref
  \/ \E kids \in SUBSET Object : HandleQuery(kids)
  \/ HandleQueryUnsent
  \/ HandleUnknown
  \/ HandleCreate
  \/ HandleInvoke
  \/ HandleInvokeUnknownArgument

Return == \E kids \in Parameters, asked \in BOOLEAN : InvokeReturn(kids, asked)

Application ==
  \/ \E o \in Object : InitObject(o)
  \/ /\ Len(toClient) < MaxUpdates
     /\ \E o \in Object :
          \/ \E kids \in Parameters : Emit(o, kids)
          \/ \E kids \in SUBSET Object : Changed(o, kids)

\* A tick; with Prompt, only when nothing is in flight.
Clock ==
  /\ Prompt => toBackend = <<>> /\ toClient = <<>>
  /\ Tick

Backend ==
  \/ \E kids \in SUBSET Object : Greet(kids)
  \/ ProcessBegin
  \/ ProcessReturn
  \/ Handler
  \/ Return
  \/ Application
  \/ Clock

\* handleMessage and the blocked read.
Receive ==
  \/ ReceiveRoot
  \/ ReceiveReset
  \/ ReceiveEmit
  \/ ReceiveReturn
  \/ ReceiveAnswer

\* QUuid::createUuid: an identifier is never used twice.
Unused(o) ==
  /\ o \notin inited
  /\ \A i \in 1..Len(toBackend) : toBackend[i].id # o

\* The creatable types come with the greeting; there is nothing to use before.
Engine ==
  /\ Root \in ref
  /\ \E o \in Object :
       \/ ReadAndBlock(o)
       \/ \E k \in Object : ReadChild(o, k)
       \/ Len(toClient) < MaxUpdates /\ \E args \in Parameters : Invoke(o, args)
       \/ Unused(o) /\ Create(o)
       \/ JSCollect(o)
       \/ Destroy(o)
       \/ DestroyOrphan(o)

Client == Receive \/ Engine

Next ==
  \/ Backend /\ UNCHANGED proxyVars
  \/ Client /\ UNCHANGED registryVars

Spec == Init /\ [][Next]_vars

\* Run answers every signal with a call of Process; the reader goroutine queues
\* what is on its way, and Process does not return while the queue holds a
\* message, so it cannot return for ever without handling one; the application's
\* methods return; the plugin's event loop, or the blocked read itself, handles
\* what arrives.
Fairness ==
  /\ WF_vars(ProcessBegin /\ UNCHANGED proxyVars)
  /\ SF_vars(Handler /\ UNCHANGED proxyVars)
  /\ WF_vars(Return /\ UNCHANGED proxyVars)
  /\ WF_vars(Receive /\ UNCHANGED registryVars)
FairSpec == Spec /\ Fairness

\* Besides, time passes between the calls of Process.
TimedSpec == FairSpec /\ SF_vars(Clock /\ ~processing /\ UNCHANGED proxyVars)

-----------------------------------------------------------------------------
\* The commands that set or clear an object's reference.
RefCommands == {"OBJECT_REF", "OBJECT_CREATE", "OBJECT_DEREF"}

\* Whether the backend will hold o referenced once it has handled everything
\* that is in flight, were o registered all along.
WillBeReferenced(o) ==
  LET about == {i \in 1..Len(toBackend) : toBackend[i].id = o /\ toBackend[i].cmd \in RefCommands}
      last  == CHOOSE i \in about : \A j \in about : j <= i
  IN  IF about = {} THEN o \in ref ELSE toBackend[last].cmd # "OBJECT_DEREF"

\* A reference the backend holds, or will hold, is one a proxy gives back when
\* it is deleted: none is leaked, whatever the engine replaces or deletes and in
\* whatever order (addObjectProxy, removeObject, ensureJSObject).
NoLeakedReference ==
  \A o \in Object \ {Root} : WillBeReferenced(o) => proxy[o] # "none"

\* A type the backend has left out of a message is one the plugin has cached,
\* and so is every type the backend will come to leave out (knownTypes,
\* MarshalJSON, newTypeMetaObject).
OmittedIsCached ==
  /\ knownTypes \subseteq typeCache
  /\ \A i \in 1..Len(toClient) : toClient[i].omit \subseteq typeCache

\* The objects the plugin uses, or could without hearing of them again.
Usable ==
  {o \in Object : proxy[o] # "none"}
    \cup (UNION {view[o] : o \in Object})
    \cup (UNION {toClient[i].kids : i \in 1..Len(toClient)})

BeingCreated(o) ==
  \E i \in 1..Len(toBackend) : toBackend[i].cmd = "OBJECT_CREATE" /\ toBackend[i].id = o

\* "The frontend keeps a reference on any object it does or could use, so
\* objects can never disappear from under it" (object.go:145).
NeverDisappears == \A o \in Usable : o \in registered \/ BeingCreated(o)

\* The connection never fails for the plugin naming an object that is gone.
NeverFails == health = "ok"

\* The two sides agree: the backend will hold a reference exactly when the
\* plugin has a proxy (Root: from the greeting on).
ReferencesAgree ==
  \A o \in Object \ {Root} : WillBeReferenced(o) <=> proxy[o] # "none"

\* "Once there are no references to an object from QML or within the properties of
\* another referenced QObject, pointers within qbackend will be released"
\* (object.go:140), "at most every 5 seconds" (connection.go:343): while the client
\* goes on sending messages, and Process handles them and returns, such an object
\* whose grace period is over is collected some time, unless it is used again.
Unreferenced(o) == o \notin ref /\ \A p \in ref \ {o} : o \notin refChildren[p]

Abandoned(o) == health = "ok" /\ o \in registered /\ Unreferenced(o) /\ grace[o] = 0

ReleasesAbandoned ==
  []<>(toBackend # <<>>) /\ []<>~processing => \A o \in Object : Abandoned(o) ~> ~Abandoned(o)

\* A property read that blocks on OBJECT_QUERY is answered (metacall,
\* resetObjectData, sendUpdate).
BlockedReadEnds == \A o \in Object : waiting = o ~> waiting # o
=============================================================================
