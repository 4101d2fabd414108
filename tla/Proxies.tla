------------------------------- MODULE Proxies -------------------------------
(***************************************************************************)
(* The plugin's side of an object (plugin/qbackendconnection.cpp,          *)
(* qbackendobject.cpp): the proxy for each identifier in m_objects, the    *)
(* data it last received, the cache of types, and the one blocking call,   *)
(* the read of a property whose data has not arrived.                      *)
(*                                                                         *)
(* The JavaScript engine is the environment: it reads properties, calls    *)
(* methods, keeps what it was given, and collects what it no longer uses.  *)
(* A collected proxy is queued for deletion: it stays in m_objects until   *)
(* the event loop deletes it, or until it is replaced.                     *)
(***************************************************************************)
EXTENDS Wire

CONSTANTS MaxRequests  \* requests in flight before the plugin writes another (model bound)

VARIABLES proxy,      \* m_objects: "none", "live", or "doomed" (queued for deletion)
          orphans,    \* objects with a replaced proxy that is still to be deleted
          native,     \* instances whose m_instantiated proxy still exists
          dataReady,  \* objects whose proxy has m_dataReady
          view,       \* the objects mentioned in m_dataObject
          typeCache,  \* m_typeCache
          waiting     \* the object whose OBJECT_RESET a read is blocked on

proxyVars == <<proxy, orphans, native, dataReady, view, typeCache, waiting>>

ProxiesTypeOK ==
  /\ proxy \in [Object -> {"none", "live", "doomed"}]
  /\ orphans \subseteq Object
  /\ native \subseteq Instance
  /\ dataReady \subseteq Object
  /\ view \in [Object -> SUBSET Object]
  /\ typeCache \subseteq Type
  /\ waiting \in Object \cup {NoObject}

ProxiesInit ==
  /\ proxy = [o \in Object |-> "none"]
  /\ orphans = {}
  /\ native = {}
  /\ dataReady = {}
  /\ view = [o \in Object |-> {}]
  /\ typeCache = {}
  /\ waiting = NoObject

-----------------------------------------------------------------------------
CanWrite == Len(toBackend) < MaxRequests

\* The objects of S, at most one, become QObjects or JavaScript values.
\* ensureObject returns what m_objects has, even if doomed; ensureJSObject takes
\* a doomed proxy out of m_objects and replaces it.  A new proxy caches its
\* type and references its object.
Ensure(S) ==
  \/ /\ \A o \in S : proxy[o] # "none"
     /\ UNCHANGED <<proxy, orphans, typeCache, toBackend>>
  \/ \E o \in S :
       /\ CanWrite /\ proxy[o] # "live"
       /\ proxy' = [proxy EXCEPT ![o] = "live"]
       /\ orphans' = IF proxy[o] = "doomed" THEN orphans \cup {o} ELSE orphans
       /\ typeCache' = typeCache \cup {TypeOf[o]}
       /\ toBackend' = Append(toBackend, Request("OBJECT_REF", o, {}))

\* A proxy that Ensure created starts without data.
ForgetData(S) ==
  LET new == {o \in S : proxy[o] # "live" /\ proxy'[o] = "live"}
  IN  /\ dataReady' = dataReady \ new
      /\ view' = [o \in Object |-> IF o \in new THEN {} ELSE view[o]]

\* resetData, if there is a proxy in m_objects.
ResetData(o, kids) ==
  /\ dataReady' = IF proxy[o] = "none" THEN dataReady ELSE dataReady \cup {o}
  /\ view' = IF proxy[o] = "none" THEN view ELSE [view EXCEPT ![o] = kids]

Received(cmd) ==
  /\ waiting = NoObject
  /\ toClient # <<>> /\ Head(toClient).cmd = cmd
  /\ toClient' = Tail(toClient)

\* handleMessage, one action per command.
ReceiveRoot ==
  /\ Received("ROOT")
  /\ Ensure({Root})
  /\ dataReady' = dataReady \cup {Root}
  /\ view' = [view EXCEPT ![Root] = Head(toClient).kids]
  /\ UNCHANGED <<native, waiting>>

ReceiveReset ==
  /\ Received("OBJECT_RESET")
  /\ ResetData(Head(toClient).id, Head(toClient).kids)
  /\ UNCHANGED <<proxy, orphans, native, typeCache, waiting, toBackend>>

\* The parameters of a signal become QObjects, if the object has a proxy.
ReceiveEmit ==
  /\ Received("EMIT")
  /\ LET objs == IF proxy[Head(toClient).id] = "none" THEN {} ELSE Head(toClient).kids
     IN  Ensure(objs) /\ ForgetData(objs)
  /\ UNCHANGED <<native, waiting>>

\* So do the values of a call, if that proxy still has the promise; one that
\* replaced the caller does not.
ReceiveReturn ==
  /\ Received("INVOKE_RETURN")
  /\ \E objs \in {{}, Head(toClient).kids} :
       /\ proxy[Head(toClient).id] = "none" => objs = {}
       /\ Ensure(objs) /\ ForgetData(objs)
  /\ UNCHANGED <<native, waiting>>

\* A blocked read takes the first OBJECT_RESET of its object, past whatever is
\* ahead of it.
IsAnswer(msg) == msg.cmd = "OBJECT_RESET" /\ msg.id = waiting

ReceiveAnswer ==
  /\ waiting # NoObject
  /\ \E i \in 1..Len(toClient) :
       /\ IsAnswer(toClient[i])
       /\ \A j \in 1..(i - 1) : ~IsAnswer(toClient[j])
       /\ ResetData(waiting, toClient[i].kids)
       /\ toClient' = RemoveAt(toClient, i)
  /\ waiting' = NoObject
  /\ UNCHANGED <<proxy, orphans, native, typeCache, toBackend>>

-----------------------------------------------------------------------------
\* JavaScript runs while nothing blocks it, and uses the proxies it holds.
EngineRuns == waiting = NoObject

\* A mistake: the read blocks without having asked.
BlockUnasked(o) ==
  /\ EngineRuns /\ CanWrite
  /\ proxy[o] = "live" /\ o \notin dataReady
  /\ waiting' = o
  /\ UNCHANGED <<proxy, orphans, native, dataReady, view, typeCache, wireVars>>

\* Reading a property of a proxy without data queries the object and blocks.
ReadAndBlock(o) ==
  /\ EngineRuns /\ CanWrite
  /\ proxy[o] = "live" /\ o \notin dataReady
  /\ toBackend' = Append(toBackend, Request("OBJECT_QUERY", o, {}))
  /\ waiting' = o
  /\ UNCHANGED <<proxy, orphans, native, dataReady, view, typeCache, toClient>>

\* Reading a property that holds object k makes, or replaces, k's proxy.
ReadChild(o, k) ==
  /\ EngineRuns
  /\ proxy[o] = "live" /\ o \in dataReady /\ k \in view[o]
  /\ proxy[k] # "live"
  /\ Ensure({k}) /\ ForgetData({k})
  /\ UNCHANGED <<native, waiting, toClient>>

\* A method is called, with objects among its parameters.
Invoke(o, args) ==
  /\ EngineRuns /\ CanWrite
  /\ args \in Methods[o]
  /\ \A k \in {o} \cup args : proxy[k] = "live"
  /\ toBackend' = Append(toBackend, Request("INVOKE", o, args))
  /\ UNCHANGED <<proxyVars, toClient>>

\* QML instantiates a backend type, under an identifier never used before.
Create(o) ==
  /\ EngineRuns /\ CanWrite
  /\ o \in Instance /\ proxy[o] = "none"
  /\ proxy' = [proxy EXCEPT ![o] = "live"]
  /\ toBackend' = Append(toBackend, Request("OBJECT_CREATE", o, {}))
  /\ native' = native \cup {o}
  /\ UNCHANGED <<orphans, dataReady, view, typeCache, waiting, toClient>>

\* The engine collects a proxy it no longer uses; root is owned by C++.
JSCollect(o) ==
  /\ EngineRuns
  /\ o # Root /\ proxy[o] = "live"
  /\ proxy' = [proxy EXCEPT ![o] = "doomed"]
  /\ UNCHANGED <<orphans, native, dataReady, view, typeCache, waiting, wireVars>>

\* ~BackendObjectPrivate of the proxy an instance was created with calls
\* componentDestruction, if the type has it.
LastCall(o) == {<<>>} \cup {<<Request("INVOKE", i, {})>> : i \in {o} \cap native}

\* A mistake: the object is removed and its reference kept.
DestroySilently(o) ==
  /\ EngineRuns /\ CanWrite
  /\ proxy[o] = "doomed" /\ o \notin orphans
  /\ proxy' = [proxy EXCEPT ![o] = "none"]
  /\ dataReady' = dataReady \ {o}
  /\ view' = [view EXCEPT ![o] = {}]
  /\ native' = native \ {o}
  /\ \E call \in LastCall(o) : toBackend' = toBackend \o call
  /\ UNCHANGED <<orphans, typeCache, waiting, toClient>>

\* The event loop deletes the proxy in m_objects (removeObject), after those it
\* replaced: deletions were queued in that order.
Destroy(o) ==
  /\ EngineRuns /\ CanWrite
  /\ proxy[o] = "doomed" /\ o \notin orphans
  /\ proxy' = [proxy EXCEPT ![o] = "none"]
  /\ dataReady' = dataReady \ {o}
  /\ view' = [view EXCEPT ![o] = {}]
  /\ native' = native \ {o}
  /\ \E call \in LastCall(o) :
       toBackend' = toBackend \o call \o <<Request("OBJECT_DEREF", o, {})>>
  /\ UNCHANGED <<orphans, typeCache, waiting, toClient>>

\* A mistake: removeObject removes whatever proxy m_objects has.
DestroyAnyProxy(o) ==
  /\ EngineRuns /\ CanWrite
  /\ o \in orphans
  /\ orphans' = orphans \ {o}
  /\ native' = native \ {o}
  /\ toBackend' = Append(toBackend, Request("OBJECT_DEREF", o, {}))
  /\ UNCHANGED <<proxy, dataReady, view, typeCache, waiting, toClient>>

\* It deletes a replaced proxy: m_objects has another, so nothing is removed.
DestroyOrphan(o) ==
  /\ EngineRuns /\ CanWrite
  /\ o \in orphans
  /\ orphans' = orphans \ {o}
  /\ native' = native \ {o}
  /\ \E call \in LastCall(o) : toBackend' = toBackend \o call
  /\ UNCHANGED <<proxy, dataReady, view, typeCache, waiting, toClient>>
=============================================================================
