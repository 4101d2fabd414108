------------------------------ MODULE Registry ------------------------------
(***************************************************************************)
(* The backend's object registry (backend/object.go, connection.go): which *)
(* objects the Connection holds, the client's boolean reference and the    *)
(* count of marshaled references on each, the grace period that protects   *)
(* references in flight, and the collection Process runs at most once per  *)
(* interval.  The handlers of Process and the calls the application makes  *)
(* are the actions.                                                        *)
(*                                                                         *)
(* An application's fields are read when an object is marshaled; what they *)
(* hold is any of Shapes[o], because the application may assign them        *)
(* whenever it runs.  Time is a number of ticks.                           *)
(***************************************************************************)
EXTENDS Wire, FiniteSets, Integers

CONSTANTS Shapes,        \* Shapes[o]: the sets of objects o's properties may hold
          Properties,    \* how many properties an object has; some may be empty
          Grace,         \* objectRefGracePeriod, in ticks
          CollectEvery,  \* the interval between collections, in ticks
          KeepsChildren  \* TRUE: the application only ever adds children

ASSUME RegistryAssumption ==
  /\ IsFiniteSet(Object)
  /\ Shapes \in [Object -> SUBSET SUBSET Object]
  /\ Properties \in Nat \ {0}
  /\ Grace \in Nat \ {0}
  /\ CollectEvery \in Nat \ {0}
  /\ KeepsChildren \in BOOLEAN

VARIABLES inited,       \* objects with an id: QObject.id # ""
          registered,   \* Connection.objects; inited \ registered are inactive
          ref,          \* objects with QObject.ref
          refCount,     \* QObject.refCount
          refChildren,  \* the keys of QObject.refChildren
          grace,        \* ticks left until QObject.refGraceTime
          knownTypes,   \* Connection.knownTypes
          processing,   \* a call of Process is running
          serving,      \* the object whose method Process is calling
          elapsed,      \* ticks since lastCollection, up to CollectEvery
          health        \* "ok", or how the backend failed

objectVars   == <<inited, registered, ref, refCount, refChildren, grace, knownTypes>>
processVars  == <<processing, serving, elapsed, health>>
registryVars == <<objectVars, processVars>>

RegistryTypeOK ==
  /\ inited \subseteq Object
  /\ registered \subseteq inited
  /\ ref \subseteq Object
  /\ refCount \in [Object -> Int]
  /\ refChildren \in [Object -> SUBSET Object]
  /\ grace \in [Object -> 0..Grace]
  /\ knownTypes \subseteq Type
  /\ processing \in BOOLEAN
  /\ serving \in Object \cup {NoObject}
  /\ elapsed \in 0..CollectEvery
  /\ health \in {"ok", "fatal", "panic"}

-----------------------------------------------------------------------------
\* Before the first call of Process or Run: ensureHandler has registered root.
RegistryInit ==
  /\ inited = {Root}
  /\ registered = {Root}
  /\ ref = {}
  /\ refCount = [o \in Object |-> 0]
  /\ refChildren = [o \in Object |-> {}]
  /\ grace = [o \in Object |-> IF o = Root THEN Grace ELSE 0]
  /\ knownTypes = {}
  /\ processing = FALSE
  /\ serving = NoObject
  /\ elapsed = 0
  /\ health = "ok"

\* A mistake: only objects that are held get a new grace period.
RefsChangedIfHeld(S, r) ==
  [o \in Object |-> IF o \in S /\ (o \in r \/ refCount[o] >= 1) THEN Grace ELSE grace[o]]

\* refsChanged on each object of S, where r is the set of objects with ref.
RefsChanged(S, r) ==
  [o \in Object |-> IF o \in S /\ o \notin r /\ refCount[o] < 1 THEN Grace ELSE grace[o]]

\* A mistake: a type counts as known once an object of it was sent.
OmittedOnceSent(S) == {TypeOf[o] : o \in S \cap inited}

\* The types of the objects in S that MarshalJSON describes by name only.
Omitted(S) == {TypeOf[o] : o \in S} \cap knownTypes

\* Objects the application can have a pointer to.
Reachable == (Object \ Instance) \cup inited

\* Mistakes: collections that forget what still holds an object.
SweepUnreferenced(reg) ==
  /\ registered' = IF elapsed < CollectEvery THEN reg
                   ELSE {o \in reg : o \in ref' \/ grace'[o] > 0}
  /\ elapsed' = IF elapsed < CollectEvery THEN elapsed ELSE 0

SweepUncounted(reg) ==
  /\ registered' = IF elapsed < CollectEvery THEN reg
                   ELSE {o \in reg : refCount'[o] >= 1 \/ grace'[o] > 0}
  /\ elapsed' = IF elapsed < CollectEvery THEN elapsed ELSE 0

\* collectObjects at the end of a handler, once the interval has passed; reg
\* is what the handler leaves registered.
Sweep(reg) ==
  /\ registered' = IF elapsed < CollectEvery THEN reg
                   ELSE {o \in reg : o \in ref' \/ refCount'[o] >= 1 \/ grace'[o] > 0}
  /\ elapsed' = IF elapsed < CollectEvery THEN elapsed ELSE 0

\* marshalObject goes through the properties, in any order, with the counts so
\* far, the children it has met (their entry in refChildren is above zero) and
\* those it has yet to meet (an entry of zero).  In each property it counts the
\* children that have no entry; then it drops the entries that are still zero,
\* even of children that a later property mentions.

\* A mistake: the entries stay at zero, to be uncounted again.
RecountFieldInPlace(c, found) ==
  LET added == found \ (c.held \cup c.stale)
      gone  == c.stale \ found
  IN [count |-> [k \in Object |-> IF k \in added THEN c.count[k] + 1
                                  ELSE IF k \in gone THEN c.count[k] - 1 ELSE c.count[k]],
      held  |-> c.held \cup found,
      stale |-> gone]

\* One property, in which found is mentioned.
RecountField(c, found) ==
  LET added == found \ (c.held \cup c.stale)
      gone  == c.stale \ found
  IN [count |-> [k \in Object |-> IF k \in added THEN c.count[k] + 1
                                  ELSE IF k \in gone THEN c.count[k] - 1 ELSE c.count[k]],
      held  |-> c.held \cup found,
      stale |-> {}]

\* All of them, where fields[i] is what the i-th mentions.
RecountFields(start, fields) ==
  LET c[i \in 0..Properties] == IF i = 0 THEN start ELSE RecountField(c[i - 1], fields[i])
  IN c[Properties]

\* The counters after marshalObject of o found exactly kids in its properties.
Recount(o, kids) ==
  \E fields \in [1..Properties -> SUBSET kids] :
    /\ UNION {fields[i] : i \in 1..Properties} = kids
    /\ LET start == [count |-> refCount, held |-> {}, stale |-> refChildren[o]]
           end   == RecountFields(start, fields)
       IN /\ refCount' = end.count
          /\ refChildren' = [refChildren EXCEPT ![o] = end.held \cup end.stale]

\* marshalObject: the scan gives ids to new objects and reactivates collected
\* ones, each with a new grace period; after a change to a child's count it is
\* refsChanged of o, the parent, that is called.  The caller has set ref'.
Marshal(o, kids) ==
  /\ kids \in Shapes[o]
  /\ kids \subseteq Reachable
  /\ KeepsChildren => refChildren[o] \subseteq kids
  /\ inited' = inited \cup kids
  /\ Recount(o, kids)
  /\ grace' = RefsChanged((kids \ registered) \cup {o}, ref')

-----------------------------------------------------------------------------
\* handle: the greeting marshals root; VERSION and CREATABLE_TYPES mention no
\* object.
Greet(kids) ==
  /\ health = "ok" /\ Root \notin ref
  /\ ref' = ref \cup {Root}
  /\ Marshal(Root, kids)
  /\ registered' = registered \cup kids
  /\ toClient' = Append(toClient, Update("ROOT", Root, kids, Omitted(kids)))
  /\ UNCHANGED <<knownTypes, processVars, toBackend>>

\* Process is called, and returns once it finds the queue empty: there may be
\* more on its way.
ProcessBegin ==
  /\ health = "ok" /\ ~processing
  /\ processing' = TRUE
  /\ elapsed' = 0
  /\ UNCHANGED <<objectVars, serving, health, wireVars>>

ProcessReturn ==
  /\ health = "ok" /\ processing /\ serving = NoObject
  /\ processing' = FALSE
  /\ elapsed' = 0
  /\ UNCHANGED <<objectVars, serving, health, wireVars>>

\* Process takes the next message, of command cmd, off the queue.
Dequeue(cmd) ==
  /\ health = "ok" /\ processing /\ serving = NoObject
  /\ toBackend # <<>> /\ Head(toBackend).cmd = cmd
  /\ toBackend' = Tail(toBackend)

\* The object the message names.
Named == Head(toBackend).id

HandleRef ==
  /\ Dequeue("OBJECT_REF")
  /\ \/ /\ Named \in registered
        /\ ref' = ref \cup {Named}
        /\ knownTypes' = knownTypes \cup {TypeOf[Named]}
     \/ /\ Named \notin registered
        /\ UNCHANGED <<ref, knownTypes>>
  /\ UNCHANGED <<inited, refCount, refChildren, grace>>
  /\ Sweep(registered)
  /\ UNCHANGED <<processing, serving, health, toClient>>

HandleDeref ==
  /\ Dequeue("OBJECT_DEREF")
  /\ ref' = ref \ ({Named} \cap registered)
  /\ grace' = RefsChanged({Named} \cap registered, ref')
  /\ UNCHANGED <<inited, refCount, refChildren, knownTypes>>
  /\ Sweep(registered)
  /\ UNCHANGED <<processing, serving, health, toClient>>

\* sendUpdate in answer to a query; nothing is sent for an object that the
\* client does not reference.
HandleQuery(kids) ==
  /\ Dequeue("OBJECT_QUERY")
  /\ Named \in ref
  /\ UNCHANGED <<ref, knownTypes, processing, serving, health>>
  /\ Marshal(Named, kids)
  /\ toClient' = Append(toClient, Update("OBJECT_RESET", Named, kids, Omitted(kids)))
  /\ Sweep(registered \cup kids)

HandleQueryUnsent ==
  /\ Dequeue("OBJECT_QUERY")
  /\ Named \in registered \ ref
  /\ UNCHANGED <<inited, ref, refCount, refChildren, grace, knownTypes>>
  /\ Sweep(registered)
  /\ UNCHANGED <<processing, serving, health, toClient>>

\* A query or a call of an unknown object closes the connection.
HandleUnknown ==
  /\ Dequeue("OBJECT_QUERY") \/ Dequeue("INVOKE")
  /\ Named \notin registered
  /\ health' = "fatal"
  /\ UNCHANGED <<inited, ref, refCount, refChildren, grace, knownTypes>>
  /\ Sweep(registered)
  /\ UNCHANGED <<processing, serving, toClient>>

\* The factory's object is initialized under the plugin's identifier.
HandleCreate ==
  /\ Dequeue("OBJECT_CREATE")
  /\ \/ /\ Named \in registered
        /\ health' = "fatal"
        /\ UNCHANGED <<inited, ref, grace>>
     \/ /\ Named \notin registered
        /\ inited' = inited \cup {Named}
        /\ grace' = RefsChanged({Named}, ref)
        /\ ref' = ref \cup {Named}
        /\ UNCHANGED health
  /\ UNCHANGED <<refCount, refChildren, knownTypes>>
  /\ Sweep(registered \cup {Named})
  /\ UNCHANGED <<processing, serving, toClient>>

\* Process looks up the object and its arguments and calls the method.
HandleInvoke ==
  /\ Dequeue("INVOKE")
  /\ Named \in registered
  /\ Head(toBackend).kids \subseteq registered
  /\ serving' = Named
  /\ UNCHANGED <<objectVars, processing, elapsed, health, toClient>>

\* An unknown argument is a nil dereference in Connection.Object.
HandleInvokeUnknownArgument ==
  /\ Dequeue("INVOKE")
  /\ Named \in registered
  /\ ~(Head(toBackend).kids \subseteq registered)
  /\ health' = "panic"
  /\ UNCHANGED <<objectVars, processing, serving, elapsed, toClient>>

\* The method returns (or was refused, with no value): the values are scanned,
\* and sent if the plugin asked for them.
InvokeReturn(kids, asked) ==
  /\ health = "ok" /\ serving # NoObject
  /\ kids \in Results[serving] /\ kids \subseteq Reachable
  /\ inited' = inited \cup kids
  /\ grace' = RefsChanged(IF asked THEN kids ELSE kids \ registered, ref)
  /\ toClient' = IF asked
                 THEN Append(toClient, Update("INVOKE_RETURN", serving, kids, Omitted(kids)))
                 ELSE toClient
  /\ serving' = NoObject
  /\ UNCHANGED <<ref, refCount, refChildren, knownTypes, processing, health, toBackend>>
  /\ Sweep(registered \cup kids)

-----------------------------------------------------------------------------
\* The application runs between calls of Process, or inside a method.
AppMayRun == health = "ok" /\ (processing => serving # NoObject)

\* Connection.InitObject.
InitObject(o) ==
  /\ AppMayRun
  /\ o \in Reachable \ registered
  /\ inited' = inited \cup {o}
  /\ registered' = registered \cup {o}
  /\ grace' = RefsChanged({o}, ref)
  /\ UNCHANGED <<ref, refCount, refChildren, knownTypes, processVars, wireVars>>

\* QObject.Emit, and the signal functions; ignored without a reference.
Emit(o, kids) ==
  /\ AppMayRun
  /\ o \in ref
  /\ kids \in Signals[o] /\ kids \subseteq Reachable
  /\ inited' = inited \cup kids
  /\ registered' = registered \cup kids
  /\ grace' = RefsChanged(kids, ref)
  /\ toClient' = Append(toClient, Update("EMIT", o, kids, Omitted(kids)))
  /\ UNCHANGED <<ref, refCount, refChildren, knownTypes, processVars, toBackend>>

\* QObject.Changed and ResetProperties: the object is sent in full.
Changed(o, kids) ==
  /\ AppMayRun
  /\ o \in ref
  /\ UNCHANGED <<ref, knownTypes, processVars, toBackend>>
  /\ Marshal(o, kids)
  /\ registered' = registered \cup kids
  /\ toClient' = Append(toClient, Update("OBJECT_RESET", o, kids, Omitted(kids)))

\* A mistake: a period that has run out is run down further.
RunDownPastEnd == [o \in Object |-> grace[o] - 1]

\* The grace periods after a tick.
RunDown == [o \in Object |-> IF grace[o] > 0 THEN grace[o] - 1 ELSE 0]

\* One tick passes: for the grace periods always, for the collection interval
\* while Process runs (lastCollection is a local of Process), in a method or
\* with messages to handle: it does not linger on an empty queue.
Tick ==
  /\ health = "ok"
  /\ (processing /\ serving = NoObject) => toBackend # <<>>
  /\ grace' = RunDown
  /\ elapsed' = IF processing /\ elapsed < CollectEvery THEN elapsed + 1 ELSE elapsed
  /\ UNCHANGED <<inited, registered, ref, refCount, refChildren, knownTypes,
                 processing, serving, health, wireVars>>

-----------------------------------------------------------------------------
\* The objects whose marshaled properties mention k.
Referrers(k) == {p \in Object : k \in refChildren[p]}

\* Every count is the number of objects that hold a marshaled reference.
RefCountExact == \A k \in Object : refCount[k] = Cardinality(Referrers(k))

\* An object the client references, or one mentioned in what was last
\* marshaled of any object, is registered: marshalObject can look it up.
HeldIsRegistered ==
  /\ ref \subseteq registered
  /\ \A p \in Object : refChildren[p] \subseteq registered
=============================================================================
