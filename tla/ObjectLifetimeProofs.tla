------------------------- MODULE ObjectLifetimeProofs -------------------------
(***************************************************************************)
(* Theorems about ObjectLifetime, for every set of objects and types, every *)
(* shape of the application's data, every bound and every grace period.     *)
(***************************************************************************)
EXTENDS ObjectLifetime, FiniteSetTheorems, SequenceTheorems, WellFoundedInduction, TLAPS

-----------------------------------------------------------------------------
\* What marshalObject makes of the counters, whatever order it visits the
\* properties in and whichever of them mention which children.

\* The counts, moved by one for each child that is mentioned anew or no longer.
Net(count, old, new) ==
  [k \in Object |-> IF k \in new \ old THEN count[k] + 1
                    ELSE IF k \in old \ new THEN count[k] - 1
                    ELSE count[k]]

\* The children that the first i properties mention.
Met(fields, i) == UNION {fields[j] : j \in 1..i}

Looping(fields, start, f) ==
  [i \in 0..Properties |-> IF i = 0 THEN start ELSE RecountField(f[i - 1], fields[i])]

LEMMA LeastNatural ==
  ASSUME NEW S \in SUBSET Nat, S # {}
  PROVE  \E n \in S : \A m \in S : n <= m
  <1>1. PICK n \in S : \A m \in S : <<m, n>> \notin OpToRel(<, Nat)
    BY NatLessThanWellFounded, WFMin
  <1>2. ASSUME NEW m \in S
        PROVE  n <= m
    <2>1. <<m, n>> \in OpToRel(<, Nat) <=> m < n
      BY DEF OpToRel
    <2>2. ~(m < n)
      BY <1>1, <2>1
    <2> QED
      BY <2>2
  <1> QED
    BY <1>2

\* The loop over the properties is a function: it can be extended by one more
\* property for as long as there is one.
LEMMA LoopDefined ==
  ASSUME NEW fields, NEW start
  PROVE  \E f : f = Looping(fields, start, f)
  <1> DEFINE Next1(c, i) == RecountField(c, fields[i])
             Upto(f, n)  == f = [i \in 0..n |-> IF i = 0 THEN start ELSE Next1(f[i - 1], i)]
             Short       == {n \in 0..Properties : ~\E f : Upto(f, n)}
  <1> HIDE DEF Next1
  <1>1. Properties \in Nat
    BY RegistryAssumption
  <1>2. \E f : Upto(f, 0)
    <2> DEFINE f == [i \in 0..0 |-> start]
    <2>1. Upto(f, 0)
      OBVIOUS
    <2> QED
      BY <2>1
  <1>3. ASSUME NEW n \in Nat, NEW f, Upto(f, n)
        PROVE  \E g : Upto(g, n + 1)
    <2> DEFINE g == [i \in 0..(n + 1) |-> IF i = n + 1 THEN Next1(f[n], n + 1) ELSE f[i]]
    <2>1. ASSUME NEW i \in 0..(n + 1)
          PROVE  g[i] = IF i = 0 THEN start ELSE Next1(g[i - 1], i)
      <3>1. CASE i = n + 1
        <4>1. i - 1 = n /\ n \in 0..(n + 1) /\ n # n + 1 /\ i # 0
          BY <3>1
        <4> QED
          BY <3>1, <4>1
      <3>2. CASE i = 0
        <4>1. i # n + 1 /\ i \in 0..n
          BY <3>2
        <4> QED
          BY <1>3, <3>2, <4>1
      <3>3. CASE i \in 1..n
        <4>1. i # n + 1 /\ i - 1 # n + 1 /\ i # 0 /\ i \in 0..n /\ i - 1 \in 0..(n + 1)
          BY <3>3
        <4>2. g[i] = f[i] /\ g[i - 1] = f[i - 1]
          BY <4>1
        <4>3. f[i] = Next1(f[i - 1], i)
          BY <1>3, <4>1
        <4> QED
          BY <4>1, <4>2, <4>3
      <3> QED
        BY <3>1, <3>2, <3>3
    <2>2. Upto(g, n + 1)
      BY <2>1
    <2> QED
      BY <2>2
  <1> HIDE DEF Upto
  <1>4. Short = {}
    <2> SUFFICES ASSUME Short # {} PROVE FALSE
      OBVIOUS
    <2>1. Short \in SUBSET Nat
      OBVIOUS
    <2>2. PICK n \in Short : \A m \in Short : n <= m
      <3> HIDE DEF Short
      <3> QED
        BY <2>1, LeastNatural
    <2>3. n \in 1..Properties /\ n - 1 \in 0..Properties /\ n - 1 \notin Short
      BY <1>1, <1>2, <2>2
    <2>4. n - 1 \in Nat /\ (n - 1) + 1 = n
      BY <2>3
    <2>5. PICK f : Upto(f, n - 1)
      BY <2>3
    <2>6. \E g : Upto(g, (n - 1) + 1)
      BY <1>3, <2>4, <2>5
    <2> QED
      BY <2>2, <2>4, <2>6
  <1>5. \E f : Upto(f, Properties)
    BY <1>1, <1>4
  <1> QED
    BY <1>5 DEF Upto, Next1, Looping

\* After the first i properties the children met are those they mention, no
\* entry is at zero, and the counts have moved by what has been met.
LEMMA LoopNets ==
  ASSUME NEW count \in [Object -> Int], NEW old \in SUBSET Object,
         NEW fields \in [1..Properties -> SUBSET Object],
         NEW start, start = [count |-> count, held |-> {}, stale |-> old],
         NEW f, f = Looping(fields, start, f),
         NEW i \in 1..Properties
  PROVE  f[i] = [count |-> Net(count, old, Met(fields, i)), held |-> Met(fields, i), stale |-> {}]
  <1> DEFINE Good(n) == f[n] = [count |-> Net(count, old, Met(fields, n)),
                                held  |-> Met(fields, n),
                                stale |-> {}]
             Bad     == {n \in 1..Properties : ~Good(n)}
  <1>1. Properties \in Nat \ {0}
    BY RegistryAssumption
  <1>2. f[0] = start
    <2>1. 0 \in 0..Properties
      BY <1>1
    <2>2. f = [n \in 0..Properties |-> IF n = 0 THEN start ELSE RecountField(f[n - 1], fields[n])]
      BY DEF Looping
    <2> QED
      BY <2>1, <2>2
  <1>3. ASSUME NEW n \in 1..Properties
        PROVE  f[n] = RecountField(f[n - 1], fields[n])
    <2>1. n \in 0..Properties /\ n # 0
      BY <1>1
    <2>2. f = [m \in 0..Properties |-> IF m = 0 THEN start ELSE RecountField(f[m - 1], fields[m])]
      BY DEF Looping
    <2> QED
      BY <2>1, <2>2
  <1>4. ASSUME NEW n \in 1..Properties
        PROVE  fields[n] \in SUBSET Object /\ Met(fields, n) \in SUBSET Object
    <2>1. \A j \in 1..n : j \in 1..Properties
      BY <1>1
    <2> QED
      BY <2>1 DEF Met
  <1>5. Good(1)
    <2>1. 1 \in 1..Properties /\ 1 - 1 = 0
      BY <1>1
    <2>2. f[1] = RecountField(start, fields[1])
      BY <1>2, <1>3, <2>1
    <2>3. Met(fields, 1) = fields[1]
      <3>1. 1..1 = {1}
        OBVIOUS
      <3> QED
        BY <3>1 DEF Met
    <2>4. fields[1] \in SUBSET Object
      BY <1>4, <2>1
    <2>5. RecountField(start, fields[1]).count = Net(count, old, fields[1])
      BY <2>4 DEF RecountField, Net
    <2>6. RecountField(start, fields[1])
          = [count |-> Net(count, old, fields[1]), held |-> fields[1], stale |-> {}]
      BY <2>5 DEF RecountField
    <2> QED
      BY <2>2, <2>3, <2>6
  <1>6. ASSUME NEW n \in 2..Properties, Good(n - 1)
        PROVE  Good(n)
    <2>1. n \in 1..Properties /\ n - 1 \in 1..Properties
      BY <1>1
    <2>2. Met(fields, n) = Met(fields, n - 1) \cup fields[n]
      <3>1. 1..n = 1..(n - 1) \cup {n}
        BY <2>1
      <3> QED
        BY <3>1 DEF Met
    <2> DEFINE met   == Met(fields, n - 1)
               found == fields[n]
               last  == [count |-> Net(count, old, met), held |-> met, stale |-> {}]
    <2>3. f[n] = RecountField(last, found)
      BY <1>3, <1>6, <2>1
    <2>4. met \in SUBSET Object /\ found \in SUBSET Object
      BY <1>4, <2>1
    <2>5. Net(count, old, met \cup found)
          = [k \in Object |-> IF k \in found \ met THEN Net(count, old, met)[k] + 1
                              ELSE Net(count, old, met)[k]]
      <3> HIDE DEF met, found
      <3>1. ASSUME NEW k \in Object
            PROVE  Net(count, old, met \cup found)[k]
                   = IF k \in found \ met THEN Net(count, old, met)[k] + 1
                     ELSE Net(count, old, met)[k]
        <4>1. count[k] \in Int
          OBVIOUS
        <4> QED
          BY <4>1 DEF Net
      <3> QED
        BY <3>1 DEF Net
    <2>6. RecountField(last, found)
          = [count |-> Net(count, old, met \cup found), held |-> met \cup found, stale |-> {}]
      <3> HIDE DEF met, found
      <3>1. RecountField(last, found).count = Net(count, old, met \cup found)
        BY <2>5 DEF RecountField
      <3> QED
        BY <3>1 DEF RecountField
    <2> HIDE DEF met, found, last
    <2> QED
      BY <2>2, <2>3, <2>6 DEF met, found
  <1> HIDE DEF Good
  <1>7. Bad = {}
    <2> SUFFICES ASSUME Bad # {} PROVE FALSE
      OBVIOUS
    <2>1. Bad \in SUBSET Nat
      OBVIOUS
    <2>2. PICK n \in Bad : \A m \in Bad : n <= m
      <3> HIDE DEF Bad
      <3> QED
        BY <2>1, LeastNatural
    <2>3. n \in 2..Properties /\ n - 1 \in 1..Properties /\ n - 1 \notin Bad
      BY <1>1, <1>5, <2>2
    <2> QED
      BY <1>6, <2>2, <2>3
  <1>8. Good(i)
    BY <1>7
  <1> QED
    BY <1>8 DEF Good

\* However the loop comes upon the children, and though it gives up one that a
\* later property mentions before it takes it again, it ends with the children
\* mentioned and with each count moved by what is new and what is gone
\* (marshalObject, object.go:559-590).
THEOREM RecountNets ==
  ASSUME RegistryTypeOK, NEW o \in Object, NEW kids \in SUBSET Object, Recount(o, kids)
  PROVE  /\ refChildren' = [refChildren EXCEPT ![o] = kids]
         /\ refCount' = [k \in Object |-> IF k \in kids \ refChildren[o] THEN refCount[k] + 1
                                          ELSE IF k \in refChildren[o] \ kids THEN refCount[k] - 1
                                          ELSE refCount[k]]
  <1> DEFINE start == [count |-> refCount, held |-> {}, stale |-> refChildren[o]]
  <1>1. PICK fields \in [1..Properties -> SUBSET kids] :
          /\ UNION {fields[i] : i \in 1..Properties} = kids
          /\ refCount' = RecountFields(start, fields).count
          /\ refChildren' = [refChildren EXCEPT ![o] = RecountFields(start, fields).held
                                                       \cup RecountFields(start, fields).stale]
    BY DEF Recount
  <1>2. /\ refCount \in [Object -> Int] /\ refChildren[o] \in SUBSET Object
        /\ fields \in [1..Properties -> SUBSET Object]
        /\ Properties \in 1..Properties
    BY RegistryAssumption DEF RegistryTypeOK
  <1> DEFINE f == CHOOSE f : f = Looping(fields, start, f)
  <1>3. RecountFields(start, fields) = f[Properties]
    BY DEF RecountFields, Looping
  <1>4. f = Looping(fields, start, f)
    <2>1. \E g : g = Looping(fields, start, g)
      <3> HIDE DEF start
      <3> QED
        BY LoopDefined
    <2> QED
      BY <2>1
  <1> HIDE DEF f
  <1>5. f[Properties] = [count |-> Net(refCount, refChildren[o], kids), held |-> kids, stale |-> {}]
    <2>1. f[Properties] = [count |-> Net(refCount, refChildren[o], Met(fields, Properties)),
                           held  |-> Met(fields, Properties),
                           stale |-> {}]
      <3>1. start = [count |-> refCount, held |-> {}, stale |-> refChildren[o]]
        OBVIOUS
      <3> HIDE DEF start
      <3> QED
        BY ONLY <1>2, <1>4, <3>1, LoopNets, SMTT(30)
    <2> QED
      BY <1>1, <2>1 DEF Met
  <1> HIDE DEF start
  <1>6. refCount' = Net(refCount, refChildren[o], kids)
    BY <1>1, <1>3, <1>5
  <1>7. refChildren' = [refChildren EXCEPT ![o] = kids]
    <2>1. f[Properties].held = kids /\ f[Properties].stale = {}
      BY <1>5
    <2>2. refChildren' = [refChildren EXCEPT ![o] = f[Properties].held \cup f[Properties].stale]
      BY <1>1, <1>3
    <2> QED
      BY <2>1, <2>2
  <1> QED
    BY <1>6, <1>7 DEF Net

-----------------------------------------------------------------------------
\* Type correctness.

LEMMA RequestTyped ==
  ASSUME NEW cmd \in Requests, NEW o \in Object, NEW args \in SUBSET Object
  PROVE  Request(cmd, o, args) \in RequestSet
  BY DEF Request, RequestSet

LEMMA UpdateTyped ==
  ASSUME NEW cmd \in Updates, NEW o \in Object, NEW objs \in SUBSET Object
  PROVE  Update(cmd, o, objs, Omitted(objs)) \in UpdateSet
  BY WireAssumption DEF Update, UpdateSet, Omitted

LEMMA RemoveAtTyped ==
  ASSUME NEW S, NEW s \in Seq(S), NEW i \in 1..Len(s)
  PROVE  RemoveAt(s, i) \in Seq(S)
  BY DEF RemoveAt

LEMMA RefsChangedTyped ==
  ASSUME RegistryTypeOK, NEW S, NEW r
  PROVE  RefsChanged(S, r) \in [Object -> 0..Grace]
  BY RegistryAssumption DEF RefsChanged, RegistryTypeOK

LEMMA RecountTyped ==
  ASSUME RegistryTypeOK, NEW o \in Object, NEW kids \in SUBSET Object, Recount(o, kids)
  PROVE  /\ refCount' \in [Object -> Int]
         /\ refChildren' \in [Object -> SUBSET Object]
  BY RecountNets DEF RegistryTypeOK

LEMMA SweepTyped ==
  ASSUME RegistryTypeOK, NEW reg, Sweep(reg)
  PROVE  /\ registered' \subseteq reg
         /\ elapsed' \in 0..CollectEvery
  BY RegistryAssumption DEF RegistryTypeOK, Sweep

LEMMA MarshalTyped ==
  ASSUME RegistryTypeOK, NEW o \in Object, NEW kids \in SUBSET Object, Marshal(o, kids)
  PROVE  /\ inited' = inited \cup kids
         /\ refCount' \in [Object -> Int]
         /\ refChildren' \in [Object -> SUBSET Object]
         /\ grace' \in [Object -> 0..Grace]
  BY RecountTyped, RefsChangedTyped DEF Marshal

LEMMA HandlerTyped ==
  ASSUME TypeOK, Handler, UNCHANGED proxyVars
  PROVE  TypeOK'
  <1> USE DEF TypeOK
  <1>1. ProxiesTypeOK'
    BY DEF ProxiesTypeOK, proxyVars
  <1>2. ASSUME NEW cmd \in Requests, Dequeue(cmd)
        PROVE  /\ Named \in Object
               /\ toBackend' \in Seq(RequestSet)
    <2>1. Head(toBackend) \in RequestSet /\ Tail(toBackend) \in Seq(RequestSet)
      BY <1>2, HeadTailProperties DEF Dequeue, WireTypeOK
    <2> QED
      BY <1>2, <2>1 DEF Dequeue, Named, RequestSet
  <1>3. CASE HandleRef
    BY <1>1, <1>2, <1>3, SweepTyped, WireAssumption
       DEF HandleRef, Requests, RegistryTypeOK, WireTypeOK
  <1>4. CASE HandleDeref
    BY <1>1, <1>2, <1>4, SweepTyped, RefsChangedTyped
       DEF HandleDeref, Requests, RegistryTypeOK, WireTypeOK
  <1>5. ASSUME NEW kids \in SUBSET Object, HandleQuery(kids)
        PROVE  TypeOK'
    <2>1. Named \in Object /\ toBackend' \in Seq(RequestSet)
      BY <1>2, <1>5 DEF HandleQuery, Requests
    <2>2. Update("OBJECT_RESET", Named, kids, Omitted(kids)) \in UpdateSet
      BY <2>1, UpdateTyped DEF Updates
    <2>3. WireTypeOK'
      BY <1>5, <2>1, <2>2 DEF HandleQuery, WireTypeOK
    <2>4. RegistryTypeOK'
      BY <1>5, <2>1, SweepTyped, MarshalTyped DEF HandleQuery, RegistryTypeOK
    <2> QED
      BY <1>1, <2>3, <2>4
  <1>6. CASE HandleQueryUnsent
    BY <1>1, <1>2, <1>6, SweepTyped
       DEF HandleQueryUnsent, Requests, RegistryTypeOK, WireTypeOK
  <1>7. CASE HandleUnknown
    BY <1>1, <1>2, <1>7, SweepTyped
       DEF HandleUnknown, Requests, RegistryTypeOK, WireTypeOK
  <1>8. CASE HandleCreate
    BY <1>1, <1>2, <1>8, SweepTyped, RefsChangedTyped
       DEF HandleCreate, Requests, RegistryTypeOK, WireTypeOK
  <1>9. CASE HandleInvoke
    BY <1>1, <1>2, <1>9
       DEF HandleInvoke, Requests, RegistryTypeOK, WireTypeOK, objectVars
  <1>10. CASE HandleInvokeUnknownArgument
    BY <1>1, <1>2, <1>10
       DEF HandleInvokeUnknownArgument, Requests, RegistryTypeOK, WireTypeOK, objectVars
  <1> QED
    BY <1>3, <1>4, <1>5, <1>6, <1>7, <1>8, <1>9, <1>10 DEF Handler

LEMMA BackendTyped ==
  ASSUME TypeOK, Backend, UNCHANGED proxyVars
  PROVE  TypeOK'
  <1> USE DEF TypeOK
  <1>1. ProxiesTypeOK'
    BY DEF ProxiesTypeOK, proxyVars
  <1>2. ASSUME NEW kids \in SUBSET Object, Greet(kids)
        PROVE  TypeOK'
    <2>1. Update("ROOT", Root, kids, Omitted(kids)) \in UpdateSet
      BY UpdateTyped, WireAssumption DEF Updates
    <2>2. WireTypeOK'
      BY <1>2, <2>1 DEF Greet, WireTypeOK
    <2>3. RegistryTypeOK'
      BY <1>2, MarshalTyped, WireAssumption DEF Greet, RegistryTypeOK, processVars
    <2> QED
      BY <1>1, <2>2, <2>3
  <1>0. 0 \in 0..CollectEvery
    BY RegistryAssumption
  <1>3. CASE ProcessBegin
    BY <1>0, <1>1, <1>3
       DEF ProcessBegin, RegistryTypeOK, WireTypeOK, objectVars, wireVars
  <1>4. CASE ProcessReturn
    BY <1>0, <1>1, <1>4
       DEF ProcessReturn, RegistryTypeOK, WireTypeOK, objectVars, wireVars
  <1>5. ASSUME NEW kids \in Parameters, NEW asked \in BOOLEAN, InvokeReturn(kids, asked)
        PROVE  TypeOK'
    <2>1. kids \subseteq Object /\ serving \in Object
      BY <1>5 DEF Parameters, InvokeReturn, RegistryTypeOK
    <2>2. Update("INVOKE_RETURN", serving, kids, Omitted(kids)) \in UpdateSet
      BY <2>1, UpdateTyped DEF Updates
    <2>3. WireTypeOK'
      BY <1>5, <2>2 DEF InvokeReturn, WireTypeOK
    <2>4. RegistryTypeOK'
      BY <1>5, <2>1, SweepTyped, RefsChangedTyped DEF InvokeReturn, RegistryTypeOK
    <2> QED
      BY <1>1, <2>3, <2>4
  <1>6. ASSUME NEW o \in Object, InitObject(o)
        PROVE  TypeOK'
    BY <1>1, <1>6, RefsChangedTyped
       DEF InitObject, RegistryTypeOK, WireTypeOK, processVars, wireVars
  <1>7. ASSUME NEW o \in Object, NEW kids \in Parameters, Emit(o, kids)
        PROVE  TypeOK'
    <2>1. kids \subseteq Object
      BY DEF Parameters
    <2>2. Update("EMIT", o, kids, Omitted(kids)) \in UpdateSet
      BY <2>1, UpdateTyped DEF Updates
    <2>3. WireTypeOK'
      BY <1>7, <2>2 DEF Emit, WireTypeOK
    <2>4. RegistryTypeOK'
      BY <1>7, <2>1, RefsChangedTyped DEF Emit, RegistryTypeOK, processVars
    <2> QED
      BY <1>1, <2>3, <2>4
  <1>8. ASSUME NEW o \in Object, NEW kids \in SUBSET Object, Changed(o, kids)
        PROVE  TypeOK'
    <2>1. Update("OBJECT_RESET", o, kids, Omitted(kids)) \in UpdateSet
      BY UpdateTyped DEF Updates
    <2>2. WireTypeOK'
      BY <1>8, <2>1 DEF Changed, WireTypeOK
    <2>3. RegistryTypeOK'
      BY <1>8, MarshalTyped DEF Changed, RegistryTypeOK, processVars
    <2> QED
      BY <1>1, <2>2, <2>3
  <1>9. CASE Tick
    BY <1>1, <1>9, RegistryAssumption
       DEF Tick, RunDown, RegistryTypeOK, WireTypeOK, wireVars
  <1> QED
    BY <1>2, <1>3, <1>4, <1>5, <1>6, <1>7, <1>8, <1>9, HandlerTyped
       DEF Backend, Return, Application, Clock

LEMMA EnsureTyped ==
  ASSUME TypeOK, NEW S \in SUBSET Object, Ensure(S)
  PROVE  /\ proxy' \in [Object -> {"none", "live", "doomed"}]
         /\ orphans' \subseteq Object
         /\ typeCache' \subseteq Type
         /\ toBackend' \in Seq(RequestSet)
  <1> USE DEF TypeOK, ProxiesTypeOK, WireTypeOK
  <1>1. CASE UNCHANGED <<proxy, orphans, typeCache, toBackend>>
    BY <1>1
  <1>2. ASSUME NEW o \in S,
               proxy' = [proxy EXCEPT ![o] = "live"],
               orphans' = IF proxy[o] = "doomed" THEN orphans \cup {o} ELSE orphans,
               typeCache' = typeCache \cup {TypeOf[o]},
               toBackend' = Append(toBackend, Request("OBJECT_REF", o, {}))
        PROVE  /\ proxy' \in [Object -> {"none", "live", "doomed"}]
               /\ orphans' \subseteq Object
               /\ typeCache' \subseteq Type
               /\ toBackend' \in Seq(RequestSet)
    <2>1. Request("OBJECT_REF", o, {}) \in RequestSet
      BY RequestTyped DEF Requests
    <2>2. o \in Object /\ TypeOf[o] \in Type
      BY <1>2, WireAssumption
    <2>3. toBackend' \in Seq(RequestSet)
      BY <1>2, <2>1
    <2> QED
      BY <1>2, <2>2, <2>3
  <1> QED
    BY <1>1, <1>2 DEF Ensure

LEMMA ForgetDataTyped ==
  ASSUME ProxiesTypeOK, NEW S, ForgetData(S)
  PROVE  /\ dataReady' \subseteq Object
         /\ view' \in [Object -> SUBSET Object]
  BY DEF ProxiesTypeOK, ForgetData

LEMMA ResetDataTyped ==
  ASSUME ProxiesTypeOK, NEW o \in Object, NEW kids \in SUBSET Object, ResetData(o, kids)
  PROVE  /\ dataReady' \subseteq Object
         /\ view' \in [Object -> SUBSET Object]
  BY DEF ProxiesTypeOK, ResetData

LEMMA ReceiveTyped ==
  ASSUME TypeOK, Receive, UNCHANGED registryVars
  PROVE  TypeOK'
  <1> USE DEF TypeOK
  <1>1. RegistryTypeOK'
    BY DEF RegistryTypeOK, registryVars, objectVars, processVars
  <1>2. ASSUME NEW cmd, Received(cmd)
        PROVE  /\ Head(toClient).id \in Object
               /\ Head(toClient).kids \in SUBSET Object
               /\ toClient' \in Seq(UpdateSet)
    <2>1. Head(toClient) \in UpdateSet /\ Tail(toClient) \in Seq(UpdateSet)
      BY <1>2, HeadTailProperties DEF Received, WireTypeOK
    <2> QED
      BY <1>2, <2>1 DEF Received, UpdateSet
  <1>3. CASE ReceiveRoot
    <2>1. Head(toClient).kids \in SUBSET Object /\ toClient' \in Seq(UpdateSet)
      BY <1>2, <1>3 DEF ReceiveRoot
    <2>2. Ensure({Root}) /\ {Root} \in SUBSET Object
      BY <1>3, WireAssumption DEF ReceiveRoot
    <2>3. ProxiesTypeOK'
      BY <1>3, <2>1, <2>2, EnsureTyped, WireAssumption DEF ReceiveRoot, ProxiesTypeOK
    <2>4. WireTypeOK'
      BY <2>1, <2>2, EnsureTyped DEF WireTypeOK
    <2> QED
      BY <1>1, <2>3, <2>4
  <1>4. CASE ReceiveReset
    <2>1. /\ Head(toClient).id \in Object
          /\ Head(toClient).kids \in SUBSET Object
          /\ toClient' \in Seq(UpdateSet)
      BY <1>2, <1>4 DEF ReceiveReset
    <2> QED
      BY <1>1, <1>4, <2>1, ResetDataTyped DEF ReceiveReset, ProxiesTypeOK, WireTypeOK
  <1>5. ASSUME NEW objs \in SUBSET Object, Ensure(objs), ForgetData(objs),
               toClient' \in Seq(UpdateSet), UNCHANGED <<native, waiting>>
        PROVE  TypeOK'
    <2>1. ProxiesTypeOK'
      BY <1>5, EnsureTyped, ForgetDataTyped DEF ProxiesTypeOK
    <2>2. WireTypeOK'
      BY <1>5, EnsureTyped DEF WireTypeOK
    <2> QED
      BY <1>1, <2>1, <2>2
  <1>6. CASE ReceiveEmit
    BY <1>2, <1>5, <1>6 DEF ReceiveEmit
  <1>7. CASE ReceiveReturn
    BY <1>2, <1>5, <1>7 DEF ReceiveReturn
  <1>8. CASE ReceiveAnswer
    <2>1. PICK n \in 1..Len(toClient) :
            /\ ResetData(waiting, toClient[n].kids)
            /\ toClient' = RemoveAt(toClient, n)
      BY <1>8 DEF ReceiveAnswer
    <2>0. toClient[n] \in UpdateSet
      BY ElementOfSeq DEF WireTypeOK
    <2>2. toClient[n].kids \in SUBSET Object /\ waiting \in Object
      BY <1>8, <2>0 DEF ReceiveAnswer, UpdateSet, ProxiesTypeOK
    <2>3. toClient' \in Seq(UpdateSet)
      BY <2>1, RemoveAtTyped DEF WireTypeOK
    <2>4. /\ dataReady' \subseteq Object
          /\ view' \in [Object -> SUBSET Object]
      BY <2>1, <2>2, ResetDataTyped
    <2>5. ProxiesTypeOK'
      BY <1>8, <2>4 DEF ReceiveAnswer, ProxiesTypeOK
    <2> QED
      BY <1>1, <1>8, <2>3, <2>5 DEF ReceiveAnswer, WireTypeOK
  <1> QED
    BY <1>3, <1>4, <1>6, <1>7, <1>8 DEF Receive

LEMMA EngineTyped ==
  ASSUME TypeOK, Engine, UNCHANGED registryVars
  PROVE  TypeOK'
  <1> USE DEF TypeOK
  <1>1. RegistryTypeOK'
    BY DEF RegistryTypeOK, registryVars, objectVars, processVars
  <1>2. ASSUME NEW cmd \in Requests, NEW o \in Object, NEW args \in SUBSET Object,
               toBackend' = Append(toBackend, Request(cmd, o, args)), UNCHANGED toClient
        PROVE  WireTypeOK'
    BY <1>2, RequestTyped DEF WireTypeOK
  <1>3. ASSUME NEW o \in Object, ReadAndBlock(o)
        PROVE  TypeOK'
    BY <1>1, <1>2, <1>3 DEF ReadAndBlock, Requests, ProxiesTypeOK
  <1>4. ASSUME NEW o \in Object, NEW k \in Object, ReadChild(o, k)
        PROVE  TypeOK'
    <2>1. Ensure({k}) /\ ForgetData({k}) /\ {k} \in SUBSET Object
      BY <1>4 DEF ReadChild
    <2>2. ProxiesTypeOK'
      BY <1>4, <2>1, EnsureTyped, ForgetDataTyped DEF ReadChild, ProxiesTypeOK
    <2>3. WireTypeOK'
      BY <1>4, <2>1, EnsureTyped DEF ReadChild, WireTypeOK
    <2> QED
      BY <1>1, <2>2, <2>3
  <1>5. ASSUME NEW o \in Object, NEW args \in Parameters, Invoke(o, args)
        PROVE  TypeOK'
    <2>1. args \in SUBSET Object
      BY DEF Parameters
    <2> QED
      BY <1>1, <1>2, <1>5, <2>1 DEF Invoke, Requests, ProxiesTypeOK, proxyVars
  <1>6. ASSUME NEW o \in Object, Create(o)
        PROVE  TypeOK'
    BY <1>1, <1>2, <1>6 DEF Create, Requests, ProxiesTypeOK
  <1>7. ASSUME NEW o \in Object, JSCollect(o)
        PROVE  TypeOK'
    BY <1>1, <1>7 DEF JSCollect, ProxiesTypeOK, WireTypeOK, wireVars
  <1>8. ASSUME NEW o \in Object, NEW call \in LastCall(o)
        PROVE  toBackend \o call \in Seq(RequestSet)
    <2>1. Request("INVOKE", o, {}) \in RequestSet
      BY RequestTyped DEF Requests
    <2>2. call = <<>> \/ call = <<Request("INVOKE", o, {})>>
      BY DEF LastCall
    <2>3. <<>> \in Seq(RequestSet) /\ <<Request("INVOKE", o, {})>> \in Seq(RequestSet)
      BY <2>1
    <2>4. call \in Seq(RequestSet)
      BY <2>2, <2>3
    <2> QED
      BY <2>4, ConcatProperties DEF WireTypeOK
  <1>9. ASSUME NEW o \in Object, Destroy(o)
        PROVE  TypeOK'
    <2>1. ProxiesTypeOK'
      BY <1>9 DEF Destroy, ProxiesTypeOK
    <2>2. PICK call \in LastCall(o) :
            toBackend' = toBackend \o call \o <<Request("OBJECT_DEREF", o, {})>>
      BY <1>9 DEF Destroy
    <2>3. <<Request("OBJECT_DEREF", o, {})>> \in Seq(RequestSet)
      BY RequestTyped DEF Requests
    <2>4. toBackend' \in Seq(RequestSet)
      BY <1>8, <2>2, <2>3, ConcatProperties
    <2> QED
      BY <1>1, <1>9, <2>1, <2>4 DEF Destroy, WireTypeOK
  <1>10. ASSUME NEW o \in Object, DestroyOrphan(o)
         PROVE  TypeOK'
    <2>1. ProxiesTypeOK'
      BY <1>10 DEF DestroyOrphan, ProxiesTypeOK
    <2> QED
      BY <1>1, <1>8, <1>10, <2>1 DEF DestroyOrphan, WireTypeOK
  <1> QED
    BY <1>3, <1>4, <1>5, <1>6, <1>7, <1>9, <1>10 DEF Engine

LEMMA InitTyped == Init => TypeOK
  <1> SUFFICES ASSUME Init PROVE TypeOK
    OBVIOUS
  <1>1. WireTypeOK
    BY DEF Init, WireTypeOK
  <1>2. RegistryTypeOK
    <2>1. 0 \in 0..CollectEvery /\ 0 \in 0..Grace /\ Grace \in 0..Grace
      BY RegistryAssumption
    <2>2. grace \in [Object -> 0..Grace] /\ refCount \in [Object -> Int]
      BY <2>1 DEF Init, RegistryInit
    <2> QED
      BY <2>1, <2>2, WireAssumption DEF Init, RegistryInit, RegistryTypeOK
  <1>3. ProxiesTypeOK
    BY WireAssumption DEF Init, ProxiesInit, ProxiesTypeOK
  <1> QED
    BY <1>1, <1>2, <1>3 DEF TypeOK

LEMMA NextTyped == TypeOK /\ [Next]_vars => TypeOK'
  <1> SUFFICES ASSUME TypeOK, [Next]_vars PROVE TypeOK'
    OBVIOUS
  <1>1. CASE Backend /\ UNCHANGED proxyVars
    BY <1>1, BackendTyped
  <1>2. CASE Client /\ UNCHANGED registryVars
    BY <1>2, ReceiveTyped, EngineTyped DEF Client
  <1>3. CASE UNCHANGED vars
    BY <1>3 DEF vars, wireVars, registryVars, objectVars, processVars, proxyVars,
                TypeOK, WireTypeOK, RegistryTypeOK, ProxiesTypeOK
  <1> QED
    BY <1>1, <1>2, <1>3 DEF Next

\* Every variable keeps its type: counters and periods stay in range, an object
\* is registered only once it has an identifier, and every message on the wire
\* is a message of the protocol.
THEOREM TypeCorrect == Spec => []TypeOK
  BY InitTyped, NextTyped, PTL DEF Spec

-----------------------------------------------------------------------------
\* The reference counts.

LEMMA ReferrersFinite ==
  ASSUME NEW k
  PROVE  IsFiniteSet(Referrers(k))
  BY RegistryAssumption, FS_Subset DEF Referrers

\* marshalObject moves every count by what it found: the objects newly
\* mentioned gain this referrer, those no longer mentioned lose it.
LEMMA RecountExact ==
  ASSUME RegistryTypeOK, RefCountExact,
         NEW o \in Object, NEW kids \in SUBSET Object, Recount(o, kids)
  PROVE  RefCountExact'
  <1> SUFFICES ASSUME NEW k \in Object
               PROVE  refCount'[k] = Cardinality(Referrers(k)')
    BY DEF RefCountExact
  <1>1. /\ IsFiniteSet(Referrers(k))
        /\ refCount[k] = Cardinality(Referrers(k))
    BY ReferrersFinite DEF RefCountExact
  <1>2. refChildren' = [refChildren EXCEPT ![o] = kids]
    BY RecountNets
  <1>3. refCount'[k] = IF k \in kids \ refChildren[o] THEN refCount[k] + 1
                       ELSE IF k \in refChildren[o] \ kids THEN refCount[k] - 1
                       ELSE refCount[k]
    BY RecountNets
  <1>4. refChildren \in [Object -> SUBSET Object]
    BY DEF RegistryTypeOK
  <1>5. o \in Referrers(k) <=> k \in refChildren[o]
    BY DEF Referrers
  <1>6. CASE k \in kids
    <2>1. Referrers(k)' = Referrers(k) \cup {o}
      BY <1>2, <1>4, <1>6 DEF Referrers
    <2>2. Cardinality(Referrers(k) \cup {o}) =
            IF o \in Referrers(k) THEN Cardinality(Referrers(k))
            ELSE Cardinality(Referrers(k)) + 1
      BY <1>1, FS_AddElement
    <2> QED
      BY <1>1, <1>3, <1>5, <1>6, <2>1, <2>2
  <1>7. CASE k \notin kids
    <2>1. Referrers(k)' = Referrers(k) \ {o}
      BY <1>2, <1>4, <1>7 DEF Referrers
    <2>2. Cardinality(Referrers(k) \ {o}) =
            IF o \in Referrers(k) THEN Cardinality(Referrers(k)) - 1
            ELSE Cardinality(Referrers(k))
      BY <1>1, FS_RemoveElement
    <2> QED
      BY <1>1, <1>3, <1>5, <1>7, <2>1, <2>2
  <1> QED
    BY <1>6, <1>7

LEMMA SameCountsExact ==
  ASSUME RefCountExact, UNCHANGED <<refCount, refChildren>>
  PROVE  RefCountExact'
  BY DEF RefCountExact, Referrers

LEMMA InitCounts == Init => RefCountExact
  <1> SUFFICES ASSUME Init, NEW k \in Object
               PROVE  refCount[k] = Cardinality(Referrers(k))
    BY DEF RefCountExact
  <1>1. refCount[k] = 0 /\ Referrers(k) = {}
    BY DEF Init, RegistryInit, Referrers
  <1> QED
    BY <1>1, FS_EmptySet

LEMMA NextCounts == TypeOK /\ RefCountExact /\ [Next]_vars => RefCountExact'
  <1> SUFFICES ASSUME TypeOK, RefCountExact, [Next]_vars
               PROVE  RefCountExact'
    OBVIOUS
  <1>1. ASSUME NEW o \in Object, NEW kids \in SUBSET Object, Marshal(o, kids)
        PROVE  RefCountExact'
    BY <1>1, RecountExact DEF Marshal, TypeOK
  <1>2. CASE Backend
    <2>1. ASSUME NEW kids \in SUBSET Object, Greet(kids)
          PROVE  RefCountExact'
      BY <1>1, <2>1, WireAssumption DEF Greet
    <2>2. CASE ProcessBegin \/ ProcessReturn
      BY <2>2, SameCountsExact DEF ProcessBegin, ProcessReturn, objectVars
    <2>3. ASSUME NEW kids \in SUBSET Object, HandleQuery(kids)
          PROVE  RefCountExact'
      <3>1. Head(toBackend) \in RequestSet
        BY <2>3, HeadTailProperties DEF HandleQuery, Dequeue, TypeOK, WireTypeOK
      <3>2. Named \in Object
        BY <3>1 DEF Named, RequestSet
      <3> QED
        BY <1>1, <2>3, <3>2 DEF HandleQuery
    <2>4. CASE HandleRef \/ HandleDeref \/ HandleQueryUnsent \/ HandleUnknown
                 \/ HandleCreate \/ HandleInvoke \/ HandleInvokeUnknownArgument
      BY <2>4, SameCountsExact
         DEF HandleRef, HandleDeref, HandleQueryUnsent, HandleUnknown, HandleCreate,
             HandleInvoke, HandleInvokeUnknownArgument, objectVars
    <2>5. CASE Return
      BY <2>5, SameCountsExact DEF Return, InvokeReturn
    <2>6. ASSUME NEW o \in Object, NEW kids \in SUBSET Object, Changed(o, kids)
          PROVE  RefCountExact'
      BY <1>1, <2>6 DEF Changed
    <2>7. ASSUME NEW o \in Object, InitObject(o) \/ \E kids \in Parameters : Emit(o, kids)
          PROVE  RefCountExact'
      BY <2>7, SameCountsExact DEF InitObject, Emit
    <2>8. CASE Clock
      BY <2>8, SameCountsExact DEF Clock, Tick
    <2> QED
      BY <1>2, <2>1, <2>2, <2>3, <2>4, <2>5, <2>6, <2>7, <2>8
         DEF Backend, Handler, Application
  <1>3. CASE UNCHANGED registryVars
    BY <1>3, SameCountsExact DEF registryVars, objectVars
  <1> QED
    BY <1>2, <1>3 DEF Next, vars

\* However often objects are marshaled, dropped, collected and reactivated, every
\* reference count is the number of objects whose last marshaled properties
\* mention the object.
THEOREM CountsExact == Spec => []RefCountExact
  BY InitTyped, NextTyped, InitCounts, NextCounts, PTL DEF Spec

-----------------------------------------------------------------------------
\* The root object is there for good.

NeverGives(seq, o) == \A n \in 1..Len(seq) : ~(seq[n].cmd = "OBJECT_DEREF" /\ seq[n].id = o)

\* Nothing happens on the wire before the greeting references root, and the
\* plugin never gives that reference back.
RootStays ==
  /\ Root \in registered
  /\ proxy[Root] # "doomed"
  /\ NeverGives(toBackend, Root)
  /\ Root \notin ref => /\ ref = {} /\ serving = NoObject
                        /\ toBackend = <<>> /\ toClient = <<>>

LEMMA InitRoot == Init => RootStays
  BY WireAssumption DEF Init, RegistryInit, ProxiesInit, RootStays, NeverGives

LEMMA NextRootBackend ==
  ASSUME TypeOK, RootStays, Backend, UNCHANGED proxyVars
  PROVE  RootStays'
  <1> USE DEF TypeOK
  <1>1. proxy'[Root] # "doomed"
    BY DEF RootStays, proxyVars
  <1>2. ASSUME Root \in ref', UNCHANGED toBackend, Root \in registered'
        PROVE  RootStays'
    BY <1>1, <1>2 DEF RootStays, NeverGives
  <1>3. ASSUME NEW reg, Root \in reg, Root \in ref', Sweep(reg)
        PROVE  Root \in registered'
    BY <1>3, WireAssumption DEF Sweep
  <1>4. ASSUME NEW cmd, Dequeue(cmd)
        PROVE  /\ Root \in ref
               /\ NeverGives(toBackend, Root)'
               /\ cmd = "OBJECT_DEREF" => Named # Root
    <2>1. toBackend \in Seq(RequestSet) /\ toBackend # <<>> /\ toBackend' = Tail(toBackend)
      BY <1>4 DEF Dequeue, WireTypeOK
    <2>2. /\ Len(Tail(toBackend)) = Len(toBackend) - 1
          /\ \A n \in 1..Len(Tail(toBackend)) : Tail(toBackend)[n] = toBackend[n + 1]
      BY <2>1, HeadTailProperties
    <2>3. NeverGives(toBackend, Root)'
      BY <2>1, <2>2 DEF RootStays, NeverGives
    <2>4. Head(toBackend) = toBackend[1] /\ 1 \in 1..Len(toBackend)
      BY <2>1
    <2> QED
      BY <1>4, <2>1, <2>3, <2>4 DEF RootStays, NeverGives, Dequeue, Named
  <1>5. ASSUME NEW cmd, Dequeue(cmd), NEW reg, Sweep(reg), registered \subseteq reg, Root \in ref'
        PROVE  RootStays'
    BY <1>1, <1>3, <1>4, <1>5 DEF RootStays
  <1>6. CASE Handler
    <2>1. CASE HandleRef
      BY <1>4, <1>5, <2>1 DEF HandleRef
    <2>2. CASE HandleDeref
      <3>1. Dequeue("OBJECT_DEREF") /\ Sweep(registered)
            /\ ref' = ref \ ({Named} \cap registered)
        BY <2>2 DEF HandleDeref
      <3>2. Root \in ref /\ Named # Root
        BY <1>4, <3>1
      <3> QED
        BY <1>5, <3>1, <3>2
    <2>3. ASSUME NEW kids \in SUBSET Object, HandleQuery(kids)
          PROVE  RootStays'
      BY <1>4, <1>5, <2>3 DEF HandleQuery
    <2>4. CASE HandleQueryUnsent \/ HandleUnknown
      BY <1>4, <1>5, <2>4 DEF HandleQueryUnsent, HandleUnknown
    <2>5. CASE HandleCreate
      <3>1. Dequeue("OBJECT_CREATE") /\ Sweep(registered \cup {Named}) /\ ref \subseteq ref'
        BY <2>5 DEF HandleCreate
      <3> QED
        BY <1>4, <1>5, <3>1
    <2>6. CASE HandleInvoke \/ HandleInvokeUnknownArgument
      <3>1. Dequeue("INVOKE") /\ UNCHANGED objectVars
        BY <2>6 DEF HandleInvoke, HandleInvokeUnknownArgument
      <3> QED
        BY <1>1, <1>4, <3>1 DEF RootStays, objectVars
    <2> QED
      BY <1>6, <2>1, <2>2, <2>3, <2>4, <2>5, <2>6 DEF Handler
  <1>7. ASSUME NEW kids \in SUBSET Object, Greet(kids)
        PROVE  RootStays'
    BY <1>2, <1>7 DEF Greet, RootStays
  <1>8. CASE ProcessBegin \/ ProcessReturn
    BY <1>1, <1>8 DEF ProcessBegin, ProcessReturn, RootStays, objectVars, wireVars, NeverGives
  <1>9. CASE Return
    <2>1. PICK kids \in Parameters, asked \in BOOLEAN : InvokeReturn(kids, asked)
      BY <1>9 DEF Return
    <2>2. Root \in ref' /\ UNCHANGED toBackend /\ Sweep(registered \cup kids)
      BY <2>1 DEF InvokeReturn, RootStays
    <2>3. Root \in registered'
      BY <1>3, <2>2 DEF RootStays
    <2> QED
      BY <1>2, <2>2, <2>3
  <1>10. ASSUME NEW o \in Object, InitObject(o)
         PROVE  RootStays'
    BY <1>1, <1>10 DEF InitObject, RootStays, processVars, wireVars, NeverGives
  <1>11. ASSUME NEW o \in Object, NEW kids,
                Emit(o, kids) \/ Changed(o, kids)
         PROVE  RootStays'
    <2>1. Root \in ref' /\ UNCHANGED toBackend /\ registered \subseteq registered'
      BY <1>11 DEF Emit, Changed, RootStays
    <2> QED
      BY <1>2, <2>1 DEF RootStays
  <1>12. CASE Clock
    BY <1>1, <1>12 DEF Clock, Tick, RootStays, wireVars, NeverGives
  <1> QED
    BY <1>6, <1>7, <1>8, <1>9, <1>10, <1>11, <1>12 DEF Backend, Application

LEMMA NextRootClient ==
  ASSUME TypeOK, RootStays, Client, UNCHANGED registryVars
  PROVE  RootStays'
  <1> USE DEF TypeOK
  <1>1. UNCHANGED <<registered, ref, serving>>
    BY DEF registryVars, objectVars, processVars
  <1>2. Root \in ref
    BY DEF Client, Receive, Engine, ReceiveRoot, ReceiveReset, ReceiveEmit, ReceiveReturn,
           ReceiveAnswer, Received, RootStays
  <1>3. ASSUME proxy'[Root] # "doomed", NeverGives(toBackend, Root)'
        PROVE  RootStays'
    BY <1>1, <1>2, <1>3 DEF RootStays
  <1>4. ASSUME NEW cmd, cmd # "OBJECT_DEREF", NEW o, NEW args,
               toBackend' = Append(toBackend, Request(cmd, o, args))
        PROVE  NeverGives(toBackend, Root)'
    <2>1. toBackend \in Seq(RequestSet)
      BY DEF WireTypeOK
    <2>2. Request(cmd, o, args).cmd = cmd
      BY DEF Request
    <2> QED
      BY <1>4, <2>1, <2>2 DEF RootStays, NeverGives
  <1>5. ASSUME UNCHANGED toBackend
        PROVE  NeverGives(toBackend, Root)'
    BY <1>5 DEF RootStays, NeverGives
  <1>6. ASSUME NEW S, Ensure(S)
        PROVE  proxy'[Root] # "doomed" /\ NeverGives(toBackend, Root)'
    <2>1. CASE UNCHANGED <<proxy, orphans, typeCache, toBackend>>
      BY <1>5, <2>1 DEF RootStays
    <2>2. CASE \E o \in S : /\ proxy' = [proxy EXCEPT ![o] = "live"]
                           /\ toBackend' = Append(toBackend, Request("OBJECT_REF", o, {}))
      BY <1>4, <2>2, WireAssumption DEF RootStays, ProxiesTypeOK
    <2> QED
      BY <1>6, <2>1, <2>2 DEF Ensure
  <1>7. CASE Receive
    <2>1. CASE ReceiveRoot \/ ReceiveEmit \/ ReceiveReturn
      BY <1>3, <1>6, <2>1 DEF ReceiveRoot, ReceiveEmit, ReceiveReturn
    <2>2. CASE ReceiveReset \/ ReceiveAnswer
      BY <1>3, <1>5, <2>2 DEF ReceiveReset, ReceiveAnswer, RootStays
    <2> QED
      BY <1>7, <2>1, <2>2 DEF Receive
  <1>8. ASSUME NEW o \in Object, NEW call \in LastCall(o), NEW rest \in Seq(RequestSet),
               NeverGives(rest, Root), toBackend' = toBackend \o call \o rest
        PROVE  NeverGives(toBackend, Root)'
    <2>1. toBackend \in Seq(RequestSet)
      BY DEF WireTypeOK
    <2>2. Request("INVOKE", o, {}) \in RequestSet /\ Request("INVOKE", o, {}).cmd = "INVOKE"
      BY RequestTyped DEF Request, Requests
    <2>3. call = <<>> \/ call = <<Request("INVOKE", o, {})>>
      BY DEF LastCall
    <2>4. call \in Seq(RequestSet) /\ NeverGives(call, Root)
      <3>1. CASE call = <<>>
        BY <3>1 DEF NeverGives
      <3>2. CASE call = <<Request("INVOKE", o, {})>>
        BY <2>2, <3>2 DEF NeverGives
      <3> QED
        BY <2>3, <3>1, <3>2
    <2>5. ASSUME NEW s \in Seq(RequestSet), NEW t \in Seq(RequestSet),
                 NeverGives(s, Root), NeverGives(t, Root)
          PROVE  s \o t \in Seq(RequestSet) /\ NeverGives(s \o t, Root)
      BY <2>5, ConcatProperties DEF NeverGives
    <2> QED
      BY <1>8, <2>1, <2>4, <2>5 DEF RootStays
  <1>9. CASE Engine
    <2>1. ASSUME NEW o \in Object, ReadAndBlock(o)
          PROVE  RootStays'
      BY <1>3, <1>4, <2>1 DEF ReadAndBlock, RootStays
    <2>2. ASSUME NEW o \in Object, NEW k \in Object, ReadChild(o, k)
          PROVE  RootStays'
      BY <1>3, <1>6, <2>2 DEF ReadChild
    <2>3. ASSUME NEW o \in Object, NEW args, Invoke(o, args)
          PROVE  RootStays'
      BY <1>3, <1>4, <2>3 DEF Invoke, proxyVars, RootStays
    <2>4. ASSUME NEW o \in Object, Create(o)
          PROVE  RootStays'
      BY <1>3, <1>4, <2>4, WireAssumption DEF Create, RootStays, ProxiesTypeOK
    <2>5. ASSUME NEW o \in Object, JSCollect(o)
          PROVE  RootStays'
      BY <1>3, <1>5, <2>5, WireAssumption DEF JSCollect, RootStays, ProxiesTypeOK, wireVars
    <2>6. ASSUME NEW o \in Object, Destroy(o)
          PROVE  RootStays'
      <3>1. o # Root /\ proxy'[Root] # "doomed"
        BY <2>6, WireAssumption DEF Destroy, RootStays, ProxiesTypeOK
      <3>2. /\ <<Request("OBJECT_DEREF", o, {})>> \in Seq(RequestSet)
            /\ NeverGives(<<Request("OBJECT_DEREF", o, {})>>, Root)
        BY <3>1, RequestTyped DEF Requests, NeverGives, Request
      <3> QED
        BY <1>3, <1>8, <2>6, <3>1, <3>2 DEF Destroy
    <2>7. ASSUME NEW o \in Object, DestroyOrphan(o)
          PROVE  RootStays'
      <3>1. PICK call \in LastCall(o) : toBackend' = toBackend \o call
        BY <2>7 DEF DestroyOrphan
      <3>2. <<>> \in Seq(RequestSet) /\ NeverGives(<<>>, Root)
        BY DEF NeverGives
      <3>3. call = <<>> \/ call = <<Request("INVOKE", o, {})>>
        BY <3>1 DEF LastCall
      <3>4. Request("INVOKE", o, {}) \in RequestSet
        BY RequestTyped DEF Requests
      <3>5. <<>> \in Seq(RequestSet) /\ <<Request("INVOKE", o, {})>> \in Seq(RequestSet)
        BY <3>4
      <3>6. toBackend \in Seq(RequestSet) /\ call \in Seq(RequestSet)
        BY <3>3, <3>5 DEF WireTypeOK
      <3>7. toBackend' = toBackend \o call \o <<>>
        BY <3>1, <3>6, ConcatProperties, EmptySeq
      <3> QED
        BY <1>3, <1>8, <2>7, <3>1, <3>2, <3>7 DEF DestroyOrphan, RootStays
    <2> QED
      BY <1>9, <2>1, <2>2, <2>3, <2>4, <2>5, <2>6, <2>7 DEF Engine
  <1> QED
    BY <1>7, <1>9 DEF Client

LEMMA NextRoot == TypeOK /\ RootStays /\ [Next]_vars => RootStays'
  <1> SUFFICES ASSUME TypeOK, RootStays, [Next]_vars PROVE RootStays'
    OBVIOUS
  <1>1. CASE UNCHANGED vars
    BY <1>1 DEF vars, wireVars, registryVars, objectVars, processVars, proxyVars,
                RootStays, NeverGives
  <1> QED
    BY <1>1, NextRootBackend, NextRootClient DEF Next

-----------------------------------------------------------------------------
\* What is referenced is registered.

\* Whatever is mentioned is counted, so a collection passes it over.
MentionedIsCounted ==
  \A p, k \in Object : k \in refChildren[p] => refCount[k] >= 1

LEMMA ExactCountsMentioned == RefCountExact => MentionedIsCounted
  <1> SUFFICES ASSUME RefCountExact,
                      NEW p \in Object, NEW k \in Object, k \in refChildren[p]
               PROVE  refCount[k] >= 1
    BY DEF MentionedIsCounted
  <1>1. p \in Referrers(k) /\ IsFiniteSet(Referrers(k))
    BY ReferrersFinite DEF Referrers
  <1>2. Cardinality(Referrers(k)) \in Nat /\ Cardinality(Referrers(k)) # 0
    BY <1>1, FS_CardinalityType, FS_EmptySet
  <1> QED
    BY <1>2 DEF RefCountExact

\* A collection spares what the client references and what is counted.
LEMMA SweepKeepsHeld ==
  ASSUME RegistryTypeOK', MentionedIsCounted', NEW reg, Sweep(reg), ref' \subseteq reg,
         \A p \in Object : refChildren'[p] \subseteq reg
  PROVE  HeldIsRegistered'
  <1>1. ref' \subseteq registered'
    BY DEF Sweep
  <1>2. ASSUME NEW p \in Object, NEW k \in refChildren'[p]
        PROVE  k \in registered'
    <2>1. k \in Object /\ k \in reg
      BY DEF RegistryTypeOK
    <2> QED
      BY <2>1 DEF Sweep, MentionedIsCounted
  <1> QED
    BY <1>1, <1>2 DEF HeldIsRegistered

LEMMA GrownKeepsHeld ==
  ASSUME RegistryTypeOK', NEW reg, registered' = reg, ref' \subseteq reg,
         \A p \in Object : refChildren'[p] \subseteq reg
  PROVE  HeldIsRegistered'
  BY DEF HeldIsRegistered

\* What marshalObject leaves mentioned is what was mentioned before, or was
\* just scanned.
LEMMA MarshalMentions ==
  ASSUME RegistryTypeOK, HeldIsRegistered,
         NEW o \in Object, NEW kids \in SUBSET Object, Marshal(o, kids)
  PROVE  \A p \in Object : refChildren'[p] \subseteq registered \cup kids
  BY RecountNets DEF Marshal, RegistryTypeOK, HeldIsRegistered

LEMMA InitHeld == Init => HeldIsRegistered
  BY DEF Init, RegistryInit, HeldIsRegistered

LEMMA NextHeld ==
  TypeOK /\ TypeOK' /\ RootStays /\ MentionedIsCounted' /\ HeldIsRegistered /\ [Next]_vars
    => HeldIsRegistered'
  <1> SUFFICES ASSUME TypeOK, RegistryTypeOK', RootStays, MentionedIsCounted',
                      HeldIsRegistered, [Next]_vars
               PROVE  HeldIsRegistered'
    BY DEF TypeOK
  <1> USE DEF TypeOK
  <1>1. ASSUME UNCHANGED <<registered, ref, refChildren>>
        PROVE  HeldIsRegistered'
    BY <1>1 DEF HeldIsRegistered
  <1>2. ASSUME NEW reg, registered \subseteq reg, ref' \subseteq reg, UNCHANGED refChildren,
               Sweep(reg) \/ registered' = reg
        PROVE  HeldIsRegistered'
    BY <1>2, SweepKeepsHeld, GrownKeepsHeld DEF HeldIsRegistered
  <1>3. ASSUME NEW o \in Object, NEW kids \in SUBSET Object, Marshal(o, kids),
               ref' \subseteq registered \cup kids,
               Sweep(registered \cup kids) \/ registered' = registered \cup kids
        PROVE  HeldIsRegistered'
    BY <1>3, MarshalMentions, SweepKeepsHeld, GrownKeepsHeld
  <1>4. ref \subseteq registered
    BY DEF HeldIsRegistered
  <1>5. CASE Handler
    <2>1. CASE HandleRef
      BY <1>2, <1>4, <2>1 DEF HandleRef
    <2>2. CASE HandleDeref
      BY <1>2, <1>4, <2>2 DEF HandleDeref
    <2>3. ASSUME NEW kids \in SUBSET Object, HandleQuery(kids)
          PROVE  HeldIsRegistered'
      <3>1. Named \in Object
        BY <1>4, <2>3 DEF HandleQuery, RegistryTypeOK
      <3> QED
        BY <1>3, <1>4, <2>3, <3>1 DEF HandleQuery
    <2>4. CASE HandleQueryUnsent \/ HandleUnknown
      BY <1>2, <1>4, <2>4 DEF HandleQueryUnsent, HandleUnknown
    <2>5. CASE HandleCreate
      <3>1. /\ ref' \subseteq registered \cup {Named}
            /\ UNCHANGED refChildren
            /\ Sweep(registered \cup {Named})
        BY <1>4, <2>5 DEF HandleCreate
      <3> QED
        BY <1>2, <3>1
    <2>6. CASE HandleInvoke \/ HandleInvokeUnknownArgument
      BY <1>1, <2>6 DEF HandleInvoke, HandleInvokeUnknownArgument, objectVars
    <2> QED
      BY <1>5, <2>1, <2>2, <2>3, <2>4, <2>5, <2>6 DEF Handler
  <1>6. CASE Backend
    <2>1. ASSUME NEW kids \in SUBSET Object, Greet(kids)
          PROVE  HeldIsRegistered'
      <3>1. Root \in registered
        BY DEF RootStays
      <3> QED
        BY <1>3, <1>4, <2>1, <3>1, WireAssumption DEF Greet
    <2>2. CASE ProcessBegin \/ ProcessReturn
      BY <1>1, <2>2 DEF ProcessBegin, ProcessReturn, objectVars
    <2>3. CASE Return
      <3>1. PICK kids \in Parameters, asked \in BOOLEAN : InvokeReturn(kids, asked)
        BY <2>3 DEF Return
      <3>2. ref' \subseteq registered \cup kids /\ UNCHANGED refChildren
            /\ Sweep(registered \cup kids)
        BY <1>4, <3>1 DEF InvokeReturn
      <3> QED
        BY <1>2, <3>2
    <2>4. ASSUME NEW o \in Object, NEW kids \in SUBSET Object, Changed(o, kids)
          PROVE  HeldIsRegistered'
      BY <1>3, <1>4, <2>4 DEF Changed
    <2>5. ASSUME NEW o \in Object, NEW kids \in Parameters, Emit(o, kids)
          PROVE  HeldIsRegistered'
      <3>1. ref' \subseteq registered \cup kids /\ UNCHANGED refChildren
            /\ registered' = registered \cup kids
        BY <1>4, <2>5 DEF Emit
      <3> QED
        BY <1>2, <3>1
    <2>6. ASSUME NEW o \in Object, InitObject(o)
          PROVE  HeldIsRegistered'
      <3>1. ref' \subseteq registered \cup {o} /\ UNCHANGED refChildren
            /\ registered' = registered \cup {o}
        BY <1>4, <2>6 DEF InitObject
      <3> QED
        BY <1>2, <3>1
    <2>7. CASE Clock
      BY <1>1, <2>7 DEF Clock, Tick
    <2> QED
      BY <1>5, <1>6, <2>1, <2>2, <2>3, <2>4, <2>5, <2>6, <2>7 DEF Backend, Application
  <1>7. CASE UNCHANGED registryVars
    BY <1>1, <1>7 DEF registryVars, objectVars
  <1> QED
    BY <1>6, <1>7 DEF Next, vars

\* The backend never looks up, in vain, an object it holds a mention of: what the
\* client references and what any marshaled object mentions is registered,
\* whatever was collected in between.
THEOREM HeldRegistered == Spec => []HeldIsRegistered
  <1>1. TypeOK /\ RefCountExact /\ RootStays /\ HeldIsRegistered /\ [Next]_vars
          => TypeOK' /\ RefCountExact' /\ RootStays' /\ HeldIsRegistered'
    BY NextTyped, NextCounts, NextRoot, NextHeld, ExactCountsMentioned, PTL
  <1> QED
    BY <1>1, InitTyped, InitCounts, InitRoot, InitHeld, PTL DEF Spec
=============================================================================
