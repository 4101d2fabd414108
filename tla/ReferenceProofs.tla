-------------------------- MODULE ReferenceProofs --------------------------
(***************************************************************************)
(* Theorems about what the two sides of ObjectLifetime believe of each     *)
(* other while messages are in flight: which references the backend will   *)
(* hold, which types the plugin has, which objects it may still use.       *)
(***************************************************************************)
EXTENDS ObjectLifetimeProofs, NaturalsInduction, WellFoundedInduction

-----------------------------------------------------------------------------
\* The stream of requests, one at a time: the last word about an object counts.

Says(msg, o)  == msg.id = o /\ msg.cmd \in RefCommands
Takes(msg)    == msg.cmd # "OBJECT_DEREF"
LastWord(seq, n, o) ==
  Says(seq[n], o) /\ \A j \in 1..Len(seq) : Says(seq[j], o) => j <= n

\* Whether an object that is referenced if r still is once seq is handled.
WillHold(seq, r, o) ==
  \/ \E n \in 1..Len(seq) : LastWord(seq, n, o) /\ Takes(seq[n])
  \/ r /\ \A n \in 1..Len(seq) : ~Says(seq[n], o)

LEMMA HasLast ==
  ASSUME NEW len \in Nat, NEW T \in SUBSET (1..len), T # {}
  PROVE  \E n \in T : \A j \in T : j <= n
  <1> DEFINE U == {len - y : y \in T}
  <1>1. U \in SUBSET Nat /\ U # {}
    <2>1. \A y \in T : y \in 1..len /\ len - y \in Nat
      OBVIOUS
    <2> QED
      BY <2>1
  <1>2. PICK x \in U : \A y \in U : ~(<<y, x>> \in OpToRel(<, Nat))
    <2> HIDE DEF U
    <2> QED
      BY <1>1, NatLessThanWellFounded, WFMin
  <1>3. PICK n \in T : x = len - n
    BY <1>2
  <1>4. ASSUME NEW j \in T
        PROVE  j <= n
    <2>1. len - j \in U /\ len - j \in Nat /\ x \in Nat
      BY <1>1
    <2>2. <<len - j, x>> \in Nat \X Nat
      BY <2>1
    <2>3. ~(len - j < x)
      BY <1>2, <2>1, <2>2 DEF OpToRel
    <2> QED
      BY <1>3, <2>1, <2>3
  <1> QED
    BY <1>4

\* The last word of WillBeReferenced is the last of the stream.
LEMMA WillBeIsWillHold ==
  ASSUME WireTypeOK, NEW o \in Object
  PROVE  WillBeReferenced(o) <=> WillHold(toBackend, o \in ref, o)
  <1> DEFINE about == {i \in 1..Len(toBackend) :
                         toBackend[i].id = o /\ toBackend[i].cmd \in RefCommands}
             last  == CHOOSE i \in about : \A j \in about : j <= i
  <1>1. Len(toBackend) \in Nat
    BY DEF WireTypeOK
  <1>2. WillBeReferenced(o) <=> IF about = {} THEN o \in ref
                                ELSE toBackend[last].cmd # "OBJECT_DEREF"
    BY DEF WillBeReferenced
  <1>3. \A i \in 1..Len(toBackend) : i \in about <=> Says(toBackend[i], o)
    BY DEF Says
  <1>4. about \in SUBSET (1..Len(toBackend))
    OBVIOUS
  <1>5. CASE about = {}
    BY <1>2, <1>3, <1>5 DEF WillHold, LastWord
  <1>6. CASE about # {}
    <2>1. \E n \in about : \A j \in about : j <= n
      <3> HIDE DEF about
      <3> QED
        BY <1>1, <1>4, <1>6, HasLast
    <2>2. last \in about /\ \A j \in about : j <= last
      BY <2>1
    <2>3. PICK l : l = last
      OBVIOUS
    <2>4. l \in 1..Len(toBackend) /\ LastWord(toBackend, l, o)
      BY <1>3, <1>4, <2>2, <2>3 DEF LastWord
    <2>5. \A n \in 1..Len(toBackend) : LastWord(toBackend, n, o) => n = l
      BY <1>1, <2>4 DEF LastWord
    <2> QED
      BY <1>2, <1>6, <2>3, <2>4, <2>5 DEF WillHold, LastWord, Takes
  <1> QED
    BY <1>5, <1>6

LEMMA HoldAppended ==
  ASSUME NEW seq \in Seq(RequestSet), NEW msg \in RequestSet, NEW r, NEW o \in Object
  PROVE  WillHold(Append(seq, msg), r, o) <=>
           IF Says(msg, o) THEN Takes(msg) ELSE WillHold(seq, r, o)
  <1>1. PICK s \in Seq(RequestSet) : s = Append(seq, msg)
    BY AppendProperties
  <1>2. PICK k \in Nat : k = Len(seq)
    OBVIOUS
  <1>3. /\ Len(s) = k + 1
        /\ s[k + 1] = msg
        /\ \A n \in 1..k : s[n] = seq[n]
    BY <1>1, <1>2, AppendProperties
  <1>4. CASE Says(msg, o)
    <2>1. LastWord(s, k + 1, o)
      BY <1>3, <1>4 DEF LastWord
    <2>2. \A n \in 1..Len(s) : LastWord(s, n, o) => n = k + 1
      BY <1>3, <1>4 DEF LastWord
    <2> QED
      BY <1>1, <1>3, <1>4, <2>1, <2>2 DEF WillHold
  <1>5. CASE ~Says(msg, o)
    <2>1. \A n \in 1..Len(s) : Says(s[n], o) => n \in 1..k /\ Says(seq[n], o)
      BY <1>3, <1>5
    <2>2. \A n \in 1..k : n \in 1..Len(s) /\ (Says(s[n], o) <=> Says(seq[n], o))
                          /\ (Takes(s[n]) <=> Takes(seq[n]))
      BY <1>3
    <2>3. \A n \in 1..k : LastWord(s, n, o) <=> LastWord(seq, n, o)
      BY <1>2, <2>1, <2>2 DEF LastWord
    <2>4. \A n \in 1..Len(s) : LastWord(s, n, o) => n \in 1..k
      BY <2>1 DEF LastWord
    <2>5. WillHold(s, r, o) <=> WillHold(seq, r, o)
      BY <1>2, <2>1, <2>2, <2>3, <2>4 DEF WillHold
    <2> QED
      BY <1>1, <1>5, <2>5
  <1> QED
    BY <1>4, <1>5

LEMMA HoldHandled ==
  ASSUME NEW seq \in Seq(RequestSet), seq # <<>>, NEW r, NEW o \in Object
  PROVE  WillHold(seq, r, o) <=>
           WillHold(Tail(seq), IF Says(Head(seq), o) THEN Takes(Head(seq)) ELSE r, o)
  <1>1. PICK t \in Seq(RequestSet) : t = Tail(seq)
    BY HeadTailProperties
  <1>2. PICK k \in Nat : k = Len(t)
    OBVIOUS
  <1>3. /\ Len(seq) = k + 1
        /\ Head(seq) = seq[1]
        /\ \A n \in 1..k : t[n] = seq[n + 1]
    BY <1>1, <1>2, HeadTailProperties
  <1>4. \A n \in 1..Len(seq) : n = 1 \/ \E j \in 1..k : n = j + 1
    <2>1. \A n \in 1..Len(seq) : n # 1 => (n - 1) \in 1..k /\ n = (n - 1) + 1
      BY <1>3
    <2> QED
      BY <2>1
  <1>5. \A n \in 1..k : LastWord(t, n, o) <=> LastWord(seq, n + 1, o)
    <2> SUFFICES ASSUME NEW n \in 1..k
                 PROVE  LastWord(t, n, o) <=> LastWord(seq, n + 1, o)
      OBVIOUS
    <2>1. ASSUME LastWord(t, n, o), NEW j \in 1..Len(seq), Says(seq[j], o)
          PROVE  j <= n + 1
      <3>1. CASE j = 1
        BY <3>1
      <3>2. ASSUME NEW i \in 1..k, j = i + 1
            PROVE  j <= n + 1
        BY <1>2, <1>3, <2>1, <3>2 DEF LastWord
      <3> QED
        BY <1>4, <3>1, <3>2
    <2>2. ASSUME LastWord(seq, n + 1, o), NEW j \in 1..Len(t), Says(t[j], o)
          PROVE  j <= n
      <3>1. j \in 1..k /\ j + 1 \in 1..Len(seq) /\ Says(seq[j + 1], o)
        BY <1>2, <1>3, <2>2
      <3>2. j + 1 <= n + 1
        BY <2>2, <3>1 DEF LastWord
      <3> QED
        BY <3>1, <3>2
    <2>3. Says(t[n], o) <=> Says(seq[n + 1], o)
      BY <1>3
    <2> QED
      BY <2>1, <2>2, <2>3 DEF LastWord
  <1>6. \A n \in 1..k : n + 1 \in 1..Len(seq) /\ t[n] = seq[n + 1]
    BY <1>3
  <1>7. \A n \in 1..k : n \in 1..Len(t)
    BY <1>2
  <1>8. \A n \in 1..Len(t) : n \in 1..k
    BY <1>2
  <1>9. CASE \E n \in 1..k : Says(t[n], o)
    <2>1. ~LastWord(seq, 1, o)
      <3>1. PICK n \in 1..k : Says(t[n], o)
        BY <1>9
      <3>2. n + 1 \in 1..Len(seq) /\ Says(seq[n + 1], o) /\ ~(n + 1 <= 1)
        BY <1>6, <3>1
      <3> QED
        BY <3>2 DEF LastWord
    <2>2. (\E n \in 1..Len(seq) : LastWord(seq, n, o) /\ Takes(seq[n]))
            <=> \E n \in 1..Len(t) : LastWord(t, n, o) /\ Takes(t[n])
      BY <1>4, <1>5, <1>6, <1>7, <1>8, <2>1
    <2>3. ~(\A n \in 1..Len(t) : ~Says(t[n], o)) /\ ~(\A n \in 1..Len(seq) : ~Says(seq[n], o))
      BY <1>6, <1>7, <1>9
    <2> QED
      BY <1>1, <2>2, <2>3 DEF WillHold
  <1>10. CASE \A n \in 1..k : ~Says(t[n], o)
    <2>1. \A n \in 1..Len(seq) : Says(seq[n], o) => n = 1
      BY <1>4, <1>6, <1>10
    <2>2. 1 \in 1..Len(seq)
      BY <1>3
    <2>3. LastWord(seq, 1, o) <=> Says(seq[1], o)
      BY <1>3, <2>1 DEF LastWord
    <2>4. WillHold(seq, r, o) <=> IF Says(seq[1], o) THEN Takes(seq[1]) ELSE r
      BY <2>1, <2>2, <2>3 DEF WillHold, LastWord
    <2>5. WillHold(t, IF Says(seq[1], o) THEN Takes(seq[1]) ELSE r, o)
            <=> IF Says(seq[1], o) THEN Takes(seq[1]) ELSE r
      BY <1>8, <1>10 DEF WillHold, LastWord
    <2> QED
      BY <1>1, <1>3, <2>4, <2>5
  <1> QED
    BY <1>9, <1>10

LEMMA HoldWeaker ==
  ASSUME NEW seq, NEW r, NEW s, r => s, NEW o
  PROVE  WillHold(seq, r, o) => WillHold(seq, s, o)
  BY DEF WillHold

-----------------------------------------------------------------------------
\* What the plugin writes, one request at a time.

\* The requests before and after componentDestruction is called, if it is.
WithCall(seq, o) == {seq, Append(seq, Request("INVOKE", o, {}))}

LEMMA LastCallAppended ==
  ASSUME WireTypeOK, NEW o \in Object, NEW call \in LastCall(o)
  PROVE  /\ toBackend \o call \in WithCall(toBackend, o)
         /\ toBackend \o call \in Seq(RequestSet)
         /\ toBackend \o call # toBackend => o \in native
  <1>1. toBackend \in Seq(RequestSet) /\ Request("INVOKE", o, {}) \in RequestSet
    BY RequestTyped DEF WireTypeOK, Requests
  <1>2. CASE call = <<>>
    <2>1. toBackend \o call = toBackend
      BY <1>1, <1>2, ConcatProperties, EmptySeq
    <2> QED
      BY <1>1, <2>1 DEF WithCall
  <1>3. CASE call = <<Request("INVOKE", o, {})>> /\ o \in native
    <2>1. toBackend \o call = Append(toBackend, Request("INVOKE", o, {}))
      BY <1>1, <1>3, AppendIsConcat
    <2>2. Append(toBackend, Request("INVOKE", o, {})) \in Seq(RequestSet)
      BY <1>1, AppendProperties
    <2> QED
      BY <1>3, <2>1, <2>2 DEF WithCall
  <1> QED
    BY <1>2, <1>3 DEF LastCall

LEMMA DestroyAppends ==
  ASSUME WireTypeOK, NEW o \in Object, Destroy(o)
  PROVE  \E mid \in Seq(RequestSet) :
           /\ mid \in WithCall(toBackend, o)
           /\ toBackend' = Append(mid, Request("OBJECT_DEREF", o, {}))
  <1>1. PICK call \in LastCall(o) :
          toBackend' = toBackend \o call \o <<Request("OBJECT_DEREF", o, {})>>
    BY DEF Destroy
  <1>2. PICK mid : mid = toBackend \o call
    OBVIOUS
  <1>3. mid \in Seq(RequestSet) /\ mid \in WithCall(toBackend, o)
    BY <1>2, LastCallAppended
  <1>4. Request("OBJECT_DEREF", o, {}) \in RequestSet
    BY RequestTyped DEF Requests
  <1>5. mid \o <<Request("OBJECT_DEREF", o, {})>>
          = Append(mid, Request("OBJECT_DEREF", o, {}))
    BY <1>3, <1>4, AppendIsConcat
  <1> QED
    BY <1>1, <1>2, <1>3, <1>5

LEMMA DequeueTakesHead ==
  ASSUME WireTypeOK, NEW cmd, Dequeue(cmd)
  PROVE  /\ toBackend \in Seq(RequestSet)
         /\ toBackend # <<>>
         /\ toBackend' = Tail(toBackend)
         /\ Tail(toBackend) \in Seq(RequestSet)
         /\ Head(toBackend) \in RequestSet
         /\ Head(toBackend) = toBackend[1]
         /\ 1 \in 1..Len(toBackend)
         /\ Head(toBackend).cmd = cmd
         /\ Named \in Object
         /\ Named = Head(toBackend).id
         /\ Head(toBackend).kids \subseteq Object
  <1>1. toBackend \in Seq(RequestSet) /\ toBackend # <<>>
    BY DEF Dequeue, WireTypeOK
  <1>2. /\ Head(toBackend) \in RequestSet
        /\ Tail(toBackend) \in Seq(RequestSet)
        /\ Head(toBackend) = toBackend[1]
        /\ 1 \in 1..Len(toBackend)
    BY <1>1, HeadTailProperties
  <1> QED
    BY <1>1, <1>2 DEF Dequeue, Named, RequestSet

-----------------------------------------------------------------------------
\* The types that are left out.

AsksCached(seq, cache) ==
  \A n \in 1..Len(seq) : seq[n].cmd = "OBJECT_REF" => TypeOf[seq[n].id] \in cache
OmitsCached(seq, cache) == \A n \in 1..Len(seq) : seq[n].omit \subseteq cache

LEMMA AsksAppended ==
  ASSUME NEW seq \in Seq(RequestSet), NEW cache, AsksCached(seq, cache),
         NEW cmd \in Requests, NEW o \in Object, NEW args \in SUBSET Object,
         cmd = "OBJECT_REF" => TypeOf[o] \in cache
  PROVE  AsksCached(Append(seq, Request(cmd, o, args)), cache)
  <1>1. PICK msg \in RequestSet : msg = Request(cmd, o, args)
    BY RequestTyped
  <1>2. msg.cmd = cmd /\ msg.id = o
    BY <1>1 DEF Request
  <1>3. AsksCached(Append(seq, msg), cache)
    BY <1>2, AppendProperties DEF AsksCached
  <1> QED
    BY <1>1, <1>3

LEMMA AsksHandled ==
  ASSUME NEW seq \in Seq(RequestSet), seq # <<>>, NEW cache, AsksCached(seq, cache)
  PROVE  AsksCached(Tail(seq), cache)
  <1>1. /\ Len(Tail(seq)) = Len(seq) - 1
        /\ \A n \in 1..Len(Tail(seq)) : Tail(seq)[n] = seq[n + 1]
    BY HeadTailProperties
  <1> QED
    BY <1>1 DEF AsksCached

LEMMA OmitsAppended ==
  ASSUME NEW seq \in Seq(UpdateSet), NEW cache, OmitsCached(seq, cache),
         NEW cmd \in Updates, NEW o \in Object, NEW objs \in SUBSET Object,
         knownTypes \subseteq cache
  PROVE  OmitsCached(Append(seq, Update(cmd, o, objs, Omitted(objs))), cache)
  <1>1. PICK msg \in UpdateSet : msg = Update(cmd, o, objs, Omitted(objs))
    BY UpdateTyped
  <1>2. msg.omit \subseteq cache
    BY <1>1 DEF Update, Omitted
  <1>3. OmitsCached(Append(seq, msg), cache)
    BY <1>2, AppendProperties DEF OmitsCached
  <1> QED
    BY <1>1, <1>3

LEMMA OmitsReceived ==
  ASSUME NEW seq \in Seq(UpdateSet), seq # <<>>, NEW cache, OmitsCached(seq, cache)
  PROVE  OmitsCached(Tail(seq), cache)
  <1>1. /\ Len(Tail(seq)) = Len(seq) - 1
        /\ \A n \in 1..Len(Tail(seq)) : Tail(seq)[n] = seq[n + 1]
    BY HeadTailProperties
  <1> QED
    BY <1>1 DEF OmitsCached

LEMMA RemovedAt ==
  ASSUME NEW seq \in Seq(UpdateSet), NEW i \in 1..Len(seq)
  PROVE  \A n \in 1..Len(RemoveAt(seq, i)) :
           \E m \in 1..Len(seq) : RemoveAt(seq, i)[n] = seq[m]
  <1>1. PICK len \in Nat : len = Len(seq)
    OBVIOUS
  <1>2. SubSeq(seq, 1, i - 1) \in Seq(UpdateSet) /\ SubSeq(seq, i + 1, len) \in Seq(UpdateSet)
    BY <1>1
  <1>3. PICK s \in Seq(UpdateSet), t \in Seq(UpdateSet) :
          s = SubSeq(seq, 1, i - 1) /\ t = SubSeq(seq, i + 1, len)
    BY <1>2
  <1>4. /\ Len(s) = i - 1 /\ \A n \in 1..(i - 1) : s[n] = seq[n]
        /\ Len(t) = len - i /\ \A n \in 1..(len - i) : t[n] = seq[n + i]
    BY <1>1, <1>3
  <1>5. RemoveAt(seq, i) = s \o t
    BY <1>1, <1>3 DEF RemoveAt
  <1>6. \A n \in 1..Len(s \o t) : \E m \in 1..len : (s \o t)[n] = seq[m]
    <2> SUFFICES ASSUME NEW n \in 1..Len(s \o t)
                 PROVE  \E m \in 1..len : (s \o t)[n] = seq[m]
      OBVIOUS
    <2>1. /\ Len(s \o t) = Len(s) + Len(t)
          /\ (s \o t)[n] = IF n <= Len(s) THEN s[n] ELSE t[n - Len(s)]
      BY ConcatProperties
    <2>2. CASE n <= i - 1
      <3>1. n \in 1..(i - 1) /\ n \in 1..len
        BY <1>1, <1>4, <2>1, <2>2
      <3> QED
        BY <1>4, <2>1, <2>2, <3>1
    <2>3. CASE ~(n <= i - 1)
      <3>1. PICK j \in 1..(len - i) : n = j + (i - 1)
        <4>1. n - (i - 1) \in 1..(len - i) /\ n = (n - (i - 1)) + (i - 1)
          BY <1>1, <1>4, <2>1, <2>3
        <4> QED
          BY <4>1
      <3>2. (s \o t)[n] = t[j] /\ j + i \in 1..len
        BY <1>1, <1>4, <2>1, <2>3, <3>1
      <3> QED
        BY <1>4, <3>2
    <2> QED
      BY <2>2, <2>3
  <1> QED
    BY <1>1, <1>5, <1>6

\* Where the plugin has asked for a reference, it has cached the type: this is
\* what makes the types the backend will come to know cached ones.
TypesCached ==
  /\ knownTypes \subseteq typeCache
  /\ AsksCached(toBackend, typeCache)
  /\ OmitsCached(toClient, typeCache)

LEMMA InitCached == Init => TypesCached
  BY DEF Init, RegistryInit, TypesCached, AsksCached, OmitsCached

LEMMA BackendCached ==
  ASSUME TypeOK, TypesCached, Backend, UNCHANGED proxyVars
  PROVE  TypesCached'
  <1> USE DEF TypeOK
  <1>1. /\ toBackend \in Seq(RequestSet) /\ toClient \in Seq(UpdateSet)
        /\ UNCHANGED typeCache
    BY DEF WireTypeOK, proxyVars
  <1>2. ASSUME NEW cmd, Dequeue(cmd)
        PROVE  AsksCached(toBackend, typeCache)'
    BY <1>1, <1>2, DequeueTakesHead, AsksHandled DEF TypesCached
  <1>3. ASSUME NEW cmd \in Updates, NEW o \in Object, NEW kids \in SUBSET Object,
               toClient' = Append(toClient, Update(cmd, o, kids, Omitted(kids)))
        PROVE  OmitsCached(toClient, typeCache)'
    BY <1>1, <1>3, OmitsAppended DEF TypesCached
  <1>4. UNCHANGED toBackend => AsksCached(toBackend, typeCache)'
    BY <1>1 DEF TypesCached
  <1>5. UNCHANGED toClient => OmitsCached(toClient, typeCache)'
    BY <1>1 DEF TypesCached
  <1>6. UNCHANGED knownTypes => (knownTypes \subseteq typeCache)'
    BY <1>1 DEF TypesCached
  <1>7. CASE HandleRef
    <2>1. /\ knownTypes' \subseteq knownTypes \cup {TypeOf[Named]}
          /\ Dequeue("OBJECT_REF") /\ UNCHANGED toClient
      BY <1>7 DEF HandleRef
    <2>2. TypeOf[Named] \in typeCache
      BY <2>1, DequeueTakesHead DEF TypesCached, AsksCached
    <2>3. knownTypes' \subseteq typeCache'
      BY <1>1, <2>1, <2>2 DEF TypesCached
    <2> QED
      BY <1>2, <1>5, <2>1, <2>3 DEF TypesCached
  <1>8. CASE HandleDeref \/ HandleQueryUnsent \/ HandleUnknown \/ HandleCreate
               \/ HandleInvoke \/ HandleInvokeUnknownArgument
    <2>1. UNCHANGED <<knownTypes, toClient>> /\ \E cmd : Dequeue(cmd)
      BY <1>8 DEF HandleDeref, HandleQueryUnsent, HandleUnknown, HandleCreate, HandleInvoke,
                  HandleInvokeUnknownArgument, objectVars
    <2> QED
      BY <1>2, <1>5, <1>6, <2>1 DEF TypesCached
  <1>9. ASSUME NEW kids \in SUBSET Object, HandleQuery(kids)
        PROVE  TypesCached'
    <2>1. /\ Dequeue("OBJECT_QUERY") /\ UNCHANGED knownTypes
          /\ toClient' = Append(toClient, Update("OBJECT_RESET", Named, kids, Omitted(kids)))
      BY <1>9 DEF HandleQuery
    <2>2. Named \in Object /\ "OBJECT_RESET" \in Updates
      BY <2>1, DequeueTakesHead DEF Updates
    <2> QED
      BY <1>2, <1>3, <1>6, <2>1, <2>2 DEF TypesCached
  <1>10. ASSUME NEW kids \in SUBSET Object, Greet(kids)
         PROVE  TypesCached'
    <2>1. /\ UNCHANGED <<knownTypes, toBackend>>
          /\ toClient' = Append(toClient, Update("ROOT", Root, kids, Omitted(kids)))
      BY <1>10 DEF Greet
    <2> QED
      BY <1>3, <1>4, <1>6, <2>1, WireAssumption DEF TypesCached, Updates
  <1>11. ASSUME NEW kids \in Parameters, NEW asked \in BOOLEAN, InvokeReturn(kids, asked)
         PROVE  TypesCached'
    <2>1. /\ UNCHANGED <<knownTypes, toBackend>>
          /\ \/ UNCHANGED toClient
             \/ toClient' = Append(toClient,
                              Update("INVOKE_RETURN", serving, kids, Omitted(kids)))
      BY <1>11 DEF InvokeReturn
    <2>2. kids \in SUBSET Object /\ serving \in Object
      BY <1>11 DEF InvokeReturn, Parameters, RegistryTypeOK
    <2> QED
      BY <1>3, <1>4, <1>5, <1>6, <2>1, <2>2 DEF TypesCached, Updates
  <1>12. ASSUME NEW o \in Object, NEW kids \in Parameters, Emit(o, kids)
         PROVE  TypesCached'
    <2>1. /\ UNCHANGED <<knownTypes, toBackend>>
          /\ toClient' = Append(toClient, Update("EMIT", o, kids, Omitted(kids)))
      BY <1>12 DEF Emit
    <2>2. kids \in SUBSET Object
      BY DEF Parameters
    <2> QED
      BY <1>3, <1>4, <1>6, <2>1, <2>2 DEF TypesCached, Updates
  <1>13. ASSUME NEW o \in Object, NEW kids \in SUBSET Object, Changed(o, kids)
         PROVE  TypesCached'
    <2>1. /\ UNCHANGED <<knownTypes, toBackend>>
          /\ toClient' = Append(toClient, Update("OBJECT_RESET", o, kids, Omitted(kids)))
      BY <1>13 DEF Changed
    <2> QED
      BY <1>3, <1>4, <1>6, <2>1 DEF TypesCached, Updates
  <1>14. CASE ProcessBegin \/ ProcessReturn \/ Clock \/ \E o \in Object : InitObject(o)
    <2>1. UNCHANGED <<knownTypes, toBackend, toClient>>
      BY <1>14 DEF ProcessBegin, ProcessReturn, Clock, Tick, InitObject, objectVars, wireVars
    <2> QED
      BY <1>4, <1>5, <1>6, <2>1 DEF TypesCached
  <1> QED
    BY <1>7, <1>8, <1>9, <1>10, <1>11, <1>12, <1>13, <1>14
       DEF Backend, Handler, Return, Application

LEMMA ClientCached ==
  ASSUME TypeOK, TypesCached, Client, UNCHANGED registryVars
  PROVE  TypesCached'
  <1> USE DEF TypeOK
  <1>1. /\ toBackend \in Seq(RequestSet) /\ toClient \in Seq(UpdateSet)
        /\ UNCHANGED knownTypes
    BY DEF WireTypeOK, registryVars, objectVars
  <1>2. ASSUME UNCHANGED <<typeCache, toBackend, toClient>>
        PROVE  TypesCached'
    BY <1>1, <1>2 DEF TypesCached
  <1>3. ASSUME NEW cmd \in Requests, cmd # "OBJECT_REF", NEW o \in Object,
               NEW args \in SUBSET Object,
               toBackend' = Append(toBackend, Request(cmd, o, args)),
               UNCHANGED <<typeCache, toClient>>
        PROVE  TypesCached'
    BY <1>1, <1>3, AsksAppended DEF TypesCached
  <1>4. ASSUME NEW S \in SUBSET Object, Ensure(S),
               OmitsCached(toClient', typeCache)
        PROVE  TypesCached'
    <2>1. CASE UNCHANGED <<proxy, orphans, typeCache, toBackend>>
      BY <1>1, <1>4, <2>1 DEF TypesCached
    <2>2. ASSUME NEW o \in S,
                 typeCache' = typeCache \cup {TypeOf[o]},
                 toBackend' = Append(toBackend, Request("OBJECT_REF", o, {}))
          PROVE  TypesCached'
      <3>1. AsksCached(toBackend, typeCache')
        BY <2>2 DEF TypesCached, AsksCached
      <3>2. AsksCached(toBackend, typeCache)'
        BY <1>1, <2>2, <3>1, AsksAppended DEF Requests
      <3>3. OmitsCached(toClient, typeCache)'
        BY <1>4, <2>2 DEF OmitsCached
      <3> QED
        BY <1>1, <2>2, <3>2, <3>3 DEF TypesCached
    <2> QED
      BY <1>4, <2>1, <2>2 DEF Ensure
  <1>5. ASSUME NEW cmd, Received(cmd)
        PROVE  OmitsCached(toClient', typeCache) /\ Head(toClient).kids \in SUBSET Object
    <2>1. toClient # <<>> /\ toClient' = Tail(toClient)
      BY <1>5 DEF Received
    <2>2. Head(toClient) \in UpdateSet
      BY <1>1, <2>1, HeadTailProperties
    <2>3. Head(toClient).kids \in SUBSET Object
      BY <2>2 DEF UpdateSet
    <2> QED
      BY <1>1, <2>1, <2>3, OmitsReceived DEF TypesCached
  <1>6. CASE ReceiveRoot
    BY <1>4, <1>5, <1>6, WireAssumption DEF ReceiveRoot
  <1>7. CASE ReceiveReset
    BY <1>1, <1>5, <1>7 DEF ReceiveReset, TypesCached
  <1>8. CASE ReceiveEmit
    BY <1>4, <1>5, <1>8 DEF ReceiveEmit
  <1>9. CASE ReceiveReturn
    BY <1>4, <1>5, <1>9 DEF ReceiveReturn
  <1>10. CASE ReceiveAnswer
    <2>1. PICK i \in 1..Len(toClient) : toClient' = RemoveAt(toClient, i)
      BY <1>10 DEF ReceiveAnswer
    <2>2. OmitsCached(toClient', typeCache)
      BY <1>1, <2>1, RemovedAt DEF OmitsCached, TypesCached
    <2> QED
      BY <1>1, <1>10, <2>2 DEF ReceiveAnswer, TypesCached
  <1>11. ASSUME NEW o \in Object, NEW mid \in Seq(RequestSet), mid \in WithCall(toBackend, o)
         PROVE  AsksCached(mid, typeCache)
    <2>1. AsksCached(toBackend, typeCache)
      BY DEF TypesCached
    <2>2. AsksCached(Append(toBackend, Request("INVOKE", o, {})), typeCache)
      BY <1>1, <2>1, AsksAppended DEF Requests
    <2> QED
      BY <1>11, <2>1, <2>2 DEF WithCall
  <1>12. ASSUME NEW o \in Object, ReadAndBlock(o)
         PROVE  TypesCached'
    BY <1>3, <1>12 DEF ReadAndBlock, Requests
  <1>13. ASSUME NEW o \in Object, NEW k \in Object, ReadChild(o, k)
         PROVE  TypesCached'
    BY <1>4, <1>13 DEF ReadChild, TypesCached
  <1>14. ASSUME NEW o \in Object, NEW args \in Parameters, Invoke(o, args)
         PROVE  TypesCached'
    <2>1. args \in SUBSET Object
      BY DEF Parameters
    <2> QED
      BY <1>3, <1>14, <2>1 DEF Invoke, Requests, proxyVars
  <1>15. ASSUME NEW o \in Object, Create(o)
         PROVE  TypesCached'
    BY <1>3, <1>15 DEF Create, Requests
  <1>16. ASSUME NEW o \in Object, JSCollect(o)
         PROVE  TypesCached'
    BY <1>2, <1>16 DEF JSCollect, wireVars
  <1>17. ASSUME NEW o \in Object, Destroy(o)
         PROVE  TypesCached'
    <2>1. PICK mid \in Seq(RequestSet) :
            /\ mid \in WithCall(toBackend, o)
            /\ toBackend' = Append(mid, Request("OBJECT_DEREF", o, {}))
      BY <1>17, DestroyAppends
    <2>2. AsksCached(toBackend', typeCache)
      BY <1>11, <2>1, AsksAppended DEF Requests
    <2> QED
      BY <1>1, <1>17, <2>2 DEF Destroy, TypesCached
  <1>18. ASSUME NEW o \in Object, DestroyOrphan(o)
         PROVE  TypesCached'
    <2>1. AsksCached(toBackend', typeCache)
      BY <1>11, <1>18, LastCallAppended DEF DestroyOrphan
    <2> QED
      BY <1>1, <1>18, <2>1 DEF DestroyOrphan, TypesCached
  <1> QED
    BY <1>6, <1>7, <1>8, <1>9, <1>10, <1>12, <1>13, <1>14, <1>15, <1>16, <1>17, <1>18
       DEF Client, Receive, Engine

LEMMA NextCached == TypeOK /\ TypesCached /\ [Next]_vars => TypesCached'
  <1> SUFFICES ASSUME TypeOK, TypesCached, [Next]_vars PROVE TypesCached'
    OBVIOUS
  <1>1. CASE UNCHANGED vars
    BY <1>1 DEF vars, wireVars, registryVars, objectVars, proxyVars, TypesCached
  <1> QED
    BY <1>1, BackendCached, ClientCached DEF Next

\* The plugin can always make an object of a type the backend has left out of a
\* message (knownTypes, MarshalJSON): it cached the type (newTypeMetaObject) before
\* the reference that taught the backend so was on its way.
THEOREM OmittedCached == Spec => []OmittedIsCached
  <1>1. TypesCached => OmittedIsCached
    BY DEF TypesCached, OmittedIsCached, OmitsCached
  <1> QED
    BY <1>1, InitTyped, NextTyped, InitCached, NextCached, PTL DEF Spec

-----------------------------------------------------------------------------
\* References that are held, or on their way.

EndsHeld(o) == WillHold(toBackend, o \in ref, o)

\* The backend makes no reference that it was not asked for: a message it has
\* handled leaves at most what it said.
LEMMA BackendHolds ==
  ASSUME TypeOK, HeldIsRegistered, Backend, NEW o \in Object, o # Root
  PROVE  EndsHeld(o)' => EndsHeld(o)
  <1> USE DEF TypeOK
  <1>1. ASSUME UNCHANGED toBackend, o \in ref' => o \in ref
        PROVE  EndsHeld(o)' => EndsHeld(o)
    BY <1>1, HoldWeaker DEF EndsHeld
  <1>2. ASSUME NEW cmd, Dequeue(cmd),
               o \in ref' => IF Says(Head(toBackend), o) THEN Takes(Head(toBackend))
                             ELSE o \in ref
        PROVE  EndsHeld(o)' => EndsHeld(o)
    <2>1. /\ toBackend \in Seq(RequestSet) /\ toBackend # <<>>
          /\ toBackend' = Tail(toBackend)
      BY <1>2, DequeueTakesHead
    <2>2. PICK now : now = IF Says(Head(toBackend), o) THEN Takes(Head(toBackend))
                           ELSE o \in ref
      OBVIOUS
    <2>3. EndsHeld(o)' => WillHold(Tail(toBackend), now, o)
      BY <1>2, <2>1, <2>2, HoldWeaker DEF EndsHeld
    <2>4. WillHold(toBackend, o \in ref, o) <=> WillHold(Tail(toBackend), now, o)
      BY <2>1, <2>2, HoldHandled
    <2> QED
      BY <2>3, <2>4 DEF EndsHeld
  <1>3. ASSUME NEW cmd, Dequeue(cmd), UNCHANGED ref, cmd \notin RefCommands
        PROVE  EndsHeld(o)' => EndsHeld(o)
    <2>1. ~Says(Head(toBackend), o)
      BY <1>3, DequeueTakesHead DEF Says
    <2> QED
      BY <1>2, <1>3, <2>1
  <1>4. ASSUME NEW cmd, Dequeue(cmd), cmd \in {"OBJECT_REF", "OBJECT_CREATE"},
               ref' \subseteq ref \cup {Named}
        PROVE  EndsHeld(o)' => EndsHeld(o)
    <2>1. Head(toBackend).cmd = cmd /\ Named = Head(toBackend).id
      BY <1>4, DequeueTakesHead
    <2>2. Takes(Head(toBackend)) /\ (Says(Head(toBackend), o) <=> o = Named)
      BY <1>4, <2>1 DEF Takes, Says, RefCommands
    <2> QED
      BY <1>2, <1>4, <2>2
  <1>5. CASE HandleRef
    BY <1>4, <1>5 DEF HandleRef
  <1>6. CASE HandleCreate
    BY <1>4, <1>6 DEF HandleCreate
  <1>7. CASE HandleDeref
    <2>1. Dequeue("OBJECT_DEREF") /\ ref' = ref \ ({Named} \cap registered)
      BY <1>7 DEF HandleDeref
    <2>2. Head(toBackend).cmd = "OBJECT_DEREF" /\ Named = Head(toBackend).id
      BY <2>1, DequeueTakesHead
    <2>3. Says(Head(toBackend), o) <=> o = Named
      BY <2>2 DEF Says, RefCommands
    <2>4. Named \notin ref' /\ ref' \subseteq ref
      BY <2>1 DEF HeldIsRegistered
    <2> QED
      BY <1>2, <2>1, <2>3, <2>4
  <1>8. CASE (\E kids \in SUBSET Object : HandleQuery(kids)) \/ HandleQueryUnsent
    BY <1>3, <1>8 DEF HandleQuery, HandleQueryUnsent, RefCommands
  <1>9. CASE HandleUnknown \/ HandleInvoke \/ HandleInvokeUnknownArgument
    BY <1>3, <1>9 DEF HandleUnknown, HandleInvoke, HandleInvokeUnknownArgument, objectVars,
                      RefCommands
  <1>10. CASE \E kids \in SUBSET Object : Greet(kids)
    BY <1>1, <1>10 DEF Greet
  <1>11. CASE ProcessBegin \/ ProcessReturn \/ Clock
    BY <1>1, <1>11 DEF ProcessBegin, ProcessReturn, Clock, Tick, objectVars, wireVars
  <1>12. CASE Return
    BY <1>1, <1>12 DEF Return, InvokeReturn
  <1>13. CASE Application
    BY <1>1, <1>13 DEF Application, InitObject, Emit, Changed, wireVars
  <1> QED
    BY <1>5, <1>6, <1>7, <1>8, <1>9, <1>10, <1>11, <1>12, <1>13 DEF Backend, Handler

\* The plugin asks for a reference when it makes a proxy, and gives it back when
\* it removes the last one.
LEMMA ClientHolds ==
  ASSUME TypeOK, Client, UNCHANGED registryVars, NEW o \in Object
  PROVE  \/ (EndsHeld(o)' <=> EndsHeld(o)) /\ (proxy'[o] = "none" <=> proxy[o] = "none")
         \/ EndsHeld(o)' /\ proxy'[o] # "none"
         \/ ~EndsHeld(o)' /\ proxy'[o] = "none"
  <1> USE DEF TypeOK
  <1>1. /\ toBackend \in Seq(RequestSet)
        /\ proxy \in [Object -> {"none", "live", "doomed"}]
        /\ UNCHANGED ref
    BY DEF WireTypeOK, ProxiesTypeOK, registryVars, objectVars
  <1>2. UNCHANGED toBackend => (EndsHeld(o)' <=> EndsHeld(o))
    BY <1>1 DEF EndsHeld
  <1>3. ASSUME NEW seq \in Seq(RequestSet), NEW cmd \in Requests, NEW p \in Object,
               NEW args \in SUBSET Object
        PROVE  WillHold(Append(seq, Request(cmd, p, args)), o \in ref, o) <=>
                 IF p = o /\ cmd \in RefCommands THEN cmd # "OBJECT_DEREF"
                 ELSE WillHold(seq, o \in ref, o)
    <2>1. PICK msg \in RequestSet : msg = Request(cmd, p, args)
      BY RequestTyped
    <2>2. msg.id = p /\ msg.cmd = cmd
      BY <2>1 DEF Request
    <2>3. (Says(msg, o) <=> p = o /\ cmd \in RefCommands)
          /\ (Takes(msg) <=> cmd # "OBJECT_DEREF")
      BY <2>2 DEF Says, Takes
    <2>4. WillHold(Append(seq, msg), o \in ref, o) <=>
            IF Says(msg, o) THEN Takes(msg) ELSE WillHold(seq, o \in ref, o)
      BY HoldAppended
    <2> QED
      BY <2>1, <2>3, <2>4
  <1>4. ASSUME NEW seq \in Seq(RequestSet), NEW p \in Object, seq \in WithCall(toBackend, p)
        PROVE  WillHold(seq, o \in ref, o) <=> EndsHeld(o)
    <2>1. WillHold(Append(toBackend, Request("INVOKE", p, {})), o \in ref, o) <=> EndsHeld(o)
      BY <1>1, <1>3 DEF Requests, RefCommands, EndsHeld
    <2> QED
      BY <1>4, <2>1 DEF WithCall, EndsHeld
  <1>5. ASSUME NEW S \in SUBSET Object, Ensure(S)
        PROVE  \/ (EndsHeld(o)' <=> EndsHeld(o)) /\ (proxy'[o] = "none" <=> proxy[o] = "none")
               \/ EndsHeld(o)' /\ proxy'[o] # "none"
    <2>1. CASE UNCHANGED <<proxy, orphans, typeCache, toBackend>>
      BY <1>2, <2>1
    <2>2. ASSUME NEW p \in S,
                 proxy' = [proxy EXCEPT ![p] = "live"],
                 toBackend' = Append(toBackend, Request("OBJECT_REF", p, {}))
          PROVE  \/ /\ EndsHeld(o)' <=> EndsHeld(o)
                    /\ proxy'[o] = "none" <=> proxy[o] = "none"
                 \/ EndsHeld(o)' /\ proxy'[o] # "none"
      <3>1. EndsHeld(o)' <=> (p = o \/ EndsHeld(o))
        BY <1>1, <1>3, <2>2 DEF EndsHeld, Requests, RefCommands
      <3>2. proxy'[o] = IF p = o THEN "live" ELSE proxy[o]
        BY <1>1, <2>2
      <3> QED
        BY <3>1, <3>2
    <2> QED
      BY <1>5, <2>1, <2>2 DEF Ensure
  <1>6. ASSUME NEW cmd, Received(cmd)
        PROVE  Head(toClient).kids \in SUBSET Object
    <2>1. Head(toClient) \in UpdateSet
      BY <1>6, HeadTailProperties DEF Received, WireTypeOK
    <2> QED
      BY <2>1 DEF UpdateSet
  <1>7. CASE Receive
    <2>1. CASE ReceiveRoot \/ ReceiveEmit \/ ReceiveReturn
      <3>1. \E S \in SUBSET Object : Ensure(S)
        BY <1>6, <2>1, WireAssumption DEF ReceiveRoot, ReceiveEmit, ReceiveReturn
      <3> QED
        BY <1>5, <3>1
    <2>2. CASE ReceiveReset \/ ReceiveAnswer
      BY <1>2, <2>2 DEF ReceiveReset, ReceiveAnswer
    <2> QED
      BY <1>7, <2>1, <2>2 DEF Receive
  <1>8. ASSUME NEW p \in Object, NEW cmd \in Requests \ RefCommands,
               NEW args \in SUBSET Object,
               toBackend' = Append(toBackend, Request(cmd, p, args))
        PROVE  EndsHeld(o)' <=> EndsHeld(o)
    BY <1>1, <1>3, <1>8 DEF EndsHeld
  <1>9. CASE \E p \in Object : ReadAndBlock(p)
    BY <1>8, <1>9 DEF ReadAndBlock, Requests, RefCommands
  <1>10. CASE \E p, k \in Object : ReadChild(p, k)
    <2>1. \E k \in Object : Ensure({k})
      BY <1>10 DEF ReadChild
    <2> QED
      BY <1>5, <2>1
  <1>11. CASE \E p \in Object, args \in Parameters : Invoke(p, args)
    BY <1>8, <1>11 DEF Invoke, Requests, RefCommands, proxyVars, Parameters
  <1>12. ASSUME NEW p \in Object, Create(p)
         PROVE  \/ /\ EndsHeld(o)' <=> EndsHeld(o)
                   /\ proxy'[o] = "none" <=> proxy[o] = "none"
                \/ EndsHeld(o)' /\ proxy'[o] # "none"
    <2>1. EndsHeld(o)' <=> (p = o \/ EndsHeld(o))
      BY <1>1, <1>3, <1>12 DEF Create, EndsHeld, Requests, RefCommands
    <2>2. proxy'[o] = IF p = o THEN "live" ELSE proxy[o]
      BY <1>1, <1>12 DEF Create
    <2> QED
      BY <2>1, <2>2
  <1>13. CASE \E p \in Object : JSCollect(p)
    BY <1>1, <1>2, <1>13 DEF JSCollect, wireVars
  <1>14. ASSUME NEW p \in Object, Destroy(p)
         PROVE  \/ /\ EndsHeld(o)' <=> EndsHeld(o)
                   /\ proxy'[o] = "none" <=> proxy[o] = "none"
                \/ ~EndsHeld(o)' /\ proxy'[o] = "none"
    <2>1. PICK mid \in Seq(RequestSet) :
            /\ mid \in WithCall(toBackend, p)
            /\ toBackend' = Append(mid, Request("OBJECT_DEREF", p, {}))
      BY <1>14, DestroyAppends
    <2>2. EndsHeld(o)' <=> (p # o /\ EndsHeld(o))
      BY <1>1, <1>3, <1>4, <2>1 DEF EndsHeld, Requests, RefCommands
    <2>3. proxy'[o] = IF p = o THEN "none" ELSE proxy[o]
      BY <1>1, <1>14 DEF Destroy
    <2> QED
      BY <2>2, <2>3
  <1>15. ASSUME NEW p \in Object, DestroyOrphan(p)
         PROVE  (EndsHeld(o)' <=> EndsHeld(o)) /\ UNCHANGED proxy
    BY <1>1, <1>4, <1>15, LastCallAppended DEF DestroyOrphan, EndsHeld
  <1> QED
    BY <1>7, <1>9, <1>10, <1>11, <1>12, <1>13, <1>14, <1>15 DEF Client, Engine

OnlyProxiesHold == \A o \in Object \ {Root} : EndsHeld(o) => proxy[o] # "none"

LEMMA HoldsIsLeakless == TypeOK => (NoLeakedReference <=> OnlyProxiesHold)
  BY WillBeIsWillHold DEF TypeOK, NoLeakedReference, OnlyProxiesHold, EndsHeld

LEMMA InitLeakless == Init => OnlyProxiesHold
  BY DEF Init, RegistryInit, OnlyProxiesHold, EndsHeld, WillHold

LEMMA NextLeakless ==
  TypeOK /\ HeldIsRegistered /\ OnlyProxiesHold /\ [Next]_vars => OnlyProxiesHold'
  <1> SUFFICES ASSUME TypeOK, HeldIsRegistered, OnlyProxiesHold, [Next]_vars,
                      NEW o \in Object \ {Root}, EndsHeld(o)'
               PROVE  proxy'[o] # "none"
    BY DEF OnlyProxiesHold
  <1>1. CASE Backend /\ UNCHANGED proxyVars
    BY <1>1, BackendHolds DEF OnlyProxiesHold, proxyVars
  <1>2. CASE Client /\ UNCHANGED registryVars
    BY <1>2, ClientHolds DEF OnlyProxiesHold
  <1>3. CASE UNCHANGED vars
    BY <1>3 DEF vars, wireVars, registryVars, objectVars, proxyVars, OnlyProxiesHold, EndsHeld
  <1> QED
    BY <1>1, <1>2, <1>3 DEF Next

\* A reference that the backend holds, or will hold once it has handled what is
\* in flight, always belongs to a proxy that will give it back, in whatever order
\* the engine replaces and deletes proxies (ensureJSObject, removeObject).
THEOREM NothingLeaks == Spec => []NoLeakedReference
  <1>1. TypeOK /\ OnlyProxiesHold => NoLeakedReference
    BY HoldsIsLeakless
  <1> QED
    BY <1>1, TypeCorrect, HeldRegistered, InitLeakless, NextLeakless, PTL DEF Spec

-----------------------------------------------------------------------------
\* What a collection spares.

Guarded(o) == o \in ref \/ refCount[o] >= 1 \/ grace[o] > 0
Spared(o)  == o \in registered /\ Guarded(o)
Counted(o) == o \in registered /\ refCount[o] >= 1

LEMMA RefsChangedGuards ==
  ASSUME RegistryTypeOK, NEW S, NEW r, NEW o \in Object, grace' = RefsChanged(S, r)
  PROVE  /\ grace[o] > 0 => grace'[o] > 0
         /\ o \in S => o \in r \/ refCount[o] >= 1 \/ grace'[o] > 0
  BY RegistryAssumption DEF RefsChanged, RegistryTypeOK

\* The counts do not go down while the application only adds children.
LEMMA MarshalGuards ==
  ASSUME RegistryTypeOK, KeepsChildren, NEW o \in Object, NEW kids \in SUBSET Object,
         Marshal(o, kids), NEW k \in Object
  PROVE  /\ refCount[k] >= 1 => refCount'[k] >= 1
         /\ grace[k] > 0 => grace'[k] > 0
         /\ k \in kids => k \in refChildren'[o]
  <1>1. refCount'[k] = IF k \in kids \ refChildren[o] THEN refCount[k] + 1
                       ELSE IF k \in refChildren[o] \ kids THEN refCount[k] - 1
                       ELSE refCount[k]
    BY RecountNets DEF Marshal
  <1>2. refChildren[o] \subseteq kids /\ refCount[k] \in Int
    BY DEF Marshal, RegistryTypeOK
  <1>3. refCount[k] >= 1 => refCount'[k] >= 1
    BY <1>1, <1>2
  <1>4. grace[k] > 0 => grace'[k] > 0
    BY RefsChangedGuards DEF Marshal
  <1>5. refChildren'[o] = kids
    BY RecountNets DEF Marshal, RegistryTypeOK
  <1> QED
    BY <1>3, <1>4, <1>5

LEMMA GuardedIsSpared ==
  ASSUME NEW reg, Sweep(reg) \/ registered' = reg, NEW o \in reg, Guarded(o)'
  PROVE  Spared(o)'
  BY DEF Sweep, Guarded, Spared

LEMMA CountedIsSpared ==
  ASSUME NEW reg, Sweep(reg) \/ registered' = reg, NEW o \in reg, refCount'[o] >= 1
  PROVE  Counted(o)'
  BY DEF Sweep, Counted

\* Only time makes an object that is spared one that is not.
LEMMA BackendSpares ==
  ASSUME TypeOK, HeldIsRegistered, KeepsChildren, Backend, NEW o \in Object
  PROVE  /\ Counted(o) => Counted(o)'
         /\ ~Clock /\ Spared(o) => Spared(o)'
  <1> USE DEF TypeOK
  <1> DEFINE Goal == /\ Counted(o) => Counted(o)'
                     /\ Spared(o) => Spared(o)'
  <1>1. ASSUME NEW reg, registered \subseteq reg, Sweep(reg) \/ registered' = reg,
               refCount[o] >= 1 => refCount'[o] >= 1,
               Guarded(o) => Guarded(o)'
        PROVE  Goal
    <2>1. Counted(o) => o \in reg /\ refCount'[o] >= 1
      BY <1>1 DEF Counted
    <2>2. Spared(o) => o \in reg /\ Guarded(o)'
      BY <1>1 DEF Spared
    <2> QED
      BY <1>1, <2>1, <2>2, CountedIsSpared, GuardedIsSpared
  <1>2. ASSUME NEW reg, registered \subseteq reg, Sweep(reg) \/ registered' = reg,
               UNCHANGED refCount, ref \subseteq ref',
               grace[o] > 0 => grace'[o] > 0
        PROVE  Goal
    BY <1>1, <1>2 DEF Guarded
  <1>3. ASSUME NEW p \in Object, NEW kids \in SUBSET Object, Marshal(p, kids),
               ref \subseteq ref',
               Sweep(registered \cup kids) \/ registered' = registered \cup kids
        PROVE  Goal
    <2>1. /\ refCount[o] >= 1 => refCount'[o] >= 1
          /\ grace[o] > 0 => grace'[o] > 0
      BY <1>3, MarshalGuards
    <2>2. Guarded(o) => Guarded(o)'
      BY <1>3, <2>1 DEF Guarded
    <2> QED
      BY <1>1, <1>3, <2>1, <2>2
  <1>4. ASSUME UNCHANGED <<registered, ref, refCount, grace>>
        PROVE  Goal
    BY <1>4 DEF Counted, Spared, Guarded
  <1> HIDE DEF Goal
  <1>5. ASSUME HandleRef
        PROVE  Goal
    <2>1. /\ registered \subseteq registered /\ Sweep(registered)
          /\ UNCHANGED <<refCount, grace>> /\ ref \subseteq ref'
      BY <1>5 DEF HandleRef
    <2> QED
      BY <1>2, <2>1
  <1>6. ASSUME HandleDeref
        PROVE  Goal
    <2>1. /\ Sweep(registered) /\ UNCHANGED refCount
          /\ ref' = ref \ ({Named} \cap registered)
          /\ grace' = RefsChanged({Named} \cap registered, ref')
      BY <1>6 DEF HandleDeref
    <2>2. Guarded(o) => Guarded(o)'
      BY <2>1, RefsChangedGuards DEF Guarded
    <2> QED
      BY <1>1, <2>1, <2>2
  <1>7. ASSUME NEW kids \in SUBSET Object, HandleQuery(kids)
        PROVE  Goal
    <2>1. Named \in Object
      BY <1>7, DequeueTakesHead DEF HandleQuery
    <2> QED
      BY <1>3, <1>7, <2>1 DEF HandleQuery
  <1>8. ASSUME HandleQueryUnsent \/ HandleUnknown
        PROVE  Goal
    BY <1>2, <1>8 DEF HandleQueryUnsent, HandleUnknown
  <1>9. ASSUME HandleCreate
        PROVE  Goal
    <2>1. grace[o] > 0 => grace'[o] > 0
      BY <1>9, RefsChangedGuards DEF HandleCreate
    <2> QED
      BY <1>2, <1>9, <2>1 DEF HandleCreate
  <1>10. ASSUME HandleInvoke \/ HandleInvokeUnknownArgument
        PROVE  Goal
    BY <1>4, <1>10 DEF HandleInvoke, HandleInvokeUnknownArgument, objectVars
  <1>11. ASSUME NEW kids \in SUBSET Object, Greet(kids)
         PROVE  Goal
    BY <1>3, <1>11, WireAssumption DEF Greet
  <1>12. ASSUME ProcessBegin \/ ProcessReturn
        PROVE  Goal
    BY <1>4, <1>12 DEF ProcessBegin, ProcessReturn, objectVars
  <1>13. ASSUME NEW kids, NEW asked, InvokeReturn(kids, asked)
         PROVE  Goal
    <2>1. grace[o] > 0 => grace'[o] > 0
      BY <1>13, RefsChangedGuards DEF InvokeReturn
    <2> QED
      BY <1>2, <1>13, <2>1 DEF InvokeReturn
  <1>14. ASSUME NEW p \in Object, InitObject(p)
         PROVE  Goal
    <2>1. grace[o] > 0 => grace'[o] > 0
      BY <1>14, RefsChangedGuards DEF InitObject
    <2> QED
      BY <1>2, <1>14, <2>1 DEF InitObject
  <1>15. ASSUME NEW p \in Object, NEW kids, Emit(p, kids)
         PROVE  Goal
    <2>1. grace[o] > 0 => grace'[o] > 0
      BY <1>15, RefsChangedGuards DEF Emit
    <2> QED
      BY <1>2, <1>15, <2>1 DEF Emit
  <1>16. ASSUME NEW p \in Object, NEW kids \in SUBSET Object, Changed(p, kids)
         PROVE  Goal
    BY <1>3, <1>16 DEF Changed
  <1>17. ASSUME Clock
         PROVE  Counted(o) => Counted(o)'
    BY <1>17 DEF Clock, Tick, Counted
  <1>18. Goal \/ Clock
    BY <1>5, <1>6, <1>7, <1>8, <1>9, <1>10, <1>11, <1>12, <1>13, <1>14, <1>15, <1>16
       DEF Backend, Handler, Return, Application
  <1> QED
    BY <1>17, <1>18 DEF Goal

\* Nobody but the handler of OBJECT_CREATE initializes an instance.
LEMMA BackendInits ==
  ASSUME TypeOK, Backend, NEW o \in Instance, o \in inited' \ inited
  PROVE  HandleCreate /\ o = Named
  <1> USE DEF TypeOK
  <1>1. o \notin Reachable
    BY DEF Reachable
  <1>2. ASSUME NEW p \in Object, NEW kids \in SUBSET Object, Marshal(p, kids)
        PROVE  FALSE
    BY <1>1, <1>2 DEF Marshal
  <1>3. ~(\E kids \in SUBSET Object : HandleQuery(kids))
    <2> SUFFICES ASSUME NEW kids \in SUBSET Object, HandleQuery(kids) PROVE FALSE
      OBVIOUS
    <2>1. Named \in Object
      BY DequeueTakesHead DEF HandleQuery
    <2> QED
      BY <1>2, <2>1 DEF HandleQuery
  <1>4. ~(\E kids \in SUBSET Object : Greet(kids))
    BY <1>2, WireAssumption DEF Greet
  <1>5. ~Application /\ ~Return
    BY <1>1, <1>2 DEF Application, Return, InitObject, Emit, Changed, InvokeReturn
  <1>6. ~(HandleRef \/ HandleDeref \/ HandleQueryUnsent \/ HandleUnknown)
    BY DEF HandleRef, HandleDeref, HandleQueryUnsent, HandleUnknown
  <1>7. ~(\/ HandleInvoke \/ HandleInvokeUnknownArgument
          \/ ProcessBegin \/ ProcessReturn \/ Clock)
    BY DEF HandleInvoke, HandleInvokeUnknownArgument, ProcessBegin, ProcessReturn, Clock,
           Tick, objectVars
  <1>8. HandleCreate
    BY <1>3, <1>4, <1>5, <1>6, <1>7 DEF Backend, Handler
  <1> QED
    BY <1>8 DEF HandleCreate

-----------------------------------------------------------------------------
\* What the requests in flight name is there when they are handled, and what the
\* updates in flight mention is still there when the plugin has them.

Creates(msg, o) == msg.cmd = "OBJECT_CREATE" /\ msg.id = o
Mentions(msg)   == {msg.id} \cup msg.kids

\* An instance is named once before it exists, by the request that creates it;
\* everything else that is named is spared, or created by an earlier request.
ServedAt(seq, n) ==
  \/ /\ seq[n].cmd = "OBJECT_CREATE"
     /\ seq[n].id \in Instance \ inited
     /\ seq[n].kids = {}
     /\ \A j \in 1..Len(seq) : Creates(seq[j], seq[n].id) => j = n
  \/ /\ seq[n].cmd # "OBJECT_CREATE"
     /\ \A o \in Mentions(seq[n]) :
          Spared(o) \/ \E j \in 1..Len(seq) : j < n /\ Creates(seq[j], o)
Served(seq) == \A n \in 1..Len(seq) : ServedAt(seq, n)

\* The data of an object holds what is counted for it; parameters and values have
\* a grace period, or something better.
Marshaled(msg) == msg.cmd \in {"ROOT", "OBJECT_RESET"}
DeliveredMsg(msg) == \A o \in msg.kids : IF Marshaled(msg) THEN Counted(o) ELSE Spared(o)
Delivered(seq) == \A n \in 1..Len(seq) : DeliveredMsg(seq[n])

LEMMA CountedSpared == \A o : Counted(o) => Spared(o)
  BY DEF Counted, Spared, Guarded

LEMMA RequestElement ==
  ASSUME NEW seq \in Seq(RequestSet), NEW n \in 1..Len(seq)
  PROVE  /\ seq[n].id \in Object
         /\ Mentions(seq[n]) \subseteq Object
  <1>1. seq[n] \in RequestSet
    BY ElementOfSeq
  <1> QED
    BY <1>1 DEF RequestSet, Mentions

LEMMA ServedHandled ==
  ASSUME TypeOK, NEW cmd, Dequeue(cmd), Served(toBackend),
         \A o \in Object : Spared(o) => Spared(o)',
         \A o \in Instance : o \in inited' \ inited => Creates(Head(toBackend), o),
         \A o \in Object : Creates(Head(toBackend), o) => Spared(o)'
  PROVE  /\ Served(toBackend)'
         /\ \A o \in Object : BeingCreated(o) => BeingCreated(o)' \/ Spared(o)'
  <1> USE DEF TypeOK
  <1>1. PICK seq \in Seq(RequestSet) : seq = toBackend
    BY DEF WireTypeOK
  <1>2. PICK t \in Seq(RequestSet) : t = toBackend'
    BY DequeueTakesHead
  <1>3. PICK k \in Nat : k = Len(t)
    OBVIOUS
  <1>4. /\ Len(seq) = k + 1
        /\ Head(seq) = seq[1]
        /\ \A n \in 1..k : n + 1 \in 1..Len(seq) /\ t[n] = seq[n + 1]
    <2>1. t = Tail(seq) /\ seq # <<>>
      BY <1>1, <1>2, DequeueTakesHead
    <2> QED
      BY <1>3, <2>1, HeadTailProperties
  <1>5. \A n \in 1..Len(seq) : n = 1 \/ \E j \in 1..k : n = j + 1
    <2>1. \A n \in 1..Len(seq) : n # 1 => (n - 1) \in 1..k /\ n = (n - 1) + 1
      BY <1>4
    <2> QED
      BY <2>1
  <1>6. \A o \in Object : Creates(seq[1], o) => Spared(o)'
    BY <1>1, <1>4
  <1>7. ASSUME NEW n \in 1..k
        PROVE  ServedAt(t, n)'
    <2>1. ServedAt(seq, n + 1)
      BY <1>1, <1>4 DEF Served
    <2>2. CASE t[n].cmd = "OBJECT_CREATE"
      <3>1. /\ t[n].id \in Instance \ inited /\ t[n].kids = {}
            /\ \A j \in 1..Len(seq) : Creates(seq[j], t[n].id) => j = n + 1
        BY <1>4, <2>1, <2>2 DEF ServedAt
      <3>2. ~Creates(seq[1], t[n].id)
        BY <1>4, <3>1
      <3>3. t[n].id \notin inited'
        BY <1>1, <1>4, <3>1, <3>2
      <3>4. \A j \in 1..Len(t) : Creates(t[j], t[n].id) => j = n
        BY <1>3, <1>4, <3>1
      <3> QED
        BY <1>3, <2>2, <3>1, <3>3, <3>4 DEF ServedAt
    <2>3. CASE t[n].cmd # "OBJECT_CREATE"
      <3>1. Mentions(t[n]) \subseteq Object
        BY <1>3, RequestElement
      <3>2. ASSUME NEW o \in Mentions(t[n])
            PROVE  Spared(o)' \/ \E j \in 1..Len(t) : j < n /\ Creates(t[j], o)
        <4>1. CASE Spared(o)
          BY <3>1, <4>1
        <4>2. ASSUME NEW j \in 1..Len(seq), j < n + 1, Creates(seq[j], o)
              PROVE  Spared(o)' \/ \E i \in 1..Len(t) : i < n /\ Creates(t[i], o)
          <5>1. CASE j = 1
            BY <1>6, <3>1, <4>2, <5>1
          <5>2. ASSUME NEW i \in 1..k, j = i + 1
                PROVE  i \in 1..Len(t) /\ i < n /\ Creates(t[i], o)
            BY <1>3, <1>4, <4>2, <5>2
          <5> QED
            BY <1>5, <5>1, <5>2
        <4> QED
          BY <1>4, <2>1, <2>3, <4>1, <4>2 DEF ServedAt
      <3> QED
        BY <2>3, <3>2 DEF ServedAt
    <2> QED
      BY <2>2, <2>3
  <1>8. Served(toBackend)'
    BY <1>2, <1>3, <1>7 DEF Served
  <1>9. ASSUME NEW o \in Object, BeingCreated(o)
        PROVE  BeingCreated(o)' \/ Spared(o)'
    <2>1. PICK j \in 1..Len(seq) : Creates(seq[j], o)
      BY <1>1, <1>9 DEF BeingCreated, Creates
    <2>2. CASE j = 1
      BY <1>6, <2>1, <2>2
    <2>3. ASSUME NEW i \in 1..k, j = i + 1
          PROVE  BeingCreated(o)'
      BY <1>2, <1>3, <1>4, <2>1, <2>3 DEF BeingCreated, Creates
    <2> QED
      BY <1>5, <2>2, <2>3
  <1> QED
    BY <1>8, <1>9

LEMMA ServedUntouched ==
  ASSUME TypeOK, Served(toBackend), UNCHANGED toBackend,
         \A o \in Object : Spared(o) => Spared(o)',
         \A o \in Instance : o \notin inited' \ inited
  PROVE  /\ Served(toBackend)'
         /\ \A o : BeingCreated(o) => BeingCreated(o)'
  <1>1. PICK seq \in Seq(RequestSet) : seq = toBackend
    BY DEF TypeOK, WireTypeOK
  <1>2. ASSUME NEW n \in 1..Len(seq)
        PROVE  ServedAt(seq, n)'
    <2>1. ServedAt(seq, n) /\ Mentions(seq[n]) \subseteq Object
      BY <1>1, RequestElement DEF Served
    <2> QED
      BY <2>1 DEF ServedAt
  <1> QED
    BY <1>1, <1>2 DEF Served, BeingCreated

\* What the head of the stream names.
LEMMA HeadServed ==
  ASSUME TypeOK, NEW cmd, Dequeue(cmd), Served(toBackend)
  PROVE  IF cmd = "OBJECT_CREATE" THEN Named \in Instance \ inited
         ELSE Spared(Named) /\ \A o \in Head(toBackend).kids : Spared(o)
  <1>1. /\ Head(toBackend) = toBackend[1] /\ 1 \in 1..Len(toBackend)
        /\ Head(toBackend).cmd = cmd /\ Named = Head(toBackend).id
    BY DequeueTakesHead DEF TypeOK
  <1>2. ServedAt(toBackend, 1)
    BY <1>1 DEF Served
  <1>3. \A j \in 1..Len(toBackend) : ~(j < 1)
    OBVIOUS
  <1> QED
    BY <1>1, <1>2, <1>3 DEF ServedAt, Mentions

LEMMA DeliveredTyped ==
  ASSUME TypeOK, NEW n \in 1..Len(toClient)
  PROVE  toClient[n].kids \subseteq Object /\ toClient[n].id \in Object
  <1>1. toClient[n] \in UpdateSet
    BY ElementOfSeq DEF TypeOK, WireTypeOK
  <1> QED
    BY <1>1 DEF UpdateSet

LEMMA MsgStaysDelivered ==
  ASSUME NEW msg, msg.kids \subseteq Object, DeliveredMsg(msg),
         \A o \in Object : (Spared(o) => Spared(o)') /\ (Counted(o) => Counted(o)')
  PROVE  DeliveredMsg(msg)'
  BY DEF DeliveredMsg

-----------------------------------------------------------------------------
\* The invariant of the two sides.

AskedFor == \A o \in Object \ {Root} : proxy[o] # "none" => EndsHeld(o)

ProxiesSpared ==
  /\ proxy[Root] # "none" => Root \in ref
  /\ \A o \in orphans : proxy[o] # "none"
  /\ \A o \in Object : proxy[o] # "none" => Spared(o) \/ BeingCreated(o)
  /\ \A o \in Object : \A k \in view[o] : Counted(k)

Leased == AskedFor /\ Served(toBackend) /\ Delivered(toClient) /\ ProxiesSpared /\ NeverFails

LEMMA InitLeased == Init => Leased
  <1> SUFFICES ASSUME Init PROVE Leased
    OBVIOUS
  <1>1. toBackend = <<>> /\ toClient = <<>> /\ health = "ok"
    BY DEF Init, RegistryInit
  <1>2. \A o \in Object : proxy[o] = "none" /\ view[o] = {}
    BY DEF Init, ProxiesInit
  <1>3. orphans = {}
    BY DEF Init, ProxiesInit
  <1> QED
    BY <1>1, <1>2, <1>3, WireAssumption
       DEF Leased, AskedFor, Served, Delivered, ProxiesSpared, NeverFails

\* No handler finds what it was not told of.
LEMMA BackendOk ==
  ASSUME TypeOK, Leased, Backend
  PROVE  NeverFails'
  <1>1. ASSUME NEW cmd, Dequeue(cmd)
        PROVE  IF cmd = "OBJECT_CREATE" THEN Named \notin registered
               ELSE Named \in registered /\ Head(toBackend).kids \subseteq registered
    <2>1. IF cmd = "OBJECT_CREATE" THEN Named \in Instance \ inited
          ELSE Spared(Named) /\ \A o \in Head(toBackend).kids : Spared(o)
      BY <1>1, HeadServed DEF Leased
    <2> QED
      BY <2>1 DEF TypeOK, RegistryTypeOK, Spared
  <1>2. ~HandleUnknown
    BY <1>1 DEF HandleUnknown
  <1>3. ~HandleInvokeUnknownArgument
    BY <1>1 DEF HandleInvokeUnknownArgument
  <1>4. HandleCreate => UNCHANGED health
    BY <1>1 DEF HandleCreate
  <1>5. CASE HandleRef \/ HandleDeref \/ HandleQueryUnsent \/ HandleInvoke
               \/ \E kids \in SUBSET Object : HandleQuery(kids)
    BY <1>5 DEF HandleRef, HandleDeref, HandleQueryUnsent, HandleInvoke, HandleQuery,
                Leased, NeverFails
  <1>6. CASE (\E kids \in SUBSET Object : Greet(kids)) \/ ProcessBegin \/ ProcessReturn
               \/ Return \/ Application \/ Clock
    BY <1>6 DEF Greet, ProcessBegin, ProcessReturn, Return, InvokeReturn, Application,
                InitObject, Emit, Changed, Clock, Tick, processVars, Leased, NeverFails
  <1> QED
    BY <1>2, <1>3, <1>4, <1>5, <1>6 DEF Backend, Handler, Leased, NeverFails

LEMMA CreateSpares ==
  ASSUME TypeOK, Leased, HandleCreate
  PROVE  \A o \in Object : Creates(Head(toBackend), o) => Spared(o)'
  <1>1. Dequeue("OBJECT_CREATE")
    BY DEF HandleCreate
  <1>2. Named \in Instance \ inited
    BY <1>1, HeadServed DEF Leased
  <1>3. Named \notin registered
    BY <1>2 DEF TypeOK, RegistryTypeOK
  <1>4. ref' = ref \cup {Named} /\ Sweep(registered \cup {Named})
    BY <1>3 DEF HandleCreate
  <1>5. PICK o : o = Named
    OBVIOUS
  <1>6. Spared(o)'
    BY <1>4, <1>5, GuardedIsSpared DEF Guarded
  <1> QED
    BY <1>5, <1>6 DEF Creates, Named

\* The stream and the proxies it is about, after a step that takes no time.
LEMMA BackendServes ==
  ASSUME TypeOK, HeldIsRegistered, KeepsChildren, Leased, Backend, ~Clock
  PROVE  /\ Served(toBackend)'
         /\ \A o \in Object : BeingCreated(o) => BeingCreated(o)' \/ Spared(o)'
  <1>1. \A o \in Object : Spared(o) => Spared(o)'
    BY BackendSpares
  <1>2. Served(toBackend)
    BY DEF Leased
  <1>3. CASE HandleCreate
    <2>1. Dequeue("OBJECT_CREATE")
      BY <1>3 DEF HandleCreate
    <2>2. \A o \in Instance : o \in inited' \ inited => Creates(Head(toBackend), o)
      BY <1>3, <2>1, BackendInits, DequeueTakesHead DEF Creates, TypeOK
    <2>3. \A o \in Object : Creates(Head(toBackend), o) => Spared(o)'
      BY <1>3, CreateSpares
    <2> QED
      BY <1>1, <1>2, <2>1, <2>2, <2>3, ServedHandled
  <1>4. CASE ~HandleCreate
    <2>1. \A o \in Instance : o \notin inited' \ inited
      BY <1>4, BackendInits
    <2>2. ASSUME NEW cmd, Dequeue(cmd), cmd # "OBJECT_CREATE"
          PROVE  /\ Served(toBackend)'
                 /\ \A o \in Object : BeingCreated(o) => BeingCreated(o)' \/ Spared(o)'
      <3>1. \A o : ~Creates(Head(toBackend), o)
        BY <2>2, DequeueTakesHead DEF Creates, TypeOK
      <3> QED
        BY <1>1, <1>2, <2>1, <2>2, <3>1, ServedHandled
    <2>3. CASE Handler
      <3>1. \/ Dequeue("OBJECT_REF") \/ Dequeue("OBJECT_DEREF")
            \/ Dequeue("OBJECT_QUERY") \/ Dequeue("INVOKE")
        BY <1>4, <2>3 DEF Handler, HandleRef, HandleDeref, HandleQuery, HandleQueryUnsent,
              HandleUnknown, HandleInvoke, HandleInvokeUnknownArgument
      <3> QED
        BY <2>2, <3>1
    <2>4. CASE ~Handler
      <3>1. UNCHANGED toBackend
        BY <2>4 DEF Backend, Greet, ProcessBegin, ProcessReturn, Return, InvokeReturn,
              Application, InitObject, Emit, Changed, wireVars
      <3> QED
        BY <1>1, <1>2, <2>1, <3>1, ServedUntouched
    <2> QED
      BY <2>3, <2>4
  <1> QED
    BY <1>3, <1>4

LEMMA BackendDelivers ==
  ASSUME TypeOK, HeldIsRegistered, MentionedIsCounted', KeepsChildren, Leased,
         Backend, ~Clock
  PROVE  Delivered(toClient)'
  <1> USE DEF TypeOK
  <1>1. \A o \in Object : (Spared(o) => Spared(o)') /\ (Counted(o) => Counted(o)')
    BY BackendSpares
  <1>2. PICK seq \in Seq(UpdateSet) : seq = toClient
    BY DEF WireTypeOK
  <1>3. ASSUME NEW n \in 1..Len(seq)
        PROVE  DeliveredMsg(seq[n])'
    <2>1. DeliveredMsg(seq[n]) /\ seq[n].kids \subseteq Object
      BY <1>2, DeliveredTyped DEF Leased, Delivered
    <2> QED
      BY <1>1, <2>1, MsgStaysDelivered
  <1>4. UNCHANGED toClient => Delivered(toClient)'
    BY <1>2, <1>3 DEF Delivered
  <1>5. ASSUME NEW cmd \in Updates, NEW o \in Object, NEW kids \in SUBSET Object,
               toClient' = Append(toClient, Update(cmd, o, kids, Omitted(kids))),
               \A k \in kids : IF cmd \in {"ROOT", "OBJECT_RESET"} THEN Counted(k)'
                               ELSE Spared(k)'
        PROVE  Delivered(toClient)'
    <2>1. PICK msg \in UpdateSet : msg = Update(cmd, o, kids, Omitted(kids))
      BY UpdateTyped
    <2>2. msg.kids = kids /\ msg.cmd = cmd
      BY <2>1 DEF Update
    <2>3. DeliveredMsg(msg)'
      BY <1>5, <2>2 DEF DeliveredMsg, Marshaled
    <2>4. PICK s \in Seq(UpdateSet) : s = Append(seq, msg)
      BY AppendProperties
    <2>5. /\ Len(s) = Len(seq) + 1 /\ s[Len(seq) + 1] = msg
          /\ \A n \in 1..Len(seq) : s[n] = seq[n]
      BY <2>4, AppendProperties
    <2>6. \A n \in 1..Len(s) : DeliveredMsg(s[n])'
      <3>1. \A n \in 1..Len(s) : n \in 1..Len(seq) \/ n = Len(seq) + 1
        BY <2>5
      <3> QED
        BY <1>3, <2>3, <2>5, <3>1
    <2>7. toClient' = s
      BY <1>2, <1>5, <2>1, <2>4
    <2> QED
      BY <2>6, <2>7 DEF Delivered
  <1>6. ASSUME NEW o \in Object, NEW kids \in SUBSET Object, Marshal(o, kids),
               Sweep(registered \cup kids) \/ registered' = registered \cup kids,
               NEW k \in kids
        PROVE  Counted(k)'
    <2>1. k \in refChildren'[o]
      BY <1>6, MarshalGuards
    <2>2. refCount'[k] >= 1
      BY <2>1 DEF MentionedIsCounted
    <2> QED
      BY <1>6, <2>2, CountedIsSpared
  <1>7. ASSUME NEW kids \in Parameters, NEW S \in SUBSET Object, kids \subseteq S,
               UNCHANGED <<ref, refCount>>, grace' = RefsChanged(S, ref),
               Sweep(registered \cup kids) \/ registered' = registered \cup kids,
               NEW k \in kids
        PROVE  Spared(k)'
    <2>1. k \in Object /\ k \in S
      BY <1>7 DEF Parameters
    <2>2. Guarded(k)'
      BY <1>7, <2>1, RefsChangedGuards DEF Guarded
    <2> QED
      BY <1>7, <2>2, GuardedIsSpared
  <1>8. ASSUME NEW kids \in SUBSET Object, HandleQuery(kids)
        PROVE  Delivered(toClient)'
    <2>1. /\ Dequeue("OBJECT_QUERY") /\ Marshal(Named, kids) /\ Sweep(registered \cup kids)
          /\ toClient' = Append(toClient, Update("OBJECT_RESET", Named, kids, Omitted(kids)))
      BY <1>8 DEF HandleQuery
    <2>2. Named \in Object /\ "OBJECT_RESET" \in Updates
      BY <2>1, DequeueTakesHead DEF Updates
    <2>3. \A k \in kids : Counted(k)'
      BY <1>6, <2>1, <2>2
    <2> QED
      BY <1>5, <2>1, <2>2, <2>3
  <1>9. ASSUME NEW kids \in SUBSET Object, Greet(kids)
        PROVE  Delivered(toClient)'
    <2>1. /\ Marshal(Root, kids) /\ registered' = registered \cup kids
          /\ toClient' = Append(toClient, Update("ROOT", Root, kids, Omitted(kids)))
      BY <1>9 DEF Greet
    <2>2. Root \in Object /\ "ROOT" \in Updates
      BY WireAssumption DEF Updates
    <2>3. \A k \in kids : Counted(k)'
      BY <1>6, <2>1, <2>2
    <2> QED
      BY <1>5, <2>1, <2>2, <2>3
  <1>10. ASSUME NEW o \in Object, NEW kids \in SUBSET Object, Changed(o, kids)
         PROVE  Delivered(toClient)'
    <2>1. /\ Marshal(o, kids) /\ registered' = registered \cup kids
          /\ toClient' = Append(toClient, Update("OBJECT_RESET", o, kids, Omitted(kids)))
      BY <1>10 DEF Changed
    <2>2. \A k \in kids : Counted(k)'
      BY <1>6, <2>1
    <2> QED
      BY <1>5, <2>1, <2>2 DEF Updates
  <1>11. ASSUME NEW o \in Object, NEW kids \in Parameters, Emit(o, kids)
         PROVE  Delivered(toClient)'
    <2>1. /\ UNCHANGED <<ref, refCount>> /\ grace' = RefsChanged(kids, ref)
          /\ registered' = registered \cup kids
          /\ toClient' = Append(toClient, Update("EMIT", o, kids, Omitted(kids)))
      BY <1>11 DEF Emit
    <2>2. kids \in SUBSET Object
      BY DEF Parameters
    <2>3. \A k \in kids : Spared(k)'
      BY <1>7, <2>1, <2>2
    <2> QED
      BY <1>5, <2>1, <2>2, <2>3 DEF Updates
  <1>12. ASSUME NEW kids \in Parameters, NEW asked \in BOOLEAN, InvokeReturn(kids, asked)
         PROVE  Delivered(toClient)'
    <2>1. CASE ~asked
      BY <1>4, <1>12, <2>1 DEF InvokeReturn
    <2>2. CASE asked
      <3>1. /\ UNCHANGED <<ref, refCount>> /\ grace' = RefsChanged(kids, ref)
            /\ Sweep(registered \cup kids)
            /\ toClient' = Append(toClient,
                             Update("INVOKE_RETURN", serving, kids, Omitted(kids)))
        BY <1>12, <2>2 DEF InvokeReturn
      <3>2. kids \in SUBSET Object /\ serving \in Object
        BY <1>12 DEF InvokeReturn, Parameters, RegistryTypeOK
      <3>3. \A k \in kids : Spared(k)'
        BY <1>7, <3>1, <3>2
      <3> QED
        BY <1>5, <3>1, <3>2, <3>3 DEF Updates
    <2> QED
      BY <2>1, <2>2
  <1>13. CASE \/ HandleRef \/ HandleDeref \/ HandleQueryUnsent \/ HandleUnknown
              \/ HandleCreate \/ HandleInvoke \/ HandleInvokeUnknownArgument
              \/ ProcessBegin \/ ProcessReturn \/ \E o \in Object : InitObject(o)
    BY <1>4, <1>13 DEF HandleRef, HandleDeref, HandleQueryUnsent, HandleUnknown, HandleCreate,
       HandleInvoke, HandleInvokeUnknownArgument, ProcessBegin, ProcessReturn, InitObject,
       wireVars
  <1> QED
    BY <1>8, <1>9, <1>10, <1>11, <1>12, <1>13 DEF Backend, Handler, Return, Application

\* The backend does as it was told: it gives no reference up unasked, and finds
\* the object of every reference it is asked for.
LEMMA BackendKeeps ==
  ASSUME TypeOK, Leased, Backend, NEW o \in Object
  PROVE  EndsHeld(o) => EndsHeld(o)'
  <1> USE DEF TypeOK
  <1>1. ASSUME UNCHANGED toBackend, ref \subseteq ref'
        PROVE  EndsHeld(o) => EndsHeld(o)'
    BY <1>1, HoldWeaker DEF EndsHeld
  <1>2. ASSUME NEW cmd, Dequeue(cmd),
               (IF Says(Head(toBackend), o) THEN Takes(Head(toBackend)) ELSE o \in ref)
                 => o \in ref'
        PROVE  EndsHeld(o) => EndsHeld(o)'
    <2>1. /\ toBackend \in Seq(RequestSet) /\ toBackend # <<>>
          /\ toBackend' = Tail(toBackend)
      BY <1>2, DequeueTakesHead
    <2>2. PICK now : now = IF Says(Head(toBackend), o) THEN Takes(Head(toBackend))
                           ELSE o \in ref
      OBVIOUS
    <2>3. WillHold(Tail(toBackend), now, o) => EndsHeld(o)'
      BY <1>2, <2>1, <2>2, HoldWeaker DEF EndsHeld
    <2>4. WillHold(toBackend, o \in ref, o) <=> WillHold(Tail(toBackend), now, o)
      BY <2>1, <2>2, HoldHandled
    <2> QED
      BY <2>3, <2>4 DEF EndsHeld
  <1>3. ASSUME NEW cmd, Dequeue(cmd), ref \subseteq ref', cmd \notin RefCommands
        PROVE  EndsHeld(o) => EndsHeld(o)'
    <2>1. ~Says(Head(toBackend), o)
      BY <1>3, DequeueTakesHead DEF Says
    <2> QED
      BY <1>2, <1>3, <2>1
  <1>4. ASSUME NEW cmd, Dequeue(cmd), ref' = ref \cup {Named}
        PROVE  EndsHeld(o) => EndsHeld(o)'
    <2>1. Says(Head(toBackend), o) => o = Named
      BY <1>4, DequeueTakesHead DEF Says
    <2> QED
      BY <1>2, <1>4, <2>1
  <1>5. ASSUME NEW cmd, Dequeue(cmd)
        PROVE  IF cmd = "OBJECT_CREATE" THEN Named \notin registered ELSE Named \in registered
    <2>1. IF cmd = "OBJECT_CREATE" THEN Named \in Instance \ inited ELSE Spared(Named)
      BY <1>5, HeadServed DEF Leased
    <2> QED
      BY <2>1 DEF RegistryTypeOK, Spared
  <1>6. CASE HandleRef
    BY <1>4, <1>5, <1>6 DEF HandleRef
  <1>7. CASE HandleCreate
    BY <1>4, <1>5, <1>7 DEF HandleCreate
  <1>8. CASE HandleDeref
    <2>1. Dequeue("OBJECT_DEREF") /\ ref' = ref \ ({Named} \cap registered)
      BY <1>8 DEF HandleDeref
    <2>2. Head(toBackend).cmd = "OBJECT_DEREF" /\ Named = Head(toBackend).id
      BY <2>1, DequeueTakesHead
    <2>3. ~Takes(Head(toBackend)) /\ (~Says(Head(toBackend), o) => o # Named)
      BY <2>2 DEF Says, RefCommands, Takes
    <2> QED
      BY <1>2, <2>1, <2>3
  <1>9. CASE (\E kids \in SUBSET Object : HandleQuery(kids)) \/ HandleQueryUnsent
    BY <1>3, <1>9 DEF HandleQuery, HandleQueryUnsent, RefCommands
  <1>10. CASE HandleUnknown \/ HandleInvoke \/ HandleInvokeUnknownArgument
    BY <1>3, <1>10 DEF HandleUnknown, HandleInvoke, HandleInvokeUnknownArgument, objectVars,
                       RefCommands
  <1>11. CASE \E kids \in SUBSET Object : Greet(kids)
    BY <1>1, <1>11 DEF Greet
  <1>12. CASE ProcessBegin \/ ProcessReturn \/ Clock
    BY <1>1, <1>12 DEF ProcessBegin, ProcessReturn, Clock, Tick, objectVars, wireVars
  <1>13. CASE Return
    BY <1>1, <1>13 DEF Return, InvokeReturn
  <1>14. CASE Application
    BY <1>1, <1>14 DEF Application, InitObject, Emit, Changed, wireVars
  <1> QED
    BY <1>6, <1>7, <1>8, <1>9, <1>10, <1>11, <1>12, <1>13, <1>14 DEF Backend, Handler

LEMMA RootKept ==
  ASSUME TypeOK, RootStays, Backend, Root \in ref
  PROVE  Root \in ref'
  <1>1. CASE HandleDeref
    <2>1. Dequeue("OBJECT_DEREF") /\ ref' = ref \ ({Named} \cap registered)
      BY <1>1 DEF HandleDeref
    <2>2. Named # Root
      BY <2>1, DequeueTakesHead DEF TypeOK, RootStays, NeverGives
    <2> QED
      BY <2>1, <2>2
  <1>2. CASE ~HandleDeref
    BY <1>2 DEF Backend, Handler, HandleRef, HandleQuery, HandleQueryUnsent, HandleUnknown,
       HandleCreate, HandleInvoke, HandleInvokeUnknownArgument, Greet, ProcessBegin,
       ProcessReturn, Return, InvokeReturn, Application, InitObject, Emit, Changed, Clock,
       Tick, objectVars
  <1> QED
    BY <1>1, <1>2

LEMMA ClockLeased ==
  ASSUME TypeOK, HeldIsRegistered, Prompt, Leased, Clock, UNCHANGED proxyVars
  PROVE  Leased'
  <1>1. /\ toBackend = <<>> /\ UNCHANGED <<toBackend, toClient>> /\ toClient = <<>>
        /\ UNCHANGED <<registered, ref, refCount, health>>
    BY DEF Clock, Tick, wireVars
  <1>2. UNCHANGED <<proxy, orphans, view>>
    BY DEF proxyVars
  <1>3. AskedFor'
    BY <1>1, <1>2 DEF Leased, AskedFor, EndsHeld
  <1>4. Served(toBackend)' /\ Delivered(toClient)'
    BY <1>1 DEF Served, Delivered
  <1>5. ASSUME NEW o \in Object, proxy[o] # "none"
        PROVE  Spared(o)'
    <2>1. o = Root => o \in ref
      BY <1>5 DEF Leased, ProxiesSpared
    <2>2. o # Root => WillHold(<<>>, o \in ref, o)
      BY <1>1, <1>5 DEF Leased, AskedFor, EndsHeld
    <2>3. o \in ref
      BY <2>1, <2>2 DEF WillHold
    <2>4. o \in ref' /\ o \in registered'
      BY <1>1, <2>3 DEF HeldIsRegistered
    <2> QED
      BY <2>4 DEF Spared, Guarded
  <1>6. \A o \in Object : \A k \in view'[o] : Counted(k)'
    BY <1>1, <1>2 DEF Leased, ProxiesSpared, Counted
  <1>7. ProxiesSpared'
    BY <1>1, <1>2, <1>5, <1>6 DEF Leased, ProxiesSpared
  <1> QED
    BY <1>1, <1>3, <1>4, <1>7 DEF Leased, NeverFails

LEMMA BackendLeased ==
  ASSUME TypeOK, HeldIsRegistered, MentionedIsCounted', RootStays, KeepsChildren, Prompt,
         Leased, Backend, UNCHANGED proxyVars
  PROVE  Leased'
  <1>1. CASE Clock
    BY <1>1, ClockLeased
  <1>2. CASE ~Clock
    <2>1. UNCHANGED <<proxy, orphans, view>>
      BY DEF proxyVars
    <2>2. AskedFor'
      BY <2>1, BackendKeeps DEF Leased, AskedFor
    <2>3. Served(toBackend)' /\ Delivered(toClient)' /\ NeverFails'
      BY <1>2, BackendServes, BackendDelivers, BackendOk
    <2>4. \A o \in Object : (Spared(o) => Spared(o)') /\ (Counted(o) => Counted(o)')
      BY <1>2, BackendSpares
    <2>5. \A o \in Object : BeingCreated(o) => BeingCreated(o)' \/ Spared(o)'
      BY <1>2, BackendServes
    <2>6. \A o \in Object : view[o] \subseteq Object
      BY DEF TypeOK, ProxiesTypeOK
    <2>7. /\ proxy'[Root] # "none" => Root \in ref'
          /\ \A o \in orphans' : proxy'[o] # "none"
      BY <2>1, RootKept DEF Leased, ProxiesSpared
    <2>8. \A o \in Object : proxy'[o] # "none" => Spared(o)' \/ BeingCreated(o)'
      BY <2>1, <2>4, <2>5 DEF Leased, ProxiesSpared
    <2>9. \A o \in Object : \A k \in view'[o] : Counted(k)'
      BY <2>1, <2>4, <2>6 DEF Leased, ProxiesSpared
    <2> QED
      BY <2>2, <2>3, <2>7, <2>8, <2>9 DEF Leased, ProxiesSpared
  <1> QED
    BY <1>1, <1>2

-----------------------------------------------------------------------------
\* What the plugin does with what it was given.

\* An object the backend will find once it has handled seq.
Known(seq, o) == Spared(o) \/ \E j \in 1..Len(seq) : Creates(seq[j], o)

LEMMA KnownAppended ==
  ASSUME NEW seq \in Seq(RequestSet), NEW msg \in RequestSet
  PROVE  \A o : Known(seq, o) => Known(Append(seq, msg), o)
  BY AppendProperties DEF Known

LEMMA ServedAppended ==
  ASSUME NEW seq \in Seq(RequestSet), NEW msg \in RequestSet, Served(seq),
         \/ msg.cmd # "OBJECT_CREATE" /\ \A o \in Mentions(msg) : Known(seq, o)
         \/ /\ msg.cmd = "OBJECT_CREATE"
            /\ msg.id \in Instance \ inited
            /\ msg.kids = {}
            /\ \A j \in 1..Len(seq) : ~Creates(seq[j], msg.id)
  PROVE  Served(Append(seq, msg))
  <1>1. PICK s \in Seq(RequestSet) : s = Append(seq, msg)
    BY AppendProperties
  <1>2. PICK k \in Nat : k = Len(seq)
    OBVIOUS
  <1>3. /\ Len(s) = k + 1
        /\ s[k + 1] = msg
        /\ \A n \in 1..k : s[n] = seq[n]
    BY <1>1, <1>2, AppendProperties
  <1>4. \A n \in 1..Len(s) : n \in 1..k \/ n = k + 1
    BY <1>3
  <1>5. ASSUME NEW n \in 1..k
        PROVE  ServedAt(s, n)
    <2>1. ServedAt(seq, n) /\ s[n] = seq[n]
      BY <1>2, <1>3 DEF Served
    <2>2. CASE seq[n].cmd = "OBJECT_CREATE"
      <3>1. Creates(seq[n], seq[n].id)
        BY <2>2 DEF Creates
      <3>2. ~Creates(msg, seq[n].id)
        BY <1>2, <3>1 DEF Creates
      <3>3. \A j \in 1..Len(s) : Creates(s[j], seq[n].id) => j = n
        BY <1>2, <1>3, <1>4, <2>1, <2>2, <3>2 DEF ServedAt
      <3> QED
        BY <2>1, <2>2, <3>3 DEF ServedAt
    <2>3. CASE seq[n].cmd # "OBJECT_CREATE"
      BY <1>2, <1>3, <2>1, <2>3 DEF ServedAt
    <2> QED
      BY <2>2, <2>3
  <1>6. ServedAt(s, k + 1)
    <2>1. CASE msg.cmd # "OBJECT_CREATE" /\ \A o \in Mentions(msg) : Known(seq, o)
      <3>1. \A j \in 1..k : j \in 1..Len(s) /\ j < k + 1
        BY <1>3
      <3> QED
        BY <1>2, <1>3, <2>1, <3>1 DEF ServedAt, Known
    <2>2. CASE /\ msg.cmd = "OBJECT_CREATE"
               /\ msg.id \in Instance \ inited
               /\ msg.kids = {}
               /\ \A j \in 1..Len(seq) : ~Creates(seq[j], msg.id)
      BY <1>2, <1>3, <1>4, <2>2 DEF ServedAt
    <2> QED
      BY <2>1, <2>2
  <1> QED
    BY <1>1, <1>4, <1>5, <1>6 DEF Served

\* A request other than OBJECT_CREATE, of objects the backend will find.
LEMMA RequestServed ==
  ASSUME NEW seq \in Seq(RequestSet), Served(seq),
         NEW cmd \in Requests \ {"OBJECT_CREATE"}, NEW o \in Object,
         NEW args \in SUBSET Object, \A p \in {o} \cup args : Known(seq, p)
  PROVE  /\ Append(seq, Request(cmd, o, args)) \in Seq(RequestSet)
         /\ Served(Append(seq, Request(cmd, o, args)))
         /\ \A p : Known(seq, p) => Known(Append(seq, Request(cmd, o, args)), p)
  <1>1. PICK msg \in RequestSet : msg = Request(cmd, o, args)
    BY RequestTyped
  <1>2. msg.cmd # "OBJECT_CREATE" /\ Mentions(msg) = {o} \cup args
    BY <1>1 DEF Request, Mentions
  <1>3. Served(Append(seq, msg))
    BY <1>2, ServedAppended
  <1>4. Append(seq, msg) \in Seq(RequestSet)
    BY AppendProperties
  <1> QED
    BY <1>1, <1>3, <1>4, KnownAppended

\* The proxies, and what the plugin asks for them.
Proxied(seq, prx, orph) ==
  /\ Served(seq)
  /\ \A o \in orph : prx[o] # "none"
  /\ \A o \in Object : prx[o] # "none" => Known(seq, o)

LEMMA LeasedProxied == Leased => Proxied(toBackend, proxy, orphans)
  BY DEF Leased, ProxiesSpared, Proxied, Known, BeingCreated, Creates

LEMMA ProxiedSame ==
  ASSUME Leased, UNCHANGED <<toBackend, proxy, orphans>>
  PROVE  Proxied(toBackend', proxy', orphans')
  BY LeasedProxied

LEMMA EnsureProxied ==
  ASSUME TypeOK, Leased, NEW S \in SUBSET Object, \A o \in S : Spared(o), Ensure(S)
  PROVE  Proxied(toBackend', proxy', orphans')
  <1>1. CASE UNCHANGED <<proxy, orphans, typeCache, toBackend>>
    BY <1>1, ProxiedSame
  <1>2. ASSUME NEW o \in S,
               proxy' = [proxy EXCEPT ![o] = "live"],
               orphans' = IF proxy[o] = "doomed" THEN orphans \cup {o} ELSE orphans,
               toBackend' = Append(toBackend, Request("OBJECT_REF", o, {}))
        PROVE  Proxied(toBackend', proxy', orphans')
    <2>1. /\ toBackend \in Seq(RequestSet) /\ Known(toBackend, o)
          /\ proxy \in [Object -> {"none", "live", "doomed"}] /\ o \in Object
          /\ orphans \subseteq Object
      BY DEF TypeOK, WireTypeOK, ProxiesTypeOK, Known
    <2>2. Proxied(toBackend, proxy, orphans)
      BY LeasedProxied
    <2>3. Served(toBackend') /\ \A p : Known(toBackend, p) => Known(toBackend', p)
      BY <1>2, <2>1, <2>2, RequestServed DEF Requests, Proxied
    <2>4. \A p \in Object : proxy'[p] = IF p = o THEN "live" ELSE proxy[p]
      BY <1>2, <2>1
    <2>5. \A p \in orphans' : p = o \/ p \in orphans
      BY <1>2
    <2>6. \A p \in orphans' : proxy'[p] # "none"
      BY <2>1, <2>2, <2>4, <2>5 DEF Proxied
    <2> QED
      BY <2>1, <2>2, <2>3, <2>4, <2>6 DEF Proxied
  <1> QED
    BY <1>1, <1>2 DEF Ensure

\* Messages that are received leave the others as they were.
LEMMA ReceivedDelivers ==
  ASSUME TypeOK, Leased, NEW cmd, Received(cmd)
  PROVE  /\ Delivered(toClient')
         /\ DeliveredMsg(Head(toClient))
         /\ Head(toClient).cmd = cmd
         /\ Head(toClient).kids \subseteq Object
         /\ Head(toClient).id \in Object
  <1>1. /\ toClient \in Seq(UpdateSet) /\ toClient # <<>>
        /\ toClient' = Tail(toClient) /\ Head(toClient).cmd = cmd
    BY DEF Received, TypeOK, WireTypeOK
  <1>2. /\ Head(toClient) = toClient[1] /\ 1 \in 1..Len(toClient)
        /\ Len(toClient') = Len(toClient) - 1
        /\ \A n \in 1..Len(toClient') : toClient'[n] = toClient[n + 1]
    BY <1>1, HeadTailProperties
  <1>3. \A n \in 1..Len(toClient') : n + 1 \in 1..Len(toClient)
    BY <1>1, <1>2
  <1>4. Delivered(toClient)
    BY DEF Leased
  <1> QED
    BY <1>1, <1>2, <1>3, <1>4, DeliveredTyped DEF Delivered

LEMMA DeliveredSpares ==
  ASSUME NEW msg, DeliveredMsg(msg)
  PROVE  /\ \A o \in msg.kids : Spared(o)
         /\ Marshaled(msg) => \A o \in msg.kids : Counted(o)
  BY CountedSpared DEF DeliveredMsg

ViewsCounted(vw) == \A o \in Object : \A k \in vw[o] : Counted(k)

\* What each message leaves: the stream, the proxies and the data.
LEMMA ReceiveLeases ==
  ASSUME TypeOK, HeldIsRegistered, Leased, Root \in ref, Receive
  PROVE  /\ Delivered(toClient')
         /\ Proxied(toBackend', proxy', orphans')
         /\ ViewsCounted(view')
  <1>1. ViewsCounted(view) /\ view \in [Object -> SUBSET Object]
    BY DEF Leased, ProxiesSpared, ViewsCounted, TypeOK, ProxiesTypeOK
  <1>2. ASSUME NEW S, ForgetData(S)
        PROVE  ViewsCounted(view')
    BY <1>1, <1>2 DEF ForgetData, ViewsCounted
  <1>3. ASSUME NEW o \in Object, NEW kids \in SUBSET Object, \A k \in kids : Counted(k),
               view' = [view EXCEPT ![o] = kids] \/ view' = view
        PROVE  ViewsCounted(view')
    <2>1. \A p \in Object : view'[p] = view[p] \/ view'[p] = kids
      BY <1>1, <1>3
    <2> QED
      BY <1>1, <1>3, <2>1 DEF ViewsCounted
  <1>4. CASE ReceiveRoot
    <2>1. /\ Received("ROOT") /\ Ensure({Root})
          /\ view' = [view EXCEPT ![Root] = Head(toClient).kids]
      BY <1>4 DEF ReceiveRoot
    <2>2. \A o \in {Root} : Spared(o)
      BY DEF Spared, Guarded, HeldIsRegistered
    <2>3. Proxied(toBackend', proxy', orphans')
      BY <2>1, <2>2, EnsureProxied, WireAssumption
    <2>4. \A k \in Head(toClient).kids : Counted(k)
      BY <2>1, ReceivedDelivers, DeliveredSpares DEF Marshaled
    <2>5. ViewsCounted(view')
      BY <1>3, <2>1, <2>4, ReceivedDelivers, WireAssumption
    <2> QED
      BY <2>1, <2>3, <2>5, ReceivedDelivers
  <1>5. CASE ReceiveReset
    <2>1. /\ Received("OBJECT_RESET")
          /\ ResetData(Head(toClient).id, Head(toClient).kids)
          /\ UNCHANGED <<proxy, orphans, toBackend>>
      BY <1>5 DEF ReceiveReset
    <2>2. \A k \in Head(toClient).kids : Counted(k)
      BY <2>1, ReceivedDelivers, DeliveredSpares DEF Marshaled
    <2>3. ViewsCounted(view')
      BY <1>3, <2>1, <2>2, ReceivedDelivers DEF ResetData
    <2> QED
      BY <2>1, <2>3, ReceivedDelivers, ProxiedSame
  <1>6. ASSUME NEW cmd, Received(cmd),
               NEW objs \in {{}, Head(toClient).kids}, Ensure(objs), ForgetData(objs)
        PROVE  /\ Delivered(toClient')
               /\ Proxied(toBackend', proxy', orphans')
               /\ ViewsCounted(view')
    <2>1. objs \in SUBSET Object /\ \A o \in objs : Spared(o)
      BY <1>6, ReceivedDelivers, DeliveredSpares
    <2> QED
      BY <1>2, <1>6, <2>1, EnsureProxied, ReceivedDelivers
  <1>7. CASE ReceiveEmit
    BY <1>6, <1>7 DEF ReceiveEmit
  <1>8. CASE ReceiveReturn
    BY <1>6, <1>8 DEF ReceiveReturn
  <1>9. CASE ReceiveAnswer
    <2>1. PICK i \in 1..Len(toClient) :
            /\ IsAnswer(toClient[i])
            /\ ResetData(waiting, toClient[i].kids)
            /\ toClient' = RemoveAt(toClient, i)
      BY <1>9 DEF ReceiveAnswer
    <2>2. UNCHANGED <<proxy, orphans, toBackend>> /\ waiting \in Object
      BY <1>9 DEF ReceiveAnswer, TypeOK, ProxiesTypeOK
    <2>3. DeliveredMsg(toClient[i]) /\ toClient[i].kids \subseteq Object
      BY DeliveredTyped DEF Leased, Delivered
    <2>4. \A k \in toClient[i].kids : Counted(k)
      BY <2>1, <2>3, DeliveredSpares DEF Marshaled, IsAnswer
    <2>5. ViewsCounted(view')
      BY <1>3, <2>1, <2>2, <2>3, <2>4 DEF ResetData
    <2>6. Delivered(toClient')
      BY <2>1, RemovedAt DEF Leased, Delivered, TypeOK, WireTypeOK
    <2> QED
      BY <2>2, <2>5, <2>6, ProxiedSame
  <1> QED
    BY <1>4, <1>5, <1>7, <1>8, <1>9 DEF Receive

LEMMA EngineLeases ==
  ASSUME TypeOK, Leased, Engine
  PROVE  /\ Delivered(toClient')
         /\ Proxied(toBackend', proxy', orphans')
         /\ ViewsCounted(view')
  <1> DEFINE Goal == /\ Delivered(toClient')
                     /\ Proxied(toBackend', proxy', orphans')
                     /\ ViewsCounted(view')
  <1> SUFFICES Goal
    OBVIOUS
  <1>1. /\ toBackend \in Seq(RequestSet)
        /\ proxy \in [Object -> {"none", "live", "doomed"}]
        /\ orphans \subseteq Object
        /\ view \in [Object -> SUBSET Object]
    BY DEF TypeOK, WireTypeOK, ProxiesTypeOK
  <1>2. /\ Delivered(toClient)
        /\ Proxied(toBackend, proxy, orphans)
        /\ ViewsCounted(view)
    BY LeasedProxied DEF Leased, ProxiesSpared, ViewsCounted
  <1>3. \A o \in Object : proxy[o] # "none" => Known(toBackend, o)
    BY <1>2 DEF Proxied
  <1>4. ASSUME UNCHANGED <<toClient, view>>, Proxied(toBackend', proxy', orphans')
        PROVE  Goal
    BY <1>2, <1>4
  <1>5. ASSUME NEW o \in Object, view' = [view EXCEPT ![o] = {}]
        PROVE  ViewsCounted(view')
    BY <1>1, <1>2, <1>5 DEF ViewsCounted
  <1>6. ASSUME NEW cmd \in Requests \ {"OBJECT_CREATE"}, NEW o \in Object,
               NEW args \in SUBSET Object, \A p \in {o} \cup args : proxy[p] # "none",
               toBackend' = Append(toBackend, Request(cmd, o, args)),
               UNCHANGED <<toClient, view, proxy, orphans>>
        PROVE  Goal
    <2>1. \A p \in {o} \cup args : Known(toBackend, p)
      BY <1>3, <1>6
    <2>2. Served(toBackend') /\ \A p : Known(toBackend, p) => Known(toBackend', p)
      BY <1>1, <1>2, <1>6, <2>1, RequestServed DEF Proxied
    <2>3. Proxied(toBackend', proxy', orphans')
      BY <1>2, <1>6, <2>2 DEF Proxied
    <2> QED
      BY <1>4, <1>6, <2>3
  <1>7. ASSUME NEW o \in Object, proxy[o] # "none",
               NEW mid \in Seq(RequestSet), mid \in WithCall(toBackend, o)
        PROVE  Served(mid) /\ \A p : Known(toBackend, p) => Known(mid, p)
    <2>1. \A p \in {o} \cup {} : Known(toBackend, p)
      BY <1>3, <1>7
    <2>2. LET s == Append(toBackend, Request("INVOKE", o, {}))
          IN  Served(s) /\ \A p : Known(toBackend, p) => Known(s, p)
      BY <1>1, <1>2, <2>1, RequestServed DEF Requests, Proxied
    <2> QED
      BY <1>2, <1>7, <2>2 DEF WithCall, Proxied
  <1> HIDE DEF Goal
  <1>8. ASSUME NEW o \in Object, ReadAndBlock(o)
        PROVE  Goal
    BY <1>6, <1>8 DEF ReadAndBlock, Requests
  <1>9. ASSUME NEW o \in Object, NEW k \in Object, ReadChild(o, k)
        PROVE  Goal
    <2>1. Ensure({k}) /\ ForgetData({k}) /\ UNCHANGED toClient /\ k \in view[o]
      BY <1>9 DEF ReadChild
    <2>2. \A p \in {k} : Spared(p)
      BY <1>2, <2>1, CountedSpared DEF ViewsCounted
    <2>3. Proxied(toBackend', proxy', orphans')
      BY <2>1, <2>2, EnsureProxied
    <2>4. ViewsCounted(view')
      BY <1>2, <2>1 DEF ForgetData, ViewsCounted
    <2> QED
      BY <1>2, <2>1, <2>3, <2>4 DEF Goal
  <1>10. ASSUME NEW o \in Object, NEW args \in Parameters, Invoke(o, args)
         PROVE  Goal
    <2>1. args \in SUBSET Object
      BY DEF Parameters
    <2>2. /\ \A p \in {o} \cup args : proxy[p] # "none"
          /\ toBackend' = Append(toBackend, Request("INVOKE", o, args))
          /\ UNCHANGED <<toClient, view, proxy, orphans>>
      BY <1>10 DEF Invoke, proxyVars
    <2> QED
      BY <1>6, <2>1, <2>2 DEF Requests
  <1>11. ASSUME NEW o \in Object, Unused(o), Create(o)
         PROVE  Goal
    <2>1. PICK msg \in RequestSet : msg = Request("OBJECT_CREATE", o, {})
      BY RequestTyped DEF Requests
    <2>2. msg.cmd = "OBJECT_CREATE" /\ msg.id = o /\ msg.kids = {}
      BY <2>1 DEF Request
    <2>3. /\ o \in Instance \ inited /\ \A j \in 1..Len(toBackend) : ~Creates(toBackend[j], o)
      BY <1>11 DEF Create, Unused, Creates
    <2>4. PICK s \in Seq(RequestSet) : s = Append(toBackend, msg)
      BY <1>1, AppendProperties
    <2>5. Served(s) /\ \A p : Known(toBackend, p) => Known(s, p)
      BY <1>1, <1>2, <2>2, <2>3, <2>4, ServedAppended, KnownAppended DEF Proxied
    <2>6. Known(s, o)
      <3>1. Len(toBackend) + 1 \in 1..Len(s) /\ s[Len(toBackend) + 1] = msg
        BY <1>1, <2>4, AppendProperties
      <3> QED
        BY <2>2, <3>1 DEF Known, Creates
    <2>7. /\ toBackend' = s /\ proxy' = [proxy EXCEPT ![o] = "live"]
          /\ UNCHANGED <<orphans, view, toClient>>
      BY <1>11, <2>1, <2>4 DEF Create
    <2>8. \A p \in Object : proxy'[p] = IF p = o THEN "live" ELSE proxy[p]
      BY <1>1, <2>7
    <2>9. \A p \in orphans' : proxy'[p] # "none"
      BY <1>1, <1>2, <2>7, <2>8 DEF Proxied
    <2>10. \A p \in Object : proxy'[p] # "none" => Known(s, p)
      BY <1>3, <2>5, <2>6, <2>8
    <2>11. Proxied(toBackend', proxy', orphans')
      BY <2>5, <2>7, <2>9, <2>10 DEF Proxied
    <2> QED
      BY <1>4, <2>7, <2>11
  <1>12. ASSUME NEW o \in Object, JSCollect(o)
         PROVE  Goal
    <2>1. /\ proxy' = [proxy EXCEPT ![o] = "doomed"] /\ proxy[o] = "live"
          /\ UNCHANGED <<orphans, view, toBackend, toClient>>
      BY <1>12 DEF JSCollect, wireVars
    <2>2. \A p \in Object : proxy'[p] # "none" <=> proxy[p] # "none"
      BY <1>1, <2>1
    <2>3. Proxied(toBackend', proxy', orphans')
      BY <1>1, <1>2, <2>1, <2>2 DEF Proxied
    <2> QED
      BY <1>4, <2>1, <2>3
  <1>13. ASSUME NEW o \in Object, Destroy(o)
         PROVE  Goal
    <2>1. PICK mid \in Seq(RequestSet) :
            /\ mid \in WithCall(toBackend, o)
            /\ toBackend' = Append(mid, Request("OBJECT_DEREF", o, {}))
      BY <1>13, DestroyAppends DEF TypeOK
    <2>2. /\ proxy[o] = "doomed" /\ o \notin orphans
          /\ proxy' = [proxy EXCEPT ![o] = "none"]
          /\ view' = [view EXCEPT ![o] = {}]
          /\ UNCHANGED <<orphans, toClient>>
      BY <1>13 DEF Destroy
    <2>3. Served(mid) /\ \A p : Known(toBackend, p) => Known(mid, p)
      BY <1>7, <2>1, <2>2
    <2>4. \A p \in {o} \cup {} : Known(mid, p)
      BY <1>3, <2>2, <2>3
    <2>5. Served(toBackend') /\ \A p : Known(mid, p) => Known(toBackend', p)
      BY <2>1, <2>3, <2>4, RequestServed DEF Requests
    <2>6. \A p \in Object : proxy'[p] = IF p = o THEN "none" ELSE proxy[p]
      BY <1>1, <2>2
    <2>7. \A p \in orphans' : proxy'[p] # "none"
      BY <1>1, <1>2, <2>2, <2>6 DEF Proxied
    <2>8. \A p \in Object : proxy'[p] # "none" => Known(toBackend', p)
      BY <1>3, <2>3, <2>5, <2>6
    <2> QED
      BY <1>2, <1>5, <2>2, <2>5, <2>7, <2>8 DEF Goal, Proxied
  <1>14. ASSUME NEW o \in Object, DestroyOrphan(o)
         PROVE  Goal
    <2>1. PICK call \in LastCall(o) : toBackend' = toBackend \o call
      BY <1>14 DEF DestroyOrphan
    <2>2. /\ o \in orphans /\ orphans' = orphans \ {o}
          /\ UNCHANGED <<proxy, view, toClient>>
      BY <1>14 DEF DestroyOrphan
    <2>3. proxy[o] # "none"
      BY <1>2, <2>2 DEF Proxied
    <2>4. toBackend' \in WithCall(toBackend, o) /\ toBackend' \in Seq(RequestSet)
      BY <2>1, LastCallAppended DEF TypeOK
    <2>5. Served(toBackend') /\ \A p : Known(toBackend, p) => Known(toBackend', p)
      BY <1>7, <2>3, <2>4
    <2>6. Proxied(toBackend', proxy', orphans')
      BY <1>2, <1>3, <2>2, <2>5 DEF Proxied
    <2> QED
      BY <1>4, <2>2, <2>6
  <1> QED
    BY <1>8, <1>9, <1>10, <1>11, <1>12, <1>13, <1>14 DEF Engine

LEMMA ClientLeased ==
  ASSUME TypeOK, HeldIsRegistered, RootStays, Leased, Client, UNCHANGED registryVars
  PROVE  Leased'
  <1>1. UNCHANGED <<inited, registered, ref, refCount, grace, health>>
    BY DEF registryVars, objectVars, processVars
  <1>2. Root \in ref
    BY DEF Client, Receive, Engine, ReceiveRoot, ReceiveReset, ReceiveEmit, ReceiveReturn,
           ReceiveAnswer, Received, RootStays
  <1>3. /\ Delivered(toClient')
        /\ Proxied(toBackend', proxy', orphans')
        /\ ViewsCounted(view')
    BY <1>2, ReceiveLeases, EngineLeases DEF Client
  <1>4. AskedFor'
    <2> SUFFICES ASSUME NEW o \in Object \ {Root}, proxy'[o] # "none"
                 PROVE  EndsHeld(o)'
      BY DEF AskedFor
    <2>1. proxy[o] # "none" => EndsHeld(o)
      BY DEF Leased, AskedFor
    <2> QED
      BY <2>1, ClientHolds
  <1>5. \A o : (Spared(o)' <=> Spared(o)) /\ (Counted(o)' <=> Counted(o))
    BY <1>1 DEF Spared, Guarded, Counted
  <1>6. Delivered(toClient)'
    BY <1>3, <1>5 DEF Delivered, DeliveredMsg
  <1>7. Served(toBackend)'
    BY <1>1, <1>3, <1>5 DEF Proxied, Served, ServedAt
  <1>8. ProxiesSpared'
    BY <1>1, <1>2, <1>3, <1>5
       DEF Proxied, Known, ViewsCounted, ProxiesSpared, BeingCreated, Creates
  <1> QED
    BY <1>1, <1>4, <1>6, <1>7, <1>8 DEF Leased, NeverFails

LEMMA NextLeased ==
  ASSUME Prompt, KeepsChildren
  PROVE  TypeOK /\ MentionedIsCounted' /\ RootStays /\ HeldIsRegistered /\ Leased
           /\ [Next]_vars => Leased'
  <1> SUFFICES ASSUME TypeOK, MentionedIsCounted', RootStays, HeldIsRegistered, Leased,
                      [Next]_vars
               PROVE  Leased'
    OBVIOUS
  <1>1. CASE UNCHANGED vars
    <2>1. UNCHANGED <<toBackend, toClient, inited, registered, ref, refCount, grace, health,
                      proxy, orphans, view>>
      BY <1>1 DEF vars, wireVars, registryVars, objectVars, processVars, proxyVars
    <2> QED
      BY <2>1 DEF Leased, AskedFor, EndsHeld, Served, ServedAt, Delivered, DeliveredMsg,
                  ProxiesSpared, Spared, Guarded, Counted, BeingCreated, NeverFails
  <1> QED
    BY <1>1, BackendLeased, ClientLeased DEF Next

\* While no message takes as long as a tick and the application only adds
\* children, all of it holds at once.
LEMMA AlwaysLeased ==
  ASSUME Prompt, KeepsChildren
  PROVE  Spec => []Leased
  <1>1. TypeOK /\ MentionedIsCounted' /\ RootStays /\ HeldIsRegistered /\ Leased
          /\ [Next]_vars => Leased'
    BY NextLeased
  <1>2. Spec => []RootStays
    BY TypeCorrect, InitRoot, NextRoot, PTL DEF Spec
  <1>3. Spec => []MentionedIsCounted
    BY CountsExact, ExactCountsMentioned, PTL
  <1> QED
    BY <1>1, <1>2, <1>3, TypeCorrect, HeldRegistered, InitLeased, PTL DEF Spec

\* If messages are handled within a tick and an object keeps what it once held,
\* every object the plugin uses, or could use without hearing of it again, is
\* registered, or is being created by a request on its way: "objects can never
\* disappear from under it" (object.go:146).
THEOREM NothingDisappears ==
  ASSUME Prompt, KeepsChildren
  PROVE  Spec => []NeverDisappears
  <1>1. TypeOK /\ Leased => NeverDisappears
    <2> SUFFICES ASSUME TypeOK, Leased, NEW o \in Usable
                 PROVE  o \in registered \/ BeingCreated(o)
      BY DEF NeverDisappears
    <2>1. CASE o \in Object /\ proxy[o] # "none"
      BY <2>1 DEF Leased, ProxiesSpared, Spared
    <2>2. CASE \E p \in Object : o \in view[p]
      BY <2>2 DEF Leased, ProxiesSpared, Counted
    <2>3. CASE \E n \in 1..Len(toClient) : o \in toClient[n].kids
      BY <2>3, DeliveredSpares DEF Leased, Delivered, Spared
    <2>4. o \in UNION {view[p] : p \in Object} => \E p \in Object : o \in view[p]
      OBVIOUS
    <2>5. o \in UNION {toClient[n].kids : n \in 1..Len(toClient)}
            => \E n \in 1..Len(toClient) : o \in toClient[n].kids
      OBVIOUS
    <2>6. \/ o \in Object /\ proxy[o] # "none"
          \/ o \in UNION {view[p] : p \in Object}
          \/ o \in UNION {toClient[n].kids : n \in 1..Len(toClient)}
      BY DEF Usable
    <2> QED
      BY <2>1, <2>2, <2>3, <2>4, <2>5, <2>6
  <1> QED
    BY <1>1, TypeCorrect, AlwaysLeased, PTL

\* Under the same conditions no request names an object the backend does not
\* find (connection.go, Process), so the connection never fails for it.
THEOREM NothingFails ==
  ASSUME Prompt, KeepsChildren
  PROVE  Spec => []NeverFails
  <1>1. Leased => NeverFails
    BY DEF Leased
  <1> QED
    BY <1>1, AlwaysLeased, PTL

\* And the two sides agree: once it has handled what is in flight, the backend
\* holds a reference on exactly the objects the plugin has a proxy for (OBJECT_REF
\* and OBJECT_DEREF of addObjectProxy and removeObject).
THEOREM BothAgree ==
  ASSUME Prompt, KeepsChildren
  PROVE  Spec => []ReferencesAgree
  <1>1. TypeOK /\ Leased /\ NoLeakedReference => ReferencesAgree
    BY WillBeIsWillHold
       DEF TypeOK, Leased, AskedFor, EndsHeld, NoLeakedReference, ReferencesAgree
  <1> QED
    BY <1>1, TypeCorrect, NothingLeaks, AlwaysLeased, PTL
=============================================================================
