----------------------------- MODULE DataProofs -----------------------------
(***************************************************************************)
(* Why each proxy has the backend's last data in the end, for any objects,  *)
(* any number of messages and any way they arrive in pieces, although a     *)
(* read takes newer data past older: only an object's first data are taken  *)
(* out of turn, and the answer to the read, which comes later or is what    *)
(* was taken, repeats the data before it.                                   *)
(***************************************************************************)
EXTENDS DispatchProofs

-----------------------------------------------------------------------------
(* One object: S are the resets that were sent, of versions v; n is the      *)
(* version in the backend, and asked whether it has a query to answer; H are *)
(* the resets that were handled, and d is what the proxy shows.              *)

\* The backend's version is that of the last reset, or the first.
Current(S, v, n) ==
  /\ n >= 1
  /\ \A i \in S : v[i] >= 1
  /\ \A i \in S : (\A j \in S : j <= i) => v[i] = n
  /\ S = {} => n = 1

\* A reset repeats the one before it: the answer to a query does.
Consecutive(S, i, j) == i < j /\ \A k \in S : k <= i \/ j <= k
Repeats(S, v, j) == \A i \in S : Consecutive(S, i, j) => v[i] = v[j]

\* A reset may be taken past older ones: another will follow it, or has, or it
\* brings nothing new.
Harmless(S, v, asked, j) == asked \/ (\E i \in S : j < i) \/ Repeats(S, v, j)

\* The proxy shows k, and what comes is newer, except that the first reset may
\* have been taken past older ones.
Shows(S, v, asked, H, d, k) ==
  /\ k \in H /\ d = v[k]
  /\ \A j \in S \ H : j < k => Harmless(S, v, asked, k) /\ H = {k}
  /\ \A j \in H : k < j => /\ Harmless(S, v, asked, j)
                           /\ \A i \in H : k < i => i = j
Shown(S, v, asked, H, d) ==
  /\ H = {} => d = 0
  /\ H # {} => \E k \in H : Shows(S, v, asked, H, d, k)

LEMMA SameData ==
  ASSUME NEW S, NEW v, NEW w, \A i \in S : v[i] = w[i], NEW n, NEW asked, NEW H \in SUBSET S,
         NEW d
  PROVE  /\ Current(S, v, n) => Current(S, w, n)
         /\ Shown(S, v, asked, H, d) => Shown(S, w, asked, H, d)
         /\ \A j \in S : Repeats(S, v, j) => Repeats(S, w, j)
  <1>1. \A j \in S : Repeats(S, v, j) => Repeats(S, w, j)
    BY DEF Repeats
  <1>2. \A j \in S : Harmless(S, v, asked, j) => Harmless(S, w, asked, j)
    BY <1>1 DEF Harmless
  <1>3. Current(S, v, n) => Current(S, w, n)
    BY DEF Current
  <1>4. \A k \in H : Shows(S, v, asked, H, d, k) => Shows(S, w, asked, H, d, k)
    BY <1>2 DEF Shows
  <1>5. Shown(S, v, asked, H, d) => Shown(S, w, asked, H, d)
    BY <1>4 DEF Shown
  <1> QED
    BY <1>1, <1>3, <1>5

\* The backend sends another reset, m.
LEMMA ResetSent ==
  ASSUME NEW S \in SUBSET Nat, NEW m \in Nat, \A i \in S : i < m,
         NEW v, NEW w, \A i \in S : v[i] = w[i],
         NEW n \in Nat, Current(S, v, n), w[m] \in {n, n + 1},
         NEW asked, NEW now, NEW H \in SUBSET S, NEW d, Shown(S, v, asked, H, d)
  PROVE  /\ Current(S \cup {m}, w, w[m])
         /\ Shown(S \cup {m}, w, now, H, d)
         /\ w[m] = n => Repeats(S \cup {m}, w, m)
         /\ \A j \in S : Repeats(S, v, j) => Repeats(S \cup {m}, w, j)
  <1> DEFINE T == S \cup {m}
  <1>1. Current(T, w, w[m])
    BY DEF Current
  <1>2. w[m] = n => Repeats(T, w, m)
    <2> SUFFICES ASSUME w[m] = n, NEW i \in T, Consecutive(T, i, m)
                 PROVE  w[i] = w[m]
      BY DEF Repeats
    <2>1. i \in S /\ \A j \in S : j <= i
      BY DEF Consecutive
    <2> QED
      BY <2>1 DEF Current
  <1>3. \A j \in S : Repeats(S, v, j) => Repeats(T, w, j)
    BY DEF Repeats, Consecutive
  <1>4. \A j \in H : Harmless(T, w, now, j)
    BY DEF Harmless
  <1>5. ASSUME NEW k \in H, Shows(S, v, asked, H, d, k)
        PROVE  Shows(T, w, now, H, d, k)
    <2>1. d = w[k]
      BY <1>5 DEF Shows
    <2>2. ASSUME NEW j \in T \ H, j < k
          PROVE  H = {k}
      <3>1. j \in S \ H
        BY <2>2
      <3> QED
        BY <1>5, <2>2, <3>1 DEF Shows
    <2>3. \A j \in H : k < j => \A i \in H : k < i => i = j
      BY <1>5 DEF Shows
    <2> QED
      BY <1>4, <2>1, <2>2, <2>3 DEF Shows
  <1>6. Shown(T, w, now, H, d)
    BY <1>5 DEF Shown
  <1> QED
    BY <1>1, <1>2, <1>3, <1>6

\* A reset is handled in turn.
LEMMA ResetInTurn ==
  ASSUME NEW S \in SUBSET Nat, NEW v, NEW asked, NEW H \in SUBSET S, NEW d,
         Shown(S, v, asked, H, d),
         NEW m \in S \ H, \A j \in S : j < m => j \in H
  PROVE  Shown(S, v, asked, H \cup {m}, v[m])
  <1> DEFINE G == H \cup {m}
  <1>1. ASSUME NEW j \in H, m < j
        PROVE  Harmless(S, v, asked, j) /\ \A i \in H : m < i => i = j
    <2>1. PICK k \in H : Shows(S, v, asked, H, d, k)
      BY <1>1 DEF Shown
    <2>2. k \in Nat /\ m \in Nat /\ j \in Nat /\ \A i \in H : i \in Nat
      OBVIOUS
    <2>3. CASE m < k
      <3>1. Harmless(S, v, asked, k) /\ H = {k}
        BY <2>1, <2>3 DEF Shows
      <3> QED
        BY <1>1, <3>1
    <2>4. CASE ~(m < k)
      <3>1. \A i \in H : m < i => k < i
        BY <2>2, <2>4
      <3>2. k < j
        BY <1>1, <3>1
      <3>3. Harmless(S, v, asked, j) /\ \A i \in H : k < i => i = j
        BY <2>1, <3>2 DEF Shows
      <3> QED
        BY <3>1, <3>3
    <2> QED
      BY <2>3, <2>4
  <1>2. Shows(S, v, asked, G, v[m], m)
    <2>1. \A j \in S \ G : ~(j < m)
      OBVIOUS
    <2>2. \A i \in G : m < i => i \in H
      OBVIOUS
    <2> QED
      BY <1>1, <2>1, <2>2 DEF Shows
  <1> QED
    BY <1>2 DEF Shown

\* The first reset is handled out of turn.
LEMMA FirstOutOfTurn ==
  ASSUME NEW S \in SUBSET Nat, NEW v, NEW asked, NEW m \in S, Harmless(S, v, asked, m)
  PROVE  Shown(S, v, asked, {m}, v[m])
  <1>1. Shows(S, v, asked, {m}, v[m], m)
    <2>1. \A i \in {m} : ~(m < i)
      OBVIOUS
    <2> QED
      BY <2>1 DEF Shows
  <1> QED
    BY <1>1 DEF Shown

\* Once everything is answered and handled, the proxy shows the last version.
LEMMA ShownIsCurrent ==
  ASSUME NEW S \in SUBSET Nat, NEW v, NEW n, Current(S, v, n),
         NEW d, Shown(S, v, FALSE, S, d)
  PROVE  d = n \/ (d = 0 /\ n = 1)
  <1>1. CASE S = {}
    BY <1>1 DEF Current, Shown
  <1>2. CASE S # {}
    <2>1. PICK k \in S : Shows(S, v, FALSE, S, d, k)
      BY <1>2 DEF Shown
    <2>2. d = v[k]
      BY <2>1 DEF Shows
    <2>3. CASE \A j \in S : j <= k
      BY <2>2, <2>3 DEF Current
    <2>4. CASE \E j \in S : k < j
      <3>1. PICK j \in S : k < j
        BY <2>4
      <3>2. Harmless(S, v, FALSE, j) /\ \A i \in S : k < i => i = j
        BY <2>1, <3>1 DEF Shows
      <3>3. \A i \in S : i <= k \/ i = j
        BY <3>2
      <3>4. \A i \in S : i <= j
        BY <3>1, <3>3
      <3>5. Repeats(S, v, j)
        BY <3>2, <3>4 DEF Harmless
      <3>6. Consecutive(S, k, j)
        BY <3>1, <3>3 DEF Consecutive
      <3>7. v[k] = v[j]
        BY <3>5, <3>6 DEF Repeats
      <3>8. v[j] = n
        BY <3>4 DEF Current
      <3> QED
        BY <2>2, <3>7, <3>8
    <2>5. (\A j \in S : j <= k) \/ \E j \in S : k < j
      OBVIOUS
    <2> QED
      BY <2>3, <2>4, <2>5
  <1> QED
    BY <1>1, <1>2

-----------------------------------------------------------------------------
(* The inductive invariant.                                                 *)

Reset(o) == Pattern("OBJECT_RESET", o)
Resets(o) == {i \in 1..Len(sent) : Matches(sent[i], Reset(o))}
Vers == [i \in 1..Len(sent) |-> sent[i].ver]

\* The message is yet to be seen by the thread that waits: it is in the buffer,
\* or in the rest of what is flushed.
Ahead(a) == a > parsed \/ (OnTop("flush") /\ a \in Range(Head(stack).rest))

\* Who waits for an object's data has none of it, and the answer is to come.
Awaited(o) ==
  sync = Reset(o) =>
    /\ state = "Ready"
    /\ result = 0 =>
         /\ Resets(o) \cap handled = {}
         /\ o \notin requests =>
              \E a \in Resets(o) : Repeats(Resets(o), Vers, a) /\ Ahead(a)

Fresh(o) ==
  /\ Current(Resets(o), Vers, version[o])
  /\ Shown(Resets(o), Vers, o \in requests, Resets(o) \cap handled, data[o])
  /\ Awaited(o)

LEMMA ResetsTyped ==
  ASSUME TypeOK, NEW o \in Obj
  PROVE  /\ Resets(o) \in SUBSET Nat
         /\ Len(sent) \in Nat
         /\ Resets(o) \cap handled \in SUBSET Resets(o)
         /\ version[o] \in Nat
         /\ \A i \in Resets(o) : i \in 1..Len(sent) /\ Vers[i] = sent[i].ver
         /\ \A i \in 1..Len(sent) : i \in Resets(o) <=> Matches(sent[i], Reset(o))
  <1>1. Len(sent) \in Nat
    BY LenProperties DEF TypeOK
  <1>2. version[o] \in Nat
    BY DEF TypeOK
  <1> QED
    BY <1>1, <1>2 DEF Resets, Vers

\* A step that neither sends nor handles anything, nor waits for the object.
LEMMA FreshAnyway ==
  ASSUME NEW o \in Obj, Fresh(o), UNCHANGED <<sent, version, handled, data>>,
         o \in requests' <=> o \in requests, sync' # Reset(o)
  PROVE  Fresh(o)'
  <1>1. Resets(o)' = Resets(o) /\ Vers' = Vers
    BY DEF Resets, Vers
  <1>2. (o \in requests') = (o \in requests)
    OBVIOUS
  <1>3. Awaited(o)'
    BY DEF Awaited, Reset
  <1> QED
    BY <1>1, <1>2, <1>3 DEF Fresh

-----------------------------------------------------------------------------
(* The backend.                                                             *)

LEMMA BackendKind ==
  ASSUME TypeOK, Backend, NEW o \in Obj
  PROVE  \/ /\ \E msg \in Messages : Write(msg) /\ ~Matches(msg, Reset(o))
            /\ version'[o] = version[o] /\ (o \in requests' <=> o \in requests)
         \/ \E msg \in Messages :
              /\ Write(msg) /\ Matches(msg, Reset(o))
              /\ version'[o] = msg.ver
              /\ \/ msg.ver = version[o] + 1 /\ (o \in requests' <=> o \in requests)
                 \/ msg.ver = version[o]
  <1>1. PICK msg \in Messages : Write(msg)
    BY BackendWrites
  <1>2. ASSUME NEW other \in Messages, Write(other)
        PROVE  other = msg
    <2>1. sent \in Seq(Messages)
      BY DEF TypeOK, Messages
    <2>2. \A m \in Messages : Append(sent, m)[Len(sent) + 1] = m
      BY <2>1, AppendProperties
    <2>3. Append(sent, other) = Append(sent, msg)
      BY <1>1, <1>2 DEF Write
    <2> QED
      BY <1>2, <2>2, <2>3
  <1>0. Nothing \in About /\ Obj \subseteq About /\ Calls \subseteq About
    BY DEF About
  <1>3. CASE Greet
    <2>1. Matches(msg, Reset(o)) => FALSE
      <3>1. Write(Greeting[Len(sent) + 1]) /\ Len(sent) < Len(Greeting)
        BY <1>3 DEF Greet
      <3>2. Len(Greeting) = 3 /\ Len(sent) \in Nat
        BY LenProperties DEF Greeting, TypeOK
      <3>3. Len(sent) + 1 \in 1..3
        BY <3>1, <3>2
      <3>4. \A i \in 1..3 : /\ Greeting[i] \in Messages
                            /\ Greeting[i].cmd \in {"VERSION", "CREATABLE_TYPES", "ROOT"}
        BY <1>0 DEF Greeting, Message, Messages, Commands
      <3>5. msg.cmd \in {"VERSION", "CREATABLE_TYPES", "ROOT"}
        BY <1>2, <3>1, <3>3, <3>4
      <3> QED
        BY <3>5 DEF Matches, Reset, Pattern
    <2> QED
      BY <1>1, <1>3, <2>1 DEF Greet
  <1>4. CASE Emit
    <2>0. /\ Message("EMIT", Nothing, 0) \in Messages
          /\ Write(Message("EMIT", Nothing, 0))
      BY <1>0, <1>4 DEF Emit, Message, Messages, Commands
    <2>1. msg.cmd = "EMIT"
      BY <1>2, <2>0 DEF Message
    <2>2. ~Matches(msg, Reset(o))
      BY <2>1 DEF Matches, Reset, Pattern
    <2> QED
      BY <1>1, <1>4, <2>2 DEF Emit
  <1>5. ASSUME NEW p \in Obj, Change(p)
        PROVE  \/ /\ ~Matches(msg, Reset(o))
                  /\ version'[o] = version[o] /\ (o \in requests' <=> o \in requests)
               \/ /\ Matches(msg, Reset(o)) /\ version'[o] = msg.ver
                  /\ msg.ver = version[o] + 1 /\ (o \in requests' <=> o \in requests)
    <2>0. /\ Message("OBJECT_RESET", p, version[p] + 1) \in Messages
          /\ Write(Message("OBJECT_RESET", p, version[p] + 1))
      <3>1. version[p] + 1 \in Nat /\ p \in About
        BY <1>0 DEF TypeOK
      <3> QED
        BY <1>5, <3>1 DEF Change, Message, Messages, Commands
    <2>1. msg = Message("OBJECT_RESET", p, version[p] + 1)
      BY <1>2, <2>0
    <2>2. /\ msg.cmd = "OBJECT_RESET" /\ msg.about = p /\ msg.ver = version[p] + 1
      BY <2>1 DEF Message
    <2>3. version' = [version EXCEPT ![p] = version[p] + 1] /\ requests' = requests
      BY <1>5 DEF Change
    <2>4. version \in [Obj -> Nat]
      BY DEF TypeOK
    <2>5. Matches(msg, Reset(o)) <=> p = o
      BY <2>2 DEF Matches, Reset, Pattern
    <2> QED
      BY <2>2, <2>3, <2>4, <2>5
  <1>6. ASSUME NEW q \in requests, Answer(q)
        PROVE  \/ /\ ~Matches(msg, Reset(o))
                  /\ version'[o] = version[o] /\ (o \in requests' <=> o \in requests)
               \/ /\ Matches(msg, Reset(o)) /\ version'[o] = msg.ver /\ msg.ver = version[o]
    <2> DEFINE other == IF q \in Calls THEN Message("INVOKE_RETURN", q, 0)
                                       ELSE Message("OBJECT_RESET", q, version[q])
    <2>0. other \in Messages /\ Write(other)
      <3>1. q \in Obj \cup Calls /\ (q \in Obj => version[q] \in Nat)
        BY DEF TypeOK
      <3>2. CASE q \in Calls
        BY <1>0, <1>6, <3>2 DEF Answer, Messages, Message, Commands
      <3>3. CASE q \notin Calls
        BY <1>0, <1>6, <3>1, <3>3 DEF Answer, Messages, Message, Commands
      <3> QED
        BY <3>2, <3>3
    <2>1. msg = other
      BY <1>2, <2>0
    <2>2. version' = version /\ requests' = requests \ {q}
      BY <1>6 DEF Answer
    <2>3. CASE q \in Calls
      <3>1. msg.cmd = "INVOKE_RETURN" /\ q # o
        BY <2>1, <2>3, DispatchAssumption DEF Message
      <3>2. ~Matches(msg, Reset(o))
        BY <3>1 DEF Matches, Reset, Pattern
      <3> QED
        BY <2>2, <3>1, <3>2
    <2>4. CASE q \notin Calls
      <3>1. msg.cmd = "OBJECT_RESET" /\ msg.about = q /\ msg.ver = version[q]
        BY <2>1, <2>4 DEF Message
      <3>2. Matches(msg, Reset(o)) <=> q = o
        BY <3>1 DEF Matches, Reset, Pattern
      <3> QED
        BY <2>2, <3>1, <3>2
    <2> QED
      BY <2>3, <2>4
  <1> QED
    BY <1>1, <1>3, <1>4, <1>5, <1>6 DEF Backend

LEMMA BackendFresh ==
  ASSUME Inv, NEW o \in Obj, Fresh(o), Backend
  PROVE  Fresh(o)'
  <1> DEFINE S == Resets(o)
             H == Resets(o) \cap handled
  <1>0. TypeOK /\ handled \subseteq 1..parsed /\ parsed \in 0..Len(sent)
    BY ParsedWasSent DEF Inv
  <1>9. PICK n \in Nat : n = Len(sent) + 1
    BY <1>0, ResetsTyped
  <1>1. /\ S \in SUBSET Nat /\ H \in SUBSET S /\ version[o] \in Nat
        /\ Len(sent) \in Nat /\ \A i \in S : i \in 1..Len(sent) /\ i < n
    BY <1>0, <1>9, ResetsTyped
  <1>2. UNCHANGED <<parsed, stack, state, sync, result, handled, data>>
    BY DEF Backend, socketVars, syncVars, effectVars, setupVars
  <1>3. ASSUME NEW msg \in Messages, Write(msg)
        PROVE  /\ Len(sent') = n
               /\ \A i \in 1..Len(sent) : sent'[i] = sent[i]
               /\ sent'[n] = msg
    BY <1>0, <1>3, <1>9, AppendProperties DEF TypeOK, Messages, Write
  <1>4. n > parsed /\ n \notin handled
    BY <1>0, <1>9, <1>1
  <1>5. \A a : Ahead(a)' <=> Ahead(a)
    BY <1>2 DEF Ahead, OnTop
  <1>6. CASE /\ \E msg \in Messages : Write(msg) /\ ~Matches(msg, Reset(o))
             /\ version'[o] = version[o] /\ (o \in requests' <=> o \in requests)
    <2>1. PICK msg \in Messages : Write(msg) /\ ~Matches(msg, Reset(o))
      BY <1>6
    <2>2. /\ Len(sent') = n /\ \A i \in 1..Len(sent) : sent'[i] = sent[i]
          /\ sent'[n] = msg
      BY <1>3, <2>1
    <2>3. Resets(o)' = S
      BY <1>9, <1>1, <2>1, <2>2 DEF Resets, Reset
    <2>4. \A i \in S : Vers[i] = Vers'[i]
      BY <1>9, <1>1, <2>2 DEF Vers
    <2>5. (Resets(o) \cap handled)' = H /\ (o \in requests') = (o \in requests)
      BY <1>2, <1>6, <2>3
    <2> HIDE DEF S, H
    <2>6. /\ Current(S, Vers, version[o])
          /\ Shown(S, Vers, o \in requests, H, data[o])
      BY DEF Fresh, S, H
    <2>7. /\ Current(S, Vers', version[o]) /\ Shown(S, Vers', o \in requests, H, data[o])
          /\ \A j \in S : Repeats(S, Vers, j) => Repeats(S, Vers', j)
      BY <1>1, <2>4, <2>6, SameData
    <2>8. Awaited(o)'
      <3> SUFFICES ASSUME sync' = Reset(o)
                   PROVE  /\ state' = "Ready"
                          /\ result' = 0 =>
                               /\ (Resets(o) \cap handled)' = {}
                               /\ o \notin requests' =>
                                    \E a \in S : Repeats(S, Vers', a) /\ Ahead(a)'
        BY <2>3 DEF Awaited, Reset
      <3>1. /\ state = "Ready"
            /\ result = 0 =>
                 /\ H = {}
                 /\ o \notin requests => \E a \in S : Repeats(S, Vers, a) /\ Ahead(a)
        BY <1>2 DEF Fresh, Awaited, S, H
      <3> QED
        BY <1>2, <1>5, <1>6, <2>5, <2>7, <3>1
    <2>9. Current(Resets(o), Vers, version[o])'
      BY <1>6, <2>3, <2>7
    <2>10. Shown(Resets(o), Vers, o \in requests, Resets(o) \cap handled, data[o])'
      BY <1>2, <2>3, <2>5, <2>7
    <2> QED
      BY <2>8, <2>9, <2>10 DEF Fresh
  <1>7. CASE \E msg \in Messages :
              /\ Write(msg) /\ Matches(msg, Reset(o))
              /\ version'[o] = msg.ver
              /\ \/ msg.ver = version[o] + 1 /\ (o \in requests' <=> o \in requests)
                 \/ msg.ver = version[o]
    <2>1. PICK msg \in Messages :
              /\ Write(msg) /\ Matches(msg, Reset(o))
              /\ version'[o] = msg.ver
              /\ \/ msg.ver = version[o] + 1 /\ (o \in requests' <=> o \in requests)
                 \/ msg.ver = version[o]
      BY <1>7
    <2>2. /\ Len(sent') = n /\ \A i \in 1..Len(sent) : sent'[i] = sent[i]
          /\ sent'[n] = msg
      BY <1>3, <2>1
    <2>3. Resets(o)' = S \cup {n}
      BY <1>9, <1>1, <2>1, <2>2 DEF Resets, Reset
    <2>4. (\A i \in S : Vers[i] = Vers'[i]) /\ Vers'[n] = msg.ver
      BY <1>9, <1>1, <2>2 DEF Vers
    <2>5. (Resets(o) \cap handled)' = H
      BY <1>2, <1>4, <2>3
    <2> DEFINE T == S \cup {n}
    <2> HIDE DEF S, H
    <2>6. /\ Current(S, Vers, version[o])
          /\ Shown(S, Vers, o \in requests, H, data[o])
      BY DEF Fresh, S, H
    <2>7. Vers'[n] \in {version[o], version[o] + 1}
      BY <2>1, <2>4
    <2> DEFINE now == o \in requests'
    <2> HIDE DEF now
    <2>9. /\ Current(T, Vers', Vers'[n]) /\ Shown(T, Vers', now, H, data[o])
          /\ Vers'[n] = version[o] => Repeats(T, Vers', n)
          /\ \A j \in S : Repeats(S, Vers, j) => Repeats(T, Vers', j)
      BY ONLY <1>1, <2>4, <2>6, <2>7, ResetSent
    <2> HIDE DEF T
    <2>10. Awaited(o)'
      <3> SUFFICES ASSUME sync' = Reset(o)
                   PROVE  /\ state' = "Ready"
                          /\ result' = 0 =>
                               /\ (Resets(o) \cap handled)' = {}
                               /\ o \notin requests' =>
                                    \E a \in T : Repeats(T, Vers', a) /\ Ahead(a)'
        BY <2>3 DEF Awaited, Reset, T
      <3>1. /\ state = "Ready"
            /\ result = 0 =>
                 /\ H = {}
                 /\ o \notin requests => \E a \in S : Repeats(S, Vers, a) /\ Ahead(a)
        BY <1>2 DEF Fresh, Awaited, S, H
      <3>2. CASE msg.ver = version[o]
        <4>1. n \in T /\ Repeats(T, Vers', n) /\ Ahead(n)'
          BY <1>2, <1>4, <2>4, <2>9, <3>2 DEF T, Ahead
        <4> QED
          BY <1>2, <2>5, <3>1, <4>1
      <3>3. CASE o \in requests' <=> o \in requests
        <4>1. \A a \in S : Repeats(S, Vers, a) /\ Ahead(a)
                             => a \in T /\ Repeats(T, Vers', a) /\ Ahead(a)'
          BY <1>5, <2>9 DEF T
        <4> QED
          BY <1>2, <2>5, <3>1, <3>3, <4>1
      <3> QED
        BY <2>1, <3>2, <3>3
    <2>11. Current(Resets(o), Vers, version[o])'
      BY <2>1, <2>3, <2>4, <2>9 DEF T
    <2>12. Shown(Resets(o), Vers, o \in requests, Resets(o) \cap handled, data[o])'
      BY <1>2, <2>3, <2>5, <2>9 DEF T, now
    <2> QED
      BY <2>10, <2>11, <2>12 DEF Fresh
  <1> QED
    BY <1>0, <1>6, <1>7, BackendKind

-----------------------------------------------------------------------------
(* Handling a message.                                                      *)

\* The message is put off, or it does what it says.
PutsOff(m) ==
  /\ ~DoDeliver(m)
  /\ UNCHANGED <<state, result, handled, data>>
Delivers(m) ==
  /\ DoDeliver(m) /\ handled' = handled \cup {m}
  /\ result' = IF sync = NoWait THEN result ELSE m
  /\ state = "Ready" => state' = "Ready"
  /\ \A o \in Obj : data'[o] = IF Matches(sent[m], Reset(o)) THEN sent[m].ver ELSE data[o]

LEMMA HandleData ==
  ASSUME Inv, NEW m \in 1..Len(sent), m \notin handled, NEW frames, HandleMessage(m, frames)
  PROVE  PutsOff(m) \/ Delivers(m)
  <1>1. CASE ~DoDeliver(m)
    <2>1. UNCHANGED <<state, result, handled, data>>
      BY <1>1 DEF HandleMessage, PutOff, effectVars, setupVars
    <2> QED
      BY <1>1, <2>1 DEF PutsOff
  <1>2. CASE DoDeliver(m)
    <2>1. Deliver(m, frames)
      BY <1>2 DEF HandleMessage
    <2>2. /\ handled' = handled \cup {m}
          /\ result' = IF sync = NoWait THEN result ELSE m
          /\ state = "Ready" => state' = "Ready"
      BY <1>2, <2>1, DeliverCases DEF Inv
    <2>3. data \in [Obj -> Nat]
      BY DEF Inv, TypeOK
    <2>4. \A o \in Obj : data'[o] = IF Matches(sent[m], Reset(o))
                                   THEN sent[m].ver ELSE data[o]
      <3> SUFFICES ASSUME NEW o \in Obj
                   PROVE  data'[o] = IF Matches(sent[m], Reset(o))
                                       THEN sent[m].ver ELSE data[o]
        OBVIOUS
      <3>1. CASE sent[m].cmd = "OBJECT_RESET"
        <4>1. data' = [data EXCEPT ![sent[m].about] = sent[m].ver]
          BY <2>1, <3>1 DEF Deliver
        <4>2. Matches(sent[m], Reset(o)) <=> sent[m].about = o
          BY <3>1 DEF Matches, Reset, Pattern
        <4> QED
          BY <2>3, <4>1, <4>2
      <3>2. CASE sent[m].cmd # "OBJECT_RESET"
        <4>1. data' = data
          BY <2>1, <3>2 DEF Deliver
        <4>2. ~Matches(sent[m], Reset(o))
          BY <3>2 DEF Matches, Reset, Pattern
        <4> QED
          BY <4>1, <4>2
      <3> QED
        BY <3>1, <3>2
    <2> QED
      BY <1>2, <2>2, <2>4 DEF Delivers
  <1> QED
    BY <1>1, <1>2

\* What a flush has left is in order.
LEMMA RestInOrder ==
  ASSUME Inv, OnTop("flush")
  PROVE  /\ Head(stack).rest \in Seq(Nat) /\ Sorted(Head(stack).rest)
         /\ Range(Head(stack).rest) \subseteq (1..parsed) \ handled
  <1> HIDE DEF Frames, NoWait, Complete
  <1>1. PICK outer, inner \in Seq(Nat) :
          Listed(outer, pending, inner, parsed, handled) /\ Shape(outer, inner)
    BY DEF Inv, Queued
  <1>2. stack # <<>> /\ Head(stack).kind = "flush" /\ stack \in Seq(Frames)
    BY DEF Inv, TypeOK, OnTop
  <1>3. ShapeByTop(outer, inner)
    BY <1>1, <1>2, TopOfShape
  <1>4. Head(stack).rest = outer \/ Head(stack).rest = inner \/ Head(stack).rest = <<>>
    BY <1>2, <1>3 DEF ShapeByTop
  <1>5. /\ Sorted(outer) /\ Sorted(inner)
        /\ Range(outer) \subseteq (1..parsed) \ handled
        /\ Range(inner) \subseteq (1..parsed) \ handled
    BY <1>1 DEF Listed
  <1> QED
    BY <1>1, <1>4, <1>5, EmptyIsSorted

\* A message is handled: m is the oldest of what is ahead, and if it is put off,
\* the others still are.
LEMMA HandledFresh ==
  ASSUME Inv, NEW o \in Obj, Fresh(o),
         UNCHANGED <<sent, version, requests, sync>>, HandlesInTurn,
         NEW m \in 1..Len(sent), m \notin handled,
         PutsOff(m) \/ Delivers(m),
         \A a \in Nat : Ahead(a) => m <= a,
         PutsOff(m) => \A a \in Nat : a # m /\ Ahead(a) => Ahead(a)'
  PROVE  Fresh(o)'
  <1> DEFINE S == Resets(o)
             H == Resets(o) \cap handled
             asked == o \in requests
  <1>1. /\ S \in SUBSET Nat /\ H \in SUBSET S /\ version[o] \in Nat /\ Len(sent) \in Nat
        /\ \A i \in S : i \in 1..Len(sent) /\ Vers[i] = sent[i].ver
        /\ \A i \in 1..Len(sent) : i \in S <=> Matches(sent[i], Reset(o))
    BY ResetsTyped DEF Inv
  <1>2. Resets(o)' = S /\ Vers' = Vers /\ (o \in requests') = asked
    BY DEF Resets, Vers, Reset
  <1>3. /\ Current(S, Vers, version[o]) /\ Shown(S, Vers, asked, H, data[o])
    BY DEF Fresh
  <1>4. sync = Reset(o) =>
          /\ state = "Ready"
          /\ result = 0 => /\ H = {}
                           /\ ~asked => \E a \in S : Repeats(S, Vers, a) /\ Ahead(a)
    BY DEF Fresh, Awaited
  <1>5. Reset(o) # NoWait /\ m \in Nat /\ m # 0
    BY <1>1 DEF Reset, NoWait, Pattern
  <1>6. (Resets(o) \cap handled)' = S \cap handled'
    BY <1>2
  <1> HIDE DEF S, asked, NoWait, Reset
  <1>7. CASE PutsOff(m)
    <2>1. UNCHANGED <<state, result, handled, data>> /\ ~DoDeliver(m)
      BY <1>7 DEF PutsOff
    <2>2. S \cap handled' = H
      BY <2>1 DEF S
    <2>3. Awaited(o)'
      <3> SUFFICES ASSUME sync' = Reset(o), result' = 0, ~asked
                   PROVE  \E a \in S : Repeats(S, Vers, a) /\ Ahead(a)'
        BY <1>2, <1>4, <1>6, <2>1, <2>2 DEF Awaited, Reset
      <3>1. state = "Ready" /\ \E a \in S : Repeats(S, Vers, a) /\ Ahead(a)
        BY <1>4, <2>1
      <3>2. PICK a \in S : Repeats(S, Vers, a) /\ Ahead(a)
        BY <3>1
      <3>3. ~Matches(sent[m], Reset(o))
        BY <2>1, <3>1 DEF DoDeliver
      <3>4. a # m /\ a \in Nat
        BY <1>1, <3>3
      <3>5. Ahead(a)'
        BY <1>7, <3>2, <3>4
      <3> QED
        BY <3>2, <3>5
    <2> QED
      BY <1>2, <1>3, <1>6, <2>1, <2>2, <2>3 DEF Fresh
  <1>8. CASE Delivers(m)
    <2>1. /\ DoDeliver(m) /\ handled' = handled \cup {m}
          /\ result' = IF sync = NoWait THEN result ELSE m
          /\ state = "Ready" => state' = "Ready"
          /\ data'[o] = IF Matches(sent[m], Reset(o)) THEN sent[m].ver ELSE data[o]
      BY <1>8 DEF Delivers
    <2>2. Awaited(o)'
      <3> SUFFICES ASSUME sync' = Reset(o)
                   PROVE  state' = "Ready" /\ result' # 0
        BY DEF Awaited, Reset
      <3> QED
        BY <1>4, <1>5, <2>1
    <2>3. CASE m \notin S
      <3>1. S \cap handled' = H /\ data'[o] = data[o]
        BY <1>1, <2>1, <2>3 DEF S
      <3> QED
        BY <1>2, <1>3, <1>6, <2>2, <3>1 DEF Fresh
    <2>4. CASE m \in S
      <3>1. /\ S \cap handled' = H \cup {m} /\ data'[o] = Vers[m] /\ m \in S \ H
            /\ Matches(sent[m], Reset(o))
        BY <1>1, <2>1, <2>4 DEF S
      <3>2. CASE sync = NoWait
        <4>1. 1..(m - 1) \subseteq handled
          BY <2>1, <3>2 DEF HandlesInTurn
        <4>2. \A j \in S : j < m => j \in H
          <5> SUFFICES ASSUME NEW j \in S, j < m
                       PROVE  j \in H
            OBVIOUS
          <5>1. j \in 1..(m - 1)
            BY <1>1, <1>5
          <5> QED
            BY <4>1, <5>1 DEF S
        <4> HIDE DEF H
        <4>3. Shown(S, Vers, asked, H \cup {m}, Vers[m])
          BY <1>1, <1>3, <3>1, <4>2, ResetInTurn
        <4> QED
          BY <1>2, <1>3, <1>6, <2>2, <3>1, <4>3 DEF Fresh
      <3>3. CASE sync # NoWait
        <4>1. sync = Reset(o) /\ result = 0
          <5>1. Matches(sent[m], sync) /\ result = 0
            BY <2>1, <3>3 DEF DoDeliver
          <5>2. sync \in Patterns
            BY DEF Inv, TypeOK
          <5> QED
            BY <3>1, <5>1, <5>2 DEF Matches, Reset, Pattern, Patterns
        <4>2. H = {} /\ (~asked => \E a \in S : Repeats(S, Vers, a) /\ Ahead(a))
          BY <1>4, <4>1
        <4>3. Harmless(S, Vers, asked, m)
          <5>1. CASE asked
            BY <5>1 DEF Harmless
          <5>2. CASE ~asked
            <6>1. PICK a \in S : Repeats(S, Vers, a) /\ Ahead(a)
              BY <4>2, <5>2
            <6>2. a \in Nat /\ m <= a
              BY <1>1, <6>1
            <6>3. a = m \/ m < a
              BY <1>5, <6>2
            <6> QED
              BY <6>1, <6>3 DEF Harmless
          <5> QED
            BY <5>1, <5>2
        <4> HIDE DEF H
        <4>4. Shown(S, Vers, asked, {m}, Vers[m])
          BY <1>1, <2>4, <4>3, FirstOutOfTurn
        <4>5. H \cup {m} = {m}
          BY <4>2
        <4> QED
          BY <1>2, <1>3, <1>6, <2>2, <3>1, <4>4, <4>5 DEF Fresh
      <3> QED
        BY <3>2, <3>3
    <2> QED
      BY <2>3, <2>4
  <1> QED
    BY <1>7, <1>8

\* Nothing is handled, and what was ahead still is.
LEMMA NothingFresh ==
  ASSUME Inv, NEW o \in Obj, Fresh(o),
         UNCHANGED <<sent, version, requests, sync, result, state, handled, data>>,
         \A a \in Nat : Ahead(a) => Ahead(a)'
  PROVE  Fresh(o)'
  <1> DEFINE S == Resets(o)
  <1>1. S \in SUBSET Nat
    BY ResetsTyped DEF Inv
  <1>2. Resets(o)' = S /\ Vers' = Vers
    BY DEF Resets, Vers, Reset
  <1> HIDE DEF S
  <1>3. Awaited(o)'
    <2> SUFFICES ASSUME sync' = Reset(o)
                 PROVE  /\ state' = "Ready"
                        /\ result' = 0 =>
                             /\ S \cap handled' = {}
                             /\ o \notin requests' =>
                                  \E a \in S : Repeats(S, Vers, a) /\ Ahead(a)'
      BY <1>2 DEF Awaited, Reset
    <2>1. /\ state = "Ready"
          /\ result = 0 =>
               /\ S \cap handled = {}
               /\ o \notin requests => \E a \in S : Repeats(S, Vers, a) /\ Ahead(a)
      BY DEF Fresh, Awaited, S
    <2> QED
      BY <1>1, <2>1
  <1>4. /\ Current(S, Vers, version[o])
        /\ Shown(S, Vers, o \in requests, S \cap handled, data[o])
    BY DEF Fresh, S
  <1> QED
    BY <1>2, <1>3, <1>4 DEF Fresh

LEMMA ParseFresh ==
  ASSUME Inv, NEW o \in Obj, Fresh(o), Parse
  PROVE  Fresh(o)'
  <1>1. /\ UNCHANGED <<sent, version, requests, read, sync>>
        /\ stack # <<>> /\ Head(stack).kind = "data"
    BY DEF Parse, OnTop, backendVars
  <1>2. ~OnTop("flush") /\ \A a : Ahead(a) => a > parsed
    BY <1>1 DEF OnTop, Ahead
  <1>3. parsed \in Nat /\ handled \subseteq 1..parsed /\ HandlesInTurn
    BY ParseInTurn DEF Inv, TypeOK
  <1>4. CASE ~Complete
    <2>1. UNCHANGED <<parsed, state, result, handled, data>>
      BY <1>4 DEF Parse, effectVars, setupVars
    <2>2. \A a \in Nat : Ahead(a) => Ahead(a)'
      <3> SUFFICES ASSUME NEW a \in Nat, Ahead(a)
                   PROVE  Ahead(a)'
        OBVIOUS
      <3>1. a > parsed'
        BY <1>2, <2>1
      <3> QED
        BY <3>1 DEF Ahead
    <2> QED
      BY <1>1, <2>1, <2>2, NothingFresh
  <1>5. CASE Complete
    <2>1. PICK m \in 1..Len(sent) : m = parsed + 1
      BY <1>5, ParsedWasSent DEF Inv
    <2>2. parsed' = m /\ HandleMessage(m, stack)
      BY <1>5, <2>1 DEF Parse
    <2>3. m \notin handled
      BY <1>3, <2>1
    <2>4. PutsOff(m) \/ Delivers(m)
      BY <2>2, <2>3, HandleData
    <2>5. \A a \in Nat : Ahead(a) => m <= a
      BY <1>2, <1>3, <2>1
    <2>6. \A a \in Nat : a # m /\ Ahead(a) => Ahead(a)'
      <3> SUFFICES ASSUME NEW a \in Nat, a # m, Ahead(a)
                   PROVE  Ahead(a)'
        OBVIOUS
      <3>1. a > parsed'
        BY <1>2, <1>3, <2>1, <2>2
      <3> QED
        BY <3>1 DEF Ahead
    <2> QED
      BY <1>1, <1>3, <2>3, <2>4, <2>5, <2>6, HandledFresh
  <1> QED
    BY <1>4, <1>5

LEMMA FlushFresh ==
  ASSUME Inv, NEW o \in Obj, Fresh(o), FlushNext
  PROVE  Fresh(o)'
  <1> HIDE DEF Frames
  <1>1. /\ UNCHANGED <<sent, version, requests, parsed, sync>>
        /\ OnTop("flush") /\ stack \in Seq(Frames) /\ stack # <<>>
    BY DEF FlushNext, OnTop, backendVars, socketVars, Inv, TypeOK
  <1>2. PICK rest \in Seq(Nat) : rest = Head(stack).rest
    BY <1>1, RestInOrder
  <1>3. /\ Sorted(rest) /\ Range(rest) \subseteq (1..parsed) \ handled
        /\ \A a : Ahead(a) <=> a > parsed \/ a \in Range(rest)
    BY <1>1, <1>2, RestInOrder DEF Ahead
  <1>4. parsed \in Nat /\ HandlesInTurn
    BY FlushInTurn DEF Inv, TypeOK
  <1>5. CASE rest = <<>>
    <2>1. UNCHANGED <<state, result, handled, data>>
      BY <1>2, <1>5 DEF FlushNext, effectVars, setupVars
    <2>2. \A a \in Nat : Ahead(a) => Ahead(a)'
      <3> SUFFICES ASSUME NEW a \in Nat, Ahead(a)
                   PROVE  Ahead(a)'
        OBVIOUS
      <3>1. a > parsed'
        BY <1>1, <1>3, <1>5, EmptyIsSorted
      <3> QED
        BY <3>1 DEF Ahead
    <2> QED
      BY <1>1, <2>1, <2>2, NothingFresh
  <1>6. CASE rest # <<>>
    <2>1. /\ Head(rest) \in Nat /\ Tail(rest) \in Seq(Nat)
          /\ Range(rest) = {Head(rest)} \cup Range(Tail(rest))
          /\ Older({Head(rest)}, Range(Tail(rest)))
      BY <1>3, <1>6, HeadIsOldest
    <2>2. Head(rest) \in 1..Len(sent)
      BY <1>1, <1>2, <1>6, RestWasParsed
    <2>3. PICK m \in 1..Len(sent) : m = Head(rest)
      BY <2>2
    <2>4. PICK frames : frames = On(FlushFrame(Tail(rest)), Tail(stack))
      OBVIOUS
    <2>5. HandleMessage(m, frames)
      BY <1>2, <1>6, <2>3, <2>4 DEF FlushNext, On
    <2>6. m \in (1..parsed) \ handled /\ m \in Nat
      BY <1>3, <2>1, <2>3
    <2>7. PutsOff(m) \/ Delivers(m)
      BY <2>5, <2>6, HandleData
    <2>8. \A a \in Nat : Ahead(a) => m <= a
      BY <1>3, <1>4, <2>1, <2>3, <2>6 DEF Older
    <2>9. ASSUME PutsOff(m)
          PROVE  \A a \in Nat : a # m /\ Ahead(a) => Ahead(a)'
      <3>1. stack' = frames
        BY <2>5, <2>9 DEF PutsOff, HandleMessage, PutOff
      <3>2. OnTop("flush")' /\ Head(stack').rest = Tail(rest)
        <4>1. FlushFrame(Tail(rest)) \in Frames /\ Tail(stack) \in Seq(Frames)
          BY <1>1, <2>1, FramesTyped, HeadTailProperties
        <4>2. frames # <<>> /\ Head(frames) = FlushFrame(Tail(rest))
          BY <2>4, <4>1, OnTopOf
        <4> QED
          BY <2>1, <3>1, <4>2, FramesTyped DEF OnTop
      <3> SUFFICES ASSUME NEW a \in Nat, a # m, Ahead(a)
                   PROVE  Ahead(a)'
        OBVIOUS
      <3>3. a > parsed' \/ a \in Range(Tail(rest))
        BY <1>1, <1>3, <2>1, <2>3
      <3> QED
        BY <3>2, <3>3 DEF Ahead
    <2> QED
      BY <1>1, <1>4, <2>6, <2>7, <2>8, <2>9, HandledFresh
  <1> QED
    BY <1>5, <1>6

-----------------------------------------------------------------------------
(* The thread, JavaScript and the set up.                                   *)

\* While somebody waits neither the event loop nor JavaScript runs.
LEMMA NobodyWaits ==
  ASSUME Inv, stack = <<>> \/ OnTop("js")
  PROVE  /\ sync = NoWait
         /\ OnTop("js") => state = "Ready"
  <1> HIDE DEF Frames, NoWait, Complete
  <1>1. PICK outer, inner \in Seq(Nat) :
          Listed(outer, pending, inner, parsed, handled) /\ Shape(outer, inner)
    BY DEF Inv, Queued
  <1>2. ShapeByTop(outer, inner)
    BY <1>1, TopOfShape DEF Inv, TypeOK
  <1> QED
    BY <1>2 DEF ShapeByTop, OnTop

LEMMA NoResetWait ==
  /\ \A o : Reset(o) # NoWait
  /\ \A o, cmd, about : cmd # "OBJECT_RESET" => Pattern(cmd, about) # Reset(o)
  /\ \A o, p : Reset(p) = Reset(o) => p = o
  BY DEF Reset, Pattern, NoWait

LEMMA WaitFresh ==
  ASSUME Inv, NEW o \in Obj, Fresh(o), WaitForBytes \/ EndWait
  PROVE  Fresh(o)'
  <1> HIDE DEF NoWait
  <1>1. /\ UNCHANGED <<sent, version, requests, parsed, handled, data, state>>
        /\ OnTop("wait")
    BY DEF WaitForBytes, EndWait, ReadSocket, backendVars, socketVars, effectVars, setupVars
  <1>2. CASE WaitForBytes
    <2>1. UNCHANGED <<sync, result>>
      BY <1>2 DEF WaitForBytes, syncVars
    <2>2. \A a \in Nat : Ahead(a) => Ahead(a)'
      BY <1>1 DEF Ahead, OnTop
    <2> QED
      BY <1>1, <2>1, <2>2, NothingFresh
  <1>3. CASE EndWait
    <2>1. sync' # Reset(o)
      BY <1>3, EndWaitInTurn, NoResetWait
    <2> QED
      BY <1>1, <2>1, FreshAnyway
  <1> QED
    BY <1>2, <1>3

LEMMA ReadFresh ==
  ASSUME Inv, NEW o \in Obj, Fresh(o), NEW p \in Obj, ReadProperty(p)
  PROVE  Fresh(o)'
  <1>1. /\ OnTop("js") /\ data[p] = 0 /\ requests' = requests \cup {p}
        /\ sync' = Reset(p) /\ UNCHANGED <<sent, version, state, handled, data>>
    BY DEF ReadProperty, BeginWait, effectVars, setupVars, Reset
  <1>2. CASE p # o
    <2>1. sync' # Reset(o)
      BY <1>1, <1>2, NoResetWait
    <2> QED
      BY <1>1, <1>2, <2>1, FreshAnyway
  <1>3. CASE p = o
    <2> DEFINE S == Resets(o)
               H == Resets(o) \cap handled
    <2>1. S \in SUBSET Nat /\ H \in SUBSET S
      BY ResetsTyped DEF Inv
    <2>2. Resets(o)' = S /\ Vers' = Vers /\ (Resets(o) \cap handled)' = H
      BY <1>1 DEF Resets, Vers, Reset
    <2>3. /\ Current(S, Vers, version[o])
          /\ Shown(S, Vers, o \in requests, H, data[o])
      BY DEF Fresh
    <2> HIDE DEF S, H
    <2>4. H = {}
      <3> SUFFICES ASSUME H # {}
                   PROVE  FALSE
        OBVIOUS
      <3>1. PICK k \in H : data[o] = Vers[k]
        BY <2>3 DEF Shown, Shows
      <3>2. Vers[k] >= 1
        BY <2>1, <2>3 DEF Current
      <3> QED
        BY <1>1, <1>3, <3>1, <3>2
    <2>5. o \in requests' /\ state = "Ready"
      BY <1>1, <1>3, NobodyWaits
    <2>6. Awaited(o)'
      BY <1>1, <2>2, <2>4, <2>5 DEF Awaited
    <2>7. Shown(S, Vers, TRUE, H, data[o])
      BY <2>3, <2>4 DEF Shown
    <2>8. (o \in requests') = TRUE
      BY <2>5
    <2> QED
      BY <1>1, <2>2, <2>3, <2>6, <2>7, <2>8 DEF Fresh
  <1> QED
    BY <1>2, <1>3

LEMMA OthersFresh ==
  ASSUME Inv, NEW o \in Obj, Fresh(o),
         HandlePosted \/ DataReady \/ RunJS \/ EndJS \/ ReadRoot \/ Setup \/ SetQmlEngine
           \/ (\E c \in Calls : Invoke(c) \/ DeleteProxy(c))
  PROVE  Fresh(o)'
  <1> HIDE DEF NoWait
  <1> USE DEF backendVars, socketVars, syncVars, setupVars, effectVars
  <1>1. stack = <<>> \/ OnTop("js")
    BY DEF HandlePosted, DataReady, RunJS, EndJS, ReadRoot, Setup, SetBackendIo,
           EnsureVersion, EnsureTypes, EnsureRoot, SetQmlEngine, Invoke, DeleteProxy,
           EventLoop, Inv, Unconnected
  <1>2. sync = NoWait
    BY <1>1, NobodyWaits
  <1>3. ASSUME NEW cmd \in {"VERSION", "CREATABLE_TYPES", "ROOT"},
               BeginWait(Pattern(cmd, Nothing))
        PROVE  sync' # Reset(o)
    <2>1. sync' = Pattern(cmd, Nothing)
      BY <1>3 DEF BeginWait
    <2> QED
      BY <2>1, NoResetWait
  <1>4. sync' # Reset(o) /\ UNCHANGED <<sent, version, handled, data>>
        /\ (o \in requests' <=> o \in requests)
    <2>1. CASE HandlePosted \/ DataReady \/ RunJS \/ EndJS \/ SetQmlEngine
      BY <1>2, <2>1, NoResetWait DEF HandlePosted, DataReady, RunJS, EndJS, SetQmlEngine
    <2>2. CASE ReadRoot
      BY <1>3, <2>2 DEF ReadRoot
    <2>3. CASE SetBackendIo
      BY <1>2, <2>3, NoResetWait DEF SetBackendIo
    <2>4. CASE EnsureVersion
      BY <1>2, <1>3, <2>4, NoResetWait DEF EnsureVersion
    <2>5. CASE EnsureTypes
      BY <1>2, <1>3, <2>5, NoResetWait DEF EnsureTypes
    <2>6. CASE EnsureRoot
      BY <1>2, <1>3, <2>6, NoResetWait DEF EnsureRoot
    <2>7. ASSUME NEW c \in Calls, Invoke(c) \/ DeleteProxy(c)
          PROVE  sync' # Reset(o) /\ UNCHANGED <<sent, version, handled, data>>
                 /\ (o \in requests' <=> o \in requests)
      <3>1. c # o
        BY DispatchAssumption
      <3> QED
        BY <1>2, <2>7, <3>1, NoResetWait DEF Invoke, DeleteProxy
    <2> QED
      BY <2>1, <2>2, <2>3, <2>4, <2>5, <2>6, <2>7 DEF Setup
  <1> QED
    BY <1>4, FreshAnyway

-----------------------------------------------------------------------------
(* The theorem.                                                             *)

AllFresh == \A o \in Obj : Fresh(o)

LEMMA InitFresh ==
  ASSUME Init
  PROVE  AllFresh
  <1> SUFFICES ASSUME NEW o \in Obj
               PROVE  Fresh(o)
    BY DEF AllFresh
  <1>1. sent = <<>> /\ Len(sent) = 0
    BY EmptySeq DEF Init
  <1>2. Resets(o) = {}
    BY <1>1 DEF Resets
  <1>3. version[o] = 1 /\ data[o] = 0 /\ sync = NoWait
    BY DEF Init
  <1>4. Awaited(o)
    BY <1>3, NoResetWait DEF Awaited
  <1>5. Current(Resets(o), Vers, version[o])
    BY <1>2, <1>3 DEF Current
  <1>6. Shown(Resets(o), Vers, o \in requests, Resets(o) \cap handled, data[o])
    BY <1>2, <1>3 DEF Shown
  <1> QED
    BY <1>4, <1>5, <1>6 DEF Fresh

LEMMA NextFresh ==
  ASSUME Inv, AllFresh, [Next]_vars
  PROVE  AllFresh'
  <1> SUFFICES ASSUME NEW o \in Obj
               PROVE  Fresh(o)'
    BY DEF AllFresh
  <1>1. Fresh(o)
    BY DEF AllFresh
  <1>2. CASE Backend
    BY <1>1, <1>2, BackendFresh
  <1>3. CASE Handle
    BY <1>1, <1>3, ParseFresh, FlushFresh DEF Handle
  <1>4. CASE WaitForBytes \/ EndWait
    BY <1>1, <1>4, WaitFresh
  <1>5. CASE \E p \in Obj : ReadProperty(p)
    BY <1>1, <1>5, ReadFresh
  <1>6. CASE HandlePosted \/ DataReady \/ RunJS \/ EndJS \/ ReadRoot \/ Setup \/ SetQmlEngine
               \/ (\E c \in Calls : Invoke(c) \/ DeleteProxy(c))
    BY <1>1, <1>6, OthersFresh
  <1>7. CASE UNCHANGED vars
    <2>1. /\ UNCHANGED <<sent, version, requests, sync, result, state, handled, data>>
          /\ UNCHANGED <<stack, parsed>>
      BY <1>7 DEF vars, backendVars, socketVars, syncVars, effectVars, setupVars
    <2>2. \A a \in Nat : Ahead(a) => Ahead(a)'
      BY <2>1 DEF Ahead, OnTop
    <2> QED
      BY <1>1, <2>1, <2>2, NothingFresh
  <1> QED
    BY <1>2, <1>3, <1>4, <1>5, <1>6, <1>7 DEF Next, JavaScript

\* When nothing is in flight, each proxy shows the last data that the backend sent,
\* or none if there was no need to send any: data that a blocked read has taken past
\* older data (waitForMessage, qbackendconnection.cpp:559) are not overwritten for
\* good by the older ones that are handled afterwards.
THEOREM LastDataShown == Spec => []FreshWhenQuiet
  <1>1. Inv /\ AllFresh => FreshWhenQuiet
    <2> SUFFICES ASSUME Inv, AllFresh, Quiet, NEW o \in Obj
                 PROVE  data[o] = version[o] \/ (data[o] = 0 /\ version[o] = 1)
      BY DEF FreshWhenQuiet
    <2>1. 1..parsed \subseteq handled /\ parsed = Len(sent)
      <3>1. Listed(<<>>, <<>>, <<>>, parsed, handled)
        BY AtRest DEF Quiet
      <3> QED
        BY <3>1, ListedNothing DEF Quiet
    <2>2. Resets(o) \in SUBSET Nat
      BY ResetsTyped DEF Inv
    <2>3. Resets(o) \cap handled = Resets(o) /\ (o \in requests) = FALSE
      BY <2>1 DEF Resets, Quiet
    <2>4. /\ Current(Resets(o), Vers, version[o])
          /\ Shown(Resets(o), Vers, FALSE, Resets(o), data[o])
      BY <2>3 DEF AllFresh, Fresh
    <2> QED
      BY <2>2, <2>4, ShownIsCurrent
  <1>2. Init => Inv /\ AllFresh
    BY InitInv, InitFresh
  <1>3. Inv /\ AllFresh /\ [Next]_vars => Inv' /\ AllFresh'
    BY NextInv, NextFresh
  <1> QED
    BY <1>1, <1>2, <1>3, PTL DEF Spec
=============================================================================
