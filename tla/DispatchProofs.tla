---------------------------- MODULE DispatchProofs ----------------------------
(***************************************************************************)
(* What holds of the plugin's connection for any objects and calls, any      *)
(* number of messages and any way they arrive in pieces: it handles them in  *)
(* turn (it implements Delivery), and the handshake is in order.             *)
(***************************************************************************)
EXTENDS Dispatch, SequenceTheorems, TLAPS

-----------------------------------------------------------------------------
(* Sequences of messages in the order they were sent.                       *)

Sorted(s) == \A i, j \in 1..Len(s) : i < j => s[i] < s[j]
Older(S, T) == \A x \in S, y \in T : x < y

LEMMA EmptyIsSorted == <<>> \in Seq(Nat) /\ Sorted(<<>>) /\ Range(<<>>) = {}
  <1>1. <<>> \in Seq(Nat) /\ Len(<<>>) = 0
    BY EmptySeq
  <1>2. Range(<<>>) = {<<>>[i] : i \in 1..Len(<<>>)}
    BY <1>1, RangeEquality
  <1> QED
    BY <1>1, <1>2 DEF Sorted

LEMMA HeadIsOldest ==
  ASSUME NEW s \in Seq(Nat), s # <<>>, Sorted(s)
  PROVE  /\ Head(s) \in Nat /\ Tail(s) \in Seq(Nat)
         /\ Sorted(Tail(s))
         /\ Range(s) = {Head(s)} \cup Range(Tail(s))
         /\ Older({Head(s)}, Range(Tail(s)))
  <1>1. /\ Head(s) \in Nat /\ Tail(s) \in Seq(Nat)
        /\ Len(Tail(s)) = Len(s) - 1
        /\ \A i \in 1..Len(Tail(s)) : Tail(s)[i] = s[i + 1]
    BY HeadTailProperties
  <1>2. Len(s) \in Nat /\ Len(s) > 0 /\ Head(s) = s[1]
    BY EmptySeq, LenProperties
  <1>3. Range(s) = {s[i] : i \in 1..Len(s)}
    BY RangeEquality
  <1>4. Range(Tail(s)) = {Tail(s)[i] : i \in 1..Len(Tail(s))}
    BY <1>1, RangeEquality
  <1>5. Sorted(Tail(s))
    BY <1>1, <1>2 DEF Sorted
  <1>6. ASSUME NEW x \in Range(Tail(s))
        PROVE  x \in Range(s) /\ Head(s) < x
    <2>1. PICK i \in 1..Len(Tail(s)) : x = Tail(s)[i]
      BY <1>4
    <2>2. i + 1 \in 1..Len(s) /\ x = s[i + 1] /\ 1 < i + 1 /\ 1 \in 1..Len(s)
      BY <1>1, <1>2, <2>1
    <2> QED
      BY <1>2, <1>3, <2>2 DEF Sorted
  <1>7. ASSUME NEW x \in Range(s), x # Head(s)
        PROVE  x \in Range(Tail(s))
    <2>1. PICK i \in 1..Len(s) : x = s[i]
      BY <1>3
    <2>2. i - 1 \in 1..Len(Tail(s)) /\ i = (i - 1) + 1
      BY <1>1, <1>2, <1>7, <2>1
    <2>3. Tail(s)[i - 1] = s[i]
      BY <1>1, <2>2
    <2> QED
      BY <1>4, <2>1, <2>2, <2>3
  <1>8. Head(s) \in Range(s)
    BY <1>2, <1>3
  <1>9. Range(s) = {Head(s)} \cup Range(Tail(s))
    BY <1>6, <1>7, <1>8
  <1> QED
    BY <1>1, <1>5, <1>6, <1>9 DEF Older

LEMMA AppendNewest ==
  ASSUME NEW s \in Seq(Nat), Sorted(s), NEW m \in Nat, Older(Range(s), {m})
  PROVE  /\ Append(s, m) \in Seq(Nat)
         /\ Sorted(Append(s, m))
         /\ Range(Append(s, m)) = Range(s) \cup {m}
  <1> DEFINE t == Append(s, m)
  <1>1. /\ t \in Seq(Nat)
        /\ Len(t) = Len(s) + 1
        /\ \A i \in 1..Len(s) : t[i] = s[i]
        /\ t[Len(s) + 1] = m
    BY AppendProperties
  <1>2. Len(s) \in Nat
    BY LenProperties
  <1>3. Range(s) = {s[i] : i \in 1..Len(s)} /\ Range(t) = {t[i] : i \in 1..Len(t)}
    BY <1>1, RangeEquality
  <1> HIDE DEF t
  <1>4. Sorted(t)
    <2> SUFFICES ASSUME NEW i \in 1..Len(t), NEW j \in 1..Len(t), i < j
                 PROVE  t[i] < t[j]
      BY DEF Sorted
    <2>1. i \in 1..Len(s) /\ t[i] = s[i] /\ s[i] \in Range(s)
      BY <1>1, <1>2, <1>3
    <2>2. CASE j \in 1..Len(s)
      BY <1>1, <2>1, <2>2 DEF Sorted
    <2>3. CASE j = Len(s) + 1
      BY <1>1, <2>1, <2>3 DEF Older
    <2> QED
      BY <1>1, <1>2, <2>2, <2>3
  <1>5. ASSUME NEW x \in Range(t)
        PROVE  x \in Range(s) \cup {m}
    <2>1. PICK i \in 1..Len(t) : x = t[i]
      BY <1>3
    <2>2. i \in 1..Len(s) \/ i = Len(s) + 1
      BY <1>1, <1>2
    <2> QED
      BY <1>1, <1>3, <2>1, <2>2
  <1>6. ASSUME NEW x \in Range(s)
        PROVE  x \in Range(t)
    <2>1. PICK i \in 1..Len(s) : x = s[i]
      BY <1>3
    <2>2. i \in 1..Len(t) /\ t[i] = x
      BY <1>1, <1>2, <2>1
    <2> QED
      BY <1>3, <2>2
  <1>7. m \in Range(t)
    <2>1. Len(s) + 1 \in 1..Len(t)
      BY <1>1, <1>2
    <2> QED
      BY <1>1, <1>3, <2>1
  <1> QED
    BY <1>1, <1>4, <1>5, <1>6, <1>7 DEF t

-----------------------------------------------------------------------------
(* The messages that were parsed and not handled: those a flush of the      *)
(* event loop has left (outer), the pending ones, and those a flush in a    *)
(* wait or in the set up has left (inner), from the oldest to the newest.   *)

Listed(outer, queue, inner, n, done) ==
  /\ outer \in Seq(Nat) /\ queue \in Seq(Nat) /\ inner \in Seq(Nat)
  /\ Sorted(outer) /\ Sorted(queue) /\ Sorted(inner)
  /\ Older(Range(outer), Range(queue))
  /\ Older(Range(outer), Range(inner))
  /\ Older(Range(queue), Range(inner))
  /\ Range(outer) \cup Range(queue) \cup Range(inner) = (1..n) \ done

\* A message is taken out of the buffer and put off.
LEMMA ListedPutOffNew ==
  ASSUME NEW outer, NEW queue, NEW n \in Nat, NEW done \in SUBSET (1..n),
         Listed(outer, queue, <<>>, n, done)
  PROVE  Listed(outer, Append(queue, n + 1), <<>>, n + 1, done)
  <1> DEFINE m == n + 1
  <1>1. Range(<<>>) = {}
    BY EmptyIsSorted
  <1>2. \A x \in Range(outer) \cup Range(queue) : x \in 1..n
    BY <1>1 DEF Listed
  <1>3. Older(Range(queue), {m}) /\ Older(Range(outer), {m})
    BY <1>2 DEF Older
  <1>4. /\ Append(queue, m) \in Seq(Nat) /\ Sorted(Append(queue, m))
        /\ Range(Append(queue, m)) = Range(queue) \cup {m}
    <2>1. queue \in Seq(Nat) /\ Sorted(queue) /\ m \in Nat
      BY DEF Listed
    <2> QED
      BY <1>3, <2>1, AppendNewest
  <1>5. (1..m) \ done = ((1..n) \ done) \cup {m}
    BY <1>2
  <1> HIDE DEF m
  <1>6. Range(outer) \cup Range(Append(queue, m)) \cup {} = (1..m) \ done
    BY <1>1, <1>4, <1>5 DEF Listed
  <1>7. Older(Range(outer), Range(Append(queue, m)))
    BY <1>3, <1>4 DEF Listed, Older
  <1> QED
    BY <1>1, <1>4, <1>6, <1>7 DEF Listed, Older, m

\* A message is taken out of the buffer and handled.
LEMMA ListedHandleNew ==
  ASSUME NEW outer, NEW queue, NEW inner, NEW n \in Nat, NEW done \in SUBSET (1..n),
         Listed(outer, queue, inner, n, done)
  PROVE  Listed(outer, queue, inner, n + 1, done \cup {n + 1})
  <1>1. (1..(n + 1)) \ (done \cup {n + 1}) = (1..n) \ done
    OBVIOUS
  <1> QED
    BY <1>1 DEF Listed

\* A message of an inner flush is put off.
LEMMA ListedPutOff ==
  ASSUME NEW outer, NEW queue, NEW inner, NEW n, NEW done,
         Listed(outer, queue, inner, n, done), inner # <<>>
  PROVE  Listed(outer, Append(queue, Head(inner)), Tail(inner), n, done)
  <1> DEFINE m == Head(inner)
  <1>1. /\ m \in Nat /\ Tail(inner) \in Seq(Nat) /\ Sorted(Tail(inner))
        /\ Range(inner) = {m} \cup Range(Tail(inner)) /\ Older({m}, Range(Tail(inner)))
    BY HeadIsOldest DEF Listed
  <1> HIDE DEF m
  <1>2. Older(Range(queue), {m})
    BY <1>1 DEF Listed, Older
  <1>3. /\ Append(queue, m) \in Seq(Nat) /\ Sorted(Append(queue, m))
        /\ Range(Append(queue, m)) = Range(queue) \cup {m}
    BY <1>1, <1>2, AppendNewest DEF Listed
  <1>4. Older(Range(outer), Range(Append(queue, m)))
    BY <1>1, <1>3 DEF Listed, Older
  <1>5. Older(Range(outer), Range(Tail(inner)))
    BY <1>1 DEF Listed, Older
  <1>6. Older(Range(Append(queue, m)), Range(Tail(inner)))
    BY <1>1, <1>3 DEF Listed, Older
  <1>7. Range(outer) \cup Range(Append(queue, m)) \cup Range(Tail(inner)) = (1..n) \ done
    BY <1>1, <1>3 DEF Listed
  <1> QED
    BY <1>1, <1>3, <1>4, <1>5, <1>6, <1>7 DEF Listed, m

\* A message of an inner flush is handled.
LEMMA ListedTakeInner ==
  ASSUME NEW outer, NEW queue, NEW inner, NEW n \in Nat, NEW done \in SUBSET (1..n),
         Listed(outer, queue, inner, n, done), inner # <<>>
  PROVE  /\ Listed(outer, queue, Tail(inner), n, done \cup {Head(inner)})
         /\ Head(inner) \in (1..n) \ done
         /\ \A x \in Range(queue) : x < Head(inner) /\ x \in (1..n) \ done
  <1> DEFINE m == Head(inner)
  <1>1. /\ m \in Nat /\ Tail(inner) \in Seq(Nat) /\ Sorted(Tail(inner))
        /\ Range(inner) = {m} \cup Range(Tail(inner)) /\ Older({m}, Range(Tail(inner)))
    BY HeadIsOldest DEF Listed
  <1> HIDE DEF m
  <1>2. \A x \in Range(outer) \cup Range(queue) : x < m
    BY <1>1 DEF Listed, Older
  <1>3. \A x \in Range(Tail(inner)) : m < x
    BY <1>1 DEF Older
  <1>4. \A x \in (1..n) : ~(x < x)
    OBVIOUS
  <1>5. m \in (1..n) \ done
    BY <1>1 DEF Listed
  <1>6. m \notin Range(outer) \cup Range(queue) \cup Range(Tail(inner))
    BY <1>2, <1>3, <1>4, <1>5
  <1>7. Range(outer) \cup Range(queue) \cup Range(Tail(inner)) = (1..n) \ (done \cup {m})
    BY <1>1, <1>6 DEF Listed
  <1>8. Older(Range(outer), Range(Tail(inner))) /\ Older(Range(queue), Range(Tail(inner)))
    BY <1>1 DEF Listed, Older
  <1>9. Listed(outer, queue, Tail(inner), n, done \cup {m})
    BY <1>1, <1>7, <1>8 DEF Listed
  <1>10. \A x \in Range(queue) : x < m /\ x \in (1..n) \ done
    BY <1>2 DEF Listed
  <1> QED
    BY <1>5, <1>9, <1>10 DEF m

\* A message of the flush of the event loop is handled: it is the oldest.
LEMMA ListedTakeOuter ==
  ASSUME NEW outer, NEW queue, NEW inner, NEW n \in Nat, NEW done \in SUBSET (1..n),
         Listed(outer, queue, inner, n, done), outer # <<>>
  PROVE  /\ Listed(Tail(outer), queue, inner, n, done \cup {Head(outer)})
         /\ Head(outer) \in (1..n) \ done
         /\ 1..(Head(outer) - 1) \subseteq done
  <1> DEFINE m == Head(outer)
  <1>1. /\ m \in Nat /\ Tail(outer) \in Seq(Nat) /\ Sorted(Tail(outer))
        /\ Range(outer) = {m} \cup Range(Tail(outer)) /\ Older({m}, Range(Tail(outer)))
    BY HeadIsOldest DEF Listed
  <1> HIDE DEF m
  <1>2. \A x \in Range(Tail(outer)) \cup Range(queue) \cup Range(inner) : m < x
    BY <1>1 DEF Listed, Older
  <1>3. \A x \in (1..n) : ~(x < x)
    OBVIOUS
  <1>4. m \in (1..n) \ done
    BY <1>1 DEF Listed
  <1>5. m \notin Range(Tail(outer)) \cup Range(queue) \cup Range(inner)
    BY <1>2, <1>3, <1>4
  <1>6. Range(Tail(outer)) \cup Range(queue) \cup Range(inner) = (1..n) \ (done \cup {m})
    BY <1>1, <1>5 DEF Listed
  <1>7. Older(Range(Tail(outer)), Range(queue)) /\ Older(Range(Tail(outer)), Range(inner))
    BY <1>1 DEF Listed, Older
  <1>8. Listed(Tail(outer), queue, inner, n, done \cup {m})
    BY <1>1, <1>6, <1>7 DEF Listed
  <1>9. ASSUME NEW x \in 1..(m - 1), x \notin done
        PROVE  FALSE
    <2>1. x \in (1..n) \ done /\ x # m /\ ~(m < x)
      BY <1>4, <1>9
    <2>2. x \in Range(outer) \cup Range(queue) \cup Range(inner)
      BY <2>1 DEF Listed
    <2> QED
      BY <1>1, <1>2, <2>1, <2>2
  <1> QED
    BY <1>4, <1>8, <1>9 DEF m

\* A flush makes a copy of what is pending.
LEMMA ListedFlush ==
  ASSUME NEW outer, NEW queue, NEW n, NEW done, Listed(outer, queue, <<>>, n, done)
  PROVE  /\ Listed(outer, <<>>, queue, n, done)
         /\ outer = <<>> => Listed(queue, <<>>, <<>>, n, done)
  <1> DEFINE none == <<>>
  <1>1. none \in Seq(Nat) /\ Sorted(none) /\ Range(none) = {}
    BY EmptyIsSorted
  <1>2. Listed(outer, queue, none, n, done)
    OBVIOUS
  <1> HIDE DEF none
  <1>3. Listed(outer, none, queue, n, done)
    BY <1>1, <1>2 DEF Listed, Older
  <1>4. outer = none => Listed(queue, none, none, n, done)
    BY <1>1, <1>2 DEF Listed, Older
  <1> QED
    BY <1>3, <1>4 DEF none

\* If nothing is left over, everything is handled.
LEMMA ListedNothing ==
  ASSUME NEW n, NEW done, Listed(<<>>, <<>>, <<>>, n, done)
  PROVE  1..n \subseteq done
  BY EmptyIsSorted DEF Listed

LEMMA NothingInRange ==
  ASSUME NEW s \in Seq(Nat), Range(s) = {}
  PROVE  s = <<>>
  <1> SUFFICES ASSUME s # <<>>
               PROVE  FALSE
    OBVIOUS
  <1>1. Len(s) \in Nat \ {0}
    BY EmptySeq
  <1>2. 1 \in 1..Len(s)
    BY <1>1
  <1>3. s[1] \in {s[i] : i \in 1..Len(s)}
    BY <1>2
  <1> QED
    BY <1>3, RangeEquality

-----------------------------------------------------------------------------
(* The stack.                                                               *)

On(f, s) == <<f>> \o s
WaitFrame == Frame("wait", <<>>, NoWait, 0)

LEMMA FramesTyped ==
  /\ NoWait \in Patterns
  /\ DataFrame \in Frames /\ DataFrame.kind = "data"
  /\ JSFrame \in Frames /\ JSFrame.kind = "js"
  /\ WaitFrame \in Frames /\ WaitFrame.kind = "wait"
  /\ WaitFrame.sync = NoWait /\ WaitFrame.result = 0
  /\ \A rest \in Seq(Nat) : /\ FlushFrame(rest) \in Frames
                            /\ FlushFrame(rest).kind = "flush"
                            /\ FlushFrame(rest).rest = rest
  <1>1. NoWait \in Patterns
    BY DEF NoWait, Pattern, Patterns, About
  <1>2. <<>> \in Seq(Nat)
    BY EmptySeq
  <1> HIDE DEF NoWait, Patterns
  <1> QED
    BY <1>1, <1>2 DEF DataFrame, JSFrame, WaitFrame, FlushFrame, Frame, Frames

LEMMA OnTopOf ==
  ASSUME NEW f \in Frames, NEW s \in Seq(Frames)
  PROVE  /\ On(f, s) \in Seq(Frames)
         /\ On(f, s) # <<>>
         /\ Head(On(f, s)) = f
         /\ Tail(On(f, s)) = s
  <1> DEFINE t == On(f, s)
  <1>1. <<f>> \in Seq(Frames) /\ Len(<<f>>) = 1 /\ <<f>>[1] = f
    OBVIOUS
  <1>2. Len(s) \in Nat
    BY LenProperties
  <1>3. /\ t \in Seq(Frames) /\ Len(t) = 1 + Len(s)
        /\ \A i \in 1..(1 + Len(s)) : t[i] = IF i <= 1 THEN <<f>>[i] ELSE s[i - 1]
    <2>1. /\ <<f>> \o s \in Seq(Frames) /\ Len(<<f>> \o s) = Len(<<f>>) + Len(s)
          /\ \A i \in 1..(Len(<<f>>) + Len(s)) :
               (<<f>> \o s)[i] = IF i <= Len(<<f>>) THEN <<f>>[i] ELSE s[i - Len(<<f>>)]
      BY <1>1, ConcatProperties
    <2> QED
      BY <1>1, <2>1 DEF On
  <1> HIDE DEF t
  <1>4. t # <<>>
    BY <1>2, <1>3, EmptySeq
  <1>5. 1 \in 1..(1 + Len(s)) /\ Head(t) = t[1]
    BY <1>2, <1>3, <1>4
  <1>6. Head(t) = f
    BY <1>1, <1>3, <1>5
  <1>7. /\ Tail(t) \in Seq(Frames) /\ Len(Tail(t)) = Len(s)
        /\ \A i \in 1..Len(s) : Tail(t)[i] = t[i + 1]
    <2>1. /\ Tail(t) \in Seq(Frames) /\ Len(Tail(t)) = Len(t) - 1
          /\ \A i \in 1..Len(Tail(t)) : Tail(t)[i] = t[i + 1]
      BY <1>3, <1>4, HeadTailProperties
    <2>2. Len(t) - 1 = Len(s)
      BY <1>2, <1>3
    <2> QED
      BY <2>1, <2>2
  <1>8. \A i \in 1..Len(s) : Tail(t)[i] = s[i]
    <2> SUFFICES ASSUME NEW i \in 1..Len(s)
                 PROVE  Tail(t)[i] = s[i]
      OBVIOUS
    <2>1. i + 1 \in 1..(1 + Len(s)) /\ ~(i + 1 <= 1) /\ (i + 1) - 1 = i
      BY <1>2
    <2>2. t[i + 1] = s[(i + 1) - 1]
      BY <1>3, <2>1
    <2> QED
      BY <1>7, <2>1, <2>2
  <1>9. Tail(t) = s
    BY <1>7, <1>8, SeqEqual
  <1> QED
    BY <1>3, <1>4, <1>6, <1>9 DEF t

LEMMA Alone == ASSUME NEW f \in Frames PROVE <<f>> = On(f, <<>>)
  BY ConcatEmptySeq DEF On

-----------------------------------------------------------------------------
(* The inductive invariant.                                                 *)

\* JavaScript runs, or nothing does.  If handleDataReady called it, what the
\* buffer holds (quiet) matters as soon as handleDataReady goes on.
Idle(s, outer, quiet) ==
  \/ s = <<>> /\ outer = <<>>
  \/ s = On(JSFrame, <<>>) /\ outer = <<>>
  \/ s = On(JSFrame, On(DataFrame, <<>>)) /\ outer = <<>> /\ quiet
  \/ s = On(JSFrame, On(FlushFrame(outer), <<>>))
  \/ s = On(JSFrame, On(FlushFrame(outer), On(JSFrame, <<>>)))

\* Messages are handled as they come.
Working(outer) ==
  \/ Idle(stack, outer, Complete => pending = <<>>)
  \/ stack = On(DataFrame, <<>>) /\ outer = <<>> /\ (Complete => pending = <<>>)
  \/ stack = On(FlushFrame(outer), <<>>)
  \/ stack = On(FlushFrame(outer), On(JSFrame, <<>>))

\* The connection is being set up, and may wait in that.
Bottom == IF sync = NoWait THEN <<>> ELSE On(WaitFrame, <<>>)
SettingUp(inner) ==
  \/ stack = Bottom /\ inner = <<>>
  \/ stack = On(DataFrame, Bottom) /\ inner = <<>>
  \/ stack = On(FlushFrame(inner), Bottom)
  \/ stack = On(FlushFrame(<<>>), On(DataFrame, Bottom)) /\ inner = <<>>
  \/ stack = On(FlushFrame(<<>>), On(FlushFrame(inner), Bottom))

\* JavaScript waits for a message.
Blocked(outer, inner, b) ==
  \/ /\ stack = On(WaitFrame, b) /\ inner = <<>>
     /\ Idle(b, outer, Complete => pending = <<>>)
  \/ /\ stack = On(DataFrame, On(WaitFrame, b)) /\ inner = <<>>
     /\ Idle(b, outer, TRUE)
  \/ /\ stack = On(FlushFrame(inner), On(WaitFrame, b))
     /\ Idle(b, outer, Complete => pending = <<>> /\ inner = <<>>)

Shape(outer, inner) ==
  \/ /\ sync = NoWait /\ state = "Ready"
     /\ inner = <<>> /\ Working(outer)
     /\ pending # <<>> => posted
  \/ /\ state # "Ready"
     /\ outer = <<>> /\ SettingUp(inner)
  \/ /\ sync # NoWait /\ state = "Ready"
     /\ \E b \in Seq(Frames) : Blocked(outer, inner, b)

Queued ==
  \E outer, inner \in Seq(Nat) :
    Listed(outer, pending, inner, parsed, handled) /\ Shape(outer, inner)

\* The backend greets once and first.
Greeted ==
  \A i \in 1..Len(sent) :
    /\ sent[i].cmd = "VERSION" => i = 1
    /\ sent[i].cmd = "CREATABLE_TYPES" => i = 2

Handshake ==
  /\ SetupInOrder
  /\ state = "Ready" => phase \in {"root", "running"}
  /\ phase = "running" => state = "Ready"
  /\ state # "WantVersion" => 1 \in handled
  /\ state \in {"WantEngine", "Ready"} => 2 \in handled

Waiting ==
  /\ sync = NoWait => result = 0
  /\ sync.cmd \notin {"EMIT", "INVOKE_RETURN"}

\* Nothing runs before the connection is there.
Unconnected == phase = "connect" => stack = <<>>

Inv ==
  /\ TypeOK
  /\ handled \subseteq 1..parsed
  /\ Unconnected
  /\ Greeted
  /\ Handshake
  /\ Waiting
  /\ Queued

-----------------------------------------------------------------------------
(* What the top of the stack says of the rest.                              *)

LEMMA StacksTyped ==
  ASSUME NEW s \in Seq(Frames), NEW rest \in Seq(Nat)
  PROVE  /\ On(DataFrame, s) \in Seq(Frames) /\ On(DataFrame, s) # <<>>
         /\ Head(On(DataFrame, s)) = DataFrame /\ Tail(On(DataFrame, s)) = s
         /\ On(JSFrame, s) \in Seq(Frames) /\ On(JSFrame, s) # <<>>
         /\ Head(On(JSFrame, s)) = JSFrame /\ Tail(On(JSFrame, s)) = s
         /\ On(WaitFrame, s) \in Seq(Frames) /\ On(WaitFrame, s) # <<>>
         /\ Head(On(WaitFrame, s)) = WaitFrame /\ Tail(On(WaitFrame, s)) = s
         /\ On(FlushFrame(rest), s) \in Seq(Frames) /\ On(FlushFrame(rest), s) # <<>>
         /\ Head(On(FlushFrame(rest), s)) = FlushFrame(rest)
         /\ Tail(On(FlushFrame(rest), s)) = s
  BY FramesTyped, OnTopOf

LEMMA NoFrames == <<>> \in Seq(Frames) /\ <<>> \in Seq(Nat)
  BY EmptySeq

LEMMA IdleTop ==
  ASSUME NEW s \in Seq(Frames), NEW outer \in Seq(Nat), NEW quiet \in BOOLEAN,
         Idle(s, outer, quiet)
  PROVE  \/ s = <<>> /\ outer = <<>>
         \/ /\ s # <<>> /\ Head(s).kind = "js"
            /\ \/ Tail(s) = <<>> /\ outer = <<>>
               \/ Tail(s) = On(DataFrame, <<>>) /\ outer = <<>> /\ quiet
               \/ Tail(s) = On(FlushFrame(outer), <<>>)
               \/ Tail(s) = On(FlushFrame(outer), On(JSFrame, <<>>))
  <1> HIDE DEF Frames
  <1>1. CASE s = <<>> /\ outer = <<>>
    BY <1>1
  <1>2. CASE s = On(JSFrame, <<>>) /\ outer = <<>>
    BY <1>2, NoFrames, StacksTyped, FramesTyped
  <1>3. CASE s = On(JSFrame, On(DataFrame, <<>>)) /\ outer = <<>> /\ quiet
    BY <1>3, NoFrames, StacksTyped, FramesTyped
  <1>4. CASE s = On(JSFrame, On(FlushFrame(outer), <<>>))
    BY <1>4, NoFrames, StacksTyped, FramesTyped
  <1>5. CASE s = On(JSFrame, On(FlushFrame(outer), On(JSFrame, <<>>)))
    BY <1>5, NoFrames, StacksTyped, FramesTyped
  <1> QED
    BY <1>1, <1>2, <1>3, <1>4, <1>5 DEF Idle

\* Which shape has which frame on top.
ShapeByTop(outer, inner) ==
  \/ /\ stack = <<>>
     /\ sync = NoWait /\ outer = <<>> /\ inner = <<>>
     /\ state = "Ready" /\ pending # <<>> => posted
  \/ /\ stack # <<>> /\ Head(stack).kind = "js"
     /\ sync = NoWait /\ state = "Ready" /\ inner = <<>> /\ (pending # <<>> => posted)
     /\ Idle(stack, outer, Complete => pending = <<>>)
  \/ /\ stack # <<>> /\ Head(stack).kind = "wait" /\ Head(stack) = WaitFrame
     /\ sync # NoWait /\ inner = <<>>
     /\ stack = On(WaitFrame, Tail(stack)) /\ Tail(stack) \in Seq(Frames)
     /\ \/ state # "Ready" /\ Tail(stack) = <<>> /\ outer = <<>>
        \/ state = "Ready" /\ Idle(Tail(stack), outer, Complete => pending = <<>>)
  \/ /\ stack # <<>> /\ Head(stack).kind = "data" /\ inner = <<>>
     /\ stack = On(DataFrame, Tail(stack))
     /\ \/ /\ sync = NoWait /\ state = "Ready" /\ (pending # <<>> => posted)
           /\ Tail(stack) = <<>> /\ outer = <<>> /\ (Complete => pending = <<>>)
        \/ state # "Ready" /\ Tail(stack) = Bottom /\ outer = <<>>
        \/ /\ sync # NoWait /\ state = "Ready"
           /\ \E b \in Seq(Frames) : Tail(stack) = On(WaitFrame, b) /\ Idle(b, outer, TRUE)
  \/ /\ stack # <<>> /\ Head(stack).kind = "flush"
     /\ \/ /\ sync = NoWait /\ state = "Ready" /\ inner = <<>> /\ (pending # <<>> => posted)
           /\ Head(stack).rest = outer
           /\ Tail(stack) = <<>> \/ Tail(stack) = On(JSFrame, <<>>)
        \/ /\ state # "Ready" /\ outer = <<>>
           /\ Head(stack).rest = inner /\ Tail(stack) = Bottom
        \/ /\ state # "Ready" /\ outer = <<>> /\ Head(stack).rest = <<>>
           /\ \/ Tail(stack) = On(DataFrame, Bottom) /\ inner = <<>>
              \/ Tail(stack) = On(FlushFrame(inner), Bottom)
        \/ /\ sync # NoWait /\ state = "Ready" /\ Head(stack).rest = inner
           /\ \E b \in Seq(Frames) :
                /\ Tail(stack) = On(WaitFrame, b)
                /\ Idle(b, outer, Complete => pending = <<>> /\ inner = <<>>)

LEMMA TopOfShape ==
  ASSUME NEW outer \in Seq(Nat), NEW inner \in Seq(Nat), stack \in Seq(Frames),
         Shape(outer, inner)
  PROVE  ShapeByTop(outer, inner)
  <1> HIDE DEF Frames, NoWait, Complete
  <1> USE NoFrames, FramesTyped
  <1>0. Bottom \in Seq(Frames)
    BY StacksTyped DEF Bottom
  <1>1. CASE /\ sync = NoWait /\ state = "Ready"
             /\ inner = <<>> /\ Working(outer)
             /\ pending # <<>> => posted
    <2>1. CASE Idle(stack, outer, Complete => pending = <<>>)
      <3>1. (stack = <<>> /\ outer = <<>>) \/ (stack # <<>> /\ Head(stack).kind = "js")
        <4>1. (Complete => pending = <<>>) \in BOOLEAN
          OBVIOUS
        <4> QED
          BY <2>1, <4>1, IdleTop
      <3> QED
        BY <1>1, <2>1, <3>1 DEF ShapeByTop
    <2>2. CASE stack = On(DataFrame, <<>>) /\ outer = <<>> /\ (Complete => pending = <<>>)
      <3>1. stack # <<>> /\ Head(stack).kind = "data" /\ Tail(stack) = <<>>
        BY <2>2, StacksTyped
      <3> QED
        BY <1>1, <2>2, <3>1 DEF ShapeByTop
    <2>3. CASE stack = On(FlushFrame(outer), <<>>)
      <3>1. /\ stack # <<>> /\ Head(stack).kind = "flush" /\ Head(stack).rest = outer
            /\ Tail(stack) = <<>>
        BY <2>3, StacksTyped
      <3> QED
        BY <1>1, <3>1 DEF ShapeByTop
    <2>4. CASE stack = On(FlushFrame(outer), On(JSFrame, <<>>))
      <3>1. /\ stack # <<>> /\ Head(stack).kind = "flush" /\ Head(stack).rest = outer
            /\ Tail(stack) = On(JSFrame, <<>>)
        BY <2>4, StacksTyped
      <3> QED
        BY <1>1, <3>1 DEF ShapeByTop
    <2> QED
      BY <1>1, <2>1, <2>2, <2>3, <2>4 DEF Working
  <1>2. CASE state # "Ready" /\ outer = <<>> /\ SettingUp(inner)
    <2>1. CASE stack = Bottom /\ inner = <<>>
      <3>1. CASE sync = NoWait
        BY <1>2, <2>1, <3>1 DEF Bottom, ShapeByTop
      <3>2. CASE sync # NoWait
        <4>1. /\ stack # <<>> /\ Head(stack) = WaitFrame /\ Tail(stack) = <<>>
              /\ stack = On(WaitFrame, Tail(stack)) /\ Tail(stack) \in Seq(Frames)
          BY <2>1, <3>2, StacksTyped DEF Bottom
        <4> QED
          BY <1>2, <2>1, <3>2, <4>1 DEF ShapeByTop
      <3> QED
        BY <3>1, <3>2
    <2>2. CASE stack = On(DataFrame, Bottom) /\ inner = <<>>
      <3>1. stack # <<>> /\ Head(stack).kind = "data" /\ Tail(stack) = Bottom
        BY <1>0, <2>2, StacksTyped
      <3> QED
        BY <1>2, <2>2, <3>1 DEF ShapeByTop
    <2>3. CASE stack = On(FlushFrame(inner), Bottom)
      <3>1. /\ stack # <<>> /\ Head(stack).kind = "flush" /\ Head(stack).rest = inner
            /\ Tail(stack) = Bottom
        <4>1. FlushFrame(inner).kind = "flush" /\ FlushFrame(inner).rest = inner
          BY FramesTyped
        <4>2. stack # <<>> /\ Head(stack) = FlushFrame(inner) /\ Tail(stack) = Bottom
          BY <1>0, <2>3, StacksTyped
        <4> QED
          BY <4>1, <4>2
      <3> QED
        BY <1>2, <3>1 DEF ShapeByTop
    <2>4. CASE stack = On(FlushFrame(<<>>), On(DataFrame, Bottom)) /\ inner = <<>>
      <3>1. /\ stack # <<>> /\ Head(stack).kind = "flush" /\ Head(stack).rest = <<>>
            /\ Tail(stack) = On(DataFrame, Bottom)
        BY <1>0, <2>4, StacksTyped
      <3> QED
        BY <1>2, <2>4, <3>1 DEF ShapeByTop
    <2>5. CASE stack = On(FlushFrame(<<>>), On(FlushFrame(inner), Bottom))
      <3>1. /\ stack # <<>> /\ Head(stack).kind = "flush" /\ Head(stack).rest = <<>>
            /\ Tail(stack) = On(FlushFrame(inner), Bottom)
        BY <1>0, <2>5, StacksTyped
      <3> QED
        BY <1>2, <3>1 DEF ShapeByTop
    <2> QED
      BY <1>2, <2>1, <2>2, <2>3, <2>4, <2>5 DEF SettingUp
  <1>3. CASE sync # NoWait /\ state = "Ready" /\ \E b \in Seq(Frames) : Blocked(outer, inner, b)
    <2>0. PICK b \in Seq(Frames) : Blocked(outer, inner, b)
      BY <1>3
    <2>1. CASE /\ stack = On(WaitFrame, b) /\ inner = <<>>
               /\ Idle(b, outer, Complete => pending = <<>>)
      <3>1. stack # <<>> /\ Head(stack) = WaitFrame /\ Tail(stack) = b
        BY <2>1, StacksTyped
      <3> QED
        BY <1>3, <2>1, <3>1 DEF ShapeByTop
    <2>2. CASE /\ stack = On(DataFrame, On(WaitFrame, b)) /\ inner = <<>>
               /\ Idle(b, outer, TRUE)
      <3>1. stack # <<>> /\ Head(stack).kind = "data" /\ Tail(stack) = On(WaitFrame, b)
        BY <2>2, StacksTyped
      <3> QED
        BY <1>3, <2>2, <3>1 DEF ShapeByTop
    <2>3. CASE /\ stack = On(FlushFrame(inner), On(WaitFrame, b))
               /\ Idle(b, outer, Complete => pending = <<>> /\ inner = <<>>)
      <3>1. /\ stack # <<>> /\ Head(stack).kind = "flush" /\ Head(stack).rest = inner
            /\ Tail(stack) = On(WaitFrame, b)
        <4>1. FlushFrame(inner).kind = "flush" /\ FlushFrame(inner).rest = inner
          BY FramesTyped
        <4>2. On(WaitFrame, b) \in Seq(Frames)
          BY StacksTyped
        <4>3. stack # <<>> /\ Head(stack) = FlushFrame(inner) /\ Tail(stack) = On(WaitFrame, b)
          BY <2>3, <4>2, StacksTyped
        <4> QED
          BY <4>1, <4>3
      <3> QED
        BY <1>3, <2>3, <3>1 DEF ShapeByTop
    <2> QED
      BY <2>0, <2>1, <2>2, <2>3 DEF Blocked
  <1> QED
    BY <1>1, <1>2, <1>3 DEF Shape

-----------------------------------------------------------------------------
(* The handshake, and what a message does.                                  *)

LEMMA Multiples ==
  ASSUME NEW p \in Nat \ {0}, NEW m \in Nat, NEW n \in Nat, p * m <= p * n
  PROVE  m <= n
  <1> SUFFICES ASSUME m >= n + 1
               PROVE  FALSE
    OBVIOUS
  <1>1. PICK d \in Nat : m = n + 1 + d
    <2>1. m - n - 1 \in Nat /\ m = n + 1 + (m - n - 1)
      OBVIOUS
    <2> QED
      BY <2>1
  <1>2. p * m = p * n + p + p * d
    BY <1>1
  <1>3. p * d \in Nat /\ p * n \in Nat
    OBVIOUS
  <1> QED
    BY <1>2, <1>3

\* Only what the backend has written is taken out of the buffer.
LEMMA ParsedWasSent ==
  ASSUME TypeOK
  PROVE  /\ parsed \in 0..Len(sent)
         /\ Complete => parsed + 1 \in 1..Len(sent)
  <1>1. Len(sent) \in Nat /\ parsed \in Nat /\ read \in Nat /\ Pieces \in Nat \ {0}
    BY DispatchAssumption, LenProperties DEF TypeOK
  <1>2. Pieces * parsed <= Pieces * Len(sent)
    <2>1. /\ Pieces * parsed \in Int /\ Pieces * Len(sent) \in Int
      BY <1>1
    <2>2. Pieces * parsed <= read /\ read <= Pieces * Len(sent)
      BY DEF TypeOK
    <2> HIDE DEF TypeOK
    <2> QED
      BY <1>1, <2>1, <2>2
  <1>3. parsed <= Len(sent)
    BY <1>1, <1>2, Multiples
  <1>4. ASSUME Complete
        PROVE  parsed + 1 <= Len(sent)
    <2>1. Pieces * (parsed + 1) <= read /\ read <= Pieces * Len(sent)
      BY <1>4 DEF TypeOK, Complete
    <2>2. Pieces * (parsed + 1) \in Int /\ Pieces * Len(sent) \in Int /\ parsed + 1 \in Nat
      BY <1>1
    <2>3. Pieces * (parsed + 1) <= Pieces * Len(sent)
      BY <1>1, <2>1, <2>2
    <2> QED
      BY <1>1, <2>2, <2>3, Multiples
  <1> QED
    BY <1>1, <1>3, <1>4

\* In the set up, only the oldest message is handled.
LEMMA SetupOldest ==
  ASSUME TypeOK, Handshake, Greeted, NEW m \in 1..Len(sent), m \notin handled,
         state # "Ready", DoDeliver(m)
  PROVE  m = 1 \/ (m = 2 /\ 1 \in handled)
  <1>1. \/ state = "WantVersion" /\ sent[m].cmd = "VERSION"
        \/ state = "WantTypes" /\ sent[m].cmd = "CREATABLE_TYPES"
    BY DEF DoDeliver
  <1> QED
    BY <1>1 DEF Greeted, Handshake

LEMMA DeliverCases ==
  ASSUME TypeOK, Handshake, Waiting, Greeted, NEW m \in 1..Len(sent), m \notin handled,
         NEW frames, DoDeliver(m), Deliver(m, frames)
  PROVE  /\ handled' = handled \cup {m}
         /\ result' = IF sync = NoWait THEN result ELSE m
         /\ \/ stack' = frames /\ UNCHANGED <<state, pending>>
            \/ /\ stack' = On(JSFrame, frames) /\ UNCHANGED <<state, pending>>
               /\ sync = NoWait /\ state = "Ready"
            \/ /\ stack' = On(FlushFrame(pending), frames) /\ pending' = <<>>
               /\ state # "Ready" /\ state' # "Ready"
         /\ (UNCHANGED phase => Handshake')
  <1> DEFINE msg == sent[m]
  <1>1. handled' = handled \cup {m} /\ result' = IF sync = NoWait THEN result ELSE m
    BY DEF Deliver
  <1>2. msg.cmd \in Commands
    <2>1. sent \in Seq([cmd : Commands, about : About, ver : Nat])
      BY DEF TypeOK
    <2>2. msg \in [cmd : Commands, about : About, ver : Nat]
      BY <2>1, ElementOfSeq
    <2> QED
      BY <2>2
  <1>3. m = 1 => state = "WantVersion"
    BY DEF Handshake, TypeOK
  <1>4. m = 2 => state \in {"WantVersion", "WantTypes"}
    BY DEF Handshake, TypeOK
  <1>5. msg.cmd = "VERSION" => m = 1
    BY DEF Greeted
  <1>6. msg.cmd = "CREATABLE_TYPES" => m = 2
    BY DEF Greeted
  <1>7. \/ state = "Ready"
        \/ state = "WantVersion" /\ msg.cmd = "VERSION"
        \/ state = "WantTypes" /\ msg.cmd = "CREATABLE_TYPES"
    BY DEF DoDeliver
  <1>8. sync = NoWait \/ (msg.cmd = sync.cmd /\ msg.cmd \notin {"EMIT", "INVOKE_RETURN"})
    BY DEF DoDeliver, Matches, Waiting
  <1>9. CASE msg.cmd = "VERSION"
    <2>1. m = 1 /\ state = "WantVersion"
      BY <1>3, <1>5, <1>9
    <2>2. /\ state' = "WantTypes" /\ UNCHANGED <<engine, root>>
          /\ stack' = On(FlushFrame(pending), frames) /\ pending' = <<>>
      BY <1>9 DEF Deliver, SetState, Flush, On
    <2>3. UNCHANGED phase => Handshake'
      BY <1>1, <2>1, <2>2 DEF Handshake, SetupInOrder
    <2> QED
      BY <1>1, <2>1, <2>2, <2>3
  <1>10. CASE msg.cmd = "CREATABLE_TYPES"
    <2>1. m = 2 /\ state = "WantTypes"
      BY <1>4, <1>6, <1>7, <1>10
    <2>2. ~engine
      BY <2>1 DEF Handshake, SetupInOrder
    <2>3. /\ state' = "WantEngine" /\ UNCHANGED <<engine, root>>
          /\ stack' = On(FlushFrame(pending), frames) /\ pending' = <<>>
      BY <1>10, <2>2 DEF Deliver, SetState, Flush, On
    <2>4. UNCHANGED phase => Handshake'
      BY <1>1, <2>1, <2>3 DEF Handshake, SetupInOrder
    <2> QED
      BY <1>1, <2>1, <2>3, <2>4
  <1>11. CASE msg.cmd = "ROOT"
    <2>1. state = "Ready" /\ UNCHANGED <<state, engine, pending>> /\ root' = TRUE /\ stack' = frames
      BY <1>7, <1>11 DEF Deliver
    <2>2. UNCHANGED phase => Handshake'
      BY <1>1, <2>1 DEF Handshake, SetupInOrder
    <2> QED
      BY <1>1, <2>1, <2>2
  <1>12. CASE msg.cmd \in {"OBJECT_RESET", "EMIT", "INVOKE_RETURN"}
    <2>1. state = "Ready" /\ UNCHANGED <<state, engine, root, pending>>
      BY <1>7, <1>12 DEF Deliver, setupVars
    <2>2. UNCHANGED phase => Handshake'
      BY <1>1, <2>1 DEF Handshake, SetupInOrder
    <2>3. stack' = frames \/ (stack' = On(JSFrame, frames) /\ sync = NoWait)
      <3>1. CASE msg.cmd = "OBJECT_RESET"
        BY <3>1 DEF Deliver, RunsHandlers, On
      <3>2. CASE msg.cmd \in {"EMIT", "INVOKE_RETURN"}
        BY <1>8, <3>2 DEF Deliver, RunsHandlers, On
      <3> QED
        BY <1>12, <3>1, <3>2
    <2> QED
      BY <1>1, <2>1, <2>2, <2>3
  <1> QED
    BY <1>2, <1>9, <1>10, <1>11, <1>12 DEF Commands

-----------------------------------------------------------------------------
(* Each action keeps the messages in order.                                 *)

LEMMA QueueUnchanged ==
  ASSUME Queued, UNCHANGED <<read, parsed, state, pending, sync, posted, stack, handled>>
  PROVE  Queued'
  <1>1. PICK outer, inner \in Seq(Nat) :
          Listed(outer, pending, inner, parsed, handled) /\ Shape(outer, inner)
    BY DEF Queued
  <1>2. Listed(outer, pending', inner, parsed', handled')
    BY <1>1
  <1>3. Complete' = Complete /\ Bottom' = Bottom
    BY DEF Complete, Bottom
  <1>4. (Complete' => pending' = <<>>) = (Complete => pending = <<>>)
    BY <1>3
  <1>5. Working(outer) => Working(outer)'
    BY <1>3, <1>4 DEF Working
  <1>6. SettingUp(inner) => SettingUp(inner)'
    BY <1>3 DEF SettingUp
  <1>7. ASSUME NEW b \in Seq(Frames), Blocked(outer, inner, b)
        PROVE  Blocked(outer, inner, b)'
    <2>1. (Complete' => pending' = <<>> /\ inner = <<>>)
            = (Complete => pending = <<>> /\ inner = <<>>)
      BY <1>3
    <2> QED
      BY <1>4, <1>7, <2>1 DEF Blocked
  <1>8. Shape(outer, inner)'
    BY <1>1, <1>5, <1>6, <1>7 DEF Shape
  <1> QED
    BY <1>2, <1>8 DEF Queued

\* A message is handled in turn, or because it is waited for.
HandlesInTurn ==
  \/ handled' = handled /\ result' = result
  \/ \E m \in 1..Len(sent) \ handled :
       /\ handled' = handled \cup {m}
       /\ \/ sync = NoWait /\ 1..(m - 1) \subseteq handled /\ result' = result
          \/ sync # NoWait /\ result = 0 /\ result' = m /\ Matches(sent[m], sync)

LEMMA IdleAnyway ==
  ASSUME NEW s, NEW outer, NEW quiet, NEW quietNow, Idle(s, outer, quiet), quiet => quietNow
  PROVE  Idle(s, outer, quietNow)
  BY DEF Idle

LEMMA ParseInTurn ==
  ASSUME Inv, Parse
  PROVE  Queued' /\ Handshake' /\ handled' \subseteq 1..parsed' /\ HandlesInTurn
  <1> HIDE DEF Frames, NoWait, Complete
  <1> USE NoFrames DEF setupVars, effectVars, backendVars
  <1>1. PICK outer, inner \in Seq(Nat) :
          Listed(outer, pending, inner, parsed, handled) /\ Shape(outer, inner)
    BY DEF Inv, Queued
  <1>2. /\ stack # <<>> /\ Head(stack).kind = "data" /\ stack \in Seq(Frames)
        /\ UNCHANGED <<sent, read, sync, posted, phase>>
    BY DEF Inv, TypeOK, Parse, OnTop
  <1>3. ShapeByTop(outer, inner)
    BY <1>1, <1>2, TopOfShape
  <1>4. /\ inner = <<>> /\ stack = On(DataFrame, Tail(stack))
        /\ \/ /\ sync = NoWait /\ state = "Ready" /\ (pending # <<>> => posted)
              /\ Tail(stack) = <<>> /\ outer = <<>> /\ (Complete => pending = <<>>)
           \/ state # "Ready" /\ Tail(stack) = Bottom /\ outer = <<>>
           \/ /\ sync # NoWait /\ state = "Ready"
              /\ \E b \in Seq(Frames) : Tail(stack) = On(WaitFrame, b) /\ Idle(b, outer, TRUE)
    BY <1>2, <1>3 DEF ShapeByTop
  <1>5. Bottom' = Bottom
    BY <1>2 DEF Bottom
  <1>6. parsed \in Nat /\ handled \in SUBSET (1..parsed)
    BY DEF Inv, TypeOK
  <1>7. CASE ~Complete
    <2>1. stack' = Tail(stack) /\ UNCHANGED <<parsed, pending, result, state, handled>>
      BY <1>7 DEF Parse
    <2>2. ~Complete'
      BY <1>2, <1>7, <2>1 DEF Complete
    <2>3. Shape(outer, inner)'
      <3>1. CASE sync = NoWait /\ state = "Ready" /\ (pending # <<>> => posted)
                 /\ Tail(stack) = <<>> /\ outer = <<>>
        <4>1. Working(outer)'
          BY <2>1, <3>1 DEF Working, Idle
        <4> QED
          BY <1>2, <1>4, <2>1, <3>1, <4>1 DEF Shape
      <3>2. CASE state # "Ready" /\ Tail(stack) = Bottom /\ outer = <<>>
        <4>1. SettingUp(inner)'
          BY <1>4, <1>5, <2>1, <3>2 DEF SettingUp
        <4> QED
          BY <2>1, <3>2, <4>1 DEF Shape
      <3>3. CASE /\ sync # NoWait /\ state = "Ready"
                 /\ \E b \in Seq(Frames) : Tail(stack) = On(WaitFrame, b) /\ Idle(b, outer, TRUE)
        <4>1. PICK b \in Seq(Frames) : Tail(stack) = On(WaitFrame, b) /\ Idle(b, outer, TRUE)
          BY <3>3
        <4>2. Idle(b, outer, Complete' => pending' = <<>>)
          BY <2>2, <4>1, IdleAnyway
        <4>3. Blocked(outer, inner, b)'
          BY <1>4, <2>1, <4>1, <4>2 DEF Blocked
        <4> QED
          BY <1>2, <2>1, <3>3, <4>3 DEF Shape
      <3> QED
        BY <1>4, <3>1, <3>2, <3>3
    <2>4. Handshake'
      BY <1>2, <1>7 DEF Inv, Handshake, SetupInOrder, Parse
    <2> QED
      BY <1>1, <1>6, <2>1, <2>3, <2>4 DEF Queued, HandlesInTurn
  <1>8. CASE Complete
    <2> DEFINE m == parsed + 1
    <2>1. parsed' = m /\ HandleMessage(m, stack)
      BY <1>8 DEF Parse
    <2>2. m \in 1..Len(sent) /\ m \notin handled /\ m \in Nat
      BY <1>6, <1>8, ParsedWasSent DEF Inv
    <2> HIDE DEF m
    <2>3. CASE ~DoDeliver(m)
      <3>1. /\ stack' = stack /\ pending' = Append(pending, m)
            /\ UNCHANGED <<result, state, handled, engine, root>>
        BY <2>1, <2>3 DEF HandleMessage, PutOff
      <3>2. Listed(outer, pending', inner, parsed', handled')
        BY <1>1, <1>4, <1>6, <2>1, <3>1, ListedPutOffNew DEF m
      <3>3. ~(sync = NoWait /\ state = "Ready")
        BY <2>3 DEF Inv, Waiting, DoDeliver
      <3>4. Shape(outer, inner)'
        <4>1. CASE state # "Ready" /\ Tail(stack) = Bottom /\ outer = <<>>
          <5>1. SettingUp(inner)'
            BY <1>4, <1>5, <3>1, <4>1 DEF SettingUp
          <5> QED
            BY <3>1, <4>1, <5>1 DEF Shape
        <4>2. CASE /\ sync # NoWait /\ state = "Ready"
                   /\ \E b \in Seq(Frames) : Tail(stack) = On(WaitFrame, b) /\ Idle(b, outer, TRUE)
          <5>1. PICK b \in Seq(Frames) : Tail(stack) = On(WaitFrame, b) /\ Idle(b, outer, TRUE)
            BY <4>2
          <5>2. Blocked(outer, inner, b)'
            BY <1>4, <3>1, <5>1 DEF Blocked
          <5> QED
            BY <1>2, <3>1, <4>2, <5>2 DEF Shape
        <4> QED
          BY <1>4, <3>3, <4>1, <4>2
      <3>5. Handshake'
        BY <1>2, <3>1 DEF Inv, Handshake, SetupInOrder
      <3>6. handled' \subseteq 1..parsed'
        BY <1>6, <2>1, <3>1 DEF m
      <3> QED
        BY <3>1, <3>2, <3>4, <3>5, <3>6 DEF Queued, HandlesInTurn
    <2>4. CASE DoDeliver(m)
      <3>1. Deliver(m, stack)
        BY <2>1, <2>4 DEF HandleMessage
      <3>2. /\ handled' = handled \cup {m}
            /\ result' = IF sync = NoWait THEN result ELSE m
            /\ \/ stack' = stack /\ UNCHANGED <<state, pending>>
               \/ /\ stack' = On(JSFrame, stack) /\ UNCHANGED <<state, pending>>
                  /\ sync = NoWait /\ state = "Ready"
               \/ /\ stack' = On(FlushFrame(pending), stack) /\ pending' = <<>>
                  /\ state # "Ready" /\ state' # "Ready"
            /\ (UNCHANGED phase => Handshake')
        BY <2>2, <2>4, <3>1, DeliverCases DEF Inv
      <3>3. Listed(outer, pending, inner, parsed', handled')
        BY <1>1, <1>6, <2>1, <3>2, ListedHandleNew DEF m
      <3>4. handled' \subseteq 1..parsed'
        BY <1>6, <2>1, <3>2 DEF m
      <3>5. CASE state = "Ready"
        <4>1. (stack' = stack \/ (stack' = On(JSFrame, stack) /\ sync = NoWait))
              /\ UNCHANGED <<state, pending>>
          BY <3>2, <3>5
        <4>2. CASE sync = NoWait
          <5>1. outer = <<>> /\ pending = <<>> /\ Tail(stack) = <<>>
            BY <1>4, <1>8, <3>5, <4>2
          <5>2. Working(outer)'
            BY <1>4, <4>1, <5>1 DEF Working, Idle
          <5>3. Shape(outer, inner)'
            BY <1>2, <1>4, <3>5, <4>1, <4>2, <5>1, <5>2 DEF Shape
          <5>4. 1..parsed \subseteq handled
            BY <1>1, <1>4, <5>1, ListedNothing
          <5>5. parsed = m - 1
            BY <1>6 DEF m
          <5>6. HandlesInTurn
            BY <2>2, <3>2, <4>2, <5>4, <5>5 DEF HandlesInTurn
          <5> QED
            BY <1>2, <3>2, <3>3, <3>4, <4>1, <5>3, <5>6 DEF Queued
        <4>3. CASE sync # NoWait
          <5>1. PICK b \in Seq(Frames) : Tail(stack) = On(WaitFrame, b) /\ Idle(b, outer, TRUE)
            BY <1>4, <3>5, <4>3
          <5>2. Blocked(outer, inner, b)'
            BY <1>4, <4>1, <4>3, <5>1 DEF Blocked
          <5>3. Shape(outer, inner)'
            BY <1>2, <3>5, <4>1, <4>3, <5>2 DEF Shape
          <5>4. HandlesInTurn
            BY <2>2, <2>4, <3>2, <4>3 DEF HandlesInTurn, DoDeliver
          <5> QED
            BY <1>2, <3>2, <3>3, <3>4, <4>1, <5>3, <5>4 DEF Queued
        <4> QED
          BY <4>2, <4>3
      <3>6. CASE state # "Ready"
        <4>1. m = 1 \/ (m = 2 /\ 1 \in handled)
          BY <2>2, <2>4, <3>6, SetupOldest DEF Inv
        <4>2. 1..parsed \subseteq handled
          BY <1>6, <4>1 DEF m
        <4>3. pending = <<>>
          <5>1. Range(pending) = {} /\ pending \in Seq(Nat)
            BY <1>1, <4>2 DEF Listed
          <5> QED
            BY <5>1, NothingInRange
        <4>4. state' # "Ready" /\ pending' = pending
              /\ (stack' = stack \/ stack' = On(FlushFrame(<<>>), stack))
          BY <3>2, <3>6, <4>3
        <4>5. Tail(stack) = Bottom /\ outer = <<>>
          BY <1>4, <3>6
        <4>6. SettingUp(inner)'
          BY <1>4, <1>5, <4>4, <4>5 DEF SettingUp
        <4>7. Shape(outer, inner)'
          BY <4>4, <4>5, <4>6 DEF Shape
        <4>8. parsed = m - 1
          BY <1>6 DEF m
        <4>9. HandlesInTurn
          BY <2>2, <2>4, <3>2, <4>2, <4>8 DEF HandlesInTurn, DoDeliver
        <4> QED
          BY <1>2, <3>2, <3>3, <3>4, <4>4, <4>7, <4>9 DEF Queued
      <3> QED
        BY <3>5, <3>6
    <2> QED
      BY <2>3, <2>4
  <1> QED
    BY <1>7, <1>8

LEMMA FlushInTurn ==
  ASSUME Inv, FlushNext
  PROVE  Queued' /\ Handshake' /\ handled' \subseteq 1..parsed' /\ HandlesInTurn
  <1> HIDE DEF Frames, NoWait, Complete
  <1> USE NoFrames DEF setupVars, effectVars, backendVars, socketVars
  <1>1. PICK outer, inner \in Seq(Nat) :
          Listed(outer, pending, inner, parsed, handled) /\ Shape(outer, inner)
    BY DEF Inv, Queued
  <1>2. /\ stack # <<>> /\ Head(stack).kind = "flush" /\ stack \in Seq(Frames)
        /\ UNCHANGED <<sent, read, parsed, sync, posted, phase>>
    BY DEF Inv, TypeOK, FlushNext, OnTop
  <1>3. ShapeByTop(outer, inner)
    BY <1>1, <1>2, TopOfShape
  <1> DEFINE rest == Head(stack).rest
             tail == Tail(stack)
             Handling == /\ sync = NoWait /\ state = "Ready" /\ inner = <<>>
                         /\ (pending # <<>> => posted)
                         /\ rest = outer
                         /\ (tail = <<>> \/ tail = On(JSFrame, <<>>))
             Putting  == state # "Ready" /\ outer = <<>> /\ rest = inner /\ tail = Bottom
             Flushed  == /\ state # "Ready" /\ outer = <<>> /\ rest = <<>>
                         /\ \/ tail = On(DataFrame, Bottom) /\ inner = <<>>
                            \/ tail = On(FlushFrame(inner), Bottom)
             Looking  == /\ sync # NoWait /\ state = "Ready" /\ rest = inner
                         /\ \E b \in Seq(Frames) :
                              /\ tail = On(WaitFrame, b)
                              /\ Idle(b, outer, Complete => pending = <<>> /\ inner = <<>>)
  <1>4. Handling \/ Putting \/ Flushed \/ Looking
    BY <1>2, <1>3 DEF ShapeByTop
  <1>5. Bottom' = Bottom
    BY <1>2 DEF Bottom
  <1>6. parsed \in Nat /\ handled \in SUBSET (1..parsed) /\ Complete' = Complete
    BY <1>2 DEF Inv, TypeOK, Complete
  <1>7. IF rest = <<>>
        THEN stack' = tail /\ UNCHANGED <<pending, result, effectVars>>
        ELSE HandleMessage(Head(rest), On(FlushFrame(Tail(rest)), tail))
    BY DEF FlushNext, On
  <1> HIDE DEF rest, tail
  <1>8. CASE rest = <<>>
    <2>1. stack' = tail /\ UNCHANGED <<pending, result, state, handled, engine, root>>
      BY <1>7, <1>8
    <2>2. Shape(outer, inner)'
      <3>1. CASE Handling
        <4>1. Working(outer)'
          BY <1>8, <2>1, <3>1 DEF Working, Idle
        <4> QED
          BY <1>2, <2>1, <3>1, <4>1 DEF Shape
      <3>2. CASE Putting \/ Flushed
        <4>1. SettingUp(inner)'
          BY <1>5, <1>8, <2>1, <3>2 DEF SettingUp
        <4> QED
          BY <2>1, <3>2, <4>1 DEF Shape
      <3>3. CASE Looking
        <4>1. PICK b \in Seq(Frames) :
                /\ tail = On(WaitFrame, b)
                /\ Idle(b, outer, Complete => pending = <<>> /\ inner = <<>>)
          BY <3>3
        <4>2. Idle(b, outer, Complete' => pending' = <<>>)
          BY <1>6, <2>1, <4>1, IdleAnyway
        <4>3. Blocked(outer, inner, b)'
          BY <1>8, <2>1, <3>3, <4>1, <4>2 DEF Blocked
        <4> QED
          BY <1>2, <2>1, <3>3, <4>3 DEF Shape
      <3> QED
        BY <1>4, <3>1, <3>2, <3>3
    <2>3. Handshake'
      BY <1>2, <2>1 DEF Inv, Handshake, SetupInOrder
    <2> QED
      BY <1>1, <1>2, <1>6, <2>1, <2>2, <2>3 DEF Queued, HandlesInTurn
  <1>9. CASE rest # <<>>
    <2> DEFINE m      == Head(rest)
               frames == On(FlushFrame(Tail(rest)), tail)
    <2>1. HandleMessage(m, frames)
      BY <1>7, <1>9
    <2>2. CASE Handling
      <3>1. /\ Listed(Tail(outer), pending, inner, parsed, handled \cup {m})
            /\ m \in (1..parsed) \ handled
            /\ 1..(m - 1) \subseteq handled
        BY <1>1, <1>6, <1>9, <2>2, ListedTakeOuter
      <3>2. m \in 1..Len(sent) /\ m \notin handled /\ Tail(outer) \in Seq(Nat)
        BY <1>6, <3>1, ParsedWasSent DEF Inv, Listed
      <3> HIDE DEF m, frames
      <3>3. DoDeliver(m)
        BY <2>2 DEF DoDeliver, Inv, Waiting
      <3>4. Deliver(m, frames)
        BY <2>1, <3>3 DEF HandleMessage
      <3>5. /\ handled' = handled \cup {m} /\ result' = result
            /\ UNCHANGED <<state, pending>>
            /\ stack' = frames \/ stack' = On(JSFrame, frames)
            /\ (UNCHANGED phase => Handshake')
        BY <2>2, <3>2, <3>3, <3>4, DeliverCases DEF Inv
      <3>6. Working(Tail(outer))'
        BY <2>2, <3>5 DEF frames, Working, Idle
      <3>7. Shape(Tail(outer), inner)'
        BY <1>2, <2>2, <3>5, <3>6 DEF Shape
      <3>8. Listed(Tail(outer), pending', inner, parsed', handled')
        BY <1>2, <3>1, <3>5
      <3>9. HandlesInTurn
        BY <2>2, <3>1, <3>2, <3>5 DEF HandlesInTurn
      <3>10. handled' \subseteq 1..parsed'
        BY <1>2, <1>6, <3>1, <3>5
      <3> QED
        BY <1>2, <3>2, <3>5, <3>7, <3>8, <3>9, <3>10 DEF Queued
    <2>3. CASE Putting \/ Looking
      <3>1. rest = inner /\ ~(sync = NoWait /\ state = "Ready")
        BY <2>3
      <3>2. /\ Listed(outer, pending, Tail(inner), parsed, handled \cup {m})
            /\ m \in (1..parsed) \ handled
            /\ \A x \in Range(pending) : x < m /\ x \in (1..parsed) \ handled
        BY <1>1, <1>6, <1>9, <3>1, ListedTakeInner
      <3>3. m \in 1..Len(sent) /\ m \notin handled /\ Tail(inner) \in Seq(Nat)
        BY <1>6, <3>2, ParsedWasSent DEF Inv, Listed
      <3>4. ASSUME stack' = frames, UNCHANGED state
            PROVE  Shape(outer, Tail(inner))'
        <4>1. CASE Putting
          <5>1. SettingUp(Tail(inner))'
            BY <1>5, <3>1, <3>4, <4>1 DEF SettingUp
          <5> QED
            BY <3>4, <4>1, <5>1 DEF Shape
        <4>2. CASE Looking
          <5>1. PICK b \in Seq(Frames) :
                  /\ tail = On(WaitFrame, b)
                  /\ Idle(b, outer, Complete => pending = <<>> /\ inner = <<>>)
            BY <4>2
          <5>2. ~Complete => Idle(b, outer, Complete' => pending' = <<>> /\ Tail(inner) = <<>>)
            BY <1>6, <5>1, IdleAnyway
          <5>3. Complete => Idle(b, outer, FALSE)
            BY <1>9, <3>1, <5>1, IdleAnyway
          <5>4. Idle(b, outer, Complete' => pending' = <<>> /\ Tail(inner) = <<>>)
            BY <5>2, <5>3, IdleAnyway
          <5>5. Blocked(outer, Tail(inner), b)'
            BY <3>1, <3>4, <5>1, <5>4 DEF Blocked
          <5> QED
            BY <1>2, <3>4, <4>2, <5>5 DEF Shape
        <4> QED
          BY <2>3, <4>1, <4>2
      <3>5. CASE ~DoDeliver(m)
        <4>1. /\ stack' = frames /\ pending' = Append(pending, m)
              /\ UNCHANGED <<result, state, handled, engine, root>>
          BY <2>1, <3>5 DEF HandleMessage, PutOff
        <4>2. Listed(outer, pending', Tail(inner), parsed', handled')
          BY <1>1, <1>2, <1>9, <3>1, <4>1, ListedPutOff
        <4>3. Handshake'
          BY <1>2, <4>1 DEF Inv, Handshake, SetupInOrder
        <4>4. Shape(outer, Tail(inner))'
          BY <3>4, <4>1
        <4> QED
          BY <1>2, <1>6, <3>3, <4>1, <4>2, <4>3, <4>4 DEF Queued, HandlesInTurn
      <3>6. CASE DoDeliver(m)
        <4>1. Deliver(m, frames)
          BY <2>1, <3>6 DEF HandleMessage
        <4> HIDE DEF m, frames
        <4>2. /\ handled' = handled \cup {m}
              /\ result' = IF sync = NoWait THEN result ELSE m
              /\ \/ stack' = frames /\ UNCHANGED <<state, pending>>
                 \/ /\ stack' = On(FlushFrame(pending), frames) /\ pending' = <<>>
                    /\ state # "Ready" /\ state' # "Ready"
              /\ (UNCHANGED phase => Handshake')
          BY <3>1, <3>3, <3>6, <4>1, DeliverCases DEF Inv
        <4>3. handled' \subseteq 1..parsed'
          BY <1>2, <1>6, <3>2, <4>2
        <4>4. state # "Ready" => m = 1 \/ (m = 2 /\ 1 \in handled)
          BY <3>3, <3>6, SetupOldest DEF Inv
        <4>5. HandlesInTurn
          <5>1. CASE sync = NoWait
            <6>1. 1..(m - 1) \subseteq handled
              BY <3>1, <4>4, <5>1
            <6> QED
              BY <3>3, <4>2, <5>1, <6>1 DEF HandlesInTurn
          <5>2. CASE sync # NoWait
            BY <3>3, <3>6, <4>2, <5>2 DEF HandlesInTurn, DoDeliver
          <5> QED
            BY <5>1, <5>2
        <4>6. Shape(outer, Tail(inner))' /\ pending' = pending
          <5>1. CASE stack' = frames /\ UNCHANGED <<state, pending>>
            BY <3>4, <5>1
          <5>2. CASE /\ stack' = On(FlushFrame(pending), frames) /\ pending' = <<>>
                     /\ state # "Ready" /\ state' # "Ready"
            <6>1. Range(pending) = {} /\ pending \in Seq(Nat)
              BY <1>1, <3>2, <4>4, <5>2 DEF Listed
            <6>2. pending = <<>>
              BY <6>1, NothingInRange
            <6>3. Putting
              BY <2>3, <5>2
            <6>4. SettingUp(Tail(inner))'
              BY <1>5, <3>1, <5>2, <6>2, <6>3 DEF frames, SettingUp
            <6> QED
              BY <5>2, <6>2, <6>3, <6>4 DEF Shape
          <5> QED
            BY <4>2, <5>1, <5>2
        <4>7. Listed(outer, pending', Tail(inner), parsed', handled')
          BY <1>2, <3>2, <4>2, <4>6
        <4> QED
          BY <1>2, <3>3, <4>2, <4>3, <4>5, <4>6, <4>7 DEF Queued
      <3> QED
        BY <3>5, <3>6
    <2> QED
      BY <1>4, <1>9, <2>2, <2>3
  <1> QED
    BY <1>8, <1>9

LEMMA WaitForBytesInTurn ==
  ASSUME Inv, WaitForBytes
  PROVE  Queued'
  <1> HIDE DEF Frames, NoWait, Complete
  <1> USE NoFrames DEF setupVars, effectVars, backendVars, syncVars
  <1>1. PICK outer, inner \in Seq(Nat) :
          Listed(outer, pending, inner, parsed, handled) /\ Shape(outer, inner)
    BY DEF Inv, Queued
  <1>2. /\ stack # <<>> /\ Head(stack).kind = "wait" /\ stack \in Seq(Frames)
        /\ UNCHANGED <<parsed, pending, sync, state, handled>>
        /\ stack' = On(DataFrame, stack)
    BY DEF Inv, TypeOK, WaitForBytes, OnTop, ReadSocket, On
  <1>3. ShapeByTop(outer, inner)
    BY <1>1, <1>2, TopOfShape
  <1>4. /\ sync # NoWait /\ inner = <<>>
        /\ stack = On(WaitFrame, Tail(stack)) /\ Tail(stack) \in Seq(Frames)
        /\ \/ state # "Ready" /\ Tail(stack) = <<>> /\ outer = <<>>
           \/ state = "Ready" /\ Idle(Tail(stack), outer, Complete => pending = <<>>)
    BY <1>2, <1>3 DEF ShapeByTop
  <1>5. CASE state # "Ready"
    <2>1. SettingUp(inner)'
      BY <1>2, <1>4, <1>5 DEF SettingUp, Bottom
    <2> QED
      BY <1>1, <1>2, <1>4, <1>5, <2>1 DEF Shape, Queued
  <1>6. CASE state = "Ready"
    <2>1. Idle(Tail(stack), outer, TRUE)
      BY <1>4, <1>6, IdleAnyway
    <2>2. PICK b \in Seq(Frames) : b = Tail(stack)
      BY <1>4
    <2>3. Blocked(outer, inner, b)'
      BY <1>2, <1>4, <2>1, <2>2 DEF Blocked
    <2>4. Shape(outer, inner)'
      BY <1>2, <1>4, <1>6, <2>3 DEF Shape
    <2> QED
      BY <1>1, <1>2, <2>4 DEF Queued
  <1> QED
    BY <1>5, <1>6

LEMMA EndWaitInTurn ==
  ASSUME Inv, EndWait
  PROVE  /\ Queued'
         /\ sync # NoWait /\ result # 0 /\ sync' = NoWait /\ result' = 0
  <1> HIDE DEF Frames, NoWait, Complete
  <1> USE NoFrames DEF setupVars, effectVars, backendVars, socketVars
  <1>1. PICK outer, inner \in Seq(Nat) :
          Listed(outer, pending, inner, parsed, handled) /\ Shape(outer, inner)
    BY DEF Inv, Queued
  <1>2. /\ stack # <<>> /\ Head(stack).kind = "wait" /\ stack \in Seq(Frames)
        /\ UNCHANGED <<parsed, pending, state, handled, read>>
        /\ stack' = Tail(stack) /\ result # 0
        /\ sync' = Head(stack).sync /\ result' = Head(stack).result
        /\ posted' = (posted \/ pending # <<>>)
    BY DEF Inv, TypeOK, EndWait, OnTop
  <1>3. ShapeByTop(outer, inner)
    BY <1>1, <1>2, TopOfShape
  <1>4. /\ sync # NoWait /\ inner = <<>> /\ Head(stack) = WaitFrame
        /\ \/ state # "Ready" /\ Tail(stack) = <<>> /\ outer = <<>>
           \/ state = "Ready" /\ Idle(Tail(stack), outer, Complete => pending = <<>>)
    BY <1>2, <1>3 DEF ShapeByTop
  <1>5. sync' = NoWait /\ result' = 0 /\ Complete' = Complete
    BY <1>2, <1>4, FramesTyped DEF Complete
  <1>6. CASE state # "Ready"
    <2>1. SettingUp(inner)'
      BY <1>2, <1>4, <1>5, <1>6 DEF SettingUp, Bottom
    <2> QED
      BY <1>1, <1>2, <1>4, <1>5, <1>6, <2>1 DEF Shape, Queued
  <1>7. CASE state = "Ready"
    <2>1. Idle(Tail(stack), outer, Complete' => pending' = <<>>)
      BY <1>2, <1>4, <1>5, <1>7, IdleAnyway
    <2>2. Working(outer)'
      BY <1>2, <2>1 DEF Working
    <2>3. Shape(outer, inner)'
      BY <1>2, <1>4, <1>5, <1>7, <2>2 DEF Shape
    <2> QED
      BY <1>1, <1>2, <1>4, <1>5, <2>3 DEF Queued
  <1> QED
    BY <1>6, <1>7

LEMMA BeginWaitInTurn ==
  ASSUME Inv, NEW pattern, BeginWait(pattern),
         pattern.cmd \in {"VERSION", "CREATABLE_TYPES", "ROOT", "OBJECT_RESET"},
         stack = <<>> \/ OnTop("js"), UNCHANGED <<read, parsed, state, handled>>
  PROVE  Queued' /\ Waiting' /\ sync = NoWait /\ pattern # NoWait
  <1> HIDE DEF Frames, Complete
  <1> USE NoFrames
  <1>1. PICK outer, inner \in Seq(Nat) :
          Listed(outer, pending, inner, parsed, handled) /\ Shape(outer, inner)
    BY DEF Inv, Queued
  <1>2. ShapeByTop(outer, inner) /\ stack \in Seq(Frames)
    BY <1>1, TopOfShape DEF Inv, TypeOK
  <1>3. NoWait.cmd = "none"
    BY DEF NoWait, Pattern
  <1>4. pattern # NoWait
    BY <1>3
  <1> HIDE DEF NoWait
  <1>5. /\ sync = NoWait /\ inner = <<>>
        /\ \/ Idle(stack, outer, Complete => pending = <<>>)
           \/ state # "Ready" /\ stack = <<>> /\ outer = <<>>
    <2>1. CASE stack = <<>>
      BY <1>2, <2>1 DEF ShapeByTop, Idle
    <2>2. CASE stack # <<>> /\ Head(stack).kind = "js"
      BY <1>2, <2>2 DEF ShapeByTop
    <2> QED
      BY <2>1, <2>2 DEF OnTop
  <1>6. result = 0
    BY <1>5 DEF Inv, Waiting
  <1>7. /\ sync' = pattern /\ result' = 0 /\ pending' = <<>>
        /\ stack' = On(FlushFrame(pending), On(WaitFrame, stack))
    BY <1>5, <1>6 DEF BeginWait, Flush, On, WaitFrame
  <1>8. PICK copy \in Seq(Nat) : copy = pending
    BY <1>1 DEF Listed
  <1>9. Listed(outer, <<>>, copy, parsed, handled)
    BY <1>1, <1>5, <1>8, ListedFlush
  <1>10. Shape(outer, copy)'
    <2>1. CASE state # "Ready"
      <3>1. stack = <<>> /\ outer = <<>>
        <4>1. CASE stack = <<>>
          BY <1>2, <4>1 DEF ShapeByTop
        <4>2. CASE stack # <<>> /\ Head(stack).kind = "js"
          BY <1>2, <2>1, <4>2 DEF ShapeByTop
        <4> QED
          BY <4>1, <4>2 DEF OnTop
      <3>2. Bottom' = On(WaitFrame, <<>>)
        BY <1>4, <1>7 DEF Bottom
      <3>3. SettingUp(copy)'
        BY <1>7, <1>8, <3>1, <3>2 DEF SettingUp
      <3> QED
        BY <2>1, <3>1, <3>3 DEF Shape
    <2>2. CASE state = "Ready"
      <3>1. Idle(stack, outer, Complete => pending = <<>>)
        BY <1>5, <2>2
      <3>2. (Complete => pending = <<>>) => (Complete' => pending' = <<>> /\ copy = <<>>)
        BY <1>7, <1>8 DEF Complete
      <3>3. Idle(stack, outer, Complete' => pending' = <<>> /\ copy = <<>>)
        BY <3>1, <3>2, IdleAnyway
      <3>4. PICK b \in Seq(Frames) : b = stack
        BY <1>2
      <3>5. Blocked(outer, copy, b)'
        BY <1>7, <1>8, <3>3, <3>4 DEF Blocked
      <3> QED
        BY <1>4, <1>7, <2>2, <3>5 DEF Shape
    <2> QED
      BY <2>1, <2>2
  <1> QED
    BY <1>4, <1>5, <1>7, <1>9, <1>10 DEF Queued, Waiting

\* The event loop has nothing on the stack.
LEMMA AtRest ==
  ASSUME Inv, stack = <<>>
  PROVE  /\ Listed(<<>>, pending, <<>>, parsed, handled)
         /\ sync = NoWait
         /\ state = "Ready" /\ pending # <<>> => posted
  <1>1. PICK outer, inner \in Seq(Nat) :
          Listed(outer, pending, inner, parsed, handled) /\ Shape(outer, inner)
    BY DEF Inv, Queued
  <1>2. ShapeByTop(outer, inner)
    BY <1>1, TopOfShape DEF Inv, TypeOK
  <1> QED
    BY <1>1, <1>2 DEF ShapeByTop

\* handlePendingMessages is called from the event loop, or setState from setQmlEngine.
LEMMA FlushAtRest ==
  ASSUME Inv, stack = <<>>, UNCHANGED <<parsed, handled, sync>>,
         pending' = <<>>,
         \/ state' = state /\ stack' = On(FlushFrame(pending), <<>>)
         \/ /\ state' = "Ready"
            /\ \/ stack' = On(FlushFrame(pending), <<>>)
               \/ stack' = On(FlushFrame(pending), On(JSFrame, <<>>))
  PROVE  Queued'
  <1> USE NoFrames
  <1>1. Listed(<<>>, pending, <<>>, parsed, handled) /\ sync = NoWait
    BY AtRest
  <1>2. PICK copy \in Seq(Nat) : copy = pending
    BY <1>1 DEF Listed
  <1>3. Listed(copy, <<>>, <<>>, parsed, handled) /\ Listed(<<>>, <<>>, copy, parsed, handled)
    BY <1>1, <1>2, ListedFlush
  <1> HIDE DEF NoWait
  <1>4. CASE state' = "Ready"
    <2>1. Working(copy)'
      BY <1>2, <1>4 DEF Working
    <2>2. Shape(copy, <<>>)'
      BY <1>1, <1>4, <2>1 DEF Shape
    <2> QED
      BY <1>3, <2>2 DEF Queued
  <1>5. CASE state' # "Ready"
    <2>1. SettingUp(copy)'
      BY <1>1, <1>2, <1>5 DEF SettingUp, Bottom
    <2>2. Shape(<<>>, copy)'
      BY <1>5, <2>1 DEF Shape
    <2> QED
      BY <1>3, <2>2 DEF Queued
  <1> QED
    BY <1>4, <1>5

\* The event loop or setBackendIo looks at the socket.
LEMMA ReadAtRest ==
  ASSUME Inv, stack = <<>>, ~posted \/ state # "Ready", ReadSocket(<<>>),
         UNCHANGED <<pending, handled, sync, state, posted>>
  PROVE  Queued'
  <1> USE NoFrames
  <1>1. Listed(<<>>, pending, <<>>, parsed, handled) /\ sync = NoWait
    BY AtRest
  <1>2. stack' = On(DataFrame, <<>>) /\ parsed' = parsed
    BY DEF ReadSocket, On
  <1> HIDE DEF NoWait
  <1>3. CASE state = "Ready"
    <2>1. pending = <<>>
      BY <1>3, AtRest
    <2>2. Working(<<>>)'
      BY <1>2, <2>1 DEF Working
    <2>3. Shape(<<>>, <<>>)'
      BY <1>1, <1>3, <2>1, <2>2 DEF Shape
    <2> QED
      BY <1>1, <1>2, <2>3 DEF Queued
  <1>4. CASE state # "Ready"
    <2>1. SettingUp(<<>>)'
      BY <1>1, <1>2 DEF SettingUp, Bottom
    <2>2. Shape(<<>>, <<>>)'
      BY <1>4, <2>1 DEF Shape
    <2> QED
      BY <1>1, <1>2, <2>2 DEF Queued
  <1> QED
    BY <1>3, <1>4

\* JavaScript begins and ends.
LEMMA RunJSInTurn ==
  ASSUME Inv, RunJS \/ EndJS
  PROVE  Queued'
  <1> HIDE DEF Frames, Complete
  <1> USE NoFrames DEF setupVars, effectVars, backendVars, socketVars, syncVars
  <1>1. CASE RunJS
    <2>1. /\ stack = <<>> /\ stack' = On(JSFrame, <<>>) /\ state = "Ready"
          /\ UNCHANGED <<read, parsed, pending, handled, sync, state, posted>>
      BY <1>1, FramesTyped, Alone DEF RunJS, EventLoop, Inv, Handshake
    <2>2. /\ Listed(<<>>, pending, <<>>, parsed, handled) /\ sync = NoWait
          /\ pending # <<>> => posted
      BY <2>1, AtRest
    <2> HIDE DEF NoWait
    <2>3. Working(<<>>)'
      BY <2>1 DEF Working, Idle
    <2>4. Shape(<<>>, <<>>)'
      BY <2>1, <2>2, <2>3 DEF Shape
    <2> QED
      BY <2>1, <2>2, <2>4 DEF Queued
  <1>2. CASE EndJS
    <2>1. /\ stack # <<>> /\ Head(stack).kind = "js" /\ stack \in Seq(Frames)
          /\ stack' = Tail(stack)
          /\ UNCHANGED <<read, parsed, pending, handled, sync, state, posted>>
      BY <1>2 DEF EndJS, OnTop, Inv, TypeOK
    <2>2. PICK outer, inner \in Seq(Nat) :
            Listed(outer, pending, inner, parsed, handled) /\ Shape(outer, inner)
      BY DEF Inv, Queued
    <2> HIDE DEF NoWait
    <2>3. ShapeByTop(outer, inner)
      BY <2>1, <2>2, TopOfShape
    <2>4. /\ sync = NoWait /\ state = "Ready" /\ inner = <<>> /\ (pending # <<>> => posted)
          /\ Idle(stack, outer, Complete => pending = <<>>)
      BY <2>1, <2>3 DEF ShapeByTop
    <2>5. (Complete => pending = <<>>) \in BOOLEAN
      OBVIOUS
    <2>6. \/ Tail(stack) = <<>> /\ outer = <<>>
          \/ Tail(stack) = On(DataFrame, <<>>) /\ outer = <<>> /\ (Complete => pending = <<>>)
          \/ Tail(stack) = On(FlushFrame(outer), <<>>)
          \/ Tail(stack) = On(FlushFrame(outer), On(JSFrame, <<>>))
      BY <2>1, <2>4, <2>5, IdleTop
    <2>7. Complete' = Complete
      BY <2>1 DEF Complete
    <2>8. Working(outer)'
      BY <2>1, <2>6, <2>7 DEF Working, Idle
    <2>9. Shape(outer, inner)'
      BY <2>1, <2>4, <2>8 DEF Shape
    <2> QED
      BY <2>1, <2>2, <2>9 DEF Queued
  <1> QED
    BY <1>1, <1>2

-----------------------------------------------------------------------------
(* Types.                                                                   *)

Messages == [cmd : Commands, about : About, ver : Nat]

LEMMA WriteTyped ==
  ASSUME TypeOK, NEW msg \in Messages, Write(msg),
         Greeted, UNCHANGED <<read, parsed>>,
         msg.cmd = "VERSION" => Len(sent) = 0,
         msg.cmd = "CREATABLE_TYPES" => Len(sent) = 1
  PROVE  /\ sent' \in Seq(Messages) /\ read' <= Pieces * Len(sent')
         /\ Greeted'
  <1>1. sent \in Seq(Messages) /\ Len(sent) \in Nat
    BY LenProperties DEF TypeOK, Messages
  <1>2. /\ sent' \in Seq(Messages) /\ Len(sent') = Len(sent) + 1
        /\ \A i \in 1..Len(sent) : sent'[i] = sent[i]
        /\ sent'[Len(sent) + 1] = msg
    BY <1>1, AppendProperties DEF Write
  <1>3. read' <= Pieces * Len(sent')
    <2>1. read \in Nat /\ Pieces \in Nat /\ read <= Pieces * Len(sent)
      BY DispatchAssumption DEF TypeOK
    <2>2. Pieces * (Len(sent) + 1) = Pieces * Len(sent) + Pieces
      BY <1>1, <2>1
    <2>3. Pieces * Len(sent) \in Int
      BY <1>1, <2>1
    <2> QED
      BY <1>2, <2>1, <2>2, <2>3
  <1>4. Greeted'
    <2> SUFFICES ASSUME NEW i \in 1..Len(sent')
                 PROVE  /\ sent'[i].cmd = "VERSION" => i = 1
                        /\ sent'[i].cmd = "CREATABLE_TYPES" => i = 2
      BY DEF Greeted
    <2>1. CASE i \in 1..Len(sent)
      BY <1>2, <2>1 DEF Greeted
    <2>2. CASE i = Len(sent) + 1
      BY <1>1, <1>2, <2>2
    <2> QED
      BY <1>1, <1>2, <2>1, <2>2
  <1> QED
    BY <1>2, <1>3, <1>4

\* What the backend writes.
LEMMA BackendWrites ==
  ASSUME TypeOK, Backend
  PROVE  \E msg \in Messages :
           /\ Write(msg)
           /\ msg.cmd = "VERSION" => Len(sent) = 0
           /\ msg.cmd = "CREATABLE_TYPES" => Len(sent) = 1
           /\ version' \in [Obj -> Nat] /\ requests' \subseteq Obj \cup Calls
  <1>5. Nothing \in About /\ Obj \subseteq About /\ Calls \subseteq About
    BY DEF About
  <1>0. Len(sent) \in Nat
    BY LenProperties DEF TypeOK
  <1>1. CASE Greet
    <2>0. Len(Greeting) = 3
      BY DEF Greeting
    <2>1. Len(sent) = 0 \/ Len(sent) = 1 \/ Len(sent) = 2
      <3>1. Len(sent) < Len(Greeting)
        BY <1>1 DEF Greet
      <3>2. Len(sent) < 3
        BY <2>0, <3>1
      <3>3. \A n \in Nat : n < 3 => n = 0 \/ n = 1 \/ n = 2
        OBVIOUS
      <3> QED
        BY <1>0, <3>2, <3>3
    <2>2. CASE Len(sent) = 0
      <3> DEFINE msg == Message("VERSION", Nothing, 0)
      <3>1. Write(msg) /\ msg.cmd = "VERSION"
        BY <1>1, <2>2 DEF Greet, Greeting, Message
      <3>2. msg \in Messages
        BY <1>5 DEF Messages, Message, Commands
      <3> QED
        BY <1>1, <2>2, <3>1, <3>2 DEF Greet, TypeOK
    <2>3. CASE Len(sent) = 1
      <3> DEFINE msg == Message("CREATABLE_TYPES", Nothing, 0)
      <3>1. Write(msg) /\ msg.cmd = "CREATABLE_TYPES"
        BY <1>1, <2>3 DEF Greet, Greeting, Message
      <3>2. msg \in Messages
        BY <1>5 DEF Messages, Message, Commands
      <3> QED
        BY <1>1, <2>3, <3>1, <3>2 DEF Greet, TypeOK
    <2>4. CASE Len(sent) = 2
      <3> DEFINE msg == Message("ROOT", Nothing, 0)
      <3>1. Write(msg) /\ msg.cmd = "ROOT"
        BY <1>1, <2>4 DEF Greet, Greeting, Message
      <3>2. msg \in Messages
        BY <1>5 DEF Messages, Message, Commands
      <3> QED
        BY <1>1, <3>1, <3>2 DEF Greet, TypeOK
    <2> QED
      BY <2>1, <2>2, <2>3, <2>4
  <1>2. CASE Emit
    <2> DEFINE msg == Message("EMIT", Nothing, 0)
    <2>1. Write(msg) /\ msg.cmd = "EMIT"
      BY <1>2 DEF Emit, Message
    <2>2. msg \in Messages
      BY <1>5 DEF Messages, Message, Commands
    <2> QED
      BY <1>2, <2>1, <2>2 DEF Emit, TypeOK
  <1>3. ASSUME NEW o \in Obj, Change(o)
        PROVE  \E msg \in Messages :
                 /\ Write(msg)
                 /\ msg.cmd = "VERSION" => Len(sent) = 0
                 /\ msg.cmd = "CREATABLE_TYPES" => Len(sent) = 1
                 /\ version' \in [Obj -> Nat] /\ requests' \subseteq Obj \cup Calls
    <2> DEFINE msg == Message("OBJECT_RESET", o, version[o] + 1)
    <2>1. version[o] + 1 \in Nat
      BY DEF TypeOK
    <2>2. Write(msg) /\ msg.cmd = "OBJECT_RESET"
      BY <1>3 DEF Change, Message
    <2>3. msg \in Messages
      BY <1>5, <2>1 DEF Messages, Message, Commands
    <2>4. version' \in [Obj -> Nat] /\ requests' \subseteq Obj \cup Calls
      BY <1>3, <2>1 DEF Change, TypeOK
    <2> QED
      BY <2>2, <2>3, <2>4
  <1>4. ASSUME NEW q \in requests, Answer(q)
        PROVE  \E msg \in Messages :
                 /\ Write(msg)
                 /\ msg.cmd = "VERSION" => Len(sent) = 0
                 /\ msg.cmd = "CREATABLE_TYPES" => Len(sent) = 1
                 /\ version' \in [Obj -> Nat] /\ requests' \subseteq Obj \cup Calls
    <2> DEFINE msg == IF q \in Calls THEN Message("INVOKE_RETURN", q, 0)
                                     ELSE Message("OBJECT_RESET", q, version[q])
    <2>1. q \in Obj \cup Calls /\ (q \in Obj => version[q] \in Nat)
      BY DEF TypeOK
    <2>2. Write(msg) /\ msg.cmd \in {"INVOKE_RETURN", "OBJECT_RESET"}
      BY <1>4 DEF Answer, Message
    <2>3. msg \in Messages
      <3>1. CASE q \in Calls
        BY <1>5, <3>1 DEF Messages, Message, Commands
      <3>2. CASE q \notin Calls
        BY <1>5, <2>1, <3>2 DEF Messages, Message, Commands
      <3> QED
        BY <3>1, <3>2
    <2>4. version' \in [Obj -> Nat] /\ requests' \subseteq Obj \cup Calls
      BY <1>4 DEF Answer, TypeOK
    <2> QED
      BY <2>2, <2>3, <2>4
  <1> QED
    BY <1>1, <1>2, <1>3, <1>4 DEF Backend

LEMMA BackendTyped ==
  ASSUME TypeOK, Greeted, Backend
  PROVE  TypeOK' /\ Greeted'
  <1> USE DEF socketVars, syncVars, setupVars, effectVars
  <1>2. PICK msg \in Messages :
          /\ Write(msg)
          /\ msg.cmd = "VERSION" => Len(sent) = 0
          /\ msg.cmd = "CREATABLE_TYPES" => Len(sent) = 1
          /\ version' \in [Obj -> Nat] /\ requests' \subseteq Obj \cup Calls
    BY BackendWrites
  <1>3. UNCHANGED <<read, parsed>>
    BY DEF Backend
  <1>4. sent' \in Seq(Messages) /\ read' <= Pieces * Len(sent') /\ Greeted'
    BY <1>2, <1>3, WriteTyped
  <1> QED
    BY <1>2, <1>4 DEF Backend, TypeOK, Messages

LEMMA ReadTyped ==
  ASSUME TypeOK, NEW frames \in Seq(Frames), ReadSocket(frames), UNCHANGED sent
  PROVE  /\ read' \in Nat /\ parsed' = parsed
         /\ Pieces * parsed' <= read' /\ read' <= Pieces * Len(sent')
         /\ stack' \in Seq(Frames)
  <1>1. /\ read \in Nat /\ parsed \in Nat /\ Len(sent) \in Nat /\ Pieces \in Nat
        /\ Pieces * parsed <= read /\ read <= Pieces * Len(sent)
    BY DispatchAssumption, LenProperties DEF TypeOK
  <1>2. PICK n \in 1..(Pieces * Len(sent) - read) : read' = read + n
    BY DEF ReadSocket, Available
  <1>3. Pieces * parsed \in Int /\ Pieces * Len(sent) \in Int
    BY <1>1
  <1>4. read' \in Nat /\ Pieces * parsed <= read' /\ read' <= Pieces * Len(sent)
    BY <1>1, <1>2, <1>3
  <1>5. stack' \in Seq(Frames) /\ parsed' = parsed
    BY FramesTyped, OnTopOf DEF ReadSocket, On
  <1> QED
    BY <1>4, <1>5

LEMMA BeginWaitTyped ==
  ASSUME TypeOK, NEW pattern \in Patterns, BeginWait(pattern)
  PROVE  /\ sync' \in Patterns /\ result' \in Nat
         /\ pending' \in Seq(Nat) /\ stack' \in Seq(Frames)
  <1> HIDE DEF Patterns
  <1>1. Frame("wait", <<>>, sync, result) \in Frames
    BY NoFrames DEF Frame, Frames, TypeOK
  <1>2. FlushFrame(pending) \in Frames
    BY FramesTyped DEF TypeOK
  <1> HIDE DEF Frames
  <1>3. On(Frame("wait", <<>>, sync, result), stack) \in Seq(Frames)
    BY <1>1, OnTopOf DEF TypeOK
  <1>4. On(FlushFrame(pending), On(Frame("wait", <<>>, sync, result), stack)) \in Seq(Frames)
    BY <1>2, <1>3, OnTopOf
  <1> QED
    BY <1>4, NoFrames DEF BeginWait, Flush, On

LEMMA HandleTyped ==
  ASSUME TypeOK, NEW m \in 1..Len(sent), NEW frames \in Seq(Frames), HandleMessage(m, frames)
  PROVE  /\ state' \in {"WantVersion", "WantTypes", "WantEngine", "Ready"}
         /\ engine' \in BOOLEAN /\ root' \in BOOLEAN
         /\ pending' \in Seq(Nat) /\ result' \in Nat /\ stack' \in Seq(Frames)
         /\ handled' \subseteq Nat /\ data' \in [Obj -> Nat]
         /\ call' \in [Calls -> {"none", "pending", "settled", "dropped"}]
  <1> HIDE DEF Frames
  <1> USE DEF setupVars, effectVars
  <1>1. m \in Nat /\ pending \in Seq(Nat) /\ Append(pending, m) \in Seq(Nat)
    <2>1. m \in Nat /\ pending \in Seq(Nat)
      BY LenProperties DEF TypeOK
    <2> QED
      BY <2>1, AppendProperties
  <1>2. CASE PutOff(m, frames)
    BY <1>1, <1>2 DEF PutOff, TypeOK
  <1>3. CASE Deliver(m, frames)
    <2>1. sent[m].ver \in Nat /\ sent[m].cmd \in Commands
      <3>1. sent \in Seq([cmd : Commands, about : About, ver : Nat])
        BY DEF TypeOK
      <3>2. sent[m] \in [cmd : Commands, about : About, ver : Nat]
        BY <3>1, ElementOfSeq
      <3> QED
        BY <3>2
    <2>2. /\ handled' \subseteq Nat /\ result' \in Nat
      BY <1>1, <1>3 DEF Deliver, TypeOK
    <2>3. /\ On(FlushFrame(pending), frames) \in Seq(Frames)
          /\ On(JSFrame, frames) \in Seq(Frames)
      BY <1>1, FramesTyped, OnTopOf
    <2>4. CASE sent[m].cmd \in {"VERSION", "CREATABLE_TYPES"}
      BY <1>3, <2>2, <2>3, <2>4, NoFrames DEF Deliver, SetState, Flush, On, TypeOK
    <2>5. CASE sent[m].cmd = "ROOT"
      BY <1>3, <2>2, <2>5 DEF Deliver, TypeOK
    <2>6. CASE sent[m].cmd = "OBJECT_RESET"
      <3>1. data' \in [Obj -> Nat]
        BY <1>3, <2>1, <2>6 DEF Deliver, TypeOK
      <3>2. stack' \in Seq(Frames)
        BY <1>3, <2>3, <2>6 DEF Deliver, RunsHandlers, On
      <3> QED
        BY <1>3, <2>2, <2>6, <3>1, <3>2 DEF Deliver, TypeOK
    <2>7. CASE sent[m].cmd = "EMIT"
      <3>1. stack' \in Seq(Frames)
        BY <1>3, <2>3, <2>7 DEF Deliver, RunsHandlers, On
      <3> QED
        BY <1>3, <2>2, <2>7, <3>1 DEF Deliver, TypeOK
    <2>8. CASE sent[m].cmd = "INVOKE_RETURN"
      <3>1. call' \in [Calls -> {"none", "pending", "settled", "dropped"}]
        BY <1>3, <2>8 DEF Deliver, TypeOK
      <3>2. stack' \in Seq(Frames)
        BY <1>3, <2>3, <2>8 DEF Deliver, RunsHandlers, On
      <3> QED
        BY <1>3, <2>2, <2>8, <3>1, <3>2 DEF Deliver, TypeOK
    <2> QED
      BY <2>1, <2>4, <2>5, <2>6, <2>7, <2>8 DEF Commands
  <1> QED
    BY <1>2, <1>3 DEF HandleMessage

-----------------------------------------------------------------------------
(* Each action keeps the invariant.                                         *)

LEMMA NothingHandled ==
  ASSUME Inv, UNCHANGED <<sent, parsed, handled>>
  PROVE  Greeted' /\ handled' \subseteq 1..parsed'
  BY DEF Inv, Greeted

LEMMA SameHandshake ==
  ASSUME Inv, UNCHANGED <<state, engine, root, phase, handled>>
  PROVE  Handshake'
  BY DEF Inv, Handshake, SetupInOrder

LEMMA SameWaiting ==
  ASSUME Inv, UNCHANGED <<sync, result>>
  PROVE  Waiting'
  BY DEF Inv, Waiting

LEMMA BackendStep ==
  ASSUME Inv, Backend
  PROVE  Inv'
  <1>1. UNCHANGED <<read, parsed, pending, sync, result, posted, stack, phase,
                    state, engine, root, handled>>
    BY DEF Backend, socketVars, syncVars, effectVars, setupVars
  <1>2. TypeOK' /\ Greeted'
    BY BackendTyped DEF Inv
  <1>3. Queued'
    BY <1>1, QueueUnchanged DEF Inv
  <1>4. Handshake' /\ Waiting'
    BY <1>1, SameHandshake, SameWaiting
  <1>5. handled' \subseteq 1..parsed' /\ Unconnected'
    BY <1>1 DEF Inv, Unconnected
  <1> QED
    BY <1>2, <1>3, <1>4, <1>5 DEF Inv

LEMMA ParseTyped ==
  ASSUME Inv, Parse
  PROVE  TypeOK'
  <1> HIDE DEF Frames, Patterns, Commands
  <1> USE DEF backendVars, setupVars, effectVars
  <1>1. /\ stack # <<>> /\ stack \in Seq(Frames)
        /\ UNCHANGED <<sent, version, requests, read, sync, posted, phase>>
    BY DEF Inv, TypeOK, Parse, OnTop
  <1>2. CASE ~Complete
    <2>1. Tail(stack) \in Seq(Frames)
      BY <1>1, HeadTailProperties
    <2>2. /\ stack' = Tail(stack)
          /\ UNCHANGED <<parsed, pending, result, state, engine, root, handled, data, call>>
      BY <1>2 DEF Parse
    <2> QED
      BY <1>1, <2>1, <2>2 DEF Inv, TypeOK
  <1>3. CASE Complete
    <2>1. parsed + 1 \in 1..Len(sent) /\ parsed \in Nat
      BY <1>3, ParsedWasSent DEF Inv, TypeOK
    <2>2. parsed' = parsed + 1 /\ HandleMessage(parsed + 1, stack)
      BY <1>3 DEF Parse
    <2>3. /\ state' \in {"WantVersion", "WantTypes", "WantEngine", "Ready"}
          /\ engine' \in BOOLEAN /\ root' \in BOOLEAN
          /\ pending' \in Seq(Nat) /\ result' \in Nat /\ stack' \in Seq(Frames)
          /\ handled' \subseteq Nat /\ data' \in [Obj -> Nat]
          /\ call' \in [Calls -> {"none", "pending", "settled", "dropped"}]
      BY <1>1, <2>1, <2>2, HandleTyped DEF Inv
    <2>4. Pieces * parsed' <= read'
      BY <1>1, <1>3, <2>2 DEF Complete
    <2> QED
      BY <1>1, <2>1, <2>2, <2>3, <2>4 DEF Inv, TypeOK
  <1> QED
    BY <1>2, <1>3

\* What a flush has left was parsed.
LEMMA RestWasParsed ==
  ASSUME Inv, OnTop("flush"), Head(stack).rest # <<>>
  PROVE  /\ Head(stack).rest \in Seq(Nat)
         /\ Head(Head(stack).rest) \in 1..Len(sent)
  <1> HIDE DEF Frames, NoWait, Complete
  <1> USE NoFrames
  <1>1. PICK outer, inner \in Seq(Nat) :
          Listed(outer, pending, inner, parsed, handled) /\ Shape(outer, inner)
    BY DEF Inv, Queued
  <1>2. stack # <<>> /\ Head(stack).kind = "flush" /\ stack \in Seq(Frames)
    BY DEF Inv, TypeOK, OnTop
  <1>3. ShapeByTop(outer, inner)
    BY <1>1, <1>2, TopOfShape
  <1> DEFINE rest == Head(stack).rest
  <1>4. rest = outer \/ rest = inner
    BY <1>2, <1>3 DEF ShapeByTop
  <1>5. parsed \in Nat /\ handled \in SUBSET (1..parsed) /\ rest # <<>>
    BY DEF Inv, TypeOK
  <1> HIDE DEF rest
  <1>6. Head(rest) \in 1..parsed
    <2>1. CASE rest = outer
      BY <1>1, <1>5, <2>1, ListedTakeOuter
    <2>2. CASE rest = inner
      BY <1>1, <1>5, <2>2, ListedTakeInner
    <2> QED
      BY <1>4, <2>1, <2>2
  <1>7. parsed \in 0..Len(sent) /\ Len(sent) \in Nat
    BY ParsedWasSent, LenProperties DEF Inv, TypeOK
  <1>8. Head(rest) \in 1..Len(sent) /\ rest \in Seq(Nat)
    BY <1>1, <1>4, <1>5, <1>6, <1>7
  <1> QED
    BY <1>8 DEF rest

LEMMA FlushTyped ==
  ASSUME Inv, FlushNext
  PROVE  TypeOK'
  <1> HIDE DEF Frames, Patterns, Commands
  <1> USE DEF backendVars, socketVars, setupVars, effectVars
  <1>1. /\ stack # <<>> /\ stack \in Seq(Frames) /\ OnTop("flush")
        /\ UNCHANGED <<sent, version, requests, read, parsed, sync, posted, phase>>
    BY DEF Inv, TypeOK, FlushNext, OnTop
  <1>2. Tail(stack) \in Seq(Frames)
    BY <1>1, HeadTailProperties
  <1>3. CASE Head(stack).rest = <<>>
    <2>1. /\ stack' = Tail(stack)
          /\ UNCHANGED <<pending, result, state, engine, root, handled, data, call>>
      BY <1>3 DEF FlushNext
    <2> QED
      BY <1>1, <1>2, <2>1 DEF Inv, TypeOK
  <1>4. CASE Head(stack).rest # <<>>
    <2>1. Head(stack).rest \in Seq(Nat) /\ Head(Head(stack).rest) \in 1..Len(sent)
      BY <1>1, <1>4, RestWasParsed
    <2>2. Tail(Head(stack).rest) \in Seq(Nat)
      BY <1>4, <2>1, HeadTailProperties
    <2>3. PICK m \in 1..Len(sent), later \in Seq(Nat), under \in Seq(Frames) :
            /\ m = Head(Head(stack).rest) /\ later = Tail(Head(stack).rest)
            /\ under = Tail(stack)
      BY <1>2, <2>1, <2>2
    <2>4. FlushFrame(later) \in Frames
      BY FramesTyped
    <2>5. On(FlushFrame(later), under) \in Seq(Frames)
      BY <2>4, OnTopOf
    <2>6. HandleMessage(m, On(FlushFrame(later), under))
      BY <1>4, <2>3 DEF FlushNext, On
    <2>7. /\ state' \in {"WantVersion", "WantTypes", "WantEngine", "Ready"}
          /\ engine' \in BOOLEAN /\ root' \in BOOLEAN
          /\ pending' \in Seq(Nat) /\ result' \in Nat /\ stack' \in Seq(Frames)
          /\ handled' \subseteq Nat /\ data' \in [Obj -> Nat]
          /\ call' \in [Calls -> {"none", "pending", "settled", "dropped"}]
      BY <2>5, <2>6, HandleTyped DEF Inv
    <2> QED
      BY <1>1, <2>7 DEF Inv, TypeOK
  <1> QED
    BY <1>3, <1>4

LEMMA HandleStep ==
  ASSUME Inv, Handle
  PROVE  Inv' /\ HandlesInTurn
  <1>1. TypeOK'
    BY ParseTyped, FlushTyped DEF Handle
  <1>2. Queued' /\ Handshake' /\ handled' \subseteq 1..parsed' /\ HandlesInTurn
    BY ParseInTurn, FlushInTurn DEF Handle
  <1>3. UNCHANGED <<sent, sync, phase>> /\ stack # <<>>
    BY DEF Handle, Parse, FlushNext, OnTop, backendVars
  <1>4. Greeted' /\ Unconnected'
    BY <1>3 DEF Inv, Greeted, Unconnected
  <1>5. Waiting'
    BY <1>2, <1>3 DEF Inv, Waiting, HandlesInTurn
  <1> QED
    BY <1>1, <1>2, <1>4, <1>5 DEF Inv

LEMMA WaitStep ==
  ASSUME Inv, WaitForBytes \/ EndWait
  PROVE  Inv'
  <1> HIDE DEF Frames, Patterns, Commands, NoWait
  <1> USE DEF backendVars, socketVars, syncVars, setupVars, effectVars
  <1>1. stack # <<>> /\ stack \in Seq(Frames)
    BY DEF Inv, TypeOK, WaitForBytes, EndWait, OnTop
  <1>2. UNCHANGED <<sent, parsed, handled, state, engine, root, phase>>
    BY DEF WaitForBytes, EndWait, ReadSocket
  <1>3. Greeted' /\ handled' \subseteq 1..parsed' /\ Handshake' /\ Unconnected'
    BY <1>1, <1>2, NothingHandled, SameHandshake DEF Inv, Unconnected
  <1>4. CASE WaitForBytes
    <2>1. Queued' /\ Waiting'
      BY <1>4, WaitForBytesInTurn, SameWaiting DEF WaitForBytes
    <2>2. /\ read' \in Nat /\ parsed' = parsed
          /\ Pieces * parsed' <= read' /\ read' <= Pieces * Len(sent')
          /\ stack' \in Seq(Frames)
      BY <1>1, <1>4, ReadTyped DEF Inv, WaitForBytes
    <2>3. TypeOK'
      BY <1>4, <2>2 DEF Inv, TypeOK, WaitForBytes
    <2> QED
      BY <1>3, <2>1, <2>3 DEF Inv
  <1>5. CASE EndWait
    <2>1. Queued' /\ sync' = NoWait /\ result' = 0
      BY <1>5, EndWaitInTurn
    <2>2. Waiting'
      BY <2>1 DEF Waiting, NoWait, Pattern
    <2>3. stack' \in Seq(Frames) /\ posted' \in BOOLEAN
      BY <1>1, <1>5, HeadTailProperties DEF EndWait, Inv, TypeOK
    <2>4. TypeOK'
      BY <1>5, <2>1, <2>3, FramesTyped DEF Inv, TypeOK, EndWait
    <2> QED
      BY <1>3, <2>1, <2>2, <2>4 DEF Inv
  <1> QED
    BY <1>4, <1>5

LEMMA LoopStep ==
  ASSUME Inv, HandlePosted \/ DataReady \/ RunJS \/ EndJS
  PROVE  Inv'
  <1> HIDE DEF Frames, Patterns, Commands, NoWait
  <1> USE DEF backendVars, socketVars, syncVars, setupVars, effectVars
  <1>1. /\ UNCHANGED <<sent, version, requests, parsed, sync, result, phase>>
        /\ UNCHANGED <<state, engine, root, handled, data, call>>
    BY DEF HandlePosted, DataReady, RunJS, EndJS, ReadSocket
  <1>2. Greeted' /\ handled' \subseteq 1..parsed' /\ Handshake' /\ Waiting'
    BY <1>1, NothingHandled, SameHandshake, SameWaiting
  <1>3. Unconnected'
    BY <1>1 DEF HandlePosted, DataReady, RunJS, EndJS, EventLoop, OnTop, Inv, Unconnected
  <1>4. CASE HandlePosted
    <2>1. stack = <<>> /\ pending' = <<>> /\ UNCHANGED read /\ posted' = FALSE
      BY <1>4 DEF HandlePosted, EventLoop, Flush
    <2>2. stack' = On(FlushFrame(pending), <<>>)
      BY <1>4 DEF HandlePosted, Flush, On
    <2>3. Queued'
      BY <1>1, <2>1, <2>2, FlushAtRest
    <2>4. stack' \in Seq(Frames)
      BY <2>2, NoFrames, FramesTyped, OnTopOf DEF Inv, TypeOK
    <2>5. TypeOK'
      BY <1>1, <2>1, <2>4, NoFrames DEF Inv, TypeOK
    <2> QED
      BY <1>2, <1>3, <2>3, <2>5 DEF Inv
  <1>5. CASE DataReady
    <2>1. stack = <<>> /\ ~posted /\ ReadSocket(<<>>) /\ UNCHANGED <<pending, posted>>
      BY <1>5 DEF DataReady, EventLoop
    <2>2. Queued'
      BY <1>1, <2>1, ReadAtRest
    <2>3. /\ read' \in Nat /\ Pieces * parsed' <= read' /\ read' <= Pieces * Len(sent')
          /\ stack' \in Seq(Frames)
      BY <1>1, <2>1, NoFrames, ReadTyped DEF Inv
    <2>4. TypeOK'
      BY <1>1, <2>1, <2>3 DEF Inv, TypeOK
    <2> QED
      BY <1>2, <1>3, <2>2, <2>4 DEF Inv
  <1>6. CASE RunJS \/ EndJS
    <2>1. Queued' /\ UNCHANGED <<read, pending, posted>>
      BY <1>6, RunJSInTurn DEF RunJS, EndJS
    <2>2. stack' \in Seq(Frames)
      <3>1. CASE RunJS
        <4>1. stack' = On(JSFrame, <<>>)
          BY <3>1, FramesTyped, Alone DEF RunJS
        <4> QED
          BY <4>1, NoFrames, FramesTyped, OnTopOf
      <3>2. CASE EndJS
        BY <3>2, HeadTailProperties DEF EndJS, OnTop, Inv, TypeOK
      <3> QED
        BY <1>6, <3>1, <3>2
    <2>3. TypeOK'
      BY <1>1, <2>1, <2>2 DEF Inv, TypeOK
    <2> QED
      BY <1>2, <1>3, <2>1, <2>3 DEF Inv
  <1> QED
    BY <1>4, <1>5, <1>6

\* A wait begins, from JavaScript or from the set up.
LEMMA BeginWaitStep ==
  ASSUME Inv, NEW pattern, BeginWait(pattern),
         pattern \in [cmd : {"VERSION", "CREATABLE_TYPES", "ROOT", "OBJECT_RESET"},
                      about : About],
         stack = <<>> \/ OnTop("js"), phase # "connect",
         UNCHANGED <<sent, version, socketVars, posted, phase, effectVars>>,
         requests' \subseteq Obj \cup Calls
  PROVE  Inv' /\ sync = NoWait /\ sync' = pattern /\ pattern # NoWait /\ result' = 0
  <1> HIDE DEF Frames
  <1> USE DEF socketVars, setupVars, effectVars
  <1>1. pattern \in Patterns
    BY DEF Patterns, Commands
  <1>2. Queued' /\ Waiting' /\ sync = NoWait /\ pattern # NoWait
    BY BeginWaitInTurn
  <1>3. sync' = pattern /\ result' = 0
    BY DEF BeginWait
  <1> HIDE DEF NoWait, Patterns, About, Commands
  <1>4. /\ sync' \in Patterns /\ result' \in Nat
        /\ pending' \in Seq(Nat) /\ stack' \in Seq(Frames)
    BY <1>1, BeginWaitTyped DEF Inv
  <1>5. TypeOK'
    BY <1>4 DEF Inv, TypeOK
  <1>6. Greeted' /\ handled' \subseteq 1..parsed' /\ Handshake' /\ Unconnected'
    BY NothingHandled, SameHandshake DEF Unconnected
  <1> QED
    BY <1>2, <1>3, <1>5, <1>6 DEF Inv

\* A step that starts no wait leaves sync and result alone.
StartsWait == /\ sync = NoWait /\ sync' # NoWait /\ result' = 0
              /\ UNCHANGED <<sent, handled>>
NoWaitStarts == UNCHANGED <<sent, handled, sync, result>>

LEMMA JavaScriptStep ==
  ASSUME Inv, JavaScript
  PROVE  Inv' /\ (StartsWait \/ NoWaitStarts)
  <1> HIDE DEF Frames, Patterns, Commands, NoWait
  <1> USE DEF backendVars, socketVars, syncVars, setupVars, effectVars
  <1>0. OnTop("js") => phase # "connect"
    BY DEF OnTop, Inv, Unconnected
  <1>1. CASE RunJS \/ EndJS
    BY <1>1, LoopStep DEF RunJS, EndJS, NoWaitStarts
  <1>2. CASE ReadRoot
    <2> DEFINE pattern == Pattern("ROOT", Nothing)
    <2>1. pattern \in [cmd : {"VERSION", "CREATABLE_TYPES", "ROOT", "OBJECT_RESET"}, about : About]
      BY DEF Pattern, About
    <2>2. /\ BeginWait(pattern) /\ OnTop("js")
          /\ UNCHANGED <<sent, version, requests, socketVars, posted, phase, effectVars>>
      BY <1>2 DEF ReadRoot
    <2>3. requests' \subseteq Obj \cup Calls
      BY <2>2 DEF Inv, TypeOK
    <2> HIDE DEF pattern
    <2>4. Inv' /\ sync = NoWait /\ sync' = pattern /\ pattern # NoWait /\ result' = 0
      BY <1>0, <2>1, <2>2, <2>3, BeginWaitStep
    <2> QED
      BY <2>2, <2>4 DEF StartsWait
  <1>3. ASSUME NEW o \in Obj, ReadProperty(o)
        PROVE  Inv' /\ StartsWait
    <2> DEFINE pattern == Pattern("OBJECT_RESET", o)
    <2>1. pattern \in [cmd : {"VERSION", "CREATABLE_TYPES", "ROOT", "OBJECT_RESET"}, about : About]
      BY DEF Pattern, About
    <2>2. /\ BeginWait(pattern) /\ OnTop("js") /\ requests' = requests \cup {o}
          /\ UNCHANGED <<sent, version, socketVars, posted, phase, effectVars>>
      BY <1>3 DEF ReadProperty
    <2>3. requests' \subseteq Obj \cup Calls
      BY <2>2 DEF Inv, TypeOK
    <2> HIDE DEF pattern
    <2>4. Inv' /\ sync = NoWait /\ sync' = pattern /\ pattern # NoWait /\ result' = 0
      BY <1>0, <2>1, <2>2, <2>3, BeginWaitStep
    <2> QED
      BY <2>2, <2>4 DEF StartsWait
  <1>4. ASSUME NEW c \in Calls, Invoke(c) \/ DeleteProxy(c)
        PROVE  Inv' /\ NoWaitStarts
    <2>1. /\ UNCHANGED <<sent, version, read, parsed, pending, sync, result, posted, stack, phase>>
          /\ UNCHANGED <<state, engine, root, handled, data>>
      BY <1>4 DEF Invoke, DeleteProxy
    <2>2. Queued'
      BY <2>1, QueueUnchanged DEF Inv
    <2>3. Greeted' /\ handled' \subseteq 1..parsed' /\ Handshake' /\ Waiting' /\ Unconnected'
      BY <2>1, NothingHandled, SameHandshake, SameWaiting DEF Inv, Unconnected
    <2>4. /\ requests' \subseteq Obj \cup Calls
          /\ call' \in [Calls -> {"none", "pending", "settled", "dropped"}]
      BY <1>4 DEF Invoke, DeleteProxy, Inv, TypeOK
    <2>5. TypeOK'
      BY <2>1, <2>4 DEF Inv, TypeOK
    <2> QED
      BY <2>1, <2>2, <2>3, <2>5 DEF Inv, NoWaitStarts
  <1> QED
    BY <1>1, <1>2, <1>3, <1>4 DEF JavaScript

-----------------------------------------------------------------------------
(* The set up.                                                              *)

LEMMA PhaseStep ==
  ASSUME Inv, UNCHANGED <<backendVars, socketVars, pending, syncVars, posted, stack, effectVars>>,
         phase' \in {"version", "types", "registered", "root", "running"},
         Handshake'
  PROVE  Inv' /\ NoWaitStarts
  <1> HIDE DEF Frames, Patterns, Commands, NoWait
  <1> USE DEF backendVars, socketVars, syncVars, setupVars, effectVars
  <1>1. Queued'
    BY QueueUnchanged DEF Inv
  <1>2. Greeted' /\ handled' \subseteq 1..parsed' /\ Waiting' /\ Unconnected'
    BY NothingHandled, SameWaiting DEF Unconnected
  <1>3. TypeOK'
    BY DEF Inv, TypeOK
  <1> QED
    BY <1>1, <1>2, <1>3 DEF Inv, NoWaitStarts

LEMMA SetBackendIoStep ==
  ASSUME Inv, SetBackendIo
  PROVE  Inv' /\ NoWaitStarts
  <1> HIDE DEF Frames, Patterns, Commands, NoWait
  <1> USE DEF backendVars, socketVars, syncVars, setupVars, effectVars
  <1>1. /\ phase = "connect" /\ phase' = "version" /\ stack = <<>> /\ state # "Ready"
        /\ UNCHANGED <<sent, version, requests, pending, sync, result, posted>>
        /\ UNCHANGED <<state, engine, root, handled, data, call>>
    BY DEF SetBackendIo, Inv, Unconnected, Handshake
  <1>2. Handshake'
    BY <1>1 DEF Inv, Handshake, SetupInOrder
  <1>3. CASE UNCHANGED <<socketVars, stack>>
    BY <1>1, <1>2, <1>3, PhaseStep
  <1>4. CASE ReadSocket(<<>>)
    <2>1. Queued'
      BY <1>1, <1>4, ReadAtRest
    <2>2. /\ read' \in Nat /\ parsed' = parsed
          /\ Pieces * parsed' <= read' /\ read' <= Pieces * Len(sent')
          /\ stack' \in Seq(Frames)
      BY <1>1, <1>4, NoFrames, ReadTyped DEF Inv
    <2>3. Greeted' /\ handled' \subseteq 1..parsed' /\ Waiting' /\ Unconnected'
      BY <1>1, <2>2, NothingHandled, SameWaiting DEF Unconnected
    <2>4. TypeOK'
      BY <1>1, <2>2 DEF Inv, TypeOK
    <2> QED
      BY <1>1, <1>2, <2>1, <2>3, <2>4 DEF Inv, NoWaitStarts
  <1> QED
    BY <1>3, <1>4 DEF SetBackendIo

LEMMA EnsureStep ==
  ASSUME Inv, EnsureVersion \/ EnsureTypes \/ EnsureRoot
  PROVE  Inv' /\ (StartsWait \/ NoWaitStarts)
  <1> HIDE DEF Frames, Patterns, Commands, NoWait
  <1>1. /\ stack = <<>> /\ phase \in {"version", "types", "root"}
        /\ UNCHANGED <<backendVars, socketVars, posted, effectVars>>
    BY DEF EnsureVersion, EnsureTypes, EnsureRoot
  <1>2. requests' \subseteq Obj \cup Calls
    BY <1>1 DEF backendVars, Inv, TypeOK
  <1>3. ASSUME NEW cmd \in {"VERSION", "CREATABLE_TYPES", "ROOT"},
               BeginWait(Pattern(cmd, Nothing)), UNCHANGED phase
        PROVE  Inv' /\ StartsWait
    <2> DEFINE pattern == Pattern(cmd, Nothing)
    <2>1. pattern \in [cmd : {"VERSION", "CREATABLE_TYPES", "ROOT", "OBJECT_RESET"}, about : About]
      BY DEF Pattern, About
    <2>2. UNCHANGED <<sent, version, handled>>
      BY <1>1 DEF backendVars, effectVars
    <2>3. phase # "connect" /\ BeginWait(pattern)
      BY <1>1, <1>3
    <2> HIDE DEF pattern
    <2>4. Inv' /\ sync = NoWait /\ sync' = pattern /\ pattern # NoWait /\ result' = 0
      BY <1>1, <1>2, <1>3, <2>1, <2>2, <2>3, BeginWaitStep
    <2> QED
      BY <2>2, <2>4 DEF StartsWait
  <1>4. ASSUME UNCHANGED <<pending, syncVars, stack>>,
               phase' \in {"version", "types", "registered", "root", "running"}, Handshake'
        PROVE  Inv' /\ NoWaitStarts
    BY <1>1, <1>4, PhaseStep
  <1>5. UNCHANGED <<state, engine, root, handled>>
    BY <1>1 DEF effectVars, setupVars
  <1>6. CASE EnsureVersion
    <2>1. CASE state = "WantVersion"
      BY <1>3, <1>6, <2>1 DEF EnsureVersion
    <2>2. CASE state # "WantVersion"
      <3>1. phase = "version" /\ phase' \in {"types", "root"} /\ UNCHANGED <<pending, syncVars, stack>>
        BY <1>6, <2>2 DEF EnsureVersion
      <3>2. Handshake'
        BY <1>5, <2>2, <3>1 DEF Inv, Handshake, SetupInOrder
      <3> QED
        BY <1>4, <3>1, <3>2
    <2> QED
      BY <2>1, <2>2
  <1>7. CASE EnsureTypes
    <2>1. CASE state = "WantTypes"
      BY <1>3, <1>7, <2>1 DEF EnsureTypes
    <2>2. CASE state # "WantTypes"
      <3>1. phase = "types" /\ phase' = "registered" /\ UNCHANGED <<pending, syncVars, stack>>
        BY <1>7, <2>2 DEF EnsureTypes
      <3>2. state = "WantEngine"
        BY <2>2, <3>1 DEF Inv, TypeOK, Handshake, SetupInOrder
      <3>3. Handshake'
        BY <1>5, <3>1, <3>2 DEF Inv, Handshake, SetupInOrder
      <3> QED
        BY <1>4, <3>1, <3>3
    <2> QED
      BY <2>1, <2>2
  <1>8. CASE EnsureRoot
    <2>1. CASE ~root
      BY <1>3, <1>8, <2>1 DEF EnsureRoot
    <2>2. CASE root
      <3>1. phase = "root" /\ phase' = "running" /\ UNCHANGED <<pending, syncVars, stack>>
        BY <1>8, <2>2 DEF EnsureRoot
      <3>2. Handshake'
        BY <1>5, <2>2, <3>1 DEF Inv, Handshake, SetupInOrder
      <3> QED
        BY <1>4, <3>1, <3>2
    <2> QED
      BY <2>1, <2>2
  <1> QED
    BY <1>6, <1>7, <1>8

LEMMA SetQmlEngineStep ==
  ASSUME Inv, SetQmlEngine
  PROVE  Inv' /\ NoWaitStarts
  <1> HIDE DEF Frames, Patterns, Commands, NoWait
  <1> USE DEF backendVars, socketVars, syncVars, setupVars, effectVars
  <1>1. /\ stack = <<>> /\ ~engine /\ phase \in {"registered", "running"}
        /\ engine' = TRUE
        /\ UNCHANGED <<sent, version, requests, read, parsed, sync, result, posted>>
        /\ UNCHANGED <<root, handled, data, call>>
    BY DEF SetQmlEngine, EventLoop
  <1>2. state = "WantEngine"
    BY <1>1 DEF Inv, Handshake, SetupInOrder
  <1>3. /\ state' = "Ready" /\ pending' = <<>>
        /\ \/ phase' = "root" /\ stack' = On(FlushFrame(pending), <<>>)
           \/ /\ phase' = "running" /\ Instances # {}
              /\ stack' = On(FlushFrame(pending), On(JSFrame, <<>>))
    <2>1. On(JSFrame, <<>>) = <<JSFrame>>
      BY FramesTyped, Alone
    <2> QED
      BY <2>1 DEF SetQmlEngine, SetState, Flush, On
  <1>4. Queued'
    BY <1>1, <1>3, FlushAtRest
  <1>5. Handshake'
    BY <1>1, <1>2, <1>3 DEF Inv, Handshake, SetupInOrder
  <1>6. Greeted' /\ handled' \subseteq 1..parsed' /\ Waiting' /\ Unconnected'
    BY <1>1, <1>3, NothingHandled, SameWaiting DEF Unconnected
  <1>7. stack' \in Seq(Frames) /\ <<>> \in Seq(Nat)
    <2>1. pending \in Seq(Nat)
      BY DEF Inv, TypeOK
    <2>2. FlushFrame(pending) \in Frames /\ JSFrame \in Frames
      BY <2>1, FramesTyped
    <2>3. On(JSFrame, <<>>) \in Seq(Frames)
      BY <2>2, NoFrames, OnTopOf
    <2>4. /\ On(FlushFrame(pending), <<>>) \in Seq(Frames)
          /\ On(FlushFrame(pending), On(JSFrame, <<>>)) \in Seq(Frames)
      BY <2>2, <2>3, NoFrames, OnTopOf
    <2> QED
      BY <1>3, <2>4, NoFrames
  <1>8. TypeOK'
    BY <1>1, <1>3, <1>7 DEF Inv, TypeOK
  <1> QED
    BY <1>1, <1>4, <1>5, <1>6, <1>8 DEF Inv, NoWaitStarts

LEMMA SetupStep ==
  ASSUME Inv, Setup \/ SetQmlEngine
  PROVE  Inv' /\ (StartsWait \/ NoWaitStarts)
  BY SetBackendIoStep, EnsureStep, SetQmlEngineStep DEF Setup

-----------------------------------------------------------------------------
(* The theorems.                                                            *)

LEMMA InitInv ==
  ASSUME Init
  PROVE  Inv
  <1> USE NoFrames
  <1>1. sent = <<>> /\ Len(sent) = 0
    BY EmptySeq DEF Init
  <1>2. NoWait \in Patterns /\ NoWait.cmd = "none"
    BY FramesTyped DEF NoWait, Pattern
  <1>3. TypeOK
    <2>1. /\ sent \in Seq([cmd : Commands, about : About, ver : Nat])
          /\ Pieces * 0 = 0 /\ Pieces * Len(sent) = 0
      BY <1>1, EmptySeq, DispatchAssumption
    <2> HIDE DEF Patterns, Frames, Commands, About, NoWait
    <2>2. Pieces * parsed <= read /\ read <= Pieces * Len(sent)
      BY <2>1 DEF Init
    <2>3. /\ version \in [Obj -> Nat] /\ data \in [Obj -> Nat]
          /\ call \in [Calls -> {"none", "pending", "settled", "dropped"}]
      BY DEF Init
    <2> QED
      BY <1>2, <2>1, <2>2, <2>3 DEF Init, TypeOK
  <1>4. handled \subseteq 1..parsed /\ Unconnected /\ Waiting
    BY <1>2 DEF Init, Unconnected, Waiting
  <1>5. Greeted
    BY <1>1 DEF Greeted
  <1>6. Handshake
    BY DEF Init, Handshake, SetupInOrder
  <1>7. Queued
    <2>1. Listed(<<>>, <<>>, <<>>, 0, {})
      BY EmptyIsSorted DEF Listed, Older
    <2>2. SettingUp(<<>>)
      BY DEF Init, SettingUp, Bottom
    <2>3. Shape(<<>>, <<>>)
      BY <2>2 DEF Init, Shape
    <2> QED
      BY <2>1, <2>3 DEF Init, Queued
  <1> QED
    BY <1>3, <1>4, <1>5, <1>6, <1>7 DEF Inv

LEMMA NextInv ==
  ASSUME Inv, [Next]_vars
  PROVE  Inv'
  <1>1. CASE Next
    BY <1>1, BackendStep, HandleStep, WaitStep, LoopStep, JavaScriptStep, SetupStep DEF Next
  <1>2. CASE UNCHANGED vars
    <2>1. /\ UNCHANGED <<sent, read, parsed, state, engine, root, pending, sync, result>>
          /\ UNCHANGED <<posted, stack, phase, handled>>
      BY <1>2 DEF vars, backendVars, socketVars, syncVars, effectVars, setupVars
    <2>2. Queued'
      BY <2>1, QueueUnchanged DEF Inv
    <2>3. Greeted' /\ handled' \subseteq 1..parsed' /\ Handshake' /\ Waiting' /\ Unconnected'
      BY <2>1, NothingHandled, SameHandshake, SameWaiting DEF Inv, Unconnected
    <2>4. TypeOK'
      <3> HIDE DEF Frames, Patterns, Commands, About
      <3> QED
        BY <1>2 DEF Inv, TypeOK, vars, backendVars, socketVars, syncVars, effectVars, setupVars
    <2> QED
      BY <2>2, <2>3, <2>4 DEF Inv
  <1> QED
    BY <1>1, <1>2

LEMMA Invariance == Spec => []Inv
  <1>1. Init => Inv
    BY InitInv
  <1>2. Inv /\ [Next]_vars => Inv'
    BY NextInv
  <1> QED
    BY <1>1, <1>2, PTL DEF Spec

\* The variables of the connection have their types; the buffer never holds more
\* than was sent, nor less than was parsed (handleDataReady,
\* qbackendconnection.cpp:288).
THEOREM DispatchTyped == Spec => []TypeOK
  <1>1. Inv => TypeOK
    BY DEF Inv
  <1> QED
    BY <1>1, Invariance, PTL

\* The assertions of the handshake hold: types are registered once they are known,
\* the engine comes after them and root after the engine
\* (qbackendconnection.cpp:247, 402, 411, 462).
THEOREM HandshakeInOrder == Spec => []SetupInOrder
  <1>1. Inv => SetupInOrder
    BY DEF Inv, Handshake
  <1> QED
    BY <1>1, Invariance, PTL

LEMMA InitImplements ==
  ASSUME Init
  PROVE  D!Init
  BY DEF Init, D!Init, NoWait

\* Handling is what Delivery says of it.
LEMMA HandleImplements ==
  ASSUME Inv, HandlesInTurn, UNCHANGED <<sent, sync>>
  PROVE  [D!Next]_(D!vars)
  <1> HIDE DEF NoWait, Matches
  <1> DEFINE waiting == IF sync = NoWait THEN "no" ELSE IF result = 0 THEN "yes" ELSE "over"
  <1>1. CASE handled' = handled /\ result' = result
    BY <1>1 DEF D!vars
  <1>2. ASSUME NEW m \in 1..Len(sent) \ handled, handled' = handled \cup {m},
               sync = NoWait, 1..(m - 1) \subseteq handled, result' = result
        PROVE  D!HandleOldest
    BY <1>2 DEF D!HandleOldest
  <1>3. ASSUME NEW m \in 1..Len(sent) \ handled, handled' = handled \cup {m},
               sync # NoWait, result = 0, result' = m, Matches(sent[m], sync)
        PROVE  D!HandleWanted
    <2>1. result' # 0
      <3>1. m \in 1..Len(sent) /\ Len(sent) \in Nat
        BY LenProperties DEF Inv, TypeOK
      <3> QED
        BY <1>3, <3>1
    <2> QED
      BY <1>3, <2>1 DEF D!HandleWanted
  <1> QED
    BY <1>1, <1>2, <1>3 DEF HandlesInTurn, D!Next

LEMMA NextImplements ==
  ASSUME Inv, [Next]_vars
  PROVE  [D!Next]_(D!vars)
  <1> HIDE DEF NoWait, Matches, Frames, Patterns, Commands
  <1>1. CASE Backend
    <2>1. UNCHANGED <<handled, sync, result>>
      BY <1>1 DEF Backend, syncVars, effectVars
    <2>2. /\ Len(sent') = Len(sent) + 1
          /\ SubSeq(sent', 1, Len(sent)) = sent
      <3>1. PICK msg \in Messages : sent' = Append(sent, msg)
        BY <1>1, BackendWrites DEF Inv, Write
      <3>2. sent \in Seq(Messages)
        BY DEF Inv, TypeOK, Messages
      <3> QED
        BY <3>1, <3>2, AppendProperties
    <2> QED
      BY <2>1, <2>2 DEF D!Next, D!Send
  <1>2. CASE Handle
    <2>1. UNCHANGED <<sent, sync>>
      BY <1>2 DEF Handle, Parse, FlushNext, backendVars
    <2> QED
      BY <1>2, <2>1, HandleStep, HandleImplements
  <1>3. CASE EndWait
    <2>1. sync # NoWait /\ result # 0 /\ sync' = NoWait /\ UNCHANGED <<sent, handled>>
      BY <1>3, EndWaitInTurn DEF EndWait, backendVars, effectVars
    <2> QED
      BY <2>1 DEF D!Next, D!EndWait
  <1>4. CASE WaitForBytes \/ HandlePosted \/ DataReady
    <2>1. UNCHANGED <<sent, handled, sync, result>>
      BY <1>4 DEF WaitForBytes, HandlePosted, DataReady, backendVars, syncVars, effectVars
    <2> QED
      BY <2>1 DEF D!vars
  <1>5. CASE JavaScript \/ Setup \/ SetQmlEngine
    <2>1. StartsWait \/ NoWaitStarts
      BY <1>5, JavaScriptStep, SetupStep
    <2>2. StartsWait => D!StartWait
      BY DEF StartsWait, D!StartWait
    <2>3. NoWaitStarts => UNCHANGED D!vars
      BY DEF NoWaitStarts, D!vars
    <2> QED
      BY <2>1, <2>2, <2>3 DEF D!Next
  <1>6. CASE UNCHANGED vars
    BY <1>6 DEF vars, backendVars, syncVars, effectVars, D!vars
  <1> QED
    BY <1>1, <1>2, <1>3, <1>4, <1>5, <1>6 DEF Next

\* Every message is handled once and in turn, except the one that is waited for,
\* whatever the pieces messages come in and wherever waits begin
\* (handleDataReady, handlePendingMessages and waitForMessage,
\* qbackendconnection.cpp:288, 515, 529).
THEOREM Implements == Spec => DeliversInTurn
  <1>1. Init => D!Init
    BY InitImplements
  <1>2. Inv /\ [Next]_vars => [D!Next]_(D!vars)
    BY NextImplements
  <1> QED
    BY <1>1, <1>2, Invariance, PTL DEF Spec, DeliversInTurn, D!Spec

-----------------------------------------------------------------------------
(* No message is lost or doubled: what the stack holds.                     *)

Held(s, x) == \E f \in 1..Len(s) : \E i \in 1..Len(s[f].rest) : x = s[f].rest[i]
Once(s) ==
  \A f, g \in 1..Len(s) :
    \A i \in 1..Len(s[f].rest), j \in 1..Len(s[g].rest) :
      s[f].rest[i] = s[g].rest[j] => f = g /\ i = j

\* The copies on the stack hold each message of a set once, and no other.
Keeps(s, V) ==
  /\ s \in Seq(Frames) /\ Once(s)
  /\ \A x \in Nat : Held(s, x) <=> x \in V

LEMMA SortedOnce ==
  ASSUME NEW s \in Seq(Nat), Sorted(s),
         NEW i \in 1..Len(s), NEW j \in 1..Len(s), s[i] = s[j]
  PROVE  i = j
  <1>1. s[i] \in Nat /\ s[j] \in Nat /\ Len(s) \in Nat
    BY LenProperties
  <1>2. ~(i < j) /\ ~(j < i)
    BY <1>1 DEF Sorted
  <1> QED
    BY <1>1, <1>2

LEMMA OnFrames ==
  ASSUME NEW f \in Frames, NEW s \in Seq(Frames)
  PROVE  /\ Len(On(f, s)) = Len(s) + 1 /\ Len(s) \in Nat
         /\ On(f, s)[1] = f
         /\ \A k \in 1..Len(s) : On(f, s)[k + 1] = s[k]
  <1> DEFINE t == On(f, s)
  <1>1. t \in Seq(Frames) /\ t # <<>> /\ Head(t) = f /\ Tail(t) = s
    BY OnTopOf
  <1> HIDE DEF t
  <1>2. /\ Len(s) = Len(t) - 1 /\ \A k \in 1..Len(s) : s[k] = t[k + 1]
    BY <1>1, HeadTailProperties
  <1>3. Len(t) \in Nat /\ Len(s) \in Nat /\ Head(t) = t[1]
    BY <1>1, LenProperties
  <1> QED
    BY <1>1, <1>2, <1>3 DEF t

LEMMA KeepsNone == Keeps(<<>>, {})
  <1>1. <<>> \in Seq(Frames) /\ Len(<<>>) = 0
    BY NoFrames, EmptySeq
  <1> QED
    BY <1>1 DEF Keeps, Once, Held

LEMMA KeepsOn ==
  ASSUME NEW f \in Frames, NEW rest \in Seq(Nat), f.rest = rest, Sorted(rest),
         NEW s, NEW V, Keeps(s, V), Range(rest) \cap V = {}
  PROVE  Keeps(On(f, s), Range(rest) \cup V)
  <1> HIDE DEF Frames
  <1> DEFINE t == On(f, s)
  <1>1. /\ s \in Seq(Frames) /\ Once(s)
        /\ \A x \in Nat : Held(s, x) <=> x \in V
    BY DEF Keeps
  <1>2. /\ t \in Seq(Frames) /\ Len(t) = Len(s) + 1 /\ Len(s) \in Nat
        /\ t[1] = f /\ \A k \in 1..Len(s) : t[k + 1] = s[k]
    BY <1>1, OnTopOf, OnFrames
  <1>3. Range(rest) = {rest[i] : i \in 1..Len(rest)} /\ Len(rest) \in Nat
        /\ \A i \in 1..Len(rest) : rest[i] \in Nat
    BY RangeEquality, LenProperties
  <1> HIDE DEF t
  <1>4. \A k \in 1..Len(t) : k = 1 \/ (k - 1 \in 1..Len(s) /\ t[k] = s[k - 1])
    <2> SUFFICES ASSUME NEW k \in 1..Len(t), k # 1
                 PROVE  k - 1 \in 1..Len(s) /\ t[k] = s[k - 1]
      OBVIOUS
    <2>1. k - 1 \in 1..Len(s) /\ (k - 1) + 1 = k
      BY <1>2
    <2>2. t[(k - 1) + 1] = s[k - 1]
      BY <1>2, <2>1
    <2> QED
      BY <2>1, <2>2
  <1>5. ASSUME NEW x \in Nat
        PROVE  Held(t, x) <=> x \in Range(rest) \cup V
    <2>1. ASSUME Held(t, x)
          PROVE  x \in Range(rest) \/ Held(s, x)
      <3>1. PICK k \in 1..Len(t) : \E i \in 1..Len(t[k].rest) : x = t[k].rest[i]
        BY <2>1 DEF Held
      <3>2. PICK i \in 1..Len(t[k].rest) : x = t[k].rest[i]
        BY <3>1
      <3>3. CASE k = 1
        BY <1>2, <1>3, <3>2, <3>3
      <3>4. CASE k - 1 \in 1..Len(s) /\ t[k] = s[k - 1]
        <4>1. i \in 1..Len(s[k - 1].rest) /\ x = s[k - 1].rest[i]
          BY <3>2, <3>4
        <4> QED
          BY <3>4, <4>1 DEF Held
      <3> QED
        BY <1>4, <3>3, <3>4
    <2>2. ASSUME x \in Range(rest)
          PROVE  Held(t, x)
      <3>1. PICK i \in 1..Len(rest) : x = rest[i]
        BY <1>3, <2>2
      <3>2. 1 \in 1..Len(t) /\ i \in 1..Len(t[1].rest) /\ x = t[1].rest[i]
        BY <1>2, <3>1
      <3> QED
        BY <3>2 DEF Held
    <2>3. ASSUME Held(s, x)
          PROVE  Held(t, x)
      <3>1. PICK k \in 1..Len(s) : \E i \in 1..Len(s[k].rest) : x = s[k].rest[i]
        BY <2>3 DEF Held
      <3>2. k + 1 \in 1..Len(t) /\ t[k + 1] = s[k]
        BY <1>2
      <3>3. \E i \in 1..Len(t[k + 1].rest) : x = t[k + 1].rest[i]
        BY <3>1, <3>2
      <3> QED
        BY <3>2, <3>3 DEF Held
    <2> QED
      BY <1>1, <2>1, <2>2, <2>3
  <1>6. ASSUME NEW k \in 1..Len(s), NEW i \in 1..Len(rest), NEW j \in 1..Len(s[k].rest),
               rest[i] = s[k].rest[j]
        PROVE  FALSE
    <2>1. Held(s, rest[i])
      BY <1>6 DEF Held
    <2>2. rest[i] \in Range(rest) /\ rest[i] \in V
      BY <1>1, <1>3, <2>1
    <2> QED
      BY <2>2
  <1>7. Once(t)
    <2> SUFFICES ASSUME NEW k \in 1..Len(t), NEW l \in 1..Len(t),
                        NEW i \in 1..Len(t[k].rest), NEW j \in 1..Len(t[l].rest),
                        t[k].rest[i] = t[l].rest[j]
                 PROVE  k = l /\ i = j
      BY DEF Once
    <2>1. CASE k = 1 /\ l = 1
      BY <1>2, <2>1, SortedOnce
    <2>2. CASE k = 1 /\ l # 1
      <3>1. l - 1 \in 1..Len(s) /\ t[l] = s[l - 1] /\ t[k].rest = rest
        BY <1>2, <1>4, <2>2
      <3> QED
        BY <1>6, <3>1
    <2>3. CASE k # 1 /\ l = 1
      <3>1. k - 1 \in 1..Len(s) /\ t[k] = s[k - 1] /\ t[l].rest = rest
        BY <1>2, <1>4, <2>3
      <3> QED
        BY <1>6, <3>1
    <2>4. CASE k # 1 /\ l # 1
      <3>1. /\ k - 1 \in 1..Len(s) /\ t[k] = s[k - 1]
            /\ l - 1 \in 1..Len(s) /\ t[l] = s[l - 1]
        BY <1>4, <2>4
      <3>2. PICK a \in 1..Len(s), c \in 1..Len(s) : a = k - 1 /\ c = l - 1
        BY <3>1
      <3>3. /\ i \in 1..Len(s[a].rest) /\ j \in 1..Len(s[c].rest)
            /\ s[a].rest[i] = s[c].rest[j]
        BY <3>1, <3>2
      <3>4. a = c /\ i = j
        BY <1>1, <3>3 DEF Once
      <3> QED
        BY <1>2, <3>2, <3>4
    <2> QED
      BY <2>1, <2>2, <2>3, <2>4
  <1> QED
    BY <1>2, <1>5, <1>7 DEF Keeps, t

LEMMA KeepsFlush ==
  ASSUME NEW rest \in Seq(Nat), Sorted(rest), NEW s, NEW V, Keeps(s, V),
         Range(rest) \cap V = {}
  PROVE  Keeps(On(FlushFrame(rest), s), Range(rest) \cup V)
  BY FramesTyped, KeepsOn

LEMMA KeepsBelow ==
  ASSUME NEW s, NEW V, Keeps(s, V)
  PROVE  /\ Keeps(On(DataFrame, s), V) /\ Keeps(On(JSFrame, s), V)
         /\ Keeps(On(WaitFrame, s), V) /\ Keeps(On(FlushFrame(<<>>), s), V)
  <1> DEFINE none == <<>>
  <1>1. none \in Seq(Nat) /\ Sorted(none) /\ Range(none) = {}
    BY EmptyIsSorted
  <1>2. /\ DataFrame.rest = none /\ JSFrame.rest = none /\ WaitFrame.rest = none
    BY DEF DataFrame, JSFrame, WaitFrame, Frame
  <1> HIDE DEF none, Frames
  <1>3. Range(none) \cap V = {} /\ Range(none) \cup V = V
    BY <1>1
  <1>4. ASSUME NEW f \in Frames, f.rest = none
        PROVE  Keeps(On(f, s), V)
    <2>1. Keeps(On(f, s), Range(none) \cup V)
      BY <1>1, <1>3, <1>4, KeepsOn
    <2> QED
      BY <1>3, <2>1
  <1>5. /\ DataFrame \in Frames /\ JSFrame \in Frames /\ WaitFrame \in Frames
        /\ FlushFrame(none) \in Frames /\ FlushFrame(none).rest = none
    BY <1>1, FramesTyped
  <1>6. Keeps(On(FlushFrame(none), s), V)
    BY <1>4, <1>5
  <1> QED
    BY <1>2, <1>4, <1>5, <1>6 DEF none

LEMMA IdleKeeps ==
  ASSUME NEW s, NEW outer \in Seq(Nat), NEW quiet, Idle(s, outer, quiet), Sorted(outer)
  PROVE  Keeps(s, Range(outer))
  <1>1. Keeps(<<>>, {}) /\ Keeps(On(JSFrame, <<>>), {})
        /\ Keeps(On(JSFrame, On(DataFrame, <<>>)), {})
    BY KeepsNone, KeepsBelow
  <1>2. outer = <<>> => Range(outer) = {}
    BY EmptyIsSorted
  <1>3. Range(outer) \cap {} = {} /\ Range(outer) \cup {} = Range(outer)
    OBVIOUS
  <1>4. /\ Keeps(On(FlushFrame(outer), <<>>), Range(outer) \cup {})
        /\ Keeps(On(FlushFrame(outer), On(JSFrame, <<>>)), Range(outer) \cup {})
    BY <1>1, <1>3, KeepsFlush
  <1>5. /\ Keeps(On(JSFrame, On(FlushFrame(outer), <<>>)), Range(outer))
        /\ Keeps(On(JSFrame, On(FlushFrame(outer), On(JSFrame, <<>>))), Range(outer))
    BY <1>3, <1>4, KeepsBelow
  <1> QED
    BY <1>1, <1>2, <1>5 DEF Idle

LEMMA ShapeKeeps ==
  ASSUME NEW outer \in Seq(Nat), NEW inner \in Seq(Nat), Sorted(outer), Sorted(inner),
         Range(inner) \cap Range(outer) = {}, Shape(outer, inner)
  PROVE  Keeps(stack, Range(inner) \cup Range(outer))
  <1> HIDE DEF NoWait, Frames
  <1>1. /\ inner = <<>> => Range(inner) = {}
        /\ outer = <<>> => Range(outer) = {}
    BY EmptyIsSorted
  <1>2. Range(outer) \cap {} = {} /\ Range(inner) \cap {} = {}
    OBVIOUS
  <1>3. CASE inner = <<>> /\ Working(outer)
    <2>1. Range(inner) \cup Range(outer) = Range(outer) /\ Range(outer) \cup {} = Range(outer)
      BY <1>1, <1>3
    <2>2. CASE Idle(stack, outer, Complete => pending = <<>>)
      BY <2>1, <2>2, IdleKeeps
    <2>3. CASE stack = On(DataFrame, <<>>) /\ outer = <<>>
      BY <1>1, <2>1, <2>3, KeepsNone, KeepsBelow
    <2>4. /\ Keeps(On(FlushFrame(outer), <<>>), Range(outer) \cup {})
          /\ Keeps(On(FlushFrame(outer), On(JSFrame, <<>>)), Range(outer) \cup {})
      <3>1. Keeps(<<>>, {}) /\ Keeps(On(JSFrame, <<>>), {})
        BY KeepsNone, KeepsBelow
      <3> QED
        BY <1>2, <3>1, KeepsFlush
    <2> QED
      BY <1>3, <2>1, <2>2, <2>3, <2>4 DEF Working
  <1>4. CASE outer = <<>> /\ SettingUp(inner)
    <2>1. Range(inner) \cup Range(outer) = Range(inner) /\ Range(inner) \cup {} = Range(inner)
      BY <1>1, <1>4
    <2>2. Keeps(Bottom, {})
      <3>1. Keeps(<<>>, {}) /\ Keeps(On(WaitFrame, <<>>), {})
        BY KeepsNone, KeepsBelow
      <3> QED
        BY <3>1 DEF Bottom
    <2>3. Keeps(On(DataFrame, Bottom), {})
      BY <2>2, KeepsBelow
    <2>4. Keeps(On(FlushFrame(<<>>), On(DataFrame, Bottom)), {})
      BY <2>3, KeepsBelow
    <2>5. Keeps(On(FlushFrame(inner), Bottom), Range(inner))
      BY <1>2, <2>1, <2>2, KeepsFlush
    <2>6. Keeps(On(FlushFrame(<<>>), On(FlushFrame(inner), Bottom)), Range(inner))
      BY <2>5, KeepsBelow
    <2> QED
      BY <1>1, <1>4, <2>1, <2>2, <2>3, <2>4, <2>5, <2>6 DEF SettingUp
  <1>5. ASSUME NEW b \in Seq(Frames), Blocked(outer, inner, b)
        PROVE  Keeps(stack, Range(inner) \cup Range(outer))
    <2>1. Keeps(b, Range(outer))
      BY <1>5, IdleKeeps DEF Blocked
    <2>2. /\ Keeps(On(WaitFrame, b), Range(outer))
          /\ Keeps(On(DataFrame, On(WaitFrame, b)), Range(outer))
      BY <2>1, KeepsBelow
    <2>3. Keeps(On(FlushFrame(inner), On(WaitFrame, b)), Range(inner) \cup Range(outer))
      BY <2>2, KeepsFlush
    <2>4. inner = <<>> => Range(inner) \cup Range(outer) = Range(outer)
      BY <1>1
    <2> QED
      BY <1>5, <2>2, <2>3, <2>4 DEF Blocked
  <1> QED
    BY <1>3, <1>4, <1>5 DEF Shape

LEMMA NothingLost ==
  ASSUME Inv
  PROVE  LosesNothing
  <1> HIDE DEF Frames, NoWait
  <1>1. PICK outer, inner \in Seq(Nat) :
          Listed(outer, pending, inner, parsed, handled) /\ Shape(outer, inner)
    BY DEF Inv, Queued
  <1> DEFINE V == Range(inner) \cup Range(outer)
  <1>2. /\ pending \in Seq(Nat) /\ Sorted(pending) /\ Len(pending) \in Nat
        /\ Range(pending) = {pending[i] : i \in 1..Len(pending)}
        /\ stack \in Seq(Frames) /\ Len(stack) \in Nat
    BY RangeEquality, LenProperties DEF Inv, TypeOK, Listed, Queued
  <1>3. /\ Sorted(outer) /\ Sorted(inner)
        /\ Older(Range(outer), Range(pending)) /\ Older(Range(outer), Range(inner))
        /\ Older(Range(pending), Range(inner))
        /\ Range(outer) \cup Range(pending) \cup Range(inner) = (1..parsed) \ handled
    BY <1>1 DEF Listed
  <1>4. /\ Range(inner) \cap Range(outer) = {}
        /\ Range(pending) \cap V = {}
    <2>1. \A x \in (1..parsed) \ handled : ~(x < x)
      OBVIOUS
    <2> QED
      BY <1>3, <2>1 DEF Older
  <1>5. Keeps(stack, V)
    BY <1>1, <1>3, <1>4, ShapeKeeps
  <1> HIDE DEF V
  <1>6. DOMAIN pending = 1..Len(pending) /\ DOMAIN stack = 1..Len(stack)
    BY <1>2
  <1>7. \A f \in 1..Len(stack) : /\ stack[f].rest \in Seq(Nat)
                                 /\ DOMAIN stack[f].rest = 1..Len(stack[f].rest)
                                 /\ \A i \in 1..Len(stack[f].rest) : stack[f].rest[i] \in Nat
    <2> SUFFICES ASSUME NEW f \in 1..Len(stack)
                 PROVE  stack[f].rest \in Seq(Nat)
      BY LenProperties
    <2>1. stack[f] \in Frames
      BY <1>2, ElementOfSeq
    <2> QED
      BY <2>1 DEF Frames
  <1> DEFINE Queue(p) == p[1] = 0 /\ p[2] \in 1..Len(pending) /\ At(p) = pending[p[2]]
             Copy(p)  == /\ p[1] \in 1..Len(stack) /\ p[2] \in 1..Len(stack[p[1]].rest)
                         /\ At(p) = stack[p[1]].rest[p[2]]
  <1>8. ASSUME NEW p \in Places
        PROVE  p = <<p[1], p[2]>> /\ (Queue(p) \/ Copy(p))
    <2>1. CASE \E i \in 1..Len(pending) : p = <<0, i>>
      BY <2>1 DEF At
    <2>2. CASE \E f \in 1..Len(stack) : \E i \in 1..Len(stack[f].rest) : p = <<f, i>>
      <3>1. PICK f \in 1..Len(stack) : \E i \in 1..Len(stack[f].rest) : p = <<f, i>>
        BY <2>2
      <3>2. PICK i \in 1..Len(stack[f].rest) : p = <<f, i>>
        BY <3>1
      <3>3. p[1] = f /\ p[2] = i /\ f # 0
        BY <1>2, <3>2
      <3> QED
        BY <3>2, <3>3 DEF At
    <2> QED
      BY <1>6, <1>7, <2>1, <2>2 DEF Places
  <1>9. /\ \A i \in 1..Len(pending) : <<0, i>> \in Places /\ At(<<0, i>>) = pending[i]
        /\ \A f \in 1..Len(stack) : \A i \in 1..Len(stack[f].rest) :
             <<f, i>> \in Places /\ At(<<f, i>>) = stack[f].rest[i]
    <2>1. ASSUME NEW i \in 1..Len(pending)
          PROVE  <<0, i>> \in Places /\ At(<<0, i>>) = pending[i]
      BY <1>6 DEF Places, At
    <2>2. ASSUME NEW f \in 1..Len(stack), NEW i \in 1..Len(stack[f].rest)
          PROVE  <<f, i>> \in Places /\ At(<<f, i>>) = stack[f].rest[i]
      <3>1. f # 0 /\ f \in DOMAIN stack /\ i \in DOMAIN stack[f].rest
        BY <1>2, <1>6, <1>7
      <3> QED
        BY <3>1 DEF Places, At
    <2> QED
      BY <2>1, <2>2
  <1>10. /\ Once(stack) /\ \A x \in Nat : Held(stack, x) <=> x \in V
    BY <1>5 DEF Keeps
  <1>11. ASSUME NEW p \in Places
         PROVE  /\ Queue(p) => At(p) \in Range(pending)
                /\ Copy(p) => At(p) \in V
    <2>1. Queue(p) => At(p) \in Range(pending)
      BY <1>2
    <2>2. ASSUME Copy(p)
          PROVE  At(p) \in V
      <3>1. Held(stack, At(p)) /\ At(p) \in Nat
        BY <1>7, <2>2 DEF Held
      <3> QED
        BY <1>10, <3>1
    <2> QED
      BY <2>1, <2>2
  <1>12. {At(p) : p \in Places} = Range(pending) \cup V
    <2>1. ASSUME NEW x \in Range(pending)
          PROVE  \E p \in Places : x = At(p)
      BY <1>2, <1>9
    <2>2. ASSUME NEW x \in V
          PROVE  \E p \in Places : x = At(p)
      <3>1. x \in Nat
        BY <1>3 DEF V
      <3>2. Held(stack, x)
        BY <1>10, <3>1
      <3>3. PICK f \in 1..Len(stack) : \E i \in 1..Len(stack[f].rest) : x = stack[f].rest[i]
        BY <3>2 DEF Held
      <3> QED
        BY <1>9, <3>3
    <2>3. \A p \in Places : At(p) \in Range(pending) \cup V
      BY <1>8, <1>11
    <2> QED
      BY <2>1, <2>2, <2>3
  <1>13. ASSUME NEW p \in Places, NEW q \in Places, At(p) = At(q)
         PROVE  p = q
    <2>1. CASE Queue(p) /\ Queue(q)
      <3>1. PICK i \in 1..Len(pending), j \in 1..Len(pending) : i = p[2] /\ j = q[2]
        BY <2>1
      <3>2. pending[i] = pending[j]
        BY <1>13, <2>1, <3>1
      <3>3. i = j
        BY <1>2, <3>2, SortedOnce
      <3> QED
        BY <1>8, <2>1, <3>1, <3>3
    <2>2. CASE Copy(p) /\ Copy(q)
      <3>1. PICK f \in 1..Len(stack), g \in 1..Len(stack) : f = p[1] /\ g = q[1]
        BY <2>2
      <3>2. PICK i \in 1..Len(stack[f].rest), j \in 1..Len(stack[g].rest) :
              i = p[2] /\ j = q[2]
        BY <2>2, <3>1
      <3>3. stack[f].rest[i] = stack[g].rest[j]
        BY <1>13, <2>2, <3>1, <3>2
      <3>4. f = g /\ i = j
        BY <1>10, <3>3 DEF Once
      <3> QED
        BY <1>8, <3>1, <3>2, <3>4
    <2>3. ~(Queue(p) /\ Copy(q)) /\ ~(Copy(p) /\ Queue(q))
      BY <1>4, <1>11, <1>13
    <2> QED
      BY <1>8, <2>1, <2>2, <2>3
  <1>14. Range(pending) \cup V = (1..parsed) \ handled
    BY <1>3 DEF V
  <1>15. handled \subseteq 1..parsed
    BY DEF Inv
  <1> QED
    BY <1>12, <1>13, <1>14, <1>15 DEF LosesNothing

\* Every message that was parsed is handled, pending or in the copy of one flush,
\* and never in two places (handlePendingMessages, qbackendconnection.cpp:515).
THEOREM NoMessageLost == Spec => []LosesNothing
  BY NothingLost, Invariance, PTL
===============================================================================
