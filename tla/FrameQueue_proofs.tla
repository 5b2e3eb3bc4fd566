-------------------------- MODULE FrameQueue_proofs --------------------------
(***************************************************************************)
(* Proofs about FrameQueue for any threads, frames, sizes and limits: its  *)
(* types, that it drops nothing, that it implements FrameStream, and that  *)
(* the bytes it counts are the bytes it holds.                             *)
(***************************************************************************)
EXTENDS FrameQueue, SequenceTheorems, FiniteSetTheorems, WellFoundedInduction, TLAPS

\* The frame the writer holds, counted.
Held == IF writer = "sending" THEN 1 ELSE 0

\* The wire is a prefix of what was accepted, and the writer holds the next frame.
OrderOK ==
    /\ Len(wire) + Held =< Len(accepted)
    /\ \A i \in 1 .. Len(wire) : wire[i] = accepted[i]
    /\ writer = "sending" => hand = accepted[Len(wire) + 1]

\* Until the connection is cut the queue holds all the rest.
QueueOK ==
    ~closed /\ ~overflowed /\ writer # "returned" =>
        /\ Len(accepted) = Len(wire) + Held + Len(entries)
        /\ \A i \in 1 .. Len(entries) : entries[i] = accepted[Len(wire) + Held + i]

Inv == TypeOK /\ OrderOK /\ QueueOK

-----------------------------------------------------------------------------

\* What pop does to the queue.
LEMMA TakeEffect ==
    ASSUME TypeOK, Take
    PROVE  /\ entries' \in Seq(Frame) /\ hand' \in Frame
           /\ Len(entries) \in Nat \ {0} /\ Len(entries') = Len(entries) - 1
           /\ \A i \in 1 .. Len(entries') : entries'[i] = entries[i + 1]
           /\ hand' = entries[1]
<1>1. entries \in Seq(Frame) /\ entries # <<>>
  BY DEF TypeOK, Take
<1>2. Len(entries) \in Nat \ {0} /\ Head(entries) = entries[1]
  BY <1>1
<1>3. entries' = Tail(entries) /\ hand' = Head(entries)
  BY DEF Take
<1>4. QED
  BY <1>1, <1>2, <1>3, HeadTailProperties

\* What a completed write does to the wire.
LEMMA WriteEffect ==
    ASSUME TypeOK, Write
    PROVE  /\ wire' \in Seq(Frame)
           /\ Len(wire') = Len(wire) + 1 /\ wire'[Len(wire) + 1] = hand
           /\ \A i \in 1 .. Len(wire) : wire'[i] = wire[i]
BY AppendProperties DEF TypeOK, Write

\* What an accepted push does to the queue and to the history.
LEMMA AcceptEffect ==
    ASSUME TypeOK, NEW t \in Thread, NEW f \in Frame, Accept(t, f)
    PROVE  /\ entries' \in Seq(Frame) /\ accepted' \in Seq(Frame)
           /\ Len(entries') = Len(entries) + 1 /\ entries'[Len(entries) + 1] = f
           /\ \A i \in 1 .. Len(entries) : entries'[i] = entries[i]
           /\ Len(accepted') = Len(accepted) + 1 /\ accepted'[Len(accepted) + 1] = f
           /\ \A i \in 1 .. Len(accepted) : accepted'[i] = accepted[i]
BY AppendProperties DEF TypeOK, Accept

\* The lengths are numbers.
LEMMA Lengths ==
    ASSUME TypeOK
    PROVE  /\ Len(wire) \in Nat /\ Len(accepted) \in Nat /\ Len(entries) \in Nat
           /\ Held \in Nat
BY LenProperties DEF TypeOK, Held

\* Every step keeps the types.
LEMMA TypeStep ==
    ASSUME TypeOK, [Next]_queueVars
    PROVE  TypeOK'
<1> USE DEF TypeOK
<1>1. ASSUME NEW t \in Thread, NEW f \in Frame, Accept(t, f)
      PROVE  TypeOK'
  BY <1>1, AcceptEffect, QueueAssumption DEF Accept
<1>2. ASSUME NEW t \in Thread, NEW f \in Frame, Overflow(t, f)
      PROVE  TypeOK'
  BY <1>2 DEF Overflow
<1>3. ASSUME NEW t \in Thread, Close(t)
      PROVE  TypeOK'
  BY <1>3 DEF Close
<1>4. ASSUME NEW t \in Thread, Notify(t)
      PROVE  TypeOK'
  BY <1>4 DEF Notify
<1>5. CASE Wait
  BY <1>5 DEF Wait
<1>6. CASE WakeUp
  BY <1>6 DEF WakeUp
<1>7. CASE Take
  BY <1>7, TakeEffect, QueueAssumption DEF Take
<1>8. CASE TakeEnd
  BY <1>8 DEF TakeEnd
<1>9. CASE Write
  BY <1>9, WriteEffect DEF Write
<1>10. CASE Return
  BY <1>10 DEF Return
<1>11. CASE UNCHANGED queueVars
  BY <1>11 DEF queueVars
<1>12. QED
  BY <1>1, <1>2, <1>3, <1>4, <1>5, <1>6, <1>7, <1>8, <1>9, <1>10, <1>11
     DEF Next, WriterStep, ProducerStep, Push

\* Every step keeps the frames in the order of their acceptance.
LEMMA OrderStep ==
    ASSUME TypeOK, OrderOK, QueueOK, [Next]_queueVars
    PROVE  OrderOK'
<1> USE DEF OrderOK, QueueOK, Held
<1>1. ASSUME NEW t \in Thread, NEW f \in Frame, Accept(t, f)
      PROVE  OrderOK'
  BY <1>1, AcceptEffect, Lengths DEF Accept
<1>2. ASSUME NEW t \in Thread, NEW f \in Frame, Overflow(t, f)
      PROVE  OrderOK'
  BY <1>2 DEF Overflow
<1>3. ASSUME NEW t \in Thread, Close(t)
      PROVE  OrderOK'
  BY <1>3 DEF Close
<1>4. ASSUME NEW t \in Thread, Notify(t)
      PROVE  OrderOK'
  BY <1>4 DEF Notify
<1>5. CASE Wait
  BY <1>5 DEF Wait
<1>6. CASE WakeUp
  BY <1>6 DEF WakeUp
<1>7. CASE Take
  BY <1>7, TakeEffect, Lengths DEF Take
<1>8. CASE TakeEnd
  BY <1>8 DEF TakeEnd
<1>9. CASE Write
  BY <1>9, WriteEffect, Lengths DEF Write
<1>10. CASE Return
  BY <1>10, Lengths DEF Return
<1>11. CASE UNCHANGED queueVars
  BY <1>11 DEF queueVars
<1>12. QED
  BY <1>1, <1>2, <1>3, <1>4, <1>5, <1>6, <1>7, <1>8, <1>9, <1>10, <1>11
     DEF Next, WriterStep, ProducerStep, Push

\* Every step keeps the rest of the accepted frames in the queue.
LEMMA QueueStep ==
    ASSUME TypeOK, OrderOK, QueueOK, [Next]_queueVars
    PROVE  QueueOK'
<1> USE DEF OrderOK, QueueOK, Held
<1>1. ASSUME NEW t \in Thread, NEW f \in Frame, Accept(t, f)
      PROVE  QueueOK'
  <2>1. Held' = Held /\ UNCHANGED <<wire, writer>> /\ ~closed /\ ~overflowed
    BY <1>1 DEF Accept
  <2>2. CASE writer # "returned"
    <3>1. Len(accepted') = Len(wire') + Held' + Len(entries')
      BY <1>1, <2>1, <2>2, AcceptEffect, Lengths
    <3>2. ASSUME NEW i \in 1 .. Len(entries')
          PROVE  entries'[i] = accepted'[Len(wire') + Held' + i]
      <4>1. CASE i = Len(entries) + 1
        <5>1. Len(wire') + Held' + i = Len(accepted) + 1
          <6>1. Len(accepted) = Len(wire) + Held + Len(entries)
            BY <2>1, <2>2
          <6>2. Len(wire') = Len(wire) /\ Held' = Held
            BY <2>1
          <6>3. Len(wire) \in Nat /\ Len(entries) \in Nat /\ Held \in Nat
            BY Lengths
          <6> HIDE DEF Held
          <6>4. QED
            BY <4>1, <6>1, <6>2, <6>3
        <5>2. QED
          BY <1>1, <4>1, <5>1, AcceptEffect
      <4>2. CASE i \in 1 .. Len(entries)
        <5>1. Len(wire) + Held + i \in 1 .. Len(accepted)
          BY <2>1, <2>2, <4>2, Lengths, <1>1 DEF Accept
        <5>2. QED
          BY <1>1, <2>1, <2>2, <4>2, <5>1, AcceptEffect
      <4>3. QED
        BY <1>1, <3>2, <4>1, <4>2, AcceptEffect, Lengths
    <3>3. QED
      BY <3>1, <3>2
  <2>3. CASE writer = "returned"
    BY <2>1, <2>3
  <2>4. QED
    BY <2>2, <2>3
<1>2. ASSUME NEW t \in Thread, NEW f \in Frame, Overflow(t, f)
      PROVE  QueueOK'
  BY <1>2 DEF Overflow
<1>3. ASSUME NEW t \in Thread, Close(t)
      PROVE  QueueOK'
  BY <1>3 DEF Close
<1>4. ASSUME NEW t \in Thread, Notify(t)
      PROVE  QueueOK'
  BY <1>4 DEF Notify
<1>5. CASE Wait
  BY <1>5 DEF Wait
<1>6. CASE WakeUp
  BY <1>6 DEF WakeUp
<1>7. CASE Take
  <2>1. /\ Held = 0 /\ Held' = 1 /\ UNCHANGED <<wire, accepted>>
        /\ Len(accepted) = Len(wire) + Len(entries)
        /\ \A i \in 1 .. Len(entries) : entries[i] = accepted[Len(wire) + i]
    BY <1>7, Lengths DEF Take
  <2>2. Len(accepted') = Len(wire') + Held' + Len(entries')
    BY <1>7, <2>1, TakeEffect, Lengths
  <2>3. ASSUME NEW i \in 1 .. Len(entries')
        PROVE  entries'[i] = accepted'[Len(wire') + Held' + i]
    <3>1. entries'[i] = entries[i + 1] /\ i + 1 \in 1 .. Len(entries)
      BY <1>7, TakeEffect
    <3>2. Len(wire') + Held' + i = Len(wire) + (i + 1)
      BY <2>1, Lengths
    <3>3. QED
      BY <2>1, <3>1, <3>2
  <2>4. QED
    BY <2>2, <2>3
<1>8. CASE TakeEnd
  BY <1>8 DEF TakeEnd
<1>9. CASE Write
  BY <1>9, WriteEffect, Lengths DEF Write
<1>10. CASE Return
  BY <1>10, Lengths DEF Return
<1>11. CASE UNCHANGED queueVars
  BY <1>11 DEF queueVars
<1>12. QED
  BY <1>1, <1>2, <1>3, <1>4, <1>5, <1>6, <1>7, <1>8, <1>9, <1>10, <1>11
     DEF Next, WriterStep, ProducerStep, Push

\* The strengthened invariant holds in every reachable state.
THEOREM InvCorrect == Spec => []Inv
<1>1. Init => Inv
  <2> SUFFICES ASSUME Init PROVE Inv
    OBVIOUS
  <2>1. TypeOK
    <3>1. <<>> \in Seq(Frame)
      OBVIOUS
    <3>2. QED
      <4>1. entries \in Seq(Frame) /\ accepted \in Seq(Frame) /\ wire \in Seq(Frame)
        BY <3>1 DEF Init
      <4>2. bytes \in Int /\ owing \subseteq Thread
        BY DEF Init
      <4>3. overflowed \in BOOLEAN /\ closed \in BOOLEAN
        BY DEF Init
      <4>4. /\ writer \in {"popping", "waiting", "sending", "closing", "returned"}
            /\ hand \in Frame \cup {None}
            /\ writer = "sending" <=> hand # None
        BY DEF Init
      <4>5. QED
        BY <4>1, <4>2, <4>3, <4>4 DEF TypeOK
  <2>2. Len(wire) = 0 /\ Len(entries) = 0 /\ Len(accepted) = 0 /\ Held = 0
    BY DEF Init, Held
  <2>3. QED
    BY <2>1, <2>2 DEF Inv, OrderOK, QueueOK, Init
<1>2. Inv /\ [Next]_queueVars => Inv'
  BY TypeStep, OrderStep, QueueStep DEF Inv
<1>3. QED
  BY <1>1, <1>2, PTL DEF Spec

\* The queue and its writer keep their types.
THEOREM TypeCorrect == Spec => []TypeOK
BY InvCorrect, PTL DEF Inv

\* No accepted frame is dropped before the connection is cut: what the peer was
\* sent, what the writer holds and what is queued make up what was accepted.
THEOREM NothingIsDropped == Spec => []NothingDropped
<1>1. ASSUME Inv, ~closed, ~overflowed, writer # "returned"
      PROVE  accepted = wire \o (IF writer = "sending" THEN <<hand>> ELSE <<>>) \o entries
  <2> DEFINE held == IF writer = "sending" THEN <<hand>> ELSE <<>>
  <2>1. /\ wire \in Seq(Frame) /\ entries \in Seq(Frame) /\ accepted \in Seq(Frame)
        /\ held \in Seq(Frame) /\ Len(held) = Held
        /\ writer = "sending" => held[1] = hand
    BY <1>1 DEF Inv, TypeOK, Held
  <2> HIDE DEF held
  <2> DEFINE sent == wire \o held
  <2>2. /\ sent \in Seq(Frame) /\ Len(sent) = Len(wire) + Held
        /\ \A i \in 1 .. Len(sent) : sent[i] = IF i =< Len(wire) THEN wire[i] ELSE held[i - Len(wire)]
    BY ZenonT(60), <2>1, ConcatProperties
  <2>3. \A i \in 1 .. Len(sent) : sent[i] = accepted[i]
    <3>1. ASSUME NEW i \in 1 .. Len(sent), i > Len(wire)
          PROVE  i = Len(wire) + 1 /\ writer = "sending"
      BY <1>1, <2>2, <3>1, Lengths DEF Inv, Held
    <3>2. QED
      BY <1>1, <2>1, <2>2, <3>1, Lengths DEF Inv, OrderOK
  <2> HIDE DEF sent
  <2>4. /\ sent \o entries \in Seq(Frame) /\ Len(sent \o entries) = Len(sent) + Len(entries)
        /\ \A i \in 1 .. Len(sent) + Len(entries) :
             (sent \o entries)[i] = IF i =< Len(sent) THEN sent[i] ELSE entries[i - Len(sent)]
    <3>1. sent \in Seq(Frame) /\ entries \in Seq(Frame)
      BY <2>1, <2>2
    <3>2. QED
      BY <3>1, ConcatProperties
  <2>5. Len(sent) + Len(entries) = Len(accepted)
    BY <1>1, <2>2 DEF Inv, QueueOK
  <2>6. \A i \in 1 .. Len(accepted) : (sent \o entries)[i] = accepted[i]
    <3>1. ASSUME NEW i \in 1 .. Len(accepted), i > Len(sent)
          PROVE  entries[i - Len(sent)] = accepted[i]
      <4>1. i - Len(sent) \in 1 .. Len(entries) /\ Len(sent) + (i - Len(sent)) = i
        BY SMTT(30), <1>1, <2>2, <2>5, <3>1, Lengths DEF Inv
      <4>2. QED
        BY <1>1, <2>2, <4>1 DEF Inv, QueueOK
    <3>2. TAKE i \in 1 .. Len(accepted)
    <3>3. (sent \o entries)[i] = IF i =< Len(sent) THEN sent[i] ELSE entries[i - Len(sent)]
      BY <2>4, <2>5
    <3>4. /\ i =< Len(sent) => sent[i] = accepted[i]
          /\ i =< Len(sent) \/ i > Len(sent)
      BY <2>2, <2>3, <2>1
    <3>5. QED
      BY <3>1, <3>3, <3>4
  <2>7. sent \o entries = accepted
    BY <2>1, <2>4, <2>5, <2>6, SeqEqual
  <2>8. QED
    BY <2>7 DEF sent, held
<1>2. Inv => NothingDropped
  BY <1>1 DEF NothingDropped
<1>3. QED
  BY <1>2, InvCorrect, PTL

\* A connection implements FrameStream: the peer receives a prefix of what was
\* accepted, and nothing is accepted any more once the queue is closed or overflows.
THEOREM QueueIsStream == Spec => StreamSpec
<1>1. Init => Stream!Init
  BY DEF Init, Stream!Init
<1>2. ASSUME Inv, [Next]_queueVars
      PROVE  [Stream!Next]_Stream!vars
  <2> USE DEF Stream!Next, Stream!vars
  <2>1. ASSUME NEW t \in Thread, NEW f \in Frame, Accept(t, f)
        PROVE  Stream!Accept(f)
    BY <2>1 DEF Accept, Stream!Accept
  <2>2. ASSUME NEW t \in Thread, NEW f \in Frame, Overflow(t, f)
        PROVE  Stream!Cut
    BY <2>2 DEF Overflow, Stream!Cut
  <2>3. ASSUME NEW t \in Thread, Close(t)
        PROVE  Stream!Cut
    BY <2>3 DEF Close, Stream!Cut
  <2>4. CASE Write
    <3>1. hand = accepted[Len(wire) + 1] /\ Len(wire) < Len(accepted)
      BY <1>2, <2>4, Lengths DEF Write, Inv, OrderOK, Held
    <3>2. Stream!Receive
      BY <2>4, <3>1 DEF Write, Stream!Receive
    <3>3. QED
      BY <3>2
  <2>5. CASE Wait \/ WakeUp \/ Take \/ TakeEnd \/ Return
    BY <2>5 DEF Wait, WakeUp, Take, TakeEnd, Return
  <2>6. ASSUME NEW t \in Thread, Notify(t)
        PROVE  UNCHANGED Stream!vars
    BY <2>6 DEF Notify
  <2>7. CASE UNCHANGED queueVars
    BY <2>7 DEF queueVars
  <2>8. QED
    BY <1>2, <2>1, <2>2, <2>3, <2>4, <2>5, <2>6, <2>7
       DEF Next, WriterStep, ProducerStep, Push
<1>3. QED
  BY <1>1, <1>2, InvCorrect, PTL DEF Spec, StreamSpec, Stream!Spec

-----------------------------------------------------------------------------
(* The bytes of a queue.  The sum is defined by recursion on its length;   *)
(* what is proved of it goes by the least length for which it would fail.  *)

\* A set of lengths that is not empty has a least one.
LEMMA Least ==
    ASSUME NEW n \in Nat, NEW S \in SUBSET (0 .. n), S # {}
    PROVE  \E m \in S : \A k \in S : m =< k
<1> DEFINE Below(m) == {k \in S : k < m}
<1> DEFINE Family == {Below(m) : m \in S}
<1>0. IsFiniteSet(S)
  <2>1. IsFiniteSet(0 .. n)
    BY FS_Interval
  <2>2. QED
    BY <2>1, FS_Subset
<1>1. Family \subseteq FiniteSubsetsOf(S) /\ Family # {}
  <2>1. \A m \in S : IsFiniteSet(Below(m)) /\ Below(m) \subseteq S
    BY <1>0, FS_Subset
  <2>2. QED
    BY <2>1 DEF FiniteSubsetsOf
<1>2. PICK A \in Family : \A B \in Family : ~ (<<B, A>> \in StrictSubsetOrdering(S))
  <2> HIDE DEF Family
  <2>1. QED
    BY <1>1, FS_StrictSubsetOrderingWellFounded, WFMin
<1>3. PICK m \in S : A = Below(m)
  OBVIOUS
<1>4. ASSUME NEW k \in S, k < m
      PROVE  FALSE
  <2>1. Below(k) \subseteq Below(m) /\ k \in Below(m) /\ k \notin Below(k)
    <3>1. k \in Int /\ m \in Int /\ ~ (k < k)
      BY <1>4
    <3>2. \A j \in S : j < k => j < m
      BY <1>4, <3>1
    <3>3. QED
      BY <1>4, <3>1, <3>2
  <2>2. Below(k) \in Family /\ Below(k) \in SUBSET S /\ Below(m) \in SUBSET S
    OBVIOUS
  <2>3. <<Below(k), Below(m)>> \in StrictSubsetOrdering(S)
    BY <2>1, <2>2 DEF StrictSubsetOrdering
  <2>4. QED
    BY <1>2, <1>3, <2>2, <2>3
<1>5. QED
  BY <1>4

\* g holds the sums of the first n entries of q.
Sums(q, n, g) ==
    /\ g \in [0 .. n -> Nat]
    /\ g[0] = 0
    /\ \A i \in 1 .. n : g[i] = g[i - 1] + Size[q[i]]

\* The sums of the first n entries exist.
LEMMA SumsExist ==
    ASSUME NEW q \in Seq(Frame)
    PROVE  \A n \in 0 .. Len(q) : \E g : Sums(q, n, g)
<1> DEFINE Bad == {n \in 0 .. Len(q) : ~ \E g : Sums(q, n, g)}
<1>0. Len(q) \in Nat
  BY LenProperties
<1>1. ASSUME Bad # {}
      PROVE  FALSE
  <2>1. PICK n \in Bad : \A k \in Bad : n =< k
    <3>1. Bad \in SUBSET (0 .. Len(q))
      OBVIOUS
    <3> HIDE DEF Bad
    <3>2. QED
      BY <1>0, <1>1, <3>1, Least
  <2>2. CASE n = 0
    <3>1. Sums(q, 0, [i \in 0 .. 0 |-> 0])
      BY DEF Sums
    <3>2. QED
      BY <2>1, <2>2, <3>1
  <2>3. CASE n # 0
    <3>1. n \in 1 .. Len(q) /\ n - 1 \in 0 .. Len(q) /\ n - 1 \notin Bad
      BY <1>0, <2>1, <2>3
    <3>2. PICK g : Sums(q, n - 1, g)
      BY <3>1
    <3>3. Size[q[n]] \in Nat
      BY <3>1, QueueAssumption, ElementOfSeq
    <3> DEFINE h == [i \in 0 .. n |-> IF i = n THEN g[n - 1] + Size[q[n]] ELSE g[i]]
    <3>4. \A i \in 0 .. n - 1 : g[i] \in Nat /\ h[i] = g[i]
      BY <3>1, <3>2 DEF Sums
    <3>5. h[n] = g[n - 1] + Size[q[n]] /\ h[n] \in Nat
      <4>1. n - 1 \in 0 .. n - 1 /\ n \in 0 .. n
        BY <3>1
      <4>2. g[n - 1] \in Nat /\ h[n] = g[n - 1] + Size[q[n]]
        BY <3>4, <4>1
      <4>3. QED
        BY <3>3, <4>2
    <3>6. h \in [0 .. n -> Nat] /\ h[0] = 0
      BY <3>1, <3>2, <3>3, <3>4 DEF Sums
    <3>7. ASSUME NEW i \in 1 .. n
          PROVE  h[i] = h[i - 1] + Size[q[i]]
      <4>1. CASE i = n
        <5>1. h[i - 1] = g[n - 1]
          BY <3>1, <3>4, <4>1
        <5>2. QED
          BY <3>5, <4>1, <5>1
      <4>2. CASE i # n
        <5>1. i \in 1 .. n - 1 /\ i \in 0 .. n - 1 /\ i - 1 \in 0 .. n - 1
          BY <3>1, <4>2
        <5>2. g[i] = g[i - 1] + Size[q[i]]
          BY <3>2, <5>1 DEF Sums
        <5>3. QED
          BY <3>4, <5>1, <5>2
      <4>3. QED
        BY <4>1, <4>2
    <3> HIDE DEF h
    <3>8. Sums(q, n, h)
      BY <3>6, <3>7 DEF Sums
    <3>9. QED
      BY <2>1, <3>8
  <2>4. QED
    BY <2>2, <2>3
<1>2. QED
  BY <1>1

\* There is only one way to sum the entries up.
LEMMA SumsUnique ==
    ASSUME NEW q, NEW n \in Nat, NEW g, NEW h, Sums(q, n, g), Sums(q, n, h)
    PROVE  \A i \in 0 .. n : g[i] = h[i]
<1> DEFINE Bad == {i \in 0 .. n : g[i] # h[i]}
<1>1. ASSUME Bad # {}
      PROVE  FALSE
  <2>1. PICK i \in Bad : \A k \in Bad : i =< k
    <3>1. Bad \in SUBSET (0 .. n)
      OBVIOUS
    <3> HIDE DEF Bad
    <3>2. QED
      BY <1>1, <3>1, Least
  <2>2. i # 0
    BY <2>1 DEF Sums
  <2>3. i \in 1 .. n /\ i - 1 \in 0 .. n /\ i - 1 \notin Bad
    BY <2>1, <2>2
  <2>4. g[i - 1] = h[i - 1]
    BY <2>3
  <2>5. QED
    BY <2>1, <2>3, <2>4 DEF Sums
<1>2. QED
  BY <1>1

\* The recursive function of BytesExact, for any queue.
Totals(q) ==
    LET total[n \in 0 .. Len(q)] ==
            IF n = 0 THEN 0 ELSE total[n - 1] + Size[q[n]]
    IN  total

Total(q) == Totals(q)[Len(q)]

\* It is the sum.
LEMMA TotalsSum ==
    ASSUME NEW q \in Seq(Frame)
    PROVE  Sums(q, Len(q), Totals(q))
<1>0. Len(q) \in Nat /\ Len(q) \in 0 .. Len(q)
  BY LenProperties
<1>1. PICK g : Sums(q, Len(q), g)
  BY <1>0, SumsExist
<1>2. g = [n \in 0 .. Len(q) |-> IF n = 0 THEN 0 ELSE g[n - 1] + Size[q[n]]]
  <2>1. g \in [0 .. Len(q) -> Nat]
    BY <1>1 DEF Sums
  <2>2. \A n \in 0 .. Len(q) : g[n] = IF n = 0 THEN 0 ELSE g[n - 1] + Size[q[n]]
    <3>1. \A n \in 0 .. Len(q) : n = 0 \/ n \in 1 .. Len(q)
      BY <1>0
    <3>2. QED
      BY <1>1, <3>1 DEF Sums
  <2>3. QED
    BY <2>1, <2>2
<1>3. Totals(q) = [n \in 0 .. Len(q) |-> IF n = 0 THEN 0 ELSE Totals(q)[n - 1] + Size[q[n]]]
  <2> DEFINE t[n \in 0 .. Len(q)] == IF n = 0 THEN 0 ELSE t[n - 1] + Size[q[n]]
  <2>1. t = [n \in 0 .. Len(q) |-> IF n = 0 THEN 0 ELSE t[n - 1] + Size[q[n]]]
    BY <1>2 DEF t
  <2>2. Totals(q) = t
    BY DEF Totals
  <2>3. QED
    BY <2>1, <2>2
<1> DEFINE t == Totals(q)
<1>4. DOMAIN t = 0 .. Len(q) /\ t[0] = 0 /\ \A n \in 1 .. Len(q) : t[n] = t[n - 1] + Size[q[n]]
  <2>1. DOMAIN t = 0 .. Len(q)
    BY <1>3
  <2>2. \A n \in 0 .. Len(q) : t[n] = IF n = 0 THEN 0 ELSE t[n - 1] + Size[q[n]]
    BY <1>3
  <2>3. 0 \in 0 .. Len(q) /\ \A n \in 1 .. Len(q) : n \in 0 .. Len(q) /\ n # 0
    BY <1>0
  <2> HIDE DEF t
  <2>4. QED
    BY <2>1, <2>2, <2>3
<1> HIDE DEF t
<1>5. ASSUME NEW n \in 0 .. Len(q)
      PROVE  t[n] = g[n]
  <2> DEFINE Bad == {i \in 0 .. Len(q) : t[i] # g[i]}
  <2>1. ASSUME Bad # {}
        PROVE  FALSE
    <3>1. PICK i \in Bad : \A k \in Bad : i =< k
      <4>1. Bad \in SUBSET (0 .. Len(q))
        OBVIOUS
      <4> HIDE DEF Bad
      <4>2. QED
        BY <1>0, <2>1, <4>1, Least
    <3>2. i # 0
      BY <1>1, <1>4, <3>1 DEF Sums
    <3>3. i \in 1 .. Len(q) /\ i - 1 \in 0 .. Len(q) /\ i - 1 \notin Bad
      BY <1>0, <3>1, <3>2
    <3>4. t[i - 1] = g[i - 1]
      BY <3>3
    <3>5. QED
      BY <1>1, <1>4, <3>1, <3>3, <3>4 DEF Sums
  <2>2. QED
    BY <2>1
<1>6. t \in [0 .. Len(q) -> Nat]
  <2>1. g \in [0 .. Len(q) -> Nat]
    BY <1>1 DEF Sums
  <2>2. t = [n \in 0 .. Len(q) |-> t[n]]
    BY <1>3 DEF t
  <2>3. QED
    BY <1>5, <2>1, <2>2
<1>7. QED
  BY <1>4, <1>6 DEF Sums, t

\* The empty queue holds no bytes, and the sum is a number.
LEMMA TotalNumber ==
    ASSUME NEW q \in Seq(Frame)
    PROVE  Total(q) \in Nat /\ (q = <<>> => Total(q) = 0)
<1>1. Sums(q, Len(q), Totals(q)) /\ Len(q) \in Nat
  BY TotalsSum, LenProperties
<1>2. Len(q) \in 0 .. Len(q) /\ (q = <<>> => Len(q) = 0)
  BY <1>1
<1>3. QED
  BY <1>1, <1>2 DEF Sums, Total

\* A frame more: its size more.
LEMMA TotalAppend ==
    ASSUME NEW q \in Seq(Frame), NEW f \in Frame
    PROVE  Total(Append(q, f)) = Total(q) + Size[f]
<1> DEFINE r == Append(q, f)
           n == Len(q)
<1>1. /\ r \in Seq(Frame) /\ Len(r) = n + 1 /\ n \in Nat /\ r[n + 1] = f
      /\ \A i \in 1 .. n : r[i] = q[i]
  BY AppendProperties, LenProperties
<1> HIDE DEF r, n
<1>2. Sums(r, n + 1, Totals(r)) /\ Sums(q, n, Totals(q))
  BY <1>1, TotalsSum DEF n
<1> DEFINE h == [i \in 0 .. n |-> Totals(r)[i]]
<1>3. Sums(q, n, h)
  <2>1. \A i \in 0 .. n : h[i] = Totals(r)[i] /\ Totals(r)[i] \in Nat
    BY <1>1, <1>2 DEF Sums
  <2>2. h \in [0 .. n -> Nat] /\ h[0] = 0
    BY <1>1, <1>2, <2>1 DEF Sums
  <2>3. \A i \in 1 .. n : h[i] = h[i - 1] + Size[q[i]]
    <3>1. \A i \in 1 .. n : i \in 1 .. n + 1 /\ i \in 0 .. n /\ i - 1 \in 0 .. n
      BY <1>1
    <3>2. QED
      BY <1>1, <1>2, <2>1, <3>1 DEF Sums
  <2> HIDE DEF h
  <2>4. QED
    BY <2>2, <2>3 DEF Sums
<1>4. h[n] = Totals(q)[n]
  <2>1. n \in 0 .. n
    BY <1>1
  <2> HIDE DEF h
  <2>2. QED
    BY <1>1, <1>2, <1>3, <2>1, SumsUnique
<1>5. Totals(r)[n + 1] = Totals(r)[n] + Size[f]
  BY <1>1, <1>2 DEF Sums
<1>6. h[n] = Totals(r)[n]
  BY <1>1
<1>7. QED
  BY <1>1, <1>4, <1>5, <1>6 DEF Total, r, n

\* The first frame less: its size less.
LEMMA TotalTail ==
    ASSUME NEW q \in Seq(Frame), q # <<>>
    PROVE  Total(q) = Total(Tail(q)) + Size[Head(q)]
<1> DEFINE r == Tail(q)
           n == Len(q)
<1>1. /\ r \in Seq(Frame) /\ Len(r) = n - 1 /\ n \in Nat /\ n >= 1 /\ Head(q) = q[1]
      /\ Head(q) \in Frame
      /\ \A i \in 1 .. n - 1 : r[i] = q[i + 1]
  <2>1. Len(q) \in Nat /\ Len(q) # 0
    BY LenProperties, EmptySeq
  <2>2. QED
    BY <2>1, HeadTailProperties
<1> HIDE DEF r, n
<1>2. Sums(q, n, Totals(q)) /\ Sums(r, n - 1, Totals(r)) /\ n - 1 \in Nat
  BY <1>1, TotalsSum DEF n
<1>3. Size[Head(q)] \in Nat
  BY <1>1, QueueAssumption
<1> DEFINE h == [i \in 0 .. n |-> IF i = 0 THEN 0 ELSE Totals(r)[i - 1] + Size[Head(q)]]
<1>4. Sums(q, n, h)
  <2>1. \A i \in 0 .. n - 1 : Totals(r)[i] \in Nat
    BY <1>2 DEF Sums
  <2>2. \A i \in 1 .. n : h[i] = Totals(r)[i - 1] + Size[Head(q)] /\ i - 1 \in 0 .. n - 1
    BY <1>1
  <2>3. h \in [0 .. n -> Nat] /\ h[0] = 0
    BY <1>1, <1>3, <2>1, <2>2
  <2>4. ASSUME NEW i \in 1 .. n
        PROVE  h[i] = h[i - 1] + Size[q[i]]
    <3>1. CASE i = 1
      <4>1. Totals(r)[0] = 0 /\ 1 \in 1 .. n
        BY <1>1, <1>2 DEF Sums
      <4>2. h[1] = Size[Head(q)]
        BY <1>3, <2>2, <4>1
      <4>3. QED
        BY <1>1, <1>3, <2>3, <3>1, <4>2
    <3>2. CASE i # 1
      <4>1. i - 1 \in 1 .. n - 1 /\ i - 1 \in 1 .. n /\ (i - 1) - 1 \in 0 .. n - 1
            /\ (i - 1) + 1 = i
        BY <1>1, <3>2
      <4>2. r[i - 1] = q[i]
        BY <1>1, <4>1
      <4>3. Totals(r)[i - 1] = Totals(r)[(i - 1) - 1] + Size[q[i]]
        BY <1>2, <4>1, <4>2 DEF Sums
      <4>4. h[i] = Totals(r)[i - 1] + Size[Head(q)]
            /\ h[i - 1] = Totals(r)[(i - 1) - 1] + Size[Head(q)]
        BY <2>2, <4>1
      <4>5. Size[q[i]] \in Nat
        BY <2>4, QueueAssumption, ElementOfSeq DEF n
      <4>6. Totals(r)[(i - 1) - 1] \in Nat
        BY <2>1, <4>1
      <4>7. QED
        BY <1>3, <4>3, <4>4, <4>5, <4>6
    <3>3. QED
      BY <3>1, <3>2
  <2> HIDE DEF h
  <2>5. QED
    BY <2>3, <2>4 DEF Sums
<1>5. h[n] = Totals(q)[n]
  <2>1. n \in 0 .. n
    BY <1>1
  <2> HIDE DEF h
  <2>2. QED
    BY <1>1, <1>2, <1>4, <2>1, SumsUnique
<1>6. h[n] = Totals(r)[n - 1] + Size[Head(q)]
  BY <1>1
<1>7. QED
  BY <1>1, <1>5, <1>6 DEF Total, r, n

\* bytes_ is the sum of the sizes of what is queued, and both limits hold.
BytesOK == bytes = Total(entries) /\ Len(entries) =< MaxFrames /\ bytes =< MaxBytes

\* The bytes counted are the bytes queued, whatever is pushed, taken, closed or
\* thrown away, and the queue never passes either of its limits.
THEOREM BytesAreExact == Spec => []BytesExact
<1>1. Init => BytesOK
  <2>1. <<>> \in Seq(Frame) /\ Len(<<>>) = 0
    OBVIOUS
  <2>2. Total(<<>>) = 0
    BY <2>1, TotalNumber
  <2>3. QED
    BY <2>1, <2>2, QueueAssumption DEF Init, BytesOK
<1>2. TypeOK /\ BytesOK /\ [Next]_queueVars => BytesOK'
  <2> SUFFICES ASSUME TypeOK, BytesOK, [Next]_queueVars
               PROVE  BytesOK'
    OBVIOUS
  <2>0. entries \in Seq(Frame) /\ Len(entries) \in Nat
    BY LenProperties DEF TypeOK
  <2>1. CASE entries' = entries /\ bytes' = bytes
    BY <2>1 DEF BytesOK
  <2>2. CASE entries' = <<>> /\ bytes' = 0
    <3>1. <<>> \in Seq(Frame) /\ Len(<<>>) = 0
      OBVIOUS
    <3>2. Total(<<>>) = 0
      BY <3>1, TotalNumber
    <3>3. QED
      BY <2>2, <3>1, <3>2, QueueAssumption DEF BytesOK
  <2>3. ASSUME NEW t \in Thread, NEW f \in Frame, Accept(t, f)
        PROVE  BytesOK'
    <3>1. /\ entries' = Append(entries, f) /\ bytes' = bytes + Size[f]
          /\ Len(entries) + 1 =< MaxFrames /\ bytes + Size[f] =< MaxBytes
      BY <2>3 DEF Accept, Fits
    <3>2. Len(entries') = Len(entries) + 1
      BY <2>0, <3>1, AppendProperties
    <3>3. QED
      BY <2>0, <3>1, <3>2, TotalAppend DEF BytesOK
  <2>4. CASE Take
    <3>1. entries # <<>> /\ entries' = Tail(entries) /\ bytes' = bytes - Size[Head(entries)]
      BY <2>4 DEF Take
    <3>2. Total(entries) = Total(entries') + Size[Head(entries)]
      BY <2>0, <3>1, TotalTail
    <3>3. /\ Len(entries') = Len(entries) - 1 /\ entries' \in Seq(Frame)
          /\ Size[Head(entries)] \in Nat
      BY <2>0, <2>4, <3>1, TakeEffect, QueueAssumption DEF Take
    <3>4. Total(entries') \in Nat
      BY <3>3, TotalNumber
    <3>5. bytes' = Total(entries') /\ bytes' =< bytes /\ bytes \in Nat
      BY <3>1, <3>2, <3>3, <3>4 DEF BytesOK
    <3>6. QED
      BY <2>0, <3>3, <3>5, QueueAssumption DEF BytesOK
  <2>5. QED
    BY <2>1, <2>2, <2>3, <2>4
       DEF Next, WriterStep, ProducerStep, Push, Overflow, Close, Notify, Wait, WakeUp,
           TakeEnd, Write, Return, queueVars
<1>3. BytesOK => BytesExact
  BY DEF BytesOK, BytesExact, Total, Totals
<1>4. QED
  BY <1>1, <1>2, <1>3, TypeCorrect, PTL DEF Spec
=============================================================================
