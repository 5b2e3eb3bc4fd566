--------------------------- MODULE WsSession_proofs ---------------------------
(***************************************************************************)
(* Proofs about WsSession for any senders, frames and limits: a session    *)
(* uses its queue as FrameQueue says, so it has what is proved of the      *)
(* queue; and nothing happens on a socket once it is gone.                 *)
(***************************************************************************)
EXTENDS WsSession, TLAPS

\* The reader and the senders use the queue as FrameQueue says: every step of a
\* session is a step of its queue or leaves the queue alone, so that what is
\* proved of FrameQueue holds of every session.
THEOREM SessionUsesQueue == Spec => QueueSpec
<1>1. Init => Queue!Init
  BY DEF Init
<1>2. [Next]_vars => [Queue!Next]_queueVars
  <2> SUFFICES ASSUME [Next]_vars
               PROVE  [Queue!Next]_queueVars
    OBVIOUS
  <2>1. CASE UNCHANGED queueVars
    BY <2>1
  <2>2. ASSUME NEW t \in Thread, NEW f \in Frame, Queue!Push(t, f)
        PROVE  Queue!Next
    BY <2>2 DEF Queue!Next, Queue!ProducerStep
  <2>3. ASSUME NEW t \in Thread, Queue!Close(t) \/ Queue!Notify(t)
        PROVE  Queue!Next
    BY <2>3 DEF Queue!Next, Queue!ProducerStep
  <2>4. ASSUME Queue!Wait \/ Queue!Take \/ Queue!TakeEnd \/ Queue!Write \/ Queue!Return \/ Queue!WakeUp
        PROVE  Queue!Next
    BY <2>4 DEF Queue!Next, Queue!WriterStep
  <2>5. Reader \in Thread /\ \A s \in Sender : s \in Thread
    BY DEF Thread
  <2>6. QED
    BY <2>1, <2>2, <2>3, <2>4, <2>5
       DEF Next, vars, Register, OnClose, Drain, Break, WakeUp, Answer, Resolve, Release, Send,
           Notify, Teardown, ReadFails, Unlist, Shutdown, Join, WriterStep, WriterWaits,
           WritesFrame, WriterReturns
<1>3. QED
  BY <1>1, <1>2, PTL DEF Spec, QueueSpec, Queue!Spec, queueVars, Queue!queueVars

\* By the time the reader joins, the queue is closed, and by the time the socket
\* is gone the writer has returned.
EndOK ==
    /\ session \in {"joining", "gone"} => closed
    /\ session = "gone" => writer = "returned"

\* What the writer and the queue's own steps never undo.
LEMMA Ended ==
    ASSUME [Next]_vars
    PROVE  /\ closed => closed'
           /\ writer = "returned" => writer' = "returned"
BY DEF Next, vars, queueVars, Register, OnClose, Drain, Break, WakeUp, Answer, Resolve, Release, Send,
       Notify, Teardown, ReadFails, Unlist, Shutdown, Join, WriterStep, WriterWaits,
       WritesFrame, WriterReturns, Queue!Push, Queue!Accept, Queue!Overflow, Queue!Close,
       Queue!Notify, Queue!Wait, Queue!Take, Queue!TakeEnd, Queue!Write, Queue!Return,
       Queue!WakeUp

\* Teardown closes the queue, then waits for the writer.
LEMMA EndCorrect == Spec => []EndOK
<1>1. Init => EndOK
  BY DEF Init, EndOK
<1>2. EndOK /\ [Next]_vars => EndOK'
  <2> SUFFICES ASSUME EndOK, [Next]_vars
               PROVE  EndOK'
    OBVIOUS
  <2>1. \/ session' = session
        \/ session' \notin {"joining", "gone"}
        \/ Shutdown
        \/ Join
    BY DEF Next, vars, sessionVars, Register, OnClose, Drain, Break, WakeUp, Answer, Resolve, Release,
           Send, Notify, Teardown, ReadFails, Unlist, WriterStep, WriterWaits, WritesFrame,
           WriterReturns
  <2>2. CASE Shutdown
    BY <2>2 DEF Shutdown, Queue!Close, EndOK
  <2>3. CASE Join
    BY <2>3, Ended DEF Join, EndOK
  <2>4. QED
    BY <2>1, <2>2, <2>3, Ended DEF EndOK
<1>3. QED
  BY <1>1, <1>2, PTL DEF Spec

\* Once the socket is destroyed nothing more is written to it, and nothing more is
\* accepted for it, though senders may still hold the session.
THEOREM SessionQuiet == Spec => QuietAfterTeardown
<1>1. EndOK /\ [Next]_vars => [session = "gone" => UNCHANGED <<accepted, wire>>]_vars
  <2> SUFFICES ASSUME closed, writer = "returned", [Next]_vars
               PROVE  UNCHANGED <<accepted, wire>>
    BY DEF EndOK
  <2>1. QED
    BY DEF Next, vars, queueVars, Register, OnClose, Drain, Break, WakeUp, Answer, Resolve, Release, Send,
           Notify, Teardown, ReadFails, Unlist, Shutdown, Join, WriterStep, WriterWaits,
           WritesFrame, WriterReturns, Queue!Push, Queue!Accept, Queue!Overflow, Queue!Close,
           Queue!Notify, Queue!Wait, Queue!Take, Queue!TakeEnd, Queue!Write, Queue!Return,
           Queue!WakeUp
<1>2. QED
  BY <1>1, EndCorrect, PTL DEF Spec, QuietAfterTeardown
-----------------------------------------------------------------------------
(* What is proved of every queue, of the queue of a session *)

QueueProofs == INSTANCE FrameQueue_proofs

\* The two instances are of the same specification.
LEMMA SameQueue == QueueSpec => QueueProofs!Spec
<1>1. Queue!Init => QueueProofs!Init
  BY DEF Queue!Init, QueueProofs!Init
<1>2. [Queue!Next]_queueVars => [QueueProofs!Next]_QueueProofs!queueVars
  <2> USE DEF queueVars, QueueProofs!queueVars
  <2>1. Queue!WakeUp => QueueProofs!WakeUp
    BY DEF Queue!WakeUp, QueueProofs!WakeUp
  <2>2. Queue!WriterStep => QueueProofs!WriterStep
    BY DEF Queue!WriterStep, Queue!Wait, Queue!Take, Queue!TakeEnd, Queue!Write, Queue!Return,
           Queue!Ready, QueueProofs!WriterStep, QueueProofs!Wait, QueueProofs!Take,
           QueueProofs!TakeEnd, QueueProofs!Write, QueueProofs!Return, QueueProofs!Ready
  <2>3. ASSUME NEW t \in Thread, Queue!ProducerStep(t)
        PROVE  QueueProofs!ProducerStep(t)
    <3>1. ASSUME NEW f \in Frame, Queue!Push(t, f) PROVE QueueProofs!Push(t, f)
      BY <3>1 DEF Queue!Push, Queue!Accept, Queue!Overflow, Queue!Fits, QueueProofs!Push,
                  QueueProofs!Accept, QueueProofs!Overflow, QueueProofs!Fits
    <3>2. Queue!Close(t) \/ Queue!Notify(t) => QueueProofs!Close(t) \/ QueueProofs!Notify(t)
      BY DEF Queue!Close, Queue!Notify, QueueProofs!Close, QueueProofs!Notify
    <3>3. QED
      BY <2>3, <3>1, <3>2 DEF Queue!ProducerStep, QueueProofs!ProducerStep
  <2>4. QED
    BY <2>1, <2>2, <2>3 DEF Queue!Next, QueueProofs!Next
<1>3. QED
  BY <1>1, <1>2, PTL DEF QueueSpec, Queue!Spec, QueueProofs!Spec, queueVars, Queue!queueVars,
     QueueProofs!queueVars

LEMMA QueueTyped == QueueSpec => []Queue!TypeOK
<1>1. Queue!QueueAssumption
  BY QueueAssumption DEF Queue!QueueAssumption
<1>2. QueueProofs!Spec => []QueueProofs!TypeOK
  BY <1>1, QueueProofs!TypeCorrect
<1>3. QueueProofs!TypeOK => Queue!TypeOK
  BY DEF Queue!TypeOK, QueueProofs!TypeOK
<1>4. QED
  BY <1>2, <1>3, SameQueue, PTL

\* Every variable has its type, those of the queue and those of the session.
THEOREM SessionTyped == Spec => []TypeOK
<1> DEFINE SessionOK ==
      /\ session \in {"created", "open", "ended", "unlisted", "joining", "gone"}
      /\ inHub \in BOOLEAN
      /\ hold \in [Sender -> {"none", "held", "sent"}]
      /\ link \in {"up", "full", "broken"}
<1>1. Init => SessionOK
  BY DEF Init
<1>2. SessionOK /\ [Next]_vars => SessionOK'
  BY DEF Next, vars, sessionVars, Register, OnClose, Drain, Break, WakeUp, Answer, Resolve, Release, Send,
         Notify, Teardown, ReadFails, Unlist, Shutdown, Join, WriterStep, WriterWaits,
         WritesFrame, WriterReturns
<1>3. SessionOK /\ Queue!TypeOK => TypeOK
  BY DEF TypeOK
<1> HIDE DEF SessionOK
<1>4. QED
  BY <1>1, <1>2, <1>3, SessionUsesQueue, QueueTyped, PTL DEF Spec

\* What is proved of the queue holds of the queue of a session.
LEMMA QueuePromises == Spec => [](NothingDropped /\ BytesExact) /\ StreamSpec
<1>1. Queue!QueueAssumption
  BY QueueAssumption DEF Queue!QueueAssumption
<1>2. QueueProofs!Spec => []QueueProofs!NothingDropped /\ []QueueProofs!BytesExact /\ QueueProofs!StreamSpec
  BY <1>1, QueueProofs!NothingIsDropped, QueueProofs!BytesAreExact, QueueProofs!QueueIsStream, PTL
<1>3. QueueProofs!NothingDropped => NothingDropped
  BY DEF NothingDropped, Queue!NothingDropped, QueueProofs!NothingDropped
<1>4. QueueProofs!BytesExact => BytesExact
  BY DEF BytesExact, Queue!BytesExact, QueueProofs!BytesExact
<1>5. QueueProofs!Stream!Init => Queue!Stream!Init
  BY DEF Queue!Stream!Init, QueueProofs!Stream!Init
<1>6. [QueueProofs!Stream!Next]_QueueProofs!Stream!vars => [Queue!Stream!Next]_Queue!Stream!vars
  BY DEF Queue!Stream!Next, QueueProofs!Stream!Next, Queue!Stream!vars, QueueProofs!Stream!vars,
         Queue!Stream!Accept, QueueProofs!Stream!Accept, Queue!Stream!Receive,
         QueueProofs!Stream!Receive, Queue!Stream!Cut, QueueProofs!Stream!Cut
<1>7. QueueProofs!StreamSpec => StreamSpec
  BY <1>5, <1>6, PTL DEF StreamSpec, Queue!StreamSpec, QueueProofs!StreamSpec, Queue!Stream!Spec,
     QueueProofs!Stream!Spec
<1>8. QED
  BY <1>2, <1>3, <1>4, <1>7, SameQueue, SessionUsesQueue, PTL

\* No frame that a session's queue accepted is dropped before the connection is cut,
\* whichever of the reader and the senders put it there.
THEOREM SessionDropsNothing == Spec => []NothingDropped
BY QueuePromises, PTL

\* The bytes of the frames a session has queued are counted exactly, and both
\* limits hold, whoever pushes and whatever is thrown away.
THEOREM SessionCountsBytes == Spec => []BytesExact
BY QueuePromises, PTL

\* The peer of a session is sent a prefix of what was accepted for it.
THEOREM SessionIsStream == Spec => StreamSpec
BY QueuePromises
=============================================================================
