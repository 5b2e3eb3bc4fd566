------------------------------ MODULE WsSession ------------------------------
(***************************************************************************)
(* The life of one WebSocket session: the reader is the connection's       *)
(* thread of the server, which runs SessionFactory::onAfterCreate, the     *)
(* listener callbacks and onBeforeDestroy, and then destroys the socket;   *)
(* the writer drains the queue (module FrameQueue); senders are threads    *)
(* that fan an event out through ConnectionHub.                            *)
(***************************************************************************)
EXTENDS FrameLimits, Integers, Sequences

CONSTANTS
    Reader,     \* the thread of the connection
    Sender      \* the threads that publish events

Thread == Sender \cup {Reader}

ASSUME SessionAssumption == Reader \notin Sender

VARIABLES
    entries, bytes, overflowed, closed, owing, writer, hand, accepted, wire,
    session,    \* how far the reader has come
    inHub,      \* the hub's list names the session
    hold,       \* what each sender does with the session
    link        \* the TCP connection: its send buffer has room, is full, or all is over

queueVars == <<entries, bytes, overflowed, closed, owing, writer, hand, accepted, wire>>
sessionVars == <<session, inHub, hold, link>>
vars == <<queueVars, sessionVars>>

Queue == INSTANCE FrameQueue

Init ==
    /\ Queue!Init
    /\ session = "created" /\ inHub = FALSE
    /\ hold = [s \in Sender |-> "none"]
    /\ link = "up"

-----------------------------------------------------------------------------
(* The reader *)

\* The end of onAfterCreate: the session is in the hub, the reader starts to listen.
Register ==
    /\ session = "created"
    /\ session' = "open" /\ inHub' = TRUE
    /\ UNCHANGED <<queueVars, hold, link>>

\* mutant: the reader answers a ping on the socket itself.
AnswerDirectly(f) ==
    /\ session = "open" /\ Reader \notin owing
    /\ link = "up" /\ Len(wire) < MaxPushes
    /\ wire' = Append(wire, f)
    /\ UNCHANGED <<entries, bytes, overflowed, closed, owing, writer, hand, accepted, sessionVars>>

\* An ack, a nack or a pong goes into the session's own queue.
Answer(f) ==
    /\ session = "open"
    /\ Queue!Push(Reader, f)
    /\ UNCHANGED sessionVars

\* onClose: the peer closes, or answers the close frame of an overflow.
OnClose ==
    /\ session = "open" /\ link # "broken"
    /\ Queue!Close(Reader)
    /\ session' = "ended"
    /\ UNCHANGED <<inHub, hold, link>>

ReadFails ==
    /\ session = "open" /\ link = "broken"
    /\ Reader \notin owing
    /\ session' = "ended"
    /\ UNCHANGED <<queueVars, inHub, hold, link>>

\* onBeforeDestroy: ConnectionHub::remove ...
Unlist ==
    /\ session = "ended" /\ Reader \notin owing
    /\ session' = "unlisted" /\ inHub' = FALSE
    /\ UNCHANGED <<queueVars, hold, link>>

\* mutant: shutdown trusts that onClose has closed the queue.
ShutdownWithoutClose ==
    /\ session = "unlisted"
    /\ session' = "joining"
    /\ UNCHANGED <<queueVars, inHub, hold, link>>

\* ... then WsSession::shutdown, which closes the queue ...
Shutdown ==
    /\ session = "unlisted"
    /\ Queue!Close(Reader)
    /\ session' = "joining"
    /\ UNCHANGED <<inHub, hold, link>>

\* ... and joins the writer; then the server destroys the socket.
Join ==
    /\ session = "joining" /\ Reader \notin owing
    /\ writer = "returned"
    /\ session' = "gone"
    /\ UNCHANGED <<queueVars, inHub, hold, link>>

-----------------------------------------------------------------------------
(* The senders: ConnectionHub::resolve, then send without the hub's lock *)

Resolve(s) ==
    /\ hold[s] = "none" /\ inHub
    /\ hold' = [hold EXCEPT ![s] = "held"]
    /\ UNCHANGED <<queueVars, session, inHub, link>>

Send(s, f) ==
    /\ hold[s] = "held"
    /\ \/ Queue!Push(s, f)
       \/ (closed \/ overflowed) /\ UNCHANGED queueVars
    /\ hold' = [hold EXCEPT ![s] = "sent"]
    /\ UNCHANGED <<session, inHub, link>>

\* The shared_ptr is dropped.
Release(s) ==
    /\ hold[s] = "sent" /\ s \notin owing
    /\ hold' = [hold EXCEPT ![s] = "none"]
    /\ UNCHANGED <<queueVars, session, inHub, link>>

Notify(t) == Queue!Notify(t) /\ UNCHANGED sessionVars

-----------------------------------------------------------------------------
(* The writer and the connection *)

\* sendOneFrameText and sendPong block until the send buffer has taken the
\* frame, which may leave no room for the next one.
WritesFrame ==
    /\ link = "up"
    /\ Queue!Write
    /\ link' \in {"up", "full"}
    /\ UNCHANGED <<session, inHub, hold>>

\* The close frame is sent, or a write throws because the connection is broken.
WriterReturns ==
    /\ (writer = "closing" /\ link = "up") \/ link = "broken"
    /\ Queue!Return
    /\ UNCHANGED sessionVars

WriterWaits ==
    /\ Queue!Wait \/ Queue!Take \/ Queue!TakeEnd
    /\ UNCHANGED sessionVars

WakeUp == Queue!WakeUp /\ UNCHANGED sessionVars

\* The peer reads what it was sent.
Drain ==
    /\ link = "full"
    /\ link' = "up"
    /\ UNCHANGED <<queueVars, session, inHub, hold>>

Break ==
    /\ link # "broken"
    /\ link' = "broken"
    /\ UNCHANGED <<queueVars, session, inHub, hold>>

-----------------------------------------------------------------------------

Teardown == ReadFails \/ Unlist \/ Shutdown \/ Join

WriterStep == WriterWaits \/ WritesFrame \/ WriterReturns

Next ==
    \/ Register \/ OnClose \/ Drain \/ Break \/ WakeUp
    \/ \E f \in Frame : Answer(f)
    \/ \E s \in Sender : Resolve(s) \/ Release(s) \/ \E f \in Frame : Send(s, f)
    \/ \E t \in Thread : Notify(t)
    \/ Teardown \/ WriterStep

Spec == Init /\ [][Next]_vars

\* The reader goes on with what it has begun and notices a broken connection, the
\* writer goes on unless it is blocked in a write, and a thread that owes a notify
\* gives it.  Nobody has to send, the connection need not break, and the peer need
\* neither close nor read.
FairSpec ==
    /\ Spec
    /\ WF_vars(Teardown)
    /\ WF_vars(WriterStep)
    /\ \A t \in Thread : WF_vars(Notify(t))

-----------------------------------------------------------------------------
(* What must hold *)

\* Type correctness.
TypeOK ==
    /\ Queue!TypeOK
    /\ session \in {"created", "open", "ended", "unlisted", "joining", "gone"}
    /\ inHub \in BOOLEAN
    /\ hold \in [Sender -> {"none", "held", "sent"}]
    /\ link \in {"up", "full", "broken"}

\* Whatever the reader and the senders do, the queue is used as its own
\* specification says: only the writer puts frames on the socket.
QueueSpec == Queue!Spec

\* What FrameQueue promises holds of the queue of a session: nothing accepted is
\* dropped before the connection is cut ...
NothingDropped == Queue!NothingDropped

\* ... the bytes counted are the bytes queued, within both limits ...
BytesExact == Queue!BytesExact

\* ... and the peer is sent a prefix of what was accepted.
StreamSpec == Queue!StreamSpec

\* "Must run before the socket is destroyed, because the writer holds a raw
\* pointer to it": from then on nothing is written to the socket and nothing is
\* accepted for it, although senders may still hold the session.
QuietAfterTeardown == [][session = "gone" => UNCHANGED <<accepted, wire>>]_vars

\* The socket has no write timeout: the writer waits for a peer that does not
\* read, and whoever waits for the writer waits with it.  A peer that does:
PeerReads == []<>(link # "full")

\* No wakeup is lost: an accepted frame is written unless the connection is cut.
EveryFrameServed ==
    PeerReads => \A n \in 1 .. MaxPushes :
        Len(accepted) >= n ~> Len(wire) >= n \/ closed \/ overflowed \/ writer = "returned"

\* A writer that sleeps when the queue is closed or overflows wakes up and returns.
WriterEnds == PeerReads => (closed \/ overflowed ~> writer = "returned")

\* onBeforeDestroy never hangs in the join, whether or not onClose ran before it.
TeardownEnds == PeerReads => (session = "ended" ~> session = "gone")
=============================================================================
