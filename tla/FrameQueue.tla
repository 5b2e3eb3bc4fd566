------------------------------ MODULE FrameQueue ------------------------------
(***************************************************************************)
(* BoundedFrameQueue and the writer thread that drains it                  *)
(* (WsSession::writerLoop), for one connection.  Any thread may push or    *)
(* close.  A critical section of the queue is one step; the notify that    *)
(* follows the unlock is another, so that a wakeup can come late, and the  *)
(* condition variable may also wake the writer for no reason.              *)
(***************************************************************************)
EXTENDS FrameLimits, Integers, Sequences

CONSTANT Thread     \* the threads that push and close

VARIABLES
    entries,    \* entries_
    bytes,      \* bytes_
    overflowed, \* overflowed_
    closed,     \* closed_
    owing,      \* the threads between their unlock and their notify
    writer,     \* the writer thread: about to pop, waiting, holding an item, returned
    hand,       \* the frame pop returned, None between two of them
    accepted,   \* history: the frames enqueue accepted
    wire        \* history: the frames written to the socket

queueVars == <<entries, bytes, overflowed, closed, owing, writer, hand, accepted, wire>>

Init ==
    /\ entries = <<>> /\ bytes = 0
    /\ overflowed = FALSE /\ closed = FALSE
    /\ owing = {}
    /\ writer = "popping" /\ hand = None
    /\ accepted = <<>> /\ wire = <<>>

-----------------------------------------------------------------------------
(* enqueue *)

Fits(f) == Len(entries) + 1 =< MaxFrames /\ bytes + Size[f] =< MaxBytes

\* mutant: a push does not wake a writer that is waiting.
AcceptQuietly(t, f) ==
    /\ t \notin owing
    /\ ~closed /\ ~overflowed /\ Fits(f)
    /\ Len(accepted) < MaxPushes
    /\ entries' = Append(entries, f)
    /\ bytes' = bytes + Size[f]
    /\ accepted' = Append(accepted, f)
    /\ owing' = IF writer = "waiting" THEN owing ELSE owing \cup {t}
    /\ UNCHANGED <<overflowed, closed, writer, hand, wire>>

Accept(t, f) ==
    /\ t \notin owing
    /\ ~closed /\ ~overflowed /\ Fits(f)
    /\ Len(accepted) < MaxPushes
    /\ entries' = Append(entries, f)
    /\ bytes' = bytes + Size[f]
    /\ accepted' = Append(accepted, f)
    /\ owing' = owing \cup {t}
    /\ UNCHANGED <<overflowed, closed, writer, hand, wire>>

\* mutant: the overflow drops the oldest frame and carries on.
OverflowDropOne(t, f) ==
    /\ t \notin owing
    /\ ~closed /\ ~overflowed /\ ~Fits(f) /\ entries # <<>>
    /\ entries' = Tail(entries)
    /\ bytes' = bytes - Size[Head(entries)]
    /\ owing' = owing \cup {t}
    /\ UNCHANGED <<overflowed, closed, writer, hand, accepted, wire>>

\* The frame that does not fit throws everything away.
Overflow(t, f) ==
    /\ t \notin owing
    /\ ~closed /\ ~overflowed /\ ~Fits(f)
    /\ overflowed' = TRUE
    /\ entries' = <<>> /\ bytes' = 0
    /\ owing' = owing \cup {t}
    /\ UNCHANGED <<closed, writer, hand, accepted, wire>>

\* A push to a closed or an overflowed queue changes nothing.
Push(t, f) == Accept(t, f) \/ Overflow(t, f)

\* mutant: closing does not wake the writer.
CloseQuietly(t) ==
    /\ t \notin owing
    /\ closed' = TRUE
    /\ entries' = <<>> /\ bytes' = 0
    /\ UNCHANGED <<overflowed, owing, writer, hand, accepted, wire>>

Close(t) ==
    /\ t \notin owing
    /\ closed' = TRUE
    /\ entries' = <<>> /\ bytes' = 0
    /\ owing' = owing \cup {t}
    /\ UNCHANGED <<overflowed, writer, hand, accepted, wire>>

\* notify_one and notify_all: only the writer ever waits.
Notify(t) ==
    /\ t \in owing
    /\ owing' = owing \ {t}
    /\ writer' = IF writer = "waiting" THEN "popping" ELSE writer
    /\ UNCHANGED <<entries, bytes, overflowed, closed, hand, accepted, wire>>

-----------------------------------------------------------------------------
(* The writer *)

\* The predicate of the wait.
Ready == closed \/ overflowed \/ entries # <<>>

Wait ==
    /\ writer = "popping" /\ ~Ready
    /\ writer' = "waiting"
    /\ UNCHANGED <<entries, bytes, overflowed, closed, owing, hand, accepted, wire>>

WakeUp ==
    /\ writer = "waiting"
    /\ writer' = "popping"
    /\ UNCHANGED <<entries, bytes, overflowed, closed, owing, hand, accepted, wire>>

\* mutant: the newest frame is taken.
TakeLast ==
    /\ writer = "popping" /\ ~closed /\ ~overflowed /\ entries # <<>>
    /\ hand' = entries[Len(entries)]
    /\ entries' = SubSeq(entries, 1, Len(entries) - 1)
    /\ bytes' = bytes - Size[entries[Len(entries)]]
    /\ writer' = "sending"
    /\ UNCHANGED <<overflowed, closed, owing, accepted, wire>>

\* mutant: the bytes of a frame that was taken stay counted.
TakeUncounted ==
    /\ writer = "popping" /\ ~closed /\ ~overflowed /\ entries # <<>>
    /\ hand' = Head(entries)
    /\ entries' = Tail(entries)
    /\ writer' = "sending"
    /\ UNCHANGED <<bytes, overflowed, closed, owing, accepted, wire>>

Take ==
    /\ writer = "popping" /\ ~closed /\ ~overflowed /\ entries # <<>>
    /\ hand' = Head(entries)
    /\ entries' = Tail(entries)
    /\ bytes' = bytes - Size[Head(entries)]
    /\ writer' = "sending"
    /\ UNCHANGED <<overflowed, closed, owing, accepted, wire>>

\* pop returns Closed, or Overflow, for which the writer sends the close frame.
TakeEnd ==
    /\ writer = "popping"
    /\ closed \/ overflowed
    /\ writer' = IF closed THEN "returned" ELSE "closing"
    /\ UNCHANGED <<entries, bytes, overflowed, closed, owing, hand, accepted, wire>>

\* sendOneFrameText or sendPong.
Write ==
    /\ writer = "sending"
    /\ wire' = Append(wire, hand)
    /\ hand' = None
    /\ writer' = "popping"
    /\ UNCHANGED <<entries, bytes, overflowed, closed, owing, accepted>>

\* sendClose(1013), or a write that throws: the writer returns.
Return ==
    /\ writer \in {"sending", "closing"}
    /\ writer' = "returned"
    /\ hand' = None
    /\ UNCHANGED <<entries, bytes, overflowed, closed, owing, accepted, wire>>

-----------------------------------------------------------------------------

ProducerStep(t) == (\E f \in Frame : Push(t, f)) \/ Close(t) \/ Notify(t)

WriterStep == Wait \/ Take \/ TakeEnd \/ Write \/ Return

Next == WakeUp \/ WriterStep \/ \E t \in Thread : ProducerStep(t)

Spec == Init /\ [][Next]_queueVars

-----------------------------------------------------------------------------
(* What must hold *)

\* Type correctness.
TypeOK ==
    /\ entries \in Seq(Frame) /\ bytes \in Int
    /\ overflowed \in BOOLEAN /\ closed \in BOOLEAN
    /\ owing \subseteq Thread
    /\ writer \in {"popping", "waiting", "sending", "closing", "returned"}
    /\ hand \in Frame \cup {None}
    /\ writer = "sending" <=> hand # None
    /\ accepted \in Seq(Frame) /\ wire \in Seq(Frame)

\* "Nothing is ever dropped silently": until the connection is cut, every
\* accepted frame is written, being written or queued, in order.
NothingDropped ==
    ~closed /\ ~overflowed /\ writer # "returned" =>
        accepted = wire \o (IF writer = "sending" THEN <<hand>> ELSE <<>>) \o entries

\* bytes_ counts what is queued, and the queue stays within both limits.
BytesExact ==
    LET total[n \in 0 .. Len(entries)] ==
            IF n = 0 THEN 0 ELSE total[n - 1] + Size[entries[n]]
    IN  /\ bytes = total[Len(entries)]
        /\ Len(entries) =< MaxFrames /\ bytes =< MaxBytes

\* A connection delivers a prefix of what it accepted, whatever is pushed, closed
\* or overflowing meanwhile.
Stream == INSTANCE FrameStream WITH received <- wire, cut <- closed \/ overflowed

StreamSpec == Stream!Spec
=============================================================================
