----------------------------- MODULE FrameStream -----------------------------
(***************************************************************************)
(* What one WebSocket connection promises to whoever sends on it: the peer *)
(* receives the accepted frames in order, each once, none left out before  *)
(* another one - a prefix of what was accepted.  The connection may be cut *)
(* at any moment; from then on nothing is accepted, and the peer catches   *)
(* up on another connection.                                               *)
(***************************************************************************)
EXTENDS Naturals, Sequences

CONSTANT Frame

VARIABLES
    accepted,   \* the frames taken for delivery, in order
    received,   \* the frames the peer was sent
    cut         \* nothing more is accepted

vars == <<accepted, received, cut>>

Init == accepted = <<>> /\ received = <<>> /\ cut = FALSE

Accept(f) ==
    /\ ~cut
    /\ accepted' = Append(accepted, f)
    /\ UNCHANGED <<received, cut>>

Receive ==
    /\ Len(received) < Len(accepted)
    /\ received' = Append(received, accepted[Len(received) + 1])
    /\ UNCHANGED <<accepted, cut>>

Cut == cut' = TRUE /\ UNCHANGED <<accepted, received>>

Next == Receive \/ Cut \/ \E f \in Frame : Accept(f)

Spec == Init /\ [][Next]_vars
=============================================================================
