----------------------------- MODULE FrameLimits -----------------------------
(* What a queue of frames is made with: the frames, their sizes, its limits. *)
EXTENDS Naturals

CONSTANTS
    Frame,      \* text frames and pongs: they share the queue and its limits
    Size,       \* [Frame -> Nat], data.size()
    MaxFrames,  \* max_frames_
    MaxBytes,   \* max_bytes_
    None,
    MaxPushes   \* bound: frames accepted

ASSUME QueueAssumption ==
    /\ Size \in [Frame -> Nat] /\ None \notin Frame
    /\ MaxFrames \in Nat /\ MaxBytes \in Nat /\ MaxPushes \in Nat
=============================================================================
