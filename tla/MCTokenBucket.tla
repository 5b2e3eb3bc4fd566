--------------------------- MODULE MCTokenBucket ---------------------------
(* A user with two connections and a user with one; a burst of 2.5 messages. *)
EXTENDS TokenBucket

CONSTANTS A, B, a1, a2, b1

MCOwner == [c \in Conn |-> IF c = b1 THEN B ELSE A]
=============================================================================
