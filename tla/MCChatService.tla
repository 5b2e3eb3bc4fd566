--------------------------- MODULE MCChatService ---------------------------
(* Small instances of ChatService: user A with two devices, user B with one. *)
EXTENDS ChatService, TLC

CONSTANTS A, B, a1, a2, b1, h1, c1, c2, k1, k2, s1, s2

MCOwner == [w \in Worker |-> IF w = b1 THEN B ELSE A]

\* Only A in every conversation, so that B may join.
MCOnlyA == [c \in Conv |-> {A}]

\* A dm of both, and a palette of A alone.
MCDmAndA == [c \in Conv |-> IF c \in Dm THEN User ELSE {A}]

MCStripeOf == [c \in Conv |-> IF c = c2 THEN s2 ELSE s1]

\* The keys, and the devices of A.
Symmetry == Permutations(Key) \cup Permutations(Conn \ {b1})
=============================================================================
