--------------------------- MODULE MCConversations ---------------------------
(* A palette of A to which B and C are invited; all three are allies. *)
EXTENDS Conversations, TLC

CONSTANTS A, B, C

MCFriends == Pair
MCPalettes == <<{A}>>
MCInviter == [i \in 1..1 |-> A]

CallOf(op, me, who, conv) == [op |-> op, me |-> me, who |-> who, conv |-> conv]

MCCalls ==
    {CallOf("dm", A, {B}, None), CallOf("dm", B, {A}, None),
     CallOf("palette", A, {B, C}, None),
     CallOf("invite", A, {B}, 1), CallOf("invite", B, {C}, 1),
     CallOf("accept", B, {}, 1), CallOf("accept", C, {}, 1), CallOf("decline", C, {}, 1)}

Symmetry == Permutations(Thread)
==============================================================================
