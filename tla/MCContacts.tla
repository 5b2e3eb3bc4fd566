----------------------------- MODULE MCContacts -----------------------------
(* Small instances of Contacts: A and B call, C and D are only asked. *)
EXTENDS Contacts, TLC

CONSTANTS A, B, C, D

With(rows) == rows @@ [r \in Row |-> None]

Waiting(t) == [created |-> t, declined |-> None]

MCStrangers == {With(<<>>)}

\* Strangers; a request that waits, and a refused one; a block; a friend and an
\* ally of whose crossed requests one was accepted and the other is still there.
MCPairs == MCStrangers \cup
    {With(Asked(A, B) :> Waiting(0)),
     With(Asked(A, B) :> [created |-> 0, declined |-> 0]),
     With(Contact(A, B) :> "imposter"),
     With(Contact(A, B) :> "friend" @@ Contact(B, A) :> "ally" @@ Asked(A, B) :> Waiting(0))}

Calls(ops, me, other) ==
    {[op |-> op, me |-> me, other |-> other, level |-> "ally"] : op \in ops}
Sets(levels, me, other) ==
    {[op |-> "setLevel", me |-> me, other |-> other, level |-> l] : l \in levels}

\* What A and B may do to each other, and requests of A to C and D: with one to B
\* they are one more than the limit and the two threads allow A to have waiting.
MCCalls == Calls({"request", "refuse", "remove"}, A, B) \cup Sets({"imposter", "ally"}, A, B)
           \cup Calls({"request", "accept", "refuse", "remove"}, B, A) \cup Sets({"imposter"}, B, A)
           \cup Calls({"request"}, A, C) \cup Calls({"request"}, A, D)
=============================================================================
