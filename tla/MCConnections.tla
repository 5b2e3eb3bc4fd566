---------------------------- MODULE MCConnections ----------------------------
(* A is connected twice, B once, and A may sign in and connect again. *)
EXTENDS Connections, TLC

CONSTANTS A, B, s, t1, t2, t3, t4, c1, c2, c3, c4

MCOwner == t1 :> A @@ t2 :> B
MCOpen == c1 :> t1 @@ c2 :> t1 @@ c3 :> t2

CallOf(op, user, state, token, to) ==
    [op |-> op, user |-> user, state |-> state, token |-> token, to |-> to]

MCCalls == {CallOf("return", A, s, None, None), CallOf("return", A, None, None, None),
            CallOf("poll", None, s, None, None),
            CallOf("logout", None, None, t1, None),
            CallOf("upgrade", None, None, t1, None), CallOf("upgrade", None, None, t3, None),
            CallOf("call", None, None, t1, B), CallOf("call", None, None, t2, A),
            CallOf("signal", None, None, None, A)}

Symmetry == Permutations(Thread)
==============================================================================
