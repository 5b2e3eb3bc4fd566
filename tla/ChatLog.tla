------------------------------- MODULE ChatLog -------------------------------
(***************************************************************************)
(* What the chat promises the clients, as if there were one log: messages  *)
(* are stored one at a time, each above all earlier ones of its            *)
(* conversation; only the newest of a conversation is ever shown to        *)
(* anybody, once and not after it was deleted; a deletion is announced     *)
(* when it has been made, and a message acknowledged when it is stored.    *)
(***************************************************************************)
EXTENDS Naturals, Sequences

CONSTANTS Conv, Conn, None

VARIABLES
    stored,    \* the messages there are or have been, each [conv, id]
    deleted,   \* those of them that were deleted
    shown      \* what each connection was sent, in order

vars == <<stored, deleted, shown>>

Init == stored = {} /\ deleted = {} /\ shown = [c \in Conn |-> <<>>]

Newest(m) == \A n \in stored : n.conv = m.conv => n.id =< m.id

WasShown(c, m) == \E i \in 1 .. Len(shown[c]) :
                      shown[c][i] = [kind |-> "message", conv |-> m.conv, id |-> m.id]

Tell(c, what, conv, id) ==
    /\ shown' = [shown EXCEPT ![c] = Append(@, [kind |-> what, conv |-> conv, id |-> id])]
    /\ UNCHANGED <<stored, deleted>>

Store ==
    \E m \in stored' \ stored :
        /\ stored' = stored \cup {m}
        /\ \A n \in stored : n.id # m.id /\ (n.conv = m.conv => n.id < m.id)
        /\ UNCHANGED <<deleted, shown>>

Delete(m) ==
    /\ m \notin deleted
    /\ deleted' = deleted \cup {m}
    /\ UNCHANGED <<stored, shown>>

Show(c, m) ==
    /\ m \notin deleted /\ Newest(m) /\ ~ WasShown(c, m)
    /\ Tell(c, "message", m.conv, m.id)

Retract(c, m) == m \in deleted /\ Tell(c, "deleted", m.conv, m.id)

Acknowledge(c, m) == Tell(c, "ack", m.conv, m.id)

Reject(c, conv) == Tell(c, "nack", conv, 0)

Next ==
    \/ Store
    \/ \E m \in stored :
          \/ Delete(m)
          \/ \E c \in Conn : Show(c, m) \/ Retract(c, m) \/ Acknowledge(c, m)
    \/ \E c \in Conn, conv \in Conv \cup {None} : Reject(c, conv)

Spec == Init /\ [][Next]_vars
=============================================================================
