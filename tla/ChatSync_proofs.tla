---------------------------- MODULE ChatSync_proofs ----------------------------
(***************************************************************************)
(* Proofs about ChatSync for any page size, any number of messages and any *)
(* bounds: its types; that the range a device keeps has no holes and ends  *)
(* where it says it does; and, as long as a deletion takes less time than  *)
(* the deletion cursor lies back, that no deletion is missed and a device  *)
(* catches up.                                                             *)
(***************************************************************************)
EXTENDS ChatSync, SequenceTheorems, FiniteSetTheorems, WellFoundedInduction, TLAPS

Deleted(m) == deletedAt[m] # None

Syncing == req.step \in {"rows", "deletions", "answer"}

-----------------------------------------------------------------------------
(* What is spoken of was sent. *)

Sent ==
    /\ \A m \in Id : Deleted(m) => m =< last
    /\ op # NoOp => op.id =< last
    /\ \A i \in 1 .. Len(wire) : wire[i].id =< last
    /\ req.rows \subseteq 1 .. last

TypeInv == TypeOK /\ Sent

-----------------------------------------------------------------------------
(* No deletion is missed. *)

(* The device's cursor lies further back than a deletion may take, and a   *)
(* device that holds something has one.                                    *)
CursorInv ==
    /\ since # None => since + Late < clock
    /\ held # {} \/ link = "synced" \/ req.step = "page" => since # None
    /\ Syncing => req.since = since /\ req.time # None /\ req.time =< clock

(* What is under way was stamped no longer than Late ago. *)
FreshInv ==
    /\ op.step = "stamped" => clock =< op.at + Late
    /\ op.step = "message" => ~ Deleted(op.id)
    /\ \A m \in OnTheWay : Deleted(m) => clock =< deletedAt[m] + Late

(* What the device will hold after the answer and was deleted meanwhile was *)
(* stamped after the cursor that comes with the answer.                     *)
AnswerInv ==
    /\ req.step \in {"deletions", "answer"} =>
          \A m \in req.rows : Deleted(m) => deletedAt[m] + Overlap > req.time
    /\ req.step = "answer" =>
          \A m \in held \ req.deleted :
              Deleted(m) => deletedAt[m] + Overlap > req.time
    /\ req.step = "page" =>
          \A m \in req.rows : Deleted(m) => deletedAt[m] > since

Inv == TypeInv /\ CursorInv /\ FreshInv /\ AnswerInv /\ NoneMissed

-----------------------------------------------------------------------------
(* Facts about the definitions *)

\* What the server may show is a message that was sent and not deleted.
LEMMA LiveMessages ==
  ASSUME TypeOK
  PROVE  \A m \in Live : m \in Id /\ m \in 1 .. last /\ ~ Deleted(m)
BY SyncAssumption DEF TypeOK, Live, Deleted, Id

\* A request is one of sync or one of history, by its step.
LEMMA RequestKinds ==
  ASSUME TypeOK
  PROVE  /\ req.step = "none" => req = NoReq
         /\ Syncing => req \in Sync
         /\ req.step = "page" => req \in History
<1>1. req = NoReq \/ req \in Sync \/ req \in History
  BY DEF TypeOK, Req
<1>2. NoReq.step = "none"
  BY DEF NoReq
<1>3. req \in Sync => req.step \in {"rows", "deletions", "answer"}
  BY DEF Sync
<1>4. req \in History => req.step = "page"
  BY DEF History
<1>5. QED
  BY <1>1, <1>2, <1>3, <1>4 DEF Syncing

\* A page is part of what it is a page of.
LEMMA PageWithin ==
  ASSUME NEW S
  PROVE  PageOf(S) \subseteq S
BY DEF PageOf, Newest

\* Reading a frame off a socket: what is left was there.
LEMMA TailEffect ==
  ASSUME TypeOK, wire # <<>>
  PROVE  /\ Tail(wire) \in Seq(Frame)
         /\ Head(wire) \in Frame /\ Head(wire) = wire[1] /\ 1 \in 1 .. Len(wire)
         /\ Len(Tail(wire)) = Len(wire) - 1
         /\ \A i \in 1 .. Len(Tail(wire)) :
               i + 1 \in 1 .. Len(wire) /\ Tail(wire)[i] = wire[i + 1]
<1>1. wire \in Seq(Frame)
  BY DEF TypeOK
<1>2. Len(wire) \in Nat /\ Len(wire) # 0
  BY <1>1, EmptySeq, LenProperties
<1>3. QED
  BY <1>1, <1>2, HeadTailProperties

\* Putting a frame on a socket: it is the last.
LEMMA AppendEffect ==
  ASSUME TypeOK, NEW f \in Frame
  PROVE  /\ Append(wire, f) \in Seq(Frame)
         /\ \A i \in 1 .. Len(Append(wire, f)) :
               Append(wire, f)[i] = f \/ (i \in 1 .. Len(wire) /\ Append(wire, f)[i] = wire[i])
<1>1. wire \in Seq(Frame) /\ Len(wire) \in Nat
  BY LenProperties DEF TypeOK
<1>2. QED
  BY <1>1, AppendProperties

-----------------------------------------------------------------------------
(* Types *)

\* The first state is well typed and speaks of nothing.
LEMMA TypeInitially ==
  ASSUME Init
  PROVE  TypeInv
<1>1. NoOp \in Op /\ NoReq \in Req /\ NoReq.rows = {}
  BY DEF Op, Req, NoReq
<1>2. <<>> \in Seq(Frame) /\ Len(<<>>) = 0
  OBVIOUS
<1>3. TypeOK
  <2>1. clock \in Moment /\ last \in 0 .. MaxId /\ losses \in 0 .. MaxLosses
    BY SyncAssumption DEF Init, Moment
  <2>2. deletedAt \in [Id -> Moment \cup {None}]
    BY DEF Init
  <2>3. QED
    BY <1>1, <1>2, <2>1, <2>2 DEF Init, TypeOK
<1>4. Sent
  BY <1>1, <1>2, SyncAssumption DEF Init, Sent, Deleted
<1>5. QED
  BY <1>3, <1>4 DEF TypeInv

\* Every step keeps the types and speaks only of what was sent.
LEMMA TypeStep ==
  ASSUME TypeInv, [Next]_vars
  PROVE  TypeInv'
<1> USE SyncAssumption DEF TypeInv
<1>0. NoOp \in Op /\ NoReq \in Req /\ NoReq.rows = {}
  BY DEF Op, Req, NoReq
<1>1. CASE Send
  <2>1. last + 1 \in Id /\ last \in Nat /\ last' = last + 1 /\ last + 1 \in 0 .. MaxId
    BY <1>1 DEF Send, TypeOK, Id
  <2>2. op' \in Op /\ op'.id = last + 1
    BY <1>1, <2>1 DEF Send, Op
  <2>3. TypeOK'
    BY <1>1, <2>1, <2>2 DEF Send, TypeOK, server, device
  <2>4. Sent'
    <3>1. \A m \in Id : m \in Int
      BY DEF Id
    <3>2. \A i \in 1 .. Len(wire) : wire[i].id \in Int
      <4>1. \A i \in 1 .. Len(wire) : wire[i] \in Frame
        BY DEF TypeOK
      <4>2. QED
        BY <3>1, <4>1 DEF Frame
    <3>3. QED
      BY <1>1, <2>1, <2>2, <3>1, <3>2 DEF Send, Sent, Deleted, device
  <2>5. QED
    BY <2>3, <2>4
<1>2. ASSUME NEW m \in Id, Stamp(m)
      PROVE  TypeInv'
  <2>1. op' \in Op /\ op'.id = m /\ m =< last
    BY <1>2, LiveMessages DEF Stamp, Op, TypeOK
  <2>2. QED
    BY <1>2, <2>1 DEF Stamp, TypeOK, Sent, Deleted, device
<1>3. CASE SoftDelete
  <2>1. op.id \in Id /\ op.at \in Moment /\ op # NoOp
    BY <1>3 DEF SoftDelete, TypeOK, Op, NoOp
  <2>2. op' \in Op /\ op'.id = op.id
    BY <1>3, <2>1 DEF SoftDelete, Op, TypeOK, NoOp
  <2>3. deletedAt' \in [Id -> Moment \cup {None}]
    BY <1>3, <2>1 DEF SoftDelete, TypeOK
  <2>4. \A m \in Id : m # op.id => deletedAt'[m] = deletedAt[m]
    BY <1>3, <2>1 DEF SoftDelete, TypeOK
  <2>5. TypeOK'
    BY <1>3, <2>2, <2>3 DEF SoftDelete, TypeOK, device
  <2>6. Sent'
    BY <1>3, <2>1, <2>2, <2>4 DEF SoftDelete, Sent, Deleted, device
  <2>7. QED
    BY <2>5, <2>6
<1>4. CASE Publish
  <2>1. op.id \in Id /\ op # NoOp /\ [kind |-> op.step, id |-> op.id] \in Frame
    BY <1>4 DEF Publish, TypeOK, Op, NoOp, Frame
  <2>2. op.id =< last
    BY <2>1 DEF Sent
  <2>3. CASE link = "down"
    BY <1>0, <1>4, <2>3 DEF Publish, TypeOK, Sent, Deleted, device
  <2>4. CASE link # "down"
    <3> DEFINE f == [kind |-> op.step, id |-> op.id]
    <3>1. wire' = Append(wire, f) /\ f.id = op.id
      BY <1>4, <2>4 DEF Publish
    <3>2. /\ Append(wire, f) \in Seq(Frame)
          /\ \A i \in 1 .. Len(Append(wire, f)) :
                Append(wire, f)[i] = f
                \/ (i \in 1 .. Len(wire) /\ Append(wire, f)[i] = wire[i])
      BY <2>1, AppendEffect
    <3>3. \A i \in 1 .. Len(wire') : wire'[i].id =< last
      BY <2>2, <3>1, <3>2 DEF Sent
    <3>4. QED
      BY <1>0, <1>4, <3>1, <3>2, <3>3 DEF Publish, TypeOK, Sent, Deleted, device
  <2>5. QED
    BY <2>3, <2>4
<1>5. CASE Tick
  BY <1>5 DEF Tick, TypeOK, Sent, Deleted, Moment, device
<1>6. CASE Connect
  BY <1>6 DEF Connect, TypeOK, Sent, Deleted, server, device
<1>7. CASE Disconnect
  <2>1. req' \in Req /\ req'.rows = req.rows
    <3>1. req' = [req EXCEPT !.covers = FALSE]
      BY <1>7 DEF Disconnect
    <3>2. CASE req = NoReq
      BY <1>0, <3>1, <3>2 DEF NoReq
    <3>3. CASE req \in Sync
      BY <3>1, <3>3 DEF Sync, Req
    <3>4. CASE req \in History
      BY <3>1, <3>4 DEF History, Req
    <3>5. QED
      BY <3>2, <3>3, <3>4 DEF TypeOK, Req
  <2>2. QED
    BY <1>7, <2>1 DEF Disconnect, TypeOK, Sent, Deleted, server, device
<1>8. CASE Receive
  <2>1. /\ Tail(wire) \in Seq(Frame)
        /\ Head(wire) \in Frame /\ Head(wire) = wire[1] /\ 1 \in 1 .. Len(wire)
        /\ \A i \in 1 .. Len(Tail(wire)) :
              i + 1 \in 1 .. Len(wire) /\ Tail(wire)[i] = wire[i + 1]
    BY <1>8, TailEffect DEF Receive
  <2>2. Head(wire).id \in 1 .. last
    BY <2>1 DEF Sent, Frame, Id, TypeOK
  <2>3. held' \subseteq 1 .. last
    BY <1>8, <2>2 DEF Receive, TypeOK
  <2>4. \A i \in 1 .. Len(wire') : wire'[i].id =< last
    BY <1>8, <2>1 DEF Receive, Sent
  <2>5. QED
    BY <1>8, <2>1, <2>3, <2>4 DEF Receive, TypeOK, Sent, Deleted, server
<1>9. CASE StartSync
  <2>1. PICK cursor \in IF held = {} THEN {None} ELSE Highest :
           req' = [NoReq EXCEPT !.step = "rows", !.cursor = cursor, !.since = since,
                                !.time = clock, !.covers = link # "down"]
    BY <1>9 DEF StartSync
  <2>2. cursor \in Id \cup {None}
    BY <2>1 DEF Highest, TypeOK, Id
  <2>3. req' \in Req /\ req'.rows = {}
    BY <2>1, <2>2 DEF Req, Sync, NoReq, TypeOK
  <2>4. QED
    BY <1>9, <2>3 DEF StartSync, TypeOK, Sent, Deleted, server, device
<1>10. CASE ReadRows
  <2> DEFINE found == After(req.cursor)
  <2>1. PageOf(found) \subseteq Id /\ PageOf(found) \subseteq 1 .. last
    BY PageWithin, LiveMessages DEF After
  <2>2. /\ req' = [req EXCEPT !.step = "deletions",
                              !.rows = PageOf(found),
                              !.reset = req.cursor = None \/ IsMore(found),
                              !.more = (req.cursor = None \/ IsMore(found)) /\ IsMore(found)]
        /\ req \in Sync
    BY <1>10, RequestKinds DEF ReadRows, Syncing
  <2> HIDE DEF found
  <2>3. IsMore(found) \in BOOLEAN /\ (req.cursor = None) \in BOOLEAN
    BY DEF IsMore
  <2>4. req' \in Req /\ req'.rows \subseteq 1 .. last
    BY <2>1, <2>2, <2>3 DEF Req, Sync
  <2>5. QED
    BY <1>10, <2>4 DEF ReadRows, TypeOK, Sent, Deleted, server, device
<1>11. CASE ReadDeletions
  <2>1. DeletedSince(req.since) \subseteq Id
    BY SyncAssumption DEF DeletedSince, TypeOK, Id
  <2>2. req \in Sync
    BY <1>11, RequestKinds DEF ReadDeletions, Syncing
  <2> DEFINE found == IF req.since = None THEN {} ELSE DeletedSince(req.since)
  <2>3. found \subseteq Id
    BY <2>1
  <2>4. req' = [req EXCEPT !.step = "answer", !.deleted = found]
    BY <1>11 DEF ReadDeletions
  <2> HIDE DEF found
  <2>5. req' \in Req /\ req'.rows = req.rows
    BY <2>2, <2>3, <2>4 DEF Req, Sync
  <2>6. QED
    BY <1>11, <2>5 DEF ReadDeletions, TypeOK, Sent, Deleted, server, device
<1>12. CASE Answer
  <2>1. req \in Sync
    BY <1>12, RequestKinds DEF Answer, Syncing
  <2>2. req.more \in BOOLEAN /\ req.time \in Moment
    BY <2>1 DEF Sync
  <2>3. since' \in DeletedCursor
    BY <1>12, <2>2 DEF Answer, DeletedCursor, Moment
  <2>4. QED
    BY <1>0, <1>12, <2>2, <2>3 DEF Answer, TypeOK, Sent, Deleted, server
<1>13. CASE ReadPage
  <2> DEFINE found == {m \in Live : \A h \in held : m < h}
  <2>1. PageOf(found) \subseteq Id /\ PageOf(found) \subseteq 1 .. last
    BY PageWithin, LiveMessages
  <2>2. req' = [NoReq EXCEPT !.step = "page", !.rows = PageOf(found), !.more = IsMore(found)]
    BY <1>13 DEF ReadPage
  <2> HIDE DEF found
  <2>3. IsMore(found) \in BOOLEAN
    BY DEF IsMore
  <2>4. req' \in Req /\ req'.rows \subseteq 1 .. last
    BY <2>1, <2>2, <2>3 DEF Req, History, NoReq
  <2>5. QED
    BY <1>13, <2>4 DEF ReadPage, TypeOK, Sent, Deleted, server, device
<1>14. CASE AnswerPage
  <2>1. req.more \in BOOLEAN
    <3>1. req \in History
      BY <1>14, RequestKinds DEF AnswerPage
    <3>2. QED
      BY <3>1 DEF History
  <2>2. QED
    BY <1>0, <1>14, <2>1 DEF AnswerPage, TypeOK, Sent, Deleted, server
<1>15. CASE LoseAnswer
  BY <1>0, <1>15 DEF LoseAnswer, TypeOK, Sent, Deleted, server, device
<1>16. CASE Crash
  BY <1>0, <1>16 DEF Crash, TypeOK, Sent, Deleted, device
<1>17. CASE UNCHANGED vars
  BY <1>17 DEF vars, server, device, TypeOK, Sent, Deleted
<1>18. QED
  BY <1>1, <1>2, <1>3, <1>4, <1>5, <1>6, <1>7, <1>8, <1>9, <1>10, <1>11, <1>12,
     <1>13, <1>14, <1>15, <1>16, <1>17 DEF Next

\* Every state of a run is well typed, and the device holds only what was sent.
THEOREM TypeCorrect == Spec => []TypeOK
<1>1. TypeInv /\ [Next]_vars => TypeInv'
  BY TypeStep
<1>2. QED
  BY TypeInitially, <1>1, PTL DEF Spec, TypeInv

-----------------------------------------------------------------------------
(* Deletions *)

\* The time a deletion may take is covered by how far the cursor lies back.
Punctual == Late < Overlap

\* Only markMessageDeleted writes a stamp, the one of the deletion under way,
\* and nothing else moves with it.
LEMMA StampEffect ==
  ASSUME TypeInv, FreshInv, [Next]_vars
  PROVE  \/ deletedAt' = deletedAt
         \/ /\ SoftDelete
            /\ op.id \in Id /\ op.at \in Moment
            /\ clock =< op.at + Late
            /\ deletedAt' = [deletedAt EXCEPT ![op.id] = op.at]
            /\ \A m \in Id : deletedAt'[m] = IF m = op.id THEN op.at ELSE deletedAt[m]
<1>1. CASE SoftDelete
  <2>1. op.id \in Id /\ op.at \in Moment
    BY <1>1 DEF SoftDelete, TypeInv, TypeOK, Op, NoOp
  <2>2. QED
    BY <1>1, <2>1 DEF SoftDelete, FreshInv, TypeInv, TypeOK
<1>2. CASE ~ SoftDelete
  BY <1>2 DEF Next, vars, server, Send, Stamp, Publish, Tick, Connect, Disconnect, Receive,
              StartSync, ReadRows, ReadDeletions, Answer, ReadPage, AnswerPage,
              LoseAnswer, Crash
<1>3. QED
  BY <1>1, <1>2

\* The cursor stays behind the clock by more than a deletion may take.
LEMMA CursorStep ==
  ASSUME Punctual, TypeInv, CursorInv, [Next]_vars
  PROVE  CursorInv'
<1> USE SyncAssumption DEF CursorInv, Syncing
<1>0. /\ clock \in Moment /\ clock \in Int /\ None \notin Int
      /\ since \in DeletedCursor \cup {None}
      /\ NoReq.step = "none"
  BY DEF TypeInv, TypeOK, Moment, NoReq
<1>1. CASE Tick
  <2>1. Syncing => req.time \in Int
    BY RequestKinds DEF TypeInv, Sync, Moment
  <2>2. since # None => since \in Int
    BY <1>0 DEF DeletedCursor
  <2>3. clock' = clock + 1 /\ req' = req /\ since' = since /\ held' = held /\ link' = link
    BY <1>1 DEF Tick, device
  <2>4. Late \in Nat /\ (since' # None => since' + Late < clock')
    BY <1>0, <2>2, <2>3
  <2>5. Syncing => req.time =< clock'
    BY <1>0, <2>1, <2>3
  <2>6. QED
    BY <2>3, <2>4, <2>5
<1>2. CASE Receive
  BY <1>2 DEF Receive, server
<1>3. CASE StartSync
  <2>1. PICK cursor \in IF held = {} THEN {None} ELSE Highest :
           req' = [NoReq EXCEPT !.step = "rows", !.cursor = cursor, !.since = since,
                                !.time = clock, !.covers = link # "down"]
    BY <1>3 DEF StartSync
  <2>2. req'.step = "rows" /\ req'.since = since /\ req'.time = clock
    BY <2>1 DEF NoReq
  <2>3. QED
    BY <1>0, <1>3, <2>2 DEF StartSync, server, device
<1>4. CASE ReadRows \/ ReadDeletions
  <2>1. Syncing /\ req \in Sync
    BY <1>4, RequestKinds DEF ReadRows, ReadDeletions, TypeInv
  <2>2. req'.since = req.since /\ req'.time = req.time /\ req'.step # "page"
    BY <1>4, <2>1 DEF ReadRows, ReadDeletions, Sync
  <2>3. QED
    BY <1>4, <2>1, <2>2 DEF ReadRows, ReadDeletions, server, device
<1>5. CASE Answer
  <2>1. Syncing /\ req \in Sync
    BY <1>5, RequestKinds DEF Answer, TypeInv
  <2>2. req.time \in Moment /\ req.time =< clock
    BY <2>1 DEF Sync
  <2>3. since' # None /\ since' + Late < clock
    BY <1>0, <1>5, <2>2 DEF Answer, Moment, Punctual
  <2>4. QED
    BY <1>0, <1>5, <2>3 DEF Answer, server
<1>6. CASE ReadPage
  <2>1. req'.step = "page" /\ held # {}
    BY <1>6 DEF ReadPage, NoReq
  <2>2. QED
    BY <1>6, <2>1 DEF ReadPage, server, device
<1>7. CASE AnswerPage
  BY <1>0, <1>7 DEF AnswerPage, server
<1>8. CASE Disconnect
  <2>1. req'.step = req.step /\ (Syncing => req'.since = req.since /\ req'.time = req.time)
    <3>1. req' = [req EXCEPT !.covers = FALSE]
      BY <1>8 DEF Disconnect
    <3>2. req = NoReq \/ req \in Sync \/ req \in History
      BY DEF TypeInv, TypeOK, Req
    <3>3. QED
      BY <3>1, <3>2 DEF NoReq, Sync, History
  <2>2. QED
    BY <1>8, <2>1 DEF Disconnect, server, device
<1>9. CASE LoseAnswer \/ Crash
  BY <1>0, <1>9 DEF LoseAnswer, Crash, server, device
<1>10. CASE Send \/ (\E m \in Id : Stamp(m)) \/ SoftDelete \/ Publish \/ Connect \/ UNCHANGED vars
  BY <1>10 DEF Send, Stamp, SoftDelete, Publish, Connect, vars, server, device
<1>11. QED
  BY <1>1, <1>2, <1>3, <1>4, <1>5, <1>6, <1>7, <1>8, <1>9, <1>10 DEF Next

\* What is under way stays no older than Late: time waits for it.
LEMMA FreshStep ==
  ASSUME TypeInv, FreshInv, [Next]_vars
  PROVE  FreshInv'
<1> USE SyncAssumption DEF FreshInv, Deleted
<1>0. /\ clock \in Int /\ Late \in Nat /\ NoOp.step = "none"
      /\ deletedAt \in [Id -> Moment \cup {None}]
      /\ \A m \in Moment : m \in Int
  BY DEF TypeInv, TypeOK, Moment, NoOp
<1>1. CASE Send
  <2>1. op'.step = "message" /\ op'.id = last + 1
    BY <1>1 DEF Send
  <2>2. last + 1 \in Id /\ ~ (last + 1 =< last)
    BY <1>1 DEF Send, TypeInv, TypeOK, Id
  <2>3. deletedAt[last + 1] = None
    BY <2>2 DEF TypeInv, Sent
  <2>4. QED
    BY <1>1, <2>1, <2>3 DEF Send, OnTheWay
<1>2. ASSUME NEW m \in Id, Stamp(m)
      PROVE  FreshInv'
  <2>1. op'.step = "stamped" /\ op'.at = clock
    BY <1>2 DEF Stamp
  <2>2. QED
    BY <1>0, <1>2, <2>1 DEF Stamp, OnTheWay
<1>3. CASE SoftDelete
  <2>1. op'.step = "deleted"
    BY <1>3 DEF SoftDelete, TypeInv, TypeOK, Op, NoOp
  <2>2. /\ clock =< op.at + Late
        /\ \A m \in Id : deletedAt'[m] = IF m = op.id THEN op.at ELSE deletedAt[m]
    BY <1>3, <1>0 DEF SoftDelete
  <2>3. OnTheWay' = OnTheWay /\ OnTheWay \subseteq Id
    BY <1>3 DEF SoftDelete, OnTheWay
  <2>4. QED
    BY <1>3, <2>1, <2>2, <2>3 DEF SoftDelete
<1>4. CASE Publish
  <2>1. op.step \in {"message", "deleted"} /\ op.id \in Id
    BY <1>4 DEF Publish, TypeInv, TypeOK, Op, NoOp
  <2>2. ASSUME NEW m \in OnTheWay', m \notin OnTheWay
        PROVE  op.step = "message" /\ m = op.id
    <3> DEFINE f == [kind |-> op.step, id |-> op.id]
    <3>1. f \in Frame
      BY <2>1 DEF Frame
    <3>2. PICK i \in 1 .. Len(wire') : wire'[i] = [kind |-> "message", id |-> m]
      BY <2>2 DEF OnTheWay
    <3>3. m \in Id
      BY <2>2 DEF OnTheWay
    <3>4. wire' = Append(wire, f)
      BY <1>4, <2>2, <3>2, <3>3 DEF Publish, OnTheWay
    <3>5. wire'[i] = f
      BY <2>2, <3>1, <3>2, <3>3, <3>4, AppendEffect DEF TypeInv, OnTheWay
    <3>6. QED
      BY <3>2, <3>5
  <2>3. QED
    BY <1>0, <1>4, <2>1, <2>2 DEF Publish
<1>5. CASE Tick
  <2>1. OnTheWay' = OnTheWay /\ OnTheWay \subseteq Id
    BY <1>5 DEF Tick, OnTheWay
  <2>2. \A m \in OnTheWay : Deleted(m) => clock + 1 =< deletedAt[m] + Late
    BY <1>0, <1>5, <2>1 DEF Tick
  <2>3. op.step = "stamped" => op.at \in Int
    BY <1>0 DEF TypeInv, TypeOK, Op, NoOp
  <2>4. QED
    BY <1>0, <1>5, <2>1, <2>2, <2>3 DEF Tick
<1>6. CASE Receive
  <2>1. OnTheWay' \subseteq OnTheWay
    BY <1>6, TailEffect DEF Receive, OnTheWay, TypeInv
  <2>2. QED
    BY <1>6, <2>1 DEF Receive, server
<1>7. CASE Disconnect \/ Crash
  <2>1. wire' = <<>>
    BY <1>7 DEF Disconnect, Crash
  <2>2. OnTheWay' = {}
    BY <2>1 DEF OnTheWay
  <2>3. QED
    BY <1>0, <1>7, <2>2 DEF Disconnect, Crash, server
<1>8. CASE Connect \/ StartSync \/ ReadRows \/ ReadDeletions \/ Answer \/ ReadPage
           \/ AnswerPage \/ LoseAnswer \/ UNCHANGED vars
  BY <1>8 DEF Connect, StartSync, ReadRows, ReadDeletions, Answer, ReadPage, AnswerPage,
              LoseAnswer, vars, server, OnTheWay
<1>9. QED
  BY <1>1, <1>2, <1>3, <1>4, <1>5, <1>6, <1>7, <1>8 DEF Next

\* The types that arithmetic about deletions needs.
LEMMA DeletionTypes ==
  ASSUME TypeInv
  PROVE  /\ clock \in Int /\ Late \in Nat /\ Overlap \in Nat /\ NoReq.step = "none"
         /\ deletedAt \in [Id -> Moment \cup {None}]
         /\ \A m \in Moment : m \in Int /\ m >= Overlap
         /\ since # None => since \in Int
         /\ req.rows \subseteq Id
         /\ held \subseteq Id
<1> USE SyncAssumption
<1>1. clock \in Int /\ (\A m \in Moment : m \in Int /\ m >= Overlap)
  BY DEF TypeInv, TypeOK, Moment
<1>2. deletedAt \in [Id -> Moment \cup {None}] /\ (since # None => since \in Int)
  BY DEF TypeInv, TypeOK, DeletedCursor
<1>3. last =< MaxId /\ last \in Int
  BY DEF TypeInv, TypeOK
<1>4. req.rows \subseteq Id /\ held \subseteq Id
  BY <1>3 DEF TypeInv, TypeOK, Sent, Id
<1>5. QED
  BY <1>1, <1>2, <1>4 DEF NoReq

\* What an answer leaves the device with, and was deleted meanwhile, is newer
\* than the cursor of that answer.
LEMMA AnswerStep ==
  ASSUME Punctual, TypeInv, CursorInv, FreshInv, AnswerInv, NoneMissed, [Next]_vars
  PROVE  AnswerInv'
<1> USE SyncAssumption DEF AnswerInv, Deleted
<1>0. /\ clock \in Int /\ Late \in Nat /\ Overlap \in Nat /\ NoReq.step = "none"
      /\ deletedAt \in [Id -> Moment \cup {None}]
      /\ \A m \in Moment : m \in Int /\ m >= Overlap
      /\ since # None => since \in Int
      /\ req.rows \subseteq Id
      /\ held \subseteq Id
  BY DeletionTypes
<1>1. CASE SoftDelete
  <2>1. /\ op.at \in Int /\ clock =< op.at + Late
        /\ \A m \in Id : deletedAt'[m] = IF m = op.id THEN op.at ELSE deletedAt[m]
    BY <1>0, <1>1, StampEffect DEF SoftDelete, FreshInv, TypeInv, TypeOK, Op, NoOp
  <2>2. req' = req /\ since' = since /\ held' = held
    BY <1>1 DEF SoftDelete, device
  <2>3. Syncing => op.at + Overlap > req.time
    <3>1. Syncing => req.time \in Int /\ req.time =< clock
      BY RequestKinds DEF TypeInv, Sync, Moment, CursorInv
    <3>2. QED
      BY <1>0, <2>1, <3>1 DEF Punctual
  <2>4. req.step = "page" => op.at > since
    BY <1>0, <2>1 DEF CursorInv
  <2>5. QED
    BY <1>0, <2>1, <2>2, <2>3, <2>4 DEF Syncing
<1>2. CASE ReadRows
  <2>1. req'.step = "deletions" /\ req'.rows = PageOf(After(req.cursor))
    <3>1. req \in Sync
      BY <1>2, RequestKinds DEF ReadRows, Syncing, TypeInv
    <3>2. QED
      BY <1>2, <3>1 DEF ReadRows, Sync
  <2>2. \A m \in req'.rows : ~ Deleted(m)
    BY <2>1, PageWithin, LiveMessages DEF After, TypeInv
  <2>3. deletedAt' = deletedAt
    BY <1>2 DEF ReadRows, server
  <2>4. QED
    BY <2>1, <2>2, <2>3
<1>3. CASE ReadDeletions
  <2>1. /\ req'.step = "answer" /\ req'.rows = req.rows /\ req'.time = req.time
        /\ req'.deleted = IF req.since = None THEN {} ELSE DeletedSince(req.since)
        /\ req.since = since
    <3>1. req \in Sync /\ Syncing
      BY <1>3, RequestKinds DEF ReadDeletions, Syncing, TypeInv
    <3>2. QED
      BY <1>3, <3>1 DEF ReadDeletions, Sync, CursorInv
  <2>2. deletedAt' = deletedAt /\ held' = held
    BY <1>3 DEF ReadDeletions, server, device
  <2>3. \A m \in held : Deleted(m) => m \in req'.deleted
    BY <2>1 DEF NoneMissed, DeletedSince, TypeInv, TypeOK
  <2>4. QED
    BY <1>3, <2>1, <2>2, <2>3 DEF ReadDeletions
<1>4. CASE Answer \/ AnswerPage \/ LoseAnswer \/ Crash
  <2>1. req' = NoReq
    BY <1>4 DEF Answer, AnswerPage, LoseAnswer, Crash
  <2>2. QED
    BY <1>0, <2>1
<1>5. CASE StartSync
  <2>1. req'.step = "rows"
    BY <1>5 DEF StartSync, NoReq
  <2>2. QED
    BY <2>1
<1>6. CASE ReadPage
  <2>1. /\ req'.step = "page"
        /\ req'.rows = PageOf({m \in Live : \A h \in held : m < h})
    BY <1>6 DEF ReadPage, NoReq
  <2>2. \A m \in req'.rows : ~ Deleted(m)
    BY <2>1, PageWithin, LiveMessages DEF TypeInv
  <2>3. deletedAt' = deletedAt
    BY <1>6 DEF ReadPage, server
  <2>4. QED
    BY <2>1, <2>2, <2>3
<1>7. CASE Disconnect
  <2>1. /\ req'.step = req.step /\ req'.rows = req.rows /\ req'.time = req.time
        /\ req'.deleted = req.deleted
    <3>1. req' = [req EXCEPT !.covers = FALSE]
      BY <1>7 DEF Disconnect
    <3>2. req = NoReq \/ req \in Sync \/ req \in History
      BY DEF TypeInv, TypeOK, Req
    <3>3. QED
      BY <3>1, <3>2 DEF NoReq, Sync, History
  <2>2. deletedAt' = deletedAt /\ held' = held /\ since' = since
    BY <1>7 DEF Disconnect, server, device
  <2>3. QED
    BY <2>1, <2>2
<1>8. CASE Receive
  <2>1. req' = NoReq
    BY <1>8 DEF Receive
  <2>2. QED
    BY <1>0, <2>1
<1>9. CASE Send \/ (\E m \in Id : Stamp(m)) \/ Publish \/ Tick \/ Connect \/ UNCHANGED vars
  BY <1>9 DEF Send, Stamp, Publish, Tick, Connect, vars, server, device
<1>10. QED
  BY <1>1, <1>2, <1>3, <1>4, <1>5, <1>6, <1>7, <1>8, <1>9 DEF Next

\* The device never comes to hold a deleted message that its next sync omits.
LEMMA MissedStep ==
  ASSUME Punctual, TypeInv, CursorInv, FreshInv, AnswerInv, NoneMissed, [Next]_vars
  PROVE  NoneMissed'
<1> USE SyncAssumption DEF NoneMissed, Deleted
<1>0. /\ clock \in Int /\ Late \in Nat /\ Overlap \in Nat /\ NoReq.step = "none"
      /\ deletedAt \in [Id -> Moment \cup {None}]
      /\ \A m \in Moment : m \in Int /\ m >= Overlap
      /\ since # None => since \in Int
      /\ req.rows \subseteq Id
      /\ held \subseteq Id
  BY DeletionTypes
<1>1. CASE SoftDelete
  <2>1. /\ op.at \in Int /\ clock =< op.at + Late
        /\ \A m \in Id : deletedAt'[m] = IF m = op.id THEN op.at ELSE deletedAt[m]
    BY <1>0, <1>1, StampEffect DEF SoftDelete, FreshInv, TypeInv, TypeOK, Op, NoOp
  <2>2. since' = since /\ held' = held
    BY <1>1 DEF SoftDelete, device
  <2>3. held # {} => since # None /\ op.at > since
    BY <1>0, <2>1 DEF CursorInv
  <2>4. QED
    BY <1>0, <2>1, <2>2, <2>3
<1>2. CASE Receive
  <2>1. deletedAt' = deletedAt /\ since' = since
    BY <1>2 DEF Receive, server
  <2>2. ASSUME NEW m \in held', m \notin held
        PROVE  link = "synced" /\ m \in OnTheWay
    <3>1. /\ link = "synced" /\ Head(wire).kind = "message" /\ m = Head(wire).id
      BY <1>2, <2>2 DEF Receive
    <3>2. Head(wire) \in Frame /\ Head(wire) = wire[1] /\ 1 \in 1 .. Len(wire)
      BY <1>2, TailEffect DEF Receive, TypeInv
    <3>3. Head(wire) = [kind |-> "message", id |-> m] /\ m \in Id
      BY <3>1, <3>2 DEF Frame
    <3>4. QED
      BY <3>1, <3>2, <3>3 DEF OnTheWay
  <2>3. \A m \in OnTheWay : m \in Id
    BY DEF OnTheWay
  <2>4. ASSUME NEW m \in held', m \notin held, Deleted(m)
        PROVE  since # None /\ deletedAt[m] > since
    <3>1. link = "synced" /\ m \in Id /\ clock =< deletedAt[m] + Late
      BY <2>2, <2>3, <2>4 DEF FreshInv
    <3>2. since # None /\ since + Late < clock
      BY <3>1 DEF CursorInv
    <3>3. deletedAt[m] \in Int
      BY <1>0, <2>4, <3>1
    <3>4. QED
      BY <1>0, <3>1, <3>2, <3>3
  <2>5. QED
    BY <2>1, <2>4
<1>3. CASE Answer
  <2>1. /\ Syncing /\ req \in Sync
        /\ deletedAt' = deletedAt
        /\ held' \subseteq (held \cup req.rows) \ req.deleted
        /\ since' = IF req.time > Overlap THEN req.time - Overlap ELSE 0
    BY <1>3, RequestKinds DEF Answer, Syncing, TypeInv, server
  <2>2. \A m \in held' : Deleted(m) => deletedAt[m] + Overlap > req.time
    BY <1>3, <2>1 DEF Answer, AnswerInv
  <2>3. req.time \in Int /\ Overlap > 0
    BY <1>0, <2>1 DEF Sync, Punctual
  <2>4. since' \in Int /\ None \notin Int
    BY <2>1, <2>3
  <2>5. ASSUME NEW m \in held', Deleted(m)
        PROVE  deletedAt[m] > since'
    <3>1. deletedAt[m] \in Int /\ deletedAt[m] >= Overlap
      BY <1>0, <2>1, <2>5
    <3>2. deletedAt[m] + Overlap > req.time
      BY <2>2, <2>5
    <3>3. QED
      BY <1>0, <2>1, <2>3, <3>1, <3>2
  <2>6. QED
    BY <2>1, <2>4, <2>5
<1>4. CASE AnswerPage
  <2>1. deletedAt' = deletedAt /\ since' = since /\ held' = held \cup req.rows
    BY <1>4 DEF AnswerPage, server
  <2>2. since # None /\ \A m \in req.rows : Deleted(m) => deletedAt[m] > since
    BY <1>4 DEF AnswerPage, AnswerInv, CursorInv
  <2>3. QED
    BY <2>1, <2>2
<1>5. CASE Send \/ (\E m \in Id : Stamp(m)) \/ Publish \/ Tick \/ Connect \/ Disconnect
           \/ StartSync \/ ReadRows \/ ReadDeletions \/ ReadPage \/ LoseAnswer \/ Crash
           \/ UNCHANGED vars
  BY <1>5 DEF Send, Stamp, Publish, Tick, Connect, Disconnect, StartSync, ReadRows,
              ReadDeletions, ReadPage, LoseAnswer, Crash, vars, server, device
<1>6. QED
  BY <1>1, <1>2, <1>3, <1>4, <1>5 DEF Next

\* A deletion that takes less time than the deletion cursor lies back is never
\* missed: while the device holds the message, its next sync reports it.
THEOREM DeletionsAreSentAgain ==
  ASSUME Punctual
  PROVE  Spec => []NoneMissed
<1>1. Init => Inv
  <2> SUFFICES ASSUME Init
               PROVE  Inv
    OBVIOUS
  <2>1. /\ since = None /\ held = {} /\ link = "down" /\ wire = <<>>
        /\ op.step = "none" /\ req.step = "none"
    BY DEF Init, NoOp, NoReq
  <2>2. OnTheWay = {}
    BY <2>1 DEF OnTheWay
  <2>3. QED
    BY <2>1, <2>2, TypeInitially DEF Inv, CursorInv, FreshInv, AnswerInv, NoneMissed, Syncing
<1>2. Inv /\ [Next]_vars => Inv'
  BY TypeStep, CursorStep, FreshStep, AnswerStep, MissedStep DEF Inv
<1>3. QED
  BY <1>1, <1>2, PTL DEF Spec, Inv

-----------------------------------------------------------------------------
(* Pages *)

\* A finite set of numbers that is not empty has a greatest one.
LEMMA Greatest ==
  ASSUME NEW S \in SUBSET Int, IsFiniteSet(S), S # {}
  PROVE  \E m \in S : \A k \in S : k =< m
<1> DEFINE Above(m) == {k \in S : k > m}
<1> DEFINE Family == {Above(m) : m \in S}
<1>1. Family \subseteq FiniteSubsetsOf(S) /\ Family # {}
  <2>1. \A m \in S : IsFiniteSet(Above(m)) /\ Above(m) \subseteq S
    BY FS_Subset
  <2>2. QED
    BY <2>1 DEF FiniteSubsetsOf
<1>2. PICK A \in Family : \A B \in Family : ~ (<<B, A>> \in StrictSubsetOrdering(S))
  <2> HIDE DEF Family
  <2>1. QED
    BY <1>1, FS_StrictSubsetOrderingWellFounded, WFMin
<1>3. PICK m \in S : A = Above(m)
  OBVIOUS
<1>4. ASSUME NEW k \in S, k > m
      PROVE  FALSE
  <2>1. Above(k) \subseteq Above(m) /\ k \in Above(m) /\ k \notin Above(k)
    <3>1. k \in Int /\ m \in Int /\ ~ (k > k)
      BY <1>4
    <3>2. \A j \in S : j > k => j > m
      BY <1>4, <3>1
    <3>3. QED
      BY <1>4, <3>1, <3>2
  <2>2. Above(k) \in Family /\ Above(k) \in SUBSET S /\ Above(m) \in SUBSET S
    OBVIOUS
  <2>3. <<Above(k), Above(m)>> \in StrictSubsetOrdering(S)
    BY <2>1, <2>2 DEF StrictSubsetOrdering
  <2>4. QED
    BY <1>2, <1>3, <2>2, <2>3
<1>5. QED
  BY <1>4

\* What is newer than a row of the newest rows is one of them too.
LEMMA NewestUpward ==
  ASSUME NEW S \in SUBSET Int, IsFiniteSet(S), NEW n \in Nat,
         NEW p \in Newest(S, n), NEW m \in S, p < m
  PROVE  m \in Newest(S, n)
<1> DEFINE A == {k \in S : k > m}
           B == {k \in S : k > p}
<1>1. A \subseteq B /\ IsFiniteSet(A) /\ IsFiniteSet(B) /\ p \in Int
  <2>1. p \in S
    BY DEF Newest
  <2>2. A \subseteq B
    <3>1. \A k \in S : k > m => k > p
      BY <2>1
    <3>2. QED
      BY <3>1
  <2>3. A \in SUBSET S /\ B \in SUBSET S
    OBVIOUS
  <2> HIDE DEF A, B
  <2>4. QED
    BY <2>1, <2>2, <2>3, FS_Subset
<1>2. Cardinality(A) =< Cardinality(B) /\ Cardinality(A) \in Nat /\ Cardinality(B) \in Nat
  <2> HIDE DEF A, B
  <2>1. QED
    BY <1>1, FS_Subset, FS_CardinalityType
<1>3. Cardinality(B) < n
  BY DEF Newest
<1>4. QED
  BY <1>2, <1>3 DEF Newest

\* A page has no hole: what is newer than a row of it is in it.
LEMMA PageUpward ==
  ASSUME NEW S \in SUBSET Int, IsFiniteSet(S),
         NEW p \in PageOf(S), NEW m \in S, p < m
  PROVE  m \in PageOf(S)
<1> DEFINE T == Newest(S, Page + 1)
<1>1. T \subseteq S /\ IsFiniteSet(T) /\ T \in SUBSET Int /\ Page \in Nat /\ Page + 1 \in Nat
  <2>1. T \subseteq S
    BY DEF Newest
  <2>2. IsFiniteSet(T)
    <3> HIDE DEF T
    <3>1. QED
      BY <2>1, FS_Subset
  <2>3. Page \in Nat
    BY SyncAssumption
  <2> HIDE DEF T
  <2>4. QED
    BY <2>1, <2>2, <2>3
<1>2. p \in Newest(T, Page) /\ p \in T
  BY DEF PageOf, Newest
<1>3. m \in T
  BY <1>1, <1>2, NewestUpward
<1> HIDE DEF T
<1>4. m \in Newest(T, Page)
  BY <1>1, <1>2, <1>3, NewestUpward
<1>5. QED
  BY <1>4 DEF PageOf, T

\* Without one row more the page is everything there is.
LEMMA PageWhole ==
  ASSUME NEW S \in SUBSET Int, IsFiniteSet(S), ~ IsMore(S)
  PROVE  PageOf(S) = S
<1> DEFINE T == Newest(S, Page + 1)
<1>1. Page \in Nat /\ Page + 1 \in Nat /\ T \subseteq S /\ IsFiniteSet(T)
  <2>1. T \subseteq S
    BY DEF Newest
  <2>2. IsFiniteSet(T)
    <3> HIDE DEF T
    <3>1. QED
      BY <2>1, FS_Subset
  <2>3. Page \in Nat
    BY SyncAssumption
  <2> HIDE DEF T
  <2>4. QED
    BY <2>1, <2>2, <2>3
<1>2. Cardinality(T) \in Nat /\ Cardinality(T) =< Page
  BY <1>1, FS_CardinalityType DEF IsMore
<1>3. ASSUME S \ T # {}
      PROVE  FALSE
  <2>1. IsFiniteSet(S \ T) /\ S \ T \in SUBSET Int
    BY FS_Difference
  <2>2. PICK m \in S \ T : \A k \in S \ T : k =< m
    <3> HIDE DEF T
    <3>1. QED
      BY <1>3, <2>1, Greatest
  <2> DEFINE A == {k \in S : k > m}
  <2>3. A \subseteq T
    <3>1. \A k \in S : k \notin T => ~ (k > m)
      BY <2>2
    <3>2. QED
      BY <3>1
  <2>4. Cardinality(A) =< Cardinality(T)
    <3> HIDE DEF A, T
    <3>1. QED
      BY <1>1, <2>3, FS_Subset
  <2>5. IsFiniteSet(A) /\ Cardinality(A) \in Nat
    BY FS_Subset, FS_CardinalityType
  <2>6. ~ (Cardinality(A) < Page + 1)
    BY <2>2 DEF Newest
  <2>7. QED
    BY <1>1, <1>2, <2>4, <2>5, <2>6
<1>4. T = S
  BY <1>1, <1>3
<1>5. ASSUME NEW m \in S
      PROVE  m \in Newest(S, Page)
  <2> DEFINE A == {k \in S : k > m}
  <2>1. A \subseteq S \ {m}
    OBVIOUS
  <2>2. IsFiniteSet(S \ {m}) /\ Cardinality(S \ {m}) = Cardinality(S) - 1
    BY FS_RemoveElement
  <2>3. Cardinality(A) =< Cardinality(S \ {m}) /\ Cardinality(A) \in Nat
    <3> HIDE DEF A
    <3>1. QED
      BY <2>1, <2>2, FS_Subset, FS_CardinalityType
  <2>4. Cardinality(S) \in Nat /\ Cardinality(S) =< Page
    BY <1>2, <1>4
  <2>5. Cardinality(A) < Page
    BY <1>1, <2>2, <2>3, <2>4
  <2>6. QED
    BY <2>5 DEF Newest
<1>6. Newest(S, Page) = S
  BY <1>5 DEF Newest
<1>7. QED
  BY <1>4, <1>6 DEF PageOf

-----------------------------------------------------------------------------
(* The socket: what is on its way to the device. *)

(* The messages whose deletions the device has not read yet. *)
Leaving == {m \in Id : \E i \in 1 .. Len(wire) :
                           wire[i] = [kind |-> "deleted", id |-> m]}

(* The frame of a message, or of its deletion, is on the socket or about to be. *)
Coming(m) == m \in OnTheWay \/ (op.step = "message" /\ op.id = m)
Going(m) == m \in Leaving \/ (op.step = "deleted" /\ op.id = m)

(* Messages come in the order of their ids, and none after its deletion. *)
Ordered ==
    \A i, j \in 1 .. Len(wire) : i < j /\ wire[j].kind = "message" =>
        /\ wire[i].id # wire[j].id
        /\ wire[i].kind = "message" => wire[i].id < wire[j].id

(* What is about to be published is the newest message. *)
Unsent == op.step = "message" => op.id = last /\ op.id \notin OnTheWay

(* Whatever was sent after a message that is on its way is on its way. *)
Followers ==
    \A k \in OnTheWay : \A m \in Id : k < m /\ m =< last => Coming(m)

GoneOK == \A m \in Id : Going(m) => Deleted(m)

(* The frames of a connection go with it, and a sync counts for the        *)
(* connection it was asked on.                                             *)
Linked ==
    /\ link = "down" => wire = <<>>
    /\ req.covers => link # "down"
    /\ link = "synced" /\ Syncing => req.covers

WireInv == Ordered /\ Unsent /\ Followers /\ GoneOK /\ Linked

-----------------------------------------------------------------------------

\* What is on the socket, a frame at a time.
LEMMA OnTheSocket ==
  ASSUME TypeInv
  PROVE  /\ OnTheWay \subseteq Id /\ Leaving \subseteq Id
         /\ Id \subseteq Nat /\ last \in Nat /\ last =< MaxId
         /\ \A m \in Id : m \in OnTheWay =>
               m =< last /\ \E i \in 1 .. Len(wire) : wire[i] = [kind |-> "message", id |-> m]
         /\ \A i \in 1 .. Len(wire) :
               /\ wire[i] \in Frame /\ wire[i].id \in Id /\ wire[i].id =< last
               /\ wire[i] = [kind |-> wire[i].kind, id |-> wire[i].id]
               /\ wire[i].kind = "message" => wire[i].id \in OnTheWay
               /\ wire[i].kind = "deleted" => wire[i].id \in Leaving
<1>1. OnTheWay \subseteq Id /\ Leaving \subseteq Id /\ Id \subseteq Nat
  BY DEF OnTheWay, Leaving, Id
<1>2. last \in Nat /\ last =< MaxId
  BY SyncAssumption DEF TypeInv, TypeOK
<1>3. ASSUME NEW i \in 1 .. Len(wire)
      PROVE  /\ wire[i] \in Frame /\ wire[i].id \in Id /\ wire[i].id =< last
             /\ wire[i] = [kind |-> wire[i].kind, id |-> wire[i].id]
             /\ wire[i].kind = "message" => wire[i].id \in OnTheWay
             /\ wire[i].kind = "deleted" => wire[i].id \in Leaving
  <2>1. wire[i] \in Frame /\ wire[i].id =< last
    BY <1>3 DEF TypeInv, TypeOK, Sent
  <2>2. wire[i].id \in Id /\ wire[i] = [kind |-> wire[i].kind, id |-> wire[i].id]
    BY <2>1 DEF Frame
  <2>3. QED
    BY <1>3, <2>1, <2>2 DEF OnTheWay, Leaving
<1>4. ASSUME NEW m \in Id, m \in OnTheWay
      PROVE  m =< last /\ \E i \in 1 .. Len(wire) : wire[i] = [kind |-> "message", id |-> m]
  <2>1. PICK i \in 1 .. Len(wire) : wire[i] = [kind |-> "message", id |-> m]
    BY <1>4 DEF OnTheWay
  <2>2. QED
    BY <1>3, <2>1
<1>5. QED
  BY <1>1, <1>2, <1>3, <1>4

\* A frame that is published is the last on the socket.
LEMMA Published ==
  ASSUME TypeInv, Publish, link # "down"
  PROVE  /\ op.id \in Id /\ op.step \in {"message", "deleted"}
         /\ OnTheWay' = OnTheWay \cup (IF op.step = "message" THEN {op.id} ELSE {})
         /\ Leaving' = Leaving \cup (IF op.step = "deleted" THEN {op.id} ELSE {})
         /\ Len(wire') = Len(wire) + 1 /\ Len(wire) \in Nat
         /\ wire'[Len(wire) + 1] = [kind |-> op.step, id |-> op.id]
         /\ \A i \in 1 .. Len(wire) : wire'[i] = wire[i]
<1> DEFINE f == [kind |-> op.step, id |-> op.id]
<1>1. op.id \in Id /\ op.step \in {"message", "deleted"} /\ f \in Frame
  BY DEF Publish, TypeInv, TypeOK, Op, NoOp, Frame
<1>2. wire' = Append(wire, f) /\ wire \in Seq(Frame)
  BY DEF Publish, TypeInv, TypeOK
<1> HIDE DEF f
<1>3. /\ Len(wire') = Len(wire) + 1 /\ Len(wire) \in Nat
      /\ wire'[Len(wire) + 1] = f
      /\ \A i \in 1 .. Len(wire) : wire'[i] = wire[i]
  BY <1>1, <1>2, AppendProperties, LenProperties
<1>4. ASSUME NEW k \in {"message", "deleted"}, NEW m \in Id
      PROVE  (\E i \in 1 .. Len(wire') : wire'[i] = [kind |-> k, id |-> m])
             <=> \/ \E i \in 1 .. Len(wire) : wire[i] = [kind |-> k, id |-> m]
                 \/ op.step = k /\ op.id = m
  <2>1. \A i \in 1 .. Len(wire') : i \in 1 .. Len(wire) \/ i = Len(wire) + 1
    BY <1>3
  <2>2. f = [kind |-> k, id |-> m] <=> op.step = k /\ op.id = m
    BY DEF f
  <2>3. 1 .. Len(wire) \subseteq 1 .. Len(wire') /\ Len(wire) + 1 \in 1 .. Len(wire')
    BY <1>3
  <2>4. QED
    BY <1>3, <2>1, <2>2, <2>3
<1>5. OnTheWay' = OnTheWay \cup (IF op.step = "message" THEN {op.id} ELSE {})
  BY <1>1, <1>4 DEF OnTheWay
<1>6. Leaving' = Leaving \cup (IF op.step = "deleted" THEN {op.id} ELSE {})
  BY <1>1, <1>4 DEF Leaving
<1>7. QED
  BY <1>1, <1>3, <1>5, <1>6 DEF f

\* A frame that is read is the first on the socket: the oldest of the messages,
\* or a deletion whose message came before it.
LEMMA Received ==
  ASSUME TypeInv, Ordered, Receive
  PROVE  /\ Head(wire) = wire[1] /\ 1 \in 1 .. Len(wire)
         /\ Head(wire).id \in Id /\ Head(wire).id =< last
         /\ Head(wire).kind \in {"message", "deleted"}
         /\ Len(wire') = Len(wire) - 1
         /\ \A i \in 1 .. Len(wire') : i + 1 \in 1 .. Len(wire) /\ wire'[i] = wire[i + 1]
         /\ Head(wire).kind = "message" =>
               /\ Head(wire).id \in OnTheWay
               /\ OnTheWay' = OnTheWay \ {Head(wire).id} /\ Leaving' = Leaving
               /\ \A k \in OnTheWay' : Head(wire).id < k
         /\ Head(wire).kind = "deleted" =>
               /\ Head(wire).id \in Leaving
               /\ OnTheWay' = OnTheWay /\ Head(wire).id \notin OnTheWay
               /\ Leaving' \subseteq Leaving /\ Leaving \subseteq Leaving' \cup {Head(wire).id}
<1> DEFINE h == wire[1]
<1>1. /\ Head(wire) = wire[1] /\ 1 \in 1 .. Len(wire) /\ wire' = Tail(wire)
      /\ Len(wire') = Len(wire) - 1
      /\ \A i \in 1 .. Len(wire') : i + 1 \in 1 .. Len(wire) /\ wire'[i] = wire[i + 1]
  BY TailEffect DEF TypeInv, Receive
<1>2. /\ h.id \in Id /\ h.id =< last /\ h = [kind |-> h.kind, id |-> h.id] /\ h \in Frame
      /\ h.kind = "message" => h.id \in OnTheWay
      /\ h.kind = "deleted" => h.id \in Leaving
  BY <1>1, OnTheSocket
<1>3. h.kind \in {"message", "deleted"}
  BY <1>2 DEF Frame
<1>4. Len(wire) \in Nat
  BY LenProperties DEF TypeInv, TypeOK
<1>5. ASSUME NEW k \in {"message", "deleted"}, NEW m \in Id
      PROVE  (\E i \in 1 .. Len(wire) : wire[i] = [kind |-> k, id |-> m])
             <=> \/ \E i \in 1 .. Len(wire') : wire'[i] = [kind |-> k, id |-> m]
                 \/ h.kind = k /\ h.id = m
  <2>1. \A i \in 1 .. Len(wire) : i = 1 \/ (i - 1 \in 1 .. Len(wire') /\ (i - 1) + 1 = i)
    BY <1>1, <1>4
  <2>2. h = [kind |-> k, id |-> m] <=> h.kind = k /\ h.id = m
    BY <1>2
  <2> HIDE DEF h
  <2>3. QED
    BY <1>1, <2>1, <2>2 DEF h
<1>6. ASSUME NEW m \in Id, NEW i \in 1 .. Len(wire'), wire'[i] = [kind |-> "message", id |-> m]
      PROVE  m # h.id /\ (h.kind = "message" => h.id < m)
  <2>1. i + 1 \in 1 .. Len(wire) /\ wire[i + 1] = [kind |-> "message", id |-> m] /\ 1 < i + 1
    BY <1>1, <1>4, <1>6
  <2>2. wire[i + 1].kind = "message" /\ wire[i + 1].id = m
    BY <2>1
  <2>3. QED
    BY <1>1, <2>1, <2>2 DEF Ordered
<1>7. OnTheWay' = OnTheWay \ (IF h.kind = "message" THEN {h.id} ELSE {})
  <2>1. ASSUME NEW m \in Id
        PROVE  m \in OnTheWay' <=> m \in OnTheWay /\ ~ (h.kind = "message" /\ h.id = m)
    <3>1. m \in OnTheWay' <=> \E i \in 1 .. Len(wire') : wire'[i] = [kind |-> "message", id |-> m]
      BY DEF OnTheWay
    <3>2. m \in OnTheWay <=> \E i \in 1 .. Len(wire) : wire[i] = [kind |-> "message", id |-> m]
      BY DEF OnTheWay
    <3>3. m \in OnTheWay' => m # h.id
      BY <3>1, <1>6
    <3>4. m \in OnTheWay <=> m \in OnTheWay' \/ (h.kind = "message" /\ h.id = m)
      BY <1>5, <3>1, <3>2
    <3>5. QED
      BY <3>3, <3>4
  <2>2. OnTheWay' \subseteq Id /\ OnTheWay \subseteq Id
    BY DEF OnTheWay
  <2> HIDE DEF h
  <2>3. QED
    BY <2>1, <2>2
<1>8. /\ Leaving' \subseteq Leaving
      /\ Leaving \subseteq Leaving' \cup (IF h.kind = "deleted" THEN {h.id} ELSE {})
  BY <1>5 DEF Leaving
<1>9. h.id \notin OnTheWay' /\ (h.kind = "message" => \A k \in OnTheWay' : h.id < k)
  BY <1>6 DEF OnTheWay
<1> HIDE DEF h
<1>10. QED
  BY <1>1, <1>2, <1>3, <1>7, <1>8, <1>9 DEF h

\* A message is live until it is deleted, which is for good; a new one is the last.
LEMMA LiveEffect ==
  ASSUME TypeInv, FreshInv, [Next]_vars
  PROVE  /\ \A m \in Live' : m \in Live \/ (Send /\ m = last + 1)
         /\ \A m \in Id : Deleted(m) => Deleted(m)'
         /\ \A m \in Id : ~ Deleted(m) /\ Deleted(m)' => SoftDelete /\ m = op.id
<1>1. \/ deletedAt' = deletedAt
      \/ /\ SoftDelete
         /\ op.id \in Id /\ op.at \in Moment
         /\ \A m \in Id : deletedAt'[m] = IF m = op.id THEN op.at ELSE deletedAt[m]
  BY StampEffect
<1>2. \A m \in Moment : m # None
  BY SyncAssumption DEF Moment
<1>3. \A m \in Id : /\ Deleted(m) => Deleted(m)'
                    /\ ~ Deleted(m) /\ Deleted(m)' => SoftDelete /\ m = op.id
  BY <1>1, <1>2 DEF Deleted
<1>4. last' = last \/ (Send /\ last' = last + 1)
  BY DEF Next, vars, server, Send, Stamp, SoftDelete, Publish, Tick, Connect, Disconnect,
         Receive, StartSync, ReadRows, ReadDeletions, Answer, ReadPage, AnswerPage,
         LoseAnswer, Crash
<1>5. TypeOK' /\ last \in Nat
  BY TypeStep, OnTheSocket DEF TypeInv
<1>6. \A m \in Live' : m \in Id /\ m \in 1 .. last' /\ ~ Deleted(m)'
  <2>1. \A m \in 1 .. last' : m \in Id
    BY <1>5, SyncAssumption DEF TypeOK, Id
  <2>2. QED
    BY <2>1 DEF Live, Deleted
<1>7. QED
  BY <1>3, <1>4, <1>5, <1>6 DEF Live, Deleted

\* Steps that leave the socket and the stripe alone leave alone what is coming.
QuietOnSocket == wire' = wire /\ op' = op

LEMMA SocketUnchanged ==
  ASSUME QuietOnSocket
  PROVE  /\ OnTheWay' = OnTheWay /\ Leaving' = Leaving
         /\ \A m : Coming(m)' <=> Coming(m)
         /\ \A m : Going(m)' <=> Going(m)
<1>1. OnTheWay' = OnTheWay /\ Leaving' = Leaving
  BY DEF QuietOnSocket, OnTheWay, Leaving
<1>2. QED
  BY <1>1 DEF QuietOnSocket, Coming, Going

\* A frame stays on its way until the device reads it or the connection ends.
LEMMA StillUnderWay ==
  ASSUME TypeInv, Ordered, [Next]_vars, link # "down", link' # "down"
  PROVE  /\ \A m \in Id : Coming(m) =>
               Coming(m)' \/ (Receive /\ Head(wire).kind = "message" /\ Head(wire).id = m)
         /\ \A m \in Id : Going(m) =>
               Going(m)' \/ (Receive /\ Head(wire).kind = "deleted" /\ Head(wire).id = m)
<1>1. CASE QuietOnSocket
  BY <1>1, SocketUnchanged
<1>2. CASE Receive
  <2>1. op' = op
    BY <1>2 DEF Receive, server
  <2>2. QED
    BY <1>2, <2>1, Received DEF Coming, Going
<1>3. CASE Publish
  BY <1>3, Published DEF Coming, Going
<1>4. CASE Send \/ \E m \in Id : Stamp(m)
  <2>1. op = NoOp /\ wire' = wire
    BY <1>4 DEF Send, Stamp
  <2>2. OnTheWay' = OnTheWay /\ Leaving' = Leaving
    BY <2>1 DEF OnTheWay, Leaving
  <2>3. QED
    BY <2>1, <2>2 DEF Coming, Going, NoOp
<1>5. CASE SoftDelete
  <2>1. op.step = "stamped" /\ wire' = wire
    BY <1>5 DEF SoftDelete
  <2>2. OnTheWay' = OnTheWay /\ Leaving' = Leaving
    BY <2>1 DEF OnTheWay, Leaving
  <2>3. QED
    BY <2>1, <2>2 DEF Coming, Going
<1>6. CASE Tick \/ Connect \/ StartSync \/ ReadRows \/ ReadDeletions \/ Answer \/ ReadPage
           \/ AnswerPage \/ LoseAnswer \/ UNCHANGED vars
  <2>1. QuietOnSocket
    BY <1>6 DEF Tick, Connect, StartSync, ReadRows, ReadDeletions, Answer, ReadPage,
                AnswerPage, LoseAnswer, vars, server, QuietOnSocket
  <2>2. QED
    BY <2>1, SocketUnchanged
<1>7. CASE Disconnect \/ Crash
  BY <1>7 DEF Disconnect, Crash
<1>8. QED
  BY <1>1, <1>2, <1>3, <1>4, <1>5, <1>6, <1>7 DEF Next

\* The order of the frames.
LEMMA OrderedStep ==
  ASSUME TypeInv, FreshInv, WireInv, [Next]_vars
  PROVE  Ordered'
<1> USE DEF WireInv
<1>1. CASE wire' = wire
  BY <1>1 DEF Ordered
<1>2. CASE wire' = <<>>
  <2>1. Len(wire') = 0
    BY <1>2
  <2> QED
    BY <2>1 DEF Ordered
<1>3. CASE Receive
  <2>1. \A i \in 1 .. Len(wire') : i + 1 \in 1 .. Len(wire) /\ wire'[i] = wire[i + 1]
    BY <1>3, Received
  <2>2. \A i, j \in 1 .. Len(wire') : i < j => i + 1 < j + 1
    OBVIOUS
  <2>3. QED
    BY <2>1, <2>2 DEF Ordered
<1>4. CASE Publish /\ link # "down"
  <2>1. /\ Len(wire') = Len(wire) + 1 /\ Len(wire) \in Nat
        /\ wire'[Len(wire) + 1] = [kind |-> op.step, id |-> op.id]
        /\ \A i \in 1 .. Len(wire) : wire'[i] = wire[i]
    BY <1>4, Published
  <2>2. ASSUME NEW i \in 1 .. Len(wire'), NEW j \in 1 .. Len(wire'), i < j,
               wire'[j].kind = "message"
        PROVE  /\ wire'[i].id # wire'[j].id
               /\ wire'[i].kind = "message" => wire'[i].id < wire'[j].id
    <3>1. i \in 1 .. Len(wire) /\ wire'[i] = wire[i] /\ (j \in 1 .. Len(wire) \/ j = Len(wire) + 1)
      BY <2>1, <2>2
    <3>2. CASE j \in 1 .. Len(wire)
      BY <2>1, <2>2, <3>1, <3>2 DEF Ordered
    <3>3. CASE j = Len(wire) + 1
      <4>1. op.step = "message" /\ wire'[j].id = op.id /\ op.id = last
        BY <2>1, <2>2, <3>3 DEF Unsent
      <4>2. ~ Deleted(op.id) /\ op.id \notin OnTheWay
        BY <4>1 DEF FreshInv, Unsent
      <4>3. /\ wire[i].id \in Id /\ wire[i].id =< last /\ wire[i] \in Frame
            /\ wire[i].kind = "message" => wire[i].id \in OnTheWay
            /\ wire[i].kind = "deleted" => wire[i].id \in Leaving
            /\ Id \subseteq Nat /\ last \in Nat
        BY <3>1, OnTheSocket
      <4>4. wire[i].kind \in {"message", "deleted"}
        BY <4>3 DEF Frame
      <4>5. wire[i].id # op.id
        BY <4>2, <4>3, <4>4 DEF GoneOK, Going
      <4>6. wire[i].id < op.id \/ wire[i].id = op.id
        <5>1. wire[i].id \in Nat /\ last \in Nat /\ wire[i].id =< last /\ op.id = last
          BY <4>1, <4>3
        <5>2. QED
          BY <5>1
      <4>7. wire'[i] = wire[i] /\ wire'[j].id = op.id
        BY <3>1, <4>1
      <4>8. QED
        BY <4>5, <4>6, <4>7
    <3>4. QED
      BY <3>1, <3>2, <3>3
  <2>3. QED
    BY <2>2 DEF Ordered
<1>5. wire' = wire \/ wire' = <<>> \/ Receive \/ (Publish /\ link # "down")
  BY DEF Next, vars, server, device, Send, Stamp, SoftDelete, Publish, Tick, Connect,
         Disconnect, StartSync, ReadRows, ReadDeletions, Answer, ReadPage, AnswerPage,
         LoseAnswer, Crash
<1>6. QED
  BY <1>1, <1>2, <1>3, <1>4, <1>5

\* What is under way is what was sent last, with nothing left out.
LEMMA FollowersStep ==
  ASSUME TypeInv, FreshInv, WireInv, [Next]_vars
  PROVE  Unsent' /\ Followers'
<1> USE DEF WireInv
<1>0. /\ OnTheWay \subseteq Id /\ Id \subseteq Nat /\ last \in Nat
      /\ \A k \in OnTheWay : k =< last
      /\ NoOp.step = "none"
  BY OnTheSocket DEF NoOp
<1>1. CASE Send
  <2>1. /\ op'.step = "message" /\ op'.id = last + 1 /\ last' = last + 1 /\ wire' = wire
        /\ op = NoOp
    BY <1>1 DEF Send
  <2>2. OnTheWay' = OnTheWay
    BY <2>1 DEF OnTheWay
  <2>3. last + 1 \notin OnTheWay
    BY <1>0
  <2>4. ASSUME NEW k \in OnTheWay, NEW m \in Id, k < m, m =< last + 1
        PROVE  m \in OnTheWay \/ m = last + 1
    <3>1. m =< last \/ m = last + 1
      BY <1>0, <2>4
    <3>2. QED
      BY <1>0, <2>1, <2>4, <3>1 DEF Followers, Coming
  <2>5. QED
    BY <2>1, <2>2, <2>3, <2>4 DEF Unsent, Followers, Coming
<1>2. CASE QuietOnSocket /\ last' = last
  BY <1>2, SocketUnchanged DEF Unsent, Followers, QuietOnSocket
<1>3. CASE (\E m \in Id : Stamp(m)) \/ SoftDelete
  <2>1. op.step # "message" /\ op'.step # "message" /\ wire' = wire /\ last' = last
    <3>1. CASE \E m \in Id : Stamp(m)
      BY <1>0, <3>1 DEF Stamp
    <3>2. CASE SoftDelete
      <4>1. op \in Op /\ op.step = "stamped" /\ wire' = wire /\ last' = last
            /\ op' = [op EXCEPT !.step = "deleted", !.at = None]
        BY <3>2 DEF SoftDelete, TypeInv, TypeOK
      <4>2. op'.step = "deleted"
        BY <1>0, <4>1 DEF Op
      <4>3. QED
        BY <4>1, <4>2
    <3>3. QED
      BY <1>3, <3>1, <3>2
  <2>2. OnTheWay' = OnTheWay
    BY <2>1 DEF OnTheWay
  <2>3. QED
    BY <2>1, <2>2 DEF Unsent, Followers, Coming
<1>4. CASE Receive
  <2>1. op' = op /\ last' = last
    BY <1>4 DEF Receive, server
  <2>2. OnTheWay' \subseteq OnTheWay
    BY <1>4, Received
  <2>3. ASSUME NEW k \in OnTheWay', NEW m \in Id, k < m, m \in OnTheWay
        PROVE  m \in OnTheWay'
    <3>1. k \in Nat /\ m \in Nat /\ Head(wire).id \in Nat
      BY <1>0, <1>4, <2>2, Received
    <3>2. QED
      BY <1>4, <2>3, <3>1, Received
  <2>4. QED
    BY <1>0, <2>1, <2>2, <2>3 DEF Unsent, Followers, Coming
<1>5. CASE Publish
  <2>1. op' = NoOp /\ last' = last
    BY <1>5 DEF Publish
  <2>2. CASE link = "down"
    <3>1. wire' = <<>>
      BY <1>5, <2>2 DEF Publish, Linked
    <3>2. OnTheWay' = {}
      BY <3>1 DEF OnTheWay
    <3>3. QED
      BY <1>0, <2>1, <3>2 DEF Unsent, Followers
  <2>3. CASE link # "down"
    <3>1. /\ op.id \in Id
          /\ OnTheWay' = OnTheWay \cup (IF op.step = "message" THEN {op.id} ELSE {})
      BY <1>5, <2>3, Published
    <3>2. ASSUME NEW k \in OnTheWay', NEW m \in Id, k < m, m =< last
          PROVE  m \in OnTheWay'
      <4>1. k \in OnTheWay \/ (op.step = "message" /\ k = last)
        BY <3>1 DEF Unsent
      <4>2. k \in OnTheWay
        BY <1>0, <3>2, <4>1
      <4>3. QED
        BY <3>1, <3>2, <4>2 DEF Followers, Coming
    <3>3. QED
      BY <1>0, <2>1, <3>2 DEF Unsent, Followers, Coming
  <2>4. QED
    BY <2>2, <2>3
<1>6. CASE Disconnect \/ Crash
  <2>1. wire' = <<>> /\ last' = last /\ (op' = op \/ op' = NoOp)
    BY <1>6 DEF Disconnect, Crash, server
  <2>2. OnTheWay' = {}
    BY <2>1 DEF OnTheWay
  <2>3. QED
    BY <1>0, <2>1, <2>2 DEF Unsent, Followers
<1>7. CASE Tick \/ Connect \/ StartSync \/ ReadRows \/ ReadDeletions \/ Answer \/ ReadPage
           \/ AnswerPage \/ LoseAnswer \/ UNCHANGED vars
  BY <1>2, <1>7 DEF Tick, Connect, StartSync, ReadRows, ReadDeletions, Answer, ReadPage,
                AnswerPage, LoseAnswer, vars, server, QuietOnSocket
<1>8. QED
  BY <1>1, <1>3, <1>4, <1>5, <1>6, <1>7 DEF Next

\* The frame of a deletion speaks of a deleted message.
LEMMA GoneStep ==
  ASSUME TypeInv, FreshInv, WireInv, [Next]_vars
  PROVE  GoneOK'
<1> USE DEF WireInv
<1>1. ASSUME NEW m \in Id, Going(m)'
      PROVE  Going(m) \/ (SoftDelete /\ m = op.id)
  <2>1. CASE QuietOnSocket
    BY <1>1, <2>1, SocketUnchanged
  <2>2. CASE Receive
    <3>1. op' = op
      BY <2>2 DEF Receive, server
    <3>2. QED
      BY <1>1, <2>2, <3>1, Received DEF Going
  <2>3. CASE Publish /\ link # "down"
    <3>1. op' = NoOp
      BY <2>3 DEF Publish
    <3>2. QED
      BY <1>1, <2>3, <3>1, Published DEF Going, NoOp
  <2>4. CASE Publish /\ link = "down"
    <3>1. op' = NoOp /\ wire' = wire
      BY <2>4 DEF Publish
    <3>2. Leaving' = Leaving
      BY <3>1 DEF Leaving
    <3>3. QED
      BY <1>1, <3>1, <3>2 DEF Going, NoOp
  <2>5. CASE Send \/ (\E k \in Id : Stamp(k)) \/ SoftDelete
    <3>1. Leaving' = Leaving
      BY <2>5 DEF Send, Stamp, SoftDelete, Leaving
    <3>2. op'.step = "deleted" => SoftDelete /\ op'.id = op.id
      <4>1. CASE Send \/ (\E k \in Id : Stamp(k))
        BY <4>1 DEF Send, Stamp
      <4>2. CASE SoftDelete
        <5>1. op' = [op EXCEPT !.step = "deleted", !.at = None] /\ op \in Op /\ op # NoOp
          BY <4>2 DEF SoftDelete, TypeInv, TypeOK, NoOp
        <5>2. op'.id = op.id
          BY <5>1 DEF Op
        <5>3. QED
          BY <4>2, <5>2
      <4>3. QED
        BY <2>5, <4>1, <4>2
    <3>3. QED
      BY <1>1, <3>1, <3>2 DEF Going
  <2>6. CASE Disconnect \/ Crash
    <3>1. wire' = <<>> /\ (op' = op \/ op' = NoOp)
      BY <2>6 DEF Disconnect, Crash, server
    <3>2. Leaving' = {}
      BY <3>1 DEF Leaving
    <3>3. QED
      BY <1>1, <3>1, <3>2 DEF Going, NoOp
  <2>7. CASE Tick \/ Connect \/ StartSync \/ ReadRows \/ ReadDeletions \/ Answer \/ ReadPage
             \/ AnswerPage \/ LoseAnswer \/ UNCHANGED vars
    BY <2>1, <2>7 DEF Tick, Connect, StartSync, ReadRows, ReadDeletions, Answer, ReadPage,
                  AnswerPage, LoseAnswer, vars, server, QuietOnSocket
  <2>8. QED
    BY <2>1, <2>2, <2>3, <2>4, <2>5, <2>6, <2>7 DEF Next
<1>3. \A m \in Id : Deleted(m) => Deleted(m)'
  BY LiveEffect
<1>4. ASSUME NEW m \in Id, Going(m)'
      PROVE  Deleted(m)'
  <2>1. CASE Going(m)
    BY <1>3, <2>1 DEF GoneOK
  <2>2. CASE SoftDelete /\ m = op.id
    <3>1. op.id \in Id /\ op.at \in Moment
      BY <2>2 DEF SoftDelete, TypeInv, TypeOK, Op, NoOp
    <3>2. deletedAt'[op.id] = op.at /\ op.at # None
      BY <2>2, <3>1, SyncAssumption DEF SoftDelete, TypeInv, TypeOK, Moment
    <3>3. QED
      BY <2>2, <3>2 DEF Deleted
  <2>3. QED
    BY <1>1, <1>4, <2>1, <2>2
<1>5. QED
  BY <1>4 DEF GoneOK

\* The socket of a request.
LEMMA LinkedStep ==
  ASSUME TypeInv, WireInv, [Next]_vars
  PROVE  Linked'
<1> USE DEF WireInv, Linked, Syncing
<1>0. NoReq.step = "none" /\ NoReq.covers = FALSE
  BY DEF NoReq
<1>1. CASE Disconnect
  <2>1. req' = [req EXCEPT !.covers = FALSE] /\ link' = "down" /\ wire' = <<>>
    BY <1>1 DEF Disconnect
  <2>2. req'.covers = FALSE
    <3>1. req = NoReq \/ req \in Sync \/ req \in History
      BY DEF TypeInv, TypeOK, Req
    <3>2. QED
      BY <2>1, <3>1 DEF NoReq, Sync, History
  <2>3. QED
    BY <2>1, <2>2
<1>2. CASE Crash
  BY <1>0, <1>2 DEF Crash
<1>3. CASE Connect
  BY <1>3 DEF Connect
<1>4. CASE StartSync
  <2>1. req'.covers = (link # "down") /\ link' = link /\ wire' = wire
    BY <1>4 DEF StartSync, NoReq
  <2>2. QED
    BY <2>1
<1>5. CASE ReadRows \/ ReadDeletions
  <2>1. req'.covers = req.covers /\ Syncing /\ link' = link /\ wire' = wire
    <3>1. Syncing /\ req \in Sync
      BY <1>5, RequestKinds DEF ReadRows, ReadDeletions, TypeInv
    <3>2. QED
      BY <1>5, <3>1 DEF ReadRows, ReadDeletions, Sync
  <2>2. QED
    BY <2>1
<1>6. CASE ReadPage
  <2>1. req'.covers = FALSE /\ req'.step = "page" /\ link' = link /\ wire' = wire
    BY <1>6 DEF ReadPage, NoReq
  <2>2. QED
    BY <2>1
<1>7. CASE Answer
  <2>1. req' = NoReq /\ wire' = wire /\ (link' = link \/ (req.covers /\ link' = "synced"))
    BY <1>7 DEF Answer
  <2>2. QED
    BY <1>0, <2>1
<1>8. CASE AnswerPage \/ LoseAnswer
  BY <1>0, <1>8 DEF AnswerPage, LoseAnswer
<1>9. CASE Receive
  <2>1. req' = req /\ link' = link /\ wire # <<>>
    BY <1>9 DEF Receive
  <2>2. QED
    BY <2>1
<1>10. CASE Publish
  <2>1. req' = req /\ link' = link /\ (link = "down" => wire' = wire)
    BY <1>10 DEF Publish
  <2>2. QED
    BY <2>1
<1>11. CASE Send \/ (\E m \in Id : Stamp(m)) \/ SoftDelete \/ Tick \/ UNCHANGED vars
  BY <1>11 DEF Send, Stamp, SoftDelete, Tick, vars, server
<1>12. QED
  BY <1>1, <1>2, <1>3, <1>4, <1>5, <1>6, <1>7, <1>8, <1>9, <1>10, <1>11 DEF Next

\* Every step keeps what is known of the socket.
LEMMA WireStep ==
  ASSUME TypeInv, FreshInv, WireInv, [Next]_vars
  PROVE  WireInv'
BY OrderedStep, FollowersStep, GoneStep, LinkedStep DEF WireInv

-----------------------------------------------------------------------------
(* The range of the device: it has no holes, and what it lacks is coming.  *)

(* A device that has synced on its connection has, or is being sent, every *)
(* message from its oldest on, and every message if it was told of no more. *)
SyncedInv ==
    link = "synced" =>
        /\ \A m \in Live, l \in held : l < m => m \in held \/ Coming(m)
        /\ ~ more => \A m \in Live : m \in held \/ Coming(m)

(* The messages an answer speaks of, whether or not it has them: those     *)
(* after the cursor, or with a reset all from its oldest row on.           *)
Spoken(m) ==
    IF req.reset THEN req.more => \E l \in req.rows : l < m
    ELSE m > req.cursor

(* What an answer speaks of and does not have came after its rows, and is  *)
(* coming on the socket if there was one when the device asked.            *)
AnswerAhead ==
    /\ ~ req.reset => req.cursor # None /\ \A r \in req.rows : r > req.cursor
    /\ \A m \in Live \ req.rows : Spoken(m) =>
          /\ \A r \in req.rows : r < m
          /\ req.covers => Coming(m)

(* What a page of history does not have is older than the page.            *)
PageAhead ==
    /\ held # {}
    /\ \A r \in req.rows, h \in held : r < h
    /\ \A m \in Live \ req.rows : (\A h \in held : m < h) =>
          /\ \A r \in req.rows : m < r
          /\ req.more

CursorIsTop ==
    Syncing => IF held = {} THEN req.cursor = None ELSE req.cursor \in Highest

AheadInv ==
    /\ CursorIsTop
    /\ req.step \in {"deletions", "answer"} => AnswerAhead
    /\ \A m \in req.deleted : Deleted(m)
    /\ req.step = "page" => PageAhead

Contiguous == NoHoles /\ MoreIsTrue

RangeInv == TypeInv /\ FreshInv /\ WireInv /\ SyncedInv /\ AheadInv /\ Contiguous

-----------------------------------------------------------------------------

\* Everything about ids and rows is about natural numbers.
LEMMA Numbers ==
  ASSUME TypeInv
  PROVE  /\ Id \subseteq Nat /\ None \notin Id /\ last \in Nat
         /\ held \subseteq Id /\ req.rows \subseteq Id /\ Live \subseteq Id
         /\ \A m \in held : m =< last
         /\ \A m \in req.rows : m =< last
         /\ \A m \in Live : m =< last /\ ~ Deleted(m)
         /\ IsFiniteSet(Live)
<1>1. Id \subseteq Nat /\ None \notin Id /\ last \in Nat /\ last =< MaxId
  BY SyncAssumption DEF TypeInv, TypeOK, Id
<1>2. held \subseteq 1 .. last /\ req.rows \subseteq 1 .. last
  BY DEF TypeInv, TypeOK, Sent
<1>3. Live \subseteq 1 .. last /\ \A m \in Live : ~ Deleted(m)
  BY LiveMessages DEF TypeInv
<1>4. IsFiniteSet(Live)
  <2>1. IsFiniteSet(1 .. last)
    BY <1>1, FS_Interval
  <2>2. QED
    BY <1>3, <2>1, FS_Subset
<1>5. 1 .. last \subseteq Id /\ \A m \in 1 .. last : m =< last
  BY <1>1, SyncAssumption DEF Id
<1>6. QED
  BY <1>1, <1>2, <1>3, <1>4, <1>5

\* A request's cursor is the newest message the device holds, None without one.
LEMMA CursorTop ==
  ASSUME TypeInv, AheadInv, Syncing
  PROVE  /\ held = {} => req.cursor = None
         /\ held # {} => req.cursor \in held /\ \A h \in held : h =< req.cursor
         /\ req.cursor # None => held # {}
<1>1. IF held = {} THEN req.cursor = None ELSE req.cursor \in Highest
  BY DEF AheadInv, CursorIsTop
<1>2. QED
  BY <1>1 DEF Highest

\* What the device takes over from an answer: a live message is either in it,
\* or newer than all of it and coming, or not spoken of.
LEMMA AnswerTaken ==
  ASSUME TypeInv, AheadInv, Answer
  PROVE  /\ Syncing /\ req \in Sync /\ req.reset \in BOOLEAN
         /\ held' = ((IF req.reset THEN {} ELSE held) \cup req.rows) \ req.deleted
         /\ \A m \in Live : m \notin req.deleted
         /\ \A m \in Live : m \in req.rows => m \in held'
         /\ AnswerAhead
         /\ Live' = Live
<1>1. req.step = "answer" /\ Syncing /\ req \in Sync
  BY RequestKinds DEF Answer, Syncing, TypeInv
<1>2. held' = ((IF req.reset THEN {} ELSE held) \cup req.rows) \ req.deleted
  BY DEF Answer
<1>3. \A m \in Live : m \notin req.deleted
  BY Numbers DEF AheadInv
<1>4. Live' = Live
  BY DEF Answer, server, Live
<1>5. req.reset \in BOOLEAN /\ AnswerAhead
  BY <1>1 DEF Sync, AheadInv
<1>6. QED
  BY <1>1, <1>2, <1>3, <1>4, <1>5

\* After a delta: what is live and not newer than the cursor is in the range, or
\* older than all of it.
LEMMA DeltaOlder ==
  ASSUME TypeInv, AheadInv, NoHoles, Answer, ~ req.reset,
         NEW m \in Live, ~ (m > req.cursor)
  PROVE  m \in held' \/ \A h \in held' : m < h
<1>1. /\ held' = (held \cup req.rows) \ req.deleted /\ Syncing
      /\ req.cursor # None /\ \A r \in req.rows : r > req.cursor
      /\ m \notin req.deleted
  BY AnswerTaken DEF AnswerAhead
<1>2. req.cursor \in held /\ \A h \in held : h =< req.cursor
  BY <1>1, CursorTop
<1>3. /\ m \in Nat /\ req.cursor \in Nat
      /\ \A h \in held : h \in Nat
      /\ \A r \in req.rows : r \in Nat
  BY <1>2, Numbers
<1>4. ASSUME m \notin held
      PROVE  \A h \in held : m < h
  <2>1. m < req.cursor
    <3>1. m # req.cursor
      BY <1>2, <1>4
    <3>2. QED
      BY <1>3, <3>1
  <2>2. ASSUME NEW l \in held, ~ (m < l)
        PROVE  FALSE
    <3>1. l < m
      BY <1>3, <1>4, <2>2
    <3>2. QED
      BY <1>2, <1>4, <2>1, <3>1 DEF NoHoles
  <2>3. QED
    BY <2>2
<1>5. CASE m \in held
  BY <1>1, <1>5
<1>6. CASE m \notin held
  <2>1. \A r \in req.rows : m < r
    BY <1>1, <1>3
  <2>2. QED
    BY <1>1, <1>4, <1>6, <2>1
<1>7. QED
  BY <1>5, <1>6

\* After any answer: a live message is in the range, or newer than all of it and
\* coming if the answer covers the connection, or older than all of it and the
\* device has been told of more.
LEMMA AfterAnswer ==
  ASSUME TypeInv, AheadInv, Contiguous, Answer,
         NEW m \in Live
  PROVE  \/ m \in held'
         \/ (\A h \in held' : h < m) /\ (req.covers => Coming(m))
         \/ (\A h \in held' : m < h) /\ more'
<1>0. /\ Syncing /\ req \in Sync /\ req.reset \in BOOLEAN
      /\ held' = ((IF req.reset THEN {} ELSE held) \cup req.rows) \ req.deleted
      /\ m \notin req.deleted
      /\ m \in req.rows => m \in held'
      /\ AnswerAhead
      /\ more' = IF req.reset THEN req.more ELSE more
  BY AnswerTaken DEF Answer
<1>1. /\ m \in Nat
      /\ \A h \in held : h \in Nat
      /\ \A r \in req.rows : r \in Nat
  BY Numbers
<1>2. CASE m \in req.rows
  BY <1>0, <1>2
<1>3. CASE m \notin req.rows /\ Spoken(m)
  <2>1. (\A r \in req.rows : r < m) /\ (req.covers => Coming(m))
    BY <1>0, <1>3 DEF AnswerAhead
  <2>2. CASE req.reset
    BY <1>0, <2>1, <2>2
  <2>3. CASE ~ req.reset
    <3>1. m > req.cursor /\ req.cursor # None
      BY <1>0, <1>3, <2>3 DEF Spoken, AnswerAhead
    <3>2. req.cursor \in held /\ \A h \in held : h =< req.cursor
      BY <1>0, <3>1, CursorTop
    <3>3. \A h \in held : h < m
      BY <1>1, <3>1, <3>2
    <3>4. QED
      BY <1>0, <2>1, <2>3, <3>3
  <2>4. QED
    BY <1>0, <2>2, <2>3
<1>4. CASE m \notin req.rows /\ ~ Spoken(m) /\ req.reset
  <2>1. req.more /\ ~ \E l \in req.rows : l < m
    BY <1>4 DEF Spoken
  <2>2. \A r \in req.rows : m < r
    BY <1>1, <1>4, <2>1
  <2>3. QED
    BY <1>0, <1>4, <2>1, <2>2
<1>5. CASE m \notin req.rows /\ ~ Spoken(m) /\ ~ req.reset
  <2>1. ~ (m > req.cursor) /\ req.cursor # None
    BY <1>0, <1>5 DEF Spoken, AnswerAhead
  <2>2. m \in held' \/ \A h \in held' : m < h
    BY <1>5, <2>1, DeltaOlder DEF Contiguous
  <2>3. CASE more
    <3>1. more'
      BY <1>0, <1>5, <2>3
    <3>2. QED
      BY <2>2, <3>1
  <2>4. CASE ~ more
    <3>1. held # {} /\ req.cursor \in held /\ \A h \in held : h =< req.cursor
      BY <1>0, <2>1, CursorTop
    <3>2. PICK l \in held : l =< m
      BY <2>4, <3>1 DEF Contiguous, MoreIsTrue
    <3>3. m \in held
      <4>1. CASE l = m \/ m = req.cursor
        BY <3>1, <4>1
      <4>2. CASE l # m /\ m # req.cursor
        <5>1. l < m /\ m < req.cursor
          BY <1>1, <2>1, <3>1, <3>2, <4>2
        <5>2. QED
          BY <3>1, <5>1 DEF Contiguous, NoHoles
      <4>3. QED
        BY <4>1, <4>2
    <3>4. QED
      BY <1>0, <1>5, <3>3
  <2>5. QED
    BY <2>3, <2>4
<1>6. QED
  BY <1>0, <1>2, <1>3, <1>4, <1>5

\* After a page of history: a live message is in the page, or older than the
\* range and the device has been told of more, or not older than what it held.
LEMMA AfterPage ==
  ASSUME TypeInv, AheadInv, AnswerPage,
         NEW m \in Live
  PROVE  /\ held' = held \cup req.rows /\ Live' = Live /\ held # {} /\ more' = req.more
         /\ \A r \in req.rows, h \in held : r < h
         /\ \/ m \in req.rows
            \/ (\A h \in held' : m < h) /\ more'
            \/ \E h \in held : h =< m
<1>0. held' = held \cup req.rows /\ Live' = Live /\ PageAhead /\ more' = req.more
  BY DEF AnswerPage, AheadInv, server, Live
<1>1. m \in Nat /\ \A h \in held : h \in Nat
  BY Numbers
<1>2. CASE m \notin req.rows /\ \A h \in held : m < h
  BY <1>0, <1>2 DEF PageAhead
<1>3. CASE \E h \in held : ~ (m < h)
  BY <1>0, <1>1, <1>3 DEF PageAhead
<1>4. QED
  BY <1>0, <1>2, <1>3 DEF PageAhead

\* A range without holes stays one, and the end of the history is not announced
\* too early.
LEMMA ContiguousStep ==
  ASSUME RangeInv, [Next]_vars
  PROVE  Contiguous'
<1> USE DEF RangeInv
<1>0. /\ Id \subseteq Nat /\ last \in Nat
      /\ held \subseteq Id /\ Live \subseteq Id
      /\ \A m \in held : m \in Nat /\ m =< last
      /\ \A m \in Live : m \in Nat /\ m =< last /\ ~ Deleted(m)
      /\ req.rows \subseteq Id
      /\ \A m \in req.rows : m \in Nat
  BY Numbers
<1>1. CASE held' = held /\ more' = more /\ ~ Send
  <2>1. Live' \subseteq Live
    BY <1>1, LiveEffect
  <2>2. QED
    BY <1>1, <2>1 DEF Contiguous, NoHoles, MoreIsTrue
<1>2. CASE Send
  <2>1. held' = held /\ more' = more
    BY <1>2 DEF Send, device
  <2>2. \A m \in Live' : m \in Live \/ m = last + 1
    BY LiveEffect
  <2>3. \A h \in held : ~ (last + 1 < h) /\ h =< last + 1
    BY <1>0
  <2>4. QED
    BY <2>1, <2>2, <2>3 DEF Contiguous, NoHoles, MoreIsTrue
<1>3. CASE Receive
  <2> DEFINE f == Head(wire)
  <2>1. Live' = Live /\ more' = more
    BY <1>3 DEF Receive, server, Live
  <2>2. CASE held' = held
    BY <2>1, <2>2 DEF Contiguous, NoHoles, MoreIsTrue
  <2>3. CASE link = "synced" /\ f.kind = "deleted"
    <3>1. held' = held \ {f.id}
      BY <1>3, <2>3 DEF Receive
    <3>2. f.id \in Leaving /\ f.id \in Id
      BY <1>3, <2>3, Received DEF WireInv
    <3>3. f.id \notin Live
      BY <1>0, <3>2 DEF WireInv, GoneOK, Going
    <3>4. NoHoles'
      BY <2>1, <3>1, <3>3 DEF Contiguous, NoHoles
    <3>5. ASSUME held' # {}, ~ more, NEW m \in Live
          PROVE  \E l \in held' : l =< m
      <4>1. PICK h \in held' : TRUE
        BY <3>5
      <4>2. PICK l \in held : l =< m
        BY <3>1, <3>5 DEF Contiguous, MoreIsTrue
      <4>3. h \in held /\ h \in Nat /\ m \in Nat /\ l \in Nat
        BY <1>0, <3>1, <4>1
      <4>4. CASE h =< m
        BY <4>4
      <4>5. CASE m \in held
        BY <1>0, <3>1, <3>3, <4>5
      <4>6. CASE ~ (h =< m) /\ m \notin held
        <5>1. l < m /\ m < h
          BY <4>2, <4>3, <4>6
        <5>2. QED
          BY <4>3, <4>6, <5>1 DEF Contiguous, NoHoles
      <4>7. QED
        BY <4>4, <4>5, <4>6
    <3>6. QED
      BY <2>1, <3>4, <3>5 DEF Contiguous, MoreIsTrue
  <2>4. CASE link = "synced" /\ f.kind = "message" /\ Newer(f.id)
    <3>1. held' = held \cup {f.id}
      BY <1>3, <2>4 DEF Receive
    <3>2. /\ f.id \in OnTheWay /\ f.id \in Id /\ f.id \in Nat /\ f.id =< last
          /\ OnTheWay' = OnTheWay \ {f.id}
          /\ \A k \in OnTheWay' : f.id < k
          /\ \A h \in held : h < f.id
      BY <1>0, <1>3, <2>4, Received DEF WireInv, Newer
    <3>3. ASSUME NEW m \in Live, Coming(m)
          PROVE  f.id =< m
      <4>1. m \in OnTheWay \/ m = last
        BY <3>3 DEF Coming, WireInv, Unsent
      <4>2. m \in OnTheWay => m = f.id \/ f.id < m
        BY <3>2
      <4>3. QED
        BY <1>0, <3>2, <4>1, <4>2
    <3>4. ASSUME NEW l \in held', NEW h \in held', NEW m \in Live, l < m, m < h
          PROVE  m \in held'
      <4>1. CASE l \in held /\ h \in held
        BY <3>1, <3>4, <4>1 DEF Contiguous, NoHoles
      <4>2. CASE l = f.id
        <5>1. h \in Nat /\ h =< f.id /\ m \in Nat
          BY <1>0, <3>1, <3>2
        <5>2. QED
          BY <3>2, <3>4, <4>2, <5>1
      <4>3. CASE l \in held /\ h = f.id
        <5>1. m \in held \/ Coming(m)
          BY <2>4, <3>4, <4>3 DEF SyncedInv
        <5>2. ~ Coming(m)
          BY <1>0, <3>2, <3>3, <3>4, <4>3
        <5>3. QED
          BY <3>1, <5>1, <5>2
      <4>4. QED
        BY <3>1, <4>1, <4>2, <4>3
    <3>5. ASSUME ~ more, NEW m \in Live
          PROVE  \E l \in held' : l =< m
      <4>1. m \in held \/ Coming(m)
        BY <2>4, <3>5 DEF SyncedInv
      <4>2. m \in held => m =< m
        BY <1>0
      <4>3. QED
        BY <3>1, <3>3, <4>1, <4>2
    <3>6. QED
      BY <2>1, <3>4, <3>5 DEF Contiguous, NoHoles, MoreIsTrue
  <2>5. QED
    BY <1>3, <2>2, <2>3, <2>4 DEF Receive
<1>4. CASE Answer
  <2>1. Live' = Live
    BY <1>4, AnswerTaken
  <2>2. \A m \in Live : \/ m \in held'
                        \/ (\A h \in held' : h < m)
                        \/ (\A h \in held' : m < h) /\ more'
    BY <1>4, AfterAnswer
  <2>3. \A h \in held' : h \in Nat
    BY <1>0, <1>4, AnswerTaken
  <2>4. NoHoles'
    BY <1>0, <2>1, <2>2, <2>3 DEF NoHoles
  <2>5. ASSUME held' # {}, ~ more', NEW m \in Live
        PROVE  \E l \in held' : l =< m
    <3>1. PICK h \in held' : TRUE
      BY <2>5
    <3>2. CASE m \in held'
      BY <1>0, <3>2
    <3>3. CASE \A g \in held' : g < m
      BY <1>0, <2>3, <3>1, <3>3
    <3>4. QED
      BY <2>2, <2>5, <3>2, <3>3
  <2>6. QED
    BY <2>1, <2>4, <2>5 DEF Contiguous, MoreIsTrue
<1>5. CASE AnswerPage
  <2>1. held' = held \cup req.rows
    BY <1>5 DEF AnswerPage
  <2>2. Live' = Live /\ PageAhead /\ more' = req.more
    BY <1>5 DEF AnswerPage, AheadInv, server, Live
  <2>3. \A m \in Live : \/ m \in req.rows
                        \/ (\A h \in held' : m < h) /\ more'
                        \/ \E h \in held : h =< m
    BY <1>5, AfterPage
  <2>4. ASSUME NEW l \in held', NEW h \in held', NEW m \in Live, l < m, m < h
        PROVE  m \in held'
    <3>1. CASE m \in req.rows
      BY <2>1, <3>1
    <3>2. CASE \A g \in held' : m < g
      BY <1>0, <2>1, <2>4, <3>2
    <3>3. ASSUME NEW g \in held, g =< m
          PROVE  m \in held'
      <4>1. g \in Nat /\ m \in Nat /\ h \in Nat
        BY <1>0, <2>1
      <4>2. g < h
        BY <2>4, <3>3, <4>1
      <4>3. h \in held
        <5>1. h \in req.rows => h < g
          BY <2>2, <3>3 DEF PageAhead
        <5>2. QED
          BY <2>1, <4>1, <4>2, <5>1
      <4>4. g = m \/ g < m
        BY <3>3, <4>1
      <4>5. QED
        BY <2>1, <2>4, <3>3, <4>3, <4>4 DEF Contiguous, NoHoles
    <3>4. QED
      BY <2>3, <3>1, <3>2, <3>3
  <2>5. ASSUME ~ more', NEW m \in Live
        PROVE  \E l \in held' : l =< m
    BY <1>0, <2>1, <2>3, <2>5
  <2>6. QED
    BY <2>2, <2>4, <2>5 DEF Contiguous, NoHoles, MoreIsTrue
<1>6. CASE (\E m \in Id : Stamp(m)) \/ SoftDelete \/ Publish \/ Tick \/ Connect \/ Disconnect
           \/ StartSync \/ ReadRows \/ ReadDeletions \/ ReadPage \/ LoseAnswer \/ Crash
           \/ UNCHANGED vars
  <2>1. held' = held /\ more' = more
    BY <1>6 DEF Stamp, SoftDelete, Publish, Tick, Connect, Disconnect, StartSync, ReadRows,
                ReadDeletions, ReadPage, LoseAnswer, Crash, vars, server, device
  <2>2. QED
    BY <1>1, <1>2, <2>1
<1>7. QED
  BY <1>2, <1>3, <1>4, <1>5, <1>6 DEF Next

\* What a synced device lacks stays on its way.
LEMMA SyncedStep ==
  ASSUME RangeInv, [Next]_vars
  PROVE  SyncedInv'
<1> USE DEF RangeInv
<1>0. /\ Id \subseteq Nat /\ last \in Nat
      /\ held \subseteq Id /\ Live \subseteq Id
      /\ \A m \in held : m \in Nat /\ m =< last
      /\ \A m \in Live : m \in Nat /\ m =< last /\ ~ Deleted(m)
  BY Numbers
<1>1. CASE link' # "synced"
  BY <1>1 DEF SyncedInv
<1>2. ASSUME link = "synced", link' = "synced", ~ Receive,
             NEW m \in Live', m \in held \/ Coming(m)
      PROVE  m \in held \/ Coming(m)'
  <2>1. m \in Id
    <3>1. m \in Live \/ (Send /\ m = last + 1)
      BY <1>2, LiveEffect
    <3>2. Send => last + 1 \in Id
      BY <1>0, SyncAssumption DEF Send, Id
    <3>3. QED
      BY <1>0, <3>1, <3>2
  <2>2. QED
    BY <1>2, <2>1, StillUnderWay DEF WireInv
<1>3. CASE link = "synced" /\ link' = "synced" /\ held' = held /\ more' = more
           /\ ~ Receive /\ ~ Send
  <2>1. Live' \subseteq Live
    BY <1>3, LiveEffect
  <2>2. QED
    BY <1>2, <1>3, <2>1 DEF SyncedInv
<1>4. CASE link' = "synced" /\ Send
  <2>1. held' = held /\ more' = more /\ link' = link /\ op' = [step |-> "message", id |-> last + 1, at |-> None]
    BY <1>4 DEF Send, device
  <2>2. \A m \in Live' : m \in Live \/ m = last + 1
    BY LiveEffect
  <2>3. ASSUME NEW m, m = last + 1
        PROVE  Coming(m)'
    BY <2>1, <2>3 DEF Coming
  <2>4. ~ Receive
    BY <2>1, <1>4 DEF Receive, Send, server
  <2>5. QED
    BY <1>2, <1>4, <2>1, <2>2, <2>3, <2>4 DEF SyncedInv
<1>5. CASE link' = "synced" /\ Receive
  <2> DEFINE f == Head(wire)
  <2>1. Live' = Live /\ more' = more /\ link' = link /\ op' = op
    BY <1>5 DEF Receive, server, Live
  <2>2. f.id \in Id /\ f.id \in Nat /\ f.kind \in {"message", "deleted"}
    BY <1>0, <1>5, Received DEF WireInv
  <2>3. CASE f.kind = "deleted"
    <3>1. held' = held \ {f.id} /\ OnTheWay' = OnTheWay
      BY <1>5, <2>1, <2>3, Received DEF Receive, WireInv
    <3>2. f.id \notin Live
      BY <1>0, <1>5, <2>2, <2>3, Received DEF WireInv, GoneOK, Going
    <3>3. \A m : Coming(m)' <=> Coming(m)
      BY <2>1, <3>1 DEF Coming
    <3>4. QED
      BY <1>5, <2>1, <3>1, <3>2, <3>3 DEF SyncedInv
  <2>4. CASE f.kind = "message"
    <3>1. /\ f.id \in OnTheWay /\ OnTheWay' = OnTheWay \ {f.id}
          /\ \A k \in OnTheWay' : f.id < k
      BY <1>5, <2>4, Received DEF WireInv
    <3>2. \A m : Coming(m) => Coming(m)' \/ m = f.id
      BY <2>1, <3>1 DEF Coming
    <3>3. held' = IF Newer(f.id) THEN held \cup {f.id} ELSE held
      BY <1>5, <2>1, <2>4 DEF Receive
    <3>4. ASSUME NEW m \in Live, m \in held \/ Coming(m), (\E l \in held' : l < m) \/ ~ more
          PROVE  m \in held' \/ Coming(m)'
      <4>1. CASE m # f.id \/ m \in held \/ Newer(f.id)
        BY <3>2, <3>3, <3>4, <4>1
      <4>2. CASE m = f.id /\ ~ Newer(f.id)
        <5>1. held' = held
          BY <3>3, <4>2
        <5>2. PICK h \in held : ~ (m > h)
          BY <4>2 DEF Newer
        <5>3. PICK l \in held : l =< m
          BY <1>0, <3>4, <5>1, <5>2 DEF Contiguous, MoreIsTrue
        <5>4. l \in Nat /\ h \in Nat /\ m \in Nat
          BY <1>0
        <5>5. CASE l = m \/ h = m
          BY <5>1, <5>5
        <5>6. CASE l < m /\ m < h
          BY <5>1, <5>6 DEF Contiguous, NoHoles
        <5>7. QED
          BY <5>2, <5>3, <5>4, <5>5, <5>6
      <4>3. QED
        BY <4>1, <4>2
    <3>5. ASSUME NEW m \in Live, NEW l \in held', l < m
          PROVE  m \in held \/ Coming(m)
      <4>1. CASE l \in held
        BY <1>5, <2>1, <3>5, <4>1 DEF SyncedInv
      <4>2. CASE l = f.id
        BY <1>0, <3>1, <3>5, <4>2 DEF WireInv, Followers
      <4>3. QED
        BY <3>3, <3>5, <4>1, <4>2
    <3>6. \A m \in Live : ~ more => m \in held \/ Coming(m)
      BY <1>5, <2>1 DEF SyncedInv
    <3>7. QED
      BY <2>1, <3>4, <3>5, <3>6 DEF SyncedInv
  <2>5. QED
    BY <2>2, <2>3, <2>4
<1>6. CASE link' = "synced" /\ Answer
  <2>1. Live' = Live /\ Syncing
    BY <1>6, AnswerTaken
  <2>2. req.covers
    BY <1>6, <2>1 DEF Answer, WireInv, Linked
  <2>3. \A m : Coming(m)' <=> Coming(m)
    <3>1. QuietOnSocket
      BY <1>6 DEF Answer, QuietOnSocket, server
    <3>2. QED
      BY <3>1, SocketUnchanged
  <2>4. \A m \in Live : \/ m \in held'
                        \/ Coming(m)
                        \/ (\A h \in held' : m < h) /\ more'
    BY <1>6, <2>2, AfterAnswer
  <2>5. \A h \in held' : h \in Nat
    <3>1. TypeOK'
      BY TypeStep DEF TypeInv
    <3>2. QED
      BY <3>1, SyncAssumption DEF TypeOK
  <2>6. ASSUME NEW m \in Live, NEW l \in held', l < m
        PROVE  m \in held' \/ Coming(m)
    <3>1. ~ (m < l)
      BY <1>0, <2>5, <2>6
    <3>2. QED
      BY <2>4, <3>1
  <2>7. QED
    BY <2>1, <2>3, <2>4, <2>6 DEF SyncedInv
<1>7. CASE link' = "synced" /\ AnswerPage
  <2>1. /\ held' = held \cup req.rows /\ link' = link /\ Live' = Live
        /\ more' = req.more /\ PageAhead /\ QuietOnSocket
    BY <1>7 DEF AnswerPage, AheadInv, server, Live, QuietOnSocket
  <2>2. \A m : Coming(m)' <=> Coming(m)
    BY <2>1, SocketUnchanged
  <2>3. \A m \in Live : \/ m \in req.rows
                        \/ (\A h \in held' : m < h) /\ more'
                        \/ \E h \in held : h =< m
    BY <1>7, AfterPage
  <2>4. \A r \in req.rows : r \in Nat
    BY Numbers
  <2>5. ASSUME NEW m \in Live, NEW h \in held, h =< m
        PROVE  m \in held \/ Coming(m)
    <3>1. h = m \/ h < m
      BY <1>0, <2>5
    <3>2. QED
      BY <1>7, <2>1, <2>5, <3>1 DEF SyncedInv
  <2>6. ASSUME NEW m \in Live, NEW l \in held', l < m
        PROVE  m \in held' \/ Coming(m)
    <3>1. ~ (m < l)
      BY <1>0, <2>1, <2>4, <2>6
    <3>2. QED
      BY <2>1, <2>3, <2>5, <3>1
  <2>7. \A m \in Live : ~ more' => m \in held' \/ Coming(m)
    BY <2>1, <2>3, <2>5
  <2>8. QED
    BY <2>1, <2>2, <2>6, <2>7 DEF SyncedInv
<1>8. CASE link' = "synced" /\ ~ Receive /\ ~ Send /\ ~ Answer /\ ~ AnswerPage
  <2>1. held' = held /\ more' = more /\ link = "synced"
    BY <1>8 DEF Next, Stamp, SoftDelete, Publish, Tick, Connect, Disconnect, StartSync, ReadRows,
                ReadDeletions, ReadPage, LoseAnswer, Crash, vars, server, device
  <2>2. QED
    BY <1>3, <1>8, <2>1
<1>9. QED
  BY <1>1, <1>4, <1>5, <1>6, <1>7, <1>8

\* What an answer lacks stays ahead of it, and a page of history behind.
LEMMA AheadStep ==
  ASSUME RangeInv, [Next]_vars
  PROVE  AheadInv'
<1> USE DEF RangeInv
<1>0. /\ Id \subseteq Nat /\ last \in Nat /\ None \notin Id
      /\ held \subseteq Id /\ Live \subseteq Id /\ IsFiniteSet(Live) /\ req.rows \subseteq Id
      /\ \A m \in held : m \in Nat /\ m =< last
      /\ \A m \in req.rows : m \in Nat /\ m =< last
      /\ \A m \in Live : m \in Nat /\ m =< last /\ ~ Deleted(m)
      /\ NoReq.step = "none" /\ NoReq.deleted = {}
  BY Numbers DEF NoReq
<1>1. CASE req' = NoReq
  BY <1>0, <1>1 DEF AheadInv, CursorIsTop, Syncing
<1>2. CASE held' = held /\ req' = req /\ ~ Receive /\ link' # "down"
  <2>1. \A m \in Live' : m \in Live \/ (Send /\ m = last + 1)
    BY LiveEffect
  <2>2. CursorIsTop'
    BY <1>2 DEF AheadInv, CursorIsTop, Syncing, Highest
  <2>3. \A m \in req'.deleted : Deleted(m)'
    <3>1. req.deleted \subseteq Id
      <4>1. CASE req = NoReq
        BY <1>0, <4>1
      <4>2. CASE req \in Sync
        BY <4>2 DEF Sync
      <4>3. CASE req \in History
        BY <4>3 DEF History
      <4>4. QED
        BY <4>1, <4>2, <4>3 DEF TypeInv, TypeOK, Req
    <3>2. QED
      BY <1>2, <3>1, LiveEffect DEF AheadInv
  <2>4. ASSUME NEW m \in Live', req.covers, m \in Live => Coming(m)
        PROVE  Coming(m)'
    <3>1. CASE m \in Live
      BY <1>0, <1>2, <2>4, <3>1, StillUnderWay DEF WireInv, Linked
    <3>2. CASE Send /\ m = last + 1
      BY <3>2 DEF Send, Coming
    <3>3. QED
      BY <2>1, <3>1, <3>2
  <2>5. ASSUME req.step \in {"deletions", "answer"}
        PROVE  AnswerAhead'
    <3>1. AnswerAhead
      BY <2>5 DEF AheadInv
    <3>2. \A m : Spoken(m)' <=> Spoken(m)
      BY <1>2 DEF Spoken
    <3>3. ASSUME NEW m \in Live', m \notin req.rows, Spoken(m)
          PROVE  (\A r \in req.rows : r < m) /\ (req.covers => Coming(m)')
      <4>1. CASE m \in Live
        BY <2>4, <3>1, <3>3, <4>1 DEF AnswerAhead
      <4>2. CASE m \notin Live
        <5>1. m = last + 1
          BY <2>1, <4>2
        <5>2. \A r \in req.rows : r < m
          BY <1>0, <5>1
        <5>3. QED
          BY <2>4, <4>2, <5>2
      <4>3. QED
        BY <4>1, <4>2
    <3>4. QED
      BY <1>2, <3>1, <3>2, <3>3 DEF AnswerAhead
  <2>6. ASSUME req.step = "page"
        PROVE  PageAhead'
    <3>1. PageAhead
      BY <2>6 DEF AheadInv
    <3>2. \A h \in held : ~ (last + 1 < h)
      BY <1>0
    <3>3. \A m \in Live' : (\A h \in held : m < h) => m \in Live
      BY <2>1, <3>1, <3>2 DEF PageAhead
    <3>4. QED
      BY <1>2, <3>1, <3>3 DEF PageAhead
  <2>7. QED
    BY <1>2, <2>2, <2>3, <2>5, <2>6 DEF AheadInv
<1>3. CASE held' = held /\ req' = req /\ ~ Receive /\ link' = "down" /\ link = "down"
  <2>1. \A m \in Live' : m \in Live \/ (Send /\ m = last + 1)
    BY LiveEffect
  <2>2. ~ req.covers
    BY <1>3 DEF WireInv, Linked
  <2>3. CursorIsTop'
    BY <1>3 DEF AheadInv, CursorIsTop, Syncing, Highest
  <2>4. \A m \in req'.deleted : Deleted(m)'
    <3>1. req.deleted \subseteq Id
      <4>1. CASE req = NoReq
        BY <1>0, <4>1
      <4>2. CASE req \in Sync
        BY <4>2 DEF Sync
      <4>3. CASE req \in History
        BY <4>3 DEF History
      <4>4. QED
        BY <4>1, <4>2, <4>3 DEF TypeInv, TypeOK, Req
    <3>2. QED
      BY <1>3, <3>1, LiveEffect DEF AheadInv
  <2>5. ASSUME req.step \in {"deletions", "answer"}
        PROVE  AnswerAhead'
    <3>1. AnswerAhead
      BY <2>5 DEF AheadInv
    <3>2. \A m : Spoken(m)' <=> Spoken(m)
      BY <1>3 DEF Spoken
    <3>3. \A r \in req.rows : r < last + 1
      BY <1>0
    <3>4. QED
      BY <1>3, <2>1, <2>2, <3>1, <3>2, <3>3 DEF AnswerAhead
  <2>6. ASSUME req.step = "page"
        PROVE  PageAhead'
    <3>1. PageAhead
      BY <2>6 DEF AheadInv
    <3>2. \A h \in held : ~ (last + 1 < h)
      BY <1>0
    <3>3. \A m \in Live' : (\A h \in held : m < h) => m \in Live
      BY <2>1, <3>1, <3>2 DEF PageAhead
    <3>4. QED
      BY <1>3, <3>1, <3>3 DEF PageAhead
  <2>7. QED
    BY <1>3, <2>3, <2>4, <2>5, <2>6 DEF AheadInv
<1>4. CASE Disconnect
  <2>1. /\ req' = [req EXCEPT !.covers = FALSE] /\ held' = held /\ Live' = Live
        /\ deletedAt' = deletedAt
    BY <1>4 DEF Disconnect, device, server, Live
  <2>2. /\ req'.step = req.step /\ req'.cursor = req.cursor /\ req'.rows = req.rows
        /\ req'.reset = req.reset /\ req'.more = req.more /\ req'.deleted = req.deleted
        /\ req'.covers = FALSE
    <3>1. req = NoReq \/ req \in Sync \/ req \in History
      BY DEF TypeInv, TypeOK, Req
    <3>2. QED
      BY <2>1, <3>1 DEF NoReq, Sync, History
  <2>3. \A m : Spoken(m)' <=> Spoken(m)
    BY <2>2 DEF Spoken
  <2>4. QED
    BY <2>1, <2>2, <2>3
       DEF AheadInv, CursorIsTop, Syncing, Highest, AnswerAhead, PageAhead, Deleted
<1>5. CASE StartSync
  <2>1. PICK cursor \in IF held = {} THEN {None} ELSE Highest :
           req' = [NoReq EXCEPT !.step = "rows", !.cursor = cursor, !.since = since,
                                !.time = clock, !.covers = link # "down"]
    BY <1>5 DEF StartSync
  <2>2. req'.step = "rows" /\ req'.cursor = cursor /\ req'.deleted = {}
    BY <2>1 DEF NoReq
  <2>3. held' = held
    BY <1>5 DEF StartSync, device
  <2>4. QED
    BY <2>1, <2>2, <2>3 DEF AheadInv, CursorIsTop, Syncing, Highest
<1>6. CASE ReadRows
  <2> DEFINE found == After(req.cursor)
             reset == req.cursor = None \/ IsMore(found)
  <2>1. Syncing /\ req \in Sync /\ held' = held /\ Live' = Live /\ deletedAt' = deletedAt
    BY <1>6, RequestKinds DEF ReadRows, Syncing, TypeInv, device, server, Live
  <2>2. /\ req'.step = "deletions" /\ req'.cursor = req.cursor /\ req'.deleted = req.deleted
        /\ req'.rows = PageOf(found) /\ req'.reset = reset
        /\ req'.more = (reset /\ IsMore(found))
    <3>1. req' = [req EXCEPT !.step = "deletions", !.rows = PageOf(found),
                             !.reset = reset, !.more = reset /\ IsMore(found)]
      BY <1>6 DEF ReadRows
    <3> HIDE DEF found, reset
    <3>2. QED
      BY <2>1, <3>1 DEF Sync
  <2>3. found \subseteq Live /\ found \in SUBSET Int /\ IsFiniteSet(found)
    <3>1. found \subseteq Live
      BY DEF After
    <3> HIDE DEF found
    <3>2. IsFiniteSet(found)
      BY <1>0, <3>1, FS_Subset
    <3>3. Live \subseteq Int
      BY <1>0
    <3>4. found \in SUBSET Int
      BY <3>1, <3>3
    <3>5. QED
      BY <3>1, <3>2, <3>4
  <2>4. PageOf(found) \subseteq found
    BY PageWithin
  <2>5. CASE ~ IsMore(found)
    <3>1. PageOf(found) = found
      <4> HIDE DEF found
      <4>1. QED
        BY <2>3, <2>5, PageWhole
    <3>2. ~ reset => \A r \in found : r > req.cursor
      BY DEF After
    <3>3. ASSUME NEW m \in Live, m \notin found
          PROVE  ~ reset /\ ~ (m > req.cursor)
      BY <2>5, <3>3 DEF After
    <3>4. AnswerAhead'
      <4> HIDE DEF found
      <4>1. QED
        BY <2>1, <2>2, <2>5, <3>1, <3>2, <3>3 DEF AnswerAhead, Spoken
    <3>5. QED
      BY <2>1, <2>2, <3>4 DEF AheadInv, CursorIsTop, Syncing, Highest, Deleted
  <2>6. CASE IsMore(found)
    <3>1. ASSUME NEW m \in Live, NEW l \in PageOf(found), l < m
          PROVE  m \in PageOf(found)
      <4>1. l \in found
        BY <2>4
      <4>2. l \in Nat /\ m \in Nat /\ (req.cursor # None => req.cursor \in Nat /\ l > req.cursor)
        BY <1>0, <2>1, <2>3, <4>1 DEF After, Sync
      <4>3. req.cursor # None => m > req.cursor
        BY <3>1, <4>2
      <4>4. m \in found
        BY <4>3 DEF After
      <4> HIDE DEF found
      <4>5. QED
        BY <2>3, <3>1, <4>4, PageUpward
    <3>2. req'.reset /\ req'.more
      BY <2>2, <2>6
    <3>3. \A m : Spoken(m)' => \E l \in req'.rows : l < m
      BY <3>2 DEF Spoken
    <3>4. AnswerAhead'
      <4> HIDE DEF found
      <4>1. QED
        BY <2>1, <2>2, <3>1, <3>2, <3>3 DEF AnswerAhead
    <3>5. QED
      BY <2>1, <2>2, <3>4 DEF AheadInv, CursorIsTop, Syncing, Highest, Deleted
  <2>7. QED
    BY <2>5, <2>6
<1>7. CASE ReadDeletions
  <2>1. /\ Syncing /\ req \in Sync /\ held' = held /\ Live' = Live /\ deletedAt' = deletedAt
        /\ req.step = "deletions"
    BY <1>7, RequestKinds DEF ReadDeletions, Syncing, TypeInv, device, server, Live
  <2>2. QuietOnSocket
    BY <1>7 DEF ReadDeletions, QuietOnSocket, server
  <2> DEFINE gone == IF req.since = None THEN {} ELSE DeletedSince(req.since)
  <2>3. \A m \in gone : Deleted(m)
    BY DEF DeletedSince, Deleted
  <2>4. req' = [req EXCEPT !.step = "answer", !.deleted = gone]
    BY <1>7 DEF ReadDeletions
  <2> HIDE DEF gone
  <2>5. /\ req'.step = "answer" /\ req'.cursor = req.cursor /\ req'.rows = req.rows
        /\ req'.reset = req.reset /\ req'.more = req.more /\ req'.covers = req.covers
        /\ req'.deleted = gone
    BY <2>1, <2>4 DEF Sync
  <2>6. \A m : (Spoken(m)' <=> Spoken(m)) /\ (Coming(m)' <=> Coming(m))
    BY <2>2, <2>5, SocketUnchanged DEF Spoken
  <2>7. AnswerAhead'
    BY <2>1, <2>5, <2>6 DEF AheadInv, AnswerAhead
  <2>8. QED
    BY <2>1, <2>3, <2>5, <2>7 DEF AheadInv, CursorIsTop, Syncing, Highest, Deleted
<1>8. CASE ReadPage
  <2> DEFINE found == {m \in Live : \A h \in held : m < h}
  <2>1. held # {} /\ held' = held /\ Live' = Live
    BY <1>8 DEF ReadPage, device, server, Live
  <2>2. /\ req'.step = "page" /\ req'.rows = PageOf(found) /\ req'.more = IsMore(found)
        /\ req'.deleted = {}
    <3>1. req' = [NoReq EXCEPT !.step = "page", !.rows = PageOf(found), !.more = IsMore(found)]
      BY <1>8 DEF ReadPage
    <3> HIDE DEF found
    <3>2. QED
      BY <3>1 DEF NoReq
  <2>3. found \in SUBSET Int /\ IsFiniteSet(found)
    <3>1. found \subseteq Live
      OBVIOUS
    <3> HIDE DEF found
    <3>2. IsFiniteSet(found)
      BY <1>0, <3>1, FS_Subset
    <3>3. Live \subseteq Int
      BY <1>0
    <3>4. found \in SUBSET Int
      BY <3>1, <3>3
    <3>5. QED
      BY <3>1, <3>2, <3>4
  <2>4. PageOf(found) \subseteq found
    BY PageWithin
  <2>5. ASSUME NEW m \in found, m \notin PageOf(found)
        PROVE  (\A r \in PageOf(found) : m < r) /\ IsMore(found)
    <3> HIDE DEF found
    <3>1. IsMore(found)
      BY <2>3, <2>5, PageWhole
    <3>2. ASSUME NEW r \in PageOf(found), ~ (m < r)
          PROVE  FALSE
      <4>1. r \in Int /\ m \in Int /\ r # m
        BY <2>3, <2>4, <2>5
      <4>2. r < m
        BY <3>2, <4>1
      <4>3. QED
        BY <2>3, <2>5, <4>2, PageUpward
    <3>3. QED
      BY <3>1, <3>2
  <2>6. PageAhead'
    <3>1. \A r \in PageOf(found), h \in held : r < h
      BY <2>4
    <3>2. \A m \in Live \ PageOf(found) : (\A h \in held : m < h) => m \in found
      OBVIOUS
    <3> HIDE DEF found
    <3>3. QED
      BY <2>1, <2>2, <2>5, <3>1, <3>2 DEF PageAhead
  <2>7. QED
    BY <2>2, <2>6 DEF AheadInv, CursorIsTop, Syncing
<1>9. CASE Receive \/ Answer \/ AnswerPage \/ LoseAnswer \/ Crash
  BY <1>1, <1>9 DEF Receive, Answer, AnswerPage, LoseAnswer, Crash
<1>10. CASE Send \/ (\E m \in Id : Stamp(m)) \/ SoftDelete \/ Publish \/ Tick \/ Connect
            \/ UNCHANGED vars
  <2>1. held' = held /\ req' = req /\ (link' = link \/ link' = "up")
    BY <1>10 DEF Send, Stamp, SoftDelete, Publish, Tick, Connect, vars, server, device
  <2>2. CASE Receive
    BY <1>9, <2>2
  <2>3. CASE ~ Receive
    BY <1>2, <1>3, <2>1, <2>3
  <2>4. QED
    BY <2>2, <2>3
<1>11. QED
  BY <1>4, <1>5, <1>6, <1>7, <1>8, <1>9, <1>10 DEF Next

\* The first state: nothing is held, asked for or under way.
LEMMA RangeInitially ==
  ASSUME Init
  PROVE  RangeInv
<1>1. /\ held = {} /\ link = "down" /\ wire = <<>> /\ Len(wire) = 0 /\ last = 0
      /\ op.step = "none" /\ req.step = "none" /\ req.covers = FALSE /\ req.deleted = {}
  BY DEF Init, NoOp, NoReq
<1>2. OnTheWay = {} /\ Leaving = {}
  BY <1>1 DEF OnTheWay, Leaving
<1>3. FreshInv
  BY <1>1, <1>2 DEF FreshInv
<1>4. WireInv
  BY <1>1, <1>2 DEF WireInv, Ordered, Unsent, Followers, GoneOK, Going, Linked
<1>5. SyncedInv /\ AheadInv /\ Contiguous
  BY <1>1 DEF SyncedInv, AheadInv, CursorIsTop, Syncing, Contiguous, NoHoles, MoreIsTrue
<1>6. QED
  BY <1>3, <1>4, <1>5, TypeInitially DEF RangeInv

\* The inductive invariant of the range.
THEOREM RangeCorrect == Spec => []RangeInv
<1>1. RangeInv /\ [Next]_vars => RangeInv'
  BY TypeStep, FreshStep, WireStep, SyncedStep, AheadStep, ContiguousStep DEF RangeInv
<1>2. QED
  BY RangeInitially, <1>1, PTL DEF Spec

\* The range a device keeps is contiguous: through resets, deltas, pages of
\* history and frames no live message between two that it holds is missing.
THEOREM RangeHasNoHoles == Spec => []NoHoles
<1>1. RangeInv => NoHoles
  BY DEF RangeInv, Contiguous
<1>2. QED
  BY <1>1, RangeCorrect, PTL

\* A device that was not told of older messages holds the oldest there is.
THEOREM EndIsTheEnd == Spec => []MoreIsTrue
<1>1. RangeInv => MoreIsTrue
  BY DEF RangeInv, Contiguous
<1>2. QED
  BY <1>1, RangeCorrect, PTL

-----------------------------------------------------------------------------
(* Deletions of a device that is connected: what it holds, or is about to, *)
(* and was deleted is reported by its request or followed by a frame.      *)

FollowInv ==
    /\ \A m \in OnTheWay : Deleted(m) => Going(m)
    /\ link = "synced" => \A m \in held : Deleted(m) => Going(m)
    /\ req.step \in {"deletions", "answer"} /\ req.covers =>
          \A m \in req.rows : Deleted(m) => Going(m)
    /\ req.step = "answer" /\ req.covers =>
          \A m \in held \ req.deleted : Deleted(m) => Going(m)
    /\ req.step = "page" /\ link = "synced" =>
          \A m \in req.rows : Deleted(m) => Going(m)

\* With a socket, a message is followed by its deletion until the device reads it.
LEMMA Followed ==
  ASSUME RangeInv, [Next]_vars, link' # "down", link # "down", ~ Receive,
         NEW m \in Id, Deleted(m)', Deleted(m) => Going(m)
  PROVE  Going(m)'
<1>1. CASE Deleted(m)
  BY <1>1, StillUnderWay DEF RangeInv, WireInv
<1>2. CASE ~ Deleted(m)
  <2>1. SoftDelete /\ m = op.id
    BY <1>2, LiveEffect DEF RangeInv
  <2>2. op \in Op /\ op # NoOp /\ op' = [op EXCEPT !.step = "deleted", !.at = None]
    BY <2>1 DEF SoftDelete, RangeInv, TypeInv, TypeOK, NoOp
  <2>3. op'.step = "deleted" /\ op'.id = op.id
    BY <2>2 DEF Op
  <2>4. QED
    BY <2>1, <2>3 DEF Going
<1>3. QED
  BY <1>1, <1>2

LEMMA FollowStep ==
  ASSUME RangeInv, NoneMissed, CursorInv, FollowInv, [Next]_vars
  PROVE  FollowInv'
<1>0. /\ OnTheWay \subseteq Id /\ held \subseteq Id /\ req.rows \subseteq Id
      /\ NoReq.step = "none" /\ NoReq.covers = FALSE
      /\ req.covers => link # "down"
  BY Numbers, OnTheSocket DEF RangeInv, NoReq, WireInv, Linked
<1>1. CASE link' = "down"
  <2>1. TypeInv' /\ WireInv'
    BY TypeStep, WireStep DEF RangeInv
  <2>2. wire' = <<>> /\ ~ req'.covers
    BY <1>1, <2>1 DEF WireInv, Linked
  <2>3. OnTheWay' = {}
    BY <2>2 DEF OnTheWay
  <2>4. QED
    BY <1>1, <2>2, <2>3 DEF FollowInv
<1>2. CASE Connect
  <2>1. link' = "up" /\ QuietOnSocket /\ deletedAt' = deletedAt /\ req' = req /\ link = "down"
    BY <1>2 DEF Connect, QuietOnSocket, server
  <2>2. ~ req'.covers
    BY <1>0, <2>1
  <2>3. QED
    BY <2>1, <2>2, SocketUnchanged DEF FollowInv, Deleted
<1>3. CASE Receive
  <2> DEFINE f == Head(wire)
  <2>1. /\ req' = NoReq /\ deletedAt' = deletedAt /\ op' = op /\ link' = link
        /\ f.kind \in {"message", "deleted"}
    BY <1>3, Received DEF Receive, server, RangeInv, WireInv
  <2>2. CASE f.kind = "message"
    <3>1. /\ f.id \in OnTheWay /\ OnTheWay' \subseteq OnTheWay /\ Leaving' = Leaving
          /\ held' \subseteq held \cup {f.id}
      BY <1>3, <2>2, Received DEF Receive, RangeInv, WireInv
    <3>2. \A m : Going(m)' <=> Going(m)
      BY <2>1, <3>1 DEF Going
    <3>3. QED
      BY <1>0, <2>1, <3>1, <3>2 DEF FollowInv, Deleted
  <2>3. CASE f.kind = "deleted"
    <3>1. /\ OnTheWay' = OnTheWay /\ f.id \notin OnTheWay
          /\ Leaving \subseteq Leaving' \cup {f.id}
      BY <1>3, <2>3, Received DEF RangeInv, WireInv
    <3>2. link = "synced" => held' = held \ {f.id}
      BY <1>3, <2>3 DEF Receive
    <3>3. \A m : Going(m) => Going(m)' \/ m = f.id
      BY <2>1, <3>1 DEF Going
    <3>4. QED
      BY <1>0, <2>1, <3>1, <3>2, <3>3 DEF FollowInv, Deleted
  <2>4. QED
    BY <2>1, <2>2, <2>3
<1>4. ASSUME link # "down", link' # "down", ~ Receive
      PROVE  \A m \in OnTheWay' : Deleted(m)' => Going(m)'
  <2>1. ASSUME NEW m \in OnTheWay', m \notin OnTheWay
        PROVE  ~ Deleted(m)'
    <3>1. Publish
      <4>1. wire' # wire
        BY <2>1 DEF OnTheWay
      <4>2. wire' # <<>>
        BY <2>1 DEF OnTheWay
      <4>3. QED
        BY <1>4, <4>1, <4>2
           DEF Next, vars, server, device, Send, Stamp, SoftDelete, Tick, Connect, Disconnect,
               StartSync, ReadRows, ReadDeletions, Answer, ReadPage, AnswerPage, LoseAnswer, Crash
    <3>2. op.step = "message" /\ m = op.id /\ m \in Id
      BY <1>4, <2>1, <3>1, Published DEF RangeInv
    <3>3. ~ Deleted(m) /\ deletedAt' = deletedAt
      BY <3>1, <3>2 DEF RangeInv, FreshInv, Publish
    <3>4. QED
      BY <3>3 DEF Deleted
  <2>2. ASSUME NEW m \in OnTheWay, Deleted(m)'
        PROVE  Going(m)'
    BY <1>0, <1>4, <2>2, Followed DEF FollowInv
  <2>3. QED
    BY <2>1, <2>2
<1>5. ASSUME link # "down", link' # "down", ~ Receive, ~ Answer, ~ AnswerPage,
             ~ ReadRows, ~ ReadDeletions, ~ StartSync, ~ ReadPage
      PROVE  FollowInv'
  <2>1. (req' = req \/ req' = NoReq) /\ held' = held
    BY <1>5 DEF Next, vars, server, device, Send, Stamp, SoftDelete, Publish, Tick, Connect,
                Disconnect, LoseAnswer, Crash
  <2>2. link' = "synced" => link = "synced"
    BY <1>5 DEF Next, vars, server, device, Send, Stamp, SoftDelete, Publish, Tick, Connect,
                Disconnect, LoseAnswer, Crash
  <2>3. \A m \in Id : (Deleted(m) => Going(m)) => (Deleted(m)' => Going(m)')
    BY <1>5, Followed
  <2>4. \A m \in OnTheWay' : Deleted(m)' => Going(m)'
    BY <1>4, <1>5
  <2>5. CASE req' = NoReq
    BY <1>0, <2>1, <2>2, <2>3, <2>4, <2>5 DEF FollowInv
  <2>6. CASE req' = req
    BY <1>0, <2>1, <2>2, <2>3, <2>4, <2>6 DEF FollowInv
  <2>7. QED
    BY <2>1, <2>5, <2>6
<1>6. CASE StartSync
  <2>1. /\ req'.step = "rows" /\ QuietOnSocket /\ deletedAt' = deletedAt /\ held' = held
        /\ link' = link
    BY <1>6 DEF StartSync, NoReq, QuietOnSocket, server, device
  <2>2. QED
    BY <2>1, SocketUnchanged DEF FollowInv, Deleted
<1>7. CASE ReadRows
  <2>1. /\ QuietOnSocket /\ deletedAt' = deletedAt /\ held' = held /\ link' = link
        /\ req \in Sync
    BY <1>7, RequestKinds DEF ReadRows, QuietOnSocket, server, device, Syncing, RangeInv, TypeInv
  <2>2. req'.step = "deletions" /\ req'.rows = PageOf(After(req.cursor))
    BY <1>7, <2>1 DEF ReadRows, Sync
  <2>3. \A m \in req'.rows : ~ Deleted(m)
    BY <2>2, PageWithin, LiveMessages DEF After, RangeInv, TypeInv
  <2>4. QED
    BY <2>1, <2>2, <2>3, SocketUnchanged DEF FollowInv, Deleted
<1>8. CASE ReadDeletions
  <2>1. /\ QuietOnSocket /\ deletedAt' = deletedAt /\ held' = held /\ link' = link
        /\ req \in Sync /\ req.step = "deletions"
    BY <1>8, RequestKinds
       DEF ReadDeletions, QuietOnSocket, server, device, Syncing, RangeInv, TypeInv
  <2> DEFINE gone == IF req.since = None THEN {} ELSE DeletedSince(req.since)
  <2>2. \A m \in held : Deleted(m) => m \in gone
    <3>1. req.since = since
      BY <2>1 DEF CursorInv, Syncing
    <3>2. held \subseteq 1 .. last
      BY DEF RangeInv, TypeInv, TypeOK
    <3>3. QED
      BY <3>1, <3>2 DEF NoneMissed, DeletedSince, Deleted
  <2>3. req' = [req EXCEPT !.step = "answer", !.deleted = gone]
    BY <1>8 DEF ReadDeletions
  <2> HIDE DEF gone
  <2>4. /\ req'.step = "answer" /\ req'.rows = req.rows /\ req'.covers = req.covers
        /\ req'.deleted = gone
    BY <2>1, <2>3 DEF Sync
  <2>5. QED
    BY <2>1, <2>2, <2>4, SocketUnchanged DEF FollowInv, Deleted
<1>9. CASE Answer
  <2>1. /\ QuietOnSocket /\ deletedAt' = deletedAt /\ req' = NoReq /\ req.step = "answer"
        /\ held' \subseteq (held \cup req.rows) \ req.deleted
    BY <1>9 DEF Answer, QuietOnSocket, server
  <2>2. link' = "synced" => req.covers
    BY <1>9, <2>1 DEF Answer, Syncing, RangeInv, WireInv, Linked
  <2>3. QED
    BY <1>0, <2>1, <2>2, SocketUnchanged DEF FollowInv, Deleted
<1>10. CASE ReadPage
  <2>1. /\ QuietOnSocket /\ deletedAt' = deletedAt /\ held' = held /\ link' = link
        /\ req'.step = "page" /\ req'.rows = PageOf({m \in Live : \A h \in held : m < h})
    BY <1>10 DEF ReadPage, NoReq, QuietOnSocket, server, device
  <2>2. \A m \in req'.rows : ~ Deleted(m)
    BY <2>1, PageWithin, LiveMessages DEF RangeInv, TypeInv
  <2>3. QED
    BY <2>1, <2>2, SocketUnchanged DEF FollowInv, Deleted
<1>11. CASE AnswerPage
  <2>1. /\ QuietOnSocket /\ deletedAt' = deletedAt /\ req' = NoReq /\ req.step = "page"
        /\ held' = held \cup req.rows /\ link' = link
    BY <1>11 DEF AnswerPage, QuietOnSocket, server
  <2>2. QED
    BY <1>0, <2>1, SocketUnchanged DEF FollowInv, Deleted
<1>12. CASE link = "down"
  <2>1. link' = "down" \/ Connect \/ Answer
    BY <1>12 DEF Next, vars, server, device, Send, Stamp, SoftDelete, Publish, Tick, Disconnect,
                 Receive, StartSync, ReadRows, ReadDeletions, ReadPage, AnswerPage, LoseAnswer, Crash
  <2>2. QED
    BY <1>1, <1>2, <1>9, <2>1
<1>13. QED
  BY <1>1, <1>3, <1>5, <1>6, <1>7, <1>8, <1>9, <1>10, <1>11, <1>12

\* Once nothing is under way, a device that synced on its connection has every
\* message from its oldest on, all of them if it was told of no more, and none
\* that was deleted, as long as a deletion takes less time than the deletion
\* cursor lies back.
THEOREM DeviceCatchesUp ==
  ASSUME Punctual
  PROVE  Spec => []CaughtUp
<1> DEFINE All == RangeInv /\ Inv /\ FollowInv
<1>1. Init => All
  <2> SUFFICES ASSUME Init
               PROVE  All
    OBVIOUS
  <2>1. /\ since = None /\ held = {} /\ link = "down" /\ wire = <<>> /\ Len(wire) = 0
        /\ op.step = "none" /\ req.step = "none"
    BY DEF Init, NoOp, NoReq
  <2>2. OnTheWay = {}
    BY <2>1 DEF OnTheWay
  <2>3. Inv
    BY <2>1, <2>2, TypeInitially DEF Inv, CursorInv, FreshInv, AnswerInv, NoneMissed, Syncing
  <2>4. FollowInv
    BY <2>1, <2>2 DEF FollowInv
  <2>5. QED
    BY <2>3, <2>4, RangeInitially
<1>2. All /\ [Next]_vars => All'
  <2> SUFFICES ASSUME All, [Next]_vars
               PROVE  All'
    OBVIOUS
  <2>1. RangeInv'
    BY TypeStep, FreshStep, WireStep, SyncedStep, AheadStep, ContiguousStep DEF RangeInv
  <2>2. Inv'
    BY TypeStep, CursorStep, FreshStep, AnswerStep, MissedStep DEF Inv
  <2>3. FollowInv'
    BY FollowStep DEF Inv
  <2>4. QED
    BY <2>1, <2>2, <2>3
<1>3. All => CaughtUp
  <2> SUFFICES ASSUME All, link = "synced", wire = <<>>, op = NoOp
               PROVE  /\ held \subseteq Live
                      /\ \A m \in Live, l \in held : l < m => m \in held
                      /\ ~ more => Live \subseteq held
    BY DEF CaughtUp
  <2>1. Len(wire) = 0 /\ op.step = "none"
    BY DEF NoOp
  <2>2. \A m : ~ Coming(m) /\ ~ Going(m)
    BY <2>1 DEF Coming, Going, OnTheWay, Leaving
  <2>3. held \subseteq Live
    <3>1. \A m \in held : ~ Deleted(m)
      BY <2>2 DEF FollowInv
    <3>2. held \subseteq 1 .. last
      BY DEF RangeInv, TypeInv, TypeOK
    <3>3. QED
      BY <3>1, <3>2 DEF Live, Deleted
  <2>4. QED
    BY <2>2, <2>3 DEF RangeInv, SyncedInv
<1>4. QED
  BY <1>1, <1>2, <1>3, PTL DEF Spec
=============================================================================
