------------------------------- MODULE ChatSync -------------------------------
(***************************************************************************)
(* Catching up: ChatService::sync and ::history with one device that keeps *)
(* a cached range of one conversation.  The server runs a sync as separate *)
(* queries, without the conversation's stripe: first the clock, then the   *)
(* rows after the cursor, then the deletions since the last answer.  Sends *)
(* and deletions of others commit in between, and their frames reach the   *)
(* device on its socket, if it has one.                                    *)
(*                                                                         *)
(* The device is the one dto/Rest.hpp and WsSession.cpp:84 speak of: it    *)
(* connects and then syncs, sends the highest id it holds, appends a delta *)
(* and replaces its range by a reset.  Frames that come before it has      *)
(* asked are of no use to it; those that come while it waits are applied   *)
(* after the answer.  A committed message goes unpublished here only when  *)
(* the process stops; ChatService has the exceptions that do the same.     *)
(***************************************************************************)
EXTENDS Integers, Sequences, FiniteSets

CONSTANTS
    Page,       \* the limit of a request
    Overlap,    \* DELETED_CURSOR_OVERLAP_MS
    Late,       \* how long a deletion, a frame or a request may be under way
    None,
    MaxId,      \* bound: messages sent
    MaxTime,    \* bound: the last moment of the clock
    MaxLosses   \* bound: connections, answers and processes lost

ASSUME SyncAssumption ==
    /\ Page \in Nat \ {0}
    /\ Overlap \in Nat /\ Late \in Nat
    /\ MaxId \in Nat /\ MaxTime \in Nat /\ MaxLosses \in Nat
    /\ None \notin Int

VARIABLES
    clock,      \* nowEpochMs
    last,       \* message_data holds the ids 1 .. last
    deletedAt,  \* message_data.deleted_at
    op,         \* the send or the deletion that has the stripe
    link,       \* the device's socket: down, up, or up and covered by a sync
    wire,       \* the frames on the socket, oldest first
    held,       \* the ids of the device's range
    more,       \* whether it has been told of older messages
    since,      \* the last answer's deletedCursor
    req,        \* the device's request and its answer so far
    losses      \* how often something was lost

server == <<clock, last, deletedAt, op>>
device == <<held, more, since>>
vars == <<server, link, wire, device, req, losses>>

Id == 1 .. MaxId
Moment == Overlap .. Overlap + MaxTime      \* the clock is far from 0
DeletedCursor == 0 .. MaxTime

Frame == [kind : {"message", "deleted"}, id : Id]

NoOp == [step |-> "none", id |-> None, at |-> None]
Op == {NoOp} \cup [step : {"message", "deleted"}, id : Id, at : {None}]
            \cup [step : {"stamped"}, id : Id, at : Moment]

NoReq == [step |-> "none", cursor |-> None, since |-> None, time |-> None,
          rows |-> {}, reset |-> FALSE, more |-> FALSE, deleted |-> {},
          covers |-> FALSE]
Sync == [step : {"rows", "deletions", "answer"},
         cursor : Id \cup {None},               \* None: it holds nothing
         since : DeletedCursor \cup {None},
         time : Moment,                         \* server_time
         rows : SUBSET Id, reset : BOOLEAN, more : BOOLEAN,
         deleted : SUBSET Id,
         covers : BOOLEAN]                      \* asked with the socket up
History == [step : {"page"}, cursor : {None}, since : {None}, time : {None},
            rows : SUBSET Id, reset : {FALSE}, more : BOOLEAN,
            deleted : {{}}, covers : {FALSE}]
Req == {NoReq} \cup Sync \cup History

Init ==
    /\ clock = Overlap /\ last = 0
    /\ deletedAt = [m \in Id |-> None]
    /\ op = NoOp
    /\ link = "down" /\ wire = <<>>
    /\ held = {} /\ more = FALSE /\ since = None
    /\ req = NoReq
    /\ losses = 0

-----------------------------------------------------------------------------
(* Sends and deletions.  Each holds the stripe until its frame is pushed.  *)

Live == {m \in 1 .. last : deletedAt[m] = None}

(* The messages whose frames the device has not read yet. *)
OnTheWay == {m \in Id : \E i \in 1 .. Len(wire) :
                            wire[i] = [kind |-> "message", id |-> m]}

(* append commits: the row is visible, its frame not pushed yet. *)
Send ==
    /\ op = NoOp /\ last < MaxId
    /\ last' = last + 1
    /\ op' = [step |-> "message", id |-> last + 1, at |-> None]
    /\ UNCHANGED <<clock, deletedAt, link, wire, device, req, losses>>

(* remove takes the stripe and reads the clock. *)
Stamp(m) ==
    /\ op = NoOp /\ m \in Live
    /\ op' = [step |-> "stamped", id |-> m, at |-> clock]
    /\ UNCHANGED <<clock, last, deletedAt, link, wire, device, req, losses>>

(* markMessageDeleted commits with the stamp taken before. *)
SoftDelete ==
    /\ op.step = "stamped"
    /\ deletedAt' = [deletedAt EXCEPT ![op.id] = op.at]
    /\ op' = [op EXCEPT !.step = "deleted", !.at = None]
    /\ UNCHANGED <<clock, last, link, wire, device, req, losses>>

\* mutant: a deletion is left to the next sync.
PublishMessages ==
    /\ op.step \in {"message", "deleted"}
    /\ wire' = IF link = "down" \/ op.step = "deleted" THEN wire
               ELSE Append(wire, [kind |-> op.step, id |-> op.id])
    /\ op' = NoOp
    /\ UNCHANGED <<clock, last, deletedAt, link, device, req, losses>>

(* The frame goes to the device if its socket is in the hub. *)
Publish ==
    /\ op.step \in {"message", "deleted"}
    /\ wire' = IF link = "down" THEN wire
               ELSE Append(wire, [kind |-> op.step, id |-> op.id])
    /\ op' = NoOp
    /\ UNCHANGED <<clock, last, deletedAt, link, device, req, losses>>

(* Time passes, but no deletion takes more than Late from its stamp to its *)
(* commit, nor to be read by a device that has yet to read the message.    *)
Tick ==
    /\ clock < Overlap + MaxTime
    /\ op.step = "stamped" => clock < op.at + Late
    /\ \A m \in OnTheWay :
           deletedAt[m] # None => clock < deletedAt[m] + Late
    /\ clock' = clock + 1
    /\ UNCHANGED <<last, deletedAt, op, link, wire, device, req, losses>>

-----------------------------------------------------------------------------
(* The socket. *)

Connect ==
    /\ link = "down"
    /\ link' = "up"
    /\ UNCHANGED <<server, wire, device, req, losses>>

Disconnect ==
    /\ link # "down" /\ losses < MaxLosses
    /\ link' = "down" /\ wire' = <<>>
    /\ req' = [req EXCEPT !.covers = FALSE]
    /\ losses' = losses + 1
    /\ UNCHANGED <<server, device>>

Newer(m) == \A h \in held : m > h

(* The device reads a frame, between requests. *)
Receive ==
    /\ wire # <<>> /\ req = NoReq
    /\ wire' = Tail(wire)
    /\ LET f == Head(wire)
       IN  held' = CASE link = "synced" /\ f.kind = "deleted" -> held \ {f.id}
                     [] link = "synced" /\ f.kind = "message" /\ Newer(f.id)
                            -> held \cup {f.id}
                     [] OTHER -> held
    /\ UNCHANGED <<server, link, more, since, req, losses>>

-----------------------------------------------------------------------------
(* The server's answers. *)

(* ORDER BY id DESC LIMIT n *)
Newest(S, n) == {m \in S : Cardinality({k \in S : k > m}) < n}

\* mutant: a page is fetched, not one row more.
IsFull(S) == Cardinality(Newest(S, Page)) > Page

(* sync and history fetch one row more than the page to see whether there  *)
(* is one.                                                                 *)
IsMore(S) == Cardinality(Newest(S, Page + 1)) > Page
PageOf(S) == Newest(Newest(S, Page + 1), Page)

Highest == {m \in held : \A h \in held : h =< m}

StartSync ==
    /\ req = NoReq
    /\ \E cursor \in IF held = {} THEN {None} ELSE Highest :
           req' = [NoReq EXCEPT !.step = "rows",
                                !.cursor = cursor,
                                !.since = since,
                                !.time = clock,
                                !.covers = link # "down"]
    /\ UNCHANGED <<server, link, wire, device, losses>>

After(cursor) == {m \in Live : cursor # None => m > cursor}

\* mutant: the newest page is always a delta for a device that has a cursor.
ReadRowsAsDelta ==
    /\ req.step = "rows"
    /\ LET found == After(req.cursor)
       IN  req' = [req EXCEPT !.step = "deletions",
                              !.rows = PageOf(found),
                              !.reset = req.cursor = None,
                              !.more = req.cursor = None /\ IsMore(found)]
    /\ UNCHANGED <<server, link, wire, device, losses>>

ReadRows ==
    /\ req.step = "rows"
    /\ LET found == After(req.cursor)
           reset == req.cursor = None \/ IsMore(found)
       IN  req' = [req EXCEPT !.step = "deletions",
                              !.rows = PageOf(found),
                              !.reset = reset,
                              !.more = reset /\ IsMore(found)]
    /\ UNCHANGED <<server, link, wire, device, losses>>

DeletedSince(moment) ==
    {m \in 1 .. last : deletedAt[m] # None /\ deletedAt[m] > moment}

ReadDeletions ==
    /\ req.step = "deletions"
    /\ req' = [req EXCEPT !.step = "answer",
                          !.deleted = IF req.since = None THEN {}
                                      ELSE DeletedSince(req.since)]
    /\ UNCHANGED <<server, link, wire, device, losses>>

\* mutant: the next deletions are asked from the clock's reading on.
AnswerWithoutOverlap ==
    /\ req.step = "answer"
    /\ held' = ((IF req.reset THEN {} ELSE held) \cup req.rows) \ req.deleted
    /\ more' = IF req.reset THEN req.more ELSE more
    /\ since' = req.time
    /\ link' = IF req.covers THEN "synced" ELSE link
    /\ req' = NoReq
    /\ UNCHANGED <<server, wire, losses>>

(* The device takes the answer over. *)
Answer ==
    /\ req.step = "answer"
    /\ held' = ((IF req.reset THEN {} ELSE held) \cup req.rows) \ req.deleted
    /\ more' = IF req.reset THEN req.more ELSE more
    /\ since' = IF req.time > Overlap THEN req.time - Overlap ELSE 0
    /\ link' = IF req.covers THEN "synced" ELSE link
    /\ req' = NoReq
    /\ UNCHANGED <<server, wire, losses>>

(* history: the page before the lowest id the device holds. *)
ReadPage ==
    /\ req = NoReq /\ held # {}
    /\ LET found == {m \in Live : \A h \in held : m < h}
       IN  req' = [NoReq EXCEPT !.step = "page",
                                !.rows = PageOf(found),
                                !.more = IsMore(found)]
    /\ UNCHANGED <<server, link, wire, device, losses>>

AnswerPage ==
    /\ req.step = "page"
    /\ held' = held \cup req.rows
    /\ more' = req.more
    /\ req' = NoReq
    /\ UNCHANGED <<server, link, wire, since, losses>>

-----------------------------------------------------------------------------
(* What may be lost. *)

LoseAnswer ==
    /\ req # NoReq /\ losses < MaxLosses
    /\ req' = NoReq
    /\ losses' = losses + 1
    /\ UNCHANGED <<server, link, wire, device>>

(* The process stops: what it had committed stays, what it had not         *)
(* published is told to nobody.                                            *)
Crash ==
    /\ losses < MaxLosses
    /\ op' = NoOp /\ req' = NoReq
    /\ link' = "down" /\ wire' = <<>>
    /\ losses' = losses + 1
    /\ UNCHANGED <<clock, last, deletedAt, device>>

-----------------------------------------------------------------------------

Next ==
    \/ Send \/ (\E m \in Id : Stamp(m)) \/ SoftDelete \/ Publish
    \/ Tick
    \/ Connect \/ Disconnect \/ Receive
    \/ StartSync \/ ReadRows \/ ReadDeletions \/ Answer
    \/ ReadPage \/ AnswerPage
    \/ LoseAnswer \/ Crash

Spec == Init /\ [][Next]_vars

-----------------------------------------------------------------------------

(* Every variable keeps to its type; what the device holds was sent. *)
TypeOK ==
    /\ clock \in Moment
    /\ last \in 0 .. MaxId
    /\ deletedAt \in [Id -> Moment \cup {None}]
    /\ op \in Op
    /\ link \in {"down", "up", "synced"}
    /\ wire \in Seq(Frame)
    /\ held \in SUBSET (1 .. last)
    /\ more \in BOOLEAN
    /\ since \in DeletedCursor \cup {None}
    /\ req \in Req
    /\ losses \in 0 .. MaxLosses

(* ChatService.hpp:117: the cached range is contiguous, through resets,    *)
(* deltas, pages and frames: no message between two that the device holds  *)
(* is missing, or no later sync would ask for it.                          *)
NoHoles ==
    \A l, h \in held : \A m \in Live : l < m /\ m < h => m \in held

(* A device that was not told of older messages has the oldest: the end of *)
(* the history is not announced a page too early.                          *)
MoreIsTrue ==
    held # {} /\ ~more => \A m \in Live : \E l \in held : l =< m

(* Message.hpp:23: a deletion is sent again rather than missed.  A deleted *)
(* message that the device still holds is one its next sync reports,       *)
(* though the deletion may have been stamped before the last answer and    *)
(* committed after it, or overtaken on the socket by a sync.               *)
NoneMissed ==
    \A m \in held :
        deletedAt[m] # None => since # None /\ deletedAt[m] > since

(* Once nothing is under way, a device that synced on its connection has   *)
(* every message from the oldest it holds to the newest, and none that was *)
(* deleted: what sync leaves out the socket brings, nothing falls between. *)
CaughtUp ==
    link = "synced" /\ req = NoReq /\ wire = <<>> /\ op = NoOp
        => /\ held \subseteq Live
           /\ \A m \in Live, l \in held : l < m => m \in held
           /\ ~more => Live \subseteq held
=============================================================================
