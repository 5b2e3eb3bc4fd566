----------------------------- MODULE ChatService -----------------------------
(***************************************************************************)
(* Sending and deleting chat messages: ChatService::submit and ::remove,   *)
(* the message table behind them, and the fan-out of what they publish to  *)
(* the WebSocket connections of the members.                               *)
(*                                                                         *)
(* The process runs one thread per connection.  A worker is either the     *)
(* reader thread of a WebSocket connection (it runs submit) or a thread of *)
(* the HTTP server (it runs remove).  Every statement sent to Postgres is  *)
(* a step of its own, and an INSERT takes two: the id comes from the       *)
(* identity sequence when the statement runs, the row is visible when it   *)
(* commits.                                                                *)
(*                                                                         *)
(* stream[c] is the history of the frames the queue of connection c has    *)
(* accepted.  What the peer receives is a prefix of it (module             *)
(* FrameQueue), so a statement about the order of stream[c] is a statement *)
(* about what the client sees.                                             *)
(***************************************************************************)
EXTENDS Integers, Sequences, FiniteSets

CONSTANTS
    User,
    Conv,          \* conversations, all of them already created
    Dm,            \* the conversations of kind dm; the others are palettes
    Founders,      \* [Conv -> SUBSET User], the members at the start
    Stripe,        \* the mutexes of ChatService::locks_
    StripeOf,      \* [Conv -> Stripe], id % LOCK_STRIPES
    Conn,          \* WebSocket connections, each opened at most once
    Http,          \* threads of the HTTP server
    Owner,         \* [Conn \cup Http -> User], the authenticated caller
    Key,           \* client message ids
    None,
    MaxSends,      \* bound: chat.message frames read
    MaxRemoves,    \* bound: DELETE requests
    MaxJoins,      \* bound: invitations accepted
    MaxFreezes,    \* bound: times two allies stop being allies
    MaxDrops,      \* bound: connections that overflow or go away
    MaxFaults,     \* bound: exceptions out of a repository
    MaxLosses,     \* bound: exceptions inside the event sink
    MaxCrashes     \* bound: restarts of the process

Worker == Conn \cup Http

ASSUME ConstantsAssumption ==
    /\ Dm \subseteq Conv
    /\ Founders \in [Conv -> SUBSET User]
    /\ StripeOf \in [Conv -> Stripe]
    /\ Conn \cap Http = {}
    /\ Owner \in [Worker -> User]
    /\ None \notin Worker \cup Conv \cup Key
    /\ {MaxSends, MaxRemoves, MaxJoins, MaxFreezes, MaxDrops,
     MaxFaults, MaxLosses, MaxCrashes} \subseteq Nat

VARIABLES
    table,      \* message_data, the uncommitted inserts included
    nextId,     \* the identity sequence of message_data
    members,    \* the member rows of every conversation
    allied,     \* the dms whose two members may communicate
    lock,       \* who holds each stripe
    pc,         \* where each worker is
    job,        \* the locals of submit and remove
    link,       \* each connection: not yet open, in the hub, overflowed or gone
    stream,     \* the frames each connection's queue has accepted
    budget      \* how often the bounded events have happened

vars == <<table, nextId, members, allied, lock, pc, job, link, stream, budget>>

-----------------------------------------------------------------------------
(* Rows, frames and requests *)

\* audience, due and mourners are history, sockets in the hub at a commit: those
\* of the members the sender had read, those of all members as the message was
\* stored, and those of all members as it was deleted.
Row == [id: Nat, conv: Conv, sender: User, key: Key,
        state: {"open", "live", "deleted"},
        audience: SUBSET Conn, due: SUBSET Conn, mourners: SUBSET Conn]

Frame == [kind: {"message", "deleted", "ack", "nack"},
          conv: Conv \cup {None}, id: Nat]

Job == [conv: Conv \cup {None}, key: Key \cup {None}, id: Nat,
        to: SUBSET User, aim: SUBSET Conn,
        outcome: {"none", "stored", "duplicate", "rejected",
                  "removed", "notFound", "failed"}]

NoJob == [conv |-> None, key |-> None, id |-> 0,
          to |-> {}, aim |-> {}, outcome |-> "none"]

Committed == {r \in table : r.state # "open"}

SameKey(r, w) == /\ r.conv = job[w].conv
                 /\ r.sender = Owner[w]
                 /\ r.key = job[w].key

\* The sockets these users have in the hub now.
Sockets(users) == {c \in Conn : link[c] = "open" /\ Owner[c] \in users}

\* The events a bound of the model checker's limits.
Bounded == {"sends", "removes", "joins", "freezes", "drops", "faults", "losses", "crashes"}

Spent(what) == budget' = [budget EXCEPT ![what] = @ + 1]

\* Names of the steps at which a worker holds the stripe of its conversation.
Critical == {"get", "ally", "insert", "commit", "update", "members", "publish"}

Init ==
    /\ table = {}
    /\ nextId = 1
    /\ members = Founders
    /\ allied = Dm
    /\ lock = [s \in Stripe |-> None]
    /\ pc = [w \in Worker |-> "idle"]
    /\ job = [w \in Worker |-> NoJob]
    /\ link = [c \in Conn |-> "new"]
    /\ stream = [c \in Conn |-> <<>>]
    /\ budget = [event \in Bounded |-> 0]

-----------------------------------------------------------------------------
(* Connections *)

\* WsSession::send.  A queue at its limit drops everything it holds and
\* refuses whatever follows; a closed one discards the frame.
Enqueue(c, frame) ==
    \/ /\ link[c] = "open"
       /\ stream' = [stream EXCEPT ![c] = Append(@, frame)]
       /\ UNCHANGED <<link, budget>>
    \/ /\ link[c] = "open" /\ budget.drops < MaxDrops
       /\ link' = [link EXCEPT ![c] = "overflowed"]
       /\ Spent("drops")
       /\ UNCHANGED stream
    \/ /\ link[c] # "open"
       /\ UNCHANGED <<link, stream, budget>>

\* SessionFactory::onAfterCreate puts the session in the hub.
Connect(c) ==
    /\ link[c] = "new"
    /\ link' = [link EXCEPT ![c] = "open"]
    /\ UNCHANGED <<table, nextId, members, allied, lock, pc, job, stream, budget>>

\* The reader leaves its loop between two frames; SessionFactory::onBeforeDestroy
\* takes the session out of the hub and closes its queue.
Disconnect(c) ==
    /\ link[c] \in {"open", "overflowed"}
    /\ pc[c] = "idle"
    /\ budget.drops < MaxDrops
    /\ Spent("drops")
    /\ link' = [link EXCEPT ![c] = "closed"]
    /\ UNCHANGED <<table, nextId, members, allied, lock, pc, job, stream>>

-----------------------------------------------------------------------------
(* ChatService::submit, run by the reader thread of connection w *)

\* A chat.message frame that fails the cheap checks or finds the sender's
\* bucket empty (module TokenBucket) is rejected before the lock is touched.
Refuse(w) ==
    /\ w \in Conn /\ pc[w] = "idle" /\ link[w] \in {"open", "overflowed"}
    /\ budget.sends < MaxSends
    /\ Spent("sends")
    /\ pc' = [pc EXCEPT ![w] = "reply"]
    /\ job' = [job EXCEPT ![w] = [NoJob EXCEPT !.outcome = "rejected"]]
    /\ UNCHANGED <<table, nextId, members, allied, lock, link, stream>>

Submit(w, conv, key) ==
    /\ w \in Conn /\ pc[w] = "idle" /\ link[w] \in {"open", "overflowed"}
    /\ budget.sends < MaxSends
    /\ Spent("sends")
    /\ pc' = [pc EXCEPT ![w] = "lock"]
    /\ job' = [job EXCEPT ![w] = [NoJob EXCEPT !.conv = conv, !.key = key]]
    /\ UNCHANGED <<table, nextId, members, allied, lock, link, stream>>

\* mutant: no lock at all.
LockNothing(w) ==
    /\ pc[w] = "lock"
    /\ pc' = [pc EXCEPT ![w] = IF w \in Conn THEN "get" ELSE "update"]
    /\ UNCHANGED <<table, nextId, members, allied, lock, job, link, stream, budget>>

\* mutant: only a send takes the lock.
LockSendsOnly(w) ==
    /\ pc[w] = "lock"
    /\ w \in Conn => lock[StripeOf[job[w].conv]] = None
    /\ lock' = IF w \in Conn THEN [lock EXCEPT ![StripeOf[job[w].conv]] = w] ELSE lock
    /\ pc' = [pc EXCEPT ![w] = IF w \in Conn THEN "get" ELSE "update"]
    /\ UNCHANGED <<table, nextId, members, allied, job, link, stream, budget>>

\* lock_guard on lockFor(conversation_id), in submit and in remove.
Lock(w) ==
    /\ pc[w] = "lock"
    /\ lock[StripeOf[job[w].conv]] = None
    /\ lock' = [lock EXCEPT ![StripeOf[job[w].conv]] = w]
    /\ pc' = [pc EXCEPT ![w] = IF w \in Conn THEN "get" ELSE "update"]
    /\ UNCHANGED <<table, nextId, members, allied, job, link, stream, budget>>

\* mutant: an early return without the unlock.
LeaveLocked(w, outcome) ==
    /\ lock' = IF outcome = "rejected" THEN lock
               ELSE [lock EXCEPT ![StripeOf[job[w].conv]] = None]
    /\ pc' = [pc EXCEPT ![w] = "reply"]
    /\ job' = [job EXCEPT ![w].outcome = outcome, ![w].to = {}, ![w].aim = {}]

\* The lock_guard's destructor, on every path out of submit and remove.
Leave(w, outcome) ==
    /\ lock' = [lock EXCEPT ![StripeOf[job[w].conv]] = None]
    /\ pc' = [pc EXCEPT ![w] = "reply"]
    /\ job' = [job EXCEPT ![w].outcome = outcome, ![w].to = {}, ![w].aim = {}]

\* conversations_->get: the members are read here and used in Commit's publish.
GetConversation(w) ==
    /\ pc[w] = "get"
    /\ IF Owner[w] \in members[job[w].conv]
       THEN /\ job' = [job EXCEPT ![w].to = members[job[w].conv]]
            /\ pc' = [pc EXCEPT ![w] = IF job[w].conv \in Dm THEN "ally" ELSE "insert"]
            /\ UNCHANGED lock
       ELSE Leave(w, "rejected")
    /\ UNCHANGED <<table, nextId, members, allied, link, stream, budget>>

\* contacts_->canCommunicate, for a dm only.
CheckAllies(w) ==
    /\ pc[w] = "ally"
    /\ IF job[w].conv \in allied
       THEN pc' = [pc EXCEPT ![w] = "insert"] /\ UNCHANGED <<lock, job>>
       ELSE Leave(w, "rejected")
    /\ UNCHANGED <<table, nextId, members, allied, link, stream, budget>>

\* mutant: a deleted message gives its key back.
InsertOverTombstone(w) ==
    /\ pc[w] = "insert"
    /\ nextId' = nextId + 1
    /\ ~ \E r \in table : r.state # "deleted" /\ SameKey(r, w)
    /\ table' = table \cup
          {[id |-> nextId, conv |-> job[w].conv, sender |-> Owner[w], key |-> job[w].key,
            state |-> "open", audience |-> {}, due |-> {}, mourners |-> {}]}
    /\ pc' = [pc EXCEPT ![w] = "commit"]
    /\ job' = [job EXCEPT ![w].id = nextId]
    /\ UNCHANGED <<members, allied, lock, link, stream, budget>>

\* The INSERT runs.  It draws an id whether or not the key is taken, and waits
\* for another transaction that is inserting the same key.
Insert(w) ==
    /\ pc[w] = "insert"
    /\ ~ \E r \in table : r.state = "open" /\ SameKey(r, w)
    /\ nextId' = nextId + 1
    /\ ~ \E r \in Committed : SameKey(r, w)
    /\ table' = table \cup
          {[id |-> nextId, conv |-> job[w].conv, sender |-> Owner[w], key |-> job[w].key,
            state |-> "open", audience |-> {}, due |-> {}, mourners |-> {}]}
    /\ pc' = [pc EXCEPT ![w] = "commit"]
    /\ job' = [job EXCEPT ![w].id = nextId]
    /\ UNCHANGED <<members, allied, lock, link, stream, budget>>

\* mutant: the SELECT after the conflict is left out, and the answer has no message.
DuplicateUnread(w) ==
    /\ pc[w] = "insert"
    /\ nextId' = nextId + 1
    /\ \E r \in Committed :
          /\ SameKey(r, w)
          /\ lock' = [lock EXCEPT ![StripeOf[job[w].conv]] = None]
          /\ pc' = [pc EXCEPT ![w] = "reply"]
          /\ job' = [job EXCEPT ![w].id = None, ![w].outcome = "duplicate", ![w].to = {}]
    /\ UNCHANGED <<table, members, allied, link, stream, budget>>

\* ON CONFLICT DO NOTHING, then the SELECT of what the first attempt stored.
FindDuplicate(w) ==
    /\ pc[w] = "insert"
    /\ nextId' = nextId + 1
    /\ \E r \in Committed :
          /\ SameKey(r, w)
          /\ lock' = [lock EXCEPT ![StripeOf[job[w].conv]] = None]
          /\ pc' = [pc EXCEPT ![w] = "reply"]
          /\ job' = [job EXCEPT ![w].id = r.id, ![w].outcome = "duplicate", ![w].to = {}]
    /\ UNCHANGED <<table, members, allied, link, stream, budget>>

\* The row an insert left open becomes visible to every other statement.
Store(w) ==
    \E r \in table :
        /\ r.id = job[w].id
        /\ table' = (table \ {r}) \cup
              {[r EXCEPT !.state = "live",
                         !.audience = Sockets(job[w].to) \ {w},
                         !.due = Sockets(members[r.conv]) \ {w}]}

\* mutant: the lock covers the append but not the publish.
CommitAndUnlock(w) ==
    /\ pc[w] = "commit"
    /\ Store(w)
    /\ pc' = [pc EXCEPT ![w] = "publish"]
    /\ lock' = [lock EXCEPT ![StripeOf[job[w].conv]] = None]
    /\ UNCHANGED <<nextId, members, allied, job, link, stream, budget>>

Commit(w) ==
    /\ pc[w] = "commit"
    /\ Store(w)
    /\ pc' = [pc EXCEPT ![w] = "publish"]
    /\ UNCHANGED <<nextId, members, allied, lock, job, link, stream, budget>>

\* A nack names the conversation, an ack the message as well.
Answer(w) == IF job[w].outcome = "rejected"
             THEN [kind |-> "nack", conv |-> job[w].conv, id |-> 0]
             ELSE [kind |-> "ack", conv |-> job[w].conv, id |-> job[w].id]

\* handleChatMessage answers on its own connection, after the stripe is free.
Reply(w) ==
    /\ w \in Conn /\ pc[w] = "reply"
    /\ Enqueue(w, Answer(w))
    /\ pc' = [pc EXCEPT ![w] = "idle"]
    /\ job' = [job EXCEPT ![w] = NoJob]
    /\ UNCHANGED <<table, nextId, members, allied, lock>>

-----------------------------------------------------------------------------
(* EventSink::publish: WsEventSink and ConnectionHub::sendToAll(Except) *)

Published(w) ==
    [kind |-> IF w \in Conn THEN "message" ELSE "deleted",
     conv |-> job[w].conv, id |-> job[w].id]

\* mutant: the sender is skipped with all devices, not the sending one alone.
ResolveOthersOnly(w) ==
    /\ pc[w] = "publish" /\ job[w].aim = {}
    /\ \E u \in job[w].to :
          job' = [job EXCEPT
                    ![w].to = @ \ {u},
                    ![w].aim = {c \in Conn : /\ link[c] \in {"open", "overflowed"}
                                             /\ Owner[c] = u /\ u # Owner[w]}]
    /\ UNCHANGED <<table, nextId, members, allied, lock, pc, link, stream, budget>>

\* resolve(steamId): the user's connections now; the sending one is skipped.
Resolve(w) ==
    /\ pc[w] = "publish" /\ job[w].aim = {}
    /\ \E u \in job[w].to :
          job' = [job EXCEPT
                    ![w].to = @ \ {u},
                    ![w].aim = {c \in Conn : link[c] \in {"open", "overflowed"} /\ Owner[c] = u} \ {w}]
    /\ UNCHANGED <<table, nextId, members, allied, lock, pc, link, stream, budget>>

\* mutant: the first connection of a user stands for all of them.
PushOnce(w) ==
    /\ pc[w] = "publish"
    /\ \E c \in job[w].aim : Enqueue(c, Published(w))
    /\ job' = [job EXCEPT ![w].aim = {}]
    /\ UNCHANGED <<table, nextId, members, allied, lock, pc>>

Push(w) ==
    /\ pc[w] = "publish"
    /\ \E c \in job[w].aim :
          /\ Enqueue(c, Published(w))
          /\ job' = [job EXCEPT ![w].aim = @ \ {c}]
    /\ UNCHANGED <<table, nextId, members, allied, lock, pc>>

FinishPublish(w) ==
    /\ pc[w] = "publish" /\ job[w].to = {} /\ job[w].aim = {}
    /\ Leave(w, IF w \in Conn THEN "stored" ELSE "removed")
    /\ UNCHANGED <<table, nextId, members, allied, link, stream, budget>>

-----------------------------------------------------------------------------
(* ChatService::remove, run by the HTTP thread w *)

Remove(w, conv, id) ==
    /\ w \in Http /\ pc[w] = "idle"
    /\ budget.removes < MaxRemoves
    /\ Spent("removes")
    /\ pc' = [pc EXCEPT ![w] = "lock"]
    /\ job' = [job EXCEPT ![w] = [NoJob EXCEPT !.conv = conv, !.id = id]]
    /\ UNCHANGED <<table, nextId, members, allied, lock, link, stream>>

\* The row markMessageDeleted matches: the caller's own, in this conversation.
Mine(w) == {r \in Committed : r.id = job[w].id /\ r.conv = job[w].conv /\ r.sender = Owner[w]}

MarkDeleted(w) ==
    \E r \in Mine(w) :
        /\ r.state = "live"
        /\ table' = (table \ {r}) \cup
              {[r EXCEPT !.state = "deleted", !.mourners = Sockets(members[r.conv])]}

\* softDelete's UPDATE; a row already deleted is an idempotent success.
SoftDelete(w) ==
    /\ pc[w] = "update"
    /\ \/ /\ MarkDeleted(w)
          /\ pc' = [pc EXCEPT ![w] = "members"]
          /\ UNCHANGED <<lock, job>>
       \/ /\ \E r \in Mine(w) : r.state = "deleted"
          /\ Leave(w, "removed") /\ UNCHANGED table
       \/ Mine(w) = {} /\ Leave(w, "notFound") /\ UNCHANGED table
    /\ UNCHANGED <<nextId, members, allied, link, stream, budget>>

\* mutant: the deleting user's own devices are left out.
ReadOtherMembers(w) ==
    /\ pc[w] = "members"
    /\ job' = [job EXCEPT ![w].to = members[job[w].conv] \ {Owner[w]}]
    /\ pc' = [pc EXCEPT ![w] = "publish"]
    /\ UNCHANGED <<table, nextId, members, allied, lock, link, stream, budget>>

\* conversations_->members, evaluated for the event's recipients.
ReadMembers(w) ==
    /\ pc[w] = "members"
    /\ job' = [job EXCEPT ![w].to = members[job[w].conv]]
    /\ pc' = [pc EXCEPT ![w] = "publish"]
    /\ UNCHANGED <<table, nextId, members, allied, lock, link, stream, budget>>

Respond(w) ==
    /\ w \in Http /\ pc[w] = "reply"
    /\ pc' = [pc EXCEPT ![w] = "idle"]
    /\ job' = [job EXCEPT ![w] = NoJob]
    /\ UNCHANGED <<table, nextId, members, allied, lock, link, stream, budget>>

-----------------------------------------------------------------------------
(* The rest of the process: ConversationService and ContactService *)

\* PgConversationRepository::acceptInvite commits a member row of a palette.
Join(u, conv) ==
    /\ conv \notin Dm /\ u \notin members[conv]
    /\ budget.joins < MaxJoins
    /\ Spent("joins")
    /\ members' = [members EXCEPT ![conv] = @ \cup {u}]
    /\ UNCHANGED <<table, nextId, allied, lock, pc, job, link, stream>>

\* A block or a removal commits between the two members of a dm, and later
\* they become allies again.
Freeze(conv) ==
    /\ conv \in allied
    /\ budget.freezes < MaxFreezes
    /\ Spent("freezes")
    /\ allied' = allied \ {conv}
    /\ UNCHANGED <<table, nextId, members, lock, pc, job, link, stream>>

Thaw(conv) ==
    /\ conv \in Dm \ allied
    /\ allied' = allied \cup {conv}
    /\ UNCHANGED <<table, nextId, members, lock, pc, job, link, stream, budget>>

-----------------------------------------------------------------------------
(* Faults *)

\* mutant: an exception after the INSERT is taken for a success.
FailureAsDuplicate(w) == IF w \in Conn THEN "duplicate" ELSE "failed"

\* submit catches, and answers Internal; remove lets the exception out.
Failure(w) == IF w \in Conn THEN "rejected" ELSE "failed"

\* A repository call throws before its statement has any effect.
CallFails(w) ==
    /\ pc[w] \in {"get", "ally", "insert", "update", "members"}
    /\ budget.faults < MaxFaults
    /\ Spent("faults")
    /\ Leave(w, Failure(w))
    /\ UNCHANGED <<table, nextId, members, allied, link, stream>>

\* The connection to Postgres fails under an INSERT or an UPDATE: the caller
\* sees an exception whether the statement was committed or rolled back.
AnswerLost(w) ==
    /\ pc[w] \in {"commit", "update"}
    /\ budget.faults < MaxFaults
    /\ Spent("faults")
    /\ Leave(w, Failure(w))
    /\ \/ pc[w] = "commit" /\ Store(w)
       \/ pc[w] = "commit" /\ table' = {r \in table : r.id # job[w].id}
       \/ pc[w] = "update" /\ MarkDeleted(w)
    /\ UNCHANGED <<nextId, members, allied, link, stream>>

\* WsEventSink::publish swallows whatever is thrown while it fans out.
EventDropped(w) ==
    /\ pc[w] = "publish"
    /\ budget.losses < MaxLosses
    /\ Spent("losses")
    /\ job' = [job EXCEPT ![w].to = {}, ![w].aim = {}]
    /\ UNCHANGED <<table, nextId, members, allied, lock, pc, link, stream>>

\* The process restarts: threads, mutexes, connections and open transactions
\* are gone, committed rows are not.
Crash ==
    /\ budget.crashes < MaxCrashes
    /\ Spent("crashes")
    /\ table' = Committed
    /\ lock' = [s \in Stripe |-> None]
    /\ pc' = [w \in Worker |-> "idle"]
    /\ job' = [w \in Worker |-> NoJob]
    /\ link' = [c \in Conn |-> IF link[c] = "new" THEN "new" ELSE "closed"]
    /\ UNCHANGED <<nextId, members, allied, stream>>

-----------------------------------------------------------------------------

SubmitStep(w) ==
    \/ Lock(w) \/ GetConversation(w) \/ CheckAllies(w)
    \/ Insert(w) \/ FindDuplicate(w) \/ Commit(w) \/ Reply(w)

RemoveStep(w) == SoftDelete(w) \/ ReadMembers(w) \/ Respond(w)

PublishStep(w) == Resolve(w) \/ Push(w) \/ FinishPublish(w)

WorkerStep(w) == SubmitStep(w) \/ RemoveStep(w) \/ PublishStep(w)

Environment ==
    \/ \E c \in Conn : Connect(c) \/ Disconnect(c) \/ Refuse(c)
    \/ \E c \in Conn, conv \in Conv, key \in Key : Submit(c, conv, key)
    \/ \E h \in Http, conv \in Conv : \E id \in 1 .. nextId - 1 : Remove(h, conv, id)
    \/ \E u \in User, conv \in Conv : Join(u, conv)
    \/ \E conv \in Conv : Freeze(conv) \/ Thaw(conv)

Faults ==
    \/ \E w \in Worker : CallFails(w) \/ AnswerLost(w) \/ EventDropped(w)
    \/ Crash

Next == Environment \/ Faults \/ \E w \in Worker : WorkerStep(w)

Spec == Init /\ [][Next]_vars

\* A thread that has work keeps running; nobody is obliged to send, connect or fail.
FairSpec == Spec /\ \A w \in Worker : WF_vars(WorkerStep(w))
-----------------------------------------------------------------------------
(* What must hold *)

DataOK ==
    /\ table \subseteq Row
    /\ nextId \in Nat \ {0}
    /\ members \in [Conv -> SUBSET User]
    /\ allied \subseteq Dm

WorkersOK ==
    /\ lock \in [Stripe -> Worker \cup {None}]
    /\ pc \in [Worker -> {"idle", "lock", "reply"} \cup Critical]
    /\ job \in [Worker -> Job]

LinksOK ==
    /\ link \in [Conn -> {"new", "open", "overflowed", "closed"}]
    /\ stream \in [Conn -> Seq(Frame)]

BudgetOK == budget \in [Bounded -> Nat]

\* Type correctness.
TypeOK == DataOK /\ WorkersOK /\ LinksOK /\ BudgetOK

Told(c, kind, id) == \E i \in 1 .. Len(stream[c]) : stream[c][i].kind = kind /\ stream[c][i].id = id

\* The messages of one conversation reach every connection in ascending id
\* order, none of them twice: publish happens under the lock that append took.
OrderedDelivery ==
    \A c \in Conn : \A i, j \in 1 .. Len(stream[c]) :
        /\ i < j
        /\ stream[c][i].kind = "message" /\ stream[c][j].kind = "message"
        /\ stream[c][i].conv = stream[c][j].conv
        => stream[c][i].id < stream[c][j].id

\* A connection that is shown a message has been shown every earlier message
\* of the conversation that was stored for it: a client may then keep nothing
\* but the highest id it holds.
NothingSkipped ==
    \A c \in Conn : \A i \in 1 .. Len(stream[c]) :
        stream[c][i].kind = "message" =>
            \A r \in Committed :
                /\ r.conv = stream[c][i].conv /\ r.id < stream[c][i].id
                /\ c \in r.audience
                => \E j \in 1 .. i : stream[c][j].kind = "message" /\ stream[c][j].id = r.id

\* A stored message is delivered or on the way to every socket, but the sending
\* one, of every member the send read, whoever comes, goes or joins meanwhile,
\* unless a call failed.  Who joins after that read may miss it: AnswersAreTrue.
EveryMemberTold ==
    \A r \in Committed : \A c \in r.audience :
        link[c] = "open" =>
            \/ Told(c, "message", r.id)
            \/ \E w \in Conn :
                  /\ pc[w] = "publish" /\ job[w].id = r.id
                  /\ c \in job[w].aim \/ Owner[c] \in job[w].to

\* A send that is found to be a retry was delivered to everybody the first
\* time, unless a call failed ("a message already stored and already delivered:
\* ack it, tell nobody").
DuplicateMeansDelivered ==
    \A w \in Conn : pc[w] = "reply" /\ job[w].outcome = "duplicate" =>
        \A r \in Committed : r.id = job[w].id =>
            \A c \in r.audience : link[c] = "open" => Told(c, "message", r.id)

\* When remove answers Removed, of a message deleted now or earlier, every
\* member's devices were told, unless a call failed.
RemovedMeansTold ==
    \A h \in Http : pc[h] = "reply" /\ job[h].outcome = "removed" =>
        \A r \in Committed : r.id = job[h].id =>
            \A c \in r.mourners : link[c] = "open" => Told(c, "deleted", r.id)

\* No connection is told of the deletion of a message before the message.
DeleteAfterMessage ==
    \A c \in Conn : \A i, j \in 1 .. Len(stream[c]) :
        /\ stream[c][i].kind = "deleted" /\ stream[c][j].kind = "message"
        /\ stream[c][i].id = stream[c][j].id
        => j < i

\* Retries, from whichever device, never make two messages of one: no
\* connection is shown two messages with the sender's same key.
DeliveredOncePerKey ==
    \A c \in Conn : \A q, r \in Committed :
        /\ q # r /\ q.conv = r.conv /\ q.sender = r.sender /\ q.key = r.key
        => ~ (Told(c, "message", q.id) /\ Told(c, "message", r.id))

\* An acknowledged message is in the table, whatever fails or restarts.
AckMeansStored ==
    \A c \in Conn : \A i \in 1 .. Len(stream[c]) :
        stream[c][i].kind = "ack" => \E r \in Committed : r.id = stream[c][i].id

\* In one conversation rows become visible in id order, so a reader that has
\* seen id n has nothing below n left to come.
CommitsInIdOrder ==
    [][\A r \in Committed' :
          (\A q \in Committed : q.id # r.id) =>
              \A q \in Committed : q.conv = r.conv => q.id < r.id]_vars

\* The messages in the table whose state is one of these, as ChatLog names them.
Messages(states) ==
    {[conv |-> r.conv, id |-> r.id] : r \in {q \in table : q.state \in states}}

Chat == INSTANCE ChatLog WITH
            stored  <- Messages({"live", "deleted"}),
            deleted <- Messages({"deleted"}),
            shown   <- stream

\* The table and what connections are sent behave like one log, though senders
\* and removers run side by side: whatever is shown is then the newest there is
\* and has not been deleted, and nothing is answered before it is so.
ChatSpec == Chat!Spec

\* When submit answers Stored, every socket of every member was told, of those
\* too who joined before the message was stored.
StoredMeansTold ==
    \A w \in Conn : pc[w] = "reply" /\ job[w].outcome = "stored" =>
        \A r \in Committed : r.id = job[w].id =>
            \A c \in r.due : link[c] = "open" => Told(c, "message", r.id)

\* Each of three answers is said to mean that everybody was told: Stored ("every
\* socket of every member EXCEPT [except]", Events.hpp:64), Duplicate ("already
\* stored and already delivered", ChatService.cpp:116) and Removed ("every
\* member's devices were told", ChatService.hpp:144).  Of three answers on their
\* way at once one at least means it: where this fails, none of them does.
AnswersAreTrue == StoredMeansTold \/ DuplicateMeansDelivered \/ RemovedMeansTold

\* Every request is answered: no path out of submit or remove keeps a stripe.
EveryRequestAnswered == \A w \in Worker : pc[w] # "idle" ~> pc[w] = "idle"
=============================================================================
