# PicassoBackend: specifications and proofs

PicassoBackend is the server of a chat for people who play together: it signs
users in through Steam, keeps their contacts, conversations and messages in
Postgres, and pushes what happens to the open WebSocket connections of everybody
concerned. This directory holds TLA+ models of it, the TLC runs that check them
and the TLAPS proofs about them. Everything is translated from the C++ and SQL in
`src/`; `PROJECT.json` maps each definition to the lines it stands for.

    tlc -workers 2 -config ChatOrder.cfg MCChatService     # one run
    tlapm ChatService_proofs.tla                           # the proofs of one module

## 1. The system

One process. Oat++ gives every HTTP request and every WebSocket connection a
thread; a connection has a second thread, its writer. Postgres is the only
persistent state, and every statement is its own transaction unless the
repository opens one.

| component | state it keeps | operations | talks to |
|---|---|---|---|
| `service/ChatService` | 64 stripe mutexes, a token bucket per user | `submit`, `remove`, `sync`, `history` | the three repositories, `EventSink` |
| `storage/PgChatRepository` | table `message_data`: id, key, text, `deleted_at` | `append`, `softDelete`, `newest`, `olderThan`, `deletedSince` | Postgres |
| `transport/ws/WsEventSink` | nothing | `publish` of each event | `ConnectionHub` |
| `transport/ws/ConnectionHub` | user -> connections, under one mutex | `add`, `remove`, `sendTo`, `sendToAllExcept` | `WsSession::send` |
| `transport/ws/BoundedFrameQueue` | frames, their bytes, `overflowed_`, `closed_`, one condition variable | `push`, `pushPong`, `pop`, `close` | - |
| `transport/ws/WsSession`, `SessionFactory` | the queue, the writer thread, the socket | `readMessage`, `onPing`, `onClose`, `shutdown`; creation and teardown | `ChatService`, `CallSignalService`, the hub |
| `service/ConversationService`, `PgConversationRepository` | conversations, dms, palettes, members, invitations | `getOrCreateDm`, `createPalette`, `invite`, `acceptInvite`, `declineInvite` | Postgres, `EventSink` |
| `service/ContactService`, `PgContactRepository` | directed contacts with a level, requests with a state | `request`, `accept`, `decline`, `withdraw`, `setLevel`, `removeOrUnblock` | Postgres, `EventSink` |
| `service/AuthService`, `PgSessionRepository` | parked logins in memory, sessions in a table | `completeLogin`, `claimLogin`, `authenticate`, `logout` | `OpenIdVerifier`, Postgres |
| `service/CallSignalService` | nothing | relays a call signal | the hub |
| HTTP and WS controllers, codec, DTOs | nothing | parse, authenticate, call a service, format | services |
| start-up, migrations, logger, deployment | configuration, schema, a log file | once, or append only | - |

A message travels like this. The reader thread of the sender's connection runs
`submit`: cheap checks and the rate limit, then the stripe of the conversation,
then `get`, `canCommunicate`, `append`, and - still under the stripe - `publish`,
which resolves the members' connections through the hub and pushes a frame into
each queue. The stripe is released and the answer (`message.ack` or `.nack`) is
pushed into the sender's own queue. Each connection's writer pops the frames and
writes them. A deletion comes over HTTP, takes the same stripe, stamps the row and
publishes. A device that was away connects, then runs `POST /sync` with the
highest id it holds of each conversation.

### What is hard, and what must hold

* **Order** (ChatService). Ids are drawn, rows commit and frames are pushed at
  three different moments of several threads, yet a client's cursor is a plain
  maximum: one inversion loses a message for good. *Rows become visible in id
  order; every connection sees ascending ids and no holes; a deletion comes after
  its message.*
* **Retries and failures** (ChatService, PgChatRepository). An INSERT may commit
  and its answer be lost; the process may stop between commit and publish.
  *An acknowledged message is stored, a key never makes two messages, a
  "duplicate" was delivered, every request is answered.*
* **Catching up** (sync). The answer is put together by several statements that
  no lock joins, while messages, deletions and frames go on. *The cached range
  stays contiguous, no deletion is missed, nothing falls between sync and socket.*
* **Queues and teardown** (BoundedFrameQueue, WsSession). The notify follows the
  unlock; overflow, close, a broken connection and the destruction of the socket
  meet in any order, and the peer may stop reading. *Nothing is dropped silently, no
  wakeup is lost, a socket that is gone is left alone, teardown ends if the peer reads.*
* **Rates** (takeToken). The clock is read outside the mutex and can be set back.
  *Never more than the limit; a refusal only when the limit is used up.*
* **Pairs** (contacts): both ends act at once, in transactions that take the same
  rows in different orders. *Nobody can be written to who has not agreed to it and
  still does; a row is changed by its owner alone; every call is answered,
  deadlocks included.*
* **Conversations**: both ends open the same dm, several invitees join at once,
  two people part while an invitation is under way. *One dm per pair, new to one
  caller; members have been told of each other; a parting leaves no invitation that
  it could see.*
* **Logins and connections**: a parked token is polled, overwritten and pruned by
  calls that read the clock before the mutex; a session ends while a request is
  checked by it; devices of one user come and go while a frame goes to all of
  them. *A token is handed out once; nobody gets in whose session is over; every
  device is reached.*

`PROJECT.json` lists each hazard at its line with the properties that cover it.

## 2. The modules

| module | models | notes |
|---|---|---|
| `ChatService` | `submit`, `remove`, `append`, `softDelete`, the fan-out of events | one step per statement, id draw apart from commit, stripes, faults, restart |
| `ChatLog` | what senders, removers and the fan-out promise together: one log of which the newest entry alone is shown | the abstract specification of `ChatService` |
| `FrameLimits` | what a queue is made with: frames, sizes, limits | constants and their assumption, common to `FrameQueue` and `WsSession` |
| `FrameQueue` | `BoundedFrameQueue` and `writerLoop` | a critical section is a step, the notify another; spurious wakeups |
| `FrameStream` | what a connection promises: the peer receives a prefix of what was accepted, until it is cut | the abstract specification of `FrameQueue` |
| `WsSession` | reader, writer, publishers and teardown of one connection, whose peer may stop reading | instantiates `FrameQueue`, and is run with it |
| `TokenBucket` | `takeToken` with a clock that may be set back | time in the unit in which a bucket gains one |
| `ChatSync` | `sync`, `history`, and one device's cached range | the device is the one the DTO comments describe |
| `Contacts` | `request`, `accept`, `declineOrWithdraw`, `setLevel`, `removeOrUnblock` and the events they cause | one step per SQL statement, row locks, deadlocks, READ COMMITTED |
| `Conversations` | `createDm`, `createPalette`, `invite`, `acceptInvite`, `declineInvite` and the events | one step per statement, the unique pair of a dm, the lost race |
| `Connections` | sign-in, hand-over, sign-out, `authenticate`, the upgrade, `ConnectionHub`, sends to one user | one step per statement or critical section |
| `MC*` | instances for TLC | |
| `*_proofs` | theorems and their lemmas | of `ChatService`, `FrameQueue`, `WsSession`, `TokenBucket`, `ChatSync`, `Connections`, `Conversations`, `Contacts` |

How they compose: `ChatService` ends at the history of frames each queue has
*accepted* (`stream`); `FrameQueue` shows that the peer receives a prefix of it,
in order; `WsSession` shows that a session uses its queue only through its own
operations, so what is proved of the queue holds of it. `ChatSync` takes the
result - frames of one conversation arrive in commit order - as its socket.
What other services do to a conversation is an environment step of `ChatService`:
`Join` is the commit of `acceptInvite` in `Conversations`, `Freeze` a block or a
removal in `Contacts`, which `Conversations` in turn knows as `DeleteInvites` and
`CommitParting` (or `RollBackParting`), the end of the same transaction.
`Connections` is what is behind the single step
`Resolve` of `ChatService`: the hub's list with the connections that come and go,
and how each got in.

### ChatService

`pc[w]` names the statement a thread is about to run: `lock`, `get`, `ally`,
`insert`, `commit`, `publish`, `reply` for `submit`; `lock`, `update`, `members`,
`publish` for `remove`. `job[w]` holds its locals (`to` = the members read before
the append, `aim` = the connections still to push to). `table` holds rows that are
open (inserted, not visible), live or deleted. An `Insert` draws the id and
`Commit` makes the row visible: Postgres takes the identity value when the
statement runs, so without the stripe rows could become visible out of order.
`CallFails` is an exception out of a repository before anything happened,
`AnswerLost` one after the statement committed, `EventDropped` the catch in
`WsEventSink`, `Crash` a restart. `audience`, `due` and `mourners` in a row, and
`stream`, are history: only properties read them. The first three are sockets in the
hub: of the members the send had read and of all members, as the row became visible,
and of all members as it was deleted. `Join` (an invitation accepted) and
`Freeze`/`Thaw` (a block and its end) are what other services do meanwhile.

`ChatLog` has no threads, locks or members: `Store` adds a message above all of its
conversation, `Delete` marks one, `Show` sends a connection the newest message,
once and not after its deletion, `Retract` and `Acknowledge` speak of what was
deleted or stored. The refinement maps `stored` and `deleted` to the visible rows
and `shown` to `stream`. Statements that change no visible row, a rollback, a
restart and a push that a queue refuses are stutters. A run of `ChatLog` need
not tell everybody: who is told is the matter of `EveryMemberTold` and its like.

### FrameQueue, FrameStream, WsSession

`owing` are threads between their unlock and their notify. The writer is popping,
waiting, sending a frame (`hand`), closing after an overflow, or returned.
`FrameStream` knows only `accepted`, `received` and `cut`; the refinement maps
`received` to what was written and `cut` to closed or overflowed.
In `WsSession`, which is what the run checks, the reader goes open -> ended -> unlisted -> joining -> gone, which is
`onBeforeDestroy` (leave the hub, close the queue, join the writer) and then the
destruction of the socket. A sender holds the session through a shared pointer
after it was copied out of the hub, so it may push into a closed queue. `link` is the
TCP connection: a write that fills the send buffer leaves it `full`, and the writer
is blocked in its next write until the peer reads (`Drain`) or the connection breaks.

### TokenBucket

`stamp[c]` is the `now` a connection has read and not yet used, so two connections
of a user can reach the bucket in the opposite order. `Level` is the refill with
its cap, and with a negative difference when the stamp is behind. Tokens are
counted in time (a token costs `Cost`), which removes the fractions;
floating-point rounding is not modelled.

### ChatSync

The server runs `StartSync` (the clock), `ReadRows`, `ReadDeletions` as separate
steps without the stripe. `op` is whoever has the stripe: a send between its commit
and its push, or a deletion between its stamp, its commit and its push. The device
holds `held`, `more` (has it been told of older messages) and `since` (the
previous `deletedCursor`). It behaves as the comments of `dto/Rest.hpp` and
`WsSession.cpp:84` say: it reconnects, *then* syncs; appends a delta, replaces its
range by a reset; sends the highest id it holds; applies frames after the answer
it is waiting for, and ignores a message frame that is not newer than its range.
That client is not in the repository, so `Newer` and `Receive` are marked external.
Two limits of the model: one conversation (the loop treats each alike, and a
deletion cursor common to all is not weaker for one of them), and a committed
message goes unpublished only when the process stops. The exceptions that leave a
message unpublished while connections stay up are in `ChatService`, and
`ChatAnswers` below shows one; a device that is then sent the *next* message
has a hole no sync fills.

### Contacts

Each thread serves one call; `pc[w]` names the statement it is about to run. A
statement outside a transaction commits at once (`Execute`). Inside `accept`,
`remove` and `block` it is written to `draft[w]` (`Stage`), which the others cannot
see and whose rows they wait for (`WaitsFor`): `Targets(w)` are the rows a statement
writes to. An INSERT takes its row whatever it contains; a DELETE or UPDATE takes
those that satisfy its WHERE, and nothing if none does, so `accept`, which begins
with the request, and `block`, which begins with a contact row, may take the rows of
one pair in opposite orders; `Deadlocked` is a circle of such waits and
`BreakDeadlock` the abort Postgres answers with. `Check...` are the reads of
`request`, each a statement of its own: `PendingFrom` uses the clock of the statement
(`now()` in SQL), the others the clock read at the start. `Look` and `Publish`
are `publishPair`, which reads the rows after the commit. `consent`, `refused` and
`raced` are history. A call is left to itself when it fails (`Fault`), and a
COMMIT that fails goes unnoticed (`LoseCommit`), since its result is not looked at.

### Conversations

As in `Contacts`, but the transactions are short, so `held[w]` names the row each
of them keeps instead of a draft: the unique pair of `chat`, or the invitation that
is being accepted. Identity values are drawn at `InsertConversation` and lost on a
rollback; a call draws one at most, so `MaxEvents` bounds them and the guard
`nextId \in Conv` never binds. `createDm` takes every exception of its transaction
for a lost race and looks again (`again`). `ReadClock` is where `createPalette` and
`invite` read the clock, after their checks; the other calls read it as they start.

An event carries the whole conversation and takes the place of what the client had, so
`seen[i][u]` is the *last* list of members of `i` that `u` was told, and `Tell` replaces
it, also by a list that was read earlier. `overtaken[i]` is history: who joined while
such a list was still being told. `firsts` counts answers that said "created".

A parting is the end of the transaction of `remove` or `block`: `DeleteInvites` is its
`deleteInvitesBetween`, after which the two still count as allies for everybody else
(`parting`) and the invitations it has deleted are still seen, but whoever wants one
of their rows waits (`doomed`); `CommitParting` makes both come true. `timing` in an
invitation is history: stored before any DELETE of a parting of the two; across, that
is later, by a call that began before the COMMIT; or by a call that began after.

### Connections

An HTTP thread and an open connection are both actors with a `pc` and a `job`.
`Verify`, `Store`, `Deliver` and `Park` are `GET /auth/steam/return`, `Claim` is
`GET /auth/steam/poll`, `Revoke` is `POST /auth/logout`; `Select` and `Check` are
`authenticate`, whose row is read in one step and judged in the next. A token is an
element of `Token` that nobody has been given before, which is what 256 random bits
are for. `link[c]` follows a connection from the handshake (`upgraded`) over
the map of `SessionFactory` (`kept`), the hub (`listed`), the listener (`open`) and
back (`ended`, `unkept`, `gone`). `Resolve` copies `hub[u]` under the lock,
`Push` pushes to one of the copied connections at a time without it. `late`, `must`,
`handed` and `ended` are history.

## 3. The runs

Passing runs:

| run | instance | shows |
|---|---|---|
| `ChatOrder` | a palette of A, who has two devices, that B may join at any moment; two keys, two sends (a retry among them), two deletions (or one repeated), one connection lost at any moment | order and completeness of delivery; deletion after message; duplicates acknowledged only once delivered; one message per key; rows commit in id order; the whole implements `ChatLog` |
| `ChatFaults` | a dm and a palette on two stripes, two sends, one deletion, and one each of join, block, repository exception, dropped event, restart; weak fairness | every request is answered on every path, so no path keeps a stripe; an acknowledged message is in the table, crash or not |
| `Session` | the reader and two senders, a small and a large frame, two frames or three bytes, four pushes, a peer that may stop reading, close or vanish; weak fairness | the session uses its queue as `FrameQueue` says; bytes and limits exact; nothing dropped before the cut; the peer is sent a prefix (`FrameStream`); nothing happens on a socket that is gone; and if the peer goes on reading: no lost wakeup, the writer returns, teardown ends |
| `Bucket` | a user with two connections, a bucket of two and a half tokens, six moments, one set-back | no window of accepted messages exceeds the limit; an in-order reading is refused only when the limit is used up |
| `Sync` | three messages and their deletions, pages of one, an overlap of 2 with deletions taking at most 1, two losses | the range is contiguous, `hasMoreBefore` right, no deletion missed, and a device is up to date when nothing is under way |
| `Contacts` | A and B, with C and D to be asked too; two threads; three calls, instants or faults, from five states of the pair (strangers, a request, a refusal, a block, allies with a request left over); weak fairness | consent is mutual, rows belong to their owners, the limit on requests is passed by no more calls than run at once, devices are told what is so, every call is answered |
| `Conversations` | three allies, a palette of A with two invitations; two threads; four calls, partings, instants or faults, a parting's DELETE and COMMIT apart | one dm per pair; members told of each other; what a parting could see of invitations is gone |
| `Connections` | A connected twice and B once, a fourth connection and two unused tokens; two threads; four requests, signals, losses, instants or faults | a token is handed out once, whoever is let in is signed in, every device of a user is reached |

Runs in which the code departs from what a comment says (the findings of
`PROJECT.json` quote each comment):

| run | what happens |
|---|---|
| `ChatAnswers` | three answers that are said to mean that everybody was told are under way at once, and none does: *Stored* (`Events.hpp:64`) for a message a member who joined between the read of the members and the append was not sent; *Duplicate* (`ChatService.cpp:116`) for one whose INSERT committed and whose answer was lost, so that nobody was; *Removed* (`ChatService.hpp:144`, `Events.hpp:74`) for a deletion repeated after the first failed behind its UPDATE |
| `ContactMutual` | a request passes its checks, is overtaken by a block of its target, is stored after all and accepted: an ally row opposite an imposter row |
| `ContactCooldown` | a sender who was declined withdraws the request, the marker of the refusal goes with it, and the next request is stored at once |
| `ConversationInvites` | an invitation passes `canCommunicate`, the two part, and it is stored after the parting deleted what was there (`ContactRepository.hpp:80`, `PgContactRepository.cpp:196`: invitations between the two go with the alliance) |

`AnswersAreTrue` is a disjunction, so that one run shows all three: where it fails,
each of `StoredMeansTold`, `DuplicateMeansDelivered` and `RemovedMeansTold` fails. The
last two hold while no call fails, which is what `ChatOrder` checks and the proofs
show for all values; the first does not even then.

What else departs from a comment, or is weaker than one might think:

* `WsSession.hpp:76` says that a client too far behind is "disconnected, not waited
  for". It is not: after an overflow the writer sends a close frame - or is blocked in
  the write before it - and nothing but the peer ends the connection. A peer that
  neither reads nor answers keeps the connection, the reader's thread (the writer's too
  while it is blocked) and its place in the hub. The model has these states (`link` full for ever, `session` open); no run is
  spent on them, as it takes one idle peer and no interleaving, and the liveness
  properties of `Session` say `PeerReads` in so many words.
* The ack leaves after the stripe is free, so it may come after the frame that
  deletes its message; `DeleteAfterMessage` is about message frames and no property
  forbids a late ack.
* A clock that is set back takes tokens out of the bucket; a reading behind the
  last one is outside `RefusalJustified`.
* `EveryoneIntroduced` excepts who joined while an older list was still being told
  (`overtaken`): told last, that list takes them off again, until the next event or
  snapshot. Without the exception TLC shows it.
* `PendingBounded` lets a user whose calls overlapped (`raced`) pass the limit by fewer
  requests than there are threads, and `ToldTruly` speaks of pairs whose calls did not
  overlap: calls at once do pass the limit together, and can tell a device last what
  was so first.
* `static/docs.html:349-350` is out of date: it says that the upgrade takes the bearer
  token as a literal steamId "with no verification". `WsController` authenticates it
  (`Select`, `Check` and `Upgrade` of `Connections`).

### Bounds, and why they are enough

Every bound is a constant `Max...` used in a guard. Two sends are the least that
can be inverted, duplicated or overtaken; the second device of the sender and the
other member's device are the two kinds of recipients, and the sending connection
is the third, while a member who joins, at any moment, separates the list a send has
read from those there are. Two deletions are of both messages, or one is repeated.
`ChatFaults` has no lost connection and one device: one fault of each kind suffices to
separate commit from publish, and a second would repeat the first on another row;
`ChatAnswers` has two, for two of its three answers. Two
stripes show that a stripe kept would not be masked by another conversation. In
the queue, two frames fill it by number and a large one by size. Pages of one make
three messages more than a page and leave two pages of history. The overlap is one
more than a deletion may take, the least that `DeletionsAreSentAgain` allows: with
both equal, TLC finds `NoneMissed` violated.

`Contacts`, `Conversations` and `Connections` bound all events together
(`MaxEvents`), so that every mixture of calls, instants, faults and the like up
to that number is explored, and not only one of each. Two threads are what a race
takes; three calls of `Contacts` are a request, the block that overtakes it and the
answer, and the five states it starts from (`MCPairs`) stand for what
earlier calls have left. One waiting request reaches `MaxPending`; with C and D as
further targets A can ask for three, one more than the limit and the two threads
allow together. `Conversations` takes four: two invitees who accept while a third call
and a parting meet them. `Connections` takes four: a sign-in, the poll for it, a use of
what was handed out and an instant or a loss in between; `PendingTTL` is shorter than
`SessionTTL` as in the code, and one instant or two outlast them.

Symmetry is used in `ChatOrder` (keys, and the two devices of A), `Conversations` and `Connections` (threads);
none of these runs has a liveness property.
`CHECK_DEADLOCK FALSE` everywhere, since the bounds exhaust what the environment
does and a server with no request rests.

### Fairness

Weak fairness on threads that have something to run, and on nothing else: a worker
inside `submit` or `remove`, the writer when it is not asleep, the notify a thread
owes, the teardown the server has begun, an HTTP thread of `Contacts` inside a
call. For the last the database helps: a statement waits for rows of a transaction
that goes on, or for a circle, which Postgres breaks after `deadlock_timeout`.
A write to a socket is not among it: `ServerRunner.cpp` gives its connections no
timeout, so the writer of a peer that stops reading is blocked as long as the peer
likes, and with it the join in `onBeforeDestroy` - `closed_` does not interrupt a
write. The step of the writer is then not enabled, fairness asks nothing of it, and
`EveryFrameServed`, `WriterEnds` and `TeardownEnds` are conditional: they suppose
`PeerReads`, that the send buffer is not full from some moment on for ever. A broken
connection, which TCP reports to the writer, is such a case.
Nobody has to send, connect, close or fail; a peer need neither read nor answer a
close frame. `std::mutex` promises no order among waiters. Weak fairness suffices
nevertheless, because the bounded sends leave no one to be overtaken by for ever; the
property is then that no path keeps the stripe, not that a waiter is served first.

## 4. The proofs

All for any values of the constants, under the named `ASSUME`s alone; what a
theorem supposes beyond them is in its statement.

| theorem | says |
|---|---|
| `ChatService_proofs!TypeCorrect`, `IndexCorrect` | types; the inductive invariant of stripes, rows and ids |
| `ChatService_proofs!CommitsAscend` | `CommitsInIdOrder`: rows of a conversation become visible in id order |
| `ChatService_proofs!DeliveryOrdered` | `OrderedDelivery`: every connection is shown ascending ids |
| `ChatService_proofs!KeysDeliveredOnce`, `AcksStored`, `DeletesFollow` | `DeliveredOncePerKey`, `AckMeansStored`, `DeleteAfterMessage`, whatever fails or restarts |
| `ChatService_proofs!MembersTold`, `NoneSkipped`, `DuplicatesDelivered` | `EveryMemberTold`, `NothingSkipped`, `DuplicateMeansDelivered`, as long as no repository call failed and no event was dropped (`NoneLost`), whoever joins |
| `ChatService_proofs!RemovalsTold` | `RemovedMeansTold`, under the same condition |
| `ChatService_proofs!ChatIsLog` | `ChatService` implements `ChatLog`, whatever fails or restarts |
| `FrameQueue_proofs!NothingIsDropped` | `NothingDropped` |
| `FrameQueue_proofs!QueueIsStream` | the queue implements `FrameStream` |
| `FrameQueue_proofs!BytesAreExact` | `BytesExact`: the bytes counted are the bytes queued, within both limits |
| `WsSession_proofs!SessionUsesQueue` | a session implements its queue |
| `WsSession_proofs!SessionQuiet` | `QuietAfterTeardown`: nothing is written or accepted once the socket is gone |
| `WsSession_proofs!SessionTyped`, `SessionDropsNothing`, `SessionCountsBytes`, `SessionIsStream` | types; `NothingDropped`, `BytesExact`, `StreamSpec` of a session |
| `TokenBucket_proofs!RateLimited`, `RefusedOnlyWhenTooMany` | `RateLimit`; `RefusalJustified` |
| `ChatSync_proofs!TypeCorrect`, `DeletionsAreSentAgain` | types; `NoneMissed` when `Late < Overlap` |
| `ChatSync_proofs!RangeCorrect`, `RangeHasNoHoles`, `EndIsTheEnd` | the inductive invariant of the range; `NoHoles`; `MoreIsTrue` |
| `ChatSync_proofs!DeviceCatchesUp` | `CaughtUp` when `Late < Overlap` |
| `Connections_proofs!TypeCorrect`, `Invariant` | types, and that the hub lists the connections between `add` and `remove`; the inductive invariant |
| `Connections_proofs!TokensHandedOver` | `HandedOver`: a token is handed out once and is not lost while fresh |
| `Connections_proofs!LetInRightly` | `OnlyTheSignedIn`: nobody is let in late, nobody is taken for somebody else |
| `Connections_proofs!AllReached` | `EveryDeviceReached`: a send reaches all devices of its user, and no other |
| `Conversations_proofs!TypeCorrect`, `OneDmPerPair` | types; `OneDm`: a pair has one dm, created once, and every answer names it |
| `Conversations_proofs!InvitationsGo`, `MembersIntroduced` | `InvitationsEnd`: what a parting leaves was stored after its DELETE by a call begun before its COMMIT; `EveryoneIntroduced` |
| `Contacts_proofs!Invariant`, `OwnersOnly` | the inductive invariant of the open transactions; `RowsBelongToOwners` |
| `Contacts_proofs!WellTyped`, `OnlyByConsent`, `LimitHolds` | types; `Consent`; `PendingBounded` |
| `Contacts_proofs!ToldAsItIs` | `ToldTruly`, from tables such as calls that do not overlap leave (`Unraced`) |

The type correctness of `TokenBucket`, `ChatSync` and `WsSession` with its queue is
proved and not checked by a run.

**Order of messages.** `OrderedDelivery` is not inductive: it says nothing of
frames still to be pushed. `IndexInv` ties what is under way to the table: a worker
past the lock holds the stripe of its job (`JobOK`, `MutexOK`), an open row belongs
to a worker at `commit` (`TableOK`), and no committed row of a conversation has an
id above that of a row still open (`CommitOK`). From the stripe follows that at
most one worker per conversation is between drawing an id and the end of its
publish. `DeliveryInv` adds that a message frame carries an id already drawn
(`FramesOK`), that a publisher's users are either still to be resolved or
resolved, not both (`AimOK`), and that the connections it has still to push to have
seen only older messages of the conversation (`NewestOK`): so each push appends an
id above all that the connection has seen.

**What is told, and what an answer means.** One row per sender's key
(`OneRowPerKey`, the unique index) and one id per row make `DeliveredOncePerKey` a
corollary of the order. `AckMeansStored` and `DeleteAfterMessage` hold whatever
fails: an answer of success carries the id of a committed row of its conversation
(`AnsweredOK`), and rows are never deleted, only marked; once a connection has heard
of a deletion nobody holding the stripe is about to store or publish that id
(`DeletionsOK`). The other four are false when something fails, and `ChatAnswers`
shows how, so the theorems say until when they hold, by the counters of
`budget` (`NoneLost`): an answer lost after its statement committed, or an event the sink
swallowed, leaves a row that nobody is on the way to tell. Whoever joins after
`GetConversation` is not in the row's `audience`, so joins need no condition; that such
a member is not told is the first finding of `ChatAnswers`.
A closed connection, a restart, a block and any number of
deletions and retries are allowed. The invariant (`ToldInv`, `RemovalInv`) keeps for
each row and each connection that had to hear of it one of two facts: it has, or
a worker that holds the stripe has it in `aim` or its owner in `to`. Commits in id
order then give `NothingSkipped`.

**One log.** `ChatIsLog` takes each step apart. A commit, or one whose answer is lost, is
`Store`: the id is above the conversation's by `CommitOK`. A push by a sender is
`Show`: the message is the newest and not deleted because whoever would store or
delete in the conversation waits for the stripe (`LatestOK`, which needs that a
publisher speaks of a row of its own conversation), and was not shown before by
`NewestOK`. A push by a remover is `Retract` by `RemovedOK`, and an answer of success
`Acknowledge` by `AnsweredOK`. `LatestOK` rests on `remove` taking the same lock as
`submit`: without it TLC finds a message shown after it was deleted.

**Queue.** The invariant relates three numbers - accepted, written, and what the
writer holds or the queue keeps - and says that until the cut they are one
sequence. The refinement maps every step of a producer to "accept", a write to
"receive", an overflow or close to "cut", the rest to stuttering. `BytesExact`
sums over the queue by a recursive function. Two sums over the same frames are
equal because there is no least length at which they differ, and a sum for one
length more exists if it does for the length before; the least length is found by the
well-foundedness of the finite sets below it, since the library's induction
theorems cannot be instantiated here. Append and Tail then move the sum by one
size. A session's steps are steps of its queue or leave it alone, so what is proved
of the queue is cited for the session. `SessionQuiet` needs that the queue is closed and
the writer has returned from the join on, and that both stay so (`EndOK`): a sender that
still holds the session is then refused.

**Rate limit.** `Left(u, i)` is what the limit leaves, counted from message `i`:
burst plus the time since, less a token for `i` and for each one after it. `RateLimit`
needs that `tokens` is never more than `Left` for any `i` (`NeverMore`);
`RefusalJustified` needs that it equals `Left` for some `i` (`NeverLess`). Both are
preserved by a call whose reading lies before, at or after the last.

**Deletions.** `NoneMissed` alone is not inductive: an answer replaces the cursor
while deletions stamped before it are still to commit. The invariant adds that the
cursor lies behind the clock by more than a deletion may take (`CursorInv`), that
what is under way - an uncommitted deletion, the frame of a message already
deleted - was stamped no longer than `Late` ago (`FreshInv`), and that whatever
the pending answer will leave on the device is newer than the cursor that comes
with it (`AnswerInv`). `Late` is an assumption about the world, not the code:
no lock bounds how long an UPDATE waits for a database connection. The theorem says what
the 30 s of `DELETED_CURSOR_OVERLAP_MS` buy. A clock that is set back counts against
the overlap in the same way; the model's clock only goes forward.

**The range of a device.** `NoHoles` needs to know what is on its way. The socket
carries ids in ascending order, a deletion after its message (`Ordered`), and
whatever was sent after a message that is on its way is on its way as well
(`Followers`). What an answer under way speaks of and does not have came after its
rows and is coming, if the device asked on this connection (`AnswerAhead`); what
a page of history does not have is older than the page, and the page says so
(`PageAhead`). So appending, replacing and prepending leave no gap, and a device
that has synced on its connection has, or is being sent, everything from its oldest
on (`SyncedInv`). This needs nothing of the clock: `Late < Overlap` enters only
`CaughtUp`, for the deletions that were made while the device was away
(`FollowInv`).

**Logins and connections.** None of the three properties is inductive. `FreshInv`
says where a token is between `Verify` and its hand-over: with one thread (`Minted`)
or parked under one nonce, never both or twice, and until then handed to nobody; so
a claim hands it out for the first time and an overwriting login brings a different
one. The clock a thread has read is not ahead of `clock`, so what a claim or a park
prunes really is too old, in whichever order they reach the mutex. `AuthInv` relates
the row a request has read to the row in the table: rows are never deleted, nobody
undoes a revocation, `late` was true before the row was read, so a late request
cannot pass `Check`; and a connection's user is the user of the row of its token.
`ReachInv` says of each send that the connections it must reach are, if still listed,
on the copied list or done (`ReachOK`), and that the hub lists exactly the connections
between `Add` and `Remove` (`HubOK`): taking one off leaves the others of its user.

**One dm.** Two threads that both find no dm draw different ids and meet at the unique
pair. The invariant of `Conversations_proofs` says who owns an id: the thread
that drew it, until it has answered "created" (`Owns`), and nobody else
(`Apart`). A thread at its commit holds the row of its pair while there is no dm of
that pair (`DmOK`), so no other thread is at the commit for the same pair, and
the dm that appears is the only one (`Unique`). Nothing is recorded of an id still to
be drawn (`Rows`), so the first answer "created" for an id is the only one. Whoever
lost the race or was refused by a failed statement looks again and either finds
the dm, whose members never change (`Grown`), or answers with an error.

**Invitations and introductions.** `canCommunicate` is asked before an invitation
is stored. `AllyOK` carries the answer along: whoever a call is about to invite was
its caller's ally when the call began (`job.was`), so no call that began after a parting
committed invites across it. `InvitesInv` says of the invitations there are: none is
"after"; one that was stored before any DELETE is between allies, and while they are
parting its row is doomed, so the COMMIT takes it. A row that is being accepted is held and
one that is doomed is not free, so neither can be replaced in between. `InviterAssumption` says the same of
the invitations there are at the start. For introductions, `ListsFull` says that a list
being told has everybody who has not overtaken it, and `IntroInv` that of two such members
each is on the list the other was last told, or a call in progress owes it (`Owes`): one that made
one of them a member and has not yet read the members, or has read them and not told
yet. Whoever reads last of two who joined at once reads both; with no call in
progress nothing is owed.

**Rows and their owners.** A commit makes visible what was decided some statements
before. The invariant of `Contacts_proofs` says that what an open transaction has
written to a contact row is still justified by what is committed there (`Rightly`):
ally where there is nothing, the block of its caller, nothing where there is a tier,
or where the row is that of somebody the caller blocks. It holds because no two
transactions have written to the same row (`Apart`) and a statement outside a
transaction waits for them too, so the row under a draft does not change. All steps
fall under three lemmas: one that settles or leaves its transaction alone, one that
writes to its draft, one that commits at once.

**Consent.** Whoever can talk to somebody has asked for them or accepted them, or a
transaction about to commit ends it and remembers that they had (`Grounds`; `job.had`
is history, and gives the consent back when the transaction is rolled back or its
commit is lost). What makes it inductive is the row of the request: it is there
only with its sender's consent (`Requested`), and an acceptance holds it from `Take`
to `Commit` (`Taken`), so `DeleteRequests` of a block or a removal, and a withdrawal,
wait for the acceptance to be over before they end anything. A block that finds no
request to wait for can commit between the check of a new request and its
insertion, but then the request itself is the consent of its sender.

**The limit.** Between the check and the insertion a call is in `Through(a)`. Requests waiting
and calls through together stay below the limit plus the number of threads,
since a call passes the check only while what waits is below the limit, and to be
at the check it takes a thread that is not through. For a user no two calls of
whom overlapped they stay within the limit. This counts users and
threads, which `LimitAssumption` says are finite; it also says that nobody is over the
limit at the start.

**What people are told.** `ToldTruly` speaks of pairs of which one user has been
in no two calls at once. At most one call in progress concerns such a pair (`Sole`),
and it touches nothing of any other pair (`Elsewhere`). For that call `StageOK` says
what its statements so far have found or written that still holds: that there is no
block past the checks, what the rows will be after the commit, that each event read or
fixed says what the row says. The two can then differ only while the call is still
to tell (`Tells`). The induction also needs that no block
stands opposite a tier: a removal by the one with the tier deletes that row alone, and
tells both that there is nothing between them. Nor may a request wait beside a
block, since accepting it would make such a pair (`Plain`). Calls that do not overlap
keep it so; overlapping ones need not (`ContactMutual`). `Unraced` supposes it of the
tables at the start, which may otherwise be anything.

Only model-checked: the liveness properties (fairness and ENABLED are out of
the prover's reach). Every invariant a passing run checks is a theorem; four of
`ChatService` and `ToldTruly`, `CaughtUp` and `NoneMissed` under the conditions in
the table.

## 5. Not modelled, and why

* Wording of frames and JSON, parsing of ids, UTF-8 and size checks: no property
  depends on them; `submit`'s cheap rejections are one step (`Refuse`).
* Floating-point rounding in `takeToken`.
* `isOnline`, `onlineAmong` and whether a dm is writable: reads that change nothing.
* `append`'s check-then-insert against a block: a message may be stored just after
  the two stopped being allies (`Freeze` may fall between `CheckAllies` and
  `Insert`). Nothing in the code promises otherwise and no property forbids it.
* The rows of `users` (added before anything refers to them, never changed by what
  is modelled) and the snapshots of contacts,
  conversations and presence: reads that change nothing. The list of invitees
  in `get` is left out, so a decline of an invitation, which the sender is not told
  of, can be read off by its absence there without a property noticing.
* A block deletes the other's row whatever it says, so a block by A erases B's block
  of A. `RowsBelongToOwners` allows it, since the code does it on purpose.
* The limit per day counts rows, not requests: withdrawn ones are not counted.
* A statement outside a transaction that throws is taken not to have happened.
  The other case, where it did and only the answer was lost, is modelled
  where it matters (`AnswerLost` in `ChatService`).
* The result of `transaction.commit()` is nowhere looked at. `LoseCommit` models
  it, and the properties hold in spite of it, but two consequences are
  outside them: `createDm` then finds no conversation and
  `ConversationController.hpp:72` dereferences an empty optional, and a sign-in hands
  out a token that has no session.
* A logout ends a session, not the connections it opened: they go on until they are
  closed. A login that is overwritten in `pending_` keeps its row, usable by
  nobody, until it expires. A parked login that nobody polls for stays in memory
  until the next login or poll prunes it, although `AuthService.hpp:24` calls the plaintext
  token "never stored".
* `CallSignalService::relayToPeer` checks no membership, against the comment at the head
  of its class; the TODO in it says so. Its `invite` is not implemented.
* Reassembling fragments of a WebSocket message (`WsSession::readMessage`), and the
  envelope codec: parsing without state that others see.
* Steam's OpenID check, the activity log, configuration, start-up and deployment:
  remote, or plain I/O, or run once.

## 6. Plan

Done, in this order: `ChatService`, `FrameQueue`/`FrameStream`, `WsSession`,
`TokenBucket`, `ChatSync`, `Contacts`, `Conversations`, `Connections`.

Every safety property of a passing run is proved, and the refinements of
`ChatLog`, `FrameStream` and `FrameQueue` are. What is left:

1. `Connections`: that `EveryDeviceReached` for each push is what `Resolve` of
   `ChatService` takes for granted.
