----------------------------- MODULE Connections -----------------------------
(***************************************************************************)
(* Who is let in, and who is reached: AuthService over                     *)
(* PgSessionRepository, the endpoints that sign in, hand a login over,     *)
(* sign out and upgrade to a WebSocket, the connections SessionFactory     *)
(* keeps in ConnectionHub, and the frames sent to all devices of one user  *)
(* (call signals, and the events of WsEventSink that have one recipient).  *)
(*                                                                         *)
(* An HTTP thread and an open connection are both actors that serve one    *)
(* request at a time.  A statement, a critical section and a push into a   *)
(* queue are a step each.  What a connection does with its queue and its   *)
(* writer is in module WsSession.                                          *)
(***************************************************************************)
EXTENDS Integers, FiniteSets

CONSTANTS
    User,
    Token,        \* opaque tokens; the table has their hashes
    State,        \* login nonces
    Thread,       \* threads of the HTTP server
    Conn,         \* WebSocket connections
    Call,         \* the requests clients make
    Open,         \* [SUBSET Conn -> Token]: the connections at the start, and
                  \* the token each was let in with
    Owner,        \* [SUBSET Token -> User]: the sessions at the start
    None,
    SessionTTL,   \* SESSION_TTL
    PendingTTL,   \* PENDING_LOGIN_TTL_MS
    MaxEvents     \* bound: requests, signals, losses, instants and statements
                  \* that throw, all together

Actor == Thread \cup Conn
OrNone(S) == S \cup {None}

Session == [user: User, expires: Nat, revoked: BOOLEAN]
Parked  == [token: Token, at: Nat]

\* user: whom Steam vouches for; to: whom the request has an event for.
CallType == [op: {"return", "poll", "logout", "call", "upgrade", "signal"},
             user: OrNone(User), state: OrNone(State), token: OrNone(Token), to: OrNone(User)]

ASSUME ConnectionsAssumption ==
    /\ {SessionTTL, PendingTTL, MaxEvents} \subseteq Nat
    /\ Call \subseteq CallType
    /\ \A c \in Call : /\ c.op = "return" => c.user \in User
                       /\ c.op = "poll" => c.state \in State
                       /\ c.op \in {"logout", "call", "upgrade"} => c.token \in Token
                       /\ c.op \in {"call", "signal"} => c.to \in User
    /\ DOMAIN Owner \subseteq Token /\ \A t \in DOMAIN Owner : Owner[t] \in User
    /\ DOMAIN Open \subseteq Conn /\ \A c \in DOMAIN Open : Open[c] \in DOMAIN Owner
    /\ None \notin User \cup Token \cup State \cup Nat
    /\ None \notin Session /\ None \notin Parked
    /\ Thread \cap Conn = {}

VARIABLES
    sessions,   \* the table: a row for each token, None if there is none
    pending,    \* pending_: the login parked under each nonce
    clock,
    pc,
    job,        \* the locals of each actor's request
    link,       \* each connection: how far it has come, and whose it is
    hub,        \* connections_: the connections listed for each user
    handed,     \* history: how often each token was handed out
    ended,      \* history: the tokens whose logout was answered
    budget

vars == <<sessions, pending, clock, pc, job, link, hub, handed, ended, budget>>
auth == <<sessions, pending, handed, ended>>

\* late and must are history: the token had expired or its logout was answered
\* when the request began; the connections that were listed when a send began.
NoJob == [call |-> None, now |-> 0, row |-> None, token |-> None, from |-> None,
          late |-> FALSE, left |-> {}, done |-> {}, must |-> {}]

Listed == {c \in Conn : link[c].phase \in {"listed", "open", "ended", "unkept"}}
ListedOf(u) == {c \in Listed : link[c].user = u}

Goto(a, label) == pc' = [pc EXCEPT ![a] = label]
Return(a) == Goto(a, "idle") /\ job' = [job EXCEPT ![a] = NoJob]

Bounded == {"requests", "losses", "instants", "faults"}
Spend(what) ==
    /\ budget["requests"] + budget["losses"] + budget["instants"] + budget["faults"] < MaxEvents
    /\ budget' = [budget EXCEPT ![what] = @ + 1]

Init ==
    /\ sessions = [t \in Token |-> IF t \in DOMAIN Owner
                      THEN [user |-> Owner[t], expires |-> SessionTTL, revoked |-> FALSE] ELSE None]
    /\ pending = [s \in State |-> None]
    /\ clock = 0
    /\ pc = [a \in Actor |-> "idle"]
    /\ job = [a \in Actor |-> NoJob]
    /\ link = [c \in Conn |-> IF c \in DOMAIN Open
                  THEN [phase |-> "open", user |-> Owner[Open[c]], token |-> Open[c]]
                  ELSE [phase |-> "free", user |-> None, token |-> None]]
    /\ hub = [u \in User |-> {c \in DOMAIN Open : Owner[Open[c]] = u}]
    /\ handed = [t \in Token |-> 0]
    /\ ended = {}
    /\ budget = [event \in Bounded |-> 0]
-----------------------------------------------------------------------------
(* Requests *)

First(c) == CASE c.op = "return" -> "verify"
              [] c.op = "poll"   -> "claim"
              [] c.op = "logout" -> "revoke"
              [] c.op \in {"call", "upgrade"} -> "select"

\* A request comes in; claimLogin reads the clock before it takes the mutex.
Begin(w, c) ==
    /\ pc[w] = "idle" /\ c.op # "signal"
    /\ Spend("requests")
    /\ Goto(w, First(c))
    /\ job' = [job EXCEPT ![w] = [NoJob EXCEPT
           !.call = c, !.now = clock, !.token = c.token,
           !.late = /\ c.token # None
                    /\ \/ c.token \in ended
                       \/ sessions[c.token] # None /\ clock >= sessions[c.token].expires]]
    /\ UNCHANGED <<auth, clock, link, hub>>
-----------------------------------------------------------------------------
(* Signing in: completeLogin and parkLogin; claimLogin; logout *)

\* Steam rejects the assertion, or a token is minted.
Verify(w) ==
    /\ pc[w] = "verify"
    /\ \/ Return(w)
       \/ \E t \in Token :
              /\ sessions[t] = None /\ handed[t] = 0
              /\ \A v \in Thread : pc[v] \in {"store", "park"} => job[v].token # t
              /\ \A s \in State : pending[s] # None => pending[s].token # t
              /\ job' = [job EXCEPT ![w] = [@ EXCEPT !.token = t, !.now = clock]]
              /\ Goto(w, "store")
    /\ UNCHANGED <<auth, clock, link, hub, budget>>

HandOut(t) == handed' = [handed EXCEPT ![t] = @ + 1]

\* Without a nonce the token is the answer to the browser, with one it is parked:
\* parkLogin reads the clock again, then waits for the mutex.
Deliver(w) ==
    IF job[w].call.state = None
    THEN HandOut(job[w].token) /\ Return(w)
    ELSE /\ job' = [job EXCEPT ![w].now = clock]
         /\ Goto(w, "park") /\ UNCHANGED handed

\* store commits.
Store(w) ==
    /\ pc[w] = "store"
    /\ sessions' = [sessions EXCEPT ![job[w].token] =
           [user |-> job[w].call.user, expires |-> job[w].now + SessionTTL, revoked |-> FALSE]]
    /\ Deliver(w)
    /\ UNCHANGED <<pending, ended, clock, link, hub, budget>>

\* A COMMIT that fails does not throw: its result is not looked at.
LoseCommit(w) ==
    /\ pc[w] = "store"
    /\ Spend("faults")
    /\ Deliver(w)
    /\ UNCHANGED <<sessions, pending, ended, clock, link, hub>>

\* prunePendingLocked
Pruned(now) == [s \in State |->
    IF pending[s] = None \/ now - pending[s].at > PendingTTL THEN None ELSE pending[s]]

Park(w) ==
    /\ pc[w] = "park"
    /\ pending' = [Pruned(job[w].now) EXCEPT ![job[w].call.state] =
                       [token |-> job[w].token, at |-> job[w].now]]
    /\ Return(w)
    /\ UNCHANGED <<sessions, handed, ended, clock, link, hub, budget>>

\* mutant: what is claimed stays parked.
ClaimAndKeep(w) ==
    /\ pc[w] = "claim"
    /\ LET login == Pruned(job[w].now)[job[w].call.state] IN
       /\ pending' = Pruned(job[w].now)
       /\ IF login = None THEN UNCHANGED handed ELSE HandOut(login.token)
    /\ Return(w)
    /\ UNCHANGED <<sessions, ended, clock, link, hub, budget>>

Claim(w) ==
    /\ pc[w] = "claim"
    /\ LET login == Pruned(job[w].now)[job[w].call.state] IN
       /\ pending' = [Pruned(job[w].now) EXCEPT ![job[w].call.state] = None]
       /\ IF login = None THEN UNCHANGED handed ELSE HandOut(login.token)
    /\ Return(w)
    /\ UNCHANGED <<sessions, ended, clock, link, hub, budget>>

\* A hash without a row is revoked like any other, that is, nothing happens.
Revoke(w) ==
    /\ pc[w] = "revoke"
    /\ LET t == job[w].token IN
       /\ sessions' = IF sessions[t] = None THEN sessions
                      ELSE [sessions EXCEPT ![t].revoked = TRUE]
       /\ ended' = IF sessions[t] = None THEN ended ELSE ended \cup {t}
    /\ Return(w)
    /\ UNCHANGED <<pending, handed, clock, link, hub, budget>>
-----------------------------------------------------------------------------
(* authenticate, before every other endpoint and before an upgrade *)

Select(w) ==
    /\ pc[w] = "select"
    /\ job' = [job EXCEPT ![w].row = sessions[job[w].token]]
    /\ Goto(w, "check")
    /\ UNCHANGED <<auth, clock, link, hub, budget>>

\* mutant: a session lasts until it expires.
UsableUntilExpiry(session, now) == session # None /\ now < session.expires

\* isUsableAt
Usable(session, now) == /\ session # None
                        /\ ~session.revoked /\ now < session.expires

\* A send to a user begins.
StartSend(a, from) ==
    /\ Goto(a, "resolve")
    /\ job' = [job EXCEPT ![a] = [@ EXCEPT !.from = from, !.must = ListedOf(job[a].call.to)]]

\* 401, or the request goes on as the user of the row.
Check(w) ==
    /\ pc[w] = "check"
    /\ IF ~Usable(job[w].row, clock) THEN Return(w)
       ELSE IF job[w].call.op = "call" THEN StartSend(w, job[w].row.user)
       ELSE Goto(w, "upgrade") /\ job' = [job EXCEPT ![w].from = job[w].row.user]
    /\ UNCHANGED <<auth, clock, link, hub, budget>>

\* The handshake: the connection takes the identity along as a parameter.
Upgrade(w) ==
    /\ pc[w] = "upgrade"
    /\ \E c \in Conn :
           /\ link[c].phase = "free"
           /\ link' = [link EXCEPT ![c] = [phase |-> "upgraded", user |-> job[w].from,
                                           token |-> job[w].token]]
    /\ Return(w)
    /\ UNCHANGED <<auth, clock, hub, budget>>
-----------------------------------------------------------------------------
(* A connection: SessionFactory and ConnectionHub *)

Phase(c, from, to) ==
    /\ link[c].phase = from
    /\ link' = [link EXCEPT ![c].phase = to]

\* onAfterCreate: the session is made and kept, listed in the hub, then listens.
Keep(c) == /\ Phase(c, "upgraded", "kept")
           /\ UNCHANGED <<auth, clock, pc, job, hub, budget>>

Add(c) == /\ Phase(c, "kept", "listed")
          /\ hub' = [hub EXCEPT ![link[c].user] = @ \cup {c}]
          /\ UNCHANGED <<auth, clock, pc, job, budget>>

Listen(c) == /\ Phase(c, "listed", "open")
             /\ UNCHANGED <<auth, clock, pc, job, hub, budget>>

\* The reader's loop ends: the peer closed, or the connection broke.
Lose(c) == /\ pc[c] = "idle"
           /\ Spend("losses")
           /\ Phase(c, "open", "ended")
           /\ UNCHANGED <<auth, clock, pc, job, hub>>

\* onBeforeDestroy: no longer kept, taken off the hub, shut down.
Forget(c) == /\ Phase(c, "ended", "unkept")
             /\ UNCHANGED <<auth, clock, pc, job, hub, budget>>

\* mutant: a user has one connection.
RemoveUser(c) ==
    /\ Phase(c, "unkept", "gone")
    /\ hub' = [hub EXCEPT ![link[c].user] = {}]
    /\ UNCHANGED <<auth, clock, pc, job, budget>>

Remove(c) ==
    /\ Phase(c, "unkept", "gone")
    /\ hub' = [hub EXCEPT ![link[c].user] = @ \ {c}]
    /\ UNCHANGED <<auth, clock, pc, job, budget>>
-----------------------------------------------------------------------------
(* A frame for all devices of a user: relayToPeer and WsEventSink over sendTo *)

\* dispatch: an SDP, ICE or hangup frame, stamped with whom the connection is.
Signal(c, call) ==
    /\ pc[c] = "idle" /\ link[c].phase = "open" /\ call.op = "signal"
    /\ Spend("requests")
    /\ Goto(c, "resolve")
    /\ job' = [job EXCEPT ![c] = [NoJob EXCEPT
           !.call = call, !.token = link[c].token, !.from = link[c].user,
           !.must = ListedOf(call.to)]]
    /\ UNCHANGED <<auth, clock, link, hub>>

\* The connections are copied under the hub's lock, which is then released.
Resolve(a) ==
    /\ pc[a] = "resolve"
    /\ job' = [job EXCEPT ![a].left = hub[job[a].call.to]]
    /\ Goto(a, "push")
    /\ UNCHANGED <<auth, clock, link, hub, budget>>

Push(a) ==
    /\ pc[a] = "push"
    /\ IF job[a].left = {} THEN Return(a)
       ELSE /\ UNCHANGED pc
            /\ \E c \in job[a].left :
                   job' = [job EXCEPT ![a].left = @ \ {c}, ![a].done = @ \cup {c}]
    /\ UNCHANGED <<auth, clock, link, hub, budget>>

\* A statement throws, or encoding a frame does: nothing of it happened.
Fault(a) ==
    /\ pc[a] \in {"store", "revoke", "select", "resolve"}
    /\ Spend("faults")
    /\ Return(a)
    /\ UNCHANGED <<auth, clock, link, hub>>

Tick == /\ Spend("instants")
        /\ clock' = clock + 1
        /\ UNCHANGED <<auth, pc, job, link, hub>>

HttpStep(w) == \/ \E c \in Call : Begin(w, c)
               \/ Verify(w) \/ Store(w) \/ LoseCommit(w) \/ Park(w) \/ Claim(w) \/ Revoke(w)
               \/ Select(w) \/ Check(w) \/ Upgrade(w)
SocketStep(c) == \/ Keep(c) \/ Add(c) \/ Listen(c) \/ Lose(c) \/ Forget(c) \/ Remove(c)
                 \/ \E call \in Call : Signal(c, call)

Next == \/ \E w \in Thread : HttpStep(w)
        \/ \E c \in Conn : SocketStep(c)
        \/ \E a \in Actor : Resolve(a) \/ Push(a) \/ Fault(a)
        \/ Tick

Spec == Init /\ [][Next]_vars
-----------------------------------------------------------------------------
(* Properties *)

\* Every variable has its type, and the hub lists exactly the connections between
\* add and remove, each for the user it was opened by.
TypeOK ==
    /\ sessions \in [Token -> OrNone(Session)]
    /\ pending \in [State -> OrNone(Parked)]
    /\ clock \in Nat
    /\ pc \in [Actor -> {"idle", "verify", "store", "park", "claim", "revoke", "select",
                         "check", "upgrade", "resolve", "push"}]
    /\ \A a \in Actor : /\ job[a].call \in OrNone(Call)
                        /\ job[a].now \in 0..clock
                        /\ job[a].left \cup job[a].done \cup job[a].must \subseteq Conn
    /\ \A c \in Conn : link[c].phase # "free" => link[c].user \in User /\ link[c].token \in Token
    /\ hub = [u \in User |-> ListedOf(u)]
    /\ handed \in [Token -> Nat]
    /\ ended \subseteq Token
    /\ budget \in [Bounded -> Nat]

\* The token t is parked under a nonce, and not too old at the given instant.
Waits(state, t, now) == /\ pending[state] # None
                        /\ pending[state].token = t
                        /\ now - pending[state].at <= PendingTTL

\* A parked token leaves pending_ only when a poll with its nonce takes it, or a
\* later login has the same nonce, or it is older than PENDING_LOGIN_TTL_MS; a
\* token is handed out once, and to no poll that came when it was too old,
\* whatever polls and logins wait for the mutex with a reading of the clock.
HandedOver ==
    [][/\ \A s \in State : pending[s] # None /\ pending'[s] # pending[s] =>
              \/ pending'[s] = None /\ handed'[pending[s].token] = 1
              \/ pending'[s] # None /\ pending'[s].token # pending[s].token
              \/ clock - pending[s].at > PendingTTL
       /\ \A t \in Token : handed'[t] # handed[t] =>
              /\ handed[t] = 0
              /\ \E w \in Thread : \/ pc[w] = "store" /\ job[w].token = t
                                   \/ pc[w] = "claim" /\ Waits(job[w].call.state, t, job[w].now)]_vars

\* Whoever is let in is signed in: no request that came after the logout of its
\* session was answered, or after its expiry, gets past authenticate; and what a
\* request or a connection sends is attributed to the user of the session it was
\* let in with, for as long as the connection lasts.
OnlyTheSignedIn ==
    /\ \A w \in Thread : pc[w] \in {"upgrade", "resolve", "push"} => ~job[w].late
    /\ \A a \in Actor : pc[a] \in {"resolve", "push"} =>
           job[a].from = sessions[job[a].token].user
    /\ \A c \in Conn : link[c].phase # "free" => link[c].user = sessions[link[c].token].user

\* A frame for a user has reached all their devices when the send ends, those
\* excepted that joined or left meanwhile, and nobody else's: also while another
\* device of the same user is being added or removed.
EveryDeviceReached ==
    \A a \in Actor : pc[a] = "push" /\ job[a].left = {} =>
        /\ job[a].must \cap Listed \subseteq job[a].done
        /\ \A c \in job[a].done : link[c].user = job[a].call.to
=============================================================================
