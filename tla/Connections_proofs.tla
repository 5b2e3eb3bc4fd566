--------------------------- MODULE Connections_proofs ---------------------------
(***************************************************************************)
(* Proofs about Connections for any users, tokens, nonces, threads,        *)
(* connections and bounds.                                                 *)
(***************************************************************************)
EXTENDS Connections, TLAPS

Labels == {"idle", "verify", "store", "park", "claim", "revoke", "select",
           "check", "upgrade", "resolve", "push"}

Job == [call: OrNone(Call), now: Nat, row: OrNone(Session), token: OrNone(Token),
        from: OrNone(User), late: BOOLEAN,
        left: SUBSET Conn, done: SUBSET Conn, must: SUBSET Conn]

Phases == {"free", "upgraded", "kept", "listed", "open", "ended", "unkept", "gone"}
Link == [phase: Phases, user: OrNone(User), token: OrNone(Token)]

\* What each variable ranges over.
Types ==
    /\ sessions \in [Token -> OrNone(Session)]
    /\ pending \in [State -> OrNone(Parked)]
    /\ clock \in Nat
    /\ pc \in [Actor -> Labels]
    /\ job \in [Actor -> Job]
    /\ link \in [Conn -> Link]
    /\ hub \in [User -> SUBSET Conn]
    /\ handed \in [Token -> Nat]
    /\ ended \subseteq Token
    /\ budget \in [Bounded -> Nat]

\* What an actor's statement goes with: the request, and what it has found out.
CallOK(a) ==
    /\ pc[a] # "idle" => job[a].call \in Call
    /\ pc[a] \in {"verify", "store", "park"} => job[a].call.op = "return"
    /\ pc[a] \in {"store", "park"} => job[a].token \in Token
    /\ pc[a] = "park" => job[a].call.state # None
    /\ pc[a] = "claim" => job[a].call.op = "poll"
    /\ pc[a] = "revoke" => job[a].call.op = "logout"
    /\ pc[a] \in {"select", "check"} => job[a].call.op \in {"call", "upgrade"}
    /\ pc[a] \in {"revoke", "select", "check", "upgrade", "resolve", "push"} => job[a].token \in Token
    /\ pc[a] \in {"upgrade", "resolve", "push"} => job[a].from \in User
    /\ pc[a] \in {"resolve", "push"} => job[a].call.to \in User
    /\ job[a].now <= clock

\* Whose a connection is, from the upgrade on.
LinkOK(c) == link[c].phase # "free" => link[c].user \in User /\ link[c].token \in Token

Typed == Types /\ (\A a \in Actor : CallOK(a)) /\ (\A c \in Conn : LinkOK(c))
-----------------------------------------------------------------------------
(* Types *)

\* A request that ends leaves its actor idle, with nothing in its locals.
LEMMA NoJobTyped == NoJob \in Job
  BY DEF NoJob, Job, OrNone

\* The fields of a call are what CallType says.
LEMMA CallTyped == ASSUME NEW c \in Call
                   PROVE  /\ c.op \in {"return", "poll", "logout", "call", "upgrade", "signal"}
                          /\ c.user \in OrNone(User) /\ c.state \in OrNone(State)
                          /\ c.token \in OrNone(Token) /\ c.to \in OrNone(User)
                          /\ c.op = "return" => c.user \in User
                          /\ c.op = "poll" => c.state \in State
                          /\ c.op \in {"logout", "call", "upgrade"} => c.token \in Token
                          /\ c.op \in {"call", "signal"} => c.to \in User
  BY ConnectionsAssumption DEF CallType

LEMMA InitTyped == Init => Typed
<1> SUFFICES ASSUME Init PROVE Typed
  OBVIOUS
<1>1. Types
  <2>1. sessions \in [Token -> OrNone(Session)]
    BY ConnectionsAssumption DEF Init, Session, OrNone
  <2>2. link \in [Conn -> Link]
    BY ConnectionsAssumption DEF Init, Link, Phases, OrNone
  <2>3. hub \in [User -> SUBSET Conn]
    BY ConnectionsAssumption DEF Init
  <2>4. job \in [Actor -> Job]
    BY NoJobTyped DEF Init
  <2>5. QED
    BY <2>1, <2>2, <2>3, <2>4 DEF Init, Types, OrNone, Labels, Bounded
<1>2. ASSUME NEW a \in Actor
      PROVE  CallOK(a)
  BY DEF Init, CallOK, NoJob
<1>3. ASSUME NEW c \in Conn
      PROVE  LinkOK(c)
  BY ConnectionsAssumption DEF Init, LinkOK
<1>4. QED
  BY <1>1, <1>2, <1>3 DEF Typed
-----------------------------------------------------------------------------
(* Who moves *)

\* The steps of an actor, and the others, which leave every request alone.
Acts(a) == \/ a \in Thread /\ HttpStep(a)
           \/ a \in Conn /\ \E call \in Call : Signal(a, call)
           \/ Resolve(a) \/ Push(a) \/ Fault(a)

Passes == \/ \E c \in Conn : Keep(c) \/ Add(c) \/ Listen(c) \/ Lose(c) \/ Forget(c) \/ Remove(c)
          \/ Tick
          \/ UNCHANGED vars

\* One actor goes on to a label with new locals.
Moves(a) == \E label \in Labels, j \in Job : /\ pc' = [pc EXCEPT ![a] = label]
                                              /\ job' = [job EXCEPT ![a] = j]

LEMMA WhoMoves == ASSUME [Next]_vars
                  PROVE  Passes \/ \E a \in Actor : Acts(a)
  BY DEF Next, SocketStep, Acts, Passes, Actor

LEMMA PassesQuietly == ASSUME Passes
                       PROVE  UNCHANGED <<pc, job>>
  BY DEF Passes, Keep, Add, Listen, Lose, Forget, Remove, Tick, vars

LEMMA MovesTo ==
    ASSUME Types, NEW a \in Actor, NEW label \in Labels, NEW j \in Job,
           pc' = [pc EXCEPT ![a] = label], job' = [job EXCEPT ![a] = j]
    PROVE  Moves(a) /\ pc'[a] = label /\ job'[a] = j
  BY DEF Moves, Types

\* Every step of an actor moves that actor, and leaves it with what its next
\* statement needs.
LEMMA ActorMoves ==
    ASSUME Typed, NEW a \in Actor, Acts(a)
    PROVE  Moves(a) /\ CallOK(a)'
<1>0. /\ pc[a] \in Labels /\ job[a] \in Job /\ CallOK(a) /\ NoJob \in Job /\ Types
      /\ clock \in Nat /\ pc = [pc EXCEPT ![a] = pc[a]]
      /\ \A t \in Token : sessions[t] \in OrNone(Session)
      /\ \A u \in User : hub[u] \in SUBSET Conn
  BY NoJobTyped DEF Typed, Types
<1>l. {"idle", "store", "park", "check", "upgrade", "resolve", "push"} \subseteq Labels
  BY DEF Labels
<1>1. ASSUME Return(a), clock' = clock
      PROVE  Moves(a) /\ CallOK(a)'
  <2>1. Moves(a) /\ pc'[a] = "idle" /\ job'[a] = NoJob
    BY <1>0, <1>l, <1>1, MovesTo DEF Return, Goto
  <2>2. QED
    BY <1>0, <1>1, <2>1 DEF CallOK, NoJob
<1>2. ASSUME a \in Thread, NEW c \in Call, Begin(a, c)
      PROVE  Moves(a) /\ CallOK(a)'
  <2> DEFINE j == [NoJob EXCEPT !.call = c, !.now = clock, !.token = c.token,
           !.late = /\ c.token # None
                    /\ \/ c.token \in ended
                       \/ sessions[c.token] # None /\ clock >= sessions[c.token].expires]
  <2>1. j \in Job
    BY <1>0, CallTyped DEF NoJob, Job, OrNone
  <2>2. pc' = [pc EXCEPT ![a] = First(c)] /\ job' = [job EXCEPT ![a] = j] /\ clock' = clock
    BY <1>2 DEF Begin, Goto
  <2>3. First(c) \in Labels
    BY <1>2, CallTyped DEF First, Labels, Begin
  <2>4. Moves(a) /\ pc'[a] = First(c) /\ job'[a] = j
    BY <1>0, <2>1, <2>2, <2>3, MovesTo
  <2>5. j.call = c /\ j.token = c.token /\ j.now = clock
    BY DEF NoJob
  <2>6. CallOK(a)'
    <3> HIDE DEF j
    <3>1. QED
      BY <1>0, <1>2, <2>2, <2>4, <2>5, CallTyped DEF CallOK, First, Begin
  <2>7. QED
    BY <2>4, <2>6
<1>3. CASE a \in Thread /\ Verify(a)
  <2>0. pc[a] = "verify" /\ clock' = clock
    BY <1>3 DEF Verify
  <2>1. CASE Return(a)
    BY <1>1, <1>3, <2>1 DEF Verify
  <2>2. ASSUME NEW t \in Token, job' = [job EXCEPT ![a] = [@ EXCEPT !.token = t, !.now = clock]],
               Goto(a, "store")
        PROVE  Moves(a) /\ CallOK(a)'
    <3> DEFINE j == [job[a] EXCEPT !.token = t, !.now = clock]
    <3>1. j \in Job /\ j.call = job[a].call /\ j.token = t /\ j.now = clock
      BY <1>0 DEF Job, OrNone
    <3>2. job' = [job EXCEPT ![a] = j]
      BY <2>2
    <3>3. Moves(a) /\ pc'[a] = "store" /\ job'[a] = j
      <4> HIDE DEF j
      <4>1. QED
        BY <1>0, <1>l, <2>2, <3>1, <3>2, MovesTo DEF Goto
    <3>4. QED
      <4> HIDE DEF j
      <4>1. QED
        BY <1>0, <2>0, <3>1, <3>3 DEF CallOK
  <2>3. QED
    BY <1>3, <2>1, <2>2 DEF Verify
<1>4. CASE a \in Thread /\ (Store(a) \/ LoseCommit(a))
  <2>1. pc[a] = "store" /\ Deliver(a) /\ clock' = clock
    BY <1>4 DEF Store, LoseCommit
  <2>2. CASE job[a].call.state = None
    BY <1>1, <2>1, <2>2 DEF Deliver
  <2>3. CASE job[a].call.state # None
    <3> DEFINE j == [job[a] EXCEPT !.now = clock]
    <3>1. j \in Job /\ j.call = job[a].call /\ j.token = job[a].token /\ j.now = clock
      BY <1>0 DEF Job
    <3>2. job' = [job EXCEPT ![a] = j] /\ pc' = [pc EXCEPT ![a] = "park"]
      BY <2>1, <2>3 DEF Deliver, Goto
    <3> HIDE DEF j
    <3>3. Moves(a) /\ pc'[a] = "park" /\ job'[a] = j
      BY <1>0, <1>l, <3>1, <3>2, MovesTo
    <3>4. QED
      BY <1>0, <2>1, <2>3, <3>1, <3>3 DEF CallOK
  <2>4. QED
    BY <2>2, <2>3
<1>5. CASE a \in Thread /\ (Park(a) \/ Claim(a) \/ Revoke(a) \/ Upgrade(a))
  BY <1>1, <1>5 DEF Park, Claim, Revoke, Upgrade
<1>6. CASE a \in Thread /\ Select(a)
  <2> DEFINE j == [job[a] EXCEPT !.row = sessions[job[a].token]]
  <2>1. pc[a] = "select" /\ clock' = clock
    BY <1>6 DEF Select
  <2>2. j \in Job /\ j.call = job[a].call /\ j.token = job[a].token /\ j.now = job[a].now
    BY <1>0, <2>1 DEF Job, CallOK
  <2>3. job' = [job EXCEPT ![a] = j] /\ pc' = [pc EXCEPT ![a] = "check"]
    BY <1>6 DEF Select, Goto
  <2> HIDE DEF j
  <2>4. Moves(a) /\ pc'[a] = "check" /\ job'[a] = j
    BY <1>0, <1>l, <2>2, <2>3, MovesTo
  <2>5. QED
    BY <1>0, <2>1, <2>2, <2>4 DEF CallOK
<1>7. CASE a \in Thread /\ Check(a)
  <2>1. CASE ~Usable(job[a].row, clock)
    BY <1>1, <1>7, <2>1 DEF Check
  <2>2. CASE Usable(job[a].row, clock)
    <3>0. pc[a] = "check" /\ clock' = clock
      BY <1>7 DEF Check
    <3>1. job[a].row.user \in User
      BY <1>0, <2>2 DEF Usable, Job, OrNone, Session
    <3> DEFINE send == job[a].call.op = "call"
               j == IF send THEN [job[a] EXCEPT !.from = job[a].row.user,
                                                !.must = ListedOf(job[a].call.to)]
                            ELSE [job[a] EXCEPT !.from = job[a].row.user]
    <3>2. /\ j \in Job /\ j.call = job[a].call /\ j.token = job[a].token
          /\ j.now = job[a].now /\ j.from \in User
      BY <1>0, <3>1 DEF Job, OrNone, ListedOf, Listed
    <3>3. job' = [job EXCEPT ![a] = j]
      BY <1>7, <2>2 DEF Check, StartSend
    <3> DEFINE label == IF send THEN "resolve" ELSE "upgrade"
    <3>4. pc' = [pc EXCEPT ![a] = label]
      BY <1>7, <2>2 DEF Check, StartSend, Goto
    <3>l. label \in Labels
      BY <1>l
    <3>5. Moves(a) /\ pc'[a] = label /\ job'[a] = j
      <4> HIDE DEF j, label
      <4>1. QED
        BY <1>0, <3>l, <3>2, <3>3, <3>4, MovesTo
    <3> HIDE DEF j
    <3>6. send => job[a].call.to \in User
      BY <1>0, <3>0, CallTyped DEF CallOK
    <3>7. QED
      BY <1>0, <3>0, <3>2, <3>5, <3>6 DEF CallOK
  <2>3. QED
    BY <2>1, <2>2
<1>8. ASSUME a \in Conn, NEW call \in Call, Signal(a, call)
      PROVE  Moves(a) /\ CallOK(a)'
  <2> DEFINE j == [NoJob EXCEPT !.call = call, !.token = link[a].token, !.from = link[a].user,
                                !.must = ListedOf(call.to)]
  <2>1. link[a].user \in User /\ link[a].token \in Token
    BY <1>8 DEF Typed, LinkOK, Signal
  <2>2. /\ j \in Job /\ j.call = call /\ j.token = link[a].token /\ j.from = link[a].user
        /\ j.now = 0
    BY <2>1 DEF NoJob, Job, OrNone, ListedOf, Listed
  <2>3. /\ job' = [job EXCEPT ![a] = j] /\ pc' = [pc EXCEPT ![a] = "resolve"]
        /\ clock' = clock /\ call.op = "signal"
    BY <1>8 DEF Signal, Goto
  <2> HIDE DEF j
  <2>4. Moves(a) /\ pc'[a] = "resolve" /\ job'[a] = j
    BY <1>0, <1>l, <2>2, <2>3, MovesTo
  <2>5. QED
    BY <1>0, <2>1, <2>2, <2>3, <2>4, CallTyped DEF CallOK
<1>9. CASE Resolve(a)
  <2> DEFINE j == [job[a] EXCEPT !.left = hub[job[a].call.to]]
  <2>1. pc[a] = "resolve" /\ clock' = clock
    BY <1>9 DEF Resolve
  <2>2. /\ j \in Job /\ j.call = job[a].call /\ j.token = job[a].token
        /\ j.now = job[a].now /\ j.from = job[a].from
    BY <1>0, <2>1 DEF Job, CallOK
  <2>3. job' = [job EXCEPT ![a] = j] /\ pc' = [pc EXCEPT ![a] = "push"]
    BY <1>9 DEF Resolve, Goto
  <2> HIDE DEF j
  <2>4. Moves(a) /\ pc'[a] = "push" /\ job'[a] = j
    BY <1>0, <1>l, <2>2, <2>3, MovesTo
  <2>5. QED
    BY <1>0, <2>1, <2>2, <2>4 DEF CallOK
<1>10. CASE Push(a)
  <2>1. CASE job[a].left = {}
    BY <1>1, <1>10, <2>1 DEF Push
  <2>2. CASE job[a].left # {}
    <3>1. PICK c \in job[a].left :
             job' = [job EXCEPT ![a] = [job[a] EXCEPT !.left = job[a].left \ {c},
                                                      !.done = job[a].done \cup {c}]]
      BY <1>10, <2>2 DEF Push
    <3> DEFINE j == [job[a] EXCEPT !.left = job[a].left \ {c}, !.done = job[a].done \cup {c}]
    <3>2. /\ j \in Job /\ j.call = job[a].call /\ j.token = job[a].token
          /\ j.now = job[a].now /\ j.from = job[a].from
      BY <1>0 DEF Job
    <3>0. pc' = pc /\ clock' = clock /\ pc[a] = "push"
      BY <1>10, <2>2 DEF Push
    <3>3. job' = [job EXCEPT ![a] = j]
      BY <3>1
    <3> HIDE DEF j
    <3>4. Moves(a) /\ pc'[a] = "push" /\ job'[a] = j
      BY <1>0, <1>l, <3>0, <3>2, <3>3, MovesTo
    <3>5. QED
      BY <1>0, <3>0, <3>2, <3>4 DEF CallOK
  <2>3. QED
    BY <2>1, <2>2
<1>11. CASE Fault(a)
  BY <1>1, <1>11 DEF Fault
<1>12. QED
  BY <1>2, <1>3, <1>4, <1>5, <1>6, <1>7, <1>8, <1>9, <1>10, <1>11 DEF Acts, HttpStep
-----------------------------------------------------------------------------
(* What a step changes *)

\* Only these steps change what AuthService and its table hold.
LEMMA WhoSigns ==
    ASSUME [Next]_vars
    PROVE  \/ UNCHANGED auth
           \/ \E w \in Thread : Store(w) \/ LoseCommit(w) \/ Park(w) \/ Claim(w) \/ Revoke(w)
  BY DEF Next, HttpStep, SocketStep, Begin, Verify, Select, Check, Upgrade, Keep, Add, Listen,
         Lose, Forget, Remove, Signal, Resolve, Push, Fault, Tick, vars, auth

\* Only these change the connections and the hub.
LEMMA WhoConnects ==
    ASSUME [Next]_vars
    PROVE  \/ UNCHANGED <<link, hub>>
           \/ \E w \in Thread : Upgrade(w)
           \/ \E c \in Conn : Keep(c) \/ Add(c) \/ Listen(c) \/ Lose(c) \/ Forget(c) \/ Remove(c)
  BY DEF Next, HttpStep, SocketStep, Begin, Verify, Store, LoseCommit, Park, Claim, Revoke,
         Select, Check, Signal, Resolve, Push, Fault, Tick, vars

LEMMA ClockGoesOn ==
    ASSUME Typed, [Next]_vars
    PROVE  clock' \in Nat /\ clock' >= clock
<1>1. clock \in Nat
  BY DEF Typed, Types
<1>2. clock' = clock \/ clock' = clock + 1
  BY DEF Next, HttpStep, SocketStep, Begin, Verify, Store, LoseCommit, Park, Claim, Revoke,
         Select, Check, Upgrade, Keep, Add, Listen, Lose, Forget, Remove, Signal, Resolve, Push,
         Fault, Tick, vars
<1>3. QED
  BY <1>1, <1>2

\* Every event that is counted is one of Bounded.
LEMMA BudgetTyped ==
    ASSUME Typed, [Next]_vars
    PROVE  budget' \in [Bounded -> Nat]
<1>1. budget \in [Bounded -> Nat]
  BY DEF Typed, Types
<1>2. ASSUME NEW what \in Bounded, Spend(what)
      PROVE  budget' \in [Bounded -> Nat]
  BY <1>1, <1>2 DEF Spend
<1>3. UNCHANGED budget \/ \E what \in Bounded : Spend(what)
  BY DEF Next, HttpStep, SocketStep, Begin, Verify, Store, LoseCommit, Park, Claim, Revoke,
         Select, Check, Upgrade, Keep, Add, Listen, Lose, Forget, Remove, Signal, Resolve, Push,
         Fault, Tick, vars, Bounded
<1>4. QED
  BY <1>1, <1>2, <1>3

LEMMA PrunedTyped ==
    ASSUME Types, NEW now \in Nat
    PROVE  /\ Pruned(now) \in [State -> OrNone(Parked)]
           /\ \A s \in State : Pruned(now)[s] \in {None, pending[s]}
           /\ \A s \in State : Pruned(now)[s] = None =>
                  pending[s] = None \/ now - pending[s].at > PendingTTL
           /\ \A s \in State : Pruned(now)[s] # None => now - pending[s].at <= PendingTTL
<1>1. \A s \in State : pending[s] # None => pending[s].at \in Nat
  BY DEF Types, OrNone, Parked
<1>2. PendingTTL \in Nat
  BY ConnectionsAssumption
<1>3. QED
  BY <1>1, <1>2 DEF Types, OrNone, Pruned

\* The locals a thread signs in or out with.
LEMMA SignerTyped ==
    ASSUME Typed, NEW w \in Thread
    PROVE  /\ job[w].now \in Nat
           /\ pc[w] \in {"store", "park"} => /\ job[w].token \in Token
                                            /\ job[w].call.user \in User
           /\ pc[w] = "park" => job[w].call.state \in State
           /\ pc[w] = "claim" => job[w].call.state \in State
           /\ pc[w] = "revoke" => job[w].token \in Token
<1>1. w \in Actor /\ job[w] \in Job /\ CallOK(w)
  BY DEF Typed, Types, Actor
<1>2. QED
  BY <1>1, CallTyped DEF CallOK, Job, OrNone

LEMMA HandOutTyped ==
    ASSUME Types, NEW t \in Token, HandOut(t)
    PROVE  handed' \in [Token -> Nat]
  BY DEF Types, HandOut

LEMMA SignTyped ==
    ASSUME Typed, [Next]_vars
    PROVE  /\ sessions' \in [Token -> OrNone(Session)]
           /\ pending' \in [State -> OrNone(Parked)]
           /\ handed' \in [Token -> Nat]
           /\ ended' \subseteq Token
<1>0. Types
  BY DEF Typed
<1>1. CASE UNCHANGED auth
  BY <1>0, <1>1 DEF Types, auth
<1>2. ASSUME NEW w \in Thread, pc[w] = "store", Deliver(w)
      PROVE  handed' \in [Token -> Nat]
  BY <1>0, <1>2, SignerTyped, HandOutTyped DEF Deliver, Types
<1>3. ASSUME NEW w \in Thread, Store(w)
      PROVE  sessions' \in [Token -> OrNone(Session)]
  <2>1. [user |-> job[w].call.user, expires |-> job[w].now + SessionTTL, revoked |-> FALSE] \in Session
    BY <1>3, SignerTyped, ConnectionsAssumption DEF Store, Session
  <2>2. QED
    BY <1>0, <1>3, <2>1 DEF Store, Types, OrNone
<1>4. CASE \E w \in Thread : Store(w) \/ LoseCommit(w)
  BY <1>0, <1>2, <1>3, <1>4 DEF Store, LoseCommit, Types
<1>5. ASSUME NEW w \in Thread, Park(w)
      PROVE  pending' \in [State -> OrNone(Parked)]
  <2>1. [token |-> job[w].token, at |-> job[w].now] \in Parked
    BY <1>5, SignerTyped DEF Park, Parked
  <2>2. Pruned(job[w].now) \in [State -> OrNone(Parked)]
    BY <1>0, SignerTyped, PrunedTyped
  <2>3. QED
    BY <1>5, <2>1, <2>2 DEF Park, OrNone
<1>6. CASE \E w \in Thread : Park(w)
  BY <1>0, <1>5, <1>6 DEF Park, Types
<1>7. ASSUME NEW w \in Thread, Claim(w)
      PROVE  pending' \in [State -> OrNone(Parked)] /\ handed' \in [Token -> Nat]
  <2> DEFINE login == Pruned(job[w].now)[job[w].call.state]
  <2>1. Pruned(job[w].now) \in [State -> OrNone(Parked)] /\ job[w].call.state \in State
    BY <1>0, <1>7, SignerTyped, PrunedTyped DEF Claim
  <2>2. login # None => login.token \in Token
    BY <2>1 DEF OrNone, Parked
  <2>3. IF login = None THEN UNCHANGED handed ELSE HandOut(login.token)
    BY <1>7 DEF Claim
  <2>4. handed' \in [Token -> Nat]
    <3> HIDE DEF login
    <3>1. QED
      BY <1>0, <2>2, <2>3, HandOutTyped DEF Types
  <2>5. pending' \in [State -> OrNone(Parked)]
    BY <1>7, <2>1 DEF Claim, OrNone
  <2>6. QED
    BY <2>4, <2>5
<1>8. CASE \E w \in Thread : Claim(w)
  BY <1>0, <1>7, <1>8 DEF Claim, Types
<1>9. CASE \E w \in Thread : Revoke(w)
  <2>1. PICK w \in Thread : Revoke(w)
    BY <1>9
  <2>2. job[w].token \in Token /\ UNCHANGED <<pending, handed>>
    BY <2>1, SignerTyped DEF Revoke
  <2>3. ASSUME sessions[job[w].token] # None
        PROVE  [sessions[job[w].token] EXCEPT !.revoked = TRUE] \in Session
    BY <1>0, <2>2, <2>3 DEF Types, OrNone, Session
  <2>4. sessions' \in [Token -> OrNone(Session)] /\ ended' \subseteq Token
    BY <1>0, <2>1, <2>2, <2>3 DEF Revoke, Types, OrNone
  <2>5. QED
    BY <1>0, <2>2, <2>4 DEF Types
<1>10. QED
  BY <1>1, <1>4, <1>6, <1>8, <1>9, WhoSigns

\* How a connection's phase, identity and place in the hub go on: once it has an
\* identity it keeps it, and once it has been listed it is not listed again.
Past(c) == link[c].phase \in {"listed", "open", "ended", "unkept", "gone"}

LinksGoOn == \A c \in Conn :
    /\ link[c].phase # "free" => /\ link'[c].phase # "free"
                                 /\ link'[c].user = link[c].user
                                 /\ link'[c].token = link[c].token
    /\ Past(c) => Past(c)' /\ (c \in Listed' => c \in Listed)

LEMMA PhaseTyped ==
    ASSUME Types, NEW c \in Conn, NEW from \in Phases, NEW to \in Phases, Phase(c, from, to)
    PROVE  /\ link' \in [Conn -> Link]
           /\ \A b \in Conn \ {c} : link'[b] = link[b]
           /\ link[c].phase = from /\ link'[c].phase = to
           /\ link'[c].user = link[c].user /\ link'[c].token = link[c].token
<1>1. [link[c] EXCEPT !.phase = to] \in Link
  BY DEF Types, Link
<1>2. link[c] \in Link
  BY DEF Types
<1>3. QED
  BY <1>1, <1>2 DEF Types, Phase, Link

LEMMA UpgradeTyped ==
    ASSUME Typed, NEW w \in Thread, NEW c \in Conn, pc[w] = "upgrade", link[c].phase = "free",
           link' = [link EXCEPT ![c] = [phase |-> "upgraded", user |-> job[w].from,
                                        token |-> job[w].token]]
    PROVE  /\ link' \in [Conn -> Link]
           /\ \A b \in Conn \ {c} : link'[b] = link[b]
           /\ link'[c].phase = "upgraded"
           /\ link'[c].user = job[w].from /\ link'[c].token = job[w].token
           /\ job[w].from \in User /\ job[w].token \in Token
<1>1. CallOK(w)
  BY DEF Typed, Actor
<1>2. job[w].from \in User /\ job[w].token \in Token
  BY <1>1 DEF CallOK
<1>3. [phase |-> "upgraded", user |-> job[w].from, token |-> job[w].token] \in Link
  BY <1>2 DEF Link, Phases, OrNone
<1>4. QED
  BY <1>2, <1>3 DEF Typed, Types

LEMMA ConnectTyped ==
    ASSUME Typed, [Next]_vars
    PROVE  /\ link' \in [Conn -> Link] /\ hub' \in [User -> SUBSET Conn]
           /\ \A c \in Conn : LinkOK(c)'
           /\ LinksGoOn
<1> DEFINE Goal == /\ link' \in [Conn -> Link]
                   /\ \A c \in Conn : LinkOK(c)'
                   /\ LinksGoOn
<1>0. Types /\ \A c \in Conn : LinkOK(c)
  BY DEF Typed
<1>1. CASE UNCHANGED <<link, hub>>
  BY <1>0, <1>1 DEF Types, LinkOK, LinksGoOn, Past, Listed
<1>2. ASSUME NEW c \in Conn, NEW from \in Phases \ {"free"}, NEW to \in Phases \ {"free"},
             Phase(c, from, to),
             from \in {"listed", "open", "ended", "unkept"} =>
                 to \in {"listed", "open", "ended", "unkept", "gone"},
             from = "gone" => to = "gone"
      PROVE  Goal
  <2>1. /\ link' \in [Conn -> Link]
        /\ \A b \in Conn \ {c} : link'[b] = link[b]
        /\ link[c].phase = from /\ link'[c].phase = to
        /\ link'[c].user = link[c].user /\ link'[c].token = link[c].token
    BY <1>0, <1>2, PhaseTyped
  <2>2. \A b \in Conn : LinkOK(b)'
    BY <1>0, <2>1 DEF LinkOK
  <2>3. LinksGoOn
    BY <1>2, <2>1 DEF LinksGoOn, Past, Listed
  <2>4. QED
    BY <2>1, <2>2, <2>3
<1>3. ASSUME NEW w \in Thread, Upgrade(w)
      PROVE  Goal
  <2>1. PICK c \in Conn : /\ link[c].phase = "free"
                          /\ link' = [link EXCEPT ![c] = [phase |-> "upgraded",
                                  user |-> job[w].from, token |-> job[w].token]]
    BY <1>3 DEF Upgrade
  <2>2. /\ link' \in [Conn -> Link]
        /\ \A b \in Conn \ {c} : link'[b] = link[b]
        /\ link'[c].phase = "upgraded"
        /\ link'[c].user = job[w].from /\ link'[c].token = job[w].token
        /\ job[w].from \in User /\ job[w].token \in Token
    BY <1>3, <2>1, UpgradeTyped DEF Upgrade
  <2>3. \A b \in Conn : LinkOK(b)'
    BY <1>0, <2>2 DEF LinkOK
  <2>4. LinksGoOn
    BY <2>1, <2>2 DEF LinksGoOn, Past, Listed
  <2>5. QED
    BY <2>2, <2>3, <2>4
<1>4. \A w \in Thread : Upgrade(w) => Goal /\ UNCHANGED hub
  <2> HIDE DEF Goal
  <2>1. QED
    BY <1>3 DEF Upgrade
<1>5. ASSUME NEW c \in Conn
      PROVE  Keep(c) \/ Add(c) \/ Listen(c) \/ Lose(c) \/ Forget(c) \/ Remove(c) => Goal
  <2> HIDE DEF Goal
  <2>1. QED
    BY <1>2 DEF Keep, Add, Listen, Lose, Forget, Remove, Phases
<1>6. ASSUME NEW c \in Conn
      PROVE  Keep(c) \/ Add(c) \/ Listen(c) \/ Lose(c) \/ Forget(c) \/ Remove(c) =>
                 hub' \in [User -> SUBSET Conn]
  BY <1>0 DEF Types, Keep, Add, Listen, Lose, Forget, Remove
<1>7. QED
  BY <1>0, <1>1, <1>4, <1>5, <1>6, WhoConnects DEF Types

\* The types are kept by every step.
LEMMA TypedKept ==
    ASSUME Typed, [Next]_vars
    PROVE  Typed'
<1>1. ASSUME NEW a \in Actor, Acts(a)
      PROVE  /\ pc' \in [Actor -> Labels] /\ job' \in [Actor -> Job]
             /\ \A b \in Actor : CallOK(b)'
  <2>1. Moves(a) /\ CallOK(a)'
    BY <1>1, ActorMoves
  <2>2. PICK label \in Labels, j \in Job : /\ pc' = [pc EXCEPT ![a] = label]
                                           /\ job' = [job EXCEPT ![a] = j]
    BY <2>1 DEF Moves
  <2>3. ASSUME NEW b \in Actor \ {a}
        PROVE  CallOK(b)'
    <3>1. pc'[b] = pc[b] /\ job'[b] = job[b] /\ job[b].now \in Nat
      BY <2>2 DEF Typed, Types, Job
    <3>2. clock \in Nat /\ clock' \in Nat /\ clock' >= clock /\ CallOK(b)
      BY ClockGoesOn DEF Typed, Types
    <3>3. QED
      BY <3>1, <3>2 DEF CallOK
  <2>4. QED
    BY <2>1, <2>2, <2>3 DEF Typed, Types
<1>2. CASE Passes
  <2>1. UNCHANGED <<pc, job>>
    BY <1>2, PassesQuietly
  <2>2. ASSUME NEW a \in Actor
        PROVE  CallOK(a)'
    <3>1. clock \in Nat /\ clock' \in Nat /\ clock' >= clock /\ CallOK(a) /\ job[a].now \in Nat
      BY ClockGoesOn DEF Typed, Types, Job
    <3>2. QED
      BY <2>1, <3>1 DEF CallOK
  <2>3. QED
    BY <2>1, <2>2, SignTyped, ConnectTyped, ClockGoesOn, BudgetTyped DEF Typed, Types
<1>3. QED
  BY <1>1, <1>2, WhoMoves, SignTyped, ConnectTyped, ClockGoesOn, BudgetTyped DEF Typed, Types
-----------------------------------------------------------------------------
(* Tokens on their way *)

\* A minted token is with one thread or parked under one nonce until it is handed
\* out, and has no session before the thread stores one.
Minted(w) == pc[w] \in {"store", "park"}

FreshInv ==
    /\ \A w \in Thread : pc[w] = "store" => sessions[job[w].token] = None
    /\ \A w \in Thread : Minted(w) => handed[job[w].token] = 0
    /\ \A v, w \in Thread : v # w /\ Minted(v) /\ Minted(w) => job[v].token # job[w].token
    /\ \A w \in Thread, s \in State :
           Minted(w) /\ pending[s] # None => pending[s].token # job[w].token
    /\ \A s \in State : pending[s] # None => handed[pending[s].token] = 0
    /\ \A r, s \in State : r # s /\ pending[r] # None /\ pending[s] # None =>
           pending[r].token # pending[s].token

\* What a thread that signs somebody in does to the others: nothing.
OthersStay(w) == \A v \in Thread \ {w} : pc'[v] = pc[v] /\ job'[v] = job[v]

LEMMA MoverAlone ==
    ASSUME Typed, NEW a \in Actor, Acts(a)
    PROVE  \A b \in Actor \ {a} : pc'[b] = pc[b] /\ job'[b] = job[b]
<1>1. Moves(a)
  BY ActorMoves
<1>2. QED
  BY <1>1 DEF Moves, Typed, Types

\* A step that mints nothing, and leaves tokens alone, keeps them fresh.
LEMMA FreshAsBefore ==
    ASSUME FreshInv, UNCHANGED auth,
           \A w \in Thread : Minted(w)' => pc'[w] = pc[w] /\ job'[w].token = job[w].token
    PROVE  FreshInv'
  BY DEF FreshInv, Minted, auth

LEMMA FreshKept ==
    ASSUME Typed, FreshInv, [Next]_vars
    PROVE  FreshInv'
<1>0. Types /\ Thread \subseteq Actor /\ NoJob.token = None
  BY DEF Typed, Actor, NoJob
<1>1. CASE Passes
  <2>1. UNCHANGED <<pc, job>> /\ UNCHANGED auth
    BY <1>1, PassesQuietly DEF Passes, Keep, Add, Listen, Lose, Forget, Remove, Tick, vars, auth
  <2>2. QED
    BY <2>1, FreshAsBefore DEF Minted
<1>2. ASSUME NEW a \in Actor, Acts(a), UNCHANGED auth, ~Minted(a)'
      PROVE  FreshInv'
  BY <1>0, <1>2, MoverAlone, FreshAsBefore DEF Minted
<1>3. ASSUME NEW w \in Thread, Return(w)
      PROVE  ~Minted(w)'
  BY <1>0, <1>3 DEF Return, Goto, Minted, Types
<1>4. ASSUME NEW w \in Thread, Verify(w)
      PROVE  FreshInv'
  <2>1. Acts(w) /\ UNCHANGED auth
    BY <1>4 DEF Acts, HttpStep, Verify
  <2>2. CASE Return(w)
    BY <1>0, <1>2, <1>3, <2>1, <2>2
  <2>3. ASSUME NEW t \in Token, sessions[t] = None, handed[t] = 0,
               \A v \in Thread : pc[v] \in {"store", "park"} => job[v].token # t,
               \A s \in State : pending[s] # None => pending[s].token # t,
               job' = [job EXCEPT ![w] = [@ EXCEPT !.token = t, !.now = clock]], Goto(w, "store")
        PROVE  FreshInv'
    <3>1. pc'[w] = "store" /\ job'[w].token = t
      BY <1>0, <2>3 DEF Goto, Types, Job
    <3>2. OthersStay(w)
      BY <1>0, <2>1, MoverAlone DEF OthersStay
    <3>3. QED
      BY <2>1, <2>3, <3>1, <3>2 DEF FreshInv, Minted, OthersStay, auth
  <2>4. QED
    BY <1>4, <2>2, <2>3 DEF Verify
<1>5. ASSUME NEW w \in Thread, pc[w] = "store", Deliver(w), OthersStay(w),
             UNCHANGED <<pending, ended>>,
             \A t \in Token \ {job[w].token} : sessions'[t] = sessions[t]
      PROVE  FreshInv'
  <2>0. /\ job[w].token \in Token
        /\ \A v \in Thread : Minted(v) => job[v].token \in Token
        /\ \A s \in State : pending[s] # None => pending[s].token \in Token
    BY <1>0, <1>5, SignerTyped DEF Minted, Types, OrNone, Parked
  <2>1. CASE job[w].call.state = None
    <3>1. HandOut(job[w].token) /\ ~Minted(w)'
      BY <1>3, <1>5, <2>1 DEF Deliver
    <3>2. \A t \in Token \ {job[w].token} : handed'[t] = handed[t]
      BY <1>0, <2>0, <3>1 DEF HandOut, Types
    <3>3. QED
      BY <1>5, <2>0, <3>1, <3>2 DEF FreshInv, Minted, OthersStay
  <2>2. CASE job[w].call.state # None
    <3>1. /\ handed' = handed /\ pc' = [pc EXCEPT ![w] = "park"]
          /\ job' = [job EXCEPT ![w] = [job[w] EXCEPT !.now = clock]]
      BY <1>5, <2>2 DEF Deliver, Goto
    <3>2. pc'[w] = "park" /\ job'[w].token = job[w].token
      BY <1>0, <3>1 DEF Types, Job
    <3>3. QED
      BY <1>5, <2>0, <3>1, <3>2 DEF FreshInv, Minted, OthersStay
  <2>3. QED
    BY <2>1, <2>2
<1>6. ASSUME NEW w \in Thread, Store(w) \/ LoseCommit(w)
      PROVE  FreshInv'
  <2>1. Acts(w)
    BY <1>6 DEF Acts, HttpStep
  <2>2. \A t \in Token \ {job[w].token} : sessions'[t] = sessions[t]
    BY <1>0, <1>6 DEF Store, LoseCommit, Types
  <2>3. OthersStay(w)
    BY <1>0, <2>1, MoverAlone DEF OthersStay
  <2>4. QED
    BY <1>5, <1>6, <2>2, <2>3 DEF Store, LoseCommit
<1>7. ASSUME NEW w \in Thread, Park(w)
      PROVE  FreshInv'
  <2>1. OthersStay(w) /\ ~Minted(w)'
    BY <1>0, <1>3, <1>7, MoverAlone DEF OthersStay, Acts, HttpStep, Park
  <2>2. job[w].call.state \in State /\ Pruned(job[w].now) \in [State -> OrNone(Parked)]
    BY <1>0, <1>7, SignerTyped, PrunedTyped DEF Park
  <2>3. \A s \in State : \/ s = job[w].call.state /\ pending'[s].token = job[w].token
                         \/ s # job[w].call.state /\ pending'[s] \in {None, pending[s]}
    BY <1>0, <1>7, <2>2, SignerTyped, PrunedTyped DEF Park
  <2>4. Minted(w) /\ UNCHANGED <<sessions, handed>>
    BY <1>7 DEF Park, Minted
  <2>5. QED
    BY <2>1, <2>2, <2>3, <2>4 DEF FreshInv, Minted, OthersStay
<1>8. ASSUME NEW w \in Thread, Claim(w)
      PROVE  FreshInv'
  <2> DEFINE state == job[w].call.state
             login == Pruned(job[w].now)[state]
  <2>1. OthersStay(w) /\ ~Minted(w)' /\ sessions' = sessions
    BY <1>0, <1>3, <1>8, MoverAlone DEF OthersStay, Acts, HttpStep, Claim
  <2>2. state \in State /\ Pruned(job[w].now) \in [State -> OrNone(Parked)]
    BY <1>0, <1>8, SignerTyped, PrunedTyped DEF Claim
  <2>3. \A s \in State : IF s = state THEN pending'[s] = None
                                      ELSE pending'[s] \in {None, pending[s]}
    BY <1>0, <1>8, <2>2, SignerTyped, PrunedTyped DEF Claim
  <2>4. login \in {None, pending[state]}
    BY <1>0, <2>2, SignerTyped, PrunedTyped
  <2>5. \A t \in Token : (login = None \/ t # login.token) => handed'[t] = handed[t]
    BY <1>0, <1>8 DEF Claim, HandOut, Types
  <2>6. /\ \A v \in Thread : Minted(v) => job[v].token \in Token
        /\ \A s \in State : pending[s] # None => pending[s].token \in Token
    BY <1>0, SignerTyped DEF Minted, Types, OrNone, Parked
  <2> HIDE DEF login, state
  <2>7. /\ \A v \in Thread : Minted(v) => handed'[job[v].token] = handed[job[v].token]
        /\ \A s \in State \ {state} : pending[s] # None =>
               handed'[pending[s].token] = handed[pending[s].token]
    BY <2>2, <2>4, <2>5, <2>6 DEF FreshInv
  <2>8. QED
    BY <2>1, <2>3, <2>7 DEF FreshInv, Minted, OthersStay
<1>9. ASSUME NEW w \in Thread, Revoke(w)
      PROVE  FreshInv'
  <2>1. OthersStay(w) /\ ~Minted(w)' /\ UNCHANGED <<pending, handed>>
    BY <1>0, <1>3, <1>9, MoverAlone DEF OthersStay, Acts, HttpStep, Revoke
  <2>2. \A t \in Token : sessions[t] = None => sessions'[t] = None
    BY <1>0, <1>9, SignerTyped DEF Revoke, Types
  <2>3. \A v \in Thread : Minted(v) => job[v].token \in Token
    BY SignerTyped DEF Minted
  <2>4. QED
    BY <2>1, <2>2, <2>3 DEF FreshInv, Minted, OthersStay
<1>10. ASSUME NEW w \in Thread, HttpStep(w)
       PROVE  FreshInv'
  <2>1. Acts(w)
    BY <1>10 DEF Acts
  <2>2. ASSUME NEW c \in Call, Begin(w, c)
        PROVE  UNCHANGED auth /\ ~Minted(w)'
    BY <1>0, <2>2, CallTyped DEF Begin, Goto, First, Minted, Types
  <2>3. Select(w) \/ Check(w) \/ Upgrade(w) => UNCHANGED auth /\ ~Minted(w)'
    BY <1>0, <1>3 DEF Select, Check, Upgrade, StartSend, Goto, Minted, Types
  <2>4. QED
    BY <1>0, <1>2, <1>4, <1>6, <1>7, <1>8, <1>9, <1>10, <2>1, <2>2, <2>3 DEF HttpStep
<1>11. ASSUME NEW a \in Actor,
              \/ a \in Conn /\ \E call \in Call : Signal(a, call)
              \/ Resolve(a) \/ Push(a) \/ Fault(a)
       PROVE  FreshInv'
  <2>1. Acts(a) /\ UNCHANGED auth
    BY <1>11 DEF Acts, Signal, Resolve, Push, Fault
  <2>2. ~Minted(a)'
    BY <1>0, <1>11 DEF Signal, Resolve, Push, Fault, Return, Goto, Minted, Types
  <2>3. QED
    BY <1>2, <2>1, <2>2
<1>12. QED
  BY <1>1, <1>10, <1>11, WhoMoves DEF Acts

\* What a step may do to a parked login and to a token, from the same invariant.
LEMMA HandedOverStep ==
    ASSUME Typed, FreshInv, [Next]_vars
    PROVE  /\ \A s \in State : pending[s] # None /\ pending'[s] # pending[s] =>
                  \/ pending'[s] = None /\ handed'[pending[s].token] = 1
                  \/ pending'[s] # None /\ pending'[s].token # pending[s].token
                  \/ clock - pending[s].at > PendingTTL
           /\ \A t \in Token : handed'[t] # handed[t] =>
                  /\ handed[t] = 0
                  /\ \E w \in Thread :
                         \/ pc[w] = "store" /\ job[w].token = t
                         \/ pc[w] = "claim" /\ Waits(job[w].call.state, t, job[w].now)
<1> DEFINE Parks(s) == \/ pending'[s] = None /\ handed'[pending[s].token] = 1
                       \/ pending'[s] # None /\ pending'[s].token # pending[s].token
                       \/ clock - pending[s].at > PendingTTL
           Hands(t) == /\ handed[t] = 0
                       /\ \E w \in Thread :
                              \/ pc[w] = "store" /\ job[w].token = t
                              \/ pc[w] = "claim" /\ Waits(job[w].call.state, t, job[w].now)
<1>0. Types /\ PendingTTL \in Nat /\ clock \in Nat
      /\ \A s \in State : pending[s] # None => /\ pending[s].at \in Nat
                                               /\ pending[s].token \in Token
  BY ConnectionsAssumption DEF Typed, Types, OrNone, Parked
<1>1. ASSUME NEW w \in Thread
      PROVE  job[w].now \in Nat /\ job[w].now <= clock
  BY <1>0, SignerTyped DEF Typed, CallOK, Actor
<1>2. ASSUME NEW w \in Thread, NEW s \in State, Pruned(job[w].now)[s] = None, pending[s] # None
      PROVE  clock - pending[s].at > PendingTTL
  <2>1. job[w].now - pending[s].at > PendingTTL
    BY <1>0, <1>1, <1>2, PrunedTyped
  <2>2. QED
    BY <1>0, <1>1, <1>2, <2>1
<1>3. ASSUME NEW w \in Thread, Store(w) \/ LoseCommit(w)
      PROVE  UNCHANGED pending /\ \A t \in Token : handed'[t] # handed[t] => Hands(t)
  <2>1. pc[w] = "store" /\ Deliver(w) /\ UNCHANGED pending /\ job[w].token \in Token
    BY <1>3, SignerTyped DEF Store, LoseCommit
  <2>2. \A t \in Token \ {job[w].token} : handed'[t] = handed[t]
    BY <1>0, <2>1 DEF Deliver, HandOut, Types
  <2>3. handed[job[w].token] = 0
    BY <2>1 DEF FreshInv, Minted
  <2>4. QED
    BY <2>1, <2>2, <2>3
<1>4. ASSUME NEW w \in Thread, Park(w)
      PROVE  UNCHANGED handed /\ \A s \in State : pending[s] # None /\ pending'[s] # pending[s] => Parks(s)
  <2>1. job[w].call.state \in State /\ Pruned(job[w].now) \in [State -> OrNone(Parked)]
    BY <1>0, <1>1, <1>4, SignerTyped, PrunedTyped DEF Park
  <2>2. ASSUME NEW s \in State, s # job[w].call.state, pending[s] # None, pending'[s] # pending[s]
        PROVE  Parks(s)
    <3>1. pending'[s] = Pruned(job[w].now)[s] /\ Pruned(job[w].now)[s] \in {None, pending[s]}
      BY <1>0, <1>1, <1>4, <2>1, <2>2, PrunedTyped DEF Park
    <3>2. QED
      BY <1>2, <2>2, <3>1
  <2>3. ASSUME NEW s \in State, s = job[w].call.state, pending[s] # None
        PROVE  Parks(s)
    <3>1. pending'[s] = [token |-> job[w].token, at |-> job[w].now]
      BY <1>4, <2>1, <2>3 DEF Park
    <3>2. pending'[s] \in Parked /\ None \notin Parked
      BY <1>1, <1>4, <3>1, SignerTyped, ConnectionsAssumption DEF Parked, Park
    <3>3. pending'[s].token # pending[s].token
      BY <1>4, <2>3, <3>1 DEF FreshInv, Minted, Park
    <3>4. QED
      BY <3>2, <3>3
  <2>4. QED
    BY <1>4, <2>2, <2>3 DEF Park
<1>5. ASSUME NEW w \in Thread, Claim(w)
      PROVE  /\ \A s \in State : pending[s] # None /\ pending'[s] # pending[s] => Parks(s)
             /\ \A t \in Token : handed'[t] # handed[t] => Hands(t)
  <2> DEFINE state == job[w].call.state
             login == Pruned(job[w].now)[state]
  <2>1. state \in State /\ Pruned(job[w].now) \in [State -> OrNone(Parked)]
    BY <1>0, <1>1, <1>5, SignerTyped, PrunedTyped DEF Claim
  <2>2. login \in {None, pending[state]}
    BY <1>0, <1>1, <2>1, PrunedTyped
  <2>3. CASE login = None
    <3>1. UNCHANGED handed
      BY <1>5, <2>3 DEF Claim
    <3>2. ASSUME NEW s \in State, pending[s] # None, pending'[s] # pending[s]
          PROVE  Parks(s)
      <4>1. Pruned(job[w].now)[s] = None
        <5>1. CASE s = state
          BY <2>3, <5>1
        <5>2. CASE s # state
          <6>1. pending'[s] = Pruned(job[w].now)[s] /\ Pruned(job[w].now)[s] \in {None, pending[s]}
            BY <1>0, <1>1, <1>5, <2>1, <5>2, PrunedTyped DEF Claim
          <6>2. QED
            BY <3>2, <6>1
        <5>3. QED
          BY <5>1, <5>2
      <4>2. QED
        BY <1>2, <3>2, <4>1
    <3>3. QED
      BY <3>1, <3>2
  <2>4. CASE login # None
    <3>1. /\ login = pending[state] /\ pending[state] # None /\ login.token \in Token
          /\ handed[login.token] = 0 /\ job[w].now - pending[state].at <= PendingTTL
      BY <1>0, <1>1, <2>1, <2>2, <2>4, PrunedTyped DEF FreshInv
    <3>2. /\ handed'[login.token] = 1
          /\ \A t \in Token \ {login.token} : handed'[t] = handed[t]
      BY <1>0, <1>5, <2>4, <3>1 DEF Claim, HandOut, Types
    <3>3. pc[w] = "claim" /\ Waits(state, login.token, job[w].now)
      BY <1>5, <3>1 DEF Claim, Waits
    <3>4. ASSUME NEW s \in State, pending[s] # None, pending'[s] # pending[s]
          PROVE  Parks(s)
      <4>1. CASE s = state
        <5>1. pending'[s] = None
          BY <1>5, <2>1, <4>1 DEF Claim
        <5>2. QED
          BY <3>1, <3>2, <4>1, <5>1
      <4>2. CASE s # state
        <5>1. pending'[s] = Pruned(job[w].now)[s] /\ Pruned(job[w].now)[s] \in {None, pending[s]}
          BY <1>0, <1>1, <1>5, <2>1, <4>2, PrunedTyped DEF Claim
        <5>2. QED
          BY <1>2, <3>4, <5>1
      <4>3. QED
        BY <4>1, <4>2
    <3>5. ASSUME NEW t \in Token, handed'[t] # handed[t]
          PROVE  Hands(t)
      <4>1. t = login.token
        BY <3>2, <3>5
      <4>2. QED
        BY <3>1, <3>3, <4>1
    <3>6. QED
      BY <3>4, <3>5
  <2>5. QED
    BY <2>3, <2>4
<1>6. CASE UNCHANGED auth \/ \E w \in Thread : Revoke(w)
  BY <1>6 DEF auth, Revoke
<1>7. (\A s \in State : pending[s] # None /\ pending'[s] # pending[s] => Parks(s)) /\
      (\A t \in Token : handed'[t] # handed[t] => Hands(t))
  <2> HIDE DEF Parks, Hands
  <2>1. QED
    BY <1>3, <1>4, <1>5, <1>6, WhoSigns DEF auth, Revoke
<1>8. QED
  BY <1>7
-----------------------------------------------------------------------------
(* Who is let in *)

\* A session nobody can use any more.
Over(row) == row # None /\ (row.revoked \/ clock >= row.expires)

\* What an actor knows of the session of its token.
AuthOK(a) ==
    /\ pc[a] = "select" /\ job[a].late => Over(sessions[job[a].token])
    /\ pc[a] = "check" /\ job[a].late => Over(job[a].row)
    /\ pc[a] = "check" /\ job[a].row # None => /\ sessions[job[a].token] # None
                                              /\ sessions[job[a].token].user = job[a].row.user
    /\ pc[a] \in {"upgrade", "resolve", "push"} => /\ ~job[a].late
                                                  /\ sessions[job[a].token] # None
                                                  /\ sessions[job[a].token].user = job[a].from

AuthInv ==
    /\ \A t \in ended : sessions[t] # None /\ sessions[t].revoked
    /\ \A c \in Conn : link[c].phase # "free" => /\ sessions[link[c].token] # None
                                               /\ sessions[link[c].token].user = link[c].user
    /\ \A a \in Actor : AuthOK(a)

\* A session keeps its user and its expiry, and once revoked stays revoked.
LEMMA SessionsGoOn ==
    ASSUME Typed, FreshInv, [Next]_vars, NEW t \in Token, sessions[t] # None
    PROVE  /\ sessions'[t] # None
           /\ sessions'[t].user = sessions[t].user
           /\ sessions'[t].expires = sessions[t].expires
           /\ sessions[t].revoked => sessions'[t].revoked
<1>0. sessions \in [Token -> OrNone(Session)] /\ sessions[t] \in Session /\ None \notin Session
  BY ConnectionsAssumption DEF Typed, Types, OrNone
<1>1. CASE \E w \in Thread : Store(w)
  <2>1. PICK w \in Thread : Store(w)
    BY <1>1
  <2>2. job[w].token # t
    BY <2>1 DEF FreshInv, Store
  <2>3. QED
    BY <1>0, <2>1, <2>2, SignerTyped DEF Store
<1>2. CASE \E w \in Thread : Revoke(w)
  <2>1. PICK w \in Thread : Revoke(w)
    BY <1>2
  <2>2. job[w].token \in Token
    BY <2>1, SignerTyped DEF Revoke
  <2>3. sessions'[t] = sessions[t] \/ sessions'[t] = [sessions[t] EXCEPT !.revoked = TRUE]
    BY <1>0, <2>1, <2>2 DEF Revoke
  <2>4. [sessions[t] EXCEPT !.revoked = TRUE] \in Session
    BY <1>0 DEF Session
  <2>5. QED
    BY <1>0, <2>3, <2>4 DEF Session
<1>3. CASE UNCHANGED sessions
  BY <1>3
<1>4. QED
  BY <1>1, <1>2, <1>3, WhoSigns DEF auth, LoseCommit, Park, Claim

\* A row that is over stays so as time goes on.
LEMMA OverGoesOn ==
    ASSUME Typed, [Next]_vars, NEW row \in OrNone(Session), Over(row)
    PROVE  Over(row)'
<1>1. row.expires \in Nat /\ clock \in Nat /\ clock' \in Nat /\ clock' >= clock
  BY ClockGoesOn DEF Typed, Types, OrNone, Over, Session
<1>2. QED
  BY <1>1 DEF Over

\* The sessions may change under a request that does not move.
LEMMA AuthStays ==
    ASSUME Typed, FreshInv, [Next]_vars, NEW a \in Actor, AuthOK(a),
           pc'[a] = pc[a], job'[a] = job[a]
    PROVE  AuthOK(a)'
<1>0. /\ pc[a] \in {"select", "check", "upgrade", "resolve", "push"} => job[a].token \in Token
      /\ job[a].row \in OrNone(Session)
      /\ sessions \in [Token -> OrNone(Session)]
  BY DEF Typed, Types, CallOK, Job
<1>1. CASE pc[a] = "select"
  <2>1. ASSUME job[a].late
        PROVE  Over(sessions[job[a].token])'
    <3>1. Over(sessions[job[a].token])
      BY <1>1, <2>1 DEF AuthOK
    <3>2. /\ sessions'[job[a].token] # None
          /\ sessions'[job[a].token].expires = sessions[job[a].token].expires
          /\ sessions[job[a].token].revoked => sessions'[job[a].token].revoked
      BY <1>0, <1>1, <3>1, SessionsGoOn DEF Over
    <3>3. sessions[job[a].token].expires \in Nat /\ clock \in Nat /\ clock' \in Nat /\ clock' >= clock
      BY <1>0, <1>1, <3>1, ClockGoesOn DEF Over, OrNone, Session, Typed, Types
    <3>4. QED
      BY <3>1, <3>2, <3>3 DEF Over
  <2>2. QED
    BY <1>1, <2>1 DEF AuthOK
<1>2. CASE pc[a] = "check"
  <2>1. job[a].late => Over(job[a].row)'
    BY <1>0, <1>2, OverGoesOn DEF AuthOK, Over
  <2>2. job[a].row # None => /\ sessions'[job[a].token] # None
                             /\ sessions'[job[a].token].user = job[a].row.user
    BY <1>0, <1>2, SessionsGoOn DEF AuthOK
  <2>3. QED
    BY <1>2, <2>1, <2>2 DEF AuthOK, Over
<1>3. CASE pc[a] \in {"upgrade", "resolve", "push"}
  BY <1>0, <1>3, SessionsGoOn DEF AuthOK
<1>4. CASE pc[a] \notin {"select", "check", "upgrade", "resolve", "push"}
  BY <1>4 DEF AuthOK
<1>5. QED
  BY <1>1, <1>2, <1>3, <1>4

\* The actor that moves: a late request is turned away by the check, and what
\* goes on carries the user of its session.
LEMMA AuthMoves ==
    ASSUME Typed, FreshInv, AuthInv, [Next]_vars, NEW a \in Actor, Acts(a)
    PROVE  AuthOK(a)'
<1>0. /\ pc \in [Actor -> Labels] /\ job \in [Actor -> Job] /\ AuthOK(a) /\ CallOK(a)
      /\ sessions \in [Token -> OrNone(Session)]
  BY DEF Typed, Types, AuthInv
<1>1. ASSUME pc'[a] \notin {"select", "check", "upgrade", "resolve", "push"}
      PROVE  AuthOK(a)'
  BY <1>1 DEF AuthOK
<1>2. ASSUME Return(a)
      PROVE  AuthOK(a)'
  BY <1>0, <1>1, <1>2 DEF Return, Goto
<1>3. ASSUME a \in Thread, NEW c \in Call, Begin(a, c)
      PROVE  AuthOK(a)'
  <2>1. pc'[a] = First(c) /\ UNCHANGED <<sessions, clock>>
    BY <1>0, <1>3 DEF Begin, Goto, auth
  <2>2. First(c) \notin {"check", "upgrade", "resolve", "push"}
    BY <1>3, CallTyped DEF Begin, First
  <2>3. /\ job'[a].token = c.token
        /\ job'[a].late => /\ c.token # None
                           /\ \/ c.token \in ended
                              \/ sessions[c.token] # None /\ clock >= sessions[c.token].expires
    BY <1>0, <1>3 DEF Begin, NoJob
  <2>4. job'[a].late => Over(sessions[job'[a].token])
    BY <2>3 DEF AuthInv, Over
  <2>5. job'[a].late => Over(sessions[job[a].token])'
    BY <2>1, <2>4 DEF Over
  <2>6. QED
    BY <2>1, <2>2, <2>5 DEF AuthOK
<1>4. CASE a \in Thread /\ (Verify(a) \/ Store(a) \/ LoseCommit(a))
  BY <1>0, <1>1, <1>2, <1>4 DEF Verify, Store, LoseCommit, Deliver, Goto
<1>5. CASE a \in Thread /\ (Park(a) \/ Claim(a) \/ Revoke(a) \/ Upgrade(a))
  BY <1>2, <1>5 DEF Park, Claim, Revoke, Upgrade
<1>6. CASE a \in Thread /\ Select(a)
  <2>1. pc[a] = "select" /\ pc'[a] = "check" /\ UNCHANGED <<sessions, clock>>
    BY <1>0, <1>6 DEF Select, Goto, auth
  <2>2. /\ job'[a].row = sessions[job[a].token]
        /\ job'[a].token = job[a].token /\ job'[a].late = job[a].late
    BY <1>0, <1>6 DEF Select, Job
  <2>3. QED
    BY <1>0, <2>1, <2>2 DEF AuthOK, Over
<1>7. CASE a \in Thread /\ Check(a)
  <2>1. CASE ~Usable(job[a].row, clock)
    BY <1>2, <1>7, <2>1 DEF Check
  <2>2. CASE Usable(job[a].row, clock)
    <3>1. /\ pc[a] = "check" /\ UNCHANGED <<sessions, clock>> /\ job[a].row # None
          /\ ~job[a].row.revoked /\ clock < job[a].row.expires
      BY <1>7, <2>2 DEF Check, Usable, auth
    <3>2. ~job[a].late
      <4>1. job[a].row.expires \in Nat /\ clock \in Nat
        BY <1>0, <3>1 DEF Job, OrNone, Session, Typed, Types
      <4>2. QED
        BY <1>0, <3>1, <4>1 DEF AuthOK, Over
    <3>3. /\ job'[a].token = job[a].token /\ job'[a].late = job[a].late
          /\ job'[a].from = job[a].row.user
      BY <1>0, <1>7, <2>2 DEF Check, StartSend, Job
    <3>4. pc'[a] \in {"upgrade", "resolve"}
      BY <1>0, <1>7, <2>2 DEF Check, StartSend, Goto
    <3>5. QED
      BY <1>0, <3>1, <3>2, <3>3, <3>4 DEF AuthOK
  <2>3. QED
    BY <2>1, <2>2
<1>8. ASSUME a \in Conn, NEW call \in Call, Signal(a, call)
      PROVE  AuthOK(a)'
  <2>1. pc'[a] = "resolve" /\ sessions' = sessions /\ link[a].phase = "open"
    BY <1>0, <1>8 DEF Signal, Goto, auth
  <2>2. ~job'[a].late /\ job'[a].token = link[a].token /\ job'[a].from = link[a].user
    BY <1>0, <1>8 DEF Signal, NoJob
  <2>3. QED
    BY <1>8, <2>1, <2>2 DEF AuthOK, AuthInv
<1>9. CASE Resolve(a)
  <2>1. pc[a] = "resolve" /\ pc'[a] = "push" /\ sessions' = sessions
    BY <1>0, <1>9 DEF Resolve, Goto, auth
  <2>2. job'[a].late = job[a].late /\ job'[a].token = job[a].token /\ job'[a].from = job[a].from
    BY <1>0, <1>9 DEF Resolve, Job
  <2>3. QED
    BY <1>0, <2>1, <2>2 DEF AuthOK
<1>10. CASE Push(a)
  <2>1. CASE job[a].left = {}
    BY <1>2, <1>10, <2>1 DEF Push
  <2>2. CASE job[a].left # {}
    <3>1. pc[a] = "push" /\ pc'[a] = "push" /\ sessions' = sessions
      BY <1>0, <1>10, <2>2 DEF Push, auth
    <3>2. job'[a].late = job[a].late /\ job'[a].token = job[a].token /\ job'[a].from = job[a].from
      BY <1>0, <1>10, <2>2 DEF Push, Job
    <3>3. QED
      BY <1>0, <3>1, <3>2 DEF AuthOK
  <2>3. QED
    BY <2>1, <2>2
<1>11. CASE Fault(a)
  BY <1>2, <1>11 DEF Fault
<1>12. QED
  BY <1>3, <1>4, <1>5, <1>6, <1>7, <1>8, <1>9, <1>10, <1>11 DEF Acts, HttpStep

\* A connection gets its identity from the request that upgrades it.
LEMMA WhoseConnection ==
    ASSUME Typed, [Next]_vars, NEW c \in Conn, link[c].phase = "free", link'[c].phase # "free"
    PROVE  \E w \in Thread : /\ Upgrade(w) /\ link'[c].phase = "upgraded"
                             /\ link'[c].user = job[w].from /\ link'[c].token = job[w].token
<1>1. CASE \E w \in Thread : Upgrade(w)
  <2>1. PICK w \in Thread, d \in Conn :
           /\ Upgrade(w) /\ link[d].phase = "free"
           /\ link' = [link EXCEPT ![d] = [phase |-> "upgraded", user |-> job[w].from,
                                           token |-> job[w].token]]
    BY <1>1 DEF Upgrade
  <2>2. c = d
    BY <2>1 DEF Typed, Types
  <2>3. QED
    BY <2>1, <2>2 DEF Typed, Types
<1>2. ASSUME NEW d \in Conn, NEW from \in Phases \ {"free"}, NEW to \in Phases, Phase(d, from, to)
      PROVE  FALSE
  BY <1>2, PhaseTyped DEF Typed
<1>3. ASSUME NEW d \in Conn,
             Keep(d) \/ Add(d) \/ Listen(d) \/ Lose(d) \/ Forget(d) \/ Remove(d)
      PROVE  FALSE
  BY <1>2, <1>3 DEF Keep, Add, Listen, Lose, Forget, Remove, Phases
<1>4. QED
  BY <1>1, <1>3, WhoConnects

LEMMA AuthKept ==
    ASSUME Typed, FreshInv, AuthInv, [Next]_vars
    PROVE  AuthInv'
<1>1. ASSUME NEW t \in ended'
      PROVE  sessions'[t] # None /\ sessions'[t].revoked
  <2>1. CASE t \in ended
    <3>1. t \in Token /\ sessions[t] # None /\ sessions[t].revoked
      BY <2>1 DEF Typed, Types, AuthInv
    <3>2. QED
      BY <3>1, SessionsGoOn
  <2>2. CASE t \notin ended
    <3>1. PICK w \in Thread : Revoke(w)
      BY <1>1, <2>2, WhoSigns DEF auth, Store, LoseCommit, Park, Claim
    <3>2. t = job[w].token /\ sessions[t] # None
      BY <1>1, <2>2, <3>1 DEF Revoke
    <3>3. t \in Token
      BY <3>1, <3>2, SignerTyped DEF Revoke
    <3>4. sessions'[t] = [sessions[t] EXCEPT !.revoked = TRUE] /\ sessions[t] \in Session
      BY <3>1, <3>2, <3>3 DEF Revoke, Typed, Types, OrNone
    <3>5. sessions'[t] \in Session /\ sessions'[t].revoked
      BY <3>4 DEF Session
    <3>6. QED
      BY <3>5, ConnectionsAssumption
  <2>3. QED
    BY <2>1, <2>2
<1>2. ASSUME NEW c \in Conn, link'[c].phase # "free"
      PROVE  /\ sessions'[link'[c].token] # None
             /\ sessions'[link'[c].token].user = link'[c].user
  <2>1. CASE link[c].phase # "free"
    <3>1. /\ link'[c].user = link[c].user /\ link'[c].token = link[c].token
          /\ link[c].token \in Token
          /\ sessions[link[c].token] # None /\ sessions[link[c].token].user = link[c].user
      BY <2>1, ConnectTyped DEF LinksGoOn, AuthInv, Typed, LinkOK
    <3>2. QED
      BY <3>1, SessionsGoOn
  <2>2. CASE link[c].phase = "free"
    <3>1. PICK w \in Thread : /\ Upgrade(w) /\ link'[c].user = job[w].from
                             /\ link'[c].token = job[w].token
      BY <1>2, <2>2, WhoseConnection
    <3>2. /\ w \in Actor /\ pc[w] = "upgrade" /\ AuthOK(w) /\ sessions' = sessions
      BY <3>1 DEF Actor, AuthInv, Upgrade, auth
    <3>3. QED
      BY <3>1, <3>2 DEF AuthOK
  <2>3. QED
    BY <2>1, <2>2
<1>3. ASSUME NEW a \in Actor
      PROVE  AuthOK(a)'
  <2>1. AuthOK(a)
    BY DEF AuthInv
  <2>2. CASE Passes
    BY <2>1, <2>2, PassesQuietly, AuthStays
  <2>3. ASSUME NEW b \in Actor, Acts(b)
        PROVE  AuthOK(a)'
    BY <2>1, <2>3, MoverAlone, AuthMoves, AuthStays
  <2>4. QED
    BY <2>2, <2>3, WhoMoves
<1>4. QED
  BY <1>1, <1>2, <1>3 DEF AuthInv
-----------------------------------------------------------------------------
(* Who is reached *)

\* The hub lists the connections between add and remove, each with its user.
HubOK == \A u \in User : hub[u] = ListedOf(u)

\* The connections a send has found are its user's; those it has to reach and that
\* are still listed are in what it has copied, pushed to or not.
ReachOK(a) ==
    /\ pc[a] # "push" => job[a].done = {}
    /\ pc[a] \in {"resolve", "push"} =>
           \A c \in job[a].must : Past(c) /\ link[c].user = job[a].call.to
    /\ pc[a] = "push" =>
           /\ \A c \in job[a].left \cup job[a].done : Past(c) /\ link[c].user = job[a].call.to
           /\ job[a].must \cap Listed \subseteq job[a].left \cup job[a].done

ReachInv == HubOK /\ \A a \in Actor : ReachOK(a)

LEMMA HubKept ==
    ASSUME Typed, HubOK, [Next]_vars
    PROVE  HubOK'
<1>0. Types /\ \A c \in Conn : LinkOK(c)
  BY DEF Typed
<1>1. CASE UNCHANGED <<link, hub>>
  BY <1>1 DEF HubOK, ListedOf, Listed
<1>2. ASSUME NEW w \in Thread, Upgrade(w)
      PROVE  HubOK'
  <2>1. PICK c \in Conn : /\ link[c].phase = "free"
                          /\ link' = [link EXCEPT ![c] = [phase |-> "upgraded",
                                  user |-> job[w].from, token |-> job[w].token]]
    BY <1>2 DEF Upgrade
  <2>2. /\ \A b \in Conn \ {c} : link'[b] = link[b]
        /\ link'[c].phase = "upgraded" /\ hub' = hub
    BY <1>2, <2>1, UpgradeTyped DEF Upgrade
  <2>3. QED
    BY <2>1, <2>2 DEF HubOK, ListedOf, Listed
<1>3. ASSUME NEW c \in Conn, Keep(c) \/ Listen(c) \/ Lose(c) \/ Forget(c)
      PROVE  HubOK'
  <2>1. PICK from \in Phases, to \in Phases :
           /\ Phase(c, from, to) /\ hub' = hub
           /\ from \in {"listed", "open", "ended", "unkept"}
                  <=> to \in {"listed", "open", "ended", "unkept"}
    BY <1>3 DEF Keep, Listen, Lose, Forget, Phases
  <2>2. /\ \A b \in Conn \ {c} : link'[b] = link[b]
        /\ link[c].phase = from /\ link'[c].phase = to /\ link'[c].user = link[c].user
    BY <1>0, <2>1, PhaseTyped
  <2>3. QED
    BY <2>1, <2>2 DEF HubOK, ListedOf, Listed
<1>4. ASSUME NEW c \in Conn, Add(c)
      PROVE  HubOK'
  <2>1. /\ \A b \in Conn \ {c} : link'[b] = link[b]
        /\ link[c].phase = "kept" /\ link'[c].phase = "listed" /\ link'[c].user = link[c].user
    BY <1>0, <1>4, PhaseTyped DEF Add, Phases
  <2>2. link[c].user \in User /\ hub' = [hub EXCEPT ![link[c].user] = @ \cup {c}]
    BY <1>0, <1>4, <2>1 DEF LinkOK, Add
  <2>3. \A u \in User : hub'[u] = IF u = link[c].user THEN hub[u] \cup {c} ELSE hub[u]
    BY <1>0, <2>2 DEF Types
  <2>4. \A u \in User : ListedOf(u)' = IF u = link[c].user THEN ListedOf(u) \cup {c} ELSE ListedOf(u)
    BY <2>1 DEF ListedOf, Listed
  <2>5. QED
    BY <2>3, <2>4 DEF HubOK
<1>5. ASSUME NEW c \in Conn, Remove(c)
      PROVE  HubOK'
  <2>1. /\ \A b \in Conn \ {c} : link'[b] = link[b]
        /\ link[c].phase = "unkept" /\ link'[c].phase = "gone" /\ link'[c].user = link[c].user
    BY <1>0, <1>5, PhaseTyped DEF Remove, Phases
  <2>2. link[c].user \in User /\ hub' = [hub EXCEPT ![link[c].user] = @ \ {c}]
    BY <1>0, <1>5, <2>1 DEF LinkOK, Remove
  <2>3. \A u \in User : hub'[u] = IF u = link[c].user THEN hub[u] \ {c} ELSE hub[u]
    BY <1>0, <2>2 DEF Types
  <2>4. \A u \in User : ListedOf(u)' = IF u = link[c].user THEN ListedOf(u) \ {c} ELSE ListedOf(u)
    BY <2>1 DEF ListedOf, Listed
  <2>5. QED
    BY <2>3, <2>4 DEF HubOK
<1>6. QED
  BY <1>1, <1>2, <1>3, <1>4, <1>5, WhoConnects

\* Connections may come and go under a send that does not move.
LEMMA ReachStays ==
    ASSUME Typed, [Next]_vars, NEW a \in Actor, ReachOK(a), pc'[a] = pc[a], job'[a] = job[a]
    PROVE  ReachOK(a)'
<1>1. job[a].must \subseteq Conn /\ job[a].left \subseteq Conn /\ job[a].done \subseteq Conn
  BY DEF Typed, Types, Job
<1>2. ASSUME NEW c \in Conn, Past(c)
      PROVE  Past(c)' /\ link'[c].user = link[c].user /\ (c \in Listed' => c \in Listed)
  <2>1. link[c].phase # "free"
    BY <1>2 DEF Past
  <2>2. QED
    BY <1>2, <2>1, ConnectTyped DEF LinksGoOn
<1>3. QED
  BY <1>1, <1>2 DEF ReachOK

LEMMA ReachMoves ==
    ASSUME Typed, ReachInv, [Next]_vars, NEW a \in Actor, Acts(a)
    PROVE  ReachOK(a)'
<1>0. /\ pc \in [Actor -> Labels] /\ job \in [Actor -> Job] /\ ReachOK(a) /\ CallOK(a)
      /\ hub \in [User -> SUBSET Conn] /\ HubOK /\ NoJob.done = {}
  BY DEF Typed, Types, ReachInv, NoJob
<1>1. ASSUME pc'[a] \notin {"resolve", "push"}, job'[a].done = {}
      PROVE  ReachOK(a)'
  BY <1>1 DEF ReachOK
<1>2. ASSUME Return(a)
      PROVE  ReachOK(a)'
  BY <1>0, <1>1, <1>2 DEF Return, Goto
<1>3. ASSUME NEW u \in User, pc'[a] = "resolve", job'[a].must = ListedOf(u), job'[a].done = {},
             job'[a].call.to = u, link' = link
      PROVE  ReachOK(a)'
  BY <1>3 DEF ReachOK, Past, ListedOf, Listed
<1>4. ASSUME a \in Thread, NEW c \in Call, Begin(a, c)
      PROVE  ReachOK(a)'
  <2>1. pc'[a] = First(c) /\ First(c) \notin {"resolve", "push"}
    BY <1>0, <1>4, CallTyped DEF Begin, Goto, First
  <2>2. job'[a].done = {}
    BY <1>0, <1>4 DEF Begin, NoJob
  <2>3. QED
    BY <1>1, <2>1, <2>2
<1>5. CASE a \in Thread /\ Verify(a)
  <2>1. CASE Return(a)
    BY <1>2, <2>1
  <2>2. CASE ~Return(a)
    <3>1. PICK t \in Token : job' = [job EXCEPT ![a] = [job[a] EXCEPT !.token = t, !.now = clock]]
      BY <1>5, <2>2 DEF Verify
    <3>2. pc[a] = "verify" /\ pc'[a] = "store"
      BY <1>0, <1>5, <2>2 DEF Verify, Goto
    <3>3. job'[a].done = job[a].done
      BY <1>0, <3>1 DEF Job
    <3>4. QED
      BY <1>0, <1>1, <3>2, <3>3 DEF ReachOK
  <2>3. QED
    BY <2>1, <2>2
<1>6. CASE a \in Thread /\ (Store(a) \/ LoseCommit(a))
  <2>1. pc[a] = "store" /\ Deliver(a)
    BY <1>6 DEF Store, LoseCommit
  <2>2. CASE Return(a)
    BY <1>2, <2>2
  <2>3. CASE ~Return(a)
    <3>1. pc'[a] = "park" /\ job' = [job EXCEPT ![a] = [job[a] EXCEPT !.now = clock]]
      BY <1>0, <2>1, <2>3 DEF Deliver, Goto
    <3>2. job'[a].done = job[a].done
      BY <1>0, <3>1 DEF Job
    <3>3. QED
      BY <1>0, <1>1, <2>1, <3>1, <3>2 DEF ReachOK
  <2>4. QED
    BY <2>2, <2>3
<1>7. CASE a \in Thread /\ (Park(a) \/ Claim(a) \/ Revoke(a) \/ Upgrade(a))
  BY <1>2, <1>7 DEF Park, Claim, Revoke, Upgrade
<1>8. CASE a \in Thread /\ Select(a)
  <2>1. pc[a] = "select" /\ pc'[a] = "check"
    BY <1>0, <1>8 DEF Select, Goto
  <2>2. job'[a].done = job[a].done
    BY <1>0, <1>8 DEF Select, Job
  <2>3. QED
    BY <1>0, <1>1, <2>1, <2>2 DEF ReachOK
<1>9. CASE a \in Thread /\ Check(a)
  <2>0. pc[a] = "check" /\ job[a].done = {} /\ link' = link
    BY <1>0, <1>9 DEF Check, ReachOK
  <2>1. CASE ~Usable(job[a].row, clock)
    BY <1>2, <1>9, <2>1 DEF Check
  <2>2. CASE Usable(job[a].row, clock) /\ job[a].call.op = "call"
    <3>1. StartSend(a, job[a].row.user) /\ job[a].call.to \in User
      BY <1>0, <1>9, <2>0, <2>2, CallTyped DEF Check, CallOK
    <3>2. pc'[a] = "resolve"
      BY <1>0, <3>1 DEF StartSend, Goto
    <3>3. /\ job'[a].must = ListedOf(job[a].call.to) /\ job'[a].call = job[a].call
          /\ job'[a].done = job[a].done
      BY <1>0, <3>1 DEF StartSend, Job
    <3>4. QED
      BY <1>3, <2>0, <3>1, <3>2, <3>3
  <2>3. CASE Usable(job[a].row, clock) /\ job[a].call.op # "call"
    <3>1. pc'[a] = "upgrade"
      BY <1>0, <1>9, <2>3 DEF Check, Goto
    <3>2. job'[a].done = job[a].done
      BY <1>0, <1>9, <2>3 DEF Check, Job
    <3>3. QED
      BY <1>1, <2>0, <3>1, <3>2
  <2>4. QED
    BY <2>1, <2>2, <2>3
<1>10. ASSUME a \in Conn, NEW call \in Call, Signal(a, call)
       PROVE  ReachOK(a)'
  <2>1. pc'[a] = "resolve" /\ link' = link /\ call.to \in User
    BY <1>0, <1>10, CallTyped DEF Signal, Goto
  <2>2. job'[a].must = ListedOf(call.to) /\ job'[a].call = call /\ job'[a].done = {}
    BY <1>0, <1>10 DEF Signal, NoJob
  <2>3. QED
    BY <1>3, <2>1, <2>2
<1>11. CASE Resolve(a)
  <2>1. pc[a] = "resolve" /\ pc'[a] = "push" /\ link' = link /\ job[a].call.to \in User
    BY <1>0, <1>11 DEF Resolve, Goto, CallOK
  <2>2. /\ job'[a].left = hub[job[a].call.to] /\ job'[a].done = {}
        /\ job'[a].must = job[a].must /\ job'[a].call = job[a].call
    BY <1>0, <1>11, <2>1 DEF Resolve, Job, ReachOK
  <2>3. job'[a].left = ListedOf(job[a].call.to)
    BY <1>0, <2>1, <2>2 DEF HubOK
  <2>4. job[a].must \subseteq Conn
    BY <1>0 DEF Job
  <2>5. QED
    BY <1>0, <2>1, <2>2, <2>3, <2>4 DEF ReachOK, Past, ListedOf, Listed
<1>12. CASE Push(a)
  <2>1. CASE job[a].left = {}
    BY <1>2, <1>12, <2>1 DEF Push
  <2>2. CASE job[a].left # {}
    <3>1. pc[a] = "push" /\ pc'[a] = "push" /\ link' = link
      BY <1>0, <1>12, <2>2 DEF Push
    <3>2. PICK c \in job[a].left :
             job' = [job EXCEPT ![a].left = @ \ {c}, ![a].done = @ \cup {c}]
      BY <1>12, <2>2 DEF Push
    <3>3. /\ job'[a].left = job[a].left \ {c} /\ job'[a].done = job[a].done \cup {c}
          /\ job'[a].must = job[a].must /\ job'[a].call = job[a].call
      BY <1>0, <3>2 DEF Job
    <3>4. QED
      BY <1>0, <3>1, <3>3 DEF ReachOK, Past, Listed
  <2>3. QED
    BY <2>1, <2>2
<1>13. CASE Fault(a)
  BY <1>2, <1>13 DEF Fault
<1>14. QED
  BY <1>4, <1>5, <1>6, <1>7, <1>8, <1>9, <1>10, <1>11, <1>12, <1>13 DEF Acts, HttpStep

LEMMA ReachKept ==
    ASSUME Typed, ReachInv, [Next]_vars
    PROVE  ReachInv'
<1>1. ASSUME NEW a \in Actor
      PROVE  ReachOK(a)'
  <2>1. ReachOK(a)
    BY DEF ReachInv
  <2>2. CASE Passes
    BY <2>1, <2>2, PassesQuietly, ReachStays
  <2>3. ASSUME NEW b \in Actor, Acts(b)
        PROVE  ReachOK(a)'
    BY <2>1, <2>3, MoverAlone, ReachMoves, ReachStays
  <2>4. QED
    BY <2>2, <2>3, WhoMoves
<1>2. QED
  BY <1>1, HubKept DEF ReachInv
-----------------------------------------------------------------------------
(* Theorems *)

\* The inductive invariant: types, tokens on their way, sessions and what is known
\* of them, and the connections of each send.
IInv == Typed /\ FreshInv /\ AuthInv /\ ReachInv

LEMMA InitInv == Init => IInv
<1> SUFFICES ASSUME Init PROVE IInv
  OBVIOUS
<1>1. Typed
  BY InitTyped
<1>2. FreshInv
  BY DEF Init, FreshInv, Minted, Actor
<1>3. AuthInv
  <2>1. ASSUME NEW c \in Conn, link[c].phase # "free"
        PROVE  /\ sessions[link[c].token] # None
               /\ sessions[link[c].token].user = link[c].user
    <3>1. c \in DOMAIN Open /\ link[c].token = Open[c] /\ link[c].user = Owner[Open[c]]
      BY <2>1 DEF Init
    <3>2. Open[c] \in Token /\ Open[c] \in DOMAIN Owner /\ Owner[Open[c]] \in User
      BY <3>1, ConnectionsAssumption
    <3>3. sessions[Open[c]] = [user |-> Owner[Open[c]], expires |-> SessionTTL, revoked |-> FALSE]
      BY <3>2 DEF Init
    <3>4. sessions[Open[c]] \in Session
      BY <3>2, <3>3, ConnectionsAssumption DEF Session
    <3>5. sessions[Open[c]].user = Owner[Open[c]]
      BY <3>3
    <3>6. sessions[Open[c]] # None
      BY <3>4, ConnectionsAssumption
    <3>7. QED
      BY <3>1, <3>5, <3>6
  <2>2. QED
    BY <2>1 DEF Init, AuthInv, AuthOK
<1>4. ReachInv
  <2>1. HubOK
    BY ConnectionsAssumption DEF Init, HubOK, ListedOf, Listed
  <2>2. ASSUME NEW a \in Actor
        PROVE  ReachOK(a)
    BY DEF Init, ReachOK, NoJob
  <2>3. QED
    BY <2>1, <2>2 DEF ReachInv
<1>5. QED
  BY <1>1, <1>2, <1>3, <1>4 DEF IInv

\* Every step keeps the invariant.
THEOREM Invariant == Spec => []IInv
<1>1. IInv /\ [Next]_vars => IInv'
  BY TypedKept, FreshKept, AuthKept, ReachKept DEF IInv
<1>2. QED
  BY <1>1, InitInv, PTL DEF Spec

\* In every state of a run the variables have their types, and the hub lists the
\* connections between add and remove.
THEOREM TypeCorrect == Spec => []TypeOK
<1>1. IInv => TypeOK
  <2> SUFFICES ASSUME IInv PROVE TypeOK
    OBVIOUS
  <2>1. ASSUME NEW a \in Actor
        PROVE  /\ job[a].call \in OrNone(Call) /\ job[a].now \in 0..clock
               /\ job[a].left \cup job[a].done \cup job[a].must \subseteq Conn
    BY DEF IInv, Typed, Types, Job, CallOK
  <2>2. hub = [u \in User |-> ListedOf(u)]
    BY DEF IInv, ReachInv, HubOK, Typed, Types
  <2>3. QED
    BY <2>1, <2>2 DEF IInv, Typed, Types, LinkOK, Labels, TypeOK
<1>2. QED
  BY <1>1, Invariant, PTL

\* No request that came after the end of its session gets past authenticate, and
\* what is sent carries the user of the session it was let in with.
THEOREM LetInRightly == Spec => []OnlyTheSignedIn
<1>1. IInv => OnlyTheSignedIn
  BY DEF IInv, AuthInv, AuthOK, OnlyTheSignedIn, Actor
<1>2. QED
  BY <1>1, Invariant, PTL

\* When a send to a user ends, all their connections that were there throughout
\* have the frame, and no connection of anybody else.
THEOREM AllReached == Spec => []EveryDeviceReached
<1>1. IInv => EveryDeviceReached
  BY DEF IInv, ReachInv, ReachOK, EveryDeviceReached
<1>2. QED
  BY <1>1, Invariant, PTL

\* A token is handed out once, and a parked one is not lost while it is fresh.
THEOREM TokensHandedOver == Spec => HandedOver
<1>1. IInv /\ [Next]_vars =>
        [/\ \A s \in State : pending[s] # None /\ pending'[s] # pending[s] =>
                \/ pending'[s] = None /\ handed'[pending[s].token] = 1
                \/ pending'[s] # None /\ pending'[s].token # pending[s].token
                \/ clock - pending[s].at > PendingTTL
         /\ \A t \in Token : handed'[t] # handed[t] =>
                /\ handed[t] = 0
                /\ \E w \in Thread : \/ pc[w] = "store" /\ job[w].token = t
                                     \/ pc[w] = "claim" /\ Waits(job[w].call.state, t, job[w].now)]_vars
  BY HandedOverStep DEF IInv
<1>2. QED
  BY <1>1, Invariant, PTL DEF Spec, HandedOver
=============================================================================
