------------------------------- MODULE Contacts -------------------------------
(***************************************************************************)
(* The contact graph: ContactService over PgContactRepository, and the     *)
(* endpoints of ContactController that call it.                            *)
(*                                                                         *)
(* Every thread of the HTTP server serves one call at a time, and every    *)
(* SQL statement is a step.  Outside a transaction a statement commits by  *)
(* itself.  Inside one (accept, remove, block) what it wrote is kept in    *)
(* draft, invisible to the other threads, until the commit.  Postgres runs *)
(* at READ COMMITTED: a statement reads what is committed when it runs, an *)
(* INSERT ... ON CONFLICT waits for whoever holds its row, a DELETE or     *)
(* UPDATE only for the holder of a committed row that satisfies its WHERE. *)
(* Threads that wait for each other in a circle are a deadlock, which      *)
(* Postgres ends by aborting one of them.                                  *)
(*                                                                         *)
(* Left out: the rows of users (they are only added, before anything       *)
(* refers to them) and of palette_invites (module Conversations).          *)
(***************************************************************************)
EXTENDS Integers, Sequences, FiniteSets

CONSTANTS
    User,
    Thread,        \* threads of the HTTP server
    Call,          \* the calls clients make
    Start,         \* the contents of the two tables at the start
    None,
    TTL,           \* CONTACT_REQUEST_TTL_MS
    Cooldown,      \* DECLINE_COOLDOWN_MS
    RateWindow,    \* RATE_WINDOW_MS
    MaxPending,    \* MAX_PENDING_REQUESTS
    MaxDaily,      \* MAX_REQUESTS_PER_DAY
    MaxEvents      \* bound: calls made, instants passed and statements that
                   \* throw, all together

Pair    == {p \in User \X User : p[1] # p[2]}
Level   == {"imposter", "ally", "friend"}
Tier    == {"ally", "friend"}
Request == [created: Nat, declined: Nat \cup {None}]

Contact(a, b) == <<"contact", a, b>>
Asked(a, b)   == <<"request", a, b>>
ContactRow == {Contact(p[1], p[2]) : p \in Pair}
RequestRow == {Asked(p[1], p[2]) : p \in Pair}
Row == ContactRow \cup RequestRow

\* The contents of the two tables: a row that is not there is None.
AreTables(t) == /\ DOMAIN t = Row
                /\ \A r \in ContactRow : t[r] \in Level \cup {None}
                /\ \A r \in RequestRow : t[r] = None \/ t[r] \in Request

\* level is what setLevel is asked for; the other operations ignore it.
CallType == {c \in [op: {"request", "accept", "refuse", "setLevel", "remove"},
                    me: User, other: User, level: Level] : c.me # c.other}

ASSUME ContactsAssumption ==
    /\ Call \subseteq CallType
    /\ Start # {} /\ \A t \in Start : AreTables(t)
    /\ None \notin Level \cup {"asked", "unread"} /\ None \notin Request
    /\ None \notin Nat /\ None \notin Call
    /\ {TTL, Cooldown, RateWindow, MaxPending, MaxDaily, MaxEvents} \subseteq Nat

VARIABLES
    db,        \* contacts and contact_requests, as committed
    draft,     \* what each thread's open transaction has written
    clock,
    pc,        \* the statement each thread is at
    job,       \* the locals of its call
    view,      \* the level each device was last told
    consent,   \* history: <<a, b>> when a asked for b or accepted b, and neither
               \* broke it off since
    refused,   \* history: when b last declined a, for each <<a, b>>
    raced,     \* history: the users two calls in progress at once had to do with
    budget     \* how often the bounded events have happened

vars == <<db, draft, clock, pc, job, view, consent, refused, raced, budget>>
history == <<consent, refused, raced>>
-----------------------------------------------------------------------------
(* Threads and rows *)

\* had is history: what of consent a transaction still open has ended.
NoJob == [call |-> None, now |-> 0, tell |-> <<>>, had |-> {}]

Me(w)    == job[w].call.me
Other(w) == job[w].call.other
Op(w)    == job[w].call.op

CanCommunicate(a, b) == db[Contact(a, b)] \in Tier /\ db[Contact(b, a)] \in Tier

Live(request, now) == /\ request # None
                      /\ request.declined = None
                      /\ now - request.created < TTL

PendingFrom(a) == {b \in User \ {a} : Live(db[Asked(a, b)], clock)}

\* Users and threads can be counted, and at the start nobody has more requests
\* waiting than the limit.
ASSUME LimitAssumption ==
    /\ IsFiniteSet(User) /\ IsFiniteSet(Thread)
    /\ \A t \in Start, a \in User :
           Cardinality({b \in User \ {a} : Live(t[Asked(a, b)], 0)}) <= MaxPending

Goto(w, label) == pc' = [pc EXCEPT ![w] = label]

\* The call returns; a transaction still open rolls back.
Return(w) ==
    /\ Goto(w, "idle")
    /\ job' = [job EXCEPT ![w] = NoJob]
    /\ draft' = [draft EXCEPT ![w] = <<>>]

\* The two requests and the two contact rows of the call's pair.
Requests(w) == {Asked(Me(w), Other(w)), Asked(Other(w), Me(w))}
Contacts(w) == {Contact(Me(w), Other(w)), Contact(Other(w), Me(w))}

\* The rows the statement a thread is at writes to.
Targets(w) ==
    CASE pc[w] = "take"     -> {r \in {Asked(Other(w), Me(w))} : Live(db[r], job[w].now)}
      [] pc[w] = "allyFrom" -> {Contact(Other(w), Me(w))}
      [] pc[w] = "allyTo"   -> {Contact(Me(w), Other(w))}
      [] pc[w] = "put"      -> {Asked(Me(w), Other(w))}
      [] pc[w] = "decline"  -> {r \in {Asked(Other(w), Me(w))} : Live(db[r], job[w].now)}
      [] pc[w] = "withdraw" -> {r \in {Asked(Me(w), Other(w))} : db[r] # None}
      [] pc[w] = "imposter" -> {Contact(Me(w), Other(w))}
      [] pc[w] = "unrow"    -> {r \in {Contact(Other(w), Me(w))} : db[r] # None}
      [] pc[w] = "requests" -> {r \in Requests(w) : db[r] # None}
      [] pc[w] = "rows"     -> {r \in Contacts(w) : db[r] \in Tier}
      [] pc[w] = "unblock"  -> {r \in {Contact(Me(w), Other(w))} : db[r] = "imposter"}
      [] pc[w] = "tier"     -> {r \in {Contact(Me(w), Other(w))} : db[r] \in Tier}
      [] OTHER              -> {}

WaitsFor(w) == {v \in Thread \ {w} : Targets(w) \cap DOMAIN draft[v] # {}}

\* w is among threads each of which waits for another of them, and is waited for.
Deadlocked(w) ==
    \E S \in SUBSET {v \in Thread : draft[v] # <<>>} :
        /\ w \in S
        /\ \A v \in S : WaitsFor(v) \cap S # {} /\ \E u \in S : v \in WaitsFor(u)

\* A statement of its own: what it writes is committed at once.
Execute(w, value) ==
    /\ WaitsFor(w) = {}
    /\ db' = [r \in Row |-> IF r \in Targets(w) THEN value ELSE db[r]]

\* A statement of a transaction.
Stage(w, rows, value) ==
    /\ WaitsFor(w) = {}
    /\ draft' = [draft EXCEPT ![w] =
           [r \in DOMAIN @ \cup rows |-> IF r \in rows THEN value ELSE @[r]]]

Bounded == {"calls", "instants", "faults"}
Spend(what) == /\ budget["calls"] + budget["instants"] + budget["faults"] < MaxEvents
               /\ budget' = [budget EXCEPT ![what] = @ + 1]

Init ==
    /\ db \in Start
    /\ draft = [w \in Thread |-> <<>>]
    /\ clock = 0
    /\ pc = [w \in Thread |-> "idle"]
    /\ job = [w \in Thread |-> NoJob]
    /\ view = [r \in ContactRow |-> db[r]]
    /\ consent = {p \in Pair : \/ db[Contact(p[1], p[2])] \in Tier
                               \/ db[Asked(p[1], p[2])] # None}
    /\ refused = [p \in Pair |-> IF db[Asked(p[1], p[2])] = None THEN None
                                 ELSE db[Asked(p[1], p[2])].declined]
    /\ raced = {}
    /\ budget = [event \in Bounded |-> 0]
-----------------------------------------------------------------------------
(* ContactService::request *)

First(c) == CASE c.op = "request"  -> "mine"
              [] c.op = "accept"   -> "take"
              [] c.op = "refuse"   -> "decline"
              [] c.op = "setLevel" -> IF c.level = "imposter" THEN "imposter" ELSE "tier"
              [] c.op = "remove"   -> "level"

\* An endpoint calls the service; every operation reads the clock as it starts.
Begin(w, c) ==
    /\ pc[w] = "idle"
    /\ Spend("calls")
    /\ Goto(w, First(c))
    /\ job' = [job EXCEPT ![w] = [NoJob EXCEPT !.call = c, !.now = clock]]
    /\ raced' = raced \cup {u \in {c.me, c.other} :
                               \E v \in Thread : pc[v] # "idle" /\ u \in {Me(v), Other(v)}}
    /\ UNCHANGED <<db, draft, clock, view, consent, refused>>

\* A read that either answers the call or lets it go on.
Check(w, label, answered, next) ==
    /\ pc[w] = label
    /\ IF answered THEN Return(w)
       ELSE Goto(w, next) /\ UNCHANGED <<job, draft>>
    /\ UNCHANGED <<db, clock, view, history, budget>>

CheckMine(w) == Check(w, "mine", db[Contact(Me(w), Other(w))] = "imposter", "both")

CheckBoth(w) == Check(w, "both", CanCommunicate(Me(w), Other(w)), "pending")

\* mutant: one request too many.
CheckPendingLate(w) ==
    Check(w, "pending", Cardinality(PendingFrom(Me(w))) > MaxPending, "daily")

CheckPending(w) ==
    Check(w, "pending", Cardinality(PendingFrom(Me(w))) >= MaxPending, "daily")

\* Rows that were withdrawn or accepted since are no longer there to be counted.
CreatedSince(a, now) == {b \in User \ {a} : /\ db[Asked(a, b)] # None
                                            /\ now - db[Asked(a, b)].created < RateWindow}

CheckDaily(w) ==
    Check(w, "daily", Cardinality(CreatedSince(Me(w), job[w].now)) >= MaxDaily, "blocked")

CheckBlocked(w) ==
    Check(w, "blocked", db[Contact(Other(w), Me(w))] = "imposter", "theirs")

\* A request of theirs that is waiting is accepted instead of sending ours.
ReadTheirs(w) ==
    /\ pc[w] = "theirs"
    /\ Goto(w, IF Live(db[Asked(Other(w), Me(w))], job[w].now) THEN "take" ELSE "ours")
    /\ UNCHANGED <<db, draft, clock, job, view, history, budget>>

\* Our own request is waiting, or was declined a short while ago.
Standing(request, now) ==
    /\ request # None
    /\ IF request.declined = None THEN now - request.created < TTL
                                  ELSE now - request.declined < Cooldown

ReadOurs(w) ==
    Check(w, "ours", Standing(db[Asked(Me(w), Other(w))], job[w].now), "put")

\* An event for one user: the level of its own row, still to be read if "unread".
News(to, about, level) == [to |-> to, about |-> about, level |-> level]

Tell(w, news) == job' = [job EXCEPT ![w].tell = news]

Put(w) ==
    /\ pc[w] = "put"
    /\ Execute(w, [created |-> job[w].now, declined |-> None])
    /\ Goto(w, "tell") /\ Tell(w, <<News(Other(w), Me(w), "asked")>>)
    /\ consent' = consent \cup {<<Me(w), Other(w)>>}
    /\ UNCHANGED <<draft, clock, view, refused, raced, budget>>
-----------------------------------------------------------------------------
(* PgContactRepository::accept, called by accept and by request *)

Take(w) ==
    /\ pc[w] = "take"
    /\ IF Targets(w) # {}
       THEN Stage(w, Targets(w), None) /\ Goto(w, "allyFrom") /\ UNCHANGED job
       ELSE IF Op(w) = "request" THEN Goto(w, "ours") /\ UNCHANGED <<draft, job>>
       ELSE Return(w)
    /\ UNCHANGED <<db, clock, view, history, budget>>

\* mutant: accepting writes the row whatever it says.
InsertAllyAlways(w) ==
    /\ Stage(w, Targets(w), "ally")
    /\ Goto(w, IF pc[w] = "allyFrom" THEN "allyTo" ELSE "commit")

\* insertAllyIfAbsent: a row that is there is left alone, and not locked.
InsertAlly(w) ==
    /\ Stage(w, {r \in Targets(w) : db[r] = None}, "ally")
    /\ Goto(w, IF pc[w] = "allyFrom" THEN "allyTo" ELSE "commit")

WriteAllies(w) ==
    /\ pc[w] \in {"allyFrom", "allyTo"}
    /\ InsertAlly(w)
    /\ UNCHANGED <<db, clock, job, view, history, budget>>

\* mutant: only the caller's devices hear of a block or a removal.
NewsOfCaller(w) ==
    CASE Op(w) \in {"accept", "request"} ->
           <<News(Me(w), Other(w), "unread"), News(Other(w), Me(w), "unread")>>
      [] Op(w) = "setLevel" -> <<News(Me(w), Other(w), "imposter")>>
      [] Op(w) = "remove" -> <<News(Me(w), Other(w), None)>>

\* What the three transactions publish, and to whom first.
NewsOf(w) ==
    CASE Op(w) \in {"accept", "request"} ->
           <<News(Me(w), Other(w), "unread"), News(Other(w), Me(w), "unread")>>
      [] Op(w) = "setLevel" ->
           <<News(Me(w), Other(w), "imposter"), News(Other(w), Me(w), None)>>
      [] Op(w) = "remove" ->
           <<News(Me(w), Other(w), None), News(Other(w), Me(w), None)>>

Commit(w) ==
    /\ pc[w] = "commit"
    /\ db' = [r \in Row |-> IF r \in DOMAIN draft[w] THEN draft[w][r] ELSE db[r]]
    /\ draft' = [draft EXCEPT ![w] = <<>>]
    /\ Goto(w, "tell") /\ Tell(w, NewsOf(w))
    /\ consent' = IF Op(w) \in {"accept", "request"}
                  THEN consent \cup {<<Me(w), Other(w)>>} ELSE consent
    /\ UNCHANGED <<clock, view, refused, raced, budget>>
-----------------------------------------------------------------------------
(* declineOrWithdraw, setLevel, removeOrUnblock *)

Decline(w) ==
    /\ pc[w] = "decline"
    /\ WaitsFor(w) = {}
    /\ db' = [r \in Row |-> IF r \in Targets(w) THEN [db[r] EXCEPT !.declined = job[w].now]
                                                ELSE db[r]]
    /\ refused' = IF Targets(w) = {} THEN refused
                  ELSE [refused EXCEPT ![<<Other(w), Me(w)>>] = job[w].now]
    /\ Goto(w, "withdraw")
    /\ UNCHANGED <<draft, clock, job, view, consent, raced, budget>>

Withdraw(w) ==
    /\ pc[w] = "withdraw"
    /\ Execute(w, None)
    /\ consent' = IF Targets(w) = {} \/ CanCommunicate(Me(w), Other(w)) THEN consent
                  ELSE consent \ {<<Me(w), Other(w)>>}
    /\ Return(w)
    /\ UNCHANGED <<clock, view, refused, raced, budget>>

\* block: the owner's row, then the other's, then the requests between them.
WriteImposter(w) ==
    /\ pc[w] = "imposter"
    /\ Stage(w, Targets(w), "imposter")
    /\ Goto(w, "unrow")
    /\ UNCHANGED <<db, clock, job, view, history, budget>>

DeleteOtherRow(w) ==
    /\ pc[w] = "unrow"
    /\ Stage(w, Targets(w), None)
    /\ Goto(w, "requests")
    /\ UNCHANGED <<db, clock, job, view, history, budget>>

\* remove: both rows where they are ally or friend, then the requests.
DeleteConnected(w) ==
    /\ pc[w] = "rows"
    /\ IF Targets(w) = {} THEN Return(w)
       ELSE Stage(w, Targets(w), None) /\ Goto(w, "requests") /\ UNCHANGED job
    /\ UNCHANGED <<db, clock, view, history, budget>>

\* What either said before, and not what they say from now on.
EndConsent(w) ==
    LET both == {<<Me(w), Other(w)>>, <<Other(w), Me(w)>>} IN
    /\ consent' = consent \ both
    /\ job' = [job EXCEPT ![w].had = consent \cap both]

\* mutant: a removal leaves the requests between the two.
DeleteRequestsOfBlock(w) ==
    /\ pc[w] = "requests"
    /\ Stage(w, IF Op(w) = "remove" THEN {} ELSE Targets(w), None)
    /\ Goto(w, "commit")
    /\ EndConsent(w)
    /\ UNCHANGED <<db, clock, view, refused, raced, budget>>

\* deleteRequestsBetween, the last statement of remove and of block before the
\* invitations go as well.
DeleteRequests(w) ==
    /\ pc[w] = "requests"
    /\ Stage(w, Targets(w), None)
    /\ Goto(w, "commit")
    /\ EndConsent(w)
    /\ UNCHANGED <<db, clock, view, refused, raced, budget>>

SetTier(w) ==
    /\ pc[w] = "tier"
    /\ Execute(w, job[w].call.level)
    /\ IF Targets(w) = {} THEN Return(w)
       ELSE /\ Goto(w, "tell") /\ UNCHANGED draft
            /\ Tell(w, <<News(Me(w), Other(w), job[w].call.level)>>)
    /\ UNCHANGED <<clock, view, history, budget>>

\* removeOrUnblock reads the caller's row and takes one of two ways.
ReadLevel(w) ==
    /\ pc[w] = "level"
    /\ LET level == db[Contact(Me(w), Other(w))] IN
       IF level = None THEN Return(w)
       ELSE Goto(w, IF level = "imposter" THEN "unblock" ELSE "rows") /\ UNCHANGED <<draft, job>>
    /\ UNCHANGED <<db, clock, view, history, budget>>

Unblock(w) ==
    /\ pc[w] = "unblock"
    /\ Execute(w, None)
    /\ IF Targets(w) = {} THEN Return(w)
       ELSE /\ Goto(w, "tell") /\ UNCHANGED draft
            /\ Tell(w, <<News(Me(w), Other(w), None)>>)
    /\ UNCHANGED <<clock, view, history, budget>>
-----------------------------------------------------------------------------
(* Events, faults, time *)

\* publishPair reads each row just before it tells its owner.
Look(w) ==
    /\ pc[w] = "tell" /\ Head(job[w].tell).level = "unread"
    /\ LET news == Head(job[w].tell) IN
       job' = [job EXCEPT ![w].tell[1].level = db[Contact(news.to, news.about)]]
    /\ UNCHANGED <<db, draft, clock, pc, view, history, budget>>

Publish(w) ==
    /\ pc[w] = "tell" /\ Head(job[w].tell).level # "unread"
    /\ LET news == Head(job[w].tell) IN
       view' = IF news.level = "asked" THEN view
               ELSE [view EXCEPT ![Contact(news.to, news.about)] = news.level]
    /\ IF Len(job[w].tell) = 1 THEN Return(w)
       ELSE Tell(w, Tail(job[w].tell)) /\ UNCHANGED <<pc, draft>>
    /\ UNCHANGED <<db, clock, history, budget>>

\* mutant: the transaction of a failed statement stays open.
AbortOpen(w) ==
    /\ Goto(w, "idle")
    /\ job' = [job EXCEPT ![w] = NoJob]
    /\ UNCHANGED <<draft, db, clock, view, history>>

\* A statement throws: the transaction is rolled back and the call fails.
Abort(w) ==
    /\ Return(w)
    /\ consent' = IF pc[w] = "commit" THEN consent \cup job[w].had ELSE consent
    /\ UNCHANGED <<db, clock, view, refused, raced>>

\* Postgres ends a deadlock.
BreakDeadlock(w) == Deadlocked(w) /\ Abort(w) /\ UNCHANGED budget

Fault(w) ==
    /\ pc[w] # "idle"
    /\ Spend("faults")
    /\ Abort(w)

\* A COMMIT that fails does not throw: its result is not looked at, and the call
\* goes on as if the rows had been written.
LoseCommit(w) ==
    /\ pc[w] = "commit"
    /\ Spend("faults")
    /\ draft' = [draft EXCEPT ![w] = <<>>]
    /\ consent' = consent \cup job[w].had
    /\ Goto(w, "tell") /\ Tell(w, NewsOf(w))
    /\ UNCHANGED <<db, clock, view, refused, raced>>

Tick ==
    /\ Spend("instants")
    /\ clock' = clock + 1
    /\ UNCHANGED <<db, draft, pc, job, view, history>>

RequestStep(w) == \/ CheckMine(w) \/ CheckBoth(w) \/ CheckPending(w) \/ CheckDaily(w)
                  \/ CheckBlocked(w) \/ ReadTheirs(w) \/ ReadOurs(w) \/ Put(w)
AcceptStep(w)  == Take(w) \/ WriteAllies(w) \/ Commit(w)
RefuseStep(w)  == Decline(w) \/ Withdraw(w)
LevelStep(w)   == WriteImposter(w) \/ DeleteOtherRow(w) \/ DeleteRequests(w) \/ SetTier(w)
RemoveStep(w)  == ReadLevel(w) \/ Unblock(w) \/ DeleteConnected(w)

\* What a thread does until its call is answered.
Step(w) == \/ RequestStep(w) \/ AcceptStep(w) \/ RefuseStep(w) \/ LevelStep(w)
           \/ RemoveStep(w) \/ Look(w) \/ Publish(w) \/ BreakDeadlock(w)

Next == \/ \E w \in Thread : \/ \E c \in Call : Begin(w, c)
                             \/ Step(w)
                             \/ Fault(w)
                             \/ LoseCommit(w)
        \/ Tick

Spec == Init /\ [][Next]_vars

\* Threads of the server run, and Postgres ends deadlocks; clients need not call.
FairSpec == Spec /\ \A w \in Thread : WF_vars(Step(w))
-----------------------------------------------------------------------------
(* Properties *)

\* Every variable has its type: in particular a draft holds rows only while a
\* transaction is open.
TypeOK ==
    /\ AreTables(db)
    /\ \A w \in Thread : /\ DOMAIN draft[w] \subseteq Row
                          /\ draft[w] # <<>> => pc[w] \in {"allyFrom", "allyTo", "unrow",
                                                          "requests", "commit"}
    /\ clock \in Nat
    /\ pc \in [Thread -> {"idle", "mine", "both", "pending", "daily", "blocked", "theirs",
                          "ours", "put", "take", "allyFrom", "allyTo", "commit", "decline",
                          "withdraw", "imposter", "unrow", "requests", "rows", "level",
                          "unblock", "tier", "tell"}]
    /\ \A w \in Thread : /\ job[w].call \in Call \cup {None} /\ job[w].now \in 0..clock
                          /\ pc[w] = "idle" <=> job[w] = NoJob
    /\ view \in [ContactRow -> Level \cup {None}]
    /\ consent \subseteq Pair
    /\ refused \in [Pair -> Nat \cup {None}]
    /\ raced \subseteq User
    /\ budget \in [Bounded -> Nat]

\* Two people can talk only while both want to: each has asked for the other or
\* accepted the other, and neither has taken that back, removed or blocked the
\* other since, however requests, answers, blocks and removals interleave
\* (accept, remove and block meet on the row of the request).
Consent ==
    \A p \in Pair :
        CanCommunicate(p[1], p[2]) =>
            \/ p \in consent
            \/ \E w \in Thread : /\ pc[w] = "commit" /\ Op(w) \in {"setLevel", "remove"}
                                 /\ {Me(w), Other(w)} = {p[1], p[2]}

\* A row belongs to its owner: nobody else changes its level, a block above all
\* (an acceptance that was under way leaves both tiers and blocks alone), and a
\* block goes only when its owner lifts it or the other blocks in turn.
RowsBelongToOwners ==
    [][\A p \in Pair :
         LET row == Contact(p[1], p[2])
             Does(a, op) == \E w \in Thread : /\ pc'[w] # pc[w] /\ pc[w] # "idle" /\ Op(w) = op
                                              /\ Me(w) = a /\ {Me(w), Other(w)} = {p[1], p[2]}
         IN /\ db[row] # None /\ db'[row] \notin {db[row], None} => Does(p[1], "setLevel")
            /\ db[row] = "imposter" /\ db'[row] = None => \/ Does(p[1], "remove")
                                                         \/ Does(p[2], "setLevel")]_vars

\* Nobody has more requests waiting than the limit.  It is checked some
\* statements before the request is stored, so calls that run together may pass
\* it together, and no more of them than there are threads.
PendingBounded ==
    \A a \in User : \/ Cardinality(PendingFrom(a)) <= MaxPending
                    \/ /\ a \in raced
                       /\ Cardinality(PendingFrom(a)) < MaxPending + Cardinality(Thread)

\* As long as no two calls that concern them overlap and nothing fails, what two
\* people were last told of each other is what their own rows say once the calls
\* are answered.
ToldTruly ==
    (budget.faults = 0 /\ \A w \in Thread : pc[w] = "idle") =>
        \A p \in Pair : \/ {p[1], p[2]} \subseteq raced
                        \/ view[Contact(p[1], p[2])] = db[Contact(p[1], p[2])]

\* Every call is answered: statements wait only for rows of transactions that
\* go on, and a circle of waits is broken.
EveryCallAnswered == \A w \in Thread : pc[w] # "idle" ~> pc[w] = "idle"

\* 0001_init.sql:129, of contacts: "Ally-ness itself stays mutual because
\* accepting a request writes both rows."
AlliesAreMutual ==
    \A p \in Pair : db[Contact(p[1], p[2])] \in Tier => db[Contact(p[2], p[1])] \in Tier

\* 0001_init.sql:148, of contact_requests: a declined request is kept "as a 7-day
\* cooldown marker" and "a fresh request is silently dropped while the marker is
\* young".
RefusalHolds ==
    [][\A p \in Pair :
         LET row == Asked(p[1], p[2])
         IN db'[row] # db[row] /\ db'[row] # None /\ refused[p] # None =>
                \/ db'[row].declined # None
                \/ db'[row].created - refused[p] >= Cooldown]_vars
=============================================================================
