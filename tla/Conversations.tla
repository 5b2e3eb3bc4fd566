---------------------------- MODULE Conversations ----------------------------
(***************************************************************************)
(* Creating dms and palettes, and inviting into palettes:                  *)
(* ConversationService over PgConversationRepository, and the endpoints of *)
(* ConversationController that call it.                                    *)
(*                                                                         *)
(* As in module Contacts a thread serves one call at a time and every SQL  *)
(* statement is a step.  held[w] are the rows the open transaction of w    *)
(* has inserted or deleted; another statement that needs one of them waits *)
(* for the commit, which is when the change becomes visible.  A new        *)
(* palette takes no such row: nobody else knows its id, so its transaction *)
(* is one step.                                                            *)
(*                                                                         *)
(* The contact graph is an environment here: a parting is what remove and  *)
(* block of module Contacts do to a pair.  Its transaction deletes the     *)
(* invitations between the two in one statement and commits in another.    *)
(***************************************************************************)
EXTENDS Integers, Sequences, FiniteSets

CONSTANTS
    User,
    Thread,      \* threads of the HTTP server
    Call,        \* the calls clients make
    Friends,     \* the pairs that may communicate at the start
    Palettes,    \* [1..n -> SUBSET User]: the palettes at the start, with members
    Inviter,     \* who has invited everybody else to each of them
    None,
    TTL,         \* PALETTE_INVITE_TTL_MS
    Cooldown,    \* DECLINE_COOLDOWN_MS
    MaxEvents    \* bound: calls, partings, instants and statements that throw,
                 \* all together

Conv == 1..(Len(Palettes) + MaxEvents)     \* ids: a call draws one at most
Pair == {{u, v} : u, v \in User} \ {{u} : u \in User}

\* timing is history: the invitation was stored before a parting of the two had
\* deleted any; or later, by a call that began before the parting committed; or
\* by a call that began after that.
Invitation == [by: User, created: Nat, declined: Nat \cup {None},
               timing: {"before", "across", "after"}]

\* who: the peer of a dm, the invitees of a palette or of an invitation.
CallType == [op: {"dm", "palette", "invite", "accept", "decline"},
             me: User, who: SUBSET User, conv: Conv \cup {None}]

ASSUME ConversationsAssumption ==
    /\ {TTL, Cooldown, MaxEvents} \subseteq Nat
    /\ Palettes \in Seq(SUBSET User)
    /\ Inviter \in [DOMAIN Palettes -> User]
    /\ Call \subseteq CallType
    /\ \A c \in Call : /\ c.me \notin c.who
                       /\ c.op \in {"dm", "invite"} => Cardinality(c.who) = 1
                       /\ c.op \in {"accept", "decline"} => c.who = {}
                       /\ c.op \in {"invite", "accept", "decline"} => c.conv \in Conv
    /\ Friends \subseteq Pair
    /\ None \notin User \cup Nat \cup Call \cup {"dm", "palette"} /\ None \notin Invitation

\* Who was invited before the start is an ally of the inviter still: inviting takes
\* canCommunicate, and remove and block delete the invitations between the two.
ASSUME InviterAssumption ==
    \A i \in DOMAIN Palettes : \A u \in User \ Palettes[i] : {u, Inviter[i]} \in Friends

VARIABLES
    kind,       \* conversations: what each id is, None if there is no such row
    members,    \* chat and members: who is in it
    invites,    \* palette_invites
    nextId,     \* the identity sequence of conversations
    allied,     \* the pairs for which canCommunicate holds
    held,       \* the rows of each thread's open transaction
    parting,    \* the pairs whose parting is between its DELETE and its COMMIT
    doomed,     \* the invitations it has deleted, which others still see
    clock,
    pc,
    job,        \* the locals of each thread's call
    seen,       \* the members each user was last told each conversation has
    firsts,     \* history: how often a dm was reported as created
    overtaken,  \* history: who joined a conversation while an earlier list of its
                \* members was still being told
    budget

vars == <<kind, members, invites, nextId, allied, held, parting, doomed, clock, pc, job,
          seen, firsts, overtaken, budget>>
tables == <<kind, members, invites, nextId>>
shown == <<seen, firsts, overtaken>>
partings == <<allied, parting, doomed>>
world == <<partings, clock, budget>>
-----------------------------------------------------------------------------
(* Rows and calls *)

\* was is history: the pairs that might communicate when the call began.
NoJob == [call |-> None, now |-> 0, todo |-> {}, one |-> None, id |-> None,
          created |-> FALSE, view |-> {}, was |-> {}]

Me(w) == job[w].call.me
Op(w) == job[w].call.op

\* The conversation a call is about: the one it names, or the one it found or made.
Id(w) == IF job[w].id = None THEN job[w].call.conv ELSE job[w].id

DmsOf(pair) == {i \in Conv : kind[i] = "dm" /\ members[i] = pair}
DmPair(w) == {Me(w)} \cup job[w].call.who

Pending(i, u, now) == /\ invites[i][u] # None
                      /\ invites[i][u].declined = None
                      /\ now - invites[i][u].created < TTL

ChatRow(pair) == <<"chat", pair>>
InviteRow(i, u) == <<"invite", i, u>>

Free(w, row) == /\ \A v \in Thread \ {w} : row \notin held[v]
                /\ \A p \in Pair : row \notin doomed[p]

Goto(w, label) == pc' = [pc EXCEPT ![w] = label]

\* The call returns; a transaction still open rolls back.
Return(w) ==
    /\ Goto(w, "idle")
    /\ job' = [job EXCEPT ![w] = NoJob]
    /\ held' = [held EXCEPT ![w] = {}]

Bounded == {"calls", "partings", "instants", "faults"}
Spend(what) ==
    /\ budget["calls"] + budget["partings"] + budget["instants"] + budget["faults"] < MaxEvents
    /\ budget' = [budget EXCEPT ![what] = @ + 1]

Init ==
    /\ kind = [i \in Conv |-> IF i \in DOMAIN Palettes THEN "palette" ELSE None]
    /\ members = [i \in Conv |-> IF i \in DOMAIN Palettes THEN Palettes[i] ELSE {}]
    /\ invites = [i \in Conv |-> [u \in User |->
           IF i \notin DOMAIN Palettes \/ u \in Palettes[i] THEN None
           ELSE [by |-> Inviter[i], created |-> 0, declined |-> None, timing |-> "before"]]]
    /\ nextId = Len(Palettes) + 1
    /\ allied = Friends
    /\ held = [w \in Thread |-> {}]
    /\ parting = {}
    /\ doomed = [p \in Pair |-> {}]
    /\ clock = 0
    /\ pc = [w \in Thread |-> "idle"]
    /\ job = [w \in Thread |-> NoJob]
    /\ seen = [i \in Conv |-> [u \in User |-> IF u \in members[i] THEN members[i] ELSE {}]]
    /\ firsts = [i \in Conv |-> 0]
    /\ overtaken = [i \in Conv |-> {}]
    /\ budget = [event \in Bounded |-> 0]
-----------------------------------------------------------------------------
(* The checks before anything is written *)

First(c) == CASE c.op = "dm" -> "ally"
              [] c.op = "palette" -> IF c.who = {} THEN "clock" ELSE "ally"
              [] c.op = "invite"  -> "palette"
              [] c.op = "accept"  -> "take"
              [] c.op = "decline" -> "decline"

\* accept and decline read the clock as they start, the others after their checks.
Begin(w, c) ==
    /\ pc[w] = "idle"
    /\ Spend("calls")
    /\ Goto(w, First(c))
    /\ job' = [job EXCEPT ![w] =
           [NoJob EXCEPT !.call = c, !.todo = c.who, !.was = allied,
                         !.now = IF c.op \in {"accept", "decline"} THEN clock ELSE 0]]
    /\ UNCHANGED <<tables, held, shown, partings, clock>>

\* invite: there is such a palette and the caller is in it.
CheckPalette(w) ==
    /\ pc[w] = "palette"
    /\ IF kind[Id(w)] = "palette" /\ Me(w) \in members[Id(w)]
       THEN Goto(w, "ally") /\ UNCHANGED <<job, held>> ELSE Return(w)
    /\ UNCHANGED <<tables, shown, world>>

\* canCommunicate, one statement for each invitee, before the first row is written.
CheckAllies(w) ==
    /\ pc[w] = "ally"
    /\ \E u \in job[w].todo :
           IF {Me(w), u} \notin allied THEN Return(w)
           ELSE /\ UNCHANGED held
                /\ IF job[w].todo = {u}
                   THEN /\ job' = [job EXCEPT ![w].todo = IF Op(w) = "dm" THEN {} ELSE job[w].call.who]
                        /\ Goto(w, CASE Op(w) = "dm" -> "find"
                                     [] OTHER -> "clock")
                   ELSE job' = [job EXCEPT ![w].todo = job[w].todo \ {u}] /\ UNCHANGED pc
    /\ UNCHANGED <<tables, shown, world>>

\* nowEpochMs, for the times of the palette and of its invitations.
ReadClock(w) ==
    /\ pc[w] = "clock"
    /\ job' = [job EXCEPT ![w].now = clock]
    /\ Goto(w, IF Op(w) = "palette" THEN "create" ELSE "member")
    /\ UNCHANGED <<tables, held, shown, world>>
-----------------------------------------------------------------------------
(* createDm and getOrCreateDm *)

\* The first attempt, and the second after the insert failed.
FindDm(w) ==
    /\ pc[w] \in {"find", "again"}
    /\ LET dms == DmsOf(DmPair(w)) IN
       IF dms # {} THEN /\ \E i \in dms : job' = [job EXCEPT ![w].id = i]
                        /\ Goto(w, "view") /\ UNCHANGED held
       ELSE IF pc[w] = "find" THEN Goto(w, "conversation") /\ UNCHANGED <<job, held>>
       ELSE Return(w)
    /\ UNCHANGED <<tables, shown, world>>

\* The id is drawn and is lost if the transaction rolls back.
InsertConversation(w) ==
    /\ pc[w] = "conversation" /\ nextId \in Conv
    /\ job' = [job EXCEPT ![w].id = nextId]
    /\ nextId' = nextId + 1
    /\ Goto(w, "chat")
    /\ UNCHANGED <<kind, members, invites, held, shown, world>>

\* mutant: no row of the other transaction is looked at.
InsertChatTwice(w) ==
    /\ pc[w] = "chat"
    /\ Goto(w, "commit")
    /\ UNCHANGED <<tables, job, held, shown, world>>

\* UNIQUE (member_a, member_b): the insert waits for another one of the pair, and
\* fails if that committed.  The transaction rolls back before the second look.
InsertChat(w) ==
    /\ pc[w] = "chat"
    /\ Free(w, ChatRow(DmPair(w)))
    /\ IF DmsOf(DmPair(w)) = {}
       THEN /\ held' = [held EXCEPT ![w] = {ChatRow(DmPair(w))}]
            /\ Goto(w, "commit") /\ UNCHANGED job
       ELSE job' = [job EXCEPT ![w].id = None] /\ Goto(w, "again") /\ UNCHANGED held
    /\ UNCHANGED <<tables, shown, world>>
-----------------------------------------------------------------------------
(* createPalette, and PgConversationRepository::invite *)

CreatePalette(w) ==
    /\ pc[w] = "create" /\ nextId \in Conv
    /\ kind' = [kind EXCEPT ![nextId] = "palette"]
    /\ members' = [members EXCEPT ![nextId] = {Me(w)}]
    /\ nextId' = nextId + 1
    /\ job' = [job EXCEPT ![w].id = nextId]
    /\ Goto(w, IF job[w].call.who = {} THEN "view" ELSE "member")
    /\ UNCHANGED <<invites, held, shown, world>>

\* On to the next invitee, or to the answer.
NextInvitee(w, created) ==
    LET left == job[w].todo \ {job[w].one} IN
    /\ job' = [job EXCEPT ![w].todo = left, ![w].created = created]
    /\ Goto(w, IF left = {} THEN "view" ELSE "member")

CheckMember(w) ==
    /\ pc[w] = "member"
    /\ \E u \in job[w].todo :
           IF u \in members[Id(w)]
           THEN /\ job' = [job EXCEPT ![w].todo = @ \ {u}]
                /\ Goto(w, IF job[w].todo = {u} THEN "view" ELSE "member")
           ELSE job' = [job EXCEPT ![w].one = u] /\ Goto(w, "state")
    /\ UNCHANGED <<tables, held, shown, world>>

\* An invitation that waits, or was declined a short while ago, is left as it is.
Standing(invite, now) ==
    /\ invite # None
    /\ IF invite.declined = None THEN now - invite.created < TTL
                                 ELSE now - invite.declined < Cooldown

ReadInvite(w) ==
    /\ pc[w] = "state"
    /\ IF Standing(invites[Id(w)][job[w].one], job[w].now) THEN NextInvitee(w, FALSE)
       ELSE Goto(w, "upsert") /\ UNCHANGED job
    /\ UNCHANGED <<tables, held, shown, world>>

\* When the invitation is stored, as its history has it.
Timing(w, u) == CASE {Me(w), u} \in allied \ parting -> "before"
                  [] {Me(w), u} \in job[w].was -> "across"
                  [] OTHER -> "after"

PutInvite(w) ==
    /\ pc[w] = "upsert"
    /\ Free(w, InviteRow(Id(w), job[w].one))
    /\ invites' = [invites EXCEPT ![Id(w)][job[w].one] =
           [by |-> Me(w), created |-> job[w].now, declined |-> None,
            timing |-> Timing(w, job[w].one)]]
    /\ NextInvitee(w, TRUE)
    /\ UNCHANGED <<kind, members, nextId, held, shown, world>>
-----------------------------------------------------------------------------
(* acceptInvite, declineInvite *)

TakeInvite(w) ==
    /\ pc[w] = "take"
    /\ IF Pending(Id(w), Me(w), job[w].now)
       THEN /\ Free(w, InviteRow(Id(w), Me(w)))
            /\ held' = [held EXCEPT ![w] = {InviteRow(Id(w), Me(w))}]
            /\ Goto(w, "commit") /\ UNCHANGED job
       ELSE Return(w)
    /\ UNCHANGED <<tables, shown, world>>

\* v has read the members of i, and has told or will tell them to others.
Telling(v, i) == pc[v] = "tell" /\ Op(v) # "invite" /\ Id(v) = i

\* mutant: the rows stay locked.
CommitAndHold(w) ==
    /\ pc[w] = "commit"
    /\ IF Op(w) = "dm"
       THEN /\ kind' = [kind EXCEPT ![Id(w)] = "dm"]
            /\ members' = [members EXCEPT ![Id(w)] = DmPair(w)]
            /\ UNCHANGED <<invites, overtaken>>
       ELSE /\ invites' = [invites EXCEPT ![Id(w)][Me(w)] = None]
            /\ members' = [members EXCEPT ![Id(w)] = @ \cup {Me(w)}]
            /\ overtaken' = IF \E v \in Thread \ {w} : Telling(v, Id(w))
                            THEN [overtaken EXCEPT ![Id(w)] = @ \cup {Me(w)}] ELSE overtaken
            /\ UNCHANGED kind
    /\ job' = [job EXCEPT ![w].created = TRUE]
    /\ Goto(w, "view")
    /\ UNCHANGED <<held, nextId, seen, firsts, world>>

\* The two transactions: a dm appears, or an invitee is a member.
Commit(w) ==
    /\ pc[w] = "commit"
    /\ IF Op(w) = "dm"
       THEN /\ kind' = [kind EXCEPT ![Id(w)] = "dm"]
            /\ members' = [members EXCEPT ![Id(w)] = DmPair(w)]
            /\ UNCHANGED <<invites, overtaken>>
       ELSE /\ invites' = [invites EXCEPT ![Id(w)][Me(w)] = None]
            /\ members' = [members EXCEPT ![Id(w)] = @ \cup {Me(w)}]
            /\ overtaken' = IF \E v \in Thread \ {w} : Telling(v, Id(w))
                            THEN [overtaken EXCEPT ![Id(w)] = @ \cup {Me(w)}] ELSE overtaken
            /\ UNCHANGED kind
    /\ held' = [held EXCEPT ![w] = {}]
    /\ job' = [job EXCEPT ![w].created = TRUE]
    /\ Goto(w, "view")
    /\ UNCHANGED <<nextId, seen, firsts, world>>

DeclineInvite(w) ==
    /\ pc[w] = "decline"
    /\ Pending(Id(w), Me(w), job[w].now) => Free(w, InviteRow(Id(w), Me(w)))
    /\ invites' = IF Pending(Id(w), Me(w), job[w].now)
                  THEN [invites EXCEPT ![Id(w)][Me(w)].declined = job[w].now] ELSE invites
    /\ Return(w)
    /\ UNCHANGED <<kind, members, nextId, shown, world>>
-----------------------------------------------------------------------------
(* Answers and events *)

\* mutant: only the devices of who joins are told.
AudienceOfJoiner(w) ==
    CASE Op(w) = "dm"      -> IF job[w].created THEN DmPair(w) ELSE {}
      [] Op(w) = "palette" -> {Me(w)}
      [] Op(w) = "accept"  -> {Me(w)}
      [] Op(w) = "invite"  -> {}

\* Whom a call tells of the conversation as it now is.  An invitation is told to
\* the invitee alone, who is shown no members.
Audience(w) ==
    CASE Op(w) = "dm"      -> IF job[w].created THEN DmPair(w) ELSE {}
      [] Op(w) = "palette" -> {Me(w)}
      [] Op(w) = "accept"  -> job[w].view
      [] Op(w) = "invite"  -> {}

\* get: the conversation with its members, for the answer and for the events.
\* Whom it shows as invited is left out.  Where there is no such row the caller
\* of createDm gets an answer without a conversation, and nobody is told.
ReadView(w) ==
    /\ pc[w] = "view"
    /\ IF kind[Id(w)] = None THEN Return(w)
       ELSE job' = [job EXCEPT ![w].view = members[Id(w)]] /\ Goto(w, "tell") /\ UNCHANGED held
    /\ UNCHANGED <<tables, shown, world>>

\* Events go out one by one, then the call is answered.  Each carries the whole
\* conversation, and takes the place of what was told before.
Tell(w) ==
    /\ pc[w] = "tell"
    /\ LET left == Audience(w) \ job[w].todo IN
       IF left # {}
       THEN \E u \in left :
                /\ seen' = [seen EXCEPT ![Id(w)][u] = job[w].view]
                /\ job' = [job EXCEPT ![w].todo = job[w].todo \cup {u}]
                /\ UNCHANGED <<pc, held, firsts>>
       ELSE /\ firsts' = IF Op(w) = "dm" /\ job[w].created
                         THEN [firsts EXCEPT ![Id(w)] = @ + 1] ELSE firsts
            /\ Return(w)
            /\ UNCHANGED seen
    /\ UNCHANGED <<tables, overtaken, world>>
-----------------------------------------------------------------------------
(* Partings: PgContactRepository::remove and block *)

Between(p, i, u) == /\ u \in p /\ invites[i][u] # None
                    /\ invites[i][u].by \in p \ {u}

\* mutant: only the invitations of one of the two are deleted.
DeleteInvitesOfOne(p) ==
    /\ p \in allied \ parting
    /\ Spend("partings")
    /\ parting' = parting \cup {p}
    /\ \E v \in p : doomed' = [doomed EXCEPT ![p] =
           {InviteRow(i, v) : i \in {j \in Conv : Between(p, j, v)}}]
    /\ \A w \in Thread : held[w] \cap doomed'[p] = {}
    /\ UNCHANGED <<tables, allied, held, clock, pc, job, shown>>

\* deleteInvitesBetween, once the rows of the two in contacts are gone: it waits
\* for whoever is accepting one of them.
DeleteInvites(p) ==
    /\ p \in allied \ parting
    /\ Spend("partings")
    /\ parting' = parting \cup {p}
    /\ doomed' = [doomed EXCEPT ![p] =
           UNION {{InviteRow(i, u) : i \in {j \in Conv : Between(p, j, u)}} : u \in p}]
    /\ \A w \in Thread : held[w] \cap doomed'[p] = {}
    /\ UNCHANGED <<tables, allied, held, clock, pc, job, shown>>

\* The transaction commits: the two may not communicate, and what it has deleted
\* is gone.
CommitParting(p) ==
    /\ p \in parting
    /\ allied' = allied \ {p}
    /\ invites' = [i \in Conv |-> [u \in User |->
           IF InviteRow(i, u) \in doomed[p] THEN None ELSE invites[i][u]]]
    /\ parting' = parting \ {p}
    /\ doomed' = [doomed EXCEPT ![p] = {}]
    /\ UNCHANGED <<kind, members, nextId, held, clock, pc, job, shown, budget>>

\* The transaction rolls back, or its COMMIT fails without a word.
RollBackParting(p) ==
    /\ p \in parting
    /\ Spend("faults")
    /\ parting' = parting \ {p}
    /\ doomed' = [doomed EXCEPT ![p] = {}]
    /\ UNCHANGED <<tables, allied, held, clock, pc, job, shown>>
-----------------------------------------------------------------------------
(* Faults and time *)

\* A statement throws and its transaction rolls back.  The one that creates a dm
\* takes any exception for a lost race and looks again; others fail the call.
Fault(w) ==
    /\ pc[w] # "idle"
    /\ Spend("faults")
    /\ IF Op(w) = "dm" /\ pc[w] \in {"conversation", "chat", "commit"}
       THEN /\ held' = [held EXCEPT ![w] = {}]
            /\ job' = [job EXCEPT ![w].id = None]
            /\ Goto(w, "again")
       ELSE Return(w)
    /\ UNCHANGED <<tables, partings, clock, shown>>

\* A COMMIT that fails does not throw: its result is not looked at, and the call
\* goes on as if the rows had been written.
LoseCommit(w) ==
    /\ pc[w] = "commit"
    /\ Spend("faults")
    /\ held' = [held EXCEPT ![w] = {}]
    /\ job' = [job EXCEPT ![w].created = TRUE]
    /\ Goto(w, "view")
    /\ UNCHANGED <<tables, partings, clock, shown>>

Tick ==
    /\ Spend("instants")
    /\ clock' = clock + 1
    /\ UNCHANGED <<tables, partings, held, pc, job, shown>>

Step(w) == \/ CheckPalette(w) \/ CheckAllies(w) \/ ReadClock(w)
           \/ FindDm(w) \/ InsertConversation(w) \/ InsertChat(w)
           \/ CreatePalette(w) \/ CheckMember(w) \/ ReadInvite(w) \/ PutInvite(w)
           \/ TakeInvite(w) \/ Commit(w) \/ DeclineInvite(w)
           \/ ReadView(w) \/ Tell(w)

Next == \/ \E w \in Thread : \/ \E c \in Call : Begin(w, c)
                             \/ Step(w) \/ Fault(w) \/ LoseCommit(w)
        \/ \E p \in Pair : DeleteInvites(p) \/ CommitParting(p) \/ RollBackParting(p)
        \/ Tick

Spec == Init /\ [][Next]_vars
-----------------------------------------------------------------------------
(* Properties *)

\* Every variable has its type; rows are held exactly by the threads about to
\* commit, and nobody is invited to what is not a palette.
TypeOK ==
    /\ kind \in [Conv -> {"dm", "palette", None}]
    /\ members \in [Conv -> SUBSET User]
    /\ \A i \in Conv, u \in User :
           invites[i][u] # None => invites[i][u] \in Invitation /\ kind[i] = "palette"
    /\ nextId \in Conv \cup {Len(Palettes) + MaxEvents + 1}
    /\ \A i \in Conv : kind[i] # None => i < nextId
    /\ allied \subseteq Pair /\ parting \subseteq allied
    /\ \A w \in Thread : held[w] # {} <=> pc[w] = "commit"
    /\ \A p \in Pair : doomed[p] # {} => p \in parting
    /\ clock \in Nat
    /\ pc \in [Thread -> {"idle", "ally", "palette", "clock", "find", "conversation", "chat", "again",
                          "create", "member", "state", "upsert", "take", "commit",
                          "decline", "view", "tell"}]
    /\ \A w \in Thread : job[w].call \in Call \cup {None} /\ job[w].view \subseteq User
    /\ seen \in [Conv -> [User -> SUBSET User]]
    /\ firsts \in [Conv -> Nat]
    /\ overtaken \in [Conv -> SUBSET User]
    /\ budget \in [Bounded -> Nat]

\* However many threads open the dm of a pair at once, there is one: it is
\* answered as created at most once, and every answer names it, the answer of
\* whoever lost the race included.
OneDm ==
    /\ \A i, j \in Conv : kind[i] = "dm" /\ kind[j] = "dm" /\ members[i] = members[j] => i = j
    /\ \A i \in Conv : firsts[i] <= 1
    /\ \A w \in Thread : pc[w] = "tell" /\ Op(w) = "dm" => DmsOf(DmPair(w)) = {Id(w)}

\* Once no call is in progress, and unless one failed, every member's last list
\* of the members of a conversation has everybody on it, though lists are read
\* and told in separate steps and several join at once: who may be missing is who
\* joined while a list read before was still being told.
EveryoneIntroduced ==
    (budget["faults"] = 0 /\ \A w \in Thread : pc[w] = "idle") =>
        \A i \in Conv : \A u \in members[i] : members[i] \ overtaken[i] \subseteq seen[i][u]

\* What a parting leaves of the invitations between the two: nothing that was
\* stored before it deleted them, and nothing of a call that began after it had
\* committed.  An invitation between strangers is of a call that asked whether
\* they may communicate before the COMMIT and stored it after the DELETE.
InvitationsEnd ==
    \A i \in Conv, u \in User :
        invites[i][u] # None /\ {u, invites[i][u].by} \notin allied =>
            invites[i][u].timing = "across"

\* domain/ports/ContactRepository.hpp:79-80, of remove: "Deletes both rows (...),
\* plus pending requests and palette invites between the two", and
\* PgContactRepository.cpp:196: "The pair no longer satisfies canCommunicate, so
\* anything that depended on it goes too."  Nobody is invited by somebody they may
\* not communicate with.
NoInvitationOutlives ==
    \A i \in Conv, u \in User : invites[i][u] # None => {u, invites[i][u].by} \in allied
=============================================================================
