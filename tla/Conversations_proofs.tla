-------------------------- MODULE Conversations_proofs --------------------------
(***************************************************************************)
(* Proofs about Conversations for any users, threads, calls and bounds:    *)
(* however many threads open the dm of a pair, there is one; no invitation *)
(* outlives the alliance it rests on; and members are told of each other.  *)
(***************************************************************************)
EXTENDS Conversations, TLAPS

Labels == {"idle", "ally", "palette", "clock", "find", "conversation", "chat", "again",
           "create", "member", "state", "upsert", "take", "commit",
           "decline", "view", "tell"}

Job == [call: Call \cup {None}, now: Nat, todo: SUBSET User, one: User \cup {None},
        id: Conv \cup {None}, created: BOOLEAN, view: SUBSET User, was: SUBSET Pair]

\* What each variable ranges over.
Types ==
    /\ kind \in [Conv -> {"dm", "palette", None}]
    /\ members \in [Conv -> SUBSET User]
    /\ invites \in [Conv -> [User -> Invitation \cup {None}]]
    /\ nextId \in Nat /\ nextId <= Len(Palettes) + MaxEvents + 1 /\ nextId >= 1
    /\ allied \subseteq Pair /\ parting \subseteq allied
    /\ doomed = [p \in Pair |-> doomed[p]]
    /\ \A p \in Pair : doomed[p] # {} => p \in parting
    /\ held = [w \in Thread |-> held[w]]
    /\ clock \in Nat
    /\ pc \in [Thread -> Labels]
    /\ job \in [Thread -> Job]
    /\ seen \in [Conv -> [User -> SUBSET User]]
    /\ firsts \in [Conv -> Nat]
    /\ overtaken \in [Conv -> SUBSET User]
    /\ budget \in [Bounded -> Nat]

\* What is known of ids still to be drawn, and of the rows that refer to an id.
Rows ==
    /\ \A i \in Conv : i >= nextId => kind[i] = None /\ firsts[i] = 0
    /\ \A i \in Conv : firsts[i] <= 1
    /\ \A i \in Conv, u \in User : invites[i][u] # None => kind[i] = "palette"

\* What a thread's statement goes with.
CallOK(w) ==
    /\ pc[w] # "idle" => job[w].call \in Call
    /\ pc[w] \in {"find", "conversation", "chat", "again"} => Op(w) = "dm"
    /\ pc[w] = "ally" => Op(w) \in {"dm", "palette", "invite"}
    /\ pc[w] = "palette" => Op(w) = "invite"
    /\ pc[w] = "clock" => Op(w) \in {"palette", "invite"}
    /\ pc[w] = "create" => Op(w) = "palette"
    /\ pc[w] \in {"member", "state", "upsert"} => Op(w) \in {"palette", "invite"}
    /\ pc[w] \in {"state", "upsert"} => job[w].one \in User
    /\ pc[w] = "take" => Op(w) = "accept"
    /\ pc[w] = "decline" => Op(w) = "decline"
    /\ pc[w] = "commit" => Op(w) \in {"dm", "accept"}
    /\ pc[w] \in {"view", "tell"} => Op(w) # "decline"
    /\ pc[w] # "idle" /\ Op(w) \in {"invite", "accept", "decline"} => job[w].id = None
    /\ pc[w] # "idle" /\ Op(w) = "palette" /\ pc[w] \notin {"ally", "clock", "create"} => job[w].id \in Conv
    /\ pc[w] \in {"member", "state", "upsert"} => kind[Id(w)] = "palette"
    /\ pc[w] \in {"ally", "clock"} /\ Op(w) = "invite" => kind[Id(w)] = "palette"
    /\ pc[w] = "commit" /\ Op(w) = "accept" => kind[Id(w)] = "palette"
    /\ pc[w] = "tell" => kind[Id(w)] # None
    /\ held[w] # {} <=> pc[w] = "commit"

\* A thread opening a dm; the one that owns the id it has drawn, until the dm is
\* answered as created; the one about to commit.
Opens(w)  == pc[w] # "idle" /\ Op(w) = "dm"
Owns(w)   == /\ Opens(w)
             /\ \/ pc[w] \in {"chat", "commit"}
                \/ pc[w] \in {"view", "tell"} /\ job[w].created
Enters(w) == Opens(w) /\ pc[w] = "commit"

\* What a thread that opens a dm knows of it.
DmOK(w) == Opens(w) =>
    /\ pc[w] \in {"ally", "find", "conversation", "chat", "commit", "again", "view", "tell"}
    /\ pc[w] \in {"ally", "find", "conversation", "chat", "commit", "again"} => ~job[w].created
    /\ pc[w] \in {"chat", "commit", "view", "tell"} => job[w].id \in Conv /\ job[w].id < nextId
    /\ pc[w] \in {"chat", "commit"} => kind[job[w].id] = None
    /\ Owns(w) => firsts[job[w].id] = 0
    /\ pc[w] = "commit" => held[w] = {ChatRow(DmPair(w))} /\ DmsOf(DmPair(w)) = {}
    /\ pc[w] \in {"view", "tell"} =>
           \/ kind[job[w].id] = "dm" /\ members[job[w].id] = DmPair(w)
           \/ kind[job[w].id] = None /\ pc[w] = "view" /\ job[w].created

\* No two threads own an id, or enter the row of the same pair, and no two dms
\* have the same members.
Apart ==
    \A w, v \in Thread : w # v =>
        /\ Owns(w) /\ Owns(v) => job[w].id # job[v].id
        /\ Enters(w) /\ Enters(v) => DmPair(w) # DmPair(v)
Unique ==
    \A i, j \in Conv : kind[i] = "dm" /\ kind[j] = "dm" /\ members[i] = members[j] => i = j

IInv == Types /\ Rows /\ (\A w \in Thread : CallOK(w) /\ DmOK(w)) /\ Apart /\ Unique
-----------------------------------------------------------------------------
(* Calls and ids *)

LEMMA NoJobTyped == NoJob \in Job
  BY DEF NoJob, Job

\* The fields of a call, and that ids are numbers.
LEMMA CallTyped ==
    ASSUME NEW c \in Call
    PROVE  /\ c.op \in {"dm", "palette", "invite", "accept", "decline"}
           /\ c.me \in User /\ c.who \in SUBSET User /\ c.conv \in Conv \cup {None}
           /\ c.op \in {"invite", "accept", "decline"} => c.conv \in Conv
  BY ConversationsAssumption DEF CallType

LEMMA Ids == /\ Len(Palettes) \in Nat /\ DOMAIN Palettes = 1 .. Len(Palettes)
             /\ Len(Palettes) + MaxEvents \in Nat
             /\ Conv \subseteq Nat /\ None \notin Conv
             /\ \A n \in Nat : n \in Conv <=> 1 <= n /\ n <= Len(Palettes) + MaxEvents
  BY ConversationsAssumption DEF Conv

\* The id a statement refers to.
LEMMA IdTyped ==
    ASSUME IInv, NEW w \in Thread, pc[w] # "idle"
    PROVE  /\ job[w].id # None => Id(w) = job[w].id
           /\ job[w].id = None => Id(w) = job[w].call.conv
           /\ Op(w) \in {"invite", "accept", "decline"} => Id(w) \in Conv
           /\ pc[w] \in {"member", "state", "upsert", "commit", "view", "tell"} => Id(w) \in Conv
  <1>1. job[w].call \in Call /\ CallOK(w) /\ DmOK(w)
    BY DEF IInv, CallOK
  <1>2. /\ Op(w) \in {"invite", "accept", "decline"} => job[w].id = None /\ job[w].call.conv \in Conv
        /\ Op(w) \in {"dm", "palette", "invite", "accept", "decline"}
    BY <1>1, CallTyped DEF CallOK, Op
  <1>3. /\ job[w].id # None => Id(w) = job[w].id
        /\ job[w].id = None => Id(w) = job[w].call.conv
    BY DEF Id
  <1>4. Op(w) = "palette" /\ pc[w] \in {"member", "state", "upsert", "commit", "view", "tell"} =>
            job[w].id \in Conv
    BY <1>1 DEF CallOK
  <1>5. Op(w) = "dm" /\ pc[w] \in {"member", "state", "upsert", "commit", "view", "tell"} =>
            job[w].id \in Conv
    BY <1>1 DEF DmOK, Opens
  <1>6. QED
    BY <1>2, <1>3, <1>4, <1>5, Ids
-----------------------------------------------------------------------------
(* One thread moves *)

\* Only w's label, only w's locals change.
PcMoves(w)  == pc' \in [Thread -> Labels] /\ \A v \in Thread \ {w} : pc'[v] = pc[v]
JobMoves(w) == job' \in [Thread -> Job] /\ \A v \in Thread \ {w} : job'[v] = job[v]

LEMMA GoesTo == ASSUME Types, NEW w \in Thread, NEW label \in Labels, Goto(w, label)
                PROVE  PcMoves(w) /\ pc'[w] = label
  BY DEF Types, Goto, PcMoves

LEMMA TakesJob == ASSUME Types, NEW w \in Thread, NEW j \in Job, job' = [job EXCEPT ![w] = j]
                  PROVE  JobMoves(w) /\ job'[w] = j
  BY DEF Types, JobMoves

LEMMA SetsId ==
    ASSUME Types, NEW w \in Thread, NEW i \in Conv \cup {None}, job' = [job EXCEPT ![w].id = i]
    PROVE  /\ JobMoves(w) /\ job'[w].id = i /\ job'[w].call = job[w].call
           /\ job'[w].created = job[w].created /\ job'[w].one = job[w].one
           /\ job'[w].todo = job[w].todo /\ job'[w].view = job[w].view
           /\ job'[w].was = job[w].was
<1> DEFINE j == [job[w] EXCEPT !.id = i]
<1>1. job[w] \in Job
  BY DEF Types
<1>2. /\ j \in Job /\ j.call = job[w].call /\ j.id = i /\ j.created = job[w].created /\ j.one = job[w].one
      /\ j.todo = job[w].todo /\ j.view = job[w].view /\ j.was = job[w].was
  BY <1>1 DEF Job
<1>3. job' = [job EXCEPT ![w] = j]
  OBVIOUS
<1> HIDE DEF j
<1>4. QED
  BY <1>2, <1>3, TakesJob

LEMMA SetsTodo ==
    ASSUME Types, NEW w \in Thread, NEW S \in SUBSET User, job' = [job EXCEPT ![w].todo = S]
    PROVE  /\ JobMoves(w) /\ job'[w].id = job[w].id /\ job'[w].call = job[w].call
           /\ job'[w].created = job[w].created /\ job'[w].one = job[w].one
           /\ job'[w].todo = S /\ job'[w].view = job[w].view
           /\ job'[w].was = job[w].was
<1> DEFINE j == [job[w] EXCEPT !.todo = S]
<1>1. job[w] \in Job
  BY DEF Types
<1>2. /\ j \in Job /\ j.call = job[w].call /\ j.id = job[w].id /\ j.created = job[w].created /\ j.one = job[w].one
      /\ j.todo = S /\ j.view = job[w].view /\ j.was = job[w].was
  BY <1>1 DEF Job
<1>3. job' = [job EXCEPT ![w] = j]
  OBVIOUS
<1> HIDE DEF j
<1>4. QED
  BY <1>2, <1>3, TakesJob

LEMMA SetsOne ==
    ASSUME Types, NEW w \in Thread, NEW u \in User, job' = [job EXCEPT ![w].one = u]
    PROVE  /\ JobMoves(w) /\ job'[w].id = job[w].id /\ job'[w].call = job[w].call
           /\ job'[w].created = job[w].created /\ job'[w].one = u
           /\ job'[w].todo = job[w].todo /\ job'[w].view = job[w].view
           /\ job'[w].was = job[w].was
<1> DEFINE j == [job[w] EXCEPT !.one = u]
<1>1. job[w] \in Job
  BY DEF Types
<1>2. /\ j \in Job /\ j.call = job[w].call /\ j.id = job[w].id /\ j.created = job[w].created /\ j.one = u
      /\ j.todo = job[w].todo /\ j.view = job[w].view /\ j.was = job[w].was
  BY <1>1 DEF Job
<1>3. job' = [job EXCEPT ![w] = j]
  OBVIOUS
<1> HIDE DEF j
<1>4. QED
  BY <1>2, <1>3, TakesJob

LEMMA SetsView ==
    ASSUME Types, NEW w \in Thread, NEW S \in SUBSET User, job' = [job EXCEPT ![w].view = S]
    PROVE  /\ JobMoves(w) /\ job'[w].id = job[w].id /\ job'[w].call = job[w].call
           /\ job'[w].created = job[w].created /\ job'[w].one = job[w].one
           /\ job'[w].todo = job[w].todo /\ job'[w].view = S
           /\ job'[w].was = job[w].was
<1> DEFINE j == [job[w] EXCEPT !.view = S]
<1>1. job[w] \in Job
  BY DEF Types
<1>2. /\ j \in Job /\ j.call = job[w].call /\ j.id = job[w].id /\ j.created = job[w].created /\ j.one = job[w].one
      /\ j.todo = job[w].todo /\ j.view = S /\ j.was = job[w].was
  BY <1>1 DEF Job
<1>3. job' = [job EXCEPT ![w] = j]
  OBVIOUS
<1> HIDE DEF j
<1>4. QED
  BY <1>2, <1>3, TakesJob

LEMMA SetsCreated ==
    ASSUME Types, NEW w \in Thread, job' = [job EXCEPT ![w].created = TRUE]
    PROVE  /\ JobMoves(w) /\ job'[w].id = job[w].id /\ job'[w].call = job[w].call
           /\ job'[w].created = TRUE /\ job'[w].one = job[w].one
           /\ job'[w].todo = job[w].todo /\ job'[w].view = job[w].view
           /\ job'[w].was = job[w].was
<1> DEFINE j == [job[w] EXCEPT !.created = TRUE]
<1>1. job[w] \in Job
  BY DEF Types
<1>2. /\ j \in Job /\ j.call = job[w].call /\ j.id = job[w].id /\ j.created = TRUE /\ j.one = job[w].one
      /\ j.todo = job[w].todo /\ j.view = job[w].view /\ j.was = job[w].was
  BY <1>1 DEF Job
<1>3. job' = [job EXCEPT ![w] = j]
  OBVIOUS
<1> HIDE DEF j
<1>4. QED
  BY <1>2, <1>3, TakesJob

LEMMA SetsNow ==
    ASSUME Types, NEW w \in Thread, NEW t \in Nat, job' = [job EXCEPT ![w].now = t]
    PROVE  /\ JobMoves(w) /\ job'[w].id = job[w].id /\ job'[w].call = job[w].call
           /\ job'[w].created = job[w].created /\ job'[w].one = job[w].one
           /\ job'[w].todo = job[w].todo /\ job'[w].view = job[w].view
           /\ job'[w].was = job[w].was
<1> DEFINE j == [job[w] EXCEPT !.now = t]
<1>1. job[w] \in Job
  BY DEF Types
<1>2. /\ j \in Job /\ j.call = job[w].call /\ j.id = job[w].id /\ j.created = job[w].created /\ j.one = job[w].one
      /\ j.todo = job[w].todo /\ j.view = job[w].view /\ j.was = job[w].was
  BY <1>1 DEF Job
<1>3. job' = [job EXCEPT ![w] = j]
  OBVIOUS
<1> HIDE DEF j
<1>4. QED
  BY <1>2, <1>3, TakesJob

LEMMA GoesOn ==
    ASSUME Types, NEW w \in Thread, NEW b \in BOOLEAN, NextInvitee(w, b)
    PROVE  /\ PcMoves(w) /\ pc'[w] \in {"member", "view"}
           /\ JobMoves(w) /\ job'[w].id = job[w].id /\ job'[w].call = job[w].call
           /\ job'[w].todo = job[w].todo \ {job[w].one} /\ job'[w].was = job[w].was
           /\ pc'[w] = "view" => job'[w].todo = {}
<1> DEFINE j == [job[w] EXCEPT !.todo = job[w].todo \ {job[w].one}, !.created = b]
<1>1. job[w] \in Job
  BY DEF Types
<1>2. /\ j \in Job /\ j.call = job[w].call /\ j.id = job[w].id
      /\ j.todo = job[w].todo \ {job[w].one} /\ j.was = job[w].was
  BY <1>1 DEF Job
<1>3. job' = [job EXCEPT ![w] = j]
  BY DEF NextInvitee
<1>4. /\ PcMoves(w) /\ pc'[w] \in {"member", "view"}
      /\ pc'[w] = "view" => job[w].todo \ {job[w].one} = {}
  BY GoesTo DEF NextInvitee, Labels
<1> HIDE DEF j
<1>5. QED
  BY <1>2, <1>3, <1>4, TakesJob
-----------------------------------------------------------------------------
(* What a step may do *)

\* w is left with what its next statement needs; an id it owns it had before or
\* has just drawn; it enters a pair's row only if nobody else has.
After(w) ==
    /\ PcMoves(w) /\ JobMoves(w)
    /\ held' = [v \in Thread |-> held'[v]] /\ \A v \in Thread \ {w} : held'[v] = held[v]
    /\ CallOK(w)' /\ DmOK(w)'
    /\ Owns(w)' => \/ job'[w].id = nextId
                   \/ Owns(w) /\ job'[w].id = job[w].id
    /\ Enters(w)' => \A v \in Thread \ {w} : Enters(v) => DmPair(v) # DmPair(w)'

\* Rows of conversations only appear: a palette with the next id, or the dm that w
\* is about to commit; a dm keeps its members and is reported once.
Grown(w) ==
    /\ nextId' = nextId \/ (nextId \in Conv /\ nextId' = nextId + 1)
    /\ kind' \in [Conv -> {"dm", "palette", None}] /\ members' \in [Conv -> SUBSET User]
    /\ firsts' \in [Conv -> Nat]
    /\ \A i \in Conv :
           /\ kind[i] # None => kind'[i] = kind[i]
           /\ kind[i] = "dm" => members'[i] = members[i]
           /\ kind'[i] # kind[i] =>
                  \/ i = nextId /\ nextId' = nextId + 1 /\ kind'[i] = "palette"
                  \/ Enters(w) /\ i = job[w].id /\ kind'[i] = "dm" /\ members'[i] = DmPair(w)
           /\ firsts'[i] # firsts[i] =>
                  Owns(w) /\ i = job[w].id /\ firsts'[i] = firsts[i] + 1 /\ ~Owns(w)'

LEMMA NothingGrows == ASSUME Types, NEW w \in Thread, UNCHANGED <<kind, members, nextId, firsts>>
                      PROVE  Grown(w)
<1>1. /\ kind \in [Conv -> {"dm", "palette", None}] /\ members \in [Conv -> SUBSET User]
      /\ firsts \in [Conv -> Nat]
  BY DEF Types
<1>2. kind' \in [Conv -> {"dm", "palette", None}] /\ members' \in [Conv -> SUBSET User]
      /\ firsts' \in [Conv -> Nat]
  BY <1>1
<1>3. \A i \in Conv : kind'[i] = kind[i] /\ members'[i] = members[i] /\ firsts'[i] = firsts[i]
  OBVIOUS
<1>4. nextId' = nextId
  OBVIOUS
<1>5. QED
  BY <1>2, <1>3, <1>4 DEF Grown

\* A call that returns.
LEMMA Returns ==
    ASSUME IInv, NEW w \in Thread, Return(w)
    PROVE  After(w) /\ ~Opens(w)'
<1>1. Types /\ NoJob \in Job /\ "idle" \in Labels
  BY NoJobTyped DEF IInv, Labels
<1>2. PcMoves(w) /\ pc'[w] = "idle" /\ JobMoves(w)
  BY <1>1, GoesTo, TakesJob DEF Return
<1>3. /\ held' = [v \in Thread |-> held'[v]] /\ held'[w] = {}
      /\ \A v \in Thread \ {w} : held'[v] = held[v]
  BY <1>1 DEF Return, Types
<1>4. ~Opens(w)' /\ CallOK(w)' /\ DmOK(w)'
  BY <1>2, <1>3 DEF Opens, CallOK, DmOK
<1>5. QED
  BY <1>2, <1>3, <1>4 DEF After, Owns, Enters

\* A step of a call that opens no dm.
LEMMA Stays ==
    ASSUME IInv, NEW w \in Thread, UNCHANGED held, PcMoves(w), JobMoves(w),
           CallOK(w)', ~Opens(w)'
    PROVE  After(w)
  BY DEF IInv, Types, After, Owns, Enters, DmOK
-----------------------------------------------------------------------------
(* The others *)

\* What a step of w leaves of the knowledge of another thread.
LEMMA OthersKept ==
    ASSUME IInv, NEW w \in Thread, After(w), Grown(w), NEW v \in Thread, v # w
    PROVE  /\ CallOK(v)' /\ DmOK(v)'
           /\ Owns(v)' <=> Owns(v)
           /\ Enters(v)' <=> Enters(v)
           /\ job'[v] = job[v] /\ DmPair(v)' = DmPair(v)
<1>1. pc'[v] = pc[v] /\ job'[v] = job[v] /\ held'[v] = held[v]
  BY DEF After, PcMoves, JobMoves
<1>2. /\ Opens(v)' <=> Opens(v)
      /\ Owns(v)' <=> Owns(v)
      /\ Enters(v)' <=> Enters(v)
      /\ DmPair(v)' = DmPair(v) /\ Id(v)' = Id(v) /\ Op(v)' = Op(v)
  BY <1>1 DEF Opens, Owns, Enters, DmPair, Op, Me, Id
<1>3. CallOK(v) /\ DmOK(v) /\ Types
  BY DEF IInv
<1>4. CallOK(v)'
  <2>1. pc[v] # "idle" /\ Id(v) \in Conv /\ kind[Id(v)] = "palette" => kind'[Id(v)] = "palette"
    BY ConversationsAssumption DEF Grown
  <2>2. pc[v] \in {"member", "state", "upsert"} => kind'[Id(v)] = "palette"
    BY <1>3, <2>1, IdTyped DEF CallOK
  <2>3. /\ pc[v] \in {"ally", "clock"} /\ Op(v) = "invite" => kind'[Id(v)] = "palette"
        /\ pc[v] = "commit" /\ Op(v) = "accept" => kind'[Id(v)] = "palette"
        /\ pc[v] = "tell" => kind'[Id(v)] # None
    <3>1. pc[v] = "tell" => Id(v) \in Conv /\ kind[Id(v)] # None
      BY <1>3, IdTyped DEF CallOK
    <3>2. pc[v] = "tell" => kind'[Id(v)] # None
      BY <3>1 DEF Grown
    <3>3. QED
      BY <1>3, <2>1, <3>2, IdTyped DEF CallOK
  <2>4. QED
    BY <1>1, <1>2, <1>3, <2>2, <2>3 DEF CallOK
<1>5. ASSUME Opens(v)
      PROVE  DmOK(v)'
  <2> DEFINE i == job[v].id
  <2>1. nextId' >= nextId /\ nextId \in Nat /\ nextId' \in Nat
    BY <1>3, Ids DEF Grown, Types
  <2>2. ASSUME Owns(v)
        PROVE  i \in Conv /\ i < nextId /\ kind'[i] = kind[i] /\ firsts'[i] = firsts[i]
    <3>1. i \in Conv /\ i < nextId
      BY <1>3, <1>5, <2>2 DEF DmOK, Owns
    <3>2. Owns(w) => job[w].id # i
      BY <2>2 DEF IInv, Apart
    <3>3. Enters(w) => Owns(w)
      BY DEF Enters, Owns
    <3>4. i # nextId
      BY <2>1, <3>1, Ids
    <3>5. kind'[i] = kind[i]
      BY <3>1, <3>2, <3>3, <3>4 DEF Grown
    <3>6. firsts'[i] = firsts[i]
      BY <3>1, <3>2 DEF Grown
    <3>7. QED
      BY <3>1, <3>5, <3>6
  <2>3. pc[v] \in {"chat", "commit", "view", "tell"} => i \in Conv /\ i < nextId'
    <3>1. pc[v] \in {"chat", "commit", "view", "tell"} => i \in Conv /\ i < nextId
      BY <1>3, <1>5 DEF DmOK
    <3>2. i \in Conv => i \in Nat
      BY Ids
    <3>3. QED
      BY <2>1, <3>1, <3>2
  <2>4. pc[v] \in {"chat", "commit"} => kind'[i] = None
    BY <1>3, <1>5, <2>2 DEF DmOK, Owns
  <2>5. Owns(v) => firsts'[i] = 0
    BY <1>3, <1>5, <2>2 DEF DmOK
  <2>6. ASSUME pc[v] = "commit"
        PROVE  held'[v] = {ChatRow(DmPair(v))} /\ DmsOf(DmPair(v))' = {}
    <3>1. held[v] = {ChatRow(DmPair(v))} /\ DmsOf(DmPair(v)) = {}
      BY <1>3, <1>5, <2>6 DEF DmOK
    <3>2. Enters(w) => DmPair(w) # DmPair(v)
      BY <1>5, <2>6 DEF IInv, Apart, Enters
    <3>3. ASSUME NEW d \in Conv, kind'[d] = "dm", members'[d] = DmPair(v)
          PROVE  FALSE
      <4>1. CASE kind[d] = "dm"
        BY <3>1, <3>3, <4>1 DEF Grown, DmsOf
      <4>2. CASE kind[d] # "dm"
        BY <3>2, <3>3, <4>2 DEF Grown
      <4>3. QED
        BY <4>1, <4>2
    <3>4. QED
      BY <1>1, <1>2, <3>1, <3>3 DEF DmsOf
  <2>7. pc[v] \in {"view", "tell"} =>
            \/ kind'[i] = "dm" /\ members'[i] = DmPair(v)
            \/ kind'[i] = None /\ pc[v] = "view" /\ job[v].created
    <3>1. ASSUME pc[v] \in {"view", "tell"}, kind[i] = "dm", members[i] = DmPair(v)
          PROVE  kind'[i] = "dm" /\ members'[i] = DmPair(v)
      <4>1. i \in Conv
        BY <1>3, <1>5, <3>1 DEF DmOK
      <4>2. QED
        BY <3>1, <4>1, ConversationsAssumption DEF Grown
    <3>2. ASSUME kind[i] = None, pc[v] = "view", job[v].created
          PROVE  kind'[i] = None
      BY <1>5, <2>2, <3>2 DEF Owns
    <3>3. QED
      BY <1>3, <1>5, <3>1, <3>2 DEF DmOK
  <2> HIDE DEF i
  <2>8. QED
    BY <1>1, <1>2, <1>3, <1>5, <2>3, <2>4, <2>5, <2>6, <2>7 DEF DmOK, i
<1>6. DmOK(v)'
  BY <1>2, <1>5 DEF DmOK
<1>7. QED
  BY <1>1, <1>2, <1>4, <1>6

\* A step keeps what is known of threads, of owned ids and of entered pairs, and
\* the dms of a pair are one.
LEMMA StepKeeps ==
    ASSUME IInv, NEW w \in Thread, After(w), Grown(w)
    PROVE  (\A v \in Thread : CallOK(v)' /\ DmOK(v)') /\ Apart' /\ Unique'
<1>1. \A v \in Thread : CallOK(v)' /\ DmOK(v)'
  BY OthersKept DEF After
<1>2. \A v \in Thread : Owns(v) => job[v].id \in Conv /\ job[v].id < nextId
  BY DEF IInv, DmOK, Owns
<1>3. nextId \in Nat
  BY DEF IInv, Types
<1>4. ASSUME NEW v \in Thread, v # w
      PROVE  /\ Owns(w)' /\ Owns(v)' => job'[w].id # job'[v].id
             /\ Enters(w)' /\ Enters(v)' => DmPair(w)' # DmPair(v)'
  <2>1. Owns(v)' => Owns(v) /\ job'[v].id \in Conv /\ job'[v].id < nextId /\ job'[v].id = job[v].id
    BY <1>2, <1>4, OthersKept
  <2>2. Owns(v)' => job'[v].id # nextId
    BY <1>3, <2>1, Ids
  <2>3. Owns(v) /\ Owns(w) => job[w].id # job[v].id
    BY <1>4 DEF IInv, Apart
  <2>4. Enters(v)' => Enters(v) /\ DmPair(v)' = DmPair(v)
    BY <1>4, OthersKept
  <2>5. QED
    BY <1>4, <2>1, <2>2, <2>3, <2>4 DEF After
<1>5. ASSUME NEW u \in Thread, NEW v \in Thread, u # v, u # w, v # w
      PROVE  /\ Owns(u)' /\ Owns(v)' => job'[u].id # job'[v].id
             /\ Enters(u)' /\ Enters(v)' => DmPair(u)' # DmPair(v)'
  BY <1>5, OthersKept DEF IInv, Apart
<1>6. Apart'
  <2>1. ASSUME NEW u \in Thread, NEW v \in Thread, u # v
        PROVE  /\ Owns(u)' /\ Owns(v)' => job'[u].id # job'[v].id
               /\ Enters(u)' /\ Enters(v)' => DmPair(u)' # DmPair(v)'
    BY <1>4, <1>5, <2>1
  <2>2. QED
    BY <2>1 DEF Apart
<1>7. Unique'
  <2>1. ASSUME NEW i \in Conv, NEW j \in Conv, kind[i] = "dm", kind'[j] = "dm", kind[j] # "dm",
               members'[i] = members'[j]
        PROVE  FALSE
    <3>1. members'[i] = members[i]
      BY <2>1 DEF Grown
    <3>2. Enters(w) /\ members'[j] = DmPair(w)
      BY <2>1 DEF Grown
    <3>3. DmsOf(DmPair(w)) = {}
      BY <3>2 DEF IInv, DmOK, Enters
    <3>4. QED
      BY <2>1, <3>1, <3>2, <3>3 DEF DmsOf
  <2>2. ASSUME NEW i \in Conv, NEW j \in Conv, kind'[i] = "dm", kind'[j] = "dm",
               members'[i] = members'[j]
        PROVE  i = j
    <3>1. CASE kind[i] = "dm" /\ kind[j] = "dm"
      <4>1. members[i] = members[j]
        BY <2>2, <3>1 DEF Grown
      <4>2. QED
        BY <3>1, <4>1 DEF IInv, Unique
    <3>2. CASE kind[i] # "dm" /\ kind[j] # "dm"
      BY <2>2, <3>2 DEF Grown
    <3>3. QED
      BY <2>1, <2>2, <3>1, <3>2
  <2>3. QED
    BY <2>2 DEF Unique
<1>8. QED
  BY <1>1, <1>6, <1>7
-----------------------------------------------------------------------------
(* The steps, one by one *)

LEMMA AtBegin ==
    ASSUME IInv, NEW w \in Thread, NEW c \in Call, Begin(w, c)
    PROVE  After(w) /\ Grown(w)
<1> DEFINE j == [NoJob EXCEPT !.call = c, !.todo = c.who, !.was = allied,
                              !.now = IF c.op \in {"accept", "decline"} THEN clock ELSE 0]
<1>1. Types /\ CallOK(w) /\ pc[w] = "idle" /\ UNCHANGED <<kind, members, nextId, held, firsts>>
  BY DEF IInv, Begin, tables, shown
<1>2. j \in Job /\ j.call = c /\ j.id = None /\ j.created = FALSE
  BY <1>1, CallTyped DEF NoJob, Job, Types
<1>3. job' = [job EXCEPT ![w] = j] /\ Goto(w, First(c))
  BY DEF Begin
<1>4. First(c) \in Labels
  BY CallTyped DEF First, Labels
<1> HIDE DEF j
<1>5. JobMoves(w) /\ job'[w] = j /\ PcMoves(w) /\ pc'[w] = First(c)
  BY <1>1, <1>2, <1>3, <1>4, GoesTo, TakesJob
<1>6. CallOK(w)'
  BY <1>1, <1>2, <1>5, CallTyped DEF CallOK, First, Op, Id
<1>7. DmOK(w)' /\ ~Owns(w)' /\ ~Enters(w)'
  BY <1>1, <1>2, <1>5, CallTyped DEF DmOK, First, Opens, Owns, Enters, Op
<1>8. QED
  BY <1>1, <1>5, <1>6, <1>7, NothingGrows DEF After, Types

LEMMA AtPalette ==
    ASSUME IInv, NEW w \in Thread, CheckPalette(w)
    PROVE  After(w) /\ Grown(w)
<1>1. /\ Types /\ CallOK(w) /\ DmOK(w) /\ pc[w] = "palette" /\ Op(w) = "invite"
      /\ UNCHANGED <<kind, members, nextId, firsts>> /\ "ally" \in Labels
  BY DEF IInv, CheckPalette, tables, shown, CallOK, Labels
<1>2. CASE Return(w)
  BY <1>1, <1>2, Returns, NothingGrows
<1>3. CASE kind[Id(w)] = "palette" /\ Goto(w, "ally") /\ UNCHANGED <<job, held>>
  <2>1. PcMoves(w) /\ pc'[w] = "ally" /\ JobMoves(w)
    BY <1>1, <1>3, GoesTo DEF JobMoves, Types
  <2>2. CallOK(w)' /\ ~Opens(w)'
    BY <1>1, <1>3, <2>1 DEF CallOK, Opens, Op, Id
  <2>3. QED
    BY <1>1, <1>3, <2>1, <2>2, Stays, NothingGrows
<1>4. QED
  BY <1>2, <1>3 DEF CheckPalette

LEMMA AtAllies ==
    ASSUME IInv, NEW w \in Thread, CheckAllies(w)
    PROVE  After(w) /\ Grown(w)
<1>1. /\ Types /\ CallOK(w) /\ DmOK(w) /\ pc[w] = "ally" /\ Op(w) \in {"dm", "palette", "invite"}
      /\ UNCHANGED <<kind, members, nextId, firsts>> /\ {"ally", "find", "clock"} \subseteq Labels
      /\ job[w].call \in Call /\ job[w].todo \in SUBSET User /\ job[w].call.who \in SUBSET User
  BY CallTyped DEF IInv, CheckAllies, tables, shown, CallOK, Labels, Types, Job
<1>2. CASE Return(w)
  BY <1>1, <1>2, Returns, NothingGrows
<1>3. ASSUME UNCHANGED held, NEW S \in SUBSET User, job' = [job EXCEPT ![w].todo = S],
             \/ UNCHANGED pc
             \/ Goto(w, CASE Op(w) = "dm" -> "find"
                          [] OTHER -> "clock")
      PROVE  After(w) /\ Grown(w)
  <2>1. /\ JobMoves(w) /\ job'[w].id = job[w].id /\ job'[w].call = job[w].call
        /\ job'[w].created = job[w].created
    BY <1>1, <1>3, SetsTodo
  <2>2. /\ PcMoves(w)
        /\ \/ pc'[w] = "ally"
           \/ pc'[w] = "find" /\ Op(w) = "dm"
           \/ pc'[w] = "clock" /\ Op(w) \in {"palette", "invite"}
    <3>1. CASE UNCHANGED pc
      BY <1>1, <3>1 DEF PcMoves, Types
    <3>2. CASE Op(w) = "dm" /\ Goto(w, "find")
      BY <1>1, <3>2, GoesTo
    <3>3. CASE Op(w) \in {"palette", "invite"} /\ Goto(w, "clock")
      BY <1>1, <3>3, GoesTo
    <3>4. QED
      BY <1>1, <1>3, <3>1, <3>2, <3>3
  <2>3. Op(w)' = Op(w) /\ Id(w)' = Id(w)
    BY <2>1 DEF Op, Id
  <2>4. CallOK(w)'
    BY <1>1, <1>3, <2>1, <2>2, <2>3 DEF CallOK
  <2>5. DmOK(w)' /\ ~Owns(w)' /\ ~Enters(w)'
    BY <1>1, <2>1, <2>2, <2>3 DEF DmOK, Opens, Owns, Enters
  <2>6. QED
    BY <1>1, <1>3, <2>1, <2>2, <2>4, <2>5, NothingGrows DEF After, Types
<1>4. QED
  <2>1. PICK u \in job[w].todo :
           IF {Me(w), u} \notin allied THEN Return(w)
           ELSE /\ UNCHANGED held
                /\ IF job[w].todo = {u}
                   THEN /\ job' = [job EXCEPT ![w].todo = IF Op(w) = "dm" THEN {} ELSE job[w].call.who]
                        /\ Goto(w, CASE Op(w) = "dm" -> "find"
                                     [] OTHER -> "clock")
                   ELSE job' = [job EXCEPT ![w].todo = job[w].todo \ {u}] /\ UNCHANGED pc
    BY DEF CheckAllies
  <2>2. (IF Op(w) = "dm" THEN {} ELSE job[w].call.who) \in SUBSET User /\ job[w].todo \ {u} \in SUBSET User
    BY <1>1
  <2>3. QED
    BY <1>2, <1>3, <2>1, <2>2

LEMMA AtClock ==
    ASSUME IInv, NEW w \in Thread, ReadClock(w)
    PROVE  After(w) /\ Grown(w)
<1>1. /\ Types /\ CallOK(w) /\ pc[w] = "clock" /\ Op(w) \in {"palette", "invite"}
      /\ UNCHANGED <<kind, members, nextId, firsts, held>> /\ {"create", "member"} \subseteq Labels
      /\ clock \in Nat
  BY DEF IInv, ReadClock, tables, shown, CallOK, Labels, Types
<1>2. /\ JobMoves(w) /\ job'[w].id = job[w].id /\ job'[w].call = job[w].call
      /\ PcMoves(w) /\ pc'[w] = IF Op(w) = "palette" THEN "create" ELSE "member"
  BY <1>1, SetsNow, GoesTo DEF ReadClock
<1>3. Op(w)' = Op(w) /\ Id(w)' = Id(w)
  BY <1>2 DEF Op, Id
<1>4. CallOK(w)' /\ ~Opens(w)'
  BY <1>1, <1>2, <1>3 DEF CallOK, Opens
<1>5. QED
  BY <1>1, <1>2, <1>4, Stays, NothingGrows

LEMMA AtFind ==
    ASSUME IInv, NEW w \in Thread, FindDm(w)
    PROVE  After(w) /\ Grown(w)
<1>1. /\ Types /\ CallOK(w) /\ DmOK(w) /\ pc[w] \in {"find", "again"} /\ Op(w) = "dm"
      /\ UNCHANGED <<kind, members, nextId, firsts>> /\ {"view", "conversation"} \subseteq Labels
      /\ Opens(w) /\ ~job[w].created /\ job[w].call \in Call
  BY DEF IInv, FindDm, tables, shown, CallOK, DmOK, Opens, Labels
<1>2. CASE Return(w)
  BY <1>1, <1>2, Returns, NothingGrows
<1>3. ASSUME NEW i \in DmsOf(DmPair(w)), job' = [job EXCEPT ![w].id = i], Goto(w, "view"), UNCHANGED held
      PROVE  After(w) /\ Grown(w)
  <2>1. i \in Conv /\ kind[i] = "dm" /\ members[i] = DmPair(w)
    BY DEF DmsOf
  <2>2. i < nextId
    BY <1>1, <2>1, Ids, ConversationsAssumption DEF IInv, Rows, Types
  <2>3. /\ JobMoves(w) /\ job'[w].id = i /\ job'[w].call = job[w].call /\ ~job'[w].created
        /\ PcMoves(w) /\ pc'[w] = "view"
    BY <1>1, <1>3, <2>1, SetsId, GoesTo
  <2>4. Op(w)' = "dm" /\ DmPair(w)' = DmPair(w)
    BY <1>1, <2>3 DEF Op, DmPair, Me
  <2>5. CallOK(w)'
    BY <1>1, <1>3, <2>3, <2>4 DEF CallOK
  <2>6. DmOK(w)' /\ ~Owns(w)' /\ ~Enters(w)'
    BY <1>1, <2>1, <2>2, <2>3, <2>4 DEF DmOK, Opens, Owns, Enters
  <2>7. QED
    BY <1>1, <1>3, <2>3, <2>5, <2>6, NothingGrows DEF After, Types
<1>4. CASE pc[w] = "find" /\ Goto(w, "conversation") /\ UNCHANGED <<job, held>>
  <2>1. JobMoves(w) /\ PcMoves(w) /\ pc'[w] = "conversation"
    BY <1>1, <1>4, GoesTo DEF JobMoves, Types
  <2>2. Op(w)' = "dm"
    BY <1>1, <1>4 DEF Op
  <2>3. CallOK(w)'
    BY <1>1, <1>4, <2>1, <2>2 DEF CallOK
  <2>4. DmOK(w)' /\ ~Owns(w)' /\ ~Enters(w)'
    BY <1>1, <1>4, <2>1, <2>2 DEF DmOK, Opens, Owns, Enters
  <2>5. QED
    BY <1>1, <1>4, <2>1, <2>3, <2>4, NothingGrows DEF After, Types
<1>5. QED
  BY <1>2, <1>3, <1>4 DEF FindDm

LEMMA AtConversation ==
    ASSUME IInv, NEW w \in Thread, InsertConversation(w)
    PROVE  After(w) /\ Grown(w)
<1>1. /\ Types /\ CallOK(w) /\ DmOK(w) /\ pc[w] = "conversation" /\ Op(w) = "dm"
      /\ UNCHANGED <<kind, members, firsts, held>> /\ "chat" \in Labels
      /\ Opens(w) /\ ~job[w].created /\ job[w].call \in Call
      /\ nextId \in Conv /\ nextId' = nextId + 1 /\ Goto(w, "chat")
      /\ job' = [job EXCEPT ![w].id = nextId]
  BY DEF IInv, InsertConversation, shown, CallOK, DmOK, Opens, Labels
<1>2. /\ JobMoves(w) /\ job'[w].id = nextId /\ job'[w].call = job[w].call /\ ~job'[w].created
      /\ PcMoves(w) /\ pc'[w] = "chat"
  BY <1>1, SetsId, GoesTo
<1>3. Op(w)' = "dm"
  BY <1>1, <1>2 DEF Op
<1>4. nextId \in Nat /\ nextId < nextId' /\ kind'[nextId] = None /\ firsts'[nextId] = 0
  BY <1>1, Ids DEF IInv, Rows, Types
<1>5. CallOK(w)'
  BY <1>1, <1>2, <1>3 DEF CallOK
<1>6. DmOK(w)' /\ ~Enters(w)'
  BY <1>1, <1>2, <1>3, <1>4 DEF DmOK, Opens, Owns, Enters
<1>7. Grown(w)
  BY <1>1 DEF Grown, Types
<1>8. QED
  BY <1>1, <1>2, <1>5, <1>6, <1>7 DEF After, Types

LEMMA AtChat ==
    ASSUME IInv, NEW w \in Thread, InsertChat(w)
    PROVE  After(w) /\ Grown(w)
<1>1. /\ Types /\ CallOK(w) /\ DmOK(w) /\ pc[w] = "chat" /\ Op(w) = "dm"
      /\ UNCHANGED <<kind, members, nextId, firsts>> /\ {"commit", "again"} \subseteq Labels
      /\ Opens(w) /\ ~job[w].created /\ job[w].call \in Call /\ Free(w, ChatRow(DmPair(w)))
  BY DEF IInv, InsertChat, tables, shown, CallOK, DmOK, Opens, Labels
<1>2. CASE /\ DmsOf(DmPair(w)) = {}
           /\ held' = [held EXCEPT ![w] = {ChatRow(DmPair(w))}]
           /\ Goto(w, "commit") /\ UNCHANGED job
  <2>1. JobMoves(w) /\ PcMoves(w) /\ pc'[w] = "commit"
    BY <1>1, <1>2, GoesTo DEF JobMoves, Types
  <2>2. Op(w)' = "dm" /\ DmPair(w)' = DmPair(w) /\ Opens(w)'
    BY <1>1, <1>2, <2>1 DEF Op, DmPair, Me, Opens
  <2>3. /\ held' = [v \in Thread |-> held'[v]] /\ held'[w] = {ChatRow(DmPair(w))}
        /\ \A v \in Thread \ {w} : held'[v] = held[v]
    BY <1>1, <1>2 DEF Types
  <2>4. CallOK(w)'
    BY <1>1, <1>2, <2>1, <2>2, <2>3 DEF CallOK
  <2>5. DmsOf(DmPair(w))' = {}
    BY <1>1, <1>2, <2>2 DEF DmsOf
  <2>6. Owns(w) /\ job'[w].id = job[w].id
    BY <1>1, <1>2 DEF Owns
  <2>7. DmOK(w)'
    BY <1>1, <1>2, <2>1, <2>2, <2>3, <2>5, <2>6 DEF DmOK, Opens, Owns
  <2>8. ASSUME NEW v \in Thread \ {w}, Enters(v)
        PROVE  DmPair(v) # DmPair(w)'
    <3>1. held[v] = {ChatRow(DmPair(v))}
      BY <2>8 DEF IInv, DmOK, Enters
    <3>2. ChatRow(DmPair(w)) \notin held[v]
      BY <1>1 DEF Free
    <3>3. QED
      BY <2>2, <3>1, <3>2
  <2>9. QED
    BY <1>1, <2>1, <2>3, <2>4, <2>6, <2>7, <2>8, NothingGrows DEF After
<1>3. CASE job' = [job EXCEPT ![w].id = None] /\ Goto(w, "again") /\ UNCHANGED held
  <2>1. /\ JobMoves(w) /\ job'[w].call = job[w].call /\ ~job'[w].created
        /\ PcMoves(w) /\ pc'[w] = "again"
    BY <1>1, <1>3, SetsId, GoesTo
  <2>2. Op(w)' = "dm"
    BY <1>1, <2>1 DEF Op
  <2>3. CallOK(w)'
    BY <1>1, <1>3, <2>1, <2>2 DEF CallOK
  <2>4. DmOK(w)' /\ ~Owns(w)' /\ ~Enters(w)'
    BY <1>1, <2>1, <2>2 DEF DmOK, Opens, Owns, Enters
  <2>5. QED
    BY <1>1, <1>3, <2>1, <2>3, <2>4, NothingGrows DEF After, Types
<1>4. QED
  BY <1>2, <1>3 DEF InsertChat

LEMMA AtCreate ==
    ASSUME IInv, NEW w \in Thread, CreatePalette(w)
    PROVE  After(w) /\ Grown(w)
<1>1. /\ Types /\ CallOK(w) /\ pc[w] = "create" /\ Op(w) = "palette"
      /\ UNCHANGED <<firsts, held>> /\ {"view", "member"} \subseteq Labels
      /\ job[w].call \in Call /\ nextId \in Conv /\ nextId' = nextId + 1
      /\ Goto(w, IF job[w].call.who = {} THEN "view" ELSE "member")
      /\ job' = [job EXCEPT ![w].id = nextId]
      /\ kind' = [kind EXCEPT ![nextId] = "palette"]
      /\ members' = [members EXCEPT ![nextId] = {Me(w)}]
  BY DEF IInv, CreatePalette, shown, CallOK, Labels
<1>2. /\ JobMoves(w) /\ job'[w].id = nextId /\ job'[w].call = job[w].call
      /\ PcMoves(w) /\ pc'[w] \in {"view", "member"}
  BY <1>1, SetsId, GoesTo
<1>3. Op(w)' = "palette" /\ Id(w)' = nextId /\ Me(w) \in User
  BY <1>1, <1>2, Ids, CallTyped DEF Op, Id, Me
<1>4. kind'[nextId] = "palette" /\ kind[nextId] = None
  BY <1>1, Ids DEF IInv, Rows, Types
<1>5. CallOK(w)' /\ ~Opens(w)'
  BY <1>1, <1>2, <1>3, <1>4 DEF CallOK, Opens
<1>6. Grown(w)
  <2>1. kind' \in [Conv -> {"dm", "palette", None}] /\ members' \in [Conv -> SUBSET User]
    BY <1>1, <1>3 DEF Types
  <2>2. \A i \in Conv \ {nextId} : kind'[i] = kind[i] /\ members'[i] = members[i]
    BY <1>1 DEF Types
  <2>3. QED
    BY <1>1, <1>4, <2>1, <2>2, ConversationsAssumption DEF Grown, Types
<1>7. QED
  BY <1>1, <1>2, <1>5, <1>6, Stays

LEMMA AtMember ==
    ASSUME IInv, NEW w \in Thread, CheckMember(w)
    PROVE  After(w) /\ Grown(w)
<1>1. /\ Types /\ CallOK(w) /\ pc[w] = "member" /\ Op(w) \in {"palette", "invite"}
      /\ UNCHANGED <<kind, members, nextId, firsts, held>> /\ {"view", "member", "state"} \subseteq Labels
      /\ job[w].todo \in SUBSET User
  BY DEF IInv, CheckMember, tables, shown, CallOK, Labels, Types, Job
<1>2. PICK u \in job[w].todo :
          IF u \in members[Id(w)]
          THEN /\ job' = [job EXCEPT ![w].todo = job[w].todo \ {u}]
               /\ Goto(w, IF job[w].todo = {u} THEN "view" ELSE "member")
          ELSE job' = [job EXCEPT ![w].one = u] /\ Goto(w, "state")
  BY DEF CheckMember
<1>3. u \in User /\ job[w].todo \ {u} \in SUBSET User
  BY <1>1
<1>4. /\ JobMoves(w) /\ PcMoves(w) /\ job'[w].id = job[w].id /\ job'[w].call = job[w].call
      /\ pc'[w] \in {"view", "member"} \/ (pc'[w] = "state" /\ job'[w].one = u)
  <2>1. CASE u \in members[Id(w)]
    BY <1>1, <1>2, <1>3, <2>1, SetsTodo, GoesTo
  <2>2. CASE u \notin members[Id(w)]
    BY <1>1, <1>2, <1>3, <2>2, SetsOne, GoesTo
  <2>3. QED
    BY <2>1, <2>2
<1>5. Op(w)' = Op(w) /\ Id(w)' = Id(w)
  BY <1>4 DEF Op, Id
<1>6. CallOK(w)' /\ ~Opens(w)'
  BY <1>1, <1>3, <1>4, <1>5 DEF CallOK, Opens
<1>7. QED
  BY <1>1, <1>4, <1>6, Stays, NothingGrows

\* ReadInvite and PutInvite go on to the next invitee, or to the statement between.
LEMMA AtInvite ==
    ASSUME IInv, NEW w \in Thread, ReadInvite(w) \/ PutInvite(w)
    PROVE  After(w) /\ Grown(w)
<1>1. /\ Types /\ CallOK(w) /\ pc[w] \in {"state", "upsert"} /\ Op(w) \in {"palette", "invite"}
      /\ UNCHANGED <<kind, members, nextId, firsts, held>> /\ "upsert" \in Labels
      /\ pc[w] # "idle"
  BY DEF IInv, ReadInvite, PutInvite, tables, shown, CallOK, Labels
<1>2. ASSUME NEW b \in BOOLEAN, NextInvitee(w, b)
      PROVE  After(w) /\ Grown(w)
  <2>1. /\ PcMoves(w) /\ pc'[w] \in {"member", "view"}
        /\ JobMoves(w) /\ job'[w].id = job[w].id /\ job'[w].call = job[w].call
    BY <1>1, <1>2, GoesOn
  <2>2. Op(w)' = Op(w) /\ Id(w)' = Id(w)
    BY <2>1 DEF Op, Id
  <2>3. CallOK(w)' /\ ~Opens(w)'
    BY <1>1, <2>1, <2>2 DEF CallOK, Opens
  <2>4. QED
    BY <1>1, <2>1, <2>3, Stays, NothingGrows
<1>3. CASE pc[w] = "state" /\ Goto(w, "upsert") /\ UNCHANGED job
  <2>1. PcMoves(w) /\ pc'[w] = "upsert" /\ JobMoves(w)
    BY <1>1, <1>3, GoesTo DEF JobMoves, Types
  <2>2. CallOK(w)' /\ ~Opens(w)'
    BY <1>1, <1>3, <2>1 DEF CallOK, Opens, Op, Id
  <2>3. QED
    BY <1>1, <2>1, <2>2, Stays, NothingGrows
<1>4. QED
  BY <1>2, <1>3 DEF ReadInvite, PutInvite

LEMMA AtTake ==
    ASSUME IInv, NEW w \in Thread, TakeInvite(w)
    PROVE  After(w) /\ Grown(w)
<1>1. /\ Types /\ CallOK(w) /\ pc[w] = "take" /\ Op(w) = "accept"
      /\ UNCHANGED <<kind, members, nextId, firsts>> /\ "commit" \in Labels
      /\ job[w].call \in Call /\ Id(w) \in Conv /\ Me(w) \in User
  BY IdTyped, CallTyped DEF IInv, TakeInvite, tables, shown, CallOK, Labels, Me
<1>2. CASE Return(w)
  BY <1>1, <1>2, Returns, NothingGrows
<1>3. CASE /\ Pending(Id(w), Me(w), job[w].now)
           /\ held' = [held EXCEPT ![w] = {InviteRow(Id(w), Me(w))}]
           /\ Goto(w, "commit") /\ UNCHANGED job
  <2>1. PcMoves(w) /\ pc'[w] = "commit" /\ JobMoves(w)
    BY <1>1, <1>3, GoesTo DEF JobMoves, Types
  <2>2. /\ held' = [v \in Thread |-> held'[v]] /\ held'[w] # {}
        /\ \A v \in Thread \ {w} : held'[v] = held[v]
    BY <1>1, <1>3 DEF Types
  <2>3. kind[Id(w)] = "palette"
    BY <1>1, <1>3 DEF Pending, IInv, Rows
  <2>4. Op(w)' = "accept" /\ Id(w)' = Id(w)
    BY <1>1, <1>3 DEF Op, Id
  <2>5. CallOK(w)' /\ ~Opens(w)'
    BY <1>1, <1>3, <2>1, <2>2, <2>3, <2>4 DEF CallOK, Opens
  <2>6. QED
    BY <1>1, <2>1, <2>2, <2>5, NothingGrows DEF After, DmOK, Owns, Enters
<1>4. QED
  BY <1>2, <1>3 DEF TakeInvite

\* A commit, whether or not it takes effect, releases the row and goes on to the
\* answer; a dm is owned until then.
LEMMA AtCommit ==
    ASSUME IInv, NEW w \in Thread, Commit(w) \/ LoseCommit(w)
    PROVE  After(w) /\ Grown(w)
<1>1. /\ Types /\ CallOK(w) /\ DmOK(w) /\ pc[w] = "commit" /\ Op(w) \in {"dm", "accept"}
      /\ UNCHANGED <<nextId, firsts>> /\ "view" \in Labels
      /\ job[w].call \in Call /\ Id(w) \in Conv
      /\ job' = [job EXCEPT ![w].created = TRUE] /\ Goto(w, "view")
      /\ held' = [held EXCEPT ![w] = {}]
  BY IdTyped DEF IInv, Commit, LoseCommit, tables, shown, CallOK, Labels
<1>2. /\ JobMoves(w) /\ job'[w].id = job[w].id /\ job'[w].call = job[w].call /\ job'[w].created
      /\ PcMoves(w) /\ pc'[w] = "view"
  BY <1>1, SetsCreated, GoesTo
<1>3. /\ held' = [v \in Thread |-> held'[v]] /\ held'[w] = {}
      /\ \A v \in Thread \ {w} : held'[v] = held[v]
  BY <1>1 DEF Types
<1>4. Op(w)' = Op(w) /\ Id(w)' = Id(w) /\ DmPair(w)' = DmPair(w)
  BY <1>2 DEF Op, Id, DmPair, Me
<1>5. CallOK(w)'
  BY <1>1, <1>2, <1>3, <1>4 DEF CallOK
<1>6. ~Enters(w)' /\ (Opens(w)' <=> Op(w) = "dm") /\ (Owns(w)' <=> Op(w) = "dm")
  BY <1>1, <1>2, <1>4 DEF Enters, Opens, Owns
<1>7. CASE Op(w) = "dm"
  <2>1. /\ Opens(w) /\ Enters(w) /\ Owns(w)
        /\ job[w].id \in Conv /\ job[w].id < nextId /\ kind[job[w].id] = None
        /\ firsts[job[w].id] = 0 /\ Id(w) = job[w].id
    BY <1>1, <1>7, IdTyped, Ids DEF DmOK, Opens, Owns, Enters
  <2>2. CASE LoseCommit(w)
    <3>1. UNCHANGED <<kind, members>>
      BY <2>2 DEF LoseCommit, tables
    <3>2. DmOK(w)'
      BY <1>1, <1>2, <1>4, <2>1, <3>1 DEF DmOK
    <3>3. QED
      BY <1>1, <1>2, <1>3, <1>5, <1>6, <2>1, <3>1, <3>2, NothingGrows DEF After
  <2>3. CASE Commit(w)
    <3>1. /\ kind' = [kind EXCEPT ![job[w].id] = "dm"]
          /\ members' = [members EXCEPT ![job[w].id] = DmPair(w)]
      BY <1>7, <2>1, <2>3 DEF Commit
    <3>2. /\ kind'[job[w].id] = "dm" /\ members'[job[w].id] = DmPair(w)
          /\ \A i \in Conv \ {job[w].id} : kind'[i] = kind[i] /\ members'[i] = members[i]
      BY <1>1, <2>1, <3>1 DEF Types
    <3>3. DmOK(w)'
      BY <1>1, <1>2, <1>4, <2>1, <3>2 DEF DmOK
    <3>4. DmPair(w) \in SUBSET User
      BY <1>1, CallTyped DEF DmPair, Me
    <3>5. kind' \in [Conv -> {"dm", "palette", None}] /\ members' \in [Conv -> SUBSET User]
      BY <1>1, <3>1, <3>4 DEF Types
    <3>6. Grown(w)
      BY <1>1, <2>1, <3>2, <3>5, ConversationsAssumption DEF Grown, Types
    <3>7. QED
      BY <1>1, <1>2, <1>3, <1>5, <1>6, <2>1, <3>3, <3>6 DEF After
  <2>4. QED
    BY <2>2, <2>3
<1>8. CASE Op(w) = "accept"
  <2>1. After(w)
    BY <1>2, <1>3, <1>5, <1>6, <1>8 DEF After, DmOK
  <2>2. CASE LoseCommit(w)
    BY <1>1, <2>1, <2>2, NothingGrows DEF LoseCommit, tables
  <2>3. CASE Commit(w)
    <3>1. kind' = kind /\ members' = [members EXCEPT ![Id(w)] = @ \cup {Me(w)}] /\ Me(w) \in User
      BY <1>1, <1>8, <2>3, CallTyped DEF Commit, Me
    <3>2. kind[Id(w)] = "palette"
      BY <1>1, <1>8 DEF CallOK
    <3>3. members' \in [Conv -> SUBSET User]
      BY <1>1, <3>1 DEF Types
    <3>4. \A i \in Conv \ {Id(w)} : members'[i] = members[i]
      BY <1>1, <3>1 DEF Types
    <3>5. QED
      BY <1>1, <2>1, <3>1, <3>2, <3>3, <3>4 DEF Grown, Types
  <2>4. QED
    BY <2>2, <2>3
<1>9. QED
  BY <1>1, <1>7, <1>8

LEMMA AtDecline ==
    ASSUME IInv, NEW w \in Thread, DeclineInvite(w)
    PROVE  After(w) /\ Grown(w)
  BY Returns, NothingGrows DEF DeclineInvite, IInv, shown

LEMMA AtView ==
    ASSUME IInv, NEW w \in Thread, ReadView(w)
    PROVE  After(w) /\ Grown(w)
<1>1. /\ Types /\ CallOK(w) /\ DmOK(w) /\ pc[w] = "view"
      /\ UNCHANGED <<kind, members, nextId, firsts>> /\ "tell" \in Labels
      /\ job[w].call \in Call /\ Id(w) \in Conv
  BY IdTyped DEF IInv, ReadView, tables, shown, CallOK, Labels
<1>2. CASE Return(w)
  BY <1>1, <1>2, Returns, NothingGrows
<1>3. CASE /\ kind[Id(w)] # None /\ UNCHANGED held
           /\ job' = [job EXCEPT ![w].view = members[Id(w)]] /\ Goto(w, "tell")
  <2>1. members[Id(w)] \in SUBSET User
    BY <1>1 DEF Types
  <2>2. /\ JobMoves(w) /\ job'[w].id = job[w].id /\ job'[w].call = job[w].call
        /\ job'[w].created = job[w].created /\ PcMoves(w) /\ pc'[w] = "tell"
    BY <1>1, <1>3, <2>1, SetsView, GoesTo
  <2>3. Op(w)' = Op(w) /\ Id(w)' = Id(w) /\ DmPair(w)' = DmPair(w)
    BY <2>2 DEF Op, Id, DmPair, Me
  <2>4. CallOK(w)'
    BY <1>1, <1>3, <2>2, <2>3 DEF CallOK
  <2>5. (Opens(w)' <=> Opens(w)) /\ (Owns(w)' <=> Owns(w)) /\ ~Enters(w)'
    BY <1>1, <2>2, <2>3 DEF Opens, Owns, Enters
  <2>6. Opens(w) => Id(w) = job[w].id
    BY <1>1, IdTyped, Ids DEF DmOK
  <2>7. DmOK(w)'
    BY <1>1, <1>3, <2>2, <2>3, <2>5, <2>6 DEF DmOK
  <2>8. QED
    BY <1>1, <1>3, <2>2, <2>4, <2>5, <2>7, NothingGrows DEF After, Types
<1>4. QED
  BY <1>2, <1>3 DEF ReadView

LEMMA AtTell ==
    ASSUME IInv, NEW w \in Thread, Tell(w)
    PROVE  After(w) /\ Grown(w)
<1>1. /\ Types /\ CallOK(w) /\ DmOK(w) /\ pc[w] = "tell"
      /\ UNCHANGED <<kind, members, nextId>>
      /\ job[w].call \in Call /\ Id(w) \in Conv /\ job[w].todo \in SUBSET User
      /\ Audience(w) \in SUBSET User
  <2>1. /\ Types /\ CallOK(w) /\ DmOK(w) /\ pc[w] = "tell" /\ UNCHANGED <<kind, members, nextId>>
        /\ job[w].call \in Call /\ Id(w) \in Conv /\ job[w] \in Job
    BY IdTyped DEF IInv, Tell, tables, CallOK, Types
  <2>2. job[w].todo \in SUBSET User /\ job[w].view \in SUBSET User /\ Me(w) \in User
        /\ DmPair(w) \in SUBSET User
    BY <2>1, CallTyped DEF Job, DmPair, Me
  <2>3. Op(w) \in {"dm", "palette", "accept", "invite"}
    BY <2>1, CallTyped DEF CallOK, Op
  <2>4. QED
    BY <2>1, <2>2, <2>3 DEF Audience
<1>2. ASSUME NEW u \in User, job' = [job EXCEPT ![w].todo = job[w].todo \cup {u}],
             UNCHANGED <<pc, held, firsts>>
      PROVE  After(w) /\ Grown(w)
  <2>1. job[w].todo \cup {u} \in SUBSET User
    BY <1>1
  <2>2. /\ JobMoves(w) /\ job'[w].id = job[w].id /\ job'[w].call = job[w].call
        /\ job'[w].created = job[w].created
    BY <1>1, <1>2, <2>1, SetsTodo
  <2>3. PcMoves(w) /\ pc'[w] = "tell"
    BY <1>1, <1>2 DEF PcMoves, Types
  <2>4. Op(w)' = Op(w) /\ Id(w)' = Id(w) /\ DmPair(w)' = DmPair(w)
    BY <2>2 DEF Op, Id, DmPair, Me
  <2>5. CallOK(w)'
    BY <1>1, <1>2, <2>2, <2>3, <2>4 DEF CallOK
  <2>6. (Opens(w)' <=> Opens(w)) /\ (Owns(w)' <=> Owns(w)) /\ ~Enters(w)'
    BY <1>1, <2>2, <2>3, <2>4 DEF Opens, Owns, Enters
  <2>7. DmOK(w)'
    BY <1>1, <1>2, <2>2, <2>3, <2>4, <2>6 DEF DmOK
  <2>8. QED
    BY <1>1, <1>2, <2>2, <2>3, <2>5, <2>6, <2>7, NothingGrows DEF After, Types
<1>3. ASSUME Return(w), firsts' = IF Op(w) = "dm" /\ job[w].created
                                  THEN [firsts EXCEPT ![Id(w)] = @ + 1] ELSE firsts
      PROVE  After(w) /\ Grown(w)
  <2>1. After(w) /\ ~Owns(w)'
    BY <1>3, Returns DEF Owns
  <2>2. CASE Op(w) = "dm" /\ job[w].created
    <3>1. Owns(w) /\ Id(w) = job[w].id
      BY <1>1, <2>2, IdTyped, Ids DEF DmOK, Opens, Owns
    <3>2. /\ firsts' \in [Conv -> Nat]
          /\ \A i \in Conv : firsts'[i] # firsts[i] => i = job[w].id /\ firsts'[i] = firsts[i] + 1
      BY <1>1, <1>3, <2>2, <3>1 DEF Types
    <3>3. QED
      BY <1>1, <2>1, <3>1, <3>2 DEF Grown, Types
  <2>3. CASE ~(Op(w) = "dm" /\ job[w].created)
    BY <1>1, <1>3, <2>1, <2>3, NothingGrows
  <2>4. QED
    BY <2>2, <2>3
<1>4. QED
  <2>1. CASE Audience(w) \ job[w].todo # {}
    <3>1. PICK u \in Audience(w) \ job[w].todo :
              /\ job' = [job EXCEPT ![w].todo = job[w].todo \cup {u}]
              /\ UNCHANGED <<pc, held, firsts>>
      BY <2>1 DEF Tell
    <3>2. QED
      BY <1>1, <1>2, <3>1
  <2>2. CASE Audience(w) \ job[w].todo = {}
    BY <1>3, <2>2 DEF Tell
  <2>3. QED
    BY <2>1, <2>2

LEMMA AtFault ==
    ASSUME IInv, NEW w \in Thread, Fault(w)
    PROVE  After(w) /\ Grown(w)
<1>1. /\ Types /\ CallOK(w) /\ DmOK(w) /\ pc[w] # "idle" /\ job[w].call \in Call
      /\ UNCHANGED <<kind, members, nextId, firsts>> /\ "again" \in Labels
  BY DEF IInv, Fault, tables, shown, CallOK, Labels
<1>2. CASE Return(w)
  BY <1>1, <1>2, Returns, NothingGrows
<1>3. CASE /\ Op(w) = "dm" /\ pc[w] \in {"conversation", "chat", "commit"}
           /\ held' = [held EXCEPT ![w] = {}]
           /\ job' = [job EXCEPT ![w].id = None]
           /\ Goto(w, "again")
  <2>1. /\ JobMoves(w) /\ job'[w].call = job[w].call /\ job'[w].created = job[w].created
        /\ PcMoves(w) /\ pc'[w] = "again"
    BY <1>1, <1>3, SetsId, GoesTo
  <2>2. /\ held' = [v \in Thread |-> held'[v]] /\ held'[w] = {}
        /\ \A v \in Thread \ {w} : held'[v] = held[v]
    BY <1>1, <1>3 DEF Types
  <2>3. Op(w)' = "dm" /\ ~job'[w].created
    BY <1>1, <1>3, <2>1 DEF Op, DmOK, Opens
  <2>4. CallOK(w)'
    BY <1>1, <2>1, <2>2, <2>3 DEF CallOK
  <2>5. DmOK(w)' /\ ~Owns(w)' /\ ~Enters(w)'
    BY <2>1, <2>3 DEF DmOK, Opens, Owns, Enters
  <2>6. QED
    BY <1>1, <2>1, <2>2, <2>4, <2>5, NothingGrows DEF After
<1>4. QED
  BY <1>2, <1>3 DEF Fault

\* The steps of a thread, and of the partings.
ThreadStep(w) == (\E c \in Call : Begin(w, c)) \/ Step(w) \/ Fault(w) \/ LoseCommit(w)
PartingStep(p) == DeleteInvites(p) \/ CommitParting(p) \/ RollBackParting(p)

LEMMA Steps == Next <=> \/ \E w \in Thread : ThreadStep(w)
                        \/ \E p \in Pair : PartingStep(p)
                        \/ Tick
  BY DEF Next, ThreadStep, PartingStep

LEMMA ThreadMoves ==
    ASSUME IInv, NEW w \in Thread, ThreadStep(w)
    PROVE  After(w) /\ Grown(w)
  BY AtBegin, AtPalette, AtAllies, AtClock, AtFind, AtConversation, AtChat, AtCreate, AtMember,
     AtInvite, AtTake, AtCommit, AtDecline, AtView, AtTell, AtFault DEF ThreadStep, Step

\* Every step is a step of one thread, or of none.
LEMMA WhoMoves ==
    ASSUME IInv, [Next]_vars
    PROVE  \/ UNCHANGED <<kind, members, nextId, held, pc, job, firsts>>
           \/ \E w \in Thread : After(w) /\ Grown(w)
<1>1. CASE \E p \in Pair : PartingStep(p)
  BY <1>1 DEF PartingStep, DeleteInvites, CommitParting, RollBackParting, tables, shown
<1>2. CASE Tick \/ UNCHANGED vars
  BY <1>2 DEF Tick, tables, shown, vars
<1>3. QED
  BY <1>1, <1>2, ThreadMoves, Steps

\* No thread changes the contact graph.
LEMMA GraphStands ==
    ASSUME [Next]_vars, ~\E p \in Pair : PartingStep(p)
    PROVE  allied' = allied /\ parting' = parting /\ doomed' = doomed
<1>1. ASSUME NEW w \in Thread, ThreadStep(w)
      PROVE  allied' = allied /\ parting' = parting /\ doomed' = doomed
  <2>1. Step(w) => UNCHANGED partings
    BY DEF Step, CheckPalette, CheckAllies, ReadClock, FindDm, InsertConversation, InsertChat,
       CreatePalette, CheckMember, ReadInvite, PutInvite, TakeInvite, Commit, DeclineInvite,
       ReadView, Tell, world
  <2>2. UNCHANGED partings
    BY <1>1, <2>1 DEF ThreadStep, Begin, Fault, LoseCommit
  <2>3. QED
    BY <2>2 DEF partings
<1>2. CASE Tick \/ UNCHANGED vars
  BY <1>2 DEF Tick, vars, partings
<1>3. QED
  BY <1>1, <1>2, Steps

\* Invitations keep their type, and refer to palettes.
LEMMA InvitesKept ==
    ASSUME IInv, [Next]_vars
    PROVE  /\ invites' \in [Conv -> [User -> Invitation \cup {None}]]
           /\ \A i \in Conv, u \in User : invites'[i][u] # None => kind[i] = "palette"
<1>1. /\ invites \in [Conv -> [User -> Invitation \cup {None}]]
      /\ \A i \in Conv, u \in User : invites[i][u] # None => kind[i] = "palette"
  BY DEF IInv, Types, Rows
<1>2. ASSUME NEW w \in Thread, PutInvite(w)
      PROVE  /\ invites' \in [Conv -> [User -> Invitation \cup {None}]]
             /\ \A i \in Conv, u \in User : invites'[i][u] # None => kind[i] = "palette"
  <2> DEFINE row == [by |-> Me(w), created |-> job[w].now, declined |-> None,
                     timing |-> Timing(w, job[w].one)]
  <2>1. Id(w) \in Conv /\ kind[Id(w)] = "palette" /\ job[w].one \in User /\ row \in Invitation
    BY <1>2, IdTyped, CallTyped DEF PutInvite, IInv, CallOK, Types, Job, Invitation, Me, Timing
  <2>2. invites' = [invites EXCEPT ![Id(w)][job[w].one] = row]
    BY <1>2 DEF PutInvite
  <2> HIDE DEF row
  <2>3. QED
    BY <1>1, <2>1, <2>2
<1>3. ASSUME NEW w \in Thread, DeclineInvite(w)
      PROVE  /\ invites' \in [Conv -> [User -> Invitation \cup {None}]]
             /\ \A i \in Conv, u \in User : invites'[i][u] # None => kind[i] = "palette"
  <2>1. Id(w) \in Conv /\ Me(w) \in User /\ job[w].now \in Nat
    BY <1>3, IdTyped, CallTyped DEF DeclineInvite, IInv, CallOK, Types, Job, Me
  <2>2. CASE Pending(Id(w), Me(w), job[w].now)
    <3> DEFINE row == [invites[Id(w)][Me(w)] EXCEPT !.declined = job[w].now]
    <3>1. invites[Id(w)][Me(w)] \in Invitation /\ kind[Id(w)] = "palette"
      BY <1>1, <2>1, <2>2 DEF Pending
    <3>2. row \in Invitation
      BY <2>1, <3>1 DEF Invitation
    <3>3. invites' = [invites EXCEPT ![Id(w)][Me(w)] = row]
      BY <1>3, <2>2 DEF DeclineInvite
    <3> HIDE DEF row
    <3>4. QED
      BY <1>1, <2>1, <3>1, <3>2, <3>3
  <2>3. CASE ~Pending(Id(w), Me(w), job[w].now)
    BY <1>1, <1>3, <2>3 DEF DeclineInvite
  <2>4. QED
    BY <2>2, <2>3
<1>4. ASSUME NEW w \in Thread, Commit(w)
      PROVE  /\ invites' \in [Conv -> [User -> Invitation \cup {None}]]
             /\ \A i \in Conv, u \in User : invites'[i][u] # None => kind[i] = "palette"
  <2>1. Id(w) \in Conv /\ Me(w) \in User
    BY <1>4, IdTyped, CallTyped DEF Commit, IInv, CallOK, Me
  <2>2. invites' = invites \/ invites' = [invites EXCEPT ![Id(w)][Me(w)] = None]
    BY <1>4 DEF Commit
  <2>3. QED
    BY <1>1, <2>1, <2>2
<1>5. ASSUME NEW p \in Pair, CommitParting(p)
      PROVE  /\ invites' \in [Conv -> [User -> Invitation \cup {None}]]
             /\ \A i \in Conv, u \in User : invites'[i][u] # None => kind[i] = "palette"
  <2>1. invites' = [i \in Conv |-> [u \in User |->
                       IF InviteRow(i, u) \in doomed[p] THEN None ELSE invites[i][u]]]
    BY <1>5 DEF CommitParting
  <2>2. QED
    BY <1>1, <2>1
<1>6. CASE UNCHANGED invites
  BY <1>1, <1>6
<1>7. CASE \E w \in Thread : ThreadStep(w)
  BY <1>2, <1>3, <1>4, <1>6, <1>7 DEF ThreadStep, Step, Begin, CheckPalette, CheckAllies, ReadClock,
     FindDm, InsertConversation, InsertChat, CreatePalette, CheckMember, ReadInvite, TakeInvite,
     ReadView, Tell, Fault, LoseCommit, tables
<1>8. CASE (\E p \in Pair : PartingStep(p)) \/ Tick \/ UNCHANGED vars
  BY <1>5, <1>6, <1>8 DEF PartingStep, DeleteInvites, RollBackParting, Tick, tables, vars
<1>9. QED
  BY <1>7, <1>8, Steps

\* So do the variables that are about the contact graph alone.
LEMMA GraphKept ==
    ASSUME IInv, [Next]_vars
    PROVE  /\ allied' \subseteq Pair /\ parting' \subseteq allied'
           /\ doomed' = [p \in Pair |-> doomed'[p]]
           /\ \A p \in Pair : doomed'[p] # {} => p \in parting'
<1>1. /\ allied \subseteq Pair /\ parting \subseteq allied
      /\ doomed = [p \in Pair |-> doomed[p]]
      /\ \A p \in Pair : doomed[p] # {} => p \in parting
  BY DEF IInv, Types
<1>2. ASSUME NEW q \in Pair, NEW S, doomed' = [doomed EXCEPT ![q] = S]
      PROVE  /\ doomed' = [p \in Pair |-> doomed'[p]]
             /\ doomed'[q] = S /\ \A p \in Pair \ {q} : doomed'[p] = doomed[p]
  BY <1>1, <1>2
<1>3. ASSUME NEW q \in Pair, DeleteInvites(q)
      PROVE  /\ allied' \subseteq Pair /\ parting' \subseteq allied'
             /\ doomed' = [p \in Pair |-> doomed'[p]]
             /\ \A p \in Pair : doomed'[p] # {} => p \in parting'
  <2>1. /\ q \in allied /\ allied' = allied /\ parting' = parting \cup {q}
        /\ doomed' = [doomed EXCEPT ![q] =
               UNION {{InviteRow(i, u) : i \in {j \in Conv : Between(q, j, u)}} : u \in q}]
    BY <1>3 DEF DeleteInvites
  <2> DEFINE S == UNION {{InviteRow(i, u) : i \in {j \in Conv : Between(q, j, u)}} : u \in q}
  <2>2. doomed' = [doomed EXCEPT ![q] = S]
    BY <2>1
  <2> HIDE DEF S
  <2>3. /\ doomed' = [p \in Pair |-> doomed'[p]]
        /\ \A p \in Pair \ {q} : doomed'[p] = doomed[p]
    BY <1>2, <2>2
  <2>4. QED
    BY <1>1, <2>1, <2>3
<1>4. ASSUME NEW q \in Pair, CommitParting(q) \/ RollBackParting(q)
      PROVE  /\ allied' \subseteq Pair /\ parting' \subseteq allied'
             /\ doomed' = [p \in Pair |-> doomed'[p]]
             /\ \A p \in Pair : doomed'[p] # {} => p \in parting'
  <2>1. /\ allied' = allied \/ allied' = allied \ {q}
        /\ parting' = parting \ {q}
        /\ doomed' = [doomed EXCEPT ![q] = {}]
    BY <1>4 DEF CommitParting, RollBackParting
  <2>2. /\ doomed' = [p \in Pair |-> doomed'[p]] /\ doomed'[q] = {}
        /\ \A p \in Pair \ {q} : doomed'[p] = doomed[p]
    BY <1>2, <2>1
  <2>3. QED
    BY <1>1, <2>1, <2>2
<1>5. CASE ~\E p \in Pair : PartingStep(p)
  BY <1>1, <1>5, GraphStands
<1>6. QED
  BY <1>3, <1>4, <1>5 DEF PartingStep

\* The events a step is counted with.
LEMMA BudgetSpent ==
    ASSUME [Next]_vars
    PROVE  \/ UNCHANGED budget
           \/ Spend("calls") \/ Spend("partings") \/ Spend("instants")
           \/ Spend("faults")
<1>1. ASSUME NEW w \in Thread, ThreadStep(w)
      PROVE  UNCHANGED budget \/ Spend("calls") \/ Spend("faults")
  <2>1. Step(w) => UNCHANGED budget
    BY DEF Step, CheckPalette, CheckAllies, ReadClock, FindDm, InsertConversation, InsertChat,
       CreatePalette, CheckMember, ReadInvite, PutInvite, TakeInvite, Commit, DeclineInvite,
       ReadView, Tell, world
  <2>2. QED
    BY <1>1, <2>1 DEF ThreadStep, Begin, Fault, LoseCommit
<1>2. ASSUME NEW p \in Pair, PartingStep(p)
      PROVE  UNCHANGED budget \/ Spend("partings") \/ Spend("faults")
  BY <1>2 DEF PartingStep, DeleteInvites, CommitParting, RollBackParting
<1>3. QED
  BY <1>1, <1>2, Steps DEF Tick, vars

LEMMA SeenKept ==
    ASSUME IInv, [Next]_vars
    PROVE  seen' \in [Conv -> [User -> SUBSET User]]
<1>1. seen \in [Conv -> [User -> SUBSET User]]
  BY DEF IInv, Types
<1>2. ASSUME NEW w \in Thread, Tell(w)
      PROVE  seen' \in [Conv -> [User -> SUBSET User]]
  <2>1. Id(w) \in Conv /\ job[w].view \in SUBSET User
    BY <1>2, IdTyped DEF Tell, IInv, Types, Job
  <2>2. Audience(w) \in SUBSET User
    <3>1. job[w].view \in SUBSET User /\ Me(w) \in User /\ DmPair(w) \in SUBSET User
          /\ Op(w) \in {"dm", "palette", "accept", "invite"}
      BY <1>2, <2>1, CallTyped DEF Tell, IInv, CallOK, DmPair, Me, Op
    <3>2. QED
      BY <3>1 DEF Audience
  <2>3. seen' = seen \/ \E u \in User : seen' = [seen EXCEPT ![Id(w)][u] = job[w].view]
    BY <1>2, <2>2 DEF Tell
  <2>4. ASSUME NEW u \in User, seen' = [seen EXCEPT ![Id(w)][u] = job[w].view]
        PROVE  seen' \in [Conv -> [User -> SUBSET User]]
    BY <1>1, <2>1, <2>4
  <2>5. QED
    BY <1>1, <2>3, <2>4
<1>3. UNCHANGED seen => seen' \in [Conv -> [User -> SUBSET User]]
  BY <1>1
<1>4. CASE \E w \in Thread : ThreadStep(w)
  BY <1>2, <1>3, <1>4 DEF ThreadStep, Step, Begin, CheckPalette, CheckAllies, ReadClock, FindDm,
     InsertConversation, InsertChat, CreatePalette, CheckMember, ReadInvite, PutInvite, TakeInvite,
     Commit, DeclineInvite, ReadView, Fault, LoseCommit, shown
<1>5. CASE (\E p \in Pair : PartingStep(p)) \/ Tick \/ UNCHANGED vars
  BY <1>3, <1>5 DEF PartingStep, DeleteInvites, CommitParting, RollBackParting, Tick, shown, vars
<1>6. QED
  BY <1>4, <1>5, Steps

\* Only a commit adds to who was overtaken.
LEMMA OvertakenGrows ==
    ASSUME IInv, [Next]_vars
    PROVE  /\ overtaken' \in [Conv -> SUBSET User]
           /\ \A i \in Conv : overtaken[i] \subseteq overtaken'[i]
<1>1. overtaken \in [Conv -> SUBSET User]
  BY DEF IInv, Types
<1>2. ASSUME NEW w \in Thread, Commit(w)
      PROVE  /\ overtaken' \in [Conv -> SUBSET User]
             /\ \A i \in Conv : overtaken[i] \subseteq overtaken'[i]
  <2>1. Id(w) \in Conv /\ Me(w) \in User
    BY <1>2, IdTyped, CallTyped DEF Commit, IInv, CallOK, Me
  <2>2. \/ overtaken' = overtaken
        \/ overtaken' = [overtaken EXCEPT ![Id(w)] = overtaken[Id(w)] \cup {Me(w)}]
    BY <1>2 DEF Commit
  <2>3. overtaken[Id(w)] \cup {Me(w)} \in SUBSET User
    BY <1>1, <2>1
  <2>4. QED
    BY <1>1, <2>1, <2>2, <2>3
<1>3. CASE UNCHANGED overtaken
  BY <1>1, <1>3
<1>4. CASE \E w \in Thread : ThreadStep(w)
  BY <1>2, <1>3, <1>4 DEF ThreadStep, Step, Begin, CheckPalette, CheckAllies, ReadClock, FindDm,
     InsertConversation, InsertChat, CreatePalette, CheckMember, ReadInvite, PutInvite, TakeInvite,
     Tell, DeclineInvite, ReadView, Fault, LoseCommit, shown
<1>5. CASE (\E p \in Pair : PartingStep(p)) \/ Tick \/ UNCHANGED vars
  BY <1>3, <1>5 DEF PartingStep, DeleteInvites, CommitParting, RollBackParting, Tick, shown, vars
<1>6. QED
  BY <1>4, <1>5, Steps

LEMMA ClockKept ==
    ASSUME IInv, [Next]_vars
    PROVE  clock' \in Nat
<1>1. clock \in Nat
  BY DEF IInv, Types
<1>2. CASE \E w \in Thread : ThreadStep(w)
  BY <1>1, <1>2 DEF ThreadStep, Begin, Step, CheckPalette, CheckAllies, ReadClock, FindDm,
     InsertConversation, InsertChat, CreatePalette, CheckMember, ReadInvite, PutInvite, TakeInvite,
     Commit, DeclineInvite, ReadView, Tell, Fault, LoseCommit, world
<1>3. CASE (\E p \in Pair : PartingStep(p)) \/ Tick \/ UNCHANGED vars
  BY <1>1, <1>3 DEF PartingStep, DeleteInvites, CommitParting, RollBackParting, Tick, vars
<1>4. QED
  BY <1>2, <1>3, Steps

\* And so do the variables that only the environment or the history is about.
LEMMA WorldKept ==
    ASSUME IInv, [Next]_vars
    PROVE  /\ allied' \subseteq Pair /\ parting' \subseteq allied'
           /\ doomed' = [p \in Pair |-> doomed'[p]]
           /\ \A p \in Pair : doomed'[p] # {} => p \in parting'
           /\ clock' \in Nat
           /\ seen' \in [Conv -> [User -> SUBSET User]]
           /\ overtaken' \in [Conv -> SUBSET User]
           /\ budget' \in [Bounded -> Nat]
<1>1. budget' \in [Bounded -> Nat]
  <2>1. budget \in [Bounded -> Nat]
    BY DEF IInv, Types
  <2>2. ASSUME NEW e \in Bounded, Spend(e)
        PROVE  budget' \in [Bounded -> Nat]
    <3>1. budget' = [budget EXCEPT ![e] = budget[e] + 1] /\ budget[e] + 1 \in Nat
      BY <2>1, <2>2 DEF Spend
    <3>2. QED
      BY <2>1, <3>1
  <2>3. {"calls", "partings", "instants", "faults"} \subseteq Bounded
    BY DEF Bounded
  <2>4. QED
    BY <2>1, <2>2, <2>3, BudgetSpent
<1>2. QED
  BY <1>1, GraphKept, ClockKept, SeenKept, OvertakenGrows
-----------------------------------------------------------------------------
(* Theorems *)

LEMMA StepKept == IInv /\ [Next]_vars => IInv'
<1> SUFFICES ASSUME IInv, [Next]_vars PROVE IInv'
  OBVIOUS
<1>1. CASE UNCHANGED <<kind, members, nextId, held, pc, job, firsts>>
  <2>1. Types'
    BY <1>1, InvitesKept, WorldKept DEF IInv, Types
  <2>2. Rows'
    BY <1>1, InvitesKept DEF IInv, Rows
  <2>3. \A w \in Thread : CallOK(w)'
    BY <1>1 DEF IInv, CallOK, Op, Id
  <2>4. \A w \in Thread : DmOK(w)'
    BY <1>1 DEF IInv, DmOK, Opens, Owns, Op, DmPair, Me, DmsOf
  <2>5. Apart' /\ Unique'
    BY <1>1 DEF IInv, Apart, Unique, Owns, Enters, Opens, Op, DmPair, Me
  <2>6. QED
    BY <2>1, <2>2, <2>3, <2>4, <2>5 DEF IInv
<1>2. ASSUME NEW w \in Thread, After(w), Grown(w)
      PROVE  IInv'
  <2>1. Types /\ Rows
    BY DEF IInv
  <2>2. Types'
    BY <1>2, <2>1, InvitesKept, WorldKept, Ids DEF Types, After, PcMoves, JobMoves, Grown
  <2>3. nextId \in Nat /\ nextId' \in Nat /\ nextId' >= nextId
    BY <1>2, <2>1, Ids DEF Types, Grown
  <2>4. Owns(w) => job[w].id < nextId /\ firsts[job[w].id] = 0 /\ job[w].id \in Conv
    BY DEF IInv, DmOK, Owns
  <2>5. Enters(w) => Owns(w)
    BY DEF Enters, Owns
  <2>6. ASSUME NEW i \in Conv
        PROVE  /\ i >= nextId' => kind'[i] = None /\ firsts'[i] = 0
               /\ firsts'[i] <= 1
    <3>1. i \in Nat /\ firsts[i] \in Nat
      BY <2>1, Ids DEF Types
    <3>2. i >= nextId' => i >= nextId /\ kind[i] = None /\ firsts[i] = 0
      BY <2>1, <2>3, <3>1 DEF Rows
    <3>3. i >= nextId' => kind'[i] = kind[i]
      BY <1>2, <2>3, <2>4, <2>5, <3>1 DEF Grown
    <3>4. i >= nextId' => firsts'[i] = firsts[i]
      BY <1>2, <2>3, <2>4, <3>1 DEF Grown
    <3>5. firsts'[i] <= 1
      BY <1>2, <2>1, <2>4, <3>1 DEF Grown, Rows
    <3>6. QED
      BY <3>2, <3>3, <3>4, <3>5
  <2>7. \A i \in Conv, u \in User : invites'[i][u] # None => kind'[i] = "palette"
    BY <1>2, InvitesKept, ConversationsAssumption DEF Grown
  <2>8. QED
    BY <1>2, <2>2, <2>6, <2>7, StepKeeps DEF IInv, Rows
<1>3. QED
  BY <1>1, <1>2, WhoMoves

LEMMA InitInv == Init => IInv
<1> SUFFICES ASSUME Init PROVE IInv
  OBVIOUS
<1>1. Types
  <2>1. members \in [Conv -> SUBSET User]
    BY ConversationsAssumption, Ids DEF Init
  <2>2. invites \in [Conv -> [User -> Invitation \cup {None}]]
    <3>1. ASSUME NEW i \in Conv, NEW u \in User
          PROVE  (IF i \notin DOMAIN Palettes \/ u \in Palettes[i] THEN None
                  ELSE [by |-> Inviter[i], created |-> 0, declined |-> None, timing |-> "before"]) \in Invitation \cup {None}
      BY ConversationsAssumption DEF Invitation
    <3>2. QED
      BY <3>1 DEF Init
  <2>3. seen \in [Conv -> [User -> SUBSET User]]
    BY <2>1 DEF Init
  <2>4. /\ allied \subseteq Pair /\ parting \subseteq allied /\ nextId = Len(Palettes) + 1
        /\ doomed = [p \in Pair |-> doomed[p]] /\ \A p \in Pair : doomed[p] = {}
        /\ overtaken \in [Conv -> SUBSET User]
    BY ConversationsAssumption DEF Init
  <2>5. held = [w \in Thread |-> held[w]] /\ pc \in [Thread -> Labels] /\ job \in [Thread -> Job]
    BY NoJobTyped DEF Init, Labels
  <2>6. kind \in [Conv -> {"dm", "palette", None}] /\ firsts \in [Conv -> Nat]
        /\ budget \in [Bounded -> Nat] /\ clock \in Nat
    BY DEF Init
  <2>7. MaxEvents \in Nat
    BY ConversationsAssumption
  <2>8. nextId \in Nat /\ nextId <= Len(Palettes) + MaxEvents + 1 /\ nextId >= 1
    BY <2>4, <2>7, Ids
  <2>9. QED
    BY <2>1, <2>2, <2>3, <2>4, <2>5, <2>6, <2>8 DEF Types
<1>2. Rows
  <2>1. ASSUME NEW i \in Conv
        PROVE  /\ i >= nextId => kind[i] = None /\ firsts[i] = 0
               /\ firsts[i] <= 1
    BY Ids DEF Init
  <2>2. ASSUME NEW i \in Conv, NEW u \in User, invites[i][u] # None
        PROVE  kind[i] = "palette"
    BY <2>2 DEF Init
  <2>3. QED
    BY <2>1, <2>2 DEF Rows
<1>3. \A w \in Thread : CallOK(w) /\ DmOK(w) /\ ~Opens(w)
  BY DEF Init, CallOK, DmOK, Opens
<1>4. Apart
  BY <1>3 DEF Apart, Owns, Enters
<1>5. Unique
  BY ConversationsAssumption DEF Init, Unique
<1>6. QED
  BY <1>1, <1>2, <1>3, <1>4, <1>5 DEF IInv

\* Every step keeps the invariant.
THEOREM Invariant == Spec => []IInv
<1>1. QED
  BY InitInv, StepKept, PTL DEF Spec

\* In every state of a run the variables have their types, rows are held exactly by
\* the threads about to commit, and only palettes have invitations.
THEOREM TypeCorrect == Spec => []TypeOK
<1>1. IInv => TypeOK
  <2> SUFFICES ASSUME IInv PROVE TypeOK
    OBVIOUS
  <2>1. ASSUME NEW i \in Conv, NEW u \in User, invites[i][u] # None
        PROVE  invites[i][u] \in Invitation /\ kind[i] = "palette"
    BY <2>1 DEF IInv, Types, Rows
  <2>2. nextId \in Conv \cup {Len(Palettes) + MaxEvents + 1}
    BY Ids DEF IInv, Types
  <2>3. \A i \in Conv : kind[i] # None => i < nextId
    BY Ids DEF IInv, Types, Rows
  <2>4. \A w \in Thread : job[w].call \in Call \cup {None} /\ job[w].view \subseteq User
    BY DEF IInv, Types, Job
  <2>5. \A w \in Thread : held[w] # {} <=> pc[w] = "commit"
    BY DEF IInv, CallOK
  <2>6. QED
    BY <2>1, <2>2, <2>3, <2>4, <2>5 DEF IInv, Types, Labels, TypeOK
<1>2. QED
  BY <1>1, Invariant, PTL

\* However many threads open the dm of a pair at once, there is one, it is reported
\* as created at most once, and every answer names it.
THEOREM OneDmPerPair == Spec => []OneDm
<1>1. IInv => OneDm
  <2> SUFFICES ASSUME IInv PROVE OneDm
    OBVIOUS
  <2>1. ASSUME NEW w \in Thread, pc[w] = "tell", Op(w) = "dm"
        PROVE  DmsOf(DmPair(w)) = {Id(w)}
    <3>1. /\ job[w].id \in Conv /\ kind[job[w].id] = "dm" /\ members[job[w].id] = DmPair(w)
      BY <2>1 DEF IInv, DmOK, Opens
    <3>2. Id(w) = job[w].id
      BY <2>1, <3>1, IdTyped, Ids
    <3>3. QED
      BY <3>1, <3>2 DEF DmsOf, IInv, Unique
  <2>2. QED
    BY <2>1 DEF IInv, Unique, Rows, OneDm
<1>2. QED
  BY <1>1, Invariant, PTL
-----------------------------------------------------------------------------
(* Invitations end with the alliance *)

\* Whom a call has invited or is about to invite might communicate with the caller
\* when the call began: they were asked about since, and pairs only part.
Inviting(w) == /\ pc[w] \in {"ally", "clock", "create", "member", "state", "upsert"}
               /\ Op(w) \in {"palette", "invite"}
AllyOK(w) ==
    /\ pc[w] # "idle" => allied \subseteq job[w].was
    /\ Inviting(w) =>
        /\ job[w].todo \subseteq job[w].call.who
        /\ \A u \in job[w].call.who :
               \/ pc[w] = "ally" /\ u \in job[w].todo
               \/ {Me(w), u} \in job[w].was
        /\ pc[w] \in {"state", "upsert"} => job[w].one \in job[w].call.who

\* Before an answer is put together nobody has been told; a palette is made with
\* all its invitees still to come, and they are looked at one by one.
TodoOK(w) ==
    /\ pc[w] \in {"find", "conversation", "chat", "again", "take", "commit", "view"} =>
           job[w].todo = {}
    /\ pc[w] \in {"clock", "create", "palette"} => job[w].todo = job[w].call.who

\* A thread that is not the one to move stays where it is.
LEMMA Mover ==
    ASSUME IInv, [Next]_vars, NEW v \in Thread
    PROVE  (pc'[v] = pc[v] /\ job'[v] = job[v]) \/ ThreadStep(v)
<1>1. ASSUME NEW w \in Thread, w # v, ThreadStep(w)
      PROVE  pc'[v] = pc[v] /\ job'[v] = job[v]
  BY <1>1, ThreadMoves DEF After, PcMoves, JobMoves
<1>2. CASE (\E p \in Pair : PartingStep(p)) \/ Tick \/ UNCHANGED vars
  BY <1>2 DEF PartingStep, DeleteInvites, CommitParting, RollBackParting, Tick, vars
<1>3. QED
  BY <1>1, <1>2, Steps

\* Pairs only part.
LEMMA AlliesShrink == ASSUME [Next]_vars PROVE allied' \subseteq allied
<1>1. ASSUME NEW p \in Pair, PartingStep(p)
      PROVE  allied' \subseteq allied
  BY <1>1 DEF PartingStep, DeleteInvites, CommitParting, RollBackParting
<1>2. QED
  BY <1>1, GraphStands

LEMMA ErrandBegins ==
    ASSUME IInv, NEW w \in Thread, NEW c \in Call, Begin(w, c)
    PROVE  AllyOK(w)' /\ TodoOK(w)'
<1> DEFINE j == [NoJob EXCEPT !.call = c, !.todo = c.who, !.was = allied,
                              !.now = IF c.op \in {"accept", "decline"} THEN clock ELSE 0]
<1>1. /\ c.op \in {"dm", "palette", "invite", "accept", "decline"} /\ c.who \in SUBSET User
      /\ c.op \in {"accept", "decline"} => c.who = {}
  BY CallTyped, ConversationsAssumption
<1>2. j.call = c /\ j.todo = c.who /\ j.was = allied
  BY DEF NoJob
<1>3. Types
  BY DEF IInv
<1>4. job'[w] = j
  BY <1>3 DEF Begin, Types
<1>5. pc'[w] = First(c)
  BY <1>3 DEF Begin, Types, Goto
<1> HIDE DEF j
<1>6. job'[w].call = c /\ job'[w].todo = c.who /\ allied' = job'[w].was
  BY <1>2, <1>4 DEF Begin, partings
<1>7. CASE c.op \in {"dm", "palette", "invite"}
  <2>1. pc'[w] \in {"ally", "clock", "palette"} /\ (pc'[w] = "clock" => c.who = {})
    BY <1>5, <1>7 DEF First
  <2>2. QED
    BY <1>6, <2>1 DEF AllyOK, TodoOK, Inviting
<1>8. CASE c.op \in {"accept", "decline"}
  <2>1. pc'[w] \in {"take", "decline"}
    BY <1>5, <1>8 DEF First
  <2>2. QED
    BY <1>1, <1>6, <1>8, <2>1 DEF AllyOK, TodoOK, Inviting
<1>9. QED
  BY <1>1, <1>7, <1>8

LEMMA ErrandReturns ==
    ASSUME IInv, NEW w \in Thread, Return(w)
    PROVE  AllyOK(w)' /\ TodoOK(w)' /\ pc'[w] = "idle"
<1>1. pc'[w] = "idle"
  BY DEF IInv, Types, Return, Goto
<1>2. QED
  BY <1>1 DEF AllyOK, TodoOK, Inviting

LEMMA ErrandChecks ==
    ASSUME IInv, NEW w \in Thread, CheckAllies(w), AllyOK(w)
    PROVE  AllyOK(w)' /\ TodoOK(w)'
<1>1. /\ Types /\ CallOK(w) /\ job[w].call \in Call /\ pc[w] = "ally"
      /\ Op(w) \in {"dm", "palette", "invite"}
      /\ {"find", "clock"} \subseteq Labels
      /\ allied' = allied /\ allied \subseteq job[w].was
  BY DEF IInv, CheckAllies, CallOK, AllyOK, Labels, world, partings
<1>2. job[w].call.who \in SUBSET User /\ job[w].todo \in SUBSET User
  BY <1>1, CallTyped DEF Types, Job
<1>3. PICK u \in job[w].todo :
          IF {Me(w), u} \notin allied THEN Return(w)
          ELSE /\ UNCHANGED held
               /\ IF job[w].todo = {u}
                  THEN /\ job' = [job EXCEPT ![w].todo = IF Op(w) = "dm" THEN {} ELSE job[w].call.who]
                       /\ Goto(w, CASE Op(w) = "dm" -> "find"
                                    [] OTHER -> "clock")
                  ELSE job' = [job EXCEPT ![w].todo = job[w].todo \ {u}] /\ UNCHANGED pc
  BY DEF CheckAllies
<1>4. CASE Return(w)
  BY <1>4, ErrandReturns
<1>5. CASE /\ {Me(w), u} \in allied /\ job[w].todo = {u}
           /\ job' = [job EXCEPT ![w].todo = IF Op(w) = "dm" THEN {} ELSE job[w].call.who]
           /\ Goto(w, CASE Op(w) = "dm" -> "find"
                        [] OTHER -> "clock")
  <2> DEFINE S == IF Op(w) = "dm" THEN {} ELSE job[w].call.who
  <2>1. S \in SUBSET User
    BY <1>2
  <2>2. job' = [job EXCEPT ![w].todo = S]
    BY <1>5
  <2>3. Op(w) = "dm" => S = {}
    OBVIOUS
  <2>4. Op(w) # "dm" => S = job[w].call.who
    OBVIOUS
  <2> HIDE DEF S
  <2>5. job'[w].call = job[w].call /\ job'[w].todo = S /\ job'[w].was = job[w].was
    BY <1>1, <2>1, <2>2, SetsTodo
  <2>6. /\ Op(w) = "dm" => pc'[w] = "find"
        /\ Op(w) # "dm" => pc'[w] = "clock"
    BY <1>1, <1>5, GoesTo
  <2>7. Op(w)' = Op(w) /\ Me(w)' = Me(w)
    BY <2>5 DEF Op, Me
  <2>8. Op(w) \in {"palette", "invite"} =>
            \A x \in job[w].call.who : {Me(w), x} \in job[w].was
    BY <1>1, <1>5 DEF AllyOK, Inviting
  <2>9. AllyOK(w)'
    BY <1>1, <2>4, <2>5, <2>6, <2>7, <2>8 DEF AllyOK, Inviting
  <2>10. TodoOK(w)'
    BY <1>1, <2>3, <2>4, <2>5, <2>6 DEF TodoOK
  <2>11. QED
    BY <2>9, <2>10
<1>6. CASE /\ {Me(w), u} \in allied /\ UNCHANGED pc
           /\ job' = [job EXCEPT ![w].todo = job[w].todo \ {u}]
  <2>1. job[w].todo \ {u} \in SUBSET User
    BY <1>2
  <2>2. /\ job'[w].call = job[w].call /\ job'[w].todo = job[w].todo \ {u}
        /\ job'[w].was = job[w].was
    BY <1>1, <1>6, <2>1, SetsTodo
  <2>3. pc'[w] = "ally"
    BY <1>1, <1>6
  <2>4. Op(w)' = Op(w) /\ Me(w)' = Me(w)
    BY <2>2 DEF Op, Me
  <2>5. QED
    BY <1>1, <1>6, <2>2, <2>3, <2>4 DEF AllyOK, TodoOK, Inviting
<1>7. QED
  BY <1>3, <1>4, <1>5, <1>6

LEMMA ErrandAtClock ==
    ASSUME IInv, NEW w \in Thread, ReadClock(w), AllyOK(w), TodoOK(w)
    PROVE  AllyOK(w)' /\ TodoOK(w)'
<1>1. /\ Types /\ pc[w] = "clock" /\ job[w].todo = job[w].call.who /\ clock \in Nat
      /\ Op(w) \in {"palette", "invite"} /\ {"create", "member"} \subseteq Labels
      /\ allied' = allied
  BY DEF IInv, CallOK, TodoOK, ReadClock, Types, Labels, world, partings
<1>2. /\ job'[w].call = job[w].call /\ job'[w].todo = job[w].todo /\ job'[w].was = job[w].was
      /\ pc'[w] = IF Op(w) = "palette" THEN "create" ELSE "member"
  BY <1>1, SetsNow, GoesTo DEF ReadClock
<1>3. Op(w)' = Op(w) /\ Me(w)' = Me(w)
  BY <1>2 DEF Op, Me
<1>4. QED
  BY <1>1, <1>2, <1>3 DEF AllyOK, TodoOK, Inviting

LEMMA ErrandAtPalette ==
    ASSUME IInv, NEW w \in Thread, CheckPalette(w), AllyOK(w), TodoOK(w)
    PROVE  AllyOK(w)' /\ TodoOK(w)'
<1>1. /\ Types /\ pc[w] = "palette" /\ allied' = allied /\ "ally" \in Labels
      /\ allied \subseteq job[w].was
  BY DEF IInv, CheckPalette, world, partings, Labels, AllyOK
<1>2. CASE Goto(w, "ally") /\ UNCHANGED job
  <2>1. pc'[w] = "ally" /\ job'[w] = job[w] /\ job[w].todo = job[w].call.who
    BY <1>1, <1>2, GoesTo DEF TodoOK
  <2>2. QED
    BY <1>1, <2>1 DEF AllyOK, TodoOK, Inviting
<1>3. CASE Return(w)
  BY <1>3, ErrandReturns
<1>4. QED
  BY <1>2, <1>3 DEF CheckPalette

LEMMA ErrandOfDm ==
    ASSUME IInv, NEW w \in Thread, AllyOK(w), TodoOK(w),
           FindDm(w) \/ InsertConversation(w) \/ InsertChat(w)
    PROVE  AllyOK(w)' /\ TodoOK(w)'
<1>1. /\ Types /\ job[w].todo = {} /\ job[w].call.op = "dm"
      /\ {"find", "view", "conversation", "chat", "again", "commit"} \subseteq Labels
      /\ nextId \in Nat /\ Conv \subseteq Nat
      /\ allied' = allied /\ allied \subseteq job[w].was
  BY Ids DEF IInv, CallOK, AllyOK, TodoOK, FindDm, InsertConversation, InsertChat, Types, Labels, Op,
     world, partings
<1>2. CASE Return(w)
  BY <1>2, ErrandReturns
<1>3. ASSUME NEW label \in {"view", "conversation", "chat", "again", "commit"}, Goto(w, label),
             \/ UNCHANGED job
             \/ \E i \in Conv \cup {None} : job' = [job EXCEPT ![w].id = i]
      PROVE  AllyOK(w)' /\ TodoOK(w)'
  <2>1. pc'[w] = label
    BY <1>1, <1>3, GoesTo
  <2>2. /\ job'[w].call = job[w].call /\ job'[w].todo = job[w].todo
        /\ job'[w].was = job[w].was
    BY <1>1, <1>3, SetsId
  <2>3. QED
    BY <1>1, <1>3, <2>1, <2>2 DEF AllyOK, TodoOK, Inviting, Op
<1>4. CASE FindDm(w)
  <2>1. \/ Return(w)
        \/ Goto(w, "conversation") /\ UNCHANGED job
        \/ Goto(w, "view") /\ \E i \in DmsOf(DmPair(w)) : job' = [job EXCEPT ![w].id = i]
    BY <1>4 DEF FindDm
  <2>2. DmsOf(DmPair(w)) \subseteq Conv
    BY DEF DmsOf
  <2>3. QED
    BY <1>2, <1>3, <2>1, <2>2
<1>5. CASE InsertConversation(w)
  BY <1>3, <1>5 DEF InsertConversation
<1>6. CASE InsertChat(w)
  BY <1>3, <1>6 DEF InsertChat
<1>7. QED
  BY <1>4, <1>5, <1>6

LEMMA ErrandAtCreate ==
    ASSUME IInv, NEW w \in Thread, CreatePalette(w), AllyOK(w), TodoOK(w)
    PROVE  AllyOK(w)' /\ TodoOK(w)'
<1>1. /\ Types /\ pc[w] = "create" /\ nextId \in Conv /\ job[w].todo = job[w].call.who
      /\ Op(w) = "palette" /\ {"view", "member"} \subseteq Labels
      /\ allied' = allied
  BY DEF IInv, CallOK, TodoOK, CreatePalette, Labels, world, partings
<1>2. /\ job'[w].call = job[w].call /\ job'[w].todo = job[w].todo /\ job'[w].was = job[w].was
      /\ pc'[w] = IF job[w].call.who = {} THEN "view" ELSE "member"
  BY <1>1, SetsId, GoesTo DEF CreatePalette
<1>3. Op(w)' = Op(w) /\ Me(w)' = Me(w)
  BY <1>2 DEF Op, Me
<1>4. QED
  BY <1>1, <1>2, <1>3 DEF AllyOK, TodoOK, Inviting

LEMMA ErrandAtMember ==
    ASSUME IInv, NEW w \in Thread, CheckMember(w), AllyOK(w)
    PROVE  AllyOK(w)' /\ TodoOK(w)'
<1>1. /\ Types /\ pc[w] = "member" /\ Op(w) \in {"palette", "invite"}
      /\ {"view", "member", "state"} \subseteq Labels
      /\ job[w].todo \in SUBSET User /\ job[w].todo \subseteq job[w].call.who
      /\ \A u \in job[w].call.who : {Me(w), u} \in job[w].was
      /\ allied' = allied /\ allied \subseteq job[w].was
  BY DEF IInv, CallOK, AllyOK, Inviting, CheckMember, Labels, Types, Job, world, partings
<1>2. PICK u \in job[w].todo :
          IF u \in members[Id(w)]
          THEN /\ job' = [job EXCEPT ![w].todo = job[w].todo \ {u}]
               /\ Goto(w, IF job[w].todo = {u} THEN "view" ELSE "member")
          ELSE job' = [job EXCEPT ![w].one = u] /\ Goto(w, "state")
  BY DEF CheckMember
<1>3. CASE /\ job' = [job EXCEPT ![w].todo = job[w].todo \ {u}]
           /\ Goto(w, IF job[w].todo = {u} THEN "view" ELSE "member")
  <2>1. job[w].todo \ {u} \in SUBSET User
    BY <1>1
  <2>2. /\ job'[w].call = job[w].call /\ job'[w].todo = job[w].todo \ {u}
        /\ job'[w].was = job[w].was
    BY <1>1, <1>3, <2>1, SetsTodo
  <2>3. pc'[w] = IF job[w].todo = {u} THEN "view" ELSE "member"
    BY <1>1, <1>3, GoesTo
  <2>4. Op(w)' = Op(w) /\ Me(w)' = Me(w)
    BY <2>2 DEF Op, Me
  <2>5. QED
    BY <1>1, <2>2, <2>3, <2>4 DEF AllyOK, TodoOK, Inviting
<1>4. CASE job' = [job EXCEPT ![w].one = u] /\ Goto(w, "state")
  <2>1. u \in User
    BY <1>1
  <2>2. /\ job'[w].call = job[w].call /\ job'[w].todo = job[w].todo /\ job'[w].one = u
        /\ job'[w].was = job[w].was
    BY <1>1, <1>4, <2>1, SetsOne
  <2>3. pc'[w] = "state"
    BY <1>1, <1>4, GoesTo
  <2>4. Op(w)' = Op(w) /\ Me(w)' = Me(w)
    BY <2>2 DEF Op, Me
  <2>5. QED
    BY <1>1, <2>2, <2>3, <2>4 DEF AllyOK, TodoOK, Inviting
<1>5. QED
  BY <1>2, <1>3, <1>4

LEMMA ErrandOfInvite ==
    ASSUME IInv, NEW w \in Thread, ReadInvite(w) \/ PutInvite(w), AllyOK(w)
    PROVE  AllyOK(w)' /\ TodoOK(w)'
<1>1. /\ Types /\ pc[w] \in {"state", "upsert"} /\ Op(w) \in {"palette", "invite"}
      /\ "upsert" \in Labels
      /\ job[w].todo \subseteq job[w].call.who /\ job[w].one \in job[w].call.who
      /\ \A u \in job[w].call.who : {Me(w), u} \in job[w].was
      /\ allied' = allied /\ allied \subseteq job[w].was
  BY DEF IInv, CallOK, AllyOK, Inviting, ReadInvite, PutInvite, Labels, Types, Job, world, partings
<1>2. CASE \E b \in BOOLEAN : NextInvitee(w, b)
  <2>1. /\ pc'[w] \in {"member", "view"} /\ job'[w].call = job[w].call
        /\ job'[w].todo = job[w].todo \ {job[w].one} /\ job'[w].was = job[w].was
        /\ pc'[w] = "view" => job'[w].todo = {}
    BY <1>1, <1>2, GoesOn
  <2>2. Op(w)' = Op(w) /\ Me(w)' = Me(w)
    BY <2>1 DEF Op, Me
  <2>3. QED
    BY <1>1, <2>1, <2>2 DEF AllyOK, TodoOK, Inviting
<1>3. CASE Goto(w, "upsert") /\ UNCHANGED job
  <2>1. pc'[w] = "upsert" /\ job'[w] = job[w]
    BY <1>1, <1>3, GoesTo
  <2>2. Op(w)' = Op(w) /\ Me(w)' = Me(w)
    BY <2>1 DEF Op, Me
  <2>3. QED
    BY <1>1, <2>1, <2>2 DEF AllyOK, TodoOK, Inviting
<1>4. QED
  BY <1>2, <1>3 DEF ReadInvite, PutInvite

LEMMA ErrandOfMember ==
    ASSUME IInv, NEW w \in Thread, TakeInvite(w) \/ Commit(w) \/ LoseCommit(w) \/ ReadView(w),
           AllyOK(w), TodoOK(w)
    PROVE  AllyOK(w)' /\ TodoOK(w)'
<1>1. /\ Types /\ job[w].todo = {} /\ {"commit", "view", "tell"} \subseteq Labels
      /\ allied' = allied /\ allied \subseteq job[w].was
  BY DEF IInv, CallOK, AllyOK, TodoOK, TakeInvite, Commit, LoseCommit, ReadView, Labels, world, partings
<1>2. CASE Return(w)
  BY <1>2, ErrandReturns
<1>3. ASSUME NEW label \in {"commit", "view", "tell"}, Goto(w, label),
             \/ UNCHANGED job
             \/ job' = [job EXCEPT ![w].created = TRUE]
             \/ job' = [job EXCEPT ![w].view = members[Id(w)]] /\ Id(w) \in Conv
      PROVE  AllyOK(w)' /\ TodoOK(w)'
  <2>1. pc'[w] = label
    BY <1>1, <1>3, GoesTo
  <2>2. Id(w) \in Conv => members[Id(w)] \in SUBSET User
    BY <1>1 DEF Types
  <2>3. job'[w].todo = job[w].todo /\ job'[w].was = job[w].was
    BY <1>1, <1>3, <2>2, SetsCreated, SetsView
  <2>4. QED
    BY <1>1, <1>3, <2>1, <2>3 DEF AllyOK, TodoOK, Inviting
<1>4. CASE TakeInvite(w)
  BY <1>2, <1>3, <1>4 DEF TakeInvite
<1>5. CASE Commit(w) \/ LoseCommit(w)
  BY <1>3, <1>5 DEF Commit, LoseCommit
<1>6. CASE ReadView(w)
  <2>1. Id(w) \in Conv
    BY <1>6, IdTyped DEF ReadView
  <2>2. QED
    BY <1>2, <1>3, <1>6, <2>1 DEF ReadView
<1>7. QED
  BY <1>4, <1>5, <1>6

LEMMA ErrandEnds ==
    ASSUME IInv, NEW w \in Thread, DeclineInvite(w) \/ Tell(w) \/ Fault(w), AllyOK(w), TodoOK(w)
    PROVE  AllyOK(w)' /\ TodoOK(w)'
<1>1. /\ Types /\ CallOK(w) /\ "again" \in Labels
      /\ allied' = allied /\ (pc[w] # "idle" => allied \subseteq job[w].was)
  BY DEF IInv, Labels, AllyOK, DeclineInvite, Tell, Fault, world, partings
<1>2. CASE Return(w)
  BY <1>2, ErrandReturns
<1>3. CASE Tell(w) /\ ~Return(w)
  <2>1. PICK u \in Audience(w) \ job[w].todo :
            job' = [job EXCEPT ![w].todo = job[w].todo \cup {u}] /\ UNCHANGED pc
    BY <1>3 DEF Tell
  <2>2. job'[w].was = job[w].was
    <3> DEFINE j == [job[w] EXCEPT !.todo = job[w].todo \cup {u}]
    <3>1. job' = [job EXCEPT ![w] = j] /\ j.was = job[w].was
      BY <1>1, <2>1 DEF Types, Job
    <3> HIDE DEF j
    <3>2. QED
      BY <1>1, <3>1 DEF Types
  <2>3. pc[w] = "tell" /\ pc'[w] = "tell"
    BY <1>3, <2>1 DEF Tell
  <2>4. QED
    BY <1>1, <2>2, <2>3 DEF AllyOK, TodoOK, Inviting
<1>4. CASE Fault(w) /\ ~Return(w)
  <2>1. /\ job' = [job EXCEPT ![w].id = None] /\ Goto(w, "again")
        /\ pc[w] \in {"conversation", "chat", "commit"} /\ Op(w) = "dm"
    BY <1>4 DEF Fault
  <2>2. pc'[w] = "again" /\ job'[w].todo = job[w].todo /\ job'[w].was = job[w].was
    BY <1>1, <2>1, SetsId, GoesTo
  <2>3. job[w].todo = {} /\ allied \subseteq job[w].was
    BY <1>1, <2>1 DEF TodoOK
  <2>4. QED
    BY <1>1, <2>2, <2>3 DEF AllyOK, TodoOK, Inviting
<1>5. QED
  BY <1>2, <1>3, <1>4 DEF DeclineInvite, Tell

AllyInv == \A w \in Thread : AllyOK(w) /\ TodoOK(w)

LEMMA AllyInvKept ==
    ASSUME IInv, AllyInv, [Next]_vars
    PROVE  AllyInv'
<1> SUFFICES ASSUME NEW v \in Thread
             PROVE  AllyOK(v)' /\ TodoOK(v)'
  BY DEF AllyInv
<1>1. AllyOK(v) /\ TodoOK(v)
  BY DEF AllyInv
<1>2. CASE pc'[v] = pc[v] /\ job'[v] = job[v]
  <2>1. Inviting(v)' = Inviting(v) /\ Me(v)' = Me(v)
    BY <1>2 DEF Inviting, Op, Me
  <2>2. QED
    BY <1>1, <1>2, <2>1, AlliesShrink DEF AllyOK, TodoOK
<1>3. CASE \E c \in Call : Begin(v, c)
  BY <1>3, ErrandBegins
<1>4. CASE Step(v)
  BY <1>1, <1>4, ErrandAtPalette, ErrandChecks, ErrandAtClock, ErrandOfDm, ErrandAtCreate,
     ErrandAtMember, ErrandOfInvite, ErrandOfMember, ErrandEnds DEF Step
<1>5. CASE Fault(v) \/ LoseCommit(v)
  BY <1>1, <1>5, ErrandOfMember, ErrandEnds
<1>6. QED
  BY <1>2, <1>3, <1>4, <1>5, Mover DEF ThreadStep

\* An invitation stored before any parting of the two is one between two who may
\* communicate; once their parting has deleted it, it is there only for the others
\* to see, and nobody may store the row again.  None is stored by a call that began
\* after they had parted.
InvitesInv == \A i \in Conv, u \in User : invites[i][u] # None =>
    LET p == {u, invites[i][u].by} IN
    /\ invites[i][u].timing # "after"
    /\ invites[i][u].timing = "before" =>
           /\ p \in allied
           /\ p \in parting => InviteRow(i, u) \in doomed[p]

\* What becomes of an invitation in a step of a thread: it goes, it keeps who gave
\* it and when, or it is new.
LEMMA InviteSteps ==
    ASSUME IInv, NEW w \in Thread, ThreadStep(w), NEW i \in Conv, NEW u \in User,
           invites'[i][u] # None
    PROVE  \/ /\ invites[i][u] # None
              /\ invites'[i][u].by = invites[i][u].by
              /\ invites'[i][u].timing = invites[i][u].timing
           \/ /\ PutInvite(w) /\ u = job[w].one
              /\ invites'[i][u].by = Me(w)
              /\ invites'[i][u].timing = Timing(w, u)
<1>1. invites \in [Conv -> [User -> Invitation \cup {None}]]
  BY DEF IInv, Types
<1>2. CASE invites'[i][u] = invites[i][u]
  BY <1>2
<1>3. ASSUME PutInvite(w), invites'[i][u] # invites[i][u]
      PROVE  /\ u = job[w].one /\ invites'[i][u].by = Me(w)
             /\ invites'[i][u].timing = Timing(w, u)
  <2> DEFINE row == [by |-> Me(w), created |-> job[w].now, declined |-> None,
                     timing |-> Timing(w, job[w].one)]
  <2>1. Id(w) \in Conv /\ job[w].one \in User
    BY <1>3, IdTyped DEF PutInvite, IInv, CallOK
  <2>2. invites' = [invites EXCEPT ![Id(w)][job[w].one] = row]
    BY <1>3 DEF PutInvite
  <2>3. row.by = Me(w) /\ row.timing = Timing(w, job[w].one)
    OBVIOUS
  <2> HIDE DEF row
  <2>4. u = job[w].one /\ invites'[i][u] = row
    BY <1>1, <1>3, <2>1, <2>2
  <2>5. QED
    BY <2>3, <2>4
<1>4. ASSUME DeclineInvite(w), invites'[i][u] # invites[i][u]
      PROVE  /\ invites[i][u] # None
             /\ invites'[i][u].by = invites[i][u].by
             /\ invites'[i][u].timing = invites[i][u].timing
  <2>1. Id(w) \in Conv /\ Me(w) \in User /\ Pending(Id(w), Me(w), job[w].now)
    BY <1>4, IdTyped, CallTyped DEF DeclineInvite, IInv, CallOK, Me
  <2> DEFINE row == [invites[Id(w)][Me(w)] EXCEPT !.declined = job[w].now]
  <2>2. invites[Id(w)][Me(w)] \in Invitation /\ invites[Id(w)][Me(w)] # None
    BY <1>1, <2>1 DEF Pending
  <2>3. row.by = invites[Id(w)][Me(w)].by /\ row.timing = invites[Id(w)][Me(w)].timing
    BY <2>2 DEF Invitation
  <2>4. invites' = [invites EXCEPT ![Id(w)][Me(w)] = row]
    BY <1>4, <2>1 DEF DeclineInvite
  <2> HIDE DEF row
  <2>5. i = Id(w) /\ u = Me(w) /\ invites'[i][u] = row
    BY <1>1, <1>4, <2>1, <2>4
  <2>6. QED
    BY <2>2, <2>3, <2>5
<1>5. ASSUME Commit(w)
      PROVE  invites'[i][u] = invites[i][u]
  <2>1. Id(w) \in Conv /\ Me(w) \in User
    BY <1>5, IdTyped, CallTyped DEF Commit, IInv, CallOK, Me
  <2>2. invites' = invites \/ invites' = [invites EXCEPT ![Id(w)][Me(w)] = None]
    BY <1>5 DEF Commit
  <2>3. QED
    BY <1>1, <2>1, <2>2
<1>6. invites'[i][u] = invites[i][u] \/ PutInvite(w) \/ DeclineInvite(w)
  BY <1>5 DEF ThreadStep, Step, Begin, CheckPalette, CheckAllies, ReadClock, FindDm,
     InsertConversation, InsertChat, CreatePalette, CheckMember, ReadInvite, TakeInvite,
     ReadView, Tell, Fault, LoseCommit, tables
<1>7. QED
  BY <1>2, <1>3, <1>4, <1>6

LEMMA InvitesInvThread ==
    ASSUME IInv, AllyInv, InvitesInv, [Next]_vars, NEW w \in Thread, ThreadStep(w)
    PROVE  InvitesInv'
<1> SUFFICES ASSUME NEW i \in Conv, NEW u \in User, invites'[i][u] # None
             PROVE  LET p == {u, invites'[i][u].by} IN
                    /\ invites'[i][u].timing # "after"
                    /\ invites'[i][u].timing = "before" =>
                           /\ p \in allied'
                           /\ p \in parting' => InviteRow(i, u) \in doomed'[p]
  BY DEF InvitesInv, InviteRow
<1>1. allied' = allied /\ parting' = parting /\ doomed' = doomed
  <2>1. Step(w) => UNCHANGED partings
    BY DEF Step, CheckPalette, CheckAllies, ReadClock, FindDm, InsertConversation, InsertChat,
       CreatePalette, CheckMember, ReadInvite, PutInvite, TakeInvite, Commit, DeclineInvite,
       ReadView, Tell, world
  <2>2. QED
    BY <2>1 DEF ThreadStep, Begin, Fault, LoseCommit, partings
<1>2. CASE /\ invites[i][u] # None
           /\ invites'[i][u].by = invites[i][u].by
           /\ invites'[i][u].timing = invites[i][u].timing
  BY <1>1, <1>2 DEF InvitesInv
<1>3. CASE /\ PutInvite(w) /\ u = job[w].one
           /\ invites'[i][u].by = Me(w)
           /\ invites'[i][u].timing = Timing(w, u)
  <2>1. pc[w] = "upsert" /\ Op(w) \in {"palette", "invite"}
    BY <1>3 DEF PutInvite, IInv, CallOK
  <2>2. {Me(w), u} \in job[w].was
    BY <1>3, <2>1 DEF AllyInv, AllyOK, Inviting
  <2>3. /\ Timing(w, u) # "after"
        /\ Timing(w, u) = "before" => {Me(w), u} \in allied \ parting
    BY <2>2 DEF Timing
  <2>4. {u, invites'[i][u].by} = {Me(w), u}
    BY <1>3
  <2>5. QED
    BY <1>1, <1>3, <2>3, <2>4
<1>4. QED
  BY <1>2, <1>3, InviteSteps

LEMMA InvitesInvParting ==
    ASSUME IInv, InvitesInv, NEW q \in Pair, PartingStep(q)
    PROVE  InvitesInv'
<1> SUFFICES ASSUME NEW i \in Conv, NEW u \in User, invites'[i][u] # None
             PROVE  LET p == {u, invites'[i][u].by} IN
                    /\ invites'[i][u].timing # "after"
                    /\ invites'[i][u].timing = "before" =>
                           /\ p \in allied'
                           /\ p \in parting' => InviteRow(i, u) \in doomed'[p]
  BY DEF InvitesInv, InviteRow
<1>1. /\ invites \in [Conv -> [User -> Invitation \cup {None}]]
      /\ doomed = [p \in Pair |-> doomed[p]] /\ parting \subseteq Pair
  BY DEF IInv, Types
<1>2. ASSUME NEW S, doomed' = [doomed EXCEPT ![q] = S]
      PROVE  doomed'[q] = S /\ \A p \in Pair \ {q} : doomed'[p] = doomed[p]
  BY <1>1, <1>2
<1>3. invites'[i][u] = invites[i][u]
  <2>1. CommitParting(q) => invites'[i][u] = IF InviteRow(i, u) \in doomed[q] THEN None ELSE invites[i][u]
    BY DEF CommitParting
  <2>2. QED
    BY <2>1 DEF PartingStep, DeleteInvites, RollBackParting, tables
<1> DEFINE p == {u, invites[i][u].by}
<1>4. /\ invites[i][u].timing # "after"
      /\ invites[i][u].timing = "before" =>
             /\ p \in allied
             /\ p \in parting => InviteRow(i, u) \in doomed[p]
  BY <1>3 DEF InvitesInv
<1>5. CASE DeleteInvites(q)
  <2> DEFINE S == UNION {{InviteRow(k, v) : k \in {j \in Conv : Between(q, j, v)}} : v \in q}
  <2>1. allied' = allied /\ parting' = parting \cup {q} /\ doomed' = [doomed EXCEPT ![q] = S]
    BY <1>5 DEF DeleteInvites
  <2>2. p = q => InviteRow(i, u) \in S
    <3>1. SUFFICES ASSUME p = q PROVE InviteRow(i, u) \in S
      OBVIOUS
    <3>2. invites[i][u].by # u /\ u \in q
      BY <3>1 DEF Pair
    <3>3. Between(q, i, u)
      BY <1>3, <3>1, <3>2 DEF Between
    <3>4. QED
      BY <3>2, <3>3
  <2> HIDE DEF S
  <2>3. doomed'[q] = S /\ \A r \in Pair \ {q} : doomed'[r] = doomed[r]
    BY <1>2, <2>1
  <2>4. p \in parting' /\ p # q => p \in parting /\ doomed'[p] = doomed[p]
    BY <1>1, <2>1, <2>3
  <2>5. QED
    BY <1>3, <1>4, <2>1, <2>2, <2>3, <2>4
<1>6. CASE CommitParting(q) \/ RollBackParting(q)
  <2>1. /\ parting' = parting \ {q} /\ doomed' = [doomed EXCEPT ![q] = {}]
        /\ allied' = allied \/ (allied' = allied \ {q} /\ q \in parting /\ InviteRow(i, u) \notin doomed[q])
    BY <1>6 DEF CommitParting, RollBackParting
  <2>2. invites[i][u].timing = "before" => p \in allied'
    BY <1>4, <2>1
  <2>3. p \in parting' => p \in parting /\ doomed'[p] = doomed[p]
    BY <1>1, <1>2, <2>1
  <2>4. QED
    BY <1>3, <1>4, <2>2, <2>3
<1>7. QED
  BY <1>5, <1>6 DEF PartingStep

LEMMA InvitesInvKept ==
    ASSUME IInv, AllyInv, InvitesInv, [Next]_vars
    PROVE  InvitesInv'
<1>1. CASE Tick \/ UNCHANGED vars
  BY <1>1 DEF Tick, tables, partings, vars, InvitesInv, InviteRow
<1>2. QED
  BY <1>1, InvitesInvThread, InvitesInvParting, Steps

LEMMA InitAllies == Init => AllyInv /\ InvitesInv
<1> SUFFICES ASSUME Init PROVE AllyInv /\ InvitesInv
  OBVIOUS
<1>1. AllyInv
  BY DEF Init, AllyInv, AllyOK, TodoOK, Inviting
<1>2. ASSUME NEW i \in Conv, NEW u \in User, invites[i][u] # None
      PROVE  {u, invites[i][u].by} \in allied /\ invites[i][u].timing = "before"
  <2>1. invites[i][u] = IF i \notin DOMAIN Palettes \/ u \in Palettes[i] THEN None
                        ELSE [by |-> Inviter[i], created |-> 0, declined |-> None, timing |-> "before"]
    BY DEF Init
  <2>2. /\ i \in DOMAIN Palettes /\ u \in User \ Palettes[i] /\ invites[i][u].by = Inviter[i]
        /\ invites[i][u].timing = "before"
    BY <1>2, <2>1
  <2>3. QED
    BY <2>2, InviterAssumption DEF Init
<1>3. parting = {}
  BY DEF Init
<1>4. QED
  BY <1>1, <1>2, <1>3 DEF InvitesInv

\* What a parting leaves of the invitations between the two was stored after its
\* DELETE by a call that had begun before its COMMIT: nothing stored earlier survives
\* it, and no call that begins later adds to it.
THEOREM InvitationsGo == Spec => []InvitationsEnd
<1>1. Init => IInv /\ AllyInv /\ InvitesInv
  BY InitInv, InitAllies
<1>2. IInv /\ AllyInv /\ InvitesInv /\ [Next]_vars => (IInv /\ AllyInv /\ InvitesInv)'
  BY StepKept, AllyInvKept, InvitesInvKept
<1>3. IInv /\ InvitesInv => InvitationsEnd
  <2> SUFFICES ASSUME IInv, InvitesInv, NEW i \in Conv, NEW u \in User, invites[i][u] # None,
                      {u, invites[i][u].by} \notin allied
               PROVE  invites[i][u].timing = "across"
    BY DEF InvitationsEnd
  <2>1. invites[i][u].timing \in {"before", "across", "after"}
    BY DEF IInv, Types, Invitation
  <2>2. QED
    BY <2>1 DEF InvitesInv
<1>4. QED
  BY <1>1, <1>2, <1>3, PTL DEF Spec
-----------------------------------------------------------------------------
(* Members are told of each other *)

\* While no call has failed: who shares a conversation was last shown the other, or
\* a call that made one of them a member has yet to read the members, or has yet to
\* tell what it has read; and whatever list is still being told has everybody on it,
\* so that no later one takes back what an earlier one has told.  Who was overtaken
\* is left out.
Owes(w, i, u, v) ==
    /\ pc[w] # "idle" /\ Id(w) = i
    /\ \/ Op(w) = "accept" /\ pc[w] = "view"
       \/ Op(w) = "palette" /\ pc[w] \in {"member", "state", "upsert", "view"} /\ u = Me(w)
       \/ Op(w) = "dm" /\ pc[w] = "view" /\ job[w].created /\ u \in DmPair(w)
       \/ pc[w] = "tell" /\ u \in Audience(w) \ job[w].todo /\ v \in job[w].view

Peopled == \A i \in Conv : members[i] # {} => kind[i] # None

IntroInv == budget["faults"] = 0 =>
    \A i \in Conv : \A u \in members[i], v \in members[i] \ overtaken[i] :
        v \in seen[i][u] \/ \E w \in Thread : Owes(w, i, u, v)

ListsFull == \A w \in Thread, i \in Conv :
    Telling(w, i) => members[i] \ overtaken[i] \subseteq job[w].view

\* What makes somebody a member: a palette its owner, a commit the two of a dm or
\* the invitee.
LEMMA Joins ==
    ASSUME IInv, [Next]_vars, NEW i \in Conv, members'[i] # members[i]
    PROVE  \E w \in Thread :
               \/ CreatePalette(w) /\ i = nextId /\ members'[i] = {Me(w)}
               \/ Commit(w) /\ i = Id(w) /\ Op(w) = "dm" /\ members'[i] = DmPair(w)
               \/ Commit(w) /\ i = Id(w) /\ Op(w) = "accept"
<1>1. Types
  BY DEF IInv
<1>2. PICK w \in Thread : CreatePalette(w) \/ Commit(w)
  <2>1. CASE \E w \in Thread : ThreadStep(w)
    BY <2>1 DEF ThreadStep, Step, Begin, CheckPalette, CheckAllies, ReadClock, FindDm,
       InsertConversation, InsertChat, CheckMember, ReadInvite, PutInvite, TakeInvite, DeclineInvite,
       ReadView, Tell, Fault, LoseCommit, tables
  <2>2. CASE (\E p \in Pair : PartingStep(p)) \/ Tick \/ UNCHANGED vars
    BY <2>2 DEF PartingStep, DeleteInvites, CommitParting, RollBackParting, Tick, tables, vars
  <2>3. QED
    BY <2>1, <2>2, Steps
<1>3. CASE CreatePalette(w)
  <2>1. members' = [members EXCEPT ![nextId] = {Me(w)}] /\ nextId \in Conv
    BY <1>3 DEF CreatePalette
  <2>2. QED
    BY <1>1, <1>3, <2>1 DEF Types
<1>4. CASE Commit(w)
  <2>1. Op(w) \in {"dm", "accept"} /\ Id(w) \in Conv
    BY <1>4, IdTyped DEF Commit, IInv, CallOK
  <2>2. CASE Op(w) = "dm"
    <3>1. members' = [members EXCEPT ![Id(w)] = DmPair(w)]
      BY <1>4, <2>2 DEF Commit
    <3>2. QED
      BY <1>1, <1>4, <2>1, <2>2, <3>1 DEF Types
  <2>3. CASE Op(w) = "accept"
    <3>1. members' = [members EXCEPT ![Id(w)] = members[Id(w)] \cup {Me(w)}]
      BY <1>4, <2>3 DEF Commit
    <3>2. QED
      BY <1>1, <1>4, <2>1, <2>3, <3>1 DEF Types
  <2>4. QED
    BY <2>1, <2>2, <2>3
<1>5. QED
  BY <1>2, <1>3, <1>4

LEMMA PeopledKept ==
    ASSUME IInv, Peopled, [Next]_vars
    PROVE  Peopled'
<1> SUFFICES ASSUME NEW i \in Conv, members'[i] # {}
             PROVE  kind'[i] # None
  BY DEF Peopled
<1>1. Types
  BY DEF IInv
<1>2. kind[i] # None => kind'[i] # None
  BY WhoMoves DEF Grown
<1>3. CASE members'[i] = members[i]
  BY <1>2, <1>3 DEF Peopled
<1>4. CASE members'[i] # members[i]
  <2>1. PICK w \in Thread :
               \/ CreatePalette(w) /\ i = nextId
               \/ Commit(w) /\ i = Id(w) /\ Op(w) = "dm"
               \/ Commit(w) /\ i = Id(w) /\ Op(w) = "accept"
    BY <1>4, Joins
  <2>2. CASE CreatePalette(w) /\ i = nextId
    <3>1. kind' = [kind EXCEPT ![nextId] = "palette"]
      BY <2>2 DEF CreatePalette
    <3>2. QED
      BY <1>1, <2>2, <3>1, ConversationsAssumption DEF Types
  <2>3. CASE Commit(w) /\ i = Id(w) /\ Op(w) = "dm"
    <3>1. kind' = [kind EXCEPT ![Id(w)] = "dm"]
      BY <2>3 DEF Commit
    <3>2. QED
      BY <1>1, <2>3, <3>1, ConversationsAssumption DEF Types
  <2>4. CASE Commit(w) /\ i = Id(w) /\ Op(w) = "accept"
    <3>1. kind[i] = "palette"
      BY <2>4 DEF Commit, IInv, CallOK
    <3>2. QED
      BY <1>2, <3>1, ConversationsAssumption
  <2>5. QED
    BY <2>1, <2>2, <2>3, <2>4
<1>5. QED
  BY <1>3, <1>4

\* Who makes somebody a member owes it to the others to say so.
LEMMA JoinerOwes ==
    ASSUME IInv, [Next]_vars, NEW i \in Conv, members'[i] # members[i],
           NEW u \in members'[i], NEW v \in members'[i]
    PROVE  \E w \in Thread : Owes(w, i, u, v)'
<1>1. Types /\ {"view", "member"} \subseteq Labels
  BY DEF IInv, Labels
<1>2. PICK w \in Thread :
               \/ CreatePalette(w) /\ i = nextId /\ members'[i] = {Me(w)}
               \/ Commit(w) /\ i = Id(w) /\ Op(w) = "dm" /\ members'[i] = DmPair(w)
               \/ Commit(w) /\ i = Id(w) /\ Op(w) = "accept"
  BY Joins
<1>3. CASE CreatePalette(w) /\ i = nextId /\ members'[i] = {Me(w)}
  <2>1. pc'[w] \in {"view", "member"}
    BY <1>1, <1>3, GoesTo DEF CreatePalette
  <2>2. job'[w].id = nextId /\ job'[w].call = job[w].call
    BY <1>1, <1>3, SetsId DEF CreatePalette
  <2>3. Op(w)' = "palette" /\ Me(w)' = Me(w) /\ Id(w)' = i
    BY <1>3, <2>2, Ids DEF Op, Me, Id, CreatePalette, IInv, CallOK
  <2>4. QED
    BY <1>3, <2>1, <2>3 DEF Owes
<1>4. CASE Commit(w) /\ i = Id(w)
  <2>1. pc'[w] = "view"
    BY <1>1, <1>4, GoesTo DEF Commit
  <2>2. job'[w].id = job[w].id /\ job'[w].call = job[w].call /\ job'[w].created
    BY <1>1, <1>4, SetsCreated DEF Commit
  <2>3. Op(w)' = Op(w) /\ DmPair(w)' = DmPair(w) /\ Id(w)' = i
    BY <1>4, <2>2 DEF Op, Me, DmPair, Id
  <2>4. QED
    BY <1>2, <1>3, <1>4, <2>1, <2>2, <2>3 DEF Owes
<1>5. QED
  BY <1>2, <1>3, <1>4

\* A step that changes what somebody was shown is one of telling, and what is told
\* takes the place of what was shown.
LEMMA SeenChanges ==
    ASSUME IInv, [Next]_vars, NEW i \in Conv, NEW u \in User, seen'[i][u] # seen[i][u]
    PROVE  \E w \in Thread : Telling(w, i) /\ seen'[i][u] = job[w].view
<1>1. seen \in [Conv -> [User -> SUBSET User]]
  BY DEF IInv, Types
<1>2. PICK w \in Thread : Tell(w) /\ seen' # seen
  <2>1. CASE \E w \in Thread : ThreadStep(w)
    BY <2>1 DEF ThreadStep, Step, Begin, CheckPalette, CheckAllies, ReadClock, FindDm,
       InsertConversation, InsertChat, CreatePalette, CheckMember, ReadInvite, PutInvite, TakeInvite,
       Commit, DeclineInvite, ReadView, Fault, LoseCommit, shown
  <2>2. CASE (\E p \in Pair : PartingStep(p)) \/ Tick \/ UNCHANGED vars
    BY <2>2 DEF PartingStep, DeleteInvites, CommitParting, RollBackParting, Tick, shown, vars
  <2>3. QED
    BY <2>1, <2>2, Steps
<1>3. PICK x \in Audience(w) \ job[w].todo : seen' = [seen EXCEPT ![Id(w)][x] = job[w].view]
  BY <1>2 DEF Tell
<1>4. pc[w] = "tell" /\ Op(w) \in {"dm", "palette", "invite", "accept"}
  BY <1>2, CallTyped DEF Tell, IInv, CallOK, Op
<1>5. Op(w) # "invite"
  BY <1>3, <1>4 DEF Audience
<1>6. Id(w) \in Conv
  BY <1>4, IdTyped
<1>7. i = Id(w) /\ seen'[i][u] = job[w].view
  BY <1>1, <1>3, <1>6
<1>8. QED
  BY <1>4, <1>5, <1>7 DEF Telling

LEMMA OwesRead ==
    ASSUME IInv, Peopled, NEW w \in Thread, TodoOK(w), ReadView(w),
           NEW i \in Conv, NEW u \in members[i], NEW v \in members[i], Owes(w, i, u, v)
    PROVE  Owes(w, i, u, v)'
<1>1. /\ Types /\ pc[w] = "view" /\ Id(w) = i /\ job[w].todo = {} /\ "tell" \in Labels
      /\ kind[i] # None /\ members[i] \in SUBSET User
  BY DEF IInv, Types, Peopled, ReadView, Owes, TodoOK, Labels
<1>2. job' = [job EXCEPT ![w].view = members[i]] /\ Goto(w, "tell")
  BY <1>1 DEF ReadView
<1>3. /\ job'[w].id = job[w].id /\ job'[w].call = job[w].call /\ job'[w].created = job[w].created
      /\ job'[w].todo = {} /\ job'[w].view = members[i] /\ pc'[w] = "tell"
  BY <1>1, <1>2, SetsView, GoesTo
<1>4. Op(w)' = Op(w) /\ Me(w)' = Me(w) /\ DmPair(w)' = DmPair(w) /\ Id(w)' = i
  BY <1>1, <1>3 DEF Op, Me, DmPair, Id
<1>5. u \in Audience(w)'
  <2>1. CASE Op(w) = "accept"
    BY <1>3, <1>4, <2>1 DEF Audience
  <2>2. CASE Op(w) = "palette" /\ u = Me(w)
    BY <1>4, <2>2 DEF Audience
  <2>3. CASE Op(w) = "dm" /\ job[w].created /\ u \in DmPair(w)
    BY <1>3, <1>4, <2>3 DEF Audience
  <2>4. QED
    BY <1>1, <2>1, <2>2, <2>3 DEF Owes
<1>6. QED
  BY <1>3, <1>4, <1>5 DEF Owes

LEMMA OwesTold ==
    ASSUME IInv, NEW w \in Thread, Tell(w),
           NEW i \in Conv, NEW u \in User, NEW v \in User, Owes(w, i, u, v)
    PROVE  Owes(w, i, u, v)' \/ v \in seen'[i][u]
<1>1. /\ Types /\ pc[w] = "tell" /\ Id(w) = i /\ u \in Audience(w) \ job[w].todo
      /\ v \in job[w].view /\ job[w] \in Job
      /\ seen \in [Conv -> [User -> SUBSET User]]
  BY DEF IInv, Types, Tell, Owes
<1>2. PICK x \in Audience(w) \ job[w].todo :
          /\ seen' = [seen EXCEPT ![Id(w)][x] = job[w].view]
          /\ job' = [job EXCEPT ![w].todo = job[w].todo \cup {x}]
          /\ UNCHANGED pc
  BY <1>1 DEF Tell
<1>3. CASE x = u
  BY <1>1, <1>2, <1>3
<1>4. CASE x # u
  <2> DEFINE j == [job[w] EXCEPT !.todo = job[w].todo \cup {x}]
  <2>1. /\ j.call = job[w].call /\ j.id = job[w].id /\ j.created = job[w].created
        /\ j.view = job[w].view /\ j.todo = job[w].todo \cup {x}
    BY <1>1 DEF Job
  <2>2. job' = [job EXCEPT ![w] = j]
    BY <1>2
  <2> HIDE DEF j
  <2>3. job'[w] = j
    BY <1>1, <2>2 DEF Types
  <2>4. pc'[w] = "tell"
    BY <1>1, <1>2
  <2>5. Op(w)' = Op(w) /\ Me(w)' = Me(w) /\ DmPair(w)' = DmPair(w) /\ Id(w)' = Id(w)
    BY <2>1, <2>3 DEF Op, Me, DmPair, Id
  <2>6. Audience(w)' = Audience(w)
    BY <2>1, <2>3, <2>5 DEF Audience
  <2>7. u \in Audience(w)' \ job'[w].todo /\ v \in job'[w].view
    BY <1>1, <1>4, <2>1, <2>3, <2>6
  <2>8. QED
    BY <1>1, <2>4, <2>5, <2>7 DEF Owes
<1>5. QED
  BY <1>3, <1>4

LEMMA OwesMember ==
    ASSUME IInv, NEW w \in Thread, CheckMember(w) \/ ReadInvite(w) \/ PutInvite(w),
           NEW i \in Conv, NEW u, NEW v, Owes(w, i, u, v)
    PROVE  Owes(w, i, u, v)'
<1>1. /\ Types /\ pc[w] \in {"member", "state", "upsert"} /\ Id(w) = i
      /\ Op(w) = "palette" /\ u = Me(w) /\ job[w].todo \in SUBSET User
      /\ {"member", "state", "upsert", "view"} \subseteq Labels
  BY DEF IInv, Types, CallOK, Job, Owes, CheckMember, ReadInvite, PutInvite, Labels
<1>2. ASSUME pc'[w] \in {"member", "state", "upsert", "view"},
             job'[w].id = job[w].id, job'[w].call = job[w].call
      PROVE  Owes(w, i, u, v)'
  <2>1. Op(w)' = "palette" /\ Me(w)' = u /\ Id(w)' = i
    BY <1>1, <1>2 DEF Op, Me, Id
  <2>2. QED
    BY <1>2, <2>1 DEF Owes
<1>3. CASE CheckMember(w)
  <2>1. PICK x \in job[w].todo :
          IF x \in members[Id(w)]
          THEN /\ job' = [job EXCEPT ![w].todo = job[w].todo \ {x}]
               /\ Goto(w, IF job[w].todo = {x} THEN "view" ELSE "member")
          ELSE job' = [job EXCEPT ![w].one = x] /\ Goto(w, "state")
    BY <1>3 DEF CheckMember
  <2>2. x \in User /\ job[w].todo \ {x} \in SUBSET User
    BY <1>1
  <2>3. job'[w].id = job[w].id /\ job'[w].call = job[w].call
    BY <1>1, <2>1, <2>2, SetsTodo, SetsOne
  <2>4. pc'[w] \in {"member", "state", "view"}
    BY <1>1, <2>1, GoesTo
  <2>5. QED
    BY <1>2, <2>3, <2>4
<1>4. CASE \E b \in BOOLEAN : NextInvitee(w, b)
  <2>1. pc'[w] \in {"member", "view"} /\ job'[w].id = job[w].id /\ job'[w].call = job[w].call
    BY <1>1, <1>4, GoesOn
  <2>2. QED
    BY <1>2, <2>1
<1>5. CASE Goto(w, "upsert") /\ UNCHANGED job
  <2>1. pc'[w] = "upsert"
    BY <1>1, <1>5, GoesTo
  <2>2. QED
    BY <1>2, <1>5, <2>1
<1>6. QED
  BY <1>3, <1>4, <1>5 DEF ReadInvite, PutInvite

\* What a thread owes it goes on owing, or has just done, or the call failed.
LEMMA OwesKept ==
    ASSUME IInv, AllyInv, Peopled, [Next]_vars, NEW w \in Thread, ~Fault(w), ~LoseCommit(w),
           NEW i \in Conv, NEW u \in members[i], NEW v \in members[i], Owes(w, i, u, v)
    PROVE  Owes(w, i, u, v)' \/ v \in seen'[i][u]
<1>1. members[i] \in SUBSET User /\ pc[w] # "idle" /\ TodoOK(w)
  BY DEF IInv, Types, Owes, AllyInv
<1>2. CASE pc'[w] = pc[w] /\ job'[w] = job[w]
  <2>1. Op(w)' = Op(w) /\ Me(w)' = Me(w) /\ DmPair(w)' = DmPair(w) /\ Id(w)' = Id(w)
    BY <1>2 DEF Op, Me, DmPair, Id
  <2>2. Audience(w)' = Audience(w)
    BY <1>2, <2>1 DEF Audience
  <2>3. QED
    BY <1>2, <2>1, <2>2 DEF Owes
<1>3. CASE Step(w)
  <2>1. pc[w] \in {"member", "state", "upsert", "view", "tell"}
    BY DEF Owes
  <2>2. CheckMember(w) \/ ReadInvite(w) \/ PutInvite(w) \/ ReadView(w) \/ Tell(w)
    BY <1>3, <2>1 DEF Step, CheckPalette, CheckAllies, ReadClock, FindDm, InsertConversation,
       InsertChat, CreatePalette, TakeInvite, Commit, DeclineInvite
  <2>3. u \in User /\ v \in User
    BY <1>1
  <2>4. QED
    BY <1>1, <2>2, <2>3, OwesRead, OwesTold, OwesMember
<1>4. CASE \E c \in Call : Begin(w, c)
  BY <1>1, <1>4 DEF Begin
<1>5. QED
  BY <1>2, <1>3, <1>4, Mover DEF ThreadStep

\* A list that a thread begins to tell is of the members as they are; who joins
\* while one is being told is overtaken by it.
LEMMA ListsRead ==
    ASSUME IInv, [Next]_vars, NEW w \in Thread, NEW i \in Conv, Telling(w, i)'
    PROVE  \/ Telling(w, i) /\ job'[w].view = job[w].view
           \/ job'[w].view = members[i] /\ members'[i] = members[i]
<1>1. Types
  BY DEF IInv
<1>2. CASE pc'[w] = pc[w] /\ job'[w] = job[w]
  BY <1>2 DEF Telling, Op, Id
<1>3. CASE Tell(w)
  <2>1. CASE Return(w)
    BY <1>1, <2>1 DEF Return, Goto, Telling, Types
  <2>2. CASE \E u \in Audience(w) : job' = [job EXCEPT ![w].todo = job[w].todo \cup {u}] /\ UNCHANGED pc
    <3>1. PICK u \in Audience(w) : job' = [job EXCEPT ![w].todo = job[w].todo \cup {u}] /\ UNCHANGED pc
      BY <2>2
    <3> DEFINE j == [job[w] EXCEPT !.todo = job[w].todo \cup {u}]
    <3>2. /\ j.call = job[w].call /\ j.id = job[w].id /\ j.view = job[w].view
          /\ job' = [job EXCEPT ![w] = j]
      BY <1>1, <3>1 DEF Types, Job
    <3> HIDE DEF j
    <3>3. job'[w] = j
      BY <1>1, <3>2 DEF Types
    <3>4. QED
      BY <3>1, <3>2, <3>3 DEF Telling, Op, Id
  <2>3. QED
    BY <1>3, <2>1, <2>2 DEF Tell
<1>4. CASE ReadView(w)
  <2>1. CASE Return(w)
    BY <1>1, <2>1 DEF Return, Goto, Telling, Types
  <2>2. CASE job' = [job EXCEPT ![w].view = members[Id(w)]]
    <3>1. Id(w) \in Conv /\ UNCHANGED members
      BY <1>4, IdTyped DEF ReadView, tables
    <3>2. members[Id(w)] \in SUBSET User
      BY <1>1, <3>1 DEF Types
    <3>3. job'[w].id = job[w].id /\ job'[w].call = job[w].call /\ job'[w].view = members[Id(w)]
      BY <1>1, <2>2, <3>2, SetsView
    <3>4. Id(w)' = Id(w)
      BY <3>3 DEF Id
    <3>5. QED
      BY <3>1, <3>3, <3>4 DEF Telling
  <2>3. QED
    BY <1>4, <2>1, <2>2 DEF ReadView
<1>5. CASE ThreadStep(w) /\ ~Tell(w) /\ ~ReadView(w)
  <2>1. ASSUME NEW label, Goto(w, label)
        PROVE  pc'[w] = label
    BY <1>1, <2>1 DEF Goto, Types
  <2>2. ASSUME NEW label, Goto(w, label), label # "tell"
        PROVE  FALSE
    BY <2>1, <2>2 DEF Telling
  <2>3. ~Return(w)
    BY <2>2 DEF Return
  <2>4. ~\E b \in BOOLEAN : NextInvitee(w, b)
    <3>1. \A left : (IF left = {} THEN "view" ELSE "member") # "tell"
      OBVIOUS
    <3>2. QED
      BY <2>2, <3>1 DEF NextInvitee
  <2>5. ~\E c \in Call : Begin(w, c)
    <3>1. \A c \in Call : First(c) # "tell"
      BY CallTyped DEF First
    <3>2. QED
      BY <2>2, <3>1 DEF Begin
  <2>6. pc'[w] = "tell"
    BY DEF Telling
  <2>7. CASE CheckAllies(w)
    <3>1. pc[w] = "ally" /\ (UNCHANGED pc \/ \E label \in {"find", "clock"} : Goto(w, label))
      <4>1. Op(w) = "dm" \/ Op(w) # "dm"
        OBVIOUS
      <4>2. QED
        BY <2>3, <2>7 DEF CheckAllies
    <3>2. QED
      BY <2>2, <2>6, <3>1
  <2>8. CASE CheckPalette(w) \/ ReadClock(w) \/ FindDm(w) \/ InsertConversation(w) \/ InsertChat(w)
    BY <2>2, <2>3, <2>8 DEF CheckPalette, ReadClock, FindDm, InsertConversation, InsertChat
  <2>9. CASE CreatePalette(w) \/ CheckMember(w) \/ ReadInvite(w) \/ PutInvite(w)
    BY <2>2, <2>4, <2>9 DEF CreatePalette, CheckMember, ReadInvite, PutInvite
  <2>10. CASE TakeInvite(w) \/ Commit(w) \/ DeclineInvite(w) \/ Fault(w) \/ LoseCommit(w)
    BY <2>2, <2>3, <2>10 DEF TakeInvite, Commit, DeclineInvite, Fault, LoseCommit
  <2>11. QED
    BY <1>5, <2>5, <2>7, <2>8, <2>9, <2>10 DEF ThreadStep, Step
<1>6. QED
  BY <1>2, <1>3, <1>4, <1>5, Mover

LEMMA ListsKept ==
    ASSUME IInv, ListsFull, [Next]_vars
    PROVE  ListsFull'
<1> SUFFICES ASSUME NEW w \in Thread, NEW i \in Conv, Telling(w, i)',
                    NEW x \in members'[i], x \notin overtaken'[i]
             PROVE  x \in job'[w].view
  BY DEF ListsFull
<1>1. Types /\ x \notin overtaken[i]
  BY OvertakenGrows DEF IInv
<1>2. CASE job'[w].view = members[i] /\ members'[i] = members[i]
  BY <1>2
<1>3. CASE Telling(w, i) /\ job'[w].view = job[w].view
  <2>1. CASE x \in members[i]
    BY <1>1, <1>3, <2>1 DEF ListsFull
  <2>2. CASE x \notin members[i]
    <3>1. PICK v \in Thread :
               \/ CreatePalette(v) /\ i = nextId /\ members'[i] = {Me(v)}
               \/ Commit(v) /\ i = Id(v) /\ Op(v) = "dm" /\ members'[i] = DmPair(v)
               \/ Commit(v) /\ i = Id(v) /\ Op(v) = "accept"
      BY <2>2, Joins
    <3>2. kind[i] # None
      BY <1>3 DEF Telling, IInv, CallOK
    <3>3. CASE CreatePalette(v) /\ i = nextId
      BY <3>2, <3>3, Ids DEF IInv, Rows, Types
    <3>4. CASE Commit(v) /\ i = Id(v) /\ Op(v) = "dm"
      <4>1. Opens(v) /\ pc[v] = "commit"
        BY <3>4 DEF Commit, Opens
      <4>2. kind[job[v].id] = None /\ job[v].id \in Conv
        BY <4>1 DEF IInv, DmOK
      <4>3. Id(v) = job[v].id
        BY <4>1, <4>2, IdTyped, Ids
      <4>4. QED
        BY <3>2, <3>4, <4>2, <4>3
    <3>5. CASE Commit(v) /\ i = Id(v) /\ Op(v) = "accept"
      <4>1. v # w /\ \E t \in Thread \ {v} : Telling(t, Id(v))
        BY <1>3, <3>5 DEF Commit, Telling
      <4>2. /\ members' = [members EXCEPT ![i] = members[i] \cup {Me(v)}]
            /\ overtaken' = [overtaken EXCEPT ![i] = overtaken[i] \cup {Me(v)}]
        BY <3>5, <4>1 DEF Commit
      <4>3. x = Me(v) /\ x \in overtaken'[i]
        BY <1>1, <2>2, <4>2 DEF Types
      <4>4. QED
        BY <4>3
    <3>6. QED
      BY <3>1, <3>3, <3>4, <3>5
  <2>3. QED
    BY <2>1, <2>2
<1>4. QED
  BY <1>2, <1>3, ListsRead

LEMMA IntroKept ==
    ASSUME IInv, AllyInv, Peopled, ListsFull, IntroInv, [Next]_vars
    PROVE  IntroInv'
<1> SUFFICES ASSUME budget'["faults"] = 0, NEW i \in Conv,
                    NEW u \in members'[i], NEW v \in members'[i], v \notin overtaken'[i]
             PROVE  v \in seen'[i][u] \/ \E w \in Thread : Owes(w, i, u, v)'
  BY DEF IntroInv
<1>1. budget \in [Bounded -> Nat] /\ "faults" \in Bounded
  BY DEF IInv, Types, Bounded
<1>2. ~Spend("faults")
  BY <1>1 DEF Spend
<1>3. budget["faults"] = 0
  <2>1. Spend("calls") \/ Spend("partings") \/ Spend("instants") => budget'["faults"] = budget["faults"]
    BY <1>1 DEF Spend
  <2>2. QED
    BY <1>2, <2>1, BudgetSpent
<1>4. \A w \in Thread : ~Fault(w) /\ ~LoseCommit(w)
  BY <1>2 DEF Fault, LoseCommit
<1>5. CASE members'[i] # members[i]
  BY <1>5, JoinerOwes
<1>6. CASE members'[i] = members[i]
  <2>1. u \in members[i] /\ v \in members[i] /\ u \in User /\ v \notin overtaken[i]
    BY <1>6, OvertakenGrows DEF IInv, Types
  <2>2. CASE v \in seen[i][u]
    <3>1. CASE seen'[i][u] = seen[i][u]
      BY <2>2, <3>1
    <3>2. CASE seen'[i][u] # seen[i][u]
      <4>1. PICK w \in Thread : Telling(w, i) /\ seen'[i][u] = job[w].view
        BY <2>1, <3>2, SeenChanges
      <4>2. QED
        BY <2>1, <4>1 DEF ListsFull
    <3>3. QED
      BY <3>1, <3>2
  <2>3. CASE \E w \in Thread : Owes(w, i, u, v)
    BY <1>4, <2>1, <2>3, OwesKept
  <2>4. QED
    BY <1>3, <2>1, <2>2, <2>3 DEF IntroInv
<1>7. QED
  BY <1>5, <1>6

\* Unless something failed, once no call is in progress the members of a conversation
\* were last told of each other, though a list may be read, overtaken by another and
\* told after it: who may be missing is only who joined while a list read before was
\* still being told.
THEOREM MembersIntroduced == Spec => []EveryoneIntroduced
<1>1. Init => IInv /\ AllyInv /\ Peopled /\ ListsFull /\ IntroInv
  <2>1. Init => Peopled /\ ListsFull /\ IntroInv
    <3> SUFFICES ASSUME Init PROVE Peopled /\ ListsFull /\ IntroInv
      OBVIOUS
    <3>1. Peopled
      BY ConversationsAssumption DEF Init, Peopled
    <3>2. IntroInv
      <4>1. members \in [Conv -> SUBSET User]
        BY InitInv DEF IInv, Types
      <4>2. seen = [i \in Conv |-> [u \in User |-> IF u \in members[i] THEN members[i] ELSE {}]]
        BY DEF Init
      <4>3. QED
        BY <4>1, <4>2 DEF IntroInv
    <3>3. ListsFull
      BY DEF Init, ListsFull, Telling
    <3>4. QED
      BY <3>1, <3>2, <3>3
  <2>2. QED
    BY <2>1, InitInv, InitAllies
<1>2. IInv /\ AllyInv /\ Peopled /\ ListsFull /\ IntroInv /\ [Next]_vars => (IInv /\ AllyInv /\ Peopled /\ ListsFull /\ IntroInv)'
  BY StepKept, AllyInvKept, PeopledKept, ListsKept, IntroKept
<1>3. IntroInv => EveryoneIntroduced
  <2> SUFFICES ASSUME IntroInv, budget["faults"] = 0, \A w \in Thread : pc[w] = "idle",
                      NEW i \in Conv, NEW u \in members[i], NEW v \in members[i] \ overtaken[i]
               PROVE  v \in seen[i][u]
    BY DEF EveryoneIntroduced
  <2>1. QED
    BY DEF IntroInv, Owes
<1>4. QED
  BY <1>1, <1>2, <1>3, PTL DEF Spec
=============================================================================
