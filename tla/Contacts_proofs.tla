---------------------------- MODULE Contacts_proofs ----------------------------
(***************************************************************************)
(* Proofs about Contacts for any users, threads, calls and bounds: a row   *)
(* belongs to its owner, whatever transactions are open; every variable    *)
(* has its type; nobody can talk to who has not agreed to it; requests     *)
(* that wait are within their limit; what people were told of each other   *)
(* is so, where no calls about them overlapped and nothing failed.         *)
(***************************************************************************)
EXTENDS Contacts, SequenceTheorems, FiniteSetTheorems, TLAPS

\* The variables are functions on what they are indexed by.
Shapes ==
    /\ draft = [w \in Thread |-> draft[w]]
    /\ pc = [w \in Thread |-> pc[w]]
    /\ job = [w \in Thread |-> job[w]]

\* The operation a thread's statement belongs to, and where a transaction is open.
CallOK(w) ==
    /\ "call" \in DOMAIN job[w]
    /\ pc[w] # "idle" => job[w].call \in Call
    /\ pc[w] \in {"imposter", "unrow", "tier"} => Op(w) = "setLevel"
    /\ pc[w] \in {"level", "rows", "unblock"} => Op(w) = "remove"
    /\ draft[w] # <<>> => pc[w] \in {"allyFrom", "allyTo", "unrow", "requests", "commit"}

\* What an open transaction has written to a contact row: ally where there was
\* nothing; the block of its caller; nothing where there was a tier, or where the
\* row is that of somebody the caller blocks.
Rightly(w, r) ==
    \/ draft[w][r] = "ally" /\ db[r] = None
    \/ draft[w][r] = "imposter" /\ Op(w) = "setLevel" /\ r = Contact(Me(w), Other(w))
    \/ draft[w][r] = None /\ db[r] \in Tier /\ Op(w) = "remove"
    \/ draft[w][r] = None /\ Op(w) = "setLevel" /\ r = Contact(Other(w), Me(w))

DraftOK(w) == \A r \in DOMAIN draft[w] : r \in ContactRow => Rightly(w, r)

\* A row is in one open transaction at most.
Apart == \A w, v \in Thread : w # v => DOMAIN draft[w] \cap DOMAIN draft[v] = {}

IInv == Shapes /\ Apart /\ \A w \in Thread : CallOK(w) /\ DraftOK(w)

\* The step is one of w.
Alone(w) == \A v \in Thread \ {w} : pc'[v] = pc[v] /\ job'[v] = job[v] /\ draft'[v] = draft[v]

\* w makes a statement on behalf of its caller.
Acts(w, a, b, op) == /\ pc'[w] # pc[w] /\ pc[w] # "idle" /\ Op(w) = op
                     /\ Me(w) = a /\ {Me(w), Other(w)} = {a, b}

\* The step a row of a, about b, may take.
RowStep(a, b) ==
    LET row == Contact(a, b)
    IN /\ db[row] # None /\ db'[row] \notin {db[row], None} =>
              \E w \in Thread : Acts(w, a, b, "setLevel")
       /\ db[row] = "imposter" /\ db'[row] = None =>
              \/ \E w \in Thread : Acts(w, a, b, "remove")
              \/ \E w \in Thread : Acts(w, b, a, "setLevel")

Kept == IInv' /\ \A p \in Pair : RowStep(p[1], p[2])
-----------------------------------------------------------------------------
(* Rows and calls *)

\* A request row is no contact row, so what is written there is nobody's level.
LEMMA RowsApart ==
    /\ \A a, b, c, d : Contact(a, b) # Asked(c, d)
    /\ \A a, b, c, d : Contact(a, b) = Contact(c, d) <=> a = c /\ b = d
    /\ \A a, b : Asked(a, b) \notin ContactRow
    /\ ContactRow \subseteq Row /\ RequestRow \subseteq Row
    /\ \A p \in Pair : Contact(p[1], p[2]) \in ContactRow
  BY DEF Contact, Asked, ContactRow, RequestRow, Row

\* A call is of two different people.
LEMMA CallTyped ==
    ASSUME NEW c \in Call
    PROVE  /\ c.op \in {"request", "accept", "refuse", "setLevel", "remove"}
           /\ <<c.me, c.other>> \in Pair /\ <<c.other, c.me>> \in Pair
  BY ContactsAssumption DEF CallType, Pair

\* The rows of a call's pair are rows of the tables.
LEMMA OwnRows ==
    ASSUME NEW w \in Thread, job[w].call \in Call
    PROVE  /\ Contact(Me(w), Other(w)) \in ContactRow
           /\ Contact(Other(w), Me(w)) \in ContactRow
           /\ Asked(Me(w), Other(w)) \in Row
           /\ Asked(Other(w), Me(w)) \in Row
  <1> DEFINE c == job[w].call
  <1>1. <<c.me, c.other>> \in Pair /\ <<c.other, c.me>> \in Pair
    BY CallTyped
  <1>2. ContactRow \subseteq Row /\ RequestRow \subseteq Row
    BY RowsApart
  <1>3. Contact(c.me, c.other) \in ContactRow /\ Contact(c.other, c.me) \in ContactRow
    BY <1>1 DEF ContactRow
  <1>4. Asked(c.me, c.other) \in RequestRow /\ Asked(c.other, c.me) \in RequestRow
    BY <1>1 DEF RequestRow
  <1> QED
    BY <1>2, <1>3, <1>4 DEF Me, Other
-----------------------------------------------------------------------------
(* The three kinds of steps *)

\* A step that leaves the tables alone takes no row from anybody.
LEMMA RowsStay ==
    ASSUME db' = db
    PROVE  \A p \in Pair : RowStep(p[1], p[2])
  BY ContactsAssumption DEF RowStep, Level

\* A step of w that writes to contact rows only where no other transaction has
\* written, and leaves its own transaction as it is or ends it.
LEMMA Settled ==
    ASSUME IInv, NEW w \in Thread, Shapes', Alone(w), CallOK(w)',
           \A r \in ContactRow :
               db'[r] # db[r] => \A v \in Thread \ {w} : r \notin DOMAIN draft[v],
           \/ draft'[w] = <<>>
           \/ draft'[w] = draft[w] /\ db' = db /\ job'[w].call = job[w].call
    PROVE  IInv'
  <1>1. ASSUME NEW v \in Thread PROVE CallOK(v)'
    BY <1>1 DEF Alone, CallOK, IInv, Op
  <1>2. Apart'
    BY DEF Alone, Apart, IInv
  <1>3. ASSUME NEW v \in Thread, v # w PROVE DraftOK(v)'
    BY <1>3 DEF Alone, DraftOK, Rightly, IInv, Op, Me, Other
  <1>4. DraftOK(w)'
    BY DEF DraftOK, Rightly, IInv, Op, Me, Other
  <1> QED
    BY <1>1, <1>2, <1>3, <1>4 DEF IInv

\* A statement of a transaction: it waits for the rows it writes to.
LEMMA Staged ==
    ASSUME IInv, NEW w \in Thread, Shapes', Alone(w), CallOK(w)', db' = db,
           job'[w].call = job[w].call, NEW rows, NEW value,
           rows \subseteq Targets(w), Stage(w, rows, value),
           \A r \in rows : r \in ContactRow =>
               \/ value = "ally" /\ db[r] = None
               \/ value = "imposter" /\ Op(w) = "setLevel" /\ r = Contact(Me(w), Other(w))
               \/ value = None /\ db[r] \in Tier /\ Op(w) = "remove"
               \/ value = None /\ Op(w) = "setLevel" /\ r = Contact(Other(w), Me(w))
    PROVE  Kept
  <1>1. draft'[w] = [r \in DOMAIN draft[w] \cup rows |->
                         IF r \in rows THEN value ELSE draft[w][r]]
    BY DEF Stage, IInv, Shapes
  <1>2. \A v \in Thread \ {w} : rows \cap DOMAIN draft[v] = {}
    BY DEF Stage, WaitsFor
  <1>3. ASSUME NEW v \in Thread PROVE CallOK(v)'
    BY <1>3 DEF Alone, CallOK, IInv, Op
  <1>4. Apart'
    BY <1>1, <1>2 DEF Alone, Apart, IInv
  <1>5. ASSUME NEW v \in Thread, v # w PROVE DraftOK(v)'
    BY <1>5 DEF Alone, DraftOK, Rightly, IInv, Op, Me, Other
  <1>6. DraftOK(w)'
    BY <1>1 DEF DraftOK, Rightly, IInv, Op, Me, Other
  <1> QED
    BY <1>3, <1>4, <1>5, <1>6, RowsStay DEF IInv, Kept
-----------------------------------------------------------------------------
(* What the actions share *)

\* The rows a statement writes to are those of its call's pair.
LEMMA TargetsOf ==
    ASSUME NEW w \in Thread
    PROVE  /\ pc[w] \in {"take", "decline"} => Targets(w) \subseteq {Asked(Other(w), Me(w))}
           /\ pc[w] \in {"put", "withdraw"} => Targets(w) \subseteq {Asked(Me(w), Other(w))}
           /\ pc[w] = "requests" => Targets(w) \subseteq Requests(w)
           /\ pc[w] = "rows" => \A r \in Targets(w) : db[r] \in Tier
           /\ pc[w] = "imposter" => Targets(w) = {Contact(Me(w), Other(w))}
           /\ pc[w] = "unrow" => Targets(w) \subseteq {Contact(Other(w), Me(w))}
           /\ pc[w] = "unblock" =>
                  Targets(w) = {r \in {Contact(Me(w), Other(w))} : db[r] = "imposter"}
           /\ pc[w] = "tier" =>
                  Targets(w) = {r \in {Contact(Me(w), Other(w))} : db[r] \in Tier}
  <1>1. CASE pc[w] = "take"      BY <1>1 DEF Targets
  <1>2. CASE pc[w] = "decline"   BY <1>2 DEF Targets
  <1>3. CASE pc[w] = "put"       BY <1>3 DEF Targets
  <1>4. CASE pc[w] = "withdraw"  BY <1>4 DEF Targets
  <1>5. CASE pc[w] = "requests"  BY <1>5 DEF Targets
  <1>6. CASE pc[w] = "rows"      BY <1>6 DEF Targets
  <1>7. CASE pc[w] = "imposter"  BY <1>7 DEF Targets
  <1>8. CASE pc[w] = "unrow"     BY <1>8 DEF Targets
  <1>9. CASE pc[w] = "unblock"   BY <1>9 DEF Targets
  <1>10. CASE pc[w] = "tier"     BY <1>10 DEF Targets
  <1> QED
    BY <1>1, <1>2, <1>3, <1>4, <1>5, <1>6, <1>7, <1>8, <1>9, <1>10

\* A call that returns closes its transaction.
LEMMA Returned ==
    ASSUME IInv, NEW w \in Thread, Return(w),
           \A r \in ContactRow :
               db'[r] # db[r] => \A v \in Thread \ {w} : r \notin DOMAIN draft[v]
    PROVE  IInv'
  <1>1. /\ pc' = [pc EXCEPT ![w] = "idle"]
        /\ job' = [job EXCEPT ![w] = NoJob]
        /\ draft' = [draft EXCEPT ![w] = <<>>]
    BY DEF Return, Goto
  <1>2. Shapes'
    BY <1>1 DEF IInv, Shapes
  <1>3. Alone(w)
    BY <1>1 DEF Alone, IInv, Shapes
  <1>4. draft'[w] = <<>> /\ pc'[w] = "idle" /\ job'[w] = NoJob
    BY <1>1 DEF IInv, Shapes
  <1>5. CallOK(w)'
    BY <1>4 DEF CallOK, NoJob
  <1> QED
    BY <1>2, <1>3, <1>4, <1>5, Settled

\* A call goes on at another statement, outside a transaction or in the one it has.
LEMMA GoesOn ==
    ASSUME IInv, NEW w \in Thread, NEW label, Goto(w, label), pc[w] # "idle",
           UNCHANGED <<db, draft>>, job' = [v \in Thread |-> job'[v]],
           \A v \in Thread \ {w} : job'[v] = job[v],
           "call" \in DOMAIN job'[w], job'[w].call = job[w].call,
           label \in {"imposter", "unrow", "tier"} => Op(w) = "setLevel",
           label \in {"level", "rows", "unblock"} => Op(w) = "remove",
           draft[w] = <<>>
    PROVE  Kept
  <1>1. pc' = [pc EXCEPT ![w] = label]
    BY DEF Goto
  <1>2. Shapes'
    BY <1>1 DEF IInv, Shapes
  <1>3. Alone(w)
    BY <1>1 DEF Alone, IInv, Shapes
  <1>4. pc'[w] = label
    BY <1>1 DEF IInv, Shapes
  <1>5. CallOK(w)'
    BY <1>4 DEF CallOK, IInv, Op
  <1>6. IInv'
    BY <1>2, <1>3, <1>5, Settled
  <1> QED
    BY <1>6, RowsStay DEF Kept

\* A transaction goes on: only its draft and its place change.
LEMMA Writes ==
    ASSUME IInv, NEW w \in Thread, NEW label, NEW rows, NEW value,
           Goto(w, label), Stage(w, rows, value), pc[w] # "idle",
           db' = db, job' = [v \in Thread |-> job'[v]],
           \A v \in Thread \ {w} : job'[v] = job[v],
           "call" \in DOMAIN job'[w], job'[w].call = job[w].call,
           label \in {"allyFrom", "allyTo", "unrow", "requests", "commit"},
           label = "unrow" => Op(w) = "setLevel",
           rows \subseteq Targets(w),
           \A r \in rows : r \in ContactRow =>
               \/ value = "ally" /\ db[r] = None
               \/ value = "imposter" /\ Op(w) = "setLevel" /\ r = Contact(Me(w), Other(w))
               \/ value = None /\ db[r] \in Tier /\ Op(w) = "remove"
               \/ value = None /\ Op(w) = "setLevel" /\ r = Contact(Other(w), Me(w))
    PROVE  Kept
  <1>1. pc' = [pc EXCEPT ![w] = label]
    BY DEF Goto
  <1>2. draft' = [draft EXCEPT ![w] = draft'[w]]
    BY DEF Stage, IInv, Shapes
  <1>3. Shapes'
    BY <1>1, <1>2 DEF IInv, Shapes
  <1>4. Alone(w)
    BY <1>1, <1>2 DEF Alone, IInv, Shapes
  <1>5. pc'[w] = label
    BY <1>1 DEF IInv, Shapes
  <1>6. CallOK(w)'
    BY <1>5 DEF CallOK, IInv, Op
  <1> QED
    BY <1>3, <1>4, <1>6, Staged

\* A statement of its own, of a thread with no transaction open: it waits for the
\* rows it writes to, and each contact row it changes it may change.
LEMMA Executes ==
    ASSUME IInv, NEW w \in Thread, pc[w] # "idle", draft' = draft, draft[w] = <<>>,
           WaitsFor(w) = {},
           \A r \in ContactRow : db'[r] # db[r] => r \in Targets(w),
           NEW label, Goto(w, label), label \in {"tell", "withdraw"},
           job' = [v \in Thread |-> job'[v]],
           \A v \in Thread \ {w} : job'[v] = job[v],
           "call" \in DOMAIN job'[w], job'[w].call = job[w].call
    PROVE  IInv'
  <1>1. pc' = [pc EXCEPT ![w] = label]
    BY DEF Goto
  <1>2. Shapes'
    BY <1>1 DEF IInv, Shapes
  <1>3. Alone(w)
    BY <1>1 DEF Alone, IInv, Shapes
  <1>4. pc'[w] = label
    BY <1>1 DEF IInv, Shapes
  <1>5. CallOK(w)'
    BY <1>4 DEF CallOK, IInv, Op
  <1>6. \A r \in ContactRow : db'[r] # db[r] => \A v \in Thread \ {w} : r \notin DOMAIN draft[v]
    BY DEF WaitsFor
  <1> QED
    BY <1>2, <1>3, <1>5, <1>6, Settled

\* The event of a call is a local of its own.
LEMMA Told ==
    ASSUME IInv, NEW w \in Thread, NEW news, Tell(w, news)
    PROVE  /\ job' = [v \in Thread |-> job'[v]]
           /\ \A v \in Thread \ {w} : job'[v] = job[v]
           /\ "call" \in DOMAIN job'[w] /\ job'[w].call = job[w].call
  BY DEF Tell, IInv, Shapes, CallOK

\* Locals that a step leaves alone.
LEMMA SameLocals ==
    ASSUME IInv, NEW w \in Thread, job' = job
    PROVE  /\ job' = [v \in Thread |-> job'[v]]
           /\ \A v \in Thread \ {w} : job'[v] = job[v]
           /\ "call" \in DOMAIN job'[w] /\ job'[w].call = job[w].call
  BY DEF IInv, Shapes, CallOK

\* A call that returns without having written anything.
LEMMA ReturnsQuietly ==
    ASSUME IInv, NEW w \in Thread, Return(w), db' = db
    PROVE  Kept
  <1>1. IInv'
    BY Returned
  <1> QED
    BY <1>1, RowsStay DEF Kept
-----------------------------------------------------------------------------
(* The actions *)

LEMMA BeginKeeps ==
    ASSUME IInv, NEW w \in Thread, NEW c \in Call, Begin(w, c)
    PROVE  Kept
  <1> DEFINE j == [NoJob EXCEPT !.call = c, !.now = clock]
  <1>1. j.call = c /\ "call" \in DOMAIN j
    BY DEF NoJob
  <1>2. job' = [job EXCEPT ![w] = j] /\ pc' = [pc EXCEPT ![w] = First(c)]
    BY DEF Begin, Goto
  <1>3. db' = db /\ draft' = draft /\ pc[w] = "idle"
    BY DEF Begin
  <1> HIDE DEF j
  <1>4. Shapes'
    BY <1>2, <1>3 DEF IInv, Shapes
  <1>5. Alone(w)
    BY <1>2, <1>3 DEF Alone, IInv, Shapes
  <1>6. pc'[w] = First(c) /\ job'[w] = j
    BY <1>2 DEF IInv, Shapes
  <1>7. draft'[w] = <<>>
    BY <1>3 DEF IInv, CallOK
  <1>8. c.op \in {"request", "accept", "refuse", "setLevel", "remove"}
    BY CallTyped
  <1>9. CallOK(w)'
    BY <1>1, <1>6, <1>7, <1>8 DEF CallOK, First, Op
  <1>10. IInv'
    BY <1>3, <1>4, <1>5, <1>7, <1>9, Settled
  <1> QED
    BY <1>3, <1>10, RowsStay DEF Kept

LEMMA CheckKeeps ==
    ASSUME IInv, NEW w \in Thread, NEW label, NEW answered, NEW next,
           Check(w, label, answered, next),
           label \notin {"idle", "allyFrom", "allyTo", "unrow", "requests", "commit"},
           next \notin {"imposter", "unrow", "tier", "level", "rows", "unblock"}
    PROVE  Kept
  <1>1. CASE Return(w)
    BY <1>1, ReturnsQuietly DEF Check
  <1>2. CASE Goto(w, next) /\ UNCHANGED <<job, draft>>
    <2>1. pc[w] = label /\ db' = db
      BY DEF Check
    <2>2. draft[w] = <<>>
      BY <2>1 DEF IInv, CallOK
    <2> QED
      BY <1>2, <2>1, <2>2, GoesOn, SameLocals
  <1> QED
    BY <1>1, <1>2 DEF Check

LEMMA RequestKeeps ==
    ASSUME IInv, NEW w \in Thread, RequestStep(w)
    PROVE  Kept
  <1>1. ASSUME CheckMine(w) \/ CheckBoth(w) \/ CheckPending(w) \/ CheckDaily(w)
               \/ CheckBlocked(w) \/ ReadOurs(w)
        PROVE  Kept
    BY <1>1, CheckKeeps
       DEF CheckMine, CheckBoth, CheckPending, CheckDaily, CheckBlocked, ReadOurs
  <1>2. CASE ReadTheirs(w)
    <2>1. pc[w] = "theirs" /\ db' = db /\ draft' = draft /\ job' = job
      BY <1>2 DEF ReadTheirs
    <2>2. PICK label \in {"take", "ours"} : Goto(w, label)
      BY <1>2 DEF ReadTheirs
    <2>3. draft[w] = <<>>
      BY <2>1 DEF IInv, CallOK
    <2> QED
      BY <2>1, <2>2, <2>3, GoesOn, SameLocals
  <1>3. CASE Put(w)
    <2>1. pc[w] = "put" /\ draft' = draft /\ WaitsFor(w) = {} /\ Goto(w, "tell")
      BY <1>3 DEF Put, Execute
    <2>2. \A r \in Row : db'[r] # db[r] => r \in Targets(w)
      BY <1>3 DEF Put, Execute
    <2>3. \A r \in ContactRow : db'[r] = db[r]
      BY <2>1, <2>2, TargetsOf, RowsApart
    <2>4. draft[w] = <<>>
      BY <2>1 DEF IInv, CallOK
    <2>5. Tell(w, <<News(Other(w), Me(w), "asked")>>)
      BY <1>3 DEF Put
    <2>6. IInv'
      BY <2>1, <2>2, <2>3, <2>4, <2>5, Executes, Told
    <2> QED
      BY <2>3, <2>6, RowsApart, ContactsAssumption DEF Kept, RowStep, Level
  <1> QED
    BY <1>1, <1>2, <1>3 DEF RequestStep

LEMMA AcceptKeeps ==
    ASSUME IInv, NEW w \in Thread, Take(w) \/ WriteAllies(w)
    PROVE  Kept
  <1>1. CASE Take(w)
    <2>1. pc[w] = "take" /\ db' = db
      BY <1>1 DEF Take
    <2>2. Targets(w) \subseteq {Asked(Other(w), Me(w))}
      BY <2>1, TargetsOf
    <2>3. CASE Stage(w, Targets(w), None) /\ Goto(w, "allyFrom") /\ UNCHANGED job
      <3>1. \A r \in Targets(w) : r \notin ContactRow
        BY <2>2, RowsApart
      <3> QED
        BY <2>1, <2>3, <3>1, Writes, SameLocals
    <2>4. CASE Goto(w, "ours") /\ UNCHANGED <<draft, job>>
      <3>1. draft[w] = <<>>
        BY <2>1 DEF IInv, CallOK
      <3> QED
        BY <2>1, <2>4, <3>1, GoesOn, SameLocals
    <2>5. CASE Return(w)
      BY <2>1, <2>5, ReturnsQuietly
    <2> QED
      BY <1>1, <2>3, <2>4, <2>5 DEF Take
  <1>2. CASE WriteAllies(w)
    <2> DEFINE rows == {r \in Targets(w) : db[r] = None}
    <2>1. pc[w] # "idle" /\ db' = db /\ job' = job /\ Stage(w, rows, "ally")
      BY <1>2 DEF WriteAllies, InsertAlly
    <2>2. PICK label \in {"allyTo", "commit"} : Goto(w, label)
      BY <1>2 DEF WriteAllies, InsertAlly
    <2> QED
      BY <2>1, <2>2, Writes, SameLocals
  <1> QED
    BY <1>1, <1>2

\* Block and remove: what is written is Rightly what it is.
LEMMA EndingsKeep ==
    ASSUME IInv, NEW w \in Thread,
           WriteImposter(w) \/ DeleteOtherRow(w) \/ DeleteConnected(w) \/ DeleteRequests(w)
    PROVE  Kept
  <1>1. CASE WriteImposter(w)
    <2>1. /\ pc[w] = "imposter" /\ db' = db /\ job' = job
          /\ Stage(w, Targets(w), "imposter") /\ Goto(w, "unrow")
      BY <1>1 DEF WriteImposter
    <2>2. Op(w) = "setLevel" /\ Targets(w) = {Contact(Me(w), Other(w))}
      BY <2>1, TargetsOf DEF IInv, CallOK
    <2> QED
      BY <2>1, <2>2, Writes, SameLocals
  <1>2. CASE DeleteOtherRow(w)
    <2>1. /\ pc[w] = "unrow" /\ db' = db /\ job' = job
          /\ Stage(w, Targets(w), None) /\ Goto(w, "requests")
      BY <1>2 DEF DeleteOtherRow
    <2>2. Op(w) = "setLevel" /\ Targets(w) \subseteq {Contact(Other(w), Me(w))}
      BY <2>1, TargetsOf DEF IInv, CallOK
    <2> QED
      BY <2>1, <2>2, Writes, SameLocals
  <1>3. CASE DeleteConnected(w)
    <2>1. pc[w] = "rows" /\ db' = db
      BY <1>3 DEF DeleteConnected
    <2>2. CASE Return(w)
      BY <2>1, <2>2, ReturnsQuietly
    <2>3. CASE Stage(w, Targets(w), None) /\ Goto(w, "requests") /\ UNCHANGED job
      <3>1. Op(w) = "remove" /\ \A r \in Targets(w) : db[r] \in Tier
        BY <2>1, TargetsOf DEF IInv, CallOK
      <3> QED
        BY <2>1, <2>3, <3>1, Writes, SameLocals
    <2> QED
      BY <1>3, <2>2, <2>3 DEF DeleteConnected
  <1>4. CASE DeleteRequests(w)
    <2> DEFINE both == {<<Me(w), Other(w)>>, <<Other(w), Me(w)>>}
               had == consent \cap both
    <2>1. /\ pc[w] = "requests" /\ db' = db
          /\ Stage(w, Targets(w), None) /\ Goto(w, "commit")
      BY <1>4 DEF DeleteRequests
    <2>2. job' = [job EXCEPT ![w].had = had]
      BY <1>4 DEF DeleteRequests, EndConsent
    <2> HIDE DEF had
    <2>3. /\ job' = [v \in Thread |-> job'[v]]
          /\ \A v \in Thread \ {w} : job'[v] = job[v]
          /\ "call" \in DOMAIN job'[w] /\ job'[w].call = job[w].call
      BY <2>2 DEF IInv, Shapes, CallOK
    <2>4. \A r \in Targets(w) : r \notin ContactRow
      BY <2>1, TargetsOf, RowsApart DEF Requests
    <2> QED
      BY <2>1, <2>3, <2>4, Writes
  <1> QED
    BY <1>1, <1>2, <1>3, <1>4

LEMMA RefuseKeeps ==
    ASSUME IInv, NEW w \in Thread, RefuseStep(w)
    PROVE  Kept
  <1>1. CASE Decline(w)
    <2>1. pc[w] = "decline" /\ draft' = draft /\ WaitsFor(w) = {} /\ Goto(w, "withdraw")
      BY <1>1 DEF Decline
    <2>2. /\ job' = job
          /\ \A r \in Row : db'[r] # db[r] => r \in Targets(w)
      BY <1>1 DEF Decline
    <2>3. \A r \in ContactRow : db'[r] = db[r]
      BY <2>1, <2>2, TargetsOf, RowsApart
    <2>4. draft[w] = <<>>
      BY <2>1 DEF IInv, CallOK
    <2>5. IInv'
      BY <2>1, <2>2, <2>3, <2>4, Executes, SameLocals
    <2> QED
      BY <2>3, <2>5, RowsApart, ContactsAssumption DEF Kept, RowStep, Level
  <1>2. CASE Withdraw(w)
    <2>1. pc[w] = "withdraw" /\ Return(w)
      BY <1>2 DEF Withdraw
    <2>2. \A r \in Row : db'[r] # db[r] => r \in Targets(w)
      BY <1>2 DEF Withdraw, Execute
    <2>3. \A r \in ContactRow : db'[r] = db[r]
      BY <2>1, <2>2, TargetsOf, RowsApart
    <2>4. IInv'
      BY <2>1, <2>2, <2>3, Returned
    <2> QED
      BY <2>3, <2>4, RowsApart, ContactsAssumption DEF Kept, RowStep, Level
  <1> QED
    BY <1>1, <1>2 DEF RefuseStep

\* Changing one's own row, in one statement: the tier of a contact, or a block lifted.
LEMMA OwnRowKeeps ==
    ASSUME IInv, NEW w \in Thread, NEW value, NEW news, Execute(w, value),
           \/ pc[w] = "tier"
           \/ pc[w] = "unblock" /\ value = None,
           IF Targets(w) = {} THEN Return(w)
           ELSE Goto(w, "tell") /\ UNCHANGED draft /\ Tell(w, news)
    PROVE  Kept
  <1>1. /\ WaitsFor(w) = {}
        /\ \A r \in Row : r \notin Targets(w) => db'[r] = db[r]
        /\ \A r \in Row : r \in Targets(w) => db'[r] = value
    BY DEF Execute
  <1>2. draft[w] = <<>> /\ pc[w] # "idle"
    BY DEF IInv, CallOK
  <1>3. \A r \in ContactRow : db'[r] # db[r] => r \in Targets(w)
    BY <1>1, RowsApart
  <1>4. \A r \in ContactRow : db'[r] # db[r] => \A v \in Thread \ {w} : r \notin DOMAIN draft[v]
    BY <1>1, <1>3 DEF WaitsFor
  <1>5. CASE Targets(w) = {}
    <2>1. IInv'
      BY <1>1, <1>4, <1>5, Returned
    <2> QED
      BY <1>3, <1>5, <2>1, RowsApart, ContactsAssumption DEF Kept, RowStep, Level
  <1>6. CASE Targets(w) # {}
    <2>1. IInv'
      BY <1>1, <1>2, <1>3, <1>6, Executes, Told
    <2>2. pc'[w] # pc[w]
      BY <1>6 DEF Goto, IInv, Shapes
    <2>3. ASSUME NEW p \in Pair PROVE RowStep(p[1], p[2])
      <3> DEFINE row == Contact(p[1], p[2])
      <3>1. row \in ContactRow
        BY RowsApart
      <3>2. CASE row \notin Targets(w)
        <4>1. db'[row] = db[row]
          BY <1>3, <3>1, <3>2
        <4> QED
          BY <4>1, ContactsAssumption DEF RowStep, Level
      <3>3. CASE row \in Targets(w)
        <4>1. row = Contact(Me(w), Other(w))
          BY <3>3, TargetsOf
        <4>2. Me(w) = p[1] /\ Other(w) = p[2]
          BY <4>1, RowsApart
        <4>3. CASE pc[w] = "tier"
          <5>1. Op(w) = "setLevel" /\ db[row] # "imposter"
            BY <3>3, <4>3, TargetsOf DEF IInv, CallOK, Tier
          <5>2. Acts(w, p[1], p[2], "setLevel")
            BY <1>2, <2>2, <4>2, <5>1 DEF Acts
          <5> QED
            BY <5>1, <5>2 DEF RowStep
        <4>4. CASE pc[w] = "unblock" /\ value = None
          <5>1. Op(w) = "remove" /\ db'[row] = None
            BY <1>1, <3>1, <3>3, <4>4, RowsApart DEF IInv, CallOK
          <5>2. Acts(w, p[1], p[2], "remove")
            BY <1>2, <2>2, <4>2, <5>1 DEF Acts
          <5> QED
            BY <5>1, <5>2 DEF RowStep
        <4> QED
          BY <4>3, <4>4
      <3> QED
        BY <3>2, <3>3
    <2> QED
      BY <2>1, <2>3 DEF Kept
  <1> QED
    BY <1>5, <1>6

\* The commit: what it makes visible is what its transaction wrote, Rightly.
LEMMA CommitKeeps ==
    ASSUME IInv, NEW w \in Thread, Commit(w)
    PROVE  Kept
  <1>1. /\ pc[w] = "commit" /\ Goto(w, "tell") /\ Tell(w, NewsOf(w))
        /\ draft' = [draft EXCEPT ![w] = <<>>]
        /\ db' = [r \in Row |-> IF r \in DOMAIN draft[w] THEN draft[w][r] ELSE db[r]]
    BY DEF Commit
  <1>2. /\ job' = [v \in Thread |-> job'[v]]
        /\ \A v \in Thread \ {w} : job'[v] = job[v]
        /\ "call" \in DOMAIN job'[w] /\ job'[w].call = job[w].call
    BY <1>1, Told
  <1>3. pc' = [pc EXCEPT ![w] = "tell"]
    BY <1>1 DEF Goto
  <1>4. Shapes'
    BY <1>1, <1>2, <1>3 DEF IInv, Shapes
  <1>5. Alone(w)
    BY <1>1, <1>2, <1>3 DEF Alone, IInv, Shapes
  <1>6. pc'[w] = "tell" /\ draft'[w] = <<>>
    BY <1>1, <1>3 DEF IInv, Shapes
  <1>7. CallOK(w)'
    BY <1>1, <1>2, <1>6 DEF CallOK, IInv, Op
  <1>8. \A r \in ContactRow : db'[r] # db[r] => \A v \in Thread \ {w} : r \notin DOMAIN draft[v]
    BY <1>1, RowsApart DEF IInv, Apart
  <1>9. IInv'
    BY <1>4, <1>5, <1>6, <1>7, <1>8, Settled
  <1>10. ASSUME NEW p \in Pair PROVE RowStep(p[1], p[2])
    <2> DEFINE row == Contact(p[1], p[2])
    <2>1. row \in ContactRow /\ row \in Row
      BY RowsApart
    <2>2. CASE row \notin DOMAIN draft[w]
      <3>1. db'[row] = db[row]
        BY <1>1, <2>1, <2>2
      <3> QED
        BY <3>1, ContactsAssumption DEF RowStep, Level
    <2>3. CASE row \in DOMAIN draft[w]
      <3>1. db'[row] = draft[w][row] /\ Rightly(w, row)
        BY <1>1, <2>1, <2>3 DEF IInv, DraftOK
      <3>2. pc'[w] # pc[w] /\ pc[w] # "idle"
        BY <1>1, <1>6
      <3>3. CASE db'[row] = "ally" /\ db[row] = None
        BY <3>3, ContactsAssumption DEF RowStep, Level
      <3>4. CASE /\ db'[row] = "imposter" /\ Op(w) = "setLevel"
                 /\ row = Contact(Me(w), Other(w))
        <4>1. Me(w) = p[1] /\ Other(w) = p[2]
          BY <3>4, RowsApart
        <4>2. Acts(w, p[1], p[2], "setLevel")
          BY <3>2, <3>4, <4>1 DEF Acts
        <4> QED
          BY <3>4, <4>2, ContactsAssumption DEF RowStep, Level
      <3>5. CASE db'[row] = None /\ db[row] \in Tier
        BY <3>5 DEF RowStep, Tier
      <3>6. CASE /\ db'[row] = None /\ Op(w) = "setLevel"
                 /\ row = Contact(Other(w), Me(w))
        <4>1. Me(w) = p[2] /\ Other(w) = p[1]
          BY <3>6, RowsApart
        <4>2. Acts(w, p[2], p[1], "setLevel")
          BY <3>2, <3>6, <4>1 DEF Acts
        <4> QED
          BY <3>6, <4>2 DEF RowStep
      <3> QED
        BY <3>1, <3>3, <3>4, <3>5, <3>6 DEF Rightly
    <2> QED
      BY <2>2, <2>3
  <1> QED
    BY <1>9, <1>10 DEF Kept

LEMMA LevelKeeps ==
    ASSUME IInv, NEW w \in Thread, SetTier(w) \/ Unblock(w) \/ ReadLevel(w)
    PROVE  Kept
  <1>1. CASE SetTier(w)
    BY <1>1, OwnRowKeeps DEF SetTier
  <1>2. CASE Unblock(w)
    BY <1>2, OwnRowKeeps DEF Unblock
  <1>3. CASE ReadLevel(w)
    <2>1. pc[w] = "level" /\ db' = db
      BY <1>3 DEF ReadLevel
    <2>2. CASE Return(w)
      BY <2>1, <2>2, ReturnsQuietly
    <2>3. CASE ~ Return(w)
      <3>1. PICK label \in {"unblock", "rows"} : Goto(w, label)
        BY <1>3, <2>3 DEF ReadLevel
      <3>2. draft' = draft /\ job' = job
        BY <1>3, <2>3 DEF ReadLevel
      <3>3. Op(w) = "remove" /\ draft[w] = <<>>
        BY <2>1 DEF IInv, CallOK
      <3> QED
        BY <2>1, <3>1, <3>2, <3>3, GoesOn, SameLocals
    <2> QED
      BY <2>2, <2>3
  <1> QED
    BY <1>1, <1>2, <1>3

\* Events are read and published after the commit, or without one.
LEMMA TellKeeps ==
    ASSUME IInv, NEW w \in Thread, Look(w) \/ Publish(w)
    PROVE  Kept
  <1>1. pc[w] = "tell" /\ db' = db
    BY DEF Look, Publish
  <1>2. CASE Return(w)
    BY <1>1, <1>2, ReturnsQuietly
  <1>3. CASE ~ Return(w)
    <2>1. pc' = pc /\ draft' = draft
      BY <1>3 DEF Look, Publish
    <2>2. /\ job' = [v \in Thread |-> job'[v]]
          /\ \A v \in Thread \ {w} : job'[v] = job[v]
          /\ "call" \in DOMAIN job'[w] /\ job'[w].call = job[w].call
      <3>1. CASE Publish(w)
        BY <1>3, <3>1, Told DEF Publish
      <3>2. CASE Look(w)
        <4>1. PICK t : job' = [job EXCEPT ![w].tell = t]
          BY <3>2 DEF Look
        <4> QED
          BY <4>1 DEF IInv, Shapes, CallOK
      <3> QED
        BY <3>1, <3>2
    <2>3. Shapes' /\ Alone(w)
      BY <1>1, <2>1, <2>2 DEF IInv, Shapes, Alone
    <2>4. CallOK(w)'
      BY <2>1, <2>2 DEF CallOK, IInv, Op
    <2>5. IInv'
      BY <1>1, <2>1, <2>2, <2>3, <2>4, Settled
    <2> QED
      BY <1>1, <2>5, RowsStay DEF Kept
  <1> QED
    BY <1>2, <1>3

LEMMA FaultsKeep ==
    ASSUME IInv, NEW w \in Thread, BreakDeadlock(w) \/ Fault(w) \/ LoseCommit(w)
    PROVE  Kept
  <1>1. CASE BreakDeadlock(w) \/ Fault(w)
    <2>1. Return(w) /\ db' = db
      BY <1>1 DEF BreakDeadlock, Fault, Abort
    <2> QED
      BY <2>1, ReturnsQuietly
  <1>2. CASE LoseCommit(w)
    <2>1. /\ pc[w] = "commit" /\ pc' = [pc EXCEPT ![w] = "tell"] /\ db' = db
          /\ draft' = [draft EXCEPT ![w] = <<>>] /\ Tell(w, NewsOf(w))
      BY <1>2 DEF LoseCommit, Goto
    <2>2. /\ job' = [v \in Thread |-> job'[v]]
          /\ \A v \in Thread \ {w} : job'[v] = job[v]
          /\ "call" \in DOMAIN job'[w] /\ job'[w].call = job[w].call
      BY <2>1, Told
    <2>3. Shapes' /\ Alone(w)
      BY <2>1, <2>2 DEF IInv, Shapes, Alone
    <2>4. pc'[w] = "tell" /\ draft'[w] = <<>>
      BY <2>1 DEF IInv, Shapes
    <2>5. CallOK(w)'
      BY <2>1, <2>2, <2>4 DEF CallOK, IInv, Op
    <2>6. IInv'
      BY <2>1, <2>3, <2>4, <2>5, Settled
    <2> QED
      BY <2>1, <2>6, RowsStay DEF Kept
  <1> QED
    BY <1>1, <1>2
-----------------------------------------------------------------------------
(* The theorem *)

LEMMA IInvInit == Init => IInv
  <1> SUFFICES ASSUME Init PROVE IInv
    OBVIOUS
  <1>1. Shapes
    BY DEF Init, Shapes
  <1>2. ASSUME NEW w \in Thread
        PROVE  pc[w] = "idle" /\ draft[w] = <<>> /\ "call" \in DOMAIN job[w]
    BY DEF Init, NoJob
  <1> QED
    BY <1>1, <1>2 DEF IInv, Apart, CallOK, DraftOK

\* Every step keeps the invariant and leaves each row to its owner.
LEMMA NextKeeps == IInv /\ [Next]_vars => Kept
  <1> SUFFICES ASSUME IInv, [Next]_vars PROVE Kept
    OBVIOUS
  <1>1. ASSUME NEW w \in Thread, NEW c \in Call, Begin(w, c) PROVE Kept
    BY <1>1, BeginKeeps
  <1>2. ASSUME NEW w \in Thread, Step(w) PROVE Kept
    <2>1. CASE Commit(w)
      BY <2>1, CommitKeeps
    <2> QED
      BY <1>2, <2>1, RequestKeeps, AcceptKeeps, EndingsKeep, RefuseKeeps, LevelKeeps,
         TellKeeps, FaultsKeep DEF Step, AcceptStep, LevelStep, RemoveStep
  <1>3. ASSUME NEW w \in Thread, Fault(w) \/ LoseCommit(w) PROVE Kept
    BY <1>3, FaultsKeep
  <1>4. CASE UNCHANGED <<db, draft, pc, job>>
    <2>1. IInv'
      BY <1>4 DEF IInv, Shapes, Apart, CallOK, DraftOK, Rightly, Op, Me, Other
    <2> QED
      BY <1>4, <2>1, RowsStay DEF Kept
  <1>5. CASE Tick
    BY <1>4, <1>5 DEF Tick
  <1>6. CASE UNCHANGED vars
    BY <1>4, <1>6 DEF vars
  <1> QED
    BY <1>1, <1>2, <1>3, <1>5, <1>6 DEF Next

\* What open transactions have written is what they may write, and no two of
\* them have written to the same row.
THEOREM Invariant == Spec => []IInv
  <1>1. IInv /\ [Next]_vars => IInv'
    BY NextKeeps DEF Kept
  <1> QED
    BY <1>1, IInvInit, PTL DEF Spec

\* A row is changed by its owner only, and a block goes only when its owner lifts
\* it or is blocked in turn, for any users, threads, calls and faults.
THEOREM OwnersOnly == Spec => RowsBelongToOwners
  <1>1. IInv /\ [Next]_vars =>
            [\A p \in Pair :
               LET row == Contact(p[1], p[2])
                   Does(a, op) == \E w \in Thread : /\ pc'[w] # pc[w] /\ pc[w] # "idle" /\ Op(w) = op
                                                    /\ Me(w) = a /\ {Me(w), Other(w)} = {p[1], p[2]}
               IN /\ db[row] # None /\ db'[row] \notin {db[row], None} => Does(p[1], "setLevel")
                  /\ db[row] = "imposter" /\ db'[row] = None => \/ Does(p[1], "remove")
                                                               \/ Does(p[2], "setLevel")]_vars
    BY NextKeeps DEF Kept, RowStep, Acts
  <1>2. IInv /\ [Next]_vars => IInv'
    BY NextKeeps DEF Kept
  <1> QED
    BY <1>1, <1>2, IInvInit, PTL DEF Spec, RowsBelongToOwners
-----------------------------------------------------------------------------
(* Type correctness *)

\* An event for one of two different people.
Piece == {n \in [to: User, about: User, level: Level \cup {None, "asked", "unread"}] :
              n.to # n.about}

Job == [call: Call \cup {None}, now: Nat, tell: Seq(Piece), had: SUBSET Pair]

Label == {"idle", "mine", "both", "pending", "daily", "blocked", "theirs", "ours", "put",
          "take", "allyFrom", "allyTo", "commit", "decline", "withdraw", "imposter", "unrow",
          "requests", "rows", "level", "unblock", "tier", "tell"}

Asking == {"mine", "both", "pending", "daily", "blocked", "theirs", "ours", "put"}

Ending(w) == Op(w) \in {"setLevel", "remove"}

\* The statements an operation has.  (That a block and a removal have others of
\* their own is said by CallOK.)
Placed(w, label) ==
    /\ label \in Asking => Op(w) = "request"
    /\ label \in {"take", "allyFrom", "allyTo"} => Op(w) \in {"accept", "request"}
    /\ label \in {"decline", "withdraw"} => Op(w) = "refuse"
    /\ label = "requests" => Ending(w)
    /\ label = "commit" => Op(w) # "refuse"

\* The locals of a call, and what is there to be told when events are published.
LocalsOK(w) ==
    /\ job[w] \in Job /\ job[w].now =< clock
    /\ pc[w] \in Label
    /\ pc[w] = "idle" => job[w] = NoJob
    /\ pc[w] = "tell" => job[w].tell # <<>>
    /\ pc[w] = "tier" => job[w].call.level \in Tier
    /\ Placed(w, pc[w])

Locals == clock \in Nat /\ \A w \in Thread : LocalsOK(w)

\* What a step of a call that goes on does to its thread.
Turns(w) ==
    \/ Return(w)
    \/ /\ pc'[w] \in Label \ {"idle", "tell", "tier"} /\ Placed(w, pc'[w])
       /\ job'[w] = job[w]
    \/ /\ pc'[w] = "tell"
       /\ \E t \in Seq(Piece) : t # <<>> /\ job'[w] = [job[w] EXCEPT !.tell = t]
    \/ /\ pc'[w] = "commit" /\ pc[w] = "requests"
       /\ \E had \in SUBSET Pair : job'[w] = [job[w] EXCEPT !.had = had]

LEMMA PieceTyped ==
    ASSUME NEW a, NEW b, <<a, b>> \in Pair, NEW l \in Level \cup {None, "asked", "unread"}
    PROVE  News(a, b, l) \in Piece
  BY DEF News, Piece, Pair

LEMMA ReturnAlone ==
    ASSUME IInv, NEW w \in Thread, Return(w)
    PROVE  Alone(w) /\ pc'[w] = "idle" /\ job'[w] = NoJob /\ draft'[w] = <<>>
  BY DEF Return, Goto, Alone, IInv, Shapes

LEMMA GotoAlone ==
    ASSUME IInv, NEW w \in Thread, NEW label, Goto(w, label)
    PROVE  pc'[w] = label /\ \A v \in Thread \ {w} : pc'[v] = pc[v]
  BY DEF Goto, IInv, Shapes

LEMMA StageAlone ==
    ASSUME IInv, NEW w \in Thread, NEW rows, NEW value, Stage(w, rows, value)
    PROVE  /\ \A v \in Thread \ {w} : draft'[v] = draft[v]
           /\ draft'[w] = [r \in DOMAIN draft[w] \cup rows |->
                               IF r \in rows THEN value ELSE draft[w][r]]
  BY DEF Stage, IInv, Shapes

LEMMA TellAlone ==
    ASSUME IInv, NEW w \in Thread, NEW news, Tell(w, news)
    PROVE  /\ \A v \in Thread \ {w} : job'[v] = job[v]
           /\ job'[w] = [job[w] EXCEPT !.tell = news]
  BY DEF Tell, IInv, Shapes

\* The events of the three transactions are events of the call's pair.
LEMMA NewsTyped ==
    ASSUME NEW w \in Thread, job[w].call \in Call, Op(w) \in {"accept", "request", "setLevel", "remove"}
    PROVE  NewsOf(w) \in Seq(Piece) /\ NewsOf(w) # <<>>
  <1>1. <<Me(w), Other(w)>> \in Pair /\ <<Other(w), Me(w)>> \in Pair
    BY CallTyped DEF Me, Other
  <1>2. \A l \in Level \cup {None, "asked", "unread"} :
            News(Me(w), Other(w), l) \in Piece /\ News(Other(w), Me(w), l) \in Piece
    BY <1>1, PieceTyped
  <1>3. "unread" \in Level \cup {None, "asked", "unread"} /\ "imposter" \in Level \cup {None, "asked", "unread"}
        /\ None \in Level \cup {None, "asked", "unread"}
    BY DEF Level
  <1> HIDE DEF Piece
  <1>4. CASE Op(w) \in {"accept", "request"}
    <2>1. NewsOf(w) = <<News(Me(w), Other(w), "unread"), News(Other(w), Me(w), "unread")>>
      BY <1>4 DEF NewsOf
    <2> QED
      BY <1>2, <1>3, <2>1
  <1>5. CASE Op(w) = "setLevel"
    <2>1. NewsOf(w) = <<News(Me(w), Other(w), "imposter"), News(Other(w), Me(w), None)>>
      BY <1>5 DEF NewsOf
    <2> QED
      BY <1>2, <1>3, <2>1
  <1>6. CASE Op(w) = "remove"
    <2>1. NewsOf(w) = <<News(Me(w), Other(w), None), News(Other(w), Me(w), None)>>
      BY <1>6 DEF NewsOf
    <2> QED
      BY <1>2, <1>3, <2>1
  <1> QED
    BY <1>4, <1>5, <1>6

\* A single event.
LEMMA OneNews ==
    ASSUME NEW a, NEW b, <<a, b>> \in Pair, NEW l \in Level \cup {None, "asked", "unread"}
    PROVE  <<News(a, b, l)>> \in Seq(Piece) /\ <<News(a, b, l)>> # <<>>
  <1>1. News(a, b, l) \in Piece
    BY PieceTyped
  <1> QED
    BY <1>1

\* Which operation is at commit, and what setLevel was asked for.
LEMMA OpTyped ==
    ASSUME NEW w \in Thread, job[w].call \in Call
    PROVE  /\ Op(w) \in {"request", "accept", "refuse", "setLevel", "remove"}
           /\ job[w].call.level \in Level
           /\ <<Me(w), Other(w)>> \in Pair /\ <<Other(w), Me(w)>> \in Pair
  BY CallTyped, ContactsAssumption DEF Op, Me, Other, CallType

\* A statement of a transaction that goes on.
LEMMA WriteTurns ==
    ASSUME IInv, NEW w \in Thread, NEW label \in Label \ {"idle", "tell", "tier"},
           NEW rows, NEW value, Stage(w, rows, value), Goto(w, label), job' = job,
           Placed(w, label)
    PROVE  Alone(w) /\ Turns(w)
  <1>1. \A v \in Thread \ {w} : draft'[v] = draft[v]
    BY StageAlone
  <1>2. pc'[w] = label /\ \A v \in Thread \ {w} : pc'[v] = pc[v]
    BY GotoAlone
  <1> QED
    BY <1>1, <1>2 DEF Turns, Alone

LEMMA RequestTurns ==
    ASSUME IInv, NEW w \in Thread, RequestStep(w), Placed(w, pc[w])
    PROVE  Alone(w) /\ Turns(w)
  <1>1. ASSUME NEW label, NEW answered, NEW next, Check(w, label, answered, next),
               next \in Label \ {"idle", "tell", "tier"}, Placed(w, next)
        PROVE  Alone(w) /\ Turns(w)
    <2>1. CASE Return(w)
      BY <2>1, ReturnAlone DEF Turns
    <2>2. CASE Goto(w, next) /\ UNCHANGED <<job, draft>>
      BY <1>1, <2>2, GotoAlone DEF Turns, Alone
    <2> QED
      BY <1>1, <2>1, <2>2 DEF Check
  <1>2. ASSUME CheckMine(w) \/ CheckBoth(w) \/ CheckPending(w) \/ CheckDaily(w)
               \/ CheckBlocked(w) \/ ReadOurs(w)
        PROVE  Alone(w) /\ Turns(w)
    BY <1>1, <1>2
       DEF CheckMine, CheckBoth, CheckPending, CheckDaily, CheckBlocked, ReadOurs, Check,
           Label, Placed, Asking
  <1>3. CASE ReadTheirs(w)
    <2>1. PICK label \in {"take", "ours"} : Goto(w, label)
      BY <1>3 DEF ReadTheirs
    <2> QED
      BY <1>3, <2>1, GotoAlone DEF ReadTheirs, Turns, Alone, Label, Placed, Asking
  <1>4. CASE Put(w)
    <2>1. job[w].call \in Call
      BY <1>4 DEF Put, IInv, CallOK
    <2> DEFINE t == <<News(Other(w), Me(w), "asked")>>
    <2>2. t \in Seq(Piece) /\ t # <<>>
      BY <2>1, OpTyped, OneNews
    <2>3. Goto(w, "tell") /\ Tell(w, t) /\ draft' = draft
      BY <1>4 DEF Put
    <2> HIDE DEF t
    <2> QED
      BY <2>2, <2>3, GotoAlone, TellAlone DEF Turns, Alone
  <1> QED
    BY <1>2, <1>3, <1>4 DEF RequestStep

LEMMA AcceptTurns ==
    ASSUME IInv, NEW w \in Thread, AcceptStep(w), Placed(w, pc[w])
    PROVE  Alone(w) /\ Turns(w)
  <1>1. CASE Take(w)
    <2>1. CASE Return(w)
      BY <2>1, ReturnAlone DEF Turns
    <2>2. CASE Stage(w, Targets(w), None) /\ Goto(w, "allyFrom") /\ UNCHANGED job
      BY <1>1, <2>2, WriteTurns DEF Take, Label, Placed, Asking
    <2>3. CASE Op(w) = "request" /\ Goto(w, "ours") /\ UNCHANGED <<draft, job>>
      BY <2>3, GotoAlone DEF Turns, Alone, Label, Placed
    <2> QED
      BY <1>1, <2>1, <2>2, <2>3 DEF Take
  <1>2. CASE WriteAllies(w)
    <2>1. /\ Stage(w, {r \in Targets(w) : db[r] = None}, "ally") /\ job' = job
          /\ Goto(w, IF pc[w] = "allyFrom" THEN "allyTo" ELSE "commit")
      BY <1>2 DEF WriteAllies, InsertAlly
    <2> QED
      BY <1>2, <2>1, WriteTurns DEF WriteAllies, Label, Placed, Asking
  <1>3. CASE Commit(w)
    <2>1. job[w].call \in Call /\ pc[w] = "commit"
      BY <1>3 DEF Commit, IInv, CallOK
    <2>2. NewsOf(w) \in Seq(Piece) /\ NewsOf(w) # <<>>
      BY <2>1, OpTyped, NewsTyped DEF Placed
    <2>3. Goto(w, "tell") /\ Tell(w, NewsOf(w)) /\ draft' = [draft EXCEPT ![w] = <<>>]
      BY <1>3 DEF Commit
    <2>4. \A v \in Thread \ {w} : draft'[v] = draft[v]
      BY <2>3 DEF IInv, Shapes
    <2> QED
      BY <2>2, <2>3, <2>4, GotoAlone, TellAlone DEF Turns, Alone
  <1> QED
    BY <1>1, <1>2, <1>3 DEF AcceptStep

LEMMA RefuseTurns ==
    ASSUME IInv, NEW w \in Thread, RefuseStep(w), Placed(w, pc[w])
    PROVE  Alone(w) /\ Turns(w)
  <1>1. CASE Decline(w)
    BY <1>1, GotoAlone DEF Decline, Turns, Alone, Label, Placed, Asking
  <1>2. CASE Withdraw(w)
    BY <1>2, ReturnAlone DEF Withdraw, Turns
  <1> QED
    BY <1>1, <1>2 DEF RefuseStep

LEMMA LevelTurns ==
    ASSUME IInv, NEW w \in Thread, LevelStep(w),
           consent \subseteq Pair, pc[w] = "tier" => job[w].call.level \in Tier
    PROVE  Alone(w) /\ Turns(w)
  <1>1. CASE WriteImposter(w)
    BY <1>1, WriteTurns DEF WriteImposter, IInv, CallOK, Label, Placed, Asking
  <1>2. CASE DeleteOtherRow(w)
    BY <1>2, WriteTurns DEF DeleteOtherRow, IInv, CallOK, Label, Placed, Asking, Ending
  <1>3. CASE DeleteRequests(w)
    <2> DEFINE had == consent \cap {<<Me(w), Other(w)>>, <<Other(w), Me(w)>>}
    <2>1. had \in SUBSET Pair
      OBVIOUS
    <2>2. job' = [job EXCEPT ![w].had = had] /\ pc[w] = "requests"
      BY <1>3 DEF DeleteRequests, EndConsent
    <2> HIDE DEF had
    <2>3. job'[w] = [job[w] EXCEPT !.had = had] /\ \A v \in Thread \ {w} : job'[v] = job[v]
      BY <2>2 DEF IInv, Shapes
    <2>4. Goto(w, "commit") /\ Stage(w, Targets(w), None)
      BY <1>3 DEF DeleteRequests
    <2> QED
      BY <2>1, <2>2, <2>3, <2>4, StageAlone, GotoAlone DEF Turns, Alone
  <1>4. CASE SetTier(w)
    <2>1. CASE Return(w)
      BY <2>1, ReturnAlone DEF Turns
    <2>2. CASE ~ Return(w)
      <3> DEFINE t == <<News(Me(w), Other(w), job[w].call.level)>>
      <3>1. pc[w] = "tier" /\ job[w].call \in Call
        BY <1>4 DEF SetTier, IInv, CallOK
      <3>2. t \in Seq(Piece) /\ t # <<>>
        BY <3>1, OpTyped, OneNews
      <3>3. Goto(w, "tell") /\ Tell(w, t) /\ draft' = draft
        BY <1>4, <2>2 DEF SetTier
      <3> HIDE DEF t
      <3> QED
        BY <3>2, <3>3, GotoAlone, TellAlone DEF Turns, Alone
    <2> QED
      BY <2>1, <2>2
  <1> QED
    BY <1>1, <1>2, <1>3, <1>4 DEF LevelStep

LEMMA RemoveTurns ==
    ASSUME IInv, NEW w \in Thread, RemoveStep(w)
    PROVE  Alone(w) /\ Turns(w)
  <1>1. CASE Return(w)
    BY <1>1, ReturnAlone DEF Turns
  <1>2. CASE ReadLevel(w) /\ ~ Return(w)
    <2>1. PICK label \in {"unblock", "rows"} : Goto(w, label)
      BY <1>2 DEF ReadLevel
    <2> QED
      BY <1>2, <2>1, GotoAlone DEF ReadLevel, Turns, Alone, Label, Placed, Asking
  <1>3. CASE DeleteConnected(w) /\ ~ Return(w)
    BY <1>3, WriteTurns DEF DeleteConnected, IInv, CallOK, Label, Placed, Asking, Ending
  <1>4. CASE Unblock(w) /\ ~ Return(w)
    <2> DEFINE t == <<News(Me(w), Other(w), None)>>
    <2>1. job[w].call \in Call
      BY <1>4 DEF Unblock, IInv, CallOK
    <2>2. t \in Seq(Piece) /\ t # <<>>
      BY <2>1, OpTyped, OneNews
    <2>3. Goto(w, "tell") /\ Tell(w, t) /\ draft' = draft
      BY <1>4 DEF Unblock
    <2> HIDE DEF t
    <2> QED
      BY <2>2, <2>3, GotoAlone, TellAlone DEF Turns, Alone
  <1> QED
    BY <1>1, <1>2, <1>3, <1>4 DEF RemoveStep

LEMMA FirstOf ==
    ASSUME NEW S, NEW s \in Seq(S), s # <<>>
    PROVE  /\ 1 \in DOMAIN s /\ s[1] \in S
           /\ Tail(s) \in Seq(S) /\ (Len(s) # 1 => Tail(s) # <<>>)
  <1>1. Len(s) \in Nat /\ Len(s) # 0 /\ DOMAIN s = 1..Len(s) /\ s \in [1..Len(s) -> S]
    BY LenProperties
  <1>2. 1 \in DOMAIN s /\ s[1] \in S
    BY <1>1
  <1>3. Tail(s) \in Seq(S) /\ Len(Tail(s)) = Len(s) - 1
    BY HeadTailProperties
  <1>4. Len(s) # 1 => Tail(s) # <<>>
    <2>1. Tail(s) = <<>> => Len(Tail(s)) = 0
      BY EmptySeq
    <2> QED
      BY <1>1, <1>3, <2>1
  <1> QED
    BY <1>2, <1>3, <1>4

LEMMA FirstReplaced ==
    ASSUME NEW S, NEW s \in Seq(S), s # <<>>, NEW x \in S
    PROVE  [s EXCEPT ![1] = x] \in Seq(S) /\ [s EXCEPT ![1] = x] # <<>>
  <1> DEFINE e == [s EXCEPT ![1] = x]
  <1>1. Len(s) \in Nat /\ Len(s) # 0
    OBVIOUS
  <1>2. e \in Seq(S) /\ Len(e) = Len(s)
    BY <1>1, ExceptSeq
  <1> QED
    BY <1>1, <1>2

\* Reading a level to be told, and telling it.
LEMMA TellTurns ==
    ASSUME IInv, AreTables(db), NEW w \in Thread, LocalsOK(w), Look(w) \/ Publish(w)
    PROVE  /\ Alone(w)
           /\ \/ Turns(w)
              \/ /\ pc'[w] = "tell"
                 /\ \E t \in Seq(Piece) : t # <<>> /\ job'[w] = [job[w] EXCEPT !.tell = t]
  <1> DEFINE tell == job[w].tell
  <1>1. tell \in Seq(Piece) /\ tell # <<>> /\ pc[w] = "tell" /\ "tell" \in DOMAIN job[w]
    BY DEF LocalsOK, Job, Look, Publish
  <1>2. CASE Look(w)
    <2> DEFINE at == Contact(tell[1].to, tell[1].about)
               piece == [tell[1] EXCEPT !.level = db[at]]
               t == [tell EXCEPT ![1] = piece]
    <2>1. job' = [job EXCEPT ![w].tell[1].level = db[at]] /\ pc' = pc /\ draft' = draft
      BY <1>2 DEF Look
    <2>2. 1 \in DOMAIN tell /\ tell[1] \in Piece
      <3> HIDE DEF tell
      <3> QED
        BY <1>1, FirstOf
    <2>3. at \in ContactRow
      <3>1. <<tell[1].to, tell[1].about>> \in Pair
        BY <2>2 DEF Piece, Pair
      <3> QED
        BY <3>1, RowsApart
    <2>4. db[at] \in Level \cup {None}
      BY <2>3 DEF AreTables
    <2> HIDE DEF at
    <2>5. piece \in Piece
      BY <2>2, <2>4 DEF Piece
    <2>6. job'[w] = [job[w] EXCEPT !.tell = t] /\ \A v \in Thread \ {w} : job'[v] = job[v]
      BY <1>1, <2>1, <2>2 DEF IInv, Shapes
    <2> HIDE DEF piece
    <2>7. t \in Seq(Piece) /\ t # <<>>
      BY <1>1, <2>5, FirstReplaced
    <2> HIDE DEF t
    <2> QED
      BY <1>1, <2>1, <2>6, <2>7 DEF Alone
  <1>3. CASE Publish(w)
    <2>1. CASE Return(w)
      BY <2>1, ReturnAlone DEF Turns
    <2>2. CASE ~ Return(w)
      <3>1. Tell(w, Tail(tell)) /\ pc' = pc /\ draft' = draft /\ Len(tell) # 1
        BY <1>3, <2>2 DEF Publish
      <3>2. Tail(tell) \in Seq(Piece) /\ Tail(tell) # <<>>
        BY <1>1, <3>1, FirstOf
      <3>3. job'[w] = [job[w] EXCEPT !.tell = Tail(tell)] /\ \A v \in Thread \ {w} : job'[v] = job[v]
        BY <3>1, TellAlone
      <3> QED
        BY <1>1, <3>1, <3>2, <3>3 DEF Alone
    <2> QED
      BY <2>1, <2>2
  <1> QED
    BY <1>2, <1>3

LEMMA FaultTurns ==
    ASSUME IInv, NEW w \in Thread, LocalsOK(w), BreakDeadlock(w) \/ Fault(w) \/ LoseCommit(w)
    PROVE  Alone(w) /\ Turns(w)
  <1>1. CASE Return(w)
    BY <1>1, ReturnAlone DEF Turns
  <1>2. CASE LoseCommit(w)
    <2>1. job[w].call \in Call /\ Op(w) # "refuse"
      BY <1>2 DEF LoseCommit, IInv, CallOK, LocalsOK, Placed
    <2>2. NewsOf(w) \in Seq(Piece) /\ NewsOf(w) # <<>>
      BY <2>1, OpTyped, NewsTyped
    <2>3. Goto(w, "tell") /\ Tell(w, NewsOf(w)) /\ draft' = [draft EXCEPT ![w] = <<>>]
      BY <1>2 DEF LoseCommit
    <2>4. \A v \in Thread \ {w} : draft'[v] = draft[v]
      BY <2>3 DEF IInv, Shapes
    <2> QED
      BY <2>2, <2>3, <2>4, GotoAlone, TellAlone DEF Turns, Alone
  <1> QED
    BY <1>1, <1>2 DEF BreakDeadlock, Fault, Abort

\* Every step of a thread is one of these.
LEMMA StepTurns ==
    ASSUME IInv, Locals, AreTables(db), consent \subseteq Pair, NEW w \in Thread,
           Step(w) \/ Fault(w) \/ LoseCommit(w)
    PROVE  /\ Alone(w) /\ clock' = clock
           /\ \/ Turns(w)
              \/ /\ pc'[w] = "tell"
                 /\ \E t \in Seq(Piece) : t # <<>> /\ job'[w] = [job[w] EXCEPT !.tell = t]
  <1>1. LocalsOK(w) /\ Placed(w, pc[w]) /\ (pc[w] = "tier" => job[w].call.level \in Tier)
    BY DEF Locals, LocalsOK
  <1>2. clock' = clock
    BY DEF Step, RequestStep, CheckMine, CheckBoth, CheckPending, CheckDaily, CheckBlocked,
           ReadOurs, Check, ReadTheirs, Put, AcceptStep, Take, WriteAllies, Commit, RefuseStep,
           Decline, Withdraw, LevelStep, WriteImposter, DeleteOtherRow, DeleteRequests, SetTier,
           RemoveStep, ReadLevel, Unblock, DeleteConnected, Look, Publish, BreakDeadlock,
           Fault, LoseCommit, Abort
  <1> QED
    BY <1>1, <1>2, RequestTurns, AcceptTurns, RefuseTurns, LevelTurns, RemoveTurns, TellTurns,
       FaultTurns DEF Step

LEMMA StepLocals ==
    ASSUME IInv, Locals, AreTables(db), consent \subseteq Pair, NEW w \in Thread,
           Step(w) \/ Fault(w) \/ LoseCommit(w)
    PROVE  Locals'
  <1>1. Alone(w) /\ clock' = clock
    BY StepTurns
  <1>2. job[w] \in Job /\ job[w].now =< clock /\ Placed(w, pc[w]) /\ clock \in Nat
    BY DEF Locals, LocalsOK
  <1>3. ASSUME NEW v \in Thread, v # w PROVE LocalsOK(v)'
    BY <1>1, <1>3 DEF Alone, Locals, LocalsOK, Placed, Ending, Op
  <1>4. CASE Return(w)
    <2>1. pc'[w] = "idle" /\ job'[w] = NoJob
      BY <1>4, ReturnAlone
    <2>2. NoJob \in Job /\ NoJob.now =< clock
      BY <1>2 DEF NoJob, Job
    <2>3. LocalsOK(w)'
      BY <1>1, <2>1, <2>2 DEF LocalsOK, Placed, Asking, Label
    <2> QED
      BY <1>1, <1>2, <1>3, <2>3 DEF Locals
  <1>5. CASE pc'[w] \in Label \ {"idle", "tell", "tier"} /\ Placed(w, pc'[w]) /\ job'[w] = job[w]
    <2>1. LocalsOK(w)'
      BY <1>1, <1>2, <1>5 DEF LocalsOK, Placed, Ending, Op
    <2> QED
      BY <1>1, <1>2, <1>3, <2>1 DEF Locals
  <1>6. ASSUME NEW t \in Seq(Piece), t # <<>>, pc'[w] = "tell", job'[w] = [job[w] EXCEPT !.tell = t]
        PROVE  Locals'
    <2>1. job'[w] \in Job /\ job'[w].now = job[w].now /\ job'[w].tell = t
      BY <1>2, <1>6 DEF Job
    <2>2. LocalsOK(w)'
      BY <1>1, <1>2, <1>6, <2>1 DEF LocalsOK, Placed, Asking, Label
    <2> QED
      BY <1>1, <1>2, <1>3, <2>2 DEF Locals
  <1>7. ASSUME NEW had \in SUBSET Pair, pc'[w] = "commit", pc[w] = "requests",
               job'[w] = [job[w] EXCEPT !.had = had]
        PROVE  Locals'
    <2>1. job'[w] \in Job /\ job'[w].now = job[w].now /\ job'[w].call = job[w].call
      BY <1>2, <1>7 DEF Job
    <2>2. LocalsOK(w)'
      BY <1>1, <1>2, <1>7, <2>1 DEF LocalsOK, Placed, Asking, Label, Ending, Op
    <2> QED
      BY <1>1, <1>2, <1>3, <2>2 DEF Locals
  <1> QED
    BY <1>4, <1>5, <1>6, <1>7, StepTurns DEF Turns

LEMMA BeginAlone ==
    ASSUME IInv, NEW w \in Thread, NEW c \in Call, Begin(w, c)
    PROVE  /\ Alone(w) /\ clock' = clock /\ db' = db /\ draft' = draft /\ consent' = consent
           /\ pc[w] = "idle" /\ pc'[w] = First(c)
           /\ job'[w] = [call |-> c, now |-> clock, tell |-> <<>>, had |-> {}]
  BY DEF Begin, Goto, NoJob, Alone, IInv, Shapes

LEMMA BeginLocals ==
    ASSUME IInv, Locals, NEW w \in Thread, NEW c \in Call, Begin(w, c)
    PROVE  Locals'
  <1>1. /\ Alone(w) /\ clock' = clock /\ pc'[w] = First(c)
        /\ job'[w] = [call |-> c, now |-> clock, tell |-> <<>>, had |-> {}]
    BY BeginAlone
  <1>2. clock \in Nat
    BY DEF Locals
  <1>3. ASSUME NEW v \in Thread, v # w PROVE LocalsOK(v)'
    BY <1>1, <1>3 DEF Alone, Locals, LocalsOK, Placed, Ending, Op
  <1>4. c.op \in {"request", "accept", "refuse", "setLevel", "remove"} /\ c.level \in Level
    BY ContactsAssumption DEF CallType
  <1>5. job'[w] \in Job /\ job'[w].call = c /\ job'[w].now = clock
    BY <1>1, <1>2 DEF Job
  <1>6. First(c) \in Label \ {"idle", "tell"} /\ (First(c) = "tier" => c.level \in Tier)
    BY <1>4 DEF First, Label, Level, Tier
  <1>7. Placed(w, pc[w])'
    BY <1>1, <1>4, <1>5 DEF First, Placed, Asking, Op
  <1>8. LocalsOK(w)'
    BY <1>1, <1>2, <1>5, <1>6, <1>7 DEF LocalsOK
  <1> QED
    BY <1>1, <1>2, <1>3, <1>8 DEF Locals
-----------------------------------------------------------------------------
(* What open transactions hold *)

Open == {"allyFrom", "allyTo", "unrow", "requests", "commit"}

Accepting(w) == pc[w] \in {"allyFrom", "allyTo"} \/ (pc[w] = "commit" /\ ~ Ending(w))

\* A transaction writes rows of its call's pair: it deletes requests; to contacts an
\* acceptance writes ally, a block imposter and nothing, a removal nothing, and
\* what makes a block or a removal one is there from its first statement on.
OpenOK(w) ==
    pc[w] \in Open =>
        /\ DOMAIN draft[w] \subseteq Requests(w) \cup Contacts(w)
        /\ \A r \in DOMAIN draft[w] : /\ draft[w][r] \in Level \cup {None}
                                      /\ r \in RequestRow => draft[w][r] = None
        /\ Accepting(w) => \A r \in DOMAIN draft[w] : r \in ContactRow => draft[w][r] = "ally"
        /\ Op(w) = "setLevel" /\ pc[w] \in {"unrow", "requests", "commit"} =>
               /\ Contact(Me(w), Other(w)) \in DOMAIN draft[w]
               /\ draft[w][Contact(Me(w), Other(w))] = "imposter"
        /\ Op(w) = "remove" /\ pc[w] \in {"requests", "commit"} =>
               \E r \in DOMAIN draft[w] \cap Contacts(w) : draft[w][r] = None

\* The rows a statement of a transaction writes to, in the transaction so far.
LEMMA StageOpen ==
    ASSUME IInv, NEW w \in Thread, NEW label, Goto(w, label), NEW rows, NEW value,
           Stage(w, rows, value), job'[w].call = job[w].call
    PROVE  /\ pc'[w] = label
           /\ DOMAIN draft'[w] = DOMAIN draft[w] \cup rows
           /\ \A r \in rows : draft'[w][r] = value
           /\ \A r \in DOMAIN draft[w] \ rows : draft'[w][r] = draft[w][r]
           /\ Op(w)' = Op(w) /\ Me(w)' = Me(w) /\ Other(w)' = Other(w)
           /\ Requests(w)' = Requests(w) /\ Contacts(w)' = Contacts(w)
  <1>1. pc'[w] = label
    BY GotoAlone
  <1>2. draft'[w] = [r \in DOMAIN draft[w] \cup rows |-> IF r \in rows THEN value ELSE draft[w][r]]
    BY StageAlone
  <1>3. Op(w)' = Op(w) /\ Me(w)' = Me(w) /\ Other(w)' = Other(w)
    BY DEF Op, Me, Other
  <1>4. Requests(w)' = Requests(w) /\ Contacts(w)' = Contacts(w)
    BY <1>3 DEF Requests, Contacts
  <1> QED
    BY <1>1, <1>2, <1>3, <1>4

LEMMA TakeOpen ==
    ASSUME IInv, NEW w \in Thread, LocalsOK(w), Take(w), pc'[w] \in Open
    PROVE  OpenOK(w)' /\ Stage(w, Targets(w), None) /\ Targets(w) = {Asked(Other(w), Me(w))}
           /\ job' = job /\ pc'[w] = "allyFrom" /\ db[Asked(Other(w), Me(w))] # None
  <1>1. pc[w] = "take" /\ draft[w] = <<>> /\ job[w].call \in Call
    BY DEF Take, IInv, CallOK
  <1>2. Targets(w) = {r \in {Asked(Other(w), Me(w))} : Live(db[r], job[w].now)}
    BY <1>1 DEF Targets
  <1>3. ~ Return(w) /\ ~ Goto(w, "ours")
    BY ReturnAlone, GotoAlone DEF Open
  <1>4. Targets(w) # {} /\ Stage(w, Targets(w), None) /\ Goto(w, "allyFrom") /\ job' = job
    BY <1>3 DEF Take
  <1>5. Targets(w) = {Asked(Other(w), Me(w))} /\ db[Asked(Other(w), Me(w))] # None
    BY <1>2, <1>4 DEF Live
  <1>6. Op(w) \in {"accept", "request"}
    BY <1>1 DEF LocalsOK, Placed
  <1>7. /\ pc'[w] = "allyFrom"
        /\ DOMAIN draft'[w] = DOMAIN draft[w] \cup Targets(w)
        /\ \A r \in Targets(w) : draft'[w][r] = None
        /\ Op(w)' = Op(w) /\ Requests(w)' = Requests(w)
    BY <1>4, StageOpen
  <1>8. DOMAIN draft'[w] = {Asked(Other(w), Me(w))}
    BY <1>1, <1>5, <1>7
  <1>9. Asked(Other(w), Me(w)) \notin ContactRow /\ Asked(Other(w), Me(w)) \in Requests(w)
    BY RowsApart DEF Requests
  <1>10. OpenOK(w)'
    BY <1>5, <1>6, <1>7, <1>8, <1>9 DEF OpenOK
  <1> QED
    BY <1>4, <1>5, <1>7, <1>10

LEMMA AlliesOpen ==
    ASSUME IInv, NEW w \in Thread, LocalsOK(w), OpenOK(w), WriteAllies(w)
    PROVE  OpenOK(w)' /\ Accepting(w) /\ DOMAIN draft[w] \subseteq DOMAIN draft'[w]
  <1> DEFINE rows == {r \in Targets(w) : db[r] = None}
  <1>1. PICK label \in {"allyTo", "commit"} : Goto(w, label)
    BY DEF WriteAllies, InsertAlly
  <1>2. /\ Stage(w, rows, "ally") /\ job' = job /\ pc[w] \in {"allyFrom", "allyTo"}
        /\ job[w].call \in Call
    BY DEF WriteAllies, InsertAlly, IInv, CallOK
  <1>3. rows \subseteq Contacts(w) /\ Contacts(w) \subseteq ContactRow
    <2>1. CASE pc[w] = "allyFrom" BY <1>2, <2>1, OwnRows DEF Targets, Contacts
    <2>2. CASE pc[w] = "allyTo" BY <1>2, <2>2, OwnRows DEF Targets, Contacts
    <2> QED
      BY <1>2, <2>1, <2>2
  <1>4. Op(w) \in {"accept", "request"}
    BY <1>2 DEF LocalsOK, Placed
  <1> HIDE DEF rows
  <1>5. /\ pc'[w] = label
        /\ DOMAIN draft'[w] = DOMAIN draft[w] \cup rows
        /\ \A r \in rows : draft'[w][r] = "ally"
        /\ \A r \in DOMAIN draft[w] \ rows : draft'[w][r] = draft[w][r]
        /\ Op(w)' = Op(w) /\ Requests(w)' = Requests(w) /\ Contacts(w)' = Contacts(w)
    BY <1>1, <1>2, StageOpen
  <1>6. /\ DOMAIN draft[w] \subseteq Requests(w) \cup Contacts(w)
        /\ \A r \in DOMAIN draft[w] : /\ draft[w][r] \in Level \cup {None}
                                      /\ r \in RequestRow => draft[w][r] = None
                                      /\ r \in ContactRow => draft[w][r] = "ally"
    BY <1>2 DEF OpenOK, Open, Accepting
  <1>7. \A r \in ContactRow : r \notin RequestRow
    BY DEF ContactRow, RequestRow, Contact, Asked
  <1>8. "ally" \in Level
    BY DEF Level
  <1>9. OpenOK(w)'
    BY <1>3, <1>4, <1>5, <1>6, <1>7, <1>8 DEF OpenOK
  <1> QED
    BY <1>2, <1>5, <1>9 DEF Accepting

\* A block and a removal, whose transactions write to the rows of their pair.
LEMMA EndingOpen ==
    ASSUME IInv, NEW w \in Thread, NEW label, Goto(w, label), NEW value,
           Stage(w, Targets(w), value), job'[w].call = job[w].call, job[w].call \in Call,
           Ending(w), pc[w] \in Open => OpenOK(w) /\ value = None,
           \/ pc[w] = "imposter" /\ value = "imposter" /\ label = "unrow" /\ Op(w) = "setLevel"
           \/ pc[w] = "unrow" /\ value = None /\ label = "requests" /\ Op(w) = "setLevel"
           \/ pc[w] = "rows" /\ value = None /\ label = "requests" /\ Op(w) = "remove"
              /\ Targets(w) # {}
           \/ pc[w] = "requests" /\ value = None /\ label = "commit"
    PROVE  OpenOK(w)' /\ ~ Accepting(w)'
  <1>1. /\ pc'[w] = label
        /\ DOMAIN draft'[w] = DOMAIN draft[w] \cup Targets(w)
        /\ \A r \in Targets(w) : draft'[w][r] = value
        /\ \A r \in DOMAIN draft[w] \ Targets(w) : draft'[w][r] = draft[w][r]
        /\ Op(w)' = Op(w) /\ Me(w)' = Me(w) /\ Other(w)' = Other(w)
        /\ Requests(w)' = Requests(w) /\ Contacts(w)' = Contacts(w)
    BY StageOpen
  <1>2. ~ Accepting(w)'
    <2>1. label \in {"unrow", "requests", "commit"}
      OBVIOUS
    <2>2. Ending(w)'
      BY <1>1 DEF Ending
    <2> QED
      BY <1>1, <2>1, <2>2 DEF Accepting
  <1>3. Contacts(w) \subseteq ContactRow /\ \A r \in ContactRow : r \notin RequestRow
    <2>1. Contacts(w) \subseteq ContactRow
      BY OwnRows DEF Contacts
    <2>2. \A r \in ContactRow : r \notin RequestRow
      BY DEF ContactRow, RequestRow, Contact, Asked
    <2> QED
      BY <2>1, <2>2
  <1>4. Contact(Me(w), Other(w)) # Contact(Other(w), Me(w))
    <2>1. Me(w) # Other(w)
      BY OpTyped DEF Pair
    <2> QED
      BY <2>1, RowsApart
  <1>5. Contact(Me(w), Other(w)) \in Contacts(w) /\ Contact(Other(w), Me(w)) \in Contacts(w)
    BY DEF Contacts
  <1>6. CASE pc[w] = "imposter" /\ value = "imposter" /\ label = "unrow" /\ Op(w) = "setLevel"
    <2>1. Targets(w) = {Contact(Me(w), Other(w))} /\ draft[w] = <<>>
      BY <1>6, TargetsOf DEF IInv, CallOK
    <2>2. DOMAIN draft'[w] = {Contact(Me(w), Other(w))}
          /\ draft'[w][Contact(Me(w), Other(w))] = "imposter"
      BY <1>1, <1>6, <2>1
    <2> QED
      BY <1>1, <1>2, <1>3, <1>5, <1>6, <2>2 DEF OpenOK, Level
  <1>7. CASE pc[w] = "rows" /\ value = None /\ label = "requests" /\ Op(w) = "remove"
             /\ Targets(w) # {}
    <2>1. Targets(w) \subseteq Contacts(w) /\ draft[w] = <<>>
      BY <1>7 DEF IInv, CallOK, Targets
    <2>2. DOMAIN draft'[w] = Targets(w) /\ \A r \in Targets(w) : draft'[w][r] = None
      BY <1>1, <1>7, <2>1
    <2> QED
      BY <1>1, <1>2, <1>3, <1>7, <2>1, <2>2 DEF OpenOK
  <1>8. CASE pc[w] \in {"unrow", "requests"} /\ value = None
    <2>1. /\ DOMAIN draft[w] \subseteq Requests(w) \cup Contacts(w)
          /\ \A r \in DOMAIN draft[w] : /\ draft[w][r] \in Level \cup {None}
                                        /\ r \in RequestRow => draft[w][r] = None
          /\ Op(w) = "setLevel" => /\ Contact(Me(w), Other(w)) \in DOMAIN draft[w]
                                   /\ draft[w][Contact(Me(w), Other(w))] = "imposter"
          /\ Op(w) = "remove" /\ pc[w] = "requests" =>
                 \E r \in DOMAIN draft[w] \cap Contacts(w) : draft[w][r] = None
      BY <1>8 DEF OpenOK, Open
    <2>2. Targets(w) \subseteq Requests(w) \cup Contacts(w)
          /\ Contact(Me(w), Other(w)) \notin Targets(w)
      BY <1>4, <1>5, <1>8, TargetsOf, RowsApart DEF Requests
    <2>3. \A r \in DOMAIN draft'[w] : /\ draft'[w][r] \in Level \cup {None}
                                      /\ r \in RequestRow => draft'[w][r] = None
      BY <1>1, <1>8, <2>1
    <2>4. Op(w) = "setLevel" => /\ Contact(Me(w), Other(w)) \in DOMAIN draft'[w]
                                /\ draft'[w][Contact(Me(w), Other(w))] = "imposter"
      BY <1>1, <2>1, <2>2
    <2>5. Op(w) = "remove" => \E r \in DOMAIN draft'[w] \cap Contacts(w) : draft'[w][r] = None
      BY <1>1, <1>8, <2>1
    <2> QED
      BY <1>1, <1>2, <2>1, <2>2, <2>3, <2>4, <2>5 DEF OpenOK
  <1> QED
    BY <1>6, <1>7, <1>8

\* The steps that leave a thread in a transaction are the statements of one.
LEMMA OpenSteps ==
    ASSUME IInv, NEW w \in Thread, LocalsOK(w), Step(w) \/ Fault(w) \/ LoseCommit(w),
           pc'[w] \in Open
    PROVE  \/ Take(w) \/ WriteAllies(w) \/ WriteImposter(w) \/ DeleteOtherRow(w)
           \/ DeleteConnected(w) \/ DeleteRequests(w)
  <1>1. ~ Return(w)
    BY ReturnAlone DEF Open
  <1>2. \A label : Goto(w, label) => label \in Open
    BY GotoAlone
  <1>3. ~ RequestStep(w)
    BY <1>1, <1>2 DEF RequestStep, CheckMine, CheckBoth, CheckPending, CheckDaily, CheckBlocked,
           ReadOurs, Check, ReadTheirs, Put, Open
  <1>4. ~ Commit(w) /\ ~ RefuseStep(w) /\ ~ SetTier(w)
    BY <1>1, <1>2 DEF Commit, RefuseStep, Decline, Withdraw, SetTier, Open
  <1>5. ~ ReadLevel(w) /\ ~ Unblock(w)
    BY <1>1, <1>2 DEF ReadLevel, Unblock, Open
  <1>6. ~ Look(w) /\ ~ Publish(w)
    BY <1>1 DEF Look, Publish, Open
  <1>7. ~ BreakDeadlock(w) /\ ~ Fault(w) /\ ~ LoseCommit(w)
    BY <1>1, <1>2 DEF BreakDeadlock, Fault, LoseCommit, Abort, Open
  <1> QED
    BY <1>3, <1>4, <1>5, <1>6, <1>7 DEF Step, AcceptStep, LevelStep, RemoveStep

LEMMA StepOpen ==
    ASSUME IInv, Locals, AreTables(db), consent \subseteq Pair,
           \A v \in Thread : OpenOK(v), NEW w \in Thread,
           Step(w) \/ Fault(w) \/ LoseCommit(w)
    PROVE  \A v \in Thread : OpenOK(v)'
  <1>1. Alone(w) /\ LocalsOK(w)
    BY StepTurns DEF Locals
  <1>2. ASSUME NEW v \in Thread, v # w PROVE OpenOK(v)'
    BY <1>1, <1>2 DEF Alone, OpenOK, Accepting, Ending, Op, Me, Other, Requests, Contacts
  <1>3. CASE pc'[w] \notin Open
    BY <1>2, <1>3 DEF OpenOK
  <1>4. CASE pc'[w] \in Open
    <2>1. CASE Take(w)
      BY <1>1, <1>2, <1>4, <2>1, TakeOpen
    <2>2. CASE WriteAllies(w)
      BY <1>1, <1>2, <2>2, AlliesOpen
    <2>3. CASE WriteImposter(w)
      <3>1. /\ pc[w] = "imposter" /\ Stage(w, Targets(w), "imposter") /\ Goto(w, "unrow")
            /\ job' = job /\ job[w].call \in Call /\ Op(w) = "setLevel"
        BY <2>3 DEF WriteImposter, IInv, CallOK
      <3> QED
        BY <1>2, <3>1, EndingOpen DEF Ending, Open
    <2>4. CASE DeleteOtherRow(w)
      <3>1. /\ pc[w] = "unrow" /\ Stage(w, Targets(w), None) /\ Goto(w, "requests")
            /\ job' = job /\ job[w].call \in Call /\ Op(w) = "setLevel"
        BY <2>4 DEF DeleteOtherRow, IInv, CallOK
      <3> QED
        BY <1>2, <3>1, EndingOpen DEF Ending
    <2>5. CASE DeleteConnected(w)
      <3>1. ~ Return(w)
        BY <1>4, ReturnAlone DEF Open
      <3>2. /\ pc[w] = "rows" /\ Stage(w, Targets(w), None) /\ Goto(w, "requests")
            /\ job' = job /\ job[w].call \in Call /\ Op(w) = "remove" /\ Targets(w) # {}
        BY <2>5, <3>1 DEF DeleteConnected, IInv, CallOK
      <3> QED
        BY <1>2, <3>2, EndingOpen DEF Ending, Open
    <2>6. CASE DeleteRequests(w)
      <3>1. /\ pc[w] = "requests" /\ Stage(w, Targets(w), None) /\ Goto(w, "commit")
            /\ job[w].call \in Call
        BY <2>6 DEF DeleteRequests, IInv, CallOK
      <3>2. job'[w].call = job[w].call /\ Ending(w)
        <4>1. job[w] \in Job /\ Ending(w)
          BY <1>1, <3>1 DEF LocalsOK, Placed
        <4>2. PICK had : job' = [job EXCEPT ![w].had = had]
          BY <2>6 DEF DeleteRequests, EndConsent
        <4> QED
          BY <4>1, <4>2 DEF IInv, Shapes, Job
      <3> QED
        BY <1>2, <3>1, <3>2, EndingOpen
    <2> QED
      BY <1>1, <1>4, <2>1, <2>2, <2>3, <2>4, <2>5, <2>6, OpenSteps
  <1> QED
    BY <1>3, <1>4
-----------------------------------------------------------------------------
(* The tables and the rest of the state *)

Typed ==
    /\ Locals /\ \A w \in Thread : OpenOK(w)
    /\ AreTables(db)
    /\ view \in [ContactRow -> Level \cup {None}]
    /\ consent \subseteq Pair
    /\ refused \in [Pair -> Nat \cup {None}]
    /\ raced \subseteq User
    /\ budget \in [Bounded -> Nat]

\* The statements that change a table.
LEMMA TableSteps ==
    ASSUME NEW w \in Thread, Step(w) \/ Fault(w) \/ LoseCommit(w)
    PROVE  db' = db \/ Put(w) \/ Commit(w) \/ Decline(w) \/ Withdraw(w) \/ SetTier(w) \/ Unblock(w)
  BY DEF Step, RequestStep, CheckMine, CheckBoth, CheckPending, CheckDaily, CheckBlocked,
         ReadOurs, Check, ReadTheirs, AcceptStep, Take, WriteAllies, RefuseStep,
         LevelStep, WriteImposter, DeleteOtherRow, DeleteRequests,
         RemoveStep, ReadLevel, DeleteConnected, Look, Publish, BreakDeadlock,
         Fault, LoseCommit, Abort

\* The rows keep their types when each row that changes gets a value of its own.
LEMMA TablesKept ==
    ASSUME AreTables(db), DOMAIN db' = Row, db' = [r \in Row |-> db'[r]],
           \A r \in Row : \/ db'[r] = db[r]
                          \/ r \in ContactRow /\ db'[r] \in Level \cup {None}
                          \/ r \in RequestRow /\ db'[r] \in Request \cup {None}
    PROVE  AreTables(db)'
  <1>1. ContactRow \subseteq Row /\ RequestRow \subseteq Row
    BY RowsApart
  <1>2. \A r \in ContactRow : r \notin RequestRow
    BY DEF ContactRow, RequestRow, Contact, Asked
  <1>3. ASSUME NEW r \in ContactRow PROVE db'[r] \in Level \cup {None}
    BY <1>1, <1>2 DEF AreTables
  <1>4. ASSUME NEW r \in RequestRow PROVE db'[r] = None \/ db'[r] \in Request
    BY <1>1, <1>2 DEF AreTables
  <1> QED
    BY <1>3, <1>4 DEF AreTables

LEMMA ExecuteTables ==
    ASSUME AreTables(db), NEW w \in Thread, NEW value, Execute(w, value),
           \/ Targets(w) \subseteq ContactRow /\ value \in Level \cup {None}
           \/ Targets(w) \subseteq RequestRow /\ value \in Request \cup {None}
    PROVE  AreTables(db)'
  <1>1. db' = [r \in Row |-> IF r \in Targets(w) THEN value ELSE db[r]]
    BY DEF Execute
  <1>2. DOMAIN db' = Row /\ db' = [r \in Row |-> db'[r]]
    BY <1>1
  <1>3. ASSUME NEW r \in Row
        PROVE  \/ db'[r] = db[r]
               \/ r \in ContactRow /\ db'[r] \in Level \cup {None}
               \/ r \in RequestRow /\ db'[r] \in Request \cup {None}
    BY <1>1
  <1> QED
    BY <1>2, <1>3, TablesKept

\* The request rows a call writes to are rows of requests.
LEMMA AskedRows ==
    ASSUME NEW w \in Thread, job[w].call \in Call
    PROVE  Asked(Me(w), Other(w)) \in RequestRow /\ Asked(Other(w), Me(w)) \in RequestRow
  <1>1. <<Me(w), Other(w)>> \in Pair /\ <<Other(w), Me(w)>> \in Pair
    BY OpTyped
  <1> QED
    BY <1>1 DEF RequestRow

LEMMA StepTables ==
    ASSUME IInv, Typed, NEW w \in Thread, Step(w) \/ Fault(w) \/ LoseCommit(w)
    PROVE  AreTables(db)'
  <1>1. AreTables(db) /\ LocalsOK(w) /\ OpenOK(w) /\ job[w] \in Job /\ job[w].now \in Nat
    BY DEF Typed, Locals, LocalsOK, Job
  <1>2. pc[w] # "idle" => /\ job[w].call \in Call
                          /\ Contact(Me(w), Other(w)) \in ContactRow
                          /\ Asked(Me(w), Other(w)) \in RequestRow
                          /\ Asked(Other(w), Me(w)) \in RequestRow
    BY OwnRows, AskedRows DEF IInv, CallOK
  <1>3. CASE db' = db
    BY <1>1, <1>3 DEF AreTables
  <1>4. CASE Put(w)
    <2>1. pc[w] = "put" /\ Execute(w, [created |-> job[w].now, declined |-> None])
      BY <1>4 DEF Put
    <2>2. Targets(w) \subseteq RequestRow
      BY <1>2, <2>1, TargetsOf
    <2>3. [created |-> job[w].now, declined |-> None] \in Request \cup {None}
      BY <1>1 DEF Request
    <2> QED
      BY <1>1, <2>1, <2>2, <2>3, ExecuteTables
  <1>5. CASE Commit(w)
    <2>1. /\ pc[w] = "commit"
          /\ db' = [r \in Row |-> IF r \in DOMAIN draft[w] THEN draft[w][r] ELSE db[r]]
      BY <1>5 DEF Commit
    <2>2. \A r \in DOMAIN draft[w] : /\ draft[w][r] \in Level \cup {None}
                                     /\ r \in RequestRow => draft[w][r] = None
      BY <1>1, <2>1 DEF OpenOK, Open
    <2>3. DOMAIN db' = Row /\ db' = [r \in Row |-> db'[r]]
      BY <2>1
    <2>4. ASSUME NEW r \in Row
          PROVE  \/ db'[r] = db[r]
                 \/ r \in ContactRow /\ db'[r] \in Level \cup {None}
                 \/ r \in RequestRow /\ db'[r] \in Request \cup {None}
      BY <2>1, <2>2 DEF Row
    <2> QED
      BY <1>1, <2>3, <2>4, TablesKept
  <1>6. CASE Decline(w)
    <2>1. /\ pc[w] = "decline"
          /\ db' = [r \in Row |-> IF r \in Targets(w) THEN [db[r] EXCEPT !.declined = job[w].now]
                                                      ELSE db[r]]
      BY <1>6 DEF Decline
    <2>2. \A r \in Targets(w) : r \in RequestRow /\ db[r] # None
      BY <1>2, <2>1 DEF Targets, Live
    <2>3. \A r \in Targets(w) : [db[r] EXCEPT !.declined = job[w].now] \in Request
      <3>1. \A r \in Targets(w) : db[r] \in Request
        BY <1>1, <2>2 DEF AreTables
      <3> QED
        BY <1>1, <3>1 DEF Request
    <2>4. DOMAIN db' = Row /\ db' = [r \in Row |-> db'[r]]
      BY <2>1
    <2>5. ASSUME NEW r \in Row
          PROVE  \/ db'[r] = db[r]
                 \/ r \in RequestRow /\ db'[r] \in Request \cup {None}
      BY <2>1, <2>2, <2>3
    <2> QED
      BY <1>1, <2>4, <2>5, TablesKept
  <1>7. CASE Withdraw(w)
    <2>1. pc[w] = "withdraw" /\ Execute(w, None)
      BY <1>7 DEF Withdraw
    <2>2. Targets(w) \subseteq RequestRow
      BY <1>2, <2>1, TargetsOf
    <2> QED
      BY <1>1, <2>1, <2>2, ExecuteTables
  <1>8. CASE SetTier(w)
    <2>1. pc[w] = "tier" /\ Execute(w, job[w].call.level) /\ job[w].call.level \in Level
      BY <1>1, <1>8 DEF SetTier, LocalsOK, Tier, Level
    <2>2. Targets(w) \subseteq ContactRow
      BY <1>2, <2>1, TargetsOf
    <2> QED
      BY <1>1, <2>1, <2>2, ExecuteTables
  <1>9. CASE Unblock(w)
    <2>1. pc[w] = "unblock" /\ Execute(w, None)
      BY <1>9 DEF Unblock
    <2>2. Targets(w) \subseteq ContactRow
      BY <1>2, <2>1, TargetsOf
    <2> QED
      BY <1>1, <2>1, <2>2, ExecuteTables
  <1> QED
    BY <1>3, <1>4, <1>5, <1>6, <1>7, <1>8, <1>9, TableSteps

\* What is recorded of the past, and what devices were told.
LEMMA StepHistory ==
    ASSUME IInv, Typed, NEW w \in Thread, Step(w) \/ Fault(w) \/ LoseCommit(w)
    PROVE  /\ view' \in [ContactRow -> Level \cup {None}]
           /\ consent' \subseteq Pair
           /\ refused' \in [Pair -> Nat \cup {None}]
           /\ raced' = raced
           /\ budget' \in [Bounded -> Nat]
  <1>1. LocalsOK(w) /\ job[w] \in Job /\ job[w].now \in Nat /\ job[w].had \subseteq Pair
    BY DEF Typed, Locals, LocalsOK, Job
  <1>2. pc[w] # "idle" => <<Me(w), Other(w)>> \in Pair /\ <<Other(w), Me(w)>> \in Pair
    BY OpTyped DEF IInv, CallOK
  <1>3. view' \in [ContactRow -> Level \cup {None}]
    <2>1. CASE Publish(w)
      <3> DEFINE news == Head(job[w].tell)
      <3>1. news \in Piece
        BY <1>1, <2>1, FirstOf DEF Publish, LocalsOK, Job
      <3>2. news.level # "unread" /\ view' = IF news.level = "asked" THEN view
               ELSE [view EXCEPT ![Contact(news.to, news.about)] = news.level]
        BY <2>1 DEF Publish
      <3> HIDE DEF news
      <3>3. news.level # "asked" => news.level \in Level \cup {None}
        BY <3>1, <3>2 DEF Piece
      <3> QED
        BY <3>2, <3>3 DEF Typed
    <2>2. CASE ~ Publish(w)
      <3>1. view' = view
        BY <2>2 DEF Step, RequestStep, CheckMine, CheckBoth, CheckPending, CheckDaily,
               CheckBlocked, ReadOurs, Check, ReadTheirs, Put, AcceptStep, Take, WriteAllies,
               Commit, RefuseStep, Decline, Withdraw, LevelStep, WriteImposter, DeleteOtherRow,
               DeleteRequests, SetTier, RemoveStep, ReadLevel, Unblock, DeleteConnected, Look,
               BreakDeadlock, Fault, LoseCommit, Abort
      <3> QED
        BY <3>1 DEF Typed
    <2> QED
      BY <2>1, <2>2
  <1>4. consent' \subseteq Pair
    <2>1. consent' \subseteq consent \cup (Pair \cap {<<Me(w), Other(w)>>}) \cup job[w].had
      BY <1>2 DEF Step, RequestStep, CheckMine, CheckBoth, CheckPending, CheckDaily,
               CheckBlocked, ReadOurs, Check, ReadTheirs, Put, AcceptStep, Take, WriteAllies,
               Commit, RefuseStep, Decline, Withdraw, LevelStep, WriteImposter, DeleteOtherRow,
               DeleteRequests, EndConsent, SetTier, RemoveStep, ReadLevel, Unblock,
               DeleteConnected, Look, Publish, BreakDeadlock, Fault, LoseCommit, Abort, history
    <2> QED
      BY <1>1, <2>1 DEF Typed
  <1>5. refused' \in [Pair -> Nat \cup {None}]
    <2>1. CASE Decline(w)
      <3>1. refused' = refused \/ refused' = [refused EXCEPT ![<<Other(w), Me(w)>>] = job[w].now]
        BY <2>1 DEF Decline
      <3> QED
        BY <1>1, <3>1 DEF Typed
    <2>2. CASE ~ Decline(w)
      <3>1. refused' = refused
        BY <2>2 DEF Step, RequestStep, CheckMine, CheckBoth, CheckPending, CheckDaily,
               CheckBlocked, ReadOurs, Check, ReadTheirs, Put, AcceptStep, Take, WriteAllies,
               Commit, RefuseStep, Withdraw, LevelStep, WriteImposter, DeleteOtherRow,
               DeleteRequests, SetTier, RemoveStep, ReadLevel, Unblock, DeleteConnected, Look,
               Publish, BreakDeadlock, Fault, LoseCommit, Abort, history
      <3> QED
        BY <3>1 DEF Typed
    <2> QED
      BY <2>1, <2>2
  <1>6. raced' = raced
    BY DEF Step, RequestStep, CheckMine, CheckBoth, CheckPending, CheckDaily,
           CheckBlocked, ReadOurs, Check, ReadTheirs, Put, AcceptStep, Take, WriteAllies,
           Commit, RefuseStep, Decline, Withdraw, LevelStep, WriteImposter, DeleteOtherRow,
           DeleteRequests, SetTier, RemoveStep, ReadLevel, Unblock, DeleteConnected, Look,
           Publish, BreakDeadlock, Fault, LoseCommit, Abort, history
  <1>7. budget' \in [Bounded -> Nat]
    <2>1. budget' = budget \/ Spend("faults")
      BY DEF Step, RequestStep, CheckMine, CheckBoth, CheckPending, CheckDaily,
           CheckBlocked, ReadOurs, Check, ReadTheirs, Put, AcceptStep, Take, WriteAllies,
           Commit, RefuseStep, Decline, Withdraw, LevelStep, WriteImposter, DeleteOtherRow,
           DeleteRequests, SetTier, RemoveStep, ReadLevel, Unblock, DeleteConnected, Look,
           Publish, BreakDeadlock, Fault, LoseCommit, Abort
    <2> QED
      BY <2>1 DEF Typed, Spend, Bounded
  <1> QED
    BY <1>3, <1>4, <1>5, <1>6, <1>7

LEMMA TypedInit == Init => Typed
  <1> SUFFICES ASSUME Init PROVE Typed
    OBVIOUS
  <1>1. Locals
    <2>1. NoJob \in Job /\ NoJob.now = 0
      BY DEF NoJob, Job
    <2>2. ASSUME NEW w \in Thread PROVE LocalsOK(w)
      BY <2>1 DEF Init, LocalsOK, Placed, Asking, Label
    <2> QED
      BY <2>2 DEF Init, Locals
  <1>2. \A w \in Thread : OpenOK(w)
    BY DEF Init, OpenOK, Open
  <1>3. AreTables(db)
    BY ContactsAssumption DEF Init
  <1>4. view \in [ContactRow -> Level \cup {None}]
    BY <1>3 DEF Init, AreTables
  <1>5. refused \in [Pair -> Nat \cup {None}]
    <2>1. \A p \in Pair : Asked(p[1], p[2]) \in RequestRow
      BY DEF RequestRow
    <2>2. \A p \in Pair : db[Asked(p[1], p[2])] # None =>
              db[Asked(p[1], p[2])].declined \in Nat \cup {None}
      BY <1>3, <2>1 DEF AreTables, Request
    <2> QED
      BY <2>2 DEF Init
  <1> QED
    BY <1>1, <1>2, <1>3, <1>4, <1>5 DEF Init, Typed, Bounded

LEMMA TypedNext == IInv /\ Typed /\ [Next]_vars => Typed'
  <1> SUFFICES ASSUME IInv, Typed, [Next]_vars PROVE Typed'
    OBVIOUS
  <1>1. ASSUME NEW w \in Thread, NEW c \in Call, Begin(w, c) PROVE Typed'
    <2>1. Locals'
      BY <1>1, BeginLocals DEF Typed
    <2>2. \A v \in Thread : OpenOK(v)'
      <3>1. Alone(w) /\ pc'[w] = First(c) /\ c.op \in {"request", "accept", "refuse", "setLevel", "remove"}
        BY <1>1, BeginAlone, CallTyped
      <3>2. OpenOK(w)'
        BY <3>1 DEF OpenOK, Open, First
      <3>3. ASSUME NEW v \in Thread, v # w PROVE OpenOK(v)'
        BY <3>1, <3>3 DEF Typed, Alone, OpenOK, Accepting, Ending, Op, Me, Other, Requests, Contacts
      <3> QED
        BY <3>2, <3>3
    <2>3. raced' \subseteq User /\ budget' \in [Bounded -> Nat]
      <3>1. c.me \in User /\ c.other \in User
        BY ContactsAssumption DEF CallType
      <3> QED
        BY <1>1, <3>1 DEF Begin, Spend, Typed, Bounded
    <2>4. UNCHANGED <<db, view, consent, refused>>
      BY <1>1 DEF Begin
    <2>5. AreTables(db)'
      BY <2>4 DEF Typed, AreTables
    <2> QED
      BY <2>1, <2>2, <2>3, <2>4, <2>5 DEF Typed
  <1>2. ASSUME NEW w \in Thread, Step(w) \/ Fault(w) \/ LoseCommit(w) PROVE Typed'
    <2>1. Locals' /\ \A v \in Thread : OpenOK(v)'
      BY <1>2, StepLocals, StepOpen DEF Typed
    <2> QED
      BY <1>2, <2>1, StepTables, StepHistory DEF Typed
  <1>3. CASE Tick
    <2>1. /\ UNCHANGED <<db, draft, pc, job, view, consent, refused, raced>>
          /\ clock' = clock + 1 /\ Spend("instants")
      BY <1>3 DEF Tick, history
    <2>2. Locals'
      BY <2>1 DEF Typed, Locals, LocalsOK, Job, Placed, Ending, Op
    <2>3. \A v \in Thread : OpenOK(v)'
      BY <2>1 DEF Typed, OpenOK, Accepting, Ending, Op, Me, Other, Requests, Contacts
    <2>4. AreTables(db)'
      BY <2>1 DEF Typed, AreTables
    <2>5. budget' \in [Bounded -> Nat]
      BY <2>1 DEF Spend, Typed, Bounded
    <2> QED
      BY <2>1, <2>2, <2>3, <2>4, <2>5 DEF Typed
  <1>4. CASE UNCHANGED vars
    <2>1. UNCHANGED <<db, draft, pc, job, view, consent, refused, raced, clock, budget>>
      BY <1>4 DEF vars
    <2>2. Locals'
      BY <2>1 DEF Typed, Locals, LocalsOK, Placed, Ending, Op
    <2>3. \A v \in Thread : OpenOK(v)'
      BY <2>1 DEF Typed, OpenOK, Accepting, Ending, Op, Me, Other, Requests, Contacts
    <2> QED
      BY <2>1, <2>2, <2>3 DEF Typed, AreTables
  <1> QED
    BY <1>1, <1>2, <1>3, <1>4 DEF Next

\* Every variable has its type; a transaction is open only between its first
\* statement and its commit, and a thread has a call exactly while it serves one.
THEOREM WellTyped == Spec => []TypeOK
  <1>1. IInv /\ Typed => TypeOK
    <2> SUFFICES ASSUME IInv, Typed PROVE TypeOK
      OBVIOUS
    <2>1. ASSUME NEW w \in Thread PROVE DOMAIN draft[w] \subseteq Row
      <3>1. CASE draft[w] = <<>>
        BY <3>1
      <3>2. CASE draft[w] # <<>>
        <4>1. pc[w] \in Open /\ job[w].call \in Call
          BY <3>2 DEF IInv, CallOK, Open
        <4>2. DOMAIN draft[w] \subseteq Requests(w) \cup Contacts(w)
          BY <4>1 DEF Typed, OpenOK
        <4> QED
          BY <4>1, <4>2, OwnRows, RowsApart DEF Requests, Contacts
      <3> QED
        BY <3>1, <3>2
    <2>2. ASSUME NEW w \in Thread
          PROVE  /\ job[w].call \in Call \cup {None} /\ job[w].now \in 0..clock
                 /\ pc[w] = "idle" <=> job[w] = NoJob
      <3>1. LocalsOK(w) /\ clock \in Nat
        BY DEF Typed, Locals
      <3>2. job[w].call \in Call \cup {None} /\ job[w].now \in 0..clock
        BY <3>1 DEF LocalsOK, Job
      <3>3. pc[w] # "idle" => job[w] # NoJob
        BY ContactsAssumption DEF IInv, CallOK, NoJob
      <3> QED
        BY <3>1, <3>2, <3>3 DEF LocalsOK
    <2>3. pc \in [Thread -> Label]
      BY DEF Typed, Locals, LocalsOK, IInv, Shapes
    <2>4. ASSUME NEW w \in Thread PROVE draft[w] # <<>> => pc[w] \in Open
      BY DEF IInv, CallOK, Open
    <2> QED
      BY <2>1, <2>2, <2>3, <2>4 DEF TypeOK, Typed, Locals, Label, Open
  <1>2. IInv /\ [Next]_vars => IInv'
    BY NextKeeps DEF Kept
  <1> QED
    BY <1>1, <1>2, IInvInit, TypedInit, TypedNext, PTL DEF Spec
-----------------------------------------------------------------------------
(* Consent *)

\* v is about to commit the end of what p has.
Ends(v, p) == pc[v] = "commit" /\ Ending(v) /\ {Me(v), Other(v)} = {p[1], p[2]}

\* Whoever can talk to somebody has asked for them or accepted them, or a
\* transaction under way ends it and remembers that they had.
Grounds == \A p \in Pair : CanCommunicate(p[1], p[2]) =>
               p \in consent \/ \E v \in Thread : Ends(v, p) /\ p \in job[v].had

\* So has whoever's request is there; the transaction that ends it holds its row.
Requested == \A p \in Pair : db[Asked(p[1], p[2])] # None =>
                 \/ p \in consent
                 \/ \E v \in Thread : /\ Ends(v, p) /\ p \in job[v].had
                                      /\ Asked(p[1], p[2]) \in DOMAIN draft[v]

\* An acceptance holds the row of the request it answers, which stays in the table
\* till it commits; who sent it has not taken it back.
Took(w) == /\ Asked(Other(w), Me(w)) \in DOMAIN draft[w]
           /\ db[Asked(Other(w), Me(w))] # None
           /\ <<Other(w), Me(w)>> \in consent

Taken == \A w \in Thread : Accepting(w) => Took(w)

Agreed == Grounds /\ Requested /\ Taken

LEMMA PairRows ==
    ASSUME NEW p \in Pair
    PROVE  /\ Contact(p[1], p[2]) \in ContactRow /\ Contact(p[2], p[1]) \in ContactRow
           /\ Asked(p[1], p[2]) \in RequestRow /\ Asked(p[2], p[1]) \in RequestRow
  <1>1. <<p[2], p[1]>> \in Pair
    BY DEF Pair
  <1> QED
    BY <1>1 DEF ContactRow, RequestRow

\* A step of w makes no two people able to talk and no request appear that nobody
\* agreed to, and takes back what was agreed only for people who cannot talk, whose
\* request is gone and in nobody's transaction.
LEMMA AgreedKept ==
    ASSUME Agreed, Typed, IInv, NEW w \in Thread, Alone(w),
           pc[w] = "commit" => job[w].had \subseteq consent',
           \A p \in Pair : CanCommunicate(p[1], p[2])' => CanCommunicate(p[1], p[2]),
           \A p \in Pair : db'[Asked(p[1], p[2])] # None =>
                               db[Asked(p[1], p[2])] # None \/ p \in consent',
           \A p \in consent \ consent' :
               /\ ~ CanCommunicate(p[1], p[2])' /\ db'[Asked(p[1], p[2])] = None
               /\ \A v \in Thread \ {w} : Asked(p[1], p[2]) \notin DOMAIN draft[v],
           \A v \in Thread \ {w} : \A r \in DOMAIN draft[v] :
               r \in RequestRow /\ db[r] # None => db'[r] # None,
           Accepting(w)' => Took(w)'
    PROVE  Agreed'
  <1>1. \A v \in Thread \ {w} : /\ pc'[v] = pc[v] /\ job'[v] = job[v] /\ draft'[v] = draft[v]
                                /\ Op(v)' = Op(v) /\ Me(v)' = Me(v) /\ Other(v)' = Other(v)
    BY DEF Alone, Op, Me, Other
  <1>2. ASSUME NEW p \in Pair, NEW v \in Thread, Ends(v, p), p \in job[v].had, p \notin consent'
        PROVE  v # w /\ Ends(v, p)' /\ p \in job'[v].had
               /\ (Asked(p[1], p[2]) \in DOMAIN draft[v] => Asked(p[1], p[2]) \in DOMAIN draft'[v])
    <2>1. v # w
      BY <1>2 DEF Ends
    <2> QED
      BY <1>1, <1>2, <2>1 DEF Ends, Ending
  <1>3. Grounds'
    <2> SUFFICES ASSUME NEW p \in Pair, CanCommunicate(p[1], p[2])', p \notin consent'
                 PROVE  \E v \in Thread : Ends(v, p)' /\ p \in job'[v].had
      BY DEF Grounds
    <2>1. p \notin consent /\ CanCommunicate(p[1], p[2])
      OBVIOUS
    <2>2. PICK v \in Thread : Ends(v, p) /\ p \in job[v].had
      BY <2>1 DEF Agreed, Grounds
    <2> QED
      BY <1>2, <2>2
  <1>4. Requested'
    <2> SUFFICES ASSUME NEW p \in Pair, db'[Asked(p[1], p[2])] # None, p \notin consent'
                 PROVE  \E v \in Thread : /\ Ends(v, p)' /\ p \in job'[v].had
                                          /\ Asked(p[1], p[2]) \in DOMAIN draft'[v]
      BY DEF Requested
    <2>1. p \notin consent /\ db[Asked(p[1], p[2])] # None
      OBVIOUS
    <2>2. PICK v \in Thread : /\ Ends(v, p) /\ p \in job[v].had
                              /\ Asked(p[1], p[2]) \in DOMAIN draft[v]
      BY <2>1 DEF Agreed, Requested
    <2> QED
      BY <1>2, <2>2
  <1>5. ASSUME NEW v \in Thread, Accepting(v)', v # w PROVE Took(v)'
    <2>1. Accepting(v)
      BY <1>1, <1>5 DEF Accepting, Ending
    <2>2. Took(v)
      BY <2>1 DEF Agreed, Taken
    <2> DEFINE r == Asked(Other(v), Me(v))
    <2>3. <<Other(v), Me(v)>> \in Pair
      BY <2>2 DEF Took, Typed
    <2>4. r \in RequestRow
      BY <2>3 DEF RequestRow
    <2>5. db'[r] # None
      BY <1>5, <2>2, <2>4 DEF Took
    <2>6. <<Other(v), Me(v)>> \in consent'
      BY <1>5, <2>2 DEF Took
    <2> QED
      BY <1>1, <1>5, <2>2, <2>5, <2>6 DEF Took
  <1>6. Taken'
    BY <1>5 DEF Taken
  <1> QED
    BY <1>3, <1>4, <1>6 DEF Agreed

\* A step that leaves the tables alone and takes nothing back.
LEMMA AgreedQuietly ==
    ASSUME Agreed, Typed, IInv, NEW w \in Thread, Alone(w), db' = db,
           pc[w] = "commit" => job[w].had \subseteq consent',
           consent \subseteq consent', Accepting(w)' => Took(w)'
    PROVE  Agreed'
  BY AgreedKept DEF CanCommunicate

LEMMA TakeAgreed ==
    ASSUME Agreed, Typed, IInv, NEW w \in Thread, Take(w)
    PROVE  Agreed'
  <1>1. /\ pc[w] = "take" /\ db' = db /\ consent' = consent /\ Alone(w) /\ LocalsOK(w)
        /\ job[w].call \in Call
    BY AcceptTurns DEF Take, history, AcceptStep, Typed, Locals, LocalsOK, IInv, CallOK
  <1>2. CASE pc'[w] \notin Open
    BY <1>1, <1>2, AgreedQuietly DEF Accepting, Open
  <1>3. CASE pc'[w] \in Open
    <2> DEFINE p == <<Other(w), Me(w)>>
               r == Asked(Other(w), Me(w))
    <2>1. /\ Stage(w, Targets(w), None) /\ Targets(w) = {r}
          /\ job' = job /\ db[r] # None
      BY <1>1, <1>3, TakeOpen
    <2>2. p \in Pair
      BY <1>1, OpTyped
    <2>3. \A v \in Thread \ {w} : r \notin DOMAIN draft[v]
      BY <2>1 DEF Stage, WaitsFor
    <2>4. p \in consent
      <3>1. ASSUME NEW v \in Thread, Ends(v, p), r \in DOMAIN draft[v] PROVE FALSE
        BY <1>1, <2>3, <3>1 DEF Ends
      <3> QED
        BY <2>1, <2>2, <3>1 DEF Agreed, Requested
    <2>5. r \in DOMAIN draft'[w]
      <3>1. DOMAIN draft'[w] = DOMAIN draft[w] \cup Targets(w)
        <4>1. draft'[w] = [x \in DOMAIN draft[w] \cup Targets(w) |->
                               IF x \in Targets(w) THEN None ELSE draft[w][x]]
          BY <2>1, StageAlone
        <4> QED
          BY <4>1
      <3> QED
        BY <2>1, <3>1
    <2>6. Took(w)'
      BY <1>1, <2>1, <2>4, <2>5 DEF Took, Me, Other
    <2> QED
      BY <1>1, <2>6, AgreedQuietly
  <1> QED
    BY <1>2, <1>3

LEMMA AlliesAgreed ==
    ASSUME Agreed, Typed, IInv, NEW w \in Thread, WriteAllies(w)
    PROVE  Agreed'
  <1>1. /\ pc[w] # "commit" /\ db' = db /\ consent' = consent /\ job' = job
        /\ Alone(w) /\ LocalsOK(w) /\ OpenOK(w)
    BY AcceptTurns DEF WriteAllies, history, AcceptStep, Typed, Locals, LocalsOK
  <1>2. Accepting(w) /\ DOMAIN draft[w] \subseteq DOMAIN draft'[w]
    BY <1>1, AlliesOpen
  <1>3. Took(w)'
    BY <1>1, <1>2 DEF Agreed, Taken, Took, Me, Other
  <1> QED
    BY <1>1, <1>3, AgreedQuietly

\* What can be said once the rows of a pair are committed.
LEMMA CommitAgreed ==
    ASSUME Agreed, Typed, IInv, NEW w \in Thread, Commit(w)
    PROVE  Agreed'
  <1> DEFINE mine == {<<Me(w), Other(w)>>, <<Other(w), Me(w)>>}
  <1>1. /\ pc[w] = "commit" /\ pc'[w] = "tell" /\ job[w].call \in Call /\ Op(w) # "refuse"
        /\ db' = [r \in Row |-> IF r \in DOMAIN draft[w] THEN draft[w][r] ELSE db[r]]
        /\ consent' = IF Op(w) \in {"accept", "request"}
                      THEN consent \cup {<<Me(w), Other(w)>>} ELSE consent
    BY GotoAlone DEF Commit, IInv, CallOK, Typed, Locals, LocalsOK, Placed
  <1>2. Alone(w) /\ OpenOK(w)
    BY AcceptTurns DEF AcceptStep, Typed, Locals, LocalsOK
  <1>3. /\ DOMAIN draft[w] \subseteq Requests(w) \cup Contacts(w)
        /\ \A r \in DOMAIN draft[w] : r \in RequestRow => draft[w][r] = None
        /\ Accepting(w) => \A r \in DOMAIN draft[w] : r \in ContactRow => draft[w][r] = "ally"
        /\ Op(w) = "setLevel" =>
               /\ Contact(Me(w), Other(w)) \in DOMAIN draft[w]
               /\ draft[w][Contact(Me(w), Other(w))] = "imposter"
        /\ Op(w) = "remove" => \E r \in DOMAIN draft[w] \cap Contacts(w) : draft[w][r] = None
    BY <1>1, <1>2 DEF OpenOK, Open
  <1>4. Op(w) \in {"accept", "request", "setLevel", "remove"}
    BY <1>1, OpTyped
  <1>5. ~ Accepting(w)'
    BY <1>1 DEF Accepting
  \* The rows of other pairs, and the requests of this one.
  <1>6. ASSUME NEW p \in Pair, p \notin mine
        PROVE  /\ db'[Contact(p[1], p[2])] = db[Contact(p[1], p[2])]
               /\ db'[Contact(p[2], p[1])] = db[Contact(p[2], p[1])]
               /\ db'[Asked(p[1], p[2])] = db[Asked(p[1], p[2])]
    <2>1. /\ Contact(p[1], p[2]) \in Row /\ Contact(p[2], p[1]) \in Row
          /\ Asked(p[1], p[2]) \in Row
      BY PairRows DEF Row
    <2>2. /\ Contact(p[1], p[2]) \notin Requests(w) \cup Contacts(w)
          /\ Contact(p[2], p[1]) \notin Requests(w) \cup Contacts(w)
          /\ Asked(p[1], p[2]) \notin Requests(w) \cup Contacts(w)
      BY <1>6 DEF Requests, Contacts, Contact, Asked, Pair
    <2> QED
      BY <1>1, <1>3, <2>1, <2>2
  <1>7. \A r \in RequestRow : db'[r] # None => db'[r] = db[r]
    BY <1>1, <1>3, RowsApart
  <1>8. \A v \in Thread \ {w} : \A r \in DOMAIN draft[v] :
            r \in RequestRow /\ db[r] # None => db'[r] # None
    <2>1. \A v \in Thread \ {w} : \A r \in DOMAIN draft[v] : r \notin DOMAIN draft[w]
      BY DEF IInv, Apart
    <2> QED
      BY <1>1, <2>1, RowsApart
  \* Whom w ends cannot talk once it has committed.
  <1>9. ASSUME Ending(w), NEW p \in mine
        PROVE  ~ CanCommunicate(p[1], p[2])'
    <2>1. Contact(Me(w), Other(w)) \in Row /\ Contact(Other(w), Me(w)) \in Row
      BY <1>1, OwnRows, RowsApart
    <2>2. PICK r \in {Contact(Me(w), Other(w)), Contact(Other(w), Me(w))} :
              r \in DOMAIN draft[w] /\ draft[w][r] \notin Tier
      BY <1>3, <1>9, ContactsAssumption DEF Ending, Contacts, Tier, Level
    <2>3. db'[r] \notin Tier
      BY <1>1, <2>1, <2>2
    <2> QED
      BY <1>9, <2>2, <2>3 DEF CanCommunicate
  <1>10. consent \subseteq consent'
    BY <1>1
  <1>11. ASSUME NEW v \in Thread, v # w
         PROVE  /\ pc'[v] = pc[v] /\ job'[v] = job[v] /\ draft'[v] = draft[v]
                /\ Op(v)' = Op(v) /\ Me(v)' = Me(v) /\ Other(v)' = Other(v)
                /\ \A p \in Pair : Ends(v, p) => Ends(v, p)'
    BY <1>2, <1>11 DEF Alone, Op, Me, Other, Ends, Ending
  <1>12. \A p \in Pair : Ends(w, p) => p \in mine
    BY <1>1, OpTyped DEF Ends, Pair
  <1>13. ~ Ending(w) => mine \subseteq consent'
    <2>1. ~ Ending(w) => Took(w)
      BY <1>1 DEF Agreed, Taken, Accepting
    <2> QED
      BY <1>1, <1>4, <2>1 DEF Ending, Took
  <1>14. Grounds'
    <2> SUFFICES ASSUME NEW p \in Pair, CanCommunicate(p[1], p[2])', p \notin consent'
                 PROVE  \E v \in Thread : Ends(v, p)' /\ p \in job'[v].had
      BY DEF Grounds
    <2>1. p \notin mine
      BY <1>9, <1>13
    <2>2. CanCommunicate(p[1], p[2]) /\ p \notin consent
      BY <1>6, <1>10, <2>1 DEF CanCommunicate
    <2>3. PICK v \in Thread : Ends(v, p) /\ p \in job[v].had
      BY <2>2 DEF Agreed, Grounds
    <2>4. v # w
      BY <1>12, <2>1, <2>3
    <2> QED
      BY <1>11, <2>3, <2>4
  <1>15. Requested'
    <2> SUFFICES ASSUME NEW p \in Pair, db'[Asked(p[1], p[2])] # None, p \notin consent'
                 PROVE  \E v \in Thread : /\ Ends(v, p)' /\ p \in job'[v].had
                                          /\ Asked(p[1], p[2]) \in DOMAIN draft'[v]
      BY DEF Requested
    <2>1. Asked(p[1], p[2]) \in RequestRow /\ Asked(p[1], p[2]) \in Row
      BY PairRows DEF Row
    <2>2. db[Asked(p[1], p[2])] # None /\ p \notin consent
      BY <1>7, <1>10, <2>1
    <2>3. PICK v \in Thread : /\ Ends(v, p) /\ p \in job[v].had
                              /\ Asked(p[1], p[2]) \in DOMAIN draft[v]
      BY <2>2 DEF Agreed, Requested
    <2>4. v # w
      BY <1>1, <1>3, <2>1, <2>3
    <2> QED
      BY <1>11, <2>3, <2>4
  <1>16. ASSUME NEW v \in Thread, v # w, Accepting(v)' PROVE Took(v)'
    <2>1. Took(v)
      BY <1>11, <1>16 DEF Agreed, Taken, Accepting, Ending
    <2>2. <<Other(v), Me(v)>> \in Pair
      BY <2>1 DEF Took, Typed
    <2>3. Asked(Other(v), Me(v)) \in RequestRow
      BY <2>2 DEF RequestRow
    <2>4. db'[Asked(Other(v), Me(v))] # None
      BY <1>8, <1>16, <2>1, <2>3 DEF Took
    <2> QED
      BY <1>10, <1>11, <1>16, <2>1, <2>4 DEF Took
  <1> QED
    BY <1>5, <1>14, <1>15, <1>16 DEF Agreed, Taken

\* The end of a block or a removal: it waits for whoever holds a request that is
\* there, and remembers what it ends until it is committed.
LEMMA EndsAgreed ==
    ASSUME Agreed, Typed, IInv, NEW w \in Thread, DeleteRequests(w)
    PROVE  Agreed'
  <1> DEFINE both == {<<Me(w), Other(w)>>, <<Other(w), Me(w)>>}
  <1>1. /\ pc[w] = "requests" /\ db' = db /\ WaitsFor(w) = {}
        /\ Stage(w, Targets(w), None) /\ Goto(w, "commit")
        /\ consent' = consent \ both /\ job' = [job EXCEPT ![w].had = consent \cap both]
        /\ job[w].call \in Call
    BY DEF DeleteRequests, EndConsent, Stage, IInv, CallOK
  <1>2. Alone(w) /\ job[w] \in Job /\ Ending(w)
    <2>1. LocalsOK(w)
      BY DEF Typed, Locals
    <2>2. Ending(w)
      BY <1>1, <2>1 DEF LocalsOK, Placed
    <2> QED
      BY <2>1, <2>2, LevelTurns DEF LevelStep, Typed, LocalsOK
  <1>3. job'[w].had = consent \cap both /\ job'[w].call = job[w].call
    BY <1>1, <1>2 DEF IInv, Shapes, Job
  <1>4. /\ pc'[w] = "commit" /\ DOMAIN draft'[w] = DOMAIN draft[w] \cup Targets(w)
        /\ Op(w)' = Op(w) /\ Me(w)' = Me(w) /\ Other(w)' = Other(w)
    BY <1>1, <1>3, StageOpen
  <1>5. Targets(w) = {r \in Requests(w) : db[r] # None}
    BY <1>1 DEF Targets
  <1>6. \A v \in Thread \ {w} : Targets(w) \cap DOMAIN draft[v] = {}
    BY <1>1 DEF WaitsFor
  <1>7. \A p \in both : /\ Ends(w, p)'
                        /\ Asked(p[1], p[2]) \in Requests(w)
    BY <1>2, <1>4 DEF Ends, Ending, Requests
  <1>8. ASSUME NEW v \in Thread, v # w
        PROVE  /\ pc'[v] = pc[v] /\ job'[v] = job[v] /\ draft'[v] = draft[v]
               /\ Op(v)' = Op(v) /\ Me(v)' = Me(v) /\ Other(v)' = Other(v)
               /\ \A p \in Pair : Ends(v, p) => Ends(v, p)'
    BY <1>2, <1>8 DEF Alone, Op, Me, Other, Ends, Ending
  <1>9. \A p \in Pair : ~ Ends(w, p)
    BY <1>1 DEF Ends
  <1>10. Grounds'
    <2> SUFFICES ASSUME NEW p \in Pair, CanCommunicate(p[1], p[2])', p \notin consent'
                 PROVE  \E v \in Thread : Ends(v, p)' /\ p \in job'[v].had
      BY DEF Grounds
    <2>1. CanCommunicate(p[1], p[2])
      BY <1>1 DEF CanCommunicate
    <2>2. CASE p \in consent
      <3>1. p \in both /\ p \in job'[w].had
        BY <1>1, <1>3, <2>2
      <3> QED
        BY <1>7, <3>1
    <2>3. CASE p \notin consent
      <3>1. PICK v \in Thread : Ends(v, p) /\ p \in job[v].had
        BY <2>1, <2>3 DEF Agreed, Grounds
      <3> QED
        BY <1>8, <1>9, <3>1
    <2> QED
      BY <2>2, <2>3
  <1>11. Requested'
    <2> SUFFICES ASSUME NEW p \in Pair, db'[Asked(p[1], p[2])] # None, p \notin consent'
                 PROVE  \E v \in Thread : /\ Ends(v, p)' /\ p \in job'[v].had
                                          /\ Asked(p[1], p[2]) \in DOMAIN draft'[v]
      BY DEF Requested
    <2>1. db[Asked(p[1], p[2])] # None
      BY <1>1
    <2>2. CASE p \in consent
      <3>1. p \in both /\ p \in job'[w].had
        BY <1>1, <1>3, <2>2
      <3>2. Asked(p[1], p[2]) \in DOMAIN draft'[w]
        BY <1>4, <1>5, <1>7, <2>1, <3>1
      <3> QED
        BY <1>7, <3>1, <3>2
    <2>3. CASE p \notin consent
      <3>1. PICK v \in Thread : /\ Ends(v, p) /\ p \in job[v].had
                                /\ Asked(p[1], p[2]) \in DOMAIN draft[v]
        BY <2>1, <2>3 DEF Agreed, Requested
      <3> QED
        BY <1>8, <1>9, <3>1
    <2> QED
      BY <2>2, <2>3
  <1>12. ASSUME NEW v \in Thread, Accepting(v)' PROVE Took(v)'
    <2>1. v # w
      BY <1>2, <1>4, <1>12 DEF Accepting, Ending
    <2>2. Took(v)
      BY <1>8, <1>12, <2>1 DEF Agreed, Taken, Accepting, Ending
    <2>3. <<Other(v), Me(v)>> \notin both
      <3>1. ASSUME <<Other(v), Me(v)>> \in both PROVE Asked(Other(v), Me(v)) \in Targets(w)
        BY <1>5, <2>2, <3>1 DEF Took, Requests
      <3> QED
        BY <1>6, <2>1, <2>2, <3>1 DEF Took
    <2> QED
      BY <1>1, <1>8, <2>1, <2>2, <2>3 DEF Took
  <1> QED
    BY <1>10, <1>11, <1>12 DEF Agreed, Taken

\* A statement of its own changes no level to a tier that was none, and a request
\* only to one that its sender now stands by.
LEMMA OwnAgreed ==
    ASSUME Agreed, Typed, IInv, NEW w \in Thread,
           Put(w) \/ Decline(w) \/ Withdraw(w) \/ SetTier(w) \/ Unblock(w)
    PROVE  Agreed'
  <1>1. Alone(w) /\ LocalsOK(w) /\ pc[w] # "commit" /\ pc[w] # "idle" /\ job[w].call \in Call
    BY StepTurns DEF Typed, Locals, Step, RequestStep, RefuseStep, LevelStep, RemoveStep,
       Put, Decline, Withdraw, SetTier, Unblock, IInv, CallOK
  <1>2. ~ Accepting(w)'
    <2>1. \A label : Goto(w, label) => pc'[w] = label
      BY GotoAlone
    <2> QED
      BY <2>1, ReturnAlone DEF Put, Decline, Withdraw, SetTier, Unblock, Accepting
  <1>3. \A r \in Row : db'[r] # db[r] => r \in Targets(w)
    BY DEF Put, Decline, Withdraw, SetTier, Unblock, Execute
  <1>4. WaitsFor(w) = {}
    BY DEF Put, Decline, Withdraw, SetTier, Unblock, Execute
  <1>5. \A v \in Thread \ {w} : Targets(w) \cap DOMAIN draft[v] = {}
    BY <1>4 DEF WaitsFor
  <1>6. \A v \in Thread \ {w} : \A r \in DOMAIN draft[v] : r \in RequestRow => db'[r] = db[r]
    BY <1>3, <1>5, RowsApart
  <1>7. \A p \in Pair : CanCommunicate(p[1], p[2])' => CanCommunicate(p[1], p[2])
    <2>1. ASSUME NEW r \in ContactRow, db'[r] \in Tier PROVE db[r] \in Tier
      <3>1. CASE r \notin Targets(w)
        BY <1>3, <2>1, <3>1, RowsApart
      <3>2. CASE r \in Targets(w)
        <4>1. r \notin RequestRow /\ Asked(Other(w), Me(w)) \in RequestRow
              /\ Asked(Me(w), Other(w)) \in RequestRow
          BY <1>1, AskedRows DEF ContactRow, RequestRow, Contact, Asked
        <4>2. pc[w] \notin {"put", "decline", "withdraw"}
          BY <3>2, <4>1, TargetsOf
        <4>3. CASE SetTier(w)
          BY <3>2, <4>3, TargetsOf DEF SetTier
        <4>4. CASE Unblock(w)
          <5>1. db'[r] = None
            BY <3>2, <4>4, RowsApart DEF Unblock, Execute
          <5> QED
            BY <2>1, <5>1, ContactsAssumption DEF Tier, Level
        <4> QED
          BY <4>2, <4>3, <4>4 DEF Put, Decline, Withdraw
      <3> QED
        BY <3>1, <3>2
    <2> QED
      BY <2>1, PairRows DEF CanCommunicate
  <1>8. \A p \in Pair : db'[Asked(p[1], p[2])] # None =>
                            db[Asked(p[1], p[2])] # None \/ p \in consent'
    <2> SUFFICES ASSUME NEW p \in Pair, db'[Asked(p[1], p[2])] # None,
                        db[Asked(p[1], p[2])] = None
                 PROVE  p \in consent'
      OBVIOUS
    <2> DEFINE r == Asked(p[1], p[2])
    <2>1. r \in Row /\ r \in RequestRow
      BY PairRows DEF Row
    <2>2. r \in Targets(w)
      BY <1>3, <2>1
    <2>3. ~ Decline(w) /\ ~ Withdraw(w)
      BY <2>2 DEF Decline, Withdraw, Targets, Live
    <2>4. Contact(Me(w), Other(w)) \notin RequestRow
      BY DEF RequestRow, Contact, Asked
    <2>5. ~ SetTier(w) /\ ~ Unblock(w)
      BY <2>1, <2>2, <2>4, TargetsOf DEF SetTier, Unblock
    <2>6. Put(w) /\ r = Asked(Me(w), Other(w))
      BY <2>2, <2>3, <2>5, TargetsOf DEF Put
    <2>7. p = <<Me(w), Other(w)>>
      BY <2>6 DEF Asked, Pair
    <2> QED
      BY <2>6, <2>7 DEF Put
  <1>9. \A p \in consent \ consent' :
            /\ ~ CanCommunicate(p[1], p[2])' /\ db'[Asked(p[1], p[2])] = None
            /\ \A v \in Thread \ {w} : Asked(p[1], p[2]) \notin DOMAIN draft[v]
    <2> SUFFICES ASSUME NEW p \in consent, p \notin consent'
                 PROVE  /\ ~ CanCommunicate(p[1], p[2])' /\ db'[Asked(p[1], p[2])] = None
                        /\ \A v \in Thread \ {w} : Asked(p[1], p[2]) \notin DOMAIN draft[v]
      OBVIOUS
    <2>1. Withdraw(w)
      BY DEF Put, Decline, SetTier, Unblock, history
    <2>2. /\ pc[w] = "withdraw" /\ Targets(w) # {} /\ ~ CanCommunicate(Me(w), Other(w))
          /\ p = <<Me(w), Other(w)>>
          /\ db' = [r \in Row |-> IF r \in Targets(w) THEN None ELSE db[r]]
      BY <2>1 DEF Withdraw, Execute
    <2>3. Targets(w) = {Asked(p[1], p[2])}
      BY <2>2 DEF Targets
    <2>4. p \in Pair /\ Asked(p[1], p[2]) \in Row
      BY PairRows DEF Typed, Row
    <2>5. db'[Asked(p[1], p[2])] = None
      BY <2>2, <2>3, <2>4
    <2>6. ~ CanCommunicate(p[1], p[2])'
      BY <1>7, <2>2, <2>4
    <2> QED
      BY <1>5, <2>3, <2>5, <2>6
  <1> QED
    BY <1>1, <1>2, <1>6, <1>7, <1>8, <1>9, AgreedKept

LEMMA AgreedInit == Init => Agreed
  <1> SUFFICES ASSUME Init PROVE Agreed
    OBVIOUS
  <1>1. Grounds
    BY DEF Init, Grounds, CanCommunicate
  <1>2. Requested
    BY DEF Init, Requested
  <1>3. Taken
    BY DEF Init, Taken, Accepting
  <1> QED
    BY <1>1, <1>2, <1>3 DEF Agreed

LEMMA AgreedStep ==
    ASSUME Agreed, Typed, IInv, NEW w \in Thread, Step(w) \/ Fault(w) \/ LoseCommit(w)
    PROVE  Agreed'
  <1>1. Alone(w) /\ LocalsOK(w)
    BY StepTurns DEF Typed, Locals
  <1>2. CASE Take(w) \/ WriteAllies(w) \/ DeleteRequests(w) \/ Commit(w)
    BY <1>2, TakeAgreed, AlliesAgreed, EndsAgreed, CommitAgreed
  <1>3. CASE Put(w) \/ Decline(w) \/ Withdraw(w) \/ SetTier(w) \/ Unblock(w)
    BY <1>3, OwnAgreed
  <1>4. CASE WriteImposter(w) \/ DeleteOtherRow(w) \/ DeleteConnected(w)
    <2>1. db' = db /\ consent' = consent /\ pc[w] # "commit"
      BY <1>4 DEF WriteImposter, DeleteOtherRow, DeleteConnected, history
    <2>2. ~ Accepting(w)'
      <3>1. \A label : Goto(w, label) => pc'[w] = label
        BY GotoAlone
      <3> QED
        BY <1>4, <3>1, ReturnAlone DEF WriteImposter, DeleteOtherRow, DeleteConnected, Accepting
    <2> QED
      BY <1>1, <2>1, <2>2, AgreedQuietly
  <1>5. CASE ~ (\/ Take(w) \/ WriteAllies(w) \/ DeleteRequests(w) \/ Commit(w) \/ Put(w)
                \/ Decline(w) \/ Withdraw(w) \/ SetTier(w) \/ Unblock(w)
                \/ WriteImposter(w) \/ DeleteOtherRow(w) \/ DeleteConnected(w))
    <2>1. db' = db
      BY <1>5, TableSteps
    <2>2. pc'[w] \notin Open
      BY <1>1, <1>5, OpenSteps
    <2>3. ~ Accepting(w)'
      BY <2>2 DEF Accepting, Open
    <2>4. consent \subseteq consent' /\ (pc[w] = "commit" => job[w].had \subseteq consent')
      <3>1. CASE BreakDeadlock(w) \/ Fault(w) \/ LoseCommit(w)
        BY <3>1 DEF BreakDeadlock, Fault, LoseCommit, Abort
      <3>2. CASE RequestStep(w) \/ ReadLevel(w) \/ Look(w) \/ Publish(w)
        BY <1>5, <3>2 DEF RequestStep, CheckMine, CheckBoth, CheckPending, CheckDaily,
           CheckBlocked, ReadOurs, Check, ReadTheirs, ReadLevel, Look, Publish, history
      <3> QED
        BY <1>5, <3>1, <3>2 DEF Step, AcceptStep, RefuseStep, LevelStep, RemoveStep
    <2> QED
      BY <1>1, <2>1, <2>3, <2>4, AgreedQuietly
  <1> QED
    BY <1>2, <1>3, <1>4, <1>5

LEMMA AgreedNext == Agreed /\ Typed /\ IInv /\ [Next]_vars => Agreed'
  <1> SUFFICES ASSUME Agreed, Typed, IInv, [Next]_vars PROVE Agreed'
    OBVIOUS
  <1>1. ASSUME NEW w \in Thread, NEW c \in Call, Begin(w, c) PROVE Agreed'
    <2>1. /\ Alone(w) /\ db' = db /\ consent' = consent
          /\ pc[w] = "idle" /\ pc'[w] = First(c)
          /\ c.op \in {"request", "accept", "refuse", "setLevel", "remove"}
      BY <1>1, BeginAlone, CallTyped
    <2>2. ~ Accepting(w)'
      BY <2>1 DEF Accepting, First
    <2> QED
      BY <2>1, <2>2, AgreedQuietly
  <1>2. ASSUME NEW w \in Thread, Step(w) \/ Fault(w) \/ LoseCommit(w) PROVE Agreed'
    BY <1>2, AgreedStep
  <1>3. CASE UNCHANGED <<db, draft, pc, job, consent>>
    BY <1>3 DEF Agreed, Grounds, Requested, Taken, Took, Accepting, Ending, Ends,
       CanCommunicate, Op, Me, Other
  <1> QED
    BY <1>1, <1>2, <1>3 DEF Next, Tick, vars, history

\* Nobody can talk to somebody who has not asked for them or accepted them, or
\* has taken it back, whatever calls interleave and whatever fails.
THEOREM OnlyByConsent == Spec => []Consent
  <1>1. Agreed => Consent
    BY DEF Agreed, Grounds, Consent, Ends, Ending
  <1>2. IInv /\ [Next]_vars => IInv'
    BY NextKeeps DEF Kept
  <1> QED
    BY <1>1, <1>2, IInvInit, TypedInit, TypedNext, AgreedInit, AgreedNext, PTL DEF Spec
-----------------------------------------------------------------------------
(* The limit on requests waiting *)

\* The calls of a that have passed the limit and may still store a request.
Past == {"daily", "blocked", "theirs", "ours", "put", "take"}
Through(a) == {w \in Thread : pc[w] \in Past /\ Op(w) = "request" /\ Me(w) = a}

\* No two calls in progress have to do with a.
Sole(a) == \A v, w \in Thread :
               (/\ pc[v] # "idle" /\ a \in {Me(v), Other(v)}
                /\ pc[w] # "idle" /\ a \in {Me(w), Other(w)}) => v = w

Counts(a) ==
    LET P == Cardinality(PendingFrom(a))
        T == Cardinality(Through(a))
    IN /\ P + T < MaxPending + Cardinality(Thread) \/ (T = 0 /\ P =< MaxPending)
       /\ a \notin raced => P + T =< MaxPending

Within == \A a \in User : Counts(a) /\ (a \notin raced => Sole(a))

LEMMA Counted ==
    ASSUME NEW a
    PROVE  /\ IsFiniteSet(PendingFrom(a)) /\ Cardinality(PendingFrom(a)) \in Nat
           /\ IsFiniteSet(Through(a)) /\ Cardinality(Through(a)) \in Nat
           /\ Cardinality(Through(a)) =< Cardinality(Thread) /\ Cardinality(Thread) \in Nat
           /\ MaxPending \in Nat
  <1>1. PendingFrom(a) \in SUBSET User /\ Through(a) \in SUBSET Thread
    BY DEF PendingFrom, Through
  <1>2. IsFiniteSet(User) /\ IsFiniteSet(Thread) /\ MaxPending \in Nat
    BY LimitAssumption, ContactsAssumption
  <1>3. IsFiniteSet(PendingFrom(a))
    BY <1>1, <1>2, FS_Subset
  <1>4. IsFiniteSet(Through(a)) /\ Cardinality(Through(a)) =< Cardinality(Thread)
    BY <1>1, <1>2, FS_Subset
  <1> QED
    BY <1>2, <1>3, <1>4, FS_CardinalityType

\* What shrinks, counted.
LEMMA Fewer ==
    ASSUME NEW S, IsFiniteSet(S), NEW T, T \subseteq S
    PROVE  Cardinality(T) \in Nat /\ Cardinality(S) \in Nat /\ Cardinality(T) =< Cardinality(S)
  <1>1. T \in SUBSET S
    OBVIOUS
  <1>2. IsFiniteSet(T) /\ Cardinality(T) =< Cardinality(S)
    BY <1>1, FS_Subset
  <1> QED
    BY <1>2, FS_CardinalityType

LEMMA OneMore ==
    ASSUME NEW S, IsFiniteSet(S), NEW x, NEW T, T \subseteq S \cup {x}
    PROVE  Cardinality(T) \in Nat /\ Cardinality(S) \in Nat /\ Cardinality(T) =< Cardinality(S) + 1
  <1>1. IsFiniteSet(S \cup {x}) /\ Cardinality(S \cup {x}) =< Cardinality(S) + 1
        /\ Cardinality(S) \in Nat
    BY FS_AddElement, FS_CardinalityType
  <1>2. Cardinality(T) \in Nat /\ Cardinality(T) =< Cardinality(S \cup {x})
        /\ Cardinality(S \cup {x}) \in Nat
    BY <1>1, Fewer
  <1> QED
    BY <1>1, <1>2

\* The numbers of a step: of requests waiting and of calls past the limit, before
\* and after, among n threads and under the limit m.
LEMMA Room ==
    ASSUME NEW p \in Nat, NEW t \in Nat, NEW p1 \in Nat, NEW t1 \in Nat,
           NEW n \in Nat, NEW m \in Nat,
           p + t < m + n \/ (t = 0 /\ p =< m), t1 =< n,
           (p1 =< p /\ t1 =< t) \/ (p1 =< p + 1 /\ t1 =< t - 1) \/ (p1 =< p /\ p < m)
    PROVE  p1 + t1 < m + n \/ (t1 = 0 /\ p1 =< m)
  OBVIOUS

LEMMA RoomAlone ==
    ASSUME NEW p \in Nat, NEW t \in Nat, NEW p1 \in Nat, NEW t1 \in Nat, NEW m \in Nat,
           p + t =< m,
           \/ p1 =< p /\ t1 =< t
           \/ p1 =< p + 1 /\ t1 =< t - 1
           \/ p1 =< p /\ p < m /\ t1 =< 1
    PROVE  p1 + t1 =< m
  OBVIOUS

\* The requests that wait are those that did, and the one a statement stores.
LEMMA PendingGrows ==
    ASSUME IInv, Typed, NEW w \in Thread, Step(w) \/ Fault(w) \/ LoseCommit(w), NEW a \in User
    PROVE  /\ Put(w) /\ a = Me(w) => PendingFrom(a)' \subseteq PendingFrom(a) \cup {Other(w)}
           /\ ~ (Put(w) /\ a = Me(w)) => PendingFrom(a)' \subseteq PendingFrom(a)
  <1>1. clock' = clock
    BY StepTurns DEF Typed
  <1>2. ASSUME NEW b \in User \ {a}, Live(db'[Asked(a, b)], clock), ~ Live(db[Asked(a, b)], clock)
        PROVE  Put(w) /\ a = Me(w) /\ b = Other(w)
    <2> DEFINE r == Asked(a, b)
    <2>1. <<a, b>> \in Pair
      BY DEF Pair
    <2>2. r \in RequestRow /\ r \in Row /\ r \notin ContactRow
      BY <2>1, RowsApart DEF RequestRow
    <2>3. db'[r] # db[r] /\ db'[r] # None /\ db'[r].declined = None
      BY <1>2 DEF Live
    <2>4. job[w].now \in Nat /\ OpenOK(w)
      BY DEF Typed, Locals, LocalsOK, Job
    <2>5. ~ Commit(w)
      <3>1. ASSUME Commit(w) PROVE FALSE
        <4>1. /\ pc[w] = "commit"
              /\ db' = [x \in Row |-> IF x \in DOMAIN draft[w] THEN draft[w][x] ELSE db[x]]
          BY <3>1 DEF Commit
        <4>2. r \in DOMAIN draft[w] /\ draft[w][r] # None
          BY <2>2, <2>3, <4>1
        <4> QED
          BY <2>2, <2>4, <4>1, <4>2 DEF OpenOK, Open
      <3> QED
        BY <3>1
    <2>6. ~ Decline(w)
      <3>1. ASSUME Decline(w) PROVE FALSE
        <4>1. /\ pc[w] = "decline"
              /\ db' = [x \in Row |-> IF x \in Targets(w) THEN [db[x] EXCEPT !.declined = job[w].now]
                                                          ELSE db[x]]
          BY <3>1 DEF Decline
        <4>2. r \in Targets(w) /\ db'[r] = [db[r] EXCEPT !.declined = job[w].now]
          BY <2>2, <2>3, <4>1
        <4>3. db[r] \in Request
          BY <2>2, <4>1, <4>2 DEF Typed, AreTables, Targets, Live
        <4> QED
          BY <2>3, <2>4, <4>2, <4>3, ContactsAssumption DEF Request
      <3> QED
        BY <3>1
    <2>7. ~ Withdraw(w)
      BY <2>2, <2>3 DEF Withdraw, Execute
    <2>8. ~ SetTier(w) /\ ~ Unblock(w)
      <3>1. pc[w] \in {"tier", "unblock"} => Targets(w) \subseteq {Contact(Me(w), Other(w))}
        BY TargetsOf
      <3>2. Contact(Me(w), Other(w)) # r
        BY RowsApart
      <3> QED
        BY <2>2, <2>3, <3>1, <3>2 DEF SetTier, Unblock, Execute
    <2>9. Put(w)
      BY <2>3, <2>5, <2>6, <2>7, <2>8, TableSteps
    <2>10. pc[w] = "put" /\ r \in Targets(w)
      BY <2>2, <2>3, <2>9 DEF Put, Execute
    <2>11. r = Asked(Me(w), Other(w))
      BY <2>10, TargetsOf
    <2> QED
      BY <2>9, <2>11 DEF Asked
  <1> QED
    BY <1>1, <1>2 DEF PendingFrom

\* A call goes past the limit at one place only.
LEMMA ThroughGrows ==
    ASSUME IInv, Typed, NEW w \in Thread, Step(w) \/ Fault(w) \/ LoseCommit(w), NEW a \in User
    PROVE  /\ \A v \in Thread : pc'[v] # "idle" => /\ pc[v] # "idle"
                                                   /\ Me(v)' = Me(v) /\ Other(v)' = Other(v)
           /\ Through(a)' \subseteq Through(a)
              \/ /\ a = Me(w) /\ Through(a)' \subseteq Through(a) \cup {w} /\ pc[w] # "idle"
                 /\ Cardinality(PendingFrom(a)) < MaxPending /\ ~ Put(w)
           /\ Put(w) /\ a = Me(w) => w \in Through(a) /\ Through(a)' \subseteq Through(a) \ {w}
  <1>1. Alone(w) /\ LocalsOK(w) /\ job[w] \in Job /\ pc[w] # "idle"
    <2>1. Alone(w) /\ LocalsOK(w)
      BY StepTurns DEF Typed, Locals
    <2>2. pc[w] # "idle"
      BY DEF Step, RequestStep, CheckMine, CheckBoth, CheckPending, CheckDaily, CheckBlocked,
         ReadOurs, Check, ReadTheirs, Put, AcceptStep, Take, WriteAllies, Commit, RefuseStep,
         Decline, Withdraw, LevelStep, WriteImposter, DeleteOtherRow, DeleteRequests, SetTier,
         RemoveStep, ReadLevel, Unblock, DeleteConnected, Look, Publish, BreakDeadlock,
         Deadlocked, Fault, LoseCommit, Abort, IInv, CallOK
    <2> QED
      BY <2>1, <2>2 DEF LocalsOK
  <1>2. pc'[w] # "idle" => Op(w)' = Op(w) /\ Me(w)' = Me(w) /\ Other(w)' = Other(w)
    <2>1. CASE Return(w)
      BY <2>1, ReturnAlone
    <2>2. CASE ~ Return(w)
      <3>1. job'[w].call = job[w].call
        BY <1>1, <2>2, StepTurns DEF Typed, Turns, Job
      <3> QED
        BY <3>1 DEF Op, Me, Other
    <2> QED
      BY <2>1, <2>2
  <1>3. ASSUME NEW v \in Thread, v # w
        PROVE  /\ pc'[v] = pc[v] /\ Op(v)' = Op(v) /\ Me(v)' = Me(v) /\ Other(v)' = Other(v)
    BY <1>1, <1>3 DEF Alone, Op, Me, Other
  <1>4. ASSUME w \in Through(a)', w \notin Through(a)
        PROVE  CheckPending(w) /\ a = Me(w) /\ Cardinality(PendingFrom(a)) < MaxPending
    <2>1. pc'[w] \in Past /\ pc[w] \notin Past /\ Op(w) = "request" /\ Me(w) = a
      BY <1>2, <1>4 DEF Through, Past
    <2>2. ~ Return(w) /\ \A label : Goto(w, label) => label \in Past
      BY <2>1, ReturnAlone, GotoAlone DEF Past
    <2>3. CheckPending(w)
      <3>1. ~ (\/ Commit(w) \/ RefuseStep(w) \/ LevelStep(w) \/ RemoveStep(w) \/ WriteAllies(w))
        BY <2>2 DEF Commit, RefuseStep, Decline, Withdraw, LevelStep, WriteImposter,
           DeleteOtherRow, DeleteRequests, SetTier, RemoveStep, ReadLevel, Unblock,
           DeleteConnected, WriteAllies, InsertAlly, Past
      <3>2. ~ (\/ Take(w) \/ BreakDeadlock(w) \/ Fault(w) \/ LoseCommit(w))
        BY <2>1, <2>2 DEF Take, BreakDeadlock, Fault, LoseCommit, Abort, Past
      <3>3. ~ (\/ Look(w) \/ Publish(w))
        BY <2>1, <2>2 DEF Look, Publish, Past
      <3> QED
        BY <2>1, <2>2, <3>1, <3>2, <3>3 DEF Step, AcceptStep, RequestStep, CheckMine, CheckBoth,
           CheckDaily, CheckBlocked, ReadOurs, Check, ReadTheirs, Put, Past
    <2>4. ~ (Cardinality(PendingFrom(Me(w))) >= MaxPending)
      BY <2>2, <2>3 DEF CheckPending, Check
    <2> QED
      BY <2>1, <2>3, <2>4, Counted
  <1>5. CheckPending(w) => ~ Put(w)
    BY DEF CheckPending, Check, Put
  <1>6. \A v \in Thread \ {w} : v \in Through(a)' <=> v \in Through(a)
    BY <1>3 DEF Through
  <1>7. \/ Through(a)' \subseteq Through(a)
        \/ /\ a = Me(w) /\ Through(a)' \subseteq Through(a) \cup {w} /\ pc[w] # "idle"
           /\ Cardinality(PendingFrom(a)) < MaxPending /\ ~ Put(w)
    <2>1. Through(a)' \subseteq Thread
      BY DEF Through
    <2> QED
      BY <1>1, <1>4, <1>5, <1>6, <2>1
  <1>8. Put(w) /\ a = Me(w) => w \in Through(a) /\ Through(a)' \subseteq Through(a) \ {w}
    <2> SUFFICES ASSUME Put(w), a = Me(w)
                 PROVE  w \in Through(a) /\ Through(a)' \subseteq Through(a) \ {w}
      OBVIOUS
    <2>1. pc[w] = "put" /\ pc'[w] = "tell"
      BY GotoAlone DEF Put
    <2>2. w \in Through(a)
      BY <1>1, <2>1 DEF LocalsOK, Placed, Asking, Through, Past
    <2>3. w \notin Through(a)' /\ Through(a)' \subseteq Thread
      BY <2>1 DEF Through, Past
    <2> QED
      BY <1>6, <2>2, <2>3
  <1> QED
    BY <1>1, <1>2, <1>3, <1>7, <1>8

LEMMA WithinStep ==
    ASSUME Within, IInv, Typed, NEW w \in Thread, Step(w) \/ Fault(w) \/ LoseCommit(w)
    PROVE  Within'
  <1> SUFFICES ASSUME NEW a \in User
               PROVE  Counts(a)' /\ (a \notin raced' => Sole(a)')
    BY DEF Within
  <1> DEFINE P == Cardinality(PendingFrom(a))
             T == Cardinality(Through(a))
             N == Cardinality(Thread)
  <1>1. raced' = raced
    BY StepHistory
  <1>2. \A v \in Thread : pc'[v] # "idle" => /\ pc[v] # "idle"
                                            /\ Me(v)' = Me(v) /\ Other(v)' = Other(v)
    BY ThroughGrows
  <1>3. a \notin raced => Sole(a) /\ Sole(a)'
    <2>1. a \notin raced => Sole(a)
      BY DEF Within
    <2>2. Sole(a) => Sole(a)'
      BY <1>2 DEF Sole
    <2> QED
      BY <2>1, <2>2
  <1>4. /\ P \in Nat /\ T \in Nat /\ N \in Nat /\ MaxPending \in Nat
        /\ P' \in Nat /\ T' \in Nat /\ T' =< N
        /\ IsFiniteSet(PendingFrom(a)) /\ IsFiniteSet(Through(a))
    <2>1. IsFiniteSet(PendingFrom(a)') /\ IsFiniteSet(Through(a)') /\ T' =< N
      <3>1. PendingFrom(a)' \subseteq User /\ Through(a)' \subseteq Thread
        BY DEF PendingFrom, Through
      <3> QED
        BY <3>1, LimitAssumption, FS_Subset
    <2>2. P' \in Nat /\ T' \in Nat
      BY <2>1, FS_CardinalityType
    <2> QED
      BY <2>1, <2>2, Counted
  <1>5. /\ P + T < MaxPending + N \/ (T = 0 /\ P =< MaxPending)
        /\ a \notin raced => P + T =< MaxPending
    BY DEF Within, Counts
  <1>6. CASE Put(w) /\ a = Me(w)
    <2>1. P' =< P + 1
      BY <1>4, <1>6, PendingGrows, OneMore
    <2>2. w \in Through(a) /\ Through(a)' \subseteq Through(a) \ {w}
      BY <1>6, ThroughGrows
    <2>3. T' =< T - 1
      <3>1. IsFiniteSet(Through(a) \ {w}) /\ Cardinality(Through(a) \ {w}) = T - 1
        BY <1>4, <2>2, FS_RemoveElement
      <3> QED
        BY <2>2, <3>1, Fewer
    <2>4. /\ P' + T' < MaxPending + N \/ (T' = 0 /\ P' =< MaxPending)
          /\ a \notin raced => P' + T' =< MaxPending
      BY <1>4, <1>5, <2>1, <2>3, Room, RoomAlone
    <2> QED
      BY <1>1, <1>3, <2>4 DEF Counts
  <1>7. CASE ~ (Put(w) /\ a = Me(w)) /\ Through(a)' \subseteq Through(a)
    <2>1. P' =< P /\ T' =< T
      BY <1>4, <1>7, PendingGrows, Fewer
    <2>2. /\ P' + T' < MaxPending + N \/ (T' = 0 /\ P' =< MaxPending)
          /\ a \notin raced => P' + T' =< MaxPending
      BY <1>4, <1>5, <2>1, Room, RoomAlone
    <2> QED
      BY <1>1, <1>3, <2>2 DEF Counts
  <1>8. CASE ~ (Put(w) /\ a = Me(w)) /\ a = Me(w) /\ Through(a)' \subseteq Through(a) \cup {w}
             /\ pc[w] # "idle" /\ P < MaxPending
    <2>1. P' =< P
      BY <1>4, <1>8, PendingGrows, Fewer
    <2>2. a \notin raced => T' =< 1
      <3> SUFFICES ASSUME a \notin raced PROVE T' =< 1
        OBVIOUS
      <3>1. \A v \in Through(a) : v = w
        BY <1>3, <1>8 DEF Sole, Through, Past
      <3>2. Through(a)' \subseteq {w}
        BY <1>8, <3>1
      <3> QED
        <4>1. IsFiniteSet({w}) /\ Cardinality({w}) = 1
          BY FS_Singleton
        <4> QED
          BY <3>2, <4>1, Fewer
    <2>3. /\ P' + T' < MaxPending + N \/ (T' = 0 /\ P' =< MaxPending)
          /\ a \notin raced => P' + T' =< MaxPending
      BY <1>4, <1>5, <1>8, <2>1, <2>2, Room, RoomAlone
    <2> QED
      BY <1>1, <1>3, <2>3 DEF Counts
  <1> QED
    BY <1>6, <1>7, <1>8, ThroughGrows

LEMMA WithinBegin ==
    ASSUME Within, IInv, Typed, NEW w \in Thread, NEW c \in Call, Begin(w, c)
    PROVE  Within'
  <1>1. /\ Alone(w) /\ db' = db /\ clock' = clock /\ pc[w] = "idle" /\ pc'[w] = First(c)
        /\ job'[w] = [call |-> c, now |-> clock, tell |-> <<>>, had |-> {}]
    BY BeginAlone
  <1>2. raced' = raced \cup {u \in {c.me, c.other} :
                               \E v \in Thread : pc[v] # "idle" /\ u \in {Me(v), Other(v)}}
    BY DEF Begin
  <1>3. ASSUME NEW v \in Thread, v # w
        PROVE  pc'[v] = pc[v] /\ Op(v)' = Op(v) /\ Me(v)' = Me(v) /\ Other(v)' = Other(v)
    BY <1>1, <1>3 DEF Alone, Op, Me, Other
  <1>4. Op(w)' = c.op /\ Me(w)' = c.me /\ Other(w)' = c.other
    BY <1>1 DEF Op, Me, Other
  <1>5. ~ (pc'[w] \in Past /\ Op(w)' = "request") /\ pc[w] \notin Past
    BY <1>1, <1>4, CallTyped DEF First, Past
  <1>6. ASSUME NEW a \in User
        PROVE  Counts(a)' /\ (a \notin raced' => Sole(a)')
    <2>1. PendingFrom(a)' = PendingFrom(a)
      BY <1>1 DEF PendingFrom
    <2>2. Through(a)' = Through(a)
      BY <1>3, <1>5 DEF Through
    <2>3. Counts(a) /\ (a \notin raced' => a \notin raced)
      BY <1>2 DEF Within
    <2>4. Counts(a)'
      BY <2>1, <2>2, <2>3 DEF Counts
    <2>5. ASSUME a \notin raced' PROVE Sole(a)'
      <3>1. Sole(a)
        BY <2>3, <2>5 DEF Within
      <3>2. a \in {c.me, c.other} => \A v \in Thread : pc[v] # "idle" => a \notin {Me(v), Other(v)}
        BY <1>2, <2>5
      <3> QED
        BY <1>1, <1>3, <1>4, <3>1, <3>2 DEF Sole
    <2> QED
      BY <2>4, <2>5
  <1> QED
    BY <1>6 DEF Within

LEMMA WithinInit == Init => Within
  <1> SUFFICES ASSUME Init, NEW a \in User PROVE Counts(a) /\ Sole(a)
    BY DEF Within
  <1>1. Through(a) = {}
    BY DEF Init, Through, Past
  <1>2. Cardinality(Through(a)) = 0
    BY <1>1, FS_EmptySet
  <1>3. Cardinality(PendingFrom(a)) =< MaxPending
    BY LimitAssumption DEF Init, PendingFrom
  <1>4. Counts(a)
    BY <1>2, <1>3, Counted DEF Counts
  <1>5. Sole(a)
    BY DEF Init, Sole
  <1> QED
    BY <1>4, <1>5

LEMMA WithinNext == Within /\ Typed /\ IInv /\ [Next]_vars => Within'
  <1> SUFFICES ASSUME Within, Typed, IInv, [Next]_vars PROVE Within'
    OBVIOUS
  <1>1. CASE Tick
    <2>1. clock' = clock + 1 /\ UNCHANGED <<db, pc, job, raced>>
      BY <1>1 DEF Tick, history
    <2>2. ASSUME NEW a \in User PROVE PendingFrom(a)' \subseteq PendingFrom(a)
      <3>1. ASSUME NEW b \in User \ {a}, Live(db[Asked(a, b)], clock + 1)
            PROVE  Live(db[Asked(a, b)], clock)
        <4>1. <<a, b>> \in Pair
          BY DEF Pair
        <4>2. db[Asked(a, b)] \in Request /\ clock \in Nat /\ TTL \in Nat
          BY <3>1, <4>1, ContactsAssumption DEF Live, Typed, Locals, AreTables, RequestRow
        <4> QED
          BY <3>1, <4>2 DEF Live, Request
      <3> QED
        BY <2>1, <3>1 DEF PendingFrom
    <2>3. ASSUME NEW a \in User PROVE Counts(a)' /\ (a \notin raced' => Sole(a)')
      <3>1. Cardinality(PendingFrom(a)') =< Cardinality(PendingFrom(a))
            /\ Cardinality(PendingFrom(a)') \in Nat
        BY <2>2, Counted, Fewer
      <3>2. Through(a)' = Through(a) /\ (a \notin raced' => Sole(a)')
        BY <2>1 DEF Through, Sole, Within, Op, Me, Other
      <3> QED
        BY <2>1, <3>1, <3>2, Counted DEF Within, Counts
    <2> QED
      BY <2>3 DEF Within
  <1>2. CASE UNCHANGED vars
    <2>1. UNCHANGED <<db, clock, pc, job, raced>>
      BY <1>2 DEF vars
    <2>2. ASSUME NEW a \in User PROVE Counts(a)' /\ (a \notin raced' => Sole(a)')
      <3>1. PendingFrom(a)' = PendingFrom(a) /\ Through(a)' = Through(a)
        BY <2>1 DEF PendingFrom, Through, Op, Me
      <3>2. a \notin raced' => Sole(a)'
        BY <2>1 DEF Within, Sole, Me, Other
      <3> QED
        BY <2>1, <3>1, <3>2 DEF Within, Counts
    <2> QED
      BY <2>2 DEF Within
  <1> QED
    BY <1>1, <1>2, WithinStep, WithinBegin DEF Next

\* Nobody has more requests waiting than the limit, and the calls that race past it
\* together are no more than there are threads.
THEOREM LimitHolds == Spec => []PendingBounded
  <1>1. Within => PendingBounded
    <2> SUFFICES ASSUME Within, NEW a \in User
                 PROVE  \/ Cardinality(PendingFrom(a)) <= MaxPending
                        \/ /\ a \in raced
                           /\ Cardinality(PendingFrom(a)) < MaxPending + Cardinality(Thread)
      BY DEF PendingBounded
    <2>1. Counts(a)
      BY DEF Within
    <2> QED
      BY <2>1, Counted DEF Counts
  <1>2. IInv /\ [Next]_vars => IInv'
    BY NextKeeps DEF Kept
  <1> QED
    BY <1>1, <1>2, IInvInit, TypedInit, TypedNext, WithinInit, WithinNext, PTL DEF Spec
-----------------------------------------------------------------------------
(* What people are told of each other *)

\* The events of a call are for the two it is about.
PiecesOK(w) == pc[w] = "tell" =>
    \A k \in DOMAIN job[w].tell :
        \/ job[w].tell[k].to = Me(w) /\ job[w].tell[k].about = Other(w)
        \/ job[w].tell[k].to = Other(w) /\ job[w].tell[k].about = Me(w)

\* w is still to tell a of b.
Tells(w, a, b) ==
    /\ pc[w] = "tell"
    /\ \E k \in DOMAIN job[w].tell :
           /\ job[w].tell[k].to = a /\ job[w].tell[k].about = b
           /\ job[w].tell[k].level # "asked"

\* No two calls that concern one of them have overlapped.
Clear(a, b) == ~ {a, b} \subseteq raced

\* While they have not: who blocks somebody is in nobody's tiers to them, and no
\* request between the two waits.
Plain(a, b) == db[Contact(a, b)] = "imposter" =>
    /\ db[Contact(b, a)] \notin Tier
    /\ db[Asked(a, b)] = None /\ db[Asked(b, a)] = None

Mine(w) == Contact(Me(w), Other(w))
Theirs(w) == Contact(Other(w), Me(w))

\* The row will not be there once the transaction of w has committed.
Gone(w, r) == IF r \in DOMAIN draft[w] THEN draft[w][r] = None ELSE db[r] = None

\* What the statements so far have found out, or have written, still holds.
StageOK(w) ==
    /\ \/ pc[w] \in {"both", "pending", "daily", "blocked", "theirs", "ours", "put"}
       \/ pc[w] = "take" /\ Op(w) = "request"
       => db[Mine(w)] # "imposter"
    /\ \/ pc[w] \in {"theirs", "ours", "put"}
       \/ pc[w] = "take" /\ Op(w) = "request"
       => db[Theirs(w)] # "imposter"
    /\ pc[w] = "rows" => db[Mine(w)] \in Tier
    /\ pc[w] = "unrow" => DOMAIN draft[w] \subseteq {Mine(w)}
    /\ pc[w] \in {"requests", "commit"} /\ Ending(w) => Gone(w, Theirs(w))
    /\ pc[w] \in {"requests", "commit"} /\ Op(w) = "remove" => Gone(w, Mine(w))
    /\ pc[w] = "commit" /\ Op(w) = "setLevel" => \A r \in Requests(w) : Gone(w, r)
    /\ pc[w] = "tell" => \A k \in DOMAIN job[w].tell :
           job[w].tell[k].level \in
               {"asked", "unread", db[Contact(job[w].tell[k].to, job[w].tell[k].about)]}

Shown(w, a, b) == view[Contact(a, b)] = db[Contact(a, b)] \/ Tells(w, a, b)

\* What is known of a clear pair that w has a call about.
Known(w, a, b) ==
    /\ Plain(a, b) /\ Plain(b, a)
    /\ Shown(w, a, b) /\ Shown(w, b, a)
    /\ pc[w] # "idle" => StageOK(w)

LEMMA TellsNow ==
    ASSUME IInv, Typed, NEW w \in Thread, NEW news, Tell(w, news)
    PROVE  /\ job'[w].tell = news /\ job'[w].call = job[w].call
           /\ Me(w)' = Me(w) /\ Other(w)' = Other(w) /\ Op(w)' = Op(w)
  <1>1. job[w] \in Job
    BY DEF Typed, Locals, LocalsOK
  <1>2. job'[w] = [job[w] EXCEPT !.tell = news]
    BY TellAlone
  <1>3. job'[w].tell = news /\ job'[w].call = job[w].call
    BY <1>1, <1>2 DEF Job
  <1> QED
    BY <1>3 DEF Me, Other, Op

\* The events of the three transactions: one for each of the two.
LEMMA NewsShape ==
    ASSUME NEW w \in Thread, Op(w) \in {"accept", "request", "setLevel", "remove"}
    PROVE  /\ DOMAIN NewsOf(w) = {1, 2}
           /\ NewsOf(w)[1].to = Me(w) /\ NewsOf(w)[1].about = Other(w)
           /\ NewsOf(w)[2].to = Other(w) /\ NewsOf(w)[2].about = Me(w)
           /\ Op(w) \in {"accept", "request"} =>
                  NewsOf(w)[1].level = "unread" /\ NewsOf(w)[2].level = "unread"
           /\ Op(w) = "setLevel" =>
                  NewsOf(w)[1].level = "imposter" /\ NewsOf(w)[2].level = None
           /\ Op(w) = "remove" =>
                  NewsOf(w)[1].level = None /\ NewsOf(w)[2].level = None
  <1>1. ASSUME NEW x, NEW y
        PROVE  LET s == <<News(Me(w), Other(w), x), News(Other(w), Me(w), y)>>
               IN /\ DOMAIN s = {1, 2}
                  /\ s[1].to = Me(w) /\ s[1].about = Other(w) /\ s[1].level = x
                  /\ s[2].to = Other(w) /\ s[2].about = Me(w) /\ s[2].level = y
    BY DEF News
  <1>2. CASE Op(w) \in {"accept", "request"}
    <2>1. NewsOf(w) = <<News(Me(w), Other(w), "unread"), News(Other(w), Me(w), "unread")>>
      BY <1>2 DEF NewsOf
    <2> QED
      BY <1>1, <1>2, <2>1
  <1>3. CASE Op(w) = "setLevel"
    <2>1. NewsOf(w) = <<News(Me(w), Other(w), "imposter"), News(Other(w), Me(w), None)>>
      BY <1>3 DEF NewsOf
    <2> QED
      BY <1>1, <1>3, <2>1
  <1>4. CASE Op(w) = "remove"
    <2>1. NewsOf(w) = <<News(Me(w), Other(w), None), News(Other(w), Me(w), None)>>
      BY <1>4 DEF NewsOf
    <2> QED
      BY <1>1, <1>4, <2>1
  <1> QED
    BY <1>2, <1>3, <1>4

\* A single event.
LEMMA NewsAlone ==
    ASSUME NEW x, NEW y, NEW l
    PROVE  LET s == <<News(x, y, l)>>
           IN DOMAIN s = {1} /\ s[1].to = x /\ s[1].about = y /\ s[1].level = l
  BY DEF News

\* The level of the first event is read; the others wait.
LEMMA LooksAt ==
    ASSUME IInv, Typed, NEW w \in Thread, Look(w)
    PROVE  /\ pc'[w] = "tell" /\ 1 \in DOMAIN job[w].tell
           /\ DOMAIN job'[w].tell = DOMAIN job[w].tell
           /\ \A k \in DOMAIN job[w].tell :
                  /\ job'[w].tell[k].to = job[w].tell[k].to
                  /\ job'[w].tell[k].about = job[w].tell[k].about
                  /\ k # 1 => job'[w].tell[k].level = job[w].tell[k].level
           /\ job'[w].tell[1].level = db[Contact(job[w].tell[1].to, job[w].tell[1].about)]
           /\ Contact(job[w].tell[1].to, job[w].tell[1].about) \in ContactRow
           /\ Me(w)' = Me(w) /\ Other(w)' = Other(w) /\ Op(w)' = Op(w)
  <1> DEFINE tell == job[w].tell
             at == Contact(tell[1].to, tell[1].about)
             piece == [tell[1] EXCEPT !.level = db[at]]
             t == [tell EXCEPT ![1] = piece]
  <1>1. tell \in Seq(Piece) /\ tell # <<>> /\ job[w] \in Job /\ pc'[w] = "tell"
    BY DEF Typed, Locals, LocalsOK, Job, Look
  <1>2. 1 \in DOMAIN tell /\ tell[1] \in Piece
    <2> HIDE DEF tell
    <2> QED
      BY <1>1, FirstOf
  <1>3. job'[w] = [job[w] EXCEPT !.tell = t]
    BY <1>1, <1>2 DEF Look, IInv, Shapes, Job
  <1>4. at \in ContactRow
    <2>1. <<tell[1].to, tell[1].about>> \in Pair
      BY <1>2 DEF Piece, Pair
    <2> QED
      BY <2>1, RowsApart
  <1> HIDE DEF at
  <1>5. piece.to = tell[1].to /\ piece.about = tell[1].about /\ piece.level = db[at]
    BY <1>2 DEF Piece
  <1> HIDE DEF piece
  <1>6. DOMAIN t = DOMAIN tell /\ t[1] = piece /\ \A k \in DOMAIN tell : k # 1 => t[k] = tell[k]
    BY <1>2
  <1> HIDE DEF t
  <1>7. job'[w].tell = t /\ job'[w].call = job[w].call
    BY <1>1, <1>3 DEF Job
  <1>8. Me(w)' = Me(w) /\ Other(w)' = Other(w) /\ Op(w)' = Op(w)
    BY <1>7 DEF Me, Other, Op
  <1> QED
    BY <1>1, <1>2, <1>4, <1>5, <1>6, <1>7, <1>8 DEF at

\* The first event goes out, and the call is answered or goes on with the rest.
LEMMA PublishesFirst ==
    ASSUME IInv, Typed, NEW w \in Thread, Publish(w)
    PROVE  /\ pc[w] = "tell" /\ 1 \in DOMAIN job[w].tell /\ job[w].tell[1].level # "unread"
           /\ Contact(job[w].tell[1].to, job[w].tell[1].about) \in ContactRow
           /\ view' = IF job[w].tell[1].level = "asked" THEN view
                      ELSE [view EXCEPT ![Contact(job[w].tell[1].to, job[w].tell[1].about)] =
                                job[w].tell[1].level]
           /\ \/ pc'[w] = "idle" /\ DOMAIN job[w].tell = {1}
              \/ /\ pc'[w] = "tell"
                 /\ \A k \in DOMAIN job'[w].tell :
                        /\ k + 1 \in DOMAIN job[w].tell
                        /\ job'[w].tell[k] = job[w].tell[k + 1]
                 /\ \A k \in DOMAIN job[w].tell : k # 1 =>
                        /\ k - 1 \in DOMAIN job'[w].tell
                        /\ job'[w].tell[k - 1] = job[w].tell[k]
                 /\ Me(w)' = Me(w) /\ Other(w)' = Other(w) /\ Op(w)' = Op(w)
  <1> DEFINE tell == job[w].tell
  <1>1. tell \in Seq(Piece) /\ tell # <<>> /\ pc[w] = "tell"
    BY DEF Typed, Locals, LocalsOK, Job, Publish
  <1>2. /\ Head(tell).level # "unread"
        /\ view' = IF Head(tell).level = "asked" THEN view
                   ELSE [view EXCEPT ![Contact(Head(tell).to, Head(tell).about)] = Head(tell).level]
        /\ IF Len(tell) = 1 THEN Return(w)
           ELSE Tell(w, Tail(tell)) /\ UNCHANGED <<pc, draft>>
    BY DEF Publish
  <1>3. 1 \in DOMAIN tell /\ tell[1] \in Piece /\ Head(tell) = tell[1]
    <2> HIDE DEF tell
    <2> QED
      BY <1>1, FirstOf
  <1>4. Contact(tell[1].to, tell[1].about) \in ContactRow
    <2>1. <<tell[1].to, tell[1].about>> \in Pair
      BY <1>3 DEF Piece, Pair
    <2> QED
      BY <2>1, RowsApart
  <1>5. CASE Len(tell) = 1
    <2>1. DOMAIN tell = {1}
      <3> HIDE DEF tell
      <3> QED
        BY <1>1, <1>5, LenProperties
    <2> QED
      BY <1>1, <1>2, <1>3, <1>4, <1>5, <2>1, ReturnAlone
  <1>6. CASE Len(tell) # 1
    <2>1. job'[w].tell = Tail(tell) /\ Me(w)' = Me(w) /\ Other(w)' = Other(w) /\ Op(w)' = Op(w)
      BY <1>2, <1>6, TellsNow
    <2>2. /\ \A k \in DOMAIN Tail(tell) : k + 1 \in DOMAIN tell /\ Tail(tell)[k] = tell[k + 1]
          /\ \A k \in DOMAIN tell : k # 1 => k - 1 \in DOMAIN Tail(tell) /\ Tail(tell)[k - 1] = tell[k]
      <3> HIDE DEF tell
      <3>1. /\ Len(tell) \in Nat /\ Len(tell) # 0 /\ DOMAIN tell = 1..Len(tell)
            /\ Tail(tell) \in Seq(Piece) /\ Len(Tail(tell)) = Len(tell) - 1
            /\ \A k \in 1..Len(Tail(tell)) : Tail(tell)[k] = tell[k + 1]
        BY <1>1, LenProperties, HeadTailProperties
      <3>2. DOMAIN Tail(tell) = 1..(Len(tell) - 1)
        BY <3>1, LenProperties
      <3> QED
        BY <3>1, <3>2
    <2>3. pc'[w] = "tell"
      BY <1>1, <1>2, <1>6
    <2> QED
      BY <1>1, <1>2, <1>3, <1>4, <2>1, <2>2, <2>3
  <1> QED
    BY <1>5, <1>6

\* The statements after which there is something to tell.
LEMMA TellingSteps ==
    ASSUME IInv, NEW w \in Thread, Step(w) \/ Fault(w) \/ LoseCommit(w), pc'[w] = "tell"
    PROVE  \/ Put(w) \/ Commit(w) \/ SetTier(w) \/ Unblock(w) \/ LoseCommit(w)
           \/ Look(w) \/ Publish(w)
  <1>1. ~ Return(w)
    BY ReturnAlone
  <1>2. \A label : Goto(w, label) => label = "tell"
    BY GotoAlone
  <1>3. RequestStep(w) => Put(w)
    BY <1>1, <1>2 DEF RequestStep, CheckMine, CheckBoth, CheckPending, CheckDaily, CheckBlocked,
           ReadOurs, Check, ReadTheirs
  <1>4. ~ Take(w) /\ ~ WriteAllies(w) /\ ~ RefuseStep(w)
    BY <1>1, <1>2 DEF Take, WriteAllies, InsertAlly, RefuseStep, Decline, Withdraw
  <1>5. ~ WriteImposter(w) /\ ~ DeleteOtherRow(w) /\ ~ DeleteRequests(w)
    BY <1>2 DEF WriteImposter, DeleteOtherRow, DeleteRequests
  <1>6. ~ ReadLevel(w) /\ ~ DeleteConnected(w)
    BY <1>1, <1>2 DEF ReadLevel, DeleteConnected
  <1>7. ~ BreakDeadlock(w) /\ ~ Fault(w)
    BY <1>1 DEF BreakDeadlock, Fault, Abort
  <1> QED
    BY <1>3, <1>4, <1>5, <1>6, <1>7 DEF Step, AcceptStep, LevelStep, RemoveStep

LEMMA PiecesStep ==
    ASSUME IInv, Typed, NEW w \in Thread, PiecesOK(w), Step(w) \/ Fault(w) \/ LoseCommit(w)
    PROVE  PiecesOK(w)'
  <1> SUFFICES ASSUME pc'[w] = "tell" PROVE PiecesOK(w)'
    BY DEF PiecesOK
  <1>1. ASSUME NEW x, NEW y, NEW l, Tell(w, <<News(x, y, l)>>),
               \/ x = Me(w) /\ y = Other(w)
               \/ x = Other(w) /\ y = Me(w)
        PROVE  PiecesOK(w)'
    BY <1>1, TellsNow, NewsAlone DEF PiecesOK
  <1>2. CASE Commit(w) \/ LoseCommit(w)
    <2>1. /\ Tell(w, NewsOf(w)) /\ job[w].call \in Call /\ Op(w) # "refuse"
      BY <1>2 DEF Commit, LoseCommit, IInv, CallOK, Typed, Locals, LocalsOK, Placed
    <2>2. Op(w) \in {"accept", "request", "setLevel", "remove"}
      BY <2>1, OpTyped
    <2> QED
      BY <2>1, <2>2, TellsNow, NewsShape DEF PiecesOK
  <1>3. CASE Put(w) \/ SetTier(w) \/ Unblock(w)
    <2>1. ~ Return(w)
      BY ReturnAlone
    <2> QED
      BY <1>1, <1>3, <2>1 DEF Put, SetTier, Unblock
  <1>4. CASE Look(w)
    <2>1. pc[w] = "tell"
      BY <1>4 DEF Look
    <2> QED
      BY <1>4, <2>1, LooksAt DEF PiecesOK
  <1>5. CASE Publish(w)
    BY <1>5, PublishesFirst DEF PiecesOK
  <1> QED
    BY <1>2, <1>3, <1>4, <1>5, TellingSteps

Pieces == \A w \in Thread : PiecesOK(w)

LEMMA PiecesNext == Pieces /\ Typed /\ IInv /\ [Next]_vars => Pieces'
  <1> SUFFICES ASSUME Pieces, Typed, IInv, [Next]_vars, NEW v \in Thread PROVE PiecesOK(v)'
    BY DEF Pieces
  <1>1. PiecesOK(v)
    BY DEF Pieces
  <1>2. CASE pc'[v] = pc[v] /\ job'[v] = job[v]
    BY <1>1, <1>2 DEF PiecesOK, Me, Other
  <1>3. ASSUME NEW w \in Thread, Step(w) \/ Fault(w) \/ LoseCommit(w)
        PROVE  PiecesOK(v)'
    <2>1. Alone(w)
      BY <1>3, StepTurns DEF Typed
    <2>2. CASE v = w
      BY <1>1, <1>3, <2>2, PiecesStep
    <2>3. CASE v # w
      BY <1>2, <2>1, <2>3 DEF Alone
    <2> QED
      BY <2>2, <2>3
  <1>4. ASSUME NEW w \in Thread, NEW c \in Call, Begin(w, c)
        PROVE  PiecesOK(v)'
    <2>1. Alone(w) /\ pc'[w] = First(c) /\ c.op \in {"request", "accept", "refuse", "setLevel", "remove"}
      BY <1>4, BeginAlone, CallTyped
    <2>2. CASE v = w
      BY <2>1, <2>2 DEF PiecesOK, First
    <2>3. CASE v # w
      BY <1>2, <2>1, <2>3 DEF Alone
    <2> QED
      BY <2>2, <2>3
  <1>5. CASE Tick \/ UNCHANGED vars
    BY <1>2, <1>5 DEF Tick, vars
  <1> QED
    BY <1>3, <1>4, <1>5 DEF Next
-----------------------------------------------------------------------------
(* The two a call is about *)

\* A step of w that writes no table and tells nobody anything.
LEMMA Quietly ==
    ASSUME NEW w \in Thread, NEW a, NEW b, Known(w, a, b), db' = db, view' = view,
           pc[w] # "tell", pc'[w] # "idle" => StageOK(w)'
    PROVE  Known(w, a, b)'
  BY DEF Known, Plain, Shown, Tells

LEMMA RequestKnown ==
    ASSUME IInv, Typed, NEW w \in Thread, RequestStep(w), ~ Put(w), NEW a, NEW b, Known(w, a, b)
    PROVE  Known(w, a, b)'
  <1>1. /\ db' = db /\ view' = view /\ pc[w] \in Asking /\ LocalsOK(w) /\ Op(w) = "request"
        /\ StageOK(w)
    BY DEF RequestStep, CheckMine, CheckBoth, CheckPending, CheckDaily, CheckBlocked,
           ReadOurs, Check, ReadTheirs, Asking, Known, Typed, Locals, LocalsOK, Placed
  <1>2. CASE Return(w)
    BY <1>1, <1>2, ReturnAlone, Quietly DEF Asking
  <1>3. ASSUME NEW label \in Asking \cup {"take"}, Goto(w, label), job' = job,
               label # "mine" => db[Mine(w)] # "imposter",
               label \in {"theirs", "ours", "put", "take"} => db[Theirs(w)] # "imposter"
        PROVE  Known(w, a, b)'
    <2>1. pc'[w] = label /\ Op(w)' = Op(w) /\ Mine(w)' = Mine(w) /\ Theirs(w)' = Theirs(w)
      BY <1>3, GotoAlone DEF Op, Mine, Theirs, Me, Other
    <2>2. StageOK(w)'
      BY <1>1, <1>3, <2>1 DEF StageOK, Ending, Asking
    <2> QED
      BY <1>1, <2>2, Quietly DEF Asking
  <1>4. CASE CheckMine(w)
    BY <1>2, <1>3, <1>4 DEF CheckMine, Check, Mine, Asking
  <1>5. CASE CheckBoth(w) \/ CheckPending(w) \/ CheckDaily(w)
    <2>1. db[Mine(w)] # "imposter"
      BY <1>1, <1>5 DEF CheckBoth, CheckPending, CheckDaily, Check, StageOK
    <2>2. PICK next \in {"pending", "daily", "blocked"} :
              Return(w) \/ (Goto(w, next) /\ job' = job)
      BY <1>5 DEF CheckBoth, CheckPending, CheckDaily, Check
    <2> QED
      BY <1>2, <1>3, <2>1, <2>2 DEF Asking
  <1>6. CASE CheckBlocked(w)
    <2>1. db[Mine(w)] # "imposter"
      BY <1>1, <1>6 DEF CheckBlocked, Check, StageOK
    <2> QED
      BY <1>2, <1>3, <1>6, <2>1 DEF CheckBlocked, Check, Theirs, Asking
  <1>7. CASE ReadTheirs(w)
    <2>1. db[Mine(w)] # "imposter" /\ db[Theirs(w)] # "imposter"
      BY <1>1, <1>7 DEF ReadTheirs, StageOK
    <2>2. PICK next \in {"take", "ours"} : Goto(w, next) /\ job' = job
      BY <1>7 DEF ReadTheirs
    <2> QED
      BY <1>3, <2>1, <2>2 DEF Asking
  <1>8. CASE ReadOurs(w)
    <2>1. db[Mine(w)] # "imposter" /\ db[Theirs(w)] # "imposter"
      BY <1>1, <1>8 DEF ReadOurs, Check, StageOK
    <2> QED
      BY <1>2, <1>3, <1>8, <2>1 DEF ReadOurs, Check, Asking
  <1> QED
    BY <1>4, <1>5, <1>6, <1>7, <1>8 DEF RequestStep

LEMMA PutKnown ==
    ASSUME IInv, Typed, NEW w \in Thread, Put(w), NEW a, NEW b, a = Me(w), b = Other(w),
           Known(w, a, b)
    PROVE  Known(w, a, b)'
  <1>1. /\ pc[w] = "put" /\ view' = view /\ job[w].call \in Call /\ StageOK(w)
        /\ Tell(w, <<News(Other(w), Me(w), "asked")>>) /\ Goto(w, "tell")
        /\ db' = [r \in Row |-> IF r \in Targets(w) THEN [created |-> job[w].now, declined |-> None]
                                ELSE db[r]]
    BY DEF Put, Execute, IInv, CallOK, Known
  <1>2. /\ pc'[w] = "tell" /\ DOMAIN job'[w].tell = {1} /\ job'[w].tell[1].level = "asked"
    BY <1>1, GotoAlone, TellsNow, NewsAlone
  <1>3. db'[Contact(a, b)] = db[Contact(a, b)] /\ db'[Contact(b, a)] = db[Contact(b, a)]
    BY <1>1, TargetsOf, OwnRows, RowsApart
  <1>4. db[Contact(a, b)] # "imposter" /\ db[Contact(b, a)] # "imposter"
    BY <1>1 DEF StageOK, Mine, Theirs
  <1>5. view[Contact(a, b)] = db[Contact(a, b)] /\ view[Contact(b, a)] = db[Contact(b, a)]
    BY <1>1 DEF Known, Shown, Tells
  <1>6. StageOK(w)'
    BY <1>2 DEF StageOK
  <1> QED
    BY <1>1, <1>3, <1>4, <1>5, <1>6 DEF Known, Plain, Shown

LEMMA TakeKnown ==
    ASSUME IInv, Typed, NEW w \in Thread, Take(w) \/ WriteAllies(w), NEW a, NEW b, Known(w, a, b)
    PROVE  Known(w, a, b)'
  <1>1. /\ db' = db /\ view' = view /\ pc[w] \in {"take", "allyFrom", "allyTo"}
        /\ Op(w) \in {"accept", "request"} /\ StageOK(w)
    BY DEF Take, WriteAllies, Known, Typed, Locals, LocalsOK, Placed, history
  <1>2. CASE Return(w)
    BY <1>1, <1>2, ReturnAlone, Quietly
  <1>3. ASSUME NEW label \in {"allyFrom", "allyTo", "commit"}, Goto(w, label), job' = job
        PROVE  Known(w, a, b)'
    <2>1. pc'[w] = label /\ Op(w)' = Op(w)
      BY <1>3, GotoAlone DEF Op
    <2>2. StageOK(w)'
      BY <1>1, <1>3, <2>1 DEF StageOK, Ending
    <2> QED
      BY <1>1, <2>2, Quietly
  <1>4. CASE pc[w] = "take" /\ Op(w) = "request" /\ Goto(w, "ours") /\ job' = job
    <2>1. pc'[w] = "ours" /\ Op(w)' = Op(w) /\ Mine(w)' = Mine(w) /\ Theirs(w)' = Theirs(w)
      BY <1>4, GotoAlone DEF Op, Mine, Theirs, Me, Other
    <2>2. db[Mine(w)] # "imposter" /\ db[Theirs(w)] # "imposter"
      BY <1>1, <1>4 DEF StageOK
    <2>3. StageOK(w)'
      BY <1>1, <2>1, <2>2 DEF StageOK
    <2> QED
      BY <1>1, <2>3, Quietly
  <1>5. CASE Take(w)
    BY <1>2, <1>3, <1>4, <1>5 DEF Take
  <1>6. CASE WriteAllies(w)
    BY <1>3, <1>6 DEF WriteAllies, InsertAlly
  <1> QED
    BY <1>5, <1>6

\* What a commit makes of the rows of the pair.
LEMMA CommitRows ==
    ASSUME IInv, Typed, NEW w \in Thread, Commit(w), NEW r \in Row
    PROVE  /\ db'[r] = IF r \in DOMAIN draft[w] THEN draft[w][r] ELSE db[r]
           /\ Gone(w, r) => db'[r] = None
  BY DEF Commit, Gone

LEMMA CommitKnown ==
    ASSUME IInv, Typed, Agreed, NEW w \in Thread, Commit(w), NEW a, NEW b,
           a = Me(w), b = Other(w), Known(w, a, b)
    PROVE  Known(w, a, b)'
  <1>1. /\ pc[w] = "commit" /\ view' = view /\ job[w].call \in Call /\ StageOK(w) /\ OpenOK(w)
        /\ Tell(w, NewsOf(w)) /\ Goto(w, "tell") /\ Op(w) # "refuse"
    BY DEF Commit, IInv, CallOK, Known, Typed, Locals, LocalsOK, Placed
  <1>2. Op(w) \in {"accept", "request", "setLevel", "remove"}
    BY <1>1, OpTyped
  <1>3. /\ pc'[w] = "tell" /\ job'[w].tell = NewsOf(w)
        /\ Me(w)' = a /\ Other(w)' = b /\ Op(w)' = Op(w)
    BY <1>1, GotoAlone, TellsNow
  <1>4. /\ Contact(a, b) \in Row /\ Contact(b, a) \in Row /\ Contact(a, b) # Contact(b, a)
        /\ Contact(a, b) \in ContactRow /\ Contact(b, a) \in ContactRow
        /\ Asked(a, b) \in Row /\ Asked(b, a) \in Row
    <2>1. <<a, b>> \in Pair
      BY <1>1, OpTyped
    <2>2. a # b
      BY <2>1 DEF Pair
    <2> QED
      BY <1>1, <2>2, OwnRows, RowsApart
  <1>5. "imposter" \notin Tier /\ None \notin Tier /\ None # "imposter" /\ None # "asked"
    BY ContactsAssumption DEF Level, Tier
  <1>6. CASE Op(w) \in {"accept", "request"}
    <2>1. Accepting(w) /\ Took(w)
      BY <1>1, <1>6 DEF Accepting, Ending, Agreed, Taken
    <2>2. db[Contact(a, b)] # "imposter" /\ db[Contact(b, a)] # "imposter"
      BY <2>1 DEF Known, Plain, Took
    <2>3. ASSUME NEW r \in ContactRow, db[r] # "imposter" PROVE db'[r] # "imposter"
      <3>1. r \in Row
        BY RowsApart
      <3>2. r \in DOMAIN draft[w] => draft[w][r] = "ally"
        BY <1>1, <2>1 DEF OpenOK, Open
      <3> QED
        BY <2>3, <3>1, <3>2, CommitRows
    <2>4. Plain(a, b)' /\ Plain(b, a)'
      BY <1>4, <2>2, <2>3 DEF Plain
    <2>5. Tells(w, a, b)' /\ Tells(w, b, a)'
      BY <1>2, <1>3, <1>6, NewsShape DEF Tells
    <2>6. StageOK(w)'
      BY <1>2, <1>3, <1>6, NewsShape DEF StageOK
    <2> QED
      BY <2>4, <2>5, <2>6 DEF Known, Shown
  <1>7. CASE Op(w) = "setLevel"
    <2>1. /\ Gone(w, Contact(b, a)) /\ Gone(w, Asked(a, b)) /\ Gone(w, Asked(b, a))
          /\ Contact(a, b) \in DOMAIN draft[w] /\ draft[w][Contact(a, b)] = "imposter"
      BY <1>1, <1>7 DEF StageOK, Ending, Theirs, Requests, OpenOK, Open
    <2>2. /\ db'[Contact(a, b)] = "imposter" /\ db'[Contact(b, a)] = None
          /\ db'[Asked(a, b)] = None /\ db'[Asked(b, a)] = None
      BY <1>4, <2>1, CommitRows
    <2>3. Plain(a, b)' /\ Plain(b, a)'
      BY <1>5, <2>2 DEF Plain
    <2>4. Tells(w, a, b)' /\ Tells(w, b, a)'
      BY <1>2, <1>3, <1>5, <1>7, NewsShape DEF Tells
    <2>5. StageOK(w)'
      BY <1>2, <1>3, <1>7, <2>2, NewsShape DEF StageOK
    <2> QED
      BY <2>3, <2>4, <2>5 DEF Known, Shown
  <1>8. CASE Op(w) = "remove"
    <2>1. Gone(w, Contact(a, b)) /\ Gone(w, Contact(b, a))
      BY <1>1, <1>8 DEF StageOK, Ending, Theirs, Mine
    <2>2. db'[Contact(a, b)] = None /\ db'[Contact(b, a)] = None
      BY <1>4, <2>1, CommitRows
    <2>3. Plain(a, b)' /\ Plain(b, a)'
      BY <1>5, <2>2 DEF Plain
    <2>4. Tells(w, a, b)' /\ Tells(w, b, a)'
      BY <1>2, <1>3, <1>5, <1>8, NewsShape DEF Tells
    <2>5. StageOK(w)'
      BY <1>2, <1>3, <1>8, <2>2, NewsShape DEF StageOK
    <2> QED
      BY <2>3, <2>4, <2>5 DEF Known, Shown
  <1> QED
    BY <1>2, <1>6, <1>7, <1>8

LEMMA RefuseKnown ==
    ASSUME IInv, Typed, NEW w \in Thread, Decline(w) \/ Withdraw(w), NEW a, NEW b,
           a = Me(w), b = Other(w), Known(w, a, b)
    PROVE  Known(w, a, b)'
  <1>1. /\ pc[w] \in {"decline", "withdraw"} /\ view' = view /\ job[w].call \in Call
    BY DEF Decline, Withdraw, IInv, CallOK
  <1>2. /\ Contact(a, b) \in Row /\ Contact(b, a) \in Row
        /\ Asked(a, b) \in Row /\ Asked(b, a) \in Row
        /\ Contact(a, b) \notin Targets(w) /\ Contact(b, a) \notin Targets(w)
    BY <1>1, TargetsOf, OwnRows, RowsApart
  <1>3. ASSUME NEW r \in Row
        PROVE  /\ r \notin Targets(w) => db'[r] = db[r]
               /\ db[r] = None => db'[r] = None
    <2>1. CASE Decline(w)
      <3>1. pc[w] = "decline" /\ r \in Targets(w) => db[r] # None
        BY DEF Targets, Live
      <3> QED
        BY <2>1, <3>1 DEF Decline
    <2>2. CASE Withdraw(w)
      BY <2>2 DEF Withdraw, Execute
    <2> QED
      BY <2>1, <2>2
  <1>4. db'[Contact(a, b)] = db[Contact(a, b)] /\ db'[Contact(b, a)] = db[Contact(b, a)]
    BY <1>2, <1>3
  <1>5. Plain(a, b)' /\ Plain(b, a)'
    BY <1>2, <1>3, <1>4 DEF Known, Plain
  <1>6. view[Contact(a, b)] = db[Contact(a, b)] /\ view[Contact(b, a)] = db[Contact(b, a)]
    BY <1>1 DEF Known, Shown, Tells
  <1>7. pc'[w] \in {"idle", "withdraw"}
    BY ReturnAlone, GotoAlone DEF Decline, Withdraw
  <1>8. StageOK(w)'
    BY <1>7 DEF StageOK
  <1> QED
    BY <1>1, <1>4, <1>5, <1>6, <1>8 DEF Known, Shown

LEMMA BlockKnown ==
    ASSUME IInv, Typed, NEW w \in Thread, WriteImposter(w) \/ DeleteOtherRow(w),
           NEW a, NEW b, Known(w, a, b)
    PROVE  Known(w, a, b)'
  <1>1. /\ pc[w] \in {"imposter", "unrow"} /\ db' = db /\ view' = view /\ job' = job
        /\ StageOK(w) /\ Op(w) = "setLevel" /\ job[w].call \in Call
        /\ pc[w] = "imposter" => draft[w] = <<>>
    BY DEF WriteImposter, DeleteOtherRow, Known, IInv, CallOK, history
  <1>2. /\ Op(w)' = Op(w) /\ Mine(w)' = Mine(w) /\ Theirs(w)' = Theirs(w)
    BY <1>1 DEF Op, Mine, Theirs, Me, Other
  <1>3. Mine(w) # Theirs(w)
    <2>1. <<Me(w), Other(w)>> \in Pair
      BY <1>1, OpTyped
    <2> QED
      BY <2>1, RowsApart DEF Mine, Theirs, Pair
  <1>4. CASE WriteImposter(w)
    <2>1. Goto(w, "unrow") /\ Stage(w, Targets(w), "imposter") /\ pc[w] = "imposter"
      BY <1>4 DEF WriteImposter
    <2>2. pc'[w] = "unrow" /\ DOMAIN draft'[w] = DOMAIN draft[w] \cup Targets(w)
      BY <1>1, <2>1, StageOpen
    <2>3. DOMAIN draft'[w] = {Mine(w)}
      BY <1>1, <2>1, <2>2, TargetsOf DEF Mine
    <2>4. StageOK(w)'
      BY <1>1, <1>2, <2>2, <2>3 DEF StageOK, Ending
    <2> QED
      BY <1>1, <2>4, Quietly
  <1>5. CASE DeleteOtherRow(w)
    <2>1. Goto(w, "requests") /\ Stage(w, Targets(w), None) /\ pc[w] = "unrow"
      BY <1>5 DEF DeleteOtherRow
    <2>2. /\ pc'[w] = "requests" /\ DOMAIN draft'[w] = DOMAIN draft[w] \cup Targets(w)
          /\ \A r \in Targets(w) : draft'[w][r] = None
      BY <1>1, <2>1, StageOpen
    <2>3. Targets(w) = {r \in {Theirs(w)} : db[r] # None}
      BY <2>1 DEF Targets, Theirs
    <2>4. Theirs(w) \notin DOMAIN draft[w]
      BY <1>1, <1>3, <2>1 DEF StageOK
    <2>5. Gone(w, Theirs(w))'
      BY <1>1, <1>2, <2>2, <2>3, <2>4 DEF Gone
    <2>6. StageOK(w)'
      BY <1>1, <1>2, <2>2, <2>5 DEF StageOK, Ending
    <2> QED
      BY <1>1, <2>6, Quietly
  <1> QED
    BY <1>4, <1>5

LEMMA RequestsKnown ==
    ASSUME IInv, Typed, NEW w \in Thread, DeleteRequests(w), NEW a, NEW b, Known(w, a, b)
    PROVE  Known(w, a, b)'
  <1>1. /\ pc[w] = "requests" /\ db' = db /\ view' = view /\ StageOK(w) /\ OpenOK(w) /\ Ending(w)
        /\ Goto(w, "commit") /\ Stage(w, Targets(w), None) /\ job[w].call \in Call /\ job[w] \in Job
    BY DEF DeleteRequests, Known, IInv, CallOK, Typed, Locals, LocalsOK, Placed
  <1>2. job'[w].call = job[w].call
    <2>1. PICK had : job' = [job EXCEPT ![w].had = had]
      BY DEF DeleteRequests, EndConsent
    <2> QED
      BY <1>1, <2>1 DEF IInv, Shapes, Job
  <1>3. /\ pc'[w] = "commit" /\ DOMAIN draft'[w] = DOMAIN draft[w] \cup Targets(w)
        /\ \A r \in Targets(w) : draft'[w][r] = None
        /\ \A r \in DOMAIN draft[w] \ Targets(w) : draft'[w][r] = draft[w][r]
        /\ Op(w)' = Op(w) /\ Me(w)' = Me(w) /\ Other(w)' = Other(w) /\ Requests(w)' = Requests(w)
    BY <1>1, <1>2, StageOpen
  <1>4. ASSUME NEW r, Gone(w, r) PROVE Gone(w, r)'
    <2>1. r \in Targets(w) \/ r \in DOMAIN draft[w] \/ r \notin DOMAIN draft'[w]
      BY <1>3
    <2> QED
      BY <1>1, <1>3, <1>4, <2>1 DEF Gone
  <1>5. ASSUME NEW r \in Requests(w) PROVE Gone(w, r)'
    <2>1. Targets(w) = {x \in Requests(w) : db[x] # None}
      BY <1>1 DEF Targets
    <2>2. r \in RequestRow
      BY <1>1, AskedRows DEF Requests
    <2>3. r \in DOMAIN draft[w] => draft[w][r] = None
      BY <1>1, <2>2 DEF OpenOK, Open
    <2>4. r \in Targets(w) => draft'[w][r] = None
      BY <1>3
    <2>5. r \notin Targets(w) => db'[r] = None
      BY <1>1, <2>1
    <2> QED
      BY <1>3, <2>3, <2>4, <2>5 DEF Gone
  <1>6. Mine(w)' = Mine(w) /\ Theirs(w)' = Theirs(w)
    BY <1>3 DEF Mine, Theirs
  <1>7. Gone(w, Theirs(w)) /\ (Op(w) = "remove" => Gone(w, Mine(w)))
    BY <1>1 DEF StageOK
  <1>8. Gone(w, Theirs(w))'
    <2>1. PICK r : r = Theirs(w)
      OBVIOUS
    <2>2. Gone(w, r)'
      BY <1>4, <1>7, <2>1
    <2> QED
      BY <1>6, <2>1, <2>2 DEF Gone
  <1>9. Op(w) = "remove" => Gone(w, Mine(w))'
    <2>1. PICK r : r = Mine(w)
      OBVIOUS
    <2>2. Op(w) = "remove" => Gone(w, r)'
      BY <1>4, <1>7, <2>1
    <2> QED
      BY <1>6, <2>1, <2>2 DEF Gone
  <1>10. StageOK(w)'
    BY <1>3, <1>5, <1>8, <1>9 DEF StageOK
  <1> QED
    BY <1>1, <1>10, Quietly

LEMMA RemoveKnown ==
    ASSUME IInv, Typed, NEW w \in Thread, ReadLevel(w) \/ DeleteConnected(w), NEW a, NEW b,
           a = Me(w), b = Other(w), Known(w, a, b)
    PROVE  Known(w, a, b)'
  <1>1. /\ pc[w] \in {"level", "rows"} /\ db' = db /\ view' = view /\ StageOK(w)
        /\ Op(w) = "remove" /\ job[w].call \in Call /\ draft[w] = <<>>
    BY DEF ReadLevel, DeleteConnected, Known, IInv, CallOK, history
  <1>2. /\ Contact(a, b) \in ContactRow /\ Contact(b, a) \in ContactRow
        /\ db[Contact(a, b)] \in Level \cup {None} /\ db[Contact(b, a)] \in Level \cup {None}
    BY <1>1, OwnRows DEF Typed, AreTables
  <1>3. CASE Return(w)
    BY <1>1, <1>3, ReturnAlone, Quietly
  <1>4. CASE ReadLevel(w) /\ ~ Return(w)
    <2>1. PICK label \in {"unblock", "rows"} : Goto(w, label) /\ job' = job
              /\ (label = "rows" => db[Mine(w)] \notin {None, "imposter"})
      BY <1>4 DEF ReadLevel, Mine
    <2>2. pc'[w] = label /\ Mine(w)' = Mine(w) /\ Op(w)' = Op(w)
      BY <2>1, GotoAlone DEF Op, Mine, Me, Other
    <2>3. label = "rows" => db[Mine(w)] \in Tier
      BY <1>2, <2>1 DEF Mine, Level, Tier
    <2>4. StageOK(w)'
      BY <1>1, <2>2, <2>3 DEF StageOK
    <2> QED
      BY <1>1, <2>4, Quietly
  <1>5. CASE DeleteConnected(w) /\ ~ Return(w)
    <2>1. /\ pc[w] = "rows" /\ Goto(w, "requests") /\ Stage(w, Targets(w), None) /\ job' = job
      BY <1>5 DEF DeleteConnected
    <2>2. /\ pc'[w] = "requests" /\ DOMAIN draft'[w] = DOMAIN draft[w] \cup Targets(w)
          /\ \A r \in Targets(w) : draft'[w][r] = None
          /\ Op(w)' = Op(w)
      BY <1>1, <2>1, StageOpen
    <2>3. Targets(w) = {r \in {Contact(a, b), Contact(b, a)} : db[r] \in Tier}
      BY <2>1 DEF Targets, Contacts
    <2>4. db[Contact(a, b)] \in Tier
      BY <1>1, <2>1 DEF StageOK, Mine
    <2>5. db[Contact(b, a)] \in Tier \cup {None}
      <3>1. db[Contact(b, a)] # "imposter"
        BY <2>4 DEF Known, Plain
      <3> QED
        BY <1>2, <3>1 DEF Level, Tier
    <2>6. Gone(w, Contact(a, b))' /\ Gone(w, Contact(b, a))'
      <3>1. Contact(a, b) \in Targets(w) /\ Gone(w, Contact(a, b))'
        BY <2>2, <2>3, <2>4 DEF Gone
      <3>2. CASE db[Contact(b, a)] \in Tier
        BY <2>2, <2>3, <3>1, <3>2 DEF Gone
      <3>3. CASE db[Contact(b, a)] = None
        <4>1. db'[Contact(b, a)] = None
          BY <1>1, <3>3
        <4>2. Contact(b, a) \in Targets(w) \/ Contact(b, a) \notin DOMAIN draft'[w]
          BY <1>1, <2>2
        <4> QED
          BY <2>2, <3>1, <4>1, <4>2 DEF Gone
      <3> QED
        BY <2>5, <3>2, <3>3
    <2>7. Mine(w)' = Contact(a, b) /\ Theirs(w)' = Contact(b, a)
      BY <2>1 DEF Mine, Theirs, Me, Other
    <2>8. StageOK(w)'
      BY <1>1, <2>2, <2>6, <2>7 DEF StageOK, Gone
    <2> QED
      BY <1>1, <2>8, Quietly
  <1> QED
    BY <1>3, <1>4, <1>5

\* The caller's own row changes, and the caller is told.
LEMMA OwnKnown ==
    ASSUME IInv, Typed, NEW w \in Thread, SetTier(w) \/ Unblock(w), NEW a, NEW b,
           a = Me(w), b = Other(w), Known(w, a, b)
    PROVE  Known(w, a, b)'
  <1> DEFINE value == IF pc[w] = "tier" THEN job[w].call.level ELSE None
  <1>1. /\ pc[w] \in {"tier", "unblock"} /\ view' = view /\ job[w].call \in Call
        /\ Execute(w, value)
        /\ IF Targets(w) = {} THEN Return(w)
           ELSE Goto(w, "tell") /\ Tell(w, <<News(a, b, value)>>)
    BY DEF SetTier, Unblock, IInv, CallOK, history
  <1>2. /\ value \in Tier \cup {None} /\ None # "asked"
        /\ value # "asked" /\ value # "imposter" /\ None \notin Tier /\ None # "imposter"
    BY <1>1, ContactsAssumption DEF Typed, Locals, LocalsOK, Level, Tier
  <1> HIDE DEF value
  <1>3. /\ Contact(a, b) \in Row /\ Contact(b, a) \in Row /\ Contact(a, b) # Contact(b, a)
        /\ Asked(a, b) \in Row /\ Asked(b, a) \in Row
        /\ Asked(a, b) # Contact(a, b) /\ Asked(b, a) # Contact(a, b)
    <2>1. <<a, b>> \in Pair
      BY <1>1, OpTyped
    <2>2. a # b
      BY <2>1 DEF Pair
    <2> QED
      BY <1>1, <2>2, OwnRows, RowsApart
  <1>4. Targets(w) \subseteq {Contact(a, b)}
    BY <1>1, TargetsOf
  <1>5. \A r \in Row : db'[r] = IF r \in Targets(w) THEN value ELSE db[r]
    BY <1>1 DEF Execute
  <1>6. /\ db'[Contact(b, a)] = db[Contact(b, a)]
        /\ db'[Asked(a, b)] = db[Asked(a, b)] /\ db'[Asked(b, a)] = db[Asked(b, a)]
    BY <1>3, <1>4, <1>5
  <1>7. view[Contact(a, b)] = db[Contact(a, b)] /\ view[Contact(b, a)] = db[Contact(b, a)]
    BY <1>1 DEF Known, Shown, Tells
  <1>8. CASE Targets(w) = {}
    <2>1. db'[Contact(a, b)] = db[Contact(a, b)]
      BY <1>3, <1>5, <1>8
    <2>2. pc'[w] = "idle"
      BY <1>1, <1>8, ReturnAlone
    <2> QED
      BY <1>1, <1>6, <1>7, <2>1, <2>2 DEF Known, Plain, Shown
  <1>9. CASE Targets(w) # {}
    <2>1. db'[Contact(a, b)] = value
      BY <1>3, <1>4, <1>5, <1>9
    <2>2. /\ pc'[w] = "tell" /\ DOMAIN job'[w].tell = {1}
          /\ job'[w].tell[1].to = a /\ job'[w].tell[1].about = b /\ job'[w].tell[1].level = value
      BY <1>1, <1>9, GotoAlone, TellsNow, NewsAlone
    <2>3. value \in Tier => db[Contact(a, b)] \in Tier
      <3>1. CASE pc[w] = "tier"
        BY <1>4, <1>9, <3>1, TargetsOf
      <3>2. CASE pc[w] = "unblock"
        BY <1>2, <3>2 DEF value
      <3> QED
        BY <1>1, <3>1, <3>2
    <2>4. Plain(a, b)'
      BY <1>2, <2>1 DEF Plain
    <2>5. Plain(b, a)'
      BY <1>2, <1>6, <2>1, <2>3 DEF Known, Plain
    <2>6. Tells(w, a, b)'
      BY <1>2, <2>2 DEF Tells
    <2>7. StageOK(w)'
      BY <2>1, <2>2 DEF StageOK
    <2> QED
      BY <1>1, <1>6, <1>7, <2>4, <2>5, <2>6, <2>7 DEF Known, Shown
  <1> QED
    BY <1>8, <1>9

LEMMA LookKnown ==
    ASSUME IInv, Typed, NEW w \in Thread, Look(w), NEW a, NEW b, Known(w, a, b)
    PROVE  Known(w, a, b)'
  <1> DEFINE tell == job[w].tell
             next == job'[w].tell
  <1>1. db' = db /\ view' = view /\ pc[w] = "tell" /\ StageOK(w)
    BY DEF Look, Known, history
  <1>2. /\ pc'[w] = "tell" /\ DOMAIN next = DOMAIN tell
        /\ \A k \in DOMAIN tell : /\ next[k].to = tell[k].to /\ next[k].about = tell[k].about
                                  /\ k # 1 => next[k].level = tell[k].level
        /\ next[1].level = db[Contact(tell[1].to, tell[1].about)]
        /\ Contact(tell[1].to, tell[1].about) \in ContactRow
    BY LooksAt
  <1>3. next[1].level # "asked"
    BY <1>2, ContactsAssumption DEF Typed, AreTables, Level
  <1>4. ASSUME NEW x, NEW y, Tells(w, x, y) PROVE Tells(w, x, y)'
    BY <1>1, <1>2, <1>3, <1>4 DEF Tells
  <1>5. \A k \in DOMAIN tell : tell[k].level \in {"asked", "unread", db[Contact(tell[k].to, tell[k].about)]}
    BY <1>1 DEF StageOK
  <1>6. \A k \in DOMAIN next : next[k].level \in {"asked", "unread", db'[Contact(next[k].to, next[k].about)]}
    <2> SUFFICES ASSUME NEW k \in DOMAIN next
                 PROVE  next[k].level \in {"asked", "unread", db'[Contact(next[k].to, next[k].about)]}
      OBVIOUS
    <2>1. k \in DOMAIN tell /\ next[k].to = tell[k].to /\ next[k].about = tell[k].about
      BY <1>2
    <2> HIDE DEF tell, next
    <2>2. CASE k = 1
      BY <1>1, <1>2, <2>1, <2>2
    <2>3. CASE k # 1
      BY <1>1, <1>2, <1>5, <2>1, <2>3
    <2> QED
      BY <2>2, <2>3
  <1>7. StageOK(w)'
    BY <1>2, <1>6 DEF StageOK
  <1> QED
    BY <1>1, <1>4, <1>7 DEF Known, Plain, Shown

LEMMA PublishKnown ==
    ASSUME IInv, Typed, NEW w \in Thread, Publish(w), NEW a, NEW b, <<a, b>> \in Pair, Known(w, a, b)
    PROVE  Known(w, a, b)'
  <1> DEFINE tell == job[w].tell
             next == job'[w].tell
  <1>1. db' = db /\ pc[w] = "tell" /\ StageOK(w)
    BY DEF Publish, Known, history
  <1>2. /\ 1 \in DOMAIN tell /\ tell[1].level # "unread"
        /\ Contact(tell[1].to, tell[1].about) \in ContactRow
        /\ view' = IF tell[1].level = "asked" THEN view
                   ELSE [view EXCEPT ![Contact(tell[1].to, tell[1].about)] = tell[1].level]
        /\ \/ pc'[w] = "idle" /\ DOMAIN tell = {1}
           \/ /\ pc'[w] = "tell"
              /\ \A k \in DOMAIN next : k + 1 \in DOMAIN tell /\ next[k] = tell[k + 1]
              /\ \A k \in DOMAIN tell : k # 1 => k - 1 \in DOMAIN next /\ next[k - 1] = tell[k]
    BY PublishesFirst
  <1>3. \A k \in DOMAIN tell : tell[k].level \in {"asked", "unread", db[Contact(tell[k].to, tell[k].about)]}
    BY <1>1 DEF StageOK
  <1>4. view \in [ContactRow -> Level \cup {None}]
    BY DEF Typed
  <1>5. ASSUME NEW x, NEW y, Contact(x, y) \in ContactRow, Shown(w, x, y) PROVE Shown(w, x, y)'
    <2>1. CASE tell[1].to = x /\ tell[1].about = y /\ tell[1].level # "asked"
      <3>1. tell[1].level = db[Contact(x, y)]
        BY <1>2, <1>3, <2>1
      <3>2. view'[Contact(x, y)] = db[Contact(x, y)]
        BY <1>2, <1>4, <2>1, <3>1
      <3> QED
        BY <1>1, <3>2 DEF Shown
    <2>2. CASE ~ (tell[1].to = x /\ tell[1].about = y /\ tell[1].level # "asked")
      <3>1. view'[Contact(x, y)] = view[Contact(x, y)]
        <4>1. tell[1].level # "asked" => Contact(tell[1].to, tell[1].about) # Contact(x, y)
          BY <2>2, RowsApart
        <4> QED
          BY <1>2, <1>4, <1>5, <4>1
      <3>2. CASE view[Contact(x, y)] = db[Contact(x, y)]
        BY <1>1, <3>1, <3>2 DEF Shown
      <3>3. CASE Tells(w, x, y)
        <4>1. PICK k \in DOMAIN tell : tell[k].to = x /\ tell[k].about = y /\ tell[k].level # "asked"
          BY <3>3 DEF Tells
        <4>2. k # 1
          BY <2>2, <4>1
        <4>3. pc'[w] = "tell" /\ k - 1 \in DOMAIN next /\ next[k - 1] = tell[k]
          BY <1>2, <4>1, <4>2
        <4> QED
          BY <4>1, <4>3 DEF Shown, Tells
      <3> QED
        BY <1>5, <3>2, <3>3 DEF Shown
    <2> QED
      BY <2>1, <2>2
  <1>6. pc'[w] # "idle" => StageOK(w)'
    <2> SUFFICES ASSUME pc'[w] = "tell" PROVE StageOK(w)'
      BY <1>2
    <2>1. \A k \in DOMAIN next : next[k].level \in {"asked", "unread", db'[Contact(next[k].to, next[k].about)]}
      BY <1>1, <1>2, <1>3
    <2> QED
      BY <2>1 DEF StageOK
  <1>7. Contact(a, b) \in ContactRow /\ Contact(b, a) \in ContactRow
    <2>1. <<b, a>> \in Pair
      BY DEF Pair
    <2> QED
      BY <2>1, RowsApart
  <1> QED
    BY <1>1, <1>5, <1>6, <1>7 DEF Known, Plain

\* A step of w leaves what is known of a clear pair it has a call about.
LEMMA StepKnown ==
    ASSUME IInv, Typed, Agreed, NEW w \in Thread, Step(w), NEW a, NEW b,
           a = Me(w), b = Other(w), Known(w, a, b)
    PROVE  Known(w, a, b)'
  <1>1. pc[w] # "idle"
    BY DEF Step, RequestStep, CheckMine, CheckBoth, CheckPending, CheckDaily, CheckBlocked,
           ReadOurs, Check, ReadTheirs, Put, AcceptStep, Take, WriteAllies, Commit, RefuseStep,
           Decline, Withdraw, LevelStep, WriteImposter, DeleteOtherRow, DeleteRequests, SetTier,
           RemoveStep, ReadLevel, Unblock, DeleteConnected, Look, Publish, BreakDeadlock,
           Deadlocked, IInv, CallOK
  <1>2. <<a, b>> \in Pair
    BY <1>1, OpTyped DEF IInv, CallOK
  <1>3. CASE BreakDeadlock(w)
    <2>1. Return(w) /\ db' = db /\ view' = view /\ draft[w] # <<>>
      BY <1>3 DEF BreakDeadlock, Deadlocked, Abort
    <2>2. pc[w] # "tell" /\ pc'[w] = "idle"
      BY <2>1, ReturnAlone DEF IInv, CallOK
    <2> QED
      BY <2>1, <2>2, Quietly
  <1>4. CASE RequestStep(w)
    BY <1>4, RequestKnown, PutKnown
  <1>5. CASE AcceptStep(w)
    BY <1>5, TakeKnown, CommitKnown DEF AcceptStep
  <1>6. CASE RefuseStep(w)
    BY <1>6, RefuseKnown DEF RefuseStep
  <1>7. CASE LevelStep(w)
    BY <1>7, BlockKnown, RequestsKnown, OwnKnown DEF LevelStep
  <1>8. CASE RemoveStep(w)
    BY <1>8, RemoveKnown, OwnKnown DEF RemoveStep
  <1>9. CASE Look(w) \/ Publish(w)
    BY <1>2, <1>9, LookKnown, PublishKnown
  <1> QED
    BY <1>3, <1>4, <1>5, <1>6, <1>7, <1>8, <1>9 DEF Step
-----------------------------------------------------------------------------
(* The others *)

\* A step of w leaves the rows of others, and what they were told, as they are.
LEMMA Elsewhere ==
    ASSUME IInv, Typed, NEW w \in Thread, PiecesOK(w), Step(w),
           NEW p \in Pair, {p[1], p[2]} # {Me(w), Other(w)}
    PROVE  /\ db'[Contact(p[1], p[2])] = db[Contact(p[1], p[2])]
           /\ db'[Asked(p[1], p[2])] = db[Asked(p[1], p[2])]
           /\ view'[Contact(p[1], p[2])] = view[Contact(p[1], p[2])]
  <1> DEFINE mine == Requests(w) \cup Contacts(w)
  <1>1. /\ Contact(p[1], p[2]) \in Row /\ Asked(p[1], p[2]) \in Row
        /\ Contact(p[1], p[2]) \in ContactRow
    BY PairRows, RowsApart
  <1>2. Contact(p[1], p[2]) \notin mine /\ Asked(p[1], p[2]) \notin mine
    BY DEF Requests, Contacts, Contact, Asked
  <1>3. \A r \in Row : r \notin mine => db'[r] = db[r]
    <2>1. pc[w] \in {"put", "withdraw", "decline", "tier", "unblock"} => Targets(w) \subseteq mine
      BY TargetsOf DEF Requests, Contacts
    <2>2. pc[w] = "commit" => DOMAIN draft[w] \subseteq mine
      BY DEF Typed, OpenOK, Open
    <2> HIDE DEF mine
    <2>3. CASE db' = db
      BY <2>3
    <2>4. CASE Put(w)
      BY <2>1, <2>4 DEF Put, Execute
    <2>5. CASE Commit(w)
      BY <2>2, <2>5 DEF Commit
    <2>6. CASE Decline(w)
      BY <2>1, <2>6 DEF Decline
    <2>7. CASE Withdraw(w)
      BY <2>1, <2>7 DEF Withdraw, Execute
    <2>8. CASE SetTier(w) \/ Unblock(w)
      BY <2>1, <2>8 DEF SetTier, Unblock, Execute
    <2> QED
      BY <2>3, <2>4, <2>5, <2>6, <2>7, <2>8, TableSteps
  <1>4. view'[Contact(p[1], p[2])] = view[Contact(p[1], p[2])]
    <2>1. CASE Publish(w)
      <3> DEFINE at == Contact(job[w].tell[1].to, job[w].tell[1].about)
      <3>1. /\ 1 \in DOMAIN job[w].tell /\ pc[w] = "tell"
            /\ view' = view \/ view' = [view EXCEPT ![at] = job[w].tell[1].level]
        BY <2>1, PublishesFirst
      <3>2. at \in mine
        BY <3>1 DEF PiecesOK, Contacts
      <3>3. view \in [ContactRow -> Level \cup {None}]
        BY DEF Typed
      <3> HIDE DEF mine, at
      <3> QED
        BY <1>1, <1>2, <3>1, <3>2, <3>3
    <2>2. CASE ~ Publish(w)
      <3>1. view' = view
        BY <2>2 DEF Step, RequestStep, CheckMine, CheckBoth, CheckPending, CheckDaily, CheckBlocked,
           ReadOurs, Check, ReadTheirs, Put, AcceptStep, Take, WriteAllies, Commit, RefuseStep,
           Decline, Withdraw, LevelStep, WriteImposter, DeleteOtherRow, DeleteRequests, SetTier,
           RemoveStep, ReadLevel, Unblock, DeleteConnected, Look, BreakDeadlock, Abort, history
      <3> QED
        BY <3>1
    <2> QED
      BY <2>1, <2>2
  <1> QED
    BY <1>1, <1>2, <1>3, <1>4

\* In every clear pair what is told is what the rows say, and what a call has
\* found out still holds.
ToldOf(a, b) == /\ Plain(a, b)
                /\ \/ view[Contact(a, b)] = db[Contact(a, b)]
                   \/ \E v \in Thread : Tells(v, a, b)

ToldInv == budget["faults"] = 0 =>
    /\ \A p \in Pair : Clear(p[1], p[2]) => ToldOf(p[1], p[2])
    /\ \A v \in Thread : pc[v] # "idle" /\ Clear(Me(v), Other(v)) => StageOK(v)

\* Where nobody who blocks another is in that other's tiers, and no request waits
\* between them: as two calls that do not overlap leave it.
Unraced == \A t \in Start : \A p \in Pair :
    t[Contact(p[1], p[2])] = "imposter" =>
        /\ t[Contact(p[2], p[1])] \notin Tier
        /\ t[Asked(p[1], p[2])] = None /\ t[Asked(p[2], p[1])] = None

\* Two calls in progress have nothing to do with the same clear pair.
LEMMA OneCall ==
    ASSUME Within, NEW p \in Pair, Clear(p[1], p[2]), NEW v \in Thread, NEW w \in Thread,
           pc[v] # "idle", {p[1], p[2]} = {Me(v), Other(v)},
           pc[w] # "idle", {p[1], p[2]} = {Me(w), Other(w)}
    PROVE  v = w
  <1>1. PICK a \in {p[1], p[2]} : a \notin raced
    BY DEF Clear
  <1>2. a \in User
    BY DEF Pair
  <1>3. Sole(a)
    BY <1>1, <1>2 DEF Within
  <1> QED
    BY <1>1, <1>3 DEF Sole

\* What is still to be told is of the call's own pair.
LEMMA TellsOwn ==
    ASSUME Pieces, NEW v \in Thread, NEW a, NEW b, Tells(v, a, b)
    PROVE  pc[v] # "idle" /\ {a, b} = {Me(v), Other(v)}
  BY DEF Pieces, PiecesOK, Tells

LEMMA CallPair ==
    ASSUME IInv, NEW w \in Thread, pc[w] # "idle"
    PROVE  <<Me(w), Other(w)>> \in Pair /\ <<Other(w), Me(w)>> \in Pair /\ job[w].call \in Call
  BY CallTyped DEF IInv, CallOK, Me, Other

\* A call in progress keeps its pair until it is answered.
LEMMA SamePair ==
    ASSUME IInv, Typed, NEW w \in Thread, Step(w), pc'[w] # "idle"
    PROVE  Me(w)' = Me(w) /\ Other(w)' = Other(w)
  <1>1. job[w] \in Job
    BY DEF Typed, Locals, LocalsOK
  <1>2. \/ Turns(w)
        \/ \E t \in Seq(Piece) : job'[w] = [job[w] EXCEPT !.tell = t]
    BY StepTurns DEF Typed
  <1>3. job'[w].call = job[w].call
    <2>1. ~ Return(w)
      BY ReturnAlone
    <2>2. \/ job'[w] = job[w]
          \/ \E t : job'[w] = [job[w] EXCEPT !.tell = t]
          \/ \E had : job'[w] = [job[w] EXCEPT !.had = had]
      BY <1>2, <2>1 DEF Turns
    <2> QED
      BY <1>1, <2>2 DEF Job
  <1> QED
    BY <1>3 DEF Me, Other

LEMMA ToldOwn ==
    ASSUME IInv, Typed, Agreed, Within, Pieces, ToldInv, budget["faults"] = 0,
           NEW w \in Thread, Step(w), pc[w] # "idle", Clear(Me(w), Other(w))
    PROVE  Known(w, Me(w), Other(w))
  <1> DEFINE a == Me(w)
             b == Other(w)
  <1>1. <<a, b>> \in Pair /\ <<b, a>> \in Pair
    BY CallPair
  <1>2. Clear(b, a)
    BY DEF Clear
  <1>3. ToldOf(a, b) /\ ToldOf(b, a) /\ StageOK(w)
    BY <1>1, <1>2 DEF ToldInv
  <1>4. ASSUME NEW v \in Thread, NEW x, NEW y, Tells(v, x, y), {x, y} = {a, b}
        PROVE  v = w
    <2>1. pc[v] # "idle" /\ {a, b} = {Me(v), Other(v)}
      BY <1>4, TellsOwn
    <2> QED
      BY <1>1, <2>1, OneCall
  <1>5. Shown(w, a, b) /\ Shown(w, b, a)
    BY <1>3, <1>4 DEF ToldOf, Shown
  <1> QED
    BY <1>3, <1>5 DEF Known, ToldOf

\* A step keeps what is told of every clear pair.
LEMMA ToldPairs ==
    ASSUME IInv, Typed, Agreed, Within, Pieces, ToldInv, budget["faults"] = 0,
           NEW w \in Thread, Step(w), pc[w] # "idle", Alone(w),
           NEW p \in Pair, Clear(p[1], p[2])
    PROVE  ToldOf(p[1], p[2])'
  <1>1. ToldOf(p[1], p[2])
    BY DEF ToldInv
  <1>2. PiecesOK(w)
    BY DEF Pieces
  <1>3. CASE {p[1], p[2]} = {Me(w), Other(w)}
    <2> DEFINE a == Me(w)
               b == Other(w)
    <2>1. \/ p[1] = a /\ p[2] = b
          \/ p[1] = b /\ p[2] = a
      BY <1>3
    <2>2. PICK x, y : x = a /\ y = b
      OBVIOUS
    <2>3. Clear(x, y)
      BY <2>1, <2>2 DEF Clear
    <2>4. Known(w, x, y)
      BY <2>2, <2>3, ToldOwn
    <2>5. Known(w, x, y)'
      BY <2>2, <2>4, StepKnown
    <2> QED
      BY <2>1, <2>2, <2>5 DEF Known, Shown, ToldOf
  <1>4. CASE {p[1], p[2]} # {Me(w), Other(w)}
    <2>1. <<p[2], p[1]>> \in Pair
      BY DEF Pair
    <2>2. /\ db'[Contact(p[1], p[2])] = db[Contact(p[1], p[2])]
          /\ db'[Asked(p[1], p[2])] = db[Asked(p[1], p[2])]
          /\ view'[Contact(p[1], p[2])] = view[Contact(p[1], p[2])]
      BY <1>2, <1>4, Elsewhere
    <2>3. /\ db'[Contact(p[2], p[1])] = db[Contact(p[2], p[1])]
          /\ db'[Asked(p[2], p[1])] = db[Asked(p[2], p[1])]
      <3>1. {p[2], p[1]} # {Me(w), Other(w)}
        BY <1>4
      <3> QED
        BY <1>2, <2>1, <3>1, Elsewhere
    <2>4. Plain(p[1], p[2])'
      BY <1>1, <2>2, <2>3 DEF ToldOf, Plain
    <2>5. ASSUME NEW v \in Thread, Tells(v, p[1], p[2]) PROVE Tells(v, p[1], p[2])'
      <3>1. v # w
        BY <1>4, <2>5, TellsOwn
      <3> QED
        BY <2>5, <3>1 DEF Alone, Tells
    <2> QED
      BY <1>1, <2>2, <2>4, <2>5 DEF ToldOf
  <1> QED
    BY <1>3, <1>4

\* And what the calls of the others have found out.
LEMMA ToldStages ==
    ASSUME IInv, Typed, Within, Pieces, ToldInv, budget["faults"] = 0,
           NEW w \in Thread, Step(w), pc[w] # "idle", Alone(w),
           NEW v \in Thread, v # w, pc[v] # "idle", Clear(Me(v), Other(v))
    PROVE  StageOK(v)'
  <1> DEFINE mine == {Contact(Me(v), Other(v)), Contact(Other(v), Me(v)),
                      Asked(Me(v), Other(v)), Asked(Other(v), Me(v))}
  <1>1. /\ <<Me(v), Other(v)>> \in Pair /\ <<Other(v), Me(v)>> \in Pair
        /\ <<Me(w), Other(w)>> \in Pair
    BY CallPair
  <1>2. StageOK(v) /\ PiecesOK(v) /\ PiecesOK(w)
    BY DEF ToldInv, Pieces
  <1>3. {Me(v), Other(v)} # {Me(w), Other(w)}
    BY <1>1, OneCall
  <1>4. \A r \in mine : db'[r] = db[r]
    BY <1>1, <1>2, <1>3, Elsewhere
  <1>5. /\ pc'[v] = pc[v] /\ job'[v] = job[v] /\ draft'[v] = draft[v]
        /\ Me(v)' = Me(v) /\ Other(v)' = Other(v) /\ Op(v)' = Op(v)
    BY DEF Alone, Me, Other, Op
  <1>6. \A r \in mine : Gone(v, r) => Gone(v, r)'
    BY <1>4, <1>5 DEF Gone
  <1>7. pc[v] = "tell" => \A k \in DOMAIN job[v].tell :
           Contact(job[v].tell[k].to, job[v].tell[k].about) \in mine
    BY <1>2 DEF PiecesOK
  <1> QED
    BY <1>2, <1>4, <1>5, <1>6, <1>7 DEF StageOK, Mine, Theirs, Requests, Ending

LEMMA ToldBegin ==
    ASSUME IInv, Typed, ToldInv, NEW w \in Thread, NEW c \in Call, Begin(w, c),
           budget["faults"] = 0
    PROVE  ToldInv'
  <1>1. /\ Alone(w) /\ db' = db /\ draft' = draft /\ view' = view /\ pc[w] = "idle"
        /\ pc'[w] = First(c) /\ raced \subseteq raced'
        /\ job'[w] = [call |-> c, now |-> clock, tell |-> <<>>, had |-> {}]
    BY BeginAlone DEF Begin
  <1>2. Op(w)' = c.op /\ c.op \in {"request", "accept", "refuse", "setLevel", "remove"}
    <2>1. job'[w].call = c
      BY <1>1
    <2>2. c.op \in {"request", "accept", "refuse", "setLevel", "remove"}
      BY CallTyped
    <2> QED
      BY <2>1, <2>2 DEF Op
  <1>3. ASSUME NEW p \in Pair, Clear(p[1], p[2])' PROVE ToldOf(p[1], p[2])'
    <2>1. ToldOf(p[1], p[2])
      BY <1>1, <1>3 DEF ToldInv, Clear
    <2>2. ASSUME NEW v \in Thread, Tells(v, p[1], p[2]) PROVE Tells(v, p[1], p[2])'
      BY <1>1, <2>2 DEF Alone, Tells
    <2> QED
      BY <1>1, <2>1, <2>2 DEF ToldOf, Plain
  <1>4. StageOK(w)'
    BY <1>1, <1>2 DEF StageOK, First
  <1>5. ASSUME NEW v \in Thread, v # w, pc'[v] # "idle", Clear(Me(v), Other(v))'
        PROVE  StageOK(v)'
    <2>1. /\ pc'[v] = pc[v] /\ job'[v] = job[v]
          /\ Me(v)' = Me(v) /\ Other(v)' = Other(v) /\ Op(v)' = Op(v)
      BY <1>1, <1>5 DEF Alone, Me, Other, Op
    <2>2. StageOK(v)
      BY <1>1, <1>5, <2>1 DEF ToldInv, Clear
    <2> QED
      BY <1>1, <2>1, <2>2 DEF StageOK, Mine, Theirs, Requests, Ending, Gone
  <1> QED
    BY <1>3, <1>4, <1>5 DEF ToldInv

LEMMA ToldInit == Unraced /\ Init => ToldInv
  <1> SUFFICES ASSUME Unraced, Init PROVE ToldInv
    OBVIOUS
  <1>1. ASSUME NEW p \in Pair PROVE ToldOf(p[1], p[2])
    <2>1. Contact(p[1], p[2]) \in ContactRow
      BY PairRows
    <2> QED
      BY <2>1 DEF Init, Unraced, ToldOf, Plain
  <1> QED
    BY <1>1 DEF Init, ToldInv

LEMMA ToldNext ==
    IInv /\ Typed /\ Agreed /\ Within /\ Pieces /\ ToldInv /\ [Next]_vars => ToldInv'
  <1> SUFFICES ASSUME IInv, Typed, Agreed, Within, Pieces, ToldInv, [Next]_vars,
                      budget'["faults"] = 0
               PROVE  ToldInv'
    BY DEF ToldInv
  <1>1. budget \in [Bounded -> Nat]
    BY DEF Typed
  <1>2. ASSUME NEW w \in Thread, Step(w) PROVE ToldInv'
    <2>1. budget' = budget /\ pc[w] # "idle"
      BY <1>2 DEF Step, RequestStep, CheckMine, CheckBoth, CheckPending, CheckDaily, CheckBlocked,
             ReadOurs, Check, ReadTheirs, Put, AcceptStep, Take, WriteAllies, Commit, RefuseStep,
             Decline, Withdraw, LevelStep, WriteImposter, DeleteOtherRow, DeleteRequests, SetTier,
             RemoveStep, ReadLevel, Unblock, DeleteConnected, Look, Publish, BreakDeadlock,
             Deadlocked, IInv, CallOK
    <2>2. Alone(w) /\ raced' = raced
      BY <1>2, StepTurns, StepHistory DEF Typed
    <2>3. ASSUME NEW p \in Pair, Clear(p[1], p[2])' PROVE ToldOf(p[1], p[2])'
      <3>1. Clear(p[1], p[2])
        BY <2>2, <2>3 DEF Clear
      <3> QED
        BY <1>2, <2>1, <2>2, <3>1, ToldPairs
    <2>4. ASSUME NEW v \in Thread, pc'[v] # "idle", Clear(Me(v), Other(v))'
          PROVE  StageOK(v)'
      <3>1. CASE v = w
        <4>1. Me(w)' = Me(w) /\ Other(w)' = Other(w)
          BY <1>2, <2>4, <3>1, SamePair
        <4>2. Clear(Me(w), Other(w))
          BY <2>2, <2>4, <3>1, <4>1 DEF Clear
        <4>3. PICK x, y : x = Me(w) /\ y = Other(w)
          OBVIOUS
        <4>4. Known(w, x, y)
          BY <1>2, <2>1, <4>2, <4>3, ToldOwn
        <4>5. Known(w, x, y)'
          BY <1>2, <4>3, <4>4, StepKnown
        <4> QED
          BY <2>4, <3>1, <4>5 DEF Known
      <3>2. CASE v # w
        <4>1. pc'[v] = pc[v] /\ Me(v)' = Me(v) /\ Other(v)' = Other(v)
          BY <2>2, <3>2 DEF Alone, Me, Other
        <4>2. pc[v] # "idle" /\ Clear(Me(v), Other(v))
          BY <2>2, <2>4, <4>1 DEF Clear
        <4> QED
          BY <1>2, <2>1, <2>2, <3>2, <4>2, ToldStages
      <3> QED
        BY <3>1, <3>2
    <2> QED
      BY <2>3, <2>4 DEF ToldInv
  <1>3. ASSUME NEW w \in Thread, NEW c \in Call, Begin(w, c) PROVE ToldInv'
    <2>1. budget["faults"] = 0
      BY <1>1, <1>3 DEF Begin, Spend, Bounded
    <2> QED
      BY <1>3, <2>1, ToldBegin
  <1>4. ASSUME NEW w \in Thread, Fault(w) \/ LoseCommit(w) PROVE FALSE
    BY <1>1, <1>4 DEF Fault, LoseCommit, Spend, Bounded
  <1>5. CASE Tick \/ UNCHANGED vars
    <2>1. /\ UNCHANGED <<db, draft, pc, job, view, raced>>
          /\ budget["faults"] = 0
      BY <1>1, <1>5 DEF Tick, Spend, Bounded, vars, history
    <2> QED
      BY <2>1 DEF ToldInv, Clear, ToldOf, Plain, Tells, StageOK, Mine, Theirs, Requests,
         Ending, Gone, Op, Me, Other
  <1> QED
    BY <1>2, <1>3, <1>4, <1>5 DEF Next

\* What two people were last told of each other is what their rows say once the calls
\* are answered, if nothing failed and no two calls that concern one of them
\* overlapped, then or before the start.
THEOREM ToldAsItIs ==
    ASSUME Unraced
    PROVE  Spec => []ToldTruly
  <1>1. ToldInv => ToldTruly
    <2> SUFFICES ASSUME ToldInv, budget.faults = 0, \A w \in Thread : pc[w] = "idle",
                        NEW p \in Pair, ~ {p[1], p[2]} \subseteq raced
                 PROVE  view[Contact(p[1], p[2])] = db[Contact(p[1], p[2])]
      BY DEF ToldTruly
    <2> QED
      BY DEF ToldInv, Clear, ToldOf, Tells
  <1>2. IInv /\ [Next]_vars => IInv'
    BY NextKeeps DEF Kept
  <1>3. Init => Pieces
    BY DEF Init, Pieces, PiecesOK
  <1>4. Init => ToldInv
    BY ToldInit
  <1> QED
    BY <1>1, <1>2, <1>3, <1>4, IInvInit, TypedInit, TypedNext, AgreedInit, AgreedNext,
       WithinInit, WithinNext, PiecesNext, ToldNext, PTL DEF Spec
=============================================================================
