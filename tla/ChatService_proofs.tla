------------------------- MODULE ChatService_proofs -------------------------
(***************************************************************************)
(* Proofs about ChatService for any number of users, conversations,        *)
(* connections and stripes; the Max constants may be any natural numbers.  *)
(* In this order: ids and stripes; the order of delivery; one message for  *)
(* a key; what an acknowledgement means; deletions after their messages;   *)
(* who is told of what while nothing is lost; and that ChatService         *)
(* implements ChatLog.                                                     *)
(***************************************************************************)
EXTENDS ChatService, TLAPS

\* A worker between the call of submit or remove and the release of the lock.
Working(w) == pc[w] \in {"lock"} \cup Critical

\* Which worker may be at which step, and that a request carries its input.
JobOK ==
    \A w \in Worker :
        /\ Working(w) => job[w].conv \in Conv
        /\ w \in Conn /\ Working(w) => job[w].key \in Key
        /\ pc[w] \in {"get", "ally", "insert", "commit"} => w \in Conn
        /\ pc[w] \in {"update", "members"} => w \in Http

\* A worker in the critical section holds the stripe of its conversation.
MutexOK ==
    \A w \in Worker : pc[w] \in Critical => lock[StripeOf[job[w].conv]] = w

\* Ids identify rows, and the sequence is ahead of all of them.
TableOK ==
    /\ \A r \in table : r.id < nextId
    /\ \A q, r \in table : q.id = r.id => q = r

\* A worker about to commit owns its open row, newer than every visible one.
CommitOK ==
    \A w \in Worker : pc[w] = "commit" =>
        /\ job[w].id < nextId
        /\ \A r \in table : r.id = job[w].id => r.conv = job[w].conv /\ r.state = "open"
        /\ \A q \in Committed : q.conv = job[w].conv => q.id < job[w].id
        /\ \A v \in Worker : pc[v] = "commit" /\ job[v].id = job[w].id => v = w

IndexInv == JobOK /\ MutexOK /\ TableOK /\ CommitOK

-----------------------------------------------------------------------------
(* What the operators shared by several actions preserve *)

\* A frame pushed to a queue keeps the queues and the budget well typed.
LEMMA EnqueueType ==
    ASSUME TypeOK, NEW c \in Conn, NEW f \in Frame, Enqueue(c, f)
    PROVE  LinksOK' /\ BudgetOK'
<1>1. Append(stream[c], f) \in Seq(Frame)
  BY DEF TypeOK, LinksOK
<1>2. [stream EXCEPT ![c] = Append(@, f)] \in [Conn -> Seq(Frame)]
  BY <1>1 DEF TypeOK, LinksOK
<1>3. [link EXCEPT ![c] = "overflowed"] \in [Conn -> {"new", "open", "overflowed", "closed"}]
  BY DEF TypeOK, LinksOK
<1>4. [budget EXCEPT !["drops"] = @ + 1] \in [Bounded -> Nat]
  BY DEF TypeOK, BudgetOK, Bounded
<1>5. QED
  BY <1>2, <1>3, <1>4 DEF TypeOK, LinksOK, BudgetOK, Enqueue, Spent

\* Leaving the critical section keeps locks, steps and locals well typed.
LEMMA LeaveType ==
    ASSUME TypeOK, NEW w \in Worker,
           NEW o \in {"stored", "duplicate", "rejected", "removed", "notFound", "failed"},
           Leave(w, o)
    PROVE  WorkersOK'
<1>1. job[w] \in Job
  BY DEF TypeOK, WorkersOK
<1>2. [job[w] EXCEPT !.outcome = o, !.to = {}, !.aim = {}] \in Job
  BY <1>1 DEF Job
<1>3. job' = [job EXCEPT ![w] = [job[w] EXCEPT !.outcome = o, !.to = {}, !.aim = {}]]
  BY <1>1 DEF Leave, TypeOK, WorkersOK, Job
<1>4. job' \in [Worker -> Job]
  BY <1>2, <1>3 DEF TypeOK, WorkersOK
<1>5. lock' \in [Stripe -> Worker \cup {None}]
  BY DEF TypeOK, WorkersOK, Leave
<1>6. pc' \in [Worker -> {"idle", "lock", "reply"} \cup Critical]
  BY DEF TypeOK, WorkersOK, Leave
<1>7. QED
  BY <1>4, <1>5, <1>6 DEF WorkersOK

\* The rows an INSERT or an UPDATE leaves behind are rows.
LEMMA StoreType ==
    ASSUME TypeOK, NEW w \in Worker, Store(w)
    PROVE  table' \subseteq Row
<1>1. PICK r \in table :
         table' = (table \ {r}) \cup
             {[r EXCEPT !.state = "live", !.audience = Sockets(job[w].to) \ {w},
                                          !.due = Sockets(members[r.conv]) \ {w}]}
  BY DEF Store
<1>2. r \in Row /\ Sockets(job[w].to) \ {w} \subseteq Conn /\ Sockets(members[r.conv]) \ {w} \subseteq Conn
  BY DEF TypeOK, DataOK, Sockets
<1>3. [r EXCEPT !.state = "live", !.audience = Sockets(job[w].to) \ {w},
                                  !.due = Sockets(members[r.conv]) \ {w}] \in Row
  BY <1>2 DEF Row
<1>4. QED
  BY <1>1, <1>3 DEF TypeOK, DataOK

\* The same for the UPDATE of softDelete.
LEMMA MarkDeletedType ==
    ASSUME TypeOK, NEW w \in Worker, MarkDeleted(w)
    PROVE  table' \subseteq Row
<1>1. PICK r \in Mine(w) :
         table' = (table \ {r}) \cup
             {[r EXCEPT !.state = "deleted", !.mourners = Sockets(members[r.conv])]}
  BY DEF MarkDeleted
<1>2. r \in Row /\ Sockets(members[r.conv]) \subseteq Conn
  BY DEF TypeOK, DataOK, Sockets, Mine, Committed
<1>3. [r EXCEPT !.state = "deleted", !.mourners = Sockets(members[r.conv])] \in Row
  BY <1>2 DEF Row
<1>4. QED
  BY <1>1, <1>3 DEF TypeOK, DataOK

-----------------------------------------------------------------------------
(* Which actions write which variables *)

\* The rows change, and ids are drawn, in the statements of append and
\* softDelete and in a restart.
LEMMA TableWriters ==
    ASSUME [Next]_vars
    PROVE  \/ UNCHANGED <<table, nextId>>
           \/ \E w \in Worker : \/ Insert(w) \/ FindDuplicate(w) \/ Commit(w)
                                \/ SoftDelete(w) \/ AnswerLost(w)
           \/ Crash
BY DEF Next, Environment, Faults, WorkerStep, SubmitStep, RemoveStep, PublishStep, vars,
         Worker, Connect, Disconnect, Refuse, Submit, Lock, GetConversation, CheckAllies,
         Reply, Resolve, Push, FinishPublish, Remove, ReadMembers, Respond, Join, Freeze,
         Thaw, CallFails, EventDropped

\* Memberships and alliances change by the other services only.
LEMMA MembershipWriters ==
    ASSUME [Next]_vars
    PROVE  \/ UNCHANGED <<members, allied>>
           \/ \E u \in User, conv \in Conv : Join(u, conv)
           \/ \E conv \in Conv : Freeze(conv) \/ Thaw(conv)
BY ZenonT(60) DEF Next, Environment, Faults, WorkerStep, SubmitStep, RemoveStep, PublishStep, vars,
         Worker, Connect, Disconnect, Refuse, Submit, Lock, GetConversation, CheckAllies,
         Insert, FindDuplicate, Commit, Reply, Resolve, Push, FinishPublish, Remove,
         SoftDelete, ReadMembers, Respond, CallFails, AnswerLost, EventDropped, Crash

\* Queues and the hub change when a connection comes or goes and when a frame
\* is pushed.
LEMMA LinkWriters ==
    ASSUME [Next]_vars
    PROVE  \/ UNCHANGED <<link, stream>>
           \/ \E c \in Conn : Connect(c) \/ Disconnect(c)
           \/ \E w \in Worker : Push(w) \/ Reply(w)
           \/ Crash
BY ZenonT(60) DEF Next, Environment, Faults, WorkerStep, SubmitStep, RemoveStep, PublishStep, vars,
         Worker, Refuse, Submit, Lock, GetConversation, CheckAllies, Insert, FindDuplicate,
         Commit, Resolve, FinishPublish, Remove, SoftDelete, ReadMembers, Respond, Join,
         Freeze, Thaw, CallFails, AnswerLost, EventDropped

-----------------------------------------------------------------------------
(* Type correctness *)

\* Every step keeps the database well typed.
LEMMA DataStep ==
    ASSUME TypeOK, JobOK, [Next]_vars
    PROVE  DataOK'
<1>1. table' \subseteq Row /\ nextId' \in Nat \ {0}
  <2>1. CASE UNCHANGED <<table, nextId>>
    BY <2>1 DEF TypeOK, DataOK
  <2>2. ASSUME NEW w \in Worker, Insert(w)
        PROVE  table' \subseteq Row /\ nextId' \in Nat \ {0}
    <3>1. /\ nextId \in Nat /\ Owner[w] \in User
          /\ job[w].conv \in Conv /\ job[w].key \in Key
      BY <2>2, ConstantsAssumption DEF Insert, TypeOK, DataOK, JobOK, Working, Critical
    <3>2. QED
      BY <2>2, <3>1 DEF Insert, TypeOK, DataOK, Row
  <2>3. ASSUME NEW w \in Worker, FindDuplicate(w)
        PROVE  table' \subseteq Row /\ nextId' \in Nat \ {0}
    BY <2>3 DEF FindDuplicate, TypeOK, DataOK
  <2>4. ASSUME NEW w \in Worker, Commit(w)
        PROVE  table' \subseteq Row /\ nextId' \in Nat \ {0}
    BY <2>4, StoreType DEF Commit, TypeOK, DataOK
  <2>5. ASSUME NEW w \in Worker, SoftDelete(w)
        PROVE  table' \subseteq Row /\ nextId' \in Nat \ {0}
    BY <2>5, MarkDeletedType DEF SoftDelete, TypeOK, DataOK
  <2>6. ASSUME NEW w \in Worker, AnswerLost(w)
        PROVE  table' \subseteq Row /\ nextId' \in Nat \ {0}
    BY <2>6, StoreType, MarkDeletedType DEF AnswerLost, TypeOK, DataOK
  <2>7. CASE Crash
    BY <2>7 DEF Crash, Committed, TypeOK, DataOK
  <2>8. QED
    BY <2>1, <2>2, <2>3, <2>4, <2>5, <2>6, <2>7, TableWriters
<1>2. members' \in [Conv -> SUBSET User] /\ allied' \subseteq Dm
  <2>1. ASSUME NEW u \in User, NEW conv \in Conv, Join(u, conv)
        PROVE  members' \in [Conv -> SUBSET User] /\ allied' \subseteq Dm
    BY <2>1 DEF Join, TypeOK, DataOK
  <2>2. ASSUME NEW conv \in Conv, Freeze(conv) \/ Thaw(conv)
        PROVE  members' \in [Conv -> SUBSET User] /\ allied' \subseteq Dm
    BY <2>2 DEF Freeze, Thaw, TypeOK, DataOK
  <2>3. QED
    BY <2>1, <2>2, MembershipWriters DEF TypeOK, DataOK
<1>3. QED
  BY <1>1, <1>2 DEF DataOK

\* The frame a worker answers or publishes with is a frame.
LEMMA FrameType ==
    ASSUME TypeOK, NEW w \in Worker
    PROVE  /\ Published(w) \in Frame
           /\ Answer(w) \in Frame
BY DEF TypeOK, WorkersOK, Job, Frame, Published, Answer

\* Every step keeps the connections and their queues well typed.
LEMMA LinksStep ==
    ASSUME TypeOK, [Next]_vars
    PROVE  LinksOK'
<1>1. CASE UNCHANGED <<link, stream>>
  BY <1>1 DEF TypeOK, LinksOK
<1>2. ASSUME NEW c \in Conn, Connect(c) \/ Disconnect(c)
      PROVE  LinksOK'
  BY <1>2 DEF Connect, Disconnect, TypeOK, LinksOK
<1>3. ASSUME NEW w \in Worker, Push(w)
      PROVE  LinksOK'
  <2>1. PICK c \in job[w].aim : Enqueue(c, Published(w))
    BY <1>3 DEF Push
  <2>2. c \in Conn
    BY <2>1 DEF TypeOK, WorkersOK, Job
  <2>3. QED
    BY <2>1, <2>2, FrameType, EnqueueType
<1>4. ASSUME NEW w \in Worker, Reply(w)
      PROVE  LinksOK'
  BY <1>4, FrameType, EnqueueType DEF Reply
<1>5. CASE Crash
  BY <1>5 DEF Crash, TypeOK, LinksOK
<1>6. QED
  BY <1>1, <1>2, <1>3, <1>4, <1>5, LinkWriters

\* Every step keeps the bounded events counted.
LEMMA BudgetStep ==
    ASSUME TypeOK, [Next]_vars
    PROVE  BudgetOK'
<1>1. ASSUME NEW w \in Worker, Push(w)
      PROVE  BudgetOK'
  <2>1. PICK c \in job[w].aim : Enqueue(c, Published(w))
    BY <1>1 DEF Push
  <2>2. c \in Conn
    BY <2>1 DEF TypeOK, WorkersOK, Job
  <2>3. QED
    BY <2>1, <2>2, FrameType, EnqueueType
<1>2. ASSUME NEW w \in Worker, Reply(w)
      PROVE  BudgetOK'
  BY <1>2, FrameType, EnqueueType DEF Reply
<1>3. budget' = budget \/ (\E what \in Bounded : Spent(what)) \/ \E w \in Worker : Push(w) \/ Reply(w)
  BY DEF Bounded, Next, Environment, Faults, WorkerStep, SubmitStep, RemoveStep, PublishStep, vars,
         Worker, Connect, Disconnect, Refuse, Submit, Lock, GetConversation, CheckAllies,
         Insert, FindDuplicate, Commit, Resolve, FinishPublish, Remove, SoftDelete,
         ReadMembers, Respond, Join, Freeze, Thaw, CallFails, AnswerLost, EventDropped,
         Crash
<1>4. ASSUME NEW what \in Bounded, Spent(what)
      PROVE  BudgetOK'
  BY <1>4 DEF Spent, TypeOK, BudgetOK
<1>5. QED
  BY <1>1, <1>2, <1>3, <1>4 DEF TypeOK, BudgetOK

\* Every step keeps the workers and the stripes well typed.
LEMMA WorkersStep ==
    ASSUME TypeOK, JobOK, [Next]_vars
    PROVE  WorkersOK'
<1> USE DEF TypeOK, WorkersOK
<1>1. ASSUME NEW w \in Worker, NEW conv \in Conv, NEW key \in Key, Submit(w, conv, key)
      PROVE  WorkersOK'
  BY <1>1 DEF Submit, NoJob, Job, Critical
<1>2. ASSUME NEW w \in Worker, NEW conv \in Conv, NEW id \in Nat, Remove(w, conv, id)
      PROVE  WorkersOK'
  BY <1>2 DEF Remove, NoJob, Job, Critical
<1>3. ASSUME NEW w \in Worker, Refuse(w)
      PROVE  WorkersOK'
  BY <1>3, ConstantsAssumption DEF Refuse, NoJob, Job, Critical, DataOK
<1>4. ASSUME NEW w \in Worker, Lock(w)
      PROVE  WorkersOK'
  BY <1>4, ConstantsAssumption DEF Lock, Job, Critical, DataOK
<1>5. ASSUME NEW w \in Worker, Commit(w)
      PROVE  WorkersOK'
  BY <1>5, ConstantsAssumption DEF Commit, Job, Critical, DataOK
<1>6. ASSUME NEW w \in Worker, Reply(w)
      PROVE  WorkersOK'
  BY <1>6, ConstantsAssumption DEF Reply, NoJob, Job, Critical, DataOK
<1>7. ASSUME NEW w \in Worker, Respond(w)
      PROVE  WorkersOK'
  BY <1>7, ConstantsAssumption DEF Respond, NoJob, Job, Critical, DataOK
<1>8. ASSUME NEW w \in Worker, Push(w)
      PROVE  WorkersOK'
  <2>1. PICK c \in job[w].aim : job' = [job EXCEPT ![w].aim = @ \ {c}]
    BY <1>8 DEF Push
  <2>2. UNCHANGED <<lock, pc>>
    BY <1>8 DEF Push
  <2>3. QED
    BY <2>1, <2>2 DEF Job
<1>9. ASSUME NEW w \in Worker, SoftDelete(w)
      PROVE  WorkersOK'
  <2>1. CASE Leave(w, "removed") \/ Leave(w, "notFound")
    BY <2>1, LeaveType
  <2>2. CASE pc' = [pc EXCEPT ![w] = "members"] /\ UNCHANGED <<lock, job>>
    BY <2>2 DEF Critical
  <2>3. QED
    BY <1>9, <2>1, <2>2 DEF SoftDelete
<1>10. ASSUME NEW w \in Worker, CallFails(w) \/ AnswerLost(w)
      PROVE  WorkersOK'
  <2>1. Failure(w) \in {"rejected", "failed"}
    BY DEF Failure
  <2>2. QED
    BY <1>10, <2>1, LeaveType DEF CallFails, AnswerLost
<1>11. CASE Crash
  BY <1>11 DEF Crash, NoJob, Job
<1>12. CASE UNCHANGED <<lock, pc, job>>
  BY <1>12
<1>13. ASSUME NEW w \in Worker, GetConversation(w)
      PROVE  WorkersOK'
  <2>1. members[job[w].conv] \in SUBSET User
    BY <1>13 DEF GetConversation, JobOK, Working, Critical, DataOK
  <2>2. CASE Leave(w, "rejected")
    BY <2>2, LeaveType
  <2>3. CASE /\ job' = [job EXCEPT ![w].to = members[job[w].conv]]
             /\ pc' = [pc EXCEPT ![w] = IF job[w].conv \in Dm THEN "ally" ELSE "insert"]
             /\ UNCHANGED lock
    BY SMTT(30), <2>1, <2>3 DEF Job, Critical
  <2>4. QED
    BY <1>13, <2>2, <2>3 DEF GetConversation
<1>14. ASSUME NEW w \in Worker, Insert(w)
      PROVE  WorkersOK'
  <2>1. nextId \in Nat /\ job' = [job EXCEPT ![w].id = nextId]
    BY <1>14 DEF Insert, DataOK
  <2>2. pc' = [pc EXCEPT ![w] = "commit"] /\ UNCHANGED lock
    BY <1>14 DEF Insert
  <2>3. QED
    BY SMTT(30), <2>1, <2>2 DEF Job, Critical
<1>15. ASSUME NEW w \in Worker, FindDuplicate(w)
      PROVE  WorkersOK'
  <2>1. PICK r \in Committed :
          /\ lock' = [lock EXCEPT ![StripeOf[job[w].conv]] = None]
          /\ pc' = [pc EXCEPT ![w] = "reply"]
          /\ job' = [job EXCEPT ![w].id = r.id, ![w].outcome = "duplicate", ![w].to = {}]
    BY <1>15 DEF FindDuplicate
  <2>2. r.id \in Nat
    BY DEF Committed, DataOK, Row
  <2>3. [job[w] EXCEPT !.id = r.id, !.outcome = "duplicate", !.to = {}] \in Job
    BY <2>2 DEF Job
  <2>4. job' = [job EXCEPT ![w] = [job[w] EXCEPT !.id = r.id, !.outcome = "duplicate", !.to = {}]]
    BY <2>1 DEF Job
  <2>5. job' \in [Worker -> Job]
    BY <2>3, <2>4
  <2>6. QED
    BY <2>1, <2>5
<1>16. ASSUME NEW w \in Worker, Resolve(w)
      PROVE  WorkersOK'
  <2>1. PICK u \in job[w].to, aim \in SUBSET Conn :
          job' = [job EXCEPT ![w].to = @ \ {u}, ![w].aim = aim]
    BY <1>16 DEF Resolve
  <2>2. [job[w] EXCEPT !.to = @ \ {u}, !.aim = aim] \in Job
    BY <2>1 DEF Job
  <2>3. job' = [job EXCEPT ![w] = [job[w] EXCEPT !.to = @ \ {u}, !.aim = aim]]
    BY <2>1 DEF Job
  <2>4. UNCHANGED <<lock, pc>>
    BY <1>16 DEF Resolve
  <2>5. QED
    BY <2>2, <2>3, <2>4
<1>17. ASSUME NEW w \in Worker, ReadMembers(w)
      PROVE  WorkersOK'
  <2>1. members[job[w].conv] \in SUBSET User
    BY <1>17 DEF ReadMembers, JobOK, Working, Critical, DataOK
  <2>2. job' = [job EXCEPT ![w].to = members[job[w].conv]]
    BY <1>17 DEF ReadMembers
  <2>3. pc' = [pc EXCEPT ![w] = "publish"] /\ UNCHANGED lock
    BY <1>17 DEF ReadMembers
  <2>4. QED
    BY <2>1, <2>2, <2>3 DEF Job, Critical
<1>18. ASSUME NEW w \in Worker, EventDropped(w)
      PROVE  WorkersOK'
  <2>1. job' = [job EXCEPT ![w].to = {}, ![w].aim = {}] /\ UNCHANGED <<lock, pc>>
    BY <1>18 DEF EventDropped
  <2>2. QED
    BY ZenonT(60), <2>1 DEF Job
<1>19. ASSUME NEW w \in Worker, FinishPublish(w)
      PROVE  WorkersOK'
  BY <1>19, LeaveType DEF FinishPublish
<1>20. ASSUME NEW w \in Worker, CheckAllies(w)
      PROVE  WorkersOK'
  <2>1. CASE Leave(w, "rejected")
    BY <2>1, LeaveType
  <2>2. CASE pc' = [pc EXCEPT ![w] = "insert"] /\ UNCHANGED <<lock, job>>
    BY <2>2 DEF Critical
  <2>3. QED
    BY <1>20, <2>1, <2>2 DEF CheckAllies
<1>21. QED
  BY <1>1, <1>2, <1>3, <1>4, <1>5, <1>6, <1>7, <1>8, <1>9, <1>10, <1>11, <1>12, <1>13,
     <1>14, <1>15, <1>16, <1>17, <1>18, <1>19, <1>20
     DEF Next, Environment, Faults, WorkerStep, SubmitStep, RemoveStep, PublishStep, vars, Worker,
         Connect, Disconnect, Join, Freeze, Thaw

\* Every step keeps the types.
LEMMA TypeStep ==
    ASSUME TypeOK, JobOK, [Next]_vars
    PROVE  TypeOK'
BY DataStep, WorkersStep, LinksStep, BudgetStep DEF TypeOK

-----------------------------------------------------------------------------
(* The critical sections *)

\* Resolving a recipient leaves what the worker publishes alone.
LEMMA ResolveEffect ==
    ASSUME TypeOK, NEW w \in Worker, Resolve(w)
    PROVE  /\ UNCHANGED <<table, nextId, members, allied, lock, pc, link, stream>>
           /\ \A v \in Worker : job'[v].conv = job[v].conv /\ job'[v].key = job[v].key
                                /\ job'[v].id = job[v].id
<1>1. PICK u \in job[w].to, aim \in SUBSET Conn :
        job' = [job EXCEPT ![w].to = @ \ {u}, ![w].aim = aim]
  BY DEF Resolve, TypeOK, WorkersOK
<1>2. \A v \in Worker : job'[v].conv = job[v].conv /\ job'[v].key = job[v].key
                        /\ job'[v].id = job[v].id
  BY <1>1 DEF TypeOK, WorkersOK, Job
<1>3. QED
  BY <1>2 DEF Resolve

\* Every step keeps the program counters and the requests they serve in agreement.
LEMMA JobStep ==
    ASSUME TypeOK, TypeOK', IndexInv, [Next]_vars
    PROVE  JobOK'
<1> USE ConstantsAssumption DEF TypeOK, WorkersOK, DataOK, Job, Row, IndexInv, Working, Critical, JobOK
<1>1. ASSUME NEW w \in Worker, NEW conv \in Conv, NEW key \in Key, Submit(w, conv, key)
      PROVE  JobOK'
  BY <1>1 DEF Submit, NoJob
<1>2. ASSUME NEW w \in Worker, NEW conv \in Conv, NEW id \in Nat, Remove(w, conv, id)
      PROVE  JobOK'
  BY <1>2 DEF Remove, NoJob
<1>3. ASSUME NEW w \in Worker, Refuse(w)
      PROVE  JobOK'
  BY <1>3 DEF Refuse, NoJob
<1>4. ASSUME NEW w \in Worker, Lock(w)
      PROVE  JobOK'
  <2>1. w \notin Conn => w \in Http
    BY DEF Worker
  <2>2. pc' = [pc EXCEPT ![w] = IF w \in Conn THEN "get" ELSE "update"] /\ UNCHANGED job
    BY <1>4 DEF Lock
  <2>3. QED
    BY <1>4, <2>1, <2>2 DEF Lock
<1>5. ASSUME NEW w \in Worker, GetConversation(w)
      PROVE  JobOK'
  BY SMTT(30), <1>5 DEF GetConversation, Leave
<1>6. ASSUME NEW w \in Worker, CheckAllies(w)
      PROVE  JobOK'
  BY <1>6 DEF CheckAllies, Leave
<1>7. ASSUME NEW w \in Worker, Insert(w)
      PROVE  JobOK'
  BY <1>7 DEF Insert, SameKey, Committed
<1>8. ASSUME NEW w \in Worker, FindDuplicate(w)
      PROVE  JobOK'
  BY <1>8 DEF FindDuplicate, SameKey, Committed
<1>9. ASSUME NEW w \in Worker, Commit(w)
      PROVE  JobOK'
  BY <1>9 DEF Commit, Store, Sockets
<1>10. ASSUME NEW w \in Worker, Reply(w)
      PROVE  JobOK'
  BY <1>10 DEF Reply, NoJob
<1>11. ASSUME NEW w \in Worker, Resolve(w)
      PROVE  JobOK'
  BY <1>11, ResolveEffect
<1>12. ASSUME NEW w \in Worker, Push(w)
      PROVE  JobOK'
  BY <1>12 DEF Push
<1>13. ASSUME NEW w \in Worker, FinishPublish(w)
      PROVE  JobOK'
  BY <1>13 DEF FinishPublish, Leave
<1>14. ASSUME NEW w \in Worker, SoftDelete(w)
      PROVE  JobOK'
  <2>1. CASE Leave(w, "removed") \/ Leave(w, "notFound")
    BY <2>1 DEF Leave
  <2>2. CASE pc' = [pc EXCEPT ![w] = "members"] /\ UNCHANGED <<lock, job>>
    BY <2>2, <1>14 DEF SoftDelete
  <2>3. QED
    BY <1>14, <2>1, <2>2 DEF SoftDelete
<1>15. ASSUME NEW w \in Worker, ReadMembers(w)
      PROVE  JobOK'
  BY <1>15 DEF ReadMembers
<1>16. ASSUME NEW w \in Worker, Respond(w)
      PROVE  JobOK'
  BY <1>16 DEF Respond, NoJob
<1>17. ASSUME NEW w \in Worker, CallFails(w)
      PROVE  JobOK'
  BY <1>17 DEF CallFails, Leave, Failure
<1>18. ASSUME NEW w \in Worker, AnswerLost(w)
      PROVE  JobOK'
  <2>1. Leave(w, Failure(w)) /\ pc[w] \in {"commit", "update"}
    BY <1>18 DEF AnswerLost
  <2>2. QED
    BY <2>1 DEF Leave
<1>19. ASSUME NEW w \in Worker, EventDropped(w)
      PROVE  JobOK'
  BY <1>19 DEF EventDropped
<1>20. CASE Crash
  BY <1>20 DEF Crash, NoJob, Committed
<1>21. CASE UNCHANGED <<table, nextId, lock, pc, job>>
  BY <1>21 DEF Committed
<1> HIDE DEF TypeOK, WorkersOK, DataOK, Job, Row, IndexInv, Working, Critical, JobOK
<1>22. QED
  BY SMTT(60), <1>1, <1>2, <1>3, <1>4, <1>5, <1>6, <1>7, <1>8, <1>9, <1>10, <1>11, <1>12, <1>13,
     <1>14, <1>15, <1>16, <1>17, <1>18, <1>19, <1>20, <1>21
     DEF Next, Environment, Faults, WorkerStep, SubmitStep, RemoveStep, PublishStep, vars, Worker,
         Connect, Disconnect, Join, Freeze, Thaw

\* Every step keeps the stripes exclusive.
LEMMA MutexStep ==
    ASSUME TypeOK, TypeOK', IndexInv, [Next]_vars
    PROVE  MutexOK'
<1> USE ConstantsAssumption DEF TypeOK, WorkersOK, DataOK, Job, Row, IndexInv, Working, Critical, JobOK, MutexOK
<1>1. ASSUME NEW w \in Worker, NEW conv \in Conv, NEW key \in Key, Submit(w, conv, key)
      PROVE  MutexOK'
  BY <1>1 DEF Submit, NoJob
<1>2. ASSUME NEW w \in Worker, NEW conv \in Conv, NEW id \in Nat, Remove(w, conv, id)
      PROVE  MutexOK'
  BY <1>2 DEF Remove, NoJob
<1>3. ASSUME NEW w \in Worker, Refuse(w)
      PROVE  MutexOK'
  BY <1>3 DEF Refuse, NoJob
<1>4. ASSUME NEW w \in Worker, Lock(w)
      PROVE  MutexOK'
  BY <1>4 DEF Lock
<1>5. ASSUME NEW w \in Worker, GetConversation(w)
      PROVE  MutexOK'
  BY SMTT(30), <1>5 DEF GetConversation, Leave
<1>6. ASSUME NEW w \in Worker, CheckAllies(w)
      PROVE  MutexOK'
  BY <1>6 DEF CheckAllies, Leave
<1>7. ASSUME NEW w \in Worker, Insert(w)
      PROVE  MutexOK'
  BY <1>7 DEF Insert, SameKey, Committed
<1>8. ASSUME NEW w \in Worker, FindDuplicate(w)
      PROVE  MutexOK'
  BY <1>8 DEF FindDuplicate, SameKey, Committed
<1>9. ASSUME NEW w \in Worker, Commit(w)
      PROVE  MutexOK'
  BY ZenonT(60), <1>9 DEF Commit, Store, Sockets
<1>10. ASSUME NEW w \in Worker, Reply(w)
      PROVE  MutexOK'
  BY <1>10 DEF Reply, NoJob
<1>11. ASSUME NEW w \in Worker, Resolve(w)
      PROVE  MutexOK'
  BY <1>11, ResolveEffect
<1>12. ASSUME NEW w \in Worker, Push(w)
      PROVE  MutexOK'
  BY <1>12 DEF Push
<1>13. ASSUME NEW w \in Worker, FinishPublish(w)
      PROVE  MutexOK'
  BY <1>13 DEF FinishPublish, Leave
<1>14. ASSUME NEW w \in Worker, SoftDelete(w)
      PROVE  MutexOK'
  <2>1. CASE Leave(w, "removed") \/ Leave(w, "notFound")
    BY <2>1, <1>14 DEF Leave, SoftDelete
  <2>2. CASE pc' = [pc EXCEPT ![w] = "members"] /\ UNCHANGED <<lock, job>>
    BY <2>2, <1>14 DEF SoftDelete
  <2>3. QED
    BY <1>14, <2>1, <2>2 DEF SoftDelete
<1>15. ASSUME NEW w \in Worker, ReadMembers(w)
      PROVE  MutexOK'
  BY <1>15 DEF ReadMembers
<1>16. ASSUME NEW w \in Worker, Respond(w)
      PROVE  MutexOK'
  BY <1>16 DEF Respond, NoJob
<1>17. ASSUME NEW w \in Worker, CallFails(w)
      PROVE  MutexOK'
  BY <1>17 DEF CallFails, Leave, Failure
<1>18. ASSUME NEW w \in Worker, AnswerLost(w)
      PROVE  MutexOK'
  <2>1. Leave(w, Failure(w)) /\ pc[w] \in {"commit", "update"}
    BY <1>18 DEF AnswerLost
  <2>2. QED
    BY <2>1 DEF Leave
<1>19. ASSUME NEW w \in Worker, EventDropped(w)
      PROVE  MutexOK'
  BY <1>19 DEF EventDropped
<1>20. CASE Crash
  BY <1>20 DEF Crash, NoJob, Committed
<1>21. CASE UNCHANGED <<table, nextId, lock, pc, job>>
  BY <1>21 DEF Committed
<1> HIDE DEF TypeOK, WorkersOK, DataOK, Job, Row, IndexInv, Working, Critical, JobOK, MutexOK
<1>22. QED
  BY SMTT(60), <1>1, <1>2, <1>3, <1>4, <1>5, <1>6, <1>7, <1>8, <1>9, <1>10, <1>11, <1>12, <1>13,
     <1>14, <1>15, <1>16, <1>17, <1>18, <1>19, <1>20, <1>21
     DEF Next, Environment, Faults, WorkerStep, SubmitStep, RemoveStep, PublishStep, vars, Worker,
         Connect, Disconnect, Join, Freeze, Thaw

\* What the commit of an INSERT does to the table: one row turns visible.
LEMMA StoreEffect ==
    ASSUME TypeOK, NEW w \in Worker, Store(w)
    PROVE  \E r \in table, new \in Row :
             /\ r.id = job[w].id /\ new.id = r.id /\ new.conv = r.conv
             /\ new.state = "live"
             /\ table' = (table \ {r}) \cup {new}
<1>1. PICK r \in table :
         /\ r.id = job[w].id
         /\ table' = (table \ {r}) \cup
             {[r EXCEPT !.state = "live", !.audience = Sockets(job[w].to) \ {w},
                                          !.due = Sockets(members[r.conv]) \ {w}]}
  BY DEF Store
<1>2. r \in Row /\ Sockets(job[w].to) \ {w} \subseteq Conn /\ Sockets(members[r.conv]) \ {w} \subseteq Conn
  BY DEF TypeOK, DataOK, Sockets
<1> DEFINE new == [r EXCEPT !.state = "live", !.audience = Sockets(job[w].to) \ {w},
                                              !.due = Sockets(members[r.conv]) \ {w}]
<1>3. new \in Row /\ new.id = r.id /\ new.conv = r.conv /\ new.state = "live"
  BY <1>2 DEF Row
<1>4. QED
  BY <1>1, <1>3

\* What the UPDATE does to the table: one visible row becomes a tombstone.
LEMMA MarkDeletedEffect ==
    ASSUME TypeOK, NEW w \in Worker, MarkDeleted(w)
    PROVE  \E r \in Committed, new \in Row :
             /\ r.id = job[w].id /\ new.id = r.id
             /\ r.conv = job[w].conv /\ new.conv = r.conv
             /\ new.state = "deleted"
             /\ table' = (table \ {r}) \cup {new}
<1>1. PICK r \in Mine(w) :
         table' = (table \ {r}) \cup
             {[r EXCEPT !.state = "deleted", !.mourners = Sockets(members[r.conv])]}
  BY DEF MarkDeleted
<1>2. /\ r \in Row /\ r \in Committed /\ r.id = job[w].id /\ r.conv = job[w].conv
      /\ Sockets(members[r.conv]) \subseteq Conn
  BY DEF TypeOK, DataOK, Sockets, Mine, Committed
<1> DEFINE new == [r EXCEPT !.state = "deleted", !.mourners = Sockets(members[r.conv])]
<1>3. new \in Row /\ new.id = r.id /\ new.conv = r.conv /\ new.state = "deleted"
  BY <1>2 DEF Row
<1>4. QED
  BY <1>1, <1>2, <1>3

\* Every step keeps ids unique and below the sequence.
LEMMA TableStep ==
    ASSUME TypeOK, IndexInv, [Next]_vars
    PROVE  TableOK'
<1> USE DEF IndexInv, TableOK
<1>1. CASE UNCHANGED <<table, nextId>>
  BY <1>1
<1>2. ASSUME NEW w \in Worker, Insert(w)
      PROVE  TableOK'
  <2>1. nextId \in Nat /\ nextId' = nextId + 1 /\ \A r \in table : r.id \in Nat
    BY <1>2 DEF Insert, TypeOK, DataOK, Row
  <2>2. \E new : new.id = nextId /\ table' = table \cup {new}
    BY <1>2 DEF Insert
  <2>3. QED
    BY <2>1, <2>2
<1>3. ASSUME NEW w \in Worker, FindDuplicate(w)
      PROVE  TableOK'
  BY <1>3 DEF FindDuplicate, TypeOK, DataOK, Row
<1>4. ASSUME NEW w \in Worker, Store(w), nextId' = nextId
      PROVE  TableOK'
  <2>1. \E r \in table, new \in Row : new.id = r.id /\ table' = (table \ {r}) \cup {new}
    BY <1>4, StoreEffect
  <2>2. QED
    BY <1>4, <2>1
<1>5. ASSUME NEW w \in Worker, MarkDeleted(w), nextId' = nextId
      PROVE  TableOK'
  <2>1. \E r \in table, new \in Row : new.id = r.id /\ table' = (table \ {r}) \cup {new}
    BY <1>5, MarkDeletedEffect DEF Committed
  <2>2. QED
    BY <1>5, <2>1
<1>6. ASSUME table' \subseteq table, nextId' = nextId
      PROVE  TableOK'
  BY <1>6
<1>7. QED
  BY <1>1, <1>2, <1>3, <1>4, <1>5, <1>6, TableWriters
     DEF Commit, SoftDelete, AnswerLost, Crash, Committed

\* Two workers in critical sections of one conversation are one worker.
LEMMA OneAtATime ==
    ASSUME MutexOK, NEW v \in Worker, NEW w \in Worker,
           pc[v] \in Critical, pc[w] \in Critical, job[v].conv = job[w].conv
    PROVE  v = w
BY DEF MutexOK

\* The commit of w leaves every other worker that is about to commit newest.
LEMMA CommitAfterStore ==
    ASSUME TypeOK, IndexInv, NEW w \in Worker, pc[w] = "commit", Store(w),
           nextId' = nextId, pc'[w] # "commit",
           \A v \in Worker \ {w} : pc'[v] = pc[v] /\ job'[v] = job[v]
    PROVE  CommitOK'
<1>1. PICK r \in table, new \in Row :
         /\ r.id = job[w].id /\ new.id = r.id /\ new.conv = r.conv /\ new.state = "live"
         /\ table' = (table \ {r}) \cup {new}
  BY StoreEffect
<1>2. r.conv = job[w].conv
  BY <1>1 DEF IndexInv, CommitOK
<1> SUFFICES ASSUME NEW v \in Worker, pc'[v] = "commit"
             PROVE  /\ job'[v].id < nextId'
                    /\ \A q \in table' : q.id = job'[v].id => q.conv = job'[v].conv /\ q.state = "open"
                    /\ \A q \in Committed' : q.conv = job'[v].conv => q.id < job'[v].id
                    /\ \A x \in Worker : pc'[x] = "commit" /\ job'[x].id = job'[v].id => x = v
  BY DEF CommitOK
<1>3. v # w /\ pc[v] = "commit" /\ job'[v] = job[v]
  OBVIOUS
<1>4. job[v].id # job[w].id /\ job[v].conv # job[w].conv
  BY <1>3, OneAtATime DEF IndexInv, CommitOK, Critical
<1>5. job'[v].id < nextId'
  BY <1>3 DEF IndexInv, CommitOK
<1>6. \A q \in table' : q.id = job'[v].id => q.conv = job'[v].conv /\ q.state = "open"
  BY <1>1, <1>3, <1>4 DEF IndexInv, CommitOK
<1>7. \A q \in Committed' : q.conv = job'[v].conv => q.id < job'[v].id
  BY <1>1, <1>2, <1>3, <1>4 DEF IndexInv, CommitOK, Committed
<1>8. \A x \in Worker : pc'[x] = "commit" /\ job'[x].id = job'[v].id => x = v
  BY <1>3 DEF IndexInv, CommitOK
<1>9. QED
  BY <1>5, <1>6, <1>7, <1>8

\* A deletion leaves every worker that is about to commit newest.
LEMMA CommitAfterDelete ==
    ASSUME TypeOK, IndexInv, NEW w \in Worker, MarkDeleted(w),
           nextId' = nextId, pc'[w] # "commit",
           \A v \in Worker \ {w} : pc'[v] = pc[v] /\ job'[v] = job[v]
    PROVE  CommitOK'
<1>1. PICK r \in Committed, new \in Row :
         /\ new.id = r.id /\ new.conv = r.conv /\ new.state = "deleted"
         /\ table' = (table \ {r}) \cup {new}
  BY MarkDeletedEffect
<1> SUFFICES ASSUME NEW v \in Worker, pc'[v] = "commit"
             PROVE  /\ job'[v].id < nextId'
                    /\ \A q \in table' : q.id = job'[v].id => q.conv = job'[v].conv /\ q.state = "open"
                    /\ \A q \in Committed' : q.conv = job'[v].conv => q.id < job'[v].id
                    /\ \A x \in Worker : pc'[x] = "commit" /\ job'[x].id = job'[v].id => x = v
  BY DEF CommitOK
<1>2. v # w /\ pc[v] = "commit" /\ job'[v] = job[v]
  OBVIOUS
<1>3. r \in table /\ r.state # "open" /\ r.id # job[v].id
  BY <1>2 DEF IndexInv, CommitOK, Committed
<1>4. job'[v].id < nextId'
  BY <1>2 DEF IndexInv, CommitOK
<1>5. \A q \in table' : q.id = job'[v].id => q.conv = job'[v].conv /\ q.state = "open"
  BY <1>1, <1>2, <1>3 DEF IndexInv, CommitOK
<1>6. \A q \in Committed' : q.conv = job'[v].conv => q.id < job'[v].id
  BY <1>1, <1>2, <1>3 DEF IndexInv, CommitOK, Committed
<1>7. \A x \in Worker : pc'[x] = "commit" /\ job'[x].id = job'[v].id => x = v
  BY <1>2 DEF IndexInv, CommitOK
<1>8. QED
  BY <1>4, <1>5, <1>6, <1>7
\* A worker about to commit stays newest when no row is added or changed.
LEMMA CommitUntouched ==
    ASSUME IndexInv, table' \subseteq table, nextId' = nextId,
           \A v \in Worker : pc'[v] = "commit" =>
               pc[v] = "commit" /\ job'[v].id = job[v].id /\ job'[v].conv = job[v].conv
    PROVE  CommitOK'
BY DEF IndexInv, CommitOK, Committed

\* Every step keeps the index of the conversation in commit order.
LEMMA CommitStep ==
    ASSUME TypeOK, TypeOK', IndexInv, [Next]_vars
    PROVE  CommitOK'
<1> USE ConstantsAssumption DEF TypeOK, WorkersOK, DataOK, Job, Row, IndexInv, Working, Critical, JobOK, MutexOK, TableOK, CommitOK, Committed
<1>1. ASSUME NEW w \in Worker, NEW conv \in Conv, NEW key \in Key, Submit(w, conv, key)
      PROVE  CommitOK'
  BY <1>1 DEF Submit, NoJob
<1>2. ASSUME NEW w \in Worker, NEW conv \in Conv, NEW id \in Nat, Remove(w, conv, id)
      PROVE  CommitOK'
  BY <1>2 DEF Remove, NoJob
<1>3. ASSUME NEW w \in Worker, Refuse(w)
      PROVE  CommitOK'
  BY <1>3 DEF Refuse, NoJob
<1>4. ASSUME NEW w \in Worker, Lock(w)
      PROVE  CommitOK'
  BY <1>4 DEF Lock
<1>5. ASSUME NEW w \in Worker, GetConversation(w)
      PROVE  CommitOK'
  BY SMTT(30), <1>5 DEF GetConversation, Leave
<1>6. ASSUME NEW w \in Worker, CheckAllies(w)
      PROVE  CommitOK'
  BY SMTT(30), <1>6 DEF CheckAllies, Leave
<1>7. ASSUME NEW w \in Worker, Insert(w)
      PROVE  CommitOK'
  BY <1>7 DEF Insert, SameKey, Committed
<1>8. ASSUME NEW w \in Worker, FindDuplicate(w)
      PROVE  CommitOK'
  BY <1>8 DEF FindDuplicate, SameKey, Committed
<1>9. ASSUME NEW w \in Worker, Commit(w)
      PROVE  CommitOK'
  <2>1. Store(w) /\ nextId' = nextId /\ pc[w] = "commit"
    BY <1>9 DEF Commit
  <2>2. pc'[w] # "commit" /\ \A v \in Worker \ {w} : pc'[v] = pc[v] /\ job'[v] = job[v]
    BY <1>9 DEF Commit
  <2>3. QED
    BY <2>1, <2>2, CommitAfterStore
<1>10. ASSUME NEW w \in Worker, Reply(w)
      PROVE  CommitOK'
  BY <1>10 DEF Reply, NoJob
<1>11. ASSUME NEW w \in Worker, Resolve(w)
      PROVE  CommitOK'
  BY <1>11, ResolveEffect, CommitUntouched
<1>12. ASSUME NEW w \in Worker, Push(w)
      PROVE  CommitOK'
  BY <1>12 DEF Push
<1>13. ASSUME NEW w \in Worker, FinishPublish(w)
      PROVE  CommitOK'
  BY <1>13 DEF FinishPublish, Leave
<1>14. ASSUME NEW w \in Worker, SoftDelete(w)
      PROVE  CommitOK'
  <2>1. CASE MarkDeleted(w)
    <3>1. nextId' = nextId /\ pc'[w] # "commit"
      BY <1>14 DEF SoftDelete, Leave
    <3>2. \A v \in Worker \ {w} : pc'[v] = pc[v] /\ job'[v] = job[v]
      BY <1>14 DEF SoftDelete, Leave
    <3>3. QED
      BY <2>1, <3>1, <3>2, CommitAfterDelete
  <2>2. CASE UNCHANGED table
    <3>1. \A v \in Worker : pc'[v] = "commit" => pc[v] = "commit" /\ job'[v] = job[v]
      BY <1>14 DEF SoftDelete, Leave
    <3>2. nextId' = nextId
      BY <1>14 DEF SoftDelete
    <3>3. QED
      BY <2>2, <3>1, <3>2, CommitUntouched
  <2>3. QED
    BY <1>14, <2>1, <2>2 DEF SoftDelete
<1>15. ASSUME NEW w \in Worker, ReadMembers(w)
      PROVE  CommitOK'
  BY <1>15 DEF ReadMembers
<1>16. ASSUME NEW w \in Worker, Respond(w)
      PROVE  CommitOK'
  BY <1>16 DEF Respond, NoJob
<1>17. ASSUME NEW w \in Worker, CallFails(w)
      PROVE  CommitOK'
  BY <1>17 DEF CallFails, Leave, Failure
<1>18. ASSUME NEW w \in Worker, AnswerLost(w)
      PROVE  CommitOK'
  <2>1. nextId' = nextId /\ Leave(w, Failure(w)) /\ pc'[w] # "commit"
    BY <1>18 DEF AnswerLost, Leave
  <2>2. \A v \in Worker \ {w} : pc'[v] = pc[v] /\ job'[v] = job[v]
    BY <2>1 DEF Leave
  <2>3. CASE pc[w] = "commit" /\ Store(w)
    BY <2>1, <2>2, <2>3, CommitAfterStore
  <2>4. CASE MarkDeleted(w)
    BY <2>1, <2>2, <2>4, CommitAfterDelete
  <2>5. CASE table' = {r \in table : r.id # job[w].id}
    BY <2>1, <2>2, <2>5, CommitUntouched
  <2>6. QED
    BY <1>18, <2>3, <2>4, <2>5 DEF AnswerLost
<1>19. ASSUME NEW w \in Worker, EventDropped(w)
      PROVE  CommitOK'
  BY <1>19 DEF EventDropped
<1>20. CASE Crash
  BY <1>20 DEF Crash, NoJob, Committed
<1>21. CASE UNCHANGED <<table, nextId, lock, pc, job>>
  BY <1>21 DEF Committed
<1> HIDE DEF TypeOK, WorkersOK, DataOK, Job, Row, IndexInv, Working, Critical, JobOK, MutexOK, TableOK, CommitOK, Committed
<1>22. QED
  BY SMTT(60), <1>1, <1>2, <1>3, <1>4, <1>5, <1>6, <1>7, <1>8, <1>9, <1>10, <1>11, <1>12, <1>13,
     <1>14, <1>15, <1>16, <1>17, <1>18, <1>19, <1>20, <1>21
     DEF Next, Environment, Faults, WorkerStep, SubmitStep, RemoveStep, PublishStep, vars, Worker,
         Connect, Disconnect, Join, Freeze, Thaw

-----------------------------------------------------------------------------
(* The theorems *)

\* The strengthened invariant holds initially.
LEMMA InitInv ==
    ASSUME Init
    PROVE  TypeOK /\ IndexInv
<1>1. DataOK
  BY ConstantsAssumption DEF Init, DataOK
<1>2. WorkersOK
  BY DEF Init, WorkersOK, NoJob, Job
<1>3. LinksOK
  BY DEF Init, LinksOK
<1>4. BudgetOK
  BY DEF Init, BudgetOK
<1>5. IndexInv
  BY DEF Init, IndexInv, JobOK, MutexOK, TableOK, CommitOK, Working, Critical, Committed
<1>6. QED
  BY <1>1, <1>2, <1>3, <1>4, <1>5 DEF TypeOK

\* Every step keeps the strengthened invariant.
LEMMA InvStep ==
    ASSUME TypeOK, IndexInv, [Next]_vars
    PROVE  TypeOK' /\ IndexInv'
<1>1. TypeOK'
  BY TypeStep DEF IndexInv
<1>2. QED
  BY <1>1, JobStep, MutexStep, TableStep, CommitStep DEF IndexInv

\* Ids are unique, the stripes exclude, and a worker that is about to commit
\* holds the newest id of its conversation, in every reachable state.
THEOREM IndexCorrect == Spec => [](TypeOK /\ IndexInv)
BY InitInv, InvStep, PTL DEF Spec

\* The variables of ChatService keep their types in every reachable state.
THEOREM TypeCorrect == Spec => []TypeOK
BY IndexCorrect, PTL

\* One step makes at most the row of the committing worker visible, and that
\* row is newer than every visible row of its conversation.
LEMMA CommitOrderStep ==
    ASSUME TypeOK, IndexInv, [Next]_vars,
           NEW r \in Committed', \A q \in Committed : q.id # r.id,
           NEW q \in Committed, q.conv = r.conv
    PROVE  q.id < r.id
<1>1. ASSUME NEW w \in Worker, pc[w] = "commit", Store(w)
      PROVE  q.id < r.id
  <2>1. PICK old \in table, new \in Row :
           /\ old.id = job[w].id /\ new.id = old.id /\ new.conv = old.conv
           /\ table' = (table \ {old}) \cup {new}
    BY <1>1, StoreEffect
  <2>2. r = new
    BY <2>1 DEF Committed
  <2>3. QED
    BY <1>1, <2>1, <2>2 DEF IndexInv, CommitOK
<1>2. ASSUME NEW w \in Worker, MarkDeleted(w)
      PROVE  FALSE
  <2>1. PICK old \in Committed, new \in Row :
           new.id = old.id /\ table' = (table \ {old}) \cup {new}
    BY <1>2, MarkDeletedEffect
  <2>2. QED
    BY <2>1 DEF Committed
<1>3. ASSUME NEW w \in Worker, Insert(w)
      PROVE  FALSE
  BY <1>3 DEF Insert, Committed
<1>4. ASSUME table' \subseteq table
      PROVE  FALSE
  BY <1>4 DEF Committed
<1>5. QED
  BY <1>1, <1>2, <1>3, <1>4, TableWriters
     DEF Commit, SoftDelete, FindDuplicate, AnswerLost, Crash, Committed

\* In one conversation rows become visible in id order: a reader that has seen
\* id n has nothing below n left to come.
THEOREM CommitsAscend == Spec => CommitsInIdOrder
<1>1. TypeOK /\ IndexInv /\ [Next]_vars =>
        [\A r \in Committed' :
           (\A q \in Committed : q.id # r.id) =>
              \A q \in Committed : q.conv = r.conv => q.id < r.id]_vars
  BY CommitOrderStep
<1>2. QED
  BY <1>1, IndexCorrect, PTL DEF Spec, CommitsInIdOrder
-----------------------------------------------------------------------------
(* The order of delivery *)

\* Every message of w's conversation that c has been sent is older than w's.
Older(c, w) ==
    \A i \in 1 .. Len(stream[c]) :
        stream[c][i].kind = "message" /\ stream[c][i].conv = job[w].conv
        => stream[c][i].id < job[w].id

\* The connections w has yet to push its event to.
Pending(w) == {c \in Conn : c \in job[w].aim \/ Owner[c] \in job[w].to}

\* Only ids that were drawn have been sent.
FramesOK ==
    \A c \in Conn : \A i \in 1 .. Len(stream[c]) :
        stream[c][i].kind = "message" => stream[c][i].id < nextId

\* A user is either still to be resolved or resolved.
AimOK ==
    \A w \in Worker :
        /\ pc[w] # "publish" => job[w].aim = {}
        /\ \A c \in job[w].aim : Owner[c] \notin job[w].to

\* What a sender commits and publishes is newer than what was sent before.
NewestOK ==
    \A w \in Conn :
        /\ pc[w] = "commit" => \A c \in Conn : Older(c, w)
        /\ pc[w] = "publish" => job[w].id < nextId /\ \A c \in Pending(w) : Older(c, w)

DeliveryInv == FramesOK /\ AimOK /\ NewestOK /\ OrderedDelivery

\* A queue only ever grows by the frame that is pushed.
LEMMA EnqueueEffect ==
    ASSUME TypeOK, NEW c \in Conn, NEW f \in Frame, Enqueue(c, f), NEW d \in Conn
    PROVE  \A i \in 1 .. Len(stream'[d]) :
             \/ i \in 1 .. Len(stream[d]) /\ stream'[d][i] = stream[d][i]
             \/ d = c /\ i = Len(stream[d]) + 1 /\ stream'[d][i] = f
<1>1. stream[d] \in Seq(Frame)
  BY DEF TypeOK, LinksOK
<1>2. stream' = stream \/ stream' = [stream EXCEPT ![c] = Append(stream[c], f)]
  BY DEF Enqueue
<1>3. CASE stream' = stream
  BY <1>3
<1>4. CASE d # c /\ stream' = [stream EXCEPT ![c] = Append(stream[c], f)]
  BY <1>4 DEF TypeOK, LinksOK
<1>5. CASE d = c /\ stream' = [stream EXCEPT ![c] = Append(stream[c], f)]
  <2>1. stream'[d] = Append(stream[d], f)
    BY <1>5 DEF TypeOK, LinksOK
  <2>2. QED
    BY <1>1, <1>5, <2>1
<1>6. QED
  BY <1>2, <1>3, <1>4, <1>5

\* Ids are drawn upwards.
LEMMA IdsGrow ==
    ASSUME TypeOK, [Next]_vars
    PROVE  nextId \in Nat /\ nextId' \in Nat /\ nextId =< nextId'
<1>1. nextId \in Nat /\ (nextId' = nextId \/ nextId' = nextId + 1)
  BY TableWriters DEF Insert, FindDuplicate, Commit, SoftDelete, AnswerLost, Crash, TypeOK, DataOK
<1>2. QED
  BY <1>1

\* How a sender comes to be about to commit or to publish.
LEMMA Arrivals ==
    ASSUME TypeOK, JobOK, [Next]_vars, NEW v \in Conn, pc'[v] \in {"commit", "publish"}
    PROVE  \/ Insert(v) \/ Commit(v) \/ Resolve(v) \/ Push(v)
           \/ /\ pc'[v] = pc[v]
              /\ job'[v].conv = job[v].conv /\ job'[v].id = job[v].id
              /\ job'[v].to \subseteq job[v].to /\ job'[v].aim \subseteq job[v].aim
<1> DEFINE Goal == \/ Insert(v) \/ Commit(v) \/ Resolve(v) \/ Push(v)
                   \/ /\ pc'[v] = pc[v]
                      /\ job'[v].conv = job[v].conv /\ job'[v].id = job[v].id
                      /\ job'[v].to \subseteq job[v].to /\ job'[v].aim \subseteq job[v].aim
<1> USE ConstantsAssumption DEF TypeOK, WorkersOK, Job, Worker
<1>1. ASSUME NEW w \in Worker, NEW conv \in Conv, NEW key \in Key, Submit(w, conv, key)
      PROVE  Goal
  BY <1>1 DEF Submit, NoJob
<1>2. ASSUME NEW w \in Worker, NEW conv \in Conv, NEW id \in Nat, Remove(w, conv, id)
      PROVE  Goal
  BY <1>2 DEF Remove, NoJob
<1>3. ASSUME NEW w \in Worker, Refuse(w)
      PROVE  Goal
  BY <1>3 DEF Refuse, NoJob
<1>4. ASSUME NEW w \in Worker, Lock(w)
      PROVE  Goal
  BY <1>4 DEF Lock
<1>5. ASSUME NEW w \in Worker, GetConversation(w)
      PROVE  Goal
  BY <1>5 DEF GetConversation, Leave
<1>6. ASSUME NEW w \in Worker, CheckAllies(w)
      PROVE  Goal
  BY <1>6 DEF CheckAllies, Leave
<1>7. ASSUME NEW w \in Worker, FindDuplicate(w)
      PROVE  Goal
  BY <1>7 DEF FindDuplicate
<1>8. ASSUME NEW w \in Worker, Reply(w)
      PROVE  Goal
  BY <1>8 DEF Reply, NoJob
<1>9. ASSUME NEW w \in Worker, FinishPublish(w)
      PROVE  Goal
  BY <1>9 DEF FinishPublish, Leave
<1>10. ASSUME NEW w \in Worker, SoftDelete(w)
      PROVE  Goal
  BY <1>10 DEF SoftDelete, Leave
<1>11. ASSUME NEW w \in Worker, ReadMembers(w)
      PROVE  Goal
  BY <1>11 DEF ReadMembers, JobOK, Working, Critical
<1>12. ASSUME NEW w \in Worker, Respond(w)
      PROVE  Goal
  BY <1>12 DEF Respond, NoJob
<1>13. ASSUME NEW w \in Worker, CallFails(w)
      PROVE  Goal
  BY <1>13 DEF CallFails, Leave
<1>14. ASSUME NEW w \in Worker, AnswerLost(w)
      PROVE  Goal
  BY <1>14 DEF AnswerLost, Leave
<1>15. ASSUME NEW w \in Worker, EventDropped(w)
      PROVE  Goal
  BY <1>15 DEF EventDropped
<1>16. ASSUME NEW w \in Worker, Insert(w)
      PROVE  Goal
  <2>1. CASE w = v
    BY <2>1, <1>16
  <2>2. CASE w # v
    <3>1. pc'[v] = pc[v] /\ job'[v] = job[v]
      BY <2>2, <1>16 DEF Insert
    <3>2. QED
      BY <3>1
  <2>3. QED
    BY <2>1, <2>2
<1>17. ASSUME NEW w \in Worker, Commit(w)
      PROVE  Goal
  <2>1. CASE w = v
    BY <2>1, <1>17
  <2>2. CASE w # v
    <3>1. pc'[v] = pc[v] /\ job'[v] = job[v]
      BY <2>2, <1>17 DEF Commit
    <3>2. QED
      BY <3>1
  <2>3. QED
    BY <2>1, <2>2
<1>18. ASSUME NEW w \in Worker, Resolve(w)
      PROVE  Goal
  <2>1. CASE w = v
    BY <2>1, <1>18
  <2>2. CASE w # v
    <3>1. pc'[v] = pc[v] /\ job'[v] = job[v]
      BY <2>2, <1>18 DEF Resolve
    <3>2. QED
      BY <3>1
  <2>3. QED
    BY <2>1, <2>2
<1>19. ASSUME NEW w \in Worker, Push(w)
      PROVE  Goal
  <2>1. CASE w = v
    BY <2>1, <1>19
  <2>2. CASE w # v
    <3>1. pc'[v] = pc[v] /\ job'[v] = job[v]
      BY <2>2, <1>19 DEF Push
    <3>2. QED
      BY <3>1
  <2>3. QED
    BY <2>1, <2>2
<1>20. CASE Crash
  BY <1>20 DEF Crash
<1>21. CASE UNCHANGED <<pc, job>>
  BY <1>21
<1> HIDE DEF TypeOK, WorkersOK, Job
<1>22. QED
  BY SMTT(60), <1>1, <1>2, <1>3, <1>4, <1>5, <1>6, <1>7, <1>8, <1>9, <1>10, <1>11, <1>12, <1>13, <1>14, <1>15, <1>16, <1>17, <1>18, <1>19, <1>20, <1>21
     DEF Next, Environment, Faults, WorkerStep, SubmitStep, RemoveStep, PublishStep, vars,
         Connect, Disconnect, Join, Freeze, Thaw
\* A message frame is new to a queue only when its sender pushes it there.
LEMMA NewFrame ==
    ASSUME TypeOK, [Next]_vars, NEW d \in Conn, NEW i \in 1 .. Len(stream'[d]),
           stream'[d][i].kind = "message"
    PROVE  \/ i \in 1 .. Len(stream[d]) /\ stream'[d][i] = stream[d][i]
           \/ \E w \in Conn :
                /\ Push(w) /\ d \in job[w].aim
                /\ job' = [job EXCEPT ![w].aim = @ \ {d}]
                /\ i = Len(stream[d]) + 1
                /\ stream'[d][i].conv = job[w].conv /\ stream'[d][i].id = job[w].id
<1>1. CASE UNCHANGED stream
  BY <1>1
<1>2. ASSUME NEW w \in Worker, Reply(w)
      PROVE  i \in 1 .. Len(stream[d]) /\ stream'[d][i] = stream[d][i]
  <2> DEFINE f == Answer(w)
  <2>1. w \in Conn /\ f \in Frame /\ Enqueue(w, f)
    BY <1>2, FrameType DEF Reply
  <2>2. f.kind # "message"
    BY DEF Answer
  <2>3. QED
    BY <2>1, <2>2, EnqueueEffect
<1>3. ASSUME NEW w \in Worker, Push(w)
      PROVE  \/ i \in 1 .. Len(stream[d]) /\ stream'[d][i] = stream[d][i]
             \/ /\ w \in Conn /\ d \in job[w].aim
                /\ job' = [job EXCEPT ![w].aim = @ \ {d}]
                /\ i = Len(stream[d]) + 1
                /\ stream'[d][i].conv = job[w].conv /\ stream'[d][i].id = job[w].id
  <2>1. PICK c \in job[w].aim : /\ Enqueue(c, Published(w))
                                /\ job' = [job EXCEPT ![w].aim = @ \ {c}]
    BY <1>3 DEF Push
  <2>2. c \in Conn /\ Published(w) \in Frame
    BY <2>1, FrameType DEF TypeOK, WorkersOK, Job
  <2>3. CASE i \in 1 .. Len(stream[d]) /\ stream'[d][i] = stream[d][i]
    BY <2>3
  <2>4. CASE d = c /\ i = Len(stream[d]) + 1 /\ stream'[d][i] = Published(w)
    BY <2>1, <2>4 DEF Published
  <2>5. QED
    BY <2>1, <2>2, <2>3, <2>4, EnqueueEffect
<1>4. QED
  BY <1>1, <1>2, <1>3, LinkWriters DEF Connect, Disconnect, Crash

\* Every step keeps the ids of the frames below the sequence.
LEMMA FramesStep ==
    ASSUME TypeOK, TypeOK', JobOK, FramesOK, NewestOK, [Next]_vars
    PROVE  FramesOK'
<1> SUFFICES ASSUME NEW d \in Conn, NEW i \in 1 .. Len(stream'[d]),
                    stream'[d][i].kind = "message"
             PROVE  stream'[d][i].id < nextId'
  BY DEF FramesOK
<1>1. CASE i \in 1 .. Len(stream[d]) /\ stream'[d][i] = stream[d][i]
  <2>1. stream[d] \in Seq(Frame)
    BY DEF TypeOK, LinksOK
  <2>2. stream[d][i] \in Frame
    BY <1>1, <2>1
  <2>3. stream[d][i].id \in Nat
    BY <2>2 DEF Frame
  <2>4. stream'[d][i].id < nextId
    BY <1>1 DEF FramesOK
  <2>5. QED
    BY <1>1, <2>3, <2>4, IdsGrow
<1>2. ASSUME NEW w \in Conn, Push(w), stream'[d][i].id = job[w].id
      PROVE  stream'[d][i].id < nextId'
  <2>1. job[w].id \in Nat
    BY DEF TypeOK, WorkersOK, Job, Worker
  <2>2. job[w].id < nextId
    BY <1>2 DEF Push, NewestOK
  <2>3. QED
    BY <1>2, <2>1, <2>2, IdsGrow
<1>3. QED
  BY <1>1, <1>2, NewFrame

\* A sender that keeps its place keeps being newer than what others may push:
\* nobody else is publishing in its conversation.
LEMMA OlderStays ==
    ASSUME TypeOK, JobOK, MutexOK, [Next]_vars, NEW v \in Conn, NEW d \in Conn,
           pc[v] \in {"commit", "publish"}, Older(d, v),
           job'[v].conv = job[v].conv, job'[v].id = job[v].id,
           ~ (Push(v) /\ d \in job[v].aim /\ job' = [job EXCEPT ![v].aim = @ \ {d}])
    PROVE  Older(d, v)'
<1> SUFFICES ASSUME NEW i \in 1 .. Len(stream'[d]), stream'[d][i].kind = "message",
                    stream'[d][i].conv = job'[v].conv
             PROVE  stream'[d][i].id < job'[v].id
  BY DEF Older
<1>1. CASE i \in 1 .. Len(stream[d]) /\ stream'[d][i] = stream[d][i]
  BY <1>1 DEF Older
<1>2. ASSUME NEW w \in Conn, Push(w), d \in job[w].aim,
             job' = [job EXCEPT ![w].aim = @ \ {d}], stream'[d][i].conv = job[w].conv
      PROVE  FALSE
  <2>1. pc[w] = "publish" /\ job[w].conv = job[v].conv
    BY <1>2 DEF Push
  <2>2. w = v
    BY <2>1, OneAtATime DEF Critical, Worker
  <2>3. QED
    BY <1>2, <2>2
<1>3. QED
  BY <1>1, <1>2, NewFrame
\* Every step keeps recipients from being resolved twice.
LEMMA AimStep ==
    ASSUME TypeOK, JobOK, AimOK, [Next]_vars
    PROVE  AimOK'
<1> USE ConstantsAssumption DEF TypeOK, WorkersOK, Job, AimOK
<1>1. ASSUME NEW w \in Worker, NEW conv \in Conv, NEW key \in Key, Submit(w, conv, key)
      PROVE  AimOK'
  BY <1>1 DEF Submit, NoJob
<1>2. ASSUME NEW w \in Worker, NEW conv \in Conv, NEW id \in Nat, Remove(w, conv, id)
      PROVE  AimOK'
  BY <1>2 DEF Remove, NoJob
<1>3. ASSUME NEW w \in Worker, Refuse(w)
      PROVE  AimOK'
  BY <1>3 DEF Refuse, NoJob
<1>4. ASSUME NEW w \in Worker, Lock(w)
      PROVE  AimOK'
  BY <1>4 DEF Lock
<1>5. ASSUME NEW w \in Worker, GetConversation(w)
      PROVE  AimOK'
  <2>1. CASE Leave(w, "rejected")
    BY <2>1 DEF Leave
  <2>2. CASE job' = [job EXCEPT ![w].to = members[job[w].conv]]
    <3>1. pc'[w] # "publish" /\ pc[w] # "publish" /\ \A v \in Worker \ {w} : pc'[v] = pc[v]
      BY <1>5 DEF GetConversation, Leave
    <3>2. job'[w].aim = {} /\ \A v \in Worker \ {w} : job'[v] = job[v]
      BY <2>2, <3>1
    <3>3. QED
      BY <3>1, <3>2
  <2>3. QED
    BY <1>5, <2>1, <2>2 DEF GetConversation
<1>6. ASSUME NEW w \in Worker, CheckAllies(w)
      PROVE  AimOK'
  BY <1>6 DEF CheckAllies, Leave
<1>7. ASSUME NEW w \in Worker, Insert(w)
      PROVE  AimOK'
  BY <1>7 DEF Insert
<1>8. ASSUME NEW w \in Worker, FindDuplicate(w)
      PROVE  AimOK'
  BY <1>8 DEF FindDuplicate
<1>9. ASSUME NEW w \in Worker, Commit(w)
      PROVE  AimOK'
  BY <1>9 DEF Commit
<1>10. ASSUME NEW w \in Worker, Reply(w)
      PROVE  AimOK'
  BY <1>10 DEF Reply, NoJob
<1>11. ASSUME NEW w \in Worker, Push(w)
      PROVE  AimOK'
  BY <1>11 DEF Push
<1>12. ASSUME NEW w \in Worker, FinishPublish(w)
      PROVE  AimOK'
  BY <1>12 DEF FinishPublish, Leave
<1>13. ASSUME NEW w \in Worker, SoftDelete(w)
      PROVE  AimOK'
  <2>1. CASE Leave(w, "removed") \/ Leave(w, "notFound")
    BY SMTT(30), <2>1 DEF Leave
  <2>2. CASE pc' = [pc EXCEPT ![w] = "members"] /\ UNCHANGED job
    BY <1>13, <2>2 DEF SoftDelete
  <2>3. QED
    BY <1>13, <2>1, <2>2 DEF SoftDelete
<1>14. ASSUME NEW w \in Worker, ReadMembers(w)
      PROVE  AimOK'
  BY <1>14 DEF ReadMembers, JobOK, Working, Critical
<1>15. ASSUME NEW w \in Worker, Respond(w)
      PROVE  AimOK'
  BY <1>15 DEF Respond, NoJob
<1>16. ASSUME NEW w \in Worker, CallFails(w)
      PROVE  AimOK'
  BY <1>16 DEF CallFails, Leave
<1>17. ASSUME NEW w \in Worker, AnswerLost(w)
      PROVE  AimOK'
  BY <1>17 DEF AnswerLost, Leave
<1>18. ASSUME NEW w \in Worker, EventDropped(w)
      PROVE  AimOK'
  BY <1>18 DEF EventDropped
<1>19. ASSUME NEW w \in Worker, Resolve(w)
      PROVE  AimOK'
  <2>1. PICK u \in job[w].to, aim \in SUBSET Conn :
          /\ \A c \in aim : Owner[c] = u
          /\ job' = [job EXCEPT ![w].to = @ \ {u}, ![w].aim = aim]
    BY <1>19 DEF Resolve
  <2>2. pc' = pc /\ pc[w] = "publish"
    BY <1>19 DEF Resolve
  <2>3. job'[w].to = job[w].to \ {u} /\ job'[w].aim = aim
        /\ \A v \in Worker \ {w} : job'[v] = job[v]
    BY <2>1
  <2>4. QED
    BY <2>1, <2>2, <2>3
<1>20. CASE Crash
  BY <1>20 DEF Crash, NoJob
<1>21. CASE UNCHANGED <<pc, job>>
  BY <1>21
<1>22. QED
  BY <1>1, <1>2, <1>3, <1>4, <1>5, <1>6, <1>7, <1>8, <1>9, <1>10, <1>11, <1>12, <1>13, <1>14, <1>15, <1>16, <1>17, <1>18, <1>19, <1>20, <1>21
     DEF Next, Environment, Faults, WorkerStep, SubmitStep, RemoveStep, PublishStep, vars, Worker,
         Connect, Disconnect, Join, Freeze, Thaw

\* A worker that publishes has no more left to reach than before.
LEMMA PendingShrinks ==
    ASSUME TypeOK, NEW v \in Conn, Resolve(v) \/ Push(v)
    PROVE  /\ Pending(v)' \subseteq Pending(v)
           /\ job'[v].conv = job[v].conv /\ job'[v].id = job[v].id
<1> USE DEF TypeOK, WorkersOK, Job, Worker
<1>1. CASE Resolve(v)
  <2>1. PICK u \in job[v].to, aim \in SUBSET Conn :
          /\ \A c \in aim : Owner[c] = u
          /\ job' = [job EXCEPT ![v].to = @ \ {u}, ![v].aim = aim]
    BY <1>1 DEF Resolve
  <2>2. job'[v].to = job[v].to \ {u} /\ job'[v].aim = aim
        /\ job'[v].conv = job[v].conv /\ job'[v].id = job[v].id
    BY <2>1
  <2>3. QED
    BY <2>1, <2>2 DEF Pending
<1>2. CASE Push(v)
  <2>1. PICK c \in job[v].aim : job' = [job EXCEPT ![v].aim = @ \ {c}]
    BY <1>2 DEF Push
  <2>2. job'[v].aim = job[v].aim \ {c} /\ job'[v].to = job[v].to
        /\ job'[v].conv = job[v].conv /\ job'[v].id = job[v].id
    BY <2>1
  <2>3. QED
    BY <2>2 DEF Pending
<1>3. QED
  BY <1>1, <1>2

\* Every step keeps what is about to be published newest.
LEMMA NewestStep ==
    ASSUME TypeOK, TypeOK', IndexInv, FramesOK, AimOK, AimOK', NewestOK, [Next]_vars
    PROVE  NewestOK'
<1> USE DEF IndexInv
<1> SUFFICES ASSUME NEW v \in Conn, pc'[v] \in {"commit", "publish"}
             PROVE  /\ pc'[v] = "commit" => \A d \in Conn : Older(d, v)'
                    /\ pc'[v] = "publish" =>
                         job'[v].id < nextId' /\ \A d \in Pending(v)' : Older(d, v)'
  BY DEF NewestOK
<1>1. v \in Worker /\ job[v] \in Job /\ job'[v] \in Job
  BY DEF TypeOK, WorkersOK, Worker
<1>2. CASE Insert(v)
  <2>1. pc'[v] = "commit" /\ stream' = stream /\ job'[v].id = nextId
    BY <1>1, <1>2 DEF Insert, TypeOK, WorkersOK, Job
  <2>2. QED
    BY <2>1 DEF Older, FramesOK
<1>3. CASE Commit(v)
  <2>1. pc'[v] = "publish" /\ pc[v] = "commit" /\ UNCHANGED <<stream, job, nextId>>
    BY <1>1, <1>3 DEF Commit, TypeOK, WorkersOK
  <2>2. job[v].id < nextId
    BY <1>1, <2>1 DEF CommitOK
  <2>3. QED
    BY <2>1, <2>2 DEF Older, Pending, NewestOK
<1>4. CASE Resolve(v) \/ Push(v)
  <2>1. pc[v] = "publish" /\ pc'[v] = "publish" /\ nextId' = nextId
    BY <1>4 DEF Resolve, Push
  <2>2. ASSUME NEW d \in Pending(v)'
        PROVE  Older(d, v)'
    <3>1. d \in Conn /\ Older(d, v)
      BY <2>1, <1>4, PendingShrinks DEF Pending, NewestOK
    <3>2. ASSUME d \in job[v].aim, job' = [job EXCEPT ![v].aim = @ \ {d}]
          PROVE  FALSE
      <4>1. job'[v].aim = job[v].aim \ {d} /\ job'[v].to = job[v].to
        BY <1>1, <3>2 DEF TypeOK, WorkersOK, Job
      <4>2. QED
        BY <1>1, <2>2, <3>2, <4>1 DEF Pending, AimOK
    <3>3. QED
      BY <1>4, <2>1, <3>1, <3>2, PendingShrinks, OlderStays
  <2>3. QED
    BY <1>4, <2>1, <2>2, PendingShrinks DEF NewestOK
<1>5. CASE /\ ~ (Resolve(v) \/ Push(v))
           /\ pc'[v] = pc[v]
           /\ job'[v].conv = job[v].conv /\ job'[v].id = job[v].id
           /\ job'[v].to \subseteq job[v].to /\ job'[v].aim \subseteq job[v].aim
  <2>1. Pending(v)' \subseteq Pending(v)
    BY <1>5 DEF Pending
  <2>2. CASE pc[v] = "commit"
    BY <1>5, <2>2, OlderStays DEF NewestOK
  <2>3. CASE pc[v] = "publish"
    <3>1. job'[v].id < nextId'
      BY <1>1, <1>5, <2>3, IdsGrow DEF NewestOK, Job
    <3>2. \A d \in Pending(v)' : Older(d, v)'
      BY <1>5, <2>1, <2>3, OlderStays DEF NewestOK, Pending
    <3>3. QED
      BY <1>5, <2>3, <3>1, <3>2
  <2>4. QED
    BY <1>5, <2>2, <2>3
<1>6. QED
  BY <1>2, <1>3, <1>4, <1>5, Arrivals

\* Every step keeps the messages of a conversation in order on every connection.
LEMMA OrderStep ==
    ASSUME TypeOK, NewestOK, OrderedDelivery, [Next]_vars
    PROVE  OrderedDelivery'
<1> SUFFICES ASSUME NEW d \in Conn, NEW i \in 1 .. Len(stream'[d]), NEW j \in 1 .. Len(stream'[d]),
                    i < j, stream'[d][i].kind = "message", stream'[d][j].kind = "message",
                    stream'[d][i].conv = stream'[d][j].conv
             PROVE  stream'[d][i].id < stream'[d][j].id
  BY DEF OrderedDelivery
<1>1. Len(stream[d]) \in Nat
  BY DEF TypeOK, LinksOK
<1>2. CASE j \in 1 .. Len(stream[d]) /\ stream'[d][j] = stream[d][j]
  <2>1. i \in 1 .. Len(stream[d]) /\ stream'[d][i] = stream[d][i]
    BY <1>1, <1>2, NewFrame
  <2>2. QED
    BY <1>2, <2>1 DEF OrderedDelivery
<1>3. ASSUME NEW w \in Conn, Push(w), d \in job[w].aim, j = Len(stream[d]) + 1,
             stream'[d][j].conv = job[w].conv, stream'[d][j].id = job[w].id
      PROVE  stream'[d][i].id < stream'[d][j].id
  <2>1. i \in 1 .. Len(stream[d]) /\ stream'[d][i] = stream[d][i]
    BY <1>1, <1>3, NewFrame
  <2>2. pc[w] = "publish" /\ d \in Pending(w)
    BY <1>3 DEF Push, Pending
  <2>3. QED
    BY <1>3, <2>1, <2>2 DEF NewestOK, Older
<1>4. QED
  BY <1>2, <1>3, NewFrame

\* What was sent is ordered and what will be sent is newer, in every reachable
\* state.
LEMMA DeliveryCorrect == Spec => []DeliveryInv
<1>1. Init => DeliveryInv
  BY DEF Init, DeliveryInv, FramesOK, AimOK, NewestOK, OrderedDelivery, NoJob, Worker
<1>2. TypeOK /\ IndexInv /\ TypeOK' /\ DeliveryInv /\ [Next]_vars => DeliveryInv'
  BY FramesStep, AimStep, NewestStep, OrderStep DEF DeliveryInv, IndexInv
<1>3. QED
  BY <1>1, <1>2, IndexCorrect, PTL DEF Spec

\* On every connection the messages of a conversation arrive in ascending id
\* order and none twice, in every reachable state.
THEOREM DeliveryOrdered == Spec => []OrderedDelivery
BY DeliveryCorrect, PTL DEF DeliveryInv
-----------------------------------------------------------------------------
(* What one step can do to a worker, a row, a connection and a queue *)

\* v is where it was, with the same locals.
Rests(v) == pc'[v] = pc[v] /\ job'[v] = job[v]

\* A step that changes what a worker is doing is its own, or starts it afresh.
LEMMA Moves ==
    ASSUME TypeOK, [Next]_vars, NEW v \in Worker
    PROVE  \/ Rests(v)
           \/ Crash /\ pc'[v] = "idle"
           \/ pc[v] \in {"idle", "lock", "reply"} /\ pc'[v] \in {"idle", "lock", "get", "update"}
           \/ Refuse(v) \/ GetConversation(v) \/ CheckAllies(v) \/ Insert(v)
           \/ FindDuplicate(v) \/ Commit(v) \/ Resolve(v) \/ Push(v) \/ FinishPublish(v)
           \/ SoftDelete(v) \/ ReadMembers(v) \/ CallFails(v) \/ AnswerLost(v)
           \/ EventDropped(v)
<1> DEFINE Own(w) == \/ Refuse(w) \/ GetConversation(w) \/ CheckAllies(w) \/ Insert(w)
                     \/ FindDuplicate(w) \/ Commit(w) \/ Resolve(w) \/ Push(w)
                     \/ FinishPublish(w) \/ SoftDelete(w) \/ ReadMembers(w) \/ CallFails(w)
                     \/ AnswerLost(w) \/ EventDropped(w)
<1>1. ASSUME NEW w \in Worker, Own(w), w # v
      PROVE  Rests(v)
  <2>1. CASE \/ Refuse(w) \/ GetConversation(w) \/ CheckAllies(w) \/ Insert(w)
             \/ FindDuplicate(w) \/ Commit(w)
    BY <1>1, <2>1
       DEF Rests, TypeOK, WorkersOK, Refuse, GetConversation, CheckAllies, Insert, FindDuplicate, Commit, Leave
  <2>2. CASE \/ Resolve(w) \/ Push(w) \/ FinishPublish(w) \/ ReadMembers(w) \/ EventDropped(w)
    BY <1>1, <2>2 DEF Rests, TypeOK, WorkersOK, Resolve, Push, FinishPublish, ReadMembers, EventDropped, Leave
  <2>3. CASE SoftDelete(w) \/ CallFails(w) \/ AnswerLost(w)
    BY <1>1, <2>3 DEF Rests, TypeOK, WorkersOK, SoftDelete, CallFails, AnswerLost, Leave
  <2>4. QED
    BY <1>1, <2>1, <2>2, <2>3
<1>2. ASSUME NEW w \in Worker, Own(w)
      PROVE  Own(v) \/ Rests(v)
  BY <1>1, <1>2
<1>3. ASSUME NEW w \in Worker, Lock(w) \/ Reply(w) \/ Respond(w)
      PROVE  \/ Rests(v)
             \/ pc[v] \in {"lock", "reply"} /\ pc'[v] \in {"idle", "get", "update"}
  BY <1>3 DEF Rests, Lock, Reply, Respond, TypeOK, WorkersOK
<1>4. ASSUME NEW w \in Worker, NEW conv \in Conv,
             (\E key \in Key : Submit(w, conv, key)) \/ (\E id \in Nat : Remove(w, conv, id))
      PROVE  Rests(v) \/ (pc[v] = "idle" /\ pc'[v] = "lock")
  BY <1>4 DEF Rests, Submit, Remove, TypeOK, WorkersOK
<1>5. ASSUME Crash
      PROVE  pc'[v] = "idle"
  BY <1>5 DEF Crash
<1>6. CASE UNCHANGED <<pc, job>>
  BY <1>6 DEF Rests
<1> HIDE DEF Own
<1>7. ASSUME NEW w \in Worker, WorkerStep(w)
      PROVE  \/ Own(w) \/ Lock(w) \/ Reply(w) \/ Respond(w)
  BY <1>7 DEF Own, WorkerStep, SubmitStep, RemoveStep, PublishStep
<1>8. CASE Environment
  <2>1. ASSUME NEW c \in Conn, Refuse(c)
        PROVE  Own(v) \/ Rests(v)
    BY <1>2, <2>1 DEF Own, Worker
  <2>2. \A h \in Http, conv \in Conv : \A id \in 1 .. nextId - 1 :
            Remove(h, conv, id) => Rests(v) \/ (pc[v] = "idle" /\ pc'[v] = "lock")
    BY <1>4 DEF Worker, TypeOK, DataOK
  <2>3. \A c \in Conn, conv \in Conv, key \in Key :
            Submit(c, conv, key) => Rests(v) \/ (pc[v] = "idle" /\ pc'[v] = "lock")
    BY <1>4 DEF Worker
  <2>4. QED
    BY <1>6, <1>8, <2>1, <2>2, <2>3 DEF Environment, Own, Connect, Disconnect, Join, Freeze, Thaw
<1>9. CASE Faults
  BY <1>2, <1>5, <1>9 DEF Own, Faults
<1>10. QED
  BY <1>2, <1>3, <1>6, <1>7, <1>8, <1>9 DEF Own, Next, vars

\* Where a visible row comes from: it was visible, unless deleted now, with the
\* same audience; or a sender has stored it in this step.
LEMMA RowOrigin ==
    ASSUME TypeOK, IndexInv, [Next]_vars, NEW r \in Committed'
    PROVE  \/ r \in Committed
           \/ \E q \in Committed, w \in Worker :
                /\ pc[w] = "update" /\ (SoftDelete(w) \/ AnswerLost(w))
                /\ q.state = "live" /\ r.state = "deleted"
                /\ r.id = q.id /\ r.conv = q.conv /\ r.audience = q.audience
                /\ r.id = job[w].id /\ r.conv = job[w].conv
                /\ r.mourners = Sockets(members[r.conv])
           \/ \E w \in Conn :
                /\ pc[w] = "commit" /\ (Commit(w) \/ AnswerLost(w))
                /\ r.id = job[w].id /\ r.conv = job[w].conv
                /\ r.state = "live" /\ r.audience = Sockets(job[w].to) \ {w}
<1>1. ASSUME NEW w \in Worker, pc[w] = "commit", Store(w), Commit(w) \/ AnswerLost(w), r \notin Committed
      PROVE  /\ w \in Conn
             /\ r.id = job[w].id /\ r.conv = job[w].conv
             /\ r.state = "live" /\ r.audience = Sockets(job[w].to) \ {w}
  <2>1. PICK q \in table :
          /\ q.id = job[w].id
          /\ table' = (table \ {q}) \cup
                {[q EXCEPT !.state = "live", !.audience = Sockets(job[w].to) \ {w},
                                             !.due = Sockets(members[q.conv]) \ {w}]}
    BY <1>1 DEF Store
  <2>2. q \in Row /\ q.conv = job[w].conv
    BY <1>1, <2>1 DEF TypeOK, DataOK, IndexInv, CommitOK
  <2>3. r = [q EXCEPT !.state = "live", !.audience = Sockets(job[w].to) \ {w},
                                        !.due = Sockets(members[q.conv]) \ {w}]
    BY <1>1, <2>1 DEF Committed
  <2>4. w \in Conn
    BY <1>1 DEF IndexInv, JobOK
  <2>5. QED
    BY <2>1, <2>2, <2>3, <2>4 DEF Row
<1>2. ASSUME NEW w \in Worker, MarkDeleted(w), r \notin Committed
      PROVE  \E q \in Committed :
                /\ q.state = "live" /\ r.state = "deleted"
                /\ r.id = q.id /\ r.conv = q.conv /\ r.audience = q.audience
                /\ r.id = job[w].id /\ r.conv = job[w].conv
                /\ r.mourners = Sockets(members[r.conv])
  <2>1. PICK q \in Mine(w) :
          /\ q.state = "live"
          /\ table' = (table \ {q}) \cup
                {[q EXCEPT !.state = "deleted", !.mourners = Sockets(members[q.conv])]}
    BY <1>2 DEF MarkDeleted
  <2>2. q \in Committed /\ q.id = job[w].id /\ q.conv = job[w].conv /\ q \in Row
    BY <2>1 DEF Mine, Committed, TypeOK, DataOK
  <2>3. r = [q EXCEPT !.state = "deleted", !.mourners = Sockets(members[q.conv])]
    BY <1>2, <2>1 DEF Committed
  <2>4. QED
    BY <2>1, <2>2, <2>3 DEF Row
<1>3. ASSUME NEW w \in Worker, Insert(w)
      PROVE  r \in Committed
  BY <1>3 DEF Insert, Committed
<1>4. ASSUME table' \subseteq table
      PROVE  r \in Committed
  BY <1>4 DEF Committed
<1>5. CASE \E w \in Worker : Commit(w)
  BY <1>1, <1>5 DEF Commit
<1>6. CASE \E w \in Worker : SoftDelete(w)
  BY <1>2, <1>4, <1>6 DEF SoftDelete
<1>7. CASE \E w \in Worker : AnswerLost(w)
  BY <1>1, <1>2, <1>4, <1>7 DEF AnswerLost
<1>8. CASE \E w \in Worker : FindDuplicate(w)
  BY <1>4, <1>8 DEF FindDuplicate
<1>9. CASE Crash
  BY <1>4, <1>9 DEF Crash, Committed
<1>10. QED
  BY <1>3, <1>4, <1>5, <1>6, <1>7, <1>8, <1>9, TableWriters

\* A visible row stays, whatever fails or restarts.
LEMMA RowStays ==
    ASSUME TypeOK, IndexInv, [Next]_vars, NEW q \in Committed
    PROVE  \E r \in Committed' : r.id = q.id /\ r.conv = q.conv
                                 /\ (q.state = "deleted" => r.state = "deleted")
<1>1. ASSUME NEW w \in Worker, pc[w] = "commit", Store(w)
      PROVE  q \in Committed'
  <2>1. PICK r \in table, new \in Row :
          r.id = job[w].id /\ table' = (table \ {r}) \cup {new}
    BY <1>1, StoreEffect
  <2>2. r.state = "open"
    BY <1>1, <2>1 DEF IndexInv, CommitOK
  <2>3. QED
    BY <2>1, <2>2 DEF Committed
<1>2. ASSUME NEW w \in Worker, MarkDeleted(w)
      PROVE  \E r \in Committed' : r.id = q.id /\ r.conv = q.conv
                                   /\ (q.state = "deleted" => r.state = "deleted")
  <2>1. PICK r \in Committed, new \in Row :
          /\ new.id = r.id /\ new.conv = r.conv /\ new.state = "deleted"
          /\ table' = (table \ {r}) \cup {new}
    BY <1>2, MarkDeletedEffect
  <2>2. new \in Committed' /\ \A s \in Committed \ {r} : s \in Committed'
    BY <2>1 DEF Committed
  <2>3. QED
    BY <2>1, <2>2
<1>3. CASE table \subseteq table' \/ Crash
  BY <1>3 DEF Committed, Crash
<1>4. ASSUME NEW w \in Worker, pc[w] = "commit", table' = {r \in table : r.id # job[w].id}
      PROVE  q \in Committed'
  BY <1>4 DEF Committed, IndexInv, CommitOK
<1>5. CASE \E w \in Worker : AnswerLost(w)
  BY <1>1, <1>2, <1>4, <1>5 DEF AnswerLost
<1>6. QED
  BY <1>1, <1>2, <1>3, <1>5, TableWriters
     DEF Insert, FindDuplicate, Commit, SoftDelete

\* A queue keeps what it has accepted, and a new frame is pushed or an answer.
LEMMA StreamStep ==
    ASSUME TypeOK, [Next]_vars, NEW d \in Conn
    PROVE  /\ Len(stream[d]) \in Nat /\ Len(stream'[d]) \in Nat
           /\ Len(stream'[d]) >= Len(stream[d])
           /\ \A i \in 1 .. Len(stream[d]) : stream'[d][i] = stream[d][i]
           /\ \A i \in 1 .. Len(stream'[d]) :
                \/ i \in 1 .. Len(stream[d])
                \/ /\ i = Len(stream[d]) + 1
                   /\ \/ \E w \in Worker : /\ Push(w) /\ d \in job[w].aim
                                           /\ stream'[d][i] = Published(w)
                      \/ Reply(d) /\ stream'[d][i] = Answer(d)
<1>1. stream[d] \in Seq(Frame)
  BY DEF TypeOK, LinksOK
<1>2. ASSUME NEW c \in Conn, NEW f \in Frame, Enqueue(c, f)
      PROVE  stream' = stream \/ stream' = [stream EXCEPT ![c] = Append(stream[c], f)]
  BY <1>2 DEF Enqueue
<1>3. ASSUME NEW f \in Frame, stream'[d] = Append(stream[d], f)
      PROVE  /\ Len(stream'[d]) = Len(stream[d]) + 1
             /\ \A i \in 1 .. Len(stream[d]) : stream'[d][i] = stream[d][i]
             /\ stream'[d][Len(stream[d]) + 1] = f
  BY <1>1, <1>3
<1>4. CASE stream'[d] = stream[d]
  BY <1>1, <1>4
<1>5. ASSUME NEW w \in Worker, Push(w), stream'[d] # stream[d]
      PROVE  d \in job[w].aim /\ Published(w) \in Frame
             /\ stream'[d] = Append(stream[d], Published(w))
  <2>1. PICK c \in job[w].aim : Enqueue(c, Published(w))
    BY <1>5 DEF Push
  <2>2. c \in Conn /\ Published(w) \in Frame
    BY <2>1, FrameType DEF TypeOK, WorkersOK, Job
  <2>3. QED
    BY <1>5, <2>1, <2>2, <1>2 DEF TypeOK, LinksOK
<1>6. ASSUME NEW w \in Worker, Reply(w), stream'[d] # stream[d]
      PROVE  /\ w = d
             /\ stream'[d] = Append(stream[d], Answer(w))
             /\ Answer(w) \in Frame
  <2> DEFINE f == Answer(w)
  <2>1. w \in Conn /\ f \in Frame /\ Enqueue(w, f)
    BY <1>6, FrameType DEF Reply
  <2> HIDE DEF f
  <2>2. w = d /\ f \in Frame /\ stream'[d] = Append(stream[d], f)
    BY <1>6, <2>1, <1>2 DEF TypeOK, LinksOK
  <2>3. QED
    BY <2>2 DEF f
<1>7. CASE \E w \in Worker : Push(w) /\ stream'[d] # stream[d]
  BY <1>1, <1>3, <1>5, <1>7
<1>8. CASE \E w \in Worker : Reply(w) /\ stream'[d] # stream[d]
  <2>1. PICK w \in Worker : Reply(w) /\ stream'[d] # stream[d]
    BY <1>8
  <2> DEFINE f == Answer(d)
  <2>2. Reply(d) /\ f \in Frame /\ stream'[d] = Append(stream[d], f)
    BY <1>6, <2>1
  <2> HIDE DEF f
  <2>3. /\ Len(stream'[d]) = Len(stream[d]) + 1
        /\ \A i \in 1 .. Len(stream[d]) : stream'[d][i] = stream[d][i]
        /\ stream'[d][Len(stream[d]) + 1] = f
    BY <1>3, <2>2
  <2>4. \A i \in 1 .. Len(stream'[d]) : i \in 1 .. Len(stream[d]) \/ i = Len(stream[d]) + 1
    BY <1>1, <2>3
  <2>5. QED
    BY <1>1, <2>2, <2>3, <2>4 DEF f
<1>9. QED
  BY <1>4, <1>7, <1>8, LinkWriters DEF Connect, Disconnect, Crash

\* What a connection has been told it stays told.
LEMMA ToldStays ==
    ASSUME TypeOK, [Next]_vars, NEW c \in Conn, NEW kind, NEW id, Told(c, kind, id)
    PROVE  Told(c, kind, id)'
<1>1. PICK i \in 1 .. Len(stream[c]) : stream[c][i].kind = kind /\ stream[c][i].id = id
  BY DEF Told
<1>2. /\ Len(stream[c]) \in Nat /\ Len(stream'[c]) \in Nat
      /\ Len(stream'[c]) >= Len(stream[c])
      /\ stream'[c][i] = stream[c][i]
  BY <1>1, StreamStep
<1>3. i \in 1 .. Len(stream'[c])
  BY <1>1, <1>2
<1>4. QED
  BY <1>1, <1>2, <1>3 DEF Told

\* A connection is open once: before that it was open or new.
LEMMA LinkStep ==
    ASSUME TypeOK, [Next]_vars, NEW c \in Conn
    PROVE  /\ link'[c] = "open" => link[c] = "open" \/ link[c] = "new"
           /\ link'[c] = "new" => link[c] = "new"
<1>1. ASSUME NEW d \in Conn, NEW f \in Frame, Enqueue(d, f)
      PROVE  link'[c] = link[c] \/ link'[c] = "overflowed"
  BY <1>1 DEF Enqueue, TypeOK, LinksOK
<1>2. ASSUME NEW w \in Worker, Push(w) \/ Reply(w)
      PROVE  link'[c] = link[c] \/ link'[c] = "overflowed"
  <2>1. CASE Push(w)
    <3>1. PICK d \in job[w].aim : Enqueue(d, Published(w))
      BY <2>1 DEF Push
    <3>2. d \in Conn /\ Published(w) \in Frame
      BY <3>1, FrameType DEF TypeOK, WorkersOK, Job
    <3>3. QED
      BY <1>1, <3>1, <3>2
  <2>2. CASE Reply(w)
    BY <1>1, <2>2, FrameType DEF Reply
  <2>3. QED
    BY <1>2, <2>1, <2>2
<1>3. ASSUME NEW d \in Conn, Connect(d) \/ Disconnect(d)
      PROVE  \/ link'[c] = link[c]
             \/ link[c] = "new" /\ link'[c] = "open"
             \/ link'[c] = "closed"
  BY <1>3 DEF Connect, Disconnect, TypeOK, LinksOK
<1>4. CASE Crash
  BY <1>4 DEF Crash
<1>5. QED
  BY <1>2, <1>3, <1>4, LinkWriters
-----------------------------------------------------------------------------
(* Retries: one row for each sender's key *)

\* The unique index of message_data: conversation, sender and key name a row.
OneRowPerKey ==
    \A q, r \in table : q.conv = r.conv /\ q.sender = r.sender /\ q.key = r.key => q = r

\* The statements that rewrite a row keep its key.
LEMMA RewriteKeepsKey ==
    ASSUME TypeOK, NEW w \in Worker, Store(w) \/ MarkDeleted(w)
    PROVE  \E r \in table, new \in Row :
             /\ new.conv = r.conv /\ new.sender = r.sender /\ new.key = r.key
             /\ table' = (table \ {r}) \cup {new}
<1>1. CASE Store(w)
  <2>1. PICK r \in table :
          table' = (table \ {r}) \cup
              {[r EXCEPT !.state = "live", !.audience = Sockets(job[w].to) \ {w},
                                           !.due = Sockets(members[r.conv]) \ {w}]}
    BY <1>1 DEF Store
  <2>2. r \in Row /\ Sockets(job[w].to) \ {w} \subseteq Conn /\ Sockets(members[r.conv]) \ {w} \subseteq Conn
    BY DEF TypeOK, DataOK, Sockets
  <2> DEFINE new == [r EXCEPT !.state = "live", !.audience = Sockets(job[w].to) \ {w},
                                                !.due = Sockets(members[r.conv]) \ {w}]
  <2>3. new \in Row /\ new.conv = r.conv /\ new.sender = r.sender /\ new.key = r.key
    BY <2>2 DEF Row
  <2>4. QED
    BY <2>1, <2>3
<1>2. CASE MarkDeleted(w)
  <2>1. PICK r \in Mine(w) :
          table' = (table \ {r}) \cup
              {[r EXCEPT !.state = "deleted", !.mourners = Sockets(members[r.conv])]}
    BY <1>2 DEF MarkDeleted
  <2>2. r \in table /\ r \in Row /\ Sockets(members[r.conv]) \subseteq Conn
    BY <2>1 DEF TypeOK, DataOK, Sockets, Mine, Committed
  <2> DEFINE new == [r EXCEPT !.state = "deleted", !.mourners = Sockets(members[r.conv])]
  <2>3. new \in Row /\ new.conv = r.conv /\ new.sender = r.sender /\ new.key = r.key
    BY <2>2 DEF Row
  <2>4. QED
    BY <2>1, <2>2, <2>3
<1>3. QED
  BY <1>1, <1>2

\* Every step keeps keys unique: an INSERT waits for the key and then finds it
\* taken or free.
LEMMA KeyStep ==
    ASSUME TypeOK, OneRowPerKey, [Next]_vars
    PROVE  OneRowPerKey'
<1>1. ASSUME NEW w \in Worker, Insert(w)
      PROVE  OneRowPerKey'
  <2>1. PICK new : /\ new.conv = job[w].conv /\ new.sender = Owner[w] /\ new.key = job[w].key
                   /\ table' = table \cup {new}
    BY <1>1 DEF Insert
  <2>2. \A r \in table : ~ SameKey(r, w)
    BY <1>1 DEF Insert, Committed
  <2>3. QED
    BY <2>1, <2>2 DEF OneRowPerKey, SameKey
<1>2. ASSUME NEW w \in Worker, Store(w) \/ MarkDeleted(w)
      PROVE  OneRowPerKey'
  <2>1. PICK r \in table, new \in Row :
          /\ new.conv = r.conv /\ new.sender = r.sender /\ new.key = r.key
          /\ table' = (table \ {r}) \cup {new}
    BY <1>2, RewriteKeepsKey
  <2>2. QED
    BY <2>1 DEF OneRowPerKey
<1>3. ASSUME table' \subseteq table
      PROVE  OneRowPerKey'
  BY <1>3 DEF OneRowPerKey
<1>4. QED
  BY <1>1, <1>2, <1>3, TableWriters
     DEF Commit, SoftDelete, FindDuplicate, AnswerLost, Crash, Committed

\* Whatever is retried, from whichever device, is one row, so no connection is
\* shown two messages of one key, in every reachable state.
THEOREM KeysDeliveredOnce == Spec => []DeliveredOncePerKey
<1>1. Init => OneRowPerKey
  BY DEF Init, OneRowPerKey
<1>2. TypeOK /\ OneRowPerKey /\ [Next]_vars => OneRowPerKey'
  BY KeyStep
<1>3. OneRowPerKey => DeliveredOncePerKey
  BY DEF OneRowPerKey, DeliveredOncePerKey, Committed
<1>4. QED
  BY <1>1, <1>2, <1>3, TypeCorrect, PTL DEF Spec
-----------------------------------------------------------------------------
(* Answers: what is acknowledged is stored *)

\* What is published is a row of the publisher's conversation.
PublishedOK ==
    \A w \in Worker : pc[w] \in {"members", "publish"} =>
        \E r \in Committed : r.id = job[w].id /\ r.conv = job[w].conv

\* A sender is told of success only about a row of its conversation.
AnsweredOK ==
    \A w \in Conn : pc[w] = "reply" =>
        /\ job[w].outcome \in {"rejected", "duplicate", "stored"}
        /\ job[w].outcome # "rejected" =>
             \E r \in Committed : r.id = job[w].id /\ r.conv = job[w].conv

\* How a worker comes to publish.
LEMMA PublishArrivals ==
    ASSUME TypeOK, [Next]_vars, NEW v \in Worker, pc'[v] \in {"members", "publish"}
    PROVE  \/ Commit(v) /\ job' = job
           \/ SoftDelete(v) /\ MarkDeleted(v) /\ job' = job /\ pc'[v] = "members"
           \/ /\ pc[v] = pc'[v] \/ ReadMembers(v)
              /\ pc[v] \in {"members", "publish"}
              /\ job'[v].id = job[v].id /\ job'[v].conv = job[v].conv
<1> USE DEF TypeOK, WorkersOK, Job
<1>1. CASE Rests(v)
  BY <1>1 DEF Rests
<1>2. CASE Commit(v)
  BY <1>2 DEF Commit
<1>3. CASE SoftDelete(v)
  BY <1>3 DEF SoftDelete, Leave
<1>4. CASE Resolve(v)
  BY <1>4, ResolveEffect DEF Resolve
<1>5. CASE Push(v)
  <2>1. PICK c \in job[v].aim : job' = [job EXCEPT ![v].aim = @ \ {c}]
    BY <1>5 DEF Push
  <2>2. QED
    BY <1>5, <2>1 DEF Push
<1>6. CASE ReadMembers(v)
  BY <1>6 DEF ReadMembers
<1>7. CASE EventDropped(v)
  BY <1>7 DEF EventDropped
<1>8. CASE Refuse(v) \/ GetConversation(v) \/ CheckAllies(v) \/ Insert(v) \/ FindDuplicate(v)
  BY <1>8 DEF Refuse, GetConversation, CheckAllies, Insert, FindDuplicate, Leave
<1>9. CASE FinishPublish(v) \/ CallFails(v) \/ AnswerLost(v)
  BY <1>9 DEF FinishPublish, CallFails, AnswerLost, Leave
<1> HIDE DEF TypeOK, WorkersOK, Job
<1>10. QED
  BY <1>1, <1>2, <1>3, <1>4, <1>5, <1>6, <1>7, <1>8, <1>9, Moves

\* Every step keeps what is being published in the table.
LEMMA PublishedStep ==
    ASSUME TypeOK, IndexInv, PublishedOK, [Next]_vars
    PROVE  PublishedOK'
<1> SUFFICES ASSUME NEW v \in Worker, pc'[v] \in {"members", "publish"}
             PROVE  \E r \in Committed' : r.id = job'[v].id /\ r.conv = job'[v].conv
  BY DEF PublishedOK
<1>1. CASE Commit(v) /\ job' = job
  <2>1. PICK r \in table, new \in Row :
          /\ r.id = job[v].id /\ new.id = r.id /\ new.conv = r.conv /\ new.state = "live"
          /\ table' = (table \ {r}) \cup {new}
    BY <1>1, StoreEffect DEF Commit
  <2>2. r.conv = job[v].conv
    BY <1>1, <2>1 DEF Commit, IndexInv, CommitOK
  <2>3. QED
    BY <1>1, <2>1, <2>2 DEF Committed
<1>2. CASE MarkDeleted(v) /\ job' = job
  <2>1. PICK r \in Committed, new \in Row :
          /\ r.id = job[v].id /\ new.id = r.id
          /\ new.conv = job[v].conv /\ new.state = "deleted"
          /\ table' = (table \ {r}) \cup {new}
    BY <1>2, MarkDeletedEffect
  <2>2. QED
    BY <1>2, <2>1 DEF Committed
<1>3. CASE /\ pc[v] \in {"members", "publish"}
           /\ job'[v].id = job[v].id /\ job'[v].conv = job[v].conv
  BY <1>3, RowStays DEF PublishedOK
<1>4. QED
  BY <1>1, <1>2, <1>3, PublishArrivals

\* Every step keeps what senders are answered true.
LEMMA AnsweredStep ==
    ASSUME TypeOK, IndexInv, PublishedOK, AnsweredOK, [Next]_vars
    PROVE  AnsweredOK'
<1> SUFFICES ASSUME NEW v \in Conn, pc'[v] = "reply"
             PROVE  /\ job'[v].outcome \in {"rejected", "duplicate", "stored"}
                    /\ job'[v].outcome # "rejected" =>
                         \E r \in Committed' : r.id = job'[v].id /\ r.conv = job'[v].conv
  BY DEF AnsweredOK
<1>1. v \in Worker /\ pc[v] # "update"
  BY ConstantsAssumption DEF Worker, IndexInv, JobOK
<1>2. CASE Rests(v)
  BY <1>2, RowStays DEF Rests, AnsweredOK
<1>3. CASE Refuse(v)
  BY <1>1, <1>3 DEF Refuse, TypeOK, WorkersOK, Job, NoJob
<1>4. ASSUME Leave(v, "rejected")
      PROVE  job'[v].outcome = "rejected"
  BY <1>1, <1>4 DEF Leave, TypeOK, WorkersOK, Job
<1>5. CASE GetConversation(v) \/ CheckAllies(v)
  <2>1. Leave(v, "rejected")
    BY <1>1, <1>5 DEF GetConversation, CheckAllies, TypeOK, WorkersOK
  <2>2. QED
    BY <1>4, <2>1
<1>6. CASE CallFails(v) \/ AnswerLost(v)
  BY <1>4, <1>6 DEF CallFails, AnswerLost, Failure
<1>7. CASE FindDuplicate(v)
  <2>1. PICK r \in Committed :
          /\ r.conv = job[v].conv
          /\ job' = [job EXCEPT ![v].id = r.id, ![v].outcome = "duplicate", ![v].to = {}]
    BY <1>7 DEF FindDuplicate, SameKey
  <2>2. job'[v].id = r.id /\ job'[v].conv = r.conv /\ job'[v].outcome = "duplicate"
    BY <1>1, <2>1 DEF TypeOK, WorkersOK, Job
  <2>3. r \in Committed'
    BY <1>7, <2>1 DEF FindDuplicate, Committed
  <2>4. QED
    BY <2>2, <2>3
<1>8. CASE FinishPublish(v)
  <2>1. Leave(v, "stored") /\ pc[v] = "publish" /\ table' = table
    BY <1>8 DEF FinishPublish
  <2>2. job'[v].id = job[v].id /\ job'[v].conv = job[v].conv /\ job'[v].outcome = "stored"
    BY <1>1, <2>1 DEF Leave, TypeOK, WorkersOK, Job
  <2>3. PICK r \in Committed : r.id = job[v].id /\ r.conv = job[v].conv
    BY <1>1, <2>1 DEF PublishedOK
  <2>4. QED
    BY <2>1, <2>2, <2>3 DEF Committed
<1>9. CASE \/ Insert(v) \/ Commit(v) \/ Resolve(v) \/ Push(v) \/ SoftDelete(v)
           \/ ReadMembers(v) \/ EventDropped(v)
  BY <1>1, <1>9 DEF Insert, Commit, Resolve, Push, SoftDelete, ReadMembers, EventDropped, TypeOK, WorkersOK
<1>10. QED
  BY <1>1, <1>2, <1>3, <1>5, <1>6, <1>7, <1>8, <1>9, Moves

\* Every step keeps the acknowledged messages in the table.
LEMMA AckStep ==
    ASSUME TypeOK, IndexInv, AnsweredOK, AckMeansStored, [Next]_vars
    PROVE  AckMeansStored'
<1> SUFFICES ASSUME NEW c \in Conn, NEW i \in 1 .. Len(stream'[c]), stream'[c][i].kind = "ack"
             PROVE  \E r \in Committed' : r.id = stream'[c][i].id
  BY DEF AckMeansStored
<1>1. CASE i \in 1 .. Len(stream[c])
  <2>1. stream'[c][i] = stream[c][i]
    BY <1>1, StreamStep
  <2>2. QED
    BY <1>1, <2>1, RowStays DEF AckMeansStored
<1>2. ASSUME NEW w \in Worker, stream'[c][i] = Published(w)
      PROVE  FALSE
  BY <1>2 DEF Published
<1>3. CASE Reply(c) /\ stream'[c][i] = Answer(c)
  <2>1. stream'[c][i].id = job[c].id /\ job[c].outcome # "rejected" /\ pc[c] = "reply"
    BY <1>3 DEF Reply, Answer
  <2>2. PICK r \in Committed : r.id = job[c].id
    BY <2>1 DEF AnsweredOK
  <2>3. QED
    BY <2>1, <2>2, RowStays
<1>4. QED
  BY <1>1, <1>2, <1>3, StreamStep

\* What holds of publishers, answers and acknowledgements.
AnswersInv == PublishedOK /\ AnsweredOK /\ AckMeansStored

\* Publishers and answers speak of rows, in every reachable state.
LEMMA AnswersCorrect == Spec => []AnswersInv
<1>1. Init => AnswersInv
  BY DEF Init, AnswersInv, PublishedOK, AnsweredOK, AckMeansStored, Worker
<1>2. TypeOK /\ IndexInv /\ AnswersInv /\ [Next]_vars => AnswersInv'
  BY PublishedStep, AnsweredStep, AckStep DEF AnswersInv
<1>3. QED
  BY <1>1, <1>2, IndexCorrect, PTL DEF Spec

\* An acknowledged message is in the table, whatever fails or restarts, in
\* every reachable state.
THEOREM AcksStored == Spec => []AckMeansStored
BY AnswersCorrect, PTL DEF AnswersInv
-----------------------------------------------------------------------------
(* Deletions: never announced before the message *)

\* A connection that has heard of a deletion will hear nothing more of the
\* message: no sender is about to store or publish that id.
DeletionsOK ==
    \A c \in Conn : \A i \in 1 .. Len(stream[c]) : stream[c][i].kind = "deleted" =>
        /\ stream[c][i].id < nextId
        /\ \A w \in Conn : pc[w] \in {"commit", "publish"} => stream[c][i].id # job[w].id

\* Whoever publishes a row is alone with it: its stripe is held.
LEMMA OnePublisher ==
    ASSUME TypeOK, IndexInv, PublishedOK, NEW v \in Worker, NEW w \in Worker,
           pc[v] \in {"commit", "members", "publish"}, pc[w] \in {"members", "publish"},
           job[v].id = job[w].id
    PROVE  v = w
<1>1. PICK r \in Committed : r.id = job[w].id /\ r.conv = job[w].conv
  BY DEF PublishedOK
<1>2. pc[v] # "commit"
  BY <1>1 DEF IndexInv, CommitOK, Committed
<1>3. PICK q \in Committed : q.id = job[v].id /\ q.conv = job[v].conv
  BY <1>2 DEF PublishedOK
<1>4. q = r
  BY <1>1, <1>3 DEF IndexInv, TableOK, Committed
<1>5. QED
  BY <1>1, <1>3, <1>4, OneAtATime DEF IndexInv, Critical

\* How a sender comes to be about to commit or to publish, by the id it carries.
LEMMA SenderIds ==
    ASSUME TypeOK, JobOK, [Next]_vars, NEW v \in Conn, pc'[v] \in {"commit", "publish"}
    PROVE  \/ job'[v].id = nextId
           \/ pc[v] \in {"commit", "publish"} /\ job'[v].id = job[v].id
<1>1. CASE Insert(v)
  BY <1>1 DEF Insert, TypeOK, WorkersOK, Job, Worker
<1>2. CASE Commit(v)
  BY <1>2 DEF Commit
<1>3. CASE Resolve(v) \/ Push(v)
  BY <1>3, PendingShrinks DEF Resolve, Push
<1>4. QED
  BY <1>1, <1>2, <1>3, Arrivals

\* Every step keeps announced deletions final.
LEMMA DeletionsStep ==
    ASSUME TypeOK, TypeOK', IndexInv, PublishedOK, DeletionsOK, [Next]_vars
    PROVE  DeletionsOK'
<1> SUFFICES ASSUME NEW c \in Conn, NEW i \in 1 .. Len(stream'[c]),
                    stream'[c][i].kind = "deleted"
             PROVE  /\ stream'[c][i].id < nextId'
                    /\ \A v \in Conn : pc'[v] \in {"commit", "publish"} =>
                         stream'[c][i].id # job'[v].id
  BY DEF DeletionsOK
<1>1. CASE i \in 1 .. Len(stream[c])
  <2>1. stream'[c][i] = stream[c][i]
    BY <1>1, StreamStep
  <2>2. stream[c][i].id < nextId /\ stream[c][i].id \in Nat
    <3>1. stream[c] \in Seq(Frame)
      BY DEF TypeOK, LinksOK
    <3>2. stream[c][i] \in Frame
      BY <1>1, <3>1
    <3>3. QED
      BY <1>1, <2>1, <3>2 DEF DeletionsOK, Frame
  <2>3. stream'[c][i].id < nextId'
    BY <2>1, <2>2, IdsGrow
  <2>4. ASSUME NEW v \in Conn, pc'[v] \in {"commit", "publish"}
        PROVE  stream'[c][i].id # job'[v].id
    <3>1. CASE job'[v].id = nextId
      BY <2>1, <2>2, <3>1, IdsGrow
    <3>2. CASE pc[v] \in {"commit", "publish"} /\ job'[v].id = job[v].id
      BY <1>1, <2>1, <3>2 DEF DeletionsOK
    <3>3. QED
      BY <2>4, <3>1, <3>2, SenderIds DEF IndexInv
  <2>5. QED
    BY <2>3, <2>4
<1>2. ASSUME NEW w \in Worker, Push(w), stream'[c][i] = Published(w)
      PROVE  /\ stream'[c][i].id < nextId'
             /\ \A v \in Conn : pc'[v] \in {"commit", "publish"} => stream'[c][i].id # job'[v].id
  <2>1. /\ pc[w] = "publish" /\ w \notin Conn /\ stream'[c][i].id = job[w].id
        /\ pc' = pc /\ UNCHANGED <<table, nextId>>
    BY <1>2 DEF Push, Published
  <2>2. \A v \in Conn : job'[v] = job[v]
    BY <1>2, <2>1 DEF Push, TypeOK, WorkersOK, Worker
  <2>3. job[w].id < nextId
    BY <2>1 DEF PublishedOK, IndexInv, TableOK, Committed
  <2>4. \A v \in Conn : pc[v] \in {"commit", "publish"} => job[v].id # job[w].id
    BY <2>1, OnePublisher DEF Worker
  <2>5. QED
    BY <2>1, <2>2, <2>3, <2>4
<1>3. stream'[c][i] # Answer(c)
  BY DEF Answer
<1>4. QED
  BY <1>1, <1>2, <1>3, StreamStep

\* Every step keeps each deletion behind its message.
LEMMA DeleteAfterStep ==
    ASSUME TypeOK, DeletionsOK, DeleteAfterMessage, [Next]_vars
    PROVE  DeleteAfterMessage'
<1> SUFFICES ASSUME NEW c \in Conn, NEW i \in 1 .. Len(stream'[c]), NEW j \in 1 .. Len(stream'[c]),
                    stream'[c][i].kind = "deleted", stream'[c][j].kind = "message",
                    stream'[c][i].id = stream'[c][j].id
             PROVE  j < i
  BY DEF DeleteAfterMessage
<1>1. Len(stream[c]) \in Nat
  BY DEF TypeOK, LinksOK
<1>2. CASE j \in 1 .. Len(stream[c]) /\ stream'[c][j] = stream[c][j]
  <2>1. CASE i \in 1 .. Len(stream[c])
    <3>1. stream'[c][i] = stream[c][i]
      BY <2>1, StreamStep
    <3>2. QED
      BY <1>2, <2>1, <3>1 DEF DeleteAfterMessage
  <2>2. CASE i = Len(stream[c]) + 1
    BY <1>1, <1>2, <2>2
  <2>3. QED
    BY <2>1, <2>2, StreamStep
<1>3. ASSUME NEW w \in Conn, Push(w), j = Len(stream[c]) + 1, stream'[c][j].id = job[w].id
      PROVE  FALSE
  <2>1. i # j
    OBVIOUS
  <2>2. i \in 1 .. Len(stream[c])
    BY <1>3, <2>1, StreamStep
  <2>3. stream'[c][i] = stream[c][i]
    BY <2>2, StreamStep
  <2>4. pc[w] = "publish"
    BY <1>3 DEF Push
  <2>5. QED
    BY <1>3, <2>2, <2>3, <2>4 DEF DeletionsOK
<1>4. QED
  BY <1>2, <1>3, NewFrame

\* No connection is told of the deletion of a message before the message, in
\* every reachable state.
THEOREM DeletesFollow == Spec => []DeleteAfterMessage
<1>1. Init => DeletionsOK /\ DeleteAfterMessage
  BY DEF Init, DeletionsOK, DeleteAfterMessage
<1>2. /\ TypeOK /\ TypeOK' /\ IndexInv /\ AnswersInv
      /\ DeletionsOK /\ DeleteAfterMessage /\ [Next]_vars
      => DeletionsOK' /\ DeleteAfterMessage'
  BY DeletionsStep, DeleteAfterStep DEF AnswersInv
<1>3. QED
  BY <1>1, <1>2, IndexCorrect, AnswersCorrect, PTL DEF Spec
-----------------------------------------------------------------------------
(* What every member is told, while nothing is lost *)

\* No repository call has failed and no event was dropped so far.
NoneLost == budget["faults"] = 0 /\ budget["losses"] = 0

\* A row's audience were connected when it was stored, its sender's own
\* connection not among them.
AudienceOK ==
    \A r \in Committed :
        /\ \A c \in r.audience : link[c] # "new"
        /\ \A w \in Conn : pc[w] = "publish" /\ job[w].id = r.id => w \notin r.audience

\* What was counted stays counted.
LEMMA BudgetGrows ==
    ASSUME TypeOK, [Next]_vars, NEW what \in Bounded
    PROVE  budget[what] \in Nat /\ budget'[what] \in Nat /\ budget[what] =< budget'[what]
<1>1. budget[what] \in Nat
  BY DEF TypeOK, BudgetOK
<1>2. ASSUME NEW event \in Bounded, Spent(event)
      PROVE  budget'[what] = budget[what] \/ budget'[what] = budget[what] + 1
  BY <1>2 DEF Spent, TypeOK, BudgetOK
<1>3. ASSUME NEW c \in Conn, NEW f \in Frame, Enqueue(c, f)
      PROVE  budget' = budget \/ \E event \in Bounded : Spent(event)
  BY <1>3 DEF Enqueue, Bounded
<1>4. ASSUME NEW w \in Worker, Push(w) \/ Reply(w)
      PROVE  budget' = budget \/ \E event \in Bounded : Spent(event)
  <2>1. CASE Push(w)
    <3>1. PICK c \in job[w].aim : Enqueue(c, Published(w))
      BY <2>1 DEF Push
    <3>2. c \in Conn /\ Published(w) \in Frame
      BY <3>1, FrameType DEF TypeOK, WorkersOK, Job
    <3>3. QED
      BY <1>3, <3>1, <3>2
  <2>2. CASE Reply(w)
    BY <1>3, <2>2, FrameType DEF Reply
  <2>3. QED
    BY <1>4, <2>1, <2>2
<1>5. budget' = budget \/ (\E event \in Bounded : Spent(event)) \/ \E w \in Worker : Push(w) \/ Reply(w)
  BY DEF Bounded, Next, Environment, Faults, WorkerStep, SubmitStep, RemoveStep, PublishStep, vars,
         Worker, Connect, Disconnect, Refuse, Submit, Lock, GetConversation, CheckAllies,
         Insert, FindDuplicate, Commit, Resolve, FinishPublish, Remove, SoftDelete,
         ReadMembers, Respond, Join, Freeze, Thaw, CallFails, AnswerLost, EventDropped,
         Crash
<1>6. QED
  BY <1>1, <1>2, <1>4, <1>5

\* As long as nothing is lost nothing has been lost, and no step loses anything.
LEMMA NoLoss ==
    ASSUME TypeOK, [Next]_vars, NoneLost'
    PROVE  NoneLost /\ \A w \in Worker : ~ CallFails(w) /\ ~ AnswerLost(w) /\ ~ EventDropped(w)
<1>1. "faults" \in Bounded /\ "losses" \in Bounded
  BY DEF Bounded
<1>2. NoneLost
  BY <1>1, BudgetGrows DEF NoneLost
<1>3. ASSUME NEW what \in Bounded, Spent(what)
      PROVE  budget'[what] = budget[what] + 1
  BY <1>3 DEF Spent, TypeOK, BudgetOK
<1>4. QED
  BY <1>1, <1>2, <1>3 DEF NoneLost, CallFails, AnswerLost, EventDropped

\* Member rows are only added.
LEMMA MembersGrow ==
    ASSUME TypeOK, [Next]_vars
    PROVE  \A conv \in Conv : members[conv] \subseteq members'[conv]
<1>1. ASSUME NEW u \in User, NEW conv \in Conv, Join(u, conv)
      PROVE  members' = [members EXCEPT ![conv] = @ \cup {u}]
  BY <1>1 DEF Join
<1>2. QED
  BY <1>1, MembershipWriters DEF TypeOK, DataOK, Freeze, Thaw

\* A queue that accepts a frame is one of an open connection.
LEMMA Accepting ==
    ASSUME TypeOK, NEW c \in Conn, NEW f \in Frame, Enqueue(c, f), NEW d \in Conn
    PROVE  /\ stream'[d] # stream[d] => link[d] = "open"
           /\ d = c /\ link[d] = "open" /\ link'[d] = "open" => Told(d, f.kind, f.id)'
<1>1. stream[d] \in Seq(Frame)
  BY DEF TypeOK, LinksOK
<1>2. CASE /\ link[c] = "open"
           /\ stream' = [stream EXCEPT ![c] = Append(@, f)]
  <2>1. d = c => stream'[d] = Append(stream[d], f)
    BY <1>2 DEF TypeOK, LinksOK
  <2>2. d # c => stream'[d] = stream[d]
    BY <1>2 DEF TypeOK, LinksOK
  <2>3. ASSUME d = c
        PROVE  Told(d, f.kind, f.id)'
    <3>1. Len(stream'[d]) = Len(stream[d]) + 1 /\ stream'[d][Len(stream[d]) + 1] = f
      BY <1>1, <2>1, <2>3
    <3>2. Len(stream[d]) + 1 \in 1 .. Len(stream'[d])
      BY <1>1, <3>1
    <3>3. QED
      BY <3>1, <3>2 DEF Told
  <2>4. QED
    BY <1>2, <2>2, <2>3
<1>3. CASE UNCHANGED stream /\ (link'[c] = "overflowed" \/ link[c] # "open")
  BY <1>3
<1>4. QED
  BY <1>2, <1>3 DEF Enqueue, TypeOK, LinksOK

\* While nothing is lost, a publisher keeps whom it still has to reach in mind
\* until they are told.
LEMMA PublishProgress ==
    ASSUME TypeOK, [Next]_vars, NoneLost', NEW w \in Worker, pc[w] = "publish",
           NEW c \in Conn, c \in Pending(w), c # w, link[c] = "open", link'[c] = "open",
           NEW kind, kind = (IF w \in Conn THEN "message" ELSE "deleted"),
           NEW id, id = job[w].id
    PROVE  \/ Told(c, kind, id)'
           \/ pc'[w] = "publish" /\ job'[w].id = id /\ c \in Pending(w)'
<1>1. CASE Rests(w)
  BY <1>1 DEF Rests, Pending
<1>2. CASE Resolve(w)
  <2>1. PICK u \in job[w].to : job' = [job EXCEPT
            ![w].to = @ \ {u},
            ![w].aim = {d \in Conn : link[d] \in {"open", "overflowed"} /\ Owner[d] = u} \ {w}]
    BY <1>2 DEF Resolve
  <2>2. /\ job'[w].to = job[w].to \ {u}
        /\ job'[w].aim = {d \in Conn : link[d] \in {"open", "overflowed"} /\ Owner[d] = u} \ {w}
    BY <2>1 DEF TypeOK, WorkersOK, Job
  <2>3. c \in Pending(w)'
    BY <1>2, <2>2 DEF Resolve, Pending
  <2>4. QED
    BY <1>2, <2>3, ResolveEffect DEF Resolve
<1>3. CASE Push(w)
  <2>1. PICK d \in job[w].aim : /\ Enqueue(d, Published(w))
                                /\ job' = [job EXCEPT ![w].aim = @ \ {d}]
    BY <1>3 DEF Push
  <2>2. d \in Conn /\ Published(w) \in Frame /\ Published(w).id = id /\ Published(w).kind = kind
    BY <2>1, FrameType DEF TypeOK, WorkersOK, Job, Published
  <2>3. CASE c = d
    <3>1. PICK f \in Frame : f = Published(w)
      BY <2>2
    <3>2. Told(c, f.kind, f.id)'
      BY <2>1, <2>2, <2>3, <3>1, Accepting
    <3>3. QED
      BY <2>2, <3>1, <3>2
  <2>4. CASE c # d
    <3>1. job'[w].to = job[w].to /\ job'[w].aim = job[w].aim \ {d} /\ job'[w].id = job[w].id
      BY <2>1 DEF TypeOK, WorkersOK, Job
    <3>2. QED
      BY <1>3, <2>4, <3>1 DEF Push, Pending
  <2>5. QED
    BY <2>3, <2>4
<1>4. CASE FinishPublish(w)
  BY <1>4 DEF FinishPublish, Pending
<1>5. CASE Crash
  BY <1>5 DEF Crash
<1>6. QED
  BY <1>1, <1>2, <1>3, <1>4, <1>5, Moves, NoLoss
     DEF Refuse, GetConversation, CheckAllies, Insert, FindDuplicate, Commit, SoftDelete, ReadMembers

\* A visible row that was there before the step, and one stored by it, as far as
\* the audience is concerned.
LEMMA AudienceOrigin ==
    ASSUME TypeOK, IndexInv, [Next]_vars, NEW r \in Committed'
    PROVE  \/ \E q \in Committed : q.id = r.id /\ q.conv = r.conv /\ q.audience = r.audience
           \/ \E w \in Conn :
                /\ pc[w] = "commit" /\ (Commit(w) \/ AnswerLost(w))
                /\ r.id = job[w].id /\ r.conv = job[w].conv
                /\ r.audience = Sockets(job[w].to) \ {w}
BY RowOrigin

\* Two visible rows of one id are one row, and none has the id a sender is
\* about to store.
LEMMA SameRow ==
    ASSUME IndexInv, NEW q \in Committed
    PROVE  /\ \A r \in Committed : r.id = q.id => r = q
           /\ \A w \in Worker : pc[w] = "commit" => job[w].id # q.id
BY DEF IndexInv, TableOK, CommitOK, Committed

\* Every step keeps audiences connected, and senders out of their own.
LEMMA AudienceStep ==
    ASSUME TypeOK, IndexInv, PublishedOK, AudienceOK, [Next]_vars
    PROVE  AudienceOK'
<1> SUFFICES ASSUME NEW r \in Committed'
             PROVE  /\ \A c \in r.audience : link'[c] # "new"
                    /\ \A v \in Conn : pc'[v] = "publish" /\ job'[v].id = r.id => v \notin r.audience
  BY DEF AudienceOK
<1>1. ASSUME NEW v \in Conn, pc'[v] = "publish"
      PROVE  \/ Commit(v) /\ job' = job
             \/ pc[v] = "publish" /\ job'[v].id = job[v].id
  BY <1>1, ConstantsAssumption, PublishArrivals DEF Worker, IndexInv, JobOK
<1>2. ASSUME NEW q \in Committed, q.id = r.id, q.conv = r.conv, q.audience = r.audience
      PROVE  /\ \A c \in r.audience : link'[c] # "new"
             /\ \A v \in Conn : pc'[v] = "publish" /\ job'[v].id = r.id => v \notin r.audience
  <2>1. q \in Row /\ q.audience \subseteq Conn
    BY DEF TypeOK, DataOK, Committed, Row
  <2>2. \A c \in r.audience : link'[c] # "new"
    BY <1>2, <2>1, LinkStep DEF AudienceOK
  <2>3. ASSUME NEW v \in Conn, pc'[v] = "publish", job'[v].id = r.id
        PROVE  v \notin r.audience
    <3>1. ~ Commit(v) \/ job' # job
      BY <1>2, <2>3, SameRow DEF Commit, Worker
    <3>2. QED
      BY <1>1, <1>2, <2>3, <3>1 DEF AudienceOK
  <2>4. QED
    BY <2>2, <2>3
<1>3. ASSUME NEW w \in Conn, pc[w] = "commit", r.id = job[w].id,
             r.audience = Sockets(job[w].to) \ {w}
      PROVE  /\ \A c \in r.audience : link'[c] # "new"
             /\ \A v \in Conn : pc'[v] = "publish" /\ job'[v].id = r.id => v \notin r.audience
  <2>1. \A c \in r.audience : c \in Conn /\ link[c] = "open"
    BY <1>3 DEF Sockets
  <2>2. \A c \in r.audience : link'[c] # "new"
    BY <2>1, LinkStep
  <2>3. ASSUME NEW v \in Conn, pc'[v] = "publish", job'[v].id = r.id
        PROVE  v = w
    <3>1. CASE Commit(v) /\ job' = job
      BY <1>3, <2>3, <3>1 DEF Commit, Worker, IndexInv, CommitOK
    <3>2. CASE pc[v] = "publish" /\ job'[v].id = job[v].id
      BY <1>3, <2>3, <3>2, OnePublisher DEF Worker
    <3>3. QED
      BY <1>1, <2>3, <3>1, <3>2
  <2>4. QED
    BY <1>3, <2>2, <2>3
<1>4. QED
  BY <1>2, <1>3, AudienceOrigin

\* Every step keeps each stored message told, or on its way, to its audience.
LEMMA ToldStep ==
    ASSUME TypeOK, IndexInv, PublishedOK, AudienceOK, EveryMemberTold,
           [Next]_vars, NoneLost'
    PROVE  EveryMemberTold'
<1> SUFFICES ASSUME NEW r \in Committed', NEW c \in r.audience, link'[c] = "open"
             PROVE  \/ Told(c, "message", r.id)'
                    \/ \E w \in Conn : /\ pc'[w] = "publish" /\ job'[w].id = r.id
                                       /\ c \in job'[w].aim \/ Owner[c] \in job'[w].to
  BY DEF EveryMemberTold
<1>1. NoneLost' /\ NoneLost
  BY NoLoss
<1>2. ASSUME NEW q \in Committed, q.id = r.id, q.audience = r.audience
      PROVE  \/ Told(c, "message", r.id)'
             \/ \E w \in Conn : /\ pc'[w] = "publish" /\ job'[w].id = r.id
                                /\ c \in job'[w].aim \/ Owner[c] \in job'[w].to
  <2>1. c \in Conn /\ link[c] = "open"
    <3>1. c \in Conn
      BY <1>2 DEF TypeOK, DataOK, Committed, Row
    <3>2. link[c] # "new"
      BY <1>2 DEF AudienceOK
    <3>3. QED
      BY <3>1, <3>2, LinkStep
  <2>2. CASE Told(c, "message", r.id)
    BY <2>1, <2>2, ToldStays
  <2>3. ASSUME NEW w \in Conn, pc[w] = "publish", job[w].id = r.id, c \in Pending(w)
        PROVE  \/ Told(c, "message", r.id)'
               \/ /\ pc'[w] = "publish" /\ job'[w].id = r.id
                  /\ c \in job'[w].aim \/ Owner[c] \in job'[w].to
    <3>1. c # w
      BY <1>2, <2>3 DEF AudienceOK
    <3>2. Told(c, "message", r.id)' \/ (pc'[w] = "publish" /\ job'[w].id = r.id /\ c \in Pending(w)')
      BY <1>1, <2>1, <2>3, <3>1, PublishProgress DEF Worker
    <3>3. QED
      BY <3>2 DEF Pending
  <2>4. QED
    BY <1>2, <2>1, <2>2, <2>3 DEF EveryMemberTold, Pending
<1>3. ASSUME NEW w \in Conn, Commit(w), r.id = job[w].id, r.conv = job[w].conv,
             r.audience = Sockets(job[w].to) \ {w}
      PROVE  pc'[w] = "publish" /\ job'[w].id = r.id /\ Owner[c] \in job'[w].to
  <2>1. pc[w] = "commit" /\ pc'[w] = "publish" /\ job' = job
    BY <1>3 DEF Commit, TypeOK, WorkersOK, Worker
  <2>2. Owner[c] \in job[w].to
    BY <1>3 DEF Sockets
  <2>3. QED
    BY <1>3, <2>1, <2>2
<1>4. QED
  BY <1>1, <1>2, <1>3, AudienceOrigin, NoLoss DEF Worker

\* A publisher of a conversation finds every other row of it told.
LEMMA OthersTold ==
    ASSUME TypeOK, IndexInv, PublishedOK, EveryMemberTold,
           NEW w \in Worker, pc[w] \in Critical,
           NEW r \in Committed, r.conv = job[w].conv,
           pc[w] \in {"members", "publish"} => r.id # job[w].id,
           NEW c \in r.audience, link[c] = "open"
    PROVE  Told(c, "message", r.id)
<1>1. ASSUME NEW v \in Conn, pc[v] = "publish", job[v].id = r.id
      PROVE  FALSE
  <2>1. PICK q \in Committed : q.id = job[v].id /\ q.conv = job[v].conv
    BY <1>1 DEF PublishedOK, Worker
  <2>2. job[v].conv = job[w].conv
    BY <1>1, <2>1, SameRow
  <2>3. v = w
    BY <1>1, <2>2, OneAtATime DEF Worker, Critical, IndexInv
  <2>4. QED
    BY <1>1, <2>3
<1>2. QED
  BY <1>1 DEF EveryMemberTold

\* Every step keeps earlier messages shown before later ones.
LEMMA SkippedStep ==
    ASSUME TypeOK, IndexInv, PublishedOK, NewestOK, EveryMemberTold, NothingSkipped, [Next]_vars
    PROVE  NothingSkipped'
<1> SUFFICES ASSUME NEW c \in Conn, NEW i \in 1 .. Len(stream'[c]),
                    stream'[c][i].kind = "message",
                    NEW r \in Committed', r.conv = stream'[c][i].conv,
                    r.id < stream'[c][i].id, c \in r.audience
             PROVE  \E j \in 1 .. i : stream'[c][j].kind = "message" /\ stream'[c][j].id = r.id
  BY DEF NothingSkipped
<1>1. /\ Len(stream[c]) \in Nat
      /\ \A j \in 1 .. Len(stream[c]) : stream'[c][j] = stream[c][j]
  BY StreamStep
<1>2. CASE i \in 1 .. Len(stream[c]) /\ stream'[c][i] = stream[c][i]
  <2>1. ASSUME NEW q \in Committed, q.id = r.id, q.conv = r.conv, q.audience = r.audience
        PROVE  \E j \in 1 .. i : stream'[c][j].kind = "message" /\ stream'[c][j].id = r.id
    <3>1. PICK j \in 1 .. i : stream[c][j].kind = "message" /\ stream[c][j].id = r.id
      BY <1>2, <2>1 DEF NothingSkipped
    <3>2. j \in 1 .. Len(stream[c])
      BY <1>1, <1>2
    <3>3. QED
      BY <1>1, <3>1, <3>2
  <2>2. ASSUME NEW w \in Conn, pc[w] = "commit", r.id = job[w].id, r.conv = job[w].conv
        PROVE  FALSE
    <3>1. stream[c][i].id < job[w].id
      BY <1>2, <2>2 DEF NewestOK, Older
    <3>2. stream[c][i].id \in Nat /\ job[w].id \in Nat
      <4>1. stream[c] \in Seq(Frame) /\ job[w] \in Job
        BY DEF TypeOK, LinksOK, WorkersOK, Worker
      <4>2. stream[c][i] \in Frame
        BY <1>2, <4>1
      <4>3. QED
        BY <4>1, <4>2 DEF Frame, Job
    <3>3. QED
      BY <1>2, <2>2, <3>1, <3>2
  <2>3. QED
    BY <2>1, <2>2, AudienceOrigin
<1>3. ASSUME NEW w \in Conn, Push(w), i = Len(stream[c]) + 1, i \notin 1 .. Len(stream[c]),
             stream'[c][i].conv = job[w].conv, stream'[c][i].id = job[w].id
      PROVE  \E j \in 1 .. i : stream'[c][j].kind = "message" /\ stream'[c][j].id = r.id
  <2>1. r \in Committed /\ pc[w] = "publish"
    BY <1>3 DEF Push, Committed
  <2>2. link[c] = "open"
    <3>1. stream'[c] # stream[c]
      BY <1>1, <1>3
    <3>2. PICK d \in job[w].aim : Enqueue(d, Published(w))
      BY <1>3 DEF Push
    <3>3. d \in Conn /\ Published(w) \in Frame
      BY <3>2, FrameType DEF TypeOK, WorkersOK, Job, Worker
    <3>4. PICK f \in Frame : f = Published(w)
      BY <3>3
    <3>5. QED
      BY <3>1, <3>2, <3>3, <3>4, Accepting
  <2>3. r.id # job[w].id
    <3>1. r.id \in Nat
      BY <2>1 DEF TypeOK, DataOK, Committed, Row
    <3>2. QED
      BY <1>3, <3>1
  <2>4. Told(c, "message", r.id)
    BY <1>3, <2>1, <2>2, <2>3, OthersTold DEF Worker, Critical
  <2>5. PICK j \in 1 .. Len(stream[c]) : stream[c][j].kind = "message" /\ stream[c][j].id = r.id
    BY <2>4 DEF Told
  <2>6. j \in 1 .. i
    BY <1>1, <1>3
  <2>7. QED
    BY <1>1, <2>5, <2>6
<1>4. QED
  BY <1>1, <1>2, <1>3, NewFrame

\* Every step keeps what is answered "duplicate" told.
LEMMA DuplicateStep ==
    ASSUME TypeOK, IndexInv, PublishedOK, AnsweredOK, AudienceOK, EveryMemberTold,
           DuplicateMeansDelivered, [Next]_vars
    PROVE  DuplicateMeansDelivered'
<1> SUFFICES ASSUME NEW w \in Conn, pc'[w] = "reply", job'[w].outcome = "duplicate",
                    NEW r \in Committed', r.id = job'[w].id,
                    NEW c \in r.audience, link'[c] = "open"
             PROVE  Told(c, "message", r.id)'
  BY DEF DuplicateMeansDelivered
<1>1. w \in Worker
  BY DEF Worker
<1>2. ASSUME NEW q \in Committed, q.audience = r.audience
      PROVE  c \in Conn /\ link[c] = "open"
  <2>1. c \in Conn
    BY <1>2 DEF TypeOK, DataOK, Committed, Row
  <2>2. link[c] # "new"
    BY <1>2 DEF AudienceOK
  <2>3. QED
    BY <2>1, <2>2, LinkStep
<1>3. CASE Rests(w)
  <2>1. pc[w] = "reply" /\ job[w].outcome = "duplicate" /\ r.id = job[w].id
    BY <1>3 DEF Rests
  <2>2. PICK s \in Committed : s.id = r.id
    BY <2>1 DEF AnsweredOK
  <2>3. ASSUME NEW v \in Conn, pc[v] = "commit", r.id = job[v].id
        PROVE  FALSE
    BY <2>2, <2>3, SameRow DEF Worker
  <2>4. PICK q \in Committed : q.id = r.id /\ q.audience = r.audience
    BY <2>3, AudienceOrigin
  <2>5. c \in Conn /\ link[c] = "open"
    BY <1>2, <2>4
  <2>6. Told(c, "message", r.id)
    BY <2>1, <2>4, <2>5 DEF DuplicateMeansDelivered
  <2>7. QED
    BY <2>5, <2>6, ToldStays
<1>4. CASE FindDuplicate(w)
  <2>1. PICK q \in Committed :
          /\ SameKey(q, w)
          /\ job' = [job EXCEPT ![w].id = q.id, ![w].outcome = "duplicate", ![w].to = {}]
    BY <1>4 DEF FindDuplicate
  <2>2. job'[w].id = q.id /\ r \in Committed
    BY <1>1, <1>4, <2>1 DEF FindDuplicate, TypeOK, WorkersOK, Job, Committed
  <2>3. r = q /\ q.conv = job[w].conv
    BY <2>1, <2>2, SameRow DEF SameKey
  <2>4. pc[w] = "insert"
    BY <1>4 DEF FindDuplicate
  <2>5. c \in Conn /\ link[c] = "open"
    BY <1>2, <2>2
  <2>6. Told(c, "message", r.id)
    BY <1>1, <2>2, <2>3, <2>4, <2>5, OthersTold DEF Critical
  <2>7. QED
    BY <2>5, <2>6, ToldStays
<1>5. ASSUME NEW o, o # "duplicate", Leave(w, o)
      PROVE  FALSE
  BY <1>1, <1>5 DEF Leave, TypeOK, WorkersOK, Job
<1>6. CASE GetConversation(w) \/ CheckAllies(w)
  BY <1>1, <1>5, <1>6 DEF GetConversation, CheckAllies, TypeOK, WorkersOK
<1>7. CASE CallFails(w) \/ AnswerLost(w) \/ FinishPublish(w)
  <2>1. Failure(w) # "duplicate" /\ (IF w \in Conn THEN "stored" ELSE "removed") # "duplicate"
    BY DEF Failure
  <2>2. QED
    BY <1>5, <1>7, <2>1 DEF CallFails, AnswerLost, FinishPublish
<1>8. CASE SoftDelete(w)
  BY <1>1, <1>8, ConstantsAssumption DEF SoftDelete, IndexInv, JobOK
<1>9. CASE Refuse(w)
  BY <1>1, <1>9 DEF Refuse, TypeOK, WorkersOK, Job, NoJob
<1>10. CASE Insert(w) \/ Commit(w) \/ Resolve(w) \/ Push(w) \/ ReadMembers(w) \/ EventDropped(w)
  BY <1>1, <1>10 DEF Insert, Commit, Resolve, Push, ReadMembers, EventDropped, TypeOK, WorkersOK
<1>11. CASE pc'[w] \in {"idle", "lock", "get", "update"}
  BY <1>11
<1>12. QED
  BY <1>1, <1>3, <1>4, <1>6, <1>7, <1>8, <1>9, <1>10, <1>11, Moves

\* What holds of the audiences, and while nothing is lost, of what they have
\* been told.
ToldInv ==
    /\ AudienceOK
    /\ NoneLost => EveryMemberTold /\ NothingSkipped /\ DuplicateMeansDelivered

\* Audiences are told what was stored for them, in every reachable state.
LEMMA ToldCorrect == Spec => []ToldInv
<1>1. Init => ToldInv
  BY DEF Init, ToldInv, AudienceOK, EveryMemberTold, NothingSkipped,
         DuplicateMeansDelivered, Committed, Worker
<1>2. TypeOK /\ IndexInv /\ AnswersInv /\ DeliveryInv /\ ToldInv /\ [Next]_vars => ToldInv'
  <2> SUFFICES ASSUME TypeOK, IndexInv, PublishedOK, AnsweredOK, NewestOK, ToldInv, [Next]_vars
               PROVE  ToldInv'
    BY DEF AnswersInv, DeliveryInv
  <2>1. AudienceOK'
    BY AudienceStep DEF ToldInv
  <2>2. ASSUME NoneLost'
        PROVE  EveryMemberTold' /\ NothingSkipped' /\ DuplicateMeansDelivered'
    <3>1. EveryMemberTold /\ NothingSkipped /\ DuplicateMeansDelivered
      BY <2>2, NoLoss DEF ToldInv
    <3>2. EveryMemberTold'
      BY <2>2, <3>1, ToldStep DEF ToldInv
    <3>3. NothingSkipped' /\ DuplicateMeansDelivered'
      BY <3>1, SkippedStep, DuplicateStep DEF ToldInv
    <3>4. QED
      BY <3>2, <3>3
  <2>3. QED
    BY <2>1, <2>2 DEF ToldInv
<1>3. QED
  BY <1>1, <1>2, IndexCorrect, AnswersCorrect, DeliveryCorrect, PTL DEF Spec

\* While no call fails, a stored message is told to every connected device of
\* every member its sender has read, or the sender is on the way to tell it,
\* whoever joins meanwhile.
THEOREM MembersTold == Spec => [](NoneLost => EveryMemberTold)
BY ToldCorrect, PTL DEF ToldInv

\* Under the same condition no connection is shown a message before an earlier
\* one that was stored for it: the highest id held says what is held.
THEOREM NoneSkipped == Spec => [](NoneLost => NothingSkipped)
BY ToldCorrect, PTL DEF ToldInv

\* Under the same condition a retry that is answered "duplicate" was delivered
\* to everybody the first time.
THEOREM DuplicatesDelivered == Spec => [](NoneLost => DuplicateMeansDelivered)
BY ToldCorrect, PTL DEF ToldInv
-----------------------------------------------------------------------------
(* What every member is told of a deletion, while nothing is lost *)

\* Those who must hear of a deletion were connected members when it was made.
MournersOK ==
    \A r \in Committed : r.state = "deleted" =>
        \A c \in r.mourners : link[c] # "new" /\ Owner[c] \in members[r.conv]

\* A remover that has marked the row has still to tell c.
ToldSoon(h, c, r) ==
    /\ job[h].id = r.id
    /\ pc[h] = "members" \/ (pc[h] = "publish" /\ c \in Pending(h))

\* A deletion is told, or on its way, to everybody who must hear of it.
EveryMournerTold ==
    \A r \in Committed : r.state = "deleted" =>
        \A c \in r.mourners : link[c] = "open" =>
            Told(c, "deleted", r.id) \/ \E h \in Http : ToldSoon(h, c, r)

\* A deletion is published, and "removed" answered, only about a deleted row.
RemovedOK ==
    \A h \in Http :
        \/ pc[h] \in {"members", "publish"}
        \/ pc[h] = "reply" /\ job[h].outcome = "removed"
        => \E r \in Committed : r.id = job[h].id /\ r.state = "deleted"

\* Where a deleted row comes from.
LEMMA DeletedOrigin ==
    ASSUME TypeOK, IndexInv, [Next]_vars, NEW r \in Committed', r.state = "deleted"
    PROVE  \/ r \in Committed
           \/ \E w \in Http :
                /\ r.id = job[w].id /\ r.conv = job[w].conv /\ r.mourners = Sockets(members[r.conv])
                /\ pc[w] = "update" /\ (SoftDelete(w) \/ AnswerLost(w))
                /\ SoftDelete(w) => pc'[w] = "members" /\ job' = job
<1>1. ASSUME NEW q \in Committed, NEW w \in Worker, pc[w] = "update", SoftDelete(w) \/ AnswerLost(w),
             q.state = "live", r.id = q.id, r.id = job[w].id, r.conv = job[w].conv,
             r.mourners = Sockets(members[r.conv])
      PROVE  /\ w \in Http
             /\ SoftDelete(w) => pc'[w] = "members" /\ job' = job
  <2>1. w \in Http
    BY <1>1 DEF IndexInv, JobOK
  <2>2. ASSUME table' = table
        PROVE  FALSE
    BY <1>1, <2>2, SameRow DEF Committed
  <2>3. SoftDelete(w) => pc'[w] = "members" /\ job' = job
    BY <1>1, <2>2 DEF SoftDelete, TypeOK, WorkersOK
  <2>4. QED
    BY <2>1, <2>3
<1>2. QED
  BY <1>1, RowOrigin

\* Every step keeps mourners connected members.
LEMMA MournersStep ==
    ASSUME TypeOK, IndexInv, MournersOK, [Next]_vars
    PROVE  MournersOK'
<1> SUFFICES ASSUME NEW r \in Committed', r.state = "deleted", NEW c \in r.mourners
             PROVE  link'[c] # "new" /\ Owner[c] \in members'[r.conv]
  BY DEF MournersOK
<1>1. CASE r \in Committed
  <2>1. c \in Conn /\ r.conv \in Conv
    BY <1>1 DEF TypeOK, DataOK, Committed, Row
  <2>2. link[c] # "new" /\ Owner[c] \in members[r.conv]
    BY <1>1 DEF MournersOK
  <2>3. QED
    BY <2>1, <2>2, LinkStep, MembersGrow
<1>2. ASSUME NEW w \in Http, r.conv = job[w].conv, pc[w] = "update", r.mourners = Sockets(members[r.conv])
      PROVE  link'[c] # "new" /\ Owner[c] \in members'[r.conv]
  <2>1. r.conv \in Conv
    BY <1>2 DEF IndexInv, JobOK, Working, Critical, Worker
  <2>2. c \in Conn /\ link[c] = "open" /\ Owner[c] \in members[r.conv]
    BY <1>2 DEF Sockets
  <2>3. QED
    BY <2>1, <2>2, LinkStep, MembersGrow
<1>3. QED
  BY <1>1, <1>2, DeletedOrigin

\* While nothing is lost, a remover tells those it has to.
LEMMA RemoveProgress ==
    ASSUME TypeOK, IndexInv, PublishedOK, MournersOK, [Next]_vars, NoneLost',
           NEW r \in Committed, r.state = "deleted", NEW c \in r.mourners,
           link[c] = "open", link'[c] = "open", NEW h \in Http, ToldSoon(h, c, r)
    PROVE  Told(c, "deleted", r.id)' \/ ToldSoon(h, c, r)'
<1>1. c \in Conn /\ h \in Worker /\ h \notin Conn /\ c # h
  BY ConstantsAssumption DEF TypeOK, DataOK, Committed, Row, Worker
<1>2. CASE pc[h] = "publish" /\ c \in Pending(h)
  <2>1. Told(c, "deleted", r.id)' \/ (pc'[h] = "publish" /\ job'[h].id = r.id /\ c \in Pending(h)')
    BY <1>1, <1>2, PublishProgress DEF ToldSoon
  <2>2. QED
    BY <2>1 DEF ToldSoon
<1>3. CASE pc[h] = "members"
  <2>1. CASE Rests(h)
    BY <1>3, <2>1 DEF Rests, ToldSoon
  <2>2. CASE ReadMembers(h)
    <3>1. PICK q \in Committed : q.id = job[h].id /\ q.conv = job[h].conv
      BY <1>1, <1>3 DEF PublishedOK
    <3>2. job[h].conv = r.conv
      BY <3>1, SameRow DEF ToldSoon
    <3>3. pc'[h] = "publish" /\ job'[h].id = r.id /\ job'[h].to = members[r.conv]
      BY <1>1, <2>2, <3>2 DEF ReadMembers, TypeOK, WorkersOK, Job, ToldSoon
    <3>4. Owner[c] \in job'[h].to
      BY <3>3 DEF MournersOK
    <3>5. QED
      BY <1>1, <3>3, <3>4 DEF ToldSoon, Pending
  <2>3. CASE Crash
    BY <1>1, <2>3 DEF Crash
  <2>4. QED
    BY <1>1, <1>3, <2>1, <2>2, <2>3, Moves, NoLoss
       DEF Refuse, GetConversation, CheckAllies, Insert, FindDuplicate, Commit, SoftDelete,
           Resolve, Push, FinishPublish
<1>4. QED
  BY <1>2, <1>3 DEF ToldSoon

\* Every step keeps each deletion told, or on its way.
LEMMA MournedStep ==
    ASSUME TypeOK, IndexInv, PublishedOK, MournersOK, EveryMournerTold, [Next]_vars, NoneLost'
    PROVE  EveryMournerTold'
<1> SUFFICES ASSUME NEW r \in Committed', r.state = "deleted", NEW c \in r.mourners,
                    link'[c] = "open"
             PROVE  Told(c, "deleted", r.id)' \/ \E h \in Http : ToldSoon(h, c, r)'
  BY DEF EveryMournerTold
<1>1. CASE r \in Committed
  <2>1. c \in Conn
    BY <1>1 DEF TypeOK, DataOK, Committed, Row
  <2>2. link[c] = "open"
    BY <1>1, <2>1, LinkStep DEF MournersOK
  <2>3. CASE Told(c, "deleted", r.id)
    BY <2>1, <2>3, ToldStays
  <2>4. ASSUME NEW h \in Http, ToldSoon(h, c, r)
        PROVE  Told(c, "deleted", r.id)' \/ ToldSoon(h, c, r)'
    BY <1>1, <2>2, <2>4, RemoveProgress
  <2>5. QED
    BY <1>1, <2>2, <2>3, <2>4 DEF EveryMournerTold
<1>2. ASSUME NEW w \in Http, SoftDelete(w), r.id = job[w].id, pc'[w] = "members", job' = job
      PROVE  ToldSoon(w, c, r)'
  BY <1>2 DEF ToldSoon
<1>3. QED
  BY <1>1, <1>2, DeletedOrigin, NoLoss DEF Worker

\* How an HTTP thread comes to answer "removed".
LEMMA RemovedArrivals ==
    ASSUME TypeOK, IndexInv, [Next]_vars, NEW h \in Http,
           pc'[h] = "reply", job'[h].outcome = "removed"
    PROVE  \/ Rests(h)
           \/ /\ table' = table /\ job'[h].id = job[h].id
              /\ \/ pc[h] = "publish" /\ job[h].to = {} /\ job[h].aim = {}
                 \/ pc[h] = "update" /\ \E r \in Mine(h) : r.state = "deleted"
<1>1. h \in Worker /\ h \notin Conn
  BY ConstantsAssumption DEF Worker
<1>2. ASSUME NEW o, Leave(h, o)
      PROVE  job'[h].id = job[h].id /\ job'[h].outcome = o
  BY <1>1, <1>2 DEF Leave, TypeOK, WorkersOK, Job
<1>3. CASE FinishPublish(h)
  BY <1>2, <1>3 DEF FinishPublish
<1>4. CASE SoftDelete(h)
  <2>1. CASE pc' = [pc EXCEPT ![h] = "members"]
    BY <1>1, <2>1 DEF TypeOK, WorkersOK
  <2>2. CASE (\E r \in Mine(h) : r.state = "deleted") /\ Leave(h, "removed") /\ UNCHANGED table
    BY <1>2, <1>4, <2>2 DEF SoftDelete
  <2>3. CASE Leave(h, "notFound")
    BY <1>2, <2>3
  <2>4. QED
    BY <1>4, <2>1, <2>2, <2>3 DEF SoftDelete
<1>5. CASE CallFails(h) \/ AnswerLost(h)
  BY <1>1, <1>2, <1>5 DEF CallFails, AnswerLost, Failure
<1>6. CASE Refuse(h) \/ GetConversation(h) \/ CheckAllies(h) \/ Insert(h) \/ FindDuplicate(h) \/ Commit(h)
  BY <1>1, <1>6 DEF Refuse, GetConversation, CheckAllies, Insert, FindDuplicate, Commit, IndexInv, JobOK
<1>7. CASE Resolve(h) \/ Push(h) \/ ReadMembers(h) \/ EventDropped(h)
  BY <1>1, <1>7 DEF Resolve, Push, ReadMembers, EventDropped, TypeOK, WorkersOK
<1>8. CASE pc'[h] \in {"idle", "lock", "get", "update"}
  BY <1>8
<1>9. QED
  BY <1>1, <1>3, <1>4, <1>5, <1>6, <1>7, <1>8, Moves

\* Every step keeps what removers publish and answer deleted.
LEMMA RemovedOKStep ==
    ASSUME TypeOK, IndexInv, RemovedOK, [Next]_vars
    PROVE  RemovedOK'
<1> SUFFICES ASSUME NEW h \in Http,
                    \/ pc'[h] \in {"members", "publish"}
                    \/ pc'[h] = "reply" /\ job'[h].outcome = "removed"
             PROVE  \E r \in Committed' : r.id = job'[h].id /\ r.state = "deleted"
  BY DEF RemovedOK
<1>1. h \in Worker /\ h \notin Conn
  BY ConstantsAssumption DEF Worker
<1>2. ASSUME NEW q \in Committed, q.id = job'[h].id, q.state = "deleted"
      PROVE  \E r \in Committed' : r.id = job'[h].id /\ r.state = "deleted"
  BY <1>2, RowStays
<1>3. CASE pc'[h] \in {"members", "publish"}
  <2>1. CASE MarkDeleted(h) /\ job' = job
    <3>1. PICK r \in Committed, new \in Row :
            /\ r.id = job[h].id /\ new.id = r.id /\ new.state = "deleted"
            /\ table' = (table \ {r}) \cup {new}
      BY <1>1, <2>1, MarkDeletedEffect
    <3>2. QED
      BY <2>1, <3>1 DEF Committed
  <2>2. CASE pc[h] \in {"members", "publish"} /\ job'[h].id = job[h].id
    BY <1>2, <2>2 DEF RemovedOK
  <2>3. ~ Commit(h)
    BY <1>1 DEF Commit, IndexInv, JobOK
  <2>4. QED
    BY <1>1, <1>3, <2>1, <2>2, <2>3, PublishArrivals
<1>4. CASE pc'[h] = "reply" /\ job'[h].outcome = "removed"
  <2>1. CASE Rests(h)
    BY <1>2, <1>4, <2>1 DEF Rests, RemovedOK
  <2>2. CASE pc[h] = "publish" /\ job'[h].id = job[h].id
    BY <1>2, <2>2 DEF RemovedOK
  <2>3. CASE job'[h].id = job[h].id /\ \E r \in Mine(h) : r.state = "deleted"
    BY <1>2, <2>3 DEF Mine
  <2>4. QED
    BY <1>4, <2>1, <2>2, <2>3, RemovedArrivals
<1>5. QED
  BY <1>3, <1>4

\* Every step keeps what is answered "removed" told.
LEMMA RemovedToldStep ==
    ASSUME TypeOK, IndexInv, PublishedOK, MournersOK, EveryMournerTold, RemovedOK,
           RemovedMeansTold, [Next]_vars
    PROVE  RemovedMeansTold'
<1> SUFFICES ASSUME NEW h \in Http, pc'[h] = "reply", job'[h].outcome = "removed",
                    NEW r \in Committed', r.id = job'[h].id,
                    NEW c \in r.mourners, link'[c] = "open"
             PROVE  Told(c, "deleted", r.id)'
  BY DEF RemovedMeansTold
<1>1. h \in Worker
  BY DEF Worker
<1>2. ASSUME r \in Committed, r.state = "deleted"
      PROVE  c \in Conn /\ link[c] = "open"
  <2>1. c \in Conn
    BY <1>2 DEF TypeOK, DataOK, Committed, Row
  <2>2. QED
    BY <1>2, <2>1, LinkStep DEF MournersOK
<1>3. CASE Rests(h)
  <2>1. pc[h] = "reply" /\ job[h].outcome = "removed" /\ r.id = job[h].id
    BY <1>3 DEF Rests
  <2>2. PICK q \in Committed : q.id = r.id /\ q.state = "deleted"
    BY <2>1 DEF RemovedOK
  <2>3. r = q
    <3>1. ASSUME NEW s \in Committed, s.state = "live", s.id = r.id
          PROVE  FALSE
      BY <2>2, <3>1, SameRow
    <3>2. ASSUME NEW w \in Conn, pc[w] = "commit", r.id = job[w].id
          PROVE  FALSE
      BY <2>2, <3>2, SameRow DEF Worker
    <3>3. r \in Committed
      BY <3>1, <3>2, RowOrigin
    <3>4. QED
      BY <2>2, <3>3, SameRow
  <2>4. Told(c, "deleted", r.id)
    BY <1>2, <2>1, <2>2, <2>3 DEF RemovedMeansTold
  <2>5. QED
    BY <1>2, <2>2, <2>3, <2>4, ToldStays
<1>4. ASSUME table' = table, job'[h].id = job[h].id, pc[h] \in {"publish", "update"},
             pc[h] = "publish" => Pending(h) = {},
             NEW q \in Committed, q.id = job[h].id, q.state = "deleted",
             q.conv = job[h].conv
      PROVE  Told(c, "deleted", r.id)'
  <2>1. r = q /\ r \in Committed
    BY <1>4, SameRow DEF Committed
  <2>2. ASSUME NEW g \in Http, ToldSoon(g, c, r)
        PROVE  FALSE
    <3>1. pc[g] \in {"members", "publish"} /\ job[g].id = r.id /\ g \in Worker
      BY <2>2 DEF ToldSoon, Worker
    <3>2. PICK s \in Committed : s.id = job[g].id /\ s.conv = job[g].conv
      BY <3>1 DEF PublishedOK
    <3>3. job[g].conv = job[h].conv
      BY <1>4, <2>1, <3>1, <3>2, SameRow
    <3>4. g = h
      BY <1>1, <1>4, <3>1, <3>3, OneAtATime DEF Critical, IndexInv
    <3>5. QED
      BY <1>4, <2>2, <3>4 DEF ToldSoon
  <2>3. c \in Conn /\ link[c] = "open"
    BY <1>2, <1>4, <2>1
  <2>4. Told(c, "deleted", r.id)
    BY <1>4, <2>1, <2>2, <2>3 DEF EveryMournerTold
  <2>5. QED
    BY <2>3, <2>4, ToldStays
<1>5. CASE /\ table' = table /\ job'[h].id = job[h].id
           /\ pc[h] = "publish" /\ job[h].to = {} /\ job[h].aim = {}
  <2>1. PICK q \in Committed : q.id = job[h].id /\ q.state = "deleted"
    BY <1>5 DEF RemovedOK
  <2>2. q.conv = job[h].conv
    BY <1>1, <1>5, <2>1, SameRow DEF PublishedOK
  <2>3. QED
    BY <1>4, <1>5, <2>1, <2>2 DEF Pending
<1>6. CASE /\ table' = table /\ job'[h].id = job[h].id
           /\ pc[h] = "update" /\ \E q \in Mine(h) : q.state = "deleted"
  BY <1>4, <1>6 DEF Mine
<1>7. QED
  BY <1>3, <1>5, <1>6, RemovedArrivals

\* What holds of deletions, and while nothing is lost, of who has been told.
RemovalInv ==
    /\ MournersOK /\ RemovedOK
    /\ NoneLost => EveryMournerTold /\ RemovedMeansTold

\* Who mourns, and what is published and answered of deletions, in every
\* reachable state.
LEMMA RemovalCorrect == Spec => []RemovalInv
<1>1. Init => RemovalInv
  BY DEF Init, RemovalInv, MournersOK, RemovedOK, EveryMournerTold, RemovedMeansTold, Committed, Worker
<1>2. TypeOK /\ IndexInv /\ AnswersInv /\ RemovalInv /\ [Next]_vars => RemovalInv'
  <2> SUFFICES ASSUME TypeOK, IndexInv, PublishedOK, RemovalInv, [Next]_vars
               PROVE  RemovalInv'
    BY DEF AnswersInv
  <2>1. MournersOK' /\ RemovedOK'
    BY MournersStep, RemovedOKStep DEF RemovalInv
  <2>2. ASSUME NoneLost'
        PROVE  EveryMournerTold' /\ RemovedMeansTold'
    BY <2>2, NoLoss, MournedStep, RemovedToldStep DEF RemovalInv
  <2>3. QED
    BY <2>1, <2>2 DEF RemovalInv
<1>3. QED
  BY <1>1, <1>2, IndexCorrect, AnswersCorrect, PTL DEF Spec

\* While nothing is lost, "removed" is answered when every member's connected
\* devices have been told of the deletion, in every reachable state.
THEOREM RemovalsTold == Spec => [](NoneLost => RemovedMeansTold)
<1>1. RemovalInv => (NoneLost => RemovedMeansTold)
  BY DEF RemovalInv
<1>2. QED
  BY <1>1, RemovalCorrect, PTL
-----------------------------------------------------------------------------
(* The refinement: ChatService implements ChatLog *)

\* What a sender publishes is the newest message of its conversation, and not
\* deleted: whoever would change that waits for the stripe.
LatestOK ==
    \A w \in Conn : pc[w] = "publish" =>
        \A q \in Committed :
            /\ q.conv = job[w].conv => q.id =< job[w].id
            /\ q.id = job[w].id => q.state = "live"

\* A commit makes the committed message the latest.
LEMMA LatestOnCommit ==
    ASSUME TypeOK, IndexInv, NEW v \in Worker, Commit(v), NEW q \in Committed'
    PROVE  /\ q.conv = job[v].conv => q.id =< job[v].id
           /\ q.id = job[v].id => q.state = "live"
<1>1. PICK r \in table, new \in Row :
        /\ r.id = job[v].id /\ new.id = r.id /\ new.state = "live"
        /\ table' = (table \ {r}) \cup {new}
  BY StoreEffect DEF Commit
<1>2. CASE q = new
  BY <1>1, <1>2 DEF Row
<1>3. CASE q \in Committed
  <2>1. q \in Row /\ job[v].id \in Nat
    BY <1>3 DEF TypeOK, DataOK, WorkersOK, Job, Committed
  <2>2. q.conv = job[v].conv => q.id < job[v].id
    BY <1>3 DEF Commit, IndexInv, CommitOK
  <2>3. q.id # job[v].id
    BY <1>3 DEF Commit, IndexInv, CommitOK, Committed
  <2>4. QED
    BY <2>1, <2>2, <2>3 DEF Row
<1>4. QED
  BY <1>1, <1>2, <1>3 DEF Committed

\* Every step keeps what a sender publishes the latest.
LEMMA LatestStep ==
    ASSUME TypeOK, IndexInv, PublishedOK, LatestOK, [Next]_vars
    PROVE  LatestOK'
<1> SUFFICES ASSUME NEW v \in Conn, pc'[v] = "publish", NEW q \in Committed'
             PROVE  /\ q.conv = job'[v].conv => q.id =< job'[v].id
                    /\ q.id = job'[v].id => q.state = "live"
  BY DEF LatestOK
<1>1. v \in Worker /\ v \notin Http
  BY ConstantsAssumption DEF Worker
<1>2. CASE Commit(v) /\ job' = job
  BY <1>1, <1>2, LatestOnCommit
<1>3. CASE pc[v] \in {"members", "publish"} /\ job'[v].id = job[v].id /\ job'[v].conv = job[v].conv
  <2>1. pc[v] = "publish"
    BY <1>1, <1>3 DEF IndexInv, JobOK
  <2>2. PICK r \in Committed : r.id = job[v].id /\ r.conv = job[v].conv
    BY <1>1, <2>1 DEF PublishedOK
  <2>3. CASE q \in Committed
    BY <1>3, <2>1, <2>3 DEF LatestOK
  <2>4. ASSUME NEW w \in Worker, pc[w] \in {"update", "commit"}
        PROVE  job[w].conv # job[v].conv
    BY <1>1, <2>1, <2>4, OneAtATime DEF IndexInv, Critical
  <2>5. ASSUME NEW p \in Committed, p.id = job[v].id
        PROVE  p.conv = job[v].conv
    BY <2>2, <2>5, SameRow
  <2>6. CASE \E p \in Committed, w \in Worker :
               pc[w] = "update" /\ q.id = p.id /\ q.conv = p.conv /\ q.conv = job[w].conv
    BY <1>3, <2>4, <2>5, <2>6
  <2>7. CASE \E w \in Conn : pc[w] = "commit" /\ q.id = job[w].id /\ q.conv = job[w].conv
    BY <1>3, <2>2, <2>4, <2>7, SameRow DEF Worker
  <2>8. QED
    BY <2>3, <2>6, <2>7, RowOrigin
<1>4. ~ SoftDelete(v)
  BY <1>1 DEF SoftDelete, IndexInv, JobOK
<1>5. QED
  BY <1>1, <1>2, <1>3, <1>4, PublishArrivals

\* A sender publishes the latest message, in every reachable state.
LEMMA LatestCorrect == Spec => []LatestOK
<1>1. Init => LatestOK
  BY DEF Init, LatestOK, Worker
<1>2. TypeOK /\ IndexInv /\ AnswersInv /\ LatestOK /\ [Next]_vars => LatestOK'
  BY LatestStep DEF AnswersInv
<1>3. QED
  BY <1>1, <1>2, IndexCorrect, AnswersCorrect, PTL DEF Spec

All  == Messages({"live", "deleted"})
Gone == Messages({"deleted"})

\* The message a row stands for.
AsMessage(r) == [conv |-> r.conv, id |-> r.id]

\* A message of the log is a visible row, a deleted one a deleted row.
LEMMA MessageRows ==
    ASSUME TypeOK
    PROVE  /\ \A r \in Committed : AsMessage(r) \in All
           /\ \A r \in Committed : r.state = "deleted" => AsMessage(r) \in Gone
           /\ \A m \in All : \E r \in Committed : m = AsMessage(r)
           /\ \A m \in Gone : \E r \in Committed : r.state = "deleted" /\ m = AsMessage(r)
BY DEF TypeOK, DataOK, Row, Committed, Messages, All, Gone, AsMessage

\* A commit stores a message above all earlier ones of its conversation.
LEMMA StoreMaps ==
    ASSUME TypeOK, IndexInv, NEW w \in Worker, pc[w] = "commit", Store(w), UNCHANGED stream
    PROVE  Chat!Store
<1>1. PICK r \in table, new \in Row :
        /\ r.id = job[w].id /\ new.id = r.id /\ new.conv = r.conv /\ new.state = "live"
        /\ table' = (table \ {r}) \cup {new}
  BY StoreEffect
<1>2. r.state = "open"
  BY <1>1 DEF IndexInv, CommitOK
<1> DEFINE m == AsMessage(new)
<1>3. All' = All \cup {m}
  BY <1>1, <1>2 DEF All, Messages, AsMessage
<1>4. Gone' = Gone
  BY <1>1, <1>2 DEF Gone, Messages
<1>5. ASSUME NEW n \in All
      PROVE  n.id # m.id /\ (n.conv = m.conv => n.id < m.id)
  <2>1. PICK q \in Committed : n = AsMessage(q)
    BY MessageRows
  <2>2. q.id # job[w].id
    BY <1>1, <1>2, <2>1 DEF Committed, IndexInv, TableOK
  <2>3. q.conv = r.conv => q.id < job[w].id
    BY <1>1 DEF IndexInv, CommitOK
  <2>4. QED
    BY <1>1, <2>1, <2>2, <2>3 DEF AsMessage
<1>6. m \in All' \ All
  BY <1>3, <1>5
<1>7. QED
  BY <1>3, <1>4, <1>5, <1>6 DEF Chat!Store, All, Gone

\* Marking a row deletes a message that was not deleted.
LEMMA DeleteMaps ==
    ASSUME TypeOK, IndexInv, NEW w \in Worker, MarkDeleted(w), UNCHANGED stream
    PROVE  \E m \in All : Chat!Delete(m)
<1>1. PICK r \in Mine(w) :
        /\ r.state = "live"
        /\ table' = (table \ {r}) \cup
             {[r EXCEPT !.state = "deleted", !.mourners = Sockets(members[r.conv])]}
  BY DEF MarkDeleted
<1>2. r \in Committed /\ r \in Row
  BY DEF Mine, Committed, TypeOK, DataOK
<1>3. PICK new : /\ new.id = r.id /\ new.conv = r.conv /\ new.state = "deleted"
                 /\ table' = (table \ {r}) \cup {new}
  BY <1>1, <1>2 DEF Row
<1> DEFINE m == AsMessage(r)
<1>4. m \in All
  BY <1>2, MessageRows
<1>5. m = AsMessage(new)
  BY <1>3 DEF AsMessage
<1>6. m \notin Gone
  BY <1>1, <1>2, MessageRows, SameRow DEF AsMessage
<1>7. Gone' = Gone \cup {m}
  BY <1>1, <1>3, <1>5 DEF Gone, Messages, AsMessage
<1>8. All' = All
  BY <1>1, <1>2, <1>3, <1>5 DEF All, Messages, AsMessage, Committed
<1>9. QED
  BY <1>4, <1>6, <1>7, <1>8 DEF Chat!Delete, All, Gone

\* A queue that accepts a frame tells its connection; another changes nothing.
LEMMA EnqueueMaps ==
    ASSUME NEW c \in Conn, NEW kind, NEW conv, NEW id, UNCHANGED table,
           Enqueue(c, [kind |-> kind, conv |-> conv, id |-> id])
    PROVE  \/ Chat!Tell(c, kind, conv, id)
           \/ UNCHANGED Chat!vars
<1>1. UNCHANGED <<All, Gone>>
  BY DEF All, Gone, Messages
<1>2. QED
  BY <1>1 DEF Enqueue, Chat!Tell, Chat!vars, All, Gone

\* A push shows the newest message, once and not after its deletion, or
\* announces a deletion that was made.
LEMMA PushMaps ==
    ASSUME TypeOK, IndexInv, NewestOK, PublishedOK, RemovedOK, LatestOK,
           NEW w \in Worker, Push(w)
    PROVE  \/ UNCHANGED Chat!vars
           \/ \E m \in All, c \in Conn : Chat!Show(c, m) \/ Chat!Retract(c, m)
<1>1. PICK c \in job[w].aim : Enqueue(c, Published(w))
  BY DEF Push
<1>2. c \in Conn /\ pc[w] = "publish" /\ UNCHANGED table /\ job[w].id \in Nat
  BY <1>1 DEF Push, TypeOK, WorkersOK, Job
<1>3. PICK r \in Committed : r.id = job[w].id /\ r.conv = job[w].conv
  BY <1>2 DEF PublishedOK
<1> DEFINE m == AsMessage(r)
           kind == IF w \in Conn THEN "message" ELSE "deleted"
<1>4. m \in All /\ m.conv = job[w].conv /\ m.id = job[w].id
  BY <1>3, MessageRows DEF AsMessage
<1>5. Chat!Tell(c, kind, m.conv, m.id) \/ UNCHANGED Chat!vars
  BY <1>1, <1>2, <1>4, EnqueueMaps DEF Published
<1>6. CASE w \in Conn
  <2>1. m \notin Gone
    BY <1>2, <1>4, <1>6, MessageRows DEF LatestOK, AsMessage
  <2>2. Chat!Newest(m)
    BY <1>2, <1>4, <1>6, MessageRows DEF LatestOK, AsMessage, Chat!Newest, All
  <2>3. ~ Chat!WasShown(c, m)
    BY <1>1, <1>2, <1>4, <1>6 DEF NewestOK, Pending, Older, Chat!WasShown
  <2>4. QED
    BY <1>2, <1>4, <1>5, <1>6, <2>1, <2>2, <2>3 DEF Chat!Show, Gone
<1>7. CASE w \notin Conn
  <2>1. PICK q \in Committed : q.id = job[w].id /\ q.state = "deleted"
    BY <1>2, <1>7 DEF RemovedOK, Worker
  <2>2. m \in Gone
    BY <1>3, <2>1, SameRow, MessageRows
  <2>3. QED
    BY <1>2, <1>4, <1>5, <1>7, <2>2 DEF Chat!Retract, Gone
<1>8. QED
  BY <1>6, <1>7

\* An answer acknowledges a stored message or rejects a request.
LEMMA ReplyMaps ==
    ASSUME TypeOK, AnsweredOK, NEW w \in Worker, Reply(w)
    PROVE  \/ UNCHANGED Chat!vars
           \/ \E m \in All, c \in Conn : Chat!Acknowledge(c, m)
           \/ \E c \in Conn, conv \in Conv \cup {None} : Chat!Reject(c, conv)
<1>1. /\ w \in Conn /\ pc[w] = "reply" /\ UNCHANGED table /\ Enqueue(w, Answer(w))
      /\ job[w].conv \in Conv \cup {None}
  BY DEF Reply, TypeOK, WorkersOK, Job
<1>2. CASE job[w].outcome = "rejected"
  <2>1. Chat!Tell(w, "nack", job[w].conv, 0) \/ UNCHANGED Chat!vars
    BY <1>1, <1>2, EnqueueMaps DEF Answer
  <2>2. QED
    BY <1>1, <2>1 DEF Chat!Reject
<1>3. CASE job[w].outcome # "rejected"
  <2>1. PICK r \in Committed : r.id = job[w].id /\ r.conv = job[w].conv
    BY <1>1, <1>3 DEF AnsweredOK
  <2> DEFINE m == AsMessage(r)
  <2>2. m \in All /\ m.conv = job[w].conv /\ m.id = job[w].id
    BY <2>1, MessageRows DEF AsMessage
  <2>3. Chat!Tell(w, "ack", m.conv, m.id) \/ UNCHANGED Chat!vars
    BY <1>1, <1>3, <2>2, EnqueueMaps DEF Answer
  <2>4. QED
    BY <1>1, <2>2, <2>3 DEF Chat!Acknowledge
<1>4. QED
  BY <1>2, <1>3

\* Every step of ChatService is a step of ChatLog or changes nothing of it.
LEMMA StepMaps ==
    ASSUME TypeOK, IndexInv, NewestOK, PublishedOK, AnsweredOK, RemovedOK, LatestOK,
           [Next]_vars
    PROVE  [Chat!Next]_(Chat!vars)
<1>1. ASSUME All' = All, Gone' = Gone, UNCHANGED stream
      PROVE  UNCHANGED Chat!vars
  BY <1>1 DEF Chat!vars, All, Gone
<1>2. CASE UNCHANGED <<table, stream>>
  BY <1>1, <1>2 DEF All, Gone, Messages
<1>3. ASSUME NEW w \in Worker, Insert(w)
      PROVE  UNCHANGED Chat!vars
  BY <1>1, <1>3 DEF Insert, All, Gone, Messages
<1>4. ASSUME NEW w \in Worker, pc[w] = "commit", table' = {r \in table : r.id # job[w].id},
             UNCHANGED stream
      PROVE  UNCHANGED Chat!vars
  <2>1. \A r \in table : r.id = job[w].id => r.state = "open"
    BY <1>4 DEF IndexInv, CommitOK
  <2>2. QED
    BY <1>1, <1>4, <2>1 DEF All, Gone, Messages
<1>5. CASE Crash
  BY <1>1, <1>5 DEF Crash, Committed, All, Gone, Messages
<1>6. ASSUME NEW w \in Worker, pc[w] = "commit", Store(w), UNCHANGED stream
      PROVE  Chat!Next
  BY <1>6, StoreMaps DEF Chat!Next
<1>7. ASSUME NEW w \in Worker, MarkDeleted(w), UNCHANGED stream
      PROVE  Chat!Next
  BY <1>7, DeleteMaps DEF Chat!Next, All
<1>8. ASSUME NEW w \in Worker, Push(w)
      PROVE  [Chat!Next]_(Chat!vars)
  BY <1>8, PushMaps DEF Chat!Next, All
<1>9. ASSUME NEW w \in Worker, Reply(w)
      PROVE  [Chat!Next]_(Chat!vars)
  BY <1>9, ReplyMaps DEF Chat!Next, All
<1>10. ASSUME NEW w \in Worker, SoftDelete(w) \/ FindDuplicate(w)
       PROVE  [Chat!Next]_(Chat!vars)
  BY <1>2, <1>7, <1>10 DEF SoftDelete, FindDuplicate
<1>11. ASSUME NEW w \in Worker, Commit(w) \/ AnswerLost(w)
       PROVE  [Chat!Next]_(Chat!vars)
  BY <1>4, <1>6, <1>7, <1>11 DEF Commit, AnswerLost
<1>12. CASE UNCHANGED table
  <2>1. CASE UNCHANGED stream
    BY <1>2, <1>12, <2>1
  <2>2. QED
    BY <1>5, <1>8, <1>9, <2>1, LinkWriters DEF Connect, Disconnect
<1>13. QED
  BY <1>3, <1>5, <1>10, <1>11, <1>12, TableWriters

\* ChatService implements ChatLog.  Whoever the steps of senders and removers
\* interleave with, and whatever fails or restarts, what the connections are
\* sent is what one log would have sent them: a message while it is the newest
\* of its conversation and not deleted, a deletion once made, an
\* acknowledgement once stored.
THEOREM ChatIsLog == Spec => ChatSpec
<1>1. Init => Chat!Init
  BY DEF Init, Chat!Init, Messages
<1>2. /\ TypeOK /\ IndexInv /\ DeliveryInv /\ AnswersInv /\ RemovalInv /\ LatestOK
      /\ [Next]_vars
      => [Chat!Next]_(Chat!vars)
  BY StepMaps DEF DeliveryInv, AnswersInv, RemovalInv
<1>3. QED
  BY <1>1, <1>2, IndexCorrect, DeliveryCorrect, AnswersCorrect, RemovalCorrect, LatestCorrect,
     PTL DEF Spec, ChatSpec, Chat!Spec
=============================================================================
