----------------------------- MODULE TokenBucket -----------------------------
(***************************************************************************)
(* ChatService::takeToken: one bucket per user, filled as the clock goes   *)
(* on, a token for each message.  submit reads the system clock first and  *)
(* takes rate_mutex_ afterwards, so the reads of two connections of a user *)
(* can reach the bucket in the opposite order; and the system clock may be *)
(* set back.  Time is counted in the unit in which a bucket gains one, so  *)
(* a token is Cost of them (60'000 ms / CHAT_RATE_PER_MINUTE).             *)
(***************************************************************************)
EXTENDS Integers, Sequences

CONSTANTS
    User,
    Conn,       \* connections; each reads one frame at a time
    Owner,      \* [Conn -> User]
    Cost,       \* the time in which a bucket gains a token
    Burst,      \* CHAT_RATE_BURST, in the same unit
    None,
    MaxTime,    \* bound: the last moment of the clock
    MaxBacks    \* bound: times the clock is set back

ASSUME BucketAssumption ==
    /\ Owner \in [Conn -> User]
    /\ Cost \in Nat \ {0} /\ Burst \in Nat /\ Cost =< Burst
    /\ MaxTime \in Nat /\ MaxBacks \in Nat
    /\ None \notin Int

VARIABLES
    clock,      \* nowEpochMs
    backs,      \* how often the clock was set back
    stamp,      \* the `now` each connection has read and not used yet
    known,      \* the users with a bucket
    tokens,     \* Bucket::tokens
    at,         \* Bucket::refilled_at_epoch_ms
    log         \* history: the stamps of each user's accepted messages

vars == <<clock, backs, stamp, known, tokens, at, log>>

Init ==
    /\ clock = 0 /\ backs = 0
    /\ stamp = [c \in Conn |-> None]
    /\ known = {}
    /\ tokens = [u \in User |-> 0]
    /\ at = [u \in User |-> 0]
    /\ log = [u \in User |-> <<>>]

-----------------------------------------------------------------------------

Tick ==
    /\ clock < MaxTime
    /\ clock' = clock + 1
    /\ UNCHANGED <<backs, stamp, known, tokens, at, log>>

SetBack ==
    /\ backs < MaxBacks
    /\ backs' = backs + 1
    /\ clock' \in 0 .. clock - 1
    /\ UNCHANGED <<stamp, known, tokens, at, log>>

ReadClock(c) ==
    /\ stamp[c] = None
    /\ stamp' = [stamp EXCEPT ![c] = clock]
    /\ UNCHANGED <<clock, backs, known, tokens, at, log>>

\* mutant: the refill forgets the ceiling.
LevelUncapped(u, now) == IF u \in known THEN tokens[u] + (now - at[u]) ELSE Burst

\* The bucket after its refill: a new one is full; an old one gains what the
\* clock moved since the last call, and loses it when the clock moved back.
Level(u, now) ==
    LET refilled == tokens[u] + (now - at[u])
    IN  IF u \in known /\ refilled < Burst THEN refilled ELSE Burst

\* mutant: a refill that is not enough for a token is forgotten.
FillUnlessRefused(c, level) ==
    LET u == Owner[c]
    IN  /\ known' = known \cup {u}
        /\ tokens' = [tokens EXCEPT ![u] = IF level < Cost THEN @ ELSE level - Cost]
        /\ at' = [at EXCEPT ![u] = stamp[c]]
        /\ stamp' = [stamp EXCEPT ![c] = None]

\* What every call leaves in the bucket, whether or not there was a token.
Fill(c, level) ==
    LET u == Owner[c]
    IN  /\ known' = known \cup {u}
        /\ tokens' = [tokens EXCEPT ![u] = IF level < Cost THEN level ELSE level - Cost]
        /\ at' = [at EXCEPT ![u] = stamp[c]]
        /\ stamp' = [stamp EXCEPT ![c] = None]

Take(c) ==
    LET level == Level(Owner[c], stamp[c])
    IN  /\ stamp[c] # None /\ level >= Cost
        /\ Fill(c, level)
        /\ log' = [log EXCEPT ![Owner[c]] = Append(@, stamp[c])]
        /\ UNCHANGED <<clock, backs>>

\* submit answers RateLimited.
Refuse(c) ==
    LET level == Level(Owner[c], stamp[c])
    IN  /\ stamp[c] # None /\ level < Cost
        /\ Fill(c, level)
        /\ UNCHANGED <<clock, backs, log>>

Next == Tick \/ SetBack \/ \E c \in Conn : ReadClock(c) \/ Take(c) \/ Refuse(c)

Spec == Init /\ [][Next]_vars

-----------------------------------------------------------------------------
(* What must hold *)

\* Type correctness.
TypeOK ==
    /\ clock \in Int /\ backs \in Nat
    /\ stamp \in [Conn -> Int \cup {None}]
    /\ known \subseteq User
    /\ tokens \in [User -> Int]
    /\ at \in [User -> Int]
    /\ log \in [User -> Seq(Int)]

\* In any run of a user's accepted messages there are no more than the burst
\* and what the time between the first and the last has earned, however the
\* clock moves and in whichever order its readings are used.
RateLimit ==
    \A u \in User : \A j \in 1 .. Len(log[u]) : \A i \in 1 .. j :
        (j - i + 1) * Cost =< Burst + log[u][j] - log[u][i]

\* One more message stamped now would break the limit, counted from some
\* message already accepted; a clock that was set back has earned nothing.
TooMany(u, now) ==
    \E i \in 1 .. Len(log[u]) :
        (Len(log[u]) - i + 2) * Cost >
            Burst + (IF now > log[u][i] THEN now - log[u][i] ELSE 0)

\* The call of connection c that ends in this step is refused.
Refused(c) == stamp[c] # None /\ stamp'[c] = None /\ UNCHANGED log

\* The reading is not older than that of a message already accepted.
InOrder(c) == \A i \in 1 .. Len(log[Owner[c]]) : log[Owner[c]][i] =< stamp[c]

\* A message whose reading of the clock is not behind those of the accepted
\* ones is refused only when the burst and the sustained rate are used up,
\* whatever the clock and the other connections did before.
RefusalJustified == [][\A c \in Conn : Refused(c) /\ InOrder(c) => TooMany(Owner[c], stamp[c])]_vars
=============================================================================
