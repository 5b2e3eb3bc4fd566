------------------------- MODULE TokenBucket_proofs -------------------------
(***************************************************************************)
(* Two theorems about the rate limit, for every burst, price of a token,   *)
(* set of users and of connections:                                        *)
(*   - no more is accepted than the limit allows, however the clock moves  *)
(*     and in whichever order its readings reach the bucket;               *)
(*   - nothing is refused that the limit allows, provided that the clock   *)
(*     is not behind the stamps of what was accepted.                      *)
(* Both rest on what tokens stands for: for the tightest i, the burst and  *)
(* what the clock gained since message i, less a token for message i and   *)
(* for each one after it (Left).  The first theorem needs that tokens is   *)
(* never more than Left for any i, the second that it equals it for some.  *)
(***************************************************************************)
EXTENDS TokenBucket, SequenceTheorems, TLAPS

\* What the limit leaves of the burst, counted from the i-th accepted message.
Left(u, i) == Burst + at[u] - log[u][i] - Cost * (Len(log[u]) - i + 1)

Indices(u) == 1 .. Len(log[u])

\* tokens never promises more than the limit leaves.
NeverMore ==
    \A u \in User :
        /\ u \notin known => log[u] = <<>>
        /\ tokens[u] =< Burst
        /\ \A i \in Indices(u) : tokens[u] =< Left(u, i)

\* tokens never withholds what the limit leaves.
NeverLess ==
    \A u \in known : \E i \in Indices(u) : tokens[u] = Left(u, i)

RateInv == NeverMore /\ RateLimit

\* Appending keeps every accepted stamp at its place and adds the new one.
LEMMA AppendEffect ==
    ASSUME NEW s \in Seq(Int), NEW n \in Int
    PROVE  /\ Append(s, n) \in Seq(Int)
           /\ Len(Append(s, n)) = Len(s) + 1
           /\ \A i \in 1 .. Len(s) : Append(s, n)[i] = s[i]
           /\ Append(s, n)[Len(s) + 1] = n
           /\ Len(s) \in Nat
BY AppendProperties, LenProperties

\* The refill yields an integer, at most the burst; an old bucket gains at
\* most what the clock moved.
LEMMA LevelBounds ==
    ASSUME BucketAssumption, TypeOK, NEW u \in User, NEW now \in Int
    PROVE  /\ Level(u, now) \in Int /\ Level(u, now) =< Burst
           /\ u \in known => Level(u, now) =< tokens[u] + (now - at[u])
           /\ u \notin known => Level(u, now) = Burst
           /\ Level(u, now) = Burst \/ Level(u, now) = tokens[u] + (now - at[u])
<1> DEFINE refilled == tokens[u] + (now - at[u])
<1>1. tokens[u] \in Int /\ at[u] \in Int /\ Burst \in Int
  BY DEF TypeOK, BucketAssumption
<1>2. refilled \in Int
  BY <1>1
<1>3. Level(u, now) = IF u \in known /\ refilled < Burst THEN refilled ELSE Burst
  BY DEF Level
<1> HIDE DEF refilled
<1>4. /\ Level(u, now) \in Int /\ Level(u, now) =< Burst
      /\ u \in known => Level(u, now) =< refilled
      /\ u \notin known => Level(u, now) = Burst
      /\ Level(u, now) = Burst \/ Level(u, now) = refilled
  BY <1>1, <1>2, <1>3
<1> QED
  BY <1>4 DEF refilled

\* What a call of takeToken leaves in the owner's bucket, and that it leaves
\* every other bucket alone.
LEMMA CallEffect ==
    ASSUME BucketAssumption, TypeOK, NEW c \in Conn, Take(c) \/ Refuse(c)
    PROVE  /\ Owner[c] \in User /\ stamp[c] \in Int
           /\ known' = known \cup {Owner[c]}
           /\ at'[Owner[c]] = stamp[c]
           /\ stamp' = [stamp EXCEPT ![c] = None]
           /\ clock' = clock /\ backs' = backs
           /\ \A u \in User : u # Owner[c] =>
                 tokens'[u] = tokens[u] /\ at'[u] = at[u] /\ log'[u] = log[u]
           /\ \/ /\ Take(c)
                 /\ Level(Owner[c], stamp[c]) >= Cost
                 /\ tokens'[Owner[c]] = Level(Owner[c], stamp[c]) - Cost
                 /\ log'[Owner[c]] = Append(log[Owner[c]], stamp[c])
              \/ /\ Refuse(c)
                 /\ Level(Owner[c], stamp[c]) < Cost
                 /\ tokens'[Owner[c]] = Level(Owner[c], stamp[c])
                 /\ log' = log
<1> DEFINE o == Owner[c]
           level == Level(o, stamp[c])
<1>1. o \in User /\ stamp[c] \in Int
  <2>1. stamp[c] # None /\ stamp[c] \in Int \cup {None}
    BY DEF Take, Refuse, TypeOK
  <2>2. o \in User
    BY DEF BucketAssumption
  <2> QED
    BY <2>1, <2>2
<1>2. level \in Int /\ Cost \in Int
  BY <1>1, LevelBounds DEF BucketAssumption
<1>3. Fill(c, level)
  BY DEF Take, Refuse
<1>4. /\ known' = known \cup {o}
      /\ tokens' = [tokens EXCEPT ![o] = IF level < Cost THEN level ELSE level - Cost]
      /\ at' = [at EXCEPT ![o] = stamp[c]]
      /\ stamp' = [stamp EXCEPT ![c] = None]
  BY <1>3 DEF Fill
<1>5. tokens \in [User -> Int] /\ at \in [User -> Int] /\ log \in [User -> Seq(Int)]
  BY DEF TypeOK
<1>6. CASE Take(c)
  <2>1. /\ level >= Cost /\ clock' = clock /\ backs' = backs
        /\ log' = [log EXCEPT ![o] = Append(log[o], stamp[c])]
    BY <1>6 DEF Take
  <2> HIDE DEF o, level
  <2>2. /\ tokens'[o] = level - Cost /\ at'[o] = stamp[c]
        /\ log'[o] = Append(log[o], stamp[c])
    BY <1>1, <1>2, <1>4, <1>5, <2>1
  <2>3. \A u \in User : u # o => tokens'[u] = tokens[u] /\ at'[u] = at[u] /\ log'[u] = log[u]
    BY <1>4, <1>5, <2>1
  <2> QED
    BY <1>1, <1>4, <1>6, <2>1, <2>2, <2>3 DEF o, level
<1>7. CASE Refuse(c)
  <2>1. level < Cost /\ clock' = clock /\ backs' = backs /\ log' = log
    BY <1>7 DEF Refuse
  <2> HIDE DEF o, level
  <2>2. tokens'[o] = level /\ at'[o] = stamp[c]
    BY <1>1, <1>2, <1>4, <1>5, <2>1
  <2>3. \A u \in User : u # o => tokens'[u] = tokens[u] /\ at'[u] = at[u] /\ log'[u] = log[u]
    BY <1>4, <1>5, <2>1
  <2> QED
    BY <1>1, <1>4, <1>7, <2>1, <2>2, <2>3 DEF o, level
<1> QED
  BY <1>6, <1>7

\* The steps that are not a call leave the buckets alone.
LEMMA OtherSteps ==
    ASSUME [Next]_vars
    PROVE  \/ \E c \in Conn : Take(c) \/ Refuse(c)
           \/ UNCHANGED <<known, tokens, at, log>>
BY DEF Next, vars, Tick, SetBack, ReadClock

-----------------------------------------------------------------------------
(* Types *)

\* The first state is well typed.
LEMMA TypeInitially ==
    ASSUME BucketAssumption, Init
    PROVE  TypeOK
<1>1. <<>> \in Seq(Int)
  BY EmptySeq
<1> QED
  BY <1>1 DEF Init, TypeOK, BucketAssumption

\* Every step keeps the types.
LEMMA TypeStep ==
    ASSUME BucketAssumption, TypeOK, [Next]_vars
    PROVE  TypeOK'
<1> USE DEF TypeOK
<1>1. CASE Tick
  BY <1>1 DEF Tick
<1>2. CASE SetBack
  BY <1>2 DEF SetBack
<1>3. CASE UNCHANGED vars
  BY <1>3 DEF vars
<1>4. ASSUME NEW c \in Conn, ReadClock(c) PROVE TypeOK'
  BY <1>4 DEF ReadClock
<1>5. ASSUME NEW c \in Conn, Take(c) \/ Refuse(c) PROVE TypeOK'
  <2> DEFINE level == Level(Owner[c], stamp[c])
  <2>1. Owner[c] \in User /\ stamp[c] \in Int
    BY <1>5, CallEffect
  <2>2. level \in Int /\ Cost \in Int
    BY <2>1, LevelBounds DEF BucketAssumption
  <2>3. Fill(c, level)
    BY <1>5 DEF Take, Refuse
  <2> HIDE DEF level
  <2>4. /\ known' \subseteq User /\ tokens' \in [User -> Int] /\ at' \in [User -> Int]
        /\ stamp' \in [Conn -> Int \cup {None}]
    BY <2>1, <2>2, <2>3 DEF Fill
  <2>5. clock' = clock /\ backs' = backs
    BY <1>5 DEF Take, Refuse
  <2>6. log' \in [User -> Seq(Int)]
    <3>1. CASE Take(c)
      <4>1. Append(log[Owner[c]], stamp[c]) \in Seq(Int)
        BY <2>1, AppendEffect
      <4>2. log' = [log EXCEPT ![Owner[c]] = Append(log[Owner[c]], stamp[c])]
        BY <3>1 DEF Take
      <4> QED
        BY <4>1, <4>2
    <3>2. CASE Refuse(c)
      BY <3>2 DEF Refuse
    <3> QED
      BY <1>5, <3>1, <3>2
  <2> QED
    BY <2>4, <2>5, <2>6
<1> QED
  BY <1>1, <1>2, <1>3, <1>4, <1>5 DEF Next

\* Types hold in every behaviour.
LEMMA TypeCorrect == Spec => []TypeOK
<1>1. Init => TypeOK
  BY TypeInitially, BucketAssumption
<1>2. TypeOK /\ [Next]_vars => TypeOK'
  BY TypeStep, BucketAssumption
<1> QED
  BY <1>1, <1>2, PTL DEF Spec

-----------------------------------------------------------------------------
(* Never too much *)

\* One token more or less changes Left by the price of a token.
LEMMA OneMore ==
    ASSUME NEW k \in Int, NEW n \in Int
    PROVE  k * (n + 1) = k * n + k /\ k * n = n * k /\ k * n \in Int
OBVIOUS

\* A refill moves a bound on the tokens by as much as the clock moved.
LEMMA RefillBound ==
    ASSUME NEW tok \in Int, NEW before \in Int, NEW now \in Int, NEW cap \in Int,
           NEW stored \in Int, NEW due \in Int, NEW level \in Int,
           tok =< cap + before - stored - due,
           level =< tok + (now - before)
    PROVE  level =< cap + now - stored - due
OBVIOUS

\* Every step keeps tokens below what the limit leaves, and the limit.
LEMMA RateStep ==
    ASSUME BucketAssumption, TypeOK, RateInv, [Next]_vars
    PROVE  RateInv'
<1>1. CASE UNCHANGED <<known, tokens, at, log>>
  BY <1>1 DEF RateInv, NeverMore, RateLimit, Left, Indices
<1>2. ASSUME NEW c \in Conn, Take(c) \/ Refuse(c) PROVE RateInv'
  <2> DEFINE o == Owner[c]
             now == stamp[c]
             level == Level(o, now)
             n == Len(log[o])
  <2>1. o \in User /\ now \in Int /\ Cost \in Int /\ Burst \in Int /\ Cost =< Burst /\ Cost > 0
    BY <1>2, CallEffect DEF BucketAssumption
  <2>2. tokens[o] \in Int /\ at[o] \in Int /\ log[o] \in Seq(Int) /\ n \in Nat
    BY <2>1, LenProperties DEF TypeOK
  <2>3. /\ level \in Int /\ level =< Burst
        /\ o \in known => level =< tokens[o] + (now - at[o])
    BY <2>1, LevelBounds
  <2>4. \A i \in 1 .. n : log[o][i] \in Int /\ Cost * (n - i + 1) \in Int
    BY <2>1, <2>2, ElementOfSeq
  <2>5. \A i \in 1 .. n : level =< Burst + now - log[o][i] - Cost * (n - i + 1)
    <3> SUFFICES ASSUME NEW i \in 1 .. n
                 PROVE  level =< Burst + now - log[o][i] - Cost * (n - i + 1)
      OBVIOUS
    <3>1. o \in known
      BY <2>1, <2>2 DEF RateInv, NeverMore
    <3>2. tokens[o] =< Burst + at[o] - log[o][i] - Cost * (n - i + 1)
      BY <2>1 DEF RateInv, NeverMore, Left, Indices
    <3>3. level =< tokens[o] + (now - at[o])
      BY <2>3, <3>1
    <3> DEFINE due == Cost * (n - i + 1)
    <3>4. due \in Int /\ log[o][i] \in Int
      BY <2>4
    <3>5. tokens[o] =< Burst + at[o] - log[o][i] - due
      BY <3>2
    <3> HIDE DEF due, level, n, o, now
    <3>6. level =< Burst + now - log[o][i] - due
      BY <2>1, <2>2, <2>3, <3>3, <3>4, <3>5, RefillBound
    <3> QED
      BY <3>6 DEF due
  <2>6. \A u \in User : u # o =>
            tokens'[u] = tokens[u] /\ at'[u] = at[u] /\ log'[u] = log[u]
    BY <1>2, CallEffect
  <2>7. known' = known \cup {o} /\ at'[o] = now
    BY <1>2, CallEffect
  <2>8. CASE Take(c)
    <3>1. level >= Cost /\ tokens'[o] = level - Cost /\ log'[o] = Append(log[o], now)
      <4>1. level >= Cost /\ ~ level < Cost
        BY <2>1, <2>3, <2>8 DEF Take
      <4> HIDE DEF level
      <4>2. \/ tokens'[o] = level - Cost /\ log'[o] = Append(log[o], now)
            \/ level < Cost
        BY <2>8, CallEffect DEF level
      <4> QED
        BY <4>1, <4>2
    <3>2. /\ Len(log'[o]) = n + 1
          /\ \A i \in 1 .. n : log'[o][i] = log[o][i]
          /\ log'[o][n + 1] = now
      BY <2>1, <2>2, <3>1, AppendEffect
    <3>3. tokens'[o] =< Burst
      BY <2>1, <2>3, <3>1
    <3>4. \A i \in 1 .. n + 1 : tokens'[o] =< Burst + now - log'[o][i] - Cost * (n + 1 - i + 1)
      <4>1. ASSUME NEW i \in 1 .. n
            PROVE  tokens'[o] =< Burst + now - log'[o][i] - Cost * (n + 1 - i + 1)
        <5> DEFINE m == n - i + 1
        <5>1. m \in Int /\ n + 1 - i + 1 = m + 1
          BY <2>2
        <5>2. Cost * (m + 1) = Cost * m + Cost /\ Cost * m \in Int
          BY <2>1, <5>1, OneMore
        <5>3. level =< Burst + now - log[o][i] - Cost * m /\ log[o][i] \in Int
          BY <2>4, <2>5
        <5>4. log'[o][i] = log[o][i] /\ tokens'[o] = level - Cost
          BY <3>1, <3>2
        <5> HIDE DEF m, level
        <5>5. tokens'[o] =< Burst + now - log'[o][i] - (Cost * m + Cost)
          BY <2>1, <2>3, <5>2, <5>3, <5>4
        <5> QED
          BY <5>1, <5>2, <5>5
      <4>2. tokens'[o] =< Burst + now - log'[o][n + 1] - Cost * (n + 1 - (n + 1) + 1)
        <5>1. n + 1 - (n + 1) + 1 = 1 /\ Cost * 1 = Cost /\ log'[o][n + 1] = now
          BY <2>1, <2>2, <3>2
        <5>2. tokens'[o] =< Burst + now - now - Cost
          BY <2>1, <2>3, <3>1
        <5> QED
          BY <5>1, <5>2
      <4>3. \A i \in 1 .. n + 1 : i \in 1 .. n \/ i = n + 1
        BY <2>2
      <4> QED
        BY <4>1, <4>2, <4>3
    <3>5. \A i \in 1 .. n + 1 : (n + 1 - i + 1) * Cost =< Burst + now - log'[o][i]
      <4> SUFFICES ASSUME NEW i \in 1 .. n + 1
                   PROVE  (n + 1 - i + 1) * Cost =< Burst + now - log'[o][i]
        OBVIOUS
      <4> DEFINE due == Cost * (n + 1 - i + 1)
      <4>1. due \in Int /\ due = (n + 1 - i + 1) * Cost
        BY <2>1, <2>2
      <4>2. log'[o][i] \in Int
        <5>1. i \in 1 .. n \/ i = n + 1
          BY <2>2
        <5> QED
          BY <2>1, <2>4, <3>2, <5>1
      <4>3. tokens'[o] =< Burst + now - log'[o][i] - due
        BY <3>4
      <4>4. tokens'[o] >= 0 /\ tokens'[o] \in Int
        BY <2>1, <2>3, <3>1
      <4> HIDE DEF due, n, level
      <4>5. due =< Burst + now - log'[o][i]
        BY <2>1, <4>1, <4>2, <4>3, <4>4
      <4> QED
        BY <4>1, <4>5
    <3> HIDE DEF o, now, n, level
    <3>6. NeverMore'
      <4> SUFFICES ASSUME NEW u \in User
                   PROVE  (/\ u \notin known => log[u] = <<>>
                           /\ tokens[u] =< Burst
                           /\ \A i \in Indices(u) : tokens[u] =< Left(u, i))'
        BY DEF NeverMore
      <4>1. CASE u = o
        <5>1. u \in known'
          BY <2>7, <4>1
        <5>2. ASSUME NEW i \in 1 .. n + 1 PROVE tokens'[u] =< Left(u, i)'
          <6>1. at'[u] = now /\ Len(log'[u]) = n + 1
            BY <2>7, <3>2, <4>1
          <6>2. tokens'[u] =< Burst + now - log'[u][i] - Cost * (n + 1 - i + 1)
            BY <3>4, <4>1
          <6>3. Left(u, i)' = Burst + now - log'[u][i] - Cost * (n + 1 - i + 1)
            BY <2>1, <2>2, <6>1 DEF Left
          <6> QED
            BY <6>2, <6>3
        <5>3. Len(log'[u]) = n + 1
          BY <3>2, <4>1
        <5> QED
          BY <3>3, <4>1, <5>1, <5>2, <5>3 DEF Indices
      <4>2. CASE u # o
        BY <2>6, <2>7, <4>2 DEF RateInv, NeverMore, Left, Indices
      <4> QED
        BY <4>1, <4>2
    <3>7. RateLimit'
      <4> SUFFICES ASSUME NEW u \in User, NEW j \in 1 .. Len(log'[u]), NEW i \in 1 .. j
                   PROVE  (j - i + 1) * Cost =< Burst + log'[u][j] - log'[u][i]
        BY DEF RateLimit
      <4>1. CASE u # o
        <5>1. log'[u] = log[u] /\ j \in 1 .. Len(log[u])
          BY <2>6, <4>1
        <5>2. (j - i + 1) * Cost =< Burst + log[u][j] - log[u][i]
          BY <5>1 DEF RateInv, RateLimit
        <5> QED
          BY <5>1, <5>2
      <4>2. CASE u = o /\ j = n + 1
        <5>1. i \in 1 .. n + 1 /\ log'[u][j] = now
          BY <2>2, <3>2, <4>2
        <5>2. (n + 1 - i + 1) * Cost =< Burst + now - log'[u][i]
          BY <3>5, <4>2, <5>1
        <5>3. (j - i + 1) * Cost =< Burst + now - log'[u][i]
          BY <2>1, <2>2, <4>2, <5>2
        <5> QED
          BY <5>1, <5>3
      <4>3. CASE u = o /\ j \in 1 .. n
        <5>1. i \in 1 .. n
          BY <2>2, <4>3
        <5>2. (j - i + 1) * Cost =< Burst + log[o][j] - log[o][i]
          BY <2>1, <4>3 DEF RateInv, RateLimit, n
        <5> QED
          BY <3>2, <4>3, <5>1, <5>2
      <4>4. u = o => j \in 1 .. n \/ j = n + 1
        BY <2>2, <3>2
      <4> QED
        BY <4>1, <4>2, <4>3, <4>4
    <3> QED
      BY <3>6, <3>7 DEF RateInv
  <2>9. CASE Refuse(c)
    <3>1. tokens'[o] = level /\ log' = log
      <4>1. level < Cost /\ ~ level >= Cost /\ log' = log
        BY <2>1, <2>3, <2>9 DEF Refuse
      <4> HIDE DEF level
      <4>2. tokens'[o] = level \/ level >= Cost
        BY <2>9, CallEffect DEF level
      <4> QED
        BY <4>1, <4>2
    <3> HIDE DEF o, now, level
    <3>2. NeverMore'
      <4> SUFFICES ASSUME NEW u \in User
                   PROVE  (/\ u \notin known => log[u] = <<>>
                           /\ tokens[u] =< Burst
                           /\ \A i \in Indices(u) : tokens[u] =< Left(u, i))'
        BY DEF NeverMore
      <4>1. CASE u = o
        BY <2>3, <2>5, <2>7, <3>1, <4>1 DEF Left, Indices
      <4>2. CASE u # o
        BY <2>6, <2>7, <4>2 DEF RateInv, NeverMore, Left, Indices
      <4> QED
        BY <4>1, <4>2
    <3>3. RateLimit'
      BY <3>1 DEF RateInv, RateLimit
    <3> QED
      BY <3>2, <3>3 DEF RateInv
  <2> QED
    BY <1>2, <2>8, <2>9
<1> QED
  BY <1>1, <1>2, OtherSteps

\* takeToken never accepts more than the burst and the sustained rate allow,
\* whatever the clock does and whoever overtakes whom between the reading of
\* the clock and rate_mutex_.
THEOREM RateLimited == Spec => []RateLimit
<1>1. Init => RateInv
  <2> SUFFICES ASSUME Init PROVE RateInv
    OBVIOUS
  <2>1. \A u \in User : log[u] = <<>> /\ tokens[u] = 0 /\ Len(log[u]) = 0
    BY EmptySeq DEF Init
  <2>2. 0 =< Burst
    BY BucketAssumption DEF BucketAssumption
  <2>3. NeverMore
    <3>1. \A u \in User : \A i \in Indices(u) : FALSE
      BY <2>1 DEF Indices
    <3> QED
      BY <2>1, <2>2, <3>1 DEF NeverMore
  <2>4. RateLimit
    BY <2>1 DEF RateLimit
  <2> QED
    BY <2>3, <2>4 DEF RateInv
<1>2. TypeOK /\ RateInv /\ [Next]_vars => RateInv'
  BY RateStep, BucketAssumption
<1>3. RateInv => RateLimit
  BY DEF RateInv
<1> QED
  BY <1>1, <1>2, <1>3, TypeCorrect, PTL DEF Spec

-----------------------------------------------------------------------------
(* Never too little *)

\* A call keeps tokens equal to what the limit leaves, counted from some
\* message: from the new one, when the bucket was full, or from the same.
LEMMA NeverLessStep ==
    ASSUME BucketAssumption, TypeOK, NeverLess, [Next]_vars
    PROVE  NeverLess'
<1>1. CASE UNCHANGED <<known, tokens, at, log>>
  BY <1>1 DEF NeverLess, Left, Indices
<1>2. ASSUME NEW c \in Conn, Take(c) \/ Refuse(c) PROVE NeverLess'
  <2> DEFINE o == Owner[c]
             now == stamp[c]
             level == Level(o, now)
             n == Len(log[o])
  <2>1. o \in User /\ now \in Int /\ Cost \in Int /\ Burst \in Int /\ Cost =< Burst
    BY <1>2, CallEffect DEF BucketAssumption
  <2>2. tokens[o] \in Int /\ at[o] \in Int /\ log[o] \in Seq(Int) /\ n \in Nat
    BY <2>1, LenProperties DEF TypeOK
  <2>3. /\ level \in Int
        /\ o \notin known => level = Burst
        /\ level = Burst \/ level = tokens[o] + (now - at[o])
    BY <2>1, LevelBounds
  <2>4. \A u \in User : u # o =>
            tokens'[u] = tokens[u] /\ at'[u] = at[u] /\ log'[u] = log[u]
    BY <1>2, CallEffect
  <2>5. known' = known \cup {o} /\ at'[o] = now
    BY <1>2, CallEffect
  <2>6. level = Burst \/ \E i \in 1 .. n : level = Burst + now - log[o][i] - Cost * (n - i + 1)
    <3> SUFFICES ASSUME level # Burst
                 PROVE  \E i \in 1 .. n : level = Burst + now - log[o][i] - Cost * (n - i + 1)
      OBVIOUS
    <3>1. o \in known
      BY <2>3
    <3>2. PICK i \in 1 .. n : tokens[o] = Burst + at[o] - log[o][i] - Cost * (n - i + 1)
      BY <3>1 DEF NeverLess, Left, Indices
    <3> DEFINE due == Cost * (n - i + 1)
    <3>3. log[o][i] \in Int /\ due \in Int
      BY <2>1, <2>2, ElementOfSeq
    <3>4. tokens[o] = Burst + at[o] - log[o][i] - due
      BY <3>2
    <3>5. level = tokens[o] + (now - at[o])
      BY <2>3
    <3> HIDE DEF due, level, n, o, now
    <3> DEFINE tok == tokens[o]
               before == at[o]
               kept == log[o][i]
    <3>6. /\ tok \in Int /\ before \in Int /\ kept \in Int
          /\ tok = Burst + before - kept - due
          /\ level = tok + (now - before)
      BY <2>2, <3>3, <3>4, <3>5
    <3> HIDE DEF tok, before, kept
    <3>7. level = Burst + now - kept - due
      BY <2>1, <3>3, <3>6
    <3>8. level = Burst + now - log[o][i] - due
      BY <3>7 DEF kept
    <3> QED
      BY <3>8 DEF due
  <2>7. ASSUME NEW u \in known', u # o
        PROVE  \E i \in Indices(u)' : tokens'[u] = Left(u, i)'
    <3>1. u \in known /\ u \in User
      BY <2>5, <2>7 DEF TypeOK
    <3>2. tokens'[u] = tokens[u] /\ at'[u] = at[u] /\ log'[u] = log[u]
      BY <2>4, <2>7, <3>1
    <3> QED
      BY <3>1, <3>2 DEF NeverLess, Left, Indices
  <2>8. CASE Take(c)
    <3>1. tokens'[o] = level - Cost /\ log'[o] = Append(log[o], now)
      <4>1. level >= Cost /\ ~ level < Cost
        BY <2>1, <2>3, <2>8 DEF Take
      <4> HIDE DEF level
      <4>2. \/ tokens'[o] = level - Cost /\ log'[o] = Append(log[o], now)
            \/ level < Cost
        BY <2>8, CallEffect DEF level
      <4> QED
        BY <4>1, <4>2
    <3>2. /\ Len(log'[o]) = n + 1
          /\ \A i \in 1 .. n : log'[o][i] = log[o][i]
          /\ log'[o][n + 1] = now
      BY <2>1, <2>2, <3>1, AppendEffect
    <3>3. \E i \in 1 .. n + 1 : tokens'[o] = Burst + now - log'[o][i] - Cost * (n + 1 - i + 1)
      <4>1. CASE level = Burst
        <5>1. n + 1 - (n + 1) + 1 = 1 /\ Cost * 1 = Cost /\ n + 1 \in 1 .. n + 1
          BY <2>1, <2>2
        <5>2. tokens'[o] = Burst + now - log'[o][n + 1] - Cost * (n + 1 - (n + 1) + 1)
          BY <2>1, <2>2, <3>1, <3>2, <4>1, <5>1
        <5> QED
          BY <5>1, <5>2
      <4>2. CASE level # Burst
        <5>1. PICK i \in 1 .. n : level = Burst + now - log[o][i] - Cost * (n - i + 1)
          BY <2>6, <4>2
        <5> DEFINE m == n - i + 1
        <5>2. m \in Int /\ n + 1 - i + 1 = m + 1 /\ i \in 1 .. n + 1
          BY <2>2
        <5>3. Cost * (m + 1) = Cost * m + Cost /\ Cost * m \in Int
          BY <2>1, <5>2, OneMore
        <5>4. log[o][i] \in Int /\ log'[o][i] = log[o][i]
          BY <2>2, <3>2, ElementOfSeq
        <5>5. level = Burst + now - log[o][i] - Cost * m
          BY <5>1
        <5> HIDE DEF m, level
        <5>6. tokens'[o] = Burst + now - log'[o][i] - (Cost * m + Cost)
          BY SMTT(30), <2>1, <2>3, <3>1, <5>3, <5>4, <5>5
        <5> QED
          BY <5>2, <5>3, <5>6
      <4> QED
        BY <4>1, <4>2
    <3> HIDE DEF o, now, n, level
    <3>4. ASSUME NEW u \in known', u = o
          PROVE  \E i \in Indices(u)' : tokens'[u] = Left(u, i)'
      <4>1. PICK i \in 1 .. n + 1 : tokens'[u] = Burst + now - log'[u][i] - Cost * (n + 1 - i + 1)
        BY <3>3, <3>4
      <4>2. at'[u] = now /\ Len(log'[u]) = n + 1
        BY <2>5, <3>2, <3>4
      <4>3. Left(u, i)' = Burst + now - log'[u][i] - Cost * (n + 1 - i + 1)
        BY <2>1, <2>2, <4>2 DEF Left
      <4>4. i \in Indices(u)'
        BY <4>2 DEF Indices
      <4> QED
        BY <4>1, <4>3, <4>4
    <3> QED
      BY <2>7, <3>4 DEF NeverLess
  <2>9. CASE Refuse(c)
    <3>1. tokens'[o] = level /\ log' = log /\ level # Burst
      <4>1. level < Cost /\ ~ level >= Cost /\ log' = log
        BY <2>1, <2>3, <2>9 DEF Refuse
      <4> HIDE DEF level
      <4>2. tokens'[o] = level \/ level >= Cost
        BY <2>9, CallEffect DEF level
      <4> QED
        BY <2>1, <2>3, <4>1, <4>2
    <3> HIDE DEF o, now, level
    <3>2. ASSUME NEW u \in known', u = o
          PROVE  \E i \in Indices(u)' : tokens'[u] = Left(u, i)'
      BY <2>5, <2>6, <3>1, <3>2 DEF Left, Indices
    <3> QED
      BY <2>7, <3>2 DEF NeverLess
  <2> QED
    BY <1>2, <2>8, <2>9
<1> QED
  BY <1>1, <1>2, OtherSteps

\* A refusal whose reading is in order is one the limit asks for.
LEMMA RefusalStep ==
    ASSUME BucketAssumption, TypeOK, NeverLess, [Next]_vars,
           NEW c \in Conn, Refused(c), InOrder(c)
    PROVE  TooMany(Owner[c], stamp[c])
<1> DEFINE o == Owner[c]
           now == stamp[c]
           level == Level(o, now)
           n == Len(log[o])
<1>1. Refuse(c)
  <2>1. \A d \in Conn : ~ Take(d)
    <3> SUFFICES ASSUME NEW d \in Conn, Take(d) PROVE FALSE
      OBVIOUS
    <3>1. log' = [log EXCEPT ![Owner[d]] = Append(log[Owner[d]], stamp[d])]
      BY DEF Take
    <3>2. Owner[d] \in User /\ stamp[d] \in Int
      BY CallEffect
    <3>3. log[Owner[d]] \in Seq(Int) /\ log \in [User -> Seq(Int)]
      BY <3>2 DEF TypeOK
    <3>4. log'[Owner[d]] = Append(log[Owner[d]], stamp[d])
      BY <3>1, <3>2, <3>3
    <3>5. Len(log'[Owner[d]]) = Len(log[Owner[d]]) + 1 /\ Len(log[Owner[d]]) \in Nat
      BY <3>2, <3>3, <3>4, AppendEffect
    <3> QED
      BY <3>5 DEF Refused
  <2>2. stamp[c] # None /\ stamp'[c] = None /\ log' = log
    BY DEF Refused
  <2>3. PICK d \in Conn : ReadClock(d) \/ Refuse(d)
    BY <2>1, <2>2 DEF Next, Tick, SetBack, vars
  <2>4. stamp' = [stamp EXCEPT ![d] = clock] \/ stamp' = [stamp EXCEPT ![d] = None]
    BY <2>3, CallEffect DEF ReadClock
  <2>5. d = c
    BY <2>2, <2>4 DEF TypeOK
  <2>6. ~ ReadClock(d)
    BY <2>2, <2>5 DEF ReadClock
  <2> QED
    BY <2>3, <2>5, <2>6
<1>2. o \in User /\ now \in Int /\ Cost \in Int /\ Burst \in Int /\ Cost =< Burst
  BY <1>1, CallEffect DEF BucketAssumption
<1>3. level < Cost /\ level \in Int
  BY <1>1, <1>2, LevelBounds DEF Refuse
<1>4. o \in known /\ level = tokens[o] + (now - at[o])
  BY <1>2, <1>3, LevelBounds
<1>5. PICK i \in 1 .. n : tokens[o] = Burst + at[o] - log[o][i] - Cost * (n - i + 1)
  BY <1>4 DEF NeverLess, Left, Indices
<1>6. tokens[o] \in Int /\ at[o] \in Int /\ log[o] \in Seq(Int) /\ n \in Nat
  BY <1>2, LenProperties DEF TypeOK
<1>7. log[o][i] \in Int /\ log[o][i] =< now
  BY <1>6, ElementOfSeq DEF InOrder
<1>8. (n - i + 2) * Cost > Burst + (now - log[o][i])
  <2> DEFINE m == n - i + 1
  <2>1. m \in Int /\ n - i + 2 = m + 1
    BY <1>6
  <2>2. Cost * (m + 1) = Cost * m + Cost /\ Cost * m \in Int /\ Cost * (m + 1) = (m + 1) * Cost
    BY <1>2, <2>1, OneMore
  <2>3. tokens[o] = Burst + at[o] - log[o][i] - Cost * m
    BY <1>5
  <2> HIDE DEF m, level, o, now, n
  <2> DEFINE tok == tokens[o]
             before == at[o]
             kept == log[o][i]
             due == Cost * m
  <2>4. /\ tok \in Int /\ before \in Int /\ kept \in Int /\ due \in Int
        /\ tok = Burst + before - kept - due
        /\ level = tok + (now - before)
    BY <1>4, <1>6, <1>7, <2>2, <2>3
  <2> HIDE DEF tok, before, kept, due
  <2>5. due + Cost > Burst + (now - kept)
    BY <1>2, <1>3, <2>4
  <2>6. Cost * m + Cost > Burst + (now - log[o][i])
    BY <2>5 DEF due, kept
  <2> QED
    BY <2>1, <2>2, <2>6
<1>9. (IF now > log[o][i] THEN now - log[o][i] ELSE 0) = now - log[o][i]
  BY <1>2, <1>7
<1> QED
  BY <1>8, <1>9 DEF TooMany

\* A message whose reading of the clock is not behind those of the accepted
\* ones is refused only when the burst and the sustained rate are used up.
THEOREM RefusedOnlyWhenTooMany == Spec => RefusalJustified
<1>1. Init => NeverLess
  BY DEF Init, NeverLess
<1>2. TypeOK /\ NeverLess /\ [Next]_vars => NeverLess'
  BY NeverLessStep, BucketAssumption
<1>3. TypeOK /\ NeverLess /\ [Next]_vars =>
        [\A c \in Conn : Refused(c) /\ InOrder(c) => TooMany(Owner[c], stamp[c])]_vars
  BY RefusalStep, BucketAssumption
<1> QED
  BY <1>1, <1>2, <1>3, TypeCorrect, PTL DEF Spec, RefusalJustified
=============================================================================
