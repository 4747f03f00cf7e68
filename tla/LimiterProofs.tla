--------------------------- MODULE LimiterProofs ---------------------------
(***************************************************************************)
(* Theorems of RequestLimiter, for any keys, number of requests under way  *)
(* and limit.  The map needs nothing of Redis; the counters in Redis need  *)
(* a Ttl of two minutes, which is what the code asks for.                  *)
(***************************************************************************)
EXTENDS RequestLimiter, FiniteSetTheorems, TLAPS

Request == [phase: {"redis", "memory"}, key: Keys, stamped: Minutes]

-----------------------------------------------------------------------------
(* Types.                                                                  *)

LEMMA InPhaseIsRequest ==
  ASSUME TypeOK, NEW w \in Workers, NEW phase, InPhase(w, phase)
  PROVE  req[w] \in Request /\ req[w].phase = phase
BY DEF TypeOK, InPhase, Request

LEMMA IncrementedType ==
  ASSUME TypeOK, NEW w \in Workers, req[w] \in Request, NEW n \in Nat
  PROVE  /\ Slot(w) \in Keys \X Minutes
         /\ Incremented(w, n) \in [Keys \X Minutes -> [count: Nat, touched: Minutes]]
         /\ Incremented(w, n)[Slot(w)].count = counter[Slot(w)].count + n
         /\ n > 0 => Incremented(w, n)[Slot(w)].touched = minute
BY DEF TypeOK, Slot, Incremented, Request

LEMMA CleanLocalType ==
  ASSUME TypeOK
  PROVE  /\ CleanLocal \in [Keys -> Bucket \union {Untracked}]
         /\ \A k \in Keys : CleanLocal[k] \in {local[k], Untracked}
BY DEF TypeOK, CleanLocal

LEMMA LocalCountType ==
  ASSUME TypeOK, NEW k \in Keys
  PROVE  LocalCount(k) \in Nat
BY CleanLocalType DEF LocalCount, Bucket

LEMMA DecideType ==
  ASSUME TypeOK, NEW w \in Workers, req[w] \in Request,
         NEW backend \in {"redis", "memory"}, NEW window \in Minutes, NEW count,
         Decide(w, backend, window, count)
  PROVE  /\ req' \in [Workers -> Request \union {Idle}]
         /\ admitted' \in [{"redis", "memory"} \X Keys \X Minutes -> Nat]
BY DEF Decide, TypeOK, Request

LEMMA NextKeepsTypes ==
  ASSUME TypeOK, [Next]_vars
  PROVE  TypeOK'
<1> USE LimitAssumption
<1>1. ASSUME NEW w \in Workers, NEW k \in Keys, Stamp(w, k) PROVE TypeOK'
  BY <1>1 DEF Stamp, TypeOK, Tracked
<1>2. ASSUME NEW w \in Workers, CountInRedis(w) PROVE TypeOK'
  <2>1. req[w] \in Request
    BY <1>2, InPhaseIsRequest DEF CountInRedis
  <2>2. PICK n \in 1 .. Retries + 1 :
          /\ counter' = Incremented(w, n)
          /\ Decide(w, "redis", req[w].stamped, counter'[Slot(w)].count)
    BY <1>2 DEF CountInRedis
  <2> n \in Nat
    OBVIOUS
  <2>3. counter' \in [Keys \X Minutes -> [count: Nat, touched: Minutes]]
    BY <2>1, <2>2, IncrementedType
  <2>4. req[w].stamped \in Minutes
    BY <2>1 DEF Request
  <2>5. /\ req' \in [Workers -> Request \union {Idle}]
        /\ admitted' \in [{"redis", "memory"} \X Keys \X Minutes -> Nat]
    BY <2>1, <2>2, <2>4, DecideType
  <2> QED
    BY <1>2, <2>3, <2>5 DEF CountInRedis, TypeOK, Tracked, Request
<1>3. ASSUME NEW w \in Workers, RedisFails(w) PROVE TypeOK'
  <2>1. req[w] \in Request
    BY <1>3, InPhaseIsRequest DEF RedisFails
  <2>2. PICK n \in Nat : counter' = Incremented(w, n)
    BY <1>3 DEF RedisFails
  <2>3. counter' \in [Keys \X Minutes -> [count: Nat, touched: Minutes]]
    BY <2>1, <2>2, IncrementedType
  <2> QED
    BY <1>3, <2>1, <2>3 DEF RedisFails, TypeOK, Tracked, Request
<1>4. ASSUME NEW w \in Workers, CountInMemory(w) PROVE TypeOK'
  <2> DEFINE k == req[w].key
  <2>1. req[w] \in Request /\ k \in Keys
    BY <1>4, InPhaseIsRequest DEF CountInMemory, Request
  <2>2. LocalCount(k) + 1 \in Nat \ {0} /\ minute \in Minutes
    BY <2>1, LocalCountType DEF TypeOK
  <2>3. local' = [CleanLocal EXCEPT ![k] = [window |-> minute, count |-> LocalCount(k) + 1]]
    BY <1>4 DEF CountInMemory
  <2>4. local' \in [Keys -> Bucket \union {Untracked}]
    BY <2>1, <2>2, <2>3, CleanLocalType DEF Bucket
  <2>5. \A j \in Tracked' : local'[j].window <= minute'
    BY <1>4, <2>1, <2>2, <2>3, CleanLocalType DEF CountInMemory, TypeOK, Tracked, Minutes
  <2>6. /\ req' \in [Workers -> Request \union {Idle}]
        /\ admitted' \in [{"redis", "memory"} \X Keys \X Minutes -> Nat]
    BY <1>4, <2>1, <2>2, DecideType DEF CountInMemory
  <2> QED
    BY <1>4, <2>4, <2>5, <2>6 DEF CountInMemory, TypeOK, Request
<1>5. ASSUME NEW s \in DOMAIN counter, ExpireCounter(s) PROVE TypeOK'
  BY <1>5 DEF ExpireCounter, TypeOK, Tracked, Minutes
<1>6. CASE NextMinute
  BY <1>6 DEF NextMinute, TypeOK, Tracked, Minutes, Bucket
<1>7. CASE UNCHANGED vars
  BY <1>7 DEF vars, TypeOK, Tracked
<1> QED
  BY <1>1, <1>2, <1>3, <1>4, <1>5, <1>6, <1>7 DEF Next

\* Counters, buckets and requests keep their types, and no bucket is ahead
\* of the clock.
THEOREM TypeCorrect == Spec => []TypeOK
<1>1. Init => TypeOK
  BY LimitAssumption DEF Init, TypeOK, Tracked, Minutes
<1>2. TypeOK /\ [Next]_vars => TypeOK'
  BY NextKeepsTypes
<1> QED
  BY <1>1, <1>2, PTL DEF Spec

-----------------------------------------------------------------------------
(* The counters in Redis.                                                  *)

\* A request is under way for at most one turn of the minute.
StampsAreRecent ==
  \A w \in Workers : req[w] # Idle =>
    req[w].stamped <= minute /\ minute <= req[w].stamped + 1

\* A counter is used in the minute that it counts and in the one after, so
\* it outlives every request that may still be counted in it; until then it
\* has counted all that were let through.
CountersLastLongEnough ==
  \A k \in Keys, m \in Minutes :
    /\ counter[<<k, m>>].count > 0 => counter[<<k, m>>].touched >= m
    /\ \/ admitted[<<"redis", k, m>>] <= counter[<<k, m>>].count
       \/ minute >= m + 2

RedisWithinLimit == \A k \in Keys, m \in Minutes : admitted[<<"redis", k, m>>] <= Limit

RedisSound == TypeOK /\ StampsAreRecent /\ CountersLastLongEnough /\ RedisWithinLimit

\* What a request in Redis adds, in terms of the invariant.
LEMMA CountedOnce ==
  ASSUME RedisSound, NEW w \in Workers, InPhase(w, "redis"), NEW n \in Nat,
         counter' = Incremented(w, n), minute' = minute
  PROVE  /\ req[w] \in Request /\ counter' \in [Keys \X Minutes -> [count: Nat, touched: Minutes]]
         /\ \A s \in Keys \X Minutes : s # Slot(w) => counter'[s] = counter[s]
         /\ counter'[Slot(w)].count = counter[Slot(w)].count + n
         /\ admitted[<<"redis", req[w].key, req[w].stamped>>] <= counter[Slot(w)].count
         /\ \A k \in Keys, m \in Minutes :
              counter'[<<k, m>>].count > 0 => counter'[<<k, m>>].touched >= m
<1>1. req[w] \in Request
  BY InPhaseIsRequest DEF RedisSound
<1>2. Slot(w) \in Keys \X Minutes /\ Slot(w) = <<req[w].key, req[w].stamped>>
  BY <1>1 DEF Slot, Request
<1>3. counter' \in [Keys \X Minutes -> [count: Nat, touched: Minutes]]
      /\ counter'[Slot(w)].count = counter[Slot(w)].count + n
      /\ (n > 0 => counter'[Slot(w)].touched = minute)
  BY <1>1, IncrementedType DEF RedisSound
<1>4. \A s \in Keys \X Minutes : s # Slot(w) => counter'[s] = counter[s]
  BY <1>2 DEF Incremented, RedisSound, TypeOK
<1>5. /\ req[w].key \in Keys /\ req[w].stamped \in Minutes
      /\ req[w].stamped <= minute /\ ~(minute >= req[w].stamped + 2)
  BY <1>1, LimitAssumption DEF RedisSound, StampsAreRecent, InPhase, TypeOK, Minutes, Request
<1>6. admitted[<<"redis", req[w].key, req[w].stamped>>] <= counter[Slot(w)].count
  BY <1>2, <1>5 DEF RedisSound, CountersLastLongEnough
<1>7. ASSUME NEW k \in Keys, NEW m \in Minutes, counter'[<<k, m>>].count > 0
      PROVE  counter'[<<k, m>>].touched >= m
  <2>1. CASE <<k, m>> # Slot(w)
    BY <1>4, <1>7, <2>1 DEF RedisSound, CountersLastLongEnough
  <2>2. CASE <<k, m>> = Slot(w) /\ n > 0
    BY <1>2, <1>3, <1>5, <2>2 DEF Minutes
  <2>3. CASE <<k, m>> = Slot(w) /\ n = 0
    <3>1. counter' = counter
      BY <2>3 DEF Incremented, RedisSound, TypeOK
    <3> QED
      BY <1>7, <3>1 DEF RedisSound, CountersLastLongEnough
  <2> QED
    BY <2>1, <2>2, <2>3
<1> QED
  BY <1>1, <1>3, <1>4, <1>6, <1>7

LEMMA NextKeepsRedisSound ==
  ASSUME RedisSound, [Next]_vars, Ttl >= 2
  PROVE  RedisSound'
<1> USE LimitAssumption
<1>1. TypeOK'
  BY NextKeepsTypes DEF RedisSound
<1>2. ASSUME UNCHANGED <<minute, req, counter, admitted>> PROVE RedisSound'
  BY <1>1, <1>2 DEF RedisSound, StampsAreRecent, CountersLastLongEnough, RedisWithinLimit
<1>3. ASSUME NEW w \in Workers, NEW k \in Keys, Stamp(w, k) PROVE RedisSound'
  <2>1. StampsAreRecent'
    BY <1>3 DEF Stamp, RedisSound, StampsAreRecent, TypeOK, Minutes
  <2> QED
    BY <1>1, <1>3, <2>1 DEF Stamp, RedisSound, CountersLastLongEnough, RedisWithinLimit
<1>4. ASSUME NEW w \in Workers, CountInRedis(w) PROVE RedisSound'
  <2>1. PICK n \in 1 .. Retries + 1 :
          /\ counter' = Incremented(w, n)
          /\ Decide(w, "redis", req[w].stamped, counter'[Slot(w)].count)
    BY <1>4 DEF CountInRedis
  <2> DEFINE own == <<"redis", req[w].key, req[w].stamped>>
             count == counter'[Slot(w)].count
  <2>2. n \in Nat /\ n > 0 /\ minute' = minute /\ InPhase(w, "redis")
    BY <1>4 DEF CountInRedis
  <2>3. req[w] \in Request
    BY <2>1, <2>2, CountedOnce
  <2>4. own \in {"redis", "memory"} \X Keys \X Minutes /\ Slot(w) \in Keys \X Minutes
    BY <2>3 DEF Request, Slot
  <2>5. /\ admitted'[own] = admitted[own] + (IF Within(count) THEN 1 ELSE 0)
        /\ \A k \in Keys, m \in Minutes : <<"redis", k, m>> # own
              => admitted'[<<"redis", k, m>>] = admitted[<<"redis", k, m>>]
    BY <2>1, <2>4 DEF Decide, RedisSound, TypeOK
  <2>6. admitted[own] < count /\ admitted[own] \in Nat /\ count \in Nat
    BY <2>1, <2>2, <2>4, CountedOnce DEF RedisSound, TypeOK
  <2>7. StampsAreRecent'
    BY <2>1, <2>2 DEF Decide, RedisSound, StampsAreRecent, TypeOK
  <2>8. CountersLastLongEnough'
    <3> SUFFICES ASSUME NEW k \in Keys, NEW m \in Minutes
                 PROVE  \/ admitted'[<<"redis", k, m>>] <= counter'[<<k, m>>].count
                        \/ minute' >= m + 2
      BY <2>1, <2>2, CountedOnce DEF CountersLastLongEnough
    <3>1. CASE <<k, m>> = Slot(w)
      BY <2>5, <2>6, <3>1 DEF Slot
    <3>2. CASE <<k, m>> # Slot(w)
      <4>1. counter'[<<k, m>>] = counter[<<k, m>>]
        BY <2>1, <2>2, <3>2, CountedOnce
      <4> QED
        BY <2>2, <2>5, <3>2, <4>1 DEF Slot, RedisSound, CountersLastLongEnough
    <3> QED
      BY <3>1, <3>2
  <2>9. RedisWithinLimit'
    <3> SUFFICES ASSUME NEW k \in Keys, NEW m \in Minutes
                 PROVE  admitted'[<<"redis", k, m>>] <= Limit
      BY DEF RedisWithinLimit
    <3>1. admitted[<<"redis", k, m>>] <= Limit
      BY DEF RedisSound, RedisWithinLimit
    <3>2. CASE <<"redis", k, m>> # own
      BY <2>5, <3>1, <3>2
    <3>3. CASE <<"redis", k, m>> = own
      BY <2>5, <2>6, <3>1, <3>3 DEF Within
    <3> QED
      BY <3>2, <3>3
  <2> QED
    BY <1>1, <2>7, <2>8, <2>9 DEF RedisSound
<1>5. ASSUME NEW w \in Workers, RedisFails(w) PROVE RedisSound'
  <2>1. PICK n \in Nat : counter' = Incremented(w, n)
    BY <1>5 DEF RedisFails
  <2>2. InPhase(w, "redis") /\ minute' = minute /\ admitted' = admitted
        /\ req' = [req EXCEPT ![w].phase = "memory"]
    BY <1>5 DEF RedisFails
  <2>3. req[w] \in Request /\ req[w] # Idle
    BY <2>1, <2>2, CountedOnce DEF InPhase
  <2>4. StampsAreRecent'
    BY <2>2, <2>3 DEF RedisSound, StampsAreRecent, TypeOK, Request
  <2>5. CountersLastLongEnough'
    <3> SUFFICES ASSUME NEW k \in Keys, NEW m \in Minutes
                 PROVE  \/ admitted[<<"redis", k, m>>] <= counter'[<<k, m>>].count
                        \/ minute >= m + 2
      BY <2>1, <2>2, CountedOnce DEF CountersLastLongEnough
    <3>1. CASE <<k, m>> = Slot(w)
      <4>1. /\ counter'[Slot(w)].count = counter[Slot(w)].count + n
            /\ admitted[<<"redis", req[w].key, req[w].stamped>>] <= counter[Slot(w)].count
        BY <2>1, <2>2, CountedOnce
      <4>2. k = req[w].key /\ m = req[w].stamped
        BY <3>1 DEF Slot
      <4>3. counter[Slot(w)].count \in Nat /\ admitted[<<"redis", k, m>>] \in Nat
        BY <3>1 DEF RedisSound, TypeOK
      <4> QED
        BY <3>1, <4>1, <4>2, <4>3
    <3>2. CASE <<k, m>> # Slot(w)
      <4>1. counter'[<<k, m>>] = counter[<<k, m>>]
        BY <2>1, <2>2, <3>2, CountedOnce
      <4> QED
        BY <4>1 DEF RedisSound, CountersLastLongEnough
    <3> QED
      BY <3>1, <3>2
  <2> QED
    BY <1>1, <2>2, <2>4, <2>5 DEF RedisSound, RedisWithinLimit
<1>6. ASSUME NEW w \in Workers, CountInMemory(w) PROVE RedisSound'
  <2>1. Decide(w, "memory", minute, LocalCount(req[w].key) + 1)
        /\ minute' = minute /\ counter' = counter
    BY <1>6 DEF CountInMemory
  <2>2. \A k \in Keys, m \in Minutes : admitted'[<<"redis", k, m>>] = admitted[<<"redis", k, m>>]
    BY <2>1 DEF Decide, RedisSound, TypeOK
  <2>3. StampsAreRecent'
    BY <2>1 DEF Decide, RedisSound, StampsAreRecent, TypeOK
  <2> QED
    BY <1>1, <2>1, <2>2, <2>3 DEF RedisSound, CountersLastLongEnough, RedisWithinLimit
<1>7. ASSUME NEW s \in DOMAIN counter, ExpireCounter(s) PROVE RedisSound'
  <2>1. PICK k \in Keys, m \in Minutes : s = <<k, m>>
    BY DEF RedisSound, TypeOK
  <2>2. counter[s].touched \in Nat /\ minute \in Nat /\ m \in Nat
    BY DEF RedisSound, TypeOK, Minutes
  <2>3. counter[s].touched >= m
    BY <1>7, <2>1 DEF ExpireCounter, RedisSound, CountersLastLongEnough
  <2>4. minute >= m + 2 /\ minute' = minute /\ admitted' = admitted /\ req' = req
    BY <1>7, <2>2, <2>3 DEF ExpireCounter
  <2>5. \A x \in Keys \X Minutes :
          counter'[x] = IF x = s THEN [count |-> 0, touched |-> 0] ELSE counter[x]
    BY <1>7 DEF ExpireCounter, RedisSound, TypeOK
  <2>6. CountersLastLongEnough'
    <3> SUFFICES ASSUME NEW j \in Keys, NEW n \in Minutes
                 PROVE  /\ counter'[<<j, n>>].count > 0 => counter'[<<j, n>>].touched >= n
                        /\ \/ admitted[<<"redis", j, n>>] <= counter'[<<j, n>>].count
                           \/ minute >= n + 2
      BY <2>4 DEF CountersLastLongEnough
    <3>1. CASE <<j, n>> = s
      BY <2>1, <2>4, <2>5, <3>1
    <3>2. CASE <<j, n>> # s
      <4>1. counter'[<<j, n>>] = counter[<<j, n>>]
        BY <2>5, <3>2
      <4> QED
        BY <4>1 DEF RedisSound, CountersLastLongEnough
    <3> QED
      BY <3>1, <3>2
  <2> QED
    BY <1>1, <2>4, <2>6 DEF RedisSound, StampsAreRecent, RedisWithinLimit
<1>8. CASE NextMinute
  <2>1. StampsAreRecent'
    <3>1. \A w \in Workers : req[w] # Idle => req[w].stamped = minute
      BY <1>8 DEF NextMinute
    <3> QED
      BY <1>8, <3>1 DEF NextMinute, RedisSound, StampsAreRecent, TypeOK, Minutes
  <2>2. minute \in Nat /\ minute' = minute + 1 /\ \A m \in Minutes : m \in Nat
    BY <1>8 DEF NextMinute, RedisSound, TypeOK, Minutes
  <2>3. \A m \in Minutes : minute >= m + 2 => minute' >= m + 2
    BY <2>2
  <2>4. CountersLastLongEnough'
    BY <1>8, <2>3 DEF NextMinute, RedisSound, CountersLastLongEnough
  <2> QED
    BY <1>1, <1>8, <2>1, <2>4 DEF NextMinute, RedisSound, RedisWithinLimit
<1> QED
  BY <1>2, <1>3, <1>4, <1>5, <1>6, <1>7, <1>8 DEF Next, vars

LEMMA AlwaysRedisSound ==
  ASSUME Ttl >= 2
  PROVE  Spec => []RedisSound
<1>1. Init => RedisSound
  BY LimitAssumption DEF Init, RedisSound, TypeOK, Tracked, Minutes,
     StampsAreRecent, CountersLastLongEnough, RedisWithinLimit
<1>2. RedisSound /\ [Next]_vars => RedisSound'
  BY NextKeepsRedisSound
<1> QED
  BY <1>1, <1>2, PTL DEF Spec

-----------------------------------------------------------------------------
(* The buckets in the process.                                             *)

\* The requests of this minute that were let through are counted in the
\* bucket of their key; nothing was let through in a later minute.
BucketsCountAll ==
  \A k \in Keys, m \in Minutes :
    admitted[<<"memory", k, m>>] > 0 /\ m >= minute =>
      /\ local[k] # Untracked
      /\ local[k].window = m
      /\ admitted[<<"memory", k, m>>] <= local[k].count

MemoryWithinLimit == \A k \in Keys, m \in Minutes : admitted[<<"memory", k, m>>] <= Limit

MemorySound == TypeOK /\ BucketsCountAll /\ MemoryWithinLimit

LEMMA NextKeepsMemorySound ==
  ASSUME MemorySound, [Next]_vars
  PROVE  MemorySound'
<1> USE LimitAssumption
<1>1. TypeOK'
  BY NextKeepsTypes DEF MemorySound
<1>2. ASSUME UNCHANGED <<minute, local>>,
             \A k \in Keys, m \in Minutes : admitted'[<<"memory", k, m>>] = admitted[<<"memory", k, m>>]
      PROVE  MemorySound'
  BY <1>1, <1>2 DEF MemorySound, BucketsCountAll, MemoryWithinLimit
<1>3. ASSUME NEW w \in Workers, CountInRedis(w) PROVE MemorySound'
  <2>1. \A k \in Keys, m \in Minutes : admitted'[<<"memory", k, m>>] = admitted[<<"memory", k, m>>]
    BY <1>3 DEF CountInRedis, Decide, MemorySound, TypeOK
  <2> QED
    BY <1>2, <1>3, <2>1 DEF CountInRedis
<1>4. ASSUME NEW w \in Workers, CountInMemory(w) PROVE MemorySound'
  <2> DEFINE own == req[w].key
             slot == <<"memory", own, minute>>
             count == LocalCount(own) + 1
  <2>1. /\ local' = [CleanLocal EXCEPT ![own] = [window |-> minute, count |-> count]]
        /\ Decide(w, "memory", minute, count)
        /\ minute' = minute
    BY <1>4 DEF CountInMemory
  <2>2. own \in Keys /\ minute \in Minutes
    BY <1>4, InPhaseIsRequest DEF CountInMemory, MemorySound, TypeOK, Request
  <2>3. slot \in {"redis", "memory"} \X Keys \X Minutes
    BY <2>2
  <2>4. LocalCount(own) \in Nat /\ admitted[slot] \in Nat
    BY <2>2, <2>3, LocalCountType DEF MemorySound, TypeOK
  <2>5. admitted[slot] <= LocalCount(own)
    <3>1. CASE admitted[slot] > 0
      <4>1. local[own] # Untracked /\ local[own].window = minute /\ admitted[slot] <= local[own].count
        BY <2>2, <3>1 DEF MemorySound, BucketsCountAll, Minutes
      <4>2. CleanLocal[own] = local[own]
        BY <2>2, <4>1 DEF CleanLocal, Minutes
      <4> QED
        BY <4>1, <4>2 DEF LocalCount
    <3> QED
      BY <2>4, <3>1
  <2>6. /\ admitted'[slot] = admitted[slot] + (IF Within(count) THEN 1 ELSE 0)
        /\ \A k \in Keys, m \in Minutes : <<"memory", k, m>> # slot
              => admitted'[<<"memory", k, m>>] = admitted[<<"memory", k, m>>]
    BY <2>1, <2>3 DEF Decide, MemorySound, TypeOK
  <2>7. /\ local'[own] = [window |-> minute, count |-> count]
        /\ \A k \in Keys : k # own => local'[k] = CleanLocal[k]
    BY <2>1, <2>2, CleanLocalType DEF MemorySound
  <2>8. [window |-> minute, count |-> count] # Untracked
    BY <2>2, <2>4, SentinelAssumption DEF Bucket
  <2>9. BucketsCountAll'
    <3> SUFFICES ASSUME NEW k \in Keys, NEW m \in Minutes,
                        admitted'[<<"memory", k, m>>] > 0, m >= minute
                 PROVE  /\ local'[k] # Untracked
                        /\ local'[k].window = m
                        /\ admitted'[<<"memory", k, m>>] <= local'[k].count
      BY <2>1 DEF BucketsCountAll
    <3>1. CASE k = own /\ m = minute
      BY <2>4, <2>5, <2>6, <2>7, <2>8, <3>1
    <3>2. CASE ~(k = own /\ m = minute)
      <4>1. admitted'[<<"memory", k, m>>] = admitted[<<"memory", k, m>>]
        BY <2>6, <3>2
      <4>2. /\ local[k] # Untracked /\ local[k].window = m
            /\ admitted[<<"memory", k, m>>] <= local[k].count
        BY <4>1 DEF MemorySound, BucketsCountAll
      <4>3. local[k].window <= minute
        BY <4>2 DEF MemorySound, TypeOK, Tracked
      <4>4. m = minute
        BY <2>2, <4>2, <4>3 DEF Minutes
      <4>5. CleanLocal[k] = local[k]
        BY <2>2, <4>2, <4>4 DEF CleanLocal, Minutes
      <4> QED
        BY <2>7, <3>2, <4>1, <4>2, <4>4, <4>5
    <3> QED
      BY <3>1, <3>2
  <2>10. MemoryWithinLimit'
    <3> SUFFICES ASSUME NEW k \in Keys, NEW m \in Minutes
                 PROVE  admitted'[<<"memory", k, m>>] <= Limit
      BY DEF MemoryWithinLimit
    <3>1. admitted[<<"memory", k, m>>] <= Limit
      BY DEF MemorySound, MemoryWithinLimit
    <3> QED
      BY <2>4, <2>5, <2>6, <3>1 DEF Within
  <2> QED
    BY <1>1, <2>9, <2>10 DEF MemorySound
<1>5. CASE NextMinute
  <2>1. BucketsCountAll'
    <3> SUFFICES ASSUME NEW k \in Keys, NEW m \in Minutes,
                        admitted[<<"memory", k, m>>] > 0, m >= minute + 1
                 PROVE  FALSE
      BY <1>5 DEF NextMinute, BucketsCountAll
    <3>1. minute \in Nat /\ m \in Nat
      BY DEF MemorySound, TypeOK, Minutes
    <3>2. local[k] # Untracked /\ local[k].window = m
      BY <3>1 DEF MemorySound, BucketsCountAll
    <3> QED
      BY <3>1, <3>2 DEF MemorySound, TypeOK, Tracked
  <2> QED
    BY <1>1, <1>5, <2>1 DEF NextMinute, MemorySound, MemoryWithinLimit
<1>6. ASSUME NEW w \in Workers, NEW k \in Keys, Stamp(w, k) PROVE MemorySound'
  BY <1>2, <1>6 DEF Stamp
<1>7. ASSUME NEW w \in Workers, RedisFails(w) PROVE MemorySound'
  BY <1>2, <1>7 DEF RedisFails
<1>8. ASSUME NEW s \in DOMAIN counter, ExpireCounter(s) PROVE MemorySound'
  BY <1>2, <1>8 DEF ExpireCounter
<1>9. CASE UNCHANGED vars
  BY <1>2, <1>9 DEF vars
<1> QED
  BY <1>3, <1>4, <1>5, <1>6, <1>7, <1>8, <1>9 DEF Next

LEMMA AlwaysMemorySound == Spec => []MemorySound
<1>1. Init => MemorySound
  BY LimitAssumption DEF Init, MemorySound, TypeOK, Tracked, Minutes,
     BucketsCountAll, MemoryWithinLimit
<1>2. MemorySound /\ [Next]_vars => MemorySound'
  BY NextKeepsMemorySound
<1> QED
  BY <1>1, <1>2, PTL DEF Spec

-----------------------------------------------------------------------------

\* Each backend lets at most Limit requests of a key through in any minute,
\* however late they are counted, however often Redis is asked again, and
\* whatever is cleaned or expires.
THEOREM AtMostLimit ==
  ASSUME Ttl >= 2
  PROVE  Spec => []LimitPerBackend
<1>1. RedisSound /\ MemorySound => LimitPerBackend
  BY DEF RedisSound, RedisWithinLimit, MemorySound, MemoryWithinLimit, TypeOK, LimitPerBackend
<1> QED
  BY <1>1, AlwaysRedisSound, AlwaysMemorySound, PTL

-----------------------------------------------------------------------------
(* The size of the map.                                                    *)

\* Only finitely many keys are tracked, so that counting them means something.
MapSound == TypeOK /\ IsFiniteSet(Tracked) /\ BucketsBounded

\* After a request has been counted in the process: one key may be new, and
\* if the map was cleaned only buckets of this minute are left.
LEMMA CountedInMemory ==
  ASSUME TypeOK, IsFiniteSet(Tracked), NEW w \in Workers, CountInMemory(w)
  PROVE  /\ Tracked' \subseteq Tracked \union {req[w].key}
         /\ CleanupSize <= Cardinality(Tracked)
              => \A k \in Tracked' : local'[k].window = minute
<1> DEFINE own == req[w].key
<1>1. own \in Keys /\ minute \in Nat /\ \A m \in Minutes : m \in Nat
  BY LimitAssumption, InPhaseIsRequest DEF CountInMemory, TypeOK, Request, Minutes
<1>2. \E b : b.window = minute /\ local' = [CleanLocal EXCEPT ![own] = b]
  BY DEF CountInMemory
<1>3. \A k \in Keys : k # own => local'[k] = CleanLocal[k]
  BY <1>2, CleanLocalType
<1>4. local'[own].window = minute
  BY <1>1, <1>2, CleanLocalType
<1>5. Tracked' \subseteq Tracked \union {own}
  BY <1>3, CleanLocalType DEF Tracked
<1>6. ASSUME CleanupSize <= Cardinality(Tracked), NEW k \in Tracked', k # own
      PROVE  local'[k].window = minute
  <2>1. k \in Keys /\ CleanLocal[k] # Untracked /\ local'[k] = CleanLocal[k]
    BY <1>3, <1>6 DEF Tracked
  <2>2. CleanLocal[k] = local[k] /\ k \in Tracked
    BY <2>1, CleanLocalType DEF Tracked
  <2>3. ~(Cardinality(Tracked) < CleanupSize)
    BY <1>6, LimitAssumption, FS_CardinalityType
  <2>4. local[k].window >= minute
    BY <2>1, <2>2, <2>3 DEF CleanLocal, Tracked
  <2>5. local[k].window <= minute /\ local[k].window \in Minutes
    BY <2>2 DEF TypeOK, Bucket, Tracked
  <2> QED
    BY <1>1, <2>1, <2>2, <2>4, <2>5
<1> QED
  BY <1>4, <1>5, <1>6

LEMMA NextKeepsMapSound ==
  ASSUME MapSound, [Next]_vars
  PROVE  MapSound'
<1> USE LimitAssumption DEF MapSound
<1>1. TypeOK'
  BY NextKeepsTypes
<1>2. ASSUME UNCHANGED local PROVE MapSound'
  BY <1>1, <1>2 DEF Tracked, BucketsBounded
<1>3. ASSUME NEW w \in Workers, CountInMemory(w) PROVE MapSound'
  <2> DEFINE grown == Tracked \union {req[w].key}
  <2>1. /\ IsFiniteSet(grown)
        /\ Cardinality(grown) <= Cardinality(Tracked) + 1
        /\ Cardinality(Tracked) \in Nat /\ Cardinality(grown) \in Nat
    BY FS_AddElement, FS_CardinalityType
  <2>2. Tracked' \in SUBSET grown
    BY <1>3, CountedInMemory
  <2>3. IsFiniteSet(Tracked') /\ Cardinality(Tracked') <= Cardinality(grown)
        /\ Cardinality(Tracked') \in Nat
    BY <2>1, <2>2, FS_Subset, FS_CardinalityType
  <2>4. CASE CleanupSize <= Cardinality(Tracked)
    <3>1. \A k \in Tracked' : local'[k].window = minute
      BY <1>3, <2>4, CountedInMemory
    <3> QED
      BY <1>1, <2>3, <3>1 DEF BucketsBounded
  <2>5. CASE ~(CleanupSize <= Cardinality(Tracked))
    <3>1. Cardinality(Tracked') <= CleanupSize
      BY <2>1, <2>3, <2>5
    <3> QED
      BY <1>1, <2>3, <3>1 DEF BucketsBounded
  <2> QED
    BY <2>4, <2>5
<1>4. ASSUME NEW w \in Workers, CountInRedis(w) \/ RedisFails(w) PROVE MapSound'
  BY <1>2, <1>4 DEF CountInRedis, RedisFails
<1>5. ASSUME NEW w \in Workers, NEW k \in Keys, Stamp(w, k) PROVE MapSound'
  BY <1>2, <1>5 DEF Stamp
<1>6. ASSUME NEW s \in DOMAIN counter, ExpireCounter(s) PROVE MapSound'
  BY <1>2, <1>6 DEF ExpireCounter
<1>7. CASE NextMinute \/ UNCHANGED vars
  BY <1>2, <1>7 DEF NextMinute, vars
<1> QED
  BY <1>3, <1>4, <1>5, <1>6, <1>7 DEF Next

\* The map has more than CleanupSize buckets only when that many keys were
\* seen in one and the same minute.
THEOREM MapStaysSmall == Spec => []BucketsBounded
<1>1. Init => MapSound
  <2> SUFFICES ASSUME Init PROVE MapSound
    OBVIOUS
  <2>1. Tracked = {}
    BY DEF Init, Tracked
  <2>2. IsFiniteSet(Tracked) /\ Cardinality(Tracked) = 0
    BY <2>1, FS_EmptySet
  <2>3. TypeOK
    BY <2>1, LimitAssumption DEF Init, TypeOK, Minutes
  <2> QED
    BY <2>2, <2>3, LimitAssumption DEF MapSound, BucketsBounded
<1>2. MapSound /\ [Next]_vars => MapSound'
  BY NextKeepsMapSound
<1>3. MapSound => BucketsBounded
  BY DEF MapSound
<1> QED
  BY <1>1, <1>2, <1>3, PTL DEF Spec
=============================================================================
