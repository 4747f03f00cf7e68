--------------------------- MODULE RequestLimiter ---------------------------
(***************************************************************************)
(* middleware.Limiter (middleware/ratelimit.go): a request is counted in   *)
(* Redis under its key and the minute in which it was stamped; when Redis  *)
(* does not answer it is counted once more in the process, under the       *)
(* minute of that moment.  It is admitted if its own count is within the   *)
(* limit.                                                                  *)
(*                                                                         *)
(* Time is the number of the current minute and does not go back.  The two *)
(* backends are INCR with EXPIRE, in one MULTI, and a map behind a mutex:  *)
(* each use of one is a single step.                                       *)
(***************************************************************************)
EXTENDS Integers, FiniteSets

CONSTANTS
  Keys,        \* client address and route
  Workers,     \* requests under way at the same time
  Idle,        \* the worker handles no request
  Untracked,   \* the map has no bucket for the key
  Limit,       \* REQUEST_LIMIT
  CleanupSize, \* buckets from which on the map is cleaned (512 in the code)
  Ttl,         \* minutes a Redis counter lives after its last INCR (2)
  MaxMinute,   \* bound: last minute of the clock
  Retries,     \* times the Redis client sends its commands again (3)
  MaxRequests  \* bound: requests

VARIABLES
  minute,     \* time.Now().UTC().Truncate(time.Minute)
  counter,    \* Redis: <<key, minute>> -> [count, touched]
  local,      \* Limiter.local: key -> bucket
  req,        \* worker -> request being counted
  admitted,   \* history: <<backend, key, minute>> -> requests let through
  requests    \* requests so far

vars == <<minute, counter, local, req, admitted, requests>>

ASSUME LimitAssumption ==
  /\ Limit \in Nat /\ CleanupSize \in Nat \ {0} /\ Ttl \in Nat
  /\ MaxMinute \in Nat /\ Retries \in Nat /\ MaxRequests \in Nat

Minutes == 0 .. MaxMinute
Bucket == [window: Minutes, count: Nat \ {0}]

ASSUME SentinelAssumption == Untracked \notin Bucket

Tracked == {k \in Keys : local[k] # Untracked}

Init ==
  /\ minute = 0
  /\ counter = [s \in Keys \X Minutes |-> [count |-> 0, touched |-> 0]]
  /\ local = [k \in Keys |-> Untracked]
  /\ req = [w \in Workers |-> Idle]
  /\ admitted = [s \in {"redis", "memory"} \X Keys \X Minutes |-> 0]
  /\ requests = 0

-----------------------------------------------------------------------------

InPhase(w, phase) == req[w] # Idle /\ req[w].phase = phase

\* increment builds the Redis key, which names the minute of this moment.
Stamp(w, k) ==
  /\ req[w] = Idle
  /\ requests < MaxRequests
  /\ requests' = requests + 1
  /\ req' = [req EXCEPT ![w] = [phase |-> "redis", key |-> k, stamped |-> minute]]
  /\ UNCHANGED <<minute, counter, local, admitted>>

Within(count) == count <= Limit

\* Middleware lets the request through or answers 429.
Decide(w, backend, window, count) ==
  /\ req' = [req EXCEPT ![w] = Idle]
  /\ admitted' = [admitted EXCEPT ![<<backend, req[w].key, window>>] =
                    @ + (IF Within(count) THEN 1 ELSE 0)]

Slot(w) == <<req[w].key, req[w].stamped>>

\* INCR and EXPIRE, executed n times.
Incremented(w, n) ==
  [counter EXCEPT ![Slot(w)] = IF n = 0 THEN @ ELSE [count |-> @.count + n, touched |-> minute]]

\* Redis answers.  It may have executed the commands before: the client sends
\* them again when an answer is lost.
CountInRedis(w) ==
  /\ InPhase(w, "redis")
  /\ \E n \in 1 .. Retries + 1 :
       /\ counter' = Incremented(w, n)
       /\ Decide(w, "redis", req[w].stamped, counter'[Slot(w)].count)
  /\ UNCHANGED <<minute, local, requests>>

\* Redis does not answer, or is not configured; still it may have executed
\* the commands.
RedisFails(w) ==
  /\ InPhase(w, "redis")
  /\ \E n \in 0 .. Retries + 1 : counter' = Incremented(w, n)
  /\ req' = [req EXCEPT ![w].phase = "memory"]
  /\ UNCHANGED <<minute, local, admitted, requests>>

\* Mutant: a counter lives no longer than the minute it counts.
ExpireCounterEarly(s) ==
  /\ counter[s].count > 0
  /\ minute >= counter[s].touched + Ttl - 1
  /\ counter' = [counter EXCEPT ![s] = [count |-> 0, touched |-> 0]]
  /\ UNCHANGED <<minute, local, req, admitted, requests>>

\* Redis drops a counter that nobody has touched for Ttl minutes.
ExpireCounter(s) ==
  /\ counter[s].count > 0
  /\ minute >= counter[s].touched + Ttl
  /\ counter' = [counter EXCEPT ![s] = [count |-> 0, touched |-> 0]]
  /\ UNCHANGED <<minute, local, req, admitted, requests>>

\* Mutant: the map is cleaned one bucket too late.
CleanLocalLate ==
  [k \in Keys |-> IF Cardinality(Tracked) <= CleanupSize \/ local[k] = Untracked
                     \/ local[k].window >= minute
                    THEN local[k] ELSE Untracked]

\* cleanupLocal: buckets of earlier minutes go, once there are many buckets.
CleanLocal ==
  [k \in Keys |-> IF Cardinality(Tracked) < CleanupSize \/ local[k] = Untracked
                     \/ local[k].window >= minute
                    THEN local[k] ELSE Untracked]

\* The count of the key in this minute, after cleanupLocal.
LocalCount(k) ==
  LET kept == CleanLocal[k] IN
  IF kept # Untracked /\ kept.window = minute THEN kept.count ELSE 0

\* Mutant: the minute of the bucket is rounded up.
CountInMemoryAhead(w) ==
  LET k == req[w].key  count == LocalCount(k) + 1 IN
  /\ InPhase(w, "memory")
  /\ local' = [CleanLocal EXCEPT ![k] = [window |-> minute + 1, count |-> count]]
  /\ Decide(w, "memory", minute, count)
  /\ UNCHANGED <<minute, counter, requests>>

\* incrementLocal.
CountInMemory(w) ==
  LET k == req[w].key  count == LocalCount(k) + 1 IN
  /\ InPhase(w, "memory")
  /\ local' = [CleanLocal EXCEPT ![k] = [window |-> minute, count |-> count]]
  /\ Decide(w, "memory", minute, count)
  /\ UNCHANGED <<minute, counter, requests>>

\* The timeouts of the Redis client keep a request from being under way for
\* more than one turn of the minute.
NextMinute ==
  /\ minute < MaxMinute
  /\ \A w \in Workers : req[w] # Idle => req[w].stamped = minute
  /\ minute' = minute + 1
  /\ UNCHANGED <<counter, local, req, admitted, requests>>

Next ==
  \/ \E w \in Workers, k \in Keys : Stamp(w, k)
  \/ \E w \in Workers : CountInRedis(w) \/ RedisFails(w) \/ CountInMemory(w)
  \/ \E s \in DOMAIN counter : ExpireCounter(s)
  \/ NextMinute

Spec == Init /\ [][Next]_vars

-----------------------------------------------------------------------------
(* What must hold of every run.                                            *)

\* Type invariant: no bucket is ahead of the clock.
TypeOK ==
  /\ minute \in Minutes
  /\ counter \in [Keys \X Minutes -> [count: Nat, touched: Minutes]]
  /\ local \in [Keys -> Bucket \union {Untracked}]
  /\ \A k \in Tracked : local[k].window <= minute
  /\ req \in [Workers -> [phase: {"redis", "memory"}, key: Keys, stamped: Minutes] \union {Idle}]
  /\ admitted \in [{"redis", "memory"} \X Keys \X Minutes -> Nat]
  /\ requests \in 0 .. MaxRequests

\* Each backend lets at most Limit requests of a key through in any minute,
\* whatever else is cleaned, expires or is counted late.  A key whose requests
\* are counted by both, because Redis comes and goes, has at most twice that.
LimitPerBackend == \A s \in DOMAIN admitted : admitted[s] <= Limit

\* The map does not grow without bound: it has more than CleanupSize buckets
\* only when that many keys were seen in one and the same minute.
BucketsBounded ==
  \/ Cardinality(Tracked) <= CleanupSize
  \/ \A j, k \in Tracked : local[j].window = local[k].window
=============================================================================
