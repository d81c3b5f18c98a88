---------------------------- MODULE ServiceProofs ----------------------------
(***************************************************************************)
(* Theorems about Service, for any number of workers, any queue, cache and *)
(* set of exports.                                                         *)
(*                                                                         *)
(* The argument.  Every step settles one error (Settles), drops one that   *)
(* has no fingerprint (Discards), takes some (Takes), ends the process or  *)
(* moves nothing in the books.  Each of these changes the errors in the    *)
(* queue and in the workers' hands, the counters and the queue's own count *)
(* of unfinished items alike: the counters and Pending agree about the     *)
(* errors that have a fingerprint, unfinished and Held about all of them   *)
(* (Accounts).  That a clean stop loses nothing is the second agreement at *)
(* the moment of the stop, since join() waits for unfinished.  The classes *)
(* of steps are those of the ledger, where Discards is invisible.          *)
(***************************************************************************)
EXTENDS Service, FiniteSetTheorems, SequenceTheorems, TLAPS

\* What is in the queue and in hand, fingerprint or not.
Held == Len(queue) + Cardinality(BusyWorkers)

\* The inductive invariant.
Accounts == TypeOK /\ unfinished = Held /\ EveryErrorAccounted

(***************************************************************************)
(* The books.                                                              *)
(***************************************************************************)
\* The kinds of steps.
Same ==
    /\ Pending' = Pending /\ Held' = Held /\ unfinished' = unfinished
    /\ Settled' = Settled /\ metrics'.accepted = metrics.accepted

Settles ==
    /\ Pending > 0 /\ Pending' = Pending - 1
    /\ Held' = Held - 1 /\ unfinished' = unfinished - 1
    /\ Settled' = Settled + 1 /\ metrics'.accepted = metrics.accepted

Discards ==
    /\ Pending' = Pending
    /\ Held' = Held - 1 /\ unfinished' = unfinished - 1
    /\ Settled' = Settled /\ metrics'.accepted = metrics.accepted

\* n errors, m of which have a fingerprint.
Takes(n, m) ==
    /\ Pending' = Pending + m /\ metrics'.accepted = metrics.accepted + m
    /\ Held' = Held + n /\ unfinished' = unfinished + n
    /\ Settled' = Settled

Closes ==
    /\ Pending' = 0 /\ Held' = 0 /\ unfinished' = 0
    /\ Settled' = 0 /\ metrics'.accepted = 0

(***************************************************************************)
(* Counting the errors of a sequence that have a fingerprint.              *)
(***************************************************************************)
\* Their number.
LEMMA KnownType ==
  ASSUME NEW q \in Seq(Error)
  PROVE  /\ IsFiniteSet({k \in 1..Len(q) : q[k] \in Fp})
         /\ Known(q) = Cardinality({k \in 1..Len(q) : q[k] \in Fp})
         /\ Known(q) \in Nat
<1> DEFINE places == {k \in 1..Len(q) : q[k] \in Fp}
<1>1. Len(q) \in Nat /\ DOMAIN q = 1..Len(q)
  OBVIOUS
<1>2. IsFiniteSet(places)
  <2>1. IsFiniteSet(1..Len(q))
    BY <1>1, FS_Interval
  <2>2. places \subseteq 1..Len(q)
    OBVIOUS
  <2> HIDE DEF places
  <2>3. QED
    BY <2>1, <2>2, FS_Subset
<1>3. Known(q) = Cardinality(places)
  BY <1>1 DEF Known
<1>4. Cardinality(places) \in Nat
  BY <1>2, FS_CardinalityType
<1>5. QED
  BY <1>2, <1>3, <1>4

\* Of one.
LEMMA KnownOne ==
  ASSUME NEW x \in Error
  PROVE  Known(<<x>>) = IF x \in Fp THEN 1 ELSE 0
<1> DEFINE places == {k \in DOMAIN <<x>> : <<x>>[k] \in Fp}
<1>1. DOMAIN <<x>> = {1} /\ <<x>>[1] = x
  OBVIOUS
<1>2. CASE x \in Fp
  <2>1. places = {1}
    BY <1>1, <1>2
  <2>2. QED
    BY <1>2, <2>1, FS_Singleton DEF Known
<1>3. CASE x \notin Fp
  <2>1. places = {}
    BY <1>1, <1>3
  <2>2. QED
    BY <1>3, <2>1, FS_EmptySet DEF Known
<1>4. QED
  BY <1>2, <1>3

\* Of two sequences, one after the other.
LEMMA KnownJoin ==
  ASSUME NEW q \in Seq(Error), NEW r \in Seq(Error)
  PROVE  Known(q \o r) = Known(q) + Known(r)
<1> DEFINE n == Len(q)
           both == {k \in 1..Len(q \o r) : (q \o r)[k] \in Fp}
           left == {k \in 1..Len(q) : q[k] \in Fp}
           right == {k \in 1..Len(r) : r[k] \in Fp}
           shifted == {k \in both : k > n}
           move == [k \in right |-> n + k]
<1>1. /\ q \o r \in Seq(Error) /\ n \in Nat /\ Len(r) \in Nat
      /\ Len(q \o r) = n + Len(r)
      /\ \A k \in 1..n : (q \o r)[k] = q[k]
      /\ \A k \in 1..Len(r) : (q \o r)[n + k] = r[k]
  BY ConcatProperties
<1>2. /\ IsFiniteSet(left) /\ Known(q) = Cardinality(left)
      /\ IsFiniteSet(right) /\ Known(r) = Cardinality(right)
      /\ IsFiniteSet(both) /\ Known(q \o r) = Cardinality(both)
  BY <1>1, KnownType
<1>3. shifted = {n + k : k \in right}
  <2>1. ASSUME NEW k \in shifted PROVE \E i \in right : k = n + i
    <3>1. k - n \in 1..Len(r) /\ n + (k - n) = k
      BY <1>1
    <3>2. r[k - n] \in Fp
      BY <1>1, <3>1
    <3>3. QED
      BY <3>1, <3>2
  <2>2. ASSUME NEW i \in right PROVE n + i \in shifted
    BY <1>1
  <2>3. QED
    BY <2>1, <2>2
<1>4. both = left \cup shifted
  <2>1. left \subseteq both
    BY <1>1
  <2>2. ASSUME NEW k \in both, k \notin shifted PROVE k \in left
    <3>1. k \in 1..Len(q \o r) /\ (q \o r)[k] \in Fp
      OBVIOUS
    <3>2. k <= n
      BY <1>1, <2>2, <3>1
    <3>3. k \in 1..n
      BY <1>1, <3>1, <3>2
    <3>4. q[k] = (q \o r)[k]
      BY <1>1, <3>3
    <3>5. QED
      BY <3>1, <3>3, <3>4
  <2>3. shifted \subseteq both
    OBVIOUS
  <2> HIDE DEF both, left, shifted
  <2>4. QED
    BY <2>1, <2>2, <2>3
<1>5. left \cap shifted = {}
  BY <1>1
<1>6. Cardinality(shifted) = Cardinality(right) /\ IsFiniteSet(shifted)
  <2>1. move \in [right -> shifted]
    BY <1>3
  <2>2. \A i, k \in right : move[i] = move[k] => i = k
    BY <1>1
  <2>3. \A x \in shifted : \E k \in right : move[k] = x
    BY <1>3
  <2> HIDE DEF move, right, shifted
  <2>4. move \in Bijection(right, shifted)
    BY <2>1, <2>2, <2>3, Zenon DEF Bijection, Injection, Surjection, IsInjective
  <2>5. ExistsBijection(right, shifted)
    BY <2>4 DEF ExistsBijection
  <2>6. QED
    BY <1>2, <2>5, FS_Bijection
<1> HIDE DEF both, left, right, shifted
<1>7. Cardinality(left \cap shifted) = 0
  BY <1>5, FS_EmptySet
<1>8. /\ Cardinality(both) = Cardinality(left) + Cardinality(shifted) - 0
      /\ Cardinality(left) \in Nat /\ Cardinality(shifted) \in Nat
  BY <1>2, <1>4, <1>6, <1>7, FS_Union, FS_CardinalityType
<1>9. QED
  BY <1>2, <1>6, <1>8

\* Of all but the first.
LEMMA KnownTail ==
  ASSUME NEW q \in Seq(Error), q # <<>>
  PROVE  Known(q) = Known(Tail(q)) + (IF Head(q) \in Fp THEN 1 ELSE 0)
<1>1. Head(q) \in Error /\ Tail(q) \in Seq(Error)
  BY HeadTailProperties
<1>2. q = <<Head(q)>> \o Tail(q)
  BY HeadTailProperties
<1>3. <<Head(q)>> \in Seq(Error)
  BY <1>1
<1>4. Known(<<Head(q)>> \o Tail(q)) = Known(<<Head(q)>>) + Known(Tail(q))
  BY <1>1, <1>3, KnownJoin
<1>5. Known(q) = Known(<<Head(q)>>) + Known(Tail(q))
  BY <1>2, <1>4
<1>6. Known(Tail(q)) \in Nat
  BY <1>1, KnownType
<1>7. QED
  BY <1>1, <1>5, <1>6, KnownOne

\* Of none.
LEMMA KnownNone == Known(<<>>) = 0
<1>1. {k \in DOMAIN <<>> : <<>>[k] \in Fp} = {}
  OBVIOUS
<1>2. QED
  BY <1>1, FS_EmptySet DEF Known

(***************************************************************************)
(* The variables.                                                          *)
(***************************************************************************)
\* A worker between two errors.
LEMMA WaitingType == Waiting \in Job /\ Waiting.pc = "get"
<1>1. (CHOOSE f \in Fp : TRUE) \in Fp
  BY ServiceConstants
<1>2. QED
  BY <1>1 DEF Waiting, Job

\* The books are natural numbers.
LEMMA PendingFacts ==
  ASSUME TypeOK
  PROVE  /\ IsFiniteSet(BusyWorkers)
         /\ Cardinality(BusyWorkers) \in Nat
         /\ Len(queue) \in Nat
         /\ Known(queue) \in Nat
         /\ Pending \in Nat
         /\ Held \in Nat
         /\ Settled \in Nat
<1>1. IsFiniteSet(BusyWorkers)
  BY ServiceConstants, FS_Subset DEF BusyWorkers
<1>2. Cardinality(BusyWorkers) \in Nat
  BY <1>1, FS_CardinalityType
<1>3. Len(queue) \in Nat
  BY DEF TypeOK
<1>4. Settled \in Nat
  BY DEF TypeOK, Settled, Metrics
<1>5. Known(queue) \in Nat
  BY KnownType DEF TypeOK
<1>6. QED
  BY <1>1, <1>2, <1>3, <1>4, <1>5 DEF Pending, Held

\* A worker that turns to j.
LEMMA WorkerFacts ==
  ASSUME TypeOK, NEW w \in Worker, NEW j \in Job, job' = [job EXCEPT ![w] = j]
  PROVE  /\ job' \in [Worker -> Job]
         /\ (Busy(w) /\ j.pc # "get") => BusyWorkers' = BusyWorkers
         /\ (~ Busy(w) /\ j.pc = "get") => BusyWorkers' = BusyWorkers
         /\ (Busy(w) /\ j.pc = "get") =>
               /\ BusyWorkers' \subseteq BusyWorkers
               /\ Cardinality(BusyWorkers') = Cardinality(BusyWorkers) - 1
         /\ (~ Busy(w) /\ j.pc # "get") =>
               /\ BusyWorkers' = BusyWorkers \cup {w}
               /\ Cardinality(BusyWorkers') = Cardinality(BusyWorkers) + 1
<1>1. job \in [Worker -> Job]
  BY DEF TypeOK
<1>2. job' \in [Worker -> Job] /\ job'[w] = j
  BY <1>1
<1>3. \A v \in Worker \ {w} : job'[v] = job[v]
  BY <1>1
<1>4. BusyWorkers' = {v \in Worker : job'[v].pc # "get"}
  BY DEF BusyWorkers, Busy
<1>5. BusyWorkers = {v \in Worker : job[v].pc # "get"}
  BY DEF BusyWorkers, Busy
<1>6. Busy(w) <=> w \in BusyWorkers
  BY DEF BusyWorkers
<1>7. j.pc # "get" => BusyWorkers' = BusyWorkers \cup {w}
  BY <1>2, <1>3, <1>4, <1>5
<1>8. j.pc = "get" => BusyWorkers' = BusyWorkers \ {w}
  BY <1>2, <1>3, <1>4, <1>5
<1>9. /\ w \in BusyWorkers =>
            Cardinality(BusyWorkers \ {w}) = Cardinality(BusyWorkers) - 1
      /\ w \notin BusyWorkers =>
            Cardinality(BusyWorkers \cup {w}) = Cardinality(BusyWorkers) + 1
  BY PendingFacts, FS_AddElement, FS_RemoveElement
<1>10. QED
  BY <1>2, <1>6, <1>7, <1>8, <1>9

\* Counting an outcome settles one error and accepts none.
LEMMA CountFacts ==
  ASSUME TypeOK, NEW outcome \in {"suppressed", "unrouted", "filed", "failed"},
         Count(outcome)
  PROVE  /\ metrics' \in Metrics
         /\ metrics'.accepted = metrics.accepted
         /\ Settled' = Settled + 1
<1>1. metrics \in Metrics
  BY DEF TypeOK
<1>2. CASE outcome = "suppressed"
  BY <1>1, <1>2 DEF Count, Metrics, Settled
<1>3. CASE outcome = "unrouted"
  BY <1>1, <1>3 DEF Count, Metrics, Settled
<1>4. CASE outcome = "filed"
  BY <1>1, <1>4 DEF Count, Metrics, Settled
<1>5. CASE outcome = "failed"
  BY <1>1, <1>5 DEF Count, Metrics, Settled
<1>6. QED
  BY <1>2, <1>3, <1>4, <1>5

\* What is taken from the queue leaves it one shorter.
LEMMA GetFacts ==
  ASSUME TypeOK, NEW w \in Worker, Get(w)
  PROVE  /\ queue' \in Seq(Error)
         /\ Len(queue') = Len(queue) - 1
         /\ Len(queue) > 0
         /\ Head(queue) \in Error
         /\ Known(queue) = Known(queue') + (IF Head(queue) \in Fp THEN 1 ELSE 0)
         /\ Known(queue') \in Nat
<1>1. queue \in Seq(Error) /\ queue # <<>> /\ queue' = Tail(queue)
  BY DEF TypeOK, Get
<1>2. /\ queue' \in Seq(Error) /\ Len(queue') = Len(queue) - 1
      /\ Len(queue) > 0 /\ Head(queue) \in Error
  BY <1>1, HeadTailProperties, EmptySeq
<1>3. Known(queue) = Known(queue') + (IF Head(queue) \in Fp THEN 1 ELSE 0)
  BY <1>1, KnownTail
<1>4. QED
  BY <1>2, <1>3, KnownType

(***************************************************************************)
(* The enrichment cache.                                                   *)
(***************************************************************************)
\* What TypeOK says of the cache.
IsCache(c) == c \in Seq(Routed) /\ IsInjective(c) /\ Len(c) <= CacheSize

\* Moving an entry to the end of the cache loses and doubles none.
LEMMA MovedToEndFacts ==
  ASSUME TypeOK, NEW f \in Range(cache)
  PROVE  IsCache(MovedToEnd(f))
<1> DEFINE at == CHOOSE i \in DOMAIN cache : cache[i] = f
           n == Len(cache)
<1>1. cache \in Seq(Routed) /\ IsInjective(cache) /\ n <= CacheSize
  BY DEF TypeOK
<1>2. n \in Nat /\ DOMAIN cache = 1..n /\ \A i \in 1..n : cache[i] \in Routed
  BY <1>1
<1>3. at \in 1..n /\ cache[at] = f
  BY <1>2 DEF Range
<1>4. \A i, k \in 1..n : cache[i] = cache[k] => i = k
  BY <1>1, <1>2 DEF IsInjective
<1> HIDE DEF at, n
<1>5. MovedToEnd(f) = [i \in 1..n |-> IF i < at THEN cache[i]
                                      ELSE IF i < n THEN cache[i + 1] ELSE f]
  BY <1>2 DEF MovedToEnd, at, n
<1>6. \A i \in 1..n : MovedToEnd(f)[i] \in Routed
  BY <1>2, <1>3, <1>5
<1>7. MovedToEnd(f) \in [1..n -> Routed]
  BY <1>5, <1>6
<1>8. MovedToEnd(f) \in Seq(Routed) /\ Len(MovedToEnd(f)) = n
  BY <1>2, <1>7
<1>9. ASSUME NEW i \in 1..n, NEW k \in 1..n, MovedToEnd(f)[i] = MovedToEnd(f)[k]
      PROVE  i = k
  <2>1. \A x \in 1..n : x < at => MovedToEnd(f)[x] = cache[x]
    BY <1>5
  <2>2. \A x \in 1..n : (x >= at /\ x < n) =>
            MovedToEnd(f)[x] = cache[x + 1] /\ x + 1 \in 1..n /\ x + 1 # at
    BY <1>2, <1>3, <1>5
  <2>3. MovedToEnd(f)[n] = cache[at]
    BY <1>2, <1>3, <1>5
  <2>4. QED
    BY <1>2, <1>3, <1>4, <1>9, <2>1, <2>2, <2>3
<1>10. IsInjective(MovedToEnd(f))
  BY <1>5, <1>9 DEF IsInjective
<1>11. QED
  BY <1>1, <1>8, <1>10 DEF IsCache, n

\* Nor does a new entry, and the cache does not outgrow its bound.
LEMMA CachedFacts ==
  ASSUME TypeOK, NEW f \in Routed
  PROVE  IsCache(Cached(f))
<1> DEFINE longer == IF f \in Range(cache) THEN cache ELSE Append(cache, f)
<1>1. cache \in Seq(Routed) /\ IsInjective(cache) /\ Len(cache) <= CacheSize
  BY DEF TypeOK
<1>2. \A i, k \in 1..Len(cache) : cache[i] = cache[k] => i = k
  BY <1>1 DEF IsInjective
<1>3. longer \in Seq(Routed) /\ Len(longer) <= CacheSize + 1
  BY <1>1, ServiceConstants
<1>4. \A i, k \in 1..Len(longer) : longer[i] = longer[k] => i = k
  <2>1. CASE f \in Range(cache)
    BY <1>2, <2>1
  <2>2. CASE f \notin Range(cache)
    <3>1. \A i \in 1..Len(cache) : cache[i] # f
      BY <1>1, <2>2 DEF Range
    <3>2. /\ Len(longer) = Len(cache) + 1
          /\ longer[Len(cache) + 1] = f
          /\ \A i \in 1..Len(cache) : longer[i] = cache[i]
      BY <1>1, <2>2
    <3>3. QED
      BY <1>1, <1>2, <3>1, <3>2
  <2>3. QED
    BY <2>1, <2>2
<1> HIDE DEF longer
<1>5. Cached(f) = IF Len(longer) > CacheSize THEN Tail(longer) ELSE longer
  BY DEF Cached, longer
<1>6. CASE Len(longer) > CacheSize
  <2>1. longer # <<>> /\ Len(longer) \in Nat
    BY <1>3, <1>6, ServiceConstants
  <2>2. /\ Tail(longer) \in Seq(Routed)
        /\ Len(Tail(longer)) = Len(longer) - 1
        /\ \A i \in 1..Len(Tail(longer)) : Tail(longer)[i] = longer[i + 1]
    BY <1>3, <2>1, HeadTailProperties
  <2>3. \A i, k \in 1..Len(Tail(longer)) :
           Tail(longer)[i] = Tail(longer)[k] => i = k
    BY <1>4, <2>1, <2>2
  <2>4. DOMAIN Tail(longer) = 1..Len(Tail(longer))
    BY <2>2, LenProperties
  <2>5. IsInjective(Tail(longer))
    BY <2>3, <2>4 DEF IsInjective
  <2>6. Len(Tail(longer)) <= CacheSize
    BY <1>3, <2>1, <2>2, ServiceConstants
  <2>7. QED
    BY <1>5, <1>6, <2>2, <2>5, <2>6 DEF IsCache
<1>7. CASE ~ (Len(longer) > CacheSize)
  <2>1. DOMAIN longer = 1..Len(longer) /\ Len(longer) \in Nat
    BY <1>3, LenProperties
  <2>2. IsInjective(longer)
    BY <1>4, <2>1 DEF IsInjective
  <2>3. QED
    BY <1>3, <1>5, <1>7, <2>1, <2>2, ServiceConstants DEF IsCache
<1>8. QED
  BY <1>6, <1>7

(***************************************************************************)
(* The steps, each with its types and its place in the books.              *)
(***************************************************************************)
\* A refused error leaves the queue and is settled at once.
LEMMA SuppressFacts ==
  ASSUME Accounts, NEW w \in Worker, Suppress(w)
  PROVE  TypeOK' /\ Settles
<1>1. TypeOK /\ unfinished = Held
  BY DEF Accounts
<1>2. Get(w) /\ ~ Busy(w) /\ Done(w) /\ Count("suppressed")
  BY DEF Suppress, Get
<1>3. job' \in [Worker -> Job] /\ BusyWorkers' = BusyWorkers
  BY <1>1, <1>2, WorkerFacts, WaitingType DEF Done
<1>4. /\ metrics' \in Metrics /\ metrics'.accepted = metrics.accepted
      /\ Settled' = Settled + 1
  BY <1>1, <1>2, CountFacts
<1>5. /\ queue' \in Seq(Error) /\ Len(queue') = Len(queue) - 1 /\ Len(queue) > 0
      /\ Known(queue) = Known(queue') + 1 /\ Known(queue') \in Nat
  BY <1>1, <1>2, GetFacts DEF Suppress
<1>6. /\ Pending > 0 /\ Pending' = Pending - 1
      /\ Held' = Held - 1 /\ unfinished' = unfinished - 1
  BY <1>1, <1>2, <1>3, <1>5, PendingFacts DEF Pending, Held, Done
<1>7. Settles
  BY <1>4, <1>6 DEF Settles
<1>8. \A v \in BusyWorkers' : job'[v] = job[v]
  BY <1>1, <1>2, <1>3 DEF Done, BusyWorkers, Busy, TypeOK
<1>9. unfinished' \in Nat /\ Len(queue') <= QueueSize
  <2>1. unfinished \in Nat /\ Len(queue) \in Nat /\ Len(queue) <= QueueSize /\ QueueSize \in Nat
    BY <1>1, ServiceConstants DEF TypeOK
  <2>2. Held \in Nat /\ Held >= Len(queue)
    BY <1>1, PendingFacts, <2>1 DEF Held
  <2>3. unfinished' = unfinished - 1 /\ unfinished = Held /\ Len(queue') = Len(queue) - 1
        /\ Len(queue) > 0
    BY <1>1, <1>5, <1>6
  <2>4. QED
    BY <2>1, <2>2, <2>3
<1>10. TypeOK'
  BY <1>1, <1>3, <1>4, <1>5, <1>8, <1>9 DEF TypeOK, Suppress, Spent
<1>11. QED
  BY <1>7, <1>10

\* One without a fingerprint leaves it, too, and is not counted.
LEMMA UnhandledFacts ==
  ASSUME Accounts, NEW w \in Worker, Unhandled(w)
  PROVE  TypeOK' /\ Discards
<1>1. TypeOK /\ unfinished = Held
  BY DEF Accounts
<1>2. Get(w) /\ ~ Busy(w) /\ Done(w) /\ Head(queue) \notin Fp
  BY ServiceConstants DEF Unhandled, Get
<1>3. job' \in [Worker -> Job] /\ BusyWorkers' = BusyWorkers
  BY <1>1, <1>2, WorkerFacts, WaitingType DEF Done
<1>4. /\ queue' \in Seq(Error) /\ Len(queue') = Len(queue) - 1 /\ Len(queue) > 0
      /\ Known(queue) = Known(queue') /\ Known(queue') \in Nat
  BY <1>1, <1>2, GetFacts
<1>5. /\ Pending' = Pending
      /\ Held' = Held - 1 /\ unfinished' = unfinished - 1
  BY <1>1, <1>2, <1>3, <1>4, PendingFacts DEF Pending, Held, Done
<1>6. Discards
  BY <1>5 DEF Discards, Unhandled, Settled
<1>7. \A v \in BusyWorkers' : job'[v] = job[v]
  BY <1>1, <1>2, <1>3 DEF Done, BusyWorkers, Busy, TypeOK
<1>8. unfinished' \in Nat /\ Len(queue') <= QueueSize
  <2>1. unfinished \in Nat /\ Len(queue) \in Nat /\ Len(queue) <= QueueSize /\ QueueSize \in Nat
    BY <1>1, ServiceConstants DEF TypeOK
  <2>2. Held \in Nat /\ Held >= Len(queue)
    BY <1>1, PendingFacts, <2>1 DEF Held
  <2>3. unfinished' = unfinished - 1 /\ unfinished = Held /\ Len(queue') = Len(queue) - 1
        /\ Len(queue) > 0
    BY <1>1, <1>4, <1>5
  <2>4. QED
    BY <2>1, <2>2, <2>3
<1>9. TypeOK'
  BY <1>1, <1>3, <1>4, <1>7, <1>8 DEF TypeOK, Unhandled, Metrics, Spent
<1>10. QED
  BY <1>6, <1>9

\* The same for an error without a repository, which is counted.
LEMMA DropFacts ==
  ASSUME Accounts, NEW w \in Worker, DropUnrouted(w)
  PROVE  TypeOK' /\ Settles
<1>1. TypeOK /\ unfinished = Held
  BY DEF Accounts
<1>2. Get(w) /\ ~ Busy(w) /\ Done(w) /\ Count("unrouted")
  BY DEF DropUnrouted, Get
<1>3. job' \in [Worker -> Job] /\ BusyWorkers' = BusyWorkers
  BY <1>1, <1>2, WorkerFacts, WaitingType DEF Done
<1>4. /\ metrics' \in Metrics /\ metrics'.accepted = metrics.accepted
      /\ Settled' = Settled + 1
  BY <1>1, <1>2, CountFacts
<1>5. /\ queue' \in Seq(Error) /\ Len(queue') = Len(queue) - 1 /\ Len(queue) > 0
      /\ Known(queue) = Known(queue') + 1 /\ Known(queue') \in Nat
      /\ Head(queue) \in Fp
  BY <1>1, <1>2, GetFacts DEF DropUnrouted
<1>6. /\ Pending > 0 /\ Pending' = Pending - 1
      /\ Held' = Held - 1 /\ unfinished' = unfinished - 1
  BY <1>1, <1>2, <1>3, <1>5, PendingFacts DEF Pending, Held, Done
<1>7. Settles
  BY <1>4, <1>6 DEF Settles
<1>8. \A v \in BusyWorkers' : job'[v] = job[v]
  BY <1>1, <1>2, <1>3 DEF Done, BusyWorkers, Busy, TypeOK
<1>9. unfinished' \in Nat /\ Len(queue') <= QueueSize
  BY <1>1, <1>5, <1>6, PendingFacts, ServiceConstants, SMTT(30) DEF TypeOK, Held
<1>10. held' \subseteq Fp
  BY <1>1, <1>5 DEF DropUnrouted, TypeOK
<1>11. TypeOK'
  BY <1>1, <1>3, <1>4, <1>5, <1>8, <1>9, <1>10 DEF TypeOK, DropUnrouted, Spent
<1>12. QED
  BY <1>7, <1>11

\* An error that is taken to be filed moves from the queue to its worker.
LEMMA StartFilingFacts ==
  ASSUME Accounts, NEW w \in Worker, StartFiling(w)
  PROVE  TypeOK' /\ Same
<1> DEFINE f == Head(queue)
           j == [pc |-> IF f \in Range(cache) THEN "deliver" ELSE "enrich", fp |-> f]
<1>1. TypeOK /\ unfinished = Held
  BY DEF Accounts
<1>2. Get(w) /\ ~ Busy(w) /\ job' = [job EXCEPT ![w] = j]
  BY DEF StartFiling, Get
<1>3. /\ queue' \in Seq(Error) /\ Len(queue') = Len(queue) - 1 /\ Len(queue) > 0
      /\ Known(queue) = Known(queue') + 1 /\ Known(queue') \in Nat
      /\ f \in Fp
  <2>1. f \in Fp
    BY ServiceConstants DEF StartFiling
  <2>2. QED
    BY <1>1, <1>2, <2>1, GetFacts
<1>4. j \in Job /\ j.pc # "get" /\ j.fp = f /\ f \in Routed
  BY <1>3 DEF Job, StartFiling
<1> HIDE DEF j
<1>5. /\ job' \in [Worker -> Job]
      /\ BusyWorkers' = BusyWorkers \cup {w}
      /\ Cardinality(BusyWorkers') = Cardinality(BusyWorkers) + 1
  BY <1>1, <1>2, <1>4, WorkerFacts
<1>6. Pending' = Pending /\ Held' = Held
  BY <1>1, <1>3, <1>5, PendingFacts DEF Pending, Held
<1>7. Same
  BY <1>6 DEF Same, StartFiling, Settled
<1>8. \A v \in BusyWorkers' : job'[v].fp \in Routed
  BY <1>1, <1>2, <1>4, <1>5 DEF TypeOK, BusyWorkers
<1>9. IsCache(cache')
  BY <1>1, MovedToEndFacts DEF StartFiling, IsCache, TypeOK
<1>10. held' \subseteq Fp /\ Len(queue') <= QueueSize
  BY <1>1, <1>3, ServiceConstants DEF StartFiling, TypeOK
<1>11. TypeOK'
  BY <1>1, <1>3, <1>5, <1>8, <1>9, <1>10 DEF TypeOK, StartFiling, IsCache, Metrics, Spent
<1>12. QED
  BY <1>7, <1>11

\* The model's answer moves nothing in the books.
LEMMA EnrichedFacts ==
  ASSUME Accounts, NEW w \in Worker, Enriched(w)
  PROVE  TypeOK' /\ Same
<1> DEFINE j == [job[w] EXCEPT !.pc = "deliver"]
<1>1. TypeOK /\ job[w] \in Job
  BY DEF Accounts, TypeOK
<1>2. Busy(w) /\ w \in BusyWorkers /\ job[w].fp \in Routed
  BY <1>1 DEF Enriched, Busy, BusyWorkers, TypeOK
<1>3. j \in Job /\ j.pc # "get" /\ j.fp = job[w].fp
  BY <1>1 DEF Job
<1>4. job' = [job EXCEPT ![w] = j]
  BY DEF Enriched
<1> HIDE DEF j
<1>5. job' \in [Worker -> Job] /\ BusyWorkers' = BusyWorkers
  BY <1>1, <1>2, <1>3, <1>4, WorkerFacts
<1>6. Same
  BY <1>5 DEF Same, Enriched, Pending, Held, Settled
<1>7. \A v \in BusyWorkers' : job'[v].fp \in Routed
  BY <1>1, <1>2, <1>3, <1>4, <1>5 DEF TypeOK, BusyWorkers
<1>8. IsCache(cache')
  BY <1>1, <1>2, CachedFacts DEF Enriched, IsCache, TypeOK
<1>9. TypeOK'
  BY <1>1, <1>5, <1>7, <1>8 DEF TypeOK, Enriched, IsCache, Metrics, Spent
<1>10. QED
  BY <1>6, <1>9

\* A delivery, whatever its outcome, settles the error its worker has in hand.
LEMMA DeliverFacts ==
  ASSUME Accounts, NEW w \in Worker, NEW outcome \in {"filed", "failed"},
         Deliver(w, outcome)
  PROVE  TypeOK' /\ Settles
<1>1. TypeOK /\ unfinished = Held
  BY DEF Accounts
<1>2. Busy(w) /\ Done(w) /\ Count(outcome)
  BY DEF Deliver, Busy
<1>3. /\ job' \in [Worker -> Job]
      /\ BusyWorkers' \subseteq BusyWorkers
      /\ Cardinality(BusyWorkers') = Cardinality(BusyWorkers) - 1
  BY <1>1, <1>2, WorkerFacts, WaitingType DEF Done
<1>4. /\ metrics' \in Metrics /\ metrics'.accepted = metrics.accepted
      /\ Settled' = Settled + 1
  BY <1>1, <1>2, CountFacts
<1>5. w \in BusyWorkers
  BY <1>2 DEF BusyWorkers
<1>6. Cardinality(BusyWorkers) > 0
  BY <1>1, <1>5, PendingFacts, FS_EmptySet
<1>7. /\ Pending > 0 /\ Pending' = Pending - 1
      /\ Held' = Held - 1 /\ unfinished' = unfinished - 1
  BY <1>1, <1>2, <1>3, <1>6, PendingFacts DEF Pending, Held, Done, Deliver
<1>8. Settles
  BY <1>4, <1>7 DEF Settles
<1>9. \A v \in BusyWorkers' : job'[v].fp \in Routed
  <2>1. \A v \in Worker \ {w} : job'[v] = job[v]
    BY <1>1, <1>2 DEF Done, TypeOK
  <2>2. job'[w].pc = "get"
    BY <1>1, <1>2, WaitingType DEF Done, TypeOK
  <2>3. w \notin BusyWorkers'
    BY <2>2 DEF BusyWorkers, Busy
  <2>4. QED
    BY <1>1, <1>3, <2>1, <2>3 DEF TypeOK, BusyWorkers
<1>10. unfinished' \in Nat
  BY <1>1, <1>6, <1>7, PendingFacts DEF Held
<1>11. TypeOK'
  BY <1>1, <1>3, <1>4, <1>9, <1>10 DEF TypeOK, Deliver, Spent
<1>12. QED
  BY <1>8, <1>11

\* What is left of an export after its answer, whichever way it went.
LEMMA AnswerFacts ==
  ASSUME TypeOK, NEW answered \in BOOLEAN, Answer(answered)
  PROVE  /\ export \in Batch /\ export.errors \in Seq(Error)
         /\ export' \in Batch \cup {NoExport}
         /\ spent' \in Spent
<1>1. export \in Batch
  BY DEF TypeOK, Answer
<1>2. export.errors \in Seq(Error)
  BY <1>1, ServiceConstants
<1>3. export' \in Batch \cup {NoExport}
  BY <1>1 DEF Answer
<1>4. spent \in Spent /\ spent.repeats \in 0..MaxRepeats
  BY DEF TypeOK, Spent
<1>5. CASE answered
  <2>1. spent' = [spent EXCEPT !.repeats = spent.repeats]
    BY <1>5 DEF Answer
  <2>2. QED
    BY <1>1, <1>2, <1>3, <1>4, <2>1 DEF Spent
<1>6. CASE ~ answered
  <2>1. spent' = [spent EXCEPT !.repeats = spent.repeats + 1]
    BY <1>6 DEF Answer
  <2>2. spent.repeats + 1 \in 0..MaxRepeats
    BY <1>4, <1>6, ServiceConstants DEF Answer
  <2>3. QED
    BY <1>1, <1>2, <1>3, <1>4, <2>1, <2>2 DEF Spent
<1>7. QED
  BY <1>5, <1>6

\* A refused export leaves the books alone.
LEMMA RefuseFacts ==
  ASSUME Accounts, NEW answered \in BOOLEAN, Refuse(answered)
  PROVE  TypeOK' /\ Same
<1>1. TypeOK /\ Answer(answered)
  BY DEF Accounts, Refuse
<1>2. export' \in Batch \cup {NoExport} /\ spent' \in Spent
  BY <1>1, AnswerFacts
<1>3. metrics' \in Metrics /\ Settled' = Settled /\ metrics'.accepted = metrics.accepted
  BY <1>1, SMTT(30) DEF TypeOK, Refuse, Metrics, Settled
<1>4. BusyWorkers' = BusyWorkers
  BY DEF Refuse, BusyWorkers, Busy
<1>5. Same
  BY <1>3, <1>4 DEF Same, Refuse, Pending, Held
<1>6. TypeOK'
  BY <1>1, <1>2, <1>3, <1>4 DEF TypeOK, Refuse
<1>7. QED
  BY <1>5, <1>6

\* What fits of an export: the queue does not outgrow its bound.
LEMMA FitsFacts ==
  ASSUME TypeOK, NEW errors \in Seq(Error)
  PROVE  /\ Fits(errors) \in Nat
         /\ Fits(errors) <= Len(errors)
         /\ Len(queue) + Fits(errors) <= QueueSize
  BY ServiceConstants DEF TypeOK, Fits

\* What fits of an export is taken.
LEMMA ReceiveFacts ==
  ASSUME Accounts, NEW answered \in BOOLEAN, Receive(answered)
  PROVE  TypeOK' /\ \E m \in Nat : Takes(Fits(export.errors), m)
<1> DEFINE n == Fits(export.errors)
           taken == SubSeq(export.errors, 1, n)
           shed == Len(export.errors) - n
           m == Known(taken)
<1>1. TypeOK /\ unfinished = Held /\ Answer(answered)
  BY DEF Accounts, Receive
<1>2. /\ export.errors \in Seq(Error)
      /\ export' \in Batch \cup {NoExport} /\ spent' \in Spent
  BY <1>1, AnswerFacts
<1>3. /\ n \in Nat /\ n <= Len(export.errors) /\ Len(queue) + n <= QueueSize
      /\ shed \in Nat
  BY <1>1, <1>2, FitsFacts
<1>4. /\ queue' = queue \o taken /\ unfinished' = unfinished + n
      /\ metrics' = [metrics EXCEPT !.accepted = @ + m, !.shed = @ + shed]
  BY DEF Receive
<1>5. taken \in Seq(Error) /\ Len(taken) = n /\ m \in Nat
  <2>1. \A i \in 1..n : export.errors[i] \in Error
    BY <1>2, <1>3
  <2>2. taken \in Seq(Error) /\ Len(taken) = n
    BY <1>3, <2>1, SubSeqProperties
  <2>3. QED
    BY <2>2, KnownType
<1>6. /\ queue' \in Seq(Error) /\ Len(queue') = Len(queue) + n
      /\ Known(queue') = Known(queue) + m
  <2>1. queue \in Seq(Error)
    BY <1>1 DEF TypeOK
  <2> HIDE DEF n, taken
  <2>2. queue' \in Seq(Error) /\ Len(queue') = Len(queue) + n
    BY <1>4, <1>5, <2>1, ConcatProperties
  <2>3. QED
    BY <1>4, <1>5, <2>1, <2>2, KnownJoin
<1> HIDE DEF n, taken, shed, m
<1>7. /\ metrics' \in Metrics /\ Settled' = Settled
      /\ metrics'.accepted = metrics.accepted + m
  <2>1. metrics \in Metrics
    BY <1>1 DEF TypeOK
  <2>2. metrics' = [metrics EXCEPT !.accepted = metrics.accepted + m,
                                   !.shed = metrics.shed + shed]
    BY <1>4
  <2>3. metrics.accepted + m \in Nat /\ metrics.shed + shed \in Nat
    BY <1>3, <1>5, <2>1 DEF Metrics
  <2>4. QED
    BY <2>1, <2>2, <2>3 DEF Metrics, Settled
<1>8. BusyWorkers' = BusyWorkers
  BY DEF Receive, BusyWorkers, Busy
<1>9. Pending' = Pending + m /\ Held' = Held + n
  BY <1>1, <1>3, <1>5, <1>6, <1>8, PendingFacts DEF Pending, Held
<1>10. Takes(n, m)
  BY <1>4, <1>7, <1>9 DEF Takes
<1>11. unfinished' \in Nat /\ Len(queue') <= QueueSize
  BY <1>1, <1>3, <1>4, <1>6 DEF TypeOK
<1>12. TypeOK'
  BY <1>1, <1>2, <1>6, <1>7, <1>8, <1>11 DEF TypeOK, Receive
<1>13. QED
  BY <1>5, <1>10, <1>12 DEF n

\* The collector's next export is not in the books yet.
LEMMA ExportFacts ==
  ASSUME Accounts, NEW batch \in Batch, Export(batch)
  PROVE  TypeOK' /\ Same
<1>1. TypeOK
  BY DEF Accounts
<1>2. BusyWorkers' = BusyWorkers
  BY DEF Export, process, BusyWorkers, Busy
<1>3. Same
  BY <1>2 DEF Same, Export, process, Pending, Held, Settled
<1>4. Len(batch.errors) \in Nat
  BY ServiceConstants
<1>5. spent.errors + Len(batch.errors) \in 0..MaxErrors
  BY <1>1, <1>4, ServiceConstants DEF Export, TypeOK, Spent
<1>6. spent' \in Spent
  BY <1>1, <1>5 DEF Export, TypeOK, Spent
<1>7. TypeOK'
  BY <1>1, <1>2, <1>6 DEF TypeOK, Export, process
<1>8. QED
  BY <1>3, <1>7

\* The steps that move neither errors nor counters.
LEMMA QuietFacts ==
  ASSUME Accounts,
         \/ UNCHANGED vars
         \/ \E f \in Fp : WindowEnds(f)
         \/ Start
         \/ BeginStop
  PROVE  TypeOK' /\ Same
<1>1. TypeOK
  BY DEF Accounts
<1>2. /\ UNCHANGED <<queue, unfinished, job, cache, metrics, export, missed>>
      /\ held' \subseteq Fp
      /\ phase' \in {"down", "running", "draining"}
  BY <1>1 DEF TypeOK, vars, process, WindowEnds, Start, BeginStop
<1>3. spent' \in Spent
  <2>1. CASE Start
    <3>1. spent.starts + 1 \in 0..MaxStarts
      BY <1>1, <2>1, ServiceConstants DEF Start, TypeOK, Spent
    <3>2. QED
      BY <1>1, <2>1, <3>1 DEF Start, TypeOK, Spent
  <2>2. CASE spent' = spent
    BY <1>1, <2>2 DEF TypeOK
  <2>3. QED
    BY <2>1, <2>2 DEF vars, WindowEnds, BeginStop
<1>4. BusyWorkers' = BusyWorkers
  BY <1>2 DEF BusyWorkers, Busy
<1>5. Same
  BY <1>2, <1>4 DEF Same, Pending, Held, Settled
<1>6. TypeOK'
  BY <1>1, <1>2, <1>3, <1>4 DEF TypeOK
<1>7. QED
  BY <1>5, <1>6

\* A new process begins with empty books.
LEMMA EmptyFacts ==
  ASSUME Empty, missed' \in Nat, phase' \in {"down", "running", "draining"},
         export' \in Batch \cup {NoExport}, spent' \in Spent
  PROVE  TypeOK' /\ Closes
<1>1. job' \in [Worker -> Job] /\ \A w \in Worker : job'[w].pc = "get"
  BY WaitingType DEF Empty
<1>2. BusyWorkers' = {}
  BY <1>1 DEF BusyWorkers, Busy
<1>3. Pending' = 0 /\ Held' = 0
  <2>1. queue' = <<>> /\ Cardinality(BusyWorkers') = 0
    BY <1>2, FS_EmptySet DEF Empty
  <2>2. Known(queue') = 0 /\ Len(queue') = 0
    BY <2>1, KnownNone
  <2>3. QED
    BY <2>1, <2>2 DEF Pending, Held
<1>4. metrics' \in Metrics /\ Settled' = 0 /\ metrics'.accepted = 0
  BY DEF Empty, NoMetrics, Metrics, Settled
<1>5. IsInjective(cache') /\ cache' \in Seq(Routed) /\ Len(cache') <= CacheSize
  BY ServiceConstants DEF Empty, IsInjective
<1>6. queue' \in Seq(Error) /\ Len(queue') <= QueueSize
  BY ServiceConstants DEF Empty
<1>7. QED
  BY <1>1, <1>2, <1>3, <1>4, <1>5, <1>6 DEF TypeOK, Closes, Empty

\* The end of a process, clean or not, closes the books.
LEMMA ExitFacts ==
  ASSUME Accounts, Joined \/ DrainTimesOut \/ Crash
  PROVE  TypeOK' /\ Closes /\ Exit
<1>1. TypeOK /\ Pending \in Nat
  BY PendingFacts DEF Accounts
<1>2. Exit /\ export' = export
  BY DEF Joined, DrainTimesOut, Crash
<1>3. spent' \in Spent
  <2>1. CASE Crash
    <3>1. spent.crashes + 1 \in 0..MaxCrashes
      BY <1>1, <2>1, ServiceConstants DEF Crash, TypeOK, Spent
    <3>2. QED
      BY <1>1, <2>1, <3>1 DEF Crash, TypeOK, Spent
  <2>2. CASE spent' = spent
    BY <1>1, <2>2 DEF TypeOK
  <2>3. QED
    BY <2>1, <2>2 DEF Joined, DrainTimesOut
<1>4. missed' \in Nat /\ Empty /\ phase' = "down"
  BY <1>1, <1>2 DEF Exit, TypeOK
<1>5. export' \in Batch \cup {NoExport}
  BY <1>1, <1>2 DEF TypeOK
<1>6. QED
  BY <1>2, <1>3, <1>4, <1>5, EmptyFacts

(***************************************************************************)
(* The books agree for ever.                                               *)
(***************************************************************************)
\* Whichever kind a step is of, the books still agree after it.
LEMMA BooksAgree ==
  ASSUME Accounts, TypeOK',
         Same \/ Settles \/ Discards \/ Closes \/ \E n, m \in Nat : Takes(n, m)
  PROVE  Accounts'
<1>1. /\ Pending \in Nat /\ Settled \in Nat /\ metrics.accepted \in Nat
      /\ unfinished = Held /\ Held \in Nat /\ metrics.accepted = Pending + Settled
  BY PendingFacts DEF Accounts, TypeOK, Metrics, EveryErrorAccounted
<1>2. unfinished' = Held' /\ metrics'.accepted = Pending' + Settled'
  BY <1>1 DEF Same, Settles, Discards, Closes, Takes
<1>3. QED
  BY <1>2 DEF Accounts, EveryErrorAccounted

\* The books agree before the first start.
LEMMA AccountsInit == Init => Accounts
<1> SUFFICES ASSUME Init PROVE Accounts
  OBVIOUS
<1>1. job \in [Worker -> Job] /\ \A w \in Worker : job[w].pc = "get"
  BY WaitingType DEF Init
<1>2. BusyWorkers = {}
  BY <1>1 DEF BusyWorkers, Busy
<1>3. Pending = 0 /\ Held = 0
  <2>1. queue = <<>> /\ Cardinality(BusyWorkers) = 0
    BY <1>2, FS_EmptySet DEF Init
  <2>2. Known(queue) = 0 /\ Len(queue) = 0
    BY <2>1, KnownNone
  <2>3. QED
    BY <2>1, <2>2 DEF Pending, Held
<1>4. metrics \in Metrics /\ Settled = 0 /\ metrics.accepted = 0
  BY DEF Init, NoMetrics, Metrics, Settled
<1>5. IsInjective(cache) /\ cache \in Seq(Routed) /\ Len(cache) <= CacheSize
  BY ServiceConstants DEF Init, IsInjective
<1>6. queue \in Seq(Error) /\ Len(queue) <= QueueSize /\ spent \in Spent
  BY ServiceConstants DEF Init, Spent
<1>7. TypeOK
  BY <1>1, <1>2, <1>4, <1>5, <1>6 DEF TypeOK, Init
<1>8. QED
  BY <1>3, <1>4, <1>7 DEF Accounts, EveryErrorAccounted, Init

\* Every step is one of these kinds.
LEMMA StepKinds ==
  ASSUME Accounts, [Next]_vars
  PROVE  /\ TypeOK'
         /\ \/ Same
            \/ \E w \in Worker : Handle(w) /\ (Settles \/ Discards)
            \/ \E answered \in BOOLEAN : Receive(answered) /\ \E n, m \in Nat : Takes(n, m)
            \/ (Joined \/ DrainTimesOut \/ Crash) /\ Exit /\ Closes
<1>1. ASSUME NEW answered \in BOOLEAN, Receive(answered)
      PROVE  TypeOK' /\ \E n, m \in Nat : Takes(n, m)
  <2>1. TypeOK /\ Answer(answered)
    BY <1>1 DEF Accounts, Receive
  <2>2. Fits(export.errors) \in Nat
    BY <2>1, AnswerFacts, FitsFacts
  <2>3. QED
    BY <1>1, <2>2, ReceiveFacts
<1>2. ASSUME NEW w \in Worker, Handle(w)
      PROVE  TypeOK' /\ (Same \/ Settles \/ Discards)
  BY <1>2, UnhandledFacts, SuppressFacts, DropFacts, StartFilingFacts, EnrichedFacts, DeliverFacts
     DEF Handle
<1>3. CASE Joined \/ DrainTimesOut \/ Crash
  BY <1>3, ExitFacts
<1>4. CASE UNCHANGED vars \/ (\E f \in Fp : WindowEnds(f)) \/ Start \/ BeginStop \/ Quiet
  BY <1>4, QuietFacts DEF Quiet
<1>5. ASSUME NEW batch \in Batch, Export(batch)
      PROVE  TypeOK' /\ Same
  BY <1>5, ExportFacts
<1>6. ASSUME NEW answered \in BOOLEAN, Refuse(answered)
      PROVE  TypeOK' /\ Same
  BY <1>6, RefuseFacts
<1>7. QED
  BY <1>1, <1>2, <1>3, <1>4, <1>5, <1>6 DEF Next

\* No step makes them disagree.
LEMMA AccountsStep ==
  ASSUME Accounts, [Next]_vars
  PROVE  Accounts'
  BY StepKinds, BooksAgree

(***************************************************************************)
(* The ledger.                                                             *)
(***************************************************************************)
\* The ledger begins as the service does.
LEMMA LedgerInit == Init => Ledger!Init
<1> SUFFICES ASSUME Init PROVE Ledger!Init
  OBVIOUS
<1>1. Accounts /\ Settled = 0 /\ metrics.accepted = 0
  BY AccountsInit DEF Init, NoMetrics, Settled
<1>2. Pending = 0
  BY <1>1, PendingFacts DEF Accounts, EveryErrorAccounted
<1>3. QED
  BY <1>1, <1>2 DEF Init, Ledger!Init

\* Each step of the service is a step of the ledger or invisible there.
LEMMA LedgerStep ==
  ASSUME Accounts, [Next]_vars
  PROVE  [Ledger!Next]_Ledger!vars
<1>1. Pending \in Nat /\ metrics.accepted \in Nat
  BY PendingFacts DEF Accounts, TypeOK, Metrics
<1>2. CASE Same
  <2>1. CASE Start
    BY <1>2, <2>1 DEF Same, Start, Ledger!Next, Ledger!Start
  <2>2. CASE ~ Start /\ (phase' # "down") = (phase # "down") /\ missed' = missed
    BY <1>2, <2>2 DEF Same, Ledger!vars
  <2>3. CASE Joined \/ DrainTimesOut \/ Crash
    BY <1>1, <1>2, <2>3, ExitFacts
       DEF Same, Joined, DrainTimesOut, Crash, Exit, Up, Closes, Ledger!Next, Ledger!Exit
  <2>4. Start \/ Joined \/ DrainTimesOut \/ Crash
          \/ (phase' = phase /\ missed' = missed) \/ BeginStop
    BY DEF Next, vars, process, Export, Receive, Refuse, Handle, Unhandled, Suppress,
           DropUnrouted, StartFiling, Enriched, Deliver, WindowEnds, Quiet
  <2>5. QED
    BY <2>1, <2>2, <2>3, <2>4 DEF BeginStop
<1>3. ASSUME NEW w \in Worker, Handle(w), Settles \/ Discards
      PROVE  [Ledger!Next]_Ledger!vars
  <2>1. Up /\ phase' = phase /\ missed' = missed
    BY <1>3 DEF Handle, Unhandled, Suppress, DropUnrouted, StartFiling, Enriched, Deliver,
           Get
  <2>2. QED
    BY <1>3, <2>1 DEF Up, Settles, Discards, Ledger!Next, Ledger!Settle, Ledger!vars
<1>4. ASSUME NEW answered \in BOOLEAN, Receive(answered), NEW n \in Nat, NEW m \in Nat,
             Takes(n, m)
      PROVE  [Ledger!Next]_Ledger!vars
  <2>1. phase = "running" /\ phase' = phase /\ missed' = missed
    BY <1>4 DEF Receive, Answer
  <2>2. CASE m = 0
    BY <1>1, <1>4, <2>1, <2>2 DEF Takes, Ledger!vars
  <2>3. CASE m > 0
    BY <1>1, <1>4, <2>1, <2>3 DEF Takes, Ledger!Next, Ledger!Accept
  <2>4. QED
    BY <2>2, <2>3
<1>5. CASE (Joined \/ DrainTimesOut \/ Crash) /\ Exit /\ Closes
  BY <1>5 DEF Joined, DrainTimesOut, Crash, Up, Exit, Closes, Ledger!Next, Ledger!Exit
<1>6. QED
  BY <1>2, <1>3, <1>4, <1>5, StepKinds

(***************************************************************************)
(* The theorems.                                                           *)
(***************************************************************************)
\* The queue and the cache stay within their bounds, the cache lists no
\* fingerprint twice, and a worker only has routed errors in hand.
THEOREM TypeCorrect == Spec => []TypeOK
<1>1. Accounts => TypeOK
  BY DEF Accounts
<1>2. QED
  BY AccountsInit, AccountsStep, <1>1, PTL DEF Spec

\* Each error with a fingerprint that the queue took is waiting, in the hands
\* of a worker, or counted under one outcome, whatever has none.
THEOREM ErrorsAccounted == Spec => []EveryErrorAccounted
<1>1. Accounts => EveryErrorAccounted
  BY DEF Accounts
<1>2. QED
  BY AccountsInit, AccountsStep, <1>1, PTL DEF Spec

\* When queue.join() returns, there is nothing in the queue nor in hand.
LEMMA CleanStop ==
  ASSUME Accounts, [Next]_vars
  PROVE  [(phase = "draining" /\ unfinished = 0 /\ phase' = "down") =>
              queue = <<>> /\ BusyWorkers = {}]_vars
<1> SUFFICES ASSUME unfinished = 0
             PROVE  queue = <<>> /\ BusyWorkers = {}
  OBVIOUS
<1>1. /\ IsFiniteSet(BusyWorkers) /\ Cardinality(BusyWorkers) \in Nat
      /\ Len(queue) \in Nat /\ Held = 0
  BY PendingFacts DEF Accounts
<1>2. Len(queue) = 0 /\ Cardinality(BusyWorkers) = 0
  BY <1>1 DEF Held
<1>3. queue \in Seq(Error)
  BY DEF Accounts, TypeOK
<1>4. QED
  BY <1>1, <1>2, <1>3, EmptySeq, FS_EmptySet

\* A stop that queue.join() did not have to be cut short for leaves nothing in
\* the queue nor in the hands of a worker.
THEOREM StopsClean == Spec => CleanStopLosesNothing
  BY AccountsInit, AccountsStep, CleanStop, PTL DEF Spec, CleanStopLosesNothing

\* The service implements the ledger of errors, but for the promise that it
\* keeps settling: each step of it is a step of the ledger or invisible there.
THEOREM LedgerKept == Spec => Ledger!Safety
  BY AccountsInit, AccountsStep, LedgerInit, LedgerStep, PTL DEF Spec, Ledger!Safety
=============================================================================
