------------------------- MODULE CredentialsProofs -------------------------
(***************************************************************************)
(* Theorems about Credentials, for any number of workers, repositories,    *)
(* installations and attempts (two at least).                              *)
(*                                                                         *)
(* The argument for RevocationCostsFew.  A request is lost when it has     *)
(* used up its refresh, or its attempts.  For the second the network is to *)
(* blame (Troubled); the first kind is counted in advance: a worker is     *)
(* Charged if it has refreshed, or holds a dead token that its refresh     *)
(* would not remove from the cache.  A worker that is not charged and      *)
(* reads a dead token removes it.  So workers become charged only when     *)
(* something is used up for good: a dead token in the cache, one that was  *)
(* being minted, or an id from before the App was installed again (Ahead). *)
(* Account puts the losses and what is still ahead into one sum that no    *)
(* step but a revocation increases.                                        *)
(***************************************************************************)
EXTENDS Credentials, FiniteSetTheorems, TLAPS

(***************************************************************************)
(* The inductive invariants.                                               *)
(***************************************************************************)
Holding == {"minted", "sending", "refused"}

WithId == {"resolved", "minting", "minted", "sending", "refused", "waiting"}

\* A request as the code can have it, when ids up to top were given.
Sound(r, top) ==
    /\ r \in Request
    /\ r.id <= top
    /\ r.pc \in WithId => r.id # None
    /\ r.token # NoToken <=> r.pc \in Holding
    /\ r.pc = "refused" => r.token = "dead"
    /\ r.pc = "waiting" => r.attempt < MaxAttempts
    /\ Fixed => r.pc \notin {"resolving", "resolved"}

Sane ==
    /\ installed \in Id
    /\ ids \in [Repo -> Id \cup {None}] /\ \A p \in Repo : ids[p] <= installed
    /\ tokens \in [Id -> Token] /\ \A i \in Id : tokens[i] # NoToken => i <= installed
    /\ job \in [Worker -> Request] /\ \A w \in Worker : Sound(job[w], installed)
    /\ spent \in [revoked : 0..MaxRevoked, troubles : 0..MaxTroubles]
    /\ lost \in 0..LostCap

\* The repositories that are served a dead token.
Poisoned == {p \in Repo : Serving(p) # None /\ tokens[Serving(p)] = "dead"}

\* The workers that may lose a request without having cleared anything.
Hopeless(r) ==
    \/ r.refreshed
    \/ r.token = "dead" /\ (r.pc = "minted" \/ r.repo \notin Poisoned)

Charged == {w \in Worker : Hopeless(job[w])}

\* The workers that have met with trouble and have not refreshed.
Harassed(r) == ~ r.refreshed /\ (r.attempt > 1 \/ r.pc = "waiting")

Troubled == {w \in Worker : Harassed(job[w])}

\* The workers that are going to cache a dead token, or an id that is out of date.
Overdue(r) ==
    \/ r.pc = "minted" /\ r.token = "dead"
    \/ r.pc = "resolved" /\ r.id # installed

Late == {w \in Worker : Overdue(job[w])}

DeadIds == {i \in Id : tokens[i] = "dead"}

OutOfDate == {p \in Repo : ids[p] \notin {None, installed}}

Ahead == Cardinality(DeadIds) + 2 * Cardinality(Late) + Cardinality(OutOfDate)

Most == installed + 2 * Cardinality(Worker) + Cardinality(Repo)

Account ==
    lost + Cardinality(Charged) + Cardinality(Troubled) + Cardinality(Worker) * Ahead
        <= Cardinality(Worker) * (1 + Most) + spent.troubles

TroublesPaid == Cardinality(Troubled) <= spent.troubles

FewInv == Sane /\ Account /\ TroublesPaid

(***************************************************************************)
(* Types.                                                                  *)
(***************************************************************************)
\* The constants, as numbers and finite sets.
LEMMA Limits ==
  /\ IsFiniteSet(Worker) /\ Cardinality(Worker) \in Nat
  /\ IsFiniteSet(Repo) /\ Cardinality(Repo) \in Nat
  /\ MaxAttempts \in Nat /\ MaxAttempts > 1 /\ MaxInstall \in Nat /\ MaxInstall > 0
  /\ MaxRevoked \in Nat /\ MaxTroubles \in Nat /\ Fixed \in BOOLEAN
  /\ IsFiniteSet(Id) /\ 1 \in Id
<1>1. IsFiniteSet(1..MaxInstall)
  BY CredentialsConstants, FS_Interval
<1>2. Cardinality(Worker) \in Nat /\ Cardinality(Repo) \in Nat
  BY CredentialsConstants, FS_CardinalityType
<1>3. QED
  BY <1>1, <1>2, CredentialsConstants DEF Id

\* What the accounts are calculated with: products distribute, ...
LEMMA Distributes == \A a, b, m \in Int : m * (a + b) = m * a + m * b
  OBVIOUS

\* ... are natural numbers, ...
LEMMA Products == \A a, b \in Nat : a * b \in Nat
  OBVIOUS

\* ... grow with their factors, ...
LEMMA ProductMonotone ==
  ASSUME NEW m \in Nat, NEW a \in Nat, NEW b \in Nat, a <= b
  PROVE  m * a <= m * b
<1>1. b - a \in Nat /\ m * (b - a) \in Nat
  BY Products
<1>2. m * b = m * a + m * (b - a)
  BY Distributes
<1>3. m * a \in Int /\ m * b \in Int
  OBVIOUS
<1>4. QED
  BY <1>1, <1>2, <1>3

\* ... and drop by as much as the other factor when one drops by one.
LEMMA ProductDrops ==
  ASSUME NEW m \in Nat, NEW a \in Nat, NEW b \in Nat, a + 1 <= b
  PROVE  m * a + m <= m * b
<1>1. a + 1 \in Nat /\ m * (a + 1) <= m * b
  BY ProductMonotone
<1>2. m * (a + 1) = m * a + m * 1 /\ m * 1 = m
  BY Distributes
<1>3. QED
  BY <1>1, <1>2

\* The cap of the counter is a number.
LEMMA CapType == LostCap \in Nat
<1> DEFINE a == Cardinality(Worker)
           b == 1 + MaxInstall + 2 * Cardinality(Worker) + Cardinality(Repo)
<1>1. a \in Nat /\ b \in Nat
  BY Limits
<1>2. a * b \in Nat
  <2> HIDE DEF a, b
  <2>1. QED
    BY <1>1, Products
<1>3. LostCap = a * b + MaxTroubles + 1
  BY DEF LostCap
<1> HIDE DEF a, b
<1>4. QED
  BY <1>2, <1>3, Limits

\* The invariant implies the types.
LEMMA SaneTypes == Sane => TypeOK
  BY DEF Sane, TypeOK, Sound, WithId, Holding

\* A worker without a request.
LEMMA IdleFacts ==
  /\ Idle \in Request /\ Idle.pc = "idle" /\ Idle.token = NoToken /\ Idle.attempt = 1
  /\ Idle.refreshed = FALSE /\ Idle.id = None
  /\ \A top \in Nat : Sound(Idle, top)
<1>1. (CHOOSE p \in Repo : TRUE) \in Repo
  BY CredentialsConstants
<1>2. 1 \in 1..MaxAttempts
  BY Limits
<1>3. Idle \in Request
  BY <1>1, <1>2 DEF Idle, Request, Token, NoToken, None
<1>4. /\ Idle.pc = "idle" /\ Idle.token = NoToken /\ Idle.attempt = 1
      /\ Idle.refreshed = FALSE /\ Idle.id = None
  BY DEF Idle
<1>5. QED
  BY <1>3, <1>4 DEF Sound, WithId, Holding, None

\* A worker goes on with another request record.
LEMMA BecomeSane ==
  ASSUME Sane, NEW w \in Worker, NEW r, Sound(r, installed), Become(w, r),
         installed' = installed
  PROVE  job' \in [Worker -> Request] /\ \A u \in Worker : Sound(job'[u], installed')
<1>1. job \in [Worker -> Request] /\ \A u \in Worker : Sound(job[u], installed)
  BY DEF Sane
<1>2. r \in Request
  BY DEF Sound
<1>3. job' = [job EXCEPT ![w] = r]
  BY DEF Become
<1>4. /\ job' \in [Worker -> Request]
      /\ \A u \in Worker : job'[u] = IF u = w THEN r ELSE job[u]
  BY <1>1, <1>2, <1>3
<1>5. QED
  BY <1>1, <1>4

\* The headers of an attempt: with a cached token it is sent, and the
\* repository is served that token.
LEMMA WithTokenFacts ==
  ASSUME Sane, NEW r \in Request, r.token = NoToken, NEW i \in Id, i <= installed,
         NEW n, n = WithToken(r, i)
  PROVE  /\ Sound(n, installed) /\ n.id = i /\ n.repo = r.repo
         /\ n.attempt = r.attempt /\ n.refreshed = r.refreshed
         /\ n.pc \in {"sending", "minting"}
         /\ n.token = tokens[i]
<1>1. i # None /\ tokens[i] \in Token
  BY DEF Id, None, Sane
<1>2. CASE tokens[i] # NoToken
  <2>1. n = [r EXCEPT !.pc = "sending", !.id = i, !.token = tokens[i]]
    BY <1>2 DEF WithToken
  <2>2. /\ n \in Request /\ n.id = i /\ n.repo = r.repo /\ n.attempt = r.attempt
        /\ n.refreshed = r.refreshed /\ n.pc = "sending" /\ n.token = tokens[i]
    BY <1>1, <2>1 DEF Request
  <2>3. QED
    BY <1>1, <1>2, <2>2 DEF Sound, WithId, Holding
<1>3. CASE tokens[i] = NoToken
  <2>1. n = [r EXCEPT !.pc = "minting", !.id = i]
    BY <1>3 DEF WithToken
  <2>2. /\ n \in Request /\ n.id = i /\ n.repo = r.repo /\ n.attempt = r.attempt
        /\ n.refreshed = r.refreshed /\ n.pc = "minting" /\ n.token = NoToken
    BY <1>1, <2>1 DEF Request
  <2>3. QED
    BY <1>1, <1>3, <2>2 DEF Sound, WithId, Holding
<1>4. QED
  BY <1>2, <1>3

\* A new attempt asks, mints or sends; if it sends a dead token, its repository
\* is served that token, so that a refresh would remove it.
LEMMA HeadersFacts ==
  ASSUME Sane, NEW r \in Request, r.token = NoToken, r.id <= installed,
         NEW n, n = Headers(r)
  PROVE  /\ Sound(n, installed) /\ n.repo = r.repo
         /\ n.attempt = r.attempt /\ n.refreshed = r.refreshed
         /\ n.pc \in {"sending", "minting", "resolving"}
         /\ n.token = "dead" => n.repo \in Poisoned
<1>0. installed \in Id /\ r.repo \in Repo /\ 1 \in Id /\ Fixed \in BOOLEAN
  BY Limits DEF Sane, Request
<1>1. CASE Fixed
  <2>1. n = WithToken(r, 1)
    BY <1>1 DEF Headers
  <2>2. 1 <= installed
    BY <1>0 DEF Id
  <2>3. Serving(r.repo) = 1 /\ 1 # None
    BY <1>1 DEF Serving, None
  <2>4. QED
    BY <1>0, <2>1, <2>2, <2>3, WithTokenFacts DEF Poisoned
<1>2. CASE ~ Fixed /\ ids[r.repo] # None
  <2>1. n = WithToken(r, ids[r.repo])
    BY <1>2 DEF Headers
  <2>2. ids[r.repo] \in Id /\ ids[r.repo] <= installed
    BY <1>0, <1>2 DEF Sane
  <2>3. Serving(r.repo) = ids[r.repo]
    BY <1>2 DEF Serving
  <2>4. QED
    BY <1>0, <1>2, <2>1, <2>2, <2>3, WithTokenFacts DEF Poisoned
<1>3. CASE ~ Fixed /\ ids[r.repo] = None
  <2>1. n = [r EXCEPT !.pc = "resolving"]
    BY <1>3 DEF Headers
  <2>2. /\ n \in Request /\ n.id = r.id /\ n.repo = r.repo /\ n.attempt = r.attempt
        /\ n.refreshed = r.refreshed /\ n.pc = "resolving" /\ n.token = NoToken
    BY <2>1 DEF Request
  <2>3. QED
    BY <1>3, <2>2 DEF Sound, WithId, Holding, NoToken
<1>4. QED
  BY <1>0, <1>1, <1>2, <1>3

(***************************************************************************)
(* The steps that change nothing but a worker's request.                   *)
(***************************************************************************)
Counters ==
    /\ lost \in 0..LostCap
    /\ spent \in [revoked : 0..MaxRevoked, troubles : 0..MaxTroubles]

\* Nobody becomes charged or late.
Moves(w, r) ==
    /\ Sound(r, installed) /\ Become(w, r) /\ UNCHANGED <<installed, ids, tokens>>
    /\ Overdue(r) => w \in Late
    /\ Hopeless(r) => w \in Charged

\* No trouble, or another one, or a loss that was counted in advance.
Pays(w, r) ==
    \/ UNCHANGED <<lost, spent>> /\ (Harassed(r) => w \in Troubled)
    \/ lost' = lost /\ spent'.troubles = spent.troubles + 1
    \/ /\ lost' <= lost + 1 /\ spent' = spent
       /\ ~ Hopeless(r) /\ ~ Harassed(r) /\ w \in Charged \cup Troubled

\* The request that is over is owed nothing.
LEMMA IdleIsFree ==
  ~ Hopeless(Idle) /\ ~ Harassed(Idle) /\ ~ Overdue(Idle)
  BY IdleFacts DEF Hopeless, Harassed, Overdue, NoToken

\* A request that is over moves its worker to Idle.
LEMMA Finishes ==
  ASSUME Sane, NEW w \in Worker, Finish(w), UNCHANGED <<installed, ids, tokens>>
  PROVE  Moves(w, Idle)
<1>1. installed \in Nat
  BY Limits DEF Sane, Id
<1>2. QED
  BY <1>1, IdleFacts, IdleIsFree DEF Moves, Finish

\* A new request is not charged: it still has its refresh.
LEMMA BeginMoves ==
  ASSUME Sane, NEW w \in Worker, NEW p \in Repo, Begin(w, p)
  PROVE  \E r : Moves(w, r) /\ Pays(w, r) /\ Counters'
<1> DEFINE fresh == [Idle EXCEPT !.repo = p]
           r == Headers(fresh)
<1>1. /\ fresh \in Request /\ fresh.token = NoToken /\ fresh.id = None
      /\ fresh.attempt = 1 /\ fresh.refreshed = FALSE
  BY IdleFacts DEF Request
<1>2. None <= installed
  BY Limits DEF Sane, Id, None
<1>3. Become(w, r) /\ UNCHANGED <<installed, ids, tokens, spent, lost>>
  BY DEF Begin
<1> HIDE DEF fresh
<1>4. PICK n : n = r
  OBVIOUS
<1>5. /\ Sound(n, installed) /\ n.attempt = 1 /\ n.refreshed = FALSE
      /\ n.pc \in {"sending", "minting", "resolving"}
      /\ n.token = "dead" => n.repo \in Poisoned
  BY <1>1, <1>2, <1>4, HeadersFacts
<1> HIDE DEF r
<1>6. ~ Hopeless(n) /\ ~ Harassed(n) /\ ~ Overdue(n)
  BY <1>5 DEF Hopeless, Harassed, Overdue
<1>7. Counters'
  BY <1>3 DEF Sane, Counters
<1>8. QED
  BY <1>3, <1>4, <1>5, <1>6, <1>7 DEF Moves, Pays

\* A retry is charged if the attempt before it was.
LEMMA RetryMoves ==
  ASSUME Sane, NEW w \in Worker, Retry(w)
  PROVE  \E r : Moves(w, r) /\ Pays(w, r) /\ Counters'
<1> DEFINE j == job[w]
           again == [j EXCEPT !.attempt = @ + 1]
           r == Headers(again)
<1>1. /\ j \in Request /\ j.pc = "waiting" /\ j.token = NoToken /\ j.id <= installed
      /\ j.attempt < MaxAttempts
  BY DEF Sane, Retry, Sound, Holding
<1>2. Become(w, r) /\ UNCHANGED <<installed, ids, tokens, spent, lost>>
  BY DEF Retry
<1>3. j.attempt + 1 \in 1..MaxAttempts
  BY <1>1, Limits DEF Request
<1>4. w \in Charged <=> Hopeless(j)
  BY DEF Charged
<1>5. w \in Troubled <=> ~ j.refreshed
  BY <1>1 DEF Troubled, Harassed
<1> HIDE DEF j
<1>6. /\ again \in Request /\ again.token = NoToken /\ again.id = j.id
      /\ again.repo = j.repo /\ again.refreshed = j.refreshed
  BY <1>1, <1>3 DEF Request
<1> HIDE DEF again
<1>7. PICK n : n = r
  OBVIOUS
<1>8. /\ Sound(n, installed) /\ n.refreshed = j.refreshed
      /\ n.pc \in {"sending", "minting", "resolving"}
      /\ n.token = "dead" => n.repo \in Poisoned
  BY <1>1, <1>6, <1>7, HeadersFacts
<1> HIDE DEF r
<1>9. /\ Hopeless(n) => w \in Charged
      /\ Harassed(n) => w \in Troubled
      /\ ~ Overdue(n)
  BY <1>4, <1>5, <1>8 DEF Hopeless, Harassed, Overdue
<1>10. Counters'
  BY <1>2 DEF Sane, Counters
<1>11. QED
  BY <1>2, <1>7, <1>8, <1>9, <1>10 DEF Moves, Pays

\* GitHub's answer is up to date when it is given.
LEMMA ResolveMoves ==
  ASSUME Sane, NEW w \in Worker, Resolve(w)
  PROVE  \E r : Moves(w, r) /\ Pays(w, r) /\ Counters'
<1> DEFINE j == job[w]
           r == [j EXCEPT !.pc = "resolved", !.id = installed]
<1>1. /\ j \in Request /\ j.pc = "resolving" /\ j.token = NoToken /\ ~ Fixed
  BY DEF Sane, Resolve, Sound, Holding
<1>2. Become(w, r) /\ UNCHANGED <<installed, ids, tokens, spent, lost>>
  BY DEF Resolve
<1>3. installed \in Id /\ installed # None /\ installed <= installed
  BY DEF Sane, Id, None
<1>4. (w \in Charged <=> Hopeless(j)) /\ (w \in Troubled <=> Harassed(j))
  BY DEF Charged, Troubled
<1> HIDE DEF j
<1>5. /\ r \in Request /\ r.token = NoToken /\ r.id = installed /\ r.pc = "resolved"
      /\ r.repo = j.repo /\ r.refreshed = j.refreshed /\ r.attempt = j.attempt
  BY <1>1, <1>3 DEF Request
<1> HIDE DEF r
<1>6. Sound(r, installed)
  BY <1>1, <1>3, <1>5 DEF Sound, WithId, Holding
<1>7. /\ Hopeless(r) => w \in Charged
      /\ Harassed(r) => w \in Troubled
      /\ ~ Overdue(r)
  BY <1>1, <1>4, <1>5 DEF Hopeless, Harassed, Overdue, NoToken
<1>8. Counters'
  BY <1>2 DEF Sane, Counters
<1>9. QED
  BY <1>2, <1>6, <1>7, <1>8 DEF Moves, Pays

\* A new token is live.
LEMMA MintMoves ==
  ASSUME Sane, NEW w \in Worker, Mint(w)
  PROVE  \E r : Moves(w, r) /\ Pays(w, r) /\ Counters'
<1> DEFINE j == job[w]
           r == [j EXCEPT !.pc = "minted", !.token = "live"]
<1>1. /\ j \in Request /\ j.pc = "minting" /\ j.id # None /\ j.id <= installed
  BY DEF Sane, Mint, Sound, WithId
<1>2. UNCHANGED <<installed, ids, tokens, spent, lost>>
  BY DEF Mint
<1>3. Counters'
  BY <1>2 DEF Sane, Counters
<1>4. CASE j.id = installed
  <2>1. Become(w, r)
    BY <1>4 DEF Mint
  <2>2. (w \in Charged <=> Hopeless(j)) /\ (w \in Troubled <=> Harassed(j))
    BY DEF Charged, Troubled
  <2> HIDE DEF j
  <2>3. /\ r \in Request /\ r.token = "live" /\ r.id = j.id /\ r.pc = "minted"
        /\ r.repo = j.repo /\ r.refreshed = j.refreshed /\ r.attempt = j.attempt
    BY <1>1 DEF Request, Token
  <2> HIDE DEF r
  <2>4. Sound(r, installed)
    BY <1>1, <2>3 DEF Sound, WithId, Holding, NoToken
  <2>5. /\ Hopeless(r) => w \in Charged
        /\ Harassed(r) => w \in Troubled
        /\ ~ Overdue(r)
    BY <1>1, <2>2, <2>3 DEF Hopeless, Harassed, Overdue
  <2>6. QED
    BY <1>2, <1>3, <2>1, <2>4, <2>5 DEF Moves, Pays
<1>5. CASE j.id # installed
  <2>1. Finish(w)
    BY <1>5 DEF Mint
  <2>2. Moves(w, Idle)
    BY <1>2, <2>1, Finishes
  <2>3. QED
    BY <1>2, <1>3, <2>2, IdleIsFree DEF Pays
<1>6. QED
  BY <1>4, <1>5

\* An answered request is over.
LEMMA AnswerMoves ==
  ASSUME Sane, NEW w \in Worker, Answer(w)
  PROVE  \E r : Moves(w, r) /\ Pays(w, r) /\ Counters'
<1>1. UNCHANGED <<installed, ids, tokens, spent, lost>> /\ Finish(w)
  BY DEF Answer
<1>2. Moves(w, Idle)
  BY <1>1, Finishes
<1>3. Counters'
  BY <1>1 DEF Sane, Counters
<1>4. QED
  BY <1>1, <1>2, <1>3, IdleIsFree DEF Pays

\* A 401 tells the worker what its token already was.
LEMMA RefuseMoves ==
  ASSUME Sane, NEW w \in Worker, Refuse(w)
  PROVE  \E r : Moves(w, r) /\ Pays(w, r) /\ Counters'
<1> DEFINE j == job[w]
           r == [j EXCEPT !.pc = "refused"]
<1>1. /\ Sound(j, installed) /\ j \in Request /\ j.pc = "sending" /\ j.token = "dead"
  BY DEF Sane, Refuse, Sound
<1>2. Become(w, r) /\ UNCHANGED <<installed, ids, tokens, spent, lost>>
  BY DEF Refuse
<1>3. (w \in Charged <=> Hopeless(j)) /\ (w \in Troubled <=> Harassed(j))
  BY DEF Charged, Troubled
<1> HIDE DEF j
<1>4. /\ r \in Request /\ r.token = "dead" /\ r.id = j.id /\ r.pc = "refused"
      /\ r.repo = j.repo /\ r.refreshed = j.refreshed /\ r.attempt = j.attempt
  BY <1>1 DEF Request
<1> HIDE DEF r
<1>5. Sound(r, installed)
  BY <1>1, <1>4 DEF Sound, WithId, Holding, NoToken
<1>6. /\ Hopeless(r) => w \in Charged
      /\ Harassed(r) => w \in Troubled
      /\ ~ Overdue(r)
  BY <1>1, <1>3, <1>4 DEF Hopeless, Harassed, Overdue
<1>7. Counters'
  BY <1>2 DEF Sane, Counters
<1>8. QED
  BY <1>2, <1>5, <1>6, <1>7 DEF Moves, Pays

\* A loss was charged in advance, or there was trouble before it.
LEMMA GiveUpMoves ==
  ASSUME Sane, NEW w \in Worker, GiveUp(w)
  PROVE  \E r : Moves(w, r) /\ Pays(w, r) /\ Counters'
<1>1. UNCHANGED <<installed, ids, tokens, spent>> /\ Finish(w)
  BY DEF GiveUp
<1>2. Moves(w, Idle)
  BY <1>1, Finishes
<1>3. lost' \in 0..LostCap /\ lost' <= lost + 1
  BY CapType DEF GiveUp, Sane
<1>4. w \in Charged \cup Troubled
  <2>1. job[w].refreshed \in BOOLEAN /\ job[w].attempt \in 1..MaxAttempts
    BY DEF Sane, Request
  <2>2. job[w].refreshed \/ job[w].attempt >= MaxAttempts
    BY <2>1, Limits DEF GiveUp, MayRefresh
  <2>3. QED
    BY <2>1, <2>2, Limits DEF Charged, Troubled, Hopeless, Harassed
<1>5. Counters'
  BY <1>1, <1>3 DEF Sane, Counters
<1>6. QED
  BY <1>1, <1>2, <1>3, <1>4, <1>5, IdleIsFree DEF Pays

\* Trouble may use up an attempt, and is counted itself.
LEMMA TroubleMoves ==
  ASSUME Sane, NEW w \in Worker, Trouble(w)
  PROVE  \E r : Moves(w, r) /\ Pays(w, r) /\ Counters'
<1> DEFINE j == job[w]
           r == [j EXCEPT !.pc = "waiting", !.token = NoToken]
<1>1. UNCHANGED <<installed, ids, tokens, lost>>
  BY DEF Trouble
<1>2. spent'.troubles = spent.troubles + 1 /\ Counters'
  BY <1>1, Limits DEF Trouble, Sane, Counters
<1>3. Sound(j, installed) /\ j \in Request /\ j.pc = "sending"
  BY DEF Sane, Trouble, Sound
<1>4. CASE j.attempt < MaxAttempts
  <2>1. Become(w, r)
    BY <1>4 DEF Trouble
  <2>2. w \in Charged <=> Hopeless(j)
    BY DEF Charged
  <2> HIDE DEF j
  <2>3. /\ r \in Request /\ r.token = NoToken /\ r.id = j.id /\ r.pc = "waiting"
        /\ r.repo = j.repo /\ r.refreshed = j.refreshed /\ r.attempt = j.attempt
    BY <1>3 DEF Request, Token
  <2> HIDE DEF r
  <2>4. Sound(r, installed)
    BY <1>3, <1>4, <2>3 DEF Sound, WithId, Holding
  <2>5. (Hopeless(r) => w \in Charged) /\ ~ Overdue(r)
    BY <2>2, <2>3 DEF Hopeless, Overdue, NoToken
  <2>6. QED
    BY <1>1, <1>2, <2>1, <2>4, <2>5 DEF Moves, Pays
<1>5. CASE ~ (j.attempt < MaxAttempts)
  <2>1. Finish(w)
    BY <1>5 DEF Trouble
  <2>2. Moves(w, Idle)
    BY <1>1, <2>1, Finishes
  <2>3. QED
    BY <1>1, <1>2, <2>2 DEF Pays
<1>6. QED
  BY <1>4, <1>5

\* Trouble with auth.py's own requests ends the request.
LEMMA AuthTroubleMoves ==
  ASSUME Sane, NEW w \in Worker, AuthTrouble(w)
  PROVE  \E r : Moves(w, r) /\ Pays(w, r) /\ Counters'
<1>1. UNCHANGED <<installed, ids, tokens, lost>> /\ Finish(w)
  BY DEF AuthTrouble
<1>2. spent'.troubles = spent.troubles + 1 /\ Counters'
  BY <1>1, Limits DEF AuthTrouble, Sane, Counters
<1>3. Moves(w, Idle)
  BY <1>1, Finishes
<1>4. QED
  BY <1>1, <1>2, <1>3 DEF Pays

(***************************************************************************)
(* Counting.                                                               *)
(***************************************************************************)
\* Sets of workers can be counted, ...
LEMMA WorkerSet ==
  ASSUME NEW S, S \subseteq Worker
  PROVE  /\ IsFiniteSet(S) /\ Cardinality(S) \in Nat
         /\ Cardinality(S) <= Cardinality(Worker)
  BY Limits, FS_Subset, FS_CardinalityType

\* ... sets of ids ...
LEMMA IdSet ==
  ASSUME NEW S, S \subseteq Id
  PROVE  IsFiniteSet(S) /\ Cardinality(S) \in Nat
  BY Limits, FS_Subset, FS_CardinalityType

\* ... and of repositories.
LEMMA RepoSet ==
  ASSUME NEW S, S \subseteq Repo
  PROVE  /\ IsFiniteSet(S) /\ Cardinality(S) \in Nat
         /\ Cardinality(S) <= Cardinality(Repo)
  BY Limits, FS_Subset, FS_CardinalityType

\* A set is no larger than another that contains it, ...
LEMMA Fewer ==
  ASSUME NEW S, NEW T, IsFiniteSet(T), S \subseteq T
  PROVE  Cardinality(S) <= Cardinality(T)
  BY FS_Subset

\* ... and smaller if something is missing.
LEMMA OneLess ==
  ASSUME NEW S, NEW T, IsFiniteSet(T), NEW x \in T, S \subseteq T \ {x}
  PROVE  Cardinality(S) + 1 <= Cardinality(T)
<1>1. IsFiniteSet(T \ {x}) /\ Cardinality(T \ {x}) = Cardinality(T) - 1
  BY FS_RemoveElement
<1>2. Cardinality(S) <= Cardinality(T \ {x}) /\ IsFiniteSet(S)
  BY <1>1, FS_Subset
<1>3. Cardinality(S) \in Nat /\ Cardinality(T) \in Nat
  BY <1>2, FS_CardinalityType
<1>4. QED
  BY <1>1, <1>2, <1>3

\* One more element makes it larger by one at most.
LEMMA OneMore ==
  ASSUME NEW S, NEW T, IsFiniteSet(T), NEW x, S \subseteq T \cup {x}
  PROVE  Cardinality(S) <= Cardinality(T) + 1
<1>1. IsFiniteSet(T \cup {x})
  BY FS_AddElement
<1>2. Cardinality(T \cup {x}) = Cardinality(T) \/ Cardinality(T \cup {x}) = Cardinality(T) + 1
  BY FS_AddElement, ZenonT(30)
<1>3. Cardinality(S) <= Cardinality(T \cup {x}) /\ IsFiniteSet(S)
  BY <1>1, FS_Subset
<1>4. Cardinality(S) \in Nat /\ Cardinality(T) \in Nat
  BY <1>3, FS_CardinalityType
<1>5. QED
  BY <1>2, <1>3, <1>4

\* The sets in the account can be counted, before a step ...
LEMMA Sizes ==
  /\ Cardinality(Charged) \in Nat /\ Cardinality(Charged) <= Cardinality(Worker)
  /\ Cardinality(Troubled) \in Nat /\ Cardinality(Late) \in Nat
  /\ Cardinality(Late) <= Cardinality(Worker)
  /\ Cardinality(DeadIds) \in Nat /\ Cardinality(OutOfDate) \in Nat
  /\ Cardinality(OutOfDate) <= Cardinality(Repo)
  /\ IsFiniteSet(Charged) /\ IsFiniteSet(Troubled) /\ IsFiniteSet(Late)
  /\ IsFiniteSet(DeadIds) /\ IsFiniteSet(OutOfDate)
  /\ Ahead \in Nat
<1>1. Charged \subseteq Worker /\ Troubled \subseteq Worker /\ Late \subseteq Worker
  BY DEF Charged, Troubled, Late
<1>2. DeadIds \subseteq Id /\ OutOfDate \subseteq Repo
  BY DEF DeadIds, OutOfDate
<1>3. Cardinality(DeadIds) \in Nat /\ Cardinality(Late) \in Nat /\ Cardinality(OutOfDate) \in Nat
  BY <1>1, <1>2, WorkerSet, IdSet, RepoSet
<1>4. Ahead \in Nat
  BY <1>3 DEF Ahead
<1>5. QED
  BY <1>1, <1>2, <1>3, <1>4, WorkerSet, IdSet, RepoSet

\* ... and after it.
LEMMA SizesNext ==
  /\ Cardinality(Charged') \in Nat /\ Cardinality(Charged') <= Cardinality(Worker)
  /\ Cardinality(Troubled') \in Nat /\ Cardinality(Late') \in Nat
  /\ Cardinality(Late') <= Cardinality(Worker)
  /\ Cardinality(DeadIds') \in Nat /\ Cardinality(OutOfDate') \in Nat
  /\ Cardinality(OutOfDate') <= Cardinality(Repo)
  /\ Ahead' \in Nat
  /\ Ahead' = Cardinality(DeadIds') + 2 * Cardinality(Late') + Cardinality(OutOfDate')
<1>1. Charged' \subseteq Worker /\ Troubled' \subseteq Worker /\ Late' \subseteq Worker
  BY DEF Charged, Troubled, Late
<1>2. DeadIds' \subseteq Id /\ OutOfDate' \subseteq Repo
  BY DEF DeadIds, OutOfDate
<1>3. /\ Cardinality(DeadIds') \in Nat /\ Cardinality(Late') \in Nat
      /\ Cardinality(OutOfDate') \in Nat
  BY <1>1, <1>2, WorkerSet, IdSet, RepoSet
<1>4. Ahead' = Cardinality(DeadIds') + 2 * Cardinality(Late') + Cardinality(OutOfDate')
  BY DEF Ahead
<1>5. QED
  BY <1>1, <1>2, <1>3, <1>4, WorkerSet, IdSet, RepoSet

(***************************************************************************)
(* The account.                                                            *)
(***************************************************************************)
\* The limit is a number.
LEMMA MostType ==
  ASSUME Sane
  PROVE  Most \in Nat /\ Cardinality(Worker) * (1 + Most) \in Nat
<1>1. Most \in Nat
  BY Limits DEF Most, Sane, Id
<1>2. 1 + Most \in Nat /\ Cardinality(Worker) \in Nat
  BY <1>1, Limits
<1>3. QED
  BY <1>1, <1>2, Products

\* A step that brings nothing ahead closer keeps the account if losses and
\* charges are only exchanged for one another, or for troubles.
LEMMA AccountKept ==
  ASSUME Sane, Sane', Account, installed' = installed, Ahead' <= Ahead,
         lost' + Cardinality(Charged') + Cardinality(Troubled') + spent.troubles
           <= lost + Cardinality(Charged) + Cardinality(Troubled) + spent'.troubles
  PROVE  Account'
<1> DEFINE n == Cardinality(Worker)
           a == n * Ahead
           b == n * Ahead'
           m == n * (1 + Most)
<1>1. n \in Nat /\ Ahead \in Nat /\ Ahead' \in Nat
  BY Limits, Sizes, SizesNext
<1>2. a \in Nat /\ b \in Nat /\ b <= a
  <2> HIDE DEF n
  <2>1. QED
    BY <1>1, Products, ProductMonotone
<1>3. m \in Nat
  BY MostType
<1>4. lost \in Nat /\ lost' \in Nat /\ spent.troubles \in Nat /\ spent'.troubles \in Nat
  BY CapType, Limits DEF Sane
<1>5. lost + Cardinality(Charged) + Cardinality(Troubled) + a <= m + spent.troubles
  BY DEF Account
<1>6. Account' <=> lost' + Cardinality(Charged') + Cardinality(Troubled') + b <= m + spent'.troubles
  BY DEF Account, Most
<1> HIDE DEF a, b, m, n
<1>7. QED
  BY <1>2, <1>3, <1>4, <1>5, <1>6, Sizes, SizesNext

\* A step that uses up something that was ahead may charge every worker.
LEMMA AccountCleared ==
  ASSUME Sane, Sane', Account, installed' = installed, Ahead' + 1 <= Ahead,
         lost' = lost, spent' = spent, Cardinality(Troubled') <= Cardinality(Troubled)
  PROVE  Account'
<1> DEFINE n == Cardinality(Worker)
           a == n * Ahead
           b == n * Ahead'
           m == n * (1 + Most)
<1>1. n \in Nat /\ Ahead \in Nat /\ Ahead' \in Nat
  BY Limits, Sizes, SizesNext
<1>2. a \in Nat /\ b \in Nat /\ b + n <= a
  <2> HIDE DEF n
  <2>1. n * Ahead' + n <= n * Ahead
    BY <1>1, ProductDrops
  <2>2. n * Ahead' \in Nat /\ n * Ahead \in Nat
    BY <1>1, Products
  <2>3. QED
    BY <2>1, <2>2
<1>3. m \in Nat
  BY MostType
<1>4. lost \in Nat /\ spent.troubles \in Nat
  BY CapType, Limits DEF Sane
<1>5. lost + Cardinality(Charged) + Cardinality(Troubled) + a <= m + spent.troubles
  BY DEF Account
<1>6. Account' <=> lost' + Cardinality(Charged') + Cardinality(Troubled') + b <= m + spent'.troubles
  BY DEF Account, Most
<1>7. Cardinality(Charged') <= n
  BY SizesNext
<1> HIDE DEF a, b, m, n
<1>8. QED
  BY <1>1, <1>2, <1>3, <1>4, <1>5, <1>6, <1>7, Sizes, SizesNext

\* The steps above keep everything.
LEMMA MovesSane ==
  ASSUME Sane, NEW w \in Worker, NEW r, Moves(w, r), Counters'
  PROVE  Sane'
<1>1. job' \in [Worker -> Request] /\ \A u \in Worker : Sound(job'[u], installed')
  BY BecomeSane DEF Moves
<1>2. installed' = installed /\ ids' = ids /\ tokens' = tokens
  BY DEF Moves
<1>3. QED
  BY <1>1, <1>2 DEF Sane, Counters

\* What such a step does to the sets in the account.
LEMMA MovesFacts ==
  ASSUME Sane, NEW w \in Worker, NEW r, Moves(w, r)
  PROVE  /\ installed' = installed /\ Ahead' <= Ahead
         /\ Charged' \subseteq Charged /\ Troubled' \subseteq Troubled \cup {w}
         /\ Harassed(r) <=> w \in Troubled'
         /\ Hopeless(r) <=> w \in Charged'
<1>1. /\ job \in [Worker -> Request] /\ job' = [job EXCEPT ![w] = r]
      /\ installed' = installed /\ ids' = ids /\ tokens' = tokens
      /\ Overdue(r) => w \in Late
      /\ Hopeless(r) => w \in Charged
  BY DEF Moves, Become, Sane
<1>2. \A u \in Worker : job'[u] = IF u = w THEN r ELSE job[u]
  BY <1>1
<1>3. Poisoned' = Poisoned
  BY <1>1 DEF Poisoned, Serving
<1>4. /\ DeadIds' = DeadIds /\ OutOfDate' = OutOfDate
  BY <1>1 DEF DeadIds, OutOfDate
<1>5. Late' = {u \in Worker : Overdue(job'[u])}
  BY <1>1 DEF Late, Overdue
<1>6. Late' \subseteq Late
  BY <1>1, <1>2, <1>5 DEF Late
<1>7. Charged' = {u \in Worker : Hopeless(job'[u])}
  BY <1>3 DEF Charged, Hopeless
<1>8. Charged' \subseteq Charged /\ (Hopeless(r) <=> w \in Charged')
  BY <1>1, <1>2, <1>7 DEF Charged
<1>9. Troubled' = {u \in Worker : Harassed(job'[u])}
  BY DEF Troubled, Harassed
<1>10. Troubled' \subseteq Troubled \cup {w} /\ (Harassed(r) <=> w \in Troubled')
  BY <1>2, <1>9 DEF Troubled
<1>11. Cardinality(Late') <= Cardinality(Late)
  BY <1>6, Sizes, Fewer
<1>12. Ahead' <= Ahead
  BY <1>4, <1>11, Sizes, SizesNext DEF Ahead
<1>13. QED
  BY <1>1, <1>8, <1>10, <1>12

\* A request's own steps keep the account.
LEMMA MovesFew ==
  ASSUME FewInv, NEW w \in Worker, NEW r, Moves(w, r), Pays(w, r), Counters'
  PROVE  FewInv'
<1>1. Sane /\ Sane' /\ Account /\ TroublesPaid
  BY MovesSane DEF FewInv
<1>2. /\ installed' = installed /\ Ahead' <= Ahead
      /\ Charged' \subseteq Charged /\ Troubled' \subseteq Troubled \cup {w}
      /\ Harassed(r) <=> w \in Troubled'
      /\ Hopeless(r) <=> w \in Charged'
  BY <1>1, MovesFacts
<1>3. Cardinality(Charged') <= Cardinality(Charged)
  BY <1>2, Sizes, Fewer
<1>4. lost \in Nat /\ lost' \in Nat /\ spent.troubles \in Nat /\ spent'.troubles \in Nat
  BY <1>1, CapType, Limits DEF Sane
<1>5. CASE UNCHANGED <<lost, spent>> /\ (Harassed(r) => w \in Troubled)
  <2>1. Troubled' \subseteq Troubled
    BY <1>2, <1>5
  <2>2. Cardinality(Troubled') <= Cardinality(Troubled)
    BY <2>1, Sizes, Fewer
  <2>3. Account'
    BY <1>1, <1>2, <1>3, <1>4, <1>5, <2>2, Sizes, SizesNext, AccountKept
  <2>4. TroublesPaid'
    BY <1>1, <1>4, <1>5, <2>2, Sizes, SizesNext DEF TroublesPaid
  <2>5. QED
    BY <1>1, <2>3, <2>4 DEF FewInv
<1>6. CASE lost' = lost /\ spent'.troubles = spent.troubles + 1
  <2>1. Cardinality(Troubled') <= Cardinality(Troubled) + 1
    BY <1>2, Sizes, OneMore
  <2>2. Account'
    BY <1>1, <1>2, <1>3, <1>4, <1>6, <2>1, Sizes, SizesNext, AccountKept
  <2>3. TroublesPaid'
    BY <1>1, <1>4, <1>6, <2>1, Sizes, SizesNext DEF TroublesPaid
  <2>4. QED
    BY <1>1, <2>2, <2>3 DEF FewInv
<1>7. CASE /\ lost' <= lost + 1 /\ spent' = spent
           /\ ~ Hopeless(r) /\ ~ Harassed(r) /\ w \in Charged \cup Troubled
  <2>1. Charged' \subseteq Charged \ {w} /\ Troubled' \subseteq Troubled \ {w}
    BY <1>2, <1>7
  <2>2. /\ Cardinality(Troubled') <= Cardinality(Troubled)
        /\ w \in Charged => Cardinality(Charged') + 1 <= Cardinality(Charged)
        /\ w \in Troubled => Cardinality(Troubled') + 1 <= Cardinality(Troubled)
    <3>1. Cardinality(Troubled') <= Cardinality(Troubled)
      BY <2>1, Sizes, Fewer
    <3>2. ASSUME w \in Charged PROVE Cardinality(Charged') + 1 <= Cardinality(Charged)
      BY <2>1, <3>2, Sizes, OneLess
    <3>3. ASSUME w \in Troubled PROVE Cardinality(Troubled') + 1 <= Cardinality(Troubled)
      BY <2>1, <3>3, Sizes, OneLess
    <3>4. QED
      BY <3>1, <3>2, <3>3
  <2>3. Cardinality(Charged') + Cardinality(Troubled') + 1 <= Cardinality(Charged) + Cardinality(Troubled)
    BY <1>3, <1>7, <2>2, Sizes, SizesNext
  <2>4. Account'
    BY <1>1, <1>2, <1>4, <1>7, <2>3, Sizes, SizesNext, AccountKept
  <2>5. TroublesPaid'
    BY <1>1, <1>4, <1>7, <2>2, Sizes, SizesNext DEF TroublesPaid
  <2>6. QED
    BY <1>1, <2>4, <2>5 DEF FewInv
<1>8. QED
  BY <1>5, <1>6, <1>7 DEF Pays

(***************************************************************************)
(* The steps that change what is cached.                                   *)
(***************************************************************************)
\* The request that has learned its installation id.
LEMMA ResolvedFacts ==
  ASSUME Sane, NEW w \in Worker, Resolved(w)
  PROVE  \E n : /\ Sound(n, installed) /\ Become(w, n)
               /\ n.refreshed = job[w].refreshed /\ n.attempt = job[w].attempt
               /\ n.repo = job[w].repo /\ n.pc \in {"sending", "minting"}
               /\ n.token = tokens[job[w].id]
<1>1. /\ job[w] \in Request /\ job[w].token = NoToken /\ job[w].id \in Id
      /\ job[w].id <= installed
  BY DEF Sane, Resolved, Sound, Holding, WithId, Request
<1>2. PICK n : n = WithToken(job[w], job[w].id)
  OBVIOUS
<1>3. Become(w, n)
  BY <1>2 DEF Resolved
<1>4. QED
  BY <1>1, <1>2, <1>3, WithTokenFacts

\* Caching the id keeps the types.
LEMMA ResolvedSane ==
  ASSUME Sane, NEW w \in Worker, Resolved(w)
  PROVE  Sane'
<1>1. PICK n : Sound(n, installed) /\ Become(w, n)
  BY ResolvedFacts
<1>2. UNCHANGED <<installed, tokens, spent, lost>>
  BY DEF Resolved
<1>3. job' \in [Worker -> Request] /\ \A u \in Worker : Sound(job'[u], installed')
  BY <1>1, <1>2, BecomeSane
<1>4. /\ job[w].id \in Id \cup {None} /\ job[w].id <= installed /\ job[w].repo \in Repo
      /\ ids' = [ids EXCEPT ![job[w].repo] = job[w].id]
  BY DEF Sane, Sound, Request, Resolved
<1>5. ids' \in [Repo -> Id \cup {None}] /\ \A p \in Repo : ids'[p] <= installed
  BY <1>4 DEF Sane
<1>6. QED
  BY <1>2, <1>3, <1>5 DEF Sane

\* When a repository's id is replaced, the one that held it was late, or the
\* repository was out of date.
LEMMA ResolvedFew ==
  ASSUME FewInv, NEW w \in Worker, Resolved(w)
  PROVE  FewInv'
<1> DEFINE j == job[w]
           p == j.repo
<1>1. Sane /\ Sane' /\ Account /\ TroublesPaid
  BY ResolvedSane DEF FewInv
<1>2. /\ j \in Request /\ p \in Repo /\ j.token = NoToken /\ j.pc = "resolved"
      /\ j.id \in Id /\ j.id # None /\ ~ Fixed
      /\ ids' = [ids EXCEPT ![p] = j.id] /\ ids \in [Repo -> Id \cup {None}]
      /\ installed' = installed /\ tokens' = tokens /\ spent' = spent /\ lost' = lost
      /\ job \in [Worker -> Request]
  BY <1>1 DEF Sane, Resolved, Sound, Holding, WithId, Request
<1>3. PICK n : /\ Sound(n, installed) /\ Become(w, n)
               /\ n.refreshed = j.refreshed /\ n.attempt = j.attempt
               /\ n.repo = p /\ n.pc \in {"sending", "minting"}
               /\ n.token = tokens[j.id]
  BY <1>1, ResolvedFacts
<1>4. \A u \in Worker : job'[u] = IF u = w THEN n ELSE job[u]
  BY <1>2, <1>3 DEF Become
<1>5. /\ w \in Charged <=> Hopeless(j)
      /\ w \in Troubled <=> Harassed(j)
      /\ w \in Late <=> j.id # installed
  BY <1>2 DEF Charged, Troubled, Late, Overdue
<1> HIDE DEF j, p
<1>6. Late' \subseteq Late \ {w}
  BY <1>2, <1>3, <1>4 DEF Late, Overdue
<1>7. Troubled' \subseteq Troubled
  BY <1>2, <1>3, <1>4, <1>5 DEF Troubled, Harassed
<1>8. DeadIds' = DeadIds
  BY <1>2 DEF DeadIds
<1>9. /\ OutOfDate' \subseteq OutOfDate \cup {p}
      /\ j.id = installed => OutOfDate' \subseteq OutOfDate \ {p}
  BY <1>2 DEF OutOfDate
<1>10. Cardinality(Troubled') <= Cardinality(Troubled)
  BY <1>7, Sizes, Fewer
<1>11. TroublesPaid'
  BY <1>1, <1>2, <1>10, Limits, Sizes, SizesNext DEF TroublesPaid, Sane
<1>12. CASE w \in Late
  <2>1. Cardinality(Late') + 1 <= Cardinality(Late)
    BY <1>6, <1>12, Sizes, OneLess
  <2>2. Cardinality(OutOfDate') <= Cardinality(OutOfDate) + 1
    BY <1>9, Sizes, OneMore
  <2>3. Ahead' + 1 <= Ahead
    BY <1>8, <2>1, <2>2, Sizes, SizesNext DEF Ahead
  <2>4. QED
    BY <1>1, <1>2, <1>10, <1>11, <2>3, AccountCleared DEF FewInv
<1>13. CASE w \notin Late /\ p \in OutOfDate
  <2>1. Cardinality(Late') <= Cardinality(Late)
    BY <1>6, Sizes, Fewer
  <2>2. Cardinality(OutOfDate') + 1 <= Cardinality(OutOfDate)
    BY <1>5, <1>9, <1>13, Sizes, OneLess
  <2>3. Ahead' + 1 <= Ahead
    BY <1>8, <2>1, <2>2, Sizes, SizesNext DEF Ahead
  <2>4. QED
    BY <1>1, <1>2, <1>10, <1>11, <2>3, AccountCleared DEF FewInv
<1>14. CASE w \notin Late /\ p \notin OutOfDate
  <2>1. Cardinality(Late') <= Cardinality(Late)
    BY <1>6, Sizes, Fewer
  <2>2. j.id = installed /\ OutOfDate' \subseteq OutOfDate /\ ids[p] \in {None, installed}
    BY <1>2, <1>5, <1>9, <1>14 DEF OutOfDate
  <2>3. Cardinality(OutOfDate') <= Cardinality(OutOfDate)
    BY <2>2, Sizes, Fewer
  <2>4. Ahead' <= Ahead
    BY <1>8, <2>1, <2>3, Sizes, SizesNext DEF Ahead
  <2>5. Poisoned \subseteq Poisoned'
    <3>1. ASSUME NEW q \in Repo, ids[q] # None, tokens[ids[q]] = "dead"
          PROVE  ids'[q] # None /\ tokens[ids'[q]] = "dead"
      BY <1>2, <2>2, <3>1
    <3>2. QED
      BY <1>2, <3>1 DEF Poisoned, Serving
  <2>6. n.token = "dead" => p \in Poisoned'
    BY <1>2, <1>3 DEF Poisoned, Serving
  <2>7. ASSUME NEW u \in Charged' PROVE u \in Charged
    <3>1. CASE u = w
      <4>1. \/ n.refreshed
            \/ n.token = "dead" /\ (n.pc = "minted" \/ n.repo \notin Poisoned')
        BY <1>4, <3>1 DEF Charged, Hopeless
      <4>2. n.refreshed
        BY <1>3, <2>6, <4>1
      <4>3. QED
        BY <1>3, <1>5, <3>1, <4>2 DEF Hopeless
    <3>2. CASE u # w
      BY <1>4, <2>5, <3>2 DEF Charged, Hopeless
    <3>3. QED
      BY <3>1, <3>2
  <2>8. Cardinality(Charged') <= Cardinality(Charged)
    BY <2>7, Sizes, Fewer
  <2>9. lost \in Nat /\ spent.troubles \in Nat
    BY <1>1, CapType, Limits DEF Sane
  <2>10. Account'
    BY <1>1, <1>2, <1>10, <2>4, <2>8, <2>9, Sizes, SizesNext, AccountKept
  <2>11. QED
    BY <1>1, <1>11, <2>10 DEF FewInv
<1>15. QED
  BY <1>12, <1>13, <1>14

\* The request that has got its token.
LEMMA MintedFacts ==
  ASSUME Sane, NEW w \in Worker, Minted(w)
  PROVE  \E n : /\ Sound(n, installed) /\ Become(w, n)
               /\ n.refreshed = job[w].refreshed /\ n.attempt = job[w].attempt
               /\ n.repo = job[w].repo /\ n.pc = "sending" /\ n.token = job[w].token
<1> DEFINE j == job[w]
           n == [j EXCEPT !.pc = "sending"]
<1>1. Sound(j, installed) /\ j \in Request /\ j.pc = "minted" /\ j.token # NoToken
  BY DEF Sane, Minted, Sound, Holding
<1>2. Become(w, n)
  BY DEF Minted
<1> HIDE DEF j
<1>3. /\ n \in Request /\ n.token = j.token /\ n.id = j.id /\ n.pc = "sending"
      /\ n.repo = j.repo /\ n.refreshed = j.refreshed /\ n.attempt = j.attempt
  BY <1>1 DEF Request
<1> HIDE DEF n
<1>4. Sound(n, installed)
  BY <1>1, <1>3 DEF Sound, WithId, Holding
<1>5. QED
  BY <1>2, <1>3, <1>4 DEF j

\* Caching the token keeps the types.
LEMMA MintedSane ==
  ASSUME Sane, NEW w \in Worker, Minted(w)
  PROVE  Sane'
<1>1. PICK n : Sound(n, installed) /\ Become(w, n)
  BY MintedFacts
<1>2. UNCHANGED <<installed, ids, spent, lost>>
  BY DEF Minted
<1>3. job' \in [Worker -> Request] /\ \A u \in Worker : Sound(job'[u], installed')
  BY <1>1, <1>2, BecomeSane
<1>4. /\ job[w].id \in Id /\ job[w].id <= installed /\ job[w].token \in Token
      /\ tokens' = [tokens EXCEPT ![job[w].id] = job[w].token]
  BY DEF Sane, Sound, Request, Minted, WithId
<1>5. tokens' \in [Id -> Token] /\ \A i \in Id : tokens'[i] # NoToken => i <= installed
  BY <1>4 DEF Sane
<1>6. QED
  BY <1>2, <1>3, <1>5 DEF Sane

\* A dead token that is cached was late; a live one takes the place of a dead
\* one or changes nothing.
LEMMA MintedFew ==
  ASSUME FewInv, NEW w \in Worker, Minted(w)
  PROVE  FewInv'
<1> DEFINE j == job[w]
           i == j.id
<1>1. Sane /\ Sane' /\ Account /\ TroublesPaid
  BY MintedSane DEF FewInv
<1>2. /\ j \in Request /\ i \in Id /\ j.token \in {"live", "dead"} /\ j.pc = "minted"
      /\ tokens' = [tokens EXCEPT ![i] = j.token] /\ tokens \in [Id -> Token]
      /\ installed' = installed /\ ids' = ids /\ spent' = spent /\ lost' = lost
      /\ job \in [Worker -> Request] /\ ids \in [Repo -> Id \cup {None}]
  BY <1>1 DEF Sane, Minted, Sound, Holding, WithId, Request, Token
<1>3. PICK n : /\ Sound(n, installed) /\ Become(w, n)
               /\ n.refreshed = j.refreshed /\ n.attempt = j.attempt
               /\ n.repo = j.repo /\ n.pc = "sending" /\ n.token = j.token
  BY <1>1, MintedFacts
<1>4. \A u \in Worker : job'[u] = IF u = w THEN n ELSE job[u]
  BY <1>2, <1>3 DEF Become
<1>5. /\ w \in Charged <=> Hopeless(j)
      /\ w \in Troubled <=> Harassed(j)
      /\ w \in Late <=> j.token = "dead"
  BY <1>2 DEF Charged, Troubled, Late, Overdue
<1> HIDE DEF j, i
<1>6. Late' \subseteq Late \ {w}
  BY <1>2, <1>3, <1>4 DEF Late, Overdue
<1>7. Troubled' \subseteq Troubled
  BY <1>2, <1>3, <1>4, <1>5 DEF Troubled, Harassed
<1>8. OutOfDate' = OutOfDate
  BY <1>2 DEF OutOfDate
<1>9. /\ DeadIds' \subseteq DeadIds \cup {i}
      /\ j.token = "live" => DeadIds' \subseteq DeadIds \ {i}
  BY <1>2 DEF DeadIds
<1>10. Cardinality(Troubled') <= Cardinality(Troubled)
  BY <1>7, Sizes, Fewer
<1>11. TroublesPaid'
  BY <1>1, <1>2, <1>10, Limits, Sizes, SizesNext DEF TroublesPaid, Sane
<1>12. CASE j.token = "dead"
  <2>1. Cardinality(Late') + 1 <= Cardinality(Late)
    BY <1>5, <1>6, <1>12, Sizes, OneLess
  <2>2. Cardinality(DeadIds') <= Cardinality(DeadIds) + 1
    BY <1>9, Sizes, OneMore
  <2>3. Ahead' + 1 <= Ahead
    BY <1>8, <2>1, <2>2, Sizes, SizesNext DEF Ahead
  <2>4. QED
    BY <1>1, <1>2, <1>10, <1>11, <2>3, AccountCleared DEF FewInv
<1>13. CASE j.token = "live" /\ i \in DeadIds
  <2>1. Cardinality(Late') <= Cardinality(Late)
    BY <1>6, Sizes, Fewer
  <2>2. Cardinality(DeadIds') + 1 <= Cardinality(DeadIds)
    BY <1>9, <1>13, Sizes, OneLess
  <2>3. Ahead' + 1 <= Ahead
    BY <1>8, <2>1, <2>2, Sizes, SizesNext DEF Ahead
  <2>4. QED
    BY <1>1, <1>2, <1>10, <1>11, <2>3, AccountCleared DEF FewInv
<1>14. CASE j.token = "live" /\ i \notin DeadIds
  <2>1. Cardinality(Late') <= Cardinality(Late)
    BY <1>6, Sizes, Fewer
  <2>2. DeadIds' \subseteq DeadIds
    BY <1>9, <1>14
  <2>3. Cardinality(DeadIds') <= Cardinality(DeadIds)
    BY <2>2, Sizes, Fewer
  <2>4. Ahead' <= Ahead
    BY <1>8, <2>1, <2>3, Sizes, SizesNext DEF Ahead
  <2>5. Poisoned \subseteq Poisoned'
    <3>1. \A k \in Id : tokens[k] = "dead" => tokens'[k] = "dead"
      BY <1>2, <1>14 DEF DeadIds
    <3>2. ASSUME NEW q \in Repo, Serving(q) # None PROVE Serving(q) \in Id
      BY <1>2, <3>2, Limits DEF Serving
    <3>3. \A q \in Repo : Serving(q)' = Serving(q)
      BY <1>2 DEF Serving
    <3>4. QED
      BY <3>1, <3>2, <3>3 DEF Poisoned
  <2>6. ASSUME NEW u \in Charged' PROVE u \in Charged
    <3>1. CASE u = w
      BY <1>3, <1>4, <1>5, <1>14, <3>1 DEF Charged, Hopeless
    <3>2. CASE u # w
      BY <1>4, <2>5, <3>2 DEF Charged, Hopeless
    <3>3. QED
      BY <3>1, <3>2
  <2>7. Cardinality(Charged') <= Cardinality(Charged)
    BY <2>6, Sizes, Fewer
  <2>8. lost \in Nat /\ spent.troubles \in Nat
    BY <1>1, CapType, Limits DEF Sane
  <2>9. Account'
    BY <1>1, <1>2, <1>10, <2>4, <2>7, <2>8, Sizes, SizesNext, AccountKept
  <2>10. QED
    BY <1>1, <1>11, <2>9 DEF FewInv
<1>15. QED
  BY <1>2, <1>12, <1>13, <1>14

\* The request that starts again after a 401.
LEMMA RefreshFacts ==
  ASSUME Sane, NEW w \in Worker, Refresh(w)
  PROVE  \E n : /\ Sound(n, installed) /\ Become(w, n)
               /\ n.refreshed = TRUE /\ n.token = NoToken
               /\ n.pc \in {"minting", "resolving"}
<1> DEFINE j == job[w]
           n == [j EXCEPT !.attempt = @ + 1, !.refreshed = TRUE, !.token = NoToken,
                          !.pc = IF Fixed THEN "minting" ELSE "resolving"]
<1>1. /\ Sound(j, installed) /\ j \in Request /\ j.pc = "refused"
      /\ j.attempt < MaxAttempts
  BY DEF Sane, Refresh, MayRefresh, Sound
<1>2. Become(w, n)
  BY DEF Refresh
<1> HIDE DEF j
<1> DEFINE pc == IF Fixed THEN "minting" ELSE "resolving"
<1>3. pc \in {"minting", "resolving"} /\ (Fixed => pc = "minting")
  OBVIOUS
<1>4. j.attempt + 1 \in 1..MaxAttempts
  BY <1>1, Limits DEF Request
<1> HIDE DEF pc
<1>5. n = [j EXCEPT !.attempt = @ + 1, !.refreshed = TRUE, !.token = NoToken, !.pc = pc]
  BY DEF pc
<1> HIDE DEF n
<1>6. /\ n \in Request /\ n.token = NoToken /\ n.id = j.id /\ n.pc = pc
      /\ n.refreshed = TRUE /\ n.attempt = j.attempt + 1
  BY <1>1, <1>3, <1>4, <1>5 DEF Request, Token
<1>7. Sound(n, installed)
  BY <1>1, <1>3, <1>6 DEF Sound, WithId, Holding
<1>8. QED
  BY <1>2, <1>3, <1>6, <1>7

\* What invalidate() does to the caches.
LEMMA RefreshCaches ==
  ASSUME Sane, NEW w \in Worker, Refresh(w), NEW p, p = job[w].repo
  PROVE  /\ p \in Repo /\ UNCHANGED <<installed, spent, lost>>
         /\ ids' \in [Repo -> Id \cup {None}]
         /\ \A q \in Repo : ids'[q] = IF q = p /\ ~ Fixed THEN None ELSE ids[q]
         /\ tokens' \in [Id -> Token]
         /\ \A k \in Id : tokens'[k] = IF k = Serving(p) THEN NoToken ELSE tokens[k]
<1>1. p \in Repo /\ ids \in [Repo -> Id \cup {None}] /\ tokens \in [Id -> Token]
  BY DEF Sane, Request
<1>2. UNCHANGED <<installed, spent, lost>>
  BY DEF Refresh
<1>3. ids' = IF Fixed THEN ids ELSE [ids EXCEPT ![p] = None]
  BY DEF Refresh
<1>4. tokens' = IF Serving(p) = None THEN tokens ELSE [tokens EXCEPT ![Serving(p)] = NoToken]
  BY DEF Refresh, Serving
<1>5. /\ ids' \in [Repo -> Id \cup {None}]
      /\ \A q \in Repo : ids'[q] = IF q = p /\ ~ Fixed THEN None ELSE ids[q]
  BY <1>1, <1>3
<1>6. None \notin Id /\ NoToken \in Token
  BY DEF None, Id, Token
<1>7. /\ tokens' \in [Id -> Token]
      /\ \A k \in Id : tokens'[k] = IF k = Serving(p) THEN NoToken ELSE tokens[k]
  <2>1. CASE Serving(p) = None
    BY <1>1, <1>4, <1>6, <2>1
  <2>2. CASE Serving(p) # None
    <3> DEFINE i == Serving(p)
    <3>1. tokens' = [tokens EXCEPT ![i] = NoToken]
      BY <1>4, <2>2
    <3> HIDE DEF i
    <3>2. /\ tokens' \in [Id -> Token]
          /\ \A k \in Id : tokens'[k] = IF k = i THEN NoToken ELSE tokens[k]
      BY <1>1, <1>6, <3>1
    <3>3. QED
      BY <3>2 DEF i
  <2>3. QED
    BY <2>1, <2>2
<1>8. QED
  BY <1>1, <1>2, <1>5, <1>7

\* Forgetting id and token keeps the types.
LEMMA RefreshSane ==
  ASSUME Sane, NEW w \in Worker, Refresh(w)
  PROVE  Sane'
<1>1. PICK n : Sound(n, installed) /\ Become(w, n)
  BY RefreshFacts
<1>2. PICK p : p = job[w].repo
  OBVIOUS
<1>3. /\ p \in Repo /\ UNCHANGED <<installed, spent, lost>>
      /\ ids' \in [Repo -> Id \cup {None}]
      /\ \A q \in Repo : ids'[q] = IF q = p /\ ~ Fixed THEN None ELSE ids[q]
      /\ tokens' \in [Id -> Token]
      /\ \A k \in Id : tokens'[k] = IF k = Serving(p) THEN NoToken ELSE tokens[k]
  BY <1>2, RefreshCaches
<1>4. job' \in [Worker -> Request] /\ \A u \in Worker : Sound(job'[u], installed')
  BY <1>1, <1>3, BecomeSane
<1>5. None <= installed /\ installed \in Id
  BY Limits DEF Sane, Id, None
<1>6. \A q \in Repo : ids'[q] <= installed
  BY <1>3, <1>5 DEF Sane
<1>7. \A k \in Id : tokens'[k] # NoToken => k <= installed
  BY <1>3 DEF Sane
<1>8. QED
  BY <1>3, <1>4, <1>5, <1>6, <1>7 DEF Sane

\* A refresh that removes a dead token uses it up; one that does not was
\* charged already, and poisons nobody's cache.
LEMMA RefreshFew ==
  ASSUME FewInv, NEW w \in Worker, Refresh(w)
  PROVE  FewInv'
<1> DEFINE j == job[w]
<1>1. Sane /\ Sane' /\ Account /\ TroublesPaid
  BY RefreshSane DEF FewInv
<1>2. PICK p : p = j.repo
  OBVIOUS
<1>3. /\ p \in Repo /\ installed' = installed /\ spent' = spent /\ lost' = lost
      /\ \A q \in Repo : ids'[q] = IF q = p /\ ~ Fixed THEN None ELSE ids[q]
      /\ \A k \in Id : tokens'[k] = IF k = Serving(p) THEN NoToken ELSE tokens[k]
      /\ ids \in [Repo -> Id \cup {None}] /\ tokens \in [Id -> Token]
      /\ job \in [Worker -> Request]
  BY <1>1, <1>2, RefreshCaches DEF Sane
<1>4. j.pc = "refused" /\ j.token = "dead" /\ j.repo = p
  BY <1>1, <1>2 DEF Sane, Sound, Refresh
<1>5. PICK n : /\ Sound(n, installed) /\ Become(w, n)
               /\ n.refreshed = TRUE /\ n.token = NoToken
               /\ n.pc \in {"minting", "resolving"}
  BY <1>1, RefreshFacts
<1>6. \A u \in Worker : job'[u] = IF u = w THEN n ELSE job[u]
  BY <1>3, <1>5 DEF Become
<1>7. w \in Charged <=> Hopeless(j)
  BY DEF Charged
<1> HIDE DEF j
<1>8. Late' \subseteq Late
  BY <1>3, <1>5, <1>6 DEF Late, Overdue
<1>9. Troubled' \subseteq Troubled
  BY <1>5, <1>6 DEF Troubled, Harassed
<1>10. OutOfDate' \subseteq OutOfDate /\ DeadIds' \subseteq DeadIds
  BY <1>3 DEF OutOfDate, DeadIds, NoToken
<1>11. /\ Cardinality(Late') <= Cardinality(Late)
       /\ Cardinality(Troubled') <= Cardinality(Troubled)
       /\ Cardinality(OutOfDate') <= Cardinality(OutOfDate)
       /\ Cardinality(DeadIds') <= Cardinality(DeadIds)
  BY <1>8, <1>9, <1>10, Sizes, Fewer
<1>12. TroublesPaid'
  BY <1>1, <1>3, <1>11, Limits, Sizes, SizesNext DEF TroublesPaid, Sane
<1>13. CASE p \in Poisoned
  <2>1. Serving(p) \in Id /\ tokens[Serving(p)] = "dead"
    BY <1>3, <1>13, Limits DEF Poisoned, Serving
  <2>2. Serving(p) \in DeadIds /\ DeadIds' \subseteq DeadIds \ {Serving(p)}
    BY <1>3, <2>1 DEF DeadIds, NoToken
  <2>3. Cardinality(DeadIds') + 1 <= Cardinality(DeadIds)
    BY <2>2, Sizes, OneLess
  <2>4. Ahead' + 1 <= Ahead
    BY <1>11, <2>3, Sizes, SizesNext DEF Ahead
  <2>5. QED
    BY <1>1, <1>3, <1>11, <1>12, <2>4, AccountCleared DEF FewInv
<1>14. CASE p \notin Poisoned
  <2>1. Ahead' <= Ahead
    BY <1>11, Sizes, SizesNext DEF Ahead
  <2>2. ASSUME NEW q \in Poisoned PROVE q \in Poisoned'
    <3>1. q \in Repo /\ Serving(q) # None /\ tokens[Serving(q)] = "dead" /\ q # p
      BY <1>14 DEF Poisoned
    <3>2. Serving(q)' = Serving(q) /\ Serving(q) \in Id
      BY <1>3, <3>1, Limits DEF Serving
    <3>3. Serving(q) # Serving(p)
      BY <1>3, <1>14, <3>1 DEF Poisoned
    <3>4. QED
      BY <1>3, <3>1, <3>2, <3>3 DEF Poisoned
  <2>3. ASSUME NEW u \in Charged' PROVE u \in Charged
    <3>1. CASE u = w
      BY <1>4, <1>7, <1>14, <3>1 DEF Hopeless
    <3>2. CASE u # w
      BY <1>6, <2>2, <3>2 DEF Charged, Hopeless
    <3>3. QED
      BY <3>1, <3>2
  <2>4. Cardinality(Charged') <= Cardinality(Charged)
    BY <2>3, Sizes, Fewer
  <2>5. lost \in Nat /\ spent.troubles \in Nat
    BY <1>1, CapType, Limits DEF Sane
  <2>6. Account'
    BY <1>1, <1>3, <1>11, <2>1, <2>4, <2>5, Sizes, SizesNext, AccountKept
  <2>7. QED
    BY <1>1, <1>12, <2>6 DEF FewInv
<1>15. QED
  BY <1>13, <1>14

\* A token that is no longer usable is used up, if it was dead.
LEMMA ExpireFew ==
  ASSUME FewInv, NEW i \in Id, Expire(i)
  PROVE  FewInv'
<1>1. Sane /\ Account /\ TroublesPaid
  BY DEF FewInv
<1>2. /\ installed' = installed /\ ids' = ids /\ job' = job /\ spent' = spent
      /\ lost' = lost /\ tokens' = [tokens EXCEPT ![i] = NoToken]
      /\ tokens \in [Id -> Token] /\ ids \in [Repo -> Id \cup {None}]
  BY <1>1 DEF Expire, Sane
<1>3. /\ NoToken \in Token
      /\ \A k \in Id : tokens'[k] = IF k = i THEN NoToken ELSE tokens[k]
  BY <1>2 DEF Token
<1>4. Sane'
  BY <1>1, <1>2, <1>3 DEF Sane
<1>5. Late' = Late /\ Troubled' = Troubled /\ OutOfDate' = OutOfDate
  BY <1>2 DEF Late, Overdue, Troubled, Harassed, OutOfDate
<1>6. TroublesPaid'
  BY <1>1, <1>2, <1>5 DEF TroublesPaid
<1>7. Cardinality(Troubled') <= Cardinality(Troubled)
  BY <1>5, Sizes
<1>8. CASE i \in DeadIds
  <2>1. DeadIds' \subseteq DeadIds \ {i}
    BY <1>3 DEF DeadIds, NoToken
  <2>2. Cardinality(DeadIds') + 1 <= Cardinality(DeadIds)
    BY <1>8, <2>1, Sizes, OneLess
  <2>3. Ahead' + 1 <= Ahead
    BY <1>5, <2>2, Sizes, SizesNext DEF Ahead
  <2>4. QED
    BY <1>1, <1>2, <1>4, <1>6, <1>7, <2>3, AccountCleared DEF FewInv
<1>9. CASE i \notin DeadIds
  <2>1. \A k \in Id : tokens'[k] = "dead" <=> tokens[k] = "dead"
    BY <1>3, <1>9 DEF DeadIds, NoToken
  <2>2. DeadIds' = DeadIds
    BY <2>1 DEF DeadIds
  <2>3. \A q \in Repo : Serving(q)' = Serving(q) /\ (Serving(q) # None => Serving(q) \in Id)
    BY <1>2, Limits DEF Serving
  <2>4. Poisoned' = Poisoned
    BY <2>1, <2>3 DEF Poisoned
  <2>5. Charged' = Charged
    BY <1>2, <2>4 DEF Charged, Hopeless
  <2>6. Ahead' <= Ahead
    BY <1>5, <2>2, Sizes, SizesNext DEF Ahead
  <2>7. lost \in Nat /\ spent.troubles \in Nat
    BY <1>1, CapType, Limits DEF Sane
  <2>8. Account'
    BY <1>1, <1>2, <1>4, <1>5, <2>5, <2>6, <2>7, Sizes, AccountKept
  <2>9. QED
    BY <1>4, <1>6, <2>8 DEF FewInv
<1>10. QED
  BY <1>8, <1>9

(***************************************************************************)
(* Revocation.                                                             *)
(***************************************************************************)
\* There is never more ahead than Most.
LEMMA AheadBounded ==
  ASSUME Sane
  PROVE  Ahead <= Most
<1>1. installed \in Nat /\ installed \in Int
  BY Limits DEF Sane, Id
<1>2. DeadIds \subseteq 1..installed
  BY Limits DEF DeadIds, Sane, Id, NoToken
<1>3. IsFiniteSet(1..installed)
  BY <1>1, FS_Interval
<1>4. Cardinality(1..installed) = installed
  <2>1. Cardinality(1..installed) = IF 1 > installed THEN 0 ELSE installed - 1 + 1
    BY <1>1, FS_Interval
  <2>2. QED
    BY <1>1, <2>1
<1>5. Cardinality(DeadIds) <= installed
  BY <1>2, <1>3, <1>4, Fewer
<1>6. QED
  BY <1>1, <1>5, Sizes, Limits DEF Ahead, Most

\* Losses begin to count anew, and there is room for all that may follow.
LEMMA Anew ==
  ASSUME Sane, TroublesPaid, lost = 0
  PROVE  Account
<1> DEFINE n == Cardinality(Worker)
           a == n * Ahead
           m == n * (1 + Most)
<1>1. n \in Nat /\ Ahead \in Nat /\ Most \in Nat /\ Ahead <= Most
  BY Limits, Sizes, MostType, AheadBounded
<1>2. a \in Nat /\ m \in Nat /\ a + n <= m
  <2> HIDE DEF n
  <2>1. n * Ahead + n <= n * (1 + Most)
    <3>1. 1 + Most \in Nat /\ Ahead + 1 <= 1 + Most
      BY <1>1
    <3>2. QED
      BY <1>1, <3>1, ProductDrops
  <2>2. n * Ahead \in Nat /\ n * (1 + Most) \in Nat
    BY <1>1, MostType, Products DEF n
  <2>3. QED
    BY <2>1, <2>2
<1>3. spent.troubles \in Nat
  BY Limits DEF Sane
<1>4. Cardinality(Charged) <= n /\ Cardinality(Troubled) <= spent.troubles
  BY Sizes DEF TroublesPaid
<1>5. Account <=> lost + Cardinality(Charged) + Cardinality(Troubled) + a <= m + spent.troubles
  BY DEF Account
<1> HIDE DEF a, m, n
<1>6. QED
  BY <1>1, <1>2, <1>3, <1>4, <1>5, Sizes

\* The same after the step.
LEMMA AnewNext == (Sane /\ TroublesPaid /\ lost = 0 => Account)'
<1>1. Sane /\ TroublesPaid /\ lost = 0 => Account
  BY Anew
<1>2. QED
  BY <1>1, PTL

\* When all tokens die, losses begin to count anew.
LEMMA AllDieFew ==
  ASSUME FewInv, AllDie, installed' \in Id, installed <= installed', ids' = ids,
         spent' \in [revoked : 0..MaxRevoked, troubles : 0..MaxTroubles],
         spent'.troubles = spent.troubles
  PROVE  FewInv'
<1>1. Sane /\ TroublesPaid
  BY DEF FewInv
<1>2. /\ tokens' = [i \in Id |-> Dead(tokens[i])] /\ lost' = 0
      /\ job' = [w \in Worker |-> [job[w] EXCEPT !.token = Dead(@)]]
  BY DEF AllDie
<1>3. /\ \A t \in Token : Dead(t) \in Token
      /\ \A t : Dead(t) # NoToken <=> t # NoToken
      /\ Dead("dead") = "dead"
  BY DEF Dead, Token, NoToken
<1>4. installed \in Nat /\ installed' \in Nat
  BY <1>1, Limits DEF Sane, Id
<1>5. /\ ids' \in [Repo -> Id \cup {None}]
      /\ \A p \in Repo : ids'[p] <= installed'
  <2>1. \A p \in Repo : ids[p] \in Nat /\ ids[p] <= installed
    BY <1>1, Limits DEF Sane, Id, None
  <2>2. QED
    BY <1>1, <1>4, <2>1 DEF Sane
<1>6. /\ tokens' \in [Id -> Token]
      /\ \A i \in Id : tokens'[i] # NoToken => i <= installed'
  <2>1. \A i \in Id : tokens[i] \in Token /\ (tokens[i] # NoToken => i <= installed) /\ i \in Nat
    BY <1>1, Limits DEF Sane, Id
  <2>2. QED
    BY <1>2, <1>3, <1>4, <2>1
<1>7. ASSUME NEW w \in Worker
      PROVE  /\ Sound(job'[w], installed')
             /\ job'[w].pc = job[w].pc /\ job'[w].attempt = job[w].attempt
             /\ job'[w].refreshed = job[w].refreshed
  <2> DEFINE j == job[w]
             t == Dead(j.token)
             n == [j EXCEPT !.token = t]
  <2>1. Sound(j, installed) /\ j \in Request
    BY <1>1 DEF Sane
  <2>2. job'[w] = n
    BY <1>2
  <2>3. /\ t \in Token /\ (t # NoToken <=> j.token # NoToken)
        /\ j.token = "dead" => t = "dead"
    BY <1>3, <2>1 DEF Request
  <2> HIDE DEF j, t
  <2>4. /\ n \in Request /\ n.token = t /\ n.id = j.id /\ n.pc = j.pc
        /\ n.repo = j.repo /\ n.refreshed = j.refreshed /\ n.attempt = j.attempt
    BY <2>1, <2>3 DEF Request
  <2> HIDE DEF n
  <2>5. n.id <= installed'
    <3>1. j.id \in Nat /\ j.id <= installed
      BY <2>1, Limits DEF Sound, Request, Id, None
    <3>2. QED
      BY <1>4, <2>4, <3>1
  <2>6. Sound(n, installed')
    BY <2>1, <2>3, <2>4, <2>5 DEF Sound
  <2>7. QED
    BY <2>2, <2>4, <2>6 DEF j
<1>8. job' \in [Worker -> Request]
  <2>1. \A w \in Worker : job'[w] \in Request
    BY <1>7 DEF Sound
  <2>2. QED
    BY <1>2, <2>1
<1>9. lost' \in 0..LostCap
  BY <1>2, CapType
<1>10. Sane'
  BY <1>5, <1>6, <1>7, <1>8, <1>9 DEF Sane
<1>11. Troubled' = Troubled
  BY <1>7 DEF Troubled, Harassed
<1>12. TroublesPaid'
  BY <1>1, <1>11 DEF TroublesPaid
<1>13. Account'
  <2>1. lost' = 0
    BY <1>2
  <2>2. QED
    BY <1>10, <1>12, <2>1, AnewNext
<1>14. QED
  BY <1>10, <1>12, <1>13 DEF FewInv

\* GitHub revokes tokens, or the App is installed again.
LEMMA RevokeFew ==
  ASSUME FewInv, Revoke \/ Reinstall
  PROVE  FewInv'
<1>1. AllDie /\ ids' = ids
  BY DEF Revoke, Reinstall
<1>2. /\ installed \in Id
      /\ spent \in [revoked : 0..MaxRevoked, troubles : 0..MaxTroubles]
  BY DEF FewInv, Sane
<1>3. CASE Revoke
  <2>1. /\ installed' = installed /\ spent' = [spent EXCEPT !.revoked = @ + 1]
        /\ spent.revoked < MaxRevoked
    BY <1>3 DEF Revoke
  <2>2. /\ spent' \in [revoked : 0..MaxRevoked, troubles : 0..MaxTroubles]
        /\ spent'.troubles = spent.troubles
    BY <1>2, <2>1, Limits
  <2>3. installed' \in Id /\ installed <= installed'
    BY <1>2, <2>1, Limits DEF Id
  <2>4. QED
    BY <1>1, <2>2, <2>3, AllDieFew
<1>4. CASE Reinstall
  <2>1. installed' \in Id /\ installed <= installed' /\ spent' = spent
    BY <1>2, <1>4, Limits DEF Reinstall, Id
  <2>2. QED
    BY <1>1, <1>2, <2>1, AllDieFew
<1>5. QED
  BY <1>3, <1>4

(***************************************************************************)
(* All steps.                                                              *)
(***************************************************************************)
\* Nothing is cached or lost at first.
LEMMA FewInit == Init => FewInv
<1> SUFFICES ASSUME Init PROVE FewInv
  OBVIOUS
<1>1. 1 \in Id /\ None <= 1 /\ 1 \in Nat
  BY Limits DEF None
<1>2. ids \in [Repo -> Id \cup {None}] /\ \A p \in Repo : ids[p] <= 1
  BY <1>1 DEF Init
<1>3. tokens \in [Id -> Token] /\ \A i \in Id : tokens[i] = NoToken
  BY DEF Init, Token
<1>4. /\ job \in [Worker -> Request] /\ \A w \in Worker : job[w] = Idle
      /\ \A w \in Worker : Sound(job[w], 1)
  BY <1>1, IdleFacts DEF Init
<1>5. spent \in [revoked : 0..MaxRevoked, troubles : 0..MaxTroubles] /\ spent.troubles = 0
  BY Limits DEF Init
<1>6. lost = 0 /\ lost \in 0..LostCap /\ installed = 1
  BY CapType DEF Init
<1>7. Sane
  BY <1>1, <1>2, <1>3, <1>4, <1>5, <1>6 DEF Sane
<1>8. Troubled = {}
  BY <1>4, IdleIsFree DEF Troubled
<1>9. TroublesPaid
  BY <1>5, <1>8, FS_EmptySet DEF TroublesPaid
<1>10. QED
  BY <1>6, <1>7, <1>9, Anew DEF FewInv

\* Every step keeps the inductive invariant.
LEMMA FewStep ==
  ASSUME FewInv, [Next]_vars
  PROVE  FewInv'
<1>1. Sane
  BY DEF FewInv
<1>2. ASSUME NEW w \in Worker, NEW p \in Repo, Begin(w, p) PROVE FewInv'
  BY <1>1, <1>2, BeginMoves, MovesFew
<1>3. ASSUME NEW w \in Worker, Step(w) PROVE FewInv'
  <2>1. CASE Resolve(w)
    BY <1>1, <2>1, ResolveMoves, MovesFew
  <2>2. CASE Resolved(w)
    BY <2>2, ResolvedFew
  <2>3. CASE Mint(w)
    BY <1>1, <2>3, MintMoves, MovesFew
  <2>4. CASE Minted(w)
    BY <2>4, MintedFew
  <2>5. CASE Answer(w)
    BY <1>1, <2>5, AnswerMoves, MovesFew
  <2>6. CASE Refuse(w)
    BY <1>1, <2>6, RefuseMoves, MovesFew
  <2>7. CASE Refresh(w)
    BY <2>7, RefreshFew
  <2>8. CASE GiveUp(w)
    BY <1>1, <2>8, GiveUpMoves, MovesFew
  <2>9. CASE Retry(w)
    BY <1>1, <2>9, RetryMoves, MovesFew
  <2>10. QED
    BY <1>3, <2>1, <2>2, <2>3, <2>4, <2>5, <2>6, <2>7, <2>8, <2>9 DEF Step
<1>4. ASSUME NEW w \in Worker, Trouble(w) PROVE FewInv'
  BY <1>1, <1>4, TroubleMoves, MovesFew
<1>5. ASSUME NEW w \in Worker, AuthTrouble(w) PROVE FewInv'
  BY <1>1, <1>5, AuthTroubleMoves, MovesFew
<1>6. CASE Revoke \/ Reinstall
  BY <1>6, RevokeFew
<1>7. ASSUME NEW i \in Id, Expire(i) PROVE FewInv'
  BY <1>7, ExpireFew
<1>8. CASE UNCHANGED vars
  BY <1>8 DEF vars, FewInv, Sane, Account, TroublesPaid, Charged, Hopeless, Poisoned,
              Serving, Troubled, Harassed, Ahead, Late, Overdue, DeadIds, OutOfDate, Most
<1>9. QED
  BY <1>2, <1>3, <1>4, <1>5, <1>6, <1>7, <1>8 DEF Next

(***************************************************************************)
(* The theorems.                                                           *)
(***************************************************************************)
\* The variables keep their types: no worker mints for an installation it does
\* not know, and none sends a request without a token.
THEOREM TypeCorrect == Spec => []TypeOK
<1>1. FewInv => TypeOK
  BY SaneTypes DEF FewInv
<1>2. FewInv /\ [Next]_vars => FewInv'
  BY FewStep
<1>3. QED
  BY FewInit, <1>1, <1>2, PTL DEF Spec

\* The sum bounds the losses.
LEMMA AccountBounds == FewInv => RevocationCostsFew
<1> SUFFICES ASSUME FewInv PROVE RevocationCostsFew
  OBVIOUS
<1> DEFINE a == Cardinality(Worker) * Ahead
           m == Cardinality(Worker) * (1 + Most)
<1>1. Sane /\ lost + Cardinality(Charged) + Cardinality(Troubled) + a <= m + spent.troubles
  BY DEF FewInv, Account
<1>2. a \in Nat
  BY Limits, Sizes, Products
<1>3. m \in Nat /\ Most \in Nat
  BY <1>1, MostType
<1>4. lost \in Nat /\ spent.troubles \in Nat
  BY <1>1, CapType, Limits DEF Sane
<1>5. 1 + Most = 1 + installed + 2 * Cardinality(Worker) + Cardinality(Repo)
  BY <1>1, Limits DEF Most, Sane, Id
<1>6. RevocationCostsFew <=> lost <= m + spent.troubles
  BY <1>5 DEF RevocationCostsFew
<1> HIDE DEF a, m
<1>7. QED
  BY <1>1, <1>2, <1>3, <1>4, <1>6, Sizes

\* After a revocation only finitely many requests are lost, however many
\* workers, repositories and installations there are.
THEOREM LossesBounded == Spec => []RevocationCostsFew
<1>1. FewInv /\ [Next]_vars => FewInv'
  BY FewStep
<1>2. QED
  BY FewInit, AccountBounds, <1>1, PTL DEF Spec
=============================================================================
