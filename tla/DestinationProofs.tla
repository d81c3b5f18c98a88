--------------------------- MODULE DestinationProofs ---------------------------
(***************************************************************************)
(* Theorems about the destination of an error: whether its repository      *)
(* takes it (RepoAvailability), for any number of workers and repositories *)
(* and any cooldown; and which repository and which issue it is            *)
(* (Identity), for any services, rules, programs, stacks and builds.  The  *)
(* two specifications share no state and are proved about one by one.      *)
(*                                                                         *)
(* The argument for RepoAvailability.  SkippingHasRecentCause compares a   *)
(* mark with the time since Issues were off.  Time moves both by the same  *)
(* amount; what is left to see is that a fresh mark is never older than    *)
(* its cause, which takes the link between the setting and its history     *)
(* (OffIsNow): a 410 is only answered while Issues are off.                *)
(*                                                                         *)
(* The argument for the routes.  Of the rules that match a service one     *)
(* comes before all others (WinnerExists), and resolve() takes that one    *)
(* (ResolveWins).  Put another rule in between and the order of the others *)
(* is what it was (PlaceFacts), so the winner stays unless the new rule    *)
(* comes before it (WinnerStays), and whoever outranks the new rule in     *)
(* specificity makes the winner outrank it, too (OutranksOn).              *)
(*                                                                         *)
(* The argument for the fingerprints.  Wherever a Python trace is cut, the *)
(* last File line is the one of the raise (EndsIn), and the other runtimes *)
(* print that frame before any other and no File line (StartsIn).  Both    *)
(* survive what is printed around them, so top_frame finds the frame, and  *)
(* what is left of it (Raised) names the site and nothing more.            *)
(***************************************************************************)
EXTENDS RepoAvailability, Identity, SequenceTheorems, WellFoundedInduction, TLAPS

(***************************************************************************)
(* The repository cooldown.                                                *)
(***************************************************************************)
\* A repository whose Issues are off was last off now.
OffIsNow == \A p \in Repo : p \notin issuesOn => sinceOff[p] = 0

\* The inductive invariant.
CauseInv == TypeOK /\ OffIsNow /\ SkippingHasRecentCause

LEMMA IdleType == Idle.pc = "idle" /\ Idle.repo \in Repo
  BY CooldownConstants DEF Idle

Job == [pc : {"idle", "lookup", "create", "update", "comment"}, repo : Repo]

(***************************************************************************)
(* What the parts of a step do to types.                                   *)
(***************************************************************************)
\* Ending a filing, sending its next request and taking an error keep job.
LEMMA JobKept ==
  ASSUME TypeOK, NEW w \in Worker
  PROVE  /\ Finish(w) => job' \in [Worker -> Job]
         /\ \A pc \in {"create", "update", "comment"} :
               Send(w, pc) => job' \in [Worker -> Job]
         /\ \A p \in Repo :
               job' = [job EXCEPT ![w] = [pc |-> "lookup", repo |-> p]] =>
                  job' \in [Worker -> Job]
<1>1. job \in [Worker -> Job] /\ job[w] \in Job
  BY DEF TypeOK, Job
<1>2. Idle \in Job
  BY IdleType DEF Idle, Job
<1>3. ASSUME NEW pc \in {"create", "update", "comment"}
      PROVE  [job[w] EXCEPT !.pc = pc] \in Job
  BY <1>1 DEF Job
<1>4. ASSUME NEW p \in Repo
      PROVE  [pc |-> "lookup", repo |-> p] \in Job
  BY DEF Job
<1>5. Finish(w) => job' \in [Worker -> Job]
  BY <1>1, <1>2 DEF Finish
<1>6. ASSUME NEW pc \in {"create", "update", "comment"}, Send(w, pc)
      PROVE  job' \in [Worker -> Job]
  BY <1>1, <1>3, <1>6 DEF Send
<1>7. QED
  BY <1>1, <1>4, <1>5, <1>6

\* Setting and dropping the mark of p keep left, and touch no other mark.
LEMMA MarkKept ==
  ASSUME TypeOK, NEW p \in Repo, MarkUnavailable(p) \/ MarkAvailable(p)
  PROVE  /\ left' \in [Repo -> {NoEntry} \cup 0..Cooldown]
         /\ \A q \in Repo \ {p} : left'[q] = left[q]
         /\ MarkUnavailable(p) => left'[p] = Cooldown
         /\ MarkAvailable(p) => left'[p] = NoEntry
<1>1. Cooldown \in 0..Cooldown
  BY CooldownConstants
<1>2. QED
  BY <1>1 DEF TypeOK, MarkUnavailable, MarkAvailable

(***************************************************************************)
(* A step keeps the invariant.                                             *)
(***************************************************************************)
\* A step of a worker that leaves the environment alone and either drops a
\* mark, leaves all of them, or sets one where Issues are off.
LEMMA WorkerStep ==
  ASSUME CauseInv, job' \in [Worker -> Job], UNCHANGED Environment,
         \/ UNCHANGED left
         \/ \E p \in Repo : MarkAvailable(p)
         \/ \E p \in Repo \ issuesOn : MarkUnavailable(p)
  PROVE  CauseInv'
<1> USE DEF CauseInv, Environment
<1>1. left' \in [Repo -> {NoEntry} \cup 0..Cooldown]
  BY MarkKept DEF TypeOK
<1>2. TypeOK'
  BY <1>1 DEF TypeOK, Job
<1>3. OffIsNow'
  BY DEF OffIsNow
<1>4. ASSUME NEW q \in Repo, CoolingDown(q)'
      PROVE  sinceOff'[q] <= Cooldown - left'[q]
  <2>1. CASE left'[q] = left[q]
    BY <1>4, <2>1 DEF SkippingHasRecentCause, CoolingDown
  <2>2. CASE left'[q] = Cooldown /\ q \notin issuesOn
    BY <2>2, CooldownConstants DEF OffIsNow
  <2>3. left'[q] # NoEntry
    BY <1>4 DEF CoolingDown, NoEntry
  <2>4. QED
    BY <2>1, <2>2, <2>3, MarkKept
<1>5. SkippingHasRecentCause'
  BY <1>4 DEF SkippingHasRecentCause
<1>6. QED
  BY <1>2, <1>3, <1>5

\* People switch the setting: the repository was off until now or is now.
LEMMA SwitchStep ==
  ASSUME CauseInv, NEW p \in Repo, SwitchIssues(p)
  PROVE  CauseInv'
<1> USE DEF CauseInv, SwitchIssues
<1>1. 0 \in 0..(Cooldown + 1)
  BY CooldownConstants
<1>2. sinceOff' \in [Repo -> 0..(Cooldown + 1)] /\ sinceOff'[p] = 0
  BY <1>1 DEF TypeOK
<1>3. \A q \in Repo \ {p} : sinceOff'[q] = sinceOff[q]
  BY DEF TypeOK
<1>4. issuesOn' \subseteq Repo /\ switches' \in 0..MaxSwitches
  BY CooldownConstants DEF TypeOK
<1>5. TypeOK'
  BY <1>2, <1>4 DEF TypeOK
<1>6. OffIsNow'
  BY <1>2, <1>3 DEF OffIsNow
<1>7. ASSUME NEW q \in Repo, CoolingDown(q)'
      PROVE  sinceOff'[q] <= Cooldown - left'[q]
  <2>1. left'[q] = left[q] /\ left[q] \in 0..Cooldown
    BY <1>7 DEF TypeOK, CoolingDown, NoEntry
  <2>2. CASE q = p
    BY <1>2, <2>1, <2>2, CooldownConstants
  <2>3. CASE q # p
    BY <1>3, <1>7, <2>1, <2>3 DEF SkippingHasRecentCause, CoolingDown
  <2>4. QED
    BY <2>2, <2>3
<1>8. SkippingHasRecentCause'
  BY <1>7 DEF SkippingHasRecentCause
<1>9. QED
  BY <1>5, <1>6, <1>8

\* Time passes for the marks and for their causes alike.
LEMMA TickStep ==
  ASSUME CauseInv, Tick
  PROVE  CauseInv'
<1> USE DEF CauseInv
<1>1. ASSUME NEW q \in Repo
      PROVE  /\ left'[q] = (IF left[q] > 0 THEN left[q] - 1 ELSE left[q])
             /\ left'[q] \in {NoEntry} \cup 0..Cooldown
             /\ sinceOff'[q] \in 0..(Cooldown + 1)
             /\ q \notin issuesOn => sinceOff'[q] = 0
             /\ sinceOff'[q] <= sinceOff[q] + 1
  <2>1. /\ left[q] \in {NoEntry} \cup 0..Cooldown
        /\ sinceOff[q] \in 0..(Cooldown + 1)
    BY DEF TypeOK
  <2>2. left'[q] = (IF left[q] > 0 THEN left[q] - 1 ELSE left[q])
    BY DEF Tick
  <2>3. sinceOff'[q] = (IF q \notin issuesOn THEN 0
                        ELSE IF sinceOff[q] <= Cooldown THEN sinceOff[q] + 1
                        ELSE sinceOff[q])
    BY DEF Tick
  <2>4. left'[q] \in {NoEntry} \cup 0..Cooldown
    BY <2>1, <2>2, CooldownConstants DEF NoEntry
  <2>5. QED
    BY <2>1, <2>2, <2>3, <2>4, CooldownConstants
<1>2. left' \in [Repo -> {NoEntry} \cup 0..Cooldown]
  BY <1>1 DEF Tick
<1>3. sinceOff' \in [Repo -> 0..(Cooldown + 1)]
  BY <1>1 DEF Tick
<1>4. TypeOK'
  BY <1>2, <1>3 DEF TypeOK, Tick
<1>5. OffIsNow'
  BY <1>1 DEF OffIsNow, Tick
<1>6. ASSUME NEW q \in Repo, CoolingDown(q)'
      PROVE  sinceOff'[q] <= Cooldown - left'[q]
  <2>1. /\ left[q] \in {NoEntry} \cup 0..Cooldown
        /\ sinceOff[q] \in 0..(Cooldown + 1)
        /\ sinceOff'[q] \in 0..(Cooldown + 1)
    BY <1>1 DEF TypeOK
  <2>2. left[q] > 0 /\ left'[q] = left[q] - 1
    BY <1>1, <1>6, <2>1 DEF CoolingDown, NoEntry
  <2>3. sinceOff[q] <= Cooldown - left[q]
    BY <2>2 DEF SkippingHasRecentCause, CoolingDown
  <2>4. QED
    BY <1>1, <2>1, <2>2, <2>3, CooldownConstants DEF NoEntry
<1>7. SkippingHasRecentCause'
  BY <1>6 DEF SkippingHasRecentCause
<1>8. QED
  BY <1>4, <1>5, <1>7

LEMMA CauseInit == Init => CauseInv
<1> SUFFICES ASSUME Init PROVE CauseInv
  OBVIOUS
<1>1. Idle \in Job
  BY IdleType DEF Idle, Job
<1>2. 0 \in 0..MaxSwitches /\ Cooldown + 1 \in 0..(Cooldown + 1)
  BY CooldownConstants
<1>3. TypeOK
  BY <1>1, <1>2 DEF Init, TypeOK, Job
<1>4. OffIsNow
  BY DEF Init, OffIsNow
<1>5. SkippingHasRecentCause
  BY DEF Init, SkippingHasRecentCause, CoolingDown, NoEntry
<1>6. QED
  BY <1>3, <1>4, <1>5 DEF CauseInv

LEMMA CauseStep ==
  ASSUME CauseInv, [Next]_vars
  PROVE  CauseInv'
<1>1. job \in [Worker -> Job] /\ \A w \in Worker : job[w].repo \in Repo
  BY DEF CauseInv, TypeOK, Job
<1>2. CASE UNCHANGED vars
  BY <1>1, <1>2, WorkerStep DEF vars, Environment
<1>3. ASSUME NEW w \in Worker, NEW p \in Repo, Skip(w, p)
      PROVE  CauseInv'
  BY <1>1, <1>3, WorkerStep DEF Skip, vars, Environment
<1>4. ASSUME NEW w \in Worker, NEW p \in Repo, Start(w, p)
      PROVE  CauseInv'
  BY <1>4, JobKept, WorkerStep DEF Start, CauseInv
<1>5. ASSUME NEW w \in Worker, RefusedAsUnavailable(w)
      PROVE  CauseInv'
  BY <1>1, <1>5, JobKept, WorkerStep DEF RefusedAsUnavailable, CauseInv
<1>6. ASSUME NEW w \in Worker, Lookup(w)
      PROVE  CauseInv'
  <2>1. Send(w, "update") \/ Send(w, "create")
    BY <1>6 DEF Lookup
  <2>2. QED
    BY <1>6, <2>1, JobKept, WorkerStep DEF Lookup, CauseInv
<1>7. ASSUME NEW w \in Worker, Create(w)
      PROVE  CauseInv'
  BY <1>1, <1>7, JobKept, WorkerStep DEF Create, CauseInv
<1>8. ASSUME NEW w \in Worker, Update(w)
      PROVE  CauseInv'
  BY <1>1, <1>8, JobKept, WorkerStep DEF Update, CauseInv
<1>9. ASSUME NEW w \in Worker, Comment(w)
      PROVE  CauseInv'
  BY <1>1, <1>9, JobKept, WorkerStep DEF Comment, CauseInv
<1>10. ASSUME NEW w \in Worker, Fail(w)
       PROVE  CauseInv'
  BY <1>10, JobKept, WorkerStep DEF Fail, CauseInv
<1>11. QED
  BY <1>2, <1>3, <1>4, <1>5, <1>6, <1>7, <1>8, <1>9, <1>10,
     SwitchStep, TickStep DEF Next, Step

\* The marks, the workers and the history keep their types.
THEOREM TypeCorrect == Spec => []TypeOK
<1>1. CauseInv => TypeOK
  BY DEF CauseInv
<1>2. QED
  BY CauseInit, CauseStep, <1>1, PTL DEF Spec

\* file() skips an error only for a 410 answered within the cooldown: a mark
\* with k ticks left has seen Issues off no more than Cooldown - k ticks ago.
THEOREM SkipsHaveCause == Spec => []SkippingHasRecentCause
<1>1. CauseInv => SkippingHasRecentCause
  BY DEF CauseInv
<1>2. QED
  BY CauseInit, CauseStep, <1>1, PTL DEF Spec

(***************************************************************************)
(* Numbers and sequences.                                                  *)
(***************************************************************************)
\* What holds of 0, and of the next number with each, holds of all.
LEMMA Counting ==
  ASSUME NEW S, 0 \in S, \A n \in Nat : n \in S => n + 1 \in S
  PROVE  Nat \subseteq S
<1> DEFINE out == Nat \ S
           below == {xy \in Nat \X Nat : xy[1] < xy[2]}
<1>1. SUFFICES ASSUME out # {} PROVE FALSE
  OBVIOUS
<1>2. PICK n \in out : \A k \in out : <<k, n>> \notin below
  <2>1. IsWellFoundedOn(below, Nat)
    BY NatLessThanWellFounded DEF OpToRel
  <2>2. out \subseteq Nat
    OBVIOUS
  <2> HIDE DEF below, out
  <2>3. QED
    BY <1>1, <2>1, <2>2, WFMin
<1>3. n \in Nat /\ n # 0 /\ n \notin S
  OBVIOUS
<1>4. n - 1 \in Nat /\ n - 1 < n /\ (n - 1) + 1 = n
  BY <1>3
<1>5. n - 1 \notin S
  BY <1>3, <1>4
<1>6. n - 1 \in out /\ <<n - 1, n>> \in below
  BY <1>3, <1>4, <1>5
<1>7. QED
  BY <1>2, <1>6

\* The largest of a set is the one that is not below another.
LEMMA MaxIs ==
  ASSUME NEW S \in SUBSET Nat, NEW m \in S, \A x \in S : x <= m
  PROVE  Max(S) = m
<1>1. \A x \in S : m >= x
  OBVIOUS
<1>2. \A y \in S : (\A x \in S : y >= x) => y = m
  OBVIOUS
<1>3. QED
  BY <1>1, <1>2 DEF Max

\* Every set of numbers has a least one.
LEMMA MinFacts ==
  ASSUME NEW S \in SUBSET Nat, S # {}
  PROVE  Min(S) \in S /\ \A x \in S : Min(S) <= x
<1> DEFINE below == {xy \in Nat \X Nat : xy[1] < xy[2]}
<1>1. PICK n \in S : \A k \in S : <<k, n>> \notin below
  <2>1. IsWellFoundedOn(below, Nat)
    BY NatLessThanWellFounded DEF OpToRel
  <2> HIDE DEF below
  <2>2. QED
    BY <2>1, WFMin
<1>2. ASSUME NEW k \in S PROVE n <= k
  <2>1. k \in Nat /\ n \in Nat /\ <<k, n>> \notin below
    BY <1>1
  <2>2. ~ (k < n)
    BY <2>1
  <2>3. QED
    BY <2>1, <2>2
<1>3. QED
  BY <1>2 DEF Min

\* A set of numbers with an upper bound has a largest one.
LEMMA MaxFacts ==
  ASSUME NEW S \in SUBSET Nat, S # {}, NEW bound \in Nat, \A x \in S : x <= bound
  PROVE  Max(S) \in S /\ \A x \in S : x <= Max(S)
<1> DEFINE B == {b \in Nat : \A x \in S : x <= b}
<1>1. Min(B) \in B /\ \A b \in B : Min(B) <= b
  <2>1. B \in SUBSET Nat /\ B # {}
    OBVIOUS
  <2> HIDE DEF B
  <2>2. QED
    BY <2>1, MinFacts
<1> DEFINE m == Min(B)
<1>2. m \in Nat /\ (\A x \in S : x <= m) /\ \A b \in B : m <= b
  BY <1>1
<1> HIDE DEF m
<1>3. m \in S
  <2>1. SUFFICES ASSUME m \notin S PROVE FALSE
    OBVIOUS
  <2>2. PICK x \in S : x \in Nat
    OBVIOUS
  <2>3. x <= m /\ x # m
    BY <1>2, <2>1, <2>2
  <2>4. m - 1 \in Nat
    BY <1>2, <2>2, <2>3
  <2>5. \A y \in S : y <= m - 1
    <3> TAKE y \in S
    <3>1. y \in Nat /\ y <= m /\ y # m
      BY <1>2, <2>1
    <3>2. QED
      BY <1>2, <3>1
  <2>6. m <= m - 1
    BY <1>2, <2>4, <2>5
  <2>7. QED
    BY <1>2, <2>6
<1>4. Max(S) = m
  BY <1>2, <1>3, MaxIs
<1>5. QED
  BY <1>2, <1>3, <1>4

\* The start of a sequence.
LEMMA StartFacts ==
  ASSUME NEW X, NEW s \in Seq(X), NEW n \in 0..Len(s)
  PROVE  /\ SubSeq(s, 1, n) \in Seq(X)
         /\ Len(SubSeq(s, 1, n)) = n
         /\ \A k \in 1..n : SubSeq(s, 1, n)[k] = s[k]
<1>1. n \in Nat /\ n <= Len(s)
  OBVIOUS
<1>2. \A k \in 1..n : s[k] \in X
  BY <1>1
<1>3. /\ SubSeq(s, 1, n) \in Seq(X)
      /\ Len(SubSeq(s, 1, n)) = IF 1 <= n THEN n - 1 + 1 ELSE 0
      /\ \A k \in 1..(n - 1 + 1) : SubSeq(s, 1, n)[k] = s[1 + k - 1]
  BY <1>1, <1>2, SubSeqProperties
<1>4. n - 1 + 1 = n /\ \A k \in 1..n : 1 + k - 1 = k
  BY <1>1
<1>5. QED
  BY <1>1, <1>3, <1>4

\* A sequence without one of its members.
LEMMA RemoveFacts ==
  ASSUME NEW X, NEW s \in Seq(X), NEW p \in 1..Len(s)
  PROVE  /\ RemoveAt(s, p) \in Seq(X)
         /\ Len(RemoveAt(s, p)) = Len(s) - 1
         /\ \A k \in 1..(Len(s) - 1) : RemoveAt(s, p)[k] = IF k < p THEN s[k] ELSE s[k + 1]
<1> DEFINE a == SubSeq(s, 1, p - 1)
           b == SubSeq(s, p + 1, Len(s))
<1>1. a \in Seq(X) /\ Len(a) = p - 1 /\ \A k \in 1..(p - 1) : a[k] = s[k]
  <2>1. p - 1 \in 0..Len(s)
    OBVIOUS
  <2>2. QED
    BY <2>1, StartFacts
<1>2. b \in Seq(X) /\ Len(b) = Len(s) - p /\ \A k \in 1..(Len(s) - p) : b[k] = s[p + k]
  OBVIOUS
<1> HIDE DEF a, b
<1>3. /\ a \o b \in Seq(X) /\ Len(a \o b) = Len(a) + Len(b)
      /\ \A k \in 1..(Len(a) + Len(b)) :
            (a \o b)[k] = IF k <= Len(a) THEN a[k] ELSE b[k - Len(a)]
  BY <1>1, <1>2, ConcatProperties
<1>4. Len(a) + Len(b) = Len(s) - 1
  BY <1>1, <1>2
<1>5. ASSUME NEW k \in 1..(Len(s) - 1)
      PROVE  (a \o b)[k] = IF k < p THEN s[k] ELSE s[k + 1]
  <2>1. CASE k < p
    <3>1. k \in 1..(p - 1) /\ k <= Len(a)
      BY <1>1, <2>1
    <3>2. QED
      BY <1>1, <1>3, <1>4, <2>1, <3>1
  <2>2. CASE ~ (k < p)
    <3>1. /\ ~ (k <= Len(a)) /\ k - Len(a) \in 1..(Len(s) - p)
          /\ p + (k - Len(a)) = k + 1
      BY <1>1, <2>2
    <3>2. QED
      BY <1>2, <1>3, <1>4, <2>2, <3>1
  <2>3. QED
    BY <2>1, <2>2
<1>6. RemoveAt(s, p) = a \o b
  BY DEF RemoveAt, a, b
<1>7. QED
  BY <1>3, <1>4, <1>5, <1>6

\* A sequence with another member.
LEMMA InsertFacts ==
  ASSUME NEW X, NEW s \in Seq(X), NEW p \in 1..(Len(s) + 1), NEW x \in X
  PROVE  /\ InsertAt(s, p, x) \in Seq(X)
         /\ Len(InsertAt(s, p, x)) = Len(s) + 1
         /\ \A k \in 1..(Len(s) + 1) :
               InsertAt(s, p, x)[k] = IF k < p THEN s[k] ELSE IF k = p THEN x ELSE s[k - 1]
<1> DEFINE a == SubSeq(s, 1, p - 1)
           b == SubSeq(s, p, Len(s))
           e == Append(a, x)
<1>1. a \in Seq(X) /\ Len(a) = p - 1 /\ \A k \in 1..(p - 1) : a[k] = s[k]
  <2>1. p - 1 \in 0..Len(s)
    OBVIOUS
  <2>2. QED
    BY <2>1, StartFacts
<1>2. /\ b \in Seq(X) /\ Len(b) = Len(s) - p + 1
      /\ \A k \in 1..(Len(s) - p + 1) : b[k] = s[p + k - 1]
  OBVIOUS
<1> HIDE DEF a, b
<1>3. e \in Seq(X) /\ Len(e) = p /\ e[p] = x /\ \A k \in 1..(p - 1) : e[k] = a[k]
  BY <1>1
<1>4. a \o <<x>> = e
  BY <1>1, <1>3
<1> HIDE DEF e
<1>5. /\ e \o b \in Seq(X) /\ Len(e \o b) = Len(e) + Len(b)
      /\ \A k \in 1..(Len(e) + Len(b)) :
            (e \o b)[k] = IF k <= Len(e) THEN e[k] ELSE b[k - Len(e)]
  BY <1>2, <1>3, ConcatProperties
<1>6. Len(e) + Len(b) = Len(s) + 1
  BY <1>2, <1>3
<1>7. ASSUME NEW k \in 1..(Len(s) + 1)
      PROVE  (e \o b)[k] = IF k < p THEN s[k] ELSE IF k = p THEN x ELSE s[k - 1]
  <2>1. CASE k < p
    <3>1. k \in 1..(p - 1) /\ k <= Len(e)
      BY <1>3, <2>1
    <3>2. QED
      BY <1>1, <1>3, <1>5, <1>6, <2>1, <3>1
  <2>2. CASE k = p
    <3>1. p \in 1..(Len(e) + Len(b)) /\ p <= Len(e)
      BY <1>3, <1>6
    <3>2. (e \o b)[p] = x
      BY <1>3, <1>5, <3>1
    <3>3. ~ (k < p)
      BY <2>2
    <3>4. QED
      BY <2>2, <3>2, <3>3, Zenon
  <2>3. CASE k > p
    <3>1. /\ ~ (k <= Len(e)) /\ k - Len(e) \in 1..(Len(s) - p + 1)
          /\ p + (k - Len(e)) - 1 = k - 1 /\ ~ (k < p) /\ k # p
      BY <1>3, <2>3
    <3>2. QED
      BY <1>2, <1>5, <1>6, <3>1
  <2>4. k < p \/ k = p \/ k > p
    OBVIOUS
  <2>5. QED
    BY <2>1, <2>2, <2>3, <2>4, Zenon
<1>8. InsertAt(s, p, x) = e \o b
  BY <1>4 DEF InsertAt, a, b
<1>9. QED
  BY <1>5, <1>6, <1>7, <1>8

\* Texts joined one after the other, up to the n-th.
IsFlat(f, ss, n) == f = [k \in 1..n |-> IF k = 1 THEN ss[k] ELSE f[k - 1] \o ss[k]]

LEMMA FlatExists ==
  ASSUME NEW ss, NEW n \in Nat
  PROVE  \E f : IsFlat(f, ss, n)
<1> DEFINE S == {j \in Nat : \E f : IsFlat(f, ss, j)}
<1>1. 0 \in S
  <2> DEFINE f == [k \in 1..0 |-> 0]
  <2>1. IsFlat(f, ss, 0)
    BY DEF IsFlat
  <2>2. QED
    BY <2>1
<1>2. ASSUME NEW j \in Nat, j \in S PROVE j + 1 \in S
  <2>1. PICK f : IsFlat(f, ss, j)
    BY <1>2
  <2> DEFINE g == [k \in 1..(j + 1) |-> IF k = 1 THEN ss[k] ELSE f[k - 1] \o ss[k]]
  <2>2. \A k \in 1..j : f[k] = g[k]
    <3>1. \A k \in 1..j : k \in 1..(j + 1)
      OBVIOUS
    <3>2. \A k \in 1..j : f[k] = IF k = 1 THEN ss[k] ELSE f[k - 1] \o ss[k]
      BY <2>1 DEF IsFlat
    <3>3. QED
      BY <3>1, <3>2
  <2>3. \A k \in 1..(j + 1) : k # 1 => k - 1 \in 1..j
    OBVIOUS
  <2>4. \A k \in 1..(j + 1) :
           g[k] = IF k = 1 THEN ss[k] ELSE g[k - 1] \o ss[k]
    <3> TAKE k \in 1..(j + 1)
    <3>1. g[k] = IF k = 1 THEN ss[k] ELSE f[k - 1] \o ss[k]
      OBVIOUS
    <3> HIDE DEF g
    <3>2. QED
      BY <2>2, <2>3, <3>1
  <2>5. g = [k \in 1..(j + 1) |-> g[k]]
    OBVIOUS
  <2> HIDE DEF g
  <2>6. IsFlat(g, ss, j + 1)
    BY <2>4, <2>5 DEF IsFlat
  <2>7. QED
    BY <2>6
<1>3. Nat \subseteq S
  <2>1. \A j \in Nat : j \in S => j + 1 \in S
    BY <1>2
  <2> HIDE DEF S
  <2>2. QED
    BY <1>1, <2>1, Counting
<1>4. QED
  BY <1>3

(***************************************************************************)
(* Routes.                                                                 *)
(***************************************************************************)
LEMMA RuleFacts ==
  ASSUME NEW rs \in Seq(Rule)
  PROVE  /\ DOMAIN rs = 1..Len(rs) /\ Len(rs) \in Nat
         /\ \A k \in 1..Len(rs) : rs[k].pattern.specificity \in Nat /\ rs[k].pattern.glob \in BOOLEAN
<1>1. ASSUME NEW k \in 1..Len(rs)
      PROVE  rs[k].pattern.specificity \in Nat /\ rs[k].pattern.glob \in BOOLEAN
  <2>1. rs[k] \in Rule
    OBVIOUS
  <2>2. rs[k].pattern \in Pattern
    BY <2>1, RoutingConstants
  <2>3. QED
    BY <2>2 DEF Pattern
<1>2. QED
  BY <1>1

\* The k-th rule comes before the j-th for a service that both match.
Beats(rs, k, j) ==
    \/ ~ rs[k].pattern.glob /\ rs[j].pattern.glob
    \/ ~ rs[k].pattern.glob /\ ~ rs[j].pattern.glob /\ k > j
    \/ /\ rs[k].pattern.glob /\ rs[j].pattern.glob
       /\ \/ rs[k].pattern.specificity > rs[j].pattern.specificity
          \/ rs[k].pattern.specificity = rs[j].pattern.specificity /\ k < j

\* The rule that decides for a service.
Wins(rs, s, k) ==
    /\ k \in 1..Len(rs) /\ Concerns(rs[k], s)
    /\ \A j \in 1..Len(rs) : (Concerns(rs[j], s) /\ j # k) => Beats(rs, k, j)

\* The service goes where the winner points.
LEMMA ResolveWins ==
  ASSUME NEW rs \in Seq(Rule), NEW s, NEW k, Wins(rs, s, k)
  PROVE  Resolve(rs, s) = rs[k].repo
<1> DEFINE E == Exact(rs, s)
           G == Globs(rs, s)
           Literal(j) == rs[j].pattern.specificity
<1>1. /\ k \in 1..Len(rs) /\ s # Unnamed /\ s \in rs[k].pattern.matches
      /\ \A j \in 1..Len(rs) : (s \in rs[j].pattern.matches /\ j # k) => Beats(rs, k, j)
  BY DEF Wins, Concerns
<1>2. /\ DOMAIN rs = 1..Len(rs)
      /\ \A j \in 1..Len(rs) : Literal(j) \in Nat
  BY RuleFacts
<1>3. /\ \A j : j \in E <=> /\ j \in 1..Len(rs) /\ ~ rs[j].pattern.glob
                            /\ s \in rs[j].pattern.matches
      /\ \A j : j \in G <=> /\ j \in 1..Len(rs) /\ rs[j].pattern.glob
                            /\ s \in rs[j].pattern.matches
  BY <1>2 DEF Exact, Globs
<1> HIDE DEF E, G
<1>4. CASE ~ rs[k].pattern.glob
  <2>1. k \in E /\ E \in SUBSET Nat
    BY <1>1, <1>3, <1>4
  <2>2. \A j \in E : j <= k
    <3> TAKE j \in E
    <3>1. j \in 1..Len(rs) /\ (j # k => Beats(rs, k, j)) /\ ~ rs[j].pattern.glob
      BY <1>1, <1>3
    <3>2. QED
      BY <1>1, <1>4, <3>1 DEF Beats
  <2>3. Max(E) = k
    BY <2>1, <2>2, MaxIs
  <2>4. QED
    BY <1>1, <2>1, <2>3 DEF Resolve, E
<1>5. CASE rs[k].pattern.glob
  <2>1. k \in G /\ G \in SUBSET Nat
    BY <1>1, <1>3, <1>5
  <2>2. E = {}
    <3> SUFFICES ASSUME NEW j \in E PROVE FALSE
      OBVIOUS
    <3>1. j \in 1..Len(rs) /\ (j # k => Beats(rs, k, j)) /\ ~ rs[j].pattern.glob
      BY <1>1, <1>3
    <3>2. j # k
      BY <1>5, <3>1
    <3>3. QED
      BY <1>5, <3>1, <3>2 DEF Beats
  <2>3. \A j \in G : Literal(j) <= Literal(k) /\ (Literal(j) = Literal(k) => k <= j)
    <3> TAKE j \in G
    <3>1. j \in 1..Len(rs) /\ (j # k => Beats(rs, k, j)) /\ rs[j].pattern.glob
      BY <1>1, <1>3
    <3>2. Literal(j) \in Nat /\ Literal(k) \in Nat
      BY <1>1, <1>2, <3>1
    <3>3. CASE j = k
      BY <1>1, <3>2, <3>3
    <3>4. CASE j # k
      BY <1>1, <1>5, <3>1, <3>2, <3>4 DEF Beats
    <3>5. QED
      BY <3>3, <3>4
  <2> DEFINE S == {Literal(j) : j \in G}
             most == Max(S)
             F == {j \in G : Literal(j) = most}
  <2>4. most = Literal(k)
    <3>1. S \in SUBSET Nat /\ Literal(k) \in S /\ \A x \in S : x <= Literal(k)
      BY <1>2, <1>3, <2>1, <2>3
    <3> HIDE DEF S
    <3>2. QED
      BY <3>1, MaxIs
  <2> HIDE DEF most
  <2>5. k \in F /\ F \in SUBSET Nat /\ \A j \in F : k <= j
    BY <2>1, <2>3, <2>4
  <2>6. Foremost(rs, G) = Min(F)
    BY DEF Foremost, most
  <2> HIDE DEF F
  <2>7. Min(F) = k
    <3>1. Min(F) \in F /\ \A j \in F : Min(F) <= j
      BY <2>5, MinFacts
    <3>2. Min(F) \in Nat /\ k \in Nat /\ Min(F) <= k /\ k <= Min(F)
      BY <2>5, <3>1
    <3>3. QED
      BY <3>2
  <2>8. QED
    BY <1>1, <2>1, <2>2, <2>6, <2>7 DEF Resolve, E, G
<1>6. QED
  BY <1>4, <1>5

\* Without a rule that matches it goes to the default.
LEMMA ResolveNone ==
  ASSUME NEW rs \in Seq(Rule), NEW s, \A j \in 1..Len(rs) : ~ Concerns(rs[j], s)
  PROVE  Resolve(rs, s) = Default
<1>1. CASE s = Unnamed
  BY <1>1 DEF Resolve
<1>2. CASE s # Unnamed
  <2>1. \A j \in DOMAIN rs : s \notin rs[j].pattern.matches
    BY <1>2, RuleFacts DEF Concerns
  <2>2. Exact(rs, s) = {} /\ Globs(rs, s) = {}
    BY <2>1 DEF Exact, Globs
  <2>3. QED
    BY <1>2, <2>2 DEF Resolve
<1>3. QED
  BY <1>1, <1>2

\* What the members of a sequence measure is bounded.
LEMMA MeasureBounded ==
  ASSUME NEW n \in Nat, NEW f \in [1..n -> Nat]
  PROVE  \E bound \in Nat : \A j \in 1..n : f[j] <= bound
<1> DEFINE S == {m \in Nat : m <= n => \E bound \in Nat : \A j \in 1..m : f[j] <= bound}
<1>1. 0 \in S
  OBVIOUS
<1>2. ASSUME NEW m \in Nat, m \in S PROVE m + 1 \in S
  <2>1. SUFFICES ASSUME m + 1 <= n
                 PROVE  \E bound \in Nat : \A j \in 1..(m + 1) : f[j] <= bound
    OBVIOUS
  <2>2. PICK b \in Nat : \A j \in 1..m : f[j] <= b
    BY <1>2, <2>1
  <2>3. f[m + 1] \in Nat
    BY <2>1
  <2>4. b + f[m + 1] \in Nat
    BY <2>3
  <2>5. \A j \in 1..(m + 1) : f[j] <= b + f[m + 1]
    <3> TAKE j \in 1..(m + 1)
    <3>1. CASE j = m + 1
      BY <2>3, <3>1
    <3>2. CASE j \in 1..m
      <4>1. f[j] \in Nat /\ f[j] <= b
        BY <2>1, <2>2, <3>2
      <4>2. QED
        BY <2>3, <4>1
    <3>3. QED
      BY <3>1, <3>2
  <2>6. QED
    BY <2>4, <2>5
<1>3. Nat \subseteq S
  <2>1. \A m \in Nat : m \in S => m + 1 \in S
    BY <1>2
  <2> HIDE DEF S
  <2>2. QED
    BY <1>1, <2>1, Counting
<1>4. n \in S
  BY <1>3
<1>5. QED
  BY <1>4

\* Among the rules that match a service one decides.
LEMMA WinnerExists ==
  ASSUME NEW rs \in Seq(Rule), NEW s, NEW i \in 1..Len(rs), Concerns(rs[i], s)
  PROVE  \E k : Wins(rs, s, k)
<1> DEFINE C == {j \in 1..Len(rs) : Concerns(rs[j], s)}
           E == {j \in C : ~ rs[j].pattern.glob}
<1>1. i \in C /\ C \in SUBSET (1..Len(rs)) /\ Len(rs) \in Nat
  BY RuleFacts
<1>2. \A j \in C : j \in Nat /\ rs[j].pattern.specificity \in Nat
                   /\ rs[j].pattern.glob \in BOOLEAN
  BY RuleFacts
<1>3. CASE E # {}
  <2>1. E \in SUBSET Nat /\ \A j \in E : j <= Len(rs)
    BY <1>1
  <2> DEFINE k == Max(E)
  <2>2. k \in E /\ \A j \in E : j <= k
    <3> HIDE DEF E
    <3>1. QED
      BY <1>1, <1>3, <2>1, MaxFacts
  <2> HIDE DEF k
  <2>3. ASSUME NEW j \in C, j # k PROVE Beats(rs, k, j)
    <3>1. CASE rs[j].pattern.glob
      BY <2>2, <3>1 DEF Beats
    <3>2. CASE ~ rs[j].pattern.glob
      <4>1. j \in E /\ j \in Nat /\ k \in Nat
        BY <1>2, <2>2, <2>3, <3>2
      <4>2. k > j
        BY <2>2, <2>3, <4>1
      <4>3. QED
        BY <2>2, <3>2, <4>2 DEF Beats
    <3>3. QED
      BY <3>1, <3>2
  <2>4. Wins(rs, s, k)
    BY <2>2, <2>3 DEF Wins
  <2>5. QED
    BY <2>4
<1>4. CASE E = {}
  <2> DEFINE f == [j \in 1..Len(rs) |-> rs[j].pattern.specificity]
             V == {f[j] : j \in C}
  <2>1. f \in [1..Len(rs) -> Nat]
    BY RuleFacts
  <2>2. PICK bound \in Nat : \A j \in 1..Len(rs) : f[j] <= bound
    <3> HIDE DEF f
    <3>1. QED
      BY <1>1, <2>1, MeasureBounded
  <2> DEFINE most == Max(V)
             F == {j \in C : f[j] = most}
  <2>3. most \in V /\ \A x \in V : x <= most
    <3>1. V \in SUBSET Nat /\ V # {} /\ \A x \in V : x <= bound
      <4> HIDE DEF f, C
      <4>1. QED
        BY <1>1, <2>1, <2>2
    <3> HIDE DEF V
    <3>2. QED
      BY <3>1, MaxFacts
  <2> HIDE DEF most
  <2>4. F # {} /\ F \in SUBSET Nat
    BY <1>2, <2>3
  <2> DEFINE k == Min(F)
  <2>5. k \in F /\ \A j \in F : k <= j
    <3> HIDE DEF F
    <3>1. QED
      BY <2>4, MinFacts
  <2> HIDE DEF k
  <2>6. ASSUME NEW j \in C, j # k PROVE Beats(rs, k, j)
    <3>1. /\ k \in C /\ k \in Nat /\ j \in Nat
          /\ rs[k].pattern.specificity = most /\ rs[k].pattern.specificity \in Nat
          /\ rs[j].pattern.specificity \in Nat
      BY <1>2, <2>5
    <3>2. rs[j].pattern.glob /\ rs[k].pattern.glob
      BY <1>4, <3>1
    <3>3. rs[j].pattern.specificity <= most
      BY <2>3
    <3>4. rs[j].pattern.specificity = most => j \in F
      OBVIOUS
    <3>5. CASE rs[j].pattern.specificity = most
      <4>1. k < j
        BY <2>5, <2>6, <3>1, <3>4, <3>5
      <4>2. QED
        BY <3>1, <3>2, <3>5, <4>1 DEF Beats
    <3>6. CASE rs[j].pattern.specificity # most
      <4>1. rs[k].pattern.specificity > rs[j].pattern.specificity
        BY <3>1, <3>3, <3>6
      <4>2. QED
        BY <3>2, <4>1 DEF Beats
    <3>7. QED
      BY <3>5, <3>6
  <2>7. Wins(rs, s, k)
    BY <2>5, <2>6 DEF Wins
  <2>8. QED
    BY <2>7
<1>5. QED
  BY <1>3, <1>4

\* Where the k-th of the fewer rules stands among the more.
Place(i, k) == IF k < i THEN k ELSE k + 1

\* more is fewer with another rule, the i-th.
OneMore(more, fewer, i) ==
    /\ more \in Seq(Rule) /\ fewer \in Seq(Rule)
    /\ Len(more) \in Nat /\ Len(fewer) \in Nat
    /\ Len(more) = Len(fewer) + 1 /\ i \in 1..Len(more)
    /\ \A k \in 1..Len(fewer) : fewer[k] = more[Place(i, k)]

LEMMA PlaceFacts ==
  ASSUME NEW more, NEW fewer, NEW i, OneMore(more, fewer, i)
  PROVE  /\ \A k \in 1..Len(fewer) : Place(i, k) \in 1..Len(more) \ {i}
         /\ \A j \in 1..Len(more) \ {i} : \E k \in 1..Len(fewer) : Place(i, k) = j
         /\ \A j, k \in 1..Len(fewer) :
               Beats(fewer, k, j) => Beats(more, Place(i, k), Place(i, j))
<1>1. /\ Len(fewer) \in Nat /\ Len(more) = Len(fewer) + 1 /\ i \in 1..Len(more)
      /\ \A k \in 1..Len(fewer) : fewer[k] = more[Place(i, k)]
  BY DEF OneMore
<1>2. \A k \in 1..Len(fewer) : Place(i, k) \in 1..Len(more) \ {i}
  BY <1>1 DEF Place
<1>3. ASSUME NEW j \in 1..Len(more) \ {i}
      PROVE  \E k \in 1..Len(fewer) : Place(i, k) = j
  <2>1. CASE j < i
    <3>1. j \in 1..Len(fewer) /\ Place(i, j) = j
      BY <1>1, <2>1 DEF Place
    <3>2. QED
      BY <3>1
  <2>2. CASE j > i
    <3>1. j - 1 \in 1..Len(fewer) /\ Place(i, j - 1) = j
      BY <1>1, <2>2 DEF Place
    <3>2. QED
      BY <3>1
  <2>3. QED
    BY <1>1, <2>1, <2>2
<1>4. ASSUME NEW j \in 1..Len(fewer), NEW k \in 1..Len(fewer), Beats(fewer, k, j)
      PROVE  Beats(more, Place(i, k), Place(i, j))
  <2>1. fewer[j] = more[Place(i, j)] /\ fewer[k] = more[Place(i, k)]
    BY <1>1
  <2>2. (k < j => Place(i, k) < Place(i, j)) /\ (k > j => Place(i, k) > Place(i, j))
    BY <1>1 DEF Place
  <2>3. QED
    BY <1>4, <2>1, <2>2, Zenon DEF Beats
<1>5. QED
  BY <1>2, <1>3, <1>4

\* The winner stays unless the other rule comes before it.
LEMMA WinnerStays ==
  ASSUME NEW more, NEW fewer, NEW i, OneMore(more, fewer, i),
         NEW s, NEW k, Wins(fewer, s, k),
         Concerns(more[i], s) => Beats(more, Place(i, k), i)
  PROVE  Wins(more, s, Place(i, k)) /\ more[Place(i, k)] = fewer[k]
<1>1. /\ \A j \in 1..Len(fewer) : fewer[j] = more[Place(i, j)]
      /\ k \in 1..Len(fewer) /\ Concerns(fewer[k], s)
      /\ \A j \in 1..Len(fewer) : (Concerns(fewer[j], s) /\ j # k) => Beats(fewer, k, j)
  BY DEF OneMore, Wins
<1>2. Place(i, k) \in 1..Len(more) /\ Concerns(more[Place(i, k)], s)
  BY <1>1, PlaceFacts
<1>3. ASSUME NEW j \in 1..Len(more), Concerns(more[j], s), j # Place(i, k)
      PROVE  Beats(more, Place(i, k), j)
  <2>1. CASE j = i
    BY <1>3, <2>1
  <2>2. CASE j # i
    <3>1. PICK h \in 1..Len(fewer) : Place(i, h) = j
      BY <2>2, PlaceFacts
    <3>2. Concerns(fewer[h], s) /\ h # k
      BY <1>1, <1>3, <3>1
    <3>3. QED
      BY <1>1, <3>1, <3>2, PlaceFacts
  <2>3. QED
    BY <2>1, <2>2
<1>4. QED
  BY <1>1, <1>2, <1>3 DEF Wins

\* A rule that comes before, or is, one that outranks another.
LEMMA OutranksOn ==
  ASSUME NEW rs \in Seq(Rule), NEW k \in 1..Len(rs), NEW j \in 1..Len(rs),
         NEW i \in 1..Len(rs), k = j \/ Beats(rs, k, j), Outranks(rs[j], rs[i])
  PROVE  Beats(rs, k, i)
<1>1. /\ rs[k].pattern.specificity \in Nat
      /\ rs[j].pattern.specificity \in Nat
      /\ rs[i].pattern.specificity \in Nat
  BY RuleFacts
<1>2. CASE ~ rs[j].pattern.glob /\ rs[i].pattern.glob
  BY <1>2 DEF Beats
<1>3. CASE /\ rs[j].pattern.glob /\ rs[i].pattern.glob
           /\ rs[j].pattern.specificity > rs[i].pattern.specificity
  BY <1>1, <1>3 DEF Beats
<1>4. QED
  BY <1>2, <1>3 DEF Outranks

LEMMA EditFacts ==
  ASSUME NEW more, NEW fewer, NEW i, OneMore(more, fewer, i), fewer = RemoveAt(more, i)
  PROVE  EditMoves(more, fewer, i)
<1>1. /\ more \in Seq(Rule) /\ fewer \in Seq(Rule) /\ i \in 1..Len(more)
      /\ \A k \in 1..Len(fewer) : fewer[k] = more[Place(i, k)]
  BY DEF OneMore
<1>2. DOMAIN more = 1..Len(more) /\ DOMAIN fewer = 1..Len(fewer)
  BY <1>1, RuleFacts
<1> DEFINE Rivals(s) == {fewer[j] : j \in {k \in DOMAIN fewer : Concerns(fewer[k], s)}}
<1>3. ASSUME NEW s, Resolve(more, s) # Resolve(fewer, s)
      PROVE  Concerns(more[i], s) /\ \A q \in Rivals(s) : ~ Outranks(q, more[i])
  <2>1. CASE \A j \in 1..Len(fewer) : ~ Concerns(fewer[j], s)
    <3>1. Rivals(s) = {} /\ Resolve(fewer, s) = Default
      BY <1>1, <1>2, <2>1, ResolveNone
    <3>2. ASSUME ~ Concerns(more[i], s) PROVE \A j \in 1..Len(more) : ~ Concerns(more[j], s)
      BY <1>1, <2>1, <3>2, PlaceFacts
    <3>3. Concerns(more[i], s)
      BY <1>1, <1>3, <3>1, <3>2, ResolveNone
    <3>4. QED
      BY <3>1, <3>3
  <2>2. CASE \E j \in 1..Len(fewer) : Concerns(fewer[j], s)
    <3>1. PICK k : Wins(fewer, s, k)
      BY <1>1, <2>2, WinnerExists
    <3>2. Resolve(fewer, s) = fewer[k].repo
      BY <1>1, <3>1, ResolveWins
    <3>3. ~ (Concerns(more[i], s) => Beats(more, Place(i, k), i))
      <4>1. SUFFICES ASSUME Concerns(more[i], s) => Beats(more, Place(i, k), i) PROVE FALSE
        OBVIOUS
      <4>2. Wins(more, s, Place(i, k)) /\ more[Place(i, k)] = fewer[k]
        BY <3>1, <4>1, WinnerStays
      <4>3. Resolve(more, s) = fewer[k].repo
        BY <1>1, <4>2, ResolveWins
      <4>4. QED
        BY <1>3, <3>2, <4>3
    <3>4. ASSUME NEW q \in Rivals(s), Outranks(q, more[i]) PROVE FALSE
      <4>1. PICK j \in 1..Len(fewer) : Concerns(fewer[j], s) /\ q = fewer[j]
        BY <1>2
      <4>2. k \in 1..Len(fewer) /\ (j = k \/ Beats(fewer, k, j))
        BY <3>1, <4>1 DEF Wins
      <4>3. /\ Place(i, j) \in 1..Len(more) /\ Place(i, k) \in 1..Len(more)
            /\ Place(i, k) = Place(i, j) \/ Beats(more, Place(i, k), Place(i, j))
        BY <4>1, <4>2, PlaceFacts
      <4>4. Outranks(more[Place(i, j)], more[i])
        BY <1>1, <3>4, <4>1
      <4>5. Beats(more, Place(i, k), i)
        BY <1>1, <4>3, <4>4, OutranksOn
      <4>6. QED
        BY <3>3, <4>5
    <3>5. QED
      BY <3>3, <3>4
  <2>3. QED
    BY <2>1, <2>2
<1>4. ASSUME NEW s, Concerns(more[i], s), \A q \in Rivals(s) : Outranks(more[i], q)
      PROVE  Resolve(more, s) = more[i].repo
  <2>1. ASSUME NEW j \in 1..Len(more), Concerns(more[j], s), j # i
        PROVE  Beats(more, i, j)
    <3>1. PICK h \in 1..Len(fewer) : Place(i, h) = j
      BY <2>1, PlaceFacts
    <3>2. fewer[h] = more[j] /\ fewer[h] \in Rivals(s)
      BY <1>1, <1>2, <2>1, <3>1
    <3>3. Outranks(more[i], more[j])
      BY <1>4, <3>2
    <3>4. QED
      BY <3>3 DEF Beats, Outranks
  <2>2. Wins(more, s, i)
    BY <1>1, <1>4, <2>1 DEF Wins
  <2>3. QED
    BY <1>1, <2>2, ResolveWins
<1>5. QED
  BY <1>1, <1>2, <1>3, <1>4 DEF EditMoves

\* A rule taken away, and a rule added and taken away again.
LEMMA RemovedIsOneLess ==
  ASSUME NEW rs \in Seq(Rule), NEW i \in 1..Len(rs)
  PROVE  OneMore(rs, RemoveAt(rs, i), i)
<1>1. /\ RemoveAt(rs, i) \in Seq(Rule) /\ Len(RemoveAt(rs, i)) = Len(rs) - 1
      /\ \A k \in 1..(Len(rs) - 1) :
            RemoveAt(rs, i)[k] = IF k < i THEN rs[k] ELSE rs[k + 1]
  BY RemoveFacts
<1>2. Len(rs) \in Nat /\ Len(rs) - 1 \in Nat
  OBVIOUS
<1>3. QED
  BY <1>1, <1>2 DEF OneMore, Place

LEMMA InsertedIsOneMore ==
  ASSUME NEW rs \in Seq(Rule), NEW i \in 1..(Len(rs) + 1), NEW r \in Rule
  PROVE  OneMore(InsertAt(rs, i, r), rs, i) /\ rs = RemoveAt(InsertAt(rs, i, r), i)
<1> DEFINE more == InsertAt(rs, i, r)
<1>1. /\ more \in Seq(Rule) /\ Len(more) = Len(rs) + 1 /\ Len(rs) \in Nat
      /\ \A k \in 1..(Len(rs) + 1) :
            more[k] = IF k < i THEN rs[k] ELSE IF k = i THEN r ELSE rs[k - 1]
  <2>1. Len(rs) \in Nat
    OBVIOUS
  <2>2. /\ more \in Seq(Rule) /\ Len(more) = Len(rs) + 1
        /\ \A k \in 1..(Len(rs) + 1) :
              more[k] = IF k < i THEN rs[k] ELSE IF k = i THEN r ELSE rs[k - 1]
    <3> HIDE DEF more
    <3>1. /\ InsertAt(rs, i, r) \in Seq(Rule)
          /\ Len(InsertAt(rs, i, r)) = Len(rs) + 1
          /\ \A k \in 1..(Len(rs) + 1) :
                InsertAt(rs, i, r)[k] =
                   IF k < i THEN rs[k] ELSE IF k = i THEN r ELSE rs[k - 1]
      BY ONLY InsertFacts, rs \in Seq(Rule), i \in 1..(Len(rs) + 1), r \in Rule
    <3>2. QED
      BY <3>1, Zenon DEF more
  <2>3. QED
    BY <2>1, <2>2
<1> HIDE DEF more
<1>2. /\ RemoveAt(more, i) \in Seq(Rule) /\ Len(RemoveAt(more, i)) = Len(rs)
      /\ \A k \in 1..Len(rs) :
            RemoveAt(more, i)[k] = IF k < i THEN more[k] ELSE more[k + 1]
  <2>1. i \in 1..Len(more) /\ Len(more) - 1 = Len(rs)
    BY <1>1
  <2>2. QED
    BY <1>1, <2>1, RemoveFacts
<1>3. \A k \in 1..Len(rs) : rs[k] = IF k < i THEN more[k] ELSE more[k + 1]
  <2> TAKE k \in 1..Len(rs)
  <2>1. CASE k < i
    <3>1. k \in 1..(Len(rs) + 1)
      BY <1>1
    <3>2. QED
      BY <1>1, <2>1, <3>1
  <2>2. CASE ~ (k < i)
    <3>1. /\ k + 1 \in 1..(Len(rs) + 1) /\ ~ (k + 1 < i) /\ k + 1 # i
          /\ (k + 1) - 1 = k
      BY <1>1, <2>2
    <3>2. more[k + 1] = rs[(k + 1) - 1]
      BY <1>1, <3>1
    <3>3. QED
      BY <2>2, <3>1, <3>2
  <2>3. QED
    BY <2>1, <2>2
<1>4. rs = RemoveAt(more, i)
  <2>1. \A k \in 1..Len(rs) : rs[k] = RemoveAt(more, i)[k]
    BY <1>2, <1>3
  <2> DEFINE shorter == RemoveAt(more, i)
  <2>2. shorter \in Seq(Rule) /\ Len(shorter) = Len(rs)
        /\ \A k \in 1..Len(rs) : rs[k] = shorter[k]
    BY <1>2, <2>1
  <2> HIDE DEF shorter
  <2>3. rs = shorter
    BY <2>2, SeqEqual
  <2>4. QED
    BY <2>3 DEF shorter
<1>5. OneMore(more, rs, i)
  <2>1. Len(more) \in Nat /\ i \in 1..Len(more)
    BY <1>1
  <2>2. QED
    BY <1>1, <1>3, <2>1 DEF OneMore, Place
<1>6. QED
  BY <1>4, <1>5 DEF more

(***************************************************************************)
(* A step edits one rule at most.                                          *)
(***************************************************************************)
RulesInv == rules \in Seq(Rule)

LEMMA RulesStep ==
  ASSUME RulesInv, [IdentityNext]_identityVars
  PROVE  RulesInv' /\ OneRuleMoves
<1>1. rules \in Seq(Rule) /\ DOMAIN rules = 1..Len(rules) /\ Len(rules) \in Nat
  BY RuleFacts DEF RulesInv
<1>2. CASE UNCHANGED rules
  BY <1>2 DEF RulesInv, OneRuleMoves
<1>3. ASSUME NEW i \in 1..MaxRules, RemoveRule(i)
      PROVE  RulesInv' /\ OneRuleMoves
  <2>1. i \in 1..Len(rules) /\ rules' = RemoveAt(rules, i)
    BY <1>1, <1>3 DEF RemoveRule
  <2>2. OneMore(rules, rules', i)
    BY <1>1, <2>1, RemovedIsOneLess
  <2>3. EditMoves(rules, rules', i)
    BY <2>1, <2>2, EditFacts
  <2>4. QED
    BY <2>2, <2>3 DEF OneMore, RulesInv, OneRuleMoves
<1>4. ASSUME NEW i \in 1..MaxRules, NEW r \in Rule, AddRule(i, r)
      PROVE  RulesInv' /\ OneRuleMoves
  <2>1. i \in 1..(Len(rules) + 1) /\ rules' = InsertAt(rules, i, r)
    BY <1>1, <1>4, IdentityConstants DEF AddRule
  <2>2. OneMore(rules', rules, i) /\ rules = RemoveAt(rules', i)
    BY <1>1, <2>1, InsertedIsOneMore
  <2>3. EditMoves(rules', rules, i)
    BY <2>2, EditFacts
  <2>4. QED
    BY <2>2, <2>3 DEF OneMore, RulesInv, OneRuleMoves
<1>5. ASSUME NEW s, NEW t, Raise(s, t) \/ LogUnraised(s, t) \/ LogMessage(s, t)
      PROVE  UNCHANGED rules
  BY <1>5 DEF Raise, LogUnraised, LogMessage, Report
<1>6. QED
  BY <1>2, <1>3, <1>4, <1>5 DEF IdentityNext, identityVars

\* Editing one rule of the route map moves no service to another repository
\* except one that the rule matches and no more specific rule does, and a rule
\* decides for every service it is the most specific for.
THEOREM RoutesMoveForTheirRule == IdentitySpec => RouteMovesOnlyForItsRule
<1>1. IdentityInit => RulesInv
  BY DEF IdentityInit, RulesInv
<1>2. RulesInv /\ [IdentityNext]_identityVars => RulesInv'
  BY RulesStep
<1>3. RulesInv /\ [IdentityNext]_identityVars => [OneRuleMoves]_identityVars
  BY RulesStep
<1>4. QED
  BY <1>1, <1>2, <1>3, PTL DEF IdentitySpec, RouteMovesOnlyForItsRule

(***************************************************************************)
(* Stack traces, line by line.                                             *)
(***************************************************************************)
Kinds == {"blank", "preamble", "file", "at", "call", "header"}
Names == Fn \cup Message \cup {Nothing}
Details == {build.id : build \in Build} \cup Value \cup {Nothing}
LineType == [kind : Kinds, names : Names, detail : Details]

LEMMA TextFacts ==
  ASSUME NEW k, NEW n, NEW d
  PROVE  /\ Text(k, n, d).kind = k /\ Text(k, n, d).names = n /\ Text(k, n, d).detail = d
         /\ k # "header" => NormalizeFrame(Text(k, n, d)) = Text(k, n, Nothing)
         /\ k = "header" => NormalizeFrame(Text(k, n, d)) = Text(k, n, d)
         /\ NormalizeMessage(Text(k, n, d)) = Text(k, n, Nothing)
  BY DEF Text, NormalizeFrame, NormalizeMessage

\* A trace without lines of some kinds.
Without(t, kinds) ==
    t \in Seq(LineType) /\ \A k \in 1..Len(t) : t[k].kind \notin kinds

\* A trace with x as its last File line.
EndsIn(t, x) ==
    /\ t \in Seq(LineType) /\ x.kind = "file"
    /\ \E k \in 1..Len(t) :
          t[k] = x /\ \A j \in 1..Len(t) : t[j].kind = "file" => j <= k

\* A trace of another runtime, with x as its first frame.
StartsIn(t, x) ==
    /\ Without(t, {"file"}) /\ x.kind = "at"
    /\ \E k \in 1..Len(t) :
          t[k] = x /\ \A j \in 1..Len(t) : t[j].kind \in {"at", "call"} => k <= j

\* The lines of two traces, one after the other.
LEMMA JoinFacts ==
  ASSUME NEW a \in Seq(LineType), NEW b \in Seq(LineType)
  PROVE  /\ a \o b \in Seq(LineType)
         /\ Len(a \o b) = Len(a) + Len(b) /\ Len(a) \in Nat /\ Len(b) \in Nat
         /\ \A k \in 1..Len(a) : k \in 1..Len(a \o b) /\ (a \o b)[k] = a[k]
         /\ \A k \in 1..Len(b) : Len(a) + k \in 1..Len(a \o b) /\ (a \o b)[Len(a) + k] = b[k]
         /\ \A j \in 1..Len(a \o b) :
               j \in 1..Len(a) \/ \E k \in 1..Len(b) : j = Len(a) + k
<1>1. Len(a) \in Nat /\ Len(b) \in Nat
  OBVIOUS
<1>2. /\ a \o b \in Seq(LineType) /\ Len(a \o b) = Len(a) + Len(b)
      /\ \A k \in 1..(Len(a) + Len(b)) :
            (a \o b)[k] = IF k <= Len(a) THEN a[k] ELSE b[k - Len(a)]
  BY ConcatProperties
<1> DEFINE ab == a \o b
<1>3. /\ ab \in Seq(LineType) /\ Len(ab) = Len(a) + Len(b)
      /\ \A k \in 1..(Len(a) + Len(b)) :
            ab[k] = IF k <= Len(a) THEN a[k] ELSE b[k - Len(a)]
  BY <1>2
<1> HIDE DEF ab
<1>4. \A k \in 1..Len(a) : k \in 1..Len(ab) /\ ab[k] = a[k]
  BY <1>1, <1>3
<1>5. ASSUME NEW k \in 1..Len(b)
      PROVE  Len(a) + k \in 1..Len(ab) /\ ab[Len(a) + k] = b[k]
  <2>1. Len(a) + k \in 1..(Len(a) + Len(b)) /\ ~ (Len(a) + k <= Len(a)) /\ (Len(a) + k) - Len(a) = k
    BY <1>1
  <2>2. QED
    BY <1>3, <2>1
<1>6. ASSUME NEW j \in 1..Len(ab)
      PROVE  j \in 1..Len(a) \/ \E k \in 1..Len(b) : j = Len(a) + k
  <2>1. CASE j <= Len(a)
    BY <1>1, <2>1
  <2>2. CASE ~ (j <= Len(a))
    <3>1. j - Len(a) \in 1..Len(b) /\ j = Len(a) + (j - Len(a))
      BY <1>1, <1>3, <2>2
    <3>2. QED
      BY <3>1
  <2>3. QED
    BY <2>1, <2>2
<1>7. QED
  BY <1>1, <1>3, <1>4, <1>5, <1>6 DEF ab

LEMMA WithoutJoin ==
  ASSUME NEW a, NEW b, NEW kinds, Without(a, kinds), Without(b, kinds)
  PROVE  Without(a \o b, kinds)
<1> DEFINE ab == a \o b
<1>1. /\ ab \in Seq(LineType)
      /\ \A k \in 1..Len(a) : ab[k] = a[k]
      /\ \A k \in 1..Len(b) : ab[Len(a) + k] = b[k]
      /\ \A j \in 1..Len(ab) : j \in 1..Len(a) \/ \E k \in 1..Len(b) : j = Len(a) + k
  BY JoinFacts DEF Without
<1> HIDE DEF ab
<1>2. Without(ab, kinds)
  BY <1>1 DEF Without
<1>3. QED
  BY <1>2 DEF ab

\* The last File line stays the last whatever comes before it, and when
\* nothing that comes after it is one.
LEMMA EndsJoin ==
  ASSUME NEW a, NEW b, NEW x,
         \/ a \in Seq(LineType) /\ EndsIn(b, x)
         \/ EndsIn(a, x) /\ Without(b, {"file"})
  PROVE  EndsIn(a \o b, x)
<1> DEFINE ab == a \o b
<1>1. a \in Seq(LineType) /\ b \in Seq(LineType) /\ x.kind = "file"
  BY DEF EndsIn, Without
<1>2. /\ ab \in Seq(LineType) /\ Len(a) \in Nat /\ Len(b) \in Nat
      /\ \A k \in 1..Len(a) : k \in 1..Len(ab) /\ ab[k] = a[k]
      /\ \A k \in 1..Len(b) : Len(a) + k \in 1..Len(ab) /\ ab[Len(a) + k] = b[k]
      /\ \A j \in 1..Len(ab) : j \in 1..Len(a) \/ \E k \in 1..Len(b) : j = Len(a) + k
  BY <1>1, JoinFacts
<1> HIDE DEF ab
<1>3. CASE EndsIn(b, x)
  <2>1. PICK k \in 1..Len(b) :
           b[k] = x /\ \A j \in 1..Len(b) : b[j].kind = "file" => j <= k
    BY <1>3 DEF EndsIn
  <2>2. Len(a) + k \in 1..Len(ab) /\ ab[Len(a) + k] = x
    BY <1>2, <2>1
  <2>3. ASSUME NEW j \in 1..Len(ab), ab[j].kind = "file" PROVE j <= Len(a) + k
    <3>1. CASE j \in 1..Len(a)
      BY <1>2, <3>1
    <3>2. ASSUME NEW h \in 1..Len(b), j = Len(a) + h PROVE j <= Len(a) + k
      <4>1. b[h].kind = "file"
        BY <1>2, <2>3, <3>2
      <4>2. h <= k
        BY <2>1, <4>1
      <4>3. QED
        BY <1>2, <3>2, <4>2
    <3>3. QED
      BY <1>2, <3>1, <3>2
  <2>4. QED
    BY <1>1, <1>2, <2>2, <2>3 DEF EndsIn, ab
<1>4. CASE EndsIn(a, x) /\ Without(b, {"file"})
  <2>1. PICK k \in 1..Len(a) :
           a[k] = x /\ \A j \in 1..Len(a) : a[j].kind = "file" => j <= k
    BY <1>4 DEF EndsIn
  <2>2. k \in 1..Len(ab) /\ ab[k] = x
    BY <1>2, <2>1
  <2>3. ASSUME NEW j \in 1..Len(ab), ab[j].kind = "file" PROVE j <= k
    <3>1. CASE j \in 1..Len(a)
      <4>1. a[j].kind = "file"
        BY <1>2, <2>3, <3>1
      <4>2. QED
        BY <2>1, <3>1, <4>1
    <3>2. ASSUME NEW h \in 1..Len(b), j = Len(a) + h PROVE FALSE
      <4>1. b[h].kind = "file"
        BY <1>2, <2>3, <3>2
      <4>2. QED
        BY <1>4, <4>1 DEF Without
    <3>3. QED
      BY <1>2, <3>1, <3>2
  <2>4. QED
    BY <1>1, <1>2, <2>2, <2>3 DEF EndsIn, ab
<1>5. QED
  BY <1>3, <1>4

LEMMA StartsJoin ==
  ASSUME NEW a, NEW b, NEW x,
         \/ Without(a, {"file", "at", "call"}) /\ StartsIn(b, x)
         \/ StartsIn(a, x) /\ Without(b, {"file"})
  PROVE  StartsIn(a \o b, x)
<1> DEFINE ab == a \o b
<1>1. Without(a, {"file"}) /\ Without(b, {"file"}) /\ x.kind = "at"
  BY DEF StartsIn, Without
<1>2. /\ Len(a) \in Nat /\ Len(b) \in Nat
      /\ \A k \in 1..Len(a) : k \in 1..Len(ab) /\ ab[k] = a[k]
      /\ \A k \in 1..Len(b) : Len(a) + k \in 1..Len(ab) /\ ab[Len(a) + k] = b[k]
      /\ \A j \in 1..Len(ab) : j \in 1..Len(a) \/ \E k \in 1..Len(b) : j = Len(a) + k
  BY <1>1, JoinFacts DEF Without
<1>3. Without(ab, {"file"})
  BY <1>1, WithoutJoin
<1> HIDE DEF ab
<1>4. CASE Without(a, {"file", "at", "call"}) /\ StartsIn(b, x)
  <2>1. PICK k \in 1..Len(b) :
           b[k] = x /\ \A j \in 1..Len(b) : b[j].kind \in {"at", "call"} => k <= j
    BY <1>4 DEF StartsIn
  <2>2. Len(a) + k \in 1..Len(ab) /\ ab[Len(a) + k] = x
    BY <1>2, <2>1
  <2>3. ASSUME NEW j \in 1..Len(ab), ab[j].kind \in {"at", "call"} PROVE Len(a) + k <= j
    <3>1. ASSUME j \in 1..Len(a) PROVE FALSE
      <4>1. a[j].kind \in {"at", "call"}
        BY <1>2, <2>3, <3>1
      <4>2. QED
        BY <1>4, <3>1, <4>1 DEF Without
    <3>2. PICK h \in 1..Len(b) : j = Len(a) + h
      BY <1>2, <3>1
    <3>3. b[h].kind \in {"at", "call"}
      BY <1>2, <2>3, <3>2
    <3>4. k <= h
      BY <2>1, <3>3
    <3>5. QED
      BY <1>2, <3>2, <3>4
  <2>4. QED
    BY <1>1, <1>3, <2>2, <2>3 DEF StartsIn, ab
<1>5. CASE StartsIn(a, x) /\ Without(b, {"file"})
  <2>1. PICK k \in 1..Len(a) :
           a[k] = x /\ \A j \in 1..Len(a) : a[j].kind \in {"at", "call"} => k <= j
    BY <1>5 DEF StartsIn
  <2>2. k \in 1..Len(ab) /\ ab[k] = x
    BY <1>2, <2>1
  <2>3. ASSUME NEW j \in 1..Len(ab), ab[j].kind \in {"at", "call"} PROVE k <= j
    <3>1. CASE j \in 1..Len(a)
      <4>1. a[j].kind \in {"at", "call"}
        BY <1>2, <2>3, <3>1
      <4>2. QED
        BY <2>1, <3>1, <4>1
    <3>2. ASSUME NEW h \in 1..Len(b), j = Len(a) + h PROVE k <= j
      BY <1>2, <3>2
    <3>3. QED
      BY <1>2, <3>1, <3>2
  <2>4. QED
    BY <1>1, <1>3, <2>2, <2>3 DEF StartsIn, ab
<1>6. QED
  BY <1>4, <1>5

\* The top frame of such a trace.
LEMMA TopOfEnds ==
  ASSUME NEW t, NEW x, EndsIn(t, x)
  PROVE  Candidates(t) # {} /\ TopFrame(t) = x
<1>1. PICK k \in 1..Len(t) :
         t[k] = x /\ \A j \in 1..Len(t) : t[j].kind = "file" => j <= k
  BY DEF EndsIn
<1>2. DOMAIN t = 1..Len(t) /\ Len(t) \in Nat /\ x.kind = "file"
  BY DEF EndsIn
<1> DEFINE P == Lines(t, {"file"})
<1>3. k \in P /\ P \in SUBSET Nat /\ \A j \in P : j <= k
  BY <1>1, <1>2 DEF Lines
<1>4. k \in Candidates(t)
  BY <1>1, <1>2 DEF Candidates, Lines
<1> HIDE DEF P
<1>5. Max(P) = k
  BY <1>3, MaxIs
<1>6. TopFrame(t) = x
  BY <1>1, <1>3, <1>5 DEF TopFrame, P
<1>7. QED
  BY <1>4, <1>6

LEMMA TopOfStarts ==
  ASSUME NEW t, NEW x, StartsIn(t, x)
  PROVE  Candidates(t) # {} /\ TopFrame(t) = x
<1>1. PICK k \in 1..Len(t) :
         t[k] = x /\ \A j \in 1..Len(t) : t[j].kind \in {"at", "call"} => k <= j
  BY DEF StartsIn
<1>2. /\ DOMAIN t = 1..Len(t) /\ Len(t) \in Nat /\ x.kind = "at"
      /\ \A j \in 1..Len(t) : t[j].kind # "file"
  BY DEF StartsIn, Without
<1> DEFINE A == Lines(t, {"at", "call"})
<1>3. k \in A /\ A \in SUBSET Nat /\ \A j \in A : k <= j
  BY <1>1, <1>2 DEF Lines
<1>4. k \in Candidates(t) /\ Lines(t, {"file"}) = {}
  BY <1>1, <1>2 DEF Candidates, Lines
<1> HIDE DEF A
<1>5. Min(A) = k
  <2>1. Min(A) \in A /\ \A j \in A : Min(A) <= j
    BY <1>3, MinFacts
  <2>2. Min(A) \in Nat /\ k \in Nat /\ Min(A) <= k /\ k <= Min(A)
    BY <1>3, <2>1
  <2>3. QED
    BY <2>2
<1>6. TopFrame(t) = x
  BY <1>1, <1>3, <1>4, <1>5 DEF TopFrame, A
<1>7. QED
  BY <1>4, <1>6

LEMMA LineFacts ==
  /\ \A f \in Fn, build \in Build :
        /\ Text("file", f, build.id) \in LineType
        /\ Text("call", f, Nothing) \in LineType
        /\ Text("at", f, build.id) \in LineType
  /\ Preamble \in LineType /\ Preamble.kind = "preamble"
  /\ Blank \in LineType /\ Blank.kind = "blank"
  /\ \A m \in Message, v \in Value : Header(m, v) \in LineType /\ Header(m, v).kind = "header"
<1>1. ASSUME NEW k \in Kinds, NEW n \in Names, NEW d \in Details
      PROVE  Text(k, n, d) \in LineType
  BY DEF LineType, Text
<1>2. Nothing \in Names /\ Nothing \in Details /\ \A build \in Build : build.id \in Details
  BY DEF Names, Details
<1>3. Fn \subseteq Names /\ Message \subseteq Names /\ Value \subseteq Details
  BY DEF Names, Details
<1>4. {"file", "call", "at", "preamble", "blank", "header"} \subseteq Kinds
  BY DEF Kinds
<1>5. \A f \in Fn, build \in Build :
         /\ Text("file", f, build.id) \in LineType
         /\ Text("call", f, Nothing) \in LineType
         /\ Text("at", f, build.id) \in LineType
  BY <1>1, <1>2, <1>3, <1>4
<1>6. Preamble \in LineType /\ Blank \in LineType
  BY <1>1, <1>2, <1>4 DEF Preamble, Blank
<1>7. \A m \in Message, v \in Value : Header(m, v) \in LineType
  BY <1>1, <1>3, <1>4 DEF Header
<1>8. QED
  BY <1>5, <1>6, <1>7, TextFacts DEF Preamble, Blank, Header

LEMMA LineAlone ==
  ASSUME NEW x \in LineType
  PROVE  /\ \A kinds : x.kind \notin kinds => Without(<<x>>, kinds)
         /\ \A kinds : Without(<< >>, kinds)
         /\ x.kind = "file" => EndsIn(<<x>>, x)
<1>1. <<x>> \in Seq(LineType) /\ Len(<<x>>) = 1 /\ <<x>>[1] = x /\ << >> \in Seq(LineType)
  OBVIOUS
<1>2. \A k \in 1..1 : k = 1
  OBVIOUS
<1>3. \A kinds : Without(<< >>, kinds)
  BY DEF Without
<1>4. ASSUME NEW kinds, x.kind \notin kinds PROVE Without(<<x>>, kinds)
  BY <1>1, <1>2, <1>4 DEF Without
<1>5. ASSUME x.kind = "file" PROVE EndsIn(<<x>>, x)
  <2> DEFINE t == <<x>>
  <2>1. t \in Seq(LineType) /\ Len(t) = 1 /\ t[1] = x
    OBVIOUS
  <2> HIDE DEF t
  <2>2. 1 \in 1..Len(t) /\ \A j \in 1..Len(t) : j <= 1
    BY <2>1
  <2>3. EndsIn(t, x)
    BY <1>5, <2>1, <2>2 DEF EndsIn
  <2>4. QED
    BY <2>3 DEF t
<1>6. QED
  BY <1>3, <1>4, <1>5

\* A Python frame is its File line, maybe with the source excerpt under it.
LEMMA FrameFacts ==
  ASSUME NEW f \in Fn, NEW build \in Build
  PROVE  EndsIn(Frame(f, build), Text("file", f, build.id))
<1> DEFINE x == Text("file", f, build.id)
           excerpt == IF build.sources /\ f \in Sources THEN <<Text("call", f, Nothing)>> ELSE << >>
<1>1. EndsIn(<<x>>, x)
  BY LineFacts, LineAlone, TextFacts
<1>2. Without(excerpt, {"file"})
  <2>1. /\ Text("call", f, Nothing) \in LineType
        /\ Text("call", f, Nothing).kind \notin {"file"}
    BY LineFacts, TextFacts
  <2>2. Without(<<Text("call", f, Nothing)>>, {"file"}) /\ Without(<< >>, {"file"})
    BY <2>1, LineAlone
  <2>3. QED
    BY <2>2
<1> HIDE DEF x, excerpt
<1>3. EndsIn(<<x>> \o excerpt, x)
  BY <1>1, <1>2, EndsJoin
<1>4. QED
  BY <1>3 DEF Frame, x, excerpt

\* A traceback ends in the frame of the raise.
LEMMA TracebackEnds ==
  ASSUME NEW stack \in Seq(Fn), stack # << >>, NEW build \in Build,
         NEW m \in Message, NEW v \in Value
  PROVE  EndsIn(Traceback(stack, build, Header(m, v)),
                Text("file", stack[Len(stack)], build.id))
<1> DEFINE n == Len(stack)
           ss == [k \in DOMAIN stack |-> Frame(stack[k], build)]
           x == Text("file", stack[n], build.id)
<1>1. n \in Nat /\ n # 0 /\ DOMAIN stack = 1..n /\ DOMAIN ss = 1..n
  BY EmptySeq
<1>2. Len(ss) = n
  BY <1>1
<1>3. \A k \in 1..n : ss[k] \in Seq(LineType)
  <2> TAKE k \in 1..n
  <2>1. stack[k] \in Fn /\ ss[k] = Frame(stack[k], build)
    BY <1>1
  <2>2. QED
    BY <2>1, FrameFacts DEF EndsIn
<1>4. EndsIn(ss[n], x)
  <2>1. n \in 1..n /\ stack[n] \in Fn
    BY <1>1
  <2>2. ss[n] = Frame(stack[n], build)
    BY <1>1, <2>1
  <2>3. QED
    BY <2>1, <2>2, FrameFacts
<1> HIDE DEF ss, x
<1> DEFINE f == CHOOSE f : IsFlat(f, ss, n)
<1>5. IsFlat(f, ss, n)
  BY <1>1, FlatExists
<1>6. FlattenSeq(ss) = f[n]
  BY <1>1, <1>2 DEF FlattenSeq, IsFlat
<1> HIDE DEF f
<1>7. \A k \in 1..n : f[k] = IF k = 1 THEN ss[k] ELSE f[k - 1] \o ss[k]
  BY <1>5 DEF IsFlat
<1> DEFINE S == {j \in Nat : j \in 1..n => f[j] \in Seq(LineType)}
<1>8. 0 \in S
  OBVIOUS
<1>9. ASSUME NEW j \in Nat, j \in S PROVE j + 1 \in S
  <2> SUFFICES ASSUME j + 1 \in 1..n PROVE f[j + 1] \in Seq(LineType)
    OBVIOUS
  <2>1. CASE j = 0
    <3>1. 1 \in 1..n /\ f[1] = ss[1] /\ j + 1 = 1
      BY <1>1, <1>7, <2>1
    <3>2. QED
      BY <1>3, <3>1
  <2>2. CASE j # 0
    <3>1. j \in 1..n /\ j + 1 # 1 /\ (j + 1) - 1 = j
      BY <1>1, <2>2
    <3>2. f[j + 1] = f[j] \o ss[j + 1]
      BY <1>7, <3>1
    <3>3. f[j] \in Seq(LineType) /\ ss[j + 1] \in Seq(LineType)
      BY <1>3, <1>9, <3>1
    <3>4. QED
      BY <3>2, <3>3, JoinFacts
  <2>3. QED
    BY <2>1, <2>2
<1>10. Nat \subseteq S
  <2>1. \A j \in Nat : j \in S => j + 1 \in S
    BY <1>9
  <2> HIDE DEF S
  <2>2. QED
    BY <1>8, <2>1, Counting
<1>11. EndsIn(f[n], x)
  <2>1. CASE n = 1
    <3>1. f[n] = ss[n]
      BY <1>1, <1>7, <2>1
    <3>2. QED
      BY <1>4, <3>1
  <2>2. CASE n # 1
    <3>1. n - 1 \in Nat /\ n - 1 \in 1..n /\ n \in 1..n
      BY <1>1, <2>2
    <3>2. f[n] = f[n - 1] \o ss[n]
      BY <1>7, <2>2, <3>1
    <3>3. f[n - 1] \in Seq(LineType)
      BY <1>10, <3>1
    <3>4. QED
      BY <1>4, <3>2, <3>3, EndsJoin
  <2>3. QED
    BY <2>1, <2>2
<1>12. EndsIn(<<Preamble>> \o f[n], x)
  <2>1. <<Preamble>> \in Seq(LineType)
    BY LineFacts
  <2>2. QED
    BY <1>11, <2>1, EndsJoin
<1>13. EndsIn(<<Preamble>> \o f[n] \o <<Header(m, v)>>, x)
  <2>1. Without(<<Header(m, v)>>, {"file"})
    BY LineFacts, LineAlone
  <2>2. QED
    BY <1>12, <2>1, EndsJoin
<1>14. QED
  BY <1>6, <1>13 DEF Traceback, ss, x

\* The stack of another runtime starts in it.
LEMMA InnermostStarts ==
  ASSUME NEW stack \in Seq(Fn), NEW build \in Build
  PROVE  /\ Without(Innermost(stack, build), {"file"})
         /\ stack # << >> => StartsIn(Innermost(stack, build),
                                      Text("at", stack[Len(stack)], build.id))
<1> DEFINE n == Len(stack)
           ss == [k \in DOMAIN stack |-> Text("at", stack[k], build.id)]
           t == Innermost(stack, build)
           x == Text("at", stack[n], build.id)
<1>1. n \in Nat /\ DOMAIN stack = 1..n /\ (stack # << >> => n # 0)
  BY EmptySeq
<1>2. Len(ss) = n
  BY <1>1
<1>3. \A k \in 1..n : ss[k] = Text("at", stack[k], build.id) /\ stack[k] \in Fn
  BY <1>1
<1>4. t = [k \in 1..n |-> ss[(n - k) + 1]]
  BY <1>2 DEF Innermost, Reverse
<1> HIDE DEF ss, t
<1>5. \A k \in 1..n : (n - k) + 1 \in 1..n
  BY <1>1
<1>6. \A k \in 1..n : t[k] \in LineType /\ t[k].kind = "at"
  <2> TAKE k \in 1..n
  <2>1. t[k] = Text("at", stack[(n - k) + 1], build.id) /\ stack[(n - k) + 1] \in Fn
    BY <1>3, <1>4, <1>5
  <2>2. QED
    BY <2>1, LineFacts, TextFacts
<1>7. t \in Seq(LineType) /\ Len(t) = n
  <2>1. t \in [1..n -> LineType]
    BY <1>4, <1>6
  <2>2. QED
    BY <1>1, <2>1
<1>8. Without(t, {"file"})
  BY <1>6, <1>7 DEF Without
<1>9. ASSUME stack # << >> PROVE StartsIn(t, x)
  <2>1. 1 \in 1..n /\ (n - 1) + 1 = n /\ n \in 1..n
    BY <1>1, <1>9
  <2>2. t[1] = x
    BY <1>3, <1>4, <2>1
  <2>3. x.kind = "at"
    BY TextFacts
  <2>4. \A j \in 1..n : 1 <= j
    BY <1>1
  <2> HIDE DEF x
  <2>5. QED
    BY <1>7, <1>8, <2>1, <2>2, <2>3, <2>4 DEF StartsIn
<1>10. QED
  BY <1>8, <1>9 DEF t, x

(***************************************************************************)
(* Errors and their parts.                                                 *)
(***************************************************************************)
\* What is known of an error that was raised in where, of one that was never
\* raised, and of a logged message.
Raised(s, t, where) ==
    [site |-> [service |-> s, type |-> t, how |-> "raised", where |-> where],
     parts |-> [service |-> s, type |-> t, mode |-> "frame",
                site |-> Text(IF s \in Python THEN "file" ELSE "at", where, Nothing)]]

Unraised(s, t, m, v) ==
    [site |-> [service |-> s, type |-> t, how |-> "unraised", where |-> m],
     parts |-> [service |-> s, type |-> t, mode |-> "frame", site |-> Header(m, v)]]

Logged(s, t, m) ==
    [site |-> [service |-> s, type |-> t, how |-> "logged", where |-> m],
     parts |-> [service |-> s, type |-> t, mode |-> "message",
                site |-> Text("header", m, Nothing)]]

Known(a) ==
    \E s, t, where :
        \/ a = Raised(s, t, where)
        \/ \E v : a = Unraised(s, t, where, v)
        \/ a = Logged(s, t, where)

SitesInv == \A a \in reports : Known(a)

LEMMA TraceOfPython ==
  ASSUME NEW s \in Python, NEW base \in Seq(Fn), base # << >>, NEW inner \in Seq(Fn),
         NEW under \in Seq(Fn), NEW build \in Build, NEW m \in Message, NEW v \in Value
  PROVE  EndsIn(Trace(s, base, inner, under, build, Header(m, v)),
                Text("file", Last(base \o inner), build.id))
<1> DEFINE final == base \o inner
           handler == <<Last(base)>>
           x == Text("file", Last(final), build.id)
           first == IF under = << >> THEN << >>
                    ELSE Traceback(handler \o under, build, Header(m, v)) \o <<Blank, Preamble, Blank>>
<1>1. final \in Seq(Fn) /\ final # << >>
  <2>1. Len(base) \in Nat /\ Len(base) # 0 /\ Len(inner) \in Nat
    BY EmptySeq
  <2>2. final \in Seq(Fn) /\ Len(final) = Len(base) + Len(inner)
    BY ConcatProperties
  <2>3. Len(final) # 0
    BY <2>1, <2>2
  <2> HIDE DEF final
  <2>4. QED
    BY <2>2, <2>3, EmptySeq
<1>2. EndsIn(Traceback(final, build, Header(m, v)), x)
  <2> HIDE DEF final
  <2>1. QED
    BY <1>1, TracebackEnds DEF Last
<1>3. first \in Seq(LineType)
  <2>1. handler \in Seq(Fn)
    <3>1. Len(base) \in 1..Len(base)
      BY EmptySeq
    <3>2. QED
      BY <3>1 DEF Last
  <2> DEFINE whole == handler \o under
  <2>2. whole \in Seq(Fn) /\ whole # << >>
    <3> HIDE DEF handler
    <3>1. Len(under) \in Nat
      OBVIOUS
    <3>2. whole \in Seq(Fn) /\ Len(whole) = Len(handler) + Len(under)
      BY <2>1, ConcatProperties
    <3>3. Len(handler) = 1
      BY DEF handler
    <3>4. Len(whole) # 0
      BY <3>1, <3>2, <3>3
    <3> HIDE DEF whole
    <3>5. QED
      BY <3>2, <3>4, EmptySeq
  <2> DEFINE tb == Traceback(whole, build, Header(m, v))
  <2>3. tb \in Seq(LineType)
    <3> HIDE DEF whole
    <3>1. QED
      BY <2>2, TracebackEnds DEF EndsIn
  <2>4. <<Blank, Preamble, Blank>> \in Seq(LineType)
    BY LineFacts
  <2>5. << >> \in Seq(LineType)
    OBVIOUS
  <2> HIDE DEF tb
  <2>6. tb \o <<Blank, Preamble, Blank>> \in Seq(LineType)
    BY <2>3, <2>4, JoinFacts
  <2>7. QED
    BY <2>5, <2>6 DEF tb
<1>4. Trace(s, base, inner, under, build, Header(m, v)) =
         first \o Traceback(final, build, Header(m, v))
  BY DEF Trace
<1> HIDE DEF final, first, x
<1>5. EndsIn(first \o Traceback(final, build, Header(m, v)), x)
  BY <1>2, <1>3, EndsJoin
<1>6. QED
  BY <1>4, <1>5 DEF x, final

LEMMA TraceOfOthers ==
  ASSUME NEW s, s \notin Python, NEW base \in Seq(Fn), base # << >>, NEW inner \in Seq(Fn),
         NEW under \in Seq(Fn), NEW build \in Build, NEW m \in Message, NEW v \in Value
  PROVE  StartsIn(Trace(s, base, inner, under, build, Header(m, v)),
                  Text("at", Last(base \o inner), build.id))
<1> DEFINE final == base \o inner
           x == Text("at", Last(final), build.id)
           rest == IF under = << >> THEN << >>
                   ELSE <<Preamble>> \o Innermost(under, build) \o <<Preamble>>
           none == {"file"}
<1>1. final \in Seq(Fn) /\ final # << >>
  <2>1. Len(base) \in Nat /\ Len(base) # 0 /\ Len(inner) \in Nat
    BY EmptySeq
  <2>2. final \in Seq(Fn) /\ Len(final) = Len(base) + Len(inner)
    BY ConcatProperties
  <2>3. Len(final) # 0
    BY <2>1, <2>2
  <2> HIDE DEF final
  <2>4. QED
    BY <2>2, <2>3, EmptySeq
<1>2. StartsIn(Innermost(final, build), x)
  <2> HIDE DEF final
  <2>1. QED
    BY <1>1, InnermostStarts DEF Last
<1>3. Without(<<Preamble>>, none) /\ Without(<< >>, none)
  BY LineFacts, LineAlone
<1>4. Without(Innermost(under, build), none)
  BY InnermostStarts
<1> HIDE DEF none
<1>5. Without(<<Preamble>> \o Innermost(under, build) \o <<Preamble>>, none)
  <2>1. Without(<<Preamble>> \o Innermost(under, build), none)
    BY <1>3, <1>4, WithoutJoin
  <2>2. QED
    BY <1>3, <2>1, WithoutJoin
<1>6. Without(rest, {"file"})
  BY <1>3, <1>5 DEF none
<1>7. Without(<<Header(m, v)>>, {"file", "at", "call"})
  BY LineFacts, LineAlone
<1>8. Trace(s, base, inner, under, build, Header(m, v)) =
         <<Header(m, v)>> \o Innermost(final, build) \o rest
  BY DEF Trace
<1> HIDE DEF final, rest, x
<1>9. StartsIn(<<Header(m, v)>> \o Innermost(final, build), x)
  BY <1>2, <1>7, StartsJoin
<1>10. StartsIn(<<Header(m, v)>> \o Innermost(final, build) \o rest, x)
  BY <1>6, <1>9, StartsJoin
<1>11. QED
  BY <1>8, <1>10 DEF x, final

\* The parts of an error with a frame.
LEMMA FramedParts ==
  ASSUME NEW s, NEW t, NEW msg, NEW trace, Candidates(trace) # {}
  PROVE  Parts([service |-> s, type |-> t, message |-> msg, trace |-> trace]) =
            [service |-> s, type |-> t, mode |-> "frame",
             site |-> NormalizeFrame(TopFrame(trace))]
  BY DEF Parts

LEMMA BoundedIsSeq ==
  ASSUME NEW n \in Nat, NEW q \in BoundedSeq(Fn, n)
  PROVE  q \in Seq(Fn)
<1>1. PICK k \in 0..n : q \in [1..k -> Fn]
  BY DEF BoundedSeq, SeqOf
<1>2. k \in Nat
  OBVIOUS
<1>3. QED
  BY <1>1, <1>2

\* The site and the parts of a known error, field by field.
Described(a, s, t, where, how, mode, kind, detail) ==
    /\ a.site = [service |-> s, type |-> t, how |-> how, where |-> where]
    /\ a.parts = [service |-> s, type |-> t, mode |-> mode,
                  site |-> Text(kind, where, detail)]
    /\ \/ /\ how = "raised" /\ mode = "frame" /\ detail = Nothing
          /\ kind = IF s \in Python THEN "file" ELSE "at"
       \/ how = "unraised" /\ mode = "frame" /\ kind = "header"
       \/ how = "logged" /\ mode = "message" /\ kind = "header" /\ detail = Nothing

LEMMA KnownDescribed ==
  ASSUME NEW a, Known(a)
  PROVE  \E s, t, where, how, mode, kind, detail :
            Described(a, s, t, where, how, mode, kind, detail)
<1>1. PICK s, t, where :
         \/ a = Raised(s, t, where)
         \/ \E v : a = Unraised(s, t, where, v)
         \/ a = Logged(s, t, where)
  BY DEF Known
<1>2. CASE a = Raised(s, t, where)
  <2>1. Described(a, s, t, where, "raised", "frame",
                  IF s \in Python THEN "file" ELSE "at", Nothing)
    BY <1>2 DEF Described, Raised
  <2>2. QED
    BY <2>1
<1>3. ASSUME NEW v, a = Unraised(s, t, where, v)
      PROVE  Described(a, s, t, where, "unraised", "frame", "header", v)
  BY <1>3 DEF Described, Unraised, Header
<1>4. CASE a = Logged(s, t, where)
  <2>1. Described(a, s, t, where, "logged", "message", "header", Nothing)
    BY <1>4 DEF Described, Logged
  <2>2. QED
    BY <2>1
<1>5. QED
  BY <1>1, <1>2, <1>3, <1>4

\* Parts tell sites apart, and nothing else but what an unraised one quotes.
LEMMA PartsTell ==
  ASSUME NEW a, NEW b, Known(a), Known(b)
  PROVE  /\ a.parts = b.parts => a.site = b.site
         /\ (a.site = b.site /\ a.site.how # "unraised") => a.parts = b.parts
<1>1. PICK s, t, where, how, mode, kind, detail :
         Described(a, s, t, where, how, mode, kind, detail)
  BY KnownDescribed
<1>2. PICK s2, t2, where2, how2, mode2, kind2, detail2 :
         Described(b, s2, t2, where2, how2, mode2, kind2, detail2)
  BY KnownDescribed
<1>3. ASSUME a.parts = b.parts PROVE a.site = b.site
  <2>1. s = s2 /\ t = t2 /\ mode = mode2 /\ Text(kind, where, detail) = Text(kind2, where2, detail2)
    BY <1>1, <1>2, <1>3 DEF Described
  <2>2. kind = kind2 /\ where = where2
    BY <2>1, TextFacts
  <2>3. how = how2
    BY <1>1, <1>2, <2>1, <2>2 DEF Described
  <2>4. QED
    BY <1>1, <1>2, <2>1, <2>2, <2>3 DEF Described
<1>4. ASSUME a.site = b.site, a.site.how # "unraised" PROVE a.parts = b.parts
  <2>1. s = s2 /\ t = t2 /\ where = where2 /\ how = how2 /\ how # "unraised"
    BY <1>1, <1>2, <1>4 DEF Described
  <2>2. mode = mode2 /\ kind = kind2 /\ detail = detail2
    BY <1>1, <1>2, <2>1 DEF Described
  <2>3. QED
    BY <1>1, <1>2, <2>1, <2>2 DEF Described
<1>5. QED
  BY <1>3, <1>4

LEMMA ReportKnown ==
  ASSUME SitesInv, NEW event, NEW how, NEW where, Report(event, how, where),
         Known([site |-> [service |-> event.service, type |-> event.type,
                          how |-> how, where |-> where],
                parts |-> Parts(event)])
  PROVE  SitesInv'
  BY DEF Report, SitesInv

LEMMA RaiseStep ==
  ASSUME SitesInv, NEW s \in Service, NEW t \in Type, Raise(s, t)
  PROVE  SitesInv'
<1>1. PICK base \in BoundedSeq(Fn, 2) \ {<< >>}, inner \in BoundedSeq(Fn, 1),
           under \in BoundedSeq(Fn, 1), build \in Build, m \in Message, v \in Value :
         Report([service |-> s, type |-> t, message |-> Header(m, v),
                 trace |-> Trace(s, base, inner, under, build, Header(m, v))],
                "raised", Last(base \o inner))
  BY DEF Raise
<1> DEFINE trace == Trace(s, base, inner, under, build, Header(m, v))
           where == Last(base \o inner)
           event == [service |-> s, type |-> t, message |-> Header(m, v), trace |-> trace]
           kind == IF s \in Python THEN "file" ELSE "at"
<1>2. base \in Seq(Fn) /\ base # << >> /\ inner \in Seq(Fn) /\ under \in Seq(Fn)
  BY BoundedIsSeq
<1>3. Candidates(trace) # {} /\ TopFrame(trace) = Text(kind, where, build.id)
  <2>1. CASE s \in Python
    <3>1. EndsIn(trace, Text(kind, where, build.id))
      BY <1>2, <2>1, TraceOfPython
    <3> HIDE DEF trace, where, kind
    <3>2. QED
      BY <3>1, TopOfEnds
  <2>2. CASE s \notin Python
    <3>1. StartsIn(trace, Text(kind, where, build.id))
      BY <1>2, <2>2, TraceOfOthers
    <3> HIDE DEF trace, where, kind
    <3>2. QED
      BY <3>1, TopOfStarts
  <2>3. QED
    BY <2>1, <2>2
<1>4. kind # "header"
  OBVIOUS
<1> HIDE DEF trace, where, kind
<1>5. Parts(event) = [service |-> s, type |-> t, mode |-> "frame",
                      site |-> Text(kind, where, Nothing)]
  BY <1>3, <1>4, FramedParts, TextFacts
<1>6. event.service = s /\ event.type = t
  OBVIOUS
<1>7. Report(event, "raised", where)
  BY <1>1 DEF trace, where
<1> HIDE DEF event
<1>8. [site |-> [service |-> event.service, type |-> event.type,
                 how |-> "raised", where |-> where],
       parts |-> Parts(event)] = Raised(s, t, where)
  BY <1>5, <1>6 DEF Raised, kind
<1>9. Known(Raised(s, t, where))
  BY DEF Known
<1>10. QED
  BY <1>7, <1>8, <1>9, ReportKnown

LEMMA UnraisedStep ==
  ASSUME SitesInv, NEW s \in Service, NEW t \in Type, LogUnraised(s, t)
  PROVE  SitesInv'
<1>1. PICK m \in Message, v \in Value :
         Report([service |-> s, type |-> t, message |-> Header(m, v),
                 trace |-> <<Header(m, v)>>], "unraised", m)
  BY DEF LogUnraised
<1> DEFINE h == Header(m, v)
           trace == <<h>>
           event == [service |-> s, type |-> t, message |-> h, trace |-> trace]
<1>2. h.kind = "header" /\ NormalizeFrame(h) = h
  BY TextFacts DEF Header
<1> HIDE DEF h
<1>3. DOMAIN trace = {1} /\ trace[1] = h
  OBVIOUS
<1> HIDE DEF trace
<1>4. /\ Candidates(trace) = {1}
      /\ Lines(trace, {"file"}) = {} /\ Lines(trace, {"at", "call"}) = {}
  BY <1>2, <1>3 DEF Candidates, Lines
<1>5. Min({1}) = 1
  <2>1. Min({1}) \in {1}
    <3> DEFINE S == {1}
    <3>1. S \in SUBSET Nat /\ S # {}
      OBVIOUS
    <3> HIDE DEF S
    <3>2. Min(S) \in S
      BY <3>1, MinFacts
    <3>3. QED
      BY <3>2 DEF S
  <2>2. QED
    BY <2>1
<1>6. TopFrame(trace) = h
  BY <1>3, <1>4, <1>5 DEF TopFrame
<1>7. Parts(event) = [service |-> s, type |-> t, mode |-> "frame", site |-> h]
  BY <1>2, <1>4, <1>6, FramedParts
<1>8. event.service = s /\ event.type = t
  OBVIOUS
<1>9. Report(event, "unraised", m)
  BY <1>1 DEF trace, h
<1> HIDE DEF event
<1>10. [site |-> [service |-> event.service, type |-> event.type,
                  how |-> "unraised", where |-> m],
        parts |-> Parts(event)] = Unraised(s, t, m, v)
  BY <1>7, <1>8 DEF Unraised, h
<1>11. Known(Unraised(s, t, m, v))
  BY DEF Known
<1>12. QED
  BY <1>9, <1>10, <1>11, ReportKnown

LEMMA MessageStep ==
  ASSUME SitesInv, NEW s \in Service, NEW t \in Type, LogMessage(s, t)
  PROVE  SitesInv'
<1>1. PICK m \in Message, v \in Value :
         Report([service |-> s, type |-> t, message |-> Header(m, v), trace |-> << >>],
                "logged", m)
  BY DEF LogMessage
<1> DEFINE event == [service |-> s, type |-> t, message |-> Header(m, v), trace |-> << >>]
<1>2. event.trace = << >> /\ event.message = Header(m, v)
      /\ event.service = s /\ event.type = t
  OBVIOUS
<1>3. Candidates(<< >>) = {}
  BY DEF Candidates
<1>4. Report(event, "logged", m)
  BY <1>1
<1>5. NormalizeMessage(Header(m, v)) = Text("header", m, Nothing)
  BY TextFacts DEF Header
<1> HIDE DEF event
<1>6. Parts(event) = [service |-> s, type |-> t, mode |-> "message",
                      site |-> Text("header", m, Nothing)]
  BY <1>2, <1>3, <1>5 DEF Parts
<1>7. [site |-> [service |-> event.service, type |-> event.type,
                 how |-> "logged", where |-> m],
       parts |-> Parts(event)] = Logged(s, t, m)
  BY <1>2, <1>6 DEF Logged
<1>8. Known(Logged(s, t, m))
  BY DEF Known
<1>9. QED
  BY <1>4, <1>7, <1>8, ReportKnown

LEMMA SitesStep ==
  ASSUME SitesInv, [IdentityNext]_identityVars
  PROVE  SitesInv'
<1>1. CASE UNCHANGED reports
  BY <1>1 DEF SitesInv
<1>2. ASSUME NEW i, RemoveRule(i) \/ \E r \in Rule : AddRule(i, r)
      PROVE  UNCHANGED reports
  BY <1>2 DEF RemoveRule, AddRule
<1>3. QED
  BY <1>1, <1>2, RaiseStep, UnraisedStep, MessageStep DEF IdentityNext, identityVars

\* Errors have the same fingerprint exactly when the same type was raised in
\* the same function of the same service, or logged with the same message,
\* whatever the stack above, the exception in hand and the build; what was
\* made and never raised is at least kept apart.
THEOREM FingerprintsTellSites == IdentitySpec => []OneFingerprintPerSite
<1>1. IdentityInit => SitesInv
  BY DEF IdentityInit, SitesInv
<1>2. SitesInv /\ [IdentityNext]_identityVars => SitesInv'
  BY SitesStep
<1>3. SitesInv => OneFingerprintPerSite
  BY PartsTell DEF SitesInv, OneFingerprintPerSite
<1>4. QED
  BY <1>1, <1>2, <1>3, PTL DEF IdentitySpec
=============================================================================
