---------------------------- MODULE FilerProofs -----------------------------
(***************************************************************************)
(* Theorems about the filer, for every value of the constants of           *)
(* IssueFiler: types, what people decided, the label mutex, and what       *)
(* filings write: the count, the announcement of regressions, and that no  *)
(* filing gets lost.                                                       *)
(*                                                                         *)
(* The argument of the mutex (LabelMutex). Whoever creates an issue of f   *)
(* has either won the claim of f's label, when there was neither an issue  *)
(* nor another filing creating one, or has lost it and waited out the      *)
(* loop. Issues of f and filings about to create one are therefore one     *)
(* together (OneWinner): a filing trades itself for its issue, and a       *)
(* request that is executed without an answer is paid for by used.lost. A  *)
(* loser breaks that count only in its fall-through. By then it has slept  *)
(* 1 + 2 + ... + ClaimRetries units, and in each of them the label was     *)
(* exposed, or an issue was there (LosersWaited). An issue that was there  *)
(* would have been found, unless it was deleted; so the label was exposed  *)
(* for ClaimWait, which is the excuse.                                     *)
(*                                                                         *)
(* The argument of the count (CountsHonestly). The only number a filing    *)
(* writes is one more than its copy shows. The copy was honest when it was *)
(* taken and the hits of an issue never fall, so a copy is never ahead of  *)
(* its issue; once the PATCH of the filing has arrived the issue has at    *)
(* least one hit more (CopyIsOld). Hence the same PATCH may arrive twice,  *)
(* late, or after somebody else's, and still claims no more than the hits. *)
(*                                                                         *)
(* As long as nothing has failed a PATCH arrives exactly once and takes    *)
(* its filing to the comment (ArrivedOnce), which is what the other two    *)
(* rest on: the filings about to announce and the filings about to write   *)
(* are then exactly the differences of the histories.                      *)
(*                                                                         *)
(* The lemmas up to the types say, operation by operation, what changes;   *)
(* every other proof rests on those and opens no EXCEPT any more.          *)
(***************************************************************************)
EXTENDS FilerRequirements, FiniteSetTheorems, WellFoundedInduction, TLAPS

(***************************************************************************)
(* What the tracker's operators do to a store.                             *)
(***************************************************************************)
\* The order of the updates stays one number per issue.
LEMMA TouchType ==
  ASSUME NEW newer \in Seq(Nat), NEW n
  PROVE  Touch(newer, n) \in Seq(Nat) /\ Len(Touch(newer, n)) = Len(newer)
<1>1. DOMAIN newer = 1..Len(newer) /\ \A m \in DOMAIN newer : newer[m] \in Nat
  OBVIOUS
<1>2. Touch(newer, n) \in [1..Len(newer) -> Nat]
  BY <1>1 DEF Touch
<1>3. QED
  BY <1>2

\* Creating a label adds the label and touches no issue.
LEMMA CreateLabelFacts ==
  ASSUME NEW s \in Store(Fp), NEW f \in Fp
  PROVE  /\ CreateLabel(s, f) \in Store(Fp)
         /\ CreateLabel(s, f).labels = s.labels \cup {f}
         /\ CreateLabel(s, f).issues = s.issues
BY DEF CreateLabel, Store

\* Creating an issue appends it, and makes its label where there is none.
LEMMA CreateIssueFacts ==
  ASSUME NEW s \in Store(Fp), NEW f \in Fp
  PROVE  /\ CreateIssue(s, f) \in Store(Fp)
         /\ CreateIssue(s, f).labels = s.labels \cup {f}
         /\ CreateIssue(s, f).issues = Append(s.issues, NewIssue(f))
<1> DEFINE c == CreateIssue(s, f)
<1>1. NewIssue(f) \in Issue(Fp)
  BY DEF NewIssue, Issue, IssueState, StateReason
<1>2. /\ s.labels \subseteq Fp /\ s.issues \in Seq(Issue(Fp)) /\ s.newer \in Seq(Nat)
      /\ Len(s.newer) = Len(s.issues)
  BY DEF Store
<1>3. Append(s.issues, NewIssue(f)) \in Seq(Issue(Fp))
      /\ Len(Append(s.issues, NewIssue(f))) = Len(s.issues) + 1
  BY <1>1, <1>2
<1>4. c.newer \in [1..(Len(s.issues) + 1) -> Nat]
  BY <1>2 DEF CreateIssue, Numbers
<1>5. c.newer \in Seq(Nat) /\ Len(c.newer) = Len(s.issues) + 1
  <2>1. Len(s.issues) + 1 \in Nat
    BY <1>2
  <2>2. QED
    BY <1>4, <2>1
<1>6. c = [labels |-> c.labels, issues |-> c.issues, newer |-> c.newer]
      /\ c.labels = s.labels \cup {f}
      /\ c.issues = Append(s.issues, NewIssue(f))
  BY DEF CreateIssue
<1>7. QED
  <2> HIDE DEF c
  <2>1. c \in Store(Fp)
    BY <1>2, <1>3, <1>5, <1>6 DEF Store
  <2>2. QED
    BY <1>6, <2>1 DEF c

\* A write replaces one issue, and the store stays a store.
LEMMA WriteFacts ==
  ASSUME NEW s \in Store(Fp), NEW n \in Numbers(s), NEW issue \in Issue(Fp)
  PROVE  /\ Write(s, n, issue) \in Store(Fp)
         /\ Write(s, n, issue).labels = s.labels
         /\ Numbers(Write(s, n, issue)) = Numbers(s)
         /\ Write(s, n, issue).issues[n] = issue
         /\ \A m \in Numbers(s) \ {n} : Write(s, n, issue).issues[m] = s.issues[m]
<1>1. /\ s.labels \subseteq Fp /\ s.issues \in Seq(Issue(Fp)) /\ s.newer \in Seq(Nat)
      /\ Len(s.newer) = Len(s.issues)
  BY DEF Store
<1>2. /\ [s.issues EXCEPT ![n] = issue] \in Seq(Issue(Fp))
      /\ Len([s.issues EXCEPT ![n] = issue]) = Len(s.issues)
  BY <1>1 DEF Numbers
<1>3. Touch(s.newer, n) \in Seq(Nat) /\ Len(Touch(s.newer, n)) = Len(s.newer)
  BY <1>1, TouchType
<1>4. Write(s, n, issue) \in Store(Fp)
  BY <1>1, <1>2, <1>3 DEF Store, Write
<1>5. QED
  BY <1>1, <1>4 DEF Numbers, Write

\* What a store holds under a number is an issue.
LEMMA IssueAt ==
  ASSUME NEW s \in Store(Fp), NEW n \in Numbers(s)
  PROVE  s.issues[n] \in Issue(Fp)
BY DEF Store, Numbers

\* The fields of an issue after a PATCH.
LEMMA PatchedFacts ==
  ASSUME NEW i \in Issue(Fp), NEW count \in Nat \ {0},
         NEW hasHeader \in BOOLEAN, NEW reopen \in BOOLEAN, NEW first \in BOOLEAN
  PROVE  LET new == Patched(i, count, hasHeader, reopen, first)
         IN  /\ new \in Issue(Fp)
             /\ new.fp = i.fp
             /\ new.state = IF reopen THEN "open" ELSE i.state
             /\ new.title = count
             /\ new.header = IF hasHeader THEN count ELSE i.header
             /\ new.hits = IF first THEN i.hits + 1 ELSE i.hits
             /\ new.reopened = IF first /\ reopen THEN i.reopened + 1 ELSE i.reopened
             /\ new.announced = i.announced
<1> DEFINE counted == Counted(i, count, hasHeader, first)
<1>0. i.header \in Nat /\ i.hits \in Nat /\ i.reopened \in Nat
  BY DEF Issue
<1>1. /\ counted \in Issue(Fp)
      /\ counted.fp = i.fp /\ counted.state = i.state
      /\ counted.title = count
      /\ counted.header = IF hasHeader THEN count ELSE i.header
      /\ counted.hits = IF first THEN i.hits + 1 ELSE i.hits
      /\ counted.reopened = i.reopened /\ counted.announced = i.announced
  <2> DEFINE header == IF hasHeader THEN count ELSE i.header
             hits   == IF first THEN i.hits + 1 ELSE i.hits
  <2>1. header \in Nat /\ hits \in Nat
    BY <1>0
  <2>2. counted = [i EXCEPT !.title = count, !.header = header, !.hits = hits]
    BY DEF Counted
  <2> HIDE DEF header, hits, counted
  <2>3. /\ counted \in Issue(Fp)
        /\ counted.fp = i.fp /\ counted.state = i.state
        /\ counted.title = count /\ counted.header = header /\ counted.hits = hits
        /\ counted.reopened = i.reopened /\ counted.announced = i.announced
    BY <2>1, <2>2 DEF Issue
  <2>4. QED
    BY <2>3 DEF header, hits
<1> HIDE DEF counted
<1>2. /\ Reopened(counted, first) \in Issue(Fp)
      /\ Reopened(counted, first).fp = counted.fp
      /\ Reopened(counted, first).state = "open"
      /\ Reopened(counted, first).title = counted.title
      /\ Reopened(counted, first).header = counted.header
      /\ Reopened(counted, first).hits = counted.hits
      /\ Reopened(counted, first).announced = counted.announced
      /\ Reopened(counted, first).reopened =
             IF first THEN counted.reopened + 1 ELSE counted.reopened
  <2> DEFINE reopened == IF first THEN counted.reopened + 1 ELSE counted.reopened
  <2>1. reopened \in Nat
    BY <1>0, <1>1
  <2>2. Reopened(counted, first) =
          [counted EXCEPT !.state = "open", !.reason = "none", !.reopened = reopened]
    BY DEF Reopened
  <2> HIDE DEF reopened
  <2>3. /\ Reopened(counted, first) \in Issue(Fp)
        /\ Reopened(counted, first).fp = counted.fp
        /\ Reopened(counted, first).state = "open"
        /\ Reopened(counted, first).title = counted.title
        /\ Reopened(counted, first).header = counted.header
        /\ Reopened(counted, first).hits = counted.hits
        /\ Reopened(counted, first).announced = counted.announced
        /\ Reopened(counted, first).reopened = reopened
    BY <1>1, <2>1, <2>2 DEF Issue, IssueState, StateReason
  <2>4. QED
    BY <2>3 DEF reopened
<1>3. Patched(i, count, hasHeader, reopen, first)
        = IF reopen THEN Reopened(counted, first) ELSE counted
  BY DEF Patched, counted
<1>4. CASE reopen
  BY <1>1, <1>2, <1>3, <1>4
<1>5. CASE ~ reopen
  BY <1>1, <1>3, <1>5
<1>6. QED
  BY <1>4, <1>5

\* A comment changes what is announced and nothing else.
LEMMA CommentedFacts ==
  ASSUME NEW i \in Issue(Fp), NEW regression \in BOOLEAN
  PROVE  LET new == Commented(i, regression)
         IN  /\ new \in Issue(Fp)
             /\ new.fp = i.fp /\ new.state = i.state
             /\ new.title = i.title /\ new.header = i.header
             /\ new.hits = i.hits /\ new.reopened = i.reopened
             /\ new.announced = IF regression THEN i.announced + 1 ELSE i.announced
BY DEF Commented, Issue

\* A person changes the state, the title or the header, never the history.
LEMMA EditedFacts ==
  ASSUME NEW i \in Issue(Fp), i.state # "deleted",
         NEW edit \in {"complete", "decline", "reopen", "retitle", "strip", "delete"}
  PROVE  LET new == Edited(i, edit)
         IN  /\ new \in Issue(Fp)
             /\ new.fp = i.fp /\ new.hits = i.hits
             /\ new.reopened = i.reopened /\ new.announced = i.announced
             /\ new.title \in {1, i.title} /\ new.header \in {0, i.header}
<1> USE DEF Edited, Closed, Issue, IssueState, StateReason
<1>1. CASE edit = "complete"
  BY <1>1
<1>2. CASE edit = "decline"
  BY <1>2
<1>3. CASE edit = "reopen"
  BY <1>3
<1>4. CASE edit = "retitle"
  BY <1>4
<1>5. CASE edit = "strip"
  BY <1>5
<1>6. CASE edit = "delete"
  BY <1>6
<1>7. QED
  BY <1>1, <1>2, <1>3, <1>4, <1>5, <1>6

(***************************************************************************)
(* The filer's own operators.                                              *)
(***************************************************************************)
\* 1 + 2 + ... + ClaimRetries is a number: the product is even.
LEMMA ClaimWaitFacts == ClaimWait \in Nat /\ 2 * ClaimWait = ClaimRetries * (ClaimRetries + 1)
<1>1. ClaimRetries \in Nat
  BY FilerConstants
<1> DEFINE half == ClaimRetries \div 2
<1>2. half \in Nat /\ (ClaimRetries = 2 * half \/ ClaimRetries = 2 * half + 1)
  BY <1>1
<1> HIDE DEF half
<1>3. PICK x \in Nat : ClaimRetries * (ClaimRetries + 1) = 2 * x
  <2>1. CASE ClaimRetries = 2 * half
    <3>1. \A a, b \in Nat : (2 * a) * b = 2 * (a * b) /\ a * b \in Nat
      OBVIOUS
    <3>2. ClaimRetries * (ClaimRetries + 1) = 2 * (half * (ClaimRetries + 1))
          /\ half * (ClaimRetries + 1) \in Nat
      BY <1>1, <1>2, <2>1, <3>1
    <3>3. QED
      BY <3>2
  <2>2. CASE ClaimRetries = 2 * half + 1
    <3>1. \A a, b \in Nat : a * (2 * b) = 2 * (a * b) /\ a * b \in Nat
      OBVIOUS
    <3>2. ClaimRetries + 1 = 2 * (half + 1) /\ half + 1 \in Nat
      BY <1>2, <2>2
    <3>3. ClaimRetries * (ClaimRetries + 1) = 2 * (ClaimRetries * (half + 1))
          /\ ClaimRetries * (half + 1) \in Nat
      BY <1>1, <3>1, <3>2
    <3>4. QED
      BY <3>3
  <2>3. QED
    BY <1>2, <2>1, <2>2
<1>4. ClaimWait = (2 * x) \div 2
  BY <1>3 DEF ClaimWait
<1>5. (2 * x) \div 2 = x
  OBVIOUS
<1>6. QED
  BY <1>3, <1>4, <1>5

\* The types of the constants, one by one.
LEMMA Bounds ==
  /\ ClaimRetries \in Nat \ {0} /\ MaxAttempts \in Nat \ {0}
  /\ MaxFilings \in Nat /\ MaxErrors \in Nat /\ MaxLost \in Nat
  /\ MaxCrashes \in Nat /\ MaxEdits \in Nat
BY FilerConstants

\* Idle is a job.
LEMMA IdleType == Idle \in Job
BY Bounds, FilerConstants DEF Idle, Job

\* _pick chooses one of the issues that were found: there is a most recent.
LEMMA PickFacts ==
  ASSUME gh \in Store(Fp), NEW found \in SUBSET Numbers(gh), found # {}
  PROVE  Pick(found) \in found
<1> DEFINE open == {n \in found : gh.issues[n].state = "open"}
           pool == IF open # {} THEN open ELSE found
           ages == {gh.newer[n] : n \in pool}
           below == {ss \in Nat \X Nat : ss[1] < ss[2]}
<1>1. pool \subseteq found /\ pool # {}
  OBVIOUS
<1>2. \A n \in pool : gh.newer[n] \in Nat
  <2>1. gh.newer \in Seq(Nat) /\ Len(gh.newer) = Len(gh.issues)
    BY DEF Store
  <2>2. \A n \in Numbers(gh) : gh.newer[n] \in Nat
    BY <2>1 DEF Store, Numbers
  <2>3. QED
    BY <1>1, <2>2
<1>3. ages \subseteq Nat /\ ages # {}
  BY <1>1, <1>2
<1>4. PICK a \in ages : \A b \in ages : <<b, a>> \notin below
  <2>1. IsWellFoundedOn(below, Nat)
    BY NatLessThanWellFounded DEF OpToRel
  <2> HIDE DEF below, ages
  <2>2. QED
    BY <1>3, <2>1, WFMin
<1>5. \A b \in ages : a <= b
  <2> TAKE b \in ages
  <2>1. b \in Nat /\ a \in Nat /\ <<b, a>> \notin below
    BY <1>3, <1>4
  <2> HIDE DEF ages
  <2>2. ~ (b < a)
    BY <2>1
  <2>3. QED
    BY <2>1, <2>2
<1>6. \E n \in pool : \A m \in pool : gh.newer[n] <= gh.newer[m]
  BY <1>5
<1>7. Pick(found) = CHOOSE n \in pool : \A m \in pool : gh.newer[n] <= gh.newer[m]
  BY DEF Pick
<1> HIDE DEF pool
<1>8. QED
  BY <1>1, <1>6, <1>7

\* A look-up returns issues of the tracker.
LEMMA LabelledNumbers ==
  ASSUME NEW f
  PROVE  Labelled(gh, f) \subseteq Numbers(gh)
BY DEF Labelled

\* A copy of an issue that exists is a Copy, and shows its counts.
LEMMA SnapshotType ==
  ASSUME gh \in Store(Fp), NEW n \in Numbers(gh), Exists(gh, n)
  PROVE  /\ Snapshot(n) \in Copy
         /\ Snapshot(n).number = n
         /\ Snapshot(n).title = gh.issues[n].title
         /\ Snapshot(n).header = gh.issues[n].header
<1>1. gh.issues[n] \in Issue(Fp)
  BY IssueAt
<1>2. n \in Nat \ {0}
  BY DEF Numbers, Store
<1>3. QED
  BY <1>1, <1>2 DEF Snapshot, Copy, Exists, Issue, IssueState

\* The count an issue shows: the larger of title and header, at least 1.
LEMMA CountFacts ==
  ASSUME NEW i, i.title \in Nat \ {0}, i.header \in Nat
  PROVE  /\ NewCount(i) \in Nat \ {0} /\ Count(i) \in Nat
         /\ NewCount(i) = Count(i) + 1
         /\ Count(i) >= i.title /\ Count(i) >= i.header
         /\ Count(i) \in {i.title, i.header, 1}
         /\ i.header = 0 => Count(i) = i.title
BY DEF Count, NewCount

\* Regression is a truth value.
LEMMA RegressionType ==
  ASSUME NEW s, s.reason \in StateReason
  PROVE  Regression(s) \in BOOLEAN
BY FilerConstants DEF Regression

\* The job of a replica, and what is known of one about to write.
LEMMA JobFacts ==
  ASSUME TypeOK, NEW r \in Replica
  PROVE  /\ job[r] \in Job
         /\ job[r].pc \in {"update", "comment"} =>
              job[r].snap \in Copy /\ job[r].snap.number \in Numbers(gh)
BY DEF TypeOK

\* Replica r moves on and no other does.
Moves(r) ==
    /\ job' \in [Replica -> Job]
    /\ \A q \in Replica \ {r} : job'[q] = job[q]

\* Become(r, j) moves r to j and nobody else.
LEMMA BecomeFacts ==
  ASSUME TypeOK, NEW r \in Replica, NEW j \in Job, Become(r, j)
  PROVE  Moves(r) /\ job'[r] = j
BY DEF TypeOK, Become, Moves

\* A filing that is over is idle.
LEMMA FinishFacts ==
  ASSUME TypeOK, NEW r \in Replica, Finish(r)
  PROVE  /\ Moves(r)
         /\ job'[r].pc = "idle" /\ job'[r].arrived = FALSE /\ job'[r].wait = 0
BY BecomeFacts, IdleType DEF Finish, Idle

\* A filing that starts looks its fingerprint up.
LEMMA StartFacts ==
  ASSUME TypeOK, NEW r \in Replica, NEW f \in Fp, StartFiling(r, f)
  PROVE  /\ Moves(r)
         /\ job'[r].pc = "lookup" /\ job'[r].fp = f /\ job'[r].arrived = FALSE
<1> DEFINE j == [Idle EXCEPT !.pc = "lookup", !.fp = f]
<1>1. j \in Job /\ j.pc = "lookup" /\ j.fp = f /\ j.arrived = FALSE
  BY IdleType DEF Job, Request, Idle
<1>2. Become(r, j)
  BY DEF StartFiling
<1> HIDE DEF j
<1>3. QED
  BY <1>1, <1>2, BecomeFacts

\* GoTo changes the request and keeps fingerprint, copy and arrival.
LEMMA GoToFacts ==
  ASSUME TypeOK, NEW r \in Replica, NEW pc \in Request, GoTo(r, pc)
  PROVE  /\ Moves(r)
         /\ job'[r].pc = pc /\ job'[r].fp = job[r].fp
         /\ job'[r].snap = job[r].snap /\ job'[r].arrived = job[r].arrived
<1> DEFINE j == [job[r] EXCEPT !.pc = pc, !.tries = 1]
<1>1. job[r] \in Job /\ 1 \in 1..MaxAttempts
  BY JobFacts, Bounds
<1>2. j \in Job /\ j.pc = pc /\ j.fp = job[r].fp
      /\ j.snap = job[r].snap /\ j.arrived = job[r].arrived
  BY <1>1 DEF Job
<1>3. Become(r, j)
  BY DEF GoTo
<1> HIDE DEF j
<1>4. QED
  BY <1>2, <1>3, BecomeFacts

\* A filing that found issues goes on to the PATCH with a copy of one of them.
LEMMA RecordOnFacts ==
  ASSUME TypeOK, NEW r \in Replica, NEW f,
         Labelled(gh, f) # {}, RecordOn(r, Labelled(gh, f))
  PROVE  LET n == Pick(Labelled(gh, f))
         IN  /\ Moves(r)
             /\ n \in Labelled(gh, f)
             /\ job'[r].pc = "update" /\ job'[r].fp = job[r].fp
             /\ job'[r].snap \in Copy /\ job'[r].snap.number = n
             /\ job'[r].snap.title = gh.issues[n].title
             /\ job'[r].snap.header = gh.issues[n].header
             /\ job'[r].arrived = job[r].arrived
<1> DEFINE n == Pick(Labelled(gh, f))
           snap == Snapshot(n)
           j == [job[r] EXCEPT !.pc = "update", !.tries = 1, !.snap = snap]
<1>1. job[r] \in Job /\ 1 \in 1..MaxAttempts /\ gh \in Store(Fp)
  BY JobFacts, Bounds DEF TypeOK
<1>2. n \in Labelled(gh, f)
  BY <1>1, PickFacts, LabelledNumbers
<1>3. n \in Numbers(gh) /\ Exists(gh, n)
  BY <1>2 DEF Labelled
<1>4. /\ snap \in Copy /\ snap.number = n
      /\ snap.title = gh.issues[n].title /\ snap.header = gh.issues[n].header
  BY <1>1, <1>3, SnapshotType
<1>5. Become(r, j)
  BY DEF RecordOn
<1> HIDE DEF snap, n
<1>6. j \in Job /\ j.pc = "update" /\ j.fp = job[r].fp
      /\ j.snap = snap /\ j.arrived = job[r].arrived
  BY <1>1, <1>4 DEF Job, Request
<1> HIDE DEF j
<1>7. Moves(r) /\ job'[r] = j
  BY <1>5, <1>6, BecomeFacts
<1>8. QED
  BY <1>2, <1>4, <1>6, <1>7 DEF n

\* A turn of the re-query loop, the first one included.
LEMMA SleepFacts ==
  ASSUME TypeOK, NEW r \in Replica, NEW turn \in 1..ClaimRetries,
         Become(r, [job[r] EXCEPT !.pc = "requery", !.tries = 1,
                                  !.attempt = turn, !.wait = turn])
  PROVE  /\ Moves(r)
         /\ job'[r].pc = "requery" /\ job'[r].fp = job[r].fp
         /\ job'[r].attempt = turn /\ job'[r].wait = turn
         /\ job'[r].arrived = job[r].arrived
<1> DEFINE j == [job[r] EXCEPT !.pc = "requery", !.tries = 1,
                               !.attempt = turn, !.wait = turn]
<1>1. job[r] \in Job /\ 1 \in 1..MaxAttempts /\ turn \in 0..ClaimRetries
  BY JobFacts, Bounds
<1>2. j \in Job /\ j.pc = "requery" /\ j.fp = job[r].fp
      /\ j.attempt = turn /\ j.wait = turn /\ j.arrived = job[r].arrived
  BY <1>1 DEF Job, Request
<1>3. Become(r, j)
  OBVIOUS
<1> HIDE DEF j
<1>4. QED
  BY <1>2, <1>3, BecomeFacts

\* A further turn of the loop waits one unit longer than the last.
LEMMA RequeryTurn ==
  ASSUME TypeOK, NEW r \in Replica, Requery(r), Labelled(gh, job[r].fp) = {},
         job[r].attempt + 1 <= ClaimRetries
  PROVE  /\ Moves(r)
         /\ job'[r].pc = "requery" /\ job'[r].fp = job[r].fp
         /\ job'[r].attempt = job[r].attempt + 1 /\ job'[r].wait = job[r].attempt + 1
         /\ job'[r].arrived = job[r].arrived
<1> DEFINE turn == job[r].attempt + 1
           j == [job[r] EXCEPT !.attempt = turn, !.wait = turn, !.tries = 1]
<1>1. job[r] \in Job /\ 1 \in 1..MaxAttempts /\ turn \in 0..ClaimRetries
  <2>1. job[r] \in Job /\ job[r].attempt \in 0..ClaimRetries
    BY JobFacts DEF Job
  <2>2. QED
    BY <2>1, Bounds
<1>2. Become(r, j) /\ job[r].pc = "requery"
  BY DEF Requery
<1> HIDE DEF turn
<1>3. j \in Job /\ j.pc = job[r].pc /\ j.fp = job[r].fp
      /\ j.attempt = turn /\ j.wait = turn /\ j.arrived = job[r].arrived
  BY <1>1 DEF Job
<1> HIDE DEF j
<1>4. Moves(r) /\ job'[r] = j
  BY <1>2, <1>3, BecomeFacts
<1>5. QED
  BY <1>2, <1>3, <1>4 DEF turn

\* A filing goes on to the POST of its issue.
LEMMA CreatingFacts ==
  ASSUME TypeOK, NEW r \in Replica, NEW assign \in BOOLEAN,
         Become(r, [job[r] EXCEPT !.pc = "create", !.tries = 1, !.assign = assign])
  PROVE  /\ Moves(r)
         /\ job'[r].pc = "create" /\ job'[r].fp = job[r].fp
         /\ job'[r].arrived = job[r].arrived
<1> DEFINE j == [job[r] EXCEPT !.pc = "create", !.tries = 1, !.assign = assign]
<1>1. job[r] \in Job /\ 1 \in 1..MaxAttempts
  BY JobFacts, Bounds
<1>2. j \in Job /\ j.pc = "create" /\ j.fp = job[r].fp /\ j.arrived = job[r].arrived
  BY <1>1 DEF Job, Request
<1>3. Become(r, j)
  OBVIOUS
<1> HIDE DEF j
<1>4. QED
  BY <1>2, <1>3, BecomeFacts

\* A filing goes on to its comment once its PATCH has arrived.
LEMMA GoToCommentFacts ==
  ASSUME TypeOK, NEW r \in Replica, GoToComment(r)
  PROVE  /\ Moves(r)
         /\ job'[r].pc = "comment" /\ job'[r].fp = job[r].fp
         /\ job'[r].snap = job[r].snap /\ job'[r].arrived = TRUE
<1> DEFINE j == [job[r] EXCEPT !.pc = "comment", !.tries = 1, !.arrived = TRUE]
<1>1. job[r] \in Job /\ 1 \in 1..MaxAttempts
  BY JobFacts, Bounds
<1>2. j \in Job /\ j.pc = "comment" /\ j.fp = job[r].fp
      /\ j.snap = job[r].snap /\ j.arrived = TRUE
  BY <1>1 DEF Job, Request
<1>3. Become(r, j)
  BY DEF GoToComment
<1> HIDE DEF j
<1>4. QED
  BY <1>2, <1>3, BecomeFacts

\* A rejected assignee leaves the filing at its POST.
LEMMA RejectFacts ==
  ASSUME TypeOK, NEW r \in Replica, RejectAssignees(r)
  PROVE  /\ Moves(r)
         /\ job'[r].pc = "create" /\ job'[r].fp = job[r].fp
         /\ job'[r].arrived = job[r].arrived
<1> DEFINE j == [job[r] EXCEPT !.assign = FALSE, !.tries = 1]
<1>1. job[r] \in Job /\ 1 \in 1..MaxAttempts
  BY JobFacts, Bounds
<1>2. j \in Job /\ j.pc = job[r].pc /\ j.fp = job[r].fp /\ j.arrived = job[r].arrived
  BY <1>1 DEF Job
<1>3. Become(r, j) /\ job[r].pc = "create"
  BY DEF RejectAssignees
<1> HIDE DEF j
<1>4. QED
  BY <1>2, <1>3, BecomeFacts

\* The winner of a claim goes on to create, the loser to its first turn.
LEMMA ClaimMoves ==
  ASSUME TypeOK, NEW r \in Replica, ClaimLabel(r)
  PROVE  /\ Moves(r)
         /\ job'[r].fp = job[r].fp /\ job'[r].arrived = job[r].arrived
         /\ \/ job[r].fp \notin gh.labels /\ job'[r].pc = "style"
            \/ /\ job[r].fp \in gh.labels /\ job'[r].pc = "requery"
               /\ job'[r].attempt = 1 /\ job'[r].wait = 1
<1>1. CASE job[r].fp \notin gh.labels
  BY <1>1, GoToFacts DEF ClaimLabel, Request
<1>2. CASE job[r].fp \in gh.labels
  <2>1. 1 \in 1..ClaimRetries
    BY Bounds
  <2>2. Become(r, [job[r] EXCEPT !.pc = "requery", !.tries = 1,
                                 !.attempt = 1, !.wait = 1])
    BY <1>2 DEF ClaimLabel
  <2>3. QED
    BY <1>2, <2>1, <2>2, SleepFacts
<1>3. QED
  BY <1>1, <1>2

\* The request is sent again, or the filing is over.
LEMMA ResendFacts ==
  ASSUME TypeOK, NEW r \in Replica, NEW arrived \in BOOLEAN, Resend(r, arrived)
  PROVE  /\ Moves(r)
         /\ job'[r] # job[r] \/ job[r] = Idle
         /\ \/ Finish(r)
            \/ /\ job'[r].pc = job[r].pc /\ job'[r].fp = job[r].fp
               /\ job'[r].snap = job[r].snap
               /\ job'[r].attempt = job[r].attempt /\ job'[r].wait = job[r].wait
               /\ job'[r].arrived = (job[r].arrived \/ arrived)
<1> DEFINE tries == job[r].tries + 1
           now == job[r].arrived \/ arrived
           j == [job[r] EXCEPT !.tries = tries, !.arrived = now]
<1>1. job[r] \in Job /\ job[r].tries \in 1..MaxAttempts /\ job[r].arrived \in BOOLEAN
  BY JobFacts DEF Job
<1>2. CASE job[r].tries < MaxAttempts
  <2>1. tries \in 1..MaxAttempts /\ now \in BOOLEAN /\ tries # job[r].tries
    BY <1>1, <1>2, Bounds
  <2>2. Become(r, j)
    BY <1>2 DEF Resend
  <2> HIDE DEF tries, now
  <2>3. /\ j \in Job /\ j.pc = job[r].pc /\ j.fp = job[r].fp
        /\ j.snap = job[r].snap /\ j.attempt = job[r].attempt
        /\ j.wait = job[r].wait /\ j.arrived = now /\ j.tries = tries
    BY <1>1, <2>1 DEF Job
  <2> HIDE DEF j
  <2>4. Moves(r) /\ job'[r] = j
    BY <2>2, <2>3, BecomeFacts
  <2>5. QED
    BY <2>1, <2>3, <2>4 DEF now
<1>3. CASE ~ (job[r].tries < MaxAttempts)
  <2>1. Finish(r)
    BY <1>3 DEF Resend
  <2>2. Moves(r) /\ job'[r] = Idle
    BY <2>1, BecomeFacts, IdleType DEF Finish
  <2>3. QED
    BY <2>1, <2>2
<1>4. QED
  BY <1>2, <1>3

(***************************************************************************)
(* What the steps do to the tracker.                                       *)
(***************************************************************************)
\* Every issue keeps its number, fingerprint and history.
Grows ==
    /\ gh' \in Store(Fp)
    /\ gh.labels \subseteq gh'.labels
    /\ Numbers(gh) \subseteq Numbers(gh')
    /\ \A n \in Numbers(gh) : /\ gh'.issues[n].fp = gh.issues[n].fp
                              /\ gh'.issues[n].hits >= gh.issues[n].hits
                              /\ Exists(gh', n) => Exists(gh, n)

\* The PATCH of replica r arrives.
LEMMA UpdateFacts ==
  ASSUME TypeOK, NEW r \in Replica, job[r].pc = "update",
         Exists(gh, job[r].snap.number), gh' = UpdateEffect(job[r])
  PROVE  LET n == job[r].snap.number
             old == gh.issues[n]
             new == gh'.issues[n]
         IN  /\ Grows
             /\ gh'.labels = gh.labels
             /\ Numbers(gh') = Numbers(gh)
             /\ n \in Numbers(gh)
             /\ \A m \in Numbers(gh) \ {n} : gh'.issues[m] = gh.issues[m]
             /\ new.fp = old.fp
             /\ new.state = IF Regression(job[r].snap) THEN "open" ELSE old.state
             /\ new.title = NewCount(job[r].snap)
             /\ new.header = IF job[r].snap.header # 0
                             THEN NewCount(job[r].snap) ELSE old.header
             /\ new.hits = IF job[r].arrived THEN old.hits ELSE old.hits + 1
             /\ new.announced = old.announced
             /\ new.reopened = IF ~ job[r].arrived /\ Regression(job[r].snap)
                               THEN old.reopened + 1 ELSE old.reopened
<1> DEFINE n == job[r].snap.number
           old == gh.issues[n]
           count == NewCount(job[r].snap)
           hasHeader == job[r].snap.header # 0
           reopen == Regression(job[r].snap)
           first == ~ job[r].arrived
           new == Patched(old, count, hasHeader, reopen, first)
<1>1. gh \in Store(Fp) /\ job[r] \in Job /\ job[r].snap \in Copy /\ n \in Numbers(gh)
  BY JobFacts DEF TypeOK
<1>2. old \in Issue(Fp)
  BY <1>1, IssueAt
<1>3. count \in Nat \ {0} /\ hasHeader \in BOOLEAN /\ reopen \in BOOLEAN
      /\ job[r].arrived \in BOOLEAN /\ first \in BOOLEAN
  BY <1>1, CountFacts, RegressionType DEF Copy, Job
<1>4. gh' = Write(gh, n, new)
  BY DEF UpdateEffect, UpdateIssue
<1>5. /\ old.hits \in Nat /\ old.state # "deleted"
  BY <1>2 DEF Issue, Exists
<1> HIDE DEF n, old, count, hasHeader, reopen, first, new
<1>6. /\ new \in Issue(Fp)
      /\ new.fp = old.fp
      /\ new.state = IF reopen THEN "open" ELSE old.state
      /\ new.title = count
      /\ new.header = IF hasHeader THEN count ELSE old.header
      /\ new.hits = IF first THEN old.hits + 1 ELSE old.hits
      /\ new.reopened = IF first /\ reopen THEN old.reopened + 1 ELSE old.reopened
      /\ new.announced = old.announced
  <2>1. ASSUME NEW h \in BOOLEAN, NEW o \in BOOLEAN, NEW f \in BOOLEAN
        PROVE  LET p == Patched(old, count, h, o, f)
               IN  /\ p \in Issue(Fp)
                   /\ p.fp = old.fp
                   /\ p.state = IF o THEN "open" ELSE old.state
                   /\ p.title = count
                   /\ p.header = IF h THEN count ELSE old.header
                   /\ p.hits = IF f THEN old.hits + 1 ELSE old.hits
                   /\ p.reopened = IF f /\ o THEN old.reopened + 1 ELSE old.reopened
                   /\ p.announced = old.announced
    BY <1>2, <1>3, PatchedFacts
  <2>2. QED
    BY <1>3, <2>1 DEF new
<1>7. /\ gh' \in Store(Fp) /\ gh'.labels = gh.labels /\ Numbers(gh') = Numbers(gh)
      /\ gh'.issues[n] = new
      /\ \A m \in Numbers(gh) \ {n} : gh'.issues[m] = gh.issues[m]
  BY <1>1, <1>4, <1>6, WriteFacts
<1>8. \A m \in Numbers(gh) : gh.issues[m].hits \in Nat
  BY <1>1, IssueAt DEF Issue
<1>9. Grows
  BY <1>1, <1>5, <1>6, <1>7, <1>8 DEF Grows, Exists, old
<1>10. QED
  BY <1>1, <1>3, <1>6, <1>7, <1>9 DEF n, old, count, hasHeader, reopen, first

\* The comment of replica r arrives.
LEMMA CommentFacts ==
  ASSUME TypeOK, NEW r \in Replica, job[r].pc = "comment",
         gh' = AddComment(gh, job[r].snap.number, Regression(job[r].snap))
  PROVE  LET n == job[r].snap.number
             old == gh.issues[n]
             new == gh'.issues[n]
         IN  /\ Grows
             /\ gh'.labels = gh.labels
             /\ Numbers(gh') = Numbers(gh)
             /\ n \in Numbers(gh)
             /\ \A m \in Numbers(gh) \ {n} : gh'.issues[m] = gh.issues[m]
             /\ new.fp = old.fp /\ new.state = old.state
             /\ new.title = old.title /\ new.header = old.header
             /\ new.hits = old.hits /\ new.reopened = old.reopened
             /\ new.announced = IF Regression(job[r].snap)
                                THEN old.announced + 1 ELSE old.announced
<1> DEFINE n == job[r].snap.number
           old == gh.issues[n]
           regression == Regression(job[r].snap)
           new == Commented(old, regression)
<1>1. gh \in Store(Fp) /\ job[r].snap \in Copy /\ n \in Numbers(gh)
  BY JobFacts DEF TypeOK
<1>2. old \in Issue(Fp) /\ regression \in BOOLEAN
  BY <1>1, IssueAt, RegressionType DEF Copy
<1>3. gh' = Write(gh, n, new)
  BY DEF AddComment
<1>4. old.hits \in Nat
  BY <1>2 DEF Issue
<1> HIDE DEF n, old, regression, new
<1>5. /\ new \in Issue(Fp)
      /\ new.fp = old.fp /\ new.state = old.state
      /\ new.title = old.title /\ new.header = old.header
      /\ new.hits = old.hits /\ new.reopened = old.reopened
      /\ new.announced = IF regression THEN old.announced + 1 ELSE old.announced
  BY <1>2, CommentedFacts DEF new
<1>6. /\ gh' \in Store(Fp) /\ gh'.labels = gh.labels /\ Numbers(gh') = Numbers(gh)
      /\ gh'.issues[n] = new
      /\ \A m \in Numbers(gh) \ {n} : gh'.issues[m] = gh.issues[m]
  BY <1>1, <1>3, <1>5, WriteFacts
<1>7. \A m \in Numbers(gh) : gh.issues[m].hits \in Nat
  BY <1>1, IssueAt DEF Issue
<1>8. Grows
  BY <1>1, <1>4, <1>5, <1>6, <1>7 DEF Grows, Exists, old
<1>9. QED
  BY <1>1, <1>5, <1>6, <1>8 DEF n, old, regression

\* Somebody edits issue n.
LEMMA HumanFacts ==
  ASSUME TypeOK, NEW n \in Numbers(gh), NEW edit \in HumanEdits, HumanEdit(n, edit)
  PROVE  LET old == gh.issues[n]
             new == gh'.issues[n]
         IN  /\ Grows
             /\ gh'.labels = gh.labels
             /\ Numbers(gh') = Numbers(gh)
             /\ Exists(gh, n)
             /\ \A m \in Numbers(gh) \ {n} : gh'.issues[m] = gh.issues[m]
             /\ new.fp = old.fp /\ new.hits = old.hits
             /\ new.reopened = old.reopened /\ new.announced = old.announced
             /\ new.title \in {1, old.title} /\ new.header \in {0, old.header}
<1> DEFINE old == gh.issues[n]
           new == Edited(old, edit)
<1>1. gh \in Store(Fp) /\ edit \in {"complete", "decline", "reopen", "retitle", "strip", "delete"}
  BY FilerConstants DEF TypeOK
<1>2. old \in Issue(Fp) /\ old.state # "deleted"
  BY <1>1, IssueAt DEF HumanEdit, Exists
<1>3. gh' = Write(gh, n, new)
  BY DEF HumanEdit, EditIssue
<1>4. old.hits \in Nat
  BY <1>2 DEF Issue
<1> HIDE DEF old, new
<1>5. /\ new \in Issue(Fp) /\ new.fp = old.fp /\ new.hits = old.hits
      /\ new.reopened = old.reopened /\ new.announced = old.announced
      /\ new.title \in {1, old.title} /\ new.header \in {0, old.header}
  BY <1>1, <1>2, EditedFacts DEF new
<1>6. /\ gh' \in Store(Fp) /\ gh'.labels = gh.labels /\ Numbers(gh') = Numbers(gh)
      /\ gh'.issues[n] = new
      /\ \A m \in Numbers(gh) \ {n} : gh'.issues[m] = gh.issues[m]
  BY <1>1, <1>3, <1>5, WriteFacts
<1>7. \A m \in Numbers(gh) : gh.issues[m].hits \in Nat
  BY <1>1, IssueAt DEF Issue
<1>8. Grows
  BY <1>2, <1>4, <1>5, <1>6, <1>7 DEF Grows, Exists, old
<1>9. QED
  BY <1>2, <1>5, <1>6, <1>8 DEF old, Exists

\* A label is created: no issue changes.
LEMMA LabelFacts ==
  ASSUME TypeOK, NEW f \in Fp, gh' = CreateLabel(gh, f)
  PROVE  Grows /\ gh'.labels = gh.labels \cup {f} /\ gh'.issues = gh.issues
<1>1. gh \in Store(Fp)
  BY DEF TypeOK
<1>2. gh' \in Store(Fp) /\ gh'.labels = gh.labels \cup {f} /\ gh'.issues = gh.issues
  BY <1>1, CreateLabelFacts
<1>3. \A n \in Numbers(gh) : gh.issues[n].hits \in Nat
  BY <1>1, IssueAt DEF Issue
<1>4. QED
  BY <1>2, <1>3 DEF Grows, Numbers, Exists

\* An issue is created: no other issue changes.
LEMMA CreateFacts ==
  ASSUME TypeOK, NEW f \in Fp, gh' = CreateIssue(gh, f)
  PROVE  LET n == Len(gh.issues) + 1
         IN  /\ Grows
             /\ gh'.labels = gh.labels \cup {f}
             /\ n \notin Numbers(gh)
             /\ Numbers(gh') = Numbers(gh) \cup {n}
             /\ gh'.issues[n] = NewIssue(f)
             /\ \A m \in Numbers(gh) : gh'.issues[m] = gh.issues[m]
<1> DEFINE n == Len(gh.issues) + 1
<1>1. gh \in Store(Fp) /\ gh.issues \in Seq(Issue(Fp))
  BY DEF TypeOK, Store
<1>2. gh' \in Store(Fp) /\ gh'.labels = gh.labels \cup {f}
      /\ gh'.issues = Append(gh.issues, NewIssue(f))
  BY <1>1, CreateIssueFacts
<1>3. NewIssue(f) \in Issue(Fp)
  BY DEF NewIssue, Issue, IssueState, StateReason
<1>4. /\ Numbers(gh) = 1..Len(gh.issues) /\ Numbers(gh') = 1..(Len(gh.issues) + 1)
      /\ gh'.issues[n] = NewIssue(f) /\ Len(gh.issues) \in Nat
      /\ \A m \in 1..Len(gh.issues) : gh'.issues[m] = gh.issues[m]
  BY <1>1, <1>2, <1>3 DEF Numbers
<1>5. \A m \in Numbers(gh) : gh.issues[m].hits \in Nat
  BY <1>1, IssueAt DEF Issue
<1>6. n \notin Numbers(gh) /\ Numbers(gh') = Numbers(gh) \cup {n}
  BY <1>4
<1>7. Grows
  BY <1>2, <1>4, <1>5, <1>6 DEF Grows, Exists
<1>8. QED
  BY <1>2, <1>4, <1>6, <1>7

\* The tracker does not change.
LEMMA StandsFacts ==
  ASSUME TypeOK, gh' = gh
  PROVE  Grows /\ Numbers(gh') = Numbers(gh)
<1>1. \A n \in Numbers(gh) : gh.issues[n].hits \in Nat
  BY IssueAt DEF Issue, TypeOK
<1>2. QED
  BY <1>1 DEF Grows, TypeOK

(***************************************************************************)
(* Types.                                                                  *)
(***************************************************************************)
\* A step of r that keeps the tracker growing, writes only a valid copy into
\* r's job and spends within the bounds keeps the types.
LEMMA TypeStep ==
  ASSUME TypeOK, NEW r \in Replica, Moves(r), Grows,
         job'[r].pc \in {"update", "comment"} =>
            job'[r].snap \in Copy /\ job'[r].snap.number \in Numbers(gh),
         exposed' = exposed, used' \in Used
  PROVE  TypeOK'
BY DEF TypeOK, Moves, Grows

\* A bound that is not spent may be spent by one more.
LEMMA UsedFacts ==
  ASSUME TypeOK
  PROVE  /\ used \in Used
         /\ used.filings < MaxFilings => [used EXCEPT !.filings = @ + 1] \in Used
         /\ used.errors < MaxErrors => [used EXCEPT !.errors = @ + 1] \in Used
         /\ used.lost < MaxLost => [used EXCEPT !.lost = @ + 1] \in Used
         /\ used.crashes < MaxCrashes => [used EXCEPT !.crashes = @ + 1] \in Used
         /\ used.edits < MaxEdits => [used EXCEPT !.edits = @ + 1] \in Used
<1>1. used \in Used
  BY DEF TypeOK
<1>2. QED
  BY <1>1, Bounds DEF Used

\* Starting a filing keeps the types.
LEMMA StartTypes ==
  ASSUME TypeOK, NEW r \in Replica, NEW f \in Fp, StartFiling(r, f)
  PROVE  TypeOK'
<1>1. Moves(r) /\ job'[r].pc = "lookup"
  BY StartFacts
<1>2. used' \in Used /\ gh' = gh /\ exposed' = exposed
  BY UsedFacts DEF StartFiling
<1>3. QED
  BY <1>1, <1>2, StandsFacts, TypeStep

\* Finding an issue keeps the types.
LEMMA RecordTypes ==
  ASSUME TypeOK, NEW r \in Replica, NEW f,
         Labelled(gh, f) # {}, RecordOn(r, Labelled(gh, f)), UNCHANGED <<gh, exposed, used>>
  PROVE  TypeOK'
<1>1. /\ Moves(r) /\ job'[r].snap \in Copy
      /\ job'[r].snap.number \in Numbers(gh)
  BY RecordOnFacts, LabelledNumbers
<1>2. used' \in Used
  BY UsedFacts
<1>3. QED
  BY <1>1, <1>2, StandsFacts, TypeStep

\* A step that brings r to no write keeps the types.
LEMMA MoveTypes ==
  ASSUME TypeOK, NEW r \in Replica, Moves(r), Grows, UNCHANGED <<exposed, used>>,
         job'[r].pc \notin {"update", "comment"}
  PROVE  TypeOK'
BY UsedFacts, TypeStep

\* Every request that is answered keeps the types.
LEMMA ProgressTypes ==
  ASSUME TypeOK, NEW r \in Replica, Progress(r)
  PROVE  TypeOK'
<1>0. job[r].fp \in Fp
  BY JobFacts DEF Job
<1>1. CASE Lookup(r)
  <2>1. CASE Labelled(gh, job[r].fp) # {}
    BY <1>1, <2>1, RecordTypes DEF Lookup
  <2>2. CASE Labelled(gh, job[r].fp) = {}
    <3>1. GoTo(r, "claim") /\ UNCHANGED <<gh, exposed, used>>
      BY <1>1, <2>2 DEF Lookup
    <3>2. QED
      BY <3>1, GoToFacts, StandsFacts, MoveTypes DEF Request
  <2>3. QED
    BY <2>1, <2>2
<1>2. CASE ClaimLabel(r)
  <2>1. Grows /\ UNCHANGED <<exposed, used>>
    BY <1>0, <1>2, LabelFacts DEF ClaimLabel
  <2>2. QED
    BY <1>2, <2>1, ClaimMoves, MoveTypes
<1>3. CASE Requery(r)
  <2>1. UNCHANGED <<gh, exposed, used>>
    BY <1>3 DEF Requery
  <2>2. CASE Labelled(gh, job[r].fp) # {}
    BY <1>3, <2>2, RecordTypes DEF Requery
  <2>3. CASE Labelled(gh, job[r].fp) = {} /\ job[r].attempt + 1 <= ClaimRetries
    <3>1. Moves(r) /\ job'[r].pc = "requery"
      BY <1>3, <2>3, RequeryTurn
    <3>2. QED
      BY <2>1, <3>1, StandsFacts, MoveTypes
  <2>4. CASE Labelled(gh, job[r].fp) = {} /\ ~ (job[r].attempt + 1 <= ClaimRetries)
    <3>1. GoTo(r, "style")
      BY <1>3, <2>4 DEF Requery
    <3>2. QED
      BY <2>1, <3>1, GoToFacts, StandsFacts, MoveTypes DEF Request
  <2>5. QED
    BY <2>2, <2>3, <2>4
<1>4. CASE StyleExtraLabels(r)
  <2>1. Moves(r) /\ job'[r].pc = "create"
    BY <1>4, CreatingFacts, FilerConstants DEF StyleExtraLabels
  <2>2. QED
    BY <1>4, <2>1, StandsFacts, MoveTypes DEF StyleExtraLabels
<1>5. CASE CreateTheIssue(r)
  <2>1. Grows /\ Moves(r) /\ job'[r].pc = "idle" /\ UNCHANGED <<exposed, used>>
    BY <1>0, <1>5, CreateFacts, FinishFacts DEF CreateTheIssue
  <2>2. QED
    BY <2>1, MoveTypes
<1>6. CASE UpdateTheIssue(r)
  <2>1. Grows /\ job[r].snap.number \in Numbers(gh) /\ UNCHANGED <<exposed, used>>
    BY <1>6, UpdateFacts DEF UpdateTheIssue
  <2>2. CASE GoToComment(r)
    <3>1. Moves(r) /\ job'[r].snap = job[r].snap /\ job[r].snap \in Copy
      BY <1>6, <2>2, GoToCommentFacts, JobFacts DEF UpdateTheIssue
    <3>2. QED
      BY <2>1, <3>1, UsedFacts, TypeStep
  <2>3. CASE Finish(r)
    BY <2>1, <2>3, FinishFacts, MoveTypes
  <2>4. QED
    BY <1>6, <2>2, <2>3 DEF UpdateTheIssue
<1>7. CASE CommentOnTheIssue(r)
  <2>1. Grows /\ Moves(r) /\ job'[r].pc = "idle" /\ UNCHANGED <<exposed, used>>
    BY <1>7, CommentFacts, FinishFacts DEF CommentOnTheIssue
  <2>2. QED
    BY <2>1, MoveTypes
<1>8. CASE IssueGone(r)
  BY <1>8, FinishFacts, StandsFacts, MoveTypes DEF IssueGone
<1>9. QED
  BY <1>1, <1>2, <1>3, <1>4, <1>5, <1>6, <1>7, <1>8 DEF Progress

\* A request answered badly: what was written stays of its type.
LEMMA ResendTypes ==
  ASSUME TypeOK, NEW r \in Replica, NEW arrived \in BOOLEAN, Resend(r, arrived),
         Grows, exposed' = exposed, used' \in Used
  PROVE  TypeOK'
<1>1. Moves(r)
  BY ResendFacts
<1>2. CASE Finish(r)
  BY <1>1, <1>2, FinishFacts, TypeStep
<1>3. CASE ~ Finish(r)
  <2>1. job'[r].pc = job[r].pc /\ job'[r].snap = job[r].snap
    BY <1>3, ResendFacts
  <2>2. QED
    BY <1>1, <2>1, JobFacts, TypeStep
<1>4. QED
  BY <1>2, <1>3

\* What a request whose answer is lost has done.
LEMMA LostFacts ==
  ASSUME TypeOK, NEW r \in Replica, AnswerLost(r)
  PROVE  /\ Grows
         /\ \/ job[r].pc = "claim" /\ gh' = CreateLabel(gh, job[r].fp)
            \/ job[r].pc = "create" /\ gh' = CreateIssue(gh, job[r].fp)
            \/ /\ job[r].pc = "update" /\ Exists(gh, job[r].snap.number)
               /\ gh' = UpdateEffect(job[r])
            \/ /\ job[r].pc = "comment" /\ Exists(gh, job[r].snap.number)
               /\ gh' = AddComment(gh, job[r].snap.number, Regression(job[r].snap))
<1>0. job[r].fp \in Fp
  BY JobFacts DEF Job
<1>1. CASE job[r].pc = "claim"
  BY <1>0, <1>1, LabelFacts DEF AnswerLost, Effect
<1>2. CASE job[r].pc = "create"
  BY <1>0, <1>2, CreateFacts DEF AnswerLost, Effect
<1>3. CASE job[r].pc = "update"
  BY <1>3, UpdateFacts DEF AnswerLost, Effect
<1>4. CASE job[r].pc = "comment"
  BY <1>4, CommentFacts DEF AnswerLost, Effect
<1>5. QED
  BY <1>1, <1>2, <1>3, <1>4 DEF AnswerLost

\* Time passing changes what is left to wait and what is exposed.
LEMMA TickFacts ==
  ASSUME TypeOK, Tick
  PROVE  /\ job' \in [Replica -> Job]
         /\ \A r \in Replica :
              /\ job'[r].pc = job[r].pc /\ job'[r].fp = job[r].fp
              /\ job'[r].snap = job[r].snap /\ job'[r].arrived = job[r].arrived
              /\ job'[r].attempt = job[r].attempt
              /\ job'[r].wait = IF job[r].wait > 0 THEN job[r].wait - 1 ELSE 0
         /\ exposed' \in [Fp -> 0..ClaimWait]
         /\ gh' = gh /\ used' = used
<1>1. ASSUME NEW r \in Replica
      PROVE  LET w == IF job[r].wait > 0 THEN job[r].wait - 1 ELSE 0
                 j == [job[r] EXCEPT !.wait = w]
             IN  /\ job'[r] = j
                 /\ j \in Job /\ j.pc = job[r].pc /\ j.fp = job[r].fp
                 /\ j.snap = job[r].snap /\ j.arrived = job[r].arrived
                 /\ j.attempt = job[r].attempt /\ j.wait = w
  <2> DEFINE w == IF job[r].wait > 0 THEN job[r].wait - 1 ELSE 0
             j == [job[r] EXCEPT !.wait = w]
  <2>1. job[r] \in Job /\ job[r].wait \in 0..ClaimRetries
    BY JobFacts DEF Job
  <2>2. w \in 0..ClaimRetries
    BY <2>1, Bounds
  <2>3. job'[r] = j
    BY DEF Tick
  <2> HIDE DEF w
  <2>4. /\ j \in Job /\ j.pc = job[r].pc /\ j.fp = job[r].fp
        /\ j.snap = job[r].snap /\ j.arrived = job[r].arrived
        /\ j.attempt = job[r].attempt /\ j.wait = w
    BY <2>1, <2>2 DEF Job
  <2>5. QED
    BY <2>3, <2>4 DEF w
<1>2. job' \in [Replica -> Job]
  <2>1. job' = [r \in Replica |-> job'[r]]
    BY DEF Tick
  <2>2. QED
    BY <1>1, <2>1
<1>3. exposed' \in [Fp -> 0..ClaimWait]
  BY ClaimWaitFacts DEF TypeOK, Tick
<1>4. QED
  BY <1>1, <1>2, <1>3 DEF Tick

\* TypeOK is inductive.
LEMMA TypeNext ==
  ASSUME TypeOK, [Next]_vars
  PROVE  TypeOK'
<1>1. ASSUME NEW r \in Replica, Filing(r)
      PROVE  TypeOK'
  <2>1. CASE \E f \in Fp : StartFiling(r, f)
    BY <2>1, StartTypes
  <2>2. CASE Progress(r)
    BY <2>2, ProgressTypes
  <2>3. CASE RejectAssignees(r)
    BY <2>3, RejectFacts, StandsFacts, MoveTypes DEF RejectAssignees
  <2>4. CASE RequestFails(r)
    BY <2>4, StandsFacts, UsedFacts, ResendTypes DEF RequestFails
  <2>5. CASE AnswerLost(r)
    BY <2>5, LostFacts, UsedFacts, ResendTypes DEF AnswerLost
  <2>6. CASE RaisesAtOnce(r)
    BY <2>6, FinishFacts, StandsFacts, UsedFacts, TypeStep DEF RaisesAtOnce
  <2>7. QED
    BY <1>1, <2>1, <2>2, <2>3, <2>4, <2>5, <2>6 DEF Filing
<1>2. ASSUME NEW r \in Replica, Crash(r)
      PROVE  TypeOK'
  BY <1>2, FinishFacts, StandsFacts, UsedFacts, TypeStep DEF Crash
<1>3. ASSUME NEW n \in Numbers(gh), NEW edit \in HumanEdits, HumanEdit(n, edit)
      PROVE  TypeOK'
  <2>1. Grows /\ used' \in Used /\ UNCHANGED <<job, exposed>>
    BY <1>3, HumanFacts, UsedFacts DEF HumanEdit
  <2>2. QED
    BY <2>1 DEF TypeOK, Grows
<1>4. CASE Tick
  BY <1>4, TickFacts DEF TypeOK, Numbers
<1>5. CASE Quiet \/ UNCHANGED vars
  BY <1>5 DEF Quiet, vars, TypeOK, Numbers
<1>6. QED
  BY <1>1, <1>2, <1>3, <1>4, <1>5 DEF Next

\* TypeOK holds at first.
LEMMA TypeInit == Init => TypeOK
<1>1. EmptyStore \in Store(Fp)
  BY DEF EmptyStore, Store
<1>2. 0 \in 0..ClaimWait
  BY ClaimWaitFacts
<1>3. [filings |-> 0, errors |-> 0, lost |-> 0, crashes |-> 0, edits |-> 0] \in Used
  BY Bounds DEF Used
<1>4. Idle \in Job /\ Idle.pc = "idle"
  BY IdleType DEF Idle
<1>5. QED
  BY <1>1, <1>2, <1>3, <1>4 DEF Init, TypeOK

\* Every variable of the filer keeps its type, and a filing about to write to
\* an issue has looked one up: its copy names an issue the tracker knows.
THEOREM TypeCorrect == Spec => []TypeOK
BY TypeInit, TypeNext, PTL DEF Spec

(***************************************************************************)
(* What people decided.                                                    *)
(***************************************************************************)
\* A PATCH reopens only the issue it is sent to, and only on a copy that was
\* a regression.
LEMMA PatchReopens ==
  ASSUME TypeOK, NEW r \in Replica, job[r].pc = "update",
         Exists(gh, job[r].snap.number), gh' = UpdateEffect(job[r]),
         NEW n \in Numbers(gh), FilingReopens(n)
  PROVE  job[r].snap.number = n /\ Regression(job[r].snap)
<1>1. gh'.issues[n].state # gh.issues[n].state
  BY DEF FilingReopens, IsClosed
<1>2. job[r].snap.number = n
  BY <1>1, UpdateFacts
<1>3. Regression(job[r].snap)
  <2>1. CASE ~ Regression(job[r].snap)
    BY <1>1, <1>2, <2>1, UpdateFacts
  <2>2. QED
    BY <2>1
<1>4. QED
  BY <1>2, <1>3

\* Who reopens an issue, over all steps.
LEMMA ReopenStep ==
  ASSUME TypeOK, [Next]_vars, NEW n \in Numbers(gh), FilingReopens(n)
  PROVE  \E r \in Replica : /\ job'[r] # job[r]
                            /\ job[r].snap.number = n
                            /\ Regression(job[r].snap)
<1>1. job' # job /\ gh'.issues[n].state # gh.issues[n].state
  BY DEF FilingReopens, IsClosed
<1>2. ASSUME NEW r \in Replica, UpdateTheIssue(r)
      PROVE  job'[r] # job[r] /\ job[r].snap.number = n /\ Regression(job[r].snap)
  <2>1. job[r].pc = "update" /\ Exists(gh, job[r].snap.number) /\ gh' = UpdateEffect(job[r])
    BY <1>2 DEF UpdateTheIssue
  <2>2. job'[r].pc # "update"
    BY <1>2, GoToCommentFacts, FinishFacts DEF UpdateTheIssue
  <2>3. QED
    BY <2>1, <2>2, PatchReopens
<1>3. ASSUME NEW r \in Replica, AnswerLost(r)
      PROVE  job'[r] # job[r] /\ job[r].snap.number = n /\ Regression(job[r].snap)
  <2>0. job[r].fp \in Fp
    BY JobFacts DEF Job
  <2>1. CASE job[r].pc = "update"
    <3>1. Exists(gh, job[r].snap.number) /\ gh' = UpdateEffect(job[r])
      BY <1>3, <2>1, LostFacts
    <3>2. Resend(r, TRUE)
      BY <1>3, <2>1 DEF AnswerLost
    <3>3. job'[r] # job[r]
      <4>1. job'[r] # job[r] \/ job[r] = Idle
        BY <3>2, ResendFacts
      <4>2. Idle.pc = "idle"
        BY DEF Idle
      <4>3. QED
        BY <2>1, <4>1, <4>2
    <3>4. QED
      BY <2>1, <3>1, <3>3, PatchReopens
  <2>2. CASE job[r].pc = "claim"
    BY <1>1, <1>3, <2>0, <2>2, LostFacts, LabelFacts
  <2>3. CASE job[r].pc = "create"
    <3>1. gh' = CreateIssue(gh, job[r].fp)
      BY <1>3, <2>3, LostFacts
    <3>2. QED
      BY <1>1, <2>0, <3>1, CreateFacts
  <2>4. CASE job[r].pc = "comment"
    <3>1. gh' = AddComment(gh, job[r].snap.number, Regression(job[r].snap))
      BY <1>3, <2>4, LostFacts
    <3>2. QED
      BY <1>1, <2>4, <3>1, CommentFacts
  <2>5. QED
    BY <1>3, <2>1, <2>2, <2>3, <2>4, LostFacts
<1>4. ASSUME NEW r \in Replica, ClaimLabel(r)
      PROVE  FALSE
  <2>1. gh'.issues = gh.issues
    BY <1>4, JobFacts, LabelFacts DEF ClaimLabel, Job
  <2>2. QED
    BY <1>1, <2>1
<1>5. ASSUME NEW r \in Replica, CreateTheIssue(r)
      PROVE  FALSE
  <2>1. gh' = CreateIssue(gh, job[r].fp) /\ job[r].fp \in Fp
    BY <1>5, JobFacts DEF CreateTheIssue, Job
  <2>2. QED
    BY <1>1, <2>1, CreateFacts
<1>6. ASSUME NEW r \in Replica, CommentOnTheIssue(r)
      PROVE  FALSE
  <2>1. job[r].pc = "comment"
        /\ gh' = AddComment(gh, job[r].snap.number, Regression(job[r].snap))
    BY <1>6 DEF CommentOnTheIssue
  <2>2. QED
    BY <1>1, <2>1, CommentFacts
<1>7. ASSUME NEW m \in Numbers(gh), NEW edit \in HumanEdits, HumanEdit(m, edit)
      PROVE  FALSE
  BY <1>1, <1>7 DEF HumanEdit
<1>8. gh' # gh
  BY <1>1
<1>9. QED
  BY <1>2, <1>3, <1>4, <1>5, <1>6, <1>7, <1>8
     DEF Next, Filing, Progress, StartFiling, Lookup, Requery, StyleExtraLabels,
         IssueGone, RejectAssignees, RequestFails, RaisesAtOnce, Crash, Tick, Quiet, vars

\* Closing or declining an issue is undone only by a filing that had looked it
\* up as a regression, however the requests of filings and people interleave.
THEOREM CloseStands == Spec => CloseDuringFilingStands
<1>1. TypeOK /\ [Next]_vars =>
        [\A n \in Numbers(gh) :
           FilingReopens(n) =>
             \E r \in Replica : /\ job'[r] # job[r]
                                /\ job[r].snap.number = n
                                /\ Regression(job[r].snap)]_vars
  BY ReopenStep
<1>2. QED
  BY <1>1, TypeCorrect, PTL DEF Spec, CloseDuringFilingStands

(***************************************************************************)
(* One issue per error.                                                    *)
(***************************************************************************)
\* The filings of f that no longer look before they create.
Creating(f) == {r \in Replica : job[r].fp = f /\ job[r].pc \in {"style", "create"}}

\* What DuplicateNeedsSlowWinner puts the duplicate down to.
Slow(f) == exposed[f] >= ClaimWait \/ Deleted(gh, f)

\* An issue has the label of its fingerprint, and whoever creates one, or
\* waits for one, has found or made the label.
LabelFirst ==
    /\ \A n \in Numbers(gh) : gh.issues[n].fp \in gh.labels
    /\ \A r \in Replica :
         job[r].pc \in {"requery", "style", "create"} => job[r].fp \in gh.labels

\* The label is a mutex: issues and filings that create one are one together.
OneWinner ==
    \A f \in Fp :
        Slow(f) \/ Cardinality(Labelled(gh, f)) + Cardinality(Creating(f)) <= 1 + used.lost

\* A loser's turns of the loop so far were all spent with the label exposed:
\* 1 + 2 + ... + attempt units, less what is left of the current one.
LosersWaited ==
    \A r \in Replica :
        job[r].pc = "requery" =>
            \/ Slow(job[r].fp)
            \/ Labelled(gh, job[r].fp) # {}
            \/ job[r].attempt * (job[r].attempt + 1)
                 <= 2 * (exposed[job[r].fp] + job[r].wait)

MutexInv == TypeOK /\ LabelFirst /\ OneWinner /\ LosersWaited

\* The issues of a fingerprint and the filings creating one can be counted.
LEMMA MutexFinite ==
  ASSUME TypeOK, NEW f
  PROVE  /\ IsFiniteSet(Labelled(gh, f)) /\ Cardinality(Labelled(gh, f)) \in Nat
         /\ IsFiniteSet(Creating(f)) /\ Cardinality(Creating(f)) \in Nat
<1>1. IsFiniteSet(Numbers(gh))
  <2>1. Numbers(gh) = 1..Len(gh.issues) /\ Len(gh.issues) \in Nat
    BY DEF TypeOK, Store, Numbers
  <2>2. QED
    BY <2>1, FS_Interval
<1>2. IsFiniteSet(Labelled(gh, f)) /\ IsFiniteSet(Creating(f))
  BY <1>1, FS_Subset, FilerConstants DEF Labelled, Creating
<1>3. QED
  BY <1>2, FS_CardinalityType

\* The types of what MutexInv compares.
LEMMA MutexTypes ==
  ASSUME TypeOK
  PROVE  /\ \A f \in Fp : exposed[f] \in 0..ClaimWait /\ exposed[f] \in Int
         /\ used.lost \in Nat /\ ClaimWait \in Nat
         /\ \A r \in Replica : /\ job[r].fp \in Fp
                               /\ job[r].attempt \in Nat /\ job[r].wait \in Nat
<1>1. ClaimWait \in Nat /\ ClaimRetries \in Nat /\ MaxLost \in Nat
  BY ClaimWaitFacts, Bounds
<1>2. used \in Used /\ used.lost \in 0..MaxLost
  BY DEF TypeOK, Used
<1>3. \A f \in Fp : exposed[f] \in 0..ClaimWait
  BY DEF TypeOK
<1>4. \A r \in Replica : /\ job[r].fp \in Fp
                         /\ job[r].attempt \in 0..ClaimRetries /\ job[r].wait \in 0..ClaimRetries
  BY JobFacts DEF Job
<1>5. QED
  BY <1>1, <1>2, <1>3, <1>4

\* What excuses a duplicate goes on excusing it.
LEMMA SlowStays ==
  ASSUME TypeOK, Grows, exposed' = exposed, NEW f, Slow(f)
  PROVE  Slow(f)'
<1>1. CASE exposed[f] >= ClaimWait
  BY <1>1 DEF Slow, ClaimWait
<1>2. CASE Deleted(gh, f)
  <2>1. PICK n \in Numbers(gh) : gh.issues[n].fp = f /\ ~ Exists(gh, n)
    BY <1>2 DEF Deleted
  <2>2. n \in Numbers(gh') /\ gh'.issues[n].fp = f /\ ~ Exists(gh', n)
    BY <2>1 DEF Grows
  <2>3. Deleted(gh', f)
    BY <2>2 DEF Deleted
  <2>4. QED
    BY <2>3 DEF Slow, Deleted
<1>3. QED
  BY <1>1, <1>2 DEF Slow

\* An issue stays, or it was deleted.
LEMMA FoundStays ==
  ASSUME Grows, NEW f, Labelled(gh, f) # {}
  PROVE  Labelled(gh', f) # {} \/ Slow(f)'
<1>1. PICK n \in Numbers(gh) : gh.issues[n].fp = f
  BY DEF Labelled
<1>2. n \in Numbers(gh') /\ gh'.issues[n].fp = f
  BY <1>1 DEF Grows
<1>3. CASE Exists(gh', n)
  BY <1>2, <1>3 DEF Labelled
<1>4. CASE ~ Exists(gh', n)
  <2>1. Deleted(gh', f)
    BY <1>2, <1>4 DEF Deleted
  <2>2. QED
    BY <2>1 DEF Slow, Deleted
<1>5. QED
  BY <1>3, <1>4

\* No label and no creating filing but r's may come into being.
LEMMA LabelStep ==
  ASSUME MutexInv, NEW r \in Replica, Moves(r), Grows,
         \A n \in Numbers(gh') \ Numbers(gh) : gh'.issues[n].fp \in gh'.labels,
         job'[r].pc \in {"requery", "style", "create"} => job'[r].fp \in gh'.labels
  PROVE  LabelFirst'
<1>1. \A n \in Numbers(gh') : gh'.issues[n].fp \in gh'.labels
  BY DEF MutexInv, LabelFirst, Grows
<1>2. \A q \in Replica :
        job'[q].pc \in {"requery", "style", "create"} => job'[q].fp \in gh'.labels
  BY DEF MutexInv, LabelFirst, Grows, Moves
<1>3. QED
  BY <1>1, <1>2 DEF LabelFirst, Numbers

\* r waits as it should; the others have not moved.
LEMMA LosersStep ==
  ASSUME MutexInv, TypeOK', NEW r \in Replica, Moves(r), Grows, exposed' = exposed,
         job'[r].pc = "requery" =>
            \/ Slow(job'[r].fp)
            \/ Labelled(gh, job'[r].fp) # {}
            \/ job'[r].attempt * (job'[r].attempt + 1)
                 <= 2 * (exposed[job'[r].fp] + job'[r].wait)
  PROVE  LosersWaited'
<1>1. ASSUME NEW q \in Replica, job'[q].pc = "requery"
      PROVE  \/ Slow(job'[q].fp)
             \/ Labelled(gh, job'[q].fp) # {}
             \/ job'[q].attempt * (job'[q].attempt + 1)
                  <= 2 * (exposed[job'[q].fp] + job'[q].wait)
  BY <1>1 DEF MutexInv, LosersWaited, Moves
<1>2. ASSUME NEW q \in Replica, job'[q].pc = "requery", NEW f, f = job'[q].fp
      PROVE  \/ Slow(f)' \/ Labelled(gh', f) # {}
             \/ job'[q].attempt * (job'[q].attempt + 1) <= 2 * (exposed'[f] + job'[q].wait)
  <2>1. CASE Slow(f)
    BY <2>1, SlowStays DEF MutexInv
  <2>2. CASE Labelled(gh, f) # {}
    BY <2>2, FoundStays
  <2>3. QED
    BY <1>1, <1>2, <2>1, <2>2
<1>3. QED
  BY <1>2 DEF LosersWaited, Slow, Labelled, Deleted, Numbers, Exists

\* Nobody else's creating changes when r moves.
LEMMA CreatingMoves ==
  ASSUME NEW r \in Replica, Moves(r), NEW f
  PROVE  /\ (job'[r].fp = f /\ job'[r].pc \in {"style", "create"})
              => Creating(f)' = Creating(f) \cup {r}
         /\ ~ (job'[r].fp = f /\ job'[r].pc \in {"style", "create"})
              => Creating(f)' = Creating(f) \ {r}
         /\ Creating(f)' \subseteq Creating(f) \cup {r}
<1>1. Creating(f)' = {q \in Replica : /\ job'[q].fp = f
                                      /\ job'[q].pc \in {"style", "create"}}
  BY DEF Creating
<1>2. QED
  BY <1>1 DEF Creating, Moves

\* Fingerprint by fingerprint: a duplicate is excused, or there is no more of
\* issues, creating filings and lost answers than there was.
LEMMA WinnerStep ==
  ASSUME MutexInv, TypeOK', Grows, exposed' = exposed,
         ASSUME NEW f \in Fp, ~ Slow(f), ~ Slow(f)'
         PROVE  Cardinality(Labelled(gh', f)) + Cardinality(Creating(f)')
                  <= 1 + used'.lost
  PROVE  OneWinner'
<1>1. ASSUME NEW f \in Fp
      PROVE  Slow(f)' \/ Cardinality(Labelled(gh', f)) + Cardinality(Creating(f)')
                           <= 1 + used'.lost
  <2>1. CASE Slow(f)
    BY <2>1, SlowStays DEF MutexInv
  <2>2. QED
    BY <2>1
<1>2. QED
  BY <1>1 DEF OneWinner, Slow, Labelled, Deleted, Numbers, Exists, Creating

\* The tracker shows the same issues and r creates none it was not creating.
LEMMA WinnerQuiet ==
  ASSUME MutexInv, TypeOK', NEW r \in Replica, Moves(r), Grows, exposed' = exposed,
         used'.lost >= used.lost,
         \A f \in Fp : Slow(f)' \/ Labelled(gh', f) \subseteq Labelled(gh, f),
         job'[r].pc \in {"style", "create"} =>
            \/ Slow(job'[r].fp)
            \/ job[r].pc \in {"style", "create"} /\ job'[r].fp = job[r].fp
  PROVE  OneWinner'
<1>1. ASSUME NEW f \in Fp, ~ Slow(f), ~ Slow(f)'
      PROVE  Cardinality(Labelled(gh', f)) + Cardinality(Creating(f)') <= 1 + used'.lost
  <2>1. Creating(f)' \subseteq Creating(f)
    <3>1. CASE job'[r].fp = f /\ job'[r].pc \in {"style", "create"}
      BY <1>1, <3>1, CreatingMoves DEF Creating
    <3>2. CASE ~ (job'[r].fp = f /\ job'[r].pc \in {"style", "create"})
      BY <3>2, CreatingMoves
    <3>3. QED
      BY <3>1, <3>2
  <2>2. Labelled(gh', f) \subseteq Labelled(gh, f)
    BY <1>1
  <2>3. /\ IsFiniteSet(Labelled(gh, f)) /\ Cardinality(Labelled(gh, f)) \in Nat
        /\ IsFiniteSet(Creating(f)) /\ Cardinality(Creating(f)) \in Nat
    BY MutexFinite DEF MutexInv
  <2>4. /\ Cardinality(Labelled(gh', f)) <= Cardinality(Labelled(gh, f))
        /\ Cardinality(Creating(f)') <= Cardinality(Creating(f))
        /\ Cardinality(Labelled(gh', f)) \in Nat /\ Cardinality(Creating(f)') \in Nat
    BY <2>1, <2>2, <2>3, FS_Subset, FS_CardinalityType
  <2>5. Cardinality(Labelled(gh, f)) + Cardinality(Creating(f)) <= 1 + used.lost
    BY <1>1 DEF MutexInv, OneWinner
  <2>6. used.lost \in Nat /\ used'.lost \in Nat
    <3>1. used.lost \in Nat
      BY MutexTypes DEF MutexInv
    <3>2. used' \in Used /\ MaxLost \in Nat
      BY Bounds DEF TypeOK
    <3>3. QED
      BY <3>1, <3>2 DEF Used
  <2>7. QED
    BY <2>3, <2>4, <2>5, <2>6
<1>2. QED
  BY <1>1, WinnerStep

\* A step of r that shows the tracker no new issue.
LEMMA MutexQuiet ==
  ASSUME MutexInv, TypeOK', NEW r \in Replica, Moves(r), Grows, exposed' = exposed,
         used'.lost >= used.lost,
         Numbers(gh') = Numbers(gh),
         job'[r].pc \in {"style", "create"} =>
            /\ job'[r].fp = job[r].fp
            /\ Slow(job[r].fp) \/ job[r].pc \in {"style", "create"},
         job'[r].pc = "requery" =>
            /\ job'[r].fp = job[r].fp
            /\ \/ Slow(job[r].fp)
               \/ Labelled(gh, job[r].fp) # {}
               \/ job'[r].attempt * (job'[r].attempt + 1)
                    <= 2 * (exposed[job[r].fp] + job'[r].wait),
         job'[r].pc \in {"requery", "style", "create"} => job[r].fp \in gh'.labels
  PROVE  MutexInv'
<1>1. ASSUME NEW f \in Fp
      PROVE  Labelled(gh', f) \subseteq Labelled(gh, f)
  BY DEF Labelled, Grows
<1>2. LabelFirst'
  BY LabelStep
<1>3. LosersWaited'
  BY LosersStep
<1>4. OneWinner'
  BY <1>1, WinnerQuiet
<1>5. QED
  BY <1>2, <1>3, <1>4 DEF MutexInv

\* The winner of the claim: no issue and no other creating filing is there.
LEMMA MutexClaim ==
  ASSUME MutexInv, TypeOK', NEW r \in Replica, ClaimLabel(r)
  PROVE  MutexInv'
<1> DEFINE g == job[r].fp
<1>0. /\ TypeOK /\ g \in Fp /\ job[r].pc = "claim"
      /\ exposed' = exposed /\ used' = used /\ exposed[g] \in Nat
      /\ used.lost \in Nat
  <2>1. TypeOK /\ g \in Fp
    BY JobFacts DEF MutexInv, Job
  <2>2. QED
    BY <2>1, MutexTypes DEF ClaimLabel
<1>1. /\ Grows /\ gh'.labels = gh.labels \cup {g} /\ gh'.issues = gh.issues
      /\ Numbers(gh') = Numbers(gh)
  BY <1>0, LabelFacts DEF ClaimLabel, Numbers
<1>2. Moves(r) /\ job'[r].fp = g
  BY <1>0, ClaimMoves
<1>3. CASE g \in gh.labels
  <2>1. job'[r].pc = "requery" /\ job'[r].attempt = 1 /\ job'[r].wait = 1
    BY <1>0, <1>3, ClaimMoves
  <2>2. 1 * (1 + 1) <= 2 * (exposed[g] + 1)
    BY <1>0
  <2>3. job'[r].attempt * (job'[r].attempt + 1) <= 2 * (exposed[g] + job'[r].wait)
    BY <2>1, <2>2
  <2>4. used'.lost >= used.lost
    BY <1>0
  <2>5. QED
    BY <1>0, <1>1, <1>2, <1>3, <2>1, <2>3, <2>4, MutexQuiet
<1>4. CASE g \notin gh.labels
  <2>1. job'[r].pc = "style"
    BY <1>0, <1>4, ClaimMoves
  <2>2. LabelFirst' /\ LosersWaited'
    BY <1>0, <1>1, <1>2, <2>1, LabelStep, LosersStep
  <2>3. ASSUME NEW f \in Fp, ~ Slow(f), ~ Slow(f)'
        PROVE  Cardinality(Labelled(gh', f)) + Cardinality(Creating(f)') <= 1 + used'.lost
    <3>1. Labelled(gh', f) = Labelled(gh, f)
      BY <1>1 DEF Labelled, Exists, Numbers
    <3>2. CASE f = g
      <4>1. Labelled(gh, f) = {}
        BY <1>4, <3>2 DEF MutexInv, LabelFirst, Labelled
      <4>2. Creating(f) = {}
        BY <1>4, <3>2 DEF MutexInv, LabelFirst, Creating
      <4>3. Creating(f)' = {r}
        BY <1>2, <2>1, <3>2, <4>2, CreatingMoves
      <4>4. Cardinality(Labelled(gh', f)) = 0 /\ Cardinality(Creating(f)') = 1
        BY <3>1, <4>1, <4>3, FS_EmptySet, FS_Singleton
      <4>5. QED
        BY <1>0, <4>4
    <3>3. CASE f # g
      <4>1. Creating(f)' = Creating(f)
        BY <1>0, <1>2, <3>3, CreatingMoves DEF Creating
      <4>2. QED
        BY <1>0, <1>1, <2>3, <3>1, <4>1 DEF MutexInv, OneWinner
    <3>4. QED
      BY <3>2, <3>3
  <2>4. OneWinner'
    BY <1>0, <1>1, <2>3, WinnerStep
  <2>5. QED
    BY <2>2, <2>4 DEF MutexInv
<1>5. QED
  BY <1>3, <1>4

\* A loser falls through only when the label was exposed all the time.
LEMMA MutexRequery ==
  ASSUME MutexInv, TypeOK', NEW r \in Replica, Requery(r)
  PROVE  MutexInv'
<1> DEFINE g == job[r].fp
           a == job[r].attempt
<1>0. /\ TypeOK /\ g \in Fp /\ job[r].pc = "requery" /\ job[r].wait = 0
      /\ gh' = gh /\ exposed' = exposed /\ used' = used
      /\ exposed[g] \in Nat /\ a \in Nat /\ used.lost \in Nat
  <2>1. TypeOK /\ g \in Fp
    BY JobFacts DEF MutexInv, Job
  <2>2. QED
    BY <2>1, MutexTypes DEF Requery
<1>1. Grows /\ Numbers(gh') = Numbers(gh) /\ used'.lost >= used.lost
  BY <1>0, StandsFacts
<1>2. g \in gh'.labels
  BY <1>0 DEF MutexInv, LabelFirst
<1>3. CASE Labelled(gh, g) # {}
  <2>1. Moves(r) /\ job'[r].pc = "update"
    BY <1>0, <1>3, RecordOnFacts DEF Requery
  <2>2. QED
    BY <1>0, <1>1, <2>1, MutexQuiet
<1>4. CASE Labelled(gh, g) = {}
  <2>1. Slow(g) \/ a * (a + 1) <= 2 * (exposed[g] + 0)
    BY <1>0, <1>4 DEF MutexInv, LosersWaited
  <2>2. CASE a + 1 <= ClaimRetries
    <3>1. /\ Moves(r) /\ job'[r].pc = "requery" /\ job'[r].fp = g
          /\ job'[r].attempt = a + 1 /\ job'[r].wait = a + 1
      BY <1>0, <1>4, <2>2, RequeryTurn
    <3>2. (a + 1) * (a + 2) = a * (a + 1) + 2 * (a + 1)
      <4>1. \A x \in Nat : (x + 1) * (x + 2) = x * (x + 1) + 2 * (x + 1)
        OBVIOUS
      <4>2. QED
        BY <1>0, <4>1
    <3>3. a * (a + 1) \in Nat /\ job'[r].attempt + 1 = a + 2
      <4>1. \A x \in Nat : x * (x + 1) \in Nat
        OBVIOUS
      <4>2. QED
        BY <1>0, <3>1, <4>1
    <3>4. a * (a + 1) <= 2 * exposed[g] =>
            (a + 1) * (a + 2) <= 2 * (exposed[g] + (a + 1))
      BY <1>0, <3>2, <3>3
    <3>5. \/ Slow(g)
          \/ job'[r].attempt * (job'[r].attempt + 1) <= 2 * (exposed[g] + job'[r].wait)
      <4>1. CASE Slow(g)
        BY <4>1
      <4>2. CASE a * (a + 1) <= 2 * (exposed[g] + 0)
        <5>1. (a + 1) * (a + 2) <= 2 * (exposed[g] + (a + 1))
          BY <1>0, <3>4, <4>2
        <5>2. QED
          BY <3>1, <3>3, <5>1
      <4>3. QED
        BY <2>1, <4>1, <4>2
    <3>6. QED
      BY <1>0, <1>1, <1>2, <3>1, <3>5, MutexQuiet
  <2>3. CASE ~ (a + 1 <= ClaimRetries)
    <3>1. Moves(r) /\ job'[r].pc = "style" /\ job'[r].fp = g
      BY <1>0, <1>4, <2>3, GoToFacts DEF Requery, Request
    <3>2. a = ClaimRetries
      <4>1. a \in 0..ClaimRetries
        BY <1>0, JobFacts DEF Job
      <4>2. QED
        BY <2>3, <4>1, Bounds
    <3>3. Slow(g)
      <4>1. CASE a * (a + 1) <= 2 * (exposed[g] + 0)
        <5>1. 2 * ClaimWait <= 2 * (exposed[g] + 0) /\ ClaimWait \in Nat
          BY <3>2, <4>1, ClaimWaitFacts
        <5>2. QED
          BY <1>0, <5>1 DEF Slow
      <4>2. QED
        BY <2>1, <4>1
    <3>4. QED
      BY <1>0, <1>1, <1>2, <3>1, <3>3, MutexQuiet
  <2>4. QED
    BY <2>2, <2>3
<1>5. QED
  BY <1>3, <1>4

\* An issue is created: by a filing that creates no more, or against a lost
\* answer.
LEMMA MutexCreate ==
  ASSUME MutexInv, TypeOK', NEW r \in Replica, Moves(r), job[r].pc = "create",
         gh' = CreateIssue(gh, job[r].fp), exposed' = exposed,
         \/ job'[r].pc = "idle" /\ used'.lost = used.lost
         \/ /\ used'.lost = used.lost + 1
            /\ \/ job'[r].pc = "idle"
               \/ job'[r].pc = "create" /\ job'[r].fp = job[r].fp
  PROVE  MutexInv'
<1> DEFINE g == job[r].fp
           n == Len(gh.issues) + 1
<1>0. TypeOK /\ g \in Fp /\ used.lost \in Nat
  BY MutexTypes DEF MutexInv
<1>1. /\ Grows /\ gh'.labels = gh.labels \cup {g}
      /\ n \notin Numbers(gh) /\ Numbers(gh') = Numbers(gh) \cup {n}
      /\ gh'.issues[n] = NewIssue(g)
      /\ \A m \in Numbers(gh) : gh'.issues[m] = gh.issues[m]
  BY <1>0, CreateFacts
<1>2. NewIssue(g).fp = g /\ NewIssue(g).state = "open"
  BY DEF NewIssue
<1> HIDE DEF n
<1>3. LabelFirst' /\ LosersWaited'
  BY <1>1, <1>2, LabelStep, LosersStep
<1>4. ASSUME NEW f \in Fp, ~ Slow(f), ~ Slow(f)'
      PROVE  Cardinality(Labelled(gh', f)) + Cardinality(Creating(f)') <= 1 + used'.lost
  <2>1. /\ IsFiniteSet(Labelled(gh, f)) /\ Cardinality(Labelled(gh, f)) \in Nat
        /\ IsFiniteSet(Creating(f)) /\ Cardinality(Creating(f)) \in Nat
    BY <1>0, MutexFinite
  <2>2. Cardinality(Labelled(gh, f)) + Cardinality(Creating(f)) <= 1 + used.lost
    BY <1>4 DEF MutexInv, OneWinner
  <2>3. CASE f # g
    <3>1. Labelled(gh', f) = Labelled(gh, f)
      BY <1>1, <1>2, <2>3 DEF Labelled, Exists
    <3>2. Creating(f)' = Creating(f)
      BY <2>3, CreatingMoves DEF Creating
    <3>3. QED
      BY <1>0, <2>1, <2>2, <3>1, <3>2
  <2>4. CASE f = g
    <3>1. Labelled(gh', f) = Labelled(gh, f) \cup {n}
      BY <1>1, <1>2, <2>4 DEF Labelled, Exists
    <3>2. n \notin Labelled(gh, f)
      BY <1>1 DEF Labelled
    <3>3. Cardinality(Labelled(gh', f)) = Cardinality(Labelled(gh, f)) + 1
      BY <2>1, <3>1, <3>2, FS_AddElement, ZenonT(30)
    <3>4. r \in Creating(f)
      BY <2>4 DEF Creating
    <3>5. CASE job'[r].pc = "idle"
      <4>1. Creating(f)' = Creating(f) \ {r}
        BY <3>5, CreatingMoves
      <4>2. Cardinality(Creating(f)') = Cardinality(Creating(f)) - 1
        BY <2>1, <3>4, <4>1, FS_RemoveElement
      <4>3. QED
        BY <1>0, <2>1, <2>2, <3>3, <4>2
    <3>6. CASE job'[r].pc = "create" /\ job'[r].fp = g /\ used'.lost = used.lost + 1
      <4>1. Creating(f)' = Creating(f)
        BY <2>4, <3>4, <3>6, CreatingMoves
      <4>2. QED
        BY <1>0, <2>1, <2>2, <3>3, <3>6, <4>1
    <3>7. QED
      BY <3>5, <3>6
  <2>5. QED
    BY <2>3, <2>4
<1>5. OneWinner'
  BY <1>1, <1>4, WinnerStep
<1>6. QED
  BY <1>3, <1>5 DEF MutexInv

\* The answered requests keep MutexInv.
LEMMA MutexProgress ==
  ASSUME MutexInv, TypeOK', NEW r \in Replica, Progress(r)
  PROVE  MutexInv'
<1>0. /\ TypeOK /\ job[r] \in Job /\ job[r].fp \in Fp
      /\ used.lost \in Nat
  BY JobFacts, MutexTypes DEF MutexInv, Job
<1>1. CASE Lookup(r)
  <2>1. gh' = gh /\ exposed' = exposed /\ used' = used /\ Grows
    BY <1>0, <1>1, StandsFacts DEF Lookup
  <2>2. Moves(r) /\ job'[r].pc \in {"update", "claim"}
    BY <1>0, <1>1, RecordOnFacts, GoToFacts DEF Lookup, Request
  <2>3. QED
    BY <1>0, <2>1, <2>2, MutexQuiet
<1>2. CASE StyleExtraLabels(r)
  <2>1. gh' = gh /\ exposed' = exposed /\ used' = used /\ Grows /\ job[r].pc = "style"
    BY <1>0, <1>2, StandsFacts DEF StyleExtraLabels
  <2>2. Moves(r) /\ job'[r].pc = "create" /\ job'[r].fp = job[r].fp
    BY <1>0, <1>2, CreatingFacts, FilerConstants DEF StyleExtraLabels
  <2>3. job[r].fp \in gh'.labels
    BY <2>1 DEF MutexInv, LabelFirst
  <2>4. QED
    BY <1>0, <2>1, <2>2, <2>3, MutexQuiet
<1>3. CASE CreateTheIssue(r)
  <2>1. /\ job[r].pc = "create" /\ gh' = CreateIssue(gh, job[r].fp)
        /\ exposed' = exposed /\ used' = used
        /\ Moves(r) /\ job'[r].pc = "idle"
    BY <1>0, <1>3, FinishFacts DEF CreateTheIssue
  <2>2. QED
    BY <2>1, MutexCreate
<1>4. CASE UpdateTheIssue(r)
  <2>1. Grows /\ Numbers(gh') = Numbers(gh) /\ exposed' = exposed /\ used' = used
    BY <1>0, <1>4, UpdateFacts DEF UpdateTheIssue
  <2>2. Moves(r) /\ job'[r].pc \in {"comment", "idle"}
    BY <1>0, <1>4, GoToCommentFacts, FinishFacts DEF UpdateTheIssue
  <2>3. QED
    BY <1>0, <2>1, <2>2, MutexQuiet
<1>5. CASE CommentOnTheIssue(r)
  <2>1. Grows /\ Numbers(gh') = Numbers(gh) /\ exposed' = exposed /\ used' = used
    BY <1>0, <1>5, CommentFacts DEF CommentOnTheIssue
  <2>2. Moves(r) /\ job'[r].pc = "idle"
    BY <1>0, <1>5, FinishFacts DEF CommentOnTheIssue
  <2>3. QED
    BY <1>0, <2>1, <2>2, MutexQuiet
<1>6. CASE IssueGone(r)
  <2>1. gh' = gh /\ exposed' = exposed /\ used' = used /\ Grows
    BY <1>0, <1>6, StandsFacts DEF IssueGone
  <2>2. Moves(r) /\ job'[r].pc = "idle"
    BY <1>0, <1>6, FinishFacts DEF IssueGone
  <2>3. QED
    BY <1>0, <2>1, <2>2, MutexQuiet
<1>7. QED
  BY <1>1, <1>2, <1>3, <1>4, <1>5, <1>6, MutexClaim, MutexRequery DEF Progress

\* A filing that ends without having written.
LEMMA MutexFinish ==
  ASSUME MutexInv, TypeOK', NEW r \in Replica, Finish(r), gh' = gh, exposed' = exposed,
         used'.lost >= used.lost
  PROVE  MutexInv'
<1>1. Moves(r) /\ job'[r].pc = "idle" /\ Grows
  BY FinishFacts, StandsFacts DEF MutexInv
<1>2. QED
  BY <1>1, MutexQuiet

\* A request without an answer: the same request again, or none.
LEMMA MutexResend ==
  ASSUME MutexInv, TypeOK', NEW r \in Replica, NEW arrived \in BOOLEAN, Resend(r, arrived),
         Grows, Numbers(gh') = Numbers(gh), exposed' = exposed, used'.lost >= used.lost
  PROVE  MutexInv'
<1>0. TypeOK
  BY DEF MutexInv
<1>1. Moves(r)
  BY <1>0, ResendFacts
<1>2. \/ job'[r].pc = "idle"
      \/ /\ job'[r].pc = job[r].pc /\ job'[r].fp = job[r].fp
         /\ job'[r].attempt = job[r].attempt /\ job'[r].wait = job[r].wait
  BY <1>0, ResendFacts, FinishFacts
<1>3. job'[r].pc \in {"requery", "style", "create"} => job[r].fp \in gh'.labels
  BY <1>2 DEF MutexInv, LabelFirst, Grows
<1>4. job'[r].pc = "requery" =>
            \/ Slow(job[r].fp)
            \/ Labelled(gh, job[r].fp) # {}
            \/ job'[r].attempt * (job'[r].attempt + 1)
                 <= 2 * (exposed[job[r].fp] + job'[r].wait)
  BY <1>2 DEF MutexInv, LosersWaited
<1>5. QED
  BY <1>1, <1>2, <1>3, <1>4, MutexQuiet

\* No filing moves and no issue is created.
LEMMA MutexStands ==
  ASSUME MutexInv, TypeOK', job' = job, Grows, Numbers(gh') = Numbers(gh),
         exposed' = exposed, used'.lost = used.lost
  PROVE  MutexInv'
<1>1. CASE Replica = {}
  <2>1. LabelFirst' /\ LosersWaited'
    BY <1>1 DEF MutexInv, LabelFirst, LosersWaited, Grows, Numbers
  <2>2. ASSUME NEW f \in Fp, ~ Slow(f), ~ Slow(f)'
        PROVE  Cardinality(Labelled(gh', f)) + Cardinality(Creating(f)') <= 1 + used'.lost
    <3>1. Creating(f)' = {} /\ Creating(f) = {}
      BY <1>1 DEF Creating
    <3>2. Labelled(gh', f) \subseteq Labelled(gh, f)
      BY DEF Labelled, Grows
    <3>3. IsFiniteSet(Labelled(gh, f)) /\ Cardinality(Labelled(gh, f)) \in Nat
      BY MutexFinite DEF MutexInv
    <3>4. /\ Cardinality(Labelled(gh', f)) <= Cardinality(Labelled(gh, f))
          /\ Cardinality(Labelled(gh', f)) \in Nat
      BY <3>2, <3>3, FS_Subset, FS_CardinalityType
    <3>5. Cardinality(Labelled(gh, f)) + Cardinality(Creating(f)) <= 1 + used.lost
      BY <2>2 DEF MutexInv, OneWinner
    <3>6. used.lost \in Nat
      BY MutexTypes DEF MutexInv
    <3>7. QED
      BY <3>1, <3>3, <3>4, <3>5, <3>6, FS_EmptySet
  <2>3. OneWinner'
    BY <2>2, WinnerStep
  <2>4. QED
    BY <2>1, <2>3 DEF MutexInv
<1>2. CASE Replica # {}
  <2>1. PICK r \in Replica : TRUE
    BY <1>2
  <2>2. Moves(r) /\ job'[r] = job[r]
    BY DEF Moves, MutexInv, TypeOK
  <2>3. job[r].pc \in {"requery", "style", "create"} => job[r].fp \in gh'.labels
    BY DEF MutexInv, LabelFirst, Grows
  <2>4. job[r].pc = "requery" =>
            \/ Slow(job[r].fp)
            \/ Labelled(gh, job[r].fp) # {}
            \/ job[r].attempt * (job[r].attempt + 1)
                 <= 2 * (exposed[job[r].fp] + job[r].wait)
    BY DEF MutexInv, LosersWaited
  <2>5. used'.lost >= used.lost
    BY MutexTypes DEF MutexInv
  <2>6. QED
    BY <2>2, <2>3, <2>4, <2>5, MutexQuiet
<1>3. QED
  BY <1>1, <1>2

\* Time passes: what a loser waits, its label is exposed.
LEMMA MutexTick ==
  ASSUME MutexInv, TypeOK', Tick
  PROVE  MutexInv'
<1>0. TypeOK
  BY DEF MutexInv
<1>1. /\ gh' = gh /\ used' = used
      /\ \A r \in Replica :
           /\ job'[r].pc = job[r].pc /\ job'[r].fp = job[r].fp
           /\ job'[r].attempt = job[r].attempt
           /\ job'[r].wait = IF job[r].wait > 0 THEN job[r].wait - 1 ELSE 0
  BY <1>0, TickFacts
<1>2. ASSUME NEW f \in Fp
      PROVE  /\ exposed'[f] >= exposed[f]
             /\ (f \in gh.labels /\ Labelled(gh, f) = {} /\ exposed[f] < ClaimWait)
                  => exposed'[f] = exposed[f] + 1
             /\ exposed[f] \in Int /\ exposed'[f] \in Int
  BY <1>0, MutexTypes DEF Tick
<1>3. LabelFirst'
  BY <1>1 DEF MutexInv, LabelFirst, Numbers
<1>4. ASSUME NEW f \in Fp, Slow(f)
      PROVE  Slow(f)'
  <2>1. exposed[f] >= ClaimWait => exposed'[f] >= ClaimWait
    BY <1>0, <1>2, MutexTypes
  <2>2. QED
    BY <1>1, <1>4, <2>1 DEF Slow, Deleted, ClaimWait, Numbers, Exists
<1>5. OneWinner'
  <2>1. ASSUME NEW f \in Fp
        PROVE  Creating(f)' = Creating(f)
    <3>1. Creating(f)' = {q \in Replica : /\ job'[q].fp = f
                                          /\ job'[q].pc \in {"style", "create"}}
      BY DEF Creating
    <3>2. QED
      BY <1>1, <3>1 DEF Creating
  <2>2. ASSUME NEW f \in Fp
        PROVE  Slow(f)' \/ Cardinality(Labelled(gh', f)) + Cardinality(Creating(f)')
                             <= 1 + used'.lost
    BY <1>1, <1>4, <2>1 DEF MutexInv, OneWinner
  <2>3. QED
    BY <2>2 DEF OneWinner, Slow, Labelled, Deleted, Numbers, Exists, Creating
<1>6. ASSUME NEW r \in Replica, job'[r].pc = "requery", NEW g \in Fp, g = job'[r].fp
      PROVE  \/ Slow(g)' \/ Labelled(gh', g) # {}
             \/ job'[r].attempt * (job'[r].attempt + 1) <= 2 * (exposed'[g] + job'[r].wait)
  <2>1. CASE Slow(g) \/ Labelled(gh, g) # {}
    BY <1>1, <1>4, <2>1
  <2>2. CASE ~ Slow(g) /\ Labelled(gh, g) = {}
    <3>1. job[r].pc = "requery" /\ job[r].fp = g
      BY <1>1, <1>6
    <3>2. g \in gh.labels
      BY <3>1 DEF MutexInv, LabelFirst
    <3>3. /\ exposed[g] < ClaimWait
          /\ job[r].attempt \in Nat /\ job[r].wait \in Nat
      BY <1>0, <2>2, MutexTypes DEF Slow
    <3>4. exposed'[g] = exposed[g] + 1
      BY <1>2, <2>2, <3>2, <3>3
    <3>5. job[r].attempt * (job[r].attempt + 1) <= 2 * (exposed[g] + job[r].wait)
      BY <2>2, <3>1 DEF MutexInv, LosersWaited
    <3>6. job'[r].attempt = job[r].attempt /\ job'[r].wait >= job[r].wait - 1
          /\ job'[r].wait \in Nat
      BY <1>1, <3>3
    <3>7. job[r].attempt * (job[r].attempt + 1) \in Nat
      <4>1. \A x \in Nat : x * (x + 1) \in Nat
        OBVIOUS
      <4>2. QED
        BY <3>3, <4>1
    <3> DEFINE gone == job[r].attempt * (job[r].attempt + 1)
    <3>8. job'[r].attempt * (job'[r].attempt + 1) = gone
      BY <3>6
    <3> HIDE DEF gone
    <3>9. gone <= 2 * (exposed'[g] + job'[r].wait)
      <4>1. gone \in Nat /\ gone <= 2 * (exposed[g] + job[r].wait)
        BY <3>5, <3>7 DEF gone
      <4>2. QED
        BY <1>2, <3>3, <3>4, <3>6, <4>1
    <3>10. QED
      BY <3>8, <3>9
  <2>3. QED
    BY <2>1, <2>2
<1>7. LosersWaited'
  <2>1. \A r \in Replica : job'[r].fp \in Fp
    BY <1>0, <1>1, MutexTypes
  <2>2. QED
    BY <1>6, <2>1 DEF LosersWaited, Slow, Labelled, Deleted, Numbers, Exists
<1>8. QED
  BY <1>3, <1>5, <1>7 DEF MutexInv

\* A lost answer keeps MutexInv: the issue it left is paid for by used.lost.
LEMMA MutexLost ==
  ASSUME MutexInv, TypeOK', NEW r \in Replica, AnswerLost(r)
  PROVE  MutexInv'
<1>0. /\ TypeOK /\ job[r].fp \in Fp /\ used.lost \in Nat
      /\ Moves(r) /\ Grows /\ exposed' = exposed
  BY MutexTypes, ResendFacts, LostFacts DEF MutexInv, AnswerLost
<1>1. used'.lost = used.lost + 1
  BY <1>0 DEF AnswerLost, MutexInv, TypeOK, Used
<1>2. CASE job[r].pc = "create"
  <2>1. gh' = CreateIssue(gh, job[r].fp)
    BY <1>0, <1>2, LostFacts
  <2>2. Resend(r, FALSE)
    BY <1>2 DEF AnswerLost
  <2>3. \/ job'[r].pc = "idle"
        \/ job'[r].pc = "create" /\ job'[r].fp = job[r].fp
    BY <1>0, <1>2, <2>2, ResendFacts, FinishFacts
  <2>4. QED
    BY <1>0, <1>1, <1>2, <2>1, <2>3, MutexCreate
<1>3. CASE job[r].pc # "create"
  <2>1. Numbers(gh') = Numbers(gh)
    <3>1. CASE job[r].pc = "claim"
      BY <1>0, <3>1, LostFacts, LabelFacts DEF Numbers
    <3>2. CASE job[r].pc = "update"
      BY <1>0, <3>2, LostFacts, UpdateFacts
    <3>3. CASE job[r].pc = "comment"
      BY <1>0, <3>3, LostFacts, CommentFacts
    <3>4. QED
      BY <1>0, <1>3, <3>1, <3>2, <3>3, LostFacts
  <2>2. used'.lost >= used.lost
    BY <1>0, <1>1
  <2>3. PICK arrived \in BOOLEAN : Resend(r, arrived)
    BY DEF AnswerLost
  <2>4. QED
    BY <1>0, <2>1, <2>2, <2>3, MutexResend
<1>4. QED
  BY <1>2, <1>3

\* MutexInv is inductive.
LEMMA MutexNext ==
  ASSUME MutexInv, [Next]_vars
  PROVE  MutexInv'
<1>0. TypeOK /\ TypeOK' /\ used.lost \in Nat
  BY TypeNext, MutexTypes DEF MutexInv
<1>1. ASSUME NEW r \in Replica, Filing(r)
      PROVE  MutexInv'
  <2>1. ASSUME NEW f \in Fp, StartFiling(r, f)
        PROVE  MutexInv'
    <3>1. gh' = gh /\ exposed' = exposed /\ used'.lost = used.lost /\ Grows
      BY <1>0, <2>1, UsedFacts, StandsFacts DEF StartFiling, Used
    <3>2. Moves(r) /\ job'[r].pc = "lookup"
      BY <1>0, <2>1, StartFacts
    <3>3. QED
      BY <1>0, <3>1, <3>2, MutexQuiet
  <2>2. CASE RejectAssignees(r)
    <3>1. gh' = gh /\ exposed' = exposed /\ used' = used /\ Grows /\ job[r].pc = "create"
      BY <1>0, <2>2, StandsFacts DEF RejectAssignees
    <3>2. Moves(r) /\ job'[r].pc = "create" /\ job'[r].fp = job[r].fp
      BY <1>0, <2>2, RejectFacts
    <3>3. job[r].fp \in gh'.labels
      BY <3>1 DEF MutexInv, LabelFirst
    <3>4. QED
      BY <1>0, <3>1, <3>2, <3>3, MutexQuiet
  <2>3. CASE RequestFails(r)
    <3>1. /\ gh' = gh /\ exposed' = exposed /\ used'.lost = used.lost /\ Grows
          /\ Resend(r, FALSE)
      BY <1>0, <2>3, UsedFacts, StandsFacts DEF RequestFails, Used
    <3>2. used'.lost >= used.lost
      BY <1>0, <3>1
    <3>3. Numbers(gh') = Numbers(gh) /\ \E arrived \in BOOLEAN : Resend(r, arrived)
      BY <3>1
    <3>4. QED
      BY <1>0, <3>1, <3>2, <3>3, MutexResend
  <2>4. CASE RaisesAtOnce(r)
    <3>1. gh' = gh /\ exposed' = exposed /\ used'.lost = used.lost /\ Finish(r)
      BY <1>0, <2>4, UsedFacts DEF RaisesAtOnce, Used
    <3>2. QED
      BY <1>0, <3>1, MutexFinish
  <2>5. QED
    BY <1>0, <1>1, <2>1, <2>2, <2>3, <2>4, MutexProgress, MutexLost DEF Filing
<1>2. ASSUME NEW r \in Replica, Crash(r)
      PROVE  MutexInv'
  <2>1. gh' = gh /\ exposed' = exposed /\ used'.lost = used.lost /\ Finish(r)
    BY <1>0, <1>2, UsedFacts DEF Crash, Used
  <2>2. QED
    BY <1>0, <2>1, MutexFinish
<1>3. ASSUME NEW n \in Numbers(gh), NEW edit \in HumanEdits, HumanEdit(n, edit)
      PROVE  MutexInv'
  <2>1. job' = job /\ exposed' = exposed /\ used'.lost = used.lost
    BY <1>0, <1>3, UsedFacts DEF HumanEdit, Used
  <2>2. Grows /\ Numbers(gh') = Numbers(gh)
    BY <1>0, <1>3, HumanFacts
  <2>3. QED
    BY <1>0, <2>1, <2>2, MutexStands
<1>4. CASE Quiet \/ UNCHANGED vars
  <2>1. gh' = gh /\ job' = job /\ exposed' = exposed /\ used' = used
    BY <1>4 DEF Quiet, vars
  <2>2. QED
    BY <1>0, <2>1, StandsFacts, MutexStands
<1>5. QED
  BY <1>0, <1>1, <1>2, <1>3, <1>4, MutexTick DEF Next

\* The label mutex: beyond the issue of a POST sent again after a lost answer,
\* one fingerprint gets a second issue only when its label stood without an
\* issue for the losers' whole re-query loop, or when an issue was deleted.
THEOREM LabelMutex == Spec => []DuplicateNeedsSlowWinner
<1>1. Init => MutexInv
  <2>1. ASSUME Init
        PROVE  LabelFirst /\ OneWinner /\ LosersWaited
    <3>1. LabelFirst /\ LosersWaited
      BY <2>1 DEF Init, LabelFirst, LosersWaited, Idle, EmptyStore, Numbers
    <3>2. \A f \in Fp : Labelled(gh, f) = {} /\ Creating(f) = {} /\ used.lost = 0
      BY <2>1 DEF Init, Labelled, Creating, Idle, EmptyStore, Numbers
    <3>3. QED
      BY <3>1, <3>2, FS_EmptySet DEF OneWinner
  <2>2. QED
    BY <2>1, TypeInit DEF MutexInv
<1>2. MutexInv => DuplicateNeedsSlowWinner
  <2>1. ASSUME MutexInv, NEW f \in Fp, ~ Slow(f)
        PROVE  ~ (Cardinality(Labelled(gh, f)) > 1 + used.lost)
    <3>1. Cardinality(Labelled(gh, f)) + Cardinality(Creating(f)) <= 1 + used.lost
      BY <2>1 DEF MutexInv, OneWinner
    <3>2. Cardinality(Labelled(gh, f)) \in Nat /\ Cardinality(Creating(f)) \in Nat
          /\ used.lost \in Nat
      BY <2>1, MutexFinite, MutexTypes DEF MutexInv
    <3>3. QED
      BY <3>1, <3>2
  <2>2. QED
    BY <2>1 DEF DuplicateNeedsSlowWinner, Slow
<1>3. QED
  BY <1>1, <1>2, MutexNext, PTL DEF Spec


(***************************************************************************)
(* The count.                                                              *)
(***************************************************************************)
\* The copy a filing counts on is never ahead of the issue, and behind it by
\* at least the filing's own PATCH once that has arrived.
CopyIsOld ==
    \A r \in Replica :
        job[r].pc = "update" =>
            Count(job[r].snap) + (IF job[r].arrived THEN 1 ELSE 0)
              <= gh.issues[job[r].snap.number].hits

\* Only a filing that writes to an issue remembers that its PATCH arrived.
ArrivedWrites ==
    \A r \in Replica : job[r].arrived => job[r].pc \in {"update", "comment"}

CountInv == TypeOK /\ NeverOvercounts /\ CopyIsOld /\ ArrivedWrites

\* The counts of issues and copies are numbers.
LEMMA CountTypes ==
  ASSUME TypeOK
  PROVE  /\ \A n \in Numbers(gh) : /\ gh.issues[n] \in Issue(Fp)
                                   /\ gh.issues[n].hits \in Nat
                                   /\ gh.issues[n].title \in Nat \ {0}
                                   /\ gh.issues[n].header \in Nat
                                   /\ Count(gh.issues[n]) \in Nat
         /\ \A r \in Replica : job[r].pc = "update" => Count(job[r].snap) \in Nat
<1>1. \A n \in Numbers(gh) : gh.issues[n] \in Issue(Fp)
  BY IssueAt DEF TypeOK
<1>2. \A n \in Numbers(gh) : /\ gh.issues[n].hits \in Nat
                             /\ gh.issues[n].title \in Nat \ {0}
                             /\ gh.issues[n].header \in Nat
  BY <1>1 DEF Issue
<1>3. ASSUME NEW r \in Replica, job[r].pc = "update"
      PROVE  Count(job[r].snap) \in Nat
  <2>1. job[r].snap.title \in Nat \ {0} /\ job[r].snap.header \in Nat
    BY <1>3, JobFacts DEF Copy
  <2>2. QED
    BY <2>1, CountFacts
<1>4. QED
  BY <1>1, <1>2, <1>3, CountFacts

\* Replica r moves, no issue shows more than it should, and r is fine.
LEMMA CountStep ==
  ASSUME CountInv, TypeOK', NEW r \in Replica, Moves(r), Grows, NeverOvercounts',
         job'[r].pc = "update" =>
            Count(job'[r].snap) + (IF job'[r].arrived THEN 1 ELSE 0)
              <= gh'.issues[job'[r].snap.number].hits,
         job'[r].arrived => job'[r].pc \in {"update", "comment"}
  PROVE  CountInv'
<1>1. ArrivedWrites'
  BY DEF CountInv, ArrivedWrites, Moves
<1>2. CopyIsOld'
  <2>1. ASSUME NEW q \in Replica \ {r}, job'[q].pc = "update"
        PROVE  Count(job'[q].snap) + (IF job'[q].arrived THEN 1 ELSE 0)
                 <= gh'.issues[job'[q].snap.number].hits
    <3>1. job'[q] = job[q] /\ job[q].pc = "update"
      BY <2>1 DEF Moves
    <3> DEFINE n == job[q].snap.number
               extra == IF job[q].arrived THEN 1 ELSE 0
    <3>2. n \in Numbers(gh) /\ Count(job[q].snap) \in Nat /\ gh.issues[n].hits \in Nat
      BY <3>1, JobFacts, CountTypes DEF CountInv
    <3>3. Count(job[q].snap) + extra <= gh.issues[n].hits
      BY <3>1 DEF CountInv, CopyIsOld
    <3>4. gh'.issues[n].hits >= gh.issues[n].hits /\ n \in Numbers(gh')
      BY <3>2 DEF Grows
    <3>5. gh'.issues[n].hits \in Nat
      <4>1. gh' \in Store(Fp) /\ n \in Numbers(gh')
        BY <3>2, <3>4 DEF Grows
      <4>2. gh'.issues[n] \in Issue(Fp)
        BY <4>1, IssueAt
      <4>3. QED
        BY <4>2 DEF Issue
    <3> HIDE DEF n, extra
    <3>6. extra \in Nat
      BY DEF extra
    <3>7. Count(job[q].snap) + extra <= gh'.issues[n].hits
      BY <3>2, <3>3, <3>4, <3>5, <3>6
    <3>8. QED
      BY <3>1, <3>7 DEF n, extra
  <2>2. QED
    BY <2>1 DEF CopyIsOld
<1>3. QED
  BY <1>1, <1>2 DEF CountInv

\* A step that writes to no issue and does not bring r to a PATCH.
LEMMA CountUnwritten ==
  ASSUME CountInv, TypeOK', NEW r \in Replica, Moves(r), Grows,
         \A n \in Numbers(gh) : gh'.issues[n] = gh.issues[n],
         \A n \in Numbers(gh') \ Numbers(gh) : \E f \in Fp : gh'.issues[n] = NewIssue(f),
         job'[r].pc # "update",
         job'[r].arrived => job'[r].pc = "comment"
  PROVE  CountInv'
<1>1. ASSUME NEW n \in Numbers(gh')
      PROVE  Count(gh'.issues[n]) <= gh'.issues[n].hits
  <2>1. CASE n \in Numbers(gh)
    BY <2>1 DEF CountInv, NeverOvercounts
  <2>2. CASE n \notin Numbers(gh)
    <3>1. PICK f \in Fp : gh'.issues[n] = NewIssue(f)
      BY <2>2
    <3>2. Count(NewIssue(f)) = 1 /\ NewIssue(f).hits = 1
      BY DEF NewIssue, Count, NewCount
    <3>3. QED
      BY <3>1, <3>2
  <2>3. QED
    BY <2>1, <2>2
<1>2. NeverOvercounts'
  <2>1. \A n \in Numbers(gh') : Count(gh'.issues[n]) <= gh'.issues[n].hits
    BY <1>1
  <2>2. QED
    BY <2>1 DEF NeverOvercounts, Count, NewCount, Numbers
<1>3. QED
  BY <1>2, CountStep

\* An issue was found: the copy says what the issue shows.
LEMMA CountRecord ==
  ASSUME CountInv, TypeOK', NEW r \in Replica, NEW f, Labelled(gh, f) # {},
         RecordOn(r, Labelled(gh, f)), gh' = gh, ~ job[r].arrived
  PROVE  CountInv'
<1> DEFINE n == Pick(Labelled(gh, f))
<1>1. /\ Moves(r) /\ n \in Numbers(gh)
      /\ job'[r].pc = "update" /\ job'[r].snap.number = n
      /\ job'[r].snap.title = gh.issues[n].title
      /\ job'[r].snap.header = gh.issues[n].header
      /\ job'[r].arrived = job[r].arrived
  BY RecordOnFacts, LabelledNumbers DEF CountInv
<1> HIDE DEF n
<1>2. Count(job'[r].snap) = Count(gh.issues[n])
  BY <1>1 DEF Count, NewCount
<1>3. Count(gh.issues[n]) <= gh.issues[n].hits /\ Count(gh.issues[n]) \in Nat
  BY <1>1, CountTypes DEF CountInv, NeverOvercounts
<1>4. Grows /\ NeverOvercounts'
  BY StandsFacts DEF CountInv, NeverOvercounts, Numbers, Count, NewCount
<1>5. Count(job'[r].snap) + (IF job'[r].arrived THEN 1 ELSE 0)
        <= gh'.issues[job'[r].snap.number].hits
  BY <1>1, <1>2, <1>3
<1>6. QED
  BY <1>1, <1>4, <1>5, CountStep

\* The PATCH of r: it writes one more than r's copy, and so many filings have
\* written to the issue by then, this one included.
LEMMA CountUpdate ==
  ASSUME CountInv, NEW r \in Replica, job[r].pc = "update",
         Exists(gh, job[r].snap.number), gh' = UpdateEffect(job[r])
  PROVE  /\ NeverOvercounts'
         /\ Count(job[r].snap) + 1 <= gh'.issues[job[r].snap.number].hits
<1> DEFINE n == job[r].snap.number
           old == gh.issues[n]
           new == gh'.issues[n]
           count == Count(job[r].snap) + 1
<1>1. TypeOK
  BY DEF CountInv
<1>2. /\ n \in Numbers(gh) /\ Numbers(gh') = Numbers(gh)
      /\ \A m \in Numbers(gh) \ {n} : gh'.issues[m] = gh.issues[m]
      /\ new.title = NewCount(job[r].snap)
      /\ new.header = IF job[r].snap.header # 0 THEN NewCount(job[r].snap) ELSE old.header
      /\ new.hits = IF job[r].arrived THEN old.hits ELSE old.hits + 1
      /\ gh' \in Store(Fp)
  BY <1>1, UpdateFacts DEF Grows
<1>3. NewCount(job[r].snap) = count /\ count \in Nat \ {0}
  <2>1. job[r].snap.title \in Nat \ {0} /\ job[r].snap.header \in Nat
    BY <1>1, JobFacts DEF Copy
  <2>2. QED
    BY <2>1, CountFacts
<1>4. /\ old.hits \in Nat /\ old.header \in Nat /\ old.title \in Nat \ {0}
      /\ Count(old) <= old.hits /\ Count(old) >= old.header
      /\ Count(old) \in Nat
  BY <1>1, <1>2, CountTypes, CountFacts DEF CountInv, NeverOvercounts
<1>5. count <= new.hits
  <2>1. Count(job[r].snap) + (IF job[r].arrived THEN 1 ELSE 0) <= old.hits
    BY DEF CountInv, CopyIsOld
  <2>2. Count(job[r].snap) \in Nat
    BY <1>1, CountTypes
  <2> HIDE DEF old, new
  <2>3. QED
    BY <1>2, <1>4, <2>1, <2>2
<1>6. Count(new) <= new.hits
  <2>1. new.title = count /\ new.header \in {count, old.header}
    BY <1>2, <1>3
  <2>2. new.hits >= old.hits /\ new.hits \in Nat
    <3> HIDE DEF old, new
    <3>1. QED
      BY <1>2, <1>4
  <2>3. Count(new) \in {new.title, new.header, 1}
    BY <1>3, <1>4, <2>1, CountFacts
  <2> HIDE DEF old, new, count
  <2>4. QED
    BY <1>3, <1>4, <1>5, <2>1, <2>2, <2>3
<1>7. NeverOvercounts'
  <2>1. \A m \in Numbers(gh') : Count(gh'.issues[m]) <= gh'.issues[m].hits
    BY <1>2, <1>6 DEF CountInv, NeverOvercounts
  <2>2. QED
    BY <2>1 DEF NeverOvercounts, Count, NewCount, Numbers
<1>8. QED
  BY <1>5, <1>7

\* A comment changes no count.
LEMMA CountComment ==
  ASSUME CountInv, NEW r \in Replica, job[r].pc = "comment",
         gh' = AddComment(gh, job[r].snap.number, Regression(job[r].snap))
  PROVE  Grows /\ NeverOvercounts'
<1>1. TypeOK
  BY DEF CountInv
<1>2. /\ Grows /\ Numbers(gh') = Numbers(gh)
      /\ \A n \in Numbers(gh) : /\ gh'.issues[n].title = gh.issues[n].title
                                /\ gh'.issues[n].header = gh.issues[n].header
                                /\ gh'.issues[n].hits = gh.issues[n].hits
  BY <1>1, CommentFacts
<1>3. \A n \in Numbers(gh') : Count(gh'.issues[n]) <= gh'.issues[n].hits
  BY <1>2 DEF CountInv, NeverOvercounts, Count, NewCount
<1>4. QED
  BY <1>2, <1>3 DEF NeverOvercounts, Count, NewCount, Numbers

\* The answered requests keep CountInv.
LEMMA CountProgress ==
  ASSUME CountInv, TypeOK', NEW r \in Replica, Progress(r)
  PROVE  CountInv'
<1>0. /\ TypeOK /\ job[r] \in Job /\ job[r].fp \in Fp
      /\ job[r].arrived => job[r].pc \in {"update", "comment"}
  BY JobFacts DEF CountInv, ArrivedWrites, Job
<1>1. CASE Lookup(r)
  <2>1. CASE Labelled(gh, job[r].fp) # {}
    BY <1>0, <1>1, <2>1, CountRecord DEF Lookup
  <2>2. CASE Labelled(gh, job[r].fp) = {}
    <3>1. GoTo(r, "claim") /\ gh' = gh /\ ~ job[r].arrived
      BY <1>0, <1>1, <2>2 DEF Lookup
    <3>2. Moves(r) /\ job'[r].pc = "claim" /\ job'[r].arrived = job[r].arrived /\ Grows
      BY <1>0, <3>1, GoToFacts, StandsFacts DEF Request
    <3>3. QED
      BY <3>1, <3>2, CountUnwritten
  <2>3. QED
    BY <2>1, <2>2
<1>2. CASE ClaimLabel(r)
  <2>1. Grows /\ gh'.issues = gh.issues /\ ~ job[r].arrived
    BY <1>0, <1>2, LabelFacts DEF ClaimLabel
  <2>2. Moves(r) /\ job'[r].pc \in {"style", "requery"}
        /\ job'[r].arrived = job[r].arrived
    BY <1>0, <1>2, ClaimMoves
  <2>3. QED
    BY <2>1, <2>2, CountUnwritten DEF Numbers
<1>3. CASE Requery(r)
  <2>1. gh' = gh /\ ~ job[r].arrived /\ Grows
    BY <1>0, <1>3, StandsFacts DEF Requery
  <2>2. CASE Labelled(gh, job[r].fp) # {}
    BY <1>0, <1>3, <2>1, <2>2, CountRecord DEF Requery
  <2>3. CASE Labelled(gh, job[r].fp) = {}
    <3>1. Moves(r) /\ job'[r].pc \in {"style", "requery"}
          /\ job'[r].arrived = job[r].arrived
      <4>1. CASE job[r].attempt + 1 <= ClaimRetries
        BY <1>0, <1>3, <2>3, <4>1, RequeryTurn
      <4>2. CASE ~ (job[r].attempt + 1 <= ClaimRetries)
        BY <1>0, <1>3, <2>3, <4>2, GoToFacts DEF Requery, Request
      <4>3. QED
        BY <4>1, <4>2
    <3>2. QED
      BY <2>1, <3>1, CountUnwritten
  <2>4. QED
    BY <2>2, <2>3
<1>4. CASE StyleExtraLabels(r)
  <2>1. Moves(r) /\ job'[r].pc = "create" /\ job'[r].arrived = job[r].arrived
    BY <1>0, <1>4, CreatingFacts, FilerConstants DEF StyleExtraLabels
  <2>2. gh' = gh /\ ~ job[r].arrived /\ Grows
    BY <1>0, <1>4, StandsFacts DEF StyleExtraLabels
  <2>3. QED
    BY <2>1, <2>2, CountUnwritten
<1>5. CASE CreateTheIssue(r)
  <2>1. Moves(r) /\ job'[r].pc = "idle" /\ ~ job'[r].arrived
    BY <1>0, <1>5, FinishFacts DEF CreateTheIssue
  <2>2. /\ Grows
        /\ \A n \in Numbers(gh) : gh'.issues[n] = gh.issues[n]
        /\ \A n \in Numbers(gh') \ Numbers(gh) : \E f \in Fp : gh'.issues[n] = NewIssue(f)
    BY <1>0, <1>5, CreateFacts DEF CreateTheIssue
  <2>3. QED
    BY <2>1, <2>2, CountUnwritten
<1>6. CASE UpdateTheIssue(r)
  <2>1. job[r].pc = "update" /\ Exists(gh, job[r].snap.number) /\ gh' = UpdateEffect(job[r])
    BY <1>6 DEF UpdateTheIssue
  <2>2. Grows /\ NeverOvercounts'
    BY <1>0, <2>1, UpdateFacts, CountUpdate
  <2>3. Moves(r) /\ job'[r].pc # "update" /\ (job'[r].arrived => job'[r].pc = "comment")
    BY <1>0, <1>6, GoToCommentFacts, FinishFacts DEF UpdateTheIssue
  <2>4. QED
    BY <2>2, <2>3, CountStep
<1>7. CASE CommentOnTheIssue(r)
  <2>1. Moves(r) /\ job'[r].pc = "idle" /\ ~ job'[r].arrived
    BY <1>0, <1>7, FinishFacts DEF CommentOnTheIssue
  <2>2. Grows /\ NeverOvercounts'
    BY <1>0, <1>7, CountComment DEF CommentOnTheIssue
  <2>3. QED
    BY <2>1, <2>2, CountStep
<1>8. CASE IssueGone(r)
  <2>1. Moves(r) /\ job'[r].pc = "idle" /\ ~ job'[r].arrived /\ gh' = gh /\ Grows
    BY <1>0, <1>8, FinishFacts, StandsFacts DEF IssueGone
  <2>2. QED
    BY <2>1, CountUnwritten
<1>9. QED
  BY <1>1, <1>2, <1>3, <1>4, <1>5, <1>6, <1>7, <1>8 DEF Progress

\* A lost answer keeps CountInv: the PATCH that arrived is remembered.
LEMMA CountLost ==
  ASSUME CountInv, TypeOK', NEW r \in Replica, AnswerLost(r)
  PROVE  CountInv'
<1>0. /\ TypeOK /\ job[r] \in Job /\ job[r].fp \in Fp /\ job[r].arrived \in BOOLEAN
      /\ job[r].arrived => job[r].pc \in {"update", "comment"}
  BY JobFacts DEF CountInv, ArrivedWrites, Job
<1> DEFINE patched == job[r].pc = "update"
<1>1. Moves(r) /\ Grows
  BY <1>0, ResendFacts, LostFacts DEF AnswerLost
<1>2. \/ job'[r].pc = "idle" /\ ~ job'[r].arrived
      \/ /\ job'[r].pc = job[r].pc /\ job'[r].snap = job[r].snap
         /\ job'[r].arrived = (job[r].arrived \/ patched)
  BY <1>0, ResendFacts, FinishFacts DEF AnswerLost
<1>3. CASE job[r].pc = "claim"
  <2>1. gh'.issues = gh.issues
    BY <1>0, <1>3, LostFacts, LabelFacts
  <2>2. QED
    BY <1>0, <1>1, <1>2, <1>3, <2>1, CountUnwritten DEF Numbers
<1>4. CASE job[r].pc = "create"
  <2>1. /\ \A n \in Numbers(gh) : gh'.issues[n] = gh.issues[n]
        /\ \A n \in Numbers(gh') \ Numbers(gh) : \E f \in Fp : gh'.issues[n] = NewIssue(f)
    <3>1. gh' = CreateIssue(gh, job[r].fp)
      BY <1>0, <1>4, LostFacts
    <3>2. QED
      BY <1>0, <3>1, CreateFacts
  <2>2. QED
    BY <1>0, <1>1, <1>2, <1>4, <2>1, CountUnwritten
<1>5. CASE job[r].pc = "update"
  <2>1. Exists(gh, job[r].snap.number) /\ gh' = UpdateEffect(job[r])
    BY <1>0, <1>5, LostFacts
  <2>2. NeverOvercounts' /\ Count(job[r].snap) + 1 <= gh'.issues[job[r].snap.number].hits
    BY <1>5, <2>1, CountUpdate
  <2>3. job'[r].pc = "update" => /\ job'[r].snap = job[r].snap /\ job'[r].arrived
    BY <1>2, <1>5
  <2>4. Count(job'[r].snap) = Count(job[r].snap) \/ job'[r].pc # "update"
    BY <2>3
  <2>5. job'[r].pc = "update" =>
            Count(job'[r].snap) + (IF job'[r].arrived THEN 1 ELSE 0)
              <= gh'.issues[job'[r].snap.number].hits
    BY <2>2, <2>3, <2>4
  <2>6. job'[r].arrived => job'[r].pc \in {"update", "comment"}
    BY <1>2, <1>5
  <2>7. QED
    BY <1>1, <2>2, <2>5, <2>6, CountStep
<1>6. CASE job[r].pc = "comment"
  <2>1. NeverOvercounts'
    BY <1>0, <1>6, LostFacts, CountComment
  <2>2. QED
    BY <1>0, <1>1, <1>2, <1>6, <2>1, CountStep
<1>7. QED
  BY <1>0, <1>3, <1>4, <1>5, <1>6, LostFacts

\* CountInv is inductive.
LEMMA CountNext ==
  ASSUME CountInv, [Next]_vars
  PROVE  CountInv'
<1>0. TypeOK /\ TypeOK'
  BY TypeNext DEF CountInv
<1>1. ASSUME NEW r \in Replica, Finish(r), gh' = gh
      PROVE  CountInv'
  BY <1>0, <1>1, FinishFacts, StandsFacts, CountUnwritten
<1>2. ASSUME NEW r \in Replica, Filing(r)
      PROVE  CountInv'
  <2>0. job[r].arrived => job[r].pc \in {"update", "comment"}
    BY DEF CountInv, ArrivedWrites
  <2>1. CASE \E f \in Fp : StartFiling(r, f)
    BY <1>0, <2>1, StartFacts, StandsFacts, CountUnwritten DEF StartFiling
  <2>2. CASE Progress(r)
    BY <1>0, <2>2, CountProgress
  <2>3. CASE RejectAssignees(r)
    BY <1>0, <2>0, <2>3, RejectFacts, StandsFacts, CountUnwritten DEF RejectAssignees
  <2>4. CASE RequestFails(r)
    <3>1. Resend(r, FALSE) /\ gh' = gh
      BY <2>4 DEF RequestFails
    <3>2. CASE Finish(r)
      BY <1>1, <3>1, <3>2
    <3>3. CASE ~ Finish(r)
      <4>1. /\ Moves(r) /\ job'[r].pc = job[r].pc /\ job'[r].snap = job[r].snap
            /\ job'[r].arrived = (job[r].arrived \/ FALSE)
        BY <1>0, <3>1, <3>3, ResendFacts
      <4>2. job[r].arrived \in BOOLEAN
        BY <1>0, JobFacts DEF Job
      <4>3. Grows /\ NeverOvercounts'
        BY <1>0, <3>1, StandsFacts DEF CountInv, NeverOvercounts, Count, NewCount, Numbers
      <4>4. job'[r].pc = "update" =>
              Count(job'[r].snap) + (IF job'[r].arrived THEN 1 ELSE 0)
                <= gh'.issues[job'[r].snap.number].hits
        <5>1. job'[r].arrived = job[r].arrived
          BY <4>1, <4>2
        <5>2. QED
          BY <3>1, <4>1, <5>1 DEF CountInv, CopyIsOld, Count, NewCount
      <4>5. QED
        BY <1>0, <2>0, <4>1, <4>2, <4>3, <4>4, CountStep
    <3>4. QED
      BY <3>2, <3>3
  <2>5. CASE AnswerLost(r)
    BY <1>0, <2>5, CountLost
  <2>6. CASE RaisesAtOnce(r)
    BY <1>1, <2>6 DEF RaisesAtOnce
  <2>7. QED
    BY <1>2, <2>1, <2>2, <2>3, <2>4, <2>5, <2>6 DEF Filing
<1>3. ASSUME NEW r \in Replica, Crash(r)
      PROVE  CountInv'
  BY <1>1, <1>3 DEF Crash
<1>4. ASSUME NEW n \in Numbers(gh), NEW edit \in HumanEdits, HumanEdit(n, edit)
      PROVE  CountInv'
  <2>1. job' = job
    BY <1>4 DEF HumanEdit
  <2>2. /\ Numbers(gh') = Numbers(gh)
        /\ \A m \in Numbers(gh) \ {n} : gh'.issues[m] = gh.issues[m]
        /\ gh'.issues[n].hits = gh.issues[n].hits
        /\ gh'.issues[n].title \in {1, gh.issues[n].title}
        /\ gh'.issues[n].header \in {0, gh.issues[n].header}
    BY <1>0, <1>4, HumanFacts
  <2>3. /\ gh.issues[n].title \in Nat \ {0} /\ gh.issues[n].header \in Nat
        /\ gh.issues[n].hits \in Nat
    BY <1>0, CountTypes
  <2>4. Count(gh'.issues[n]) <= Count(gh.issues[n])
    <3>1. \A i, k : /\ i.title \in Nat \ {0} /\ i.header \in Nat
                    /\ k.title \in {1, i.title} /\ k.header \in {0, i.header}
                    => Count(k) <= Count(i)
      BY DEF Count, NewCount
    <3>2. QED
      BY <2>2, <2>3, <3>1
  <2>5. /\ Count(gh'.issues[n]) \in Nat /\ Count(gh.issues[n]) \in Nat
        /\ Count(gh.issues[n]) <= gh.issues[n].hits
    <3>1. gh'.issues[n].title \in Nat \ {0} /\ gh'.issues[n].header \in Nat
      BY <2>2, <2>3
    <3>2. QED
      BY <2>3, <3>1, CountFacts DEF CountInv, NeverOvercounts
  <2>6. \A m \in Numbers(gh') : Count(gh'.issues[m]) <= gh'.issues[m].hits
    BY <2>2, <2>3, <2>4, <2>5 DEF CountInv, NeverOvercounts
  <2>7. NeverOvercounts' /\ ArrivedWrites'
    BY <2>1, <2>6 DEF CountInv, NeverOvercounts, ArrivedWrites, Count, NewCount, Numbers
  <2>8. CopyIsOld'
    <3>1. \A m \in Numbers(gh) : gh'.issues[m].hits = gh.issues[m].hits
      BY <2>2
    <3>2. \A r \in Replica : job[r].pc = "update" => job[r].snap.number \in Numbers(gh)
      BY <1>0, JobFacts
    <3>3. \A r \in Replica : job[r].pc = "update" =>
             Count(job[r].snap) + (IF job[r].arrived THEN 1 ELSE 0)
               <= gh'.issues[job[r].snap.number].hits
      BY <3>1, <3>2 DEF CountInv, CopyIsOld
    <3>4. QED
      BY <2>1, <3>3 DEF CopyIsOld, Count, NewCount
  <2>9. QED
    BY <1>0, <2>7, <2>8 DEF CountInv
<1>5. CASE Tick
  <2>1. /\ gh' = gh
        /\ \A r \in Replica : /\ job'[r].pc = job[r].pc /\ job'[r].snap = job[r].snap
                              /\ job'[r].arrived = job[r].arrived
    BY <1>0, <1>5, TickFacts
  <2>2. NeverOvercounts' /\ ArrivedWrites'
    BY <2>1 DEF CountInv, NeverOvercounts, ArrivedWrites, Count, NewCount, Numbers
  <2>3. CopyIsOld'
    BY <2>1 DEF CountInv, CopyIsOld, Count, NewCount
  <2>4. QED
    BY <1>0, <2>2, <2>3 DEF CountInv
<1>6. CASE Quiet \/ UNCHANGED vars
  <2>1. gh' = gh /\ job' = job
    BY <1>6 DEF Quiet, vars
  <2>2. NeverOvercounts' /\ ArrivedWrites' /\ CopyIsOld'
    BY <2>1 DEF CountInv, NeverOvercounts, ArrivedWrites, CopyIsOld, Count, NewCount, Numbers
  <2>3. QED
    BY <1>0, <2>2 DEF CountInv
<1>7. QED
  BY <1>2, <1>3, <1>4, <1>5, <1>6 DEF Next

\* CountInv holds at first.
LEMMA CountInit == Init => CountInv
<1>1. ASSUME Init
      PROVE  NeverOvercounts /\ CopyIsOld /\ ArrivedWrites
  BY <1>1 DEF Init, NeverOvercounts, CopyIsOld, ArrivedWrites, Idle, EmptyStore, Numbers
<1>2. QED
  BY <1>1, TypeInit DEF CountInv

\* No issue ever claims more occurrences than filings wrote to it, whatever
\* is lost, sent again, edited or interleaved.
THEOREM CountsHonestly == Spec => []NeverOvercounts
<1>1. CountInv => NeverOvercounts
  BY DEF CountInv
<1>2. QED
  BY <1>1, CountInit, CountNext, PTL DEF Spec

(***************************************************************************)
(* Regressions are announced.                                              *)
(***************************************************************************)
\* Without lost answers a filing's PATCH arrives once: it goes on at once.
ArrivedOnce ==
    Undisturbed => \A r \in Replica : job[r].arrived => job[r].pc = "comment"

AnnounceInv == CountInv /\ ArrivedOnce /\ EveryReopenAnnounced

\* Finitely many filings announce.
LEMMA AnnouncingFinite == \A n : IsFiniteSet(Announcing(n))
BY FS_Subset, FilerConstants DEF Announcing

\* An issue whose reopenings, announcements and announcing filings stand.
SameAnnounced(n) ==
    /\ gh'.issues[n].reopened = gh.issues[n].reopened
    /\ gh'.issues[n].announced = gh.issues[n].announced
    /\ Announcing(n)' = Announcing(n)

\* It is enough to account for the issue a step is about.
LEMMA AnnounceStep ==
  ASSUME AnnounceInv, Grows, Undisturbed' => Undisturbed,
         CountInv', ArrivedOnce',
         ASSUME Undisturbed, NEW n \in Numbers(gh), Exists(gh, n), Exists(gh', n)
         PROVE  \/ SameAnnounced(n)
                \/ gh'.issues[n].reopened =
                     gh'.issues[n].announced + Cardinality(Announcing(n)'),
         ASSUME NEW n \in Numbers(gh') \ Numbers(gh)
         PROVE  /\ gh'.issues[n].reopened = 0 /\ gh'.issues[n].announced = 0
                /\ Announcing(n)' = {}
  PROVE  AnnounceInv'
<1>1. ASSUME Undisturbed', NEW n \in Numbers(gh'), Exists(gh', n)
      PROVE  gh'.issues[n].reopened =
               gh'.issues[n].announced + Cardinality(Announcing(n)')
  <2>1. CASE n \in Numbers(gh)
    <3>1. Exists(gh, n) /\ Undisturbed
      BY <1>1, <2>1 DEF Grows
    <3>2. gh.issues[n].reopened = gh.issues[n].announced + Cardinality(Announcing(n))
      BY <2>1, <3>1 DEF AnnounceInv, EveryReopenAnnounced
    <3>3. QED
      BY <1>1, <2>1, <3>1, <3>2 DEF SameAnnounced
  <2>2. CASE n \notin Numbers(gh)
    <3>1. gh'.issues[n].reopened = 0 /\ gh'.issues[n].announced = 0 /\ Announcing(n)' = {}
      BY <2>2
    <3>2. QED
      BY <3>1, FS_EmptySet
  <2>3. QED
    BY <2>1, <2>2
<1>2. Undisturbed' => \A n \in Numbers(gh') : Exists(gh', n) =>
        gh'.issues[n].reopened =
           gh'.issues[n].announced + Cardinality(Announcing(n)')
  BY <1>1
<1>3. EveryReopenAnnounced'
  BY <1>2 DEF EveryReopenAnnounced, Numbers, Exists
<1>4. QED
  BY <1>3 DEF AnnounceInv

\* A replica that moves without having been, or becoming, about to comment on
\* an issue leaves who is announcing there alone.
LEMMA AnnouncingMoves ==
  ASSUME NEW r \in Replica, Moves(r), NEW n,
         job[r].pc = "comment" => job[r].snap.number # n \/ ~ Regression(job[r].snap),
         job'[r].pc = "comment" => job'[r].snap.number # n \/ ~ Regression(job'[r].snap)
  PROVE  Announcing(n)' = Announcing(n)
<1>1. Announcing(n)' = {q \in Replica : /\ job'[q].pc = "comment"
                                        /\ job'[q].snap.number = n
                                        /\ Regression(job'[q].snap)}
  BY DEF Announcing, Regression
<1>2. QED
  BY <1>1 DEF Announcing, Moves

\* r is about to announce on issue n.
LEMMA AnnouncingGrows ==
  ASSUME NEW r \in Replica, Moves(r), NEW n, job'[r].pc = "comment",
         job'[r].snap.number = n, Regression(job'[r].snap)
  PROVE  Announcing(n)' = Announcing(n) \cup {r}
<1>1. Announcing(n)' = {q \in Replica : /\ job'[q].pc = "comment"
                                        /\ job'[q].snap.number = n
                                        /\ Regression(job'[q].snap)}
  BY DEF Announcing, Regression
<1>2. QED
  BY <1>1 DEF Announcing, Moves

\* r no longer announces.
LEMMA AnnouncingShrinks ==
  ASSUME NEW r \in Replica, Moves(r), NEW n, job'[r].pc # "comment"
  PROVE  Announcing(n)' = Announcing(n) \ {r}
<1>1. Announcing(n)' = {q \in Replica : /\ job'[q].pc = "comment"
                                        /\ job'[q].snap.number = n
                                        /\ Regression(job'[q].snap)}
  BY DEF Announcing, Regression
<1>2. QED
  BY <1>1 DEF Announcing, Moves

\* Nobody is announcing on an issue that is only just being created.
LEMMA NothingOnNew ==
  ASSUME TypeOK, NEW r \in Replica, Moves(r), job'[r].pc # "comment",
         NEW n, n \notin Numbers(gh)
  PROVE  Announcing(n)' = {}
<1>1. Announcing(n)' = {q \in Replica : /\ job'[q].pc = "comment"
                                        /\ job'[q].snap.number = n
                                        /\ Regression(job'[q].snap)}
  BY DEF Announcing, Regression
<1>2. ASSUME NEW q \in Replica, job'[q].pc = "comment", job'[q].snap.number = n
      PROVE  FALSE
  <2>1. job'[q] = job[q]
    BY <1>2 DEF Moves
  <2>2. job[q].snap.number \in Numbers(gh)
    BY <1>2, <2>1, JobFacts
  <2>3. QED
    BY <1>2, <2>1, <2>2
<1>3. QED
  BY <1>1, <1>2

\* A step of r that neither writes to an issue nor follows a write to one.
LEMMA AnnounceUnwritten ==
  ASSUME AnnounceInv, CountInv', NEW r \in Replica, Moves(r), Grows,
         Undisturbed' => Undisturbed,
         \A n \in Numbers(gh) : gh'.issues[n] = gh.issues[n],
         \A n \in Numbers(gh') \ Numbers(gh) : \E f \in Fp : gh'.issues[n] = NewIssue(f),
         job[r].pc # "comment", job'[r].pc # "comment",
         ~ job'[r].arrived
  PROVE  AnnounceInv'
<1>1. ArrivedOnce'
  <2>1. \A q \in Replica : job'[q].arrived => job[q].arrived /\ job'[q] = job[q]
    BY DEF Moves
  <2>2. Undisturbed' => \A q \in Replica : job'[q].arrived => job'[q].pc = "comment"
    BY <2>1 DEF AnnounceInv, ArrivedOnce
  <2>3. QED
    BY <2>2 DEF ArrivedOnce
<1>2. ASSUME NEW n \in Numbers(gh)
      PROVE  SameAnnounced(n)
  <2>1. Announcing(n)' = Announcing(n)
    BY AnnouncingMoves
  <2>2. QED
    BY <2>1 DEF SameAnnounced
<1>3. ASSUME NEW n \in Numbers(gh') \ Numbers(gh)
      PROVE  /\ gh'.issues[n].reopened = 0 /\ gh'.issues[n].announced = 0
             /\ Announcing(n)' = {}
  <2>1. Announcing(n)' = {}
    BY NothingOnNew DEF AnnounceInv, CountInv
  <2>2. PICK f \in Fp : gh'.issues[n] = NewIssue(f)
    OBVIOUS
  <2>3. NewIssue(f).reopened = 0 /\ NewIssue(f).announced = 0
    BY DEF NewIssue
  <2>4. QED
    BY <2>1, <2>2, <2>3
<1>4. QED
  BY <1>1, <1>2, <1>3, AnnounceStep

\* The PATCH of a regression arrives: r is about to announce it.
LEMMA AnnounceUpdate ==
  ASSUME AnnounceInv, CountInv', NEW r \in Replica, UpdateTheIssue(r)
  PROVE  AnnounceInv'
<1> DEFINE n == job[r].snap.number
           old == gh.issues[n]
           new == gh'.issues[n]
<1>1. /\ TypeOK /\ job[r].pc = "update" /\ Exists(gh, n) /\ gh' = UpdateEffect(job[r])
      /\ used' = used
  BY DEF AnnounceInv, CountInv, UpdateTheIssue
<1>2. /\ Grows /\ n \in Numbers(gh) /\ Numbers(gh') = Numbers(gh)
      /\ \A m \in Numbers(gh) \ {n} : gh'.issues[m] = gh.issues[m]
      /\ new.announced = old.announced
      /\ new.reopened = IF ~ job[r].arrived /\ Regression(job[r].snap)
                        THEN old.reopened + 1 ELSE old.reopened
  BY <1>1, UpdateFacts
<1>3. Moves(r)
  BY <1>1, GoToCommentFacts, FinishFacts DEF UpdateTheIssue
<1>4. \/ job'[r].pc = "comment" /\ job'[r].snap = job[r].snap /\ job'[r].arrived
      \/ /\ job'[r].pc = "idle" /\ ~ job'[r].arrived
         /\ ~ Regression(job[r].snap)
  BY <1>1, GoToCommentFacts, FinishFacts DEF UpdateTheIssue
<1>5. Undisturbed' <=> Undisturbed
  BY <1>1 DEF Undisturbed
<1>6. ArrivedOnce'
  <2>1. \A q \in Replica \ {r} : job'[q] = job[q]
    BY <1>3 DEF Moves
  <2>2. job'[r].arrived => job'[r].pc = "comment"
    BY <1>4
  <2>3. QED
    BY <1>5, <2>1, <2>2 DEF AnnounceInv, ArrivedOnce
<1>7. ASSUME Undisturbed, NEW m \in Numbers(gh), Exists(gh, m)
      PROVE  \/ SameAnnounced(m)
             \/ gh'.issues[m].reopened =
                  gh'.issues[m].announced + Cardinality(Announcing(m)')
  <2>1. CASE m # n
    <3>1. Announcing(m)' = Announcing(m)
      BY <1>1, <1>3, <1>4, <2>1, AnnouncingMoves
    <3>2. QED
      BY <1>2, <2>1, <3>1 DEF SameAnnounced
  <2>2. CASE m = n /\ ~ Regression(job[r].snap)
    <3>1. Announcing(m)' = Announcing(m)
      BY <1>1, <1>3, <1>4, <2>2, AnnouncingMoves
    <3>2. QED
      BY <1>2, <2>2, <3>1 DEF SameAnnounced
  <2>3. CASE m = n /\ Regression(job[r].snap)
    <3>1. Announcing(m)' = Announcing(m) \cup {r}
      BY <1>3, <1>4, <2>3, AnnouncingGrows
    <3>2. r \notin Announcing(m) /\ IsFiniteSet(Announcing(m))
      BY <1>1, AnnouncingFinite DEF Announcing
    <3>3. Cardinality(Announcing(m)') = Cardinality(Announcing(m)) + 1
      BY <3>1, <3>2, FS_AddElement
    <3>4. ~ job[r].arrived
      BY <1>1, <1>7 DEF AnnounceInv, ArrivedOnce
    <3>5. old.reopened = old.announced + Cardinality(Announcing(m))
      BY <1>2, <1>7, <2>3 DEF AnnounceInv, EveryReopenAnnounced
    <3>6. old.announced \in Nat /\ Cardinality(Announcing(m)) \in Nat
      BY <1>1, <1>2, <3>2, IssueAt, FS_CardinalityType DEF TypeOK, Issue
    <3>7. QED
      <4> HIDE DEF old, new, n
      <4>1. new.reopened = new.announced + Cardinality(Announcing(m)')
        BY <1>2, <2>3, <3>3, <3>4, <3>5, <3>6
      <4>2. QED
        BY <2>3, <4>1 DEF new
  <2>4. QED
    BY <2>1, <2>2, <2>3
<1>8. QED
  BY <1>2, <1>5, <1>6, <1>7, AnnounceStep

\* The comment of r arrives.
LEMMA AnnounceComment ==
  ASSUME AnnounceInv, CountInv', NEW r \in Replica, CommentOnTheIssue(r)
  PROVE  AnnounceInv'
<1> DEFINE n == job[r].snap.number
           old == gh.issues[n]
           new == gh'.issues[n]
<1>1. /\ TypeOK /\ job[r].pc = "comment" /\ Exists(gh, n)
      /\ gh' = AddComment(gh, n, Regression(job[r].snap))
      /\ used' = used
  BY DEF AnnounceInv, CountInv, CommentOnTheIssue
<1>2. /\ Grows /\ n \in Numbers(gh) /\ Numbers(gh') = Numbers(gh)
      /\ \A m \in Numbers(gh) \ {n} : gh'.issues[m] = gh.issues[m]
      /\ new.reopened = old.reopened
      /\ new.announced = IF Regression(job[r].snap)
                         THEN old.announced + 1 ELSE old.announced
  BY <1>1, CommentFacts
<1>3. Moves(r) /\ job'[r].pc = "idle" /\ ~ job'[r].arrived
  BY <1>1, FinishFacts DEF CommentOnTheIssue
<1>4. Undisturbed' <=> Undisturbed
  BY <1>1 DEF Undisturbed
<1>5. ArrivedOnce'
  BY <1>3, <1>4 DEF AnnounceInv, ArrivedOnce, Moves
<1>6. ASSUME Undisturbed, NEW m \in Numbers(gh), Exists(gh, m)
      PROVE  \/ SameAnnounced(m)
             \/ gh'.issues[m].reopened =
                  gh'.issues[m].announced + Cardinality(Announcing(m)')
  <2>1. CASE m # n \/ ~ Regression(job[r].snap)
    <3>1. Announcing(m)' = Announcing(m)
      BY <1>3, <2>1, AnnouncingMoves
    <3>2. QED
      BY <1>2, <2>1, <3>1 DEF SameAnnounced
  <2>2. CASE m = n /\ Regression(job[r].snap)
    <3>1. Announcing(m)' = Announcing(m) \ {r}
      BY <1>3, AnnouncingShrinks
    <3>2. r \in Announcing(m) /\ IsFiniteSet(Announcing(m))
      BY <1>1, <2>2, AnnouncingFinite DEF Announcing
    <3>3. Cardinality(Announcing(m)') = Cardinality(Announcing(m)) - 1
      BY <3>1, <3>2, FS_RemoveElement
    <3>4. old.reopened = old.announced + Cardinality(Announcing(m))
      BY <1>2, <1>6, <2>2 DEF AnnounceInv, EveryReopenAnnounced
    <3>5. old.announced \in Nat /\ Cardinality(Announcing(m)) \in Nat
      BY <1>1, <1>2, <3>2, IssueAt, FS_CardinalityType DEF TypeOK, Issue
    <3>6. QED
      <4> HIDE DEF old, new, n
      <4>1. new.reopened = new.announced + Cardinality(Announcing(m)')
        BY <1>2, <2>2, <3>3, <3>4, <3>5
      <4>2. QED
        BY <2>2, <4>1 DEF new
  <2>3. QED
    BY <2>1, <2>2
<1>7. QED
  BY <1>2, <1>4, <1>5, <1>6, AnnounceStep

\* The issue has vanished: nothing is owed to it any more.
LEMMA AnnounceGone ==
  ASSUME AnnounceInv, CountInv', NEW r \in Replica, IssueGone(r)
  PROVE  AnnounceInv'
<1> DEFINE n == job[r].snap.number
<1>1. /\ TypeOK /\ ~ Exists(gh, n) /\ gh' = gh /\ used' = used
      /\ Moves(r) /\ job'[r].pc = "idle" /\ ~ job'[r].arrived
  BY FinishFacts DEF AnnounceInv, CountInv, IssueGone
<1>2. Undisturbed' <=> Undisturbed
  BY <1>1 DEF Undisturbed
<1>3. ArrivedOnce'
  BY <1>1, <1>2 DEF AnnounceInv, ArrivedOnce, Moves
<1>4. ASSUME NEW m \in Numbers(gh), Exists(gh, m)
      PROVE  SameAnnounced(m)
  <2>1. m # n
    BY <1>1, <1>4
  <2>2. Announcing(m)' = Announcing(m)
    BY <1>1, <2>1, AnnouncingMoves
  <2>3. QED
    BY <1>1, <2>2 DEF SameAnnounced
<1>5. Grows /\ Numbers(gh') = Numbers(gh)
  BY <1>1, StandsFacts
<1>6. QED
  BY <1>2, <1>3, <1>4, <1>5, AnnounceStep

\* A step that fails, or that leaves jobs and histories alone.
LEMMA AnnounceDisturbed ==
  ASSUME CountInv', ~ Undisturbed'
  PROVE  AnnounceInv'
BY DEF AnnounceInv, ArrivedOnce, EveryReopenAnnounced

\* A step that leaves jobs and histories alone keeps AnnounceInv.
LEMMA AnnounceStands ==
  ASSUME AnnounceInv, CountInv', Grows, Undisturbed' => Undisturbed,
         Numbers(gh') = Numbers(gh),
         \A q \in Replica : /\ job'[q].pc = job[q].pc /\ job'[q].snap = job[q].snap
                            /\ job'[q].arrived = job[q].arrived,
         \A n \in Numbers(gh) : /\ gh'.issues[n].reopened = gh.issues[n].reopened
                                /\ gh'.issues[n].announced = gh.issues[n].announced
  PROVE  AnnounceInv'
<1>1. ArrivedOnce'
  BY DEF AnnounceInv, ArrivedOnce
<1>2. ASSUME NEW n \in Numbers(gh)
      PROVE  SameAnnounced(n)
  <2>1. Announcing(n)' = {q \in Replica : /\ job'[q].pc = "comment"
                                          /\ job'[q].snap.number = n
                                          /\ Regression(job'[q].snap)}
    BY DEF Announcing, Regression
  <2>2. Announcing(n)' = Announcing(n)
    BY <2>1 DEF Announcing
  <2>3. QED
    BY <2>2 DEF SameAnnounced
<1>3. QED
  BY <1>1, <1>2, AnnounceStep

\* The answered requests keep AnnounceInv.
LEMMA AnnounceProgress ==
  ASSUME AnnounceInv, CountInv', NEW r \in Replica, Progress(r)
  PROVE  AnnounceInv'
<1>0. /\ TypeOK /\ job[r] \in Job /\ job[r].fp \in Fp
      /\ job[r].arrived => job[r].pc \in {"update", "comment"}
  BY JobFacts DEF AnnounceInv, CountInv, ArrivedWrites, Job
<1>1. CASE Lookup(r) \/ Requery(r)
  <2>1. /\ gh' = gh /\ Grows /\ ~ job[r].arrived /\ job[r].pc # "comment"
        /\ Undisturbed' => Undisturbed
    BY <1>0, <1>1, StandsFacts DEF Lookup, Requery, Undisturbed
  <2>2. /\ Moves(r) /\ job'[r].pc # "comment" /\ job'[r].arrived = job[r].arrived
    <3>1. CASE Labelled(gh, job[r].fp) # {}
      BY <1>0, <1>1, <3>1, RecordOnFacts DEF Lookup, Requery
    <3>2. CASE Labelled(gh, job[r].fp) = {} /\ Lookup(r)
      BY <1>0, <3>2, GoToFacts DEF Lookup, Request
    <3>3. CASE Labelled(gh, job[r].fp) = {} /\ Requery(r)
      <4>1. CASE job[r].attempt + 1 <= ClaimRetries
        BY <1>0, <3>3, <4>1, RequeryTurn
      <4>2. CASE ~ (job[r].attempt + 1 <= ClaimRetries)
        BY <1>0, <3>3, <4>2, GoToFacts DEF Requery, Request
      <4>3. QED
        BY <4>1, <4>2
    <3>4. QED
      BY <1>1, <3>1, <3>2, <3>3
  <2>3. QED
    BY <2>1, <2>2, AnnounceUnwritten
<1>2. CASE ClaimLabel(r)
  <2>1. /\ Grows /\ gh'.issues = gh.issues /\ ~ job[r].arrived /\ job[r].pc # "comment"
        /\ Undisturbed' => Undisturbed
    BY <1>0, <1>2, LabelFacts DEF ClaimLabel, Undisturbed
  <2>2. /\ Moves(r) /\ job'[r].pc # "comment" /\ job'[r].arrived = job[r].arrived
    BY <1>0, <1>2, ClaimMoves
  <2>3. QED
    BY <2>1, <2>2, AnnounceUnwritten DEF Numbers
<1>3. CASE StyleExtraLabels(r)
  <2>1. Moves(r) /\ job'[r].pc = "create" /\ job'[r].arrived = job[r].arrived
    BY <1>0, <1>3, CreatingFacts, FilerConstants DEF StyleExtraLabels
  <2>2. /\ gh' = gh /\ ~ job[r].arrived /\ Grows /\ job[r].pc = "style"
        /\ Undisturbed' => Undisturbed
    BY <1>0, <1>3, StandsFacts DEF StyleExtraLabels, Undisturbed
  <2>3. QED
    BY <2>1, <2>2, AnnounceUnwritten
<1>4. CASE CreateTheIssue(r)
  <2>1. /\ Moves(r) /\ job'[r].pc = "idle" /\ ~ job'[r].arrived /\ job[r].pc = "create"
        /\ Undisturbed' => Undisturbed
    BY <1>0, <1>4, FinishFacts DEF CreateTheIssue, Undisturbed
  <2>2. /\ Grows
        /\ \A n \in Numbers(gh) : gh'.issues[n] = gh.issues[n]
        /\ \A n \in Numbers(gh') \ Numbers(gh) : \E f \in Fp : gh'.issues[n] = NewIssue(f)
    BY <1>0, <1>4, CreateFacts DEF CreateTheIssue
  <2>3. QED
    BY <2>1, <2>2, AnnounceUnwritten
<1>5. QED
  BY <1>1, <1>2, <1>3, <1>4, AnnounceUpdate, AnnounceComment, AnnounceGone DEF Progress

\* AnnounceInv is inductive.
LEMMA AnnounceNext ==
  ASSUME AnnounceInv, [Next]_vars
  PROVE  AnnounceInv'
<1>0. TypeOK /\ CountInv /\ CountInv'
  BY CountNext DEF AnnounceInv, CountInv
<1>1. ASSUME NEW r \in Replica, Filing(r)
      PROVE  AnnounceInv'
  <2>1. ASSUME NEW f \in Fp, StartFiling(r, f)
        PROVE  AnnounceInv'
    <3>1. gh' = gh /\ job[r].pc = "idle" /\ (Undisturbed' => Undisturbed) /\ Grows
      BY <1>0, <2>1, UsedFacts, StandsFacts DEF StartFiling, Undisturbed, Used
    <3>2. Moves(r) /\ job'[r].pc = "lookup" /\ ~ job'[r].arrived
      BY <1>0, <2>1, StartFacts
    <3>3. QED
      BY <1>0, <3>1, <3>2, AnnounceUnwritten
  <2>2. CASE Progress(r)
    BY <1>0, <2>2, AnnounceProgress
  <2>3. CASE RejectAssignees(r)
    <3>1. /\ gh' = gh /\ job[r].pc = "create" /\ Grows
          /\ Undisturbed' => Undisturbed
      BY <1>0, <2>3, StandsFacts DEF RejectAssignees, Undisturbed
    <3>2. Moves(r) /\ job'[r].pc = "create" /\ job'[r].arrived = job[r].arrived
      BY <1>0, <2>3, RejectFacts
    <3>3. ~ job[r].arrived
      BY <1>0, <3>1 DEF CountInv, ArrivedWrites
    <3>4. QED
      BY <1>0, <3>1, <3>2, <3>3, AnnounceUnwritten
  <2>4. CASE RequestFails(r) \/ AnswerLost(r) \/ RaisesAtOnce(r)
    <3>1. used \in Used /\ used.errors \in Nat /\ used.lost \in Nat
      BY <1>0, UsedFacts, Bounds DEF Used
    <3>2. \/ used' = [used EXCEPT !.errors = @ + 1]
          \/ used' = [used EXCEPT !.lost = @ + 1]
      BY <2>4 DEF RequestFails, AnswerLost, RaisesAtOnce
    <3>3. used'.errors = used.errors + 1 \/ used'.lost = used.lost + 1
      BY <3>1, <3>2 DEF Used
    <3>4. ~ Undisturbed'
      BY <3>1, <3>3 DEF Undisturbed
    <3>5. QED
      BY <1>0, <3>4, AnnounceDisturbed
  <2>5. QED
    BY <1>1, <2>1, <2>2, <2>3, <2>4 DEF Filing
<1>2. ASSUME NEW r \in Replica, Crash(r)
      PROVE  AnnounceInv'
  <2>1. ~ Undisturbed'
    BY <1>0, <1>2, UsedFacts DEF Crash, Undisturbed, Used
  <2>2. QED
    BY <1>0, <2>1, AnnounceDisturbed
<1>3. ASSUME NEW n \in Numbers(gh), NEW edit \in HumanEdits, HumanEdit(n, edit)
      PROVE  AnnounceInv'
  <2>1. job' = job /\ (Undisturbed' => Undisturbed)
    BY <1>0, <1>3, UsedFacts DEF HumanEdit, Undisturbed, Used
  <2>2. /\ Grows /\ Numbers(gh') = Numbers(gh)
        /\ \A m \in Numbers(gh) : /\ gh'.issues[m].reopened = gh.issues[m].reopened
                                  /\ gh'.issues[m].announced = gh.issues[m].announced
    BY <1>0, <1>3, HumanFacts
  <2>3. QED
    BY <1>0, <2>1, <2>2, AnnounceStands
<1>4. CASE Tick
  <2>1. Undisturbed' => Undisturbed
    BY <1>4 DEF Tick, Undisturbed
  <2>2. QED
    BY <1>0, <1>4, <2>1, TickFacts, StandsFacts, AnnounceStands
<1>5. CASE Quiet \/ UNCHANGED vars
  <2>1. gh' = gh /\ job' = job /\ (Undisturbed' => Undisturbed)
    BY <1>5 DEF Quiet, vars, Undisturbed
  <2>2. QED
    BY <1>0, <2>1, StandsFacts, AnnounceStands
<1>6. QED
  BY <1>1, <1>2, <1>3, <1>4, <1>5 DEF Next

\* AnnounceInv holds at first.
LEMMA AnnounceInit == Init => AnnounceInv
<1>1. ASSUME Init
      PROVE  ArrivedOnce /\ EveryReopenAnnounced
  BY <1>1 DEF Init, ArrivedOnce, EveryReopenAnnounced, Idle, EmptyStore, Numbers
<1>2. QED
  BY <1>1, CountInit DEF AnnounceInv

\* As long as nothing has failed, every reopening by a filing is announced on
\* the issue, or the filing is about to: no interleaving of filings, of people
\* and of the comment budget suppresses a regression comment.
THEOREM ReopensAnnounced == Spec => []EveryReopenAnnounced
<1>1. AnnounceInv => EveryReopenAnnounced
  BY DEF AnnounceInv
<1>2. QED
  BY <1>1, AnnounceInit, AnnounceNext, PTL DEF Spec

(***************************************************************************)
(* No filing gets lost.                                                    *)
(***************************************************************************)
\* Whoever comments has written the count before.
CommentsAfter == \A r \in Replica : job[r].pc = "comment" => job[r].arrived

LandInv == AnnounceInv /\ CommentsAfter /\ EveryFilingLands

\* The pairs in Landed.
LEMMA LandedElements ==
  \A n, k : <<n, k>> \in Landed <=> n \in Numbers(gh) /\ k \in 1..gh.issues[n].hits
BY DEF Landed

\* Landed can be counted.
LEMMA LandedFinite ==
  ASSUME TypeOK
  PROVE  IsFiniteSet(Landed)
<1> DEFINE row == [n \in Numbers(gh) |-> {n} \X (1..gh.issues[n].hits)]
           rows == {row[n] : n \in Numbers(gh)}
<1>1. IsFiniteSet(Numbers(gh))
  <2>1. Numbers(gh) = 1..Len(gh.issues) /\ Len(gh.issues) \in Nat
    BY DEF TypeOK, Store, Numbers
  <2>2. QED
    BY <2>1, FS_Interval
<1>2. row \in Surjection(Numbers(gh), rows)
  BY DEF Surjection
<1>3. IsFiniteSet(rows)
  <2> HIDE DEF row, rows
  <2>1. QED
    BY <1>1, <1>2, FS_Surjection
<1>4. ASSUME NEW n \in Numbers(gh)
      PROVE  IsFiniteSet(row[n])
  <2>1. gh.issues[n].hits \in Nat
    BY IssueAt DEF TypeOK, Issue
  <2>2. IsFiniteSet(1..gh.issues[n].hits)
    BY <2>1, FS_Interval
  <2>3. IsFiniteSet({n} \X (1..gh.issues[n].hits))
    BY <2>2, FS_Singleton, FS_Product
  <2>4. QED
    BY <2>3
<1>5. \A set \in rows : IsFiniteSet(set)
  BY <1>4
<1>6. IsFiniteSet(UNION rows)
  <2> HIDE DEF rows
  <2>1. QED
    BY <1>3, <1>5, FS_UNION
<1>7. Landed = UNION rows
  BY DEF Landed
<1>8. QED
  BY <1>6, <1>7

\* One write more, the k-th on issue n.
LEMMA LandedMore ==
  ASSUME TypeOK, Grows, NEW n \in Numbers(gh'), NEW k,
         k = gh'.issues[n].hits,
         n \in Numbers(gh) => gh'.issues[n].hits = gh.issues[n].hits + 1,
         n \notin Numbers(gh) => gh'.issues[n].hits = 1,
         \A m \in Numbers(gh') \ {n} : m \in Numbers(gh)
                                       /\ gh'.issues[m].hits = gh.issues[m].hits
  PROVE  Landed' = Landed \cup {<<n, k>>} /\ <<n, k>> \notin Landed
<1>1. Landed' = UNION {{m} \X (1..gh'.issues[m].hits) : m \in Numbers(gh')}
  BY DEF Landed, Numbers
<1>2. \A m \in Numbers(gh) : gh.issues[m].hits \in Nat
  BY IssueAt DEF TypeOK, Issue
<1>3. \A m, i : <<m, i>> \in Landed' <=> m \in Numbers(gh') /\ i \in 1..gh'.issues[m].hits
  BY <1>1
<1>4. \A m, i : <<m, i>> \in Landed' <=> <<m, i>> \in Landed \/ (m = n /\ i = k)
  <2>1. ASSUME NEW m, NEW i
        PROVE  <<m, i>> \in Landed' <=> <<m, i>> \in Landed \/ (m = n /\ i = k)
    <3>1. CASE m # n
      BY <1>3, <3>1, LandedElements DEF Grows
    <3>2. CASE m = n /\ n \in Numbers(gh)
      <4>1. i \in 1..(gh.issues[n].hits + 1) <=>
              i \in 1..gh.issues[n].hits \/ i = gh.issues[n].hits + 1
        BY <1>2, <3>2
      <4>2. QED
        BY <1>3, <3>2, <4>1, LandedElements
    <3>3. CASE m = n /\ n \notin Numbers(gh)
      <4>1. i \in 1..1 <=> i = 1
        OBVIOUS
      <4>2. QED
        BY <1>3, <3>3, <4>1, LandedElements
    <3>4. QED
      BY <3>1, <3>2, <3>3
  <2>2. QED
    BY <2>1
<1>5. <<n, k>> \notin Landed
  <2>1. CASE n \in Numbers(gh)
    BY <1>2, <2>1, LandedElements
  <2>2. CASE n \notin Numbers(gh)
    BY <2>2, LandedElements
  <2>3. QED
    BY <2>1, <2>2
<1>6. /\ \A p \in Landed : p = <<p[1], p[2]>>
      /\ \A p \in Landed' : p = <<p[1], p[2]>>
  BY <1>1 DEF Landed
<1>7. Landed' = Landed \cup {<<n, k>>}
  <2>1. ASSUME NEW p
        PROVE  p \in Landed' <=> p \in Landed \cup {<<n, k>>}
    <3>1. CASE p = <<p[1], p[2]>>
      BY <1>4, <3>1
    <3>2. CASE p # <<p[1], p[2]>>
      BY <1>6, <3>2
    <3>3. QED
      BY <3>1, <3>2
  <2>2. QED
    BY <2>1
<1>8. QED
  BY <1>5, <1>7

\* Landed depends on the hits alone.
LEMMA LandedSame ==
  ASSUME Numbers(gh') = Numbers(gh),
         \A n \in Numbers(gh) : gh'.issues[n].hits = gh.issues[n].hits
  PROVE  Landed' = Landed
<1>1. Landed' = UNION {{m} \X (1..gh'.issues[m].hits) : m \in Numbers(gh')}
  BY DEF Landed, Numbers
<1>2. QED
  BY <1>1 DEF Landed

\* Only r can join or leave the pending filings when r moves.
LEMMA PendingMoves ==
  ASSUME NEW r \in Replica, Moves(r)
  PROVE  /\ job'[r].pc \in Request /\ ~ job'[r].arrived => Pending' = Pending \cup {r}
         /\ ~ (job'[r].pc \in Request /\ ~ job'[r].arrived) => Pending' = Pending \ {r}
<1>1. Pending' = {q \in Replica : job'[q].pc \in Request /\ ~ job'[q].arrived}
  BY DEF Pending, Busy, Request
<1>2. QED
  BY <1>1 DEF Pending, Busy, Moves

\* Pending can be counted.
LEMMA PendingFinite == IsFiniteSet(Pending) /\ Cardinality(Pending) \in Nat
<1>1. IsFiniteSet(Pending)
  BY FS_Subset, FilerConstants DEF Pending
<1>2. QED
  BY <1>1, FS_CardinalityType

\* It is enough that the sum stands where nothing has failed.
LEMMA LandStep ==
  ASSUME LandInv, AnnounceInv', Grows, CommentsAfter',
         Undisturbed' => Undisturbed,
         ASSUME Undisturbed, \A n \in Numbers(gh) : Exists(gh, n),
                Cardinality(Landed) + Cardinality(Pending) = used.filings
         PROVE  Cardinality(Landed') + Cardinality(Pending') = used'.filings
  PROVE  LandInv'
<1>1. ASSUME Undisturbed', \A n \in Numbers(gh') : Exists(gh', n)
      PROVE  Cardinality(Landed') + Cardinality(Pending') = used'.filings
  <2>1. Undisturbed /\ \A n \in Numbers(gh) : Exists(gh, n)
    BY <1>1 DEF Grows
  <2>2. QED
    BY <2>1 DEF LandInv, EveryFilingLands
<1>2. EveryFilingLands'
  BY <1>1 DEF EveryFilingLands, Numbers, Exists
<1>3. QED
  BY <1>2 DEF LandInv

\* A step of r that writes to no issue.
LEMMA LandQuiet ==
  ASSUME LandInv, AnnounceInv', NEW r \in Replica, Moves(r), Grows,
         Numbers(gh') = Numbers(gh),
         \A n \in Numbers(gh) : gh'.issues[n].hits = gh.issues[n].hits,
         job'[r].pc = "comment" => job'[r].arrived,
         Undisturbed' => Undisturbed, used'.filings = used.filings,
         \/ r \in Pending /\ job'[r].pc \in Request /\ ~ job'[r].arrived
         \/ r \notin Pending /\ ~ (job'[r].pc \in Request /\ ~ job'[r].arrived)
  PROVE  LandInv'
<1>1. Landed' = Landed
  BY LandedSame
<1>2. Pending' = Pending
  BY PendingMoves
<1>3. CommentsAfter'
  BY DEF LandInv, CommentsAfter, Moves
<1>4. QED
  BY <1>1, <1>2, <1>3, LandStep DEF LandInv

\* The write of r: one landed more, one pending less.
LEMMA LandWrite ==
  ASSUME LandInv, AnnounceInv', NEW r \in Replica, Moves(r), Grows,
         NEW n \in Numbers(gh'), NEW k, Landed' = Landed \cup {<<n, k>>},
         <<n, k>> \notin Landed,
         Undisturbed => r \in Pending,
         ~ (job'[r].pc \in Request /\ ~ job'[r].arrived),
         job'[r].pc = "comment" => job'[r].arrived,
         used' = used
  PROVE  LandInv'
<1>1. /\ IsFiniteSet(Landed) /\ Cardinality(Landed) \in Nat
      /\ IsFiniteSet(Pending) /\ Cardinality(Pending) \in Nat
  BY PendingFinite, LandedFinite, FS_CardinalityType DEF LandInv, AnnounceInv, CountInv
<1>2. IsFiniteSet(Landed') /\ Cardinality(Landed') = Cardinality(Landed) + 1
  BY <1>1, FS_AddElement
<1>3. ASSUME Undisturbed
      PROVE  Cardinality(Pending') = Cardinality(Pending) - 1
  BY <1>1, <1>3, PendingMoves, FS_RemoveElement
<1>4. CommentsAfter'
  BY DEF LandInv, CommentsAfter, Moves
<1>5. Undisturbed' => Undisturbed
  BY DEF Undisturbed
<1>6. ASSUME Undisturbed, Cardinality(Landed) + Cardinality(Pending) = used.filings
      PROVE  Cardinality(Landed') + Cardinality(Pending') = used'.filings
  BY <1>1, <1>2, <1>3, <1>6
<1>7. QED
  BY <1>2, <1>4, <1>5, <1>6, LandStep

\* A PATCH lands its filing.
LEMMA LandUpdate ==
  ASSUME LandInv, AnnounceInv', NEW r \in Replica, UpdateTheIssue(r)
  PROVE  LandInv'
<1> DEFINE n == job[r].snap.number
           k == gh.issues[n].hits + 1
<1>1. /\ TypeOK /\ job[r].pc = "update" /\ Exists(gh, n) /\ gh' = UpdateEffect(job[r])
      /\ used' = used /\ ArrivedOnce
  BY DEF LandInv, AnnounceInv, CountInv, UpdateTheIssue
<1>2. /\ Grows /\ n \in Numbers(gh) /\ Numbers(gh') = Numbers(gh)
      /\ \A m \in Numbers(gh) \ {n} : gh'.issues[m] = gh.issues[m]
      /\ gh'.issues[n].hits = IF job[r].arrived THEN gh.issues[n].hits
                              ELSE gh.issues[n].hits + 1
  BY <1>1, UpdateFacts
<1>3. Moves(r)
  BY <1>1, GoToCommentFacts, FinishFacts DEF UpdateTheIssue
<1>4. \/ job'[r].pc = "comment" /\ job'[r].arrived
      \/ job'[r].pc = "idle"
  BY <1>1, GoToCommentFacts, FinishFacts DEF UpdateTheIssue
<1>5. ~ (job'[r].pc \in Request /\ ~ job'[r].arrived)
      /\ (job'[r].pc = "comment" => job'[r].arrived)
  BY <1>4 DEF Request
<1>6. CASE ~ job[r].arrived
  <2>1. r \in Pending
    BY <1>1, <1>6 DEF Pending, Busy, Request
  <2>2. Landed' = Landed \cup {<<n, k>>} /\ <<n, k>> \notin Landed
    <3>1. k = gh'.issues[n].hits /\ n \in Numbers(gh')
      BY <1>2, <1>6
    <3> HIDE DEF n, k
    <3>2. QED
      BY <1>1, <1>2, <1>6, <3>1, LandedMore DEF k
  <2> HIDE DEF n, k
  <2>3. QED
    BY <1>1, <1>2, <1>3, <1>5, <2>1, <2>2, LandWrite
<1>7. CASE job[r].arrived
  <2>1. ~ Undisturbed
    BY <1>1, <1>7 DEF ArrivedOnce
  <2>2. CommentsAfter'
    BY <1>3, <1>5 DEF LandInv, CommentsAfter, Moves
  <2>3. Undisturbed' => Undisturbed
    BY <1>1 DEF Undisturbed
  <2>4. QED
    BY <1>2, <2>1, <2>2, <2>3, LandStep
<1>8. QED
  BY <1>6, <1>7

\* A new issue lands its filing.
LEMMA LandCreate ==
  ASSUME LandInv, AnnounceInv', NEW r \in Replica, CreateTheIssue(r)
  PROVE  LandInv'
<1> DEFINE n == Len(gh.issues) + 1
<1>1. /\ TypeOK /\ job[r].pc = "create" /\ gh' = CreateIssue(gh, job[r].fp)
      /\ used' = used /\ job[r].fp \in Fp /\ ~ job[r].arrived
  BY JobFacts DEF LandInv, AnnounceInv, CountInv, ArrivedWrites, CreateTheIssue, Job
<1>2. /\ Grows /\ n \notin Numbers(gh) /\ Numbers(gh') = Numbers(gh) \cup {n}
      /\ gh'.issues[n] = NewIssue(job[r].fp)
      /\ \A m \in Numbers(gh) : gh'.issues[m] = gh.issues[m]
  BY <1>1, CreateFacts
<1>3. gh'.issues[n].hits = 1
  BY <1>2 DEF NewIssue
<1>4. Moves(r) /\ job'[r].pc = "idle"
  BY <1>1, FinishFacts DEF CreateTheIssue
<1>5. r \in Pending
  BY <1>1 DEF Pending, Busy, Request
<1> HIDE DEF n
<1>6. Landed' = Landed \cup {<<n, 1>>} /\ <<n, 1>> \notin Landed
  BY <1>1, <1>2, <1>3, LandedMore
<1>7. job'[r].pc \notin Request
  BY <1>4 DEF Request
<1>8. QED
  BY <1>1, <1>2, <1>4, <1>5, <1>6, <1>7, LandWrite

\* The steps of a filing that write no count.
LEMMA LandProgress ==
  ASSUME LandInv, AnnounceInv', NEW r \in Replica, Progress(r)
  PROVE  LandInv'
<1>0. /\ TypeOK /\ job[r] \in Job /\ job[r].fp \in Fp /\ ArrivedWrites /\ CommentsAfter
      /\ (r \in Pending <=> job[r].pc \in Request /\ ~ job[r].arrived)
  BY JobFacts DEF LandInv, AnnounceInv, CountInv, Job, Pending, Busy
<1>1. CASE Lookup(r) \/ Requery(r)
  <2>1. /\ gh' = gh /\ used' = used /\ Grows /\ ~ job[r].arrived
        /\ job[r].pc \in {"lookup", "requery"}
    BY <1>0, <1>1, StandsFacts DEF Lookup, Requery, ArrivedWrites
  <2>2. /\ Moves(r) /\ job'[r].pc \in {"update", "claim", "requery", "style"}
        /\ job'[r].arrived = job[r].arrived
    <3>1. CASE Labelled(gh, job[r].fp) # {}
      BY <1>0, <1>1, <3>1, RecordOnFacts DEF Lookup, Requery
    <3>2. CASE Labelled(gh, job[r].fp) = {} /\ Lookup(r)
      BY <1>0, <3>2, GoToFacts DEF Lookup, Request
    <3>3. CASE Labelled(gh, job[r].fp) = {} /\ Requery(r)
      <4>1. CASE job[r].attempt + 1 <= ClaimRetries
        BY <1>0, <3>3, <4>1, RequeryTurn
      <4>2. CASE ~ (job[r].attempt + 1 <= ClaimRetries)
        BY <1>0, <3>3, <4>2, GoToFacts DEF Requery, Request
      <4>3. QED
        BY <4>1, <4>2
    <3>4. QED
      BY <1>1, <3>1, <3>2, <3>3
  <2>3. Undisturbed' => Undisturbed
    BY <2>1 DEF Undisturbed
  <2>4. r \in Pending /\ job'[r].pc \in Request /\ ~ job'[r].arrived
    BY <1>0, <2>1, <2>2 DEF Request
  <2>5. QED
    BY <2>1, <2>2, <2>3, <2>4, LandQuiet
<1>2. CASE ClaimLabel(r)
  <2>1. /\ Grows /\ gh'.issues = gh.issues /\ used' = used /\ ~ job[r].arrived
        /\ job[r].pc = "claim"
    BY <1>0, <1>2, LabelFacts DEF ClaimLabel, ArrivedWrites
  <2>2. /\ Moves(r) /\ job'[r].pc \in {"requery", "style"}
        /\ job'[r].arrived = job[r].arrived
    BY <1>0, <1>2, ClaimMoves
  <2>3. Undisturbed' => Undisturbed
    BY <2>1 DEF Undisturbed
  <2>4. r \in Pending /\ job'[r].pc \in Request /\ ~ job'[r].arrived
    BY <1>0, <2>1, <2>2 DEF Request
  <2>5. Numbers(gh') = Numbers(gh)
    BY <2>1 DEF Numbers
  <2>6. QED
    BY <2>1, <2>2, <2>3, <2>4, <2>5, LandQuiet
<1>3. CASE StyleExtraLabels(r)
  <2>1. /\ gh' = gh /\ used' = used /\ Grows /\ ~ job[r].arrived /\ job[r].pc = "style"
    BY <1>0, <1>3, StandsFacts DEF StyleExtraLabels, ArrivedWrites
  <2>2. Moves(r) /\ job'[r].pc = "create" /\ job'[r].arrived = job[r].arrived
    BY <1>0, <1>3, CreatingFacts, FilerConstants DEF StyleExtraLabels
  <2>3. Undisturbed' => Undisturbed
    BY <2>1 DEF Undisturbed
  <2>4. r \in Pending /\ job'[r].pc \in Request /\ ~ job'[r].arrived
    BY <1>0, <2>1, <2>2 DEF Request
  <2>5. QED
    BY <2>1, <2>2, <2>3, <2>4, LandQuiet
<1>4. CASE CommentOnTheIssue(r)
  <2>1. /\ Grows /\ Numbers(gh') = Numbers(gh) /\ used' = used
        /\ \A n \in Numbers(gh) : gh'.issues[n].hits = gh.issues[n].hits
        /\ job[r].pc = "comment"
    BY <1>0, <1>4, CommentFacts DEF CommentOnTheIssue
  <2>2. Moves(r) /\ job'[r].pc = "idle"
    BY <1>0, <1>4, FinishFacts DEF CommentOnTheIssue
  <2>3. r \notin Pending /\ job'[r].pc \notin Request
    BY <1>0, <2>1, <2>2 DEF CommentsAfter, Request
  <2>4. Undisturbed' => Undisturbed
    BY <2>1 DEF Undisturbed
  <2>5. QED
    BY <2>1, <2>2, <2>3, <2>4, LandQuiet
<1>5. CASE IssueGone(r)
  <2>1. /\ gh' = gh /\ used' = used /\ Grows
        /\ job[r].snap.number \in Numbers(gh) /\ ~ Exists(gh, job[r].snap.number)
    BY <1>0, <1>5, JobFacts, StandsFacts DEF IssueGone
  <2>2. Moves(r) /\ job'[r].pc = "idle"
    BY <1>0, <1>5, FinishFacts DEF IssueGone
  <2>3. CommentsAfter'
    BY <2>2 DEF LandInv, CommentsAfter, Moves
  <2>4. Undisturbed' => Undisturbed
    BY <2>1 DEF Undisturbed
  <2>5. QED
    BY <2>1, <2>3, <2>4, LandStep
<1>6. QED
  BY <1>1, <1>2, <1>3, <1>4, <1>5, LandUpdate, LandCreate DEF Progress

\* A step that fails.
LEMMA LandDisturbed ==
  ASSUME LandInv, AnnounceInv', ~ Undisturbed', CommentsAfter'
  PROVE  LandInv'
BY DEF LandInv, EveryFilingLands

\* LandInv is inductive.
LEMMA LandNext ==
  ASSUME LandInv, [Next]_vars
  PROVE  LandInv'
<1>0. /\ TypeOK /\ AnnounceInv' /\ ArrivedWrites /\ used.errors \in Nat /\ used.lost \in Nat
      /\ used.crashes \in Nat /\ used.filings \in Nat /\ used \in Used
  <2>1. TypeOK /\ ArrivedWrites /\ AnnounceInv'
    BY AnnounceNext DEF LandInv, AnnounceInv, CountInv
  <2>2. used \in Used
    BY <2>1 DEF TypeOK
  <2>3. QED
    BY <2>1, <2>2, Bounds DEF Used
<1>1. ASSUME NEW r \in Replica, Filing(r)
      PROVE  LandInv'
  <2>1. ASSUME NEW f \in Fp, StartFiling(r, f)
        PROVE  LandInv'
    <3>1. /\ gh' = gh /\ job[r].pc = "idle" /\ Grows
          /\ used' = [used EXCEPT !.filings = @ + 1]
      BY <1>0, <2>1, StandsFacts DEF StartFiling
    <3>2. Moves(r) /\ job'[r].pc = "lookup" /\ ~ job'[r].arrived
      BY <1>0, <2>1, StartFacts
    <3>3. used'.filings = used.filings + 1 /\ (Undisturbed' => Undisturbed)
      BY <1>0, <3>1 DEF Used, Undisturbed
    <3>4. Pending' = Pending \cup {r} /\ r \notin Pending
      BY <3>1, <3>2, PendingMoves DEF Pending, Busy, Request
    <3>5. Cardinality(Pending') = Cardinality(Pending) + 1 /\ Cardinality(Pending) \in Nat
      BY <3>4, PendingFinite, FS_AddElement
    <3>6. Landed' = Landed
      BY <3>1, LandedSame DEF Numbers
    <3>7. Cardinality(Landed) \in Nat
      BY <1>0, LandedFinite, FS_CardinalityType
    <3>8. CommentsAfter'
      BY <3>2 DEF LandInv, CommentsAfter, Moves
    <3>9. Cardinality(Landed) + Cardinality(Pending) = used.filings =>
            Cardinality(Landed') + Cardinality(Pending') = used'.filings
      BY <1>0, <3>3, <3>5, <3>6, <3>7
    <3>10. QED
      BY <1>0, <3>1, <3>3, <3>8, <3>9, LandStep
  <2>2. CASE RejectAssignees(r)
    <3>1. gh' = gh /\ used' = used /\ job[r].pc = "create" /\ Grows
      BY <1>0, <2>2, StandsFacts DEF RejectAssignees
    <3>2. Moves(r) /\ job'[r].pc = "create" /\ job'[r].arrived = job[r].arrived
      BY <1>0, <2>2, RejectFacts
    <3>3. /\ r \in Pending /\ job'[r].pc \in Request /\ ~ job'[r].arrived
          /\ Undisturbed' => Undisturbed
      BY <1>0, <3>1, <3>2 DEF ArrivedWrites, Pending, Busy, Request, Undisturbed
    <3>4. QED
      BY <1>0, <3>1, <3>2, <3>3, LandQuiet
  <2>3. CASE RequestFails(r) \/ AnswerLost(r) \/ RaisesAtOnce(r)
    <3>1. \/ used' = [used EXCEPT !.errors = @ + 1]
          \/ used' = [used EXCEPT !.lost = @ + 1]
      BY <2>3 DEF RequestFails, AnswerLost, RaisesAtOnce
    <3>2. used'.errors = used.errors + 1 \/ used'.lost = used.lost + 1
      BY <1>0, <3>1 DEF Used
    <3>3. ~ Undisturbed'
      BY <1>0, <3>2 DEF Undisturbed
    <3>4. /\ Moves(r)
          /\ \/ job'[r].pc = "idle"
             \/ job'[r].pc = job[r].pc /\ (job[r].arrived => job'[r].arrived)
      <4>1. CASE Finish(r)
        BY <1>0, <4>1, FinishFacts
      <4>2. CASE ~ Finish(r)
        <5>1. PICK arrived \in BOOLEAN : Resend(r, arrived)
          BY <2>3, <4>2 DEF RequestFails, AnswerLost, RaisesAtOnce
        <5>2. QED
          BY <1>0, <4>2, <5>1, ResendFacts
      <4>3. QED
        BY <4>1, <4>2
    <3>5. CommentsAfter'
      BY <3>4 DEF LandInv, CommentsAfter, Moves
    <3>6. QED
      BY <1>0, <3>3, <3>5, LandDisturbed
  <2>4. QED
    BY <1>0, <1>1, <2>1, <2>2, <2>3, LandProgress DEF Filing
<1>2. ASSUME NEW r \in Replica, Crash(r)
      PROVE  LandInv'
  <2>1. ~ Undisturbed'
    BY <1>0, <1>2 DEF Crash, Undisturbed, Used
  <2>2. CommentsAfter'
    BY <1>0, <1>2, FinishFacts DEF Crash, LandInv, CommentsAfter, Moves
  <2>3. QED
    BY <1>0, <2>1, <2>2, LandDisturbed
<1>3. ASSUME job' = job, Grows, Numbers(gh') = Numbers(gh),
             \A n \in Numbers(gh) : gh'.issues[n].hits = gh.issues[n].hits,
             Undisturbed' => Undisturbed, used'.filings = used.filings
      PROVE  LandInv'
  <2>1. Landed' = Landed
    BY <1>3, LandedSame
  <2>2. Pending' = Pending /\ CommentsAfter'
    BY <1>3 DEF Pending, Busy, LandInv, CommentsAfter
  <2>3. QED
    BY <1>0, <1>3, <2>1, <2>2, LandStep
<1>4. ASSUME NEW n \in Numbers(gh), NEW edit \in HumanEdits, HumanEdit(n, edit)
      PROVE  LandInv'
  <2>1. /\ job' = job /\ (Undisturbed' => Undisturbed)
        /\ used'.filings = used.filings
    BY <1>0, <1>4 DEF HumanEdit, Undisturbed, Used
  <2>2. /\ Grows /\ Numbers(gh') = Numbers(gh)
        /\ \A m \in Numbers(gh) : gh'.issues[m].hits = gh.issues[m].hits
    BY <1>0, <1>4, HumanFacts
  <2>3. QED
    BY <1>3, <2>1, <2>2
<1>5. CASE Tick
  <2>1. /\ gh' = gh /\ used' = used /\ Grows
        /\ \A r \in Replica : /\ job'[r].pc = job[r].pc
                              /\ job'[r].arrived = job[r].arrived
    BY <1>0, <1>5, TickFacts, StandsFacts
  <2>2. Landed' = Landed
    BY <2>1, LandedSame
  <2>3. Pending' = {r \in Replica : job'[r].pc \in Request /\ ~ job'[r].arrived}
    BY DEF Pending, Busy, Request
  <2>4. Pending' = Pending
    BY <2>1, <2>3 DEF Pending, Busy
  <2>5. CommentsAfter' /\ (Undisturbed' => Undisturbed)
    BY <2>1 DEF LandInv, CommentsAfter, Undisturbed
  <2>6. QED
    BY <1>0, <2>1, <2>2, <2>4, <2>5, LandStep
<1>6. CASE Quiet \/ UNCHANGED vars
  <2>1. gh' = gh /\ job' = job /\ used' = used
    BY <1>6 DEF Quiet, vars
  <2>2. Grows /\ (Undisturbed' => Undisturbed)
    BY <1>0, <2>1, StandsFacts DEF Undisturbed
  <2>3. QED
    BY <1>3, <2>1, <2>2
<1>7. QED
  BY <1>1, <1>2, <1>4, <1>5, <1>6 DEF Next

\* As long as nothing has failed and nobody deletes an issue, the writes on the
\* issues and the filings still under way are the filings that were started:
\* none is lost, none is counted twice.
THEOREM FilingsLand == Spec => []EveryFilingLands
<1>1. Init => LandInv
  <2>1. ASSUME Init
        PROVE  CommentsAfter /\ EveryFilingLands
    <3>1. CommentsAfter
      BY <2>1 DEF Init, CommentsAfter, Idle
    <3>2. Landed = {} /\ Pending = {} /\ used.filings = 0
      BY <2>1 DEF Init, Landed, Pending, Busy, Request, Idle, EmptyStore, Numbers
    <3>3. QED
      BY <3>1, <3>2, FS_EmptySet DEF EveryFilingLands
  <2>2. QED
    BY <2>1, AnnounceInit DEF LandInv
<1>2. LandInv => EveryFilingLands
  BY DEF LandInv
<1>3. QED
  BY <1>1, <1>2, LandNext, PTL DEF Spec
=============================================================================
