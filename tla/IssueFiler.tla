---------------------------- MODULE IssueFiler -----------------------------
(***************************************************************************)
(* github/filer.py: the dedup and filing algorithm, run by one process per *)
(* replica against the shared tracker of GitHubStore.                      *)
(*                                                                         *)
(* A filing is a sequence of HTTP requests with an await between any two,  *)
(* so one request is one step here and everything else interleaves: other  *)
(* filings, people editing the issue, the process dying.  A "replica" is   *)
(* whoever may file the same error at the same time: another process, or   *)
(* another worker of this one, when a filing outlasts its suppression      *)
(* window (suppress.py).                                                   *)
(*                                                                         *)
(* Each request goes through GitHubClient.request (github/client.py): it   *)
(* may fail before it reaches GitHub, it may be executed while its answer  *)
(* is lost, and in both cases the client sends it again, up to MaxAttempts *)
(* times and whatever its method.                                          *)
(*                                                                         *)
(* Time is counted in units of CLAIM_BACKOFF_SECONDS, the only clock the   *)
(* algorithm waits on.  The repository cooldown of file() is the subject   *)
(* of module RepoAvailability.                                             *)
(***************************************************************************)
EXTENDS GitHubStore

CONSTANTS
    Replica,            \* processes running err2issue against this repository
    Fp,                 \* error fingerprints
    ClaimRetries,       \* CLAIM_RETRIES: re-queries after a lost claim
    MaxAttempts,        \* client.max_attempts: sends of one request
    ReopenClosed,       \* reopen_closed
    ReopenNotPlanned,   \* reopen_not_planned
    Assignees,          \* TRUE when assignees are configured
    HumanEdits,         \* the edits people make in this instance
    MaxFilings,         \* bound: errors that arrive
    MaxErrors,          \* bound: requests that fail before they reach GitHub
    MaxLost,            \* bound: requests executed whose answer is lost
    MaxCrashes,         \* bound: processes killed
    MaxEdits            \* bound: human edits

ASSUME FilerConstants ==
    /\ IsFiniteSet(Replica)
    /\ Fp # {}
    /\ {ClaimRetries, MaxAttempts} \subseteq Nat \ {0}
    /\ {ReopenClosed, ReopenNotPlanned, Assignees} \subseteq BOOLEAN
    /\ HumanEdits \subseteq
         {"complete", "decline", "reopen", "retitle", "strip", "delete"}
    /\ {MaxFilings, MaxErrors, MaxLost, MaxCrashes, MaxEdits} \subseteq Nat

VARIABLES
    gh,        \* the tracker
    job,       \* job[r]: the filing replica r is in the middle of
    exposed,   \* exposed[f]: time f's label existed while no issue carried it
    used       \* how much of each bound is spent

vars == <<gh, job, exposed, used>>

(***************************************************************************)
(* A filing: the request it is about to send (pc), its fingerprint, the    *)
(* attempt of the re-query loop and what is left of its sleep, how often   *)
(* the current request was sent, whether assignees are still on the        *)
(* request, the issue it looked up, and whether its PATCH has arrived.     *)
(***************************************************************************)
NoIssue == [number |-> 0]

Idle ==
    [pc |-> "idle", fp |-> CHOOSE f \in Fp : TRUE, attempt |-> 0, wait |-> 0,
     tries |-> 1, assign |-> FALSE, snap |-> NoIssue, arrived |-> FALSE]

Request == {"lookup", "claim", "requery", "style", "create", "update", "comment"}

Busy(r) == job[r].pc \in Request

\* The total time a lost claim waits before the label is taken for orphaned.
ClaimWait == (ClaimRetries * (ClaimRetries + 1)) \div 2

Init ==
    /\ gh = EmptyStore
    /\ job = [r \in Replica |-> Idle]
    /\ exposed = [f \in Fp |-> 0]
    /\ used = [filings |-> 0, errors |-> 0, lost |-> 0, crashes |-> 0, edits |-> 0]

(***************************************************************************)
(* Steps of one filing.                                                    *)
(***************************************************************************)
Become(r, j) == job' = [job EXCEPT ![r] = j]

GoTo(r, pc) == Become(r, [job[r] EXCEPT !.pc = pc, !.tries = 1])

Finish(r) == Become(r, Idle)

\* _file: the worker takes an event whose repository is not cooling down.
StartFiling(r, f) ==
    /\ job[r].pc = "idle"
    /\ used.filings < MaxFilings
    /\ Become(r, [Idle EXCEPT !.pc = "lookup", !.fp = f])
    /\ used' = [used EXCEPT !.filings = @ + 1]
    /\ UNCHANGED <<gh, exposed>>

\* _pick: an open issue if there is one, the most recently updated of them.
Pick(found) ==
    LET open == {n \in found : gh.issues[n].state = "open"}
        pool == IF open # {} THEN open ELSE found
    IN  CHOOSE n \in pool : \A m \in pool : gh.newer[n] <= gh.newer[m]

Snapshot(n) ==
    LET i == gh.issues[n]
    IN  [number |-> n, state |-> i.state, reason |-> i.reason,
         title |-> i.title, header |-> i.header]

\* An issue was found: _record_occurrence works on this copy of it.
RecordOn(r, found) ==
    Become(r, [job[r] EXCEPT !.pc = "update", !.tries = 1, !.snap = Snapshot(Pick(found))])

Lookup(r) ==
    /\ job[r].pc = "lookup"
    /\ LET found == Labelled(gh, job[r].fp)
       IN  IF found # {} THEN RecordOn(r, found) ELSE GoTo(r, "claim")
    /\ UNCHANGED <<gh, exposed, used>>

\* create_label as a mutex: 201 goes on to create, 422 waits for the winner.
ClaimLabel(r) ==
    /\ job[r].pc = "claim"
    /\ IF job[r].fp \notin gh.labels
       THEN GoTo(r, "style")
       ELSE Become(r, [job[r] EXCEPT !.pc = "requery", !.tries = 1,
                                     !.attempt = 1, !.wait = 1])
    /\ gh' = CreateLabel(gh, job[r].fp)
    /\ UNCHANGED <<exposed, used>>

\* Bugs to be caught: the loop ends one turn early, one turn late, never, or
\* with the error given up instead of filed.
RequeryElse(r, turns, otherwise) ==
    /\ job[r].pc = "requery"
    /\ job[r].wait = 0
    /\ LET found == Labelled(gh, job[r].fp)
           next  == job[r].attempt + 1
       IN  IF found # {} THEN RecordOn(r, found)
           ELSE IF next <= turns
                THEN Become(r, [job[r] EXCEPT !.attempt = next, !.wait = next])
                ELSE otherwise
    /\ UNCHANGED <<gh, exposed, used>>

RequeryOnceLess(r) == RequeryElse(r, ClaimRetries - 1, GoTo(r, "style"))
RequeryOnceMore(r) == RequeryElse(r, ClaimRetries + 1, GoTo(r, "style"))
RequeryForever(r)  ==
    RequeryElse(r, ClaimRetries, Become(r, [job[r] EXCEPT !.attempt = 1, !.wait = 1]))
RequeryGivesUp(r)  == RequeryElse(r, ClaimRetries, Finish(r))

\* One turn of the bounded loop; after the last one the label counts as
\* orphaned and the loser creates the issue itself.
Requery(r) ==
    /\ job[r].pc = "requery"
    /\ job[r].wait = 0
    /\ LET found == Labelled(gh, job[r].fp)
           next  == job[r].attempt + 1
       IN  IF found # {} THEN RecordOn(r, found)
           ELSE IF next <= ClaimRetries
                THEN Become(r, [job[r] EXCEPT !.attempt = next, !.wait = next, !.tries = 1])
                ELSE GoTo(r, "style")
    /\ UNCHANGED <<gh, exposed, used>>

\* _create up to the POST.  Creating the cosmetic labels is best effort: no
\* answer of GitHub changes what follows, it only delays the issue.
StyleExtraLabels(r) ==
    /\ job[r].pc = "style"
    /\ Become(r, [job[r] EXCEPT !.pc = "create", !.tries = 1, !.assign = Assignees])
    /\ UNCHANGED <<gh, exposed, used>>

CreateTheIssue(r) ==
    /\ job[r].pc = "create"
    /\ gh' = CreateIssue(gh, job[r].fp)
    /\ Finish(r)
    /\ UNCHANGED <<exposed, used>>

\* GitHub answers 422 to an assignee who is no collaborator: file unassigned.
RejectAssignees(r) ==
    /\ job[r].pc = "create"
    /\ job[r].assign
    /\ Become(r, [job[r] EXCEPT !.assign = FALSE, !.tries = 1])
    /\ UNCHANGED <<gh, exposed, used>>

(***************************************************************************)
(* _record_occurrence: everything is decided on the looked-up copy.        *)
(***************************************************************************)
NewCount(s) ==
    LET header == IF s.header = 0 THEN 1 ELSE s.header
    IN  (IF s.title > header THEN s.title ELSE header) + 1

Regression(s) ==
    /\ s.state = "closed"
    /\ ReopenClosed
    /\ s.reason = "declined" => ReopenNotPlanned

\* Bugs to be caught: the PATCH counts on from what the issue shows by now, and
\* the PATCH always says state=open.
UpdateEffectCountingOn(j) ==
    UpdateIssue(gh, j.snap.number, NewCount(gh.issues[j.snap.number]),
                j.snap.header # 0, Regression(j.snap), ~ j.arrived)

UpdateEffectOpening(j) ==
    UpdateIssue(gh, j.snap.number, NewCount(j.snap), j.snap.header # 0,
                ReopenClosed, ~ j.arrived)

UpdateEffect(j) ==
    UpdateIssue(gh, j.snap.number, NewCount(j.snap), j.snap.header # 0,
                Regression(j.snap), ~ j.arrived)

GoToComment(r) ==
    Become(r, [job[r] EXCEPT !.pc = "comment", !.tries = 1, !.arrived = TRUE])

\* A bug to be caught: the comment budget applies to regressions as well.
UpdateTheIssueBudgeted(r) ==
    /\ job[r].pc = "update"
    /\ Exists(gh, job[r].snap.number)
    /\ gh' = UpdateEffect(job[r])
    /\ \/ Finish(r)
       \/ GoToComment(r)
    /\ UNCHANGED <<exposed, used>>

\* The PATCH; then a regression is always announced and a routine occurrence
\* comments when _CommentBudget.allow says so (either way here: what it says
\* depends on an hour of history that is not part of this module).
UpdateTheIssue(r) ==
    /\ job[r].pc = "update"
    /\ Exists(gh, job[r].snap.number)
    /\ gh' = UpdateEffect(job[r])
    /\ \E allowed \in BOOLEAN :
          IF Regression(job[r].snap) \/ allowed
          THEN GoToComment(r)
          ELSE Finish(r)
    /\ UNCHANGED <<exposed, used>>

CommentOnTheIssue(r) ==
    /\ job[r].pc = "comment"
    /\ Exists(gh, job[r].snap.number)
    /\ gh' = AddComment(gh, job[r].snap.number, Regression(job[r].snap))
    /\ Finish(r)
    /\ UNCHANGED <<exposed, used>>

\* The issue vanished after the lookup: the PATCH raises, the comment's 404
\* or 410 is tolerated; either way the filing is over.
IssueGone(r) ==
    /\ job[r].pc \in {"update", "comment"}
    /\ ~ Exists(gh, job[r].snap.number)
    /\ Finish(r)
    /\ UNCHANGED <<gh, exposed, used>>

(***************************************************************************)
(* GitHubClient.request when no good answer comes back.                    *)
(***************************************************************************)
Awaiting(r) ==
    /\ job[r].pc \in {"lookup", "claim", "requery", "create", "update", "comment"}
    /\ job[r].wait = 0

\* Sent again, or out of attempts: then the error ends the filing.
Resend(r, arrived) ==
    IF job[r].tries < MaxAttempts
    THEN Become(r, [job[r] EXCEPT !.tries = @ + 1, !.arrived = @ \/ arrived])
    ELSE Finish(r)

\* What the request does to the tracker when it is executed.
Effect(j) ==
    CASE j.pc = "claim"   -> CreateLabel(gh, j.fp)
      [] j.pc = "create"  -> CreateIssue(gh, j.fp)
      [] j.pc = "update"  -> UpdateEffect(j)
      [] j.pc = "comment" -> AddComment(gh, j.snap.number, Regression(j.snap))

\* A connection error, a 5xx or a rate limit: not executed, sent again.
RequestFails(r) ==
    /\ Awaiting(r)
    /\ used.errors < MaxErrors
    /\ Resend(r, FALSE)
    /\ used' = [used EXCEPT !.errors = @ + 1]
    /\ UNCHANGED <<gh, exposed>>

\* Executed, but the answer never arrives: sent again, POST or not.
AnswerLost(r) ==
    /\ Awaiting(r)
    /\ job[r].pc \in {"claim", "create", "update", "comment"}
    /\ job[r].pc \in {"update", "comment"} => Exists(gh, job[r].snap.number)
    /\ used.lost < MaxLost
    /\ gh' = Effect(job[r])
    /\ Resend(r, job[r].pc = "update")
    /\ used' = [used EXCEPT !.lost = @ + 1]
    /\ UNCHANGED exposed

\* A 4xx that is no rate limit is raised at once and ends the filing.  So does
\* an error out of headers_for (no credentials), which is outside the try of
\* request(): it ends the filing even where only the cosmetic labels were to
\* be created.
RaisesAtOnce(r) ==
    /\ Busy(r)
    /\ job[r].wait = 0
    /\ used.errors < MaxErrors
    /\ Finish(r)
    /\ used' = [used EXCEPT !.errors = @ + 1]
    /\ UNCHANGED <<gh, exposed>>

(***************************************************************************)
(* The environment.                                                        *)
(***************************************************************************)
\* The process is killed and restarted: everything it kept is lost.
Crash(r) ==
    /\ Busy(r)
    /\ used.crashes < MaxCrashes
    /\ Finish(r)
    /\ used' = [used EXCEPT !.crashes = @ + 1]
    /\ UNCHANGED <<gh, exposed>>

HumanEdit(n, edit) ==
    /\ used.edits < MaxEdits
    /\ Exists(gh, n)
    /\ gh.issues[n] # Edited(gh.issues[n], edit)
    /\ gh' = EditIssue(gh, n, edit)
    /\ used' = [used EXCEPT !.edits = @ + 1]
    /\ UNCHANGED <<job, exposed>>

\* Time passes; it is only observed by a filing that sleeps in the loop.
Tick ==
    /\ \E r \in Replica : job[r].wait > 0
    /\ job' = [r \in Replica |->
                 [job[r] EXCEPT !.wait = IF @ > 0 THEN @ - 1 ELSE 0]]
    /\ exposed' = [f \in Fp |->
                     IF /\ f \in gh.labels
                        /\ Labelled(gh, f) = {}
                        /\ exposed[f] < ClaimWait
                     THEN exposed[f] + 1 ELSE exposed[f]]
    /\ UNCHANGED <<gh, used>>

\* Every error that arrives in this instance has been dealt with.
Quiet ==
    /\ used.filings = MaxFilings
    /\ \A r \in Replica : ~ Busy(r)
    /\ UNCHANGED vars

Progress(r) ==
    \/ Lookup(r) \/ ClaimLabel(r) \/ Requery(r) \/ StyleExtraLabels(r)
    \/ CreateTheIssue(r) \/ UpdateTheIssue(r) \/ CommentOnTheIssue(r)
    \/ IssueGone(r)

Filing(r) ==
    \/ \E f \in Fp : StartFiling(r, f)
    \/ Progress(r)
    \/ RejectAssignees(r)
    \/ RequestFails(r)
    \/ AnswerLost(r)
    \/ RaisesAtOnce(r)

Next ==
    \/ \E r \in Replica : Filing(r) \/ Crash(r)
    \/ \E n \in Numbers(gh), edit \in HumanEdits : HumanEdit(n, edit)
    \/ Tick
    \/ Quiet

Spec == Init /\ [][Next]_vars

(***************************************************************************)
(* asyncio runs every ready task and every request ends, by its timeout at *)
(* the latest; time passes.  Nothing is assumed of people or of crashes.   *)
(***************************************************************************)
FairSpec == Spec /\ WF_vars(Tick) /\ \A r \in Replica : WF_vars(Progress(r))
=============================================================================
