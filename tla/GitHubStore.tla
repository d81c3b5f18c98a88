---------------------------- MODULE GitHubStore ----------------------------
(***************************************************************************)
(* The issue tracker as err2issue sees it: the labels that exist in one    *)
(* repository, its issues, and the order of their updated_at.  GitHub is   *)
(* not under src/; every operator is what github/client.py sends and what  *)
(* github/filer.py and docs/ISSUE_CONTRACT.md expect in answer.            *)
(*                                                                         *)
(* A store is a record [labels, issues, newer]:                            *)
(*   labels   fingerprint labels that exist (a label outlives its issues)  *)
(*   issues   sequence of issues; an issue's number is its position        *)
(*   newer    newer[n]: how many issues were updated after issue n         *)
(* An issue keeps only what the filer reads or writes: its state and       *)
(* state_reason, the count its title shows (1 without an [xN] marker) and  *)
(* the count in the machine header (0 when somebody removed the header).   *)
(*                                                                         *)
(* The fields hits, reopened and announced are history: the filings whose  *)
(* write reached the issue, those of them that reopened it, and the        *)
(* regression comments it carries.  No operator of the filer reads them.   *)
(***************************************************************************)
EXTENDS Integers, Sequences, FiniteSets

IssueState == {"open", "closed", "deleted"}

\* "declined" stands for the reasons not_planned and duplicate.
StateReason == {"none", "completed", "declined"}

Issue(Fp) ==
    [fp : Fp, state : IssueState, reason : StateReason, title : Nat \ {0},
     header : Nat, hits : Nat, reopened : Nat, announced : Nat]

Store(Fp) ==
    {s \in [labels : SUBSET Fp, issues : Seq(Issue(Fp)), newer : Seq(Nat)] :
        Len(s.newer) = Len(s.issues)}

EmptyStore == [labels |-> {}, issues |-> <<>>, newer |-> <<>>]

NewIssue(f) ==
    [fp |-> f, state |-> "open", reason |-> "none", title |-> 1, header |-> 1,
     hits |-> 1, reopened |-> 0, announced |-> 0]

Numbers(store) == DOMAIN store.issues

Exists(store, n) == store.issues[n].state # "deleted"

\* GET /issues?labels=f&state=all, pull requests left out.
Labelled(store, f) ==
    {n \in Numbers(store) : store.issues[n].fp = f /\ Exists(store, n)}

Deleted(store, f) ==
    \E n \in Numbers(store) : store.issues[n].fp = f /\ ~ Exists(store, n)

\* Any change of an issue makes it the most recently updated one.
Touch(newer, n) ==
    [m \in DOMAIN newer |-> IF m = n THEN 0
                            ELSE IF newer[m] < newer[n] THEN newer[m] + 1
                            ELSE newer[m]]

Write(store, n, issue) ==
    [labels |-> store.labels,
     issues |-> [store.issues EXCEPT ![n] = issue],
     newer  |-> Touch(store.newer, n)]

\* POST /labels: 201 to the caller that finds it missing, 422 to the rest.
CreateLabel(store, f) == [store EXCEPT !.labels = @ \cup {f}]

\* POST /issues: every such request that arrives makes an issue.
CreateIssue(store, f) ==
    [labels |-> store.labels \cup {f},
     issues |-> Append(store.issues, NewIssue(f)),
     newer  |-> [n \in 1..(Len(store.issues) + 1) |->
                   IF n \in Numbers(store) THEN store.newer[n] + 1 ELSE 0]]

\* PATCH /issues/n: title and header are absolute counts, the header only
\* where the caller found one; first says whether this filing's write is the
\* first of its (possibly repeated) PATCH requests to arrive.
Counted(issue, count, hasHeader, first) ==
    [issue EXCEPT !.title  = count,
                  !.header = IF hasHeader THEN count ELSE @,
                  !.hits   = IF first THEN @ + 1 ELSE @]

Reopened(issue, first) ==
    [issue EXCEPT !.state    = "open",
                  !.reason   = "none",
                  !.reopened = IF first THEN @ + 1 ELSE @]

Patched(issue, count, hasHeader, reopen, first) ==
    LET counted == Counted(issue, count, hasHeader, first)
    IN  IF reopen THEN Reopened(counted, first) ELSE counted

UpdateIssue(store, n, count, hasHeader, reopen, first) ==
    Write(store, n, Patched(store.issues[n], count, hasHeader, reopen, first))

\* POST /issues/n/comments.
Commented(issue, regression) ==
    [issue EXCEPT !.announced = IF regression THEN @ + 1 ELSE @]

AddComment(store, n, regression) ==
    Write(store, n, Commented(store.issues[n], regression))

(***************************************************************************)
(* What people do to an issue in the GitHub UI.                            *)
(***************************************************************************)
Closed(issue, reason) == [issue EXCEPT !.state = "closed", !.reason = reason]

Edited(issue, edit) ==
    CASE edit = "complete" -> Closed(issue, "completed")
      [] edit = "decline"  -> Closed(issue, "declined")
      [] edit = "reopen"   -> [issue EXCEPT !.state = "open", !.reason = "none"]
      [] edit = "retitle"  -> [issue EXCEPT !.title = 1]
      [] edit = "strip"    -> [issue EXCEPT !.header = 0]
      [] edit = "delete"   -> [issue EXCEPT !.state = "deleted"]

EditIssue(store, n, edit) == Write(store, n, Edited(store.issues[n], edit))
=============================================================================
