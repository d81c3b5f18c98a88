------------------------- MODULE FilerRequirements -------------------------
(***************************************************************************)
(* What github/filer.py promises about the tracker, over the states and    *)
(* steps of IssueFiler.                                                    *)
(***************************************************************************)
EXTENDS IssueFiler

Copy ==
    [number : Nat \ {0}, state : {"open", "closed"}, reason : StateReason,
     title : Nat \ {0}, header : Nat]

Job ==
    [pc : {"idle"} \cup Request, fp : Fp, attempt : 0..ClaimRetries,
     wait : 0..ClaimRetries, tries : 1..MaxAttempts, assign : BOOLEAN,
     snap : {NoIssue} \cup Copy, arrived : BOOLEAN]

Used ==
    [filings : 0..MaxFilings, errors : 0..MaxErrors, lost : 0..MaxLost,
     crashes : 0..MaxCrashes, edits : 0..MaxEdits]

\* The variables have their types, and whoever is about to write to an issue
\* (update, comment) has looked one up.
TypeOK ==
    /\ gh \in Store(Fp)
    /\ job \in [Replica -> Job]
    /\ \A r \in Replica :
          job[r].pc \in {"update", "comment"} =>
            job[r].snap \in Copy /\ job[r].snap.number \in Numbers(gh)
    /\ exposed \in [Fp -> 0..ClaimWait]
    /\ used \in Used

(***************************************************************************)
(* One issue per error.                                                    *)
(***************************************************************************)
\* filer.py:1 and docs/DEPLOY.md ("the second becomes an occurrence comment
\* rather than a duplicate issue"): never two issues with one fingerprint.
OneIssuePerFingerprint ==
    \A f \in Fp : Cardinality(Labelled(gh, f)) <= 1

\* The honest bound of the label mutex (filer.py:14-20), made exact: beyond
\* the issue of a POST that was sent again because its answer was lost, two
\* issues need a label that stood without an issue for the whole of the
\* losers' re-query loop.  A winner that writes its issue sooner than that
\* is always found, whatever else interleaves, unless somebody deletes it
\* before the losers have looked.
DuplicateNeedsSlowWinner ==
    \A f \in Fp :
        Cardinality(Labelled(gh, f)) > 1 + used.lost =>
            exposed[f] >= ClaimWait \/ Deleted(gh, f)

\* Nothing fails any more in this instance.
Calm ==
    used.crashes = MaxCrashes /\ used.errors = MaxErrors /\ used.lost = MaxLost

\* A label left behind without an issue does not block its error for good:
\* once nothing fails any more, a filing that lost the claim to it ends in
\* an issue (the fall-through of _file).
OrphanedLabelHeals ==
    \A r \in Replica, f \in Fp :
        (Calm /\ job[r].pc = "requery" /\ job[r].fp = f) ~> Labelled(gh, f) # {}

(***************************************************************************)
(* The count.                                                              *)
(***************************************************************************)
\* What the next filing will take for the count so far.
Count(issue) == NewCount(issue) - 1

\* No issue ever claims more occurrences than filings wrote to it: a PATCH
\* that is sent again after a lost answer does not count twice, and neither
\* do two filings that read the same count.
NeverOvercounts ==
    \A n \in Numbers(gh) : Count(gh.issues[n]) <= gh.issues[n].hits

\* No request has failed, no answer was lost and no process has died.
Undisturbed == used.errors = 0 /\ used.lost = 0 /\ used.crashes = 0

\* The filings whose write reached an issue: the k-th one on issue n.
Landed == UNION {{n} \X (1..gh.issues[n].hits) : n \in Numbers(gh)}

\* The filings under way whose write is still to come.
Pending == {r \in Replica : Busy(r) /\ ~ job[r].arrived}

\* As long as nothing has failed and nobody deletes an issue, every filing
\* ends up on exactly one issue: it has created it or bumped it by the time it
\* is over.
EveryFilingLands ==
    (Undisturbed /\ \A n \in Numbers(gh) : Exists(gh, n)) =>
      Cardinality(Landed) + Cardinality(Pending) = used.filings

(***************************************************************************)
(* What people decided.                                                    *)
(***************************************************************************)
IsClosed(issue) == issue.state = "closed"

\* A step of a filing (and not of a person) that reopens issue n.
FilingReopens(n) ==
    /\ job' # job
    /\ IsClosed(gh.issues[n])
    /\ gh'.issues[n].state = "open"

\* Closing or declining an issue while a filing that saw it open is under way
\* is not undone by that filing: only who looked the issue up when it was
\* closed as fixed (or declined, where reopen_not_planned says so) reopens it.
CloseDuringFilingStands ==
    [][\A n \in Numbers(gh) :
         FilingReopens(n) =>
           \E r \in Replica : /\ job'[r] # job[r]
                              /\ job[r].snap.number = n
                              /\ Regression(job[r].snap)]_vars

\* The filings about to announce that they reopened issue n.
Announcing(n) ==
    {r \in Replica : /\ job[r].pc = "comment"
                     /\ job[r].snap.number = n
                     /\ Regression(job[r].snap)}

\* docs/ISSUE_CONTRACT.md, "Regression comments are never suppressed": every
\* reopening by a filing is announced on the issue or about to be, the budget
\* and concurrent filings of the same regression notwithstanding.
EveryReopenAnnounced ==
    Undisturbed =>
      \A n \in Numbers(gh) :
        Exists(gh, n) =>
          gh.issues[n].reopened =
            gh.issues[n].announced + Cardinality(Announcing(n))

(***************************************************************************)
(* Progress.                                                               *)
(***************************************************************************)
\* No filing hangs: with finitely many sends of a request and turns of the
\* re-query loop, every filing ends.
FilingEnds == \A r \in Replica : Busy(r) ~> ~ Busy(r)
=============================================================================
