-------------------------- MODULE RepoAvailability --------------------------
(***************************************************************************)
(* The repository cooldown of github/filer.py.  A repository whose Issues  *)
(* are switched off answers 410; IssueFiler.file then remembers it for     *)
(* unavailable_cooldown_seconds and skips its errors, and the memory is    *)
(* dropped by the next filing that succeeds.  The workers of one process   *)
(* share that memory and each has an await between any two requests, so    *)
(* one request is one step.                                                *)
(*                                                                         *)
(* What a filing writes is the subject of module IssueFiler; here only     *)
(* which requests it sends, how each reacts to a 410, and what file()      *)
(* does with the outcome.  The deadline is kept as the time left, in ticks.*)
(***************************************************************************)
EXTENDS Integers, FiniteSets

CONSTANTS
    Worker,         \* workers of the process
    Repo,           \* repositories errors are routed to
    Cooldown,       \* unavailable_cooldown_seconds, in ticks
    MaxSwitches     \* bound: how often people switch Issues on or off

ASSUME CooldownConstants ==
    /\ Repo # {}
    /\ Cooldown \in Nat \ {0}
    /\ MaxSwitches \in Nat

VARIABLES
    issuesOn,       \* repositories that have Issues switched on
    left,           \* _unavailable: time left of each entry, NoEntry if none
    job,            \* job[w]: the request worker w is about to send, and where
    switches,       \* how often the setting was changed
    sinceOff        \* history: time since Issues were last off, capped

vars == <<issuesOn, left, job, switches, sinceOff>>

NoEntry == -1

Idle == [pc |-> "idle", repo |-> CHOOSE p \in Repo : TRUE]

Init ==
    /\ issuesOn = Repo
    /\ left = [p \in Repo |-> NoEntry]
    /\ job = [w \in Worker |-> Idle]
    /\ switches = 0
    /\ sinceOff = [p \in Repo |-> Cooldown + 1]

CoolingDown(p) == left[p] > 0

\* health(): every entry is listed, the expired ones included; the gauge
\* err2issue_repos_unavailable is the number of them.
Listed == {p \in Repo : left[p] # NoEntry}

\* Bugs to be caught: the deadline is extended instead of set, or kept if there
\* is one.
ExtendUnavailable(p) == left' = [left EXCEPT ![p] = @ + Cooldown]
KeepUnavailable(p) == left' = [left EXCEPT ![p] = IF @ = NoEntry THEN Cooldown ELSE @]

MarkUnavailable(p) == left' = [left EXCEPT ![p] = Cooldown]

\* A bug to be caught: the entry stays once it has lapsed.
KeepAvailable(p) == UNCHANGED left

MarkAvailable(p) == left' = [left EXCEPT ![p] = NoEntry]

Finish(w) == job' = [job EXCEPT ![w] = Idle]

Send(w, pc) == job' = [job EXCEPT ![w].pc = pc]

Environment == <<issuesOn, switches, sinceOff>>

(***************************************************************************)
(* file(): its entry, then the requests of _file.                          *)
(***************************************************************************)
\* While the repository cools down the error is skipped: no request is sent.
Skip(w, p) ==
    /\ job[w].pc = "idle"
    /\ CoolingDown(p)
    /\ UNCHANGED vars

Start(w, p) ==
    /\ job[w].pc = "idle"
    /\ ~ CoolingDown(p)
    /\ job' = [job EXCEPT ![w] = [pc |-> "lookup", repo |-> p]]
    /\ UNCHANGED <<left, Environment>>

\* list_issues_by_label and create_issue turn a 410 into RepoUnavailable.
RefusedAsUnavailable(w) ==
    /\ job[w].pc \in {"lookup", "create"}
    /\ job[w].repo \notin issuesOn
    /\ MarkUnavailable(job[w].repo)
    /\ Finish(w)
    /\ UNCHANGED Environment

Lookup(w) ==
    /\ job[w].pc = "lookup"
    /\ job[w].repo \in issuesOn
    /\ \E found \in BOOLEAN : Send(w, IF found THEN "update" ELSE "create")
    /\ UNCHANGED <<left, Environment>>

Create(w) ==
    /\ job[w].pc = "create"
    /\ job[w].repo \in issuesOn
    /\ MarkAvailable(job[w].repo)
    /\ Finish(w)
    /\ UNCHANGED Environment

\* The PATCH, and the end of the filing when no comment is due.
Update(w) ==
    /\ job[w].pc = "update"
    /\ job[w].repo \in issuesOn
    /\ \/ Send(w, "comment") /\ UNCHANGED left
       \/ Finish(w) /\ MarkAvailable(job[w].repo)
    /\ UNCHANGED Environment

\* The comment, or a refusal of it: 403, 404, 410 and 422 are tolerated, so
\* the filing counts as a success even when Issues have just gone off.
Comment(w) ==
    /\ job[w].pc = "comment"
    /\ MarkAvailable(job[w].repo)
    /\ Finish(w)
    /\ UNCHANGED Environment

\* A bug to be caught: every error counts as a refusal.
FailUnavailable(w) ==
    /\ job[w].pc # "idle"
    /\ MarkUnavailable(job[w].repo)
    /\ Finish(w)
    /\ UNCHANGED Environment

\* Any other GitHubError (among them a 410 to the PATCH) leaves file() as an
\* exception: neither mark changes.
Fail(w) ==
    /\ job[w].pc # "idle"
    /\ Finish(w)
    /\ UNCHANGED <<left, Environment>>

(***************************************************************************)
(* The environment.                                                        *)
(***************************************************************************)
SwitchIssues(p) ==
    /\ switches < MaxSwitches
    /\ switches' = switches + 1
    /\ issuesOn' = IF p \in issuesOn THEN issuesOn \ {p} ELSE issuesOn \cup {p}
    /\ sinceOff' = [sinceOff EXCEPT ![p] = 0]
    /\ UNCHANGED <<left, job>>

Tick ==
    /\ left' = [p \in Repo |-> IF left[p] > 0 THEN left[p] - 1 ELSE left[p]]
    /\ sinceOff' = [p \in Repo |->
                      IF p \notin issuesOn THEN 0
                      ELSE IF sinceOff[p] <= Cooldown THEN sinceOff[p] + 1
                      ELSE sinceOff[p]]
    /\ UNCHANGED <<issuesOn, job, switches>>

Step(w) ==
    \/ RefusedAsUnavailable(w) \/ Lookup(w) \/ Create(w) \/ Update(w)
    \/ Comment(w)

Next ==
    \/ \E w \in Worker, p \in Repo : Skip(w, p) \/ Start(w, p)
    \/ \E w \in Worker : Step(w) \/ Fail(w)
    \/ \E p \in Repo : SwitchIssues(p)
    \/ Tick

Spec == Init /\ [][Next]_vars

(***************************************************************************)
(* Time passes, every request ends one way or the other, errors keep       *)
(* arriving for every repository, and GitHub is not down for good: a kind  *)
(* of request that is sent again and again to a repository is answered     *)
(* again and again.                                                        *)
(***************************************************************************)
FairSpec ==
    /\ Spec
    /\ WF_vars(Tick)
    /\ \A w \in Worker : WF_vars(Step(w) \/ Fail(w))
    /\ \A p \in Repo :
          /\ SF_vars(\E w \in Worker : Start(w, p))
          /\ SF_vars(\E w \in Worker : job[w].repo = p /\ RefusedAsUnavailable(w))
          /\ SF_vars(\E w \in Worker : job[w].repo = p /\ Lookup(w))
          /\ SF_vars(\E w \in Worker : job[w].repo = p /\ (Create(w) \/ Update(w)))
          /\ SF_vars(\E w \in Worker : job[w].repo = p /\ Comment(w))

(***************************************************************************)
(* Properties.                                                             *)
(***************************************************************************)
TypeOK ==
    /\ issuesOn \subseteq Repo
    /\ left \in [Repo -> {NoEntry} \cup 0..Cooldown]
    /\ job \in [Worker -> [pc : {"idle", "lookup", "create", "update", "comment"},
                           repo : Repo]]
    /\ switches \in 0..MaxSwitches
    /\ sinceOff \in [Repo -> 0..(Cooldown + 1)]

\* Errors are only skipped because of a recent 410: while an entry has k
\* ticks left, Issues were off no longer than Cooldown - k ticks ago.  So a
\* setting switched back on costs one cooldown at most (filer.py:277-280),
\* and neither skipped errors nor other failures extend it.
SkippingHasRecentCause ==
    \A p \in Repo : CoolingDown(p) => sinceOff[p] <= Cooldown - left[p]

\* filer.py:290-291: a repository that stays broken re-arms its cooldown
\* whenever it lapses rather than reverting to "fine".
StillBrokenRearms ==
    \A p \in Repo : <>[](p \notin issuesOn) => []<>CoolingDown(p)

\* filer.py:278-280: the memory expires.  Once Issues stay on, the entry is
\* gone for good and no error is skipped any more.
RecoveryIsNoticed ==
    \A p \in Repo : <>[](p \in issuesOn) => <>[](p \notin Listed)
=============================================================================
