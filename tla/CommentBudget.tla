----------------------------- MODULE CommentBudget -----------------------------
(***************************************************************************)
(* filer.py: _CommentBudget, the cap on routine comments per issue and     *)
(* hour, together with what decides how hard it is used: the throttle in   *)
(* front of filing (module Throttle) and the workers a filing keeps busy   *)
(* between its admission and its comment.                                  *)
(*                                                                         *)
(* A fingerprint stands for its issue.  The stamps of an issue are a set   *)
(* of numbered calls rather than a list of times; the table's order is the *)
(* serial number of the call that moved an entry to the end.               *)
(***************************************************************************)
EXTENDS Throttle, FiniteSets

CONSTANTS
    Worker,         \* WORKER_COUNT tasks
    Hour,           \* 3600 s, in ticks
    MaxPerHour,     \* max_comments_per_issue_per_hour
    MaxIssues       \* the 5000 of allow()

ASSUME BudgetConstants ==
    /\ IsFiniteSet(Worker)
    /\ MaxPerHour \in Nat
    /\ {Hour, MaxIssues} \subseteq Nat \ {0}

\* Between an issue's comment and its next occurrence in the same hour, the
\* entries of other issues that can come after its own: what the throttle lets
\* through in that time and what the other workers had in hand before it, less
\* the occurrence itself.
TableLargeEnough ==
    (MaxIssues + 1) * Token >
        Capacity + (Hour - 1) * Rate + (Cardinality(Worker) - 1) * Token

VARIABLES
    job,            \* job[w]: the issue worker w will ask a comment for, or Idle
    seen,           \* _seen: issue -> its stamps and its place in the order
    turn,           \* calls allowed so far
    posted          \* history: the calls allowed in the last hour, by issue

budget == <<seen, turn, posted>>
allVars == <<vars, job, budget>>

Idle == "idle"

Call == [issue : Fp, at : Nat, turn : Nat]

BudgetInit ==
    /\ Init
    /\ job = [w \in Worker |-> Idle]
    /\ seen = [i \in {} |-> [stamps |-> {}, turn |-> 0]]
    /\ turn = 0
    /\ posted = {}

WithinHour(calls, time) == {c \in calls : time - c.at < Hour}

(***************************************************************************)
(* allow(repo, number), under its lock.                                    *)
(***************************************************************************)
\* A bug to be caught: stamps that never grow old.
StampsForEver(i) == IF i \in DOMAIN seen THEN seen[i].stamps ELSE {}

\* [t for t in self._seen.get(key, []) if now - t < 3600]
Stamps(i) ==
    IF i \in DOMAIN seen
    THEN {c \in seen[i].stamps : now - c.at < Hour}
    ELSE {}

Spent(i) == Cardinality(Stamps(i)) >= MaxPerHour

\* A bug to be caught: popitem() without last=False.
Youngest(table) ==
    CHOOSE i \in DOMAIN table : \A j \in DOMAIN table : table[i].turn >= table[j].turn

\* while len(self._seen) > 5000: popitem(last=False).  A call adds one entry
\* at most.
Oldest(table) ==
    CHOOSE i \in DOMAIN table : \A j \in DOMAIN table : table[i].turn <= table[j].turn

\* A bug to be caught: one entry more than the limit stays.
BoundedLate(table) ==
    IF Cardinality(DOMAIN table) > MaxIssues + 1
    THEN [i \in DOMAIN table \ {Oldest(table)} |-> table[i]]
    ELSE table

Bounded(table) ==
    IF Cardinality(DOMAIN table) > MaxIssues
    THEN [i \in DOMAIN table \ {Oldest(table)} |-> table[i]]
    ELSE table

Put(i, entry) == [j \in DOMAIN seen \cup {i} |-> IF j = i THEN entry ELSE seen[j]]

Allow(w) ==
    LET i == job[w]
        call == [issue |-> i, at |-> now, turn |-> turn + 1]
    IN  /\ i # Idle
        /\ ~ Spent(i)
        /\ seen' = Bounded(Put(i, [stamps |-> Stamps(i) \cup {call}, turn |-> turn + 1]))
        /\ turn' = turn + 1
        /\ posted' = posted \cup {call}
        /\ job' = [job EXCEPT ![w] = Idle]
        /\ UNCHANGED vars

\* The stamps that remain are stored, the entry stays where it is; with a cap
\* of zero the call returns before the table is looked at.
Refuse(w) ==
    LET i == job[w]
    IN  /\ i # Idle
        /\ Spent(i)
        /\ seen' = IF MaxPerHour = 0 THEN seen ELSE [seen EXCEPT ![i].stamps = Stamps(i)]
        /\ job' = [job EXCEPT ![w] = Idle]
        /\ UNCHANGED <<vars, turn, posted>>

(***************************************************************************)
(* The filings in front of it.                                             *)
(***************************************************************************)
\* An admitted error whose filing finds an issue and records on it.
Record(w, f) ==
    /\ job[w] = Idle
    /\ Admit(f)
    /\ job' = [job EXCEPT ![w] = f]
    /\ UNCHANGED budget

\* One whose filing never asks: it creates the issue, reopens it (a regression
\* always gets its comment) or fails.
FileOtherwise(f) ==
    /\ Admit(f)
    /\ UNCHANGED <<job, budget>>

TimePasses ==
    /\ Tick
    /\ posted' = WithinHour(posted, now + 1)
    /\ UNCHANGED <<job, seen, turn>>

DayPasses == NewDay /\ UNCHANGED <<job, budget>>

BudgetNext ==
    \/ \E w \in Worker : Allow(w) \/ Refuse(w)
    \/ \E w \in Worker, f \in Fp : Record(w, f)
    \/ \E f \in Fp : FileOtherwise(f)
    \/ TimePasses
    \/ DayPasses

BudgetSpec == BudgetInit /\ [][BudgetNext]_allVars

(***************************************************************************)
(* Properties.                                                             *)
(***************************************************************************)
TypeOK ==
    /\ now \in 0..MaxTime
    /\ admitted \in [Fp -> Nat \cup {NotYet}]
    /\ credit \in 0..Capacity
    /\ charged \in 0..PerDay
    /\ job \in [Worker -> Fp \cup {Idle}]
    /\ turn \in Nat
    /\ posted \subseteq Call
    /\ DOMAIN seen \subseteq Fp /\ Cardinality(DOMAIN seen) <= MaxIssues
    /\ seen \in [DOMAIN seen -> [stamps : SUBSET Call, turn : 1..turn]]

\* filer.py:132, "Cap occurrence comments per issue per hour": in no hour does
\* an issue get more routine comments than the cap, although the table that
\* knows about them forgets its oldest entries and filings reach it later and
\* in another order than the throttle let them through.
RoutineCommentsCapped ==
    \A i \in Fp :
        Cardinality({c \in WithinHour(posted, now) : c.issue = i}) <= MaxPerHour

\* The cap is all the budget holds back: an occurrence whose issue had fewer
\* comments in the last hour gets its own.
RefusedOnlyWhenSpent ==
    [][\A w \in Worker :
         (job[w] # Idle /\ job'[w] = Idle /\ posted' = posted) =>
             Cardinality({c \in WithinHour(posted, now) : c.issue = job[w]})
                 >= MaxPerHour]_allVars
=============================================================================
