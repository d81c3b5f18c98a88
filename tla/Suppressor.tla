----------------------------- MODULE Suppressor -----------------------------
(***************************************************************************)
(* suppress.py: the throttle in front of filing.  One object per process,  *)
(* shared by its workers; check() runs under a lock and is one step.       *)
(*                                                                         *)
(* Numbers: monotonic time is counted in ticks, Minute ticks to 60 s.  The *)
(* token bucket is scaled by Minute to stay integral: a token is Minute    *)
(* units and max_per_minute units flow back per tick, which is the code's  *)
(* elapsed * (max_per_minute / 60.0) for times that are whole ticks.       *)
(*                                                                         *)
(* Tables: an OrderedDict is a function over the fingerprints it holds     *)
(* whose entries carry a serial number instead of a position; the entry    *)
(* that move_to_end put last has the highest, popitem(last=False) takes    *)
(* the lowest.  Serial numbers come from turn, the admissions so far.      *)
(***************************************************************************)
EXTENDS Integers, FiniteSets

CONSTANTS
    Fp,             \* fingerprints
    Window,         \* window_seconds, in ticks
    Minute,         \* ticks in 60 seconds
    MaxPerMinute,   \* max_per_minute
    MaxNewPerDay,   \* max_new_per_day
    MaxTracked,     \* MAX_TRACKED_FINGERPRINTS
    Day,            \* days the wall clock may show
    SetBack,        \* whether the wall clock may be set back to an earlier day
    MaxTime,        \* bound: ticks
    MaxDropped      \* bound: new errors dropped in a day

ASSUME SuppressorConstants ==
    /\ Window \in Nat
    /\ {Minute, MaxPerMinute, MaxTracked} \subseteq Nat \ {0}
    /\ {MaxNewPerDay, MaxTime, MaxDropped} \subseteq Nat
    /\ Day \subseteq Nat
    /\ SetBack \in BOOLEAN

VARIABLES
    now,            \* _clock(): monotonic time
    wallDay,        \* _wall_clock() // 86_400, which may be set back
    lastSeen,       \* _last_seen: fingerprint -> [at, turn]
    known,          \* _known: fingerprint -> [at, turn]
    bucket,         \* _bucket, in units
    updated,        \* _bucket_updated
    newToday,       \* _new_today
    dropped,        \* _dropped_new_today
    day,            \* _day
    turn,           \* admissions so far
    last,           \* history: last[f] = [at, turn] of f's last admission
    newOn,          \* history: newOn[d] = new errors admitted on day d
    mark            \* history: a moment [at, turn] somebody began to count

tables == <<lastSeen, known>>
clocks == <<now, wallDay>>
vars == <<clocks, tables, bucket, updated, newToday, dropped, day, turn, last, newOn, mark>>

Token == Minute
Capacity == MaxPerMinute * Minute

\* Admissions are numbered from 1.
Event == [at : Nat, turn : Nat]
Never == [at |-> 0, turn |-> 0]

Init ==
    /\ now = 0
    /\ wallDay \in Day
    /\ lastSeen = [f \in {} |-> Never]
    /\ known = lastSeen
    /\ bucket = Capacity
    /\ updated = 0
    /\ newToday = 0
    /\ dropped = 0
    /\ day = wallDay
    /\ turn = 0
    /\ last = [f \in Fp |-> Never]
    /\ newOn = [d \in Day |-> 0]
    /\ mark = Never

(***************************************************************************)
(* The pieces of check().                                                  *)
(***************************************************************************)
\* A bug to be caught: time off fills the bucket without limit.
RefilledWithoutLimit == bucket + (now - updated) * MaxPerMinute

\* _refill: what the bucket holds now.
Refilled ==
    LET filled == bucket + (now - updated) * MaxPerMinute
    IN  IF filled < Capacity THEN filled ELSE Capacity

\* _roll_day
NewSoFar == IF day = wallDay THEN newToday ELSE 0
DroppedSoFar == IF day = wallDay THEN dropped ELSE 0

Tracked == DOMAIN lastSeen
IsNew(f) == f \notin DOMAIN known
InWindow(f) == f \in Tracked /\ now - lastSeen[f].at < Window
\* A bug to be caught: one more than the budget.
OverBudgetLate(f) == IsNew(f) /\ NewSoFar > MaxNewPerDay

OverBudget(f) == IsNew(f) /\ NewSoFar >= MaxNewPerDay

\* table[f] = now, then move_to_end(f)
Put(table, f, e) ==
    [g \in DOMAIN table \cup {f} |-> IF g = f THEN e ELSE table[g]]

\* A bug to be caught: popitem() without last=False.
Youngest(table) ==
    CHOOSE f \in DOMAIN table :
        \A g \in DOMAIN table : table[f].turn >= table[g].turn

\* while len(table) > MAX_TRACKED_FINGERPRINTS: popitem(last=False).  A check
\* adds one entry at most, so at most one is dropped.
Oldest(table) ==
    CHOOSE f \in DOMAIN table :
        \A g \in DOMAIN table : table[f].turn <= table[g].turn

Bounded(table) ==
    IF Cardinality(DOMAIN table) > MaxTracked
    THEN [g \in DOMAIN table \ {Oldest(table)} |-> table[g]]
    ELSE table

Roll == day' = wallDay

\* The entries an admission writes: _known keeps the time f was first seen.
Entry == [at |-> now, turn |-> turn + 1]

\* A bug to be caught: move_to_end for one table only.
KnownEntryInPlace(f) == IF IsNew(f) THEN Entry ELSE known[f]

KnownEntry(f) == IF IsNew(f) THEN Entry ELSE [known[f] EXCEPT !.turn = turn + 1]

(***************************************************************************)
(* check(f): the three limits in their order, or the admission.            *)
(***************************************************************************)
DenyWindow(f) ==
    /\ InWindow(f)
    /\ Roll /\ newToday' = NewSoFar /\ dropped' = DroppedSoFar
    /\ UNCHANGED <<clocks, tables, bucket, updated, turn, last, newOn, mark>>

DenyBudget(f) ==
    /\ ~ InWindow(f)
    /\ OverBudget(f)
    /\ DroppedSoFar < MaxDropped
    /\ Roll /\ newToday' = NewSoFar /\ dropped' = DroppedSoFar + 1
    /\ UNCHANGED <<clocks, tables, bucket, updated, turn, last, newOn, mark>>

\* A bug to be caught: the refill is kept but not the moment it was made.
DenyRateRefillingTwice(f) ==
    /\ ~ InWindow(f) /\ ~ OverBudget(f) /\ Refilled < Token
    /\ bucket' = Refilled
    /\ Roll /\ newToday' = NewSoFar /\ dropped' = DroppedSoFar
    /\ UNCHANGED <<clocks, tables, updated, turn, last, newOn, mark>>

DenyRate(f) ==
    /\ ~ InWindow(f)
    /\ ~ OverBudget(f)
    /\ Refilled < Token
    /\ bucket' = Refilled /\ updated' = now
    /\ Roll /\ newToday' = NewSoFar /\ dropped' = DroppedSoFar
    /\ UNCHANGED <<clocks, tables, turn, last, newOn, mark>>

Admit(f) ==
    /\ ~ InWindow(f)
    /\ ~ OverBudget(f)
    /\ Refilled >= Token
    /\ bucket' = Refilled - Token /\ updated' = now
    /\ Roll /\ dropped' = DroppedSoFar
    /\ newToday' = IF IsNew(f) THEN NewSoFar + 1 ELSE NewSoFar
    /\ lastSeen' = Bounded(Put(lastSeen, f, Entry))
    /\ known' = Bounded(Put(known, f, KnownEntry(f)))
    /\ turn' = turn + 1
    /\ last' = [last EXCEPT ![f] = Entry]
    /\ newOn' = IF IsNew(f) THEN [newOn EXCEPT ![wallDay] = @ + 1] ELSE newOn
    /\ UNCHANGED <<clocks, mark>>

Check(f) == DenyWindow(f) \/ DenyBudget(f) \/ DenyRate(f) \/ Admit(f)

(***************************************************************************)
(* The clocks, and the observer that may start counting at any moment.     *)
(***************************************************************************)
Tick ==
    /\ now < MaxTime
    /\ now' = now + 1
    /\ UNCHANGED <<wallDay, tables, bucket, updated, newToday, dropped, day,
                   turn, last, newOn, mark>>

SetWallClock(d) ==
    /\ d > wallDay \/ SetBack
    /\ wallDay' = d
    /\ UNCHANGED <<now, tables, bucket, updated, newToday, dropped, day,
                   turn, last, newOn, mark>>

Observe ==
    /\ mark' = [at |-> now, turn |-> turn]
    /\ UNCHANGED <<clocks, tables, bucket, updated, newToday, dropped, day,
                   turn, last, newOn>>

Next ==
    \/ \E f \in Fp : Check(f)
    \/ Tick
    \/ \E d \in Day : SetWallClock(d)
    \/ Observe

Spec == Init /\ [][Next]_vars

(***************************************************************************)
(* Properties.                                                             *)
(***************************************************************************)
IsTable(table) == DOMAIN table \subseteq Fp /\ table \in [DOMAIN table -> Event]

TypeOK ==
    /\ now \in 0..MaxTime
    /\ {wallDay, day} \subseteq Day
    /\ IsTable(lastSeen) /\ IsTable(known)
    /\ bucket \in 0..Capacity
    /\ updated \in 0..now
    /\ {newToday, dropped, turn} \subseteq Nat
    /\ last \in [Fp -> Event]
    /\ newOn \in [Day -> Nat]
    /\ mark \in Event
    /\ mark.at <= now /\ mark.turn <= turn

\* The two tables are kept by separate code but hold the same fingerprints in
\* the same order, so an error forgotten by one is forgotten by the other and
\* neither outgrows its limit.
TablesAgree ==
    /\ DOMAIN lastSeen = DOMAIN known
    /\ \A f \in Tracked : lastSeen[f].turn = known[f].turn
    /\ Cardinality(Tracked) <= MaxTracked

\* .env.example:85, "At most one filing per unique error per window, per
\* replica": two admissions of one fingerprint are a window apart.  The table
\* that knows this forgets its oldest entries, so it has to be large enough.
TablesLargeEnough == MaxTracked * Token > Capacity + Window * MaxPerMinute

OnceAWindow ==
    [][\A f \in Fp :
         (last[f] # Never /\ last'[f] # last[f]) => now - last[f].at >= Window]_vars

\* What the token bucket promises of the "global ceiling" (config.py:77): from any
\* moment on, at most a full bucket plus what has flowed back since is admitted;
\* in the worst minute that is twice max_dispatches_per_minute.
AdmissionsBounded ==
    (turn - mark.turn) * Token + Refilled <=
        Capacity + (now - mark.at) * MaxPerMinute

\* suppress.py:13, the "daily ceiling on distinct errors": on no day are more
\* new fingerprints admitted than the budget.
DailyCeiling == \A d \in Day : newOn[d] <= MaxNewPerDay

(***************************************************************************)
(* suppress.py:1, "keep a crash loop from flooding GitHub": seen from      *)
(* outside the object is module Throttle, as long as its tables are large  *)
(* enough and nobody sets the wall clock back.  Its credit is the bucket   *)
(* filled up to now, and a refusal changes nothing there.                  *)
(***************************************************************************)
Limits == INSTANCE Throttle WITH
    Rate <- MaxPerMinute,
    PerDay <- MaxNewPerDay,
    admitted <- [f \in Fp |-> IF last[f] = Never THEN -1 ELSE last[f].at],
    credit <- Refilled,
    charged <- NewSoFar

\* suppress.py:10-13: each of the three limits holds whatever the other two
\* and the eviction of old entries do meanwhile, and a refused call is free.
ImplementsThrottle == Limits!Spec
=============================================================================
