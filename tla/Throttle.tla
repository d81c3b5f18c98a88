------------------------------- MODULE Throttle -------------------------------
(***************************************************************************)
(* What suppress.py promises of its three limits (its module docstring),   *)
(* with nothing of how it keeps them: no tables that forget, no moment the *)
(* bucket was last filled.  Credit flows in as time passes, an admission   *)
(* costs a token of it, waits for the error's own window and, when the     *)
(* error passes for new, is charged to the day.                            *)
(***************************************************************************)
EXTENDS Integers

CONSTANTS
    Fp,             \* fingerprints
    Window,         \* ticks between two admissions of one of them
    Rate,           \* credit a tick brings
    Token,          \* credit an admission costs
    Capacity,       \* credit that can be saved up
    PerDay,         \* new errors a day
    MaxTime         \* bound: ticks

ASSUME ThrottleConstants ==
    /\ {Window, PerDay, MaxTime} \subseteq Nat
    /\ {Rate, Token, Capacity} \subseteq Nat \ {0}

VARIABLES
    now,            \* ticks
    admitted,       \* admitted[f]: when f was last admitted, or NotYet
    credit,
    charged         \* new errors admitted today

vars == <<now, admitted, credit, charged>>

NotYet == -1

Init ==
    /\ now = 0
    /\ admitted = [f \in Fp |-> NotYet]
    /\ credit = Capacity
    /\ charged = 0

Due(f) == admitted[f] = NotYet \/ now - admitted[f] >= Window

Tick ==
    /\ now < MaxTime
    /\ now' = now + 1
    /\ credit' = IF credit + Rate < Capacity THEN credit + Rate ELSE Capacity
    /\ UNCHANGED <<admitted, charged>>

Spend(f) ==
    /\ Due(f)
    /\ credit >= Token
    /\ credit' = credit - Token
    /\ admitted' = [admitted EXCEPT ![f] = now]
    /\ UNCHANGED now

\* An error never admitted before is new; one that was may pass for new again.
AdmitNew(f) ==
    /\ Spend(f)
    /\ charged < PerDay
    /\ charged' = charged + 1

AdmitKnown(f) ==
    /\ admitted[f] # NotYet
    /\ Spend(f)
    /\ UNCHANGED charged

Admit(f) == AdmitNew(f) \/ AdmitKnown(f)

NewDay ==
    /\ charged' = 0
    /\ UNCHANGED <<now, admitted, credit>>

Next ==
    \/ Tick
    \/ NewDay
    \/ \E f \in Fp : Admit(f)

Spec == Init /\ [][Next]_vars
=============================================================================
