------------------------------ MODULE ErrorLedger ------------------------------
(***************************************************************************)
(* What the service promises of an error it has answered 200 for and can   *)
(* tell from others (it has a fingerprint), with nothing of queues and     *)
(* workers: it is settled (suppressed, unrouted, filed or failed) once,    *)
(* sooner or later, unless the process ends first, and then the ledger is  *)
(* gone with it.                                                           *)
(***************************************************************************)
EXTENDS Integers

VARIABLES
    up,             \* there is a process
    accepted,       \* errors it has accepted
    pending,        \* those it has not settled
    settled,        \* those it has
    missed          \* errors all processes so far have ended with

vars == <<up, accepted, pending, settled, missed>>

Init ==
    /\ up = FALSE
    /\ accepted = 0 /\ pending = 0 /\ settled = 0 /\ missed = 0

Start ==
    /\ ~ up
    /\ up' = TRUE
    /\ UNCHANGED <<accepted, pending, settled, missed>>

\* One export, or what fits of it.
Accept ==
    /\ up
    /\ accepted' > accepted
    /\ pending' - pending = accepted' - accepted
    /\ UNCHANGED <<up, settled, missed>>

Settle ==
    /\ up
    /\ pending > 0
    /\ pending' = pending - 1
    /\ settled' = settled + 1
    /\ UNCHANGED <<up, accepted, missed>>

Exit ==
    /\ up
    /\ up' = FALSE
    /\ missed' = missed + pending
    /\ accepted' = 0 /\ pending' = 0 /\ settled' = 0

Next == Start \/ Accept \/ Settle \/ Exit

\* Weak fairness of Settle, its enabling condition written out.
KeepsSettling == []<>(~ (up /\ pending > 0)) \/ []<><<Settle>>_vars

Safety == Init /\ [][Next]_vars

Spec == Safety /\ KeepsSettling
=============================================================================
