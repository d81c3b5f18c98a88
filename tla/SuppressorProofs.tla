-------------------------- MODULE SuppressorProofs --------------------------
(***************************************************************************)
(* Theorems about Suppressor, for every value of its constants.            *)
(*                                                                         *)
(* The argument.  Admissions are numbered, so "how many admissions since   *)
(* e" is a difference of turns.  The token bucket bounds that difference   *)
(* by the time since e (AdmittedSince); it does so for every moment e, in  *)
(* particular for the last admission of each fingerprint.  A fingerprint   *)
(* leaves the tables only when MaxTracked others were admitted after it    *)
(* (ForgottenLate), which by the first bound takes longer than a window    *)
(* when the tables are large enough.  So a fingerprint that is not in the  *)
(* tables was last admitted at least a window ago, and one that is in them *)
(* is held back by check() itself.                                         *)
(***************************************************************************)
EXTENDS Suppressor, FiniteSetTheorems, FunctionTheorems, WellFoundedInduction, TLAPS

(***************************************************************************)
(* The inductive invariant.                                                *)
(***************************************************************************)
\* The tokens spent since moment e were in the bucket or have flowed in.
AdmittedSince(e) ==
    (turn - e.turn) * Token + Refilled <= Capacity + (now - e.at) * MaxPerMinute

\* Both tables are finite and show each fingerprint at its last admission.
TablesCurrent ==
    /\ IsFiniteSet(Tracked)
    /\ \A f \in Tracked : lastSeen[f] = last[f] /\ last[f] # Never

\* Distinct fingerprints have distinct turns, none later than now.
HistoryOrdered ==
    /\ \A f \in Fp : last[f].turn <= turn /\ last[f].at <= now
    /\ \A f \in Fp : last[f].turn = 0 => last[f] = Never
    /\ \A f, g \in Fp : (last[f].turn = last[g].turn /\ last[f] # Never) => f = g

\* Whoever is no longer in the tables was overtaken by MaxTracked others.
ForgottenLate ==
    \A f \in Fp \ Tracked : last[f] # Never => turn - last[f].turn >= MaxTracked

IInv ==
    /\ TypeOK
    /\ TablesAgree
    /\ TablesCurrent
    /\ HistoryOrdered
    /\ ForgottenLate
    /\ AdmittedSince(mark)
    /\ \A f \in Fp : AdmittedSince(last[f])

(***************************************************************************)
(* Arithmetic of the bucket.                                               *)
(***************************************************************************)
LEMMA Distributes == \A a, b, m \in Int : (a + b) * m = a * m + b * m
  OBVIOUS

LEMMA ProductMonotone ==
  ASSUME NEW a \in Int, NEW b \in Int, NEW m \in Nat, a <= b
  PROVE  a * m <= b * m
<1>1. \A x, y \in Nat : x * y \in Nat
  OBVIOUS
<1>2. b - a \in Nat /\ (b - a) * m \in Nat
  BY <1>1
<1>3. b * m = a * m + (b - a) * m
  BY Distributes
<1>4. a * m \in Int /\ b * m \in Int
  OBVIOUS
<1>5. QED
  BY <1>2, <1>3, <1>4

LEMMA ConstantTypes ==
  /\ Token \in Nat /\ Token > 0
  /\ MaxPerMinute \in Nat /\ MaxPerMinute > 0
  /\ Capacity \in Nat
  /\ Window \in Nat
  /\ MaxTracked \in Nat /\ MaxTracked > 0
  /\ MaxNewPerDay \in Nat
<1>1. \A x, y \in Nat : x * y \in Nat
  OBVIOUS
<1>2. QED
  BY <1>1, SuppressorConstants DEF Token, Capacity

LEMMA RefilledType == TypeOK => Refilled \in 0..Capacity
<1> SUFFICES ASSUME TypeOK PROVE Refilled \in 0..Capacity
  OBVIOUS
<1>1. now - updated \in Nat
  BY SuppressorConstants DEF TypeOK
<1>2. 0 * MaxPerMinute <= (now - updated) * MaxPerMinute
  BY <1>1, ConstantTypes, ProductMonotone
<1>3. (now - updated) * MaxPerMinute \in Nat
  BY <1>1, <1>2, ConstantTypes
<1>4. QED
  BY <1>3, ConstantTypes DEF TypeOK, Refilled

(***************************************************************************)
(* The tables.                                                             *)
(***************************************************************************)
Distinct(table) ==
    \A f, g \in DOMAIN table : table[f].turn = table[g].turn => f = g

LEMMA PutFacts ==
  ASSUME NEW table, IsTable(table), IsFiniteSet(DOMAIN table),
         NEW f \in Fp, NEW e \in Event
  PROVE  /\ IsTable(Put(table, f, e))
         /\ DOMAIN Put(table, f, e) = DOMAIN table \cup {f}
         /\ Put(table, f, e)[f] = e
         /\ \A g \in DOMAIN table \ {f} : Put(table, f, e)[g] = table[g]
         /\ IsFiniteSet(DOMAIN Put(table, f, e))
         /\ Cardinality(DOMAIN Put(table, f, e)) <= Cardinality(DOMAIN table) + 1
<1>1. DOMAIN Put(table, f, e) = DOMAIN table \cup {f}
  BY DEF Put
<1>2. /\ IsFiniteSet(DOMAIN table \cup {f})
      /\ Cardinality(DOMAIN table \cup {f}) <= Cardinality(DOMAIN table) + 1
  <2>1. Cardinality(DOMAIN table) \in Nat
    BY FS_CardinalityType
  <2>2. QED
    BY <2>1, FS_AddElement
<1>3. QED
  BY <1>1, <1>2 DEF Put, IsTable

LEMMA OldestIsLeast ==
  ASSUME NEW table, IsTable(table), DOMAIN table # {}
  PROVE  /\ Oldest(table) \in DOMAIN table
         /\ \A g \in DOMAIN table : table[Oldest(table)].turn <= table[g].turn
<1> DEFINE turns == {table[g].turn : g \in DOMAIN table}
<1>1. turns \subseteq Nat /\ turns # {}
  BY DEF IsTable, Event
<1> DEFINE below == {ss \in Nat \X Nat : ss[1] < ss[2]}
<1>2. PICK t \in turns : \A u \in turns : <<u, t>> \notin below
  <2>1. IsWellFoundedOn(below, Nat)
    BY NatLessThanWellFounded DEF OpToRel
  <2>2. QED
    <3> HIDE DEF below, turns
    <3>1. QED
      BY <1>1, <2>1, WFMin
<1>3. \A u \in turns : t <= u
  <2> TAKE u \in turns
  <2>1. u \in Nat /\ t \in Nat /\ <<u, t>> \notin below
    BY <1>1, <1>2
  <2>2. ~ (u < t)
    <3> HIDE DEF turns
    <3>1. QED
      BY <2>1
  <2>3. QED
    BY <2>1, <2>2
<1>4. \E f \in DOMAIN table : \A g \in DOMAIN table : table[f].turn <= table[g].turn
  BY <1>3
<1>5. QED
  BY <1>4 DEF Oldest

\* Bounded drops nothing, or the oldest entry of a table that has one entry
\* too many.
LEMMA BoundedFacts ==
  ASSUME NEW table, IsTable(table), IsFiniteSet(DOMAIN table),
         Cardinality(DOMAIN table) <= MaxTracked + 1
  PROVE  /\ IsTable(Bounded(table))
         /\ DOMAIN Bounded(table) \subseteq DOMAIN table
         /\ \A g \in DOMAIN Bounded(table) : Bounded(table)[g] = table[g]
         /\ IsFiniteSet(DOMAIN Bounded(table))
         /\ Cardinality(DOMAIN Bounded(table)) <= MaxTracked
         /\ \A g \in DOMAIN table \ DOMAIN Bounded(table) :
               /\ g = Oldest(table)
               /\ DOMAIN Bounded(table) = DOMAIN table \ {g}
               /\ Cardinality(DOMAIN table \ {g}) = MaxTracked
<1>0. Cardinality(DOMAIN table) \in Nat
  BY FS_CardinalityType
<1>1. CASE Cardinality(DOMAIN table) > MaxTracked
  <2>1. DOMAIN table # {}
    BY <1>1, FS_EmptySet, ConstantTypes
  <2>2. Oldest(table) \in DOMAIN table
    BY <2>1, OldestIsLeast
  <2>3. /\ IsFiniteSet(DOMAIN table \ {Oldest(table)})
        /\ Cardinality(DOMAIN table \ {Oldest(table)}) = Cardinality(DOMAIN table) - 1
    BY <2>2, FS_RemoveElement
  <2>4. Cardinality(DOMAIN table) = MaxTracked + 1
    BY <1>0, <1>1, ConstantTypes
  <2>5. Bounded(table) = [g \in DOMAIN table \ {Oldest(table)} |-> table[g]]
    BY <1>1 DEF Bounded
  <2>6. QED
    BY <2>2, <2>3, <2>4, <2>5, ConstantTypes DEF IsTable
<1>2. CASE ~ (Cardinality(DOMAIN table) > MaxTracked)
  <2>1. Bounded(table) = table
    BY <1>2 DEF Bounded
  <2>2. QED
    BY <1>0, <1>2, <2>1, ConstantTypes
<1>3. QED
  BY <1>1, <1>2

\* Tables with the same fingerprints in the same order lose the same entry.
LEMMA BoundedAgree ==
  ASSUME NEW s, NEW t, IsTable(s), IsTable(t), Distinct(s),
         DOMAIN s = DOMAIN t, \A g \in DOMAIN s : s[g].turn = t[g].turn
  PROVE  DOMAIN Bounded(s) = DOMAIN Bounded(t)
<1>1. CASE DOMAIN s = {}
  BY <1>1 DEF Bounded
<1>2. CASE DOMAIN s # {}
  <2>1. /\ Oldest(s) \in DOMAIN s
        /\ \A g \in DOMAIN s : s[Oldest(s)].turn <= s[g].turn
    BY <1>2, OldestIsLeast
  <2>2. /\ Oldest(t) \in DOMAIN s
        /\ \A g \in DOMAIN s : s[Oldest(t)].turn <= s[g].turn
    BY <1>2, OldestIsLeast
  <2>3. s[Oldest(s)].turn \in Nat /\ s[Oldest(t)].turn \in Nat
    BY <2>1, <2>2 DEF IsTable, Event
  <2>4. Oldest(s) = Oldest(t)
    BY <2>1, <2>2, <2>3 DEF Distinct
  <2>5. QED
    BY <2>4 DEF Bounded
<1>3. QED
  BY <1>1, <1>2

\* An entry with n younger ones is at least n turns old.
LEMMA OvertakenByAll ==
  ASSUME NEW table, IsTable(table), IsFiniteSet(DOMAIN table), Distinct(table),
         NEW f \in DOMAIN table, NEW newest \in Nat,
         \A g \in DOMAIN table : table[f].turn <= table[g].turn,
         \A g \in DOMAIN table : table[g].turn <= newest
  PROVE  newest - table[f].turn >= Cardinality(DOMAIN table \ {f})
<1> DEFINE younger == DOMAIN table \ {f}
           later   == (table[f].turn + 1)..newest
           turnOf  == [g \in younger |-> table[g].turn]
<1>1. \A g \in DOMAIN table : table[g].turn \in Nat
  BY DEF IsTable, Event
<1>2. IsFiniteSet(younger) /\ Cardinality(younger) \in Nat
  BY FS_RemoveElement, FS_CardinalityType
<1>3. /\ IsFiniteSet(later)
      /\ Cardinality(later) = newest - table[f].turn
  <2>1. ASSUME NEW a \in Nat, NEW b \in Nat, a <= b
        PROVE  /\ IsFiniteSet((a + 1)..b)
               /\ Cardinality((a + 1)..b) = b - a
    <3>1. a + 1 \in Int /\ b \in Int
      OBVIOUS
    <3>2. IsFiniteSet((a + 1)..b)
      BY <3>1, FS_Interval
    <3>3. Cardinality((a + 1)..b) = IF a + 1 > b THEN 0 ELSE b - (a + 1) + 1
      BY <3>1, FS_Interval
    <3>4. QED
      BY <2>1, <3>2, <3>3
  <2>2. table[f].turn \in Nat /\ table[f].turn <= newest
    BY <1>1
  <2>3. QED
    BY <2>1, <2>2
<1>4. turnOf \in [younger -> later]
  BY <1>1 DEF Distinct
<1>5. \A g, h \in younger : turnOf[g] = turnOf[h] => g = h
  BY DEF Distinct
<1>6. ~ (Cardinality(later) < Cardinality(younger))
  <2> HIDE DEF younger, later, turnOf
  <2>1. QED
    BY <1>2, <1>3, <1>4, <1>5, FS_PigeonHole
<1>7. QED
  BY <1>1, <1>2, <1>3, <1>6

(***************************************************************************)
(* Type correctness.                                                       *)
(***************************************************************************)
LEMMA BoundedType ==
  ASSUME NEW table, IsTable(table)
  PROVE  IsTable(Bounded(table))
BY DEF Bounded, IsTable

LEMMA PutType ==
  ASSUME NEW table, IsTable(table), NEW f \in Fp, NEW e \in Event
  PROVE  IsTable(Put(table, f, e))
BY DEF Put, IsTable

LEMMA TypeInit == Init => TypeOK
BY ConstantTypes, SuppressorConstants
   DEF Init, TypeOK, IsTable, Event, Never, Capacity

\* check() and the environment keep every variable in its type; in particular
\* the bucket stays between empty and full.
LEMMA TypeStep == TypeOK /\ [Next]_vars => TypeOK'
<1> SUFFICES ASSUME TypeOK, [Next]_vars PROVE TypeOK'
  OBVIOUS
<1> USE SuppressorConstants, ConstantTypes
<1>0. Refilled \in 0..Capacity /\ NewSoFar \in Nat /\ DroppedSoFar \in Nat
  BY RefilledType DEF TypeOK, NewSoFar, DroppedSoFar
<1>1. ASSUME NEW f \in Fp, DenyWindow(f) PROVE TypeOK'
  BY <1>0, <1>1 DEF DenyWindow, TypeOK, Roll, clocks, tables, IsTable, Event
<1>2. ASSUME NEW f \in Fp, DenyBudget(f) PROVE TypeOK'
  BY <1>0, <1>2 DEF DenyBudget, TypeOK, Roll, clocks, tables, IsTable, Event
<1>3. ASSUME NEW f \in Fp, DenyRate(f) PROVE TypeOK'
  BY <1>0, <1>3 DEF DenyRate, TypeOK, Roll, clocks, tables, IsTable, Event
<1>4. ASSUME NEW f \in Fp, Admit(f) PROVE TypeOK'
  <2>1. Entry \in Event
    BY DEF Entry, TypeOK, Event
  <2>2. KnownEntry(f) \in Event
    BY <2>1 DEF KnownEntry, TypeOK, IsTable, IsNew, Event
  <2>3. IsTable(lastSeen')
    <3>1. IsTable(lastSeen)
      BY DEF TypeOK
    <3>2. lastSeen' = Bounded(Put(lastSeen, f, Entry))
      BY <1>4 DEF Admit
    <3>3. QED
      BY <2>1, <3>1, <3>2, PutType, BoundedType
  <2>4. IsTable(known')
    <3>1. IsTable(known)
      BY DEF TypeOK
    <3>2. known' = Bounded(Put(known, f, KnownEntry(f)))
      BY <1>4 DEF Admit
    <3>3. QED
      BY <2>2, <3>1, <3>2, PutType, BoundedType
  <2>5. bucket' \in 0..Capacity /\ updated' \in 0..now'
    BY <1>0, <1>4 DEF Admit, clocks, TypeOK
  <2>6. last' \in [Fp -> Event] /\ turn' \in Nat /\ newToday' \in Nat
    BY <1>0, <1>4, <2>1 DEF Admit, TypeOK
  <2>7. newOn' \in [Day -> Nat]
    <3>1. newOn \in [Day -> Nat]
      BY DEF TypeOK
    <3>2. newOn' = newOn \/ newOn' = [newOn EXCEPT ![wallDay] = @ + 1]
      BY <1>4 DEF Admit
    <3>3. QED
      BY <3>1, <3>2
  <2>8. /\ now' \in 0..MaxTime
        /\ {wallDay', day'} \subseteq Day
        /\ dropped' \in Nat
        /\ mark' \in Event /\ mark'.at <= now' /\ mark'.turn <= turn'
    BY <1>0, <1>4 DEF Admit, TypeOK, Roll, clocks, Event
  <2>9. QED
    BY <2>3, <2>4, <2>5, <2>6, <2>7, <2>8 DEF TypeOK
<1>5. CASE Tick
  BY <1>5 DEF Tick, TypeOK, tables, IsTable, Event
<1>6. ASSUME NEW d \in Day, SetWallClock(d) PROVE TypeOK'
  BY <1>6 DEF SetWallClock, TypeOK, tables, IsTable, Event
<1>7. CASE Observe
  BY <1>7 DEF Observe, TypeOK, clocks, tables, IsTable, Event
<1>8. CASE UNCHANGED vars
  BY <1>8 DEF vars, TypeOK, clocks, tables, IsTable, Event
<1>9. QED
  BY <1>1, <1>2, <1>3, <1>4, <1>5, <1>6, <1>7, <1>8 DEF Next, Check

\* Every variable of the throttle keeps its type: no sequence of calls drives
\* the bucket of suppress.py below empty or above max_per_minute.
THEOREM TypeCorrect == Spec => []TypeOK
<1>1. QED
  BY TypeInit, TypeStep, PTL DEF Spec

(***************************************************************************)
(* The token bound, from any moment on.                                    *)
(***************************************************************************)
\* A clock tick lets at most max_per_minute units flow into the bucket.
LEMMA SinceTick ==
  ASSUME TypeOK, Tick, NEW e \in Event, e.at <= now, AdmittedSince(e)
  PROVE  AdmittedSince(e)'
<1>1. now' = now + 1 /\ bucket' = bucket /\ updated' = updated /\ turn' = turn
  BY DEF Tick
<1>2. now \in Nat /\ updated \in Nat /\ bucket \in Nat /\ turn \in Nat
  BY SuppressorConstants DEF TypeOK
<1>3. e.at \in Nat /\ e.turn \in Nat
  BY DEF Event
<1>4. (now + 1 - updated) * MaxPerMinute = (now - updated) * MaxPerMinute + MaxPerMinute
  <2>1. ((now - updated) + 1) * MaxPerMinute
          = (now - updated) * MaxPerMinute + 1 * MaxPerMinute
    BY <1>2, ConstantTypes, Distributes
  <2>2. QED
    BY <1>2, <2>1, ConstantTypes
<1>5. (now + 1 - e.at) * MaxPerMinute = (now - e.at) * MaxPerMinute + MaxPerMinute
  <2>1. ((now - e.at) + 1) * MaxPerMinute
          = (now - e.at) * MaxPerMinute + 1 * MaxPerMinute
    BY <1>2, <1>3, ConstantTypes, Distributes
  <2>2. QED
    BY <1>2, <1>3, <2>1, ConstantTypes
<1>6. /\ (now - updated) * MaxPerMinute \in Int
      /\ (now - e.at) * MaxPerMinute \in Int
      /\ (turn - e.turn) * Token \in Int
  BY <1>2, <1>3, ConstantTypes
<1>7. Refilled' <= Refilled + MaxPerMinute
  BY <1>1, <1>2, <1>4, <1>6, ConstantTypes DEF Refilled
<1>8. Refilled \in Int /\ Refilled' \in Int
  BY <1>1, <1>2, <1>4, <1>6, ConstantTypes DEF Refilled
<1>9. (turn - e.turn) * Token + Refilled' <= Capacity + (now + 1 - e.at) * MaxPerMinute
  <2>1. (turn - e.turn) * Token + Refilled <= Capacity + (now - e.at) * MaxPerMinute
    BY DEF AdmittedSince
  <2>2. QED
    BY <2>1, <1>5, <1>6, <1>7, <1>8, ConstantTypes
<1>10. QED
  BY <1>1, <1>2, <1>3, <1>6, <1>8, <1>9, ConstantTypes DEF AdmittedSince

\* An admission takes a token out and adds one turn.
LEMMA SinceAdmit ==
  ASSUME TypeOK, NEW f \in Fp, Admit(f), NEW e \in Event, AdmittedSince(e)
  PROVE  AdmittedSince(e)'
<1>1. /\ now' = now /\ turn' = turn + 1
      /\ bucket' = Refilled - Token /\ updated' = now /\ Refilled >= Token
  BY DEF Admit, clocks
<1>2. now \in Nat /\ turn \in Nat /\ Refilled \in 0..Capacity
  BY RefilledType, SuppressorConstants DEF TypeOK
<1>3. e.at \in Nat /\ e.turn \in Nat
  BY DEF Event
<1>4. Refilled' = Refilled - Token
  BY <1>1, <1>2, ConstantTypes DEF Refilled
<1>5. (turn + 1 - e.turn) * Token = (turn - e.turn) * Token + Token
  <2>1. ((turn - e.turn) + 1) * Token = (turn - e.turn) * Token + 1 * Token
    BY <1>2, <1>3, ConstantTypes, Distributes
  <2>2. QED
    BY <1>2, <1>3, <2>1, ConstantTypes
<1>6. (turn - e.turn) * Token \in Int /\ (now - e.at) * MaxPerMinute \in Int
  BY <1>2, <1>3, ConstantTypes
<1>7. (turn + 1 - e.turn) * Token + Refilled' <= Capacity + (now - e.at) * MaxPerMinute
  <2>1. (turn - e.turn) * Token + Refilled <= Capacity + (now - e.at) * MaxPerMinute
    BY DEF AdmittedSince
  <2>2. QED
    BY <2>1, <1>2, <1>4, <1>5, <1>6, ConstantTypes
<1>8. QED
  BY <1>1, <1>2, <1>3, <1>4, <1>6, <1>7, ConstantTypes DEF AdmittedSince

\* No other step admits anything or adds to the bucket.
LEMMA SinceOther ==
  ASSUME TypeOK, NEW e, AdmittedSince(e),
         now' = now, turn' = turn,
         \/ UNCHANGED <<bucket, updated>>
         \/ bucket' = Refilled /\ updated' = now
  PROVE  AdmittedSince(e)'
<1>1. Refilled' = Refilled
  <2>1. now \in Nat /\ Refilled \in 0..Capacity
    BY RefilledType, SuppressorConstants DEF TypeOK
  <2>2. QED
    BY <2>1, ConstantTypes DEF Refilled
<1>2. QED
  BY <1>1 DEF AdmittedSince

\* Where the count begins, the bucket holds at most its capacity.
LEMMA SinceNow ==
  ASSUME TypeOK
  PROVE  AdmittedSince([at |-> now, turn |-> turn])
<1>1. now \in Nat /\ turn \in Nat /\ Refilled \in 0..Capacity
  BY RefilledType, SuppressorConstants DEF TypeOK
<1>2. QED
  BY <1>1, ConstantTypes DEF AdmittedSince

LEMMA SinceStep ==
  ASSUME TypeOK, [Next]_vars, NEW e \in Event, e.at <= now, AdmittedSince(e)
  PROVE  AdmittedSince(e)'
<1>1. ASSUME NEW f \in Fp, Check(f) PROVE AdmittedSince(e)'
  <2>1. CASE Admit(f)
    BY <2>1, SinceAdmit
  <2>2. CASE DenyWindow(f) \/ DenyBudget(f) \/ DenyRate(f)
    <3>1. /\ now' = now /\ turn' = turn
          /\ \/ UNCHANGED <<bucket, updated>>
             \/ bucket' = Refilled /\ updated' = now
      BY <2>2 DEF DenyWindow, DenyBudget, DenyRate, clocks
    <3>2. QED
      BY <3>1, SinceOther
  <2>3. QED
    BY <1>1, <2>1, <2>2 DEF Check
<1>2. CASE Tick
  BY <1>2, SinceTick
<1>3. CASE Observe \/ UNCHANGED vars \/ \E d \in Day : SetWallClock(d)
  <2>1. now' = now /\ turn' = turn /\ UNCHANGED <<bucket, updated>>
    BY <1>3 DEF Observe, SetWallClock, vars, clocks
  <2>2. QED
    BY <2>1, SinceOther
<1>4. QED
  BY <1>1, <1>2, <1>3 DEF Next

(***************************************************************************)
(* The tables and the history.                                             *)
(***************************************************************************)
\* Refusals and the clocks touch neither the tables nor the history.
LEMMA TablesOther ==
  ASSUME TypeOK, TablesAgree, TablesCurrent, HistoryOrdered, ForgottenLate,
         UNCHANGED <<tables, turn, last>>, now' \in Nat, now <= now'
  PROVE  TablesAgree' /\ TablesCurrent' /\ HistoryOrdered' /\ ForgottenLate'
<1>1. UNCHANGED <<lastSeen, known, turn, last>>
  BY DEF tables
<1>2. now \in Nat /\ \A f \in Fp : last[f].at \in Nat
  BY SuppressorConstants DEF TypeOK, Event
<1>3. TablesAgree' /\ TablesCurrent' /\ ForgottenLate'
  BY <1>1 DEF TablesAgree, TablesCurrent, ForgottenLate, Tracked
<1>4. HistoryOrdered'
  BY <1>1, <1>2 DEF HistoryOrdered
<1>5. QED
  BY <1>3, <1>4

LEMMA TablesAdmit ==
  ASSUME TypeOK, TablesAgree, TablesCurrent, HistoryOrdered, ForgottenLate,
         NEW f \in Fp, Admit(f)
  PROVE  TablesAgree' /\ TablesCurrent' /\ HistoryOrdered' /\ ForgottenLate'
<1> DEFINE again == KnownEntry(f)
           seen  == Put(lastSeen, f, Entry)
           knew  == Put(known, f, again)
<1>1. /\ lastSeen' = Bounded(seen) /\ known' = Bounded(knew)
      /\ turn' = turn + 1 /\ now' = now
      /\ last' = [last EXCEPT ![f] = Entry]
  BY DEF Admit, clocks
<1>2. /\ now \in Nat /\ turn \in Nat /\ last \in [Fp -> Event]
      /\ IsTable(lastSeen) /\ IsTable(known) /\ Tracked \subseteq Fp
  BY SuppressorConstants DEF TypeOK, IsTable, Tracked
<1>3. /\ Entry \in Event /\ Entry # Never
      /\ Entry.at = now /\ Entry.turn = turn + 1
      /\ again \in Event /\ again.turn = turn + 1
  BY <1>2 DEF Entry, KnownEntry, Event, Never, IsNew, IsTable
<1>4. /\ IsFiniteSet(Tracked) /\ Cardinality(Tracked) \in Nat
      /\ Cardinality(Tracked) <= MaxTracked
  BY FS_CardinalityType DEF TablesCurrent, TablesAgree
<1>5. /\ IsTable(seen) /\ DOMAIN seen = Tracked \cup {f} /\ seen[f] = Entry
      /\ \A g \in Tracked \ {f} : seen[g] = lastSeen[g]
      /\ IsFiniteSet(DOMAIN seen)
      /\ Cardinality(DOMAIN seen) <= Cardinality(Tracked) + 1
  <2>1. DOMAIN lastSeen = Tracked /\ IsFiniteSet(DOMAIN lastSeen)
    BY <1>4 DEF Tracked
  <2>2. ASSUME NEW e \in Event
        PROVE  /\ IsTable(Put(lastSeen, f, e))
               /\ DOMAIN Put(lastSeen, f, e) = DOMAIN lastSeen \cup {f}
               /\ Put(lastSeen, f, e)[f] = e
               /\ \A g \in DOMAIN lastSeen \ {f} : Put(lastSeen, f, e)[g] = lastSeen[g]
               /\ IsFiniteSet(DOMAIN Put(lastSeen, f, e))
               /\ Cardinality(DOMAIN Put(lastSeen, f, e)) <= Cardinality(DOMAIN lastSeen) + 1
    BY <1>2, <2>1, PutFacts
  <2>3. QED
    BY <1>3, <2>1, <2>2
<1>6. /\ IsTable(knew) /\ DOMAIN knew = Tracked \cup {f} /\ knew[f] = again
      /\ \A g \in Tracked \ {f} : knew[g] = known[g]
  <2>1. DOMAIN known = Tracked /\ IsFiniteSet(DOMAIN known)
    BY <1>4 DEF TablesAgree, Tracked
  <2>2. ASSUME NEW e \in Event
        PROVE  /\ IsTable(Put(known, f, e))
               /\ DOMAIN Put(known, f, e) = DOMAIN known \cup {f}
               /\ Put(known, f, e)[f] = e
               /\ \A g \in DOMAIN known \ {f} : Put(known, f, e)[g] = known[g]
               /\ IsFiniteSet(DOMAIN Put(known, f, e))
               /\ Cardinality(DOMAIN Put(known, f, e)) <= Cardinality(DOMAIN known) + 1
    BY <1>2, <2>1, PutFacts
  <2> HIDE DEF again
  <2>3. QED
    BY <1>3, <2>1, <2>2
<1>7. Cardinality(DOMAIN seen) <= MaxTracked + 1
  BY <1>4, <1>5, FS_CardinalityType, ConstantTypes
<1> HIDE DEF seen, knew, again
<1>8. /\ \A g \in DOMAIN seen : seen[g] = last'[g] /\ last'[g] # Never
      /\ \A g \in DOMAIN seen : seen[g].turn <= turn'
  <2>1. \A g \in Tracked : lastSeen[g] = last[g] /\ last[g] # Never
    BY DEF TablesCurrent
  <2>2. \A g \in Fp : last[g].turn \in Nat /\ last[g].turn <= turn
    BY <1>2 DEF HistoryOrdered, Event
  <2>3. QED
    BY <1>1, <1>2, <1>3, <1>5, <2>1, <2>2
<1>9. HistoryOrdered'
  <2>1. ASSUME NEW g \in Fp
        PROVE  /\ last[g].turn \in Nat /\ last[g].turn <= turn
               /\ last[g].at \in Nat /\ last[g].at <= now
               /\ last[g].turn = 0 => last[g] = Never
               /\ g # f => last'[g] = last[g]
               /\ last'[f] = Entry
    BY <1>1, <1>2 DEF HistoryOrdered, Event
  <2>2. \A g \in Fp : last'[g].turn <= turn' /\ last'[g].at <= now'
    BY <1>1, <1>2, <1>3, <2>1
  <2>3. \A g \in Fp : last'[g].turn = 0 => last'[g] = Never
    BY <1>2, <1>3, <2>1
  <2>4. \A g, h \in Fp : (last'[g].turn = last'[h].turn /\ last'[g] # Never) => g = h
    BY <1>2, <1>3, <2>1 DEF HistoryOrdered
  <2>5. QED
    BY <2>2, <2>3, <2>4 DEF HistoryOrdered
<1>10. Distinct(seen)
  <2>1. DOMAIN seen \subseteq Fp
    BY <1>2, <1>5
  <2>2. QED
    BY <1>8, <1>9, <2>1 DEF Distinct, HistoryOrdered
<1>11. DOMAIN seen = DOMAIN knew /\ \A g \in DOMAIN seen : seen[g].turn = knew[g].turn
  BY <1>3, <1>5, <1>6 DEF TablesAgree
<1>12. /\ DOMAIN Bounded(seen) \subseteq DOMAIN seen
       /\ \A g \in DOMAIN Bounded(seen) : Bounded(seen)[g] = seen[g]
       /\ IsFiniteSet(DOMAIN Bounded(seen))
       /\ Cardinality(DOMAIN Bounded(seen)) <= MaxTracked
       /\ \A g \in DOMAIN seen \ DOMAIN Bounded(seen) :
             g = Oldest(seen) /\ Cardinality(DOMAIN seen \ {g}) = MaxTracked
  BY <1>5, <1>7, BoundedFacts
<1>13. \A g \in DOMAIN Bounded(knew) : Bounded(knew)[g] = knew[g]
  BY <1>5, <1>6, <1>7, BoundedFacts
<1>14. DOMAIN Bounded(seen) = DOMAIN Bounded(knew)
  BY <1>5, <1>6, <1>10, <1>11, BoundedAgree
<1>15. TablesAgree'
  BY <1>1, <1>11, <1>12, <1>13, <1>14 DEF TablesAgree, Tracked
<1>16. TablesCurrent'
  BY <1>1, <1>8, <1>12 DEF TablesCurrent, Tracked
<1>17. ForgottenLate'
  <2> SUFFICES ASSUME NEW g \in Fp, g \notin DOMAIN Bounded(seen), last'[g] # Never
               PROVE  turn' - last'[g].turn >= MaxTracked
    BY <1>1 DEF ForgottenLate, Tracked
  <2>1. CASE g \in DOMAIN seen
    <3>1. g = Oldest(seen) /\ Cardinality(DOMAIN seen \ {g}) = MaxTracked
      BY <1>12, <2>1
    <3>2. \A h \in DOMAIN seen : seen[g].turn <= seen[h].turn
      BY <1>5, <2>1, <3>1, OldestIsLeast
    <3>3. turn' \in Nat
      BY <1>1, <1>2
    <3>4. turn' - seen[g].turn >= Cardinality(DOMAIN seen \ {g})
      BY <1>5, <1>8, <1>10, <2>1, <3>2, <3>3, OvertakenByAll
    <3>5. QED
      BY <1>8, <2>1, <3>1, <3>4
  <2>2. CASE g \notin DOMAIN seen
    <3>1. g \in Fp \ Tracked /\ last'[g] = last[g]
      BY <1>1, <1>2, <1>5, <2>2
    <3>2. turn - last[g].turn >= MaxTracked
      BY <3>1 DEF ForgottenLate
    <3>3. last[g].turn \in Nat
      BY <1>2 DEF Event
    <3>4. QED
      BY <1>1, <1>2, <3>1, <3>2, <3>3, ConstantTypes
  <2>3. QED
    BY <2>1, <2>2
<1>18. QED
  BY <1>9, <1>15, <1>16, <1>17

(***************************************************************************)
(* The invariant, and the promises that follow from it.                    *)
(***************************************************************************)
LEMMA InvInit == Init => IInv
<1> SUFFICES ASSUME Init PROVE IInv
  OBVIOUS
<1>1. TypeOK
  BY TypeInit
<1>2. Tracked = {} /\ DOMAIN known = {}
  BY DEF Init, Tracked
<1>3. TablesAgree /\ TablesCurrent
  <2>1. IsFiniteSet(Tracked) /\ Cardinality(Tracked) = 0
    BY <1>2, FS_EmptySet
  <2>2. TablesAgree
    BY <1>2, <2>1, ConstantTypes DEF TablesAgree, Tracked
  <2>3. TablesCurrent
    BY <1>2, <2>1 DEF TablesCurrent
  <2>4. QED
    BY <2>2, <2>3
<1>4. HistoryOrdered /\ ForgottenLate
  BY DEF Init, HistoryOrdered, ForgottenLate, Never
<1>5. AdmittedSince(Never)
  BY SinceNow, <1>1 DEF Init, Never
<1>6. mark = Never /\ \A f \in Fp : last[f] = Never
  BY DEF Init
<1>7. QED
  BY <1>1, <1>3, <1>4, <1>5, <1>6 DEF IInv

LEMMA InvStep == IInv /\ [Next]_vars => IInv'
<1> SUFFICES ASSUME IInv, [Next]_vars PROVE IInv'
  OBVIOUS
<1>1. TypeOK /\ TypeOK'
  BY TypeStep DEF IInv
<1>2. TablesAgree' /\ TablesCurrent' /\ HistoryOrdered' /\ ForgottenLate'
  <2>1. CASE \E f \in Fp : Admit(f)
    BY <1>1, <2>1, TablesAdmit DEF IInv
  <2>2. CASE ~ (\E f \in Fp : Admit(f))
    <3>1. UNCHANGED <<tables, turn, last>>
      BY <2>2 DEF Next, Check, DenyWindow, DenyBudget, DenyRate, Tick,
                  SetWallClock, Observe, vars, tables
    <3>2. now' = now \/ now' = now + 1
      BY <2>2 DEF Next, Check, DenyWindow, DenyBudget, DenyRate, Tick,
                  SetWallClock, Observe, vars, clocks
    <3>3. now \in Nat
      BY <1>1, SuppressorConstants DEF TypeOK
    <3>4. QED
      BY <1>1, <3>1, <3>2, <3>3, TablesOther DEF IInv
  <2>3. QED
    BY <2>1, <2>2
<1>3. AdmittedSince(mark)'
  <2>1. CASE mark' = mark
    <3>1. mark \in Event /\ mark.at <= now /\ AdmittedSince(mark)
      BY <1>1 DEF IInv, TypeOK
    <3>2. PICK e \in Event : e = mark
      BY <3>1
    <3>3. AdmittedSince(e)'
      BY <1>1, <3>1, <3>2, SinceStep
    <3>4. QED
      BY <2>1, <3>2, <3>3 DEF AdmittedSince
  <2>2. CASE mark' # mark
    <3>1. mark' = [at |-> now', turn |-> turn']
      BY <2>2 DEF Next, Check, DenyWindow, DenyBudget, DenyRate, Admit, Tick,
                  SetWallClock, Observe, vars, clocks
    <3>2. AdmittedSince([at |-> now, turn |-> turn])'
      BY <1>1, SinceNow, PTL
    <3>3. QED
      BY <3>1, <3>2 DEF AdmittedSince
  <2>3. QED
    BY <2>1, <2>2
<1>4. ASSUME NEW f \in Fp PROVE AdmittedSince(last[f])'
  <2>1. CASE last'[f] = last[f]
    <3>1. last[f] \in Event /\ last[f].at <= now /\ AdmittedSince(last[f])
      BY <1>1 DEF IInv, TypeOK, HistoryOrdered
    <3>2. PICK e \in Event : e = last[f]
      BY <3>1
    <3>3. AdmittedSince(e)'
      BY <1>1, <3>1, <3>2, SinceStep
    <3>4. QED
      BY <2>1, <3>2, <3>3 DEF AdmittedSince
  <2>2. CASE last'[f] # last[f]
    <3>1. last'[f] = [at |-> now', turn |-> turn']
      BY <1>1, <2>2 DEF Next, Check, DenyWindow, DenyBudget, DenyRate, Admit, Tick,
                        SetWallClock, Observe, vars, clocks, TypeOK, Entry
    <3>2. AdmittedSince([at |-> now, turn |-> turn])'
      BY <1>1, SinceNow, PTL
    <3>3. QED
      BY <3>1, <3>2 DEF AdmittedSince
  <2>3. QED
    BY <2>1, <2>2
<1>5. QED
  BY <1>1, <1>2, <1>3, <1>4 DEF IInv

\* The inductive invariant holds throughout: every sequence of calls to
\* check() keeps tables, bucket and history of suppress.py in step.
THEOREM Invariance == Spec => []IInv
<1>1. QED
  BY InvInit, InvStep, PTL DEF Spec

\* _last_seen and _known always hold the same fingerprints in the same order,
\* at most MAX_TRACKED_FINGERPRINTS of them.
THEOREM TablesAlwaysAgree == Spec => []TablesAgree
<1>1. IInv => TablesAgree
  BY DEF IInv
<1>2. QED
  BY <1>1, Invariance, PTL

\* From any moment on, _refill and check() admit at most a full bucket plus
\* what has flowed back since.
THEOREM AdmissionsAlwaysBounded == Spec => []AdmissionsBounded
<1>1. IInv => AdmissionsBounded
  BY DEF IInv, AdmittedSince, AdmissionsBounded
<1>2. QED
  BY <1>1, Invariance, PTL

(***************************************************************************)
(* Once a window.                                                          *)
(***************************************************************************)
\* A fingerprint the tables have forgotten was admitted a window ago or more:
\* MaxTracked admissions take that long.
LEMMA ForgottenIsOld ==
  ASSUME TablesLargeEnough, IInv, NEW f \in Fp, f \notin Tracked, last[f] # Never
  PROVE  now - last[f].at >= Window
<1> DEFINE turns == turn - last[f].turn
           age   == now - last[f].at
<1>1. /\ now \in Nat /\ turn \in Nat /\ Refilled \in 0..Capacity
      /\ last[f].at \in Nat /\ last[f].turn \in Nat
  BY RefilledType, SuppressorConstants DEF IInv, TypeOK, Event
<1>2. turns \in Int /\ age \in Int /\ turns >= MaxTracked
  BY <1>1 DEF IInv, ForgottenLate
<1>3. turns * Token + Refilled <= Capacity + age * MaxPerMinute
  BY DEF IInv, AdmittedSince
<1> HIDE DEF turns, age
<1>4. MaxTracked * Token <= turns * Token
  BY <1>2, ConstantTypes, ProductMonotone
<1>5. /\ MaxTracked * Token \in Int /\ turns * Token \in Int
      /\ age * MaxPerMinute \in Int /\ Window * MaxPerMinute \in Int
  BY <1>2, ConstantTypes
<1>6. MaxTracked * Token > Capacity + Window * MaxPerMinute
  BY DEF TablesLargeEnough
<1>7. age * MaxPerMinute > Window * MaxPerMinute
  BY <1>1, <1>3, <1>4, <1>5, <1>6, ConstantTypes
<1>8. ~ (age <= Window)
  BY <1>2, <1>5, <1>7, ConstantTypes, ProductMonotone
<1>9. age >= Window
  BY <1>2, <1>8, ConstantTypes
<1>10. QED
  BY <1>9 DEF age

\* .env.example:85: no two admissions of a fingerprint are closer than a
\* window, if MAX_TRACKED_FINGERPRINTS exceeds what the bucket can admit in one.
THEOREM WindowHolds ==
  ASSUME TablesLargeEnough
  PROVE  Spec => OnceAWindow
<1>1. ASSUME IInv, Next
      PROVE  \A f \in Fp :
               (last[f] # Never /\ last'[f] # last[f]) => now - last[f].at >= Window
  <2> SUFFICES ASSUME NEW f \in Fp, last[f] # Never, last'[f] # last[f]
               PROVE  now - last[f].at >= Window
    OBVIOUS
  <2>1. last \in [Fp -> Event]
    BY <1>1 DEF IInv, TypeOK
  <2>2. Admit(f)
    BY <1>1, <2>1 DEF Next, Check, DenyWindow, DenyBudget, DenyRate, Admit, Tick,
                      SetWallClock, Observe
  <2>3. CASE f \in Tracked
    <3>1. ~ (now - lastSeen[f].at < Window)
      BY <2>2, <2>3 DEF Admit, InWindow
    <3>2. lastSeen[f] = last[f]
      BY <1>1, <2>3 DEF IInv, TablesCurrent
    <3>3. now \in Int /\ last[f].at \in Int /\ Window \in Int
      BY <1>1, <2>1, ConstantTypes DEF IInv, TypeOK, Event
    <3>4. QED
      BY <3>1, <3>2, <3>3
  <2>4. CASE f \notin Tracked
    BY <1>1, <2>4, ForgottenIsOld
  <2>5. QED
    BY <2>3, <2>4
<1>2. IInv /\ [Next]_vars
        => [\A f \in Fp :
              (last[f] # Never /\ last'[f] # last[f]) => now - last[f].at >= Window]_vars
  BY <1>1
<1>3. QED
  BY <1>2, Invariance, PTL DEF Spec, OnceAWindow

(***************************************************************************)
(* The daily budget.                                                       *)
(***************************************************************************)
\* While the wall clock is never set back, _new_today counts the new errors
\* of _day, later days have none yet, and earlier ones stay as they were.
DayInv ==
    /\ TypeOK
    /\ day <= wallDay
    /\ newOn[day] = newToday
    /\ \A d \in Day : d > day => newOn[d] = 0
    /\ DailyCeiling

LEMMA DayStep ==
  ASSUME ~ SetBack
  PROVE  DayInv /\ [Next]_vars => DayInv'
<1> SUFFICES ASSUME DayInv, [Next]_vars PROVE DayInv'
  OBVIOUS
<1>1. TypeOK'
  BY TypeStep DEF DayInv
<1>2. /\ day \in Nat /\ wallDay \in Nat /\ day \in Day /\ wallDay \in Day
      /\ day <= wallDay
      /\ Day \subseteq Nat /\ newOn \in [Day -> Nat] /\ newToday \in Nat
      /\ MaxNewPerDay \in Nat
      /\ NewSoFar = newOn[wallDay]
  <2>1. /\ Day \subseteq Nat /\ newOn \in [Day -> Nat] /\ newToday \in Nat
        /\ day \in Day /\ wallDay \in Day /\ day <= wallDay
    BY SuppressorConstants DEF DayInv, TypeOK
  <2>2. MaxNewPerDay \in Nat
    BY ConstantTypes
  <2>3. day = wallDay \/ wallDay > day
    BY <2>1
  <2>4. NewSoFar = newOn[wallDay]
    BY <2>1, <2>3 DEF DayInv, NewSoFar
  <2>5. QED
    BY <2>1, <2>2, <2>4
<1>3. ASSUME NEW f \in Fp, Check(f) PROVE DayInv'
  <2>1. day' = wallDay /\ wallDay' = wallDay
    BY <1>3 DEF Check, DenyWindow, DenyBudget, DenyRate, Admit, Roll, clocks
  <2>2. \A d \in Day : d > wallDay => newOn[d] = 0
    BY <1>2 DEF DayInv
  <2>3. CASE UNCHANGED newOn /\ newToday' = NewSoFar
    BY <1>1, <1>2, <2>1, <2>2, <2>3 DEF DayInv, DailyCeiling
  <2>4. CASE ~ OverBudget(f) /\ IsNew(f)
             /\ newOn' = [newOn EXCEPT ![wallDay] = @ + 1] /\ newToday' = NewSoFar + 1
    <3>1. NewSoFar < MaxNewPerDay
      BY <1>2, <2>4 DEF OverBudget
    <3>2. QED
      BY <1>1, <1>2, <2>1, <2>2, <2>4, <3>1 DEF DayInv, DailyCeiling
  <2>5. QED
    BY <1>3, <2>3, <2>4 DEF Check, DenyWindow, DenyBudget, DenyRate, Admit
<1>4. CASE UNCHANGED <<wallDay, day, newOn, newToday>>
  BY <1>1, <1>4 DEF DayInv, DailyCeiling
<1>5. ASSUME NEW d \in Day, SetWallClock(d) PROVE DayInv'
  BY <1>1, <1>2, <1>5 DEF SetWallClock, DayInv, DailyCeiling
<1>6. QED
  BY <1>3, <1>4, <1>5 DEF Next, Tick, Observe, vars, clocks

\* suppress.py:13: no day admits more new errors than max_new_per_day, as
\* long as the wall clock is never set back to an earlier day (_roll_day
\* would start that day's count again).
THEOREM DailyBudget ==
  ASSUME ~ SetBack
  PROVE  Spec => []DailyCeiling
<1>1. Init => DayInv
  BY TypeInit, SuppressorConstants DEF Init, DayInv, DailyCeiling, TypeOK
<1>2. DayInv => DailyCeiling
  BY DEF DayInv
<1>3. DayInv /\ [Next]_vars => DayInv'
  BY DayStep
<1>4. QED
  BY <1>1, <1>2, <1>3, PTL DEF Spec

(***************************************************************************)
(* The throttle as its callers see it.                                     *)
(***************************************************************************)
\* A tick fills the credit by max_per_minute units, up to the capacity.
LEMMA CreditTick ==
  ASSUME TypeOK, Tick
  PROVE  Refilled' = IF Refilled + MaxPerMinute < Capacity
                     THEN Refilled + MaxPerMinute ELSE Capacity
<1> DEFINE flowed == (now - updated) * MaxPerMinute
<1>1. now' = now + 1 /\ bucket' = bucket /\ updated' = updated
  BY DEF Tick
<1>2. now \in Nat /\ updated \in Nat /\ now - updated \in Int /\ bucket \in Nat
  BY SuppressorConstants DEF TypeOK
<1>3. (now' - updated') * MaxPerMinute = flowed + MaxPerMinute
  <2>1. ((now - updated) + 1) * MaxPerMinute = flowed + 1 * MaxPerMinute
    BY <1>2, ConstantTypes, Distributes
  <2>2. QED
    BY <1>1, <1>2, <2>1, ConstantTypes
<1>4. flowed \in Int
  BY <1>2, ConstantTypes
<1>5. Refilled = IF bucket + flowed < Capacity THEN bucket + flowed ELSE Capacity
  BY DEF Refilled
<1>6. Refilled' = IF bucket + (flowed + MaxPerMinute) < Capacity
                  THEN bucket + (flowed + MaxPerMinute) ELSE Capacity
  <2>1. Refilled' = IF bucket' + (now' - updated') * MaxPerMinute < Capacity
                    THEN bucket' + (now' - updated') * MaxPerMinute ELSE Capacity
    BY DEF Refilled, Capacity, Token
  <2>2. QED
    BY <1>1, <1>3, <2>1
<1> HIDE DEF flowed
<1>7. QED
  BY <1>2, <1>4, <1>5, <1>6, ConstantTypes

\* Within a moment the credit moves only with the bucket.
LEMMA CreditHeld ==
  ASSUME TypeOK, now' = now
  PROVE  /\ UNCHANGED <<bucket, updated>> => Refilled' = Refilled
         /\ \A b \in 0..Capacity :
              (bucket' = b /\ updated' = now) => Refilled' = b
<1>1. now \in Nat /\ Refilled \in 0..Capacity
  BY RefilledType, SuppressorConstants DEF TypeOK
<1>2. UNCHANGED <<bucket, updated>> => Refilled' = Refilled
  BY DEF Refilled, Capacity, Token
<1>3. ASSUME NEW b \in 0..Capacity, bucket' = b, updated' = now
      PROVE  Refilled' = b
  BY <1>1, <1>3, ConstantTypes DEF Refilled
<1>4. QED
  BY <1>2, <1>3

\* An admission is one that is due, has a token and, if new, room in the day.
LEMMA ThrottleAdmit ==
  ASSUME TablesLargeEnough, IInv, NEW f \in Fp, Admit(f)
  PROVE  Limits!Admit(f)
<1>1. /\ now' = now /\ wallDay' = wallDay /\ day' = wallDay
      /\ bucket' = Refilled - Token /\ updated' = now /\ Refilled >= Token
      /\ newToday' = IF IsNew(f) THEN NewSoFar + 1 ELSE NewSoFar
      /\ last' = [last EXCEPT ![f] = Entry]
  BY DEF Admit, Roll, clocks
<1>2. /\ TypeOK /\ now \in Nat /\ turn \in Nat /\ Refilled \in 0..Capacity
      /\ last \in [Fp -> Event] /\ NewSoFar \in Nat
  BY RefilledType, SuppressorConstants DEF IInv, TypeOK, NewSoFar
<1>3. Refilled' = Refilled - Token
  <2>1. Refilled - Token \in 0..Capacity
    BY <1>1, <1>2, ConstantTypes
  <2>2. QED
    BY <1>1, <1>2, <2>1, CreditHeld
<1>4. NewSoFar' = newToday'
  BY <1>1 DEF NewSoFar
<1>5. last[f] = Never \/ now - last[f].at >= Window
  <2>1. CASE f \in Tracked
    <3>1. ~ (now - lastSeen[f].at < Window) /\ lastSeen[f] = last[f]
      BY <2>1 DEF Admit, InWindow, IInv, TablesCurrent
    <3>2. now \in Int /\ last[f].at \in Int /\ Window \in Int
      BY <1>2, ConstantTypes DEF Event
    <3>3. QED
      BY <3>1, <3>2
  <2>2. CASE f \notin Tracked
    BY <2>2, ForgottenIsOld
  <2>3. QED
    BY <2>1, <2>2
<1> DEFINE shown == [g \in Fp |-> IF last[g] = Never THEN -1 ELSE last[g].at]
<1>6. shown' = [shown EXCEPT ![f] = now]
  <2>1. Entry # Never /\ Entry.at = now
    BY <1>2 DEF Entry, Never
  <2>2. \A g \in Fp : last'[g] = IF g = f THEN Entry ELSE last[g]
    BY <1>1, <1>2
  <2>3. shown' = [g \in Fp |-> IF last'[g] = Never THEN -1 ELSE last'[g].at]
    BY DEF Never
  <2>4. QED
    BY <2>1, <2>2, <2>3
<1>7. Limits!Spend(f)
  <2>1. Limits!Due(f)
    BY <1>5 DEF Limits!Due, Limits!NotYet
  <2>2. QED
    BY <1>1, <1>3, <1>6, <2>1 DEF Limits!Spend, Token
<1>8. CASE IsNew(f)
  <2>1. NewSoFar < MaxNewPerDay
    BY <1>2, <1>8, ConstantTypes DEF Admit, OverBudget
  <2>2. QED
    BY <1>1, <1>4, <1>7, <1>8, <2>1 DEF Limits!Admit, Limits!AdmitNew
<1>9. CASE ~ IsNew(f)
  <2>1. last[f] # Never
    <3>1. f \in Tracked
      BY <1>9 DEF IInv, TablesAgree, IsNew, Tracked
    <3>2. QED
      BY <3>1 DEF IInv, TablesCurrent
  <2>2. shown[f] # -1
    <3>1. shown[f] = last[f].at /\ last[f].at \in Nat
      BY <1>2, <2>1 DEF Event
    <3>2. QED
      BY <3>1
  <2>3. QED
    BY <1>1, <1>4, <1>7, <1>9, <2>2 DEF Limits!Admit, Limits!AdmitKnown, Limits!NotYet
<1>10. QED
  BY <1>8, <1>9

\* Every step is one of the abstract throttle's, or invisible there.
LEMMA ThrottleStep ==
  ASSUME TablesLargeEnough, ~ SetBack, IInv, DayInv, [Next]_vars
  PROVE  [Limits!Next]_(Limits!vars)
<1>1. /\ TypeOK /\ now \in Nat /\ Refilled \in 0..Capacity
      /\ day \in Nat /\ wallDay \in Nat /\ day <= wallDay
  <2>1. TypeOK /\ day <= wallDay
    BY DEF IInv, DayInv
  <2>2. now \in Nat /\ day \in Day /\ wallDay \in Day
    BY <2>1, SuppressorConstants DEF TypeOK
  <2>3. Day \subseteq Nat
    BY SuppressorConstants
  <2>4. QED
    BY <2>1, <2>2, <2>3, RefilledType
<1>2. ASSUME now' = now, last' = last, Refilled' = Refilled, NewSoFar' = NewSoFar
      PROVE  UNCHANGED Limits!vars
  BY <1>2 DEF Limits!vars, Never
<1>3. ASSUME NEW f \in Fp, DenyWindow(f) \/ DenyBudget(f) \/ DenyRate(f)
      PROVE  UNCHANGED Limits!vars
  <2>1. /\ now' = now /\ last' = last /\ wallDay' = wallDay
        /\ day' = wallDay /\ newToday' = NewSoFar
        /\ \/ UNCHANGED <<bucket, updated>>
           \/ bucket' = Refilled /\ updated' = now
    BY <1>3 DEF DenyWindow, DenyBudget, DenyRate, Roll, clocks
  <2>2. Refilled' = Refilled
    BY <1>1, <2>1, CreditHeld
  <2>3. NewSoFar' = NewSoFar
    <3>1. NewSoFar' = newToday'
      BY <2>1 DEF NewSoFar
    <3>2. QED
      BY <2>1, <3>1
  <2>4. QED
    BY <1>2, <2>1, <2>2, <2>3
<1>4. ASSUME NEW f \in Fp, Admit(f) PROVE Limits!Next
  BY <1>4, ThrottleAdmit DEF Limits!Next
<1>5. CASE Tick
  <2>1. now < MaxTime /\ now' = now + 1 /\ UNCHANGED <<last, wallDay, day, newToday>>
    BY <1>5 DEF Tick
  <2>2. NewSoFar' = NewSoFar
    BY <2>1 DEF NewSoFar
  <2>3. Limits!Tick
    BY <1>1, <1>5, <2>1, <2>2, CreditTick DEF Limits!Tick, Never, Capacity, Token
  <2>4. QED
    BY <2>3 DEF Limits!Next
<1>6. ASSUME NEW d \in Day, SetWallClock(d) PROVE Limits!Next
  <2>1. /\ d > wallDay /\ wallDay' = d
        /\ UNCHANGED <<now, bucket, updated, newToday, day, last>>
    BY <1>6 DEF SetWallClock
  <2>2. NewSoFar' = 0
    <3>1. d \in Nat
      BY SuppressorConstants
    <3>2. day' # wallDay'
      BY <1>1, <2>1, <3>1
    <3>3. QED
      BY <3>2 DEF NewSoFar
  <2>3. Refilled' = Refilled
    BY <1>1, <2>1, CreditHeld
  <2>4. Limits!NewDay
    BY <2>1, <2>2, <2>3 DEF Limits!NewDay, Never
  <2>5. QED
    BY <2>4 DEF Limits!Next
<1>7. CASE Observe \/ UNCHANGED vars
  <2>1. UNCHANGED <<now, last, bucket, updated, wallDay, day, newToday>>
    BY <1>7 DEF Observe, vars, clocks
  <2>2. Refilled' = Refilled
    BY <1>1, <2>1, CreditHeld
  <2>3. NewSoFar' = NewSoFar
    BY <2>1 DEF NewSoFar
  <2>4. QED
    BY <1>2, <2>1, <2>2, <2>3
<1>8. QED
  BY <1>3, <1>4, <1>5, <1>6, <1>7 DEF Next, Check

\* suppress.py:1 and 10-13: whatever is asked of check() and in whatever order,
\* what it admits is what an ideal throttle admits: per error one in a window,
\* as fast as credit flows in, at most so many new ones a day.  It takes
\* tables that exceed what the bucket can admit in a window, and a wall clock
\* that is never set back.
THEOREM ThrottleImplemented ==
  ASSUME TablesLargeEnough, ~ SetBack
  PROVE  Spec => ImplementsThrottle
<1>1. Init => DayInv
  BY TypeInit, SuppressorConstants DEF Init, DayInv, DailyCeiling, TypeOK
<1>2. DayInv /\ [Next]_vars => DayInv'
  BY DayStep
<1>3. Init => Limits!Init
  <2> SUFFICES ASSUME Init PROVE Limits!Init
    OBVIOUS
  <2>1. Refilled = Capacity
    BY ConstantTypes DEF Init, Refilled
  <2>2. NewSoFar = 0
    BY DEF Init, NewSoFar
  <2>3. QED
    BY <2>1, <2>2 DEF Init, Limits!Init, Limits!NotYet
<1>4. IInv /\ DayInv /\ [Next]_vars => [Limits!Next]_(Limits!vars)
  BY ThrottleStep
<1>5. QED
  BY <1>1, <1>2, <1>3, <1>4, Invariance, PTL DEF Spec, ImplementsThrottle, Limits!Spec
=============================================================================
