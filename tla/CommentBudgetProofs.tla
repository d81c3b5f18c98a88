------------------------- MODULE CommentBudgetProofs -------------------------
(***************************************************************************)
(* Theorems about CommentBudget, for any number of issues and workers, any *)
(* limits and any table, and for a table that is large enough.             *)
(*                                                                         *)
(* The argument.  As long as the table remembers every comment of the last *)
(* hour, allow() counts right.  It forgets the issue least recently        *)
(* commented on, when MaxIssues others were commented on since             *)
(* (ForgottenLate).  No admissions are counted here; instead every comment *)
(* c carries an account (Paid): what was commented on since c, together    *)
(* with what the workers still have in hand, was in hand of the others at  *)
(* c or has been paid for out of the credit since.  When the forgotten     *)
(* issue itself comes back within the hour, MaxIssues comments and this    *)
(* occurrence are on the account, and a large enough table rules that out. *)
(***************************************************************************)
EXTENDS CommentBudget, FiniteSetTheorems, WellFoundedInduction, TLAPS

(***************************************************************************)
(* The inductive invariants.                                               *)
(***************************************************************************)
\* What the table remembers is true: the stamps of an issue are its own
\* comments, and none of the last hour was made up.
TableTrue ==
    /\ IsFiniteSet(DOMAIN seen)
    /\ \A i \in DOMAIN seen :
          /\ IsFiniteSet(seen[i].stamps)
          /\ \A c \in seen[i].stamps :
                /\ c.issue = i /\ c.at <= now /\ c.turn <= seen[i].turn
                /\ now - c.at < Hour => c \in posted

PostedTrue ==
    /\ IsFiniteSet(posted)
    /\ \A c \in posted : c.at <= now /\ now - c.at < Hour /\ c.turn <= turn

Truth == TypeOK /\ TableTrue /\ PostedTrue

\* No two entries were moved to the end by the same call.
TurnsDistinct ==
    \A i, j \in DOMAIN seen : seen[i].turn = seen[j].turn => i = j

\* The filings that are going to ask for a comment.
InHand == Cardinality({w \in Worker : job[w] # Idle})

\* The comments after c and the filings in hand were paid for since c, or in
\* the hands of the other workers when c was made.
Paid(c) ==
    ((turn - c.turn) + InHand) * Token + credit
        <= Capacity + (now - c.at) * Rate + (Cardinality(Worker) - 1) * Token

Remembered(c) == c.issue \in DOMAIN seen /\ c \in seen[c.issue].stamps

\* Whatever comment of the last hour the table does not know was followed by
\* as many others as the table has room for.
ForgottenLate ==
    \A c \in posted : Remembered(c) \/ turn - c.turn >= MaxIssues

CapInv ==
    /\ Truth
    /\ TurnsDistinct
    /\ \A c \in posted : Paid(c)
    /\ ForgottenLate
    /\ RoutineCommentsCapped

(***************************************************************************)
(* Types.                                                                  *)
(***************************************************************************)
Entry == [stamps : SUBSET Call, turn : Nat]

ThrottleTypes ==
    /\ now \in 0..MaxTime
    /\ admitted \in [Fp -> Nat \cup {NotYet}]
    /\ credit \in 0..Capacity
    /\ charged \in 0..PerDay

\* The limits are natural numbers.
LEMMA LimitTypes ==
  /\ Rate \in Nat /\ Token \in Nat /\ Token > 0 /\ Capacity \in Nat
  /\ PerDay \in Nat /\ MaxTime \in Nat
  /\ Hour \in Nat /\ Hour > 0 /\ MaxIssues \in Nat /\ MaxIssues > 0
  /\ MaxPerHour \in Nat
  BY ThrottleConstants, BudgetConstants

\* The workers can be counted.
LEMMA Workers == IsFiniteSet(Worker) /\ Cardinality(Worker) \in Nat
  BY BudgetConstants, FS_CardinalityType

\* An admission costs a token.
LEMMA AdmitFacts ==
  ASSUME ThrottleTypes, NEW f \in Fp, Admit(f)
  PROVE  ThrottleTypes' /\ now' = now /\ credit' = credit - Token
<1>1. Spend(f)
  BY DEF Admit, AdmitNew, AdmitKnown
<1>2. now' = now /\ credit' = credit - Token /\ credit >= Token
  BY <1>1 DEF Spend
<1>3. admitted' \in [Fp -> Nat \cup {NotYet}]
  BY <1>1, LimitTypes DEF Spend, ThrottleTypes
<1>4. credit' \in 0..Capacity
  BY <1>2, LimitTypes DEF ThrottleTypes
<1>5. charged' \in 0..PerDay
  BY LimitTypes DEF Admit, AdmitNew, AdmitKnown, ThrottleTypes
<1>6. QED
  BY <1>2, <1>3, <1>4, <1>5 DEF ThrottleTypes

\* A tick brings credit at the rate.
LEMMA TickFacts ==
  ASSUME ThrottleTypes, Tick
  PROVE  ThrottleTypes' /\ now' = now + 1 /\ credit' <= credit + Rate
<1>1. credit' \in 0..Capacity /\ credit' <= credit + Rate
  BY LimitTypes DEF Tick, ThrottleTypes
<1>2. QED
  BY <1>1, LimitTypes DEF Tick, ThrottleTypes

\* A new day gives no credit.
LEMMA NewDayFacts ==
  ASSUME ThrottleTypes, NewDay
  PROVE  ThrottleTypes' /\ now' = now /\ credit' = credit
<1>1. 0 \in 0..PerDay
  BY LimitTypes
<1>2. QED
  BY <1>1 DEF NewDay, ThrottleTypes

(***************************************************************************)
(* What the workers have in hand.                                          *)
(***************************************************************************)
HasOne == {w \in Worker : job[w] # Idle}

\* InHand is a number, at most one for every worker.
LEMMA InHandType ==
  /\ IsFiniteSet(HasOne)
  /\ InHand = Cardinality(HasOne) /\ InHand \in Nat /\ InHand <= Cardinality(Worker)
<1>1. HasOne \subseteq Worker
  BY DEF HasOne
<1>2. IsFiniteSet(HasOne) /\ Cardinality(HasOne) <= Cardinality(Worker)
  BY <1>1, Workers, FS_Subset
<1>3. QED
  BY <1>2, FS_CardinalityType DEF InHand, HasOne

\* A worker that has asked has one less.
LEMMA Released ==
  ASSUME job \in [Worker -> Fp \cup {Idle}], NEW w \in Worker, job[w] # Idle,
         job' = [job EXCEPT ![w] = Idle]
  PROVE  InHand > 0 /\ InHand' = InHand - 1 /\ InHand' <= Cardinality(Worker) - 1
<1>1. HasOne' = HasOne \ {w} /\ w \in HasOne
  BY DEF HasOne
<1>2. Cardinality(HasOne \ {w}) = Cardinality(HasOne) - 1
  BY <1>1, InHandType, FS_RemoveElement
<1>3. InHand' = Cardinality(HasOne')
  BY DEF InHand, HasOne
<1>4. HasOne # {}
  BY <1>1
<1>5. InHand > 0
  BY <1>4, InHandType, FS_EmptySet
<1>6. QED
  BY <1>1, <1>2, <1>3, <1>5, InHandType, Workers

\* A worker that takes an error adds one at most.
LEMMA Taken ==
  ASSUME job \in [Worker -> Fp \cup {Idle}], NEW w \in Worker, NEW f \in Fp,
         job' = [job EXCEPT ![w] = f]
  PROVE  InHand' \in Nat /\ InHand' <= InHand + 1
<1>1. HasOne' \subseteq HasOne \cup {w}
  BY DEF HasOne
<1>2. /\ IsFiniteSet(HasOne \cup {w})
      /\ Cardinality(HasOne \cup {w}) <= Cardinality(HasOne) + 1
  BY InHandType, FS_AddElement
<1>3. /\ IsFiniteSet(HasOne')
      /\ Cardinality(HasOne') <= Cardinality(HasOne \cup {w})
  BY <1>1, <1>2, FS_Subset
<1>4. InHand' = Cardinality(HasOne')
  BY DEF InHand, HasOne
<1>5. InHand' \in Nat /\ Cardinality(HasOne \cup {w}) \in Nat
  BY <1>2, <1>3, <1>4, FS_CardinalityType
<1>6. QED
  BY <1>2, <1>3, <1>4, <1>5, InHandType

(***************************************************************************)
(* The account of a comment.                                               *)
(***************************************************************************)
\* The law that the accounts are calculated with.
LEMMA Distributes == \A a, b, m \in Int : (a + b) * m = a * m + b * m
  OBVIOUS

\* More tokens cost more.
LEMMA ProductMonotone ==
  ASSUME NEW a \in Int, NEW b \in Int, NEW m \in Nat, a <= b
  PROVE  a * m <= b * m
<1>1. \A x, y \in Nat : x * y \in Nat
  OBVIOUS
<1>2. b - a \in Nat /\ (b - a) * m \in Nat
  BY <1>1
<1>3. b * m = a * m + (b - a) * m
  BY Distributes
<1>4. a * m \in Int /\ b * m \in Int
  OBVIOUS
<1>5. QED
  BY <1>2, <1>3, <1>4

\* Nothing is put on the account that is not paid for: k more, at the cost of
\* k tokens.
LEMMA PaidOn ==
  ASSUME NEW c \in Call, Paid(c), NEW k \in {0, 1},
         now \in Nat, now' = now, turn \in Nat, turn' \in Nat,
         credit \in Int, credit' \in Int, InHand' \in Nat,
         turn' + InHand' <= turn + InHand + k,
         credit' + k * Token <= credit
  PROVE  Paid(c)'
<1>1. /\ c.turn \in Nat /\ c.at \in Nat /\ InHand \in Nat /\ Token \in Nat
      /\ Cardinality(Worker) \in Nat /\ Rate \in Nat /\ Capacity \in Nat
  BY InHandType, Workers, LimitTypes DEF Call
<1> DEFINE before == (turn - c.turn) + InHand
           after  == (turn' - c.turn) + InHand'
           rest   == Capacity + (now - c.at) * Rate + (Cardinality(Worker) - 1) * Token
<1>2. before \in Int /\ after \in Int /\ after <= before + k
  <2>1. \A t, u, h, i, n \in Nat : u + i <= t + h + k =>
           /\ (t - n) + h \in Int /\ (u - n) + i \in Int
           /\ (u - n) + i <= ((t - n) + h) + k
    OBVIOUS
  <2>2. QED
    BY <1>1, <2>1
<1>3. after * Token <= (before + k) * Token
  BY <1>1, <1>2, ProductMonotone
<1>4. (before + k) * Token = before * Token + k * Token
  BY <1>1, <1>2, Distributes
<1>5. before * Token + credit <= rest
  BY DEF Paid
<1>6. /\ before * Token \in Int /\ after * Token \in Int /\ k * Token \in Int
      /\ rest \in Int /\ (before + k) * Token \in Int
  BY <1>1, <1>2
<1>7. Paid(c)' <=> after * Token + credit' <= rest
  BY DEF Paid
<1> HIDE DEF before, after, rest
<1>8. QED
  BY <1>3, <1>4, <1>5, <1>6, <1>7

\* A tick brings what time adds to the account.
LEMMA PaidTick ==
  ASSUME NEW c \in Call, Paid(c), now \in Nat, now' = now + 1, turn \in Nat,
         turn' = turn, credit \in Int, credit' \in Int, job' = job,
         credit' <= credit + Rate
  PROVE  Paid(c)'
<1>1. /\ c.turn \in Nat /\ c.at \in Nat /\ InHand \in Nat /\ Token \in Nat
      /\ Cardinality(Worker) \in Nat /\ Rate \in Nat /\ Capacity \in Nat
  BY InHandType, Workers, LimitTypes DEF Call
<1>2. InHand' = InHand
  BY DEF InHand
<1> DEFINE owed == ((turn - c.turn) + InHand) * Token
           others == (Cardinality(Worker) - 1) * Token
           flown == (now - c.at) * Rate
<1>3. ((now - c.at) + 1) * Rate = flown + 1 * Rate
  BY <1>1, Distributes
<1>4. (now + 1) - c.at = (now - c.at) + 1
  BY <1>1
<1>5. owed \in Int /\ others \in Int /\ flown \in Int
  BY <1>1
<1>6. owed + credit <= Capacity + flown + others
  BY DEF Paid
<1>7. Paid(c)' <=> owed + credit' <= Capacity + ((now + 1) - c.at) * Rate + others
  BY <1>2 DEF Paid
<1> HIDE DEF owed, others, flown
<1>8. QED
  BY <1>1, <1>3, <1>4, <1>5, <1>6, <1>7

\* A new comment: only the others may still ask.
LEMMA PaidNew ==
  ASSUME NEW c \in Call, c.turn = turn', c.at = now', now' \in Nat, turn' \in Nat,
         credit' \in 0..Capacity, InHand' \in Nat, InHand' <= Cardinality(Worker) - 1
  PROVE  Paid(c)'
<1>1. Token \in Nat /\ Cardinality(Worker) \in Nat /\ Rate \in Nat /\ Capacity \in Nat
  BY Workers, LimitTypes
<1>2. InHand' * Token <= (Cardinality(Worker) - 1) * Token
  BY <1>1, ProductMonotone
<1>3. (turn' - c.turn) + InHand' = InHand' /\ now' - c.at = 0
  <2>1. \A t, h \in Nat : (t - t) + h = h /\ t - t = 0
    OBVIOUS
  <2>2. QED
    BY <2>1
<1>4. 0 * Rate = 0 /\ InHand' * Token \in Int /\ (Cardinality(Worker) - 1) * Token \in Int
  BY <1>1
<1>5. QED
  BY <1>1, <1>2, <1>3, <1>4 DEF Paid

\* With a large enough table, an issue that comes back within the hour finds
\* fewer than MaxIssues comments after its own.
LEMMA PaidBound ==
  ASSUME NEW c \in Call, Paid(c), TableLargeEnough, InHand > 0,
         now \in Nat, turn \in Nat, credit \in 0..Capacity, now - c.at < Hour
  PROVE  turn - c.turn < MaxIssues
<1>1. /\ c.turn \in Nat /\ c.at \in Nat /\ InHand \in Nat /\ Token \in Nat
      /\ Cardinality(Worker) \in Nat /\ Rate \in Nat /\ Capacity \in Nat
      /\ Hour \in Nat /\ MaxIssues \in Nat
  BY InHandType, Workers, LimitTypes DEF Call
<1> SUFFICES ASSUME turn - c.turn >= MaxIssues PROVE FALSE
  BY <1>1
<1>2. MaxIssues + 1 <= (turn - c.turn) + InHand
  BY <1>1
<1>3. (MaxIssues + 1) * Token <= ((turn - c.turn) + InHand) * Token
  BY <1>1, <1>2, ProductMonotone
<1>4. now - c.at <= Hour - 1
  BY <1>1
<1>5. (now - c.at) * Rate <= (Hour - 1) * Rate
  BY <1>1, <1>4, ProductMonotone
<1> DEFINE a == (MaxIssues + 1) * Token
           b == ((turn - c.turn) + InHand) * Token
           d == (now - c.at) * Rate
           e == (Hour - 1) * Rate
           o == (Cardinality(Worker) - 1) * Token
<1>6. a \in Int /\ b \in Int /\ d \in Int /\ e \in Int /\ o \in Int
  BY <1>1
<1>7. b + credit <= Capacity + d + o /\ a > Capacity + e + o
  BY DEF Paid, TableLargeEnough
<1>8. a <= b /\ d <= e
  BY <1>3, <1>5
<1> HIDE DEF a, b, d, e, o
<1>9. QED
  BY <1>1, <1>6, <1>7, <1>8

(***************************************************************************)
(* The table.                                                              *)
(***************************************************************************)
IsTable(table) == table \in [DOMAIN table -> Entry] /\ IsFiniteSet(DOMAIN table)

\* There is an oldest entry, and Oldest is one.
LEMMA OldestIsLeast ==
  ASSUME NEW table, IsTable(table), DOMAIN table # {}
  PROVE  /\ Oldest(table) \in DOMAIN table
         /\ \A j \in DOMAIN table : table[Oldest(table)].turn <= table[j].turn
<1> DEFINE turns == {table[j].turn : j \in DOMAIN table}
           below == {ss \in Nat \X Nat : ss[1] < ss[2]}
<1>1. turns \subseteq Nat /\ turns # {}
  BY DEF IsTable, Entry
<1>2. PICK t \in turns : \A u \in turns : <<u, t>> \notin below
  <2>1. IsWellFoundedOn(below, Nat)
    BY NatLessThanWellFounded DEF OpToRel
  <2>2. QED
    <3> HIDE DEF below, turns
    <3>1. QED
      BY <1>1, <2>1, WFMin
<1>3. \A u \in turns : t <= u
  <2> TAKE u \in turns
  <2>1. u \in Nat /\ t \in Nat /\ <<u, t>> \notin below
    BY <1>1, <1>2
  <2>2. ~ (u < t)
    <3> HIDE DEF turns
    <3>1. QED
      BY <2>1
  <2>3. QED
    BY <2>1, <2>2
<1>4. \E i \in DOMAIN table : \A j \in DOMAIN table : table[i].turn <= table[j].turn
  BY <1>3
<1>5. QED
  BY <1>4 DEF Oldest

\* An entry with n younger ones is at least n turns old.
LEMMA OvertakenByAll ==
  ASSUME NEW table, IsTable(table), NEW i \in DOMAIN table, NEW newest \in Nat,
         \A j, k \in DOMAIN table : table[j].turn = table[k].turn => j = k,
         \A j \in DOMAIN table :
            table[i].turn <= table[j].turn /\ table[j].turn <= newest
  PROVE  newest - table[i].turn >= Cardinality(DOMAIN table \ {i})
<1> DEFINE younger == DOMAIN table \ {i}
           from    == table[i].turn
           later   == (from + 1)..newest
           turnOf  == [j \in younger |-> table[j].turn]
<1>1. \A j \in DOMAIN table : table[j].turn \in Nat
  BY DEF IsTable, Entry
<1>2. IsFiniteSet(younger) /\ Cardinality(younger) \in Nat
  BY FS_RemoveElement, FS_CardinalityType DEF IsTable
<1>3. from \in Nat /\ from <= newest
  BY <1>1
<1>4. IsFiniteSet(later) /\ Cardinality(later) = newest - from
  <2> HIDE DEF from
  <2>1. from + 1 \in Int /\ newest \in Int
    BY <1>3
  <2>2. IsFiniteSet((from + 1)..newest)
    BY <2>1, FS_Interval
  <2>3. Cardinality((from + 1)..newest) =
           IF from + 1 > newest THEN 0 ELSE newest - (from + 1) + 1
    BY <2>1, FS_Interval
  <2>4. QED
    BY <1>3, <2>2, <2>3
<1>5. turnOf \in [younger -> later]
  BY <1>1
<1>6. \A j, k \in younger : turnOf[j] = turnOf[k] => j = k
  OBVIOUS
<1>7. ~ (Cardinality(later) < Cardinality(younger))
  <2> HIDE DEF younger, later, turnOf
  <2>1. QED
    BY <1>2, <1>4, <1>5, <1>6, FS_PigeonHole
<1>8. QED
  BY <1>2, <1>3, <1>4, <1>7

\* Bounded drops nothing, or the oldest entry of a table that has one entry too
\* many; that one is then MaxIssues turns old.
LEMMA BoundedFacts ==
  ASSUME NEW table, IsTable(table), Cardinality(DOMAIN table) <= MaxIssues + 1
  PROVE  /\ IsTable(Bounded(table))
         /\ DOMAIN Bounded(table) \subseteq DOMAIN table
         /\ \A j \in DOMAIN Bounded(table) : Bounded(table)[j] = table[j]
         /\ Cardinality(DOMAIN Bounded(table)) <= MaxIssues
         /\ \A j \in DOMAIN table \ DOMAIN Bounded(table) :
               /\ Cardinality(DOMAIN table \ {j}) = MaxIssues
               /\ \A k \in DOMAIN table : table[j].turn <= table[k].turn
<1>1. Cardinality(DOMAIN table) \in Nat
  BY FS_CardinalityType DEF IsTable
<1>2. CASE Cardinality(DOMAIN table) > MaxIssues
  <2>1. DOMAIN table # {}
    BY <1>2, FS_EmptySet, LimitTypes
  <2>2. /\ Oldest(table) \in DOMAIN table
        /\ \A j \in DOMAIN table : table[Oldest(table)].turn <= table[j].turn
    BY <2>1, OldestIsLeast
  <2>3. /\ IsFiniteSet(DOMAIN table \ {Oldest(table)})
        /\ Cardinality(DOMAIN table \ {Oldest(table)}) = Cardinality(DOMAIN table) - 1
    BY <2>2, FS_RemoveElement DEF IsTable
  <2>4. Cardinality(DOMAIN table) = MaxIssues + 1
    BY <1>1, <1>2, LimitTypes
  <2>5. Bounded(table) = [j \in DOMAIN table \ {Oldest(table)} |-> table[j]]
    BY <1>2 DEF Bounded
  <2>6. DOMAIN Bounded(table) = DOMAIN table \ {Oldest(table)}
    BY <2>5
  <2>7. IsTable(Bounded(table))
    BY <2>3, <2>5, <2>6 DEF IsTable
  <2>8. /\ Cardinality(DOMAIN table \ {Oldest(table)}) = MaxIssues
        /\ Cardinality(DOMAIN Bounded(table)) <= MaxIssues
    BY <2>3, <2>4, <2>6, LimitTypes
  <2>9. \A j \in DOMAIN Bounded(table) : Bounded(table)[j] = table[j]
    BY <2>5
  <2>10. \A j \in DOMAIN table \ DOMAIN Bounded(table) : j = Oldest(table)
    BY <2>6
  <2>11. QED
    BY <2>2, <2>6, <2>7, <2>8, <2>9, <2>10
<1>3. CASE ~ (Cardinality(DOMAIN table) > MaxIssues)
  <2>1. Bounded(table) = table
    BY <1>3 DEF Bounded
  <2>2. QED
    BY <1>1, <1>3, <2>1, LimitTypes
<1>4. QED
  BY <1>2, <1>3

\* The stamps allow() counts are comments of the last hour on this issue.
LEMMA StampsFacts ==
  ASSUME Truth, NEW i \in Fp
  PROVE  /\ Stamps(i) \subseteq {c \in posted : c.issue = i}
         /\ IsFiniteSet(Stamps(i)) /\ Cardinality(Stamps(i)) \in Nat
         /\ Stamps(i) \subseteq Call
<1>1. IsFiniteSet(Stamps(i)) /\ Stamps(i) \subseteq {c \in posted : c.issue = i}
  <2>1. CASE i \in DOMAIN seen
    <3>1. /\ Stamps(i) = {c \in seen[i].stamps : now - c.at < Hour}
          /\ IsFiniteSet(seen[i].stamps)
      BY <2>1 DEF Stamps, Truth, TableTrue
    <3>2. IsFiniteSet(Stamps(i))
      BY <3>1, FS_Subset
    <3>3. QED
      BY <2>1, <3>1, <3>2 DEF Truth, TableTrue
  <2>2. CASE i \notin DOMAIN seen
    BY <2>2, FS_EmptySet DEF Stamps
  <2>3. QED
    BY <2>1, <2>2
<1>2. posted \subseteq Call
  BY DEF Truth, TypeOK
<1>3. QED
  BY <1>1, <1>2, FS_CardinalityType

\* Only an issue in the table can have spent its budget, unless that is zero.
LEMMA SpentIsKnown ==
  ASSUME NEW i \in Fp, Spent(i), MaxPerHour # 0
  PROVE  i \in DOMAIN seen
<1>1. CASE i \notin DOMAIN seen
  BY <1>1, FS_EmptySet, LimitTypes DEF Spent, Stamps
<1>2. QED
  BY <1>1

(***************************************************************************)
(* The call that is allowed.                                               *)
(***************************************************************************)
NewCall(i) == [issue |-> i, at |-> now, turn |-> turn + 1]

NewTable(i) == Put(i, [stamps |-> Stamps(i) \cup {NewCall(i)}, turn |-> turn + 1])

\* One more element makes a set larger by one at most.
LEMMA OneMore ==
  ASSUME NEW S, IsFiniteSet(S), NEW x
  PROVE  /\ IsFiniteSet(S \cup {x})
         /\ Cardinality(S \cup {x}) <= Cardinality(S) + 1
<1>1. Cardinality(S) \in Nat
  BY FS_CardinalityType
<1>2. IsFiniteSet(S \cup {x})
  BY FS_AddElement
<1>3. Cardinality(S \cup {x}) = Cardinality(S) \/ Cardinality(S \cup {x}) = Cardinality(S) + 1
  BY FS_AddElement, ZenonT(30)
<1>4. QED
  BY <1>1, <1>2, <1>3

\* The table with the new entry, before anything is dropped: one entry more at
\* most, and a call nobody made before.
LEMMA NewTableFacts ==
  ASSUME Truth, NEW i \in Fp
  PROVE  /\ NewCall(i) \in Call /\ NewCall(i) \notin posted
         /\ IsTable(NewTable(i))
         /\ DOMAIN NewTable(i) = DOMAIN seen \cup {i}
         /\ Cardinality(DOMAIN NewTable(i)) <= MaxIssues + 1
         /\ NewTable(i)[i].stamps = Stamps(i) \cup {NewCall(i)}
         /\ NewTable(i)[i].turn = turn + 1
         /\ \A j \in DOMAIN seen \ {i} : NewTable(i)[j] = seen[j]
<1>1. /\ now \in Nat /\ turn \in Nat /\ IsFiniteSet(DOMAIN seen)
      /\ seen \in [DOMAIN seen -> [stamps : SUBSET Call, turn : 1..turn]]
      /\ Cardinality(DOMAIN seen) <= MaxIssues
  BY LimitTypes DEF Truth, TypeOK, TableTrue
<1>2. NewCall(i) \in Call
  BY <1>1 DEF NewCall, Call
<1>3. NewCall(i) \notin posted
  <2>1. \A c \in posted : c.turn <= turn
    BY DEF Truth, PostedTrue
  <2>2. NewCall(i).turn = turn + 1
    BY DEF NewCall
  <2>3. QED
    BY <1>1, <2>1, <2>2
<1> DEFINE e == [stamps |-> Stamps(i) \cup {NewCall(i)}, turn |-> turn + 1]
<1>4. e \in Entry /\ e.stamps = Stamps(i) \cup {NewCall(i)} /\ e.turn = turn + 1
  BY <1>1, <1>2, StampsFacts DEF Entry
<1>5. NewTable(i) = [j \in DOMAIN seen \cup {i} |-> IF j = i THEN e ELSE seen[j]]
  BY DEF NewTable, Put
<1> HIDE DEF e
<1>6. \A j \in DOMAIN seen : seen[j] \in Entry
  BY <1>1 DEF Entry
<1>7. /\ IsFiniteSet(DOMAIN seen \cup {i})
      /\ Cardinality(DOMAIN seen \cup {i}) <= Cardinality(DOMAIN seen) + 1
  BY <1>1, OneMore
<1>8. /\ Cardinality(DOMAIN seen \cup {i}) \in Nat /\ Cardinality(DOMAIN seen) \in Nat
  BY <1>1, <1>7, FS_CardinalityType
<1>9. DOMAIN NewTable(i) = DOMAIN seen \cup {i}
  BY <1>5
<1>10. IsTable(NewTable(i))
  BY <1>4, <1>5, <1>6, <1>7, <1>9 DEF IsTable
<1>11. QED
  BY <1>1, <1>2, <1>3, <1>4, <1>5, <1>7, <1>8, <1>9, <1>10, LimitTypes

\* What an allowed call leaves behind.
LEMMA AllowFacts ==
  ASSUME Truth, NEW w \in Worker, Allow(w)
  PROVE  /\ job[w] \in Fp /\ ~ Spent(job[w])
         /\ InHand > 0 /\ InHand' = InHand - 1 /\ InHand' <= Cardinality(Worker) - 1
         /\ turn' = turn + 1 /\ posted' = posted \cup {NewCall(job[w])}
         /\ seen' = Bounded(NewTable(job[w]))
         /\ UNCHANGED vars /\ job' = [job EXCEPT ![w] = Idle]
<1>1. job \in [Worker -> Fp \cup {Idle}] /\ job[w] # Idle
  BY DEF Truth, TypeOK, Allow
<1>2. job' = [job EXCEPT ![w] = Idle]
  BY DEF Allow
<1>3. InHand > 0 /\ InHand' = InHand - 1 /\ InHand' <= Cardinality(Worker) - 1
  BY <1>1, <1>2, Released
<1>4. QED
  BY <1>1, <1>2, <1>3 DEF Allow, NewCall, NewTable

\* An allowed call leaves a true table and a true history.
LEMMA AllowTruth ==
  ASSUME Truth, NEW w \in Worker, Allow(w)
  PROVE  Truth'
<1> DEFINE i == job[w]
<1>1. /\ i \in Fp /\ turn' = turn + 1 /\ posted' = posted \cup {NewCall(i)}
      /\ seen' = Bounded(NewTable(i)) /\ UNCHANGED vars
      /\ job' = [job EXCEPT ![w] = Idle]
  BY AllowFacts
<1> HIDE DEF i
<1>2. /\ now \in Nat /\ turn \in Nat /\ posted \subseteq Call /\ DOMAIN seen \subseteq Fp
      /\ seen \in [DOMAIN seen -> [stamps : SUBSET Call, turn : 1..turn]]
      /\ IsFiniteSet(posted) /\ now' = now
  BY <1>1, LimitTypes DEF Truth, TypeOK, PostedTrue, vars
<1>3. /\ NewCall(i) \in Call
      /\ IsTable(NewTable(i))
      /\ DOMAIN NewTable(i) = DOMAIN seen \cup {i}
      /\ Cardinality(DOMAIN NewTable(i)) <= MaxIssues + 1
      /\ NewTable(i)[i].stamps = Stamps(i) \cup {NewCall(i)}
      /\ NewTable(i)[i].turn = turn + 1
      /\ \A j \in DOMAIN seen \ {i} : NewTable(i)[j] = seen[j]
  BY <1>1, NewTableFacts
<1>4. /\ IsTable(seen') /\ DOMAIN seen' \subseteq DOMAIN seen \cup {i}
      /\ \A j \in DOMAIN seen' : seen'[j] = NewTable(i)[j]
      /\ Cardinality(DOMAIN seen') <= MaxIssues
  BY <1>1, <1>3, BoundedFacts
<1>5. NewCall(i).issue = i /\ NewCall(i).at = now /\ NewCall(i).turn = turn + 1
  BY DEF NewCall
<1>6. ASSUME NEW j \in DOMAIN seen'
      PROVE  seen'[j] \in [stamps : SUBSET Call, turn : 1..turn']
  <2>1. seen'[j] \in Entry
    BY <1>4 DEF IsTable
  <2>2. seen'[j].turn \in 1..turn'
    BY <1>1, <1>2, <1>3, <1>4
  <2>3. QED
    BY <2>1, <2>2 DEF Entry
<1>7. TypeOK'
  <2>1. ThrottleTypes'
    BY <1>1 DEF Truth, TypeOK, ThrottleTypes, vars
  <2>2. job' \in [Worker -> Fp \cup {Idle}]
    BY <1>1 DEF Truth, TypeOK
  <2>3. posted' \subseteq Call /\ turn' \in Nat /\ DOMAIN seen' \subseteq Fp
    BY <1>1, <1>2, <1>3, <1>4
  <2>4. seen' \in [DOMAIN seen' -> [stamps : SUBSET Call, turn : 1..turn']]
    BY <1>4, <1>6 DEF IsTable
  <2>5. QED
    BY <1>4, <2>1, <2>2, <2>3, <2>4 DEF TypeOK, ThrottleTypes
<1>8. PostedTrue'
  <2>1. IsFiniteSet(posted')
    BY <1>1, <1>2, FS_AddElement
  <2>2. ASSUME NEW c \in posted'
        PROVE  c.at <= now' /\ now' - c.at < Hour /\ c.turn <= turn'
    <3>1. CASE c \in posted
      <4>1. c.turn \in Nat /\ c.turn <= turn
        BY <1>2, <3>1 DEF Truth, PostedTrue, Call
      <4>2. QED
        BY <1>1, <1>2, <3>1, <4>1 DEF Truth, PostedTrue
    <3>2. CASE c = NewCall(i)
      BY <1>1, <1>2, <1>5, <3>2, LimitTypes
    <3>3. QED
      BY <1>1, <3>1, <3>2
  <2>3. QED
    BY <2>1, <2>2 DEF PostedTrue
<1>9. TableTrue'
  <2>1. ASSUME NEW j \in DOMAIN seen'
        PROVE  /\ IsFiniteSet(seen'[j].stamps)
               /\ \A c \in seen'[j].stamps :
                     /\ c.issue = j /\ c.at <= now' /\ c.turn <= seen'[j].turn
                     /\ now' - c.at < Hour => c \in posted'
    <3>1. CASE j = i
      <4>1. /\ seen'[j].stamps = Stamps(i) \cup {NewCall(i)}
            /\ seen'[j].turn = turn + 1
        BY <1>3, <1>4, <3>1
      <4>2. IsFiniteSet(seen'[j].stamps)
        BY <1>1, <4>1, StampsFacts, FS_AddElement
      <4>3. ASSUME NEW c \in Stamps(i)
            PROVE  c.issue = i /\ c \in posted /\ c.at <= now /\ c.turn <= turn + 1
        <5>1. c \in posted /\ c.issue = i
          BY <1>1, StampsFacts
        <5>2. c.turn \in Nat /\ c.turn <= turn /\ c.at <= now
          BY <1>2, <5>1 DEF Truth, PostedTrue, Call
        <5>3. QED
          BY <1>2, <5>1, <5>2
      <4>4. QED
        BY <1>1, <1>2, <1>5, <3>1, <4>1, <4>2, <4>3
    <3>2. CASE j # i
      <4>1. j \in DOMAIN seen /\ seen'[j] = seen[j]
        BY <1>3, <1>4, <3>2
      <4>2. QED
        BY <1>1, <1>2, <4>1 DEF Truth, TableTrue
    <3>3. QED
      BY <3>1, <3>2
  <2>2. QED
    BY <1>4, <2>1 DEF TableTrue, IsTable
<1>10. QED
  BY <1>7, <1>8, <1>9 DEF Truth

(***************************************************************************)
(* The other steps.                                                        *)
(***************************************************************************)
\* Steps that leave the table, the history and the clock alone.
LEMMA AsideTruth ==
  ASSUME Truth, ThrottleTypes', now' = now, job' \in [Worker -> Fp \cup {Idle}],
         UNCHANGED budget
  PROVE  Truth'
<1>1. seen' = seen /\ turn' = turn /\ posted' = posted
  BY DEF budget
<1>2. TypeOK'
  BY <1>1 DEF Truth, TypeOK, ThrottleTypes
<1>3. TableTrue' /\ PostedTrue'
  BY <1>1 DEF Truth, TableTrue, PostedTrue
<1>4. QED
  BY <1>2, <1>3 DEF Truth

\* A refused call drops the stamps older than an hour.
LEMMA RefuseFacts ==
  ASSUME Truth, NEW w \in Worker, Refuse(w)
  PROVE  /\ InHand > 0 /\ InHand' = InHand - 1
         /\ UNCHANGED <<vars, turn, posted>> /\ job' = [job EXCEPT ![w] = Idle]
         /\ DOMAIN seen' = DOMAIN seen
         /\ \A j \in DOMAIN seen :
               /\ seen'[j] \in [stamps : SUBSET Call, turn : 1..turn]
               /\ seen'[j].turn = seen[j].turn
               /\ seen'[j].stamps \subseteq seen[j].stamps
               /\ IsFiniteSet(seen'[j].stamps)
               /\ \A c \in seen[j].stamps :
                     now - c.at < Hour => c \in seen'[j].stamps
         /\ seen' \in [DOMAIN seen -> [stamps : SUBSET Call, turn : 1..turn]]
<1> DEFINE i == job[w]
<1>1. job \in [Worker -> Fp \cup {Idle}] /\ i # Idle /\ i \in Fp /\ Spent(i)
  BY DEF Truth, TypeOK, Refuse
<1>2. UNCHANGED <<vars, turn, posted>> /\ job' = [job EXCEPT ![w] = Idle]
  BY DEF Refuse
<1>3. InHand > 0 /\ InHand' = InHand - 1
  BY <1>1, <1>2, Released
<1>4. /\ seen \in [DOMAIN seen -> [stamps : SUBSET Call, turn : 1..turn]]
      /\ \A j \in DOMAIN seen : IsFiniteSet(seen[j].stamps)
  BY DEF Truth, TypeOK, TableTrue
<1>5. seen' = IF MaxPerHour = 0 THEN seen ELSE [seen EXCEPT ![i].stamps = Stamps(i)]
  BY DEF Refuse
<1> HIDE DEF i
<1>6. CASE MaxPerHour = 0
  BY <1>2, <1>3, <1>4, <1>5, <1>6
<1>7. CASE MaxPerHour # 0
  <2>1. i \in DOMAIN seen
    BY <1>1, <1>7, SpentIsKnown
  <2>2. /\ Stamps(i) = {c \in seen[i].stamps : now - c.at < Hour}
        /\ IsFiniteSet(Stamps(i)) /\ Stamps(i) \subseteq Call
    BY <1>1, <2>1, StampsFacts DEF Stamps
  <2> DEFINE e == [seen[i] EXCEPT !.stamps = Stamps(i)]
  <2>3. /\ e \in [stamps : SUBSET Call, turn : 1..turn]
        /\ e.turn = seen[i].turn /\ e.stamps = Stamps(i)
    BY <1>4, <2>1, <2>2
  <2>4. seen' = [seen EXCEPT ![i] = e]
    BY <1>5, <1>7
  <2> HIDE DEF e
  <2>5. /\ DOMAIN seen' = DOMAIN seen
        /\ seen' \in [DOMAIN seen -> [stamps : SUBSET Call, turn : 1..turn]]
        /\ seen'[i] = e
        /\ \A j \in DOMAIN seen \ {i} : seen'[j] = seen[j]
    BY <1>4, <2>1, <2>3, <2>4
  <2>6. QED
    BY <1>2, <1>3, <1>4, <2>1, <2>2, <2>3, <2>5
<1>8. QED
  BY <1>6, <1>7

\* A refused call leaves a true table and a true history.
LEMMA RefuseTruth ==
  ASSUME Truth, NEW w \in Worker, Refuse(w)
  PROVE  Truth'
<1>1. /\ UNCHANGED <<vars, turn, posted>> /\ job' = [job EXCEPT ![w] = Idle]
      /\ DOMAIN seen' = DOMAIN seen
      /\ seen' \in [DOMAIN seen -> [stamps : SUBSET Call, turn : 1..turn]]
  BY RefuseFacts
<1>2. TypeOK'
  BY <1>1 DEF Truth, TypeOK, vars
<1>3. PostedTrue'
  BY <1>1 DEF Truth, PostedTrue, vars
<1>4. ASSUME NEW j \in DOMAIN seen'
      PROVE  /\ IsFiniteSet(seen'[j].stamps)
             /\ \A c \in seen'[j].stamps :
                   /\ c.issue = j /\ c.at <= now' /\ c.turn <= seen'[j].turn
                   /\ now' - c.at < Hour => c \in posted'
  BY <1>1, RefuseFacts DEF Truth, TableTrue, vars
<1>5. TableTrue'
  BY <1>1, <1>4 DEF Truth, TableTrue
<1>6. QED
  BY <1>2, <1>3, <1>5 DEF Truth

\* A tick drops from the history what is an hour old, and nothing else.
LEMMA TimeFacts ==
  ASSUME Truth, TimePasses
  PROVE  /\ ThrottleTypes' /\ now' = now + 1 /\ credit' <= credit + Rate
         /\ now \in Nat /\ posted' \subseteq posted
         /\ \A c \in posted : c \in posted' <=> now' - c.at < Hour
         /\ UNCHANGED <<job, seen, turn>>
<1>1. Tick /\ ThrottleTypes /\ now \in Nat
  BY LimitTypes DEF TimePasses, Truth, TypeOK, ThrottleTypes
<1>2. ThrottleTypes' /\ now' = now + 1 /\ credit' <= credit + Rate
  BY <1>1, TickFacts
<1>3. posted' = {c \in posted : (now + 1) - c.at < Hour}
  BY DEF TimePasses, WithinHour
<1>4. QED
  BY <1>1, <1>2, <1>3 DEF TimePasses

\* Time makes nothing untrue: what left the history is an hour old.
LEMMA TimeTruth ==
  ASSUME Truth, TimePasses
  PROVE  Truth'
<1>1. /\ ThrottleTypes' /\ now' = now + 1 /\ now \in Nat /\ posted' \subseteq posted
      /\ \A c \in posted : c \in posted' <=> now' - c.at < Hour
      /\ seen' = seen /\ turn' = turn /\ job' = job
  BY TimeFacts
<1>2. TypeOK'
  BY <1>1 DEF Truth, TypeOK, ThrottleTypes
<1>3. \A c \in Call : c.at \in Nat
  BY DEF Call
<1>4. posted \subseteq Call
  BY DEF Truth, TypeOK
<1>5. IsFiniteSet(posted')
  BY <1>1, FS_Subset DEF Truth, PostedTrue
<1>6. PostedTrue'
  BY <1>1, <1>3, <1>4, <1>5 DEF Truth, PostedTrue
<1>7. ASSUME NEW j \in DOMAIN seen, NEW c \in seen[j].stamps
      PROVE  /\ c.issue = j /\ c.at <= now' /\ c.turn <= seen[j].turn
             /\ now' - c.at < Hour => c \in posted'
  <2>1. c \in Call
    BY DEF Truth, TypeOK
  <2>2. c.issue = j /\ c.at <= now /\ c.turn <= seen[j].turn
    BY DEF Truth, TableTrue
  <2>3. now - c.at < Hour => c \in posted
    BY DEF Truth, TableTrue
  <2>4. now' - c.at < Hour => now - c.at < Hour
    BY <1>1, <1>3, <2>1, LimitTypes
  <2>5. QED
    BY <1>1, <1>3, <2>1, <2>2, <2>3, <2>4
<1>8. TableTrue'
  BY <1>1, <1>7 DEF Truth, TableTrue
<1>9. QED
  BY <1>2, <1>6, <1>8 DEF Truth

\* The steps of the filings in front of the budget, and of the day.
LEMMA AsideFacts ==
  ASSUME Truth,
         \/ \E w \in Worker, f \in Fp : Record(w, f)
         \/ \E f \in Fp : FileOtherwise(f)
         \/ DayPasses
         \/ UNCHANGED allVars
  PROVE  /\ ThrottleTypes' /\ now' = now /\ UNCHANGED budget
         /\ job' \in [Worker -> Fp \cup {Idle}]
         /\ InHand' \in Nat
         /\ \E k \in {0, 1} : InHand' <= InHand + k /\ credit' + k * Token <= credit
<1>1. /\ ThrottleTypes /\ job \in [Worker -> Fp \cup {Idle}] /\ credit \in Nat
      /\ InHand \in Nat
  BY InHandType, LimitTypes DEF Truth, TypeOK, ThrottleTypes
<1>2. 0 \in {0, 1} /\ 1 \in {0, 1} /\ 0 * Token = 0 /\ 1 * Token = Token
  BY LimitTypes
<1>3. ASSUME NEW w \in Worker, NEW f \in Fp, Record(w, f)
      PROVE  /\ ThrottleTypes' /\ now' = now /\ UNCHANGED budget
             /\ job' \in [Worker -> Fp \cup {Idle}] /\ InHand' \in Nat
             /\ InHand' <= InHand + 1 /\ credit' + 1 * Token <= credit
  <2>1. Admit(f) /\ job' = [job EXCEPT ![w] = f] /\ UNCHANGED budget
    BY <1>3 DEF Record
  <2>2. ThrottleTypes' /\ now' = now /\ credit' = credit - Token
    BY <1>1, <2>1, AdmitFacts
  <2>3. InHand' \in Nat /\ InHand' <= InHand + 1
    BY <1>1, <2>1, Taken
  <2>4. QED
    BY <1>1, <1>2, <2>1, <2>2, <2>3, LimitTypes
<1>4. ASSUME NEW f \in Fp, FileOtherwise(f)
      PROVE  /\ ThrottleTypes' /\ now' = now /\ UNCHANGED budget
             /\ job' = job /\ credit' <= credit
  <2>1. Admit(f) /\ job' = job /\ UNCHANGED budget
    BY <1>4 DEF FileOtherwise
  <2>2. ThrottleTypes' /\ now' = now /\ credit' = credit - Token
    BY <1>1, <2>1, AdmitFacts
  <2>3. QED
    BY <1>1, <2>1, <2>2, LimitTypes
<1>5. ASSUME DayPasses
      PROVE  /\ ThrottleTypes' /\ now' = now /\ UNCHANGED budget
             /\ job' = job /\ credit' <= credit
  BY <1>1, <1>5, NewDayFacts DEF DayPasses
<1>6. ASSUME UNCHANGED allVars
      PROVE  /\ ThrottleTypes' /\ now' = now /\ UNCHANGED budget
             /\ job' = job /\ credit' <= credit
  BY <1>1, <1>6 DEF allVars, vars, budget, ThrottleTypes
<1>7. ASSUME /\ ThrottleTypes' /\ now' = now /\ UNCHANGED budget
             /\ job' = job /\ credit' <= credit
      PROVE  /\ job' \in [Worker -> Fp \cup {Idle}] /\ InHand' \in Nat
             /\ InHand' <= InHand + 0 /\ credit' + 0 * Token <= credit
  <2>1. InHand' = InHand
    BY <1>7 DEF InHand
  <2>2. credit' \in Nat
    BY <1>7, LimitTypes DEF ThrottleTypes
  <2>3. QED
    BY <1>1, <1>2, <1>7, <2>1, <2>2
<1>8. QED
  BY <1>2, <1>3, <1>4, <1>5, <1>6, <1>7

\* An empty table is true.
LEMMA TruthInit == BudgetInit => Truth
<1> SUFFICES ASSUME BudgetInit PROVE Truth
  OBVIOUS
<1>1. ThrottleTypes
  <2>1. 0 \in 0..MaxTime /\ 0 \in 0..PerDay /\ Capacity \in 0..Capacity
    BY LimitTypes
  <2>2. QED
    BY <2>1 DEF BudgetInit, Init, ThrottleTypes
<1>2. DOMAIN seen = {} /\ posted = {} /\ turn = 0
  BY DEF BudgetInit
<1>3. IsFiniteSet({}) /\ Cardinality({}) = 0
  BY FS_EmptySet
<1>4. seen \in [DOMAIN seen -> [stamps : SUBSET Call, turn : 1..turn]]
  BY DEF BudgetInit
<1>5. TypeOK
  BY <1>1, <1>2, <1>3, <1>4, LimitTypes DEF TypeOK, ThrottleTypes, BudgetInit
<1>6. TableTrue /\ PostedTrue
  BY <1>2, <1>3 DEF TableTrue, PostedTrue
<1>7. QED
  BY <1>5, <1>6 DEF Truth

\* Every step keeps the table and the history true.
LEMMA TruthStep ==
  ASSUME Truth, [BudgetNext]_allVars
  PROVE  Truth'
<1>1. ASSUME NEW w \in Worker, Allow(w) \/ Refuse(w) PROVE Truth'
  BY <1>1, AllowTruth, RefuseTruth
<1>2. CASE TimePasses
  BY <1>2, TimeTruth
<1>3. CASE \/ \E w \in Worker, f \in Fp : Record(w, f)
           \/ \E f \in Fp : FileOtherwise(f)
           \/ DayPasses
           \/ UNCHANGED allVars
  BY <1>3, AsideFacts, AsideTruth
<1>4. QED
  BY <1>1, <1>2, <1>3 DEF BudgetNext

(***************************************************************************)
(* The cap.                                                                *)
(***************************************************************************)
CommentsOn(i) == {c \in posted : c.issue = i}

\* The history only holds the last hour, so the cap is about all of it.
LEMMA CapIsOnPosted ==
  ASSUME Truth
  PROVE  \A i \in Fp : {c \in WithinHour(posted, now) : c.issue = i} = CommentsOn(i)
<1>1. WithinHour(posted, now) = posted
  BY DEF Truth, PostedTrue, WithinHour
<1>2. QED
  BY <1>1 DEF CommentsOn

\* The comments on an issue can be counted.
LEMMA CommentsFinite ==
  ASSUME Truth, NEW i \in Fp
  PROVE  IsFiniteSet(CommentsOn(i)) /\ Cardinality(CommentsOn(i)) \in Nat
<1>1. IsFiniteSet(CommentsOn(i))
  BY FS_Subset DEF Truth, PostedTrue, CommentsOn
<1>2. QED
  BY <1>1, FS_CardinalityType

\* When an issue asks, the table knows all its comments of the last hour.
LEMMA AskingKnown ==
  ASSUME CapInv, TableLargeEnough, NEW w \in Worker, Allow(w)
  PROVE  Stamps(job[w]) = CommentsOn(job[w])
<1> DEFINE i == job[w]
<1>1. i \in Fp /\ InHand > 0
  BY AllowFacts DEF CapInv
<1>2. /\ now \in Nat /\ turn \in Nat /\ credit \in 0..Capacity /\ posted \subseteq Call
  BY LimitTypes DEF CapInv, Truth, TypeOK
<1>3. Stamps(i) \subseteq CommentsOn(i)
  BY <1>1, StampsFacts DEF CapInv, CommentsOn
<1>4. ASSUME NEW c \in CommentsOn(i)
      PROVE  c \in Stamps(i)
  <2>1. c \in posted /\ c \in Call /\ c.issue = i
    BY <1>2 DEF CommentsOn
  <2>2. Paid(c) /\ now - c.at < Hour
    BY <2>1 DEF CapInv, Truth, PostedTrue
  <2>3. turn - c.turn < MaxIssues
    BY <1>1, <1>2, <2>1, <2>2, PaidBound
  <2>4. turn - c.turn \in Int /\ MaxIssues \in Int
    BY <1>2, <2>1, LimitTypes DEF Call
  <2>5. Remembered(c)
    BY <2>1, <2>3, <2>4 DEF CapInv, ForgottenLate
  <2>6. QED
    BY <2>1, <2>2, <2>5 DEF Remembered, Stamps
<1>5. QED
  BY <1>3, <1>4

\* An allowed call keeps the cap, because all comments of the hour were
\* counted; what it drops from the table is MaxIssues turns old, and its own
\* account starts with what the other workers have in hand.
LEMMA AllowCap ==
  ASSUME CapInv, TableLargeEnough, NEW w \in Worker, Allow(w)
  PROVE  CapInv'
<1> DEFINE i == job[w]
           new == NewCall(i)
<1>1. Truth /\ Truth'
  BY AllowTruth DEF CapInv
<1>2. /\ i \in Fp /\ ~ Spent(i) /\ turn' = turn + 1 /\ posted' = posted \cup {new}
      /\ seen' = Bounded(NewTable(i)) /\ UNCHANGED vars
      /\ InHand > 0 /\ InHand' = InHand - 1 /\ InHand' <= Cardinality(Worker) - 1
  BY <1>1, AllowFacts
<1>3. /\ now' = now /\ credit' = credit /\ now \in Nat /\ turn \in Nat
      /\ credit \in Nat /\ credit' \in 0..Capacity /\ posted \subseteq Call
      /\ InHand \in Nat /\ InHand' \in Nat
  BY <1>1, <1>2, InHandType, LimitTypes DEF Truth, TypeOK, vars
<1>4. Stamps(i) = CommentsOn(i)
  BY AskingKnown
<1>5. new \in Call /\ new.issue = i /\ new.at = now /\ new.turn = turn + 1 /\ new \notin posted
  BY <1>1, <1>2, NewTableFacts DEF NewCall
<1> HIDE DEF i, new
<1>6. /\ IsTable(NewTable(i)) /\ DOMAIN NewTable(i) = DOMAIN seen \cup {i}
      /\ Cardinality(DOMAIN NewTable(i)) <= MaxIssues + 1
      /\ NewTable(i)[i].stamps = Stamps(i) \cup {new}
      /\ NewTable(i)[i].turn = turn + 1
      /\ \A j \in DOMAIN seen \ {i} : NewTable(i)[j] = seen[j]
  BY <1>1, <1>2, NewTableFacts DEF new
<1>7. \A j \in DOMAIN seen : seen[j].turn \in Nat /\ seen[j].turn <= turn
  BY <1>1 DEF Truth, TypeOK
<1>8. /\ \A j, k \in DOMAIN NewTable(i) :
            NewTable(i)[j].turn = NewTable(i)[k].turn => j = k
      /\ \A j \in DOMAIN NewTable(i) : NewTable(i)[j].turn <= turn + 1
  BY <1>3, <1>6, <1>7 DEF CapInv, TurnsDistinct
<1>9. /\ DOMAIN seen' \subseteq DOMAIN NewTable(i)
      /\ \A j \in DOMAIN seen' : seen'[j] = NewTable(i)[j]
  BY <1>2, <1>6, BoundedFacts
<1>10. ASSUME NEW j \in DOMAIN NewTable(i) \ DOMAIN seen'
       PROVE  (turn + 1) - NewTable(i)[j].turn >= MaxIssues
  <2>1. /\ Cardinality(DOMAIN NewTable(i) \ {j}) = MaxIssues
        /\ \A k \in DOMAIN NewTable(i) : NewTable(i)[j].turn <= NewTable(i)[k].turn
    BY <1>2, <1>6, BoundedFacts
  <2>2. turn + 1 \in Nat
    BY <1>3
  <2>3. (turn + 1) - NewTable(i)[j].turn >= Cardinality(DOMAIN NewTable(i) \ {j})
    BY <1>6, <1>8, <2>1, <2>2, OvertakenByAll
  <2>4. QED
    BY <2>1, <2>3
<1>11. TurnsDistinct'
  BY <1>8, <1>9 DEF TurnsDistinct
<1>12. \A c \in posted' : Paid(c)'
  <2>1. ASSUME NEW c \in posted PROVE Paid(c)'
    <3>1. c \in Call /\ Paid(c) /\ 0 \in {0, 1}
      BY <1>3 DEF CapInv
    <3>2. turn' + InHand' <= turn + InHand + 0 /\ credit' + 0 * Token <= credit
      BY <1>2, <1>3, LimitTypes
    <3>3. turn' \in Nat /\ credit \in Int /\ credit' \in Int
      BY <1>2, <1>3
    <3>4. QED
      BY <1>3, <3>1, <3>2, <3>3, PaidOn
  <2>2. ASSUME NEW c \in Call, c = new PROVE Paid(c)'
    <3>1. c.turn = turn' /\ c.at = now' /\ turn' \in Nat /\ now' \in Nat
      BY <1>2, <1>3, <1>5, <2>2
    <3>2. QED
      BY <1>2, <1>3, <3>1, PaidNew
  <2>3. ASSUME NEW c \in posted' PROVE Paid(c)'
    <3>1. c \in posted \/ (c = new /\ c \in Call)
      BY <1>2, <1>5
    <3>2. QED
      BY <2>1, <2>2, <3>1
  <2>4. QED
    BY <2>3
<1>13. ForgottenLate'
  <2>1. ASSUME NEW c \in posted'
        PROVE  Remembered(c)' \/ turn' - c.turn >= MaxIssues
    <3>1. c \in Call /\ c.turn \in Nat
      BY <1>2, <1>3, <1>5 DEF Call
    <3>2. CASE c.issue \in DOMAIN NewTable(i) /\ c \in NewTable(i)[c.issue].stamps
      <4>1. c.turn <= NewTable(i)[c.issue].turn
        <5>1. CASE c.issue = i
          <6>1. c = new \/ c \in posted
            BY <1>2
          <6>2. c.turn <= turn + 1
            BY <1>1, <1>3, <1>5, <3>1, <6>1 DEF Truth, PostedTrue
          <6>3. QED
            BY <1>6, <5>1, <6>2
        <5>2. CASE c.issue # i
          BY <1>1, <1>6, <3>2, <5>2 DEF Truth, TableTrue
        <5>3. QED
          BY <5>1, <5>2
      <4>2. CASE c.issue \in DOMAIN seen'
        BY <1>9, <3>2, <4>2 DEF Remembered
      <4>3. CASE c.issue \notin DOMAIN seen'
        <5>1. (turn + 1) - NewTable(i)[c.issue].turn >= MaxIssues
          BY <1>10, <3>2, <4>3
        <5>2. NewTable(i)[c.issue].turn \in Nat
          BY <1>6, <3>2 DEF IsTable, Entry
        <5>3. QED
          BY <1>2, <1>3, <3>1, <4>1, <5>1, <5>2, LimitTypes
      <4>4. QED
        BY <4>2, <4>3
    <3>3. CASE c = new
      BY <1>5, <1>6, <3>2, <3>3
    <3>4. CASE c \in posted /\ c.issue = i
      BY <1>4, <1>6, <3>2, <3>4 DEF CommentsOn
    <3>5. CASE c \in posted /\ c.issue # i
      <4>1. CASE Remembered(c)
        BY <1>6, <3>2, <3>5, <4>1 DEF Remembered
      <4>2. CASE turn - c.turn >= MaxIssues
        BY <1>2, <1>3, <3>1, <4>2, LimitTypes
      <4>3. QED
        BY <3>5, <4>1, <4>2 DEF CapInv, ForgottenLate
    <3>6. QED
      BY <1>2, <3>3, <3>4, <3>5
  <2>2. QED
    BY <2>1 DEF ForgottenLate
<1>14. RoutineCommentsCapped'
  <2>1. ASSUME NEW j \in Fp
        PROVE  Cardinality(CommentsOn(j)') <= MaxPerHour
    <3>1. CASE j = i
      <4>1. CommentsOn(j)' = Stamps(i) \cup {new}
        BY <1>2, <1>4, <1>5, <3>1 DEF CommentsOn
      <4>2. new \notin Stamps(i) /\ IsFiniteSet(Stamps(i)) /\ Cardinality(Stamps(i)) \in Nat
        BY <1>1, <1>2, <1>4, <1>5, StampsFacts DEF CommentsOn
      <4>3. Cardinality(Stamps(i) \cup {new}) = Cardinality(Stamps(i)) + 1
        BY <4>2, FS_AddElement
      <4>4. Cardinality(Stamps(i)) < MaxPerHour
        BY <1>2, <4>2, LimitTypes DEF Spent
      <4>5. QED
        BY <4>1, <4>2, <4>3, <4>4, LimitTypes
    <3>2. CASE j # i
      <4>1. CommentsOn(j)' = CommentsOn(j)
        BY <1>2, <1>5, <3>2 DEF CommentsOn
      <4>2. Cardinality(CommentsOn(j)) <= MaxPerHour
        BY <1>1, CapIsOnPosted DEF CapInv, RoutineCommentsCapped
      <4>3. QED
        BY <4>1, <4>2
    <3>3. QED
      BY <3>1, <3>2
  <2>2. \A j \in Fp : {c \in WithinHour(posted, now)' : c.issue = j} = CommentsOn(j)'
    <3>1. WithinHour(posted, now)' = posted'
      BY <1>1 DEF Truth, PostedTrue, WithinHour
    <3>2. QED
      BY <3>1 DEF CommentsOn
  <2>3. QED
    BY <2>1, <2>2 DEF RoutineCommentsCapped, WithinHour
<1>15. QED
  BY <1>1, <1>11, <1>12, <1>13, <1>14 DEF CapInv

\* No step but an allowed call adds a comment to the hour.
LEMMA CappedStill ==
  ASSUME CapInv, Truth', posted' \subseteq posted
  PROVE  RoutineCommentsCapped'
<1>1. ASSUME NEW j \in Fp
      PROVE  Cardinality(CommentsOn(j)') <= MaxPerHour
  <2>1. CommentsOn(j)' \subseteq CommentsOn(j)
    BY DEF CommentsOn
  <2>2. IsFiniteSet(CommentsOn(j)) /\ Cardinality(CommentsOn(j)) \in Nat
    BY CommentsFinite DEF CapInv
  <2>3. IsFiniteSet(CommentsOn(j)')
    BY <2>1, <2>2, FS_Subset
  <2>4. Cardinality(CommentsOn(j)') <= Cardinality(CommentsOn(j))
    BY <2>1, <2>2, FS_Subset
  <2>5. Cardinality(CommentsOn(j)') \in Nat
    BY <2>3, FS_CardinalityType
  <2>6. Cardinality(CommentsOn(j)) <= MaxPerHour
    BY CapIsOnPosted DEF CapInv, RoutineCommentsCapped
  <2>7. QED
    BY <2>2, <2>4, <2>5, <2>6, LimitTypes
<1>2. \A j \in Fp : {c \in WithinHour(posted, now)' : c.issue = j} = CommentsOn(j)'
  <2>1. WithinHour(posted, now)' = posted'
    BY DEF Truth, PostedTrue, WithinHour
  <2>2. QED
    BY <2>1 DEF CommentsOn
<1>3. QED
  BY <1>1, <1>2 DEF RoutineCommentsCapped, WithinHour

\* A refused call forgets only what is older than an hour.
LEMMA RefuseCap ==
  ASSUME CapInv, NEW w \in Worker, Refuse(w)
  PROVE  CapInv'
<1>1. Truth /\ Truth'
  BY RefuseTruth DEF CapInv
<1>2. /\ InHand > 0 /\ InHand' = InHand - 1
      /\ now' = now /\ credit' = credit /\ turn' = turn /\ posted' = posted
      /\ DOMAIN seen' = DOMAIN seen
      /\ \A j \in DOMAIN seen :
            /\ seen'[j].turn = seen[j].turn
            /\ \A c \in seen[j].stamps : now - c.at < Hour => c \in seen'[j].stamps
  BY <1>1, RefuseFacts DEF vars
<1>3. /\ now \in Nat /\ turn \in Nat /\ credit \in Nat /\ posted \subseteq Call
      /\ InHand \in Nat
  BY <1>1, InHandType, LimitTypes DEF Truth, TypeOK
<1>4. TurnsDistinct'
  BY <1>2 DEF CapInv, TurnsDistinct
<1>5. ASSUME NEW c \in posted' PROVE Paid(c)'
  <2>1. c \in Call /\ Paid(c) /\ 0 \in {0, 1}
    BY <1>2, <1>3 DEF CapInv
  <2>2. turn' + InHand' <= turn + InHand + 0 /\ credit' + 0 * Token <= credit
    BY <1>2, <1>3, LimitTypes
  <2>3. turn' \in Nat /\ credit \in Int /\ credit' \in Int /\ InHand' \in Nat
    BY <1>2, <1>3
  <2>4. QED
    BY <1>2, <1>3, <2>1, <2>2, <2>3, PaidOn
<1>6. ForgottenLate'
  <2>1. ASSUME NEW c \in posted'
        PROVE  Remembered(c)' \/ turn' - c.turn >= MaxIssues
    <3>1. c \in posted /\ now - c.at < Hour
      BY <1>1, <1>2 DEF Truth, PostedTrue
    <3>2. CASE Remembered(c)
      BY <1>2, <3>1, <3>2 DEF Remembered
    <3>3. CASE turn - c.turn >= MaxIssues
      BY <1>2, <3>3
    <3>4. QED
      BY <3>1, <3>2, <3>3 DEF CapInv, ForgottenLate
  <2>2. QED
    BY <2>1 DEF ForgottenLate
<1>7. RoutineCommentsCapped'
  BY <1>1, <1>2, CappedStill
<1>8. QED
  BY <1>1, <1>4, <1>5, <1>6, <1>7 DEF CapInv

\* Time adds to the accounts what it adds to the credit.
LEMMA TimeCap ==
  ASSUME CapInv, TimePasses
  PROVE  CapInv'
<1>1. Truth /\ Truth'
  BY TimeTruth DEF CapInv
<1>2. /\ now' = now + 1 /\ credit' <= credit + Rate /\ now \in Nat
      /\ posted' \subseteq posted
      /\ job' = job /\ seen' = seen /\ turn' = turn
  BY <1>1, TimeFacts
<1>3. turn \in Nat /\ credit \in Int /\ posted \subseteq Call
  BY <1>1, LimitTypes DEF Truth, TypeOK
<1>4. credit' \in Int
  BY <1>1, LimitTypes DEF Truth, TypeOK
<1>5. TurnsDistinct'
  BY <1>2 DEF CapInv, TurnsDistinct
<1>6. ASSUME NEW c \in posted' PROVE Paid(c)'
  <2>1. c \in Call /\ Paid(c)
    BY <1>2, <1>3 DEF CapInv
  <2>2. QED
    BY <1>2, <1>3, <1>4, <2>1, PaidTick
<1>7. ForgottenLate'
  BY <1>2 DEF CapInv, ForgottenLate, Remembered
<1>8. RoutineCommentsCapped'
  BY <1>1, <1>2, CappedStill
<1>9. QED
  BY <1>1, <1>5, <1>6, <1>7, <1>8 DEF CapInv

\* A filing that takes an error in hand has paid a token for it.
LEMMA AsideCap ==
  ASSUME CapInv,
         \/ \E w \in Worker, f \in Fp : Record(w, f)
         \/ \E f \in Fp : FileOtherwise(f)
         \/ DayPasses
         \/ UNCHANGED allVars
  PROVE  CapInv'
<1>1. Truth
  BY DEF CapInv
<1>2. /\ ThrottleTypes' /\ now' = now /\ seen' = seen /\ turn' = turn /\ posted' = posted
      /\ job' \in [Worker -> Fp \cup {Idle}] /\ InHand' \in Nat /\ UNCHANGED budget
  BY <1>1, AsideFacts DEF budget
<1>3. PICK k \in {0, 1} : InHand' <= InHand + k /\ credit' + k * Token <= credit
  BY <1>1, AsideFacts
<1>4. Truth'
  BY <1>1, <1>2, AsideTruth
<1>5. /\ now \in Nat /\ turn \in Nat /\ credit \in Int /\ posted \subseteq Call
      /\ InHand \in Nat
  BY <1>1, InHandType, LimitTypes DEF Truth, TypeOK
<1>6. credit' \in Int
  BY <1>2, LimitTypes DEF ThrottleTypes
<1>7. ASSUME NEW c \in posted' PROVE Paid(c)'
  <2>1. c \in Call /\ Paid(c)
    BY <1>2, <1>5 DEF CapInv
  <2>2. turn' + InHand' <= turn + InHand + k /\ turn' \in Nat
    <3>1. \A t, h, i \in Nat : i <= h + k => t + i <= t + h + k
      OBVIOUS
    <3>2. InHand' <= InHand + k
      BY <1>3
    <3>3. QED
      BY <1>2, <1>5, <3>1, <3>2
  <2>3. QED
    BY <1>2, <1>3, <1>5, <1>6, <2>1, <2>2, PaidOn
<1>8. TurnsDistinct' /\ ForgottenLate'
  BY <1>2 DEF CapInv, TurnsDistinct, ForgottenLate, Remembered
<1>9. RoutineCommentsCapped'
  BY <1>2, <1>4, CappedStill
<1>10. QED
  BY <1>4, <1>7, <1>8, <1>9 DEF CapInv

\* Without comments there is nothing to cap.
LEMMA CapInit == BudgetInit => CapInv
<1> SUFFICES ASSUME BudgetInit PROVE CapInv
  OBVIOUS
<1>1. Truth
  BY TruthInit
<1>2. DOMAIN seen = {} /\ posted = {}
  BY DEF BudgetInit
<1>3. TurnsDistinct /\ ForgottenLate
  BY <1>2 DEF TurnsDistinct, ForgottenLate
<1>4. RoutineCommentsCapped
  <2>1. \A i \in Fp : {c \in WithinHour(posted, now) : c.issue = i} = {}
    BY <1>2 DEF WithinHour
  <2>2. Cardinality({}) = 0 /\ 0 <= MaxPerHour
    BY FS_EmptySet, LimitTypes
  <2>3. QED
    BY <2>1, <2>2 DEF RoutineCommentsCapped
<1>5. QED
  BY <1>1, <1>2, <1>3, <1>4 DEF CapInv

\* Every step keeps the inductive invariant, if the table is large enough.
LEMMA CapStep ==
  ASSUME CapInv, TableLargeEnough, [BudgetNext]_allVars
  PROVE  CapInv'
<1>1. ASSUME NEW w \in Worker, Allow(w) \/ Refuse(w) PROVE CapInv'
  BY <1>1, AllowCap, RefuseCap
<1>2. CASE TimePasses
  BY <1>2, TimeCap
<1>3. CASE \/ \E w \in Worker, f \in Fp : Record(w, f)
           \/ \E f \in Fp : FileOtherwise(f)
           \/ DayPasses
           \/ UNCHANGED allVars
  BY <1>3, AsideCap
<1>4. QED
  BY <1>1, <1>2, <1>3 DEF BudgetNext

(***************************************************************************)
(* What is refused.                                                        *)
(***************************************************************************)
\* Whoever loses its comment had as many in the last hour as the cap allows:
\* the stamps that were counted are comments of the last hour.
LEMMA RefusalStep ==
  ASSUME Truth, [BudgetNext]_allVars, NEW w \in Worker,
         job[w] # Idle, job'[w] = Idle, posted' = posted
  PROVE  Cardinality({c \in WithinHour(posted, now) : c.issue = job[w]}) >= MaxPerHour
<1>1. job \in [Worker -> Fp \cup {Idle}]
  BY DEF Truth, TypeOK
<1>2. ASSUME NEW v \in Worker, Allow(v) PROVE FALSE
  <2>1. job[v] \in Fp /\ posted' = posted \cup {NewCall(job[v])}
    BY <1>2, AllowFacts
  <2>2. NewCall(job[v]) \notin posted
    BY <2>1, NewTableFacts
  <2>3. QED
    BY <2>1, <2>2
<1>3. ASSUME NEW v \in Worker, Refuse(v)
      PROVE  Cardinality({c \in WithinHour(posted, now) : c.issue = job[w]}) >= MaxPerHour
  <2>1. v = w
    BY <1>1, <1>3 DEF Refuse
  <2>2. Spent(job[w]) /\ job[w] \in Fp
    BY <1>1, <1>3, <2>1 DEF Refuse
  <2> DEFINE i == job[w]
  <2>3. Stamps(i) \subseteq CommentsOn(i) /\ Cardinality(Stamps(i)) \in Nat
    BY <2>2, StampsFacts DEF CommentsOn
  <2>4. IsFiniteSet(CommentsOn(i)) /\ Cardinality(CommentsOn(i)) \in Nat
    BY <2>2, CommentsFinite
  <2>5. Cardinality(Stamps(i)) <= Cardinality(CommentsOn(i))
    BY <2>3, <2>4, FS_Subset
  <2>6. {c \in WithinHour(posted, now) : c.issue = i} = CommentsOn(i)
    BY <2>2, CapIsOnPosted
  <2>7. Cardinality(Stamps(i)) >= MaxPerHour
    BY <2>2 DEF Spent
  <2>8. Cardinality(CommentsOn(i)) >= MaxPerHour
    <3>1. \A m, n \in Nat : n >= MaxPerHour /\ n <= m => m >= MaxPerHour
      BY LimitTypes
    <3>2. QED
      BY <2>3, <2>4, <2>5, <2>7, <3>1
  <2>9. QED
    BY <2>6, <2>8
<1>4. ASSUME NEW v \in Worker, NEW f \in Fp, Record(v, f) PROVE FALSE
  <2>1. job[v] = Idle /\ job' = [job EXCEPT ![v] = f]
    BY <1>4 DEF Record
  <2>2. v # w
    BY <2>1
  <2>3. QED
    BY <1>1, <2>1, <2>2
<1>5. CASE \/ \E f \in Fp : FileOtherwise(f)
           \/ TimePasses \/ DayPasses \/ UNCHANGED allVars
  BY <1>5 DEF FileOtherwise, TimePasses, DayPasses, allVars
<1>6. QED
  BY <1>2, <1>3, <1>4, <1>5 DEF BudgetNext

(***************************************************************************)
(* The theorems.                                                           *)
(***************************************************************************)
\* The variables keep their types, and the table its limit of entries.
THEOREM TypeCorrect == BudgetSpec => []TypeOK
<1>1. Truth => TypeOK
  BY DEF Truth
<1>2. Truth /\ [BudgetNext]_allVars => Truth'
  BY TruthStep
<1>3. QED
  BY TruthInit, <1>1, <1>2, PTL DEF BudgetSpec

\* With a table as large as TableLargeEnough asks, no issue gets more routine
\* comments in an hour than the cap, whatever the table forgets.
THEOREM CapHolds ==
  TableLargeEnough => (BudgetSpec => []RoutineCommentsCapped)
<1> SUFFICES ASSUME TableLargeEnough PROVE BudgetSpec => []RoutineCommentsCapped
  OBVIOUS
<1>1. CapInv => RoutineCommentsCapped
  BY DEF CapInv
<1>2. CapInv /\ [BudgetNext]_allVars => CapInv'
  BY CapStep
<1>3. QED
  BY CapInit, <1>1, <1>2, PTL DEF BudgetSpec

\* A comment is only refused to an issue that had its share in the last hour,
\* however small the table.
THEOREM RefusalsJustified == BudgetSpec => RefusedOnlyWhenSpent
<1> DEFINE A == \A w \in Worker :
                  (job[w] # Idle /\ job'[w] = Idle /\ posted' = posted) =>
                     Cardinality({c \in WithinHour(posted, now) : c.issue = job[w]})
                         >= MaxPerHour
<1>1. Truth /\ [BudgetNext]_allVars => Truth'
  BY TruthStep
<1>2. Truth /\ [BudgetNext]_allVars => [A]_allVars
  BY RefusalStep
<1>3. QED
  BY TruthInit, <1>1, <1>2, PTL DEF BudgetSpec, RefusedOnlyWhenSpent
=============================================================================
