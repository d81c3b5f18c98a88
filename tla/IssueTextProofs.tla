---------------------------- MODULE IssueTextProofs ----------------------------
(***************************************************************************)
(* Theorems about IssueText, for any workers, errors, limits and bounds.   *)
(*                                                                         *)
(* The arguments.  QuotedStaysQuoted: the code block open before a line is *)
(* a function of the lines above it, and Shown says of each line that it   *)
(* is quoted exactly if one is.  Fence closes what it opens whatever it    *)
(* quotes (FenceIsBlock, FencedIsBlock); a cut leaves a prefix, of which   *)
(* Clip closes the last block (ShownClip); refreshing and editing change   *)
(* lines that are neither quoted nor fences (PlainShown).                  *)
(*                                                                         *)
(* OnlyLongFencesRefused: what a cut keeps is shorter than BodyLimit with  *)
(* the note (FittingFacts), and it is closed by a run that stands in the   *)
(* text already (OpenIsRun).                                               *)
(*                                                                         *)
(* The other properties are about header and rows.  Every body there is    *)
(* has each at most once, in their order, and no further down than their   *)
(* rank and the lines people wrote on top, none of which is wide (Sound).  *)
(* So the first line of a kind is the only one, and no cut reaches it      *)
(* while there is room (ClipSays), which is what CountersFit and RowsFit   *)
(* ask for.                                                                *)
(*                                                                         *)
(* What a filing writes is made of its copy, so each invariant is about    *)
(* the issue and about every copy that has not been overtaken: that it     *)
(* shows the edits nobody missed (KeptInv), counts what had been recorded  *)
(* when it was taken, its own PATCH apart (CountInv, Base), agrees with    *)
(* itself (AgreeInv), and names the version that last reported the error   *)
(* until its own PATCH has named another (LatestInv).                      *)
(***************************************************************************)
EXTENDS IssueText, FiniteSetTheorems, SequenceTheorems, WellFoundedInduction, TLAPS

\* The constants, in the form the proofs cite them.
LEMMA Limits ==
  /\ BodyLimit \in Nat /\ HardLimit \in Nat /\ 5 < BodyLimit /\ BodyLimit <= HardLimit
  /\ MaxFilings \in Nat /\ MaxEdits \in Nat /\ MaxLost \in Nat
  /\ Event # {}
BY TextConstants

\* What holds of 0, and of the next number with each, holds of all.
LEMMA Counting ==
  ASSUME NEW S, 0 \in S, \A n \in Nat : n \in S => n + 1 \in S
  PROVE  Nat \subseteq S
<1> DEFINE out == Nat \ S
           below == {xy \in Nat \X Nat : xy[1] < xy[2]}
<1>1. SUFFICES ASSUME out # {} PROVE FALSE
  OBVIOUS
<1>2. PICK n \in out : \A k \in out : <<k, n>> \notin below
  <2>1. IsWellFoundedOn(below, Nat)
    BY NatLessThanWellFounded DEF OpToRel
  <2>2. out \subseteq Nat
    OBVIOUS
  <2> HIDE DEF below, out
  <2>3. QED
    BY <1>1, <2>1, <2>2, WFMin
<1>3. n \in Nat /\ n # 0 /\ n \notin S
  OBVIOUS
<1>4. n - 1 \in Nat /\ n - 1 < n /\ (n - 1) + 1 = n
  BY <1>3
<1>5. n - 1 \notin S
  BY <1>3, <1>4
<1>6. n - 1 \in out /\ <<n - 1, n>> \in below
  BY <1>3, <1>4, <1>5
<1>7. QED
  BY <1>2, <1>6

(***************************************************************************)
(* Sequences.                                                              *)
(***************************************************************************)
\* The start of a sequence.
LEMMA StartFacts ==
  ASSUME NEW X, NEW s \in Seq(X), NEW n \in 0..Len(s)
  PROVE  /\ SubSeq(s, 1, n) \in Seq(X)
         /\ Len(SubSeq(s, 1, n)) = n
         /\ \A k \in 1..n : SubSeq(s, 1, n)[k] = s[k]
<1>1. n \in Nat /\ n <= Len(s)
  OBVIOUS
<1>2. \A k \in 1..n : s[k] \in X
  BY <1>1
<1>3. /\ SubSeq(s, 1, n) \in Seq(X)
      /\ Len(SubSeq(s, 1, n)) = IF 1 <= n THEN n - 1 + 1 ELSE 0
      /\ \A k \in 1..(n - 1 + 1) : SubSeq(s, 1, n)[k] = s[1 + k - 1]
  BY <1>1, <1>2, SubSeqProperties
<1>4. n - 1 + 1 = n /\ \A k \in 1..n : 1 + k - 1 = k
  BY <1>1
<1>5. QED
  BY <1>1, <1>3, <1>4

\* A sequence without one of its members.
LEMMA RemoveFacts ==
  ASSUME NEW X, NEW s \in Seq(X), NEW p \in 1..Len(s)
  PROVE  /\ RemoveAt(s, p) \in Seq(X)
         /\ Len(RemoveAt(s, p)) = Len(s) - 1
         /\ \A k \in 1..(Len(s) - 1) : RemoveAt(s, p)[k] = IF k < p THEN s[k] ELSE s[k + 1]
<1> DEFINE a == SubSeq(s, 1, p - 1)
           b == SubSeq(s, p + 1, Len(s))
<1>1. a \in Seq(X) /\ Len(a) = p - 1 /\ \A k \in 1..(p - 1) : a[k] = s[k]
  <2>1. p - 1 \in 0..Len(s)
    OBVIOUS
  <2>2. QED
    BY <2>1, StartFacts
<1>2. b \in Seq(X) /\ Len(b) = Len(s) - p /\ \A k \in 1..(Len(s) - p) : b[k] = s[p + k]
  OBVIOUS
<1> HIDE DEF a, b
<1>3. /\ a \o b \in Seq(X) /\ Len(a \o b) = Len(a) + Len(b)
      /\ \A k \in 1..(Len(a) + Len(b)) :
            (a \o b)[k] = IF k <= Len(a) THEN a[k] ELSE b[k - Len(a)]
  BY <1>1, <1>2, ConcatProperties
<1>4. Len(a) + Len(b) = Len(s) - 1
  BY <1>1, <1>2
<1>5. ASSUME NEW k \in 1..(Len(s) - 1)
      PROVE  (a \o b)[k] = IF k < p THEN s[k] ELSE s[k + 1]
  <2>1. CASE k < p
    <3>1. k \in 1..(p - 1) /\ k <= Len(a)
      BY <1>1, <2>1
    <3>2. QED
      BY <1>1, <1>3, <1>4, <2>1, <3>1
  <2>2. CASE ~ (k < p)
    <3>1. /\ ~ (k <= Len(a)) /\ k - Len(a) \in 1..(Len(s) - p)
          /\ p + (k - Len(a)) = k + 1
      BY <1>1, <2>2
    <3>2. QED
      BY <1>2, <1>3, <1>4, <2>2, <3>1
  <2>3. QED
    BY <2>1, <2>2
<1>6. RemoveAt(s, p) = a \o b
  BY DEF RemoveAt, a, b
<1>7. QED
  BY <1>3, <1>4, <1>5, <1>6

\* A sequence with another member.
LEMMA InsertFacts ==
  ASSUME NEW X, NEW s \in Seq(X), NEW p \in 1..(Len(s) + 1), NEW x \in X
  PROVE  /\ InsertAt(s, p, x) \in Seq(X)
         /\ Len(InsertAt(s, p, x)) = Len(s) + 1
         /\ \A k \in 1..(Len(s) + 1) :
               InsertAt(s, p, x)[k] = IF k < p THEN s[k] ELSE IF k = p THEN x ELSE s[k - 1]
<1> DEFINE a == SubSeq(s, 1, p - 1)
           b == SubSeq(s, p, Len(s))
           e == Append(a, x)
<1>1. a \in Seq(X) /\ Len(a) = p - 1 /\ \A k \in 1..(p - 1) : a[k] = s[k]
  <2>1. p - 1 \in 0..Len(s)
    OBVIOUS
  <2>2. QED
    BY <2>1, StartFacts
<1>2. /\ b \in Seq(X) /\ Len(b) = Len(s) - p + 1
      /\ \A k \in 1..(Len(s) - p + 1) : b[k] = s[p + k - 1]
  OBVIOUS
<1> HIDE DEF a, b
<1>3. e \in Seq(X) /\ Len(e) = p /\ e[p] = x /\ \A k \in 1..(p - 1) : e[k] = a[k]
  BY <1>1
<1>4. a \o <<x>> = e
  BY <1>1, <1>3
<1> HIDE DEF e
<1>5. /\ e \o b \in Seq(X) /\ Len(e \o b) = Len(e) + Len(b)
      /\ \A k \in 1..(Len(e) + Len(b)) :
            (e \o b)[k] = IF k <= Len(e) THEN e[k] ELSE b[k - Len(e)]
  BY <1>2, <1>3, ConcatProperties
<1>6. Len(e) + Len(b) = Len(s) + 1
  BY <1>2, <1>3
<1>7. ASSUME NEW k \in 1..(Len(s) + 1)
      PROVE  (e \o b)[k] = IF k < p THEN s[k] ELSE IF k = p THEN x ELSE s[k - 1]
  <2>1. CASE k < p
    <3>1. k \in 1..(p - 1) /\ k <= Len(e)
      BY <1>3, <2>1
    <3>2. QED
      BY <1>1, <1>3, <1>5, <1>6, <2>1, <3>1
  <2>2. CASE k = p
    <3>1. p \in 1..(Len(e) + Len(b)) /\ p <= Len(e)
      BY <1>3, <1>6
    <3>2. (e \o b)[p] = x
      BY <1>3, <1>5, <3>1
    <3>3. ~ (k < p)
      BY <2>2
    <3>4. QED
      BY <2>2, <3>2, <3>3, Zenon
  <2>3. CASE k > p
    <3>1. /\ ~ (k <= Len(e)) /\ k - Len(e) \in 1..(Len(s) - p + 1)
          /\ p + (k - Len(e)) - 1 = k - 1 /\ ~ (k < p) /\ k # p
      BY <1>3, <2>3
    <3>2. QED
      BY <1>2, <1>5, <1>6, <3>1
  <2>4. k < p \/ k = p \/ k > p
    OBVIOUS
  <2>5. QED
    BY <2>1, <2>2, <2>3, <2>4, Zenon
<1>8. InsertAt(s, p, x) = e \o b
  BY <1>4 DEF InsertAt, a, b
<1>9. QED
  BY <1>5, <1>6, <1>7, <1>8

(***************************************************************************)
(* Extremes of sets of numbers.                                            *)
(***************************************************************************)
\* The largest of a set is the one that is not below another.
LEMMA MaxIs ==
  ASSUME NEW S \in SUBSET Nat, NEW m \in S, \A x \in S : x <= m
  PROVE  Max(S) = m
<1>1. \A x \in S : m >= x
  OBVIOUS
<1>2. \A y \in S : (\A x \in S : y >= x) => y = m
  OBVIOUS
<1>3. QED
  BY <1>1, <1>2 DEF Max

\* Every set of numbers has a least one.
LEMMA MinFacts ==
  ASSUME NEW S \in SUBSET Nat, S # {}
  PROVE  Min(S) \in S /\ \A x \in S : Min(S) <= x
<1> DEFINE below == {xy \in Nat \X Nat : xy[1] < xy[2]}
<1>1. PICK n \in S : \A k \in S : <<k, n>> \notin below
  <2>1. IsWellFoundedOn(below, Nat)
    BY NatLessThanWellFounded DEF OpToRel
  <2> HIDE DEF below
  <2>2. QED
    BY <2>1, WFMin
<1>2. ASSUME NEW k \in S PROVE n <= k
  <2>1. k \in Nat /\ n \in Nat /\ <<k, n>> \notin below
    BY <1>1
  <2>2. ~ (k < n)
    BY <2>1
  <2>3. QED
    BY <2>1, <2>2
<1>3. QED
  BY <1>2 DEF Min

\* A set of numbers with an upper bound has a largest one.
LEMMA MaxFacts ==
  ASSUME NEW S \in SUBSET Nat, S # {}, NEW bound \in Nat, \A x \in S : x <= bound
  PROVE  Max(S) \in S /\ \A x \in S : x <= Max(S)
<1> DEFINE B == {b \in Nat : \A x \in S : x <= b}
<1>1. Min(B) \in B /\ \A b \in B : Min(B) <= b
  <2>1. B \in SUBSET Nat /\ B # {}
    OBVIOUS
  <2> HIDE DEF B
  <2>2. QED
    BY <2>1, MinFacts
<1> DEFINE m == Min(B)
<1>2. m \in Nat /\ (\A x \in S : x <= m) /\ \A b \in B : m <= b
  BY <1>1
<1> HIDE DEF m
<1>3. m \in S
  <2>1. SUFFICES ASSUME m \notin S PROVE FALSE
    OBVIOUS
  <2>2. PICK x \in S : x \in Nat
    OBVIOUS
  <2>3. x <= m /\ x # m
    BY <1>2, <2>1, <2>2
  <2>4. m - 1 \in Nat
    BY <1>2, <2>2, <2>3
  <2>5. \A y \in S : y <= m - 1
    <3> TAKE y \in S
    <3>1. y \in Nat /\ y <= m /\ y # m
      BY <1>2, <2>1
    <3>2. QED
      BY <1>2, <3>1
  <2>6. m <= m - 1
    BY <1>2, <2>4, <2>5
  <2>7. QED
    BY <1>2, <2>6
<1>4. Max(S) = m
  BY <1>2, <1>3, MaxIs
<1>5. QED
  BY <1>2, <1>3, <1>4

(***************************************************************************)
(* Code blocks.                                                            *)
(***************************************************************************)
Kinds ==
    {"header", "occurrences", "version", "latest", "ticks", "info", "text", "note", "human"}

LineType == [kind : Kinds, val : Nat, quoted : BOOLEAN]

\* f[k] is what is open after k lines of s: the function of OpenFence.
IsOpen(f, s) ==
    f = [k \in 0..Len(s) |-> IF k = 0 THEN 0 ELSE After(f[k - 1], s[k])]

LEMMA AfterType ==
  ASSUME NEW open \in Nat, NEW line \in LineType
  PROVE  After(open, line) \in Nat
BY DEF After, LineType

\* f goes from line to line as After says.
LEMMA OpenFacts ==
  ASSUME NEW s \in Seq(LineType), NEW f, IsOpen(f, s)
  PROVE  /\ f \in [0..Len(s) -> Nat]
         /\ f[0] = 0
         /\ \A k \in 1..Len(s) : f[k] = After(f[k - 1], s[k])
<1>1. DOMAIN f = 0..Len(s) /\ Len(s) \in Nat
  BY DEF IsOpen
<1>2. f[0] = 0
  BY <1>1 DEF IsOpen
<1>3. \A k \in 1..Len(s) : f[k] = After(f[k - 1], s[k])
  BY <1>1 DEF IsOpen
<1> DEFINE S == {k \in Nat : k <= Len(s) => f[k] \in Nat}
<1>4. 0 \in S
  BY <1>2
<1>5. ASSUME NEW k \in Nat, k \in S PROVE k + 1 \in S
  <2> SUFFICES ASSUME k + 1 <= Len(s) PROVE f[k + 1] \in Nat
    OBVIOUS
  <2>1. k + 1 \in 1..Len(s) /\ (k + 1) - 1 = k /\ k <= Len(s)
    BY <1>1
  <2>2. f[k] \in Nat /\ s[k + 1] \in LineType
    BY <1>5, <2>1
  <2>3. f[k + 1] = After(f[k], s[k + 1])
    BY <1>3, <2>1
  <2>4. QED
    BY <2>2, <2>3, AfterType
<1>6. Nat \subseteq S
  <2>1. \A k \in Nat : k \in S => k + 1 \in S
    BY <1>5
  <2> HIDE DEF S
  <2>2. QED
    BY <1>4, <2>1, Counting
<1>7. \A k \in 0..Len(s) : f[k] \in Nat
  BY <1>1, <1>6
<1>8. f \in [0..Len(s) -> Nat]
  BY <1>7 DEF IsOpen
<1>9. QED
  BY <1>2, <1>3, <1>8

\* A function that goes so is f.
LEMMA OpenBySteps ==
  ASSUME NEW s \in Seq(LineType), NEW f \in [0..Len(s) -> Nat], f[0] = 0,
         \A k \in 1..Len(s) : f[k] = After(f[k - 1], s[k])
  PROVE  IsOpen(f, s)
<1>1. \A k \in 0..Len(s) : k = 0 \/ k \in 1..Len(s)
  OBVIOUS
<1>2. f = [k \in 0..Len(s) |-> f[k]]
  OBVIOUS
<1>3. \A k \in 0..Len(s) : f[k] = IF k = 0 THEN 0 ELSE After(f[k - 1], s[k])
  BY <1>1
<1>4. QED
  BY <1>2, <1>3 DEF IsOpen

LEMMA OpenUnique ==
  ASSUME NEW s \in Seq(LineType), NEW f, IsOpen(f, s), NEW g, IsOpen(g, s)
  PROVE  f = g
<1>1. /\ f \in [0..Len(s) -> Nat] /\ f[0] = 0
      /\ \A k \in 1..Len(s) : f[k] = After(f[k - 1], s[k])
  BY OpenFacts
<1>2. /\ g \in [0..Len(s) -> Nat] /\ g[0] = 0
      /\ \A k \in 1..Len(s) : g[k] = After(g[k - 1], s[k])
  BY OpenFacts
<1> DEFINE S == {k \in Nat : k <= Len(s) => f[k] = g[k]}
<1>3. 0 \in S
  BY <1>1, <1>2
<1>4. ASSUME NEW k \in Nat, k \in S PROVE k + 1 \in S
  <2> SUFFICES ASSUME k + 1 <= Len(s) PROVE f[k + 1] = g[k + 1]
    OBVIOUS
  <2>1. k + 1 \in 1..Len(s) /\ (k + 1) - 1 = k /\ k <= Len(s)
    OBVIOUS
  <2>2. f[k] = g[k]
    BY <1>4, <2>1
  <2>3. f[k + 1] = After(f[k], s[k + 1]) /\ g[k + 1] = After(g[k], s[k + 1])
    BY <1>1, <1>2, <2>1
  <2>4. QED
    BY <2>2, <2>3
<1>5. Nat \subseteq S
  <2>1. \A k \in Nat : k \in S => k + 1 \in S
    BY <1>4
  <2> HIDE DEF S
  <2>2. QED
    BY <1>3, <2>1, Counting
<1>6. \A k \in 0..Len(s) : f[k] = g[k]
  BY <1>5
<1>7. QED
  BY <1>1, <1>2, <1>6

\* Every text has one.
LEMMA OpenExists ==
  ASSUME NEW s \in Seq(LineType)
  PROVE  \E f : IsOpen(f, s)
<1> DEFINE S == {n \in Nat : \A r \in Seq(LineType) : Len(r) = n => \E f : IsOpen(f, r)}
<1>1. 0 \in S
  <2> SUFFICES ASSUME NEW r \in Seq(LineType), Len(r) = 0 PROVE \E f : IsOpen(f, r)
    OBVIOUS
  <2> DEFINE f == [k \in 0..0 |-> 0]
  <2>1. f \in [0..Len(r) -> Nat] /\ f[0] = 0 /\ \A k \in 1..Len(r) : FALSE
    OBVIOUS
  <2>2. IsOpen(f, r)
    BY <2>1, OpenBySteps
  <2>3. QED
    BY <2>2
<1>2. ASSUME NEW n \in Nat, n \in S PROVE n + 1 \in S
  <2> SUFFICES ASSUME NEW r \in Seq(LineType), Len(r) = n + 1 PROVE \E f : IsOpen(f, r)
    OBVIOUS
  <2> DEFINE t == SubSeq(r, 1, n)
  <2>1. t \in Seq(LineType) /\ Len(t) = n /\ \A k \in 1..n : t[k] = r[k]
    <3>1. n \in 0..Len(r)
      OBVIOUS
    <3>2. QED
      BY <3>1, StartFacts
  <2> HIDE DEF t
  <2>2. PICK f : IsOpen(f, t)
    BY <1>2, <2>1
  <2>3. /\ f \in [0..n -> Nat] /\ f[0] = 0
        /\ \A k \in 1..n : f[k] = After(f[k - 1], r[k])
    <3>1. /\ f \in [0..Len(t) -> Nat] /\ f[0] = 0
          /\ \A k \in 1..Len(t) : f[k] = After(f[k - 1], t[k])
      BY <2>1, <2>2, OpenFacts
    <3>2. QED
      BY <2>1, <3>1
  <2> DEFINE g == [k \in 0..(n + 1) |-> IF k = n + 1 THEN After(f[n], r[n + 1]) ELSE f[k]]
  <2>4. \A k \in 0..(n + 1) : k = n + 1 \/ k \in 0..n
    OBVIOUS
  <2>5. After(f[n], r[n + 1]) \in Nat
    BY <2>3, AfterType
  <2>6. g \in [0..(n + 1) -> Nat] /\ g[0] = 0
    BY <2>3, <2>4, <2>5
  <2>7. ASSUME NEW k \in 1..(n + 1) PROVE g[k] = After(g[k - 1], r[k])
    <3>1. k - 1 \in 0..n /\ k - 1 # n + 1 /\ g[k - 1] = f[k - 1]
      OBVIOUS
    <3>2. CASE k = n + 1
      <4>1. g[n + 1] = After(f[n], r[n + 1]) /\ (n + 1) - 1 = n
        OBVIOUS
      <4>2. QED
        BY <3>1, <3>2, <4>1
    <3>3. CASE k # n + 1
      <4>1. k \in 1..n /\ g[k] = f[k]
        BY <3>3
      <4>2. QED
        BY <2>3, <3>1, <4>1
    <3>4. QED
      BY <3>2, <3>3
  <2> HIDE DEF g
  <2>8. IsOpen(g, r)
    BY <2>6, <2>7, OpenBySteps
  <2>9. QED
    BY <2>8
<1>3. Nat \subseteq S
  <2>1. \A n \in Nat : n \in S => n + 1 \in S
    BY <1>2
  <2> HIDE DEF S
  <2>2. QED
    BY <1>1, <2>1, Counting
<1>4. Len(s) \in S
  BY <1>3
<1>5. QED
  BY <1>4

\* OpenFence is its last value.
LEMMA OpenFenceIs ==
  ASSUME NEW s \in Seq(LineType), NEW f, IsOpen(f, s)
  PROVE  OpenFence(s) = f[Len(s)]
<1> DEFINE g == CHOOSE g : IsOpen(g, s)
<1>1. IsOpen(g, s)
  OBVIOUS
<1>2. OpenFence(s) = g[Len(s)]
  BY DEF OpenFence, IsOpen
<1> HIDE DEF g
<1>3. g = f
  BY <1>1, OpenUnique
<1>4. QED
  BY <1>2, <1>3

\* A text of which f is open has exactly the quoted lines inside of blocks.
Shows(f, s) ==
    /\ f \in [0..Len(s) -> Nat]
    /\ f[0] = 0 /\ f[Len(s)] = 0
    /\ \A k \in 1..Len(s) :
          /\ f[k] = After(f[k - 1], s[k])
          /\ (s[k].kind # "ticks" \/ s[k].quoted) => (s[k].quoted <=> f[k - 1] # 0)

Shown(s) == \E f : Shows(f, s)

LEMMA ShownRenders ==
  ASSUME NEW s \in Seq(LineType), Shown(s)
  PROVE  Renders(s)
<1>1. PICK f : Shows(f, s)
  BY DEF Shown
<1>2. /\ f \in [0..Len(s) -> Nat] /\ f[0] = 0 /\ f[Len(s)] = 0
      /\ \A k \in 1..Len(s) :
            /\ f[k] = After(f[k - 1], s[k])
            /\ (s[k].kind # "ticks" \/ s[k].quoted) => (s[k].quoted <=> f[k - 1] # 0)
  BY <1>1 DEF Shows
<1>3. OpenFence(s) = 0
  BY <1>2, OpenBySteps, OpenFenceIs
<1>4. ASSUME NEW k \in 1..Len(s) PROVE OpenFence(SubSeq(s, 1, k - 1)) = f[k - 1]
  <2> DEFINE t == SubSeq(s, 1, k - 1)
             g == [j \in 0..(k - 1) |-> f[j]]
  <2>1. k - 1 \in 0..Len(s) /\ k - 1 \in Nat
    OBVIOUS
  <2>2. t \in Seq(LineType) /\ Len(t) = k - 1 /\ \A j \in 1..(k - 1) : t[j] = s[j]
    BY <2>1, StartFacts
  <2>3. g \in [0..(k - 1) -> Nat] /\ g[0] = 0
    BY <1>2, <2>1
  <2>4. ASSUME NEW j \in 1..(k - 1) PROVE g[j] = After(g[j - 1], t[j])
    <3>1. j \in 0..(k - 1) /\ j - 1 \in 0..(k - 1) /\ j \in 1..Len(s)
      BY <2>1
    <3>2. g[j] = f[j] /\ g[j - 1] = f[j - 1]
      BY <3>1
    <3>3. QED
      BY <1>2, <2>2, <3>1, <3>2
  <2>5. g[k - 1] = f[k - 1]
    BY <2>1
  <2> HIDE DEF t, g
  <2>6. IsOpen(g, t)
    BY <2>2, <2>3, <2>4, OpenBySteps
  <2>7. OpenFence(t) = g[k - 1]
    BY <2>2, <2>6, OpenFenceIs
  <2>8. QED
    BY <2>5, <2>7 DEF t
<1>5. DOMAIN s = 1..Len(s)
  OBVIOUS
<1>6. QED
  BY <1>2, <1>3, <1>4, <1>5 DEF Renders

\* Lines that neither open nor close a block, and are outside of every one.
Plain(line) == line \in LineType /\ ~ line.quoted /\ line.kind \notin {"ticks", "info"}

LEMMA AfterPlain ==
  ASSUME NEW open, NEW line, line.kind \notin {"ticks", "info"}
  PROVE  After(open, line) = open
BY DEF After

\* A plain line may come in where no block is open.
LEMMA ShownInsert ==
  ASSUME NEW s \in Seq(LineType), NEW f, Shows(f, s), NEW p \in 1..(Len(s) + 1), f[p - 1] = 0,
         NEW x, Plain(x)
  PROVE  Shown(InsertAt(s, p, x))
<1> DEFINE t == InsertAt(s, p, x)
           n == Len(s)
           g == [k \in 0..(n + 1) |-> IF k < p THEN f[k] ELSE f[k - 1]]
<1>1. x \in LineType /\ x.quoted = FALSE /\ x.kind \notin {"ticks", "info"}
  BY DEF Plain, LineType
<1>2. /\ Len(t) = n + 1 /\ n \in Nat
      /\ \A k \in 1..(n + 1) : t[k] = IF k < p THEN s[k] ELSE IF k = p THEN x ELSE s[k - 1]
  BY <1>1, InsertFacts, SMTT(30)
<1>3. /\ f \in [0..n -> Nat] /\ f[0] = 0 /\ f[n] = 0
      /\ \A k \in 1..n :
            /\ f[k] = After(f[k - 1], s[k])
            /\ (s[k].kind # "ticks" \/ s[k].quoted) => (s[k].quoted <=> f[k - 1] # 0)
  BY DEF Shows
<1>4. \A k \in 0..(n + 1) : (k < p => k \in 0..n) /\ (~ (k < p) => k - 1 \in 0..n)
  BY <1>2
<1>5. g \in [0..(n + 1) -> Nat]
  BY <1>3, <1>4
<1>6. g[0] = 0 /\ g[n + 1] = 0
  BY <1>2, <1>3
<1>7. ASSUME NEW k \in 1..(n + 1)
      PROVE  /\ g[k] = After(g[k - 1], t[k])
             /\ (t[k].kind # "ticks" \/ t[k].quoted) => (t[k].quoted <=> g[k - 1] # 0)
  <2>1. k - 1 \in 0..(n + 1)
    BY <1>2
  <2>2. CASE k < p
    <3>1. k \in 1..n /\ k - 1 < p
      BY <1>2, <2>2
    <3>2. g[k] = f[k] /\ g[k - 1] = f[k - 1] /\ t[k] = s[k]
      BY <1>2, <2>1, <2>2, <3>1
    <3>3. QED
      BY <1>3, <3>1, <3>2
  <2>3. CASE k = p
    <3>1. ~ (p < p) /\ p - 1 < p /\ p \in 1..(n + 1) /\ p \in 0..(n + 1) /\ p - 1 \in 0..(n + 1)
      BY <1>2
    <3>2. g[p] = 0 /\ g[p - 1] = 0
      BY <3>1
    <3>3. t[p] = x
      BY <1>2, <3>1
    <3>4. After(0, x) = 0
      BY <1>1, AfterPlain
    <3>5. QED
      BY <1>1, <2>3, <3>2, <3>3, <3>4
  <2>4. CASE k > p
    <3>1. k - 1 \in 1..n /\ ~ (k < p) /\ ~ (k - 1 < p) /\ k # p
      BY <1>2, <2>4
    <3>2. g[k] = f[k - 1] /\ g[k - 1] = f[(k - 1) - 1] /\ t[k] = s[k - 1]
      BY <1>2, <2>1, <3>1
    <3>3. QED
      BY <1>3, <3>1, <3>2
  <2>5. k < p \/ k = p \/ k > p
    BY <1>2
  <2>6. QED
    BY <2>2, <2>3, <2>4, <2>5, Zenon
<1> HIDE DEF g, t
<1>8. Shows(g, t)
  BY <1>2, <1>5, <1>6, <1>7 DEF Shows
<1>9. QED
  BY <1>8 DEF Shown, t

\* It may come in at the end.
LEMMA AppendInserts ==
  ASSUME NEW s \in Seq(LineType), NEW x \in LineType
  PROVE  Append(s, x) = InsertAt(s, Len(s) + 1, x)
<1> DEFINE a == Append(s, x)
           b == InsertAt(s, Len(s) + 1, x)
<1>1. /\ a \in Seq(LineType) /\ Len(a) = Len(s) + 1 /\ a[Len(s) + 1] = x
      /\ \A k \in 1..Len(s) : a[k] = s[k]
  OBVIOUS
<1>2. Len(s) + 1 \in 1..(Len(s) + 1)
  OBVIOUS
<1>3. /\ b \in Seq(LineType) /\ Len(b) = Len(s) + 1
      /\ \A k \in 1..(Len(s) + 1) :
            b[k] = IF k < Len(s) + 1 THEN s[k] ELSE IF k = Len(s) + 1 THEN x ELSE s[k - 1]
  BY <1>2, InsertFacts, SMTT(30)
<1> HIDE DEF a, b
<1>4. \A k \in 1..(Len(s) + 1) : a[k] = b[k]
  <2> TAKE k \in 1..(Len(s) + 1)
  <2>1. CASE k < Len(s) + 1
    <3>1. k \in 1..Len(s)
      BY <2>1
    <3>2. QED
      BY <1>1, <1>3, <2>1, <3>1
  <2>2. CASE ~ (k < Len(s) + 1)
    <3>1. k = Len(s) + 1 /\ ~ (Len(s) + 1 < Len(s) + 1)
      BY <2>2
    <3>2. a[Len(s) + 1] = b[Len(s) + 1]
      BY <1>1, <1>2, <1>3, <3>1
    <3>3. QED
      BY <3>1, <3>2
  <2>3. QED
    BY <2>1, <2>2
<1>5. a = b
  BY <1>1, <1>3, <1>4, SeqEqual
<1>6. QED
  BY <1>5 DEF a, b

LEMMA ShownAppend ==
  ASSUME NEW s \in Seq(LineType), Shown(s), NEW x, Plain(x)
  PROVE  Shown(Append(s, x))
<1>1. PICK f : Shows(f, s)
  BY DEF Shown
<1>2. Len(s) + 1 \in 1..(Len(s) + 1) /\ (Len(s) + 1) - 1 = Len(s)
  OBVIOUS
<1>3. f[(Len(s) + 1) - 1] = 0
  BY <1>1, <1>2 DEF Shows
<1>4. Shown(InsertAt(s, Len(s) + 1, x))
  BY <1>1, <1>2, <1>3, ShownInsert
<1>5. QED
  BY <1>4, AppendInserts DEF Plain

\* A line that opens and closes nothing may go.
LEMMA ShownRemove ==
  ASSUME NEW s \in Seq(LineType), Shown(s), NEW p \in 1..Len(s),
         s[p].kind \notin {"ticks", "info"}
  PROVE  Shown(RemoveAt(s, p))
<1> DEFINE t == RemoveAt(s, p)
           n == Len(s)
<1>1. PICK f : Shows(f, s)
  BY DEF Shown
<1> DEFINE g == [k \in 0..(n - 1) |-> IF k < p THEN f[k] ELSE f[k + 1]]
<1>2. /\ Len(t) = n - 1 /\ n \in Nat
      /\ \A k \in 1..(n - 1) : t[k] = IF k < p THEN s[k] ELSE s[k + 1]
  BY RemoveFacts
<1>3. /\ f \in [0..n -> Nat] /\ f[0] = 0 /\ f[n] = 0
      /\ \A k \in 1..n :
            /\ f[k] = After(f[k - 1], s[k])
            /\ (s[k].kind # "ticks" \/ s[k].quoted) => (s[k].quoted <=> f[k - 1] # 0)
  BY <1>1 DEF Shows
<1>4. f[p] = f[p - 1]
  BY <1>3, AfterPlain
<1>5. \A k \in 0..(n - 1) : k \in 0..n /\ k + 1 \in 0..n
  BY <1>2
<1>6. g \in [0..(n - 1) -> Nat]
  BY <1>3, <1>5
<1>7. g[0] = 0
  BY <1>2, <1>3
<1>8. g[n - 1] = 0
  <2>1. CASE p = n
    <3>1. n - 1 \in 0..(n - 1) /\ n - 1 < n
      BY <1>2
    <3>2. g[n - 1] = f[n - 1] /\ f[n - 1] = f[n]
      BY <1>4, <2>1, <3>1
    <3>3. QED
      BY <1>3, <3>2
  <2>2. CASE p # n
    <3>1. n - 1 \in 0..(n - 1) /\ ~ (n - 1 < p) /\ (n - 1) + 1 = n
      BY <1>2, <2>2
    <3>2. QED
      BY <1>3, <3>1
  <2>3. QED
    BY <2>1, <2>2
<1>9. ASSUME NEW k \in 1..(n - 1)
      PROVE  /\ g[k] = After(g[k - 1], t[k])
             /\ (t[k].kind # "ticks" \/ t[k].quoted) => (t[k].quoted <=> g[k - 1] # 0)
  <2>1. k - 1 \in 0..(n - 1) /\ k \in 0..(n - 1)
    BY <1>2
  <2>2. CASE k < p
    <3>1. k \in 1..n /\ k - 1 < p
      BY <1>2, <2>2
    <3>2. g[k] = f[k] /\ g[k - 1] = f[k - 1] /\ t[k] = s[k]
      BY <1>2, <2>1, <2>2, <3>1
    <3>3. QED
      BY <1>3, <3>1, <3>2
  <2>3. CASE ~ (k < p)
    <3>1. k + 1 \in 1..n /\ (k + 1) - 1 = k
      BY <1>2, <2>3
    <3>2. g[k] = f[k + 1] /\ t[k] = s[k + 1]
      BY <1>2, <2>1, <2>3, <3>1
    <3>3. g[k - 1] = f[k]
      <4>1. CASE k = p
        <5>1. k - 1 < p /\ g[k - 1] = f[k - 1]
          BY <2>1, <4>1
        <5>2. QED
          BY <1>4, <4>1, <5>1
      <4>2. CASE k # p
        <5>1. ~ (k - 1 < p) /\ (k - 1) + 1 = k
          BY <2>3, <4>2
        <5>2. QED
          BY <2>1, <5>1
      <4>3. QED
        BY <4>1, <4>2
    <3>4. QED
      BY <1>3, <3>1, <3>2, <3>3
  <2>4. QED
    BY <2>2, <2>3
<1> HIDE DEF g, t
<1>10. Shows(g, t)
  BY <1>2, <1>6, <1>7, <1>8, <1>9 DEF Shows
<1>11. QED
  BY <1>10 DEF Shown, t

\* What a line says may change, unless it opens or closes blocks.
LEMMA ShownChange ==
  ASSUME NEW s \in Seq(LineType), Shown(s), NEW t \in Seq(LineType), Len(t) = Len(s),
         \A k \in 1..Len(s) : /\ t[k].kind = s[k].kind /\ t[k].quoted = s[k].quoted
                              /\ s[k].kind \in {"ticks", "info"} => t[k].val = s[k].val
  PROVE  Shown(t)
<1>1. PICK f : Shows(f, s)
  BY DEF Shown
<1>2. \A k \in 1..Len(s) : After(f[k - 1], t[k]) = After(f[k - 1], s[k])
  BY DEF After
<1>3. Shows(f, t)
  BY <1>1, <1>2 DEF Shows
<1>4. QED
  BY <1>3 DEF Shown

\* Texts may be joined.
LEMMA ShownJoin ==
  ASSUME NEW s \in Seq(LineType), Shown(s), NEW t \in Seq(LineType), Shown(t)
  PROVE  s \o t \in Seq(LineType) /\ Shown(s \o t)
<1> DEFINE j == s \o t
           n == Len(s)
           m == Len(t)
<1>1. PICK f : Shows(f, s)
  BY DEF Shown
<1>2. PICK h : Shows(h, t)
  BY DEF Shown
<1> DEFINE g == [k \in 0..(n + m) |-> IF k <= n THEN f[k] ELSE h[k - n]]
<1>3. /\ j \in Seq(LineType) /\ Len(j) = n + m /\ n \in Nat /\ m \in Nat
      /\ \A k \in 1..(n + m) : j[k] = IF k <= n THEN s[k] ELSE t[k - n]
  BY ConcatProperties
<1>4. /\ f \in [0..n -> Nat] /\ f[0] = 0 /\ f[n] = 0
      /\ \A k \in 1..n :
            /\ f[k] = After(f[k - 1], s[k])
            /\ (s[k].kind # "ticks" \/ s[k].quoted) => (s[k].quoted <=> f[k - 1] # 0)
  BY <1>1 DEF Shows
<1>5. /\ h \in [0..m -> Nat] /\ h[0] = 0 /\ h[m] = 0
      /\ \A k \in 1..m :
            /\ h[k] = After(h[k - 1], t[k])
            /\ (t[k].kind # "ticks" \/ t[k].quoted) => (t[k].quoted <=> h[k - 1] # 0)
  BY <1>2 DEF Shows
<1>6. \A k \in 0..(n + m) : (k <= n => k \in 0..n) /\ (~ (k <= n) => k - n \in 0..m)
  BY <1>3
<1>7. g \in [0..(n + m) -> Nat]
  BY <1>4, <1>5, <1>6
<1>8. g[0] = 0
  BY <1>3, <1>4
<1>9. \A k \in n..(n + m) : g[k] = h[k - n]
  <2> TAKE k \in n..(n + m)
  <2>1. CASE k = n
    BY <1>3, <1>4, <1>5, <2>1
  <2>2. CASE k # n
    <3>1. k \in 0..(n + m) /\ ~ (k <= n)
      BY <1>3, <2>2
    <3>2. QED
      BY <3>1
  <2>3. QED
    BY <2>1, <2>2
<1>10. g[n + m] = 0
  <2>1. n + m \in n..(n + m) /\ (n + m) - n = m
    BY <1>3
  <2>2. QED
    BY <1>5, <1>9, <2>1
<1>11. \A k \in 0..n : g[k] = f[k]
  BY <1>3
<1> HIDE DEF g
<1>12. ASSUME NEW k \in 1..(n + m)
       PROVE  /\ g[k] = After(g[k - 1], j[k])
              /\ (j[k].kind # "ticks" \/ j[k].quoted) => (j[k].quoted <=> g[k - 1] # 0)
  <2>1. CASE k <= n
    <3>1. k \in 1..n /\ k \in 0..n /\ k - 1 \in 0..n
      BY <1>3, <2>1
    <3>2. g[k] = f[k] /\ g[k - 1] = f[k - 1] /\ j[k] = s[k]
      BY <1>3, <1>11, <2>1, <3>1
    <3>3. QED
      BY <1>4, <3>1, <3>2
  <2>2. CASE ~ (k <= n)
    <3>1. /\ k - n \in 1..m /\ k \in n..(n + m) /\ k - 1 \in n..(n + m)
          /\ (k - 1) - n = (k - n) - 1
      BY <1>3, <2>2
    <3>2. g[k] = h[k - n] /\ g[k - 1] = h[(k - n) - 1] /\ j[k] = t[k - n]
      BY <1>3, <1>9, <2>2, <3>1
    <3>3. QED
      BY <1>5, <3>1, <3>2
  <2>3. QED
    BY <2>1, <2>2
<1> HIDE DEF j
<1>13. Shows(g, j)
  BY <1>3, <1>7, <1>8, <1>10, <1>12 DEF Shows
<1>14. QED
  BY <1>3, <1>13 DEF Shown, j

(***************************************************************************)
(* Sizes.                                                                  *)
(***************************************************************************)
\* Kinds of lines that take up more than 1.
Wide == {"text", "ticks", "info"}

\* f[k] is what the first k lines of s take up: the function of Size.
IsSize(f, s) ==
    f = [k \in 0..Len(s) |-> IF k = 0 THEN 0 ELSE f[k - 1] + Width(s[k])]

LEMMA WidthFacts ==
  ASSUME NEW line \in LineType
  PROVE  /\ Width(line) \in Nat
         /\ line.kind \notin Wide => Width(line) = 1
         /\ line.kind \in Wide => Width(line) = 1 + line.val
BY DEF Width, LineType, Wide

\* f adds up the widths.
LEMMA SizeFacts ==
  ASSUME NEW s \in Seq(LineType), NEW f, IsSize(f, s)
  PROVE  /\ f \in [0..Len(s) -> Nat]
         /\ f[0] = 0
         /\ \A k \in 1..Len(s) : f[k] = f[k - 1] + Width(s[k])
<1>1. DOMAIN f = 0..Len(s) /\ Len(s) \in Nat
  BY DEF IsSize
<1>2. f[0] = 0
  BY <1>1 DEF IsSize
<1>3. \A k \in 1..Len(s) : f[k] = f[k - 1] + Width(s[k])
  BY <1>1 DEF IsSize
<1> DEFINE S == {k \in Nat : k <= Len(s) => f[k] \in Nat}
<1>4. 0 \in S
  BY <1>2
<1>5. ASSUME NEW k \in Nat, k \in S PROVE k + 1 \in S
  <2> SUFFICES ASSUME k + 1 <= Len(s) PROVE f[k + 1] \in Nat
    OBVIOUS
  <2>1. k + 1 \in 1..Len(s) /\ (k + 1) - 1 = k /\ k <= Len(s)
    BY <1>1
  <2>2. f[k] \in Nat /\ s[k + 1] \in LineType
    BY <1>5, <2>1
  <2>3. f[k + 1] = f[k] + Width(s[k + 1])
    BY <1>3, <2>1
  <2>4. QED
    BY <2>2, <2>3, WidthFacts
<1>6. Nat \subseteq S
  <2>1. \A k \in Nat : k \in S => k + 1 \in S
    BY <1>5
  <2> HIDE DEF S
  <2>2. QED
    BY <1>4, <2>1, Counting
<1>7. \A k \in 0..Len(s) : f[k] \in Nat
  BY <1>1, <1>6
<1>8. f \in [0..Len(s) -> Nat]
  BY <1>7 DEF IsSize
<1>9. QED
  BY <1>2, <1>3, <1>8

\* A function that does is f.
LEMMA SizeBySteps ==
  ASSUME NEW s \in Seq(LineType), NEW f \in [0..Len(s) -> Nat], f[0] = 0,
         \A k \in 1..Len(s) : f[k] = f[k - 1] + Width(s[k])
  PROVE  IsSize(f, s)
<1>1. \A k \in 0..Len(s) : k = 0 \/ k \in 1..Len(s)
  OBVIOUS
<1>2. f = [k \in 0..Len(s) |-> f[k]]
  OBVIOUS
<1>3. \A k \in 0..Len(s) : f[k] = IF k = 0 THEN 0 ELSE f[k - 1] + Width(s[k])
  BY <1>1
<1>4. QED
  BY <1>2, <1>3 DEF IsSize

LEMMA SizeUnique ==
  ASSUME NEW s \in Seq(LineType), NEW f, IsSize(f, s), NEW g, IsSize(g, s)
  PROVE  f = g
<1>1. /\ f \in [0..Len(s) -> Nat] /\ f[0] = 0
      /\ \A k \in 1..Len(s) : f[k] = f[k - 1] + Width(s[k])
  BY SizeFacts
<1>2. /\ g \in [0..Len(s) -> Nat] /\ g[0] = 0
      /\ \A k \in 1..Len(s) : g[k] = g[k - 1] + Width(s[k])
  BY SizeFacts
<1> DEFINE S == {k \in Nat : k <= Len(s) => f[k] = g[k]}
<1>3. 0 \in S
  BY <1>1, <1>2
<1>4. ASSUME NEW k \in Nat, k \in S PROVE k + 1 \in S
  <2> SUFFICES ASSUME k + 1 <= Len(s) PROVE f[k + 1] = g[k + 1]
    OBVIOUS
  <2>1. k + 1 \in 1..Len(s) /\ (k + 1) - 1 = k /\ k <= Len(s)
    OBVIOUS
  <2>2. f[k] = g[k]
    BY <1>4, <2>1
  <2>3. f[k + 1] = f[k] + Width(s[k + 1]) /\ g[k + 1] = g[k] + Width(s[k + 1])
    BY <1>1, <1>2, <2>1
  <2>4. QED
    BY <2>2, <2>3
<1>5. Nat \subseteq S
  <2>1. \A k \in Nat : k \in S => k + 1 \in S
    BY <1>4
  <2> HIDE DEF S
  <2>2. QED
    BY <1>3, <2>1, Counting
<1>6. \A k \in 0..Len(s) : f[k] = g[k]
  BY <1>5
<1>7. QED
  BY <1>1, <1>2, <1>6

\* Every text has one.
LEMMA SizeExists ==
  ASSUME NEW s \in Seq(LineType)
  PROVE  \E f : IsSize(f, s)
<1> DEFINE S == {n \in Nat : \A r \in Seq(LineType) : Len(r) = n => \E f : IsSize(f, r)}
<1>1. 0 \in S
  <2> SUFFICES ASSUME NEW r \in Seq(LineType), Len(r) = 0 PROVE \E f : IsSize(f, r)
    OBVIOUS
  <2> DEFINE f == [k \in 0..0 |-> 0]
  <2>1. f \in [0..Len(r) -> Nat] /\ f[0] = 0 /\ \A k \in 1..Len(r) : FALSE
    OBVIOUS
  <2>2. IsSize(f, r)
    BY <2>1, SizeBySteps
  <2>3. QED
    BY <2>2
<1>2. ASSUME NEW n \in Nat, n \in S PROVE n + 1 \in S
  <2> SUFFICES ASSUME NEW r \in Seq(LineType), Len(r) = n + 1 PROVE \E f : IsSize(f, r)
    OBVIOUS
  <2> DEFINE t == SubSeq(r, 1, n)
  <2>1. t \in Seq(LineType) /\ Len(t) = n /\ \A k \in 1..n : t[k] = r[k]
    <3>1. n \in 0..Len(r)
      OBVIOUS
    <3>2. QED
      BY <3>1, StartFacts
  <2> HIDE DEF t
  <2>2. PICK f : IsSize(f, t)
    BY <1>2, <2>1
  <2>3. /\ f \in [0..n -> Nat] /\ f[0] = 0
        /\ \A k \in 1..n : f[k] = f[k - 1] + Width(r[k])
    <3>1. /\ f \in [0..Len(t) -> Nat] /\ f[0] = 0
          /\ \A k \in 1..Len(t) : f[k] = f[k - 1] + Width(t[k])
      BY <2>1, <2>2, SizeFacts
    <3>2. QED
      BY <2>1, <3>1
  <2> DEFINE g == [k \in 0..(n + 1) |-> IF k = n + 1 THEN f[n] + Width(r[n + 1]) ELSE f[k]]
  <2>4. \A k \in 0..(n + 1) : k = n + 1 \/ k \in 0..n
    OBVIOUS
  <2>5. f[n] + Width(r[n + 1]) \in Nat
    BY <2>3, WidthFacts
  <2>6. g \in [0..(n + 1) -> Nat] /\ g[0] = 0
    BY <2>3, <2>4, <2>5
  <2>7. ASSUME NEW k \in 1..(n + 1) PROVE g[k] = g[k - 1] + Width(r[k])
    <3>1. k - 1 \in 0..n /\ k - 1 # n + 1 /\ g[k - 1] = f[k - 1]
      OBVIOUS
    <3>2. CASE k = n + 1
      <4>1. g[n + 1] = f[n] + Width(r[n + 1]) /\ (n + 1) - 1 = n
        OBVIOUS
      <4>2. QED
        BY <3>1, <3>2, <4>1
    <3>3. CASE k # n + 1
      <4>1. k \in 1..n /\ g[k] = f[k]
        BY <3>3
      <4>2. QED
        BY <2>3, <3>1, <4>1
    <3>4. QED
      BY <3>2, <3>3
  <2> HIDE DEF g
  <2>8. IsSize(g, r)
    BY <2>6, <2>7, SizeBySteps
  <2>9. QED
    BY <2>8
<1>3. Nat \subseteq S
  <2>1. \A n \in Nat : n \in S => n + 1 \in S
    BY <1>2
  <2> HIDE DEF S
  <2>2. QED
    BY <1>1, <2>1, Counting
<1>4. Len(s) \in S
  BY <1>3
<1>5. QED
  BY <1>4

\* Size is its last value.
LEMMA SizeIs ==
  ASSUME NEW s \in Seq(LineType), NEW f, IsSize(f, s)
  PROVE  Size(s) = f[Len(s)]
<1> DEFINE g == CHOOSE g : IsSize(g, s)
<1>1. IsSize(g, s)
  OBVIOUS
<1>2. Size(s) = g[Len(s)]
  BY DEF Size, IsSize
<1> HIDE DEF g
<1>3. g = f
  BY <1>1, SizeUnique
<1>4. QED
  BY <1>2, <1>3

\* It says what every start takes up.
LEMMA SizeStart ==
  ASSUME NEW s \in Seq(LineType), NEW f, IsSize(f, s), NEW n \in 0..Len(s)
  PROVE  Size(SubSeq(s, 1, n)) = f[n]
<1> DEFINE t == SubSeq(s, 1, n)
           g == [k \in 0..n |-> f[k]]
<1>1. /\ f \in [0..Len(s) -> Nat] /\ f[0] = 0
      /\ \A k \in 1..Len(s) : f[k] = f[k - 1] + Width(s[k])
  BY SizeFacts
<1>2. t \in Seq(LineType) /\ Len(t) = n /\ n \in Nat /\ \A k \in 1..n : t[k] = s[k]
  BY StartFacts
<1>3. \A k \in 0..n : k \in 0..Len(s)
  OBVIOUS
<1>4. g \in [0..n -> Nat] /\ g[0] = 0 /\ g[n] = f[n]
  BY <1>1, <1>2, <1>3
<1>5. ASSUME NEW k \in 1..n PROVE g[k] = g[k - 1] + Width(t[k])
  <2>1. k \in 0..n /\ k - 1 \in 0..n /\ k \in 1..Len(s)
    BY <1>2
  <2>2. g[k] = f[k] /\ g[k - 1] = f[k - 1]
    BY <2>1
  <2>3. QED
    BY <1>1, <1>2, <2>1, <2>2
<1> HIDE DEF t, g
<1>6. IsSize(g, t)
  BY <1>2, <1>4, <1>5, SizeBySteps
<1>7. Size(t) = g[n]
  BY <1>2, <1>6, SizeIs
<1>8. QED
  BY <1>4, <1>7 DEF t

LEMMA SizeType ==
  ASSUME NEW s \in Seq(LineType)
  PROVE  Size(s) \in Nat
<1>1. PICK f : IsSize(f, s)
  BY SizeExists
<1>2. f \in [0..Len(s) -> Nat] /\ Size(s) = f[Len(s)]
  BY <1>1, SizeFacts, SizeIs
<1>3. QED
  BY <1>2

\* One line more.
LEMMA SizeAppend ==
  ASSUME NEW s \in Seq(LineType), NEW x \in LineType
  PROVE  Size(Append(s, x)) = Size(s) + Width(x)
<1> DEFINE t == Append(s, x)
           n == Len(s)
<1>1. /\ t \in Seq(LineType) /\ Len(t) = n + 1 /\ t[n + 1] = x /\ n \in Nat
      /\ \A k \in 1..n : t[k] = s[k]
  OBVIOUS
<1>2. SubSeq(t, 1, n) = s
  <2>1. n \in 0..Len(t)
    BY <1>1
  <2> HIDE DEF t
  <2>2. /\ SubSeq(t, 1, n) \in Seq(LineType) /\ Len(SubSeq(t, 1, n)) = n
        /\ \A k \in 1..n : SubSeq(t, 1, n)[k] = t[k]
    BY <1>1, <2>1, StartFacts
  <2>3. QED
    BY <1>1, <2>2, SeqEqual
<1> HIDE DEF t
<1>3. PICK f : IsSize(f, t)
  BY <1>1, SizeExists
<1>4. /\ \A k \in 1..(n + 1) : f[k] = f[k - 1] + Width(t[k])
      /\ Size(t) = f[n + 1]
  BY <1>1, <1>3, SizeFacts, SizeIs
<1>5. Size(s) = f[n]
  <2>1. n \in 0..Len(t)
    BY <1>1
  <2>2. QED
    BY <1>1, <1>2, <1>3, <2>1, SizeStart
<1>6. n + 1 \in 1..(n + 1) /\ (n + 1) - 1 = n
  BY <1>1
<1>7. QED
  BY <1>1, <1>4, <1>5, <1>6 DEF t

\* Narrow lines take up 1 each.
LEMMA SizeNarrow ==
  ASSUME NEW s \in Seq(LineType), NEW n \in 0..Len(s), \A k \in 1..n : s[k].kind \notin Wide
  PROVE  Size(SubSeq(s, 1, n)) = n
<1>1. PICK f : IsSize(f, s)
  BY SizeExists
<1>2. f[0] = 0 /\ \A k \in 1..Len(s) : f[k] = f[k - 1] + Width(s[k])
  BY <1>1, SizeFacts
<1> DEFINE S == {k \in Nat : k <= n => f[k] = k}
<1>3. 0 \in S
  BY <1>2
<1>4. ASSUME NEW k \in Nat, k \in S PROVE k + 1 \in S
  <2> SUFFICES ASSUME k + 1 <= n PROVE f[k + 1] = k + 1
    OBVIOUS
  <2>1. k + 1 \in 1..n /\ k + 1 \in 1..Len(s) /\ (k + 1) - 1 = k /\ k <= n
    OBVIOUS
  <2>2. f[k] = k
    BY <1>4, <2>1
  <2>3. s[k + 1] \in LineType /\ s[k + 1].kind \notin Wide
    BY <2>1
  <2>4. Width(s[k + 1]) = 1
    BY <2>3, WidthFacts
  <2>5. f[k + 1] = f[k] + Width(s[k + 1])
    BY <1>2, <2>1
  <2>6. QED
    BY <2>2, <2>4, <2>5
<1>5. Nat \subseteq S
  <2>1. \A k \in Nat : k \in S => k + 1 \in S
    BY <1>4
  <2> HIDE DEF S
  <2>2. QED
    BY <1>3, <2>1, Counting
<1>6. n \in Nat /\ f[n] = n
  BY <1>5
<1>7. QED
  BY <1>1, <1>6, SizeStart

(***************************************************************************)
(* The cut.                                                                *)
(***************************************************************************)
LEMMA NoteIsPlain ==
  Plain(Note) /\ Width(Note) = 1
BY DEF Plain, Note, LineType, Kinds, Width

\* What the cut keeps has room for the note; and lines from the start that are
\* narrow are kept as long as they have.
LEMMA FittingFacts ==
  ASSUME NEW b \in Seq(LineType)
  PROVE  /\ Fitting(b) \in 0..Len(b)
         /\ Size(SubSeq(b, 1, Fitting(b))) + 1 < BodyLimit
         /\ \A n \in 0..Len(b) :
               (n + 1 < BodyLimit /\ \A k \in 1..n : b[k].kind \notin Wide) => n <= Fitting(b)
<1> DEFINE S == {n \in 0..Len(b) : Size(SubSeq(b, 1, n)) + Width(Note) < BodyLimit}
<1>1. Width(Note) = 1
  BY NoteIsPlain
<1>2. Fitting(b) = Max(S)
  BY DEF Fitting
<1>3. \A n \in 0..Len(b) :
         (n + 1 < BodyLimit /\ \A k \in 1..n : b[k].kind \notin Wide) => n \in S
  BY <1>1, SizeNarrow
<1>4. 0 \in S
  BY <1>3, Limits
<1>5. Max(S) \in S /\ \A n \in S : n <= Max(S)
  <2>1. S \in SUBSET Nat /\ S # {} /\ Len(b) \in Nat /\ \A n \in S : n <= Len(b)
    BY <1>4
  <2> HIDE DEF S
  <2>2. QED
    BY <2>1, MaxFacts
<1>6. Fitting(b) \in S
  BY <1>2, <1>5
<1>7. \A n \in S : n <= Fitting(b)
  BY <1>2, <1>5
<1>8. QED
  BY <1>1, <1>3, <1>6, <1>7

\* A text that is short enough stays; of any other the first lines stay, and
\* only a fence and the note come after them.
LEMMA ClipFacts ==
  ASSUME NEW b \in Seq(LineType)
  PROVE  /\ Clip(b) \in Seq(LineType)
         /\ Size(b) <= BodyLimit => Clip(b) = b
         /\ ~ (Size(b) <= BodyLimit) =>
               /\ Len(Clip(b)) \in (Fitting(b) + 1)..(Fitting(b) + 2)
               /\ Clip(b)[Len(Clip(b))] = Note
               /\ \A k \in 1..Fitting(b) : Clip(b)[k] = b[k]
               /\ \A k \in (Fitting(b) + 1)..Len(Clip(b)) :
                     Clip(b)[k].kind \in {"ticks", "note"} /\ ~ Clip(b)[k].quoted
<1>1. CASE Size(b) <= BodyLimit
  BY <1>1 DEF Clip
<1>2. CASE ~ (Size(b) <= BodyLimit)
  <2> DEFINE n == Fitting(b)
             kept == SubSeq(b, 1, n)
             open == OpenFence(kept)
             fence == Line("ticks", open)
             closed == Append(kept, fence)
  <2>1. n \in 0..Len(b) /\ n \in Nat
    BY FittingFacts
  <2>2. Clip(b) = IF open = 0 THEN Append(kept, Note) ELSE Append(closed, Note)
    BY <1>2 DEF Clip
  <2> HIDE DEF n
  <2>3. kept \in Seq(LineType) /\ Len(kept) = n /\ \A k \in 1..n : kept[k] = b[k]
    BY <2>1, StartFacts
  <2> HIDE DEF kept
  <2>4. open \in Nat
    <3>1. PICK f : IsOpen(f, kept)
      BY <2>3, OpenExists
    <3>2. f \in [0..n -> Nat] /\ open = f[n]
      BY <2>3, <3>1, OpenFacts, OpenFenceIs
    <3>3. QED
      BY <2>1, <3>2
  <2> HIDE DEF open
  <2>5. /\ fence \in LineType /\ fence.kind = "ticks" /\ fence.quoted = FALSE
        /\ Note \in LineType /\ Note.kind = "note" /\ Note.quoted = FALSE
    BY <2>4 DEF Line, LineType, Kinds, Note
  <2> HIDE DEF fence
  <2>6. CASE open = 0
    <3> DEFINE c == Append(kept, Note)
    <3>1. /\ c \in Seq(LineType) /\ Len(c) = n + 1 /\ c[n + 1] = Note
          /\ \A k \in 1..n : c[k] = b[k]
      BY <2>1, <2>3, <2>5
    <3>2. Clip(b) = c
      BY <2>2, <2>6
    <3> HIDE DEF c
    <3>3. \A k \in (n + 1)..Len(c) : c[k].kind \in {"ticks", "note"} /\ ~ c[k].quoted
      <4>1. \A k \in (n + 1)..Len(c) : k = n + 1
        BY <2>1, <3>1
      <4>2. QED
        BY <2>5, <3>1, <4>1
    <3>4. n + 1 \in (n + 1)..(n + 2)
      BY <2>1
    <3>5. QED
      BY <1>2, <3>1, <3>2, <3>3, <3>4 DEF n
  <2>7. CASE open # 0
    <3> DEFINE c == Append(closed, Note)
    <3>1. /\ closed \in Seq(LineType) /\ Len(closed) = n + 1 /\ closed[n + 1] = fence
          /\ \A k \in 1..n : closed[k] = b[k]
      BY <2>1, <2>3, <2>5
    <3>2. Clip(b) = c
      BY <2>2, <2>7
    <3> HIDE DEF closed
    <3>3. /\ c \in Seq(LineType) /\ Len(c) = n + 2 /\ c[n + 2] = Note
          /\ c[n + 1] = fence /\ \A k \in 1..n : c[k] = b[k]
      BY <2>1, <2>5, <3>1
    <3> HIDE DEF c
    <3>4. \A k \in (n + 1)..Len(c) : c[k].kind \in {"ticks", "note"} /\ ~ c[k].quoted
      <4>1. \A k \in (n + 1)..Len(c) : k = n + 1 \/ k = n + 2
        BY <2>1, <3>3
      <4>2. QED
        BY <2>5, <3>3, <4>1
    <3>5. n + 2 \in (n + 1)..(n + 2)
      BY <2>1
    <3>6. QED
      BY <1>2, <3>2, <3>3, <3>4, <3>5 DEF n
  <2>8. QED
    BY <2>6, <2>7
<1>3. QED
  BY <1>1, <1>2

\* What is open is a run of the text.
LEMMA OpenIsRun ==
  ASSUME NEW s \in Seq(LineType), OpenFence(s) # 0
  PROVE  /\ OpenFence(s) \in Nat
         /\ \E k \in 1..Len(s) : s[k].kind \in {"ticks", "info"} /\ s[k].val = OpenFence(s)
<1>1. PICK f : IsOpen(f, s)
  BY OpenExists
<1>2. /\ f \in [0..Len(s) -> Nat] /\ f[0] = 0 /\ OpenFence(s) = f[Len(s)]
      /\ \A k \in 1..Len(s) : f[k] = After(f[k - 1], s[k])
  BY <1>1, OpenFacts, OpenFenceIs
<1> DEFINE Runs(n) == \E k \in 1..Len(s) : s[k].kind \in {"ticks", "info"} /\ s[k].val = n
           S == {k \in Nat : k <= Len(s) => f[k] = 0 \/ Runs(f[k])}
<1>3. 0 \in S
  BY <1>2
<1>4. ASSUME NEW k \in Nat, k \in S PROVE k + 1 \in S
  <2> SUFFICES ASSUME k + 1 <= Len(s) PROVE f[k + 1] = 0 \/ Runs(f[k + 1])
    OBVIOUS
  <2>1. k + 1 \in 1..Len(s) /\ (k + 1) - 1 = k /\ k <= Len(s)
    OBVIOUS
  <2>2. f[k] = 0 \/ Runs(f[k])
    BY <1>4, <2>1
  <2>3. f[k + 1] = After(f[k], s[k + 1])
    BY <1>2, <2>1
  <2>4. \/ f[k + 1] \in {0, f[k]}
        \/ s[k + 1].kind \in {"ticks", "info"} /\ f[k + 1] = s[k + 1].val
    BY <2>3 DEF After
  <2>5. QED
    BY <2>1, <2>2, <2>4
<1>5. Nat \subseteq S
  <2>1. \A k \in Nat : k \in S => k + 1 \in S
    BY <1>4
  <2> HIDE DEF S
  <2>2. QED
    BY <1>3, <2>1, Counting
<1>6. f[Len(s)] = 0 \/ Runs(f[Len(s)])
  BY <1>5
<1>7. QED
  BY <1>2, <1>6

\* So a text that is clipped takes up no more than its limit, but for the fence
\* that closes it.
LEMMA ClipSize ==
  ASSUME NEW b \in Seq(LineType)
  PROVE  \/ Size(Clip(b)) <= BodyLimit
         \/ \E k \in 1..Len(b) :
               b[k].kind \in {"ticks", "info"} /\ Size(Clip(b)) <= BodyLimit + b[k].val
<1>1. CASE Size(b) <= BodyLimit
  BY <1>1 DEF Clip
<1>2. CASE ~ (Size(b) <= BodyLimit)
  <2> DEFINE n == Fitting(b)
             kept == SubSeq(b, 1, n)
             open == OpenFence(kept)
             fence == Line("ticks", open)
             closed == Append(kept, fence)
  <2>1. n \in 0..Len(b) /\ n \in Nat /\ Size(kept) + 1 < BodyLimit
    BY FittingFacts
  <2>2. Clip(b) = IF open = 0 THEN Append(kept, Note) ELSE Append(closed, Note)
    BY <1>2 DEF Clip
  <2> HIDE DEF n
  <2>3. kept \in Seq(LineType) /\ Len(kept) = n /\ \A k \in 1..n : kept[k] = b[k]
    BY <2>1, StartFacts
  <2> HIDE DEF kept
  <2>4. Note \in LineType /\ Width(Note) = 1
    BY NoteIsPlain DEF Plain
  <2>5. Size(kept) \in Nat
    BY <2>3, SizeType
  <2>6. CASE open = 0
    <3>1. Size(Clip(b)) = Size(kept) + 1
      BY <2>2, <2>3, <2>4, <2>6, SizeAppend
    <3>2. QED
      BY <2>1, <2>5, <3>1, Limits
  <2>7. CASE open # 0
    <3>1. /\ open \in Nat
          /\ \E k \in 1..n : kept[k].kind \in {"ticks", "info"} /\ kept[k].val = open
      BY <2>3, <2>7, OpenIsRun
    <3> HIDE DEF open
    <3>2. PICK k \in 1..Len(b) : b[k].kind \in {"ticks", "info"} /\ b[k].val = open
      <4>1. \A k \in 1..n : k \in 1..Len(b)
        BY <2>1
      <4>2. QED
        BY <2>3, <3>1, <4>1
    <3>3. fence \in LineType /\ Width(fence) = 1 + open
      BY <3>1 DEF Line, LineType, Kinds, Width
    <3> HIDE DEF fence
    <3>4. closed \in Seq(LineType) /\ Size(closed) = Size(kept) + Width(fence)
      BY <2>3, <3>3, SizeAppend
    <3> HIDE DEF closed
    <3>5. Size(Append(closed, Note)) = Size(closed) + 1
      BY <2>4, <3>4, SizeAppend
    <3>6. Size(Clip(b)) = Size(kept) + (1 + open) + 1
      BY <2>2, <2>7, <3>3, <3>4, <3>5
    <3>7. Size(Clip(b)) <= BodyLimit + open
      BY <2>1, <2>5, <3>1, <3>6, Limits
    <3>8. QED
      BY <3>2, <3>7
  <2>8. QED
    BY <2>6, <2>7
<1>3. QED
  BY <1>1, <1>2

\* The cut leaves no block open.
LEMMA ShownClip ==
  ASSUME NEW b \in Seq(LineType), Shown(b)
  PROVE  Shown(Clip(b))
<1>1. CASE Size(b) <= BodyLimit
  BY <1>1, ClipFacts
<1>2. CASE ~ (Size(b) <= BodyLimit)
  <2> DEFINE n == Fitting(b)
             kept == SubSeq(b, 1, n)
             open == OpenFence(kept)
             fence == Line("ticks", open)
             closed == Append(kept, fence)
  <2>1. n \in 0..Len(b) /\ n \in Nat
    BY FittingFacts
  <2>2. Clip(b) = IF open = 0 THEN Append(kept, Note) ELSE Append(closed, Note)
    BY <1>2 DEF Clip
  <2> HIDE DEF n
  <2>3. kept \in Seq(LineType) /\ Len(kept) = n /\ \A k \in 1..n : kept[k] = b[k]
    BY <2>1, StartFacts
  <2>4. PICK f : Shows(f, b)
    BY DEF Shown
  <2>5. /\ f \in [0..Len(b) -> Nat] /\ f[0] = 0
        /\ \A k \in 1..Len(b) :
              /\ f[k] = After(f[k - 1], b[k])
              /\ (b[k].kind # "ticks" \/ b[k].quoted) => (b[k].quoted <=> f[k - 1] # 0)
    BY <2>4 DEF Shows
  <2> DEFINE g == [k \in 0..n |-> f[k]]
  <2>6. g \in [0..n -> Nat] /\ g[0] = 0 /\ g[n] = f[n] /\ f[n] \in Nat
    BY <2>1, <2>5
  <2>7. ASSUME NEW k \in 1..n
        PROVE  /\ g[k] = After(g[k - 1], kept[k])
               /\ (kept[k].kind # "ticks" \/ kept[k].quoted) =>
                     (kept[k].quoted <=> g[k - 1] # 0)
    <3>1. k \in 0..n /\ k - 1 \in 0..n /\ k \in 1..Len(b)
      BY <2>1
    <3>2. g[k] = f[k] /\ g[k - 1] = f[k - 1] /\ kept[k] = b[k]
      BY <2>3, <3>1
    <3>3. QED
      BY <2>5, <3>1, <3>2
  <2> HIDE DEF kept, g
  <2>8. open = f[n]
    <3>1. IsOpen(g, kept)
      BY <2>3, <2>6, <2>7, OpenBySteps
    <3>2. QED
      BY <2>3, <2>6, <3>1, OpenFenceIs
  <2> HIDE DEF open
  <2>9. CASE open = 0
    <3>1. Shows(g, kept)
      BY <2>3, <2>6, <2>7, <2>8, <2>9 DEF Shows
    <3>2. Shown(kept)
      BY <3>1 DEF Shown
    <3>3. QED
      BY <2>3, <2>2, <2>9, <3>2, NoteIsPlain, ShownAppend
  <2>10. CASE open # 0
    <3>1. open \in Nat
      BY <2>6, <2>8
    <3>2. fence \in LineType /\ fence.kind = "ticks" /\ fence.quoted = FALSE /\ fence.val = open
      BY <3>1 DEF Line, LineType, Kinds
    <3>3. After(open, fence) = 0
      BY <2>10, <3>1, <3>2 DEF After
    <3> HIDE DEF fence
    <3>4. /\ closed \in Seq(LineType) /\ Len(closed) = n + 1 /\ closed[n + 1] = fence
          /\ \A k \in 1..n : closed[k] = kept[k]
      BY <2>1, <2>3, <3>2
    <3> HIDE DEF closed
    <3> DEFINE h == [k \in 0..(n + 1) |-> IF k = n + 1 THEN 0 ELSE g[k]]
    <3>5. \A k \in 0..(n + 1) : k # n + 1 => k \in 0..n
      BY <2>1
    <3>6. h \in [0..(n + 1) -> Nat]
      BY <2>6, <3>5
    <3>7. h[0] = 0 /\ h[n + 1] = 0
      BY <2>1, <2>6
    <3>8. ASSUME NEW k \in 1..(n + 1)
          PROVE  /\ h[k] = After(h[k - 1], closed[k])
                 /\ (closed[k].kind # "ticks" \/ closed[k].quoted) =>
                       (closed[k].quoted <=> h[k - 1] # 0)
      <4>1. /\ k \in 0..(n + 1) /\ k - 1 \in 0..(n + 1) /\ k - 1 # n + 1
            /\ h[k - 1] = g[k - 1]
        BY <2>1
      <4>2. CASE k = n + 1
        <5>1. (n + 1) - 1 \in 0..(n + 1) /\ (n + 1) - 1 # n + 1 /\ (n + 1) - 1 = n
          BY <2>1
        <5>2. h[n + 1] = 0 /\ h[(n + 1) - 1] = g[n]
          BY <3>7, <5>1
        <5>3. g[n] = open
          BY <2>6, <2>8
        <5>4. QED
          BY <3>2, <3>3, <3>4, <4>2, <5>2, <5>3
      <4>3. CASE k # n + 1
        <5>1. k \in 1..n /\ h[k] = g[k]
          BY <2>1, <4>1, <4>3
        <5>2. QED
          BY <2>7, <3>4, <4>1, <5>1
      <4>4. QED
        BY <4>2, <4>3
    <3> HIDE DEF h
    <3>9. Shows(h, closed)
      BY <3>4, <3>6, <3>7, <3>8 DEF Shows
    <3>10. Shown(closed)
      BY <3>9 DEF Shown
    <3>11. QED
      BY <2>2, <2>10, <3>4, <3>10, NoteIsPlain, ShownAppend
  <2>11. QED
    BY <2>9, <2>10
<1>3. QED
  BY <1>1, <1>2

(***************************************************************************)
(* Fences.                                                                 *)
(***************************************************************************)
\* The lines of a text.
LEMMA LineFacts ==
  ASSUME NEW s \in Seq(LineType)
  PROVE  \A k \in 1..Len(s) : /\ s[k] \in LineType /\ s[k].val \in Nat
                              /\ s[k].kind \in Kinds /\ s[k].quoted \in BOOLEAN
<1>1. \A k \in 1..Len(s) : s[k] \in LineType
  OBVIOUS
<1>2. QED
  BY <1>1 DEF LineType

\* What the lines of a text say has an upper bound.
LEMMA ValuesBounded ==
  ASSUME NEW s \in Seq(LineType)
  PROVE  \E b \in Nat : \A k \in 1..Len(s) : s[k].val <= b
<1> DEFINE S == {n \in Nat : n <= Len(s) => \E b \in Nat : \A k \in 1..n : s[k].val <= b}
<1>1. 0 \in S
  OBVIOUS
<1>2. ASSUME NEW n \in Nat, n \in S PROVE n + 1 \in S
  <2> SUFFICES ASSUME n + 1 <= Len(s) PROVE \E b \in Nat : \A k \in 1..(n + 1) : s[k].val <= b
    OBVIOUS
  <2>1. n <= Len(s) /\ n + 1 \in 1..Len(s)
    OBVIOUS
  <2>2. PICK b \in Nat : \A k \in 1..n : s[k].val <= b
    BY <1>2, <2>1
  <2>3. \A k \in 1..(n + 1) : s[k].val \in Nat
    <3>1. \A k \in 1..(n + 1) : k \in 1..Len(s)
      BY <2>1
    <3>2. QED
      BY <3>1, LineFacts
  <2> DEFINE v == s[n + 1].val
             c == b + v
  <2>4. v \in Nat /\ c \in Nat /\ v <= c /\ b <= c
    BY <2>3
  <2>5. ASSUME NEW k \in 1..(n + 1) PROVE s[k].val <= c
    <3>1. CASE k = n + 1
      BY <2>4, <3>1
    <3>2. CASE k # n + 1
      <4>1. k \in 1..n
        BY <3>2
      <4>2. s[k].val <= b /\ s[k].val \in Nat
        BY <2>2, <2>3, <4>1
      <4>3. QED
        BY <2>4, <4>2
    <3>3. QED
      BY <3>1, <3>2
  <2> HIDE DEF c
  <2>6. QED
    BY <2>4, <2>5
<1>3. Nat \subseteq S
  <2>1. \A n \in Nat : n \in S => n + 1 \in S
    BY <1>2
  <2> HIDE DEF S
  <2>2. QED
    BY <1>1, <2>1, Counting
<1>4. Len(s) \in Nat /\ Len(s) <= Len(s)
  OBVIOUS
<1>5. QED
  BY <1>3, <1>4

\* A fence is longer than any run of backticks in what it quotes.
LEMMA MarkerFacts ==
  ASSUME NEW s \in Seq(LineType)
  PROVE  /\ Marker(s) \in Nat /\ Marker(s) >= 3
         /\ \A k \in 1..Len(s) : s[k].kind \in {"ticks", "info"} => s[k].val < Marker(s)
<1> DEFINE runs == Places(s, "ticks") \cup Places(s, "info")
           S == {3} \cup {s[k].val + 1 : k \in runs}
<1>1. \A k \in 1..Len(s) : s[k].val \in Nat
  BY LineFacts
<1>2. /\ \A k \in runs : k \in 1..Len(s)
      /\ \A k \in 1..Len(s) : s[k].kind \in {"ticks", "info"} => k \in runs
  BY DEF Places
<1>3. PICK b \in Nat : \A k \in 1..Len(s) : s[k].val <= b
  BY ValuesBounded
<1>4. S \in SUBSET Nat /\ S # {} /\ 3 \in S
  BY <1>1, <1>2
<1>5. \A x \in S : x <= b + 3
  BY <1>1, <1>2, <1>3
<1>6. b + 3 \in Nat
  OBVIOUS
<1>7. Marker(s) = Max(S)
  BY DEF Marker
<1>8. \A k \in 1..Len(s) : s[k].kind \in {"ticks", "info"} => s[k].val + 1 \in S
  BY <1>2
<1> HIDE DEF S, runs
<1>9. Max(S) \in S /\ \A x \in S : x <= Max(S)
  BY <1>4, <1>5, <1>6, MaxFacts
<1> DEFINE m == Max(S)
<1>10. m \in Nat /\ 3 <= m
  BY <1>4, <1>9
<1>11. \A k \in 1..Len(s) : s[k].kind \in {"ticks", "info"} => s[k].val + 1 <= m
  BY <1>8, <1>9
<1> HIDE DEF m
<1>12. \A k \in 1..Len(s) : s[k].kind \in {"ticks", "info"} => s[k].val < m
  BY <1>1, <1>10, <1>11
<1>13. Marker(s) = m
  BY <1>7 DEF m
<1>14. QED
  BY <1>10, <1>12, <1>13

\* Sections, fences around them, headings: nothing that is refreshed.
Block(s) ==
    /\ s \in Seq(LineType) /\ Shown(s)
    /\ \A k \in 1..Len(s) : s[k].kind \in {"text", "ticks", "info"}

LEMMA BlockJoin ==
  ASSUME NEW s, Block(s), NEW t, Block(t)
  PROVE  Block(s \o t)
<1>1. s \o t \in Seq(LineType) /\ Shown(s \o t)
  BY ShownJoin DEF Block
<1>2. /\ Len(s \o t) = Len(s) + Len(t) /\ Len(s) \in Nat /\ Len(t) \in Nat
      /\ \A k \in 1..(Len(s) + Len(t)) : (s \o t)[k] = IF k <= Len(s) THEN s[k] ELSE t[k - Len(s)]
  BY ConcatProperties DEF Block
<1>3. ASSUME NEW k \in 1..(Len(s) + Len(t))
      PROVE  (s \o t)[k].kind \in {"text", "ticks", "info"}
  <2>1. CASE k <= Len(s)
    <3>1. k \in 1..Len(s)
      BY <1>2, <2>1
    <3>2. QED
      BY <1>2, <2>1, <3>1 DEF Block
  <2>2. CASE ~ (k <= Len(s))
    <3>1. k - Len(s) \in 1..Len(t)
      BY <1>2, <2>2
    <3>2. QED
      BY <1>2, <2>2, <3>1 DEF Block
  <2>3. QED
    BY <2>1, <2>2
<1>4. QED
  BY <1>1, <1>2, <1>3 DEF Block

\* A fenced section shows every quoted line as code.
LEMMA FenceIsBlock ==
  ASSUME NEW q \in Seq(Quotes)
  PROVE  Block(Fence(q))
<1> DEFINE m == Marker(q)
           o == Line("ticks", m)
           a == <<o>> \o q
           t == Append(a, o)
           n == Len(q)
           g == [k \in 0..(n + 2) |-> IF k = 0 \/ k = n + 2 THEN 0 ELSE m]
<1>1. q \in Seq(LineType) /\ n \in Nat
  <2>1. Quotes \subseteq LineType
    BY DEF Quotes, LineType, Kinds
  <2>2. n \in Nat /\ q \in [1..n -> Quotes]
    OBVIOUS
  <2>3. q \in [1..n -> LineType]
    BY <2>1, <2>2
  <2>4. QED
    BY <2>2, <2>3
<1>2. m \in Nat /\ m # 0 /\ \A k \in 1..n : q[k].kind \in {"ticks", "info"} => q[k].val < m
  BY <1>1, MarkerFacts
<1>3. \A k \in 1..n : /\ q[k].kind \in {"text", "ticks", "info"} /\ q[k].quoted = TRUE
                      /\ q[k].val \in Nat
  <2>1. \A k \in 1..n : q[k] \in Quotes
    OBVIOUS
  <2>2. QED
    BY <2>1 DEF Quotes
<1> HIDE DEF m
<1>4. o \in LineType /\ o.kind = "ticks" /\ o.quoted = FALSE /\ o.val = m
  BY <1>2 DEF Line, LineType, Kinds
<1> HIDE DEF o
<1>5. /\ a \in Seq(LineType) /\ Len(a) = n + 1
      /\ \A k \in 1..(n + 1) : a[k] = IF k = 1 THEN o ELSE q[k - 1]
  <2>1. <<o>> \in Seq(LineType) /\ Len(<<o>>) = 1 /\ <<o>>[1] = o
    BY <1>4
  <2>2. /\ a \in Seq(LineType) /\ Len(a) = 1 + n
        /\ \A k \in 1..(1 + n) : a[k] = IF k <= 1 THEN <<o>>[k] ELSE q[k - 1]
    BY <1>1, <2>1, ConcatProperties
  <2>3. 1 + n = n + 1 /\ \A k \in 1..(n + 1) : k <= 1 <=> k = 1
    BY <1>1
  <2>4. QED
    BY <2>1, <2>2, <2>3
<1> HIDE DEF a
<1>6. /\ t \in Seq(LineType) /\ Len(t) = n + 2 /\ t[n + 2] = o
      /\ \A k \in 1..(n + 1) : t[k] = a[k]
  BY <1>1, <1>4, <1>5
<1>7. Fence(q) = t
  <2>1. a \o <<o>> = t
    BY <1>4, <1>5
  <2>2. QED
    BY <2>1 DEF Fence, a, o, m
<1> HIDE DEF t
<1>8. t[1] = o /\ \A k \in 2..(n + 1) : t[k] = q[k - 1] /\ k - 1 \in 1..n
  BY <1>1, <1>5, <1>6
<1>9. g \in [0..(n + 2) -> Nat] /\ g[0] = 0 /\ g[n + 2] = 0 /\ \A k \in 1..(n + 1) : g[k] = m
  BY <1>1, <1>2
<1> HIDE DEF g
<1>10. ASSUME NEW k \in 1..(n + 2)
       PROVE  /\ g[k] = After(g[k - 1], t[k])
              /\ (t[k].kind # "ticks" \/ t[k].quoted) => (t[k].quoted <=> g[k - 1] # 0)
              /\ t[k].kind \in {"text", "ticks", "info"}
  <2>1. CASE k = 1
    <3>1. 1 - 1 = 0 /\ 1 \in 1..(n + 1)
      BY <1>1
    <3>2. g[1] = m /\ g[1 - 1] = 0 /\ t[1] = o
      BY <1>8, <1>9, <3>1
    <3>3. After(0, o) = m
      BY <1>4 DEF After
    <3>4. QED
      BY <1>4, <2>1, <3>2, <3>3
  <2>2. CASE k \in 2..(n + 1)
    <3>1. k \in 1..(n + 1) /\ k - 1 \in 1..(n + 1)
      BY <1>1, <2>2
    <3>2. g[k] = m /\ g[k - 1] = m /\ t[k] = q[k - 1] /\ k - 1 \in 1..n
      BY <1>8, <1>9, <2>2, <3>1
    <3>3. /\ t[k].kind \in {"text", "ticks", "info"} /\ t[k].quoted = TRUE /\ t[k].val \in Nat
          /\ t[k].kind \in {"ticks", "info"} => t[k].val < m
      BY <1>2, <1>3, <3>2
    <3>4. After(m, t[k]) = m
      BY <1>2, <3>3 DEF After
    <3>5. QED
      BY <1>2, <3>2, <3>3, <3>4
  <2>3. CASE k = n + 2
    <3>1. (n + 2) - 1 = n + 1 /\ n + 1 \in 1..(n + 1)
      BY <1>1
    <3>2. g[n + 2] = 0 /\ g[(n + 2) - 1] = m /\ t[n + 2] = o
      BY <1>6, <1>9, <3>1
    <3>3. After(m, o) = 0
      BY <1>2, <1>4 DEF After
    <3>4. QED
      BY <1>4, <2>3, <3>2, <3>3
  <2>4. k = 1 \/ k \in 2..(n + 1) \/ k = n + 2
    BY <1>1
  <2>5. QED
    BY <2>1, <2>2, <2>3, <2>4, Zenon
<1>11. Shows(g, t)
  BY <1>6, <1>9, <1>10 DEF Shows
<1>12. QED
  BY <1>6, <1>7, <1>10, <1>11 DEF Block, Shown

\* Texts joined one after the other, up to the n-th.
IsFlat(f, ss, n) == f = [k \in 1..n |-> IF k = 1 THEN ss[k] ELSE f[k - 1] \o ss[k]]

LEMMA FlatExists ==
  ASSUME NEW ss, NEW n \in Nat
  PROVE  \E f : IsFlat(f, ss, n)
<1> DEFINE S == {j \in Nat : \E f : IsFlat(f, ss, j)}
<1>1. 0 \in S
  <2> DEFINE f == [k \in 1..0 |-> 0]
  <2>1. IsFlat(f, ss, 0)
    BY DEF IsFlat
  <2>2. QED
    BY <2>1
<1>2. ASSUME NEW j \in Nat, j \in S PROVE j + 1 \in S
  <2>1. PICK f : IsFlat(f, ss, j)
    BY <1>2
  <2> DEFINE g == [k \in 1..(j + 1) |-> IF k = 1 THEN ss[k] ELSE f[k - 1] \o ss[k]]
  <2>2. \A k \in 1..j : f[k] = g[k]
    <3>1. \A k \in 1..j : k \in 1..(j + 1)
      OBVIOUS
    <3>2. \A k \in 1..j : f[k] = IF k = 1 THEN ss[k] ELSE f[k - 1] \o ss[k]
      BY <2>1 DEF IsFlat
    <3>3. QED
      BY <3>1, <3>2
  <2>3. \A k \in 1..(j + 1) : k # 1 => k - 1 \in 1..j
    OBVIOUS
  <2>4. \A k \in 1..(j + 1) :
           g[k] = IF k = 1 THEN ss[k] ELSE g[k - 1] \o ss[k]
    <3> TAKE k \in 1..(j + 1)
    <3>1. g[k] = IF k = 1 THEN ss[k] ELSE f[k - 1] \o ss[k]
      OBVIOUS
    <3> HIDE DEF g
    <3>2. QED
      BY <2>2, <2>3, <3>1
  <2>5. g = [k \in 1..(j + 1) |-> g[k]]
    OBVIOUS
  <2> HIDE DEF g
  <2>6. IsFlat(g, ss, j + 1)
    BY <2>4, <2>5 DEF IsFlat
  <2>7. QED
    BY <2>6
<1>3. Nat \subseteq S
  <2>1. \A j \in Nat : j \in S => j + 1 \in S
    BY <1>2
  <2> HIDE DEF S
  <2>2. QED
    BY <1>1, <2>1, Counting
<1>4. QED
  BY <1>3

\* So do the sections of an error, one after the other.
LEMMA FencedIsBlock ==
  ASSUME NEW e \in Event
  PROVE  Block(Fenced(e))
<1> DEFINE n == Len(e.sections)
           ss == [s \in DOMAIN e.sections |-> Fence(e.sections[s])]
<1>1. e.sections \in Seq(Seq(Quotes)) /\ n \in Nat
  BY TextConstants
<1>2. DOMAIN ss = 1..n /\ DOMAIN e.sections = 1..n
  BY <1>1
<1>3. Len(ss) = n
  BY <1>1, <1>2
<1>4. \A k \in 1..n : Block(ss[k])
  <2> TAKE k \in 1..n
  <2>1. e.sections[k] \in Seq(Quotes)
    BY <1>1
  <2>2. ss[k] = Fence(e.sections[k])
    BY <1>2
  <2>3. QED
    BY <2>1, <2>2, FenceIsBlock
<1>5. Fenced(e) = FlattenSeq(ss)
  BY DEF Fenced
<1> HIDE DEF ss
<1>6. CASE n = 0
  <2>1. ss = << >>
    <3>1. DOMAIN ss = {}
      BY <1>2, <1>6
    <3>2. ss = [k \in {} |-> 0] /\ << >> = [k \in {} |-> 0]
      <4>1. ss = [k \in DOMAIN ss |-> ss[k]]
        BY DEF ss
      <4>2. QED
        BY <3>1, <4>1
    <3>3. QED
      BY <3>2
  <2>2. FlattenSeq(ss) = << >>
    BY <1>3, <1>6, <2>1 DEF FlattenSeq
  <2>3. Block(<< >>)
    <3> DEFINE g == [k \in 0..0 |-> 0]
    <3>1. g \in [0..0 -> Nat] /\ g[0] = 0 /\ Len(<< >>) = 0 /\ << >> \in Seq(LineType)
      OBVIOUS
    <3>2. \A k \in 1..0 : FALSE
      OBVIOUS
    <3>3. Shows(g, << >>)
      BY <3>1, <3>2 DEF Shows
    <3>4. QED
      BY <3>1, <3>2, <3>3 DEF Block, Shown
  <2>4. QED
    BY <1>5, <2>2, <2>3
<1>7. CASE n # 0
  <2> DEFINE f == CHOOSE f : IsFlat(f, ss, n)
  <2>1. IsFlat(f, ss, n)
    BY <1>1, FlatExists
  <2>2. FlattenSeq(ss) = f[n]
    BY <1>3, <1>7 DEF FlattenSeq, IsFlat
  <2> HIDE DEF f
  <2>3. \A k \in 1..n : f[k] = IF k = 1 THEN ss[k] ELSE f[k - 1] \o ss[k]
    BY <2>1 DEF IsFlat
  <2> DEFINE S == {j \in Nat : j \in 1..n => Block(f[j])}
  <2>4. 0 \in S
    OBVIOUS
  <2>5. ASSUME NEW j \in Nat, j \in S PROVE j + 1 \in S
    <3> SUFFICES ASSUME j + 1 \in 1..n PROVE Block(f[j + 1])
      OBVIOUS
    <3>1. CASE j = 0
      <4>1. 1 \in 1..n /\ f[1] = ss[1] /\ j + 1 = 1
        BY <1>1, <1>7, <2>3, <3>1
      <4>2. QED
        BY <1>4, <4>1
    <3>2. CASE j # 0
      <4>1. j \in 1..n /\ j + 1 # 1 /\ (j + 1) - 1 = j
        BY <1>1, <3>2
      <4>2. f[j + 1] = f[j] \o ss[j + 1]
        BY <2>3, <4>1
      <4>3. Block(f[j]) /\ Block(ss[j + 1])
        BY <1>4, <2>5, <4>1
      <4>4. Block(f[j] \o ss[j + 1])
        BY <4>3, BlockJoin
      <4>5. QED
        BY <4>2, <4>4
    <3>3. QED
      BY <3>1, <3>2
  <2>6. Nat \subseteq S
    <3>1. \A j \in Nat : j \in S => j + 1 \in S
      BY <2>5
    <3> HIDE DEF S
    <3>2. QED
      BY <2>4, <3>1, Counting
  <2>7. n \in 1..n
    BY <1>1, <1>7
  <2>8. QED
    BY <1>1, <1>5, <2>2, <2>6, <2>7
<1>8. QED
  BY <1>6, <1>7

(***************************************************************************)
(* Header and rows.                                                        *)
(***************************************************************************)
Rows == {"header", "occurrences", "version", "latest"}

Rank(kind) ==
    IF kind = "header" THEN 1
    ELSE IF kind = "occurrences" THEN 2
    ELSE IF kind = "version" THEN 3
    ELSE 4

\* Header and rows come in their order, each at most once ...
Ordered(b) ==
    \A i, j \in 1..Len(b) :
        (i < j /\ b[i].kind \in Rows /\ b[j].kind \in Rows) => Rank(b[i].kind) < Rank(b[j].kind)

\* ... and near the top, where n lines may have come in above them.
High(b, n) == \A k \in 1..Len(b) : b[k].kind \in Rows => k <= n + Rank(b[k].kind)

\* None of them quotes the error.
OwnRows(b) == \A k \in 1..Len(b) : b[k].kind \in Rows => ~ b[k].quoted

\* What is above them is narrow.
Lean(b) ==
    \A k \in 1..Len(b) : b[k].kind \in Rows => \A j \in 1..k : b[j].kind \notin Wide

\* Every body there is.
Sound(b, n) ==
    /\ b \in Seq(LineType) /\ Shown(b)
    /\ Ordered(b) /\ High(b, n) /\ OwnRows(b) /\ Lean(b)

LEMMA RankFacts ==
  /\ \A kind \in Rows : Rank(kind) \in 1..4
  /\ \A kind \in Rows : Rank(kind) > 3 => kind = "latest"
  /\ Rank("header") = 1 /\ Rank("occurrences") = 2 /\ Rank("version") = 3 /\ Rank("latest") = 4
  /\ Rows \subseteq Kinds /\ "human" \in Kinds /\ "note" \in Kinds
  /\ "human" \notin Rows /\ "note" \notin Rows /\ "text" \notin Rows
  /\ "ticks" \notin Rows /\ "info" \notin Rows
  /\ \A kind \in Rows : kind \notin Wide
BY DEF Rank, Rows, Kinds, Wide

\* What a body says, line by line.
LEMMA ValsFacts ==
  ASSUME NEW b \in Seq(LineType), NEW kind
  PROVE  /\ \A v : v \in Vals(b, kind) <=> \E k \in 1..Len(b) : b[k].kind = kind /\ b[k].val = v
         /\ Has(b, kind) <=> \E k \in 1..Len(b) : b[k].kind = kind
         /\ Has(b, kind) <=> Vals(b, kind) # {}
         /\ Vals(b, kind) \in SUBSET Nat
<1>1. \A k : k \in Places(b, kind) <=> k \in 1..Len(b) /\ b[k].kind = kind
  BY DEF Places
<1>2. \A k \in 1..Len(b) : b[k].val \in Nat
  BY LineFacts
<1>3. QED
  BY <1>1, <1>2 DEF Has, Vals

LEMMA AtFacts ==
  ASSUME NEW b \in Seq(LineType), NEW kind, Has(b, kind)
  PROVE  /\ At(b, kind) \in 1..Len(b) /\ b[At(b, kind)].kind = kind
         /\ \A k \in 1..Len(b) : b[k].kind = kind => At(b, kind) <= k
<1>1. \A k : k \in Places(b, kind) <=> k \in 1..Len(b) /\ b[k].kind = kind
  BY DEF Places
<1>2. Places(b, kind) \in SUBSET Nat /\ Places(b, kind) # {}
  BY <1>1 DEF Has
<1>3. At(b, kind) \in Places(b, kind) /\ \A k \in Places(b, kind) : At(b, kind) <= k
  BY <1>2, MinFacts DEF At
<1>4. QED
  BY <1>1, <1>3

\* There is at most one header and one row of each kind.
LEMMA OneRow ==
  ASSUME NEW b \in Seq(LineType), Ordered(b), NEW kind \in Rows,
         NEW i \in 1..Len(b), b[i].kind = kind, NEW j \in 1..Len(b), b[j].kind = kind
  PROVE  i = j
<1>1. Rank(kind) \in Nat
  BY RankFacts
<1>2. ~ (i < j) /\ ~ (j < i)
  BY <1>1 DEF Ordered
<1>3. QED
  BY <1>2

LEMMA RowAt ==
  ASSUME NEW b \in Seq(LineType), Ordered(b), NEW kind \in Rows, Has(b, kind)
  PROVE  /\ At(b, kind) \in 1..Len(b) /\ b[At(b, kind)].kind = kind
         /\ \A k \in 1..Len(b) : b[k].kind = kind <=> k = At(b, kind)
         /\ Vals(b, kind) = {b[At(b, kind)].val}
<1> DEFINE p == At(b, kind)
<1>1. p \in 1..Len(b) /\ b[p].kind = kind
  BY AtFacts
<1> HIDE DEF p
<1>2. \A k \in 1..Len(b) : b[k].kind = kind => k = p
  BY <1>1, OneRow
<1>3. \A v : v \in Vals(b, kind) <=> v = b[p].val
  BY <1>1, <1>2, ValsFacts
<1>4. Vals(b, kind) = {b[p].val}
  BY <1>3
<1>5. QED
  BY <1>1, <1>2, <1>4 DEF p

\* A body whose header and rows are another's, in the same order and not much
\* further down, has them as it should.
LEMMA Embedded ==
  ASSUME NEW b \in Seq(LineType), NEW n \in Nat, Ordered(b), High(b, n), OwnRows(b),
         NEW c \in Seq(LineType), NEW d \in Nat, NEW m,
         \A k \in 1..Len(c) :
            c[k].kind \in Rows => /\ m[k] \in 1..Len(b) /\ b[m[k]].kind = c[k].kind
                                  /\ b[m[k]].quoted = c[k].quoted
                                  /\ k <= m[k] + d,
         \A i, j \in 1..Len(c) : i < j => m[i] < m[j]
  PROVE  Ordered(c) /\ High(c, n + d) /\ OwnRows(c)
<1>1. Ordered(c)
  BY DEF Ordered
<1>2. High(c, n + d)
  <2> SUFFICES ASSUME NEW k \in 1..Len(c), c[k].kind \in Rows
               PROVE  k <= (n + d) + Rank(c[k].kind)
    BY DEF High
  <2>1. /\ m[k] \in 1..Len(b) /\ b[m[k]].kind = c[k].kind /\ k <= m[k] + d
    OBVIOUS
  <2>2. m[k] <= n + Rank(c[k].kind)
    BY <2>1 DEF High
  <2>3. Rank(c[k].kind) \in Nat /\ m[k] \in Nat /\ k \in Nat
    BY <2>1, RankFacts, SMTT(30)
  <2>4. QED
    BY <2>1, <2>2, <2>3
<1>3. OwnRows(c)
  BY DEF OwnRows
<1>4. QED
  BY <1>1, <1>2, <1>3

LEMMA LeanEmbedded ==
  ASSUME NEW b \in Seq(LineType), Lean(b), NEW c \in Seq(LineType), NEW m,
         \A k \in 1..Len(c) :
            c[k].kind \in Rows =>
               /\ m[k] \in 1..Len(b) /\ b[m[k]].kind = c[k].kind
               /\ \A j \in 1..k : c[j].kind \in Wide =>
                     m[j] \in 1..Len(b) /\ b[m[j]].kind = c[j].kind,
         \A i, j \in 1..Len(c) : i < j => m[i] < m[j]
  PROVE  Lean(c)
<1> SUFFICES ASSUME NEW k \in 1..Len(c), c[k].kind \in Rows, NEW j \in 1..k, c[j].kind \in Wide
             PROVE  FALSE
  BY DEF Lean
<1>1. /\ m[k] \in 1..Len(b) /\ b[m[k]].kind \in Rows
      /\ m[j] \in 1..Len(b) /\ b[m[j]].kind \in Wide
  OBVIOUS
<1>2. j \in 1..Len(c) /\ (j = k \/ j < k)
  OBVIOUS
<1>3. m[j] \in 1..m[k]
  BY <1>1, <1>2
<1>4. QED
  BY <1>1, <1>3 DEF Lean

(***************************************************************************)
(* The operations on a body, by what they do to its lines and to what it   *)
(* says.                                                                   *)
(***************************************************************************)
LEMMA SoundFacts ==
  ASSUME NEW b, NEW n, Sound(b, n)
  PROVE  b \in Seq(LineType) /\ Shown(b) /\ Ordered(b) /\ High(b, n) /\ OwnRows(b) /\ Lean(b)
BY DEF Sound

\* Substituting the header or a row.
LEMMA SoundPut ==
  ASSUME NEW n \in Nat, NEW b, Sound(b, n), NEW kind \in Rows, NEW val \in Nat
  PROVE  /\ Sound(Put(b, kind, val), n)
         /\ Len(Put(b, kind, val)) = Len(b)
         /\ \A k \in 1..Len(b) :
               /\ Put(b, kind, val)[k].kind = b[k].kind
               /\ Put(b, kind, val)[k].quoted = b[k].quoted
               /\ Put(b, kind, val)[k].val = IF b[k].kind = kind THEN val ELSE b[k].val
<1> DEFINE c == Put(b, kind, val)
<1>1. b \in Seq(LineType) /\ Shown(b) /\ Ordered(b) /\ High(b, n) /\ OwnRows(b) /\ Lean(b)
  BY SoundFacts
<1>2. /\ c \in Seq(LineType) /\ Len(c) = Len(b)
      /\ \A k \in 1..Len(b) :
            /\ c[k].kind = b[k].kind /\ c[k].quoted = b[k].quoted
            /\ c[k].val = IF b[k].kind = kind THEN val ELSE b[k].val
  <2>1. CASE Has(b, kind)
    <3> DEFINE p == At(b, kind)
               x == [b[p] EXCEPT !.val = val]
               t == [b EXCEPT ![p] = x]
    <3>1. p \in 1..Len(b) /\ \A k \in 1..Len(b) : b[k].kind = kind <=> k = p
      BY <1>1, <2>1, RowAt
    <3>2. c = t
      BY <2>1 DEF Put
    <3> HIDE DEF p, c
    <3>3. b[p] \in LineType
      BY <1>1, <3>1
    <3>4. x \in LineType /\ x.kind = b[p].kind /\ x.quoted = b[p].quoted /\ x.val = val
      BY <3>3 DEF LineType
    <3> HIDE DEF x
    <3>5. /\ t \in Seq(LineType) /\ Len(t) = Len(b) /\ t[p] = x
          /\ \A k \in 1..Len(b) : k # p => t[k] = b[k]
      BY <1>1, <3>1, <3>4
    <3> HIDE DEF t
    <3>6. ASSUME NEW k \in 1..Len(b)
          PROVE  /\ t[k].kind = b[k].kind /\ t[k].quoted = b[k].quoted
                 /\ t[k].val = IF b[k].kind = kind THEN val ELSE b[k].val
      <4>1. CASE k = p
        <5>1. b[p].kind = kind
          BY <3>1
        <5>2. QED
          BY <3>4, <3>5, <4>1, <5>1
      <4>2. CASE k # p
        <5>1. b[k].kind # kind /\ t[k] = b[k]
          BY <3>1, <3>5, <4>2
        <5>2. QED
          BY <5>1
      <4>3. QED
        BY <4>1, <4>2
    <3>7. QED
      BY <3>2, <3>5, <3>6
  <2>2. CASE ~ Has(b, kind)
    <3>1. c = b
      BY <2>2 DEF Put
    <3>2. \A k \in 1..Len(b) : b[k].kind # kind
      BY <1>1, <2>2, ValsFacts
    <3> HIDE DEF c
    <3>3. QED
      BY <1>1, <3>1, <3>2
  <2>3. QED
    BY <2>1, <2>2
<1> HIDE DEF c
<1>3. Shown(c)
  <2>1. \A k \in 1..Len(b) : b[k].kind \in {"ticks", "info"} => c[k].val = b[k].val
    BY <1>2, RankFacts
  <2>2. QED
    BY <1>1, <1>2, <2>1, ShownChange
<1>4. Ordered(c)
  BY <1>1, <1>2 DEF Ordered
<1>5. High(c, n)
  BY <1>1, <1>2 DEF High
<1>6. OwnRows(c) /\ Lean(c)
  BY <1>1, <1>2 DEF OwnRows, Lean
<1>7. Sound(c, n)
  BY <1>2, <1>3, <1>4, <1>5, <1>6 DEF Sound
<1>8. QED
  BY <1>2, <1>7 DEF c

\* So it says that everywhere, and nothing else differently.
LEMMA PutSays ==
  ASSUME NEW n \in Nat, NEW b, Sound(b, n), NEW kind \in Rows, NEW val \in Nat
  PROVE  /\ Vals(Put(b, kind, val), kind) = IF Vals(b, kind) = {} THEN {} ELSE {val}
         /\ \A other : other # kind => Vals(Put(b, kind, val), other) = Vals(b, other)
<1> DEFINE c == Put(b, kind, val)
<1>1. b \in Seq(LineType)
  BY SoundFacts
<1>2. /\ c \in Seq(LineType) /\ Len(c) = Len(b)
      /\ \A k \in 1..Len(b) :
            /\ c[k].kind = b[k].kind
            /\ c[k].val = IF b[k].kind = kind THEN val ELSE b[k].val
  BY SoundPut, SoundFacts
<1> HIDE DEF c
<1>a. c \in Seq(LineType)
  BY <1>2
<1>3. /\ \A v : v \in Vals(c, kind) <=> \E k \in 1..Len(b) : b[k].kind = kind /\ val = v
      /\ Vals(b, kind) # {} <=> \E k \in 1..Len(b) : b[k].kind = kind
  <2>0. Vals(b, kind) # {} <=> \E k \in 1..Len(b) : b[k].kind = kind
    BY <1>1, ValsFacts
  <2>1. \A v : v \in Vals(c, kind) <=> \E k \in 1..Len(c) : c[k].kind = kind /\ c[k].val = v
    BY <1>a, ValsFacts
  <2>2. \A k \in 1..Len(b) : b[k].kind = kind => c[k].kind = kind /\ c[k].val = val
    BY <1>2
  <2>3. \A k \in 1..Len(b) : c[k].kind = kind => b[k].kind = kind /\ c[k].val = val
    BY <1>2
  <2>4. QED
    BY <1>2, <2>0, <2>1, <2>2, <2>3, Zenon
<1>4. Vals(c, kind) = IF Vals(b, kind) = {} THEN {} ELSE {val}
  BY <1>3
<1>5. ASSUME NEW other, other # kind PROVE Vals(c, other) = Vals(b, other)
  <2>0. \A v : v \in Vals(b, other) <=> \E k \in 1..Len(b) : b[k].kind = other /\ b[k].val = v
    BY <1>1, ValsFacts
  <2>1. \A v : v \in Vals(c, other) <=> \E k \in 1..Len(c) : c[k].kind = other /\ c[k].val = v
    BY <1>a, ValsFacts
  <2>2. \A k \in 1..Len(b) : b[k].kind = other => c[k].kind = other /\ c[k].val = b[k].val
    BY <1>2, <1>5
  <2>3. \A k \in 1..Len(b) : c[k].kind = other => b[k].kind = other /\ c[k].val = b[k].val
    BY <1>2, <1>5
  <2>4. ASSUME NEW v, v \in Vals(c, other) PROVE v \in Vals(b, other)
    <3>1. PICK k \in 1..Len(b) : c[k].kind = other /\ c[k].val = v
      BY <1>2, <2>1, <2>4
    <3>2. b[k].kind = other /\ b[k].val = v
      BY <2>3, <3>1
    <3>3. QED
      BY <2>0, <3>2
  <2>5. ASSUME NEW v, v \in Vals(b, other) PROVE v \in Vals(c, other)
    <3>1. PICK k \in 1..Len(b) : b[k].kind = other /\ b[k].val = v
      BY <2>0, <2>5
    <3>2. c[k].kind = other /\ c[k].val = v
      BY <2>2, <3>1
    <3>3. QED
      BY <1>2, <2>1, <3>2
  <2>6. QED
    BY <2>4, <2>5
<1>6. QED
  BY <1>4, <1>5 DEF c

\* Dropping it.
LEMMA SoundDrop ==
  ASSUME NEW n \in Nat, NEW b, Sound(b, n), NEW kind \in Rows
  PROVE  Sound(Drop(b, kind), n)
<1>1. b \in Seq(LineType) /\ Shown(b) /\ Ordered(b) /\ High(b, n) /\ OwnRows(b) /\ Lean(b)
  BY SoundFacts
<1>2. CASE ~ Has(b, kind)
  BY <1>2 DEF Drop
<1>3. CASE Has(b, kind)
  <2> DEFINE p == At(b, kind)
             c == RemoveAt(b, p)
             m == [k \in 1..Len(c) |-> IF k < p THEN k ELSE k + 1]
  <2>1. p \in 1..Len(b) /\ b[p].kind = kind
    BY <1>1, <1>3, RowAt
  <2>2. Drop(b, kind) = c
    BY <1>3 DEF Drop
  <2> HIDE DEF p
  <2>3. /\ c \in Seq(LineType) /\ Len(c) = Len(b) - 1
        /\ \A k \in 1..(Len(b) - 1) : c[k] = IF k < p THEN b[k] ELSE b[k + 1]
    BY <1>1, <2>1, RemoveFacts
  <2>4. b[p].kind \notin {"ticks", "info"}
    BY <2>1, RankFacts
  <2>5. Shown(c)
    BY <1>1, <2>1, <2>4, ShownRemove
  <2> HIDE DEF c
  <2>6. \A k \in 1..Len(c) : /\ m[k] \in 1..Len(b) /\ b[m[k]] = c[k]
                             /\ k <= m[k] + 0
    BY <1>1, <2>1, <2>3
  <2>7. \A i, j \in 1..Len(c) : i < j => m[i] < m[j]
    BY <1>1, <2>1, <2>3
  <2> HIDE DEF m
  <2>8. Lean(c)
    <3>1. \A k \in 1..Len(c) :
            c[k].kind \in Rows =>
               /\ m[k] \in 1..Len(b) /\ b[m[k]].kind = c[k].kind
               /\ \A j \in 1..k : c[j].kind \in Wide =>
                     m[j] \in 1..Len(b) /\ b[m[j]].kind = c[j].kind
      <4>1. \A k \in 1..Len(c) : \A j \in 1..k : j \in 1..Len(c)
        OBVIOUS
      <4>2. QED
        BY <2>6, <4>1
    <3>2. QED
      BY ONLY <1>1, <2>3, <2>7, <3>1, LeanEmbedded
  <2>9. Ordered(c) /\ High(c, n + 0) /\ OwnRows(c)
    <3>1. \A k \in 1..Len(c) :
            c[k].kind \in Rows => /\ m[k] \in 1..Len(b) /\ b[m[k]].kind = c[k].kind
                                  /\ b[m[k]].quoted = c[k].quoted
                                  /\ k <= m[k] + 0
      BY <2>6
    <3>2. 0 \in Nat
      OBVIOUS
    <3>3. QED
      BY ONLY <1>1, <2>3, <2>7, <3>1, <3>2, n \in Nat, Embedded
  <2>10. n + 0 = n
    OBVIOUS
  <2>11. QED
    BY <2>2, <2>3, <2>5, <2>8, <2>9, <2>10 DEF Sound
<1>4. QED
  BY <1>2, <1>3

LEMMA DropSays ==
  ASSUME NEW n \in Nat, NEW b, Sound(b, n), NEW kind \in Rows
  PROVE  /\ Vals(Drop(b, kind), kind) = {}
         /\ \A other : other # kind => Vals(Drop(b, kind), other) = Vals(b, other)
<1>1. b \in Seq(LineType) /\ Ordered(b)
  BY SoundFacts
<1>2. CASE ~ Has(b, kind)
  <2>1. Drop(b, kind) = b
    BY <1>2 DEF Drop
  <2>2. Vals(b, kind) = {}
    BY <1>1, <1>2, ValsFacts
  <2>3. QED
    BY <2>1, <2>2
<1>3. CASE Has(b, kind)
  <2> DEFINE p == At(b, kind)
             c == RemoveAt(b, p)
  <2>1. p \in 1..Len(b) /\ \A k \in 1..Len(b) : b[k].kind = kind <=> k = p
    BY <1>1, <1>3, RowAt
  <2>2. Drop(b, kind) = c
    BY <1>3 DEF Drop
  <2> HIDE DEF p
  <2>3. /\ c \in Seq(LineType) /\ Len(c) = Len(b) - 1
        /\ \A k \in 1..(Len(b) - 1) : c[k] = IF k < p THEN b[k] ELSE b[k + 1]
    BY <1>1, <2>1, RemoveFacts
  <2> HIDE DEF c
  <2>4. \A k \in 1..Len(c) : \E j \in 1..Len(b) : j # p /\ b[j] = c[k]
    <3> TAKE k \in 1..Len(c)
    <3>1. CASE k < p
      <4>1. k \in 1..Len(b) /\ k # p /\ b[k] = c[k]
        BY <1>1, <2>1, <2>3, <3>1
      <4>2. QED
        BY <4>1
    <3>2. CASE ~ (k < p)
      <4>1. k + 1 \in 1..Len(b) /\ k + 1 # p /\ b[k + 1] = c[k]
        BY <1>1, <2>1, <2>3, <3>2
      <4>2. QED
        BY <4>1
    <3>3. QED
      BY <3>1, <3>2
  <2>5. \A j \in 1..Len(b) : j # p => \E k \in 1..Len(c) : c[k] = b[j]
    <3> TAKE j \in 1..Len(b)
    <3> HAVE j # p
    <3>1. CASE j < p
      <4>1. j \in 1..Len(c) /\ c[j] = b[j]
        BY <1>1, <2>1, <2>3, <3>1
      <4>2. QED
        BY <4>1
    <3>2. CASE ~ (j < p)
      <4>1. j - 1 \in 1..Len(c) /\ ~ (j - 1 < p) /\ (j - 1) + 1 = j
        BY <1>1, <2>1, <2>3, <3>2
      <4>2. c[j - 1] = b[j]
        BY <2>3, <4>1
      <4>3. QED
        BY <4>1, <4>2
    <3>3. QED
      BY <3>1, <3>2
  <2>6. Vals(c, kind) = {}
    <3>1. \A k \in 1..Len(c) : c[k].kind # kind
      BY <2>1, <2>4
    <3>2. QED
      BY <2>3, <3>1, ValsFacts
  <2>7. ASSUME NEW other, other # kind PROVE Vals(c, other) = Vals(b, other)
    <3>1. ASSUME NEW v, v \in Vals(c, other) PROVE v \in Vals(b, other)
      <4>1. PICK k \in 1..Len(c) : c[k].kind = other /\ c[k].val = v
        BY <2>3, <3>1, ValsFacts
      <4>2. PICK j \in 1..Len(b) : b[j] = c[k]
        BY <2>4
      <4>3. QED
        BY <1>1, <4>1, <4>2, ValsFacts
    <3>2. ASSUME NEW v, v \in Vals(b, other) PROVE v \in Vals(c, other)
      <4>1. PICK j \in 1..Len(b) : b[j].kind = other /\ b[j].val = v
        BY <1>1, <3>2, ValsFacts
      <4>2. j # p
        BY <2>1, <2>7, <4>1
      <4>3. PICK k \in 1..Len(c) : c[k] = b[j]
        BY <2>5, <4>2
      <4>4. QED
        BY <2>3, <4>1, <4>3, ValsFacts
    <3>3. QED
      BY <3>1, <3>2
  <2>8. QED
    BY <2>2, <2>6, <2>7
<1>4. QED
  BY <1>2, <1>3

\* Another line.
LEMMA InsertSays ==
  ASSUME NEW b \in Seq(LineType), NEW p \in 1..(Len(b) + 1), NEW x \in LineType
  PROVE  /\ Vals(InsertAt(b, p, x), x.kind) = Vals(b, x.kind) \cup {x.val}
         /\ \A other : other # x.kind => Vals(InsertAt(b, p, x), other) = Vals(b, other)
<1> DEFINE c == InsertAt(b, p, x)
<1>1. /\ c \in Seq(LineType) /\ Len(c) = Len(b) + 1 /\ Len(b) \in Nat
      /\ \A k \in 1..(Len(b) + 1) : c[k] = IF k < p THEN b[k] ELSE IF k = p THEN x ELSE b[k - 1]
  BY InsertFacts
<1> HIDE DEF c
<1>2. p \in 1..Len(c) /\ c[p] = x
  BY <1>1
<1>3. \A k \in 1..Len(c) : k = p \/ \E j \in 1..Len(b) : b[j] = c[k]
  <2> TAKE k \in 1..Len(c)
  <2>1. CASE k < p
    <3>1. k \in 1..Len(b) /\ b[k] = c[k]
      BY <1>1, <2>1
    <3>2. QED
      BY <3>1
  <2>2. CASE k > p
    <3>1. k - 1 \in 1..Len(b) /\ b[k - 1] = c[k]
      BY <1>1, <2>2
    <3>2. QED
      BY <3>1
  <2>3. k < p \/ k = p \/ k > p
    BY <1>1
  <2>4. QED
    BY <2>1, <2>2, <2>3
<1>4. \A j \in 1..Len(b) : \E k \in 1..Len(c) : c[k] = b[j]
  <2> TAKE j \in 1..Len(b)
  <2>1. CASE j < p
    <3>1. j \in 1..Len(c) /\ c[j] = b[j]
      BY <1>1, <2>1
    <3>2. QED
      BY <3>1
  <2>2. CASE ~ (j < p)
    <3>1. j + 1 \in 1..Len(c) /\ ~ (j + 1 < p) /\ j + 1 # p /\ (j + 1) - 1 = j
      BY <1>1, <2>2
    <3>2. c[j + 1] = b[j]
      BY <1>1, <3>1
    <3>3. QED
      BY <3>1, <3>2
  <2>3. QED
    BY <2>1, <2>2
<1>5. ASSUME NEW kind
      PROVE  \A v : v \in Vals(c, kind) <=>
                       (v \in Vals(b, kind) \/ (kind = x.kind /\ v = x.val))
  <2>1. ASSUME NEW v, v \in Vals(c, kind)
        PROVE  v \in Vals(b, kind) \/ (kind = x.kind /\ v = x.val)
    <3>1. PICK k \in 1..Len(c) : c[k].kind = kind /\ c[k].val = v
      BY <1>1, <2>1, ValsFacts
    <3>2. CASE k = p
      BY <1>2, <3>1, <3>2
    <3>3. CASE k # p
      <4>1. PICK j \in 1..Len(b) : b[j] = c[k]
        BY <1>3, <3>3
      <4>2. v \in Vals(b, kind)
        BY <3>1, <4>1, ValsFacts
      <4>3. QED
        BY <4>2
    <3>4. QED
      BY <3>2, <3>3
  <2>2. ASSUME NEW v, v \in Vals(b, kind) PROVE v \in Vals(c, kind)
    <3>1. PICK j \in 1..Len(b) : b[j].kind = kind /\ b[j].val = v
      BY <2>2, ValsFacts
    <3>2. PICK k \in 1..Len(c) : c[k] = b[j]
      BY <1>4
    <3>3. QED
      BY <1>1, <3>1, <3>2, ValsFacts
  <2>3. x.val \in Vals(c, x.kind)
    BY <1>1, <1>2, ValsFacts
  <2>4. QED
    BY <2>1, <2>2, <2>3
<1>6. Vals(c, x.kind) = Vals(b, x.kind) \cup {x.val}
  BY <1>5
<1>7. \A other : other # x.kind => Vals(c, other) = Vals(b, other)
  <2> TAKE other
  <2> HAVE other # x.kind
  <2>1. \A v : v \in Vals(c, other) <=> v \in Vals(b, other)
    BY <1>5
  <2>2. QED
    BY <2>1
<1>8. QED
  BY <1>6, <1>7 DEF c

\* The cut.
LEMMA SoundClip ==
  ASSUME NEW n \in Nat, NEW b, Sound(b, n)
  PROVE  Sound(Clip(b), n)
<1> DEFINE c == Clip(b)
           m == [k \in 1..Len(c) |-> k]
<1>1. b \in Seq(LineType) /\ Shown(b) /\ Ordered(b) /\ High(b, n) /\ OwnRows(b) /\ Lean(b)
  BY SoundFacts
<1>2. CASE Size(b) <= BodyLimit
  BY <1>1, <1>2, ClipFacts
<1>3. CASE ~ (Size(b) <= BodyLimit)
  <2> DEFINE f == Fitting(b)
  <2>1. /\ c \in Seq(LineType) /\ Shown(c) /\ Len(c) \in Nat
        /\ \A k \in 1..f : c[k] = b[k]
        /\ \A k \in (f + 1)..Len(c) : c[k].kind \in {"ticks", "note"}
    BY <1>1, <1>3, ClipFacts, ShownClip
  <2>2. f \in 0..Len(b) /\ f \in Nat /\ Len(b) \in Nat
    BY <1>1, FittingFacts
  <2> HIDE DEF c, f
  <2>3. ASSUME NEW k \in 1..Len(c), c[k].kind \in Rows
        PROVE  k \in 1..f /\ k \in 1..Len(b) /\ b[k] = c[k]
    <3>1. k <= f
      <4>1. SUFFICES ASSUME ~ (k <= f) PROVE FALSE
        OBVIOUS
      <4>2. k \in (f + 1)..Len(c)
        BY <2>1, <2>2, <4>1
      <4>3. QED
        BY <2>1, <2>3, <4>2, RankFacts
    <3>2. k \in 1..f /\ k \in 1..Len(b)
      BY <2>2, <3>1
    <3>3. QED
      BY <2>1, <3>2
  <2>4. \A k \in 1..Len(c) :
           c[k].kind \in Rows => /\ m[k] \in 1..Len(b) /\ b[m[k]].kind = c[k].kind
                                 /\ b[m[k]].quoted = c[k].quoted
                                 /\ k <= m[k] + 0
    BY <2>1, <2>3
  <2>5. \A i, j \in 1..Len(c) : i < j => m[i] < m[j]
    OBVIOUS
  <2>6. \A k \in 1..Len(c) :
           c[k].kind \in Rows =>
              /\ m[k] \in 1..Len(b) /\ b[m[k]].kind = c[k].kind
              /\ \A j \in 1..k : c[j].kind \in Wide =>
                    m[j] \in 1..Len(b) /\ b[m[j]].kind = c[j].kind
    <3> SUFFICES ASSUME NEW k \in 1..Len(c), c[k].kind \in Rows, NEW j \in 1..k
                 PROVE  m[j] \in 1..Len(b) /\ b[m[j]] = c[j]
      BY <2>4
    <3>1. k \in 1..f
      BY <2>3
    <3>2. j \in 1..Len(c) /\ j \in 1..f /\ j \in 1..Len(b)
      BY <2>1, <2>2, <3>1
    <3>3. m[j] = j
      BY <3>2
    <3>4. QED
      BY <2>1, <3>2, <3>3
  <2> HIDE DEF m
  <2>7. 0 \in Nat /\ n + 0 = n
    OBVIOUS
  <2>8. Ordered(c) /\ High(c, n + 0) /\ OwnRows(c)
    BY ONLY <1>1, <2>1, <2>4, <2>5, <2>7, n \in Nat, Embedded
  <2>9. Lean(c)
    BY ONLY <1>1, <2>1, <2>5, <2>6, LeanEmbedded
  <2>10. QED
    BY <2>1, <2>7, <2>8, <2>9 DEF Sound, c
<1>4. QED
  BY <1>2, <1>3

\* What is cut off leaves a note; header and rows are not, as long as not too
\* many lines come in above them.
LEMMA ClipSays ==
  ASSUME NEW n \in Nat, NEW b, Sound(b, n)
  PROVE  /\ \A kind : kind \notin {"ticks", "note"} =>
                         Vals(Clip(b), kind) \subseteq Vals(b, kind)
         /\ \A kind \in Rows : n + Rank(kind) + 1 < BodyLimit =>
                         Vals(Clip(b), kind) = Vals(b, kind)
         /\ Clip(b) = b \/ Vals(Clip(b), "note") # {}
         /\ (Len(b) >= 1 /\ b[1].kind \notin Wide) => Len(Clip(b)) >= 1 /\ Clip(b)[1] = b[1]
<1> DEFINE c == Clip(b)
           f == Fitting(b)
<1>1. b \in Seq(LineType) /\ High(b, n) /\ Lean(b)
  BY SoundFacts
<1>2. /\ Len(b) \in Nat /\ f \in 0..Len(b) /\ f \in Nat
      /\ \A k \in 0..Len(b) :
            (k + 1 < BodyLimit /\ \A j \in 1..k : b[j].kind \notin Wide) => k <= f
  BY <1>1, FittingFacts
<1>3. CASE Size(b) <= BodyLimit
  <2>1. c = b
    BY <1>1, <1>3, ClipFacts
  <2>2. QED
    BY <2>1
<1>4. CASE ~ (Size(b) <= BodyLimit)
  <2>1. /\ c \in Seq(LineType) /\ Len(c) \in (f + 1)..(f + 2)
        /\ c[Len(c)] = Note
        /\ \A k \in 1..f : c[k] = b[k]
        /\ \A k \in (f + 1)..Len(c) : c[k].kind \in {"ticks", "note"}
    BY <1>1, <1>4, ClipFacts
  <2> HIDE DEF c, f
  <2>2. Len(c) \in Nat /\ f < Len(c) /\ Len(c) \in 1..Len(c)
    BY <1>2, <2>1
  <2>3. \A k \in 1..f : k \in 1..Len(b) /\ k \in 1..Len(c)
    BY <1>2, <2>2
  <2>4. \A k \in 1..Len(c) : k \in 1..f \/ k \in (f + 1)..Len(c)
    BY <1>2, <2>2
  <2>5. ASSUME NEW kind, kind \notin {"ticks", "note"}, NEW v, v \in Vals(c, kind)
        PROVE  v \in Vals(b, kind)
    <3>1. PICK k \in 1..Len(c) : c[k].kind = kind /\ c[k].val = v
      BY <2>1, <2>5, ValsFacts
    <3>2. k \in 1..f
      BY <2>1, <2>4, <2>5, <3>1
    <3>3. k \in 1..Len(b) /\ b[k] = c[k]
      BY <2>1, <2>3, <3>2
    <3>4. QED
      BY <1>1, <3>1, <3>3, ValsFacts
  <2>6. ASSUME NEW kind \in Rows, n + Rank(kind) + 1 < BodyLimit, NEW v, v \in Vals(b, kind)
        PROVE  v \in Vals(c, kind)
    <3>1. PICK k \in 1..Len(b) : b[k].kind = kind /\ b[k].val = v
      BY <1>1, <2>6, ValsFacts
    <3>2. k <= n + Rank(kind)
      BY <1>1, <3>1 DEF High
    <3>3. Rank(kind) \in Nat
      BY RankFacts
    <3>4. k \in 1..f
      <4>1. k \in 0..Len(b) /\ k + 1 < BodyLimit
        BY <1>2, <2>6, <3>2, <3>3, Limits
      <4>2. \A j \in 1..k : b[j].kind \notin Wide
        BY <1>1, <2>6, <3>1 DEF Lean
      <4>3. k <= f
        BY <1>2, <4>1, <4>2
      <4>4. QED
        BY <1>2, <4>1, <4>3
    <3>5. k \in 1..Len(c) /\ b[k] = c[k]
      BY <2>1, <2>3, <3>4
    <3>6. QED
      BY <2>1, <3>1, <3>5, ValsFacts
  <2>7. \A kind \in Rows : kind \notin {"ticks", "note"}
    BY RankFacts
  <2>8. Vals(c, "note") # {}
    <3>1. Note.kind = "note"
      BY DEF Note
    <3>2. Has(c, "note")
      BY <2>1, <2>2, <3>1, ValsFacts
    <3>3. QED
      BY <2>1, <3>2, ValsFacts
  <2>9. ASSUME Len(b) >= 1, b[1].kind \notin Wide PROVE Len(c) >= 1 /\ c[1] = b[1]
    <3>1. 1 \in 0..Len(b) /\ 1 + 1 < BodyLimit /\ \A j \in 1..1 : b[j].kind \notin Wide
      BY <1>2, <2>9, Limits
    <3>2. 1 <= f
      BY <1>2, <3>1
    <3>3. 1 \in 1..f
      BY <1>2, <3>2
    <3>4. QED
      BY <2>1, <2>3, <2>2, <3>3
  <2>10. \A kind : kind \notin {"ticks", "note"} => Vals(c, kind) \subseteq Vals(b, kind)
    BY <2>5
  <2>11. \A kind \in Rows : n + Rank(kind) + 1 < BodyLimit => Vals(c, kind) = Vals(b, kind)
    BY <2>6, <2>7, <2>10
  <2>12. QED
    BY <2>8, <2>9, <2>10, <2>11 DEF c
<1>5. QED
  BY <1>2, <1>3, <1>4

\* The Latest version row below Version.
LEMMA SoundLatest ==
  ASSUME NEW n \in Nat, NEW b, Sound(b, n), Has(b, "version"), ~ Has(b, "latest"),
         NEW v \in Nat
  PROVE  /\ At(b, "version") + 1 \in 1..(Len(b) + 1)
         /\ Sound(InsertAt(b, At(b, "version") + 1, Line("latest", v)), n)
<1> DEFINE q == At(b, "version")
           p == q + 1
           x == Line("latest", v)
           c == InsertAt(b, p, x)
<1>1. b \in Seq(LineType) /\ Shown(b) /\ Ordered(b) /\ High(b, n) /\ OwnRows(b) /\ Lean(b)
  BY SoundFacts
<1>2. q \in 1..Len(b) /\ b[q].kind = "version" /\ \A k \in 1..Len(b) : b[k].kind # "latest"
  <2>1. "version" \in Rows
    BY DEF Rows
  <2>2. QED
    BY <1>1, <2>1, RowAt, ValsFacts
<1> HIDE DEF q
<1>3. p \in 1..(Len(b) + 1) /\ p - 1 = q /\ p = q + 1
  BY <1>2
<1>4. x \in LineType /\ x.kind = "latest" /\ x.quoted = FALSE /\ Plain(x)
  BY DEF Line, LineType, Kinds, Plain
<1> HIDE DEF x, p
<1>5. Shown(c)
  <2>1. PICK f : Shows(f, b)
    BY <1>1 DEF Shown
  <2>2. ~ b[q].quoted
    BY <1>1, <1>2, RankFacts DEF OwnRows, Rows
  <2>3. /\ f[q] = After(f[q - 1], b[q])
        /\ (b[q].kind # "ticks" \/ b[q].quoted) => (b[q].quoted <=> f[q - 1] # 0)
    BY <1>2, <2>1 DEF Shows
  <2>4. f[q - 1] = 0
    BY <1>2, <2>2, <2>3
  <2>5. After(f[q - 1], b[q]) = f[q - 1]
    BY <1>2, AfterPlain
  <2>6. f[p - 1] = 0
    BY <1>3, <2>3, <2>4, <2>5
  <2>7. QED
    BY <1>1, <1>3, <1>4, <2>1, <2>6, ShownInsert
<1>6. /\ c \in Seq(LineType) /\ Len(c) = Len(b) + 1 /\ Len(b) \in Nat
      /\ \A k \in 1..(Len(b) + 1) : c[k] = IF k < p THEN b[k] ELSE IF k = p THEN x ELSE b[k - 1]
  BY <1>1, <1>3, <1>4, InsertFacts
<1> HIDE DEF c
<1>7. c[p] = x
  BY <1>3, <1>6
<1>8. ASSUME NEW k \in 1..Len(c), c[k].kind \in Rows, k # p
      PROVE  /\ k \in 1..Len(b) /\ k < p /\ c[k] = b[k]
             /\ c[k].kind # "latest" /\ Rank(c[k].kind) < 4
  <2>1. CASE k < p
    <3>1. k \in 1..Len(b) /\ c[k] = b[k]
      BY <1>3, <1>6, <2>1
    <3>2. c[k].kind # "latest"
      BY <1>2, <3>1
    <3>3. Rank(c[k].kind) < 4
      BY <1>8, <3>2, RankFacts
    <3>4. QED
      BY <2>1, <3>1, <3>2, <3>3
  <2>2. CASE k > p
    <3>1. /\ k - 1 \in 1..Len(b) /\ c[k] = b[k - 1] /\ q < k - 1
      BY <1>2, <1>3, <1>6, <2>2
    <3>2. Rank("version") < Rank(b[k - 1].kind)
      BY <1>1, <1>2, <1>8, <3>1, RankFacts DEF Ordered, Rows
    <3>3. b[k - 1].kind \in Rows /\ Rank(b[k - 1].kind) > 3
      BY <1>8, <3>1, <3>2, RankFacts
    <3>4. b[k - 1].kind = "latest"
      BY <3>3, RankFacts
    <3>5. QED
      BY <1>2, <3>1, <3>4
  <2>3. k < p \/ k > p
    BY <1>3, <1>6, <1>8
  <2>4. QED
    BY <2>1, <2>2, <2>3
<1>9. Rank("latest") = 4 /\ p \in Nat
  BY <1>3, RankFacts
<1>10. Ordered(c)
  <2> SUFFICES ASSUME NEW i \in 1..Len(c), NEW j \in 1..Len(c), i < j,
                      c[i].kind \in Rows, c[j].kind \in Rows
               PROVE  Rank(c[i].kind) < Rank(c[j].kind)
    BY DEF Ordered
  <2>1. i # p
    <3>1. SUFFICES ASSUME i = p PROVE FALSE
      OBVIOUS
    <3>2. p < j
      BY <3>1
    <3>3. j # p
      BY <1>9, <3>2
    <3>4. j < p
      BY <1>8, <3>3
    <3>5. QED
      BY <1>9, <3>2, <3>4
  <2>2. i \in 1..Len(b) /\ c[i] = b[i] /\ Rank(c[i].kind) < 4
    BY <1>8, <2>1
  <2>3. CASE j = p
    <3>1. c[j].kind = "latest"
      BY <1>4, <1>7, <2>3
    <3>2. QED
      BY <1>9, <2>2, <3>1
  <2>4. CASE j # p
    <3>1. j \in 1..Len(b) /\ c[j] = b[j]
      BY <1>8, <2>4
    <3>2. QED
      BY <1>1, <2>2, <3>1 DEF Ordered
  <2>5. QED
    BY <2>3, <2>4
<1>11. High(c, n)
  <2> SUFFICES ASSUME NEW k \in 1..Len(c), c[k].kind \in Rows PROVE k <= n + Rank(c[k].kind)
    BY DEF High
  <2>1. CASE k = p
    <3>1. q <= n + Rank("version")
      BY <1>1, <1>2 DEF High, Rows
    <3>2. p <= n + 4
      BY <1>2, <1>3, <3>1, RankFacts
    <3>3. c[k].kind = "latest"
      BY <1>4, <1>7, <2>1
    <3>4. QED
      BY <1>9, <2>1, <3>2, <3>3
  <2>2. CASE k # p
    <3>1. k \in 1..Len(b) /\ c[k] = b[k]
      BY <1>8, <2>2
    <3>2. QED
      BY <1>1, <3>1 DEF High
  <2>3. QED
    BY <2>1, <2>2
<1>12. OwnRows(c)
  <2> SUFFICES ASSUME NEW k \in 1..Len(c), c[k].kind \in Rows PROVE ~ c[k].quoted
    BY DEF OwnRows
  <2>1. CASE k = p
    BY <1>4, <1>7, <2>1
  <2>2. CASE k # p
    <3>1. k \in 1..Len(b) /\ c[k] = b[k]
      BY <1>8, <2>2
    <3>2. QED
      BY <1>1, <3>1 DEF OwnRows
  <2>3. QED
    BY <2>1, <2>2
<1>13. Lean(c)
  <2> SUFFICES ASSUME NEW k \in 1..Len(c), c[k].kind \in Rows, NEW j \in 1..k
               PROVE  c[j].kind \notin Wide
    BY DEF Lean
  <2>1. CASE j = p
    BY <1>4, <1>7, <2>1, RankFacts DEF Rows
  <2>2. CASE j # p
    <3>1. k <= p
      BY <1>8, <1>9
    <3>2. j < p /\ j \in 1..q /\ j \in 1..Len(b)
      BY <1>2, <1>3, <2>2, <3>1
    <3>3. c[j] = b[j]
      BY <1>6, <3>2
    <3>4. b[q].kind \in Rows
      BY <1>2 DEF Rows
    <3>5. QED
      BY <1>1, <1>2, <3>2, <3>3, <3>4 DEF Lean
  <2>3. QED
    BY <2>1, <2>2
<1>14. Sound(c, n)
  BY <1>5, <1>6, <1>10, <1>11, <1>12, <1>13 DEF Sound
<1>15. QED
  BY <1>3, <1>14 DEF c, p, q, x

\* A line somebody writes on top or at the end.
LEMMA SoundTop ==
  ASSUME NEW n \in Nat, NEW b, Sound(b, n), NEW x, Plain(x), x.kind \notin Rows \cup Wide
  PROVE  /\ Sound(InsertAt(b, 1, x), n + 1)
         /\ InsertAt(b, 1, x)[1] = x /\ Len(InsertAt(b, 1, x)) >= 1
<1> DEFINE c == InsertAt(b, 1, x)
           m == [k \in 1..Len(c) |-> k - 1]
<1>1. b \in Seq(LineType) /\ Shown(b) /\ Ordered(b) /\ High(b, n) /\ OwnRows(b) /\ Lean(b)
  BY SoundFacts
<1>2. x \in LineType /\ 1 \in 1..(Len(b) + 1) /\ Len(b) \in Nat
  BY <1>1 DEF Plain
<1>3. /\ c \in Seq(LineType) /\ Len(c) = Len(b) + 1
      /\ \A k \in 1..(Len(b) + 1) : c[k] = IF k < 1 THEN b[k] ELSE IF k = 1 THEN x ELSE b[k - 1]
  BY <1>1, <1>2, InsertFacts
<1>4. Shown(c)
  <2>1. PICK f : Shows(f, b)
    BY <1>1 DEF Shown
  <2>2. f[1 - 1] = 0
    BY <2>1 DEF Shows
  <2>3. QED
    BY <1>1, <1>2, <2>1, <2>2, ShownInsert
<1> HIDE DEF c
<1>5. c[1] = x
  BY <1>2, <1>3
<1>6. \A k \in 1..Len(c) :
         c[k].kind \in Rows => /\ m[k] \in 1..Len(b) /\ b[m[k]].kind = c[k].kind
                               /\ b[m[k]].quoted = c[k].quoted
                               /\ k <= m[k] + 1
  <2> SUFFICES ASSUME NEW k \in 1..Len(c), c[k].kind \in Rows
               PROVE  /\ m[k] \in 1..Len(b) /\ b[m[k]] = c[k]
                      /\ k <= m[k] + 1
    OBVIOUS
  <2>1. k # 1
    BY <1>5
  <2>2. ~ (k < 1) /\ k - 1 \in 1..Len(b) /\ c[k] = b[k - 1]
    BY <1>2, <1>3, <2>1
  <2>3. QED
    BY <2>2
<1>7. \A i, j \in 1..Len(c) : i < j => m[i] < m[j]
  OBVIOUS
<1>8. \A k \in 1..Len(c) :
         c[k].kind \in Rows =>
            /\ m[k] \in 1..Len(b) /\ b[m[k]].kind = c[k].kind
            /\ \A j \in 1..k : c[j].kind \in Wide =>
                  m[j] \in 1..Len(b) /\ b[m[j]].kind = c[j].kind
  <2> SUFFICES ASSUME NEW k \in 1..Len(c), NEW j \in 1..k, c[j].kind \in Wide
               PROVE  m[j] \in 1..Len(b) /\ b[m[j]] = c[j]
    BY <1>6
  <2>1. j # 1 /\ j \in 1..Len(c)
    BY <1>5
  <2>2. ~ (j < 1) /\ j - 1 \in 1..Len(b) /\ c[j] = b[j - 1]
    BY <1>2, <1>3, <2>1
  <2>3. QED
    BY <2>1, <2>2
<1> HIDE DEF m
<1>9. 1 \in Nat
  OBVIOUS
<1>10. Ordered(c) /\ High(c, n + 1) /\ OwnRows(c)
  BY ONLY <1>1, <1>3, <1>6, <1>7, <1>9, n \in Nat, Embedded
<1>11. Lean(c)
  BY ONLY <1>1, <1>3, <1>7, <1>8, LeanEmbedded
<1>12. Sound(c, n + 1) /\ Len(c) >= 1
  BY <1>2, <1>3, <1>4, <1>10, <1>11 DEF Sound
<1>13. QED
  BY <1>5, <1>12 DEF c

LEMMA SoundBelow ==
  ASSUME NEW n \in Nat, NEW b, Sound(b, n), NEW x, Plain(x), x.kind \notin Rows \cup Wide
  PROVE  /\ Sound(Append(b, x), n)
         /\ Len(b) >= 1 => Append(b, x)[1] = b[1] /\ Len(Append(b, x)) >= 1
         /\ Vals(Append(b, x), x.kind) = Vals(b, x.kind) \cup {x.val}
         /\ \A other : other # x.kind => Vals(Append(b, x), other) = Vals(b, other)
<1> DEFINE c == Append(b, x)
           m == [k \in 1..Len(c) |-> k]
<1>1. b \in Seq(LineType) /\ Shown(b) /\ Ordered(b) /\ High(b, n) /\ OwnRows(b) /\ Lean(b)
  BY SoundFacts
<1>2. x \in LineType /\ Len(b) + 1 \in 1..(Len(b) + 1) /\ Len(b) \in Nat
  BY <1>1 DEF Plain
<1>3. /\ Vals(c, x.kind) = Vals(b, x.kind) \cup {x.val}
      /\ \A other : other # x.kind => Vals(c, other) = Vals(b, other)
  <2>1. c = InsertAt(b, Len(b) + 1, x)
    BY <1>1, <1>2, AppendInserts
  <2>2. /\ Vals(InsertAt(b, Len(b) + 1, x), x.kind) = Vals(b, x.kind) \cup {x.val}
        /\ \A other : other # x.kind => Vals(InsertAt(b, Len(b) + 1, x), other) = Vals(b, other)
    BY <1>1, <1>2, InsertSays
  <2> HIDE DEF c
  <2>3. QED
    BY <2>1, <2>2
<1>4. Shown(c)
  BY <1>1, ShownAppend
<1>5. /\ c \in Seq(LineType) /\ Len(c) = Len(b) + 1 /\ c[Len(b) + 1] = x
      /\ \A k \in 1..Len(b) : c[k] = b[k]
  BY <1>1, <1>2
<1> HIDE DEF c
<1>6. \A k \in 1..Len(c) :
         c[k].kind \in Rows => /\ m[k] \in 1..Len(b) /\ b[m[k]].kind = c[k].kind
                               /\ b[m[k]].quoted = c[k].quoted
                               /\ k <= m[k] + 0
  <2> SUFFICES ASSUME NEW k \in 1..Len(c), c[k].kind \in Rows
               PROVE  k \in 1..Len(b) /\ b[k] = c[k]
    OBVIOUS
  <2>1. k # Len(b) + 1
    BY <1>5
  <2>2. QED
    BY <1>2, <1>5, <2>1
<1>7. \A i, j \in 1..Len(c) : i < j => m[i] < m[j]
  OBVIOUS
<1>8. \A k \in 1..Len(c) :
         c[k].kind \in Rows =>
            /\ m[k] \in 1..Len(b) /\ b[m[k]].kind = c[k].kind
            /\ \A j \in 1..k : c[j].kind \in Wide =>
                  m[j] \in 1..Len(b) /\ b[m[j]].kind = c[j].kind
  <2> SUFFICES ASSUME NEW k \in 1..Len(c), NEW j \in 1..k, c[j].kind \in Wide
               PROVE  m[j] \in 1..Len(b) /\ b[m[j]] = c[j]
    BY <1>6
  <2>1. j # Len(b) + 1 /\ j \in 1..Len(c)
    BY <1>5
  <2>2. j \in 1..Len(b) /\ c[j] = b[j]
    BY <1>2, <1>5, <2>1
  <2>3. QED
    BY <2>1, <2>2
<1> HIDE DEF m
<1>9. 0 \in Nat /\ n + 0 = n
  OBVIOUS
<1>10. Ordered(c) /\ High(c, n + 0) /\ OwnRows(c)
  BY ONLY <1>1, <1>5, <1>6, <1>7, <1>9, n \in Nat, Embedded
<1>11. Lean(c)
  BY ONLY <1>1, <1>5, <1>7, <1>8, LeanEmbedded
<1>12. Sound(c, n)
  BY <1>4, <1>5, <1>9, <1>10, <1>11 DEF Sound
<1>13. Len(b) >= 1 => c[1] = b[1] /\ Len(c) >= 1
  BY <1>2, <1>5
<1>14. QED
  BY <1>3, <1>12, <1>13 DEF c

\* A person's line on top of everything.
Topped(b) == Len(b) >= 1 /\ b[1].kind = "human" /\ b[1].val = 1

LEMMA ToppedPut ==
  ASSUME NEW n \in Nat, NEW b, Sound(b, n), Topped(b), NEW kind \in Rows, NEW val \in Nat
  PROVE  Topped(Put(b, kind, val))
<1>1. b \in Seq(LineType)
  BY SoundFacts
<1>2. 1 \in 1..Len(b) /\ b[1].kind # kind
  BY <1>1, RankFacts DEF Topped
<1>3. QED
  BY <1>2, SoundPut DEF Topped

LEMMA ToppedDrop ==
  ASSUME NEW n \in Nat, NEW b, Sound(b, n), Topped(b), NEW kind \in Rows
  PROVE  Topped(Drop(b, kind))
<1>1. b \in Seq(LineType) /\ Ordered(b)
  BY SoundFacts
<1>2. CASE ~ Has(b, kind)
  BY <1>2 DEF Drop
<1>3. CASE Has(b, kind)
  <2> DEFINE p == At(b, kind)
  <2>1. p \in 1..Len(b) /\ b[p].kind = kind
    BY <1>1, <1>3, RowAt
  <2>2. Drop(b, kind) = RemoveAt(b, p)
    BY <1>3 DEF Drop
  <2> HIDE DEF p
  <2>3. p # 1
    BY <2>1, RankFacts DEF Topped
  <2>4. 1 \in 1..(Len(b) - 1) /\ 1 < p
    BY <1>1, <2>1, <2>3
  <2>5. RemoveAt(b, p)[1] = b[1] /\ Len(RemoveAt(b, p)) = Len(b) - 1
    BY <1>1, <2>1, <2>4, RemoveFacts
  <2>6. Len(b) - 1 >= 1
    BY <1>1, <2>4
  <2>7. QED
    BY <2>2, <2>5, <2>6 DEF Topped
<1>4. QED
  BY <1>2, <1>3

LEMMA ToppedLatest ==
  ASSUME NEW n \in Nat, NEW b, Sound(b, n), Topped(b), Has(b, "version"), NEW x \in LineType
  PROVE  Topped(InsertAt(b, At(b, "version") + 1, x))
<1> DEFINE p == At(b, "version") + 1
<1>1. b \in Seq(LineType)
  BY SoundFacts
<1>2. At(b, "version") \in 1..Len(b)
  BY <1>1, AtFacts
<1>3. p \in 1..(Len(b) + 1) /\ 1 < p /\ 1 \in 1..(Len(b) + 1) /\ Len(b) + 1 >= 1
  BY <1>1, <1>2
<1> HIDE DEF p
<1>4. InsertAt(b, p, x)[1] = b[1] /\ Len(InsertAt(b, p, x)) = Len(b) + 1
  BY <1>1, <1>3, InsertFacts
<1>5. Topped(InsertAt(b, p, x))
  BY <1>3, <1>4 DEF Topped
<1>6. QED
  BY <1>5 DEF p

\* _refresh_body keeps the order of the rows, and what it makes the body say.
LEMMA RefreshFacts ==
  ASSUME NEW n \in Nat, NEW b, Sound(b, n), NEW e \in Event, NEW count \in Nat
  PROVE  /\ Sound(Refresh(b, e, count), n)
         /\ Topped(b) => Topped(Refresh(b, e, count))
         /\ \A kind \in {"header", "occurrences"} :
               Vals(Refresh(b, e, count), kind) = IF Vals(b, kind) = {} THEN {} ELSE {count}
         /\ \A kind \in {"version", "human", "note", "ticks", "info"} :
               Vals(Refresh(b, e, count), kind) = Vals(b, kind)
         /\ Vals(Refresh(b, e, count), "latest") =
               IF e.version = 0 \/ Vals(b, "version") = {} THEN Vals(b, "latest")
               ELSE {e.version} \ Vals(b, "version")
<1> DEFINE c == Put(b, "header", count)
           d == Put(c, "occurrences", count)
           w == Drop(d, "latest")
           x == Line("latest", e.version)
           p == At(w, "version") + 1
           r == Refresh(b, e, count)
<1>1. e.version \in Nat
  BY TextConstants
<1>2. Rows = {"header", "occurrences", "version", "latest"}
  BY DEF Rows
<1>3. /\ Sound(c, n)
      /\ Topped(b) => Topped(c)
      /\ Vals(c, "header") = IF Vals(b, "header") = {} THEN {} ELSE {count}
      /\ \A k : k # "header" => Vals(c, k) = Vals(b, k)
  <2>1. "header" \in Rows
    BY <1>2
  <2>2. Sound(c, n)
    BY <2>1, SoundPut
  <2>3. Topped(b) => Topped(c)
    BY <2>1, ToppedPut
  <2>4. /\ Vals(c, "header") = IF Vals(b, "header") = {} THEN {} ELSE {count}
        /\ \A k : k # "header" => Vals(c, k) = Vals(b, k)
    BY <2>1, PutSays
  <2>5. QED
    BY <2>2, <2>3, <2>4
<1> HIDE DEF c
<1>4. /\ Sound(d, n)
      /\ Topped(b) => Topped(d)
      /\ Vals(d, "occurrences") = IF Vals(b, "occurrences") = {} THEN {} ELSE {count}
      /\ Vals(d, "header") = IF Vals(b, "header") = {} THEN {} ELSE {count}
      /\ \A k : k \notin {"header", "occurrences"} => Vals(d, k) = Vals(b, k)
  <2>1. "occurrences" \in Rows
    BY <1>2
  <2>2. Sound(d, n)
    BY <1>3, <2>1, SoundPut
  <2>3. Topped(b) => Topped(d)
    BY <1>3, <2>1, ToppedPut
  <2>4. /\ Vals(d, "occurrences") = IF Vals(c, "occurrences") = {} THEN {} ELSE {count}
        /\ \A k : k # "occurrences" => Vals(d, k) = Vals(c, k)
    BY <1>3, <2>1, PutSays
  <2>5. QED
    BY <1>3, <2>2, <2>3, <2>4
<1>5. r = IF e.version = 0 \/ ~ Has(b, "version") THEN d
          ELSE IF w[At(w, "version")].val = e.version THEN w
          ELSE InsertAt(w, p, x)
  BY DEF Refresh, c
<1> HIDE DEF d
<1>6. /\ Sound(w, n)
      /\ Topped(b) => Topped(w)
      /\ Vals(w, "latest") = {}
      /\ \A k : k # "latest" => Vals(w, k) = Vals(d, k)
  <2>1. "latest" \in Rows
    BY <1>2
  <2>2. Sound(w, n)
    BY <1>4, <2>1, SoundDrop
  <2>3. Topped(b) => Topped(w)
    BY <1>4, <2>1, ToppedDrop
  <2>4. /\ Vals(w, "latest") = {}
        /\ \A k : k # "latest" => Vals(w, k) = Vals(d, k)
    BY <1>4, <2>1, DropSays
  <2>5. QED
    BY <2>2, <2>3, <2>4
<1> HIDE DEF w, r
<1>7. b \in Seq(LineType) /\ w \in Seq(LineType) /\ Ordered(w)
  BY <1>6, SoundFacts
<1>8. Has(b, "version") <=> Vals(b, "version") # {}
  BY <1>7, ValsFacts
<1>9. CASE e.version = 0 \/ ~ Has(b, "version")
  <2>1. r = d
    BY <1>5, <1>9
  <2>2. QED
    BY <1>4, <1>8, <1>9, <2>1 DEF r
<1>10. CASE ~ (e.version = 0 \/ ~ Has(b, "version"))
  <2>1. Vals(w, "version") = Vals(b, "version") /\ Vals(b, "version") # {}
    BY <1>4, <1>6, <1>8, <1>10
  <2>2. Has(w, "version") /\ ~ Has(w, "latest")
    BY <1>6, <1>7, <2>1, ValsFacts
  <2>3. Vals(b, "version") = {w[At(w, "version")].val}
    BY <1>2, <1>7, <2>1, <2>2, RowAt
  <2>4. CASE w[At(w, "version")].val = e.version
    <3>1. r = w
      BY <1>5, <1>10, <2>4
    <3>2. {e.version} \ Vals(b, "version") = {}
      BY <2>3, <2>4
    <3>3. QED
      BY <1>4, <1>6, <1>8, <1>10, <3>1, <3>2 DEF r
  <2>5. CASE w[At(w, "version")].val # e.version
    <3>1. r = InsertAt(w, p, x)
      BY <1>5, <1>10, <2>5
    <3>2. {e.version} \ Vals(b, "version") = {e.version}
      BY <2>3, <2>5
    <3>3. x \in LineType /\ x.kind = "latest" /\ x.val = e.version
      BY <1>1 DEF Line, LineType, Kinds
    <3>4. p \in 1..(Len(w) + 1) /\ Sound(InsertAt(w, p, x), n)
      BY <1>1, <1>6, <2>2, SoundLatest
    <3>5. Topped(b) => Topped(InsertAt(w, p, x))
      BY <1>6, <2>2, <3>3, ToppedLatest
    <3> HIDE DEF x, p
    <3>6. /\ Vals(r, "latest") = Vals(w, "latest") \cup {e.version}
          /\ \A k : k # "latest" => Vals(r, k) = Vals(w, k)
      BY <1>7, <3>1, <3>3, <3>4, InsertSays
    <3>7. Vals(r, "latest") = {e.version}
      BY <1>6, <3>6
    <3>8. QED
      BY <1>4, <1>6, <1>8, <1>10, <3>1, <3>2, <3>4, <3>5, <3>6, <3>7 DEF r
  <2>6. QED
    BY <2>4, <2>5
<1>11. QED
  BY <1>9, <1>10

(***************************************************************************)
(* The texts the program writes.                                           *)
(***************************************************************************)
\* Lines outside of code blocks.
LEMMA PlainShown ==
  ASSUME NEW s \in Seq(LineType), \A k \in 1..Len(s) : Plain(s[k])
  PROVE  Shown(s)
<1> DEFINE g == [k \in 0..Len(s) |-> 0]
<1>1. g \in [0..Len(s) -> Nat] /\ g[0] = 0 /\ g[Len(s)] = 0
  OBVIOUS
<1>2. \A k \in 1..Len(s) : g[k] = 0 /\ g[k - 1] = 0
  OBVIOUS
<1> HIDE DEF g
<1>3. \A k \in 1..Len(s) : s[k].kind \notin {"ticks", "info"} /\ ~ s[k].quoted
  BY DEF Plain
<1>4. \A k \in 1..Len(s) : g[k] = After(g[k - 1], s[k])
  BY <1>2, <1>3, AfterPlain
<1>5. Shows(g, s)
  BY <1>1, <1>2, <1>3, <1>4 DEF Shows
<1>6. QED
  BY <1>5 DEF Shown

\* The comment on an occurrence.
LEMMA CommentShown ==
  ASSUME NEW e \in Event
  PROVE  OccurrenceComment(e) \in Seq(LineType) /\ Shown(OccurrenceComment(e))
<1> DEFINE a == <<Line("text", 0)>>
<1>1. Plain(Line("text", 0)) /\ Line("text", 0) \in LineType
  BY DEF Plain, Line, LineType, Kinds
<1>2. a \in Seq(LineType) /\ Len(a) = 1 /\ \A k \in 1..1 : a[k] = Line("text", 0)
  BY <1>1
<1>3. Shown(a)
  BY <1>1, <1>2, PlainShown
<1>4. Fenced(e) \in Seq(LineType) /\ Shown(Fenced(e))
  BY FencedIsBlock DEF Block
<1>5. OccurrenceComment(e) = a \o Fenced(e)
  BY DEF OccurrenceComment
<1> HIDE DEF a
<1>6. QED
  BY <1>2, <1>3, <1>4, <1>5, ShownJoin

\* The body of a new issue.
LEMMA BuildFacts ==
  ASSUME NEW e \in Event
  PROVE  /\ Sound(BuildBody(e), 0)
         /\ Vals(BuildBody(e), "header") = {1} /\ Vals(BuildBody(e), "occurrences") = {1}
         /\ Vals(BuildBody(e), "version") = {e.version} /\ Vals(BuildBody(e), "latest") = {}
<1> DEFINE h == Line("header", 1)
           o == Line("occurrences", 1)
           v == Line("version", e.version)
           x == Line("text", 0)
           a == <<h, o, v>>
           t == a \o Fenced(e)
           b == Append(t, x)
           m == Len(Fenced(e))
<1>1. e.version \in Nat
  BY TextConstants
<1>2. /\ h \in LineType /\ h.kind = "header" /\ h.val = 1 /\ h.quoted = FALSE
      /\ o \in LineType /\ o.kind = "occurrences" /\ o.val = 1 /\ o.quoted = FALSE
      /\ v \in LineType /\ v.kind = "version" /\ v.val = e.version /\ v.quoted = FALSE
      /\ x \in LineType /\ x.kind = "text" /\ x.quoted = FALSE
  BY <1>1 DEF Line, LineType, Kinds
<1>3. Plain(h) /\ Plain(o) /\ Plain(v) /\ Plain(x)
  BY <1>2 DEF Plain
<1>4. BuildBody(e) = t \o <<x>>
  BY DEF BuildBody
<1> HIDE DEF h, o, v, x
<1>5. /\ a \in Seq(LineType) /\ Len(a) = 3 /\ a[1] = h /\ a[2] = o /\ a[3] = v
      /\ \A k \in 1..3 : k = 1 \/ k = 2 \/ k = 3
  BY <1>2
<1>6. Shown(a)
  <2>1. \A k \in 1..Len(a) : Plain(a[k])
    BY <1>3, <1>5
  <2> HIDE DEF a
  <2>2. QED
    BY <1>5, <2>1, PlainShown
<1> HIDE DEF a
<1>7. /\ Fenced(e) \in Seq(LineType) /\ Shown(Fenced(e)) /\ m \in Nat
      /\ \A k \in 1..m : Fenced(e)[k].kind \in {"text", "ticks", "info"}
  BY FencedIsBlock DEF Block
<1>8. /\ t \in Seq(LineType) /\ Shown(t) /\ Len(t) = 3 + m
      /\ t[1] = h /\ t[2] = o /\ t[3] = v
      /\ \A k \in 4..(3 + m) : t[k].kind \in {"text", "ticks", "info"}
  <2>1. t \in Seq(LineType) /\ Shown(t)
    BY <1>5, <1>6, <1>7, ShownJoin
  <2>2. /\ Len(t) = 3 + m
        /\ \A k \in 1..(3 + m) : t[k] = IF k <= 3 THEN a[k] ELSE Fenced(e)[k - 3]
    <3>1. /\ Len(t) = Len(a) + m
          /\ \A k \in 1..(Len(a) + m) :
                t[k] = IF k <= Len(a) THEN a[k] ELSE Fenced(e)[k - Len(a)]
      BY <1>5, <1>7, ConcatProperties
    <3> HIDE DEF t, m
    <3>2. QED
      BY <1>5, <3>1
  <2> HIDE DEF t
  <2>3. 1 \in 1..(3 + m) /\ 2 \in 1..(3 + m) /\ 3 \in 1..(3 + m)
    BY <1>7
  <2>4. \A k \in 4..(3 + m) : k \in 1..(3 + m) /\ ~ (k <= 3) /\ k - 3 \in 1..m
    BY <1>7
  <2>5. \A k \in 4..(3 + m) : t[k].kind \in {"text", "ticks", "info"}
    BY <1>7, <2>2, <2>4
  <2>6. QED
    BY <1>5, <2>1, <2>2, <2>3, <2>5
<1> HIDE DEF t
<1>9. BuildBody(e) = b /\ Shown(b)
  <2>1. t \o <<x>> = b
    BY <1>2, <1>8
  <2>2. Shown(b)
    BY <1>3, <1>8, ShownAppend
  <2>3. QED
    BY <1>4, <2>1, <2>2
<1>10. /\ b \in Seq(LineType) /\ Len(b) = 4 + m /\ b[4 + m] = x
       /\ \A k \in 1..(3 + m) : b[k] = t[k]
  BY <1>2, <1>7, <1>8
<1> HIDE DEF b, m
<1>11. /\ b[1] = h /\ b[2] = o /\ b[3] = v
       /\ 1 \in 1..Len(b) /\ 2 \in 1..Len(b) /\ 3 \in 1..Len(b)
  BY <1>7, <1>8, <1>10
<1>12. \A k \in 1..Len(b) : k = 1 \/ k = 2 \/ k = 3 \/ b[k].kind \in {"text", "ticks", "info"}
  <2> TAKE k \in 1..Len(b)
  <2>1. CASE k \in 4..(3 + m)
    <3>1. k \in 1..(3 + m)
      BY <2>1
    <3>2. QED
      BY <1>8, <1>10, <2>1, <3>1
  <2>2. CASE k = 4 + m
    BY <1>2, <1>10, <2>2
  <2>3. k = 1 \/ k = 2 \/ k = 3 \/ k \in 4..(3 + m) \/ k = 4 + m
    BY <1>7, <1>10
  <2>4. QED
    BY <2>1, <2>2, <2>3
<1>13. \A k \in 1..Len(b) :
          b[k].kind \in Rows => (k \in {1, 2, 3} /\ Rank(b[k].kind) = k /\ ~ b[k].quoted)
  <2>1. \A k \in 1..Len(b) : b[k].kind \in Rows => k = 1 \/ k = 2 \/ k = 3
    BY <1>12, RankFacts
  <2>2. /\ Rank(b[1].kind) = 1 /\ Rank(b[2].kind) = 2 /\ Rank(b[3].kind) = 3
        /\ ~ b[1].quoted /\ ~ b[2].quoted /\ ~ b[3].quoted
    BY <1>2, <1>11, RankFacts
  <2>3. QED
    BY <2>1, <2>2
<1>14. Ordered(b) /\ High(b, 0) /\ OwnRows(b) /\ Lean(b)
  <2>1. b[1].kind \notin Wide /\ b[2].kind \notin Wide /\ b[3].kind \notin Wide
    BY <1>2, <1>11 DEF Wide
  <2>2. \A k \in {1, 2, 3} : \A j \in 1..k : j = 1 \/ j = 2 \/ j = 3
    OBVIOUS
  <2>3. Lean(b)
    BY <1>13, <2>1, <2>2 DEF Lean
  <2>4. QED
    BY <1>13, <2>3 DEF Ordered, High, OwnRows
<1>15. Sound(b, 0)
  BY <1>9, <1>10, <1>14 DEF Sound
<1>16. /\ \A k \in 1..Len(b) : b[k].kind = "header" <=> k = 1
       /\ \A k \in 1..Len(b) : b[k].kind = "occurrences" <=> k = 2
       /\ \A k \in 1..Len(b) : b[k].kind = "version" <=> k = 3
       /\ \A k \in 1..Len(b) : b[k].kind # "latest"
  <2>1. \A k \in 1..Len(b) : \/ k = 1 /\ b[k].kind = "header"
                             \/ k = 2 /\ b[k].kind = "occurrences"
                             \/ k = 3 /\ b[k].kind = "version"
                             \/ k \notin {1, 2, 3} /\ b[k].kind \in {"text", "ticks", "info"}
    BY <1>2, <1>11, <1>12
  <2>2. QED
    BY <2>1
<1>17. /\ \A u : u \in Vals(b, "header") <=> u = 1
       /\ \A u : u \in Vals(b, "occurrences") <=> u = 1
       /\ \A u : u \in Vals(b, "version") <=> u = e.version
       /\ \A u : u \notin Vals(b, "latest")
  BY <1>2, <1>10, <1>11, <1>16, ValsFacts, SMTT(30)
<1>18. /\ Vals(b, "header") = {1} /\ Vals(b, "occurrences") = {1}
       /\ Vals(b, "version") = {e.version} /\ Vals(b, "latest") = {}
  BY <1>17
<1>19. QED
  BY <1>9, <1>15, <1>18

(***************************************************************************)
(* Types, and the code blocks.                                             *)
(***************************************************************************)
TitleType == [count : Nat, stem : {"none", "summary", "better"}]
TextType == [title : TitleType, body : Seq(LineType)]

\* A text on GitHub, n edits on.
Fine(x, n) == x \in TextType /\ x.title.stem # "none" /\ Sound(x.body, n)

TextInv ==
    /\ issue \in TextType /\ Size(issue.body) <= HardLimit
    /\ job \in [Worker -> [event : Event, copy : TextType, arrived : BOOLEAN]]
    /\ used \in [filings : Nat, edits : Nat, lost : Nat] /\ used.edits <= MaxEdits
    /\ recorded \in Nat /\ running \in Nat
    /\ late \subseteq {w \in Worker : Holds(w)}
    /\ Exists => Fine(issue, used.edits)
    /\ \A w \in Worker : Holds(w) => Exists /\ Fine(job[w].copy, used.edits)

LEMMA NoIssueFacts ==
  /\ NoIssue \in TextType /\ NoIssue.title.stem = "none" /\ Size(NoIssue.body) = 0
  /\ NoJob \in [event : Event, copy : TextType, arrived : BOOLEAN]
  /\ NoJob.copy = NoIssue
<1>1. NoIssue \in TextType /\ NoIssue.title.stem = "none" /\ NoIssue.body = << >>
  BY DEF NoIssue, TextType, TitleType
<1>2. Size(<< >>) = 0
  <2>1. << >> \in Seq(LineType) /\ Len(<< >>) = 0
    OBVIOUS
  <2>2. PICK f : IsSize(f, << >>)
    BY <2>1, SizeExists
  <2>3. QED
    BY <2>1, <2>2, SizeFacts, SizeIs
<1>3. (CHOOSE e \in Event : TRUE) \in Event
  BY Limits
<1>4. QED
  BY <1>1, <1>2, <1>3 DEF NoJob

LEMMA FineFacts ==
  ASSUME NEW x, NEW n, Fine(x, n)
  PROVE  /\ x \in TextType /\ x # NoIssue /\ Sound(x.body, n)
         /\ x.title.count \in Nat /\ x.title.stem \in {"summary", "better"}
         /\ x.body \in Seq(LineType)
<1>1. x \in TextType /\ x.title.stem # "none" /\ Sound(x.body, n)
  BY DEF Fine
<1>2. x # NoIssue
  BY <1>1, NoIssueFacts
<1>3. QED
  BY <1>1, <1>2 DEF TextType, TitleType

\* Further edits do no harm to what is known of a body.
LEMMA SoundMore ==
  ASSUME NEW n \in Nat, NEW m \in Nat, n <= m, NEW b, Sound(b, n)
  PROVE  Sound(b, m)
<1>1. \A k \in 1..Len(b) : b[k].kind \in Rows => k <= m + Rank(b[k].kind)
  <2> TAKE k \in 1..Len(b)
  <2> HAVE b[k].kind \in Rows
  <2>1. k <= n + Rank(b[k].kind) /\ Rank(b[k].kind) \in Nat
    BY RankFacts DEF Sound, High
  <2>2. QED
    BY <2>1
<1>2. QED
  BY <1>1 DEF Sound, High

LEMMA FineMore ==
  ASSUME NEW n \in Nat, NEW m \in Nat, n <= m, NEW x, Fine(x, n)
  PROVE  Fine(x, m)
BY SoundMore DEF Fine

\* The count a filing writes is one more than what its copy shows.
LEMMA NewCountFacts ==
  ASSUME NEW n \in Nat, NEW x, Fine(x, n)
  PROVE  /\ TitleCount(x.title) \in Nat /\ TitleCount(x.title) >= 1
         /\ NewCount(x) \in Nat /\ NewCount(x) >= 2
         /\ TitleCount(x.title) < NewCount(x)
         /\ \A v \in Vals(x.body, "header") : v < NewCount(x)
         /\ NewCount(x) - 1 \in {1, TitleCount(x.title)} \cup Vals(x.body, "header")
<1> DEFINE t == TitleCount(x.title)
           h == HeaderCount(x.body)
           S == {t, h}
<1>1. x.title.count \in Nat /\ x.body \in Seq(LineType) /\ Ordered(x.body)
  BY FineFacts, SoundFacts
<1>2. t \in Nat /\ t >= 1
  BY <1>1 DEF TitleCount
<1>3. /\ h \in Nat
      /\ h \in {1} \cup Vals(x.body, "header")
      /\ \A v \in Vals(x.body, "header") : v = h
  <2>1. CASE Has(x.body, "header")
    <3>1. "header" \in Rows
      BY DEF Rows
    <3>2. h = x.body[At(x.body, "header")].val
      BY <2>1 DEF HeaderCount
    <3>3. Vals(x.body, "header") = {x.body[At(x.body, "header")].val}
      BY <1>1, <2>1, <3>1, RowAt
    <3>4. Vals(x.body, "header") \in SUBSET Nat
      BY <1>1, ValsFacts
    <3>5. QED
      BY <3>2, <3>3, <3>4
  <2>2. CASE ~ Has(x.body, "header")
    <3>1. h = 1
      BY <2>2 DEF HeaderCount
    <3>2. Vals(x.body, "header") = {}
      BY <1>1, <2>2, ValsFacts
    <3>3. QED
      BY <3>1, <3>2
  <2>3. QED
    BY <2>1, <2>2
<1>4. NewCount(x) = Max(S) + 1
  BY DEF NewCount
<1> HIDE DEF t, h
<1>5. Max(S) \in S /\ \A y \in S : y <= Max(S)
  <2>1. S \in SUBSET Nat /\ S # {} /\ t + h \in Nat /\ \A y \in S : y <= t + h
    BY <1>2, <1>3
  <2> HIDE DEF S
  <2>2. QED
    BY <2>1, MaxFacts
<1> DEFINE m == Max(S)
<1>6. m \in {t, h} /\ t <= m /\ h <= m
  BY <1>5
<1>7. NewCount(x) = m + 1
  BY <1>4
<1> HIDE DEF m
<1>8. m \in Nat
  BY <1>2, <1>3, <1>6
<1>9. /\ m + 1 \in Nat /\ m + 1 >= 2 /\ t < m + 1 /\ (m + 1) - 1 = m
      /\ \A v \in Vals(x.body, "header") : v < m + 1
  BY <1>2, <1>3, <1>6, <1>8
<1>10. m \in {1, t} \cup Vals(x.body, "header")
  BY <1>3, <1>6
<1>11. QED
  BY <1>2, <1>7, <1>9, <1>10 DEF t

\* What people left behind in a body: the second line is there, or it went
\* with a cut.
Below(b) == 2 \in Vals(b, "human") \/ Vals(b, "note") # {}

IsPatch(x, e, y) == y = Patched(e, x)

\* Its title counts one more and says the same.
CountedOn(x, y) == y.title.count = NewCount(x) /\ y.title.stem = x.title.stem

\* So do its header and its Occurrences row; and what it says of versions.
HeaderOn(x, y) == Vals(y.body, "header") = {NewCount(x)}

OccurrencesOn(x, y) ==
    Vals(y.body, "occurrences") = IF Vals(x.body, "occurrences") = {} THEN {} ELSE {NewCount(x)}

VersionsOn(x, e, y) ==
    /\ Vals(y.body, "version") = Vals(x.body, "version")
    /\ Vals(y.body, "latest") =
          IF e.version = 0 \/ Vals(x.body, "version") = {} THEN Vals(x.body, "latest")
          ELSE {e.version} \ Vals(x.body, "version")

\* The PATCH made of a copy with a header.
LEMMA PatchedWritten ==
  ASSUME NEW n \in Nat, NEW x, Fine(x, n), Vals(x.body, "header") # {}, NEW e \in Event,
         NEW y, IsPatch(x, e, y)
  PROVE  /\ Fine(y, n)
         /\ CountedOn(x, y)
         /\ Topped(x.body) => Topped(y.body)
         /\ Below(x.body) => Below(y.body)
         /\ Vals(x.body, "version") = {} => Vals(y.body, "version") = {}
         /\ Vals(y.body, "header") \subseteq {NewCount(x)}
         /\ n + 2 < BodyLimit => HeaderOn(x, y)
         /\ n + 3 < BodyLimit => OccurrencesOn(x, y)
         /\ n + 5 < BodyLimit => VersionsOn(x, e, y)
<1> DEFINE count == NewCount(x)
           r == Refresh(x.body, e, count)
           c == Clip(r)
<1>1. /\ x \in TextType /\ Sound(x.body, n) /\ x.body \in Seq(LineType)
      /\ x.title.count \in Nat /\ x.title.stem \in {"summary", "better"}
  BY FineFacts
<1>2. count \in Nat
  BY NewCountFacts
<1>3. Has(x.body, "header")
  BY <1>1, ValsFacts
<1>4. y = [title |-> [x.title EXCEPT !.count = count], body |-> c]
  BY <1>3 DEF Patched, IsPatch
<1> HIDE DEF count
<1>5. x.title \in TitleType
  BY <1>1 DEF TextType
<1>6. /\ y.title \in TitleType /\ y.title.count = count /\ y.title.stem = x.title.stem
      /\ y.body = c /\ y = [title |-> y.title, body |-> y.body]
  BY <1>2, <1>4, <1>5 DEF TitleType
<1>7. /\ Sound(r, n)
      /\ Topped(x.body) => Topped(r)
      /\ \A kind \in {"header", "occurrences"} :
            Vals(r, kind) = IF Vals(x.body, kind) = {} THEN {} ELSE {count}
      /\ \A kind \in {"version", "human", "note", "ticks", "info"} : Vals(r, kind) = Vals(x.body, kind)
      /\ Vals(r, "latest") =
            IF e.version = 0 \/ Vals(x.body, "version") = {} THEN Vals(x.body, "latest")
            ELSE {e.version} \ Vals(x.body, "version")
  <2> DEFINE b == x.body
  <2>1. Sound(b, n)
    BY <1>1
  <2> HIDE DEF b
  <2> DEFINE s == Refresh(b, e, count)
  <2>2. /\ Sound(s, n)
        /\ Topped(b) => Topped(s)
        /\ \A kind \in {"header", "occurrences"} :
              Vals(s, kind) = IF Vals(b, kind) = {} THEN {} ELSE {count}
        /\ \A kind \in {"version", "human", "note", "ticks", "info"} : Vals(s, kind) = Vals(b, kind)
        /\ Vals(s, "latest") =
              IF e.version = 0 \/ Vals(b, "version") = {} THEN Vals(b, "latest")
              ELSE {e.version} \ Vals(b, "version")
    BY ONLY <1>2, <2>1, n \in Nat, e \in Event, RefreshFacts
  <2>3. QED
    BY <2>2 DEF b
<1> HIDE DEF r
<1>8. r \in Seq(LineType)
  BY <1>7, SoundFacts
<1>9. Sound(c, n) /\ c \in Seq(LineType)
  <2>1. Sound(c, n)
    BY <1>7, SoundClip
  <2> HIDE DEF c
  <2>2. QED
    BY <2>1, SoundFacts
<1>10. /\ \A kind : kind \notin {"ticks", "note"} => Vals(c, kind) \subseteq Vals(r, kind)
       /\ \A kind \in Rows : n + Rank(kind) + 1 < BodyLimit => Vals(c, kind) = Vals(r, kind)
       /\ c = r \/ Vals(c, "note") # {}
       /\ (Len(r) >= 1 /\ r[1].kind \notin Wide) => Len(c) >= 1 /\ c[1] = r[1]
  BY <1>7, ClipSays
<1> HIDE DEF c
<1>11. Fine(y, n)
  <2>1. y \in TextType /\ y.title.stem # "none" /\ Sound(y.body, n)
    BY <1>1, <1>6, <1>9 DEF TextType
  <2>2. QED
    BY <2>1 DEF Fine
<1>12. Topped(x.body) => Topped(c)
  BY <1>7, <1>10 DEF Topped, Wide
<1>13. Below(x.body) => Below(c)
  BY <1>7, <1>10 DEF Below
<1>14. Vals(x.body, "version") = {} => Vals(c, "version") = {}
  BY <1>7, <1>10
<1>15. Vals(r, "header") = {count}
  BY <1>7
<1>16. Vals(c, "header") \subseteq {count}
  BY <1>10, <1>15
<1>17. /\ n + 2 < BodyLimit => Vals(c, "header") = Vals(r, "header")
       /\ n + 3 < BodyLimit => Vals(c, "occurrences") = Vals(r, "occurrences")
       /\ n + 5 < BodyLimit => /\ Vals(c, "version") = Vals(r, "version")
                               /\ Vals(c, "latest") = Vals(r, "latest")
  <2>1. {"header", "occurrences", "version", "latest"} \subseteq Rows
    BY DEF Rows
  <2>2. n + 5 < BodyLimit => n + 4 < BodyLimit
    BY Limits
  <2>3. QED
    BY <1>10, <2>1, <2>2, RankFacts
<1>18. /\ n + 2 < BodyLimit => HeaderOn(x, y)
       /\ n + 3 < BodyLimit => OccurrencesOn(x, y)
       /\ n + 5 < BodyLimit => VersionsOn(x, e, y)
  BY <1>6, <1>7, <1>15, <1>17 DEF count, HeaderOn, OccurrencesOn, VersionsOn
<1>19. QED
  BY <1>6, <1>11, <1>12, <1>13, <1>14, <1>16, <1>18 DEF count, CountedOn

\* The PATCH made of a copy without one leaves the body as it is.
LEMMA PatchedElse ==
  ASSUME NEW n \in Nat, NEW x, Fine(x, n), Vals(x.body, "header") = {}, Fine(issue, n),
         NEW e \in Event, NEW y, IsPatch(x, e, y)
  PROVE  /\ Fine(y, n) /\ y.body = issue.body
         /\ CountedOn(x, y)
<1> DEFINE count == NewCount(x)
<1>1. /\ x \in TextType /\ x.body \in Seq(LineType)
      /\ x.title.count \in Nat /\ x.title.stem \in {"summary", "better"}
      /\ issue.body \in Seq(LineType) /\ Sound(issue.body, n)
  BY FineFacts
<1>2. count \in Nat
  BY NewCountFacts
<1>3. ~ Has(x.body, "header")
  BY <1>1, ValsFacts
<1>4. y = [title |-> [x.title EXCEPT !.count = count], body |-> issue.body]
  BY <1>3 DEF Patched, IsPatch
<1> HIDE DEF count
<1>5. x.title \in TitleType
  BY <1>1 DEF TextType
<1>6. /\ y.title \in TitleType /\ y.title.count = count /\ y.title.stem = x.title.stem
      /\ y.body = issue.body /\ y = [title |-> y.title, body |-> y.body]
  BY <1>2, <1>4, <1>5 DEF TitleType
<1>7. y \in TextType
  BY <1>1, <1>6 DEF TextType
<1>8. QED
  BY <1>1, <1>6, <1>7 DEF Fine, count, CountedOn

(***************************************************************************)
(* People.                                                                 *)
(***************************************************************************)
\* What an edit does to a text.
Edited(name, x, y) ==
    /\ name # "retitle" => y.title = x.title
    /\ (name = "retitle" \/ x.title.stem = "better") => y.title.stem = "better"
    /\ y.title.count \in {0, x.title.count}
    /\ \A kind \in Rows :
          Vals(y.body, kind) =
             IF (name = "strip" /\ kind = "header") \/ (name = "unversion" /\ kind = "version")
             THEN {} ELSE Vals(x.body, kind)
    /\ (name = "top" \/ Topped(x.body)) => Topped(y.body)
    /\ (name = "below" \/ Below(x.body)) => Below(y.body)

\* With another body the text is still one.
WithBody(x, y, b) == y = [x EXCEPT !.body = b]

LEMMA NewBody ==
  ASSUME NEW n \in Nat, NEW x, Fine(x, n), NEW b, Sound(b, n + 1), NEW y, WithBody(x, y, b)
  PROVE  Fine(y, n + 1) /\ y.title = x.title /\ y.body = b
<1>1. x \in TextType /\ x.title.stem # "none"
  BY DEF Fine
<1>2. b \in Seq(LineType)
  BY SoundFacts
<1>3. y \in TextType /\ y.title = x.title /\ y.body = b
  BY <1>1, <1>2 DEF TextType, WithBody
<1>4. QED
  BY <1>1, <1>3 DEF Fine

LEMMA TopEdit ==
  ASSUME NEW n \in Nat, NEW x, Fine(x, n),
         NEW y, y = [x EXCEPT !.body = InsertAt(@, 1, Line("human", 1))]
  PROVE  Fine(y, n + 1) /\ Edited("top", x, y)
<1> DEFINE l == Line("human", 1)
           b == InsertAt(x.body, 1, l)
<1>1. Sound(x.body, n) /\ x.body \in Seq(LineType)
  BY FineFacts
<1>2. /\ Plain(l) /\ l \in LineType /\ l.kind = "human" /\ l.val = 1
      /\ l.kind \notin Rows \cup Wide /\ l.kind # "note"
  BY DEF Plain, Line, LineType, Kinds, Rows, Wide
<1>3. WithBody(x, y, b)
  BY DEF WithBody
<1> HIDE DEF l
<1>4. Sound(b, n + 1) /\ b[1] = l /\ Len(b) >= 1
  BY <1>1, <1>2, SoundTop
<1>5. /\ Vals(b, "human") = Vals(x.body, "human") \cup {1}
      /\ \A other : other # "human" => Vals(b, other) = Vals(x.body, other)
  <2>1. 1 \in 1..(Len(x.body) + 1)
    BY <1>1
  <2>2. /\ Vals(b, l.kind) = Vals(x.body, l.kind) \cup {l.val}
        /\ \A other : other # l.kind => Vals(b, other) = Vals(x.body, other)
    BY <1>1, <1>2, <2>1, InsertSays
  <2> HIDE DEF b
  <2>3. QED
    BY <1>2, <2>2
<1> HIDE DEF b
<1>6. Fine(y, n + 1) /\ y.title = x.title /\ y.body = b
  BY ONLY <1>3, <1>4, n \in Nat, Fine(x, n), NewBody
<1>7. Topped(y.body)
  BY <1>2, <1>4, <1>6 DEF Topped
<1>8. Below(x.body) => Below(y.body)
  BY <1>5, <1>6 DEF Below
<1>9. \A kind \in Rows : Vals(y.body, kind) = Vals(x.body, kind)
  BY <1>2, <1>5, <1>6
<1>10. QED
  BY <1>6, <1>7, <1>8, <1>9 DEF Edited

LEMMA BelowEdit ==
  ASSUME NEW n \in Nat, NEW x, Fine(x, n),
         NEW y, y = [x EXCEPT !.body = Append(@, Line("human", 2))]
  PROVE  Fine(y, n + 1) /\ Edited("below", x, y)
<1> DEFINE l == Line("human", 2)
           b == Append(x.body, l)
<1>1. Sound(x.body, n) /\ x.body \in Seq(LineType)
  BY FineFacts
<1>2. /\ Plain(l) /\ l \in LineType /\ l.kind = "human" /\ l.val = 2
      /\ l.kind \notin Rows \cup Wide /\ l.kind # "note"
  BY DEF Plain, Line, LineType, Kinds, Rows, Wide
<1>3. WithBody(x, y, b)
  BY DEF WithBody
<1> HIDE DEF l
<1>4. /\ Sound(b, n)
      /\ Len(x.body) >= 1 => b[1] = x.body[1] /\ Len(b) >= 1
      /\ Vals(b, l.kind) = Vals(x.body, l.kind) \cup {l.val}
      /\ \A other : other # l.kind => Vals(b, other) = Vals(x.body, other)
  <2> DEFINE a == x.body
  <2>1. Sound(a, n)
    BY <1>1
  <2> HIDE DEF a
  <2>2. /\ Sound(Append(a, l), n)
        /\ Len(a) >= 1 => Append(a, l)[1] = a[1] /\ Len(Append(a, l)) >= 1
        /\ Vals(Append(a, l), l.kind) = Vals(a, l.kind) \cup {l.val}
        /\ \A other : other # l.kind => Vals(Append(a, l), other) = Vals(a, other)
    BY ONLY <1>2, <2>1, n \in Nat, SoundBelow
  <2>3. QED
    BY <2>2 DEF a
<1> HIDE DEF b
<1>5. n + 1 \in Nat /\ n <= n + 1
  OBVIOUS
<1>6. Sound(b, n + 1)
  BY <1>4, <1>5, SoundMore
<1>7. Fine(y, n + 1) /\ y.title = x.title /\ y.body = b
  BY ONLY <1>3, <1>6, n \in Nat, Fine(x, n), NewBody
<1>8. Topped(x.body) => Topped(y.body)
  BY <1>4, <1>7 DEF Topped
<1>9. Below(y.body)
  BY <1>2, <1>4, <1>7 DEF Below
<1>10. \A kind \in Rows : Vals(y.body, kind) = Vals(x.body, kind)
  BY <1>2, <1>4, <1>7
<1>11. QED
  BY <1>7, <1>8, <1>9, <1>10 DEF Edited

LEMMA DropEdit ==
  ASSUME NEW n \in Nat, NEW x, Fine(x, n),
         NEW name, NEW kind, <<name, kind>> \in {<<"strip", "header">>, <<"unversion", "version">>},
         NEW y, y = [x EXCEPT !.body = Drop(@, kind)]
  PROVE  Fine(y, n + 1) /\ Edited(name, x, y)
<1> DEFINE b == Drop(x.body, kind)
<1>1. Sound(x.body, n)
  BY FineFacts
<1>2. /\ kind \in Rows /\ kind \notin {"human", "note"}
      /\ name \notin {"retitle", "top", "below"}
      /\ \A k \in Rows : (\/ name = "strip" /\ k = "header"
                          \/ name = "unversion" /\ k = "version") <=> k = kind
  BY DEF Rows
<1>3. WithBody(x, y, b)
  BY DEF WithBody
<1>4. Sound(b, n)
  BY <1>1, <1>2, SoundDrop
<1>5. Topped(x.body) => Topped(b)
  BY <1>1, <1>2, ToppedDrop
<1>6. /\ Vals(b, kind) = {}
      /\ \A other : other # kind => Vals(b, other) = Vals(x.body, other)
  BY <1>1, <1>2, DropSays
<1> HIDE DEF b
<1>7. n + 1 \in Nat /\ n <= n + 1
  OBVIOUS
<1>8. Sound(b, n + 1)
  BY <1>4, <1>7, SoundMore
<1>9. Fine(y, n + 1) /\ y.title = x.title /\ y.body = b
  BY ONLY <1>3, <1>8, n \in Nat, Fine(x, n), NewBody
<1>10. Below(x.body) => Below(y.body)
  BY <1>2, <1>6, <1>9 DEF Below
<1>11. \A k \in Rows : Vals(y.body, k) = IF k = kind THEN {} ELSE Vals(x.body, k)
  BY <1>6, <1>9
<1>12. QED
  BY <1>2, <1>5, <1>9, <1>10, <1>11 DEF Edited

LEMMA TitleEdit ==
  ASSUME NEW n \in Nat, NEW x, Fine(x, n), NEW keepsCount \in BOOLEAN,
         NEW y, y = [x EXCEPT !.title = [count |-> IF keepsCount THEN @.count ELSE 0,
                                         stem  |-> "better"]]
  PROVE  Fine(y, n + 1) /\ Edited("retitle", x, y)
<1> DEFINE c == IF keepsCount THEN x.title.count ELSE 0
           s == [count |-> c, stem |-> "better"]
<1>1. x \in TextType /\ Sound(x.body, n) /\ x.title.count \in Nat
  BY FineFacts
<1>2. y = [x EXCEPT !.title = s]
  OBVIOUS
<1>3. c \in Nat /\ c \in {0, x.title.count}
  BY <1>1
<1> HIDE DEF c
<1>4. s \in TitleType /\ s.count = c /\ s.stem = "better"
  BY <1>3 DEF TitleType
<1> HIDE DEF s
<1>5. y \in TextType /\ y.title = s /\ y.body = x.body
  BY <1>1, <1>2, <1>4 DEF TextType
<1>6. Sound(x.body, n + 1)
  <2>1. n + 1 \in Nat /\ n <= n + 1
    OBVIOUS
  <2>2. QED
    BY <1>1, <2>1, SoundMore
<1>7. Fine(y, n + 1)
  BY <1>4, <1>5, <1>6 DEF Fine
<1>8. QED
  BY <1>3, <1>4, <1>5, <1>7 DEF Edited

\* The edits, together.
LEMMA PeopleFacts ==
  ASSUME TextInv, People
  PROVE  /\ Exists /\ used.edits \in Nat /\ used.edits < MaxEdits
         /\ used' = [used EXCEPT !.edits = @ + 1]
         /\ UNCHANGED <<job, recorded, running, overlapped, late>>
         /\ Fine(issue', used.edits + 1) /\ Size(issue'.body) <= HardLimit
         /\ \E name : /\ edits' = edits \cup {[what |-> name, seen |-> \A w \in Worker : ~ Holds(w)]}
                      /\ Edited(name, issue, issue')
<1> DEFINE n == used.edits
<1>1. n \in Nat /\ (Exists => Fine(issue, n))
  BY DEF TextInv
<1>2. ASSUME NEW name, NEW y, Edit(name, y)
      PROVE  /\ Exists /\ n < MaxEdits /\ issue' = y /\ Size(y.body) <= HardLimit
             /\ used' = [used EXCEPT !.edits = @ + 1]
             /\ UNCHANGED <<job, recorded, running, overlapped, late>>
             /\ edits' = edits \cup {[what |-> name, seen |-> \A w \in Worker : ~ Holds(w)]}
  BY <1>2 DEF Edit, history
<1> HIDE DEF n
<1>3. ASSUME NEW name, NEW y, Edit(name, y),
             Exists => Fine(y, n + 1) /\ Edited(name, issue, y)
      PROVE  /\ Exists /\ n < MaxEdits
             /\ used' = [used EXCEPT !.edits = @ + 1]
             /\ UNCHANGED <<job, recorded, running, overlapped, late>>
             /\ Fine(issue', n + 1) /\ Size(issue'.body) <= HardLimit
             /\ \E done : /\ edits' = edits \cup {[what |-> done, seen |-> \A w \in Worker : ~ Holds(w)]}
                          /\ Edited(done, issue, issue')
  BY <1>2, <1>3
<1>4. CASE WriteOnTop
  <2> DEFINE y == [issue EXCEPT !.body = InsertAt(@, 1, Line("human", 1))]
  <2>1. Edit("top", y)
    BY <1>4 DEF WriteOnTop
  <2>2. Exists => Fine(y, n + 1) /\ Edited("top", issue, y)
    BY <1>1, TopEdit
  <2> HIDE DEF y
  <2>3. QED
    BY <1>1, <1>3, <2>1, <2>2 DEF n
<1>5. CASE WriteBelow
  <2> DEFINE y == [issue EXCEPT !.body = Append(@, Line("human", 2))]
  <2>1. Edit("below", y)
    BY <1>5 DEF WriteBelow
  <2>2. Exists => Fine(y, n + 1) /\ Edited("below", issue, y)
    BY <1>1, BelowEdit
  <2> HIDE DEF y
  <2>3. QED
    BY <1>1, <1>3, <2>1, <2>2 DEF n
<1>6. CASE StripHeader
  <2> DEFINE y == [issue EXCEPT !.body = Drop(@, "header")]
  <2>1. Edit("strip", y)
    BY <1>6 DEF StripHeader
  <2>2. Exists => Fine(y, n + 1) /\ Edited("strip", issue, y)
    BY <1>1, DropEdit
  <2> HIDE DEF y
  <2>3. QED
    BY <1>1, <1>3, <2>1, <2>2 DEF n
<1>7. CASE DeleteVersionRow
  <2> DEFINE y == [issue EXCEPT !.body = Drop(@, "version")]
  <2>1. Edit("unversion", y)
    BY <1>7 DEF DeleteVersionRow
  <2>2. Exists => Fine(y, n + 1) /\ Edited("unversion", issue, y)
    BY <1>1, DropEdit
  <2> HIDE DEF y
  <2>3. QED
    BY <1>1, <1>3, <2>1, <2>2 DEF n
<1>8. ASSUME NEW keepsCount \in BOOLEAN, Retitle(keepsCount)
      PROVE  /\ Exists /\ n < MaxEdits
             /\ used' = [used EXCEPT !.edits = @ + 1]
             /\ UNCHANGED <<job, recorded, running, overlapped, late>>
             /\ Fine(issue', n + 1) /\ Size(issue'.body) <= HardLimit
             /\ \E done : /\ edits' = edits \cup {[what |-> done, seen |-> \A w \in Worker : ~ Holds(w)]}
                          /\ Edited(done, issue, issue')
  <2> DEFINE y == [issue EXCEPT !.title = [count |-> IF keepsCount THEN @.count ELSE 0,
                                           stem  |-> "better"]]
  <2>1. Edit("retitle", y)
    BY <1>8 DEF Retitle
  <2>2. Exists => Fine(y, n + 1) /\ Edited("retitle", issue, y)
    BY <1>1, TitleEdit
  <2> HIDE DEF y
  <2>3. QED
    BY <1>3, <2>1, <2>2
<1>9. QED
  BY <1>1, <1>4, <1>5, <1>6, <1>7, <1>8 DEF People, n

(***************************************************************************)
(* Filings.                                                                *)
(***************************************************************************)
\* A new issue.
LEMMA CreateFacts ==
  ASSUME TextInv, NEW e \in Event, Create(e)
  PROVE  /\ ~ Exists /\ Fine(issue', 0) /\ Size(issue'.body) <= HardLimit
         /\ \A w \in Worker : ~ Holds(w)
         /\ issue'.title.count = 1
         /\ Vals(issue'.body, "header") = {1} /\ Vals(issue'.body, "occurrences") = {1}
         /\ Vals(issue'.body, "version") = {e.version} /\ Vals(issue'.body, "latest") = {}
         /\ recorded' = 1 /\ running' = e.version
         /\ UNCHANGED <<job, used, overlapped, late, edits>>
<1> DEFINE b == BuildBody(e)
           c == Clip(b)
<1>1. /\ ~ Exists /\ issue' = [title |-> [count |-> 1, stem |-> "summary"], body |-> c]
      /\ Size(c) <= HardLimit
      /\ recorded' = 1 /\ running' = e.version
      /\ UNCHANGED <<job, used, overlapped, late, edits>>
  BY DEF Create
<1>2. \A w \in Worker : ~ Holds(w)
  BY <1>1 DEF TextInv
<1>3. /\ Sound(b, 0)
      /\ Vals(b, "header") = {1} /\ Vals(b, "occurrences") = {1}
      /\ Vals(b, "version") = {e.version} /\ Vals(b, "latest") = {}
  BY BuildFacts
<1> HIDE DEF b
<1>4. b \in Seq(LineType) /\ 0 \in Nat
  BY <1>3, SoundFacts
<1>5. Sound(c, 0)
  BY <1>3, <1>4, SoundClip
<1>6. /\ Vals(c, "header") = Vals(b, "header")
      /\ Vals(c, "occurrences") = Vals(b, "occurrences")
      /\ Vals(c, "version") = Vals(b, "version")
      /\ Vals(c, "latest") = Vals(b, "latest")
  <2>1. \A kind \in Rows : 0 + Rank(kind) + 1 < BodyLimit => Vals(c, kind) = Vals(b, kind)
    BY <1>3, <1>4, ClipSays
  <2>2. \A kind \in Rows : 0 + Rank(kind) + 1 < BodyLimit
    BY RankFacts, Limits
  <2> HIDE DEF c
  <2>3. QED
    BY <2>1, <2>2 DEF Rows
<1> HIDE DEF c
<1>7. c \in Seq(LineType)
  BY <1>5, SoundFacts
<1>8. Fine(issue', 0)
  <2>1. issue'.body = c /\ issue'.title.stem = "summary"
    BY <1>1
  <2>2. issue' \in TextType
    BY <1>1, <1>7 DEF TextType, TitleType
  <2>3. QED
    BY <1>5, <2>1, <2>2 DEF Fine
<1>9. QED
  BY <1>1, <1>2, <1>3, <1>6, <1>7, <1>8

\* GitHub executes the PATCH of w.
LEMMA ExecuteFacts ==
  ASSUME TextInv, NEW w \in Worker, Execute(w)
  PROVE  /\ Holds(w) /\ Exists /\ job[w].event \in Event /\ used.edits \in Nat
         /\ Fine(job[w].copy, used.edits) /\ Fine(issue, used.edits)
         /\ issue' = Patched(job[w].event, job[w].copy)
         /\ Fine(issue', used.edits) /\ Size(issue'.body) <= HardLimit
         /\ edits' = edits
<1> DEFINE x == job[w].copy
           e == job[w].event
           n == used.edits
<1>1. /\ Holds(w) /\ issue' = Patched(e, x) /\ edits' = edits
      /\ Size(Patched(e, x).body) <= HardLimit
  BY DEF Execute
<1>2. /\ Exists /\ e \in Event /\ n \in Nat /\ Fine(x, n) /\ Fine(issue, n)
  BY <1>1 DEF TextInv
<1> HIDE DEF x, e, n
<1>3. Fine(issue', n)
  <2>1. CASE Vals(x.body, "header") = {}
    BY <1>1, <1>2, <2>1, PatchedElse DEF IsPatch
  <2>2. CASE Vals(x.body, "header") # {}
    BY <1>1, <1>2, <2>2, PatchedWritten DEF IsPatch
  <2>3. QED
    BY <2>1, <2>2
<1>4. QED
  BY <1>1, <1>2, <1>3 DEF x, e, n

\* What that leaves of the copies.
LEMMA PatchFacts ==
  ASSUME TextInv, NEW w \in Worker, Patch(w) \/ AnswerLost(w)
  PROVE  /\ Execute(w)
         /\ used' \in [filings : Nat, edits : Nat, lost : Nat] /\ used'.edits = used.edits
         /\ job' \in [Worker -> [event : Event, copy : TextType, arrived : BOOLEAN]]
         /\ \A v \in Worker : Holds(v)' =>
               /\ Holds(v) /\ job'[v].copy = job[v].copy /\ job'[v].event = job[v].event
               /\ v # w => job'[v].arrived = job[v].arrived
               /\ v = w => job'[v].arrived
<1>1. /\ used \in [filings : Nat, edits : Nat, lost : Nat]
      /\ job \in [Worker -> [event : Event, copy : TextType, arrived : BOOLEAN]]
  BY DEF TextInv
<1>2. CASE Patch(w)
  <2>1. Execute(w) /\ job' = [job EXCEPT ![w] = NoJob] /\ used' = used
    BY <1>2 DEF Patch
  <2>2. job' \in [Worker -> [event : Event, copy : TextType, arrived : BOOLEAN]]
    BY <1>1, <2>1, NoIssueFacts
  <2>3. job'[w] = NoJob /\ \A v \in Worker : v # w => job'[v] = job[v]
    BY <1>1, <2>1
  <2>4. ~ Holds(w)'
    BY <2>3, NoIssueFacts DEF Holds
  <2>5. \A v \in Worker : Holds(v)' => v # w /\ job'[v] = job[v] /\ Holds(v)
    BY <2>3, <2>4 DEF Holds
  <2>6. QED
    BY <1>1, <2>1, <2>2, <2>5
<1>3. CASE AnswerLost(w)
  <2> DEFINE j == [job[w] EXCEPT !.arrived = TRUE]
  <2>1. Execute(w) /\ used' = [used EXCEPT !.lost = @ + 1] /\ job' = [job EXCEPT ![w] = j]
    BY <1>3 DEF AnswerLost
  <2>2. /\ j \in [event : Event, copy : TextType, arrived : BOOLEAN]
        /\ j.copy = job[w].copy /\ j.event = job[w].event /\ j.arrived = TRUE
    BY <1>1
  <2>3. used' \in [filings : Nat, edits : Nat, lost : Nat] /\ used'.edits = used.edits
    BY <1>1, <2>1
  <2> HIDE DEF j
  <2>4. /\ job' \in [Worker -> [event : Event, copy : TextType, arrived : BOOLEAN]]
        /\ job'[w] = j /\ \A v \in Worker : v # w => job'[v] = job[v]
    BY <1>1, <2>1, <2>2
  <2>5. \A v \in Worker : Holds(v)' =>
               /\ Holds(v) /\ job'[v].copy = job[v].copy /\ job'[v].event = job[v].event
               /\ v # w => job'[v].arrived = job[v].arrived
               /\ v = w => job'[v].arrived
    <3> SUFFICES ASSUME NEW v \in Worker, Holds(v)'
                 PROVE  /\ Holds(v) /\ job'[v].copy = job[v].copy /\ job'[v].event = job[v].event
                        /\ v # w => job'[v].arrived = job[v].arrived
                        /\ v = w => job'[v].arrived
      OBVIOUS
    <3>1. CASE v = w
      <4>1. /\ job'[v].copy = job[v].copy /\ job'[v].event = job[v].event
            /\ job'[v].arrived = TRUE
        BY <2>2, <2>4, <3>1
      <4>2. QED
        BY <3>1, <4>1 DEF Holds
    <3>2. CASE v # w
      BY <2>4, <3>2 DEF Holds
    <3>3. QED
      BY <3>1, <3>2
  <2>6. QED
    BY <2>1, <2>3, <2>4, <2>5
<1>4. QED
  BY <1>2, <1>3

\* A filing begins.
LEMMA LookupFacts ==
  ASSUME TextInv, NEW w \in Worker, NEW e \in Event, Lookup(w, e)
  PROVE  /\ Exists /\ ~ Holds(w)
         /\ used' \in [filings : Nat, edits : Nat, lost : Nat] /\ used'.edits = used.edits
         /\ UNCHANGED <<issue, recorded, running, overlapped, late, edits>>
         /\ job' \in [Worker -> [event : Event, copy : TextType, arrived : BOOLEAN]]
         /\ job'[w].copy = issue /\ ~ job'[w].arrived
         /\ \A v \in Worker : v # w => job'[v] = job[v]
<1> DEFINE j == [event |-> e, copy |-> issue, arrived |-> FALSE]
<1>1. /\ used \in [filings : Nat, edits : Nat, lost : Nat] /\ issue \in TextType
      /\ job \in [Worker -> [event : Event, copy : TextType, arrived : BOOLEAN]]
  BY DEF TextInv
<1>2. /\ Exists /\ ~ Holds(w) /\ used' = [used EXCEPT !.filings = @ + 1]
      /\ UNCHANGED <<issue, recorded, running, overlapped, late, edits>>
      /\ job' = [job EXCEPT ![w] = j]
  BY DEF Lookup, history
<1>3. used' \in [filings : Nat, edits : Nat, lost : Nat] /\ used'.edits = used.edits
  BY <1>1, <1>2
<1>4. /\ j \in [event : Event, copy : TextType, arrived : BOOLEAN]
      /\ j.copy = issue /\ j.arrived = FALSE
  BY <1>1
<1> HIDE DEF j
<1>5. /\ job' \in [Worker -> [event : Event, copy : TextType, arrived : BOOLEAN]]
      /\ job'[w] = j /\ \A v \in Worker : v # w => job'[v] = job[v]
  BY <1>1, <1>2, <1>4
<1>6. QED
  BY <1>2, <1>3, <1>4, <1>5

\* A filing ends without a PATCH.
LEMMA GiveUpFacts ==
  ASSUME TextInv, NEW w \in Worker, GiveUp(w)
  PROVE  /\ UNCHANGED <<issue, used, recorded, running, overlapped, edits>>
         /\ late' = late \ {w}
         /\ job' \in [Worker -> [event : Event, copy : TextType, arrived : BOOLEAN]]
         /\ \A v \in Worker : Holds(v)' => v # w /\ Holds(v) /\ job'[v] = job[v]
         /\ \A v \in Worker : v # w => job'[v] = job[v]
<1>1. job \in [Worker -> [event : Event, copy : TextType, arrived : BOOLEAN]]
  BY DEF TextInv
<1>2. /\ UNCHANGED <<issue, used, recorded, running, overlapped, edits>>
      /\ late' = late \ {w} /\ job' = [job EXCEPT ![w] = NoJob]
  BY DEF GiveUp
<1>3. /\ job' \in [Worker -> [event : Event, copy : TextType, arrived : BOOLEAN]]
      /\ job'[w] = NoJob /\ \A v \in Worker : v # w => job'[v] = job[v]
  BY <1>1, <1>2, NoIssueFacts
<1>4. ~ Holds(w)'
  BY <1>3, NoIssueFacts DEF Holds
<1>5. \A v \in Worker : Holds(v)' => v # w /\ Holds(v) /\ job'[v] = job[v]
  BY <1>3, <1>4 DEF Holds
<1>6. QED
  BY <1>2, <1>3, <1>5

\* The steps, by what the proofs tell apart.
LEMMA Steps ==
  ASSUME [Next]_vars
  PROVE  \/ \E e \in Event : Create(e)
         \/ \E w \in Worker, e \in Event : Lookup(w, e)
         \/ \E w \in Worker : Patch(w) \/ AnswerLost(w)
         \/ \E w \in Worker : GiveUp(w)
         \/ People
         \/ UNCHANGED vars
BY DEF Next, Quiet

LEMMA TextInit ==
  ASSUME Init
  PROVE  TextInv /\ ~ Exists /\ edits = {}
<1>1. /\ issue = NoIssue /\ job = [w \in Worker |-> NoJob]
      /\ used = [filings |-> 0, edits |-> 0, lost |-> 0]
      /\ recorded = 0 /\ running = 0 /\ late = {} /\ edits = {}
  BY DEF Init
<1>2. \A w \in Worker : job[w] = NoJob /\ ~ Holds(w)
  BY <1>1, NoIssueFacts DEF Holds
<1>3. job \in [Worker -> [event : Event, copy : TextType, arrived : BOOLEAN]]
  BY <1>1, NoIssueFacts
<1>4. issue \in TextType /\ Size(issue.body) <= HardLimit
  BY <1>1, NoIssueFacts, Limits
<1>5. used \in [filings : Nat, edits : Nat, lost : Nat] /\ used.edits <= MaxEdits
  BY <1>1, Limits
<1>6. ~ Exists
  BY <1>1 DEF Exists
<1>7. QED
  BY <1>1, <1>2, <1>3, <1>4, <1>5, <1>6 DEF TextInv

LEMMA TextNext ==
  ASSUME TextInv, [Next]_vars
  PROVE  TextInv'
<1> DEFINE Jobs == [Worker -> [event : Event, copy : TextType, arrived : BOOLEAN]]
           Uses == [filings : Nat, edits : Nat, lost : Nat]
<1>1. /\ issue \in TextType /\ Size(issue.body) <= HardLimit
      /\ job \in Jobs /\ used \in Uses /\ used.edits <= MaxEdits /\ used.edits \in Nat
      /\ recorded \in Nat /\ running \in Nat
      /\ late \subseteq {w \in Worker : Holds(w)}
      /\ Exists => Fine(issue, used.edits)
      /\ \A w \in Worker : Holds(w) => Exists /\ Fine(job[w].copy, used.edits)
  BY DEF TextInv
<1>2. \A e \in Event : e.version \in Nat
  BY TextConstants
<1>3. ASSUME NEW e \in Event, Create(e) PROVE TextInv'
  <2>1. /\ Fine(issue', 0) /\ Size(issue'.body) <= HardLimit
        /\ \A w \in Worker : ~ Holds(w)
        /\ recorded' = 1 /\ running' = e.version
        /\ UNCHANGED <<job, used, overlapped, late, edits>>
    BY <1>3, CreateFacts
  <2>2. \A w \in Worker : ~ Holds(w)'
    BY <2>1 DEF Holds
  <2>3. Fine(issue', used.edits)
    <3>1. 0 \in Nat /\ 0 <= used.edits
      BY <1>1
    <3>2. QED
      BY <1>1, <2>1, <3>1, FineMore
  <2>4. issue' \in TextType
    BY <2>3, FineFacts
  <2>5. used'.edits = used.edits /\ late' \subseteq {w \in Worker : Holds(w)'}
    BY <1>1, <2>1
  <2>6. QED
    BY <1>1, <1>2, <2>1, <2>2, <2>3, <2>4, <2>5 DEF TextInv
<1>4. ASSUME NEW w \in Worker, NEW e \in Event, Lookup(w, e) PROVE TextInv'
  <2>1. /\ Exists /\ ~ Holds(w)
        /\ used' \in Uses /\ used'.edits = used.edits
        /\ UNCHANGED <<issue, recorded, running, overlapped, late, edits>>
        /\ job' \in Jobs /\ job'[w].copy = issue /\ ~ job'[w].arrived
        /\ \A v \in Worker : v # w => job'[v] = job[v]
    BY <1>4, LookupFacts
  <2>2. Exists' /\ Fine(issue, used.edits)
    BY <1>1, <2>1 DEF Exists
  <2>3. late' \subseteq {v \in Worker : Holds(v)'}
    <3> SUFFICES ASSUME NEW v \in late PROVE v \in Worker /\ Holds(v)'
      BY <2>1
    <3>1. v \in Worker /\ Holds(v) /\ v # w
      BY <1>1, <2>1
    <3>2. QED
      BY <2>1, <3>1 DEF Holds
  <2>4. ASSUME NEW v \in Worker, Holds(v)' PROVE Fine(job'[v].copy, used.edits)
    <3>1. CASE v = w
      BY <2>1, <2>2, <3>1
    <3>2. CASE v # w
      <4>1. job'[v] = job[v] /\ Holds(v)
        BY <2>1, <2>4, <3>2 DEF Holds
      <4>2. QED
        BY <1>1, <4>1
    <3>3. QED
      BY <3>1, <3>2
  <2>5. QED
    BY <1>1, <2>1, <2>2, <2>3, <2>4 DEF TextInv
<1>5. ASSUME NEW w \in Worker, Patch(w) \/ AnswerLost(w) PROVE TextInv'
  <2>1. /\ Execute(w) /\ used' \in Uses /\ used'.edits = used.edits /\ job' \in Jobs
        /\ \A v \in Worker : Holds(v)' => Holds(v) /\ job'[v].copy = job[v].copy
    BY <1>5, PatchFacts
  <2>2. Fine(issue', used.edits) /\ Size(issue'.body) <= HardLimit
    BY <2>1, ExecuteFacts
  <2>3. issue' \in TextType /\ Exists'
    BY <2>2, FineFacts DEF Exists
  <2>4. recorded' \in Nat /\ running' \in Nat
    <3>1. /\ recorded' = IF job[w].arrived THEN recorded ELSE recorded + 1
          /\ running' = IF job[w].event.version = 0 THEN running ELSE job[w].event.version
      BY <2>1 DEF Execute
    <3>2. job[w].event \in Event
      BY <1>1
    <3>3. QED
      BY <1>1, <1>2, <3>1, <3>2
  <2>5. late' \subseteq {v \in Worker : Holds(v)'}
    <3>1. late' = {v \in Worker \ {w} : Holds(v)}
      BY <2>1 DEF Execute
    <3>2. ASSUME NEW v \in Worker, v # w, Holds(v) PROVE Holds(v)'
      <4>1. job'[v] = job[v]
        BY <1>1, <1>5, <3>2 DEF Patch, AnswerLost
      <4>2. QED
        BY <3>2, <4>1 DEF Holds
    <3>3. QED
      BY <3>1, <3>2
  <2>6. QED
    BY <1>1, <2>1, <2>2, <2>3, <2>4, <2>5 DEF TextInv
<1>6. ASSUME NEW w \in Worker, GiveUp(w) PROVE TextInv'
  <2>1. /\ UNCHANGED <<issue, used, recorded, running, overlapped, edits>>
        /\ late' = late \ {w} /\ job' \in Jobs
        /\ \A v \in Worker : Holds(v)' => v # w /\ Holds(v) /\ job'[v] = job[v]
        /\ \A v \in Worker : v # w => job'[v] = job[v]
    BY <1>6, GiveUpFacts
  <2>2. Exists' <=> Exists
    BY <2>1 DEF Exists
  <2>3. late' \subseteq {v \in Worker : Holds(v)'}
    <3> SUFFICES ASSUME NEW v \in late, v # w PROVE v \in Worker /\ Holds(v)'
      BY <2>1
    <3>1. v \in Worker /\ Holds(v) /\ job'[v] = job[v]
      BY <1>1, <2>1
    <3>2. QED
      BY <3>1 DEF Holds
  <2>4. \A v \in Worker : Holds(v)' => Exists' /\ Fine(job'[v].copy, used'.edits)
    BY <1>1, <2>1, <2>2
  <2>5. QED
    BY <1>1, <2>1, <2>2, <2>3, <2>4 DEF TextInv
<1>7. CASE People
  <2>1. /\ Exists /\ used.edits \in Nat /\ used.edits < MaxEdits
        /\ used' = [used EXCEPT !.edits = @ + 1]
        /\ UNCHANGED <<job, recorded, running, overlapped, late>>
        /\ Fine(issue', used.edits + 1) /\ Size(issue'.body) <= HardLimit
    BY <1>7, PeopleFacts
  <2>2. used' \in Uses /\ used'.edits = used.edits + 1 /\ used'.edits <= MaxEdits
    BY <1>1, <2>1, Limits, SMTT(30)
  <2>3. issue' \in TextType /\ Exists'
    BY <2>1, FineFacts DEF Exists
  <2>4. \A v \in Worker : Holds(v)' <=> Holds(v)
    BY <2>1 DEF Holds
  <2>5. ASSUME NEW v \in Worker, Holds(v) PROVE Fine(job'[v].copy, used.edits + 1)
    <3>1. Fine(job[v].copy, used.edits)
      BY <1>1, <2>5
    <3>2. used.edits + 1 \in Nat /\ used.edits <= used.edits + 1
      BY <1>1
    <3>3. QED
      BY <1>1, <2>1, <3>1, <3>2, FineMore
  <2>6. late' \subseteq {v \in Worker : Holds(v)'}
    BY <1>1, <2>1, <2>4
  <2>7. QED
    BY <1>1, <2>1, <2>2, <2>3, <2>4, <2>5, <2>6 DEF TextInv
<1>8. CASE UNCHANGED vars
  BY <1>8 DEF TextInv, Exists, Holds, vars
<1>9. QED
  BY <1>3, <1>4, <1>5, <1>6, <1>7, <1>8, Steps

LEMMA TextAlways == Spec => []TextInv
<1>1. Init => TextInv
  BY TextInit
<1>2. TextInv /\ [Next]_vars => TextInv'
  BY TextNext
<1>3. QED
  BY <1>1, <1>2, PTL DEF Spec

\* Titles and lines are of their types, and only a worker with a copy is late.
THEOREM TypeCorrect == Spec => []TypeOK
<1>1. TextInv => TypeOK
  <2> SUFFICES ASSUME TextInv PROVE TypeOK
    OBVIOUS
  <2>1. /\ issue \in TextType
        /\ job \in [Worker -> [event : Event, copy : TextType, arrived : BOOLEAN]]
        /\ late \subseteq {w \in Worker : Holds(w)}
    BY DEF TextInv
  <2>2. /\ issue.title \in [count : Nat, stem : {"none", "summary", "better"}]
        /\ issue.body \in Seq(LineType)
    BY <2>1 DEF TextType, TitleType
  <2>3. \A k \in DOMAIN issue.body : issue.body[k].val \in Nat
    BY <2>2, LineFacts
  <2>4. \A w \in Worker : job[w].event \in Event
    BY <2>1
  <2>5. QED
    BY <2>1, <2>2, <2>3, <2>4 DEF TypeOK
<1>2. QED
  BY <1>1, TextAlways, PTL

\* A cut text is refused only if it has a run of backticks longer than the
\* distance of the limits.
LEMMA ClipRefused ==
  ASSUME NEW b \in Seq(LineType)
  PROVE  Size(Clip(b)) <= HardLimit \/ LongRun(b)
<1>1. Clip(b) \in Seq(LineType)
  BY ClipFacts
<1>2. Size(Clip(b)) \in Nat
  BY <1>1, SizeType
<1>3. CASE Size(Clip(b)) <= BodyLimit
  BY <1>2, <1>3, Limits
<1>4. ASSUME NEW k \in 1..Len(b), b[k].kind \in {"ticks", "info"},
             Size(Clip(b)) <= BodyLimit + b[k].val
      PROVE  Size(Clip(b)) <= HardLimit \/ LongRun(b)
  <2> DEFINE run == b[k].val
  <2>1. run \in Nat
    BY LineFacts
  <2>2. run \in Vals(b, "ticks") \cup Vals(b, "info")
    BY <1>4, ValsFacts
  <2>3. Size(Clip(b)) <= HardLimit \/ run > HardLimit - BodyLimit
    BY <1>2, <1>4, <2>1, Limits
  <2>4. QED
    BY <2>2, <2>3 DEF LongRun
<1>5. QED
  BY <1>3, <1>4, ClipSize

\* Nothing a filing sends, a new issue, a comment or the PATCH of a recurrence,
\* is over GitHub's limit, after any number of cuts, refreshes and edits, unless
\* its text has a run of backticks longer than the distance of the two limits.
THEOREM OnlyLongFences == Spec => []OnlyLongFencesRefused
<1>1. TextInv => OnlyLongFencesRefused
  <2> SUFFICES ASSUME TextInv PROVE OnlyLongFencesRefused
    OBVIOUS
  <2>1. ASSUME NEW e \in Event, NEW text \in {BuildBody(e), OccurrenceComment(e)}
        PROVE  Size(Clip(text)) <= HardLimit \/ LongRun(text)
    <3>1. text \in Seq(LineType)
      BY BuildFacts, CommentShown, SoundFacts
    <3>2. QED
      BY <3>1, ClipRefused
  <2>2. ASSUME NEW w \in Worker, Holds(w)
        PROVE  \/ Size(Patched(job[w].event, job[w].copy).body) <= HardLimit
               \/ LongRun(job[w].copy.body)
    <3> DEFINE x == job[w].copy
               e == job[w].event
               n == used.edits
               count == NewCount(x)
               r == Refresh(x.body, e, count)
    <3>1. e \in Event /\ n \in Nat /\ Fine(x, n) /\ Size(issue.body) <= HardLimit
      BY <2>2 DEF TextInv
    <3> HIDE DEF x, e, n
    <3>2. Sound(x.body, n) /\ x.body \in Seq(LineType) /\ count \in Nat
      BY <3>1, FineFacts, NewCountFacts
    <3>3. CASE ~ Has(x.body, "header")
      <4>1. Patched(e, x).body = issue.body
        BY <3>3 DEF Patched
      <4>2. QED
        BY <3>1, <4>1 DEF x, e
    <3>4. CASE Has(x.body, "header")
      <4>1. Patched(e, x).body = Clip(r)
        BY <3>4 DEF Patched
      <4> HIDE DEF count
      <4>2. /\ Sound(r, n)
            /\ Vals(r, "ticks") = Vals(x.body, "ticks") /\ Vals(r, "info") = Vals(x.body, "info")
        BY <3>1, <3>2, RefreshFacts
      <4> HIDE DEF r
      <4>3. r \in Seq(LineType)
        BY <4>2, SoundFacts
      <4>4. Size(Clip(r)) <= HardLimit \/ LongRun(r)
        BY <4>3, ClipRefused
      <4>5. LongRun(r) <=> LongRun(x.body)
        BY <4>2 DEF LongRun
      <4>6. QED
        BY <4>1, <4>4, <4>5 DEF x, e
    <3>5. QED
      BY <3>3, <3>4
  <2>3. QED
    BY <2>1, <2>2 DEF OnlyLongFencesRefused
<1>2. QED
  BY <1>1, TextAlways, PTL

\* What is quoted from an error renders as code and nothing else does, in the
\* issue after any number of refreshes, cuts and edits, and in every comment.
THEOREM QuotedStays == Spec => []QuotedStaysQuoted
<1>1. TextInv => QuotedStaysQuoted
  <2> SUFFICES ASSUME TextInv PROVE QuotedStaysQuoted
    OBVIOUS
  <2>1. Renders(issue.body)
    <3>1. CASE Exists
      <4>1. Sound(issue.body, used.edits)
        BY <3>1, FineFacts DEF TextInv
      <4>2. QED
        BY <4>1, SoundFacts, ShownRenders
    <3>2. CASE ~ Exists
      <4>1. issue.body = << >>
        BY <3>2 DEF Exists, NoIssue
      <4>2. << >> \in Seq(LineType) /\ \A k \in 1..Len(<< >>) : Plain(<< >>[k])
        OBVIOUS
      <4>3. Shown(<< >>)
        BY <4>2, PlainShown
      <4>4. QED
        BY <4>1, <4>2, <4>3, ShownRenders
    <3>3. QED
      BY <3>1, <3>2
  <2>2. ASSUME NEW e \in Event PROVE Renders(Clip(OccurrenceComment(e)))
    <3> DEFINE c == OccurrenceComment(e)
    <3>1. c \in Seq(LineType) /\ Shown(c)
      BY CommentShown
    <3> HIDE DEF c
    <3>2. Clip(c) \in Seq(LineType) /\ Shown(Clip(c))
      BY <3>1, ClipFacts, ShownClip
    <3>3. Renders(Clip(c))
      BY <3>2, ShownRenders
    <3>4. QED
      BY <3>3 DEF c
  <2>3. QED
    BY <2>1, <2>2 DEF QuotedStaysQuoted
<1>2. QED
  BY <1>1, TextAlways, PTL

(***************************************************************************)
(* What people did.                                                        *)
(***************************************************************************)
Unseen(name) == [what |-> name, seen |-> TRUE]

\* The edits of done that nobody's copy missed show in x.
Kept(x, done) ==
    /\ Unseen("top") \in done => Topped(x.body)
    /\ Unseen("below") \in done => Below(x.body)
    /\ Unseen("retitle") \in done => x.title.stem = "better"
    /\ Unseen("strip") \in done => Vals(x.body, "header") = {}
    /\ Unseen("unversion") \in done => Vals(x.body, "version") = {}

KeptInv ==
    /\ edits # {} => Exists
    /\ Kept(issue, edits)
    /\ \A w \in Worker : Holds(w) => Kept(job[w].copy, edits)

LEMMA KeptEdited ==
  ASSUME NEW x, NEW y, NEW name, Edited(name, x, y),
         NEW done, Kept(x, done), NEW more,
         \A n : Unseen(n) \in more => Unseen(n) \in done \/ n = name
  PROVE  Kept(y, more)
<1>1. \A kind \in {"header", "version"} :
          Vals(y.body, kind) =
             IF (name = "strip" /\ kind = "header") \/ (name = "unversion" /\ kind = "version")
             THEN {} ELSE Vals(x.body, kind)
  BY DEF Edited, Rows
<1>2. Unseen("top") \in more => Topped(y.body)
  BY DEF Kept, Edited
<1>3. Unseen("below") \in more => Below(y.body)
  BY DEF Kept, Edited
<1>4. Unseen("retitle") \in more => y.title.stem = "better"
  BY DEF Kept, Edited
<1>5. Unseen("strip") \in more => Vals(y.body, "header") = {}
  <2> HAVE Unseen("strip") \in more
  <2>1. name = "strip" \/ Vals(x.body, "header") = {}
    BY DEF Kept
  <2>2. QED
    BY <1>1, <2>1
<1>6. Unseen("unversion") \in more => Vals(y.body, "version") = {}
  <2> HAVE Unseen("unversion") \in more
  <2>1. name = "unversion" \/ Vals(x.body, "version") = {}
    BY DEF Kept
  <2>2. QED
    BY <1>1, <2>1
<1>7. QED
  BY <1>2, <1>3, <1>4, <1>5, <1>6 DEF Kept

\* A PATCH keeps them, if they show in its copy and in the issue.
LEMMA KeptPatched ==
  ASSUME NEW n \in Nat, NEW x, Fine(x, n), Fine(issue, n), NEW e \in Event,
         NEW y, IsPatch(x, e, y), NEW done, Kept(x, done), Kept(issue, done)
  PROVE  Kept(y, done)
<1>1. CASE Vals(x.body, "header") = {}
  <2>1. y.body = issue.body /\ y.title.stem = x.title.stem
    BY <1>1, PatchedElse DEF CountedOn
  <2>2. QED
    BY <2>1 DEF Kept
<1>2. CASE Vals(x.body, "header") # {}
  <2>1. /\ y.title.stem = x.title.stem
        /\ Topped(x.body) => Topped(y.body)
        /\ Below(x.body) => Below(y.body)
        /\ Vals(x.body, "version") = {} => Vals(y.body, "version") = {}
    <3>1. CountedOn(x, y)
      BY <1>2, PatchedWritten
    <3>2. /\ Topped(x.body) => Topped(y.body)
          /\ Below(x.body) => Below(y.body)
          /\ Vals(x.body, "version") = {} => Vals(y.body, "version") = {}
      BY <1>2, PatchedWritten
    <3>3. QED
      BY <3>1, <3>2 DEF CountedOn
  <2>2. QED
    BY <1>2, <2>1 DEF Kept
<1>3. QED
  BY <1>1, <1>2

LEMMA KeptNext ==
  ASSUME TextInv, KeptInv, [Next]_vars
  PROVE  KeptInv'
<1>1. ASSUME NEW x, NEW done, done = {} PROVE Kept(x, done)
  BY <1>1 DEF Kept
<1>2. /\ edits # {} => Exists
      /\ Kept(issue, edits)
      /\ \A w \in Worker : Holds(w) => Exists /\ Kept(job[w].copy, edits)
  BY DEF KeptInv, TextInv
<1>3. ASSUME NEW e \in Event, Create(e) PROVE KeptInv'
  <2>1. ~ Exists /\ edits' = edits
    BY <1>3, CreateFacts
  <2>2. edits' = {}
    BY <1>2, <2>1
  <2>3. QED
    BY <1>1, <2>2 DEF KeptInv
<1>4. ASSUME NEW w \in Worker, NEW e \in Event, Lookup(w, e) PROVE KeptInv'
  <2>1. /\ Exists /\ issue' = issue /\ edits' = edits /\ job'[w].copy = issue
        /\ \A v \in Worker : v # w => job'[v] = job[v]
    BY <1>4, LookupFacts
  <2>2. Exists'
    BY <2>1 DEF Exists
  <2>3. ASSUME NEW v \in Worker, Holds(v)' PROVE Kept(job'[v].copy, edits)
    <3>1. CASE v = w
      BY <1>2, <2>1, <3>1
    <3>2. CASE v # w
      <4>1. job'[v] = job[v] /\ Holds(v)
        BY <2>1, <2>3, <3>2 DEF Holds
      <4>2. QED
        BY <1>2, <4>1
    <3>3. QED
      BY <3>1, <3>2
  <2>4. QED
    BY <1>2, <2>1, <2>2, <2>3 DEF KeptInv
<1>5. ASSUME NEW w \in Worker, Patch(w) \/ AnswerLost(w) PROVE KeptInv'
  <2> DEFINE x == job[w].copy
             e == job[w].event
             n == used.edits
  <2>1. /\ Execute(w)
        /\ \A v \in Worker : Holds(v)' => Holds(v) /\ job'[v].copy = job[v].copy
    BY <1>5, PatchFacts
  <2>2. /\ Holds(w) /\ e \in Event /\ n \in Nat /\ Fine(x, n) /\ Fine(issue, n)
        /\ issue' = Patched(e, x) /\ Fine(issue', n) /\ edits' = edits
    BY <2>1, ExecuteFacts
  <2>3. Kept(x, edits)
    BY <1>2, <2>2
  <2> HIDE DEF x, e, n
  <2>4. Kept(issue', edits)
    <3>1. IsPatch(x, e, issue')
      BY <2>2 DEF IsPatch
    <3>2. QED
      BY <1>2, <2>2, <2>3, <3>1, KeptPatched
  <2>5. Exists'
    BY <2>2, FineFacts DEF Exists
  <2>6. \A v \in Worker : Holds(v)' => Kept(job'[v].copy, edits)
    BY <1>2, <2>1
  <2>7. QED
    BY <2>2, <2>4, <2>5, <2>6 DEF KeptInv
<1>6. ASSUME NEW w \in Worker, GiveUp(w) PROVE KeptInv'
  <2>1. /\ issue' = issue /\ edits' = edits
        /\ \A v \in Worker : Holds(v)' => Holds(v) /\ job'[v] = job[v]
    BY <1>6, GiveUpFacts
  <2>2. \A v \in Worker : Holds(v)' => Kept(job'[v].copy, edits)
    BY <1>2, <2>1
  <2>3. QED
    BY <1>2, <2>1, <2>2 DEF KeptInv, Exists
<1>7. CASE People
  <2> DEFINE s == \A w \in Worker : ~ Holds(w)
  <2>1. PICK name : /\ edits' = edits \cup {[what |-> name, seen |-> s]}
                    /\ Edited(name, issue, issue')
    BY <1>7, PeopleFacts
  <2>2. job' = job /\ Fine(issue', used.edits + 1)
    BY <1>7, PeopleFacts
  <2>3. s \in BOOLEAN
    OBVIOUS
  <2>4. \A v \in Worker : Holds(v)' => Holds(v) /\ s = FALSE /\ job'[v].copy = job[v].copy
    BY <2>2 DEF Holds
  <2> HIDE DEF s
  <2>5. \A n : Unseen(n) \in edits' => Unseen(n) \in edits \/ (n = name /\ s = TRUE)
    <3> TAKE n
    <3> HAVE Unseen(n) \in edits'
    <3>1. Unseen(n) \in edits \/ Unseen(n) = [what |-> name, seen |-> s]
      BY <2>1
    <3>2. Unseen(n) = [what |-> name, seen |-> s] => n = name /\ s = TRUE
      <4> HAVE Unseen(n) = [what |-> name, seen |-> s]
      <4>1. Unseen(n).what = n /\ Unseen(n).seen = TRUE
        BY DEF Unseen
      <4>2. [what |-> name, seen |-> s].what = name /\ [what |-> name, seen |-> s].seen = s
        OBVIOUS
      <4>3. QED
        BY <4>1, <4>2
    <3>3. QED
      BY <3>1, <3>2
  <2>6. Kept(issue', edits')
    BY <1>2, <2>1, <2>5, KeptEdited
  <2>7. ASSUME NEW v \in Worker, Holds(v)' PROVE Kept(job'[v].copy, edits')
    <3>1. Holds(v) /\ s = FALSE /\ job'[v].copy = job[v].copy
      BY <2>4, <2>7
    <3>2. Kept(job[v].copy, edits)
      BY <1>2, <3>1
    <3>3. \A n : Unseen(n) \in edits' => Unseen(n) \in edits
      BY <2>5, <3>1
    <3>4. Kept(job[v].copy, edits')
      BY <3>2, <3>3 DEF Kept
    <3>5. QED
      BY <3>1, <3>4
  <2>8. Exists'
    BY <2>2, FineFacts DEF Exists
  <2>9. QED
    BY <2>6, <2>7, <2>8 DEF KeptInv
<1>8. CASE UNCHANGED vars
  BY <1>8 DEF KeptInv, Exists, Holds, vars
<1>9. QED
  BY <1>3, <1>4, <1>5, <1>6, <1>7, <1>8, Steps

\* What a person wrote, retitled or removed while nobody had a copy out stays
\* so through every later refresh, cut and edit.
THEOREM EditsKept == Spec => []EditsSurvive
<1>1. Init => KeptInv
  <2> SUFFICES ASSUME Init PROVE KeptInv
    OBVIOUS
  <2>1. edits = {} /\ \A w \in Worker : ~ Holds(w)
    BY TextInit DEF TextInv
  <2>2. QED
    BY <2>1 DEF KeptInv, Kept
<1>2. TextInv /\ KeptInv /\ [Next]_vars => KeptInv'
  BY KeptNext
<1>3. TextInv /\ KeptInv => EditsSurvive
  <2> SUFFICES ASSUME TextInv, KeptInv PROVE EditsSurvive
    OBVIOUS
  <2>1. Kept(issue, edits) /\ issue.body \in Seq(LineType)
    BY DEF KeptInv, TextInv, TextType
  <2>2. \A name : DidUnseen(name) <=> Unseen(name) \in edits
    BY DEF DidUnseen, Unseen
  <2>3. DidUnseen("top") => 1 \in Vals(issue.body, "human")
    <3> HAVE DidUnseen("top")
    <3>1. Len(issue.body) >= 1 /\ issue.body[1].kind = "human" /\ issue.body[1].val = 1
      BY <2>1, <2>2 DEF Kept, Topped
    <3>2. 1 \in 1..Len(issue.body)
      BY <2>1, <3>1
    <3>3. QED
      BY <2>1, <3>1, <3>2, ValsFacts
  <2>4. \A kind : Has(issue.body, kind) <=> Vals(issue.body, kind) # {}
    BY <2>1, ValsFacts
  <2>5. QED
    BY <2>1, <2>2, <2>3, <2>4 DEF EditsSurvive, Kept, Below
<1>4. QED
  BY <1>1, <1>2, <1>3, TextAlways, PTL DEF Spec

(***************************************************************************)
(* The count.                                                              *)
(***************************************************************************)
\* What people did at all, seen by a copy or not.
Done == {d.what : d \in edits}

LEMMA DoneFacts ==
  \A name : Did(name) <=> name \in Done
BY DEF Did, Done

LEMMA DoneMore ==
  ASSUME TextInv, People
  PROVE  \E name : Done' = Done \cup {name} /\ Edited(name, issue, issue')
<1>1. PICK name : /\ edits' = edits \cup {[what |-> name, seen |-> \A w \in Worker : ~ Holds(w)]}
                  /\ Edited(name, issue, issue')
  BY PeopleFacts
<1> DEFINE d == [what |-> name, seen |-> \A w \in Worker : ~ Holds(w)]
<1>2. d.what = name /\ edits' = edits \cup {d}
  BY <1>1
<1> HIDE DEF d
<1>3. Done' = Done \cup {name}
  BY <1>2 DEF Done
<1>4. QED
  BY <1>1, <1>3

\* x counts r occurrences: neither title nor header claims more, and what
\* nobody touched counts them all.
Counted(x, r, done) ==
    /\ r >= 1
    /\ TitleCount(x.title) <= r /\ \A v \in Vals(x.body, "header") : v <= r
    /\ "retitle" \notin done => TitleCount(x.title) = r
    /\ "strip" \notin done => Vals(x.body, "header") = {r}

\* What the copy of w counts: all, or all but the one its PATCH has recorded.
Base(w) == IF job[w].arrived THEN recorded - 1 ELSE recorded

CountInv ==
    (Exists /\ ~ overlapped) =>
        /\ Counted(issue, recorded, Done)
        /\ \A w \in Worker : (Holds(w) /\ w \notin late) => Counted(job[w].copy, Base(w), Done)

LEMMA CountedMore ==
  ASSUME NEW x, NEW r, NEW done, Counted(x, r, done), NEW more, done \subseteq more
  PROVE  Counted(x, r, more)
BY DEF Counted

LEMMA CountedEdited ==
  ASSUME NEW n, NEW x, Fine(x, n), NEW y, NEW name, Edited(name, x, y),
         NEW r \in Nat, NEW done, Counted(x, r, done)
  PROVE  Counted(y, r, done \cup {name})
<1>1. x.title.count \in Nat
  BY FineFacts
<1>2. /\ r >= 1 /\ TitleCount(x.title) <= r /\ \A v \in Vals(x.body, "header") : v <= r
      /\ "retitle" \notin done => TitleCount(x.title) = r
      /\ "strip" \notin done => Vals(x.body, "header") = {r}
  BY DEF Counted
<1>3. /\ name # "retitle" => y.title = x.title
      /\ y.title.count \in {0, x.title.count}
      /\ Vals(y.body, "header") = IF name = "strip" THEN {} ELSE Vals(x.body, "header")
  BY DEF Edited, Rows
<1>4. TitleCount(y.title) = 1 \/ TitleCount(y.title) = TitleCount(x.title)
  BY <1>3 DEF TitleCount
<1>5. TitleCount(y.title) <= r
  BY <1>2, <1>4
<1>6. QED
  BY <1>2, <1>3, <1>5 DEF Counted

\* A PATCH counts one more than its copy.
LEMMA CountedPatched ==
  ASSUME NEW n \in Nat, n + 2 < BodyLimit, NEW x, Fine(x, n), Fine(issue, n), NEW e \in Event,
         NEW y, IsPatch(x, e, y), NEW r \in Nat, NEW done, Counted(x, r, done),
         \A v \in Vals(issue.body, "header") : v <= r + 1
  PROVE  Counted(y, r + 1, done)
<1> DEFINE c == NewCount(x)
           t == TitleCount(x.title)
           H == Vals(x.body, "header")
           K == Vals(y.body, "header")
<1>1. /\ r >= 1 /\ t <= r /\ \A v \in H : v <= r
      /\ "retitle" \notin done => t = r
      /\ "strip" \notin done => H = {r}
  BY DEF Counted
<1>2. /\ t \in Nat /\ c \in Nat /\ c >= 2 /\ t < c
      /\ \A v \in H : v < c
      /\ c - 1 \in {1, t} \cup H
  BY NewCountFacts
<1>3. H \in SUBSET Nat
  BY FineFacts, ValsFacts
<1>4. /\ CountedOn(x, y)
      /\ H = {} => K = Vals(issue.body, "header")
      /\ H # {} => K = {c}
  <2>1. CASE H = {}
    <3>1. CountedOn(x, y) /\ y.body = issue.body
      BY <2>1, PatchedElse
    <3>2. QED
      BY <2>1, <3>1
  <2>2. CASE H # {}
    <3>1. CountedOn(x, y)
      BY <2>2, PatchedWritten
    <3>2. HeaderOn(x, y)
      BY <2>2, PatchedWritten
    <3>3. QED
      BY <2>2, <3>1, <3>2 DEF HeaderOn
  <2>3. QED
    BY <2>1, <2>2
<1> HIDE DEF c, t, H, K
<1>5. c <= r + 1
  <2>1. c - 1 <= r
    BY <1>1, <1>2
  <2>2. QED
    BY <1>2, <2>1
<1>6. "retitle" \notin done => c = r + 1
  BY <1>1, <1>2, <1>5
<1>7. "strip" \notin done => c = r + 1 /\ H # {}
  <2> HAVE "strip" \notin done
  <2>1. r \in H
    BY <1>1
  <2>2. r < c
    BY <1>2, <2>1
  <2>3. QED
    BY <1>2, <1>5, <2>1, <2>2
<1>8. TitleCount(y.title) = c
  <2>1. y.title.count = c
    BY <1>4 DEF CountedOn, c
  <2>2. QED
    BY <1>2, <2>1 DEF TitleCount
<1>9. \A v \in K : v <= r + 1
  BY <1>4, <1>5
<1>10. "strip" \notin done => K = {r + 1}
  BY <1>4, <1>7
<1>11. r + 1 >= 1
  OBVIOUS
<1>12. QED
  BY <1>5, <1>6, <1>8, <1>9, <1>10, <1>11 DEF Counted, K

\* Header and Occurrences row have room: what people write on top pushes them
\* down.
CountersFit == MaxEdits + 3 < BodyLimit

LEMMA CountNext ==
  ASSUME CountersFit, TextInv, CountInv, [Next]_vars
  PROVE  CountInv'
<1>1. /\ Exists => Fine(issue, used.edits)
      /\ used.edits \in Nat /\ used.edits <= MaxEdits /\ recorded \in Nat
      /\ \A w \in Worker : Holds(w) => Exists /\ Fine(job[w].copy, used.edits)
      /\ late \subseteq {w \in Worker : Holds(w)}
      /\ job \in [Worker -> [event : Event, copy : TextType, arrived : BOOLEAN]]
  BY DEF TextInv
<1>2. (Exists /\ ~ overlapped) =>
        /\ Counted(issue, recorded, Done)
        /\ \A w \in Worker : (Holds(w) /\ w \notin late) => Counted(job[w].copy, Base(w), Done)
  BY DEF CountInv
<1>3. used.edits + 2 < BodyLimit
  BY <1>1, Limits DEF CountersFit
<1>4. ASSUME NEW e \in Event, Create(e) PROVE CountInv'
  <2>1. /\ Fine(issue', 0) /\ issue'.title.count = 1 /\ Vals(issue'.body, "header") = {1}
        /\ recorded' = 1 /\ UNCHANGED <<job, overlapped, late, edits>>
        /\ \A w \in Worker : ~ Holds(w)
    BY <1>4, CreateFacts
  <2>2. \A w \in Worker : ~ Holds(w)'
    BY <2>1 DEF Holds
  <2>3. TitleCount(issue'.title) = 1
    BY <2>1 DEF TitleCount
  <2>4. Counted(issue', 1, Done')
    BY <2>1, <2>3 DEF Counted
  <2>5. QED
    BY <2>1, <2>2, <2>4 DEF CountInv
<1>5. ASSUME NEW w \in Worker, NEW e \in Event, Lookup(w, e) PROVE CountInv'
  <2>1. /\ Exists /\ ~ Holds(w)
        /\ UNCHANGED <<issue, recorded, overlapped, late, edits>>
        /\ job'[w].copy = issue /\ ~ job'[w].arrived
        /\ \A v \in Worker : v # w => job'[v] = job[v]
    BY <1>5, LookupFacts
  <2>2. Done' = Done
    BY <2>1 DEF Done
  <2>3. SUFFICES ASSUME ~ overlapped
                 PROVE  /\ Counted(issue, recorded, Done)
                        /\ \A v \in Worker : (Holds(v)' /\ v \notin late) =>
                              Counted(job'[v].copy, Base(v)', Done)
    BY <2>1, <2>2 DEF CountInv
  <2>4. Base(w)' = recorded
    BY <2>1 DEF Base
  <2>5. ASSUME NEW v \in Worker, Holds(v)', v \notin late
        PROVE  Counted(job'[v].copy, Base(v)', Done)
    <3>1. CASE v = w
      BY <1>2, <2>1, <2>3, <2>4, <3>1
    <3>2. CASE v # w
      <4>1. job'[v] = job[v]
        BY <2>1, <3>2
      <4>2. Holds(v) /\ Base(v)' = Base(v)
        BY <2>1, <2>5, <4>1 DEF Holds, Base
      <4>3. QED
        BY <1>2, <2>1, <2>3, <2>5, <4>1, <4>2
    <3>3. QED
      BY <3>1, <3>2
  <2>6. QED
    BY <1>2, <2>1, <2>3, <2>5
<1>6. ASSUME NEW w \in Worker, Patch(w) \/ AnswerLost(w) PROVE CountInv'
  <2> DEFINE x == job[w].copy
             e == job[w].event
             n == used.edits
             r == Base(w)
  <2>1. /\ Execute(w)
        /\ \A v \in Worker : Holds(v)' =>
               /\ Holds(v) /\ job'[v].copy = job[v].copy
               /\ v # w => job'[v].arrived = job[v].arrived
               /\ v = w => job'[v].arrived
    BY <1>6, PatchFacts
  <2>2. /\ Holds(w) /\ Exists /\ e \in Event /\ n \in Nat /\ Fine(x, n) /\ Fine(issue, n)
        /\ issue' = Patched(e, x) /\ Fine(issue', n) /\ edits' = edits
    BY <2>1, ExecuteFacts
  <2>3. /\ recorded' = IF job[w].arrived THEN recorded ELSE recorded + 1
        /\ overlapped' = (overlapped \/ w \in late)
        /\ late' = {v \in Worker \ {w} : Holds(v)}
    BY <2>1 DEF Execute
  <2>4. SUFFICES ASSUME ~ overlapped'
                 PROVE  /\ Counted(issue', recorded', Done')
                        /\ \A v \in Worker : (Holds(v)' /\ v \notin late') =>
                              Counted(job'[v].copy, Base(v)', Done')
    BY DEF CountInv
  <2>5. ~ overlapped /\ w \notin late
    BY <2>3, <2>4, Zenon
  <2>6. Counted(issue, recorded, Done) /\ Counted(x, r, Done)
    BY <1>2, <2>2, <2>5
  <2>7. Done' = Done
    BY <2>2 DEF Done
  <2>8. recorded >= 1 /\ r >= 1
    BY <2>6 DEF Counted
  <2>9. r \in Nat /\ recorded' = r + 1 /\ recorded <= r + 1
    BY <1>1, <2>3, <2>8 DEF Base
  <2>10. \A v \in Vals(issue.body, "header") : v <= r + 1
    <3>1. \A v \in Vals(issue.body, "header") : v <= recorded
      BY <2>6 DEF Counted
    <3>2. Vals(issue.body, "header") \in SUBSET Nat
      BY <2>2, FineFacts, ValsFacts
    <3> HIDE DEF r
    <3>3. QED
      BY <1>1, <2>9, <3>1, <3>2
  <2>11. IsPatch(x, e, issue') /\ n + 2 < BodyLimit
    BY <1>3, <2>2 DEF IsPatch
  <2> HIDE DEF x, e, n, r
  <2>12. Counted(issue', r + 1, Done)
    BY <2>2, <2>6, <2>9, <2>10, <2>11, CountedPatched
  <2>13. ASSUME NEW v \in Worker, Holds(v)', v \notin late'
         PROVE  Counted(job'[v].copy, Base(v)', Done)
    <3>1. Holds(v) /\ v = w
      BY <2>1, <2>3, <2>13
    <3>2. job'[w].copy = x /\ job'[w].arrived
      BY <2>1, <2>13, <3>1 DEF x
    <3>3. Base(w)' = r
      BY <2>9, <3>2 DEF Base
    <3>4. QED
      BY <2>6, <3>1, <3>2, <3>3
  <2>14. QED
    BY <2>7, <2>9, <2>12, <2>13
<1>7. ASSUME NEW w \in Worker, GiveUp(w) PROVE CountInv'
  <2>1. /\ UNCHANGED <<issue, recorded, overlapped, edits>>
        /\ late' = late \ {w}
        /\ \A v \in Worker : Holds(v)' => v # w /\ Holds(v) /\ job'[v] = job[v]
    BY <1>7, GiveUpFacts
  <2>2. Done' = Done /\ (Exists' <=> Exists)
    BY <2>1 DEF Done, Exists
  <2>3. \A v \in Worker : (Holds(v)' /\ v \notin late') =>
            Holds(v) /\ v \notin late /\ job'[v] = job[v] /\ Base(v)' = Base(v)
    BY <2>1 DEF Base
  <2>4. QED
    BY <1>2, <2>1, <2>2, <2>3 DEF CountInv
<1>8. CASE People
  <2>1. /\ Exists /\ UNCHANGED <<job, recorded, overlapped, late>>
    BY <1>8, PeopleFacts
  <2>2. PICK name : Done' = Done \cup {name} /\ Edited(name, issue, issue')
    BY <1>8, DoneMore
  <2>3. \A v \in Worker : (Holds(v)' <=> Holds(v)) /\ Base(v)' = Base(v)
    BY <2>1 DEF Holds, Base
  <2>4. ASSUME ~ overlapped
        PROVE  /\ Counted(issue', recorded, Done')
               /\ \A v \in Worker : (Holds(v) /\ v \notin late) =>
                     Counted(job[v].copy, Base(v), Done')
    <3>1. /\ Counted(issue, recorded, Done)
          /\ \A v \in Worker : (Holds(v) /\ v \notin late) =>
                Counted(job[v].copy, Base(v), Done)
      BY <1>2, <2>1, <2>4
    <3>2. Counted(issue', recorded, Done \cup {name})
      BY <1>1, <2>1, <2>2, <3>1, CountedEdited
    <3>3. Done \subseteq Done'
      BY <2>2
    <3>4. \A v \in Worker : (Holds(v) /\ v \notin late) =>
              Counted(job[v].copy, Base(v), Done')
      BY <3>1, <3>3, CountedMore
    <3>5. QED
      BY <2>2, <3>2, <3>4
  <2>5. QED
    BY <2>1, <2>3, <2>4 DEF CountInv
<1>9. CASE UNCHANGED vars
  BY <1>9 DEF CountInv, Exists, Holds, Base, Done, vars
<1>10. QED
  BY <1>4, <1>5, <1>6, <1>7, <1>8, <1>9, Steps

\* Title, header and Occurrences row say the same.
Agrees(x) ==
    /\ Vals(x.body, "header") = {TitleCount(x.title)}
    /\ Vals(x.body, "occurrences") = {TitleCount(x.title)}

AgreeInv ==
    ("strip" \notin Done /\ "retitle" \notin Done) =>
        /\ Exists => Agrees(issue)
        /\ \A w \in Worker : Holds(w) => Agrees(job[w].copy)

LEMMA AgreesEdited ==
  ASSUME NEW x, NEW y, NEW name, name \notin {"strip", "retitle"}, Edited(name, x, y), Agrees(x)
  PROVE  Agrees(y)
<1>1. y.title = x.title
  BY DEF Edited
<1>2. /\ Vals(y.body, "header") = Vals(x.body, "header")
      /\ Vals(y.body, "occurrences") = Vals(x.body, "occurrences")
  BY DEF Edited, Rows
<1>3. QED
  BY <1>1, <1>2 DEF Agrees

LEMMA AgreesPatched ==
  ASSUME NEW n \in Nat, n + 3 < BodyLimit, NEW x, Fine(x, n), NEW e \in Event,
         NEW y, IsPatch(x, e, y), Agrees(x)
  PROVE  Agrees(y)
<1> DEFINE c == NewCount(x)
<1>1. Vals(x.body, "header") # {} /\ Vals(x.body, "occurrences") # {}
  BY DEF Agrees
<1>2. n + 2 < BodyLimit
  BY Limits
<1>3. CountedOn(x, y)
  BY <1>1, PatchedWritten
<1>4. HeaderOn(x, y)
  BY <1>1, <1>2, PatchedWritten
<1>5. OccurrencesOn(x, y)
  BY <1>1, PatchedWritten
<1>6. c \in Nat /\ c >= 2
  BY NewCountFacts
<1>7. /\ y.title.count = c /\ Vals(y.body, "header") = {c}
      /\ Vals(y.body, "occurrences") = {c}
  BY <1>1, <1>3, <1>4, <1>5 DEF CountedOn, HeaderOn, OccurrencesOn
<1> HIDE DEF c
<1>8. TitleCount(y.title) = c
  BY <1>6, <1>7 DEF TitleCount
<1>9. QED
  BY <1>7, <1>8 DEF Agrees

LEMMA AgreeNext ==
  ASSUME CountersFit, TextInv, AgreeInv, [Next]_vars
  PROVE  AgreeInv'
<1>1. /\ used.edits \in Nat /\ used.edits <= MaxEdits
      /\ \A w \in Worker : Holds(w) => Exists
  BY DEF TextInv
<1>2. ("strip" \notin Done /\ "retitle" \notin Done) =>
        /\ Exists => Agrees(issue)
        /\ \A w \in Worker : Holds(w) => Agrees(job[w].copy)
  BY DEF AgreeInv
<1>3. used.edits + 3 < BodyLimit
  BY <1>1, Limits DEF CountersFit
<1>4. ASSUME NEW e \in Event, Create(e) PROVE AgreeInv'
  <2>1. /\ issue'.title.count = 1 /\ Vals(issue'.body, "header") = {1}
        /\ Vals(issue'.body, "occurrences") = {1} /\ job' = job
        /\ \A w \in Worker : ~ Holds(w)
    BY <1>4, CreateFacts
  <2>2. \A w \in Worker : ~ Holds(w)'
    BY <2>1 DEF Holds
  <2>3. TitleCount(issue'.title) = 1
    BY <2>1 DEF TitleCount
  <2>4. Agrees(issue')
    BY <2>1, <2>3 DEF Agrees
  <2>5. QED
    BY <2>2, <2>4 DEF AgreeInv
<1>5. ASSUME NEW w \in Worker, NEW e \in Event, Lookup(w, e) PROVE AgreeInv'
  <2>1. /\ Exists /\ UNCHANGED <<issue, edits>> /\ job'[w].copy = issue
        /\ \A v \in Worker : v # w => job'[v] = job[v]
    BY <1>5, LookupFacts
  <2>2. Done' = Done
    BY <2>1 DEF Done
  <2>3. SUFFICES ASSUME "strip" \notin Done, "retitle" \notin Done
                 PROVE  /\ Agrees(issue)
                        /\ \A v \in Worker : Holds(v)' => Agrees(job'[v].copy)
    BY <2>1, <2>2 DEF AgreeInv
  <2>4. ASSUME NEW v \in Worker, Holds(v)' PROVE Agrees(job'[v].copy)
    <3>1. CASE v = w
      BY <1>2, <2>1, <2>3, <3>1
    <3>2. CASE v # w
      <4>1. job'[v] = job[v] /\ Holds(v)
        BY <2>1, <2>4, <3>2 DEF Holds
      <4>2. QED
        BY <1>2, <2>3, <4>1
    <3>3. QED
      BY <3>1, <3>2
  <2>5. QED
    BY <1>2, <2>1, <2>3, <2>4
<1>6. ASSUME NEW w \in Worker, Patch(w) \/ AnswerLost(w) PROVE AgreeInv'
  <2> DEFINE x == job[w].copy
             e == job[w].event
             n == used.edits
  <2>1. /\ Execute(w)
        /\ \A v \in Worker : Holds(v)' => Holds(v) /\ job'[v].copy = job[v].copy
    BY <1>6, PatchFacts
  <2>2. /\ Holds(w) /\ e \in Event /\ n \in Nat /\ Fine(x, n)
        /\ issue' = Patched(e, x) /\ edits' = edits
    BY <2>1, ExecuteFacts
  <2>3. Done' = Done
    BY <2>2 DEF Done
  <2>4. SUFFICES ASSUME "strip" \notin Done, "retitle" \notin Done
                 PROVE  /\ Agrees(issue')
                        /\ \A v \in Worker : Holds(v)' => Agrees(job'[v].copy)
    BY <2>3 DEF AgreeInv
  <2>5. Agrees(x)
    BY <1>2, <2>2, <2>4
  <2>6. \A v \in Worker : Holds(v)' => Agrees(job'[v].copy)
    BY <1>2, <2>1, <2>4
  <2>7. IsPatch(x, e, issue') /\ n + 3 < BodyLimit
    BY <1>3, <2>2 DEF IsPatch
  <2> HIDE DEF x, e, n
  <2>8. Agrees(issue')
    BY <2>2, <2>5, <2>7, AgreesPatched
  <2>9. QED
    BY <2>6, <2>8
<1>7. ASSUME NEW w \in Worker, GiveUp(w) PROVE AgreeInv'
  <2>1. /\ UNCHANGED <<issue, edits>>
        /\ \A v \in Worker : Holds(v)' => Holds(v) /\ job'[v] = job[v]
    BY <1>7, GiveUpFacts
  <2>2. Done' = Done /\ (Exists' <=> Exists)
    BY <2>1 DEF Done, Exists
  <2>3. QED
    BY <1>2, <2>1, <2>2 DEF AgreeInv
<1>8. CASE People
  <2>1. Exists /\ job' = job
    BY <1>8, PeopleFacts
  <2>2. PICK name : Done' = Done \cup {name} /\ Edited(name, issue, issue')
    BY <1>8, DoneMore
  <2>3. \A v \in Worker : Holds(v)' <=> Holds(v)
    BY <2>1 DEF Holds
  <2>4. SUFFICES ASSUME "strip" \notin Done', "retitle" \notin Done'
                 PROVE  /\ Agrees(issue')
                        /\ \A v \in Worker : Holds(v) => Agrees(job[v].copy)
    BY <2>1, <2>3 DEF AgreeInv
  <2>5. "strip" \notin Done /\ "retitle" \notin Done /\ name \notin {"strip", "retitle"}
    BY <2>2, <2>4
  <2>6. Agrees(issue) /\ \A v \in Worker : Holds(v) => Agrees(job[v].copy)
    BY <1>2, <2>1, <2>5
  <2>7. Agrees(issue')
    BY <2>2, <2>5, <2>6, AgreesEdited
  <2>8. QED
    BY <2>6, <2>7
<1>9. CASE UNCHANGED vars
  BY <1>9 DEF AgreeInv, Exists, Holds, Done, vars
<1>10. QED
  BY <1>4, <1>5, <1>6, <1>7, <1>8, <1>9, Steps

\* As long as recordings do not overlap, the issue counts every one of them
\* unless title and header were both edited; and title, header and Occurrences
\* row agree unless one of them was, whoever overwrites whom.
THEOREM CountExact ==
  ASSUME CountersFit
  PROVE  Spec => []CountIsExact
<1>1. Init => CountInv /\ AgreeInv
  <2> SUFFICES ASSUME Init PROVE CountInv /\ AgreeInv
    OBVIOUS
  <2>1. ~ Exists /\ \A w \in Worker : ~ Holds(w)
    BY TextInit DEF TextInv
  <2>2. QED
    BY <2>1 DEF CountInv, AgreeInv
<1>2. TextInv /\ (CountInv /\ AgreeInv) /\ [Next]_vars => (CountInv /\ AgreeInv)'
  BY CountNext, AgreeNext
<1>3. TextInv /\ (CountInv /\ AgreeInv) => CountIsExact
  <2> SUFFICES ASSUME TextInv, CountInv, AgreeInv PROVE CountIsExact
    OBVIOUS
  <2> DEFINE t == IF issue.title.count = 0 THEN 1 ELSE issue.title.count
             H == Vals(issue.body, "header")
             S == {t} \cup H
  <2>1. t = TitleCount(issue.title)
    BY DEF TitleCount
  <2>2. recorded \in Nat /\ issue.title.count \in Nat /\ H \in SUBSET Nat
    BY ValsFacts DEF TextInv, TextType, TitleType
  <2>3. t \in Nat
    BY <2>2
  <2> HIDE DEF t
  <2>4. ASSUME Exists, ~ overlapped, ~ (Did("strip") /\ Did("retitle"))
        PROVE  recorded = Max(S)
    <3>1. Counted(issue, recorded, Done)
      BY <2>4 DEF CountInv
    <3>2. "strip" \notin Done \/ "retitle" \notin Done
      BY <2>4, DoneFacts
    <3>3. recorded \in S /\ \A v \in S : v <= recorded
      BY <2>1, <3>1, <3>2 DEF Counted
    <3>4. S \in SUBSET Nat
      BY <2>2, <2>3
    <3> HIDE DEF S
    <3>5. Max(S) \in S /\ \A v \in S : v <= Max(S)
      BY <2>2, <3>3, <3>4, MaxFacts
    <3>6. Max(S) \in Nat /\ Max(S) <= recorded /\ recorded <= Max(S)
      BY <3>3, <3>4, <3>5
    <3>7. QED
      BY <2>2, <3>6
  <2>5. ASSUME Exists, ~ Did("strip"), ~ Did("retitle")
        PROVE  H = {t} /\ Vals(issue.body, "occurrences") = {t}
    <3>1. Agrees(issue)
      BY <2>5, DoneFacts DEF AgreeInv
    <3>2. QED
      BY <2>1, <3>1 DEF Agrees
  <2>6. QED
    BY <2>4, <2>5 DEF CountIsExact, t
<1>4. QED
  BY <1>1, <1>2, <1>3, TextAlways, PTL DEF Spec

(***************************************************************************)
(* The version that last reported the error.                               *)
(***************************************************************************)
\* Header and all three rows have room.
RowsFit == MaxEdits + 5 < BodyLimit

\* There is something to anchor the rows on.
Anchored(x) == Vals(x.body, "header") # {} /\ Vals(x.body, "version") # {}

\* The Latest version row names run, unless it is unknown or the Version row's.
Names(x, run) == Vals(x.body, "latest") = {run} \ ({0} \cup Vals(x.body, "version"))

\* A copy is as current as the issue until its own PATCH has named a version.
LatestInv ==
    (Exists /\ ~ overlapped /\ "strip" \notin Done /\ "unversion" \notin Done) =>
        /\ Anchored(issue) /\ Names(issue, running)
        /\ \A w \in Worker : (Holds(w) /\ w \notin late) =>
              /\ Anchored(job[w].copy)
              /\ (~ job[w].arrived \/ job[w].event.version = 0) => Names(job[w].copy, running)

LEMMA NamesEdited ==
  ASSUME NEW x, NEW y, NEW name, name \notin {"strip", "unversion"}, Edited(name, x, y),
         NEW run, Anchored(x), Names(x, run)
  PROVE  Anchored(y) /\ Names(y, run)
<1>1. \A kind \in {"header", "version", "latest"} : Vals(y.body, kind) = Vals(x.body, kind)
  BY DEF Edited, Rows
<1>2. QED
  BY <1>1 DEF Anchored, Names

\* A PATCH names the version of its error, or what its copy named if that is
\* unknown.
LEMMA NamesPatched ==
  ASSUME NEW n \in Nat, n + 5 < BodyLimit, NEW x, Fine(x, n), NEW e \in Event,
         NEW y, IsPatch(x, e, y), Anchored(x), NEW run, e.version = 0 => Names(x, run)
  PROVE  Anchored(y) /\ Names(y, IF e.version = 0 THEN run ELSE e.version)
<1> DEFINE V == Vals(x.body, "version")
<1>1. Vals(x.body, "header") # {} /\ V # {}
  BY DEF Anchored
<1>2. n + 2 < BodyLimit
  BY Limits
<1>3. HeaderOn(x, y)
  BY <1>1, <1>2, PatchedWritten
<1>4. VersionsOn(x, e, y)
  BY <1>1, PatchedWritten
<1>5. Anchored(y) /\ Vals(y.body, "version") = V
  BY <1>1, <1>3, <1>4 DEF Anchored, HeaderOn, VersionsOn
<1>6. Vals(y.body, "latest") = IF e.version = 0 THEN Vals(x.body, "latest") ELSE {e.version} \ V
  BY <1>1, <1>4 DEF VersionsOn
<1> HIDE DEF V
<1>7. CASE e.version = 0
  <2>1. Vals(x.body, "latest") = {run} \ ({0} \cup V)
    BY <1>7 DEF Names, V
  <2>2. QED
    BY <1>5, <1>6, <1>7, <2>1 DEF Names
<1>8. CASE e.version # 0
  <2>1. {e.version} \ V = {e.version} \ ({0} \cup V)
    BY <1>8
  <2>2. QED
    BY <1>5, <1>6, <1>8, <2>1 DEF Names
<1>9. QED
  BY <1>5, <1>7, <1>8

LEMMA LatestNext ==
  ASSUME RowsFit, TextInv, LatestInv, [Next]_vars
  PROVE  LatestInv'
<1>1. /\ Exists => Fine(issue, used.edits)
      /\ used.edits \in Nat /\ used.edits <= MaxEdits
      /\ \A w \in Worker : Holds(w) => Exists
      /\ late \subseteq {w \in Worker : Holds(w)}
  BY DEF TextInv
<1>2. (Exists /\ ~ overlapped /\ "strip" \notin Done /\ "unversion" \notin Done) =>
        /\ Anchored(issue) /\ Names(issue, running)
        /\ \A w \in Worker : (Holds(w) /\ w \notin late) =>
              /\ Anchored(job[w].copy)
              /\ (~ job[w].arrived \/ job[w].event.version = 0) => Names(job[w].copy, running)
  BY DEF LatestInv
<1>3. used.edits + 5 < BodyLimit
  BY <1>1, Limits DEF RowsFit
<1>4. ASSUME NEW e \in Event, Create(e) PROVE LatestInv'
  <2>1. /\ Vals(issue'.body, "header") = {1} /\ Vals(issue'.body, "version") = {e.version}
        /\ Vals(issue'.body, "latest") = {} /\ running' = e.version /\ job' = job
        /\ \A w \in Worker : ~ Holds(w)
    BY <1>4, CreateFacts
  <2>2. \A w \in Worker : ~ Holds(w)'
    BY <2>1 DEF Holds
  <2>3. Anchored(issue') /\ Names(issue', running')
    BY <2>1 DEF Anchored, Names
  <2>4. QED
    BY <2>2, <2>3 DEF LatestInv
<1>5. ASSUME NEW w \in Worker, NEW e \in Event, Lookup(w, e) PROVE LatestInv'
  <2>1. /\ Exists /\ ~ Holds(w) /\ UNCHANGED <<issue, running, overlapped, late, edits>>
        /\ job'[w].copy = issue
        /\ \A v \in Worker : v # w => job'[v] = job[v]
    BY <1>5, LookupFacts
  <2>2. Done' = Done
    BY <2>1 DEF Done
  <2>3. SUFFICES ASSUME ~ overlapped, "strip" \notin Done, "unversion" \notin Done
                 PROVE  /\ Anchored(issue) /\ Names(issue, running)
                        /\ \A v \in Worker : (Holds(v)' /\ v \notin late) =>
                              /\ Anchored(job'[v].copy)
                              /\ (~ job'[v].arrived \/ job'[v].event.version = 0) =>
                                     Names(job'[v].copy, running)
    BY <2>1, <2>2 DEF LatestInv
  <2>4. ASSUME NEW v \in Worker, Holds(v)', v \notin late
        PROVE  /\ Anchored(job'[v].copy)
               /\ (~ job'[v].arrived \/ job'[v].event.version = 0) => Names(job'[v].copy, running)
    <3>1. CASE v = w
      BY <1>2, <2>1, <2>3, <3>1
    <3>2. CASE v # w
      <4>1. job'[v] = job[v] /\ Holds(v)
        BY <2>1, <2>4, <3>2 DEF Holds
      <4>2. QED
        BY <1>2, <2>1, <2>3, <2>4, <4>1
    <3>3. QED
      BY <3>1, <3>2
  <2>5. QED
    BY <1>2, <2>1, <2>3, <2>4
<1>6. ASSUME NEW w \in Worker, Patch(w) \/ AnswerLost(w) PROVE LatestInv'
  <2> DEFINE x == job[w].copy
             e == job[w].event
             n == used.edits
             run == IF e.version = 0 THEN running ELSE e.version
  <2>1. /\ Execute(w)
        /\ \A v \in Worker : Holds(v)' =>
               /\ Holds(v) /\ job'[v].copy = job[v].copy /\ job'[v].event = job[v].event
               /\ v = w => job'[v].arrived
    BY <1>6, PatchFacts
  <2>2. /\ Holds(w) /\ Exists /\ e \in Event /\ n \in Nat /\ Fine(x, n)
        /\ issue' = Patched(e, x) /\ edits' = edits
    BY <2>1, ExecuteFacts
  <2>3. /\ running' = run
        /\ overlapped' = (overlapped \/ w \in late)
        /\ late' = {v \in Worker \ {w} : Holds(v)}
    BY <2>1 DEF Execute
  <2>4. Done' = Done
    BY <2>2 DEF Done
  <2>5. SUFFICES ASSUME ~ overlapped', "strip" \notin Done, "unversion" \notin Done
                 PROVE  /\ Anchored(issue') /\ Names(issue', running')
                        /\ \A v \in Worker : (Holds(v)' /\ v \notin late') =>
                              /\ Anchored(job'[v].copy)
                              /\ (~ job'[v].arrived \/ job'[v].event.version = 0) =>
                                     Names(job'[v].copy, running')
    BY <2>4 DEF LatestInv
  <2>6. ~ overlapped /\ w \notin late
    BY <2>3, <2>5, Zenon
  <2>7. Anchored(x) /\ (e.version = 0 => Names(x, running))
    BY <1>2, <2>2, <2>5, <2>6
  <2>8. IsPatch(x, e, issue') /\ n + 5 < BodyLimit
    BY <1>3, <2>2 DEF IsPatch
  <2>9. \A v \in Worker : (Holds(v)' /\ v \notin late') =>
            v = w /\ job'[v].copy = x /\ job'[v].event = e /\ job'[v].arrived
    BY <2>1, <2>3
  <2> HIDE DEF x, e, n
  <2>10. Anchored(issue') /\ Names(issue', run)
    BY <2>2, <2>7, <2>8, NamesPatched
  <2>11. e.version = 0 => run = running
    OBVIOUS
  <2> HIDE DEF run
  <2>12. QED
    BY <2>3, <2>7, <2>9, <2>10, <2>11
<1>7. ASSUME NEW w \in Worker, GiveUp(w) PROVE LatestInv'
  <2>1. /\ UNCHANGED <<issue, running, overlapped, edits>>
        /\ late' = late \ {w}
        /\ \A v \in Worker : Holds(v)' => v # w /\ Holds(v) /\ job'[v] = job[v]
    BY <1>7, GiveUpFacts
  <2>2. Done' = Done /\ (Exists' <=> Exists)
    BY <2>1 DEF Done, Exists
  <2>3. \A v \in Worker : (Holds(v)' /\ v \notin late') =>
            Holds(v) /\ v \notin late /\ job'[v] = job[v]
    BY <2>1
  <2>4. QED
    BY <1>2, <2>1, <2>2, <2>3 DEF LatestInv
<1>8. CASE People
  <2>1. Exists /\ UNCHANGED <<job, running, overlapped, late>>
    BY <1>8, PeopleFacts
  <2>2. PICK name : Done' = Done \cup {name} /\ Edited(name, issue, issue')
    BY <1>8, DoneMore
  <2>3. \A v \in Worker : Holds(v)' <=> Holds(v)
    BY <2>1 DEF Holds
  <2>4. SUFFICES ASSUME ~ overlapped, "strip" \notin Done', "unversion" \notin Done'
                 PROVE  /\ Anchored(issue') /\ Names(issue', running)
                        /\ \A v \in Worker : (Holds(v) /\ v \notin late) =>
                              /\ Anchored(job[v].copy)
                              /\ (~ job[v].arrived \/ job[v].event.version = 0) =>
                                     Names(job[v].copy, running)
    BY <2>1, <2>3 DEF LatestInv
  <2>5. "strip" \notin Done /\ "unversion" \notin Done /\ name \notin {"strip", "unversion"}
    BY <2>2, <2>4
  <2>6. /\ Anchored(issue) /\ Names(issue, running)
        /\ \A v \in Worker : (Holds(v) /\ v \notin late) =>
              /\ Anchored(job[v].copy)
              /\ (~ job[v].arrived \/ job[v].event.version = 0) => Names(job[v].copy, running)
    BY <1>2, <2>1, <2>4, <2>5
  <2>7. Anchored(issue') /\ Names(issue', running)
    BY <2>2, <2>5, <2>6, NamesEdited
  <2>8. QED
    BY <2>6, <2>7
<1>9. CASE UNCHANGED vars
  BY <1>9 DEF LatestInv, Exists, Holds, Done, vars
<1>10. QED
  BY <1>4, <1>5, <1>6, <1>7, <1>8, <1>9, Steps

\* As long as recordings do not overlap and nobody removes header or Version
\* row, the Latest version row is there exactly when the version that last
\* reported the error is not the one first filed, once, and names it.
THEOREM LatestTruthful ==
  ASSUME RowsFit
  PROVE  Spec => []LatestVersionTruthful
<1>1. Init => LatestInv
  <2> SUFFICES ASSUME Init PROVE LatestInv
    OBVIOUS
  <2>1. ~ Exists
    BY TextInit
  <2>2. QED
    BY <2>1 DEF LatestInv
<1>2. TextInv /\ LatestInv /\ [Next]_vars => LatestInv'
  BY LatestNext
<1>3. TextInv /\ LatestInv => LatestVersionTruthful
  <2> SUFFICES ASSUME TextInv, LatestInv, Exists, ~ overlapped, ~ Did("strip"), ~ Did("unversion")
               PROVE  /\ Cardinality(Places(issue.body, "latest")) <= 1
                      /\ Vals(issue.body, "latest") =
                            {running} \ {0, issue.body[At(issue.body, "version")].val}
    BY DEF LatestVersionTruthful
  <2> DEFINE b == issue.body
  <2>1. Anchored(issue) /\ Names(issue, running)
    BY DoneFacts DEF LatestInv
  <2>2. b \in Seq(LineType) /\ Ordered(b)
    BY FineFacts, SoundFacts DEF TextInv
  <2>3. Vals(b, "version") # {} /\ Vals(b, "latest") = {running} \ ({0} \cup Vals(b, "version"))
    BY <2>1 DEF Anchored, Names
  <2>4. {"version", "latest"} \subseteq Rows
    BY DEF Rows
  <2> HIDE DEF b
  <2>5. Has(b, "version")
    BY <2>2, <2>3, ValsFacts
  <2>6. Vals(b, "version") = {b[At(b, "version")].val}
    BY <2>2, <2>4, <2>5, RowAt
  <2>7. Vals(b, "latest") = {running} \ {0, b[At(b, "version")].val}
    BY <2>3, <2>6
  <2>8. Cardinality(Places(b, "latest")) <= 1
    <3>1. CASE Has(b, "latest")
      <4>1. \A k \in 1..Len(b) : b[k].kind = "latest" <=> k = At(b, "latest")
        BY <2>2, <2>4, <3>1, RowAt
      <4>2. At(b, "latest") \in 1..Len(b)
        BY <2>2, <2>4, <3>1, RowAt
      <4>3. Places(b, "latest") = {At(b, "latest")}
        BY <2>2, <4>1, <4>2 DEF Places
      <4>4. QED
        BY <4>3, FS_Singleton
    <3>2. CASE ~ Has(b, "latest")
      BY <3>2, FS_EmptySet DEF Has
    <3>3. QED
      BY <3>1, <3>2
  <2>9. QED
    BY <2>7, <2>8 DEF b
<1>4. QED
  BY <1>1, <1>2, <1>3, TextAlways, PTL DEF Spec
=============================================================================
