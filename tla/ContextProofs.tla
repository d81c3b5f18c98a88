---------------------------- MODULE ContextProofs ----------------------------
(***************************************************************************)
(* Theorems about Context, for any traces, records and limits.             *)
(*                                                                         *)
(* That the buffer is faithful to the log is proved line by line.  It has  *)
(* the traces not forgotten since their last line, hence the traces active *)
(* after a trace's last line are the later ones of the buffer.  When it is *)
(* full, the trace with the oldest last line has MaxTraces others after    *)
(* it, so it is the one the new line makes forgotten, and every other      *)
(* trace keeps its lines.  The lines of an export are counted, by          *)
(* induction.  That nothing is stitched follows: a bucket has lines of its *)
(* trace only, and both decoders name the trace that was meant.            *)
(***************************************************************************)
EXTENDS Context, FiniteSetTheorems, SequenceTheorems, WellFoundedInduction, TLAPS

\* The constants, in the form the proofs cite them.
LEMMA Limits ==
  /\ MaxTraces \in Nat \ {0} /\ MaxLinesPerTrace \in Nat \ {0} /\ QueueSize \in Nat \ {0}
  /\ Limit \in Nat /\ MaxBatch \in Nat /\ MaxLog \in Nat
  /\ Unset \notin Trace /\ NoTrace \notin Trace /\ Unset # NoTrace
BY ContextConstants DEF Unset, NoTrace

\* What holds of 0, and of the next number with each, holds of all.
LEMMA Counting ==
  ASSUME NEW S, 0 \in S, \A n \in Nat : n \in S => n + 1 \in S
  PROVE  Nat \subseteq S
<1> DEFINE out == Nat \ S
           below == {xy \in Nat \X Nat : xy[1] < xy[2]}
<1>1. SUFFICES ASSUME out # {} PROVE FALSE
  OBVIOUS
<1>2. PICK n \in out : \A k \in out : <<k, n>> \notin below
  <2>1. IsWellFoundedOn(below, Nat)
    BY NatLessThanWellFounded DEF OpToRel
  <2>2. out \subseteq Nat
    OBVIOUS
  <2> HIDE DEF below, out
  <2>3. QED
    BY <1>1, <2>1, <2>2, WFMin
<1>3. n \in Nat /\ n # 0 /\ n \notin S
  OBVIOUS
<1>4. n - 1 \in Nat /\ n - 1 < n /\ (n - 1) + 1 = n
  BY <1>3
<1>5. n - 1 \notin S
  BY <1>3, <1>4
<1>6. n - 1 \in out /\ <<n - 1, n>> \in below
  BY <1>3, <1>4, <1>5
<1>7. QED
  BY <1>2, <1>6

(***************************************************************************)
(* The places of a batch, in order.                                        *)
(***************************************************************************)
IsOrder(s, S) ==
    /\ s \in [1..Cardinality(S) -> S]
    /\ \A i, j \in DOMAIN s : i < j => s[i] < s[j]

\* Every set of places can be put in order.
LEMMA OrderExists == \A n \in Nat : \A S \in SUBSET (1..n) : \E s : IsOrder(s, S)
<1> DEFINE Done == {n \in Nat : \A S \in SUBSET (1..n) : \E s : IsOrder(s, S)}
<1>1. 0 \in Done
  <2> SUFFICES ASSUME NEW S \in SUBSET (1..0) PROVE \E s : IsOrder(s, S)
    OBVIOUS
  <2>1. S = {}
    OBVIOUS
  <2>2. Cardinality(S) = 0
    BY <2>1, FS_EmptySet
  <2>3. <<>> \in [1..0 -> S] /\ DOMAIN <<>> = {}
    OBVIOUS
  <2>4. IsOrder(<<>>, S)
    BY <2>2, <2>3 DEF IsOrder
  <2>5. QED
    BY <2>4
<1>2. ASSUME NEW n \in Nat, n \in Done PROVE n + 1 \in Done
  <2> SUFFICES ASSUME NEW S \in SUBSET (1..(n + 1)) PROVE \E s : IsOrder(s, S)
    OBVIOUS
  <2>1. CASE n + 1 \notin S
    <3>1. S \subseteq 1..n
      BY <2>1
    <3>2. QED
      BY <1>2, <3>1
  <2>2. CASE n + 1 \in S
    <3> DEFINE R == S \ {n + 1}
               c == Cardinality(R)
    <3>1. R \subseteq 1..n /\ n + 1 \notin R /\ S = R \cup {n + 1}
      BY <2>2
    <3>2. IsFiniteSet(R) /\ c \in Nat
      <4>1. IsFiniteSet(1..n)
        BY FS_Interval
      <4>2. IsFiniteSet(R)
        BY <3>1, <4>1, FS_Subset
      <4>3. QED
        BY <4>2, FS_CardinalityType
    <3>3. Cardinality(S) = c + 1
      BY <3>1, <3>2, FS_AddElement, ZenonT(30)
    <3>4. PICK r : IsOrder(r, R)
      BY <1>2, <3>1
    <3>5. r \in [1..c -> R] /\ \A i, j \in 1..c : i < j => r[i] < r[j]
      BY <3>4 DEF IsOrder
    <3> DEFINE s == [i \in 1..(c + 1) |-> IF i = c + 1 THEN n + 1 ELSE r[i]]
    <3>6. \A i \in 1..(c + 1) : i # c + 1 => i \in 1..c
      BY <3>2
    <3>7. \A i \in 1..c : r[i] \in R /\ r[i] \in Nat /\ r[i] < n + 1
      <4> HIDE DEF R, c
      <4>1. \A x \in R : x \in Nat /\ x < n + 1
        BY <3>1
      <4>2. QED
        BY <3>5, <4>1
    <3>8. s \in [1..(c + 1) -> S]
      BY <3>1, <3>6, <3>7
    <3>9. \A i, j \in 1..(c + 1) : i < j => s[i] < s[j]
      <4> HIDE DEF R, c
      <4> TAKE i, j \in 1..(c + 1)
      <4> HAVE i < j
      <4>1. i # c + 1 /\ i \in 1..c /\ s[i] = r[i]
        BY <3>2
      <4>2. CASE j = c + 1
        BY <3>7, <4>1, <4>2
      <4>3. CASE j # c + 1
        BY <3>5, <3>6, <4>1, <4>3
      <4>4. QED
        BY <4>2, <4>3
    <3>10. IsOrder(s, S)
      BY <3>3, <3>8, <3>9 DEF IsOrder
    <3>11. QED
      BY <3>10
  <2>3. QED
    BY <2>1, <2>2
<1>3. \A n \in Nat : n \in Done => n + 1 \in Done
  BY <1>2
<1>4. Nat \subseteq Done
  <2> HIDE DEF Done
  <2>1. QED
    BY <1>1, <1>3, Counting
<1>5. QED
  BY <1>4

\* The places are taken from the set, and in order.
LEMMA InOrderFacts ==
  ASSUME NEW n \in Nat, NEW S \in SUBSET (1..n)
  PROVE  /\ Cardinality(S) \in Nat
         /\ InOrder(S) \in [1..Cardinality(S) -> S]
         /\ InOrder(S) \in Seq(S)
         /\ Len(InOrder(S)) = Cardinality(S)
         /\ Cardinality(S) <= n
<1>1. IsFiniteSet(1..n) /\ Cardinality(1..n) = n
  BY FS_Interval
<1>2. Cardinality(S) \in Nat /\ Cardinality(S) <= n
  BY <1>1, FS_Subset, FS_CardinalityType
<1>3. PICK s : IsOrder(s, S)
  BY OrderExists
<1>4. InOrder(S) \in [1..Cardinality(S) -> S]
  BY <1>3 DEF IsOrder, InOrder
<1>5. QED
  BY <1>2, <1>4, IsASeq

(***************************************************************************)
(* Decoding.                                                               *)
(***************************************************************************)
RecordType ==
    [encoding : {"protobuf", "json"}, trace : Trace \cup {Unset},
     id : {"plain", "upper", "base64", "malformed"}, level : {"info", "error"},
     severity : {"number", "name", "text", "junk"}, exception : BOOLEAN,
     body : {"said", "blank"}]

\* A decoded trace tells what was meant.
Names(trace, meant) ==
    /\ trace \in Trace \cup {NoTrace} /\ meant \in Trace \cup {Unset}
    /\ trace = NoTrace <=> meant = Unset
    /\ trace # NoTrace => meant = trace

\* A decoded record says what its sender meant.
Tells(d, r) ==
    /\ Names(d.trace, Meant(r).trace)
    /\ Meant(r) \in Meaning
    /\ IsError(d) <=> Meant(r).error

\* A record is one that its encoding can carry.
LEMMA RecordFacts ==
  ASSUME NEW r \in Record
  PROVE  /\ r \in RecordType
         /\ r.encoding = "protobuf" => r.id \in {"plain", "malformed"}
         /\ r.encoding = "protobuf" => r.severity \in {"number", "text"}
BY ContextConstants DEF RecordType

\* What a sender means is a trace or none, and an error or not.
LEMMA MeantType ==
  ASSUME NEW r \in RecordType
  PROVE  Meant(r) \in Meaning
BY ContextConstants DEF RecordType, Meant, Meaning

\* An effective severity of its level, and the exception, make an error.
LEMMA ErrorTold ==
  ASSUME NEW r \in RecordType, NEW trace, NEW number \in {0, Number(r.level)},
         NEW d, d = DecodedAs(r, trace, number)
  PROVE  IsError(d) <=> Meant(r).error
<1>1. /\ d.number = number /\ d.text = r.level /\ d.exception = r.exception
  BY DEF DecodedAs
<1>2. r.level \in {"info", "error"} /\ r.exception \in BOOLEAN /\ RequireException \in BOOLEAN
  BY ContextConstants DEF RecordType
<1>3. EffectiveSeverity(d) >= SEVERITY_ERROR <=> r.level = "error"
  <2>1. CASE r.level = "error"
    BY <1>1, <2>1 DEF EffectiveSeverity, Number, SEVERITY_ERROR, Info
  <2>2. CASE r.level = "info"
    BY <1>1, <2>2 DEF EffectiveSeverity, Number, SEVERITY_ERROR, Info
  <2>3. QED
    BY <1>2, <2>1, <2>2
<1>4. Meant(r).error <=> r.exception \/ (~ RequireException /\ r.level = "error")
  BY DEF Meant
<1>5. IsError(d) <=> d.exception \/ (~ RequireException /\ EffectiveSeverity(d) >= SEVERITY_ERROR)
  BY DEF IsError
<1>6. QED
  BY <1>1, <1>3, <1>4, <1>5

\* Protobuf carries the id as bytes, and the level as a number or as text.
LEMMA ProtobufTold ==
  ASSUME NEW r \in Record, r.encoding = "protobuf"
  PROVE  Tells(DecodedAs(r, IdFromBytes(r), IF r.severity = "number" THEN Number(r.level) ELSE 0), r)
<1> DEFINE number == IF r.severity = "number" THEN Number(r.level) ELSE 0
           d == DecodedAs(r, IdFromBytes(r), number)
<1>1. r \in RecordType /\ r.id \in {"plain", "malformed"}
  BY RecordFacts
<1>2. IsError(d) <=> Meant(r).error
  BY <1>1, ErrorTold
<1>3. d.trace = IdFromBytes(r)
  BY DEF DecodedAs
<1>4. r.trace \in Trace \cup {Unset}
  BY <1>1 DEF RecordType
<1>5. Names(IdFromBytes(r), Meant(r).trace)
  BY <1>1, <1>4, Limits DEF Names, IdFromBytes, Meant
<1>6. QED
  BY <1>1, <1>2, <1>3, <1>5, MeantType DEF Tells

\* JSON carries the id in either notation, and the level in any.
LEMMA JsonTold ==
  ASSUME NEW r \in Record, r.encoding = "json"
  PROVE  Tells(DecodedAs(r, IdFromJson(r), JsonSeverity(r)), r)
<1> DEFINE d == DecodedAs(r, IdFromJson(r), JsonSeverity(r))
<1>1. r \in RecordType
  BY RecordFacts
<1>2. JsonSeverity(r) \in {0, Number(r.level)}
  BY DEF JsonSeverity
<1>3. IsError(d) <=> Meant(r).error
  BY <1>1, <1>2, ErrorTold
<1>4. d.trace = IdFromJson(r)
  BY DEF DecodedAs
<1>5. r.trace \in Trace \cup {Unset} /\ r.id \in {"plain", "upper", "base64", "malformed"}
  BY <1>1 DEF RecordType
<1>6. Names(IdFromJson(r), Meant(r).trace)
  <2>1. CASE r.id = "malformed"
    BY <1>5, <2>1, Limits DEF Names, IdFromJson, Meant
  <2>2. CASE r.id = "base64"
    BY <1>5, <2>2, Limits DEF Names, IdFromJson, IdFromBytes, Meant
  <2>3. CASE r.id = "plain"
    BY <1>5, <2>3, Limits DEF Names, IdFromJson, Meant
  <2>4. CASE r.id = "upper"
    BY <1>5, <2>4, Limits DEF Names, IdFromJson, Meant
  <2>5. QED
    BY <1>5, <2>1, <2>2, <2>3, <2>4
<1>7. QED
  BY <1>1, <1>3, <1>4, <1>6, MeantType DEF Tells

\* Every record of an export is told right, place by place.
LEMMA DecodeFacts ==
  ASSUME NEW n \in Nat, NEW batch \in [1..n -> Record],
         Encoded(batch, "protobuf") \/ Encoded(batch, "json")
  PROVE  /\ DOMAIN Decode(batch) = 1..n
         /\ \A i \in 1..n : Tells(Decode(batch)[i], batch[i])
<1>1. DOMAIN batch = 1..n /\ \A i \in 1..n : batch[i] \in Record
  OBVIOUS
<1>2. CASE Encoded(batch, "protobuf")
  <2>1. Decode(batch) = DecodeProtobuf(batch)
    BY <1>2 DEF Decode
  <2>2. DOMAIN DecodeProtobuf(batch) = 1..n
    BY <1>1 DEF DecodeProtobuf
  <2>3. ASSUME NEW i \in 1..n PROVE Tells(DecodeProtobuf(batch)[i], batch[i])
    <3>1. batch[i] \in Record /\ batch[i].encoding = "protobuf"
      BY <1>1, <1>2 DEF Encoded
    <3>2. DecodeProtobuf(batch)[i] =
            DecodedAs(batch[i], IdFromBytes(batch[i]),
                      IF batch[i].severity = "number" THEN Number(batch[i].level) ELSE 0)
      BY <1>1 DEF DecodeProtobuf
    <3>3. QED
      BY <3>1, <3>2, ProtobufTold
  <2>4. QED
    BY <2>1, <2>2, <2>3
<1>3. CASE ~ Encoded(batch, "protobuf")
  <2>1. Decode(batch) = DecodeJson(batch) /\ Encoded(batch, "json")
    BY <1>3 DEF Decode
  <2>2. DOMAIN DecodeJson(batch) = 1..n
    BY <1>1 DEF DecodeJson
  <2>3. ASSUME NEW i \in 1..n PROVE Tells(DecodeJson(batch)[i], batch[i])
    <3>1. batch[i] \in Record /\ batch[i].encoding = "json"
      BY <1>1, <2>1 DEF Encoded
    <3>2. DecodeJson(batch)[i] =
            DecodedAs(batch[i], IdFromJson(batch[i]), JsonSeverity(batch[i]))
      BY <1>1 DEF DecodeJson
    <3>3. QED
      BY <3>1, <3>2, JsonTold
  <2>4. QED
    BY <2>1, <2>2, <2>3
<1>4. QED
  BY <1>2, <1>3

(***************************************************************************)
(* The end of a sequence.                                                  *)
(***************************************************************************)
\* Latest(s, n) is the end of s, and of length n if s is as long.
LEMMA LatestFacts ==
  ASSUME NEW X, NEW s \in Seq(X), NEW n \in Nat
  PROVE  /\ Latest(s, n) \in Seq(X)
         /\ Len(Latest(s, n)) \in 0..Len(s)
         /\ n # 0 /\ n <= Len(s) => Len(Latest(s, n)) = n
         /\ n = 0 \/ n >= Len(s) => Len(Latest(s, n)) = Len(s)
         /\ \A i \in 1..Len(Latest(s, n)) :
               Latest(s, n)[i] = s[i + (Len(s) - Len(Latest(s, n)))]
<1>1. CASE n = 0 \/ n >= Len(s)
  <2>1. Latest(s, n) = s
    BY <1>1 DEF Latest
  <2>2. n # 0 /\ n <= Len(s) => n = Len(s)
    BY <1>1
  <2>3. \A i \in 1..Len(s) : i + (Len(s) - Len(s)) = i
    OBVIOUS
  <2>4. QED
    BY <2>1, <2>2, <2>3
<1>2. CASE ~ (n = 0 \/ n >= Len(s))
  <2> DEFINE from == Len(s) - n + 1
             e == SubSeq(s, from, Len(s))
  <2>1. Latest(s, n) = e
    BY <1>2 DEF Latest
  <2>2. from \in 1..(Len(s) + 1) /\ Len(s) \in (from - 1)..Len(s)
    BY <1>2
  <2>3. /\ e \in Seq(X)
        /\ Len(e) = Len(s) - from + 1
        /\ \A i \in 1..(Len(s) - from + 1) : e[i] = s[from + i - 1]
    BY <2>2, SubSeqProperties
  <2>4. Len(e) = n /\ \A i \in 1..n : e[i] = s[i + (Len(s) - n)]
    <3>1. Len(s) - from + 1 = n
      BY <1>2
    <3>2. \A i \in 1..n : from + i - 1 = i + (Len(s) - n)
      BY <1>2
    <3>3. QED
      BY <2>3, <3>1, <3>2
  <2> HIDE DEF e
  <2>5. QED
    BY <1>2, <2>1, <2>3, <2>4
<1>3. QED
  BY <1>1, <1>2

\* A bucket that lists the latest of some lines lists those with a new one
\* when that is appended, and its oldest goes if it was full.
LEMMA OneMoreLine ==
  ASSUME NEW K \in SUBSET Nat, NEW s \in Seq(Nat), ListsLatest(s, K),
         Len(s) <= MaxLinesPerTrace, NEW m \in Nat, \A n \in K : n < m,
         NEW e, e = Push(s, m)
  PROVE  /\ ListsLatest(e, K \cup {m})
         /\ Len(e) \in 1..MaxLinesPerTrace
         /\ e[Len(e)] = m
<1> DEFINE a == Append(s, m)
           c == Len(s)
           shift == (c + 1) - Len(e)
           M == MaxLinesPerTrace
<1>1. c \in Nat /\ M \in Nat \ {0} /\ s \in [1..c -> Nat]
  BY Limits
<1>2. a \in Seq(Nat) /\ Len(a) = c + 1 /\ a[c + 1] = m /\ \A i \in 1..c : a[i] = s[i]
  BY <1>1
<1>3. /\ e \in Seq(Nat) /\ Len(e) \in 0..(c + 1)
      /\ M <= c + 1 => Len(e) = M
      /\ M >= c + 1 => Len(e) = c + 1
      /\ \A i \in 1..Len(e) : e[i] = a[i + shift]
  <2>1. e = Latest(a, M)
    BY DEF Push
  <2> HIDE DEF a
  <2>2. /\ e \in Seq(Nat) /\ Len(e) \in 0..Len(a)
        /\ M # 0 /\ M <= Len(a) => Len(e) = M
        /\ M = 0 \/ M >= Len(a) => Len(e) = Len(a)
        /\ \A i \in 1..Len(e) : e[i] = a[i + (Len(a) - Len(e))]
    BY <1>1, <1>2, <2>1, LatestFacts, SMTT(30)
  <2>3. QED
    BY <1>1, <1>2, <2>2
<1>4. c <= M
  OBVIOUS
<1>5. /\ M = c => Len(e) = c /\ shift = 1
      /\ M # c => Len(e) = c + 1 /\ shift = 0
  <2>1. Len(e) \in Nat /\ (M = c => Len(e) = M) /\ (M # c => Len(e) = c + 1)
    <3> HIDE DEF c, M, a
    <3>1. QED
      BY <1>1, <1>3, <1>4
  <2> HIDE DEF c, M, a
  <2>2. QED
    BY <1>1, <2>1
<1>6. shift \in {0, 1} /\ Len(e) = c + 1 - shift /\ Len(e) \in 1..M
  <2> HIDE DEF c, M, a
  <2>1. QED
    BY <1>1, <1>4, <1>5
<1> HIDE DEF a
<1>7. /\ \A i, j \in 1..c : i < j => s[i] < s[j]
      /\ \A i \in 1..c : s[i] \in K
      /\ \A n \in K : (\E i \in 1..c : s[i] = n) \/ (c = M /\ n < s[1])
  BY <1>1 DEF ListsLatest
<1>8. /\ \A i, j \in 1..(c + 1) : i < j => a[i] < a[j]
      /\ \A i \in 1..(c + 1) : a[i] \in K \cup {m}
  <2>1. \A i \in 1..(c + 1) : i = c + 1 \/ i \in 1..c
    BY <1>1
  <2>2. \A i, j \in 1..(c + 1) : i < j => i \in 1..c
    BY <1>1
  <2>3. QED
    BY <1>2, <1>7, <2>1, <2>2
<1> HIDE DEF c, shift, M
<1>9. DOMAIN e = 1..Len(e) /\ \A i \in 1..Len(e) : i + shift \in 1..(c + 1)
  BY <1>1, <1>3, <1>6
<1>10. \A i, j \in DOMAIN e : i < j => e[i] < e[j]
  <2> TAKE i, j \in DOMAIN e
  <2> HAVE i < j
  <2>1. i + shift < j + shift
    BY <1>6, <1>9
  <2>2. QED
    BY <1>3, <1>8, <1>9, <2>1
<1>11. \A i \in DOMAIN e : e[i] \in K \cup {m}
  BY <1>3, <1>8, <1>9
<1>12. e[Len(e)] = m
  <2>1. Len(e) + shift = c + 1 /\ Len(e) \in 1..Len(e)
    BY <1>1, <1>6 DEF M
  <2>2. QED
    BY <1>2, <1>3, <2>1
<1>13. ASSUME NEW n \in K \cup {m}
       PROVE  (\E i \in DOMAIN e : e[i] = n) \/ (Len(e) = M /\ n < e[1])
  <2>1. CASE n = m
    <3>1. Len(e) \in DOMAIN e
      BY <1>6, <1>9 DEF M
    <3>2. QED
      BY <1>12, <2>1, <3>1
  <2>2. CASE n # m /\ shift = 0
    <3>1. n \in K /\ c # M
      BY <1>5, <2>2
    <3>2. PICK i \in 1..c : s[i] = n
      BY <1>7, <3>1
    <3>3. i \in 1..Len(e) /\ e[i] = a[i] /\ i + shift = i
      BY <1>1, <1>3, <1>6, <2>2
    <3>4. QED
      BY <1>2, <1>9, <3>2, <3>3
  <2>3. CASE n # m /\ shift = 1
    <3>1. n \in K /\ c = M /\ Len(e) = c
      BY <1>5, <2>3
    <3>2. e[1] = a[2] /\ 1 \in 1..c
      BY <1>1, <1>3, <2>3, <3>1
    <3>3. s[1] < a[2]
      BY <1>1, <1>2, <1>8, <3>2
    <3>4. CASE \E i \in 1..c : s[i] = n
      <4>1. PICK i \in 1..c : s[i] = n
        BY <3>4
      <4>2. CASE i = 1
        BY <2>3, <3>1, <3>2, <3>3, <4>1, <4>2
      <4>3. CASE i # 1
        <5>1. i - 1 \in 1..Len(e) /\ (i - 1) + shift = i
          BY <1>1, <2>3, <3>1, <4>3
        <5>2. e[i - 1] = n
          BY <1>2, <1>3, <4>1, <5>1
        <5>3. QED
          BY <1>9, <5>1, <5>2
      <4>4. QED
        BY <4>2, <4>3
    <3>5. CASE ~ \E i \in 1..c : s[i] = n
      <4>1. n < s[1]
        BY <1>7, <3>1, <3>5
      <4>2. n \in Nat /\ s[1] \in Nat /\ a[2] \in Nat
        BY <1>1, <1>2, <3>1, <3>2
      <4>3. n < e[1]
        BY <3>2, <3>3, <4>1, <4>2
      <4>4. QED
        BY <3>1, <4>3
    <3>6. QED
      BY <3>4, <3>5
  <2>4. QED
    BY <1>6, <2>1, <2>2, <2>3
<1>14. QED
  BY <1>6, <1>10, <1>11, <1>12, <1>13 DEF ListsLatest, M

(***************************************************************************)
(* The log.                                                                *)
(***************************************************************************)
\* The traces active between two lines are finitely many.
LEMMA ActiveFacts ==
  ASSUME NEW l \in Seq(Meaning), NEW i \in Nat, NEW j \in 0..(Len(l) + 1)
  PROVE  /\ ActiveBetween(l, i, j) \subseteq Trace
         /\ IsFiniteSet(ActiveBetween(l, i, j))
         /\ Cardinality(ActiveBetween(l, i, j)) \in Nat
<1> DEFINE between == (i + 1)..(j - 1)
           said == {l[n].trace : n \in between}
<1>1. \A n \in between : n \in 1..Len(l) /\ l[n] \in Meaning
  OBVIOUS
<1>2. \A n \in between : l[n].trace \in Trace \cup {Unset}
  BY <1>1 DEF Meaning
<1>3. IsFiniteSet(between)
  BY FS_Interval
<1>4. IsFiniteSet(said)
  <2> DEFINE f == [n \in between |-> l[n].trace]
  <2>1. f \in Surjection(between, said)
    BY DEF Surjection
  <2> HIDE DEF between, said, f
  <2>2. QED
    BY <1>3, <2>1, FS_Surjection
<1>5. ActiveBetween(l, i, j) = said \ {Unset}
  BY DEF ActiveBetween
<1>6. IsFiniteSet(ActiveBetween(l, i, j))
  <2> HIDE DEF said
  <2>1. said \ {Unset} \subseteq said
    OBVIOUS
  <2>2. QED
    BY <1>4, <1>5, <2>1, FS_Subset
<1>7. ActiveBetween(l, i, j) \subseteq Trace
  BY <1>2, <1>5
<1>8. QED
  BY <1>6, <1>7, FS_CardinalityType

\* Who is active in a part is active in the whole.
LEMMA ActiveWithin ==
  ASSUME NEW l, NEW i \in Int, NEW j \in Int, NEW a \in Int, NEW b \in Int, a <= i, j <= b
  PROVE  ActiveBetween(l, i, j) \subseteq ActiveBetween(l, a, b)
<1>1. (i + 1)..(j - 1) \subseteq (a + 1)..(b - 1)
  OBVIOUS
<1>2. QED
  BY <1>1 DEF ActiveBetween

\* Whoever says a line in between is active.
LEMMA SpeaksBetween ==
  ASSUME NEW l, NEW i \in Int, NEW j \in Int, NEW n \in Int, i < n, n < j,
         l[n].trace # Unset
  PROVE  l[n].trace \in ActiveBetween(l, i, j)
<1>1. n \in (i + 1)..(j - 1)
  OBVIOUS
<1>2. QED
  BY <1>1 DEF ActiveBetween

\* A trace becomes forgotten by a new line only when it is silent up to that.
JustForgotten(k, u, i) ==
    /\ u \notin ActiveBetween(k, i, Len(k) + 1)
    /\ Cardinality(ActiveBetween(k, i, Len(k) + 1)) >= MaxTraces

\* k is the log l with the line m.
IsNext(k, l, m) == l \in Seq(Meaning) /\ m \in Meaning /\ k = Append(l, m)

\* What a new line changes.
LEMMA NewLine ==
  ASSUME NEW l, NEW m, NEW k, IsNext(k, l, m)
  PROVE  /\ l \in Seq(Meaning) /\ m \in Meaning /\ Len(l) \in Nat
         /\ k \in Seq(Meaning) /\ Len(k) = Len(l) + 1
         /\ k[Len(k)] = m /\ \A n \in 1..Len(l) : k[n] = l[n]
BY DEF IsNext

\* Who was active before it is not changed by it.
LEMMA ActiveBefore ==
  ASSUME NEW l, NEW m, NEW k, IsNext(k, l, m),
         NEW i \in Nat, NEW j \in 0..Len(k)
  PROVE  ActiveBetween(k, i, j) = ActiveBetween(l, i, j)
<1>1. /\ Len(l) \in Nat /\ Len(k) = Len(l) + 1
      /\ \A n \in 1..Len(l) : k[n] = l[n]
  BY NewLine
<1>2. \A n \in (i + 1)..(j - 1) : k[n] = l[n]
  BY <1>1
<1>3. QED
  BY <1>2 DEF ActiveBetween

\* Its trace is active after every other line.
LEMMA ActiveUpTo ==
  ASSUME NEW l, NEW m, NEW k, IsNext(k, l, m),
         NEW i \in 0..Len(l)
  PROVE  ActiveBetween(k, i, Len(k) + 1) =
           ActiveBetween(l, i, Len(k)) \cup ({m.trace} \ {Unset})
<1> DEFINE old == (i + 1)..(Len(k) - 1)
           all == (i + 1)..((Len(k) + 1) - 1)
<1>1. /\ Len(l) \in Nat /\ Len(k) = Len(l) + 1
      /\ k[Len(k)] = m /\ \A n \in 1..Len(l) : k[n] = l[n]
  BY NewLine
<1>2. ActiveBetween(k, i, Len(k) + 1) = {k[n].trace : n \in all} \ {Unset}
  BY DEF ActiveBetween
<1>3. ActiveBetween(l, i, Len(k)) = {l[n].trace : n \in old} \ {Unset}
  BY DEF ActiveBetween
<1>4. all = old \cup {Len(k)} /\ \A n \in old : k[n] = l[n]
  BY <1>1
<1> HIDE DEF old, all
<1>5. {k[n].trace : n \in all} = {l[n].trace : n \in old} \cup {m.trace}
  BY <1>1, <1>4
<1>6. QED
  BY <1>2, <1>3, <1>5

\* What a new line makes forgotten.
LEMMA NewlyForgotten ==
  ASSUME NEW l, NEW m, NEW k, IsNext(k, l, m), NEW u
  PROVE  /\ ~ ForgottenAfter(k, u, Len(k))
         /\ \A i \in 1..Len(l) :
               ForgottenAfter(k, u, i) <=> ForgottenAfter(l, u, i) \/ JustForgotten(k, u, i)
<1>1. Len(k) = Len(l) + 1 /\ Len(l) \in Nat
  BY NewLine
<1>2. \A i \in Nat, j \in 0..Len(k) : ActiveBetween(k, i, j) = ActiveBetween(l, i, j)
  BY ActiveBefore
<1>3. ~ ForgottenAfter(k, u, Len(k))
  <2>1. ASSUME NEW j \in (Len(k) + 1)..(Len(k) + 1)
        PROVE  ~ (Cardinality(ActiveBetween(k, Len(k), j)) >= MaxTraces)
    <3>1. (Len(k) + 1)..(j - 1) = {}
      BY <1>1
    <3>2. ActiveBetween(k, Len(k), j) = {}
      BY <3>1 DEF ActiveBetween
    <3>3. Cardinality(ActiveBetween(k, Len(k), j)) = 0
      BY <3>2, FS_EmptySet
    <3>4. QED
      BY <3>3, Limits
  <2>2. QED
    BY <2>1 DEF ForgottenAfter
<1>4. ASSUME NEW i \in 1..Len(l)
      PROVE  ForgottenAfter(k, u, i) <=> ForgottenAfter(l, u, i) \/ JustForgotten(k, u, i)
  <2> DEFINE Silent(h, j) == /\ u \notin ActiveBetween(h, i, j)
                             /\ Cardinality(ActiveBetween(h, i, j)) >= MaxTraces
  <2>1. \A j \in (i + 1)..(Len(l) + 1) : Silent(k, j) <=> Silent(l, j)
    <3> TAKE j \in (i + 1)..(Len(l) + 1)
    <3>1. i \in Nat /\ j \in 0..Len(k)
      BY <1>1
    <3>2. ActiveBetween(k, i, j) = ActiveBetween(l, i, j)
      BY <3>1, <1>2
    <3>3. QED
      BY <3>2
  <2>2. (i + 1)..(Len(k) + 1) = ((i + 1)..(Len(l) + 1)) \cup {Len(k) + 1}
    BY <1>1
  <2>3. ForgottenAfter(k, u, i) <=> \E j \in (i + 1)..(Len(k) + 1) : Silent(k, j)
    BY DEF ForgottenAfter
  <2>4. ForgottenAfter(l, u, i) <=> \E j \in (i + 1)..(Len(l) + 1) : Silent(l, j)
    BY DEF ForgottenAfter
  <2>5. JustForgotten(k, u, i) <=> Silent(k, Len(k) + 1)
    BY DEF JustForgotten
  <2> HIDE DEF Silent
  <2>6. QED
    BY <2>1, <2>2, <2>3, <2>4, <2>5
<1>5. QED
  BY <1>3, <1>4

\* The lines of a trace, with a new one.
LEMMA LinesWithNew ==
  ASSUME NEW l, NEW m, NEW k, IsNext(k, l, m), NEW u
  PROVE  /\ LinesOf(l, u) \subseteq 1..Len(l)
         /\ LinesOf(k, u) \cap (1..Len(l)) = LinesOf(l, u)
         /\ LinesOf(k, u) \subseteq LinesOf(l, u) \cup {Len(k)}
         /\ Len(k) \in LinesOf(k, u) <=> m.trace = u
<1>1. /\ Len(k) = Len(l) + 1 /\ k[Len(k)] = m /\ \A n \in 1..Len(l) : k[n] = l[n]
  BY NewLine
<1>2. Len(l) \in Nat /\ DOMAIN l = 1..Len(l) /\ DOMAIN k = 1..Len(k)
  OBVIOUS
<1>3. \A n \in 1..Len(k) : n \in 1..Len(l) \/ n = Len(k)
  BY <1>1, <1>2
<1>4. 1..Len(l) \subseteq 1..Len(k) /\ Len(k) \in 1..Len(k)
  BY <1>1, <1>2
<1>5. QED
  BY <1>1, <1>2, <1>3, <1>4 DEF LinesOf

(***************************************************************************)
(* What the buffer remembers of a log.                                     *)
(***************************************************************************)
IsBuffer(b, l) ==
    /\ DOMAIN b \subseteq Trace /\ IsFiniteSet(DOMAIN b)
    /\ Cardinality(DOMAIN b) <= MaxTraces
    /\ \A t \in DOMAIN b : b[t] \in Seq(DOMAIN l) /\ Len(b[t]) \in 1..MaxLinesPerTrace

\* BufferRemembers of any buffer and log.
Remembers(b, l) == IsBuffer(b, l) /\ \A t \in Trace : ListsLatest(Bucket(b, t), Kept(l, t))

Newest(b, t) == b[t][Len(b[t])]

\* A trace the buffer has no lines of has none since it was last forgotten.
LEMMA Untracked ==
  ASSUME NEW l \in Seq(Meaning), NEW b, Remembers(b, l), NEW u \in Trace, u \notin DOMAIN b
  PROVE  Kept(l, u) = {}
<1>1. Bucket(b, u) = <<>>
  BY DEF Bucket
<1>2. ListsLatest(<<>>, Kept(l, u))
  BY <1>1 DEF Remembers
<1>3. DOMAIN <<>> = {} /\ Len(<<>>) = 0 /\ MaxLinesPerTrace # 0
  BY Limits
<1>4. QED
  BY <1>2, <1>3 DEF ListsLatest

\* The newest line in the buffer is the last one of its trace, and the trace
\* has not been forgotten since.
LEMMA LastLine ==
  ASSUME NEW l \in Seq(Meaning), NEW b, Remembers(b, l), NEW u \in DOMAIN b
  PROVE  /\ u \in Trace /\ u # Unset
         /\ Newest(b, u) \in LinesOf(l, u) /\ Newest(b, u) \in 1..Len(l)
         /\ \A x \in LinesOf(l, u) : x <= Newest(b, u)
         /\ ~ ForgottenAfter(l, u, Newest(b, u))
<1> DEFINE s == b[u]
           z == s[Len(s)]
<1>1. u \in Trace /\ u # Unset /\ s \in Seq(1..Len(l)) /\ Len(s) \in 1..MaxLinesPerTrace
  BY Limits DEF Remembers, IsBuffer
<1>2. ListsLatest(s, Kept(l, u))
  BY <1>1 DEF Remembers, Bucket
<1> HIDE DEF s
<1>3. /\ Len(s) \in DOMAIN s /\ DOMAIN s = 1..Len(s) /\ Len(s) \in Nat /\ 1 \in DOMAIN s
      /\ \A i \in DOMAIN s : s[i] \in 1..Len(l) /\ s[i] \in Nat
  BY <1>1, Limits
<1>4. z \in Kept(l, u) /\ z \in 1..Len(l)
  BY <1>2, <1>3 DEF ListsLatest
<1>5. \A i \in DOMAIN s : s[i] <= z
  <2> TAKE i \in DOMAIN s
  <2>1. CASE i = Len(s)
    BY <1>3, <2>1
  <2>2. CASE i # Len(s)
    <3>1. i < Len(s)
      BY <1>3, <2>2
    <3>2. s[i] < z
      BY <1>2, <1>3, <3>1 DEF ListsLatest
    <3>3. QED
      BY <1>3, <3>2
  <2>3. QED
    BY <2>1, <2>2
<1>6. LinesOf(l, u) \subseteq 1..Len(l)
  BY DEF LinesOf
<1>7. z \in LinesOf(l, u) /\ ~ ForgottenAfter(l, u, z)
  <2>1. z >= z
    BY <1>4
  <2>2. QED
    BY <1>4, <2>1 DEF Kept
<1>8. ASSUME NEW x \in LinesOf(l, u) PROVE x <= z
  <2> SUFFICES ASSUME x > z PROVE FALSE
    BY <1>4, <1>6
  <2>1. x \in 1..Len(l) /\ x >= z
    BY <1>4, <1>6
  <2>2. x \in Kept(l, u)
    <3>1. \A i \in LinesOf(l, u) : i >= x => i >= z
      BY <1>4, <1>6, <2>1
    <3>2. QED
      BY <1>4, <3>1 DEF Kept
  <2>3. CASE \E i \in DOMAIN s : s[i] = x
    BY <1>4, <1>5, <2>1, <2>3
  <2>4. CASE x < s[1]
    BY <1>3, <1>4, <1>5, <2>1, <2>4
  <2>5. QED
    BY <1>2, <2>2, <2>3, <2>4 DEF ListsLatest
<1>9. QED
  BY <1>1, <1>4, <1>7, <1>8 DEF Newest, s

\* The traces active after a trace's last line are in the buffer, too, with
\* later lines, and they are too few to crowd it out.
LEMMA LaterTraces ==
  ASSUME NEW l \in Seq(Meaning), NEW b, Remembers(b, l), NEW u \in DOMAIN b
  PROVE  /\ ActiveBetween(l, Newest(b, u), Len(l) + 1) =
              {v \in DOMAIN b : Newest(b, v) > Newest(b, u)}
         /\ Cardinality(ActiveBetween(l, Newest(b, u), Len(l) + 1)) < MaxTraces
<1> DEFINE z == Newest(b, u)
           later == ActiveBetween(l, z, Len(l) + 1)
<1>1. /\ u \in Trace /\ z \in LinesOf(l, u) /\ z \in 1..Len(l)
      /\ \A x \in LinesOf(l, u) : x <= z
      /\ ~ ForgottenAfter(l, u, z)
  BY LastLine
<1>2. Len(l) \in Nat /\ DOMAIN l = 1..Len(l)
  OBVIOUS
<1> HIDE DEF z
<1>3. later \subseteq Trace /\ Cardinality(later) \in Nat
  BY <1>1, <1>2, ActiveFacts
<1>4. \A j \in (z + 1)..(Len(l) + 1) : u \notin ActiveBetween(l, z, j)
  <2> SUFFICES ASSUME NEW j \in (z + 1)..(Len(l) + 1), u \in ActiveBetween(l, z, j)
               PROVE  FALSE
    OBVIOUS
  <2>1. PICK n \in (z + 1)..(j - 1) : l[n].trace = u
    BY DEF ActiveBetween
  <2>2. n \in LinesOf(l, u) /\ n > z /\ n \in Nat
    BY <1>1, <1>2, <2>1 DEF LinesOf
  <2>3. QED
    BY <1>1, <2>2
<1>5. Cardinality(later) < MaxTraces
  <2>1. Len(l) + 1 \in (z + 1)..(Len(l) + 1)
    BY <1>1, <1>2
  <2>2. ~ (Cardinality(later) >= MaxTraces)
    BY <1>1, <1>4, <2>1 DEF ForgottenAfter
  <2>3. QED
    BY <1>3, <2>2, Limits
<1>6. ASSUME NEW v \in later PROVE v \in DOMAIN b /\ Newest(b, v) > z
  <2>1. PICK n \in (z + 1)..((Len(l) + 1) - 1) : l[n].trace = v
    BY DEF ActiveBetween
  <2>2. n \in LinesOf(l, v) /\ n > z /\ n \in 1..Len(l)
    BY <1>1, <1>2, <2>1 DEF LinesOf
  <2>3. ASSUME v \notin DOMAIN b PROVE FALSE
    <3>1. n \notin Kept(l, v)
      BY <1>3, <2>3, Untracked
    <3>2. PICK i \in LinesOf(l, v) : i >= n /\ ForgottenAfter(l, v, i)
      BY <2>2, <3>1 DEF Kept
    <3>3. PICK j \in (i + 1)..(Len(l) + 1) :
              Cardinality(ActiveBetween(l, i, j)) >= MaxTraces
      BY <3>2 DEF ForgottenAfter
    <3>4. i \in 1..Len(l) /\ i > z
      <4>1. i \in 1..Len(l)
        BY <1>2, <3>2 DEF LinesOf
      <4>2. QED
        BY <1>1, <1>2, <2>2, <3>2, <4>1
    <3>5. j \in (z + 1)..(Len(l) + 1) /\ j \in 0..(Len(l) + 1) /\ z <= i
      BY <1>1, <1>2, <3>4
    <3>6. ActiveBetween(l, i, j) \subseteq ActiveBetween(l, z, j)
      BY <1>1, <3>4, <3>5, ActiveWithin
    <3>7. Cardinality(ActiveBetween(l, i, j)) <= Cardinality(ActiveBetween(l, z, j))
      <4>1. IsFiniteSet(ActiveBetween(l, z, j))
        BY <1>1, <3>5, ActiveFacts
      <4>2. QED
        BY <3>6, <4>1, FS_Subset
    <3>8. Cardinality(ActiveBetween(l, i, j)) \in Nat /\ Cardinality(ActiveBetween(l, z, j)) \in Nat
      BY <1>1, <3>4, <3>5, ActiveFacts
    <3>9. Cardinality(ActiveBetween(l, z, j)) >= MaxTraces
      BY <3>3, <3>7, <3>8, Limits
    <3>10. QED
      BY <1>1, <1>4, <3>5, <3>9 DEF ForgottenAfter
  <2>4. v \in DOMAIN b
    BY <2>3
  <2>5. n <= Newest(b, v) /\ Newest(b, v) \in Nat
    BY <2>2, <2>4, LastLine
  <2>6. QED
    BY <1>1, <2>2, <2>4, <2>5
<1>7. ASSUME NEW v \in DOMAIN b, Newest(b, v) > z PROVE v \in later
  <2>1. v # Unset /\ Newest(b, v) \in LinesOf(l, v) /\ Newest(b, v) \in 1..Len(l)
    BY LastLine
  <2>2. l[Newest(b, v)].trace = v
    BY <2>1 DEF LinesOf
  <2>3. Newest(b, v) < Len(l) + 1 /\ z \in Int /\ Len(l) + 1 \in Int /\ Newest(b, v) \in Int
    BY <1>1, <1>2, <2>1
  <2>4. l[Newest(b, v)].trace \in later
    BY <1>7, <2>1, <2>2, <2>3, SpeaksBetween
  <2>5. QED
    BY <2>2, <2>4
<1>8. later = {v \in DOMAIN b : Newest(b, v) > z}
  <2> HIDE DEF later
  <2>1. QED
    BY <1>6, <1>7
<1>9. QED
  BY <1>5, <1>8 DEF z

(***************************************************************************)
(* A line is added.                                                        *)
(***************************************************************************)
\* The least active trace of a buffer has the oldest last line.
LEMMA LeastActiveFacts ==
  ASSUME NEW g, DOMAIN g # {}, \A v \in DOMAIN g : Newest(g, v) \in Nat
  PROVE  /\ LeastActive(g) \in DOMAIN g
         /\ \A v \in DOMAIN g : Newest(g, LeastActive(g)) <= Newest(g, v)
<1> DEFINE ages == {Newest(g, v) : v \in DOMAIN g}
           below == {xy \in Nat \X Nat : xy[1] < xy[2]}
<1>1. PICK a \in ages : \A c \in ages : <<c, a>> \notin below
  <2>1. IsWellFoundedOn(below, Nat)
    BY NatLessThanWellFounded DEF OpToRel
  <2>2. ages \subseteq Nat /\ ages # {}
    OBVIOUS
  <2> HIDE DEF below, ages
  <2>3. QED
    BY <2>1, <2>2, WFMin
<1>2. PICK t \in DOMAIN g : Newest(g, t) = a
  OBVIOUS
<1>3. \A v \in DOMAIN g : Newest(g, t) <= Newest(g, v)
  <2> TAKE v \in DOMAIN g
  <2>1. Newest(g, v) \in ages /\ Newest(g, v) \in Nat /\ a \in Nat
    BY <1>2
  <2> HIDE DEF ages
  <2>2. ~ (Newest(g, v) < a)
    BY <1>1, <2>1
  <2>3. QED
    BY <1>2, <2>1, <2>2
<1>4. QED
  BY <1>2, <1>3 DEF LeastActive, Newest

\* The buffer with the new line, before it is cut to its limit.
LEMMA GrownFacts ==
  ASSUME NEW l \in Seq(Meaning), NEW b, Remembers(b, l), NEW t \in Trace,
         NEW g, g = Grown(b, t, Len(l) + 1)
  PROVE  /\ DOMAIN g = DOMAIN b \cup {t}
         /\ IsFiniteSet(DOMAIN g) /\ Cardinality(DOMAIN g) \in Nat
         /\ Cardinality(DOMAIN g) <= MaxTraces + 1
         /\ g[t] = Push(Bucket(b, t), Len(l) + 1)
         /\ \A u \in DOMAIN b \ {t} : g[u] = b[u] /\ Newest(g, u) = Newest(b, u)
<1>1. /\ DOMAIN g = DOMAIN b \cup {t}
      /\ g[t] = Push(Bucket(b, t), Len(l) + 1)
      /\ \A u \in DOMAIN b \ {t} : g[u] = b[u]
  BY DEF Grown
<1>2. IsFiniteSet(DOMAIN b) /\ Cardinality(DOMAIN b) <= MaxTraces /\ Cardinality(DOMAIN b) \in Nat
  BY FS_CardinalityType DEF Remembers, IsBuffer
<1>3. IsFiniteSet(DOMAIN b \cup {t})
  BY <1>2, FS_AddElement
<1>4. \/ Cardinality(DOMAIN b \cup {t}) = Cardinality(DOMAIN b)
      \/ Cardinality(DOMAIN b \cup {t}) = Cardinality(DOMAIN b) + 1
  BY <1>2, FS_AddElement, ZenonT(30)
<1>5. Cardinality(DOMAIN g) \in Nat /\ Cardinality(DOMAIN g) <= MaxTraces + 1
  BY <1>1, <1>2, <1>4, Limits
<1>6. \A u \in DOMAIN b \ {t} : Newest(g, u) = Newest(b, u)
  BY <1>1 DEF Newest
<1>7. QED
  BY <1>1, <1>3, <1>5, <1>6

\* The bucket of the line's trace.
LEMMA BucketGrown ==
  ASSUME NEW l \in Seq(Meaning), NEW b, Remembers(b, l), NEW t \in Trace
  PROVE  LET e == Push(Bucket(b, t), Len(l) + 1)
         IN  /\ ListsLatest(e, Kept(l, t) \cup {Len(l) + 1})
             /\ e \in Seq(1..(Len(l) + 1)) /\ Len(e) \in 1..MaxLinesPerTrace
             /\ e[Len(e)] = Len(l) + 1
<1> DEFINE s == Bucket(b, t)
           m == Len(l) + 1
           e == Push(s, m)
           K == Kept(l, t)
<1>1. /\ s \in Seq(1..Len(l)) /\ Len(s) <= MaxLinesPerTrace /\ Len(l) \in Nat
      /\ MaxLinesPerTrace \in Nat
  <2>1. CASE t \in DOMAIN b
    BY <2>1, Limits DEF Bucket, Remembers, IsBuffer
  <2>2. CASE t \notin DOMAIN b
    BY <2>2, Limits DEF Bucket
  <2>3. QED
    BY <2>1, <2>2
<1>2. ListsLatest(s, K)
  BY DEF Remembers
<1>3. K \subseteq 1..Len(l)
  BY DEF Kept, LinesOf
<1> HIDE DEF s, K
<1>4. /\ s \in Seq(Nat) /\ K \in SUBSET Nat /\ m \in Nat
      /\ \A n \in K : n < m
  BY <1>1, <1>3
<1>5. Append(s, m) \in Seq(1..m)
  BY <1>1
<1> HIDE DEF m
<1>6. /\ ListsLatest(e, K \cup {m})
      /\ Len(e) \in 1..MaxLinesPerTrace
      /\ e[Len(e)] = m
  BY <1>1, <1>2, <1>4, OneMoreLine
<1>7. e \in Seq(1..m)
  <2> DEFINE a == Append(s, m)
             X == 1..m
  <2>1. e = Latest(a, MaxLinesPerTrace) /\ a \in Seq(X)
    BY <1>5 DEF Push
  <2> HIDE DEF a, X, e
  <2>2. e \in Seq(X)
    BY <1>1, <2>1, LatestFacts
  <2>3. QED
    BY <2>2 DEF X
<1>8. QED
  BY <1>6, <1>7 DEF m, K, s

\* The traces with later lines than u, with t, which is about to have one.
Later(b, u, t) == {v \in DOMAIN b : Newest(b, v) > Newest(b, u)} \cup {t}

\* A trace other than the line's own is evicted if it is the last of more than
\* the buffer can hold.
LEMMA EvictedIsLast ==
  ASSUME NEW l \in Seq(Meaning), NEW b, Remembers(b, l), NEW t \in Trace,
         NEW g, g = Grown(b, t, Len(l) + 1)
  PROVE  \A u \in DOMAIN b \ {t} :
         /\ Cardinality(DOMAIN g) > MaxTraces /\ LeastActive(g) = u
           <=> Cardinality(Later(b, u, t)) >= MaxTraces
         /\ Cardinality(DOMAIN g) > MaxTraces => LeastActive(g) \in DOMAIN b \ {t}
         /\ u \notin Later(b, u, t)
<1>1. Len(l) \in Nat /\ MaxTraces \in Nat \ {0}
  BY Limits
<1>2. \A v \in DOMAIN b : /\ v \in Trace /\ Newest(b, v) \in 1..Len(l)
                          /\ Newest(b, v) \in LinesOf(l, v)
  BY LastLine
<1>3. /\ DOMAIN g = DOMAIN b \cup {t}
      /\ IsFiniteSet(DOMAIN g) /\ Cardinality(DOMAIN g) \in Nat
      /\ Cardinality(DOMAIN g) <= MaxTraces + 1
      /\ \A v \in DOMAIN b \ {t} : Newest(g, v) = Newest(b, v)
  <2>1. DOMAIN g = DOMAIN b \cup {t}
    BY DEF Grown
  <2>2. IsFiniteSet(DOMAIN g) /\ Cardinality(DOMAIN g) \in Nat
    BY GrownFacts
  <2>3. Cardinality(DOMAIN g) <= MaxTraces + 1
    BY GrownFacts
  <2>4. \A v \in DOMAIN b \ {t} : Newest(g, v) = Newest(b, v)
    BY DEF Grown, Newest
  <2>5. QED
    BY <2>1, <2>2, <2>3, <2>4
<1>4. Newest(g, t) = Len(l) + 1
  <2>1. g[t] = Push(Bucket(b, t), Len(l) + 1)
    BY GrownFacts
  <2>2. g[t][Len(g[t])] = Len(l) + 1
    BY <2>1, BucketGrown
  <2>3. QED
    BY <2>2 DEF Newest
<1> TAKE u \in DOMAIN b \ {t}
<1> DEFINE z == Newest(b, u)
           later == Later(b, u, t)
<1> HIDE DEF z
<1>5. z \in 1..Len(l) /\ Newest(g, u) = z
  BY <1>2, <1>3 DEF z
<1>6. later = {v \in DOMAIN b : Newest(b, v) > z} \cup {t}
  BY DEF Later, z
<1> HIDE DEF later
<1>7. later = {v \in DOMAIN g : Newest(g, v) > z}
  <2>1. \A v \in DOMAIN g : v = t \/ v \in DOMAIN b \ {t}
    BY <1>3
  <2>2. Newest(g, t) > z
    BY <1>1, <1>4, <1>5
  <2>3. QED
    BY <1>3, <1>6, <2>1, <2>2
<1>8. \A v \in DOMAIN g : Newest(g, v) \in Nat /\ (Newest(g, v) = z => v = u)
  <2> TAKE v \in DOMAIN g
  <2>1. CASE v = t
    BY <1>1, <1>4, <1>5, <2>1
  <2>2. CASE v \in DOMAIN b \ {t}
    <3>1. Newest(g, v) = Newest(b, v) /\ Newest(b, v) \in 1..Len(l)
      BY <1>2, <1>3, <2>2
    <3>2. l[Newest(b, v)].trace = v /\ l[z].trace = u
      BY <1>2, <2>2 DEF LinesOf, z
    <3>3. QED
      BY <1>1, <3>1, <3>2
  <2>3. QED
    BY <1>3, <2>1, <2>2
<1>9. u \in DOMAIN g /\ u \notin later /\ later \subseteq DOMAIN g
  BY <1>1, <1>3, <1>5, <1>7
<1>10. IsFiniteSet(later) /\ Cardinality(later) \in Nat
  BY <1>3, <1>9, FS_Subset, FS_CardinalityType
<1>11. /\ LeastActive(g) \in DOMAIN g
       /\ \A v \in DOMAIN g : Newest(g, LeastActive(g)) <= Newest(g, v)
  BY <1>8, <1>9, LeastActiveFacts
<1>12. LeastActive(g) # t
  <2>1. z < Len(l) + 1 /\ ~ (Len(l) + 1 <= z)
    BY <1>1, <1>5
  <2>2. QED
    BY <1>4, <1>5, <1>9, <1>11, <2>1
<1>13. ASSUME Cardinality(DOMAIN g) > MaxTraces, LeastActive(g) = u
       PROVE  Cardinality(later) >= MaxTraces
  <2>1. \A v \in DOMAIN g : v # u => Newest(g, v) > z
    BY <1>5, <1>8, <1>11, <1>13
  <2>2. DOMAIN g = later \cup {u}
    BY <1>7, <1>9, <2>1
  <2>3. Cardinality(DOMAIN g) = Cardinality(later) + 1
    BY <1>9, <1>10, <2>2, FS_AddElement, ZenonT(30)
  <2>4. QED
    BY <1>1, <1>3, <1>10, <1>13, <2>3
<1>14. ASSUME Cardinality(later) >= MaxTraces
       PROVE  Cardinality(DOMAIN g) > MaxTraces /\ LeastActive(g) = u
  <2> DEFINE withU == later \cup {u}
  <2>1. /\ IsFiniteSet(withU) /\ Cardinality(withU) = Cardinality(later) + 1
        /\ withU \subseteq DOMAIN g
    BY <1>9, <1>10, FS_AddElement, ZenonT(30)
  <2>2. Cardinality(withU) <= Cardinality(DOMAIN g)
    BY <1>3, <2>1, FS_Subset
  <2>3. Cardinality(DOMAIN g) > MaxTraces
    BY <1>1, <1>3, <1>10, <1>14, <2>1, <2>2
  <2>4. ASSUME LeastActive(g) # u PROVE FALSE
    <3> DEFINE w == LeastActive(g)
               both == withU \cup {w}
    <3>1. w \in DOMAIN g /\ Newest(g, w) <= z /\ Newest(g, w) \in Nat
      BY <1>5, <1>8, <1>9, <1>11
    <3> HIDE DEF w
    <3>2. w \notin later
      BY <1>5, <1>7, <3>1
    <3>3. w \notin withU
      BY <2>4, <3>2 DEF w
    <3> HIDE DEF withU
    <3>4. /\ IsFiniteSet(both) /\ Cardinality(both) = Cardinality(withU) + 1
          /\ both \subseteq DOMAIN g
      BY <2>1, <3>1, <3>3, FS_AddElement, ZenonT(30)
    <3>5. Cardinality(both) <= Cardinality(DOMAIN g)
      BY <1>3, <3>4, FS_Subset
    <3>6. QED
      BY <1>1, <1>3, <1>10, <1>14, <2>1, <3>4, <3>5
  <2>5. QED
    BY <2>3, <2>4
<1>15. QED
  BY <1>3, <1>9, <1>11, <1>12, <1>13, <1>14 DEF later

\* Of the traces other than the line's own, exactly the one that is forgotten
\* by the line is evicted, if any.
LEMMA EvictedIsForgotten ==
  ASSUME NEW l, NEW m, NEW k, IsNext(k, l, m),
         NEW b, Remembers(b, l), m.trace \in Trace, NEW u \in DOMAIN b \ {m.trace}
  PROVE  JustForgotten(k, u, Newest(b, u)) <=> Cardinality(Later(b, u, m.trace)) >= MaxTraces
<1> DEFINE z == Newest(b, u)
<1>1. l \in Seq(Meaning) /\ Len(l) \in Nat /\ Len(k) = Len(l) + 1 /\ m.trace # Unset
  BY NewLine, Limits
<1>2. z \in 0..Len(l)
  BY <1>1, LastLine
<1>3. ActiveBetween(k, z, Len(k) + 1) = ActiveBetween(l, z, Len(k)) \cup ({m.trace} \ {Unset})
  BY <1>2, ActiveUpTo
<1>4. ActiveBetween(l, z, Len(l) + 1) = {v \in DOMAIN b : Newest(b, v) > z}
  BY <1>1, LaterTraces
<1>5. ActiveBetween(k, z, Len(k) + 1) = Later(b, u, m.trace)
  BY <1>1, <1>3, <1>4 DEF Later
<1>6. u \notin Later(b, u, m.trace)
  <2>1. Newest(b, u) \in Nat
    BY <1>1, <1>2
  <2>2. QED
    BY <2>1 DEF Later
<1>7. QED
  BY <1>5, <1>6 DEF JustForgotten

\* What a new line leaves of the lines of another trace.
LEMMA KeptOther ==
  ASSUME NEW l, NEW m, NEW k, IsNext(k, l, m),
         NEW u, m.trace # u
  PROVE  Kept(k, u) = {n \in Kept(l, u) :
                         \A i \in LinesOf(l, u) : i >= n => ~ JustForgotten(k, u, i)}
<1>1. LinesOf(k, u) = LinesOf(l, u) /\ LinesOf(l, u) \subseteq 1..Len(l)
  <2>1. /\ LinesOf(l, u) \subseteq 1..Len(l)
        /\ LinesOf(k, u) \cap (1..Len(l)) = LinesOf(l, u)
        /\ LinesOf(k, u) \subseteq LinesOf(l, u) \cup {Len(k)}
        /\ Len(k) \in LinesOf(k, u) <=> m.trace = u
    BY LinesWithNew
  <2>2. QED
    BY <2>1
<1>2. \A i \in LinesOf(l, u) :
         ForgottenAfter(k, u, i) <=> ForgottenAfter(l, u, i) \/ JustForgotten(k, u, i)
  BY <1>1, NewlyForgotten
<1>3. QED
  BY <1>1, <1>2 DEF Kept

\* And of those of its own.
LEMMA KeptOwn ==
  ASSUME NEW l, NEW m, NEW k, IsNext(k, l, m),
         m.trace \in Trace
  PROVE  Kept(k, m.trace) = Kept(l, m.trace) \cup {Len(k)}
<1> DEFINE t == m.trace
<1>1. Len(l) \in Nat /\ Len(k) = Len(l) + 1 /\ k[Len(k)] = m /\ t # Unset
  BY NewLine, Limits
<1>2. /\ LinesOf(l, t) \subseteq 1..Len(l)
      /\ LinesOf(k, t) \cap (1..Len(l)) = LinesOf(l, t)
      /\ LinesOf(k, t) \subseteq LinesOf(l, t) \cup {Len(k)}
      /\ Len(k) \in LinesOf(k, t)
  BY LinesWithNew
<1>3. \A i \in LinesOf(l, t) : ForgottenAfter(k, t, i) <=> ForgottenAfter(l, t, i)
  <2> TAKE i \in LinesOf(l, t)
  <2>1. i \in 1..Len(l)
    BY <1>2
  <2>2. t \in ActiveBetween(k, i, Len(k) + 1)
    <3>1. i < Len(k) /\ Len(k) < Len(k) + 1 /\ Len(k) \in Int /\ i \in Int /\ Len(k) + 1 \in Int
      BY <1>1, <2>1
    <3>2. k[Len(k)].trace # Unset
      BY <1>1
    <3>3. k[Len(k)].trace \in ActiveBetween(k, i, Len(k) + 1)
      BY <3>1, <3>2, SpeaksBetween
    <3>4. QED
      BY <1>1, <3>3
  <2>3. ~ JustForgotten(k, t, i)
    BY <2>2 DEF JustForgotten
  <2>4. QED
    BY <2>1, <2>3, NewlyForgotten
<1>4. ~ ForgottenAfter(k, t, Len(k))
  BY NewlyForgotten
<1>5. \A i \in LinesOf(l, t) : i \in Nat /\ i < Len(k) /\ i \in LinesOf(k, t)
  BY <1>1, <1>2
<1>6. \A i \in LinesOf(k, t) : i \in LinesOf(l, t) \/ i = Len(k)
  BY <1>2
<1> HIDE DEF t
<1>7. ASSUME NEW n \in Kept(k, t) PROVE n \in Kept(l, t) \cup {Len(k)}
  <2>1. n \in LinesOf(k, t) /\ \A i \in LinesOf(k, t) : i >= n => ~ ForgottenAfter(k, t, i)
    BY DEF Kept
  <2>2. CASE n = Len(k)
    BY <2>2
  <2>3. CASE n \in LinesOf(l, t)
    BY <1>3, <1>5, <2>1, <2>3 DEF Kept
  <2>4. QED
    BY <1>6, <2>1, <2>2, <2>3
<1>8. ASSUME NEW n \in Kept(l, t) PROVE n \in Kept(k, t)
  <2>1. n \in LinesOf(l, t) /\ \A i \in LinesOf(l, t) : i >= n => ~ ForgottenAfter(l, t, i)
    BY DEF Kept
  <2>2. \A i \in LinesOf(k, t) : i >= n => ~ ForgottenAfter(k, t, i)
    BY <1>3, <1>4, <1>6, <2>1
  <2>3. QED
    BY <1>5, <2>1, <2>2 DEF Kept
<1>9. Len(k) \in Kept(k, t)
  <2>1. \A i \in LinesOf(k, t) : i >= Len(k) => i = Len(k)
    BY <1>1, <1>5, <1>6
  <2>2. QED
    BY <1>2, <1>4, <2>1 DEF Kept
<1>10. QED
  BY <1>7, <1>8, <1>9 DEF t

\* A line from outside of any trace changes nothing.
LEMMA OutsideKeeps ==
  ASSUME NEW l, NEW m, NEW k, IsNext(k, l, m),
         NEW b, Remembers(b, l), m.trace = Unset
  PROVE  Remembers(b, k)
<1>1. Len(l) \in Nat /\ Len(k) = Len(l) + 1 /\ DOMAIN l \subseteq DOMAIN k
  BY NewLine
<1>2. ASSUME NEW u \in Trace PROVE Kept(k, u) = Kept(l, u)
  <2>1. m.trace # u
    BY Limits
  <2>2. LinesOf(l, u) \subseteq 1..Len(l)
    BY DEF LinesOf
  <2>3. \A i \in LinesOf(l, u) : JustForgotten(k, u, i) => ForgottenAfter(l, u, i)
    <3> TAKE i \in LinesOf(l, u)
    <3>1. i \in 0..Len(l) /\ Len(l) + 1 \in (i + 1)..(Len(l) + 1)
      BY <1>1, <2>2
    <3>2. ActiveBetween(k, i, Len(k) + 1) = ActiveBetween(l, i, Len(k)) \cup ({m.trace} \ {Unset})
      BY <3>1, ActiveUpTo
    <3>3. ActiveBetween(k, i, Len(k) + 1) = ActiveBetween(l, i, Len(l) + 1)
      BY <1>1, <3>2
    <3>4. QED
      BY <3>1, <3>3 DEF JustForgotten, ForgottenAfter
  <2>4. \A n \in Kept(l, u) : \A i \in LinesOf(l, u) : i >= n => ~ JustForgotten(k, u, i)
    BY <2>3 DEF Kept
  <2>5. Kept(k, u) = {n \in Kept(l, u) :
                         \A i \in LinesOf(l, u) : i >= n => ~ JustForgotten(k, u, i)}
    BY <2>1, KeptOther
  <2>6. QED
    BY <2>4, <2>5
<1>3. \A t \in DOMAIN b : b[t] \in Seq(DOMAIN k)
  <2> TAKE t \in DOMAIN b
  <2>1. b[t] \in Seq(DOMAIN l)
    BY DEF Remembers, IsBuffer
  <2> DEFINE s == b[t]
             A == DOMAIN l
             B == DOMAIN k
  <2>2. s \in Seq(A) /\ A \subseteq B
    BY <1>1, <2>1
  <2> HIDE DEF s, A, B
  <2>3. s \in Seq(B)
    BY <2>2
  <2>4. QED
    BY <2>3 DEF s, B
<1>4. IsBuffer(b, k)
  BY <1>3 DEF Remembers, IsBuffer
<1>5. \A u \in Trace : ListsLatest(Bucket(b, u), Kept(k, u))
  BY <1>2 DEF Remembers
<1>6. QED
  BY <1>4, <1>5 DEF Remembers

\* A line of a trace changes the buffer the way it changes what is kept.
LEMMA InsideKeeps ==
  ASSUME NEW l, NEW m, NEW k, IsNext(k, l, m), NEW b, Remembers(b, l), m.trace \in Trace
  PROVE  Remembers(Add(b, m.trace, Len(k)), k)
<1> DEFINE t == m.trace
           g == Grown(b, t, Len(k))
           full == Cardinality(DOMAIN g) > MaxTraces
           c == Add(b, t, Len(k))
<1>1. /\ l \in Seq(Meaning) /\ Len(l) \in Nat /\ Len(k) = Len(l) + 1
      /\ DOMAIN l = 1..Len(l) /\ DOMAIN k = 1..Len(k)
  BY NewLine
<1>2. t \in Trace /\ t # NoTrace
  BY Limits
<1>3. Kept(k, t) = Kept(l, t) \cup {Len(k)}
  BY KeptOwn
<1>4. \A u \in DOMAIN b \ {t} :
         JustForgotten(k, u, Newest(b, u)) <=> Cardinality(Later(b, u, t)) >= MaxTraces
  BY EvictedIsForgotten
<1>5. \A u : u # t => Kept(k, u) = {n \in Kept(l, u) :
                  \A i \in LinesOf(l, u) : i >= n => ~ JustForgotten(k, u, i)}
  BY KeptOther
<1>6. \A i \in 0..Len(l) :
         ActiveBetween(k, i, Len(k) + 1) = ActiveBetween(l, i, Len(k)) \cup ({t} \ {Unset})
  BY ActiveUpTo
<1> HIDE DEF t
<1>7. /\ DOMAIN g = DOMAIN b \cup {t}
      /\ g[t] = Push(Bucket(b, t), Len(k))
      /\ \A u \in DOMAIN b \ {t} : g[u] = b[u]
  BY DEF Grown
<1>8. IsFiniteSet(DOMAIN g) /\ Cardinality(DOMAIN g) \in Nat /\ Cardinality(DOMAIN g) <= MaxTraces + 1
  <2>1. \A h : h = Grown(b, t, Len(l) + 1) =>
           IsFiniteSet(DOMAIN h) /\ Cardinality(DOMAIN h) \in Nat /\ Cardinality(DOMAIN h) <= MaxTraces + 1
    BY <1>1, <1>2, GrownFacts
  <2>2. QED
    BY <1>1, <2>1
<1>9. \A u \in DOMAIN b \ {t} :
         /\ full /\ LeastActive(g) = u <=> Cardinality(Later(b, u, t)) >= MaxTraces
         /\ full => LeastActive(g) \in DOMAIN b \ {t}
  <2>1. \A h : h = Grown(b, t, Len(l) + 1) =>
           \A u \in DOMAIN b \ {t} :
             /\ Cardinality(DOMAIN h) > MaxTraces /\ LeastActive(h) = u
                  <=> Cardinality(Later(b, u, t)) >= MaxTraces
             /\ Cardinality(DOMAIN h) > MaxTraces => LeastActive(h) \in DOMAIN b \ {t}
    BY <1>1, <1>2, EvictedIsLast
  <2>2. QED
    BY <1>1, <2>1
<1> DEFINE e == Push(Bucket(b, t), Len(k))
<1>10. /\ ListsLatest(e, Kept(k, t))
       /\ e \in Seq(1..Len(k)) /\ Len(e) \in 1..MaxLinesPerTrace
  BY <1>1, <1>2, <1>3, BucketGrown
<1> HIDE DEF e, g, full
\* The traces left in the buffer.
<1>11. ASSUME full PROVE LeastActive(g) \in DOMAIN b \ {t}
  <2>1. CASE DOMAIN b \ {t} # {}
    BY <1>9, <1>11, <2>1
  <2>2. CASE DOMAIN b \ {t} = {}
    <3>1. DOMAIN g = {t}
      BY <1>7, <2>2
    <3>2. Cardinality(DOMAIN g) = 1
      BY <3>1, FS_Singleton
    <3>3. QED
      BY <1>11, <3>2, Limits DEF full
  <2>3. QED
    BY <2>1, <2>2
<1> DEFINE left == IF full THEN DOMAIN g \ {LeastActive(g)} ELSE DOMAIN g
<1>12. DOMAIN c = left /\ \A u \in left : c[u] = g[u]
  <2>1. CASE full
    <3>1. c = [u \in DOMAIN g \ {LeastActive(g)} |-> g[u]]
      BY <1>2, <2>1 DEF Add, g, full, Evict
    <3>2. QED
      BY <2>1, <3>1
  <2>2. CASE ~ full
    <3>1. c = g
      BY <1>2, <2>2 DEF Add, g, full
    <3>2. QED
      BY <2>2, <3>1
  <2>3. QED
    BY <2>1, <2>2
<1>13. /\ left \subseteq Trace /\ IsFiniteSet(left) /\ Cardinality(left) <= MaxTraces
       /\ t \in left
  <2>1. DOMAIN g \subseteq Trace
    BY <1>2, <1>7 DEF Remembers, IsBuffer
  <2>2. CASE full
    <3>1. LeastActive(g) \in DOMAIN g /\ LeastActive(g) # t
      BY <1>7, <1>11, <2>2
    <3>2. /\ IsFiniteSet(DOMAIN g \ {LeastActive(g)})
          /\ Cardinality(DOMAIN g \ {LeastActive(g)}) = Cardinality(DOMAIN g) - 1
      BY <1>8, <3>1, FS_RemoveElement
    <3>3. QED
      BY <1>7, <1>8, <2>1, <2>2, <3>1, <3>2, Limits
  <2>3. CASE ~ full
    BY <1>7, <1>8, <2>1, <2>3, Limits DEF full
  <2>4. QED
    BY <2>2, <2>3
<1>14. \A u \in left : u = t \/ u \in DOMAIN b \ {t}
  BY <1>7
<1> HIDE DEF left, c
<1>15. ASSUME NEW u \in left
       PROVE  c[u] \in Seq(DOMAIN k) /\ Len(c[u]) \in 1..MaxLinesPerTrace
  <2>1. CASE u = t
    <3>1. c[u] = e
      BY <1>7, <1>12, <2>1 DEF e
    <3>2. QED
      BY <1>1, <1>10, <3>1
  <2>2. CASE u # t
    <3>1. u \in DOMAIN b \ {t} /\ c[u] = b[u]
      BY <1>7, <1>12, <1>14, <2>2
    <3>2. b[u] \in Seq(DOMAIN l) /\ Len(b[u]) \in 1..MaxLinesPerTrace
      BY <3>1 DEF Remembers, IsBuffer
    <3>3. ASSUME NEW A, NEW B, A \subseteq B, NEW x \in Seq(A) PROVE x \in Seq(B)
      BY <3>3
    <3>4. DOMAIN l \subseteq DOMAIN k
      BY <1>1
    <3>5. b[u] \in Seq(DOMAIN k)
      BY <3>2, <3>3, <3>4
    <3>6. QED
      BY <3>1, <3>2, <3>5
  <2>3. QED
    BY <2>1, <2>2
<1>16. IsBuffer(c, k)
  BY <1>12, <1>13, <1>15 DEF IsBuffer
\* What they list.
<1>17. ASSUME NEW u \in DOMAIN b \ {t}, u \in left PROVE Kept(k, u) = Kept(l, u)
  <2> DEFINE z == Newest(b, u)
  <2>1. /\ z \in LinesOf(l, u) /\ z \in 1..Len(l) /\ u # Unset
        /\ \A x \in LinesOf(l, u) : x <= z
    BY <1>1, LastLine
  <2> HIDE DEF z
  <2>2. ~ JustForgotten(k, u, z)
    <3>1. ~ (full /\ LeastActive(g) = u)
      BY <1>17 DEF left
    <3>2. QED
      BY <1>4, <1>9, <3>1 DEF z
  <2>3. \A i \in LinesOf(l, u) : ~ JustForgotten(k, u, i)
    <3> TAKE i \in LinesOf(l, u)
    <3>1. CASE i = z
      BY <2>2, <3>1
    <3>2. CASE i # z
      <4>1. i \in 1..Len(l) /\ i < z
        BY <1>1, <2>1, <3>2 DEF LinesOf
      <4>2. l[z].trace = u /\ i \in Int /\ z \in Int /\ Len(k) \in Int /\ z < Len(k)
        BY <1>1, <2>1, <4>1 DEF LinesOf
      <4>3. u \in ActiveBetween(l, i, Len(k))
        <5>1. l[z].trace \in ActiveBetween(l, i, Len(k))
          BY <2>1, <4>1, <4>2, SpeaksBetween
        <5>2. QED
          BY <4>2, <5>1
      <4>4. u \in ActiveBetween(k, i, Len(k) + 1)
        <5>1. i \in 0..Len(l)
          BY <1>1, <4>1
        <5>2. QED
          BY <1>6, <4>3, <5>1
      <4>5. QED
        BY <4>4 DEF JustForgotten
    <3>3. QED
      BY <3>1, <3>2
  <2>4. u # t
    OBVIOUS
  <2>5. Kept(k, u) = {n \in Kept(l, u) :
                  \A i \in LinesOf(l, u) : i >= n => ~ JustForgotten(k, u, i)}
    BY <1>5, <2>4
  <2>6. QED
    BY <2>3, <2>5
<1>18. ASSUME NEW u \in Trace, u \notin left PROVE Kept(k, u) = {}
  <2>1. u # t
    BY <1>13, <1>18
  <2>2. Kept(k, u) = {n \in Kept(l, u) :
                  \A i \in LinesOf(l, u) : i >= n => ~ JustForgotten(k, u, i)}
    BY <1>5, <2>1
  <2>3. CASE u \notin DOMAIN b
    <3>1. Kept(l, u) = {}
      BY <1>1, <2>3, Untracked
    <3>2. QED
      BY <2>2, <3>1
  <2>4. CASE u \in DOMAIN b
    <3> DEFINE z == Newest(b, u)
    <3>1. /\ z \in LinesOf(l, u) /\ \A x \in LinesOf(l, u) : x <= z
          /\ LinesOf(l, u) \subseteq 1..Len(l)
      BY <1>1, <2>4, LastLine DEF LinesOf
    <3>2. full /\ LeastActive(g) = u
      BY <1>7, <1>18, <2>4 DEF left
    <3>3. JustForgotten(k, u, z)
      BY <1>4, <1>9, <2>1, <2>4, <3>2
    <3> HIDE DEF z
    <3>4. \A n \in Kept(l, u) : z >= n
      BY <1>1, <3>1 DEF Kept
    <3>5. QED
      BY <2>2, <3>1, <3>3, <3>4
  <2>5. QED
    BY <2>3, <2>4
<1>19. ASSUME NEW u \in Trace PROVE ListsLatest(Bucket(c, u), Kept(k, u))
  <2>1. CASE u = t
    <3>1. Bucket(c, u) = e
      BY <1>7, <1>12, <1>13, <2>1 DEF e, Bucket
    <3>2. QED
      BY <1>10, <2>1, <3>1
  <2>2. CASE u \in left /\ u # t
    <3>1. u \in DOMAIN b \ {t} /\ Bucket(c, u) = Bucket(b, u)
      BY <1>7, <1>12, <1>14, <2>2 DEF Bucket
    <3>2. Kept(k, u) = Kept(l, u)
      BY <1>17, <2>2, <3>1
    <3>3. ListsLatest(Bucket(b, u), Kept(l, u))
      BY DEF Remembers
    <3>4. QED
      BY <3>1, <3>2, <3>3
  <2>3. CASE u \notin left
    <3>1. Bucket(c, u) = <<>>
      BY <1>12, <2>3 DEF Bucket
    <3>2. Kept(k, u) = {}
      BY <1>18, <2>3
    <3>3. QED
      BY <3>1, <3>2 DEF ListsLatest
  <2>4. QED
    BY <2>1, <2>2, <2>3
<1>20. Remembers(c, k)
  BY <1>16, <1>19 DEF Remembers
<1>21. QED
  BY <1>20 DEF c, t

\* Whatever the line, if the id names its trace.
LEMMA LineKeeps ==
  ASSUME NEW l, NEW m, NEW k, IsNext(k, l, m), NEW b, Remembers(b, l),
         NEW id, Names(id, m.trace)
  PROVE  Remembers(Add(b, id, Len(k)), k)
<1>1. CASE id = NoTrace
  <2>1. m.trace = Unset
    BY <1>1 DEF Names
  <2>2. Add(b, id, Len(k)) = b
    BY <1>1 DEF Add
  <2>3. Remembers(b, k)
    BY <2>1, OutsideKeeps
  <2>4. QED
    BY <2>2, <2>3
<1>2. CASE id # NoTrace
  <2>1. m.trace = id /\ m.trace \in Trace
    BY <1>2 DEF Names
  <2>2. Remembers(Add(b, m.trace, Len(k)), k)
    BY <2>1, InsideKeeps
  <2>3. QED
    BY <2>1, <2>2
<1>3. QED
  BY <1>1, <1>2

(***************************************************************************)
(* The lines of an export are absorbed.                                    *)
(***************************************************************************)
\* f[k] is the buffer after k of the lines.
AfterEach(f, n, b, ids, first) ==
    f = [k \in 0..n |-> IF k = 0 THEN b ELSE Add(f[k - 1], ids[k], first + k)]

\* The buffer after each line is well defined.
LEMMA AfterExists ==
  ASSUME NEW b, NEW ids, NEW first
  PROVE  \A n \in Nat : \E f : AfterEach(f, n, b, ids, first)
<1> DEFINE S == {n \in Nat : \E f : AfterEach(f, n, b, ids, first)}
<1>1. 0 \in S
  <2> DEFINE f == [k \in 0..0 |-> b]
  <2>1. \A k \in 0..0 : k = 0
    OBVIOUS
  <2>2. f = [k \in 0..0 |-> IF k = 0 THEN b ELSE Add(f[k - 1], ids[k], first + k)]
    BY <2>1
  <2>3. AfterEach(f, 0, b, ids, first)
    BY <2>2 DEF AfterEach
  <2>4. QED
    BY <2>3
<1>2. ASSUME NEW n \in Nat, n \in S PROVE n + 1 \in S
  <2>1. PICK f : AfterEach(f, n, b, ids, first)
    BY <1>2
  <2> DEFINE g == [k \in 0..(n + 1) |->
                     IF k = n + 1 THEN Add(f[n], ids[n + 1], first + (n + 1)) ELSE f[k]]
             h == [k \in 0..(n + 1) |-> IF k = 0 THEN b ELSE Add(g[k - 1], ids[k], first + k)]
  <2>2. \A k \in 0..n : f[k] = IF k = 0 THEN b ELSE Add(f[k - 1], ids[k], first + k)
    BY <2>1 DEF AfterEach
  <2>3. ASSUME NEW k \in 0..(n + 1) PROVE g[k] = h[k]
    <3>1. CASE k = n + 1
      <4>1. k # 0 /\ k - 1 = n /\ n \in 0..(n + 1) /\ n # n + 1
        BY <3>1
      <4>2. g[k] = Add(f[n], ids[n + 1], first + (n + 1)) /\ g[n] = f[n]
        BY <3>1, <4>1
      <4>3. h[k] = Add(g[n], ids[n + 1], first + (n + 1))
        BY <3>1, <4>1
      <4>4. QED
        BY <4>2, <4>3
    <3>2. CASE k = 0
      <4>1. k # n + 1 /\ k \in 0..n
        BY <3>2
      <4>2. QED
        BY <2>2, <3>2, <4>1
    <3>3. CASE k # n + 1 /\ k # 0
      <4>1. k \in 0..n /\ k - 1 \in 0..(n + 1) /\ k - 1 # n + 1
        BY <3>3
      <4>2. g[k] = f[k] /\ g[k - 1] = f[k - 1]
        BY <3>3, <4>1
      <4>3. h[k] = Add(g[k - 1], ids[k], first + k)
        BY <3>3
      <4>4. f[k] = Add(f[k - 1], ids[k], first + k)
        BY <2>2, <3>3, <4>1
      <4>5. QED
        BY <4>2, <4>3, <4>4
    <3>4. QED
      BY <3>1, <3>2, <3>3
  <2>4. g = h
    BY <2>3
  <2>5. AfterEach(g, n + 1, b, ids, first)
    BY <2>4 DEF AfterEach
  <2>6. QED
    BY <2>5
<1>3. \A n \in Nat : n \in S => n + 1 \in S
  BY <1>2
<1>4. Nat \subseteq S
  <2> HIDE DEF S
  <2>1. QED
    BY <1>1, <1>3, Counting
<1>5. QED
  BY <1>4

\* The log with the first n of some lines.
Begun(l, news, n) ==
    [i \in 1..(Len(l) + n) |-> IF i <= Len(l) THEN l[i] ELSE news[i - Len(l)]]

\* The lines are appended one by one, from none of them to all.
LEMMA BegunFacts ==
  ASSUME NEW l \in Seq(Meaning), NEW news \in Seq(Meaning)
  PROVE  /\ Begun(l, news, 0) = l
         /\ Begun(l, news, Len(news)) = l \o news
         /\ \A n \in Nat : n + 1 <= Len(news) =>
               /\ IsNext(Begun(l, news, n + 1), Begun(l, news, n), news[n + 1])
               /\ Len(Begun(l, news, n + 1)) = Len(l) + (n + 1)
<1>1. Len(l) \in Nat /\ Len(news) \in Nat
  OBVIOUS
<1>2. Begun(l, news, 0) = l
  <2>1. l = [i \in 1..Len(l) |-> l[i]] /\ 1..(Len(l) + 0) = 1..Len(l)
    OBVIOUS
  <2>2. \A i \in 1..Len(l) : i <= Len(l)
    OBVIOUS
  <2>3. QED
    BY <2>1, <2>2 DEF Begun
<1>3. ASSUME NEW n \in Nat, n <= Len(news)
      PROVE  /\ Begun(l, news, n) \in Seq(Meaning)
             /\ Len(Begun(l, news, n)) = Len(l) + n
  <2>1. \A i \in 1..(Len(l) + n) : i <= Len(l) => i \in 1..Len(l)
    BY <1>1
  <2>2. \A i \in 1..(Len(l) + n) : ~ (i <= Len(l)) => i - Len(l) \in 1..Len(news)
    BY <1>1, <1>3
  <2>3. Begun(l, news, n) \in [1..(Len(l) + n) -> Meaning]
    BY <2>1, <2>2 DEF Begun
  <2>4. Len(l) + n \in Nat
    BY <1>1
  <2>5. QED
    BY <2>3, <2>4, IsASeq
<1>4. Begun(l, news, Len(news)) = l \o news
  <2> DEFINE x == Begun(l, news, Len(news))
             y == l \o news
  <2>1. x \in Seq(Meaning) /\ Len(x) = Len(l) + Len(news)
    BY <1>1, <1>3
  <2>2. /\ y \in Seq(Meaning) /\ Len(y) = Len(l) + Len(news)
        /\ \A i \in 1..(Len(l) + Len(news)) :
              y[i] = IF i <= Len(l) THEN l[i] ELSE news[i - Len(l)]
    BY <1>1, ConcatProperties
  <2>3. \A i \in 1..(Len(l) + Len(news)) :
           x[i] = IF i <= Len(l) THEN l[i] ELSE news[i - Len(l)]
    BY DEF Begun
  <2> HIDE DEF x, y
  <2>4. \A i \in 1..Len(x) : x[i] = y[i]
    BY <2>1, <2>2, <2>3
  <2>5. x = y
    BY <2>1, <2>2, <2>4, SeqEqual
  <2>6. QED
    BY <2>5 DEF x, y
<1>5. ASSUME NEW n \in Nat, n + 1 <= Len(news)
      PROVE  /\ IsNext(Begun(l, news, n + 1), Begun(l, news, n), news[n + 1])
             /\ Len(Begun(l, news, n + 1)) = Len(l) + (n + 1)
  <2> DEFINE x == Begun(l, news, n)
             y == Begun(l, news, n + 1)
             m == news[n + 1]
  <2>1. /\ x \in Seq(Meaning) /\ Len(x) = Len(l) + n
        /\ y \in Seq(Meaning) /\ Len(y) = Len(l) + (n + 1)
    <3>1. n <= Len(news) /\ n + 1 \in Nat
      BY <1>1, <1>5
    <3>2. QED
      BY <1>3, <1>5, <3>1
  <2>2. m \in Meaning
    BY <1>1, <1>5
  <2>3. \A i \in 1..(Len(l) + n) : y[i] = x[i]
    BY <1>1 DEF Begun
  <2>4. y[Len(l) + (n + 1)] = m
    <3>1. /\ Len(l) + (n + 1) \in 1..(Len(l) + (n + 1)) /\ ~ (Len(l) + (n + 1) <= Len(l))
          /\ (Len(l) + (n + 1)) - Len(l) = n + 1
      BY <1>1
    <3>2. QED
      BY <3>1 DEF Begun
  <2> HIDE DEF x, y, m
  <2>5. y = Append(x, m)
    <3>1. /\ Append(x, m) \in Seq(Meaning) /\ Len(Append(x, m)) = Len(x) + 1
          /\ \A i \in 1..Len(x) : Append(x, m)[i] = x[i]
          /\ Append(x, m)[Len(x) + 1] = m
      BY <2>1, <2>2, AppendProperties
    <3>2. \A i \in 1..Len(y) : y[i] = Append(x, m)[i]
      BY <1>1, <2>1, <2>3, <2>4, <3>1
    <3>3. Len(y) = Len(Append(x, m))
      BY <1>1, <2>1, <3>1
    <3>4. QED
      BY <2>1, <3>1, <3>2, <3>3, SeqEqual
  <2>6. QED
    BY <2>1, <2>2, <2>5 DEF IsNext, x, y, m
<1>6. QED
  BY <1>2, <1>4, <1>5

\* The pairs of lines and ids are absorbed one by one.
LEMMA AbsorbKeeps ==
  ASSUME NEW c \in Nat, NEW X, NEW lines \in [1..c -> X], NEW ids, DOMAIN ids = 1..c,
         NEW news \in Seq(Meaning), Len(news) = c,
         \A i \in 1..c : Names(ids[i], news[i].trace),
         log \in Seq(Meaning), Remembers(buffer, log)
  PROVE  Remembers(Absorb(lines, ids, Len(log)), log \o news)
<1> DEFINE After(f) == AfterEach(f, c, buffer, ids, Len(log))
           f == CHOOSE f : After(f)
<1>1. Absorb(lines, ids, Len(log)) = f[c]
  <2>1. DOMAIN lines \cap DOMAIN ids = 1..c /\ {0} \cup (1..c) = 0..c
    OBVIOUS
  <2>2. Cardinality(1..c) = c
    BY FS_Interval
  <2>3. QED
    BY <2>1, <2>2 DEF Absorb, AfterEach
<1>2. After(f)
  BY AfterExists
<1> HIDE DEF f
<1>3. f[0] = buffer /\ \A n \in 1..c : f[n] = Add(f[n - 1], ids[n], Len(log) + n)
  <2>1. f = [k \in 0..c |-> IF k = 0 THEN buffer ELSE Add(f[k - 1], ids[k], Len(log) + k)]
    BY <1>2 DEF AfterEach
  <2>2. 0 \in 0..c /\ \A n \in 1..c : n \in 0..c /\ n # 0
    OBVIOUS
  <2>3. QED
    BY <2>1, <2>2
<1> DEFINE S == {n \in Nat : n <= c => Remembers(f[n], Begun(log, news, n))}
<1>4. 0 \in S
  BY <1>3, BegunFacts
<1>5. ASSUME NEW n \in Nat, n \in S PROVE n + 1 \in S
  <2> SUFFICES ASSUME n + 1 <= c PROVE Remembers(f[n + 1], Begun(log, news, n + 1))
    OBVIOUS
  <2>1. n <= c /\ n + 1 \in 1..c /\ (n + 1) - 1 = n
    OBVIOUS
  <2>2. Remembers(f[n], Begun(log, news, n))
    BY <1>5, <2>1
  <2>3. f[n + 1] = Add(f[n], ids[n + 1], Len(log) + (n + 1))
    BY <1>3, <2>1
  <2>4. /\ IsNext(Begun(log, news, n + 1), Begun(log, news, n), news[n + 1])
        /\ Len(Begun(log, news, n + 1)) = Len(log) + (n + 1)
    BY BegunFacts
  <2>5. Names(ids[n + 1], news[n + 1].trace)
    BY <2>1
  <2>6. Remembers(Add(f[n], ids[n + 1], Len(Begun(log, news, n + 1))), Begun(log, news, n + 1))
    BY <2>2, <2>4, <2>5, LineKeeps
  <2>7. QED
    BY <2>3, <2>4, <2>6
<1>6. \A n \in Nat : n \in S => n + 1 \in S
  BY <1>5
<1>7. c \in S
  <2> HIDE DEF S
  <2>1. QED
    BY <1>4, <1>6, Counting
<1>8. Remembers(f[c], Begun(log, news, c))
  BY <1>7
<1>9. Begun(log, news, c) = log \o news
  BY BegunFacts
<1>10. QED
  BY <1>1, <1>8, <1>9

(***************************************************************************)
(* What an export adds to the log and to the queue.                        *)
(***************************************************************************)
\* What was meant by the lines of a batch, and the errors it brings.
NewLines(batch) ==
    [k \in DOMAIN Lines(Decode(batch)) |-> Meant(batch[Lines(Decode(batch))[k]])]

Arrivals(batch) ==
    [k \in DOMAIN Events(Decode(batch)) |->
        [trace |-> Decode(batch)[Events(Decode(batch))[k]].trace,
         meant |-> Meant(batch[Events(Decode(batch))[k]])]]

Waiting == [trace : Trace \cup {NoTrace}, meant : Meaning]

\* An error that is one, under the trace it was sent with.
Genuine(e) == Names(e.trace, e.meant.trace) /\ e.meant.error

\* The lines of a batch are no errors, and the second pass over the records
\* finds the trace of each.
LEMMA NewLinesFacts ==
  ASSUME NEW n \in Nat, NEW batch \in [1..n -> Record],
         Encoded(batch, "protobuf") \/ Encoded(batch, "json")
  PROVE  /\ NewLines(batch) \in Seq(Meaning)
         /\ Len(NewLines(batch)) \in 0..n
         /\ Lines(Decode(batch)) \in [1..Len(NewLines(batch)) -> 1..n]
         /\ DOMAIN TraceIds(Decode(batch)) = 1..Len(NewLines(batch))
         /\ \A k \in 1..Len(NewLines(batch)) :
               /\ Names(TraceIds(Decode(batch))[k], NewLines(batch)[k].trace)
               /\ ~ NewLines(batch)[k].error
<1> DEFINE d == Decode(batch)
           P == {i \in DOMAIN d : IsLine(d[i])}
           c == Cardinality(P)
           s == Lines(d)
           news == NewLines(batch)
<1>1. DOMAIN d = 1..n /\ \A i \in 1..n : Tells(d[i], batch[i])
  BY DecodeFacts
<1>2. c \in Nat /\ c <= n /\ s \in [1..c -> P]
  <2>1. P \in SUBSET (1..n)
    BY <1>1
  <2> HIDE DEF P
  <2>2. s = InOrder(P)
    BY DEF Lines, P
  <2>3. QED
    BY <2>1, <2>2, InOrderFacts
<1>3. \A i \in P : i \in 1..n /\ Tells(d[i], batch[i]) /\ ~ IsError(d[i])
  BY <1>1 DEF IsLine
<1>4. news = [k \in 1..c |-> Meant(batch[s[k]])]
  BY <1>2 DEF NewLines
<1>5. TraceIds(d) = [k \in 1..c |-> d[s[k]].trace]
  BY <1>2 DEF TraceIds
<1> HIDE DEF d, P, c, s
<1>6. \A k \in 1..c : s[k] \in P
  BY <1>2
<1>7. \A k \in 1..c : Meant(batch[s[k]]) \in Meaning
  BY <1>3, <1>6 DEF Tells
<1>8. news \in [1..c -> Meaning]
  BY <1>4, <1>7
<1>9. news \in Seq(Meaning) /\ Len(news) = c
  BY <1>2, <1>8, IsASeq
<1>10. ASSUME NEW k \in 1..c
       PROVE  Names(TraceIds(d)[k], news[k].trace) /\ ~ news[k].error
  <2>1. Tells(d[s[k]], batch[s[k]]) /\ ~ IsError(d[s[k]])
    BY <1>3, <1>6
  <2>2. news[k] = Meant(batch[s[k]]) /\ TraceIds(d)[k] = d[s[k]].trace
    BY <1>4, <1>5
  <2>3. QED
    BY <2>1, <2>2 DEF Tells
<1> HIDE DEF news
<1>11. s \in [1..c -> 1..n]
  BY <1>2, <1>3
<1>12. DOMAIN TraceIds(d) = 1..c
  BY <1>5
<1>13. /\ news \in Seq(Meaning) /\ Len(news) \in 0..n /\ s \in [1..Len(news) -> 1..n]
       /\ DOMAIN TraceIds(d) = 1..Len(news)
       /\ \A k \in 1..Len(news) : Names(TraceIds(d)[k], news[k].trace) /\ ~ news[k].error
  BY <1>2, <1>9, <1>10, <1>11, <1>12
<1>14. QED
  BY <1>13 DEF news, s, d

\* The events of a batch are errors, each with the trace it was sent with.
LEMMA ArrivalsFacts ==
  ASSUME NEW n \in Nat, NEW batch \in [1..n -> Record],
         Encoded(batch, "protobuf") \/ Encoded(batch, "json")
  PROVE  /\ Arrivals(batch) \in Seq(Waiting)
         /\ Len(Events(Decode(batch))) = Len(Arrivals(batch))
         /\ \A k \in 1..Len(Arrivals(batch)) : Genuine(Arrivals(batch)[k])
<1> DEFINE d == Decode(batch)
           P == {i \in DOMAIN d : IsError(d[i])}
           c == Cardinality(P)
           s == Events(d)
           e == Arrivals(batch)
<1>1. DOMAIN d = 1..n /\ \A i \in 1..n : Tells(d[i], batch[i])
  BY DecodeFacts
<1>2. c \in Nat /\ s \in [1..c -> P] /\ Len(s) = c
  <2>1. P \in SUBSET (1..n)
    BY <1>1
  <2> HIDE DEF P
  <2>2. s = InOrder(P)
    BY DEF Events, P
  <2>3. QED
    BY <2>1, <2>2, InOrderFacts
<1>3. \A i \in P : Tells(d[i], batch[i]) /\ IsError(d[i])
  BY <1>1
<1>4. e = [k \in 1..c |-> [trace |-> d[s[k]].trace, meant |-> Meant(batch[s[k]])]]
  BY <1>2 DEF Arrivals
<1> HIDE DEF d, P, c, s
<1>5. ASSUME NEW k \in 1..c
      PROVE  e[k] \in Waiting /\ Genuine(e[k])
  <2>1. s[k] \in P
    BY <1>2
  <2>2. Tells(d[s[k]], batch[s[k]]) /\ IsError(d[s[k]])
    BY <1>3, <2>1
  <2>3. /\ Names(d[s[k]].trace, Meant(batch[s[k]]).trace)
        /\ Meant(batch[s[k]]) \in Meaning /\ Meant(batch[s[k]]).error
    BY <2>2 DEF Tells
  <2>4. e[k] = [trace |-> d[s[k]].trace, meant |-> Meant(batch[s[k]])]
    BY <1>4
  <2>5. d[s[k]].trace \in Trace \cup {NoTrace}
    BY <2>3 DEF Names
  <2>6. QED
    BY <2>3, <2>4, <2>5 DEF Waiting, Genuine
<1>6. e \in [1..c -> Waiting]
  BY <1>4, <1>5
<1> HIDE DEF e
<1>7. e \in Seq(Waiting) /\ Len(e) = c
  BY <1>2, <1>6, IsASeq
<1>8. e \in Seq(Waiting) /\ Len(s) = Len(e) /\ \A k \in 1..Len(e) : Genuine(e[k])
  BY <1>2, <1>5, <1>7
<1>9. QED
  BY <1>8 DEF e, s, d

(***************************************************************************)
(* The invariant.                                                          *)
(***************************************************************************)
\* The errors that wait are genuine, and the buffer is faithful to the log;
\* TypeOK's bound on the buffer needs its finiteness, which Remembers adds.
CtxInv ==
    /\ TypeOK
    /\ Remembers(buffer, log)
    /\ \A i \in DOMAIN queue : Genuine(queue[i])
    /\ \A i \in DOMAIN log : ~ log[i].error
    /\ NothingStitched

\* An empty buffer is faithful to an empty log.
LEMMA Initially == Init => CtxInv
<1> SUFFICES ASSUME Init PROVE CtxInv
  OBVIOUS
<1> USE DEF Init
<1>1. DOMAIN buffer = {} /\ IsFiniteSet(DOMAIN buffer) /\ Cardinality(DOMAIN buffer) = 0
  BY FS_EmptySet
<1>2. DOMAIN log = {} /\ DOMAIN queue = {} /\ DOMAIN shown.lines = {}
  OBVIOUS
<1>3. TypeOK
  BY <1>1, <1>2, Limits DEF TypeOK
<1>4. IsBuffer(buffer, log)
  BY <1>1, Limits DEF IsBuffer
<1>5. ASSUME NEW t \in Trace PROVE ListsLatest(Bucket(buffer, t), Kept(log, t))
  <2>1. Bucket(buffer, t) = <<>>
    BY DEF Bucket
  <2>2. Kept(log, t) = {}
    BY <1>2 DEF Kept, LinesOf
  <2>3. DOMAIN <<>> = {}
    OBVIOUS
  <2>4. QED
    BY <2>1, <2>2, <2>3 DEF ListsLatest
<1>6. NothingStitched
  BY <1>2 DEF NothingStitched
<1>7. QED
  BY <1>2, <1>3, <1>4, <1>5, <1>6 DEF CtxInv, Remembers

(***************************************************************************)
(* The steps.                                                              *)
(***************************************************************************)
\* A queue with the first of some errors, as many as it has room for.
LEMMA Queued ==
  ASSUME NEW q \in Seq(Waiting), NEW a \in Seq(Waiting), Len(q) <= QueueSize,
         \A i \in DOMAIN q : Genuine(q[i]), \A i \in 1..Len(a) : Genuine(a[i]),
         NEW m, m = IF Len(a) < QueueSize - Len(q) THEN Len(a) ELSE QueueSize - Len(q)
  PROVE  /\ q \o SubSeq(a, 1, m) \in Seq(Waiting)
         /\ Len(q \o SubSeq(a, 1, m)) <= QueueSize
         /\ \A i \in DOMAIN (q \o SubSeq(a, 1, m)) : Genuine((q \o SubSeq(a, 1, m))[i])
<1> DEFINE e == SubSeq(a, 1, m)
           w == q \o e
<1>1. m \in Nat /\ m <= Len(a) /\ m + Len(q) <= QueueSize /\ Len(q) \in Nat
  BY Limits
<1>2. \A i \in 1..m : a[i] \in Waiting
  BY <1>1
<1>3. e \in Seq(Waiting) /\ Len(e) = m /\ \A i \in 1..m : e[i] = a[i]
  <2>1. /\ SubSeq(a, 1, m) \in Seq(Waiting)
        /\ Len(SubSeq(a, 1, m)) = IF 1 <= m THEN m - 1 + 1 ELSE 0
        /\ \A i \in 1..(m - 1 + 1) : SubSeq(a, 1, m)[i] = a[1 + i - 1]
    BY <1>1, <1>2, SubSeqProperties
  <2>2. m - 1 + 1 = m /\ \A i \in 1..m : 1 + i - 1 = i
    BY <1>1
  <2>3. QED
    BY <1>1, <2>1, <2>2
<1> HIDE DEF e
<1>4. /\ w \in Seq(Waiting) /\ Len(w) = Len(q) + m
      /\ \A i \in 1..(Len(q) + m) : w[i] = IF i <= Len(q) THEN q[i] ELSE e[i - Len(q)]
  <2>1. e \in Seq(Waiting) /\ Len(e) = m
    BY <1>3
  <2>2. /\ q \o e \in Seq(Waiting) /\ Len(q \o e) = Len(q) + Len(e)
        /\ \A i \in 1..(Len(q) + Len(e)) :
              (q \o e)[i] = IF i <= Len(q) THEN q[i] ELSE e[i - Len(q)]
    BY ONLY <2>1, q \in Seq(Waiting), ConcatProperties
  <2>3. QED
    BY ONLY <2>1, <2>2
<1>5. ASSUME NEW i \in 1..(Len(q) + m) PROVE Genuine(w[i])
  <2>1. CASE i <= Len(q)
    <3>1. i \in DOMAIN q /\ w[i] = q[i]
      BY <1>1, <1>4, <2>1
    <3>2. QED
      BY <3>1
  <2>2. CASE ~ (i <= Len(q))
    <3>1. i - Len(q) \in 1..m /\ i - Len(q) \in 1..Len(a)
      BY <1>1, <2>2
    <3>2. w[i] = a[i - Len(q)]
      BY <1>3, <1>4, <2>2, <3>1
    <3>3. QED
      BY <3>1, <3>2
  <2>3. QED
    BY <2>1, <2>2
<1> HIDE DEF w
<1>6. DOMAIN w = 1..(Len(q) + m)
  BY <1>1, <1>4
<1>7. w \in Seq(Waiting) /\ Len(w) <= QueueSize /\ \A i \in DOMAIN w : Genuine(w[i])
  BY <1>1, <1>4, <1>5, <1>6
<1>8. QED
  BY <1>7 DEF w, e

\* What Remembers says of the buffer is what TypeOK says of it.
LEMMA BufferTyped ==
  ASSUME NEW b, NEW l, Remembers(b, l)
  PROVE  /\ DOMAIN b \subseteq Trace /\ Cardinality(DOMAIN b) <= MaxTraces
         /\ \A t \in DOMAIN b : b[t] \in Seq(DOMAIN l) /\ Len(b[t]) \in 1..MaxLinesPerTrace
BY DEF Remembers, IsBuffer

\* An export: its lines go to the log and the buffer, its errors to the queue.
LEMMA ReceiveKeeps ==
  ASSUME CtxInv, NEW n \in Nat, NEW batch \in [1..n -> Record], Receive(batch)
  PROVE  CtxInv'
<1> DEFINE d == Decode(batch)
           news == NewLines(batch)
           a == Arrivals(batch)
           room == QueueSize - Len(queue)
           m == IF Len(a) < room THEN Len(a) ELSE room
<1>1. Encoded(batch, "protobuf") \/ Encoded(batch, "json")
  BY DEF Receive
<1>2. Len(Events(d)) = Len(a)
  BY <1>1, ArrivalsFacts
<1>3. /\ Len(log) + Len(batch) <= MaxLog
      /\ buffer' = Absorb(Lines(d), TraceIds(d), Len(log))
      /\ queue' = queue \o SubSeq(a, 1, m)
      /\ log' = log \o news
      /\ shown' = shown
  BY <1>2 DEF Receive, NewLines, Arrivals
<1>4. /\ news \in Seq(Meaning) /\ Len(news) \in 0..n
      /\ \A k \in 1..Len(news) : ~ news[k].error
  BY <1>1, NewLinesFacts
<1>5. log \in Seq(Meaning) /\ Len(log) \in Nat /\ Len(batch) = n
  BY DEF CtxInv, TypeOK
<1>6. /\ log \o news \in Seq(Meaning)
      /\ Len(log \o news) = Len(log) + Len(news)
      /\ \A i \in 1..(Len(log) + Len(news)) :
            (log \o news)[i] = IF i <= Len(log) THEN log[i] ELSE news[i - Len(log)]
  BY <1>4, <1>5, ConcatProperties
<1>7. Remembers(Absorb(Lines(d), TraceIds(d), Len(log)), log \o news)
  <2>1. /\ Len(news) \in Nat
        /\ Lines(d) \in [1..Len(news) -> 1..n]
        /\ DOMAIN TraceIds(d) = 1..Len(news)
        /\ \A k \in 1..Len(news) : Names(TraceIds(d)[k], news[k].trace)
    BY <1>1, NewLinesFacts
  <2>2. Remembers(buffer, log)
    BY DEF CtxInv
  <2> HIDE DEF d, news
  <2>3. QED
    BY <1>4, <1>5, <2>1, <2>2, AbsorbKeeps
<1> HIDE DEF d, news, a, m
<1>8. Remembers(buffer', log')
  BY <1>3, <1>7
<1>9. /\ queue' \in Seq(Waiting) /\ Len(queue') <= QueueSize
      /\ \A i \in DOMAIN queue' : Genuine(queue'[i])
  <2>1. queue \in Seq(Waiting) /\ Len(queue) <= QueueSize /\ \A i \in DOMAIN queue : Genuine(queue[i])
    BY DEF CtxInv, TypeOK, Waiting
  <2>2. a \in Seq(Waiting) /\ \A i \in 1..Len(a) : Genuine(a[i])
    BY <1>1, ArrivalsFacts DEF a
  <2>3. m = IF Len(a) < QueueSize - Len(queue) THEN Len(a) ELSE QueueSize - Len(queue)
    BY DEF m
  <2>4. QED
    BY <1>3, <2>1, <2>2, <2>3, Queued
<1>10. log' \in Seq(Meaning) /\ Len(log') <= MaxLog /\ DOMAIN log' = 1..(Len(log) + Len(news))
  <2>1. Len(log) + Len(news) <= MaxLog
    BY <1>3, <1>4, <1>5, Limits
  <2>2. QED
    BY <1>3, <1>6, <2>1
<1>11. /\ DOMAIN log = 1..Len(log) /\ DOMAIN log \subseteq DOMAIN log'
       /\ \A i \in DOMAIN log : log'[i] = log[i]
  BY <1>3, <1>4, <1>5, <1>6, <1>10
<1>12. \A i \in DOMAIN log' : ~ log'[i].error
  <2> SUFFICES ASSUME NEW i \in DOMAIN log' PROVE ~ log'[i].error
    OBVIOUS
  <2>1. CASE i <= Len(log)
    <3>1. i \in DOMAIN log /\ log'[i] = log[i]
      BY <1>5, <1>10, <1>11, <2>1
    <3>2. QED
      BY <3>1 DEF CtxInv
  <2>2. CASE ~ (i <= Len(log))
    <3>1. i - Len(log) \in 1..Len(news) /\ log'[i] = news[i - Len(log)]
      BY <1>3, <1>4, <1>5, <1>6, <1>10, <2>2
    <3>2. QED
      BY <1>4, <3>1
  <2>3. QED
    BY <2>1, <2>2
<1>13. /\ shown \in [meant : Trace \cup {Unset}, lines : Seq(DOMAIN log)]
       /\ Len(shown.lines) <= MaxLinesPerTrace
  BY DEF CtxInv, TypeOK
<1>14. shown.lines \in Seq(DOMAIN log) /\ \A k \in DOMAIN shown.lines : shown.lines[k] \in DOMAIN log
  BY <1>13
<1>15. shown' \in [meant : Trace \cup {Unset}, lines : Seq(DOMAIN log')]
  <2>1. shown.lines \in Seq(DOMAIN log')
    BY <1>11, <1>14
  <2>2. QED
    BY <1>3, <1>13, <2>1
<1>16. TypeOK'
  BY <1>3, <1>8, <1>9, <1>10, <1>13, <1>15, BufferTyped DEF TypeOK, Waiting
<1>17. NothingStitched'
  BY <1>3, <1>11, <1>14 DEF CtxInv, NothingStitched
<1>18. QED
  BY <1>8, <1>9, <1>12, <1>16, <1>17 DEF CtxInv

\* Taking an error off the queue leaves genuine ones.
LEMMA TakeKeeps ==
  ASSUME CtxInv, queue # <<>>
  PROVE  /\ Tail(queue) \in Seq(Waiting) /\ Len(Tail(queue)) <= QueueSize
         /\ \A i \in DOMAIN Tail(queue) : Genuine(Tail(queue)[i])
         /\ Head(queue) \in Waiting /\ Genuine(Head(queue))
<1>1. queue \in Seq(Waiting) /\ Len(queue) <= QueueSize /\ \A i \in 1..Len(queue) : Genuine(queue[i])
  BY DEF CtxInv, TypeOK, Waiting
<1>2. /\ Tail(queue) \in Seq(Waiting) /\ Len(Tail(queue)) = Len(queue) - 1
      /\ \A i \in 1..Len(Tail(queue)) : Tail(queue)[i] = queue[i + 1]
      /\ Head(queue) \in Waiting
  BY <1>1, HeadTailProperties
<1>3. Len(queue) \in Nat \ {0} /\ Head(queue) = queue[1]
  BY <1>1
<1>4. DOMAIN Tail(queue) = 1..(Len(queue) - 1)
  BY <1>2
<1>5. \A i \in 1..(Len(queue) - 1) : i + 1 \in 1..Len(queue)
  BY <1>3
<1>6. QED
  BY <1>1, <1>2, <1>3, <1>4, <1>5, Limits

\* The lines of a trace that the buffer gives are that trace's.
LEMMA GetFacts ==
  ASSUME CtxInv, NEW e \in Waiting, Genuine(e)
  PROVE  /\ Get(e.trace) \in Seq(DOMAIN log)
         /\ Len(Get(e.trace)) <= MaxLinesPerTrace
         /\ \A k \in DOMAIN Get(e.trace) :
               e.meant.trace # Unset /\ log[Get(e.trace)[k]].trace = e.meant.trace
<1> DEFINE s == Bucket(buffer, e.trace)
           g == Latest(s, Limit)
<1>1. CASE e.trace = NoTrace \/ e.trace \notin DOMAIN buffer
  <2>1. Latest(<<>>, Limit) = <<>>
    <3>1. Len(<<>>) = 0 /\ (Limit = 0 \/ Limit >= 0)
      BY Limits
    <3>2. Limit >= 0 <=> 0 <= Limit
      BY Limits
    <3>3. Latest(<<>>, Limit) \in Seq({}) /\ Len(Latest(<<>>, Limit)) \in 0..Len(<<>>)
      <4>1. <<>> \in Seq({})
        OBVIOUS
      <4>2. QED
        BY <4>1, Limits, LatestFacts
    <3>4. QED
      BY <3>1, <3>3, EmptySeq
  <2>2. Get(e.trace) = <<>>
    BY <1>1, <2>1 DEF Get, Bucket
  <2>3. DOMAIN <<>> = {} /\ <<>> \in Seq(DOMAIN log) /\ Len(<<>>) = 0
    OBVIOUS
  <2>4. QED
    BY <2>2, <2>3, Limits
<1>2. CASE e.trace # NoTrace /\ e.trace \in DOMAIN buffer
  <2>1. Remembers(buffer, log)
    BY DEF CtxInv
  <2>2. s = buffer[e.trace] /\ Get(e.trace) = g
    BY <1>2 DEF Get, Bucket
  <2>3. s \in Seq(DOMAIN log) /\ Len(s) \in 1..MaxLinesPerTrace
    BY <1>2, <2>1, <2>2 DEF Remembers, IsBuffer
  <2>4. e.trace \in Trace /\ e.meant.trace = e.trace /\ e.meant.trace # Unset
    BY <1>2, Limits DEF Genuine, Names
  <2>5. \A i \in DOMAIN s : s[i] \in Kept(log, e.trace)
    <3>1. ListsLatest(s, Kept(log, e.trace))
      BY <2>1, <2>4 DEF Remembers
    <3>2. QED
      BY <3>1 DEF ListsLatest
  <2>6. \A i \in DOMAIN s : log[s[i]].trace = e.trace
    BY <2>5 DEF Kept, LinesOf
  <2> HIDE DEF s
  <2>7. /\ g \in Seq(DOMAIN log) /\ Len(g) \in 0..Len(s)
        /\ \A k \in 1..Len(g) : g[k] = s[k + (Len(s) - Len(g))]
    <3>1. s \in Seq(DOMAIN log) /\ Limit \in Nat
      BY <2>3, Limits
    <3>2. QED
      BY ONLY <3>1, LatestFacts
  <2> HIDE DEF g
  <2>8. \A k \in 1..Len(g) : k + (Len(s) - Len(g)) \in 1..Len(s)
    BY <2>3, <2>7
  <2>9. DOMAIN g = 1..Len(g) /\ DOMAIN s = 1..Len(s)
    BY <2>3, <2>7
  <2>10. \A k \in DOMAIN g : log[g[k]].trace = e.trace
    BY <2>6, <2>7, <2>8, <2>9
  <2>11. Len(g) <= MaxLinesPerTrace
    BY <2>3, <2>7, Limits
  <2>12. QED
    BY <2>2, <2>4, <2>7, <2>10, <2>11
<1>3. QED
  BY <1>1, <1>2

\* A handled error is shown what the buffer has of its trace.
LEMMA HandleKeeps == CtxInv /\ Handle => CtxInv'
<1> SUFFICES ASSUME CtxInv, Handle PROVE CtxInv'
  OBVIOUS
<1> DEFINE e == Head(queue)
<1>1. /\ queue # <<>> /\ queue' = Tail(queue) /\ buffer' = buffer /\ log' = log
      /\ shown' = [meant |-> e.meant.trace, lines |-> Get(e.trace)]
  BY DEF Handle
<1>2. /\ Tail(queue) \in Seq(Waiting) /\ Len(Tail(queue)) <= QueueSize
      /\ \A i \in DOMAIN Tail(queue) : Genuine(Tail(queue)[i])
      /\ e \in Waiting /\ Genuine(e)
  BY <1>1, TakeKeeps
<1> HIDE DEF e
<1>3. /\ Get(e.trace) \in Seq(DOMAIN log)
      /\ Len(Get(e.trace)) <= MaxLinesPerTrace
      /\ \A k \in DOMAIN Get(e.trace) :
            e.meant.trace # Unset /\ log[Get(e.trace)[k]].trace = e.meant.trace
  BY <1>2, GetFacts
<1>4. e.meant.trace \in Trace \cup {Unset}
  BY <1>2 DEF Genuine, Names
<1>5. shown' \in [meant : Trace \cup {Unset}, lines : Seq(DOMAIN log')]
  BY <1>1, <1>3, <1>4
<1>6. shown'.lines = Get(e.trace) /\ shown'.meant = e.meant.trace
  BY <1>1
<1>7. TypeOK'
  BY <1>1, <1>2, <1>3, <1>5, <1>6 DEF CtxInv, TypeOK, Waiting
<1>8. NothingStitched'
  BY <1>1, <1>3, <1>6 DEF NothingStitched
<1>9. QED
  BY <1>1, <1>2, <1>7, <1>8 DEF CtxInv

\* A dropped error is shown nothing.
LEMMA DropKeeps == CtxInv /\ Drop => CtxInv'
<1> SUFFICES ASSUME CtxInv, Drop PROVE CtxInv'
  OBVIOUS
<1>1. /\ queue # <<>> /\ queue' = Tail(queue) /\ buffer' = buffer /\ log' = log /\ shown' = shown
  BY DEF Drop
<1>2. /\ Tail(queue) \in Seq(Waiting) /\ Len(Tail(queue)) <= QueueSize
      /\ \A i \in DOMAIN Tail(queue) : Genuine(Tail(queue)[i])
  BY <1>1, TakeKeeps
<1>3. TypeOK'
  BY <1>1, <1>2 DEF CtxInv, TypeOK, Waiting
<1>4. NothingStitched'
  BY <1>1 DEF CtxInv, NothingStitched
<1>5. QED
  BY <1>1, <1>2, <1>3, <1>4 DEF CtxInv

\* Every step keeps the invariant.
LEMMA Stepwise == CtxInv /\ [Next]_vars => CtxInv'
<1> SUFFICES ASSUME CtxInv, [Next]_vars PROVE CtxInv'
  OBVIOUS
<1>1. ASSUME NEW n \in 1..MaxBatch, NEW batch \in [1..n -> Record], Receive(batch)
      PROVE  CtxInv'
  BY <1>1, ReceiveKeeps
<1>2. CASE Drop
  BY <1>2, DropKeeps
<1>3. CASE Handle
  BY <1>3, HandleKeeps
<1>4. CASE UNCHANGED vars
  BY <1>4 DEF vars, CtxInv, TypeOK, NothingStitched
<1>5. CASE Quiet
  BY <1>4, <1>5 DEF Quiet
<1>6. QED
  BY <1>1, <1>2, <1>3, <1>4, <1>5 DEF Next

\* The invariant holds in every state.
LEMMA Invariance == Spec => []CtxInv
BY Initially, Stepwise, PTL DEF Spec

(***************************************************************************)
(* Theorems.                                                               *)
(***************************************************************************)
\* The buffer has at most MaxTraces traces and MaxLinesPerTrace lines of each,
\* whatever is sent (context.py:33-58); the queue never passes QUEUE_MAXSIZE.
THEOREM TypeCorrect == Spec => []TypeOK
<1>1. CtxInv => TypeOK
  BY DEF CtxInv
<1>2. QED
  BY <1>1, Invariance, PTL

\* What the buffer holds of a trace is exactly its last lines since it was
\* last silent while MaxTraces others were active (context.py:33-58).
THEOREM BufferFaithful == Spec => []BufferRemembers
<1>1. CtxInv => BufferRemembers
  BY DEF CtxInv, Remembers, BufferRemembers
<1>2. QED
  BY <1>1, Invariance, PTL

\* An error is shown lines of the trace it was sent with and no others,
\* however the ids were encoded (docs/GOTCHAS.md:105-109).
THEOREM NoneStitched == Spec => []NothingStitched
<1>1. CtxInv => NothingStitched
  BY DEF CtxInv
<1>2. QED
  BY <1>1, Invariance, PTL

\* No error is taken for a context line and nothing else is queued, however
\* its level was encoded (otlp.py:304-308).
THEOREM ErrorsKnown == Spec => []ErrorsRecognized
<1>1. CtxInv => ErrorsRecognized
  BY DEF CtxInv, ErrorsRecognized, Genuine
<1>2. QED
  BY <1>1, Invariance, PTL
=============================================================================
