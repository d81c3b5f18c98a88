------------------------------ MODULE Context ------------------------------
(***************************************************************************)
(* The log lines shown with an error: otlp.py, which tells errors from     *)
(* context lines and normalizes their trace ids, absorb_context and step 5 *)
(* of handle in pipeline.py, and TraceBuffer of context.py.                *)
(*                                                                         *)
(* A record is what its sender meant (a trace, a level, ...) and how the   *)
(* exporter encoded it.  A line is represented by its place in log, the    *)
(* history of the lines that were taken as context.                        *)
(***************************************************************************)
EXTENDS Integers, Sequences, FiniteSets

CONSTANTS
    Trace,              \* traces
    Record,             \* the records exporters may send
    RequireException,   \* require_exception_attributes
    MaxTraces,          \* TRACE_BUFFER_SIZE
    MaxLinesPerTrace,   \* TraceBuffer.max_lines_per_trace
    Limit,              \* max_context_log_lines
    QueueSize,          \* QUEUE_MAXSIZE
    MaxBatch,           \* bound: records of an export
    MaxLog              \* bound: lines taken as context

Unset == "unset"        \* no trace: the sender was outside of one
NoTrace == "none"       \* None

Info == 9
SEVERITY_ERROR == 17

ASSUME ContextConstants ==
    /\ {MaxTraces, MaxLinesPerTrace, QueueSize} \subseteq Nat \ {0}
    /\ {Limit, MaxBatch, MaxLog} \subseteq Nat
    /\ RequireException \in BOOLEAN
    /\ {Unset, NoTrace} \cap Trace = {}
    /\ Record \subseteq [encoding : {"protobuf", "json"}, trace : Trace \cup {Unset},
                         id : {"plain", "upper", "base64", "malformed"},
                         level : {"info", "error"},
                         severity : {"number", "name", "text", "junk"},
                         exception : BOOLEAN, body : {"said", "blank"}]
    /\ \A r \in Record : r.encoding = "protobuf" =>
          r.id \in {"plain", "malformed"} /\ r.severity \in {"number", "text"}

VARIABLES
    buffer,     \* _traces: trace -> its lines.  Every add moves its trace to the
                \* end, so the order is that of the traces' last lines
    queue,      \* errors waiting: [trace, meant], meant being history
    shown,      \* the trace meant and the lines of the error last handed to the sink
    log         \* history: what was meant by the records taken as context lines

vars == <<buffer, queue, shown, log>>

Init ==
    /\ buffer = [t \in {} |-> <<>>] /\ queue = <<>> /\ log = <<>>
    /\ shown = [meant |-> Unset, lines |-> <<>>]

\* What the sender of a record meant, whatever the encoding: the trace, and
\* whether it is an error to this service.
Meant(r) ==
    [trace |-> IF r.id = "malformed" THEN Unset ELSE r.trace,
     error |-> r.exception \/ (~ RequireException /\ r.level = "error")]

(***************************************************************************)
(* Decoding.                                                               *)
(***************************************************************************)
\* An all-zero id, which is how SDKs send none, and one of the wrong length.
IdFromBytes(r) ==
    IF r.trace = Unset \/ r.id = "malformed" THEN NoTrace ELSE r.trace

\* A bug to be caught: an all-zero hex id is kept like any other.
IdFromJsonVerbatim(r) ==
    CASE r.id \in {"plain", "upper"} -> r.trace
      [] r.id = "base64"             -> IdFromBytes(r)
      [] r.id = "malformed"          -> NoTrace

\* Hex of either case, and base64 of the bytes, become the same text.
IdFromJson(r) ==
    CASE r.id \in {"plain", "upper"} -> IF r.trace = Unset THEN NoTrace ELSE r.trace
      [] r.id = "base64"             -> IdFromBytes(r)
      [] r.id = "malformed"          -> NoTrace

Number(level) == IF level = "error" THEN SEVERITY_ERROR ELSE Info

\* A number or the name of one; 0 when it is neither, and when it is not sent.
JsonSeverity(r) == IF r.severity \in {"number", "name"} THEN Number(r.level) ELSE 0

DecodedAs(r, trace, number) ==
    [trace |-> trace, number |-> number, text |-> r.level, exception |-> r.exception,
     body |-> r.body]

DecodeProtobuf(batch) ==
    [i \in DOMAIN batch |->
        LET r == batch[i]
        IN  DecodedAs(r, IdFromBytes(r), IF r.severity = "number" THEN Number(r.level) ELSE 0)]

DecodeJson(batch) ==
    [i \in DOMAIN batch |-> DecodedAs(batch[i], IdFromJson(batch[i]), JsonSeverity(batch[i]))]

\* By content type.  An export has one encoding; what cannot be decoded is
\* answered 400 and leaves no trace.
Encoded(batch, encoding) == \A i \in DOMAIN batch : batch[i].encoding = encoding

Decode(batch) ==
    IF Encoded(batch, "protobuf") THEN DecodeProtobuf(batch) ELSE DecodeJson(batch)

(***************************************************************************)
(* Selection.                                                              *)
(***************************************************************************)
\* A bug to be caught: the text is not looked at.
NumberOnly(d) == d.number

EffectiveSeverity(d) ==
    CASE d.number # 0                      -> d.number
      [] d.number = 0 /\ d.text = "error"  -> SEVERITY_ERROR
      [] d.number = 0 /\ d.text # "error"  -> 0

IsError(d) ==
    \/ d.exception
    \/ (~ RequireException /\ EffectiveSeverity(d) >= SEVERITY_ERROR)

\* A record that is no error and says nothing is neither event nor line.
IsLine(d) == ~ IsError(d) /\ d.body = "said"

\* The members of a set of places, in the order of the batch.
InOrder(S) ==
    CHOOSE s \in [1..Cardinality(S) -> S] : \A i, j \in DOMAIN s : i < j => s[i] < s[j]

\* The places of a batch that become events, and those that become lines.
Events(decoded) == InOrder({i \in DOMAIN decoded : IsError(decoded[i])})

Lines(decoded) == InOrder({i \in DOMAIN decoded : IsLine(decoded[i])})

(***************************************************************************)
(* TraceBuffer.                                                            *)
(***************************************************************************)
\* s[-n:], which is all of s for n = 0.
Latest(s, n) == IF n = 0 \/ n >= Len(s) THEN s ELSE SubSeq(s, Len(s) - n + 1, Len(s))

Bucket(b, t) == IF t \in DOMAIN b THEN b[t] ELSE <<>>

\* append of a deque with a maxlen.
Push(lines, line) == Latest(Append(lines, line), MaxLinesPerTrace)

Grown(b, t, line) ==
    [u \in DOMAIN b \cup {t} |-> IF u = t THEN Push(Bucket(b, t), line) ELSE b[u]]

Evict(b, t) == [u \in DOMAIN b \ {t} |-> b[u]]

\* A bug to be caught: a trace keeps the place its lines began at.
FirstToCome(b) == CHOOSE t \in DOMAIN b : \A u \in DOMAIN b : b[t][1] <= b[u][1]

\* The trace whose last line is the oldest.
LeastActive(b) ==
    CHOOSE t \in DOMAIN b : \A u \in DOMAIN b : b[t][Len(b[t])] <= b[u][Len(b[u])]

\* The trace becomes the most recently active; the least recent one goes.
Add(b, t, line) ==
    LET grown == Grown(b, t, line)
    IN  IF t = NoTrace THEN b
        ELSE IF Cardinality(DOMAIN grown) > MaxTraces THEN Evict(grown, LeastActive(grown))
        ELSE grown

Get(t) == IF t = NoTrace THEN <<>> ELSE Latest(Bucket(buffer, t), Limit)

(***************************************************************************)
(* receive_logs.  The trace ids are collected in a second pass over the    *)
(* records and paired with the lines by position.                          *)
(***************************************************************************)
\* A bug to be caught: the second pass forgets that blank records are no lines.
TraceIdsOfOthers(decoded) ==
    LET places == InOrder({i \in DOMAIN decoded : ~ IsError(decoded[i])})
    IN  [k \in DOMAIN places |-> decoded[places[k]].trace]

TraceIds(decoded) ==
    LET places == Lines(decoded)
    IN  [k \in DOMAIN places |-> decoded[places[k]].trace]

\* zip, which ends with the shorter of the two; the lines are numbered from
\* "first" on.
Absorb(lines, ids, first) ==
    LET pairs == DOMAIN lines \cap DOMAIN ids
        after[k \in {0} \cup pairs] ==
            IF k = 0 THEN buffer ELSE Add(after[k - 1], ids[k], first + k)
    IN  after[Cardinality(pairs)]

Receive(batch) ==
    LET decoded == Decode(batch)
        lines == Lines(decoded)
        events == Events(decoded)
        arrivals == [k \in DOMAIN events |->
                        [trace |-> decoded[events[k]].trace, meant |-> Meant(batch[events[k]])]]
        room == QueueSize - Len(queue)
    IN  /\ Encoded(batch, "protobuf") \/ Encoded(batch, "json")
        /\ Len(log) + Len(batch) <= MaxLog
        /\ buffer' = Absorb(lines, TraceIds(decoded), Len(log))
        /\ queue' = queue \o SubSeq(arrivals, 1, IF Len(events) < room THEN Len(events) ELSE room)
        /\ log' = log \o [k \in DOMAIN lines |-> Meant(batch[lines[k]])]
        /\ UNCHANGED shown

\* Steps 1-4 of handle end with the error (suppressed or unrouted).
Drop ==
    /\ queue # <<>>
    /\ queue' = Tail(queue)
    /\ UNCHANGED <<buffer, shown, log>>

\* Step 5: the lines are copied, for the model and for the issue.
Handle ==
    /\ queue # <<>>
    /\ queue' = Tail(queue)
    /\ shown' = [meant |-> Head(queue).meant.trace, lines |-> Get(Head(queue).trace)]
    /\ UNCHANGED <<buffer, log>>

\* This instance has seen all its lines.
Quiet ==
    /\ Len(log) + 1 > MaxLog
    /\ queue = <<>>
    /\ UNCHANGED vars

Next ==
    \/ \E n \in 1..MaxBatch : \E batch \in [1..n -> Record] : Receive(batch)
    \/ Drop \/ Handle \/ Quiet

Spec == Init /\ [][Next]_vars

(***************************************************************************)
(* Properties.                                                             *)
(***************************************************************************)
Meaning == [trace : Trace \cup {Unset}, error : BOOLEAN]

TypeOK ==
    /\ log \in Seq(Meaning) /\ Len(log) <= MaxLog
    /\ DOMAIN buffer \subseteq Trace /\ Cardinality(DOMAIN buffer) <= MaxTraces
    /\ \A t \in DOMAIN buffer :
          buffer[t] \in Seq(DOMAIN log) /\ Len(buffer[t]) \in 1..MaxLinesPerTrace
    /\ queue \in Seq([trace : Trace \cup {NoTrace}, meant : Meaning]) /\ Len(queue) <= QueueSize
    /\ shown \in [meant : Trace \cup {Unset}, lines : Seq(DOMAIN log)]
    /\ Len(shown.lines) <= MaxLinesPerTrace

\* The lines of trace t, and the traces active strictly between two lines.
LinesOf(l, t) == {n \in DOMAIN l : l[n].trace = t}

ActiveBetween(l, i, j) == {l[n].trace : n \in (i + 1)..(j - 1)} \ {Unset}

\* t was silent from its line i while MaxTraces others spoke.
ForgottenAfter(l, t, i) ==
    \E j \in (i + 1)..(Len(l) + 1) :
        /\ t \notin ActiveBetween(l, i, j)
        /\ Cardinality(ActiveBetween(l, i, j)) >= MaxTraces

\* The lines of t since it was last forgotten.
Kept(l, t) ==
    {n \in LinesOf(l, t) : \A i \in LinesOf(l, t) : i >= n => ~ ForgottenAfter(l, t, i)}

\* s lists the last lines of a set, as many as a bucket holds, in their order.
ListsLatest(s, lines) ==
    /\ \A i, j \in DOMAIN s : i < j => s[i] < s[j]
    /\ \A i \in DOMAIN s : s[i] \in lines
    /\ \A n \in lines :
          \/ \E i \in DOMAIN s : s[i] = n
          \/ Len(s) = MaxLinesPerTrace /\ n < s[1]

\* The buffer holds, in the order they were logged, the last lines of every
\* trace since it was last silent while MaxTraces others were active: neither
\* the order in which traces interleave nor eviction loses any other line, and
\* a trace that comes back starts afresh (context.py:33-58, README.md:138).
BufferRemembers ==
    \A t \in Trace : ListsLatest(Bucket(buffer, t), Kept(log, t))

\* docs/GOTCHAS.md:105-109: an error is shown lines of the trace it was sent
\* with and no others; one from outside a trace is shown none.
NothingStitched ==
    \A k \in DOMAIN shown.lines :
        /\ shown.meant # Unset
        /\ log[shown.lines[k]].trace = shown.meant

\* otlp.py:304-308: however its level was encoded, an error never passes for
\* a context line, and nothing else is filed.
ErrorsRecognized ==
    /\ \A n \in DOMAIN log : ~ log[n].error
    /\ \A i \in DOMAIN queue : queue[i].meant.error
=============================================================================
