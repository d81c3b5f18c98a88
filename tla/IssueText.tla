------------------------------- MODULE IssueText -------------------------------
(***************************************************************************)
(* What an issue says: context.py builds its body, filer.py refreshes and  *)
(* clips it, and people edit it in between.  A recurrence is recorded on a *)
(* copy of title and body that was looked up a round-trip earlier, in one  *)
(* PATCH of both.                                                          *)
(*                                                                         *)
(* A body is a sequence of lines.  A line is known by its kind:            *)
(*   header      the machine header; val is its count                      *)
(*   occurrences the Occurrences row (Last seen is rewritten with it)      *)
(*   version     the Version row; val is the version, 0 for "_unknown_"    *)
(*   latest      the Latest version row                                    *)
(*   ticks       nothing but a run of val backticks                        *)
(*   info        a run of val backticks followed by something else         *)
(*   text        anything else the program writes or quotes, val long      *)
(*   note        the truncation note                                       *)
(*   human       a line a person wrote; val tells which                    *)
(* and by whether it quotes the error.  A line takes up 1, and what it     *)
(* holds besides if it is a run of backticks or a text.  The model-written *)
(* summary in front of the sections is left out: it is taken to close      *)
(* every code block it opens, which nothing enforces.                      *)
(***************************************************************************)
EXTENDS Integers, Sequences, FiniteSets, SequencesExt

CONSTANTS
    Worker,         \* workers of one or of several replicas
    Event,          \* errors: [version, sections], a section being quoted lines
    BodyLimit,      \* BODY_LIMIT
    HardLimit,      \* the largest body or comment GitHub accepts
    MaxFilings,     \* bound: filings
    MaxEdits,       \* bound: edits by people
    MaxLost         \* bound: answers to a PATCH that are lost

Note == [kind |-> "note", val |-> 0, quoted |-> FALSE]
Line(kind, val) == [kind |-> kind, val |-> val, quoted |-> FALSE]

Quotes == [kind : {"text", "ticks", "info"}, val : Nat, quoted : {TRUE}]

ASSUME TextConstants ==
    /\ Event # {} /\ Event \subseteq [version : Nat, sections : Seq(Seq(Quotes))]
    /\ BodyLimit \in Nat /\ HardLimit \in Nat /\ 5 < BodyLimit /\ BodyLimit <= HardLimit
    /\ {MaxFilings, MaxEdits, MaxLost} \subseteq Nat

VARIABLES
    issue,          \* [title, body] on GitHub, or NoIssue
    job,            \* job[w]: the error being recorded, the copy looked up, and
                    \* whether its PATCH has been executed
    used,           \* how much of each bound is spent
    recorded,       \* history: occurrences written to the issue
    running,        \* history: the version that last reported the error
    overlapped,     \* history: a PATCH overwrote one made since its lookup
    late,           \* history: workers whose copy has been overtaken by a PATCH
    edits           \* history: the edits nobody's copy missed, and what they did

vars == <<issue, job, used, recorded, running, overlapped, late, edits>>
history == <<recorded, running, overlapped, late>>

NoIssue == [title |-> [count |-> 0, stem |-> "none"], body |-> <<>>]
NoJob == [event |-> CHOOSE e \in Event : TRUE, copy |-> NoIssue, arrived |-> FALSE]

Init ==
    /\ issue = NoIssue
    /\ job = [w \in Worker |-> NoJob]
    /\ used = [filings |-> 0, edits |-> 0, lost |-> 0]
    /\ recorded = 0
    /\ running = 0
    /\ overlapped = FALSE
    /\ late = {}
    /\ edits = {}

Exists == issue # NoIssue
Holds(w) == job[w].copy # NoIssue

(***************************************************************************)
(* Reading a text.                                                         *)
(***************************************************************************)
Places(body, kind) == {k \in DOMAIN body : body[k].kind = kind}
Has(body, kind) == Places(body, kind) # {}

\* Patterns are searched from the start: the first line that matches.
At(body, kind) == Min(Places(body, kind))

\* parse_header(...)["count"] and the 1 that stands in for it.
HeaderCount(body) == IF Has(body, "header") THEN body[At(body, "header")].val ELSE 1

\* parse_title_count: a title without "[xN]" counts 1.
TitleCount(title) == IF title.count = 0 THEN 1 ELSE title.count

\* What a line makes of the open code block, a run of backticks or 0.  A block
\* is closed by a bare run that is at least as long.
After(open, line) ==
    IF line.kind \notin {"ticks", "info"} THEN open
    ELSE IF open = 0 THEN line.val
    ELSE IF line.kind = "ticks" /\ line.val >= open THEN 0
    ELSE open

\* The run of backticks that opened the code block the text ends in, or 0.
OpenFence(body) ==
    LET open[k \in 0..Len(body)] == IF k = 0 THEN 0 ELSE After(open[k - 1], body[k])
    IN  open[Len(body)]

(***************************************************************************)
(* Writing one.                                                            *)
(***************************************************************************)
\* A bug to be caught: every block is fenced with three backticks.
MarkerOfThree(quoted) == 3

\* fence(): longer than any run of backticks in what it quotes.
Marker(quoted) ==
    Max({3} \cup {quoted[k].val + 1 : k \in Places(quoted, "ticks") \cup Places(quoted, "info")})

Fence(quoted) ==
    <<Line("ticks", Marker(quoted))>> \o quoted \o <<Line("ticks", Marker(quoted))>>

Fenced(e) == FlattenSeq([s \in DOMAIN e.sections |-> Fence(e.sections[s])])

\* build_body, count = 1: header, table, the fenced sections, the footer.
BuildBody(e) ==
    <<Line("header", 1), Line("occurrences", 1), Line("version", e.version)>>
        \o Fenced(e) \o <<Line("text", 0)>>

\* build_occurrence_comment: heading and bullets, then the fenced sections.
OccurrenceComment(e) == <<Line("text", 0)>> \o Fenced(e)

\* What a line and what a text take up.
Width(line) == IF line.kind \in {"text", "ticks", "info"} THEN 1 + line.val ELSE 1

Size(body) ==
    LET size[k \in 0..Len(body)] == IF k = 0 THEN 0 ELSE size[k - 1] + Width(body[k])
    IN  size[Len(body)]

\* As many whole lines as fit under the limit with the note.
Fitting(body) ==
    Max({k \in 0..Len(body) : Size(SubSeq(body, 1, k)) + Width(Note) < BodyLimit})

\* A bug to be caught: the cut is not followed by a closing fence.
ClipOnly(body) ==
    IF Size(body) <= BodyLimit THEN body
    ELSE Append(SubSeq(body, 1, Fitting(body)), Note)

\* _clip: whole lines up to the limit less the note; an open code block is
\* closed by a run as long as the one that opened it, whatever room is left.
Clip(body) ==
    LET kept == SubSeq(body, 1, Fitting(body))
        open == OpenFence(kept)
    IN  IF Size(body) <= BodyLimit THEN body
        ELSE Append(IF open = 0 THEN kept ELSE Append(kept, Line("ticks", open)), Note)

\* Substitute the first line of a kind, or drop it.
Put(body, kind, val) ==
    IF Has(body, kind) THEN [body EXCEPT ![At(body, kind)].val = val] ELSE body

Drop(body, kind) ==
    IF Has(body, kind) THEN RemoveAt(body, At(body, kind)) ELSE body

\* Bugs to be caught: the body is written anew, and an older Latest version
\* row stays.
RefreshAnew(body, e, count) == Put(BuildBody(e), "header", count)

RefreshAddingRows(body, e, count) ==
    LET counted == Put(Put(body, "header", count), "occurrences", count)
    IN  IF e.version = 0 \/ ~ Has(body, "version") \/ body[At(body, "version")].val = e.version
        THEN counted
        ELSE InsertAt(counted, At(counted, "version") + 1, Line("latest", e.version))

\* _refresh_body, where there is a header to anchor on: header and rows, and
\* the Latest version row below Version when another version reports the error.
Refresh(body, e, count) ==
    LET counted == Put(Put(body, "header", count), "occurrences", count)
        without == Drop(counted, "latest")
        below   == At(without, "version") + 1
    IN  IF e.version = 0 \/ ~ Has(body, "version") THEN counted
        ELSE IF without[At(without, "version")].val = e.version THEN without
        ELSE InsertAt(without, below, Line("latest", e.version))

(***************************************************************************)
(* Filings.  GitHub refuses a body over its limit with a 422; the filing   *)
(* that sent it fails, which is what GiveUp is.                            *)
(***************************************************************************)
\* _create: the first occurrence.
Create(e) ==
    /\ ~ Exists
    /\ Size(Clip(BuildBody(e))) <= HardLimit
    /\ issue' = [title |-> [count |-> 1, stem |-> "summary"], body |-> Clip(BuildBody(e))]
    /\ recorded' = 1
    /\ running' = e.version
    /\ UNCHANGED <<job, used, overlapped, late, edits>>

\* A later one finds the issue.
Lookup(w, e) ==
    /\ Exists
    /\ ~ Holds(w)
    /\ used.filings < MaxFilings
    /\ used' = [used EXCEPT !.filings = @ + 1]
    /\ job' = [job EXCEPT ![w] = [event |-> e, copy |-> issue, arrived |-> FALSE]]
    /\ UNCHANGED <<issue, history, edits>>

\* A bug to be caught: only the title counts.
NewCountFromTitle(copy) == TitleCount(copy.title) + 1

NewCount(copy) ==
    LET counts == {TitleCount(copy.title), HeaderCount(copy.body)}
    IN  Max(counts) + 1

\* A bug to be caught: only a new issue is clipped.
PatchedUnclipped(e, copy) ==
    LET count == NewCount(copy)
    IN  [title |-> [copy.title EXCEPT !.count = count],
         body  |-> IF Has(copy.body, "header") THEN Refresh(copy.body, e, count)
                   ELSE issue.body]

\* The one PATCH of _record_occurrence, made of the copy alone.
Patched(e, copy) ==
    LET count == NewCount(copy)
    IN  [title |-> [copy.title EXCEPT !.count = count],
         body  |-> IF Has(copy.body, "header") THEN Clip(Refresh(copy.body, e, count))
                   ELSE issue.body]

\* GitHub executes it.  Sent again after a lost answer, it says the same.
Execute(w) ==
    /\ Holds(w)
    /\ Size(Patched(job[w].event, job[w].copy).body) <= HardLimit
    /\ issue' = Patched(job[w].event, job[w].copy)
    /\ recorded' = IF job[w].arrived THEN recorded ELSE recorded + 1
    /\ running' = IF job[w].event.version = 0 THEN running ELSE job[w].event.version
    /\ overlapped' = (overlapped \/ w \in late)
    /\ late' = {v \in Worker \ {w} : Holds(v)}
    /\ UNCHANGED edits

Patch(w) ==
    /\ Execute(w)
    /\ job' = [job EXCEPT ![w] = NoJob]
    /\ UNCHANGED used

AnswerLost(w) ==
    /\ used.lost < MaxLost
    /\ Execute(w)
    /\ job' = [job EXCEPT ![w].arrived = TRUE]
    /\ used' = [used EXCEPT !.lost = @ + 1]

\* The filing ends without another PATCH: an error, or a crash.
GiveUp(w) ==
    /\ Holds(w)
    /\ job' = [job EXCEPT ![w] = NoJob]
    /\ late' = late \ {w}
    /\ UNCHANGED <<issue, used, recorded, running, overlapped, edits>>

(***************************************************************************)
(* People.  What a person does while a copy is out may be overwritten by   *)
(* it; edits remembers what was done when none was.  An edit is taken to   *)
(* leave the other lines as they are, their line ends included.            *)
(***************************************************************************)
Edit(name, edited) ==
    /\ Exists
    /\ used.edits < MaxEdits
    /\ edited # issue
    /\ Size(edited.body) <= HardLimit
    /\ issue' = edited
    /\ used' = [used EXCEPT !.edits = @ + 1]
    /\ edits' = edits \cup {[what |-> name, seen |-> \A w \in Worker : ~ Holds(w)]}
    /\ UNCHANGED <<job, history>>

WriteOnTop ==
    Edit("top", [issue EXCEPT !.body = InsertAt(@, 1, Line("human", 1))])

WriteBelow ==
    Edit("below", [issue EXCEPT !.body = Append(@, Line("human", 2))])

Retitle(keepsCount) ==
    Edit("retitle", [issue EXCEPT !.title = [count |-> IF keepsCount THEN @.count ELSE 0,
                                             stem  |-> "better"]])

StripHeader ==
    Edit("strip", [issue EXCEPT !.body = Drop(@, "header")])

DeleteVersionRow ==
    Edit("unversion", [issue EXCEPT !.body = Drop(@, "version")])

People ==
    \/ WriteOnTop \/ WriteBelow \/ StripHeader \/ DeleteVersionRow
    \/ \E keepsCount \in BOOLEAN : Retitle(keepsCount)

\* Nothing more is filed in this instance.
Quiet ==
    /\ used.filings = MaxFilings
    /\ \A w \in Worker : ~ Holds(w)
    /\ UNCHANGED vars

Next ==
    \/ \E e \in Event : Create(e)
    \/ \E w \in Worker, e \in Event : Lookup(w, e)
    \/ \E w \in Worker : Patch(w) \/ AnswerLost(w) \/ GiveUp(w)
    \/ People
    \/ Quiet

Spec == Init /\ [][Next]_vars

(***************************************************************************)
(* Properties.                                                             *)
(***************************************************************************)
Did(name) == \E d \in edits : d.what = name
Vals(body, kind) == {body[k].val : k \in Places(body, kind)}
DidUnseen(name) == [what |-> name, seen |-> TRUE] \in edits

TypeOK ==
    /\ issue.title \in [count : Nat, stem : {"none", "summary", "better"}]
    /\ \A k \in DOMAIN issue.body : issue.body[k].val \in Nat
    /\ \A w \in Worker : job[w].event \in Event
    /\ late \subseteq {w \in Worker : Holds(w)}

\* filer.py:425-426, "trust whichever is further along so a manual retitle
\* never loses the count": as long as recordings do not overlap, the issue
\* counts every one of them, whatever is sent twice, clipped, retitled or
\* stripped in between; only both edits together lose it.  And whoever
\* overwrites whom, title, header and Occurrences row say the same unless a
\* person changed one of them (filer.py:438-439, they "stay truthful").
CountIsExact ==
    LET title == IF issue.title.count = 0 THEN 1 ELSE issue.title.count
        Says(kind) == Vals(issue.body, kind)
    IN  /\ (Exists /\ ~ overlapped /\ ~ (Did("strip") /\ Did("retitle"))) =>
               recorded = Max({title} \cup Says("header"))
        /\ (Exists /\ ~ Did("strip") /\ ~ Did("retitle")) =>
               Says("header") = {title} /\ Says("occurrences") = {title}

\* More backticks in a row than BODY_LIMIT leaves room for.
LongRun(body) ==
    \E run \in Vals(body, "ticks") \cup Vals(body, "info") : run > HardLimit - BodyLimit

\* filer.py:60-62, a body over GitHub's limit "would otherwise mean the error is
\* never filed at all", and filer.py:83-85, the closing fence is "as long as the
\* opener", which the distance of the two limits "absorbs": nothing a filing
\* sends is refused for its size, after any number of cuts, refreshes and edits,
\* unless the text has a run of backticks longer than that distance.
OnlyLongFencesRefused ==
    /\ \A e \in Event : \A text \in {BuildBody(e), OccurrenceComment(e)} :
          Size(Clip(text)) <= HardLimit \/ LongRun(text)
    /\ \A w \in Worker :
          Holds(w) => \/ Size(Patched(job[w].event, job[w].copy).body) <= HardLimit
                      \/ LongRun(job[w].copy.body)

\* Just the quoted lines are inside of a code block, fences of blocks aside.
Renders(text) ==
    /\ OpenFence(text) = 0
    /\ \A k \in DOMAIN text :
          (text[k].kind # "ticks" \/ text[k].quoted) =>
              (text[k].quoted <=> OpenFence(SubSeq(text, 1, k - 1)) # 0)

\* context.py:152, "a code fence that its own backticks cannot close", and
\* filer.py:73, "without breaking its markdown": what is quoted from the error
\* renders as code and nothing else does, after any number of cuts.
QuotedStaysQuoted ==
    Renders(issue.body) /\ \A e \in Event : Renders(Clip(OccurrenceComment(e)))

\* filer.py:119-127: the Latest version row is there exactly when the version
\* that last reported the error is not the one first filed, once, and names it.
LatestVersionTruthful ==
    (Exists /\ ~ overlapped /\ ~ Did("strip") /\ ~ Did("unversion")) =>
        /\ Cardinality(Places(issue.body, "latest")) <= 1
        /\ Vals(issue.body, "latest") = {running} \ {0, issue.body[At(issue.body, "version")].val}

\* filer.py:102, "preserving human edits": what a person wrote, retitled or
\* removed while nobody had a copy out stays so for good.  Only text below a
\* body that is cut goes with the cut.
EditsSurvive ==
    LET people == Vals(issue.body, "human")
    IN  /\ DidUnseen("top") => 1 \in people
        /\ DidUnseen("below") => 2 \in people \/ Has(issue.body, "note")
        /\ DidUnseen("retitle") => issue.title.stem = "better"
        /\ DidUnseen("strip") => ~ Has(issue.body, "header")
        /\ DidUnseen("unversion") => ~ Has(issue.body, "version")
=============================================================================
