------------------------------ MODULE Service ------------------------------
(***************************************************************************)
(* app.py and pipeline.py: the OTLP receiver, the bounded work queue, the  *)
(* workers that run Pipeline.handle, and the shutdown; and, as far as they *)
(* meet it, the collector in front of the service.                         *)
(*                                                                         *)
(* asyncio: code between two awaits runs alone, so a request is one step   *)
(* from its decoded body to its answer, and a worker's steps end at the    *)
(* call of the model and at the delivery.  An error is represented by its  *)
(* fingerprint, if it has one: text with a lone surrogate, which JSON can  *)
(* carry, cannot be encoded and so not be hashed.  The throttle is module  *)
(* Suppressor; here it is a set of fingerprints inside their window, and   *)
(* may refuse for its other reasons whenever it likes.  What a delivery    *)
(* does is module IssueFiler.                                              *)
(***************************************************************************)
EXTENDS Integers, Sequences, FiniteSets, Functions

CONSTANTS
    Worker,         \* WORKER_COUNT tasks
    Fp,             \* fingerprints
    Garbled,        \* errors that cannot be fingerprinted
    Routed,         \* those whose service has a repository
    QueueSize,      \* QUEUE_MAXSIZE
    CacheSize,      \* ENRICHMENT_CACHE_SIZE
    Batch,          \* the exports the collector may send: their errors, and
                    \* what is wrong with the request that carries them
    MaxErrors,      \* bound: errors the collector is given
    MaxRepeats,     \* bound: answers that do not reach the collector
    MaxStarts,      \* bound: starts of the process
    MaxCrashes      \* bound: how often it is killed

\* _REJECT_REASONS, or nothing.
Sound == "sound"
Defect == {Sound, "too_large", "bad_encoding", "unsupported_content_type", "malformed"}

Error == Fp \cup Garbled

ASSUME ServiceConstants ==
    /\ IsFiniteSet(Worker)
    /\ Fp # {} /\ Fp \cap Garbled = {}
    /\ {QueueSize, CacheSize} \subseteq Nat \ {0}
    /\ Routed \subseteq Fp
    /\ Batch \subseteq [errors : Seq(Error) \ {<<>>}, defect : Defect]
    /\ {MaxErrors, MaxRepeats, MaxStarts, MaxCrashes} \subseteq Nat

VARIABLES
    phase,          \* "down", "running" or "draining"
    queue,          \* self.queue
    unfinished,     \* the queue's count of items without a task_done
    job,            \* job[w]: what worker w is awaiting, and for which error
    cache,          \* _enrichments, least recently used first
    held,           \* the throttle: fingerprints inside their window
    metrics,        \* Metrics, with dropped_backpressure as shed; accepted is
                    \* history: the errors taken that have a fingerprint
    export,         \* the batch the collector's exporter is sending
    spent,          \* how much of each bound is spent
    missed          \* history: of the accepted errors, those forgotten at an end

process == <<phase, queue, unfinished, job, cache, held, metrics>>
vars == <<process, export, spent, missed>>

NoExport == [errors |-> <<>>, defect |-> Sound]

Waiting == [pc |-> "get", fp |-> CHOOSE f \in Fp : TRUE]

NoMetrics ==
    [accepted |-> 0, shed |-> 0, refused |-> 0, suppressed |-> 0, unrouted |-> 0,
     filed |-> 0, failed |-> 0]

Empty ==
    /\ queue' = <<>> /\ unfinished' = 0
    /\ job' = [w \in Worker |-> Waiting]
    /\ cache' = <<>> /\ held' = {} /\ metrics' = NoMetrics

Init ==
    /\ phase = "down"
    /\ queue = <<>> /\ unfinished = 0
    /\ job = [w \in Worker |-> Waiting]
    /\ cache = <<>> /\ held = {} /\ metrics = NoMetrics
    /\ export = NoExport
    /\ spent = [errors |-> 0, repeats |-> 0, starts |-> 0, crashes |-> 0]
    /\ missed = 0

Busy(w) == job[w].pc # "get"

BusyWorkers == {w \in Worker : Busy(w)}

\* How many of some errors have a fingerprint.
Known(errors) == Cardinality({k \in DOMAIN errors : errors[k] \in Fp})

\* Of these, what the process has taken and not settled, and what it has.
Pending == Known(queue) + Cardinality(BusyWorkers)

Settled == metrics.suppressed + metrics.unrouted + metrics.filed + metrics.failed

(***************************************************************************)
(* The collector: an exporter with a retry queue.  It repeats an export    *)
(* until it is answered; 200 settles it, partial_success included, and the *)
(* rejected records of a partial success are not sent again (OTLP).        *)
(***************************************************************************)
Export(batch) ==
    /\ export = NoExport
    /\ spent.errors + Len(batch.errors) <= MaxErrors
    /\ export' = batch
    /\ spent' = [spent EXCEPT !.errors = @ + Len(batch.errors)]
    /\ UNCHANGED <<process, missed>>

(***************************************************************************)
(* receive_logs: refuse, or enqueue each error and count what does not     *)
(* fit.  The answer may be lost on its way.                                *)
(***************************************************************************)
Answer(answered) ==
    /\ phase = "running"
    /\ export # NoExport
    /\ answered \/ spent.repeats < MaxRepeats
    /\ export' = IF answered THEN NoExport ELSE export
    /\ spent' = [spent EXCEPT !.repeats = IF answered THEN @ ELSE @ + 1]

\* A body too large, an encoding or a content type unknown, a body that does
\* not decode: 4xx, which the collector does not send again, and before
\* anything is taken from the export.
Refuse(answered) ==
    /\ Answer(answered)
    /\ export.defect # Sound
    /\ metrics' = [metrics EXCEPT !.refused = @ + 1]
    /\ UNCHANGED <<phase, queue, unfinished, job, cache, held, missed>>

Fits(errors) ==
    LET room == QueueSize - Len(queue)
    IN  IF Len(errors) < room THEN Len(errors) ELSE room

Receive(answered) ==
    LET n == Fits(export.errors)
        taken == SubSeq(export.errors, 1, n)
        rejected == Len(export.errors) - n
    IN  /\ Answer(answered)
        /\ export.defect = Sound
        /\ queue' = queue \o taken
        /\ unfinished' = unfinished + n
        /\ metrics' = [metrics EXCEPT !.accepted = @ + Known(taken), !.shed = @ + rejected]
        /\ UNCHANGED <<phase, job, cache, held, missed>>

(***************************************************************************)
(* A worker: queue.get, Pipeline.handle, task_done.                        *)
(***************************************************************************)
Up == phase \in {"running", "draining"}

Count(outcome) == metrics' = [metrics EXCEPT ![outcome] = @ + 1]

\* task_done and back to queue.get.
Done(w) ==
    /\ job' = [job EXCEPT ![w] = Waiting]
    /\ unfinished' = unfinished - 1

Get(w) ==
    /\ Up
    /\ ~ Busy(w)
    /\ queue # <<>>
    /\ queue' = Tail(queue)

\* Step 2 raises: fp.compute encodes what cannot be encoded.  _worker logs the
\* exception and goes on; no outcome is counted.
Unhandled(w) ==
    /\ Get(w)
    /\ Head(queue) \in Garbled
    /\ Done(w)
    /\ UNCHANGED <<phase, cache, held, metrics, export, spent, missed>>

\* Steps 1-3: the throttle refuses.  Inside its window it always does,
\* otherwise for its rate or its budget.
Suppress(w) ==
    /\ Get(w)
    /\ Head(queue) \in Fp
    /\ Done(w)
    /\ Count("suppressed")
    /\ UNCHANGED <<phase, cache, held, export, spent, missed>>

\* A bug to be caught: the exception ends the worker.
DropUnroutedDying(w) ==
    /\ Get(w)
    /\ Head(queue) \in Fp \ (held \cup Routed)
    /\ job' = [job EXCEPT ![w].pc = "dead"]
    /\ UNCHANGED <<phase, unfinished, cache, held, metrics, export, spent, missed>>

\* Step 4: admitted, so the window has begun, but the error has no repository.
\* drop_unrouted decides whether handle returns or raises; _worker survives
\* both.
DropUnrouted(w) ==
    /\ Get(w)
    /\ Head(queue) \in Fp \ (held \cup Routed)
    /\ held' = held \cup {Head(queue)}
    /\ Done(w)
    /\ Count("unrouted")
    /\ UNCHANGED <<phase, cache, export, spent, missed>>

\* A bug to be caught: task_done as soon as the item is taken.
StartFilingDone(w) ==
    /\ Get(w)
    /\ Head(queue) \in Routed \ held
    /\ job' = [job EXCEPT ![w] = [pc |-> "enrich", fp |-> Head(queue)]]
    /\ unfinished' = unfinished - 1
    /\ UNCHANGED <<phase, cache, held, metrics, export, spent, missed>>

\* self._enrichments.move_to_end(f).
MovedToEnd(f) ==
    LET at == CHOOSE i \in DOMAIN cache : cache[i] = f
    IN  [i \in DOMAIN cache |-> IF i < at THEN cache[i]
                                ELSE IF i < Len(cache) THEN cache[i + 1]
                                ELSE f]

\* Steps 5 and 6: a title from the cache, or a call of the model.
StartFiling(w) ==
    LET f == Head(queue)
        cached == f \in Range(cache)
    IN  /\ Get(w)
        /\ f \in Routed \ held
        /\ held' = held \cup {f}
        /\ job' = [job EXCEPT ![w] = [pc |-> IF cached THEN "deliver" ELSE "enrich",
                                      fp |-> f]]
        /\ cache' = IF cached THEN MovedToEnd(f) ELSE cache
        /\ UNCHANGED <<phase, unfinished, metrics, export, spent, missed>>

\* A bug to be caught: the length is looked at before the entry is made.
CachedTooLate(f) ==
    LET shorter == IF Len(cache) > CacheSize THEN Tail(cache) ELSE cache
    IN  IF f \in Range(cache) THEN cache ELSE Append(shorter, f)

\* self._enrichments[f] = ..., popping the least recently used when too long.
\* An entry another worker has made meanwhile keeps its place.
Cached(f) ==
    LET longer == IF f \in Range(cache) THEN cache ELSE Append(cache, f)
    IN  IF Len(longer) > CacheSize THEN Tail(longer) ELSE longer

\* The model answers, or the fallback title (timeout, refusal, any error)
\* stands in, which is not cached.
Enriched(w) ==
    /\ Up
    /\ job[w].pc = "enrich"
    /\ job' = [job EXCEPT ![w].pc = "deliver"]
    /\ cache' \in {cache, Cached(job[w].fp)}
    /\ UNCHANGED <<phase, queue, unfinished, held, metrics, export, spent, missed>>

\* A bug to be caught: the counter belongs to the branch that files.
DeliverUncounted(w, outcome) ==
    /\ Up
    /\ job[w].pc = "deliver"
    /\ IF outcome = "filed" THEN Count(outcome) ELSE UNCHANGED metrics
    /\ Done(w)
    /\ UNCHANGED <<phase, queue, cache, held, export, spent, missed>>

\* Step 7: a FiledIssue (created, commented, reopened, skipped) or any
\* exception, which handle counts and swallows.
Deliver(w, outcome) ==
    /\ Up
    /\ job[w].pc = "deliver"
    /\ Count(outcome)
    /\ Done(w)
    /\ UNCHANGED <<phase, queue, cache, held, export, spent, missed>>

Handle(w) ==
    \/ Unhandled(w) \/ Suppress(w) \/ DropUnrouted(w) \/ StartFiling(w) \/ Enriched(w)
    \/ \E outcome \in {"filed", "failed"} : Deliver(w, outcome)

\* A suppression window runs out.
WindowEnds(f) ==
    /\ f \in held
    /\ held' = held \ {f}
    /\ UNCHANGED <<phase, queue, unfinished, job, cache, metrics, export, spent, missed>>

(***************************************************************************)
(* start, stop, and the process being killed.                              *)
(***************************************************************************)
Start ==
    /\ phase = "down"
    /\ spent.starts < MaxStarts
    /\ phase' = "running"
    /\ spent' = [spent EXCEPT !.starts = @ + 1]
    /\ UNCHANGED <<queue, unfinished, job, cache, held, metrics, export, missed>>

\* The server has stopped accepting requests; stop() waits for queue.join.
BeginStop ==
    /\ phase = "running"
    /\ phase' = "draining"
    /\ UNCHANGED <<queue, unfinished, job, cache, held, metrics, export, spent, missed>>

Exit ==
    /\ phase' = "down"
    /\ missed' = missed + Pending
    /\ Empty

\* join returns once every item got its task_done; the workers are cancelled.
Joined ==
    /\ phase = "draining"
    /\ unfinished = 0
    /\ Exit
    /\ UNCHANGED <<export, spent>>

\* join takes longer than 10 s: the workers are cancelled where they await.
DrainTimesOut ==
    /\ phase = "draining"
    /\ Exit
    /\ UNCHANGED <<export, spent>>

Crash ==
    /\ Up
    /\ spent.crashes < MaxCrashes
    /\ Exit
    /\ spent' = [spent EXCEPT !.crashes = @ + 1]
    /\ UNCHANGED export

\* The service stays down in this instance.
Quiet ==
    /\ phase = "down"
    /\ spent.starts = MaxStarts
    /\ UNCHANGED vars

Next ==
    \/ \E batch \in Batch : Export(batch)
    \/ \E answered \in BOOLEAN : Receive(answered) \/ Refuse(answered)
    \/ \E w \in Worker : Handle(w)
    \/ \E f \in Fp : WindowEnds(f)
    \/ Start \/ BeginStop \/ Joined \/ DrainTimesOut \/ Crash \/ Quiet

Spec == Init /\ [][Next]_vars

(***************************************************************************)
(* The event loop runs ready workers; the model call has a timeout and so  *)
(* has every request of a delivery, whose retries are bounded.  Nothing is *)
(* assumed of the collector or of those who start and stop the service.    *)
(***************************************************************************)
FairSpec == Spec /\ \A w \in Worker : WF_vars(Handle(w))

(***************************************************************************)
(* Properties.                                                             *)
(***************************************************************************)
Metrics ==
    [accepted : Nat, shed : Nat, refused : Nat, suppressed : Nat, unrouted : Nat,
     filed : Nat, failed : Nat]

Job == [pc : {"get", "enrich", "deliver"}, fp : Fp]

Spent ==
    [errors : 0..MaxErrors, repeats : 0..MaxRepeats, starts : 0..MaxStarts,
     crashes : 0..MaxCrashes]

\* The variables have their types, and what a worker has in hand has a
\* repository.
TypeOK ==
    /\ phase \in {"down", "running", "draining"}
    /\ queue \in Seq(Error) /\ Len(queue) <= QueueSize
    /\ unfinished \in Nat
    /\ job \in [Worker -> Job]
    /\ \A w \in BusyWorkers : job[w].fp \in Routed
    /\ cache \in Seq(Routed) /\ IsInjective(cache) /\ Len(cache) <= CacheSize
    /\ held \subseteq Fp
    /\ metrics \in Metrics
    /\ export \in Batch \cup {NoExport}
    /\ spent \in Spent /\ missed \in Nat

\* /metrics accounts for every error the queue took that has a fingerprint: it
\* is waiting, being handled, or counted under exactly one outcome (Metrics,
\* _worker's finally), whatever errors without one there are between them.
EveryErrorAccounted == metrics.accepted = Pending + Settled

\* app.py:137, "Give in-flight work a moment to finish": a stop that was not
\* cut short by its timeout leaves nothing behind, neither in the queue nor in
\* the hands of a worker.
CleanStopLosesNothing ==
    [][(phase = "draining" /\ unfinished = 0 /\ phase' = "down") =>
           queue = <<>> /\ BusyWorkers = {}]_vars

\* Whatever a worker meets (an unroutable error, one that cannot be hashed, a
\* failed filing, no answer of the model), it goes back to the queue: a full
\* queue does not stay full and the service does not shed for ever.
FullQueueMoves == Len(queue) = QueueSize ~> Len(queue) < QueueSize

\* All of it together, as a reader of /metrics and of the 200s would have it:
\* every accepted error that has a fingerprint is settled once and under one
\* outcome, the service keeps settling while it has any, and what a process
\* ends with is lost (ErrorLedger).
Ledger == INSTANCE ErrorLedger WITH
    up <- phase # "down",
    accepted <- metrics.accepted,
    pending <- Pending,
    settled <- Settled,
    missed <- missed

ImplementsLedger == Ledger!Spec
=============================================================================
