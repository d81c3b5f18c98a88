# Formal verification of err2issue

err2issue receives OpenTelemetry error logs from a collector and files each
distinct error as one GitHub issue. This directory holds TLA+ models of its
stateful parts, the TLC configurations that check them on small instances, and
TLAPS proofs of the results that hold for every value of the constants. All
paths below are relative to the repository; `filer.py:249` means
`src/err2issue/github/filer.py`, line 249.

    tlc -config filer_faults.cfg MCFiler.tla        # a run
    tlapm SuppressorProofs.tla                      # the proofs

## 1. The system

```
collector --OTLP--> app.py receive_logs --> queue --> 4 workers
                                                        |
   suppress.py <-- Pipeline.handle (pipeline.py) -------+--> ai.py
                        |
                        v  sinks.py
                   IssueFiler (github/filer.py) --> GitHubClient (github/client.py)
                                                       |  github/auth.py
                                                       v
                                                    GitHub <-- people, other replicas
```

| Component | State | Operations | Talks to | What makes it correct | Module |
|---|---|---|---|---|---|
| Filer, `github/filer.py` | none of its own between filings except the comment budget and the availability map; the truth is in GitHub | `file`: lookup, label claim, re-query, create, record an occurrence | client; concurrently with other filers and people | one issue per error up to a stated bound, a truthful count, people's decisions stand, every filing lands | `IssueFiler`, `FilerRequirements`, `FilerProofs` |
| Availability, `filer.py:267-318` | `_unavailable`: repository -> deadline | mark, unmark, cooling down, health | filer; shared by the workers | skip only for a recent 410, notice recovery | `RepoAvailability`, `DestinationProofs` |
| Comment budget, `filer.py:131-159` | stamps per issue, in a bounded LRU table | `allow` | filer, behind the throttle | at most n routine comments an hour and issue, whatever the table forgets | `CommentBudget`, `CommentBudgetProofs` |
| REST client, `github/client.py` | none | `request` with retries, five endpoints | auth, GitHub | a retry does no harm, every request ends | `IssueFiler` (per request), `Credentials` (401) |
| Credentials, `github/auth.py` | `_tokens`, `_installations` | `token_for`, `invalidate` | GitHub | revoked credentials are noticed and cost little | `Credentials`, `CredentialsProofs` |
| Suppression, `suppress.py` | two bounded LRU tables, token bucket, daily counters | `check` | pipeline | once a window, bounded rate, daily ceiling, whatever is evicted | `Throttle`, `Suppressor`, `SuppressorProofs` |
| Service, `app.py` | queue, workers, counters | `receive_logs`, `enqueue`, `_worker`, `start`, `stop` | collector, pipeline | no error unaccounted for that has a fingerprint, a clean stop loses nothing, workers survive | `ErrorLedger`, `Service`, `ServiceProofs` |
| Pipeline, `pipeline.py` | enrichment cache, metrics | `handle` | suppressor, router, enricher, sink | each error that can be fingerprinted has exactly one outcome | `ErrorLedger`, `Service` |
| Enricher, `ai.py`; sinks, `sinks.py` | none | a call with a timeout; a delivery | model; filer | never fatal | `Service`, as outcomes |
| Trace buffer, `context.py:33-69` | bounded LRU of log lines | `add`, `get` | service, pipeline | lines of the right trace, the latest ones | `Context`, `ContextProofs` |
| Issue text, `context.py`, `filer.py:72-128` | title and body, on GitHub | building, refreshing, clipping, parsing; people's edits | filer, people | count, header and rows agree, code blocks hold together, nothing outgrows GitHub's limit, people's edits stay | `IssueText`, `IssueTextProofs` |
| OTLP decoding, `otlp.py` | none | `decode_protobuf`, `decode_json`, `to_events` | service | errors told from context whatever their encoding, one id per trace | `Context`, `ContextProofs` |
| Routing, `routing.py` | the rules | `resolve`; an operator edits the rules | pipeline | the most specific rule, and no other service moved | `Routing`, `Identity`, `DestinationProofs` |
| Fingerprinting, `fingerprint.py` | none | `top_frame`, `fingerprint_parts` | pipeline | same place, same fingerprint, in every build | `Fingerprint`, `Identity`, `DestinationProofs` |
| Redaction, configuration | none | pure functions | | | not modelled, see section 8 |

What is hard here: several filers (replicas, or workers of one process when a
filing outlasts the suppression window) and people act on one issue with an
await between any two requests; every request may fail, or succeed with its
answer lost and then be sent again; a process may die between two requests;
decisions are taken on a looked-up copy; caches (tokens, installation ids,
availability marks, tables bounded by eviction) may be stale when used; the
queue may be full and the process may be stopped at any point. The hazards are
listed with their lines and the properties that cover them in `PROJECT.json`.

## 2. The modules

`GitHubStore` is GitHub's side, as operators on a record: the labels, the
issues, and for each issue how many were updated after it, which is all the
filer sees of `updated_at`. GitHub is not part of the repository; the operators
are what `client.py` sends and what `filer.py` relies on (a label is created by
exactly one caller, `POST /issues` always makes an issue, a PATCH writes
absolute values). Three fields of an issue are history that no operator of the
filer reads: `hits` (filings that wrote to it), `reopened`, `announced`.

`IssueFiler` runs one filing per replica, one HTTP request a step: `Lookup`,
`ClaimLabel`, `Requery` (with the growing sleep of the loop, in units of
`CLAIM_BACKOFF_SECONDS`), `StyleExtraLabels`, `CreateTheIssue`,
`RejectAssignees`, `UpdateTheIssue` (title, header, state in one PATCH, from
the copy `snap` taken at the lookup), `CommentOnTheIssue`, `IssueGone`. The
retry loop of the client is `RequestFails` (not executed), `AnswerLost`
(executed, sent again), both up to `MaxAttempts`, and `RaisesAtOnce`. The
environment crashes a replica, edits an issue as a person would, and lets time
pass. `FilerRequirements` states what is promised; `MCFiler` adds the symmetry
set.

`RepoAvailability` keeps, per repository, the time left of its mark, and
follows each filing only as far as it meets a 410 or succeeds.

`Suppressor` is `check()` in one step (it runs under a lock), as its three
refusals and the admission. Ordered dictionaries are functions whose entries
carry the number of the admission that last moved them. The bucket is scaled to
stay integral. `last`, `newOn` and `mark` are history; `mark` is an observer that
may start counting at any moment, so an invariant about `mark` speaks about
every interval.

`Throttle` is what the suppressor promises, without tables that forget and
without a moment of the last refill: credit flows in as time passes, an
admission costs a token of it, waits for the error's own window and is charged
to the day when the error passes for new. `Suppressor` implements it
(`ImplementsThrottle`) with a mapping of the bucket to the credit it would hold
now; it does so only while its tables are large enough, as in the instance.

`CommentBudget` extends `Throttle`: an admitted error occupies a worker until
its filing asks for a comment, so the order of the budget's table is not the
order of the admissions. `TableLargeEnough` bounds what may come between two
calls for one issue: what the throttle lets through in an hour and what the
other workers held before. The instance has the smallest table that satisfies
it; one entry less and `RoutineCommentsCapped` fails. The shipped values (30 a
minute, 4 workers, 5000 issues) satisfy it with 1833 against 5001;
`max_dispatches_per_minute` above about 82 would not.

`IssueText` is what the filer writes and reads back. A body is a sequence of
lines known by their kind; the machine header, the Occurrences, Version and
Latest version rows carry their value, and runs of backticks their length.
`Marker` and `Fence` are `fence()`, `Clip` is `_clip`, `Refresh` is
`_refresh_body`, and `Patched` the PATCH of `_record_occurrence`, made of the
copy a worker holds since its lookup. Bodies have a size (`Size`), to which a
run of backticks adds its length and a text its own: `Clip` keeps what fits
below `BodyLimit` with the note, and then closes an open block by a fence as
long as the one that opened it, whatever that does to the size. GitHub takes
what is at most `HardLimit` long and refuses the rest, which ends the filing. People write above and below, retitle,
strip the header and delete the Version row.

`Routing` and `Fingerprint` are pure definitions: `Resolve` with its
exact names, globs and default, and `TopFrame` with `Parts`. The sort of the
globs is stable, so its first match is the most specific one and, where that
ties, the one listed first (`Foremost`).
A pattern is the set of services it matches and the length of its literal
prefix; a line of a stack is its kind, what it names and what in it differs
between builds or occurrences. `Identity` puts them behind programs that fail
(Python and others, through several call paths, with chained exceptions, in
builds with and without sources) and an operator who adds and removes rules.

`ErrorLedger` is what the service promises of an accepted error that it can
tell from others, that is, one with a fingerprint: it is settled once and sooner
or later, unless the process ends first. `Service` implements it
(`ImplementsLedger`), liveness included.

`Service` composes the receiver, the queue, the workers running
`Pipeline.handle`, start and stop, with the collector in front. An export is
sound or has a defect for which it is refused before anything is taken. The throttle is
here the set of fingerprints inside their window and may refuse for its other
reasons at will; a delivery succeeds or fails. An error of the constant
`Garbled` has no fingerprint: `fp.compute` raises, `_worker` logs it and takes
the next (`Unhandled`), and no outcome is counted. `Known` counts the errors that
have one, and `metrics.accepted`, a history variable, does so too. One step is what runs between
two awaits.

`Context` follows a record from its encoding to the lines an issue shows:
normalization of ids and severities, the two passes of `receive_logs` that are
paired by position, `TraceBuffer`, and the read when a worker takes the error.
A record is what its sender meant and how it was encoded; `log` remembers what
was meant by the records taken as context, and the properties compare the
buffer with it. A line is its place in `log`, and the buffer maps each trace to
its lines: the order of the `OrderedDict`, which `add` keeps by moving the trace
to the end, is the order of the traces' last lines, so `LeastActive` is what
`popitem(last=False)` removes. Selections (`Events`, `Lines`) are the places of a
batch that satisfy a condition, in order.

`Credentials` follows the requests of `AppTokenProvider` message by message
together with the 401 branch of `GitHubClient.request`. A token is held by a
request from the answer that minted it to the answer of the request itself; a
network failure (`Trouble`, `AuthTrouble`) uses up attempts or ends a request.

A module `XProofs` holds the theorems about module `X` and extends it (section
5), with two exceptions: `FilerProofs` is about `FilerRequirements`, and
`DestinationProofs` about what decides where an error goes, `RepoAvailability`
and `Identity`.

## 3. What the runs check

| Run | Instance | Shows |
|---|---|---|
| `filer_faults` | 2 replicas, 3 filings, one failed request, one lost answer, one crash, one person closing or deleting | `DuplicateNeedsSlowWinner`: apart from issues of a repeated POST, two issues need a label that stood without an issue for the losers' whole loop, or a deletion; `NeverOvercounts`; `OrphanedLabelHeals`; `FilingEnds` |
| `filer_humans` | 2 replicas, 4 filings, 3 edits (close, decline, reopen, retitle, strip the header), refused assignees | `EveryFilingLands`, `EveryReopenAnnounced`, `CloseDuringFilingStands` |
| `avail` | 2 workers, 2 repositories, cooldown 2, three switches of the setting | `SkippingHasRecentCause`, `StillBrokenRearms`, `RecoveryIsNoticed` |
| `suppressor` | 5 fingerprints, tables of 3, window 3, 2 days, 8 ticks | `TablesAgree`, `AdmissionsBounded`, `DailyCeiling`, `OnceAWindow`, and `ImplementsThrottle`, which has them together |
| `service` | 2 workers, queue of 1, 3 fingerprints of which 2 routed, an error that cannot be fingerprinted, cache of 1, 3 errors, a repeated export, exports that cannot be read, 2 starts, a crash | `EveryErrorAccounted`, `CleanStopLosesNothing`, `FullQueueMoves`, `ImplementsLedger` |
| `context` | 3 traces, buffer of 2 traces of 2 lines, 13 kinds of record, exports of 1 or 2, 6 lines | `BufferRemembers`, `NothingStitched`, `ErrorsRecognized` |
| `credentials` | 2 requests at a time of 2 attempts each, 2 repositories, a revocation, a reinstallation, a network failure | `RevocationCostsFew`, `RevocationIsNoticed` |
| `comments` | 4 issues, a table of 3, 2 workers, an hour of 2 ticks, 5 ticks | `RoutineCommentsCapped`, `RefusedOnlyWhenSpent` |
| `issue_text` | 2 workers, 3 recordings of 3 errors (one quoting Markdown, one without a version), bodies cut at a size of 12 and refused beyond 15, one line longer than that, 2 edits, a lost answer | `OnlyLongFencesRefused`, `CountIsExact`, `QuotedStaysQuoted`, `LatestVersionTruthful`, `EditsSurvive` |
| `identity` | 3 services, 2 functions, stacks of up to 3 with a cause, 2 builds, 2 errors compared; up to 3 of 5 rules | `OneFingerprintPerSite`, `RouteMovesOnlyForItsRule` |

The `TypeOK` of a module that has one is checked along, save for `IssueText`, where it is proved only. The remaining two runs are expected
to find a violation; they show where the code does not do what a comment or a
document says, and are described in section 6.

Every bound is a constant named `Max...` and appears only in the guard of the
action it bounds (and `LostCap`, where the history of `Credentials` stops
counting, one above what its property allows). Why they are enough: the filer's races need two filers of one
error (a third only repeats the second's role: it loses the same claim or reads
the same copy) and one fault of each kind; fingerprints do not interact in the
filer (each has its own label and issues), so one is enough. The suppressor
needs more fingerprints than its tables hold. With two
workers and a queue of one, three errors fill everything; two routed
fingerprints overflow a cache of one. Six lines let a trace be crowded out
of a buffer of two, come back and fill its bucket. In the credentials two repositories of one
installation are what makes ids and tokens diverge. Three recordings let a
version come, change and return; bodies of size 12 are cut inside each of the
fences the errors bring, and again after an edit, and with 3 more until GitHub
refuses them, the longer of these fences overflow when they close a cut. Whether two errors share a
fingerprint is a question about two, so two are compared at a time; three rules
hold a tie, a name listed twice and an order that sorting changes. `ClaimRetries` is the
code's 3; `MaxAttempts` is 2 where the code's is 4, so that running out of
attempts happens within the bounds: with 3, one network failure could not bring
it about.

Two conditions of the properties are worth a word. `EveryFilingLands` and
`EveryReopenAnnounced` are claimed as long as no request has failed, no answer was
lost and no process has died (`Undisturbed`), since each of these does lose
an occurrence or an announcement; the first also while no issue is deleted.
The assumptions on the constants, which TLC evaluates, are named
`...Constants` or like it in the module that declares them. They ask for what a deployment
has: finitely many replicas, workers and repositories, at least one fingerprint
or repository, and two attempts of a request at least.

## 4. Fairness

Safety properties use `Spec` alone. The liveness properties assume only this.

- Filer: every request ends (`client.py` has a timeout) and asyncio runs ready
  tasks, hence weak fairness of a filing's progress and of time. Nothing is
  assumed of people, crashes or errors. `OrphanedLabelHeals` is claimed from
  the moment on when no further fault occurs.
- Availability: also that errors keep arriving for every repository and that
  GitHub is not down for good: a kind of request that is sent to a repository
  again and again is answered again and again (strong fairness). Without it a
  mark could never be renewed or dropped, because only filings do that.
- Service: workers that can run do run, the model call has a timeout and a
  delivery's retries are bounded (weak fairness of each worker). Nothing is
  assumed of the collector or of whoever starts and stops the process.
- Credentials: every request is answered or fails, and errors keep arriving for
  every repository. Tokens need not expire.

## 5. What is proved

Each theorem holds for every value of the constants that satisfies the named
assumptions of its module; where it needs more, the table says so.

| Module | Theorem | Statement |
|---|---|---|
| `FilerProofs` | `TypeCorrect` | `Spec => []TypeOK`; whoever is about to write has a copy of an issue that exists |
| | `LabelMutex` | `DuplicateNeedsSlowWinner`: the honest bound of the label mutex |
| | `CloseStands` | `CloseDuringFilingStands`: a filing reopens only what it saw closed |
| | `CountsHonestly` | `NeverOvercounts` |
| | `ReopensAnnounced` | `EveryReopenAnnounced` |
| | `FilingsLand` | `EveryFilingLands` |
| `DestinationProofs` | `TypeCorrect`, `SkipsHaveCause` | `SkippingHasRecentCause`, for any cooldown |
| | `RoutesMoveForTheirRule` | `RouteMovesOnlyForItsRule`, for any rules |
| | `FingerprintsTellSites` | `OneFingerprintPerSite`, for any programs and builds |
| `SuppressorProofs` | `TypeCorrect`, `TablesAlwaysAgree` | both tables hold the same fingerprints in the same order within their limit |
| | `AdmissionsAlwaysBounded` | from any moment on, at most a full bucket plus the refill since is admitted |
| | `WindowHolds` | two admissions of a fingerprint are a window apart, if `TablesLargeEnough` |
| | `DailyBudget` | no day admits more new fingerprints than the budget, if the wall clock is never set back to an earlier day |
| | `ThrottleImplemented` | under both conditions, `Spec => ImplementsThrottle` |
| `CommentBudgetProofs` | `TypeCorrect`, `RefusalsJustified` | only an issue that had its share is refused a comment, however small the table |
| | `CapHolds` | `RoutineCommentsCapped`, if `TableLargeEnough` |
| `ServiceProofs` | `TypeCorrect`, `ErrorsAccounted` | each accepted error that has a fingerprint is waiting, in work or counted once |
| | `StopsClean` | `CleanStopLosesNothing`: nothing is left in the queue or in hand |
| | `LedgerKept` | `Spec => Ledger!Safety`: the service implements the safety part of `ErrorLedger` |
| `CredentialsProofs` | `TypeCorrect`, `LossesBounded` | `RevocationCostsFew` |
| `ContextProofs` | `TypeCorrect` | the bounds of buffer, buckets and queue; what is kept is of a trace |
| | `BufferFaithful` | `BufferRemembers`: exactly the latest lines of the traces not forgotten |
| | `NoneStitched` | `NothingStitched`: an error is shown lines of its own trace only |
| | `ErrorsKnown` | `ErrorsRecognized`, whatever the encoding |
| `IssueTextProofs` | `TypeCorrect`, `OnlyLongFences` | `OnlyLongFencesRefused`: nothing sent is too long, unless it holds a longer run of backticks than the limits leave room for |
| | `QuotedStays` | `QuotedStaysQuoted`: what an error quotes renders as code and nothing else does, in bodies and comments |
| | `EditsKept` | `EditsSurvive`: what people did while no copy was out stays |
| | `CountExact` | `CountIsExact`, if `CountersFit` |
| | `LatestTruthful` | `LatestVersionTruthful`, if `RowsFit` |

The conditions. `TablesLargeEnough` says that the throttle's tables hold more
fingerprints than the bucket can admit in a window, `TableLargeEnough` the like
of the comment table and an hour. The shipped values satisfy the first by far
(30 a minute and a window of 600 s admit at most 330; the tables hold 10,000)
and the second as said in section 2. But the settings are not limited
(`config.py:74-76`), so both are conditions on the deployment. `CountersFit` and
`RowsFit` say that header and rows stay above the cut: people write fewer lines
on top than `BODY_LIMIT` leaves, which is 65,000 characters. They are as weak as
they can be: with one more edit TLC shows the Occurrences row, or the Latest
version row, cut off, against what `filer.py:75-76` says (section 6).

The arguments, one by one; each is told again at the head of its module.

*Label mutex.* Whoever creates an issue of `f` has won the claim of its label,
when there was neither an issue nor another filing creating one, or has waited
out the losers' loop. So issues and filings about to create one are one together
(`OneWinner`), and a request executed without an answer is paid for by
`used.lost`. A loser in its fall-through has slept `1 + 2 + ... + ClaimRetries`
units, each of which exposed the label or had an issue to be found
(`LosersWaited`). `MutexInv` is these two, the types, and `LabelFirst`.

*Counts, announcements, landings.* A filing writes one more than its copy shows;
copies were honest when taken and hits never fall, so a copy is behind its issue
by at least the filing's own PATCH once that has arrived (`CopyIsOld`). As long
as nothing has failed, a PATCH arrives exactly once and takes its filing to the
comment (`ArrivedOnce`), so the filings about to announce and about to write are
exactly what the histories lack.

*Availability.* Time moves a mark and its cause alike; that a fresh mark is not
older than its cause takes `OffIsNow`, as only a repository whose Issues are off
answers 410.

*Suppression.* `OnceAWindow` is not inductive: it speaks about a fingerprint the
tables may have forgotten. Admissions are numbered, so the number of
admissions since some moment is a difference of two turns. The bucket bounds it
by the time since (`AdmittedSince`), for the observer's mark and for every
fingerprint's last admission. A fingerprint leaves the tables only after
`MaxTracked` others were admitted (`ForgottenLate`). Both together say that it
left at least a window after its admission. The inductive invariant `IInv` is
the conjunction of these, the types, the agreement of the tables and the order
of the history; `InvInit` and `InvStep` show it inductive, one step per action.
The refinement rests on the same facts: `ThrottleAdmit` shows that an admission
was due, paid for and, if new, within the day; `ThrottleStep` that every other
step lets time or the day pass, or is invisible outside (`CreditTick`,
`CreditHeld`: the credit moves only with time and admissions).

*Comment budget.* The shape is the same, but there is no bucket to count with: an
admitted error may stay in a worker's hands. Every comment carries an account
(`Paid`): what was commented on since, together with what the workers still have
in hand, was in hand of the others at the time or has been paid for out of the
throttle's credit since. An issue forgotten within the hour that comes back
would put `MaxIssues` comments and itself on that account, which
`TableLargeEnough` rules out.

*Service.* Every step settles one error, drops one that has no fingerprint,
takes some, ends the process or moves nothing in the books (`Settles`,
`Discards`, `Takes`, `Closes`, `Same`). Two accounts are kept (`Accounts`): of the
errors that have a fingerprint the counters are the other side, and of all
(`Held`) the queue's own count of unfinished items is, on which `StopsClean`
rests. These are also the steps of the ledger, where `Discards` is invisible.

*Credentials.* Losses are counted in advance: a worker is `Charged` when it has
refreshed, or holds a dead token that its refresh would not remove from the
cache. A worker becomes charged only when something is used up for good: a dead
token in the cache, one that was being minted, an id that is out of date
(`Ahead`). `Account` puts what was lost and what is ahead into one sum that only
a revocation or reinstallation raises, and it starts again from there.

*Context.* `BufferRemembers` with the buffer's finiteness (`Remembers`) is
inductive, line by line (`LineKeeps`). The traces active since a trace's last
line are the buffer's later ones (`LaterTraces`), as long as it has not been
forgotten; so the trace with the oldest last line in a full buffer has
`MaxTraces` others after it once the new line is there, no other trace has, and
`LeastActive` evicts exactly the one the new line makes forgotten
(`EvictedIsLast`, `EvictedIsForgotten`). An export is absorbed by counting its
lines: `Counting` is the induction over a number, from well-foundedness, as the
library's rules take an operator. Each decoder, by cases on the notation,
says what was meant (`DecodeFacts`). `NothingStitched` follows as buckets hold
lines of their trace only, and the ids that wait name what was meant (`Genuine`).

*Issue text.* Whether a line is inside a code block depends on the lines above
it only, so a body renders as meant (`Shown`) exactly if each line is quoted when
a block is open there. A fence closes whatever it quotes (`FenceIsBlock`); a cut
keeps a prefix and closes its last block (`ShownClip`); refreshing and editing
touch no quoted line and no fence. What a cut keeps is smaller than `BodyLimit`
with its note (`FittingFacts`), and the fence that closes it is as long as one in
the text (`OpenIsRun`), so only a run longer than `HardLimit - BodyLimit` takes
it too far (`ClipSize`). For header and rows, the invariant is
`Sound`: each at most once, in their order, no further down than their rank plus
the lines written on top, with no wide line before them; so substituting the
first match substitutes the only one, and no cut reaches them while they have
room. What a filing writes is made of its copy alone. Each of the invariants therefore speaks of the issue and of
every copy no PATCH has overtaken: the copy has the edits nobody's copy missed
(`KeptInv`), it counts what was recorded when it was taken, which is one less
than now if its own PATCH has arrived and will be sent again (`CountInv`), it
agrees with itself (`AgreeInv`), and it names the current version until its own
PATCH has named another (`LatestInv`). `PatchedWritten` and `PatchedElse` say
what a PATCH does to each of these, `Edited` what a person does.

*Identity.* `Wins` says which of the rules concerned with a service is resolved
to, without computing it: the last exact name, or a glob that is more specific
than the others or as specific and listed earlier. One exists whenever a rule
is concerned (`WinnerExists`) and `Resolve` returns its repository
(`ResolveWins`). With one rule more, the others keep their order (`Place`), so
the winner of the fewer wins among the more unless the new rule outranks or
ties with it (`WinnerStays`), and both halves of `EditMoves` follow. For the
fingerprints, a trace `EndsIn` a line if that is its last `File` line, and
`StartsIn` one if it is its first frame and there is no `File` line; both
survive what is put before and after them (`EndsJoin`, `StartsJoin`), and
`TopFrame` is that line. Every trace a program prints ends or starts in the
function that raised, whatever called it or was being handled; the detail that
differs between builds is dropped. The library defines `FlattenSeq` and its like
by recursive functions, whose existence is shown from well-foundedness
(`FlatExists`).

Two attempts failed because the property was false, and the counterexample was
then found by TLC. The label mutex needs the excuse of a deletion: with three
replicas, the winner's issue may be deleted before the losers have looked.
And a revocation can cost more than a bound in workers and installations alone
allows: each repository's stale id counts, and a request may lose its second
attempt to the network. The properties, not the models, were corrected.

Every invariant and every action property of the runs is thus stated by a
theorem. Only model-checked are the liveness properties (`OrphanedLabelHeals`,
`FilingEnds`, `StillBrokenRearms`, `RecoveryIsNoticed`, `RevocationIsNoticed`,
`FullQueueMoves` and the fairness of the ledger), for which the provers have no
rules.

## 6. Where code and documents disagree

Two runs exhibit a disagreement; `PROJECT.json` quotes the lines.

- `dup_retry`: a `POST /issues` whose answer is lost is sent again, and one
  error has two issues. It takes one replica and no crash, and is not among the
  causes the honest bound of `filer.py:17-20` names.
- `credentials_reinstall`: after a reinstallation, a repository whose
  installation id is cached while the token is not keeps asking for tokens of
  the old installation; the 404 leaves as `AuthError`, past the branch that
  would invalidate the id.

Reading the models also shows the following; no run claims the opposite.

- An error can be counted under no outcome. `json.loads` (`app.py:206`) accepts
  a lone surrogate in a service name, an exception type or a message; such a text
  cannot be encoded, and `fp.compute` raises (`fingerprint.py:156`) before the
  throttle is asked and outside of the `try` of `handle` (`pipeline.py:225-237`).
  `_worker` logs it (`app.py:131-132`): `error_events` has counted the error, none
  of the outcomes does, and it is never filed. `EveryErrorAccounted` and
  `ErrorLedger` are about the other errors.
- A body can be refused for its size. The comment at `filer.py:83-85` says that
  the distance of `BODY_LIMIT` from GitHub's limit absorbs the closing fence of a
  cut. That fence is as long as its opener, one longer than any run of backticks
  it quotes (`context.py:151-155`), and the distance is 536: cut inside a block
  whose fence is longer, a body exceeds 65,536 characters, GitHub answers 422,
  and the filing fails, as does the next one of the same text. It is what
  `filer.py:60-61` sets out to prevent. `OnlyLongFencesRefused` excepts such text.
- An export is acknowledged when its errors are queued (`app.py:237`), so a
  crash, or a stop whose ten seconds run out, loses errors the collector has let
  go of; `ErrorLedger` counts them in `missed`. `docs/DEPLOY.md:40` expects the
  collector to replay them.
- The throttle begins the window of an error before its delivery
  (`pipeline.py:190`) and a failed delivery does not give it back, so the next
  occurrence is suppressed; `filer.py:271-272` says it is retried on the next
  error.
- An export whose gzip is cut short is answered 500: `_decompress`
  (`app.py:376-379`) catches `OSError` and `zlib.error`, and Python raises
  `EOFError`. The comment at `app.py:217-219` and `docs/GOTCHAS.md:110` want 400.
- `docs/DEPLOY.md:113` says longer globs beat shorter ones. `routing.py`
  compares the literal prefix before the first wildcard, so with its own example
  `cart-worker` goes where `cart-*` points, not `*-worker`, and of `*` and
  `*-worker` the one listed first wins. `RouteMovesOnlyForItsRule` speaks of the
  prefix.
- `fingerprint.py:123-124` takes the first line of a stack without frames "only
  if it is not simply the exception header repeated"; nothing checks that. An
  exception that is logged without having been raised is identified by its
  header, quoted values included, so each value opens an issue of its own. The
  second half of `OneFingerprintPerSite` excludes these.
- A message of several lines that quotes a Python traceback after the real one
  supplies the last `File` line; messages have one line in `Identity`.
- A relative path loses a separator: `src/app/handler.py` becomes
  `srcapp/handler.py`, consistently, so identity does not suffer.
- What a person changes in an issue between a filing's lookup and its PATCH is
  overwritten by it, although `_refresh_body` preserves edits and
  `docs/ISSUE_CONTRACT.md:149-150` says everything else is left as it was.
  `EditsSurvive` speaks of edits made while no copy is out. A body that has grown
  past `BODY_LIMIT` is cut from below at the next occurrence, people's text
  included, and a title longer than 70 characters is shortened by
  `format_title`.
- `filer.py:75-76` says the machine header "is the first line, so it always
  survives" a cut. It is the first line only until a person writes above it: text
  on top as long as `BODY_LIMIT` pushes header and rows below the cut, and the
  counts with them. `CountExact` and `LatestTruthful` state the room they need.
- The rows are recognised only where a line ends in `|` and blanks
  (`filer.py:66-69`). In a body whose lines end in CR LF, as a browser's form
  submits them, none matches: the header's count goes on, the rows stop.
- A deleted Version row leaves the Latest version row as it was for good.
- A version whose text needs more than one pair of backticks or an escaped `|`
  in its cell is never equal to its own Version row, and gets a Latest version
  row at once.
- `sanitize_summary` may cut a model-written summary inside a code block it
  opened; the blocks below are then turned inside out. The summary is not in
  `IssueText`. Likewise `<details>` stays open when a cut lands in the attributes.
- Overlapping filings of one error read the same count, and the later PATCH can
  set the count back. Within one replica this needs a filing that outlasts its
  suppression window.
- A person who declines an issue between the lookup and the PATCH of a filing
  that saw it closed as completed finds it reopened.
- Deleting the only issue of an error while two replicas file it can give two
  issues: each finds the label, waits for a winner that does not exist, and
  creates one. So does any orphaned label.
- A lapsed availability mark is still listed by `health()`, so the gauge
  `docs/DEPLOY.md:241` calls "dropping every error" counts a repository whose
  next error would be tried.
- The context lines are read when a worker takes the error, so lines logged
  after the failure are shown too and may crowd out those before it, which are
  what `README.md:134` promises. `max_context_log_lines = 0` is accepted and
  shows the whole bucket (`[-0:]`).
- A comment refused with 410 counts as a success and drops a mark another
  worker has just made.
- `suppress.py:9-13` says the limits are "checked in order" window, rate, budget;
  `check` asks the budget of new errors before the bucket (`suppress.py:102-125`),
  so an error beyond both counts as `budget`.
- The token bucket starts full, so the worst minute admits twice
  `max_dispatches_per_minute`; exactly the bound of `AdmissionsBounded`.
- Shed records are reported in a partial success, which an OTLP exporter does
  not send again; `app.py:8-10` expects the collector's retry queue to absorb
  them.
- An error of the credentials while the cosmetic labels are created ends the
  filing (`filer.py:357` catches `GitHubError` only), with the label claimed.

## 7. Modelling decisions

- A fingerprint is an atomic value: collisions of the digest are out of scope.
- Time in `IssueFiler` advances only as far as filings wait; `exposed` counts
  how long a label stood without an issue, capped at the losers' waiting time.
- `not_planned` and `duplicate` are one reason, "declined".
- Whether a routine occurrence may comment is a free choice in `IssueFiler`;
  the budget itself is `CommentBudget`, the text of the issue `IssueText`.
- In `Suppressor` time is counted in whole ticks. The code's floating-point
  bucket is exact for these up to rounding, which is not modelled.
- In `Credentials` all repositories belong to one installation, and a token is
  represented by what GitHub would say to it now.
- In `IssueText` a line takes up 1 and what it quotes or runs to besides; the
  note, and the line break before it, are one. A cut falls between lines, as
  `_clip`'s does unless the body has only one. Lines people write take up 1, so
  the room they use is counted by their number.
- `_pick` compares times of whole seconds and breaks ties by number; in
  `IssueFiler` one of two issues is always the one updated last.
- In `Fingerprint` normalization drops the detail of a line and nothing else:
  two functions are never merged by it. Two path segments are taken to tell
  files apart, as `docs/FINGERPRINT.md` argues.

## 8. Not modelled, and the plan

Left out, because they keep no state and interact with nothing a property is
about: the layout of bodies beyond the rows named above, escaping, the model's
prompt and answer, the redaction patterns, JWT signing, the reading and
decompressing of request bodies (their outcome is `Refuse`), the read-only
endpoints, the parsing and checking of settings, and the workflow and dry-run
sinks. `scripts/` belongs to the repository's own maintenance.

What is left to do:

1. Liveness stays with TLC: the provers have no rules for fairness. The safety
   it rests on is proved.
2. Proofs of the operators that are taken as given: the text of a row and of a
   stack line is known by its kind, so that the regular expressions of
   `filer.py:66-69` and `fingerprint.py` recognise just these kinds is not shown.
3. Three hazards have no property, for the reasons `PROJECT.json` gives with
   them: the window consumed by a failed delivery (`pipeline.py:190`), the lines
   read late (`pipeline.py:214`), and the setting of zero lines
   (`context.py:65`). In each the code does what section 6 says.
