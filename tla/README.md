# Verification of the OCR engine

TLA+ models of the OCR document engine (`src/`): the life of a document from the
RPC that inserts it to the event consumers receive, with the failures the code is
exposed to at every `await`, and the way from the pages of a file to the fields a
client reads. TLC checks the models on small instances, and that the detailed ones
implement two abstract contracts; TLAPS proves every safety property, and the
implementation of the contracts, for all instances. Liveness is model-checked.

Sections: [inventory](#inventory), [modules](#modules-and-how-they-match-the-code),
[contracts](#the-two-contracts), [runs](#runs), [disagreements](#where-code-and-documentation-disagree),
[proofs](#proofs), [limits](#what-is-not-modelled), [plan](#plan).

## Inventory

Three processes share Postgres, Redis (SAQ) and Kafka.

| Component | State | Operations | Correct when |
|---|---|---|---|
| `repo/store.py`, `migrations/` | tables `documents`, `outbox_events`; unique index on `idempotency_key` | insert, mark, finish (row + event in one transaction), delete, claim, mark published, list/purge expired | every method is one atomic update |
| `api/servicer.py` | none but the handlers' locals | `SubmitDocument` (insert, enqueue, roll back), `ProcessDocument` (insert, run inline, reread, mark cancelled), `GetDocument` | one accepted document per key; what was answered OK is backed by a row and a job, or by an outcome |
| `pipeline/pipeline.py` | a run's locals | `process_document`: load, mark, work, finish or fail | row and event never part; outcomes are final; one event per document |
| `worker/settings.py` + SAQ | job, attempts | dequeue, retry, sweep; cron job | accepted documents are resolved, or their tries are used up |
| `pipeline/download.py`, `inspect_file.py`, `ocr/baidu.py` | temporary files, the OCR semaphore, the provider's job | download, inspect, OCR page by page, poll | permits conserved, files removed, retryable faults commit nothing, every run ends |
| `events/publisher.py`, `cli/outbox.py` | row locks, the producer's buffer | claim, produce, mark, flush | nothing is sent twice while locks are fresh; everything committed is published |
| `worker/settings.py`, retention | `processed_at`, `result` | list expired, purge | results inside the window stay; expired ones go |
| `events/envelope.py` | - | `build_envelope` | exactly one of `data`, `error` |
| `ocr/baidu.py` `normalize_layout_parsing`, `inspect_file.py` `digitalborn_lines` | - | provider lists, text blocks to lines | a line keeps its own text, score, box and page |
| `extraction/extract.py`, `schema.py` | schemas loaded at boot | rank lines, apply matchers, read typed values | what is found depends on where lines are, not on their order; value, box and confidence are of one line |
| `extraction/validate.py`, `_fill_result` | - | `build_result`, the answer of `GetDocument` | status, issues and confidences explain one another; what was stored can be read |
| `extraction/money.py` | - | `parse_money`, `format_money` | no digit of a well-formed number is lost |
| `settings.py`, `obs/*`, `cli/*`, `api/server.py` | - | configuration, telemetry, wiring | not modelled, or only as constants |

Interaction: the servicer and the runs call the store; the servicer enqueues a job
whose attempts call `process_document`; `ProcessDocument` awaits `process_document`
itself; the publisher reads what `finish_document` committed; the sweep works on the
same table. Nothing else couples the processes.

What is hard here is what happens between two statements: other handlers and
attempts run, the process dies, the task is cancelled (`CancelledError` passes every
`except Exception`), SAQ hands a job out twice, a request takes effect and its
reply is lost. The list of hazards in `PROJECT.json` gives the line at which each
bites and the property that speaks of it.

## Modules and how they match the code

| Module | Models | Used by |
|---|---|---|
| `DocumentStore` | the two tables and the statements on them, `build_envelope` | `DocumentLifecycle` |
| `DocumentLifecycle` | handlers, runs, SAQ jobs over one store | `LifecycleRefinement`, `DocumentLifecycleProofs` |
| `Pipeline` | the inside of one run's `Work`, for the runs of one process | `MCPipeline`, `PipelineProofs` |
| `OutboxPublisher` | publishers over the outbox table, and the Kafka producer | `MCOutboxPublisher`, `OutboxPublisherProofs` |
| `ResultRetention` | the retention sweep | `MCResultRetention`, `ResultRetentionProofs` |
| `MoneyParser` | `money.py` on token sequences | `FieldExtraction`, `MoneyParserProofs` |
| `FieldExtraction` | lines, matchers, validation, the answer of `GetDocument` | `MCFieldExtraction`, `FieldExtractionProofs` |
| `DocumentContract`, `RunContract` | abstract specifications | `LifecycleRefinement`, `Pipeline` |
| `LifecycleRefinement` | the refinement mappings of `DocumentLifecycle` | `MCDocumentLifecycle`, `LifecycleRefinementProofs` |
| `SequenceLemmas` | no code: induction, recursion and sequences for the proofs | the `...Proofs` of `Pipeline`, `ResultRetention`, `MoneyParser` |

The `MC...` modules add symmetry and the statements of the repository that the runs
refute. Definitions keep the names of the source where there is one; `PROJECT.json`
maps each of them to its lines. Definitions introduced as "Mutant of ..." are small
changes of the definition that follows them; no specification uses them. For
every property, TLC finds a violation when one of them takes the place of the
original, so no property holds by the shape of the model alone.

**DocumentLifecycle.** A call is named by the document id it draws (`uuid4`), so
`DocId` counts calls as well as documents. `pc[c]` is the await at which the handler
stands; `run[d][n]` is a run of `process_document`, with `n = 0` for the one
`ProcessDocument` awaits and `n \in 1..MaxTries` for the attempts of the SAQ job.
A run holds what it loaded (`key`) and what it is about to commit (`out`). Every store
call is one action; the reply of a commit is another (`Finish`/`Fail`, then `Return`,
`Raise` or `Cancel`), so that a lost reply is a behaviour. `Rollback` is the `DELETE`, which
may fail, and `Refuse` the answer after it. `Abandon` ends a handler without an answer,
at any await; between the two it leaves no row and no answer (`pc` "cut"). `Crash`
kills a worker's attempt. `disturbed` is a history variable:
it records that attempts of a document overlapped, or that a commit took effect unseen
by its caller, which are exactly the cases in which a second event is possible.
Values are abstract: a result is clean or flagged, an error is told apart by what
raised it, a request is invalid, small or above the synchronous size cap.

`CountsFields` stands for one line. The loop at `pipeline.py:106` reads `field.name` of
what `build_result` made a dict and raises on every result, so that the code as it
stands never commits one: `CountsFields = FALSE`. With `TRUE` the loop is repaired, and
`finish_document` with a result, and everything behind it, takes part. The behaviours
of `TRUE` include those of `FALSE`; the passing runs and the proofs cover it (the
proofs, either value), and the runs of these two modules that refute a claim use
`FALSE`, so that no counterexample needs that repair. (Those with an event take
`DocumentRow.idempotency_key` for the `str` it is declared to be; see the library uses below.)

**Pipeline.** A step is the code between two awaits. Holding the semaphore is a set of
`pc` values; `Release` hands the permit to the oldest waiter, as `asyncio.Semaphore`
of Python 3.12 does. `Transient`, `Permanent` and `Broken` are the classification
of provider answers per call of `baidu.py`; the remaining answers go on, or poll again.
`outcome` has the values of `Work` in `DocumentLifecycle`; `interrupted` is a
cancellation before `download_to_temp` has returned the file.

**OutboxPublisher.** Rows are numbered by `created_at`. `locked` holds the rows whose
`locked_at` is younger than a minute, so the passing of that minute is an action,
`Expire`: free for a row nobody holds, a failure for a row whose publisher is still
at work. The producer is a buffer that a background thread empties at any time.
`Poison` holds rows whose `produce` always raises (`ProduceRaises`).
`defer_outbox_event` and `reclaim_abandoned_outbox` have no caller and no action.

**ResultRetention.** Time appears as the order of completions and the number of
them that have left the window. `Finish` has no guard, as its `UPDATE` has none: a
document may complete again at any time, also one that a sweep has listed and not yet
purged. `overtaken` is a history variable that records just that.

**MoneyParser.** A text is a sequence of tokens, a token a maximal run of digits or one
character that the expression names; "x" is anything else. On maximal runs the
trailing `(?![0-9])` means that a run is taken whole or not at all, which leaves three
places at which a match can end (`DigitsEnd`). A text with several blanks in a row is read
as with one, since a match may start at any of them. The two branches of `parse_money`
compute the same, so they are one. `MaxDigits` is the number of digits that `int()` takes
(4300 since Python 3.11); beyond it, the `except ValueError` returns nothing.

**FieldExtraction.** Four steps, one per stage, on a file and a schema chosen at the
start: `ReadLines` (the text layer, or the zipped and filtered lists of the provider),
`ExtractFields`, `BuildResult`, `GetDocument`. A text is a caption, the words a label may
match, and the tokens behind it. Three libraries are external and given as
relations: which captions are close enough to a label (`Similar`, rapidfuzz), which
hold its beginning literally, and how much longer than the rest of the caption it is
(`Over`: `str.find` on the first six characters, then `len(label)` is cut), and what a
schema's pattern captures. A label that is longer cuts into what follows, digit by digit
(`Cut`); one that is shorter leaves words before it. Scores are integers, `Grid` of which make
the fourth decimal that results are rounded to. `MaxAmount` and `MaxInt` are the largest
int64 and int32: protobuf refuses an amount, a coordinate or a page beyond. `Page`, `Text`, `Matcher` and `FieldSchema`
are the types of what a file and a schema hold.

## The two contracts

`DocumentContract` says what callers and consumers see: a document is opened under a
key no standing document has, resolved together with its event, possibly resolved
again with another event, never reopened, and withdrawn only if its caller was not
told of it; a run that had loaded a withdrawn document may still send an event.
`LifecycleRefinement` maps `DocumentLifecycle` to it: a document is standing when its
row is there, promised when its own call answered OK, withdrawn when its row is gone
and its call is past its `DELETE`, answered (RESOURCE_EXHAUSTED) or not; an event is what
its envelope carries.

`RunContract` says what a run of `process_document` may ask to have committed: one
outcome or nothing, and only a result can be replaced, by an internal failure, after
its commit raised. `DocumentLifecycle` implements it run by run, which is what it takes
`Work`, `Raise` and `Cancel` to do; `Pipeline`, which opens `Work` up into downloads, page
loops, semaphore and exception clauses, implements it, too. That is the link
between the two modules: no path through the stages asks the store for something
the lifecycle does not expect of a run.

## Runs

| Run | Instance | Shows |
|---|---|---|
| `lifecycle_calls` | 2 calls, 1 key, 1 try, symmetric | `TypeOK`, `EventsAreWellFormed`, `AcceptedIsBacked`, `OneAcceptedPerKey`, `ImplementsContract` |
| `lifecycle_retries` | 1 call, 2 tries, fair | `OutcomeMatchesEvent`, `OneEventUnlessDisturbed`, `SuccessMeansResolved`, `TerminalIsFinal`, `AcceptedIsResolved`, `RunsKeepContract` |
| `outbox` | 3 rows, the second poisonous, 2 publishers, batch 2, 1 failure, fair | `TypeOK`, `DuplicateOnlyAfterExpiry`, `PublishedWasProduced`, `CommittedIsPublished` |
| `retention` | 4 documents, batch 2, fair | `TypeOK`, `WindowIsKept`, `OldestArePurged` |
| `pipeline` | 3 runs, 1 permit, 2 pages, 1 chunk, 1 poll, fair | `TypeOK`, `PermitsAreKept`, `OnlyInterruptedLeaveFiles`, `RetryableIsNotCommitted`, `RunsKeepContract`, `EveryRunEnds` |
| `extraction` | about 10000 files, 2 schemas | `TypeOK`, `LinesStayTogether`, `PageIsTheFiles`, `OrderDoesNotMatter`, `AmountIsTheLines`, `NothingBetween`, `StatusIsExplained`, `MoneyIsWhole`, `FormatReadsBack`, `ReadableUnlessHuge` |

Bounds. `MaxTries` is the code's own bound (3 there). Two calls with one key are enough
for every race between callers: a document's state is touched by its own call only,
calls meet in the unique index alone, and a conflict is between two. Two tries give an
overlap, a retry after a commit and an exhausted job. In `outbox`, three rows and a
batch of two leave a row for the second publisher, and `MaxFaults = 1` puts one
failure at any place; the proofs do without these bounds. In `pipeline`, three runs on
one permit make a queue of two. In `retention`, four documents are two batches.
A document completes as often as it likes, so that a sweep is overtaken at every place;
three documents suffice to show the backlog.
In `extraction`, the files are of four families: one line with every sequence of up to
three tokens, and of three runs with two separators (groups of one to four digits),
behind captions as long as a label, longer and shorter; one line with a box at and
beyond the range of coordinates; three lines, among them two captions, in every placement on boxes that touch, overlap,
share a row or are missing; two pages with a text layer, without one on a page, or in
one response, with blank lines, stray glyphs, zero scores and a list cut short. The
two schemas have every kind of matcher and of typed value. `MaxAmount`, `MaxInt` and
`MaxDigits` are small, so that amounts, boxes and numbers reach them; the properties
count relative to them.
`CHECK_DEADLOCK FALSE` is set where the instance ends once its calls are answered.

Fairness. `DocumentLifecycle`: weak fairness of a run's own progress and of SAQ's
dequeue, acknowledgement and sweep. It is what asyncio and a running worker
provide; nothing is assumed of callers, and failures are never fair, so a store that
raises for ever is a behaviour (and exhausts the tries). `OutboxPublisher`: a
publisher's loop goes on, the producer's thread delivers or drops, abandoned locks grow
old, and a row that comes within the reach of a poll again and again is claimed
(strong fairness: a poll every second against locks of a minute; weak fairness would
let the polls always fall into the moments when older rows crowd the row out of the
batch). `Pipeline`: every request is answered or times out (httpx, botocore and the pool
have timeouts). `ResultRetention`: the cron job runs, time passes, and not every
sweep is cut short (strong fairness of `Purge`).

## Where code and documentation disagree

Each of these runs checks one sentence of the repository, and TLC finds the
behaviour of the code that contradicts it; `findings` in `PROJECT.json` quotes the lines.

| Run | Claim | What the code does |
|---|---|---|
| `outbox_at_least_once` | `AtLeastOnce` | a row is marked published when it enters the producer's buffer; the buffer dies with the process |
| `transient_inline` | `TransientIsRetried` | after a transient error in `ProcessDocument` no job exists that could retry |
| `cancel_after_commit` | `CancelledBeforeCompletion` | a cancellation during the reply of the commit overwrites the outcome |
| `rollback_lost_reply` | `RetryIsSafe` | a row is deleted whose job has reached Redis; the retry makes a second event under the key |
| `retention_backlog` | `ExpiredArePurged` | purged rows use up the sweep's `LIMIT`; documents after the first 100 keep their results |
| `field_metrics` | `ExtractedIsCommitted` | the loop over the fields of a result raises on every one; every extracted document is failed |

Found on the way, and stated as they are in the models:

- A 500 or 502 is permanent on the synchronous surface only (`baidu.py:73`), although
  `ProviderTransientError` is documented as "Rate limit, 5xx, timeout, or network
  failure" (`baidu.py:30`) and the README lists 429, 503 and 504; `RetryableIsNotCommitted`
  carries the exception.
- All lines of a scanned PDF are on page 1, and ranking and right neighbours ignore
  pages altogether (`pipeline.py:175`, `extract.py:31`, `:108`); see `PageIsTheFiles`.
- A minus after a label is stripped with the punctuation (`extract.py:103`), and
  `format_money` puts the sign where `parse_money` does not look for it; see
  `AmountIsTheLines` and `FormatReadsBack`.
- Numbers that are neither in groups of up to three digits nor one run with two decimals
  are cut: "27,8001" reads as 27, "1234.567" as 1234, although the docstring calls every
  separator but that of two decimals grouping (`money.py:3`). `OneNumber` is the set of
  numbers that are read whole, not all that the docstring covers. Decimals count as hundredths, without a trace in the result,
  while the contract's amounts are whole rupiah for IDR.
- An optional field below its threshold makes a document `needs_review`, too; the README
  (`:90`) says so of required fields only. `StatusIsExplained` states what the code does.
- A confidence is rounded after it was compared: a field below its threshold may be shown
  at it (in the run's scale, a score of 23 under a threshold of 24 is shown as 24), though
  never above, and an extracted one is never shown below; see `StatusIsExplained`.
- The first six characters of a label are looked for, but its whole length is cut
  (`extract.py:99-102`): under the label "harga jual", "HARGA JL 15.000" yields 5000. See
  `Overlong` in `AmountIsTheLines`.
- `purge_document_results` updates by id (`store.py:182`): a document that completes again
  after the sweep has listed it loses its new result. See `WindowIsKept`.
- Two kinds of tests disagree about events. `envelope.py:21` and
  `tests/unit/test_envelope.py:45,55` have the other one of `data` and `error` omitted, which
  is what the code does and `EventsAreWellFormed` states; `tests/integration/test_submit_flow.py:107`
  and `:150` read the omitted key of the stored payload and expect `None`, where there is
  no such key.
- A label is compared with the lowered text but is not lowered itself, so a label with
  capitals matches little; "total" matches a line that says "subtotal", since
  `partial_ratio` and `find` look at a part of the text.
- The pattern of `total` in `schemas/receipt.yaml` captures the currency prefix first, and
  `group(1)` is what is read (`extract.py:84`): that matcher never yields an amount (the
  group "unset" of `RegexHit`).
- An amount, a coordinate or a page that does not fit the contract's integers is stored
  and published, and `GetDocument` fails on it ever after; see `ReadableUnlessHuge`.

Four uses of libraries deserve a look and are outside the models: the column
`idempotency_key` is a UUID, which asyncpg returns as a `uuid.UUID` unless a codec says
otherwise, and `build_envelope` puts it into what `finish_document` gives to `json.dumps`
(`envelope.py:31`, `store.py:167`; `DocumentRow` declares a `str`), where a `uuid.UUID`
raises and rolls the transaction back: the models take the declared type (so do the
counterexamples of `cancel_after_commit` and `rollback_lost_reply`, in which events are
committed), and have a commit that raises among their behaviours; `saq_settings`
passes `max_tries`, `job_timeout` and `heartbeat` to the worker's settings
(`worker/settings.py:72`), while SAQ takes retries, timeout and heartbeat per job;
`server.grace(5)` (`api/server.py:66`); and the per-job timeout equals
`baidu_poll_timeout`. The models take the intention: a bounded number of tries,
timeouts that cancel, a sweep that may come early.

## Proofs

The modules `...Proofs` are checked by TLAPS (Z3, Zenon, LS4), with no bound on calls,
keys, tries, rows, publishers, documents, runs, permits, pages, tokens, lines, matchers
or batch sizes. Every invariant, action property and refinement that a passing run checks
is stated by a theorem there; `theorems` in `PROJECT.json` pairs them.

Assumptions on constants:

| Assumption | Says | Because |
|---|---|---|
| `MaxTriesAssumption`, `OutboxAssumption`, `BatchAssumption`, `PipelineAssumption` | counts are natural numbers; tries, batches, permits and pages are at least one | checks and defaults in `settings.py` (`:111`, `:149`), `worker/settings.py` and `publisher.py` |
| `CountsFieldsAssumption` | a Boolean; the proofs cover both values | |
| `NullAssumption` | `NULL` is no key, id or row | |
| `PoisonAssumption` | poisonous rows are rows | |
| `SchemaAssumption` | schemas are what `load_schemas` accepts | an invalid one fails the boot |
| `ScaleAssumption` | `Grid` and the score 1.0 are positive, the largest integers natural numbers | |
| `MaxDigitsAssumption` | `int()` takes some number of digits, at least one | 4300 by default |
| `FilesAssumption` | pages are lists of texts, scores and boxes; no score is above 1.0 | scores are probabilities |
| `WordsAssumption` | labels are like captions only, never like digits and punctuation; `Over` counts characters | what a caption is; a label such as ":" is outside the model |

**DocumentLifecycle.** None of the properties is inductive. `IInv` adds, per document:

- `CallInv`: what exists at each point of the handler; before the insert, nothing does;
- `RowInv`: a row carries the key of its call, and a terminal row its result or error;
- `RunInv`: inline and queued runs exclude each other, a run past its load holds
  the key of its call and the outcome it is to commit, and one that has committed finds
  the document resolved (or deleted under it);
- `JobInv`, `ReplyInv`: a job or an answer that says success is backed by the row;
- `EventInv`: events agree with the row and with the key;
- `SoloInv`: while undisturbed, whoever is still to commit is alone and no event
  exists yet. This is what makes the early return in `process_document` sufficient;

and `KeysAreUnique` across documents. The proof shows that a step of one document
leaves the others alone (`CallOthers`, `RunOthers`, `SaqOthers`, `Frame`), so each action
has to be checked for its own document only; `KeysAreUnique` is the one global part,
and only `Insert` can touch it. Theorems: `TypeCorrect`, `OutcomeAndEvent`,
`WellFormedEvents`, `SingleEvent`, `SuccessIsResolved`, `AcceptedStaysBacked`,
`OneDocumentPerKey`, and the action property `OutcomeIsFinal`.

**LifecycleRefinement.** `LifecycleImplementsContract` and `RunsImplementContract`. `IInv` does
not suffice: `RInv` adds that an attempt SAQ has not handed out is idle, that a handler
about to roll back has its row, and that where a job or a run has lost its row, the
handler is past its `DELETE` (`RefinementInv`). Each step is then one of the contract's: the
`INSERT` is `Open`, the `DELETE` is `Withdraw`, an answer of OK is `Promise`, a commit
is `Resolve` while the row is there and `Echo` when it was deleted, and everything
else changes nothing that the contract sees. `KeysAreUnique` is what makes `Open`
legal; the answer after the `DELETE`, and its absence, are no steps of the contract,
whose document is withdrawn already; that a second commit is no violation is what the contract's repeated
resolution is for.

**OutboxPublisher.** `IInv` adds `LoopInv` (what a publisher holds where), `TraceInv`
(what was produced is in a buffer, in the topic, or dropped; only such rows are marked)
and `OnceInv` (a row whose lock never ran out is in at most one loop, and once
produced it is locked or published, so that no poll claims it). Theorems: `TypeCorrect`,
`NoDuplicateWithinLock`, `PublishedIsTraced`.

**Pipeline.** `IInv` adds `SemInv` (nobody waits twice, and the holders are finitely many,
which is what makes counting them mean something) and `RunInv` (what is settled at each
await: the surface, the outcome carried, what can have ended the run). Each action is a
move of one run between holding, waiting and neither (`AcquireMoves`, `LeaveMoves`,
`GiveUpMoves`), followed by what it decides. Theorems: `TypeCorrect`, `NoPermitIsLost`,
`FilesAreRemoved`, `UnavailableIsRetried`, `RunsImplementContract`.

**ResultRetention.** `TypeCorrect` and `ResultsInsideStay`. `IInv` adds to `WindowIsKept` what a
sweep has listed: expired or overtaken documents, and those overtaken still have their
new result. The work is in `HistoryAfterFinish`: a document that completes again moves to the
end of the history, and the others keep their order and their side of the window.

**MoneyParser.** `NoDigitIsLost`: for every sequence of tokens, if all its digits are one number
in groups of up to three, or one run with or without two decimals (`OneNumber`), its
whole value is read, or nothing if it has more than `MaxDigits` digits. `FormatIsRead`: for
every integer of at most `MaxDigits` digits, `parse_money` reads what `format_money` prints,
but for the sign. A match takes its first
digits at the first run that nothing bars (`ReachIsOpen`, `OpenIsReached`), which turns the
leftmost match into a least number. Words, blanks and signs before a number can only
change its sign (`Dropped`), and an amount read from fewer digits than another number
has is smaller (`ReadsFewDigits`). A part of a number is never longer than the number
(`ReadIsShort`), which is what the limit of `int()` asks for.

**FieldExtraction.** The stages follow one another, so `IInv` is an equation per variable
(`StagesInOrder`), and the theorems are about the operators: lines are the ones at their
place in the file (`LinesAreTheFiles`); ranking by counting predecessors gives each
line one place, the same in any listing (`RankedLines`, `SameRanking`); whatever a
matcher yields was read from a part of the line it is attributed to, and beside a label
only from the nearest line (`Hit`); behind a caption at least as long as the label that
part is the rest of the line (`SourceRest`), and however far the cut reaches, it only takes
digits away (`CutShortens`, `SourceDigits`), so that no amount outgrows its line; rounding to
the grid does not cross a threshold on it, from either side (`RoundKeepsThreshold`,
`RoundKeepsBelow`). One theorem per invariant of the run: `TypeCorrect`,
`TogetherCorrect`, `PageCorrect`, `OrderCorrect`, `AmountCorrect`, `NothingBetweenCorrect`,
`StatusCorrect`, `MoneyCorrect`, `FormatCorrect`, `ReadableCorrect`.

**SequenceLemmas.** The library's induction theorems take an operator, which the installed
provers cannot instantiate. Here induction is about a *set* of numbers (`Induction`,
`StrongInduction`, from the well-foundedness of the naturals), and a recursive
definition exists because the sets of its finite approximations do (`Recursion`,
`CourseOfValues`). That is how `Value`, `Decimal`, `Thousands` and `FlattenSeq` are reasoned
about for every input.

The invariants were model-checked on the instances above before they were proved.

Only model-checked: the liveness properties (`AcceptedIsResolved`, `CommittedIsPublished`,
`OldestArePurged`, `EveryRunEnds`), since fairness and ENABLED are out of the prover's
reach; and the refuted claims above, each by a behaviour.

## What is not modelled

- Characters: rapidfuzz, dateparser and regular expressions other than `_MONEY_RE`.
- `avg_confidence`, currencies, and the wording of issues and errors: copied, never
  decided by.
- The order in which a consumer gets the events of one document: the publisher takes
  a batch in any order, and no document of the repository promises one.
- Boot-time validation of settings, wiring, health, logging, metrics, tracing.
- Postgres, Redis, SAQ, Kafka, S3 and Baidu, other than by what the code sees of them.
  A transaction is atomic; a statement may take effect although its caller sees an error.
- Repeated calls by one caller are further calls with the same key.

## Plan

Done: the store, the lifecycle, the publisher, retention, the stages, extraction from
lines to answer, the two contracts; all safety properties and the refinements proved.

1. Action properties of the other modules, stated and proved as `TerminalIsFinal` is: what
   a step of the publisher may do to a row that is published or locked by another, what a
   step of a run may do to another's file or permit.
2. The safety half of each liveness property: the measure that every fair step lowers
   (pages, polls and chunks left in `Pipeline`, unpublished rows in `OutboxPublisher`), so
   that only fairness itself is left to TLC.
3. A converse of `NoDigitIsLost`: exactly which texts are cut, and where.
