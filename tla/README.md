# A TLA+ verification of the GraphOne intelligence pipeline

The program collects research papers, startups, products, jobs and news from
public sources, resolves company names, and stores the records in a SQL
database. It is one asyncio process per invocation; several invocations may
share a database. This directory holds TLA+ modules of the parts where order,
failure and limits matter, the TLC configurations that check them, and proofs
for TLAPS. Paths are relative to the repository; `src/` below is its Python
package.

## 1. The system

| Component | State | Operations | Talks to |
|---|---|---|---|
| Worker pool (`pipeline/workers.py`) | tasks, semaphore, `seen_urls`, `RunStats`, records | `run_adapter`: discover, fetch, parse, gather, cancel | adapters; called by every pipeline |
| HTTP client (`crawlers/http.py`, `retry.py`) | one semaphore, the attempt of each call | `get`, `post`, `retry_async` | servers; called by adapters, GitHub, LLM providers |
| Entity resolution (`resolution/`) | in-memory index; `canonical_entities`, `entity_aliases`, `entity_mapping_log` | `load_index`, `resolve`, `_create_entity`, `_register_alias`, `_log` | database; called by startups, products, jobs |
| Record loops (`pipeline/*.py`) and repositories (`storage/repositories.py`) | place in the list, session, counters; `raw_documents`, the five tables, `processing_errors` | validate, gate, `get_or_create`, resolve or enrich, `upsert`, `record` | database, resolver, GitHub client |
| Target allocation (research, startups, products) and listing adapters | records so far, depth asked, exhausted sources | passes over the sources, pages of a listing | worker pool |
| Jobs and news collection | records of each source | loop over sources that tolerates a failed one | worker pool |
| LLM orchestrator, chunker, providers (`llm/`, `extraction/chunker.py`) | provider order, attempts | fallback, retry, 413 re-chunking, `_record_attempt` | retry policy, database |
| GitHub enrichment (`extraction/github.py`) | cache, "rate limited" flag of the run | `get_repo_metadata` | HTTP client |
| Freshness and dates (`validation/`, `extraction/dates.py`) | none | `is_fresh`, date parsing | record loops of jobs and news |
| Engine and command line (`storage/database.py`, `main.py`) | global engine and session factory | `init_engine`, `session_scope`, `dispose_engine`, commands | everything |
| Text extraction, schemas, configuration, logging, export | none | pure functions, constants | |

What is hard in it: tasks that finish in any order on a bounded pool and may
raise anything; a cancellation or a crash at any await; rate limits and
retries; several runs on one database, each deciding on an index it read once;
one session per run whose transaction a failed statement can poison; sources
that page, shrink, shift, repeat each other and run dry.

What makes the parts correct:

- worker pool: slots come back; a URL is fetched once; the cap holds; a run
  ends, leaves no task behind, and accounts for every item;
- client: slots come back, attempts are spent and not exceeded, the server's
  delay is honoured, every call ends;
- resolution: the index claims only what is committed; a name leads to one
  entity; no link below the threshold; the log explains every change;
- record loops: every record is counted once, none is lost, a row names its own
  document, no count is overstated;
- LLM orchestration: all of a text is answered once and in order, fallback and retries in
  their order, every attempt on record;
- allocation: the target is a ceiling, nothing is collected twice, a run is short
  only when the sources are dry;
- GitHub: one look-up and one verdict for each repository of a run;
- freshness and schemas: only its publication makes an article fresh, and what a schema
  accepts its table refuses for its size only;
- engine and command line: every vertical closes what it opened, verticals do not overlap,
  the exit status is true, every call ends.

`PROJECT.json` lists the components with their status and every hazard at its line.

## 2. Modules

| Module | Models | Correspondence |
|---|---|---|
| `AdapterRun` | the promise of `run_adapter` to its callers | pages join the result whole and at most once, at most `Limit` of them; a result that was returned never changes |
| `WorkerPool` | `pipeline/workers.py` | `pc` and `found` are the main coroutine and what `discover()` has yielded, `task[i]` the state of the task of item `i`, `tasks` the set with its done callback, `free` the semaphore, `stats` and `records` as in the code. Actions: one per await of main and of a task |
| `HttpClient` | `crawlers/http.py`, `crawlers/retry.py` | `pc[c]` is the await call `c` is in, `queue` and `free` the semaphore, `attempt` the loop variable of `retry_async`, `delay` what is left of its sleep; `sent` and `hold` are history |
| `EntityResolution` | `resolution/resolver.py` and its tables | `index[r]` is `_index` of run `r`, `canonical`, `alias`, `log` the tables; every await of `resolve` is a step, so another run can commit in between |
| `Admission` | `validation/`, the freshness gates, the columns of `storage/models.py` | pure functions of a record `Datum`: `Accepts(t, d)` is the schema of table `t`, `Fresh` its gate, `Fits` what its columns take; a text is one of the five kinds these can tell apart, a date its form and its distance from `reference_time` |
| `RecordLoop` | the loops of the five pipelines, `storage/repositories.py`, `extraction/github.py` | the record `Loops` holds what differs between the pipelines; `KindOf` of `Admission` decides the gates; `session[r]` is the run's one session, "broken" while its transaction is aborted; `known`, `limited` and `verdict` are the GitHub client's cache, the rate-limit flag and what goes into the payload. Every statement and every request is a step |
| `Allocation` | the allocation passes, `discover()` and the limits of `parse()` of six adapters | `asked` is `requested`/`requested_depth`, `dry` is `exhausted`, `kept` is `all_records`; `Pages(s, n)` is what the adapter of `s` discovers for `n` records; a record of `batch` has the number under which its page asked for it (`at`) and the place of that page in the order of arrival (`page`) |
| `Chunker` | `extraction/chunker.py` | the recursive functions `Joined`, `Scanned` and `Taken` are the loops of `"".join`, `_split_keeping_newlines` and `chunk_text`: what each holds after `n` rounds; a text is a sequence of characters |
| `LLMProviders` | `llm/providers/*.py` | `Generate(hasKey, reply)` is what `generate` returns or raises for each way its one `post` can end and each form of the response |
| `LLMOrchestrator` | `llm/orchestrator.py` | `work` is what is left of the recursion of `_generate_chunk`: the pieces to do, in order; `turn` is `provider_index + 1`, `attempt` is `attempt_number`, `requests` the `LLMRequest` rows of the piece, `keyed` the providers with an API key; `tried` and `refused` are history |
| `Invocation` | `main.py`, `storage/database.py`, the loops over the sources of the five pipelines | `pc` is where the main task is, within the nested scopes of the engine, the session and the client; `Unwind[pc]` is where an exception raised there goes; `engine` is the pair of globals, `pools` the pools alive, `loose` the tasks that outlived their `run_adapter`; `done`, `silent`, `origin` and `cut` are history |
| `*_proofs` | the theorems of section 6 | |
| `MC*` | instances for TLC | |

Composition: `WorkerPool` implements `AdapterRun` (refinement: checked with its fairness by
the run `worker_pool`, and its safety proved). `Allocation` uses of a run what
`AdapterRun` promises: the records of a page arrive together, pages in any order, and
nothing changes after the run has returned. `RecordLoop` extends `Admission` and starts
from a collected list; its `Resolve` is what is left of `EntityResolution` once the link
it returns is abstracted away (it succeeds, fails and leaves the session broken, or rolls
it back). `LLMOrchestrator` extends `Chunker` and `LLMProviders`. `Invocation` puts the
parts in their order: an adapter run is one step that returns with all its tasks done
or raises and may leave some behind (`AdapterRun`), a record loop is one step that ends or
raises (`RecordLoop`). `HttpClient` justifies the fairness of a fetch in `WorkerPool`
(`EveryCallEnds`), and both that of `Invocation` (`EventuallySettled`).

Some definitions come with a faulty variant next to them (named for the fault, "A
faulty variant: ..."). They are used by no action; putting one in the place of its
original breaks the property paired with it in `PROJECT.json` and shows
that the property can fail.

## 3. Runs

| Run | Instance | Shows |
|---|---|---|
| `worker_pool` | 4 URLs, listings of up to 4 items with repetitions, 2 slots, cap 3, pages of up to 2 records | `TypeOK`, `SlotsConserved`, `NoOutstandingTask`, `EveryItemAccounted`, `EventuallySettled`, `ImplementsPromise` |
| `http_client` | calls of 3, 1 and 2 attempts, 2 slots, hints of 0 and 2 ticks over a cap of 1 | `TypeOK`, `SlotsConserved`, `AttemptsSpent`, `SendsOnlyWhenAllowed`, `EveryCallEnds` |
| `entity_resolution` | 2 runs, 4 names in a chain of similar spellings, 4 resolutions, 1 crash, 1 failed commit | `TypeOK`, `IndexIsCommitted`, `CanonicalRowWins`, `EveryChangeIsLogged`, `ConvergesAlone` |
| `record_loop` | 2 runs of any two pipelines, 3 lists with duplicate, stale, invalid, empty, future-dated and oversized records and papers that share repositories, 2 faults | `TypeOK`, `EveryRecordCounted`, `NothingLost`, `Provenance`, `NeverOverstated`, `OneVerdictPerRepo`, `RepostsStayStale`, `OnlySizeIsRefused` |
| `allocation` | pages of 2, listings of up to 7 entries, targets 2 to 7, 4 hits to a query, 4 results of OpenAlex, 2 pages of OpenRouter, 1 change of a listing, 1 lost page or run | `TargetIsCeiling`, `NeverAgain`, `ExhaustedHasNoMore`, `StartupsShortOnlyWhenDry`, `AsksDeeper` |
| `llm_orchestrator` | texts of up to 5 characters over newline and another, pieces of 3, two providers behind one without an adapter, the second with or without a key, 2 attempts | `NothingDropped`, `EveryAttemptRecorded`, `FallbackInOrder`, `ChunkerIsRight`, `TooLargeNotResent`, `EveryGenerateEnds` |
| `invocation` | every command line, the sources of the five pipelines, 2 adapter runs in a pipeline that allocates, 2 interrupts | `NothingLeftOpen`, `VerticalsDoNotOverlap`, `ExitZeroMeansAllDone`, `FailedSourceIsNotFatal`, `EveryInvocationEnds` |
| `entity_concurrent`, `record_loop_postgres`, `allocation_research`, `allocation_products`, `llm_authentication` | small instances | the five disagreements of section 5 |

Why the bounds are enough for the cases that matter:

- Three tasks on two slots is the least with a waiter behind a running task; the
  listing is longer than the cap, with duplicates below and at it.
- Three calls on two slots gives a waiter; three attempts give a middle one; a hint of 2
  over a cap of 1 distinguishes "honoured" from "capped".
- Four names contain an exact match, an alias, an alias of an alias and an
  unusable name; two runs and one crash give every order of two commits.
- The three lists contain every way through the loop; two runs meet on the same
  document, the same key and a product that matches two rows; a run names one repository
  twice; dates lie on both ends of the window and just outside. Two faults give a
  rate limit or a lost answer next to a crash.
- Pages of 2 on listings of up to 7 give a full, a partial and an empty last page,
  a second pass and an exhausted source; two listings share a product and a paper. The
  directory has a batch of 5 over the cap of 4 and one of 2; copies stand on one page of
  Y Combinator and of OpenRouter, and on two pages of Hugging Face; the listings of OpenAlex and
  OpenRouter are one longer than what they let one ask for.
- A text of 5 characters in pieces of 3 has two or more pieces at first, and a piece
  that can be cut twice; `ChunkerIsRight` tries every budget on every text.
- Two interrupts are the least with one on the way out of another; two adapter runs
  give a second pass, and every source of news and jobs has its own turn.

`worker_pool` explores the listings under the CONSTRAINT `InOrder`: a new URL is the
least not listed before. The pool only compares URLs, so one listing of each pattern
of repetitions stands for its renamings. A symmetry set would say the same, but TLC must
not use one with liveness; the constraint cuts off listings, never what follows a
listing it admits.

`CHECK_DEADLOCK FALSE` is set where a run really ends (a run has returned, all
calls have ended, a pipeline is done). The resolver's runs restart, but with the
bounds `MaxResolves` and `MaxCrashes` used up they still reload, so deadlock is
checked there.

Bounds in guards: `MaxDiscovered`, `MaxParsed` (WorkerPool), `MaxResolves`,
`MaxCrashes`, `MaxFailures` (EntityResolution), `MaxFaults` (RecordLoop),
`MaxMoves`, `MaxLost` (Allocation),
`MaxRuns`, `MaxInterrupts` (Invocation). Everything else is finite by the code's own limits.

## 4. Fairness

- `WorkerPool`: the main coroutine and each task keep moving (weak fairness).
  The event loop runs every ready callback, `discover()` lists finitely many
  pages, and a fetch ends because the client bounds its attempts and timeouts
  (`EveryCallEnds`). Nobody has to cancel.
- `HttpClient`: time passes, and a call whose request can be sent, has been
  answered, or whose sleep is over moves on. That a request ends rests on
  `httpx.Timeout`, which bounds connecting, each read and each write; a server that
  sends one byte before every read timeout for ever is outside the assumption.
  Nobody has to start or to cancel a call.
- `LLMOrchestrator`: the call goes on; a provider answers within the client's timeout and
  a backoff ends. Recording need not succeed and nobody has to cancel.
- `Invocation`: the main task moves on. A request ends by `EveryCallEnds`, an adapter run
  by `EventuallySettled`, a statement by the time limits of the database. Nobody
  interrupts. The interpreter waits for the threads of a pool, so a call whose
  disposal was interrupted may hang (`cut`).
- `EntityResolution`, `RecordLoop` and `Allocation` are checked for safety only.

## 5. Where the code and its documents disagree

1. **Two runs, one name, two entities** (`entity_concurrent`). `resolver.py:23-24`
   says two concurrent workers converge on one row because the database enforces
   uniqueness. It does so within `canonical_entities`. Run 1 and run 2 load the
   index; run 1 creates "acme"; run 2, whose index is empty, creates "acmee"; run
   1 now meets "acmee" and registers it as an alias of "acme". Sequential runs do
   converge (`ConvergesAlone`).
2. **A refused record ends the run** (`record_loop_postgres`). `research.py:213`
   says "record and continue, don't crash the run". On PostgreSQL a failed
   statement aborts the transaction until a rollback; the handler does not roll
   back and writes the error with the same session, outside any handler. On
   SQLite the session survives, and the passing run has both.
3. **Copies within one run of OpenAlex** (`allocation_research`). `research.py:91`
   says "keep only records not already collected". OpenAlex asks for a smaller last
   page with the next page number, which slides the window back
   (`openalex.py:91`; `ycombinator_startups.py:228-237` explains the same defect
   as corrected there), and `research.py:97` compares a record only with earlier
   runs: the copies are kept and count towards the target.
4. **Short although a source has more** (`allocation_products`).
   `products.py:129-131` says a source running dry does not shrink the run. The
   share is divided by all sources still to come, the exhausted ones too, and
   there are four passes: with only the first source stocked, a target of 8
   stops at 7 (3, 2, 1, 1).
5. **An authentication error ends the call** (`llm_authentication`).
   `.kiro/specs/phase-8-llm-orchestration/requirements.md:35-36`, in the "strict Retry and
   Fallback Matrix", gives 401 and a 403 that is no rate limit the fallback "Immediate", and
   `design.md:19` beside it says that on an `AuthenticationError` the orchestrator "moves
   to the next provider". The code raises the error again (`orchestrator.py:197-198`), as
   `tests/test_llm_orchestrator.py:152` asks: the next provider, though it has a key, is
   not asked. `FallbackInOrder` says nothing of these two rows of the matrix.

Seen while modelling; the models behave so, but no line of the repository
promises the contrary plainly enough, or the case is too plain, for a run of its own:

- An answer of GitHub that is JSON but no repository (a 451, say) is read as metadata with
  0 stars, and the link is kept (`github.py:110-113`, `research.py:200-203`).
- An answer of a provider whose content is null makes `json.loads` raise `TypeError`, which no
  handler of the provider or the orchestrator names; an error body of a 400 or 404 is
  taken for a malformed answer and asked for again.
- A provider without a key or a model raises the same `AuthenticationError` without a
  request, and so ends the call like the refused one of point 5; the documents do not name
  that case.
- The orchestrator makes `llm_max_retries + 1` attempts (`orchestrator.py:184`), which is what
  "retry up to `llm_max_retries`" says (phase 8, `requirements.md:42`); `design.md:17` has
  `max_attempts=llm_max_retries`, one fewer. `MaxAttempts` follows the code.
- A Retry-After that is an HTTP date raises `ValueError` (`http.py:85`), which is neither
  retried nor a `PipelineError`; `.kiro/specs/phase-6-news-ingestion/requirements.md:142`
  asks for the header to be honoured. The model has this answer ("unreadable").
- A record that a page lists twice counts once (`ycombinator_startups.py:302`), so a full page
  with a copy returns fewer than it was asked for and its source is written off, as after a
  malformed entry; `ExhaustedHasNoMore` and `StartupsShortOnlyWhenDry` are about listings
  without either (`NoneSkipped`).
- `news.py` handles `PipelineError` around a source, `jobs.py` every exception: an untyped one
  ends the vertical of news and with it the call. Only the stated half is a property
  (`FailedSourceIsNotFatal`).
- An index of a jobs site that cannot be read counts as a source collected with no
  records (`sitemap_jobs_base.py:60-70`).
- A `page_size` that does not divide 1000 leaves the end of a big batch unread, which still
  counts as asked for (`ycombinator_startups.py:223-249`): the run is short although a later
  batch has more. No pipeline passes one; `StartupsShortOnlyWhenDry` says so.
- `validation/news_dates.py` refuses partial timestamps; `extraction/dates.py`, used by tests
  only, fills them in from today.

## 6. What is proved

The theorems hold for every value of the constants under the named assumptions of
the modules; TLC evaluates those assumptions on every run.

**`WorkerPool_proofs`** (`ConcurrencyAssumption`, `BoundsAssumption`): `TypeOK`,
`SlotsConserved`, `NoOutstandingTask`, `EveryItemAccounted`, that a URL has one task
(`FetchOncePerUrl`) and the cap holds (`TasksWithinCap`), and that every step is one
`AdapterRun` promises (`KeepsItsPromise`). None is inductive alone. The slots need
`Counted` (a task that does not exist yet is beyond the last item discovered); the
dedup needs that the URL of every task is in `seen`; the cap needs that while the
loop runs there is room for one more task, because the test comes after the
creation; the clean ending needs that all that is alive is among what main awaits.
The accounting needs that each counter is the number of tasks in its states (`Tally`),
which every step moves by the task it moves, and that nobody was cancelled unless the
run was. The promise is kept because of all of these: a page that is parsed is new by
the dedup, has room by the cap, and the run that collects it has not ended by the
clean ending; its records keep their pages because `found` only grows (`RecordsInv`). That
the pool is never stuck (`NobodyIsForgotten`) follows from the conservation of the slots for the
tasks, and for main from `AwaitedInv`: it awaits tasks only, and each it drains has been
cancelled.

**`HttpClient_proofs`** (`ConcurrencyAssumption`, `CallsAssumption`): `TypeOK`, `SlotsConserved`, `AttemptsSpent`,
`SendsOnlyWhenAllowed`; that a call waiting for a slot is not forgotten (`NobodyIsForgotten`); and a
measure (`EveryStepIsNearer`). `Inv` adds to the first two `QueueIsWaiters` (the queue
holds the waiting calls, each once, so the head that is sent really waits) and
`LoopPosition` (where a call is in its loop fixes how many requests it has
sent; it sleeps only when an attempt is left, at least as long as it was asked
to). Without `LoopPosition` even `attempt <= Attempts` would not survive `Wake`. That a waiting
call is in the queue (`Queued`) gives, with the conservation of the slots, that while one
waits a request is on the wire or the first of the queue can be sent.

**`EntityResolution_proofs`** (`NamesAssumption`, `BoundsAssumption`): `TypeOK`, `IndexIsCommitted`,
`CanonicalRowWins`, `EveryChangeIsLogged`, `ConvergesAlone`, and that no link is below the
threshold (`LinksAboveThreshold`). `Inv` adds what a
pending decision promises (`Pending`: a link has a key at or above the threshold
and an entity that exists), which stays true while others commit because rows
are never updated or deleted. `ConvergesAlone` needs in addition that, while no
two runs have overlapped, the index of the run at work is complete, so that no name
is both a row and an alias (`AloneInv`).

**`RecordLoop_proofs`** (`DataAssumption`, `ClockAssumption`, `SizesAssumption`): `TypeOK`, `EveryRecordCounted`,
`NothingLost`, `Provenance`, `NeverOverstated`, `OneVerdictPerRepo`, `RepostsStayStale`,
`OnlySizeIsRefused`. `TypeInv` adds where a run is while it works on a record; the
counters equal the number of records passed (`CountInv`); a row of a run carries
the document it found or stored for that record (`SourceInv`); the number of rows a
run owns grows with its count (`OwnInv`, finite sets and their cardinalities). A
repository was asked as often as its verdict is known or a rate limit has ended the
asking, and the verdict of the current record is that of its repository (`HubInv`).
What is on its way to a table has passed the gates (`GateInv`); `AcceptedFits` shows of the
two pure definitions, for every record, that the schema's `Accepts` implies the table's
`Fits` unless a value is too large, so without faults nothing else is refused.

**`Invocation_proofs`** (`SourcesAssumption`): `TypeOK`, `NothingLeftOpen`, `VerticalsDoNotOverlap`,
`ExitZeroMeansAllDone`, `FailedSourceIsNotFatal`. An exception on its way only moves towards
the exit (`RaisedInv`), so a vertical that starts finds no exception, and since only an
interrupt leaves a pool, no pool (`ScopeInv`). A task left behind while no exception is on
its way was left by jobs, the last of what is to run (`LooseInv`, `TodoInv`). The sources
before the current one have been collected or reported (`TurnInv`), the verticals before
the current one are done (`DoneInv`). The measure of `EveryStepIsNearer` counts the interrupts, the
verticals, the stages of a scope and the sources still to come.

**`Allocation_proofs`** (`BoundsAssumption`): all five properties of
the run. The pages of every adapter are `Apart`: no two ask for the same number (aligned
pages are multiples of the page size apart, those of Y Combinator by the rank of a
record among those its queries return). So no number comes twice in a batch (`Numbering`),
and the records of a batch are no more than the numbers asked for (`Within`, and a map
that tells elements apart bounds their number). Where nothing is skipped a page
numbers its entries without a gap (`PageReaches`). `TargetIsCeiling` follows for startups, which
asks once (`StartupsInv`), and for products from `ProductsInv`: while no listing changes, all a
source was asked for so far is there under its key, so a run can add only what lies
deeper. `StartupsShortOnlyWhenDry` and `ExhaustedHasNoMore` need the converse, that an undisturbed
batch has every number asked for which the listing reaches.

**`Chunker_proofs`** (no assumption): `ChunkerCorrect`, for every text and every budget above 0, not
only the texts of five characters of the run. The loops are recursive functions, so
what they compute is an induction over a number. `Least` and `Induction` state that as facts about
a set of numbers, from the well-foundedness of `<`, and `Recursion` gives from them that a
recursively defined function exists and satisfies its equation. Each loop then has its
invariant: `ScannedFacts` (the lines so far and what follows them are the text read),
`Gathered` (the chunks so far and the current one are the lines taken, and each break is
at the end of a line or inside one too long).

**`LLMOrchestrator_proofs`** (`OrchestratorAssumption`): `TypeOK`, `EveryAttemptRecorded`, `FallbackInOrder`,
`NothingDropped`, `TooLargeNotResent`, `ChunkerIsRight`, and a measure (`EveryStepIsNearer`). The attempts at
one provider are an interval of all attempts at a piece: `MaxAttempts` long for one that was
passed over, at the end for the one being asked, empty for those to come (`Position`).
What a row says and what the fallback promises follow by counting in the intervals,
whatever the chunker makes of the text. What is proved of the fallback is more than
`FallbackInOrder` asks (`SpentInOrder`: an authentication error ends the call). What has been answered and what is to do is the
payload because the chunker's pieces are the piece they replace (`ChunkerCorrect`). For
`TooLargeNotResent` every refused piece ends before the piece in hand begins, or begins where it
begins and is longer (`Narrowed`): a piece that is cut gives more than one, so the first is
shorter. A cut lowers twice the characters to do less the number of pieces, the first
number of the measure; then come the stage, the attempts and the steps of one attempt.

`FetchOncePerUrl`, `TasksWithinCap` and `LinksAboveThreshold` are in no run: they are proved
for every instance, and `ImplementsPromise` and `IndexIsCommitted` say more of the same
code to TLC. The `TypeOK` of `Invocation` and of `LLMOrchestrator` are proved only, too.

The measures (`EveryStepIsNearer` of the proofs of `WorkerPool`, `HttpClient`, `Invocation` and
`LLMOrchestrator`) say that every step of a call makes a tuple of natural numbers less in
lexicographic order, so that none goes on for ever, whatever fails; in `WorkerPool` main
and each task, and in `HttpClient` each call, have one of their own, which no step of
another raises. With `NobodyIsForgotten` they carry the argument of the liveness properties to
all constants, up to the fairness and what bounds the listing (`MaxDiscovered`) and the
adapter runs of a pipeline (`MaxRuns`).

Only model-checked: liveness (`EventuallySettled`, `EveryCallEnds`, `EveryGenerateEnds`,
`EveryInvocationEnds`, and the fairness of `ImplementsPromise`), because fairness rests on `ENABLED`,
which is beyond the prover. No module declares a recursive operator.

## 7. Not modelled

- Text: normalisation, HTML, RSS, sitemap and JSON extraction, parsing of dates, similarity
  scores. A name stands for its normalized form, `Score` is a constant, a text of `Admission`
  is one of five kinds. So the adapters that only extract fields (`Other source adapters`)
  have no module: their run is that of `WorkerPool`, their place in a call that of
  `Invocation`. `is_fresh` and `extract_publication_date` of `extraction/dates.py` are used
  by tests only.
- In `Allocation`: the fields of a record, the statistics of a run. One order stands for
  the whole directory and for its batches.
- In `EntityResolution`: near-miss notes, `log_decisions=False` and
  `create_if_missing=False`, which no pipeline uses; other entity types.
- In `Admission`: that a failed resolution or a name too long for its column leaves the
  session broken is a fault of `RecordLoop`, not decided from the name. SQLite checks no
  sizes; the runs take the stricter `SizesChecked = TRUE`, the theorems hold for both.
- In `LLMOrchestrator`: latencies, sizes and token estimates of the rows, and the requests
  and prompts of the providers.
- In `Invocation`: the reports that are printed; `enabled` of the source registry, which jobs
  ignores; a second interrupt while `asyncio.run` cleans up or `run_adapter` drains its
  tasks.
- `max_concurrency = 0` and `max_retries = 0`, which the settings admit, are
  excluded by assumptions: the first hangs, the second fails an assertion.
- Configuration, logging and export: constants, formatting, an empty package.

## 8. Plan

Built, in the order of importance: `WorkerPool` with `AdapterRun`,
`EntityResolution`, `RecordLoop`, `Allocation`, `HttpClient`, `LLMOrchestrator` with
`Chunker`; then GitHub enrichment and the gates (`Admission`) in `RecordLoop`,
`LLMProviders`, and `Invocation`, which puts the parts in their order; proofs of all of
them, and of every safety and action property of every passing run. Left:

1. That the `Resolve` of `RecordLoop` is what `EntityResolution` leaves of a resolution.
2. A second table in `EntityResolution` for another entity type, when a pipeline uses one.
