# A verification project for Heimdall-Gate

Heimdall-Gate polls the Yelp API, publishes validated observations to Kafka and
lands them in a Databricks lakehouse (Bronze, Silver, dead-letter queue, Gold).
This directory holds TLA+ models of its control, TLC runs over small instances,
and TLAPS proofs, for every instance, of every safety property the runs check and of
the refinements between the models. Paths below are relative to the
repository.

## 1. Inventory

| Component | State it keeps | Operations | Talks to |
|---|---|---|---|
| Yelp client, `ingest/yelp_client.py` | `_calls_made` against a per-process budget; the position of a running `iter_search` generator | `search_businesses`, `iter_search`, `_get` (retried by tenacity on 429, 5xx, transport errors; 4 attempts) | Yelp over HTTP; the runner pulls the generator |
| Runner, `ingest/runner.py`, `ingest/__main__.py` | `_stop`, the loop variables, one `SweepStats` per sweep | `run_once`, `run_forever`, `_sweep_city_term`, `request_stop` (signal handler), `close`, two inject modes | client, producer |
| Event producer, `ingest/producer.py` | delivered and failed counters, the librdkafka producer and its local queue, the sink file | `publish_business`, `quarantine`, `inject_*`, `flush`, `close`, `_on_delivery` | raw topic, ingest DLQ topic, sink file; librdkafka calls back only while the caller's thread polls |
| Bronze job, `databricks/jobs/01_bronze_ingest.py` | checkpoint (offset log, commit log), the sink's transaction id in the Delta log | one availableNow query: start, plan, append, commit, finish; fails on lost data | Kafka topic or volume files; Bronze table |
| Silver job, `databricks/jobs/02_silver_transform.py` | checkpoint | one availableNow query whose `upsert()` makes two MERGEs per batch | Bronze table; Silver and DLQ tables |
| Gold job, `databricks/jobs/03_gold_aggregates.py` | none | recompute a window of days, two `replaceWhere` overwrites | Silver; two Gold tables |
| Schemas, `ingest/schemas.py` | none | `from_yelp`, the envelope | runner; producer |
| Validation, `validation/validators.py` and `_annotate_failures` | none | the rules, once in Python, once in Spark | producer; Silver job |
| Settings, logging, bootstrap DDL, notebook, scripts | none, or configuration | | |

What is hard about it, and where (`PROJECT.json` lists every case with its line):

* *Crash and retry.* A Silver batch is two transactions and a commit-log entry.
  A job that dies in between runs the batch again. A Bronze batch is one
  transaction and a commit-log entry.
* *Reprocessing.* Operators clear checkpoints; old rows are then merged over
  newer ones, and Bronze ingests records twice.
* *Retention.* Kafka may drop what a checkpoint has not read.
* *Two schedules.* Bronze and Silver know nothing of each other.
* *Callbacks.* Delivery is known only when a later call polls; the flush timeout
  is half of the delivery timeout; the local queue is bounded.
* *Counters.* A budget shared by pages and retries; a page number guessed from
  it; a failure counter that is read per sweep and never reset.
* *Signals.* The stop flag may be set between any two steps.
* *Midnight.* A Gold run computes its window once and uses it in a read and two
  overwrites of two tables; the date, and Silver, may change between any two.
* *Late rows.* Silver gains rows for days that are in Gold's window, or have left it.
* *Two copies of the rules.* Python strings, doubles and unbounded integers on one side,
  Spark's on the other, and a parser with null semantics between them.

What makes each part correct:

* Silver: one row per event, nothing dropped, content a function of Bronze,
  nothing ever removed, each bad record counted once.
* Bronze: verbatim, once per checkpoint, no silent gap.
* The two together: every record lands or expires, or a job fails loudly; together they
  are one store, filled from the topic.
* Gold: the two tables agree, nothing is forgotten that Silver still has, closed days
  never change, late rows in the window arrive.
* Rules and routing: the two copies agree but for known cases; Silver takes exactly what
  its rules are meant to take, whoever wrote to the topic; nothing sound is refused.
* Producer: a clean report can be trusted, every record is counted once, calls
  return.
* Runner and client: the budget holds, statistics add up, every pair is swept
  whatever fails, a search ends for a reason, a stop request ends the process.

## 2. Modules

| Module | Models | Builds on |
|---|---|---|
| `BronzeTable` | the Bronze Delta table: rows, versions, one append | |
| `SilverTransform` | the Silver job and its two tables | `BronzeTable` |
| `ObservationStore` | abstract: an envelope is received, then accepted or quarantined, for good | |
| `SilverSystem` | the Silver job over a table that anybody appends to; implements `ObservationStore` | `SilverTransform` |
| `SilverLemmas`, `SilverProofs` | proofs about the Silver job and `SilverSystem` | |
| `BronzeIngest` | the Kafka topic and the Bronze job | `BronzeTable` |
| `TopicCopy` | abstract: a table that copies a topic in passes, in order, each record once per pass | |
| `BronzeSystem` | producers, retention and the Bronze job; implements `TopicCopy` | `BronzeIngest` |
| `BronzeProofs` | proofs about the Bronze job and `BronzeSystem` | |
| `Medallion` | both jobs, interleaved; implements `BronzeSystem`, `SilverSystem` and, from the topic on, `ObservationStore` | `BronzeIngest`, `SilverTransform` |
| `MedallionProofs` | proofs about `Medallion` | `BronzeProofs`, `SilverProofs` (as instances), `SilverLemmas` |
| `GoldAggregates` | the Gold job, Silver as others change it, the calendar | |
| `GoldProofs` | proofs about `GoldAggregates` | |
| `RecordRouting` | one record: normalisation, Python rules, envelope, Spark parse and rules, and where it ends | |
| `RoutingProofs` | proofs about `RecordRouting` | |
| `EventProducer` | librdkafka and the facade above it | |
| `ProducerSystem` | the runner's use of it: sweeps, flushes, close | `EventProducer` |
| `ProducerProofs` | proofs about `ProducerSystem` | |
| `YelpClient` | `iter_search` and `_get` | |
| `IngestRunner` | the runner driving the client | `YelpClient` |
| `RunnerProofs` | proofs about `IngestRunner` and its client | |
| `MC*` | values for the constants | |

Operators commented `Mutant:` are deliberately wrong variants of the definition
that follows them. No specification uses one. Putting one in the place of its
original must break the property it is listed with (`PROJECT.json`,
`mutants`), which shows that the property depends on that piece of code.

### How state and actions correspond to the code

*Silver.* `silverDone` is the end of the checkpoint's commit log,
`silverPlanned` the end of its offset log, `silverTarget` the Bronze version an
availableNow run stops at; the last is memory and is lost in a crash.
`SilverPlan`, `SilverMerge`, `DlqMerge` and `SilverCommit` are one micro-batch,
`upsert()` being the middle two. `SilverCrash` is possible at every point, and
stands for a MERGE that raises too. A micro-batch may end at any Bronze version
up to the target, because Delta cuts batches by files; a commit of Bronze is not
cut in two. `ver` stands for `ingest_ts`, which is the same for all rows of a
commit and grows from commit to commit.

A target row is the Bronze row its columns were last written from and the number
of the MERGE that inserted it (`ins`), so two table rows with the same key are
two elements of the set. `MergeIntoSilver` follows
`whenMatchedUpdateAll` and `whenNotMatchedInsertAll`: with two source rows for
one target row it would produce two rows (Delta refuses such a MERGE), which is
what the window in `_to_silver` prevents. `MergeIntoDlq` compares the source
rows with the table only, as the code does.

*Bronze.* One partition of the topic is a sequence, `earliest` the first offset
that retention kept. No `maxOffsetsPerTrigger` is set, so a run is one batch up
to the end the topic had when it started. `sinkTxn` is the query id and batch
number that the Delta sink stores with an append and by which it skips a batch
it already has. Clearing the checkpoint makes a new query id. `DataLoss` is the
condition under which `failOnDataLoss` fails the query.

*Gold.* A Gold table is the set of observations its rows aggregate: the rows of a day
are a function of those of that day. `asOf` is the literal `as_of_str`, which the read
and both `replaceWhere` predicates use; `bounded` is the cached DataFrame. `WriteDrift`
and `WriteTrends` are the two overwrites, a crash between them leaves `torn` days (a
history variable no guard reads). Delta's refusal of rows outside `replaceWhere` is
the guard `Conforms`. `Land` is the Silver job seen from here; `Prune` is the retention
job that `README.md:217-222` tells operators to add. Midnight is a step of its own.

*Routing.* One record, from the element `iter_search` yields, or from another writer on
the raw topic, to where it ends. A nullable field is the set of what is there. A string
is its class (a word, spaces, other white space, empty), because Python's `strip()`
and Spark's `trim` differ on the third; a rating is a number of hundredths, since
`round(_, 1)` works on the double and `F.round` on its decimal digits: `RoundsDown` lists the
halves that Python takes down (for the run, computed with Python for every half below six).
`IntegerMax` and `LongMax` are scaled down; what matters is that a count may be
above either. `coercible` stands for pydantic's lax mode. `Parsed` is the behaviour of
`from_json` in its default mode, an external fact: null for a null or blank string, a
struct of nulls for other text, and for a number that does not fit either a null payload or
only a null count, depending on `enablePartialResults`. Kafka is taken to be enabled. A record
the runner gives up is `abandoned` if an exception came before `produce()` (`HandlerRaises`,
`EncodeRaises`) and `dropped` if `produce()` itself raised, a `KafkaException` or a
`BufferError` for the second time (`ProduceRaises`, possible at every call). What happens to a
message after `produce()` took it, and in Bronze, is left to `EventProducer` and
`BronzeIngest`: here it is carried verbatim.

*Producer.* A record is its publication number. `queued` records are in
librdkafka's hands; their reports (`acked`, `errored`) wait until `poll` or
`flush` serves them, and take up room in the queue until then. A tick is
15 s, so a flush waits `FlushTicks = 1` and a record lives `DeliveryTicks = 2`.
Whether Kafka and the sink are enabled is chosen in `Init`. Idempotence and
`acks=all` are the defaults (`config/settings.py:80-83`): a record is written at
most once, and an acknowledged one is stored. The sink file (`mirror`) gets a record before
`produce()`; `ProducerTypeOK` says that it holds all that publish was called for, the dropped
ones included. Exceptions of `produce()` other
than `BufferError` are not modelled here; the runner sees them as
`PublishRaises`.

*Client and runner.* The generator's position is explicit (`search`, `page`,
`attempt`, `buffer`). A response is a number of businesses or a kind of error.
`pages`, `swept` and `stopCalls` are history variables that no guard reads. That the
budget holds is part of `ClientTypeOK`.

## 3. Runs

| Run | What it shows | Distinct states |
|---|---|---|
| `silver` | `OneRowPerEvent`, `NothingDropped`, `CaughtUpIsCanonical`, `DlqCountsOnce`, `NeverForgotten`, the job implements `ObservationStore`, `EventuallyLanded` | 276 479 |
| `bronze` | `OncePerCheckpoint`, the job implements `TopicCopy` (`CopySpec`), `IngestedOrLoud` | 739 357 |
| `medallion` | `RecordsLand`, `DlqIsExact`, the pipeline implements `ObservationStore` from the topic on (`StoreSpec`), `RecordsEventuallyLand` | 383 333 |
| `producer` | `CleanSweepIsDurable`, `EveryRecordAccounted`, `LeftInFlightIsOld`, `CallsReturn` | 484 182 |
| `gold` | `WritesConform`, `TablesAgree`, `ForgetsOnlyPruned`, `ClosedDaysFixed`, `LateRowsReachGold` | 125 381 |
| `routing` | `RulesAgree`, `PublishedReachSilver`, `SilverIsExact`, `GoodRecordsLand` | 41 265 |
| `runner` | `StatsAddUp`, `PagesAreExact`, `SweepCoversAll`, `EndsForAReason`, `StopsAfterPair`, `Terminates` | 471 742 |

Each of these runs but `medallion` checks its module's type invariant too, which holds
the relations between checkpoint, target and position the other properties rely on; the
type invariant of `Medallion` is the two jobs' own, and a theorem. So are `Verbatim` and
`NoSilentSkip`, which `CopySpec` says in passing.

Bounds, and why they are enough:

* `silver`: three appends, each one record, two neighbours or all of a source of five
  (one valid event twice, another one, an invalid record, one that does not parse).
  Three appends give a reprocessed row, a newer copy and a batch cut between them;
  the same record can arrive in all three. The proofs remove the bound.
* `bronze`: four records, two checkpoint resets: a batch planned before retention
  moves, a reset between two runs of a half-done batch, and a second reset that tells
  "once per checkpoint" from "once".
* `medallion`: two records, two resets of Bronze and any number of resets of Silver:
  a record in three Bronze commits, read in one Silver batch or in several.
* Crashes are never bounded.
* `producer`: three records over a queue of two, so the queue fills while a report
  waits; two sweeps and a close fit.
* `gold`: three days under a window of two, so a day closes while another opens, with a
  late and an early row possible for each; two rows on some days, one of them without a
  category, so that a table can lose one and keep the other.
* `routing`: payloads that differ from a good one in at most two fields, each by every
  value on which some rule turns (both sides of each bound, halves of both kinds, each class
  of text): a rule looks at one field, or at the two coordinates. The proofs remove
  the bound.
* `runner`: two cities and two terms, pages of two, budget 5 with two attempts per
  page, so the budget runs out in a retry, between pages and between pairs. The code
  has four attempts; two already have a first, a last and an error between. The
  page limit is above the offset cap, as `--max-pages` allows, so the cap ends
  searches.

### Fairness

* Jobs: weak fairness of every step of a running query and of starting it, because
  the Workflow schedule re-fires the job (`ARCHITECTURE.md:167`). None is assumed of
  producers, retention, crashes or operators. Liveness is claimed under
  `Undisturbed`: from some point on no crash and no reset. Without it a job can
  die in every batch. (A crash with nothing left to do is the same step as finishing, so
  `Undisturbed` allows that one.)
* Gold: weak fairness of every step of a run and of starting it, again under a condition that
  runs stop dying; nothing of midnight, Silver and its pruning. A day that leaves the
  window before a run completes is an outcome the property names.
* Producer: time passes, librdkafka's timer runs and the caller's thread runs. No
  broker ever has to answer.
* Runner: the process takes steps; every HTTP call has a timeout
  (`yelp_client.py:64`), every sleep an end. A signal need not come.

### Where code and documents disagree

Each is an entry of `findings`. The first five are runs that must fail; the last two are
told by properties that hold and say exactly what the code does instead.

1. `dlq_duplicates`: the DLQ MERGE is not idempotent against a record that one
   batch holds twice. Clearing Bronze's checkpoint before Silver runs is
   enough: Bronze ingests the record again, both copies are in one Silver
   batch, and the metric counts two rows with one `dlq_key`. `_to_silver` has a
   window, `_to_dlq` has none. The retry of a batch does not double-count.
2. `sweep_ends_delivered`: `flush()` gives up half-way through a record's life and
   `run_once` ignores what it returns. (`LeftInFlightIsOld` says how far that goes.)
3. `failed_is_lost`: a delivery that timed out is not always a loss.
4. `rules_mirrored`: a review count above 2^31 - 1, and a rating like 2.55 or 5.05, pass
   the Python rules and are quarantined by Spark. `PublishedReachSilver` shows that nothing
   else the producer publishes is.
5. `parse_failures_labelled`: `from_json` returns a struct of nulls for text that is no JSON,
   so a malformed message is quarantined as `silver_validation`, with every `missing_`
   code, and never as `envelope_parse_failed`. It is quarantined all the same
   (`SilverIsExact`).
6. `routing`, `RulesAgree`: Python's rule `bad_category_value` has no mirror in Spark, though
   the header of the Silver job asks for one. A message written straight to the raw topic with a
   blank category lands in Silver. `RulesAgree` goes over every Python rule and says in which
   cases its mirror differs (`Drift`), and that in those it always does: the missing rule; white
   space that only `strip()` takes; ratings five hundredths off a half step that Python takes
   down; a coordinate without the other. The producer's own records meet only the third.
7. `routing`, `SilverIsExact`: both layers round a rating to a decimal before they look it up.
   `ARCHITECTURE.md` and `validators.py` speak of 1.0 to 5.0 in 0.5 steps; Silver takes, and keeps
   unrounded, everything from 0.05 under a half step to 0.04 over one (0.95, 1.04, 5.04).
   `SilverIsExact` says that it takes these and no others, and `GoodRecordsLand` that a search
   result rated 1.04 is refused by neither layer.

Seen while modelling and left without a run: a queue that stays full for the second of
`poll(1.0)` drops the record, valid or not, and with it the rest of the pair's page
(`producer.py:262`, `runner.py:147-150`), where `ARCHITECTURE.md:266-267` says "rather than a
drop"; it is `dropped` in `EventProducer` and `RecordRouting`, and `PublishRaises` in
`IngestRunner`. The handler for a failed normalisation calls `get` on the record and so raises
for an element that is no object (`runner.py:216`), and an integer of more than 64 bits cannot
be encoded: both give the record up before `produce()`. `delivery_failed` of a sweep is the
process's total. The sink file mirrors records of the ingest DLQ too, so that in volume mode
they reach Bronze, while `producer.py:173-176` and `DATABRICKS_SETUP.md:262-266` call that DLQ
independent of the lakehouse.

## 4. Proofs

Every theorem is of the specification as TLC checks it, for all values of the constants
that satisfy the module's named assumptions, and with any number of crashes.

### Silver

`SilverProofs`, for any sets of envelopes, any set of commits, any bound on appends and
any number of resets:

| Theorem | Statement |
|---|---|
| `TypeCorrect` | `Spec => []TypeOK` |
| `SilverUnique` | `Spec => []OneRowPerEvent` |
| `SilverDropsNothing` | `Spec => []NothingDropped` |
| `SilverConverges` | `Spec => []CaughtUpIsCanonical` |
| `DlqUnique` | `Spec => []DlqCountsOnce` |
| `SilverForgetsNothing` | `Spec => NeverForgotten` |
| `ImplementsStore` | `Spec => StoreSpec` |

Assumptions: the three kinds of envelopes are disjoint, `MaxOffset` and `MaxVersion`
are natural numbers (`EnvelopeAssumption`, `CommitsAssumption`), and a commit maps
offsets to envelopes. TLC evaluates them in every run of the silver family.

The argument. `NothingDropped` is not inductive: it speaks of rows behind the commit
log only, and `SilverCommit` moves that line over a batch whose rows must be there
already. `CaughtUpIsCanonical` says nothing until the job has caught up. The
inductive invariant `SilverInv` replaces both by a *horizon* per table: the Bronze
version up to which the table has absorbed every row, which is the commit log's end, or
the planned end once the running batch went through that table's MERGE. `SilverCovers`
says that Silver holds, for each valid row up to its horizon, that row or a later one of
its event; `DlqCovers` likewise. A crash moves a horizon back and a reset moves it to
zero, which only weakens the claim; an append adds rows above it. The MERGE is the one
step that needs work: `WindowKeepsLatest` shows that the window leaves, for each event of
the batch, a row none of the others comes after (by `LeastNat` and `GreatestInt`,
well-founded induction on offsets and versions), `WindowKeepsOne` that it leaves one, and `MergeEffect` what the
MERGE makes of a table with one row per event. At a caught-up point the horizon is the
whole table, and a covered latest row can only be the row itself: that is
`CaughtUpIsCanonical`. Old rows written over newer ones after a reset are allowed by the
invariant, because the horizon is then below both.

`SilverLemmas` states the step facts for the job alone, so that compositions can use
them. `ImplementsStore` maps `received`, `accepted` and `quarantined` to the
envelopes of the three tables: a MERGE is an `Accept` or `Quarantine` or a stutter, and
everything else stutters, because crash and reset touch no table.

### Bronze

`BronzeProofs`, from `EnvelopeAssumption` and `BronzeBounds` (the topic's offsets are in
the range of the offset type):

| Theorem | Statement |
|---|---|
| `BronzeTypeCorrect` | `Spec => []TypeOK` |
| `BronzeVerbatim` | `Spec => []Verbatim` |
| `BronzeOnce` | `Spec => []OncePerCheckpoint` |
| `BronzeSkipsNothing` | `Spec => []NoSilentSkip` |
| `BronzeImplementsCopy` | `Spec => CopySpec` |
| `BronzeCommitsBounded` | `Spec => [](bronzeVersion <= (MaxResets + 1) * MaxLog)` |

`NoSilentSkip` and `OncePerCheckpoint` are not inductive: `BronzeCommit` moves the commit log
over a batch whose append happened earlier, perhaps in a run that died since. The
`Horizon` of the table is the planned end if the sink has the pending batch
(`InSink`), and the committed end otherwise. `Covered` puts a row at every offset from
the checkpoint's beginning to the horizon; `CountedOnce` allows an offset one row per
earlier checkpoint and one more if it is behind the horizon. An append moves the horizon
exactly over the offsets it adds a row to; a commit does not move it, because
`InSink` is false again for the next batch number; a reset takes it to nothing while
`queryId` grows by one. `CheckpointOK` holds what makes `InSink` mean that.

`BronzeImplementsCopy` maps the one position of `TopicCopy` to the horizon: offset log,
commit log and the sink's transaction are three memories of it, each written by a step of
its own and each left behind by a crash. `HorizonMoves` shows that no step but an append, a
first run and a reset moves it, and `AppendCopies` that an append moves it exactly over the
records it adds, all of them still in the topic. The horizon also bounds the number of
commits (`CommitsBounded`): each one moves it, so a checkpoint commits at most once
per record, and a batch that is retried is not committed again.

### Medallion

`MedallionProofs`, from `EnvelopeAssumption` and `MedallionBounds`:

| Theorem | Statement |
|---|---|
| `MedallionRunsBronze` | `Spec => BronzeJob!Spec` (`BronzeSystem`) |
| `MedallionRunsSilver` | `Spec => SilverJob!Spec` (`SilverSystem`) |
| `MedallionTypeCorrect` | `Spec => []TypeOK` |
| `MedallionRecordsLand` | `Spec => []RecordsLand` |
| `MedallionDlqIsExact` | `Spec => []DlqIsExact` |
| `MedallionCopies` | `Spec => BronzeJob!CopySpec` |
| `MedallionForgetsNothing` | `Spec => SilverJob!NeverForgotten` |
| `MedallionImplementsStore` | `Spec => StoreSpec` |

Nothing about one job is proved twice. `BronzeJob` and `SilverJob` are instances of the
two proof modules, and the pipeline is shown to implement both specifications: a step of
Silver changes nothing Bronze reads or writes, and to Silver all that Bronze does is to
append. `SilverSystem` takes its appends from a set `Commits` and bounds them by
`MaxVersion`; the instance gives it every map of offsets to envelopes (`Batches`) and the
bound `(MaxResets + 1) * MaxLog`, so `MedallionRunsSilver` needs `AppendIsCommit` (what a
Bronze append is) and `BronzeCommitsBounded` (how many there can be). With that the
invariants and theorems of both proof modules hold here; `MedallionInvariance` collects what
they say. `RecordsLand` joins `NoSilentSkip`, `Verbatim` and `NothingDropped`. For
`DlqIsExact`, `FirstCheckpointUnique` gets from `CountedOnce` that without a reset no offset
is in the table twice; then the offset of a quarantined row is an injection of the
dead-letter queue into the bad records, and by `NothingDropped` it is onto, so the
cardinalities are equal.

`MedallionImplementsStore` composes refinements: `SilverJob` implements an
`ObservationStore` that receives what is in Bronze; by `Verbatim` what is in Bronze is in
the topic (`SilverStoreRuns`), so the same steps are steps of the store that receives what
is in the topic, a produced record is its `Receive`, and everything the Bronze job and
retention do stutters.

### Gold

`GoldProofs`, from `GoldAssumption` (a calendar, a window of at least a day):

| Theorem | Statement |
|---|---|
| `GoldTypeCorrect` | `Spec => []TypeOK` |
| `GoldWritesConform` | `Spec => []WritesConform` |
| `GoldTablesAgree` | `Spec => []TablesAgree` |
| `GoldForgetsOnlyPruned` | `Spec => ForgetsOnlyPruned` |
| `GoldClosedDaysFixed` | `Spec => ClosedDaysFixed` |

The invariant says that `asOf` is the window of the day the run began
(`WindowIsLiteral`), that after the first overwrite that table holds exactly the cached
rows from `asOf` on (`FirstHalfWritten`), and that whatever a Gold table holds of the
window is in the cache or was deleted from Silver (`CacheKeeps`). The last gives
`ForgetsOnlyPruned`: what an overwrite removes is not in the cache, so it was deleted.

### Routing

`RoutingProofs`, from `RecordAssumption`; the bodies, raw values and the set
`RoundsDown` are arbitrary:

| Theorem | Statement |
|---|---|
| `RoutingTypeCorrect` | `Spec => []TypeOK` |
| `RoutingRulesAgree` | `Spec => []RulesAgree` |
| `RoutingPublishedReachSilver` | `Spec => []PublishedReachSilver` |
| `RoutingSilverIsExact` | `Spec => []SilverIsExact` |
| `RoutingGoodRecordsLand` | `Spec => []GoodRecordsLand` |

The work is in lemmas about the operators: `RoundingsDiffer` (which ratings the two functions of
rounding judge differently), `SparkTakesNear` and `NearIsValid` (how far from a half step a
rating may be for Spark, and for both), `BlanksDiffer` (where the two notions of blank differ),
`MirrorsAgree` (rule by rule, in both directions), `PassedIsObservation` and `SilverTakes` (what
Spark's rules let through, before and after the parser's nulls) and `ObservationPasses`. The
inductive invariant `OnItsWay` ties what each stop of the record has passed to the data it
carries on.

### Producer

`ProducerProofs`, from `ProducerAssumption`, for any number of records, any queue limit
and any two timeouts:

| Theorem | Statement |
|---|---|
| `ProducerTypeCorrect` | `Spec => []TypeOK` |
| `ProducerCleanSweep` | `Spec => []CleanSweepIsDurable` |
| `ProducerAccounts` | `Spec => []EveryRecordAccounted` |
| `ProducerLeavesOnlyOld` | `Spec => []LeftInFlightIsOld` |

`CountersOK` says that the counters are the numbers of records reported, which
`ServedIsCounted` keeps under every poll because reports are disjoint from what was
counted. `Settled` is what an empty queue at the end of a sweep has shown: every record so
far has its final status. `SettledStays` keeps it, as no step changes such a status, while
later records come and go.

`LeftInFlightIsOld` measures what the run `sweep_ends_delivered` finds: a sweep may be
reported with records in flight, but each has waited for all of `flush()`'s timeout, so it is
decided within `DeliveryTicks - FlushTicks`, another 15 s. `QueueAges` carries it: while
`flush()` waits, the age of every queued record and the time left add up to that timeout
at least, as nothing is published meanwhile (`QueuedSteps`). `LongFlushLeavesNone` draws the
conclusion: were the flush the longer of the two (the code's is the shorter), no record of a
reported sweep would be undecided.

### Runner and client

`RunnerProofs`, from `ClientAssumption` and `RunnerAssumption`, for any budget, number of
attempts, page size and limits, and any grid of cities and terms:

| Theorem | Statement |
|---|---|
| `RunnerTypeCorrect` | `Spec => []TypeOK`, with the budget in it |
| `RunnerStatsAddUp` | `Spec => []StatsAddUp` |
| `RunnerPagesAreExact` | `Spec => []PagesAreExact` |
| `RunnerSweepCoversAll` | `Spec => []SweepCoversAll` |
| `RunnerEndsForAReason` | `Spec => []EndsForAReason` |
| `RunnerStopsAfterPair` | `Spec => []StopsAfterPair` |

`PagesAreExact`, `SweepCoversAll` and `StopsAfterPair` are not inductive; `RunnerInv` has a
part for each:

* `PagesInv`: `pages_fetched` lags behind the pages by one exactly from the arrival of a page
  to its first business, and by then the call counter tells the new page from the last one
  that was counted. Retries make the counter move by more than one, which does no
  harm, as the code only asks whether it is a different page.
* `SweptInv` and `LoopInv`: every pair before the loops' place (`Passed`) was searched, so
  at the end of the cities all were.
* `StopInv`: after a stop request no search begins, so the calls since then are at most
  those of the running search (`CallsSoFar`: pages done times attempts, plus the attempts at
  this one), which `PageCount` bounds by `PagesPerSearch * Attempts`.

`RunnerInv` was checked with TLC on the `runner` instance before it was proved.

### Model-checked only

Liveness, as it is outside the prover's reach: `EventuallyLanded`, `IngestedOrLoud`,
`RecordsEventuallyLand`, `CallsReturn`, `LateRowsReachGold`, `Terminates`; and the five
violated claims. Every safety property of a passing run, and every refinement, is a theorem.

## 5. Abstractions, and what is not modelled

* One partition. A business keeps to one, since its id is the record key, and
  partitions do not interact; `dlq_key` contains the partition.
* Envelopes are members of `Valid`, `Invalid` or `Unparseable`; one valid envelope per
  `event_id`, which the producer mints once per envelope (`ingest/schemas.py`).
* Volume mode of the Bronze job. Rows with offset -1 are in the table's type, but no
  action makes them. The job selects `payload.business_id` and `to_json(struct("*"))` from
  what Auto Loader inferred with `inferColumnTypes=false`, where whether `payload` is
  a struct or a string, what a changed schema does to a running query, and what
  goes to the rescued-data column are the runtime's; nothing in the repository, its
  tests included, says what a line becomes, so a model would be of a guess.
* `persist`, counts, printing, logging, configuration.
* OPTIMIZE and compaction (they change no rows).
* The arithmetic of the Gold aggregates, the fields of an event that no rule looks at, the
  messages of failures.
* An `observed_at` that is absent and one that is no timestamp are one value of the model, null.
  Under ANSI mode (the default of serverless compute) `to_timestamp` may raise for the second
  instead of giving null, and the batch would fail; that is not modelled.
* Settings: the ones that matter are constants or chosen in `Init`.

## 6. Plan

Done: every component's model and runs, and proofs of every safety property they check and
of the refinements `SilverSystem` to `ObservationStore`, `BronzeSystem` to `TopicCopy`, and
`Medallion` to `BronzeSystem`, `SilverSystem` and `ObservationStore`.

Left out on purpose: one specification of the producer and the pipeline together. They
share only the topic (`onBroker` here, `log` there), so `CleanSweepIsDurable` and
`RecordsLand` together say that a record of a sweep reported clean lands once both jobs have
caught up; the product of the two state spaces is out of reach of a run.
