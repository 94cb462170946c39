# A TLA+ model of tantivy-datafusion

tantivy-datafusion lets DataFusion query Tantivy indexes. A table is a set of
*splits* (one Tantivy index each, in memory, on local disk or in object storage);
one split is one partition of a scan. The crate translates filters, full-text
calls, limits and aggregates of a SQL plan into Tantivy queries, runs Tantivy's
synchronous code on a pool, and turns documents into Arrow record batches.

This directory holds TLA+ modules translated from the source, configurations that
TLC checks on small instances, and theorems that TLAPS proves for every value of
the constants. Paths below are relative to the crate; `table_provider.rs` stands
for `src/unified/tantivy_table_provider.rs`, `agg_data_source.rs` for
`src/unified/tantivy_agg_data_source.rs`.

## 1. Inventory

| component | state it keeps | operations | what is hard about it | what makes it correct |
|---|---|---|---|---|
| Scan stream of a partition (`table_provider.rs`, `TantivyDataSource::open`) | an open task, a blocking closure, two bounded channels, the guard `AbortOnDrop` with its `cancelled` flag | open; prepare, resolve, warm up, scan, forward, fill documents, join, report; poll; drop | three concurrent actors, drops and failures at any point, two bounded queues in a row | rows in order and once, no silent truncation, errors reach the consumer, no deadlock, everything is released after a drop |
| Split warmup (`warmup_tantivy_table_split`, `split_runtime.rs`, `index_opener.rs`, `warmup.rs`) | one `OnceCell` per split and plan; the prepared split of the factory | prepare, take the permit, load, set, fail, abort | concurrent executions, a permit holder that fails or is aborted, a cell that outlives what it speaks of | at most one warmup per split, nothing cold is read, nobody waits for ever |
| Top-k scan (`emit_topk_batches`) | hits, the rows collected by segment, `take_positions` | search, collect by segment, reorder, slice | two orders of the same rows, offsets into a concatenation, limits above the number of hits | the best documents, in rank order, each once |
| Aggregation stream (`agg_data_source.rs`) | a task per partition, a closure, a flag, a one-item channel | open, prepare, warm up, aggregate a split, merge, answer, drop | cancellation between awaits, one of several splits failing, partitions that answer nothing | each split counted once, no silent end, bounded work after a drop |
| Filter pushdown and query building (`supports_filters_pushdown`, `scan`, `build_combined_query`, `full_text_udf.rs`) | the filters in the data source, the cached query of a single-split plan | promise, collect, analyse per split, combine, parse | splits with different schemas; what is promised `Exact` nobody evaluates again | the answer is exactly the WHERE clause's |
| Codec (`codec.rs`) | a plan as protobuf | encode, decode | filters are dropped or rebuilt; a cached query may go stale | a decoded plan answers like the encoded one |
| Aggregation rule (`agg_pushdown.rs`, `plan_traversal.rs`) | none | rewrite one- and two-phase aggregates | everything about the scan that it must copy, and every aggregate it must leave alone | the rewritten plan answers like the old one |
| Aggregation results (`agg_exec.rs`) | intermediate buckets | aggregate, merge, convert to rows or to partial states | columns found by name; splits in any order; nulls | SQL's groups and values |
| Table provider (`table_provider.rs`, constructors, `plan_scan_schema`; `split_runtime.rs`, `index_opener.rs`) | schemas, descriptors, the local runtime factory | construct, scan, project | decisions made once for splits that differ, from several looks at indexes that a writer may change | what can be planned, every split can serve |
| Schemas and coercion (`schema_mapping.rs`, `type_coercion.rs`) | none | map, merge and coerce field types, merge lanes | types that differ between splits, promotions on the way | the order of the splits does not matter, no value changes meaning |
| Fast field reader (`fast_field_reader.rs`, `ChunkBuilder`, `fill_document_column_async`) | dictionaries of a segment | columns and documents of a chunk of rows | multi-valued and missing values, dictionaries, addresses of documents | a cell is its document's value, after the coercion |
| Document chunks (`util.rs`) | scorer position | walk a segment in chunks | alive bitset, cancellation, limit | every matching document once |
| Sync pool (`sync_exec.rs`) | none | run a closure off the executor | panics, refusal | a caller that awaits gets an answer |
| Metrics, partition statistics, crate root | counters | – | – | no decision depends on them |

How they interact: DataFusion's planner asks the *provider* what it can push
down, and calls `scan`, which builds a `TantivyDataSource` from the filters. The
*rule* may replace an aggregate and the scan below it by a `TantivyAggDataSource`,
which takes over parts of the scan. The *codec* may carry either to another
process. `open(partition)` starts a task that prepares the split (a call into the
embedding program's `SplitRuntimeFactory`), awaits the *warmup* through the
plan's cell for that split, and then runs a closure on the *sync pool*, which
builds the split's *query*, and walks the index either through the *document
chunks* or through *top-k*; the batches go through a channel back to the task, and
through another to the operator that polls the stream. Dropping the stream sets a
shared flag and aborts the task. Before all this the provider's *constructor* derives
each split's schema from its index or descriptor, *infers* the table's types from them,
and fixes them for the life of the table; on execution every batch goes from the *reader*
through the *coercion* of the split's columns to those types.

`PROJECT.json` lists the same components with their status, and under `hazards`
each of the hard spots at its source line, with the properties that cover it.

## 2. Modules

| module | what it models | lines of code it stands for |
|---|---|---|
| `RowRanges` | vocabulary: a batch as a range of row numbers, an error with the rows it stands for | – |
| `ScanContract` | abstract: what the stream of a partition promises, without channels or tasks | – |
| `ScanStream` | detailed: open task, closure, channels, guard, consumer; implements `ScanContract` | `table_provider.rs` open path, `run_blocking_scan_and_forward`, `generate_tantivy_table_batch_streaming`, chunk walkers of `util.rs`, `sync_exec.rs` |
| `ScanStreamProofs` | proofs about `ScanStream` | – |
| `SplitWarmup` | the warmup cell under concurrent executions | `warmup_tantivy_table_split`, the same in `agg_data_source.rs`, the prepared splits of `split_runtime.rs` |
| `SplitWarmupProofs` | proofs about `SplitWarmup` | – |
| `TopK` | top-k collection of one split | `emit_topk_batches`, `group_topk_hits`, `reorder_topk_batches` |
| `TopKProofs` | proofs about `TopK` | – |
| `AggStream` | streams of an aggregation source in both output modes | `TantivyAggDataSource::open` and its tasks |
| `AggContract` | abstract: what the streams of an aggregation promise, without tasks or flags; `AggStream` implements it | – |
| `AggStreamProofs` | proofs about `AggStream` | – |
| `FieldTypes` | types of fast fields: of a Tantivy field, of differing splits, and the coercions between them | `schema_mapping.rs`, the planning half of `type_coercion.rs` |
| `ColumnReader` | the cells of a document: reading, converting, merging of lanes | `fast_field_reader.rs`, the executing half of `type_coercion.rs` |
| `TableColumns` | a table from the constructor to the rows of a scan | the constructors, `plan_scan_schema`, `ChunkBuilder::build`, `fill_document_column_async`, `logical_scalar_to_term`, `multi_valued_fields` of `index_opener.rs`, the scan schema of `codec.rs` |
| `TableColumnsProofs` | proofs about `TableColumns` | – |
| `FilterExpressions` | the conjuncts of a WHERE clause, their truth and their queries over one split | `logical_expr_to_tantivy_query`, `analyze_fast_field_filter_support`, `build_split_fast_field_query`, `full_text_udf.rs`, `util.rs` |
| `FilterPushdown` | a WHERE clause from the planner to the split's query, through the rule and the codec | `supports_filters_pushdown`, `scan`, `build_combined_query`, `warmup_tantivy_table_split`, `agg_pushdown.rs`, `codec.rs` |
| `FilterPushdownProofs` | proofs about `FilterPushdown` | – |
| `Selecting` | what a loop keeps that pushes some of a list's items onto another | the loops of `collect_pushed_down_filters` and others |
| `Induction` | lemmas on which the proofs about recursive functions rest | – |
| `GroupedAggregation` | GROUP BY answered by terms aggregations | `agg_pushdown.rs`, `plan_traversal.rs`, `agg_exec.rs` |
| `GroupedAggregationProofs` | proofs about `GroupedAggregation` | – |
| `MC*` | the instances TLC checks | – |

`map` in `PROJECT.json` gives the source lines of every definition. A definition
whose comment calls it a *mutant* is not part of the model: it is a plausible bug,
and substituting it for the definition next to it breaks the property that
`mutants` in `PROJECT.json` names. It documents what each property is sensitive to.

### ScanStream

State and code: `stage` is where the `async` block of
`spawn_tantivy_table_open_task` stands at its last await; `held` the batch between
`raw_rx.recv()` and `tx.send()`; `worker` the closure given to the pool, with
`segment`, `row`, `remaining` the loop variables of
`generate_tantivy_table_batch_streaming` and `pending` the batch in
`blocking_send`; `raw` and `out` the two `mpsc::channel(2)`; `receiver` and `guard`
the two fields of the `unfold` state, dropped in either order; `guard` goes from
"armed" to "cancelled" (flag set) to "aborted" (`JoinHandle::abort` called), the
two statements of `AbortOnDrop::drop`. A batch is the range of the rows it covers,
numbered in scan order over all segments.

Actions: one per await or per step of the closure's loop. Every step that can
fail may fail; the pool may refuse the closure or the closure may panic, both of
which the pool turns into an error. `cancelled` is read with relaxed ordering, so
a closure may see it late. A failed `blocking_send` ends the chunks of the current
segment only, as in the code, and the closure then tries the next segment. An
abort takes effect at an await only. A panic of the open task is dropped with its
`JoinHandle`, and the consumer sees the end of the stream: `CleanEndIsComplete`
excepts it explicitly, and `ScanContract` has an action `Crash` for it.

`ScanContract` is the promise to the operator above: the next item continues the
rows handed out so far, or is an error that stands in for some of them, and the
stream ends only when all rows are accounted for, after an error, or after a
crash. `ImplementsContract` is the refinement, under
`target <- Target, phase <- consumer, crashed <- (stage = "panicked")`.

### SplitWarmup

Tasks with an itinerary (one split for a scan, all splits for a merged
aggregation) contend for one cell per split. `cell[s].holder` is the permit of
tokio's `OnceCell::get_or_try_init`: first come, returned on failure and on abort.
`runtime[t]` is the `PreparedSplit` a task works with and `warm` the prepared
splits whose data is loaded. `FreshPrepare` says whether the factory prepares a
split anew for every call.

### TopK

`plan` is the `ScanConfig` (is there a query, the ranking it induces, fetch, row
limit, batch size). Rows are collected segment by segment; `take` is
`take_positions`, `concat` the concatenation of the segment batches. Scores are
abstracted to the ranking.

### AggStream

A task per opened partition: `pc` stands at an await or between the look at the
flag and the submission of a closure; `job` is the closure, `partials` the
intermediate results of the merged mode, `channel` the one-item answer. `late`
counts closures submitted after the flag was set and exists for `OneLateClosure`
only.

`AggContract` gives each partition a duty, disjoint from the others', and lets it say one
word: an error, or an aggregate that counts every split of its duty once and no other. The
refinement counts how often each split occurs in an answer (`Counted`), so a split merged
twice or left out is no aggregate of the contract.

### FilterPushdown

A query *is* the set of documents it matches together with the structures of the
split that it reads (fast column, posting lists, positions or norms of a field). A `full_text` call's
search string is the set of its words as `QueryParser` finds them: each with its field, which is the call's column unless
the string names another, and whether it is a phrase. The parser refuses a malformed string and a word
of a field that is not indexed (`ParseFails`). `scored` says that the plan projects `_score`, so that running the
query takes norms as well (`Read`). Documents are all assignments of values to columns; a field the split lacks is null. Expressions are trees, given
by the function `Height` on all expressions that may occur, and `Truth`, `Nodes`, `Analyze` and `ToQuery` recurse over
them as the code does; `Truth` is SQL's three-valued logic. A disjunction of full-text calls is the
set of its calls. Actions are
`supports_filters_pushdown`, `scan`, the rule's rewrite, a trip through the codec
and the opening of a split. The planner keeps in a `FilterExec` what was not
promised `Exact`, and `RowsExact` compares what passes both with what the WHERE
clause says.

### GroupedAggregation

Documents have a key and a value, or null in place of either. `TryRewrite` is the rule,
`ExecuteSplit` one split's terms aggregation with its metrics, `Answer` the merge
and the conversion to rows, by the source itself (one phase) or by DataFusion's
final aggregate (two phases; modelled from the names and order of the state columns
the source must produce). `plan.names` says what the columns above a projection stand for.
`Expected` is SQL's answer, written independently: by groups of documents of the whole table, with
no split, bucket or state in it. A document is named by its *place*, a split and a position.

### FieldTypes, ColumnReader and TableColumns

`FieldTypes` and `ColumnReader` are pure operators, one for each function of the code;
`TableColumns` is the state machine that uses them. `looks[use][s]` is the result of
`multi_valued_fields()` on split `s`: the constructor calls it (through
`fast_field_schema_for_opener`) for the inference, again for the check and again for the
descriptor, each time on a new reader. (The call on line 130 only fills a
list that nobody reads once the schema on line 131 is there.) `Commit` is a writer of the
embedding program, which may add a segment before, between and after them. `MergeField` is one turn of the
inference's inner loop; `PlanScan`, `Ship`, `Open`, `ReadSegment` are a scan's planning, its
way through the codec, a split's open task up to the coercion plan, and the batch of one
segment. The whole segment is one batch here; cutting it is `ScanStream`'s matter.

A table of descriptors (`remote`) may bring schemas of its own, in which one logical
field lies in several columns ("lanes"), as the metadata keys of `lib.rs` allow. Values are
numbers, instants or words with the kind of fast column they lie in; decimals are counted in
halves, instants in nanoseconds. An `i64` is as wide as `HalfI64` says, and an `f64` holds every whole number up to
`Precision` and fewer and fewer beyond (`Spacing`): what becomes an `f64`, a cell or a literal, is `Rounded` to the nearest,
and a float literal that becomes an integer term is range-checked and saturates (`FloatAsInteger`), as in the code. `RowsExact` compares
each cell with `Full`, which goes from what is stored to the column's type in one step, without
reading as the split's type and coercing from there. Where a field has become multi-valued
after the look that made the schema, its first value stands for all of them (`Visible`, `Current`).

## 3. Runs

Passing runs, all of them exhaustive within their bounds:

| run | what it shows | bounds, and why they are enough |
|---|---|---|
| `scan_stream` | In every interleaving of closure, open task and consumer, with a failure, panic or drop at each point: `DeliveredInOrder`, `CleanEndIsComplete`, `WorkerErrorReported`, `BoundedRunahead`, the inductive invariant `IInv`, `ImplementsContract`, `StreamEnds`, `Released`. | The real capacity, 2. Seven plans: eight one-row batches (two channels and two hands hold six, so both channels fill and block), several segments with an empty one, limits inside and between batches, an empty split, limit 0, with and without warmup and document fetch. |
| `split_warmup` | `WarmsOnce`, `WarmBeforeRead`, `EveryOpenEnds` and the inductive invariant, with a factory that keeps its prepared splits. | Three tasks, so that one can hold the permit and two wait; three splits, one of them local; a task that visits all three, one that visits the two that need a warmup, one that visits a single one. |
| `topk` | `BestFirst`, `Complete`, the inductive invariant. | Every ranking of every subset of five documents in three segments: all permutations of rows over segments. Limits 0, 1, 3 and 5 lie below, at and above the number of hits and above the index capacity, which is 3 here instead of 2^32 - 1. |
| `agg_stream` | `SplitsCountedOnce`, `NoSilentEnd`, `OneLateClosure`, `StreamsEnd`, the inductive invariant and `ImplementsContract`, in both modes. | Two partitions, up to two splits: covers the merged plan, the plan with one split that takes the unmerged path, and a partition that answers for nothing. |
| `filter_pushdown` | `RowsExact`, `CachedQueryFresh`, `WarmupCoversQuery` and the inductive invariant `IInv`. | 65 WHERE clauses of one or two conjuncts over all comparison operators, both orientations, conjunctions, disjunctions, negations, IS NULL and full-text calls, five of them with `_doc_id`; search strings of a word, a phrase, and words of two fields; with and without scores; 43 tables of one or two splits whose fields are signed, unsigned, indexed, not fast, or absent; up to two trips through the codec (the second is where a stale query would show). |
| `agg_answer` | `AnswerExact`. | One to three splits, some empty, some without the group's field; all five functions, in one and two phases; projections that drop a column or name one that is no field; aggregates the rule must decline. |
| `table_columns` | `PlannedIsServable`, `SelfDerivedReadable`, `TypesIndependentOfOrder`, `RowsExact`, `NoRowLost`. | 351 tables: every pair of ten splits whose field is an integer, float, date, address, text, bytes or JSON, single- or multi-valued, and every triple of six of them (a promotion of a promotion needs three); declared types over integers, floats, dates and strings; descriptors with lanes; two segments with two documents each; a writer that adds a segment to either split at any point. An `i64` has 8192 values each way and floats hold every whole number up to 1024: the conversion of instants reaches its end, and so do casts to floats and float literals that are rounded or saturate (one beyond the largest integer saturates, 8200 is refused). |

Liveness is checked in the same runs: `scan_stream` and `agg_stream` run under
`PollingSpec`, `split_warmup` under `FairSpec`.

Runs that end in a violation. Each checks one statement of the repository against
what the code does; `findings` in `PROJECT.json` quotes the lines.

| run | property | what happens |
|---|---|---|
| `topk_extra_rows` | `NoExtraRows` | Two hits in two segments and a limit of 3: `take_positions` has three entries, the third still 0, so the gather repeats row 0. With hits in one segment only, as in the test at `tests/edge_cases.rs:372`, no gather runs and the result is right. |
| `filter_cold` | `NothingReadCold` | Equality on an indexed number is a term query over posting lists, which the warmup has not loaded. |
| `filter_grouped` | `RowsExact` | `NOT full_text(...)` below GROUP BY: the rule does not hand the negated calls to the aggregation source. |
| `agg_null_key` | `AnswerExact` | A document without a value in the group column: SQL has a group for null, the rewritten plan has none. |
| `columns_commit` | `SelfDerivedExecutable` | A commit between two of the constructor's looks at an index gives a field its first document with two values: the table has a scalar, the split a list, and `new` fails the check that it expects never to fail (or, if the commit comes between the last two looks, every scan fails). |

The passing runs keep out the inputs of these findings, or state what remains true of them, and nothing else: their
configurations differ from the violating ones in the tables and clauses only. The
`filter_pushdown` run has no `_doc_id` next to a field under OR and groups only positive single calls; it does have
indexed numbers, phrases, second fields and scores, and `WarmupCoversQuery` names what is read cold for them (`NeverLoaded`;
section 6); `agg_answer` has no document without a key; `topk`
states `Complete` for the cases in which the gather pads nothing, and
`NoExtraRows` apart; `table_columns` has the commits of `columns_commit`, and `PlannedIsServable`
speaks of tables whose looks have seen the same; it also has an integer that its float column
rounds, under a comparison that the rounding makes true, and `NoRowLost` excepts such fields (`FinerField`; section 6).

## 4. Fairness

- `WF(Task)`, `WF(Step)`: tokio polls a task that can make progress. The code
  starts tasks with `tokio::spawn` and awaits nothing outside them but the factory,
  the storage and the pool; that these answer is the embedding program's duty, and the
  model has both the answer and the failure.
- `WF(Worker)`, `WF(JobEnds)`: the pool runs a closure that it accepted
  (`spawn_blocking` or the thread pool of `sync_exec.rs`), and Tantivy's work on one
  batch or split is finite.
- `WF(AbortTask)`, `WF(Teardown)`, `WF(Guard)`: an abort takes effect at the task's
  next await, and dropping a stream is a run of destructors that completes.
- `WF(Poll \/ PollEnd)` is assumed in `PollingSpec` only, for the properties that say
  a *polled* stream ends. A consumer owes nothing: `Released` speaks of a consumer
  that went away.

No strong fairness is used. In `SplitWarmup` a waiting task could be overtaken only
by tasks that then end, and there are finitely many.

## 5. Proofs

TLAPS proves the following from the assumptions in the modules
(`CapacityAssumption`: the capacity is a positive number; `PlansAssumption`: the
number of matching rows up to a segment does not decrease; `SplitWarmupAssumption`:
itineraries are non-empty sequences of splits; `TopKAssumption` and
`AggStreamAssumption`: constants of the expected types, batch sizes and the number of splits positive;
`ExprShape`: an expression stands above its parts, is one of the forms listed, and a comparison may be turned around; `TableShape`, `WhereShape` and `BoundShape` of `FilterPushdown`: splits assign kinds to fields, clauses are sequences of
expressions, the number of hops is a number; `TableShape` of `TableColumns`: no two fields or columns of a schema
share a name, the internal columns have their own names and type, a column that is read from the field of
its name has one, and a stored value is of the kind of its field, each a property that Tantivy's schema or
`normalize_canonical_fast_field_schema` enforces, or that a descriptor's schema has if it was made from a Tantivy schema;
`WidthAssumption`: integers have a width and floats a precision, and the largest `i64` and `u64` are not floats but are rounded up by one; `NullIsNoNumber`, `TablesFit` and `PlansFit` of `GroupedAggregation`: a
table has at least one split with fields and documents, an aggregate's group is a list of names). TLC evaluates each of them on the instances of section 3.

`ScanStreamProofs`

- `Invariance`: `Spec => []IInv`. `DeliveredInOrder` is not inductive: to know
  that the next item delivered continues the rows received, one must know it of the
  queue it comes from, of the hand that put it there, and so on to the closure.
  `IInv` is the conjunction of `TypeOK`; `Chain` (received, `out`, `held`, `raw` and
  `pending` each continue the one before, and end at `row`, as long as the parts
  concerned still exist); `Control` (which hand is full and who is gone in which
  stage); `Scanned` (where row, segment and remaining limit stand to each other);
  `Outcome` (how a stream that nobody has dropped can have ended); `LastWord` (an error
  that stands for no rows is followed by nothing); and `Pace` (no item covers more rows than a batch has,
  no queue holds more items than its capacity, and so a queue is at most a batch ahead for each item). One lemma per conjunct shows that
  each action preserves it.
- `TypeCorrect`, `InOrder`, `CleanEnd`, `ErrorReported`, `BoundedLead` (`BoundedRunahead`): the
  safety properties, from `Invariance`. `BoundedLead` adds up `Pace` over the two queues and `Sized` over
  the two hands.
- `Refinement`: `Spec => ImplementsContract`. `Poll` maps to `Deliver`, `PollEnd` to
  `Finish`, `DropStream` to `Drop`, `PanicTask` to `Crash`, all else to a stutter;
  that `PollEnd` satisfies the guard of `Finish` is where `Outcome` is needed, that a
  delivered item satisfies `Deliver`'s is where `Chain` and `LastWord` are.

`SplitWarmupProofs`

- `Invariance`: `IInv` adds to the type that a warming task holds the permit of an
  unset cell (`HolderWarms`), that a task works with the runtime prepared for its
  split (`RuntimeOfSplit`), and that a set cell stands for a warm runtime
  (`SetMeansWarm`).
- `TypeCorrect`, and `OnceOnly`: `[]WarmsOnce`, whatever the factory does.
- `ReadsAreWarm`: `[](~FreshPrepare => WarmBeforeRead)`.

`TopKProofs`

- `Invariance`: `IInv` says that a rank whose row has been read knows where that row
  is and that every other entry of `take` is still 0 (`Placed`); that with all hits in one
  segment the rows are read by rank (`ReadByRank`, the reason why the code may skip the
  gather); and that the gathered batch and the slices keep the order (`Gathered`,
  `HandedOut`).
- `TypeCorrect` (the row indexes fit the index type: there are as many rows as
  placed ranks, and those are at most k), `RankOrder` (`BestFirst`), `AllWanted`
  (`Complete`), for any documents, rankings, limits and batch sizes.

`AggStreamProofs`

- `Invariance`: partition by partition, the flag and the abort come only from a stream
  that is being dropped (`Dropped`); a task that submitted a closure late has passed the
  last submission that the flag does not guard (`Late`); the task holds exactly the
  splits before the one it works on, or all of its duty (`Gathered`); a stream
  that is not dropped holds nothing until the task is over, and then one item
  (`Spoken`). Partitions share nothing but the plan, so a step of one leaves the others'
  parts alone (`OthersStay`).
- `TypeCorrect`, `NeverSilent`, `AtMostOneLate`; and `CountedOnce`: if all
  partitions that can answer for a split are opened (`0 .. MaxSplits - 1 \subseteq Partitions`,
  which DataFusion does since the plan's partitioning says so), every split is
  counted exactly once over all streams that end cleanly.
- `Refinement`: `Spec => ImplementsContract`. `Answer` of an owner maps to a stutter and `Poll` to `Say`
  (the contract's word is what the consumer has read), `PollEnd` to `Finish`, `Drop` to `Drop`, `Panic` to
  `Crash`. That what is polled is an aggregate of the duty is `Spoken`: all splits of the duty, no two
  positions alike, hence each counted once.

`TableColumnsProofs`

- `Invariance`: the types of the table stay types, `canonical` after each merge has for every merged column a
  type that the column *reaches* (`Reach`: its own, the list of its item type, or the list of
  strings), and a table that is provided was checked by what it then describes, or inferred from it.
- `Servable` (`PlannedIsServable`): whatever a column reaches it can be coerced to (`ReachCoercible`), and
  reach is kept by every further merge (`MergeReach`).
- `ReadableBatches` (`SelfDerivedReadable`): the types of Tantivy fields and their common types are
  types that the reader knows and whose lists can be made (`FieldArrowTypesClosed`).
- `OrderIndependent` (`TypesIndependentOfOrder`): `Joint` gives the common type of a *set* of types;
  merging one more type into it is the joint type of one more (`JointExtends`), whatever was merged before.
- `TypeCorrect`, `RowsShown` (`RowsExact`) and `NothingLost` (`NoRowLost`), from `IInv /\ RowsInv`. None of them
  is inductive: a batch is sent once and judged in every later state, so `RowsInv` keeps with each batch
  that it *is* what its segment and the plan make it (`Reads`), that the plan did not change after the first
  split was opened (`PlanInv`: `Ship` needs all streams closed), that a stream's segments are a prefix of what is
  committed (`StoreInv`), and that the types of the table stay as planned. What is left is about one cell:
  `ReadCellShows` (the reader yields the visible values; for a string column through the dictionary, in which
  `DictionaryHasAll` finds every value), `ConvertedIsStored` (a value read as the split's type and then coerced is the value converted
  at once, one case for each coercion: two truncations of an instant are one), `CoerceCellShows`, and
  `ProjectCellShows` (the first lane that has a value). `CurrentSees` says why a schema that is up to date hides no value.
- `NothingLost` adds `TermAgrees`: what a literal becomes as a term compares with the stored value as the literal does
  with the cell. It is where the exceptions of `NoRowLost` are needed, and no other. A literal that saturates at the largest
  integer stands for a larger one; that it still compares alike is because that integer, being rounded, is itself
  excepted (`LargestRoundedUp`).

`FilterPushdownProofs`

- `Invariance`: what the source holds is told by its provenance. `collected` are conjuncts
  of the clause that are wholly pushable, or a conjunct promised `Inexact` that `scan` turned around for a worker;
  calls and other full-text conjuncts are all there unless an aggregate took the scan over; the cached query is the one its own
  filters give; `opened` holds for each split what its query was.
- `AnswerExact` (`RowsExact`): `QueryKeeps` is the core, by induction on the height of an expression: on a split that has its fields,
  the query of an expression matches every document for which it is true, and no other unless it was promised `Inexact`;
  `MissingNeverTrue` covers a split without the field. `NothingLost` and `NothingExtra` put the conjuncts together.
- `CachedFresh`, `TypeCorrect`, `WarmupCovers` (by `QueryReads`, again by height: what a comparison's query reads the warmup of the same
  expression has loaded, but for posting lists of indexed numbers; by `WordReads` for the words of a call).
- Hypotheses: `AnswerExact` assumes `PseudoApart` (no promised comparison names a column that is no field) and `CallsOnly` (below
  an aggregate only positive calls). Without them the statement is
  false of the code: section 6 and the run `filter_grouped` show where. The
  instance of `filter_pushdown` satisfies them, which `MCFilterPushdown` has as an assumption of its own.
  `WarmupCovers` has none: what the warmup never loads is part of `WarmupCoversQuery` (`NeverLoaded`), structure by structure,
  and the statement without it (`NothingReadCold`) is false, as `filter_cold` shows.

`GroupedAggregationProofs`

- The model folds three times: a split's documents into stats, the splits' buckets into one set of buckets
  (`Merged`, in the order of the code's loop), the splits' states into a final state (`FinalState`, in no order).
  `IsTotal` writes the first as a function on the subsets of a finite set. It exists (`TotalExists`), any element
  can be taken first (`TotalOf`), two disjoint sets give what theirs give merged (`TotalUnion`), and nulls
  do not count (`StatsGiven`): the laws of a commutative monoid, of which `MergeLaws` and `NoStatsLaws` are the base.
- `BucketsMerge`: the buckets of two disjoint sets of places, merged, are the buckets of both. From it
  `MergedIs` and `FinalStateIs` give the other two folds in closed form: each is a solution of its recursion,
  and by `SubsetInduction` the only one. So one phase and two end in the same `Rows`, those of the buckets over all
  documents, whatever ran first.
- `IInvHolds`: only a rewritten aggregate is executed, a split's part is nothing or `Done(s)`, and an answer is
  `Rows`. `TypeCorrect` follows, with `FewRows` (at most a row for each document).
- `AnswerAsSql` (`[](Understood => AnswerExact)`): by `ColumnIsSqlValue` a bucket's column is SQL's value over the
  bucket's documents. `Understood` has four conditions: names that are fields stand for the fields (`NamesAreFields`), calls are on
  columns or `COUNT(*)` (`PlainCalls`), every document has the key (`KeysGiven`), every summed group has a
  value (`SumsGiven`). Each is a case in which the code differs from SQL: the first two and the last are in section 6, the
  third is the run `agg_null_key`. Every aggregate that `agg_answer` rewrites meets all four.

`Induction`

TLAPS's library states induction with an operator as a parameter, which no installed prover instantiates. This module
goes round that: `LeastNumber` (a non-empty set of numbers has a least one, from well-foundedness), from it
`HeightInduction` and `NumberInduction` for *sets* in place of predicates, and `Recursion`: a function defined by
recursion over a set with a height exists. With that `Only` (in `Selecting`), which keeps some of the items of a
sequence, has the expected properties (`OnlyKeeps`, `OnlyInOrder`, `OnlyOne`), and the expressions of `FilterExpressions` can be
taken apart by their height.

The premise of `ReadsAreWarm` is a condition on the embedding program. The
cells belong to the plan, but what is read is the prepared split, and
`SplitRuntimeFactory` may return a new one on every call
(`docs/planning/split-planning.md:238` asks to "Run query-shaped warmup once for
that prepared split"). With `FreshPrepare = TRUE` the second execution of a plan
finds the cell set and reads a runtime that nobody has warmed. The crate's own
`DirectIndexOpener` keeps its prepared split, but its splits need no warmup; those
that do come from an embedding program's factory, which therefore has to hand out one prepared split per
split, or share the loaded data between them.

A caution about the prover: tlapm's translation to SMT takes every function for a sequence once `Len` or `Seq`
occurs in an obligation, so that `0 \in DOMAIN f` becomes contradictory there. The schemas of `TableColumns`, whose internal
columns have the keys -1 and 0, are the functions concerned; steps about their domains are therefore given to
Zenon, or say with `BY ONLY` what they use. For every leaf of the proof modules it was tried whether the SMT
solver derives `FALSE` from the leaf's facts; it does so only where the proof is by contradiction or the case impossible.

Only model-checked: the liveness properties (`StreamEnds`, `Released`,
`EveryOpenEnds`, `StreamsEnd`), for TLAPS does not reason about fairness and ENABLED
here.

## 6. Known differences that no run shows

Met while reading and modelling; each is under `hazards` or keeps an input out of a passing run.

- In one phase the rule passes over a call on a computed argument:
  `SUM(v * 2)` becomes a column of nulls and `COUNT(v * 2)` the number of documents
  (`agg_pushdown.rs:299`). In two phases it declines the first.
- The sum of a group without any value is 0 in Tantivy and null in SQL
  (`agg_exec.rs:903`).
- `ProjectionExec` counts as transparent (`plan_traversal.rs:21`). Where it gives a computed or
  another column the name of a field, the rewritten aggregate takes the field; projections with
  names that no field has are declined, and checked.
- `with_fetch` sets `topk` whenever `_score` is projected (`table_provider.rs:1580` looks at
  `needs_score` only), and `emit_topk_batches` fails without a query ("topk collection requires an active
  query", line 1904): `SELECT _score FROM t LIMIT 3` fails where line 352 promises "`_score` as null when no
  FTS query is active". `TopK` has this as the phase "refused".
- A column that is no Tantivy field (`_doc_id`, `_segment_ord`, `_score`) counts as a missing
  field, as if it were null (`table_provider.rs:216`, line 289): `b = 0 OR _doc_id = 0` is pushed when one
  split has `b`, and a split without `b` then returns no row though `_doc_id = 0` is true there.
  The FilterExec above cannot bring them back.
- A field that becomes multi-valued after the descriptor was made is read as a scalar and shows
  its first value only; `RowsExact` allows this (`Current`).
- Milliseconds become microseconds by a multiplication that wraps in a release build
  (`type_coercion.rs:567`) and panics in a debug build; instants before 1970 are truncated towards zero
  (`type_coercion.rs:547`), so they round up.
- A declared list of `Utf8View` over a scalar column passes planning and fails on the first batch
  (`type_coercion.rs:656`); inferred types never do (`SelfDerivedReadable`).
- A runtime factory of the session goes before the provider's own (`table_provider.rs:1200`;
  `docs/planning/todo.md:7` calls it a singleton): with another table's factory in the session, scans
  of local indexes fail.
- A fetch in a `CoalescePartitionsExec` and a row limit in the scan are not taken
  over by the rewrite.
- Comparisons are pushed as typed values of the split's field. Where the split's
  values are finer than the table's column (a float field under an integer column,
  nanoseconds under microseconds, an integer above 2^53 under a float column) or the column is read from another field, the pushed comparison
  sees other values than the FilterExec above, and may lose rows; `NoRowLost` excepts these
  (`FinerField`, `ByOwnField`). For the integer: an `i64` field under a declared `Float64` column holds 2^53 + 1; its cell is
  cast to 2^53 (`type_coercion.rs:231`), so `f = 9007199254740992.0` is true of it, but the pushed term is the exact integer
  2^53 (`tantivy_table_provider.rs:2238`, for `u64` line 2258) and excludes the document. The FilterExec that
  `tantivy_table_provider.rs:1615` calls a safety net removes rows and cannot bring one back. `table_columns` has this
  table with 1025 and 1024.0; without the third disjunct of `FinerField` its `NoRowLost` fails there.
- The warmup loads, for full-text calls, the dictionary and posting lists of the column of the call
  (`tantivy_table_provider.rs:1347`), although `warmup.rs:5` says that it "pre-loads the needed data". Further structures
  that the query reads synchronously stay cold: positions, when the string has a phrase (`warmup.rs:72` is
  `warm_postings_full(false)`); the posting lists of another field that the string names (`util.rs:96`); the field norms, when
  `_score` is projected (`util.rs:153`), though `docs/planning/split-planning.md:286` lists "scoring requirements" among
  what drives the warmup. Together with the numbers of `filter_cold` these are the four parts of `NeverLoaded`; `filter_pushdown`
  has clauses and plans of each kind, and `WarmupCoversQuery` fails there without any one of the parts.
- Metrics are f64 and are cast back to the column's type (`agg_exec.rs:852`).
- String keys of different splits that parse to equal numbers can make one group
  appear twice in one phase.

## 7. Not modelled, and why

- **Codec of split descriptors and schemas**: carried unchanged, `TableColumns.Ship` leaves them as they are. The
  u32 limits of the wire format (`codec.rs:143`) refuse what no plan has.
- **The per-chunk dictionary** (`build_compact_dict_array`) and the reader's own walk over alive
  documents (`collect_docs` without document ids): no execution path takes them.
- **Kinds of values**: one unit of timestamps, UTF-8 dictionaries, and of Arrow's numbers those that
  fields of Tantivy have; how numbers are printed as text, since only identity of the text matters.
- **Which files the warmup loads**: `FilterPushdown` has *what* is loaded, by field
  and structure; not the directories and byte ranges.
- **The query language of `full_text`**: a search string is a disjunction of words and phrases of any fields. Conjunctions,
  negations, boosts and prefixes in a string combine or look up words and read the same structures of the same fields.
  Ranges and tests for existence over a further field may read its fast column, which the warmup does not load either
  (as with its posting lists, section 6); they are left out, and so is a phrase over a field indexed
  without positions, which the parser refuses.
- **Histogram, range and metric-only aggregation results**: the rule never asks for
  them.
- **`warmup_all` and its helpers**: public functions that no execution path calls.
- **Partition statistics**: always unknown, since every constructor leaves them unset.
- **Metrics**: no decision depends on them.
- **Number widths**: integers are unbounded in the model except for top-k's index
  capacity and `TableColumns`' integers and floats, of which the floats have no infinities, no NaN and no fractions but halves.

## 8. Plan

Built, in this order: `RowRanges`, `ScanContract`, `ScanStream` and its proofs (the path
every query takes), `SplitWarmup` and its proofs (shared by scans and aggregations),
`TopK` and `AggStream` with theirs, `FilterPushdown` (where a mistake loses rows
silently) and `GroupedAggregation` with theirs; then `FieldTypes`, `ColumnReader` and `TableColumns` (what
a row shows) with proofs, `AggContract` and the refinement, the bounded lead of a scan.

Left, in this order:

1. A composition of `SplitWarmup` and `ScanStream`: several partitions and executions of one
   plan, each with its stream, sharing the cells, so that a dropped stream aborts a
   warmup others wait for. Each half has the other's steps as environment today: a warmup may be aborted
   at any point in `SplitWarmup`, and may fail or take any time in `ScanStream`.
2. Number widths of metrics in `GroupedAggregation`.
3. Which files a warmup loads (`warmup.rs`, directories and byte ranges).
4. The partition's scan order within one split under `TopK` and `TableColumns` together: documents fetched for
   rows that the gather has reordered.
