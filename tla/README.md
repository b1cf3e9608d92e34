# OpenInsight in TLA+

This directory specifies and verifies the Go program of this repository:
OpenInsight, a distribution of the OpenTelemetry Collector with two exporters
(Elasticsearch, ClickHouse) that store traces, logs and metrics, and an
extension (`query`) that reads them back. Everything here is about the code under
`src/exporter` and `src/extension`; the collector itself, the client libraries
and the databases are external, and are modelled from the way this code uses
them.

`PROJECT.json` lists the components, the runs, for each property a mutation of
the model that breaks it, the source lines that each definition translates, the
findings, the hazards and the theorems.

## Inventory

### Elasticsearch exporter

| Part | State | Operations | What is hard |
|---|---|---|---|
| Document delivery, `elasticsearch_bulk.go` | the client library's bulk indexer: a bounded queue, a buffer and a mutex per worker, a ticker; per document the counter `attempts` and the body reader captured by its callback | `pushDocuments`, `OnFailure`, HTTP retries of the client, flush by size, by time and by `Close` | `OnFailure` runs inside a flush and adds to the queue that its own worker empties; retries of items and of requests multiply; answers get lost; `Close` closes the queue while callbacks may still add to it |
| Initialisation for Jaeger, `jaeger_es_init.go` | templates, ILM policy and write indices in Elasticsearch | `checkAndInitElasticsearch`: for each of three cases look, then create | several collectors at once, look-then-create races, errors taken for "exists", death in the middle, exporting to an alias that is not there |
| Pushes, `trace_exporter.go`, `logs_exporter.go` | none of their own | loop over the spans or records of a batch, collect errors, stop when the context ends | partial success; service records with a hashed id |
| Document model, `model.go`, `internal/objmodel` | a list of named values | `Sort`, `Dedup`, flat or dedotted JSON | names that are both a value and a prefix; duplicates that are no neighbours |
| Configuration | none | `Validate` | - |

The delivery is correct if what `pushDocuments` accepted is indexed or reported
in the end, is stored twice only if an answer was lost, is sent a bounded number
of times and never without its body, and if `Shutdown` returns leaving nothing
behind. The initialisation is correct if a collector that starts to export finds
for every case an index that carries the write alias and was created from the
template, and the policy that the template names. A push is correct if it reports success only when
every record was accepted; the document model if the document holds the last
value of each name of its record, in JSON whose objects nest, and with `Dedup`
is one that Elasticsearch takes.

### ClickHouse exporter

| Part | State | Operations | What is hard |
|---|---|---|---|
| Logs and traces, `exporter_logs.go`, `exporter_traces.go` | a transaction and a prepared statement per push | `pushLogsData`, `pushTraceData`, `doWithTx` | a failure at any call, lost answers to the commit, retries, shutdown with a full queue |
| Metrics, `exporter_metrics.go`, `internal/*.go` | five models per push, a channel of errors, a `WaitGroup` | `pushMetricsData`, `InsertMetrics` | five concurrent insertions of which some fail; a retry repeats those that succeeded |
| Schema, `createDatabase`, `createTracesTable`, `createLogsTable`, `NewMetricsTable`, `buildDSN` | databases, tables and a materialized view | `start` of each exporter | concurrent and repeated starts, order of the statements, which database each statement goes to |

All three exporters sit behind `exporterhelper`: a bounded queue, one consumer,
retries with a deadline (`enforcedQueueSettings`). They are correct if a batch is
reported stored only when it is in the database, whole blocks only, duplicates
only where answers were lost, no transaction outlives its push, no goroutine
outlives `InsertMetrics`, and no row is inserted before its tables, and the view
that indexes it, exist.

### Query extension

| Part | State | Operations | What is hard |
|---|---|---|---|
| Server, `query_server.go`, `plugin/factory.go` | two listeners, `cmux`, a gRPC and an HTTP server, three goroutines, the variable `err` they share | `Start`, `Shutdown`, the way of a request | order in which goroutines start and end; a gateway that calls its own port; `Fatalf` after `Shutdown` |
| Elasticsearch and ClickHouse data sources | a client | searches, conversion of hits and rows to spans | limits of searches, the inverse of the document model, the lookup through `trace_id_ts` |
| Conversion of spans, `interface.go` | none | `DocumentsTracesConvert`, `FindRootSpan` | collecting the resources of a trace |
| Handler, `grpc_handler.go` | none | parses the parameters of a search, passes answers and errors on | zero values of what a request leaves out |
| API | none | generated code | - |

The server is correct if a request that a port took and a `Shutdown` that began
come to an end. The data source and the conversion are correct if they show the
spans, roots, services and operations of what was exported, whatever the order in
which it was stored, however often, and in however many blocks a trace came.

`internal/` holds libraries copied from the collector's repository and test data
generators, `builder/`, `configs/` and `examples/` hold configuration.

### How the parts interact

The collector's pipelines call the exporters (`push...`) from several goroutines
at once; exporters share nothing with each other but the database. What the
exporters write is what the query extension reads: the Jaeger indices, the fields
of a document, the ClickHouse tables and the view over the traces. Inside the
Elasticsearch exporter the bulk indexer calls back into `OnFailure`, which calls
the indexer again. Inside the query extension the HTTP server calls the gRPC
server through the port of both.

## Modules

| Module | What it is |
|---|---|
| `BulkIndexer` | `pushDocuments`, `OnFailure` and `Close` on the bulk indexer |
| `DocDelivery` | abstract: what the exporter promises for a document |
| `BulkIndexerProofs` | theorems about `BulkIndexer` |
| `JaegerInit` | several collectors initialising one Elasticsearch |
| `JaegerInitProofs` | theorems about `JaegerInit` |
| `RetryQueue` | the sending queue of `exporterhelper` as the ClickHouse exporters configure it; extended by the next two |
| `ClickhouseTx` | the push of the logs and of the traces exporter |
| `ClickhouseMetrics` | the push of the metrics exporter with its goroutines |
| `BatchDelivery` | abstract: what an exporter promises for a batch made of parts |
| `ClickhouseTraces` | the rows of the spans, the view over them, and the queries of the ClickHouse data source; extends `ClickhouseTx` |
| `RetryQueueProofs` | lemmas about the queue, cited by the next two |
| `ClickhouseTracesProofs` | theorems about `ClickhouseTx`, the refinement among them, and about `ClickhouseTraces` |
| `ClickhouseMetricsProofs` | theorems about `ClickhouseMetrics`, the refinement among them |
| `ClickhouseSchema` | the starts of several exporters on one server |
| `ClickhouseSchemaProofs` | theorems about `ClickhouseSchema` |
| `QueryServer` | start, service and shutdown of the query extension |
| `QueryServerProofs` | theorems about `QueryServer` |
| `ObjModel` | operators: the fields of a document, `Sort`, `Dedup`, their JSON, and what Elasticsearch finds in it |
| `TraceView` | operators: documents back into spans, spans into traces |
| `SpanStore` | a batch pushed by the Elasticsearch exporter, delivered, and searched by the query extension; extends the two above |
| `SpanStoreProofs` | theorems about `SpanStore`, the refinement of `DocDelivery` by the pushes among them, and about `ObjModel` |
| `MC...` | instances of these for TLC |

### BulkIndexer

A document is in one place: `where[d]` is `queued` (in the channel), `held` (the
worker has received it), `buffered`, one of the answers to its item, `retrying`
(its callback is inside `Add`), or an outcome. `owner` is the worker it is with.
`holder[w]` says who holds the mutex of worker `w` across a flush: the worker
itself, the ticker, or `Close`. A flush is `sending` until the request is answered
(`Answered`: any combination of created, retryable and rejected items; a create
for an id that exists cannot succeed) or fails (`Unanswered`: any subset of the
items may have been stored), and then `answering`, one item after another
(`ItemCreated`, `OnFailureRetry`, `OnFailureDrop`, `FailureUnseen`).
`Resubmit` is the `Add` inside `OnFailure`: it needs room in the queue, and
until there is, `holder[w]` stays. After `Close` has closed the queue it is
`ResubmitPanics`. `ImplementsDelivery` says that all this implements
`DocDelivery`: stored some number of times, reported indexed only if stored.

The buffer size in bytes is a number of documents; indices and bodies are not
told apart, only whether the body reader is at its start when it is read.

### JaegerInit

`pc[c]` is the next request of collector `c` and `case[c]` the position of its
loop over `esCase`. Each request has three results: answered well, an error
answer (`ErrorAnswer`: the `exists...` functions read it as "exists", the
`create...` functions log it), or none (`NoAnswer`: the nil response is
dereferenced and the collector dies; the request may have been executed). An
index remembers whether it carries the alias (`first`) or was created by a
write to the missing alias (`auto`), and `mapped` whether the template existed at that
time. The policy is looked up by the name that the template gave the index, so it may be
put later: `Ready` asks whether it exists. `refused` remembers that some request was
answered with an error. The properties hold as long as none was, and so cover every
race and every death, with or without the request it was waiting for executed.

### RetryQueue, ClickhouseTx, ClickhouseMetrics

`stage[b]` is `new`, `refused` (queue full), `queued`, `taken`, `stored` or
`dropped`; the consumer is `idle`, `pushing` or `waiting` for its backoff.
`Shutdown` ends the waiting, lets the consumer drain the queue and closes the
client. The push itself is the business of the extending module, which ends it
with `PushSucceeds` or `PushFails`.

In `ClickhouseTx` a push goes through `begin`, `prepare`, `rows` (one row stands
for the records of one resource) and `commit`. `tx` counts open transactions,
`Rollback` is the deferred call. `Fail` is any of the calls returning an error
before the block is sent; `CommitUnseen` is a block that is stored while its
answer is lost. A block keeps the `ServiceName` of its rows, because the two
exporters differ in the scope of that variable.

In `ClickhouseMetrics` `main` is the goroutine of the push and `insert[t]` that
of model `t`. `Send` puts the result into `errsChan`, `Wait` is `wg.Wait()`, and
`Collect` decides what the push returns. A batch with a metric of unset type
fails in `AddFails`, before anything is inserted.

Both implement `BatchDelivery`, the first with one part per batch, the second
with a part for each metric type of the batch.

### ClickhouseTraces

This is `ClickhouseTx` for the traces exporter with the content of the batches: it
adds no state and no action. `Row(k)` is the row that `ExecContext` sends for span
`k[3]` of resource `k[2]` of block `k[1]`, with its events and links as the arrays
of nested columns, and `TraceIdTs` is what the materialized view has made of the
blocks: a row for each trace id of each block. A query of the data source is one SQL
statement, so its answer is an operator on the table. `GetTrace` groups rows by
`generateAttributesId` and turns them back into spans; `buildQuery` is the join of
`SearchTraces`, whose result the code reads and does not return yet; `GetService`
takes the rows with the latest time of each service; `parseTraceQueryParameters` is
the handler's part. Where SQL leaves the order open (rows of `trace_id_ts` that start
at the same time, at the limit) only what every order gives is taken. The properties
compare the answers with the batches that were handed over, in every state that
failures, retries and a shutdown lead to.

A time is a number, and `Second` of them are a second. The text of an id (`Hex`) and the
string of `generateAttributesId` (`Joined`) are operators that an instance gives:
nothing is assumed of them, so different resources may have one string, as they do where
a value holds the separators, which the code does not escape. Such resources share a
group, whose `resources` has all of those that may be the group's. An attribute value is
a type and a text: `attributesToMap` keeps the text. A missing key of a map is its empty
text (`Element`). In `Row` and `Span` ids become their hexadecimal text, and that
text's bytes. The deletion of old rows (TTL) is left out.

### ClickhouseSchema

One exporter goes from `down` through `database` and `tables` to `running`;
`done` holds the statements of this start that returned, `Before(t)` the
statements the code sends before that of `t` (the metrics exporter ranges over a
map, so its tables come in any order). `Dsn` is `buildDSN`: the database of a
connection, from the argument, the option and the path of the endpoint.
`DownUnseen` is a statement that was executed while its exporter ended.
`Insert` runs the view if there is one, for the spans that have a trace id.

### QueryServer

`step` is where `Start` or `Shutdown` is. Each of the three goroutines is
`spawned`, `serving`, `returned` (Serve has returned `result[g]`), `stored` (the
assignment to the shared `err`) and `ended` (the test of `err`, perhaps with
`Fatalf`). A request is in the `backlog` of a port, `matched` by cmux to a
server, at the `gateway` (the HTTP handler has connected to the port again),
`gatewayMatched`, and then `served` or `refused`. The way listeners close each
other is that of the libraries at the versions in `go.mod`: closing a listener of
cmux closes the port, cmux then ends, and its end ends the Accept of both
servers.

### ObjModel, TraceView, SpanStore

The three follow a batch from `pushTraceData` or `pushLogsData` to the answers of
the query extension. A key is a sequence of tokens with an explicit separator,
because the order of keys (the dash sorts before the dot) decides what `Dedup`
finds to be neighbours. Values are opaque, but for three. `Null` is an attribute without
a value, the only one that `AddAttributes` skips. `Nil` is what the writer skips, an
empty array among them: until then it is a field, takes part in `Dedup`, and replaces
an earlier value of its name. `Ignored` is what `Dedup` puts in the place of the earlier
ones. JSON is the sequence of calls that `iterJSONFlat` and `iterJSONDedot` make of their
visitor. `LeafFields` reads it back the way Elasticsearch does, for whom `a.b` and a `b`
inside of `a` are one name, and `TopLevel` the way the query extension's decoder does,
for whom they are not. The `level` that `iterJSONDedot` counts
is the number of separators in its `objPrefix`.

In `SpanStore`, `next` and `stage` are the position of the push in its loop,
`PushRecord` and `PushService` the two calls of it, which fail only because the
context has ended (`Cancel`) or because a span has no service. What was accepted
is stored (perhaps twice), refused by Elasticsearch for its names, or lost, in any
order, while the push goes on and while queries run: `DocDelivery` says when a
copy or a loss may happen, here both may. A record of services is created under the
hash of its names; where the id is taken it is refused as a conflict, perhaps with
its own copy. `search` is `SearchTraces` between
`FindTraceIds` and `MultiGetTraces`. What conversions do to the values of an instance
is given by operators: `Hex` is the text of an id (`AddTraceID`), which the reader takes
for its bytes; `Sprint` the text that the reader makes of an attribute's value; `Words`
Elasticsearch's analysis of a text, by which tags, `GetTrace` and `GetOperations` find
it; `InARow` the concatenation in `hashCode`. `MostFrequent` is a terms aggregation with
its size: of values that are equally frequent it takes any. `GetOperations` has a
service or none and a kind or none.

Left out: the values inside of arrays, the times and the links of a span, which
collide with no other name, the tags of a process, the window of a search, which
is the whole time, dynamic indices, and queries of logs, for which the code returns
nil. Also left out of values: a double that is no number or infinite, which is written as
null; the number that stands for a status; texts too long for a keyword; a
`service.name` that is not a string. `encodeSpan` writes to a buffer in memory, and
its error (`trace_exporter.go:137`) does not occur.

Every order of hits is an order in which the documents may have been stored,
so hits come in the order of `index`. Nothing is asked before something is
stored, for every answer is empty then; nor of an index in Jaeger's format, whose
spans have none of the fields that the queries name.

## Runs

Passing runs:

| Run | Bounds | Shows |
|---|---|---|
| `bulk_safety` | 3 documents, one with an id, 1 worker, 2 attempts of items and of requests, 2 lost copies, shutdown | the delivery invariants, and that the indexer implements `DocDelivery` |
| `bulk_close` | 2 documents, 2 workers, a lost copy, shutdown | everything accepted is settled, retries included, as long as fewer than `2 * NumWorkers` documents are in flight; `Close` ends or panics |
| `init` | 3 collectors, 3 cases, 2 failures | an index without template, policy or alias takes a request that was answered with an error; every collector comes to export, and finds everything ready otherwise, whoever died on the way |
| `traces` | 3 batches, of 6 spans together (a trace over two batches and four resources, two of which have one joined text and one a service that is no string, one of one span, a span without a trace id, an empty batch), 3 attempts, an answer lost, shutdown, 6 searches | whole blocks, duplicates only from lost answers, no transaction left, the refinement; and in every state, that what was reported stored is read back as the exporter wrote it, found by searches, and listed with its service and operation |
| `metrics` | 2 batches, 3 types, one of them unset, 3 attempts, a lost answer, shutdown | concurrency of `InsertMetrics`, the refinement, every batch is settled |
| `schema_shared` | 4 exporters, 2 starts each, 2 databases | tables before rows, the view before spans |
| `query_life` | a client of each kind, failures, shutdown | requests and `Shutdown` end |
| `store` | batches of one record with up to 3 attributes named `a`, `a.b`, `a-b`, `a.value` or `b` in a map `a`, one of two an empty array or without a value, of two records, and of 3 spans in 1 or 2 traces; traces and logs, with and without `dedup` and `dedot`, Jaeger; 1 lost answer, 1 query of any kind, by service, operation, kind or tag | documents and records of services hold what was exported, JSON nests, `Dedup` prevents refusals, pushes tell the truth; every answer shows the spans and operations that are in the index, and of each trace the root and the services |

Runs that show a disagreement between the code and what is said of it:

| Run | Property | What happens |
|---|---|---|
| `bulk_gridlock` | `RetryIsQueued` | the queue is full and every worker waits in `OnFailure` for room in it: the exporter stops for good |
| `init_heals` | `CleanStartHasRolloverIndex` | after one failed creation of a rollover index the export creates an index of the alias's name; a collector whose requests are all answered well takes that for the rollover index, creates none, and exports |
| `tx_logs` | `RowsNameTheirService` | a log record of a resource without `service.name` gets that of the resource before it |
| `query_grpc` | `GrpcEndpointAnswers` | nobody accepts on the gRPC port |

Smaller disagreements that the models contain and no run reports:

- `SendsWithinBudget` is as weak as `MaxRequests * MaxRequests` because
  `MaxRequests` bounds two loops nested in each other, the HTTP attempts of a
  request and the attempts of an event in `OnFailure`; the comment at
  `elasticsearch_bulk.go:84` takes it to bound the attempts of an event.
- `CfgDatabase` is never empty, because `createDefaultConfig` fills in `default`:
  `buildDSN` always replaces the path of the endpoint, although a case of
  `config_test.go:158` is named "use database name from DSN if not set in
  config".
- `Store` and `Check` of `QueryServer` share one `err`: a goroutine may report the
  error of another one.
- `Shutdown` makes the `Serve` of cmux and of the HTTP server return an error,
  which is no failure; `Check` then ends the process with `Fatalf` ("http listener
  failed") while the collector still shuts down (`query_server.go:57`, `:64`).
  `ShutdownEnds` has `~Alive` for that reason.
- `Dedup` does not prevent every conflict it is documented to remove
  (`objmodel.go:210`): with `a`, `a-b`, `a.b` the object and the value `a` are not
  neighbours; with `a`, `a`, `a.b` the first `a` stays and is neither renamed nor
  marked; with `a`, `a.b`, `a.value.c` the new name meets an object. These are
  the provisos of `IsClean`.
- With `dedot`, which `createDefaultConfig` of the exporter turns on, attributes
  and resources are objects, and `DocumentsResourceSpansConvert` finds only members
  whose name contains `Attributes.` or `Resource.` (`query.go:317`): spans come
  back without them and traces without services. `ReadBackAs` says both: all
  of them are read of a flat document, none of a dedotted one.
- An empty array that is given after a value of the same name removes the value: it
  takes its place in `Dedup` (`objmodel.go:227`) and is then not written
  (`:264`, `:294`). `Holds` allows for it.
- Ids come back from both data sources as the bytes of their hexadecimal text
  (`es/query.go:290`, `clickhouse/query.go:247`), twice as long as they were, and
  attributes of any type as strings.
- Resources of the services A, B, B become the processes A, B, B, although
  `interface.go:88` says that those that are there already are ignored.
- Two pairs of service and operation may have one id (`HashCode`), and the second
  record is a conflict that nobody reports.
- An error of the second request of `SearchTraces` becomes an empty answer;
  `GetTrace` gives at most ten spans; `GetOperations` looks for words of a
  service's name, `FindTraceIds` for the name.
- The ClickHouse data source looks a status up among the names of the span kinds
  (`query.go:265`), so every span comes back unset, although the API knows
  "STATUS_CODE_ERROR: The Span contains an error."
  (`query_service.swagger.json:302`). `AnswersAreWhatWasSent` says nothing of the status.
- `generateAttributesId` joins names and values with `:` and `;` and escapes neither
  (`clickhouse/query.go:295`): the resources `{a: "1;b:2"}` and `{a: "1", b: "2"}` make
  one group, and the spans of one come back under the other. `AnswersAreWhatWasSent`
  allows for that, and for nothing else.
- `Shutdown` of the query extension returns the error of a port that is closed twice,
  once by the gRPC server and once by the HTTP server (`CloseHttp`).
- Its search compares the nanoseconds of a duration and not its seconds
  (`query.go:213`): from 1s to 10s, as in the comments of `query_service.proto:46`,
  restricts nothing. It looks for the attributes of a query among those of the span,
  where line 39 of the same file says span and resource, and formats the times of
  the window to whole seconds. `InDuration`, `Keywords` and `Formatted` are what the
  code does, and `StoredIsFound` promises no more.
- The "Maximum number of traces" limits the rows of `trace_id_ts`, of which a trace
  has one per block: a search may give fewer traces than it asks for while there are
  more. `StoredIsFound` asks for as many as there are rows.
- `SearchTraces` on ClickHouse reads its rows and returns nil; the state of a trace
  and the scope of a span are not read back.
- `Known` has no `prometheus`, which `AllQueryTypes` lists: that storage type ends
  the process.

### Bounds

Every bound is a constant. `MaxLost` and `MaxFaults` bound failures that nothing
in the code bounds; the properties speak of each of them (a duplicate needs a
lost answer), so two, in `bulk_safety` and `init`, show that a second one changes nothing;
elsewhere it is one for each document, batch or type. `MaxAttempts` of
`RetryQueue` stands for `MaxElapsedTime`, and three attempts have a first, a
middle and a last one. `MaxStarts = 2` has a start that finds nothing, half or all
of the schema. Two or three documents and one or two workers reach a buffer that
fills, one that does not, a full queue and the gridlock, which needs
`2 * NumWorkers` documents. Three collectors have two that race and one that
already exports. In `traces` every block may be in the table twice, and the searches
are one by tag and operation in a window, one of a service and a tag with an empty value,
one with a limit of a single row, one of a service whose window begins and ends inside
a second, one with a duration, and the empty one. In `store` three attributes are the least that separate a name
from its object by another name or by a duplicate, and all lists of them are
enumerated; `SearchSize` lets a search miss a span only when one is stored
twice, `DefaultSize` cuts a trace of three, `NumTraces` one of two traces,
`ServicesSize` one of two services and `OperationsSize` one of three operations.
Symmetry is used only in `bulk_safety`, which has no liveness property.
`CHECK_DEADLOCK FALSE` is given where the process may be over (`QueryServer`),
where starts are bounded (`ClickhouseSchema`), where the batch ends
(`SpanStore`), and in `bulk_gridlock`, whose point
is that nothing can move.

### Fairness

Weak fairness only, of steps that are a goroutine or a process that keeps being
scheduled: the workers, the ticker and `Close` of the indexer; the flush, whose
HTTP requests have a timeout; the consumer of the queue with its timer; each
goroutine of `InsertMetrics`; the goroutines of the query extension and the two
servers' accept loops. Nobody has to push, to shut down or to fail. A push that
has begun ends, because it has a timeout. The runs that use this are `bulk_close`
(everything accepted is settled, `Close` ends), `metrics` (every batch is settled),
`query_life` (requests and `Shutdown` end) and `init`. For collectors that initialise, a start,
a request and its error answer are fair, death is not.

## Theorems

Each proof is for every value of the constants that satisfies the module's named
assumptions (finite sets of documents or collectors, naturals as bounds, types of
functions; of `ClickhouseTraces` also that spans, events, links and searches are
records of the fields that pdata and the handler give them).

*BulkIndexer.* `TypeCorrect`; `DocInvariant`: the number of copies of a document
is bounded by its lost answers, by one more once it was answered "created", its
body reader is at the start whenever it is queued or held, and only documents
without an id, with attempts to spare, are retrying. From it `DuplicatesBounded`,
`BodiesWhole` and `PanicsNeedRetries`. `SendInvariant` charges each send of a
document to an attempt and to a try of the flush that it is buffered for, and
gives `SendsBounded`: at most `MaxRequests * MaxRequests` sends. The bound itself
is not inductive; the charge is. `PlaceInvariant` relates where a document is to what
its worker is doing: only one that is answering has documents with an answer or
retrying. `CloseInvariant` says what `Close` has achieved at each of its stages: the
ticker has ended, the queue is empty, and nothing is left with the workers the closer
has passed. From both follows `NothingLeftBehind`, which by itself says nothing of
the states before the end of `Close`. `Implements` is the refinement of `DocDelivery`:
an answered request is a step that stores many documents and settles none, the
answer to an item one that settles one.
The finding of `bulk_gridlock` is made general by two theorems about `Gridlock` (the
queue is full and every worker waits in `OnFailure` for room). `GridlockIsForever`: no
step leaves it, and nothing that was accepted moves. A worker that waits in `OnFailure`
is not at its receive, and its mutex is held, so nobody else flushes for it. Shutdown
does not help: a send that waits on the channel it closes panics. `GridlockTakesDocuments`: it takes
`2 * NumWorkers` documents in flight. Each worker waits with a document of its own
(an injection of the workers into the retrying documents), and the queue, which has
room for one per worker, is full of others. This is why `bulk_close` can promise what
it does below that number.

*JaegerInit.* `TypeCorrect`; `CleanIndexMapped` holds because templates are never
removed and a collector with clean answers has seen the template of its case;
`ReadyToExport` and `DamageNeedsError` follow from an invariant about runs in
which no request was answered with an error: the cases behind each collector are ready,
and the case it is at has what it asked for. A collector that dies starts at the first
case again, and what the request it was waiting for may have done only adds to the
store, in the order of the requests.

*RetryQueue.* Lemmas about each move of the queue (its type, and that at most one
batch is taken), stated once for the two exporters that extend it.

*ClickhouseTx.* `TypeCorrect`; `OneAtATimeInvariant`: at most one batch is taken,
the queue holds each queued batch once, a push is under way only while the
consumer pushes, and a transaction is open exactly between `Begin` and the end of
the push. `TransactionsEnd` follows. `BlockInvariant`: copies are bounded by lost
answers until the batch is stored, and a block that is about to be committed has
every row; it gives `DuplicatesBounded` and `WholeBlocks`. `Implements` is the
refinement of `BatchDelivery`, one step per action.

*ClickhouseTraces.* Everything that its run checks is proved.
`BlocksInTableInvariant`: a batch that was copied or reported stored has a block in the
table. `StoredCanBeRead` adds what the reader does: it groups the rows of a trace
without losing one, so that `GetTrace` has a row for every span reported stored.
The answers need to know exactly which blocks are there: `TableInvariant` says
that the blocks of a batch are whole and have numbers of their own from 1 to `copies`,
and that a block not yet committed is a prefix of its batch. How many there may be,
the lost answers and the one that was seen, is in `BlockInvariant` (*ClickhouseTx*).
`AnswersAreSent` counts with it: the rows of a span are the image of the blocks of its
batch, one for one, so a span occurs as often as its batch was copied; the columns of
events and links are put together again as they were taken apart (`ColumnsAndBack`);
and a group made by `generateAttributesId` has the spans of resources of one text. Of
`Joined` and `Hex` nothing is assumed.
`AllAreListed`: the services and operations are those of the stored spans, a service's
latest time being a greatest element of a finite set. `SearchFinds`: the traces that the join of
`SearchTraces` selects are no more than it asks for; and for a search without two bounds
of a duration whose window ends at a whole second, no span is left out that meets it, if
the row of its trace and block in `trace_id_ts` is among as many of the latest as are
asked for.

*ClickhouseMetrics.* `TypeCorrect`; `TogetherInvariant`: a push is under way only while
the consumer pushes, its goroutines run only while it waits for them, and the channel
holds the results of exactly those that have ended; it gives `NoneIsLeft`.
`CopiesInvariant`: the rows of a type are inserted at most once per attempt, fewer
times while this attempt may still insert them, and at least once by a goroutine that
ended without an error; it gives `EachAttemptOnce`, and what `Implements`, the
refinement of `BatchDelivery`, needs of a push that succeeds.

*ClickhouseSchema.* `TypeCorrect`; `SchemaInvariant`: each statement that returned
left its table, even after its exporter went down, and a running exporter has all
its statements behind it. That an exporter runs says nothing of the server without
this, which is why `TablesBeforeData` and `TracesFound` need it.

*QueryServer.* `TypeCorrect`, with `ServerInvariant`: goroutines run once the servers
are there, the servers are stopped in turn, and the port is closed once a server has
ended or was stopped while it served. Liveness is model-checked; that nobody is left
waiting for nobody is proved. `StopReturnsInTheEnd`: while `Shutdown` waits in `Stop`,
cmux has found the port closed or is about to serve, and its end is what `Stop`
waits for. `NoRequestIsStranded`: for a request on the HTTP port there is always one
who takes its next step, or who closes the port or ends and so breaks it.
`GrpcEndpointIsSilent` is the finding of `query_grpc` for every instance: a request on
the gRPC port is never answered and never leaves it.

*SpanStore.* `TypeCorrect` and `PushTruthful`, for any contents of batches, the encoding
being opaque. `PushInvariant` says what the bulk indexer has taken as a function of the
position in the loop: all records and services before `next`, and the record of `next`
once its services are to come; and that, while no error was collected, all of those
before had a service. `PushTellsTheTruth` speaks only of the end of the loop and is not
inductive.

`StoreInvariant` is about the other side: every document is the encoding of its record,
whatever is in `services` is the pair of a record that was taken, under its id, a
record of services that settled without being lost has an id there, and a document was
refused for a reason that is still there (`FitsKept`: what does not fit the index does
not fit a longer one).
`ServicesHeld` is the half of `DocumentsHoldTheirRecords` that is about services: under
the id of a record are the service and operation of a span that has this id, its own
unless there is another.

What is said of documents and answers is proved in two halves. One is about the system:
given that the encoding of each single record has a property, every document in every
state has it, whatever happens on the way (orders of storing, lost answers, refusals,
cancellation, a search between two stores, a limit that cuts hits off). The conditions
of this half, `EncodingHolds`, `EncodingNests`, `EncodingStores` and `EncodingIsRead`, speak
of the batch and the configuration alone, which never change. The other half
proves these conditions for every record that `IsRecord` admits, that is for
attributes, resources, events and bodies with any names and values and of any number:

- `IndexHoldsRecords`: `DocumentsHoldTheirRecords`;
- `DocumentsAreWellNested`: `JsonIsWellNested`;
- `OnlyOthersRefuse`: `DedupPreventsRefusal`, for clean names;
- `AnswersAreRead`: `AnswersShowTheIndex`, of the texts of the strings of every span, of
  the attributes and resources of plain spans written flat, of their absence in
  dedotted ones, and of the operations of a word of a service's name and of a kind, up
  to the limit;
- `TracesSummarised`: `TracesAreSummarised`.

Neither half has a hypothesis beside `RankAssumption`, that there are tokens with an
order, and `StoreAssumption`, which says what pdata gives the exporter: at least one
record, each with its strings, with ids whose text is not empty, with attributes that
have a name, and with a name of a
service that is a string, which a text field finds by some words (`Words`). Of `Hex`,
`Sprint` and `InARow` no more is assumed: different ids, values or pairs may have one text. The provisos are in the
properties, and each is a thing the code does: `IsClean` is the limit of `Dedup`,
`IsPlain` is there because the reader looks for `Attributes.` and `Resource.` anywhere
in a name (`query.go:317`), and `SaysItsService` because a service's name may be given
twice, or by nested attributes, and then is whatever Elasticsearch makes of both.

The argument about the system for the first three is `StoreInvariant`. For the answers it is
`AnswerInvariant`: what is in an answer was read from hits that are documents of the
index, and its traces are those of its spans; a search under way is one for spans.
`FirstAreHits` says that the first hits are hits (the number of hits ahead of each is a
bijection to the places).

The argument about one record follows the code. *Lists:* what `FoldLeft`, `SelectSeq`
and `FlattenSeq` give is not taken from induction over lists. `FoldExists` and
`FoldSteps` say that the recursive function behind a fold goes through the sets of the
first positions, and `InOrderType` that the positions that were selected come in order.
*Names:* a key is cut at its separators (`CutsType`, `NamesType`), its names put
together are the key again (`NamesMakeKey`), keys that are alike up to a separator are
in the same objects up to there and the other way round (`NamesAlike`,
`NamesDetermine`), and `FullKey` puts a path in front of names (`FullKeySteps`). *JSON:*
for each field `iterJSONDedot` closes the objects the field is not in and opens those it
is in (`ReportDedotType`), so that around each value are the objects of its key
(`AroundIs`); because keys are sorted, what lies between two keys that are alike up to a
separator is alike too (`AlikeBetween`), so an object that was closed is not opened
again. `LeavesOfType` gives the values with their paths, `EncodeType` that they are what
`Dedup` left. *Reading:* a string of a span shares its name with no attribute, event or
resource (`StringsAreHeld`), so that it is read whatever these are called
(`StringsAreRead`), and what `KeyValues` finds under `Attributes` and `Resource` of a
flat document holds that part of the span and nothing else (`PartIsRead`). *Traces:*
`AddResourceSteps` follows `DocumentsTracesConvert` from span to span, `RootIsFirst`
says that the first span whose parent is missing is the root, if all the spans are
shown, and `ProcessesAreServices` that the loop over the resources appends some twice
and leaves none out.

`PushesDeliver` is a refinement: the documents of the records are documents without an
id of `DocDelivery`, offered when the push hands them over, their copies counted in the
index, and settled as it says. A record that a canceled push never came to is never
offered.

*ObjModel.* The order of keys is a strict total order (`LessIsTransitive`, `LessIsTotal`),
`Sort` a stable permutation (`SortIsPermutation`, a counting argument), and equal keys are
neighbours after it. From there, for lists of any length over any keys and values,
`DedupKeepsLastValues` (`objmodel.go:190`), `DedupWritesKeysOnce` (`objmodel.go:218`)
and, for `IsClean` fields, `DedupRemovesConflicts` (`objmodel.go:210`), whose centre is
that nothing but members of an object sorts between its name and one of them
(`BetweenNameAndMember`). That is where the provisos of `IsClean` come from.

Only model-checked:

- Liveness under fairness (`CloseReturns`, `AcceptedIsSettled`, `EventuallyReady`,
  `SettlesAsPromised`, `RequestsEnd`, `ShutdownEnds`), which is out of the prover's
  reach.
- That what a violation run shows happens (`bulk_gridlock` and the other findings): the
  theorems about them say what follows once it has.

## Not modelled

- The columns of a log record (but its service) and of a data point, and the bodies of
  templates. The conversion of metric values keeps no state and cannot fail.
- The length of waits (backoff, timers): when something is allowed to happen it
  may happen at any time.
- Permanent errors, which `exporterhelper` would not retry: the exporters return
  none.
- Validation of configurations, which keeps no state; the API, which is generated;
  libraries copied from other repositories, but for `SpanKindStr` and `StatusCodeStr`;
  test data generators, the builder's manifests, configurations and examples.
- The pages of Swagger UI under `src/extension/query/api/assets`: minified files of
  another project, and the only JavaScript of this repository. The system itself is
  written in Go, which is what the modules translate.

## Plan

In the order of importance; all of it is there.

1. Document delivery with `DocDelivery` and proofs, the refinement among them.
2. Initialisation for Jaeger and proofs.
3. Logs and traces of ClickHouse, `BatchDelivery`, proofs with the refinement.
4. Metrics of ClickHouse, proofs with the refinement.
5. Schema of ClickHouse and proofs.
6. Life of the query extension.
7. The document model as operators against what Elasticsearch finds in the JSON.
8. Pushes of the traces and the logs exporter, with their records of services, and
   proofs.
9. The query side on Elasticsearch: searches, spans, traces.
10. The ClickHouse data source on the tables that the exporter fills, and the handler.
11. The proof that what was reported stored in ClickHouse is read back as it was sent,
    found and listed.
12. The proof that the pushes implement `DocDelivery`, and that the answers show the
    index.
13. The proof that a gridlock of the bulk indexer is for good, and that fewer than
    `2 * NumWorkers` documents cannot cause it.
14. The order of keys and `Dedup`, for lists of any length.
15. The invariants of `QueryServer`.
16. The proof of what the encoding of a record holds, how it nests and what is read
    of it, and of the summary of a trace, so that the theorems about documents and answers
    have no condition.
