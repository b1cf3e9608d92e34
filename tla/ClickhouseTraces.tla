-------------------------- MODULE ClickhouseTraces --------------------------
(***************************************************************************)
(* What the query extension reads from the table that the traces exporter  *)
(* writes: the rows of the blocks, the view that keeps the times of every  *)
(* trace id, the four queries of the ClickHouse data source (query.go) and *)
(* the handler in front of them (grpc_handler.go).  Each query is a single *)
(* SQL statement, so its answer is a function of the table.                *)
(***************************************************************************)
EXTENDS ClickhouseTx, FiniteSetsExt

CONSTANTS
  Resources,    \* per batch, td.ResourceSpans(): the attributes and spans of each
  Second,       \* how many units of time a second has
  DefaultLimit, \* DEFAULT_LIMIT_NUM
  Requests,     \* the FindTracesRequests: the set of their query, empty for nil
  Hex(_),       \* the hexadecimal text of an id, empty for an empty one
  Joined(_)     \* "name:value" of each pair, sorted and joined with ";": of the names
                \* and values some hold these signs, so that two sets may have one text

NoText == ""

\* An attribute value has a type and a text (AsString).  The exporter takes a
\* resource's service.name with Str(): the text of a string, and of nothing else.
ServiceOf(attributes) ==
  IF "service.name" \in DOMAIN attributes /\ attributes["service.name"].type = "string"
    THEN attributes["service.name"].text ELSE NoService

attributesToMap(attributes) == [n \in DOMAIN attributes |-> attributes[n].text]

\* What pdata hands over: lists, maps and records of these fields.
IsMap(f)  == f = [x \in DOMAIN f |-> f[x]]
IsList(l) == IsMap(l) /\ Len(l) \in Nat /\ DOMAIN l = 1 .. Len(l)
IsListOf(l, fields) == IsList(l) /\ \A n \in DOMAIN l : IsMap(l[n]) /\ DOMAIN l[n] = fields
EventFields == {"time", "name", "attributes"}
LinkFields  == {"trace", "span", "state", "attributes"}
SpanNames   == {"trace", "id", "parent", "name", "kind", "start", "end", "attributes", "status",
                "message", "events", "links"}
IsSpan(span) ==
  /\ span.kind \in Int /\ span.start \in Int /\ span.end \in Int
  /\ IsListOf(span.events, EventFields) /\ IsListOf(span.links, LinkFields)

ASSUME TracesAssumption ==
  /\ Signal = "traces" /\ NoService = NoText
  /\ \A b \in Batches :
       /\ DOMAIN Resources[b] = DOMAIN Services[b]
       /\ \A i \in DOMAIN Resources[b] :
            /\ Services[b][i] = ServiceOf(Resources[b][i].attributes)
            /\ IsMap(Resources[b][i].attributes)
            /\ IsListOf(Resources[b][i].spans, SpanNames)
            /\ \A j \in DOMAIN Resources[b][i].spans : IsSpan(Resources[b][i].spans[j])

QueryNames == {"ServiceName", "OperationName", "Tags", "StartTime", "EndTime", "DurationMin",
               "DurationMax", "NumTraces"}

ASSUME RequestsAssumption ==
  /\ Second \in Nat \ {0} /\ DefaultLimit \in Nat
  /\ \A request \in Requests :
       /\ \A query, other \in request : query = other
       /\ \A query \in request :
            /\ DOMAIN query = QueryNames
            /\ query.NumTraces \in Int /\ query.StartTime \in Int /\ query.EndTime \in Int
-----------------------------------------------------------------------------
(* The rows.                                                                *)

\* A row is known by its block, its resource and the place of its span there.
SpanOf(k) == Resources[k[1].batch][k[2]].spans[k[3]]
RowsOf(t) == UNION {{<<t, i, j>> : j \in DOMAIN Resources[t.batch][i].spans} : i \in DOMAIN t.rows}
Rows      == UNION {RowsOf(t) : t \in table}

SpanKinds   == <<"SPAN_KIND_UNSPECIFIED", "SPAN_KIND_INTERNAL", "SPAN_KIND_SERVER",
                 "SPAN_KIND_CLIENT", "SPAN_KIND_PRODUCER", "SPAN_KIND_CONSUMER">>
StatusCodes == <<"STATUS_CODE_UNSET", "STATUS_CODE_OK", "STATUS_CODE_ERROR">>

SpanKindStr(kind)   == IF kind + 1 \in DOMAIN SpanKinds THEN SpanKinds[kind + 1] ELSE NoText
StatusCodeStr(code) == IF code + 1 \in DOMAIN StatusCodes THEN StatusCodes[code + 1] ELSE NoText

\* What the exporter writes of a span: attributes and ids become texts.
EventTexts(event) == [event EXCEPT !.attributes = attributesToMap(@)]
LinkTexts(link) ==
  [link EXCEPT !.trace = Hex(@), !.span = Hex(@), !.attributes = attributesToMap(@)]
Texts(span) ==
  [span EXCEPT !.trace = Hex(@), !.id = Hex(@), !.parent = Hex(@), !.attributes = attributesToMap(@),
               !.events = [n \in DOMAIN @ |-> EventTexts(@[n])],
               !.links  = [n \in DOMAIN @ |-> LinkTexts(@[n])]]

\* convertEvents and convertLinks of the exporter: an array for each field.
Column(records, field) == [n \in DOMAIN records |-> records[n][field]]
EventColumns(events)   == [f \in EventFields |-> Column(events, f)]
LinkColumns(links)     == [f \in LinkFields |-> Column(links, f)]

\* The columns of ExecContext.
Row(k) ==
  LET span == Texts(SpanOf(k)) IN
  [Timestamp |-> span.start, TraceId |-> span.trace, SpanId |-> span.id,
   ParentSpanId |-> span.parent, SpanName |-> span.name,
   SpanKind |-> SpanKindStr(span.kind), ServiceName |-> k[1].rows[k[2]],
   ResourceAttributes |-> attributesToMap(Resources[k[1].batch][k[2]].attributes),
   SpanAttributes |-> span.attributes, Duration |-> span.end - span.start,
   StatusCode |-> StatusCodeStr(span.status), StatusMessage |-> span.message,
   Events |-> EventColumns(span.events), Links |-> LinkColumns(span.links)]

\* <traces>_trace_id_ts: its view adds a row for each trace id of every block.
TraceIdTs ==
  UNION {LET times(id) == {Row(k).Timestamp : k \in {k \in RowsOf(t) : Row(k).TraceId = id}} IN
         {[block |-> t, TraceId |-> id, Start |-> Min(times(id)), End |-> Max(times(id))] :
            id \in {Row(k).TraceId : k \in RowsOf(t)} \ {NoText}} : t \in table}
-----------------------------------------------------------------------------
(* GetTrace.                                                                *)

\* Span_SpanKind_value: the number of a name, 0 when it is none.
SpanKind_value(name) ==
  IF \E n \in DOMAIN SpanKinds : SpanKinds[n] = name
    THEN CHOOSE n \in 0 .. 5 : SpanKinds[n + 1] = name ELSE 0

\* convertEvents and convertLinks of the data source: a record for each index
\* of the first array.
Zip(columns, first) == [n \in DOMAIN columns[first] |-> [f \in DOMAIN columns |-> columns[f][n]]]

\* A span as parseSpanResults fills it, its ids being the bytes of their texts: the
\* query does not select TraceState.
Span(row) ==
  [trace |-> row.TraceId, id |-> row.SpanId, parent |-> row.ParentSpanId, name |-> row.SpanName,
   kind |-> SpanKind_value(row.SpanKind), start |-> row.Timestamp,
   end |-> row.Timestamp + row.Duration,
   attributes |-> row.SpanAttributes, status |-> SpanKind_value(row.StatusCode),
   message |-> row.StatusMessage, events |-> Zip(row.Events, "name"),
   links |-> Zip(row.Links, "trace")]

Pairs(attributes) == {<<n, attributes[n]>> : n \in DOMAIN attributes}

generateAttributesId_Names(attributes) == Joined({<<n, NoText>> : n \in DOMAIN attributes})
generateAttributesId(attributes) == Joined(Pairs(attributes))

\* The rows are grouped by the id; a group has the resource of the row that comes
\* first, which may be any of them.
parseSpanResults(ks) ==
  LET id(k)    == generateAttributesId(Row(k).ResourceAttributes)
      group(g) == {k \in ks : id(k) = g}
  IN  {[resources |-> {Row(k).ResourceAttributes : k \in group(g)},
        spans     |-> [k \in group(g) |-> Span(Row(k))]] : g \in {id(k) : k \in ks}}

\* WHERE a.TraceId = id; an empty id is an error, which the handler passes on.
GetTrace(id) ==
  [error |-> id = NoText,
   resourceSpans |-> IF id = NoText THEN {}
                     ELSE parseSpanResults({k \in Rows : Row(k).TraceId = id})]
-----------------------------------------------------------------------------
(* SearchTraces.                                                            *)

\* parseTraceQueryParameters; a time that is not given is the zero time.
parseTraceQueryParameters(request) ==
  IF request = {}
    THEN [ServiceName |-> NoText, OperationName |-> NoText, Tags |-> << >>, StartTime |-> 0,
          EndTime |-> 0, DurationMin |-> {}, DurationMax |-> {}, NumTraces |-> 0]
    ELSE [(CHOOSE q \in request : TRUE) EXCEPT !.NumTraces = IF @ > 0 THEN @ ELSE 0]

\* DATETIME_LAYOUT has no fraction of a second.
Formatted(time) == (time \div Second) * Second

\* Durations are sets of at most one [Seconds, Nanos]; the code looks at Nanos.
InDuration(query, row) ==
  \A min \in query.DurationMin, max \in query.DurationMax :
    min.Nanos < max.Nanos => row.End - row.Start \in min.Nanos .. max.Nanos

InWindow(query, row) ==
  query.EndTime > query.StartTime =>
    row.Start \in Formatted(query.StartTime) .. Formatted(query.EndTime)

Limit_Default(query) == DefaultLimit
Limit(query) == IF query.NumTraces # 0 THEN query.NumTraces ELSE DefaultLimit

\* The sub-query on trace_id_ts.  Of rows that start at the same time either may
\* be the last within the limit: listed are those that always are.
Listed(query) ==
  LET within == {r \in TraceIdTs : InWindow(query, r) /\ InDuration(query, r)} IN
  {r \in within : Cardinality({o \in within : o.Start >= r.Start}) <= Limit(query)}

\* An element of a map of the database: empty when there is none.
Element(texts, n) == IF n \in DOMAIN texts THEN texts[n] ELSE NoText

Keywords(query, row) ==
  /\ query.ServiceName # NoText => row.ServiceName = query.ServiceName
  /\ query.OperationName # NoText => row.SpanName = query.OperationName
  /\ \A n \in DOMAIN query.Tags : Element(row.SpanAttributes, n) = query.Tags[n]

\* The rows that buildQuery's statement joins.  SearchTraces reads them and
\* returns nil: its response is still a TODO.
buildQuery(query) ==
  LET meets == {k \in Rows : Keywords(query, Row(k))} IN
  {p \in Listed(query) \X meets : p[1].TraceId = Row(p[2]).TraceId}
-----------------------------------------------------------------------------
(* GetService and GetOperations.                                            *)

\* The resources of the latest spans of each service.  Both statements group by
\* all that they select, so that no row comes twice: their answers are sets.
Latest_OfAll(service) == Max({Row(k).Timestamp : k \in Rows})
Latest(service) == Max({Row(k).Timestamp : k \in {k \in Rows : Row(k).ServiceName = service}})
GetService ==
  {[service |-> Row(k).ServiceName, attributes |-> Row(k).ResourceAttributes] :
     k \in {k \in Rows : Row(k).Timestamp = Latest(Row(k).ServiceName)}}

GetOperations(service, kind) ==
  {Row(k).SpanName : k \in {k \in Rows : /\ service # NoText => Row(k).ServiceName = service
                                         /\ kind # NoText => Row(k).SpanKind = kind}}
-----------------------------------------------------------------------------
(* Properties.                                                              *)

\* What the pipeline handed over: a batch, a resource and a span of it.
Sent == UNION {UNION {{<<b, i, j>> : j \in DOMAIN Resources[b][i].spans}
                        : i \in DOMAIN Resources[b]} : b \in Batches}
Original(s) == Resources[s[1]][s[2]].spans[s[3]]

\* The rows of an answer that come from a span.
Answered(answer, s) ==
  UNION {{k \in DOMAIN g.spans : <<k[1].batch, k[2], k[3]>> = s} : g \in answer.resourceSpans}

\* GetTrace has every span of its trace that was reported stored (with a trace
\* id, without which nothing can be asked for).
StoredIsRead ==
  \A s \in Sent :
    LET id == Texts(Original(s)).trace IN
    stage[s[1]] = "stored" /\ id # NoText => Answered(GetTrace(id), s) # {}

\* A span is there once, and once more for every answer to its block that got lost.
\* It is as the exporter wrote it, but for a kind that has no name, and for the
\* status, of which nothing is said: it is looked up among the kinds (query.go:265).
\* It is under the resource that sent it, or under one that has the same joined text
\* (query.go:290 does not escape the signs it joins with); and no resource comes twice.
AnswersAreWhatWasSent ==
  \A id \in {Texts(Original(s)).trace : s \in Sent} \ {NoText} :
    LET answer == GetTrace(id) IN
    /\ \A s \in Sent : Cardinality(Answered(answer, s)) <= lost[s[1]] + 1
    /\ \A g, h \in answer.resourceSpans : g.resources \cap h.resources # {} => g = h
    /\ \A g \in answer.resourceSpans : \A k \in DOMAIN g.spans :
         LET own  == attributesToMap(Resources[k[1].batch][k[2]].attributes)
             sent == [Texts(SpanOf(k)) EXCEPT !.kind = IF @ \in 0 .. 5 THEN @ ELSE 0]
         IN  /\ own \in g.resources
             /\ \A other \in g.resources : Joined(Pairs(other)) = Joined(Pairs(own))
             /\ \A f \in SpanNames \ {"status"} : g.spans[k][f] = sent[f]

\* The trace of a row starts within the window, if there is one: the spans that
\* its batch has of the trace do.
StartsInWindow(query, k) ==
  query.EndTime > query.StartTime =>
    \A o \in RowsOf(k[1]) : Row(o).TraceId = Row(k).TraceId =>
      Row(o).Timestamp \in query.StartTime .. query.EndTime

\* A row of trace_id_ts that so many rows of the window start no earlier than.
IsAmongLatest(r, query, number) ==
  Cardinality({o \in TraceIdTs : /\ o.Start >= r.Start
                                /\ query.EndTime > query.StartTime => o.Start <= query.EndTime}) <= number

\* A search without both bounds of a duration, and for a window that ends at a whole
\* second, selects every span in the table that meets it and whose trace starts in
\* the window, if the row that trace_id_ts has of its trace and block is among as
\* many of the latest there as are asked for (20 if none are: query.go:24); and of no
\* more traces than that.  A trace that many blocks have takes as many places.
StoredIsFound ==
  \A request \in Requests :
    LET query    == parseTraceQueryParameters(request)
        asked    == IF query.NumTraces > 0 THEN query.NumTraces ELSE DefaultLimit
        selected == buildQuery(query)
        missed   == Rows \ {p[2] : p \in selected}
    IN  /\ Cardinality({p[1].TraceId : p \in selected}) <= asked
        /\ query.EndTime % Second = 0 /\ (query.DurationMin = {} \/ query.DurationMax = {}) =>
             ~ \E k \in missed :
                 /\ Keywords(query, Row(k)) /\ StartsInWindow(query, k)
                 /\ \E r \in TraceIdTs : r.block = k[1] /\ r.TraceId = Row(k).TraceId
                                        /\ IsAmongLatest(r, query, asked)

\* The services and the operations shown are those of the spans that are in the
\* table, of whatever batch, copy or resource: none is hidden by a newer one, and
\* each is shown with the attributes of a resource of its own.
ServicesAreListed ==
  LET inTable == {s \in Sent : \E t \in table : t.batch = s[1]}
      service(s) == ServiceOf(Resources[s[1]][s[2]].attributes)
  IN  /\ {r.service : r \in GetService} = {service(s) : s \in inTable}
      /\ \A r \in GetService : \E s \in inTable :
           /\ r.service = service(s)
           /\ r.attributes = attributesToMap(Resources[s[1]][s[2]].attributes)
      /\ \A name \in Names, kind \in Range(SpanKinds) \cup {NoText} :
           GetOperations(name, kind) =
             {Original(s).name : s \in
                {s \in inTable : /\ name \in {service(s), NoText}
                               /\ kind \in {SpanKindStr(Original(s).kind), NoText}}}
=============================================================================
