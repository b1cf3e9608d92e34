----------------------------- MODULE SpanStore -----------------------------
(***************************************************************************)
(* A batch of spans or log records on its way through the Elasticsearch    *)
(* exporter and back: pushTraceData and pushLogsData encode the records    *)
(* and hand them to the bulk indexer, which stores them in any order; the  *)
(* query extension searches the spans.                                     *)
(*                                                                         *)
(* How the bulk indexer delivers is DocDelivery's subject; here a document *)
(* that it accepted gets stored, refused by Elasticsearch or lost, and may *)
(* be stored again when an answer is lost.                                 *)
(***************************************************************************)
EXTENDS TraceView

CONSTANTS
  Values,         \* of fields and attributes, Null, Nil and Ignored apart
  Workloads,      \* pairs of a configuration [signal, mode, dedup, dedot] of
                  \* the exporter and a batch for it
  Queries,        \* [service, operation, tags] of SearchTraces, "" for any and
                  \* tags a set of [key, value]; the window is the whole time
                  \* (others end in errParsTime)
  OperationQueries, \* [service, kind] of GetOperations, "" for any
  Words,          \* the words that a text field finds its strings under, for
                  \* those that are not one word, and all names of services
  SearchSize,     \* Size(5000) of MultiGetTraces
  DefaultSize,    \* the server's 10 hits, for GetTrace
  NumTraces,      \* the buckets of trace ids
  ServicesSize,   \* Size(100) of GetService
  OperationsSize, \* Size(10000) of GetOperations
  Hex(_),         \* the text of an id
  MaxCopies,      \* bound: documents sent once more after they were stored
  MaxQueries,     \* bound: calls of the query extension
  InARow(_, _)    \* two names written one after the other

\* The fields of a span that are strings, and the names of the others.
SpanStrings == <<"TraceId", "SpanId", "ParentSpanId", "Name", "Kind", "TraceStatus">>
IdFields    == {"TraceId", "SpanId", "ParentSpanId"}
Objects     == {"Attributes", "Resource", "Events", "Body"}

\* An attribute has a name; the text of a log record has none.
LeafType  == [names : Seq(Keys), value : Values \cup {Nil, Null}]
Named     == Seq({a \in LeafType : a.names # << >>})
EventType == [name : Keys, time : Values, attributes : Named]

\* A span or a log record, as a record that has the parts of both.  The name of a
\* service is a string.
IsRecord(r) ==
  /\ \A f \in Range(SpanStrings) : r[f] \in Values \cup {""}
  /\ \A f \in IdFields : r[f] = "" \/ Hex(r[f]) \in Values \ {""}
  /\ r.attributes \in Named /\ r.resource \in Named
  /\ r.events \in Seq(EventType) /\ r.body \in Seq(LeafType)
  /\ \A a \in Range(r.resource) : a.names = <<ServiceNameKey>> => a.value \in DOMAIN Words

\* An empty batch is not pushed.
ASSUME StoreAssumption ==
  /\ Values \cap {Null, Nil, Ignored} = {} /\ DOMAIN Words \subseteq Values
  /\ Range(SpanStrings) \cup Objects \cup {"service", "name", "time"} \subseteq DOMAIN Rank
  /\ \A w \in Workloads : /\ w = <<w[1], w[2]>>
                          /\ Len(w[2]) \in Nat \ {0} /\ DOMAIN w[2] = 1 .. Len(w[2])
                          /\ \A i \in DOMAIN w[2] : IsRecord(w[2][i])
  /\ SearchSize \in Nat /\ DefaultSize \in Nat /\ ServicesSize \in Nat /\ OperationsSize \in Nat
  /\ MaxCopies \in Nat /\ MaxQueries \in Nat

VARIABLES
  config, batch,  \* they never change
  next,           \* the record of the batch to push next
  stage,          \* "record", or "service" for its record of services
  canceled,       \* the context has ended
  failed,         \* errors were collected
  outcome,        \* "none" while pushing, else "ok", "errors" or "canceled"
  accepted,       \* what the bulk indexer has: a set of Documents, the JSON
                  \* of records of services left out
  settled,        \* what became of the others: "stored", "refused" or "lost"
  index,          \* the stored documents: a sequence of Documents
  services,       \* the stored records of services, by id
  copies, queries, \* answers lost so far, calls so far
  search,         \* SearchTraces between its two requests: the ids it found
  answer          \* the last answer of the query extension

pushVars  == <<next, stage, canceled, failed, outcome>>
storeVars == <<accepted, settled, index, services, copies>>
queryVars == <<queries, search, answer>>
vars      == <<config, batch, pushVars, storeVars, queryVars>>

NoSearch == [active |-> FALSE, ids |-> {}]
NoAnswer == [call |-> "none", of |-> "", kind |-> "", spans |-> << >>, traces |-> << >>, names |-> {}]

\* The records of the batch, and those of their services.
Records == [of : DOMAIN batch, service : BOOLEAN]
Taken   == accepted \cup DOMAIN settled
-----------------------------------------------------------------------------
(* Encoding.                                                                *)

\* The strings of a record in its document: an id is its bytes in hexadecimal.
Texts(record) ==
  [f \in Range(SpanStrings) |-> IF f \in IdFields /\ record[f] # "" THEN Hex(record[f]) ELSE record[f]]

AddStrings(names, record) ==
  FoldLeft(LAMBDA fields, name : AddString(fields, name, record[name]), << >>, names)

\* AddEvents: the time of each event and its attributes, under its name.
AddEvent(fields, event) ==
  LET path == FlattenKey(<<"Events">>, event.name)
  IN  AddAttributes(Append(fields, [key |-> path \o <<".", "time">>, value |-> event.time]),
                    path, event.attributes)

SpanFields(span) ==
  LET head == AddStrings(SpanStrings, Texts(span))
      all  == AddAttributes(AddAttributes(head, <<"Attributes">>, span.attributes), <<"Resource">>, span.resource)
  IN  FoldLeft(AddEvent, all, span.events)

LogFields(record) ==
  LET head == AddAttributes(AddStrings(<<"TraceId", "SpanId">>, Texts(record)), <<"Body">>, record.body)
  IN  AddAttributes(AddAttributes(head, <<"Attributes">>, record.attributes), <<"Resource">>, record.resource)

Fields(record) == IF config.signal = "traces" THEN SpanFields(record) ELSE LogFields(record)

Prepared_Unsorted(fields) == IF config.dedup THEN Dedup(fields) ELSE fields
Prepared(fields) ==
  IF config.dedup THEN Dedup(fields) ELSE IF config.dedot THEN Sort(fields) ELSE fields

\* A span in Jaeger's format has none of the fields that the queries ask for.
JaegerSpan == EmptyJson

Encode(record) ==
  IF config.mode = "jaeger" THEN JaegerSpan
  ELSE IF config.dedot THEN IterJSONDedot(Prepared(Fields(record))) ELSE IterJSONFlat(Prepared(Fields(record)))

\* A document for the bulk indexer, with the fields that Elasticsearch finds in it.
Document(of, service, json) ==
  [of |-> of, service |-> service, json |-> json, fields |-> LeafFields(json)]

\* findAttributeValue in the resource of a span.
ServiceName(span) ==
  LET i == SelectInSeq(span.resource, LAMBDA a : a.names = <<ServiceNameKey>>)
  IN  IF i = 0 THEN << >> ELSE <<span.resource[i].value>>

\* hashCode hashes the service and the operation in a row.
HashCode(service, operation) == InARow(service, operation)
-----------------------------------------------------------------------------
Init ==
  /\ \E w \in Workloads : config = w[1] /\ batch = w[2]
  /\ next = 1 /\ stage = "record"
  /\ canceled = FALSE /\ failed = FALSE /\ outcome = "none"
  /\ accepted = {} /\ settled = [r \in {} |-> ""] /\ index = << >> /\ services = [id \in {} |-> << >>] /\ copies = 0
  /\ queries = 0 /\ search = NoSearch /\ answer = NoAnswer

Result(errors) == IF errors THEN "errors" ELSE "ok"

\* The loop's end for a record: to the next one or out of the loop.
Advance_Twice(errors) ==
  /\ failed' = errors
  /\ stage' = "record"
  /\ next' = next + 2
  /\ outcome' = IF next = Len(batch) THEN Result(errors) ELSE "none"
Advance(errors) ==
  /\ failed' = errors
  /\ stage' = "record"
  /\ next' = next + 1
  /\ outcome' = IF next = Len(batch) THEN Result(errors) ELSE "none"

ReturnCanceled == outcome' = "canceled" /\ UNCHANGED <<next, stage, failed>>

\* pushTraceRecord or pushLogRecord: Add fails only when the context has ended,
\* and need not fail then.  The error of the encoding is none: it is written to a
\* buffer in memory.
PushRecord_Ignored(add) ==
  /\ outcome = "none" /\ stage = "record"
  /\ IF add
     THEN /\ accepted' = accepted \cup {Document(next, FALSE, Encode(batch[next]))}
          /\ IF config.mode = "jaeger" THEN stage' = "service" /\ UNCHANGED <<next, failed, outcome>>
             ELSE Advance(failed)
     ELSE canceled /\ UNCHANGED accepted /\ Advance(failed)
  /\ UNCHANGED <<config, batch, canceled, settled, index, services, copies, queryVars>>
PushRecord(add) ==
  /\ outcome = "none" /\ stage = "record"
  /\ IF add
     THEN /\ accepted' = accepted \cup {Document(next, FALSE, Encode(batch[next]))}
          /\ IF config.mode = "jaeger" THEN stage' = "service" /\ UNCHANGED <<next, failed, outcome>>
             ELSE Advance(failed)
     ELSE canceled /\ ReturnCanceled /\ UNCHANGED accepted
  /\ UNCHANGED <<config, batch, canceled, settled, index, services, copies, queryVars>>

\* pushJaegerServiceNameOperationRecord: an error too if there is no service.
PushService(add) ==
  /\ outcome = "none" /\ stage = "service"
  /\ IF add /\ ServiceName(batch[next]) # << >>
     THEN accepted' = accepted \cup {Document(next, TRUE, EmptyJson)} /\ Advance(failed)
     ELSE /\ UNCHANGED accepted
          /\ IF canceled THEN ReturnCanceled
             ELSE ServiceName(batch[next]) = << >> /\ Advance(TRUE)
  /\ UNCHANGED <<config, batch, canceled, settled, index, services, copies, queryVars>>

Cancel ==
  /\ outcome = "none" /\ ~canceled
  /\ canceled' = TRUE
  /\ UNCHANGED <<config, batch, next, stage, failed, outcome, storeVars, queryVars>>
-----------------------------------------------------------------------------
(* The bulk indexer and Elasticsearch.                                      *)

\* A name is a value in one stored document and an object in another.
FitsTheIndex(d) ==
  \A n \in DOMAIN index : index[n].json # d.json =>
    \A k \in {f.key : f \in Range(index[n].fields)}, l \in {f.key : f \in Range(d.fields)} :
      k # l => ~Conflict(k, l) /\ ~Conflict(l, k)

IsStorable(d) == Storable(d.fields) /\ FitsTheIndex(d)

Settle(r, fate) ==
  /\ accepted' = accepted \ {r}
  /\ settled' = [x \in DOMAIN settled \cup {r} |-> IF x = r THEN fate ELSE settled[x]]

\* again: the answer is lost, and the document is sent once more.
StoreSpan(r, again) ==
  /\ r \in accepted /\ ~r.service
  /\ IsStorable(r)
  /\ index' = Append(index, r)
  /\ IF again THEN copies < MaxCopies /\ copies' = copies + 1 /\ UNCHANGED <<accepted, settled>>
              ELSE Settle(r, "stored") /\ UNCHANGED copies
  /\ UNCHANGED <<config, batch, pushVars, services, queryVars>>

\* A record of services is created under its id; where that is taken it is a
\* conflict, which is not sent again.
StoreService(r, again) ==
  LET pair == <<ServiceName(batch[r.of])[1], batch[r.of].Name>>
      id   == HashCode(pair[1], pair[2])
  IN
  /\ r \in accepted /\ r.service
  /\ services' = [i \in DOMAIN services \cup {id} |-> IF i \in DOMAIN services THEN services[i] ELSE pair]
  /\ IF again THEN copies < MaxCopies /\ copies' = copies + 1 /\ UNCHANGED <<accepted, settled>>
              ELSE /\ Settle(r, IF id \in DOMAIN services THEN "refused" ELSE "stored")
                   /\ UNCHANGED copies
  /\ UNCHANGED <<config, batch, pushVars, index, queryVars>>

\* The status of a refused document is none of those that are retried.
Refuse(r) ==
  /\ r \in accepted /\ ~r.service
  /\ ~IsStorable(r)
  /\ Settle(r, "refused")
  /\ UNCHANGED <<config, batch, pushVars, index, services, copies, queryVars>>

\* All attempts fail.
Lose(r) ==
  /\ r \in accepted
  /\ Settle(r, "lost")
  /\ UNCHANGED <<config, batch, pushVars, index, services, copies, queryVars>>
-----------------------------------------------------------------------------
(* The query extension.                                                     *)

ServiceField == <<"Resource", ".">> \o ServiceNameKey

\* Hits, positions in the index, come in its order: every order is one of having
\* been stored.
Hits(Matches(_)) == {n \in DOMAIN index : Matches(index[n])}
FirstOf(hits, size) ==
  LET order == InOrder(hits) IN [i \in 1 .. Min({size, Len(order)}) |-> index[order[i]].json]

\* The value of a field, flat or not, by its full name; "" without it.
Indexed(d, key) ==
  LET i == SelectInSeq(d.fields, LAMBDA f : f.key = key)
  IN  IF i = 0 THEN "" ELSE d.fields[i].value

\* The search of a text field, for one word of it.
WordsOf(value)        == IF value \in DOMAIN Words THEN Words[value] ELSE {value}
HasTerm(d, key, word) == Indexed(d, key) # "" /\ word \in WordsOf(Indexed(d, key))

\* The answers of a terms aggregation: the values of a field that most of the hits
\* have, at most size of them; between equally frequent ones there is no order.
MostFrequent(hits, key, size) ==
  LET found    == {Indexed(index[n], key) : n \in hits} \ {""}
      Count(v) == Cardinality({n \in hits : Indexed(index[n], key) = v})
  IN  {vs \in SUBSET found : /\ Cardinality(vs) = Min({size, Cardinality(found)})
                             /\ \A v \in vs, u \in found \ vs : Count(v) >= Count(u)}

\* There are no queries of logs (SearchLogs and GetLog return nil), nor of spans
\* in Jaeger's format; and without a document every answer is empty.
Ask == /\ config.signal = "traces" /\ config.mode = "ecs" /\ index # << >>
       /\ queries < MaxQueries /\ queries' = queries + 1
       /\ UNCHANGED <<config, batch, pushVars, storeVars>>

\* FindTraceIds, the first request of SearchTraces.
FindTraceIds(q) ==
  LET Matches(d) == /\ q.service = ""   \/ Indexed(d, ServiceField) = q.service
                    /\ q.operation = "" \/ Indexed(d, <<"Name">>) = q.operation
                    /\ \A tag \in q.tags : HasTerm(d, tag.key, tag.value)
  IN
  /\ ~search.active /\ Ask
  /\ \E ids \in MostFrequent(Hits(Matches), <<"TraceId">>, NumTraces) : search' = [active |-> TRUE, ids |-> ids]
  /\ UNCHANGED answer

\* MultiGetTraces; SearchTraces logs the error of this second request.
MultiGetTraces(fails) ==
  LET hits  == FirstOf(Hits(LAMBDA d : Indexed(d, <<"TraceId">>) \in search.ids), SearchSize)
      spans == IF fails THEN << >> ELSE DocumentsResourceSpansConvert(hits)
  IN
  /\ search.active
  /\ search' = NoSearch
  /\ answer' = [NoAnswer EXCEPT !.call = "SearchTraces", !.spans = spans, !.traces = DocumentsTracesConvert(spans)]
  /\ UNCHANGED <<config, batch, pushVars, storeVars, queries>>

GetTrace(t) ==
  LET hits == FirstOf(Hits(LAMBDA d : HasTerm(d, <<"TraceId">>, t)), DefaultSize) IN
  /\ ~search.active /\ Ask
  /\ answer' = [NoAnswer EXCEPT !.call = "GetTrace", !.of = t, !.spans = DocumentsResourceSpansConvert(hits)]
  /\ UNCHANGED search

GetService ==
  /\ ~search.active /\ Ask
  /\ \E names \in MostFrequent(DOMAIN index, ServiceField, ServicesSize) :
       answer' = [NoAnswer EXCEPT !.call = "GetService", !.names = names]
  /\ UNCHANGED search

\* GetOperations looks the service up in the text field, by words, not in the
\* keyword; without a kind it leaves the internal spans out.
IsOfService(d, service) == service = "" \/ HasTerm(d, ServiceField, service)
IsOfKind(d, kind) ==
  IF kind = "" THEN Indexed(d, <<"Kind">>) # "INTERNAL" ELSE Indexed(d, <<"Kind">>) = kind
Operations_All(service, kind) == MostFrequent(Hits(LAMBDA d : IsOfService(d, service)), <<"Name">>, OperationsSize)
Operations(service, kind) ==
  MostFrequent(Hits(LAMBDA d : IsOfService(d, service) /\ IsOfKind(d, kind)), <<"Name">>, OperationsSize)
GetOperations(service, kind) ==
  /\ ~search.active /\ Ask
  /\ \E names \in Operations(service, kind) :
       answer' = [NoAnswer EXCEPT !.call = "GetOperations", !.of = service, !.kind = kind, !.names = names]
  /\ UNCHANGED search
-----------------------------------------------------------------------------
Push    == \E ok \in BOOLEAN : PushRecord(ok) \/ PushService(ok)
Deliver == \E r \in accepted :
             \/ \E again \in BOOLEAN : StoreSpan(r, again) \/ StoreService(r, again)
             \/ Refuse(r) \/ Lose(r)
Query   == \/ \E q \in Queries : FindTraceIds(q)
           \/ \E fails \in BOOLEAN : MultiGetTraces(fails)
           \/ \E t \in {Texts(record).TraceId : record \in Range(batch)} : GetTrace(t)
           \/ GetService
           \/ \E q \in OperationQueries : GetOperations(q.service, q.kind)

Next == Push \/ Cancel \/ Deliver \/ Query
Spec == Init /\ [][Next]_vars
-----------------------------------------------------------------------------
\* Every variable has the values it is meant to have; a record is with the bulk
\* indexer or settled, never both.
TypeOK ==
  /\ <<config, batch>> \in Workloads
  /\ next \in 1 .. Len(batch) + 1 /\ stage \in {"record", "service"}
  /\ canceled \in BOOLEAN /\ failed \in BOOLEAN
  /\ outcome \in {"none", "ok", "errors", "canceled"}
  /\ \A r \in Taken : [of |-> r.of, service |-> r.service] \in Records
  /\ accepted \cap DOMAIN settled = {}
  /\ Range(settled) \subseteq {"stored", "refused", "lost"}
  /\ \A n \in DOMAIN index : index[n].of \in DOMAIN batch
  /\ copies \in 0 .. MaxCopies /\ queries \in 0 .. MaxQueries
  /\ answer.call \in {"none", "SearchTraces", "GetTrace", "GetService", "GetOperations"}

\* held, a set of keys with values, holds the fields: the last value of every key
\* is there under the key or, if the key is an object too, under key.value, where a
\* field of that very name is given way to.  Only an empty array is not; where it is
\* the last value of a key, there is none.
LastValue(fields, key) == fields[Max({i \in DOMAIN fields : fields[i].key = key})].value
IsObject(fields, key)  == \E i \in DOMAIN fields : IsPrefix(key \o Dot, fields[i].key)
AsValue(key)           == key \o <<".", "value">>
Holds(held, fields) ==
  LET keys == {fields[i].key : i \in DOMAIN fields} IN
  /\ \A k \in keys : \/ LastValue(fields, k) = Nil
                     \/ [key |-> k, value |-> LastValue(fields, k)] \in held
                     \/ /\ IsObject(fields, k)
                        /\ AsValue(k) \in keys \/ [key |-> AsValue(k), value |-> LastValue(fields, k)] \in held
  /\ \A h \in held : \E i \in DOMAIN fields :
       fields[i].value = h.value /\ h.key \in {fields[i].key, AsValue(fields[i].key)}

\* The pair that a record of services stands for.
Pair(i) == <<ServiceName(batch[i])[1], batch[i].Name>>

\* What is stored of a record is what it had: of every name, of attributes given
\* several times and of those flattened from maps, the value given last, unless that
\* is an empty array: it replaces the others and is itself not written.
\* (objmodel.go:190 "The filtering only keeps the last value for a key.")
RecordsAreHeld ==
  config.mode = "ecs" =>
    \A n \in DOMAIN index : Holds(Range(index[n].fields), Fields(batch[index[n].of]))

\* Of a record of services, stored or in conflict, the id is there, with the service
\* and the operation of a span whose names run together to the same id: its own,
\* unless there is another such span.
ServicesAreHeld ==
  \A r \in DOMAIN settled : r.service /\ settled[r] # "lost" =>
    LET id == HashCode(Pair(r.of)[1], Pair(r.of)[2]) IN
    /\ id \in DOMAIN services
    /\ \E s \in Taken : /\ s.service /\ services[id] = Pair(s.of)
                        /\ HashCode(Pair(s.of)[1], Pair(s.of)[2]) = id

\* The index holds what was to be stored, of spans and of services.
DocumentsHoldTheirRecords == RecordsAreHeld /\ ServicesAreHeld

IsWellNested(json) ==
  WellFormed(json) /\ \A m, n \in DOMAIN json.reports : m # n => OpenedAt(json, m) \cap OpenedAt(json, n) = {}

\* The objects of a document are closed in the order in which they are opened,
\* and none is opened a second time, however names share their prefixes.
\* (objmodel.go:241 "The documented MUST be sorted if dedot is true.")
JsonIsWellNested == \A r \in Taken : IsWellNested(r.json)

\* With dedup, Elasticsearch refuses a document only because of the documents
\* before it, provided its names are distinct, nothing sorts between a name and
\* the members of the object of that name, and none is called "value".
\* (objmodel.go:210 "This step removes potential conflicts when dedotting and
\* serializing fields."; without the provisos it does not.)
IsClean(fields) ==
  /\ \A i, j \in DOMAIN fields : fields[i].key = fields[j].key => i = j
  /\ \A i \in DOMAIN fields : \A t \in Range(fields[i].key) : t # "value" /\ Rank[t] >= Rank["."]
DedupPreventsRefusal ==
  config.dedup =>
    \A r \in DOMAIN settled :
      settled[r] = "refused" /\ ~r.service /\ IsClean(Fields(batch[r.of])) => ~FitsTheIndex(r)

\* A push reports success only if the bulk indexer took every record and every
\* record of services, and an error that is not the context's only if a span has
\* no service; even then all the others were taken.
PushTellsTheTruth ==
  LET taken  == {[of |-> r.of, service |-> r.service] : r \in Taken}
      wanted == {r \in Records : r.service => config.mode = "jaeger" /\ ServiceName(batch[r.of]) # << >>}
  IN  /\ outcome \in {"ok", "errors"} => taken = wanted
      /\ outcome = "ok" /\ config.mode = "jaeger" => \A i \in DOMAIN batch : ServiceName(batch[i]) # << >>

\* The reader looks for "Attributes." and "Resource." anywhere in a name, not only
\* where the exporter puts them.
IsPlain(record) ==
  /\ \A f \in Range(Fields(record)) : \A n \in 2 .. Len(f.key) : f.key[n] \notin {"Attributes", "Resource"}
  /\ \A a \in Range(record.attributes) \cup Range(record.resource) : a.names[1] # << >>

\* What is read of attributes is text; an empty array is not read.
Said(fields) ==
  [i \in DOMAIN fields |->
     [key |-> fields[i].key, value |-> IF fields[i].value = Nil THEN Nil ELSE Sprint(fields[i].value)]]

\* A span is read back as the texts of what it was: its ids, name, kind and status.
\* Written flat, unless its names mislead the reader, all of its attributes and its
\* resource's come back; written dedotted, as is the exporter's default, none does.
ReadBackAs(read, span) ==
  /\ \A f \in Range(SpanStrings) : read[f] = Texts(span)[f]
  /\ ~config.dedot /\ IsPlain(span) =>
       /\ Holds(read.attributes, Said(AddAttributes(<< >>, << >>, span.attributes)))
       /\ Holds(read.resource, Said(AddAttributes(<< >>, << >>, span.resource)))
  /\ config.dedot => read.attributes = {} /\ read.resource = {}
SpansAreReadBack(spans) ==
  \A n \in DOMAIN spans : \E i \in {d.of : d \in Range(index)} : ReadBackAs(spans[n], batch[i])

\* A span says what its service is if the name is given once, as one attribute, and
\* is not the name of an object as well.
SaysItsService(span) ==
  LET R == {i \in DOMAIN span.resource : IsPrefix(ServiceField, FullKey(<<"Resource">>, span.resource[i].names))}
  IN  /\ \A i, j \in R : i = j
      /\ \A i \in R : span.resource[i].names = <<ServiceNameKey>> /\ span.resource[i].value # ""

\* The operations listed for a service are the names of spans of that kind, flat or
\* dedotted, whose service has it as a word; all of them, up to the limit.
OperationsAreTheServices(service, kind, names) ==
  LET stored == {batch[d.of] : d \in Range(index)}
      all    == {span.Name : span \in {s \in stored :
                   /\ service = "" \/ (ServiceName(s) # << >> /\ service \in Words[ServiceName(s)[1]])
                   /\ IF kind = "" THEN s.Kind # "INTERNAL" ELSE s.Kind = kind}} \ {""}
  IN  (\A i \in DOMAIN batch : SaysItsService(batch[i])) =>
        /\ names \subseteq all
        /\ names = all \/ Cardinality(names) = OperationsSize

\* An answer shows what is in the index when it is asked for: the spans as they
\* were exported, and the operations of the service it names.
AnswersShowTheIndex ==
  [][answer' # answer =>
       /\ SpansAreReadBack(answer'.spans)
       /\ answer'.call = "GetOperations" =>
            OperationsAreTheServices(answer'.of, answer'.kind, answer'.names)]_vars

\* A span of an answer has the ids of a span of the batch.
IsShownAs(span, read) == read.SpanId = Texts(span).SpanId /\ read.ParentSpanId = Texts(span).ParentSpanId

\* A trace all of whose spans have an id and are in the answer, one of them without a
\* parent and the others below it, bears the name of that span, in whatever order the spans
\* were stored; and its processes are the services of its spans, none left out.
TracesAreSummarised ==
  \A n \in DOMAIN answer.traces :
    LET shown == {m \in DOMAIN answer.spans : answer.spans[m].TraceId = answer.traces[n].id}
        trace == {i \in DOMAIN batch : Texts(batch[i]).TraceId = answer.traces[n].id}
        roots == {i \in trace : batch[i].ParentSpanId = ""}
        whole == /\ Cardinality(roots) = 1
                 /\ \A i \in trace \ roots : \E j \in trace : batch[j].SpanId = batch[i].ParentSpanId
                 /\ \A i \in trace : batch[i].SpanId # "" /\ \E m \in shown : IsShownAs(batch[i], answer.spans[m])
    IN  /\ whole => \A i \in roots : answer.traces[n].operation = batch[i].Name
        /\ Range(answer.traces[n].processes) = {ServiceOf(answer.spans[m].resource) : m \in shown} \ {""}
=============================================================================
