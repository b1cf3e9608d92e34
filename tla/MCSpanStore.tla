---------------------------- MODULE MCSpanStore ----------------------------
(***************************************************************************)
(* Batches of one record with up to three attributes whose names collide   *)
(* in every way, one of them without a value or an empty array, and        *)
(* batches of three spans in one or two traces.                            *)
(***************************************************************************)
EXTENDS SpanStore

CONSTANT MaxAttributes

MCRank ==
  LET order == <<"-", ".", "Attributes", "Body", "Events", "Kind", "Name", "ParentSpanId", "Resource", "SpanId",
                 "TraceId", "TraceStatus", "a", "b", "name", "service", "time", "value">>
  IN  [t \in Range(order) |-> CHOOSE n \in DOMAIN order : order[n] = t]

\* a, a.b, a-b, a.value, and b in a map a.
Dotted == {<<<<"a">>>>, <<<<"a", ".", "b">>>>, <<<<"a", "-", "b">>>>, <<<<"a", ".", "value">>>>}
Nested == <<<<"a">>, <<"b">>>>

Attributes(paths) == [i \in DOMAIN paths |-> [names |-> paths[i], value |-> ToString(i)]]
Pairs             == {<<Nested, path>> : path \in Dotted} \cup {<<path, Nested>> : path \in Dotted}
Voided(paths, v)  == {[Attributes(paths) EXCEPT ![i].value = v] : i \in DOMAIN paths}
AttributeLists    ==
  {Attributes(paths) : paths \in UNION {[1 .. n -> Dotted] : n \in 0 .. MaxAttributes} \cup Pairs}
  \cup UNION {Voided(paths, Nil) : paths \in [1 .. 2 -> Dotted] \cup Pairs}
  \cup UNION {Voided(paths, Null) : paths \in {<<path, path>> : path \in Dotted}}

NoAttributes == << >>
Service(s)   == <<[names |-> <<ServiceNameKey>>, value |-> s]>>
Event        == [name |-> <<"a">>, time |-> "9", attributes |-> Attributes(<< <<<<"time">>>> >>)]
Span(t, id, parent, name, kind, status, resource) ==
  [TraceId |-> t, SpanId |-> id, ParentSpanId |-> parent, Name |-> name, Kind |-> kind, TraceStatus |-> status,
   attributes |-> NoAttributes, resource |-> resource, events |-> << >>,
   body |-> <<[names |-> << >>, value |-> "text"]>>]
Root(service) == Span("t1", "s1", "", "get", "SERVER", "UNSET", service)

\* One span, or log record, with colliding names.
With(attributes) == [Root(Service("A")) EXCEPT !.attributes = attributes]
AttributeBatches ==
  {<<With(attributes)>> : attributes \in AttributeLists}
  \cup {<<[With(NoAttributes) EXCEPT !.events = events]>> : events \in {<<Event>>, <<Event, Event>>}}
  \cup {<<With(Attributes(<< <<<<"a">>>> >>)), With(Attributes(<< <<<<"a", ".", "b">>>> >>))>>}

\* Three spans of one trace, or of two; the last resource may have no service.
\* "A" and "Bget" run together like "AB" and "get".
SpanBatches ==
  {<<Root(Service("A")), Span("t1", "s2", "s1", "call", "CLIENT", "ERROR", Service("B-C")),
     Span("t1", "s3", "s2", "put", "INTERNAL", "OK", resource)>> :
     resource \in {Service("B-C"), Service("A"), NoAttributes}}
  \cup {<<Root(Service("AB")), Span("t2", "s2", "", "put", "SERVER", "UNSET", Service("A")),
          Span("t1", "s3", "s1", "Bget", "CLIENT", "ERROR", Service("A"))>>}

Config(signal, mode, dedup, dedot) == [signal |-> signal, mode |-> mode, dedup |-> dedup, dedot |-> dedot]
MCWorkloads ==
  {Config("traces", "ecs", dedup, dedot) : dedup, dedot \in BOOLEAN} \X AttributeBatches
  \cup {Config("traces", "ecs", TRUE, dedot) : dedot \in BOOLEAN} \X SpanBatches
  \cup {Config("logs", "ecs", dedup, TRUE) : dedup \in BOOLEAN} \X AttributeBatches
  \cup {Config("traces", "jaeger", TRUE, TRUE)} \X {b \in SpanBatches : b[3].resource # b[2].resource \/ b[3].Name = "Bget"}

MCHex(id)    == "hex " \o id
MCSprint(v)  == IF v = "1" THEN "one" ELSE v
MCValues     == {ToString(i) : i \in 1 .. 9} \cup {MCHex(id) : id \in {"t1", "t2", "s1", "s2", "s3"}} \cup
  {"text", "t1", "t2", "s1", "s2", "s3", "get", "call", "put", "Bget", "SERVER", "CLIENT", "INTERNAL",
   "UNSET", "ERROR", "OK", "A", "AB", "B-C"}
MCQueries    ==
  {[service |-> "", operation |-> "", tags |-> {}], [service |-> "A", operation |-> "get", tags |-> {}],
   [service |-> "", operation |-> "", tags |-> {[key |-> ServiceField, value |-> "B"]}]}
MCOperationQueries ==
  {[service |-> s, kind |-> ""] : s \in {"", "A", "B", "B-C"}} \cup {[service |-> s, kind |-> "CLIENT"] : s \in {"", "B"}}
MCWords      == "A" :> {"A"} @@ "AB" :> {"AB"} @@ "B-C" :> {"B", "C"}
MCInARow(s, o) == IF <<s, o>> = <<"A", "Bget">> THEN <<"AB", "get">> ELSE <<s, o>>
=============================================================================
