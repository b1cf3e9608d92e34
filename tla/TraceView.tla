----------------------------- MODULE TraceView -----------------------------
(***************************************************************************)
(* How the query extension turns documents back into spans and traces,     *)
(* datasource/es/query.go and datasource/interface.go.  Attributes become  *)
(* a set, for the decoder's map has no order.  Times are left out.         *)
(***************************************************************************)
EXTENDS ObjModel

CONSTANT Sprint(_)   \* the text that fmt.Sprint makes of a value in JSON

ServiceNameKey == <<"service", ".", "name">>

\* The members of the decoded map, those that are objects included.
TopLevel(json) ==
  {[key |-> leaf.path[1], value |-> leaf.value, isObject |-> FALSE] :
     leaf \in {l \in Range(Leaves(json)) : Len(l.path) = 1}}
  \cup {[key |-> path[1], value |-> Nil, isObject |-> TRUE] : path \in Range(Around(json)) \ {<< >>}}

FieldValue(json, key) ==
  LET found == {mem \in TopLevel(json) : mem.key = key /\ ~mem.isObject}
  IN  IF found = {} THEN "" ELSE (CHOOSE mem \in found : TRUE).value

\* strings.Contains(k, name + ".") and strings.TrimPrefix(k, name + ".")
HasName(key, name)    == \E n \in 1 .. Len(key) - 1 : key[n] = name /\ key[n + 1] = "."
TrimPrefix(key, name) == IF IsPrefix(<<name, ".">>, key) THEN SubSeq(key, 3, Len(key)) ELSE key

KeyValues_Untrimmed(json, name) ==
  {[key |-> mem.key, value |-> Sprint(mem.value)] : mem \in {t \in TopLevel(json) : HasName(t.key, name)}}
KeyValues(json, name) ==
  {[key |-> TrimPrefix(mem.key, name), value |-> Sprint(mem.value)] : mem \in {t \in TopLevel(json) : HasName(t.key, name)}}

\* Ids are the bytes of the text in the document, not of the digits in it.
SpanOf(json) ==
  LET Field(f) == FieldValue(json, <<f>>)
  IN  [TraceId      |-> Field("TraceId"),      SpanId      |-> Field("SpanId"),
       ParentSpanId |-> Field("ParentSpanId"), Name        |-> Field("Name"),
       Kind         |-> Field("Kind"),         TraceStatus |-> Field("TraceStatus"),
       attributes   |-> KeyValues(json, "Attributes"),
       resource     |-> KeyValues(json, "Resource")]

DocumentsResourceSpansConvert(hits) == [i \in DOMAIN hits |-> SpanOf(hits[i])]
-----------------------------------------------------------------------------
\* The value of service.name, "" without one.
ServiceOf(resource) ==
  LET named == {kv \in resource : kv.key = ServiceNameKey}
  IN  IF named = {} THEN "" ELSE (CHOOSE kv \in named : TRUE).value

\* FindRootSpan: the first span, in the order of the hits, whose parent is not
\* among the spans; 0 if there is none.
FindRootSpan_First(spans) == IF spans = << >> THEN 0 ELSE 1
FindRootSpan(spans) ==
  LET IsTop(s) == \A i \in DOMAIN spans : spans[i].SpanId # s.ParentSpanId
  IN  SelectInSeq(spans, IsTop)

\* The resources of a trace that have a service name.  A resource is added when
\* its service differs from that of some resource collected before.
AddResource_Once(resources, span) ==
  IF ServiceOf(span.resource) = "" \/ resources # << >> THEN resources ELSE Append(resources, span.resource)
AddResource(resources, span) ==
  IF \/ ServiceOf(span.resource) = ""
     \/ /\ resources # << >>
        /\ \A i \in DOMAIN resources : ServiceOf(resources[i]) = ServiceOf(span.resource)
  THEN resources ELSE Append(resources, span.resource)

\* UNHEALTHY is the zero value of a trace's status.
IsHealthy(span) ==
  \/ span.TraceStatus = "OK"
  \/ span.TraceStatus = "UNSET" /\ span.Kind \in {"SERVER", "INTERNAL"}

TraceOf(id, spans) ==
  LET root      == FindRootSpan(spans)
      resources == FoldLeft(AddResource, << >>, spans)
  IN  [id        |-> id,
       spanCount |-> Len(spans),
       processes |-> [i \in DOMAIN resources |-> ServiceOf(resources[i])],
       operation |-> IF root = 0 THEN "" ELSE spans[root].Name,
       healthy   |-> root # 0 /\ IsHealthy(spans[root])]

\* DocumentsTracesConvert: the traces in the order in which their ids occur.
DocumentsTracesConvert(spans) ==
  LET ids == FoldLeft(LAMBDA seen, s : IF Contains(seen, s.TraceId) THEN seen ELSE Append(seen, s.TraceId),
                      << >>, spans)
  IN  [n \in DOMAIN ids |-> TraceOf(ids[n], ElementsAt(spans, {m \in DOMAIN spans : spans[m].TraceId = ids[n]}))]
=============================================================================
