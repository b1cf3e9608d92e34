------------------------- MODULE MCClickhouseTraces -------------------------
(* A small instance of ClickhouseTraces for TLC.                           *)
EXTENDS ClickhouseTraces

CONSTANTS b1, b2, b3, shop, cart

Str(text) == [type |-> "string", text |-> text]
HexOf(id) == IF id = NoText THEN NoText ELSE "0x" \o id

\* The text in the parts that ";" cuts it into: two sets of pairs have the same.
JoinedText(pairs) == UNION {IF p = <<"host", "h1;ip:i1">> THEN {<<"host", "h1">>, <<"ip", "i1">>}
                            ELSE {p} : p \in pairs}

Attrs(service) == [n \in {"service.name", "host"} |-> IF n = "host" THEN Str("h1") ELSE Str(service)]

\* Two resources with one joined text, and one whose service.name is no string.
Escaped  == [n \in {"service.name", "host"} |->
               IF n = "host" THEN Str("h1;ip:i1") ELSE Str(cart)]
Parted   == [n \in {"service.name", "host", "ip"} |->
               CASE n = "host" -> Str("h1") [] n = "ip" -> Str("i1") [] OTHER -> Str(cart)]
Numbered == [n \in {"service.name"} |-> [type |-> "int", text |-> "7"]]

SpanNamed(name, trace, kind, start, end, status, tags) ==
  [trace |-> trace, id |-> name, parent |-> NoText, name |-> name, kind |-> kind,
   start |-> start, end |-> end, attributes |-> tags, status |-> status, message |-> NoText,
   events |-> IF status = 2 THEN <<[time |-> start, name |-> "e", attributes |-> tags],
                                   [time |-> end, name |-> "f", attributes |-> << >>]>>
              ELSE << >>,
   links |-> IF kind = 3 THEN <<[trace |-> "t2", span |-> "x", state |-> "s", attributes |-> << >>]>>
             ELSE << >>]

Tag   == [n \in {"k"} |-> Str("v")]
NoTag == [n \in {"k"} |-> Str(NoText)]

\* A trace over two batches and four resources, one of them without a name and two
\* with one joined text, a trace of one span, and a span without a trace id and of an
\* unknown kind; the third batch is empty.
SomeResources ==
  [b \in {b1, b2, b3} |->
     CASE b = b1 -> <<[attributes |-> Attrs(shop),
                       spans |-> <<SpanNamed("get", "t1", 2, 10, 25, 0, Tag),
                                   SpanNamed("put", "t2", 1, 30, 30, 1, << >>)>>],
                      [attributes |-> Numbered,
                       spans |-> <<SpanNamed("job", "t1", 5, 15, 16, 0, << >>)>>]>>
       [] b = b2 -> <<[attributes |-> Escaped,
                       spans |-> <<SpanNamed("get", "t1", 3, 21, 40, 2, Tag),
                                   SpanNamed("old", NoText, 9, 5, 6, 0, << >>)>>],
                      [attributes |-> Parted,
                       spans |-> <<SpanNamed("got", "t1", 3, 22, 23, 0, NoTag)>>]>>
       [] b = b3 -> << >>]

SomeServices ==
  [b \in {b1, b2, b3} |-> [i \in DOMAIN SomeResources[b] |-> ServiceOf(SomeResources[b][i].attributes)]]

Query(service, operation, tags, start, end, num) ==
  [ServiceName |-> service, OperationName |-> operation, Tags |-> attributesToMap(tags), StartTime |-> start,
   EndTime |-> end, DurationMin |-> {}, DurationMax |-> {}, NumTraces |-> num]

\* Everything, by tag in a window, by service and an empty tag, with a limit of one, with
\* a window inside a second, and with a duration.
SomeRequests ==
  {{},
   {Query(NoText, "get", Tag, 10, 30, 9)},
   {Query(cart, NoText, NoTag, 5, 30, 2)},
   {Query(NoText, NoText, << >>, 0, 40, 1)},
   {Query(shop, NoText, << >>, 12, 38, -1)},
   {[Query(NoText, NoText, << >>, 0, 0, 0) EXCEPT !.DurationMin = {[Seconds |-> 0, Nanos |-> 3]},
                                                 !.DurationMax = {[Seconds |-> 0, Nanos |-> 9]}]}}
=============================================================================
