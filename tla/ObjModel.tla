------------------------------ MODULE ObjModel ------------------------------
(***************************************************************************)
(* The fields of an Elasticsearch document and its JSON, objmodel.go.      *)
(*                                                                         *)
(* A key is a sequence of tokens; "." is the separator, the other tokens   *)
(* are the pieces of names that the order of keys tells apart.  A value is *)
(* opaque, except that it may be Null, Nil or Ignored; the objects inside  *)
(* of arrays are documents of their own and are left out.  An attribute is *)
(* a leaf: the names of the maps on the way to it, its own name, a value.  *)
(***************************************************************************)
EXTENDS Integers, SequencesExt

CONSTANT Rank      \* the byte order of the tokens

ASSUME RankAssumption ==
  /\ {".", "value"} \subseteq DOMAIN Rank
  /\ \A t, u \in DOMAIN Rank : Rank[t] \in Nat /\ (Rank[t] = Rank[u] => t = u)

Keys    == Seq(DOMAIN Rank)
Null    == "null"        \* ValueTypeEmpty, an attribute without a value
Nil     == "nil"         \* nilValue, which bytes become too; an empty array
Ignored == "ignore"      \* ignoreValue
Dot     == <<".">>

\* Positions from the least to the greatest, and what a sequence has at them.
InOrder(positions) ==
  [n \in 1 .. Cardinality(positions) |->
     CHOOSE i \in positions : Cardinality({j \in positions : j < i}) = n - 1]
ElementsAt(s, positions) ==
  LET order == InOrder(positions) IN [n \in DOMAIN order |-> s[order[n]]]
-----------------------------------------------------------------------------
\* flattenKey
FlattenKey(path, key) == IF path = << >> THEN key ELSE path \o Dot \o key
FullKey(path, names)  == FoldLeft(FlattenKey, path, names)

\* AddAttributes: the leaves with their full names.  Those without a value are
\* skipped, but not the empty ones: they are fields, which only the writer skips.
AddAttributes(fields, path, attributes) ==
  LET leaves == ElementsAt(attributes, {i \in DOMAIN attributes : attributes[i].value # Null})
  IN  fields \o [i \in DOMAIN leaves |-> [key |-> FullKey(path, leaves[i].names), value |-> leaves[i].value]]

\* AddString: no field for an empty string.
AddString(fields, name, s) ==
  IF s = "" THEN fields ELSE Append(fields, [key |-> <<name>>, value |-> s])
-----------------------------------------------------------------------------
\* The order of keys is that of their bytes: the separator sorts before letters
\* and after, for example, the dash.
Less(k, l) ==
  \E n \in 0 .. Len(k) :
    /\ n < Len(l) /\ SubSeq(k, 1, n) = SubSeq(l, 1, n)
    /\ n = Len(k) \/ Rank[k[n + 1]] < Rank[l[n + 1]]

\* Document.Sort, which is stable.
Before(fields, i, j) ==
  Less(fields[i].key, fields[j].key) \/ (fields[i].key = fields[j].key /\ i < j)

Sort(fields) ==
  LET place == [i \in DOMAIN fields |-> Cardinality({j \in DOMAIN fields : Before(fields, j, i)}) + 1]
  IN  [n \in DOMAIN fields |-> fields[CHOOSE i \in DOMAIN fields : place[i] = n]]

\* Step 2 of Dedup: is the key the name of an object in the next one?
IsObjectOf(key, next) == IsPrefix(key \o Dot, next)

Rename(fields) ==
  [i \in DOMAIN fields |->
     IF i < Len(fields) /\ IsObjectOf(fields[i].key, fields[i + 1].key)
     THEN [fields[i] EXCEPT !.key = @ \o Dot \o <<"value">>] ELSE fields[i]]

\* Step 3 of Dedup: of equal keys the last one counts.
MarkDuplicates_KeepFirst(fields) ==
  [i \in DOMAIN fields |->
     IF i > 1 /\ fields[i].key = fields[i - 1].key
     THEN [fields[i] EXCEPT !.value = Ignored] ELSE fields[i]]
MarkDuplicates(fields) ==
  [i \in DOMAIN fields |->
     IF i < Len(fields) /\ fields[i].key = fields[i + 1].key
     THEN [fields[i] EXCEPT !.value = Ignored] ELSE fields[i]]

Dedup_WithoutRename(fields) == MarkDuplicates(Sort(fields))
Dedup(fields) == MarkDuplicates(Sort(Rename(Sort(fields))))
-----------------------------------------------------------------------------
(* JSON, as what its writer reports for each field: how many objects it      *)
(* closes, the names of those it opens, the name and the value.  The objects *)
(* that are left are closed in the end.                                      *)

Report(closed, opened, name, value) == [closed |-> closed, opened |-> opened, name |-> name, value |-> value]
Json(reports, closed)               == [reports |-> reports, closed |-> closed]
EmptyJson                           == Json(<< >>, 0)

IsEmpty(value)  == value \in {Nil, Ignored}
Written(fields) == ElementsAt(fields, {i \in DOMAIN fields : ~IsEmpty(fields[i].value)})

IterJSONFlat(fields) ==
  LET w == Written(fields) IN Json([i \in DOMAIN w |-> Report(0, << >>, w[i].key, w[i].value)], 0)

\* Lengths of the objects' prefixes of a key, each with its final separator; the
\* last of them up to n, and their number.
ObjectEnds(key)   == {n \in DOMAIN key : key[n] = "."}
ObjectEnd(key, n) == Max({0} \cup {m \in ObjectEnds(key) : m <= n})
Level(key, n)     == Cardinality({m \in ObjectEnds(key) : m <= n})
ObjPrefix(key)    == SubSeq(key, 1, ObjectEnd(key, Len(key)))

\* commonObjPrefix
CommonObjPrefix(a, b) == Max({n \in 0 .. Len(a) : n <= Len(b) /\ SubSeq(a, 1, n) = SubSeq(b, 1, n)})

\* The names between the separators: those of the objects, and the field's own.
Names(key) ==
  LET cuts == InOrder({0, Len(key) + 1} \cup ObjectEnds(key))
  IN  [i \in 1 .. Len(cuts) - 1 |-> SubSeq(key, cuts[i] + 1, cuts[i + 1] - 1)]

\* One field of iterJSONDedot, after one whose objects have the prefix objPrefix:
\* close the objects it is not in, open those it is in.
ReportDedot(objPrefix, f) ==
  LET common == CommonObjPrefix(f.key, objPrefix)
      kept   == IF common < Len(objPrefix) THEN ObjectEnd(f.key, common) ELSE common
      names  == Names(f.key)
  IN  Report(Level(objPrefix, Len(objPrefix)) - Level(objPrefix, kept),
             SubSeq(names, Level(f.key, kept) + 1, Len(names) - 1), Last(names), f.value)

\* After a field the objects that are open are those of its key; the level is
\* their number.
IterJSONDedot(fields) ==
  LET w         == Written(fields)
      Prefix(i) == IF i = 0 THEN << >> ELSE ObjPrefix(w[i].key)
  IN  Json([i \in DOMAIN w |-> ReportDedot(Prefix(i - 1), w[i])], Level(Prefix(Len(w)), Len(Prefix(Len(w)))))
-----------------------------------------------------------------------------
(* Reading JSON.                                                            *)

\* The names of the objects that are open after n reports, the outermost left out.
Around(json) ==
  LET around[n \in 0 .. Len(json.reports)] ==
        IF n = 0 THEN << >>
        ELSE LET before == around[n - 1]
             IN  SubSeq(before, 1, Len(before) - json.reports[n].closed) \o json.reports[n].opened
  IN  around

\* No object is closed that was not opened, and all are closed in the end.
WellFormed(json) ==
  LET around == Around(json)
  IN  /\ \A n \in DOMAIN json.reports : json.reports[n].closed <= Len(around[n - 1])
      /\ json.closed = Len(around[Len(json.reports)])

\* The objects that the n-th field opens, each by its path.
OpenedAt(json, n) ==
  LET path == Around(json)[n]
  IN  {SubSeq(path, 1, m) : m \in Len(path) - Len(json.reports[n].opened) + 1 .. Len(path)}

\* The values in order, each with its path: the names of the objects it is in and
\* its own.
Leaves(json) ==
  LET around == Around(json)
  IN  [n \in DOMAIN json.reports |->
         [path |-> Append(around[n], json.reports[n].name), value |-> json.reports[n].value]]

\* Elasticsearch takes the name a.b for the member b of an object a.
FullName(path)   == FullKey(<< >>, path)
LeafFields(json) ==
  LET leaves == Leaves(json)
  IN  [n \in DOMAIN leaves |-> [key |-> FullName(leaves[n].path), value |-> leaves[n].value]]

\* Elasticsearch rejects a document that gives a name two values, or a value and
\* members.
Conflict(k, l)   == k = l \/ IsPrefix(k \o Dot, l)
Storable(fields) == \A i, j \in DOMAIN fields : i # j => ~Conflict(fields[i].key, fields[j].key)
=============================================================================
