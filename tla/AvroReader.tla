----------------------------- MODULE AvroReader -----------------------------
(***************************************************************************)
(* io.py: BinaryDecoder and DatumReader.  What a writer wrote under its    *)
(* schema w is read under the reader's schema r.  A context c holds the    *)
(* bytes (b) and the names of both schemas (w and r); a read starts at a   *)
(* position and returns a datum and the position after it, or raises.      *)
(***************************************************************************)
EXTENDS AvroIO

\* unicode(bytes, "utf-8"), which raises for bytes that are not UTF-8.
FromUtf8(b) == {chars \in BoundedSeq(ToSet(b), Len(b)) : ToUtf8(chars) = b}
OneOf(strings, p) == IF strings = {} THEN Raised ELSE Got(CHOOSE s \in strings : TRUE, p)
ReadUtf8(b, p) == AndThen(ReadBytes(b, p), LAMBDA s : OneOf(FromUtf8(s.v), s.p))

\* seq[i] of Python: a negative index counts from the end.
HasIndex(seq, i) == -Len(seq) <= i /\ i < Len(seq)
AtIndex(seq, i) == seq[IF i < 0 THEN Len(seq) + i + 1 ELSE i + 1]

As(py, read) == AndThen(read, LAMBDA x : Got(Py(py, x.v), x.p))

-----------------------------------------------------------------------------
Promotions ==
    {<<"int", "long">>, <<"int", "float">>, <<"int", "double">>,
     <<"long", "float">>, <<"long", "double">>, <<"float", "double">>}


(* match_schemas: of the items of an array and the values of a map only the  *)
(* type is compared, so that promotions stop there.                          *)
Match(w, r, c) ==
    \/ "union" \in {w.type, r.type}
    \/ w.type = r.type /\ w.type \in PRIMITIVE_TYPES \cup {"request"}
    \/ /\ w.type = r.type /\ w.type \in NAMED_TYPES /\ w.ref = r.ref
       /\ w.type = "fixed" => c.w[w.ref].size = c.r[r.ref].size
    \/ w.type = r.type /\ w.type = "map" /\ w.values.type = r.values.type
    \/ w.type = r.type /\ w.type = "array" /\ w.items.type = r.items.type
    \/ <<w.type, r.type>> \in Promotions

-----------------------------------------------------------------------------
(* skip_data returns the position after a datum that is not wanted. *)
RECURSIVE SkipData(_, _, _)
RECURSIVE SkipBlocks(_, _, _)

Skipped(read) == AndThen(read, LAMBDA x : Got(NoneObj, x.p))
SkipBytes(b, p) == AndThen(ReadLong(b, p), LAMBDA n : Got(NoneObj, n.p + n.v))

SkipItem(s, c, p) ==
    IF s.type = "array" THEN SkipData(s.items, c, p)
    ELSE AndThen(SkipBytes(c.b, p), LAMBDA key : SkipData(s.values, c, key.p))

SkipItems(s, c, p, n) ==
    FoldLeft(LAMBDA acc, i : AndThen(acc, LAMBDA x : SkipItem(s, c, x.p)),
             Got(NoneObj, p), [i \in 1 .. n |-> i])

\* Mutant: the size in bytes of a block is taken for granted to be absent.
SkipBlocks_NoSize(s, c, p) ==
    AndThen(ReadLong(c.b, p), LAMBDA count :
        IF count.v = 0 THEN count
        ELSE AndThen(SkipItems(s, c, count.p, IF count.v < 0 THEN -count.v ELSE count.v),
                     LAMBDA end : SkipBlocks(s, c, end.p)))

\* A block with a negative count says its size in bytes: it is jumped over.
SkipBlocks(s, c, p) ==
    AndThen(ReadLong(c.b, p), LAMBDA count :
        IF count.v = 0 THEN count
        ELSE AndThen(IF count.v > 0 THEN SkipItems(s, c, count.p, count.v)
                     ELSE SkipBytes(c.b, count.p),
                     LAMBDA end : SkipBlocks(s, c, end.p)))

SkipUnion(s, c, p) ==
    AndThen(ReadLong(c.b, p), LAMBDA i :
        IF HasIndex(s.schemas, i.v) THEN SkipData(AtIndex(s.schemas, i.v), c, i.p) ELSE Raised)

SkipRecord(s, c, p) ==
    FoldLeft(LAMBDA acc, f : AndThen(acc, LAMBDA x : SkipData(f.type, c, x.p)),
             Got(NoneObj, p), FieldsOf(s, c.w))

SkipData(s, c, p) ==
    CASE s.type = "null" -> Got(NoneObj, p)
      [] s.type = "boolean" -> Got(NoneObj, p + 1)
      [] s.type \in {"string", "bytes"} -> SkipBytes(c.b, p)
      [] s.type \in {"int", "long", "enum"} -> Skipped(ReadLong(c.b, p))
      [] s.type = "float" -> Got(NoneObj, p + 4)
      [] s.type = "double" -> Got(NoneObj, p + 8)
      [] s.type = "fixed" -> Got(NoneObj, p + c.w[s.ref].size)
      [] s.type \in {"array", "map"} -> Skipped(SkipBlocks(s, c, p))
      [] s.type = "union" -> SkipUnion(s, c, p)
      [] OTHER -> SkipRecord(s, c, p)

-----------------------------------------------------------------------------
(* _read_default_value: a JSON default becomes a datum; it is checked only   *)
(* as far as the conversions raise.                                          *)
Falsy(json) ==
    IF Kind(json) \in Numbers \cup {"NoneType"} THEN Val(json) = 0 ELSE DOMAIN Val(json) = {}

RECURSIVE DefaultValue(_, _, _)
DefaultValue(s, env, json) ==
    CASE s.type = "null" -> Got(NoneObj, 0)
      [] s.type = "boolean" ->
            Got(Py("bool", IF Falsy(json) THEN 0 ELSE 1), 0)
      [] s.type \in {"int", "long"} ->
            IF Kind(json) \in Numbers THEN Got(Py("int", Val(json)), 0) ELSE Raised
      [] s.type \in {"float", "double"} ->
            IF Kind(json) \in Numbers /\ InRange(Val(json), 8)
            THEN Got(Py("float", Nearest(Val(json), 8)), 0) ELSE Raised
      [] s.type \in {"enum", "fixed", "string", "bytes"} -> Got(json, 0)
      [] s.type \in {"array", "map"} ->
            LET values == [k \in DOMAIN Val(json) |->
                    DefaultValue(IF s.type = "array" THEN s.items ELSE s.values, env, Val(json)[k])]
            IN IF Kind(json) # (IF s.type = "array" THEN "list" ELSE "dict") THEN Raised
               ELSE IF \E k \in DOMAIN values : ~values[k].ok THEN Raised
               ELSE Got(Py(Kind(json), [k \in DOMAIN values |-> values[k].v]), 0)
      [] s.type = "union" -> DefaultValue(s.schemas[1], env, json)
      [] s.type = "record" ->
            LET fields == FieldsOf(s, env)
                given == [i \in DOMAIN fields |->
                    IF DictGet(json, fields[i].name) # NoneObj THEN DictGet(json, fields[i].name)
                    ELSE IF "default" \in DOMAIN fields[i] THEN fields[i].default ELSE NoneObj]
                values == [i \in DOMAIN fields |-> DefaultValue(fields[i].type, env, given[i])]
            IN IF Kind(json) # "dict" THEN Raised
               ELSE IF \E i \in DOMAIN values : ~values[i].ok THEN Raised
               ELSE Got(Py("dict", [n \in {fields[i].name : i \in DOMAIN fields} |->
                        values[CHOOSE i \in DOMAIN fields : fields[i].name = n].v]), 0)
      [] OTHER -> Raised

-----------------------------------------------------------------------------
RECURSIVE ReadData(_, _, _, _)
RECURSIVE ReadBlocks(_, _, _, _, _)

ReadEnum(w, r, c, p) ==
    AndThen(ReadLong(c.b, p), LAMBDA i :
        IF ~HasIndex(c.w[w.ref].symbols, i.v) THEN Raised
        ELSE IF AtIndex(c.w[w.ref].symbols, i.v) \notin ToSet(c.r[r.ref].symbols) THEN Raised
        ELSE Got(Py("unicode", AtIndex(c.w[w.ref].symbols, i.v)), i.p))

\* An item of an array, or a key and its value, added to those read so far.
ReadItem(w, r, c, p, items) ==
    IF w.type = "array"
    THEN AndThen(ReadData(w.items, r.items, c, p),
                 LAMBDA item : Got(Append(items, item.v), item.p))
    ELSE AndThen(ReadUtf8(c.b, p), LAMBDA key :
         AndThen(ReadData(w.values, r.values, c, key.p),
                 LAMBDA value : Got((key.v :> value.v) @@ items, value.p)))

ReadItems(w, r, c, p, n, items) ==
    FoldLeft(LAMBDA acc, i : AndThen(acc, LAMBDA x : ReadItem(w, r, c, x.p, x.v)),
             Got(items, p), [i \in 1 .. n |-> i])

\* read_array and read_map; the size in bytes of a block is read and not used.
ReadBlocks(w, r, c, p, items) ==
    AndThen(ReadLong(c.b, p), LAMBDA count :
        IF count.v = 0
        THEN Got(Py(IF w.type = "array" THEN "list" ELSE "dict", items), count.p)
        ELSE AndThen(IF count.v > 0 THEN count ELSE ReadLong(c.b, count.p), LAMBDA start :
             AndThen(ReadItems(w, r, c, start.p, IF count.v < 0 THEN -count.v ELSE count.v, items),
                     LAMBDA more : ReadBlocks(w, r, c, more.p, more.v))))

ReadUnion(w, r, c, p) ==
    AndThen(ReadLong(c.b, p), LAMBDA i :
        IF HasIndex(w.schemas, i.v) THEN ReadData(AtIndex(w.schemas, i.v), r, c, i.p)
        ELSE Raised)

\* The writer's fields in their order: read if the reader has one of the name.
ReadField(f, ours, c, read) ==
    IF ours = <<>>
    THEN AndThen(SkipData(f.type, c, read.p), LAMBDA x : Got(read.v, x.p))
    ELSE AndThen(ReadData(f.type, ours[1].type, c, read.p),
                 LAMBDA x : Got((f.name :> x.v) @@ read.v, x.p))

ReadFields(w, r, c, p) ==
    FoldLeft(LAMBDA acc, f : AndThen(acc, LAMBDA x :
                 ReadField(f, SelectSeq(FieldsOf(r, c.r), LAMBDA g : g.name = f.name), c, x)),
             Got(<<>>, p), FieldsOf(w, c.w))

\* The reader's fields that the writer does not have get their defaults.
FillDefaults(w, r, c, dict) ==
    LET missing == SelectSeq(FieldsOf(r, c.r), LAMBDA g :
                       \A i \in DOMAIN FieldsOf(w, c.w) : FieldsOf(w, c.w)[i].name # g.name)
    IN FoldLeft(LAMBDA acc, g :
           IF ~acc.ok \/ "default" \notin DOMAIN g THEN Raised
           ELSE AndThen(DefaultValue(g.type, c.r, g.default),
                        LAMBDA x : Got((g.name :> x.v) @@ acc.v, acc.p)),
           dict, missing)

ReadRecord(w, r, c, p) ==
    AndThen(ReadFields(w, r, c, p), LAMBDA read :
        IF Len(FieldsOf(r, c.r)) > Cardinality(DOMAIN read.v)
        THEN As("dict", FillDefaults(w, r, c, read)) ELSE As("dict", read))

ReadSelected(w, r, c, p) ==
    CASE w.type = "null" -> Got(NoneObj, p)
      [] w.type = "boolean" ->
            IF p > Len(c.b) THEN Raised ELSE Got(Py("bool", IF c.b[p] = 1 THEN 1 ELSE 0), p + 1)
      [] w.type = "string" -> As("unicode", ReadUtf8(c.b, p))
      [] w.type \in {"int", "long"} -> As("int", ReadLong(c.b, p))
      [] w.type = "float" -> As("float", ReadBits(c.b, p, 4))
      [] w.type = "double" -> As("float", ReadBits(c.b, p, 8))
      [] w.type = "bytes" -> As("str", ReadBytes(c.b, p))
      [] w.type = "fixed" -> As("str", Read(c.b, p, c.w[w.ref].size))
      [] w.type = "enum" -> ReadEnum(w, r, c, p)
      [] w.type \in {"array", "map"} -> ReadBlocks(w, r, c, p, <<>>)
      [] w.type = "union" -> ReadUnion(w, r, c, p)
      [] OTHER -> ReadRecord(w, r, c, p)

(* A reader's union is resolved to its first branch that matches. *)
ReadData(w, r, c, p) ==
    LET branches == {i \in DOMAIN r.schemas : Match(w, r.schemas[i], c)} IN
    IF ~Match(w, r, c) THEN Raised
    ELSE IF w.type = "union" \/ r.type # "union" THEN ReadSelected(w, r, c, p)
    ELSE IF branches = {} THEN Raised
    ELSE ReadData(w, r.schemas[Min(branches)], c, p)

DatumRead(w, r, c) == ReadData(w, r, c, 1)
=============================================================================
