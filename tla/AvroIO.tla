------------------------------- MODULE AvroIO -------------------------------
(***************************************************************************)
(* io.py: the binary encoding of Python data under a schema and the schema *)
(* resolution of DatumReader.  A datum is tagged with its Python type; a   *)
(* unicode string is a sequence of characters, a str one of bytes.  An env *)
(* maps the names of a schema to their properties (AvroSchema).            *)
(***************************************************************************)
EXTENDS AvroSchema, AvroBinary

Py(type, v) == <<type, v>>
NoneObj == Py("NoneType", 0)

\* Python's ==: numbers by value, strings by character (a str only if ASCII).
Numbers == {"bool", "int", "float"}
Strings == {"str", "unicode"}
Ascii(s) == \A i \in DOMAIN s : s[i] < Group

RECURSIVE PyEq(_, _)
PyEq(a, b) ==
    CASE Kind(a) \in Numbers -> Kind(b) \in Numbers /\ Val(a) = Val(b)
      [] Kind(a) \in Strings ->
            Kind(b) \in Strings /\ Val(a) = Val(b) /\ (Kind(a) = Kind(b) \/ Ascii(Val(a)))
      [] Kind(a) = "NoneType" -> Kind(b) = "NoneType"
      [] OTHER -> /\ Kind(b) = Kind(a) /\ DOMAIN Val(b) = DOMAIN Val(a)
                  /\ \A k \in DOMAIN Val(a) : PyEq(Val(a)[k], Val(b)[k])

FieldsOf(s, env) == IF s.type = "request" THEN s.fields ELSE env[s.ref].fields
IsRecord(s) == s.type \in {"record", "error", "request"}

DictGet(d, key) == IF key \in DOMAIN Val(d) THEN Val(d)[key] ELSE NoneObj

-----------------------------------------------------------------------------
(* A bool is an int to isinstance, and so to validate. *)
RECURSIVE Validate(_, _, _)
Validate(s, env, d) ==
    CASE s.type = "null" -> Kind(d) = "NoneType"
      [] s.type = "boolean" -> Kind(d) = "bool"
      [] s.type = "string" -> Kind(d) \in Strings
      [] s.type = "bytes" -> Kind(d) = "str"
      [] s.type = "int" ->
            Kind(d) \in {"int", "bool"} /\ -INT_MAX_VALUE - 1 <= Val(d) /\ Val(d) <= INT_MAX_VALUE
      [] s.type = "long" ->
            Kind(d) \in {"int", "bool"} /\ -LONG_MAX_VALUE - 1 <= Val(d) /\ Val(d) <= LONG_MAX_VALUE
      [] s.type \in {"float", "double"} -> Kind(d) \in Numbers
      [] s.type = "fixed" -> Kind(d) = "str" /\ Len(Val(d)) = env[s.ref].size
      [] s.type = "enum" ->
            \E i \in DOMAIN env[s.ref].symbols : PyEq(d, Py("unicode", env[s.ref].symbols[i]))
      [] s.type = "array" -> Kind(d) = "list" /\ \A i \in DOMAIN Val(d) : Validate(s.items, env, Val(d)[i])
      [] s.type = "map" -> Kind(d) = "dict" /\ \A k \in DOMAIN Val(d) : Validate(s.values, env, Val(d)[k])
      [] s.type = "union" -> \E i \in DOMAIN s.schemas : Validate(s.schemas[i], env, d)
      [] OTHER ->
            /\ Kind(d) = "dict"
            /\ \A i \in DOMAIN FieldsOf(s, env) :
                  LET f == FieldsOf(s, env)[i] IN Validate(f.type, env, DictGet(d, f.name))

-----------------------------------------------------------------------------
(* BinaryEncoder.  What a write that raises had written stays in the buffer. *)
Wrote(bytes) == [ok |-> TRUE, b |-> bytes]
Then(first, second) == IF first.ok THEN [ok |-> second.ok, b |-> first.b \o second.b] ELSE first

\* A character that is not ASCII takes two bytes.
Utf8(c) == IF c < Group THEN <<c>> ELSE <<BYTE - 1, c>>
ToUtf8(chars) == FlattenSeq([i \in DOMAIN chars |-> Utf8(chars[i])])

\* encode of a str decodes it as ASCII first, which may raise.
WriteUtf8(d) ==
    IF Kind(d) = "str" /\ ~Ascii(Val(d)) THEN [ok |-> FALSE, b |-> <<>>]
    ELSE Wrote(WriteBytes(ToUtf8(Val(d))))

\* Mutant: pack in native mode, which makes an infinity of what is too large.
WriteFloat_Native(d, size) ==
    Wrote(WriteBits(IF InRange(Val(d), size) THEN Nearest(Val(d), size) ELSE Largest[size], size))

\* write_float and write_double: for what is too large, pack raises before any byte.
WriteFloat(d, size) ==
    IF InRange(Val(d), size) THEN Wrote(WriteBits(Nearest(Val(d), size), size))
    ELSE [ok |-> FALSE, b |-> <<>>]

WriteEnum(symbols, d) ==
    Wrote(WriteLong((CHOOSE i \in DOMAIN symbols : PyEq(d, Py("unicode", symbols[i]))) - 1))

RECURSIVE WriteData(_, _, _)

WriteItem(s, env, d, k) ==
    IF s.type = "array" THEN WriteData(s.items, env, Val(d)[k])
    ELSE Then(WriteUtf8(Py("unicode", k)), WriteData(s.values, env, Val(d)[k]))

WriteItems(s, env, d, keys) ==
    FoldLeft(LAMBDA acc, k : Then(acc, WriteItem(s, env, d, k)), Wrote(<<>>), keys)

\* The items of a list in order, the keys of a dict in an order of its own.
KeysOf(d) == IF Kind(d) = "list" THEN [i \in DOMAIN Val(d) |-> i] ELSE SetToSeq(DOMAIN Val(d))

\* write_array and write_map: one block, if there are items, and a zero.
WriteBlocks(s, env, d) ==
    Then(IF DOMAIN Val(d) = {} THEN Wrote(<<>>)
         ELSE Then(Wrote(WriteLong(Cardinality(DOMAIN Val(d)))), WriteItems(s, env, d, KeysOf(d))),
         Wrote(WriteLong(0)))

\* Mutant: the index of the first branch that validates, the bytes of the last.
WriteUnion_Mixed(s, env, d) ==
    LET is == {i \in DOMAIN s.schemas : Validate(s.schemas[i], env, d)} IN
    IF is = {} THEN [ok |-> FALSE, b |-> <<>>]
    ELSE Then(Wrote(WriteLong(Min(is) - 1)), WriteData(s.schemas[Max(is)], env, d))

\* The loop has no break: the last branch that validates the datum wins.
WriteUnion(s, env, d) ==
    LET is == {i \in DOMAIN s.schemas : Validate(s.schemas[i], env, d)} IN
    IF is = {} THEN [ok |-> FALSE, b |-> <<>>]
    ELSE Then(Wrote(WriteLong(Max(is) - 1)), WriteData(s.schemas[Max(is)], env, d))

\* Mutant: a datum must have a key for every field.
WriteRecord_AllKeys(s, env, d) ==
    FoldLeft(LAMBDA acc, f :
        Then(acc, IF f.name \notin DOMAIN Val(d) THEN [ok |-> FALSE, b |-> <<>>]
                  ELSE WriteData(f.type, env, DictGet(d, f.name))),
        Wrote(<<>>), FieldsOf(s, env))

WriteRecord(s, env, d) ==
    FoldLeft(LAMBDA acc, f : Then(acc, WriteData(f.type, env, DictGet(d, f.name))),
             Wrote(<<>>), FieldsOf(s, env))

WriteData(s, env, d) ==
    CASE s.type = "null" -> Wrote(<<>>)
      [] s.type = "boolean" -> Wrote(<<IF Val(d) = 0 THEN 0 ELSE 1>>)
      [] s.type = "string" -> WriteUtf8(d)
      [] s.type \in {"int", "long"} -> Wrote(WriteLong(Val(d)))
      [] s.type = "float" -> WriteFloat(d, 4)
      [] s.type = "double" -> WriteFloat(d, 8)
      [] s.type = "bytes" -> Wrote(WriteBytes(Val(d)))
      [] s.type = "fixed" -> Wrote(Val(d))
      [] s.type = "enum" -> WriteEnum(env[s.ref].symbols, d)
      [] s.type \in {"array", "map"} -> WriteBlocks(s, env, d)
      [] s.type = "union" -> WriteUnion(s, env, d)
      [] OTHER -> WriteRecord(s, env, d)

\* DatumWriter.write
DatumWrite(s, env, d) ==
    IF Validate(s, env, d) THEN WriteData(s, env, d) ELSE [ok |-> FALSE, b |-> <<>>]
=============================================================================
