---------------------------- MODULE AvroExchange ----------------------------
(***************************************************************************)
(* A datum on its way through schema.py and io.py: a program parses its    *)
(* schema, prints it into the header of a file and writes a datum; another *)
(* one, perhaps with a schema of its own, parses the header and reads the  *)
(* datum.  And a protocol on its way through the handshake: printed by one *)
(* side, parsed by the other.                                              *)
(***************************************************************************)
EXTENDS AvroReader

CONSTANTS
    WritersTexts, ReadersTexts,  \* JSON of the schemas the programs are given
    Data,                        \* what they are asked to write
    ProtocolTexts                \* JSON of protocols

VARIABLES
    pc,
    own,      \* the writer's schema object and its names, as a Made
    header,   \* the JSON in the header
    datum, bytes,
    parsed,   \* the schema the reader made of the header
    readers,  \* the reader's own schema
    got       \* what the read returned

vars == <<pc, own, header, datum, bytes, parsed, readers, got>>

Init ==
    /\ pc = "start"
    /\ own = Failed /\ parsed = Failed /\ readers = Failed
    /\ header = None /\ datum = NoneObj /\ bytes = <<>> /\ got = Raised

\* schema.parse in the writing program and str(schema) in DataFileWriter.
OpenWriter(j) ==
    /\ pc = "start"
    /\ own' = Parse(j)
    /\ header' = IF own'.ok THEN PrintSchema(own'.v, own'.names.defs) ELSE None
    /\ pc' = IF own'.ok THEN "open" ELSE "refused"
    /\ UNCHANGED <<datum, bytes, parsed, readers, got>>

Written(d, w) ==
    /\ datum' = d /\ bytes' = w.b
    /\ pc' = IF w.ok THEN "written" ELSE "unwritten"
    /\ UNCHANGED <<own, header, parsed, readers, got>>

WriteDatum(d) ==
    /\ pc = "open"
    /\ Written(d, DatumWrite(own.v, own.names.defs, d))

(* Writers in other languages put arrays and maps into blocks that say their *)
(* size in bytes (the doc of read_array); one item to a block here.          *)
RECURSIVE ForeignWrite(_, _, _)
ForeignWrite(s, env, d) ==
    CASE s.type \in {"array", "map"} ->
            Then(FoldLeft(LAMBDA acc, k :
                    LET item == WriteItem(s, env, d, k) IN
                    Then(acc, Then(Wrote(WriteLong(-1) \o WriteLong(Len(item.b))), item)),
                    Wrote(<<>>), KeysOf(d)),
                 Wrote(WriteLong(0)))
      [] IsRecord(s) ->
            FoldLeft(LAMBDA acc, f : Then(acc, ForeignWrite(f.type, env, DictGet(d, f.name))),
                     Wrote(<<>>), FieldsOf(s, env))
      [] OTHER -> WriteData(s, env, d)

WriteForeign(d) ==
    /\ pc = "open"
    /\ Validate(own.v, own.names.defs, d)
    /\ Written(d, ForeignWrite(own.v, own.names.defs, d))

\* DataFileReader parses the header of a file, which may hold no datum yet.
OpenReader ==
    /\ pc \in {"open", "written"}
    /\ parsed' = Parse(header)
    /\ pc' = IF ~parsed'.ok THEN "unreadable" ELSE IF pc = "written" THEN "opened" ELSE "empty"
    /\ UNCHANGED <<own, header, datum, bytes, readers, got>>

\* DatumReader.read, with the reader's own schema or with the writer's.
ReadDatum(r) ==
    /\ pc = "opened" /\ r.ok
    /\ readers' = r
    /\ got' = DatumRead(parsed.v, r.v, [b |-> bytes, w |-> parsed.names.defs, r |-> r.names.defs])
    /\ pc' = "read"
    /\ UNCHANGED <<own, header, datum, bytes, parsed>>

\* A protocol printed into a handshake and parsed by the other side.
SendProtocol(j) ==
    /\ pc = "start"
    /\ own' = MakeAvpr(j)
    /\ header' = IF own'.ok THEN PrintProtocol(own'.v, own'.names.defs) ELSE None
    /\ parsed' = IF own'.ok THEN MakeAvpr(header') ELSE Failed
    /\ pc' = IF own'.ok THEN "sent" ELSE "refused"
    /\ UNCHANGED <<datum, bytes, readers, got>>

Next ==
    \/ \E j \in WritersTexts : OpenWriter(j)
    \/ \E d \in Data : WriteDatum(d) \/ WriteForeign(d)
    \/ OpenReader
    \/ ReadDatum(parsed) \/ \E j \in ReadersTexts : ReadDatum(Parse(j))
    \/ \E j \in ProtocolTexts : SendProtocol(j)

Spec == Init /\ [][Next]_vars

-----------------------------------------------------------------------------
TypeOK ==
    /\ pc \in {"start", "refused", "open", "written", "unwritten", "opened", "empty",
               "unreadable", "read", "sent"}
    /\ own.ok <=> pc \notin {"start", "refused"}
    /\ bytes \in Seq(0 .. BYTE - 1)
    /\ got.ok => pc = "read" /\ parsed.ok /\ readers.ok

(* A name can be printed and found again: the records are all in one space, *)
(* and so is every other type whose JSON gave no namespace; none has the     *)
(* name of a primitive.                                                      *)
Spaces(m) == {GetSpace(full) : full \in DOMAIN m.names.defs}
Referable(m) ==
    \E space \in Spaces(m) : \A full \in DOMAIN m.names.defs :
        /\ Last(full) \notin PRIMITIVE_TYPES
        /\ \/ GetSpace(full) = space
           \/ /\ m.names.defs[full].type # "record"
              /\ Get(m.names.defs[full], "namespace") # None

(* str(schema) is the schema again: what DataFileWriter puts into the header *)
(* of a file is parsed to the same types, references, fields and defaults.   *)
(* And a protocol that keeps to its namespace survives the handshake: the    *)
(* other side has the same types and messages and, if its dict has them in   *)
(* the same order (see Items), would compute the same MD5.                   *)
PrintsBack ==
    /\ pc \in {"opened", "empty", "unreadable", "read"} /\ own.v.type = "record" /\ Referable(own)
       => parsed = own
    /\ pc = "sent" /\ Spaces(own) \subseteq {IF own.v.namespace = None THEN <<>>
                                             ELSE own.v.namespace}
       => parsed = own /\ PrintProtocol(parsed.v, parsed.names.defs) = header

(* What validate takes and yet cannot be encoded: as a "string" a str with   *)
(* other than ASCII bytes, as a "float" or "double" a number that is too     *)
(* large for it.  Of a union it is the last branch that counts, although     *)
(* another one may have room for the datum.                                  *)
RECURSIVE Encodable(_, _, _)
Encodable(s, env, d) ==
    CASE s.type = "string" -> Kind(d) = "unicode" \/ Ascii(Val(d))
      [] s.type = "float" -> InRange(Val(d), 4)
      [] s.type = "double" -> InRange(Val(d), 8)
      [] s.type = "array" -> \A i \in DOMAIN Val(d) : Encodable(s.items, env, Val(d)[i])
      [] s.type = "map" -> \A k \in DOMAIN Val(d) : Encodable(s.values, env, Val(d)[k])
      [] s.type = "union" ->
            Encodable(s.schemas[Max({i \in DOMAIN s.schemas : Validate(s.schemas[i], env, d)})], env, d)
      [] IsRecord(s) ->
            \A i \in DOMAIN FieldsOf(s, env) :
                LET f == FieldsOf(s, env)[i] IN Encodable(f.type, env, DictGet(d, f.name))
      [] OTHER -> TRUE

(* A datum that passes validate is written if it is Encodable; if not, the   *)
(* write raises, although bytes of it may have been written, and never makes *)
(* another datum of it.  One that validate refuses leaves no byte behind.    *)
ValidatedIsWritten ==
    LET valid == Validate(own.v, own.names.defs, datum)
        encodable == Encodable(own.v, own.names.defs, datum)
    IN /\ TypeOK
       /\ pc = "written" => valid /\ encodable
       /\ pc = "unwritten" => IF valid THEN ~encodable ELSE bytes = <<>>

(* What schema resolution promises (the docs of DatumReader's methods), on   *)
(* data instead of bytes: the data that d, written under w, may be read as   *)
(* under r, and Refused if the schemas cannot be resolved for one way of     *)
(* writing it.  In one case it is the code that speaks and not the doc, which*)
(* leaves a reader's field "unset" if the writer has none of its name and it *)
(* has no default (io.py:667-669): lines 690-693 raise.                      *)
Refused == Py("refused", 0)
NoDefault == {Refused}

\* A number under "float" or "double" is the nearest one that these have.
Stored(w, d) ==
    CASE w.type = "float" -> Py("float", Nearest(Val(d), 4))
      [] w.type = "double" -> Py("float", Nearest(Val(d), 8))
      [] OTHER -> d

RECURSIVE Resolutions(_, _, _, _)
\* The ways to build a datum of one option each; refused if one of them is.
Combine(options, Build(_)) ==
    {IF Refused \in {f[k] : k \in DOMAIN f} THEN Refused ELSE Build(f) :
        f \in {f \in [DOMAIN options -> UNION {options[k] : k \in DOMAIN options}] :
                 \A k \in DOMAIN options : f[k] \in options[k]}}

RecordResolutions(w, r, c, d) ==
    LET ours == FieldsOf(r, c.r)
        Theirs(n) == {f \in ToSet(FieldsOf(w, c.w)) : f.name = n}
        options == [n \in {f.name : f \in ToSet(ours)} |->
            LET f == CHOOSE f \in ToSet(ours) : f.name = n
                x == DefaultValue(f.type, c.r, f.default)
            IN IF Theirs(n) # {}
               THEN UNION {Resolutions(g.type, f.type, c, DictGet(d, n)) : g \in Theirs(n)}
               ELSE IF "default" \notin DOMAIN f THEN NoDefault
               ELSE IF x.ok THEN {x.v} ELSE {Refused}]
    IN Combine(options, LAMBDA f : Py("dict", f))

Resolutions(w, r, c, d) ==
    IF w.type = "union"
    THEN UNION {Resolutions(s, r, c, d) : s \in {s \in ToSet(w.schemas) : Validate(s, c.w, d)}}
    ELSE IF r.type = "union"
    THEN LET all == UNION {Resolutions(w, s, c, d) : s \in ToSet(r.schemas)}
         IN IF all \ {Refused} = {} THEN {Refused} ELSE all \ {Refused}
    ELSE IF ~Match(w, r, c) THEN {Refused}
    ELSE IF w.type \in {"array", "map"}
    THEN Combine([k \in DOMAIN Val(d) |->
             IF w.type = "array" THEN Resolutions(w.items, r.items, c, Val(d)[k])
             ELSE Resolutions(w.values, r.values, c, Val(d)[k])], LAMBDA f : Py(Kind(d), f))
    ELSE IF IsRecord(w) THEN RecordResolutions(w, r, c, d)
    ELSE IF w.type = "enum" /\ ~Validate(r, c.r, d) THEN {Refused}
    ELSE {Stored(w, d)}

Context == [b |-> bytes, w |-> parsed.names.defs, r |-> readers.names.defs]

(* A read returns what resolution gives for the datum that was written,      *)
(* whatever path its bytes took (read, skipped, in sized blocks, promoted,   *)
(* through unions), and ends where the write ended, so that the next datum   *)
(* of a block is found; it raises only if resolution refuses the datum, or   *)
(* the reader asks for a field that nobody gives (see NoDefault).            *)
ReadResolves ==
    pc = "read" /\ parsed = own =>
        LET promised == Resolutions(parsed.v, readers.v, Context, datum) IN
        IF got.ok THEN got.p = Len(bytes) + 1 /\ \E v \in promised : PyEq(v, got.v)
        ELSE Refused \in promised

(* A default that can be read is a datum of its field.  JSON strings are     *)
(* unicode, which validate accepts neither as bytes nor as a fixed.          *)
SoundDefaults(m) ==
    \A full \in DOMAIN m.names.defs : m.names.defs[full].type = "record" =>
        \A i \in DOMAIN m.names.defs[full].fields :
            LET f == m.names.defs[full].fields[i]
                x == DefaultValue(f.type, m.names.defs, f.default)
            IN "default" \in DOMAIN f /\ x.ok => Validate(f.type, m.names.defs, x.v)

=============================================================================
