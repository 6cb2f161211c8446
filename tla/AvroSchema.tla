----------------------------- MODULE AvroSchema -----------------------------
(***************************************************************************)
(* schema.py and protocol.py: from JSON to Schema and Protocol objects and *)
(* back.  A JSON value is tagged with its kind; an object is a function    *)
(* from the attributes it has.  A dotted name is the sequence of its parts *)
(* ("a.b.C" is <<"a", "b", "C">>), the empty string is <<>>.  The objects  *)
(* of named types are shared in Python: here a schema holds a reference    *)
(* and "defs", the table of Names, the properties of the object.           *)
(***************************************************************************)
EXTENDS Integers, Sequences, SequencesExt, TLC

CONSTANT None

PRIMITIVE_TYPES == {"null", "boolean", "string", "bytes", "int", "long", "float", "double"}
NAMED_TYPES == {"fixed", "enum", "record", "error"}
VALID_TYPES == PRIMITIVE_TYPES \cup NAMED_TYPES
               \cup {"array", "map", "union", "request", "error_union"}

JString(name) == <<"string", name>>
JArray(items) == <<"array", items>>
JObject(o) == <<"object", o>>
Kind(x) == x[1]
Val(x) == x[2]

Get(o, key) == IF key \in DOMAIN o THEN o[key] ELSE None

\* What a constructor that may raise returns, with the Names it leaves.
Failed == [ok |-> FALSE]
Made(v, names) == [ok |-> TRUE, v |-> v, names |-> names]
AndThen(x, Next(_)) == IF x.ok THEN Next(x) ELSE Failed

-----------------------------------------------------------------------------
Names(default) == [defs |-> <<>>, default |-> default]

FullName(name, space, default) ==
    IF Len(name) > 1 THEN name
    ELSE IF space \notin {None, <<>>} THEN space \o name
    ELSE IF default \notin {None, <<>>} THEN default \o name
    ELSE name

GetSpace(full) == Front(full)

HasName(names, name) == FullName(name, None, names.default) \in DOMAIN names.defs

(* The name is taken before anything below it is parsed; the namespace       *)
(* property is kept only if the JSON gave one.                               *)
NamedSchema(o, body, names) ==
    LET space == Get(o, "namespace")
        full == FullName(o.name, space, names.default)
        props == [type |-> o.type, name |-> o.name] @@ body
                 @@ IF space = None THEN <<>> ELSE [namespace |-> GetSpace(full)]
    IN IF \/ Get(o, "name") \in {None, <<>>}
          \/ full \in {<<t>> : t \in VALID_TYPES}
          \/ full \in DOMAIN names.defs
       THEN Failed
       ELSE Made([type |-> o.type, ref |-> full], [names EXCEPT !.defs = (full :> props) @@ @])

RECURSIVE MakeAvsc(_, _)

Wrap(made, Build(_)) == AndThen(made, LAMBDA m : Made(Build(m.v), m.names))

(* One object for each item, made with the names the ones before it left. *)
MakeEach(items, names, Make(_, _), Clashes(_, _)) ==
    FoldLeft(LAMBDA acc, x : AndThen(acc, LAMBDA a : AndThen(Make(x, a.names), LAMBDA made :
                 IF Clashes(a.v, made.v) THEN Failed
                 ELSE Made(Append(a.v, made.v), made.names))),
             Made(<<>>, names), items)

(* Field, ArraySchema, MapSchema, UnionSchema and Message: a string that     *)
(* names a known type stands for that type's object.                         *)
TypeOf(j, names) ==
    IF j # None /\ Kind(j) = "string" /\ HasName(names, Val(j))
    THEN LET full == FullName(Val(j), None, names.default)
         IN Made([type |-> names.defs[full].type, ref |-> full], names)
    ELSE MakeAvsc(j, names)

Field(f, names) ==
    IF \/ Get(f, "name") \in {None, <<>>}
       \/ Get(f, "order") \notin {None, "ascending", "descending", "ignore"}
    THEN Failed
    ELSE Wrap(TypeOf(Get(f, "type"), names), LAMBDA t : [f EXCEPT !.type = t])

MakeFields(fields, names) ==
    MakeEach(fields, names, Field, LAMBDA fs, f : \E i \in DOMAIN fs : fs[i].name = f.name)

(* Only a "record" makes its namespace the default while its fields are      *)
(* parsed; an "error" leaves the default alone.                              *)
RecordSchema(o, names) ==
    LET Inner(full) == IF o.type = "record" THEN GetSpace(full) ELSE names.default
    IN IF Get(o, "fields") = None THEN Failed
       ELSE AndThen(NamedSchema(o, <<>>, names), LAMBDA named :
            AndThen(MakeFields(o.fields, [named.names EXCEPT !.default = Inner(named.v.ref)]),
                    LAMBDA fields : Made(named.v,
                        [fields.names EXCEPT !.defs[named.v.ref] = @ @@ [fields |-> fields.v],
                                             !.default = names.default])))

UnionSchema(schemas, names) ==
    MakeEach(schemas, names, TypeOf, LAMBDA ts, t :
        \/ t.type = "union"
        \/ t.type \notin NAMED_TYPES /\ \E i \in DOMAIN ts : ts[i].type = t.type)

FixedSchema(o, names) ==
    IF Get(o, "size") = None THEN Failed ELSE NamedSchema(o, [size |-> o.size], names)

EnumSchema(o, names) ==
    IF Get(o, "symbols") = None THEN Failed
    ELSE IF ~IsInjective(o.symbols) THEN Failed
    ELSE NamedSchema(o, [symbols |-> o.symbols], names)

ArraySchema(o, names) ==
    Wrap(TypeOf(Get(o, "items"), names), LAMBDA t : [type |-> "array", items |-> t])

MapSchema(o, names) ==
    Wrap(TypeOf(Get(o, "values"), names), LAMBDA t : [type |-> "map", values |-> t])

\* With the "string" of a system error; it calls itself "union".
ErrorUnionSchema(schemas, names) ==
    Wrap(UnionSchema(<<JString(<<"string">>)>> \o schemas, names),
         LAMBDA ts : [type |-> "union", schemas |-> ts, errors |-> TRUE])

MakeObject(o, names) ==
    LET type == Get(o, "type") IN
    CASE type \in PRIMITIVE_TYPES -> Made([type |-> type], names)
      [] type = "fixed" -> FixedSchema(o, names)
      [] type = "enum" -> EnumSchema(o, names)
      [] type \in {"record", "error"} -> RecordSchema(o, names)
      [] type = "array" -> ArraySchema(o, names)
      [] type = "map" -> MapSchema(o, names)
      [] type = "error_union" -> ErrorUnionSchema(o.declared_errors, names)
      [] OTHER -> Failed

MakeAvsc(j, names) ==
    IF j = None THEN Failed
    ELSE CASE Kind(j) = "object" -> MakeObject(Val(j), names)
           [] Kind(j) = "array" ->
                 Wrap(UnionSchema(Val(j), names), LAMBDA ts : [type |-> "union", schemas |-> ts])
           [] Kind(j) = "string" ->
                 IF Val(j) \in {<<t>> : t \in PRIMITIVE_TYPES}
                 THEN Made([type |-> Val(j)[1]], names) ELSE Failed

Parse(j) == MakeAvsc(j, Names(None))

-----------------------------------------------------------------------------
(* str(schema): the first occurrence of a named type is printed in full, the *)
(* others by name.  "seen" is the set of names printed.  The Names of a      *)
(* print has no default namespace, so name_ref gives the short name of every *)
(* type whose JSON had no namespace.                                         *)

NameRef(props, full) == IF Get(props, "namespace") = None THEN props.name ELSE full

RECURSIVE ToJson(_, _, _)

AllToJson(schemas, defs, seen) ==
    FoldLeft(LAMBDA acc, s :
        LET t == ToJson(s, defs, acc.seen) IN [j |-> Append(acc.j, t.j), seen |-> t.seen],
        [j |-> <<>>, seen |-> seen], schemas)

FieldsToJson(fields, defs, seen) ==
    LET types == AllToJson([i \in DOMAIN fields |-> fields[i].type], defs, seen)
    IN [j |-> [i \in DOMAIN fields |-> [fields[i] EXCEPT !.type = types.j[i]]],
        seen |-> types.seen]

\* Mutant: a name once printed is forgotten.
NamedToJson_Forgets(s, defs, seen) ==
    IF s.type \in {"fixed", "enum"} THEN [j |-> JObject(defs[s.ref]), seen |-> seen]
    ELSE LET fs == FieldsToJson(defs[s.ref].fields, defs, seen)
         IN [j |-> JObject([defs[s.ref] EXCEPT !.fields = fs.j]), seen |-> fs.seen]

NamedToJson(s, defs, seen) ==
    LET props == defs[s.ref] IN
    IF s.ref \in seen THEN [j |-> JString(NameRef(props, s.ref)), seen |-> seen]
    ELSE IF s.type \in {"fixed", "enum"}
    THEN [j |-> JObject(props), seen |-> seen \cup {s.ref}]
    ELSE LET fs == FieldsToJson(props.fields, defs, seen \cup {s.ref})
         IN [j |-> JObject([props EXCEPT !.fields = fs.j]), seen |-> fs.seen]

ArrayToJson(s, defs, seen) ==
    LET t == ToJson(s.items, defs, seen)
    IN [j |-> JObject([type |-> "array", items |-> t.j]), seen |-> t.seen]

MapToJson(s, defs, seen) ==
    LET t == ToJson(s.values, defs, seen)
    IN [j |-> JObject([type |-> "map", values |-> t.j]), seen |-> t.seen]

UnionToJson(schemas, defs, seen) ==
    LET t == AllToJson(schemas, defs, seen) IN [j |-> JArray(t.j), seen |-> t.seen]

\* The system error is not printed.
ErrorUnionToJson(schemas, defs, seen) ==
    UnionToJson(SelectSeq(schemas, LAMBDA b : b.type # "string"), defs, seen)

ToJson(s, defs, seen) ==
    CASE s.type \in PRIMITIVE_TYPES -> [j |-> JString(<<s.type>>), seen |-> seen]
      [] s.type \in NAMED_TYPES -> NamedToJson(s, defs, seen)
      [] s.type = "array" -> ArrayToJson(s, defs, seen)
      [] s.type = "map" -> MapToJson(s, defs, seen)
      [] s.type = "union" /\ "errors" \notin DOMAIN s -> UnionToJson(s.schemas, defs, seen)
      [] s.type = "union" /\ "errors" \in DOMAIN s -> ErrorUnionToJson(s.schemas, defs, seen)

PrintSchema(s, defs) == ToJson(s, defs, {}).j

-----------------------------------------------------------------------------
(* protocol.py.  The messages of a dict come in an order of their own, which *)
(* is taken to be one order for the keys: that of two dicts with the same    *)
(* keys may differ in Python 2, and with it the text and the MD5.            *)
Items(messages) == SetToSeq(DOMAIN messages)

ParseTypes(types, names) ==
    MakeEach(types, names, MakeAvsc,
             LAMBDA ts, t : t.type \notin {"enum", "record", "error", "fixed"})

Message(body, names) ==
    IF Get(body, "request") = None THEN Failed
    ELSE AndThen(MakeFields(body.request, names), LAMBDA request :
         AndThen(TypeOf(Get(body, "response"), request.names), LAMBDA response :
             LET both == [request |-> [type |-> "request", fields |-> request.v],
                          response |-> response.v]
             IN IF "errors" \notin DOMAIN body THEN Made(both, response.names)
                ELSE Wrap(ErrorUnionSchema(body.errors, response.names),
                          LAMBDA es : both @@ [errors |-> es])))

ParseMessages(messages, names) ==
    FoldLeft(LAMBDA acc, m : AndThen(acc, LAMBDA a :
                 Wrap(Message(messages[m], a.names), LAMBDA b : (m :> b) @@ a.v)),
             Made(<<>>, names), Items(messages))

Protocol(name, namespace, types, messages) ==
    IF name \in {None, <<>>} THEN Failed
    ELSE AndThen(ParseTypes(types, Names(namespace)), LAMBDA parsed :
             Wrap(ParseMessages(messages, parsed.names), LAMBDA bodies :
                 [protocol |-> name, namespace |-> namespace,
                  types |-> parsed.v, messages |-> bodies]))

\* Types or messages that are absent count as empty.
MakeAvpr(o) ==
    LET Members(key) == IF Get(o, key) = None THEN <<>> ELSE o[key]
    IN Protocol(Get(o, "protocol"), Get(o, "namespace"), Members("types"), Members("messages"))

\* The types of a message in the order they are printed.
MessageTypes(m) ==
    [i \in DOMAIN m.request.fields |-> m.request.fields[i].type]
    \o <<m.response>> \o IF "errors" \in DOMAIN m THEN <<m.errors>> ELSE <<>>

MessageObject(m, types) ==
    LET n == Len(m.request.fields) IN
    [request |-> [i \in 1 .. n |-> [m.request.fields[i] EXCEPT !.type = types[i]]],
     response |-> types[n + 1]]
    @@ IF "errors" \in DOMAIN m THEN [errors |-> Val(types[n + 2])] ELSE <<>>

MessageToJson(m, defs, seen) ==
    LET types == AllToJson(MessageTypes(m), defs, seen)
    IN [j |-> MessageObject(m, types.j), seen |-> types.seen]

\* What is empty or absent is not printed.
ProtocolObject(p, types, messages) ==
    [protocol |-> p.protocol]
    @@ (IF p.namespace \in {None, <<>>} THEN <<>> ELSE [namespace |-> p.namespace])
    @@ (IF types = <<>> THEN <<>> ELSE [types |-> types])
    @@ IF DOMAIN messages = {} THEN <<>> ELSE [messages |-> messages]

\* Mutant: the messages are printed with no name known.
PrintProtocol_Afresh(p, defs) ==
    ProtocolObject(p, AllToJson(p.types, defs, {}).j,
        [m \in DOMAIN p.messages |-> MessageToJson(p.messages[m], defs, {}).j])

\* str(protocol); md5 is taken from it.
PrintProtocol(p, defs) ==
    LET types == AllToJson(p.types, defs, {})
        messages == FoldLeft(LAMBDA acc, m :
            LET b == MessageToJson(p.messages[m], defs, acc.seen)
            IN [j |-> (m :> b.j) @@ acc.j, seen |-> b.seen],
            [j |-> <<>>, seen |-> types.seen], Items(p.messages))
    IN ProtocolObject(p, types.j, messages.j)
=============================================================================
