--------------------------- MODULE MCAvroExchange ---------------------------
EXTENDS AvroExchange

X == <<1>>
Y == <<2>>
Z == <<1, 2>>
Wide == <<5>>

Named(n) == JString(<<n>>)
Fixed(size) == JObject([type |-> "fixed", name |-> <<"F">>, size |-> size])
Enum(symbols) == JObject([type |-> "enum", name |-> <<"E">>, symbols |-> symbols])
ArrayOf(t) == JObject([type |-> "array", items |-> t])
MapOf(t) == JObject([type |-> "map", values |-> t])
F(name, t) == [name |-> name, type |-> t]
Default(name, t, json) == [name |-> name, type |-> t, default |-> json]
Record(name, fields) == JObject([type |-> "record", name |-> <<name>>, fields |-> fields])
Error(name, fields) == JObject([type |-> "error", name |-> <<name>>, fields |-> fields])
In(space, j) == JObject(Val(j) @@ [namespace |-> space])

Two == Py("int", 2)
U(chars) == Py("unicode", chars)
Dict(f) == Py("dict", f)

FieldTypes ==
    {Named(t) : t \in PRIMITIVE_TYPES}
    \cup {Fixed(1), Fixed(2), Enum(<<X, Y>>), Enum(<<Y, Z>>)}
    \cup {ArrayOf(Named("int")), ArrayOf(Named("long")), ArrayOf(Named("string")),
          MapOf(Named("int")), MapOf(JArray(<<Named("null"), Named("int")>>))}
    \cup {JArray(<<Named("null"), Named("int")>>), JArray(<<Named("long"), Named("boolean")>>),
          JArray(<<Named("boolean"), Named("int")>>), JArray(<<Named("string"), Named("bytes")>>),
          JArray(<<Named("double"), Named("float")>>), JArray(<<Named("null"), Named("R")>>),
          JArray(<<Record("P", <<F(X, Named("int"))>>),
                   Error("Q", <<F(Y, JArray(<<Named("null"), Named("int")>>))>>)>>)}
    \cup {Record("P", <<F(X, Named("int"))>>),
          Record("P", <<Default(Y, Named("string"), U(X)), F(X, Named("double"))>>)}

Values ==
    {NoneObj, Py("bool", 1), Two, Py("int", -3), Py("int", 12), Py("int", 17), Py("int", 80),
     Py("float", 7), Py("float", 48),
     Py("str", X), Py("str", <<1, 6>>), U(X), U(Wide),
     Py("list", <<>>), Py("list", <<Two, Py("int", 5)>>), Py("list", <<U(Wide)>>),
     Dict(X :> Two), Dict(Wide :> NoneObj @@ Y :> Two), Dict(Y :> Two)}

(* A trailing field shows when a reader has lost its place. *)
MCWritersTexts ==
    {Record("R", <<F(X, t), F(Y, Named("long"))>>) : t \in FieldTypes}

\* In this order: all integers of a float, an int, a double, a long; the ranges.
MCExact == 4 :> 4 @@ 8 :> 16
MCLargest == 4 :> 40 @@ 8 :> 64

Defaults ==
    {<<Named("int"), Two>>, <<Named("int"), U(X)>>, <<Named("boolean"), Py("int", 2)>>,
     <<Named("bytes"), U(X)>>, <<Enum(<<X>>), U(Y)>>,
     <<JArray(<<Named("null"), Named("int")>>), NoneObj>>,
     <<ArrayOf(Named("float")), Py("list", <<Two>>)>>, <<MapOf(Named("int")), Dict(X :> NoneObj)>>,
     <<Record("P", <<Default(X, Named("int"), Two), F(Y, Named("long"))>>), Dict(Y :> Two)>>,
     <<Error("P", <<>>), Dict(<<>>)>>}

MCReadersTexts ==
    {Record("R", <<F(Y, Named("long")), F(X, t)>>) : t \in FieldTypes}
    \cup {Record("R", <<Default(Z, t[1], t[2]), F(Y, Named("double"))>>) : t \in Defaults}
    \cup {Record("R", <<F(Y, Named("long")), F(Z, Named("int"))>>), Record("S", <<>>),
          JArray(<<Record("S", <<>>), Record("R", <<F(Y, Named("long"))>>)>>)}

MCData == {Dict(X :> v @@ Y :> Two) : v \in Values} \cup {Dict(X :> Dict(X :> NoneObj @@ Y :> Two) @@ Y :> Two)}

(* Where namespaces and names matter: nothing is written under these. *)
Uses ==
    {Named("E"), Named("R"), Named("int"), JString(<<"a", "E">>), JString(<<"b", "E">>),
     ArrayOf(Named("E")), JArray(<<Named("null"), Named("R"), Named("E")>>)}
Nested ==
    {Enum(<<X>>), In(<<"a">>, Enum(<<X>>)), In(<<"b">>, Enum(<<X>>)), In(<<>>, Enum(<<X>>)),
     In(<<"a">>, JObject([type |-> "fixed", name |-> <<"int">>, size |-> 1])),
     JObject([type |-> "enum", name |-> <<"a", "E">>, symbols |-> <<X, X>>]),
     JObject([type |-> "enum", name |-> <<"b", "E">>, symbols |-> <<X, Y>>]),
     JObject([type |-> "fixed", name |-> <<"E">>]), JObject([type |-> "list"]),
     JObject([type |-> "array"]), JArray(<<Named("int"), Named("int")>>),
     JArray(<<JArray(<<>>)>>), JString(<<"list">>), Named("E")}
NameTexts ==
    {Record("S", <<F(X, n), F(Y, u)>>) : n \in Nested, u \in {Named("E"), Named("int")}}
    \cup UNION {{In(space, Record("R", <<F(X, n), F(Y, u)>>)),
            In(space, Error("R", <<F(X, n), F(Y, u)>>)),
            In(<<"a">>, Record("R", <<F(X, In(space, Record("P", <<F(X, n)>>))),
                                      F(Y, u)>>)),
            In(<<"a">>, Record("R", <<F(X, n),
                                      F(Y, In(space, Error("P", <<F(X, u)>>))),
                                      F(Z, In(space, Record("S", <<F(X, u)>>)))>>))}
        : n \in Nested, u \in Uses, space \in {<<"a">>, <<"b">>}}
    \cup {Record("R", <<F(X, Named("int")), F(X, Named("int"))>>),
          Record("R", <<[name |-> X, type |-> Named("int"), order |-> "none"]>>),
          Record("int", <<>>), JObject([type |-> "record", name |-> <<"R">>])}

MCAllWritersTexts == MCWritersTexts \cup NameTexts

Body(request, response) == [request |-> request, response |-> response]
MCProtocolTexts ==
    {[protocol |-> <<"Mail">>, types |-> types, messages |->
        [send |-> Body(<<F(X, t)>>, r) @@ errors, ping |-> Body(<<F(X, u)>>, Named("null"))]]
        @@ space
     : types \in {<<>>, <<Enum(<<X>>)>>, <<Error("Q", <<>>), In(<<"a">>, Enum(<<X>>))>>,
                  <<In(<<"b">>, Record("P", <<F(X, Enum(<<X>>))>>))>>},
       t \in {Named("E"), Named("int"), Enum(<<Y>>)}, u \in {Named("E"), Named("string")},
       r \in {Named("E"), Named("null")},
       errors \in {<<>>, [errors |-> <<Named("Q")>>], [errors |-> <<Error("D", <<>>)>>],
                   [errors |-> <<Named("string")>>]},
       space \in {<<>>, [namespace |-> <<"a">>]}}
=============================================================================
