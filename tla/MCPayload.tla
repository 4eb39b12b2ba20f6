----------------------------- MODULE MCPayload -----------------------------
(* Payload for TLC: floats of two bits, doubles of four, ints up to 7 and   *)
(* longs up to 31; every kind of schema, nested twice, with values that fit *)
(* it, that fit it only laxly, and that do not.                             *)
EXTENDS Payload

Prim(p) == <<p>>
Opt(s) == <<"union", <<Prim("null"), s>>>>
F(name, type) == [name |-> name, type |-> type, default |-> NoDefault]
Record(type) == <<"record", <<F("a", type)>>>>
WithDefault == <<"record", <<F("a", Prim("long")),
                             [F("b", Prim("string")) EXCEPT !.default = <<"str", "dflt">>]>>>>

\* A list whose links refer to the schema they are in.
Node == <<"record", <<F("a", Prim("int")), F("b", Opt(<<"Node">>))>>>>
MCNamedSchemas == [Node |-> Node]

\* Unions of which the codec takes another branch than the SDK accepted, or
\* the same one: see the values below that are made for them.
Two == <<"record", <<F("a", Prim("long")), F("b", Opt(Prim("string")))>>>>
Overlapping ==
  {<<"union", u>> : u \in
     {<< <<"map", Prim("double")>>, Record(Prim("long")) >>,
      << WithDefault, <<"map", Prim("long")>> >>,
      << Record(Prim("double")), Record(Prim("long")) >>,
      << Record(Prim("long")), Record(Prim("double")), Two >>,
      << Two, Record(Prim("long")) >>,
      << Record(Prim("long")), WithDefault, <<"Node">> >>,
      << <<"array", Prim("int")>>, Prim("bytes") >>,
      << <<"map", Record(Prim("long"))>>, Record(<<"map", Prim("long")>>) >>}}

Leaves ==
  {Prim(p) : p \in {"null", "boolean", "int", "long", "float", "double", "string", "bytes"}}
    \union {<<"logical", "long">>, <<"enum", {"x", "y"}>>, <<"fixed", {"x"}>>, <<"Node">>}

Unions ==
  {Opt(Prim("double")), <<"union", <<Prim("double"), Prim("long")>>>>,
   <<"union", <<Prim("long"), Prim("float")>>>>, <<"union", <<Prim("float"), Prim("double")>>>>,
   <<"union", <<Prim("float"), Prim("long"), Prim("boolean")>>>>,
   <<"union", <<Prim("int"), Prim("string"), WithDefault, <<"map", Prim("long")>>>>>>}

Types ==
  Leaves \union Unions \union Overlapping
         \union {<<"array", s>> : s \in Unions \union {Prim("int"), Prim("string")}}
         \union {<<"map", s>> : s \in {Prim("double"), Opt(Prim("long"))}}

I(n) == <<"int", 2 * n>>
Str(w) == <<"str", w>>
Dict(f) == <<"dict", f>>
Scalars ==
  {Null, <<"bool", TRUE>>, I(0), I(3), I(5), I(-8), I(-9), I(9), I(17), I(40),
   <<"float", 3>>, <<"float", 6>>, <<"float", 10>>, Str("x"), Str("z"), <<"bytes", "x">>, EmptyBytes}
Nested ==
  {<<"list", <<>>>>, <<"list", <<I(5), I(17)>>>>, <<"list", <<Str("x"), I(3)>>>>,
   Dict([k \in {} |-> Null]), Dict([a |-> I(5)]), Dict([b |-> I(17)]),
   Dict([a |-> I(5), b |-> Null]), Dict([a |-> I(5), b |-> Dict([a |-> I(3), b |-> Null])]),
   Dict([a |-> I(5), b |-> Str("x")]), Dict([a |-> I(5), b |-> Str("x"), c |-> Null]),
   Dict([a |-> I(17)]), Dict([a |-> <<"float", 3>>]), Dict([a |-> <<"float", 19>>]),
   Dict([a |-> Dict([a |-> I(5)])]), Dict([a |-> Dict([a |-> I(5), b |-> I(3)])])}
MCOctets == [w \in {"", "x"} |-> IF w = "x" THEN <<I(5)>> ELSE <<>>]
Values == Scalars \union Nested

MCOriginals ==
  {[schema |-> [key |-> NoSchema, payload |-> Record(t)],
    data |-> [key |-> EmptyBytes, before |-> Null, after |-> Dict([a |-> v])]] : t \in Types, v \in Values}
  \union
  {[schema |-> [key |-> Record(Prim("long")), payload |-> s],
    data |-> [key |-> Dict([a |-> I(5)]), before |-> v, after |-> w]] :
     s \in {WithDefault, Node, Prim("int")}, v \in Nested, w \in Nested \union {Null}}
  \union
  {[schema |-> [key |-> NoSchema, payload |-> NoSchema],
    data |-> [key |-> k, before |-> Dict([a |-> v]), after |-> w]] :
     k \in {Null, EmptyBytes, Dict([a |-> I(5)])}, v \in Values, w \in {Null, EmptyBytes} \union {d \in Nested : d[1] = "dict"}}
=============================================================================
