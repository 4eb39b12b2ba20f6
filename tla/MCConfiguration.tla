-------------------------- MODULE MCConfiguration --------------------------
(* Configuration for TLC: a thousand is 100, sixty is 6, floats have three  *)
(* bits.  Classes of one field of every kind, with bounds on either side of *)
(* where a float's nudge is lost, and of two fields that can both be wrong. *)
EXTENDS Configuration

Field(kind, required, default, constraints) ==
  [kind |-> kind, required |-> required, default |-> default, constraints |-> constraints,
   members |-> {}, exclusion |-> FALSE]
Required(kind, constraints) == Field(kind, TRUE, None, constraints)
Optional(kind, default, constraints) == Field(kind, FALSE, default, constraints)
Literal(default, members) ==
  [Field("literal", default = None, default, {}) EXCEPT !.members = members]
Is(op, at) == [op |-> op, at |-> at]
Word(w) == <<"word", w>>
Num(n) == <<"number", n>>
True == <<"bool", "True">>
Span(us) == <<"timedelta", us * Micro>>
Duration(ns) ==
  <<"duration", [negative |-> ns < 0, parts |-> <<Component(Magnitude(ns), <<>>, "ns")>>]>>

Defaults == {0, 1, -7, 99, 100, 105, 150, 199, 10000, 10001, 10100, 19010, 59999, 60000,
             60100, 123456, 359999, 360000, 365000, 420050, -360000, 789012}

Single ==
  {Required("string", {}), Optional("string", Word("a"), {Is("pattern", {Word("a"), Word("b")})}),
   Optional("string", None, {}), Optional("bool", True, {}),
   Required("bool", {}), Required("int", {Is("ge", 2), Is("lt", 8)}),
   Optional("int", Num(4), {Is("gt", 2), Is("le", 8)}),
   Required("float", {Is("ge", 4), Is("le", 5)}), Optional("float", Num(32), {Is("ge", 32)}),
   Optional("float", Num(8), {Is("gt", 4), Is("lt", 16)}), Optional("float", Num(16), {Is("le", 16)}),
   Required("duration", {Is("ge", 2 * Micro), Is("lt", 105 * Micro)}),
   Required("duration", {Is("gt", 2 * Micro), Is("le", 105 * Micro)}),
   Optional("duration", None, {}),
   Literal(None, {Word("a"), Word("b")}), Literal(Num(4), {Num(4), Num(5)}),
   Literal(True, {True}), Literal(Word("a"), {Word("a"), Num(4)}),
   Literal(True, {True, Word("a")}), Literal(True, {True, Num(1)}), Optional("string", Empty, {}),
   [Required("string", {}) EXCEPT !.exclusion = TRUE]}
  \union {Optional("duration", Span(us), {}) : us \in Defaults}

Pairs ==
  {<<Required("int", {}), Required("string", {})>>,
   <<Required("int", {Is("ge", 2)}), Required("duration", {})>>,
   <<Required("duration", {}), Optional("duration", Span(5), {})>>}

MCClasses == {<<f>> : f \in Single} \union Pairs

MCTexts ==
  {Absent, Empty, Word("a"), Word("b"), Word("true"), Word("True"), Word("no")}
    \union {Num(n) : n \in {-16, 0, 1, 2, 3, 4, 5, 6, 7, 8, 9, 14, 15, 16, 20, 28, 32}}
    \union {Duration(ns) : ns \in {-300, 100, 150, 199, 200, 201, 250, 350, 10450, 10500, 10501,
                                   10550, 10650, 200000000}}

MCSizes == {Absent, Empty, Num(-1), Num(0), Num(5), Word("a")}
MCDelays == {Absent, Empty, Num(0), Word("a"), Duration(-300), Duration(500), Duration(550),
             Duration(200000000)}

Request(fields, size, delay) == [fields |-> fields, size |-> size, delay |-> delay]

\* Every text with and without batching; every batch config with a few texts.
MCRequests(fields) ==
  LET Few == {Absent, Word("a"), Num(4), Duration(500), Duration(200000000)}
      All == IF Len(fields) = 1 THEN MCTexts ELSE Few
  IN  {Request(texts, Absent, Absent) : texts \in [DOMAIN fields -> All]}
        \union {Request(texts, Num(5), Duration(500)) : texts \in [DOMAIN fields -> Few]}
        \union {Request([i \in DOMAIN fields |-> text], size, delay) :
                   text \in {Absent, Num(4)}, size \in MCSizes, delay \in MCDelays}
=============================================================================
