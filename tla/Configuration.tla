--------------------------- MODULE Configuration ---------------------------
(***************************************************************************)
(* A connector's configuration (config.py, _batch.py, Specify, Configure): *)
(* what the Specify RPC announces of a config class, what a host that      *)
(* believes it sends, and what Configure makes of that.  The host is       *)
(* external: it checks a config against the announced parameters.          *)
(*                                                                         *)
(* A text is <<"absent">>, <<"empty">>, <<"word", w>>, <<"number", n>> or  *)
(* <<"duration", d>>; a value is None, a text, <<"bool", "True" or         *)
(* "False">>, <<"number", n>> or <<"timedelta", n>>, in nanoseconds.  The  *)
(* number of a float counts half _FLOAT_BOUNDARY_EPSILONs.                 *)
(***************************************************************************)
EXTENDS GoDuration, FiniteSets

CONSTANTS
  Classes,      \* config classes: sequences of fields, in declaration order
  Requests(_),  \* configs a host may send for a class: a text for each of its
                \* fields, and one for each of the batch keys
  Bits,         \* of a float's significand
  MaxCalls      \* bound on Configure calls

ASSUME BoundsAssumption == Bits \in Nat \ {0} /\ MaxCalls \in Nat

None == <<"none">>
Bad == <<"bad">>
Absent == <<"absent">>
Empty == <<"empty">>

\* What a host can write: see WellFormed for a duration.
IsText(text) ==
  CASE text[1] = "word" -> text = <<"word", text[2]>>
    [] text[1] = "number" -> text = <<"number", text[2]>> /\ text[2] \in Int
    [] text[1] = "duration" -> text = <<"duration", text[2]>> /\ WellFormed(text[2])
    [] OTHER -> text \in {Absent, Empty}

ASSUME TextsAssumption ==
  \A c \in Classes : \A r \in Requests(c) :
    IsText(r.size) /\ IsText(r.delay) /\ \A i \in DOMAIN c : IsText(r.fields[i])

\* Bounds and defaults are values of the field's own type: a float is one that
\* exists, a timedelta is a whole number of microseconds.
IsNumber(f, n) ==
  /\ n \in Int
  /\ f.kind = "float" => RoundTo(Bits, n) = n
  /\ f.kind = "duration" => n % Micro = 0

IsBool(value) == value \in {<<"bool", "True">>, <<"bool", "False">>}

\* Members of a Literal.
IsMember(m) == IsBool(m) \/ (m[1] \in {"word", "number"} /\ IsText(m))

\* What an author may declare.
IsField(f) ==
  /\ f.kind \in {"string", "bool", "int", "float", "duration", "literal"}
  /\ f.required \in BOOLEAN /\ (f.required => f.default = None)
  /\ f.kind = "literal" <=> f.members # {}
  /\ \A m \in f.members : IsMember(m)
  /\ f.default # None =>
       CASE f.kind = "string" -> f.default # Absent /\ IsText(f.default)
         [] f.kind = "bool" -> IsBool(f.default)
         [] f.kind \in {"int", "float"} ->
              f.default = <<"number", f.default[2]>> /\ IsNumber(f, f.default[2])
         [] f.kind = "duration" ->
              f.default = <<"timedelta", f.default[2]>> /\ IsNumber(f, f.default[2])
         [] f.kind = "literal" -> IsMember(f.default)
  /\ \A c \in f.constraints :
       /\ c = [op |-> c.op, at |-> c.at]
       /\ CASE f.kind = "string" -> c.op = "pattern"
            [] f.kind \in {"int", "float", "duration"} ->
                 c.op \in {"gt", "lt", "ge", "le"} /\ IsNumber(f, c.at)
            [] OTHER -> FALSE

ASSUME ClassesAssumption ==
  \A c \in Classes : DOMAIN c \subseteq Nat \ {0} /\ \A i \in DOMAIN c : IsField(c[i])

VARIABLES
  class,      \* the author's BaseConfig
  announced,  \* parameters of the class, in its order
  phase,      \* "start", "ready", "sent", "configuring", "answered" or "failed"
  request,    \* the config last sent
  answer,     \* to it: "none", "ok", "invalid" (INVALID_ARGUMENT), "unknown", or
              \* "raised", which is UNKNOWN as well: configure() raised
  named,      \* the keys that the detail of an "invalid" names
  batch,      \* _batch_config
  handed,     \* the config configure() was called with last
  calls

vars == <<class, announced, phase, request, answer, named, batch, handed, calls>>

\* Keys of a config: the fields by their place, sdk.batch.*, and "<root>".
Size == 0
Delay == -1
Root == -2

NoBatch == [size |-> 0, delay |-> 0]
Truth == {"True", "False", "true", "false"}
Capital(w) == IF w \in {"True", "true"} THEN "True" ELSE "False"

\* A text read as a value of one of the wire's types.
Read(type, text) ==
  CASE type = "string" -> text
    [] type = "bool" /\ text[1] = "word" -> IF text[2] \in Truth THEN <<"bool", Capital(text[2])>> ELSE Bad
    [] type = "int" /\ text[1] = "number" -> text
    [] type = "float" /\ text[1] = "number" -> <<"number", RoundTo(Bits, text[2])>>
    [] type = "duration" /\ text[1] = "duration" -> <<"timedelta", InNs(text[2])>>
    [] type = "duration" /\ text = <<"number", 0>> -> <<"timedelta", 0>>
    [] OTHER -> Bad

Holds(c, value) ==
  CASE c.op = "gt" -> value[2] > c.at
    [] c.op = "lt" -> value[2] < c.at
    [] c.op = "ge" -> value[2] >= c.at
    [] c.op = "le" -> value[2] <= c.at
    [] c.op = "pattern" -> value \in c.at

---------------------------------------------------------------------------
(* to_parameters.                                                          *)

\* _resolve_type.
TypeOf(f) ==
  IF f.kind # "literal" THEN f.kind
  ELSE IF \A m \in f.members : m[1] = "bool" THEN "bool"
  ELSE IF \A m \in f.members : m[1] \in {"bool", "number"} THEN "int"
  ELSE "string"

Epsilon(f) == CASE f.kind = "float" -> 2 [] f.kind = "duration" -> Micro [] OTHER -> 1

MutantAnnouncedBound(f, c) ==
  LET Float(n) == IF f.kind = "float" THEN RoundTo(Bits, n) ELSE n
  IN  CASE c.op = "ge" /\ f.kind # "duration" -> [op |-> "gt", at |-> Float(c.at - Epsilon(f))]
        [] c.op = "ge" -> [op |-> "gt", at |-> c.at]
        [] c.op = "le" -> [op |-> "lt", at |-> Float(c.at + Epsilon(f))]
        [] OTHER -> c

\* _approximate_ge_as_gt, _approximate_le_as_lt: an inclusive bound becomes an
\* exclusive one next to it.
AnnouncedBound(f, c) ==
  LET Float(n) == IF f.kind = "float" THEN RoundTo(Bits, n) ELSE n
  IN  CASE c.op = "ge" -> [op |-> "gt", at |-> Float(c.at - Epsilon(f))]
        [] c.op = "le" -> [op |-> "lt", at |-> Float(c.at + Epsilon(f))]
        [] OTHER -> c

\* _constraint_validations, _format_bound: durations in Go's syntax.
Validations(f) ==
  {IF f.kind = "duration" THEN [c EXCEPT !.at = InNs(FormatDuration(c.at \div Micro))] ELSE c :
     c \in {AnnouncedBound(f, c) : c \in f.constraints}}

\* A member of a Literal is announced as str() makes it,
Str(member) == IF member[1] = "bool" THEN <<"word", member[2]>> ELSE member

\* and a default as _format_default does; there is none when the field is
\* required or its default is None.
DefaultText(f) ==
  CASE f.required \/ f.default = None -> Empty
    [] f.default = <<"bool", "True">> -> <<"word", "true">>
    [] f.default = <<"bool", "False">> -> <<"word", "false">>
    [] f.default[1] = "timedelta" -> <<"duration", FormatDuration(f.default[2] \div Micro)>>
    [] OTHER -> f.default

Parameter(f) ==
  [type |-> TypeOf(f), required |-> f.required, default |-> DefaultText(f),
   inclusion |-> {Str(m) : m \in f.members}, validations |-> Validations(f)]

\* sdk_batch_parameters, merged into those of every connector.
BatchParameters ==
  [size |-> [type |-> "int", required |-> FALSE, default |-> <<"number", 0>>, inclusion |-> {},
             validations |-> {[op |-> "gt", at |-> -1]}],
   delay |-> [type |-> "duration", required |-> FALSE,
              default |-> <<"duration", FormatDuration(0)>>, inclusion |-> {},
              validations |-> {}]]

---------------------------------------------------------------------------
(* The host: a key it leaves out, or empty, has its announced default.     *)

HostReads(p, text) ==
  LET value == Read(p.type, text)
  IN  IF text \in {Absent, Empty}
        THEN IF p.required THEN Bad
             ELSE IF p.default = Empty THEN None ELSE Read(p.type, p.default)
        ELSE IF /\ value # Bad
                /\ p.inclusion # {} => text \in p.inclusion
                /\ \A c \in p.validations : Holds(c, value)
               THEN value ELSE Bad

---------------------------------------------------------------------------
(* Configure.                                                              *)

\* parse_go_duration: a bare "0" is a duration too.
IsDuration(text) == text[1] = "duration" \/ text = <<"number", 0>>
Us(text) == IF text[1] = "duration" THEN ParseDuration(text[2]) ELSE 0
TooLong(text) == text[1] = "duration" /\ Overflows(text[2])

\* extract_batch_config.  An empty text is none.
Given(text) == text \notin {Absent, Empty}
BadSize == Given(request.size) /\ (Read("int", request.size) = Bad \/ request.size[2] < 0)
BadDelay == Given(request.delay) /\ (~IsDuration(request.delay) \/ Us(request.delay) < 0)

MutantBatchFaults ==
  {k \in {Size, Delay} : IF k = Size THEN BadSize ELSE ~BadSize /\ BadDelay}

BatchFaults == {k \in {Size, Delay} : IF k = Size THEN BadSize ELSE BadDelay}

BatchConfig ==
  [size |-> IF Given(request.size) THEN request.size[2] ELSE 0,
   delay |-> IF Given(request.delay) THEN Us(request.delay) ELSE 0]

\* model_validate.  Durations are parsed ahead of it, in declaration order;
\* str() makes no bool and no number of a Literal's text.
Unparsed == {i \in DOMAIN class : /\ class[i].kind = "duration" /\ request.fields[i] # Absent
                                  /\ ~IsDuration(request.fields[i]) \/ TooLong(request.fields[i])}

FirstUnparsed == request.fields[CHOOSE i \in Unparsed : \A j \in Unparsed : i <= j]

Validated(f, text) ==
  LET value == CASE f.kind = "duration" -> <<"timedelta", Us(text) * Micro>>
                 [] f.kind = "literal" -> IF text[1] = "word" /\ text \in f.members
                                            THEN text ELSE Bad
                 [] OTHER -> Read(f.kind, text)
  IN  IF text = Absent
        THEN IF f.required THEN Bad ELSE f.default
        ELSE IF value # Bad /\ \A c \in f.constraints : Holds(c, value) THEN value ELSE Bad

Config == [i \in DOMAIN class |-> Validated(class[i], request.fields[i])]
FieldFaults == {i \in DOMAIN class : Config[i] = Bad}

MutantRejected(how, keys) ==
  /\ answer' = how /\ named' = keys /\ phase' = "answered"
  /\ batch' = IF how = "invalid" /\ BatchFaults = {} THEN BatchConfig ELSE batch
  /\ UNCHANGED handed

Rejected(how, keys) ==
  /\ answer' = how /\ named' = keys /\ phase' = "answered"
  /\ UNCHANGED <<batch, handed>>

\* An OverflowError is no validation error: the RPC fails with UNKNOWN.
Configure ==
  /\ phase = "sent"
  /\ CASE TooLong(request.delay) -> Rejected("unknown", {})
       [] ~TooLong(request.delay) /\ BatchFaults # {} -> Rejected("invalid", BatchFaults)
       [] OTHER ->
            IF Unparsed # {}
              THEN IF TooLong(FirstUnparsed) THEN Rejected("unknown", {})
                                             ELSE Rejected("invalid", {Root})
              ELSE IF FieldFaults # {}
                     THEN Rejected("invalid", FieldFaults)
                     ELSE /\ batch' = BatchConfig /\ handed' = Config
                          /\ phase' = "configuring" /\ UNCHANGED <<answer, named>>
  /\ UNCHANGED <<class, announced, request, calls>>

\* The connector's own configure().
ConfigureEnds ==
  /\ phase = "configuring"
  /\ phase' = "answered"
  /\ answer' \in {"ok", "raised"}
  /\ UNCHANGED <<class, announced, request, named, batch, handed, calls>>

---------------------------------------------------------------------------
Init ==
  /\ class \in Classes
  /\ announced = <<>> /\ phase = "start" /\ request = None
  /\ answer = "none" /\ named = {}
  /\ batch = NoBatch /\ handed = None
  /\ calls = 0

\* _build_plugin_server; a field that asks for an exclusion ends it with
\* NotImplementedError.
BuildServer ==
  /\ phase = "start"
  /\ IF \E i \in DOMAIN class : class[i].exclusion
       THEN phase' = "failed" /\ UNCHANGED announced
       ELSE phase' = "ready" /\ announced' = [i \in DOMAIN class |-> Parameter(class[i])]
  /\ UNCHANGED <<class, request, answer, named, batch, handed, calls>>

\* The host sends a config, and another one after an answer.
Send ==
  /\ phase \in {"ready", "answered"}
  /\ calls < MaxCalls
  /\ calls' = calls + 1
  /\ request' \in Requests(class)
  /\ phase' = "sent" /\ answer' = "none" /\ named' = {}
  /\ UNCHANGED <<class, announced, batch, handed>>

Next == BuildServer \/ Send \/ Configure \/ ConfigureEnds

Spec == Init /\ [][Next]_vars

---------------------------------------------------------------------------
(* Properties.                                                             *)

\* The texts of a field on which announcement and validation are known to part:
\* an empty one, which the connector takes for a value, and none where that is
\* the default, which is announced as no default; a member of a Literal that is
\* no str, and none where the default is not of the announced type; a float
\* within the nudge of an inclusive bound, or at it where the nudge is lost in
\* rounding; a duration finer than a microsecond or longer than a timedelta.
Within(f, c, value) ==
  LET at == AnnouncedBound(f, c).at
  IN  /\ c.op \in {"ge", "le"}
      /\ \/ value = c.at /\ at = c.at
         \/ at < value /\ value < c.at
         \/ c.at < value /\ value < at

PartsFrom(f, text) ==
  \/ text = Empty \/ (text = Absent /\ f.default = Empty)
  \/ f.kind = "literal" /\ \E m \in f.members : m[1] # "word" /\ text = Str(m)
  \/ /\ f.kind = "literal" /\ text = Absent /\ f.default # None
     /\ TypeOf(f) # TypeOf([f EXCEPT !.members = {f.default}])
  \/ /\ f.kind = "float" /\ Read("float", text) # Bad
     /\ \E c \in f.constraints : Within(f, c, Read("float", text)[2])
  \/ /\ f.kind = "duration" /\ text[1] = "duration"
     /\ InNs(text[2]) % Micro # 0 \/ TooLong(text)

HostView ==
  [fields |-> [i \in DOMAIN class |-> HostReads(announced[i], request.fields[i])],
   size |-> HostReads(BatchParameters.size, request.size),
   delay |-> HostReads(BatchParameters.delay, request.delay)]

\* sdk.batch.delay parts in those durations too, and, as no bound is announced
\* for it, when it is negative.
DelayParts ==
  /\ request.delay[1] = "duration"
  /\ \/ InNs(request.delay[2]) % Micro # 0
     \/ InNs(request.delay[2]) < 0
     \/ TooLong(request.delay)

\* What Specify announces is what Configure enforces: a config whose every key
\* satisfies the announced parameters is accepted, one with a key that does not
\* is refused, and the connector is given the values the host reads, the
\* announced default for a key left out.  Only the texts above are excepted.
AnnouncedIsEnforced ==
  /\ phase = "configuring" =>
       /\ \A i \in DOMAIN class :
            handed[i] = HostView.fields[i] \/ PartsFrom(class[i], request.fields[i])
       /\ HostView.size = <<"number", batch.size>>
       /\ HostView.delay = <<"timedelta", batch.delay * Micro>> \/ DelayParts
  /\ answer \in {"invalid", "unknown"} =>
       \/ \E i \in DOMAIN class : HostView.fields[i] = Bad \/ PartsFrom(class[i], request.fields[i])
       \/ HostView.size = Bad \/ HostView.delay = Bad \/ DelayParts

\* INVALID_ARGUMENT names keys that are at fault, and all of them ("both fields
\* are checked", "exhaustive"); but the batch keys are reported without the
\* others, and a duration that does not parse without anything, not even its key.
RejectionIsActionable ==
  answer = "invalid" =>
    /\ named # {}
    /\ named \ {Size, Delay, Root} \subseteq FieldFaults
    /\ Size \in named <=> HostView.size = Bad
    /\ Delay \in named <=> \/ HostView.delay = Bad
                           \/ HostView.delay[2] < 0 /\ Us(request.delay) # 0
    /\ named \intersect {Size, Delay} = {} /\ Unparsed = {} => named = FieldFaults
    /\ Root \in named => Unparsed # {}

\* A refused config changes nothing: the batch config stays the one that came
\* with the config the connector was given last, so that no Run batches by a
\* request that Configure refused.
RefusedChangesNothing ==
  [][answer' \in {"invalid", "unknown"} => UNCHANGED <<batch, handed>>]_vars
=============================================================================
