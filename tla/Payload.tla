------------------------------ MODULE Payload ------------------------------
(***************************************************************************)
(* A record's data from the connector that makes it to the connector that  *)
(* reads it: AvroSchema.encode (schema.py), the schema references in the   *)
(* metadata (record.py), the conversions to the wire and back              *)
(* (adapters.py), AvroSchema.decode.  The Avro codec and protobuf's Struct *)
(* are external; encoded bytes are the schema and the value they stand for.*)
(*                                                                         *)
(* A value is a tagged pair: <<"null">>, <<"bool", b>>, <<"int", n>>,      *)
(* <<"float", n>>, <<"str", w>>, <<"bytes", w>>, <<"list", seq>>,          *)
(* <<"dict", function>>, <<"datetime", n>> or <<"encoded", schema, v>>.    *)
(* Numbers count halves: an odd one is no integer.                         *)
(***************************************************************************)
EXTENDS Numbers, Sequences, FiniteSets

CONSTANTS
  Originals,     \* records a connector may mean to send: the data of their
                 \* slots, and the schemas of the key and of the payload
  NamedSchemas,  \* schemas by name, for references
  Single,        \* bits in the significand of a float
  Double,        \* and of a double
  IntMax,        \* largest int and long, in halves
  LongMax,
  Octets         \* by the content of bytes, the sequence of its octets, as ints

ASSUME NumbersAssumption == {Single, Double, IntMax, LongMax} \subseteq Nat

Null == <<"null">>
NoSchema == <<"none">>
NoDefault == <<"no default">>
EmptyBytes == <<"bytes", "">>
Slots == {"key", "before", "after"}
Side(slot) == IF slot = "key" THEN "key" ELSE "payload"

VARIABLES
  original,  \* [schema, data] of the record the connector means to send
  stage,     \* "make", "made", "wire", "arrived", "read" or "raised"
  metadata,  \* the schema that opencdc.{key,payload}.schema.* refer to
  record,    \* by slot, the Data of a Record
  wire,      \* by slot, the opencdc.Data message
  read       \* by slot, what the other connector reads

vars == <<original, stage, metadata, record, wire, read>>

---------------------------------------------------------------------------
(* Schemas: <<primitive>>, <<"logical", primitive>>, <<"union", branches>>, *)
(* <<"record", fields>>, <<"array", s>>, <<"map", s>>, <<"enum", symbols>>, *)
(* <<"fixed", contents of that size>>; a name refers to NamedSchemas.       *)

Floating == {"float", "double"}
Rounded(type, n) == RoundTo(IF type = "float" THEN Single ELSE Double, n)

InRange(n, max) == -max - 2 <= n /\ n <= max

MutantFits(type, v) ==
  CASE type \in {"int", "long"} -> v[1] \in {"int", "bool"}
    [] type \in Floating -> v[1] \in {"int", "float"}
    [] type = "boolean" -> v[1] = "bool"
    [] type = "string" -> v[1] = "str"
    [] type = "bytes" -> v[1] \in {"bytes", "encoded"}
    [] type = "null" -> v = Null

\* _validate_primitive: the exact Python type, and the range of an integer.
Fits(type, v) ==
  CASE type \in {"int", "long"} -> /\ v[1] = "int"
                                   /\ InRange(v[2], IF type = "int" THEN IntMax ELSE LongMax)
    [] type \in Floating -> v[1] = "float"
    [] type = "boolean" -> v[1] = "bool"
    [] type = "string" -> v[1] = "str"
    [] type = "bytes" -> v[1] \in {"bytes", "encoded"}
    [] type = "null" -> v = Null

Names(fields) == {fields[i].name : i \in DOMAIN fields}
Present(fields, v) == {i \in DOMAIN fields : fields[i].name \in DOMAIN v[2]}

\* _resolve_named.
IsNamed(s) == s[1] \in DOMAIN NamedSchemas
Resolved(s) == NamedSchemas[s[1]]

\* _validate_value and _validate_record; a branch that raises is passed over.
RECURSIVE Valid(_, _)
Valid(s, v) ==
  CASE s[1] = "union" -> \E i \in DOMAIN s[2] : Valid(s[2][i], v)
    [] s[1] = "record" ->
         /\ v[1] = "dict"
         /\ DOMAIN v[2] \subseteq Names(s[2])
         /\ \A i \in DOMAIN s[2] :
              IF i \in Present(s[2], v) THEN Valid(s[2][i].type, v[2][s[2][i].name])
                                        ELSE s[2][i].default # NoDefault
    [] s[1] = "array" -> v[1] = "list" /\ \A i \in DOMAIN v[2] : Valid(s[2], v[2][i])
    [] s[1] = "map" -> v[1] = "dict" /\ \A k \in DOMAIN v[2] : Valid(s[2], v[2][k])
    [] s[1] = "enum" -> v[1] = "str" /\ v[2] \in s[2]
    [] s[1] = "fixed" -> v[1] = "bytes" /\ v[2] \in s[2]
    [] s[1] = "logical" -> Fits(s[2], v)
    [] IsNamed(s) -> Valid(Resolved(s), v)
    [] OTHER -> Fits(s[1], v)

---------------------------------------------------------------------------
(* The codec.  What it takes for a branch of a union is laxer than what    *)
(* the SDK accepts: an int passes for a float, bytes for an array of ints, *)
(* unknown keys are ignored, and a field that is left out for None.        *)

FieldValue(f, v) ==
  CASE f.name \in DOMAIN v[2] -> v[2][f.name]
    [] f.default # NoDefault   -> f.default
    [] OTHER                   -> Null

Items(v) == IF v[1] = "bytes" THEN Octets[v[2]] ELSE v[2]

RECURSIVE Taken(_, _)
Taken(s, v) ==
  CASE s[1] = "union" -> \E i \in DOMAIN s[2] : Taken(s[2][i], v)
    [] s[1] = "record" -> /\ v[1] = "dict"
                          /\ \A i \in DOMAIN s[2] : Taken(s[2][i].type, FieldValue(s[2][i], v))
    [] s[1] = "array" -> /\ v[1] \in {"list", "bytes"}
                         /\ \A i \in DOMAIN Items(v) : Taken(s[2], Items(v)[i])
    [] s[1] = "map" -> v[1] = "dict" /\ \A k \in DOMAIN v[2] : Taken(s[2], v[2][k])
    [] s[1] \in Floating -> v[1] \in {"int", "float"}
    [] IsNamed(s) -> Taken(Resolved(s), v)
    [] OTHER -> Valid(s, v)

\* The first branch that takes the value and is no record, a double before a
\* float; if there is none, the record with the most of the value's keys.
Branch(branches, v) ==
  LET full(i) == IF IsNamed(branches[i]) THEN Resolved(branches[i]) ELSE branches[i]
      takers  == {i \in DOMAIN branches : Taken(branches[i], v)}
      records == {i \in takers : full(i)[1] = "record"}
      keys(i) == Cardinality(Present(full(i)[2], v))
      best    == {i \in records : \A j \in records : keys(j) <= keys(i)}
      first(S) == CHOOSE i \in S : \A j \in S : i <= j
      plain   == first(takers \ records)
      double  == {i \in takers : branches[i] = <<"double">>}
  IN  CASE takers = records -> first(best)
        [] branches[plain] = <<"float">> /\ double # {} -> first(double)
        [] OTHER -> plain

\* The value that is read from what schemaless_writer wrote: a float is cut to
\* an integer, True is 1, a logical type comes back as what it stands for.
Whole(v) ==
  IF v[1] = "bool" THEN IF v[2] THEN 2 ELSE 0
  ELSE IF v[2] >= 0 THEN v[2] - (v[2] % 2)
  ELSE v[2] + (v[2] % 2)

RECURSIVE Coded(_, _)
Coded(s, v) ==
  CASE s[1] = "union" -> Coded(s[2][Branch(s[2], v)], v)
    [] s[1] = "record" ->
         <<"dict", [n \in Names(s[2]) |->
            LET f == s[2][CHOOSE i \in DOMAIN s[2] : s[2][i].name = n]
            IN  Coded(f.type, FieldValue(f, v))]>>
    [] s[1] = "array" -> <<"list", [i \in DOMAIN Items(v) |-> Coded(s[2], Items(v)[i])]>>
    [] s[1] = "map" -> <<"dict", [k \in DOMAIN v[2] |-> Coded(s[2], v[2][k])]>>
    [] s[1] = "logical" -> <<"datetime", v[2]>>
    [] s[1] \in {"int", "long"} -> <<"int", Whole(v)>>
    [] s[1] \in Floating -> <<"float", Rounded(s[1], v[2])>>
    [] IsNamed(s) -> Coded(Resolved(s), v)
    [] OTHER -> v

\* protobuf's Struct: numbers are doubles, bytes are refused.
RECURSIVE Structurable(_), Structured(_)
Structurable(v) ==
  CASE v[1] \in {"dict", "list"} -> \A k \in DOMAIN v[2] : Structurable(v[2][k])
    [] OTHER -> v[1] \notin {"bytes", "encoded", "datetime"}

Structured(v) ==
  CASE v[1] \in {"dict", "list"} -> <<v[1], [k \in DOMAIN v[2] |-> Structured(v[2][k])]>>
    [] v[1] \in {"int", "float"} -> <<"float", Rounded("double", v[2])>>
    [] OTHER -> v

---------------------------------------------------------------------------
(* The path of a record.                                                   *)

Init ==
  /\ original \in Originals
  /\ stage = "make"
  /\ metadata = [side \in {"key", "payload"} |-> NoSchema]
  /\ record = [s \in Slots |-> Null] /\ wire = record /\ read = record

Schema(slot) == original.schema[Side(slot)]
Sent(slot) == original.data[slot]
Avro == {s \in Slots : Schema(s) # NoSchema /\ Sent(s) # Null}

Raise == stage' = "raised" /\ UNCHANGED <<original, metadata, record, wire, read>>

\* AvroSchema.encode: a record schema, a dict, and the validation.
Encodable(schema, v) == schema[1] = "record" /\ v[1] = "dict" /\ Valid(schema, v)

\* The connector encodes what has a schema and refers to it with
\* set_key_schema and set_payload_schema.
Make ==
  /\ stage = "make"
  /\ IF \A s \in Avro : Encodable(Schema(s), Sent(s))
       THEN /\ record' = [s \in Slots |->
                 IF s \in Avro THEN <<"encoded", Schema(s), Coded(Schema(s), Sent(s))>> ELSE Sent(s)]
            /\ metadata' = original.schema
            /\ stage' = "made"
            /\ UNCHANGED <<original, wire, read>>
       ELSE Raise

\* _data_to_proto, _data_to_proto_optional: None sets no branch of the oneof,
\* but a key is not optional, and Struct.update(None) raises.
Convertible(slot, v) == /\ v = Null => slot # "key"
                        /\ v[1] = "dict" => Structurable(v)

DataToProto(v) ==
  CASE v = Null -> <<"unset">>
    [] v[1] \in {"bytes", "encoded"} -> <<"raw", v>>
    [] OTHER -> <<"structured", Structured(v)>>

\* record_to_proto.
ToProto ==
  /\ stage = "made"
  /\ IF \A s \in Slots : Convertible(s, record[s])
       THEN /\ wire' = [s \in Slots |-> DataToProto(record[s])]
            /\ stage' = "wire"
            /\ UNCHANGED <<original, metadata, record, read>>
       ELSE Raise

\* _data_from_proto, _data_from_proto_optional: there is always some key.
DataFromProto(slot, data) ==
  CASE data[1] = "unset" -> IF slot = "key" THEN EmptyBytes ELSE Null
    [] OTHER -> data[2]

\* record_from_proto, in the other connector.
FromProto ==
  /\ stage = "wire"
  /\ record' = [s \in Slots |-> DataFromProto(s, wire[s])]
  /\ stage' = "arrived"
  /\ UNCHANGED <<original, metadata, wire, read>>

\* get_key_schema, get_payload_schema, AvroSchema.decode.
Decode ==
  /\ stage = "arrived"
  /\ read' = [s \in Slots |-> IF /\ metadata[Side(s)] # NoSchema
                                 /\ record[s][1] = "encoded" /\ record[s][2] = metadata[Side(s)]
                                THEN record[s][3] ELSE record[s]]
  /\ stage' = "read"
  /\ UNCHANGED <<original, metadata, record, wire>>

Next == Make \/ ToProto \/ FromProto \/ Decode

Spec == Init /\ [][Next]_vars

---------------------------------------------------------------------------
(* Properties.                                                             *)

\* Python's ==, but for bools, which are no numbers here.
RECURSIVE Equal(_, _)
Equal(v, w) ==
  CASE v[1] \in {"int", "float"} -> w[1] \in {"int", "float"} /\ v[2] = w[2]
    [] v[1] \in {"list", "dict"} -> /\ w[1] = v[1] /\ DOMAIN v[2] = DOMAIN w[2]
                                    /\ \A k \in DOMAIN v[2] : Equal(v[2][k], w[2][k])
    [] OTHER -> v = w

\* What is read is what was sent: each key, item and value, and besides them
\* only the defaults that the schema gives to fields that were left out.
RECURSIVE Carries(_, _, _)
Carries(s, v, w) ==
  CASE s[1] = "union" -> \E i \in DOMAIN s[2] : Carries(s[2][i], v, w)
    [] s[1] = "record" ->
         /\ v[1] = "dict" /\ w[1] = "dict"
         /\ DOMAIN v[2] \subseteq Names(s[2]) /\ DOMAIN w[2] = Names(s[2])
         /\ \A i \in DOMAIN s[2] :
              LET f == s[2][i]
              IN  /\ i \in Present(s[2], v) \/ f.default # NoDefault
                  /\ Carries(f.type, FieldValue(f, v), w[2][f.name])
    [] s[1] \in {"array", "map"} ->
         /\ v[1] = (IF s[1] = "array" THEN "list" ELSE "dict") /\ w[1] = v[1]
         /\ DOMAIN v[2] = DOMAIN w[2]
         /\ \A k \in DOMAIN v[2] : Carries(s[2], v[2][k], w[2][k])
    [] IsNamed(s) -> Carries(Resolved(s), v, w)
    [] OTHER -> Equal(v, w)

\* What a schema is known not to keep: a number that a float, or a floating
\* branch of a union, has to round; a logical type, which is read as another
\* type than it was written; and, where the codec takes a branch of a union
\* that the SDK refuses, keys that it drops, None for a field that was left
\* out, and bytes that become a list.
RECURSIVE Keeps(_, _)
Keeps(s, v) ==
  CASE s[1] = "union" -> Keeps(s[2][Branch(s[2], v)], v)
    [] s[1] = "record" ->
         /\ DOMAIN v[2] \subseteq Names(s[2])
         /\ \A i \in DOMAIN s[2] : /\ i \in Present(s[2], v) \/ s[2][i].default # NoDefault
                                   /\ Keeps(s[2][i].type, FieldValue(s[2][i], v))
    [] s[1] \in {"array", "map"} -> /\ v[1] # "bytes"
                                    /\ \A k \in DOMAIN v[2] : Keeps(s[2], v[2][k])
    [] s[1] \in Floating -> Rounded(s[1], v[2]) = v[2]
    [] s[1] = "logical" -> FALSE
    [] IsNamed(s) -> Keeps(Resolved(s), v)
    [] OTHER -> TRUE

\* What one connector puts into a record is what the other reads, wherever it
\* is nested, with None, b"" and {} told apart, unless Make or ToProto raises.
\* Encoded data may be lost only as Keeps says, which is more than the
\* docstring of encode admits ("never a different value on the wire"); of
\* structured data, just the numbers that no double holds are lost.
DeliveredIsSent ==
  stage = "read" => \A s \in Slots :
    IF s \in Avro
      THEN Keeps(Schema(s), Sent(s)) => Carries(Schema(s), Sent(s), read[s])
      ELSE Equal(Structured(Sent(s)), Sent(s)) <=> Equal(read[s], Sent(s))
=============================================================================
