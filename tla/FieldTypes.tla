------------------------------ MODULE FieldTypes ------------------------------
(***************************************************************************)
(* The types of a prop: the one its options declare or ormpb deduces, the  *)
(* category of storage it decays to, and the Go type gogen names for it.   *)
(***************************************************************************)
EXTENDS Naturals

Signed == {"int32", "sint32", "sfixed32", "int64", "sint64", "sfixed64"}
Unsigned == {"uint32", "fixed32", "uint64", "fixed64"}
Real == {"float", "double"}
Kind == {"bool", "enum", "string", "bytes", "message", "group"} \cup Signed \cup Unsigned \cup Real

\* The ORM types: one of the same name for each kind, and some of its own.
Type == Kind \cup {"unspecified", "time", "json", "uuid", "int", "uint"}

Holds == {"Timestamp", "other"}     \* the messages a field of message kind may hold

\* A field of a message.  kind is that of the field, of its elements, or of the values of a map.
FieldShape == [card : {"one", "list", "map"}, kind : Kind, holds : Holds]

\* A field whose orm.field declares a type, or none.
Declared == [shape : FieldShape, type : Type]

\* A map field is of message kind, like the entries it repeats.
FieldKind(f) == IF f.card = "map" THEN "message" ELSE f.kind

DeduceType(f) ==
    IF FieldKind(f) # "message" THEN FieldKind(f)
    ELSE IF f.card # "map" /\ f.holds = "Timestamp" THEN "time" ELSE "json"

TypeOf(d) == IF d.type = "unspecified" THEN DeduceType(d.shape) ELSE d.type

\* parseProp refuses one type, and does not ask whether the others suit the kind.
Accepted(d) == TypeOf(d) # "message"

Decay(t) ==
    CASE t \in Real -> "float"
      [] t \in Signed \cup {"enum"} -> "int"
      [] t \in Unsigned -> "uint"
      [] t \in {"message", "json", "time", "group"} -> "message"
      [] t = "uuid" -> "bytes"
      [] OTHER -> t

\* GoType: the type of the field, of an element of the list, or of the values of the map.
GoElem(f, t) ==
    CASE f.kind \in {"bool", "enum", "string"} -> f.kind
      [] f.kind \in {"int32", "sint32", "sfixed32"} -> "int32"
      [] f.kind \in {"int64", "sint64", "sfixed64"} -> "int64"
      [] f.kind \in {"uint32", "fixed32"} -> "uint32"
      [] f.kind \in {"uint64", "fixed64"} -> "uint64"
      [] f.kind = "float" -> "float32"
      [] f.kind = "double" -> "float64"
      [] f.kind = "bytes" -> IF t = "uuid" THEN "uuid.UUID" ELSE "[]byte"
      [] f.kind = "message" -> IF t = "time" THEN "time.Time" ELSE "struct"
      [] f.kind = "group" -> "panic"

\* The category of storage a Go type belongs to.
GoStorage(go) ==
    CASE go \in {"bool", "string"} -> go
      [] go \in {"enum", "int32", "int64"} -> "int"
      [] go \in {"uint32", "uint64"} -> "uint"
      [] go \in {"float32", "float64"} -> "float"
      [] go \in {"[]byte", "uuid.UUID"} -> "bytes"
      [] go \in {"time.Time", "struct"} -> "message"
=============================================================================
