------------------------------- MODULE MCValues -------------------------------
(***************************************************************************)
(* A message with a scalar, an optional, two members of a oneof, a message *)
(* of its own type, a list of bytes and a map of messages, behind columns  *)
(* of every kind and columns whose type and kind do and do not suit.       *)
(***************************************************************************)
EXTENDS PatchLiteral

CONSTANTS plain, opt, left, right, sub, list, map, choice, synth, k1, k2

MCField == {plain, opt, left, right, sub, list, map}
One(kind) == [card |-> "one", kind |-> kind, holds |-> "other"]
MCShape == [f \in MCField |->
    CASE f = plain -> One("bytes") [] f = opt -> One("int32") [] f = left -> One("string")
      [] f = right -> One("message") [] f = sub -> One("group")
      [] f = list -> [One("bytes") EXCEPT !.card = "list"]
      [] f = map -> [One("message") EXCEPT !.card = "map"]]
MCOneof == [f \in MCField |-> IF f \in {left, right} THEN choice ELSE IF f = opt THEN synth ELSE None]

Of(S, C, H, T) == {[shape |-> [card |-> c, kind |-> k, holds |-> h], type |-> t] :
                       k \in S, c \in C, h \in H, t \in T}
EveryCard == {"one", "list", "map"}
MCProps ==
    Of(Kind, {"one"}, {"other"}, {"unspecified"}) \cup
    Of({"bytes"}, EveryCard, {"other"}, {"unspecified", "uuid", "time"}) \cup
    Of({"string", "message"}, EveryCard, {"other"}, {"uuid", "json"}) \cup
    Of({"message"}, EveryCard, Holds, {"unspecified"})
=============================================================================
