---------------------------- MODULE MCArgsCodec ------------------------------
(***************************************************************************)
(* ArgsCodec on calls of one to three arguments.  A byte has 16 values, a  *)
(* count or offset two bytes, a text's length and a limb one.               *)
(***************************************************************************)
EXTENDS ArgsCodec

Arg(t, v) == [t |-> t, v |-> v]

Uint(w) == [k |-> "uint", w |-> w]
Sint(w) == [k |-> "int", w |-> w]
Bool == [k |-> "bool"]
Enum == [k |-> "enum"]
Fixed(w) == [k |-> "fixed", w |-> w]
String == [k |-> "string"]
Bigint == [k |-> "bigint"]
Token == [k |-> "token"]
Array(t) == [k |-> "array", of |-> t]
Map(key, val) == [k |-> "map", key |-> key, val |-> val]
Struct(ts) == [k |-> "struct", of |-> ts]

Coins(id, amount) == [id |-> id, amount |-> amount]

(* Values at the edges of each type, and one just over some of them.        *)
Scalars ==
  { Arg(Uint(2), 0), Arg(Uint(2), 255), Arg(Uint(2), 256),
    Arg(Sint(1), -8), Arg(Sint(1), 7), Arg(Sint(1), 8),
    Arg(Bool, TRUE), Arg(Enum, 17), Arg(Fixed(3), <<9, 0, 15>>), Arg(Fixed(3), <<9>>),
    Arg(String, <<>>), Arg(String, <<1, 7>>),
    Arg(Bigint, 0), Arg(Bigint, -15), Arg(Bigint, 16), Arg(Bigint, -300),
    Arg(Token, Coins(3, 0)), Arg(Token, Coins(0, 20)), Arg([k |-> "struct<"], 0) }

Containers ==
  { Arg(Array(Uint(1)), <<>>), Arg(Array(Uint(1)), <<3, 0>>),
    Arg(Array(String), <<>>), Arg(Array(String), <<<<>>, <<4>>>>),
    Arg(Array(Bigint), <<0, -300, 5>>),
    Arg(Array(Array(String)), <<<<>>, <<<<2>>, <<>>>>>>),
    Arg(Map(Uint(1), Bool), <<<<1, TRUE>>, <<2, FALSE>>>>),
    Arg(Map(String, Bigint), <<<<<<1>>, 0>>, <<<<2>>, 7>>>>),
    Arg(Map(String, Array(Uint(1))), <<>>),
    Arg(Map(Bigint, Bool), <<<<0, TRUE>>, <<9, FALSE>>>>),
    Arg(Map(Bigint, String), <<<<0, <<5>>>>>>),
    Arg(Struct(<<>>), <<>>),
    Arg(Struct(<<Uint(1), String, Token>>), <<3, <<4>>, Coins(1, 0)>>),
    Arg(Struct(<<Array(Token), Map(String, String)>>),
        <<<<Coins(2, 0), Coins(2, -9)>>, <<<<<<1>>, <<>>>>>>>>),
    Arg(Struct(<<Bool, Bool>>), <<TRUE>>) }

CallOf(as) == [sig |-> [i \in DOMAIN as |-> as[i].t], args |-> [i \in DOMAIN as |-> as[i].v]]

MCCalls ==
  {CallOf(<<a, b>>) : a, b \in Scalars \cup Containers}
    \cup {CallOf(<<a, b, c>>) : a, c \in {Arg(Bigint, 16), Arg(String, <<1, 7>>), Arg(Uint(2), 255)},
                               b \in Containers}

(* How the elements of containers are written, read and judged.  With LET, *)
(* TLC's coverage does not unfold the recursion without end.                *)
MCSerialize(t, v) == LET bytes == serialize_value(t, v) IN bytes
MCDeserialize(t, bytes, from) == LET reading == deserialize_value(t, bytes, from) IN reading
MCRestorable(t, v) == LET verdict == RestorableValue(t, v) IN verdict

(* The types of all calls and what they are made of, and how deep they nest.*)
MCTypes ==
  LET RECURSIVE Within(_)
      Within(t) == {t} \cup UNION {Within(p) : p \in PartsOf(t)}
  IN UNION {Within(a.t) : a \in Scalars \cup Containers \cup {Arg(Fixed(n), 0) : n \in {255, 256}}}

MCDepth ==
  LET RECURSIVE Nested(_)
      Nested(t) == IF PartsOf(t) = {} THEN 0
                   ELSE 1 + CHOOSE d \in 0 .. 9 :
                              /\ \E p \in PartsOf(t) : Nested(p) = d
                              /\ \A p \in PartsOf(t) : Nested(p) <= d
  IN [t \in MCTypes |-> Nested(t)]

=============================================================================
