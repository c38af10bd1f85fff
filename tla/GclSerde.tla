------------------------------ MODULE GclSerde -------------------------------
(***************************************************************************)
(* GclSerializer (utils/serializer.py).  A type is a record [k |-> kind]   *)
(* with a width w, element types of, key and val; data is a sequence of    *)
(* bytes and offsets count from 0, as in the code.  Exceptions are None.   *)
(* A dict is the sequence of its values (struct) or of its items (map);    *)
(* a text is its bytes.                                                     *)
(***************************************************************************)
EXTENDS Integers, Sequences, SequencesExt

CONSTANTS
  Base,         \* values of a byte: 256 in the code
  LenBytes,     \* width of counts and offsets: 4
  StrLenBytes,  \* width of the length of a text: 2
  LimbBytes,    \* width of a limb of a bigint, and of a token's id: 8
  None,         \* an exception, or Python's None
  Types,        \* the types in use, with those they are made of
  Depth,        \* of a type: a number that is smaller for what it is made of
  serialize(_, _),      \* serialize_value and deserialize_value below, as
  deserialize(_, _, _)  \* they call themselves for elements

Byte == 0 .. Base - 1

FixedKinds == {"uint", "int", "bool", "enum", "fixed"}
VariableKinds == {"array", "map", "struct", "string", "bigint", "token"}
IsVariable(t) == t.k \in VariableKinds

(* The types a type is made of.                                             *)
PartsOf(t) ==
  CASE t.k = "array"  -> {t.of}
    [] t.k = "map"    -> {t.key, t.val}
    [] t.k = "struct" -> ToSet(t.of)
    [] OTHER          -> {}

ASSUME SizesAreNat ==
  /\ Base \in Nat /\ Base >= 4 /\ Base % 2 = 0
  /\ {LenBytes, StrLenBytes, LimbBytes} \subseteq Nat \ {0}
ASSUME TypesAreNested ==
  /\ Depth \in [Types -> Nat]
  /\ \A t \in Types :
       /\ \A p \in PartsOf(t) : p \in Types /\ Depth[p] < Depth[t]
       /\ t.k \in {"uint", "int", "fixed"} => t.w \in Nat \ {0}
       /\ t.k = "struct" => t.of \in Seq(Types)
ASSUME NoneIsNoBytes == None \notin Seq(Byte)

-----------------------------------------------------------------------------
(* Numbers and bytes.                                                       *)

(* n without its w lowest digits: n >> w for base 2, by bytes for Base.     *)
Shifted(base, n, w) ==
  LET rest[i \in 0 .. w] == IF i = 0 THEN n ELSE rest[i - 1] \div base IN rest[w]

FaultyBytesOf(n, w) == [i \in 1 .. w |-> Shifted(Base, n, i - 1)]   \* no mask

(* n.to_bytes(w, 'little')                                                  *)
BytesOf(n, w) == [i \in 1 .. w |-> Shifted(Base, n, i - 1) % Base]

(* The number that the bytes spell below top.                               *)
Spelt(bytes, top) ==
  LET above[i \in 0 .. Len(bytes)] ==
        IF i = 0 THEN top ELSE bytes[Len(bytes) - i + 1] + Base * above[i - 1]
  IN above[Len(bytes)]

(* int.from_bytes, of which the signed one goes on with the sign bit.       *)
NumberOf(bytes) == Spelt(bytes, 0)
SignedOf(bytes) ==
  Spelt(bytes, IF bytes # <<>> /\ Last(bytes) >= Base \div 2 THEN -1 ELSE 0)

(* data[from:to], for offsets that are not negative                         *)
Slice(data, from, to) == SubSeq(data, from + 1, IF to <= Len(data) THEN to ELSE Len(data))

(* bytes.decode('utf-8'), on texts of one-byte characters                  *)
IsText(bytes) == \A b \in ToSet(bytes) : b < Base \div 2

AllSome(s) == None \notin ToSet(s)

-----------------------------------------------------------------------------
(* serialize.  A value of another class than the type's is refused.         *)

IsList(v) == Len(v) \in Nat /\ v = [i \in 1 .. Len(v) |-> v[i]]

(* Without bytes for a number that is negative or too large: TypeValidation-*)
(* Error, or OverflowError for a count or an offset.                         *)
serialize_uint(n, w) ==
  IF n \in Nat /\ Shifted(Base, n, w) = 0 THEN BytesOf(n, w) ELSE None

serialize_int(n, w) ==
  IF n \in Int /\ Shifted(Base, n, w - 1) \in -(Base \div 2) .. Base \div 2 - 1
  THEN BytesOf(n, w) ELSE None

serialize_fixed(v, w) == IF v \in Seq(Byte) /\ Len(v) = w THEN v ELSE None

serialize_string(s) ==
  IF s \in Seq(Byte) /\ IsText(s) /\ serialize_uint(Len(s), StrLenBytes) # None
  THEN serialize_uint(Len(s), StrLenBytes) \o s ELSE None

Magnitude(n) == IF n < 0 THEN -n ELSE n

MaxLimbs == Base \div 2 - 1
HasLimbs(n, c) == Shifted(Base, Magnitude(n), LimbBytes * c) = 0

serialize_bigint(n) ==
  IF n = 0 THEN <<0>> \o BytesOf(0, LimbBytes)
  ELSE IF n \in Int /\ HasLimbs(n, MaxLimbs)
  THEN LET count == CHOOSE c \in 1 .. MaxLimbs :
                      HasLimbs(n, c) /\ ~ HasLimbs(n, c - 1)
       IN <<count + (IF n < 0 THEN Base \div 2 ELSE 0)>>
            \o BytesOf(Magnitude(n), count * LimbBytes)
  ELSE None

serialize_token(v) ==
  IF serialize_uint(v.id, LimbBytes) # None /\ serialize_bigint(v.amount) # None
  THEN serialize_uint(v.id, LimbBytes) \o serialize_bigint(v.amount) ELSE None

(* Where element i ends, behind its offset table and the elements before.   *)
EndOf(parts, i) == Len(parts) * LenBytes + Len(FlattenSeq(SubSeq(parts, 1, i)))

FaultyOffsetTable(parts) ==   \* offsets from the first element
  [i \in DOMAIN parts |-> serialize_uint(EndOf(parts, i) - Len(parts) * LenBytes, LenBytes)]

(* The offset table: where each element ends, from the start of the table. *)
OffsetTable(parts) ==
  [i \in DOMAIN parts |-> serialize_uint(EndOf(parts, i), LenBytes)]

(* Elements behind an offset table if their type is variable.               *)
Elements(variable, parts) ==
  IF ~ AllSome(parts) THEN None
  ELSE IF ~ variable THEN FlattenSeq(parts)
  ELSE IF AllSome(OffsetTable(parts)) THEN FlattenSeq(OffsetTable(parts)) \o FlattenSeq(parts)
  ELSE None

Behind(head, rest) == IF head = None \/ rest = None THEN None ELSE head \o rest

serialize_array(t, v) ==
  IF ~ IsList(v) THEN None
  ELSE Behind(serialize_uint(Len(v), LenBytes),
              Elements(IsVariable(t.of), [i \in DOMAIN v |-> serialize(t.of, v[i])]))

serialize_map(t, v) ==
  IF ~ IsList(v) THEN None
  ELSE Behind(serialize_uint(Len(v), LenBytes),
              Behind(Elements(FALSE, [i \in DOMAIN v |-> serialize(t.key, v[i][1])]),
                     Elements(IsVariable(t.val), [i \in DOMAIN v |-> serialize(t.val, v[i][2])])))

(* The header of a struct is (count << 4) | 3.                              *)
serialize_struct(t, v) ==
  IF ~ IsList(v) THEN None
  ELSE IF Len(v) # Len(t.of) THEN None
  ELSE Behind(serialize_uint(16 * Len(v) + 3, LenBytes),
              Elements(TRUE, [i \in DOMAIN v |-> serialize(t.of[i], v[i])]))

serialize_value(t, v) ==
  CASE t.k = "uint"   -> serialize_uint(v, t.w)
    [] t.k = "enum"   -> serialize_uint(v, 2)
    [] t.k = "int"    -> serialize_int(v, t.w)
    [] t.k = "bool"   -> <<IF v THEN 1 ELSE 0>>
    [] t.k = "fixed"  -> serialize_fixed(v, t.w)
    [] t.k = "string" -> serialize_string(v)
    [] t.k = "bigint" -> serialize_bigint(v)
    [] t.k = "token"  -> serialize_token(v)
    [] t.k = "array"  -> serialize_array(t, v)
    [] t.k = "map"    -> serialize_map(t, v)
    [] t.k = "struct" -> serialize_struct(t, v)
    [] OTHER          -> None

-----------------------------------------------------------------------------
(* deserialize returns [v |-> value, next |-> offset after it].             *)

Read(v, next) == [v |-> v, next |-> next]
Enough(data, from, n) == Len(data) >= from + n
Number(data, from, w) == NumberOf(Slice(data, from, from + w))

deserialize_string(data, from) ==
  LET start == from + StrLenBytes
      end == start + Number(data, from, StrLenBytes)
  IN IF ~ Enough(data, from, StrLenBytes) THEN None
     ELSE IF Len(data) >= end /\ IsText(Slice(data, start, end))
     THEN Read(Slice(data, start, end), end)
     ELSE None

FaultyBigintSize(count) == count * LimbBytes   \* the first byte forgotten

(* A count of 0 is one byte long.                                           *)
BigintSize(count) == 1 + count * LimbBytes

deserialize_bigint(data, from) ==
  IF ~ Enough(data, from, 1) THEN None
  ELSE LET first == Number(data, from, 1)
           end == from + BigintSize(first % (Base \div 2))
           n == NumberOf(Slice(data, from + 1, end))
       IN IF Len(data) < end THEN None
          ELSE Read(IF first >= Base \div 2 THEN -n ELSE n, end)

deserialize_token(data, from) ==
  IF ~ Enough(data, from, LimbBytes) THEN None
  ELSE LET amount == deserialize_bigint(data, from + LimbBytes) IN
       IF amount = None THEN None
       ELSE Read([id |-> Number(data, from, LimbBytes), amount |-> amount.v], amount.next)

(* One value after the other.                                               *)
InARow(types, data, from) ==
  LET after[i \in 0 .. Len(types)] ==
        IF i = 0 THEN Read(<<>>, from)
        ELSE LET r == after[i - 1]
                 x == deserialize(types[i], data, r.next)
             IN IF r = None THEN None
                ELSE IF x = None THEN None
                ELSE Read(Append(r.v, x.v), x.next)
  IN after[Len(types)]

(* Values behind the offset table at table: each begins where the table    *)
(* says that the one before it ends.                                        *)
BehindTable(types, data, table) ==
  LET n == Len(types)
      end == [i \in 1 .. n |-> Number(data, table + (i - 1) * LenBytes, LenBytes)]
      value == [i \in 1 .. n |->
        deserialize(types[i], data, table + (IF i = 1 THEN n * LenBytes ELSE end[i - 1]))]
  IN IF ~ Enough(data, table, n * LenBytes) THEN None
     ELSE IF AllSome(value)
     THEN Read([i \in 1 .. n |-> value[i].v], IF n = 0 THEN table ELSE table + end[n])
     ELSE None

(* An array cuts each element out of the data before it reads it.           *)
CutOut(t, n, data, table) ==
  LET end == [i \in 1 .. n |-> Number(data, table + (i - 1) * LenBytes, LenBytes)]
      value == [i \in 1 .. n |->
        deserialize(t, Slice(data, table + (IF i = 1 THEN n * LenBytes ELSE end[i - 1]),
                                   table + end[i]), 0)]
  IN IF ~ Enough(data, table, n * LenBytes) THEN None
     ELSE IF AllSome(value) THEN Read([i \in 1 .. n |-> value[i].v], table + end[n])
     ELSE None

deserialize_array(t, data, from) ==
  LET n == Number(data, from, LenBytes)
      start == from + LenBytes
  IN IF ~ Enough(data, from, LenBytes) THEN None
     ELSE IF n = 0 THEN Read(<<>>, start)
     ELSE IF IsVariable(t.of) THEN CutOut(t.of, n, data, start)
     ELSE InARow([i \in 1 .. n |-> t.of], data, start)

deserialize_map(t, data, from) ==
  IF ~ Enough(data, from, LenBytes) THEN None
  ELSE
    LET n == Number(data, from, LenBytes)
        keys == InARow([i \in 1 .. n |-> t.key], data, from + LenBytes)
        vals == IF IsVariable(t.val)
                THEN BehindTable([i \in 1 .. n |-> t.val], data, keys.next)
                ELSE InARow([i \in 1 .. n |-> t.val], data, keys.next)
    IN IF keys = None THEN None
       ELSE IF vals = None THEN None
       ELSE Read([i \in 1 .. n |-> <<keys.v[i], vals.v[i]>>], vals.next)

deserialize_struct(t, data, from) ==
  LET n == Number(data, from, LenBytes) \div 16 IN
  IF ~ Enough(data, from, LenBytes) THEN None
  ELSE IF n = 0 THEN Read(<<>>, from + LenBytes)
  ELSE IF n # Len(t.of) THEN None
  ELSE BehindTable(t.of, data, from + LenBytes)

WidthOf(t) == CASE t.k = "bool" -> 1 [] t.k = "enum" -> 2 [] OTHER -> t.w

deserialize_fixed(t, data, from) ==
  LET bytes == Slice(data, from, from + WidthOf(t)) IN
  IF ~ Enough(data, from, WidthOf(t)) THEN None
  ELSE Read(CASE t.k = "int"   -> SignedOf(bytes)
              [] t.k = "bool"  -> bytes # <<0>>
              [] t.k = "fixed" -> bytes
              [] OTHER         -> NumberOf(bytes), from + WidthOf(t))

deserialize_value(t, data, from) ==
  CASE t.k \in FixedKinds -> deserialize_fixed(t, data, from)
    [] t.k = "string"     -> deserialize_string(data, from)
    [] t.k = "bigint"     -> deserialize_bigint(data, from)
    [] t.k = "token"      -> deserialize_token(data, from)
    [] t.k = "array"      -> deserialize_array(t, data, from)
    [] t.k = "map"        -> deserialize_map(t, data, from)
    [] t.k = "struct"     -> deserialize_struct(t, data, from)
    [] OTHER              -> None

=============================================================================
