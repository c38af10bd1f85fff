------------------------------ MODULE ArgsCodec ------------------------------
(***************************************************************************)
(* serialize_args and deserialized_args (utils/gadget.py): the arguments   *)
(* of a contract call are written one after the other by the types of the  *)
(* signature, and read back by the same types.  What deserialized_args is  *)
(* given may be cut short; an argument it cannot read is tried with an     *)
(* older parser, and left out if that fails too.                           *)
(***************************************************************************)
EXTENDS GclSerde

CONSTANTS
  Calls,             \* signatures with arguments: [sig |-> types, args |-> values]
  Restorable(_, _)   \* RestorableValue below, as it calls itself for elements

ASSUME CallsAreTyped ==
  \A c \in Calls : c.sig \in Seq(Types) /\ IsList(c.args)

VARIABLES
  call,    \* the call being encoded
  pc,      \* "write", "read", "done", or "refused" by a ValueError
  data,    \* result of serialize_args, then the argument of deserialized_args
  ends,    \* where each argument was written to
  offset,  \* current_offset
  ret      \* the values read

vars == <<call, pc, data, ends, offset, ret>>

Init ==
  /\ call \in Calls
  /\ pc = "write"
  /\ data = <<>>
  /\ ends = <<>>
  /\ offset = 0
  /\ ret = <<>>

-----------------------------------------------------------------------------
(* serialize_args                                                           *)

Written == Len(ends)

(* An argument may be missing.                                              *)
NextWritten ==
  IF Written < Len(call.args) THEN serialize(call.sig[Written + 1], call.args[Written + 1])
  ELSE None

WriteArgument ==
  /\ pc = "write"
  /\ Written < Len(call.sig)
  /\ NextWritten # None
  /\ data' = data \o NextWritten
  /\ ends' = Append(ends, Len(data'))
  /\ UNCHANGED <<call, pc, offset, ret>>

(* ValueError: Missing argument, or Failed to serialize.                    *)
RefuseArgument ==
  /\ pc = "write"
  /\ Written < Len(call.sig)
  /\ NextWritten = None
  /\ pc' = "refused"
  /\ UNCHANGED <<call, data, ends, offset, ret>>

(* The caller takes the bytes, or the first n of them, to be read.          *)
HandOver(n) ==
  /\ pc = "write"
  /\ Written = Len(call.sig)
  /\ data' = SubSeq(data, 1, n)
  /\ pc' = "read"
  /\ UNCHANGED <<call, ends, offset, ret>>

-----------------------------------------------------------------------------
(* deserialized_args: the older parser.  It slices without a check, so a   *)
(* short slice gives a smaller value.  It too returns a value and an       *)
(* offset, the value None when it raises.                                   *)

OldFixed(t) ==
  LET next == offset + WidthOf(t)
      bytes == Slice(data, offset, next)
  IN CASE t.k = "int"   -> Read(SignedOf(bytes), next)
       [] t.k = "bool"  -> Read(None, offset)   \* IndexError: no byte left
       [] t.k = "fixed" -> Read(bytes, next)
       [] t.k = "uint"  -> Read(NumberOf(bytes), next)

OldString ==
  LET start == offset + StrLenBytes
      end == start + Number(data, offset, StrLenBytes)
      text == Slice(data, start, end)
  IN IF IsText(text) THEN Read(text, end) ELSE Read(None, start)

OldBigint ==
  LET first == Number(data, offset, 1)
      end == offset + BigintSize(first % (Base \div 2))
      n == NumberOf(Slice(data, offset + 1, end))
  IN Read(IF first >= Base \div 2 THEN -n ELSE n, end)

(* The id is read as a symbol that ends at the first zero.                  *)
OldToken ==
  LET next == offset + LimbBytes
      id == Slice(data, offset, next)
      symbol == IF 0 \in ToSet(id) THEN SubSeq(id, 1, SelectInSeq(id, LAMBDA b : b = 0) - 1) ELSE id
      amount == deserialize_bigint(data, next)
  IN IF \/ Len(id) < LimbBytes /\ 0 \notin ToSet(id)
        \/ ~ IsText(symbol)
     THEN Read(None, offset)
     ELSE IF amount = None THEN Read(None, next)
     ELSE Read([symbol |-> symbol, amount |-> amount.v], amount.next)

Fallback(t) ==
  CASE t.k \in {"uint", "int", "bool", "fixed"} -> OldFixed(t)
    [] t.k = "string" -> OldString
    [] t.k = "bigint" -> OldBigint
    [] t.k = "token"  -> OldToken
    [] OTHER          -> Read(None, offset)   \* Unsupported type, skipping

NextType == call.sig[Len(ret) + 1]

Take(x) ==
  /\ ret' = Append(ret, x.v)
  /\ offset' = x.next
  /\ UNCHANGED <<call, pc, data, ends>>

ReadArgument ==
  /\ pc = "read"
  /\ Len(ret) < Len(call.sig)
  /\ deserialize(NextType, data, offset) # None
  /\ Take(deserialize(NextType, data, offset))

FallBack ==
  /\ pc = "read"
  /\ Len(ret) < Len(call.sig)
  /\ deserialize(NextType, data, offset) = None
  /\ Take(Fallback(NextType))

ReturnArguments ==
  /\ pc = "read"
  /\ Len(ret) = Len(call.sig)
  /\ pc' = "done"
  /\ UNCHANGED <<call, data, ends, offset, ret>>

Next ==
  \/ WriteArgument
  \/ RefuseArgument
  \/ \E n \in 0 .. Len(data) : HandOver(n)
  \/ ReadArgument
  \/ FallBack
  \/ ReturnArguments

Spec == Init /\ [][Next]_vars

-----------------------------------------------------------------------------
(* Properties.                                                              *)

TypeOK ==
  /\ pc \in {"write", "read", "done", "refused"}
  /\ data \in Seq(0 .. Base - 1)
  /\ ends \in Seq(Nat) /\ Len(ends) <= Len(call.sig)
  /\ offset \in Nat
  /\ Len(ret) <= Len(call.sig)

(* A zero that is written longer than it is read.                           *)
EndsInZero(t, v) ==
  \/ t.k = "bigint" /\ v = 0
  \/ t.k = "token" /\ v.amount = 0

(* What can be given back: bool takes any value for its truth, and a token *)
(* no more than its two fields; and no key of a map is written longer than *)
(* it is read.                                                              *)
RestorableValue(t, v) ==
  CASE t.k = "bool"   -> v \in BOOLEAN
    [] t.k = "token"  -> v = [id |-> v.id, amount |-> v.amount]
    [] t.k = "array"  -> \A i \in DOMAIN v : Restorable(t.of, v[i])
    [] t.k = "struct" -> \A i \in DOMAIN v : Restorable(t.of[i], v[i])
    [] t.k = "map"    -> \A i \in DOMAIN v :
                           /\ v[i] = <<v[i][1], v[i][2]>>
                           /\ Restorable(t.key, v[i][1]) /\ Restorable(t.val, v[i][2])
                           /\ ~ EndsInZero(t.key, v[i][1])
    [] OTHER          -> TRUE

(* Nothing before or in argument i shifts what is read.                     *)
Undisturbed(i) ==
  /\ \A j \in 1 .. i - 1 : ~ EndsInZero(call.sig[j], call.args[j])
  /\ \A j \in 1 .. i : Restorable(call.sig[j], call.args[j])

(* Reading gives back what was written, for every argument whose bytes are *)
(* all there, in spite of the fallbacks taken after it: nested types, the  *)
(* three kinds of offset table, empty containers and short data included.  *)
(* Only a zero bigint outside an offset table comes in the way.             *)
CompleteArgumentsSurvive ==
  pc # "write" =>
    \A i \in DOMAIN ret :
      Undisturbed(i) /\ ends[i] <= Len(data) => ret[i] = call.args[i]

(* After each such argument the reader stands where it was written to: the *)
(* offset deserialized_args returns on request can be built upon.           *)
OffsetIsExact ==
  pc # "write" /\ ret # <<>> =>
    LET i == Len(ret) IN
    /\ Undisturbed(i)
    /\ ~ EndsInZero(call.sig[i], call.args[i])
    /\ ends[i] <= Len(data)
    => offset = ends[i]

(* "This is the reverse operation of deserialized_args", says               *)
(* serialize_args of itself.                                                *)
RoundTrip ==
  pc = "done" /\ Len(data) = ends[Len(ends)] => ret = call.args

=============================================================================
