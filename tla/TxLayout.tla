------------------------------ MODULE TxLayout -------------------------------
(***************************************************************************)
(* UnsignedTransaction (client/transaction.py) and the contract ids in it  *)
(* (client/contract.py): the bytes of a transaction, and how a reader that *)
(* goes by its mode finds the fields again.  Fields no property looks at   *)
(* are opaque bytes.  A contract id is a record of its bit fields.         *)
(***************************************************************************)
EXTENDS GclSerde, Addresses

CONSTANTS
  ByteBits,      \* 8
  CoreSpan,      \* 2 ^ CORE_CONTRACT_SCOPE_BITSHIFT: 64
  TtlSpan        \* 2 ^ 9: the values of the ttl's bits

(* Base is 2 ^ ByteBits; a byte holds the mode's four lowest bits, two      *)
(* hold the ttl's.                                                          *)
ASSUME ByteHasBits ==
  /\ ByteBits \in Nat \ {0}
  /\ Shifted(2, Base, ByteBits) = 1 /\ Shifted(2, Base - 1, ByteBits) = 0
ASSUME BitFieldsFit ==
  /\ Base % 16 = 0
  /\ CoreSpan \in Nat \ {0, 1}
  /\ TtlSpan \in Nat \ {0} /\ Shifted(Base, TtlSpan - 1, 2) = 0

CORE_CONTRACT_RVM == CoreSpan - 1
CORE_CONTRACT_COIN_GLOBAL == 0
CORE_CONTRACT_COIN == 2 * CoreSpan
ScopeAddress == 2

(* The scope's bits where they are, above those of the build.              *)
get_scope(id) == id.scope * Base

(* Of its three renamings those of the delegation and of the regulation    *)
(* compare get_scope with a small number, or as a function, and never      *)
(* apply.                                                                   *)
CoreContractIDFromRvm(id) ==
  IF id.sn = CORE_CONTRACT_COIN /\ get_scope(id) = 0 THEN CORE_CONTRACT_COIN_GLOBAL
  ELSE id.sn

core_contract(id) ==
  IF id.core THEN CoreContractIDFromRvm(id)
  ELSE CORE_CONTRACT_RVM + get_scope(id) * CoreSpan

ITM_SCOPE_ADDRESS == 1
ITM_FIRST_SIGNER == 11
ITM_SHARD == 12
TMF_ZERO_ARG == 4 * Base

OnAddress(id) == core_contract(id) \div CoreSpan = ScopeAddress

FaultyTargetMode(id, delegated) == IF OnAddress(id) THEN ITM_FIRST_SIGNER ELSE ITM_SHARD

TargetMode(id, delegated) ==
  IF ~ OnAddress(id) THEN ITM_SHARD
  ELSE IF delegated THEN ITM_SCOPE_ADDRESS ELSE ITM_FIRST_SIGNER

-----------------------------------------------------------------------------
(* serialize.  PriceBits are the bits of the mantissa.                      *)

PriceBits == 4 * ByteBits

BitLength(n) ==
  CHOOSE b \in 0 .. n : Shifted(2, n, b) = 0 /\ (b > 0 => Shifted(2, n, b - 1) # 0)

(* int(math.log2(price)) + 1 is the length in bits, or one more when the   *)
(* logarithm of a large price is rounded up.                               *)
PriceExponents(price) ==
  LET b == BitLength(price) IN
  IF b > PriceBits THEN {b - PriceBits, b + 1 - PriceBits} ELSE {0}

TtlField(ttl) == (ttl - 1) % TtlSpan

(* The others are within their widths.                                      *)
Fits(tx, input, exp) ==
  /\ core_contract(tx.id) < Base
  /\ Shifted(Base, tx.isn, 4) = 0 /\ Shifted(Base, tx.gas_limit, 4) = 0
  /\ Shifted(Base, exp, 2) = 0
  /\ Shifted(Base, Len(input), 2) = 0

FaultyHeader(tx, mode, exp) ==   \* mode before ttl
  Opaque(8) \o BytesOf(tx.isn, 4) \o BytesOf(mode, 2) \o BytesOf(TtlField(tx.ttl), 2)
    \o Opaque(1) \o BytesOf(core_contract(tx.id), 1)
    \o BytesOf(Shifted(2, tx.gas_price, exp), 4) \o BytesOf(exp, 2) \o BytesOf(tx.gas_limit, 4)

(* version, packflag, timestamp; isn; ttl with sc = 1 and tsc = 0; mode;   *)
(* opcode; core_contract; gas price and limit                              *)
Header(tx, mode, exp) ==
  Opaque(8) \o BytesOf(tx.isn, 4) \o BytesOf(TtlField(tx.ttl), 2) \o BytesOf(mode, 2)
    \o Opaque(1) \o BytesOf(core_contract(tx.id), 1)
    \o BytesOf(Shifted(2, tx.gas_price, exp), 4) \o BytesOf(exp, 2) \o BytesOf(tx.gas_limit, 4)

FaultyTarget(tx) == Opaque(IF tx.id.core THEN 1 ELSE 8)   \* the delegatee forgotten

(* The build of a core contract or the whole id of another; the delegatee. *)
Target(tx) ==
  Opaque(IF tx.id.core THEN 1 ELSE 8) \o tx.delegatee

serialize_tx(tx, input, exp) ==
  LET mode == TargetMode(tx.id, tx.delegatee # <<>>) + IF tx.no_args THEN TMF_ZERO_ARG ELSE 0
  IN IF Fits(tx, input, exp)
     THEN Header(tx, mode, exp) \o Target(tx) \o BytesOf(Len(input), 2) \o input
     ELSE None   \* OverflowError of to_bytes

-----------------------------------------------------------------------------
(* How the fields are found again.                                          *)

ttl_in(tx) == 1 + (Number(tx, 12, 2) % TtlSpan)

InputAt(tx) ==
  28 + (IF Number(tx, 17, 1) % CoreSpan = CORE_CONTRACT_RVM THEN 8 ELSE 1)
     + (IF Number(tx, 14, 2) % 16 = ITM_SCOPE_ADDRESS THEN AddressBytes ELSE 0)

DelegateeIn(tx) == Slice(tx, InputAt(tx) - AddressBytes, InputAt(tx))

InputIn(tx) ==
  Slice(tx, InputAt(tx) + 2, InputAt(tx) + 2 + Number(tx, InputAt(tx), 2))

=============================================================================
