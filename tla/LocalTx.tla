------------------------------- MODULE LocalTx -------------------------------
(***************************************************************************)
(* A contract call from its arguments to its arguments: an account is read *)
(* (client/account.py), compose_transaction_local checks the call, writes  *)
(* the arguments and lays the transaction out (client/dioxclient.py),      *)
(* sign_diox_transaction signs it and works for its nonces, the node shows *)
(* it, and decode_transaction_input reads the arguments again.  Stage      *)
(* "args" is ArgsCodec alone: its two functions called directly.           *)
(***************************************************************************)
EXTENDS ArgsCodec, TxLayout, Accounts, PowSearch

CONSTANT Trips   \* [call, form]: calls with what else they are given

NoDelegatee == [by |-> "none", name |-> <<>>]

Aside == [id |-> [core |-> FALSE, sn |-> 0, scope |-> 0], delegatee |-> NoDelegatee,
          isn |-> 0, ttl |-> 1, gas_price |-> 0, gas_limit |-> 0, no_args |-> FALSE]

(* The fields are numbers; the RVM is no contract of its own; a character  *)
(* has bytes, of which none is zero, and a valid DApp name has room.        *)
ASSUME TripsAreTyped ==
  \A f \in {t.form : t \in Trips} :
    /\ DOMAIN f = DOMAIN Aside
    /\ f.delegatee.by \in {"none", "account", "name"}
    /\ {f.isn, f.gas_price, f.gas_limit, f.id.sn, f.id.scope} \subseteq Nat
    /\ f.ttl \in Int
    /\ f.id.core \in BOOLEAN
    /\ f.id.core => f.id.sn % CoreSpan # CORE_CONTRACT_RVM
    /\ f.delegatee.by = "name" =>
         LET name == f.delegatee.name IN
         /\ IsList(name)
         /\ \A i \in DOMAIN name : name[i].bytes \in Seq(1 .. Base - 1) \ {<<>>}
         /\ is_delegatee_name_valid(name, "DAPP") => Len(Encoded(name)) <= NameBytes
ASSUME AddressHasBytes == {NameBytes, CrcBytes} \subseteq Nat \ {0}

(* Header, identifier, delegatee and input of the longest transaction that *)
(* can be laid out.                                                         *)
LongestTx == 28 + 8 + (2 * NameBytes + CrcBytes) + 2 + (Base * Base - 1)

(* Its difficulty leaves the quotient at least five bits of the word.       *)
ASSUME DifficultiesFit ==
  16 * denominator(LongestTx + 1 + 64 + SIGNATURE_BYTES + 12, TtlSpan)
    <= Power(BitsOf(WordBytes) - 1)

VARIABLES
  stage,    \* where the caller is
  form,     \* the transaction but for its input
  owner,    \* whose account is used
  signer,   \* the account as it was read
  txn       \* the bytes of the transaction, before signing

txVars == <<stage, form, owner, signer, txn>>
allVars == <<vars, powVars, txVars>>

TxInit ==
  /\ Init
  /\ PowInit
  /\ \/ stage = "args" /\ form = Aside
     \/ stage = "load" /\ form \in {t.form : t \in {t \in Trips : t.call = call}}
  /\ owner \in {KeyPair(s, t) : s \in Seeds, t \in {"ED25519", "SM2"}}
  /\ stage = "args" => owner.type = "ED25519"
  /\ signer = NoAccount
  /\ txn = <<>>

-----------------------------------------------------------------------------
(* The account.                                                             *)

(* The dict may have lost its AddressType if the address got its suffix or *)
(* the reader is told the type.                                             *)
Notes(a, told) ==
  LET json == jsonify(a) IN
  {json, [json EXCEPT !.suffix = a.type],
   [json EXCEPT !.suffix = a.type, !.AddressType = "missing"]}
    \cup (IF told = a.type THEN {[json EXCEPT !.AddressType = "missing"]} ELSE {})

Load ==
  /\ stage = "load"
  /\ \/ \E told \in {"ED25519", "SM2"} : \E json \in Notes(owner, told) :
          signer' = from_json(json, told)
     \/ /\ owner.type = "ED25519"
        /\ signer' \in {from_key(owner.sk, "ED25519"),
                        generate_key_pair(owner.sk.seed, "ED25519")}
  /\ stage' = "compose"
  /\ UNCHANGED <<vars, powVars, form, owner, txn>>

-----------------------------------------------------------------------------
(* compose_transaction_local                                                *)

ByName == form.delegatee.by = "name"

DelegateeBytes ==
  CASE form.delegatee.by = "none"    -> <<>>
    [] form.delegatee.by = "account" -> Opaque(AddressBytes)
    [] form.delegatee.by = "name"    -> set_delegatee_from_string(form.delegatee.name)

(* The name has three parts, the contract and the function are known, the  *)
(* delegatee is an account or a valid DApp name.                           *)
Accept ==
  /\ stage = "compose"
  /\ ByName => is_delegatee_name_valid(form.delegatee.name, "DAPP")
  /\ stage' = "arguments"
  /\ UNCHANGED <<vars, powVars, form, owner, signer, txn>>

(* DioxError -10003, -10004 or -10005, or the error of a request.          *)
Refuse ==
  /\ stage = "compose"
  /\ stage' = "raised"
  /\ UNCHANGED <<vars, powVars, form, owner, signer, txn>>

Arguments ==
  /\ \/ stage = "args"
     \/ stage = "arguments" /\ call.args # <<>>
  /\ WriteArgument \/ RefuseArgument
  /\ UNCHANGED <<powVars, txVars>>

(* What was given no arguments is marked so, whatever its signature; what  *)
(* has no signature loses its arguments.                                    *)
Complete == [form EXCEPT !.no_args = call.args = <<>>, !.delegatee = DelegateeBytes]

Serialize ==
  /\ stage = "arguments" /\ pc = "write"
  /\ Written = Len(call.sig) \/ call.args = <<>>
  /\ \E exp \in PriceExponents(form.gas_price) :
       txn' = serialize_tx(Complete, data, exp)
  /\ stage' = IF txn' = None THEN "raised" ELSE "sign"
  /\ UNCHANGED <<vars, powVars, form, owner, signer>>

-----------------------------------------------------------------------------
(* sign_diox_transaction                                                    *)

(* The transaction with the account type, the public key and the signature.*)
SignedBytes == Len(txn) + 1 + signer.pk.len + SIGNATURE_BYTES

FaultySize == SignedBytes   \* the nonces forgotten

Size == SignedBytes + 12

Asked == denominator(Size, ttl_in(txn))

Sign ==
  /\ stage = "sign"
  /\ CanSign(signer)
  /\ stage' = "work"
  /\ UNCHANGED <<vars, powVars, form, owner, signer, txn>>

Work ==
  /\ stage = "work"
  /\ TryNonce(difficulty(Asked))
  /\ UNCHANGED <<vars, txVars>>

(* sign_diox_transaction returns None and send_transaction raises.         *)
NotSigned ==
  /\ \/ stage = "sign"
     \/ stage = "work" /\ OutOfNonces
  /\ stage' = "raised"
  /\ UNCHANGED <<vars, powVars, form, owner, signer, txn>>

Signed == stage = "work" /\ ~ Searching

-----------------------------------------------------------------------------
(* The node shows the transaction, decode_transaction_input reads it.      *)

(* A reader that goes by the mode is misled by a delegatee it does not     *)
(* announce, and by a name with characters of more bytes than one.         *)
Announced == DelegateeBytes # <<>> => OnAddress(form.id)
Legible == Announced /\ Len(DelegateeBytes) \in {0, AddressBytes}

(* The Input of the transaction the node shows; the search is forgotten.   *)
Show ==
  /\ Signed
  /\ stage' = IF Legible THEN "shown" ELSE "misread"
  /\ nonce' = 0 /\ nonces' = <<>> /\ tried' = <<>>
  /\ UNCHANGED <<vars, form, owner, signer, txn>>

(* No input, a core contract, a function without parameters, a contract    *)
(* that cannot be found: {}.  An Input the node has decoded: as it is.     *)
DecodeNothing ==
  /\ stage = "shown"
  /\ stage' = "undecoded"
  /\ UNCHANGED <<vars, powVars, form, owner, signer, txn>>

DecodeInput ==
  /\ stage = "shown"
  /\ ~ form.id.core
  /\ InputIn(txn) # <<>>
  /\ stage' = "decoded"
  /\ data' = InputIn(txn)
  /\ pc' = "read"
  /\ UNCHANGED <<call, ends, offset, ret, powVars, form, owner, signer, txn>>

ReadBack ==
  /\ ReadArgument \/ FallBack \/ ReturnArguments
  /\ UNCHANGED <<powVars, txVars>>

Direct ==
  /\ stage = "args"
  /\ \E n \in 0 .. Len(data) : HandOver(n)
  /\ UNCHANGED <<powVars, txVars>>

TxNext ==
  \/ Load \/ Accept \/ Refuse \/ Arguments \/ Serialize
  \/ Sign \/ Work \/ NotSigned \/ Show
  \/ DecodeNothing \/ DecodeInput \/ ReadBack \/ Direct

TxSpec == TxInit /\ [][TxNext]_allVars

-----------------------------------------------------------------------------
(* Properties.                                                              *)

(* An account that was written down comes back, of either key type and     *)
(* whatever type the reader assumes, from its dict with or without suffix  *)
(* and AddressType, and from its private key alone.                        *)
AccountSurvives ==
  stage \notin {"args", "load"} => signer = owner

(* What was laid out is found again by who goes by the layout: the ISN,    *)
(* the limits and, unless a delegatee is not announced, the whole input,   *)
(* with or without arguments, for every kind of contract.  The gas price   *)
(* loses no more than the bits below its mantissa, the ttl nothing within  *)
(* its nine bits.                                                           *)
ReadsBack ==
  stage = "sign" =>
    LET exp == Number(txn, 22, 2)
        mantissa == Number(txn, 18, 4)
    IN /\ Number(txn, 8, 4) = form.isn
       /\ Number(txn, 24, 4) = form.gas_limit
       /\ form.ttl \in 1 .. TtlSpan => ttl_in(txn) = form.ttl
       /\ mantissa = Shifted(2, form.gas_price, exp)
       /\ exp > 0 => Shifted(2, mantissa, PriceBits - 2) # 0
       /\ Announced /\ ByName => NameIn(DelegateeIn(txn)) = Encoded(form.delegatee.name)
       /\ Legible => InputIn(txn) = data /\ InputAt(txn) + 2 + Len(data) = Len(txn)

(* The bound on hashes that the node sets for a transaction of this final  *)
(* size and with the ttl in its own header.                                 *)
AskedBound ==
  LET size == Len(txn) + 1 + signer.pk.len + SIGNATURE_BYTES + 12
      ttl == 1 + (Number(txn, 12, 2) % TtlSpan)
  IN (Power(BitsOf(HashBytes)) - 1)
       \div ((PowBase + size * (ttl * PowTtl + PowSize)) \div 3)

(* The work is the one asked of the bytes that are sent: three different   *)
(* nonces whose hashes lie under the bound; and no hash that lies clearly  *)
(* under it was passed over.                                                *)
WorkIsAsked ==
  stage = "work" =>
    /\ \A i \in DOMAIN nonces :
         /\ nonces[i] < NonceSpan
         /\ tried[nonces[i] + 1] <= AskedBound
         /\ \A j \in 1 .. i - 1 : nonces[j] < nonces[i]
    /\ \A n \in DOMAIN tried :
         tried[n] <= AskedBound - AskedBound \div 8 => n - 1 \in ToSet(nonces)

=============================================================================
