------------------------------ MODULE Accounts -------------------------------
(***************************************************************************)
(* DioxAccount (client/account.py).  Keys and addresses are what the       *)
(* library knows of them: whose seed they come from and how many bytes     *)
(* they have.  An account travels as the dict of jsonify, perhaps edited   *)
(* on the way: a type suffix on the address, the AddressType left out.     *)
(***************************************************************************)
EXTENDS Naturals

CONSTANTS
  Seeds,
  NoAccount   \* None

DioxAccountType == {"ETHEREUM", "BITCOIN_P2PKH", "ED25519", "SM2", "END"}

Bytes(seed, len) == [seed |-> seed, len |-> len]

(* The 32 bytes of the key and four of checksum, the account type in it.   *)
AddressOf(seed, type) == [seed |-> seed, type |-> type, len |-> 36]

KeyPair(seed, type) ==
  [type |-> type, addr |-> AddressOf(seed, type),
   sk |-> Bytes(seed, IF type = "ED25519" THEN 64 ELSE 32),
   pk |-> Bytes(seed, IF type = "ED25519" THEN 32 ELSE 64)]

generate_key_pair(seed, type) ==
  IF type = "ED25519" THEN KeyPair(seed, type) ELSE NoAccount

FaultyFromKey(key, type) ==   \* all of key is taken for the seed
  IF type = "ED25519" /\ key.len = 32 THEN KeyPair(key.seed, type) ELSE NoAccount

(* A key is the seed, alone or followed by the public key; SigningKey      *)
(* refuses a shorter one.                                                   *)
from_key(key, type) ==
  IF type = "ED25519" /\ key.len >= 32 THEN KeyPair(key.seed, type) ELSE NoAccount

FaultyIsValid(a) ==   \* lengths of the other key type
  /\ a.addr.len = 36
  /\ a.sk.len = 64 /\ a.pk.len = 32

is_valid(a) ==
  /\ a.type # "END"
  /\ a.addr.len = 36
  /\ a.type = "ED25519" => a.sk.len = 64 /\ a.pk.len = 32
  /\ a.type = "SM2" => a.sk.len = 32 /\ a.pk.len = 64

(* The address is written without a suffix.                                 *)
jsonify(a) ==
  [PrivateKey |-> a.sk, PublicKey |-> a.pk, Address |-> a.addr, suffix |-> "",
   AddressType |-> a.type]

FaultyTypeIn(json, type) ==   \* AddressType counts only without a type given
  IF json.suffix \in {"SM2", "ED25519"} THEN json.suffix ELSE type

(* The suffix counts more than AddressType, and that more than the         *)
(* parameter.                                                               *)
TypeIn(json, type) ==
  IF json.suffix \in {"SM2", "ED25519"} THEN json.suffix
  ELSE IF json.AddressType \in DioxAccountType THEN json.AddressType
  ELSE type

from_json(json, type) ==
  LET a == [type |-> TypeIn(json, type), sk |-> json.PrivateKey, pk |-> json.PublicKey,
            addr |-> json.Address]
  IN IF a.type \in {"ED25519", "SM2"} /\ is_valid(a) THEN a ELSE NoAccount

(* The bytes of a signature: None for a type without an algorithm.         *)
CanSign(a) == a.type \in {"ED25519", "SM2"}
SIGNATURE_BYTES == 64

=============================================================================
