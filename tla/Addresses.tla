------------------------------ MODULE Addresses ------------------------------
(***************************************************************************)
(* DioxAddress (client/account.py) as the delegatee of a transaction: an   *)
(* account's bytes, or a name, filled up with zeros and followed by a      *)
(* checksum with the type.  A character is its bytes in UTF-8, of which    *)
(* none is zero, and the types whose names may have it: \d is any decimal  *)
(* digit of Unicode, and those beyond ASCII have two to four bytes.        *)
(***************************************************************************)
EXTENDS Naturals, Sequences, SequencesExt

CONSTANTS
  NameBytes,   \* 32
  CrcBytes,    \* 4
  NameSizes    \* SecSuiteParam: the numbers of characters by type

Opaque(n) == [i \in 1 .. n |-> 0]

AddressBytes == NameBytes + CrcBytes

is_delegatee_name_valid(name, type) ==
  /\ type \in DOMAIN NameSizes
  /\ Len(name) \in NameSizes[type]
  /\ \A i \in DOMAIN name : type \in name[i].types

Encoded(name) == FlattenSeq([i \in DOMAIN name |-> name[i].bytes])

FaultyFromString(name) ==   \* rjust
  Opaque(NameBytes - Len(name)) \o Encoded(name) \o Opaque(CrcBytes)

(* The zeros make up for the missing characters, not for the bytes.        *)
set_delegatee_from_string(name) ==
  Encoded(name) \o Opaque(NameBytes - Len(name)) \o Opaque(CrcBytes)

(* The name in an address ends before its first zero.                      *)
NameIn(bytes) ==
  LET valid == CHOOSE n \in 0 .. NameBytes :
                 /\ n < NameBytes => bytes[n + 1] = 0
                 /\ \A i \in 1 .. n : bytes[i] # 0
  IN SubSeq(bytes, 1, valid)

=============================================================================
