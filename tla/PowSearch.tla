----------------------------- MODULE PowSearch -------------------------------
(***************************************************************************)
(* The proof of work of a transaction (utils/gadget.py): PowDifficulty and *)
(* the search of calculate_txn_pow for three nonces.  A hash is the number *)
(* its bytes spell; what SHA-256 makes of a nonce is not known beforehand. *)
(***************************************************************************)
EXTENDS Integers, Sequences

CONSTANTS
  BitsPerByte,   \* 8
  HashBytes,     \* 32
  WordBytes,     \* of ULONGLONG: 8
  PowBase, PowTtl, PowSize,   \* of get_pow_difficulty: 1000, 10 and 100
  NonceSpan,     \* 2 ^ 32
  Hashes         \* the hashes a nonce may have

VARIABLES
  nonce,    \* the next to try
  nonces,   \* those found
  tried     \* history: the hash each nonce had, from 0 on

powVars == <<nonce, nonces, tried>>

HalfWord == WordBytes \div 2
BitsOf(bytes) == bytes * BitsPerByte

(* 2 ^ n; a division by it is a shift.                                      *)
Power(n) == LET twice[i \in 0 .. n] == IF i = 0 THEN 1 ELSE 2 * twice[i - 1] IN twice[n]

(* The upper half of a word keeps enough of it, and the hash is so long    *)
(* that no shift of a quotient of five bits or more brings its exponent    *)
(* below zero.                                                              *)
ASSUME WordsAreWide ==
  /\ {BitsPerByte, HashBytes, WordBytes} \subseteq Nat
  /\ BitsPerByte >= 4 /\ WordBytes >= 4 /\ WordBytes % 2 = 0
  /\ BitsOf(HashBytes) >= 2 * BitsOf(WordBytes) - 6
ASSUME HashesAreShort == \A hash \in Hashes : hash \in Nat /\ hash < Power(BitsOf(HashBytes))
ASSUME DenominatorsArePositive == {PowBase, PowTtl, PowSize} \subseteq Nat /\ PowBase >= 3

FaultyDenominator(size, ttl) == (PowBase + size * (PowTtl + PowSize)) \div 3  \* whatever the ttl

(* get_pow_difficulty                                                       *)
denominator(size, ttl) == (PowBase + size * (ttl * PowTtl + PowSize)) \div 3

(* PowDifficulty.set: the quotient, shifted to fill a word, is worth       *)
(* 2 ^ exp; of its bytes the upper half word is kept.                      *)
Shift(num) == CHOOSE s \in 0 .. BitsOf(WordBytes) : LET n == num * Power(s) IN
                Power(BitsOf(WordBytes) - 1) <= n /\ n < Power(BitsOf(WordBytes))

difficulty(denom) ==
  LET num == Power(BitsOf(WordBytes) - 1) \div denom
      exp == BitsOf(HashBytes) - (BitsOf(WordBytes) - 1) - Shift(num)
      residue == exp % BitsPerByte
      filled == num * Power(Shift(num))
      word == IF residue = 0 THEN filled ELSE filled \div Power(BitsPerByte - residue)
  IN [target |-> word \div Power(BitsOf(HalfWord)),
      bytes |-> exp \div BitsPerByte + (IF residue = 0 THEN 0 ELSE 1) + WordBytes]

FaultyIsFullfiled(d, hash) ==   \* the bytes above are not looked at
  d.target > (hash \div Power(BitsOf(d.bytes - HalfWord))) % Power(BitsOf(HalfWord))

is_fullfiled(d, hash) ==
  /\ d.target > (hash \div Power(BitsOf(d.bytes - HalfWord))) % Power(BitsOf(HalfWord))
  /\ hash \div Power(BitsOf(d.bytes)) = 0

PowInit == nonce = 0 /\ nonces = <<>> /\ tried = <<>>

Searching == Len(nonces) < 3

FaultyTryNonce(d) ==   \* not advanced behind one that is found
  /\ Searching
  /\ nonce < NonceSpan
  /\ \E hash \in Hashes :
       /\ tried' = Append(tried, hash)
       /\ nonces' = IF is_fullfiled(d, hash) THEN Append(nonces, nonce) ELSE nonces
       /\ nonce' = IF is_fullfiled(d, hash) THEN nonce ELSE nonce + 1

TryNonce(d) ==
  /\ Searching
  /\ nonce < NonceSpan
  /\ \E hash \in Hashes :
       /\ tried' = Append(tried, hash)
       /\ nonces' = IF is_fullfiled(d, hash) THEN Append(nonces, nonce) ELSE nonces
  /\ nonce' = nonce + 1

(* OverflowError: the nonce does not fit into four bytes.                   *)
OutOfNonces == Searching /\ nonce = NonceSpan

=============================================================================
