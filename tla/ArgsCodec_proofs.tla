-------------------------- MODULE ArgsCodec_proofs ---------------------------
(***************************************************************************)
(* Theorems about ArgsCodec: every value that can be restored is read back *)
(* from its bytes, whatever stands before and behind them, and the         *)
(* invariants of serialize_args and deserialized_args hold.  Recursion     *)
(* through the elements of containers is followed by Depth.                *)
(***************************************************************************)
EXTENDS ArgsCodec, WellFoundedInduction, TLAPS

-----------------------------------------------------------------------------
(* Sets of numbers and recursive functions, without induction theorems.     *)

(* A set of numbers that is not empty has a least.                          *)
LEMMA LeastOf ==
  ASSUME NEW T \in SUBSET Nat, T # {}
  PROVE  \E x \in T : \A y \in T : x <= y
<1>1. PICK x \in T : \A y \in T : ~ (<<y, x>> \in OpToRel(<, Nat))
  BY NatLessThanWellFounded, WFMin
<1>2. \A y \in T : ~ (y < x)
  BY <1>1 DEF OpToRel
<1> QED  BY <1>2

(* Induction over the numbers up to m, for a set of those where it holds.   *)
LEMMA UpTo ==
  ASSUME NEW Good, NEW m \in Nat, 0 \in Good,
         \A i \in 0 .. m - 1 : i \in Good => i + 1 \in Good
  PROVE  \A i \in 0 .. m : i \in Good
<1> DEFINE Bad == {i \in 0 .. m : i \notin Good}
<1> SUFFICES ASSUME Bad # {} PROVE FALSE
  OBVIOUS
<1>1. PICK x \in Bad : \A y \in Bad : x <= y
  <2>1. Bad \in SUBSET Nat
    OBVIOUS
  <2> HIDE DEF Bad
  <2> QED  BY <2>1, LeastOf
<1>2. x \in 1 .. m /\ x - 1 \in 0 .. m - 1 /\ x - 1 \notin Bad
  BY <1>1
<1> QED  BY <1>2

(* Induction over the natural numbers, in the same way.                     *)
LEMMA Always ==
  ASSUME NEW Good, 0 \in Good, \A i \in Nat : i \in Good => i + 1 \in Good
  PROVE  Nat \subseteq Good
<1> SUFFICES ASSUME NEW m \in Nat PROVE m \in Good
  OBVIOUS
<1>1. \A i \in 0 .. m : i \in Good
  BY UpTo
<1> QED  BY <1>1

IsRun(V, first, step, k, g) ==
  /\ g \in [0 .. k -> V]
  /\ g[0] = first
  /\ \A i \in 0 .. k - 1 : g[i + 1] = step[i][g[i]]

(* A recursion of m steps within V has a run ...                            *)
LEMMA RunExists ==
  ASSUME NEW V, NEW first \in V, NEW step \in [Nat -> [V -> V]], NEW m \in Nat
  PROVE  \E g : IsRun(V, first, step, m, g)
<1> DEFINE Good == {k \in Nat : \E g : IsRun(V, first, step, k, g)}
<1>1. 0 \in Good
  <2>1. IsRun(V, first, step, 0, [i \in 0 .. 0 |-> first])
    BY DEF IsRun
  <2> QED  BY <2>1
<1>2. ASSUME NEW k \in Nat, k \in Good PROVE k + 1 \in Good
  <2>1. PICK g : IsRun(V, first, step, k, g)
    BY <1>2
  <2> DEFINE h == [i \in 0 .. k + 1 |-> IF i = k + 1 THEN step[k][g[k]] ELSE g[i]]
  <2>2. g[k] \in V /\ step[k][g[k]] \in V
    BY <2>1 DEF IsRun
  <2>3. h \in [0 .. k + 1 -> V] /\ h[0] = first
    BY <2>1, <2>2 DEF IsRun
  <2>4. ASSUME NEW i \in 0 .. k PROVE h[i + 1] = step[i][h[i]]
    <3>1. CASE i = k
      BY <3>1
    <3>2. CASE i # k
      BY <2>1, <3>2 DEF IsRun
    <3> QED  BY <3>1, <3>2
  <2> HIDE DEF h
  <2>5. IsRun(V, first, step, k + 1, h)
    BY <2>3, <2>4 DEF IsRun
  <2> QED  BY <2>5
<1> HIDE DEF Good
<1>3. Nat \subseteq Good
  BY <1>1, <1>2, Always
<1> QED  BY <1>3 DEF Good

(* ... and only one, as far as both go.                                     *)
LEMMA RunsAgree ==
  ASSUME NEW V, NEW first, NEW step, NEW k \in Nat, NEW m \in Nat, k <= m,
         NEW g, NEW h, IsRun(V, first, step, k, g), IsRun(V, first, step, m, h)
  PROVE  \A i \in 0 .. k : g[i] = h[i]
<1> DEFINE Good == {i \in 0 .. k : g[i] = h[i]}
<1>1. 0 \in Good
  BY DEF IsRun
<1>2. \A i \in 0 .. k - 1 : i \in Good => i + 1 \in Good
  BY DEF IsRun
<1> HIDE DEF Good
<1>3. \A i \in 0 .. k : i \in Good
  BY <1>1, <1>2, UpTo
<1> QED  BY <1>3 DEF Good

Iterates(V, first, step, f) ==
  /\ f \in [Nat -> V]
  /\ f[0] = first
  /\ \A i \in Nat : f[i + 1] = step[i][f[i]]

(* So it has one that never ends.                                           *)
LEMMA Iterate ==
  ASSUME NEW V, NEW first \in V, NEW step \in [Nat -> [V -> V]]
  PROVE  \E f : Iterates(V, first, step, f)
<1> DEFINE run(k) == CHOOSE g : IsRun(V, first, step, k, g)
           f == [k \in Nat |-> run(k)[k]]
<1>1. \A k \in Nat : IsRun(V, first, step, k, run(k))
  BY RunExists
<1> HIDE DEF run
<1>2. f \in [Nat -> V] /\ f[0] = first
  BY <1>1 DEF IsRun
<1>3. ASSUME NEW i \in Nat PROVE f[i + 1] = step[i][f[i]]
  <2>1. run(i + 1)[i + 1] = step[i][run(i + 1)[i]]
    BY <1>1 DEF IsRun
  <2>2. run(i)[i] = run(i + 1)[i]
    BY <1>1, RunsAgree
  <2> QED  BY <2>1, <2>2
<1> HIDE DEF f
<1> QED  BY <1>2, <1>3 DEF Iterates

-----------------------------------------------------------------------------
(* Numbers and their digits.                                                *)

(* Shifted goes through such a run of divisions.                            *)
LEMMA ShiftedRun ==
  ASSUME NEW base \in Nat \ {0}, NEW n \in Int
  PROVE  \E F \in [Nat -> Int] :
           /\ F[0] = n
           /\ \A i \in Nat : F[i + 1] = F[i] \div base
           /\ \A w \in Nat : Shifted(base, n, w) = F[w]
<1> DEFINE step == [i \in Nat |-> [x \in Int |-> x \div base]]
<1>1. step \in [Nat -> [Int -> Int]]
  OBVIOUS
<1>2. PICK F \in [Nat -> Int] : F[0] = n /\ \A i \in Nat : F[i + 1] = step[i][F[i]]
  <2> HIDE DEF step
  <2>1. \E f : Iterates(Int, n, step, f)
    BY <1>1, Iterate, Zenon
  <2> QED  BY <2>1 DEF Iterates
<1>3. \A i \in Nat : F[i + 1] = F[i] \div base
  BY <1>2
<1>4. ASSUME NEW w \in Nat PROVE Shifted(base, n, w) = F[w]
  <2> DEFINE Rest(f) == [i \in 0 .. w |-> IF i = 0 THEN n ELSE f[i - 1] \div base]
             rest == CHOOSE f : f = Rest(f)
             g == [i \in 0 .. w |-> F[i]]
  <2>1. g = Rest(g)
    <3>1. ASSUME NEW i \in 0 .. w PROVE g[i] = IF i = 0 THEN n ELSE g[i - 1] \div base
      <4>1. CASE i = 0
        BY <1>2, <4>1
      <4>2. CASE i # 0
        <5>1. i - 1 \in Nat /\ i - 1 \in 0 .. w /\ (i - 1) + 1 = i
          BY <4>2
        <5>2. F[(i - 1) + 1] = F[i - 1] \div base
          BY <1>3, <5>1
        <5> QED  BY <4>2, <5>1, <5>2
      <4> QED  BY <4>1, <4>2
    <3>2. DOMAIN g = 0 .. w /\ g = [i \in 0 .. w |-> g[i]]
      OBVIOUS
    <3> HIDE DEF g
    <3> QED  BY <3>1, <3>2
  <2>2. rest = Rest(rest)
    <3> HIDE DEF g
    <3> QED  BY <2>1, Zenon
  <2>3. Shifted(base, n, w) = rest[w]
    BY Zenon DEF Shifted
  <2> DEFINE Good == {i \in 0 .. w : rest[i] = F[i]}
  <2>4. \A i \in 0 .. w : rest[i] = IF i = 0 THEN n ELSE rest[i - 1] \div base
    <3> HIDE DEF rest
    <3> QED  BY <2>2
  <2> HIDE DEF rest
  <2>5. 0 \in Good
    BY <1>2, <2>4
  <2>6. ASSUME NEW i \in 0 .. w - 1, i \in Good PROVE i + 1 \in Good
    <3>1. rest[i + 1] = rest[i] \div base
      BY <2>4
    <3> QED  BY <1>3, <2>6, <3>1
  <2> HIDE DEF Good
  <2>7. w \in Good
    BY <2>5, <2>6, UpTo
  <2> QED  BY <2>3, <2>7 DEF Good
<1> QED  BY <1>2, <1>3, <1>4

(* One digit more is one division more.                                     *)
LEMMA ShiftedStep ==
  ASSUME NEW base \in Nat \ {0}, NEW n \in Int, NEW w \in Nat
  PROVE  /\ Shifted(base, n, w) \in Int
         /\ Shifted(base, n, 0) = n
         /\ Shifted(base, n, w + 1) = Shifted(base, n, w) \div base
<1>1. PICK F \in [Nat -> Int] :
           /\ F[0] = n
           /\ \A i \in Nat : F[i + 1] = F[i] \div base
           /\ \A i \in Nat : Shifted(base, n, i) = F[i]
  BY ShiftedRun
<1> QED  BY <1>1

(* Quotient and remainder make up the number,                               *)
LEMMA DivMod ==
  ASSUME NEW n \in Int, NEW b \in Nat \ {0}
  PROVE  /\ n \div b \in Int /\ n % b \in 0 .. b - 1
         /\ n = b * (n \div b) + (n % b)
  OBVIOUS

(* are the only ones that do,                                               *)
LEMMA DivModOf ==
  ASSUME NEW b \in Nat \ {0}, NEW q \in Int, NEW r \in 0 .. b - 1
  PROVE  (r + b * q) \div b = q /\ (r + b * q) % b = r
  OBVIOUS

(* and the quotient of a natural number is one, and no larger.              *)
LEMMA DivNat ==
  ASSUME NEW n \in Nat, NEW b \in Nat \ {0}
  PROVE  n \div b \in Nat /\ n \div b <= n
<1>1. n \div b \in Int /\ n % b \in 0 .. b - 1 /\ n = b * (n \div b) + (n % b)
  BY DivMod
<1> DEFINE q == n \div b
<1>2. q >= 0
  <2>1. CASE q < 0
    <3>1. b * q <= -b
      <4>1. q <= -1 /\ q \in Int
        BY <1>1, <2>1
      <4> HIDE DEF q
      <4> QED  BY <4>1
    <3> QED  BY <1>1, <3>1
  <2> QED  BY <1>1, <2>1
<1>3. b * q >= q
  BY <1>1, <1>2
<1> QED  BY <1>1, <1>2, <1>3

(* What is left of a natural number is one.                                 *)
LEMMA ShiftedNat ==
  ASSUME NEW base \in Nat \ {0}, NEW n \in Nat, NEW w \in Nat
  PROVE  Shifted(base, n, w) \in Nat
<1> DEFINE Good == {i \in Nat : Shifted(base, n, i) \in Nat}
<1>1. 0 \in Good
  BY ShiftedStep
<1>2. ASSUME NEW i \in Nat, i \in Good PROVE i + 1 \in Good
  <2>1. Shifted(base, n, i + 1) = Shifted(base, n, i) \div base
    <3>1. n \in Int
      OBVIOUS
    <3> HIDE DEF Good
    <3> QED  BY <3>1, ShiftedStep
  <2>2. Shifted(base, n, i) \div base \in Nat
    BY <1>2, DivNat
  <2> QED  BY <2>1, <2>2
<1> HIDE DEF Good
<1>3. Nat \subseteq Good
  BY <1>1, <1>2, Always
<1> QED  BY <1>3 DEF Good

(* Shifting twice.                                                          *)
LEMMA ShiftedTwice ==
  ASSUME NEW base \in Nat \ {0}, NEW n \in Int, NEW v \in Nat, NEW w \in Nat
  PROVE  Shifted(base, Shifted(base, n, v), w) = Shifted(base, n, v + w)
<1> DEFINE m == Shifted(base, n, v)
           Good == {i \in Nat : Shifted(base, m, i) = Shifted(base, n, v + i)}
<1>1. m \in Int
  BY ShiftedStep
<1>2. 0 \in Good
  <2>1. Shifted(base, m, 0) = m
    BY <1>1, ShiftedStep
  <2>2. v + 0 = v
    OBVIOUS
  <2> QED  BY <2>1, <2>2
<1> HIDE DEF m
<1>3. ASSUME NEW i \in Nat, i \in Good PROVE i + 1 \in Good
  <2>1. Shifted(base, m, i + 1) = Shifted(base, m, i) \div base
    BY <1>1, ShiftedStep
  <2>2. v + i \in Nat /\ v + (i + 1) = (v + i) + 1
    OBVIOUS
  <2>3. Shifted(base, n, (v + i) + 1) = Shifted(base, n, v + i) \div base
    BY <2>2, ShiftedStep
  <2> QED  BY <1>3, <2>1, <2>2, <2>3
<1> HIDE DEF Good
<1>4. Nat \subseteq Good
  BY <1>2, <1>3, Always
<1> QED  BY <1>4 DEF Good, m

(* above[i] is what the i last bytes spell below top.                       *)
SpellsOut(bytes, top, above) ==
  /\ above \in [0 .. Len(bytes) -> Int]
  /\ above[0] = top
  /\ \A i \in 0 .. Len(bytes) - 1 : above[i + 1] = bytes[Len(bytes) - i] + Base * above[i]

(* Spelt goes through the bytes from the last to the first.                 *)
LEMMA SpeltOut ==
  ASSUME NEW bytes \in Seq(Int), NEW top \in Int
  PROVE  \E above : SpellsOut(bytes, top, above) /\ Spelt(bytes, top) = above[Len(bytes)]
<1> DEFINE len == Len(bytes)
           step == [i \in Nat |-> [x \in Int |->
                      (IF i < len THEN bytes[len - i] ELSE 0) + Base * x]]
<1>1. len \in Nat /\ \A i \in 1 .. len : bytes[i] \in Int
  OBVIOUS
<1> HIDE DEF len
<1>2. step \in [Nat -> [Int -> Int]]
  <2>1. ASSUME NEW i \in Nat, NEW x \in Int
        PROVE  (IF i < len THEN bytes[len - i] ELSE 0) + Base * x \in Int
    <3>1. i < len => len - i \in 1 .. len
      BY <1>1
    <3> QED  BY <1>1, <3>1, SizesAreNat
  <2> QED  BY <2>1
<1>3. PICK F : Iterates(Int, top, step, F)
  <2> HIDE DEF step
  <2> QED  BY <1>2, Iterate, Zenon
<1>4. /\ F \in [Nat -> Int] /\ F[0] = top
      /\ \A i \in 0 .. len - 1 : F[i + 1] = bytes[len - i] + Base * F[i]
  <2>1. ASSUME NEW i \in 0 .. len - 1 PROVE F[i + 1] = bytes[len - i] + Base * F[i]
    <3>1. i \in Nat /\ i < len /\ F[i] \in Int
      BY <1>1, <1>3 DEF Iterates
    <3>2. F[i + 1] = step[i][F[i]]
      BY <1>3, <3>1 DEF Iterates
    <3> QED  BY <3>1, <3>2
  <2> QED  BY <1>3, <2>1 DEF Iterates
<1> DEFINE Above(f) == [i \in 0 .. len |->
                          IF i = 0 THEN top ELSE bytes[len - i + 1] + Base * f[i - 1]]
           above == CHOOSE f : f = Above(f)
           g == [i \in 0 .. len |-> F[i]]
<1>5. g = Above(g)
  <2>1. ASSUME NEW i \in 0 .. len
        PROVE  g[i] = IF i = 0 THEN top ELSE bytes[len - i + 1] + Base * g[i - 1]
    <3>1. CASE i = 0
      BY <1>4, <3>1
    <3>2. CASE i # 0
      <4>1. i - 1 \in 0 .. len - 1 /\ (i - 1) + 1 = i /\ len - (i - 1) = len - i + 1
        BY <1>1, <3>2
      <4>2. F[(i - 1) + 1] = bytes[len - (i - 1)] + Base * F[i - 1]
        BY <1>4, <4>1
      <4>3. g[i] = F[i] /\ g[i - 1] = F[i - 1]
        BY <1>1, <4>1
      <4> QED  BY <3>2, <4>1, <4>2, <4>3
    <3> QED  BY <3>1, <3>2
  <2>2. g = [i \in 0 .. len |-> g[i]]
    OBVIOUS
  <2> HIDE DEF g
  <2> QED  BY <2>1, <2>2
<1>6. above = Above(above)
  <2> HIDE DEF g
  <2> QED  BY <1>5, Zenon
<1>7. Spelt(bytes, top) = above[len]
  BY Zenon DEF Spelt, len
<1>8. \A i \in 0 .. len :
        above[i] = IF i = 0 THEN top ELSE bytes[len - i + 1] + Base * above[i - 1]
  <2> HIDE DEF above
  <2> QED  BY <1>6
<1> DEFINE Good == {i \in 0 .. len : above[i] = F[i]}
<1>9. 0 \in Good
  <2> HIDE DEF above
  <2> QED  BY <1>1, <1>4, <1>8
<1>10. ASSUME NEW i \in 0 .. len - 1, i \in Good PROVE i + 1 \in Good
  <2> HIDE DEF above
  <2>1. i + 1 \in 0 .. len /\ i + 1 # 0 /\ (i + 1) - 1 = i /\ len - (i + 1) + 1 = len - i
    BY <1>1
  <2>2. above[i + 1] = bytes[len - i] + Base * above[i]
    BY <1>8, <2>1
  <2> QED  BY <1>4, <1>10, <2>1, <2>2
<1>11. \A i \in 0 .. len : above[i] = F[i]
  <2> HIDE DEF Good
  <2>1. \A i \in 0 .. len : i \in Good
    BY <1>1, <1>9, <1>10, UpTo
  <2> QED  BY <2>1 DEF Good
<1>12. above = [i \in 0 .. len |-> above[i]]
  <2> HIDE DEF above
  <2>1. DOMAIN Above(above) = 0 .. len
    OBVIOUS
  <2> QED  BY <1>6
<1>13. SpellsOut(bytes, top, above)
  <2> HIDE DEF above
  <2>1. above \in [0 .. len -> Int]
    BY <1>4, <1>11, <1>12
  <2>2. \A i \in 0 .. len - 1 : above[i + 1] = bytes[len - i] + Base * above[i]
    BY <1>1, <1>4, <1>11
  <2>3. above[0] = top
    BY <1>1, <1>4, <1>11
  <2> QED  BY <2>1, <2>2, <2>3 DEF SpellsOut, len
<1> QED  BY <1>7, <1>13 DEF len

(* A sequence over S is one over whatever S is part of.                     *)
LEMMA SeqOfMore ==
  ASSUME NEW S, NEW T, S \subseteq T, NEW s \in Seq(S)
  PROVE  s \in Seq(T)
<1>1. Len(s) \in Nat /\ s \in [1 .. Len(s) -> T]
  OBVIOUS
<1> QED  BY <1>1

(* Bytes spell an integer, and below a natural number a natural one.        *)
LEMMA SpeltTyped ==
  ASSUME NEW bytes \in Seq(Nat), NEW top \in Int
  PROVE  /\ Spelt(bytes, top) \in Int
         /\ top \in Nat => Spelt(bytes, top) \in Nat
<1>1. bytes \in Seq(Int) /\ Len(bytes) \in Nat /\ \A i \in 1 .. Len(bytes) : bytes[i] \in Nat
  OBVIOUS
<1>2. PICK above : SpellsOut(bytes, top, above) /\ Spelt(bytes, top) = above[Len(bytes)]
  BY <1>1, SpeltOut
<1>3. Spelt(bytes, top) \in Int
  BY <1>1, <1>2 DEF SpellsOut
<1>4. ASSUME top \in Nat PROVE Spelt(bytes, top) \in Nat
  <2> DEFINE Good == {i \in 0 .. Len(bytes) : above[i] \in Nat}
  <2>1. 0 \in Good
    BY <1>1, <1>2, <1>4 DEF SpellsOut
  <2>2. ASSUME NEW i \in 0 .. Len(bytes) - 1, i \in Good PROVE i + 1 \in Good
    <3>1. above[i + 1] = bytes[Len(bytes) - i] + Base * above[i]
      BY <1>2 DEF SpellsOut
    <3>2. Len(bytes) - i \in 1 .. Len(bytes)
      BY <1>1
    <3>3. bytes[Len(bytes) - i] \in Nat /\ above[i] \in Nat /\ Base \in Nat
      BY <1>1, <2>2, <3>2, SizesAreNat
    <3>4. Base * above[i] \in Nat
      BY <3>3
    <3>5. above[i + 1] \in Nat
      <4> HIDE DEF Good
      <4> QED  BY <3>1, <3>3, <3>4
    <3>6. i + 1 \in 0 .. Len(bytes)
      BY <1>1
    <3> QED  BY <3>5, <3>6
  <2> HIDE DEF Good
  <2>3. \A i \in 0 .. Len(bytes) : i \in Good
    BY <1>1, <2>1, <2>2, UpTo
  <2>4. Len(bytes) \in Good
    BY <1>1, <2>3
  <2> QED  BY <1>2, <2>4 DEF Good
<1> QED  BY <1>3, <1>4

(* BytesOf gives as many bytes as it is asked for.                          *)
LEMMA BytesTyped ==
  ASSUME NEW n \in Int, NEW w \in Nat
  PROVE  BytesOf(n, w) \in Seq(Byte) /\ Len(BytesOf(n, w)) = w
<1>1. ASSUME NEW i \in 1 .. w PROVE Shifted(Base, n, i - 1) % Base \in Byte
  <2>1. i - 1 \in Nat /\ Base \in Nat \ {0}
    BY SizesAreNat
  <2>2. Shifted(Base, n, i - 1) \in Int
    BY <2>1, ShiftedStep
  <2> QED  BY <2>1, <2>2, DivMod DEF Byte
<1> QED  BY <1>1 DEF BytesOf

(* A byte is a natural number.                                              *)
LEMMA ByteIsNat == Byte \subseteq Nat /\ Seq(Byte) \subseteq Seq(Nat)
<1>1. Byte \subseteq Nat
  BY SizesAreNat DEF Byte
<1> QED  BY <1>1, SeqOfMore

(* The bytes of n spell n below what is left of it.                         *)
LEMMA SpeltBytes ==
  ASSUME NEW n \in Int, NEW w \in Nat
  PROVE  Spelt(BytesOf(n, w), Shifted(Base, n, w)) = n
<1> DEFINE bytes == BytesOf(n, w)
           top == Shifted(Base, n, w)
<1>1. Base \in Nat \ {0}
  BY SizesAreNat
<1>2. /\ bytes \in Seq(Int) /\ Len(bytes) = w /\ top \in Int
      /\ \A i \in 1 .. w : bytes[i] = Shifted(Base, n, i - 1) % Base
  <2>1. top \in Int
    BY <1>1, ShiftedStep
  <2>2. bytes \in Seq(Byte) /\ Len(bytes) = w
    BY BytesTyped
  <2>3. bytes \in Seq(Int)
    <3>1. Byte \subseteq Int
      BY ByteIsNat
    <3> HIDE DEF bytes
    <3> QED  BY <2>2, <3>1, SeqOfMore
  <2> QED  BY <2>1, <2>2, <2>3 DEF BytesOf
<1> HIDE DEF bytes, top
<1>3. PICK above : SpellsOut(bytes, top, above) /\ Spelt(bytes, top) = above[Len(bytes)]
  BY <1>2, SpeltOut
<1> DEFINE Good == {i \in 0 .. w : above[i] = Shifted(Base, n, w - i)}
<1>4. 0 \in Good
  <2>1. w - 0 = w
    OBVIOUS
  <2> QED  BY <1>3, <2>1 DEF SpellsOut, top
<1>5. ASSUME NEW i \in 0 .. w - 1, i \in Good PROVE i + 1 \in Good
  <2> DEFINE k == w - (i + 1)
             m == Shifted(Base, n, k)
  <2>1. k \in Nat /\ k + 1 = w - i /\ w - i \in 1 .. w /\ (w - i) - 1 = k
    OBVIOUS
  <2>2. above[i + 1] = bytes[w - i] + Base * above[i]
    BY <1>2, <1>3 DEF SpellsOut
  <2>3. bytes[w - i] = m % Base
    BY <1>2, <2>1
  <2> HIDE DEF k
  <2>4. m \in Int /\ above[i] = m \div Base
    <3>1. Shifted(Base, n, k + 1) = m \div Base /\ m \in Int
      BY <1>1, <2>1, ShiftedStep
    <3> QED  BY <1>5, <2>1, <3>1
  <2> HIDE DEF m
  <2>5. m = Base * (m \div Base) + (m % Base) /\ m \div Base \in Int /\ m % Base \in 0 .. Base - 1
    BY <1>1, <2>4, DivMod
  <2>6. above[i + 1] = m
    BY <1>1, <2>2, <2>3, <2>4, <2>5
  <2> QED  BY <2>6 DEF m, k
<1> HIDE DEF Good
<1>6. w \in Good
  BY <1>4, <1>5, UpTo
<1>7. w - w = 0 /\ Shifted(Base, n, 0) = n
  BY <1>1, ShiftedStep
<1> QED  BY <1>2, <1>3, <1>6, <1>7 DEF Good, bytes, top

-----------------------------------------------------------------------------
(* Bytes that stand in a buffer.                                            *)

(* The bytes w stand in buf behind offset from.                            *)
At(buf, from, w) ==
  /\ from + Len(w) <= Len(buf)
  /\ \A i \in 1 .. Len(w) : buf[from + i] = w[i]

(* Where a \o b stands, a stands, and b behind it.                          *)
LEMMA AtConcat ==
  ASSUME NEW S, NEW buf \in Seq(S), NEW from \in Nat, NEW a \in Seq(S), NEW b \in Seq(S),
         At(buf, from, a \o b)
  PROVE  At(buf, from, a) /\ At(buf, from + Len(a), b)
<1>1. /\ Len(a) \in Nat /\ Len(b) \in Nat /\ Len(buf) \in Nat
      /\ Len(a \o b) = Len(a) + Len(b)
      /\ \A i \in 1 .. Len(a) : (a \o b)[i] = a[i]
      /\ \A i \in 1 .. Len(b) : (a \o b)[Len(a) + i] = b[i]
  OBVIOUS
<1>2. At(buf, from, a)
  BY <1>1 DEF At
<1>3. ASSUME NEW i \in 1 .. Len(b) PROVE buf[(from + Len(a)) + i] = b[i]
  <2>1. Len(a) + i \in 1 .. Len(a \o b) /\ (from + Len(a)) + i = from + (Len(a) + i)
    BY <1>1
  <2> QED  BY <1>1, <2>1 DEF At
<1>4. At(buf, from + Len(a), b)
  BY <1>1, <1>3 DEF At
<1> QED  BY <1>2, <1>4

(* What stands there is what is cut out there.                              *)
LEMMA AtSlice ==
  ASSUME NEW S, NEW buf \in Seq(S), NEW from \in Nat, NEW w \in Seq(S), At(buf, from, w)
  PROVE  Slice(buf, from, from + Len(w)) = w
<1> DEFINE cut == Slice(buf, from, from + Len(w))
<1>1. Len(w) \in Nat /\ Len(buf) \in Nat /\ from + Len(w) <= Len(buf)
  BY DEF At
<1>2. cut = SubSeq(buf, from + 1, from + Len(w))
  BY <1>1 DEF Slice
<1>3. /\ Len(cut) = Len(w) /\ cut \in Seq(S)
      /\ \A i \in 1 .. Len(w) : cut[i] = buf[from + i]
  <2>1. from + 1 \in Nat /\ from + Len(w) \in Nat /\ (from + Len(w)) - (from + 1) + 1 = Len(w)
    BY <1>1
  <2>2. cut \in Seq(S) /\ Len(cut) = Len(w)
    <3>1. SubSeq(buf, from + 1, from + Len(w)) \in Seq(S)
      BY <1>1, <2>1
    <3>2. Len(SubSeq(buf, from + 1, from + Len(w))) = Len(w)
      BY <1>1, <2>1
    <3> QED  BY <1>2, <3>1, <3>2
  <2>3. ASSUME NEW i \in 1 .. Len(w) PROVE cut[i] = buf[from + i]
    BY <1>1, <1>2, <2>1
  <2> QED  BY <2>2, <2>3
<1> HIDE DEF cut
<1>4. \A i \in 1 .. Len(w) : cut[i] = w[i]
  BY <1>3 DEF At
<1> QED  BY <1>3, <1>4 DEF cut

(* A slice is made of bytes, as many as its ends are apart.                 *)
LEMMA SliceTyped ==
  ASSUME NEW S, NEW buf \in Seq(S), NEW from \in Nat, NEW to \in Nat
  PROVE  /\ Slice(buf, from, to) \in Seq(S)
         /\ from <= to /\ to <= Len(buf) => Len(Slice(buf, from, to)) = to - from
  BY DEF Slice

(* Bytes stand at their own beginning.                                      *)
LEMMA AtItself ==
  ASSUME NEW S, NEW w \in Seq(S)
  PROVE  At(w, 0, w)
  BY DEF At

Joined(parts, k) == FlattenSeq(SubSeq(parts, 1, k))

(* The first k parts are joined one by one.                                 *)
LEMMA JoinedRun ==
  ASSUME NEW S, NEW parts \in Seq(Seq(S))
  PROVE  \E F \in [Nat -> Seq(S)] :
           /\ F[0] = <<>>
           /\ \A k \in 0 .. Len(parts) - 1 : F[k + 1] = F[k] \o parts[k + 1]
           /\ \A k \in 0 .. Len(parts) : Joined(parts, k) = F[k]
<1> DEFINE n == Len(parts)
           V == Seq(S)
           step == [i \in Nat |-> [x \in V |-> IF i < n THEN x \o parts[i + 1] ELSE x]]
<1>1. n \in Nat /\ \A i \in 1 .. n : parts[i] \in V
  OBVIOUS
<1>2. step \in [Nat -> [V -> V]] /\ <<>> \in V
  <2>1. ASSUME NEW i \in Nat, NEW x \in V
        PROVE  (IF i < n THEN x \o parts[i + 1] ELSE x) \in V
    <3>1. i < n => i + 1 \in 1 .. n
      BY <1>1
    <3> QED  BY <1>1, <3>1
  <2> QED  BY <2>1
<1> HIDE DEF n
<1>3. PICK F : Iterates(V, <<>>, step, F)
  <2> HIDE DEF step, V
  <2> QED  BY <1>2, Iterate, Zenon
<1>4. /\ F \in [Nat -> V] /\ F[0] = <<>>
      /\ \A i \in 0 .. n - 1 : F[i + 1] = F[i] \o parts[i + 1]
  <2>1. ASSUME NEW i \in 0 .. n - 1 PROVE F[i + 1] = F[i] \o parts[i + 1]
    <3>1. i \in Nat /\ i < n /\ F[i] \in V
      BY <1>1, <1>3 DEF Iterates
    <3>2. F[i + 1] = step[i][F[i]]
      BY <1>3, <3>1 DEF Iterates
    <3> QED  BY <3>1, <3>2
  <2> QED  BY <1>3, <2>1 DEF Iterates
<1>5. ASSUME NEW k \in 0 .. n PROVE Joined(parts, k) = F[k]
  <2> DEFINE s == SubSeq(parts, 1, k)
  <2>1. Len(s) = k /\ \A i \in 1 .. k : s[i] = parts[i]
    BY <1>1 DEF n
  <2> HIDE DEF s
  <2>2. CASE k = 0
    <3>1. s = <<>>
      BY <2>2 DEF s, n
    <3>2. FlattenSeq(s) = s
      BY <2>1, <2>2 DEF FlattenSeq
    <3> QED  BY <1>4, <2>2, <3>1, <3>2 DEF Joined, s
  <2>3. CASE k # 0
    <3> DEFINE Flat(f) == [i \in 1 .. Len(s) |-> IF i = 1 THEN s[i] ELSE f[i - 1] \o s[i]]
               flat == CHOOSE f : f = Flat(f)
               g == [i \in 1 .. Len(s) |-> F[i]]
    <3>1. g = Flat(g)
      <4>1. ASSUME NEW i \in 1 .. Len(s)
            PROVE  g[i] = IF i = 1 THEN s[i] ELSE g[i - 1] \o s[i]
        <5>1. i - 1 \in 0 .. n - 1 /\ (i - 1) + 1 = i /\ i \in 1 .. n /\ s[i] = parts[i]
          BY <1>1, <2>1
        <5>2. F[i] = F[i - 1] \o parts[i]
          BY <1>4, <5>1
        <5>3. CASE i = 1
          <6>1. parts[1] \in Seq(S)
            BY <1>1, <5>1, <5>3
          <6>2. <<>> \o parts[1] = parts[1]
            BY <6>1
          <6>3. F[i] = s[i]
            <7>1. i - 1 = 0 /\ F[0] = <<>>
              BY <1>4, <5>3
            <7>2. F[i] = F[0] \o parts[1]
              BY <5>2, <5>3, <7>1
            <7>3. s[i] = parts[1]
              BY <5>1, <5>3
            <7> QED  BY <6>2, <7>1, <7>2, <7>3
          <6> QED  BY <5>3, <6>3
        <5>4. CASE i # 1
          <6>1. i - 1 \in 1 .. Len(s)
            BY <2>1, <5>1, <5>4
          <6> QED  BY <5>1, <5>2, <5>4, <6>1
        <5> QED  BY <5>3, <5>4
      <4>2. g = [i \in 1 .. Len(s) |-> g[i]]
        OBVIOUS
      <4> HIDE DEF g
      <4> QED  BY <4>1, <4>2
    <3>2. flat = Flat(flat)
      <4> HIDE DEF g
      <4> QED  BY <3>1, Zenon
    <3>3. FlattenSeq(s) = flat[Len(s)]
      <4>1. Len(s) # 0
        BY <2>1, <2>3
      <4> QED  BY <4>1, Zenon DEF FlattenSeq
    <3>4. \A i \in 1 .. k : flat[i] = IF i = 1 THEN s[i] ELSE flat[i - 1] \o s[i]
      <4> HIDE DEF flat
      <4> QED  BY <2>1, <3>2
    <3> HIDE DEF flat, g
    <3> DEFINE Good == {i \in 0 .. k - 1 : flat[i + 1] = F[i + 1]}
    <3>5. 0 \in Good
      <4>1. 1 \in 1 .. k /\ 1 \in 1 .. n /\ 0 \in 0 .. n - 1 /\ 0 + 1 = 1
        BY <1>1, <2>3
      <4>2. flat[1] = parts[1] /\ F[1] = <<>> \o parts[1] /\ parts[1] \in Seq(S)
        BY <1>1, <1>4, <2>1, <3>4, <4>1
      <4>3. <<>> \o parts[1] = parts[1]
        BY <4>2
      <4> QED  BY <2>3, <4>1, <4>2, <4>3
    <3>6. ASSUME NEW i \in 0 .. (k - 1) - 1, i \in Good PROVE i + 1 \in Good
      <4>1. /\ i + 2 \in 1 .. k /\ i + 2 # 1 /\ (i + 2) - 1 = i + 1 /\ (i + 1) + 1 = i + 2
            /\ i + 1 \in 0 .. n - 1 /\ i + 1 \in 0 .. k - 1
        BY <1>1
      <4>2. flat[i + 2] = flat[i + 1] \o s[i + 2] /\ s[i + 2] = parts[i + 2]
        BY <2>1, <3>4, <4>1
      <4>3. F[i + 2] = F[i + 1] \o parts[i + 2]
        BY <1>4, <4>1
      <4> QED  BY <3>6, <4>1, <4>2, <4>3
    <3>7. k - 1 \in Good
      <4> HIDE DEF Good
      <4>1. k - 1 \in Nat
        BY <2>3
      <4>2. \A i \in 0 .. k - 1 : i \in Good
        BY <3>5, <3>6, <4>1, UpTo
      <4> QED  BY <4>1, <4>2
    <3>8. (k - 1) + 1 = k
      OBVIOUS
    <3> QED  BY <2>1, <3>3, <3>7, <3>8 DEF Joined, s
  <2> QED  BY <2>2, <2>3
<1> QED  BY <1>4, <1>5 DEF n

(* One part more goes behind those before it.                               *)
LEMMA JoinedStep ==
  ASSUME NEW S, NEW parts \in Seq(Seq(S))
  PROVE  /\ Joined(parts, 0) = <<>>
         /\ \A k \in 0 .. Len(parts) : Joined(parts, k) \in Seq(S)
         /\ \A k \in 0 .. Len(parts) - 1 : Joined(parts, k + 1) = Joined(parts, k) \o parts[k + 1]
         /\ FlattenSeq(parts) = Joined(parts, Len(parts))
<1>1. PICK F \in [Nat -> Seq(S)] :
           /\ F[0] = <<>>
           /\ \A k \in 0 .. Len(parts) - 1 : F[k + 1] = F[k] \o parts[k + 1]
           /\ \A k \in 0 .. Len(parts) : Joined(parts, k) = F[k]
  BY JoinedRun
<1>2. Len(parts) \in Nat /\ SubSeq(parts, 1, Len(parts)) = parts
  OBVIOUS
<1>3. FlattenSeq(parts) = Joined(parts, Len(parts))
  BY <1>2 DEF Joined
<1>4. \A k \in 0 .. Len(parts) : Joined(parts, k) \in Seq(S)
  BY <1>1
<1>5. ASSUME NEW k \in 0 .. Len(parts) - 1
      PROVE  Joined(parts, k + 1) = Joined(parts, k) \o parts[k + 1]
  <2>1. k \in 0 .. Len(parts) /\ k + 1 \in 0 .. Len(parts)
    BY <1>2
  <2> QED  BY <1>1, <2>1
<1>6. Joined(parts, 0) = <<>>
  BY <1>1, <1>2
<1> QED  BY <1>3, <1>4, <1>5, <1>6

(* Where joined parts stand, each stands behind those before it.            *)
LEMMA AtParts ==
  ASSUME NEW S, NEW buf \in Seq(S), NEW from \in Nat, NEW parts \in Seq(Seq(S)),
         At(buf, from, FlattenSeq(parts)), NEW k \in 1 .. Len(parts)
  PROVE  At(buf, from + Len(Joined(parts, k - 1)), parts[k])
<1> DEFINE n == Len(parts)
           Good == {j \in 0 .. n : At(buf, from, Joined(parts, n - j))}
<1>1. n \in Nat /\ \A i \in 1 .. n : parts[i] \in Seq(S)
  OBVIOUS
<1>2. /\ \A i \in 0 .. n : Joined(parts, i) \in Seq(S)
      /\ \A i \in 0 .. n - 1 : Joined(parts, i + 1) = Joined(parts, i) \o parts[i + 1]
      /\ FlattenSeq(parts) = Joined(parts, n)
  BY JoinedStep
<1> HIDE DEF n
<1>3. ASSUME NEW i \in 0 .. n - 1, At(buf, from, Joined(parts, i + 1))
      PROVE  /\ At(buf, from, Joined(parts, i))
             /\ At(buf, from + Len(Joined(parts, i)), parts[i + 1])
  <2>1. i \in 0 .. n /\ i + 1 \in 1 .. n
    BY <1>1
  <2>2. /\ Joined(parts, i) \in Seq(S) /\ parts[i + 1] \in Seq(S)
        /\ At(buf, from, Joined(parts, i) \o parts[i + 1])
    BY <1>1, <1>2, <1>3, <2>1
  <2> QED  BY <2>2, AtConcat
<1>4. 0 \in Good
  <2>1. n - 0 = n
    BY <1>1
  <2> QED  BY <1>1, <1>2, <2>1
<1>5. ASSUME NEW j \in 0 .. n - 1, j \in Good PROVE j + 1 \in Good
  <2>1. n - (j + 1) \in 0 .. n - 1 /\ (n - (j + 1)) + 1 = n - j /\ j + 1 \in 0 .. n
    BY <1>1
  <2>2. At(buf, from, Joined(parts, n - (j + 1)))
    BY <1>3, <1>5, <2>1
  <2> QED  BY <2>1, <2>2
<1>6. \A j \in 0 .. n : j \in Good
  <2> HIDE DEF Good
  <2> QED  BY <1>1, <1>4, <1>5, UpTo
<1>7. n - k \in 0 .. n /\ n - (n - k) = k /\ k - 1 \in 0 .. n - 1 /\ (k - 1) + 1 = k
  BY <1>1 DEF n
<1>8. At(buf, from, Joined(parts, k))
  BY <1>6, <1>7
<1> QED  BY <1>3, <1>7, <1>8

(* Parts of one width are joined to a multiple of it.                       *)
LEMMA JoinedLen ==
  ASSUME NEW S, NEW parts \in Seq(Seq(S)), NEW w \in Nat,
         \A i \in 1 .. Len(parts) : Len(parts[i]) = w
  PROVE  \A k \in 0 .. Len(parts) : Len(Joined(parts, k)) = k * w
<1> DEFINE n == Len(parts)
           Good == {k \in 0 .. n : Len(Joined(parts, k)) = k * w}
<1>1. n \in Nat /\ \A i \in 1 .. n : parts[i] \in Seq(S)
  OBVIOUS
<1>2. /\ Joined(parts, 0) = <<>>
      /\ \A i \in 0 .. n : Joined(parts, i) \in Seq(S)
      /\ \A i \in 0 .. n - 1 : Joined(parts, i + 1) = Joined(parts, i) \o parts[i + 1]
  BY JoinedStep
<1>3. 0 \in Good
  <2>1. Len(<<>>) = 0 /\ 0 * w = 0
    OBVIOUS
  <2> QED  BY <1>1, <1>2, <2>1
<1>4. ASSUME NEW k \in 0 .. n - 1, k \in Good PROVE k + 1 \in Good
  <2> HIDE DEF n
  <2>1. k \in 0 .. n /\ k + 1 \in 1 .. n
    BY <1>1
  <2>2. Joined(parts, k) \in Seq(S) /\ parts[k + 1] \in Seq(S) /\ Len(parts[k + 1]) = w
    BY <1>1, <1>2, <2>1 DEF n
  <2>3. Len(Joined(parts, k + 1)) = Len(Joined(parts, k)) + w
    BY <1>2, <2>2
  <2>4. k * w + w = (k + 1) * w
    OBVIOUS
  <2>5. Len(Joined(parts, k)) = k * w
    BY <1>4
  <2>6. Len(Joined(parts, k + 1)) = (k + 1) * w
    BY <2>3, <2>4, <2>5
  <2>7. k + 1 \in 0 .. n
    BY <1>1
  <2> QED  BY <2>6, <2>7
<1> HIDE DEF Good, n
<1>5. \A k \in 0 .. n : k \in Good
  BY <1>1, <1>3, <1>4, UpTo
<1> QED  BY <1>5 DEF Good, n

(* serialize_uint refuses what does not fit, and writes the rest in w       *)
(* bytes.                                                                   *)
LEMMA UintTyped ==
  ASSUME NEW n, NEW w \in Nat, serialize_uint(n, w) # None
  PROVE  /\ n \in Nat /\ Shifted(Base, n, w) = 0
         /\ serialize_uint(n, w) = BytesOf(n, w)
         /\ serialize_uint(n, w) \in Seq(Byte) /\ Len(serialize_uint(n, w)) = w
<1>1. n \in Nat /\ Shifted(Base, n, w) = 0 /\ serialize_uint(n, w) = BytesOf(n, w)
  BY DEF serialize_uint
<1>2. n \in Int
  BY <1>1
<1> QED  BY <1>1, <1>2, BytesTyped

(* Where a number was written, that number is read.                         *)
LEMMA NumberAt ==
  ASSUME NEW buf \in Seq(Byte), NEW from \in Nat, NEW n \in Nat, NEW w \in Nat,
         Shifted(Base, n, w) = 0, At(buf, from, BytesOf(n, w))
  PROVE  /\ Enough(buf, from, w)
         /\ Slice(buf, from, from + w) = BytesOf(n, w)
         /\ Number(buf, from, w) = n
<1>1. n \in Int
  OBVIOUS
<1>2. BytesOf(n, w) \in Seq(Byte) /\ Len(BytesOf(n, w)) = w
  BY <1>1, BytesTyped
<1>3. Enough(buf, from, w)
  BY <1>2 DEF At, Enough
<1>4. Slice(buf, from, from + w) = BytesOf(n, w)
  <2>1. Slice(buf, from, from + Len(BytesOf(n, w))) = BytesOf(n, w)
    BY <1>2, AtSlice
  <2> QED  BY <1>2, <2>1
<1>5. Spelt(BytesOf(n, w), 0) = n
  <2>1. Spelt(BytesOf(n, w), Shifted(Base, n, w)) = n
    BY <1>1, SpeltBytes
  <2> QED  BY <2>1
<1> QED  BY <1>3, <1>4, <1>5 DEF Number, NumberOf

(* The same of whatever serialize_uint has written.                         *)
LEMMA UintAt ==
  ASSUME NEW buf \in Seq(Byte), NEW from \in Nat, NEW n, NEW w \in Nat,
         serialize_uint(n, w) # None, At(buf, from, serialize_uint(n, w))
  PROVE  Enough(buf, from, w) /\ Number(buf, from, w) = n
  BY UintTyped, NumberAt

(* Whatever is read as a number is one.                                     *)
LEMMA NumberTyped ==
  ASSUME NEW buf \in Seq(Byte), NEW from \in Nat, NEW w \in Nat
  PROVE  Number(buf, from, w) \in Nat
<1>1. from + w \in Nat
  OBVIOUS
<1>2. Slice(buf, from, from + w) \in Seq(Nat)
  BY <1>1, SliceTyped, ByteIsNat
<1> QED  BY <1>2, SpeltTyped DEF Number, NumberOf

-----------------------------------------------------------------------------
(* Scalars come back.                                                       *)

(* The readers' results are told from an exception.                         *)
NoneIsNoReading == \A v, next : Read(v, next) # None

(* Bytes from which the reader of type t gives back v.                      *)
Restores(t, v, w) ==
  \A buf \in Seq(Byte), from \in Nat :
    At(buf, from, w) =>
      \E next \in Nat : /\ deserialize_value(t, buf, from) = Read(v, next)
                        /\ ~ EndsInZero(t, v) => next = from + Len(w)

(* An unsigned integer comes back,                                          *)
LEMMA UintRestored ==
  ASSUME NEW t, t.k = "uint", t.w \in Nat, NEW v, serialize_uint(v, t.w) # None
  PROVE  Restores(t, v, serialize_uint(v, t.w))
<1> SUFFICES ASSUME NEW buf \in Seq(Byte), NEW from \in Nat,
                    At(buf, from, serialize_uint(v, t.w))
             PROVE  deserialize_value(t, buf, from)
                      = Read(v, from + Len(serialize_uint(v, t.w)))
  <2>1. Len(serialize_uint(v, t.w)) \in Nat
    BY UintTyped
  <2> QED  BY <2>1 DEF Restores
<1>1. Len(serialize_uint(v, t.w)) = t.w
  BY UintTyped
<1>2. Enough(buf, from, t.w) /\ Number(buf, from, t.w) = v
  BY UintAt
<1>3. deserialize_value(t, buf, from) = deserialize_fixed(t, buf, from)
  BY DEF deserialize_value, FixedKinds
<1>4. WidthOf(t) = t.w
  BY DEF WidthOf
<1>5. deserialize_fixed(t, buf, from) = Read(v, from + t.w)
  BY <1>2, <1>4 DEF deserialize_fixed, Number
<1> QED  BY <1>1, <1>3, <1>5

(* an enum comes back as its number,                                        *)
LEMMA EnumRestored ==
  ASSUME NEW t, t.k = "enum", NEW v, serialize_uint(v, 2) # None
  PROVE  Restores(t, v, serialize_uint(v, 2))
<1> SUFFICES ASSUME NEW buf \in Seq(Byte), NEW from \in Nat,
                    At(buf, from, serialize_uint(v, 2))
             PROVE  deserialize_value(t, buf, from)
                      = Read(v, from + Len(serialize_uint(v, 2)))
  <2>1. Len(serialize_uint(v, 2)) \in Nat
    BY UintTyped
  <2> QED  BY <2>1 DEF Restores
<1>1. Len(serialize_uint(v, 2)) = 2
  BY UintTyped
<1>2. Enough(buf, from, 2) /\ Number(buf, from, 2) = v
  BY UintAt
<1>3. deserialize_value(t, buf, from) = deserialize_fixed(t, buf, from)
  BY DEF deserialize_value, FixedKinds
<1>4. WidthOf(t) = 2
  BY DEF WidthOf
<1>5. deserialize_fixed(t, buf, from) = Read(v, from + 2)
  BY <1>2, <1>4 DEF deserialize_fixed, Number
<1> QED  BY <1>1, <1>3, <1>5

(* The sign bit is what is left above the bytes of a number within range.   *)
LEMMA SignOfBytes ==
  ASSUME NEW n \in Int, NEW w \in Nat \ {0},
         Shifted(Base, n, w - 1) \in -(Base \div 2) .. Base \div 2 - 1
  PROVE  SignedOf(BytesOf(n, w)) = n
<1> DEFINE bytes == BytesOf(n, w)
           m == Shifted(Base, n, w - 1)
           half == Base \div 2
<1>1. /\ Base \in Nat \ {0} /\ half \in Nat \ {0} /\ Base = 2 * half
      /\ w - 1 \in Nat /\ (w - 1) + 1 = w
  BY SizesAreNat
<1>2. bytes \in Seq(Byte) /\ Len(bytes) = w /\ bytes # <<>>
  <2>1. bytes \in Seq(Byte) /\ Len(bytes) = w
    BY BytesTyped
  <2>2. Len(<<>>) = 0
    OBVIOUS
  <2> QED  BY <2>1, <2>2
<1>3. Last(bytes) = m % Base
  <2>1. Last(bytes) = bytes[w]
    BY <1>2 DEF Last
  <2>2. w \in 1 .. w
    BY <1>1
  <2> QED  BY <2>1, <2>2 DEF BytesOf
<1>4. Shifted(Base, n, w) = m \div Base /\ m \in Int
  <2>1. Shifted(Base, n, (w - 1) + 1) = m \div Base /\ m \in Int
    BY <1>1, ShiftedStep
  <2> QED  BY <1>1, <2>1
<1> HIDE DEF bytes, m, half
<1>5. m \in Int /\ m \in -half .. half - 1
  BY <1>4 DEF m, half
<1>6. m \div Base = IF m % Base >= half THEN -1 ELSE 0
  <2>1. CASE m >= 0
    <3>1. m \in 0 .. Base - 1 /\ m = m + Base * 0
      BY <1>1, <1>5, <2>1
    <3>2. m \div Base = 0 /\ m % Base = m
      BY <1>1, <3>1
    <3> QED  BY <1>1, <1>5, <3>2
  <2>2. CASE m < 0
    <3> DEFINE r == m + Base
    <3>1. r \in 0 .. Base - 1 /\ m = r + Base * (-1) /\ r >= half
      BY <1>1, <1>5, <2>2
    <3>2. m \div Base = -1 /\ m % Base = r
      <4> HIDE DEF r
      <4> QED  BY <1>1, <3>1
    <3> QED  BY <3>1, <3>2
  <2> QED  BY <1>5, <2>1, <2>2
<1>7. Spelt(bytes, m \div Base) = n
  BY <1>4, SpeltBytes DEF bytes
<1> QED  BY <1>2, <1>3, <1>6, <1>7 DEF SignedOf, half, bytes

(* and a signed integer comes back from its complement.                     *)
LEMMA IntRestored ==
  ASSUME NEW t, t.k = "int", t.w \in Nat \ {0}, NEW v, serialize_int(v, t.w) # None
  PROVE  /\ serialize_int(v, t.w) \in Seq(Byte)
         /\ Restores(t, v, serialize_int(v, t.w))
<1> DEFINE w == serialize_int(v, t.w)
<1>1. /\ v \in Int /\ w = BytesOf(v, t.w)
      /\ Shifted(Base, v, t.w - 1) \in -(Base \div 2) .. Base \div 2 - 1
  BY DEF serialize_int
<1>2. w \in Seq(Byte) /\ Len(w) = t.w
  BY <1>1, BytesTyped
<1> HIDE DEF w
<1>3. ASSUME NEW buf \in Seq(Byte), NEW from \in Nat, At(buf, from, w)
      PROVE  deserialize_value(t, buf, from) = Read(v, from + Len(w))
  <2>1. Slice(buf, from, from + t.w) = w
    BY <1>2, <1>3, AtSlice
  <2>2. Enough(buf, from, t.w)
    BY <1>2, <1>3 DEF At, Enough
  <2>3. deserialize_value(t, buf, from) = deserialize_fixed(t, buf, from)
    BY DEF deserialize_value, FixedKinds
  <2>4. WidthOf(t) = t.w
    BY DEF WidthOf
  <2>5. SignedOf(w) = v
    BY <1>1, SignOfBytes
  <2>6. deserialize_fixed(t, buf, from) = Read(SignedOf(w), from + t.w)
    BY <2>1, <2>2, <2>4 DEF deserialize_fixed
  <2> QED  BY <1>2, <2>3, <2>5, <2>6
<1>4. Restores(t, v, w)
  <2>1. Len(w) \in Nat
    BY <1>2
  <2> QED  BY <1>3, <2>1 DEF Restores
<1> QED  BY <1>2, <1>4 DEF w

(* Two runs of bytes make one.                                              *)
LEMMA ConcatTyped ==
  ASSUME NEW S, NEW a \in Seq(S), NEW b \in Seq(S)
  PROVE  a \o b \in Seq(S) /\ Len(a \o b) = Len(a) + Len(b)
  OBVIOUS

(* A truth value comes back from its byte.                                  *)
LEMMA BoolRestored ==
  ASSUME NEW t, t.k = "bool", NEW v
  PROVE  /\ serialize_value(t, v) \in Seq(Byte)
         /\ v \in BOOLEAN => Restores(t, v, serialize_value(t, v))
<1> DEFINE bit == IF v THEN 1 ELSE 0
           w == <<bit>>
<1>1. serialize_value(t, v) = w
  BY DEF serialize_value
<1>2. w \in Seq(Byte) /\ Len(w) = 1 /\ w[1] = bit
  <2>1. bit \in Byte
    BY SizesAreNat DEF Byte
  <2> QED  BY <2>1
<1>3. ASSUME v \in BOOLEAN, NEW buf \in Seq(Byte), NEW from \in Nat, At(buf, from, w)
      PROVE  deserialize_value(t, buf, from) = Read(v, from + Len(w))
  <2> DEFINE bytes == Slice(buf, from, from + 1)
  <2> HIDE DEF w
  <2>1. bytes = w
    BY <1>2, <1>3, AtSlice
  <2>2. Enough(buf, from, 1)
    BY <1>2, <1>3 DEF At, Enough
  <2>3. deserialize_value(t, buf, from) = deserialize_fixed(t, buf, from)
    BY DEF deserialize_value, FixedKinds
  <2>4. WidthOf(t) = 1
    BY DEF WidthOf
  <2>5. deserialize_fixed(t, buf, from) = Read(bytes # <<0>>, from + 1)
    BY <2>2, <2>4 DEF deserialize_fixed
  <2>6. (w # <<0>>) = v
    <3>1. CASE v = TRUE
      <4>1. w[1] = 1 /\ <<0>>[1] = 0
        BY <1>2, <3>1
      <4>2. w # <<0>>
        BY <4>1
      <4> QED  BY <3>1, <4>2, Zenon
    <3>2. CASE v = FALSE
      <4>1. w = <<0>>
        BY <3>2 DEF w
      <4> QED  BY <3>2, <4>1, Zenon
    <3> QED  BY <1>3, <3>1, <3>2
  <2>7. (bytes # <<0>>) = v
    <3> HIDE DEF bytes
    <3> QED  BY <2>1, <2>6, Zenon
  <2>8. deserialize_fixed(t, buf, from) = Read(v, from + 1)
    <3> HIDE DEF bytes
    <3> QED  BY <2>5, <2>7, Zenon
  <2> QED  BY <1>2, <2>3, <2>8
<1> HIDE DEF w
<1>4. ASSUME v \in BOOLEAN PROVE Restores(t, v, w)
  BY <1>2, <1>3, <1>4 DEF Restores
<1> QED  BY <1>1, <1>2, <1>4

(* Bytes of a fixed width come back.                                        *)
LEMMA FixedRestored ==
  ASSUME NEW t, t.k = "fixed", t.w \in Nat \ {0}, NEW v, serialize_fixed(v, t.w) # None
  PROVE  /\ serialize_fixed(v, t.w) \in Seq(Byte)
         /\ Restores(t, v, serialize_fixed(v, t.w))
<1>1. serialize_fixed(v, t.w) = v /\ v \in Seq(Byte) /\ Len(v) = t.w
  BY DEF serialize_fixed
<1>2. ASSUME NEW buf \in Seq(Byte), NEW from \in Nat, At(buf, from, v)
      PROVE  deserialize_value(t, buf, from) = Read(v, from + Len(v))
  <2>1. Slice(buf, from, from + t.w) = v
    BY <1>1, <1>2, AtSlice
  <2>2. Enough(buf, from, t.w)
    BY <1>1, <1>2 DEF At, Enough
  <2>3. deserialize_value(t, buf, from) = deserialize_fixed(t, buf, from)
    BY DEF deserialize_value, FixedKinds
  <2>4. WidthOf(t) = t.w
    BY DEF WidthOf
  <2>5. deserialize_fixed(t, buf, from) = Read(v, from + t.w)
    BY <2>1, <2>2, <2>4 DEF deserialize_fixed
  <2> QED  BY <1>1, <2>3, <2>5
<1>3. Restores(t, v, v)
  BY <1>1, <1>2 DEF Restores
<1> QED  BY <1>1, <1>3

(* A text comes back from its length and its bytes.                         *)
LEMMA StringRestored ==
  ASSUME NEW t, t.k = "string", NEW v, serialize_string(v) # None
  PROVE  /\ serialize_string(v) \in Seq(Byte)
         /\ Restores(t, v, serialize_string(v))
<1> DEFINE len == serialize_uint(Len(v), StrLenBytes)
           w == serialize_string(v)
<1>1. v \in Seq(Byte) /\ IsText(v) /\ len # None /\ w = len \o v
  BY DEF serialize_string
<1>2. len \in Seq(Byte) /\ Len(len) = StrLenBytes /\ Len(v) \in Nat /\ StrLenBytes \in Nat
  <2>1. StrLenBytes \in Nat
    BY SizesAreNat
  <2> QED  BY <1>1, <2>1, UintTyped
<1>3. w \in Seq(Byte) /\ Len(w) = StrLenBytes + Len(v)
  <2> HIDE DEF len, w
  <2>1. len \o v \in Seq(Byte) /\ Len(len \o v) = Len(len) + Len(v)
    BY <1>1, <1>2, ConcatTyped
  <2> QED  BY <1>1, <1>2, <2>1
<1>4. ASSUME NEW buf \in Seq(Byte), NEW from \in Nat, At(buf, from, w)
      PROVE  deserialize_value(t, buf, from) = Read(v, from + Len(w))
  <2> DEFINE start == from + StrLenBytes
             end == start + Number(buf, from, StrLenBytes)
  <2>1. At(buf, from, len) /\ At(buf, start, v)
    <3> HIDE DEF len, w
    <3> QED  BY <1>1, <1>2, <1>4, AtConcat
  <2>2. Enough(buf, from, StrLenBytes) /\ Number(buf, from, StrLenBytes) = Len(v)
    BY <1>1, <1>2, <2>1, UintAt
  <2>3. end = start + Len(v) /\ start \in Nat
    BY <1>2, <2>2
  <2>4. Slice(buf, start, end) = v /\ Len(buf) >= end
    <3>1. start + Len(v) <= Len(buf)
      BY <2>1 DEF At
    <3>2. Slice(buf, start, start + Len(v)) = v
      BY <1>1, <2>1, <2>3, AtSlice
    <3> QED  BY <2>3, <3>1, <3>2
  <2>5. deserialize_value(t, buf, from) = deserialize_string(buf, from)
    BY DEF deserialize_value, FixedKinds
  <2>6. deserialize_string(buf, from) = Read(v, end)
    <3> HIDE DEF w, len
    <3> QED  BY <1>1, <2>2, <2>4 DEF deserialize_string
  <2>7. end = from + Len(w)
    BY <1>2, <1>3, <2>3
  <2> QED  BY <2>5, <2>6, <2>7
<1>5. Restores(t, v, w)
  <2> HIDE DEF w, len
  <2> QED  BY <1>3, <1>4 DEF Restores
<1> QED  BY <1>3, <1>5

-----------------------------------------------------------------------------
(* A bigint as it stands among its bytes, apart from its type.              *)
BigintAt(n, w) ==
  \A buf \in Seq(Byte), from \in Nat :
    At(buf, from, w) =>
      \E next \in Nat : /\ deserialize_bigint(buf, from) = Read(n, next)
                        /\ n # 0 => next = from + Len(w)

(* A byte is a number of one byte.                                          *)
LEMMA OneByte ==
  ASSUME NEW b \in Byte
  PROVE  /\ <<b>> \in Seq(Byte) /\ Len(<<b>>) = 1
         /\ <<b>> = BytesOf(b, 1) /\ Shifted(Base, b, 1) = 0 /\ b \in Nat
<1>1. Base \in Nat \ {0} /\ b \in Nat /\ b \in Int /\ b < Base
  BY SizesAreNat DEF Byte
<1>2. b \div Base = 0 /\ b % Base = b
  BY <1>1
<1>3. Shifted(Base, b, 0) = b /\ Shifted(Base, b, 1) = 0
  <2>1. Shifted(Base, b, 0 + 1) = Shifted(Base, b, 0) \div Base /\ Shifted(Base, b, 0) = b
    BY <1>1, ShiftedStep
  <2> QED  BY <1>2, <2>1
<1>4. BytesOf(b, 1) = <<b>>
  <2>1. BytesOf(b, 1) = [i \in 1 .. 1 |-> b]
    <3>1. \A i \in 1 .. 1 : Shifted(Base, b, i - 1) % Base = b
      <4>1. ASSUME NEW i \in 1 .. 1 PROVE i - 1 = 0
        OBVIOUS
      <4> QED  BY <1>2, <1>3, <4>1
    <3> QED  BY <3>1 DEF BytesOf
  <2> QED  BY <2>1
<1> QED  BY <1>1, <1>3, <1>4

(* A bigint of zero is read as zero ...                                     *)
LEMMA ZeroBigintAt ==
  /\ serialize_bigint(0) \in Seq(Byte)
  /\ BigintAt(0, serialize_bigint(0))
<1> DEFINE w == serialize_bigint(0)
           rest == BytesOf(0, LimbBytes)
<1>1. LimbBytes \in Nat \ {0} /\ Base \in Nat \ {0} /\ Base \div 2 \in Nat \ {0} /\ 0 \in Byte
  BY SizesAreNat DEF Byte
<1>2. w = <<0>> \o rest
  BY DEF serialize_bigint
<1>3. rest \in Seq(Byte) /\ Len(rest) = LimbBytes
  BY <1>1, BytesTyped
<1>4. /\ <<0>> \in Seq(Byte) /\ Len(<<0>>) = 1
      /\ <<0>> = BytesOf(0, 1) /\ Shifted(Base, 0, 1) = 0
  BY <1>1, OneByte
<1> HIDE DEF rest, w
<1>5. w \in Seq(Byte)
  BY <1>2, <1>3, <1>4
<1>6. ASSUME NEW buf \in Seq(Byte), NEW from \in Nat, At(buf, from, w)
      PROVE  deserialize_bigint(buf, from) = Read(0, from + 1)
  <2>1. At(buf, from, <<0>>)
    BY <1>2, <1>3, <1>4, <1>6, AtConcat
  <2>2. Enough(buf, from, 1) /\ Number(buf, from, 1) = 0
    BY <1>4, <2>1, NumberAt
  <2>3. 0 % (Base \div 2) = 0 /\ BigintSize(0) = 1 /\ ~ (0 >= Base \div 2)
    BY <1>1 DEF BigintSize
  <2>4. Slice(buf, from + 1, from + 1) = <<>> /\ Len(buf) >= from + 1
    <3>1. from + 1 <= Len(buf) /\ Len(buf) \in Nat
      BY <2>2 DEF Enough
    <3>2. Slice(buf, from + 1, from + 1) = SubSeq(buf, from + 2, from + 1)
      BY <3>1 DEF Slice
    <3> QED  BY <3>1, <3>2
  <2>5. NumberOf(<<>>) = 0
    <3>1. BytesOf(0, 0) = <<>>
      BY DEF BytesOf
    <3>2. 0 \in Int /\ 0 \in Nat
      OBVIOUS
    <3>3. Shifted(Base, 0, 0) = 0
      BY <1>1, <3>2, ShiftedStep
    <3>4. Spelt(BytesOf(0, 0), Shifted(Base, 0, 0)) = 0
      BY <3>2, SpeltBytes
    <3> QED  BY <3>1, <3>3, <3>4 DEF NumberOf
  <2> QED  BY <2>2, <2>3, <2>4, <2>5 DEF deserialize_bigint
<1> QED  BY <1>5, <1>6 DEF BigintAt, w

(* The number of limbs of a bigint, and what stands behind their count.     *)
BigintParts(n, count, w) ==
  /\ count \in 1 .. MaxLimbs
  /\ HasLimbs(n, count)
  /\ w = <<count + (IF n < 0 THEN Base \div 2 ELSE 0)>>
           \o BytesOf(Magnitude(n), count * LimbBytes)

(* ... any other is a head with the sign and the count, and its limbs, ...  *)
LEMMA LimbsCounted ==
  ASSUME NEW n \in Int, n # 0, serialize_bigint(n) # None
  PROVE  \E count : BigintParts(n, count, serialize_bigint(n))
<1> DEFINE Fit == {c \in 1 .. MaxLimbs : HasLimbs(n, c)}
           Is(c) == HasLimbs(n, c) /\ ~ HasLimbs(n, c - 1)
           count == CHOOSE c \in 1 .. MaxLimbs : Is(c)
<1>1. HasLimbs(n, MaxLimbs)
  BY DEF serialize_bigint
<1>2. MaxLimbs \in Nat \ {0}
  BY SizesAreNat DEF MaxLimbs
<1>3. PICK c \in Fit : \A x \in Fit : c <= x
  <2>1. Fit \in SUBSET Nat /\ Fit # {}
    BY <1>1, <1>2
  <2> HIDE DEF Fit
  <2> QED  BY <2>1, LeastOf
<1>4. Is(c) /\ c \in 1 .. MaxLimbs
  <2>1. CASE c = 1
    <3>1. LimbBytes * (c - 1) = 0 /\ Magnitude(n) \in Int /\ Magnitude(n) # 0
      BY <2>1, SizesAreNat DEF Magnitude
    <3>2. Base \in Nat \ {0}
      BY SizesAreNat
    <3>3. Shifted(Base, Magnitude(n), 0) = Magnitude(n)
      BY <3>1, <3>2, ShiftedStep
    <3> QED  BY <1>3, <3>1, <3>3 DEF HasLimbs
  <2>2. CASE c # 1
    <3>1. c \in 1 .. MaxLimbs /\ c - 1 \in 1 .. MaxLimbs /\ ~ (c <= c - 1)
      BY <1>2, <1>3, <2>2
    <3>2. c - 1 \notin Fit
      BY <1>3, <3>1
    <3> QED  BY <1>3, <3>1, <3>2
  <2> QED  BY <2>1, <2>2
<1>5. Is(count) /\ count \in 1 .. MaxLimbs
  <2> HIDE DEF Is
  <2> QED  BY <1>4, Zenon
<1>6. serialize_bigint(n) = <<count + (IF n < 0 THEN Base \div 2 ELSE 0)>>
                              \o BytesOf(Magnitude(n), count * LimbBytes)
  BY <1>1, Zenon DEF serialize_bigint
<1> HIDE DEF count
<1> QED  BY <1>5, <1>6 DEF BigintParts

(* ... from which it is read again.                                         *)
LEMMA NonzeroBigintAt ==
  ASSUME NEW n \in Int, n # 0, serialize_bigint(n) # None
  PROVE  /\ serialize_bigint(n) \in Seq(Byte)
         /\ BigintAt(n, serialize_bigint(n))
<1> DEFINE half == Base \div 2
           w == serialize_bigint(n)
           mag == Magnitude(n)
<1>1. PICK count : BigintParts(n, count, w)
  BY LimbsCounted
<1> DEFINE first == count + (IF n < 0 THEN half ELSE 0)
           rest == BytesOf(mag, count * LimbBytes)
<1>2. /\ Base \in Nat \ {0} /\ half \in Nat \ {0} /\ Base = 2 * half
      /\ LimbBytes \in Nat \ {0}
  BY SizesAreNat
<1>3. /\ count \in 1 .. half - 1 /\ first \in Byte
      /\ first >= half <=> n < 0
      /\ first % half = count
  <2>1. count \in 1 .. half - 1
    BY <1>1 DEF BigintParts, MaxLimbs
  <2> HIDE DEF half
  <2>2. first \in 0 .. Base - 1
    BY <1>2, <2>1
  <2>3. first >= half <=> n < 0
    BY <1>2, <2>1
  <2>4. first % half = count
    <3>1. CASE n < 0
      <4>1. first = count + half * 1 /\ count \in 0 .. half - 1 /\ 1 \in Int
        BY <1>2, <2>1, <3>1
      <4>2. (count + half * 1) % half = count
        BY <1>2, <4>1, DivModOf
      <4> QED  BY <4>1, <4>2
    <3>2. CASE ~ (n < 0)
      <4>1. first = count /\ count \in 0 .. half - 1
        BY <1>2, <2>1, <3>2
      <4> HIDE DEF first
      <4> QED  BY <1>2, <4>1
    <3> QED  BY <3>1, <3>2
  <2> QED  BY <2>1, <2>2, <2>3, <2>4 DEF Byte
<1>4. mag \in Nat /\ count * LimbBytes \in Nat /\ Shifted(Base, mag, count * LimbBytes) = 0
  <2>1. mag \in Nat
    BY DEF Magnitude
  <2>2. count \in Nat
    BY <1>2, <1>3
  <2>3. count * LimbBytes \in Nat /\ LimbBytes * count = count * LimbBytes
    BY <1>2, <2>2
  <2>4. Shifted(Base, mag, LimbBytes * count) = 0
    BY <1>1 DEF BigintParts, HasLimbs
  <2> QED  BY <2>1, <2>3, <2>4
<1>5. w = <<first>> \o rest
  BY <1>1 DEF BigintParts
<1> HIDE DEF first, mag, w
<1>6. rest \in Seq(Byte) /\ Len(rest) = count * LimbBytes
  <2>1. mag \in Int
    BY <1>4
  <2> QED  BY <1>4, <2>1, BytesTyped
<1>7. /\ <<first>> \in Seq(Byte) /\ Len(<<first>>) = 1
      /\ <<first>> = BytesOf(first, 1) /\ Shifted(Base, first, 1) = 0 /\ first \in Nat
  BY <1>3, OneByte
<1>8. w \in Seq(Byte) /\ Len(w) = 1 + count * LimbBytes
  <2>1. <<first>> \o rest \in Seq(Byte) /\ Len(<<first>> \o rest) = Len(<<first>>) + Len(rest)
    <3> HIDE DEF rest
    <3> QED  BY <1>6, <1>7, ConcatTyped
  <2> QED  BY <1>5, <1>6, <1>7, <2>1
<1>9. ASSUME NEW buf \in Seq(Byte), NEW from \in Nat, At(buf, from, w)
      PROVE  deserialize_bigint(buf, from) = Read(n, from + Len(w))
  <2>1. At(buf, from, <<first>>) /\ At(buf, from + 1, rest)
    <3> HIDE DEF rest
    <3>1. At(buf, from, <<first>>) /\ At(buf, from + Len(<<first>>), rest)
      <4>1. At(buf, from, <<first>> \o rest)
        BY <1>5, <1>9
      <4> QED  BY <1>6, <1>7, <4>1, AtConcat
    <3> QED  BY <1>7, <3>1
  <2>2. Enough(buf, from, 1) /\ Number(buf, from, 1) = first
    BY <1>7, <2>1, NumberAt
  <2>3. from + 1 \in Nat /\ (from + 1) + count * LimbBytes = from + BigintSize(count)
    BY <1>4 DEF BigintSize
  <2>4. /\ Enough(buf, from + 1, count * LimbBytes)
        /\ Number(buf, from + 1, count * LimbBytes) = mag
    BY <1>4, <2>1, <2>3, NumberAt
  <2> DEFINE end == from + BigintSize(count)
  <2>5. NumberOf(Slice(buf, from + 1, end)) = mag /\ ~ (Len(buf) < end)
    <3>1. Len(buf) \in Nat
      OBVIOUS
    <3> QED  BY <1>4, <2>3, <2>4, <3>1 DEF Number, Enough
  <2>6. deserialize_bigint(buf, from) = Read(IF first >= half THEN -mag ELSE mag, end)
    <3> HIDE DEF end
    <3>1. from + BigintSize(first % half) = end
      BY <1>3 DEF end
    <3> QED  BY <2>2, <2>5, <3>1 DEF deserialize_bigint
  <2>7. (IF first >= half THEN -mag ELSE mag) = n
    BY <1>3 DEF mag, Magnitude
  <2>8. end = from + Len(w)
    BY <1>4, <1>8 DEF BigintSize
  <2> QED  BY <2>6, <2>7, <2>8
<1>10. BigintAt(n, w)
  <2>1. Len(w) \in Nat
    BY <1>8
  <2> QED  BY <1>9, <2>1 DEF BigintAt
<1> QED  BY <1>8, <1>10 DEF w

(* A bigint that was written is read as what it was.                        *)
LEMMA SerializedBigint ==
  ASSUME NEW n, serialize_bigint(n) # None
  PROVE  /\ serialize_bigint(n) \in Seq(Byte)
         /\ BigintAt(n, serialize_bigint(n))
<1>1. CASE n = 0
  BY <1>1, ZeroBigintAt
<1>2. CASE n # 0
  <2>1. n \in Int
    BY <1>2 DEF serialize_bigint
  <2> QED  BY <1>2, <2>1, NonzeroBigintAt
<1> QED  BY <1>1, <1>2

(* A token comes back as its id and its amount.                             *)
LEMMA TokenRestored ==
  ASSUME NoneIsNoReading, NEW t, t.k = "token", NEW v, serialize_token(v) # None
  PROVE  /\ serialize_token(v) \in Seq(Byte)
         /\ v = [id |-> v.id, amount |-> v.amount] => Restores(t, v, serialize_token(v))
<1> DEFINE w == serialize_token(v)
           id == serialize_uint(v.id, LimbBytes)
           amount == serialize_bigint(v.amount)
<1>1. id # None /\ amount # None /\ w = id \o amount
  BY DEF serialize_token
<1>2. id \in Seq(Byte) /\ Len(id) = LimbBytes /\ LimbBytes \in Nat
  <2>1. LimbBytes \in Nat
    BY SizesAreNat
  <2> QED  BY <1>1, <2>1, UintTyped
<1>3. amount \in Seq(Byte) /\ BigintAt(v.amount, amount)
  BY <1>1, SerializedBigint
<1>4. w \in Seq(Byte) /\ Len(w) = LimbBytes + Len(amount) /\ Len(amount) \in Nat
  <2> HIDE DEF w, id, amount
  <2>1. id \o amount \in Seq(Byte) /\ Len(id \o amount) = Len(id) + Len(amount)
    BY <1>2, <1>3, ConcatTyped
  <2> QED  BY <1>1, <1>2, <1>3, <2>1
<1>5. ASSUME v = [id |-> v.id, amount |-> v.amount],
             NEW buf \in Seq(Byte), NEW from \in Nat, At(buf, from, w)
      PROVE  \E next \in Nat : /\ deserialize_value(t, buf, from) = Read(v, next)
                               /\ ~ EndsInZero(t, v) => next = from + Len(w)
  <2>1. At(buf, from, id) /\ At(buf, from + LimbBytes, amount)
    <3> HIDE DEF w, id, amount
    <3> QED  BY <1>1, <1>2, <1>3, <1>5, AtConcat
  <2>2. Enough(buf, from, LimbBytes) /\ Number(buf, from, LimbBytes) = v.id
    BY <1>1, <1>2, <2>1, UintAt
  <2>3. from + LimbBytes \in Nat
    BY <1>2
  <2> HIDE DEF id, w, amount
  <2>4. PICK next \in Nat :
          /\ deserialize_bigint(buf, from + LimbBytes) = Read(v.amount, next)
          /\ v.amount # 0 => next = (from + LimbBytes) + Len(amount)
    BY <1>3, <2>1, <2>3 DEF BigintAt
  <2>5. deserialize_bigint(buf, from + LimbBytes) # None
    BY <2>4 DEF NoneIsNoReading
  <2>6. deserialize_value(t, buf, from) = deserialize_token(buf, from)
    BY DEF deserialize_value, FixedKinds
  <2>7. deserialize_token(buf, from) = Read([id |-> v.id, amount |-> v.amount], next)
    <3>1. Read(v.amount, next).v = v.amount /\ Read(v.amount, next).next = next
      BY DEF Read
    <3> QED  BY <2>2, <2>4, <2>5, <3>1 DEF deserialize_token
  <2>8. ~ EndsInZero(t, v) => next = from + Len(w)
    BY <1>2, <1>4, <2>4 DEF EndsInZero
  <2>9. deserialize_value(t, buf, from) = Read(v, next)
    BY <1>5, <2>6, <2>7, Zenon
  <2> QED  BY <2>8, <2>9
<1>6. v = [id |-> v.id, amount |-> v.amount] => Restores(t, v, w)
  <2> HIDE DEF w
  <2> QED  BY <1>5 DEF Restores
<1> QED  BY <1>4, <1>6

-----------------------------------------------------------------------------
(* From the bytes w, deserialize gives back v: and stops behind them, or    *)
(* perhaps elsewhere.                                                       *)
ReadExactly(t, v, w) ==
  \A buf \in Seq(Byte), from \in Nat :
    At(buf, from, w) => deserialize(t, buf, from) = Read(v, from + Len(w))

ReadWell(t, v, w) ==
  \A buf \in Seq(Byte), from \in Nat :
    At(buf, from, w) => \E next \in Nat : deserialize(t, buf, from) = Read(v, next)

(* The parts are elements of these types, each with bytes of its own.       *)
ArePartsOf(types, parts) ==
  /\ types \in Seq(Types) /\ parts \in Seq(Seq(Byte)) /\ Len(types) = Len(parts)

(* The list of the first k values.                                          *)
Firsts(v, k) == [j \in 1 .. k |-> v[j]]

(* The first k values and the next are the first k + 1.                     *)
LEMMA FirstsStep ==
  ASSUME NEW v, NEW k \in Nat
  PROVE  Append(Firsts(v, k), v[k + 1]) = Firsts(v, k + 1)
<1> DEFINE S == {v[j] : j \in 1 .. k + 1}
           a == Firsts(v, k)
<1>1. a \in Seq(S) /\ Len(a) = k /\ \A j \in 1 .. k : a[j] = v[j]
  BY DEF Firsts
<1>2. v[k + 1] \in S
  OBVIOUS
<1> HIDE DEF a, S
<1>3. /\ Append(a, v[k + 1]) \in Seq(S) /\ Len(Append(a, v[k + 1])) = k + 1
      /\ \A j \in 1 .. k : Append(a, v[k + 1])[j] = a[j]
      /\ Append(a, v[k + 1])[k + 1] = v[k + 1]
  BY <1>1, <1>2
<1>4. \A j \in 1 .. k + 1 : Append(a, v[k + 1])[j] = v[j]
  <2>1. ASSUME NEW j \in 1 .. k + 1 PROVE Append(a, v[k + 1])[j] = v[j]
    <3>1. CASE j = k + 1
      BY <1>3, <3>1
    <3>2. CASE j # k + 1
      <4>1. j \in 1 .. k
        BY <3>2
      <4> QED  BY <1>1, <1>3, <4>1
    <3> QED  BY <3>1, <3>2
  <2> QED  BY <2>1
<1>5. Firsts(v, k + 1) \in Seq(S) /\ Len(Firsts(v, k + 1)) = k + 1
      /\ \A j \in 1 .. k + 1 : Firsts(v, k + 1)[j] = v[j]
  BY DEF Firsts, S
<1> QED  BY <1>3, <1>4, <1>5 DEF a

(* Joined parts are bytes.                                                  *)
LEMMA JoinedTyped ==
  ASSUME NEW S, NEW parts \in Seq(Seq(S)), NEW k \in 0 .. Len(parts)
  PROVE  Joined(parts, k) \in Seq(S) /\ Len(Joined(parts, k)) \in Nat
  BY JoinedStep

(* Values one after the other are read one after the other.                *)
LEMMA InARowReads ==
  ASSUME NoneIsNoReading, NEW types, NEW parts, NEW v, ArePartsOf(types, parts),
         \A i \in 1 .. Len(parts) : ReadExactly(types[i], v[i], parts[i]),
         NEW buf \in Seq(Byte), NEW from \in Nat, At(buf, from, FlattenSeq(parts))
  PROVE  InARow(types, buf, from)
           = Read(Firsts(v, Len(parts)), from + Len(FlattenSeq(parts)))
<1> DEFINE n == Len(parts)
           After(f) == [i \in 0 .. n |->
             IF i = 0 THEN Read(<<>>, from)
             ELSE LET r == f[i - 1]
                      x == deserialize(types[i], buf, r.next)
                  IN IF r = None THEN None
                     ELSE IF x = None THEN None
                     ELSE Read(Append(r.v, x.v), x.next)]
           after == CHOOSE f : f = After(f)
           g == [i \in 0 .. n |-> Read(Firsts(v, i), from + Len(Joined(parts, i)))]
<1>1. n \in Nat /\ Len(types) = n /\ \A i \in 1 .. n : parts[i] \in Seq(Byte)
  BY DEF ArePartsOf
<1>2. /\ Joined(parts, 0) = <<>>
      /\ \A k \in 0 .. n : Joined(parts, k) \in Seq(Byte) /\ Len(Joined(parts, k)) \in Nat
      /\ \A k \in 0 .. n - 1 : Joined(parts, k + 1) = Joined(parts, k) \o parts[k + 1]
      /\ FlattenSeq(parts) = Joined(parts, n)
  BY JoinedStep, JoinedTyped DEF ArePartsOf
<1>3. InARow(types, buf, from) = after[n]
  BY <1>1, Zenon DEF InARow
<1> HIDE DEF n
<1>4. ASSUME NEW i \in 1 .. n
      PROVE  deserialize(types[i], buf, from + Len(Joined(parts, i - 1)))
               = Read(v[i], from + Len(Joined(parts, i)))
  <2>1. i - 1 \in 0 .. n - 1 /\ i - 1 \in 0 .. n /\ (i - 1) + 1 = i /\ i \in 1 .. Len(parts)
    BY <1>1 DEF n
  <2>2. At(buf, from + Len(Joined(parts, i - 1)), parts[i])
    BY <2>1, AtParts DEF ArePartsOf
  <2>3. from + Len(Joined(parts, i - 1)) \in Nat
    BY <1>2, <2>1
  <2>4. deserialize(types[i], buf, from + Len(Joined(parts, i - 1)))
          = Read(v[i], (from + Len(Joined(parts, i - 1))) + Len(parts[i]))
    BY <2>1, <2>2, <2>3 DEF ReadExactly
  <2>5. Len(Joined(parts, i)) = Len(Joined(parts, i - 1)) + Len(parts[i])
    <3>1. Joined(parts, i) = Joined(parts, i - 1) \o parts[i]
      BY <1>2, <2>1
    <3> QED  BY <1>1, <1>2, <2>1, <3>1, ConcatTyped
  <2>6. Len(parts[i]) \in Nat
    BY <1>1
  <2>7. (from + Len(Joined(parts, i - 1))) + Len(parts[i]) = from + Len(Joined(parts, i))
    <3>1. Len(Joined(parts, i - 1)) \in Nat
      BY <1>2, <2>1
    <3>2. \A a, b \in Nat : (from + a) + b = from + (a + b)
      OBVIOUS
    <3>3. (from + Len(Joined(parts, i - 1))) + Len(parts[i])
            = from + (Len(Joined(parts, i - 1)) + Len(parts[i]))
      BY <2>6, <3>1, <3>2
    <3> QED  BY <2>5, <3>3
  <2> QED  BY <2>4, <2>7
<1> DEFINE place(i) == from + Len(Joined(parts, i))
<1>5. ASSUME NEW f, NEW i \in 1 .. n, f[i - 1] = Read(Firsts(v, i - 1), place(i - 1))
      PROVE  After(f)[i] = Read(Firsts(v, i), place(i))
  <2> DEFINE r == f[i - 1]
             x == deserialize(types[i], buf, r.next)
  <2>1. r # None /\ r.v = Firsts(v, i - 1) /\ r.next = place(i - 1)
    BY <1>5 DEF NoneIsNoReading, Read
  <2>2. x = Read(v[i], place(i))
    BY <1>4, <2>1
  <2>3. x # None /\ x.v = v[i] /\ x.next = place(i)
    <3> HIDE DEF x, place
    <3> QED  BY <2>2 DEF NoneIsNoReading, Read
  <2>4. Append(r.v, x.v) = Firsts(v, i)
    <3>1. i - 1 \in Nat /\ (i - 1) + 1 = i
      BY <1>1
    <3>2. Append(Firsts(v, i - 1), v[(i - 1) + 1]) = Firsts(v, (i - 1) + 1)
      BY <3>1, FirstsStep
    <3> QED  BY <2>1, <2>3, <3>1, <3>2
  <2>5. i \in 0 .. n /\ i # 0
    BY <1>1
  <2>6. After(f)[i] = IF r = None THEN None ELSE IF x = None THEN None
                      ELSE Read(Append(r.v, x.v), x.next)
    <3> HIDE DEF place
    <3> QED  BY <2>5
  <2> HIDE DEF r, x, place
  <2> QED  BY <2>1, <2>3, <2>4, <2>6
<1>6. Firsts(v, 0) = <<>> /\ place(0) = from
  <2>1. Len(<<>>) = 0 /\ from + 0 = from
    OBVIOUS
  <2>2. Firsts(v, 0) = <<>>
    BY DEF Firsts
  <2> QED  BY <1>2, <2>1, <2>2
<1>7. \A f : After(f)[0] = Read(<<>>, from) /\ DOMAIN After(f) = 0 .. n
              /\ After(f) = [i \in 0 .. n |-> After(f)[i]]
  BY <1>1
<1>8. \A i \in 0 .. n : g[i] = Read(Firsts(v, i), place(i))
  OBVIOUS
<1>9. g = [i \in 0 .. n |-> g[i]]
  OBVIOUS
<1> HIDE DEF place, g, After
<1>10. g = After(g)
  <2>1. ASSUME NEW i \in 0 .. n PROVE g[i] = After(g)[i]
    <3>1. CASE i = 0
      BY <1>6, <1>7, <1>8, <3>1
    <3>2. CASE i # 0
      <4>1. i \in 1 .. n /\ i - 1 \in 0 .. n
        BY <1>1, <3>2
      <4>2. g[i - 1] = Read(Firsts(v, i - 1), place(i - 1))
        BY <1>8, <4>1
      <4> QED  BY <1>5, <1>8, <4>1, <4>2
    <3> QED  BY <3>1, <3>2
  <2>2. After(g) = [i \in 0 .. n |-> After(g)[i]]
    BY <1>7
  <2> QED  BY <1>9, <2>1, <2>2
<1>11. after = After(after)
  BY <1>10, Zenon
<1> DEFINE Good == {i \in 0 .. n : after[i] = Read(Firsts(v, i), place(i))}
<1> HIDE DEF after
<1>12. 0 \in Good
  BY <1>1, <1>6, <1>7, <1>11
<1>13. ASSUME NEW i \in 0 .. n - 1, i \in Good PROVE i + 1 \in Good
  <2>1. i + 1 \in 1 .. n /\ (i + 1) - 1 = i /\ i + 1 \in 0 .. n
    BY <1>1
  <2>2. after[(i + 1) - 1] = Read(Firsts(v, (i + 1) - 1), place((i + 1) - 1))
    BY <1>13, <2>1
  <2>3. After(after)[i + 1] = Read(Firsts(v, i + 1), place(i + 1))
    BY <1>5, <2>1, <2>2
  <2> QED  BY <1>11, <2>1, <2>3
<1>14. n \in Good
  <2> HIDE DEF Good
  <2>1. \A i \in 0 .. n : i \in Good
    BY <1>1, <1>12, <1>13, UpTo
  <2> QED  BY <1>1, <2>1
<1> QED  BY <1>2, <1>3, <1>14 DEF n, place

-----------------------------------------------------------------------------
(* Tables of offsets, and the elements behind them.                         *)

(* Where no element failed, none of them is None.                           *)
LEMMA AllSomeOf ==
  ASSUME NEW s, AllSome(s), NEW i \in DOMAIN s
  PROVE  s[i] # None
  BY DEF AllSome, ToSet

(* Values of S, numbered from one, are a sequence over S.                   *)
LEMMA ListTyped ==
  ASSUME NEW S, NEW n \in Nat, NEW s, s = [i \in 1 .. n |-> s[i]],
         \A i \in 1 .. n : s[i] \in S
  PROVE  s \in Seq(S) /\ Len(s) = n
  OBVIOUS

(* Sums may be grouped either way.                                          *)
LEMMA Regrouped == \A a, b, c \in Nat : a + (b + c) = a + b + c /\ a + b \in Nat
  OBVIOUS

(* What stands where, when parts stand behind their offset table at table. *)
Tabled(buf, table, parts) ==
  At(buf, table, FlattenSeq(OffsetTable(parts)) \o FlattenSeq(parts))

(* An offset table has one entry of LenBytes bytes per part.                *)
LEMMA OffsetsTyped ==
  ASSUME NEW parts \in Seq(Seq(Byte)), AllSome(OffsetTable(parts))
  PROVE  /\ Len(parts) * LenBytes \in Nat
         /\ OffsetTable(parts) \in Seq(Seq(Byte))
         /\ Len(OffsetTable(parts)) = Len(parts)
         /\ FlattenSeq(OffsetTable(parts)) \in Seq(Byte)
         /\ Len(FlattenSeq(OffsetTable(parts))) = Len(parts) * LenBytes
         /\ \A k \in 0 .. Len(parts) : Len(Joined(OffsetTable(parts), k)) = k * LenBytes
         /\ \A i \in 1 .. Len(parts) :
              /\ OffsetTable(parts)[i] = serialize_uint(EndOf(parts, i), LenBytes)
              /\ OffsetTable(parts)[i] # None
<1> DEFINE n == Len(parts)
           T == OffsetTable(parts)
<1>1. n \in Nat /\ LenBytes \in Nat /\ n * LenBytes \in Nat
  <2>1. n \in Nat /\ LenBytes \in Nat
    BY SizesAreNat
  <2> HIDE DEF n
  <2> QED  BY <2>1
<1>2. DOMAIN T = 1 .. n /\ \A i \in 1 .. n : T[i] = serialize_uint(EndOf(parts, i), LenBytes)
  BY DEF OffsetTable
<1>3. \A i \in 1 .. n : T[i] # None
  BY <1>2, AllSomeOf
<1>4. T = [i \in 1 .. n |-> T[i]]
  BY DEF OffsetTable
<1> HIDE DEF n, T
<1>5. \A i \in 1 .. n : T[i] \in Seq(Byte) /\ Len(T[i]) = LenBytes
  BY <1>1, <1>2, <1>3, UintTyped
<1>6. T \in Seq(Seq(Byte)) /\ Len(T) = n
  BY <1>1, <1>4, <1>5, ListTyped
<1>7. \A k \in 0 .. n : Len(Joined(T, k)) = k * LenBytes
  BY <1>1, <1>5, <1>6, JoinedLen
<1>8. FlattenSeq(T) \in Seq(Byte) /\ Len(FlattenSeq(T)) = n * LenBytes
  <2>1. FlattenSeq(T) = Joined(T, n) /\ n \in 0 .. n
    BY <1>1, <1>6, JoinedStep
  <2> QED  BY <1>6, <1>7, <2>1, JoinedTyped
<1> QED  BY <1>1, <1>2, <1>3, <1>6, <1>7, <1>8 DEF n, T

(* Its entries are read as the ends of the parts.                           *)
LEMMA TableReads ==
  ASSUME NEW parts \in Seq(Seq(Byte)), AllSome(OffsetTable(parts)),
         NEW buf \in Seq(Byte), NEW table \in Nat, Tabled(buf, table, parts)
  PROVE  /\ Len(parts) * LenBytes \in Nat
         /\ Enough(buf, table, Len(parts) * LenBytes)
         /\ At(buf, table + Len(parts) * LenBytes, FlattenSeq(parts))
         /\ \A i \in 1 .. Len(parts) :
              Number(buf, table + (i - 1) * LenBytes, LenBytes) = EndOf(parts, i)
<1> DEFINE n == Len(parts)
           T == OffsetTable(parts)
<1>1. n \in Nat /\ LenBytes \in Nat /\ n * LenBytes \in Nat
  BY OffsetsTyped, SizesAreNat
<1>2. /\ T \in Seq(Seq(Byte)) /\ Len(T) = n
      /\ FlattenSeq(T) \in Seq(Byte) /\ Len(FlattenSeq(T)) = n * LenBytes
  BY OffsetsTyped
<1>3. \A k \in 0 .. n : Len(Joined(T, k)) = k * LenBytes
  BY OffsetsTyped
<1>4. \A i \in 1 .. n : T[i] = serialize_uint(EndOf(parts, i), LenBytes) /\ T[i] # None
  BY OffsetsTyped
<1> HIDE DEF n, T
<1>5. FlattenSeq(parts) \in Seq(Byte)
  BY JoinedStep, JoinedTyped, <1>1 DEF n
<1>6. At(buf, table, FlattenSeq(T)) /\ At(buf, table + n * LenBytes, FlattenSeq(parts))
  <2>1. At(buf, table, FlattenSeq(T) \o FlattenSeq(parts))
    BY DEF Tabled, T
  <2> QED  BY <1>2, <1>5, <2>1, AtConcat
<1>7. Enough(buf, table, n * LenBytes)
  BY <1>2, <1>6 DEF At, Enough
<1>8. ASSUME NEW i \in 1 .. n
      PROVE  Number(buf, table + (i - 1) * LenBytes, LenBytes) = EndOf(parts, i)
  <2>1. i - 1 \in 0 .. n /\ i \in 1 .. Len(T)
    BY <1>1, <1>2
  <2>2. At(buf, table + Len(Joined(T, i - 1)), T[i])
    BY <1>2, <1>6, <2>1, AtParts
  <2>3. Len(Joined(T, i - 1)) = (i - 1) * LenBytes
    BY <1>3, <2>1
  <2>4. (i - 1) * LenBytes \in Nat
    <3>1. i - 1 \in Nat
      BY <2>1
    <3> QED  BY <1>1, <3>1
  <2>5. table + (i - 1) * LenBytes \in Nat
    BY <2>4
  <2>6. At(buf, table + (i - 1) * LenBytes, serialize_uint(EndOf(parts, i), LenBytes))
    BY <1>4, <2>2, <2>3
  <2>7. serialize_uint(EndOf(parts, i), LenBytes) # None
    BY <1>4
  <2> QED  BY <1>1, <2>5, <2>6, <2>7, UintAt
<1> QED  BY <1>1, <1>6, <1>7, <1>8 DEF n

(* A reading has the value and the offset it was made of.                   *)
LEMMA ReadingIs ==
  ASSUME NoneIsNoReading, NEW v, NEW next, NEW r, r = Read(v, next)
  PROVE  r # None /\ r.v = v /\ r.next = next
<1>1. Read(v, next).v = v /\ Read(v, next).next = next
  BY DEF Read
<1> QED  BY <1>1 DEF NoneIsNoReading

(* The end of a part is its length behind the end of the one before.        *)
LEMMA EndOfStep ==
  ASSUME NEW parts \in Seq(Seq(Byte)), NEW i \in 1 .. Len(parts)
  PROVE  /\ EndOf(parts, i) \in Nat /\ EndOf(parts, i - 1) \in Nat
         /\ EndOf(parts, 0) = Len(parts) * LenBytes
         /\ EndOf(parts, i - 1) = Len(parts) * LenBytes + Len(Joined(parts, i - 1))
         /\ EndOf(parts, i) = EndOf(parts, i - 1) + Len(parts[i])
         /\ Len(parts[i]) \in Nat
<1> DEFINE n == Len(parts)
<1>1. n \in Nat /\ LenBytes \in Nat /\ n * LenBytes \in Nat
  <2>1. n \in Nat /\ LenBytes \in Nat
    BY SizesAreNat
  <2> HIDE DEF n
  <2> QED  BY <2>1
<1>2. parts[i] \in Seq(Byte) /\ Len(parts[i]) \in Nat
  OBVIOUS
<1> HIDE DEF n
<1>3. i - 1 \in 0 .. n - 1 /\ i - 1 \in 0 .. n /\ (i - 1) + 1 = i /\ i \in 0 .. n /\ 0 \in 0 .. n
  BY <1>1 DEF n
<1>4. \A k \in 0 .. n : Len(Joined(parts, k)) \in Nat
  BY JoinedTyped DEF n
<1>5. \A k \in 0 .. n : EndOf(parts, k) = n * LenBytes + Len(Joined(parts, k))
  BY DEF EndOf, Joined, n
<1>6. Len(Joined(parts, i)) = Len(Joined(parts, i - 1)) + Len(parts[i])
  <2>1. Joined(parts, i) = Joined(parts, i - 1) \o parts[i]
    BY <1>3, JoinedStep DEF n
  <2>2. Joined(parts, i - 1) \in Seq(Byte)
    BY <1>3, JoinedTyped DEF n
  <2> QED  BY <1>2, <2>1, <2>2, ConcatTyped
<1>7. Len(Joined(parts, 0)) = 0
  <2>1. Joined(parts, 0) = <<>>
    BY JoinedStep
  <2> QED  BY <2>1
<1>8. EndOf(parts, i) = EndOf(parts, i - 1) + Len(parts[i])
  <2> DEFINE a == Len(Joined(parts, i - 1))
  <2>1. a \in Nat /\ EndOf(parts, i - 1) = n * LenBytes + a
    BY <1>3, <1>4, <1>5
  <2>2. EndOf(parts, i) = n * LenBytes + (a + Len(parts[i]))
    BY <1>3, <1>5, <1>6
  <2> HIDE DEF a
  <2> DEFINE m == n * LenBytes
  <2>3. m \in Nat
    BY <1>1
  <2> HIDE DEF m
  <2>4. m + (a + Len(parts[i])) = (m + a) + Len(parts[i])
    BY <1>2, <2>1, <2>3, Regrouped
  <2> QED  BY <2>1, <2>2, <2>4 DEF m
<1>9. EndOf(parts, i) \in Nat /\ EndOf(parts, i - 1) \in Nat
  <2>1. ASSUME NEW k \in 0 .. n PROVE EndOf(parts, k) \in Nat
    BY <1>1, <1>4, <1>5, Regrouped
  <2> QED  BY <1>3, <2>1
<1>10. EndOf(parts, 0) = n * LenBytes
  BY <1>1, <1>3, <1>5, <1>7
<1> QED  BY <1>2, <1>3, <1>5, <1>8, <1>9, <1>10 DEF n

(* The reader of a struct's variable fields passes over their table and     *)
(* gives back all.                                                          *)
LEMMA BehindTableReads ==
  ASSUME NoneIsNoReading, NEW types, NEW parts, NEW v, ArePartsOf(types, parts),
         \A i \in 1 .. Len(parts) : ReadWell(types[i], v[i], parts[i]),
         AllSome(OffsetTable(parts)),
         NEW buf \in Seq(Byte), NEW table \in Nat, Tabled(buf, table, parts)
  PROVE  BehindTable(types, buf, table)
           = Read(Firsts(v, Len(parts)),
                  table + Len(parts) * LenBytes + Len(FlattenSeq(parts)))
<1> DEFINE n == Len(types)
           end == [i \in 1 .. n |-> Number(buf, table + (i - 1) * LenBytes, LenBytes)]
           value == [i \in 1 .. n |->
             deserialize(types[i], buf, table + (IF i = 1 THEN n * LenBytes ELSE end[i - 1]))]
<1>1. n \in Nat /\ n = Len(parts) /\ parts \in Seq(Seq(Byte))
  BY DEF ArePartsOf
<1>2. /\ n * LenBytes \in Nat
      /\ Enough(buf, table, n * LenBytes)
      /\ At(buf, table + n * LenBytes, FlattenSeq(parts))
      /\ \A i \in 1 .. n : Number(buf, table + (i - 1) * LenBytes, LenBytes) = EndOf(parts, i)
  BY <1>1, TableReads
<1> HIDE DEF n
<1>3. \A i \in 1 .. n : end[i] = EndOf(parts, i)
  BY <1>2
<1> HIDE DEF end
<1>4. ASSUME NEW i \in 1 .. n
      PROVE  \E next \in Nat : value[i] = Read(v[i], next)
  <2>1. i \in 1 .. Len(parts)
    BY <1>1
  <2>2. (IF i = 1 THEN n * LenBytes ELSE end[i - 1]) = EndOf(parts, i - 1)
    <3>1. CASE i = 1
      BY <1>1, <2>1, <3>1, EndOfStep
    <3>2. CASE i # 1
      <4>1. i - 1 \in 1 .. n
        BY <1>1, <3>2
      <4> QED  BY <1>3, <3>2, <4>1
    <3> QED  BY <3>1, <3>2
  <2>3. value[i] = deserialize(types[i], buf, table + EndOf(parts, i - 1))
    BY <2>2
  <2>4. At(buf, (table + n * LenBytes) + Len(Joined(parts, i - 1)), parts[i])
    <3>1. table + n * LenBytes \in Nat
      BY <1>2
    <3> QED  BY <1>1, <1>2, <2>1, <3>1, AtParts
  <2>5. /\ EndOf(parts, i - 1) = n * LenBytes + Len(Joined(parts, i - 1))
        /\ EndOf(parts, i - 1) \in Nat
    BY <1>1, <2>1, EndOfStep
  <2>6. Len(Joined(parts, i - 1)) \in Nat
    <3>1. i - 1 \in 0 .. Len(parts)
      BY <2>1, <1>1
    <3> QED  BY <1>1, <3>1, JoinedTyped
  <2>7. (table + n * LenBytes) + Len(Joined(parts, i - 1)) = table + EndOf(parts, i - 1)
    <3>1. \A a, b \in Nat : (table + a) + b = table + (a + b)
      OBVIOUS
    <3> QED  BY <1>2, <2>5, <2>6, <3>1
  <2>8. At(buf, table + EndOf(parts, i - 1), parts[i]) /\ table + EndOf(parts, i - 1) \in Nat
    BY <2>4, <2>5, <2>7
  <2>9. ReadWell(types[i], v[i], parts[i])
    BY <2>1
  <2> HIDE DEF value
  <2> QED  BY <2>3, <2>8, <2>9 DEF ReadWell
<1>5. DOMAIN value = 1 .. n
  OBVIOUS
<1>6. BehindTable(types, buf, table)
        = IF ~ Enough(buf, table, n * LenBytes) THEN None
          ELSE IF AllSome(value)
          THEN Read([i \in 1 .. n |-> value[i].v], IF n = 0 THEN table ELSE table + end[n])
          ELSE None
  BY Zenon DEF BehindTable, n, end
<1> HIDE DEF value
<1>7. \A i \in 1 .. n : value[i] # None /\ value[i].v = v[i]
  BY <1>4, ReadingIs
<1>8. AllSome(value)
  BY <1>5, <1>7 DEF AllSome, ToSet
<1>9. [i \in 1 .. n |-> value[i].v] = Firsts(v, n)
  BY <1>7 DEF Firsts
<1>10. (IF n = 0 THEN table ELSE table + end[n]) = table + n * LenBytes + Len(FlattenSeq(parts))
  <2>1. FlattenSeq(parts) = Joined(parts, n)
    BY <1>1, JoinedStep
  <2>2. CASE n = 0
    <3>1. Joined(parts, 0) = <<>> /\ Len(<<>>) = 0
      BY <1>1, JoinedStep
    <3>2. n * LenBytes = 0
      BY <2>2, SizesAreNat
    <3> QED  BY <2>1, <2>2, <3>1, <3>2
  <2>3. CASE n # 0
    <3>1. n \in 1 .. n /\ n \in 0 .. Len(parts) /\ n \in 1 .. Len(parts)
      BY <1>1, <2>3
    <3>2. end[n] = EndOf(parts, n)
      BY <1>3, <3>1
    <3>3. EndOf(parts, n) = n * LenBytes + Len(Joined(parts, n))
      BY <1>1 DEF EndOf, Joined
    <3>4. Len(Joined(parts, n)) \in Nat
      BY <1>1, <3>1, JoinedTyped
    <3>5. \A a, b \in Nat : table + (a + b) = table + a + b
      OBVIOUS
    <3> QED  BY <1>2, <2>1, <2>3, <3>2, <3>3, <3>4, <3>5
  <2> QED  BY <2>2, <2>3
<1> QED  BY <1>1, <1>2, <1>6, <1>8, <1>9, <1>10

(* The reader of an array cuts each element out by the table and gives back *)
(* all.                                                                     *)
LEMMA CutOutReads ==
  ASSUME NoneIsNoReading, NEW t \in Types, NEW parts \in Seq(Seq(Byte)), Len(parts) # 0,
         NEW v, \A i \in 1 .. Len(parts) : ReadWell(t, v[i], parts[i]),
         AllSome(OffsetTable(parts)),
         NEW buf \in Seq(Byte), NEW table \in Nat, Tabled(buf, table, parts)
  PROVE  CutOut(t, Len(parts), buf, table)
           = Read(Firsts(v, Len(parts)),
                  table + Len(parts) * LenBytes + Len(FlattenSeq(parts)))
<1> DEFINE n == Len(parts)
           end == [i \in 1 .. n |-> Number(buf, table + (i - 1) * LenBytes, LenBytes)]
           value == [i \in 1 .. n |->
             deserialize(t, Slice(buf, table + (IF i = 1 THEN n * LenBytes ELSE end[i - 1]),
                                       table + end[i]), 0)]
<1>1. n \in Nat
  OBVIOUS
<1>2. /\ n * LenBytes \in Nat
      /\ Enough(buf, table, n * LenBytes)
      /\ At(buf, table + n * LenBytes, FlattenSeq(parts))
      /\ \A i \in 1 .. n : Number(buf, table + (i - 1) * LenBytes, LenBytes) = EndOf(parts, i)
  BY <1>1, TableReads
<1> HIDE DEF n
<1>3. \A i \in 1 .. n : end[i] = EndOf(parts, i)
  BY <1>2
<1> HIDE DEF end
<1>4. ASSUME NEW i \in 1 .. n
      PROVE  \E next \in Nat : value[i] = Read(v[i], next)
  <2>1. i \in 1 .. Len(parts)
    BY <1>1 DEF n
  <2>2. (IF i = 1 THEN n * LenBytes ELSE end[i - 1]) = EndOf(parts, i - 1)
    <3>1. CASE i = 1
      BY <1>1, <2>1, <3>1, EndOfStep DEF n
    <3>2. CASE i # 1
      <4>1. i - 1 \in 1 .. n
        BY <1>1, <3>2
      <4> QED  BY <1>3, <3>2, <4>1
    <3> QED  BY <3>1, <3>2
  <2>3. value[i] = deserialize(t, Slice(buf, table + EndOf(parts, i - 1), table + end[i]), 0)
    BY <2>2
  <2>4. At(buf, (table + n * LenBytes) + Len(Joined(parts, i - 1)), parts[i])
    <3>1. table + n * LenBytes \in Nat
      BY <1>2
    <3> QED  BY <1>1, <1>2, <2>1, <3>1, AtParts
  <2>5. /\ EndOf(parts, i - 1) = n * LenBytes + Len(Joined(parts, i - 1))
        /\ EndOf(parts, i - 1) \in Nat /\ EndOf(parts, i) \in Nat
        /\ EndOf(parts, i) = EndOf(parts, i - 1) + Len(parts[i])
        /\ Len(parts[i]) \in Nat
    BY <1>1, <2>1, EndOfStep DEF n
  <2>6. Len(Joined(parts, i - 1)) \in Nat
    <3>1. i - 1 \in 0 .. Len(parts)
      BY <2>1, <1>1
    <3> QED  BY <1>1, <3>1, JoinedTyped
  <2>7. (table + n * LenBytes) + Len(Joined(parts, i - 1)) = table + EndOf(parts, i - 1)
    <3>1. \A a, b \in Nat : (table + a) + b = table + (a + b)
      OBVIOUS
    <3> QED  BY <1>2, <2>5, <2>6, <3>1
  <2>8. At(buf, table + EndOf(parts, i - 1), parts[i]) /\ table + EndOf(parts, i - 1) \in Nat
    BY <2>4, <2>5, <2>7
  <2>9. ReadWell(t, v[i], parts[i]) /\ parts[i] \in Seq(Byte)
    BY <2>1
  <2>10. Slice(buf, table + EndOf(parts, i - 1), table + end[i]) = parts[i]
    <3>1. table + end[i] = (table + EndOf(parts, i - 1)) + Len(parts[i])
      <4>1. end[i] = EndOf(parts, i - 1) + Len(parts[i])
        BY <1>3, <2>5
      <4>2. \A a, b \in Nat : (table + a) + b = table + (a + b)
        OBVIOUS
      <4> QED  BY <2>5, <4>1, <4>2
    <3> QED  BY <2>8, <2>9, <3>1, AtSlice
  <2>11. At(parts[i], 0, parts[i])
    BY <2>9, AtItself
  <2>12. value[i] = deserialize(t, parts[i], 0)
    BY <2>3, <2>10
  <2> HIDE DEF value
  <2> QED  BY <2>9, <2>11, <2>12 DEF ReadWell
<1>5. DOMAIN value = 1 .. n
  OBVIOUS
<1>6. CutOut(t, n, buf, table)
        = IF ~ Enough(buf, table, n * LenBytes) THEN None
          ELSE IF AllSome(value)
          THEN Read([i \in 1 .. n |-> value[i].v], table + end[n])
          ELSE None
  BY Zenon DEF CutOut, end
<1> HIDE DEF value
<1>7. \A i \in 1 .. n : value[i] # None /\ value[i].v = v[i]
  BY <1>4, ReadingIs
<1>8. AllSome(value)
  BY <1>5, <1>7 DEF AllSome, ToSet
<1>9. [i \in 1 .. n |-> value[i].v] = Firsts(v, n)
  BY <1>7 DEF Firsts
<1>10. table + end[n] = table + n * LenBytes + Len(FlattenSeq(parts))
  <2>1. FlattenSeq(parts) = Joined(parts, n)
    BY JoinedStep DEF n
  <2>2. n \in 1 .. n /\ n \in 0 .. Len(parts)
    BY <1>1 DEF n
  <2>3. end[n] = EndOf(parts, n)
    BY <1>3, <2>2
  <2>4. EndOf(parts, n) = n * LenBytes + Len(Joined(parts, n))
    BY DEF EndOf, Joined, n
  <2>5. Len(Joined(parts, n)) \in Nat
    BY <2>2, JoinedTyped
  <2>6. \A a, b \in Nat : table + (a + b) = table + a + b
    OBVIOUS
  <2> QED  BY <1>2, <2>1, <2>3, <2>4, <2>5, <2>6
<1> QED  BY <1>2, <1>6, <1>8, <1>9, <1>10 DEF n

-----------------------------------------------------------------------------
(* Containers come back if what they are made of does.                      *)

(* The parameters that tie the recursion through the elements of containers *)
(* are what the modules call them.                                          *)
NestedSerializer ==
  \A t \in Types :
    /\ \A v : serialize(t, v) = serialize_value(t, v)
    /\ \A buf \in Seq(Byte), from \in Nat :
         deserialize(t, buf, from) = deserialize_value(t, buf, from)
    /\ \A v : Restorable(t, v) <=> RestorableValue(t, v)

(* What is written of a type's values are bytes, which give back the value  *)
(* if it can be given back.                                                 *)
WrittenWell(t, v) ==
  serialize_value(t, v) # None =>
    /\ serialize_value(t, v) \in Seq(Byte)
    /\ RestorableValue(t, v) => Restores(t, v, serialize_value(t, v))

Sound(t) == \A v : WrittenWell(t, v)

(* An element is written and read as its type's values are.                 *)
LEMMA ElementRead ==
  ASSUME NestedSerializer, NEW t \in Types, Sound(t), NEW v, serialize(t, v) # None
  PROVE  /\ serialize(t, v) \in Seq(Byte)
         /\ Restorable(t, v) => ReadWell(t, v, serialize(t, v))
         /\ Restorable(t, v) /\ ~ EndsInZero(t, v) => ReadExactly(t, v, serialize(t, v))
<1> DEFINE w == serialize(t, v)
<1>1. w = serialize_value(t, v) /\ (Restorable(t, v) <=> RestorableValue(t, v))
  BY DEF NestedSerializer
<1>2. \A buf \in Seq(Byte), from \in Nat :
        deserialize(t, buf, from) = deserialize_value(t, buf, from)
  BY DEF NestedSerializer
<1> HIDE DEF w
<1>3. w \in Seq(Byte) /\ (Restorable(t, v) => Restores(t, v, w))
  <2>1. WrittenWell(t, v)
    BY Zenon DEF Sound
  <2>2. w # None
    BY DEF w
  <2> QED  BY <1>1, <2>1, <2>2 DEF WrittenWell
<1>4. Restorable(t, v) => ReadWell(t, v, w)
  BY <1>2, <1>3 DEF Restores, ReadWell
<1>5. Restorable(t, v) /\ ~ EndsInZero(t, v) => ReadExactly(t, v, w)
  BY <1>2, <1>3 DEF Restores, ReadExactly
<1> QED  BY <1>3, <1>4, <1>5 DEF w

PartsAre(types, v, parts) ==
  /\ types \in Seq(Types)
  /\ parts = [i \in 1 .. Len(types) |-> serialize(types[i], v[i])]
  /\ \A i \in 1 .. Len(types) : Sound(types[i])

(* So is each of the elements of a container.                               *)
LEMMA PartsRead ==
  ASSUME NestedSerializer, NEW types, NEW v, NEW parts, PartsAre(types, v, parts),
         AllSome(parts)
  PROVE  /\ ArePartsOf(types, parts)
         /\ \A i \in 1 .. Len(parts) : Restorable(types[i], v[i]) =>
              /\ ReadWell(types[i], v[i], parts[i])
              /\ ~ EndsInZero(types[i], v[i]) => ReadExactly(types[i], v[i], parts[i])
<1> DEFINE n == Len(types)
<1>1. n \in Nat /\ (\A i \in 1 .. n : types[i] \in Types)
  BY DEF PartsAre
<1>2. /\ DOMAIN parts = 1 .. n
      /\ \A i \in 1 .. n : parts[i] = serialize(types[i], v[i]) /\ Sound(types[i])
  BY DEF PartsAre
<1>3. parts = [i \in 1 .. n |-> parts[i]]
  BY DEF PartsAre
<1> HIDE DEF n
<1>4. \A i \in 1 .. n : serialize(types[i], v[i]) # None
  BY <1>2, AllSomeOf
<1>5. ASSUME NEW i \in 1 .. n
      PROVE  /\ parts[i] \in Seq(Byte)
             /\ Restorable(types[i], v[i]) =>
                  /\ ReadWell(types[i], v[i], parts[i])
                  /\ ~ EndsInZero(types[i], v[i]) => ReadExactly(types[i], v[i], parts[i])
  <2>1. types[i] \in Types /\ Sound(types[i]) /\ serialize(types[i], v[i]) # None
    BY <1>1, <1>2, <1>4
  <2>2. parts[i] = serialize(types[i], v[i])
    BY <1>2
  <2> QED  BY <2>1, <2>2, ElementRead
<1>6. parts \in Seq(Seq(Byte)) /\ Len(parts) = n
  BY <1>1, <1>3, <1>5, ListTyped
<1>7. ArePartsOf(types, parts)
  BY <1>6 DEF ArePartsOf, PartsAre, n
<1> QED  BY <1>5, <1>6, <1>7

(* Elements are their parts in a row, behind a table if they vary in size.  *)
LEMMA ElementsTyped ==
  ASSUME NEW variable \in BOOLEAN, NEW parts \in Seq(Seq(Byte)), Elements(variable, parts) # None
  PROVE  /\ Elements(variable, parts) \in Seq(Byte)
         /\ FlattenSeq(parts) \in Seq(Byte) /\ Len(FlattenSeq(parts)) \in Nat
         /\ Len(parts) * LenBytes \in Nat
         /\ ~ variable => Elements(variable, parts) = FlattenSeq(parts)
         /\ variable =>
              /\ AllSome(OffsetTable(parts))
              /\ Elements(variable, parts) = FlattenSeq(OffsetTable(parts)) \o FlattenSeq(parts)
              /\ Len(Elements(variable, parts)) = Len(parts) * LenBytes + Len(FlattenSeq(parts))
         /\ parts = <<>> => Len(Elements(variable, parts)) = 0
<1> DEFINE n == Len(parts)
           E == Elements(variable, parts)
           flat == FlattenSeq(parts)
<1>1. n \in Nat /\ LenBytes \in Nat /\ n * LenBytes \in Nat
  <2>1. n \in Nat /\ LenBytes \in Nat
    BY SizesAreNat
  <2> HIDE DEF n
  <2> QED  BY <2>1
<1>2. flat \in Seq(Byte) /\ Len(flat) \in Nat
  BY <1>1, JoinedStep, JoinedTyped
<1>3. n = 0 => Len(flat) = 0
  <2>1. flat = Joined(parts, n) /\ Joined(parts, 0) = <<>> /\ Len(<<>>) = 0
    BY JoinedStep
  <2> QED  BY <2>1
<1>4. CASE ~ variable
  <2>1. E = flat
    BY <1>4 DEF Elements
  <2>2. parts = <<>> => n = 0
    OBVIOUS
  <2> HIDE DEF E, flat, n
  <2> QED  BY <1>1, <1>2, <1>3, <1>4, <2>1, <2>2 DEF E, flat, n
<1>5. CASE variable
  <2>1. AllSome(OffsetTable(parts)) /\ E = FlattenSeq(OffsetTable(parts)) \o flat
    BY <1>5 DEF Elements
  <2>2. /\ FlattenSeq(OffsetTable(parts)) \in Seq(Byte)
        /\ Len(FlattenSeq(OffsetTable(parts))) = n * LenBytes
    BY <2>1, OffsetsTyped
  <2>3. parts = <<>> => n = 0
    OBVIOUS
  <2>4. n = 0 => n * LenBytes = 0
    BY <1>1
  <2> DEFINE m == n * LenBytes
  <2> HIDE DEF E, flat, n, m
  <2>5. E \in Seq(Byte) /\ Len(E) = m + Len(flat)
    <3>1. /\ FlattenSeq(OffsetTable(parts)) \o flat \in Seq(Byte)
          /\ Len(FlattenSeq(OffsetTable(parts)) \o flat) = m + Len(flat)
      BY <1>2, <2>2, ConcatTyped DEF m
    <3> QED  BY <2>1, <3>1
  <2>6. parts = <<>> => Len(E) = 0
    BY <1>3, <2>3, <2>4, <2>5 DEF m
  <2> QED  BY <1>1, <1>2, <1>5, <2>1, <2>5, <2>6 DEF E, flat, n, m
<1> QED  BY <1>4, <1>5

(* Something goes behind something else only if neither failed.             *)
LEMMA BehindIs ==
  ASSUME NEW head, NEW rest, Behind(head, rest) # None
  PROVE  head # None /\ rest # None /\ Behind(head, rest) = head \o rest
  BY DEF Behind

(* A list is the first of its elements, all of them.                        *)
LEMMA ListIs ==
  ASSUME NEW v, IsList(v)
  PROVE  /\ Len(v) \in Nat /\ DOMAIN v = 1 .. Len(v) /\ Firsts(v, Len(v)) = v
         /\ Len(v) = 0 => v = <<>>
<1>1. Len(v) \in Nat /\ v = [i \in 1 .. Len(v) |-> v[i]]
  BY DEF IsList
<1>2. DOMAIN v = 1 .. Len(v)
  BY <1>1
<1>3. Firsts(v, Len(v)) = v
  BY <1>1, Zenon DEF Firsts
<1>4. ASSUME Len(v) = 0 PROVE v = <<>>
  <2>1. 1 .. Len(v) = {}
    BY <1>4
  <2>2. v = [i \in {} |-> v[i]]
    BY <1>1, <2>1, Zenon
  <2>3. [i \in {} |-> v[i]] = <<>>
    OBVIOUS
  <2> QED  BY <2>2, <2>3, Zenon
<1> QED  BY <1>1, <1>2, <1>3, <1>4

(* A count and what stands behind it.                                       *)
LEMMA CountRead ==
  ASSUME NEW n, serialize_uint(n, LenBytes) # None, NEW rest \in Seq(Byte),
         NEW buf \in Seq(Byte), NEW from \in Nat,
         At(buf, from, serialize_uint(n, LenBytes) \o rest)
  PROVE  /\ n \in Nat
         /\ Enough(buf, from, LenBytes) /\ Number(buf, from, LenBytes) = n
         /\ from + LenBytes \in Nat
         /\ At(buf, from + LenBytes, rest)
<1> DEFINE count == serialize_uint(n, LenBytes)
<1>1. n \in Nat /\ count \in Seq(Byte) /\ Len(count) = LenBytes /\ LenBytes \in Nat
  <2>1. LenBytes \in Nat
    BY SizesAreNat
  <2> QED  BY <2>1, UintTyped
<1> HIDE DEF count
<1>2. At(buf, from, count) /\ At(buf, from + LenBytes, rest)
  <2>1. At(buf, from, count \o rest)
    BY DEF count
  <2> QED  BY <1>1, <2>1, AtConcat
<1>3. Enough(buf, from, LenBytes) /\ Number(buf, from, LenBytes) = n
  BY <1>1, <1>2, UintAt DEF count
<1> QED  BY <1>1, <1>2, <1>3

(* A count takes up LenBytes bytes.                                         *)
LEMMA CountLen ==
  ASSUME NEW n, serialize_uint(n, LenBytes) # None, NEW rest \in Seq(Byte)
  PROVE  /\ serialize_uint(n, LenBytes) \o rest \in Seq(Byte)
         /\ Len(serialize_uint(n, LenBytes) \o rest) = LenBytes + Len(rest)
         /\ Len(rest) \in Nat
<1>1. LenBytes \in Nat
  BY SizesAreNat
<1>2. serialize_uint(n, LenBytes) \in Seq(Byte) /\ Len(serialize_uint(n, LenBytes)) = LenBytes
  BY <1>1, UintTyped
<1> QED  BY <1>2, ConcatTyped

(* Only variable types end in a zero that is written longer than read.      *)
LEMMA FixedEndsExactly ==
  ASSUME NEW t, ~ IsVariable(t), NEW v
  PROVE  ~ EndsInZero(t, v)
  BY DEF IsVariable, VariableKinds, EndsInZero

(* If the reader of its elements gives them back, so does that of an array, *)
LEMMA ArrayWritten ==
  ASSUME NoneIsNoReading, NestedSerializer, NEW t \in Types, t.k = "array",
         Sound(t.of), NEW v
  PROVE  WrittenWell(t, v)
<1> DEFINE n == Len(v)
           parts == [i \in DOMAIN v |-> serialize(t.of, v[i])]
           types == [i \in 1 .. n |-> t.of]
           E == Elements(IsVariable(t.of), parts)
           count == serialize_uint(n, LenBytes)
           w == serialize_value(t, v)
<1> SUFFICES ASSUME w # None
             PROVE  w \in Seq(Byte) /\ (RestorableValue(t, v) => Restores(t, v, w))
  BY DEF WrittenWell
<1>1. w = serialize_array(t, v)
  BY DEF serialize_value
<1>2. IsList(v) /\ Behind(count, E) # None /\ w = Behind(count, E)
  BY <1>1 DEF serialize_array
<1>3. count # None /\ E # None /\ w = count \o E
  BY <1>2, BehindIs, Zenon
<1>4. n \in Nat /\ DOMAIN v = 1 .. n /\ Firsts(v, n) = v /\ (n = 0 => v = <<>>)
  BY <1>2, ListIs
<1>5. t.of \in Types
  BY TypesAreNested DEF PartsOf
<1>6. PartsAre(types, v, parts)
  <2>1. types \in Seq(Types) /\ Len(types) = n
    BY <1>4, <1>5
  <2>2. \A i \in 1 .. n : types[i] = t.of
    OBVIOUS
  <2>3. parts = [i \in 1 .. n |-> serialize(types[i], v[i])]
    BY <1>4, <2>2
  <2> HIDE DEF types, parts, n
  <2> QED  BY <2>1, <2>2, <2>3 DEF PartsAre
<1>7. AllSome(parts)
  BY <1>3 DEF Elements
<1> HIDE DEF parts
<1>8. /\ ArePartsOf(types, parts)
      /\ \A i \in 1 .. Len(parts) : Restorable(types[i], v[i]) =>
           /\ ReadWell(types[i], v[i], parts[i])
           /\ ~ EndsInZero(types[i], v[i]) => ReadExactly(types[i], v[i], parts[i])
  <2> HIDE DEF types
  <2> QED  BY <1>6, <1>7, PartsRead
<1>9. parts \in Seq(Seq(Byte)) /\ Len(parts) = n /\ \A i \in 1 .. n : types[i] = t.of
  BY <1>4, <1>8 DEF ArePartsOf
<1>10. IsVariable(t.of) \in BOOLEAN
  BY DEF IsVariable
<1>11. /\ E \in Seq(Byte)
       /\ FlattenSeq(parts) \in Seq(Byte) /\ Len(FlattenSeq(parts)) \in Nat
       /\ n * LenBytes \in Nat
       /\ ~ IsVariable(t.of) => E = FlattenSeq(parts)
       /\ IsVariable(t.of) =>
            /\ AllSome(OffsetTable(parts))
            /\ E = FlattenSeq(OffsetTable(parts)) \o FlattenSeq(parts)
            /\ Len(E) = n * LenBytes + Len(FlattenSeq(parts))
       /\ parts = <<>> => Len(E) = 0
  BY <1>3, <1>9, <1>10, ElementsTyped
<1> HIDE DEF n, types, E, w
<1>12. w \in Seq(Byte) /\ Len(w) = LenBytes + Len(E) /\ Len(E) \in Nat /\ LenBytes \in Nat
  <2>1. LenBytes \in Nat
    BY SizesAreNat
  <2> QED  BY <1>3, <1>11, <2>1, CountLen
<1>13. ASSUME RestorableValue(t, v),
              NEW buf \in Seq(Byte), NEW from \in Nat, At(buf, from, w)
       PROVE  deserialize_value(t, buf, from) = Read(v, from + Len(w))
  <2> DEFINE start == from + LenBytes
  <2>1. /\ Enough(buf, from, LenBytes) /\ Number(buf, from, LenBytes) = n
        /\ start \in Nat /\ At(buf, start, E)
    <3>1. At(buf, from, count \o E)
      BY <1>3, <1>13
    <3> HIDE DEF start
    <3> QED  BY <1>3, <1>11, <3>1, CountRead DEF start
  <2>2. from + Len(w) = start + Len(E)
    BY <1>12
  <2>3. deserialize_value(t, buf, from) = deserialize_array(t, buf, from)
    BY DEF deserialize_value, FixedKinds
  <2>4. deserialize_array(t, buf, from)
          = IF n = 0 THEN Read(<<>>, start)
            ELSE IF IsVariable(t.of) THEN CutOut(t.of, n, buf, start)
            ELSE InARow(types, buf, start)
    BY <2>1 DEF deserialize_array, types
  <2>5. \A i \in 1 .. n : Restorable(t.of, v[i])
    BY <1>4, <1>13 DEF RestorableValue
  <2> HIDE DEF start
  <2>6. CASE n = 0
    <3>1. parts = <<>>
      BY <1>9, <2>6
    <3>2. Len(E) = 0 /\ start + 0 = start
      BY <1>11, <2>1, <3>1
    <3> QED  BY <1>4, <2>2, <2>3, <2>4, <2>6, <3>2
  <2>7. CASE n # 0 /\ IsVariable(t.of)
    <3>1. Tabled(buf, start, parts)
      BY <1>11, <2>1, <2>7 DEF Tabled
    <3>2. \A i \in 1 .. Len(parts) : ReadWell(t.of, v[i], parts[i])
      BY <1>8, <1>9, <2>5
    <3>3. CutOut(t.of, Len(parts), buf, start)
            = Read(Firsts(v, Len(parts)), start + Len(parts) * LenBytes + Len(FlattenSeq(parts)))
      BY <1>5, <1>9, <1>11, <2>1, <2>7, <3>1, <3>2, CutOutReads
    <3>4. start + n * LenBytes + Len(FlattenSeq(parts)) = start + Len(E)
      <4>1. Len(E) = n * LenBytes + Len(FlattenSeq(parts))
        BY <1>11, <2>7
      <4> QED  BY <1>11, <2>1, <4>1, Regrouped
    <3>5. CutOut(t.of, n, buf, start) = Read(v, from + Len(w))
      BY <1>4, <1>9, <2>2, <3>3, <3>4
    <3> QED  BY <2>3, <2>4, <2>7, <3>5
  <2>8. CASE n # 0 /\ ~ IsVariable(t.of)
    <3>1. \A i \in 1 .. Len(parts) : ReadExactly(types[i], v[i], parts[i])
      BY <1>8, <1>9, <2>5, <2>8, FixedEndsExactly
    <3>2. At(buf, start, FlattenSeq(parts))
      BY <1>11, <2>1, <2>8
    <3>3. InARow(types, buf, start) = Read(Firsts(v, Len(parts)), start + Len(FlattenSeq(parts)))
      BY <1>8, <2>1, <3>1, <3>2, InARowReads
    <3>4. InARow(types, buf, start) = Read(v, from + Len(w))
      BY <1>4, <1>9, <1>11, <2>2, <2>8, <3>3
    <3> QED  BY <2>3, <2>4, <2>8, <3>4
  <2> QED  BY <2>6, <2>7, <2>8
<1>14. RestorableValue(t, v) => Restores(t, v, w)
  BY <1>12, <1>13 DEF Restores
<1> QED  BY <1>12, <1>14

(* that of a struct if those of all its fields do,                          *)
LEMMA StructWritten ==
  ASSUME NoneIsNoReading, NestedSerializer, NEW t \in Types, t.k = "struct",
         \A i \in 1 .. Len(t.of) : Sound(t.of[i]), NEW v
  PROVE  WrittenWell(t, v)
<1> DEFINE n == Len(v)
           parts == [i \in DOMAIN v |-> serialize(t.of[i], v[i])]
           E == Elements(TRUE, parts)
           head == 16 * n + 3
           count == serialize_uint(head, LenBytes)
           w == serialize_value(t, v)
<1> SUFFICES ASSUME w # None
             PROVE  w \in Seq(Byte) /\ (RestorableValue(t, v) => Restores(t, v, w))
  BY DEF WrittenWell
<1>1. w = serialize_struct(t, v)
  BY DEF serialize_value
<1>2. IsList(v) /\ n = Len(t.of) /\ Behind(count, E) # None /\ w = Behind(count, E)
  BY <1>1 DEF serialize_struct
<1>3. count # None /\ E # None /\ w = count \o E
  BY <1>2, BehindIs, Zenon
<1>4. n \in Nat /\ DOMAIN v = 1 .. n /\ Firsts(v, n) = v /\ (n = 0 => v = <<>>)
  BY <1>2, ListIs
<1>5. t.of \in Seq(Types)
  BY TypesAreNested
<1>6. PartsAre(t.of, v, parts)
  <2>1. parts = [i \in 1 .. Len(t.of) |-> serialize(t.of[i], v[i])]
    BY <1>2, <1>4
  <2> HIDE DEF parts, n
  <2> QED  BY <1>5, <2>1 DEF PartsAre
<1>7. AllSome(parts)
  BY <1>3 DEF Elements
<1> HIDE DEF parts
<1>8. /\ ArePartsOf(t.of, parts)
      /\ \A i \in 1 .. Len(parts) : Restorable(t.of[i], v[i]) =>
           /\ ReadWell(t.of[i], v[i], parts[i])
           /\ ~ EndsInZero(t.of[i], v[i]) => ReadExactly(t.of[i], v[i], parts[i])
  BY <1>6, <1>7, PartsRead
<1>9. parts \in Seq(Seq(Byte)) /\ Len(parts) = n
  BY <1>2, <1>8 DEF ArePartsOf
<1>10. TRUE \in BOOLEAN
  OBVIOUS
<1>11. /\ E \in Seq(Byte)
       /\ FlattenSeq(parts) \in Seq(Byte) /\ Len(FlattenSeq(parts)) \in Nat
       /\ n * LenBytes \in Nat
       /\ AllSome(OffsetTable(parts))
       /\ E = FlattenSeq(OffsetTable(parts)) \o FlattenSeq(parts)
       /\ Len(E) = n * LenBytes + Len(FlattenSeq(parts))
       /\ parts = <<>> => Len(E) = 0
  BY <1>3, <1>9, <1>10, ElementsTyped
<1> HIDE DEF n, E, w, head
<1>12. w \in Seq(Byte) /\ Len(w) = LenBytes + Len(E) /\ Len(E) \in Nat /\ LenBytes \in Nat
  <2>1. LenBytes \in Nat
    BY SizesAreNat
  <2> QED  BY <1>3, <1>11, <2>1, CountLen
<1>13. head \div 16 = n
  <2>1. 3 + 16 * n = head /\ 3 \in 0 .. 16 - 1 /\ n \in Int /\ 16 \in Nat \ {0}
    BY <1>4 DEF head
  <2>2. (3 + 16 * n) \div 16 = n
    BY <1>4
  <2> QED  BY <2>1, <2>2
<1>14. ASSUME RestorableValue(t, v),
              NEW buf \in Seq(Byte), NEW from \in Nat, At(buf, from, w)
       PROVE  deserialize_value(t, buf, from) = Read(v, from + Len(w))
  <2> DEFINE start == from + LenBytes
  <2>1. /\ Enough(buf, from, LenBytes) /\ Number(buf, from, LenBytes) = head
        /\ start \in Nat /\ At(buf, start, E)
    <3>1. At(buf, from, count \o E)
      BY <1>3, <1>14
    <3> HIDE DEF start
    <3> QED  BY <1>3, <1>11, <3>1, CountRead DEF start
  <2>2. from + Len(w) = start + Len(E)
    BY <1>12
  <2>3. deserialize_value(t, buf, from) = deserialize_struct(t, buf, from)
    BY DEF deserialize_value, FixedKinds
  <2>4. deserialize_struct(t, buf, from)
          = IF n = 0 THEN Read(<<>>, start) ELSE BehindTable(t.of, buf, start)
    BY <1>2, <1>13, <2>1 DEF deserialize_struct, n
  <2>5. \A i \in 1 .. n : Restorable(t.of[i], v[i])
    BY <1>4, <1>14 DEF RestorableValue
  <2> HIDE DEF start
  <2>6. CASE n = 0
    <3>1. parts = <<>>
      BY <1>9, <2>6
    <3>2. Len(E) = 0 /\ start + 0 = start
      BY <1>11, <2>1, <3>1
    <3> QED  BY <1>4, <2>2, <2>3, <2>4, <2>6, <3>2
  <2>7. CASE n # 0
    <3>1. Tabled(buf, start, parts)
      BY <1>11, <2>1 DEF Tabled
    <3>2. \A i \in 1 .. Len(parts) : ReadWell(t.of[i], v[i], parts[i])
      BY <1>8, <1>9, <2>5
    <3>3. BehindTable(t.of, buf, start)
            = Read(Firsts(v, Len(parts)), start + Len(parts) * LenBytes + Len(FlattenSeq(parts)))
      <4>1. ArePartsOf(t.of, parts) /\ AllSome(OffsetTable(parts))
        BY <1>8, <1>11
      <4>2. start \in Nat
        BY <2>1
      <4> HIDE DEF BehindTable, Tabled
      <4> QED  BY <3>1, <3>2, <4>1, <4>2, BehindTableReads, Zenon
    <3>4. start + n * LenBytes + Len(FlattenSeq(parts)) = start + Len(E)
      BY <1>11, <2>1, Regrouped
    <3>5. BehindTable(t.of, buf, start) = Read(v, from + Len(w))
      BY <1>4, <1>9, <2>2, <3>3, <3>4
    <3> QED  BY <2>3, <2>4, <2>7, <3>5
  <2> QED  BY <2>6, <2>7
<1>15. RestorableValue(t, v) => Restores(t, v, w)
  BY <1>12, <1>14 DEF Restores
<1> QED  BY <1>12, <1>15

MapKeys(v) == [i \in 1 .. Len(v) |-> v[i][1]]
MapVals(v) == [i \in 1 .. Len(v) |-> v[i][2]]
Repeated(t, n) == [i \in 1 .. n |-> t]

(* One column of a map: its elements, their bytes E, and what E gives back. *)
Column(p, n, col, variable, parts, E) ==
  /\ ArePartsOf(Repeated(p, n), parts) /\ Len(parts) = n
  /\ E \in Seq(Byte)
  /\ FlattenSeq(parts) \in Seq(Byte) /\ Len(FlattenSeq(parts)) \in Nat
  /\ n * LenBytes \in Nat
  /\ ~ variable => E = FlattenSeq(parts)
  /\ variable =>
       /\ AllSome(OffsetTable(parts))
       /\ E = FlattenSeq(OffsetTable(parts)) \o FlattenSeq(parts)
       /\ Len(E) = n * LenBytes + Len(FlattenSeq(parts))
  /\ \A i \in 1 .. n : Restorable(p, col[i]) =>
       /\ ReadWell(Repeated(p, n)[i], col[i], parts[i])
       /\ ~ EndsInZero(p, col[i]) => ReadExactly(Repeated(p, n)[i], col[i], parts[i])

(* The elements of one column of a map, apart from the map.                 *)
LEMMA ColumnWritten ==
  ASSUME NestedSerializer, NEW p \in Types, Sound(p), NEW n \in Nat, NEW col,
         NEW parts, parts = [i \in 1 .. n |-> serialize(p, col[i])],
         NEW variable \in BOOLEAN, Elements(variable, parts) # None
  PROVE  Column(p, n, col, variable, parts, Elements(variable, parts))
<1> DEFINE types == Repeated(p, n)
<1>1. types \in Seq(Types) /\ Len(types) = n /\ \A i \in 1 .. n : types[i] = p
  BY DEF Repeated
<1> HIDE DEF types
<1>2. PartsAre(types, col, parts)
  <2>1. parts = [i \in 1 .. Len(types) |-> serialize(types[i], col[i])]
    BY <1>1
  <2> QED  BY <1>1, <2>1 DEF PartsAre
<1>3. AllSome(parts)
  BY DEF Elements
<1>4. /\ ArePartsOf(types, parts)
      /\ \A i \in 1 .. Len(parts) : Restorable(types[i], col[i]) =>
           /\ ReadWell(types[i], col[i], parts[i])
           /\ ~ EndsInZero(types[i], col[i]) => ReadExactly(types[i], col[i], parts[i])
  BY <1>2, <1>3, PartsRead
<1>5. parts \in Seq(Seq(Byte)) /\ Len(parts) = n
  BY <1>1, <1>4 DEF ArePartsOf
<1> DEFINE E == Elements(variable, parts)
<1>6. /\ E \in Seq(Byte)
      /\ FlattenSeq(parts) \in Seq(Byte) /\ Len(FlattenSeq(parts)) \in Nat
      /\ n * LenBytes \in Nat
      /\ ~ variable => E = FlattenSeq(parts)
      /\ variable =>
           /\ AllSome(OffsetTable(parts))
           /\ E = FlattenSeq(OffsetTable(parts)) \o FlattenSeq(parts)
           /\ Len(E) = n * LenBytes + Len(FlattenSeq(parts))
  BY <1>5, ElementsTyped
<1>7. \A i \in 1 .. n : Restorable(p, col[i]) =>
        /\ ReadWell(types[i], col[i], parts[i])
        /\ ~ EndsInZero(p, col[i]) => ReadExactly(types[i], col[i], parts[i])
  BY <1>1, <1>4, <1>5
<1> QED  BY <1>4, <1>5, <1>6, <1>7 DEF Column, types

(* and that of a map if those of its keys and of its values do.             *)
LEMMA MapWritten ==
  ASSUME NoneIsNoReading, NestedSerializer, NEW t \in Types, t.k = "map",
         Sound(t.key), Sound(t.val), NEW v
  PROVE  WrittenWell(t, v)
<1> DEFINE n == Len(v)
           ks == MapKeys(v)
           vs == MapVals(v)
           kparts == [i \in 1 .. n |-> serialize(t.key, ks[i])]
           vparts == [i \in 1 .. n |-> serialize(t.val, vs[i])]
           K == Elements(FALSE, kparts)
           V == Elements(IsVariable(t.val), vparts)
           count == serialize_uint(n, LenBytes)
           w == serialize_value(t, v)
<1> SUFFICES ASSUME w # None
             PROVE  w \in Seq(Byte) /\ (RestorableValue(t, v) => Restores(t, v, w))
  BY DEF WrittenWell
<1>1. w = serialize_map(t, v)
  BY DEF serialize_value
<1>2. IsList(v)
  BY <1>1 DEF serialize_map
<1>3. n \in Nat /\ DOMAIN v = 1 .. n /\ Firsts(v, n) = v
  BY <1>2, ListIs
<1>4. /\ [i \in DOMAIN v |-> serialize(t.key, v[i][1])] = kparts
      /\ [i \in DOMAIN v |-> serialize(t.val, v[i][2])] = vparts
      /\ \A i \in 1 .. n : ks[i] = v[i][1] /\ vs[i] = v[i][2]
  BY <1>3 DEF MapKeys, MapVals
<1>5. w = Behind(count, Behind(K, V))
  <2>1. serialize_map(t, v)
          = Behind(count, Behind(Elements(FALSE, [i \in DOMAIN v |-> serialize(t.key, v[i][1])]),
                Elements(IsVariable(t.val), [i \in DOMAIN v |-> serialize(t.val, v[i][2])])))
    BY <1>2, Zenon DEF serialize_map
  <2> HIDE DEF kparts, vparts
  <2> QED  BY <1>1, <1>4, <2>1
<1> HIDE DEF K, V, w
<1>6. /\ count # None /\ K # None /\ V # None
      /\ w = count \o (K \o V)
  <2>1. count # None /\ Behind(K, V) # None /\ w = count \o Behind(K, V)
    BY <1>5, BehindIs, Zenon
  <2>2. K # None /\ V # None /\ Behind(K, V) = K \o V
    BY <2>1, BehindIs, Zenon
  <2> QED  BY <2>1, <2>2
<1>7. t.key \in Types /\ t.val \in Types
  BY TypesAreNested DEF PartsOf
<1> DEFINE ktypes == Repeated(t.key, n)
           vtypes == Repeated(t.val, n)
<1>8. /\ ArePartsOf(ktypes, kparts) /\ Len(kparts) = n
      /\ K \in Seq(Byte)
      /\ K = FlattenSeq(kparts)
      /\ \A i \in 1 .. n : Restorable(t.key, ks[i]) /\ ~ EndsInZero(t.key, ks[i]) =>
           ReadExactly(ktypes[i], ks[i], kparts[i])
  <2>1. FALSE \in BOOLEAN /\ Elements(FALSE, kparts) # None
    BY <1>6 DEF K
  <2>2. Column(t.key, n, ks, FALSE, kparts, Elements(FALSE, kparts))
    <3> HIDE DEF ks, n
    <3> QED  BY <1>3, <1>7, <2>1, ColumnWritten, Zenon
  <2> HIDE DEF ks, n, kparts
  <2> QED  BY <2>2 DEF Column, K
<1>9. /\ ArePartsOf(vtypes, vparts) /\ Len(vparts) = n
      /\ V \in Seq(Byte)
      /\ FlattenSeq(vparts) \in Seq(Byte) /\ Len(FlattenSeq(vparts)) \in Nat
      /\ n * LenBytes \in Nat
      /\ ~ IsVariable(t.val) => V = FlattenSeq(vparts)
      /\ IsVariable(t.val) =>
           /\ AllSome(OffsetTable(vparts))
           /\ V = FlattenSeq(OffsetTable(vparts)) \o FlattenSeq(vparts)
           /\ Len(V) = n * LenBytes + Len(FlattenSeq(vparts))
      /\ \A i \in 1 .. n : Restorable(t.val, vs[i]) =>
           /\ ReadWell(vtypes[i], vs[i], vparts[i])
           /\ ~ EndsInZero(t.val, vs[i]) => ReadExactly(vtypes[i], vs[i], vparts[i])
  <2>1. IsVariable(t.val) \in BOOLEAN /\ Elements(IsVariable(t.val), vparts) # None
    BY <1>6 DEF V, IsVariable
  <2>2. Column(t.val, n, vs, IsVariable(t.val), vparts, Elements(IsVariable(t.val), vparts))
    <3> HIDE DEF vs, n
    <3> QED  BY <1>3, <1>7, <2>1, ColumnWritten, Zenon
  <2> HIDE DEF vs, n, vparts
  <2> QED  BY <2>2 DEF Column, V
<1> HIDE DEF kparts, vparts, ktypes, vtypes, n, ks, vs
<1>10. K \o V \in Seq(Byte) /\ Len(K \o V) = Len(K) + Len(V) /\ Len(K) \in Nat /\ Len(V) \in Nat
  BY <1>8, <1>9, ConcatTyped
<1>11. w \in Seq(Byte) /\ Len(w) = LenBytes + (Len(K) + Len(V)) /\ LenBytes \in Nat
  <2>1. LenBytes \in Nat
    BY SizesAreNat
  <2>2. count \o (K \o V) \in Seq(Byte) /\ Len(count \o (K \o V)) = LenBytes + Len(K \o V)
    BY <1>6, <1>10, CountLen
  <2> QED  BY <1>6, <1>10, <2>1, <2>2
<1>12. ASSUME RestorableValue(t, v),
              NEW buf \in Seq(Byte), NEW from \in Nat, At(buf, from, w)
       PROVE  deserialize_value(t, buf, from) = Read(v, from + Len(w))
  <2> DEFINE start == from + LenBytes
             place == start + Len(K)
  <2>1. /\ Enough(buf, from, LenBytes) /\ Number(buf, from, LenBytes) = n
        /\ start \in Nat /\ At(buf, start, K \o V)
    <3>1. At(buf, from, count \o (K \o V))
      BY <1>6, <1>12
    <3> HIDE DEF start
    <3> QED  BY <1>6, <1>10, <3>1, CountRead DEF start
  <2>2. from + Len(w) = place + Len(V) /\ place \in Nat
    BY <1>10, <1>11
  <2>3. deserialize_value(t, buf, from) = deserialize_map(t, buf, from)
    BY DEF deserialize_value, FixedKinds
  <2> DEFINE keys == InARow(ktypes, buf, start)
             vals == IF IsVariable(t.val) THEN BehindTable(vtypes, buf, keys.next)
                     ELSE InARow(vtypes, buf, keys.next)
  <2>4. deserialize_map(t, buf, from)
          = IF keys = None THEN None
            ELSE IF vals = None THEN None
            ELSE Read([i \in 1 .. n |-> <<keys.v[i], vals.v[i]>>], vals.next)
    BY <2>1 DEF deserialize_map, ktypes, vtypes, Repeated
  <2>5. \A i \in 1 .. n :
          /\ v[i] = <<ks[i], vs[i]>>
          /\ Restorable(t.key, ks[i]) /\ Restorable(t.val, vs[i])
          /\ ~ EndsInZero(t.key, ks[i])
    BY <1>3, <1>4, <1>12 DEF RestorableValue
  <2> HIDE DEF start
  <2>6. At(buf, start, K) /\ At(buf, place, V)
    BY <1>8, <1>9, <2>1, AtConcat
  <2>7. keys = Read(Firsts(ks, n), place)
    <3>1. \A i \in 1 .. Len(kparts) : ReadExactly(ktypes[i], ks[i], kparts[i])
      BY <1>8, <2>5
    <3>2. At(buf, start, FlattenSeq(kparts))
      BY <1>8, <2>6
    <3>3. ArePartsOf(ktypes, kparts) /\ start \in Nat
      BY <1>8, <2>1
    <3>4. InARow(ktypes, buf, start)
            = Read(Firsts(ks, Len(kparts)), start + Len(FlattenSeq(kparts)))
      BY <3>1, <3>2, <3>3, InARowReads
    <3> QED  BY <1>8, <3>4
  <2> HIDE DEF keys, place
  <2>8. keys # None /\ keys.v = Firsts(ks, n) /\ keys.next = place
    BY <2>7, ReadingIs
  <2>9. vals = Read(Firsts(vs, n), place + Len(V))
    <3>1. ArePartsOf(vtypes, vparts) /\ place \in Nat
      BY <1>9, <2>2
    <3>2. CASE IsVariable(t.val)
      <4>1. \A i \in 1 .. Len(vparts) : ReadWell(vtypes[i], vs[i], vparts[i])
        BY <1>9, <2>5
      <4>2. Tabled(buf, place, vparts) /\ AllSome(OffsetTable(vparts))
        BY <1>9, <2>6, <3>2 DEF Tabled
      <4>3. BehindTable(vtypes, buf, place)
              = Read(Firsts(vs, Len(vparts)),
                     place + Len(vparts) * LenBytes + Len(FlattenSeq(vparts)))
        <5> HIDE DEF BehindTable, Tabled
        <5> QED  BY <3>1, <4>1, <4>2, BehindTableReads, Zenon
      <4>4. place + n * LenBytes + Len(FlattenSeq(vparts)) = place + Len(V)
        <5>1. Len(V) = n * LenBytes + Len(FlattenSeq(vparts))
          BY <1>9, <3>2
        <5> QED  BY <1>9, <3>1, <5>1, Regrouped
      <4> QED  BY <1>9, <2>8, <3>2, <4>3, <4>4
    <3>3. CASE ~ IsVariable(t.val)
      <4>1. \A i \in 1 .. Len(vparts) : ReadExactly(vtypes[i], vs[i], vparts[i])
        BY <1>9, <2>5, <3>3, FixedEndsExactly
      <4>2. At(buf, place, FlattenSeq(vparts))
        BY <1>9, <2>6, <3>3
      <4>3. InARow(vtypes, buf, place)
              = Read(Firsts(vs, Len(vparts)), place + Len(FlattenSeq(vparts)))
        BY <3>1, <4>1, <4>2, InARowReads
      <4> QED  BY <1>9, <2>8, <3>3, <4>3
    <3> QED  BY <3>2, <3>3
  <2> HIDE DEF vals
  <2>10. vals # None /\ vals.v = Firsts(vs, n) /\ vals.next = place + Len(V)
    BY <2>9, ReadingIs
  <2>11. [i \in 1 .. n |-> <<keys.v[i], vals.v[i]>>] = v
    <3>1. \A i \in 1 .. n : <<keys.v[i], vals.v[i]>> = v[i]
      BY <2>5, <2>8, <2>10 DEF Firsts
    <3>2. [i \in 1 .. n |-> <<keys.v[i], vals.v[i]>>] = Firsts(v, n)
      BY <3>1 DEF Firsts
    <3> QED  BY <1>3, <3>2
  <2> QED  BY <2>2, <2>3, <2>4, <2>8, <2>10, <2>11
<1>13. RestorableValue(t, v) => Restores(t, v, w)
  <2>1. Len(w) \in Nat
    BY <1>11
  <2> QED  BY <1>12, <2>1 DEF Restores
<1> QED  BY <1>11, <1>13

-----------------------------------------------------------------------------
(* Values that are not made of others are given back by their reader.       *)
LEMMA ScalarWritten ==
  ASSUME NoneIsNoReading, NEW t \in Types, PartsOf(t) = {}, t.k # "struct", NEW v
  PROVE  WrittenWell(t, v)
<1> DEFINE w == serialize_value(t, v)
<1> SUFFICES ASSUME w # None
             PROVE  w \in Seq(Byte) /\ (RestorableValue(t, v) => Restores(t, v, w))
  BY DEF WrittenWell
<1>1. t.k \in {"uint", "int", "fixed"} => t.w \in Nat \ {0}
  BY TypesAreNested
<1>2. CASE t.k = "uint"
  <2>1. w = serialize_uint(v, t.w) /\ t.w \in Nat
    BY <1>1, <1>2 DEF serialize_value
  <2> QED  BY <1>2, <2>1, UintTyped, UintRestored
<1>3. CASE t.k = "enum"
  <2>1. w = serialize_uint(v, 2) /\ 2 \in Nat
    BY <1>3 DEF serialize_value
  <2> QED  BY <1>3, <2>1, UintTyped, EnumRestored
<1>4. CASE t.k = "int"
  <2>1. w = serialize_int(v, t.w)
    BY <1>4 DEF serialize_value
  <2> QED  BY <1>1, <1>4, <2>1, IntRestored
<1>5. CASE t.k = "bool"
  <2>1. RestorableValue(t, v) => v \in BOOLEAN
    BY <1>5 DEF RestorableValue
  <2> QED  BY <1>5, <2>1, BoolRestored
<1>6. CASE t.k = "fixed"
  <2>1. w = serialize_fixed(v, t.w)
    BY <1>6 DEF serialize_value
  <2> QED  BY <1>1, <1>6, <2>1, FixedRestored
<1>7. CASE t.k = "string"
  <2>1. w = serialize_string(v)
    BY <1>7 DEF serialize_value
  <2> QED  BY <1>7, <2>1, StringRestored
<1>8. CASE t.k = "bigint"
  <2>1. w = serialize_bigint(v)
    BY <1>8 DEF serialize_value
  <2>2. w \in Seq(Byte) /\ BigintAt(v, w)
    BY <2>1, SerializedBigint
  <2>3. Restores(t, v, w)
    <3>1. \A buf, from : deserialize_value(t, buf, from) = deserialize_bigint(buf, from)
      BY <1>8 DEF deserialize_value, FixedKinds
    <3> HIDE DEF w
    <3> QED  BY <1>8, <2>2, <3>1 DEF Restores, BigintAt, EndsInZero
  <2> QED  BY <2>2, <2>3
<1>9. CASE t.k = "token"
  <2>1. w = serialize_token(v)
    BY <1>9 DEF serialize_value
  <2>2. RestorableValue(t, v) => v = [id |-> v.id, amount |-> v.amount]
    BY <1>9 DEF RestorableValue
  <2> QED  BY <1>9, <2>1, <2>2, TokenRestored
<1>10. t.k \notin {"array", "map"}
  BY DEF PartsOf
<1>11. CASE t.k \notin FixedKinds \cup VariableKinds
  BY <1>11 DEF serialize_value, FixedKinds, VariableKinds
<1> QED  BY <1>2, <1>3, <1>4, <1>5, <1>6, <1>7, <1>8, <1>9, <1>10, <1>11
     DEF FixedKinds, VariableKinds

(* What serialize_value writes of any value of any type are bytes; and a    *)
(* value that can be restored is what deserialize_value reads from them,    *)
(* wherever they stand.  By induction over how deep types nest.             *)
THEOREM SerializerIsSound ==
  ASSUME NoneIsNoReading, NestedSerializer
  PROVE  \A t \in Types : Sound(t)
<1> DEFINE Bad == {t \in Types : ~ Sound(t)}
           Depths == {Depth[t] : t \in Bad}
<1> SUFFICES ASSUME Bad # {} PROVE FALSE
  OBVIOUS
<1>1. Depths \in SUBSET Nat /\ Depths # {}
  BY TypesAreNested
<1>2. PICK t \in Bad : \A s \in Bad : Depth[t] <= Depth[s]
  <2>1. PICK x \in Depths : \A y \in Depths : x <= y
    <3> HIDE DEF Depths
    <3> QED  BY <1>1, LeastOf
  <2> HIDE DEF Bad
  <2> QED  BY <2>1
<1>3. t \in Types /\ ~ Sound(t)
  BY <1>2
<1>4. ASSUME NEW p \in PartsOf(t) PROVE p \in Types /\ Sound(p)
  <2>1. p \in Types /\ Depth[p] < Depth[t] /\ Depth[p] \in Nat /\ Depth[t] \in Nat
    BY <1>3, TypesAreNested
  <2>2. p \notin Bad
    BY <1>2, <2>1
  <2> QED  BY <2>1, <2>2
<1> HIDE DEF Bad, Depths
<1>5. ASSUME NEW v PROVE WrittenWell(t, v)
  <2>1. CASE t.k = "array"
    <3>1. t.of \in PartsOf(t)
      BY <2>1 DEF PartsOf
    <3> QED  BY <1>3, <1>4, <2>1, <3>1, ArrayWritten
  <2>2. CASE t.k = "map"
    <3>1. t.key \in PartsOf(t) /\ t.val \in PartsOf(t)
      BY <2>2 DEF PartsOf
    <3> QED  BY <1>3, <1>4, <2>2, <3>1, MapWritten
  <2>3. CASE t.k = "struct"
    <3>1. t.of \in Seq(Types)
      BY <1>3, <2>3, TypesAreNested
    <3>2. \A i \in 1 .. Len(t.of) : t.of[i] \in PartsOf(t)
      BY <2>3, <3>1 DEF PartsOf, ToSet
    <3>3. \A i \in 1 .. Len(t.of) : Sound(t.of[i])
      BY <1>4, <3>2
    <3> QED  BY <1>3, <2>3, <3>3, StructWritten
  <2>4. CASE t.k \notin {"array", "map", "struct"}
    <3>1. PartsOf(t) = {}
      BY <2>4 DEF PartsOf
    <3> QED  BY <1>3, <2>4, <3>1, ScalarWritten
  <2> QED  BY <2>1, <2>2, <2>3, <2>4
<1>6. Sound(t)
  BY <1>5 DEF Sound
<1> QED  BY <1>3, <1>6

-----------------------------------------------------------------------------
(* Every reader goes on at an offset, whatever the bytes.                   *)

(* Whatever it reads, the reader of type t goes on at an offset.            *)
GoesOn(t) ==
  \A buf \in Seq(Byte), from \in Nat :
    deserialize_value(t, buf, from) # None => deserialize_value(t, buf, from).next \in Nat

ElementGoesOn(t) ==
  \A buf \in Seq(Byte), from \in Nat :
    deserialize(t, buf, from) # None => deserialize(t, buf, from).next \in Nat

(* A reading goes on where it says.                                         *)
LEMMA NextIs == \A v, next : Read(v, next).next = next
  BY DEF Read

(* Readers in a row go on behind the last of them,                          *)
LEMMA InARowGoesOn ==
  ASSUME NEW types \in Seq(Types), \A i \in 1 .. Len(types) : ElementGoesOn(types[i]),
         NEW buf \in Seq(Byte), NEW from \in Nat, InARow(types, buf, from) # None
  PROVE  InARow(types, buf, from).next \in Nat
<1> DEFINE n == Len(types)
           Step(f, i) ==
             IF i = 0 THEN Read(<<>>, from)
             ELSE LET r == f[i - 1]
                      x == deserialize(types[i], buf, r.next)
                  IN IF r = None THEN None
                     ELSE IF x = None THEN None
                     ELSE Read(Append(r.v, x.v), x.next)
           After(m, f) == [i \in 0 .. m |-> Step(f, i)]
           after == CHOOSE f : f = After(n, f)
           Good == {m \in 0 .. n : \E g : g = After(m, g)}
<1>1. n \in Nat
  OBVIOUS
<1>2. InARow(types, buf, from) = after[n]
  BY Zenon DEF InARow
<1> HIDE DEF n
<1>3. 0 \in Good
  <2> DEFINE g == [i \in 0 .. 0 |-> Read(<<>>, from)]
  <2>1. g = After(0, g)
    OBVIOUS
  <2> HIDE DEF g, After
  <2> QED  BY <1>1, <2>1
<1>4. ASSUME NEW m \in 0 .. n - 1, m \in Good PROVE m + 1 \in Good
  <2> HIDE DEF Step
  <2>1. PICK g : g = After(m, g)
    BY <1>4
  <2> DEFINE h == [i \in 0 .. m + 1 |-> IF i = m + 1 THEN Step(g, m + 1) ELSE g[i]]
  <2>2. ASSUME NEW i \in 0 .. m + 1 PROVE h[i] = Step(h, i)
    <3>1. CASE i = 0
      <4>1. h[0] = g[0]
        <5>1. 0 \in 0 .. m + 1 /\ 0 # m + 1
          BY <1>1
        <5> QED  BY <5>1
      <4>a. g[0] = Step(g, 0)
        <5>1. 0 \in 0 .. m
          BY <1>1
        <5> QED  BY <2>1, <5>1
      <4>2. Step(g, 0) = Step(h, 0)
        BY DEF Step
      <4> HIDE DEF h
      <4> QED  BY <3>1, <4>1, <4>a, <4>2
    <3>2. CASE i # 0
      <4>1. i - 1 \in 0 .. m /\ i - 1 # m + 1
        BY <3>2
      <4>2. h[i - 1] = g[i - 1]
        BY <4>1
      <4>3. Step(h, i) = Step(g, i)
        <5> HIDE DEF h
        <5> QED  BY <3>2, <4>2 DEF Step
      <4>4. CASE i = m + 1
        BY <4>3, <4>4
      <4>5. CASE i # m + 1
        <5>1. i \in 0 .. m
          BY <4>5
        <5>2. g[i] = Step(g, i)
          BY <2>1, <5>1
        <5> QED  BY <4>3, <4>5, <5>2
      <4> QED  BY <4>4, <4>5
    <3> QED  BY <3>1, <3>2
  <2>3. h = [i \in 0 .. m + 1 |-> h[i]]
    OBVIOUS
  <2> HIDE DEF h
  <2>4. h = After(m + 1, h)
    BY <2>2, <2>3
  <2>5. m + 1 \in 0 .. n
    BY <1>1
  <2> HIDE DEF After
  <2> QED  BY <2>4, <2>5
<1>5. n \in Good
  <2> HIDE DEF Good
  <2>1. \A m \in 0 .. n : m \in Good
    BY <1>1, <1>3, <1>4, UpTo
  <2> QED  BY <1>1, <2>1
<1>6. after = After(n, after)
  <2> HIDE DEF After
  <2>1. \E g : g = After(n, g)
    BY <1>5
  <2> QED  BY <2>1, Zenon
<1> HIDE DEF after, Good, Step
<1>7. \A i \in 0 .. n : after[i] = Step(after, i)
  BY <1>6
<1> DEFINE Fine == {i \in 0 .. n : after[i] # None => after[i].next \in Nat}
<1>8. 0 \in Fine
  <2>1. after[0] = Read(<<>>, from)
    BY <1>1, <1>7 DEF Step
  <2> QED  BY <1>1, <2>1, NextIs
<1>9. ASSUME NEW i \in 0 .. n - 1, i \in Fine PROVE i + 1 \in Fine
  <2>1. i + 1 \in 0 .. n /\ i + 1 # 0 /\ (i + 1) - 1 = i /\ i + 1 \in 1 .. n
    BY <1>1
  <2> DEFINE r == after[i]
             x == deserialize(types[i + 1], buf, r.next)
  <2>2. after[i + 1] = IF r = None THEN None ELSE IF x = None THEN None
                       ELSE Read(Append(r.v, x.v), x.next)
    BY <1>7, <2>1 DEF Step
  <2>3. r # None => r.next \in Nat
    BY <1>9
  <2>4. r # None /\ x # None => x.next \in Nat
    <3>1. ElementGoesOn(types[i + 1])
      BY <2>1 DEF n
    <3> QED  BY <2>3, <3>1 DEF ElementGoesOn
  <2> HIDE DEF r, x
  <2>5. after[i + 1] # None => after[i + 1].next \in Nat
    BY <2>2, <2>4, NextIs
  <2> QED  BY <2>1, <2>5
<1>10. n \in Fine
  <2> HIDE DEF Fine
  <2>1. \A i \in 0 .. n : i \in Fine
    BY <1>1, <1>8, <1>9, UpTo
  <2> QED  BY <1>1, <2>1
<1> QED  BY <1>2, <1>10

(* those behind a table behind it,                                          *)
LEMMA BehindTableGoesOn ==
  ASSUME NEW types, Len(types) \in Nat, NEW buf \in Seq(Byte), NEW table \in Nat,
         BehindTable(types, buf, table) # None
  PROVE  BehindTable(types, buf, table).next \in Nat
<1> DEFINE n == Len(types)
           end == [i \in 1 .. n |-> Number(buf, table + (i - 1) * LenBytes, LenBytes)]
           value == [i \in 1 .. n |->
             deserialize(types[i], buf, table + (IF i = 1 THEN n * LenBytes ELSE end[i - 1]))]
           place == IF n = 0 THEN table ELSE table + end[n]
<1>1. BehindTable(types, buf, table)
        = IF ~ Enough(buf, table, n * LenBytes) THEN None
          ELSE IF AllSome(value) THEN Read([i \in 1 .. n |-> value[i].v], place) ELSE None
  BY Zenon DEF BehindTable
<1>2. place \in Nat
  <2>1. ASSUME n # 0 PROVE end[n] \in Nat
    <3>1. n - 1 \in Nat /\ n \in 1 .. n /\ LenBytes \in Nat
      BY <2>1, SizesAreNat
    <3> HIDE DEF n
    <3>2. (n - 1) * LenBytes \in Nat
      BY <3>1
    <3>3. table + (n - 1) * LenBytes \in Nat
      BY <3>2
    <3>4. Number(buf, table + (n - 1) * LenBytes, LenBytes) \in Nat
      BY <3>1, <3>3, NumberTyped
    <3> QED  BY <3>1, <3>4
  <2> HIDE DEF end, n
  <2> QED  BY <2>1
<1> HIDE DEF place, value, end, n
<1> QED  BY <1>1, <1>2, NextIs

(* and those of an array behind its last element.                           *)
LEMMA CutOutGoesOn ==
  ASSUME NEW t, NEW n \in Nat \ {0}, NEW buf \in Seq(Byte), NEW table \in Nat,
         CutOut(t, n, buf, table) # None
  PROVE  CutOut(t, n, buf, table).next \in Nat
<1> DEFINE end == [i \in 1 .. n |-> Number(buf, table + (i - 1) * LenBytes, LenBytes)]
           value == [i \in 1 .. n |->
             deserialize(t, Slice(buf, table + (IF i = 1 THEN n * LenBytes ELSE end[i - 1]),
                                       table + end[i]), 0)]
           place == table + end[n]
<1>1. CutOut(t, n, buf, table)
        = IF ~ Enough(buf, table, n * LenBytes) THEN None
          ELSE IF AllSome(value) THEN Read([i \in 1 .. n |-> value[i].v], place) ELSE None
  BY Zenon DEF CutOut
<1>2. place \in Nat
  <2>1. n - 1 \in Nat /\ n \in 1 .. n /\ LenBytes \in Nat
    BY SizesAreNat
  <2>2. (n - 1) * LenBytes \in Nat
    BY <2>1
  <2>3. table + (n - 1) * LenBytes \in Nat
    BY <2>2
  <2>4. Number(buf, table + (n - 1) * LenBytes, LenBytes) \in Nat
    BY <2>1, <2>3, NumberTyped
  <2> QED  BY <2>1, <2>4
<1> HIDE DEF place, value, end
<1> QED  BY <1>1, <1>2, NextIs

(* The size a bigint's head announces is a number of bytes.                 *)
LEMMA BigintSizeTyped ==
  ASSUME NEW buf \in Seq(Byte), NEW from \in Nat
  PROVE  from + BigintSize(Number(buf, from, 1) % (Base \div 2)) \in Nat
<1>1. LimbBytes \in Nat /\ Base \div 2 \in Nat \ {0}
  BY SizesAreNat
<1>2. Number(buf, from, 1) \in Nat
  BY NumberTyped
<1>3. Number(buf, from, 1) % (Base \div 2) \in Nat
  BY <1>1, <1>2
<1> DEFINE k == Number(buf, from, 1) % (Base \div 2)
<1> HIDE DEF k
<1>4. k * LimbBytes \in Nat
  BY <1>1, <1>3 DEF k
<1> QED  BY <1>4 DEF BigintSize, k

(* The reader of a bigint goes on behind it,                                *)
LEMMA BigintGoesOn ==
  ASSUME NEW buf \in Seq(Byte), NEW from \in Nat, deserialize_bigint(buf, from) # None
  PROVE  deserialize_bigint(buf, from).next \in Nat
<1> DEFINE place == from + BigintSize(Number(buf, from, 1) % (Base \div 2))
<1>1. place \in Nat
  BY BigintSizeTyped
<1>2. \E v : deserialize_bigint(buf, from) = Read(v, place)
  BY DEF deserialize_bigint
<1> HIDE DEF place
<1> QED  BY <1>1, <1>2, NextIs

(* that of a text behind the length it has read,                            *)
LEMMA StringEndTyped ==
  ASSUME NEW buf \in Seq(Byte), NEW from \in Nat
  PROVE  /\ from + StrLenBytes \in Nat
         /\ from + StrLenBytes + Number(buf, from, StrLenBytes) \in Nat
<1>1. StrLenBytes \in Nat
  BY SizesAreNat
<1>2. Number(buf, from, StrLenBytes) \in Nat
  BY <1>1, NumberTyped
<1> QED  BY <1>1, <1>2

(* that of any scalar at an offset,                                         *)
LEMMA ScalarGoesOn ==
  ASSUME NEW t \in Types, t.k \notin {"array", "map", "struct"}
  PROVE  GoesOn(t)
<1> SUFFICES ASSUME NEW buf \in Seq(Byte), NEW from \in Nat, deserialize_value(t, buf, from) # None
             PROVE  deserialize_value(t, buf, from).next \in Nat
  BY DEF GoesOn
<1>1. CASE t.k \in FixedKinds
  <2>1. WidthOf(t) \in Nat
    <3>1. t.k \in {"uint", "int", "fixed"} => t.w \in Nat \ {0}
      BY TypesAreNested
    <3> QED  BY <1>1, <3>1 DEF FixedKinds, WidthOf
  <2>2. deserialize_value(t, buf, from) = deserialize_fixed(t, buf, from)
    BY <1>1 DEF deserialize_value, FixedKinds
  <2>3. \E v : deserialize_fixed(t, buf, from) = Read(v, from + WidthOf(t))
    <3>1. deserialize_fixed(t, buf, from) # None
      BY <2>2
    <3> QED  BY <3>1, Zenon DEF deserialize_fixed
  <2> QED  BY <2>1, <2>2, <2>3, NextIs
<1>2. CASE t.k = "string"
  <2>1. deserialize_value(t, buf, from) = deserialize_string(buf, from)
    BY <1>2 DEF deserialize_value, FixedKinds
  <2> DEFINE place == from + StrLenBytes + Number(buf, from, StrLenBytes)
  <2>2. \E v : deserialize_string(buf, from) = Read(v, place)
    <3>1. deserialize_string(buf, from) # None
      BY <2>1
    <3> QED  BY <3>1, Zenon DEF deserialize_string
  <2>3. place \in Nat
    BY StringEndTyped
  <2> HIDE DEF place
  <2> QED  BY <2>1, <2>2, <2>3, NextIs
<1>3. CASE t.k = "bigint"
  <2>1. deserialize_value(t, buf, from) = deserialize_bigint(buf, from)
    BY <1>3 DEF deserialize_value, FixedKinds
  <2> QED  BY <2>1, BigintGoesOn
<1>4. CASE t.k = "token"
  <2>1. deserialize_value(t, buf, from) = deserialize_token(buf, from)
    BY <1>4 DEF deserialize_value, FixedKinds
  <2>2. from + LimbBytes \in Nat
    BY SizesAreNat
  <2> DEFINE amount == deserialize_bigint(buf, from + LimbBytes)
  <2>3. amount # None /\ \E v : deserialize_token(buf, from) = Read(v, amount.next)
    <3>1. deserialize_token(buf, from) # None
      BY <2>1
    <3> QED  BY <3>1, Zenon DEF deserialize_token
  <2>4. amount.next \in Nat
    BY <2>2, <2>3, BigintGoesOn
  <2> HIDE DEF amount
  <2> QED  BY <2>1, <2>3, <2>4, NextIs
<1>5. t.k \in FixedKinds \cup {"string", "bigint", "token"}
  BY DEF deserialize_value
<1> QED  BY <1>1, <1>2, <1>3, <1>4, <1>5

(* that of a container if those of its elements do,                         *)
LEMMA ContainerGoesOn ==
  ASSUME NEW t \in Types, t.k \in {"array", "map", "struct"},
         \A p \in PartsOf(t) : p \in Types /\ ElementGoesOn(p)
  PROVE  GoesOn(t)
<1> SUFFICES ASSUME NEW buf \in Seq(Byte), NEW from \in Nat, deserialize_value(t, buf, from) # None
             PROVE  deserialize_value(t, buf, from).next \in Nat
  BY DEF GoesOn
<1> DEFINE start == from + LenBytes
           n == Number(buf, from, LenBytes)
<1>1. start \in Nat /\ n \in Nat
  <2>1. LenBytes \in Nat
    BY SizesAreNat
  <2>2. n \in Nat
    BY <2>1, NumberTyped
  <2>3. start \in Nat
    BY <2>1
  <2> QED  BY <2>2, <2>3
<1>2. ASSUME NEW p \in PartsOf(t), NEW at \in Nat
      PROVE  /\ InARow(Repeated(p, n), buf, at) # None
                  => InARow(Repeated(p, n), buf, at).next \in Nat
             /\ BehindTable(Repeated(p, n), buf, at) # None
                  => BehindTable(Repeated(p, n), buf, at).next \in Nat
  <2> HIDE DEF n
  <2>1. /\ Repeated(p, n) \in Seq(Types) /\ Len(Repeated(p, n)) = n
        /\ \A i \in 1 .. n : Repeated(p, n)[i] = p
    BY <1>1 DEF Repeated
  <2>2. ElementGoesOn(p)
    OBVIOUS
  <2> QED  BY <1>1, <2>1, <2>2, InARowGoesOn, BehindTableGoesOn
<1>3. CASE t.k = "array"
  <2>1. t.of \in PartsOf(t)
    BY <1>3 DEF PartsOf
  <2>2. deserialize_value(t, buf, from) = deserialize_array(t, buf, from)
    BY <1>3 DEF deserialize_value, FixedKinds
  <2>3. \/ deserialize_value(t, buf, from) = Read(<<>>, start)
        \/ n # 0 /\ deserialize_value(t, buf, from) = CutOut(t.of, n, buf, start)
        \/ deserialize_value(t, buf, from) = InARow(Repeated(t.of, n), buf, start)
    BY <2>2 DEF deserialize_array, Repeated
  <2> HIDE DEF start, n
  <2> QED  BY <1>1, <1>2, <2>1, <2>3, NextIs, CutOutGoesOn
<1>4. CASE t.k = "map"
  <2>1. t.key \in PartsOf(t) /\ t.val \in PartsOf(t)
    BY <1>4 DEF PartsOf
  <2> DEFINE keys == InARow(Repeated(t.key, n), buf, start)
             vals == IF IsVariable(t.val) THEN BehindTable(Repeated(t.val, n), buf, keys.next)
                     ELSE InARow(Repeated(t.val, n), buf, keys.next)
  <2>2. deserialize_value(t, buf, from) = deserialize_map(t, buf, from)
    BY <1>4 DEF deserialize_value, FixedKinds
  <2>3. keys # None /\ vals # None /\ \E v : deserialize_value(t, buf, from) = Read(v, vals.next)
    BY <2>2 DEF deserialize_map, Repeated
  <2>4. keys.next \in Nat
    BY <1>1, <1>2, <2>1, <2>3
  <2>5. vals.next \in Nat
    <3> HIDE DEF keys, n
    <3> QED  BY <1>2, <2>1, <2>3, <2>4
  <2> HIDE DEF keys, vals
  <2> QED  BY <2>3, <2>5, NextIs
<1>5. CASE t.k = "struct"
  <2>1. deserialize_value(t, buf, from) = deserialize_struct(t, buf, from)
    BY <1>5 DEF deserialize_value, FixedKinds
  <2>2. \/ deserialize_value(t, buf, from) = Read(<<>>, start)
        \/ deserialize_value(t, buf, from) = BehindTable(t.of, buf, start)
    BY <2>1 DEF deserialize_struct
  <2>3. Len(t.of) \in Nat
    BY <1>5, TypesAreNested
  <2> HIDE DEF start
  <2> QED  BY <1>1, <2>2, <2>3, NextIs, BehindTableGoesOn
<1> QED  BY <1>3, <1>4, <1>5

(* and so, by induction over the nesting of types, every reader.            *)
LEMMA EveryoneGoesOn ==
  ASSUME NestedSerializer
  PROVE  \A t \in Types : ElementGoesOn(t)
<1> DEFINE Bad == {t \in Types : ~ ElementGoesOn(t)}
           Depths == {Depth[t] : t \in Bad}
<1> SUFFICES ASSUME Bad # {} PROVE FALSE
  OBVIOUS
<1>1. Depths \in SUBSET Nat /\ Depths # {}
  BY TypesAreNested
<1>2. PICK t \in Bad : \A s \in Bad : Depth[t] <= Depth[s]
  <2>1. PICK x \in Depths : \A y \in Depths : x <= y
    <3> HIDE DEF Depths
    <3> QED  BY <1>1, LeastOf
  <2> HIDE DEF Bad
  <2> QED  BY <2>1
<1>3. t \in Types /\ ~ ElementGoesOn(t)
  BY <1>2
<1>4. ASSUME NEW p \in PartsOf(t) PROVE p \in Types /\ ElementGoesOn(p)
  <2>1. p \in Types /\ Depth[p] < Depth[t] /\ Depth[p] \in Nat /\ Depth[t] \in Nat
    BY <1>3, TypesAreNested
  <2>2. p \notin Bad
    BY <1>2, <2>1
  <2> QED  BY <2>1, <2>2
<1> HIDE DEF Bad, Depths
<1>5. GoesOn(t)
  <2>1. CASE t.k \in {"array", "map", "struct"}
    BY <1>3, <1>4, <2>1, ContainerGoesOn
  <2>2. CASE t.k \notin {"array", "map", "struct"}
    BY <1>3, <2>2, ScalarGoesOn
  <2> QED  BY <2>1, <2>2
<1>6. ElementGoesOn(t)
  BY <1>3, <1>5 DEF GoesOn, ElementGoesOn, NestedSerializer
<1> QED  BY <1>3, <1>6

(* And so do the older parsers.                                             *)
LEMMA FallbackGoesOn ==
  ASSUME NEW t \in Types, data \in Seq(Byte), offset \in Nat
  PROVE  Fallback(t).next \in Nat
<1>1. t.k \in {"uint", "int", "fixed"} => t.w \in Nat \ {0}
  BY TypesAreNested
<1>2. CASE t.k \in {"uint", "int", "bool", "fixed"}
  <2>1. offset + WidthOf(t) \in Nat
    BY <1>1, <1>2 DEF WidthOf
  <2>2. Fallback(t) = OldFixed(t)
    BY <1>2 DEF Fallback
  <2>3. \E v : OldFixed(t) = Read(v, offset + WidthOf(t)) \/ OldFixed(t) = Read(v, offset)
    <3>1. CASE t.k = "uint"
      BY <3>1, Zenon DEF OldFixed
    <3>2. CASE t.k = "int"
      BY <3>2, Zenon DEF OldFixed
    <3>3. CASE t.k = "bool"
      BY <3>3, Zenon DEF OldFixed
    <3>4. CASE t.k = "fixed"
      BY <3>4, Zenon DEF OldFixed
    <3> QED  BY <1>2, <3>1, <3>2, <3>3, <3>4
  <2> QED  BY <2>1, <2>2, <2>3, NextIs
<1>3. CASE t.k = "string"
  <2>1. Fallback(t) = OldString
    BY <1>3 DEF Fallback
  <2> DEFINE start == offset + StrLenBytes
             place == start + Number(data, offset, StrLenBytes)
  <2>2. \E v : OldString = Read(v, place) \/ OldString = Read(v, start)
    BY Zenon DEF OldString
  <2>3. start \in Nat /\ place \in Nat
    BY StringEndTyped
  <2> HIDE DEF start, place
  <2> QED  BY <2>1, <2>2, <2>3, NextIs
<1>4. CASE t.k = "bigint"
  <2>1. Fallback(t) = OldBigint
    BY <1>4 DEF Fallback
  <2> DEFINE place == offset + BigintSize(Number(data, offset, 1) % (Base \div 2))
  <2>2. \E v : OldBigint = Read(v, place)
    BY Zenon DEF OldBigint
  <2>3. place \in Nat
    BY BigintSizeTyped
  <2> HIDE DEF place
  <2> QED  BY <2>1, <2>2, <2>3, NextIs
<1>5. CASE t.k = "token"
  <2>1. Fallback(t) = OldToken
    BY <1>5 DEF Fallback
  <2> DEFINE place == offset + LimbBytes
             amount == deserialize_bigint(data, place)
  <2>2. place \in Nat
    BY SizesAreNat
  <2>3. \E v : \/ OldToken = Read(v, offset) \/ OldToken = Read(v, place)
               \/ amount # None /\ OldToken = Read(v, amount.next)
    BY Zenon DEF OldToken
  <2>4. amount # None => amount.next \in Nat
    BY <2>2, BigintGoesOn
  <2> HIDE DEF place, amount
  <2> QED  BY <2>1, <2>2, <2>3, <2>4, NextIs
<1>6. CASE t.k \notin {"uint", "int", "bool", "fixed", "string", "bigint", "token"}
  <2>1. Fallback(t) = Read(None, offset)
    BY <1>6 DEF Fallback
  <2> QED  BY <2>1, NextIs
<1> QED  BY <1>2, <1>3, <1>4, <1>5, <1>6

-----------------------------------------------------------------------------
(* The invariant of serialize_args and deserialized_args.                   *)

(* The bytes of argument j, and where they begin.                           *)
Wrote(j) == serialize(call.sig[j], call.args[j])
Start(j) == IF j = 1 THEN 0 ELSE ends[j - 1]

Typed ==
  /\ call \in Calls
  /\ pc \in {"write", "read", "done", "refused"}
  /\ data \in Seq(Byte)
  /\ ends \in Seq(Nat) /\ Len(ends) <= Len(call.sig) /\ Len(ends) <= Len(call.args)
  /\ offset \in Nat
  /\ IsList(ret) /\ Len(ret) <= Len(call.sig)

(* Each argument stands where ends says, as far as the data goes.           *)
InPlace ==
  \A j \in 1 .. Len(ends) :
    /\ Wrote(j) # None
    /\ ends[j] = Start(j) + Len(Wrote(j))
    /\ ends[j] <= Len(data) => At(data, Start(j), Wrote(j))

WritesAtEnd ==
  pc = "write" =>
    /\ Len(data) = Start(Len(ends) + 1)
    /\ \A j \in 1 .. Len(ends) : ends[j] <= Len(data)

NothingRead == pc \in {"write", "refused"} => ret = <<>> /\ offset = 0

ReadsAllWritten == pc \in {"read", "done"} => Len(ends) = Len(call.sig)

ReadSoFar ==
  pc \in {"read", "done"} =>
    /\ \A i \in 1 .. Len(ret) :
         Undisturbed(i) /\ ends[i] <= Len(data) => ret[i] = call.args[i]
    /\ Len(ret) = 0 => offset = 0
    /\ LET k == Len(ret) IN
       /\ k # 0
       /\ Undisturbed(k)
       /\ ~ EndsInZero(call.sig[k], call.args[k])
       /\ ends[k] <= Len(data)
       => offset = ends[k]

CodecInv == Typed /\ InPlace /\ WritesAtEnd /\ NothingRead /\ ReadsAllWritten /\ ReadSoFar

-----------------------------------------------------------------------------
(* A list with one value more keeps those it had.                           *)
LEMMA ListAppend ==
  ASSUME NEW v, IsList(v), NEW e
  PROVE  /\ IsList(Append(v, e)) /\ Len(Append(v, e)) = Len(v) + 1
         /\ \A i \in 1 .. Len(v) : Append(v, e)[i] = v[i]
         /\ Append(v, e)[Len(v) + 1] = e
<1> DEFINE n == Len(v)
           S == {v[i] : i \in 1 .. n} \cup {e}
<1>1. n \in Nat /\ v = [i \in 1 .. n |-> v[i]]
  BY DEF IsList
<1>2. v \in Seq(S)
  <2>1. \A i \in 1 .. n : v[i] \in S
    OBVIOUS
  <2> HIDE DEF S, n
  <2> QED  BY <1>1, <2>1, ListTyped
<1>3. e \in S
  OBVIOUS
<1> HIDE DEF S
<1>4. /\ Append(v, e) \in Seq(S) /\ Len(Append(v, e)) = n + 1
      /\ \A i \in 1 .. n : Append(v, e)[i] = v[i]
      /\ Append(v, e)[n + 1] = e
  BY <1>2, <1>3
<1> DEFINE u == Append(v, e)
<1>5. IsList(u)
  <2>1. u \in Seq(S) /\ Len(u) \in Nat
    BY <1>1, <1>4
  <2> HIDE DEF u
  <2>2. u = [i \in 1 .. Len(u) |-> u[i]]
    BY <2>1
  <2> QED  BY <2>1, <2>2 DEF IsList
<1> QED  BY <1>4, <1>5

(* What stands in a buffer stands there when more comes behind,             *)
LEMMA AtLonger ==
  ASSUME NEW S, NEW buf \in Seq(S), NEW more \in Seq(S), NEW from \in Nat, NEW w,
         Len(w) \in Nat, At(buf, from, w)
  PROVE  At(buf \o more, from, w)
<1>1. /\ Len(buf) \in Nat /\ Len(more) \in Nat /\ Len(buf \o more) = Len(buf) + Len(more)
      /\ \A i \in 1 .. Len(buf) : (buf \o more)[i] = buf[i]
  OBVIOUS
<1>2. from + Len(w) <= Len(buf)
  BY DEF At
<1>3. ASSUME NEW i \in 1 .. Len(w) PROVE (buf \o more)[from + i] = w[i]
  <2>1. from + i \in 1 .. Len(buf)
    BY <1>1, <1>2
  <2> QED  BY <1>1, <2>1 DEF At
<1> QED  BY <1>1, <1>2, <1>3 DEF At

(* what was put at the end stands there,                                    *)
LEMMA AtTheEnd ==
  ASSUME NEW S, NEW buf \in Seq(S), NEW w \in Seq(S)
  PROVE  At(buf \o w, Len(buf), w)
  BY DEF At

(* and what ends before a cut stands in front of it.                        *)
LEMMA AtPrefix ==
  ASSUME NEW S, NEW buf \in Seq(S), NEW from \in Nat, NEW w, Len(w) \in Nat,
         At(buf, from, w), NEW n \in 0 .. Len(buf), from + Len(w) <= n
  PROVE  At(SubSeq(buf, 1, n), from, w)
<1>1. /\ Len(SubSeq(buf, 1, n)) = n
      /\ \A i \in 1 .. n : SubSeq(buf, 1, n)[i] = buf[i]
  OBVIOUS
<1>2. ASSUME NEW i \in 1 .. Len(w) PROVE SubSeq(buf, 1, n)[from + i] = w[i]
  <2>1. from + i \in 1 .. n
    OBVIOUS
  <2> QED  BY <1>1, <2>1 DEF At
<1> QED  BY <1>1, <1>2 DEF At

-----------------------------------------------------------------------------
(* The invariant holds before anything was written,                         *)
LEMMA CodecInit == Init => CodecInv
<1> SUFFICES ASSUME Init PROVE CodecInv
  OBVIOUS
<1>1. Len(call.sig) \in Nat /\ Len(call.args) \in Nat
  BY CallsAreTyped DEF Init, IsList
<1>2. Typed
  BY <1>1 DEF Init, Typed, IsList
<1> QED  BY <1>2 DEF Init, CodecInv, InPlace, WritesAtEnd, NothingRead, ReadsAllWritten,
                     ReadSoFar, Start

(* Types of the arguments' bytes.                                           *)
LEMMA WroteTyped ==
  ASSUME NoneIsNoReading, NestedSerializer, call \in Calls,
         NEW j \in 1 .. Len(call.sig), Wrote(j) # None
  PROVE  Wrote(j) \in Seq(Byte) /\ Len(Wrote(j)) \in Nat
<1>1. call.sig[j] \in Types
  BY CallsAreTyped
<1>2. Sound(call.sig[j])
  BY <1>1, SerializerIsSound
<1>3. Wrote(j) \in Seq(Byte)
  BY <1>1, <1>2, ElementRead DEF Wrote
<1> QED  BY <1>3

(* when an argument is written,                                             *)
LEMMA CodecWrite ==
  ASSUME NoneIsNoReading, NestedSerializer, CodecInv, WriteArgument
  PROVE  CodecInv'
<1>a. PICK n : n = Len(ends)
  OBVIOUS
<1>b. PICK w : w = NextWritten
  OBVIOUS
<1>1. /\ Len(call.sig) \in Nat /\ Len(call.args) \in Nat
      /\ n \in Nat /\ n < Len(call.sig) /\ Len(data) \in Nat
  BY <1>a, CallsAreTyped DEF CodecInv, Typed, WriteArgument, Written, IsList
<1>2. n < Len(call.args) /\ w = Wrote(n + 1) /\ w # None
  BY <1>a, <1>b DEF WriteArgument, NextWritten, Written, Wrote
<1>3. w \in Seq(Byte) /\ Len(w) \in Nat
  <2>1. n + 1 \in 1 .. Len(call.sig)
    BY <1>1
  <2>2. call \in Calls
    BY DEF CodecInv, Typed
  <2> QED  BY <1>2, <2>1, <2>2, WroteTyped
<1>4. /\ data' = data \o w /\ ends' = Append(ends, Len(data'))
      /\ call' = call /\ pc' = pc /\ offset' = offset /\ ret' = ret
      /\ pc = "write"
  BY <1>b DEF WriteArgument
<1>5. data' \in Seq(Byte) /\ Len(data') = Len(data) + Len(w) /\ Len(data') \in Nat
  BY <1>3, <1>4 DEF CodecInv, Typed
<1>6. /\ ends' \in Seq(Nat) /\ Len(ends') = n + 1
      /\ \A j \in 1 .. n : ends'[j] = ends[j]
      /\ ends'[n + 1] = Len(data')
  BY <1>a, <1>4, <1>5 DEF CodecInv, Typed
<1>7. Typed'
  <2>1. Len(ends') <= Len(call'.sig) /\ Len(ends') <= Len(call'.args)
    BY <1>1, <1>2, <1>4, <1>6
  <2> QED  BY <1>4, <1>5, <1>6, <2>1 DEF CodecInv, Typed
<1>8. Len(data) = Start(n + 1) /\ \A j \in 1 .. n : ends[j] <= Len(data)
  BY <1>a, <1>4 DEF CodecInv, WritesAtEnd
<1>9. \A j \in 1 .. n + 1 : Start(j)' = Start(j) /\ Wrote(j)' = Wrote(j)
  <2>1. ASSUME NEW j \in 1 .. n + 1 PROVE Start(j)' = Start(j)
    <3>1. j # 1 => j - 1 \in 1 .. n
      BY <1>1
    <3> QED  BY <1>6, <3>1 DEF Start
  <2> QED  BY <1>4, <2>1 DEF Wrote
<1>10. InPlace'
  <2>1. ASSUME NEW j \in 1 .. n
        PROVE  /\ Wrote(j) # None
               /\ ends'[j] = Start(j) + Len(Wrote(j))
               /\ At(data', Start(j), Wrote(j))
    <3>1. /\ Wrote(j) # None /\ ends[j] = Start(j) + Len(Wrote(j))
          /\ At(data, Start(j), Wrote(j))
      BY <1>a, <1>8 DEF CodecInv, InPlace
    <3>2. Len(Wrote(j)) \in Nat
      <4>1. call \in Calls /\ j \in 1 .. Len(call.sig)
        BY <1>a, <1>1 DEF CodecInv, Typed
      <4> QED  BY <3>1, <4>1, WroteTyped
    <3>3. Start(j) \in Nat
      BY <1>a, <1>1 DEF Start, CodecInv, Typed
    <3>4. data \in Seq(Byte)
      BY DEF CodecInv, Typed
    <3>5. At(data \o w, Start(j), Wrote(j))
      BY <1>3, <3>1, <3>2, <3>3, <3>4, AtLonger
    <3> QED  BY <1>4, <1>6, <3>1, <3>5
  <2>2. /\ Wrote(n + 1) # None
        /\ ends'[n + 1] = Start(n + 1) + Len(Wrote(n + 1))
        /\ At(data', Start(n + 1), Wrote(n + 1))
    <3>1. data \in Seq(Byte)
      BY DEF CodecInv, Typed
    <3>2. At(data', Len(data), w)
      BY <1>3, <1>4, <3>1, AtTheEnd
    <3> QED  BY <1>2, <1>5, <1>6, <1>8, <3>2
  <2>3. ASSUME NEW j \in 1 .. n + 1
        PROVE  /\ Wrote(j) # None
               /\ ends'[j] = Start(j) + Len(Wrote(j))
               /\ At(data', Start(j), Wrote(j))
    <3>1. j \in 1 .. n \/ j = n + 1
      BY <1>1
    <3> QED  BY <2>1, <2>2, <3>1
  <2>4. ASSUME NEW j \in 1 .. n + 1
        PROVE  /\ Wrote(j)' # None
               /\ ends'[j] = Start(j)' + Len(Wrote(j)')
               /\ At(data', Start(j)', Wrote(j)')
    BY <1>9, <2>3
  <2> QED  BY <1>6, <2>4 DEF InPlace, At
<1>11. WritesAtEnd'
  <2>1. Start(n + 2)' = Len(data')
    BY <1>1, <1>6 DEF Start
  <2>2. ASSUME NEW j \in 1 .. n + 1 PROVE ends'[j] <= Len(data')
    <3>1. CASE j = n + 1
      BY <1>5, <1>6, <3>1
    <3>2. CASE j \in 1 .. n
      <4>1. ends'[j] = ends[j] /\ ends[j] <= Len(data) /\ ends[j] \in Nat
        BY <1>a, <1>6, <1>8, <3>2 DEF CodecInv, Typed
      <4> QED  BY <1>1, <1>3, <1>5, <4>1
    <3> QED  BY <1>1, <3>1, <3>2
  <2>3. (n + 1) + 1 = n + 2
    BY <1>1
  <2>4. Len(data') = Start(Len(ends) + 1)'
    BY <1>6, <2>1, <2>3
  <2> QED  BY <1>6, <2>2, <2>4 DEF WritesAtEnd
<1>12. NothingRead' /\ ReadsAllWritten' /\ ReadSoFar'
  BY <1>4 DEF CodecInv, NothingRead, ReadsAllWritten, ReadSoFar
<1> QED  BY <1>7, <1>10, <1>11, <1>12 DEF CodecInv

(* when one is refused,                                                     *)
LEMMA CodecRefuse ==
  ASSUME CodecInv, RefuseArgument
  PROVE  CodecInv'
<1>1. /\ call' = call /\ data' = data /\ ends' = ends /\ offset' = offset /\ ret' = ret
      /\ pc = "write" /\ pc' = "refused"
  BY DEF RefuseArgument
<1>2. Typed'
  BY <1>1 DEF CodecInv, Typed
<1>3. InPlace'
  BY <1>1 DEF CodecInv, InPlace, Wrote, Start, At
<1> QED  BY <1>1, <1>2, <1>3
         DEF CodecInv, WritesAtEnd, NothingRead, ReadsAllWritten, ReadSoFar

(* when the bytes, or as many as there are, are handed over,                *)
LEMMA CodecHandOver ==
  ASSUME NoneIsNoReading, NestedSerializer, CodecInv, NEW n \in 0 .. Len(data), HandOver(n)
  PROVE  CodecInv'
<1>1. /\ call' = call /\ data' = SubSeq(data, 1, n) /\ ends' = ends /\ offset' = offset
      /\ ret' = ret /\ pc = "write" /\ pc' = "read" /\ Len(ends) = Len(call.sig)
  BY DEF HandOver, Written
<1>2. data \in Seq(Byte) /\ n \in Nat /\ n <= Len(data) /\ Len(data) \in Nat
  BY DEF CodecInv, Typed
<1>3. SubSeq(data, 1, n) \in Seq(Byte) /\ Len(SubSeq(data, 1, n)) = n
  BY <1>2
<1>4. Typed'
  BY <1>1, <1>3 DEF CodecInv, Typed
<1>5. InPlace'
  <2>1. ASSUME NEW j \in 1 .. Len(ends)
        PROVE  /\ Wrote(j) # None /\ ends[j] = Start(j) + Len(Wrote(j))
               /\ ends[j] <= n => At(SubSeq(data, 1, n), Start(j), Wrote(j))
    <3>1. /\ Wrote(j) # None /\ ends[j] = Start(j) + Len(Wrote(j))
          /\ ends[j] <= Len(data) => At(data, Start(j), Wrote(j))
      BY DEF CodecInv, InPlace
    <3>2. Len(Wrote(j)) \in Nat
      <4>1. call \in Calls /\ j \in 1 .. Len(call.sig)
        BY <1>1 DEF CodecInv, Typed
      <4> QED  BY <3>1, <4>1, WroteTyped
    <3>3. Start(j) \in Nat /\ ends[j] \in Nat
      BY DEF Start, CodecInv, Typed
    <3>4. ASSUME ends[j] <= n PROVE At(SubSeq(data, 1, n), Start(j), Wrote(j))
      <4>1. At(data, Start(j), Wrote(j)) /\ Start(j) + Len(Wrote(j)) <= n
        BY <1>2, <3>1, <3>3, <3>4
      <4> QED  BY <1>2, <3>2, <3>3, <4>1, AtPrefix
    <3> QED  BY <3>1, <3>4
  <2>2. \A j \in 1 .. Len(ends) : Start(j)' = Start(j) /\ Wrote(j)' = Wrote(j)
    BY <1>1 DEF Start, Wrote
  <2>3. ASSUME NEW j \in 1 .. Len(ends)
        PROVE  /\ Wrote(j)' # None /\ ends'[j] = Start(j)' + Len(Wrote(j)')
               /\ ends'[j] <= Len(data') => At(data', Start(j)', Wrote(j)')
    BY <1>1, <1>3, <2>1, <2>2
  <2> QED  BY <1>1, <2>3 DEF InPlace, At
<1>6. ret' = <<>> /\ offset' = 0
  BY <1>1 DEF CodecInv, NothingRead
<1>7. WritesAtEnd' /\ NothingRead' /\ ReadsAllWritten'
  BY <1>1 DEF WritesAtEnd, NothingRead, ReadsAllWritten
<1>8. ReadSoFar'
  BY <1>6 DEF ReadSoFar
<1> QED  BY <1>4, <1>5, <1>7, <1>8 DEF CodecInv

(* when the values are returned,                                            *)
LEMMA CodecReturn ==
  ASSUME CodecInv, ReturnArguments
  PROVE  CodecInv'
<1>1. /\ call' = call /\ data' = data /\ ends' = ends /\ offset' = offset /\ ret' = ret
      /\ pc = "read" /\ pc' = "done"
  BY DEF ReturnArguments
<1>2. Typed'
  BY <1>1 DEF CodecInv, Typed
<1>3. InPlace'
  BY <1>1 DEF CodecInv, InPlace, Wrote, Start, At
<1>4. \A i \in 1 .. Len(ret) : Undisturbed(i)' <=> Undisturbed(i)
  BY <1>1 DEF Undisturbed
<1>5. ReadSoFar'
  <2>1. ReadSoFar
    BY DEF CodecInv
  <2> QED  BY <1>1, <2>1 DEF ReadSoFar, Undisturbed
<1> QED  BY <1>1, <1>2, <1>3, <1>5
         DEF CodecInv, WritesAtEnd, NothingRead, ReadsAllWritten

(* Where the reader stands if nothing disturbed it: at the next argument.   *)
LEMMA NextInPlace ==
  ASSUME NoneIsNoReading, NestedSerializer, CodecInv, pc = "read",
         NEW k \in Nat, k = Len(ret), k < Len(call.sig),
         Undisturbed(k + 1), ends[k + 1] <= Len(data)
  PROVE  /\ offset = Start(k + 1)
         /\ ends[k + 1] = Start(k + 1) + Len(Wrote(k + 1))
         /\ \E next \in Nat : deserialize(call.sig[k + 1], data, offset)
                                = Read(call.args[k + 1], next)
         /\ ~ EndsInZero(call.sig[k + 1], call.args[k + 1]) =>
              deserialize(call.sig[k + 1], data, offset)
                = Read(call.args[k + 1], ends[k + 1])
<1> DEFINE t == call.sig[k + 1]
           v == call.args[k + 1]
           w == Wrote(k + 1)
<1>1. /\ Len(ends) = Len(call.sig) /\ Len(call.sig) \in Nat
      /\ ends \in Seq(Nat) /\ data \in Seq(Byte) /\ offset \in Nat /\ call \in Calls
  BY CallsAreTyped DEF CodecInv, Typed, ReadsAllWritten
<1>2. k + 1 \in 1 .. Len(ends)
  BY <1>1
<1>3. t \in Types /\ Restorable(t, v)
  <2>1. call.sig \in Seq(Types)
    BY <1>1, CallsAreTyped
  <2> QED  BY <1>1, <1>2, <2>1 DEF Undisturbed
<1>4. /\ w # None /\ ends[k + 1] = Start(k + 1) + Len(w)
      /\ At(data, Start(k + 1), w)
  BY <1>2 DEF CodecInv, InPlace
<1>5. w \in Seq(Byte) /\ Len(w) \in Nat
  BY <1>1, <1>2, <1>4, WroteTyped
<1>6. offset = Start(k + 1)
  <2>1. CASE k = 0
    BY <2>1 DEF CodecInv, ReadSoFar, Start
  <2>2. CASE k # 0
    <3>1. Undisturbed(k) /\ ~ EndsInZero(call.sig[k], call.args[k])
      BY <2>2 DEF Undisturbed
    <3>2. Start(k + 1) = ends[k] /\ ends[k] \in Nat
      BY <1>1, <1>2, <2>2 DEF Start
    <3>3. ends[k] <= Len(data)
      <4>1. ends[k + 1] \in Nat /\ Len(data) \in Nat
        BY <1>1, <1>2
      <4> QED  BY <1>4, <1>5, <3>2, <4>1
    <3>4. offset = ends[k]
      BY <2>2, <3>1, <3>3 DEF CodecInv, ReadSoFar
    <3> QED  BY <3>2, <3>4
  <2> QED  BY <2>1, <2>2
<1>7. Sound(t)
  BY <1>3, SerializerIsSound
<1>8. w = serialize(t, v)
  BY DEF Wrote
<1> HIDE DEF t, v, w
<1>9. /\ ReadWell(t, v, w)
      /\ ~ EndsInZero(t, v) => ReadExactly(t, v, w)
  BY <1>3, <1>4, <1>7, <1>8, ElementRead
<1>10. \E next \in Nat : deserialize(t, data, offset) = Read(v, next)
  BY <1>1, <1>4, <1>6, <1>9 DEF ReadWell
<1>11. ~ EndsInZero(t, v) => deserialize(t, data, offset) = Read(v, ends[k + 1])
  BY <1>1, <1>4, <1>6, <1>9 DEF ReadExactly
<1> QED  BY <1>4, <1>6, <1>10, <1>11 DEF t, v, w

ReadIs == \A v, next : Read(v, next).v = v /\ Read(v, next).next = next

(* A value is taken, be it the reader's or the older parser's.              *)
LEMMA CodecTake ==
  ASSUME NoneIsNoReading, NestedSerializer, CodecInv, pc = "read", Len(ret) < Len(call.sig),
         NEW x, Take(x), x.next \in Nat,
         deserialize(NextType, data, offset) # None => x = deserialize(NextType, data, offset)
  PROVE  CodecInv'
<1>a. PICK k : k = Len(ret)
  OBVIOUS
<1>1. /\ call' = call /\ data' = data /\ ends' = ends /\ pc' = pc
      /\ ret' = Append(ret, x.v) /\ offset' = x.next
  BY DEF Take
<1>2. /\ IsList(ret) /\ k \in Nat /\ Len(call.sig) \in Nat /\ Len(ends) = Len(call.sig)
      /\ k < Len(call.sig)
  BY <1>a, CallsAreTyped DEF CodecInv, Typed, IsList, ReadsAllWritten
<1>3. /\ IsList(ret') /\ Len(ret') = k + 1
      /\ \A i \in 1 .. k : ret'[i] = ret[i]
      /\ ret'[k + 1] = x.v
  BY <1>a, <1>1, <1>2, ListAppend
<1>4. Typed'
  BY <1>1, <1>2, <1>3 DEF CodecInv, Typed
<1>5. InPlace'
  BY <1>1 DEF CodecInv, InPlace, Wrote, Start, At
<1>6. WritesAtEnd' /\ NothingRead' /\ ReadsAllWritten'
  BY <1>1 DEF CodecInv, WritesAtEnd, NothingRead, ReadsAllWritten
<1>7. ASSUME Undisturbed(k + 1), ends[k + 1] <= Len(data)
      PROVE  /\ x.v = call.args[k + 1]
             /\ ~ EndsInZero(call.sig[k + 1], call.args[k + 1]) => x.next = ends[k + 1]
  <2>1. /\ \E next \in Nat : deserialize(call.sig[k + 1], data, offset)
                               = Read(call.args[k + 1], next)
        /\ ~ EndsInZero(call.sig[k + 1], call.args[k + 1]) =>
             deserialize(call.sig[k + 1], data, offset)
               = Read(call.args[k + 1], ends[k + 1])
    BY <1>a, <1>2, <1>7, NextInPlace
  <2>2. NextType = call.sig[k + 1]
    BY <1>a DEF NextType
  <2>3. x = deserialize(call.sig[k + 1], data, offset)
    BY <2>1, <2>2 DEF NoneIsNoReading
  <2> QED  BY <2>1, <2>3 DEF Read
<1>8. \A i \in Nat : Undisturbed(i)' <=> Undisturbed(i)
  BY <1>1 DEF Undisturbed
<1>9. ASSUME NEW i \in 1 .. k + 1, Undisturbed(i), ends[i] <= Len(data)
      PROVE  ret'[i] = call.args[i]
  <2>1. CASE i = k + 1
    BY <1>3, <1>7, <1>9, <2>1
  <2>2. CASE i \in 1 .. k
    <3>1. ret[i] = call.args[i]
      BY <1>a, <1>9, <2>2 DEF CodecInv, ReadSoFar
    <3> QED  BY <1>3, <2>2, <3>1
  <2> QED  BY <1>2, <2>1, <2>2
<1>10. ReadSoFar'
  <2>1. \A i \in 1 .. Len(ret') :
          Undisturbed(i)' /\ ends'[i] <= Len(data') => ret'[i] = call'.args[i]
    BY <1>1, <1>2, <1>3, <1>8, <1>9
  <2>2. Len(ret') # 0
    BY <1>2, <1>3
  <2>3. /\ Undisturbed(k + 1)' /\ ~ EndsInZero(call'.sig[k + 1], call'.args[k + 1])
        /\ ends'[k + 1] <= Len(data')
        => offset' = ends'[k + 1]
    BY <1>1, <1>2, <1>7, <1>8
  <2> QED  BY <1>3, <2>1, <2>2, <2>3 DEF ReadSoFar, Undisturbed, EndsInZero
<1> QED  BY <1>4, <1>5, <1>6, <1>10 DEF CodecInv

(* when one of them is read,                                                *)
LEMMA CodecRead ==
  ASSUME NoneIsNoReading, NestedSerializer, CodecInv, ReadArgument
  PROVE  CodecInv'
<1>1. /\ pc = "read" /\ Len(ret) < Len(call.sig)
      /\ deserialize(NextType, data, offset) # None
      /\ Take(deserialize(NextType, data, offset))
  BY DEF ReadArgument
<1>2. NextType \in Types
  <2>1. call.sig \in Seq(Types) /\ Len(ret) \in Nat
    BY CallsAreTyped DEF CodecInv, Typed, IsList
  <2> QED  BY <1>1, <2>1 DEF NextType
<1>3. data \in Seq(Byte) /\ offset \in Nat
  BY DEF CodecInv, Typed
<1>4. deserialize(NextType, data, offset).next \in Nat
  BY <1>1, <1>2, <1>3, EveryoneGoesOn DEF ElementGoesOn
<1> QED  BY <1>1, <1>4, CodecTake

(* when the older parser reads it or gives up,                              *)
LEMMA CodecFallBack ==
  ASSUME NoneIsNoReading, NestedSerializer, CodecInv, FallBack
  PROVE  CodecInv'
<1>1. /\ pc = "read" /\ Len(ret) < Len(call.sig)
      /\ deserialize(NextType, data, offset) = None
      /\ Take(Fallback(NextType))
  BY DEF FallBack
<1>2. NextType \in Types
  <2>1. call.sig \in Seq(Types) /\ Len(ret) \in Nat
    BY CallsAreTyped DEF CodecInv, Typed, IsList
  <2> QED  BY <1>1, <2>1 DEF NextType
<1>3. data \in Seq(Byte) /\ offset \in Nat
  BY DEF CodecInv, Typed
<1>4. Fallback(NextType).next \in Nat
  BY <1>2, <1>3, FallbackGoesOn
<1> QED  BY <1>1, <1>4, CodecTake

(* and when nothing happens.                                                *)
LEMMA CodecStutter ==
  ASSUME CodecInv, UNCHANGED vars
  PROVE  CodecInv'
<1>1. /\ call' = call /\ data' = data /\ ends' = ends /\ offset' = offset /\ ret' = ret
      /\ pc' = pc
  BY DEF vars
<1>2. Typed'
  BY <1>1 DEF CodecInv, Typed
<1>3. InPlace'
  BY <1>1 DEF CodecInv, InPlace, Wrote, Start, At
<1>4. ReadSoFar'
  BY <1>1 DEF CodecInv, ReadSoFar, Undisturbed, EndsInZero
<1> QED  BY <1>1, <1>2, <1>3, <1>4
         DEF CodecInv, WritesAtEnd, NothingRead, ReadsAllWritten, Start

(* Of serialize_args and deserialized_args: the bytes of every argument     *)
(* stand where they were written to, and what has been read so far is what  *)
(* was written.                                                             *)
THEOREM CodecInvariant ==
  ASSUME NoneIsNoReading, NestedSerializer
  PROVE  Spec => []CodecInv
<1>1. Init => CodecInv
  BY CodecInit
<1>2. CodecInv /\ [Next]_vars => CodecInv'
  <2> SUFFICES ASSUME CodecInv, [Next]_vars PROVE CodecInv'
    OBVIOUS
  <2>1. CASE WriteArgument
    BY <2>1, CodecWrite
  <2>2. CASE RefuseArgument
    BY <2>2, CodecRefuse
  <2>3. CASE \E n \in 0 .. Len(data) : HandOver(n)
    BY <2>3, CodecHandOver
  <2>4. CASE ReadArgument
    BY <2>4, CodecRead
  <2>5. CASE FallBack
    BY <2>5, CodecFallBack
  <2>6. CASE ReturnArguments
    BY <2>6, CodecReturn
  <2>7. CASE UNCHANGED vars
    BY <2>7, CodecStutter
  <2> QED  BY <2>1, <2>2, <2>3, <2>4, <2>5, <2>6, <2>7 DEF Next
<1> QED  BY <1>1, <1>2, PTL DEF Spec

(* What the invariant says of the properties.                               *)
LEMMA CodecSafe ==
  ASSUME CodecInv
  PROVE  TypeOK /\ CompleteArgumentsSurvive /\ OffsetIsExact
<1>1. TypeOK
  BY DEF CodecInv, Typed, TypeOK, Byte
<1>2. CompleteArgumentsSurvive
  <2> SUFFICES ASSUME pc # "write", NEW i \in DOMAIN ret, Undisturbed(i), ends[i] <= Len(data)
               PROVE  ret[i] = call.args[i]
    BY DEF CompleteArgumentsSurvive
  <2>1. DOMAIN ret = 1 .. Len(ret)
    BY DEF CodecInv, Typed, IsList
  <2>2. pc \in {"read", "done"}
    <3>1. ret # <<>>
      OBVIOUS
    <3> QED  BY <3>1 DEF CodecInv, Typed, NothingRead
  <2> QED  BY <2>1, <2>2 DEF CodecInv, ReadSoFar
<1>3. OffsetIsExact
  <2> SUFFICES ASSUME pc # "write", ret # <<>>
               PROVE  LET i == Len(ret) IN
                      /\ Undisturbed(i)
                      /\ ~ EndsInZero(call.sig[i], call.args[i])
                      /\ ends[i] <= Len(data)
                      => offset = ends[i]
    BY Zenon DEF OffsetIsExact
  <2>1. Len(ret) # 0
    BY ListIs DEF CodecInv, Typed
  <2>2. pc \in {"read", "done"}
    BY DEF CodecInv, Typed, NothingRead
  <2> QED  BY <2>1, <2>2 DEF CodecInv, ReadSoFar
<1> QED  BY <1>1, <1>2, <1>3

(* Arguments, bytes and offsets are of their types at every step of         *)
(* serialize_args and deserialized_args.                                    *)
THEOREM CodecTypeCorrect ==
  ASSUME NoneIsNoReading, NestedSerializer
  PROVE  Spec => []TypeOK
<1>1. CodecInv => TypeOK
  BY CodecSafe
<1> QED  BY <1>1, CodecInvariant, PTL

(* deserialized_args gives back every argument that serialize_args wrote    *)
(* and whose bytes are complete, unless a bigint of zero stands before it.  *)
THEOREM CodecArgumentsSurvive ==
  ASSUME NoneIsNoReading, NestedSerializer
  PROVE  Spec => []CompleteArgumentsSurvive
<1>1. CodecInv => CompleteArgumentsSurvive
  BY CodecSafe
<1> QED  BY <1>1, CodecInvariant, PTL

(* Behind such an argument current_offset is where the next one begins,     *)
(* unless it ends in the zero of a bigint.                                  *)
THEOREM CodecOffsetIsExact ==
  ASSUME NoneIsNoReading, NestedSerializer
  PROVE  Spec => []OffsetIsExact
<1>1. CodecInv => OffsetIsExact
  BY CodecSafe
<1> QED  BY <1>1, CodecInvariant, PTL

=============================================================================
