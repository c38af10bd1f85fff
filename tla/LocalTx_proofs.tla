--------------------------- MODULE LocalTx_proofs ----------------------------
(***************************************************************************)
(* Theorems about LocalTx: an account comes back from what was written of  *)
(* it, a transaction is read as it was laid out, its arguments come back,  *)
(* and the work done for it is the work asked for, for any widths, names,  *)
(* calls and hashes.                                                        *)
(***************************************************************************)
EXTENDS LocalTx, ArgsCodec_proofs

-----------------------------------------------------------------------------
(* Bits of numbers.                                                         *)

(* What is left of a number without w bits, and without one more.           *)
LEMMA HalvedStep ==
  ASSUME NEW n \in Nat, NEW w \in Nat
  PROVE  /\ Shifted(2, n, w) \in Nat
         /\ Shifted(2, n, 0) = n
         /\ Shifted(2, n, w + 1) = Shifted(2, n, w) \div 2
<1>1. n \in Int /\ 2 \in Nat \ {0}
  OBVIOUS
<1> QED  BY <1>1, ShiftedStep, ShiftedNat

(* v bits and then w are v + w bits.                                        *)
LEMMA HalvedTwice ==
  ASSUME NEW n \in Nat, NEW v \in Nat, NEW w \in Nat
  PROVE  Shifted(2, Shifted(2, n, v), w) = Shifted(2, n, v + w)
<1>1. n \in Int /\ 2 \in Nat \ {0}
  OBVIOUS
<1> QED  BY <1>1, ShiftedTwice

(* A division and a half are one by twice as much.                          *)
LEMMA DivTwice ==
  ASSUME NEW n \in Nat, NEW d \in Nat \ {0}
  PROVE  (n \div d) \div 2 = n \div (2 * d)
<1> DEFINE q == n \div d
           h == q \div 2
<1>1. q \in Nat /\ n % d \in 0 .. d - 1 /\ n = d * q + (n % d)
  <2>1. n \in Int
    OBVIOUS
  <2> QED  BY <2>1, DivMod, DivNat
<1>2. h \in Nat /\ q % 2 \in 0 .. 1 /\ q = 2 * h + (q % 2)
  BY <1>1, DivMod, DivNat
<1>3. PICK r \in 0 .. d - 1 : r = n % d
  BY <1>1
<1>4. PICK e \in 0 .. 1 : e = q % 2
  BY <1>2
<1> HIDE DEF h, q
<1>5. n = (r + d * e) + (2 * d) * h
  <2>1. n = d * q + r /\ q = 2 * h + e
    BY <1>1, <1>2, <1>3, <1>4
  <2>2. d * (2 * h + e) = (2 * d) * h + d * e
    BY <1>2, <1>4
  <2>3. d * e \in Nat /\ (2 * d) * h \in Nat
    BY <1>2, <1>4
  <2> QED  BY <1>3, <2>1, <2>2, <2>3
<1>6. r + d * e \in 0 .. 2 * d - 1 /\ 2 * d \in Nat \ {0}
  <2>1. e = 0 \/ e = 1
    BY <1>4
  <2>2. d * 0 = 0 /\ d * 1 = d
    OBVIOUS
  <2> QED  BY <1>3, <2>1, <2>2
<1>7. n \div (2 * d) = h
  <2>1. h \in Int
    BY <1>2
  <2> QED  BY <1>5, <1>6, <2>1, DivModOf
<1> QED  BY <1>7 DEF h, q

(* A shift by bits is a division: by which number depends on the bits only. *)
LEMMA ShiftDivides ==
  ASSUME NEW w \in Nat
  PROVE  \E d \in Nat \ {0} : \A n \in Nat : Shifted(2, n, w) = n \div d
<1> DEFINE Good == {i \in Nat : \E d \in Nat \ {0} : \A n \in Nat : Shifted(2, n, i) = n \div d}
<1>1. 0 \in Good
  <2>1. \A n \in Nat : Shifted(2, n, 0) = n \div 1
    <3> SUFFICES ASSUME NEW n \in Nat PROVE Shifted(2, n, 0) = n \div 1
      OBVIOUS
    <3>1. Shifted(2, n, 0) = n
      BY HalvedStep
    <3> QED  BY <3>1
  <2> QED  BY <2>1
<1>2. ASSUME NEW i \in Nat, i \in Good PROVE i + 1 \in Good
  <2>1. PICK d \in Nat \ {0} : \A n \in Nat : Shifted(2, n, i) = n \div d
    BY <1>2
  <2>3. PICK e \in Nat \ {0} : e = 2 * d
    OBVIOUS
  <2>2. ASSUME NEW n \in Nat PROVE Shifted(2, n, i + 1) = n \div e
    <3>1. Shifted(2, n, i + 1) = Shifted(2, n, i) \div 2
      BY HalvedStep
    <3> QED  BY <2>1, <2>3, <3>1, DivTwice
  <2>4. \E x \in Nat \ {0} : \A n \in Nat : Shifted(2, n, i + 1) = n \div x
    BY <2>2, Zenon
  <2>5. i + 1 \in Nat
    OBVIOUS
  <2> QED  BY <2>4, <2>5, Zenon
<1> HIDE DEF Good
<1>3. w \in Good
  BY <1>1, <1>2, Always
<1> QED  BY <1>3 DEF Good

(* Shifting by a byte's bits is dividing by its values.                     *)
LEMMA ByteIsBits ==
  ASSUME NEW n \in Nat
  PROVE  Shifted(2, n, ByteBits) = n \div Base
<1>1. ByteBits \in Nat /\ Base \in Nat \ {0} /\ Base - 1 \in Nat
  BY SizesAreNat, ByteHasBits
<1>2. PICK d \in Nat \ {0} : \A m \in Nat : Shifted(2, m, ByteBits) = m \div d
  BY <1>1, ShiftDivides
<1>3. Base \div d = 1 /\ (Base - 1) \div d = 0
  BY <1>1, <1>2, ByteHasBits
<1>4. Base = d * 1 + (Base % d) /\ Base % d \in 0 .. d - 1
  BY <1>1, <1>3, DivMod
<1>5. Base - 1 = d * 0 + ((Base - 1) % d) /\ (Base - 1) % d \in 0 .. d - 1
  <2>1. Base - 1 \in Int
    BY <1>1
  <2> QED  BY <1>3, <2>1, DivMod
<1>6. d * 1 = d /\ d * 0 = 0
  OBVIOUS
<1>7. Base = d
  BY <1>1, <1>4, <1>5, <1>6
<1> QED  BY <1>2, <1>7

(* Shifting by one digit is dividing once.                                  *)
LEMMA ShiftedOnce ==
  ASSUME NEW base \in Nat \ {0}, NEW n \in Int
  PROVE  Shifted(base, n, 1) = n \div base
<1>1. Shifted(base, n, 0 + 1) = Shifted(base, n, 0) \div base /\ Shifted(base, n, 0) = n
  BY ShiftedStep
<1> QED  BY <1>1

(* Four bytes are the bits of the mantissa.                                 *)
LEMMA PriceIsFourBytes ==
  ASSUME NEW n \in Nat
  PROVE  Shifted(Base, n, 4) = Shifted(2, n, PriceBits)
<1>1. ByteBits \in Nat /\ Base \in Nat \ {0} /\ n \in Int
  BY SizesAreNat, ByteHasBits
<1>2. ASSUME NEW i \in Nat, NEW j \in Nat, Shifted(Base, n, i) = Shifted(2, n, j)
      PROVE  Shifted(Base, n, i + 1) = Shifted(2, n, j + ByteBits)
  <2>1. Shifted(Base, n, i + 1) = Shifted(Base, n, i) \div Base
    BY <1>1, ShiftedStep
  <2>2. Shifted(2, n, j) \in Nat
    BY HalvedStep
  <2>3. Shifted(2, Shifted(2, n, j), ByteBits) = Shifted(2, n, j) \div Base
    BY <2>2, ByteIsBits
  <2>4. Shifted(2, Shifted(2, n, j), ByteBits) = Shifted(2, n, j + ByteBits)
    BY <1>1, HalvedTwice
  <2> QED  BY <1>2, <2>1, <2>3, <2>4
<1>3. Shifted(Base, n, 0) = Shifted(2, n, 0)
  BY <1>1, ShiftedStep, HalvedStep
<1> DEFINE b == ByteBits
<1> HIDE DEF b
<1>4. Shifted(Base, n, 0 + 1) = Shifted(2, n, 0 + ByteBits)
  BY <1>2, <1>3
<1>5. Shifted(Base, n, 1 + 1) = Shifted(2, n, ByteBits + ByteBits)
  <2>1. 0 + 1 = 1 /\ 0 + ByteBits = ByteBits
    BY <1>1
  <2> QED  BY <1>1, <1>2, <1>4, <2>1
<1>6. Shifted(Base, n, 2 + 1) = Shifted(2, n, (ByteBits + ByteBits) + ByteBits)
  <2>1. 1 + 1 = 2 /\ ByteBits + ByteBits \in Nat
    BY <1>1
  <2> QED  BY <1>2, <1>5, <2>1
<1>7. Shifted(Base, n, 3 + 1) = Shifted(2, n, ((ByteBits + ByteBits) + ByteBits) + ByteBits)
  <2>1. 2 + 1 = 3 /\ (ByteBits + ByteBits) + ByteBits \in Nat
    BY <1>1
  <2> QED  BY <1>2, <1>6, <2>1
<1>8. 3 + 1 = 4 /\ ((ByteBits + ByteBits) + ByteBits) + ByteBits = PriceBits
  BY <1>1 DEF PriceBits
<1> QED  BY <1>7, <1>8

(* Half a number is less, unless it is zero.                                *)
LEMMA HalfShrinks ==
  ASSUME NEW n \in Nat
  PROVE  n \div 2 \in Nat /\ (n # 0 => n \div 2 < n)
  OBVIOUS

(* A number has no more bits than it is large.                              *)
LEMMA ShiftedOut ==
  ASSUME NEW n \in Nat
  PROVE  Shifted(2, n, n) = 0
<1> DEFINE Good == {i \in 0 .. n : Shifted(2, n, i) <= n - i}
<1>1. 0 \in Good
  <2>1. Shifted(2, n, 0) = n
    BY HalvedStep
  <2> QED  BY <2>1
<1>2. ASSUME NEW i \in 0 .. n - 1, i \in Good PROVE i + 1 \in Good
  <2>1. Shifted(2, n, i + 1) = Shifted(2, n, i) \div 2
    BY HalvedStep
  <2>2. Shifted(2, n, i) \in Nat
    BY HalvedStep
  <2> DEFINE m == Shifted(2, n, i)
  <2> HIDE DEF m
  <2>3. m \in Nat /\ m <= n - i /\ Shifted(2, n, i + 1) = m \div 2
    BY <1>2, <2>1, <2>2 DEF m
  <2>4. m \div 2 <= n - (i + 1)
    <3>1. CASE m = 0
      <4>1. m \div 2 = 0
        BY <3>1
      <4> QED  BY <4>1
    <3>2. CASE m # 0
      BY <2>3, <3>2, HalfShrinks
    <3> QED  BY <3>1, <3>2
  <2> QED  BY <2>3, <2>4
<1> HIDE DEF Good
<1>3. \A i \in 0 .. n : i \in Good
  BY <1>1, <1>2, UpTo
<1>4. n \in Good
  BY <1>3
<1>5. Shifted(2, n, n) \in Nat
  BY HalvedStep
<1> QED  BY <1>4, <1>5 DEF Good

(* BitLength is the first number of bits without which nothing is left.     *)
LEMMA BitLengthIs ==
  ASSUME NEW n \in Nat
  PROVE  /\ BitLength(n) \in 0 .. n
         /\ Shifted(2, n, BitLength(n)) = 0
         /\ BitLength(n) > 0 => Shifted(2, n, BitLength(n) - 1) # 0
<1> DEFINE Ample == {b \in 0 .. n : Shifted(2, n, b) = 0}
<1>1. Ample \in SUBSET Nat /\ Ample # {}
  <2>1. n \in Ample
    BY ShiftedOut
  <2> QED  BY <2>1
<1>2. PICK b \in Ample : \A c \in Ample : b <= c
  <2> HIDE DEF Ample
  <2> QED  BY <1>1, LeastOf
<1>3. b \in 0 .. n /\ Shifted(2, n, b) = 0 /\ (b > 0 => Shifted(2, n, b - 1) # 0)
  <2>1. ASSUME b > 0 PROVE b - 1 \notin Ample /\ b - 1 \in 0 .. n
    BY <1>2, <2>1
  <2> QED  BY <1>2, <2>1
<1>4. \E c \in 0 .. n : Shifted(2, n, c) = 0 /\ (c > 0 => Shifted(2, n, c - 1) # 0)
  BY <1>3
<1> QED  BY <1>4, Zenon DEF BitLength

(* The mantissa of a gas price fits its field and keeps its highest bits.   *)
LEMMA PriceKept ==
  ASSUME NEW price \in Nat, NEW exp \in PriceExponents(price)
  PROVE  /\ exp \in Nat
         /\ Shifted(2, price, exp) \in Nat
         /\ Shifted(Base, Shifted(2, price, exp), 4) = 0
         /\ exp > 0 => Shifted(2, Shifted(2, price, exp), PriceBits - 2) # 0
<1> DEFINE b == BitLength(price)
           m == Shifted(2, price, exp)
<1>1. PriceBits \in Nat /\ PriceBits >= 4
  BY ByteHasBits DEF PriceBits
<1>2. /\ b \in Nat /\ Shifted(2, price, b) = 0
      /\ b > 0 => Shifted(2, price, b - 1) # 0
  BY BitLengthIs
<1>3. exp \in Nat /\ b - PriceBits <= exp /\ exp <= (IF b > PriceBits THEN b + 1 - PriceBits ELSE 0)
  BY <1>1, <1>2 DEF PriceExponents
<1> HIDE DEF b
<1>4. m \in Nat
  BY <1>3, HalvedStep
<1>5. ASSUME NEW j \in Nat, b <= j PROVE Shifted(2, price, j) = 0
  <2>1. j - b \in Nat /\ b + (j - b) = j
    BY <1>2, <1>5
  <2>2. Shifted(2, Shifted(2, price, b), j - b) = Shifted(2, price, b + (j - b))
    BY <1>2, <2>1, HalvedTwice
  <2>3. Shifted(2, 0, j - b) = 0
    <3> DEFINE Good == {i \in Nat : Shifted(2, 0, i) = 0}
    <3>1. 0 \in Good
      BY HalvedStep
    <3>2. ASSUME NEW i \in Nat, i \in Good PROVE i + 1 \in Good
      <4>1. Shifted(2, 0, i + 1) = Shifted(2, 0, i) \div 2
        BY HalvedStep
      <4> QED  BY <3>2, <4>1
    <3> HIDE DEF Good
    <3>3. j - b \in Good
      BY <2>1, <3>1, <3>2, Always
    <3> QED  BY <3>3 DEF Good
  <2> QED  BY <1>2, <2>1, <2>2, <2>3
<1>6. Shifted(Base, m, 4) = 0
  <2>1. Shifted(Base, m, 4) = Shifted(2, m, PriceBits)
    BY <1>4, PriceIsFourBytes
  <2>2. Shifted(2, m, PriceBits) = Shifted(2, price, exp + PriceBits)
    BY <1>1, <1>3, HalvedTwice
  <2>3. exp + PriceBits \in Nat /\ b <= exp + PriceBits
    BY <1>1, <1>2, <1>3
  <2> QED  BY <1>5, <2>1, <2>2, <2>3
<1>7. ASSUME exp > 0 PROVE Shifted(2, m, PriceBits - 2) # 0
  <2> DEFINE low == exp + (PriceBits - 2)
  <2>1. /\ PriceBits - 2 \in Nat /\ low \in Nat /\ b > 0
        /\ low = b - 1 \/ low + 1 = b - 1
    BY <1>1, <1>2, <1>3, <1>7 DEF PriceExponents, b
  <2>2. Shifted(2, m, PriceBits - 2) = Shifted(2, price, low)
    BY <1>3, <2>1, HalvedTwice
  <2> HIDE DEF low
  <2>3. ASSUME Shifted(2, price, low) = 0 PROVE Shifted(2, price, low + 1) = 0
    <3>1. Shifted(2, price, low + 1) = Shifted(2, price, low) \div 2
      BY <2>1, HalvedStep
    <3> QED  BY <2>3, <3>1
  <2> QED  BY <1>2, <2>1, <2>2, <2>3
<1> QED  BY <1>3, <1>4, <1>6, <1>7

-----------------------------------------------------------------------------
(* Bytes that are joined.                                                   *)

(* Two runs of bytes, and where the second begins when both are found.      *)
Glued(x, a, b) ==
  /\ x \in Seq(Byte) /\ Len(x) = Len(a) + Len(b)
  /\ \A buf \in Seq(Byte) : At(buf, 0, x) => At(buf, 0, a) /\ At(buf, Len(a), b)

(* Of two runs of bytes that are joined, each is found at its place.        *)
LEMMA GluedIs ==
  ASSUME NEW a \in Seq(Byte), NEW b \in Seq(Byte), NEW x, x = a \o b
  PROVE  x \in Seq(Byte) /\ Glued(x, a, b)
<1>1. x \in Seq(Byte)
  OBVIOUS
<1>2. Len(x) = Len(a) + Len(b)
  OBVIOUS
<1>3. ASSUME NEW buf \in Seq(Byte), At(buf, 0, x) PROVE At(buf, 0, a) /\ At(buf, Len(a), b)
  <2>1. 0 \in Nat /\ 0 + Len(a) = Len(a)
    OBVIOUS
  <2>2. At(buf, 0, a) /\ At(buf, 0 + Len(a), b)
    BY <1>3, <2>1, AtConcat
  <2> QED  BY <2>1, <2>2
<1> QED  BY <1>1, <1>2, <1>3 DEF Glued

(* The nine fields of a header, and where each begins.                      *)
HeaderFields(a, b, c, d, e, f, g, h, i) ==
  /\ a \in Seq(Byte) /\ b \in Seq(Byte) /\ c \in Seq(Byte) /\ d \in Seq(Byte)
  /\ e \in Seq(Byte) /\ f \in Seq(Byte) /\ g \in Seq(Byte) /\ h \in Seq(Byte)
  /\ i \in Seq(Byte)

HeaderWidths(a, b, c, d, e, f, g, h, i) ==
  /\ Len(a) = 8 /\ Len(b) = 4 /\ Len(c) = 2 /\ Len(d) = 2
  /\ Len(e) = 1 /\ Len(f) = 1 /\ Len(g) = 4 /\ Len(h) = 2 /\ Len(i) = 4

HeaderReads(all, b, c, d, f, g, h, i) ==
  /\ all \in Seq(Byte) /\ Len(all) = 28
  /\ \A buf \in Seq(Byte) : At(buf, 0, all) =>
       /\ At(buf, 8, b) /\ At(buf, 12, c) /\ At(buf, 14, d) /\ At(buf, 17, f)
       /\ At(buf, 18, g) /\ At(buf, 22, h) /\ At(buf, 24, i)

(* Each field of a header is found at its place,                            *)
LEMMA HeaderRead ==
  ASSUME NEW a, NEW b, NEW c, NEW d, NEW e, NEW f, NEW g, NEW h, NEW i,
         HeaderFields(a, b, c, d, e, f, g, h, i), HeaderWidths(a, b, c, d, e, f, g, h, i),
         NEW all, all = a \o b \o c \o d \o e \o f \o g \o h \o i
  PROVE  HeaderReads(all, b, c, d, f, g, h, i)
<1>b. PICK x2 : x2 = a \o b
  OBVIOUS
<1>c. PICK x3 : x3 = x2 \o c
  OBVIOUS
<1>d. PICK x4 : x4 = x3 \o d
  OBVIOUS
<1>e. PICK x5 : x5 = x4 \o e
  OBVIOUS
<1>f. PICK x6 : x6 = x5 \o f
  OBVIOUS
<1>g. PICK x7 : x7 = x6 \o g
  OBVIOUS
<1>h. PICK x8 : x8 = x7 \o h
  OBVIOUS
<1>i. all = x8 \o i
  BY <1>b, <1>c, <1>d, <1>e, <1>f, <1>g, <1>h, Zenon
<1>2. x2 \in Seq(Byte) /\ Glued(x2, a, b)
  BY <1>b, GluedIs DEF HeaderFields
<1>3. x3 \in Seq(Byte) /\ Glued(x3, x2, c)
  BY <1>2, <1>c, GluedIs DEF HeaderFields
<1>4. x4 \in Seq(Byte) /\ Glued(x4, x3, d)
  BY <1>3, <1>d, GluedIs DEF HeaderFields
<1>5. x5 \in Seq(Byte) /\ Glued(x5, x4, e)
  BY <1>4, <1>e, GluedIs DEF HeaderFields
<1>6. x6 \in Seq(Byte) /\ Glued(x6, x5, f)
  BY <1>5, <1>f, GluedIs DEF HeaderFields
<1>7. x7 \in Seq(Byte) /\ Glued(x7, x6, g)
  BY <1>6, <1>g, GluedIs DEF HeaderFields
<1>8. x8 \in Seq(Byte) /\ Glued(x8, x7, h)
  BY <1>7, <1>h, GluedIs DEF HeaderFields
<1>9. all \in Seq(Byte) /\ Glued(all, x8, i)
  BY <1>8, <1>i, GluedIs DEF HeaderFields
<1>10. /\ Len(x2) = 12 /\ Len(x3) = 14 /\ Len(x4) = 16 /\ Len(x5) = 17
       /\ Len(x6) = 18 /\ Len(x7) = 22 /\ Len(x8) = 24 /\ Len(all) = 28
  BY <1>2, <1>3, <1>4, <1>5, <1>6, <1>7, <1>8, <1>9 DEF Glued, HeaderWidths
<1>11. all \in Seq(Byte)
  BY <1>9
<1>12. ASSUME NEW buf \in Seq(Byte), At(buf, 0, all)
       PROVE  /\ At(buf, 8, b) /\ At(buf, 12, c) /\ At(buf, 14, d) /\ At(buf, 17, f)
              /\ At(buf, 18, g) /\ At(buf, 22, h) /\ At(buf, 24, i)
  <2>8. At(buf, 0, x8) /\ At(buf, Len(x8), i)
    BY <1>9, <1>12 DEF Glued
  <2>7. At(buf, 0, x7) /\ At(buf, Len(x7), h)
    BY <1>8, <2>8 DEF Glued
  <2>6. At(buf, 0, x6) /\ At(buf, Len(x6), g)
    BY <1>7, <2>7 DEF Glued
  <2>5. At(buf, 0, x5) /\ At(buf, Len(x5), f)
    BY <1>6, <2>6 DEF Glued
  <2>4. At(buf, 0, x4) /\ At(buf, Len(x4), e)
    BY <1>5, <2>5 DEF Glued
  <2>3. At(buf, 0, x3) /\ At(buf, Len(x3), d)
    BY <1>4, <2>4 DEF Glued
  <2>2. At(buf, 0, x2) /\ At(buf, Len(x2), c)
    BY <1>3, <2>3 DEF Glued
  <2>1. At(buf, 0, a) /\ At(buf, Len(a), b)
    BY <1>2, <2>2 DEF Glued
  <2> QED  BY <1>10, <2>1, <2>2, <2>3, <2>5, <2>6, <2>7, <2>8 DEF HeaderWidths
<1> QED  BY <1>10, <1>11, <1>12 DEF HeaderReads

(* What lies behind the header: an id, the delegatee, the length of the     *)
(* input and the input.                                                     *)
TailReads(all, head, id, who, size, input) ==
  /\ all \in Seq(Byte)
  /\ Len(all) = Len(head) + Len(id) + Len(who) + Len(size) + Len(input)
  /\ At(all, 0, head) /\ At(all, Len(head) + Len(id), who)
  /\ At(all, Len(head) + Len(id) + Len(who), size)
  /\ At(all, Len(head) + Len(id) + Len(who) + Len(size), input)

(* and so is what comes behind the header.                                  *)
LEMMA TailRead ==
  ASSUME NEW head \in Seq(Byte), NEW id \in Seq(Byte), NEW who \in Seq(Byte),
         NEW size \in Seq(Byte), NEW input \in Seq(Byte),
         NEW all, all = head \o (id \o who) \o size \o input
  PROVE  TailReads(all, head, id, who, size, input)
<1>a. PICK target : target = id \o who
  OBVIOUS
<1>b. PICK x1 : x1 = head \o target
  OBVIOUS
<1>c. PICK x2 : x2 = x1 \o size
  OBVIOUS
<1>d. all = x2 \o input
  BY <1>a, <1>b, <1>c, Zenon
<1>0. Len(head) \in Nat /\ Len(id) \in Nat /\ Len(who) \in Nat /\ Len(size) \in Nat
      /\ Len(input) \in Nat
  OBVIOUS
<1>1. target \in Seq(Byte) /\ Glued(target, id, who)
  BY <1>a, GluedIs
<1>2. x1 \in Seq(Byte) /\ Glued(x1, head, target)
  BY <1>b, <1>1, GluedIs
<1>3. x2 \in Seq(Byte) /\ Glued(x2, x1, size)
  BY <1>c, <1>2, GluedIs
<1>4. all \in Seq(Byte) /\ Glued(all, x2, input)
  BY <1>d, <1>3, GluedIs
<1>5. all \in Seq(Byte)
  BY <1>4
<1>6. At(all, 0, all)
  BY <1>5, AtItself
<1>7. At(all, 0, x2) /\ At(all, Len(x2), input)
  BY <1>4, <1>5, <1>6 DEF Glued
<1>8. At(all, 0, x1) /\ At(all, Len(x1), size)
  BY <1>3, <1>5, <1>7 DEF Glued
<1>9. At(all, 0, head) /\ At(all, Len(head), target)
  BY <1>2, <1>5, <1>8 DEF Glued
<1>10. At(all, Len(head) + Len(id), who)
  BY <1>0, <1>5, <1>9, <1>a, AtConcat
<1>11. /\ Len(x1) = Len(head) + Len(id) + Len(who)
       /\ Len(x2) = Len(head) + Len(id) + Len(who) + Len(size)
       /\ Len(all) = Len(head) + Len(id) + Len(who) + Len(size) + Len(input)
  BY <1>0, <1>1, <1>2, <1>3, <1>4 DEF Glued
<1> QED  BY <1>5, <1>7, <1>8, <1>9, <1>10, <1>11 DEF TailReads

-----------------------------------------------------------------------------
(* The fields of a transaction.                                             *)

(* What a transaction is laid out from.                                     *)
TxTyped(tx) ==
  /\ tx.isn \in Nat /\ tx.gas_price \in Nat /\ tx.gas_limit \in Nat
  /\ tx.id.sn \in Nat /\ tx.id.scope \in Nat /\ tx.id.core \in BOOLEAN
  /\ tx.id.core => tx.id.sn % CoreSpan # CORE_CONTRACT_RVM
  /\ tx.ttl \in Int
  /\ tx.delegatee \in Seq(Byte)

IdBytes(id) == IF id.core THEN 1 ELSE 8

ModeOf(tx) == TargetMode(tx.id, tx.delegatee # <<>>) + IF tx.no_args THEN TMF_ZERO_ARG ELSE 0

(* A byte has at least four bits.                                           *)
LEMMA BaseIs == Base \in Nat /\ Base >= 16 /\ 0 \in Byte /\ 1 \in Byte
<1>1. Base \in Nat /\ Base >= 4 /\ Base % 16 = 0
  BY SizesAreNat, BitFieldsFit
<1>2. Base >= 16
  BY <1>1
<1> QED  BY <1>1, <1>2 DEF Byte

(* Opaque bytes are zeros.                                                  *)
LEMMA OpaqueTyped ==
  ASSUME NEW n \in Int
  PROVE  /\ Opaque(n) \in Seq(Byte)
         /\ Len(Opaque(n)) = IF n >= 0 THEN n ELSE 0
         /\ \A i \in 1 .. n : Opaque(n)[i] = 0
<1>1. \A i \in 1 .. n : Opaque(n)[i] = 0
  BY DEF Opaque
<1>2. CASE n >= 0
  <2>1. n \in Nat /\ Opaque(n) = [i \in 1 .. n |-> 0]
    BY <1>2 DEF Opaque
  <2>2. [i \in 1 .. n |-> 0] \in Seq(Byte) /\ Len([i \in 1 .. n |-> 0]) = n
    BY <2>1, BaseIs
  <2> QED  BY <1>1, <1>2, <2>1, <2>2
<1>3. CASE n < 0
  <2>1. 1 .. n = {}
    BY <1>3
  <2>2. Opaque(n) = <<>>
    BY <2>1 DEF Opaque
  <2> QED  BY <1>1, <1>3, <2>2
<1> QED  BY <1>2, <1>3

(* The core_contract byte tells how long the identifier is.                 *)
LEMMA CoreContractIs ==
  ASSUME NEW tx, TxTyped(tx)
  PROVE  /\ core_contract(tx.id) \in Nat
         /\ core_contract(tx.id) < Base =>
              IdBytes(tx.id)
                = IF core_contract(tx.id) % CoreSpan = CORE_CONTRACT_RVM THEN 8 ELSE 1
<1>1. Base \in Nat /\ Base >= 16 /\ CoreSpan \in Nat /\ CoreSpan >= 2
  BY BaseIs, BitFieldsFit
<1>2. CASE tx.id.core
  <2>1. core_contract(tx.id) \in {0, tx.id.sn}
    BY <1>2 DEF core_contract, CoreContractIDFromRvm, CORE_CONTRACT_COIN_GLOBAL
  <2>2. 0 % CoreSpan = 0 /\ CORE_CONTRACT_RVM # 0
    BY <1>1 DEF CORE_CONTRACT_RVM
  <2>3. tx.id.sn \in Nat /\ tx.id.sn % CoreSpan # CORE_CONTRACT_RVM
    BY <1>2 DEF TxTyped
  <2>4. CASE core_contract(tx.id) = 0
    BY <1>2, <2>2, <2>4 DEF IdBytes
  <2>5. CASE core_contract(tx.id) = tx.id.sn
    BY <1>2, <2>3, <2>5 DEF IdBytes
  <2> QED  BY <2>1, <2>4, <2>5
<1>3. CASE ~ tx.id.core
  <2> DEFINE s == tx.id.scope
             b == Base
             c == CoreSpan
             rvm == CORE_CONTRACT_RVM
  <2>1. s \in Nat
    BY DEF TxTyped
  <2>2. core_contract(tx.id) = rvm + s * b * c
    BY <1>3 DEF core_contract, get_scope
  <2>3. rvm \in Nat /\ rvm = c - 1 /\ b \in Nat /\ c \in Nat /\ c >= 2 /\ b >= 16
    BY <1>1 DEF CORE_CONTRACT_RVM
  <2> HIDE DEF s, b, c, rvm
  <2>4. s * b \in Nat
    BY <2>1, <2>3
  <2>5. (s * b) * c \in Nat /\ (s * b) * c >= s * b
    <3> DEFINE p == s * b
    <3> HIDE DEF p
    <3>1. p \in Nat
      BY <2>4 DEF p
    <3>2. p * c >= p * 2 /\ p * c \in Nat
      BY <2>3, <3>1
    <3>3. p * c \in Nat /\ p * c >= p
      BY <3>1, <3>2
    <3> QED  BY <3>3 DEF p
  <2>6. s # 0 => s * b >= b
    BY <2>1, <2>3
  <2>7. rvm + s * b * c \in Nat
    BY <2>3, <2>5
  <2>8. ASSUME rvm + s * b * c < b PROVE rvm + s * b * c = rvm
    <3>1. s = 0
      BY <2>1, <2>3, <2>4, <2>5, <2>6, <2>8
    <3>2. s * b * c = 0
      BY <2>3, <3>1
    <3> QED  BY <2>3, <3>2
  <2>9. rvm % c = rvm
    BY <2>3
  <2> QED  BY <1>3, <2>2, <2>7, <2>8, <2>9 DEF IdBytes, rvm, b, c
<1>4. tx.id.core \in BOOLEAN
  BY DEF TxTyped
<1> QED  BY <1>2, <1>3, <1>4

(* Two bytes less is two divisions.                                         *)
LEMMA ShiftedByTwo ==
  ASSUME NEW n \in Nat
  PROVE  Shifted(Base, n, 2) = (n \div Base) \div Base
<1>1. Base \in Nat \ {0} /\ n \in Int
  BY SizesAreNat
<1>2. Shifted(Base, n, 1) = n \div Base
  BY <1>1, ShiftedOnce
<1>3. Shifted(Base, n, 1 + 1) = Shifted(Base, n, 1) \div Base
  BY <1>1, ShiftedStep
<1> QED  BY <1>2, <1>3

(* A larger number has no smaller quotient.                                 *)
LEMMA DivGrows ==
  ASSUME NEW m \in Nat, NEW n \in Nat, NEW b \in Nat \ {0}, m <= n
  PROVE  m \div b <= n \div b
<1> DEFINE p == m \div b
           q == n \div b
           r == m % b
           s == n % b
<1>1. /\ p \in Int /\ r \in 0 .. b - 1 /\ m = b * p + r
      /\ q \in Int /\ s \in 0 .. b - 1 /\ n = b * q + s
  <2>1. m \in Int /\ n \in Int
    OBVIOUS
  <2> QED  BY <2>1, DivMod
<1> HIDE DEF p, q, r, s
<1>2. ASSUME p > q PROVE FALSE
  <2>1. p - (q + 1) \in Nat
    BY <1>1, <1>2
  <2>2. b * (p - (q + 1)) \in Nat
    BY <2>1
  <2>3. b * (p - (q + 1)) = b * p - b * q - b
    BY <1>1
  <2>4. b * p \in Int /\ b * q \in Int
    BY <1>1
  <2> QED  BY <1>1, <2>2, <2>3, <2>4
<1>3. p <= q
  BY <1>1, <1>2
<1> QED  BY <1>3 DEF p, q

(* The ttl's bits fit, and say the ttl.                                     *)
LEMMA TtlIs ==
  ASSUME NEW ttl \in Int
  PROVE  /\ TtlField(ttl) \in Nat /\ Shifted(Base, TtlField(ttl), 2) = 0
         /\ TtlField(ttl) % TtlSpan = TtlField(ttl)
         /\ ttl \in 1 .. TtlSpan => 1 + TtlField(ttl) = ttl
<1> DEFINE f == TtlField(ttl)
           top == TtlSpan - 1
<1>1. TtlSpan \in Nat \ {0} /\ Base \in Nat \ {0} /\ Shifted(Base, top, 2) = 0 /\ top \in Nat
  BY SizesAreNat, BitFieldsFit
<1>2. f \in 0 .. top
  <2>1. ttl - 1 \in Int
    OBVIOUS
  <2> QED  BY <1>1, <2>1, DivMod DEF TtlField
<1>3. f % TtlSpan = f
  <2>1. f \in 0 .. TtlSpan - 1 /\ 0 \in Int /\ TtlSpan * 0 = 0 /\ f + 0 = f
    BY <1>1, <1>2
  <2>2. (f + TtlSpan * 0) % TtlSpan = f
    <3> HIDE DEF f
    <3> QED  BY <1>1, <2>1, DivModOf
  <2> HIDE DEF f
  <2> QED  BY <2>1, <2>2
<1>4. ttl \in 1 .. TtlSpan => 1 + f = ttl
  <2> SUFFICES ASSUME ttl \in 1 .. TtlSpan PROVE 1 + f = ttl
    OBVIOUS
  <2> DEFINE u == ttl - 1
  <2>1. u \in 0 .. TtlSpan - 1 /\ 0 \in Int /\ TtlSpan * 0 = 0 /\ u + 0 = u
    BY <1>1
  <2>2. (u + TtlSpan * 0) % TtlSpan = u
    <3> HIDE DEF u
    <3> QED  BY <1>1, <2>1, DivModOf
  <2>3. f = u
    BY <2>1, <2>2 DEF TtlField
  <2> QED  BY <2>3
<1>5. Shifted(Base, f, 2) = 0
  <2>1. f \in Nat /\ f <= top
    BY <1>2
  <2>2. /\ Shifted(Base, f, 2) = (f \div Base) \div Base
        /\ Shifted(Base, top, 2) = (top \div Base) \div Base
    BY <1>1, <2>1, ShiftedByTwo
  <2> HIDE DEF f, top
  <2>3. f \div Base \in Nat /\ top \div Base \in Nat /\ f \div Base <= top \div Base
    BY <1>1, <2>1, DivNat, DivGrows
  <2>4. (f \div Base) \div Base \in Nat /\ (f \div Base) \div Base <= (top \div Base) \div Base
    BY <1>1, <2>3, DivNat, DivGrows
  <2> QED  BY <1>1, <2>2, <2>4
<1> QED  BY <1>2, <1>3, <1>4, <1>5

(* The mode fits, and its lowest bits say how the target is meant.          *)
LEMMA ModeIs ==
  ASSUME NEW tx
  PROVE  /\ ModeOf(tx) \in Nat /\ Shifted(Base, ModeOf(tx), 2) = 0
         /\ ModeOf(tx) % 16 = TargetMode(tx.id, tx.delegatee # <<>>)
         /\ TargetMode(tx.id, tx.delegatee # <<>>) = ITM_SCOPE_ADDRESS
              <=> OnAddress(tx.id) /\ tx.delegatee # <<>>
<1> DEFINE low == TargetMode(tx.id, tx.delegatee # <<>>)
           m == ModeOf(tx)
<1>1. /\ low \in {1, 11, 12}
      /\ low = ITM_SCOPE_ADDRESS <=> OnAddress(tx.id) /\ tx.delegatee # <<>>
  BY DEF TargetMode, ITM_SCOPE_ADDRESS, ITM_FIRST_SIGNER, ITM_SHARD
<1>2. Base \in Nat /\ Base >= 16 /\ Base % 16 = 0
  BY BaseIs, BitFieldsFit
<1>3. m = low \/ m = low + Base * 4
  BY <1>1, <1>2 DEF ModeOf, TMF_ZERO_ARG
<1> HIDE DEF low, m
<1>4. m \in Nat /\ m % 16 = low
  BY <1>1, <1>2, <1>3
<1>5. PICK q \in {0, 4} : m = low + Base * q
  BY <1>1, <1>2, <1>3
<1>6. m \div Base = q
  <2>1. low \in 0 .. Base - 1 /\ q \in Int /\ Base \in Nat \ {0}
    BY <1>1, <1>2
  <2> QED  BY <1>5, <2>1, DivModOf
<1>7. q \div Base = 0
  <2>1. q \in 0 .. Base - 1 /\ 0 \in Int /\ Base \in Nat \ {0} /\ q + Base * 0 = q
    BY <1>2
  <2>2. (q + Base * 0) \div Base = 0
    BY <2>1, DivModOf
  <2> QED  BY <2>1, <2>2
<1>8. Shifted(Base, m, 2) = 0
  BY <1>4, <1>6, <1>7, ShiftedByTwo
<1> QED  BY <1>1, <1>4, <1>8 DEF m, low

-----------------------------------------------------------------------------
(* A transaction that was laid out is read again.                           *)

(* Every field stands where the reader of the layout looks for it.          *)
FoundAgain(bytes, tx, input, exp) ==
  /\ bytes \in Seq(Byte)
  /\ Number(bytes, 8, 4) = tx.isn
  /\ Number(bytes, 12, 2) = TtlField(tx.ttl)
  /\ Number(bytes, 14, 2) = ModeOf(tx)
  /\ Number(bytes, 17, 1) = core_contract(tx.id) /\ core_contract(tx.id) < Base
  /\ Number(bytes, 18, 4) = Shifted(2, tx.gas_price, exp)
  /\ Number(bytes, 22, 2) = exp
  /\ Number(bytes, 24, 4) = tx.gas_limit
  /\ At(bytes, 28 + IdBytes(tx.id), tx.delegatee)
  /\ At(bytes, 28 + IdBytes(tx.id) + Len(tx.delegatee), BytesOf(Len(input), 2))
  /\ Shifted(Base, Len(input), 2) = 0
  /\ At(bytes, 28 + IdBytes(tx.id) + Len(tx.delegatee) + 2, input)
  /\ Len(bytes) = 28 + IdBytes(tx.id) + Len(tx.delegatee) + 2 + Len(input)

(* The bytes of serialize hold every field where a reader looks for it.     *)
LEMMA TxRead ==
  ASSUME NEW tx, TxTyped(tx), NEW input \in Seq(Byte), NEW exp \in PriceExponents(tx.gas_price),
         NEW bytes, bytes = serialize_tx(tx, input, exp), bytes # None
  PROVE  FoundAgain(bytes, tx, input, exp)
<1> DEFINE m == ModeOf(tx)
           price == Shifted(2, tx.gas_price, exp)
           core == core_contract(tx.id)
           ttl == TtlField(tx.ttl)
<1>a. PICK a : a = Opaque(8)
  OBVIOUS
<1>b. PICK b : b = BytesOf(tx.isn, 4)
  OBVIOUS
<1>c. PICK c : c = BytesOf(ttl, 2)
  OBVIOUS
<1>d. PICK d : d = BytesOf(m, 2)
  OBVIOUS
<1>e. PICK e : e = Opaque(1)
  OBVIOUS
<1>f. PICK f : f = BytesOf(core, 1)
  OBVIOUS
<1>g. PICK g : g = BytesOf(price, 4)
  OBVIOUS
<1>h. PICK h : h = BytesOf(exp, 2)
  OBVIOUS
<1>i. PICK i : i = BytesOf(tx.gas_limit, 4)
  OBVIOUS
<1>j. PICK head : head = a \o b \o c \o d \o e \o f \o g \o h \o i
  OBVIOUS
<1>k. PICK id : id = Opaque(IdBytes(tx.id))
  OBVIOUS
<1>l. PICK size : size = BytesOf(Len(input), 2)
  OBVIOUS
<1>m. PICK who : who = tx.delegatee
  OBVIOUS
<1>1. Fits(tx, input, exp) /\ bytes = Header(tx, m, exp) \o Target(tx) \o size \o input
  BY <1>l, Zenon DEF serialize_tx, ModeOf
<1>2. head = Header(tx, m, exp)
  BY <1>a, <1>b, <1>c, <1>d, <1>e, <1>f, <1>g, <1>h, <1>i, <1>j, Zenon DEF Header
<1>3. Target(tx) = id \o who
  BY <1>k, <1>m, Zenon DEF Target, IdBytes
<1>4. bytes = head \o (id \o who) \o size \o input
  BY <1>1, <1>2, <1>3, Zenon
<1>5. /\ tx.isn \in Nat /\ tx.gas_limit \in Nat /\ tx.gas_price \in Nat /\ tx.ttl \in Int
      /\ who \in Seq(Byte) /\ Len(who) \in Nat /\ Len(input) \in Nat
  BY <1>m DEF TxTyped
<1>6. /\ core < Base /\ Shifted(Base, tx.isn, 4) = 0 /\ Shifted(Base, tx.gas_limit, 4) = 0
      /\ Shifted(Base, exp, 2) = 0 /\ Shifted(Base, Len(input), 2) = 0
  BY <1>1 DEF Fits
<1>7. m \in Nat /\ Shifted(Base, m, 2) = 0
  BY ModeIs
<1>8. ttl \in Nat /\ Shifted(Base, ttl, 2) = 0
  BY <1>5, TtlIs
<1>9. exp \in Nat /\ price \in Nat /\ Shifted(Base, price, 4) = 0
  BY <1>5, PriceKept
<1>10. core \in Nat /\ Shifted(Base, core, 1) = 0
  <2>1. core \in Nat
    BY CoreContractIs
  <2> HIDE DEF core
  <2>2. Base \in Nat \ {0} /\ core \in Int /\ core \in 0 .. Base - 1 /\ 0 \in Int
        /\ core + Base * 0 = core
    BY <1>6, <2>1, SizesAreNat
  <2>3. (core + Base * 0) \div Base = 0
    BY <2>2, DivModOf
  <2>4. Shifted(Base, core, 1) = core \div Base
    BY <2>2, ShiftedOnce
  <2> QED  BY <2>1, <2>2, <2>3, <2>4
<1> HIDE DEF m, price, core, ttl
<1>11. HeaderFields(a, b, c, d, e, f, g, h, i) /\ HeaderWidths(a, b, c, d, e, f, g, h, i)
  <2>1. \A n \in Nat, w \in Nat : BytesOf(n, w) \in Seq(Byte) /\ Len(BytesOf(n, w)) = w
    <3> SUFFICES ASSUME NEW n \in Nat, NEW w \in Nat
                 PROVE  BytesOf(n, w) \in Seq(Byte) /\ Len(BytesOf(n, w)) = w
      OBVIOUS
    <3>1. n \in Int
      OBVIOUS
    <3> QED  BY <3>1, BytesTyped
  <2>2. a \in Seq(Byte) /\ Len(a) = 8 /\ e \in Seq(Byte) /\ Len(e) = 1
    <3>1. 8 \in Int /\ 1 \in Int
      OBVIOUS
    <3>2. /\ Opaque(8) \in Seq(Byte) /\ Len(Opaque(8)) = IF 8 >= 0 THEN 8 ELSE 0
          /\ Opaque(1) \in Seq(Byte) /\ Len(Opaque(1)) = IF 1 >= 0 THEN 1 ELSE 0
      BY <3>1, OpaqueTyped
    <3> QED  BY <1>a, <1>e, <3>2
  <2>3. b \in Seq(Byte) /\ Len(b) = 4 /\ c \in Seq(Byte) /\ Len(c) = 2
        /\ d \in Seq(Byte) /\ Len(d) = 2 /\ f \in Seq(Byte) /\ Len(f) = 1
    BY <1>5, <1>7, <1>8, <1>10, <1>b, <1>c, <1>d, <1>f, <2>1
  <2>4. g \in Seq(Byte) /\ Len(g) = 4 /\ h \in Seq(Byte) /\ Len(h) = 2
        /\ i \in Seq(Byte) /\ Len(i) = 4
    BY <1>5, <1>9, <1>g, <1>h, <1>i, <2>1
  <2> QED  BY <2>2, <2>3, <2>4 DEF HeaderFields, HeaderWidths
<1>12. /\ head \in Seq(Byte) /\ Len(head) = 28
       /\ \A buf \in Seq(Byte) : At(buf, 0, head) =>
            /\ At(buf, 8, b) /\ At(buf, 12, c) /\ At(buf, 14, d) /\ At(buf, 17, f)
            /\ At(buf, 18, g) /\ At(buf, 22, h) /\ At(buf, 24, i)
  <2>1. HeaderReads(head, b, c, d, f, g, h, i)
    BY <1>11, <1>j, HeaderRead, Zenon
  <2> QED  BY <2>1 DEF HeaderReads
<1>13. id \in Seq(Byte) /\ Len(id) = IdBytes(tx.id) /\ IdBytes(tx.id) \in Nat
  <2>1. IdBytes(tx.id) \in Int /\ IdBytes(tx.id) >= 0 /\ IdBytes(tx.id) \in Nat
    BY DEF IdBytes
  <2> QED  BY <1>k, <2>1, OpaqueTyped
<1>14. size \in Seq(Byte) /\ Len(size) = 2
  <2>1. Len(input) \in Int /\ 2 \in Nat
    BY <1>5
  <2> QED  BY <1>l, <2>1, BytesTyped
<1>15. /\ bytes \in Seq(Byte)
       /\ Len(bytes) = Len(head) + Len(id) + Len(who) + Len(size) + Len(input)
       /\ At(bytes, 0, head) /\ At(bytes, Len(head) + Len(id), who)
       /\ At(bytes, Len(head) + Len(id) + Len(who), size)
       /\ At(bytes, Len(head) + Len(id) + Len(who) + Len(size), input)
  <2>1. head \in Seq(Byte) /\ id \in Seq(Byte) /\ who \in Seq(Byte) /\ size \in Seq(Byte)
    BY <1>5, <1>12, <1>13, <1>14
  <2>2. TailReads(bytes, head, id, who, size, input)
    BY <1>4, <2>1, TailRead, Zenon
  <2> QED  BY <2>2, Zenon DEF TailReads
<1>16. /\ At(bytes, 8, b) /\ At(bytes, 12, c) /\ At(bytes, 14, d) /\ At(bytes, 17, f)
       /\ At(bytes, 18, g) /\ At(bytes, 22, h) /\ At(bytes, 24, i)
  BY <1>12, <1>15
<1>17. Number(bytes, 8, 4) = tx.isn
  BY <1>5, <1>6, <1>15, <1>16, <1>b, NumberAt
<1>18. Number(bytes, 12, 2) = ttl
  BY <1>8, <1>15, <1>16, <1>c, NumberAt
<1>19. Number(bytes, 14, 2) = m
  BY <1>7, <1>15, <1>16, <1>d, NumberAt
<1>20. Number(bytes, 17, 1) = core
  BY <1>10, <1>15, <1>16, <1>f, NumberAt
<1>21. Number(bytes, 18, 4) = price
  BY <1>9, <1>15, <1>16, <1>g, NumberAt
<1>22. Number(bytes, 22, 2) = exp
  BY <1>6, <1>9, <1>15, <1>16, <1>h, NumberAt
<1>23. Number(bytes, 24, 4) = tx.gas_limit
  BY <1>5, <1>6, <1>15, <1>16, <1>i, NumberAt
<1>24. /\ At(bytes, 28 + IdBytes(tx.id), who)
       /\ At(bytes, 28 + IdBytes(tx.id) + Len(who), size)
       /\ At(bytes, 28 + IdBytes(tx.id) + Len(who) + 2, input)
       /\ Len(bytes) = 28 + IdBytes(tx.id) + Len(who) + 2 + Len(input)
  BY <1>12, <1>13, <1>14, <1>15
<1> QED  BY <1>6, <1>15, <1>17, <1>18, <1>19, <1>20, <1>21, <1>22, <1>23, <1>24, <1>l, <1>m, Zenon
         DEF FoundAgain, m, price, core, ttl

(* Where the delegatee is as the mode says, the input is found.             *)
LEMMA InputFound ==
  ASSUME NEW tx, TxTyped(tx), NEW input \in Seq(Byte), NEW exp, NEW bytes,
         FoundAgain(bytes, tx, input, exp),
         \/ tx.delegatee = <<>>
         \/ OnAddress(tx.id) /\ tx.delegatee # <<>> /\ Len(tx.delegatee) = AddressBytes
  PROVE  InputIn(bytes) = input /\ InputAt(bytes) + 2 + Len(input) = Len(bytes)
<1> DEFINE at == 28 + IdBytes(tx.id) + Len(tx.delegatee)
<1>1. InputAt(bytes) = at
  <2>1. InputAt(bytes) = 28 + IdBytes(tx.id)
          + (IF OnAddress(tx.id) /\ tx.delegatee # <<>> THEN AddressBytes ELSE 0)
    BY CoreContractIs, ModeIs DEF FoundAgain, InputAt
  <2>2. IdBytes(tx.id) \in Nat
    BY DEF IdBytes
  <2>3. CASE tx.delegatee = <<>>
    <3>1. Len(tx.delegatee) = 0
      BY <2>3
    <3> QED  BY <2>1, <2>2, <2>3, <3>1
  <2>4. CASE tx.delegatee # <<>>
    BY <2>1, <2>4
  <2> QED  BY <2>3, <2>4
<1>2. at \in Nat /\ Len(input) \in Nat /\ bytes \in Seq(Byte)
  <2>1. IdBytes(tx.id) \in Nat /\ Len(tx.delegatee) \in Nat
    BY DEF TxTyped, IdBytes
  <2>2. bytes \in Seq(Byte)
    BY DEF FoundAgain
  <2> QED  BY <2>1, <2>2
<1>3. Number(bytes, at, 2) = Len(input)
  <2>1. At(bytes, at, BytesOf(Len(input), 2)) /\ Shifted(Base, Len(input), 2) = 0
    BY DEF FoundAgain
  <2> HIDE DEF at
  <2>2. PICK n \in Nat, from \in Nat : n = Len(input) /\ from = at
    BY <1>2
  <2>3. 2 \in Nat /\ Shifted(Base, n, 2) = 0 /\ At(bytes, from, BytesOf(n, 2))
    BY <2>1, <2>2
  <2>4. Number(bytes, from, 2) = n
    BY <1>2, <2>3, NumberAt
  <2> QED  BY <2>2, <2>4
<1>4. Slice(bytes, at + 2, at + 2 + Len(input)) = input
  <2>1. At(bytes, at + 2, input)
    BY DEF FoundAgain
  <2> HIDE DEF at
  <2>2. at + 2 \in Nat
    BY <1>2
  <2> QED  BY <1>2, <2>1, <2>2, AtSlice
<1>5. at + 2 + Len(input) = Len(bytes)
  BY DEF FoundAgain
<1> HIDE DEF at
<1> QED  BY <1>1, <1>3, <1>4, <1>5 DEF InputIn

-----------------------------------------------------------------------------
(* Names.                                                                   *)

Nonzero == 1 .. Base - 1

(* The name is what stands before the first zero.                           *)
LEMMA NameFound ==
  ASSUME NEW enc \in Seq(Nonzero), Len(enc) <= NameBytes,
         NEW bytes \in Seq(Byte), NEW from \in Nat, At(bytes, from, enc),
         from + Len(enc) + 1 <= Len(bytes), bytes[from + Len(enc) + 1] = 0
  PROVE  NameIn(Slice(bytes, from, from + AddressBytes)) = enc
<1> DEFINE n == Len(enc)
           s == Slice(bytes, from, from + AddressBytes)
           Valid(v) == /\ v < NameBytes => s[v + 1] = 0
                       /\ \A i \in 1 .. v : s[i] # 0
<1>1. /\ NameBytes \in Nat /\ AddressBytes \in Nat /\ NameBytes + 1 <= AddressBytes
      /\ n \in Nat /\ n <= NameBytes /\ Len(bytes) \in Nat
  BY AddressHasBytes DEF AddressBytes
<1>2. \A i \in 1 .. n : enc[i] # 0
  <2>1. \A i \in 1 .. n : enc[i] \in Nonzero
    OBVIOUS
  <2>2. 0 \notin Nonzero
    BY BaseIs DEF Nonzero
  <2> HIDE DEF n
  <2> QED  BY <2>1, <2>2
<1>3. ASSUME NEW i \in 1 .. n + 1 PROVE s[i] = bytes[from + i]
  <2> DEFINE to == IF from + AddressBytes <= Len(bytes) THEN from + AddressBytes ELSE Len(bytes)
  <2>1. to \in Nat /\ from + n + 1 <= to /\ to <= Len(bytes) /\ n \in Nat
    BY <1>1
  <2>2. s = SubSeq(bytes, from + 1, to)
    BY DEF Slice
  <2> HIDE DEF s, to, n
  <2>3. i \in 1 .. to - (from + 1) + 1 /\ from + 1 \in 1 .. to + 1 /\ from + 1 + i - 1 = from + i
    BY <2>1
  <2>4. SubSeq(bytes, from + 1, to)[i] = bytes[from + 1 + i - 1]
    BY <2>1, <2>3
  <2> QED  BY <2>2, <2>3, <2>4
<1>4. \A i \in 1 .. n : s[i] = enc[i]
  <2> SUFFICES ASSUME NEW i \in 1 .. n PROVE s[i] = enc[i]
    OBVIOUS
  <2>1. i \in 1 .. n + 1
    BY <1>1
  <2>2. bytes[from + i] = enc[i]
    BY DEF At
  <2> QED  BY <1>3, <2>1, <2>2
<1>5. s[n + 1] = 0
  <2>1. n + 1 \in 1 .. n + 1 /\ from + (n + 1) = from + n + 1
    BY <1>1
  <2> HIDE DEF s
  <2>2. s[n + 1] = bytes[from + (n + 1)]
    BY <1>3, <2>1
  <2> QED  BY <2>1, <2>2
<1> HIDE DEF s
<1>6. n \in 0 .. NameBytes /\ Valid(n)
  BY <1>1, <1>2, <1>4, <1>5
<1>7. ASSUME NEW v \in 0 .. NameBytes, Valid(v) PROVE v = n
  <2>1. CASE v < n
    <3>1. v + 1 \in 1 .. n /\ v < NameBytes
      BY <1>1, <2>1
    <3>2. s[v + 1] = 0 /\ s[v + 1] = enc[v + 1] /\ enc[v + 1] # 0
      BY <1>2, <1>4, <1>7, <3>1
    <3> QED  BY <3>2
  <2>2. CASE v > n
    <3>1. n + 1 \in 1 .. v
      BY <1>1, <2>2
    <3> QED  BY <1>5, <1>7, <3>1
  <2> HIDE DEF n
  <2> QED  BY <1>1, <2>1, <2>2
<1>8. (CHOOSE v \in 0 .. NameBytes : Valid(v)) = n
  <2> HIDE DEF Valid, n
  <2> QED  BY <1>6, <1>7, Zenon
<1>9. NameIn(s) = SubSeq(s, 1, n)
  BY <1>8, Zenon DEF NameIn
<1>10. SubSeq(s, 1, n) = enc
  <2>1. s \in Seq(Byte) /\ n <= Len(s)
    <3>1. s \in Seq(Byte)
      BY <1>1, SliceTyped DEF s
    <3>2. n <= Len(s)
      <4> DEFINE to == IF from + AddressBytes <= Len(bytes) THEN from + AddressBytes ELSE Len(bytes)
      <4>1. to \in Nat /\ from + n + 1 <= to /\ to <= Len(bytes) /\ n \in Nat
        BY <1>1
      <4>2. s = SubSeq(bytes, from + 1, to)
        BY DEF Slice, s
      <4> HIDE DEF to, n
      <4>3. Len(SubSeq(bytes, from + 1, to)) = to - (from + 1) + 1
        BY <4>1
      <4> QED  BY <4>1, <4>2, <4>3
    <3> QED  BY <3>1, <3>2
  <2>2. /\ Len(SubSeq(s, 1, n)) = n /\ SubSeq(s, 1, n) \in Seq(Byte)
        /\ \A i \in 1 .. n : SubSeq(s, 1, n)[i] = s[i]
    BY <1>1, <2>1
  <2>3. enc = [i \in 1 .. n |-> enc[i]]
    OBVIOUS
  <2> DEFINE u == SubSeq(s, 1, n)
  <2>4. u = [i \in 1 .. n |-> u[i]]
    <3> HIDE DEF u, n
    <3> QED  BY <2>2 DEF u
  <2> HIDE DEF u, n
  <2> QED  BY <1>4, <2>2, <2>3, <2>4 DEF u
<1> QED  BY <1>9, <1>10 DEF s

(* A name that can be written into an address.                              *)
NameTyped(name) ==
  /\ IsList(name)
  /\ \A i \in DOMAIN name : name[i].bytes \in Seq(Nonzero)

(* A name's bytes are bytes other than zero.                                *)
LEMMA EncodedTyped ==
  ASSUME NEW name, NameTyped(name)
  PROVE  Encoded(name) \in Seq(Nonzero) /\ Encoded(name) \in Seq(Byte)
<1> DEFINE parts == [i \in DOMAIN name |-> name[i].bytes]
           n == Len(name)
<1>1. n \in Nat /\ DOMAIN name = 1 .. n
  BY ListIs DEF NameTyped
<1>2. parts = [i \in 1 .. n |-> name[i].bytes] /\ \A i \in 1 .. n : name[i].bytes \in Seq(Nonzero)
  BY <1>1 DEF NameTyped
<1>3. parts \in Seq(Seq(Nonzero)) /\ Len(parts) = n
  <2> HIDE DEF n
  <2> QED  BY <1>1, <1>2
<1>4. SubSeq(parts, 1, n) = parts
  <2> HIDE DEF parts, n
  <2> QED  BY <1>1, <1>3
<1>5. Encoded(name) = Joined(parts, n)
  BY <1>4, Zenon DEF Encoded, Joined
<1> HIDE DEF parts, n
<1>6. Encoded(name) \in Seq(Nonzero)
  <2>1. n \in 0 .. Len(parts)
    BY <1>1, <1>3
  <2> QED  BY <1>3, <1>5, <2>1, JoinedTyped
<1>7. Nonzero \subseteq Byte
  BY BaseIs DEF Nonzero, Byte
<1> QED  BY <1>6, <1>7, SeqOfMore

(* The name in front, zeros behind.                                         *)
LEMMA NameWritten ==
  ASSUME NEW name, NameTyped(name), NEW who, who = set_delegatee_from_string(name)
  PROVE  /\ who \in Seq(Byte) /\ who # <<>>
         /\ \A bytes \in Seq(Byte), from \in Nat :
              At(bytes, from, who) =>
                /\ At(bytes, from, Encoded(name))
                /\ from + Len(Encoded(name)) + 1 <= Len(bytes)
                /\ bytes[from + Len(Encoded(name)) + 1] = 0
<1> DEFINE z == Opaque(NameBytes - Len(name))
           crc == Opaque(CrcBytes)
<1>a. PICK enc : enc = Encoded(name)
  OBVIOUS
<1>b. PICK padded : padded = enc \o z
  OBVIOUS
<1>1. who = padded \o crc
  BY <1>a, <1>b, Zenon DEF set_delegatee_from_string
<1>2. enc \in Seq(Byte) /\ Len(enc) \in Nat
  BY <1>a, EncodedTyped
<1>3. /\ z \in Seq(Byte) /\ Len(z) \in Nat /\ (Len(z) # 0 => z[1] = 0)
      /\ crc \in Seq(Byte) /\ Len(crc) \in Nat \ {0} /\ crc[1] = 0
  <2>1. NameBytes - Len(name) \in Int /\ CrcBytes \in Nat \ {0} /\ CrcBytes \in Int
    BY AddressHasBytes DEF NameTyped, IsList
  <2>2. /\ z \in Seq(Byte) /\ Len(z) \in Nat /\ (Len(z) # 0 => z[1] = 0)
    <3> DEFINE m == NameBytes - Len(name)
    <3>1. /\ Opaque(m) \in Seq(Byte) /\ Len(Opaque(m)) = IF m >= 0 THEN m ELSE 0
          /\ \A i \in 1 .. m : Opaque(m)[i] = 0
      <4> HIDE DEF m
      <4> QED  BY <2>1, OpaqueTyped DEF m
    <3> HIDE DEF m
    <3>2. m \in Int
      BY <2>1 DEF m
    <3>3. /\ Opaque(m) \in Seq(Byte) /\ Len(Opaque(m)) \in Nat
          /\ Len(Opaque(m)) # 0 => Opaque(m)[1] = 0
      BY <3>1, <3>2
    <3> QED  BY <3>3 DEF m
  <2>3. /\ crc \in Seq(Byte) /\ Len(crc) \in Nat \ {0} /\ crc[1] = 0
    <3>1. /\ crc \in Seq(Byte) /\ Len(crc) = IF CrcBytes >= 0 THEN CrcBytes ELSE 0
          /\ \A i \in 1 .. CrcBytes : crc[i] = 0
      BY <2>1, OpaqueTyped
    <3> HIDE DEF crc
    <3>2. 1 \in 1 .. CrcBytes /\ CrcBytes >= 0
      BY <2>1
    <3> QED  BY <2>1, <3>1, <3>2
  <2> QED  BY <2>2, <2>3
<1> HIDE DEF z, crc
<1>4. padded \in Seq(Byte) /\ Len(padded) = Len(enc) + Len(z)
  BY <1>2, <1>3, <1>b, ConcatTyped
<1>5. who \in Seq(Byte) /\ Len(who) = Len(padded) + Len(crc)
  BY <1>1, <1>3, <1>4, ConcatTyped
<1>6. who # <<>>
  <2>1. Len(who) # 0
    BY <1>2, <1>3, <1>4, <1>5
  <2> QED  BY <2>1
<1>7. ASSUME NEW bytes \in Seq(Byte), NEW from \in Nat, At(bytes, from, who)
      PROVE  /\ At(bytes, from, enc)
             /\ from + Len(enc) + 1 <= Len(bytes)
             /\ bytes[from + Len(enc) + 1] = 0
  <2>1. At(bytes, from, padded) /\ At(bytes, from + Len(padded), crc)
    BY <1>1, <1>3, <1>4, <1>7, AtConcat
  <2>2. At(bytes, from, enc) /\ At(bytes, from + Len(enc), z)
    BY <1>2, <1>3, <1>b, <2>1, AtConcat
  <2>3. CASE Len(z) = 0
    <3>1. Len(padded) = Len(enc)
      BY <1>2, <1>4, <2>3
    <3>2. At(bytes, from + Len(enc), crc) /\ 1 \in 1 .. Len(crc)
      BY <1>3, <2>1, <3>1
    <3> QED  BY <1>2, <1>3, <2>2, <3>2 DEF At
  <2>4. CASE Len(z) # 0
    <3>1. 1 \in 1 .. Len(z)
      BY <1>3, <2>4
    <3> QED  BY <1>2, <1>3, <2>2, <2>4, <3>1 DEF At
  <2> QED  BY <2>3, <2>4
<1> QED  BY <1>5, <1>6, <1>7, <1>a

-----------------------------------------------------------------------------
(* The invariant of a caller.                                               *)

OwnerInv ==
  /\ owner \in {KeyPair(s, t) : s \in Seeds, t \in {"ED25519", "SM2"}}
  /\ stage \notin {"args", "load"} => signer = owner

FormInv ==
  /\ stage # "args" => form \in {t.form : t \in Trips}
  /\ stage \in {"arguments", "sign", "work", "shown"} /\ ByName =>
       is_delegatee_name_valid(form.delegatee.name, "DAPP")

LaidOut ==
  stage \in {"sign", "work", "shown"} =>
    /\ pc = "write"
    /\ Written = Len(call.sig) \/ call.args = <<>>
    /\ txn # None
    /\ \E exp \in PriceExponents(form.gas_price) : txn = serialize_tx(Complete, data, exp)

ShownLegible == stage = "shown" => Legible

TxInv == CodecInv /\ OwnerInv /\ FormInv /\ LaidOut /\ ShownLegible

(* The bytes of a delegatee are bytes; its name, if it has one, is a name.  *)
LEMMA DelegateeTyped ==
  ASSUME form \in {t.form : t \in Trips}
  PROVE  /\ DelegateeBytes \in Seq(Byte)
         /\ ByName => NameTyped(form.delegatee.name)
<1>1. /\ form.delegatee.by \in {"none", "account", "name"}
      /\ form.delegatee.by = "name" =>
           /\ IsList(form.delegatee.name)
           /\ \A i \in DOMAIN form.delegatee.name :
                form.delegatee.name[i].bytes \in Seq(1 .. Base - 1) \ {<<>>}
  BY Zenon, TripsAreTyped
<1>2. ByName => NameTyped(form.delegatee.name)
  BY <1>1 DEF ByName, NameTyped, Nonzero
<1>3. CASE form.delegatee.by = "none"
  <2>1. DelegateeBytes = <<>>
    BY <1>3 DEF DelegateeBytes
  <2> QED  BY <1>2, <2>1
<1>4. CASE form.delegatee.by = "account"
  <2>1. DelegateeBytes = Opaque(AddressBytes)
    BY <1>4 DEF DelegateeBytes
  <2>2. AddressBytes \in Int
    BY AddressHasBytes DEF AddressBytes
  <2> QED  BY <1>2, <2>1, <2>2, OpaqueTyped
<1>5. CASE form.delegatee.by = "name"
  <2>1. DelegateeBytes = set_delegatee_from_string(form.delegatee.name)
    BY <1>5 DEF DelegateeBytes
  <2>2. NameTyped(form.delegatee.name)
    BY <1>2, <1>5 DEF ByName
  <2> QED  BY <1>2, <2>1, <2>2, NameWritten
<1> QED  BY <1>1, <1>3, <1>4, <1>5

(* What compose_transaction_local adds to the form leaves the rest alone.   *)
LEMMA CompleteIs ==
  ASSUME form \in {t.form : t \in Trips}
  PROVE  /\ Complete.isn = form.isn /\ Complete.gas_price = form.gas_price
         /\ Complete.gas_limit = form.gas_limit /\ Complete.id = form.id
         /\ Complete.ttl = form.ttl /\ Complete.delegatee = DelegateeBytes
         /\ TxTyped(Complete)
<1>1. /\ DOMAIN form = DOMAIN Aside
      /\ {form.isn, form.gas_price, form.gas_limit, form.id.sn, form.id.scope} \subseteq Nat
      /\ form.ttl \in Int
      /\ form.id.core \in BOOLEAN
      /\ form.id.core => form.id.sn % CoreSpan # CORE_CONTRACT_RVM
  BY Zenon, TripsAreTyped
<1>2. DOMAIN form = {"id", "delegatee", "isn", "ttl", "gas_price", "gas_limit", "no_args"}
  BY <1>1 DEF Aside
<1>3. /\ Complete.isn = form.isn /\ Complete.gas_price = form.gas_price
      /\ Complete.gas_limit = form.gas_limit /\ Complete.id = form.id
      /\ Complete.ttl = form.ttl /\ Complete.delegatee = DelegateeBytes
  BY <1>2 DEF Complete
<1>4. DelegateeBytes \in Seq(Byte)
  BY DelegateeTyped
<1>5. TxTyped(Complete)
  BY <1>1, <1>3, <1>4 DEF TxTyped
<1> QED  BY <1>3, <1>5

(* The transaction that was laid out.                                       *)
LEMMA TxnRead ==
  ASSUME FormInv, LaidOut, stage \in {"sign", "work", "shown"}, data \in Seq(Byte)
  PROVE  /\ form \in {t.form : t \in Trips}
         /\ \E exp \in PriceExponents(form.gas_price) :
              FoundAgain(txn, Complete, data, exp)
<1>1. form \in {t.form : t \in Trips}
  BY DEF FormInv
<1>2. txn # None
  BY DEF LaidOut
<1>3. PICK exp \in PriceExponents(form.gas_price) : txn = serialize_tx(Complete, data, exp)
  BY DEF LaidOut
<1>4. TxTyped(Complete) /\ exp \in PriceExponents(Complete.gas_price)
  BY <1>1, <1>3, CompleteIs
<1>5. FoundAgain(txn, Complete, data, exp)
  BY <1>2, <1>3, <1>4, TxRead
<1> QED  BY <1>1, <1>5

(* Where a reader who goes by the mode is not misled, the input is found.   *)
LEMMA InputRead ==
  ASSUME FormInv, LaidOut, stage \in {"sign", "work", "shown"}, data \in Seq(Byte), Legible
  PROVE  InputIn(txn) = data /\ InputAt(txn) + 2 + Len(data) = Len(txn)
<1>1. form \in {t.form : t \in Trips}
  BY TxnRead
<1>2. PICK exp : FoundAgain(txn, Complete, data, exp)
  BY TxnRead
<1>3. TxTyped(Complete) /\ Complete.id = form.id /\ Complete.delegatee = DelegateeBytes
  BY <1>1, CompleteIs
<1>4. \/ Complete.delegatee = <<>>
      \/ /\ OnAddress(Complete.id) /\ Complete.delegatee # <<>>
         /\ Len(Complete.delegatee) = AddressBytes
  <2>1. Len(DelegateeBytes) = 0 => DelegateeBytes = <<>>
    BY <1>1, DelegateeTyped
  <2> QED  BY <1>3, <2>1 DEF Legible, Announced
<1> QED  BY <1>2, <1>3, <1>4, InputFound

(* What was laid out is found again.                                        *)
LEMMA SignedReadsBack ==
  ASSUME TxInv
  PROVE  ReadsBack
<1> SUFFICES ASSUME stage = "sign"
             PROVE  LET exp == Number(txn, 22, 2)
                        mantissa == Number(txn, 18, 4)
                    IN /\ Number(txn, 8, 4) = form.isn
                       /\ Number(txn, 24, 4) = form.gas_limit
                       /\ form.ttl \in 1 .. TtlSpan => ttl_in(txn) = form.ttl
                       /\ mantissa = Shifted(2, form.gas_price, exp)
                       /\ exp > 0 => Shifted(2, mantissa, PriceBits - 2) # 0
                       /\ Announced /\ ByName =>
                            NameIn(DelegateeIn(txn)) = Encoded(form.delegatee.name)
                       /\ Legible => InputIn(txn) = data /\ InputAt(txn) + 2 + Len(data) = Len(txn)
  BY DEF ReadsBack
<1>1. FormInv /\ LaidOut /\ data \in Seq(Byte)
  BY DEF TxInv, CodecInv, Typed
<1>2. form \in {t.form : t \in Trips}
  BY <1>1, TxnRead
<1>3. PICK exp \in PriceExponents(form.gas_price) : FoundAgain(txn, Complete, data, exp)
  BY <1>1, TxnRead
<1>4. /\ Complete.isn = form.isn /\ Complete.gas_price = form.gas_price
      /\ Complete.gas_limit = form.gas_limit /\ Complete.id = form.id
      /\ Complete.ttl = form.ttl /\ Complete.delegatee = DelegateeBytes
      /\ TxTyped(Complete)
  BY <1>2, CompleteIs
<1>5. Number(txn, 8, 4) = form.isn /\ Number(txn, 24, 4) = form.gas_limit
  BY <1>3, <1>4 DEF FoundAgain
<1>6. form.ttl \in 1 .. TtlSpan => ttl_in(txn) = form.ttl
  <2>1. Number(txn, 12, 2) = TtlField(form.ttl) /\ form.ttl \in Int
    BY <1>3, <1>4 DEF FoundAgain, TxTyped
  <2> QED  BY <2>1, TtlIs DEF ttl_in
<1>7. /\ Number(txn, 22, 2) = exp /\ Number(txn, 18, 4) = Shifted(2, form.gas_price, exp)
      /\ exp > 0 => Shifted(2, Shifted(2, form.gas_price, exp), PriceBits - 2) # 0
  <2>1. form.gas_price \in Nat
    BY <1>4 DEF TxTyped
  <2> QED  BY <1>3, <1>4, <2>1, PriceKept DEF FoundAgain
<1>8. ASSUME Announced, ByName
      PROVE  NameIn(DelegateeIn(txn)) = Encoded(form.delegatee.name)
  <2> DEFINE name == form.delegatee.name
             from == 28 + IdBytes(form.id)
  <2>1. NameTyped(name) /\ DelegateeBytes = set_delegatee_from_string(name)
    BY <1>2, <1>8, DelegateeTyped DEF ByName, DelegateeBytes
  <2>2. DelegateeBytes # <<>>
    BY <2>1, NameWritten
  <2>3. OnAddress(form.id)
    BY <1>8, <2>2 DEF Announced
  <2>4. IdBytes(form.id) \in Nat /\ AddressBytes \in Nat
    BY AddressHasBytes DEF IdBytes, AddressBytes
  <2>5. InputAt(txn) = from + AddressBytes
    <3>1. InputAt(txn) = 28 + IdBytes(Complete.id)
            + (IF OnAddress(Complete.id) /\ Complete.delegatee # <<>> THEN AddressBytes ELSE 0)
      BY <1>3, <1>4, CoreContractIs, ModeIs DEF FoundAgain, InputAt
    <3> QED  BY <1>4, <2>2, <2>3, <3>1
  <2>6. DelegateeIn(txn) = Slice(txn, from, from + AddressBytes) /\ from \in Nat
    <3>1. (from + AddressBytes) - AddressBytes = from
      BY <2>4
    <3> QED  BY <2>4, <2>5, <3>1 DEF DelegateeIn
  <2>7. txn \in Seq(Byte) /\ At(txn, from, DelegateeBytes)
    BY <1>3, <1>4 DEF FoundAgain
  <2>8. Encoded(name) \in Seq(Nonzero) /\ Len(Encoded(name)) <= NameBytes
    <3>1. is_delegatee_name_valid(name, "DAPP")
      BY <1>1, <1>8 DEF FormInv
    <3>2. Len(Encoded(name)) <= NameBytes
      BY <1>2, <1>8, <3>1, TripsAreTyped, Zenon DEF ByName
    <3> QED  BY <2>1, <3>2, EncodedTyped
  <2> HIDE DEF name, from
  <2>9. /\ At(txn, from, Encoded(name))
        /\ from + Len(Encoded(name)) + 1 <= Len(txn)
        /\ txn[from + Len(Encoded(name)) + 1] = 0
    BY <2>1, <2>6, <2>7, NameWritten
  <2>10. NameIn(Slice(txn, from, from + AddressBytes)) = Encoded(name)
    BY <2>6, <2>7, <2>8, <2>9, NameFound
  <2> QED  BY <2>6, <2>10 DEF name
<1>9. Legible => InputIn(txn) = data /\ InputAt(txn) + 2 + Len(data) = Len(txn)
  BY <1>1, InputRead
<1> QED  BY <1>5, <1>6, <1>7, <1>8, <1>9

(* Every account an owner's notes or key give back is the owner's.         *)
LEMMA LoadedIsOwner ==
  ASSUME OwnerInv, Load
  PROVE  signer' = owner
<1>1. PICK s \in Seeds, t \in {"ED25519", "SM2"} : owner = KeyPair(s, t)
  BY DEF OwnerInv
<1>2. CASE \E told \in {"ED25519", "SM2"} : \E json \in Notes(owner, told) :
             signer' = from_json(json, told)
  <2>1. PICK told \in {"ED25519", "SM2"} : \E json \in Notes(owner, told) :
          signer' = from_json(json, told)
    BY <1>2
  <2>2. PICK json \in Notes(owner, told) : signer' = from_json(json, told)
    BY <2>1
  <2>3. /\ json.PrivateKey = owner.sk /\ json.PublicKey = owner.pk /\ json.Address = owner.addr
        /\ TypeIn(json, told) = owner.type
    <3>1. PICK x : x = jsonify(owner)
      OBVIOUS
    <3>2. /\ x = [PrivateKey |-> owner.sk, PublicKey |-> owner.pk, Address |-> owner.addr,
                  suffix |-> "", AddressType |-> owner.type]
          /\ owner.type \in {"ED25519", "SM2"}
      BY <1>1, <3>1 DEF jsonify, KeyPair
    <3>3. \/ json = x
          \/ json = [x EXCEPT !.suffix = owner.type]
          \/ json = [x EXCEPT !.suffix = owner.type, !.AddressType = "missing"]
          \/ told = owner.type /\ json = [x EXCEPT !.AddressType = "missing"]
      BY <2>2, <3>1 DEF Notes
    <3>4. CASE json = x
      BY <3>2, <3>4 DEF TypeIn, DioxAccountType
    <3>5. CASE json = [x EXCEPT !.suffix = owner.type]
      BY <3>2, <3>5 DEF TypeIn, DioxAccountType
    <3>6. CASE json = [x EXCEPT !.suffix = owner.type, !.AddressType = "missing"]
      BY <3>2, <3>6 DEF TypeIn, DioxAccountType
    <3>7. CASE told = owner.type /\ json = [x EXCEPT !.AddressType = "missing"]
      BY <3>2, <3>7 DEF TypeIn, DioxAccountType
    <3> QED  BY <3>3, <3>4, <3>5, <3>6, <3>7
  <2>4. /\ owner = [type |-> owner.type, sk |-> owner.sk, pk |-> owner.pk, addr |-> owner.addr]
        /\ owner.type \in {"ED25519", "SM2"} /\ is_valid(owner)
    BY <1>1 DEF KeyPair, is_valid, Bytes, AddressOf
  <2>5. from_json(json, told) = owner
    BY <2>3, <2>4 DEF from_json
  <2> QED  BY <2>2, <2>5
<1>3. CASE /\ owner.type = "ED25519"
           /\ signer' \in {from_key(owner.sk, "ED25519"),
                           generate_key_pair(owner.sk.seed, "ED25519")}
  <2>1. t = "ED25519" /\ owner.sk = Bytes(s, 64)
    BY <1>1, <1>3 DEF KeyPair
  <2>2. from_key(owner.sk, "ED25519") = KeyPair(s, "ED25519")
    BY <2>1 DEF from_key, Bytes
  <2>3. generate_key_pair(owner.sk.seed, "ED25519") = KeyPair(s, "ED25519")
    BY <2>1 DEF generate_key_pair, Bytes
  <2> QED  BY <1>1, <1>3, <2>1, <2>2, <2>3
<1> QED  BY <1>2, <1>3 DEF Load

(* The invariant holds at the start,                                        *)
LEMMA TxStart == TxInit => TxInv
<1> SUFFICES ASSUME TxInit PROVE TxInv
  OBVIOUS
<1>1. CodecInv
  BY CodecInit DEF TxInit
<1>2. stage \in {"args", "load"}
  BY DEF TxInit
<1>3. OwnerInv
  BY <1>2 DEF TxInit, OwnerInv
<1>4. FormInv
  BY <1>2 DEF TxInit, FormInv
<1> QED  BY <1>1, <1>2, <1>3, <1>4 DEF TxInv, LaidOut, ShownLegible

(* Steps that leave the codec and the caller's accounts alone.              *)
LEMMA TxStage ==
  ASSUME TxInv, UNCHANGED <<vars, form, owner, signer, txn>>,
         stage' \in {"raised", "undecoded", "misread", "arguments", "work", "shown"},
         stage \notin {"args", "load"},
         stage' = "arguments" =>
           (ByName => is_delegatee_name_valid(form.delegatee.name, "DAPP")),
         stage' \in {"work", "shown"} => stage \in {"sign", "work"},
         stage' = "shown" => Legible
  PROVE  TxInv'
<1>1. /\ call' = call /\ pc' = pc /\ data' = data /\ ends' = ends /\ form' = form
      /\ owner' = owner /\ signer' = signer /\ txn' = txn
  BY DEF vars
<1>2. CodecInv'
  BY CodecStutter DEF TxInv
<1>3. OwnerInv'
  BY <1>1 DEF TxInv, OwnerInv
<1>4. FormInv'
  BY <1>1 DEF TxInv, FormInv, ByName
<1>5. LaidOut'
  <2>1. CASE stage' \notin {"work", "shown"}
    BY <2>1 DEF LaidOut
  <2>2. CASE stage' \in {"work", "shown"}
    <3>1. /\ pc = "write"
          /\ Written = Len(call.sig) \/ call.args = <<>>
          /\ txn # None
          /\ \E exp \in PriceExponents(form.gas_price) : txn = serialize_tx(Complete, data, exp)
      BY <2>2 DEF TxInv, LaidOut
    <3>2. Complete' = Complete /\ Written' = Written
      BY <1>1 DEF Complete, DelegateeBytes, Written
    <3> QED  BY <1>1, <3>1, <3>2 DEF LaidOut
  <2> QED  BY <2>1, <2>2
<1>6. ShownLegible'
  <2>1. Legible' <=> Legible
    BY <1>1 DEF Legible, Announced, DelegateeBytes
  <2> QED  BY <2>1 DEF ShownLegible
<1> QED  BY <1>2, <1>3, <1>4, <1>5, <1>6 DEF TxInv

(* Steps of the codec at a stage where nothing is laid out.                 *)
LEMMA TxCodec ==
  ASSUME TxInv, CodecInv', UNCHANGED txVars, stage \notin {"sign", "work", "shown"}
  PROVE  TxInv'
<1>1. stage' = stage /\ form' = form /\ owner' = owner /\ signer' = signer
  BY DEF txVars
<1>2. OwnerInv'
  BY <1>1 DEF TxInv, OwnerInv
<1>3. FormInv'
  BY <1>1 DEF TxInv, FormInv, ByName
<1>4. LaidOut' /\ ShownLegible'
  BY <1>1 DEF LaidOut, ShownLegible
<1> QED  BY <1>2, <1>3, <1>4 DEF TxInv

(* when an account is read,                                                 *)
LEMMA TxLoad ==
  ASSUME TxInv, Load
  PROVE  TxInv'
<1>1. /\ UNCHANGED vars /\ form' = form /\ owner' = owner /\ stage = "load" /\ stage' = "compose"
  BY DEF Load
<1>2. CodecInv'
  BY <1>1, CodecStutter DEF TxInv
<1>3. signer' = owner
  BY LoadedIsOwner DEF TxInv
<1>4. OwnerInv'
  BY <1>1, <1>3 DEF TxInv, OwnerInv
<1>5. FormInv'
  BY <1>1 DEF TxInv, FormInv
<1> QED  BY <1>1, <1>2, <1>4, <1>5 DEF TxInv, LaidOut, ShownLegible

(* when the transaction is laid out,                                        *)
LEMMA TxSerialize ==
  ASSUME TxInv, Serialize
  PROVE  TxInv'
<1>1. /\ call' = call /\ pc' = pc /\ data' = data /\ ends' = ends /\ form' = form
      /\ owner' = owner /\ signer' = signer /\ stage = "arguments" /\ pc = "write"
      /\ UNCHANGED vars
      /\ Written = Len(call.sig) \/ call.args = <<>>
      /\ stage' = IF txn' = None THEN "raised" ELSE "sign"
  BY DEF Serialize, vars
<1>2. \E exp \in PriceExponents(form.gas_price) : txn' = serialize_tx(Complete, data, exp)
  BY DEF Serialize
<1>3. CodecInv'
  BY <1>1, CodecStutter DEF TxInv
<1>4. OwnerInv'
  BY <1>1 DEF TxInv, OwnerInv
<1>5. FormInv'
  BY <1>1 DEF TxInv, FormInv, ByName
<1>6. LaidOut'
  <2>1. Complete' = Complete /\ Written' = Written
    BY <1>1 DEF Complete, DelegateeBytes, Written
  <2> QED  BY <1>1, <1>2, <2>1 DEF LaidOut
<1>7. ShownLegible'
  BY <1>1 DEF ShownLegible
<1> QED  BY <1>3, <1>4, <1>5, <1>6, <1>7 DEF TxInv

(* What is decoded is what was written, all of it.                          *)
LEMMA TxDecode ==
  ASSUME NoneIsNoReading, NestedSerializer, TxInv, DecodeInput
  PROVE  TxInv'
<1>1. /\ stage = "shown" /\ stage' = "decoded" /\ InputIn(txn) # <<>>
      /\ data' = InputIn(txn) /\ pc' = "read"
      /\ call' = call /\ ends' = ends /\ offset' = offset /\ ret' = ret
      /\ form' = form /\ owner' = owner /\ signer' = signer
  BY DEF DecodeInput
<1>2. data \in Seq(Byte) /\ CodecInv /\ call \in Calls
  BY DEF TxInv, CodecInv, Typed
<1>3. InputIn(txn) = data
  <2>1. FormInv /\ LaidOut /\ Legible
    BY <1>1 DEF TxInv, ShownLegible
  <2> QED  BY <1>1, <1>2, <2>1, InputRead
<1>4. pc = "write" /\ (Written = Len(call.sig) \/ call.args = <<>>)
  BY <1>1 DEF TxInv, LaidOut
<1>5. Written = Len(call.sig)
  <2>1. ASSUME call.args = <<>> PROVE FALSE
    <3>1. Len(ends) = 0
      BY <2>1 DEF TxInv, CodecInv, Typed
    <3>2. Len(data) = 0
      BY <1>2, <1>4, <3>1 DEF CodecInv, WritesAtEnd, Start
    <3> QED  BY <1>1, <1>2, <1>3, <3>2
  <2> QED  BY <1>4, <2>1
<1>6. CodecInv'
  <2>1. Len(data) \in 0 .. Len(data) /\ SubSeq(data, 1, Len(data)) = data
    BY <1>2
  <2>2. HandOver(Len(data))
    BY <1>1, <1>3, <1>4, <1>5, <2>1 DEF HandOver
  <2>3. PICK n \in 0 .. Len(data) : n = Len(data)
    BY <2>1
  <2>4. HandOver(n)
    BY <2>2, <2>3
  <2> QED  BY <1>2, <2>4, CodecHandOver
<1>7. OwnerInv'
  BY <1>1 DEF TxInv, OwnerInv
<1>8. FormInv'
  BY <1>1 DEF TxInv, FormInv
<1> QED  BY <1>1, <1>6, <1>7, <1>8 DEF TxInv, LaidOut, ShownLegible

(* It holds after every step of a caller.                                   *)
LEMMA TxStep ==
  ASSUME NoneIsNoReading, NestedSerializer, TxInv, [TxNext]_allVars
  PROVE  TxInv'
<1>0. CodecInv
  BY DEF TxInv
<1>1. CASE Load
  BY <1>1, TxLoad
<1>2. CASE Accept
  <2>1. /\ UNCHANGED <<vars, form, owner, signer, txn>> /\ stage = "compose"
        /\ stage' = "arguments"
        /\ ByName => is_delegatee_name_valid(form.delegatee.name, "DAPP")
    BY <1>2 DEF Accept
  <2> QED  BY <2>1, TxStage
<1>3. CASE Refuse
  <2>1. /\ UNCHANGED <<vars, form, owner, signer, txn>> /\ stage = "compose"
        /\ stage' = "raised"
    BY <1>3 DEF Refuse
  <2> QED  BY <2>1, TxStage
<1>4. CASE Arguments
  <2>1. UNCHANGED txVars /\ stage \notin {"sign", "work", "shown"}
    BY <1>4 DEF Arguments
  <2>2. CodecInv'
    BY <1>0, <1>4, CodecWrite, CodecRefuse DEF Arguments
  <2> QED  BY <2>1, <2>2, TxCodec
<1>5. CASE Serialize
  BY <1>5, TxSerialize
<1>6. CASE Sign
  <2>1. /\ UNCHANGED <<vars, form, owner, signer, txn>> /\ stage = "sign" /\ stage' = "work"
    BY <1>6 DEF Sign
  <2> QED  BY <2>1, TxStage
<1>7. CASE Work
  <2>1. /\ UNCHANGED <<vars, form, owner, signer, txn>> /\ stage = "work" /\ stage' = "work"
    BY <1>7 DEF Work, txVars
  <2> QED  BY <2>1, TxStage
<1>8. CASE NotSigned
  <2>1. /\ UNCHANGED <<vars, form, owner, signer, txn>> /\ stage \in {"sign", "work"}
        /\ stage' = "raised"
    BY <1>8 DEF NotSigned
  <2> QED  BY <2>1, TxStage
<1>9. CASE Show
  <2>1. /\ UNCHANGED <<vars, form, owner, signer, txn>> /\ stage = "work"
        /\ stage' = IF Legible THEN "shown" ELSE "misread"
    BY <1>9 DEF Show, Signed
  <2> QED  BY <2>1, TxStage
<1>10. CASE DecodeNothing
  <2>1. /\ UNCHANGED <<vars, form, owner, signer, txn>> /\ stage = "shown"
        /\ stage' = "undecoded"
    BY <1>10 DEF DecodeNothing
  <2> QED  BY <2>1, TxStage
<1>11. CASE DecodeInput
  BY <1>11, TxDecode
<1>12. CASE ReadBack
  <2>1. UNCHANGED txVars
    BY <1>12 DEF ReadBack
  <2>2. pc = "read"
    BY <1>12 DEF ReadBack, ReadArgument, FallBack, ReturnArguments
  <2>3. stage \notin {"sign", "work", "shown"}
    BY <2>2 DEF TxInv, LaidOut
  <2>4. CodecInv'
    BY <1>0, <1>12, CodecRead, CodecFallBack, CodecReturn DEF ReadBack
  <2> QED  BY <2>1, <2>3, <2>4, TxCodec
<1>13. CASE Direct
  <2>1. UNCHANGED txVars /\ stage = "args"
    BY <1>13 DEF Direct
  <2>2. CodecInv'
    BY <1>0, <1>13, CodecHandOver DEF Direct
  <2> QED  BY <2>1, <2>2, TxCodec
<1>14. CASE UNCHANGED allVars
  <2>1. UNCHANGED vars /\ UNCHANGED txVars
    BY <1>14 DEF allVars
  <2>2. CodecInv'
    BY <1>0, <2>1, CodecStutter
  <2>3. /\ call' = call /\ pc' = pc /\ data' = data /\ ends' = ends /\ form' = form
        /\ owner' = owner /\ signer' = signer /\ txn' = txn /\ stage' = stage
    BY <2>1 DEF vars, txVars
  <2>4. OwnerInv' /\ FormInv'
    BY <2>3 DEF TxInv, OwnerInv, FormInv, ByName
  <2>5. Complete' = Complete /\ Written' = Written /\ (Legible' <=> Legible)
    BY <2>3 DEF Complete, DelegateeBytes, Written, Legible, Announced
  <2>6. LaidOut' /\ ShownLegible'
    BY <2>3, <2>5 DEF TxInv, LaidOut, ShownLegible
  <2> QED  BY <2>2, <2>4, <2>6 DEF TxInv
<1> QED  BY <1>1, <1>2, <1>3, <1>4, <1>5, <1>6, <1>7, <1>8, <1>9, <1>10, <1>11, <1>12, <1>13,
            <1>14 DEF TxNext

(* What is laid out, for whom and with which arguments, at every step of a  *)
(* caller: the inductive invariant of the next three theorems.              *)
THEOREM TxInvariant ==
  ASSUME NoneIsNoReading, NestedSerializer
  PROVE  TxSpec => []TxInv
<1>1. TxInit => TxInv
  BY TxStart
<1>2. TxInv /\ [TxNext]_allVars => TxInv'
  BY TxStep
<1> QED  BY <1>1, <1>2, PTL DEF TxSpec

(* Arguments, bytes and offsets are of their types in a transaction, too.   *)
THEOREM TxTypeCorrect ==
  ASSUME NoneIsNoReading, NestedSerializer
  PROVE  TxSpec => []TypeOK
<1>1. TxInv => TypeOK
  BY CodecSafe DEF TxInv
<1> QED  BY <1>1, TxInvariant, PTL

(* The arguments of a transaction come back from its Input.                 *)
THEOREM CompleteArgumentsSurviveAlways ==
  ASSUME NoneIsNoReading, NestedSerializer
  PROVE  TxSpec => []CompleteArgumentsSurvive
<1>1. TxInv => CompleteArgumentsSurvive
  BY CodecSafe DEF TxInv
<1> QED  BY <1>1, TxInvariant, PTL

(* The reader of an Input stands where each argument was written to.        *)
THEOREM OffsetIsExactAlways ==
  ASSUME NoneIsNoReading, NestedSerializer
  PROVE  TxSpec => []OffsetIsExact
<1>1. TxInv => OffsetIsExact
  BY CodecSafe DEF TxInv
<1> QED  BY <1>1, TxInvariant, PTL

(* The bytes that are signed hold every field where the layout has it, with *)
(* its whole value or, of the gas price, its highest bits.                  *)
THEOREM ReadsBackAlways ==
  ASSUME NoneIsNoReading, NestedSerializer
  PROVE  TxSpec => []ReadsBack
<1>1. TxInv => ReadsBack
  BY SignedReadsBack
<1> QED  BY <1>1, TxInvariant, PTL

(* The account that signs is the one that was written down.                 *)
THEOREM AccountSurvivesAlways == TxSpec => []AccountSurvives
<1>1. TxInit => OwnerInv
  BY DEF TxInit, OwnerInv
<1>2. OwnerInv /\ [TxNext]_allVars => OwnerInv'
  <2> SUFFICES ASSUME OwnerInv, [TxNext]_allVars PROVE OwnerInv'
    OBVIOUS
  <2>1. owner' = owner
    BY DEF TxNext, allVars, txVars, Load, Accept, Refuse, Arguments, Serialize, Sign, Work,
           NotSigned, Show, DecodeNothing, DecodeInput, ReadBack, Direct
  <2>2. CASE Load
    BY <2>1, <2>2, LoadedIsOwner DEF OwnerInv
  <2>3. CASE ~ Load
    <3>1. signer' = signer /\ (stage' = stage \/ stage \notin {"args", "load"})
      BY <2>3 DEF TxNext, allVars, txVars, Accept, Refuse, Arguments, Serialize, Sign, Work,
                  NotSigned, Show, Signed, DecodeNothing, DecodeInput, ReadBack, Direct
    <3> QED  BY <2>1, <3>1 DEF OwnerInv
  <2> QED  BY <2>2, <2>3
<1>3. OwnerInv => AccountSurvives
  BY DEF OwnerInv, AccountSurvives
<1> QED  BY <1>1, <1>2, <1>3, PTL DEF TxSpec

-----------------------------------------------------------------------------
(* The search for nonces.                                                   *)

SearchInv ==
  /\ nonce \in Nat /\ nonces \in Seq(Nat) /\ tried \in Seq(Hashes) /\ Len(tried) = nonce
  /\ \A i \in 1 .. Len(nonces) :
       /\ nonces[i] < nonce /\ nonces[i] < NonceSpan
       /\ \A j \in 1 .. i - 1 : nonces[j] < nonces[i]
  /\ stage \in {"load", "compose", "arguments", "sign"} => tried = <<>> /\ nonces = <<>>

(* The nonces found are those whose hash is fine, of all that were tried.   *)
WorkFound ==
  stage = "work" =>
    \A n \in DOMAIN tried :
      is_fullfiled(difficulty(Asked), tried[n]) <=> n - 1 \in ToSet(nonces)

(* A nonce tried is written down, and kept if its hash is fine.             *)
LEMMA SearchStep ==
  ASSUME SearchInv, WorkFound, Work
  PROVE  SearchInv' /\ WorkFound'
<1> DEFINE d == difficulty(Asked)
           passes(hash) == is_fullfiled(d, hash)
<1>1. PICK hash \in Hashes :
        /\ tried' = Append(tried, hash)
        /\ nonces' = IF passes(hash) THEN Append(nonces, nonce) ELSE nonces
  BY DEF Work, TryNonce
<1>2. nonce' = nonce + 1 /\ nonce < NonceSpan /\ stage = "work" /\ stage' = stage
      /\ txn' = txn /\ signer' = signer
  BY DEF Work, TryNonce, txVars
<1>3. Asked' = Asked
  BY <1>2 DEF Asked, Size, SignedBytes
<1>4. /\ nonce \in Nat /\ nonces \in Seq(Nat) /\ tried \in Seq(Hashes) /\ Len(tried) = nonce
      /\ \A i \in 1 .. Len(nonces) :
           /\ nonces[i] < nonce /\ nonces[i] < NonceSpan
           /\ \A j \in 1 .. i - 1 : nonces[j] < nonces[i]
  BY DEF SearchInv
<1>5. \A n \in 1 .. Len(tried) : passes(tried[n]) <=> n - 1 \in ToSet(nonces)
  BY <1>2, <1>4 DEF WorkFound
<1>a. PICK old, k, m, hashes, p :
        old = nonces /\ k = nonce /\ m = Len(nonces) /\ hashes = tried /\ p = passes(hash)
  OBVIOUS
<1>6. /\ tried' \in Seq(Hashes) /\ Len(tried') = k + 1 /\ tried'[k + 1] = hash
      /\ \A n \in 1 .. k : tried'[n] = hashes[n]
  BY <1>1, <1>4, <1>a
<1>7. CASE ~ passes(hash)
  <2>1. nonces' = nonces
    BY <1>1, <1>7
  <2>2. SearchInv'
    <3>1. \A i \in 1 .. Len(nonces') :
            /\ nonces'[i] < nonce' /\ nonces'[i] < NonceSpan
            /\ \A j \in 1 .. i - 1 : nonces'[j] < nonces'[i]
      <4>1. \A i \in 1 .. Len(nonces) : nonces[i] \in Nat
        BY <1>4
      <4> QED  BY <1>2, <1>4, <2>1, <4>1
    <3> QED  BY <1>2, <1>4, <1>6, <1>a, <2>1, <3>1 DEF SearchInv
  <2>3. ASSUME NEW n \in 1 .. k + 1
        PROVE  passes(tried'[n]) <=> n - 1 \in ToSet(nonces)
    <3>1. CASE n = k + 1
      <4>1. n - 1 = k
        BY <1>4, <1>a, <3>1
      <4>2. k \notin ToSet(nonces)
        BY <1>4, <1>a DEF ToSet
      <4>3. tried'[n] = hash
        BY <1>6, <3>1
      <4> QED  BY <1>7, <4>1, <4>2, <4>3
    <3>2. CASE n \in 1 .. k
      <4>1. tried'[n] = tried[n] /\ n \in 1 .. Len(tried)
        BY <1>4, <1>6, <1>a, <3>2
      <4> QED  BY <1>5, <4>1
    <3> QED  BY <1>4, <1>a, <3>1, <3>2
  <2>4. DOMAIN tried' = 1 .. k + 1
    BY <1>6
  <2>5. WorkFound'
    <3>1. \A n \in DOMAIN tried' :
            is_fullfiled(difficulty(Asked'), tried'[n]) <=> n - 1 \in ToSet(nonces')
      BY <1>3, <2>1, <2>3, <2>4
    <3> QED  BY <3>1 DEF WorkFound
  <2> QED  BY <2>2, <2>5
<1>8. CASE passes(hash)
  <2>1. nonces' = Append(nonces, nonce)
    BY <1>1, <1>8
  <2>2. /\ nonces' \in Seq(Nat) /\ Len(nonces') = m + 1 /\ nonces'[m + 1] = k
        /\ \A i \in 1 .. m : nonces'[i] = nonces[i]
        /\ m \in Nat /\ k \in Nat
    BY <1>4, <1>a, <2>1
  <2>3. SearchInv'
    <3>1. ASSUME NEW i \in 1 .. m + 1
          PROVE  /\ nonces'[i] < nonce' /\ nonces'[i] < NonceSpan
                 /\ \A j \in 1 .. i - 1 : nonces'[j] < nonces'[i]
      <4>1. \A j \in 1 .. m : nonces[j] \in Nat /\ nonces[j] < k
        BY <1>4, <1>a
      <4>2. CASE i = m + 1
        <5>1. nonces'[i] = k /\ k < NonceSpan /\ k < nonce'
          BY <1>2, <1>a, <2>2, <4>2
        <5>2. \A j \in 1 .. i - 1 : nonces'[j] < k
          BY <2>2, <4>1, <4>2
        <5> QED  BY <5>1, <5>2
      <4>3. CASE i \in 1 .. m
        <5>1. /\ nonces'[i] = nonces[i] /\ nonces[i] < k /\ nonces[i] < NonceSpan
              /\ nonces[i] \in Nat /\ nonce' = k + 1
          BY <1>2, <1>4, <1>a, <2>2, <4>1, <4>3
        <5>2. \A j \in 1 .. i - 1 : nonces'[j] = nonces[j] /\ nonces[j] < nonces[i]
          BY <1>4, <1>a, <2>2, <4>3
        <5> QED  BY <2>2, <5>1, <5>2
      <4> QED  BY <2>2, <4>2, <4>3
    <3> QED  BY <1>2, <1>4, <1>6, <1>a, <2>2, <3>1 DEF SearchInv
  <2>4. ASSUME NEW n \in 1 .. k + 1
        PROVE  passes(tried'[n]) <=> \E i \in 1 .. m + 1 : nonces'[i] = n - 1
    <3>1. CASE n = k + 1
      <4>1. nonces'[m + 1] = n - 1 /\ m + 1 \in 1 .. m + 1
        BY <2>2, <3>1
      <4>2. tried'[n] = hash
        BY <1>6, <3>1
      <4> QED  BY <1>8, <4>1, <4>2
    <3>2. CASE n \in 1 .. k
      <4>1. tried'[n] = tried[n] /\ n \in 1 .. Len(tried)
        BY <1>4, <1>6, <1>a, <3>2
      <4>2. n - 1 \in ToSet(nonces) <=> \E i \in 1 .. m : nonces[i] = n - 1
        BY <1>4, <1>a DEF ToSet
      <4>3. (\E i \in 1 .. m : nonces[i] = n - 1) <=> \E i \in 1 .. m + 1 : nonces'[i] = n - 1
        <5>1. n - 1 # k
          BY <2>2, <3>2
        <5> QED  BY <2>2, <5>1
      <4> QED  BY <1>5, <4>1, <4>2, <4>3
    <3> QED  BY <2>2, <3>1, <3>2
  <2>5. DOMAIN tried' = 1 .. k + 1 /\ DOMAIN nonces' = 1 .. m + 1
    BY <1>6, <2>2
  <2>6. WorkFound'
    <3>1. ASSUME NEW n \in DOMAIN tried'
          PROVE  is_fullfiled(difficulty(Asked'), tried'[n]) <=> n - 1 \in ToSet(nonces')
      <4>1. n - 1 \in ToSet(nonces') <=> \E i \in 1 .. m + 1 : nonces'[i] = n - 1
        BY <2>5 DEF ToSet
      <4> QED  BY <1>3, <2>4, <2>5, <4>1
    <3> QED  BY <3>1 DEF WorkFound
  <2> QED  BY <2>3, <2>6
<1> QED  BY <1>7, <1>8

(* The search keeps its book at every step of the caller.                   *)
THEOREM SearchIsHonest == TxSpec => [](SearchInv /\ WorkFound)
<1>1. TxInit => SearchInv /\ WorkFound
  BY DEF TxInit, PowInit, SearchInv, WorkFound
<1>2. (SearchInv /\ WorkFound) /\ [TxNext]_allVars => (SearchInv /\ WorkFound)'
  <2> SUFFICES ASSUME SearchInv, WorkFound, [TxNext]_allVars PROVE SearchInv' /\ WorkFound'
    OBVIOUS
  <2>1. CASE Work
    BY <2>1, SearchStep
  <2>2. CASE Show
    BY <2>2 DEF Show, SearchInv, WorkFound
  <2>3. CASE Sign
    <3>1. /\ stage = "sign" /\ stage' = "work"
          /\ nonce' = nonce /\ nonces' = nonces /\ tried' = tried
      BY <2>3 DEF Sign, powVars
    <3>2. tried = <<>>
      BY <3>1 DEF SearchInv
    <3> QED  BY <3>1, <3>2 DEF SearchInv, WorkFound
  <2>4. CASE ~ Work /\ ~ Show /\ ~ Sign
    <3>1. /\ nonce' = nonce /\ nonces' = nonces /\ tried' = tried
          /\ \/ /\ stage' = stage /\ txn' = txn /\ signer' = signer
             \/ /\ stage' # "work"
                /\ (stage' \in {"load", "compose", "arguments", "sign"} =>
                      stage \in {"load", "compose", "arguments", "sign"})
      BY <2>4 DEF TxNext, allVars, txVars, powVars, Load, Accept, Refuse, Arguments, Serialize,
                  NotSigned, DecodeNothing, DecodeInput, ReadBack, Direct
    <3>2. CASE stage' = stage /\ txn' = txn /\ signer' = signer
      <4>1. Asked' = Asked
        BY <3>2 DEF Asked, Size, SignedBytes
      <4> QED  BY <3>1, <3>2, <4>1 DEF SearchInv, WorkFound
    <3>3. CASE stage' # "work" /\ (stage' \in {"load", "compose", "arguments", "sign"} =>
                                     stage \in {"load", "compose", "arguments", "sign"})
      BY <3>1, <3>3 DEF SearchInv, WorkFound
    <3> QED  BY <3>1, <3>2, <3>3
  <2> QED  BY <2>1, <2>2, <2>3, <2>4
<1> QED  BY <1>1, <1>2, PTL DEF TxSpec

-----------------------------------------------------------------------------
(* Numbers and powers of two.                                               *)

(* Of larger numbers the products are larger.                               *)
LEMMA ProductGrows ==
  ASSUME NEW a \in Nat, NEW b \in Nat, NEW c \in Nat
  PROVE  /\ a * c \in Nat
         /\ a <= b => a * c <= b * c
         /\ a < b /\ c # 0 => a * c < b * c
<1>1. a * c \in Nat
  OBVIOUS
<1>2. ASSUME a <= b PROVE b * c = a * c + (b - a) * c /\ (b - a) * c \in Nat
  <2>1. PICK k \in Nat : k = b - a
    BY <1>2
  <2>2. b = a + k
    BY <2>1
  <2>3. (a + k) * c = a * c + k * c /\ k * c \in Nat
    OBVIOUS
  <2> QED  BY <2>1, <2>2, <2>3
<1>3. ASSUME a < b, c # 0 PROVE (b - a) * c >= c
  <2>1. PICK k \in Nat : b - a = k + 1
    <3>1. b - a - 1 \in Nat /\ b - a = (b - a - 1) + 1
      BY <1>3
    <3> QED  BY <3>1
  <2>2. (k + 1) * c = k * c + c /\ k * c \in Nat
    OBVIOUS
  <2> QED  BY <2>1, <2>2
<1>4. ASSUME a <= b PROVE a * c <= b * c
  <2>1. PICK x \in Nat : x = (b - a) * c
    BY <1>2, <1>4
  <2>2. b * c = a * c + x
    BY <1>2, <1>4, <2>1
  <2> QED  BY <1>1, <2>2
<1>5. ASSUME a < b, c # 0 PROVE a * c < b * c
  <2>1. PICK x \in Nat : x = (b - a) * c
    BY <1>2, <1>5
  <2>2. b * c = a * c + x /\ x >= c
    BY <1>2, <1>3, <1>5, <2>1
  <2> QED  BY <1>1, <1>5, <2>2
<1> QED  BY <1>1, <1>4, <1>5

(* A quotient is below m if the number is below m divisors.                 *)
LEMMA QuotientBelow ==
  ASSUME NEW n \in Nat, NEW b \in Nat \ {0}, NEW m \in Nat
  PROVE  n \div b < m <=> n < m * b
<1>1. n \div b \in Nat /\ n % b \in 0 .. b - 1 /\ n = b * (n \div b) + (n % b)
  <2>1. n \in Int
    OBVIOUS
  <2>2. n \div b \in Nat
    BY DivNat
  <2> QED  BY <2>1, <2>2, DivMod
<1>2. PICK q \in Nat, r \in 0 .. b - 1 : q = n \div b /\ n = b * q + r
  BY <1>1
<1>3. b * q = q * b /\ q * b \in Nat /\ m * b \in Nat
  BY <1>2
<1>4. ASSUME q < m PROVE n < m * b
  <2>1. (q + 1) * b <= m * b
    BY <1>4, ProductGrows
  <2>2. (q + 1) * b = q * b + b
    OBVIOUS
  <2> QED  BY <1>2, <1>3, <2>1, <2>2
<1>5. ASSUME m <= q PROVE m * b <= n
  <2>1. m * b <= q * b
    BY <1>5, ProductGrows
  <2> QED  BY <1>2, <1>3, <2>1
<1> QED  BY <1>2, <1>3, <1>4, <1>5

(* Two divisions are one by the product.                                    *)
LEMMA DivDiv ==
  ASSUME NEW n \in Nat, NEW a \in Nat \ {0}, NEW b \in Nat \ {0}
  PROVE  (n \div a) \div b = n \div (a * b)
<1> DEFINE q == n \div a
           p == q \div b
<1>1. q \in Nat /\ p \in Nat /\ a * b \in Nat \ {0}
  <2>1. q \in Nat
    BY DivNat
  <2>2. p \in Nat
    <3> HIDE DEF q
    <3> QED  BY <2>1, DivNat
  <2> QED  BY <2>1, <2>2
<1>2. \A m \in Nat : p < m <=> n < m * (a * b)
  <2> SUFFICES ASSUME NEW m \in Nat PROVE p < m <=> n < m * (a * b)
    OBVIOUS
  <2>1. p < m <=> q < m * b
    <3> HIDE DEF q
    <3> QED  BY <1>1, QuotientBelow DEF p
  <2>2. PICK x \in Nat : x = m * b
    OBVIOUS
  <2>3. q < x <=> n < x * a
    BY QuotientBelow
  <2>4. x * a = m * (a * b)
    BY <2>2
  <2> HIDE DEF p, q
  <2> QED  BY <2>1, <2>2, <2>3, <2>4
<1>3. PICK c \in Nat \ {0} : c = a * b
  BY <1>1
<1>4. PICK z \in Nat : z = n \div c
  BY DivNat
<1>5. \A m \in Nat : z < m <=> n < m * c
  BY <1>4, QuotientBelow
<1> HIDE DEF p, q
<1>6. \A m \in Nat : p < m <=> z < m
  BY <1>2, <1>3, <1>5
<1>7. p < p + 1 /\ p + 1 \in Nat /\ z < z + 1 /\ z + 1 \in Nat
  BY <1>1
<1>8. z < p + 1 /\ p < z + 1
  BY <1>6, <1>7
<1>9. p = z
  BY <1>1, <1>8
<1> QED  BY <1>3, <1>4, <1>9 DEF p, q

-----------------------------------------------------------------------------
(* Powers of two.                                                           *)

(* Power goes through a run of doublings.                                   *)
LEMMA PowerRun ==
  \E F \in [Nat -> Nat] :
    /\ F[0] = 1
    /\ \A i \in Nat : F[i + 1] = 2 * F[i]
    /\ \A n \in Nat : Power(n) = F[n]
<1> DEFINE step == [i \in Nat |-> [x \in Nat |-> 2 * x]]
<1>1. step \in [Nat -> [Nat -> Nat]]
  OBVIOUS
<1>2. PICK F \in [Nat -> Nat] : F[0] = 1 /\ \A i \in Nat : F[i + 1] = step[i][F[i]]
  <2> HIDE DEF step
  <2>1. \E f : Iterates(Nat, 1, step, f)
    <3>1. 1 \in Nat
      OBVIOUS
    <3> QED  BY <1>1, <3>1, Iterate, Zenon
  <2> QED  BY <2>1 DEF Iterates
<1>3. \A i \in Nat : F[i + 1] = 2 * F[i]
  BY <1>2
<1>4. ASSUME NEW n \in Nat PROVE Power(n) = F[n]
  <2> DEFINE Twice(f) == [i \in 0 .. n |-> IF i = 0 THEN 1 ELSE 2 * f[i - 1]]
             twice == CHOOSE f : f = Twice(f)
             g == [i \in 0 .. n |-> F[i]]
  <2>1. g = Twice(g)
    <3>1. ASSUME NEW i \in 0 .. n PROVE g[i] = IF i = 0 THEN 1 ELSE 2 * g[i - 1]
      <4>1. CASE i = 0
        BY <1>2, <4>1
      <4>2. CASE i # 0
        <5>1. i - 1 \in Nat /\ i - 1 \in 0 .. n /\ (i - 1) + 1 = i
          BY <4>2
        <5>2. F[(i - 1) + 1] = 2 * F[i - 1]
          BY <1>3, <5>1
        <5> QED  BY <4>2, <5>1, <5>2
      <4> QED  BY <4>1, <4>2
    <3>2. DOMAIN g = 0 .. n /\ g = [i \in 0 .. n |-> g[i]]
      OBVIOUS
    <3> HIDE DEF g
    <3> QED  BY <3>1, <3>2
  <2>2. twice = Twice(twice)
    <3> HIDE DEF g
    <3> QED  BY <2>1, Zenon
  <2>3. Power(n) = twice[n]
    BY Zenon DEF Power
  <2> DEFINE Good == {i \in 0 .. n : twice[i] = F[i]}
  <2>4. \A i \in 0 .. n : twice[i] = IF i = 0 THEN 1 ELSE 2 * twice[i - 1]
    <3> HIDE DEF twice
    <3> QED  BY <2>2
  <2> HIDE DEF twice
  <2>5. 0 \in Good
    BY <1>2, <2>4
  <2>6. ASSUME NEW i \in 0 .. n - 1, i \in Good PROVE i + 1 \in Good
    <3>1. twice[i + 1] = 2 * twice[i]
      BY <2>4
    <3> QED  BY <1>3, <2>6, <3>1
  <2> HIDE DEF Good
  <2>7. \A i \in 0 .. n : i \in Good
    BY <2>5, <2>6, UpTo
  <2>8. n \in 0 .. n
    OBVIOUS
  <2> QED  BY <2>3, <2>7, <2>8 DEF Good
<1> QED  BY <1>2, <1>3, <1>4

(* Power begins with one and doubles,                                       *)
LEMMA PowerStep ==
  /\ Power(0) = 1
  /\ \A n \in Nat : Power(n) \in Nat \ {0} /\ Power(n + 1) = 2 * Power(n)
<1>1. PICK F \in [Nat -> Nat] :
        /\ F[0] = 1
        /\ \A i \in Nat : F[i + 1] = 2 * F[i]
        /\ \A n \in Nat : Power(n) = F[n]
  BY PowerRun
<1> DEFINE Good == {n \in Nat : F[n] # 0}
<1>2. 0 \in Good
  BY <1>1
<1>3. ASSUME NEW i \in Nat, i \in Good PROVE i + 1 \in Good
  BY <1>1, <1>3
<1> HIDE DEF Good
<1>4. Nat \subseteq Good
  BY <1>2, <1>3, Always
<1> QED  BY <1>1, <1>4 DEF Good

(* makes products of sums,                                                  *)
LEMMA PowerSum ==
  ASSUME NEW m \in Nat, NEW n \in Nat
  PROVE  Power(m + n) = Power(m) * Power(n)
<1> DEFINE Good == {i \in Nat : Power(m + i) = Power(m) * Power(i)}
<1>1. 0 \in Good
  BY PowerStep
<1>2. ASSUME NEW i \in Nat, i \in Good PROVE i + 1 \in Good
  <2>1. Power(m + i) = Power(m) * Power(i)
    BY <1>2
  <2>2. Power((m + i) + 1) = 2 * Power(m + i) /\ Power(i + 1) = 2 * Power(i)
    BY PowerStep
  <2>3. PICK x \in Nat, y \in Nat : x = Power(m) /\ y = Power(i)
    BY PowerStep
  <2>4. 2 * (x * y) = x * (2 * y)
    OBVIOUS
  <2>5. (m + i) + 1 = m + (i + 1)
    OBVIOUS
  <2> QED  BY <2>1, <2>2, <2>3, <2>4, <2>5
<1> HIDE DEF Good
<1>3. n \in Good
  BY <1>1, <1>2, Always
<1> QED  BY <1>3 DEF Good

(* grows with its exponent,                                                 *)
LEMMA PowerGrows ==
  ASSUME NEW m \in Nat, NEW n \in Nat
  PROVE  /\ m <= n => Power(m) <= Power(n)
         /\ m < n => Power(m) < Power(n)
<1> SUFFICES ASSUME m < n PROVE Power(m) < Power(n)
  BY PowerStep
<1>1. PICK k \in Nat : n = m + (k + 1)
  <2>1. n - m - 1 \in Nat /\ n = m + ((n - m - 1) + 1)
    OBVIOUS
  <2> QED  BY <2>1
<1>2. Power(n) = Power(m) * Power(k + 1) /\ Power(k + 1) = 2 * Power(k)
  <2>1. k + 1 \in Nat
    OBVIOUS
  <2>2. Power(m + (k + 1)) = Power(m) * Power(k + 1)
    BY <2>1, PowerSum
  <2> QED  BY <1>1, <2>2, PowerStep
<1>3. PICK x \in Nat \ {0}, y \in Nat \ {0} : x = Power(m) /\ y = Power(k)
  BY PowerStep
<1>4. PICK z \in Nat : z = 2 * y /\ 1 < z
  BY <1>3
<1>5. 1 * x < z * x
  BY <1>3, <1>4, ProductGrows
<1> QED  BY <1>2, <1>3, <1>4, <1>5

(* and is 16 and 256 at four and eight.                                     *)
LEMMA SmallPowers == Power(4) = 16 /\ Power(8) = 256
<1>1. Power(0 + 1) = 2
  BY PowerStep
<1>2. Power(1 + 1) = 4
  BY <1>1, PowerStep
<1>3. Power(2 + 1) = 8
  BY <1>2, PowerStep
<1>4. Power(3 + 1) = 16
  BY <1>3, PowerStep
<1>5. Power(4 + 4) = Power(4) * Power(4)
  BY PowerSum
<1> QED  BY <1>4, <1>5

-----------------------------------------------------------------------------
(* The difficulty of the work.                                              *)

WordBits == BitsOf(WordBytes)
HalfBits == BitsOf(HalfWord)
HashBits == BitsOf(HashBytes)

(* What PowDifficulty is made of, in bits.                                  *)
LEMMA WidthsAre ==
  /\ BitsPerByte \in Nat \ {0} /\ BitsPerByte >= 4
  /\ WordBits \in Nat /\ HalfBits \in Nat /\ HashBits \in Nat
  /\ WordBits = HalfBits + HalfBits
  /\ HalfBits >= 2 * BitsPerByte
  /\ HashBits >= 2 * WordBits - 6
  /\ HalfWord \in Nat /\ WordBytes = HalfWord + HalfWord
<1>1. /\ BitsPerByte \in Nat /\ HashBytes \in Nat /\ WordBytes \in Nat
      /\ BitsPerByte >= 4 /\ WordBytes >= 4 /\ WordBytes % 2 = 0
      /\ HashBits >= 2 * WordBits - 6
  BY WordsAreWide DEF HashBits, WordBits
<1>2. HalfWord \in Nat /\ WordBytes = HalfWord + HalfWord /\ HalfWord >= 2
  BY <1>1 DEF HalfWord
<1>3. PICK b \in Nat, h \in Nat, w \in Nat, l \in Nat :
        b = BitsPerByte /\ h = HalfWord /\ w = WordBytes /\ l = HashBytes
  BY <1>1, <1>2
<1>4. WordBits = w * b /\ HalfBits = h * b /\ HashBits = l * b
  BY <1>3 DEF WordBits, HalfBits, HashBits, BitsOf
<1>5. w * b = h * b + h * b /\ w * b \in Nat /\ h * b \in Nat /\ l * b \in Nat
  <2>1. w = h + h
    BY <1>2, <1>3
  <2>2. (h + h) * b = h * b + h * b
    OBVIOUS
  <2> QED  BY <2>1, <2>2
<1>6. 2 * b <= h * b
  BY <1>2, <1>3, ProductGrows
<1> QED  BY <1>1, <1>2, <1>3, <1>4, <1>5, <1>6

(* A quotient of at least five bits is shifted by the others of a word.     *)
LEMMA ShiftIs ==
  ASSUME NEW q \in Nat, 16 <= q, q <= Power(WordBits - 1)
  PROVE  /\ Shift(q) \in Nat /\ Shift(q) + 4 < WordBits
         /\ Power(WordBits - 1) <= q * Power(Shift(q))
         /\ q * Power(Shift(q)) < Power(WordBits)
<1>1. PICK w \in Nat : w = WordBits /\ w >= 16 /\ w - 1 \in Nat /\ w - 5 \in Nat
  BY WidthsAre
<1>2. PICK full \in Nat, half \in Nat :
        full = Power(w) /\ half = Power(w - 1) /\ full = 2 * half
  <2>1. Power((w - 1) + 1) = 2 * Power(w - 1) /\ (w - 1) + 1 = w
    BY <1>1, PowerStep
  <2> QED  BY <1>1, <2>1, PowerStep
<1> DEFINE Fills(s) == half <= q * Power(s) /\ q * Power(s) < full
           Large == {s \in Nat : half <= q * Power(s)}
<1>3. \A s \in Nat : Power(s) \in Nat \ {0} /\ q * Power(s) \in Nat
  <2> SUFFICES ASSUME NEW s \in Nat PROVE Power(s) \in Nat \ {0} /\ q * Power(s) \in Nat
    OBVIOUS
  <2>1. PICK x \in Nat \ {0} : x = Power(s)
    BY PowerStep
  <2> QED  BY <2>1
<1>4. w - 5 \in Large
  <2>1. PICK x \in Nat : x = Power(w - 5)
    BY <1>1, PowerStep
  <2>2. half = 16 * x
    <3>1. Power(4 + (w - 5)) = Power(4) * Power(w - 5) /\ 4 + (w - 5) = w - 1
      BY <1>1, PowerSum
    <3> QED  BY <1>2, <2>1, <3>1, SmallPowers
  <2>3. 16 * x <= q * x
    BY ProductGrows
  <2> QED  BY <1>1, <2>1, <2>2, <2>3
<1>5. PICK s \in Large : \A y \in Large : s <= y
  <2>1. Large \in SUBSET Nat /\ Large # {}
    BY <1>4
  <2> HIDE DEF Large
  <2> QED  BY <2>1, LeastOf
<1>6. Fills(s)
  <2>1. CASE s = 0
    <3>1. q * Power(s) = q
      BY <2>1, PowerStep
    <3>2. half # 0
      BY <1>1, <1>2, PowerStep
    <3>3. q <= half
      BY <1>1, <1>2
    <3> QED  BY <1>2, <1>5, <3>1, <3>2, <3>3
  <2>2. CASE s # 0
    <3>1. s - 1 \in Nat /\ s - 1 \notin Large
      BY <1>5, <2>2
    <3>2. PICK x \in Nat : x = Power(s - 1)
      BY <3>1, PowerStep
    <3>3. Power(s) = 2 * x
      <4>1. Power((s - 1) + 1) = 2 * Power(s - 1) /\ (s - 1) + 1 = s
        BY <1>5, <3>1, PowerStep
      <4> QED  BY <3>2, <4>1
    <3>4. q * x < half /\ q * x \in Nat
      BY <3>1, <3>2
    <3>5. q * (2 * x) = 2 * (q * x)
      OBVIOUS
    <3> QED  BY <1>2, <1>5, <3>3, <3>4, <3>5
  <2> QED  BY <2>1, <2>2
<1>7. s \in 0 .. w
  BY <1>1, <1>4, <1>5
<1>8. Shift(q) \in 0 .. w /\ Fills(Shift(q))
  <2>1. \E x \in 0 .. w : Fills(x)
    BY <1>6, <1>7, Zenon
  <2>2. Shift(q) = CHOOSE x \in 0 .. w : Fills(x)
    BY <1>1, <1>2 DEF Shift, WordBits
  <2> HIDE DEF Fills
  <2> QED  BY <2>1, <2>2, Zenon
<1>9. Shift(q) + 4 < w
  <2>1. PICK t \in Nat, x \in Nat \ {0} : t = Shift(q) /\ x = Power(t)
    <3>1. Shift(q) \in Nat
      BY <1>8
    <3> QED  BY <3>1, PowerStep
  <2>2. 16 * x <= q * x
    BY ProductGrows
  <2>3. Power(4 + t) = 16 * x
    BY <2>1, PowerSum, SmallPowers
  <2>4. q * x < full /\ q * x \in Nat
    BY <1>3, <1>8, <2>1
  <2>5. Power(4 + t) < Power(w)
    BY <1>2, <2>2, <2>3, <2>4
  <2>6. 4 + t \in Nat
    OBVIOUS
  <2>7. ~ (w <= 4 + t)
    <3> SUFFICES ASSUME w <= 4 + t PROVE FALSE
      OBVIOUS
    <3>1. Power(w) <= Power(4 + t)
      BY <2>6, PowerGrows
    <3>2. Power(w) \in Nat /\ Power(4 + t) \in Nat
      BY <2>6, PowerStep
    <3> QED  BY <2>5, <3>1, <3>2
  <2> QED  BY <2>1, <2>7
<1> QED  BY <1>1, <1>2, <1>8, <1>9

(* What PowDifficulty.set makes of a denominator.  A quotient q, shifted by *)
(* s, is cut by c + HalfBits bits, and worth 2 ^ e.                         *)
SetBy(d, q, s, c, e) ==
  /\ s \in Nat /\ c \in Nat /\ c < BitsPerByte /\ e \in Nat
  /\ q = Power(WordBits - 1) \div d
  /\ Power(WordBits - 1) <= q * Power(s) /\ q * Power(s) < Power(WordBits)
  /\ e + s = HashBits - (WordBits - 1)
  /\ difficulty(d).target = (q * Power(s)) \div Power(c + HalfBits)
  /\ BitsOf(difficulty(d).bytes - HalfWord) = e + c + HalfBits
  /\ BitsOf(difficulty(d).bytes) = e + c + HalfBits + HalfBits

(* A quotient of five bits or more, and how little is lost by it.           *)
LEMMA QuotientIs ==
  ASSUME NEW n \in Nat, NEW d \in Nat \ {0}, 16 * d <= n
  PROVE  /\ n \div d \in Nat /\ 16 <= n \div d /\ n \div d <= n
         /\ d * (n \div d) <= n /\ n < d * (n \div d) + d
<1>1. n \in Int
  OBVIOUS
<1>2. n \div d \in Nat /\ n \div d <= n
  BY DivNat
<1>3. n % d \in 0 .. d - 1 /\ n = d * (n \div d) + (n % d)
  BY <1>1, DivMod
<1>4. ~ (n \div d < 16)
  BY QuotientBelow
<1>5. PICK q \in Nat, r \in 0 .. d - 1 : q = n \div d /\ n = d * q + r
  BY <1>2, <1>3
<1>6. d * q \in Nat
  OBVIOUS
<1> QED  BY <1>2, <1>4, <1>5, <1>6

(* Every denominator of so many bits less than a word is set that way.      *)
LEMMA DifficultyIs ==
  ASSUME NEW d \in Nat \ {0}, 16 * d <= Power(WordBits - 1)
  PROVE  \E q, s, c, e \in Nat : SetBy(d, q, s, c, e)
<1>1. PICK w \in Nat, h \in Nat, l \in Nat, b \in Nat \ {0} :
        /\ w = WordBits /\ h = HalfBits /\ l = HashBits /\ b = BitsPerByte
        /\ w = h + h /\ h >= 2 * b /\ l >= 2 * w - 6 /\ b >= 4 /\ w - 1 \in Nat
  BY WidthsAre
<1>2. PICK q \in Nat : q = Power(w - 1) \div d /\ 16 <= q /\ q <= Power(w - 1)
  BY <1>1, PowerStep, QuotientIs
<1>3. PICK s \in Nat :
        /\ s = Shift(q) /\ s + 4 < w
        /\ Power(w - 1) <= q * Power(s) /\ q * Power(s) < Power(w)
  BY <1>1, <1>2, ShiftIs
<1>4. PICK e \in Nat : e = l - (w - 1) - s
  BY <1>1, <1>3
<1>5. PICK k \in Nat, r \in 0 .. b - 1 : k = e \div b /\ r = e % b /\ e = b * k + r
  <2>1. e \in Int
    OBVIOUS
  <2> QED  BY <2>1, DivMod, DivNat
<1>6. PICK c \in Nat : c = IF r = 0 THEN 0 ELSE b - r
  BY <1>5
<1>7. PICK filled \in Nat : filled = q * Power(s)
  <2>1. PICK x \in Nat : x = Power(s)
    BY PowerStep
  <2> QED  BY <2>1
<1>8. PICK bytes : bytes = k + (IF r = 0 THEN 0 ELSE 1) + WordBytes
  OBVIOUS
<1>9. difficulty(d)
        = [target |-> (IF r = 0 THEN filled ELSE filled \div Power(b - r)) \div Power(h),
           bytes |-> bytes]
  BY <1>1, <1>2, <1>3, <1>4, <1>5, <1>7, <1>8 DEF difficulty, WordBits, HalfBits, HashBits
<1>10. difficulty(d).target = filled \div Power(c + h)
  <2>5. Power(c + h) = Power(c) * Power(h)
    BY PowerSum
  <2>1. PICK x \in Nat \ {0}, y \in Nat \ {0} : x = Power(c) /\ y = Power(h) /\ Power(c + h) = x * y
    BY <2>5, PowerStep
  <2>2. (filled \div x) \div y = filled \div (x * y)
    BY DivDiv
  <2>3. CASE r = 0
    <3>1. x = 1 /\ x * y = y
      BY <1>6, <2>1, <2>3, PowerStep
    <3> QED  BY <1>9, <2>1, <2>3, <3>1
  <2>4. CASE r # 0
    BY <1>6, <1>9, <2>1, <2>2, <2>4
  <2> QED  BY <2>3, <2>4
<1>11. BitsOf(bytes - HalfWord) = e + c + h /\ BitsOf(bytes) = e + c + h + h
  <2>1. PICK half \in Nat : half = HalfWord /\ WordBytes = half + half /\ h = half * b
    BY <1>1, WidthsAre DEF HalfBits, BitsOf
  <2>2. PICK up \in 0 .. 1 : up = (IF r = 0 THEN 0 ELSE 1)
    OBVIOUS
  <2>3. bytes = k + up + half + half /\ bytes - half = k + up + half
    BY <1>8, <2>1, <2>2
  <2>4. (k + up + half) * b = b * k + up * b + half * b
    BY <2>2
  <2>5. (k + up + half + half) * b = b * k + up * b + half * b + half * b
    BY <2>2
  <2>6. b * k + up * b = e + c
    <3>1. CASE r = 0
      <4>1. up * b = 0
        BY <2>2, <3>1
      <4> QED  BY <1>5, <1>6, <3>1, <4>1
    <3>2. CASE r # 0
      <4>1. up * b = b
        BY <2>2, <3>2
      <4>2. PICK z \in Nat : z = b * k
        OBVIOUS
      <4> QED  BY <1>5, <1>6, <3>2, <4>1, <4>2
    <3> QED  BY <3>1, <3>2
  <2>7. BitsOf(bytes - half) = (k + up + half) * b /\ BitsOf(bytes) = (k + up + half + half) * b
    BY <1>1, <2>3 DEF BitsOf
  <2> QED  BY <2>1, <2>4, <2>5, <2>6, <2>7
<1>12. difficulty(d).bytes = bytes
  BY <1>9
<1>13. c < b
  BY <1>5, <1>6
<1>14. SetBy(d, q, s, c, e)
  BY <1>1, <1>2, <1>3, <1>4, <1>7, <1>10, <1>11, <1>12, <1>13 DEF SetBy
<1> QED  BY <1>14

(* The hashes below t are those that are fine.                              *)
FineBelow(d, t) ==
  \A hash \in Nat : is_fullfiled(difficulty(d), hash) <=> hash < t

(* A quotient and a target, and the bound they make: how much is lost.      *)
LEMMA FineBelowIs ==
  ASSUME NEW d \in Nat \ {0}, NEW q \in Nat, NEW s, NEW c, NEW e, SetBy(d, q, s, c, e)
  PROVE  \E target \in Nat :
           /\ target * Power(c + HalfBits) <= q * Power(s)
           /\ q * Power(s) < target * Power(c + HalfBits) + Power(c + HalfBits)
           /\ FineBelow(d, target * Power(e + c + HalfBits))
<1>1. PICK w \in Nat, h \in Nat : w = WordBits /\ h = HalfBits /\ w = h + h
  BY WidthsAre
<1>2. s \in Nat /\ c \in Nat /\ e \in Nat
  BY DEF SetBy
<1>3. PICK cut \in Nat \ {0}, unit \in Nat \ {0}, half \in Nat \ {0} :
        cut = Power(c + h) /\ unit = Power(e + c + h) /\ half = Power(h)
  <2>1. c + h \in Nat /\ e + c + h \in Nat
    BY <1>2
  <2>2. /\ Power(c + h) \in Nat \ {0} /\ Power(e + c + h) \in Nat \ {0}
        /\ Power(h) \in Nat \ {0}
    BY <2>1, PowerStep
  <2> QED  BY <2>2
<1>4. Power(e + c + h + h) = unit * half /\ Power(w) = half * half
  <2>1. e + c + h \in Nat
    BY <1>1, <1>2
  <2> QED  BY <1>1, <1>3, <2>1, PowerSum
<1>5. PICK filled \in Nat : filled = q * Power(s)
  <2>1. PICK x \in Nat : x = Power(s)
    BY <1>2, PowerStep
  <2> QED  BY <2>1
<1>6. filled < half * half
  BY <1>1, <1>4, <1>5 DEF SetBy
<1>7. PICK target \in Nat : target = filled \div cut
  BY DivNat
<1>8. /\ difficulty(d).target = target
      /\ BitsOf(difficulty(d).bytes - HalfWord) = e + c + h
      /\ BitsOf(difficulty(d).bytes) = e + c + h + h
  BY <1>1, <1>3, <1>5, <1>7 DEF SetBy
<1>9. PICK rest \in 0 .. cut - 1 : filled = cut * target + rest
  <2>1. filled \in Int
    OBVIOUS
  <2>2. filled = cut * (filled \div cut) + (filled % cut) /\ filled % cut \in 0 .. cut - 1
    BY <2>1, DivMod
  <2> QED  BY <1>7, <2>2
<1>10. PICK kept \in Nat : kept = target * cut /\ kept <= filled /\ filled < kept + cut
  <2>1. cut * target = target * cut /\ target * cut \in Nat
    OBVIOUS
  <2> QED  BY <1>9, <2>1
<1>11. target < half
  <2> SUFFICES ASSUME half <= target PROVE FALSE
    OBVIOUS
  <2>1. half <= cut
    <3>1. h <= c + h /\ c + h \in Nat
      BY <1>2
    <3> QED  BY <1>3, <3>1, PowerGrows
  <2>2. half * half <= target * half
    BY ProductGrows
  <2>3. half * target <= cut * target
    BY <2>1, ProductGrows
  <2>4. half * target = target * half /\ cut * target = kept /\ half * half \in Nat
        /\ target * half \in Nat
    BY <1>10
  <2> QED  BY <1>6, <1>10, <2>2, <2>3, <2>4
<1>12. ASSUME NEW hash \in Nat
       PROVE  is_fullfiled(difficulty(d), hash) <=> hash < target * unit
  <2>1. PICK x \in Nat : x = hash \div unit
    BY DivNat
  <2>2. is_fullfiled(difficulty(d), hash) <=> (target > x % half /\ x \div half = 0)
    <3>1. hash \div (unit * half) = x \div half
      BY <2>1, DivDiv
    <3> QED  BY <1>3, <1>4, <1>8, <2>1, <3>1, <1>1 DEF is_fullfiled, HalfBits
  <2>3. x < target <=> hash < target * unit
    BY <2>1, QuotientBelow
  <2>4. CASE x < half
    <3>1. x % half = x /\ x \div half = 0
      <4>1. 0 \in Int /\ x \in 0 .. half - 1
        BY <2>4
      <4>2. x + half * 0 = x
        OBVIOUS
      <4> QED  BY <4>1, <4>2, DivModOf
    <3> QED  BY <2>2, <2>3, <3>1
  <2>5. CASE half <= x
    <3>1. x \div half # 0
      <4>1. ~ (x < 1 * half)
        BY <2>5
      <4>2. x \div half < 1 <=> x < 1 * half
        BY QuotientBelow
      <4> QED  BY <4>1, <4>2
    <3>2. ~ (x < target)
      BY <1>11, <2>5
    <3> QED  BY <2>2, <2>3, <3>1, <3>2
  <2> QED  BY <2>4, <2>5
<1>13. FineBelow(d, target * unit)
  BY <1>12 DEF FineBelow
<1> QED  BY <1>1, <1>3, <1>5, <1>10, <1>13

(* The bound on fine hashes is the hashes over the denominator, less an     *)
(* eighth at the most.                                                      *)
LEMMA BoundIs ==
  ASSUME NEW d \in Nat \ {0}, 16 * d <= Power(WordBits - 1)
  PROVE  \E t \in Nat :
           /\ FineBelow(d, t)
           /\ d * t <= Power(HashBits)
           /\ 225 * Power(HashBits) < 256 * (d * t)
<1>1. PICK w \in Nat, h \in Nat, l \in Nat, b \in Nat :
        /\ w = WordBits /\ h = HalfBits /\ l = HashBits /\ b = BitsPerByte
        /\ w = h + h /\ h >= 2 * b /\ l >= 2 * w - 6 /\ b >= 4 /\ w - 1 \in Nat
  BY WidthsAre
<1>2. PICK q, s, c, e \in Nat : SetBy(d, q, s, c, e)
  BY DifficultyIs
<1>3. s \in Nat /\ c \in Nat /\ c < b /\ e \in Nat /\ e + s = l - (w - 1)
  BY <1>1, <1>2 DEF SetBy
<1>4. PICK n \in Nat : n = Power(w - 1)
  BY <1>1, PowerStep
<1>5. d * q <= n /\ n < d * q + d /\ q = n \div d /\ 16 * d <= n
  <2>1. q = n \div d
    BY <1>1, <1>2, <1>4 DEF SetBy
  <2> QED  BY <1>1, <1>4, <2>1, QuotientIs
<1>6. PICK cut \in Nat \ {0}, unit \in Nat \ {0}, scale \in Nat \ {0}, up \in Nat \ {0} :
        cut = Power(c + h) /\ unit = Power(e + c + h) /\ scale = Power(e) /\ up = Power(s)
  <2>1. c + h \in Nat /\ e + c + h \in Nat
    BY <1>3
  <2>2. /\ Power(c + h) \in Nat \ {0} /\ Power(e + c + h) \in Nat \ {0}
        /\ Power(e) \in Nat \ {0} /\ Power(s) \in Nat \ {0}
    BY <1>3, <2>1, PowerStep
  <2> QED  BY <2>2
<1>7. PICK filled \in Nat : filled = q * up
  OBVIOUS
<1>8. PICK target \in Nat :
        /\ target * cut <= filled /\ filled < target * cut + cut
        /\ FineBelow(d, target * unit)
  BY <1>1, <1>2, <1>6, <1>7, FineBelowIs
<1>9. PICK kept \in Nat : kept = target * cut
  OBVIOUS
<1>10. unit = scale * cut
  <2>1. c + h \in Nat /\ e + (c + h) = e + c + h
    BY <1>3
  <2>2. Power(e + (c + h)) = Power(e) * Power(c + h)
    BY <1>3, <2>1, PowerSum
  <2> QED  BY <1>6, <2>1, <2>2
<1>11. PICK t \in Nat : t = target * unit /\ t = kept * scale
  <2>1. target * (scale * cut) = (target * cut) * scale
    OBVIOUS
  <2>2. target * unit \in Nat
    OBVIOUS
  <2> QED  BY <1>9, <1>10, <2>1, <2>2
<1>12. PICK grown \in Nat \ {0}, all \in Nat :
         grown = scale * up /\ all = n * grown /\ all = Power(l)
  <2>1. e + s \in Nat /\ (w - 1) + (e + s) = l
    BY <1>1, <1>3
  <2>2. Power(e + s) = scale * up
    BY <1>3, <1>6, PowerSum
  <2>3. Power((w - 1) + (e + s)) = Power(w - 1) * Power(e + s)
    BY <1>1, <2>1, PowerSum
  <2>4. scale * up \in Nat \ {0}
    OBVIOUS
  <2>5. n * (scale * up) \in Nat
    OBVIOUS
  <2> QED  BY <1>4, <2>1, <2>2, <2>3, <2>4, <2>5
<1>13. PICK dq \in Nat : dq = d * q /\ dq <= n /\ n < dq + d
  BY <1>5
<1>14. PICK whole \in Nat : whole = filled * scale /\ d * whole = dq * grown
  <2>1. d * ((q * up) * scale) = (d * q) * (scale * up)
    OBVIOUS
  <2>2. filled * scale \in Nat
    OBVIOUS
  <2> QED  BY <1>7, <1>12, <1>13, <2>1, <2>2
<1>15. d * t <= all
  <2>1. t <= whole
    BY <1>8, <1>9, <1>11, <1>14, ProductGrows
  <2>2. t * d <= whole * d
    BY <2>1, ProductGrows
  <2>3. dq * grown <= n * grown
    BY <1>13, ProductGrows
  <2>4. t * d = d * t /\ whole * d = d * whole /\ d * t \in Nat /\ d * whole \in Nat
    OBVIOUS
  <2> QED  BY <1>12, <1>14, <2>2, <2>3, <2>4
<1>16. 15 * filled < 16 * kept
  <2>1. 16 * cut <= n
    <3>1. 4 + (c + h) \in Nat /\ 4 + (c + h) <= w - 1 /\ c + h \in Nat
      BY <1>1, <1>3
    <3>2. Power(4 + (c + h)) = 16 * cut
      BY <1>6, <3>1, PowerSum, SmallPowers
    <3>3. Power(4 + (c + h)) <= Power(w - 1)
      BY <1>1, <3>1, PowerGrows
    <3> QED  BY <1>4, <3>2, <3>3
  <2>2. n <= filled
    BY <1>1, <1>2, <1>4, <1>6, <1>7 DEF SetBy
  <2> QED  BY <1>8, <1>9, <2>1, <2>2
<1>17. 15 * n < 16 * dq
  BY <1>5, <1>13
<1>18. 225 * all < 256 * (d * t)
  <2>1. PICK a \in Nat, z \in Nat : a = dq * grown /\ z = d * t
    OBVIOUS
  <2>2. 15 * all < 16 * a
    <3>1. PICK x \in Nat, y \in Nat : x = 15 * n /\ y = 16 * dq
      OBVIOUS
    <3>2. x * grown < y * grown
      BY <1>17, <3>1, ProductGrows
    <3>3. x * grown = 15 * all /\ y * grown = 16 * a
      BY <1>12, <2>1, <3>1
    <3> QED  BY <3>2, <3>3
  <2>3. 15 * a < 16 * z
    <3>1. PICK x \in Nat, y \in Nat, m \in Nat \ {0} :
            x = 15 * filled /\ y = 16 * kept /\ m = d * scale
      OBVIOUS
    <3>2. x * m < y * m
      BY <1>16, <3>1, ProductGrows
    <3>3. x * m = 15 * a
      <4>1. (15 * filled) * (d * scale) = 15 * (d * (filled * scale))
        OBVIOUS
      <4> QED  BY <1>14, <2>1, <3>1, <4>1
    <3>4. y * m = 16 * z
      <4>1. (16 * kept) * (d * scale) = 16 * (d * (kept * scale))
        OBVIOUS
      <4> QED  BY <1>11, <2>1, <3>1, <4>1
    <3> QED  BY <3>2, <3>3, <3>4
  <2> QED  BY <2>1, <2>2, <2>3
<1> QED  BY <1>1, <1>8, <1>11, <1>12, <1>15, <1>18

(* What the bound of a difficulty says of a hash: those that are fine are   *)
(* under it, and those clearly under it are fine.                           *)
BoundOf(d) == (Power(HashBits) - 1) \div d

(* PowDifficulty loses less than an eighth of the bound, and adds nothing.  *)
LEMMA DifficultyIsAsked ==
  ASSUME NEW d \in Nat \ {0}, 16 * d <= Power(WordBits - 1), NEW hash \in Nat
  PROVE  /\ is_fullfiled(difficulty(d), hash) => hash <= BoundOf(d)
         /\ hash <= BoundOf(d) - BoundOf(d) \div 8 => is_fullfiled(difficulty(d), hash)
<1>1. PICK all \in Nat \ {0} : all = Power(HashBits)
  BY WidthsAre, PowerStep
<1>2. PICK t \in Nat, z \in Nat :
        /\ FineBelow(d, t)
        /\ z = d * t /\ z <= all /\ 225 * all < 256 * z
  <2>1. PICK t \in Nat : /\ FineBelow(d, t)
                         /\ d * t <= Power(HashBits)
                         /\ 225 * Power(HashBits) < 256 * (d * t)
    BY BoundIs
  <2>2. d * t \in Nat
    OBVIOUS
  <2> QED  BY <1>1, <2>1, <2>2
<1>3. is_fullfiled(difficulty(d), hash) <=> hash < t
  BY <1>2 DEF FineBelow
<1>4. PICK b \in Nat, m \in Nat : b = BoundOf(d) /\ m = all - 1 /\ b = m \div d
  <2>1. all - 1 \in Nat
    OBVIOUS
  <2>2. (all - 1) \div d \in Nat
    BY <2>1, DivNat
  <2> QED  BY <1>1, <2>1, <2>2 DEF BoundOf
<1>5. \A n \in Nat : b < n <=> m < n * d
  BY <1>4, QuotientBelow
<1>6. ASSUME hash < t PROVE hash <= b
  <2> SUFFICES ASSUME b < hash PROVE FALSE
    OBVIOUS
  <2>1. m < hash * d
    BY <1>5
  <2>2. (hash + 1) * d <= t * d
    BY <1>6, ProductGrows
  <2>3. (hash + 1) * d = hash * d + d /\ t * d = z /\ hash * d \in Nat
    BY <1>2
  <2> QED  BY <1>2, <1>4, <2>1, <2>2, <2>3
<1>7. 224 * d < all
  <2>1. PICK w \in Nat : w = WordBits /\ w - 1 \in Nat /\ w - 5 \in Nat /\ w + 3 <= HashBits
    BY WidthsAre
  <2>2. PICK x \in Nat : x = Power(w - 5)
    BY <2>1, PowerStep
  <2>3. Power(w - 1) = 16 * x
    <3>1. Power(4 + (w - 5)) = Power(4) * Power(w - 5) /\ 4 + (w - 5) = w - 1
      BY <2>1, PowerSum
    <3> QED  BY <2>2, <3>1, SmallPowers
  <2>4. Power(w + 3) = 256 * x
    <3>1. Power(8 + (w - 5)) = Power(8) * Power(w - 5) /\ 8 + (w - 5) = w + 3
      BY <2>1, PowerSum
    <3> QED  BY <2>2, <3>1, SmallPowers
  <2>5. Power(w + 3) <= all
    <3>1. w + 3 \in Nat /\ HashBits \in Nat
      BY <2>1, WidthsAre
    <3> QED  BY <1>1, <2>1, <3>1, PowerGrows
  <2>6. d <= x
    BY <2>1, <2>3
  <2> QED  BY <2>4, <2>5, <2>6
<1>8. ASSUME hash <= b - b \div 8 PROVE hash < t
  <2>1. PICK p \in Nat, r \in 0 .. 7 : p = b \div 8 /\ b = 8 * p + r
    <3>1. b \in Int /\ 8 \in Nat \ {0}
      OBVIOUS
    <3>2. b \div 8 \in Nat /\ b % 8 \in 0 .. 8 - 1 /\ b = 8 * (b \div 8) + (b % 8)
      BY <3>1, DivMod, DivNat
    <3> QED  BY <3>2
  <2>2. 8 * hash <= 7 * b + 7
    BY <1>8, <2>1
  <2>3. PICK x \in Nat, y \in Nat : x = hash * d /\ y = b * d
    OBVIOUS
  <2>4. y <= m
    BY <1>5, <2>3
  <2>5. 8 * x <= 7 * y + 7 * d
    <3>1. PICK f \in Nat, g \in Nat : f = 8 * hash /\ g = 7 * b + 7
      OBVIOUS
    <3>2. f * d <= g * d
      BY <2>2, <3>1, ProductGrows
    <3>3. f * d = 8 * x
      BY <2>3, <3>1
    <3>4. g * d = 7 * y + 7 * d
      <4>1. (7 * b + 7) * d = 7 * (b * d) + 7 * d
        OBVIOUS
      <4> QED  BY <2>3, <3>1, <4>1
    <3> QED  BY <3>2, <3>3, <3>4
  <2>6. 256 * x < 225 * all
    BY <1>4, <1>7, <2>4, <2>5
  <2>7. x < z
    BY <1>2, <2>6
  <2>8. ~ (t <= hash)
    <3> SUFFICES ASSUME t <= hash PROVE FALSE
      OBVIOUS
    <3>1. t * d <= hash * d
      BY ProductGrows
    <3>2. t * d = z
      BY <1>2
    <3> QED  BY <2>3, <2>7, <3>1, <3>2
  <2> QED  BY <2>8
<1> QED  BY <1>3, <1>4, <1>6, <1>8

-----------------------------------------------------------------------------
(* The sizes of transactions.                                               *)

(* A larger transaction with a longer time to live is asked for more.       *)
LEMMA DenominatorGrows ==
  ASSUME NEW size \in Nat, NEW ttl \in Nat, NEW more \in Nat, NEW longer \in Nat,
         size <= more, ttl <= longer
  PROVE  /\ denominator(size, ttl) \in Nat \ {0}
         /\ denominator(size, ttl) <= denominator(more, longer)
         /\ denominator(more, longer) \in Nat
<1>1. PICK f \in Nat, g \in Nat, a \in Nat : f = PowTtl /\ g = PowSize /\ a = PowBase /\ a >= 3
  BY DenominatorsArePositive
<1>2. PICK x \in Nat, y \in Nat : x = ttl * f + g /\ y = longer * f + g /\ x <= y
  <2>1. ttl * f <= longer * f /\ ttl * f \in Nat /\ longer * f \in Nat
    BY ProductGrows
  <2> QED  BY <2>1
<1>3. PICK m \in Nat, n \in Nat : m = size * x /\ n = more * y /\ m <= n
  <2>1. size * x <= more * x
    BY ProductGrows
  <2>2. x * more <= y * more
    BY <1>2, ProductGrows
  <2>3. x * more = more * x /\ y * more = more * y
    OBVIOUS
  <2>4. size * x \in Nat /\ more * x \in Nat /\ more * y \in Nat
    OBVIOUS
  <2> QED  BY <2>1, <2>2, <2>3, <2>4
<1>4. denominator(size, ttl) = (a + m) \div 3 /\ denominator(more, longer) = (a + n) \div 3
  BY <1>1, <1>2, <1>3 DEF denominator
<1>5. PICK u \in Nat, v \in Nat : u = a + m /\ v = a + n /\ u <= v /\ u >= 3
  BY <1>1, <1>3
<1>6. 3 \in Nat \ {0}
  OBVIOUS
<1>7. u \div 3 \in Nat /\ v \div 3 \in Nat /\ u \div 3 <= v \div 3
  BY <1>5, <1>6, DivNat, DivGrows
<1>8. u \div 3 # 0
  BY <1>5
<1> QED  BY <1>4, <1>5, <1>7, <1>8

(* A delegatee is no longer than a name without characters can make it.     *)
LEMMA DelegateeShort ==
  ASSUME FormInv, stage = "work", form \in {t.form : t \in Trips}
  PROVE  Len(DelegateeBytes) \in 0 .. 2 * NameBytes + CrcBytes
<1>1. PICK n \in Nat \ {0}, k \in Nat \ {0} : n = NameBytes /\ k = CrcBytes
  BY AddressHasBytes
<1>2. form.delegatee.by \in {"none", "account", "name"}
  BY Zenon, TripsAreTyped
<1>3. CASE form.delegatee.by = "none"
  <2>1. DelegateeBytes = <<>>
    BY <1>3 DEF DelegateeBytes
  <2> QED  BY <1>1, <2>1
<1>4. CASE form.delegatee.by = "account"
  <2>1. DelegateeBytes = Opaque(n + k)
    BY <1>1, <1>4 DEF DelegateeBytes, AddressBytes
  <2>2. n + k \in Int /\ n + k >= 0
    OBVIOUS
  <2>3. Len(Opaque(n + k)) = n + k
    BY <2>2, OpaqueTyped
  <2> QED  BY <1>1, <2>1, <2>3
<1>5. CASE form.delegatee.by = "name"
  <2>1. NameTyped(form.delegatee.name)
    BY <1>5, DelegateeTyped DEF ByName
  <2>2. is_delegatee_name_valid(form.delegatee.name, "DAPP")
    BY <1>5 DEF FormInv, ByName
  <2>3. Len(Encoded(form.delegatee.name)) <= NameBytes
    BY <1>5, <2>2, TripsAreTyped, Zenon
  <2>4. PICK chars \in Nat : chars = Len(form.delegatee.name)
    BY <2>1 DEF NameTyped, IsList
  <2>5. PICK a \in Seq(Byte), b \in Seq(Byte), c \in Seq(Byte) :
          /\ a = Encoded(form.delegatee.name) /\ b = Opaque(n - chars) /\ c = Opaque(k)
    <3>1. n - chars \in Int /\ k \in Int
      OBVIOUS
    <3>2. Opaque(n - chars) \in Seq(Byte) /\ Opaque(k) \in Seq(Byte)
      BY <3>1, OpaqueTyped
    <3>3. Encoded(form.delegatee.name) \in Seq(Byte)
      BY <2>1, EncodedTyped
    <3> QED  BY <3>2, <3>3
  <2>6. Len(b) <= n /\ Len(c) = k /\ Len(a) <= n
    <3>1. n - chars \in Int /\ k \in Int
      OBVIOUS
    <3>2. Len(Opaque(n - chars)) = IF n - chars >= 0 THEN n - chars ELSE 0
      BY <3>1, OpaqueTyped
    <3>3. Len(Opaque(k)) = IF k >= 0 THEN k ELSE 0
      BY <3>1, OpaqueTyped
    <3> QED  BY <1>1, <2>3, <2>5, <3>2, <3>3
  <2>7. DelegateeBytes = a \o b \o c
    BY <1>1, <1>5, <2>4, <2>5, Zenon DEF DelegateeBytes, set_delegatee_from_string
  <2>8. Len(a \o b \o c) = Len(a) + Len(b) + Len(c)
    OBVIOUS
  <2> QED  BY <1>1, <2>6, <2>7, <2>8
<1> QED  BY <1>2, <1>3, <1>4, <1>5

(* What is worked for is no larger than the difficulties of PowDifficulty   *)
(* reach.                                                                   *)
LEMMA AskedFits ==
  ASSUME TxInv, stage = "work"
  PROVE  Asked \in Nat \ {0} /\ 16 * Asked <= Power(WordBits - 1)
<1>1. FormInv /\ LaidOut /\ data \in Seq(Byte)
  BY DEF TxInv, CodecInv, Typed
<1>2. form \in {t.form : t \in Trips}
  BY <1>1, TxnRead
<1>3. PICK exp : FoundAgain(txn, Complete, data, exp)
  BY <1>1, TxnRead
<1>4. Complete.delegatee = DelegateeBytes
  BY <1>2, CompleteIs
<1>5. PICK input \in Nat : input = Len(data) /\ input <= Base * Base - 1
  <2>1. PICK n \in Nat, b \in Nat \ {0} : n = Len(data) /\ b = Base
    BY <1>1, BaseIs
  <2>2. (n \div b) \div b = 0
    BY <1>3, <2>1, ShiftedByTwo DEF FoundAgain
  <2>3. n \div b < b
    <3>1. PICK q \in Nat : q = n \div b
      BY DivNat
    <3>2. q \div b < 1 <=> q < 1 * b
      BY QuotientBelow
    <3> QED  BY <2>2, <3>1, <3>2
  <2>4. n < b * b /\ b * b \in Nat
    BY <2>3, QuotientBelow
  <2> QED  BY <2>1, <2>4
<1>6. PICK who \in Nat : who = Len(DelegateeBytes) /\ who <= 2 * NameBytes + CrcBytes
  BY <1>1, <1>2, DelegateeShort, AddressHasBytes
<1>7. PICK id \in {1, 8} : id = IdBytes(Complete.id)
  BY DEF IdBytes
<1>8. Len(txn) = 28 + id + who + 2 + input
  BY <1>3, <1>4, <1>5, <1>6, <1>7 DEF FoundAgain
<1>9. PICK key \in {32, 64} : key = signer.pk.len
  <2>1. signer = owner
    BY DEF TxInv, OwnerInv
  <2>2. PICK s \in Seeds, t \in {"ED25519", "SM2"} : owner = KeyPair(s, t)
    BY DEF TxInv, OwnerInv
  <2> QED  BY <2>1, <2>2 DEF KeyPair, Bytes
<1>10. PICK more \in Nat : more = LongestTx + 1 + 64 + SIGNATURE_BYTES + 12
  <2>1. PICK b \in Nat : b = Base * Base /\ b >= 1
    <3>1. PICK c \in Nat \ {0} : c = Base
      BY BaseIs
    <3>2. c * c \in Nat \ {0}
      OBVIOUS
    <3> QED  BY <3>1, <3>2
  <2> QED  BY <2>1, AddressHasBytes DEF LongestTx, SIGNATURE_BYTES
<1>11. PICK size \in Nat : size = Size /\ size <= more
  <2>1. PICK b \in Nat, n \in Nat, k \in Nat : b = Base * Base /\ n = NameBytes /\ k = CrcBytes
    <3>1. PICK c \in Nat : c = Base
      BY BaseIs
    <3>2. c * c \in Nat
      OBVIOUS
    <3> QED  BY <3>1, <3>2, AddressHasBytes
  <2>2. more = 28 + 8 + (2 * n + k) + 2 + (b - 1) + 1 + 64 + 64 + 12
    BY <1>10, <2>1 DEF LongestTx, SIGNATURE_BYTES
  <2>3. Size = 28 + id + who + 2 + input + 1 + key + 64 + 12
    BY <1>8, <1>9 DEF Size, SignedBytes, SIGNATURE_BYTES
  <2>4. input <= b - 1 /\ who <= 2 * n + k /\ id <= 8 /\ id \in Nat /\ key <= 64 /\ key \in Nat
    BY <1>5, <1>6, <2>1
  <2>5. 28 + id + who + 2 + input + 1 + key + 64 + 12
          <= 28 + 8 + (2 * n + k) + 2 + (b - 1) + 1 + 64 + 64 + 12
    BY <2>4
  <2>6. 28 + id + who + 2 + input + 1 + key + 64 + 12 \in Nat
    BY <2>4
  <2> QED  BY <2>2, <2>3, <2>5, <2>6
<1>12. PICK ttl \in Nat : ttl = ttl_in(txn) /\ ttl <= TtlSpan /\ TtlSpan \in Nat
  <2>1. txn \in Seq(Byte)
    BY <1>3 DEF FoundAgain
  <2>2. Number(txn, 12, 2) \in Nat
    BY <2>1, NumberTyped
  <2>3. PICK n \in Int, b \in Nat \ {0} : n = Number(txn, 12, 2) /\ b = TtlSpan
    BY <2>2, BitFieldsFit
  <2>4. n % b \in 0 .. b - 1
    BY DivMod
  <2> QED  BY <2>3, <2>4 DEF ttl_in
<1>13. Asked = denominator(size, ttl)
  BY <1>11, <1>12 DEF Asked
<1>14. /\ denominator(size, ttl) \in Nat \ {0} /\ denominator(more, TtlSpan) \in Nat
       /\ denominator(size, ttl) <= denominator(more, TtlSpan)
  BY <1>11, <1>12, DenominatorGrows
<1>15. 16 * denominator(more, TtlSpan) <= Power(WordBits - 1)
  BY <1>10, DifficultiesFit DEF WordBits
<1>16. Power(WordBits - 1) \in Nat
  <2>1. WordBits - 1 \in Nat
    BY WidthsAre
  <2> QED  BY <2>1, PowerStep
<1> QED  BY <1>13, <1>14, <1>15, <1>16

(* The work that was done for a transaction is the work a node asks of its  *)
(* bytes: each nonce's hash lies under the bound of its size and of the ttl *)
(* in its header, and no nonce whose hash is clearly under it was passed    *)
(* over.                                                                    *)
THEOREM WorkIsAskedAlways ==
  ASSUME NoneIsNoReading, NestedSerializer
  PROVE  TxSpec => []WorkIsAsked
<1>1. TxInv /\ SearchInv /\ WorkFound => WorkIsAsked
  <2> SUFFICES ASSUME TxInv, SearchInv, WorkFound, stage = "work"
               PROVE  /\ \A i \in DOMAIN nonces :
                           /\ nonces[i] < NonceSpan
                           /\ tried[nonces[i] + 1] <= AskedBound
                           /\ \A j \in 1 .. i - 1 : nonces[j] < nonces[i]
                      /\ \A n \in DOMAIN tried :
                           tried[n] <= AskedBound - AskedBound \div 8 => n - 1 \in ToSet(nonces)
    BY DEF WorkIsAsked
  <2>1. \A n \in DOMAIN tried : tried[n] \in Nat
    BY HashesAreShort DEF SearchInv
  <2>2. PICK d \in Nat \ {0} : d = Asked /\ 16 * d <= Power(WordBits - 1)
    BY AskedFits
  <2>3. AskedBound = BoundOf(d)
    BY <2>2 DEF AskedBound, BoundOf, HashBits, Asked, Size, SignedBytes, denominator, ttl_in
  <2>4. ASSUME NEW hash \in Nat
        PROVE  /\ is_fullfiled(difficulty(Asked), hash) => hash <= AskedBound
               /\ hash <= AskedBound - AskedBound \div 8 => is_fullfiled(difficulty(Asked), hash)
    BY <2>2, <2>3, DifficultyIsAsked
  <2>5. ASSUME NEW i \in DOMAIN nonces
        PROVE  /\ nonces[i] < NonceSpan
               /\ tried[nonces[i] + 1] <= AskedBound
               /\ \A j \in 1 .. i - 1 : nonces[j] < nonces[i]
    <3>1. i \in 1 .. Len(nonces) /\ nonces[i] \in Nat /\ nonces[i] < nonce /\ nonce \in Nat
      BY DEF SearchInv
    <3>2. nonces[i] + 1 \in DOMAIN tried /\ (nonces[i] + 1) - 1 = nonces[i]
      BY <3>1 DEF SearchInv
    <3>3. nonces[i] \in ToSet(nonces)
      BY DEF ToSet
    <3>4. is_fullfiled(difficulty(Asked), tried[nonces[i] + 1])
      BY <3>2, <3>3 DEF WorkFound
    <3>5. tried[nonces[i] + 1] <= AskedBound
      BY <2>1, <2>4, <3>2, <3>4
    <3> QED  BY <3>1, <3>5 DEF SearchInv
  <2>6. ASSUME NEW n \in DOMAIN tried, tried[n] <= AskedBound - AskedBound \div 8
        PROVE  n - 1 \in ToSet(nonces)
    <3>1. is_fullfiled(difficulty(Asked), tried[n])
      BY <2>1, <2>4, <2>6
    <3> QED  BY <3>1 DEF WorkFound
  <2> QED  BY <2>5, <2>6
<1> QED  BY <1>1, TxInvariant, SearchIsHonest, PTL

=============================================================================
