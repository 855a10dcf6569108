-------------------------- MODULE LinkCodecProofs --------------------------
(***************************************************************************)
(* What the CRC catches, for every payload and every burst of one or two   *)
(* bytes.  One turn of the CRC loop never maps two registers to one:       *)
(* registers that differ once differ for the rest of the frame, unless the *)
(* next byte brings them together.  That the shift is linear tells which   *)
(* bytes could: none in the frame, and one in the CRC.                     *)
(***************************************************************************)
EXTENDS LinkCodec, SequenceTheorems, TLAPS

-----------------------------------------------------------------------------
(* The shift of the CRC register *)

LEMMA ShiftBitWord ==
    ASSUME NEW r \in Word PROVE ShiftBit(r) \in Word
BY DEF Word, ShiftBit, Xor, Poly

\* The lowest bit of the result tells whether the polynomial was added; the
\* other bits are then those of the argument.
LEMMA ShiftBitInjective ==
    ASSUME NEW r \in Word, NEW s \in Word, ShiftBit(r) = ShiftBit(s) PROVE r = s
<1> DEFINE up(w) == {i + 1 : i \in w \ {15}}
<1>1. \A w \in Word : 0 \notin up(w) /\ \A i \in 0 .. 14 : i \in w <=> i + 1 \in up(w)
  BY DEF Word
<1>2. \A w \in Word : 0 \in ShiftBit(w) <=> 15 \in w
  BY <1>1 DEF ShiftBit, Xor, Poly
<1>3. 15 \in r <=> 15 \in s
  BY <1>2
<1>4. up(r) = up(s)
  <2>1. CASE 15 \in r
    <3>1. Xor(up(r), Poly) = Xor(up(s), Poly)
      BY <2>1, <1>3 DEF ShiftBit
    <3>2. \A x : x \in Xor(up(r), Poly) <=> x \in Xor(up(s), Poly)
      BY <3>1
    <3>3. \A x : x \in up(r) <=> x \in up(s)
      BY <3>2 DEF Xor
    <3> QED BY <3>3
  <2>2. CASE 15 \notin r
    BY <2>2, <1>3 DEF ShiftBit
  <2> QED BY <2>1, <2>2
<1>5. \A i \in 0 .. 15 : i \in r <=> i \in s
  <2> SUFFICES ASSUME NEW i \in 0 .. 15 PROVE i \in r <=> i \in s
    OBVIOUS
  <2>1. CASE i = 15
    BY <2>1, <1>3
  <2>2. CASE i # 15
    <3>1. i \in 0 .. 14
      BY <2>2
    <3> QED BY <3>1, <1>1, <1>4
  <2> QED BY <2>1, <2>2
<1> QED BY <1>5 DEF Word

LEMMA Shift8Injective ==
    ASSUME NEW r \in Word, NEW s \in Word
    PROVE  Shift8(r) \in Word /\ (Shift8(r) = Shift8(s) => r = s)
<1>1. \A w \in Word : Shift2(w) \in Word
  BY ShiftBitWord DEF Shift2
<1>2. \A v, w \in Word : Shift2(v) = Shift2(w) => v = w
  BY ShiftBitWord, ShiftBitInjective DEF Shift2
<1>3. \A w \in Word : Shift4(w) \in Word
  BY <1>1 DEF Shift4
<1>4. \A v, w \in Word : Shift4(v) = Shift4(w) => v = w
  BY <1>1, <1>2 DEF Shift4
<1> QED BY <1>3, <1>4 DEF Shift8

\* Equal registers and different bytes, or different registers and equal bytes,
\* give different registers.
LEMMA CrcByteSeparates ==
    ASSUME NEW r \in Word, NEW s \in Word, NEW b \in Byte, NEW c \in Byte
    PROVE  /\ CrcByte(r, b) \in Word
           /\ r = s /\ b # c => CrcByte(r, b) # CrcByte(s, c)
           /\ r # s /\ b = c => CrcByte(r, b) # CrcByte(s, c)
<1> DEFINE in(x) == {i + 8 : i \in x}
<1>0. in(b) \subseteq 0 .. 15 /\ in(c) \subseteq 0 .. 15
  BY DEF Byte
<1>1. Xor(r, in(b)) \in Word /\ Xor(s, in(c)) \in Word
  <2> HIDE DEF in
  <2> QED BY <1>0 DEF Word, Xor
<1>2. ASSUME r = s, Xor(r, in(b)) = Xor(s, in(c)) PROVE b = c
  <2>1. \A x : x \in Xor(r, in(b)) <=> x \in Xor(r, in(c))
    BY <1>2
  <2>2. \A x : x \in in(b) <=> x \in in(c)
    BY <2>1 DEF Xor
  <2>3. \A i \in 0 .. 7 : (i \in b <=> i + 8 \in in(b)) /\ (i \in c <=> i + 8 \in in(c))
    BY DEF Byte
  <2>4. \A i \in 0 .. 7 : i \in b <=> i \in c
    BY <2>2, <2>3
  <2> QED BY <2>4 DEF Byte
<1>3. ASSUME b = c, Xor(r, in(b)) = Xor(s, in(c)) PROVE r = s
  <2>1. \A x : x \in Xor(r, in(b)) <=> x \in Xor(s, in(b))
    BY <1>3
  <2>2. \A x : x \in r <=> x \in s
    BY <2>1 DEF Xor
  <2> QED BY <2>2
<1>4. /\ Shift8(Xor(r, in(b))) \in Word
      /\ Shift8(Xor(r, in(b))) = Shift8(Xor(s, in(c))) => Xor(r, in(b)) = Xor(s, in(c))
  BY <1>1, Shift8Injective
<1> QED BY <1>2, <1>3, <1>4 DEF CrcByte

-----------------------------------------------------------------------------
(* What two registers differ in *)

Up(b) == {i + 8 : i \in b}

LEMMA ShiftBitLinear ==
    ASSUME NEW v \in Word, NEW w \in Word
    PROVE  ShiftBit(Xor(v, w)) = Xor(ShiftBit(v), ShiftBit(w))
<1> DEFINE up(x) == {i + 1 : i \in x \ {15}}
<1>1. up(Xor(v, w)) = Xor(up(v), up(w))
  <2>1. \A x \in Word : \A j : j \in up(x) <=> j \in 1 .. 15 /\ j - 1 \in x
    BY DEF Word
  <2>2. Xor(v, w) \in Word
    BY DEF Word, Xor
  <2>3. \A j : j \in up(Xor(v, w)) <=> j \in Xor(up(v), up(w))
    <3> HIDE DEF up
    <3> QED BY <2>1, <2>2 DEF Xor
  <2> HIDE DEF up
  <2> QED BY <2>3
<1>2. \A x : ShiftBit(x) = IF 15 \in x THEN Xor(up(x), Poly) ELSE up(x)
  BY DEF ShiftBit
<1>3. 15 \in Xor(v, w) <=> ~(15 \in v <=> 15 \in w)
  BY DEF Xor
<1> HIDE DEF up
<1> QED BY <1>1, <1>2, <1>3 DEF Xor

LEMMA Shift8Linear ==
    ASSUME NEW v \in Word, NEW w \in Word
    PROVE  Shift8(Xor(v, w)) = Xor(Shift8(v), Shift8(w))
<1>1. \A x, y \in Word : Xor(x, y) \in Word
  BY DEF Word, Xor
<1>2. \A x, y \in Word : Shift2(x) \in Word /\ Shift2(Xor(x, y)) = Xor(Shift2(x), Shift2(y))
  BY <1>1, ShiftBitWord, ShiftBitLinear DEF Shift2
<1>3. \A x, y \in Word : Shift4(x) \in Word /\ Shift4(Xor(x, y)) = Xor(Shift4(x), Shift4(y))
  BY <1>1, <1>2 DEF Shift4
<1> QED BY <1>3 DEF Shift8

LEMMA ShiftBitBits ==
    ASSUME NEW w \in Word
    PROVE  /\ ShiftBit(w) \in Word
           /\ 0 \in ShiftBit(w) <=> 15 \in w
           /\ 5 \in ShiftBit(w) <=> ~(4 \in w <=> 15 \in w)
           /\ 12 \in ShiftBit(w) <=> ~(11 \in w <=> 15 \in w)
           /\ \A j \in (1 .. 15) \ {5, 12} : j \in ShiftBit(w) <=> j - 1 \in w
<1> DEFINE up == {i + 1 : i \in w \ {15}}
<1>1. \A j : j \in up <=> j \in 1 .. 15 /\ j - 1 \in w
  BY DEF Word
<1>2. ShiftBit(w) = IF 15 \in w THEN Xor(up, Poly) ELSE up
  BY DEF ShiftBit
<1> HIDE DEF up
<1> QED BY <1>1, <1>2, ShiftBitWord DEF Xor, Poly

\* One turn of the loop, bit by bit.
Moved(v, w) ==
    /\ (0 \in v <=> 15 \in w) /\ (1 \in v <=> 0 \in w) /\ (2 \in v <=> 1 \in w)
    /\ (3 \in v <=> 2 \in w) /\ (4 \in v <=> 3 \in w)
    /\ 5 \in v <=> ~(4 \in w <=> 15 \in w)
    /\ (6 \in v <=> 5 \in w) /\ (7 \in v <=> 6 \in w) /\ (8 \in v <=> 7 \in w)
    /\ (9 \in v <=> 8 \in w) /\ (10 \in v <=> 9 \in w) /\ (11 \in v <=> 10 \in w)
    /\ 12 \in v <=> ~(11 \in w <=> 15 \in w)
    /\ (13 \in v <=> 12 \in w) /\ (14 \in v <=> 13 \in w) /\ (15 \in v <=> 14 \in w)

\* What becomes of a difference in one byte, once the byte is through: its low
\* half is never empty, and its high half for one difference only.
LEMMA EightShifts ==
    ASSUME NEW e \in Word, \A i \in 0 .. 7 : i \notin e
    PROVE  /\ (\A i \in 0 .. 7 : i \notin Shift8(e)) => e = {}
           /\ (\A i \in 8 .. 15 : i \notin Shift8(e)) => e = {} \/ e = {8, 11, 15}
           /\ e = {8, 11, 15} => Shift8(e) = {0, 5, 7}
<1> DEFINE r1 == ShiftBit(e)   r2 == ShiftBit(r1)  r3 == ShiftBit(r2)  r4 == ShiftBit(r3)
           r5 == ShiftBit(r4)  r6 == ShiftBit(r5)  r7 == ShiftBit(r6)  r8 == ShiftBit(r7)
<1>1. \A w \in Word : ShiftBit(w) \in Word /\ Moved(ShiftBit(w), w)
  BY ShiftBitBits DEF Moved
<1>2. Shift8(e) = r8
  BY DEF Shift8, Shift4, Shift2
<1>3. /\ Moved(r1, e) /\ Moved(r2, r1) /\ Moved(r3, r2) /\ Moved(r4, r3)
      /\ Moved(r5, r4) /\ Moved(r6, r5) /\ Moved(r7, r6) /\ Moved(r8, r7) /\ r8 \in Word
  BY <1>1
<1> HIDE DEF r1, r2, r3, r4, r5, r6, r7, r8
<1>4. /\ 0 \notin e /\ 1 \notin e /\ 2 \notin e /\ 3 \notin e
      /\ 4 \notin e /\ 5 \notin e /\ 6 \notin e /\ 7 \notin e
  OBVIOUS
\* The bits of the result, in those of the argument.
<1>5. /\ (0 \in r8 <=> ~(8 \in e <=> 12 \in e)) /\ (1 \in r8 <=> ~(9 \in e <=> 13 \in e))
      /\ (2 \in r8 <=> ~(10 \in e <=> 14 \in e)) /\ (3 \in r8 <=> ~(11 \in e <=> 15 \in e))
      /\ 4 \in r8 <=> 12 \in e
      /\ 5 \in r8 <=> ~(13 \in e <=> 0 \in r8)
      /\ 6 \in r8 <=> ~(14 \in e <=> 1 \in r8)
      /\ 7 \in r8 <=> ~(15 \in e <=> 2 \in r8)
  BY <1>3, <1>4 DEF Moved
<1>6. /\ (8 \in r8 <=> 3 \in r8) /\ (9 \in r8 <=> 12 \in e)
      /\ (10 \in r8 <=> 13 \in e) /\ (11 \in r8 <=> 14 \in e)
      /\ 12 \in r8 <=> ~(15 \in e <=> 0 \in r8)
      /\ (13 \in r8 <=> 1 \in r8) /\ (14 \in r8 <=> 2 \in r8) /\ (15 \in r8 <=> 3 \in r8)
  BY <1>3, <1>4, <1>5 DEF Moved
<1>7. \A i \in e : i \in 8 .. 15
  BY DEF Word
<1>8. ASSUME \A i \in 0 .. 7 : i \notin r8 PROVE e = {}
  <2>1. \A i \in 0 .. 7 : i = 0 \/ i = 1 \/ i = 2 \/ i = 3 \/ i = 4 \/ i = 5 \/ i = 6 \/ i = 7
    OBVIOUS
  <2>2. /\ 0 \notin r8 /\ 1 \notin r8 /\ 2 \notin r8 /\ 3 \notin r8
        /\ 4 \notin r8 /\ 5 \notin r8 /\ 6 \notin r8 /\ 7 \notin r8
    BY <1>8
  <2>3. /\ 8 \notin e /\ 9 \notin e /\ 10 \notin e /\ 11 \notin e
        /\ 12 \notin e /\ 13 \notin e /\ 14 \notin e /\ 15 \notin e
    BY <1>5, <2>2
  <2> QED BY <1>7, <2>3
<1>9. ASSUME \A i \in 8 .. 15 : i \notin r8 PROVE e = {} \/ e = {8, 11, 15}
  <2>1. /\ 8 \notin r8 /\ 9 \notin r8 /\ 10 \notin r8 /\ 11 \notin r8
        /\ 12 \notin r8 /\ 13 \notin r8 /\ 14 \notin r8 /\ 15 \notin r8
    BY <1>9
  <2>2. /\ 9 \notin e /\ 10 \notin e /\ 12 \notin e /\ 13 \notin e /\ 14 \notin e
        /\ 8 \in e <=> 15 \in e
        /\ 11 \in e <=> 15 \in e
    BY <1>5, <1>6, <2>1
  <2>3. CASE 15 \in e
    <3>1. \A i : i \in e <=> i \in {8, 11, 15}
      BY <1>7, <2>2, <2>3
    <3> QED BY <3>1
  <2>4. CASE 15 \notin e
    <3>1. \A i : i \notin e
      BY <1>7, <2>2, <2>4
    <3> QED BY <3>1
  <2> QED BY <2>3, <2>4
<1>10. ASSUME e = {8, 11, 15} PROVE r8 = {0, 5, 7}
  <2>1. /\ 8 \in e /\ 11 \in e /\ 15 \in e
        /\ 9 \notin e /\ 10 \notin e /\ 12 \notin e /\ 13 \notin e /\ 14 \notin e
    BY <1>10
  <2>2. /\ 0 \in r8 /\ 5 \in r8 /\ 7 \in r8
        /\ 1 \notin r8 /\ 2 \notin r8 /\ 3 \notin r8 /\ 4 \notin r8 /\ 6 \notin r8
        /\ 8 \notin r8 /\ 9 \notin r8 /\ 10 \notin r8 /\ 11 \notin r8 /\ 12 \notin r8
        /\ 13 \notin r8 /\ 14 \notin r8 /\ 15 \notin r8
    BY <1>5, <1>6, <2>1
  <2>3. \A i \in r8 : i \in 0 .. 15
    BY <1>3 DEF Word
  <2>4. \A i : i \in r8 <=> i \in {0, 5, 7}
    BY <2>2, <2>3
  <2> QED BY <2>4
<1> QED BY <1>2, <1>8, <1>9, <1>10

-----------------------------------------------------------------------------
(* Numbers *)

LEMMA NumByteRange ==
    ASSUME NEW b \in Byte PROVE NumByte(b) \in 0 .. 255
<1>1. \A i : Bit(b, i) \in {0, 1}
  BY DEF Bit
<1> QED BY <1>1 DEF NumByte

LEMMA BitsMakeByte ==
    ASSUME NEW a0 \in {0, 1}, NEW a1 \in {0, 1}, NEW a2 \in {0, 1}, NEW a3 \in {0, 1},
           NEW a4 \in {0, 1}, NEW a5 \in {0, 1}, NEW a6 \in {0, 1}, NEW a7 \in {0, 1}
    PROVE  \E w \in Byte : NumByte(w) = a0 + 2 * a1 + 4 * a2 + 8 * a3
                                         + 16 * a4 + 32 * a5 + 64 * a6 + 128 * a7
<1> DEFINE on(a, i) == IF a = 1 THEN {i} ELSE {}
           w == on(a0, 0) \cup on(a1, 1) \cup on(a2, 2) \cup on(a3, 3)
                \cup on(a4, 4) \cup on(a5, 5) \cup on(a6, 6) \cup on(a7, 7)
<1>1. w \in Byte
  BY DEF Byte
<1>2. /\ (0 \in w <=> a0 = 1) /\ (1 \in w <=> a1 = 1) /\ (2 \in w <=> a2 = 1)
      /\ (3 \in w <=> a3 = 1) /\ (4 \in w <=> a4 = 1) /\ (5 \in w <=> a5 = 1)
      /\ (6 \in w <=> a6 = 1) /\ (7 \in w <=> a7 = 1)
  OBVIOUS
<1> HIDE DEF w
<1>3. /\ Bit(w, 0) = a0 /\ Bit(w, 1) = a1 /\ Bit(w, 2) = a2 /\ Bit(w, 3) = a3
      /\ Bit(w, 4) = a4 /\ Bit(w, 5) = a5 /\ Bit(w, 6) = a6 /\ Bit(w, 7) = a7
  BY <1>2 DEF Bit
<1> QED BY <1>1, <1>3 DEF NumByte

LEMMA ByteOfNumber ==
    ASSUME NEW n \in 0 .. 255
    PROVE  ByteOf(n) \in Byte /\ NumByte(ByteOf(n)) = n
<1> DEFINE a(m) == m % 2
<1>1. \A m \in Nat : a(m) \in {0, 1} /\ m = 2 * (m \div 2) + a(m) /\ m \div 2 \in Nat
  <2> TAKE m \in Nat
  <2>1. m % 2 \in 0 .. 1 /\ m \div 2 \in Nat
    OBVIOUS
  <2>2. m = 2 * (m \div 2) + (m % 2)
    OBVIOUS
  <2> QED BY <2>1, <2>2
<1> HIDE DEF a
<1> DEFINE h1 == n \div 2    h2 == h1 \div 2  h3 == h2 \div 2  h4 == h3 \div 2
           h5 == h4 \div 2   h6 == h5 \div 2  h7 == h6 \div 2
<1>2. h1 \in 0 .. 127 /\ n = 2 * h1 + a(n)
  BY <1>1
<1> HIDE DEF h1
<1>3. h2 \in 0 .. 63 /\ h1 = 2 * h2 + a(h1)
  BY <1>1, <1>2
<1> HIDE DEF h2
<1>4. h3 \in 0 .. 31 /\ h2 = 2 * h3 + a(h2)
  BY <1>1, <1>3
<1> HIDE DEF h3
<1>5. h4 \in 0 .. 15 /\ h3 = 2 * h4 + a(h3)
  BY <1>1, <1>4
<1> HIDE DEF h4
<1>6. h5 \in 0 .. 7 /\ h4 = 2 * h5 + a(h4)
  BY <1>1, <1>5
<1> HIDE DEF h5
<1>7. h6 \in 0 .. 3 /\ h5 = 2 * h6 + a(h5)
  BY <1>1, <1>6
<1> HIDE DEF h6
<1>8. h7 \in {0, 1} /\ h6 = 2 * h7 + a(h6)
  BY <1>1, <1>7
<1> HIDE DEF h7
<1>. /\ a(n) \in {0, 1} /\ a(h1) \in {0, 1} /\ a(h2) \in {0, 1} /\ a(h3) \in {0, 1}
     /\ a(h4) \in {0, 1} /\ a(h5) \in {0, 1} /\ a(h6) \in {0, 1} /\ h7 \in {0, 1}
  <2>1. /\ n \in Nat /\ h1 \in Nat /\ h2 \in Nat /\ h3 \in Nat
        /\ h4 \in Nat /\ h5 \in Nat /\ h6 \in Nat
    BY <1>2, <1>3, <1>4, <1>5, <1>6, <1>7
  <2> QED BY <1>1, <1>8, <2>1
<1>9. \E w \in Byte : NumByte(w) = a(n) + 2 * a(h1) + 4 * a(h2) + 8 * a(h3)
                                   + 16 * a(h4) + 32 * a(h5) + 64 * a(h6) + 128 * h7
  BY BitsMakeByte
<1>10. a(n) + 2 * a(h1) + 4 * a(h2) + 8 * a(h3)
       + 16 * a(h4) + 32 * a(h5) + 64 * a(h6) + 128 * h7 = n
  <2>1. h5 = 4 * h7 + 2 * a(h6) + a(h5)
    BY <1>7, <1>8
  <2>2. h4 = 8 * h7 + 4 * a(h6) + 2 * a(h5) + a(h4)
    BY <1>6, <2>1
  <2>3. h3 = 16 * h7 + 8 * a(h6) + 4 * a(h5) + 2 * a(h4) + a(h3)
    BY <1>5, <2>2
  <2>4. h2 = 32 * h7 + 16 * a(h6) + 8 * a(h5) + 4 * a(h4) + 2 * a(h3) + a(h2)
    BY <1>4, <2>3
  <2>5. h1 = 64 * h7 + 32 * a(h6) + 16 * a(h5) + 8 * a(h4) + 4 * a(h3) + 2 * a(h2) + a(h1)
    BY <1>3, <2>4
  <2> QED BY <1>2, <2>5
<1>11. \E w \in Byte : NumByte(w) = n
  BY <1>9, <1>10
<1> QED BY <1>11 DEF ByteOf

LEMMA HalvesOfWord ==
    ASSUME NEW v \in Word, NEW w \in Word
    PROVE  /\ LoByte(v) \in Byte /\ HiByte(v) \in Byte
           /\ LoByte(v) = LoByte(w) /\ HiByte(v) = HiByte(w) => v = w
<1>1. LoByte(v) \in Byte /\ HiByte(v) \in Byte
  BY DEF LoByte, HiByte, Byte
<1>2. ASSUME LoByte(v) = LoByte(w), HiByte(v) = HiByte(w) PROVE v = w
  <2>1. \A i \in 0 .. 7 : i \in v <=> i \in w
    BY <1>2 DEF LoByte
  <2>2. \A i \in 0 .. 7 : i + 8 \in v <=> i + 8 \in w
    BY <1>2 DEF HiByte
  <2>3. \A i \in 0 .. 15 : i \in v <=> i \in w
    <3> TAKE i \in 0 .. 15
    <3>1. CASE i \in 0 .. 7
      BY <3>1, <2>1
    <3>2. CASE i \notin 0 .. 7
      <4>1. i - 8 \in 0 .. 7 /\ i = (i - 8) + 8
        BY <3>2
      <4> QED BY <4>1, <2>2
    <3> QED BY <3>1, <3>2
  <2> QED BY <2>3 DEF Word
<1> QED BY <1>1, <1>2

-----------------------------------------------------------------------------
(* Bursts *)

\* Bytes behind the same register make registers that differ in the shifted
\* difference of the bytes.
LEMMA CrcDifference ==
    ASSUME NEW r \in Word, NEW b \in Byte, NEW c \in Byte
    PROVE  /\ Up(Xor(b, c)) \in Word /\ \A i \in 0 .. 7 : i \notin Up(Xor(b, c))
           /\ Xor(CrcByte(r, b), CrcByte(r, c)) = Shift8(Up(Xor(b, c)))
<1>1. Up(b) \in Word /\ Up(c) \in Word /\ Xor(b, c) \in Byte
  BY DEF Up, Byte, Word, Xor
<1>2. Up(Xor(b, c)) \in Word /\ \A i \in 0 .. 7 : i \notin Up(Xor(b, c))
  BY <1>1 DEF Up, Byte, Word
<1>3. Up(Xor(b, c)) = Xor(Up(b), Up(c))
  <2>1. \A x \in Byte : \A j : j \in Up(x) <=> j \in 8 .. 15 /\ j - 8 \in x
    BY DEF Up, Byte
  <2>2. \A j : j \in Up(Xor(b, c)) <=> j \in Xor(Up(b), Up(c))
    BY <1>1, <2>1 DEF Xor
  <2> QED BY <2>2
<1>4. Xor(r, Up(b)) \in Word /\ Xor(r, Up(c)) \in Word
  BY <1>1 DEF Word, Xor
<1>5. Xor(Xor(r, Up(b)), Xor(r, Up(c))) = Xor(Up(b), Up(c))
  BY DEF Xor
<1>6. CrcByte(r, b) = Shift8(Xor(r, Up(b))) /\ CrcByte(r, c) = Shift8(Xor(r, Up(c)))
  BY DEF CrcByte, Up
<1>7. Shift8(Xor(Xor(r, Up(b)), Xor(r, Up(c))))
      = Xor(Shift8(Xor(r, Up(b))), Shift8(Xor(r, Up(c))))
  BY <1>4, Shift8Linear
<1> QED BY <1>2, <1>3, <1>5, <1>6, <1>7

\* The second byte of a burst cannot undo what the first did to the register.
LEMMA BurstSeparates ==
    ASSUME NEW r \in Word, NEW b \in Byte, NEW c \in Byte, b # c,
           NEW bb \in Byte, NEW cc \in Byte
    PROVE  CrcByte(CrcByte(r, b), bb) # CrcByte(CrcByte(r, c), cc)
<1> DEFINE v == CrcByte(r, b)  w == CrcByte(r, c)
<1>1. v \in Word /\ w \in Word
  BY CrcByteSeparates
<1>2. Xor(v, w) = Shift8(Up(Xor(b, c)))
  BY CrcDifference
<1> HIDE DEF v, w
<1>3. ASSUME CrcByte(v, bb) = CrcByte(w, cc) PROVE FALSE
  <2>1. Up(bb) \in Word /\ Up(cc) \in Word
    BY DEF Up, Byte, Word
  <2>2. Xor(v, Up(bb)) \in Word /\ Xor(w, Up(cc)) \in Word
    BY <1>1, <2>1 DEF Word, Xor
  <2>3. CrcByte(v, bb) = Shift8(Xor(v, Up(bb))) /\ CrcByte(w, cc) = Shift8(Xor(w, Up(cc)))
    BY DEF CrcByte, Up
  <2>4. Xor(v, Up(bb)) = Xor(w, Up(cc))
    BY <1>3, <2>2, <2>3, Shift8Injective
  <2>5. \A i \in 0 .. 7 : i \notin Up(bb) /\ i \notin Up(cc)
    BY DEF Up, Byte
  <2>6. \A i \in 0 .. 7 : i \notin Xor(v, w)
    <3>1. \A i : i \in Xor(v, Up(bb)) <=> i \in Xor(w, Up(cc))
      BY <2>4
    <3> QED BY <2>5, <3>1 DEF Xor
  <2>7. Up(Xor(b, c)) = {}
    BY <1>2, <2>6, CrcDifference, EightShifts
  <2>8. \A i \in Xor(b, c) : i + 8 \in Up(Xor(b, c))
    BY DEF Up
  <2>9. Xor(b, c) = {}
    BY <2>7, <2>8
  <2> QED BY <2>9 DEF Xor
<1> QED BY <1>3 DEF v, w

\* Two last bytes leave registers with the same high half in one case only, and
\* then their low halves differ as `BlindSpot` says.
LEMMA BlindBurst ==
    ASSUME NEW r \in Word, NEW b \in Byte, NEW c \in Byte
    PROVE  LET v == CrcByte(r, b)  w == CrcByte(r, c)
               blind == /\ c = Xor(b, {0, 3, 7})
                        /\ LoByte(w) = Xor(LoByte(v), {0, 5, 7})
           IN /\ b # c /\ HiByte(v) = HiByte(w) => blind
              /\ c = Xor(b, {0, 3, 7}) => blind /\ HiByte(v) = HiByte(w)
<1> DEFINE v == CrcByte(r, b)  w == CrcByte(r, c)  e == Up(Xor(b, c))
<1>1. v \in Word /\ w \in Word /\ b \in Byte /\ c \in Byte
  BY CrcByteSeparates
<1>2. /\ e \in Word /\ \A i \in 0 .. 7 : i \notin e
      /\ Xor(v, w) = Shift8(e)
  BY CrcDifference
<1>3. \A i : i \in Xor(b, c) => i \in 0 .. 7 /\ i + 8 \in e
  BY <1>1 DEF Up, Xor, Byte
<1>4. \A j : j \in e => j - 8 \in Xor(b, c)
  BY <1>1 DEF Up, Xor, Byte
<1> HIDE DEF v, w, e
<1>5. e = {} => b = c
  <2> SUFFICES ASSUME e = {} PROVE b = c
    OBVIOUS
  <2>1. Xor(b, c) = {}
    BY <1>3
  <2> QED BY <2>1 DEF Xor
<1>6. e = {8, 11, 15} <=> c = Xor(b, {0, 3, 7})
  <2>1. ASSUME e = {8, 11, 15} PROVE c = Xor(b, {0, 3, 7})
    <3>1. \A i : i \in Xor(b, c) <=> i \in {0, 3, 7}
      <4>1. \A i : i \in Xor(b, c) => i \in {0, 3, 7}
        BY <1>3, <2>1
      <4>2. 8 - 8 \in Xor(b, c) /\ 11 - 8 \in Xor(b, c) /\ 15 - 8 \in Xor(b, c)
        BY <1>4, <2>1
      <4> QED BY <4>1, <4>2
    <3>2. \A i : i \in c <=> i \in Xor(b, {0, 3, 7})
      BY <3>1 DEF Xor
    <3> QED BY <3>2
  <2>2. ASSUME c = Xor(b, {0, 3, 7}) PROVE e = {8, 11, 15}
    <3>1. \A i : i \in Xor(b, c) <=> i \in {0, 3, 7}
      BY <2>2 DEF Xor
    <3>2. 0 + 8 \in e /\ 3 + 8 \in e /\ 7 + 8 \in e
      BY <1>3, <3>1
    <3>3. \A j \in e : j \in 8 .. 15 /\ j - 8 \in {0, 3, 7}
      BY <1>2, <1>4, <3>1 DEF Word
    <3>4. \A j : j \in e <=> j \in {8, 11, 15}
      BY <3>2, <3>3
    <3> QED BY <3>4
  <2> QED BY <2>1, <2>2
<1>7. ASSUME HiByte(v) = HiByte(w) PROVE e = {} \/ e = {8, 11, 15}
  <2>1. \A i \in 0 .. 7 : i + 8 \in v <=> i + 8 \in w
    BY <1>7 DEF HiByte
  <2>2. \A j \in 8 .. 15 : j \in v <=> j \in w
    <3> TAKE j \in 8 .. 15
    <3>1. j - 8 \in 0 .. 7 /\ (j - 8) + 8 = j
      OBVIOUS
    <3> QED BY <2>1, <3>1
  <2>3. \A j \in 8 .. 15 : j \notin Shift8(e)
    BY <1>2, <2>2 DEF Xor
  <2> QED BY <1>2, <2>3, EightShifts
<1>8. ASSUME e = {8, 11, 15}
      PROVE  LoByte(w) = Xor(LoByte(v), {0, 5, 7}) /\ HiByte(v) = HiByte(w)
  <2>1. \A j : j \in Xor(v, w) <=> j \in {0, 5, 7}
    BY <1>2, <1>8, EightShifts
  <2>2. \A j : j \in LoByte(w) <=> j \in Xor(LoByte(v), {0, 5, 7})
    BY <2>1 DEF LoByte, Xor
  <2>3. \A i \in 0 .. 7 : i + 8 \in v <=> i + 8 \in w
    BY <2>1 DEF Xor
  <2> QED BY <2>2, <2>3 DEF HiByte
<1> QED BY <1>5, <1>6, <1>7, <1>8 DEF v, w

-----------------------------------------------------------------------------
(* The inductive invariant *)

LengthField(f) == ReadU16(f[7], f[8])

TypeInv ==
    /\ link \in {"idle", "encode", "line", "decode", "check", "taken", "refused"}
    /\ sent \in Seq(Byte) /\ got \in Seq(Byte)
    /\ trail \in Seq(Word) /\ reg \in Word /\ k \in Nat

GoodHeader ==
    /\ HeaderSize <= Len(sent)
    /\ sent[1] = SOF /\ sent[2] = VERSION
    /\ LengthField(sent) \in 0 .. MaxPayload

\* The registers of the encoder behind its first n bytes.
TrailOver(n) ==
    /\ Len(trail) = n
    /\ trail[1] = CrcInit
    /\ \A j \in 1 .. n - 1 : trail[j + 1] = CrcByte(trail[j], sent[j + 1])

EncodeInv ==
    link = "encode" =>
        /\ GoodHeader
        /\ Len(sent) = HeaderSize + LengthField(sent)
        /\ k \in 1 .. Len(sent)
        /\ TrailOver(k)
        /\ reg = trail[k]

CrcEnd == Len(sent) - CrcSize

SentInv ==
    link \in {"line", "decode", "check", "taken", "refused"} =>
        /\ GoodHeader
        /\ Len(sent) = HeaderSize + LengthField(sent) + CrcSize
        /\ TrailOver(CrcEnd)
        /\ sent[CrcEnd + 1] = LoByte(trail[CrcEnd])
        /\ sent[CrcEnd + 2] = HiByte(trail[CrcEnd])

GotInv == link \in {"decode", "check", "taken", "refused"} => got \in Received

\* So far the two registers agree exactly if the bytes do; and where only the
\* last byte differs, the register is the one the encoder's goes to with it.
CheckInv ==
    link = "check" =>
        /\ HeaderFits
        /\ k \in 1 .. CrcEnd
        /\ reg = trail[k] <=> \A j \in 2 .. k : got[j] = sent[j]
        /\ k >= 2 /\ (\A j \in 2 .. k - 1 : got[j] = sent[j])
              => reg = CrcByte(trail[k - 1], got[k])

\* The burst the CRC is blind to passes in every frame with a payload; in one
\* without it would fall on the length.
BlindSpotPasses == link = "refused" /\ Len(sent) > HeaderSize + CrcSize => got # BlindSpot

Verdict == OnlyWholeFrames /\ WholeFramesPass /\ BlindSpotPasses

LinkInv == TypeInv /\ EncodeInv /\ SentInv /\ GotInv /\ CheckInv /\ Verdict

\* The ways a frame arrives.
LEMMA ReceivedCases ==
    ASSUME NEW g \in Received
    PROVE  \/ g = sent
           \/ \E p \in 1 .. Len(sent) - 1, e \in Byte, f \in Byte : g = Damaged(p, e, f)
           \/ \E n \in 1 .. Len(sent) : g = [i \in 1 .. n |-> sent[i]]
           \/ \E t \in Tails : g = sent \o t
<1>1. Noise \cup {{}} \subseteq Byte
  BY CodecAssumption DEF Byte
<1>2. g \in Bursts => \E p \in 1 .. Len(sent) - 1, e \in Byte, f \in Byte :
                         g = Damaged(p, e, f)
  BY <1>1 DEF Bursts
<1>3. \/ g = sent
      \/ g \in Bursts
      \/ \E n \in 1 .. Len(sent) : g = [i \in 1 .. n |-> sent[i]]
      \/ \E t \in Tails : g = sent \o t
  BY Zenon DEF Received
<1> QED BY <1>2, <1>3, Zenon

LEMMA ReceivedKept == ASSUME sent' = sent PROVE Received' = Received /\ BlindSpot' = BlindSpot
<1>1. BlindSpot' = BlindSpot
  BY Zenon DEF Damaged, BlindSpot
<1>2. Bursts' = Bursts
  BY DEF Bursts, Damaged
<1>3. Received' = Received
  BY <1>2 DEF Received
<1> QED BY <1>1, <1>3

\* A frame whose length field fits is as long as the one sent, and differs from
\* it in two neighbouring bytes at most.
LEMMA SameLength ==
    ASSUME TypeInv, SentInv, got \in Received, HeaderFits,
           link \in {"decode", "check"}
    PROVE  /\ Len(got) = Len(sent) /\ PayloadEnd = CrcEnd
           /\ \E p \in 1 .. Len(sent) - 1 :
                  \A j \in 1 .. Len(sent) : j \notin {p, p + 1} => got[j] = sent[j]
<1> USE DEF HeaderSize, CrcSize
<1>1. /\ sent \in Seq(Byte) /\ got \in Seq(Byte)
      /\ Len(sent) = 10 + LengthField(sent) /\ LengthField(sent) \in Nat
      /\ Len(sent) \in Nat /\ 10 <= Len(sent)
  <2>1. sent \in Seq(Byte) /\ got \in Seq(Byte)
    BY DEF TypeInv
  <2>2. /\ Len(sent) = 10 + LengthField(sent) /\ LengthField(sent) \in Nat
        /\ Len(sent) \in Nat
    BY <2>1 DEF SentInv, GoodHeader
  <2> QED  BY <2>1, <2>2
<1>2. /\ Len(got) = 10 + LengthField(got) /\ 10 <= Len(got)
      /\ PayloadEnd = Len(got) - 2
  <2>1. got[7] \in Byte /\ got[8] \in Byte
    BY <1>1 DEF HeaderFits
  <2>2. NumByte(got[7]) \in 0 .. 255 /\ NumByte(got[8]) \in 0 .. 255
    BY <2>1, NumByteRange
  <2>4. NumByte(got[7]) + 256 * NumByte(got[8]) \in Nat
    <3> DEFINE lo == NumByte(got[7])
               hi == NumByte(got[8])
    <3>1. lo \in 0 .. 255 /\ hi \in 0 .. 255
      BY <2>2
    <3> HIDE DEF lo, hi
    <3>2. lo + 256 * hi \in Nat
      BY <3>1
    <3> QED  BY <3>2 DEF lo, hi
  <2>5. LengthField(got) \in Nat
    BY <2>4, Zenon DEF LengthField, ReadU16
  <2>6. Len(got) = 8 + LengthField(got) + 2 /\ PayloadEnd = 8 + LengthField(got)
    BY DEF HeaderFits, PayloadEnd, LengthField
  <2> QED BY <2>5, <2>6
<1>3. CASE got = sent
  BY <1>1, <1>2, <1>3 DEF CrcEnd
<1>4. CASE \E p \in 1 .. Len(sent) - 1, e \in Byte, f \in Byte : got = Damaged(p, e, f)
  <2>1. PICK p \in 1 .. Len(sent) - 1, e \in Byte, f \in Byte : got = Damaged(p, e, f)
    BY <1>4
  <2>2. Len(got) = Len(sent)
    BY <1>1, <2>1 DEF Damaged
  <2>3. \A j \in 1 .. Len(sent) : j \notin {p, p + 1} => got[j] = sent[j]
    BY <1>1, <2>1 DEF Damaged
  <2> QED BY <1>1, <1>2, <2>2, <2>3 DEF CrcEnd
<1>5. CASE \E n \in 1 .. Len(sent) : got = [i \in 1 .. n |-> sent[i]]
  <2>1. PICK n \in 1 .. Len(sent) : got = [i \in 1 .. n |-> sent[i]]
    BY <1>5
  <2>2. Len(got) = n
    BY <1>1, <2>1
  <2>3. \A j \in 1 .. n : got[j] = sent[j]
    BY <2>1
  <2>4. got[7] = sent[7] /\ got[8] = sent[8]
    BY <1>2, <2>2, <2>3
  <2>5. LengthField(got) = LengthField(sent)
    BY <2>4 DEF LengthField
  <2> QED BY <1>1, <1>2, <2>2, <2>3, <2>5 DEF CrcEnd
<1>6. CASE \E t \in Tails : got = sent \o t
  <2>1. PICK t \in Tails : got = sent \o t
    BY <1>6
  <2>2. t \in Seq(Byte)
    BY CodecAssumption
  <2>3. \A j \in 1 .. Len(sent) : got[j] = sent[j]
    BY <1>1, <2>1, <2>2
  <2>4. 7 \in 1 .. Len(sent) /\ 8 \in 1 .. Len(sent)
    BY <1>1
  <2>5. LengthField(got) = LengthField(sent)
    BY <2>3, <2>4 DEF LengthField
  <2> QED BY <1>1, <1>2, <2>3, <2>5 DEF CrcEnd
<1> QED BY <1>3, <1>4, <1>5, <1>6, ReceivedCases

LEMMA DamagedTyped ==
    ASSUME sent \in Seq(Byte), NEW p \in 1 .. Len(sent) - 1, NEW e \in Byte, NEW f \in Byte
    PROVE  /\ Damaged(p, e, f) \in Seq(Byte) /\ Len(Damaged(p, e, f)) = Len(sent)
           /\ Damaged(p, e, f)[p] = Xor(sent[p], e)
           /\ Damaged(p, e, f)[p + 1] = Xor(sent[p + 1], f)
           /\ \A j \in 1 .. Len(sent) : j \notin {p, p + 1} => Damaged(p, e, f)[j] = sent[j]
<1>1. p \in 1 .. Len(sent) /\ p + 1 \in 1 .. Len(sent) /\ p # p + 1
  OBVIOUS
<1>2. \A b, c \in Byte : Xor(b, c) \in Byte
  BY DEF Byte, Xor
<1>3. sent[p] \in Byte /\ sent[p + 1] \in Byte
  BY <1>1
<1>4. Xor(sent[p], e) \in Byte /\ Xor(sent[p + 1], f) \in Byte
  BY <1>2, <1>3
<1> QED BY <1>1, <1>4 DEF Damaged

LEMMA BlindSpotFacts ==
    ASSUME sent \in Seq(Byte), Len(sent) > 10
    PROVE  LET n == Len(sent) - 2 IN
           /\ BlindSpot \in Seq(Byte) /\ Len(BlindSpot) = Len(sent)
           /\ BlindSpot[n] = Xor(sent[n], {0, 3, 7})
           /\ BlindSpot[n + 1] = Xor(sent[n + 1], {0, 5, 7})
           /\ \A j \in 1 .. Len(sent) : j \notin {n, n + 1} => BlindSpot[j] = sent[j]
           /\ \A j \in 1 .. 8 : BlindSpot[j] = sent[j]
<1>1. Len(sent) - 2 \in 1 .. Len(sent) - 1 /\ {0, 3, 7} \in Byte /\ {0, 5, 7} \in Byte
  BY DEF Byte
<1>2. BlindSpot = Damaged(Len(sent) - 2, {0, 3, 7}, {0, 5, 7})
  BY DEF BlindSpot, CrcSize
<1> DEFINE n == Len(sent) - 2
<1>4. \A j \in 1 .. 8 : j \in 1 .. Len(sent) /\ j \notin {n, n + 1}
  OBVIOUS
<1> HIDE DEF n
<1>3. /\ BlindSpot \in Seq(Byte) /\ Len(BlindSpot) = Len(sent)
      /\ BlindSpot[n] = Xor(sent[n], {0, 3, 7})
      /\ BlindSpot[n + 1] = Xor(sent[n + 1], {0, 5, 7})
      /\ \A j \in 1 .. Len(sent) : j \notin {n, n + 1} => BlindSpot[j] = sent[j]
  <2> DEFINE g == Damaged(n, {0, 3, 7}, {0, 5, 7})
  <2>1. n \in 1 .. Len(sent) - 1 /\ {0, 3, 7} \in Byte /\ {0, 5, 7} \in Byte
    BY <1>1 DEF n
  <2>2. /\ g \in Seq(Byte) /\ Len(g) = Len(sent)
        /\ g[n] = Xor(sent[n], {0, 3, 7}) /\ g[n + 1] = Xor(sent[n + 1], {0, 5, 7})
        /\ \A j \in 1 .. Len(sent) : j \notin {n, n + 1} => g[j] = sent[j]
    BY <2>1, DamagedTyped
  <2>3. BlindSpot = g
    BY <1>2 DEF n
  <2> QED  BY <2>2, <2>3
<1>5. \A j \in 1 .. 8 : BlindSpot[j] = sent[j]
  BY <1>3, <1>4, Zenon
<1> QED BY <1>3, <1>5, Zenon DEF n

-----------------------------------------------------------------------------
(* The steps *)

LEMMA EncodeKeepsInv ==
    ASSUME LinkInv, NEW cmd \in Commands, NEW seq \in SeqNums, NEW payload \in Payloads,
           Encode(cmd, seq, payload)
    PROVE  LinkInv'
<1> DEFINE n == Len(payload)
<1>1. /\ payload \in Seq(Byte) /\ n \in Nat /\ n \in 0 .. MaxPayload /\ n < 256 * 256
      /\ cmd \in Byte /\ seq[1] \in Byte /\ seq[2] \in Byte
  <2>1. payload \in Seq(Byte) /\ cmd \in Byte /\ seq \in Byte \X Byte
    BY CodecAssumption
  <2>2. /\ n \in Nat /\ n <= MaxPayload
        /\ MaxPayload \in Nat /\ MaxPayload < 256 * 256
    BY <2>1, CodecAssumption DEF Encode
  <2>3. n \in 0 .. MaxPayload /\ n < 256 * 256
    BY <2>2
  <2> QED BY <2>1, <2>2, <2>3
<1>2. n % 256 \in 0 .. 255 /\ n \div 256 \in 0 .. 255 /\ n = (n % 256) + 256 * (n \div 256)
  <2>1. \A m \in Nat : m < 256 * 256 =>
           m % 256 \in 0 .. 255 /\ m \div 256 \in 0 .. 255
           /\ m = (m % 256) + 256 * (m \div 256)
    OBVIOUS
  <2> HIDE DEF n
  <2> QED BY <1>1, <2>1
<1>3. /\ ByteOf(n % 256) \in Byte /\ ByteOf(n \div 256) \in Byte
      /\ ReadU16(ByteOf(n % 256), ByteOf(n \div 256)) = n
  <2> DEFINE lo == n % 256
             hi == n \div 256
  <2>1. lo \in 0 .. 255 /\ hi \in 0 .. 255 /\ n = lo + 256 * hi
    BY <1>2
  <2> HIDE DEF lo, hi, n
  <2>2. /\ ByteOf(lo) \in Byte /\ NumByte(ByteOf(lo)) = lo
        /\ ByteOf(hi) \in Byte /\ NumByte(ByteOf(hi)) = hi
    BY <2>1, ByteOfNumber, Zenon
  <2>3. ByteOf(lo) \in Byte /\ ByteOf(hi) \in Byte /\ ReadU16(ByteOf(lo), ByteOf(hi)) = n
    BY <2>1, <2>2 DEF ReadU16
  <2> QED  BY <2>3 DEF lo, hi
<1> DEFINE h == Header(cmd, seq, n)
<1>4. h \in Seq(Byte) /\ Len(h) = 8
  <2>1. SOF \in Byte /\ VERSION \in Byte /\ {} \in Byte
    BY DEF SOF, VERSION, Byte
  <2> QED BY <1>1, <1>3, <2>1 DEF Header
<1>5. h[1] = SOF /\ h[2] = VERSION /\ h[7] = ByteOf(n % 256) /\ h[8] = ByteOf(n \div 256)
  BY DEF Header
<1> HIDE DEF h
<1>6. sent' = h \o payload
  BY DEF Encode, h
<1>7. /\ sent' \in Seq(Byte) /\ Len(sent') = 8 + n
      /\ \A j \in 1 .. 8 : sent'[j] = h[j]
  <2>1. h \o payload \in Seq(Byte) /\ Len(h \o payload) = Len(h) + Len(payload)
    BY <1>1, <1>4, ConcatProperties
  <2>2. \A j \in 1 .. Len(h) + Len(payload) :
           (h \o payload)[j] = IF j <= Len(h) THEN h[j] ELSE payload[j - Len(h)]
    BY <1>1, <1>4, ConcatProperties
  <2>3. \A j \in 1 .. 8 : (h \o payload)[j] = h[j]
    <3> TAKE j \in 1 .. 8
    <3>1. j \in 1 .. Len(h) + Len(payload) /\ j <= Len(h)
      BY <1>1, <1>4
    <3> QED BY <2>2, <3>1
  <2> QED BY <1>4, <1>6, <2>1, <2>3
<1>8. LengthField(sent') = n
  BY <1>3, <1>5, <1>7 DEF LengthField
<1>9. GoodHeader'
  BY <1>1, <1>5, <1>7, <1>8 DEF GoodHeader, HeaderSize
<1>10. CrcInit \in Word /\ Len(<<CrcInit>>) = 1 /\ <<CrcInit>>[1] = CrcInit
  BY DEF CrcInit, Word
<1>11. TypeInv'
  BY <1>7, <1>10 DEF LinkInv, TypeInv, Encode
<1>12. EncodeInv'
  BY <1>1, <1>7, <1>8, <1>9, <1>10 DEF EncodeInv, TrailOver, Encode, HeaderSize
<1>13. (SentInv /\ GotInv /\ CheckInv /\ Verdict)'
  BY DEF SentInv, GotInv, CheckInv, Verdict, OnlyWholeFrames, WholeFramesPass,
     BlindSpotPasses, Encode
<1> QED BY <1>11, <1>12, <1>13 DEF LinkInv

LEMMA EncodeByteKeepsInv ==
    ASSUME LinkInv, EncodeByte PROVE LinkInv'
<1>1. /\ sent \in Seq(Byte) /\ k \in 1 .. Len(sent) - 1 /\ sent[k + 1] \in Byte
      /\ trail \in Seq(Word) /\ Len(trail) = k /\ reg = trail[k] /\ reg \in Word
  BY DEF LinkInv, TypeInv, EncodeInv, TrailOver, EncodeByte
<1>2. reg' \in Word
  BY <1>1, CrcByteSeparates DEF EncodeByte
<1>3. /\ trail' \in Seq(Word) /\ Len(trail') = k + 1 /\ trail'[k + 1] = reg'
      /\ \A j \in 1 .. k : trail'[j] = trail[j]
  BY <1>1, <1>2 DEF EncodeByte
<1>4. TypeInv'
  BY <1>2, <1>3 DEF LinkInv, TypeInv, EncodeByte
<1>5. TrailOver(k)'
  <2>1. trail'[1] = CrcInit
    BY <1>1, <1>3 DEF LinkInv, EncodeInv, TrailOver, EncodeByte
  <2>2. \A j \in 1 .. k : trail'[j + 1] = CrcByte(trail'[j], sent'[j + 1])
    <3> TAKE j \in 1 .. k
    <3>1. CASE j = k
      BY <3>1, <1>1, <1>3 DEF EncodeByte
    <3>2. CASE j # k
      <4>1. j \in 1 .. k - 1 /\ j + 1 \in 1 .. k
        BY <3>2, <1>1
      <4> QED BY <4>1, <1>3 DEF LinkInv, EncodeInv, TrailOver, EncodeByte
    <3> QED BY <3>1, <3>2
  <2>3. k' = k + 1 /\ (k + 1) - 1 = k
    BY <1>1 DEF EncodeByte
  <2>4. Len(trail') = k'
    BY <1>3, <2>3
  <2>5. \A j \in 1 .. k' - 1 : trail'[j + 1] = CrcByte(trail'[j], sent'[j + 1])
    BY <2>2, <2>3
  <2> QED BY <2>1, <2>4, <2>5 DEF TrailOver
<1>6. EncodeInv'
  BY <1>1, <1>3, <1>5 DEF LinkInv, EncodeInv, GoodHeader, TrailOver, EncodeByte
<1>7. (SentInv /\ GotInv /\ CheckInv /\ Verdict)'
  BY DEF SentInv, GotInv, CheckInv, Verdict, OnlyWholeFrames, WholeFramesPass,
     BlindSpotPasses, EncodeByte
<1> QED BY <1>4, <1>6, <1>7 DEF LinkInv

LEMMA EncodeEndsKeepsInv ==
    ASSUME LinkInv, EncodeEnds PROVE LinkInv'
<1> USE DEF HeaderSize, CrcSize
<1>1. /\ sent \in Seq(Byte) /\ k = Len(sent) /\ k \in Nat /\ 8 <= k
      /\ reg = trail[k] /\ reg \in Word
      /\ k = 8 + LengthField(sent) /\ GoodHeader /\ TrailOver(k)
  BY DEF LinkInv, TypeInv, EncodeInv, GoodHeader, EncodeEnds
<1>2. LoByte(reg) \in Byte /\ HiByte(reg) \in Byte
  BY <1>1, HalvesOfWord
<1> DEFINE lo == LoByte(reg)
<1> HIDE DEF lo
<1> DEFINE once == Append(sent, lo)
<1>3. /\ once \in Seq(Byte) /\ Len(once) = k + 1 /\ once[k + 1] = lo
      /\ \A j \in 1 .. k : once[j] = sent[j]
  <2>1. lo \in Byte
    BY <1>2 DEF lo
  <2>2. once \in Seq(Byte) /\ Len(once) = Len(sent) + 1 /\ once[Len(sent) + 1] = lo
    BY <1>1, <2>1, AppendProperties
  <2>3. \A j \in 1 .. Len(sent) : once[j] = sent[j]
    <3>1. sent \in Seq(Byte)
      BY <1>1
    <3> QED BY <2>1, <3>1, AppendProperties
  <2> QED BY <1>1, <2>2, <2>3
<1> HIDE DEF once
<1>4. /\ sent' \in Seq(Byte) /\ Len(sent') = k + 2 /\ sent'[k + 2] = HiByte(reg)
      /\ \A j \in 1 .. k + 1 : sent'[j] = once[j]
  BY <1>1, <1>2, <1>3, AppendProperties DEF EncodeEnds, once, lo
<1>5. \A j \in 1 .. k : sent'[j] = sent[j]
  BY <1>1, <1>3, <1>4
<1>6. LengthField(sent') = LengthField(sent)
  <2>1. 7 \in 1 .. k /\ 8 \in 1 .. k
    BY <1>1
  <2> QED BY <1>5, <2>1 DEF LengthField
<1>7. GoodHeader'
  <2>1. 1 \in 1 .. k /\ 2 \in 1 .. k
    BY <1>1
  <2> QED BY <1>1, <1>4, <1>5, <1>6, <2>1 DEF GoodHeader
<1>8. CrcEnd' = k
  BY <1>1, <1>4 DEF CrcEnd
<1>9. TrailOver(k)'
  <2>1. k' = k /\ trail' = trail /\ \A j \in 1 .. k - 1 : j + 1 \in 1 .. k
    BY <1>1 DEF EncodeEnds
  <2> QED BY <1>1, <1>5, <2>1 DEF TrailOver
<1>10. SentInv'
  BY <1>1, <1>3, <1>4, <1>6, <1>7, <1>8, <1>9 DEF SentInv, EncodeEnds, lo
<1>11. TypeInv'
  BY <1>4 DEF LinkInv, TypeInv, EncodeEnds
<1>12. (EncodeInv /\ GotInv /\ CheckInv /\ Verdict)'
  BY DEF EncodeInv, GotInv, CheckInv, Verdict, OnlyWholeFrames, WholeFramesPass,
     BlindSpotPasses, EncodeEnds
<1> QED BY <1>10, <1>11, <1>12 DEF LinkInv

LEMMA TransferKeepsInv ==
    ASSUME LinkInv, Transfer PROVE LinkInv'
<1>1. got' \in Seq(Byte)
  <2>1. sent \in Seq(Byte) /\ Noise \subseteq Byte /\ Tails \subseteq Seq(Byte)
    BY CodecAssumption DEF LinkInv, TypeInv
  <2>2. CASE got' = sent
    BY <2>1, <2>2
  <2>3. CASE \E p \in 1 .. Len(sent) - 1, e \in Byte, f \in Byte : got' = Damaged(p, e, f)
    BY <2>1, <2>3, DamagedTyped
  <2>4. CASE \E n \in 1 .. Len(sent) : got' = [i \in 1 .. n |-> sent[i]]
    <3>1. PICK n \in 1 .. Len(sent) : got' = [i \in 1 .. n |-> sent[i]]
      BY <2>4
    <3>2. n \in Nat /\ \A i \in 1 .. n : sent[i] \in Byte
      BY <2>1
    <3> QED BY <3>1, <3>2
  <2>5. CASE \E t \in Tails : got' = sent \o t
    BY <2>1, <2>5, ConcatProperties
  <2>6. got' \in Received
    BY DEF Transfer
  <2> QED BY <2>2, <2>3, <2>4, <2>5, <2>6, ReceivedCases
<1>2. TypeInv'
  BY <1>1 DEF LinkInv, TypeInv, Transfer
<1>3. SentInv'
  BY DEF LinkInv, SentInv, GoodHeader, TrailOver, CrcEnd, Transfer
<1>4. GotInv'
  BY ReceivedKept DEF GotInv, Transfer
<1>5. (EncodeInv /\ CheckInv /\ Verdict)'
  BY DEF EncodeInv, CheckInv, Verdict, OnlyWholeFrames, WholeFramesPass, BlindSpotPasses,
     Transfer
<1> QED BY <1>2, <1>3, <1>4, <1>5 DEF LinkInv

LEMMA DecodeHeaderKeepsInv ==
    ASSUME LinkInv, DecodeHeader PROVE LinkInv'
<1>1. TypeInv'
  BY DEF LinkInv, TypeInv, DecodeHeader, CrcInit, Word
<1>2. SentInv'
  BY DEF LinkInv, SentInv, GoodHeader, TrailOver, CrcEnd, DecodeHeader
<1>3. GotInv'
  BY ReceivedKept DEF LinkInv, GotInv, DecodeHeader
<1>4. EncodeInv'
  BY DEF EncodeInv, DecodeHeader
<1>5. TypeInv /\ SentInv /\ got \in Received /\ link = "decode"
  BY DEF LinkInv, GotInv, DecodeHeader
<1>6. CheckInv'
  <2> SUFFICES ASSUME HeaderFits PROVE CheckInv'
    BY DEF CheckInv, DecodeHeader
  <2>1. HeaderFits' /\ CrcEnd' = CrcEnd
    BY DEF HeaderFits, CrcEnd, DecodeHeader
  <2>2. 8 <= CrcEnd /\ CrcEnd \in Nat /\ trail[1] = CrcInit
    BY <1>5, CodecAssumption DEF TypeInv, SentInv, GoodHeader, TrailOver, CrcEnd,
       HeaderSize, CrcSize
  <2> QED BY <2>1, <2>2 DEF CheckInv, DecodeHeader
<1>7. Verdict'
  <2> SUFFICES ASSUME ~HeaderFits
               PROVE  got # sent /\ (Len(sent) > HeaderSize + CrcSize => got # BlindSpot)
    BY ReceivedKept
    DEF Verdict, OnlyWholeFrames, WholeFramesPass, BlindSpotPasses, DecodeHeader
  <2>1. /\ Len(sent) = HeaderSize + LengthField(sent) + CrcSize
        /\ sent[1] = SOF /\ sent[2] = VERSION
        /\ LengthField(sent) \in Nat /\ LengthField(sent) <= MaxPayload
    BY <1>5, CodecAssumption DEF SentInv, GoodHeader
  <2>2. got # sent
    BY <2>1 DEF HeaderFits, LengthField, HeaderSize, CrcSize
  <2>3. ASSUME Len(sent) > HeaderSize + CrcSize, got = BlindSpot PROVE FALSE
    <3>1. sent \in Seq(Byte) /\ Len(sent) \in Nat /\ Len(sent) > 10
      BY <1>5, <2>3 DEF TypeInv, HeaderSize, CrcSize
    <3>2. /\ Len(got) = Len(sent)
          /\ \A j \in 1 .. 8 : got[j] = sent[j]
      BY <2>3, <3>1, BlindSpotFacts
    <3> QED BY <2>1, <3>1, <3>2 DEF HeaderFits, LengthField, HeaderSize, CrcSize
  <2> QED BY <2>2, <2>3
<1> QED BY <1>1, <1>2, <1>3, <1>4, <1>6, <1>7 DEF LinkInv

LEMMA DecodeByteKeepsInv ==
    ASSUME LinkInv, DecodeByte PROVE LinkInv'
<1>1. /\ TypeInv /\ SentInv /\ got \in Received /\ HeaderFits /\ link = "check"
      /\ CheckInv
  BY DEF LinkInv, GotInv, CheckInv, DecodeByte
<1>2. /\ Len(got) = Len(sent) /\ PayloadEnd = CrcEnd
      /\ \E p \in 1 .. Len(sent) - 1 :
             \A j \in 1 .. Len(sent) : j \notin {p, p + 1} => got[j] = sent[j]
  BY <1>1, SameLength
<1>3. /\ sent \in Seq(Byte) /\ got \in Seq(Byte) /\ Len(sent) \in Nat
      /\ CrcEnd = Len(sent) - 2
      /\ k \in Nat /\ 1 <= k /\ k < CrcEnd
  BY <1>1, <1>2 DEF TypeInv, CheckInv, DecodeByte, CrcEnd, CrcSize
<1>4. /\ sent[k + 1] \in Byte /\ got[k + 1] \in Byte
      /\ trail[k] \in Word /\ trail[k + 1] = CrcByte(trail[k], sent[k + 1])
      /\ reg \in Word /\ reg' = CrcByte(reg, got[k + 1])
  <2>1. k \in 1 .. CrcEnd - 1 /\ k + 1 \in 1 .. Len(sent) /\ k + 1 \in 1 .. Len(got)
    BY <1>2, <1>3
  <2>2. TrailOver(CrcEnd)
    BY <1>1 DEF SentInv
  <2>3. trail \in Seq(Word) /\ k \in 1 .. Len(trail)
    BY <1>1, <2>1, <2>2 DEF TypeInv, TrailOver
  <2>4. trail[k + 1] = CrcByte(trail[k], sent[k + 1])
    BY <2>1, <2>2 DEF TrailOver
  <2>5. reg \in Word /\ reg' = CrcByte(reg, got[k + 1])
    BY <1>1 DEF TypeInv, DecodeByte
  <2> QED BY <1>3, <2>1, <2>3, <2>4, <2>5
<1>5. reg' \in Word
  BY <1>4, CrcByteSeparates
<1>6. reg' = trail[k + 1] <=> \A j \in 2 .. k + 1 : got[j] = sent[j]
  <2>1. reg = trail[k] <=> \A j \in 2 .. k : got[j] = sent[j]
    BY <1>1 DEF CheckInv
  <2>0. /\ \A j \in 2 .. k : j \in 2 .. k + 1
        /\ k + 1 \in 2 .. k + 1
        /\ \A j \in 2 .. k + 1 : j \in 2 .. k \/ j = k + 1
    BY <1>3
  <2>2. (\A j \in 2 .. k + 1 : got[j] = sent[j])
        <=> (\A j \in 2 .. k : got[j] = sent[j]) /\ got[k + 1] = sent[k + 1]
    BY <2>0, Zenon
  <2>3. CASE reg = trail[k]
    BY <2>1, <2>2, <2>3, <1>4, CrcByteSeparates
  <2>4. CASE reg # trail[k]
    <3>1. PICK j \in 2 .. k : got[j] # sent[j]
      BY <2>1, <2>4
    <3>2. CASE \A i \in 2 .. k - 1 : got[i] = sent[i]
      <4>1. j = k /\ k >= 2
        BY <1>3, <3>1, <3>2
      <4>2. reg = CrcByte(trail[k - 1], got[k])
        BY <1>1, <3>2, <4>1 DEF CheckInv
      <4>3. /\ trail[k - 1] \in Word /\ trail[k] = CrcByte(trail[k - 1], sent[k])
            /\ sent[k] \in Byte /\ got[k] \in Byte
        <5>1. /\ k - 1 \in 1 .. CrcEnd - 1 /\ (k - 1) + 1 = k
              /\ k \in 1 .. Len(sent) /\ k \in 1 .. Len(got)
          BY <1>2, <1>3, <4>1
        <5>2. TrailOver(CrcEnd)
          BY <1>1 DEF SentInv
        <5>3. trail \in Seq(Word) /\ k - 1 \in 1 .. Len(trail)
          BY <1>1, <1>3, <5>1, <5>2 DEF TypeInv, TrailOver
        <5> QED BY <1>3, <5>1, <5>2, <5>3 DEF TrailOver
      <4>4. CrcByte(reg, got[k + 1]) # CrcByte(trail[k], sent[k + 1])
        BY <1>4, <3>1, <4>1, <4>2, <4>3, BurstSeparates
      <4> QED BY <1>4, <2>2, <3>1, <4>4
    <3>3. CASE \E i \in 2 .. k - 1 : got[i] # sent[i]
      <4>1. got[k + 1] = sent[k + 1]
        <5>1. PICK i \in 2 .. k - 1 : got[i] # sent[i]
          BY <3>3
        <5>2. i \in 1 .. Len(sent) /\ k + 1 \in 1 .. Len(sent) /\ i < k
          BY <1>3
        <5> QED BY <1>2, <1>3, <5>1, <5>2
      <4>2. reg' # trail[k + 1]
        BY <1>4, <2>4, <4>1, CrcByteSeparates
      <4> QED BY <2>2, <3>1, <4>2
    <3> QED BY <3>2, <3>3
  <2> QED BY <2>3, <2>4
<1>7. CheckInv'
  <2>1. HeaderFits' /\ CrcEnd' = CrcEnd /\ k' = k + 1 /\ k + 1 \in 1 .. CrcEnd
    BY <1>1, <1>3 DEF HeaderFits, CrcEnd, DecodeByte
  <2>2. (\A j \in 2 .. k : got[j] = sent[j]) => reg' = CrcByte(trail[k], got[k + 1])
    BY <1>1, <1>4 DEF CheckInv
  <2>3. (k + 1) - 1 = k
    BY <1>3
  <2> QED BY <1>6, <2>1, <2>2, <2>3 DEF CheckInv, DecodeByte
<1>8. TypeInv'
  BY <1>1, <1>5 DEF TypeInv, DecodeByte
<1>9. SentInv'
  BY DEF LinkInv, SentInv, GoodHeader, TrailOver, CrcEnd, DecodeByte
<1>10. GotInv'
  BY ReceivedKept DEF LinkInv, GotInv, DecodeByte
<1>11. (EncodeInv /\ Verdict)'
  BY DEF EncodeInv, Verdict, OnlyWholeFrames, WholeFramesPass, BlindSpotPasses, DecodeByte
<1> QED BY <1>7, <1>8, <1>9, <1>10, <1>11 DEF LinkInv

LEMMA DecodeEndsKeepsInv ==
    ASSUME LinkInv, DecodeEnds PROVE LinkInv'
<1>1. /\ TypeInv /\ SentInv /\ got \in Received /\ HeaderFits /\ link = "check"
      /\ CheckInv
  BY DEF LinkInv, GotInv, CheckInv, DecodeEnds
<1>2. /\ Len(got) = Len(sent) /\ PayloadEnd = CrcEnd
      /\ \E p \in 1 .. Len(sent) - 1 :
             \A j \in 1 .. Len(sent) : j \notin {p, p + 1} => got[j] = sent[j]
  BY <1>1, SameLength
<1> DEFINE n == CrcEnd
<1>3. /\ sent \in Seq(Byte) /\ got \in Seq(Byte) /\ Len(sent) \in Nat
      /\ Len(sent) = n + 2 /\ n \in Nat /\ 8 <= n /\ k = n
      /\ sent[1] = got[1]
      /\ sent[n + 1] = LoByte(trail[n]) /\ sent[n + 2] = HiByte(trail[n])
  <2>1. sent[1] = got[1]
    BY <1>1 DEF SentInv, GoodHeader, HeaderFits
  <2>2. n \in Nat /\ 8 <= n /\ Len(sent) = n + 2 /\ Len(sent) \in Nat
    BY <1>1, CodecAssumption DEF TypeInv, SentInv, GoodHeader, CrcEnd, HeaderSize, CrcSize
  <2>3. k = n
    BY <1>2 DEF DecodeEnds
  <2>4. sent[n + 1] = LoByte(trail[n]) /\ sent[n + 2] = HiByte(trail[n])
    BY <1>1 DEF SentInv
  <2> QED BY <1>1, <2>1, <2>2, <2>3, <2>4 DEF TypeInv
<1>4. reg \in Word /\ trail[n] \in Word
  <2>1. n \in 1 .. Len(trail)
    BY <1>1, <1>3 DEF SentInv, TrailOver
  <2> QED BY <1>1, <2>1 DEF TypeInv
<1>5. reg = trail[n] <=> \A j \in 2 .. n : got[j] = sent[j]
  BY <1>1, <1>3 DEF CheckInv
<1>6. link' = IF got[n + 1] = LoByte(reg) /\ got[n + 2] = HiByte(reg)
                 THEN "taken" ELSE "refused"
  BY <1>2, <1>3 DEF DecodeEnds
<1> HIDE DEF n
\* The last byte behind which the registers can differ, and those before it.
<1>7. /\ trail[n - 1] \in Word /\ trail[n] = CrcByte(trail[n - 1], sent[n])
      /\ sent[n] \in Byte /\ got[n] \in Byte /\ sent[n + 1] \in Byte
      /\ (\A j \in 2 .. n - 1 : got[j] = sent[j]) => reg = CrcByte(trail[n - 1], got[n])
  <2>1. TrailOver(n) /\ trail \in Seq(Word)
    BY <1>1 DEF SentInv, TypeInv, n
  <2>2. /\ n - 1 \in 1 .. n - 1 /\ (n - 1) + 1 = n /\ n - 1 \in 1 .. n
        /\ n \in 1 .. Len(sent) /\ n \in 1 .. Len(got) /\ n + 1 \in 1 .. Len(sent)
    BY <1>2, <1>3
  <2>3. trail[n - 1] \in Word /\ trail[n] = CrcByte(trail[n - 1], sent[n])
    BY <2>1, <2>2 DEF TrailOver
  <2>4. (\A j \in 2 .. n - 1 : got[j] = sent[j]) => reg = CrcByte(trail[n - 1], got[n])
    BY <1>1, <1>3 DEF CheckInv
  <2> QED BY <1>3, <2>2, <2>3, <2>4
<1>8. ASSUME got[n + 1] = LoByte(reg), got[n + 2] = HiByte(reg), reg = trail[n]
      PROVE  got = sent
  <2>1. \A j \in 1 .. Len(sent) : got[j] = sent[j]
    <3> TAKE j \in 1 .. Len(sent)
    <3>1. j = 1 \/ j \in 2 .. n \/ j = n + 1 \/ j = n + 2
      BY <1>3
    <3> QED BY <1>3, <1>5, <1>8, <3>1
  <2> QED BY <1>2, <1>3, <2>1, SeqEqual
\* A burst over the last checked byte and the CRC's first one: the blind spot.
<1>9. ASSUME got[n + 1] = LoByte(reg), got[n + 2] = HiByte(reg), reg # trail[n]
      PROVE  got = BlindSpot
  <2>1. PICK j \in 2 .. n : got[j] # sent[j]
    BY <1>5, <1>9
  <2>2. PICK p \in 1 .. Len(sent) - 1 :
            \A i \in 1 .. Len(sent) : i \notin {p, p + 1} => got[i] = sent[i]
    BY <1>2
  <2>3. p = j \/ p + 1 = j
    <3>1. j \in 1 .. Len(sent)
      BY <1>3
    <3> QED BY <2>1, <2>2, <3>1
  <2>4. got[n + 2] = sent[n + 2]
    BY <1>3, <2>2, <2>3
  <2>5. got[n + 1] # sent[n + 1]
    BY <1>3, <1>4, <1>9, <2>4, HalvesOfWord
  <2>6. p = n
    BY <1>3, <2>2, <2>3, <2>5
  <2>7. \A i \in 1 .. Len(sent) : i \notin {n, n + 1} => got[i] = sent[i]
    BY <2>2, <2>6
  <2>8. reg = CrcByte(trail[n - 1], got[n]) /\ got[n] # sent[n]
    <3>1. \A i \in 2 .. n - 1 : i \in 1 .. Len(sent) /\ i \notin {n, n + 1}
      BY <1>3
    <3>2. j = n
      BY <1>3, <2>1, <2>3, <2>6
    <3> QED BY <1>7, <2>1, <2>7, <3>1, <3>2
  <2>9. HiByte(trail[n]) = HiByte(reg)
    BY <1>3, <1>9, <2>4
  <2>10. got[n] = Xor(sent[n], {0, 3, 7}) /\ LoByte(reg) = Xor(LoByte(trail[n]), {0, 5, 7})
    BY <1>7, <2>8, <2>9, BlindBurst
  <2>11. got[n + 1] = Xor(sent[n + 1], {0, 5, 7})
    BY <1>3, <1>9, <2>10
  <2>12. n \in 1 .. Len(sent) - 1 /\ {0, 3, 7} \in Byte /\ {0, 5, 7} \in Byte
    BY <1>3 DEF Byte
  <2> DEFINE d == Damaged(n, {0, 3, 7}, {0, 5, 7})
  <2>13. /\ d \in Seq(Byte) /\ Len(d) = Len(sent)
         /\ d[n] = Xor(sent[n], {0, 3, 7}) /\ d[n + 1] = Xor(sent[n + 1], {0, 5, 7})
         /\ \A i \in 1 .. Len(sent) : i \notin {n, n + 1} => d[i] = sent[i]
    BY <1>3, <2>12, DamagedTyped
  <2> HIDE DEF d
  <2>14. \A i \in 1 .. Len(sent) : got[i] = d[i]
    BY <2>7, <2>10, <2>11, <2>13
  <2>15. got = d
    BY <1>2, <1>3, <2>13, <2>14, SeqEqual
  <2> QED BY <2>15 DEF d, BlindSpot, n, CrcEnd
<1>10. ASSUME got = sent PROVE got[n + 1] = LoByte(reg) /\ got[n + 2] = HiByte(reg)
  BY <1>3, <1>5, <1>10
<1>11. ASSUME got = BlindSpot, Len(sent) > HeaderSize + CrcSize
       PROVE  got[n + 1] = LoByte(reg) /\ got[n + 2] = HiByte(reg)
  <2>1. Len(sent) > 10 /\ n = Len(sent) - 2
    BY <1>3, <1>11 DEF HeaderSize, CrcSize
  <2>2. /\ got[n] = Xor(sent[n], {0, 3, 7}) /\ got[n + 1] = Xor(sent[n + 1], {0, 5, 7})
        /\ \A i \in 1 .. Len(sent) : i \notin {n, n + 1} => got[i] = sent[i]
    BY <1>3, <1>11, <2>1, BlindSpotFacts
  <2>3. reg = CrcByte(trail[n - 1], got[n])
    <3>1. \A i \in 2 .. n - 1 : i \in 1 .. Len(sent) /\ i \notin {n, n + 1}
      BY <1>3
    <3> QED BY <1>7, <2>2, <3>1
  <2>4. LoByte(reg) = Xor(LoByte(trail[n]), {0, 5, 7}) /\ HiByte(trail[n]) = HiByte(reg)
    BY <1>7, <2>2, <2>3, BlindBurst
  <2>5. got[n + 2] = sent[n + 2]
    BY <1>3, <2>2
  <2> QED BY <1>3, <2>2, <2>4, <2>5
<1>12. BlindSpot' = BlindSpot /\ sent' = sent /\ got' = got
  BY ReceivedKept DEF DecodeEnds
<1>13. Verdict'
  <2>1. link' = "taken" => got \in {sent, BlindSpot}
    BY <1>6, <1>8, <1>9
  <2>2. link' = "refused" => got # sent
    BY <1>6, <1>10
  <2>3. link' = "refused" /\ Len(sent) > HeaderSize + CrcSize => got # BlindSpot
    BY <1>6, <1>11
  <2> QED BY <1>12, <2>1, <2>2, <2>3 DEF Verdict, OnlyWholeFrames, WholeFramesPass,
             BlindSpotPasses
<1>14. TypeInv'
  BY <1>1, <1>6 DEF TypeInv, DecodeEnds
<1>15. SentInv'
  BY DEF LinkInv, SentInv, GoodHeader, TrailOver, CrcEnd, DecodeEnds
<1>16. GotInv'
  BY ReceivedKept DEF LinkInv, GotInv, DecodeEnds
<1>17. (EncodeInv /\ CheckInv)'
  BY <1>6 DEF EncodeInv, CheckInv
<1> QED BY <1>13, <1>14, <1>15, <1>16, <1>17 DEF LinkInv

-----------------------------------------------------------------------------
(* The theorems *)

LEMMA LinkInvInductive ==
    ASSUME LinkInv, [LinkNext]_linkVars PROVE LinkInv'
<1>1. CASE EncodeSome
  BY <1>1, EncodeKeepsInv DEF EncodeSome
<1>2. CASE EncodeByte
  BY <1>2, EncodeByteKeepsInv
<1>3. CASE EncodeEnds
  BY <1>3, EncodeEndsKeepsInv
<1>4. CASE Transfer
  BY <1>4, TransferKeepsInv
<1>5. CASE DecodeHeader
  BY <1>5, DecodeHeaderKeepsInv
<1>6. CASE DecodeByte
  BY <1>6, DecodeByteKeepsInv
<1>7. CASE DecodeEnds
  BY <1>7, DecodeEndsKeepsInv
<1>8. CASE UNCHANGED linkVars
  <2>1. TypeInv' /\ EncodeInv'
    BY <1>8 DEF linkVars, LinkInv, TypeInv, EncodeInv, GoodHeader, TrailOver
  <2>2. SentInv' /\ GotInv'
    BY <1>8, ReceivedKept DEF linkVars, LinkInv, SentInv, GotInv, GoodHeader, TrailOver, CrcEnd
  <2>3. CheckInv' /\ Verdict'
    BY <1>8, ReceivedKept DEF linkVars, LinkInv, CheckInv, HeaderFits, CrcEnd, Verdict,
       OnlyWholeFrames,
                WholeFramesPass, BlindSpotPasses
  <2> QED BY <2>1, <2>2, <2>3 DEF LinkInv
<1> QED BY <1>1, <1>2, <1>3, <1>4, <1>5, <1>6, <1>7, <1>8 DEF LinkNext

\* The invariant behind the two properties: behind every byte the registers of
\* encoder and decoder agree exactly if the bytes so far do.
THEOREM LinkInvariant == LinkSpec => []LinkInv
<1>1. LinkInit => LinkInv
  BY DEF LinkInit, LinkInv, TypeInv, EncodeInv, SentInv, GotInv, CheckInv, Verdict,
         OnlyWholeFrames, WholeFramesPass, BlindSpotPasses, CrcInit, Word
<1> QED BY <1>1, LinkInvInductive, PTL DEF LinkSpec

\* gw_link_decode takes no frame with a burst in one byte or two, its end missing
\* or another frame behind it, for every payload up to the largest and every burst
\* but the one over payload and CRC.
THEOREM DamagedFramesRefused == LinkSpec => []OnlyWholeFrames
BY LinkInvariant, PTL DEF LinkInv, Verdict

\* gw_link_decode refuses nothing gw_link_encode made, at every payload length.
THEOREM SoundFramesTaken == LinkSpec => []WholeFramesPass
BY LinkInvariant, PTL DEF LinkInv, Verdict

\* The exception is real: whatever the payload, that burst makes gw_link_decode
\* take a payload that was not sent.  Were the CRC written high byte first, as the
\* register is shifted, no burst of sixteen bits would pass.
THEOREM BlindSpotTaken == LinkSpec => []BlindSpotPasses
BY LinkInvariant, PTL DEF LinkInv, Verdict
=============================================================================
