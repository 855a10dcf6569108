------------------------- MODULE HmacSha256Proofs -------------------------
(***************************************************************************)
(* Theorems about HmacSha256, for keys and messages of every length.  An   *)
(* open hash has cut what it was fed into whole blocks and a rest; at      *)
(* gw_sha256_final the rest decides between one block more and two, which  *)
(* is where the arithmetic of the padding is settled.                      *)
(***************************************************************************)
EXTENDS HmacSha256, SequenceTheorems, TLAPS

Blocks == [Places -> Tokens]

TypeInv ==
    /\ stage \in Stages /\ keyLen \in Nat /\ msgLen \in Nat
    /\ fed \in Nat /\ blockLen \in Nat /\ bitLen \in Nat
    /\ closed \in BOOLEAN
    /\ block \in Blocks /\ absorbed \in Seq(Blocks)

\* How an open hash has cut its input.
Cut ==
    /\ blockLen \in 0 .. 63
    /\ fed = 64 * Len(absorbed) + blockLen /\ fed <= Len(Input)
    /\ bitLen = 512 * Len(absorbed)

Taken ==
    /\ \A q \in 1 .. Len(absorbed), j \in Places :
           absorbed[q][j] = Input[64 * (q - 1) + j + 1]
    /\ \A j \in Places : j < blockLen =>
           block[j] = Input[64 * Len(absorbed) + j + 1]

HmacInv ==
    /\ TypeInv
    /\ ~closed => Cut /\ Taken
    /\ closed => BlocksAsDefined /\ bitLen = 8 * fed

-----------------------------------------------------------------------------
LEMMA TokensMade ==
    /\ \A i \in Nat : \A s \in {"zero", "0x80", "stale", "key", "key_digest",
                               "msg", "inner_digest"} : From(s, i) \in Tokens
    /\ \A i, b \in Nat : LengthByte(b, i) \in Tokens
    /\ Zero \in Tokens /\ Marker \in Tokens /\ Stale \in Tokens
  BY DEF From, LengthByte, Tokens, Zero, Marker, Stale

LEMMA SeqMade ==
    ASSUME NEW S, NEW n \in Nat, NEW s \in [1 .. n -> S]
    PROVE  s \in Seq(S) /\ Len(s) = n
  <1>1. s \in Seq(S)
    BY SeqDef, Zenon
  <1>2. Len(s) \in Nat /\ DOMAIN s = 1 .. Len(s)
    BY <1>1, LenProperties
  <1>3. DOMAIN s = 1 .. n
    OBVIOUS
  <1> QED  BY <1>1, <1>2, <1>3, SMT

LEMMA BytesTyped ==
    ASSUME NEW s \in {"key", "msg", "inner_digest"}, NEW n \in Nat
    PROVE  Bytes(s, n) \in Seq(Tokens) /\ Len(Bytes(s, n)) = n
  <1>1. ASSUME NEW i \in 1 .. n
        PROVE  From(s, i) \in Tokens
    <2>1. i \in Nat
      BY SMT
    <2> QED  BY <2>1 DEF From, Tokens
  <1>2. Bytes(s, n) \in [1 .. n -> Tokens]
    BY <1>1 DEF Bytes
  <1> QED  BY <1>2, SeqMade

LEMMA PaddedTyped ==
    ASSUME TypeInv, NEW p \in {"0x36", "0x5c"}
    PROVE  Padded(p) \in Seq(Tokens)
  <1>1. \A i \in 1 .. 64 : KeyBlock(i) \in Tokens
    <2> TAKE i \in 1 .. 64
    <2>1. KeyBlock(i) \in {From("key_digest", i), From("key", i), Zero}
      BY Zenon DEF KeyBlock
    <2>2. From("key_digest", i) \in Tokens /\ From("key", i) \in Tokens /\ Zero \in Tokens
      BY DEF From, Tokens, Zero
    <2> QED  BY <2>1, <2>2
  <1>2. \A t \in Tokens : [t EXCEPT !.pad = p] \in Tokens
    BY DEF Tokens
  <1>3. \A i \in 1 .. 64 : [KeyBlock(i) EXCEPT !.pad = p] \in Tokens
    BY <1>1, <1>2
  <1> QED  BY <1>3 DEF Padded, BlockSize

\* What a hash is taken of is a finite sequence of bytes.
LEMMA InputTyped == TypeInv => Input \in Seq(Tokens) /\ Len(Input) \in Nat
  <1> SUFFICES ASSUME TypeInv PROVE Input \in Seq(Tokens) /\ Len(Input) \in Nat
    OBVIOUS
  <1>1. Input \in Seq(Tokens)
    <2>1. CASE stage = "key"
      BY <2>1, BytesTyped DEF Input, TypeInv
    <2>2. CASE stage = "inner"
      <3>1. Padded("0x36") \in Seq(Tokens) /\ Bytes("msg", msgLen) \in Seq(Tokens)
        BY PaddedTyped, BytesTyped DEF TypeInv
      <3>2. Padded("0x36") \o Bytes("msg", msgLen) \in Seq(Tokens)
        BY <3>1, ConcatProperties
      <3> QED  BY <2>2, <3>2 DEF Input
    <2>3. CASE stage = "outer"
      <3>1. /\ Padded("0x5c") \in Seq(Tokens)
            /\ Bytes("inner_digest", DigestSize) \in Seq(Tokens)
        BY PaddedTyped, BytesTyped DEF DigestSize
      <3>2. Padded("0x5c") \o Bytes("inner_digest", DigestSize) \in Seq(Tokens)
        BY <3>1, ConcatProperties
      <3> QED  BY <2>3, <3>2 DEF Input
    <2>4. CASE stage = "idle"
      BY <2>4 DEF Input
    <2> QED  BY <2>1, <2>2, <2>3, <2>4 DEF TypeInv, Stages
  <1> QED  BY <1>1, LenProperties

LEMMA InputStays ==
    ASSUME UNCHANGED <<stage, keyLen, msgLen>>
    PROVE  Input' = Input
  BY DEF Input, Bytes, Padded, KeyBlock

\* A rest that leaves less than nine bytes for marker and length makes a block
\* of its own of the padding.
LEMMA BlocksNeeded ==
    ASSUME NEW m \in Nat, NEW b \in 0 .. 63
    PROVE  (64 * m + b + 8) \div 64 + 1 = IF b + 1 > 56 THEN m + 2 ELSE m + 1
  OBVIOUS
-----------------------------------------------------------------------------
LEMMA HmacTypeStart == HmacInit => HmacInv
  <1> SUFFICES ASSUME HmacInit PROVE HmacInv
    OBVIOUS
  <1>1. TypeInv
    <2>1. block \in Blocks
      BY DEF HmacInit, Blocks, Stale, From, Tokens
    <2>2. absorbed \in Seq(Blocks)
      BY EmptySeq DEF HmacInit
    <2> QED  BY <2>1, <2>2 DEF TypeInv, HmacInit, Stages
  <1>2. Len(absorbed) = 0 /\ Len(Input) = 0
    BY EmptySeq DEF HmacInit, Input
  <1> QED  BY <1>1, <1>2 DEF HmacInv, Cut, Taken, HmacInit

\* A fresh context: nothing fed, whatever the block holds.
LEMMA FreshHash ==
    ASSUME HmacInv, Sha256Init, TypeInv'
    PROVE  HmacInv'
  <1>1. Len(absorbed') = 0 /\ absorbed' = <<>>
    BY EmptySeq DEF Sha256Init
  <1>2. (Input \in Seq(Tokens) /\ Len(Input) \in Nat)'
    BY InputTyped, PTL
  <1>3. ~closed' /\ blockLen' = 0 /\ fed' = 0 /\ bitLen' = 0
    BY DEF Sha256Init
  <1>4. Cut'
    BY <1>1, <1>2, <1>3 DEF Cut
  <1>5. Taken'
    <2>1. \A q \in 1 .. Len(absorbed') : FALSE
      BY <1>1
    <2>2. \A j \in Places : ~(j < blockLen')
      BY <1>3 DEF Places, BlockSize
    <2> QED  BY <2>1, <2>2 DEF Taken
  <1> QED  BY <1>3, <1>4, <1>5 DEF HmacInv

LEMMA UpdateStep ==
    ASSUME HmacInv, UpdateByte
    PROVE  HmacInv'
  <1>1. /\ stage # "idle" /\ closed = FALSE /\ fed < Len(Input)
        /\ block' = [block EXCEPT ![blockLen] = Input[fed + 1]]
        /\ fed' = fed + 1
        /\ stage' = stage /\ keyLen' = keyLen /\ msgLen' = msgLen /\ closed' = FALSE
    BY DEF UpdateByte, HmacInv, TypeInv
  <1>2. TypeInv /\ Cut /\ Taken
    BY <1>1 DEF HmacInv
  <1>3. /\ fed \in Nat /\ blockLen \in 0 .. 63 /\ bitLen \in Nat
        /\ block \in Blocks /\ absorbed \in Seq(Blocks) /\ Len(absorbed) \in Nat
        /\ Input \in Seq(Tokens) /\ Len(Input) \in Nat
        /\ fed = 64 * Len(absorbed) + blockLen /\ bitLen = 512 * Len(absorbed)
    BY <1>2, InputTyped, LenProperties DEF TypeInv, Cut
  <1>4. Input' = Input
    BY <1>1, InputStays
  <1>5. Input[fed + 1] \in Tokens
    <2>1. fed + 1 \in 1 .. Len(Input)
      BY <1>1, <1>3
    <2> QED  BY <1>3, <2>1, ElementOfSeq
  <1>6. block' \in Blocks
    BY <1>1, <1>3, <1>5 DEF Blocks
  <1>7. /\ \A j \in Places : j < blockLen => block'[j] = block[j]
        /\ block'[blockLen] = Input[fed + 1]
    BY <1>1, <1>3 DEF Blocks, Places, BlockSize
  <1>8. \A j \in Places : j <= blockLen =>
            block'[j] = Input[64 * Len(absorbed) + j + 1]
    <2> TAKE j \in Places
    <2>1. j \in 0 .. 63
      BY DEF Places, BlockSize
    <2>2. CASE j < blockLen
      BY <1>2, <1>7, <2>2 DEF Taken
    <2>3. CASE j = blockLen
      <3>1. fed + 1 = 64 * Len(absorbed) + j + 1
        BY <1>3, <2>3
      <3> QED  BY <1>7, <2>3, <3>1
    <2> QED  BY <1>3, <2>1, <2>2, <2>3
  <1>9. CASE blockLen + 1 = 64
    <2>1. /\ absorbed' = Append(absorbed, block') /\ blockLen' = 0
          /\ bitLen' = bitLen + 512
      BY <1>9 DEF UpdateByte, Transform, BlockSize
    <2>2. /\ absorbed' \in Seq(Blocks) /\ Len(absorbed') = Len(absorbed) + 1
          /\ \A q \in 1 .. Len(absorbed) : absorbed'[q] = absorbed[q]
          /\ absorbed'[Len(absorbed) + 1] = block'
      BY <1>3, <1>6, <2>1, AppendProperties
    <2>3. TypeInv'
      <3>1. fed' \in Nat /\ blockLen' \in Nat /\ bitLen' \in Nat
        BY <1>1, <1>3, <2>1
      <3> QED  BY <1>1, <1>2, <1>6, <2>2, <3>1, Zenon DEF TypeInv
    <2>4. Cut'
      BY <1>1, <1>3, <1>4, <1>9, <2>1, <2>2 DEF Cut
    <2>5. Taken'
      <3>1. ASSUME NEW q \in 1 .. Len(absorbed'), NEW j \in Places
            PROVE  absorbed'[q][j] = Input[64 * (q - 1) + j + 1]
        <4>1. CASE q \in 1 .. Len(absorbed)
          BY <1>2, <2>2, <4>1 DEF Taken
        <4>2. CASE q = Len(absorbed) + 1
          <5>1. j \in 0 .. 63 /\ j <= blockLen
            BY <1>3, <1>9 DEF Places, BlockSize
          <5>2. 64 * (q - 1) = 64 * Len(absorbed)
            BY <1>3, <4>2
          <5> QED  BY <1>8, <2>2, <4>2, <5>1, <5>2
        <4> QED  BY <1>3, <2>2, <4>1, <4>2
      <3>2. \A j \in Places : ~(j < blockLen')
        BY <2>1 DEF Places, BlockSize
      <3> QED  BY <1>4, <3>1, <3>2 DEF Taken
    <2> QED  BY <1>1, <2>3, <2>4, <2>5 DEF HmacInv
  <1>10. CASE blockLen + 1 # 64
    <2>1. /\ absorbed' = absorbed /\ blockLen' = blockLen + 1 /\ bitLen' = bitLen
      BY <1>10 DEF UpdateByte, BlockSize
    <2>2. TypeInv'
      <3>1. fed' \in Nat /\ blockLen' \in Nat /\ bitLen' \in Nat
        BY <1>1, <1>3, <2>1
      <3>2. absorbed' \in Seq(Blocks)
        BY <1>3, <2>1
      <3> QED  BY <1>1, <1>2, <1>6, <3>1, <3>2, Zenon DEF TypeInv
    <2>3. Cut'
      BY <1>1, <1>3, <1>4, <1>10, <2>1 DEF Cut
    <2>4. Taken'
      <3>1. \A j \in Places : j < blockLen + 1 => j <= blockLen
        BY <1>3 DEF Places, BlockSize
      <3> QED  BY <1>2, <1>4, <1>8, <2>1, <3>1 DEF Taken
    <2> QED  BY <1>1, <2>2, <2>3, <2>4 DEF HmacInv
  <1> QED  BY <1>9, <1>10

\* Where byte j of block q lies in a message of 64 * m + b bytes.
LEMMA EarlierPlace ==
    ASSUME NEW m \in Nat, NEW b \in 0 .. 63, NEW j \in 0 .. 63,
           NEW q \in Nat, q <= m
    PROVE  64 * (q - 1) + j + 1 <= 64 * m + b
  OBVIOUS

\* Where the place j of the block a hash ends in, or of the one behind it, lies
\* in the padded input.
InLastBlock(i, m, b, j) ==
    /\ i = 64 * m + j + 1
    /\ j < b => i <= 64 * m + b
    /\ ~(j < b) => ~(i <= 64 * m + b)
    /\ (i = 64 * m + b + 1) <=> (j = b)
    /\ i <= 64 * (m + 2) - 8
    /\ (i <= 64 * (m + 1) - 8) <=> (j < 56)
    /\ i - 1 - 64 * ((m + 1) - 1) = j

InExtraBlock(i, m, b, j) ==
    /\ ~(i <= 64 * m + b)
    /\ i # 64 * m + b + 1
    /\ (i <= 64 * (m + 2) - 8) <=> (j < 56)
    /\ i - 1 - 64 * ((m + 2) - 1) = j

LEMMA Positions ==
    ASSUME NEW m \in Nat, NEW b \in 0 .. 63, NEW j \in 0 .. 63
    PROVE  /\ InLastBlock(64 * m + j + 1, m, b, j)
           /\ InExtraBlock(64 * m + 64 + j + 1, m, b, j)
  BY DEF InLastBlock, InExtraBlock

\* What gw_sha256_final leaves behind the blocks absorbed before it: the bytes it
\* still held, the marker, zeros, the length.
ClosedWith(after, bits) ==
    /\ bits = bitLen + 8 * blockLen
    /\ Len(after) = PaddedBlocks
    /\ \A q \in 1 .. Len(absorbed) : after[q] = absorbed[q]
    /\ \A j \in Places : j < blockLen => after[Len(absorbed) + 1][j] = block[j]
    /\ after[Len(absorbed) + 1][blockLen] = Marker
    /\ \A j \in Places :
           blockLen < j /\ (j < 56 \/ blockLen + 1 > 56)
               => after[Len(absorbed) + 1][j] = Zero
    /\ blockLen + 1 > 56 => \A j \in Places : j < 56 => after[Len(absorbed) + 2][j] = Zero
    /\ \A j \in Places : ~(j < 56) => after[PaddedBlocks][j] = LengthByte(bits, j)

\* These blocks are the padded input.
LEMMA BlocksAddUp ==
    ASSUME TypeInv, Cut, Taken, fed = Len(Input),
           NEW after, NEW bits, ClosedWith(after, bits)
    PROVE  /\ bits = 8 * fed
           /\ \A q \in 1 .. PaddedBlocks, j \in Places :
                  after[q][j] = PaddedByte((q - 1) * BlockSize + j + 1)
  <1>c. /\ bits = bitLen + 8 * blockLen /\ Len(after) = PaddedBlocks
        /\ \A q \in 1 .. Len(absorbed) : after[q] = absorbed[q]
        /\ \A j \in Places : j < blockLen => after[Len(absorbed) + 1][j] = block[j]
        /\ after[Len(absorbed) + 1][blockLen] = Marker
        /\ \A j \in Places :
               blockLen < j /\ (j < 56 \/ blockLen + 1 > 56)
                   => after[Len(absorbed) + 1][j] = Zero
        /\ blockLen + 1 > 56 =>
               \A j \in Places : j < 56 => after[Len(absorbed) + 2][j] = Zero
        /\ \A j \in Places : ~(j < 56) => after[PaddedBlocks][j] = LengthByte(bits, j)
    BY Zenon DEF ClosedWith
  <1> DEFINE m == Len(absorbed)
  <1>1. /\ m \in Nat /\ blockLen \in 0 .. 63 /\ bitLen = 512 * m
        /\ fed = 64 * m + blockLen /\ Len(Input) = 64 * m + blockLen
        /\ fed \in Nat /\ Len(Input) \in Nat
    BY LenProperties DEF TypeInv, Cut
  <1> HIDE DEF m
  <1>0. m \in Nat /\ blockLen \in 0 .. 63
    BY <1>1
  <1>2. bits = 8 * fed /\ bits = 8 * Len(Input)
    BY <1>1, <1>c
  <1>3. PaddedBlocks = IF blockLen + 1 > 56 THEN m + 2 ELSE m + 1
    BY <1>1, BlocksNeeded DEF PaddedBlocks, LenSize, BlockSize
  <1>4. ASSUME NEW q \in 1 .. PaddedBlocks, NEW j \in Places
        PROVE  after[q][j] = PaddedByte(64 * (q - 1) + j + 1)
    <2> DEFINE i == 64 * (q - 1) + j + 1
    <2>1. /\ j \in 0 .. 63 /\ PaddedBlocks \in Nat /\ q \in Nat
          /\ 1 <= q /\ q <= PaddedBlocks
      <3>1. j \in 0 .. 63
        BY DEF Places, BlockSize
      <3>2. PaddedBlocks \in Nat
        BY <1>0, <1>3
      <3> HIDE DEF i
      <3> QED  BY <3>1, <3>2
    <2>0. j \in 0 .. 63 /\ q \in Nat
      BY <2>1
    <2>2. PaddedByte(i) =
            IF i <= 64 * m + blockLen THEN Input[i]
            ELSE IF i = 64 * m + blockLen + 1 THEN Marker
            ELSE IF i <= 64 * PaddedBlocks - 8 THEN Zero
            ELSE LengthByte(bits, i - 1 - 64 * (PaddedBlocks - 1))
      <3>1. PaddedBlocks * 64 = 64 * PaddedBlocks
            /\ (PaddedBlocks - 1) * 64 = 64 * (PaddedBlocks - 1)
        BY <2>1
      <3>2. Len(Input) = 64 * m + blockLen /\ 8 * Len(Input) = bits
        BY <1>1, <1>2
      <3> HIDE DEF i
      <3>3. PaddedByte(i) =
              IF i <= Len(Input) THEN Input[i]
              ELSE IF i = Len(Input) + 1 THEN Marker
              ELSE IF i <= 64 * PaddedBlocks - 8 THEN Zero
              ELSE LengthByte(8 * Len(Input), i - 1 - 64 * (PaddedBlocks - 1))
        BY <3>1 DEF PaddedByte, BlockSize, LenSize
      <3> QED  BY <3>2, <3>3
    <2>3. CASE q <= m
      <3>1. i <= 64 * m + blockLen
        BY <1>0, <2>0, <2>3, EarlierPlace, Zenon
      <3>2. q \in 1 .. m
        BY <1>1, <2>1, <2>3
      <3>3. after[q] = absorbed[q]
        BY <1>c, <3>2, Zenon DEF m
      <3> QED  BY <2>2, <3>1, <3>2, <3>3 DEF Taken, m
    <2>4. CASE q = m + 1
      <3>1. /\ i = 64 * m + j + 1
            /\ j < blockLen => i <= 64 * m + blockLen
            /\ ~(j < blockLen) => ~(i <= 64 * m + blockLen)
            /\ (i = 64 * m + blockLen + 1) <=> (j = blockLen)
            /\ i <= 64 * (m + 2) - 8
            /\ (i <= 64 * (m + 1) - 8) <=> (j < 56)
            /\ i - 1 - 64 * ((m + 1) - 1) = j
        <4>1. i = 64 * m + j + 1
          BY <1>0, <2>0, <2>4
        <4> HIDE DEF i
        <4>2. m \in Nat /\ blockLen \in 0 .. 63 /\ j \in 0 .. 63
          BY <1>0, <2>0
        <4>3. InLastBlock(i, m, blockLen, j)
          BY <4>1, <4>2, Positions, Zenon
        <4> QED  BY <4>3, Zenon DEF InLastBlock
      <3> HIDE DEF i
      <3>2. CASE j < blockLen
        <4>1. after[q][j] = block[j] /\ i = 64 * m + j + 1
          BY <1>c, <2>4, <3>1, <3>2, Zenon DEF m
        <4>2. Input[i] = block[j]
          BY <3>2, <4>1 DEF Taken, m
        <4> QED  BY <2>2, <3>1, <3>2, <4>1, <4>2, Zenon DEF i
      <3>3. CASE j = blockLen
        <4>1. ~(j < blockLen)
          BY <1>1, <3>3
        <4>2. after[q][j] = Marker
          BY <1>c, <2>4, <3>3, Zenon DEF m
        <4> QED  BY <2>2, <3>1, <3>3, <4>1, <4>2, Zenon DEF i
      <3>4. CASE blockLen < j /\ (j < 56 \/ blockLen + 1 > 56)
        <4>1. ~(j < blockLen) /\ j # blockLen
          BY <1>1, <2>1, <3>4
        <4>2. i <= 64 * PaddedBlocks - 8
          BY <1>3, <3>1, <3>4, Zenon
        <4>3. after[q][j] = Zero
          BY <1>c, <2>4, <3>4, Zenon DEF m
        <4> QED  BY <2>2, <3>1, <4>1, <4>2, <4>3, Zenon DEF i
      <3>5. CASE blockLen < j /\ ~(j < 56) /\ ~(blockLen + 1 > 56)
        <4>1. ~(j < blockLen) /\ j # blockLen
          BY <1>1, <2>1, <3>5
        <4>2. ~(i <= 64 * PaddedBlocks - 8)
              /\ i - 1 - 64 * (PaddedBlocks - 1) = j /\ PaddedBlocks = q
          BY <1>3, <2>4, <3>1, <3>5, Zenon
        <4>3. after[q][j] = LengthByte(bits, j)
          BY <1>c, <3>5, <4>2, Zenon
        <4> QED  BY <2>2, <3>1, <4>1, <4>2, <4>3, Zenon DEF i
      <3>6. \/ j < blockLen \/ j = blockLen
            \/ blockLen < j /\ (j < 56 \/ blockLen + 1 > 56)
            \/ blockLen < j /\ ~(j < 56) /\ ~(blockLen + 1 > 56)
        BY <1>0, <2>0
      <3> QED  BY <3>2, <3>3, <3>4, <3>5, <3>6, Zenon
    <2>5. CASE q = m + 2
      <3>1. /\ ~(i <= 64 * m + blockLen)
            /\ i # 64 * m + blockLen + 1
            /\ (i <= 64 * (m + 2) - 8) <=> (j < 56)
            /\ i - 1 - 64 * ((m + 2) - 1) = j
        <4>1. i = 64 * m + 64 + j + 1
          BY <1>0, <2>0, <2>5
        <4> HIDE DEF i
        <4>2. m \in Nat /\ blockLen \in 0 .. 63 /\ j \in 0 .. 63
          BY <1>0, <2>0
        <4>3. InExtraBlock(i, m, blockLen, j)
          BY <4>1, <4>2, Positions, Zenon
        <4> QED  BY <4>3, Zenon DEF InExtraBlock
      <3>2. blockLen + 1 > 56 /\ PaddedBlocks = m + 2
        BY <1>1, <1>3, <2>1, <2>5
      <3> HIDE DEF i
      <3>3. CASE j < 56
        <4>1. after[q][j] = Zero
          BY <1>c, <2>5, <3>2, <3>3, Zenon DEF m
        <4> QED  BY <2>2, <3>1, <3>2, <3>3, <4>1, Zenon DEF i
      <3>4. CASE ~(j < 56)
        <4>1. after[q][j] = LengthByte(bits, j)
          BY <1>c, <2>5, <3>2, <3>4, Zenon
        <4> QED  BY <2>2, <3>1, <3>2, <3>4, <4>1, Zenon DEF i
      <3> QED  BY <3>3, <3>4
    <2> QED  BY <1>1, <1>3, <2>1, <2>3, <2>4, <2>5
  <1>5. \A q \in 1 .. PaddedBlocks : (q - 1) * BlockSize = 64 * (q - 1)
    BY <1>1, <1>3 DEF BlockSize
  <1> QED  BY <1>2, <1>4, <1>5

LEMMA FinalStep ==
    ASSUME HmacInv, Final
    PROVE  HmacInv'
  <1> DEFINE marked == [block EXCEPT ![blockLen] = Marker]
             full == ZeroTo(marked, blockLen + 1, 64)
             last == IF blockLen + 1 > 56
                       THEN Counted(ZeroTo(full, 0, 56), bitLen')
                       ELSE Counted(ZeroTo(marked, blockLen + 1, 56), bitLen')
             m == Len(absorbed)
  <1>1. /\ closed = FALSE /\ fed = Len(Input) /\ closed' = TRUE
        /\ bitLen' = bitLen + 8 * blockLen /\ blockLen' = 56
        /\ stage' = stage /\ keyLen' = keyLen /\ msgLen' = msgLen /\ fed' = fed
    BY DEF Final, HmacInv, TypeInv, BlockSize, LenSize
  <1>2. TypeInv /\ Cut /\ Taken
    BY <1>1 DEF HmacInv
  <1>3. /\ fed \in Nat /\ blockLen \in 0 .. 63 /\ bitLen \in Nat /\ bitLen' \in Nat
        /\ block \in Blocks /\ absorbed \in Seq(Blocks) /\ m \in Nat
    BY <1>1, <1>2, LenProperties DEF TypeInv, Cut
  <1>4. Input' = Input
    BY <1>1, InputStays
  <1>5. /\ block' = last
        /\ absorbed' = IF blockLen + 1 > 56 THEN absorbed \o <<full, last>>
                                           ELSE Append(absorbed, last)
    <2> DEFINE edge == BlockSize - LenSize
               whole == ZeroTo(marked, blockLen + 1, BlockSize)
    <2>1. /\ blockLen + 1 > edge =>
                 /\ block' = Counted(ZeroTo(whole, 0, edge), bitLen')
                 /\ absorbed' = absorbed \o <<whole, block'>>
          /\ ~(blockLen + 1 > edge) =>
                 /\ block' = Counted(ZeroTo(marked, blockLen + 1, edge), bitLen')
                 /\ absorbed' = Append(absorbed, block')
      BY Zenon DEF Final, Transform
    <2>2. edge = 56 /\ whole = full
      BY DEF BlockSize, LenSize
    <2> HIDE DEF full, marked, edge, whole
    <2>3. block' = last
      BY <2>1, <2>2, Zenon
    <2> QED  BY <2>1, <2>2, <2>3, Zenon
  <1>6. Zero \in Tokens /\ Marker \in Tokens
        /\ \A j \in Places : LengthByte(bitLen', j) \in Tokens
    <2>1. \A j \in Places : j \in Nat
      BY DEF Places, BlockSize
    <2>2. bitLen' \in Nat
      BY <1>3
    <2> QED  BY <2>1, <2>2, TokensMade, Zenon
  <1>7. /\ marked \in Blocks /\ marked[blockLen] = Marker
        /\ \A j \in Places : j # blockLen => marked[j] = block[j]
    <2>1. blockLen \in Places
      BY <1>3 DEF Places, BlockSize
    <2>2. block \in [Places -> Tokens] /\ Marker \in Tokens
      BY <1>3, <1>6 DEF Blocks
    <2> QED  BY <2>1, <2>2 DEF Blocks
  <1> HIDE DEF marked
  <1>8. ASSUME NEW b \in Blocks, NEW n \in Nat, NEW e \in {56, 64}
        PROVE  /\ ZeroTo(b, n, e) \in Blocks
               /\ \A j \in Places :
                      ZeroTo(b, n, e)[j] = IF n <= j /\ j < e THEN Zero ELSE b[j]
    BY <1>6 DEF ZeroTo, Blocks
  <1>9. ASSUME NEW b \in Blocks
        PROVE  /\ Counted(b, bitLen') \in Blocks
               /\ \A j \in Places :
                      Counted(b, bitLen')[j] = IF j < 56 THEN b[j] ELSE LengthByte(bitLen', j)
    BY <1>6 DEF Counted, Blocks, BlockSize, LenSize
  <1>10. /\ full \in Blocks
         /\ \A j \in Places :
                full[j] = IF blockLen + 1 <= j /\ j < 64 THEN Zero ELSE marked[j]
    <2>1. blockLen + 1 \in Nat
      BY <1>3
    <2> QED  BY <1>7, <1>8, <2>1, Zenon
  <1>11. /\ \A j \in Places : blockLen + 1 <= j /\ j < 64 => full[j] = Zero
         /\ \A j \in Places : ~(blockLen + 1 <= j) => full[j] = marked[j]
    BY <1>10, Zenon
  <1> HIDE DEF full
  <1>12. /\ last \in Blocks
         /\ \A j \in Places : ~(j < 56) => last[j] = LengthByte(bitLen', j)
         /\ blockLen + 1 > 56 => \A j \in Places : j < 56 => last[j] = Zero
         /\ ~(blockLen + 1 > 56) => \A j \in Places : j < 56 =>
               last[j] = IF blockLen + 1 <= j /\ j < 56 THEN Zero ELSE marked[j]
    <2>1. CASE blockLen + 1 > 56
      <3>1. /\ ZeroTo(full, 0, 56) \in Blocks
            /\ \A j \in Places :
                   ZeroTo(full, 0, 56)[j] = IF 0 <= j /\ j < 56 THEN Zero ELSE full[j]
        BY <1>8, <1>10
      <3>2. \A j \in Places : 0 <= j
        BY DEF Places, BlockSize
      <3> QED  BY <1>9, <2>1, <3>1, <3>2
    <2>2. CASE ~(blockLen + 1 > 56)
      <3>1. /\ ZeroTo(marked, blockLen + 1, 56) \in Blocks
            /\ \A j \in Places :
                   ZeroTo(marked, blockLen + 1, 56)[j] =
                       IF blockLen + 1 <= j /\ j < 56 THEN Zero ELSE marked[j]
        <4>1. blockLen + 1 \in Nat
          BY <1>3
        <4> QED  BY <1>7, <1>8, <4>1, Zenon
      <3> QED  BY <1>9, <2>2, <3>1
    <2> QED  BY <2>1, <2>2
  <1> HIDE DEF last
  <1>13. PaddedBlocks = IF blockLen + 1 > 56 THEN m + 2 ELSE m + 1
    <2>1. Len(Input) = 64 * m + blockLen
      BY <1>1, <1>2 DEF Cut
    <2> QED  BY <1>3, <2>1, BlocksNeeded DEF PaddedBlocks, LenSize, BlockSize
  <1>14. /\ absorbed' \in Seq(Blocks) /\ Len(absorbed') = PaddedBlocks
         /\ \A q \in 1 .. m : absorbed'[q] = absorbed[q]
         /\ absorbed'[m + 1] = IF blockLen + 1 > 56 THEN full ELSE last
         /\ absorbed'[PaddedBlocks] = last
    <2>1. CASE blockLen + 1 > 56
      <3>1. /\ <<full, last>> \in Seq(Blocks) /\ Len(<<full, last>>) = 2
            /\ <<full, last>>[1] = full /\ <<full, last>>[2] = last
        BY <1>10, <1>12
      <3>2. /\ absorbed' \in Seq(Blocks) /\ Len(absorbed') = m + 2
            /\ \A i \in 1 .. m + 2 : absorbed'[i] =
                   IF i <= m THEN absorbed[i] ELSE <<full, last>>[i - m]
        BY <1>3, <1>5, <2>1, <3>1, ConcatProperties
      <3>3. /\ \A q \in 1 .. m : absorbed'[q] = absorbed[q]
            /\ absorbed'[m + 1] = full /\ absorbed'[m + 2] = last
        <4>1. m + 1 \in 1 .. m + 2 /\ m + 2 \in 1 .. m + 2 /\ ~(m + 1 <= m)
              /\ ~(m + 2 <= m) /\ (m + 1) - m = 1 /\ (m + 2) - m = 2
          BY <1>3
        <4>2. \A q \in 1 .. m : q \in 1 .. m + 2 /\ q <= m
          BY <1>3
        <4> HIDE DEF m
        <4> QED  BY <3>1, <3>2, <4>1, <4>2, Zenon
      <3> QED  BY <1>13, <2>1, <3>2, <3>3
    <2>2. CASE ~(blockLen + 1 > 56)
      BY <1>3, <1>5, <1>12, <1>13, <2>2, AppendProperties
    <2> QED  BY <2>1, <2>2
  <1>15. TypeInv'
    BY <1>1, <1>2, <1>3, <1>5, <1>12, <1>14, Zenon DEF TypeInv
  <1>16. \A j \in Places : j < blockLen => absorbed'[m + 1][j] = block[j]
    <2> TAKE j \in Places
    <2> SUFFICES ASSUME j < blockLen PROVE absorbed'[m + 1][j] = block[j]
      OBVIOUS
    <2>1. j \in 0 .. 63 /\ j # blockLen /\ ~(blockLen + 1 <= j)
      BY <1>3 DEF Places, BlockSize
    <2>2. ~(blockLen + 1 > 56) => j < 56
      BY <1>3, <2>1
    <2>3. marked[j] = block[j]
      BY <1>7, <2>1, Zenon
    <2> HIDE DEF m
    <2>4. CASE blockLen + 1 > 56
      BY <1>11, <1>14, <2>1, <2>3, <2>4, Zenon
    <2>5. CASE ~(blockLen + 1 > 56)
      BY <1>12, <1>14, <2>1, <2>2, <2>3, <2>5, Zenon
    <2> QED  BY <2>4, <2>5
  <1>17. absorbed'[m + 1][blockLen] = Marker
    <2>1. blockLen \in Places /\ ~(blockLen + 1 <= blockLen)
      BY <1>3 DEF Places, BlockSize
    <2>2. ~(blockLen + 1 > 56) => blockLen < 56
      BY <1>3
    <2> HIDE DEF m
    <2>4. CASE blockLen + 1 > 56
      BY <1>7, <1>11, <1>14, <2>1, <2>4, Zenon
    <2>5. CASE ~(blockLen + 1 > 56)
      <3>1. last[blockLen] = IF blockLen + 1 <= blockLen /\ blockLen < 56
                               THEN Zero ELSE marked[blockLen]
        BY <1>12, <2>1, <2>2, <2>5, Zenon
      <3>2. last[blockLen] = Marker
        BY <1>7, <2>1, <3>1, Zenon
      <3> QED  BY <1>14, <2>5, <3>2, Zenon
    <2> QED  BY <2>4, <2>5
  <1>18. \A j \in Places : blockLen < j /\ (j < 56 \/ blockLen + 1 > 56)
             => absorbed'[m + 1][j] = Zero
    <2> TAKE j \in Places
    <2> SUFFICES ASSUME blockLen < j, j < 56 \/ blockLen + 1 > 56
                 PROVE  absorbed'[m + 1][j] = Zero
      OBVIOUS
    <2>1. j \in 0 .. 63 /\ blockLen + 1 <= j /\ j < 64
      BY <1>3 DEF Places, BlockSize
    <2> HIDE DEF m
    <2>2. CASE blockLen + 1 > 56
      BY <1>11, <1>14, <2>1, <2>2, Zenon
    <2>3. CASE ~(blockLen + 1 > 56)
      <3>1. j < 56
        BY <2>3
      <3> QED  BY <1>12, <1>14, <2>1, <2>3, <3>1, Zenon
    <2> QED  BY <2>2, <2>3
  <1>19. blockLen + 1 > 56 =>
             \A j \in Places : j < 56 => absorbed'[m + 2][j] = Zero
    <2> HIDE DEF m
    <2>1. blockLen + 1 > 56 => absorbed'[m + 2] = last
      BY <1>13, <1>14, Zenon
    <2> QED  BY <1>12, <2>1, Zenon
  <1>20. \A j \in Places : ~(j < 56) => absorbed'[PaddedBlocks][j] = LengthByte(bitLen', j)
    BY <1>12, <1>14, Zenon
  <1>21. /\ bitLen' = 8 * fed
         /\ \A q \in 1 .. PaddedBlocks, j \in Places :
                absorbed'[q][j] = PaddedByte((q - 1) * BlockSize + j + 1)
    <2>1. TypeInv /\ Cut /\ Taken /\ fed = Len(Input)
      BY <1>1, <1>2
    <2>2. bitLen' = bitLen + 8 * blockLen
      BY <1>1
    <2>3. ClosedWith(absorbed', bitLen')
      BY <2>2, <1>14, <1>16, <1>17, <1>18, <1>19, <1>20, Zenon DEF ClosedWith
    <2> QED  BY <2>1, <2>3, BlocksAddUp, Zenon
  <1>22. /\ PaddedBlocks' = PaddedBlocks
         /\ \A i : PaddedByte(i)' = PaddedByte(i)
    BY <1>4 DEF PaddedBlocks, PaddedByte, LenSize, BlockSize
  <1>23. BlocksAsDefined'
    BY <1>14, <1>21, <1>22 DEF BlocksAsDefined
  <1> QED  BY <1>1, <1>15, <1>21, <1>23 DEF HmacInv

LEMMA HmacStep == HmacInv /\ [HmacNext]_hmacVars => HmacInv'
  <1> SUFFICES ASSUME HmacInv, [HmacNext]_hmacVars PROVE HmacInv'
    OBVIOUS
  <1>1. ASSUME NEW kl \in KeyLens, NEW ml \in MsgLens, Hmac(kl, ml)
        PROVE  HmacInv'
    <2>1. TypeInv'
      <3>1. absorbed' \in Seq(Blocks)
        BY <1>1, EmptySeq DEF Hmac, Sha256Init
      <3> QED  BY <1>1, <3>1, HmacAssumption
               DEF Hmac, Sha256Init, TypeInv, HmacInv, Stages
    <2> QED  BY <1>1, <2>1, FreshHash DEF Hmac
  <1>2. CASE UpdateByte
    BY <1>2, UpdateStep
  <1>3. CASE Final
    BY <1>3, FinalStep
  <1>4. CASE NextHash
    <2>1. TypeInv'
      <3>1. absorbed' \in Seq(Blocks)
        BY <1>4, EmptySeq DEF NextHash, Sha256Init
      <3> QED  BY <1>4, <3>1 DEF NextHash, Sha256Init, TypeInv, HmacInv, Stages
    <2> QED  BY <1>4, <2>1, FreshHash DEF NextHash
  <1>5. CASE Returns
    <2>1. HmacInit'
      BY <1>5 DEF Returns, HmacInit
    <2> QED  BY <2>1, HmacTypeStart, PTL
  <1>6. CASE UNCHANGED hmacVars
    <2>1. /\ Input' = Input /\ PaddedBlocks' = PaddedBlocks
          /\ \A i : PaddedByte(i)' = PaddedByte(i)
      BY <1>6, InputStays DEF hmacVars, PaddedBlocks, PaddedByte
    <2>2. TypeInv'
      BY <1>6 DEF hmacVars, HmacInv, TypeInv
    <2>3. ~closed' => Cut' /\ Taken'
      BY <1>6, <2>1 DEF hmacVars, HmacInv, Cut, Taken
    <2>4. closed' => BlocksAsDefined' /\ bitLen' = 8 * fed'
      BY <1>6, <2>1 DEF hmacVars, HmacInv, BlocksAsDefined
    <2> QED  BY <2>2, <2>3, <2>4 DEF HmacInv
  <1> QED  BY <1>1, <1>2, <1>3, <1>4, <1>5, <1>6 DEF HmacNext

\* Whatever the lengths of key and message: an open hash has its input cut into
\* blocks and a rest, and a closed one is padded as SHA-256 wants it.
THEOREM HmacInvariant == HmacSpec => []HmacInv
  BY HmacTypeStart, HmacStep, PTL DEF HmacSpec

\* Every hash gw_hmac_sha256 takes gives gw_sha256_transform the blocks SHA-256
\* defines for its input, for keys and messages of every length.
THEOREM BlocksAlwaysAsDefined == HmacSpec => []BlocksAsDefined
  <1>1. HmacInv => BlocksAsDefined
    BY DEF HmacInv, BlocksAsDefined, TypeInv
  <1> QED  BY <1>1, HmacInvariant, PTL

\* gw_sha256_update and gw_sha256_final stay inside the block and count what
\* they are fed, for keys and messages of every length.
THEOREM LengthAlwaysCounts == HmacSpec => []LengthCounts
  <1>1. ASSUME HmacInv, closed PROVE LengthCounts
    <2>1. bitLen = 8 * fed /\ bitLen \in Nat
      BY <1>1 DEF HmacInv, TypeInv
    <2> QED  BY <1>1, <2>1 DEF LengthCounts
  <1>2. ASSUME HmacInv, ~closed PROVE LengthCounts
    <2>1. Cut /\ TypeInv
      BY <1>2 DEF HmacInv
    <2>2. Len(absorbed) \in Nat
      BY <2>1, LenProperties DEF TypeInv
    <2>3. bitLen + 8 * blockLen = 8 * fed /\ blockLen \in Places
      BY <2>1, <2>2 DEF Cut, Places, BlockSize
    <2> QED  BY <1>2, <2>3 DEF LengthCounts
  <1> QED  BY <1>1, <1>2, HmacInvariant, PTL
=============================================================================
