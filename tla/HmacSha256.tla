---------------------------- MODULE HmacSha256 ----------------------------
(***************************************************************************)
(* gw_hmac_sha256 as a stream of blocks.  gw_sha256_transform takes in one *)
(* block; what it computes is left out, and which blocks it is given, in   *)
(* which order, is all a digest depends on.  A byte is known by where it   *)
(* comes from, `src` and place, the pad it is combined with (if any), and  *)
(* if it is a byte of the length, by the length.                           *)
(*                                                                         *)
(* One call hashes a key longer than a block, then ipad and message, then  *)
(* opad and the inner digest; each is a fresh gw_sha256_ctx_t on the stack,*)
(* whose block is not cleared.                                             *)
(***************************************************************************)
EXTENDS Naturals, Sequences

CONSTANTS
    KeyLens, MsgLens    \* key_len and msg_len of the calls

ASSUME HmacAssumption == KeyLens \subseteq Nat /\ MsgLens \subseteq Nat

BlockSize == 64
LenSize == 8
DigestSize == 32

Stages == {"idle", "key", "inner", "outer"}

VARIABLES
    stage,        \* which hash is being taken
    keyLen, msgLen,
    fed,          \* bytes gw_sha256_update has taken
    block, blockLen, bitLen,
    absorbed,     \* the blocks gw_sha256_transform was given
    closed        \* gw_sha256_final has been called

hmacVars == <<stage, keyLen, msgLen, fed, block, blockLen, bitLen, absorbed, closed>>

Places == 0 .. BlockSize - 1

Tokens == [pad : {"none", "0x36", "0x5c"}, at : Nat, bits : Nat,
           src : {"zero", "0x80", "stale", "length",
                  "key", "key_digest", "msg", "inner_digest"}]

From(src, i) == [pad |-> "none", src |-> src, at |-> i, bits |-> 0]
LengthByte(bits, j) == [pad |-> "none", src |-> "length", at |-> j, bits |-> bits]
Zero == From("zero", 0)
Marker == From("0x80", 0)
Stale == From("stale", 0)

-----------------------------------------------------------------------------
(* What each hash is taken of *)

Bytes(src, n) == [i \in 1 .. n |-> From(src, i)]

\* key_block: the key, or its digest, and zeros behind it.
KeyBlock(i) ==
    IF keyLen > BlockSize
      THEN IF i <= DigestSize THEN From("key_digest", i) ELSE Zero
      ELSE IF i <= keyLen THEN From("key", i) ELSE Zero

Padded(pad) == [i \in 1 .. BlockSize |-> [KeyBlock(i) EXCEPT !.pad = pad]]

Input ==
    CASE stage = "key" -> Bytes("key", keyLen)
      [] stage = "inner" -> Padded("0x36") \o Bytes("msg", msgLen)
      [] stage = "outer" -> Padded("0x5c") \o Bytes("inner_digest", DigestSize)
      [] OTHER -> <<>>

-----------------------------------------------------------------------------
HmacInit ==
    /\ stage = "idle" /\ keyLen = 0 /\ msgLen = 0
    /\ fed = 0 /\ absorbed = <<>> /\ closed = FALSE
    /\ block = [j \in Places |-> Stale] /\ blockLen = 0 /\ bitLen = 0

\* gw_sha256_transform: what it is given counts, not what it computes.
Transform(b) == Append(absorbed, b)

\* Seeded fault: block_len is not reset.
Sha256InitKeepsLen ==
    /\ bitLen' = 0
    /\ fed' = 0 /\ absorbed' = <<>> /\ closed' = FALSE
    /\ UNCHANGED <<block, blockLen>>

\* gw_sha256_init sets the lengths and leaves the block as it is.
Sha256Init ==
    /\ blockLen' = 0 /\ bitLen' = 0
    /\ fed' = 0 /\ absorbed' = <<>> /\ closed' = FALSE
    /\ UNCHANGED block

Hmac(kl, ml) ==
    /\ stage = "idle"
    /\ stage' = IF kl > BlockSize THEN "key" ELSE "inner"
    /\ keyLen' = kl /\ msgLen' = ml
    /\ Sha256Init

\* One turn of the loop in gw_sha256_update; the next call's bytes follow on.
UpdateByte ==
    /\ stage # "idle" /\ ~closed /\ fed < Len(Input)
    /\ block' = [block EXCEPT ![blockLen] = Input[fed + 1]]
    /\ fed' = fed + 1
    /\ IF blockLen + 1 = BlockSize
         THEN /\ absorbed' = Transform(block')
              /\ bitLen' = bitLen + 8 * BlockSize
              /\ blockLen' = 0
         ELSE /\ blockLen' = blockLen + 1
              /\ UNCHANGED <<absorbed, bitLen>>
    /\ UNCHANGED <<stage, keyLen, msgLen, closed>>

\* Zeros up to place m, from n on.
ZeroTo(b, n, m) == [j \in Places |-> IF n <= j /\ j < m THEN Zero ELSE b[j]]

\* write_u64_be, at the end of the block.
Counted(b, bits) ==
    [j \in Places |-> IF j < BlockSize - LenSize THEN b[j]
                      ELSE LengthByte(bits, j)]

\* Seeded fault: the marker may take the first byte of the length's place.
FinalOffByOne ==
    /\ stage # "idle" /\ ~closed /\ fed = Len(Input)
    /\ bitLen' = bitLen + 8 * blockLen
    /\ LET marked == [block EXCEPT ![blockLen] = Marker]
           edge == BlockSize - LenSize
           full == ZeroTo(marked, blockLen + 1, BlockSize)
       IN  IF blockLen > edge
             THEN /\ block' = Counted(ZeroTo(full, 0, edge), bitLen')
                  /\ absorbed' = absorbed \o <<full, block'>>
             ELSE /\ block' = Counted(ZeroTo(marked, blockLen + 1, edge), bitLen')
                  /\ absorbed' = Transform(block')
    /\ blockLen' = BlockSize - LenSize
    /\ closed' = TRUE
    /\ UNCHANGED <<stage, keyLen, msgLen, fed>>

\* Where marker and length do not both fit, one block more is taken in.
Final ==
    /\ stage # "idle" /\ ~closed /\ fed = Len(Input)
    /\ bitLen' = bitLen + 8 * blockLen
    /\ LET marked == [block EXCEPT ![blockLen] = Marker]
           edge == BlockSize - LenSize
           full == ZeroTo(marked, blockLen + 1, BlockSize)
       IN  IF blockLen + 1 > edge
             THEN /\ block' = Counted(ZeroTo(full, 0, edge), bitLen')
                  /\ absorbed' = absorbed \o <<full, block'>>
             ELSE /\ block' = Counted(ZeroTo(marked, blockLen + 1, edge), bitLen')
                  /\ absorbed' = Transform(block')
    /\ blockLen' = BlockSize - LenSize
    /\ closed' = TRUE
    /\ UNCHANGED <<stage, keyLen, msgLen, fed>>

NextHash ==
    /\ stage \in {"key", "inner"} /\ closed
    /\ stage' = IF stage = "key" THEN "inner" ELSE "outer"
    /\ Sha256Init
    /\ UNCHANGED <<keyLen, msgLen>>

\* What the context held is gone with the stack frame.
Returns ==
    /\ stage = "outer" /\ closed
    /\ stage' = "idle" /\ keyLen' = 0 /\ msgLen' = 0
    /\ fed' = 0 /\ absorbed' = <<>> /\ closed' = FALSE
    /\ block' = [j \in Places |-> Stale] /\ blockLen' = 0 /\ bitLen' = 0

HmacNext ==
    \/ \E kl \in KeyLens, ml \in MsgLens : Hmac(kl, ml)
    \/ UpdateByte
    \/ Final
    \/ NextHash
    \/ Returns

HmacSpec == HmacInit /\ [][HmacNext]_hmacVars

-----------------------------------------------------------------------------
(* Safety *)

\* The padding SHA-256 defines: the marker, as few zeros as make whole blocks,
\* and the length in bits of the whole input.
PaddedBlocks == (Len(Input) + LenSize) \div BlockSize + 1

PaddedByte(i) ==
    IF i <= Len(Input) THEN Input[i]
    ELSE IF i = Len(Input) + 1 THEN Marker
    ELSE IF i <= PaddedBlocks * BlockSize - LenSize THEN Zero
    ELSE LengthByte(8 * Len(Input), i - 1 - (PaddedBlocks - 1) * BlockSize)

\* Each of the hashes takes in its input, padded as SHA-256 wants it and cut
\* into blocks, at every length, and nothing an earlier hash left in the block.
BlocksAsDefined ==
    closed =>
        /\ Len(absorbed) = PaddedBlocks
        /\ \A q \in 1 .. PaddedBlocks, j \in Places :
               absorbed[q][j] = PaddedByte((q - 1) * BlockSize + j + 1)

\* gw_sha256_update and gw_sha256_final never write outside the block, and the
\* length they put down counts every byte they were fed.
LengthCounts ==
    /\ ~closed => blockLen \in Places
    /\ bitLen + (IF closed THEN 0 ELSE 8 * blockLen) = 8 * fed
=============================================================================
