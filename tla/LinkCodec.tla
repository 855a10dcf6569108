----------------------------- MODULE LinkCodec -----------------------------
(***************************************************************************)
(* gw_link_encode and gw_link_decode with the CRC of gw_crc16.c, and the   *)
(* line between them.  A byte is the set of its bits, a 16-bit register    *)
(* likewise: exclusive or is symmetric difference, and nothing is counted  *)
(* out by size.  A frame is a sequence of bytes.                           *)
(*                                                                         *)
(* The CRC loops of the encoder and of the decoder are steps of their own, *)
(* one byte each.  `trail` is a history variable: the encoder's register   *)
(* behind each byte, for the decoder's to be compared with.                *)
(***************************************************************************)
EXTENDS Naturals, Sequences

CONSTANTS
    MaxPayload,   \* GW_LINK_MAX_PAYLOAD
    OutCap,       \* out_cap of the encoder's caller: GW_LINK_MAX_FRAME_SIZE
    Commands,     \* what callers pass as cmd
    SeqNums,      \* as seq: pairs of bytes, the low one first
    Payloads,     \* as payload
    Noise,        \* the sets of bits the line may flip in a byte
    Tails         \* what may follow a frame without a gap

Byte == SUBSET (0 .. 7)
Word == SUBSET (0 .. 15)

ASSUME CodecAssumption ==
    /\ MaxPayload \in Nat /\ MaxPayload < 256 * 256 /\ OutCap \in Nat
    /\ Commands \subseteq Byte /\ Noise \subseteq Byte
    /\ SeqNums \subseteq Byte \X Byte
    /\ Payloads \subseteq Seq(Byte)
    /\ Tails \subseteq Seq(Byte) \ {<<>>}

VARIABLES
    link,         \* where the frame is
    sent, got,    \* as the encoder and as the decoder has it
    reg, k,       \* the CRC register, and the bytes it stands behind
    trail

linkVars == <<link, sent, got, reg, k, trail>>

-----------------------------------------------------------------------------
(* Numbers *)

SOF == {0, 2, 5, 7}
VERSION == {0}
HeaderSize == 8
CrcSize == 2

Bit(b, i) == IF i \in b THEN 1 ELSE 0

NumByte(b) ==
    Bit(b, 0) + 2 * Bit(b, 1) + 4 * Bit(b, 2) + 8 * Bit(b, 3)
    + 16 * Bit(b, 4) + 32 * Bit(b, 5) + 64 * Bit(b, 6) + 128 * Bit(b, 7)

ByteOf(n) == CHOOSE b \in Byte : NumByte(b) = n

\* read_u16_le; the halves of a register as write_u16_le puts them down.
ReadU16(lo, hi) == NumByte(lo) + 256 * NumByte(hi)
LoByte(w) == w \cap (0 .. 7)
HiByte(w) == {i \in 0 .. 7 : i + 8 \in w}

-----------------------------------------------------------------------------
(* gw_crc16_ccitt_false *)

Xor(v, w) == (v \ w) \cup (w \ v)

Poly == {0, 5, 12}
CrcInit == 0 .. 15

\* Seeded fault: the register is not a register, its top bit drops out unseen.
ShiftBitDropsTop(r) == {i + 1 : i \in r \ {15}}

ShiftBit(r) ==
    LET up == {i + 1 : i \in r \ {15}} IN
    IF 15 \in r THEN Xor(up, Poly) ELSE up

Shift2(r) == ShiftBit(ShiftBit(r))
Shift4(r) == Shift2(Shift2(r))
Shift8(r) == Shift4(Shift4(r))

CrcByte(r, b) == Shift8(Xor(r, {i + 8 : i \in b}))

-----------------------------------------------------------------------------
LinkInit ==
    /\ link = "idle"
    /\ sent = <<>> /\ got = <<>>
    /\ reg = CrcInit /\ k = 0 /\ trail = <<>>

\* The engine passes flags 0.
Header(cmd, seq, plen) ==
    <<SOF, VERSION, {}, cmd, seq[1], seq[2], ByteOf(plen % 256), ByteOf(plen \div 256)>>

\* A payload the encoder refuses leaves nothing behind.
Encode(cmd, seq, payload) ==
    /\ link \in {"idle", "taken", "refused"}
    /\ Len(payload) <= MaxPayload
    /\ HeaderSize + Len(payload) + CrcSize <= OutCap
    /\ sent' = Header(cmd, seq, Len(payload)) \o payload
    /\ reg' = CrcInit /\ k' = 1 /\ trail' = <<CrcInit>>
    /\ got' = <<>>
    /\ link' = "encode"

\* The register runs from the byte behind SOF to the end of the payload.
EncodeByte ==
    /\ link = "encode" /\ k < Len(sent)
    /\ reg' = CrcByte(reg, sent[k + 1])
    /\ trail' = Append(trail, reg')
    /\ k' = k + 1
    /\ UNCHANGED <<link, sent, got>>

EncodeEnds ==
    /\ link = "encode" /\ k = Len(sent)
    /\ sent' = Append(Append(sent, LoByte(reg)), HiByte(reg))
    /\ link' = "line"
    /\ UNCHANGED <<got, reg, k, trail>>

Damaged(p, e, f) == [sent EXCEPT ![p] = Xor(@, e), ![p + 1] = Xor(@, f)]

\* Bits flip in two neighbouring bytes, or in one of them.
Bursts ==
    LET flips == Noise \cup {{}} IN
    { Damaged(p, e, f) : p \in 1 .. Len(sent) - 1, e \in flips, f \in flips }

\* The line may flip bits in a burst, lose the end, or run frames together.
Received ==
    {sent}
    \cup Bursts
    \cup { [i \in 1 .. n |-> sent[i]] : n \in 1 .. Len(sent) }
    \cup { sent \o t : t \in Tails }

Transfer ==
    /\ link = "line"
    /\ got' \in Received
    /\ link' = "decode"
    /\ UNCHANGED <<sent, reg, k, trail>>

\* Seeded fault: a frame may be longer than it says.
HeaderFitsLoose ==
    /\ HeaderSize + CrcSize <= Len(got)
    /\ got[1] = SOF /\ got[2] = VERSION
    /\ ReadU16(got[7], got[8]) <= MaxPayload
    /\ HeaderSize + ReadU16(got[7], got[8]) + CrcSize <= Len(got)

HeaderFits ==
    /\ HeaderSize + CrcSize <= Len(got)
    /\ got[1] = SOF /\ got[2] = VERSION
    /\ ReadU16(got[7], got[8]) <= MaxPayload
    /\ Len(got) = HeaderSize + ReadU16(got[7], got[8]) + CrcSize

DecodeHeader ==
    /\ link = "decode"
    /\ IF HeaderFits THEN link' = "check" ELSE link' = "refused"
    /\ reg' = CrcInit /\ k' = 1
    /\ UNCHANGED <<sent, got, trail>>

\* The payload ends where the header says.
PayloadEnd == HeaderSize + ReadU16(got[7], got[8])

DecodeByte ==
    /\ link = "check" /\ k < PayloadEnd
    /\ reg' = CrcByte(reg, got[k + 1])
    /\ k' = k + 1
    /\ UNCHANGED <<link, sent, got, trail>>

\* Seeded fault: the received CRC is read high byte first.
DecodeEndsBigEndian ==
    /\ link = "check" /\ k = PayloadEnd
    /\ link' = IF got[k + 2] = LoByte(reg) /\ got[k + 1] = HiByte(reg)
                 THEN "taken" ELSE "refused"
    /\ UNCHANGED <<sent, got, reg, k, trail>>

DecodeEnds ==
    /\ link = "check" /\ k = PayloadEnd
    /\ link' = IF got[k + 1] = LoByte(reg) /\ got[k + 2] = HiByte(reg)
                 THEN "taken" ELSE "refused"
    /\ UNCHANGED <<sent, got, reg, k, trail>>

EncodeSome ==
    \E cmd \in Commands, seq \in SeqNums, payload \in Payloads : Encode(cmd, seq, payload)

LinkNext ==
    \/ EncodeSome
    \/ EncodeByte \/ EncodeEnds
    \/ Transfer
    \/ DecodeHeader \/ DecodeByte \/ DecodeEnds

LinkSpec == LinkInit /\ [][LinkNext]_linkVars

-----------------------------------------------------------------------------
(* Safety *)

\* The remainder of x^16 times {0, 3, 7} is {0, 5, 7}: because the CRC is written
\* low byte first, this burst over the last payload byte and the CRC's first
\* byte makes a sound frame again.
BlindSpot == Damaged(Len(sent) - CrcSize, {0, 3, 7}, {0, 5, 7})

\* A frame with a burst in one or two bytes, the end cut off or another frame
\* behind it is refused, whatever its payload and wherever the burst: the CRC of
\* gw_link_decode is blind to one burst only.
OnlyWholeFrames == link = "taken" => got \in {sent, BlindSpot}

\* What the encoder makes, the decoder takes: their two readings of header,
\* length and CRC agree at every payload length.
WholeFramesPass == link = "refused" => got # sent
=============================================================================
