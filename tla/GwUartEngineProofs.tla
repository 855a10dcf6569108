------------------------- MODULE GwUartEngineProofs -------------------------
(***************************************************************************)
(* Theorems about the engine over a UART line, for every MTU, gap, loop    *)
(* period, driver buffer and edge: what a read gathers is in the order it  *)
(* was sent, and a step that ends with it is a step of GwEngine, so that   *)
(* what GwEngineProofs shows of the engine holds over a real line.         *)
(***************************************************************************)
EXTENDS GwUartEngine, GwEngineProofs, SequenceTheorems

Byte == [frame : Nat, pos : Nat, ok : BOOLEAN]

\* A byte of the frames p, of the last of which n bytes have been sent.
SentOf(p, n, b) ==
    /\ b.frame \in 1 .. Len(p)
    /\ b.pos \in 1 .. p[b.frame].len
    /\ b.frame = Len(p) => b.pos <= n

\* A byte the edge has put on the line.
Sent(b) == SentOf(put, out, b)

Before(a, b) == a.frame < b.frame \/ (a.frame = b.frame /\ a.pos < b.pos)

LineTypes ==
    /\ put \in Seq(EdgeFrames) /\ out \in Nat
    /\ put # <<>> => out \in 1 .. put[Len(put)].len
    /\ fifo \in Seq(Byte) /\ buf \in Seq(Byte)
    /\ heard \in Seq(Nat)

\* The bytes of the line, those read first, are in the order they were sent.
Ordered ==
    /\ \A i \in 1 .. Len(fifo) : Sent(fifo[i])
    /\ \A i \in 1 .. Len(buf) : Sent(buf[i])
    /\ \A i, j \in 1 .. Len(fifo) : i < j => Before(fifo[i], fifo[j])
    /\ \A i \in 1 .. Len(buf), j \in 1 .. Len(fifo) : Before(buf[i], fifo[j])

\* Frames heard are whole, and nothing of them or of earlier ones is to come.
HeardFirst ==
    /\ \A k \in 1 .. Len(heard) :
           /\ heard[k] \in 1 .. Len(put)
           /\ heard[k] = Len(put) => out = put[Len(put)].len
    /\ \A k \in 1 .. Len(heard), i \in 1 .. Len(fifo) : heard[k] < fifo[i].frame
    /\ \A k \in 1 .. Len(heard), i \in 1 .. Len(buf) : heard[k] < buf[i].frame
    /\ HeardInOrder

\* A read lasts no longer than a step of a running engine, and holds at most MTU
\* bytes.
ReadState ==
    /\ rpc \in {"off", "poll", "check", "sleep", "doze", "done"}
    /\ rpc = "off" => buf = <<>>
    /\ rpc # "off" => running
    /\ rpc \in {"poll", "check", "sleep", "doze"} =>
           isOpen /\ Mtu <= RxCap /\ Len(buf) < Mtu
    /\ buf # <<>> => isOpen /\ Mtu <= RxCap /\ Len(buf) <= Mtu

LineInv == LineTypes /\ Ordered /\ HeardFirst /\ ReadState

UartInv == IInv /\ LineInv

-----------------------------------------------------------------------------
\* The last frame is one of the edge's, and has at least one byte.
LEMMA FrameAt ==
    ASSUME LineTypes, NEW n \in 1 .. Len(put)
    PROVE  put[n] \in EdgeFrames /\ put[n].len \in Nat \ {0}
<1>1. put[n] \in EdgeFrames
  BY ElementOfSeq DEF LineTypes
<1> QED  BY <1>1, TransportAssumption

LEMMA UartStart0 == UartInit => UartInv
<1> SUFFICES ASSUME UartInit PROVE UartInv
  OBVIOUS
<1>1. IInv
  BY InitIInv DEF UartInit
<1>2. LineInit /\ Len(fifo) = 0 /\ Len(buf) = 0 /\ Len(heard) = 0
  BY EmptySeq DEF UartInit, LineInit
<1>3. LineTypes
  BY <1>2, EmptySeq DEF LineInit, LineTypes
<1>4. Ordered /\ HeardFirst
  BY <1>2 DEF Ordered, HeardFirst, HeardInOrder
<1>5. ReadState
  BY <1>2 DEF LineInit, ReadState
<1> QED  BY <1>1, <1>3, <1>4, <1>5 DEF UartInv, LineInv

\* Where the elements of a sequence are when one is put behind them.
LEMMA AppendPlaces ==
    ASSUME NEW S, NEW s \in Seq(S), NEW x \in S, NEW t, t = Append(s, x)
    PROVE  /\ t \in Seq(S)
           /\ \A i \in 1 .. Len(s) : i \in 1 .. Len(t) /\ t[i] = s[i]
           /\ \A i \in 1 .. Len(t) : i \in 1 .. Len(s) \/ (i = Len(s) + 1 /\ t[i] = x)
<1>1. /\ t \in Seq(S) /\ Len(t) = Len(s) + 1
      /\ \A i \in 1 .. Len(s) : t[i] = s[i]
      /\ t[Len(s) + 1] = x
  BY AppendProperties
<1>2. Len(s) \in Nat
  OBVIOUS
<1>3. ASSUME NEW i \in 1 .. Len(s) PROVE i \in 1 .. Len(t)
  BY <1>1, <1>2
<1>4. ASSUME NEW i \in 1 .. Len(t) PROVE i \in 1 .. Len(s) \/ i = Len(s) + 1
  BY <1>1, <1>2
<1> QED  BY <1>1, <1>3, <1>4, Zenon

\* One byte more behind the others keeps the line in order, whether the driver
\* had room for it or not.
LEMMA ArrivesKeeps ==
    ASSUME LineInv, NEW b \in Byte, NEW fine, Arrives(b, fine),
           put' \in Seq(EdgeFrames), out' \in Nat, put' # <<>>,
           out' \in 1 .. put'[Len(put')].len,
           \A n \in 1 .. Len(put) : n \in 1 .. Len(put') /\ put'[n] = put[n],
           Len(put') = Len(put) => out <= out',
           Len(put) <= Len(put'),
           b.frame = Len(put'), b.pos = out',
           \A c \in Byte : Sent(c) => Before(c, b),
           \A k \in 1 .. Len(heard) : heard[k] < Len(put')
    PROVE  LineTypes' /\ Ordered' /\ HeardFirst'
<1>1. /\ UNCHANGED <<buf, heard>>
      /\ fifo' = Append(fifo, b) \/ fifo' = fifo
  BY DEF Arrives, readVars
<1>2. /\ fifo \in Seq(Byte) /\ buf \in Seq(Byte) /\ heard \in Seq(Nat)
      /\ put \in Seq(EdgeFrames) /\ Len(fifo) \in Nat /\ Len(put) \in Nat
      /\ Len(put') \in Nat /\ out \in Nat /\ out' \in Nat
  BY LenProperties DEF LineInv, LineTypes
<1>3. /\ fifo' \in Seq(Byte)
      /\ \A i \in 1 .. Len(fifo) : i \in 1 .. Len(fifo') /\ fifo'[i] = fifo[i]
      /\ \A i \in 1 .. Len(fifo') :
             \/ i \in 1 .. Len(fifo)
             \/ i = Len(fifo) + 1 /\ fifo'[i] = b
  <2>1. CASE fifo' = Append(fifo, b)
    <3>1. fifo \in Seq(Byte) /\ b \in Byte
      BY <1>2
    <3>2. /\ fifo' \in Seq(Byte)
          /\ \A i \in 1 .. Len(fifo) : i \in 1 .. Len(fifo') /\ fifo'[i] = fifo[i]
      BY <2>1, <3>1, AppendPlaces
    <3>3. \A i \in 1 .. Len(fifo') :
             i \in 1 .. Len(fifo) \/ (i = Len(fifo) + 1 /\ fifo'[i] = b)
      BY <2>1, <3>1, AppendPlaces
    <3> QED  BY <3>2, <3>3
  <2>2. CASE fifo' = fifo
    BY <1>2, <2>2
  <2> QED  BY <1>1, <2>1, <2>2
<1>4. LineTypes'
  BY <1>1, <1>2, <1>3 DEF LineTypes
<1>5. ASSUME NEW c \in Byte, Sent(c) PROVE SentOf(put', out', c)
  <2>1. /\ c.frame \in 1 .. Len(put) /\ c.pos \in 1 .. put[c.frame].len
        /\ c.frame = Len(put) => c.pos <= out
    BY <1>5 DEF Sent, SentOf
  <2>2. c.frame \in 1 .. Len(put') /\ put'[c.frame] = put[c.frame]
    BY <2>1
  <2>3. c.frame = Len(put') => c.pos <= out'
    <3> SUFFICES ASSUME c.frame = Len(put') PROVE c.pos <= out'
      OBVIOUS
    <3>1. Len(put') = Len(put)
      BY <1>2, <2>1
    <3>2. c.pos \in Nat
      BY <1>5 DEF Byte
    <3> QED  BY <1>2, <2>1, <3>1, <3>2
  <2> QED  BY <2>1, <2>2, <2>3 DEF SentOf
<1>6. SentOf(put', out', b)
  <2>1. Len(put') \in 1 .. Len(put')
    BY <1>2, EmptySeq
  <2> QED  BY <1>2, <2>1 DEF SentOf
<1>7. Ordered'
  <2>1. /\ \A i \in 1 .. Len(fifo) : fifo[i] \in Byte /\ Sent(fifo[i])
        /\ \A i \in 1 .. Len(buf) : buf[i] \in Byte /\ Sent(buf[i])
        /\ \A i, j \in 1 .. Len(fifo) : i < j => Before(fifo[i], fifo[j])
        /\ \A i \in 1 .. Len(buf), j \in 1 .. Len(fifo) : Before(buf[i], fifo[j])
    BY <1>2, ElementOfSeq DEF LineInv, Ordered
  <2>2. \A i \in 1 .. Len(fifo') : SentOf(put', out', fifo'[i])
    BY <1>3, <1>5, <1>6, <2>1
  <2>3. \A i \in 1 .. Len(buf) : SentOf(put', out', buf[i])
    BY <1>5, <2>1
  <2>4. \A i, j \in 1 .. Len(fifo') : i < j => Before(fifo'[i], fifo'[j])
    <3> SUFFICES ASSUME NEW i \in 1 .. Len(fifo'), NEW j \in 1 .. Len(fifo'), i < j
                 PROVE  Before(fifo'[i], fifo'[j])
      OBVIOUS
    <3>1. CASE j \in 1 .. Len(fifo)
      <4>1. i \in 1 .. Len(fifo)
        BY <1>2, <3>1
      <4> QED  BY <1>3, <2>1, <3>1, <4>1
    <3>2. CASE j = Len(fifo) + 1 /\ fifo'[j] = b
      <4>1. i \in 1 .. Len(fifo)
        BY <1>2, <3>2
      <4>2. Before(fifo[i], b)
        BY <2>1, <4>1
      <4> QED  BY <1>3, <3>2, <4>1, <4>2
    <3> QED  BY <1>3, <3>1, <3>2
  <2>5. \A i \in 1 .. Len(buf), j \in 1 .. Len(fifo') : Before(buf[i], fifo'[j])
    BY <1>3, <2>1
  <2> QED  BY <1>1, <2>2, <2>3, <2>4, <2>5 DEF Ordered, Sent, Before
<1>8. HeardFirst'
  <2>1. /\ \A k \in 1 .. Len(heard) : heard[k] \in 1 .. Len(put)
        /\ \A k \in 1 .. Len(heard), i \in 1 .. Len(fifo) : heard[k] < fifo[i].frame
        /\ \A k \in 1 .. Len(heard), i \in 1 .. Len(buf) : heard[k] < buf[i].frame
        /\ HeardInOrder
    BY DEF LineInv, HeardFirst
  <2>2. \A k \in 1 .. Len(heard) : heard[k] \in 1 .. Len(put') /\ heard[k] # Len(put')
    <3> TAKE k \in 1 .. Len(heard)
    <3>1. heard[k] \in 1 .. Len(put) /\ heard[k] < Len(put')
      BY <2>1, Zenon
    <3>2. Len(put) \in Nat /\ Len(put') \in Nat
      BY <1>2
    <3> QED  BY <3>1, <3>2
  <2>3. \A k \in 1 .. Len(heard), i \in 1 .. Len(fifo') : heard[k] < fifo'[i].frame
    BY <1>3, <2>1
  <2>4. HeardInOrder'
    BY <1>1, <2>1 DEF HeardInOrder
  <2> QED  BY <1>1, <2>1, <2>2, <2>3, <2>4 DEF HeardFirst
<1> QED  BY <1>4, <1>7, <1>8

LEMMA EdgeStep ==
    ASSUME LineInv, Edge
    PROVE  LineTypes' /\ Ordered' /\ HeardFirst'
<1>1. /\ put \in Seq(EdgeFrames) /\ Len(put) \in Nat /\ out \in Nat
      /\ heard \in Seq(Nat)
  BY LenProperties DEF LineInv, LineTypes
<1>2. ASSUME NEW f \in EdgeFrames, NEW ok \in BOOLEAN, EdgeBegins(f, ok)
      PROVE  LineTypes' /\ Ordered' /\ HeardFirst'
  <2> DEFINE b == [frame |-> Len(put'), pos |-> 1, ok |-> ok]
             fine == Clean /\ f.len <= Mtu
  <2>1. /\ put' = Append(put, f) /\ out' = 1 /\ Arrives(b, fine) /\ ~MidFrame
    BY <1>2 DEF EdgeBegins
  <2>2. /\ put' \in Seq(EdgeFrames) /\ put' # <<>> /\ Len(put') = Len(put) + 1
        /\ \A n \in 1 .. Len(put) : put'[n] = put[n]
        /\ put'[Len(put) + 1] = f
    BY <1>1, <2>1, AppendProperties
  <2>3. out' \in 1 .. put'[Len(put')].len
    BY <2>1, <2>2, TransportAssumption
  <2>4. b \in Byte /\ b.frame = Len(put') /\ b.pos = out'
    BY <1>1, <2>1, <2>2 DEF Byte
  <2>5. \A c \in Byte : Sent(c) => Before(c, b)
    <3> SUFFICES ASSUME NEW c \in Byte, Sent(c) PROVE c.frame < b.frame
      BY DEF Before
    <3> QED  BY <1>1, <2>2 DEF Sent, SentOf
  <2>6. \A k \in 1 .. Len(heard) : heard[k] < Len(put')
    BY <1>1, <2>2 DEF LineInv, HeardFirst
  <2>7. /\ \A n \in 1 .. Len(put) : n \in 1 .. Len(put') /\ put'[n] = put[n]
        /\ Len(put') = Len(put) => out <= out'
        /\ Len(put) <= Len(put') /\ out' \in Nat
    BY <1>1, <2>1, <2>2
  <2> HIDE DEF b, fine
  <2> QED  BY <2>1, <2>2, <2>3, <2>4, <2>5, <2>6, <2>7, ArrivesKeeps
<1>3. ASSUME NEW ok \in BOOLEAN, EdgeGoesOn(ok)
      PROVE  LineTypes' /\ Ordered' /\ HeardFirst'
  <2> DEFINE b == [frame |-> Len(put), pos |-> out', ok |-> ok]
  <2>1. put' = put /\ out' = out + 1 /\ Arrives(b, TRUE) /\ MidFrame
    BY <1>3 DEF EdgeGoesOn
  <2>2. /\ put' \in Seq(EdgeFrames) /\ put' # <<>> /\ Len(put) \in 1 .. Len(put)
        /\ out < put[Len(put)].len /\ put[Len(put)].len \in Nat
    <3>1. put # <<>> /\ out < put[Len(put)].len
      BY <2>1 DEF MidFrame
    <3>2. Len(put) \in 1 .. Len(put)
      BY <1>1, <3>1, EmptySeq
    <3> QED  BY <1>1, <2>1, <3>1, <3>2, FrameAt DEF LineInv
  <2>3. out' \in 1 .. put'[Len(put')].len /\ out' \in Nat
    BY <1>1, <2>1, <2>2
  <2>4. b \in Byte /\ b.frame = Len(put') /\ b.pos = out'
    BY <1>1, <2>1, <2>3 DEF Byte
  <2>5. \A c \in Byte : Sent(c) => Before(c, b)
    <3> SUFFICES ASSUME NEW c \in Byte, Sent(c)
                 PROVE  c.frame < Len(put) \/ (c.frame = Len(put) /\ c.pos < out')
      BY <2>1, <2>4 DEF Before
    <3>1. c.frame \in 1 .. Len(put) /\ (c.frame = Len(put) => c.pos <= out)
      BY DEF Sent, SentOf
    <3>2. c.pos \in Nat
      BY DEF Byte
    <3> QED  BY <1>1, <2>1, <3>1, <3>2
  <2>6. \A k \in 1 .. Len(heard) : heard[k] < Len(put')
    <3> TAKE k \in 1 .. Len(heard)
    <3>1. heard[k] \in 1 .. Len(put) /\ heard[k] # Len(put)
      BY <1>1, <2>2 DEF LineInv, HeardFirst
    <3> QED  BY <1>1, <2>1, <3>1
  <2>7. /\ \A n \in 1 .. Len(put) : n \in 1 .. Len(put') /\ put'[n] = put[n]
        /\ Len(put') = Len(put) => out <= out'
        /\ Len(put) <= Len(put')
    BY <1>1, <2>1
  <2> HIDE DEF b
  <2> QED  BY <2>1, <2>2, <2>3, <2>4, <2>5, <2>6, <2>7, ArrivesKeeps
<1> QED  BY <1>2, <1>3 DEF Edge

\* A byte read moves from the head of the driver's buffer to the end of the read.
LEMMA PollByteStep ==
    ASSUME LineInv, PollByte
    PROVE  LineTypes' /\ Ordered' /\ HeardFirst'
<1>1. /\ fifo # <<>> /\ buf' = Append(buf, Head(fifo)) /\ fifo' = Tail(fifo)
      /\ put' = put /\ out' = out /\ heard' = heard
  BY DEF PollByte, edgeVars
<1>2. /\ fifo \in Seq(Byte) /\ buf \in Seq(Byte) /\ Len(fifo) \in Nat /\ Len(buf) \in Nat
      /\ Len(fifo) # 0
  BY <1>1, LenProperties, EmptySeq DEF LineInv, LineTypes
<1>3. /\ Head(fifo) = fifo[1] /\ Head(fifo) \in Byte
      /\ fifo' \in Seq(Byte) /\ Len(fifo') = Len(fifo) - 1
      /\ \A i \in 1 .. Len(fifo') : fifo'[i] = fifo[i + 1]
  BY <1>1, <1>2, HeadTailProperties
<1>4. /\ buf' \in Seq(Byte) /\ Len(buf') = Len(buf) + 1
      /\ \A i \in 1 .. Len(buf) : buf'[i] = buf[i]
      /\ buf'[Len(buf) + 1] = fifo[1]
  BY <1>1, <1>2, <1>3, AppendProperties
<1>5. LineTypes'
  BY <1>1, <1>3, <1>4 DEF LineInv, LineTypes
<1>6. /\ \A i \in 1 .. Len(fifo') : i + 1 \in 1 .. Len(fifo) /\ 1 < i + 1
      /\ 1 \in 1 .. Len(fifo)
      /\ \A i \in 1 .. Len(buf') : i \in 1 .. Len(buf) \/ i = Len(buf) + 1
  BY <1>2, <1>3, <1>4
<1>7. Ordered'
  <2>1. Ordered
    BY DEF LineInv
  <2>2. \A i \in 1 .. Len(fifo') : SentOf(put', out', fifo'[i])
    BY <1>1, <1>3, <1>6, <2>1, Zenon DEF Ordered, Sent
  <2>3. \A i \in 1 .. Len(buf') : SentOf(put', out', buf'[i])
    BY <1>1, <1>4, <1>6, <2>1, Zenon DEF Ordered, Sent
  <2>4. \A i, j \in 1 .. Len(fifo') : i < j => Before(fifo'[i], fifo'[j])
    <3> SUFFICES ASSUME NEW i \in 1 .. Len(fifo'), NEW j \in 1 .. Len(fifo'), i < j
                 PROVE  Before(fifo'[i], fifo'[j])
      OBVIOUS
    <3>1. i + 1 < j + 1
      BY <1>2, <1>3
    <3> QED  BY <1>3, <1>6, <2>1, <3>1, Zenon DEF Ordered
  <2>5. \A i \in 1 .. Len(buf'), j \in 1 .. Len(fifo') : Before(buf'[i], fifo'[j])
    <3> SUFFICES ASSUME NEW i \in 1 .. Len(buf'), NEW j \in 1 .. Len(fifo')
                 PROVE  Before(buf'[i], fifo'[j])
      OBVIOUS
    <3>1. j + 1 \in 1 .. Len(fifo) /\ 1 < j + 1 /\ 1 \in 1 .. Len(fifo)
          /\ fifo'[j] = fifo[j + 1]
      BY <1>3, <1>6
    <3>2. CASE i \in 1 .. Len(buf)
      BY <1>4, <2>1, <3>1, <3>2, Zenon DEF Ordered
    <3>3. CASE i = Len(buf) + 1
      BY <1>4, <2>1, <3>1, <3>3, Zenon DEF Ordered
    <3> QED  BY <1>6, <3>2, <3>3
  <2> QED  BY <2>2, <2>3, <2>4, <2>5, Zenon DEF Ordered, Sent, Before
<1>8. HeardFirst'
  <2>1. HeardFirst
    BY DEF LineInv
  <2>2. \A k \in 1 .. Len(heard), i \in 1 .. Len(fifo') : heard[k] < fifo'[i].frame
    BY <1>3, <1>6, <2>1, Zenon DEF HeardFirst
  <2>3. \A k \in 1 .. Len(heard), i \in 1 .. Len(buf') : heard[k] < buf'[i].frame
    BY <1>4, <1>6, <2>1, Zenon DEF HeardFirst
  <2>4. HeardInOrder'
    BY <1>1, <2>1 DEF HeardFirst, HeardInOrder
  <2> QED  BY <1>1, <2>1, <2>2, <2>3, <2>4, Zenon DEF HeardFirst
<1> QED  BY <1>5, <1>7, <1>8

\* A frame taken whole is later than those heard before it and earlier than what
\* is still to be read.
LEMMA ReadEndsStep ==
    ASSUME LineInv, ReadEnds
    PROVE  LineTypes' /\ Ordered' /\ HeardFirst'
<1>1. /\ buf' = <<>> /\ fifo' = fifo /\ put' = put /\ out' = out
      /\ heard' = IF Whole THEN Append(heard, buf[1].frame) ELSE heard
  BY DEF ReadEnds, edgeVars
<1>2. /\ fifo \in Seq(Byte) /\ buf \in Seq(Byte) /\ heard \in Seq(Nat)
      /\ put \in Seq(EdgeFrames) /\ Len(put) \in Nat /\ out \in Nat
      /\ Len(heard) \in Nat /\ Len(buf) \in Nat /\ Len(buf') = 0
  BY <1>1, LenProperties, EmptySeq DEF LineInv, LineTypes
<1>3. Ordered'
  <2>1. \A i \in 1 .. Len(buf') : FALSE
    BY <1>2
  <2>2. /\ \A i \in 1 .. Len(fifo) : SentOf(put, out, fifo[i])
        /\ \A i, j \in 1 .. Len(fifo) : i < j => Before(fifo[i], fifo[j])
    BY Zenon DEF LineInv, Ordered, Sent
  <2>3. /\ \A i \in 1 .. Len(fifo') : SentOf(put', out', fifo'[i])
        /\ \A i, j \in 1 .. Len(fifo') : i < j => Before(fifo'[i], fifo'[j])
    BY <1>1, <2>2
  <2> QED  BY <2>1, <2>3, Zenon DEF Ordered, Sent, Before
<1>4. CASE ~Whole
  <2>1. heard' = heard
    BY <1>1, <1>4
  <2>2. LineTypes'
    BY <1>1, <1>2, <2>1 DEF LineInv, LineTypes
  <2>3. HeardFirst'
    <3>1. \A i \in 1 .. Len(buf') : FALSE
      BY <1>2
    <3> QED  BY <1>1, <2>1, <3>1, Zenon DEF LineInv, HeardFirst, HeardInOrder
  <2> QED  BY <1>3, <2>2, <2>3
<1>5. CASE Whole
  <2> DEFINE n == buf[1].frame
  <2>1. /\ buf # <<>> /\ Len(buf) = put[n].len
        /\ \A i \in 1 .. Len(buf) : buf[i].pos = i /\ buf[i].frame = n
    BY <1>5 DEF Whole
  <2>2. 1 \in 1 .. Len(buf) /\ Len(buf) \in 1 .. Len(buf)
    BY <1>2, <2>1, EmptySeq
  <2>3. /\ Sent(buf[1]) /\ Sent(buf[Len(buf)])
        /\ buf[Len(buf)].pos = Len(buf) /\ buf[Len(buf)].frame = n
    BY <2>1, <2>2 DEF LineInv, Ordered
  <2>4. n \in 1 .. Len(put) /\ (n = Len(put) => Len(buf) <= out)
    BY <2>3 DEF Sent, SentOf
  <2>5. n = Len(put) => out = put[Len(put)].len
    <3> SUFFICES ASSUME n = Len(put) PROVE out = put[Len(put)].len
      OBVIOUS
    <3>1. put[n].len <= out /\ Len(buf) = put[n].len
      BY <2>1, <2>4
    <3>2. put # <<>>
      BY <1>2, <2>4, EmptySeq
    <3>3. out \in 1 .. put[n].len
      BY <3>2 DEF LineInv, LineTypes
    <3>4. put[n].len \in Nat
      BY <1>2, <2>1
    <3> QED  BY <1>2, <3>1, <3>3, <3>4
  <2>6. \A k \in 1 .. Len(heard) : heard[k] < n
    BY <2>2 DEF LineInv, HeardFirst
  <2>7. \A i \in 1 .. Len(fifo) : n < fifo[i].frame
    <3> TAKE i \in 1 .. Len(fifo)
    <3>1. Sent(fifo[i]) /\ Before(buf[Len(buf)], fifo[i])
      BY <2>2 DEF LineInv, Ordered
    <3>2. /\ n < fifo[i].frame \/ (n = fifo[i].frame /\ Len(buf) < fifo[i].pos)
          /\ fifo[i].pos \in 1 .. put[fifo[i].frame].len
      BY <2>3, <3>1 DEF Before, Sent, SentOf
    <3>3. ~(n = fifo[i].frame /\ Len(buf) < fifo[i].pos)
      BY <1>2, <2>1, <3>2
    <3> QED  BY <3>2, <3>3
  <2>8. /\ heard' \in Seq(Nat) /\ Len(heard') = Len(heard) + 1
        /\ \A k \in 1 .. Len(heard) : heard'[k] = heard[k]
        /\ heard'[Len(heard) + 1] = n
    <3>1. n \in Nat
      BY <1>2, <2>4
    <3>2. heard' = Append(heard, n)
      BY <1>1, <1>5
    <3> HIDE DEF n
    <3> QED  BY <1>2, <3>1, <3>2, AppendProperties
  <2> HIDE DEF n
  <2>9. LineTypes'
    BY <1>1, <1>2, <2>8 DEF LineInv, LineTypes
  <2>10. \A k \in 1 .. Len(heard') : k \in 1 .. Len(heard) \/ k = Len(heard) + 1
    BY <1>2, <2>8
  <2>11. HeardFirst'
    <3>0. HeardFirst
      BY DEF LineInv
    <3>1. \A k \in 1 .. Len(heard') : /\ heard'[k] \in 1 .. Len(put)
                                      /\ heard'[k] = Len(put) => out = put[Len(put)].len
      BY <2>4, <2>5, <2>8, <2>10, <3>0, Zenon DEF HeardFirst
    <3>2. \A k \in 1 .. Len(heard'), i \in 1 .. Len(fifo) : heard'[k] < fifo[i].frame
      BY <2>7, <2>8, <2>10, <3>0, Zenon DEF HeardFirst
    <3>3. \A i \in 1 .. Len(buf') : FALSE
      BY <1>2
    <3>4. \A i, j \in 1 .. Len(heard') : i < j => heard'[i] < heard'[j]
      <4> SUFFICES ASSUME NEW i \in 1 .. Len(heard'), NEW j \in 1 .. Len(heard'), i < j
                   PROVE  heard'[i] < heard'[j]
        OBVIOUS
      <4>1. i \in 1 .. Len(heard)
        BY <1>2, <2>8
      <4>2. CASE j \in 1 .. Len(heard)
        BY <2>8, <3>0, <4>1, <4>2 DEF HeardFirst, HeardInOrder
      <4>3. CASE j = Len(heard) + 1
        BY <2>6, <2>8, <4>1, <4>3
      <4> QED  BY <2>10, <4>2, <4>3
    <3> QED  BY <1>1, <3>1, <3>2, <3>3, <3>4, Zenon DEF HeardFirst, HeardInOrder
  <2> QED  BY <1>3, <2>9, <2>11
<1> QED  BY <1>4, <1>5

LEMMA LineUnmoved ==
    ASSUME LineInv, UNCHANGED <<put, out, fifo, heard>>, buf' \in {buf, <<>>}
    PROVE  LineTypes' /\ Ordered' /\ HeardFirst'
<1>1. CASE buf' = buf
  BY <1>1
  DEF LineInv, LineTypes, Ordered, Sent, SentOf, Before, HeardFirst, HeardInOrder
<1>2. CASE buf' = <<>>
  <2>1. \A i \in 1 .. Len(buf') : FALSE
    BY <1>2, EmptySeq
  <2>2. buf' \in Seq(Byte)
    BY <1>2, EmptySeq
  <2>3. LineTypes'
    BY <2>2 DEF LineInv, LineTypes
  <2>4. Ordered'
    BY <2>1, Zenon DEF LineInv, Ordered, Sent
  <2>5. HeardFirst'
    BY <2>1, Zenon DEF LineInv, HeardFirst, HeardInOrder
  <2> QED  BY <2>3, <2>4, <2>5
<1> QED  BY <1>1, <1>2

\* Calls on the engine fall between two reads; only a start or a stop changes
\* what a read would find.
LEMMA CallsKeepLine ==
    ASSUME LineInv, UartCalls
    PROVE  LineInv'
<1>1. /\ rpc = "off" /\ rpc' = "off"
      /\ UNCHANGED <<put, out, fifo, buf, heard>>
  BY DEF UartCalls, UartStart, PortOpens, PortCloses, lineVars, edgeVars, readVars
<1>2. LineTypes' /\ Ordered' /\ HeardFirst'
  BY <1>1, LineUnmoved
<1>3. ReadState'
  BY <1>1 DEF LineInv, ReadState
<1> QED  BY <1>2, <1>3 DEF LineInv

LEMMA PollsKeepReadState ==
    ASSUME LineInv, UNCHANGED <<isOpen, running>>,
           StepBegins \/ Polls \/ Edge \/ TimePasses
    PROVE  ReadState'
<1>1. /\ ReadState /\ buf \in Seq(Byte) /\ Len(buf) \in Nat
      /\ Mtu \in Nat \ {0} /\ Kind = "UART"
  BY LenProperties, TransportAssumption, LineAssumption DEF LineInv, LineTypes
<1>2. CASE StepBegins
  <2>1. /\ rpc = "off" /\ running /\ UNCHANGED buf
        /\ \/ rpc' = "poll" /\ isOpen /\ Mtu <= RxCap
           \/ rpc' = "done"
    BY <1>2 DEF StepBegins, ReadBegins
  <2>2. buf = <<>> /\ Len(buf) = 0
    BY <1>1, <2>1, EmptySeq DEF ReadState
  <2>3. Len(buf) < Mtu
    BY <1>1, <2>2
  <2> QED  BY <2>1, <2>2, <2>3 DEF ReadState
<1>3. CASE PollByte
  <2>1. /\ rpc = "poll" /\ isOpen /\ Mtu <= RxCap /\ Len(buf) < Mtu /\ running
        /\ buf' = Append(buf, Head(fifo)) /\ fifo # <<>>
        /\ rpc' = IF Len(buf') < Mtu THEN "poll" ELSE "done"
    BY <1>1, <1>3 DEF ReadState, PollByte
  <2>2. Len(buf') = Len(buf) + 1
    <3>1. Head(fifo) \in Byte
      BY <2>1, HeadTailProperties DEF LineInv, LineTypes
    <3> QED  BY <1>1, <2>1, <3>1, AppendProperties
  <2>3. Len(buf') <= Mtu
    BY <1>1, <2>1, <2>2
  <2> QED  BY <2>1, <2>3 DEF ReadState
<1>4. CASE PollMiss \/ CheckGap
  BY <1>1, <1>4 DEF PollMiss, CheckGap, ReadState
<1>5. CASE PollFails
  BY <1>1, <1>5 DEF PollFails, ReadState
<1>6. CASE Edge
  <2>1. UNCHANGED <<rpc, buf>>
    BY <1>6 DEF Edge, EdgeBegins, EdgeGoesOn, Arrives, readVars
  <2> QED  BY <1>1, <2>1 DEF ReadState
<1>7. CASE TimePasses
  <2>1. /\ buf' = buf
        /\ \/ rpc' = rpc
           \/ rpc \in {"sleep", "doze"} /\ rpc' \in {"poll", "doze"}
    BY <1>7, <1>1 DEF TimePasses, Tick, ReadState
  <2> QED  BY <1>1, <2>1 DEF ReadState
<1> QED  BY <1>2, <1>3, <1>4, <1>5, <1>6, <1>7 DEF Polls

LEMMA LineStep == LineInv /\ [UartNext]_uartVars => LineInv'
<1> SUFFICES ASSUME LineInv, [UartNext]_uartVars PROVE LineInv'
  OBVIOUS
<1>1. CASE UartCalls
  BY <1>1, CallsKeepLine
<1>2. CASE StepBegins \/ Polls \/ Edge \/ TimePasses
  <2>1. UNCHANGED <<isOpen, running>>
    BY <1>2 DEF StepBegins, Polls, Edge, TimePasses, vars, transportVars, engineVars
  <2>2. ReadState'
    BY <1>2, <2>1, PollsKeepReadState
  <2>3. CASE StepBegins \/ PollMiss \/ PollFails \/ CheckGap \/ TimePasses
    <3>1. UNCHANGED <<put, out, fifo, heard>> /\ buf' \in {buf, <<>>}
      BY <2>3 DEF StepBegins, ReadBegins, PollMiss, PollFails, CheckGap, TimePasses,
                  Tick, edgeVars
    <3> QED  BY <2>2, <3>1, LineUnmoved DEF LineInv
  <2>4. CASE PollByte
    BY <2>2, <2>4, PollByteStep DEF LineInv
  <2>5. CASE Edge
    BY <2>2, <2>5, EdgeStep DEF LineInv
  <2> QED  BY <1>2, <2>3, <2>4, <2>5 DEF Polls
<1>3. CASE StepEnds
  <2>1. ReadEnds
    BY <1>3 DEF StepEnds
  <2>2. rpc' = "off" /\ buf' = <<>>
    BY <2>1 DEF ReadEnds
  <2>3. ReadState'
    BY <2>2 DEF ReadState
  <2> QED  BY <2>1, <2>3, ReadEndsStep DEF LineInv
<1>4. CASE UNCHANGED uartVars
  <2>1. UNCHANGED <<put, out, fifo, heard, buf, rpc, isOpen, running>>
    BY <1>4 DEF uartVars, lineVars, edgeVars, readVars, vars, transportVars, engineVars
  <2>2. LineTypes' /\ Ordered' /\ HeardFirst'
    BY <2>1, LineUnmoved
  <2>3. ReadState'
    BY <2>1 DEF LineInv, ReadState
  <2> QED  BY <2>2, <2>3 DEF LineInv
<1> QED  BY <1>1, <1>2, <1>3, <1>4 DEF UartNext

-----------------------------------------------------------------------------
\* What a read made of the line is one of the answers a bus may give.
LEMMA DecodedIsRead ==
    ASSUME LineInv
    PROVE  /\ Decoded \in FramesSeen
           /\ Decoded \in {NoFrame} \cup (IF isOpen /\ Mtu <= RxCap THEN BusReads ELSE {})
<1>1. Kind = "UART"
  BY LineAssumption
<1>2. CASE buf = <<>>
  BY <1>2 DEF Decoded, FramesSeen
<1>3. CASE buf # <<>> /\ ~Whole
  <2>1. Decoded = BadFrame
    BY <1>3 DEF Decoded
  <2>2. isOpen /\ Mtu <= RxCap
    BY <1>3 DEF LineInv, ReadState
  <2> QED  BY <1>1, <2>1, <2>2 DEF FramesSeen, BusReads
<1>4. CASE buf # <<>> /\ Whole
  <2> DEFINE f == put[buf[1].frame]
  <2>1. Decoded = f
    BY <1>4 DEF Decoded
  <2>2. isOpen /\ Mtu <= RxCap /\ Len(buf) <= Mtu
    BY <1>4 DEF LineInv, ReadState
  <2>3. f.len = Len(buf)
    BY <1>4 DEF Whole
  <2>4. f \in EdgeFrames
    <3>1. Len(buf) \in Nat /\ Len(buf) # 0
      BY <1>4, LenProperties, EmptySeq DEF LineInv, LineTypes
    <3>2. buf[1].frame \in 1 .. Len(put)
      BY <3>1 DEF LineInv, Ordered, Sent, SentOf
    <3> QED  BY <3>2, FrameAt DEF LineInv
  <2> QED  BY <1>1, <2>1, <2>2, <2>3, <2>4 DEF FramesSeen, BusReads
<1> QED  BY <1>2, <1>3, <1>4

\* Every step of the engine and its line is a step of the engine alone, or none.
LEMMA UartStepIsStep ==
    ASSUME UartInv, [UartNext]_uartVars
    PROVE  [Next]_vars
<1>1. CASE UartCalls
  BY <1>1, Zenon DEF UartCalls, UartStart, Next, Start
<1>2. CASE StepBegins \/ Polls \/ Edge \/ TimePasses
  BY <1>2 DEF StepBegins, Polls, Edge, TimePasses
<1>3. CASE StepEnds
  <2>1. running
    BY <1>3 DEF UartInv, LineInv, ReadState, StepEnds, ReadEnds
  <2>2. Kind = "UART" /\ stagedFor = 0 /\ handled = 0
    BY LineAssumption DEF UartInv, IInv, SlotIsNewest, BusHasNoSlot
  <2>3. UNCHANGED <<transportVars, initialized, running, txSeq, history>>
    BY <1>3 DEF StepEnds
  <2>4. Decoded \in FramesSeen /\ TransportRx(Decoded)
    BY <2>2, <2>3, DecodedIsRead DEF UartInv, TransportRx, BusRx
  <2>5. NoteHandled(Decoded)
    BY <2>2, <2>3 DEF NoteHandled, history
  <2>6. CASE /\ HandleIncomingFrame(Decoded, FALSE)
             /\ engState' = "FAULT" /\ UNCHANGED cloudVars
    <3>1. StepRefusesFrame(Decoded)
      BY <2>1, <2>3, <2>4, <2>5, <2>6 DEF StepRefusesFrame
    <3> QED  BY <2>4, <3>1, Zenon DEF Next, Step
  <2>7. ASSUME NEW rc \in {"OK", "ENOTCONN", "ERR"},
               HandleIncomingFrame(Decoded, TRUE), CloudPump(rc),
               engState' = IF rc = "ERR" THEN "FAULT" ELSE engState
        PROVE  Next
    <3>1. StepPumps(Decoded, rc)
      <4>1. engState' = IF rc \in {"OK", "ENOTCONN"} THEN engState ELSE "FAULT"
        BY <2>7
      <4> QED  BY <2>1, <2>3, <2>4, <2>5, <2>7, <4>1 DEF StepPumps
    <3> QED  BY <2>4, <3>1, Zenon DEF Next, Step
  <2> QED  BY <1>3, <2>6, <2>7 DEF StepEnds
<1>4. CASE UNCHANGED uartVars
  BY <1>4 DEF uartVars
<1> QED  BY <1>1, <1>2, <1>3, <1>4 DEF UartNext

LEMMA UartStep == UartInv /\ [UartNext]_uartVars => UartInv' /\ [Next]_vars
<1> SUFFICES ASSUME UartInv, [UartNext]_uartVars PROVE UartInv' /\ [Next]_vars
  OBVIOUS
<1>1. [Next]_vars
  BY UartStepIsStep
<1>2. IInv'
  BY <1>1, NextIInv DEF UartInv
<1>3. LineInv'
  BY LineStep DEF UartInv
<1> QED  BY <1>1, <1>2, <1>3 DEF UartInv

\* The line is in order, and a read stays inside its step and its MTU.
THEOREM UartInvariance == UartSpec => []UartInv
  BY UartStart0, UartStep, PTL DEF UartSpec

\* gw_port_uart_rx may merge frames or split them, lose bytes or stop early, and
\* still hands the engine whole frames only, in the order sent and none twice.
THEOREM UartHeardInOrder == UartSpec => []HeardInOrder
<1>1. UartInv => HeardInOrder
  BY DEF UartInv, LineInv, HeardFirst
<1> QED  BY <1>1, UartInvariance, PTL

\* The engine with a UART line behind it implements GwEngine: what a read yields
\* and when never shows it anything a bus read there could not.
THEOREM UartIsEngine == UartSpec => IsEngine
<1>1. UartInit => Init
  BY DEF UartInit
<1> QED  BY <1>1, UartStep, UartInvariance, PTL DEF UartSpec, Spec, IsEngine

\* So the lifecycle of an engine over a real line agrees with itself as well: the
\* line is open exactly while it runs, and no cloud session outlives it.
THEOREM UartLifecycle ==
    UartSpec => [](OpenIffRunning /\ CloudUpOnlyWhileRunning /\ StateAgrees)
  BY UartIsEngine, TransportFollows, CloudFollows, StateFollows, PTL DEF IsEngine

\* What the engine promises its callers it promises over a line that loses, merges
\* and mangles bytes: the calls of EnginePort, a fault that stays until the stop, an
\* update that only moves forward, no silent reconnect.
THEOREM UartPromises ==
    UartSpec => /\ KeepsEnginePort /\ FaultLatched
                /\ UpdateOnlyForward /\ NoReconnectWhileRunning
  BY UartIsEngine, ImplementsEnginePort, FaultStays, UpdateMovesForward, DownStaysDown, PTL
  DEF IsEngine
-----------------------------------------------------------------------------
(* A calm line *)

\* Byte number i of frame n, as it was sent.
Sound(n, i) == [frame |-> n, pos |-> i, ok |-> TRUE]

LineEmpty == fifo = <<>> /\ buf = <<>> /\ ~MidFrame

\* The newest frame has the line to itself, and all of it that was sent is there.
InFlight ==
    /\ isOpen /\ put # <<>> /\ put[Len(put)].len <= Mtu
    /\ Len(buf) + Len(fifo) = out
    /\ \A i \in 1 .. Len(buf) : buf[i] = Sound(Len(put), i)
    /\ \A i \in 1 .. Len(fifo) : fifo[i] = Sound(Len(put), Len(buf) + i)

\* A byte the driver holds has waited no longer than since the loop, or the
\* reader, was last there.
DriverPrompt ==
    fifo # <<>> => /\ rpc = "off" => pause <= idle
                   /\ rpc = "poll" => pause <= ReadDelay
                   /\ rpc = "doze" => pause <= 1
                   /\ rpc \in {"check", "sleep", "done"} => pause = 0

\* With the driver empty, the reader's clock lags behind the edge's pause by no
\* more than the last byte waited; so a gap is seen behind a whole frame only.
ReaderPrompt ==
    /\ buf # <<>> /\ fifo = <<>> => age <= pause /\ pause <= age + ReadDelay
    /\ rpc = "check" /\ age >= GapMs => ~MidFrame /\ fifo = <<>>
    /\ rpc = "done" /\ buf # <<>> => ~MidFrame /\ fifo = <<>>

Prompt == (MidFrame => pause <= 1) /\ DriverPrompt /\ ReaderPrompt

Ages ==
    /\ pause \in 0 .. Turnaround /\ age \in 0 .. GapMs + 1 /\ idle \in 0 .. LoopMs
    /\ rpc = "sleep" => age < GapMs
    /\ rpc = "doze" => age <= GapMs
    /\ rpc \in {"check", "sleep", "doze"} => buf # <<>>
    /\ portOpen = isOpen
    /\ calm \in BOOLEAN

CalmLine == LineEmpty \/ (InFlight /\ Prompt)

CalmInv == UartInv /\ Ages /\ (calm => CalmLine)

LEMMA DelayBounds ==
    /\ GapMs \in Nat \ {0} /\ LoopMs \in Nat
    /\ ReadDelay \in Nat /\ ReadDelay >= 2 /\ ReadDelay >= LoopMs
    /\ Turnaround = ReadDelay + GapMs + 2
  BY LineAssumption DEF ReadDelay, Turnaround

\* The parts of the state the argument reads, with their types.
LEMMA CalmTypes ==
    ASSUME CalmInv
    PROVE  /\ fifo \in Seq(Byte) /\ buf \in Seq(Byte) /\ Len(fifo) \in Nat /\ Len(buf) \in Nat
           /\ (fifo = <<>> <=> Len(fifo) = 0) /\ (buf = <<>> <=> Len(buf) = 0)
           /\ put \in Seq(EdgeFrames) /\ Len(put) \in Nat
           /\ put # <<>> => Len(put) \in 1 .. Len(put) /\ out \in 1 .. put[Len(put)].len
                            /\ put[Len(put)].len \in Nat
           /\ pause \in Nat /\ age \in Nat /\ idle \in Nat /\ out \in Nat
           /\ rpc \in {"off", "poll", "check", "sleep", "doze", "done"}
<1>1. LineTypes /\ ReadState /\ Ages
  BY DEF CalmInv, UartInv, LineInv
<1>2. put \in Seq(EdgeFrames) /\ Len(put) \in Nat /\ fifo \in Seq(Byte) /\ buf \in Seq(Byte)
      /\ Len(fifo) \in Nat /\ Len(buf) \in Nat
      /\ (fifo = <<>> <=> Len(fifo) = 0) /\ (buf = <<>> <=> Len(buf) = 0)
  BY <1>1, LenProperties, EmptySeq DEF LineTypes
<1>3. put # <<>> => Len(put) \in 1 .. Len(put) /\ out \in 1 .. put[Len(put)].len
                   /\ put[Len(put)].len \in Nat
  BY <1>1, <1>2, EmptySeq, FrameAt DEF LineTypes
<1>4. pause \in Nat /\ age \in Nat /\ idle \in Nat /\ out \in Nat
  BY <1>1, DelayBounds DEF Ages, LineTypes
<1> QED  BY <1>1, <1>2, <1>3, <1>4 DEF ReadState

LEMMA CalmStart == UartInit => CalmInv
<1> SUFFICES ASSUME UartInit PROVE CalmInv
  OBVIOUS
<1>1. Ages
  <2>1. /\ pause = Turnaround /\ age = 0 /\ idle = 0 /\ rpc = "off"
        /\ portOpen = FALSE /\ isOpen = FALSE /\ calm = TRUE
    BY DEF UartInit, Init, LineInit
  <2>2. pause \in 0 .. Turnaround /\ age \in 0 .. GapMs + 1 /\ idle \in 0 .. LoopMs
    BY <2>1, DelayBounds
  <2> QED  BY <2>1, <2>2 DEF Ages
<1>2. LineEmpty
  BY DEF UartInit, LineInit, LineEmpty, MidFrame
<1> QED  BY <1>1, <1>2, UartStart0 DEF CalmInv, CalmLine

LEMMA AgesStep ==
    ASSUME CalmInv, [UartNext]_uartVars
    PROVE  Ages'
<1>1. Ages /\ ReadState /\ OpenIffRunning
  BY DEF CalmInv, UartInv, IInv, LineInv
<1>2. CASE UartCalls
  <2>1. UNCHANGED <<pause, age, idle, rpc, buf>> /\ rpc = "off" /\ calm' \in BOOLEAN
    BY <1>1, <1>2
    DEF UartCalls, UartStart, PortOpens, PortCloses, lineVars, edgeVars, readVars, Ages
  <2>2. portOpen' = isOpen'
    <3>1. CASE UartStart
      <4>1. CASE StartNoTransport /\ PortOpens(FALSE)
        <5>1. isOpen = FALSE
          BY <1>1, <4>1 DEF StartNoTransport, OpenIffRunning, CalmInv, UartInv, IInv, TypeOK,
                            TransportTypeOK
        <5> QED  BY <4>1, <5>1 DEF StartNoTransport, PortOpens, TransportOpen
      <4>2. CASE StartUp /\ PortOpens(TRUE)
        <5>1. isOpen' = TRUE
          BY <4>2 DEF StartUp, TransportOpen
        <5> QED  BY <4>2, <5>1 DEF PortOpens
      <4>3. ASSUME NEW rc, StartNoCloud(rc), PortCloses PROVE portOpen' = isOpen'
        BY <4>3 DEF StartNoCloud, TransportClose, PortCloses
      <4> QED  BY <3>1, <4>1, <4>2, <4>3 DEF UartStart
    <3>2. CASE Stop /\ PortCloses
      BY <3>2 DEF Stop, PortCloses, TransportClose
    <3>3. CASE UNCHANGED lineVars /\ UNCHANGED isOpen
      BY <1>1, <3>3 DEF lineVars, Ages
    <3>4. Initialise => UNCHANGED isOpen
      BY DEF Initialise, EngineInit, transportVars
    <3>5. ASSUME NEW plen, NEW ok, Send(plen, ok) PROVE UNCHANGED isOpen
      BY <3>5, Zenon DEF Send, TransportTx, transportVars
    <3>6. ASSUME NEW rc, PublishTelemetry(rc) PROVE UNCHANGED isOpen
      BY <3>6 DEF PublishTelemetry, transportVars
    <3> QED  BY <1>2, <3>1, <3>2, <3>3, <3>4, <3>5, <3>6 DEF UartCalls
  <2> QED  BY <1>1, <2>1, <2>2 DEF Ages
<1>3. CASE StepBegins \/ Polls \/ Edge \/ TimePasses
  <2>1. isOpen' = isOpen /\ portOpen' = portOpen
    BY <1>3
    DEF StepBegins, Polls, Edge, TimePasses, vars, transportVars, ReadBegins, PollByte,
        PollMiss, PollFails, CheckGap, EdgeBegins, EdgeGoesOn, Arrives, Tick
  <2>2. CASE StepBegins
    BY <1>1, <2>1, <2>2 DEF StepBegins, ReadBegins, edgeVars, Ages, Settled
  <2>3. CASE PollByte
    <3>1. UNCHANGED <<pause, idle, calm>> /\ age' = 0 /\ rpc' \in {"poll", "done"}
      BY <2>3 DEF PollByte, edgeVars
    <3> QED  BY <1>1, <2>1, <3>1, DelayBounds DEF Ages
  <2>4. CASE PollMiss \/ PollFails \/ CheckGap
    <3>1. UNCHANGED <<pause, idle, age>> /\ calm' \in BOOLEAN
      BY <1>1, <2>4 DEF PollMiss, PollFails, CheckGap, edgeVars, Ages
    <3>2. \/ rpc' \in {"done", "poll"}
          \/ rpc' = "check" /\ buf' # <<>>
          \/ rpc' = "sleep" /\ buf' = buf /\ buf # <<>> /\ age < GapMs
      BY <1>1, <2>4, DelayBounds DEF PollMiss, PollFails, CheckGap, Ages
    <3> QED  BY <1>1, <2>1, <3>1, <3>2 DEF Ages
  <2>5. CASE Edge
    <3>1. UNCHANGED <<age, idle, rpc, buf>> /\ pause' = 0 /\ calm' \in BOOLEAN
      BY <2>5 DEF Edge, EdgeBegins, EdgeGoesOn, Arrives, readVars
    <3> QED  BY <1>1, <2>1, <3>1, DelayBounds DEF Ages
  <2>6. CASE TimePasses
    <3>1. /\ pause' \in 0 .. Turnaround /\ age' \in 0 .. GapMs + 1 /\ idle' \in 0 .. LoopMs
          /\ buf' = buf /\ calm' \in BOOLEAN
      <4>1. buf' = buf /\ calm' \in BOOLEAN
        BY <1>1, <2>6 DEF TimePasses, Tick, Ages
      <4>2. pause' \in 0 .. Turnaround
        BY <1>1, <2>6, DelayBounds DEF TimePasses, Tick, Capped, Ages
      <4>3. age' \in 0 .. GapMs + 1
        BY <1>1, <2>6, DelayBounds DEF TimePasses, Tick, Capped, Ages
      <4>4. idle' \in 0 .. LoopMs
        BY <1>1, <2>6, DelayBounds DEF TimePasses, Tick, Capped, Ages
      <4> QED  BY <4>1, <4>2, <4>3, <4>4
    <3>2. age' <= age + 1
      BY <1>1, <2>6, DelayBounds DEF TimePasses, Tick, Capped, Ages
    <3>3. \/ rpc' = rpc /\ rpc \notin {"sleep", "doze"}
          \/ rpc = "sleep" /\ rpc' = "doze"
          \/ rpc \in {"sleep", "doze"} /\ rpc' = "poll"
      BY <2>6 DEF TimePasses, Tick
    <3>4. rpc' = "doze" => age' <= GapMs
      BY <1>1, <3>1, <3>2, <3>3, DelayBounds DEF Ages
    <3> QED  BY <1>1, <2>1, <3>1, <3>3, <3>4 DEF Ages
  <2> QED  BY <1>3, <2>2, <2>3, <2>4, <2>5, <2>6 DEF Polls
<1>4. CASE StepEnds
  <2>1. UNCHANGED <<pause, age, portOpen, isOpen>> /\ rpc' = "off" /\ idle' = 0
        /\ calm' \in BOOLEAN
    BY <1>4 DEF StepEnds, ReadEnds, edgeVars, transportVars, Settled
  <2> QED  BY <1>1, <2>1, DelayBounds DEF Ages
<1>5. CASE UNCHANGED uartVars
  BY <1>1, <1>5
  DEF uartVars, lineVars, edgeVars, readVars, vars, transportVars, Ages, Turnaround, ReadDelay
<1> QED  BY <1>2, <1>3, <1>4, <1>5 DEF UartNext

\* Where nothing on the line moves, it stays as calm as it was.
LEMMA CalmUnmoved ==
    ASSUME CalmLine, UNCHANGED <<put, out, pause, fifo, rpc, buf, age, idle, isOpen>>
    PROVE  CalmLine'
  BY DEF CalmLine, LineEmpty, MidFrame, InFlight, Sound, Prompt, DriverPrompt, ReaderPrompt,
         ReadDelay

LEMMA SettledLine == ASSUME CalmInv, Settled PROVE CalmLine
  BY DEF CalmInv, Settled, Clean, CalmLine, LineEmpty

LEMMA CalmCalls == ASSUME CalmInv, UartCalls, calm' PROVE CalmLine'
<1>1. UNCHANGED lineVars
  BY DEF UartCalls, UartStart, PortOpens, PortCloses
<1>2. portOpen' = isOpen' /\ portOpen = isOpen
  BY AgesStep DEF UartNext, CalmInv, Ages
<1>3. calm
  BY <1>1 DEF lineVars
<1>4. CalmLine
  BY <1>3 DEF CalmInv
<1> QED  BY <1>1, <1>2, <1>4, CalmUnmoved DEF lineVars, edgeVars, readVars

LEMMA CalmBegins == ASSUME CalmInv, StepBegins, calm' PROVE CalmLine'
<1>1. /\ rpc = "off" /\ running /\ Settled
      /\ UNCHANGED <<put, out, pause, fifo, buf, age, idle, isOpen>>
      /\ rpc' = IF isOpen /\ Mtu <= RxCap /\ portOpen THEN "poll" ELSE "done"
  BY DEF StepBegins, ReadBegins, edgeVars, vars, transportVars
<1>2. rpc' = "poll" /\ buf = <<>>
  BY <1>1, LineAssumption
  DEF CalmInv, Ages, UartInv, IInv, OpenIffRunning, LineInv, ReadState
<1>3. CalmLine
  BY <1>1, SettledLine
<1>4. CASE LineEmpty
  BY <1>1, <1>4 DEF LineEmpty, MidFrame, CalmLine
<1>5. CASE InFlight /\ Prompt
  <2>1. InFlight'
    BY <1>1, <1>5 DEF InFlight, Sound
  <2>2. fifo # <<>> => pause <= ReadDelay
    BY <1>1, <1>5, DelayBounds, CalmTypes DEF Prompt, DriverPrompt, CalmInv, Ages
  <2>3. Prompt'
    BY <1>1, <1>2, <1>5, <2>2 DEF Prompt, DriverPrompt, ReaderPrompt, MidFrame, ReadDelay
  <2> QED  BY <2>1, <2>3 DEF CalmLine
<1> QED  BY <1>3, <1>4, <1>5 DEF CalmLine

\* A read that is full has all of its frame, which is no longer than the MTU.
LEMMA CalmPollByte == ASSUME CalmInv, PollByte, UNCHANGED isOpen, calm' PROVE CalmLine'
<1>1. /\ rpc = "poll" /\ fifo # <<>>
      /\ buf' = Append(buf, Head(fifo)) /\ fifo' = Tail(fifo) /\ age' = 0
      /\ rpc' = IF Len(buf') < Mtu THEN "poll" ELSE "done"
      /\ UNCHANGED <<put, out, pause, isOpen>> /\ calm
  BY DEF PollByte, edgeVars
<1>2. InFlight /\ Prompt
  BY <1>1 DEF CalmInv, CalmLine, LineEmpty
<1> DEFINE n == Len(put)
<1>3. /\ fifo \in Seq(Byte) /\ buf \in Seq(Byte) /\ Len(fifo) \in Nat \ {0} /\ Len(buf) \in Nat
      /\ out \in 1 .. put[n].len /\ put[n].len \in Nat /\ pause \in Nat /\ Mtu \in Nat
  BY <1>1, <1>2, CalmTypes, TransportAssumption DEF InFlight
<1>4. /\ Head(fifo) = fifo[1] /\ Head(fifo) \in Byte
      /\ fifo' \in Seq(Byte) /\ Len(fifo') = Len(fifo) - 1
      /\ \A i \in 1 .. Len(fifo') : fifo'[i] = fifo[i + 1]
  BY <1>1, <1>3, HeadTailProperties
<1>5. /\ buf' \in Seq(Byte) /\ Len(buf') = Len(buf) + 1
      /\ \A i \in 1 .. Len(buf) : buf'[i] = buf[i]
      /\ buf'[Len(buf) + 1] = fifo[1]
  BY <1>1, <1>3, <1>4, AppendProperties
<1>6. \A i \in 1 .. Len(buf') : buf'[i] = Sound(n, i)
  <2> SUFFICES ASSUME NEW i \in 1 .. Len(buf') PROVE buf'[i] = Sound(n, i)
    OBVIOUS
  <2>1. CASE i \in 1 .. Len(buf)
    BY <1>2, <1>5, <2>1 DEF InFlight
  <2>2. CASE i = Len(buf) + 1
    BY <1>2, <1>3, <1>5, <2>2 DEF InFlight
  <2> QED  BY <1>3, <1>5, <2>1, <2>2
<1>7. \A i \in 1 .. Len(fifo') : fifo'[i] = Sound(n, Len(buf') + i)
  <2> SUFFICES ASSUME NEW i \in 1 .. Len(fifo') PROVE fifo'[i] = Sound(n, Len(buf') + i)
    OBVIOUS
  <2>1. i + 1 \in 1 .. Len(fifo) /\ Len(buf) + (i + 1) = Len(buf') + i
    BY <1>3, <1>4, <1>5
  <2> QED  BY <1>2, <1>4, <2>1 DEF InFlight
<1>8. Len(buf') + Len(fifo') = out
  <2>1. Len(buf) + Len(fifo) = out
    BY <1>2 DEF InFlight
  <2> QED  BY <1>3, <1>4, <1>5, <2>1
<1>9. InFlight'
  BY <1>1, <1>2, <1>6, <1>7, <1>8 DEF InFlight
<1>10. pause <= ReadDelay
  BY <1>1, <1>2 DEF Prompt, DriverPrompt
<1>11. rpc' = "done" => ~MidFrame' /\ fifo' = <<>>
  <2> SUFFICES ASSUME rpc' = "done" PROVE ~MidFrame' /\ fifo' = <<>>
    OBVIOUS
  <2>1. Len(buf') >= Mtu /\ put[n].len <= Mtu
    BY <1>1, <1>2, <1>3, <1>5 DEF InFlight
  <2>2. out = put[n].len /\ Len(fifo') = 0
    BY <1>3, <1>4, <1>5, <1>8, <2>1
  <2>3. fifo' = <<>>
    BY <1>4, <2>2, EmptySeq
  <2>4. ~(out < put[n].len)
    BY <1>3, <2>2
  <2> QED  BY <1>1, <2>3, <2>4 DEF MidFrame
<1>12. ReadDelay' = ReadDelay /\ MidFrame' = MidFrame /\ rpc' \in {"poll", "done"}
  BY <1>1 DEF ReadDelay, MidFrame
<1>13. Prompt'
  <2>1. DriverPrompt'
    BY <1>1, <1>10, <1>11, <1>12 DEF DriverPrompt
  <2>2. ReaderPrompt'
    BY <1>1, <1>3, <1>10, <1>11, <1>12, DelayBounds DEF ReaderPrompt
  <2> QED  BY <1>1, <1>2, <1>12, <2>1, <2>2 DEF Prompt
<1> QED  BY <1>9, <1>13 DEF CalmLine

LEMMA CalmPolls ==
    ASSUME GapMs >= 2, CalmInv, PollMiss \/ PollFails \/ CheckGap, UNCHANGED isOpen, calm'
    PROVE  CalmLine'
<1>1. /\ ~PollFails /\ calm
      /\ UNCHANGED <<put, out, pause, fifo, buf, age, idle, isOpen>>
  BY DEF PollMiss, PollFails, CheckGap, edgeVars
<1>2. CASE LineEmpty
  BY <1>1, <1>2 DEF LineEmpty, MidFrame, CalmLine
<1>3. CASE InFlight /\ Prompt
  <2>1. InFlight'
    BY <1>1, <1>3 DEF InFlight, Sound
  <2>2. ReadDelay' = ReadDelay /\ MidFrame' = MidFrame
    BY <1>1 DEF ReadDelay, MidFrame
  <2>3. GapMs \in Nat /\ age \in Nat /\ pause \in Nat
    BY DelayBounds, CalmTypes
  <2>4. CASE PollMiss
    <3>1. fifo = <<>> /\ buf # <<>> /\ rpc' = "check"
      <4>1. rpc = "poll" /\ fifo = <<>> /\ rpc' = IF buf = <<>> THEN "done" ELSE "check"
        BY <2>4 DEF PollMiss
      <4>2. Len(buf) # 0
        BY <1>3, <4>1, CalmTypes DEF InFlight
      <4> QED  BY <4>1, <4>2, CalmTypes
    <3>2. age >= GapMs => ~MidFrame
      BY <1>3, <2>3, <3>1 DEF Prompt, ReaderPrompt
    <3> QED  BY <1>1, <1>3, <2>1, <2>2, <3>1, <3>2
             DEF CalmLine, Prompt, DriverPrompt, ReaderPrompt
  <2>5. CASE CheckGap
    <3>1. rpc = "check" /\ rpc' = IF age >= GapMs THEN "done" ELSE "sleep"
      BY <2>5 DEF CheckGap
    <3>2. rpc' = "done" => ~MidFrame /\ fifo = <<>>
      BY <1>3, <3>1 DEF Prompt, ReaderPrompt
    <3>3. fifo # <<>> => pause = 0
      BY <1>3, <3>1 DEF Prompt, DriverPrompt
    <3>4. ReaderPrompt'
      BY <1>1, <1>3, <2>2, <3>1, <3>2 DEF Prompt, ReaderPrompt
    <3>5. DriverPrompt'
      BY <1>1, <2>2, <3>1, <3>3 DEF DriverPrompt
    <3> QED  BY <1>1, <1>3, <2>1, <2>2, <3>4, <3>5 DEF CalmLine, Prompt
  <2> QED  BY <1>1, <2>4, <2>5
<1> QED  BY <1>1, <1>2, <1>3 DEF CalmInv, CalmLine

\* What a read over a settled line ends with: nothing, or the newest frame, whole,
\* with nothing behind it.
LEMMA SettledRead ==
    ASSUME CalmInv, Settled, rpc = "done", buf # <<>>
    PROVE  Whole /\ buf[1].frame = Len(put) /\ fifo = <<>> /\ ~MidFrame
<1>1. InFlight /\ Prompt
  BY SettledLine DEF CalmLine, LineEmpty
<1>2. fifo = <<>> /\ ~MidFrame
  BY <1>1 DEF Prompt, ReaderPrompt
<1>3. /\ Len(fifo) = 0 /\ Len(buf) \in Nat \ {0} /\ put # <<>>
      /\ out \in 1 .. put[Len(put)].len /\ put[Len(put)].len \in Nat
  BY <1>1, <1>2, CalmTypes DEF InFlight
<1>4. Len(buf) = out /\ out = put[Len(put)].len
  BY <1>1, <1>2, <1>3 DEF InFlight, MidFrame
<1>5. \A i \in 1 .. Len(buf) : buf[i].ok /\ buf[i].pos = i /\ buf[i].frame = Len(put)
  <2> TAKE i \in 1 .. Len(buf)
  <2>1. buf[i] = [frame |-> Len(put), pos |-> i, ok |-> TRUE]
    BY <1>1 DEF InFlight, Sound
  <2> QED  BY <2>1
<1>6. 1 \in 1 .. Len(buf)
  BY <1>3
<1> QED  BY <1>2, <1>3, <1>4, <1>5, <1>6 DEF Whole

LEMMA CalmEnds == ASSUME CalmInv, ReadEnds, UNCHANGED isOpen, calm' PROVE CalmLine'
<1>1. /\ rpc = "done" /\ rpc' = "off" /\ buf' = <<>> /\ idle' = 0 /\ Settled
      /\ UNCHANGED <<put, out, pause, fifo, age, isOpen>>
  BY DEF ReadEnds, edgeVars
<1>2. MidFrame' = MidFrame
  BY <1>1 DEF MidFrame
<1>3. CASE buf # <<>>
  <2>1. fifo = <<>> /\ ~MidFrame
    BY <1>1, <1>3, SettledRead
  <2> QED  BY <1>1, <1>2, <2>1 DEF CalmLine, LineEmpty
<1>4. CASE LineEmpty
  BY <1>1, <1>2, <1>4 DEF CalmLine, LineEmpty
<1>5. CASE buf = <<>> /\ InFlight /\ Prompt
  <2>1. InFlight'
    BY <1>1, <1>5 DEF InFlight, Sound
  <2>2. fifo # <<>> => pause = 0
    BY <1>1, <1>5 DEF Prompt, DriverPrompt
  <2> QED  BY <1>1, <1>2, <1>5, <2>1, <2>2 DEF CalmLine, Prompt, DriverPrompt, ReaderPrompt
<1> QED  BY <1>1, <1>3, <1>4, <1>5, SettledLine DEF CalmLine

LEMMA CalmFrameBegins ==
    ASSUME CalmInv, NEW f \in EdgeFrames, NEW ok \in BOOLEAN, EdgeBegins(f, ok),
           UNCHANGED isOpen, calm'
    PROVE  CalmLine'
<1> DEFINE b == [frame |-> Len(put'), pos |-> 1, ok |-> ok]
<1>1. /\ put' = Append(put, f) /\ out' = 1 /\ pause' = 0
      /\ Clean /\ f.len <= Mtu /\ ok
      /\ fifo' = IF Len(fifo) < FifoSize THEN Append(fifo, b) ELSE fifo
      /\ Len(fifo) < FifoSize
      /\ UNCHANGED <<rpc, buf, age, idle, isOpen>>
  BY DEF EdgeBegins, Arrives, readVars
<1>2. isOpen /\ fifo = <<>> /\ buf = <<>> /\ rpc \notin {"check", "sleep", "doze"}
  BY <1>1 DEF Clean, CalmInv, Ages
<1>3. /\ put' # <<>> /\ Len(put') = Len(put) + 1 /\ Len(put) \in Nat /\ put'[Len(put')] = f
  <2>1. put \in Seq(EdgeFrames) /\ Len(put) \in Nat
    BY CalmTypes
  <2>2. /\ Append(put, f) # <<>> /\ Len(Append(put, f)) = Len(put) + 1
        /\ Append(put, f)[Len(put) + 1] = f
    BY <2>1, AppendProperties
  <2> QED  BY <1>1, <2>1, <2>2
<1>4. b = Sound(Len(put'), 1)
  BY <1>1 DEF Sound
<1> HIDE DEF b
<1>5. Len(fifo') = 1 /\ fifo' # <<>> /\ fifo'[1] = b
  <2>1. fifo' = <<b>>
    BY <1>1, <1>2
  <2> QED  BY <2>1
<1>6. Len(buf') = 0
  BY <1>1, <1>2, EmptySeq
<1>7. InFlight'
  BY <1>1, <1>2, <1>3, <1>4, <1>5, <1>6 DEF InFlight
<1>8. rpc \in {"off", "poll", "done"} /\ idle \in Nat
  BY <1>2, CalmTypes
<1>9. ReadDelay' \in Nat
  BY DelayBounds DEF ReadDelay
<1>10. Prompt'
  BY <1>1, <1>2, <1>8, <1>9 DEF Prompt, DriverPrompt, ReaderPrompt
<1> QED  BY <1>7, <1>10 DEF CalmLine

LEMMA CalmFrameGoesOn ==
    ASSUME CalmInv, NEW ok \in BOOLEAN, EdgeGoesOn(ok), UNCHANGED isOpen, calm'
    PROVE  CalmLine'
<1> DEFINE b == [frame |-> Len(put), pos |-> out', ok |-> ok]
<1>1. /\ MidFrame /\ put' = put /\ out' = out + 1 /\ pause' = 0
      /\ Settled /\ ok
      /\ fifo' = IF Len(fifo) < FifoSize THEN Append(fifo, b) ELSE fifo
      /\ Len(fifo) < FifoSize
      /\ UNCHANGED <<rpc, buf, age, idle, isOpen>>
  BY DEF EdgeGoesOn, Arrives, readVars
<1>2. InFlight /\ Prompt
  BY <1>1, SettledLine DEF CalmLine, LineEmpty
<1>3. /\ fifo \in Seq(Byte) /\ Len(fifo) \in Nat /\ Len(buf) \in Nat /\ out \in Nat
      /\ Len(put) \in Nat /\ idle \in Nat /\ Len(buf) + Len(fifo) = out
      /\ rpc \in {"off", "poll", "check", "sleep", "doze", "done"}
  BY <1>2, CalmTypes DEF InFlight
<1>4. b = Sound(Len(put), out + 1) /\ b \in Byte
  BY <1>1, <1>3 DEF Sound, Byte
<1> HIDE DEF b
<1>5. /\ Len(fifo') = Len(fifo) + 1 /\ fifo' # <<>>
      /\ \A i \in 1 .. Len(fifo) : fifo'[i] = fifo[i]
      /\ fifo'[Len(fifo) + 1] = b
  <2>1. fifo' = Append(fifo, b)
    BY <1>1
  <2> QED  BY <1>3, <1>4, <2>1, AppendProperties
<1>6. \A i \in 1 .. Len(fifo') : fifo'[i] = Sound(Len(put), Len(buf) + i)
  <2> SUFFICES ASSUME NEW i \in 1 .. Len(fifo') PROVE fifo'[i] = Sound(Len(put), Len(buf) + i)
    OBVIOUS
  <2>1. CASE i \in 1 .. Len(fifo)
    BY <1>2, <1>5, <2>1 DEF InFlight
  <2>2. CASE i = Len(fifo) + 1
    <3>1. Len(buf) + i = out + 1
      BY <1>3, <2>2
    <3> QED  BY <1>4, <1>5, <2>2, <3>1
  <2> QED  BY <1>3, <1>5, <2>1, <2>2
<1>7. Len(buf) + Len(fifo') = out'
  <2>1. out' = out + 1 /\ Len(fifo') = Len(fifo) + 1
    BY <1>1, <1>5
  <2> QED  BY <1>3, <2>1
<1>8. InFlight'
  BY <1>1, <1>2, <1>6, <1>7 DEF InFlight
<1>9. ReadDelay' \in Nat
  BY DelayBounds DEF ReadDelay
<1>10. DriverPrompt'
  BY <1>1, <1>3, <1>9 DEF DriverPrompt
<1>11. ReaderPrompt'
  BY <1>1, <1>2, <1>5 DEF Prompt, ReaderPrompt
<1>12. Prompt'
  BY <1>1, <1>10, <1>11 DEF Prompt
<1> QED  BY <1>8, <1>12 DEF CalmLine

\* Only a reader that sleeps, or is not due yet, lets time pass on a calm line.
LEMMA CalmTick == ASSUME CalmInv, Tick, UNCHANGED isOpen, calm' PROVE CalmLine'
<1>1. /\ pause' = Capped(pause + 1, Turnaround)
      /\ age' = IF buf = <<>> THEN 0 ELSE Capped(age + 1, GapMs + 1)
      /\ idle' = IF isOpen /\ rpc = "off" THEN Capped(idle + 1, LoopMs) ELSE 0
      /\ rpc = "sleep" => rpc' \in {"poll", "doze"}
      /\ rpc = "doze" => rpc' = "poll"
      /\ rpc = "off" => rpc' = "off"
      /\ Settled /\ ~Late /\ ~Dawdles
      /\ UNCHANGED <<put, out, fifo, buf, isOpen>>
  BY DEF Tick
<1>2. MidFrame' = MidFrame /\ ReadDelay' = ReadDelay
  BY <1>1 DEF MidFrame, ReadDelay
<1>3. CASE LineEmpty
  BY <1>1, <1>2, <1>3 DEF LineEmpty, CalmLine
<1>4. CASE InFlight /\ Prompt
  <2>1. InFlight'
    BY <1>1, <1>4 DEF InFlight, Sound
  <2>2. /\ pause \in Nat /\ age \in Nat /\ idle \in Nat
        /\ pause <= Turnaround /\ idle <= LoopMs
        /\ rpc = "sleep" => age < GapMs
        /\ rpc = "doze" => age <= GapMs
        /\ rpc = "off" => buf = <<>>
    BY CalmTypes DEF CalmInv, Ages, UartInv, LineInv, ReadState
  <2>3. rpc \in {"off", "sleep", "doze"} /\ (rpc = "off" => idle # LoopMs)
    BY <1>1, <1>4, CalmTypes DEF Late, InFlight
  <2>4. MidFrame => pause = 0
    BY <1>1, <2>2 DEF Dawdles
  <2>5. pause' \in Nat /\ pause' <= pause + 1 /\ (pause' = pause + 1 \/ pause' = Turnaround)
    BY <1>1, <2>2, DelayBounds DEF Capped
  <2>6. rpc = "off" => idle' = idle + 1
    BY <1>1, <1>4, <2>2, <2>3, DelayBounds DEF Capped, InFlight
  <2>7. buf # <<>> => age' = age + 1 /\ age + 1 <= GapMs + 1
    BY <1>1, <2>2, <2>3, DelayBounds DEF Capped
  <2>8. MidFrame' => pause' <= 1
    BY <1>2, <2>2, <2>4, <2>5
  <2>9. DriverPrompt'
    <3> SUFFICES ASSUME fifo # <<>>
                 PROVE  /\ rpc' = "off" => pause' <= idle'
                        /\ rpc' = "poll" => pause' <= ReadDelay
                        /\ rpc' = "doze" => pause' <= 1
                        /\ rpc' \notin {"check", "sleep", "done"}
      BY <1>1, <1>2 DEF DriverPrompt
    <3>1. CASE rpc = "off"
      BY <1>1, <1>4, <2>2, <2>5, <2>6, <3>1 DEF Prompt, DriverPrompt
    <3>2. CASE rpc = "sleep"
      BY <1>1, <1>4, <2>2, <2>5, <3>2, DelayBounds DEF Prompt, DriverPrompt
    <3>3. CASE rpc = "doze"
      BY <1>1, <1>4, <2>2, <2>5, <3>3, DelayBounds DEF Prompt, DriverPrompt
    <3> QED  BY <2>3, <3>1, <3>2, <3>3
  <2>10. ReaderPrompt'
    <3>1. rpc' \notin {"check", "done"}
      BY <1>1, <2>3
    <3>2. buf # <<>> /\ fifo = <<>> => age' <= pause' /\ pause' <= age' + ReadDelay
      <4> SUFFICES ASSUME buf # <<>>, fifo = <<>>
                   PROVE  age' <= pause' /\ pause' <= age' + ReadDelay
        OBVIOUS
      <4>1. age <= pause /\ pause <= age + ReadDelay
        BY <1>4 DEF Prompt, ReaderPrompt
      <4> QED  BY <2>2, <2>5, <2>7, <4>1, DelayBounds
    <3> QED  BY <1>1, <1>2, <3>1, <3>2 DEF ReaderPrompt
  <2> QED  BY <2>1, <2>8, <2>9, <2>10 DEF CalmLine, Prompt
<1> QED  BY <1>1, <1>3, <1>4, SettledLine DEF CalmLine

LEMMA CalmStep ==
    ASSUME GapMs >= 2, CalmInv, [UartNext]_uartVars
    PROVE  CalmInv'
<1>1. UartInv' /\ Ages'
  BY UartStep, AgesStep DEF CalmInv
<1>2. ASSUME calm' PROVE CalmLine'
  <2>1. CASE UartCalls
    BY <1>2, <2>1, CalmCalls
  <2>2. CASE StepBegins
    BY <1>2, <2>2, CalmBegins
  <2>3. Polls \/ Edge \/ TimePasses \/ StepEnds => UNCHANGED isOpen
    BY DEF Polls, Edge, TimePasses, StepEnds, vars, transportVars
  <2>4. CASE Polls
    BY <1>2, <2>3, <2>4, CalmPollByte, CalmPolls DEF Polls
  <2>5. CASE StepEnds
    BY <1>2, <2>3, <2>5, CalmEnds DEF StepEnds
  <2>6. CASE Edge
    BY <1>2, <2>3, <2>6, CalmFrameBegins, CalmFrameGoesOn DEF Edge
  <2>7. CASE TimePasses
    BY <1>2, <2>3, <2>7, CalmTick DEF TimePasses
  <2>8. CASE UNCHANGED uartVars
    <3>1. UNCHANGED <<put, out, pause, fifo, rpc, buf, age, idle, isOpen, calm>>
      BY <2>8 DEF uartVars, vars, transportVars, lineVars, edgeVars, readVars
    <3>2. CalmLine
      BY <1>2, <3>1 DEF CalmInv
    <3> QED  BY <3>1, <3>2, CalmUnmoved
  <2> QED  BY <2>1, <2>2, <2>4, <2>5, <2>6, <2>7, <2>8 DEF UartNext
<1> QED  BY <1>1, <1>2 DEF CalmInv

\* On a line on which nothing goes wrong, one frame is in flight or none, all its
\* bytes are there and in order, and each delay is bounded.  It takes a gap of two
\* milliseconds at least: two bytes of one frame may be a tick of the clock apart.
THEOREM CalmInvariance ==
    ASSUME GapMs >= 2 PROVE UartSpec => []CalmInv
<1>1. CalmInv /\ [UartNext]_uartVars => CalmInv'
  BY CalmStep
<1> QED  BY <1>1, CalmStart, PTL DEF UartSpec

\* For every gap, loop period, MTU and driver: Turnaround ms behind an undisturbed
\* frame the line is clean, so the next one cannot merge with it.
THEOREM PauseIsEnough ==
    ASSUME GapMs >= 2 PROVE UartSpec => []PauseSuffices
<1>1. CalmInv => PauseSuffices
  <2> SUFFICES ASSUME CalmInv, calm, isOpen, ~MidFrame, pause = Turnaround PROVE Clean
    BY DEF PauseSuffices
  <2>1. CASE LineEmpty
    BY <2>1 DEF LineEmpty, Clean
  <2>2. CASE InFlight /\ Prompt
    <3>1. Ages /\ (rpc = "off" => buf = <<>>)
      BY DEF CalmInv, UartInv, LineInv, ReadState
    <3>2. fifo # <<>> => FALSE
      BY <2>2, <3>1, CalmTypes, DelayBounds DEF Prompt, DriverPrompt, Ages
    <3>3. fifo = <<>> /\ buf # <<>> => FALSE
      BY <2>2, <3>1, CalmTypes, DelayBounds DEF Prompt, ReaderPrompt, Ages
    <3> QED  BY <3>2, <3>3 DEF Clean
  <2> QED  BY <2>1, <2>2 DEF CalmInv, CalmLine
<1> QED  BY <1>1, CalmInvariance, PTL

\* A plain frame on a settled line is never torn, merged or cut, so the engine
\* never faults for it: only for the loss of its cloud session.
THEOREM CalmEdgeHarmless ==
    ASSUME GapMs >= 2 PROVE UartSpec => CalmNeverFaults
<1>1. CalmInv /\ [UartNext]_uartVars
      => (Settled /\ ReadsPlain /\ engState = "RUNNING" /\ engState' = "FAULT"
          => connected /\ ~connected')
  <2> SUFFICES ASSUME CalmInv, [UartNext]_uartVars, Settled, ReadsPlain,
                      engState = "RUNNING", engState' = "FAULT"
               PROVE  connected /\ ~connected'
    OBVIOUS
  <2>1. running
    BY DEF CalmInv, UartInv, IInv, StateAgrees
  <2>2. ~UartCalls /\ ~StepBegins /\ ~Polls /\ ~Edge /\ ~TimePasses /\ ~UNCHANGED uartVars
    BY <2>1
    DEF UartCalls, UartStart, Initialise, EngineInit, StartNoTransport, StartUp, StartNoCloud,
        Send, PublishTelemetry, Stop, StepBegins, Polls, Edge, TimePasses, engineVars, vars,
        uartVars
  <2>3. StepEnds
    BY <2>2 DEF UartNext
  <2>4. Decoded.cmd \in {"OTHER", "NONE"}
    <3>1. CASE buf = <<>>
      BY <3>1 DEF Decoded, NoFrame
    <3>2. CASE buf # <<>>
      <4>1. Whole
        BY <2>3, <3>2, SettledRead DEF StepEnds, ReadEnds
      <4> QED  BY <3>2, <4>1 DEF Decoded, ReadsPlain
    <3> QED  BY <3>1, <3>2
  <2>5. ~HandleIncomingFrame(Decoded, FALSE)
    BY <2>4, Zenon DEF HandleIncomingFrame, OtaCmds
  <2> QED  BY <2>3, <2>5, Zenon DEF StepEnds, CloudPump
<1> QED  BY <1>1, CalmInvariance, PTL DEF UartSpec, CalmNeverFaults

\* A calm line loses nothing: its bytes leave it only as a frame that is heard.
CalmBytesAreHeard ==
    [][ calm /\ calm' /\ fifo \o buf # <<>> /\ fifo' \o buf' = <<>>
        => heard' = Append(heard, Len(put)) ]_uartVars

\* The safety half of CalmFrameHeard: whatever the schedule, a frame sent over a
\* calm line is handed up, or is still there.
THEOREM CalmLosesNothing ==
    ASSUME GapMs >= 2 PROVE UartSpec => CalmBytesAreHeard
<1>1. CalmInv /\ [UartNext]_uartVars
      => (calm /\ calm' /\ fifo \o buf # <<>> /\ fifo' \o buf' = <<>>
          => heard' = Append(heard, Len(put)))
  <2> SUFFICES ASSUME CalmInv, [UartNext]_uartVars, calm, calm',
                      fifo \o buf # <<>>, fifo' \o buf' = <<>>
               PROVE  heard' = Append(heard, Len(put))
    OBVIOUS
  <2>1. fifo # <<>> \/ buf # <<>>
    OBVIOUS
  <2>2. fifo' = <<>> /\ buf' = <<>>
    <3>1. fifo' \in Seq(Byte) /\ buf' \in Seq(Byte)
      BY UartStep DEF CalmInv, UartInv, LineInv, LineTypes
    <3>2. Len(fifo') + Len(buf') = Len(fifo' \o buf') /\ Len(fifo') \in Nat
          /\ Len(buf') \in Nat
      BY <3>1, ConcatProperties, LenProperties
    <3>3. Len(fifo' \o buf') = 0
      BY EmptySeq
    <3>4. Len(fifo') = 0 /\ Len(buf') = 0
      BY <3>2, <3>3
    <3> QED  BY <3>1, <3>4, EmptySeq
  <2>3. CASE StepEnds
    <3>1. ReadEnds /\ rpc = "done" /\ fifo' = fifo
      BY <2>3 DEF StepEnds, ReadEnds
    <3>2. buf # <<>>
      BY <2>1, <2>2, <3>1
    <3> QED  BY <3>1, <3>2, SettledRead DEF ReadEnds, Settled
  <2>4. CASE PollByte
    <3>1. buf' = Append(buf, Head(fifo)) /\ buf \in Seq(Byte) /\ fifo \in Seq(Byte)
          /\ fifo # <<>>
      BY <2>4, CalmTypes DEF PollByte
    <3>2. Head(fifo) \in Byte
      BY <3>1, HeadTailProperties
    <3>3. buf' # <<>>
      BY <3>1, <3>2, AppendProperties
    <3> QED  BY <2>2, <3>3
  <2>5. CASE Edge
    <3>1. ASSUME NEW b, NEW fine, Arrives(b, fine) PROVE FALSE
      <4>1. Len(fifo) < FifoSize /\ fifo' = Append(fifo, b)
        BY <3>1 DEF Arrives
      <4>2. Len(fifo') = Len(fifo) + 1 /\ Len(fifo) \in Nat
        BY <4>1, CalmTypes
      <4> QED  BY <2>2, <4>2, EmptySeq
    <3> QED  BY <2>5, <3>1 DEF Edge, EdgeBegins, EdgeGoesOn
  <2>6. ~StepEnds /\ ~PollByte /\ ~Edge => UNCHANGED <<fifo, buf>>
    BY DEF UartNext, UartCalls, UartStart, PortOpens, PortCloses, StepBegins, ReadBegins,
       Polls,
           PollMiss, PollFails, CheckGap, TimePasses, Tick, uartVars, lineVars, readVars
  <2> QED  BY <2>1, <2>2, <2>3, <2>4, <2>5, <2>6
<1> QED  BY <1>1, CalmInvariance, PTL DEF UartSpec, CalmBytesAreHeard
=============================================================================
