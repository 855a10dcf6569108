------------------------------ MODULE UartLine ------------------------------
(***************************************************************************)
(* The UART port (gw_port_uart_zephyr.c) and the line behind it.  A byte   *)
(* is known by the frame it belongs to and its place in it; the driver     *)
(* keeps what has arrived in a small buffer, without the time it arrived.  *)
(* gw_port_uart_rx takes a frame to end where it finds no byte for GapMs,  *)
(* counted from when it *read* the last one.                               *)
(*                                                                         *)
(* Time passes in Tick, one millisecond of k_uptime_get.  `calm` is a      *)
(* history variable: every frame in flight began on a clean line, and      *)
(* nothing that can mangle a frame has happened since.                     *)
(***************************************************************************)
EXTENDS GwTransport, Sequences

CONSTANTS
    GapMs,        \* GW_UART_INTERCHAR_GAP_MS
    LoopMs,       \* longest pause between two steps of the engine
    FifoSize,     \* receive buffer of the UART driver
    MaxFrames     \* bound on the frames the edge sends

ASSUME LineAssumption ==
    /\ Kind = "UART" /\ Mtu <= RxCap
    /\ GapMs \in Nat \ {0} /\ LoopMs \in Nat /\ FifoSize \in Nat
    /\ MaxFrames \in Nat

\* The longest a byte waits in the driver of a calm line: for the loop to come
\* round, or for the reader to wake.
ReadDelay == IF LoopMs > 2 THEN LoopMs ELSE 2

\* After this pause behind a frame a calm line is clean again: the last byte was
\* read, the gap passed, and the last sleep may have taken a millisecond longer.
Turnaround == ReadDelay + GapMs + 2

VARIABLES
    portOpen,     \* g_uart.is_open
    put, out,     \* frames the edge began, bytes of the last one it has sent
    pause,        \* ms since the edge's last byte
    fifo,         \* bytes in the driver
    rpc,          \* where gw_port_uart_rx stands, "off" outside of it
    buf, age,     \* its bytes, and ms since last_rx_ms
    idle,         \* ms since the last step ended
    heard,        \* frames handed up whole, by number
    calm

edgeVars == <<put, out, pause>>
readVars == <<rpc, buf, age, idle, heard>>
lineVars == <<portOpen, edgeVars, fifo, readVars, calm>>

MidFrame == put # <<>> /\ out < put[Len(put)].len

\* A frame that begins now has the line to itself: nothing is left of another.
Clean == isOpen /\ fifo = <<>> /\ buf = <<>> /\ ~MidFrame

Settled == calm \/ Clean

LineInit ==
    /\ portOpen = FALSE
    /\ put = <<>> /\ out = 0 /\ pause = Turnaround /\ fifo = <<>>
    /\ rpc = "off" /\ buf = <<>> /\ age = 0 /\ idle = 0 /\ heard = <<>>
    /\ calm = TRUE

-----------------------------------------------------------------------------
(* The edge and the driver *)

\* A full driver drops the byte; noise makes it another one.
Arrives(b, fine) ==
    LET room == Len(fifo) < FifoSize IN
    /\ fifo' = IF room THEN Append(fifo, b) ELSE fifo
    /\ calm' = (Settled /\ fine /\ room /\ b.ok)
    /\ pause' = 0
    /\ UNCHANGED <<portOpen, readVars>>

EdgeBegins(f, ok) ==
    /\ ~MidFrame /\ Len(put) < MaxFrames
    /\ put' = Append(put, f) /\ out' = 1
    /\ Arrives([frame |-> Len(put'), pos |-> 1, ok |-> ok], Clean /\ f.len <= Mtu)

EdgeGoesOn(ok) ==
    /\ MidFrame
    /\ out' = out + 1
    /\ Arrives([frame |-> Len(put), pos |-> out', ok |-> ok], TRUE)
    /\ UNCHANGED put

-----------------------------------------------------------------------------
(* gw_port_uart_open and close, as uart_open and uart_close call them *)

\* g_uart is wiped first, so a failed open leaves it closed.  Neither discards
\* what the driver has received.
PortOpens(ok) ==
    /\ portOpen' = ok
    /\ calm' = FALSE
    /\ UNCHANGED <<edgeVars, fifo, readVars>>

PortCloses ==
    /\ portOpen' = FALSE
    /\ calm' = FALSE
    /\ UNCHANGED <<edgeVars, fifo, readVars>>

-----------------------------------------------------------------------------
(* gw_port_uart_rx, with the timeout of 0 the engine passes *)

\* Seeded fault: the comparison of buffer and MTU is turned round.
ReadBeginsSwapped ==
    /\ rpc = "off"
    /\ rpc' = IF isOpen /\ RxCap <= Mtu /\ portOpen THEN "poll" ELSE "done"
    /\ calm' = Settled
    /\ UNCHANGED <<portOpen, edgeVars, fifo, buf, age, idle, heard>>

ReadBegins ==
    /\ rpc = "off"
    /\ rpc' = IF isOpen /\ Mtu <= RxCap /\ portOpen THEN "poll" ELSE "done"
    /\ calm' = Settled
    /\ UNCHANGED <<portOpen, edgeVars, fifo, buf, age, idle, heard>>

\* Seeded fault: the read goes on to the end of the caller's buffer.
PollByteToCap ==
    /\ rpc = "poll" /\ fifo # <<>>
    /\ buf' = Append(buf, Head(fifo)) /\ fifo' = Tail(fifo)
    /\ age' = 0
    /\ rpc' = IF Len(buf') < RxCap THEN "poll" ELSE "done"
    /\ UNCHANGED <<portOpen, edgeVars, idle, heard, calm>>

PollByte ==
    /\ rpc = "poll" /\ fifo # <<>>
    /\ buf' = Append(buf, Head(fifo)) /\ fifo' = Tail(fifo)
    /\ age' = 0
    /\ rpc' = IF Len(buf') < Mtu THEN "poll" ELSE "done"
    /\ UNCHANGED <<portOpen, edgeVars, idle, heard, calm>>

PollMiss ==
    /\ rpc = "poll" /\ fifo = <<>>
    /\ rpc' = IF buf = <<>> THEN "done" ELSE "check"
    /\ UNCHANGED <<portOpen, edgeVars, fifo, buf, age, idle, heard, calm>>

\* Any other answer of uart_poll_in ends the read; what it had is lost.
PollFails ==
    /\ rpc = "poll"
    /\ buf' = <<>> /\ rpc' = "done"
    /\ calm' = FALSE
    /\ UNCHANGED <<portOpen, edgeVars, fifo, age, idle, heard>>

\* Seeded faults: a gap one millisecond too short, or too long.
CheckGapShort ==
    /\ rpc = "check"
    /\ rpc' = IF age + 1 >= GapMs THEN "done" ELSE "sleep"
    /\ UNCHANGED <<portOpen, edgeVars, fifo, buf, age, idle, heard, calm>>

CheckGapLong ==
    /\ rpc = "check"
    /\ rpc' = IF age > GapMs THEN "done" ELSE "sleep"
    /\ UNCHANGED <<portOpen, edgeVars, fifo, buf, age, idle, heard, calm>>

\* The clock is read after the poll: a thread held up between the two finds a
\* gap although bytes have arrived.
CheckGap ==
    /\ rpc = "check"
    /\ rpc' = IF age >= GapMs THEN "done" ELSE "sleep"
    /\ UNCHANGED <<portOpen, edgeVars, fifo, buf, age, idle, heard, calm>>

\* The bytes of one frame, all of them, none damaged: what gw_link_decode takes.
Whole ==
    /\ buf # <<>>
    /\ Len(buf) = put[buf[1].frame].len
    /\ \A i \in 1 .. Len(buf) :
           buf[i].ok /\ buf[i].pos = i /\ buf[i].frame = buf[1].frame

Decoded ==
    IF buf = <<>> THEN NoFrame ELSE IF Whole THEN put[buf[1].frame] ELSE BadFrame

\* Seeded fault: the receive buffer is not emptied for the next read.
ReadEndsKeepsBytes ==
    /\ rpc = "done"
    /\ rpc' = "off" /\ idle' = 0
    /\ heard' = IF Whole THEN Append(heard, buf[1].frame) ELSE heard
    /\ calm' = Settled
    /\ UNCHANGED <<portOpen, edgeVars, fifo, buf, age>>

ReadEnds ==
    /\ rpc = "done"
    /\ rpc' = "off" /\ buf' = <<>> /\ idle' = 0
    /\ heard' = IF Whole THEN Append(heard, buf[1].frame) ELSE heard
    /\ calm' = Settled
    /\ UNCHANGED <<portOpen, edgeVars, fifo, age>>

-----------------------------------------------------------------------------
Capped(n, max) == IF n < max THEN n ELSE max

\* The reader should have run by now: it was preempted, or the loop is overdue.
Late ==
    \/ rpc \in {"poll", "check", "done"}
    \/ rpc = "off" /\ isOpen /\ idle = LoopMs

\* Bytes of a frame follow each other within a millisecond, or the edge dawdles.
Dawdles == MidFrame /\ pause > 0

\* k_sleep(K_MSEC(1)) sees the clock advance once or twice.
Tick ==
    /\ pause' = Capped(pause + 1, Turnaround)
    /\ age' = IF buf = <<>> THEN 0 ELSE Capped(age + 1, GapMs + 1)
    /\ idle' = IF isOpen /\ rpc = "off" THEN Capped(idle + 1, LoopMs) ELSE 0
    /\ rpc' \in CASE rpc = "sleep" -> {"poll", "doze"}
                  [] rpc = "doze" -> {"poll"}
                  [] OTHER -> {rpc}
    /\ calm' = (Settled /\ ~Late /\ ~Dawdles)
    /\ UNCHANGED <<portOpen, put, out, fifo, buf, heard>>
=============================================================================
