---------------------------- MODULE GwUartEngine ----------------------------
(***************************************************************************)
(* The engine over a real UART line: GwEngine with the read inside a step  *)
(* taken apart (UartLine), so that the edge sends and time passes while    *)
(* gw_port_uart_rx polls.  The engine has one thread: no other call is     *)
(* made during a step.                                                     *)
(***************************************************************************)
EXTENDS GwEngine, UartLine

uartVars == <<vars, lineVars>>

UartInit == Init /\ LineInit

-----------------------------------------------------------------------------
UartStart ==
    \/ StartNoTransport /\ PortOpens(FALSE)
    \/ StartUp /\ PortOpens(TRUE)
    \/ \E rc \in {"EAGAIN", "ERR"} : StartNoCloud(rc) /\ PortCloses

\* Sending polls bytes out one by one and touches nothing the reader keeps.
UartCalls ==
    /\ rpc = "off"
    /\ \/ Initialise /\ UNCHANGED lineVars
       \/ UartStart
       \/ \E plen \in PayloadLens, ok \in BOOLEAN : Send(plen, ok) /\ UNCHANGED lineVars
       \/ \E rc \in {"OK", "ERR", "ENOTCONN"} : PublishTelemetry(rc) /\ UNCHANGED lineVars
       \/ Stop /\ PortCloses

StepBegins == running /\ ReadBegins /\ UNCHANGED vars

Polls == (PollByte \/ PollMiss \/ PollFails \/ CheckGap) /\ UNCHANGED vars

\* What follows the read in gw_engine_step, with what the line has made of it.
StepEnds ==
    /\ ReadEnds
    /\ \/ /\ HandleIncomingFrame(Decoded, FALSE)
          /\ engState' = "FAULT"
          /\ UNCHANGED cloudVars
       \/ \E rc \in {"OK", "ENOTCONN", "ERR"} :
          /\ HandleIncomingFrame(Decoded, TRUE)
          /\ CloudPump(rc)
          /\ engState' = IF rc = "ERR" THEN "FAULT" ELSE engState
    /\ UNCHANGED <<transportVars, initialized, running, txSeq, history>>

Edge ==
    /\ \E ok \in BOOLEAN : EdgeGoesOn(ok) \/ \E f \in EdgeFrames : EdgeBegins(f, ok)
    /\ UNCHANGED vars

TimePasses == Tick /\ UNCHANGED vars

UartNext == UartCalls \/ StepBegins \/ Polls \/ StepEnds \/ Edge \/ TimePasses

UartSpec == UartInit /\ [][UartNext]_uartVars

\* The loop keeps stepping the engine, the reader is scheduled, time goes on.
FairUartSpec ==
    /\ UartSpec
    /\ WF_uartVars(StepBegins) /\ WF_uartVars(Polls) /\ WF_uartVars(StepEnds)
    /\ WF_uartVars(TimePasses)

-----------------------------------------------------------------------------
(* Safety *)

\* Whatever the line does to them, frames are handed to the engine in the order
\* the edge sent them, and none twice.
HeardInOrder ==
    \A i, j \in 1 .. Len(heard) : i < j => heard[i] < heard[j]

\* How long an edge has to pause: behind an undisturbed frame, Turnaround ms
\* are enough for the line to be clean, so that the next frame cannot merge.
PauseSuffices ==
    calm /\ isOpen /\ ~MidFrame /\ pause = Turnaround => Clean

(* Action properties *)

\* The frame the read begins with, if it has any, is neither noise nor an update
\* command.
ReadsPlain == buf # <<>> => put[buf[1].frame].cmd = "OTHER"

\* A well-behaved edge that starts each frame on a clean line, without noise or
\* delay, never faults the engine with a plain frame: the engine faults only when
\* it loses the cloud.
CalmNeverFaults ==
    [][ Settled /\ ReadsPlain /\ engState = "RUNNING" /\ engState' = "FAULT"
        => connected /\ ~connected' ]_uartVars

(* Refinement *)

\* With a UART line behind it the engine is still the engine of GwEngine: every
\* read yields what BusReads allows.
IsEngine == Spec

(* Liveness *)

\* A frame that was sent whole over a calm line is heard, unless the engine is
\* stopped or something disturbs the line after all.
CalmFrameHeard ==
    \A n \in 1 .. MaxFrames :
        (running /\ calm /\ Len(put) = n /\ ~MidFrame /\ fifo \o buf # <<>>)
            ~> (~running \/ ~calm \/ \E i \in 1 .. Len(heard) : heard[i] = n)
=============================================================================
