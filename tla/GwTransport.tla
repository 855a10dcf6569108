---------------------------- MODULE GwTransport ----------------------------
(***************************************************************************)
(* gw_transport_t behind its four calls, for the three backends: INTERNAL  *)
(* (a callback that answers at once into one staging slot), SPI and UART   *)
(* (a Zephyr bus driver).  A frame is its command and its total length;    *)
(* "BAD" is any byte sequence gw_link_decode refuses.                      *)
(***************************************************************************)
EXTENDS Naturals

CONSTANTS
    Kind,         \* "INTERNAL", "SPI" or "UART"
    Mtu,          \* config.mtu, after 0 was replaced by the default
    RxCap,        \* the receive buffer of the caller: GW_LINK_MAX_FRAME_SIZE
    StagingMax,   \* GW_TRANSPORT_INTERNAL_RX_MAX
    EdgeFrames    \* what the edge may send; {} when exchange_cb is NULL

OtaCmds == {"OTA_BEGIN", "OTA_CHUNK", "OTA_END"}

Cmds == OtaCmds \cup {"OTHER", "BAD"}

NoFrame == [cmd |-> "NONE", len |-> 0]

BadFrame == [cmd |-> "BAD", len |-> 1]

ASSUME TransportAssumption ==
    /\ Kind \in {"INTERNAL", "SPI", "UART"}
    /\ Mtu \in Nat \ {0}
    /\ RxCap \in Nat \ {0}
    /\ StagingMax \in Nat
    /\ EdgeFrames \subseteq [cmd : Cmds, len : 1 .. StagingMax]

VARIABLES
    isOpen,       \* backend->is_open
    staged        \* rx_staging, rx_len and rx_pending; NoFrame on a bus

transportVars == <<isOpen, staged>>

TransportTypeOK == isOpen \in BOOLEAN /\ staged \in EdgeFrames \cup {NoFrame}

-----------------------------------------------------------------------------
\* A bus driver may not be ready; an open bus is left as it is.
TransportOpen(ok) ==
    /\ ok \in IF Kind = "INTERNAL" \/ isOpen THEN {TRUE} ELSE BOOLEAN
    /\ isOpen' = (isOpen \/ ok)
    /\ staged' = NoFrame

TransportClose == isOpen' = FALSE /\ staged' = NoFrame

\* The INTERNAL callback answers into the one slot, whatever it held; an empty
\* answer clears it.  The callback and the bus driver may also fail.
TransportTx(len, ok) ==
    \/ /\ ok
       /\ isOpen
       /\ len <= Mtu
       /\ staged' \in IF Kind = "INTERNAL" THEN EdgeFrames \cup {NoFrame}
                                           ELSE {staged}
       /\ UNCHANGED isOpen
    \/ /\ ~ok
       /\ UNCHANGED transportVars

\* An SPI read always clocks in Mtu bytes, and the decoder accepts a frame only
\* at its exact length; a UART read ends at a 2 ms gap or at Mtu bytes, which
\* may merge or split frames.
BusReads ==
    IF Kind = "SPI" THEN {BadFrame} \cup {f \in EdgeFrames : f.len = Mtu}
                    ELSE {BadFrame} \cup {f \in EdgeFrames : f.len <= Mtu}

\* Seeded faults: a read leaves the answer pending; a frame that just fits is
\* refused.
InternalRxKeepsSlot(f) ==
    /\ f = IF isOpen /\ staged.len <= RxCap THEN staged ELSE NoFrame
    /\ UNCHANGED transportVars

InternalRxStrictCap(f) ==
    /\ f = IF isOpen /\ staged.len < RxCap THEN staged ELSE NoFrame
    /\ staged' = IF f = NoFrame THEN staged ELSE NoFrame
    /\ UNCHANGED isOpen

InternalRx(f) ==
    /\ f = IF isOpen /\ staged.len <= RxCap THEN staged ELSE NoFrame
    /\ staged' = IF f = NoFrame THEN staged ELSE NoFrame
    /\ UNCHANGED isOpen

BusRx(f) ==
    /\ f \in {NoFrame} \cup (IF isOpen /\ Mtu <= RxCap THEN BusReads ELSE {})
    /\ UNCHANGED transportVars

\* What a caller of gw_transport_rx gets to look at: NoFrame on any error.
TransportRx(f) == IF Kind = "INTERNAL" THEN InternalRx(f) ELSE BusRx(f)
=============================================================================
