----------------------------- MODULE MCGwEngine -----------------------------
(***************************************************************************)
(* Instances of GwEngine for TLC.  Sizes are scaled down: the framing      *)
(* costs 1, a payload is at most 2, so the receive buffer holds 3; an MTU  *)
(* of 2 makes a legal payload too large for the transport, and a staging   *)
(* area of 4 lets the edge answer more than the engine can read.           *)
(***************************************************************************)
EXTENDS GwEngine

Frame(c, n) == [cmd |-> c, len |-> n]

\* Everything an INTERNAL edge may answer: an ACK, an update in chunks of the
\* largest and of the smallest size, an empty chunk, noise, an oversized answer.
AllFrames ==
    { Frame("OTHER", 1), Frame("OTA_BEGIN", 1), Frame("OTA_CHUNK", 1),
      Frame("OTA_CHUNK", 2), Frame("OTA_CHUNK", 3), Frame("OTA_END", 1),
      Frame("BAD", 2), Frame("BAD", 4) }

\* An edge that acknowledges, sends telemetry and never updates.
PlainFrames == { Frame("OTHER", 1), Frame("OTHER", 2) }
=============================================================================
