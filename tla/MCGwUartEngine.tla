--------------------------- MODULE MCGwUartEngine ---------------------------
(***************************************************************************)
(* The instance of GwUartEngine for TLC, scaled like MCGwEngine: an MTU of *)
(* 2 bytes, a receive buffer of 3, a driver that holds 3.                  *)
(***************************************************************************)
EXTENDS GwUartEngine

\* Plain frames shorter than the MTU and as long, and an update command that is
\* too long for it: a read that went past the MTU would begin an update.
LineFrames ==
    { [cmd |-> "OTHER", len |-> n] : n \in {1, 2} } \cup { [cmd |-> "OTA_BEGIN", len |-> 3] }
=============================================================================
