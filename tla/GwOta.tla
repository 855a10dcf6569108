------------------------------- MODULE GwOta -------------------------------
(***************************************************************************)
(* The firmware-update bookkeeping of gw_ota_stub.c.  It has no task of    *)
(* its own: the engine calls it for each OTA frame the edge sends.  `ok`   *)
(* is "the call returned 0"; a refused call changes nothing.               *)
(***************************************************************************)
EXTENDS Naturals

CONSTANTS
    ChunkSize,    \* gw_ota_config_t.chunk_size, 0 for "no limit"
    BytesMod      \* bytes_received wraps at 2^32

ASSUME OtaAssumption == ChunkSize \in Nat /\ BytesMod \in Nat \ {0}

VARIABLES
    otaState,
    bytesReceived

otaVars == <<otaState, bytesReceived>>

\* VERIFYING is set and overwritten inside one call, so no caller can see it.
OtaStates == {"IDLE", "RECEIVING", "READY_TO_APPLY"}

OtaTypeOK == otaState \in OtaStates /\ bytesReceived \in 0 .. BytesMod - 1

-----------------------------------------------------------------------------
OtaInit == otaState' = "IDLE" /\ bytesReceived' = 0

\* Seeded fault: a second BEGIN restarts the transfer.
OtaBeginUnguarded(ok) ==
    /\ ok = TRUE
    /\ otaState' = "RECEIVING" /\ bytesReceived' = 0

OtaBegin(ok) ==
    /\ ok = (otaState = "IDLE")
    /\ otaState' = IF ok THEN "RECEIVING" ELSE otaState
    /\ bytesReceived' = IF ok THEN 0 ELSE bytesReceived

ChunkAccepted(len) ==
    /\ len > 0
    /\ otaState = "RECEIVING"
    /\ ChunkSize > 0 => len <= ChunkSize

\* Seeded fault: the byte counter is wider than the code's.
OtaPushChunkNoWrap(len, ok) ==
    /\ ok = ChunkAccepted(len)
    /\ bytesReceived' = IF ok THEN bytesReceived + len ELSE bytesReceived
    /\ UNCHANGED otaState

OtaPushChunk(len, ok) ==
    /\ ok = ChunkAccepted(len)
    /\ bytesReceived' = IF ok THEN (bytesReceived + len) % BytesMod
                              ELSE bytesReceived
    /\ UNCHANGED otaState

OtaFinish(ok) ==
    /\ ok = (otaState = "RECEIVING")
    /\ otaState' = IF ok THEN "READY_TO_APPLY" ELSE otaState
    /\ UNCHANGED bytesReceived
=============================================================================
