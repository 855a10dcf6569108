----------------------------- MODULE GwEngine -----------------------------
(***************************************************************************)
(* gw_engine.c: one engine, driven from one loop, composed with the        *)
(* update bookkeeping, a transport and a cloud connector.  The lower       *)
(* layers contribute their operations; the engine's own state is the       *)
(* lifecycle and the transmit sequence number.                             *)
(*                                                                         *)
(* Three history variables number the exchanges with an INTERNAL edge, so  *)
(* that what happens to each answer can be stated: `exchanges` counts the  *)
(* frames the edge answered, `stagedFor` is the exchange whose answer sits *)
(* in the staging slot (0: none) and `handled` the last one a step read.   *)
(***************************************************************************)
EXTENDS GwOta, GwTransport, CloudPort

CONSTANTS
    Overhead,        \* GW_LINK_HEADER_SIZE + GW_LINK_CRC_SIZE
    MaxPayload,      \* GW_LINK_MAX_PAYLOAD
    PayloadLens,     \* payload lengths the caller sends
    SeqMod,          \* tx_seq is a uint16_t: 2^16
    MaxExchanges     \* bound on `exchanges`

ASSUME EngineAssumption ==
    /\ Overhead \in Nat /\ MaxPayload \in Nat /\ MaxExchanges \in Nat
    /\ PayloadLens \subseteq Nat
    /\ SeqMod \in Nat \ {0}
    /\ \A f \in EdgeFrames : f.cmd # "BAD" => Overhead <= f.len

VARIABLES
    engState,        \* engine->state
    initialized,
    running,
    txSeq,
    exchanges, stagedFor, handled

engineVars == <<engState, initialized, running, txSeq>>
history == <<exchanges, stagedFor, handled>>
vars == <<otaVars, transportVars, cloudVars, engineVars, history>>

EngineStates == {"NONE", "INIT", "READY", "RUNNING", "FAULT"}

TypeOK ==
    /\ OtaTypeOK /\ TransportTypeOK /\ CloudTypeOK
    /\ engState \in EngineStates \ {"INIT"}
    /\ initialized \in BOOLEAN /\ running \in BOOLEAN
    /\ txSeq \in 0 .. SeqMod - 1
    /\ exchanges \in Nat /\ stagedFor \in Nat /\ handled \in Nat

-----------------------------------------------------------------------------
\* Before gw_engine_init: static storage, all zero (engState "NONE").
Init ==
    /\ otaState = "IDLE" /\ bytesReceived = 0
    /\ isOpen = FALSE /\ staged = NoFrame
    /\ PortInit
    /\ engState = "NONE" /\ initialized = FALSE /\ running = FALSE /\ txSeq = 0
    /\ exchanges = 0 /\ stagedFor = 0 /\ handled = 0

\* Seeded fault: the result of gw_cloud_init is ignored.
EngineInitIgnoresCloud(rc) ==
    /\ ~running
    /\ CloudInit(rc)
    /\ OtaInit
    /\ txSeq' = 1 % SeqMod
    /\ initialized' = (rc = "OK") /\ engState' = "READY"
    /\ UNCHANGED <<transportVars, running, history>>

\* The engine is initialised, again if the caller likes, only while stopped.
EngineInit(rc) ==
    /\ ~running
    /\ CloudInit(rc)
    /\ OtaInit
    /\ txSeq' = 1 % SeqMod
    /\ initialized' = (rc = "OK")
    /\ engState' = IF rc = "OK" THEN "READY" ELSE "FAULT"
    /\ UNCHANGED <<transportVars, running, history>>

StartFails ==
    /\ engState' = "FAULT"
    /\ UNCHANGED <<running>>

\* gw_engine_start on a stopped engine; on a running one it does nothing.
StartNoTransport ==
    /\ initialized /\ ~running
    /\ TransportOpen(FALSE)
    /\ stagedFor' = 0
    /\ StartFails
    /\ UNCHANGED <<otaVars, cloudVars, initialized, txSeq, exchanges, handled>>

\* Seeded fault: the transport stays open when the cloud refuses.
StartNoCloudLeavesOpen(rc) ==
    /\ initialized /\ ~running
    /\ rc # "OK" /\ CloudConnect(rc)
    /\ TransportOpen(TRUE)
    /\ stagedFor' = 0
    /\ StartFails
    /\ UNCHANGED <<otaVars, initialized, txSeq, exchanges, handled>>

\* The transport was opened and is closed again before the call returns.
StartNoCloud(rc) ==
    /\ initialized /\ ~running
    /\ rc # "OK" /\ CloudConnect(rc)
    /\ TransportClose
    /\ stagedFor' = 0
    /\ StartFails
    /\ UNCHANGED <<otaVars, initialized, txSeq, exchanges, handled>>

StartUp ==
    /\ initialized /\ ~running
    /\ TransportOpen(TRUE)
    /\ stagedFor' = 0
    /\ CloudConnect("OK")
    /\ running' = TRUE
    /\ engState' = "RUNNING"
    /\ UNCHANGED <<otaVars, initialized, txSeq, exchanges, handled>>

-----------------------------------------------------------------------------
\* handle_incoming_frame: only the update commands reach anything.
HandleIncomingFrame(f, ok) ==
    \/ f.cmd = "OTA_BEGIN" /\ OtaBegin(ok)
    \/ f.cmd = "OTA_CHUNK" /\ OtaPushChunk(f.len - Overhead, ok)
    \/ f.cmd = "OTA_END" /\ OtaFinish(ok)
    \/ f.cmd \notin OtaCmds /\ ok = (f.cmd # "BAD") /\ UNCHANGED otaVars

NoteHandled(f) ==
    /\ handled' = IF f # NoFrame THEN stagedFor ELSE handled
    /\ stagedFor' = IF f # NoFrame THEN 0 ELSE stagedFor
    /\ UNCHANGED exchanges

\* A refused frame ends the step: the cloud is not pumped.
StepRefusesFrame(f) ==
    /\ running
    /\ TransportRx(f) /\ NoteHandled(f)
    /\ HandleIncomingFrame(f, FALSE)
    /\ engState' = "FAULT"
    /\ UNCHANGED <<cloudVars, initialized, running, txSeq>>

\* Seeded fault: a good step clears an earlier fault.
StepPumpsClearsFault(f, rc) ==
    /\ running
    /\ TransportRx(f) /\ NoteHandled(f)
    /\ HandleIncomingFrame(f, TRUE)
    /\ CloudPump(rc)
    /\ engState' = IF rc \in {"OK", "ENOTCONN"} THEN "RUNNING" ELSE "FAULT"
    /\ UNCHANGED <<initialized, running, txSeq>>

\* gw_ota_pump, after the cloud's, does nothing.  FAULT does not stop the engine.
StepPumps(f, rc) ==
    /\ running
    /\ TransportRx(f) /\ NoteHandled(f)
    /\ HandleIncomingFrame(f, TRUE)
    /\ CloudPump(rc)
    /\ engState' = IF rc \in {"OK", "ENOTCONN"} THEN engState ELSE "FAULT"
    /\ UNCHANGED <<initialized, running, txSeq>>

FramesSeen == EdgeFrames \cup {NoFrame, BadFrame}

Step ==
    \E f \in FramesSeen :
        \/ StepRefusesFrame(f)
        \/ \E rc \in {"OK", "ENOTCONN", "ERR"} : StepPumps(f, rc)

-----------------------------------------------------------------------------
\* tx_seq++ is evaluated before the encoder can refuse the payload.
Send(plen, ok) ==
    /\ running
    /\ txSeq' = (txSeq + 1) % SeqMod
    /\ ok => plen <= MaxPayload
    /\ TransportTx(plen + Overhead, ok)
    /\ IF ok /\ Kind = "INTERNAL"
         THEN /\ exchanges < MaxExchanges
              /\ exchanges' = exchanges + 1
              /\ stagedFor' = IF staged' = NoFrame THEN 0 ELSE exchanges'
         ELSE UNCHANGED <<exchanges, stagedFor>>
    /\ UNCHANGED <<otaVars, cloudVars, engState, initialized, running, handled>>

\* The application publishes through engine->cloud.
PublishTelemetry(rc) ==
    /\ running
    /\ CloudPublish(rc)
    /\ UNCHANGED <<otaVars, transportVars, engineVars, history>>

\* Seeded fault: stopping leaves the cloud session up.
StopKeepsSession ==
    /\ initialized
    /\ TransportClose
    /\ stagedFor' = 0
    /\ running' = FALSE /\ engState' = "READY"
    /\ UNCHANGED <<otaVars, cloudVars, initialized, txSeq, exchanges, handled>>

Stop ==
    /\ initialized
    /\ CloudDisconnect
    /\ TransportClose
    /\ stagedFor' = 0
    /\ running' = FALSE
    /\ engState' = "READY"
    /\ UNCHANGED <<otaVars, initialized, txSeq, exchanges, handled>>

-----------------------------------------------------------------------------
Initialise == \E rc \in {"OK", "EINVAL"} : EngineInit(rc)

Start == StartNoTransport \/ StartUp \/ \E rc \in {"EAGAIN", "ERR"} : StartNoCloud(rc)

Next ==
    \/ Initialise
    \/ Start
    \/ Step
    \/ \E plen \in PayloadLens, ok \in BOOLEAN : Send(plen, ok)
    \/ \E rc \in {"OK", "ERR", "ENOTCONN"} : PublishTelemetry(rc)
    \/ Stop

Spec == Init /\ [][Next]_vars

\* The application calls gw_engine_step in every turn of its loop.
FairSpec == Spec /\ WF_vars(Step)

-----------------------------------------------------------------------------
(* Safety *)

\* The edge transport is held exactly while the engine runs: every failed start
\* and every stop gives it back, in whatever order the calls come.
OpenIffRunning == isOpen <=> running

\* No cloud session outlives its engine: a start that fails and a stop leave
\* none behind, so the next start always connects anew.
CloudUpOnlyWhileRunning == connected => running

\* engine->state and the two flags tell the same story: READY is "start may be
\* called", RUNNING implies the step is live, and FAULT says nothing about it.
StateAgrees ==
    /\ running => initialized /\ engState \in {"RUNNING", "FAULT"}
    /\ engState = "RUNNING" => running
    /\ engState = "READY" => initialized /\ ~running
    /\ initialized => engState # "NONE"

(* Action properties *)

\* A running engine that once faulted reports FAULT until someone stops it: no
\* later good step hides the failure.
FaultLatched ==
    [][running /\ running' /\ engState = "FAULT" => engState' = "FAULT"]_vars

\* A session the peer closed is not re-established behind the engine's back:
\* while the engine keeps running, a cloud that is down stays down.
NoReconnectWhileRunning ==
    [][running /\ running' /\ ~connected => ~connected']_vars

UpdateRank == [s \in OtaStates |->
    CASE s = "IDLE" -> 0 [] s = "RECEIVING" -> 1 [] s = "READY_TO_APPLY" -> 2]

\* Short of initialising the engine anew, an update only moves forward, through
\* faults, stops and restarts, and a completed image is never added to.
UpdateOnlyForward ==
    [][ \/ Initialise
        \/ /\ UpdateRank[otaState] <= UpdateRank[otaState']
           /\ otaState = "READY_TO_APPLY" => UNCHANGED bytesReceived ]_vars

\* An answer that is neither noise nor an update command is harmless: when the
\* engine faults without one in the slot, it has just lost the cloud.
HealthyEdgeNeverFaults ==
    [][ engState = "RUNNING" /\ engState' = "FAULT" /\ staged.cmd \in {"OTHER", "NONE"}
        => connected /\ ~connected' ]_vars

(* Refinement *)

\* The slot of the INTERNAL backend, seen through the step that reads it, is a
\* Mailbox: answers may be lost, but none is handled twice or out of order.
Slot == INSTANCE Mailbox WITH box <- stagedFor, put <- exchanges, taken <- handled

SlotIsMailbox == Slot!MailboxSpec

\* The engine with all it owns keeps what the application is promised: a start is
\* all or nothing, a step or a send never starts, stops or connects anything.
Seen == INSTANCE EnginePort WITH waiting <- staged # NoFrame

KeepsEnginePort == Seen!EnginePortSpec

(* Liveness *)

\* An answer the engine's buffer can hold does not wait forever: some step reads
\* it, a later answer replaces it, or the transport is closed.
AnswerLeaves ==
    \A n \in 1 .. MaxExchanges :
        (stagedFor = n /\ staged.len <= RxCap) ~> (stagedFor # n)

\* An update that has begun under a running engine ends: it completes, or its
\* configured timeout_ms gives it up.  (It does not: see the README.)
UpdateEnds ==
    running /\ otaState = "RECEIVING" ~> ~running \/ otaState # "RECEIVING"
=============================================================================
