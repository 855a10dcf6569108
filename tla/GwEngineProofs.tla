-------------------------- MODULE GwEngineProofs --------------------------
(***************************************************************************)
(* Proofs about GwEngine for every transport kind, every size and every    *)
(* edge.  One inductive invariant carries them all; each action gets a     *)
(* step, and the actions of the lower layers are opened only where used.   *)
(***************************************************************************)
EXTENDS GwEngine, TLAPS

\* A bus never fills the slot, so no exchange is ever numbered on one.
BusHasNoSlot == Kind # "INTERNAL" => staged = NoFrame /\ handled = 0

\* History and slot agree: an answer waits in the slot exactly when an exchange
\* owns it, and it is always the newest exchange.
SlotIsNewest ==
    /\ staged # NoFrame <=> stagedFor # 0
    /\ stagedFor # 0 => stagedFor = exchanges

IInv ==
    /\ TypeOK
    /\ OpenIffRunning
    /\ CloudUpOnlyWhileRunning
    /\ StateAgrees
    /\ SlotIsNewest
    /\ BusHasNoSlot

-----------------------------------------------------------------------------
\* The empty frame is no frame of the edge: its command is none of theirs.
LEMMA NoFrameIsNone ==
    /\ NoFrame \notin EdgeFrames
    /\ NoFrame.cmd \notin Cmds
    /\ NoFrame.len = 0
    /\ \A f \in EdgeFrames : f.cmd \in Cmds /\ f.len \in Nat
  BY TransportAssumption, SMT DEF NoFrame, Cmds, OtaCmds

\* Reducing modulo a positive number lands below it (tx_seq, bytes_received).
LEMMA ModRange == \A a \in Nat, m \in Nat \ {0} : a % m \in 0 .. m - 1
  BY Z3

\* Whatever a frame asks of the update, its bookkeeping keeps its type.
LEMMA FrameKeepsOtaType ==
    ASSUME OtaTypeOK, NEW f \in FramesSeen, NEW ok \in BOOLEAN,
           HandleIncomingFrame(f, ok)
    PROVE  OtaTypeOK'
<1>1. CASE f.cmd = "OTA_BEGIN" /\ OtaBegin(ok)
  BY <1>1, OtaAssumption, SMT DEF OtaTypeOK, OtaStates, OtaBegin
<1>2. CASE f.cmd = "OTA_CHUNK" /\ OtaPushChunk(f.len - Overhead, ok)
  <2>1. f \in EdgeFrames
    BY <1>2 DEF FramesSeen, NoFrame, BadFrame
  <2>2. f.len - Overhead \in Nat
    BY <2>1, <1>2, NoFrameIsNone, EngineAssumption, SMT
  <2>3. (bytesReceived + (f.len - Overhead)) % BytesMod \in 0 .. BytesMod - 1
    <3>1. bytesReceived + (f.len - Overhead) \in Nat
      BY <2>2, OtaAssumption, SMT DEF OtaTypeOK
    <3> QED
      BY <3>1, OtaAssumption, ModRange, Zenon
  <2> QED
    BY <1>2, <2>3 DEF OtaTypeOK, OtaPushChunk
<1>3. CASE f.cmd = "OTA_END" /\ OtaFinish(ok)
  BY <1>3, SMT DEF OtaTypeOK, OtaStates, OtaFinish
<1>4. CASE UNCHANGED otaVars
  BY <1>4 DEF OtaTypeOK, otaVars
<1> QED
  BY <1>1, <1>2, <1>3, <1>4 DEF HandleIncomingFrame

\* Reading the transport leaves it open or closed as it was; it empties the slot
\* exactly when it hands out what the slot held.
LEMMA RxEffect ==
    ASSUME IInv, NEW f \in FramesSeen, TransportRx(f), NoteHandled(f)
    PROVE  /\ TransportTypeOK' /\ isOpen' = isOpen
           /\ exchanges' = exchanges /\ stagedFor' \in Nat /\ handled' \in Nat
           /\ SlotIsNewest' /\ BusHasNoSlot'
           /\ IF f # NoFrame THEN handled' = stagedFor /\ stagedFor' = 0
                             ELSE UNCHANGED <<stagedFor, handled>>
           /\ Kind = "INTERNAL" /\ f # NoFrame => stagedFor # 0
<1>1. CASE Kind = "INTERNAL"
  BY <1>1, SMT DEF IInv, TypeOK, TransportTypeOK, TransportRx, InternalRx,
     NoteHandled, SlotIsNewest, BusHasNoSlot
<1>2. CASE Kind # "INTERNAL"
  BY <1>2, SMT DEF IInv, TypeOK, TransportTypeOK, TransportRx, BusRx,
     transportVars, NoteHandled, SlotIsNewest, BusHasNoSlot
<1> QED
  BY <1>1, <1>2

-----------------------------------------------------------------------------
\* The invariant holds before gw_engine_init.
LEMMA InitIInv == Init => IInv
<1> SUFFICES ASSUME Init PROVE IInv
  OBVIOUS
<1>1. OtaTypeOK /\ txSeq \in 0 .. SeqMod - 1
  BY OtaAssumption, EngineAssumption, SMT DEF Init, OtaTypeOK, OtaStates
<1>2. TypeOK
  <2>1. TransportTypeOK /\ CloudTypeOK /\ initialized \in BOOLEAN /\ running \in BOOLEAN
    BY Zenon DEF Init, TransportTypeOK, CloudTypeOK, PortInit
  <2>2. engState \in EngineStates \ {"INIT"}
        /\ exchanges \in Nat /\ stagedFor \in Nat /\ handled \in Nat
    BY SMT DEF Init, EngineStates
  <2> QED
    BY <1>1, <2>1, <2>2 DEF TypeOK
<1>3. OpenIffRunning /\ CloudUpOnlyWhileRunning
  BY Zenon DEF Init, PortInit, OpenIffRunning, CloudUpOnlyWhileRunning
<1>4. StateAgrees /\ SlotIsNewest /\ BusHasNoSlot
  BY SMT DEF Init, StateAgrees, SlotIsNewest, BusHasNoSlot
<1> QED
  BY <1>2, <1>3, <1>4 DEF IInv

\* Every call the application can make keeps the invariant.
LEMMA NextIInv == IInv /\ [Next]_vars => IInv'
<1> SUFFICES ASSUME IInv, [Next]_vars PROVE IInv'
  OBVIOUS
<1> USE DEF IInv, TypeOK
<1>1. ASSUME NEW rc \in {"OK", "EINVAL"}, EngineInit(rc) PROVE IInv'
  <2>1. txSeq' \in 0 .. SeqMod - 1
    BY <1>1, ModRange, EngineAssumption, SMT DEF EngineInit
  <2>2. OtaTypeOK'
    BY <1>1, OtaAssumption, SMT DEF EngineInit, OtaInit, OtaTypeOK, OtaStates
  <2>3. CloudTypeOK' /\ initialized' \in BOOLEAN /\ CloudUpOnlyWhileRunning'
    BY <1>1, Zenon DEF EngineInit, CloudInit, CloudTypeOK, CloudUpOnlyWhileRunning
  <2>4. engState' \in {"READY", "FAULT"} /\ (engState' = "READY" => initialized') /\ ~running'
    BY <1>1, Zenon DEF EngineInit
  <2>5. UNCHANGED <<transportVars, running, history>>
    BY <1>1 DEF EngineInit
  <2> QED
    BY <2>1, <2>2, <2>3, <2>4, <2>5
    DEF transportVars, TransportTypeOK, history, EngineStates, OpenIffRunning,
        StateAgrees, SlotIsNewest, BusHasNoSlot
<1>2. CASE StartNoTransport
  BY <1>2, SMT
  DEF StartNoTransport, StartFails, TransportOpen, OtaTypeOK, otaVars,
      CloudTypeOK, cloudVars, TransportTypeOK, EngineStates, OpenIffRunning,
      CloudUpOnlyWhileRunning, StateAgrees, SlotIsNewest, BusHasNoSlot
<1>3. ASSUME NEW rc \in {"EAGAIN", "ERR"}, StartNoCloud(rc) PROVE IInv'
  <2>1. ~connected' /\ CloudTypeOK' /\ ~isOpen' /\ isOpen' \in BOOLEAN /\ ~running'
    BY <1>3, Zenon
    DEF StartNoCloud, StartFails, TransportClose, CloudConnect, CloudTypeOK,
        CloudUpOnlyWhileRunning
  <2>2. /\ UNCHANGED <<otaVars, initialized, running, txSeq, exchanges, handled>>
        /\ initialized /\ staged' = NoFrame /\ stagedFor' = 0 /\ engState' = "FAULT"
    BY <1>3 DEF StartNoCloud, StartFails, TransportClose
  <2> QED
    BY <2>1, <2>2, SMT
    DEF otaVars, OtaTypeOK, TransportTypeOK, EngineStates, OpenIffRunning,
        CloudUpOnlyWhileRunning, StateAgrees, SlotIsNewest, BusHasNoSlot
<1>4. CASE StartUp
  BY <1>4, SMT
  DEF StartUp, TransportOpen, CloudConnect, OtaTypeOK, otaVars, CloudTypeOK,
      TransportTypeOK, EngineStates, OpenIffRunning, CloudUpOnlyWhileRunning,
      StateAgrees, SlotIsNewest, BusHasNoSlot
<1>5. ASSUME NEW f \in FramesSeen, StepRefusesFrame(f) PROVE IInv'
  <2>1. OtaTypeOK'
    BY <1>5, FrameKeepsOtaType DEF StepRefusesFrame
  <2>2. /\ TransportTypeOK' /\ isOpen' = isOpen /\ exchanges' = exchanges
        /\ stagedFor' \in Nat /\ handled' \in Nat /\ SlotIsNewest' /\ BusHasNoSlot'
    BY <1>5, RxEffect DEF StepRefusesFrame
  <2> QED
    BY <1>5, <2>1, <2>2, SMT
    DEF StepRefusesFrame, CloudTypeOK, cloudVars, EngineStates, OpenIffRunning,
        CloudUpOnlyWhileRunning, StateAgrees
<1>6. ASSUME NEW f \in FramesSeen, NEW rc \in {"OK", "ENOTCONN", "ERR"},
             StepPumps(f, rc)
      PROVE  IInv'
  <2>1. OtaTypeOK'
    BY <1>6, FrameKeepsOtaType DEF StepPumps
  <2>2. /\ TransportTypeOK' /\ isOpen' = isOpen /\ exchanges' = exchanges
        /\ stagedFor' \in Nat /\ handled' \in Nat /\ SlotIsNewest' /\ BusHasNoSlot'
    BY <1>6, RxEffect DEF StepPumps
  <2> QED
    BY <1>6, <2>1, <2>2, SMT
    DEF StepPumps, CloudPump, CloudTypeOK, EngineStates, OpenIffRunning,
        CloudUpOnlyWhileRunning, StateAgrees
<1>7. ASSUME NEW plen \in PayloadLens, NEW ok \in BOOLEAN, Send(plen, ok)
      PROVE  IInv'
  <2>1. txSeq' \in 0 .. SeqMod - 1
    BY <1>7, ModRange, EngineAssumption, SMT DEF Send
  <2>2. /\ TransportTypeOK' /\ isOpen' = isOpen
        /\ exchanges' \in Nat /\ stagedFor' \in Nat
        /\ SlotIsNewest' /\ BusHasNoSlot'
    BY <1>7, SMT
    DEF Send, TransportTx, TransportTypeOK, transportVars, SlotIsNewest,
        BusHasNoSlot
  <2> QED
    BY <1>7, <2>1, <2>2, SMT
    DEF Send, otaVars, OtaTypeOK, cloudVars, CloudTypeOK, OpenIffRunning,
        CloudUpOnlyWhileRunning, StateAgrees
<1>8. ASSUME NEW rc \in {"OK", "ERR", "ENOTCONN"}, PublishTelemetry(rc)
      PROVE  IInv'
  <2>1. CloudTypeOK' /\ running' /\ CloudUpOnlyWhileRunning'
    BY <1>8, Zenon
    DEF PublishTelemetry, CloudPublish, CloudTypeOK, engineVars,
        CloudUpOnlyWhileRunning
  <2>2. UNCHANGED <<otaVars, transportVars, engineVars, history>>
    BY <1>8 DEF PublishTelemetry
  <2> QED
    BY <2>1, <2>2
    DEF otaVars, OtaTypeOK, transportVars, TransportTypeOK, engineVars, history,
        OpenIffRunning, StateAgrees, SlotIsNewest, BusHasNoSlot
<1>9. CASE Stop
  <2>1. CloudTypeOK' /\ ~connected' /\ ~isOpen' /\ isOpen' \in BOOLEAN
        /\ ~running' /\ running' \in BOOLEAN
    BY <1>9, Zenon DEF Stop, CloudDisconnect, TransportClose, CloudTypeOK
  <2>2. /\ UNCHANGED <<otaVars, initialized, txSeq, exchanges, handled>>
        /\ initialized /\ staged' = NoFrame /\ stagedFor' = 0 /\ engState' = "READY"
    BY <1>9 DEF Stop, TransportClose
  <2> QED
    BY <2>1, <2>2, SMT
    DEF otaVars, OtaTypeOK, TransportTypeOK, EngineStates, OpenIffRunning,
        CloudUpOnlyWhileRunning, StateAgrees, SlotIsNewest, BusHasNoSlot
<1>10. CASE UNCHANGED vars
  BY <1>10
  DEF vars, otaVars, OtaTypeOK, transportVars, TransportTypeOK, cloudVars,
      CloudTypeOK, engineVars, history, OpenIffRunning,
      CloudUpOnlyWhileRunning, StateAgrees, SlotIsNewest, BusHasNoSlot
<1> QED
  BY <1>1, <1>2, <1>3, <1>4, <1>5, <1>6, <1>7, <1>8, <1>9, <1>10
  DEF Next, Initialise, Start, Step

\* The invariant holds in every reachable state.
THEOREM Invariance == Spec => []IInv
<1>1. Init => IInv
  BY InitIInv
<1>2. IInv /\ [Next]_vars => IInv'
  BY NextIInv
<1> QED
  BY <1>1, <1>2, PTL DEF Spec

\* Every variable of the engine and of the layers it owns keeps its type, for
\* any MTU, buffer and chunk size and any edge.
THEOREM TypeCorrect == Spec => []TypeOK
<1>1. IInv => TypeOK
  BY DEF IInv
<1> QED
  BY <1>1, Invariance, PTL

\* However starts, stops, faults and re-initialisations are ordered and fail, the
\* transport is open exactly while the engine runs.
THEOREM TransportFollows == Spec => []OpenIffRunning
<1>1. IInv => OpenIffRunning
  BY DEF IInv
<1> QED
  BY <1>1, Invariance, PTL

\* No failed start and no stop leaves the cloud session up.
THEOREM CloudFollows == Spec => []CloudUpOnlyWhileRunning
<1>1. IInv => CloudUpOnlyWhileRunning
  BY DEF IInv
<1> QED
  BY <1>1, Invariance, PTL

\* engine->state never contradicts the initialized and running flags.
THEOREM StateFollows == Spec => []StateAgrees
<1>1. IInv => StateAgrees
  BY DEF IInv
<1> QED
  BY <1>1, Invariance, PTL

-----------------------------------------------------------------------------
\* A running engine that reports FAULT goes on reporting it until it is stopped:
\* gw_engine_step never sets the state back, and nothing else touches it.
THEOREM FaultStays == Spec => FaultLatched
<1>1. IInv /\ [Next]_vars
      => (running /\ running' /\ engState = "FAULT" => engState' = "FAULT")
  <2> SUFFICES ASSUME [Next]_vars, running, running', engState = "FAULT"
               PROVE  engState' = "FAULT"
    OBVIOUS
  <2>1. CASE Step
    BY <2>1, Zenon DEF Step, StepRefusesFrame, StepPumps
  <2>2. CASE ~Step
    BY <2>2
    DEF Next, Initialise, EngineInit, Start, StartNoTransport, StartNoCloud,
        StartUp, Send, PublishTelemetry, engineVars, Stop, vars
  <2> QED
    BY <2>1, <2>2
<1> QED
  BY <1>1, Invariance, PTL DEF Spec, FaultLatched

\* A cloud session lost under a running engine stays lost until the engine is
\* stopped: only the pump and a publish reach the connector, and neither connects.
THEOREM DownStaysDown == Spec => NoReconnectWhileRunning
<1>1. [Next]_vars => (running /\ running' /\ ~connected => ~connected')
  <2> SUFFICES ASSUME [Next]_vars, running, running', ~connected
               PROVE  ~connected'
    OBVIOUS
  <2>1. CASE Step
    BY <2>1, Zenon DEF Step, StepRefusesFrame, StepPumps, CloudPump, cloudVars
  <2>2. ASSUME NEW rc \in {"OK", "ERR", "ENOTCONN"}, PublishTelemetry(rc)
        PROVE  ~connected'
    BY <2>2, Zenon DEF PublishTelemetry, CloudPublish
  <2>3. CASE ~Step /\ \A rc \in {"OK", "ERR", "ENOTCONN"} : ~PublishTelemetry(rc)
    BY <2>3
    DEF Next, Initialise, EngineInit, Start, StartNoTransport, StartNoCloud,
        StartUp, Send, Stop, vars, cloudVars
  <2> QED
    BY <2>1, <2>2, <2>3
<1> QED
  BY <1>1, PTL DEF Spec, NoReconnectWhileRunning

\* Between two initialisations an update only moves from idle to receiving to
\* ready, and a ready image is final, for any chunk size and counter width.
THEOREM UpdateMovesForward == Spec => UpdateOnlyForward
<1> DEFINE Forward ==
      \/ Initialise
      \/ /\ UpdateRank[otaState] <= UpdateRank[otaState']
         /\ otaState = "READY_TO_APPLY" => UNCHANGED bytesReceived
<1>1. IInv /\ [Next]_vars => Forward
  <2> SUFFICES ASSUME OtaTypeOK, [Next]_vars, ~Initialise PROVE Forward
    BY DEF IInv, TypeOK
  <2>1. UNCHANGED otaVars => Forward
    BY SMT DEF otaVars, OtaTypeOK, OtaStates, UpdateRank
  <2>2. ASSUME NEW f, NEW ok \in BOOLEAN, HandleIncomingFrame(f, ok) PROVE Forward
    <3>1. CASE OtaBegin(ok)
      <4>1. \/ UNCHANGED otaVars
            \/ otaState = "IDLE" /\ otaState' = "RECEIVING"
        BY <3>1, Zenon DEF OtaBegin, otaVars
      <4> QED
        BY <2>1, <4>1, SMT DEF OtaStates, UpdateRank
    <3>2. CASE OtaPushChunk(f.len - Overhead, ok)
      BY <3>2, SMT
      DEF OtaPushChunk, ChunkAccepted, OtaTypeOK, OtaStates, UpdateRank
    <3>3. CASE OtaFinish(ok)
      BY <3>3, SMT DEF OtaFinish, OtaTypeOK, OtaStates, UpdateRank
    <3> QED
      BY <2>1, <2>2, <3>1, <3>2, <3>3 DEF HandleIncomingFrame
  <2>3. CASE Step
    BY <2>2, <2>3 DEF Step, StepRefusesFrame, StepPumps
  <2>4. CASE ~Step
    BY <2>1, <2>4
    DEF Next, Start, StartNoTransport, StartNoCloud, StartUp, Send,
        PublishTelemetry, Stop, vars
  <2> QED
    BY <2>3, <2>4
<1> QED
  BY <1>1, Invariance, PTL DEF Spec, UpdateOnlyForward

\* Behind the INTERNAL backend, for any MTU, buffer and edge: an answer that is
\* neither noise nor an update command never faults the engine.
THEOREM PlainAnswersHarmless ==
    ASSUME Kind = "INTERNAL"
    PROVE  Spec => HealthyEdgeNeverFaults
<1>1. IInv /\ [Next]_vars
      => (engState = "RUNNING" /\ engState' = "FAULT" /\ staged.cmd \in {"OTHER", "NONE"}
          => connected /\ ~connected')
  <2> SUFFICES ASSUME IInv, [Next]_vars, engState = "RUNNING", engState' = "FAULT",
                      staged.cmd \in {"OTHER", "NONE"}
               PROVE  connected /\ ~connected'
    OBVIOUS
  <2>0. running
    BY DEF IInv, StateAgrees
  <2>1. ASSUME NEW f \in FramesSeen, StepRefusesFrame(f) PROVE FALSE
    <3>1. f \in {staged, NoFrame}
      BY <2>1 DEF StepRefusesFrame, TransportRx, InternalRx
    <3>2. f.cmd \in {"OTHER", "NONE"}
      BY <3>1 DEF NoFrame
    <3> QED
      BY <2>1, <3>2, Zenon DEF StepRefusesFrame, HandleIncomingFrame, OtaCmds
  <2>2. ASSUME NEW f \in FramesSeen, NEW rc \in {"OK", "ENOTCONN", "ERR"},
               StepPumps(f, rc)
        PROVE  connected /\ ~connected'
    BY <2>2, Zenon DEF StepPumps, CloudPump
  <2>3. CASE ~Step
    BY <2>0, <2>3
    DEF Next, Initialise, EngineInit, Start, StartNoTransport, StartNoCloud,
        StartUp, Send, PublishTelemetry, engineVars, Stop, vars
  <2> QED
    BY <2>1, <2>2, <2>3 DEF Step
<1> QED
  BY <1>1, Invariance, PTL DEF Spec, HealthyEdgeNeverFaults

-----------------------------------------------------------------------------
\* The slot of the INTERNAL backend implements the one-place mailbox: a step
\* that reads takes the newest answer, a send posts, opening and closing clear.
THEOREM SlotRefinesMailbox == Spec => SlotIsMailbox
<1>1. Init => Slot!MailboxInit
  BY DEF Init, Slot!MailboxInit
<1>2. IInv /\ [Next]_vars => [Slot!MailboxNext]_(Slot!mailboxVars)
  <2> SUFFICES ASSUME IInv, [Next]_vars
               PROVE  Slot!MailboxNext \/ UNCHANGED history
    BY DEF Slot!mailboxVars, history
  <2>1. CASE Initialise \/ UNCHANGED vars
            \/ \E rc \in {"OK", "ERR", "ENOTCONN"} : PublishTelemetry(rc)
    BY <2>1 DEF Initialise, EngineInit, PublishTelemetry, vars
  <2>2. CASE Start \/ Stop
    BY <2>2
    DEF Start, StartNoTransport, StartNoCloud, StartUp, Stop, Slot!MailboxNext,
        Slot!Clear
  <2>3. ASSUME NEW f \in FramesSeen, TransportRx(f), NoteHandled(f)
        PROVE  Slot!MailboxNext \/ UNCHANGED history
    <3>1. CASE f = NoFrame
      BY <2>3, <3>1 DEF NoteHandled, history
    <3>2. CASE f # NoFrame /\ Kind = "INTERNAL"
      BY <2>3, <3>2, RxEffect DEF Slot!MailboxNext, Slot!Take
    <3>3. CASE f # NoFrame /\ Kind # "INTERNAL"
      BY <2>3, <3>3, SMT DEF IInv, SlotIsNewest, BusHasNoSlot, NoteHandled, history
    <3> QED
      BY <3>1, <3>2, <3>3
  <2>4. CASE Step
    BY <2>3, <2>4 DEF Step, StepRefusesFrame, StepPumps
  <2>5. ASSUME NEW plen \in PayloadLens, NEW ok \in BOOLEAN, Send(plen, ok)
        PROVE  Slot!MailboxNext \/ UNCHANGED history
    BY <2>5 DEF Send, Slot!MailboxNext, Slot!Post, history
  <2> QED
    BY <2>1, <2>2, <2>4, <2>5 DEF Next
<1> QED
  BY <1>1, <1>2, Invariance, PTL
  DEF Spec, SlotIsMailbox, Slot!MailboxSpec, Slot!mailboxVars

\* An answer that waits is the newest, and was not handled before: what a step
\* acts on is never older than what an earlier step acted on.
AnswersInOrder == Slot!NewestWaits

\* Hence no step acts on an answer twice or after a later one: the mailbox's own
\* theorem, carried over by the refinement.
THEOREM HandledInOrder == Spec => []AnswersInOrder
<1>1. Slot!MailboxSpec => []Slot!NewestWaits
  BY Slot!TakenInOrder
<1> QED
  BY <1>1, SlotRefinesMailbox, PTL DEF SlotIsMailbox, AnswersInOrder
-----------------------------------------------------------------------------
\* The engine, whatever transport and connector it owns, implements what its
\* application is promised: each call is one of the port's, or changes nothing
\* the application sees.
THEOREM ImplementsEnginePort == Spec => KeepsEnginePort
<1> USE DEF Seen!EnginePortNext, Seen!portVars
<1>1. Init => Seen!EnginePortInit
  BY DEF Init, PortInit, Seen!EnginePortInit
<1>2. IInv /\ [Next]_vars => [Seen!EnginePortNext]_(Seen!portVars)
  <2> SUFFICES ASSUME IInv, [Next]_vars
               PROVE  Seen!EnginePortNext \/ UNCHANGED Seen!portVars
    OBVIOUS
  <2>1. CASE UNCHANGED vars
    BY <2>1 DEF vars, engineVars, cloudVars, transportVars
  <2>2. ASSUME NEW rc \in {"OK", "EINVAL"}, EngineInit(rc)
        PROVE  Seen!InitCall(rc = "OK")
    BY <2>2 DEF EngineInit, CloudInit, transportVars, Seen!InitCall
  <2>3. CASE Start
    <3>1. CASE StartNoTransport
      <4>1. ~connected
        BY <3>1, Zenon DEF StartNoTransport, IInv, CloudUpOnlyWhileRunning
      <4>2. ~running' /\ ~connected' /\ staged' = NoFrame
        BY <3>1, <4>1 DEF StartNoTransport, StartFails, TransportOpen, cloudVars
      <4>3. Seen!StartCall(FALSE)
        BY <3>1, <4>2, Zenon DEF StartNoTransport, StartFails, Seen!StartCall,
           IInv, TypeOK, CloudTypeOK, cloudVars
      <4> QED
        BY <4>3
    <3>2. ASSUME NEW rc \in {"EAGAIN", "ERR"}, StartNoCloud(rc)
          PROVE  Seen!StartCall(FALSE)
      BY <3>2 DEF StartNoCloud, StartFails, CloudConnect, TransportClose,
         Seen!StartCall, IInv, TypeOK, CloudUpOnlyWhileRunning
    <3>3. CASE StartUp
      BY <3>3 DEF StartUp, CloudConnect, TransportOpen, Seen!StartCall
    <3> QED
      BY <2>3, <3>1, <3>2, <3>3 DEF Start
  <2>4. ASSUME NEW f \in FramesSeen, TransportRx(f), running,
               UNCHANGED <<initialized, running>>, connected' \in {FALSE, connected}
        PROVE  Seen!StepCall
    BY <2>4 DEF TransportRx, InternalRx, BusRx, transportVars, Seen!StepCall
  <2>5. CASE Step
    <3>1. ASSUME NEW f \in FramesSeen, StepRefusesFrame(f)
          PROVE  Seen!StepCall
      BY <3>1, <2>4 DEF StepRefusesFrame, cloudVars
    <3>2. ASSUME NEW f \in FramesSeen, NEW rc \in {"OK", "ENOTCONN", "ERR"},
                 StepPumps(f, rc)
          PROVE  Seen!StepCall
      BY <3>2, <2>4 DEF StepPumps, CloudPump, IInv, TypeOK, CloudTypeOK
    <3> QED
      BY <2>5, <3>1, <3>2 DEF Step
  <2>6. ASSUME NEW plen \in PayloadLens, NEW ok \in BOOLEAN, Send(plen, ok)
        PROVE  Seen!SendCall
    BY <2>6 DEF Send, cloudVars, Seen!SendCall
  <2>7. ASSUME NEW rc \in {"OK", "ERR", "ENOTCONN"}, PublishTelemetry(rc)
        PROVE  Seen!StepCall
    BY <2>7 DEF PublishTelemetry, CloudPublish, transportVars, engineVars,
       Seen!StepCall
  <2>8. CASE Stop
    BY <2>8 DEF Stop, CloudDisconnect, TransportClose, Seen!StopCall
  <2> QED
    BY <2>1, <2>2, <2>3, <2>5, <2>6, <2>7, <2>8 DEF Next, Initialise
<1> QED
  BY <1>1, <1>2, Invariance, PTL
  DEF Spec, KeepsEnginePort, Seen!EnginePortSpec, Seen!portVars
-----------------------------------------------------------------------------
(* Two findings, for every run *)

NeverBegun == otaState = "IDLE"

\* Finding 1 carried on: behind the SPI bus an update does not even begin,
\* unless a BEGIN frame happens to fill the MTU exactly.
THEOREM NoUpdateOverSpi ==
    ASSUME Kind = "SPI", \A f \in EdgeFrames : f.cmd = "OTA_BEGIN" => f.len # Mtu
    PROVE  Spec => []NeverBegun
<1>1. Init => NeverBegun
  BY DEF Init, NeverBegun
<1>2. NeverBegun /\ [Next]_vars => NeverBegun'
  <2> SUFFICES ASSUME otaState = "IDLE", [Next]_vars PROVE otaState' = "IDLE"
    BY DEF NeverBegun
  <2>1. ASSUME NEW f, NEW ok \in BOOLEAN, TransportRx(f), HandleIncomingFrame(f, ok)
        PROVE  otaState' = "IDLE"
    <3>1. f.cmd # "OTA_BEGIN"
      BY <2>1 DEF TransportRx, BusRx, BusReads, NoFrame, BadFrame
    <3>2. OtaPushChunk(f.len - Overhead, ok) => otaState' = "IDLE"
      BY DEF OtaPushChunk
    <3>3. OtaFinish(ok) => otaState' = "IDLE"
      BY DEF OtaFinish
    <3> QED
      BY <2>1, <3>1, <3>2, <3>3 DEF HandleIncomingFrame, otaVars
  <2>2. CASE Step
    BY <2>1, <2>2 DEF Step, StepRefusesFrame, StepPumps
  <2>3. CASE ~Step
    BY <2>3
    DEF Next, Initialise, EngineInit, OtaInit, Start, StartNoTransport, StartNoCloud,
        StartUp, Send, PublishTelemetry, Stop, vars, otaVars
  <2> QED
    BY <2>2, <2>3
<1> QED
  BY <1>1, <1>2, PTL DEF Spec

\* Finding 2 for every run: no length of time, fault, stop or restart ends an
\* update that receives.  Only an END frame read, or gw_engine_init, does.
THEOREM UpdateWaitsForEnd ==
    ASSUME Kind = "INTERNAL"
    PROVE  Spec => [][ otaState = "RECEIVING" /\ staged.cmd # "OTA_END" /\ ~Initialise
                       => otaState' = "RECEIVING" ]_vars
<1>1. [Next]_vars => ( otaState = "RECEIVING" /\ staged.cmd # "OTA_END" /\ ~Initialise
                       => otaState' = "RECEIVING" )
  <2> SUFFICES ASSUME [Next]_vars, otaState = "RECEIVING", staged.cmd # "OTA_END",
                      ~Initialise
               PROVE  otaState' = "RECEIVING"
    OBVIOUS
  <2>1. ASSUME NEW f, NEW ok \in BOOLEAN, TransportRx(f), HandleIncomingFrame(f, ok)
        PROVE  otaState' = "RECEIVING"
    <3>1. f.cmd # "OTA_END"
      BY <2>1 DEF TransportRx, InternalRx, NoFrame
    <3>2. OtaBegin(ok) => otaState' = "RECEIVING"
      BY DEF OtaBegin
    <3>3. OtaPushChunk(f.len - Overhead, ok) => otaState' = "RECEIVING"
      BY DEF OtaPushChunk
    <3> QED
      BY <2>1, <3>1, <3>2, <3>3 DEF HandleIncomingFrame, otaVars
  <2>2. CASE Step
    BY <2>1, <2>2 DEF Step, StepRefusesFrame, StepPumps
  <2>3. CASE ~Step
    BY <2>3
    DEF Next, Start, StartNoTransport, StartNoCloud, StartUp, Send,
        PublishTelemetry, Stop, vars, otaVars
  <2> QED
    BY <2>2, <2>3
<1> QED
  BY <1>1, PTL DEF Spec
\* A step that gets anything from the transport.
Reads(f) == StepRefusesFrame(f) \/ \E rc \in {"OK", "ENOTCONN", "ERR"} : StepPumps(f, rc)

ReadFaults ==
    \A f \in FramesSeen \ {NoFrame} :
        Reads(f) => engState' = "FAULT" /\ UNCHANGED <<otaVars, cloudVars>>

\* Finding 1 for every run: behind the SPI bus, with an edge none of whose frames
\* fills the MTU, whatever a step reads faults the engine, before the update or the
\* cloud is looked after.
THEOREM SpiReadsFault ==
    ASSUME Kind = "SPI", \A f \in EdgeFrames : f.len # Mtu
    PROVE  Spec => [][ReadFaults]_vars
<1>1. [Next]_vars => ReadFaults
  <2> SUFFICES ASSUME NEW f \in FramesSeen, f # NoFrame, Reads(f)
               PROVE  engState' = "FAULT" /\ UNCHANGED <<otaVars, cloudVars>>
    BY DEF ReadFaults
  <2>1. TransportRx(f)
    BY DEF Reads, StepRefusesFrame, StepPumps
  <2>2. f.cmd = "BAD"
    BY <2>1 DEF TransportRx, BusRx, BusReads, BadFrame
  <2>3. ASSUME NEW ok \in BOOLEAN, HandleIncomingFrame(f, ok)
        PROVE  ~ok /\ UNCHANGED otaVars
    BY <2>2, <2>3 DEF HandleIncomingFrame
  <2>4. ~ \E rc \in {"OK", "ENOTCONN", "ERR"} : StepPumps(f, rc)
    BY <2>3 DEF StepPumps
  <2>5. StepRefusesFrame(f)
    BY <2>4 DEF Reads
  <2> QED
    BY <2>3, <2>5 DEF StepRefusesFrame
<1> QED
  BY <1>1, PTL DEF Spec

-----------------------------------------------------------------------------
(* Where answers go *)

\* A transport that is closed holds no answer.
ClosedIsEmpty == ~isOpen => staged = NoFrame

LEMMA ClosedStaysEmpty == IInv /\ ClosedIsEmpty /\ [Next]_vars => ClosedIsEmpty'
<1> SUFFICES ASSUME IInv, ClosedIsEmpty, [Next]_vars PROVE ClosedIsEmpty'
  OBVIOUS
<1>1. CASE Initialise \/ UNCHANGED vars
           \/ \E rc \in {"OK", "ERR", "ENOTCONN"} : PublishTelemetry(rc)
  BY <1>1 DEF Initialise, EngineInit, PublishTelemetry, vars, transportVars, ClosedIsEmpty
<1>2. CASE Start
  BY <1>2
  DEF Start, StartNoTransport, StartNoCloud, StartUp, TransportOpen, TransportClose,
      ClosedIsEmpty
<1>3. ASSUME NEW f \in FramesSeen, TransportRx(f) PROVE ClosedIsEmpty'
  BY <1>3 DEF TransportRx, InternalRx, BusRx, transportVars, ClosedIsEmpty
<1>4. CASE Step
  BY <1>3, <1>4 DEF Step, StepRefusesFrame, StepPumps
<1>5. ASSUME NEW plen \in PayloadLens, NEW ok \in BOOLEAN, Send(plen, ok)
      PROVE  ClosedIsEmpty'
  <2>1. TransportTx(plen + Overhead, ok)
    BY <1>5 DEF Send
  <2> QED
    BY <2>1 DEF TransportTx, transportVars, ClosedIsEmpty
<1>6. CASE Stop
  BY <1>6 DEF Stop, TransportClose, ClosedIsEmpty
<1> QED
  BY <1>1, <1>2, <1>4, <1>5, <1>6 DEF Next

\* Why an answer leaves: a step reads it, the engine is stopped, or a later
\* exchange takes its place.
LeavesForCause ==
    stagedFor # 0 /\ stagedFor' # stagedFor =>
        \/ Step /\ handled' = stagedFor
        \/ Stop
        \/ exchanges' = exchanges + 1

\* A step takes the answer that waits if the engine's buffer can hold it, and
\* otherwise leaves it where it is.
StepServes ==
    Step /\ stagedFor # 0 =>
        IF staged.len <= RxCap THEN handled' = stagedFor /\ stagedFor' = 0
                               ELSE UNCHANGED <<staged, stagedFor, handled>>

\* The half of AnswerLeaves that is safety: no answer is lost but to a later one
\* or a stop, and the next step reads any answer that fits, whichever frames,
\* faults and lost sessions come before it.
THEOREM AnswersAccounted == Spec => [][LeavesForCause /\ StepServes]_vars
<1>1. Init => ClosedIsEmpty
  BY DEF Init, ClosedIsEmpty
<1>2. ASSUME IInv, NEW f \in FramesSeen, running, TransportRx(f), NoteHandled(f),
             stagedFor # 0
      PROVE  IF staged.len <= RxCap THEN handled' = stagedFor /\ stagedFor' = 0
                                    ELSE UNCHANGED <<staged, stagedFor, handled>>
  <2>1. staged # NoFrame /\ Kind = "INTERNAL" /\ isOpen
    BY <1>2 DEF IInv, SlotIsNewest, BusHasNoSlot, OpenIffRunning
  <2>2. InternalRx(f)
    BY <1>2, <2>1 DEF TransportRx
  <2>3. CASE staged.len <= RxCap
    <3>1. f # NoFrame
      BY <2>1, <2>2, <2>3 DEF InternalRx
    <3> QED
      BY <1>2, <2>3, <3>1 DEF NoteHandled
  <2>4. CASE ~(staged.len <= RxCap)
    <3>1. f = NoFrame /\ staged' = staged
      BY <2>2, <2>4 DEF InternalRx
    <3> QED
      BY <1>2, <2>4, <3>1 DEF NoteHandled
  <2> QED
    BY <2>3, <2>4
<1>3. IInv /\ [Next]_vars => StepServes
  BY <1>2 DEF StepServes, Step, StepRefusesFrame, StepPumps
<1>4. IInv /\ ClosedIsEmpty /\ [Next]_vars => LeavesForCause
  <2> SUFFICES ASSUME IInv, ClosedIsEmpty, [Next]_vars,
                      stagedFor # 0, stagedFor' # stagedFor, ~Stop,
                      exchanges' # exchanges + 1
               PROVE  Step /\ handled' = stagedFor
    BY DEF LeavesForCause
  <2>1. running
    BY DEF IInv, OpenIffRunning, ClosedIsEmpty, SlotIsNewest
  <2>2. ~Start
    BY <2>1 DEF Start, StartNoTransport, StartNoCloud, StartUp
  <2>3. ~ \E plen \in PayloadLens, ok \in BOOLEAN : Send(plen, ok)
    BY DEF Send
  <2>4. Step
    BY <2>2, <2>3
    DEF Next, Initialise, EngineInit, PublishTelemetry, history, vars
  <2>5. handled' = stagedFor
    BY <1>3, <2>4 DEF StepServes
  <2> QED
    BY <2>4, <2>5
<1> QED
  BY <1>1, <1>3, <1>4, ClosedStaysEmpty, Invariance, PTL DEF Spec
=============================================================================
