------------------------ MODULE HybridLightingProofs ------------------------
(***************************************************************************)
(* Theorems about the lab application (HybridLighting), for every retry    *)
(* interval, period and clock width.  FlagFollowsLink and QueueShort       *)
(* assume an interface nobody else manages: it is down at boot.            *)
(***************************************************************************)
EXTENDS HybridLighting, SequenceTheorems, TLAPS

\* The engine's half of the invariant: only the loop touches the engine.
EngineIInv ==
    /\ initialized
    /\ EngineTracksFlag
    /\ AnswersAreFresh
    /\ waiting => running
    /\ pc = "blue" /\ read => running /\ connected

\* The Wi-Fi half: where a request can stand between the loop, the interface and
\* the handler.
Unasked ==
    /\ link = "down" /\ events = <<>>
    /\ ~wifiConnected /\ (pending <=> pc \in {"ask", "refused"})

InFlight ==
    /\ pending /\ ~wifiConnected
    /\ \/ link = "connecting" /\ events = <<>>
       \/ link = "up" /\ events = <<"connected">>
       \/ link = "down" /\ events = <<"failed">>
       \/ link = "down" /\ events = <<"connected", "disconnected">>

Associated ==
    /\ ~pending /\ wifiConnected
    /\ \/ link = "up" /\ events = <<>>
       \/ link = "down" /\ events = <<"disconnected">>

\* Where the loop relies on a flag it has read or written.
Critical == {"sync", "store", "request", "again", "mark", "ask", "refused"}

WifiIInv ==
    /\ Unasked \/ InFlight \/ Associated
    /\ pc \in Critical \ {"request"} => Unasked
    /\ pc = "request" => ~pending
    /\ pc = "store" => ~read
-----------------------------------------------------------------------------
(* Types: no step leaves them, the wrap of the uptime and of the turn count *)
(* included (main.c:553, 604).                                               *)
LEMMA TypesInductive ==
    ASSUME TypeOK, [Next]_vars
    PROVE  TypeOK'
<1>p. /\ "sync" \in Places /\ "store" \in Places /\ "wifi" \in Places
      /\ "pending" \in Places /\ "request" \in Places /\ "again" \in Places
      /\ "mark" \in Places /\ "ask" \in Places /\ "refused" \in Places
      /\ "engine" \in Places /\ "led" \in Places /\ "blue" \in Places
      /\ "green" \in Places /\ "heartbeat" \in Places /\ "telemetry" \in Places
      /\ "control" \in Places /\ "step" \in Places
  BY Zenon DEF Places
<1> USE <1>p DEF TypeOK, EnginePortTypeOK, portVars, wifiVars, GoTo
<1>1. CASE UNCHANGED vars
  BY <1>1 DEF vars, loopVars
<1>2. CASE SyncFails
  BY <1>2 DEF SyncFails
<1>3. CASE SyncReads
  BY <1>3 DEF SyncReads
<1>4. CASE SyncStores
  <2>1. wifiConnected' \in BOOLEAN
    BY <1>4 DEF SyncStores
  <2>2. read' = FALSE /\ pc' = "wifi"
    BY <1>4 DEF SyncStores
  <2>3. UNCHANGED <<portVars, pending, engineStarted, now, lastWifi, lastEngine, turn, led,
                    wifiVars>>
    BY <1>4 DEF SyncStores
  <2> QED
    BY <2>1, <2>2, <2>3
<1>5. CASE WifiPollConnected
  BY <1>5 DEF WifiPollConnected
<1>6. CASE WifiPollWaits
  BY <1>6 DEF WifiPollWaits
<1>7. CASE WifiPollTries
  BY <1>7 DEF WifiPollTries
<1>8. CASE RequestConnected
  BY <1>8 DEF RequestConnected
<1>9. CASE RequestPending
  BY <1>9 DEF RequestPending
<1>10. CASE RequestMarked
  BY <1>10 DEF RequestMarked
<1>11. CASE RequestAccepted
  BY <1>11 DEF RequestAccepted
<1>12. CASE RequestRefused \/ RequestUnmarked
  <2>1. CASE RequestRefused
    BY <2>1 DEF RequestRefused
  <2>2. CASE RequestUnmarked
    <3>1. pending' \in BOOLEAN /\ pc' = "engine"
      BY <2>2 DEF RequestUnmarked
    <3> QED
      BY <2>2, <3>1 DEF RequestUnmarked
  <2> QED
    BY <1>12, <2>1, <2>2
<1>13. CASE EnginePollStops
  BY <1>13 DEF EnginePollStops, StopCall
<1>14. CASE EnginePollIdle
  BY <1>14 DEF EnginePollIdle
<1>15. ASSUME NEW ok \in BOOLEAN, EnginePollStarts(ok)
      PROVE  TypeOK'
  BY <1>15 DEF EnginePollStarts, StartCall
<1>16. CASE LedReads
  BY <1>16 DEF LedReads
<1>17. CASE LedBlue
  <2>1. led' \in {"OFF", "RED", "GREEN", "BLUE"} /\ read' = FALSE /\ pc' = "heartbeat"
    BY <1>17 DEF LedBlue, SetLed
  <2> QED
    BY <1>17, <2>1 DEF LedBlue, SetLed
<1>18. CASE LedNotBlue
  BY <1>18 DEF LedNotBlue
<1>19. CASE LedGreenOrRed
  <2>1. led' \in {"OFF", "RED", "GREEN", "BLUE"} /\ read' = FALSE /\ pc' = "heartbeat"
    BY <1>19 DEF LedGreenOrRed, SetLed
  <2> QED
    BY <1>19, <2>1 DEF LedGreenOrRed, SetLed
<1>20. CASE Heartbeat \/ Telemetry \/ Control
  BY <1>20 DEF Heartbeat, Telemetry, Control, Sends, Silent, SendCall
<1>21. CASE StepSkipped
  BY <1>21, LabAssumption DEF StepSkipped, EndTurn
<1>22. CASE StepSucceeds
  <2>1. EndTurn /\ EnginePortTypeOK' /\ engineStarted' \in BOOLEAN
    BY <1>22 DEF StepSucceeds, StepCall, EndTurn
  <2> QED
    BY <2>1, LabAssumption DEF EndTurn
<1>23. CASE StepFails
  <2>1. EndTurn /\ EnginePortTypeOK' /\ engineStarted' \in BOOLEAN
    BY <1>23 DEF StepFails, StopCall, EndTurn
  <2> QED
    BY <2>1, LabAssumption DEF EndTurn
<1>24. CASE HandleEvent
  <2>1. events' \in Seq({"connected", "failed", "disconnected"})
    BY <1>24, HeadTailProperties DEF HandleEvent
  <2>2. wifiConnected' \in BOOLEAN
    BY <1>24, Zenon DEF HandleEvent
  <2>3. pending' = FALSE /\ UNCHANGED <<portVars, loopVars, link>>
    BY <1>24 DEF HandleEvent
  <2> QED
    BY <2>1, <2>2, <2>3 DEF loopVars
<1>25. CASE LinkComesUp
  BY <1>25 DEF LinkComesUp, LinkMoves, loopVars
<1>26. CASE LinkFails
  BY <1>26 DEF LinkFails, LinkMoves, loopVars
<1>27. CASE LinkDrops
  BY <1>27 DEF LinkDrops, LinkMoves, loopVars
<1> QED
  BY <1>1, <1>2, <1>3, <1>4, <1>5, <1>6, <1>7, <1>8, <1>9, <1>10, <1>11,
     <1>12, <1>13, <1>14, <1>15, <1>16, <1>17, <1>18, <1>19, <1>20, <1>21,
     <1>22, <1>23, <1>24, <1>25, <1>26, <1>27
  DEF Next, MainStep, EngineStarts

(* The loop's flag and its engine move together, an answer is read in the   *)
(* turn it was asked for in, and what was read of the session still holds   *)
(* when the LED is set (main.c:449-476, 561-590, 271-273).                  *)
LEMMA EngineInductive ==
    ASSUME EngineIInv, [Next]_vars
    PROVE  EngineIInv'
<1> USE DEF EngineIInv, EngineTracksFlag, AnswersAreFresh, portVars, wifiVars, GoTo
<1>1. CASE UNCHANGED vars
  BY <1>1 DEF vars, loopVars
<1>2. CASE SyncFails
  BY <1>2 DEF SyncFails
<1>3. CASE SyncReads
  BY <1>3 DEF SyncReads
<1>4. CASE SyncStores
  BY <1>4 DEF SyncStores
<1>5. CASE WifiPollConnected
  BY <1>5 DEF WifiPollConnected
<1>6. CASE WifiPollWaits
  BY <1>6 DEF WifiPollWaits
<1>7. CASE WifiPollTries
  BY <1>7 DEF WifiPollTries
<1>8. CASE RequestConnected
  BY <1>8 DEF RequestConnected
<1>9. CASE RequestPending
  BY <1>9 DEF RequestPending
<1>10. CASE RequestMarked
  BY <1>10 DEF RequestMarked
<1>11. CASE RequestAccepted
  BY <1>11 DEF RequestAccepted
<1>12. CASE RequestRefused \/ RequestUnmarked
  <2>1. CASE RequestRefused
    BY <2>1 DEF RequestRefused
  <2>2. CASE RequestUnmarked
    BY <2>2 DEF RequestUnmarked
  <2> QED
    BY <1>12, <2>1, <2>2
<1>13. CASE EnginePollStops
  BY <1>13 DEF EnginePollStops, StopCall
<1>14. CASE EnginePollIdle
  BY <1>14 DEF EnginePollIdle
<1>15. ASSUME NEW ok \in BOOLEAN, EnginePollStarts(ok)
      PROVE  EngineIInv'
  BY <1>15 DEF EnginePollStarts, StartCall
<1>16. CASE LedReads
  BY <1>16 DEF LedReads
<1>17. CASE LedBlue
  BY <1>17 DEF LedBlue, SetLed
<1>18. CASE LedNotBlue
  BY <1>18 DEF LedNotBlue
<1>19. CASE LedGreenOrRed
  BY <1>19 DEF LedGreenOrRed, SetLed
<1>20. CASE Heartbeat \/ Telemetry \/ Control
  <2>1. ASSUME NEW here \in Places, NEW every \in Nat,
               NEW next \in {"telemetry", "control", "step"},
               Sends(here, every, next)
        PROVE  EngineIInv'
    BY <2>1 DEF Sends, SendCall
  <2>2. ASSUME NEW here \in Places, NEW every \in Nat,
               NEW next \in {"telemetry", "control", "step"},
               Silent(here, every, next)
        PROVE  EngineIInv'
    BY <2>2 DEF Silent
  <2> QED
    BY <1>20, <2>1, <2>2, LabAssumption DEF Heartbeat, Telemetry, Control, Places
<1>21. CASE StepSkipped
  BY <1>21 DEF StepSkipped, EndTurn
<1>22. CASE StepSucceeds
  BY <1>22 DEF StepSucceeds, EndTurn, StepCall
<1>23. CASE StepFails
  BY <1>23 DEF StepFails, EndTurn, StopCall
<1>24. CASE HandleEvent
  BY <1>24 DEF HandleEvent, loopVars
<1>25. CASE LinkComesUp
  BY <1>25 DEF LinkComesUp, LinkMoves, loopVars
<1>26. CASE LinkFails
  BY <1>26 DEF LinkFails, LinkMoves, loopVars
<1>27. CASE LinkDrops
  BY <1>27 DEF LinkDrops, LinkMoves, loopVars
<1> QED
  BY <1>1, <1>2, <1>3, <1>4, <1>5, <1>6, <1>7, <1>8, <1>9, <1>10, <1>11,
     <1>12, <1>13, <1>14, <1>15, <1>16, <1>17, <1>18, <1>19, <1>20, <1>21,
     <1>22, <1>23, <1>24, <1>25, <1>26, <1>27
  DEF Next, MainStep, EngineStarts

(* The queue behind a connection that was lost before it was noticed.      *)
LEMMA TwoEvents ==
    ASSUME NEW a, NEW b
    PROVE  Append(<<a>>, b) = <<a, b>>
<1>1. <<a>> \in Seq({a, b}) /\ <<a, b>> \in Seq({a, b})
  OBVIOUS
<1>2. /\ Append(<<a>>, b) \in Seq({a, b}) /\ Len(Append(<<a>>, b)) = 2
      /\ Append(<<a>>, b)[1] = a /\ Append(<<a>>, b)[2] = b
  BY <1>1, AppendProperties
<1>3. Len(<<a, b>>) = 2 /\ <<a, b>>[1] = a /\ <<a, b>>[2] = b
  OBVIOUS
<1>4. \A i \in 1 .. 2 : Append(<<a>>, b)[i] = <<a, b>>[i]
  BY <1>2, <1>3
<1> QED
  BY <1>1, <1>2, <1>3, <1>4, SeqEqual

(* A request is in flight, its result queued, or nothing is pending; while  *)
(* the loop is making one, nothing at all is under way (main.c:284-439).    *)
LEMMA WifiInductive ==
    ASSUME TypeOK, WifiIInv, [Next]_vars
    PROVE  WifiIInv'
<1> USE DEF WifiIInv, Critical, Unasked, InFlight, Associated, wifiVars, GoTo
<1>1. CASE UNCHANGED vars
  BY <1>1 DEF vars, loopVars
<1>2. CASE HandleEvent
  <2>1. UNCHANGED <<pc, read, link>> /\ ~pending'
    BY <1>2 DEF HandleEvent, loopVars
  <2>2. wifiConnected' <=> Head(events) = "connected"
    BY <1>2, Zenon DEF HandleEvent
  <2>3. events # <<>> /\ events' = Tail(events)
    BY <1>2 DEF HandleEvent
  <2>4. /\ \A e \in {"connected", "failed", "disconnected"} :
              Tail(<<e>>) = <<>> /\ Head(<<e>>) = e
        /\ Tail(<<"connected", "disconnected">>) = <<"disconnected">>
        /\ Head(<<"connected", "disconnected">>) = "connected"
    OBVIOUS
  <2> QED
    BY <2>1, <2>2, <2>3, <2>4
<1>3. CASE LinkComesUp
  BY <1>3 DEF LinkComesUp, LinkMoves, loopVars
<1>4. CASE LinkFails
  BY <1>4 DEF LinkFails, LinkMoves, loopVars
<1>5. CASE LinkDrops
  <2>1. /\ Append(<<>>, "disconnected") = <<"disconnected">>
        /\ Append(<<"connected">>, "disconnected") = <<"connected", "disconnected">>
    BY SMT, TwoEvents
  <2> QED
    BY <1>5, <2>1 DEF LinkDrops, LinkMoves, loopVars
<1>6. CASE SyncFails
  BY <1>6 DEF SyncFails
<1>7. CASE SyncReads
  BY <1>7 DEF SyncReads
<1>8. CASE SyncStores
  BY <1>8 DEF SyncStores
<1>9. CASE WifiPollConnected
  BY <1>9 DEF WifiPollConnected
<1>10. CASE WifiPollWaits
  BY <1>10 DEF WifiPollWaits
<1>11. CASE WifiPollTries
  BY <1>11 DEF WifiPollTries
<1>12. CASE RequestConnected
  BY <1>12 DEF RequestConnected
<1>13. CASE RequestPending
  BY <1>13 DEF RequestPending
<1>14. CASE RequestMarked
  BY <1>14 DEF RequestMarked
<1>15. CASE RequestAccepted
  BY <1>15 DEF RequestAccepted
<1>16. CASE RequestRefused \/ RequestUnmarked
  BY <1>16 DEF RequestRefused, RequestUnmarked
<1>17. ASSUME UNCHANGED <<wifiConnected, pending, link, events>>,
              pc \notin Critical, pc' \notin Critical
       PROVE  WifiIInv'
  BY <1>17
<1>18. CASE EnginePollStops \/ EnginePollIdle
  BY <1>17, <1>18 DEF EnginePollStops, EnginePollIdle
<1>19. ASSUME NEW ok \in BOOLEAN, EnginePollStarts(ok)
       PROVE  WifiIInv'
  BY <1>17, <1>19 DEF EnginePollStarts
<1>20. CASE LedReads \/ LedBlue \/ LedNotBlue \/ LedGreenOrRed
  BY <1>17, <1>20 DEF LedReads, LedBlue, LedNotBlue, LedGreenOrRed, SetLed
<1>21. CASE Heartbeat \/ Telemetry \/ Control
  BY <1>17, <1>21 DEF Heartbeat, Telemetry, Control, Sends, Silent
<1>22. CASE StepSkipped \/ StepSucceeds \/ StepFails
  BY <1>17, <1>22 DEF StepSkipped, StepSucceeds, StepFails, EndTurn
<1> QED
  BY <1>1, <1>2, <1>3, <1>4, <1>5, <1>6, <1>7, <1>8, <1>9, <1>10, <1>11, <1>12,
     <1>13, <1>14, <1>15, <1>16, <1>18, <1>19, <1>20, <1>21, <1>22
  DEF Next, MainStep, EngineStarts

-----------------------------------------------------------------------------
(* Types of the loop's and the handler's state, for every clock width.      *)
THEOREM LabTypeCorrect == Spec => []TypeOK
<1>1. Init => TypeOK
  <2>1. <<>> \in Seq({"connected", "failed", "disconnected"})
    OBVIOUS
  <2> SUFFICES ASSUME Init
               PROVE  TypeOK
    OBVIOUS
  <2>2. pc \in Places /\ led \in {"OFF", "RED", "GREEN", "BLUE"}
    BY DEF Init, Places
  <2>3. /\ EnginePortTypeOK
        /\ wifiConnected \in BOOLEAN /\ pending \in BOOLEAN
        /\ engineStarted \in BOOLEAN /\ read \in BOOLEAN
    BY DEF Init, EnginePortTypeOK
  <2>4. /\ now \in 0 .. TimeMod - 1 /\ turn \in 0 .. TurnMod - 1
        /\ lastWifi \in 0 .. TimeMod - 1 /\ lastEngine \in 0 .. TimeMod - 1
    BY LabAssumption DEF Init
  <2>5. link \in {"down", "connecting", "up"} /\ events = <<>>
    BY LabAssumption DEF Init
  <2> QED
    BY <2>1, <2>2, <2>3, <2>4, <2>5 DEF TypeOK
<1> QED
  BY <1>1, TypesInductive, PTL DEF Spec

LEMMA EngineHalf == Spec => []EngineIInv
<1>1. Init => EngineIInv
  BY DEF Init, EngineIInv, EngineTracksFlag, AnswersAreFresh
<1> QED
  BY <1>1, EngineInductive, PTL DEF Spec

(* engine_started is true exactly while the engine runs, through stops,     *)
(* failed starts and failed steps (main.c:449-476, 583-590).                *)
THEOREM FlagIsEngine == Spec => []EngineTracksFlag
  BY EngineHalf, PTL DEF EngineIInv

(* No answer of the edge outlives the turn it was sent for in               *)
(* (main.c:561-590).                                                        *)
THEOREM AnswersFresh == Spec => []AnswersAreFresh
  BY EngineHalf, PTL DEF EngineIInv

(* The LED turns blue only over a running engine with a session, although   *)
(* the Wi-Fi flag may change between its reads (main.c:271-273).            *)
THEOREM BlueEarned == Spec => BlueIsEarned
<1>1. EngineIInv /\ [Next]_vars
      => [led # "BLUE" /\ led' = "BLUE" => running /\ connected]_vars
  <2> SUFFICES ASSUME EngineIInv, Next, led # "BLUE", led' = "BLUE"
               PROVE  running /\ connected
    OBVIOUS
  <2>1. CASE led' = led
    BY <2>1
  <2>2. CASE LedBlue
    BY <2>2 DEF LedBlue, EngineIInv
  <2>3. CASE LedGreenOrRed
    BY <2>3 DEF LedGreenOrRed, SetLed
  <2>4. led' = led \/ LedBlue \/ LedGreenOrRed
    BY DEF Next, MainStep, HandleEvent, LinkComesUp, LinkFails, LinkDrops, LinkMoves,
       loopVars, GoTo, SyncFails, SyncReads, SyncStores, WifiPollConnected,
       WifiPollWaits, WifiPollTries, RequestConnected, RequestPending,
       RequestMarked, RequestAccepted, RequestRefused, RequestUnmarked,
       EnginePollStops, EnginePollIdle, EngineStarts, EnginePollStarts, LedReads, LedNotBlue,
       Heartbeat, Telemetry, Control, Sends, Silent, EndTurn, StepSkipped,
       StepSucceeds, StepFails
  <2> QED
    BY <2>1, <2>2, <2>3, <2>4
<1> QED
  BY <1>1, EngineHalf, PTL DEF Spec, BlueIsEarned

-----------------------------------------------------------------------------
LEMMA WifiHalf == BootLinks = {"down"} => (Spec => []WifiIInv)
<1> SUFFICES ASSUME BootLinks = {"down"}
             PROVE  Spec => []WifiIInv
  OBVIOUS
<1>1. Init => WifiIInv
  BY DEF Init, WifiIInv, Critical, Unasked
<1> QED
  BY <1>1, WifiInductive, LabTypeCorrect, PTL DEF Spec

(* wifi_connected is the state of the interface but for the events still    *)
(* queued (main.c:284-316): the handler and the loop never leave it wrong.  *)
THEOREM FlagFollowsLink == BootLinks = {"down"} => (Spec => []FlagLagsEvents)
<1>1. WifiIInv => FlagLagsEvents
  BY DEF WifiIInv, Unasked, InFlight, Associated, FlagLagsEvents
<1> QED
  BY <1>1, WifiHalf, PTL

(* The event queue never holds more than two events of the application.     *)
THEOREM QueueShort == BootLinks = {"down"} => (Spec => []QueueStaysShort)
<1>1. /\ Len(<<>>) <= 2 /\ Len(<<"connected">>) <= 2 /\ Len(<<"failed">>) <= 2
      /\ Len(<<"disconnected">>) <= 2 /\ Len(<<"connected", "disconnected">>) <= 2
  OBVIOUS
<1>2. WifiIInv => QueueStaysShort
  BY <1>1 DEF WifiIInv, Unasked, InFlight, Associated, QueueStaysShort
<1> QED
  BY <1>2, WifiHalf, PTL
-----------------------------------------------------------------------------
(* Any interface at boot.                                                  *)

\* The queue when the loop may make a request, and any other it can hold.
Lulled ==
    \/ link \in {"down", "connecting", "up"} /\ events = <<>>
    \/ link = "up" /\ events = <<"connected">>
    \/ link = "down" /\ events \in { <<"connected", "disconnected">>,
                                     <<"disconnected">>, <<"failed">> }

Busy ==
    \/ link = "connecting" /\ events \in
          { <<"failed">>, <<"disconnected">>, <<"connected", "disconnected">> }
    \/ link = "up" /\ events \in
          { <<"failed", "connected">>, <<"disconnected", "connected">>,
            <<"connected", "disconnected", "connected">> }
    \/ link = "down" /\ events \in
          { <<"failed", "failed">>, <<"disconnected", "failed">>,
            <<"connected", "disconnected", "failed">>,
            <<"failed", "connected", "disconnected">>,
            <<"disconnected", "connected", "disconnected">>,
            <<"connected", "disconnected", "connected", "disconnected">> }

\* The loop makes a request only over a lulled queue.
MayRequest ==
    \/ ~pending /\ ~wifiConnected
    \/ pc \in {"sync", "store", "again", "mark", "ask", "refused"}

QueueInv ==
    /\ Lulled \/ Busy
    /\ MayRequest => Lulled
    /\ pc = "request" => ~pending
    /\ pc = "ask" /\ ~pending /\ ~wifiConnected => link = "down" /\ events = <<>>

QueueBounded == Len(events) <= 4

\* The flag is wrong, nothing is queued, and the loop is past its boot.
Misled ==
    /\ events = <<>> /\ pc \notin {"sync", "store"}
    /\ \/ link = "up" /\ ~wifiConnected /\ ~running
       \/ link = "down" /\ wifiConnected /\ pc \notin {"again", "mark", "ask"}

(* wifi_connect_pending never outlives the answer to its request, whoever   *)
(* else manages the interface (main.c:378-384, 432-434).                    *)
THEOREM PendingAnswered == Spec => []PendingIsAnswered
<1>1. Init => PendingIsAnswered
  BY DEF Init, PendingIsAnswered
<1>2. TypeOK /\ PendingIsAnswered /\ [Next]_vars => PendingIsAnswered'
  <2> SUFFICES ASSUME TypeOK, PendingIsAnswered, [Next]_vars
               PROVE  PendingIsAnswered'
    OBVIOUS
  <2>1. CASE UNCHANGED vars
    BY <2>1 DEF vars, loopVars, wifiVars, PendingIsAnswered
  <2>2. CASE HandleEvent
    BY <2>2 DEF HandleEvent, PendingIsAnswered
  <2>3. ASSUME NEW from \in {"connecting", "up"}, NEW to, NEW e,
               LinkMoves(from, to, e),
               from = "connecting" => e \in {"connected", "failed"}
        PROVE  PendingIsAnswered'
    <3> DEFINE n == Len(events)
    <3>1. n \in Nat /\ DOMAIN events = 1 .. n /\ DOMAIN events' = 1 .. n + 1
          /\ events'[n + 1] = e /\ \A i \in 1 .. n : events'[i] = events[i]
      <4>1. events \in Seq({"connected", "failed", "disconnected"} \cup {e})
        BY DEF TypeOK
      <4> QED
        BY <2>3, <4>1, AppendProperties, LenProperties DEF LinkMoves
    <3>2. UNCHANGED <<pending, pc>> /\ link = from
      BY <2>3 DEF LinkMoves, loopVars
    <3>3. CASE from = "connecting"
      BY <2>3, <3>1, <3>2, <3>3 DEF PendingIsAnswered
    <3>4. CASE from = "up"
      BY <3>1, <3>2, <3>4 DEF PendingIsAnswered
    <3> QED
      BY <3>3, <3>4
  <2>4. CASE LinkComesUp \/ LinkFails \/ LinkDrops
    BY <2>3, <2>4 DEF LinkComesUp, LinkFails, LinkDrops
  <2>5. CASE RequestMarked \/ RequestUnmarked \/ RequestAccepted \/ RequestRefused
    BY <2>5 DEF RequestMarked, RequestUnmarked, RequestAccepted, RequestRefused,
       GoTo, wifiVars, PendingIsAnswered
  <2>6. ASSUME UNCHANGED <<pending, link, events>>, pc \notin {"ask", "refused"}
        PROVE  PendingIsAnswered'
    BY <2>6 DEF PendingIsAnswered
  <2>7. CASE SyncFails \/ SyncReads \/ SyncStores
    BY <2>6, <2>7 DEF SyncFails, SyncReads, SyncStores, wifiVars
  <2>8. CASE WifiPollConnected \/ WifiPollWaits \/ WifiPollTries
             \/ RequestConnected \/ RequestPending
    BY <2>6, <2>8 DEF WifiPollConnected, WifiPollWaits, WifiPollTries,
       RequestConnected, RequestPending, wifiVars
  <2>9. CASE EnginePollStops \/ EnginePollIdle
             \/ \E ok \in BOOLEAN : EnginePollStarts(ok)
    BY <2>6, <2>9 DEF EnginePollStops, EnginePollIdle, EnginePollStarts, wifiVars
  <2>10. CASE LedReads \/ LedBlue \/ LedNotBlue \/ LedGreenOrRed
    BY <2>6, <2>10 DEF LedReads, LedBlue, LedNotBlue, LedGreenOrRed, SetLed, wifiVars
  <2>11. CASE Heartbeat \/ Telemetry \/ Control
    BY <2>6, <2>11 DEF Heartbeat, Telemetry, Control, Sends, Silent, wifiVars
  <2>12. CASE StepSkipped \/ StepSucceeds \/ StepFails
    BY <2>6, <2>12 DEF StepSkipped, StepSucceeds, StepFails, EndTurn, wifiVars
  <2> QED
    BY <2>1, <2>2, <2>4, <2>5, <2>7, <2>8, <2>9, <2>10, <2>11, <2>12
    DEF Next, MainStep, EngineStarts
<1> QED
  BY <1>1, <1>2, LabTypeCorrect, PTL DEF Spec

(* What the handler takes from a queue, and what the interface puts behind  *)
(* one.                                                                     *)
LEMMA Taken ==
    /\ \A a : Head(<<a>>) = a /\ Tail(<<a>>) = <<>>
    /\ \A a, b : Head(<<a, b>>) = a /\ Tail(<<a, b>>) = <<b>>
    /\ \A a, b, c : Head(<<a, b, c>>) = a /\ Tail(<<a, b, c>>) = <<b, c>>
    /\ \A a, b, c, d : Head(<<a, b, c, d>>) = a /\ Tail(<<a, b, c, d>>) = <<b, c, d>>
  OBVIOUS

LEMMA MoreEvents ==
    /\ \A a : Append(<<>>, a) = <<a>>
    /\ \A a, b : Append(<<a>>, b) = <<a, b>>
    /\ \A a, b, c : Append(<<a, b>>, c) = <<a, b, c>>
    /\ \A a, b, c, d : Append(<<a, b, c>>, d) = <<a, b, c, d>>
<1>1. ASSUME NEW a  PROVE Append(<<>>, a) = <<a>>
  BY SMT
<1>2. ASSUME NEW a, NEW b  PROVE Append(<<a>>, b) = <<a, b>>
  BY TwoEvents
<1>3. ASSUME NEW a, NEW b, NEW c  PROVE Append(<<a, b>>, c) = <<a, b, c>>
  <2>1. <<a, b>> \in Seq({a, b, c}) /\ <<a, b, c>> \in Seq({a, b, c})
    OBVIOUS
  <2>2. /\ Append(<<a, b>>, c) \in Seq({a, b, c}) /\ Len(Append(<<a, b>>, c)) = 3
        /\ Append(<<a, b>>, c)[1] = a /\ Append(<<a, b>>, c)[2] = b
        /\ Append(<<a, b>>, c)[3] = c
    BY <2>1, AppendProperties
  <2>3. \A i \in 1 .. 3 : Append(<<a, b>>, c)[i] = <<a, b, c>>[i]
    BY <2>2
  <2> QED
    BY <2>1, <2>2, <2>3, SeqEqual
<1>4. ASSUME NEW a, NEW b, NEW c, NEW d
      PROVE  Append(<<a, b, c>>, d) = <<a, b, c, d>>
  <2>1. <<a, b, c>> \in Seq({a, b, c, d}) /\ <<a, b, c, d>> \in Seq({a, b, c, d})
    OBVIOUS
  <2>2. /\ Append(<<a, b, c>>, d) \in Seq({a, b, c, d})
        /\ Len(Append(<<a, b, c>>, d)) = 4
        /\ Append(<<a, b, c>>, d)[1] = a /\ Append(<<a, b, c>>, d)[2] = b
        /\ Append(<<a, b, c>>, d)[3] = c /\ Append(<<a, b, c>>, d)[4] = d
    BY <2>1, AppendProperties
  <2>3. \A i \in 1 .. 4 : Append(<<a, b, c>>, d)[i] = <<a, b, c, d>>[i]
    BY <2>2
  <2> QED
    BY <2>1, <2>2, <2>3, SeqEqual
<1> QED
  BY <1>1, <1>2, <1>3, <1>4

(* The same for the queues of Busy.                                        *)
LEMMA BusyTaken ==
    /\ Head(<<"connected">>) = "connected" /\ Tail(<<"connected">>) = <<>>
    /\ Head(<<"failed">>) = "failed" /\ Tail(<<"failed">>) = <<>>
    /\ Head(<<"disconnected">>) = "disconnected" /\ Tail(<<"disconnected">>) = <<>>
    /\ Head(<<"connected", "disconnected">>) = "connected"
    /\ Tail(<<"connected", "disconnected">>) = <<"disconnected">>
    /\ Head(<<"failed", "connected">>) = "failed"
    /\ Tail(<<"failed", "connected">>) = <<"connected">>
    /\ Head(<<"disconnected", "connected">>) = "disconnected"
    /\ Tail(<<"disconnected", "connected">>) = <<"connected">>
    /\ Head(<<"connected", "disconnected", "connected">>) = "connected"
    /\ Tail(<<"connected", "disconnected", "connected">>) = <<"disconnected", "connected">>
    /\ Head(<<"failed", "failed">>) = "failed" /\ Tail(<<"failed", "failed">>) = <<"failed">>
    /\ Head(<<"disconnected", "failed">>) = "disconnected"
    /\ Tail(<<"disconnected", "failed">>) = <<"failed">>
    /\ Head(<<"connected", "disconnected", "failed">>) = "connected"
    /\ Tail(<<"connected", "disconnected", "failed">>) = <<"disconnected", "failed">>
    /\ Head(<<"failed", "connected", "disconnected">>) = "failed"
    /\ Tail(<<"failed", "connected", "disconnected">>) = <<"connected", "disconnected">>
    /\ Head(<<"disconnected", "connected", "disconnected">>) = "disconnected"
    /\ Tail(<<"disconnected", "connected", "disconnected">>) = <<"connected", "disconnected">>
    /\ Head(<<"connected", "disconnected", "connected", "disconnected">>) = "connected"
    /\ Tail(<<"connected", "disconnected", "connected", "disconnected">>) =
          <<"disconnected", "connected", "disconnected">>
  BY Taken

LEMMA BusyMore ==
    /\ Append(<<>>, "connected") = <<"connected">>
    /\ Append(<<>>, "failed") = <<"failed">>
    /\ Append(<<>>, "disconnected") = <<"disconnected">>
    /\ Append(<<"connected">>, "disconnected") = <<"connected", "disconnected">>
    /\ Append(<<"failed">>, "connected") = <<"failed", "connected">>
    /\ Append(<<"failed">>, "failed") = <<"failed", "failed">>
    /\ Append(<<"disconnected">>, "connected") = <<"disconnected", "connected">>
    /\ Append(<<"disconnected">>, "failed") = <<"disconnected", "failed">>
    /\ Append(<<"connected", "disconnected">>, "connected") =
          <<"connected", "disconnected", "connected">>
    /\ Append(<<"connected", "disconnected">>, "failed") =
          <<"connected", "disconnected", "failed">>
    /\ Append(<<"failed", "connected">>, "disconnected") =
          <<"failed", "connected", "disconnected">>
    /\ Append(<<"disconnected", "connected">>, "disconnected") =
          <<"disconnected", "connected", "disconnected">>
    /\ Append(<<"connected", "disconnected", "connected">>, "disconnected") =
          <<"connected", "disconnected", "connected", "disconnected">>
  BY MoreEvents

(* The queue takes one of the listed forms whatever the interface does, and *)
(* a request finds it lulled (main.c:284-439).                              *)
LEMMA QueueInductive ==
    ASSUME TypeOK, QueueInv, [Next]_vars
    PROVE  QueueInv'
<1>1. CASE UNCHANGED vars
  BY <1>1 DEF vars, loopVars, wifiVars, QueueInv, Lulled, Busy, MayRequest
<1>2. CASE HandleEvent
  <2>1. UNCHANGED <<pc, link>> /\ ~pending' /\ events # <<>> /\ events' = Tail(events)
    BY <1>2 DEF HandleEvent, loopVars
  <2>2. wifiConnected' <=> Head(events) = "connected"
    BY <1>2, Zenon DEF HandleEvent
  <2>3. Busy => (Lulled \/ Busy)'
    BY <2>1, BusyTaken, Zenon DEF Lulled, Busy
  <2>4. Lulled => Lulled'
    BY <2>1, BusyTaken, Zenon DEF Lulled
  <2>5. Busy /\ ~wifiConnected' => Lulled'
    BY <2>1, <2>2, BusyTaken, Zenon DEF Lulled, Busy
  <2>6. pc = "ask" /\ Lulled /\ ~wifiConnected' => link = "down" /\ events' = <<>>
    <3> SUFFICES ASSUME Lulled, ~wifiConnected' PROVE link = "down" /\ events' = <<>>
      OBVIOUS
    <3>1. events # <<"connected">> /\ events # <<"connected", "disconnected">>
      BY <2>2, BusyTaken, Zenon
    <3>2. link = "down" /\ (events = <<"disconnected">> \/ events = <<"failed">>)
      BY <2>1, <3>1, Zenon DEF Lulled
    <3> QED
      BY <2>1, <3>2, BusyTaken, Zenon
  <2> QED
    BY <2>1, <2>3, <2>4, <2>5, <2>6 DEF QueueInv, MayRequest
<1>3. CASE LinkComesUp \/ LinkFails \/ LinkDrops
  <2>1. UNCHANGED <<pc, pending, wifiConnected>>
    BY <1>3 DEF LinkComesUp, LinkFails, LinkDrops, LinkMoves, loopVars
  <2>2. Lulled => Lulled'
    <3>1. CASE LinkComesUp
      BY <3>1, BusyMore, Zenon DEF LinkComesUp, LinkMoves, Lulled
    <3>2. CASE LinkFails
      BY <3>2, BusyMore, Zenon DEF LinkFails, LinkMoves, Lulled
    <3>3. CASE LinkDrops
      BY <3>3, BusyMore, Zenon DEF LinkDrops, LinkMoves, Lulled
    <3> QED
      BY <1>3, <3>1, <3>2, <3>3
  <2>3. Busy => Busy'
    <3>1. CASE LinkComesUp
      BY <3>1, BusyMore, Zenon DEF LinkComesUp, LinkMoves, Busy
    <3>2. CASE LinkFails
      BY <3>2, BusyMore, Zenon DEF LinkFails, LinkMoves, Busy
    <3>3. CASE LinkDrops
      BY <3>3, BusyMore, Zenon DEF LinkDrops, LinkMoves, Busy
    <3> QED
      BY <1>3, <3>1, <3>2, <3>3
  <2>4. link # "down"
    BY <1>3 DEF LinkComesUp, LinkFails, LinkDrops, LinkMoves
  <2> QED
    BY <2>1, <2>2, <2>3, <2>4 DEF QueueInv, MayRequest
<1>4. CASE RequestAccepted
  <2>1. /\ pc = "ask" /\ link = "down" /\ link' = "connecting" /\ pc' = "engine"
        /\ UNCHANGED <<events, pending, wifiConnected>>
    BY <1>4 DEF RequestAccepted, GoTo
  <2> QED
    BY <2>1 DEF QueueInv, MayRequest, Lulled, Busy
<1>5. ASSUME UNCHANGED <<link, events>>
      PROVE  (Lulled <=> Lulled') /\ (Busy <=> Busy')
  BY <1>5 DEF Lulled, Busy
<1>6. CASE SyncFails \/ SyncReads \/ SyncStores
  BY <1>5, <1>6 DEF SyncFails, SyncReads, SyncStores, GoTo, wifiVars, QueueInv, MayRequest
<1>7. CASE WifiPollConnected \/ WifiPollWaits \/ WifiPollTries
  BY <1>5, <1>7 DEF WifiPollConnected, WifiPollWaits, WifiPollTries, GoTo, wifiVars,
     QueueInv, MayRequest
<1>8. CASE RequestConnected \/ RequestPending \/ RequestMarked
  BY <1>5, <1>8 DEF RequestConnected, RequestPending, RequestMarked, GoTo, wifiVars,
     QueueInv, MayRequest
<1>9. CASE RequestRefused \/ RequestUnmarked
  BY <1>5, <1>9 DEF RequestRefused, RequestUnmarked, GoTo, wifiVars, QueueInv, MayRequest
<1>10. ASSUME UNCHANGED <<wifiConnected, pending, link, events>>,
              pc \notin Critical, pc' \notin Critical
       PROVE  QueueInv'
  BY <1>5, <1>10 DEF Critical, QueueInv, MayRequest
<1>11. CASE EnginePollStops \/ EnginePollIdle
            \/ \E ok \in BOOLEAN : EnginePollStarts(ok)
  BY <1>10, <1>11 DEF EnginePollStops, EnginePollIdle, EnginePollStarts, GoTo, wifiVars,
     Critical
<1>12. CASE LedReads \/ LedBlue \/ LedNotBlue \/ LedGreenOrRed
  BY <1>10, <1>12 DEF LedReads, LedBlue, LedNotBlue, LedGreenOrRed, SetLed, GoTo,
     wifiVars, Critical
<1>13. CASE Heartbeat \/ Telemetry \/ Control
  BY <1>10, <1>13 DEF Heartbeat, Telemetry, Control, Sends, Silent, GoTo, wifiVars,
     Critical
<1>14. CASE StepSkipped \/ StepSucceeds \/ StepFails
  BY <1>10, <1>14 DEF StepSkipped, StepSucceeds, StepFails, EndTurn, wifiVars, Critical
<1> QED
  BY <1>1, <1>2, <1>3, <1>4, <1>6, <1>7, <1>8, <1>9, <1>11, <1>12, <1>13, <1>14
  DEF Next, MainStep, EngineStarts

(* Whatever the interface is doing at boot, the event queue never holds     *)
(* more than four events of the application.                                *)
THEOREM QueueNeverLong == Spec => []QueueBounded
<1>1. Init => QueueInv
  BY LabAssumption DEF Init, QueueInv, Lulled, MayRequest
<1>2. /\ Len(<<>>) <= 4
      /\ \A a : Len(<<a>>) <= 4
      /\ \A a, b : Len(<<a, b>>) <= 4
      /\ \A a, b, c : Len(<<a, b, c>>) <= 4
      /\ \A a, b, c, d : Len(<<a, b, c, d>>) <= 4
  OBVIOUS
<1>3. QueueInv => QueueBounded
  <2>1. Lulled => QueueBounded
    BY <1>2, Zenon DEF Lulled, QueueBounded
  <2>2. Busy => QueueBounded
    BY <1>2, Zenon DEF Busy, QueueBounded
  <2> QED
    BY <2>1, <2>2 DEF QueueInv
<1> QED
  BY <1>1, <1>3, QueueInductive, LabTypeCorrect, PTL DEF Spec

(* Finding 5 for every run: nothing the loop or the handler does sets a     *)
(* flag right that the boot has left wrong.  Over an interface that is up   *)
(* the engine stays stopped until the interface drops; one that is down is  *)
(* never asked to connect again (main.c:338, 420, 449).                     *)
THEOREM MisledForGood ==
    Spec => [][Misled => Misled' \/ (link = "up" /\ link' = "down")]_vars
<1>1. [Next]_vars => [Misled => Misled' \/ (link = "up" /\ link' = "down")]_vars
  <2> SUFFICES ASSUME Next, Misled
               PROVE  Misled' \/ (link = "up" /\ link' = "down")
    OBVIOUS
  <2> USE DEF Misled, wifiVars, portVars, GoTo
  <2>1. ~HandleEvent /\ ~LinkComesUp /\ ~LinkFails
    BY DEF HandleEvent, LinkComesUp, LinkFails, LinkMoves
  <2>2. CASE LinkDrops
    BY <2>2 DEF LinkDrops, LinkMoves
  <2>3. ~SyncFails /\ ~SyncReads /\ ~SyncStores /\ ~RequestAccepted
    BY DEF SyncFails, SyncReads, SyncStores, RequestAccepted
  <2>4. CASE WifiPollConnected \/ WifiPollWaits \/ WifiPollTries
    BY <2>4 DEF WifiPollConnected, WifiPollWaits, WifiPollTries
  <2>5. CASE RequestConnected \/ RequestPending \/ RequestMarked
    BY <2>5 DEF RequestConnected, RequestPending, RequestMarked
  <2>6. CASE RequestRefused \/ RequestUnmarked
    BY <2>6 DEF RequestRefused, RequestUnmarked
  <2>7. CASE EnginePollStops \/ EnginePollIdle
             \/ \E ok \in BOOLEAN : EnginePollStarts(ok)
    BY <2>7 DEF EnginePollStops, EnginePollIdle, EnginePollStarts, StopCall
  <2>8. CASE LedReads \/ LedBlue \/ LedNotBlue \/ LedGreenOrRed
    BY <2>8 DEF LedReads, LedBlue, LedNotBlue, LedGreenOrRed, SetLed
  <2>9. CASE Heartbeat \/ Telemetry \/ Control
    BY <2>9 DEF Heartbeat, Telemetry, Control, Sends, Silent, SendCall
  <2>10. CASE StepSkipped \/ StepSucceeds \/ StepFails
    BY <2>10 DEF StepSkipped, StepSucceeds, StepFails, EndTurn, StepCall, StopCall
  <2> QED
    BY <2>1, <2>2, <2>3, <2>4, <2>5, <2>6, <2>7, <2>8, <2>9, <2>10
    DEF Next, MainStep, EngineStarts
<1> QED
  BY <1>1, PTL DEF Spec
-----------------------------------------------------------------------------
(* The clock of the retries *)

LEMMA Quotient ==
    ASSUME NEW m \in Nat \ {0}, NEW a \in Int
    PROVE  a % m \in 0 .. m - 1 /\ \E q \in Int : a = (q * m) + (a % m)
<1>1. a = ((a \div m) * m) + (a % m)
  OBVIOUS
<1>2. a % m \in 0 .. m - 1 /\ a \div m \in Int
  OBVIOUS
<1> QED
  BY <1>1, <1>2, Zenon

LEMMA Remainder ==
    ASSUME NEW m \in Nat \ {0}, NEW q \in Int, NEW r \in 0 .. m - 1,
           NEW a, a = (q * m) + r
    PROVE  a % m = r
  OBVIOUS

LEMMA Gathered ==
    ASSUME NEW m \in Nat \ {0}, NEW p \in Int, NEW q \in Int, NEW s \in Int
    PROVE  (p * m) + (q * m) - (s * m) + m = (p + q - s + 1) * m
  OBVIOUS

\* The difference of two readings of a clock that wraps is the time between them,
\* wrapped.
LEMMA ElapsedTime ==
    ASSUME NEW m \in Nat \ {0}, NEW t \in Nat, NEW d \in Nat
    PROVE  (((t + d) % m) + m - (t % m)) % m = d % m
<1> DEFINE u == t + d
<1>0. t \in Int /\ u \in Int /\ d \in Int
  OBVIOUS
<1>1. PICK p \in Int : t = (p * m) + (t % m)
  BY <1>0, Quotient, Zenon
<1>2. PICK s \in Int : u = (s * m) + (u % m)
  BY <1>0, Quotient, Zenon
<1>3. PICK q \in Int : d = (q * m) + (d % m)
  BY <1>0, Quotient, Zenon
<1>4. t % m \in 0 .. m - 1 /\ u % m \in 0 .. m - 1 /\ d % m \in 0 .. m - 1
  BY <1>0, Quotient, Zenon
<1> DEFINE a == t % m
           b == u % m
           c == d % m
           x == p * m
           y == s * m
           z == q * m
           k == p + q - s + 1
<1>5. x \in Int /\ y \in Int /\ z \in Int /\ k \in Int /\ x + z - y + m = k * m
  BY Gathered
<1>6. t = x + a /\ u = y + b /\ d = z + c /\ u = t + d
  BY <1>1, <1>2, <1>3
<1>7. a \in Int /\ b \in Int /\ c \in 0 .. m - 1
  BY <1>4
<1> HIDE DEF u, a, b, c, x, y, z, k
<1>8. b + m - a = (x + z - y + m) + c
  BY <1>5, <1>6, <1>7
<1>9. b + m - a = (k * m) + c
  BY <1>5, <1>8
<1> DEFINE e == b + m - a
<1>10. e = (k * m) + c
  BY <1>9
<1> HIDE DEF e
<1>11. e % m = c
  BY <1>5, <1>7, <1>10, Remainder, Zenon
<1> QED
  BY <1>11 DEF a, b, c, u, e

\* Whatever the uptime was at the last attempt, and wrapped or not since, the next
\* one has to wait for RetryMs, and not a millisecond longer, as long as the time
\* since then is itself short of a wrap (main.c:426, 462: uint32_t differences).
THEOREM RetryClockExact ==
    ASSUME NEW t \in Nat, NEW d \in 0 .. TimeMod - 1, now = (t + d) % TimeMod
    PROVE  TooSoon(t % TimeMod) <=> d < RetryMs
<1>1. TimeMod \in Nat \ {0} /\ d \in Nat
  BY LabAssumption
<1>2. (now + TimeMod - (t % TimeMod)) % TimeMod = d % TimeMod
  BY <1>1, ElapsedTime
<1>3. d % TimeMod = d
  BY <1>1
<1> QED
  BY <1>2, <1>3 DEF TooSoon
=============================================================================
