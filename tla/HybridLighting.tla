--------------------------- MODULE HybridLighting ---------------------------
(***************************************************************************)
(* The lab application (main.c): its main loop and, on the network         *)
(* management thread, its Wi-Fi event handler.  The two share              *)
(* wifi_connected and wifi_connect_pending without a lock, so the loop is  *)
(* split at each access to them; `pc` is where it stands.  Everything else *)
(* belongs to the loop.  The handler runs on a cooperative thread: one     *)
(* step.  The engine is seen through EnginePort.  The simulated edge       *)
(* acknowledges every frame it is sent; its lamp is left out.              *)
(***************************************************************************)
EXTENDS Naturals, Sequences, EnginePort

CONSTANTS
    RetryMs,          \* LAB_WIFI_RETRY_MS and LAB_ENGINE_RETRY_MS
    TimeMod,          \* now_ms is a uint32_t: 2^32
    MaxTurnMs,        \* the longest turn of the loop
    HeartbeatEvery, TelemetryEvery, ControlEvery,
    TurnMod,          \* loop_count is a uint32_t: 2^32
    BootLinks         \* what the interface may be doing at boot

ASSUME LabAssumption ==
    /\ RetryMs \in Nat /\ TimeMod \in Nat \ {0} /\ MaxTurnMs \in Nat \ {0}
    /\ HeartbeatEvery \in Nat \ {0} /\ TelemetryEvery \in Nat \ {0}
    /\ ControlEvery \in Nat \ {0} /\ TurnMod \in Nat \ {0}
    /\ BootLinks \subseteq {"down", "connecting", "up"}

VARIABLES
    wifiConnected, pending,      \* shared with the event handler
    engineStarted,
    now, lastWifi, lastEngine,   \* now_ms and the last_*_attempt_ms
    turn,                        \* loop_count
    led,
    read,                        \* the local a shared flag was read into
    pc,
    link,                        \* the interface itself
    events                       \* its events, not yet handled

loopVars == <<engineStarted, now, lastWifi, lastEngine, turn, led, read, pc>>
wifiVars == <<link, events>>
vars == <<portVars, wifiConnected, pending, loopVars, wifiVars>>

Places == {"sync", "store", "wifi", "pending", "request", "again", "mark", "ask",
           "refused", "engine", "led", "blue", "green", "heartbeat", "telemetry",
           "control", "step"}

TypeOK ==
    /\ EnginePortTypeOK
    /\ wifiConnected \in BOOLEAN /\ pending \in BOOLEAN /\ engineStarted \in BOOLEAN
    /\ now \in 0 .. TimeMod - 1
    /\ lastWifi \in 0 .. TimeMod - 1 /\ lastEngine \in 0 .. TimeMod - 1
    /\ turn \in 0 .. TurnMod - 1
    /\ led \in {"OFF", "RED", "GREEN", "BLUE"}
    /\ read \in BOOLEAN /\ pc \in Places
    /\ link \in {"down", "connecting", "up"}
    /\ events \in Seq({"connected", "failed", "disconnected"})

-----------------------------------------------------------------------------
\* lab_init up to the registration of the handler; gw_engine_init succeeded.
Init ==
    /\ initialized = TRUE /\ running = FALSE /\ connected = FALSE /\ waiting = FALSE
    /\ wifiConnected = FALSE /\ pending = FALSE /\ engineStarted = FALSE
    /\ now = 0 /\ lastWifi = 0 /\ lastEngine = 0 /\ turn = 0
    /\ led = "OFF" /\ read = FALSE /\ pc = "sync"
    /\ link \in BootLinks /\ events = <<>>

\* Moves on to place p and leaves the rest of the loop's own state alone.
GoTo(p) ==
    /\ pc' = p
    /\ UNCHANGED <<engineStarted, now, lastWifi, lastEngine, turn, led>>

\* lab_wifi_status_sync: the request for the status, and the assignment.
SyncFails ==
    /\ pc = "sync" /\ GoTo("wifi")
    /\ UNCHANGED <<portVars, wifiConnected, pending, read, wifiVars>>

SyncReads ==
    /\ pc = "sync" /\ GoTo("store")
    /\ read' = (link = "up")
    /\ UNCHANGED <<portVars, wifiConnected, pending, wifiVars>>

SyncStores ==
    /\ pc = "store" /\ GoTo("wifi")
    /\ wifiConnected' = read /\ read' = FALSE
    /\ UNCHANGED <<portVars, pending, wifiVars>>

-----------------------------------------------------------------------------
\* Seeded fault: the time of the next attempt is computed, and wraps.
TooSoonByDate(last) == now < last + RetryMs

TooSoon(last) == (now + TimeMod - last) % TimeMod < RetryMs

\* lab_wifi_poll looks at the two flags, one after the other: nothing to do, or
\* an attempt is made.
WifiPollConnected ==
    /\ pc = "wifi" /\ GoTo(IF wifiConnected THEN "engine" ELSE "pending")
    /\ UNCHANGED <<portVars, wifiConnected, pending, read, wifiVars>>

WifiPollWaits ==
    /\ pc = "pending" /\ GoTo("engine")
    /\ pending \/ TooSoon(lastWifi)
    /\ UNCHANGED <<portVars, wifiConnected, pending, read, wifiVars>>

WifiPollTries ==
    /\ pc = "pending" /\ ~pending /\ ~TooSoon(lastWifi)
    /\ lastWifi' = now
    /\ pc' = "request"
    /\ UNCHANGED <<portVars, wifiConnected, pending, engineStarted, now,
                   lastEngine, turn, led, read, wifiVars>>

\* lab_wifi_connect_request: look again, mark the request, make it.
RequestConnected ==
    /\ pc = "request" /\ GoTo(IF wifiConnected THEN "engine" ELSE "again")
    /\ UNCHANGED <<portVars, wifiConnected, pending, read, wifiVars>>

RequestPending ==
    /\ pc = "again" /\ GoTo(IF pending THEN "engine" ELSE "mark")
    /\ UNCHANGED <<portVars, wifiConnected, pending, read, wifiVars>>

\* Seeded fault: the request is made without its mark.
RequestMarkedNot ==
    /\ pc = "mark" /\ GoTo("ask")
    /\ UNCHANGED <<portVars, wifiConnected, pending, read, wifiVars>>

RequestMarked ==
    /\ pc = "mark" /\ GoTo("ask")
    /\ pending' = TRUE
    /\ UNCHANGED <<portVars, wifiConnected, read, wifiVars>>

RequestAccepted ==
    /\ pc = "ask" /\ GoTo("engine")
    /\ link = "down" /\ link' = "connecting"
    /\ UNCHANGED <<portVars, wifiConnected, pending, read, events>>

RequestRefused ==
    /\ pc = "ask" /\ GoTo("refused")
    /\ UNCHANGED <<portVars, wifiConnected, pending, read, wifiVars>>

\* Seeded fault: a refused request stays marked.
RequestStaysMarked ==
    /\ pc = "refused" /\ GoTo("engine")
    /\ UNCHANGED <<portVars, wifiConnected, pending, read, wifiVars>>

\* Back in lab_wifi_poll, which takes the mark away again.
RequestUnmarked ==
    /\ pc = "refused" /\ GoTo("engine")
    /\ pending' = FALSE
    /\ UNCHANGED <<portVars, wifiConnected, read, wifiVars>>

-----------------------------------------------------------------------------
\* Seeded fault: the engine is left running without Wi-Fi.
EnginePollKeepsRunning ==
    /\ pc = "engine" /\ GoTo("led")
    /\ ~wifiConnected /\ engineStarted
    /\ UNCHANGED <<portVars, wifiConnected, pending, read, wifiVars>>

\* lab_engine_poll.
EnginePollStops ==
    /\ pc = "engine" /\ ~wifiConnected /\ engineStarted
    /\ StopCall
    /\ engineStarted' = FALSE /\ pc' = "led"
    /\ UNCHANGED <<wifiConnected, pending, now, lastWifi, lastEngine, turn, led,
                   read, wifiVars>>

EnginePollIdle ==
    /\ pc = "engine" /\ GoTo("led")
    /\ IF wifiConnected THEN engineStarted \/ TooSoon(lastEngine) ELSE ~engineStarted
    /\ UNCHANGED <<portVars, wifiConnected, pending, read, wifiVars>>

EnginePollStarts(ok) ==
    /\ pc = "engine" /\ wifiConnected /\ ~engineStarted /\ ~TooSoon(lastEngine)
    /\ lastEngine' = now
    /\ StartCall(ok)
    /\ engineStarted' = ok /\ pc' = "led"
    /\ UNCHANGED <<wifiConnected, pending, now, lastWifi, turn, led, read, wifiVars>>

-----------------------------------------------------------------------------
\* Seeded fault: a started engine is taken for a connected one.
LedReadsEngine ==
    /\ pc = "led" /\ GoTo("blue")
    /\ read' = (wifiConnected /\ engineStarted)
    /\ UNCHANGED <<portVars, wifiConnected, pending, wifiVars>>

\* lab_refresh_debug_led reads wifi_connected up to three times.
LedReads ==
    /\ pc = "led" /\ GoTo("blue")
    /\ read' = (wifiConnected /\ engineStarted /\ connected)
    /\ UNCHANGED <<portVars, wifiConnected, pending, wifiVars>>

\* The strip may refuse the update; led_state then keeps the old colour.
SetLed(colour) ==
    /\ led' \in {colour, led}
    /\ read' = FALSE /\ pc' = "heartbeat"
    /\ UNCHANGED <<portVars, wifiConnected, pending, engineStarted, now, lastWifi,
                   lastEngine, turn, wifiVars>>

LedBlue == pc = "blue" /\ wifiConnected /\ read /\ SetLed("BLUE")

LedNotBlue ==
    /\ pc = "blue" /\ GoTo("green")
    /\ ~(wifiConnected /\ read)
    /\ UNCHANGED <<portVars, wifiConnected, pending, read, wifiVars>>

\* Seeded fault: Wi-Fi without a session is shown like no Wi-Fi.
LedAlwaysRed == pc = "green" /\ SetLed("RED")

LedGreenOrRed ==
    /\ pc = "green"
    /\ SetLed(IF wifiConnected THEN "GREEN" ELSE "RED")

-----------------------------------------------------------------------------
\* One of the three frames, when its turn has come; the edge answers at once.
Sends(here, every, next) ==
    /\ pc = here /\ GoTo(next)
    /\ engineStarted /\ turn % every = 0
    /\ SendCall /\ waiting' = TRUE
    /\ UNCHANGED <<wifiConnected, pending, read, wifiVars>>

Silent(here, every, next) ==
    /\ pc = here /\ GoTo(next)
    /\ ~(engineStarted /\ turn % every = 0)
    /\ UNCHANGED <<portVars, wifiConnected, pending, read, wifiVars>>

Heartbeat ==
    \/ Sends("heartbeat", HeartbeatEvery, "telemetry")
    \/ Silent("heartbeat", HeartbeatEvery, "telemetry")

Telemetry ==
    \/ Sends("telemetry", TelemetryEvery, "control")
    \/ Silent("telemetry", TelemetryEvery, "control")

Control ==
    \/ Sends("control", ControlEvery, "step")
    \/ Silent("control", ControlEvery, "step")

\* Seeded fault: the uptime is kept in a wider type than the attempts.
EndTurnNoWrap ==
    /\ pc' = "wifi"
    /\ turn' = (turn + 1) % TurnMod
    /\ now < TimeMod /\ \E d \in 1 .. MaxTurnMs : now' = now + d
    /\ UNCHANGED <<wifiConnected, pending, lastWifi, lastEngine, led, read,
                   wifiVars>>

\* The end of a turn: sleep, and the clock and the count move on.
EndTurn ==
    /\ pc' = "wifi"
    /\ turn' = (turn + 1) % TurnMod
    /\ \E d \in 1 .. MaxTurnMs : now' = (now + d) % TimeMod
    /\ UNCHANGED <<wifiConnected, pending, lastWifi, lastEngine, led, read,
                   wifiVars>>

StepSkipped ==
    /\ pc = "step" /\ ~engineStarted
    /\ EndTurn
    /\ UNCHANGED <<portVars, engineStarted>>

\* Seeded fault: the step returns before it reads the transport.
StepSucceedsUnread ==
    /\ pc = "step" /\ engineStarted
    /\ StepCall /\ waiting' = waiting
    /\ EndTurn
    /\ UNCHANGED engineStarted

\* An acknowledgement always fits the engine's buffer.  The session may be found
\* closed here (-ENOTCONN), which the engine does not report.
StepSucceeds ==
    /\ pc = "step" /\ engineStarted
    /\ StepCall /\ waiting' = FALSE
    /\ EndTurn
    /\ UNCHANGED engineStarted

\* Seeded fault: the flag is cleared and the engine left running.
StepFailsKeepsEngine ==
    /\ pc = "step" /\ engineStarted /\ connected
    /\ StepCall /\ ~connected' /\ engineStarted' = FALSE
    /\ EndTurn

\* A step fails when it loses the cloud otherwise; the loop stops the engine.
StepFails ==
    /\ pc = "step" /\ engineStarted /\ connected
    /\ StopCall /\ engineStarted' = FALSE
    /\ EndTurn

-----------------------------------------------------------------------------
\* Seeded fault: every connect result is taken for a success.
HandleEventIgnoresStatus ==
    /\ events # <<>>
    /\ events' = Tail(events)
    /\ pending' = FALSE
    /\ wifiConnected' = (Head(events) # "disconnected")
    /\ UNCHANGED <<portVars, loopVars, link>>

\* lab_wifi_event_handler takes the next event.
HandleEvent ==
    /\ events # <<>>
    /\ events' = Tail(events)
    /\ pending' = FALSE
    /\ wifiConnected' = (Head(events) = "connected")
    /\ UNCHANGED <<portVars, loopVars, link>>

\* The interface and the network management queue, which loses nothing here.
LinkMoves(from, to, event) ==
    /\ link = from /\ link' = to
    /\ events' = Append(events, event)
    /\ UNCHANGED <<portVars, wifiConnected, pending, loopVars>>

LinkComesUp == LinkMoves("connecting", "up", "connected")

LinkFails == LinkMoves("connecting", "down", "failed")

LinkDrops == LinkMoves("up", "down", "disconnected")

-----------------------------------------------------------------------------
EngineStarts == EnginePollStarts(TRUE)

LedUpdates == (LedBlue \/ LedGreenOrRed) /\ led' # led

MainStep ==
    \/ SyncFails \/ SyncReads \/ SyncStores
    \/ WifiPollConnected \/ WifiPollWaits \/ WifiPollTries
    \/ RequestConnected \/ RequestPending \/ RequestMarked
    \/ RequestAccepted \/ RequestRefused \/ RequestUnmarked
    \/ EnginePollStops \/ EnginePollIdle \/ EngineStarts \/ EnginePollStarts(FALSE)
    \/ LedReads \/ LedBlue \/ LedNotBlue \/ LedGreenOrRed
    \/ Heartbeat \/ Telemetry \/ Control
    \/ StepSkipped \/ StepSucceeds \/ StepFails

Next == MainStep \/ HandleEvent \/ LinkComesUp \/ LinkFails \/ LinkDrops

Spec == Init /\ [][Next]_vars

\* Both threads are scheduled; a request, a start and an update of the LED that
\* are tried again and again sometimes succeed.  The interface owes nothing: it
\* may associate, fail, drop or work on a request for ever.
FairSpec ==
    /\ Spec
    /\ WF_vars(MainStep) /\ WF_vars(HandleEvent)
    /\ SF_vars(RequestAccepted) /\ SF_vars(EngineStarts) /\ SF_vars(LedUpdates)

-----------------------------------------------------------------------------
(* Safety *)

\* The loop's flag and the engine agree wherever the loop stands: it never sends
\* to, steps or starts an engine that is not what it believes.
EngineTracksFlag == engineStarted <=> running

\* The handler's flag is right but for what is queued: with no event waiting,
\* wifi_connected is the state of the interface.
FlagLagsEvents == events = <<>> => (wifiConnected <=> link = "up")

\* The mark of a request never outlives its answer: as long as it is set, the
\* request is being made, or the interface works on it, or the result is queued.
PendingIsAnswered ==
    pending => \/ pc \in {"ask", "refused"} \/ link = "connecting"
               \/ \E i \in DOMAIN events : events[i] \in {"connected", "failed"}

\* The application never has more than two of its own events in the queue of the
\* network management, and none can be lost to a queue that holds as many.
QueueStaysShort == Len(events) <= 2

\* No answer survives the turn it was given in: what a step reads was sent for
\* in the same turn, after any stop, start or fault.
AnswersAreFresh ==
    waiting => pc \in {"telemetry", "control", "step"}

(* Action properties *)

\* The LED turns blue only over a session that is up.
BlueIsEarned == [][led # "BLUE" /\ led' = "BLUE" => running /\ connected]_vars

(* Liveness *)

\* An engine does not outlive the Wi-Fi: it is stopped or the Wi-Fi is back.
EngineFollowsWifi == ~wifiConnected ~> (wifiConnected \/ ~running)

\* An interface that is down is asked to connect again, for as long as it takes.
WifiRetried == link = "down" ~> link # "down"

\* Over Wi-Fi that stays up the engine is (re)started whenever it stopped.
EngineComesBack == <>[](link = "up") => []<>running

\* Red means no Wi-Fi: over Wi-Fi that stays up the LED does not stay red.
RedMeansNoWifi == <>[](link = "up") => []<>(led # "RED")
=============================================================================
