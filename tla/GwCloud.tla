------------------------------ MODULE GwCloud ------------------------------
(***************************************************************************)
(* gw_cloud_zephyr.c: the connector that bootstraps a device over HTTPS,   *)
(* fetches its MQTT credentials and holds one MQTT session.                *)
(*                                                                         *)
(* gw_cloud_connect blocks the engine's loop through several exchanges;    *)
(* `pc` is where it stands, so the backend and the broker can act between  *)
(* them.  Backend, broker and the Zephyr MQTT library are external: the    *)
(* library delivers CONNACK and the close of a session only inside         *)
(* mqtt_input, and closes its socket, with an event, on every error.       *)
(* Credentials are known by the generation the backend issued, 0 is empty. *)
(***************************************************************************)
EXTENDS Naturals

CONSTANTS
    Scheme,       \* of the broker URL: "WSS", "WS", "HTTPS" or "HTTP"
    Configured,   \* the sets of credential fields gw_cloud_config_t may come with
    Named,        \* whether it may give (or lack) a hardware_id or device_id
    Reported,     \* the status strings the backend may answer
    MaxIssued     \* bound on the generations the backend issues

Statuses == {"UNKNOWN", "NOT_PROVISIONED", "UNCLAIMED", "CLAIMED", "ACTIVE",
             "SUSPENDED", "REVOKED"}

Admitted == {"CLAIMED", "ACTIVE"}

\* In the order gw_cloud_do_secret parses them out of the answer.
Position == [secret |-> 1, user |-> 2, broker |-> 3, prefix |-> 4]

Fields == {"secret", "user", "broker", "prefix"}

ASSUME CloudAssumption ==
    /\ Scheme \in {"WSS", "WS", "HTTPS", "HTTP"}
    /\ Configured \subseteq SUBSET Fields /\ Named \subseteq BOOLEAN
    /\ MaxIssued \in Nat \ {0}

VARIABLES
    cloudInit, connected,   \* client->initialized, client->connected
    credReady,              \* client->credentials_ready
    status,                 \* client->status
    resolved,               \* client->resolved_*, by generation
    rt,                     \* g_rt.connack_received and g_rt.mqtt_connected
    pc,                     \* where gw_cloud_connect stands
    session,                \* the MQTT session the library holds open
    handshake,              \* the broker name the last mqtt_connect was given
    config,                 \* client->config, the caller's for good
    devStatus, issued       \* backend: the device's status, last generation

clientVars == <<cloudInit, connected, credReady, status, resolved>>
outside == <<config, devStatus, issued>>
vars == <<clientVars, rt, pc, session, handshake, outside>>

Empty == [f \in Fields |-> 0]

Wiped == [connack |-> FALSE, up |-> FALSE]

NoSession == [open |-> FALSE, user |-> 0, secret |-> 0,
              verdict |-> "none", unread |-> "none"]

TypeOK ==
    /\ cloudInit \in BOOLEAN /\ connected \in BOOLEAN /\ credReady \in BOOLEAN
    /\ status \in Statuses
    /\ resolved \in [Fields -> 0 .. MaxIssued]
    /\ rt \in [connack : BOOLEAN, up : BOOLEAN]
    /\ pc \in {"idle", "bootstrap", "secret", "configure", "mqtt_connect", "wait_connack"}
    /\ session \in [open : BOOLEAN, user : 0 .. MaxIssued, secret : 0 .. MaxIssued,
                    verdict : {"none", "accept", "refuse"},
                    unread : {"none", "connack", "close", "other"}]
    /\ handshake \in {"none", "broker", "garbage"}
    /\ config \in [fields : Configured, named : Named]
    /\ devStatus \in Reported /\ issued \in 1 .. MaxIssued

-----------------------------------------------------------------------------
Init ==
    /\ cloudInit = FALSE /\ connected = FALSE /\ credReady = FALSE
    /\ status = "UNKNOWN" /\ resolved = Empty
    /\ rt = Wiped /\ pc = "idle" /\ session = NoSession /\ handshake = "none"
    /\ config \in [fields : Configured, named : Named]
    /\ devStatus \in Reported /\ issued = 1

\* A configured broker is no condition for credentials_ready, and an identity
\* key is enough of an identity here.  The engine only initialises a connector
\* it has disconnected.
CloudInit ==
    /\ pc = "idle" /\ ~connected
    /\ cloudInit' = TRUE /\ connected' = FALSE /\ status' = "UNKNOWN"
    /\ resolved' = [f \in Fields |-> IF f \in config.fields THEN 1 ELSE 0]
    /\ credReady' = ({"user", "secret", "prefix"} \subseteq config.fields)
    /\ UNCHANGED <<rt, pc, session, handshake, outside>>

\* Seeded fault: a connector that was never initialised is not refused.
ConnectCallUnchecked ==
    /\ pc = "idle" /\ ~connected
    /\ pc' = "bootstrap"
    /\ UNCHANGED <<clientVars, rt, session, handshake, outside>>

ConnectCall ==
    /\ pc = "idle" /\ cloudInit /\ ~connected
    /\ pc' = "bootstrap"
    /\ UNCHANGED <<clientVars, rt, session, handshake, outside>>

\* URL, clock, signature, payload, socket, HTTP status and JSON may each fail;
\* gw_build_auth_payload does without an id to name the device by.
BootstrapFails ==
    /\ pc = "bootstrap"
    /\ pc' = "idle"
    /\ UNCHANGED <<clientVars, rt, session, handshake, outside>>

\* Seeded fault: an unknown status string passes through.
StatusFromStringRaw(s) == s

StatusFromString(s) == IF s \in Statuses THEN s ELSE "UNKNOWN"

\* Seeded fault: the reported status is stored and not looked at.
BootstrapDoneUngated ==
    /\ pc = "bootstrap" /\ config.named
    /\ status' = StatusFromString(devStatus)
    /\ pc' = IF credReady THEN "configure" ELSE "secret"
    /\ UNCHANGED <<cloudInit, connected, credReady, resolved, rt, session,
                   handshake, outside>>

BootstrapDone ==
    /\ pc = "bootstrap" /\ config.named
    /\ status' = StatusFromString(devStatus)
    /\ pc' = IF status' \notin Admitted THEN "idle"
             ELSE IF credReady THEN "configure" ELSE "secret"
    /\ UNCHANGED <<cloudInit, connected, credReady, resolved, rt, session,
                   handshake, outside>>

\* The first k fields of the answer reach the client.
Fetched(k) ==
    [f \in Fields |-> IF Position[f] <= k THEN issued ELSE resolved[f]]

\* Seeded fault: username and secret are taken for all the credentials.
SecretFailsReady(k) ==
    /\ pc = "secret"
    /\ resolved' = Fetched(k) /\ credReady' = (k >= 2)
    /\ pc' = "idle"
    /\ UNCHANGED <<cloudInit, connected, status, rt, session, handshake, outside>>

SecretFails(k) ==
    /\ pc = "secret"
    /\ resolved' = Fetched(k)
    /\ pc' = "idle"
    /\ UNCHANGED <<cloudInit, connected, credReady, status, rt, session,
                   handshake, outside>>

SecretDone ==
    /\ pc = "secret" /\ config.named
    /\ resolved' = Fetched(4)
    /\ credReady' = TRUE
    /\ pc' = "configure"
    /\ UNCHANGED <<cloudInit, connected, status, rt, session, handshake, outside>>

\* Before g_rt is wiped (no broker, bad URL) or after (lookup, client id).
ConfigureFails ==
    /\ pc = "configure"
    /\ rt' \in {rt, Wiped}
    /\ pc' = "idle"
    /\ UNCHANGED <<clientVars, session, handshake, outside>>

ConfigureDone ==
    /\ pc = "configure" /\ resolved["broker"] # 0
    /\ rt' = Wiped
    /\ pc' = "mqtt_connect"
    /\ UNCHANGED <<clientVars, session, handshake, outside>>

\* The library is given pointers into a stack frame that has returned: what it
\* reads there is the broker's name or anything else.
HostSeen == IF Scheme = "HTTP" THEN {"none"} ELSE {"broker", "garbage"}

MqttConnectFails ==
    /\ pc = "mqtt_connect"
    /\ handshake' \in HostSeen
    /\ pc' = "idle"
    /\ UNCHANGED <<clientVars, rt, session, outside>>

\* TLS_PEER_VERIFY_REQUIRED: no TLS session under another name.
MqttConnectDone ==
    /\ pc = "mqtt_connect"
    /\ handshake' \in HostSeen
    /\ Scheme \in {"WSS", "HTTPS"} => handshake' = "broker"
    /\ session' = [NoSession EXCEPT !.open = TRUE, !.user = resolved["user"],
                                    !.secret = resolved["secret"]]
    /\ pc' = "wait_connack"
    /\ UNCHANGED <<clientVars, rt, outside>>

\* What gw_mqtt_evt_handler leaves in g_rt when mqtt_input has read CONNACK.
AfterInput ==
    IF session.unread = "connack"
    THEN [connack |-> TRUE, up |-> session.verdict = "accept"] ELSE rt

\* Seeded fault: any CONNACK is taken for a yes.
WaitSucceedsOnAnyConnack ==
    /\ pc = "wait_connack" /\ session.unread = "connack"
    /\ rt' = AfterInput
    /\ session' = [session EXCEPT !.unread = "none"]
    /\ connected' = TRUE
    /\ pc' = "idle"
    /\ UNCHANGED <<cloudInit, credReady, status, resolved, handshake, outside>>

WaitSucceeds ==
    /\ pc = "wait_connack" /\ session.unread # "close"
    /\ AfterInput.connack /\ AfterInput.up
    /\ rt' = AfterInput
    /\ session' = [session EXCEPT !.unread = "none"]
    /\ connected' = TRUE
    /\ pc' = "idle"
    /\ UNCHANGED <<cloudInit, credReady, status, resolved, handshake, outside>>

\* Seeded fault: a failed wait does not abort.
WaitFailsNoAbort ==
    /\ pc = "wait_connack"
    /\ connected' = FALSE
    /\ pc' = "idle"
    /\ UNCHANGED <<cloudInit, credReady, status, resolved, rt, session, handshake, outside>>

\* The deadline was seen to pass, at any point, or the broker refused or closed: abort.
WaitFails ==
    /\ pc = "wait_connack"
    /\ rt' \in {[rt EXCEPT !.up = FALSE], [AfterInput EXCEPT !.up = FALSE]}
    /\ session' = NoSession
    /\ connected' = FALSE
    /\ pc' = "idle"
    /\ UNCHANGED <<cloudInit, credReady, status, resolved, handshake, outside>>

-----------------------------------------------------------------------------
PumpReads ==
    /\ pc = "idle" /\ connected
    /\ session.unread = "other"
    /\ session' = [session EXCEPT !.unread = "none"]
    /\ UNCHANGED <<clientVars, rt, pc, handshake, outside>>

\* mqtt_input meets the close, or mqtt_live or a publish cannot write.
SessionLost ==
    /\ pc = "idle" /\ connected
    /\ connected' = FALSE
    /\ rt' = [rt EXCEPT !.up = FALSE]
    /\ session' = NoSession
    /\ UNCHANGED <<cloudInit, credReady, status, resolved, pc, handshake, outside>>

CloudDisconnect ==
    /\ pc = "idle" /\ cloudInit
    /\ session' = IF connected THEN NoSession ELSE session
    /\ rt' = Wiped
    /\ connected' = FALSE
    /\ UNCHANGED <<cloudInit, credReady, status, resolved, pc, handshake, outside>>

-----------------------------------------------------------------------------
\* The backend moves the device through its life, and issues a new secret that
\* makes the old ones worthless.
DeviceStatus ==
    /\ devStatus' \in Reported \ {devStatus}
    /\ UNCHANGED <<clientVars, rt, pc, session, handshake, config, issued>>

RotateSecret ==
    /\ issued < MaxIssued
    /\ issued' = issued + 1
    /\ UNCHANGED <<clientVars, rt, pc, session, handshake, config, devStatus>>

\* The broker lets in whoever presents the current secret.
BrokerAnswers ==
    /\ session.open /\ session.verdict = "none" /\ session.unread = "none"
    /\ session' = [session EXCEPT
                     !.unread = "connack",
                     !.verdict = IF session.secret = issued THEN "accept" ELSE "refuse"]
    /\ UNCHANGED <<clientVars, rt, pc, handshake, outside>>

\* What was sent before a close is read before it.
BrokerCloses ==
    /\ session.open /\ session.unread \in {"none", "other"}
    /\ session' = [session EXCEPT !.unread = "close"]
    /\ UNCHANGED <<clientVars, rt, pc, handshake, outside>>

BrokerSends ==
    /\ session.open /\ session.verdict = "accept" /\ session.unread = "none"
    /\ session' = [session EXCEPT !.unread = "other"]
    /\ UNCHANGED <<clientVars, rt, pc, handshake, outside>>

-----------------------------------------------------------------------------
SecretStepFails == \E k \in 0 .. 3 : SecretFails(k)

ConnectStep ==
    \/ BootstrapFails \/ BootstrapDone \/ SecretStepFails \/ SecretDone
    \/ ConfigureFails \/ ConfigureDone \/ MqttConnectFails \/ MqttConnectDone
    \/ WaitSucceeds \/ WaitFails

Environment ==
    DeviceStatus \/ RotateSecret \/ BrokerAnswers \/ BrokerCloses \/ BrokerSends

Next ==
    \/ CloudInit \/ ConnectCall \/ ConnectStep
    \/ PumpReads \/ SessionLost \/ CloudDisconnect
    \/ Environment

Spec == Init /\ [][Next]_vars

\* What a connect does without any help: every exchange but the wait for CONNACK
\* has a timeout that holds.  The wait's own may not (GwConnackWait); it is sure
\* to go on only once something has arrived.
Unaided == ConnectStep /\ (pc = "wait_connack" => session.unread # "none")

\* The application initialises once and keeps calling gw_cloud_connect, and each
\* exchange of a connect that is tried again and again sometimes works.
RetrySpec ==
    /\ Spec /\ WF_vars(Unaided)
    /\ WF_vars(CloudInit /\ ~cloudInit) /\ WF_vars(ConnectCall)
    /\ SF_vars(BootstrapDone) /\ SF_vars(SecretDone) /\ SF_vars(ConfigureDone)
    /\ SF_vars(MqttConnectDone) /\ SF_vars(BrokerAnswers) /\ SF_vars(WaitSucceeds)

-----------------------------------------------------------------------------
(* Safety *)

\* client->connected is never a leftover: it means the library holds a session
\* open that this broker accepted.
ConnectedMeansAccepted == connected => session.open /\ session.verdict = "accept"

\* Nothing is fetched, configured or connected for a device whose last reported
\* status is not claimed or active, and no session was opened under another.
StatusGate ==
    pc \in {"secret", "configure", "mqtt_connect", "wait_connack"} \/ session.open
        => status \in Admitted

\* However a fetch of credentials broke off before, credentials_ready and the
\* credentials a session presented are of one generation and complete.
CoherentCredentials ==
    /\ credReady => /\ resolved["user"] = resolved["secret"]
                    /\ resolved["prefix"] = resolved["secret"]
                    /\ resolved["secret"] # 0
    /\ session.open => session.user = session.secret /\ session.secret # 0

\* No failed connect, lost session or disconnect leaves a socket behind that
\* nothing will ever close.
NoOrphanSession == session.open => connected \/ pc = "wait_connack"

\* mqtt_connect is told the name of the broker (or needs none).
HandshakeNamesBroker == handshake # "garbage"

(* Refinement *)

Port == INSTANCE CloudPort

\* Call by call, the connector keeps what the engine was promised.
KeepsPort == Port!PortSpec

(* Liveness *)

\* Two configurations gw_cloud_init accepts never get online: an identity key
\* with no id to send along, and full credentials that leave the broker out.
Usable ==
    /\ config.named
    /\ {"user", "secret", "prefix"} \subseteq config.fields => "broker" \in config.fields

\* Whatever failed before, and whatever was rotated, a device that stays admitted
\* gets (back) online, with any configuration but those two.
EventuallyOnline ==
    <>[](devStatus \in Admitted /\ Usable) => []<>connected
=============================================================================
