--------------------------- MODULE GwCloudProofs ---------------------------
(***************************************************************************)
(* Proofs about GwCloud for every broker scheme, every preconfiguration    *)
(* and any number of secrets the backend issues, and about GwConnackWait   *)
(* for every timeout, cap and width of an int.                             *)
(***************************************************************************)
EXTENDS GwConnackWait, TLAPS

\* The part of a connect that follows the credentials.
PastSecret == {"configure", "mqtt_connect", "wait_connack"}

\* What holds the four safety properties up: a connect runs only while no
\* session is up, the runtime block is clean when a session is opened, and
\* a fetch runs only without credentials and nothing goes past it without.
ConnectInProgress ==
    /\ pc # "idle" => cloudInit /\ ~connected
    /\ connected => cloudInit
    /\ pc \in {"mqtt_connect", "wait_connack"} => rt = Wiped
    /\ pc \in PastSecret => credReady
    /\ pc = "secret" => ~credReady
    /\ pc = "wait_connack" => session.open

Generations == resolved \in [Fields -> Nat] /\ issued \in Nat \ {0}

IInv ==
    /\ Generations
    /\ ConnectInProgress
    /\ ConnectedMeansAccepted
    /\ StatusGate
    /\ CoherentCredentials
    /\ NoOrphanSession

-----------------------------------------------------------------------------
\* Everything but the fields named in `handshake` and the backend's status stays
\* inside the invariant's reach: changing those two alone cannot break it.
LEMMA Untouched ==
    ASSUME IInv, UNCHANGED <<clientVars, rt, pc, session, issued>>
    PROVE  IInv'
  BY DEF IInv, clientVars, Generations, ConnectInProgress,
     ConnectedMeansAccepted, StatusGate, CoherentCredentials, NoOrphanSession

\* The first k fields of an answer and the rest are generations as well, and a
\* complete answer leaves only the current one.
LEMMA FetchedFacts ==
    ASSUME Generations, NEW k \in 0 .. 4
    PROVE  /\ Fetched(k) \in [Fields -> Nat]
           /\ \A f \in Fields : Fetched(4)[f] = issued
<1>1. \A f \in Fields : Position[f] \in 1 .. 4
  BY SMT DEF Fields, Position
<1> QED
  BY <1>1, SMT DEF Fetched, Generations

LEMMA InitIInv == Init => IInv
  BY SMT
  DEF Init, IInv, Generations, ConnectInProgress, ConnectedMeansAccepted,
      StatusGate, CoherentCredentials, NoOrphanSession, PastSecret, NoSession,
      Empty, Fields

\* Every call, every step inside a connect and every move of the backend and the
\* broker keeps the invariant.
LEMMA NextIInv == IInv /\ [Next]_vars => IInv'
<1> SUFFICES ASSUME IInv, [Next]_vars PROVE IInv'
  OBVIOUS
<1> USE DEF IInv, clientVars, outside
<1>1. CASE CloudInit
  <2>1. ~session.open
    BY <1>1 DEF CloudInit, NoOrphanSession
  <2>2. Generations'
    BY <1>1, SMT DEF CloudInit, Generations
  <2>3. credReady' => \A f \in {"user", "secret", "prefix"} : resolved'[f] = 1
    BY <1>1, Zenon DEF CloudInit, Fields
  <2>4. CoherentCredentials'
    <3>1. session' = session
      BY <1>1 DEF CloudInit
    <3>2. credReady' => /\ resolved'["user"] = 1 /\ resolved'["secret"] = 1
                        /\ resolved'["prefix"] = 1
      BY <2>3
    <3> QED
      BY <2>1, <3>1, <3>2, SMT DEF CoherentCredentials
  <2> QED
    BY <1>1, <2>1, <2>2, <2>4, Zenon
    DEF CloudInit, ConnectInProgress, ConnectedMeansAccepted, StatusGate,
        NoOrphanSession, PastSecret
<1>2. CASE ConnectCall
  BY <1>2
  DEF ConnectCall, Generations, ConnectInProgress, ConnectedMeansAccepted,
      StatusGate, CoherentCredentials, NoOrphanSession, PastSecret
<1>3. CASE BootstrapFails \/ ConfigureFails \/ MqttConnectFails
  BY <1>3
  DEF BootstrapFails, ConfigureFails, MqttConnectFails, Generations,
      ConnectInProgress, ConnectedMeansAccepted, StatusGate,
      CoherentCredentials, NoOrphanSession, PastSecret
<1>4. CASE BootstrapDone
  BY <1>4
  DEF BootstrapDone, Generations, ConnectInProgress, ConnectedMeansAccepted,
      StatusGate, CoherentCredentials, NoOrphanSession, PastSecret
<1>5. ASSUME NEW k \in 0 .. 3, SecretFails(k) PROVE IInv'
  <2>1. Generations'
    BY <1>5, FetchedFacts, SMT DEF SecretFails, Generations
  <2> QED
    BY <1>5, <2>1
    DEF SecretFails, ConnectInProgress, ConnectedMeansAccepted, StatusGate,
        CoherentCredentials, NoOrphanSession, PastSecret
<1>6. CASE SecretDone
  <2>1. Generations' /\ \A f \in Fields : resolved'[f] = issued
    BY <1>6, FetchedFacts, SMT DEF SecretDone, Generations
  <2> QED
    BY <1>6, <2>1
    DEF SecretDone, Generations, Fields, ConnectInProgress,
        ConnectedMeansAccepted, StatusGate, CoherentCredentials,
        NoOrphanSession, PastSecret
<1>7. CASE ConfigureDone
  BY <1>7
  DEF ConfigureDone, Generations, ConnectInProgress, ConnectedMeansAccepted,
      StatusGate, CoherentCredentials, NoOrphanSession, PastSecret
<1>8. CASE MqttConnectDone
  <2>1. /\ session'.open /\ session'.user = resolved["user"]
        /\ session'.secret = resolved["secret"]
    BY <1>8 DEF MqttConnectDone, NoSession
  <2> QED
    BY <1>8, <2>1
    DEF MqttConnectDone, Generations, ConnectInProgress,
        ConnectedMeansAccepted, StatusGate, CoherentCredentials,
        NoOrphanSession, PastSecret
<1>9. CASE WaitSucceeds
  <2>1. rt = Wiped /\ session.open /\ cloudInit
    BY <1>9 DEF WaitSucceeds, ConnectInProgress
  <2>2. session.verdict = "accept"
    BY <1>9, <2>1 DEF WaitSucceeds, AfterInput, Wiped
  <2>3. /\ (session'.open <=> session.open) /\ session'.verdict = session.verdict
        /\ session'.user = session.user /\ session'.secret = session.secret
    BY <1>9 DEF WaitSucceeds
  <2> QED
    BY <1>9, <2>1, <2>2, <2>3
    DEF WaitSucceeds, Generations, ConnectInProgress, ConnectedMeansAccepted,
        StatusGate, CoherentCredentials, NoOrphanSession, PastSecret
<1>10. CASE WaitFails \/ SessionLost
  <2>1. ~session'.open /\ ~connected' /\ pc' = "idle"
    BY <1>10 DEF WaitFails, SessionLost, NoSession
  <2> QED
    BY <1>10, <2>1
    DEF WaitFails, SessionLost, Generations, ConnectInProgress,
        ConnectedMeansAccepted, StatusGate, CoherentCredentials,
        NoOrphanSession, PastSecret
<1>11. CASE CloudDisconnect
  <2>1. ~session'.open /\ ~connected' /\ pc' = "idle"
    BY <1>11 DEF CloudDisconnect, NoSession, NoOrphanSession
  <2> QED
    BY <1>11, <2>1
    DEF CloudDisconnect, Generations, ConnectInProgress,
        ConnectedMeansAccepted, StatusGate, CoherentCredentials,
        NoOrphanSession, PastSecret
<1>12. CASE PumpReads \/ BrokerAnswers \/ BrokerCloses \/ BrokerSends
  <2>1. /\ UNCHANGED <<clientVars, rt, pc, issued>>
        /\ session'.open <=> session.open
        /\ session'.user = session.user
        /\ session'.secret = session.secret
        /\ session'.verdict = session.verdict \/ session.verdict = "none"
    <3>1. CASE PumpReads
      BY <3>1 DEF PumpReads
    <3>2. CASE BrokerAnswers
      BY <3>2 DEF BrokerAnswers
    <3>3. CASE BrokerCloses
      BY <3>3 DEF BrokerCloses
    <3>4. CASE BrokerSends
      BY <3>4 DEF BrokerSends
    <3> QED
      BY <1>12, <3>1, <3>2, <3>3, <3>4
  <2> QED
    BY <2>1
    DEF Generations, ConnectInProgress, ConnectedMeansAccepted, StatusGate,
        CoherentCredentials, NoOrphanSession, PastSecret
<1>13. CASE RotateSecret
  BY <1>13, SMT
  DEF RotateSecret, Generations, ConnectInProgress, ConnectedMeansAccepted,
      StatusGate, CoherentCredentials, NoOrphanSession, PastSecret
<1>14. CASE DeviceStatus \/ UNCHANGED vars
  BY <1>14, Untouched DEF DeviceStatus, vars
<1> QED
  BY <1>1, <1>2, <1>3, <1>4, <1>5, <1>6, <1>7, <1>8, <1>9, <1>10, <1>11,
     <1>12, <1>13, <1>14
  DEF Next, ConnectStep, SecretStepFails, Environment

\* The invariant holds in every reachable state.
THEOREM Invariance == Spec => []IInv
<1>1. Init => IInv
  BY InitIInv
<1>2. IInv /\ [Next]_vars => IInv'
  BY NextIInv
<1> QED
  BY <1>1, <1>2, PTL DEF Spec

\* A connector that says it is connected holds a session the broker accepted:
\* no timeout, refusal, lost session or re-initialisation leaves the flag set.
THEOREM ConnectedIsReal == Spec => []ConnectedMeansAccepted
<1>1. IInv => ConnectedMeansAccepted
  BY DEF IInv
<1> QED
  BY <1>1, Invariance, PTL

\* A device the backend last called neither claimed nor active gets no secret
\* and no session, whatever it was called before.
THEOREM GateHolds == Spec => []StatusGate
<1>1. IInv => StatusGate
  BY DEF IInv
<1> QED
  BY <1>1, Invariance, PTL

\* For any number of rotations and any number of fetches broken off half-way, a
\* session never presents the user name of one secret with another.
THEOREM CredentialsCohere == Spec => []CoherentCredentials
<1>1. IInv => CoherentCredentials
  BY DEF IInv
<1> QED
  BY <1>1, Invariance, PTL

\* A session the library holds open is one a disconnect, a pump or the running
\* connect will still close.
THEOREM NoOrphans == Spec => []NoOrphanSession
<1>1. IInv => NoOrphanSession
  BY DEF IInv
<1> QED
  BY <1>1, Invariance, PTL

-----------------------------------------------------------------------------
(* A rotated secret *)

\* The client holds nothing newer than the backend has issued.
NoneNewer ==
    /\ \A f \in Fields : resolved[f] <= issued
    /\ session.open => session.secret \in Nat /\ session.secret <= issued

\* The backend has rotated the secret, the client still has a complete older set
\* of credentials, and no session of before the rotation is left to live on.
LockedOut ==
    /\ credReady /\ ~connected
    /\ resolved["secret"] # issued
    /\ session.open => session.secret # issued /\ session.verdict # "accept"

LEMMA NoneNewerStart == Init => NoneNewer
  BY SMT DEF Init, NoneNewer, Empty, NoSession, Fields

LEMMA NoneNewerStep ==
    ASSUME IInv, NoneNewer, [Next]_vars
    PROVE  NoneNewer'
<1>1. issued \in Nat \ {0} /\ \A f \in Fields : resolved[f] \in Nat
  BY DEF IInv, Generations
<1>2. CASE CloudInit
  <2>1. \A f \in Fields : resolved'[f] \in {0, 1}
    BY <1>2 DEF CloudInit
  <2> QED
    BY <1>1, <1>2, <2>1 DEF CloudInit, outside, NoneNewer
<1>3. ASSUME NEW k \in 0 .. 4, resolved' = Fetched(k), UNCHANGED <<session, issued>>
      PROVE  NoneNewer'
  BY <1>1, <1>3 DEF Fetched, NoneNewer
<1>4. CASE SecretStepFails \/ SecretDone
  BY <1>3, <1>4 DEF SecretStepFails, SecretFails, SecretDone, outside
<1>5. CASE MqttConnectDone
  <2>1. /\ UNCHANGED <<resolved, issued>>
        /\ session'.secret = resolved["secret"]
    BY <1>5 DEF MqttConnectDone, NoSession, clientVars, outside
  <2> QED
    BY <1>1, <2>1 DEF NoneNewer, Fields
<1>6. CASE RotateSecret
  BY <1>1, <1>6 DEF RotateSecret, clientVars, NoneNewer
<1>7. CASE WaitFails \/ SessionLost \/ CloudDisconnect
  <2>1. UNCHANGED <<resolved, issued>> /\ (session' = session \/ ~session'.open)
    BY <1>7 DEF WaitFails, SessionLost, CloudDisconnect, NoSession, outside
  <2> QED
    BY <2>1 DEF NoneNewer
<1>8. CASE WaitSucceeds \/ PumpReads \/ BrokerAnswers \/ BrokerCloses \/ BrokerSends
  <2>1. /\ UNCHANGED <<resolved, issued>>
        /\ (session'.open <=> session.open) /\ session'.secret = session.secret
    <3>1. CASE WaitSucceeds
      BY <3>1 DEF WaitSucceeds, outside
    <3>2. CASE PumpReads
      BY <3>2 DEF PumpReads, clientVars, outside
    <3>3. CASE BrokerAnswers
      BY <3>3 DEF BrokerAnswers, clientVars, outside
    <3>4. CASE BrokerCloses
      BY <3>4 DEF BrokerCloses, clientVars, outside
    <3>5. CASE BrokerSends
      BY <3>5 DEF BrokerSends, clientVars, outside
    <3> QED
      BY <1>8, <3>1, <3>2, <3>3, <3>4, <3>5
  <2> QED
    BY <2>1 DEF NoneNewer
<1>9. CASE \/ ConnectCall \/ BootstrapFails \/ BootstrapDone \/ ConfigureFails
           \/ ConfigureDone \/ MqttConnectFails \/ DeviceStatus \/ UNCHANGED vars
  <2>1. UNCHANGED <<resolved, session, issued>>
    BY <1>9
    DEF ConnectCall, BootstrapFails, BootstrapDone, ConfigureFails, ConfigureDone,
        MqttConnectFails, DeviceStatus, clientVars, outside, vars
  <2> QED
    BY <2>1 DEF NoneNewer
<1> QED
  BY <1>2, <1>4, <1>5, <1>6, <1>7, <1>8, <1>9 DEF Next, ConnectStep, Environment

\* Nothing but gw_cloud_init lets a client back in whose secret was rotated: no
\* number of connects, answers and further rotations does.  A complete set of
\* credentials is never fetched again, and the broker knows only the newest.
THEOREM RotatedOutForGood == Spec => [][LockedOut /\ ~CloudInit => LockedOut']_vars
<1>1. IInv /\ NoneNewer /\ [Next]_vars => (LockedOut /\ ~CloudInit => LockedOut')
  <2> SUFFICES ASSUME IInv, NoneNewer, [Next]_vars, LockedOut, ~CloudInit
               PROVE  LockedOut'
    OBVIOUS
  <2>1. /\ resolved["secret"] \in Nat /\ resolved["secret"] <= issued /\ issued \in Nat
        /\ resolved["secret"] # issued
    BY DEF IInv, Generations, NoneNewer, LockedOut, Fields
  <2>2. CASE SecretStepFails \/ SecretDone
    BY <2>2 DEF SecretStepFails, SecretFails, SecretDone, IInv, ConnectInProgress, LockedOut
  <2>3. CASE MqttConnectDone
    <3>1. /\ UNCHANGED <<credReady, connected, resolved, issued>>
          /\ session'.secret = resolved["secret"] /\ session'.verdict = "none"
      BY <2>3 DEF MqttConnectDone, NoSession, clientVars, outside
    <3> QED
      BY <2>1, <3>1 DEF LockedOut
  <2>4. CASE RotateSecret
    <3>1. /\ UNCHANGED <<credReady, connected, resolved, session>>
          /\ issued' = issued + 1
      BY <2>4 DEF RotateSecret, clientVars
    <3>2. resolved["secret"] # issued + 1
      BY <2>1
    <3>3. session.open => session.secret # issued + 1
      BY <2>1 DEF NoneNewer
    <3> QED
      BY <3>1, <3>2, <3>3 DEF LockedOut
  <2>5. ~WaitSucceeds
    <3> SUFFICES ASSUME WaitSucceeds PROVE FALSE
      OBVIOUS
    <3>1. rt = Wiped /\ session.open
      BY DEF WaitSucceeds, IInv, ConnectInProgress
    <3>2. session.verdict = "accept"
      BY <3>1 DEF WaitSucceeds, AfterInput, Wiped
    <3> QED
      BY <3>1, <3>2 DEF LockedOut
  <2>6. CASE BrokerAnswers
    <3>1. /\ UNCHANGED <<credReady, connected, resolved, issued>> /\ session.open
          /\ session'.secret = session.secret
          /\ session'.verdict = IF session.secret = issued THEN "accept" ELSE "refuse"
      BY <2>6 DEF BrokerAnswers, clientVars, outside
    <3> QED
      BY <3>1 DEF LockedOut
  <2>7. CASE WaitFails \/ SessionLost \/ CloudDisconnect
    <3>1. /\ UNCHANGED <<credReady, resolved, issued>> /\ ~connected'
          /\ session' = session \/ ~session'.open
      BY <2>7 DEF WaitFails, SessionLost, CloudDisconnect, NoSession, outside
    <3> QED
      BY <3>1 DEF LockedOut
  <2>8. CASE PumpReads \/ BrokerSends
    BY <2>8 DEF PumpReads, BrokerSends, LockedOut
  <2>9. CASE BrokerCloses
    <3>1. /\ UNCHANGED <<credReady, connected, resolved, issued>>
          /\ (session'.open <=> session.open)
          /\ session'.secret = session.secret /\ session'.verdict = session.verdict
      BY <2>9 DEF BrokerCloses, clientVars, outside
    <3> QED
      BY <3>1 DEF LockedOut
  <2>10. CASE \/ ConnectCall \/ BootstrapFails \/ BootstrapDone \/ ConfigureFails
              \/ ConfigureDone \/ MqttConnectFails \/ DeviceStatus \/ UNCHANGED vars
    <3>1. UNCHANGED <<credReady, connected, resolved, session, issued>>
      BY <2>10
      DEF ConnectCall, BootstrapFails, BootstrapDone, ConfigureFails, ConfigureDone,
          MqttConnectFails, DeviceStatus, clientVars, outside, vars
    <3> QED
      BY <3>1 DEF LockedOut
  <2> QED
    BY <2>2, <2>3, <2>4, <2>5, <2>6, <2>7, <2>8, <2>9, <2>10
    DEF Next, ConnectStep, Environment
<1>2. Spec => []NoneNewer
  BY NoneNewerStart, NoneNewerStep, Invariance, PTL DEF Spec
<1> QED
  BY <1>1, <1>2, Invariance, PTL DEF Spec

-----------------------------------------------------------------------------
\* What the broker and the client do to the session's record stays a session.
LEMMA SessionTyped ==
    ASSUME TypeOK,
           PumpReads \/ BrokerAnswers \/ BrokerCloses \/ BrokerSends
    PROVE  TypeOK'
<1>1. CASE PumpReads
  BY <1>1 DEF TypeOK, PumpReads, clientVars, outside
<1>2. CASE BrokerAnswers
  <2>1. session' \in [open : BOOLEAN, user : 0 .. MaxIssued, secret : 0 .. MaxIssued,
                      verdict : {"none", "accept", "refuse"},
                      unread : {"none", "connack", "close", "other"}]
    BY <1>2 DEF TypeOK, BrokerAnswers
  <2> QED
    BY <1>2, <2>1 DEF TypeOK, BrokerAnswers, clientVars, outside
<1>3. CASE BrokerCloses
  BY <1>3 DEF TypeOK, BrokerCloses, clientVars, outside
<1>4. CASE BrokerSends
  BY <1>4 DEF TypeOK, BrokerSends, clientVars, outside
<1> QED
  BY <1>1, <1>2, <1>3, <1>4

LEMMA FetchedTyped ==
    ASSUME TypeOK, NEW k \in 0 .. 4
    PROVE  Fetched(k) \in [Fields -> 0 .. MaxIssued]
<1>1. issued \in 0 .. MaxIssued /\ resolved \in [Fields -> 0 .. MaxIssued]
  BY CloudAssumption DEF TypeOK
<1> QED
  BY <1>1 DEF Fetched

LEMMA TypeStart == Init => TypeOK
<1>1. Empty \in [Fields -> 0 .. MaxIssued] /\ 1 \in 1 .. MaxIssued /\ 0 \in 0 .. MaxIssued
  BY CloudAssumption DEF Empty
<1>2. Wiped \in [connack : BOOLEAN, up : BOOLEAN]
  BY DEF Wiped
<1>3. NoSession \in [open : BOOLEAN, user : 0 .. MaxIssued, secret : 0 .. MaxIssued,
                    verdict : {"none", "accept", "refuse"},
                    unread : {"none", "connack", "close", "other"}]
  BY <1>1 DEF NoSession
<1> QED
  BY <1>1, <1>2, <1>3, Zenon DEF Init, TypeOK, Statuses

LEMMA TypeStep == TypeOK /\ [Next]_vars => TypeOK'
<1> SUFFICES ASSUME TypeOK, [Next]_vars PROVE TypeOK'
  OBVIOUS
<1>a. /\ 0 \in 0 .. MaxIssued /\ 1 \in 0 .. MaxIssued
      /\ NoSession \in [open : BOOLEAN, user : 0 .. MaxIssued, secret : 0 .. MaxIssued,
                         verdict : {"none", "accept", "refuse"},
                         unread : {"none", "connack", "close", "other"}]
  BY CloudAssumption DEF NoSession
<1>b. /\ Wiped \in [connack : BOOLEAN, up : BOOLEAN]
      /\ AfterInput \in [connack : BOOLEAN, up : BOOLEAN]
      /\ [rt EXCEPT !.up = FALSE] \in [connack : BOOLEAN, up : BOOLEAN]
      /\ [AfterInput EXCEPT !.up = FALSE] \in [connack : BOOLEAN, up : BOOLEAN]
  BY DEF Wiped, AfterInput, TypeOK
<1>1. CASE CloudInit
  <2>1. resolved' \in [Fields -> 0 .. MaxIssued]
    BY <1>1, <1>a DEF CloudInit
  <2>2. credReady' \in BOOLEAN
    BY <1>1, Zenon DEF CloudInit
  <2> QED
    BY <1>1, <2>1, <2>2 DEF CloudInit, TypeOK, Statuses, outside
<1>2. CASE ConnectCall \/ BootstrapFails
  BY <1>2 DEF ConnectCall, BootstrapFails, TypeOK, clientVars, outside
<1>3. CASE BootstrapDone
  BY <1>3 DEF BootstrapDone, StatusFromString, TypeOK, Statuses, outside
<1>4. ASSUME NEW k \in 0 .. 3, SecretFails(k) PROVE TypeOK'
  <2>1. Fetched(k) \in [Fields -> 0 .. MaxIssued]
    BY FetchedTyped
  <2> QED
    BY <1>4, <2>1 DEF SecretFails, TypeOK, outside
<1>5. CASE SecretDone
  <2>1. Fetched(4) \in [Fields -> 0 .. MaxIssued]
    BY FetchedTyped
  <2> QED
    BY <1>5, <2>1 DEF SecretDone, TypeOK, outside
<1>6. CASE ConfigureFails \/ ConfigureDone
  BY <1>6, <1>b DEF ConfigureFails, ConfigureDone, TypeOK, clientVars, outside
<1>7. CASE MqttConnectFails
  BY <1>7 DEF MqttConnectFails, HostSeen, TypeOK, clientVars, outside
<1>8. CASE MqttConnectDone
  <2>1. resolved["user"] \in 0 .. MaxIssued /\ resolved["secret"] \in 0 .. MaxIssued
    BY DEF TypeOK, Fields
  <2>2. session' \in [open : BOOLEAN, user : 0 .. MaxIssued, secret : 0 .. MaxIssued,
                      verdict : {"none", "accept", "refuse"},
                      unread : {"none", "connack", "close", "other"}]
    BY <1>8, <1>a, <2>1 DEF MqttConnectDone
  <2>3. handshake' \in {"none", "broker", "garbage"}
    BY <1>8 DEF MqttConnectDone, HostSeen
  <2> QED
    BY <1>8, <2>2, <2>3 DEF MqttConnectDone, TypeOK, clientVars, outside
<1>9. CASE WaitSucceeds
  BY <1>9, <1>b DEF WaitSucceeds, TypeOK, outside
<1>10. CASE WaitFails \/ SessionLost \/ CloudDisconnect
  <2>1. CASE WaitFails
    <3>1. /\ connected' \in BOOLEAN /\ session' = NoSession
          /\ rt' \in [connack : BOOLEAN, up : BOOLEAN] /\ pc' = "idle"
      BY <2>1, <1>b DEF WaitFails
    <3> QED
      BY <2>1, <1>a, <3>1 DEF WaitFails, TypeOK, outside
  <2>2. CASE SessionLost
    <3>1. /\ connected' \in BOOLEAN /\ session' = NoSession
          /\ rt' \in [connack : BOOLEAN, up : BOOLEAN]
      BY <2>2, <1>b DEF SessionLost
    <3> QED
      BY <2>2, <1>a, <3>1 DEF SessionLost, TypeOK, outside
  <2>3. CASE CloudDisconnect
    <3>1. /\ connected' \in BOOLEAN /\ session' \in {NoSession, session}
          /\ rt' \in [connack : BOOLEAN, up : BOOLEAN]
      BY <2>3, <1>b DEF CloudDisconnect
    <3> QED
      BY <2>3, <1>a, <3>1 DEF CloudDisconnect, TypeOK, outside
  <2> QED
    BY <1>10, <2>1, <2>2, <2>3
<1>11. CASE PumpReads \/ BrokerAnswers \/ BrokerCloses \/ BrokerSends
  BY <1>11, SessionTyped
<1>12. CASE DeviceStatus
  BY <1>12 DEF DeviceStatus, TypeOK, clientVars
<1>13. CASE RotateSecret
  <2>1. issued' \in 1 .. MaxIssued
    BY <1>13, CloudAssumption DEF RotateSecret, TypeOK
  <2> QED
    BY <1>13, <2>1 DEF RotateSecret, TypeOK, clientVars
<1>14. CASE UNCHANGED vars
  BY <1>14 DEF vars, clientVars, outside, TypeOK
<1> QED
  BY <1>1, <1>2, <1>3, <1>4, <1>5, <1>6, <1>7, <1>8, <1>9, <1>10, <1>11,
     <1>12, <1>13, <1>14
  DEF Next, ConnectStep, SecretStepFails, Environment

\* The connector's flags, status and credentials keep their types, whatever the
\* backend answers and the broker does.
THEOREM CloudTypes == Spec => []TypeOK
  BY TypeStart, TypeStep, PTL DEF Spec

-----------------------------------------------------------------------------
\* The Zephyr connector implements what gw_cloud.h promises the engine: its many
\* steps change `initialized` and `connected` only as one of the calls may.
THEOREM ConnectorKeepsPort == Spec => KeepsPort
<1>1. Init => Port!PortInit
  BY DEF Init, Port!PortInit
<1>2. IInv /\ [Next]_vars => [Port!PortNext]_(Port!cloudVars)
  <2> SUFFICES ASSUME IInv, [Next]_vars
               PROVE  Port!PortNext \/ UNCHANGED <<cloudInit, connected>>
    BY DEF Port!cloudVars
  <2>1. CASE CloudInit
    <3>1. Port!CloudInit("OK")
      BY <2>1, Zenon DEF CloudInit, Port!CloudInit
    <3> QED
      BY <3>1 DEF Port!PortNext
  <2>2. CASE WaitSucceeds
    <3>1. cloudInit /\ ~connected
      BY <2>2 DEF WaitSucceeds, IInv, ConnectInProgress
    <3>2. Port!CloudConnect("OK")
      BY <2>2, <3>1, Zenon DEF WaitSucceeds, Port!CloudConnect
    <3> QED
      BY <3>2 DEF Port!PortNext
  <2>3. CASE WaitFails \/ SessionLost \/ CloudDisconnect
    <3>1. Port!CloudDisconnect
      BY <2>3 DEF WaitFails, SessionLost, CloudDisconnect, Port!CloudDisconnect
    <3> QED
      BY <3>1 DEF Port!PortNext
  <2>4. CASE \/ ConnectCall \/ BootstrapFails \/ BootstrapDone \/ SecretStepFails
             \/ SecretDone \/ ConfigureFails \/ ConfigureDone
             \/ MqttConnectFails \/ MqttConnectDone
    BY <2>4
    DEF ConnectCall, BootstrapFails, BootstrapDone, SecretStepFails, SecretFails,
        SecretDone, ConfigureFails, ConfigureDone, MqttConnectFails,
        MqttConnectDone, clientVars
  <2>5. CASE PumpReads \/ Environment \/ UNCHANGED vars
    BY <2>5
    DEF PumpReads, Environment, DeviceStatus, RotateSecret, BrokerAnswers,
        BrokerCloses, BrokerSends, clientVars, vars
  <2> QED
    BY <2>1, <2>2, <2>3, <2>4, <2>5 DEF Next, ConnectStep
<1> QED
  BY <1>1, <1>2, Invariance, PTL
  DEF Spec, KeepsPort, Port!PortSpec, Port!cloudVars
-----------------------------------------------------------------------------
(* What a connect can come to *)

\* How many exchanges a connect has before it at most.
Ahead == [idle |-> 0, wait_connack |-> 1, mqtt_connect |-> 2,
          configure |-> 3, secret |-> 4, bootstrap |-> 5]

\* A connect only goes forward: no answer, refusal or move of a peer \* back, so that it is over after five exchanges, if each of them ends.
THEOREM ConnectAdvances ==
    Spec => [][ pc # "idle" => IF ConnectStep THEN Ahead[pc'] < Ahead[pc]
                                              ELSE pc' = pc ]_vars
<1>1. [Next]_vars => [ pc # "idle" => IF ConnectStep THEN Ahead[pc'] < Ahead[pc]
                                                     ELSE pc' = pc ]_vars
  <2> SUFFICES ASSUME Next, pc # "idle"
               PROVE  IF ConnectStep THEN Ahead[pc'] < Ahead[pc] ELSE pc' = pc
    OBVIOUS
  <2>1. ASSUME ConnectStep PROVE Ahead[pc'] < Ahead[pc]
    BY <2>1
    DEF ConnectStep, BootstrapFails, BootstrapDone, SecretStepFails, SecretFails,
        SecretDone, ConfigureFails, ConfigureDone, MqttConnectFails,
        MqttConnectDone, WaitSucceeds, WaitFails, Ahead
  <2>2. ASSUME ~ConnectStep PROVE pc' = pc
    BY <2>2
    DEF Next, CloudInit, ConnectCall, PumpReads, SessionLost, CloudDisconnect,
        Environment, DeviceStatus, RotateSecret, BrokerAnswers, BrokerCloses,
        BrokerSends
  <2> QED
    BY <2>1, <2>2
<1> QED
  BY <1>1, PTL DEF Spec

\* Where a connect of a client with an unusable configuration ends: without an
\* id the bootstrap is never answered; with all but the broker the fetch that
\* would supply it is skipped.
Barred ==
    ~Usable =>
        /\ ~session.open /\ ~connected
        /\ ~config.named => pc \in {"idle", "bootstrap"}
        /\ config.named => /\ pc \in {"idle", "bootstrap", "configure"}
                           /\ resolved["broker"] = 0
                           /\ cloudInit => credReady

LEMMA BarredStep ==
    ASSUME IInv, Barred, [Next]_vars
    PROVE  Barred'
<1>1. Usable' <=> Usable
  BY DEF Next, ConnectStep, Environment, CloudInit, ConnectCall, BootstrapFails,
     BootstrapDone, SecretStepFails, SecretFails, SecretDone, ConfigureFails,
     ConfigureDone, MqttConnectFails, MqttConnectDone, WaitSucceeds, WaitFails,
     PumpReads, SessionLost, CloudDisconnect, DeviceStatus, RotateSecret,
     BrokerAnswers, BrokerCloses, BrokerSends, outside, vars, Usable
<1> SUFFICES ASSUME ~Usable PROVE Barred'
  BY <1>1 DEF Barred
<1> USE <1>1 DEF Barred, clientVars, outside
<1>2. CASE CloudInit
  <2>1. config.named => {"user", "secret", "prefix"} \subseteq config.fields
                        /\ "broker" \notin config.fields
    BY DEF Usable
  <2>2. config.named => resolved'["broker"] = 0 /\ credReady'
    BY <1>2, <2>1 DEF CloudInit, Fields
  <2> QED
    BY <1>2, <2>2 DEF CloudInit
<1>3. CASE ConnectCall
  BY <1>3 DEF ConnectCall
<1>4. CASE BootstrapFails \/ BootstrapDone
  BY <1>4 DEF BootstrapFails, BootstrapDone, IInv, ConnectInProgress
<1>5. CASE ConfigureFails \/ ConfigureDone
  BY <1>5 DEF ConfigureFails, ConfigureDone
<1>6. ~SecretStepFails /\ ~SecretDone /\ ~MqttConnectFails /\ ~MqttConnectDone
      /\ ~WaitSucceeds /\ ~WaitFails
  BY DEF SecretStepFails, SecretFails, SecretDone, MqttConnectFails,
     MqttConnectDone, WaitSucceeds, WaitFails
<1>7. ~PumpReads /\ ~SessionLost /\ ~BrokerAnswers /\ ~BrokerCloses /\ ~BrokerSends
  BY DEF PumpReads, SessionLost, BrokerAnswers, BrokerCloses, BrokerSends
<1>8. CASE CloudDisconnect
  BY <1>8 DEF CloudDisconnect, NoSession
<1>9. CASE DeviceStatus \/ RotateSecret \/ UNCHANGED vars
  BY <1>9 DEF DeviceStatus, RotateSecret, vars
<1> QED
  BY <1>2, <1>3, <1>4, <1>5, <1>6, <1>7, <1>8, <1>9 DEF Next, ConnectStep, Environment

\* The two configurations EventuallyOnline leaves out deserve it: gw_cloud_init
\* accepts them, and no client with one of them is ever connected, whatever the
\* backend and the broker do and however often it tries.
THEOREM UnusableStaysOffline == Spec => [](connected => Usable)
<1>1. Init => Barred
  BY DEF Init, Barred, NoSession, Empty, Fields
<1>2. IInv /\ Barred /\ [Next]_vars => Barred'
  BY BarredStep
<1>3. Barred => (connected => Usable)
  BY DEF Barred
<1> QED
  BY <1>1, <1>2, <1>3, Invariance, PTL DEF Spec
-----------------------------------------------------------------------------
(* The wait for CONNACK *)

\* What the loop keeps true between its two readings of the clock and during the
\* poll they lead to; together with the types this is inductive.
WaitInv ==
    /\ LoopTypeOK
    /\ at = "compute" /\ ~heldUp => left >= 0
    /\ PollMeetsDeadline
    /\ at = "poll" /\ left > IntMax => timeout < 0

LEMMA WaitLimits ==
    /\ IntMax \in Nat \ {0} /\ CapMs \in Nat \ {0} /\ CapMs <= IntMax
    /\ \A t \in Timeouts : t \in Nat \ {0} /\ t <= (2 * IntMax) + 1
  BY WaitAssumption

\* The conversion keeps what fits and makes everything else negative.
LEMMA SignedFacts ==
    ASSUME NEW x \in Int, -1 <= x, x <= (2 * IntMax) + 1
    PROVE  /\ Signed(x) \in Int
           /\ x <= IntMax => Signed(x) = x
           /\ x > IntMax => Signed(x) < 0 /\ Signed(x) >= -(IntMax + 1)
  BY WaitLimits DEF Signed

\* Where GwCloud's own steps leave pc alone, the loop does not move; where they
\* begin or end the wait, it is entered or left.
LEMMA WaitInvStep == WaitInv /\ [WaitNext]_allVars => WaitInv'
<1> SUFFICES ASSUME WaitInv, [WaitNext]_allVars PROVE WaitInv'
  OBVIOUS
<1>1. /\ IntMax \in Nat /\ CapMs \in Nat /\ CapMs <= IntMax
      /\ limit \in Nat \ {0} /\ limit <= (2 * IntMax) + 1
  BY WaitLimits DEF WaitInv, LoopTypeOK
<1>2. CASE UNCHANGED allVars \/ Elsewhere
  BY <1>2
  DEF allVars, vars, waitVars, Elsewhere, WaitInv, LoopTypeOK, PollMeetsDeadline
<1>3. CASE WaitBegins
  <2>1. /\ pc' = "wait_connack" /\ at' = "test" /\ limit' = limit
        /\ left' = limit /\ timeout' = 0 /\ heldUp' = FALSE
    BY <1>3 DEF WaitBegins, MqttConnectDone
  <2>2. left' \in -1 .. limit /\ timeout' \in -(IntMax + 1) .. CapMs
    BY <1>1, <2>1
  <2> QED
    BY <2>1, <2>2 DEF WaitInv, LoopTypeOK, PollMeetsDeadline
<1>4. CASE GoesOn
  BY <1>1, <1>4 DEF GoesOn, vars, WaitInv, LoopTypeOK, PollMeetsDeadline
<1>5. CASE Expires \/ Hears
  <2>1. pc' = "idle" /\ at' = "out" /\ UNCHANGED <<limit, left, timeout, heldUp>>
    BY <1>5 DEF Expires, Hears, WaitFails, WaitSucceeds
  <2> QED
    BY <2>1 DEF WaitInv, LoopTypeOK, PollMeetsDeadline
<1>6. CASE ComputesTimeout
  <2>1. left \in Int /\ -1 <= left /\ left <= limit
    BY <1>1 DEF WaitInv, LoopTypeOK
  <2>2. /\ at = "compute" /\ at' = "poll" /\ pc' = pc
        /\ UNCHANGED <<limit, left, heldUp>>
        /\ timeout' = IF Signed(left) > CapMs THEN CapMs ELSE Signed(left)
    BY <1>6 DEF ComputesTimeout, vars
  <2>3. /\ Signed(left) \in Int
        /\ left <= IntMax => Signed(left) = left
        /\ left > IntMax => Signed(left) < 0 /\ Signed(left) >= -(IntMax + 1)
    BY <1>1, <2>1, SignedFacts
  <2>4. timeout' \in -(IntMax + 1) .. CapMs
    BY <1>1, <2>1, <2>2, <2>3
  <2>5. LoopTypeOK'
    BY <2>2, <2>4 DEF WaitInv, LoopTypeOK
  <2>6. left > IntMax => timeout' < 0
    BY <1>1, <2>2, <2>3
  <2>7. ~heldUp => left >= 0
    BY <2>2 DEF WaitInv
  <2>8. ~heldUp /\ limit <= IntMax => timeout' >= 0 /\ timeout' <= left
    BY <1>1, <2>1, <2>2, <2>3, <2>7
  <2> QED
    BY <2>2, <2>5, <2>6, <2>8 DEF WaitInv, PollMeetsDeadline
<1>7. CASE PollExpires \/ PollInVain
  BY <1>7
  DEF PollExpires, PollInVain, vars, WaitInv, LoopTypeOK, PollMeetsDeadline
<1>8. CASE Tick
  <2>1. /\ left \in Int /\ -1 <= left /\ left <= limit
        /\ timeout \in Int /\ -(IntMax + 1) <= timeout /\ timeout <= CapMs
    BY <1>1 DEF WaitInv, LoopTypeOK
  <2>2. /\ left' = IF left > -1 THEN left - 1 ELSE left
        /\ timeout' = IF at = "poll" /\ timeout > 0 THEN timeout - 1 ELSE timeout
        /\ heldUp' = (heldUp \/ (at = "compute" /\ left = 0))
        /\ UNCHANGED <<pc, limit, at>>
    BY <1>8 DEF Tick, vars
  <2>3. left' \in -1 .. limit /\ timeout' \in -(IntMax + 1) .. CapMs
    BY <1>1, <2>1, <2>2
  <2>4. heldUp' \in BOOLEAN /\ (heldUp => heldUp')
    BY <2>2 DEF WaitInv, LoopTypeOK
  <2>5. LoopTypeOK'
    BY <2>2, <2>3, <2>4 DEF WaitInv, LoopTypeOK
  <2>6. CASE at = "compute"
    <3>a. left = 0 => heldUp'
      BY <2>2, <2>6, Zenon
    <3>b. ~heldUp => left >= 0
      BY <2>6 DEF WaitInv
    <3>c. left >= 0 /\ left # 0 => left' >= 0
      BY <2>1, <2>2
    <3>1. ~heldUp' => left' >= 0
      BY <2>4, <3>a, <3>b, <3>c, Zenon
    <3> QED
      BY <2>2, <2>5, <2>6, <3>1 DEF WaitInv, PollMeetsDeadline
  <2>7. CASE at = "poll"
    <3>1. ~heldUp' /\ limit' <= IntMax => timeout >= 0 /\ (timeout > 0 => timeout <= left)
      BY <2>2, <2>4, <2>7 DEF WaitInv, PollMeetsDeadline
    <3>2. timeout >= 0 /\ (timeout > 0 => timeout <= left)
          => timeout' >= 0 /\ (timeout' > 0 => timeout' <= left')
      BY <2>1, <2>2, <2>7
    <3>3. left > IntMax => timeout < 0
      BY <2>7 DEF WaitInv
    <3>4. left' > IntMax => timeout' < 0
      BY <1>1, <2>1, <2>2, <3>3
    <3> QED
      BY <2>2, <2>5, <2>7, <3>1, <3>2, <3>4 DEF WaitInv, PollMeetsDeadline
  <2>8. CASE at \notin {"compute", "poll"}
    BY <2>2, <2>5, <2>8 DEF WaitInv, PollMeetsDeadline
  <2> QED
    BY <2>6, <2>7, <2>8
<1> QED
  BY <1>2, <1>3, <1>4, <1>5, <1>6, <1>7, <1>8 DEF WaitNext

LEMMA WaitInvariance == WaitSpec => []WaitInv
<1>1. ASSUME WaitInit PROVE WaitInv
  <2>1. /\ limit \in Timeouts /\ pc = "idle" /\ at = "out" /\ left = 0 /\ timeout = 0
        /\ heldUp = FALSE
    BY <1>1 DEF WaitInit, Init
  <2>2. left \in -1 .. limit /\ timeout \in -(IntMax + 1) .. CapMs
    BY <2>1, WaitLimits
  <2> QED
    BY <2>1, <2>2 DEF WaitInv, LoopTypeOK, PollMeetsDeadline
<1> QED
  BY <1>1, WaitInvStep, PTL DEF WaitSpec

\* For every timeout that fits an int: no poll outlasts the deadline unless the
\* thread was held up across it between the two readings of the clock
\* (gw_cloud_zephyr.c:1165, 1166).
THEOREM PollsMeetDeadline == WaitSpec => []PollMeetsDeadline
<1>1. WaitInv => PollMeetsDeadline
  BY DEF WaitInv
<1> QED
  BY <1>1, WaitInvariance, PTL

\* The other way into finding 6: as long as more is left than an int holds, each
\* poll has no timeout at all, held up or not (the cast of line 1166 comes before
\* the cap of line 1169).
THEOREM LongWaitsUnlimited ==
    WaitSpec => [](at = "poll" /\ left > IntMax => timeout < 0)
<1>1. WaitInv => (at = "poll" /\ left > IntMax => timeout < 0)
  BY DEF WaitInv
<1> QED
  BY <1>1, WaitInvariance, PTL

\* Finding 6 for every run: no time that passes and no step of the program ends a
\* poll without a timeout.  It takes something to read, or poll() itself to fail.
THEOREM StrandedForGood ==
    WaitSpec => [][Stranded => \/ Stranded'
                               \/ session'.unread # "none"
                               \/ PollInVain]_allVars
<1>1. ASSUME WaitInv, [WaitNext]_allVars, Stranded, session'.unread = "none", ~PollInVain
      PROVE  Stranded'
  <2>1. at = "poll" /\ timeout \in Int /\ timeout < 0 /\ session.unread = "none"
    BY <1>1, WaitLimits DEF WaitInv, LoopTypeOK, Stranded
  <2>2. at' = "poll" /\ timeout' = timeout
    BY <1>1, <2>1
    DEF WaitNext, Elsewhere, WaitBegins, GoesOn, Expires, ComputesTimeout, PollExpires,
        Hears, Tick, MqttConnectDone, WaitInv, LoopTypeOK, waitVars, allVars
  <2> QED
    BY <1>1, <2>1, <2>2 DEF Stranded
<1>2. WaitInv /\ [WaitNext]_allVars
        => [Stranded => Stranded' \/ session'.unread # "none" \/ PollInVain]_allVars
  BY <1>1
<1> QED
  BY <1>2, WaitInvariance, PTL DEF WaitSpec

LEMMA WaitStep == [WaitNext]_allVars => [Next]_vars
  BY DEF WaitNext, Elsewhere, WaitBegins, GoesOn, Expires, ComputesTimeout, PollExpires,
     PollInVain, Hears, Tick, Next, ConnectStep, allVars

\* The loop of gw_cloud_wait_connack, clock, polls and all, is the wait that GwCloud
\* has in one step.
THEOREM WaitIsConnector == WaitSpec => IsConnector
<1>1. WaitInit => Init
  BY DEF WaitInit
<1> QED
  BY <1>1, WaitStep, PTL DEF WaitSpec, Spec, IsConnector

\* Types of connector and loop; a poll's timeout is never more than the cap
\* (gw_cloud_zephyr.c:1169).
THEOREM WaitTypes == WaitSpec => []WaitTypeOK
<1>1. WaitInv => LoopTypeOK
  BY DEF WaitInv
<1>2. TypeOK /\ LoopTypeOK => WaitTypeOK
  BY DEF WaitTypeOK
<1> QED
  BY <1>1, <1>2, WaitInvariance, WaitIsConnector, CloudTypes, PTL DEF IsConnector

\* Hence what was proved of GwCloud holds however the clock runs during a wait, in
\* a stranded one too.
THEOREM WaitKeepsSafety ==
    WaitSpec => /\ [](ConnectedMeansAccepted /\ StatusGate)
                /\ [](CoherentCredentials /\ NoOrphanSession)
                /\ KeepsPort
  BY WaitIsConnector, ConnectedIsReal, GateHolds, CredentialsCohere, NoOrphans,
     ConnectorKeepsPort, PTL DEF IsConnector
=============================================================================
