---------------------------- MODULE EnginePort ----------------------------
(***************************************************************************)
(* The engine as the application that owns it sees it: the calls of        *)
(* gw_engine.h, what each may do to the life cycle and the cloud session,  *)
(* and whether an answer of the edge waits to be read.  `ok` is "the call  *)
(* returned 0".  GwEngine is shown to implement this module; the lighting  *)
(* application is built on it.                                             *)
(***************************************************************************)

VARIABLES
    initialized,
    running,
    connected,    \* engine->cloud.connected
    waiting       \* an answer is staged and not read

portVars == <<initialized, running, connected, waiting>>

EnginePortTypeOK ==
    /\ initialized \in BOOLEAN /\ running \in BOOLEAN
    /\ connected \in BOOLEAN /\ waiting \in BOOLEAN

-----------------------------------------------------------------------------
EnginePortInit ==
    initialized = FALSE /\ running = FALSE /\ connected = FALSE /\ waiting = FALSE

InitCall(ok) ==
    /\ ~running
    /\ initialized' = ok /\ connected' = FALSE
    /\ UNCHANGED <<running, waiting>>

\* All or nothing: a start that fails holds neither transport nor session.
StartCall(ok) ==
    /\ initialized /\ ~running
    /\ running' = ok /\ connected' = ok /\ waiting' = FALSE
    /\ UNCHANGED initialized

\* A step takes at most the waiting answer, and can only lose the cloud.
StepCall ==
    /\ running
    /\ waiting' \in {FALSE, waiting}
    /\ connected' \in {FALSE, connected}
    /\ UNCHANGED <<initialized, running>>

SendCall ==
    /\ running
    /\ waiting' \in BOOLEAN
    /\ UNCHANGED <<initialized, running, connected>>

StopCall ==
    /\ initialized
    /\ running' = FALSE /\ connected' = FALSE /\ waiting' = FALSE
    /\ UNCHANGED initialized

EnginePortNext ==
    \/ \E ok \in BOOLEAN : InitCall(ok) \/ StartCall(ok)
    \/ StepCall \/ SendCall \/ StopCall

EnginePortSpec == EnginePortInit /\ [][EnginePortNext]_portVars
=============================================================================
