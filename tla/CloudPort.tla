----------------------------- MODULE CloudPort -----------------------------
(***************************************************************************)
(* What gw_cloud.h promises the engine, whichever connector is linked.     *)
(* gw_cloud_stub.c never fails; gw_cloud_zephyr.c may fail anywhere (see   *)
(* GwCloud, which is shown to implement this module).                      *)
(***************************************************************************)

VARIABLES
    cloudInit,    \* client->initialized
    connected     \* client->connected

cloudVars == <<cloudInit, connected>>

CloudTypeOK == cloudInit \in BOOLEAN /\ connected \in BOOLEAN

-----------------------------------------------------------------------------
\* Called on a client the engine has just zeroed.
CloudInit(rc) ==
    /\ rc \in {"OK", "EINVAL"}
    /\ cloudInit' = (rc = "OK")
    /\ connected' = FALSE

\* EAGAIN is a device the backend does not let in yet, ERR any other failure.
CloudConnect(rc) ==
    /\ rc \in IF ~cloudInit THEN {"EINVAL"}
              ELSE IF connected THEN {"OK"} ELSE {"OK", "EAGAIN", "ERR"}
    /\ connected' = (connected \/ rc = "OK")
    /\ UNCHANGED cloudInit

\* Seeded fault: the pump of a dropped session quietly brings it back.
CloudPumpReconnects(rc) ==
    /\ rc \in {"OK", "ENOTCONN", "ERR"}
    /\ connected' = (rc = "OK")
    /\ UNCHANGED cloudInit

CloudPump(rc) ==
    /\ rc \in IF connected THEN {"OK", "ENOTCONN", "ERR"} ELSE {"ENOTCONN"}
    /\ connected' = (connected /\ rc = "OK")
    /\ UNCHANGED cloudInit

\* A refused publish may have noticed that the session is gone.
CloudPublish(rc) ==
    /\ rc \in IF connected THEN {"OK", "ERR"} ELSE {"ENOTCONN"}
    /\ connected' \in IF rc = "ERR" THEN {FALSE, connected} ELSE {connected}
    /\ UNCHANGED cloudInit

CloudDisconnect ==
    /\ connected' = FALSE
    /\ UNCHANGED cloudInit

-----------------------------------------------------------------------------
PortInit == cloudInit = FALSE /\ connected = FALSE

PortNext ==
    \/ \E rc \in {"OK", "EINVAL"} : CloudInit(rc)
    \/ \E rc \in {"OK", "EINVAL", "EAGAIN", "ERR"} : CloudConnect(rc)
    \/ \E rc \in {"OK", "ENOTCONN", "ERR"} : CloudPump(rc) \/ CloudPublish(rc)
    \/ CloudDisconnect

PortSpec == PortInit /\ [][PortNext]_cloudVars
=============================================================================
