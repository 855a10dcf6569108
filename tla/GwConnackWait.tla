--------------------------- MODULE GwConnackWait ---------------------------
(***************************************************************************)
(* GwCloud with the wait for CONNACK taken apart (gw_cloud_wait_connack):  *)
(* the loop reads the clock twice a round, once to see whether it goes on, *)
(* once to compute the timeout of its poll, and the thread may be held up  *)
(* in between.  `left` is deadline - k_uptime_get(); -1 is any time past   *)
(* the deadline.  poll() takes a negative timeout for no timeout.          *)
(***************************************************************************)
EXTENDS GwCloud, Integers

CONSTANTS
    Timeouts,     \* the values mqtt_connect_timeout_ms may have
    CapMs,        \* the longest poll: 250
    IntMax        \* of an int; a uint32_t goes up to 2 * IntMax + 1

ASSUME WaitAssumption ==
    /\ IntMax \in Nat \ {0} /\ CapMs \in 1 .. IntMax
    /\ Timeouts \subseteq 1 .. (2 * IntMax) + 1

VARIABLES
    limit,        \* client->config.mqtt_connect_timeout_ms
    at,           \* where the loop stands, "out" outside it
    left,         \* until the deadline
    timeout,      \* of the poll, what is left of it
    heldUp        \* history: the deadline passed between the two readings

waitVars == <<limit, at, left, timeout, heldUp>>
allVars == <<vars, waitVars>>

LoopTypeOK ==
    /\ limit \in Timeouts
    /\ at \in {"out", "test", "compute", "poll"}
    /\ at # "out" <=> pc = "wait_connack"
    /\ left \in -1 .. limit
    /\ timeout \in -(IntMax + 1) .. CapMs
    /\ heldUp \in BOOLEAN

WaitTypeOK == TypeOK /\ LoopTypeOK

WaitInit ==
    /\ Init
    /\ limit \in Timeouts
    /\ at = "out" /\ left = 0 /\ timeout = 0 /\ heldUp = FALSE

-----------------------------------------------------------------------------
\* The conversion to int of a difference that fits a uint32_t.
Signed(x) == IF x > IntMax THEN x - (2 * (IntMax + 1)) ELSE x

WaitBegins ==
    /\ MqttConnectDone
    /\ at' = "test" /\ left' = limit /\ timeout' = 0 /\ heldUp' = FALSE
    /\ UNCHANGED limit

\* Seeded fault: each round computes a deadline of its own.
GoesOnAnew ==
    /\ at = "test" /\ left > 0
    /\ left' = limit
    /\ at' = "compute"
    /\ UNCHANGED <<vars, limit, timeout, heldUp>>

GoesOn ==
    /\ at = "test" /\ left > 0
    /\ at' = "compute"
    /\ UNCHANGED <<vars, limit, left, timeout, heldUp>>

\* -ETIMEDOUT, and the caller aborts.
Expires ==
    /\ at = "test" /\ left <= 0
    /\ WaitFails /\ rt' = [rt EXCEPT !.up = FALSE]
    /\ at' = "out"
    /\ UNCHANGED <<limit, left, timeout, heldUp>>

\* Seeded fault: every poll takes the whole cap.
ComputesCap ==
    /\ at = "compute"
    /\ timeout' = CapMs
    /\ at' = "poll"
    /\ UNCHANGED <<vars, limit, left, heldUp>>

ComputesTimeout ==
    /\ at = "compute"
    /\ timeout' = IF Signed(left) > CapMs THEN CapMs ELSE Signed(left)
    /\ at' = "poll"
    /\ UNCHANGED <<vars, limit, left, heldUp>>

PollExpires ==
    /\ at = "poll" /\ timeout = 0 /\ session.unread = "none"
    /\ at' = "test"
    /\ UNCHANGED <<vars, limit, left, timeout, heldUp>>

\* poll() fails, or wakes over something that is no whole packet: the loop goes
\* round in either case.
PollInVain ==
    /\ at = "poll"
    /\ at' = "test"
    /\ UNCHANGED <<vars, limit, left, timeout, heldUp>>

\* A CONNACK, or what makes mqtt_input fail.
Hears ==
    /\ at = "poll" /\ session.unread # "none"
    /\ WaitSucceeds \/ WaitFails
    /\ at' = "out"
    /\ UNCHANGED <<limit, left, timeout, heldUp>>

\* A millisecond, wherever the thread is.
Tick ==
    /\ at # "out"
    /\ left' = IF left > -1 THEN left - 1 ELSE left
    /\ timeout' = IF at = "poll" /\ timeout > 0 THEN timeout - 1 ELSE timeout
    /\ heldUp' = (heldUp \/ (at = "compute" /\ left = 0))
    /\ UNCHANGED <<vars, limit, at>>

\* Any step of GwCloud that neither begins the wait nor ends it.
Elsewhere ==
    /\ Next
    /\ pc' = "wait_connack" <=> pc = "wait_connack"
    /\ UNCHANGED waitVars

WaitNext ==
    \/ Elsewhere \/ WaitBegins
    \/ GoesOn \/ Expires \/ ComputesTimeout \/ PollExpires \/ PollInVain \/ Hears
    \/ Tick

WaitSpec == WaitInit /\ [][WaitNext]_allVars

\* The exchanges before the wait have timeouts of their own; the loop's thread is
\* scheduled, however late; a poll is left when its timeout is over or something
\* is there to be read; time goes on.
FairWaitSpec ==
    /\ WaitSpec
    /\ WF_allVars(ConnectStep /\ pc # "wait_connack" /\ (Elsewhere \/ WaitBegins))
    /\ WF_allVars(GoesOn \/ Expires \/ ComputesTimeout \/ PollExpires \/ Hears)
    /\ WF_allVars(Tick)

\* Besides, the application calls gw_cloud_connect again and again, and each
\* exchange that is tried again and again sometimes works; an answer that is there
\* again and again is sometimes read in time.  The broker still owes none.  All of it
\* is about connects that come back, or have something to read, and takes nothing
\* from ReturnsOrStrands, which is about the one that does not.
RetryWaitSpec ==
    /\ FairWaitSpec
    /\ WF_allVars(CloudInit /\ ~cloudInit /\ Elsewhere) /\ WF_allVars(ConnectCall /\ Elsewhere)
    /\ SF_allVars(BootstrapDone /\ Elsewhere) /\ SF_allVars(SecretDone /\ Elsewhere)
    /\ SF_allVars(ConfigureDone /\ Elsewhere) /\ SF_allVars(WaitBegins)
    /\ SF_vars(WaitSucceeds)

-----------------------------------------------------------------------------
(* Safety *)

\* A thread that was not held up across the deadline, with a timeout that fits an
\* int, never polls past the deadline, nor without a timeout: the poll it is in
\* ends, and ends in time.
PollMeetsDeadline ==
    at = "poll" /\ ~heldUp /\ limit <= IntMax =>
        /\ timeout >= 0
        /\ timeout > 0 => timeout <= left

(* Refinement *)

\* With its wait taken apart the connector is still that of GwCloud.
IsConnector == Spec

(* Liveness *)

\* A poll without a timeout, on a broker that says nothing.
Stranded == at = "poll" /\ timeout < 0 /\ session.unread = "none"

\* A connect that was called returns.
ConnectReturns == pc # "idle" ~> pc = "idle"

\* Whatever the peers and the clock do, a connect returns, unless it ends up in
\* the one place from which there may be no return.
ReturnsOrStrands == []<>(pc = "idle") \/ <>[]Stranded

\* The secret the client holds on to is not the one the backend issued last.
Stale == credReady /\ resolved["secret"] # issued

\* Whatever failed before, a rotation in the middle of a fetch and a poll without a
\* timeout included, a device that stays admitted gets (back) online, as long as
\* the broker goes on answering and the client is not left with a stale secret.
BackOnline ==
    /\ SF_vars(BrokerAnswers)
    /\ <>[](devStatus \in Admitted /\ Usable /\ ~Stale)
    => []<>connected
=============================================================================
