--------------------------- MODULE MqttConnection ---------------------------
(***************************************************************************)
(* The life of the connection of the MQTT client: IOT_MQTT_Construct and   *)
(* IOT_MQTT_Destroy, the handshake, pings and probes, the detection of a    *)
(* dead peer, the events DISCONNECT and RECONNECT, and the back-off between *)
(* attempts to reconnect.                                                  *)
(*                                                                         *)
(* Any number of threads call IOT_MQTT_Yield; the one that holds lock_yield *)
(* runs the keepalive or one cycle, and is at step y_pc.  Other threads     *)
(* send without that lock.  Time goes in units: timers count down to 0,     *)
(* and in every unit IOT_MQTT_Yield runs a keepalive and then a cycle.       *)
(***************************************************************************)
EXTENDS Integers

CONSTANTS
    Yielders,            \* threads that call IOT_MQTT_Yield
    Senders,             \* threads that publish, subscribe or unsubscribe
    KeepAlive,           \* keepAliveInterval, in units of time
    KEEPALIVE_MAX,       \* CONFIG_MQTT_KEEPALIVE_INTERVAL_MAX
    PROBE_MAX,           \* IOTX_MC_KEEPALIVE_PROBE_MAX
    INTERVAL_MIN,        \* IOTX_MC_RECONNECT_INTERVAL_MIN_MS
    INTERVAL_MAX,        \* IOTX_MC_RECONNECT_INTERVAL_MAX_MS
    TCP_TRIES,           \* retry_max of wrapper_mqtt_connect
    RETRY_TIME_LIMIT,    \* of _mqtt_connect
    MaxFaults            \* bound: failures of the network, the broker and the memory

ASSUME ConnectionThreadsAssumption == "none" \notin Yielders
ASSUME KeepAliveAssumption ==
    KeepAlive \in Nat /\ KeepAlive > 0 /\ KEEPALIVE_MAX \in Nat /\ KeepAlive <= KEEPALIVE_MAX
ASSUME RetryAssumption ==
    /\ PROBE_MAX \in Nat /\ MaxFaults \in Nat
    /\ INTERVAL_MIN \in Nat /\ INTERVAL_MAX \in Nat
    /\ 0 < INTERVAL_MIN /\ INTERVAL_MIN <= INTERVAL_MAX
    /\ TCP_TRIES \in Nat /\ TCP_TRIES > 0
    /\ RETRY_TIME_LIMIT \in Nat /\ RETRY_TIME_LIMIT > 1
\* IOTX_MC_KEEPALIVE_PROBE_MAX is 2; with 1, two pings must not be in neighbouring units.
ASSUME ProbeAssumption == PROBE_MAX > 1 \/ (PROBE_MAX = 1 /\ KeepAlive > 1)

VARIABLES
    phase,               \* the client: "none", "construct" (no yield yet) or "run"
    client_state,
    keepalive_probes,
    ping_left,           \* next_ping_time
    interval,            \* reconnect_time_interval_ms
    back_left,           \* reconnect_next_time
    lock_yield, y_pc,    \* holder of c->lock_yield, and its step
    pc,                  \* where each yielding thread is when it does not hold the lock
    tries,               \* try_count, retry_cnt
    s_pc,                \* where each sender is
    session,             \* the socket: "closed", "open", "sent" (CONNECT) or "accepted"
    link,                \* the network under it: "up", "silent" or "reset"
    advertised,          \* keepAliveInterval in the CONNECT packet
    owed, inbox,         \* a PINGRESP the broker owes; a packet that can be read
    quiet,               \* ghost: units since the broker received a packet
    silent_for,          \* ghost: units since the network went silent
    missed,              \* ghost: pings not sent for lack of memory
    last_event,          \* ghost: the last event the application saw
    unit,                \* this unit of time: "new", "kept" (a keepalive has run) or "done"
    faults

clientVars == <<phase, client_state, keepalive_probes, ping_left, interval, back_left>>
threadVars == <<lock_yield, y_pc, pc, tries, s_pc>>
netVars == <<session, link, advertised, owed, inbox>>
ghostVars == <<quiet, silent_for, missed, last_event>>
vars == <<clientVars, threadVars, netVars, ghostVars, unit, faults>>

Steps == {"none", "ping", "state", "tcp", "connect", "connack", "accepted", "failed",
          "reconnected", "cycle", "read"}

TypeOK ==
    /\ phase \in {"none", "construct", "run"}
    /\ client_state \in {"INVALID", "INITIALIZED", "CONNECTED", "DISCONNECTED", "RECONNECTING"}
    /\ keepalive_probes \in Nat
    /\ ping_left \in Nat /\ interval \in Nat /\ back_left \in Nat
    /\ lock_yield \in Yielders \cup {"none"}
    /\ y_pc \in Steps
    /\ pc \in [Yielders -> {"out", "keepalive", "cycle"}]
    /\ tries \in Nat
    /\ s_pc \in [Senders -> {"idle", "send", "neterr"}]
    /\ session \in {"closed", "open", "sent", "accepted"}
    /\ link \in {"up", "silent", "reset"}
    /\ advertised \in Nat /\ owed \in {0, 1} /\ inbox \in {0, 1}
    /\ quiet \in Nat /\ silent_for \in Nat /\ missed \in {0, 1}
    /\ last_event \in {"none", "DISCONNECT", "RECONNECT"}
    /\ unit \in {"new", "kept", "done"} /\ faults \in Nat

Init ==
    /\ phase = "none" /\ client_state = "INVALID"
    /\ keepalive_probes = 0 /\ ping_left = 0 /\ interval = INTERVAL_MIN /\ back_left = 0
    /\ lock_yield = "none" /\ y_pc = "none" /\ tries = 0
    /\ pc = [y \in Yielders |-> "out"] /\ s_pc = [s \in Senders |-> "idle"]
    /\ session = "closed" /\ link = "up" /\ advertised = 0 /\ owed = 0 /\ inbox = 0
    /\ quiet = 0 /\ silent_for = 0 /\ missed = 0 /\ last_event = "none"
    /\ unit = "new" /\ faults = 0

----------------------------------------------------------------------------
(* The network.                                                             *)

Fault == faults < MaxFaults /\ faults' = faults + 1

NewSocket(s) == session' = s /\ link' = "up" /\ owed' = 0 /\ inbox' = 0 /\ advertised' = 0
CloseSocket == NewSocket("closed")
OpenSocket == NewSocket("open")

\* The peer is gone: either writes and reads still work but nothing arrives, or they fail.
LinkFails(l) ==
    /\ session # "closed" /\ link = "up" /\ Fault
    /\ link' = l /\ silent_for' = 0
    /\ UNCHANGED <<clientVars, threadVars, session, advertised, owed, inbox, quiet, missed, last_event,
                   unit>>

\* The broker answers a ping, or publishes a message.
BrokerSends ==
    /\ session = "accepted" /\ link = "up" /\ inbox = 0
    /\ inbox' = 1 /\ owed' = 0
    /\ UNCHANGED <<clientVars, threadVars, session, link, advertised, ghostVars, unit, faults>>

\* The outcomes of iotx_mc_send_packet: a socket whose peer has reset the connection may
\* still take a packet.
WriteMayPass == session # "closed"
WriteMayFail == session = "closed" \/ link = "reset"

----------------------------------------------------------------------------
(* IOT_MQTT_Construct and wrapper_mqtt_connect.                             *)

Construct ==
    /\ phase = "none"
    /\ phase' = "construct" /\ client_state' = "INITIALIZED"
    /\ keepalive_probes' = 0 /\ ping_left' = 0 /\ interval' = INTERVAL_MIN /\ back_left' = 0
    /\ y_pc' = "tcp" /\ tries' = 1 /\ last_event' = "none"
    /\ UNCHANGED <<lock_yield, pc, s_pc, netVars, quiet, silent_for, missed, unit, faults>>

\* ipstack.connect.  The handshake goes on after the last try even when it failed.
TcpOk ==
    /\ y_pc = "tcp"
    /\ OpenSocket
    /\ y_pc' = "connect" /\ tries' = 1
    /\ UNCHANGED <<clientVars, lock_yield, pc, s_pc, ghostVars, unit, faults>>

TcpFail ==
    /\ y_pc = "tcp" /\ Fault
    /\ CloseSocket
    /\ IF tries < TCP_TRIES
         THEN tries' = tries + 1 /\ UNCHANGED y_pc
         ELSE y_pc' = "connect" /\ tries' = 1
    /\ UNCHANGED <<clientVars, lock_yield, pc, s_pc, ghostVars, unit>>

\* The interval in the packet: doubled in the first CONNECT only.
Advertise ==
    IF tries = 1 THEN IF 2 * KeepAlive > KEEPALIVE_MAX THEN KEEPALIVE_MAX ELSE 2 * KeepAlive
                 ELSE KeepAlive

\* MQTTConnect
ConnectOk ==
    /\ y_pc = "connect" /\ WriteMayPass
    /\ session' = "sent" /\ advertised' = Advertise
    /\ quiet' = 0 /\ missed' = 0
    /\ y_pc' = "connack"
    /\ UNCHANGED <<clientVars, lock_yield, pc, tries, s_pc, link, owed, inbox, silent_for,
                   last_event, unit, faults>>

ConnectFail ==
    /\ y_pc = "connect"
    /\ IF WriteMayFail THEN UNCHANGED faults ELSE Fault
    /\ CloseSocket
    /\ y_pc' = "failed"
    /\ UNCHANGED <<clientVars, lock_yield, pc, tries, s_pc, ghostVars, unit>>

\* iotx_mc_wait_CONNACK
ConnackAccepted ==
    /\ y_pc = "connack" /\ link = "up"
    /\ session' = "accepted" /\ y_pc' = "accepted"
    /\ UNCHANGED <<clientVars, lock_yield, pc, tries, s_pc, link, advertised, owed, inbox, ghostVars,
                   unit, faults>>

ConnackRejected ==
    /\ y_pc = "connack" /\ link = "up" /\ Fault
    /\ CloseSocket
    /\ y_pc' = "failed"
    /\ UNCHANGED <<clientVars, lock_yield, pc, tries, s_pc, ghostVars, unit>>

\* The socket is opened again before the tries are counted: after the last one it stays open.
AfterTimeout_Unchecked ==           \* Mutant: the end of the tries is not told from a success.
    IF tries + 1 < RETRY_TIME_LIMIT THEN "connect" ELSE "accepted"

AfterTimeout == IF tries + 1 < RETRY_TIME_LIMIT THEN "connect" ELSE "failed"

ConnackTimeout(reopened) ==
    /\ y_pc = "connack"
    /\ IF link = "up" \/ ~reopened THEN Fault ELSE UNCHANGED faults
    /\ IF reopened THEN OpenSocket ELSE CloseSocket
    /\ tries' = tries + 1
    /\ y_pc' = AfterTimeout
    /\ UNCHANGED <<clientVars, lock_yield, pc, s_pc, ghostVars, unit>>

\* The time between pings.
PingInterval_Doubled == 2 * KeepAlive   \* Mutant: the doubled interval is not taken back.

PingInterval == KeepAlive

\* The end of _mqtt_connect.  From here on senders find the client connected.
Accepted ==
    /\ y_pc = "accepted"
    /\ client_state' = "CONNECTED" /\ keepalive_probes' = 0 /\ ping_left' = PingInterval
    /\ IF phase = "construct"
         THEN phase' = "run" /\ y_pc' = "none"
         ELSE y_pc' = "reconnected" /\ UNCHANGED phase
    /\ tries' = 0
    /\ UNCHANGED <<interval, back_left, lock_yield, pc, s_pc, netVars, ghostVars, unit, faults>>

\* IOT_MQTT_Construct gives up and releases the client.
ConstructFailed ==
    /\ y_pc = "failed" /\ phase = "construct"
    /\ phase' = "none" /\ client_state' = "INVALID" /\ y_pc' = "none"
    /\ CloseSocket /\ tries' = 0
    /\ UNCHANGED <<keepalive_probes, ping_left, interval, back_left, lock_yield, pc, s_pc,
                   ghostVars, unit, faults>>

\* IOT_MQTT_Destroy.  The application has no other call of the client under way.
Destroy ==
    /\ phase = "run" /\ y_pc = "none"
    /\ \A y \in Yielders : pc[y] = "out"
    /\ \A s \in Senders : s_pc[s] = "idle"
    /\ CloseSocket
    /\ phase' = "none" /\ client_state' = "INVALID"
    /\ UNCHANGED <<keepalive_probes, ping_left, interval, back_left, threadVars, ghostVars, unit, faults>>

----------------------------------------------------------------------------
(* wrapper_mqtt_yield: iotx_mc_keepalive.                                   *)

Yield(y) ==
    /\ phase = "run" /\ pc[y] = "out"
    /\ pc' = [pc EXCEPT ![y] = "keepalive"]
    /\ UNCHANGED <<clientVars, lock_yield, y_pc, tries, s_pc, netVars, ghostVars, unit, faults>>

LockYield(y, step) ==
    /\ lock_yield = "none" /\ lock_yield' = y
    /\ y_pc' = step

UnlockYield(l) ==
    /\ lock_yield' = "none" /\ y_pc' = "none"
    /\ pc' = [pc EXCEPT ![lock_yield] = l]

KeepaliveLock(y) ==
    /\ pc[y] = "keepalive" /\ LockYield(y, "ping")
    /\ UNCHANGED <<clientVars, pc, tries, s_pc, netVars, ghostVars, unit, faults>>

\* iotx_mc_keepalive_sub: the timer is set again before the ping is sent.
PingDue == client_state = "CONNECTED" /\ ping_left = 0

Kept == unit' = IF unit = "new" THEN "kept" ELSE unit

PingNotDue ==
    /\ y_pc = "ping" /\ ~PingDue
    /\ y_pc' = "state" /\ Kept
    /\ UNCHANGED <<clientVars, lock_yield, pc, tries, s_pc, netVars, ghostVars, faults>>

PingOk ==
    /\ y_pc = "ping" /\ PingDue /\ WriteMayPass
    /\ ping_left' = PingInterval
    /\ keepalive_probes' = keepalive_probes + 1
    /\ owed' = (IF link = "up" THEN 1 ELSE 0) /\ quiet' = (IF link = "up" THEN 0 ELSE quiet)
    /\ y_pc' = "state" /\ Kept
    /\ UNCHANGED <<phase, client_state, interval, back_left, lock_yield, pc, tries, s_pc, session, link,
                   advertised, inbox, silent_for, missed, last_event, faults>>

PingFail ==
    /\ y_pc = "ping" /\ PingDue
    /\ ping_left' = PingInterval
    /\ \/ WriteMayFail /\ client_state' = "DISCONNECTED" /\ UNCHANGED <<missed, faults>>
       \/ Fault /\ missed' = 1 /\ UNCHANGED client_state            \* no memory
    /\ y_pc' = "state" /\ Kept
    /\ UNCHANGED <<phase, keepalive_probes, interval, back_left, lock_yield, pc, tries, s_pc, netVars,
                   quiet, silent_for, last_event>>

\* The state decides: nothing to do ...
KeepaliveDone ==
    /\ y_pc = "state" /\ client_state \notin {"DISCONNECTED", "RECONNECTING"}
    /\ UnlockYield("cycle")
    /\ UNCHANGED <<clientVars, tries, s_pc, netVars, ghostVars, unit, faults>>

NotifyDisconnect_Silent == UNCHANGED last_event     \* Mutant: no event.

\* iotx_mc_disconnect_callback
NotifyDisconnect == last_event' = "DISCONNECT"

\* ... tell the application, close the socket and start the back-off ...
HandleDisconnect ==
    /\ y_pc = "state" /\ client_state = "DISCONNECTED"
    /\ NotifyDisconnect
    /\ interval' = INTERVAL_MIN /\ back_left' = INTERVAL_MIN
    /\ CloseSocket
    /\ client_state' = "RECONNECTING"
    /\ UnlockYield("cycle")
    /\ UNCHANGED <<phase, keepalive_probes, ping_left, tries, s_pc, quiet, silent_for, missed, unit, faults>>

BackoffRuns_Restarted == back_left' = interval        \* Mutant: every yield starts it again.

BackoffRuns == UNCHANGED back_left

\* ... or iotx_mc_handle_reconnect: not yet, or an attempt.
BackingOff ==
    /\ y_pc = "state" /\ client_state = "RECONNECTING" /\ back_left > 0
    /\ BackoffRuns
    /\ UnlockYield("cycle")
    /\ UNCHANGED <<phase, client_state, keepalive_probes, ping_left, interval, tries, s_pc, netVars, ghostVars, unit, faults>>

CloseBefore_Nothing == UNCHANGED netVars     \* Mutant: what the last attempt left open stays.

CloseBefore == CloseSocket

AttemptReconnect ==
    /\ y_pc = "state" /\ client_state = "RECONNECTING" /\ back_left = 0
    /\ CloseBefore
    /\ y_pc' = "tcp" /\ tries' = 1
    /\ UNCHANGED <<clientVars, lock_yield, pc, s_pc, ghostVars, unit, faults>>

\* iotx_mc_handle_reconnect sets the state a second time, then the event.
Reconnected ==
    /\ y_pc = "reconnected"
    /\ client_state' = "CONNECTED"
    /\ last_event' = "RECONNECT"
    /\ interval' = INTERVAL_MIN
    /\ UnlockYield("cycle")
    /\ UNCHANGED <<phase, keepalive_probes, ping_left, back_left, tries, s_pc, netVars, quiet, silent_for,
                   missed, unit, faults>>

NextInterval == IF INTERVAL_MAX > interval THEN 2 * interval ELSE INTERVAL_MAX

Wait_Uncapped(i) == i                \* Mutant: the stored interval is waited for.

Wait(i) == IF INTERVAL_MAX < i THEN INTERVAL_MAX ELSE i

ReconnectFailed ==
    /\ y_pc = "failed" /\ phase = "run"
    /\ interval' = NextInterval
    /\ back_left' = Wait(interval')
    /\ tries' = 0
    /\ UnlockYield("cycle")
    /\ UNCHANGED <<phase, client_state, keepalive_probes, ping_left, s_pc, netVars, ghostVars, unit, faults>>

----------------------------------------------------------------------------
(* _mqtt_cycle: iotx_mc_cycle under lock_yield, until the time is over.     *)

CycleLock(y) ==
    /\ pc[y] = "cycle" /\ LockYield(y, "cycle")
    /\ UNCHANGED <<clientVars, pc, tries, s_pc, netVars, ghostVars, unit, faults>>

\* After a cycle: the next one, or the return.
EndCycle ==
    /\ \E l \in {"cycle", "out"} : UnlockYield(l)
    /\ unit' = IF unit = "kept" THEN "done" ELSE unit

CycleNotConnected ==
    /\ y_pc = "cycle" /\ client_state # "CONNECTED"
    /\ EndCycle
    /\ UNCHANGED <<clientVars, tries, s_pc, netVars, ghostVars, faults>>

\* Too many pings without an answer.  The socket is still read.
PeerDead_OneMore == PROBE_MAX + 1 < keepalive_probes      \* Mutant: one ping too many.

PeerDead == PROBE_MAX < keepalive_probes

CycleCheck ==
    /\ y_pc = "cycle" /\ client_state = "CONNECTED"
    /\ IF PeerDead
         THEN client_state' = "DISCONNECTED" /\ keepalive_probes' = 0
         ELSE UNCHANGED <<client_state, keepalive_probes>>
    /\ y_pc' = "read"
    /\ UNCHANGED <<phase, ping_left, interval, back_left, lock_yield, pc, tries, s_pc, netVars,
                   ghostVars, unit, faults>>

\* Any packet clears the probes.
ProbesAfterPacket_Kept == keepalive_probes     \* Mutant: only a new connection clears them.

ProbesAfterPacket == 0

ReadPacket ==
    /\ y_pc = "read" /\ link # "reset" /\ inbox = 1
    /\ inbox' = 0 /\ keepalive_probes' = ProbesAfterPacket
    /\ EndCycle
    /\ UNCHANGED <<phase, client_state, ping_left, interval, back_left, tries, s_pc, session, link,
                   advertised, owed, ghostVars, faults>>

ReadTimeout ==
    /\ y_pc = "read" /\ link # "reset" /\ inbox = 0
    /\ EndCycle
    /\ UNCHANGED <<clientVars, tries, s_pc, netVars, ghostVars, faults>>

ReadError ==
    /\ y_pc = "read" /\ link = "reset"
    /\ client_state' = "DISCONNECTED"
    /\ EndCycle
    /\ UNCHANGED <<phase, keepalive_probes, ping_left, interval, back_left, tries, s_pc, netVars,
                   ghostVars, faults>>

----------------------------------------------------------------------------
(* Senders: wrapper_mqtt_publish, wrapper_mqtt_subscribe and                *)
(* wrapper_mqtt_unsubscribe look at the state, send, and report an error.    *)

SendCheck(s) ==
    /\ phase = "run" /\ s_pc[s] = "idle" /\ client_state = "CONNECTED"
    /\ s_pc' = [s_pc EXCEPT ![s] = "send"]
    /\ UNCHANGED <<clientVars, lock_yield, y_pc, pc, tries, netVars, ghostVars, unit, faults>>

\* The connection may be another one by now.  A broker that reads a packet before the
\* CONNECT closes the connection.
Send(s) ==
    /\ s_pc[s] = "send"
    /\ \/ /\ WriteMayPass
          /\ s_pc' = [s_pc EXCEPT ![s] = "idle"]
          /\ link' = IF session = "open" /\ link = "up" THEN "reset" ELSE link
          /\ quiet' = IF link = "up" THEN 0 ELSE quiet
       \/ /\ WriteMayFail
          /\ s_pc' = [s_pc EXCEPT ![s] = "neterr"] /\ UNCHANGED <<link, quiet>>
    /\ UNCHANGED <<clientVars, lock_yield, y_pc, pc, tries, session, advertised, owed, inbox, silent_for,
                   missed, last_event, unit, faults>>

\* The error is reported whatever has happened to the connection since.
SendError(s) ==
    /\ s_pc[s] = "neterr"
    /\ client_state' = "DISCONNECTED"
    /\ s_pc' = [s_pc EXCEPT ![s] = "idle"]
    /\ UNCHANGED <<phase, keepalive_probes, ping_left, interval, back_left, lock_yield, y_pc, pc, tries,
                   netVars, ghostVars, unit, faults>>

----------------------------------------------------------------------------
\* The ghosts stop counting at this value.
GhostMax == (PROBE_MAX + 3) * (KeepAlive + 1)
Count(n) == IF n < GhostMax THEN n + 1 ELSE n
Down_NoFloor(n) == n - 1             \* Mutant: the timer runs on.

\* A timer runs down, and stays expired (utils_time_is_expired).
Down(n) == IF n > 0 THEN n - 1 ELSE 0

\* A unit of time: a keepalive and a cycle were run in it, and a live broker has answered.
Tick ==
    /\ phase = "run" /\ unit = "done" /\ ~(owed = 1 /\ link = "up")
    /\ unit' = "new"
    /\ ping_left' = Down(ping_left) /\ back_left' = Down(back_left)
    /\ quiet' = (IF client_state = "CONNECTED" THEN Count(quiet) ELSE 0)
    /\ silent_for' = (IF link = "silent" /\ client_state = "CONNECTED" THEN Count(silent_for) ELSE 0)
    /\ UNCHANGED <<phase, client_state, keepalive_probes, interval, threadVars, netVars, missed,
                   last_event, faults>>

ConnectStep ==
    \/ TcpOk \/ TcpFail \/ ConnectOk \/ ConnectFail \/ ConnackAccepted \/ ConnackRejected
    \/ \E reopened \in BOOLEAN : ConnackTimeout(reopened)
    \/ Accepted \/ ConstructFailed

YieldStep ==
    \/ PingNotDue \/ PingOk \/ PingFail \/ KeepaliveDone \/ HandleDisconnect \/ BackingOff
    \/ AttemptReconnect \/ Reconnected \/ ReconnectFailed
    \/ CycleNotConnected \/ CycleCheck \/ ReadPacket \/ ReadTimeout \/ ReadError

Next ==
    \/ Construct \/ Destroy \/ ConnectStep \/ YieldStep
    \/ \E y \in Yielders : Yield(y) \/ KeepaliveLock(y) \/ CycleLock(y)
    \/ \E s \in Senders : SendCheck(s) \/ Send(s) \/ SendError(s)
    \/ \E l \in {"silent", "reset"} : LinkFails(l)
    \/ BrokerSends \/ Tick

Spec == Init /\ [][Next]_vars

(***************************************************************************)
(* The application keeps calling IOT_MQTT_Yield, threads inside the library *)
(* go on and get the lock they wait for, the time of a yield ends, time     *)
(* passes, and a live broker answers.                                       *)
(***************************************************************************)
Fairness ==
    /\ WF_vars(ConnectStep) /\ WF_vars(YieldStep)
    /\ SF_vars(YieldStep /\ \E y \in Yielders : pc[y] # "out" /\ pc'[y] = "out")
    /\ WF_vars(\E y \in Yielders : Yield(y))
    /\ SF_vars(\E y \in Yielders : KeepaliveLock(y))
    /\ SF_vars(\E y \in Yielders : CycleLock(y))
    /\ WF_vars(\E s \in Senders : Send(s) \/ SendError(s))
    /\ WF_vars(BrokerSends) /\ WF_vars(Tick)

FairSpec == Spec /\ Fairness

----------------------------------------------------------------------------
(* Properties.                                                              *)

\* Whoever finds the client CONNECTED finds a connection the broker has accepted: no
\* failed, refused or half-done handshake, and no late write of the state by
\* iotx_mc_handle_reconnect, makes a closed or new socket look connected.
ConnectedMeansAccepted == client_state = "CONNECTED" => session = "accepted"

\* No socket is opened while another one is open: wrapper_mqtt_connect starts with a
\* closed socket, though a handshake that failed in its last try left one open.
NoSocketLeak == y_pc = "tcp" => session = "closed"

\* A broker that answers its pings is never taken for dead (iotx_mc_cycle).
NoFalseAlarm == (y_pc = "cycle" /\ client_state = "CONNECTED" /\ PeerDead) => link # "up"

\* A silent peer is found out within the time of PROBE_MAX + 1 pings, as long as no ping
\* fails for lack of memory (iotx_mc_keepalive_sub, iotx_mc_cycle).
SilenceDetected ==
    (client_state = "CONNECTED" /\ link = "silent" /\ missed = 0) =>
        silent_for <= (PROBE_MAX + 1) * KeepAlive + 1

\* The broker hears from a connected client within the interval of its CONNECT packet,
\* also when that was a second CONNECT, whose interval is not doubled, as long as no ping
\* fails for lack of memory (_mqtt_connect, iotx_mc_keepalive_sub).
KeepAliveHonoured ==
    (client_state = "CONNECTED" /\ link = "up" /\ missed = 0) => quiet <= advertised

\* The back-off neither exceeds its maximum, though the stored interval does, nor grows
\* without end (iotx_mc_handle_reconnect).
BackoffBounded == back_left <= INTERVAL_MAX /\ interval < 2 * INTERVAL_MAX

\* The application gets RECONNECT only after a DISCONNECT of the same client.
ReconnectAfterDisconnect == y_pc = "reconnected" => last_event = "DISCONNECT"

\* A lost connection comes back, once the network and the broker are well again,
\* whatever late errors of senders are written to client_state.
Recovers ==
    (phase = "run" /\ client_state # "CONNECTED") ~> (client_state = "CONNECTED" \/ phase # "run")
=============================================================================
