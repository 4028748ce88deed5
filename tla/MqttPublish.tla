---------------------------- MODULE MqttPublish ----------------------------
(***************************************************************************)
(* The QoS 1 publish path of the MQTT client (src/src/mqtt/impl/           *)
(* iotx_mqtt_client.c): wrapper_mqtt_publish called by any number of       *)
(* application threads, the list of publishes that wait for a PUBACK, the  *)
(* yield thread that reads acknowledgements and republishes late ones, and *)
(* the broker at the other end of a socket that may break at any time.     *)
(*                                                                         *)
(* All the work of wrapper_mqtt_yield happens under lock_yield, so one     *)
(* process, Yield, stands for every thread that calls it.  lock_generic    *)
(* protects single assignments, each of which is one action here.          *)
(*                                                                         *)
(* A QoS 1 message is named by the ordinal of the packet id drawn for it   *)
(* (its seq): the model can tell two messages with the same id apart, the  *)
(* code cannot.                                                            *)
(***************************************************************************)
EXTENDS Integers, Sequences, SequencesExt

CONSTANTS
    Publishers,        \* application threads that call IOT_MQTT_Publish
    PACKET_ID_MAX,     \* IOTX_MC_PACKET_ID_MAX, 65535 in the code
    REPUB_NUM_MAX,     \* IOTX_MC_REPUB_NUM_MAX, 20 in the code
    SOCK_BUF,          \* packets that a socket buffer holds in one direction
    QosLevels,         \* the QoS values the application asks for
    PartialReads,      \* TRUE: a read may time out inside a packet
    JunkIds,           \* packet ids that bytes of a desynchronised stream decode to
    MaxIssued,         \* bound: packet ids drawn in a behaviour
    MaxBreaks          \* bound: network failures in a behaviour

ASSUME PublishersAssumption == {"yield", "none"} \cap Publishers = {}
ASSUME PacketIdAssumption == PACKET_ID_MAX \in Nat \ {0}
ASSUME RepubAssumption == REPUB_NUM_MAX \in Nat \ {0}
ASSUME BufAssumption == SOCK_BUF \in Nat \ {0}
ASSUME QosAssumption == QosLevels \subseteq 0..2
ASSUME JunkAssumption == PartialReads \in BOOLEAN /\ JunkIds \subseteq 1..PACKET_ID_MAX
ASSUME BoundsAssumption == MaxIssued \in Nat /\ MaxBreaks \in Nat

VARIABLES
    client_state,       \* c->client_state
    packet_id,          \* c->packet_id, the last id drawn
    list_pub_wait_ack,  \* c->list_pub_wait_ack
    lock_list_pub,      \* holder of c->lock_list_pub
    lock_write_buf,     \* holder of c->lock_write_buf
    pc, req,            \* where each publisher is and what it publishes
    y_pc, cursor, y_ack,\* where the yield thread is, its list position, the id it read
    sock,               \* c->ipstack: "closed", "up", or "dead" (peer gone)
    up, down,           \* packets written by the client / by the broker, not yet read
    desync,             \* the next bytes to read are the inside of a packet
    session,            \* the broker has accepted a CONNECT on this socket
    issued,             \* ghost: how many packet ids have been drawn
    accepted,           \* ghost: messages whose publish returned success
    received,           \* ghost: messages the broker has received
    breaks              \* ghost: network failures so far

clientVars == <<client_state, packet_id, list_pub_wait_ack>>
lockVars == <<lock_list_pub, lock_write_buf>>
pubVars == <<pc, req>>
yieldVars == <<y_pc, cursor, y_ack>>
netVars == <<sock, up, down, desync, session>>
ghostVars == <<issued, accepted, received, breaks>>
vars == <<clientVars, lockVars, pubVars, yieldVars, netVars, ghostVars>>

Ids == 1..PACKET_ID_MAX
CONNACK == 0            \* in down: no packet has id 0

Node == [id : Ids, seq : Nat, node_state : {"NORMAL", "INVALID"}, late : BOOLEAN]
Packet == [type : {"CONNECT", "PUBLISH"}, id : 0..PACKET_ID_MAX, seq : Nat, torn : BOOLEAN]
Request == [qos : 0..2, id : 0..PACKET_ID_MAX, seq : Nat]

Connect == [type |-> "CONNECT", id |-> 0, seq |-> 0, torn |-> FALSE]
Publish(id, seq) == [type |-> "PUBLISH", id |-> id, seq |-> seq, torn |-> FALSE]

TypeOK ==
    /\ client_state \in {"CONNECTED", "DISCONNECTED", "RECONNECTING"}
    /\ packet_id \in 0..PACKET_ID_MAX
    /\ list_pub_wait_ack \in Seq(Node)
    /\ lock_list_pub \in Publishers \cup {"yield", "none"}
    /\ lock_write_buf \in Publishers \cup {"yield", "none"}
    /\ pc \in [Publishers -> {"idle", "checked", "ready", "locked", "send", "neterr"}]
    /\ req \in [Publishers -> Request]
    /\ y_pc \in {"idle", "read", "mask", "proc", "scan", "resend", "refail",
                 "closing", "connect", "connack", "connected"}
    /\ cursor \in Nat \ {0}
    /\ y_ack \in 0..PACKET_ID_MAX
    /\ sock \in {"closed", "up", "dead"}
    /\ up \in Seq(Packet)
    /\ down \in Seq(0..PACKET_ID_MAX)
    /\ desync \in BOOLEAN
    /\ session \in BOOLEAN
    /\ issued \in Nat
    /\ accepted \subseteq Nat
    /\ received \subseteq Nat
    /\ breaks \in Nat

\* The client after a first successful IOT_MQTT_Construct: connected, nothing published.
Init ==
    /\ client_state = "CONNECTED"
    /\ packet_id = 0
    /\ list_pub_wait_ack = << >>
    /\ lock_list_pub = "none" /\ lock_write_buf = "none"
    /\ pc = [p \in Publishers |-> "idle"]
    /\ req = [p \in Publishers |-> [qos |-> 0, id |-> 0, seq |-> 0]]
    /\ y_pc = "idle" /\ cursor = 1 /\ y_ack = 0
    /\ sock = "up" /\ up = << >> /\ down = << >>
    /\ desync = FALSE /\ session = TRUE
    /\ issued = 0 /\ accepted = {} /\ received = {} /\ breaks = 0

----------------------------------------------------------------------------
(* iotx_mc_send_packet: the write loop succeeds when every byte is taken.   *)
(* A dead peer still takes bytes into the socket buffer.  It fails at once  *)
(* on a closed socket, when neither side can take more bytes, or when the   *)
(* network fails under it, and may then leave a torn packet behind.         *)

SendOk(pkt) ==
    /\ sock # "closed" /\ Len(up) < SOCK_BUF
    /\ up' = IF sock = "up" THEN Append(up, pkt) ELSE up
    /\ UNCHANGED <<sock, down, desync, session>>

SendFail(pkt) ==
    /\ \/ /\ sock # "up" \/ (Len(up) >= SOCK_BUF /\ Len(down) >= SOCK_BUF)
          /\ UNCHANGED <<up, breaks>>
       \/ /\ sock = "up" /\ breaks < MaxBreaks
          /\ up' = up \/ (Len(up) < SOCK_BUF /\ up' = Append(up, [pkt EXCEPT !.torn = TRUE]))
          /\ breaks' = breaks + 1
    /\ UNCHANGED <<sock, down, desync, session>>

\* ipstack.disconnect: whatever was buffered in either direction is gone.
Disconnect ==
    /\ sock' = "closed" /\ up' = << >> /\ down' = << >>
    /\ desync' = FALSE /\ session' = FALSE

\* ipstack.connect succeeds: a new byte stream, on which nothing has been sent.
OpenSocket ==
    /\ sock' = "up" /\ up' = << >> /\ down' = << >>
    /\ desync' = FALSE /\ session' = FALSE

\* Mutant: the counter stays at its maximum.
NextPacketId_Sticks == IF packet_id = PACKET_ID_MAX THEN packet_id ELSE packet_id + 1

\* iotx_mc_get_next_packetid
NextPacketId == IF packet_id = PACKET_ID_MAX THEN 1 ELSE packet_id + 1

DrawPacketId ==
    /\ issued < MaxIssued
    /\ packet_id' = NextPacketId
    /\ issued' = issued + 1

----------------------------------------------------------------------------
(* wrapper_mqtt_publish, one publisher thread p.                            *)

\* wrapper_mqtt_check_state; any other state makes the call return at once.
PubCheckState(p) ==
    /\ pc[p] = "idle"
    /\ client_state = "CONNECTED"
    /\ issued < MaxIssued
    /\ pc' = [pc EXCEPT ![p] = "checked"]
    /\ UNCHANGED <<clientVars, lockVars, req, yieldVars, netVars, ghostVars>>

\* The id is drawn before QoS 2 is refused; QoS 0 draws none.
PubNextId(p, q) ==
    /\ pc[p] = "checked"
    /\ IF q = 0
         THEN /\ req' = [req EXCEPT ![p] = [qos |-> 0, id |-> 0, seq |-> 0]]
              /\ UNCHANGED <<packet_id, issued>>
         ELSE /\ DrawPacketId
              /\ req' = [req EXCEPT ![p] = [qos |-> q, id |-> NextPacketId, seq |-> issued + 1]]
    /\ pc' = [pc EXCEPT ![p] = IF q = 2 THEN "idle" ELSE "ready"]
    /\ UNCHANGED <<client_state, list_pub_wait_ack, lockVars, yieldVars, netVars,
                   accepted, received, breaks>>

\* MQTTPublish: lock_list_pub first, then lock_write_buf.
PubLockList(p) ==
    /\ pc[p] = "ready"
    /\ lock_list_pub = "none"
    /\ lock_list_pub' = p
    /\ pc' = [pc EXCEPT ![p] = "locked"]
    /\ UNCHANGED <<clientVars, lock_write_buf, req, yieldVars, netVars, ghostVars>>

\* Mutant: an off-by-one in the length check.
ListFull_OffByOne == Len(list_pub_wait_ack) > REPUB_NUM_MAX

ListFull == Len(list_pub_wait_ack) >= REPUB_NUM_MAX

\* iotx_mc_push_pubInfo_to, for QoS 1 only.
PubPush(p) ==
    /\ pc[p] = "locked"
    /\ lock_write_buf = "none"
    /\ lock_write_buf' = p
    /\ \/ req[p].qos = 0 /\ UNCHANGED list_pub_wait_ack
       \/ /\ req[p].qos = 1 /\ ~ListFull
          /\ list_pub_wait_ack' = Append(list_pub_wait_ack,
                [id |-> req[p].id, seq |-> req[p].seq, node_state |-> "NORMAL", late |-> FALSE])
    /\ pc' = [pc EXCEPT ![p] = "send"]
    /\ UNCHANGED <<client_state, packet_id, lock_list_pub, req, yieldVars, netVars, ghostVars>>

\* No send buffer, a packet that does not fit, no memory for the node, or a full
\* list: the call gives both locks back and returns an error.
PubReject(p) ==
    /\ pc[p] = "locked"
    /\ lock_write_buf = "none"
    /\ lock_list_pub' = "none"
    /\ pc' = [pc EXCEPT ![p] = "idle"]
    /\ UNCHANGED <<clientVars, lock_write_buf, req, yieldVars, netVars, ghostVars>>

ReleaseBoth == lock_list_pub' = "none" /\ lock_write_buf' = "none"

PubSendOk(p) ==
    /\ pc[p] = "send"
    /\ SendOk(Publish(req[p].id, req[p].seq))
    /\ ReleaseBoth
    /\ accepted' = IF req[p].qos = 1 THEN accepted \cup {req[p].seq} ELSE accepted
    /\ pc' = [pc EXCEPT ![p] = "idle"]
    /\ UNCHANGED <<clientVars, req, yieldVars, issued, received, breaks>>

\* list_del of the node pushed last: p has held lock_list_pub since the push.
GiveUpNode(list, r) == IF r.qos = 1 THEN RemoveAt(list, Len(list)) ELSE list

PubSendFail(p) ==
    /\ pc[p] = "send"
    /\ SendFail(Publish(req[p].id, req[p].seq))
    /\ list_pub_wait_ack' = GiveUpNode(list_pub_wait_ack, req[p])
    /\ ReleaseBoth
    /\ pc' = [pc EXCEPT ![p] = "neterr"]
    /\ UNCHANGED <<client_state, packet_id, req, yieldVars, issued, accepted, received>>

\* MQTT_NETWORK_ERROR: by now the connection this is about may be another one.
PubNetErr(p) ==
    /\ pc[p] = "neterr"
    /\ client_state' = "DISCONNECTED"
    /\ pc' = [pc EXCEPT ![p] = "idle"]
    /\ UNCHANGED <<packet_id, list_pub_wait_ack, lockVars, req, yieldVars, netVars, ghostVars>>

\* MQTTSubscribe and MQTTUnsubscribe draw from the same counter.
OtherRequest ==
    /\ client_state = "CONNECTED"
    /\ DrawPacketId
    /\ UNCHANGED <<client_state, list_pub_wait_ack, lockVars, pubVars, yieldVars, netVars,
                   accepted, received, breaks>>

----------------------------------------------------------------------------
(* The yield thread: iotx_mc_cycle, MQTTPubInfoProc, iotx_mc_keepalive.     *)

\* iotx_mc_cycle starts.  When too many pings are unanswered the state becomes
\* DISCONNECTED, and the socket is read all the same.
YCycle ==
    /\ y_pc = "idle"
    /\ client_state = "CONNECTED"
    /\ y_pc' = "read"
    /\ \/ UNCHANGED client_state
       \/ sock = "dead" /\ client_state' = "DISCONNECTED"
    /\ UNCHANGED <<packet_id, list_pub_wait_ack, lockVars, pubVars, cursor, y_ack, netVars, ghostVars>>

\* A whole packet: a PUBACK is handled by iotx_mc_handle_recv_PUBACK, a late CONNACK ignored.
YReadPacket ==
    /\ y_pc = "read" /\ sock # "closed" /\ ~desync /\ down # << >>
    /\ y_ack' = Head(down)
    /\ down' = Tail(down)
    /\ y_pc' = IF Head(down) = CONNACK THEN "proc" ELSE "mask"
    /\ UNCHANGED <<clientVars, lockVars, pubVars, cursor, sock, up, desync, session, ghostVars>>

\* No first byte before the timer: MQTT_CPT_RESERVED, which is a success.
YReadTimeout ==
    /\ y_pc = "read" /\ sock # "closed" /\ down = << >> /\ ~desync
    /\ y_pc' = "proc"
    /\ UNCHANGED <<clientVars, lockVars, pubVars, cursor, y_ack, netVars, ghostVars>>

YReadError ==
    /\ y_pc = "read" /\ sock # "up" /\ down = << >>
    /\ client_state' = "DISCONNECTED"
    /\ y_pc' = "idle"
    /\ UNCHANGED <<packet_id, list_pub_wait_ack, lockVars, pubVars, cursor, y_ack, netVars, ghostVars>>

\* The timer runs out inside a packet: FAIL_RETURN, the state stays CONNECTED and
\* the next read starts in the middle of that packet.
YReadPartial ==
    /\ y_pc = "read" /\ PartialReads /\ ~desync /\ down # << >>
    /\ down' = Tail(down)
    /\ desync' = TRUE
    /\ y_pc' = "idle"
    /\ UNCHANGED <<clientVars, lockVars, pubVars, cursor, y_ack, sock, up, session, ghostVars>>

\* Reading inside a packet: the bytes decode to a PUBACK of some id, to another
\* packet, to no packet, or are the last ones before the next packet.
YReadJunk ==
    /\ y_pc = "read" /\ desync
    /\ desync' \in BOOLEAN
    /\ \/ y_pc' = "mask" /\ y_ack' \in JunkIds
       \/ y_pc' \in {"idle", "proc"} /\ UNCHANGED y_ack
    /\ UNCHANGED <<clientVars, lockVars, pubVars, cursor, sock, up, down, session, ghostVars>>

\* iotx_mc_mask_pubInfo_from: every node with that id, under lock_list_pub.
Mask_Cumulative(list, id) ==   \* Mutant: an acknowledgement of id covers the ids before it.
    [i \in DOMAIN list |-> IF list[i].id <= id THEN [list[i] EXCEPT !.node_state = "INVALID"]
                                               ELSE list[i]]

Mask(list, id) ==
    [i \in DOMAIN list |-> IF list[i].id = id THEN [list[i] EXCEPT !.node_state = "INVALID"]
                                              ELSE list[i]]

YMask ==
    /\ y_pc = "mask"
    /\ lock_list_pub = "none"
    /\ list_pub_wait_ack' = Mask(list_pub_wait_ack, y_ack)
    /\ y_pc' = "proc"
    /\ UNCHANGED <<client_state, packet_id, lockVars, pubVars, cursor, y_ack, netVars, ghostVars>>

\* MQTTPubInfoProc walks the list with lock_list_pub held from end to end.
YProcLock ==
    /\ y_pc = "proc"
    /\ lock_list_pub = "none"
    /\ lock_list_pub' = "yield"
    /\ cursor' = 1
    /\ y_pc' = "scan"
    /\ UNCHANGED <<clientVars, lock_write_buf, pubVars, y_ack, netVars, ghostVars>>

YScanEnd ==
    /\ y_pc = "scan" /\ cursor > Len(list_pub_wait_ack)
    /\ lock_list_pub' = "none"
    /\ y_pc' = "idle"
    /\ UNCHANGED <<clientVars, lock_write_buf, pubVars, cursor, y_ack, netVars, ghostVars>>

\* Mutant: the walk neither unlinks an acknowledged node nor moves past it.
YScanRemove_Stays ==
    /\ y_pc = "scan" /\ cursor <= Len(list_pub_wait_ack)
    /\ list_pub_wait_ack[cursor].node_state = "INVALID"
    /\ UNCHANGED vars

YScanRemove ==
    /\ y_pc = "scan" /\ cursor <= Len(list_pub_wait_ack)
    /\ list_pub_wait_ack[cursor].node_state = "INVALID"
    /\ list_pub_wait_ack' = RemoveAt(list_pub_wait_ack, cursor)
    /\ UNCHANGED <<client_state, packet_id, lockVars, pubVars, yieldVars, netVars, ghostVars>>

\* Mutant: the state test is the wrong way round.
MustRepublish_Inverted(n) == client_state # "CONNECTED" /\ n.late

MustRepublish(n) == client_state = "CONNECTED" /\ n.late

YScanNormal ==
    /\ y_pc = "scan" /\ cursor <= Len(list_pub_wait_ack)
    /\ list_pub_wait_ack[cursor].node_state = "NORMAL"
    /\ IF MustRepublish(list_pub_wait_ack[cursor])
         THEN y_pc' = "resend" /\ UNCHANGED cursor
         ELSE cursor' = cursor + 1 /\ UNCHANGED y_pc
    /\ UNCHANGED <<clientVars, lockVars, pubVars, y_ack, netVars, ghostVars>>

\* MQTTRePublish under lock_write_buf, with lock_list_pub still held: the same bytes again.
RestartTimer(list, i) == [list EXCEPT ![i].late = FALSE]

YResendOk ==
    /\ y_pc = "resend"
    /\ lock_write_buf = "none"
    /\ SendOk(Publish(list_pub_wait_ack[cursor].id, list_pub_wait_ack[cursor].seq))
    /\ list_pub_wait_ack' = RestartTimer(list_pub_wait_ack, cursor)
    /\ cursor' = cursor + 1
    /\ y_pc' = "scan"
    /\ UNCHANGED <<client_state, packet_id, lockVars, pubVars, y_ack, ghostVars>>

YResendFail ==
    /\ y_pc = "resend"
    /\ lock_write_buf = "none"
    /\ SendFail(Publish(list_pub_wait_ack[cursor].id, list_pub_wait_ack[cursor].seq))
    /\ list_pub_wait_ack' = RestartTimer(list_pub_wait_ack, cursor)
    /\ y_pc' = "refail"
    /\ UNCHANGED <<client_state, packet_id, lockVars, pubVars, cursor, y_ack,
                   issued, accepted, received>>

\* The walk stops at the first network error.
YResendErr ==
    /\ y_pc = "refail"
    /\ client_state' = "DISCONNECTED"
    /\ lock_list_pub' = "none"
    /\ y_pc' = "idle"
    /\ UNCHANGED <<packet_id, list_pub_wait_ack, lock_write_buf, pubVars, cursor, y_ack,
                   netVars, ghostVars>>

\* iotx_mc_keepalive finds DISCONNECTED: close the socket, then set the state.
YClose ==
    /\ y_pc = "idle" /\ client_state = "DISCONNECTED"
    /\ Disconnect
    /\ y_pc' = "closing"
    /\ UNCHANGED <<clientVars, lockVars, pubVars, cursor, y_ack, ghostVars>>

YSetReconnecting ==
    /\ y_pc = "closing"
    /\ client_state' = "RECONNECTING"
    /\ y_pc' = "idle"
    /\ UNCHANGED <<packet_id, list_pub_wait_ack, lockVars, pubVars, cursor, y_ack, netVars, ghostVars>>

\* iotx_mc_attempt_reconnect and wrapper_mqtt_connect: _mqtt_connect follows even
\* when no TCP connection could be made.
YReconnect ==
    /\ y_pc = "idle" /\ client_state = "RECONNECTING"
    /\ y_pc' = "connect"
    /\ \/ OpenSocket /\ UNCHANGED breaks
       \/ Disconnect /\ breaks < MaxBreaks /\ breaks' = breaks + 1
    /\ UNCHANGED <<clientVars, lockVars, pubVars, cursor, y_ack, issued, accepted, received>>

\* MQTTConnect takes lock_write_buf for the CONNECT packet.
YConnectOk ==
    /\ y_pc = "connect"
    /\ lock_write_buf = "none"
    /\ SendOk(Connect)
    /\ y_pc' = "connack"
    /\ UNCHANGED <<clientVars, lockVars, pubVars, cursor, y_ack, ghostVars>>

YConnectFail ==
    /\ y_pc = "connect"
    /\ lock_write_buf = "none"
    /\ IF sock = "up" THEN breaks < MaxBreaks /\ breaks' = breaks + 1
                      ELSE UNCHANGED breaks
    /\ Disconnect
    /\ y_pc' = "idle"
    /\ UNCHANGED <<clientVars, lockVars, pubVars, cursor, y_ack, issued, accepted, received>>

\* _mqtt_connect sets CONNECTED ...
YConnack ==
    /\ y_pc = "connack" /\ down # << >> /\ Head(down) = CONNACK
    /\ down' = Tail(down)
    /\ client_state' = "CONNECTED"
    /\ y_pc' = "connected"
    /\ UNCHANGED <<packet_id, list_pub_wait_ack, lockVars, pubVars, cursor, y_ack,
                   sock, up, desync, session, ghostVars>>

\* ... and iotx_mc_handle_reconnect sets it once more.
YConnected ==
    /\ y_pc = "connected"
    /\ client_state' = "CONNECTED"
    /\ y_pc' = "idle"
    /\ UNCHANGED <<packet_id, list_pub_wait_ack, lockVars, pubVars, cursor, y_ack, netVars, ghostVars>>

\* No CONNACK in time: the socket is closed and opened anew, and another CONNECT is sent,
\* unless this was the last try.  A CONNACK that refuses also closes the socket.
YConnackFail ==
    /\ y_pc = "connack"
    /\ \/ /\ sock = "up" /\ breaks < MaxBreaks /\ breaks' = breaks + 1
          /\ OpenSocket \/ Disconnect
       \/ /\ sock # "up" /\ down = << >>
          /\ \/ OpenSocket /\ UNCHANGED breaks
             \/ Disconnect /\ breaks < MaxBreaks /\ breaks' = breaks + 1
    /\ y_pc' \in {"connect", "idle"}
    /\ UNCHANGED <<clientVars, lockVars, pubVars, cursor, y_ack, issued, accepted, received>>

----------------------------------------------------------------------------
(* Time, network and broker.                                                *)

\* utils_time_spend(pub_start_time) passes twice the request timeout.
Elapse(i) ==
    /\ i \in DOMAIN list_pub_wait_ack
    /\ ~list_pub_wait_ack[i].late
    /\ list_pub_wait_ack' = [list_pub_wait_ack EXCEPT ![i].late = TRUE]
    /\ UNCHANGED <<client_state, packet_id, lockVars, pubVars, yieldVars, netVars, ghostVars>>

\* The peer is gone: what was under way to it is lost, and so is a suffix of
\* what was under way from it.
NetBreak ==
    /\ sock = "up" /\ breaks < MaxBreaks
    /\ sock' = "dead" /\ up' = << >>
    /\ \E n \in 0..Len(down) : down' = SubSeq(down, 1, n)
    /\ breaks' = breaks + 1
    /\ UNCHANGED <<clientVars, lockVars, pubVars, yieldVars, desync, session,
                   issued, accepted, received>>

BrokerConnect ==
    /\ sock = "up" /\ up # << >> /\ ~Head(up).torn /\ Len(down) < SOCK_BUF
    /\ Head(up).type = "CONNECT"
    /\ session' = TRUE
    /\ up' = Tail(up)
    /\ down' = Append(down, CONNACK)
    /\ UNCHANGED <<clientVars, lockVars, pubVars, yieldVars, sock, desync, ghostVars>>

BrokerPublish ==
    /\ sock = "up" /\ session /\ up # << >> /\ ~Head(up).torn /\ Len(down) < SOCK_BUF
    /\ Head(up).type = "PUBLISH"
    /\ up' = Tail(up)
    /\ IF Head(up).id = 0 THEN UNCHANGED <<down, received>>
         ELSE /\ down' = Append(down, Head(up).id)
              /\ received' = received \cup {Head(up).seq}
    /\ UNCHANGED <<clientVars, lockVars, pubVars, yieldVars, sock, desync, session,
                   issued, accepted, breaks>>

\* The missing bytes of a torn packet are taken from the packet after it: the
\* broker acknowledges an id whose message it never saw.
BrokerMerge ==
    /\ sock = "up" /\ session /\ Len(up) >= 2 /\ Head(up).torn /\ Len(down) < SOCK_BUF
    /\ up' = Tail(Tail(up))
    /\ down' = IF Head(up).id = 0 THEN down ELSE Append(down, Head(up).id)
    /\ UNCHANGED <<clientVars, lockVars, pubVars, yieldVars, sock, desync, session, ghostVars>>

\* A PUBLISH before the CONNECT, or bytes that are no packet: the broker hangs up.
BrokerHangUp ==
    /\ sock = "up" /\ up # << >>
    /\ Head(up).torn \/ (~session /\ Head(up).type = "PUBLISH")
    /\ sock' = "dead" /\ up' = << >>
    /\ UNCHANGED <<clientVars, lockVars, pubVars, yieldVars, down, desync, session, ghostVars>>

----------------------------------------------------------------------------
PubStep(p) ==
    \/ PubLockList(p) \/ PubPush(p) \/ PubReject(p)
    \/ PubSendOk(p) \/ PubSendFail(p) \/ PubNetErr(p)
    \/ \E q \in QosLevels : PubNextId(p, q)

YRead == YReadPacket \/ YReadTimeout \/ YReadError \/ YReadPartial \/ YReadJunk
YProc == YMask \/ YProcLock \/ YScanEnd \/ YScanRemove \/ YScanNormal
            \/ YResendOk \/ YResendFail \/ YResendErr
YKeepalive == YClose \/ YSetReconnecting \/ YReconnect \/ YConnectOk \/ YConnectFail
                \/ YConnack \/ YConnected \/ YConnackFail
YStep == YCycle \/ YRead \/ YProc \/ YKeepalive

Broker == BrokerConnect \/ BrokerPublish \/ BrokerMerge \/ BrokerHangUp

Tick == \E i \in 1..REPUB_NUM_MAX : Elapse(i)

Next ==
    \/ \E p \in Publishers : PubCheckState(p) \/ PubStep(p)
    \/ OtherRequest
    \/ YStep
    \/ Tick \/ NetBreak
    \/ Broker

Spec == Init /\ [][Next]_vars

(***************************************************************************)
(* A thread inside a library call goes on (it never waits for the          *)
(* application), the application keeps calling IOT_MQTT_Yield, the broker   *)
(* reads and answers, and time passes.  A yield thread whose peer is gone   *)
(* does not time out on every read for ever: the ping probes or the socket  *)
(* report it (MqttConnection).  A publisher that waits for lock_list_pub   *)
(* gets it in the end: _mqtt_cycle sleeps outside every lock between two   *)
(* walks over the list.                                                    *)
(***************************************************************************)
Fairness ==
    /\ \A p \in Publishers : WF_vars(PubStep(p)) /\ SF_vars(PubLockList(p))
    /\ WF_vars(YStep)
    /\ SF_vars(YReadError)
    /\ WF_vars(Broker)
    /\ \A i \in 1..REPUB_NUM_MAX : WF_vars(Elapse(i))

FairSpec == Spec /\ Fairness

----------------------------------------------------------------------------
(* Properties.                                                              *)

Seqs == {list_pub_wait_ack[i].seq : i \in DOMAIN list_pub_wait_ack}
Waiting(s) == \E i \in DOMAIN list_pub_wait_ack :
                 list_pub_wait_ack[i].seq = s /\ list_pub_wait_ack[i].node_state = "NORMAL"

\* The republish list never holds more than IOTX_MC_REPUB_NUM_MAX nodes, although
\* several threads test its length before they push (push_pubInfo_to's list_number
\* check and the push are under one hold of lock_list_pub).
WaitListBounded == Len(list_pub_wait_ack) <= REPUB_NUM_MAX

\* A QoS 1 message whose publish call returned success is not forgotten: the broker
\* has it, or it is in the republish list and not acknowledged, whatever breaks,
\* torn writes, stale acknowledgements and reconnects happen.  It needs that the packet
\* ids have not wrapped, and that junk read from a desynchronised stream is no PUBACK.
AtLeastOnce ==
    (issued <= PACKET_ID_MAX /\ JunkIds = {}) =>
        \A s \in accepted : s \in received \/ Waiting(s)

\* Two publishes that wait for their PUBACK have different, non-zero packet ids,
\* across the wrap of the counter, as long as fewer than IOTX_MC_PACKET_ID_MAX ids
\* were drawn between them (iotx_mc_get_next_packetid).
InFlightIdsDistinct ==
    \A i, j \in DOMAIN list_pub_wait_ack :
        LET m == list_pub_wait_ack[i]  n == list_pub_wait_ack[j] IN
        (m.seq < n.seq /\ n.seq - m.seq < PACKET_ID_MAX) => m.id # n.id /\ m.id > 0

(***************************************************************************)
(* MqttPublish implements AckedDelivery: what waits in the republish list  *)
(* unacknowledged is kept, what a publish returned success for is sent.    *)
(***************************************************************************)
AD == INSTANCE AckedDelivery WITH
        Messages <- 1..MaxIssued,
        kept <- {s \in 1..MaxIssued : Waiting(s)},
        sent <- accepted,
        delivered <- received

\* Every step of the client, the network and the broker is a step of the abstract
\* delivery or none: the broker receives only messages whose publish returned success, a
\* message leaves the republish list only when its call has failed or the broker has it,
\* and every accepted message is delivered once the network stops failing.
ReliableDelivery == AD!LiveSpec

\* A publish call that has drawn its id returns: the two locks it takes in turn are
\* never held for ever, by another publisher or by the walk of the yield thread over the
\* republish list.
PublishReturns == \A p \in Publishers : pc[p] = "ready" ~> pc[p] = "idle"

=============================================================================
