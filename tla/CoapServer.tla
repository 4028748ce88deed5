----------------------------- MODULE CoapServer -----------------------------
(***************************************************************************)
(* The local CoAP server (src/src/coap/server): the list of messages that  *)
(* wait for an answer, with its retransmissions and timeouts, the clients  *)
(* that observe a resource, and the two mutexes that protect them          *)
(* (CoAPMessage.c, CoAPObserve.c, CoAPServer.c, built with                 *)
(* COAP_SERV_MULTITHREAD).                                                 *)
(*                                                                         *)
(* The process "coap" is CoAPMessage_cycle: coap_yield_mutex lets one      *)
(* thread at a time run it.  Apps are the other threads that send, cancel  *)
(* and notify (device binding, local control).  The network loses,         *)
(* duplicates, delays and reorders: a message that was written once may be *)
(* answered at any time, any number of times or never.  Answers to         *)
(* requests are matched by token, which is unique; acknowledgements are    *)
(* matched by the message id alone, whoever sends them.                    *)
(***************************************************************************)
EXTENDS Integers, Sequences, FiniteSets, SequencesExt, LinkedList

CONSTANTS
    Apps,              \* threads that call the CoAP server
    Remotes,           \* addresses of peers
    MESSAGE_ID_MAX,    \* COAP_MAX_MESSAGE_ID, 65535 in the code
    RETRY_MAX,         \* COAP_MAX_RETRY_COUNT, 8 in the code
    SEND_MAX,          \* sendlist.maxcount, 16 in the code
    OBS_MAX,           \* obsserver.maxcount and obsclient.maxcount, 16 in the code
    MaxMessages,       \* bound: messages that may enter the send list
    MaxArrivals        \* bound: datagrams read

ASSUME AppsAssumption == {"coap", "none"} \cap Apps = {} /\ Remotes # {}
ASSUME IdAssumption == MESSAGE_ID_MAX \in Nat /\ MESSAGE_ID_MAX > 1
ASSUME CoapBoundsAssumption ==
    /\ RETRY_MAX \in Nat \ {0} /\ SEND_MAX \in Nat \ {0} /\ OBS_MAX \in Nat
    /\ MaxMessages \in Nat /\ MaxArrivals \in Nat

VARIABLES
    message_id,        \* ctx->message_id
    sendlist,          \* ctx->sendlist.list
    obsserver,         \* ctx->obsserver.list: who observes the resource
    obsclient,         \* ctx->obsclient.list: the requests whose resource we observe
    sendlist_mutex,    \* holder of ctx->sendlist.list_mutex
    obsserver_mutex,   \* holder of ctx->obsserver.list_mutex
    pc, cur,           \* where each application thread is, its message and its place in obsserver
    last,              \* g_notify_msg_id: the kept message of each application thread
    c_pc, c_node,      \* where the cycle is and the node it works on
    c_req,             \* the request that is being answered
    ip_addr,           \* whether the device had an address when it began to read
    g_coap_running,    \* the flag of the same name
    g_context,         \* TRUE until CoAPServer_deinit has freed the context
    draws, msgs,       \* ghost: ids drawn; every message, in the order of creation
    sent,              \* ghost: how often each message was written
    acks,              \* ghost: messages whose own peer's acknowledgement was read
    result,            \* ghost: how often each handler was told success, and timeout
    cancelled,         \* ghost: messages removed by a cancel
    arrivals           \* ghost: datagrams read

listVars == <<sendlist, obsserver, obsclient>>
mutexVars == <<sendlist_mutex, obsserver_mutex>>
appVars == <<pc, cur, last>>
cycleVars == <<c_pc, c_node, c_req, ip_addr>>
lifeVars == <<g_coap_running, g_context>>
ghostVars == <<sent, acks, result, cancelled, arrivals>>
idVars == <<message_id, draws, msgs>>
vars == <<idVars, listVars, mutexVars, appVars, cycleVars, lifeVars, ghostVars>>

Numbers == 1..MaxMessages
Ids == 1..MESSAGE_ID_MAX
\* "con": a confirmable request; "kept": a multicast request, kept until it is
\* cancelled; "note" and "non": a confirmable and a non-confirmable notification to
\* an observer; "rsp": a confirmable response.
Kinds == {"con", "kept", "note", "non", "rsp"}
Message == [id : Ids, kind : Kinds, remote : Remotes, draw : Nat]
Node == [n : Numbers, acked : BOOLEAN, retrans_count : 0..RETRY_MAX, late : BOOLEAN]
Observer == [remote : Remotes, con : BOOLEAN]
Nobody == [n |-> 0, acked |-> FALSE, retrans_count |-> 0, late |-> FALSE]
NoRequest == [remote |-> CHOOSE r \in Remotes : TRUE, con |-> FALSE]

TypeOK ==
    /\ message_id \in Ids /\ draws \in Nat
    /\ msgs \in Seq(Message) /\ Len(msgs) <= MaxMessages
    /\ sendlist \in Seq(Node) /\ Len(sendlist) <= SEND_MAX
    /\ obsserver \in Seq(Observer) /\ Len(obsserver) <= OBS_MAX
    /\ obsclient \subseteq Numbers /\ Cardinality(obsclient) <= OBS_MAX
    /\ sendlist_mutex \in {"coap", "none"}
    /\ obsserver_mutex \in Apps \cup {"none"}
    /\ pc \in [Apps -> {"idle", "add", "notify", "join"}]
    /\ cur \in [Apps -> [n : 0..MaxMessages, pos : Nat \ {0}]] /\ last \in [Apps -> 0..MaxMessages]
    /\ c_pc \in {"process", "deliver", "obscheck", "obsadd", "respond", "respadd",
                 "timeout", "expired", "call", "exited"}
    /\ c_node \in Node \cup {Nobody}
    /\ c_req \in Observer /\ ip_addr \in BOOLEAN
    /\ g_coap_running \in BOOLEAN /\ g_context \in BOOLEAN
    /\ sent \in [Numbers -> 0..RETRY_MAX + 1]
    /\ acks \subseteq Numbers /\ cancelled \subseteq Numbers
    /\ result \in [Numbers -> [ok : Nat, timeout : Nat]]
    /\ arrivals \in 0..MaxArrivals

\* A server whose ids are about to wrap: earlier messages have come and gone.
Init ==
    /\ message_id \in {MESSAGE_ID_MAX - 1, MESSAGE_ID_MAX} /\ draws = message_id - 1 /\ msgs = << >>
    /\ sendlist = << >> /\ obsserver = << >> /\ obsclient = {}
    /\ sendlist_mutex = "none" /\ obsserver_mutex = "none"
    /\ pc = [a \in Apps |-> "idle"] /\ cur = [a \in Apps |-> [n |-> 0, pos |-> 1]]
    /\ last = [a \in Apps |-> 0]
    /\ c_pc = "process" /\ c_node = Nobody /\ c_req = NoRequest /\ ip_addr \in BOOLEAN
    /\ g_coap_running = TRUE /\ g_context = TRUE
    /\ sent = [n \in Numbers |-> 0]
    /\ result = [n \in Numbers |-> [ok |-> 0, timeout |-> 0]]
    /\ acks = {} /\ cancelled = {} /\ arrivals = 0

----------------------------------------------------------------------------
(* Message ids and the send list.                                           *)

\* Mutant: the counter is read and not moved on.
NextMessageId_Sticks == message_id

\* CoAPMessageId_gen: at the maximum the counter becomes 1, and 1 is the id.
NewMessageId == IF message_id = MESSAGE_ID_MAX THEN 1 ELSE message_id
NextMessageId == IF message_id = MESSAGE_ID_MAX THEN 1 ELSE message_id + 1

Room == Len(msgs) < MaxMessages

\* CoAPMessage_init and the setters, for a message with an id of our own.
CreateMessage(kind, r) ==
    /\ Room
    /\ msgs' = Append(msgs, [id |-> NewMessageId, kind |-> kind, remote |-> r, draw |-> draws + 1])
    /\ message_id' = NextMessageId
    /\ draws' = draws + 1

Kept(n) == msgs[n].kind = "kept"
Confirmable(n) == msgs[n].kind \in {"con", "note", "rsp"}
IsResponse(n) == msgs[n].kind \in {"note", "rsp"}

NewNode(n) == [n |-> n, acked |-> FALSE, late |-> FALSE,
               retrans_count |-> IF Confirmable(n) THEN RETRY_MAX ELSE 0]

\* CoAPMessageList_add, with sendlist.list_mutex: the message was written before, and is
\* not stored when the list is full or memory is short.
ListAdd(n) ==
    /\ sendlist_mutex = "none"
    /\ \/ Len(sendlist) < SEND_MAX /\ sendlist' = Append(sendlist, NewNode(n))
       \/ UNCHANGED sendlist

PlacesOfId(id) == {i \in DOMAIN sendlist : msgs[sendlist[i].n].id = id}

\* CoAPMessage_cancel and CoAPMessageId_cancel remove every node with that id.
WithId(id) == {sendlist[i] : i \in PlacesOfId(id)}
CancelId(id) ==
    /\ sendlist_mutex = "none"
    /\ sendlist' = Without(sendlist, WithId(id))
    /\ cancelled' = cancelled \cup {x.n : x \in WithId(id)}

Stored(n) == \E i \in DOMAIN sendlist : sendlist[i].n = n
Place(n) == CHOOSE i \in DOMAIN sendlist : sendlist[i].n = n

----------------------------------------------------------------------------
(* The application threads.                                                 *)

\* The end of a send; one inside CoAPObsServer_notify goes on with the next observer.
AfterSend(a, pos) ==
    /\ pc' = [pc EXCEPT ![a] = IF obsserver_mutex = a THEN "notify" ELSE "idle"]
    /\ cur' = [cur EXCEPT ![a] = [n |-> 0, pos |-> pos]]

\* CoAPMessage_send up to the list: the id is drawn, and from the write on the peer may
\* answer.  A message that was not written (COAP_ERROR_WRITE_FAILED) is forgotten.
Transmit(a, kind, r, pos) ==
    LET n == Len(msgs) + 1 IN
    /\ CreateMessage(kind, r)
    /\ \E written \in BOOLEAN :
         /\ sent' = [sent EXCEPT ![n] = IF written THEN 1 ELSE 0]
         /\ IF written /\ kind # "non"
              THEN /\ pc' = [pc EXCEPT ![a] = "add"]
                   /\ cur' = [cur EXCEPT ![a] = [n |-> n, pos |-> pos]]
              ELSE AfterSend(a, pos)

\* A request: CoAPServerMultiCast_send keeps the node, alcs_sendmsg does not.  The
\* sender of a kept message has cancelled the one before (awss_cmp_coap_send).
AppSend(a, kind, r) ==
    /\ pc[a] = "idle" /\ g_context /\ g_coap_running
    /\ kind = "kept" => last[a] = 0
    /\ Transmit(a, kind, r, 1)
    /\ last' = IF kind = "kept" THEN [last EXCEPT ![a] = Len(msgs) + 1] ELSE last
    /\ UNCHANGED <<listVars, mutexVars, cycleVars, lifeVars, acks, result, cancelled, arrivals>>

AppAdd(a) ==
    /\ pc[a] = "add"
    /\ ListAdd(cur[a].n)
    /\ AfterSend(a, cur[a].pos)
    /\ UNCHANGED <<idVars, obsserver, obsclient, mutexVars, last, cycleVars, lifeVars, ghostVars>>

AppCancel(a) ==
    /\ pc[a] = "idle" /\ last[a] # 0 /\ g_context /\ g_coap_running
    /\ CancelId(msgs[last[a]].id)
    /\ last' = [last EXCEPT ![a] = 0]
    /\ UNCHANGED <<idVars, obsserver, obsclient, mutexVars, pc, cur, cycleVars, lifeVars,
                   sent, acks, result, arrivals>>

\* CoAPObsServer_notify holds obsserver.list_mutex over every send.
Notify(a) ==
    /\ pc[a] = "idle" /\ g_context /\ g_coap_running /\ Room
    /\ obsserver_mutex = "none"
    /\ obsserver_mutex' = a
    /\ pc' = [pc EXCEPT ![a] = "notify"]
    /\ UNCHANGED <<idVars, listVars, sendlist_mutex, cur, last, cycleVars, lifeVars, ghostVars>>

NotifyNext(a) ==
    /\ pc[a] = "notify" /\ cur[a].pos <= Len(obsserver)
    /\ LET o == obsserver[cur[a].pos] IN
         Transmit(a, IF o.con THEN "note" ELSE "non", o.remote, cur[a].pos + 1)
    /\ UNCHANGED <<listVars, mutexVars, last, cycleVars, lifeVars, acks, result, cancelled, arrivals>>

NotifyEnd(a) ==     \* ... or the bound on messages ends the walk
    /\ pc[a] = "notify" /\ (cur[a].pos > Len(obsserver) \/ ~Room)
    /\ obsserver_mutex' = "none"
    /\ pc' = [pc EXCEPT ![a] = "idle"]
    /\ cur' = [cur EXCEPT ![a].pos = 1]
    /\ UNCHANGED <<idVars, listVars, sendlist_mutex, last, cycleVars, lifeVars, ghostVars>>

\* CoAPServer_deinit asks the cycle to stop and waits for its semaphore.  That no other
\* thread is inside a call by then is the application's to see to.
Deinit(a) ==
    /\ g_context /\ g_coap_running
    /\ \A b \in Apps : pc[b] = "idle"
    /\ g_coap_running' = FALSE
    /\ pc' = [pc EXCEPT ![a] = "join"]
    /\ UNCHANGED <<idVars, listVars, mutexVars, cur, last, cycleVars, g_context, ghostVars>>

\* CoAPContext_free: no handler hears of the messages that still wait.
DeinitFree(a) ==
    /\ pc[a] = "join" /\ c_pc = "exited"
    /\ sendlist' = << >> /\ obsserver' = << >> /\ obsclient' = {}
    /\ g_context' = FALSE
    /\ pc' = [pc EXCEPT ![a] = "idle"]
    /\ UNCHANGED <<idVars, mutexVars, cur, last, cycleVars, g_coap_running, ghostVars>>

----------------------------------------------------------------------------
(* CoAPMessage_cycle: CoAPMessage_process reads until nothing comes any     *)
(* more, then Retansmit, then Check_timeout.                                *)

\* A datagram that finds nothing to change is left out.
Read == c_pc = "process" /\ arrivals < MaxArrivals /\ arrivals' = arrivals + 1

\* CoAPAckMessage_handle, for an acknowledgement or a reset: the first node with that id.
\* A response is done with; a request waits for its response and is not sent again (its
\* handler hears COAP_RECV_RESP_SUC, which is not an outcome yet).
RecvAck(n) ==
    /\ Read
    /\ n \in DOMAIN msgs /\ sent[n] > 0
    /\ sendlist_mutex = "none"
    /\ \E i \in PlacesOfId(msgs[n].id) :
         /\ i = Min(PlacesOfId(msgs[n].id))
         /\ IF IsResponse(sendlist[i].n)
              THEN /\ sendlist' = RemoveAt(sendlist, i)
                   /\ result' = [result EXCEPT ![sendlist[i].n].ok = @ + 1]
              ELSE /\ sendlist' = [sendlist EXCEPT ![i].acked = TRUE]
                   /\ UNCHANGED result
    /\ acks' = acks \cup {n}
    /\ UNCHANGED <<idVars, obsserver, obsclient, mutexVars, appVars, cycleVars, lifeVars,
                   sent, cancelled>>

\* Mutant: the node stays in the list until its handler has returned.
Unlinked_Late(n) == sendlist

\* CoAPRespMessage_handle takes the node out of the list unless it is to be kept.
Unlinked(n) == IF Kept(n) THEN sendlist ELSE RemoveAt(sendlist, Place(n))

\* CoAPObsClient_add for the first response, called with sendlist.list_mutex: an Observe
\* option starts an observation, a response without one ends it.
ObsClientAdd(n, observe) ==
    \/ ~observe /\ obsclient' = obsclient \ {n}
    \/ observe /\ Cardinality(obsclient) < OBS_MAX /\ obsclient' = obsclient \cup {n}
    \/ observe /\ UNCHANGED obsclient       \* full, or no memory

\* Mutant: a later response is handed on whether the resource is observed or not.
ObsClientLater_Any(n, observe) ==
    /\ observe \/ n \in obsclient
    /\ obsclient' = IF observe THEN obsclient ELSE obsclient \ {n}
    /\ result' = IF observe THEN [result EXCEPT ![n].ok = @ + 1] ELSE result

\* CoAPObsClient_add without a send node, for a response that comes later: with an Observe
\* option it is a notification (or a duplicate of the first response), and the handler of
\* the request hears COAP_REQUEST_SUCCESS once more; without one it ends the observation.
ObsClientLater(n, observe) ==
    /\ n \in obsclient
    /\ obsclient' = IF observe THEN obsclient ELSE obsclient \ {n}
    /\ result' = IF observe THEN [result EXCEPT ![n].ok = @ + 1] ELSE result

RecvResponse(n, observe) ==
    /\ Read
    /\ n \in DOMAIN msgs /\ sent[n] > 0 /\ msgs[n].kind \in {"con", "kept"}
    /\ sendlist_mutex = "none"
    /\ \/ /\ Stored(n)
          /\ c_node' = sendlist[Place(n)]
          /\ sendlist' = Unlinked(n)
          /\ ObsClientAdd(n, observe)
          /\ c_pc' = "deliver"
          /\ UNCHANGED result
       \/ /\ ~Stored(n)
          /\ ObsClientLater(n, observe)
          /\ UNCHANGED <<c_node, sendlist, c_pc>>
    /\ UNCHANGED <<idVars, obsserver, mutexVars, appVars, c_req, ip_addr, lifeVars,
                   sent, acks, cancelled>>

\* The handler runs without the mutex; then node->keep is read and the node freed.
Deliver ==
    /\ c_pc = "deliver"
    /\ result' = [result EXCEPT ![c_node.n].ok = @ + 1]
    /\ c_node' = Nobody
    /\ c_pc' = "process"
    /\ UNCHANGED <<idVars, listVars, mutexVars, appVars, c_req, ip_addr, lifeVars,
                   sent, acks, cancelled, arrivals>>

\* CoAPRequestMessage_handle calls the resource, which answers with CoAPServerResp_send.
RecvRequest(r, con, observe) ==
    /\ Read
    /\ con => observe           \* the type of the request matters to an observer only
    /\ c_req' = [remote |-> r, con |-> con]
    /\ c_pc' = IF observe THEN "obscheck" ELSE "respond"
    /\ UNCHANGED <<idVars, listVars, mutexVars, appVars, c_node, ip_addr, lifeVars,
                   sent, acks, result, cancelled>>

\* CoAPObsServer_add looks for the observer and adds it in two holds of the mutex.
ObsCheck ==
    /\ c_pc = "obscheck"
    /\ obsserver_mutex = "none"
    /\ c_pc' = IF \E i \in DOMAIN obsserver : obsserver[i].remote = c_req.remote
                 THEN "respond" ELSE "obsadd"
    /\ UNCHANGED <<idVars, listVars, mutexVars, appVars, c_node, c_req, ip_addr, lifeVars, ghostVars>>

ObsAdd ==
    /\ c_pc = "obsadd"
    /\ obsserver_mutex = "none"
    /\ \/ Len(obsserver) < OBS_MAX /\ obsserver' = Append(obsserver, c_req)
       \/ UNCHANGED obsserver          \* full, or no memory
    /\ c_pc' = "respond"
    /\ UNCHANGED <<idVars, sendlist, obsclient, mutexVars, appVars, c_node, c_req, ip_addr, lifeVars, ghostVars>>

\* A confirmable response is stored, with the id of the request, which is an id of the
\* peer's; any other one, and one that was not written, leaves nothing behind.
Respond ==
    /\ c_pc = "respond"
    /\ \/ /\ Room
          /\ \E id \in Ids :
                msgs' = Append(msgs, [id |-> id, kind |-> "rsp", remote |-> c_req.remote, draw |-> 0])
          /\ sent' = [sent EXCEPT ![Len(msgs) + 1] = 1]
          /\ c_node' = [Nobody EXCEPT !.n = Len(msgs) + 1]
          /\ c_pc' = "respadd"
       \/ c_pc' = "process" /\ UNCHANGED <<msgs, sent, c_node>>
    /\ c_req' = NoRequest
    /\ UNCHANGED <<message_id, draws, listVars, mutexVars, appVars, ip_addr, lifeVars,
                   acks, result, cancelled, arrivals>>

RespAdd ==
    /\ c_pc = "respadd"
    /\ ListAdd(c_node.n)
    /\ c_node' = Nobody
    /\ c_pc' = "process"
    /\ UNCHANGED <<idVars, obsserver, obsclient, mutexVars, appVars, c_req, ip_addr, lifeVars, ghostVars>>

\* Retansmit: every node whose time is up counts down; it is written again unless it
\* was acknowledged.
\* Mutant: an acknowledged message is no longer counted down, and so never given up.
Due_NotAcked(x) == x.late /\ x.retrans_count > 0 /\ ~x.acked

\* Mutant: the counter of retransmissions is not moved.
CountDown_Never(x) == [x EXCEPT !.late = FALSE]

\* Mutant: a message is given up when its time is up, whatever its counter says.
Expired_Impatient(x) == ~Kept(x.n) /\ x.late

Due(x) == x.late /\ x.retrans_count > 0
Rewritten(x) == Due(x) /\ ~x.acked
CountDown(x) == IF Due(x) THEN [x EXCEPT !.retrans_count = @ - 1, !.late = FALSE] ELSE x

\* CoAPNetwork_read comes back empty, and Retansmit follows.  The empty address that the
\* read leaves is also the one HAL_Wifi_Get_IP leaves when there is none: then the loop
\* takes it for a datagram of its own and goes on.
Retansmit ==
    /\ c_pc = "process" /\ ip_addr
    /\ sendlist_mutex = "none"
    /\ sendlist' = [i \in DOMAIN sendlist |-> CountDown(sendlist[i])]
    /\ sent' = [n \in Numbers |->
                  IF Stored(n) /\ Rewritten(sendlist[Place(n)]) THEN sent[n] + 1 ELSE sent[n]]
    /\ c_pc' = "timeout"
    /\ UNCHANGED <<idVars, obsserver, obsclient, mutexVars, appVars, c_node, c_req, ip_addr, lifeVars,
                   acks, result, cancelled, arrivals>>

\* Check_timeout unlinks one node that has run out at a time ...
Expired(x) == ~Kept(x.n) /\ x.retrans_count = 0 /\ x.late
ExpiredAt == {i \in DOMAIN sendlist : Expired(sendlist[i])}

CheckTimeout ==
    /\ c_pc = "timeout" /\ ExpiredAt # {}
    /\ sendlist_mutex = "none"
    /\ sendlist_mutex' = "coap"
    /\ c_node' = sendlist[Min(ExpiredAt)]
    /\ sendlist' = RemoveAt(sendlist, Min(ExpiredAt))
    /\ c_pc' = "expired"
    /\ UNCHANGED <<idVars, obsserver, obsclient, obsserver_mutex, appVars, c_req, ip_addr, lifeVars, ghostVars>>

\* ... forgets the observers at its address (CoapObsServerAll_delete, which takes the
\* other mutex with this one held) ...
ForgetObservers ==
    /\ c_pc = "expired"
    /\ obsserver_mutex = "none"
    /\ obsserver' = Without(obsserver, {o \in ToSet(obsserver) : o.remote = msgs[c_node.n].remote})
    /\ sendlist_mutex' = "none"
    /\ c_pc' = "call"
    /\ UNCHANGED <<idVars, sendlist, obsclient, obsserver_mutex, appVars, c_node, c_req,
                   ip_addr, lifeVars, ghostVars>>

\* ... and tells the handler, without the mutex.
CallTimeout ==
    /\ c_pc = "call"
    /\ result' = [result EXCEPT ![c_node.n].timeout = @ + 1]
    /\ c_node' = Nobody
    /\ c_pc' = "timeout"
    /\ UNCHANGED <<idVars, listVars, mutexVars, appVars, c_req, ip_addr, lifeVars,
                   sent, acks, cancelled, arrivals>>

\* The end of the cycle: CoAPServer_yield goes on while g_coap_running is set.
CycleEnd ==
    /\ c_pc = "timeout" /\ ExpiredAt = {}
    /\ sendlist_mutex = "none"
    /\ c_pc' = IF g_coap_running THEN "process" ELSE "exited"
    /\ ip_addr' \in BOOLEAN
    /\ UNCHANGED <<idVars, listVars, mutexVars, appVars, c_node, c_req, lifeVars, ghostVars>>

\* HAL_UptimeMs passes node->timeout.
Elapse(n) ==
    /\ Stored(n) /\ ~sendlist[Place(n)].late /\ ~Kept(n)
    /\ sendlist' = [sendlist EXCEPT ![Place(n)].late = TRUE]
    /\ UNCHANGED <<idVars, obsserver, obsclient, mutexVars, appVars, cycleVars, lifeVars, ghostVars>>

----------------------------------------------------------------------------
AppStep(a) ==
    AppAdd(a) \/ NotifyNext(a) \/ NotifyEnd(a) \/ DeinitFree(a)

Receive ==
    \/ \E n \in Numbers : RecvAck(n)
    \/ \E n \in Numbers, observe \in BOOLEAN : RecvResponse(n, observe)
    \/ \E r \in Remotes, con, observe \in BOOLEAN : RecvRequest(r, con, observe)

CycleStep ==
    \/ Deliver \/ ObsCheck \/ ObsAdd \/ Respond \/ RespAdd
    \/ Retansmit \/ CheckTimeout \/ ForgetObservers \/ CallTimeout \/ CycleEnd

Next ==
    \/ \E a \in Apps, r \in Remotes, kind \in {"con", "kept"} : AppSend(a, kind, r)
    \/ \E a \in Apps : AppCancel(a) \/ Notify(a) \/ Deinit(a) \/ AppStep(a)
    \/ Receive \/ CycleStep
    \/ \E n \in Numbers : Elapse(n)

Spec == Init /\ [][Next]_vars

(***************************************************************************)
(* The CoAP thread keeps cycling (a read waits 50 ms at most, and only     *)
(* finitely many datagrams come in: MaxArrivals), a thread inside a call   *)
(* goes on, and time passes.  A thread that wants a mutex which is free    *)
(* again and again gets it (strong fairness): CoAPObsServer_notify gives   *)
(* obsserver.list_mutex up after a walk, and the cycle gives               *)
(* sendlist.list_mutex up for every wait for the network.                  *)
(***************************************************************************)
Fairness ==
    /\ SF_vars(CycleStep)
    /\ \A a \in Apps : WF_vars(AppStep(a)) /\ SF_vars(AppAdd(a))
    /\ \A n \in Numbers : WF_vars(Elapse(n))

FairSpec == Spec /\ Fairness

----------------------------------------------------------------------------
(* Properties.                                                              *)

\* The handler of a message that is not kept hears of its end once: the response, its
\* duplicates, an acknowledgement and the timeout race, and the node is unlinked under the
\* mutex before any of them is reported (CoAPRespMessage_handle, Check_timeout).  It hears
\* more only while its resource is observed, and then nothing but COAP_REQUEST_SUCCESS
\* (CoAPObsClient_add, which takes a duplicate of the first response for a notification).
OneOutcome ==
    [][\A n \in DOMAIN msgs :
         ~Kept(n) /\ result'[n] # result[n] =>
            \/ result[n] = [ok |-> 0, timeout |-> 0]
            \/ n \in obsclient /\ result'[n].timeout = 0]_vars

\* COAP_RECV_RESP_TIMEOUT means that the peer was tried COAP_MAX_RETRY_COUNT times more, or
\* has acknowledged the message; the exception is a message whose id another one has too
\* (an id drawn twice at the wrap, or the id of a peer's request), whose acknowledgement is
\* taken for its own, because CoAPAckMessage_handle compares nothing but the id.
TimeoutMeansTried ==
    \A n \in DOMAIN msgs :
        result[n].timeout > 0 =>
            \/ sent[n] = RETRY_MAX + 1
            \/ n \in acks
            \/ \E m \in acks : msgs[m].id = msgs[n].id

\* Two messages whose ids CoAPMessageId_gen drew have the same id only when the counter
\* has been all the way round, or when they are the two neighbours that both get id 1 at
\* the wrap.
IdsRepeatOnlyAtWrap ==
    \A i, j \in DOMAIN msgs :
        LET m == msgs[i]  k == msgs[j] IN
        (m.draw > 0 /\ m.draw < k.draw /\ m.id = k.id) =>
            \/ k.draw - m.draw >= MESSAGE_ID_MAX - 1
            \/ k.draw = m.draw + 1 /\ m.id = 1

\* The node that the cycle goes on using after it has released the mutex is freed by
\* nobody else, unless it is a kept node: that one stays linked, and a cancel by another
\* thread frees it while its handler runs (node->keep is then read from freed memory).
OnlyKeptNodesDangle ==
    c_pc \in {"deliver", "expired", "call"} /\ ~Kept(c_node.n) =>
        ~Stored(c_node.n) /\ c_node.n \notin cancelled

\* CoAPObsServer_notify waits for sendlist.list_mutex with obsserver.list_mutex held while
\* Check_timeout waits for it the other way round.
Inverted == c_pc = "expired" /\ \E a \in Apps : obsserver_mutex = a /\ pc[a] = "add"

\* CoAPMessage_process began to read while the device had no address.
Deaf == c_pc = "process" /\ ~ip_addr

\* Every message that is stored and not kept comes to an end: it leaves the list, answered,
\* acknowledged, timed out, cancelled or freed with the context.  There are two ways to get
\* stuck, and no other: the two mutexes taken in opposite orders by CoAPObsServer_notify and
\* Check_timeout, and a read loop that was entered without an address and never ends.
Resolved ==
    \A n \in Numbers : (Stored(n) /\ ~Kept(n)) ~> (~Stored(n) \/ Inverted \/ Deaf)

=============================================================================
