--------------------------- MODULE MqttSubscribe ---------------------------
(***************************************************************************)
(* Subscriptions of the MQTT client: IOT_MQTT_Subscribe,                   *)
(* IOT_MQTT_Subscribe_Sync and IOT_MQTT_Unsubscribe called by application  *)
(* threads and from inside callbacks, the list of handlers, the list of    *)
(* synchronous subscriptions that wait for a SUBACK, and the thread that   *)
(* holds lock_yield, reads packets and runs the callbacks.                 *)
(*                                                                         *)
(* A thread that waits in IOT_MQTT_Subscribe_Sync calls wrapper_mqtt_yield  *)
(* itself, so any thread may be the one that reads.  lock_generic is held   *)
(* over straight-line code only: one action for each hold.  A request       *)
(* reaches the broker, or is lost, in the step that sends it; how late the  *)
(* answer comes is how often a read times out before it.                   *)
(***************************************************************************)
EXTENDS Integers, Sequences, SequencesExt, MqttTopic, LinkedList

CONSTANTS
    Threads,           \* application threads
    Filters,           \* topic filters they use, as sequences of characters
    Names,             \* topic names the broker publishes on
    Handles,           \* callback functions with their contexts
    SyncInEvents,      \* TRUE: the handler of connection events subscribes synchronously
    Kinds,             \* the calls the application makes: "sub", "sync", "unsub"
    MaxCalls,          \* bound: subscribe and unsubscribe calls
    MaxFaults,         \* bound: refusals of the broker, lost connections, lack of memory
    MaxMessages        \* bound: messages the broker publishes

ASSUME ThreadsAssumption == {"cb", "none"} \cap Threads = {}
ASSUME FiltersAssumption == \A f \in Filters \cup Names : f \in Seq(STRING)
ASSUME KindsAssumption == SyncInEvents \in BOOLEAN /\ Kinds \subseteq {"sub", "sync", "unsub"}
ASSUME InhabitedAssumption == Filters # {} /\ Names # {} /\ Handles # {}
ASSUME SubscribeBoundsAssumption == {MaxCalls, MaxFaults, MaxMessages} \subseteq Nat

Callers == Threads \cup {"cb"}       \* "cb": the code of the running callback

VARIABLES
    client_state, packet_id,
    list_sub_handle,     \* c->list_sub_handle
    list_sub_sync_ack,   \* c->list_sub_sync_ack
    in_yield_cb,         \* _in_yield_cb, a global
    pc, call,            \* where each caller is, and what it asked for
    lock_yield,          \* holder of c->lock_yield
    y_pc, y_name, y_node, y_matched,  \* the reading thread: its step, the topic it delivers, its place in the list
    subs, down,          \* the broker's subscriptions, and the packets not yet read
    granted, returned,   \* ghosts: ids acknowledged with success, results of the calls
    y_start, y_called,   \* ghosts: the list when the delivery began, the nodes called
    y_removed,           \* ghost: handlers removed since then
    calls, faults, messages

clientVars == <<client_state, packet_id>>
callVars == <<pc, call>>
yieldVars == <<lock_yield, y_pc, y_name, y_node, y_matched, in_yield_cb>>
brokerVars == <<subs, down>>
walkVars == <<y_start, y_called, y_removed>>
boundVars == <<calls, faults, messages>>
vars == <<clientVars, list_sub_handle, list_sub_sync_ack, callVars, yieldVars, brokerVars,
          granted, returned, walkVars, boundVars>>

Handler == [filter : Filters, handle : Handles, id : Nat]
SyncNode == [packet_id : Nat, ack_type : {"UNDEF", "SUCCESS", "NACK"}]
Call == [filter : Filters, handle : Handles, sync : BOOLEAN, id : Nat, ret : Int, subed : BOOLEAN]
Result == [early : BOOLEAN, acked : BOOLEAN]
Packet == [type : {"SUBACK"}, id : Nat, ok : BOOLEAN] \cup [type : {"UNSUBACK"}]
             \cup [type : {"PUBLISH"}, name : Names]
Label == {"idle", "sub", "send", "neterr", "add", "subret", "top", "node", "yield", "yielding",
          "check", "expired", "unsub", "unsend", "unneterr", "remove"}

TypeOK ==
    /\ client_state \in {"CONNECTED", "DISCONNECTED", "RECONNECTING"}
    /\ packet_id \in Nat
    /\ list_sub_handle \in Seq(Handler)
    /\ list_sub_sync_ack \in Seq(SyncNode)
    /\ in_yield_cb \in BOOLEAN
    /\ pc \in [Callers -> Label]
    /\ call \in [Callers -> Call]
    /\ lock_yield \in Threads \cup {"none"}
    /\ y_pc \in {"none", "read", "walk", "callback", "disconnect", "reconnect", "after"}
    /\ y_name \in Names
    /\ y_node \in Nat /\ y_matched \in BOOLEAN
    /\ subs \subseteq Filters
    /\ down \in Seq(Packet)
    /\ granted \subseteq Nat /\ returned \subseteq Result
    /\ y_start \in Seq(Handler) /\ y_called \in Seq(Handler) /\ y_removed \subseteq Handler
    /\ calls \in Nat /\ faults \in Nat /\ messages \in Nat

NoCall == [filter |-> CHOOSE f \in Filters : TRUE, handle |-> CHOOSE h \in Handles : TRUE,
           sync |-> FALSE, id |-> 0, ret |-> -1, subed |-> FALSE]

Init ==
    /\ client_state = "CONNECTED" /\ packet_id = 0
    /\ list_sub_handle = << >> /\ list_sub_sync_ack = << >>
    /\ in_yield_cb = FALSE
    /\ pc = [c \in Callers |-> "idle"] /\ call = [c \in Callers |-> NoCall]
    /\ lock_yield = "none" /\ y_pc = "none" /\ y_node = 0 /\ y_matched = FALSE
    /\ y_name = CHOOSE n \in Names : TRUE
    /\ subs = {} /\ down = << >>
    /\ granted = {} /\ returned = {}
    /\ y_start = << >> /\ y_called = << >> /\ y_removed = {}
    /\ calls = 0 /\ faults = 0 /\ messages = 0

----------------------------------------------------------------------------
(* wrapper_mqtt_subscribe and wrapper_mqtt_subscribe_sync, caller c.        *)

\* An application thread may call at any time, a callback while it runs.
MayCall(c) == pc[c] = "idle" /\ (c = "cb" => y_pc \in {"callback", "disconnect", "reconnect"})

Goto(c, l) == pc' = [pc EXCEPT ![c] = l]

\* A call returns.  Of the results, those of successful synchronous calls are kept: whether
\* the call returned before it waited, and whether the broker has granted it.
Return(c, ret, early) ==
    /\ Goto(c, "idle")
    /\ call' = [call EXCEPT ![c] = NoCall]
    /\ returned' = IF call[c].sync /\ ret >= 0
                     THEN returned \cup {[early |-> early, acked |-> ret \in granted]}
                     ELSE returned

Subscribe(c, f, h, sync) ==
    /\ MayCall(c) /\ calls < MaxCalls /\ (IF sync THEN "sync" ELSE "sub") \in Kinds
    /\ c = "cb" /\ sync => y_pc = "callback" \/ SyncInEvents
    /\ calls' = calls + 1
    /\ call' = [call EXCEPT ![c] = [filter |-> f, handle |-> h, sync |-> sync, id |-> 0,
                                    ret |-> -1, subed |-> FALSE]]
    /\ Goto(c, "sub")
    /\ UNCHANGED <<clientVars, list_sub_handle, list_sub_sync_ack, yieldVars, brokerVars,
                   granted, returned, walkVars, faults, messages>>

\* The id is drawn before the state and the filter are looked at.
SubCheck(c) ==
    /\ pc[c] = "sub"
    /\ packet_id' = packet_id + 1
    /\ IF client_state = "CONNECTED" /\ check_topic(call[c].filter, "FILTER")
         THEN /\ call' = [call EXCEPT ![c].id = packet_id + 1]
              /\ Goto(c, "send")
         ELSE /\ Goto(c, "subret") /\ UNCHANGED call
    /\ UNCHANGED <<client_state, list_sub_handle, list_sub_sync_ack, yieldVars, brokerVars,
                   granted, returned, walkVars, boundVars>>

Fault == faults < MaxFaults /\ faults' = faults + 1

\* MQTTUnsubscribe keeps lock_write_buf from its send to the end.
WriteBufFree == \A c \in Callers : pc[c] # "remove"

\* MQTTSubscribe: the packet goes out before the handler is in the list.
SubSendOk(c, nack) ==
    /\ pc[c] = "send" /\ WriteBufFree
    /\ client_state = "CONNECTED"
    /\ IF nack THEN Fault ELSE UNCHANGED faults
    /\ subs' = IF nack THEN subs ELSE subs \cup {call[c].filter}
    /\ down' = Append(down, [type |-> "SUBACK", id |-> call[c].id, ok |-> ~nack])
    /\ granted' = IF nack THEN granted ELSE granted \cup {call[c].id}
    /\ Goto(c, "add")
    /\ UNCHANGED <<clientVars, list_sub_handle, list_sub_sync_ack, call, yieldVars,
                   returned, walkVars, calls, messages>>

\* No memory for the handler or the packet: an error without a change of state.
SubNoMemory(c) ==
    /\ pc[c] = "send" /\ Fault
    /\ Goto(c, "subret")
    /\ UNCHANGED <<clientVars, list_sub_handle, list_sub_sync_ack, call, yieldVars, brokerVars,
                   granted, returned, walkVars, calls, messages>>

\* The connection is lost: with an error, or after the bytes were taken.
Break == Fault /\ down' = << >>

\* The state is set after the locks were given back: the thread that yields may have reconnected
\* in between.  Bound: only a send that breaks the connection sets the state that late; two
\* threads could otherwise undo each other's reconnects without end.
SubSendFail(c) ==
    /\ pc[c] = "send" /\ WriteBufFree
    /\ \/ /\ client_state # "CONNECTED"
          /\ client_state' = "DISCONNECTED"
          /\ Goto(c, "subret")
          /\ UNCHANGED <<faults, down>>
       \/ /\ Break
          /\ Goto(c, "neterr")
          /\ UNCHANGED client_state
    /\ UNCHANGED <<packet_id, list_sub_handle, list_sub_sync_ack, call, yieldVars, subs,
                   granted, returned, walkVars, calls, messages>>

SubNetErr(c) ==
    /\ pc[c] = "neterr"
    /\ client_state' = "DISCONNECTED"
    /\ Goto(c, "subret")
    /\ UNCHANGED <<packet_id, list_sub_handle, list_sub_sync_ack, call, yieldVars, brokerVars,
                   granted, returned, walkVars, boundVars>>

SubSendLost(c) ==
    /\ pc[c] = "send" /\ WriteBufFree
    /\ client_state = "CONNECTED" /\ Break
    /\ Goto(c, "add")
    /\ UNCHANGED <<clientVars, list_sub_handle, list_sub_sync_ack, call, yieldVars, subs,
                   granted, returned, walkVars, calls, messages>>

Identical_ById(n, cl) == n.filter = cl.filter /\ n.id = cl.id   \* Mutant: compares the request.

\* iotx_mc_check_handle_is_identical
Identical(n, cl) == n.filter = cl.filter /\ n.handle = cl.handle

SubAdd(c) ==
    /\ pc[c] = "add"
    /\ list_sub_handle' =
          IF \E i \in DOMAIN list_sub_handle : Identical(list_sub_handle[i], call[c])
            THEN list_sub_handle
            ELSE Append(list_sub_handle, [filter |-> call[c].filter, handle |-> call[c].handle,
                                          id |-> call[c].id])
    /\ call' = [call EXCEPT ![c].ret = call[c].id]
    /\ Goto(c, "subret")
    /\ UNCHANGED <<clientVars, list_sub_sync_ack, yieldVars, brokerVars, granted, returned,
                   walkVars, boundVars>>

MustNotWait_Never(c) == FALSE        \* Mutant: the flag is not looked at.

\* _is_in_yield_cb(): true for every thread while any callback runs.
MustNotWait(c) == in_yield_cb

SubReturn(c) ==
    /\ pc[c] = "subret"
    /\ IF ~call[c].sync \/ MustNotWait(c)
         THEN Return(c, call[c].ret, TRUE)
         ELSE Goto(c, "node") /\ UNCHANGED <<call, returned>>
    /\ UNCHANGED <<clientVars, list_sub_handle, list_sub_sync_ack, yieldVars, brokerVars,
                   granted, walkVars, boundVars>>

NeedsNode_AnyRet(cl) == ~cl.subed       \* Mutant: the result of the subscription is not tested.

NeedsNode(cl) == cl.ret >= 0 /\ ~cl.subed

\* The wait node is added after the SUBSCRIBE went out; without memory it is tried
\* again in the next turn.
SyncNodeAdd(c) ==
    /\ pc[c] = "node"
    /\ \/ /\ NeedsNode(call[c])
          /\ list_sub_sync_ack' = Append(list_sub_sync_ack,
                [packet_id |-> call[c].ret, ack_type |-> "UNDEF"])
          /\ call' = [call EXCEPT ![c].subed = TRUE]
       \/ UNCHANGED <<list_sub_sync_ack, call>>
    /\ Goto(c, "yield")
    /\ UNCHANGED <<clientVars, list_sub_handle, yieldVars, brokerVars, granted, returned,
                   walkVars, boundVars>>

\* After the yield only the head of the list is looked at.
HeadIs(id) == list_sub_sync_ack # << >> /\ Head(list_sub_sync_ack).packet_id = id

SyncCheckSuccess(c) ==
    /\ pc[c] = "check"
    /\ HeadIs(call[c].ret) /\ Head(list_sub_sync_ack).ack_type = "SUCCESS"
    /\ list_sub_sync_ack' = Tail(list_sub_sync_ack)
    /\ Return(c, call[c].ret, FALSE)
    /\ UNCHANGED <<clientVars, list_sub_handle, yieldVars, brokerVars, granted,
                   walkVars, boundVars>>

\* Mutant: the timer starts again with every turn.
TimerOutcomes_Restarted(c) == {"top"}

\* utils_time_is_expired(&timer): another turn, or the end.
TimerOutcomes(c) == {"top", "expired"}

\* A NACK: the next turn subscribes again.  Then the timer decides about a next turn.
SyncCheckAgain(c) ==
    /\ pc[c] = "check"
    /\ ~(HeadIs(call[c].ret) /\ Head(list_sub_sync_ack).ack_type = "SUCCESS")
    /\ IF HeadIs(call[c].ret) /\ Head(list_sub_sync_ack).ack_type = "NACK"
         THEN /\ list_sub_sync_ack' = Tail(list_sub_sync_ack)
              /\ call' = [call EXCEPT ![c].ret = -1, ![c].subed = FALSE]
         ELSE UNCHANGED <<list_sub_sync_ack, call>>
    /\ \E l \in TimerOutcomes(c) : Goto(c, l)
    /\ UNCHANGED <<clientVars, list_sub_handle, yieldVars, brokerVars, granted, returned,
                   walkVars, boundVars>>

SyncTop(c) ==
    /\ pc[c] = "top"
    /\ Goto(c, IF call[c].ret < 0 THEN "sub" ELSE "node")
    /\ UNCHANGED <<clientVars, list_sub_handle, list_sub_sync_ack, call, yieldVars, brokerVars,
                   granted, returned, walkVars, boundVars>>

Forget_Nothing(list, id) == list      \* Mutant: the node of a timed out call stays.

Forget(list, id) == Without(list, {n \in ToSet(list) : n.packet_id = id})

SyncExpired(c) ==
    /\ pc[c] = "expired"
    /\ list_sub_sync_ack' = Forget(list_sub_sync_ack, call[c].ret)
    /\ Return(c, -1, FALSE)
    /\ UNCHANGED <<clientVars, list_sub_handle, yieldVars, brokerVars, granted,
                   walkVars, boundVars>>

----------------------------------------------------------------------------
(* wrapper_mqtt_unsubscribe.                                                *)

Unsubscribe(c, f) ==
    /\ MayCall(c) /\ calls < MaxCalls /\ "unsub" \in Kinds
    /\ calls' = calls + 1
    /\ call' = [call EXCEPT ![c] = [NoCall EXCEPT !.filter = f]]
    /\ Goto(c, "unsub")
    /\ UNCHANGED <<clientVars, list_sub_handle, list_sub_sync_ack, yieldVars, brokerVars,
                   granted, returned, walkVars, faults, messages>>

UnsubCheck(c) ==
    /\ pc[c] = "unsub"
    /\ packet_id' = packet_id + 1
    /\ IF client_state = "CONNECTED" /\ check_topic(call[c].filter, "FILTER")
         THEN Goto(c, "unsend") /\ UNCHANGED <<call, returned>>
         ELSE Return(c, -1, TRUE)
    /\ UNCHANGED <<client_state, list_sub_handle, list_sub_sync_ack, yieldVars, brokerVars,
                   granted, walkVars, boundVars>>

UnsubSendOk(c) ==
    /\ pc[c] = "unsend" /\ WriteBufFree
    /\ client_state = "CONNECTED"
    /\ subs' = subs \ {call[c].filter}
    /\ down' = Append(down, [type |-> "UNSUBACK"])
    /\ Goto(c, "remove")
    /\ UNCHANGED <<clientVars, list_sub_handle, list_sub_sync_ack, call, yieldVars, granted,
                   returned, walkVars, boundVars>>

UnsubSendFail(c) ==
    /\ pc[c] = "unsend" /\ WriteBufFree
    /\ \/ /\ client_state # "CONNECTED"
          /\ client_state' = "DISCONNECTED"
          /\ Return(c, -1, TRUE)
          /\ UNCHANGED <<faults, down>>
       \/ /\ Break
          /\ Goto(c, "unneterr")
          /\ UNCHANGED <<client_state, call, returned>>
    /\ UNCHANGED <<packet_id, list_sub_handle, list_sub_sync_ack, yieldVars, subs, granted,
                   walkVars, calls, messages>>

UnsubNetErr(c) ==
    /\ pc[c] = "unneterr"
    /\ client_state' = "DISCONNECTED"
    /\ Return(c, -1, TRUE)
    /\ UNCHANGED <<packet_id, list_sub_handle, list_sub_sync_ack, yieldVars, brokerVars,
                   granted, walkVars, boundVars>>

UnsubNoMemory(c) ==
    /\ pc[c] = "unsend" /\ Fault
    /\ Return(c, -1, TRUE)
    /\ UNCHANGED <<clientVars, list_sub_handle, list_sub_sync_ack, yieldVars, brokerVars, granted,
                   walkVars, calls, messages>>

\* The handlers that an unsubscription of filter f removes.
RemovedBy(f) == {n \in ToSet(list_sub_handle) : Removes(n.filter, f)}

UnsubRemove(c) ==
    /\ pc[c] = "remove"
    /\ list_sub_handle' = Without(list_sub_handle, RemovedBy(call[c].filter))
    /\ y_removed' = y_removed \cup RemovedBy(call[c].filter)
    /\ Return(c, 0, TRUE)
    /\ UNCHANGED <<clientVars, list_sub_sync_ack, yieldVars, brokerVars, granted,
                   y_start, y_called, boundVars>>

----------------------------------------------------------------------------
(* wrapper_mqtt_yield: keepalive, then iotx_mc_cycle, under lock_yield.     *)

\* The application calls IOT_MQTT_Yield.
Yield(t) ==
    /\ pc[t] = "idle"
    /\ Goto(t, "yield")
    /\ UNCHANGED <<clientVars, list_sub_handle, list_sub_sync_ack, call, yieldVars, brokerVars,
                   granted, returned, walkVars, boundVars>>

\* iotx_mc_keepalive comes first.  It calls the event handler itself: _in_yield_cb is
\* not set then.
YLock(t) ==
    /\ pc[t] = "yield" /\ lock_yield = "none"
    /\ lock_yield' = t
    /\ Goto(t, "yielding")
    /\ \/ /\ client_state = "CONNECTED" /\ y_pc' = "read"
          /\ UNCHANGED <<client_state, faults>>
       \/ /\ client_state = "DISCONNECTED" /\ y_pc' = "disconnect"
          /\ UNCHANGED <<client_state, faults>>
       \/ /\ client_state = "RECONNECTING" /\ y_pc' = "reconnect"
          /\ client_state' = "CONNECTED" /\ UNCHANGED faults
       \/ /\ client_state = "RECONNECTING" /\ y_pc' = "after"     \* not yet, or failed
          /\ Fault /\ UNCHANGED client_state
    /\ UNCHANGED <<packet_id, list_sub_handle, list_sub_sync_ack, call, y_name, y_node, y_matched,
                   in_yield_cb, brokerVars, granted, returned, walkVars, calls, messages>>

\* After the DISCONNECT event the socket is closed, and what was on the way is lost.
YDisconnectReturns ==
    /\ y_pc = "disconnect" /\ pc["cb"] = "idle"
    /\ client_state' = "RECONNECTING" /\ down' = << >>
    /\ y_pc' = "after"
    /\ UNCHANGED <<packet_id, list_sub_handle, list_sub_sync_ack, callVars, lock_yield, y_name, y_node,
                   y_matched, in_yield_cb, subs, granted, returned, walkVars, boundVars>>

YReconnectReturns ==
    /\ y_pc = "reconnect" /\ pc["cb"] = "idle"
    /\ y_pc' = "after"
    /\ UNCHANGED <<clientVars, list_sub_handle, list_sub_sync_ack, callVars, lock_yield, y_name, y_node,
                   y_matched, in_yield_cb, brokerVars, granted, returned, walkVars, boundVars>>

\* The end of a cycle: back to the loop of a synchronous subscription, or to the application.
YUnlock ==
    /\ y_pc = "after"
    /\ y_pc' = "none" /\ lock_yield' = "none"
    /\ Goto(lock_yield, IF call[lock_yield].sync THEN "check" ELSE "idle")
    /\ y_start' = << >> /\ y_called' = << >> /\ y_removed' = {}
    /\ UNCHANGED <<clientVars, list_sub_handle, list_sub_sync_ack, call, y_name, y_node, y_matched,
                   in_yield_cb, brokerVars, granted, returned, boundVars>>

YReadTimeout ==
    /\ y_pc = "read"
    /\ y_pc' = "after"
    /\ UNCHANGED <<clientVars, list_sub_handle, list_sub_sync_ack, callVars, lock_yield, y_name, y_node,
                   y_matched, in_yield_cb, brokerVars, granted, returned, walkVars, boundVars>>

Acknowledge_Any(list, id, ack) ==     \* Mutant: the id is not compared.
    [i \in DOMAIN list |-> [list[i] EXCEPT !.ack_type = ack]]

\* _iotx_mqtt_event_handle_sub
Acknowledge(list, id, ack) ==
    [i \in DOMAIN list |-> IF list[i].packet_id = id THEN [list[i] EXCEPT !.ack_type = ack]
                                                     ELSE list[i]]

\* _handle_event sets the global for as long as the callback runs.
EnterCallback == y_pc' = "callback" /\ in_yield_cb' = TRUE

\* iotx_mc_handle_recv_SUBACK, then the event handler of the application.
YReadSuback ==
    /\ y_pc = "read" /\ down # << >> /\ Head(down).type = "SUBACK"
    /\ down' = Tail(down)
    /\ list_sub_sync_ack' = Acknowledge(list_sub_sync_ack, Head(down).id,
                                        IF Head(down).ok THEN "SUCCESS" ELSE "NACK")
    /\ EnterCallback /\ y_node' = 0
    /\ UNCHANGED <<clientVars, list_sub_handle, callVars, lock_yield, y_name, y_matched, subs,
                   granted, returned, walkVars, boundVars>>

YReadUnsuback ==
    /\ y_pc = "read" /\ down # << >> /\ Head(down).type = "UNSUBACK"
    /\ down' = Tail(down)
    /\ EnterCallback /\ y_node' = 0
    /\ UNCHANGED <<clientVars, list_sub_handle, list_sub_sync_ack, callVars, lock_yield, y_name,
                   y_matched, subs, granted, returned, walkVars, boundVars>>

\* iotx_mc_handle_recv_PUBLISH, up to iotx_mc_deliver_message.
YReadPublish ==
    /\ y_pc = "read" /\ down # << >> /\ Head(down).type = "PUBLISH"
    /\ down' = Tail(down)
    /\ y_name' = Head(down).name
    /\ y_pc' = "walk" /\ y_node' = 0 /\ y_matched' = FALSE
    /\ y_start' = list_sub_handle /\ y_called' = << >> /\ y_removed' = {}
    /\ UNCHANGED <<clientVars, list_sub_handle, list_sub_sync_ack, callVars, lock_yield,
                   in_yield_cb, subs, granted, returned, boundVars>>

----------------------------------------------------------------------------
(* iotx_mc_deliver_message walks the list with lock_generic, which it gives *)
(* back around every callback.                                              *)

Position(id) == CHOOSE i \in DOMAIN list_sub_handle : list_sub_handle[i].id = id
InList(id) == \E i \in DOMAIN list_sub_handle : list_sub_handle[i].id = id

\* Where the walk goes on after node id.  The node may have been freed during its
\* callback: its link then leads anywhere.
NextPositions(id) ==
    IF id = 0 THEN {1}
    ELSE IF InList(id) THEN {Position(id) + 1}
    ELSE 1..(Len(list_sub_handle) + 1)

\* The handlers to call from position p on.
MatchesFrom_First(p) ==       \* Mutant: a message has one handler.
    IF y_matched THEN {} ELSE
    {i \in p..Len(list_sub_handle) : Delivers(list_sub_handle[i].filter, y_name)}

MatchesFrom(p) == {i \in p..Len(list_sub_handle) : Delivers(list_sub_handle[i].filter, y_name)}

YWalk ==
    /\ y_pc = "walk"
    /\ \E p \in NextPositions(y_node) :
          IF MatchesFrom(p) # {}
            THEN LET n == list_sub_handle[Min(MatchesFrom(p))] IN
                 /\ EnterCallback
                 /\ y_node' = n.id /\ y_matched' = TRUE /\ y_called' = Append(y_called, n)
            ELSE \* the default handler, when there was no match
                 /\ IF y_matched THEN y_pc' = "after" /\ UNCHANGED in_yield_cb ELSE EnterCallback
                 /\ y_node' = 0 /\ UNCHANGED <<y_matched, y_called>>
    /\ UNCHANGED <<clientVars, list_sub_handle, list_sub_sync_ack, callVars, lock_yield, y_name,
                   brokerVars, granted, returned, y_start, y_removed, boundVars>>

\* The callback returns; a node that waits for its return is walked on from.
YCallbackReturns ==
    /\ y_pc = "callback" /\ pc["cb"] = "idle"
    /\ in_yield_cb' = FALSE
    /\ y_pc' = IF y_node = 0 THEN "after" ELSE "walk"
    /\ UNCHANGED <<clientVars, list_sub_handle, list_sub_sync_ack, callVars, lock_yield, y_name, y_node,
                   y_matched, brokerVars, granted, returned, walkVars, boundVars>>

\* The broker has a message for one of the subscriptions.
BrokerPublish(n) ==
    /\ messages < MaxMessages
    /\ \E f \in subs : Covers(f, n)
    /\ messages' = messages + 1
    /\ down' = Append(down, [type |-> "PUBLISH", name |-> n])
    /\ UNCHANGED <<clientVars, list_sub_handle, list_sub_sync_ack, callVars, yieldVars, subs,
                   granted, returned, walkVars, calls, faults>>

----------------------------------------------------------------------------
CallStep(c) ==
    \/ SubCheck(c) \/ \E nack \in BOOLEAN : SubSendOk(c, nack)
    \/ SubNoMemory(c) \/ SubSendFail(c) \/ SubNetErr(c) \/ SubSendLost(c) \/ SubAdd(c)
    \/ SubReturn(c)
    \/ SyncNodeAdd(c) \/ SyncCheckSuccess(c) \/ SyncCheckAgain(c) \/ SyncTop(c) \/ SyncExpired(c)
    \/ UnsubCheck(c) \/ UnsubSendOk(c) \/ UnsubSendFail(c) \/ UnsubNetErr(c)
    \/ UnsubNoMemory(c) \/ UnsubRemove(c)

YStep ==
    \/ YUnlock \/ YDisconnectReturns \/ YReconnectReturns \/ YReadTimeout \/ YReadSuback \/ YReadUnsuback \/ YReadPublish
    \/ YWalk \/ YCallbackReturns

Next ==
    \/ \E c \in Callers, f \in Filters :
          \/ \E h \in Handles, sync \in BOOLEAN : Subscribe(c, f, h, sync)
          \/ Unsubscribe(c, f)
    \/ \E c \in Callers : CallStep(c)
    \/ \E t \in Threads : Yield(t) \/ YLock(t)
    \/ YStep
    \/ \E n \in Names : BrokerPublish(n)

Spec == Init /\ [][Next]_vars

(***************************************************************************)
(* Threads inside the library go on, a thread that waits for lock_yield     *)
(* gets it (_mqtt_cycle sleeps without it), callbacks return, and the timer *)
(* of a synchronous subscription runs out.                                 *)
(***************************************************************************)
Fairness ==
    /\ \A c \in Callers : WF_vars(CallStep(c))
    /\ \A t \in Threads : SF_vars(YLock(t)) /\ SF_vars(SyncCheckAgain(t) /\ pc'[t] = "expired")
    /\ WF_vars(YStep)

FairSpec == Spec /\ Fairness

----------------------------------------------------------------------------
(* Properties.                                                              *)

\* A synchronous subscription that waited and returned an id has been granted by the
\* broker under that id, whichever thread read the SUBACK (list_sub_sync_ack).
SyncSuccessIsGranted ==
    \A r \in returned : ~r.early => r.acked

\* Every node of list_sub_sync_ack belongs to one call that still waits: neither a
\* timeout nor a refusal leaves a node behind, and no node is added twice.
SyncNodesOwned ==
    /\ \A i \in DOMAIN list_sub_sync_ack : \E t \in Callers :
          /\ pc[t] \in {"node", "yield", "yielding", "check", "top", "expired"}
          /\ call[t].subed /\ call[t].ret = list_sub_sync_ack[i].packet_id
    /\ \A i, j \in DOMAIN list_sub_sync_ack :
          list_sub_sync_ack[i].packet_id = list_sub_sync_ack[j].packet_id => i = j

\* No handler is in list_sub_handle twice, though two threads may subscribe to the same
\* filter at the same time: a message would be delivered twice to it.
HandlersDistinct ==
    \A i, j \in DOMAIN list_sub_handle :
        (/\ list_sub_handle[i].filter = list_sub_handle[j].filter
         /\ list_sub_handle[i].handle = list_sub_handle[j].handle) => i = j

\* The handler of a message or of an acknowledgement never waits for lock_yield, which
\* its own thread holds (the reason for _in_yield_cb in wrapper_mqtt_subscribe_sync).
CallbackNeverYields ==
    y_pc = "callback" => pc["cb"] \notin {"node", "yield", "yielding", "check", "top", "expired"}

\* When a message has been delivered, every matching handler that was in the list from
\* the beginning of the walk to its end has been called exactly once, whatever the
\* callbacks and other threads added and removed meanwhile (unless a handler that was
\* being called was removed: its link is then undefined).
WalkComplete ==
    (y_pc = "after" /\ ToSet(y_called) \cap y_removed = {}) =>
        \A i \in DOMAIN y_start :
            (Delivers(y_start[i].filter, y_name) /\ y_start[i] \notin y_removed) =>
                Cardinality({k \in DOMAIN y_called : y_called[k] = y_start[i]}) = 1

\* A synchronous subscription of thread t returns.
SyncReturnsTo(t) == (pc[t] = "sub" /\ call[t].sync) ~> pc[t] = "idle"

\* "timeout_ms: time in ms to wait": a synchronous subscription waits for its SUBACK or
\* its timer, never for a lock that its own thread holds while it runs the callback.
SyncCanTimeOut == pc["cb"] # "yield"

\* "Unsubscribe successful": when the call returns no handler of that filter is left
\* in list_sub_handle (MQTTUnsubscribe).
UnsubscribeRemoves ==
    [][\A c \in Callers : pc[c] = "remove" /\ pc'[c] = "idle" =>
          \A i \in DOMAIN list_sub_handle' : list_sub_handle'[i].filter # call[c].filter]_vars
=============================================================================
