----------------------------- MODULE DmUpstream -----------------------------
(***************************************************************************)
(* The requests a gateway sends to the cloud for its sub-devices, in the    *)
(* build with DEVICE_MODEL_GATEWAY: IOT_Linkkit_Connect of a sub-device     *)
(* (register, then topo add), and IOT_Linkkit_Report of ITM_MSG_LOGIN,      *)
(* ITM_MSG_LOGOUT and ITM_MSG_DELETE_TOPO.  Each of them waits for its      *)
(* answer on a semaphore.                                                   *)
(*                                                                         *)
(* Three kinds of threads meet here: callers; the reader (cm_yield), which  *)
(* handles what the cloud answers, looks requests up in the message cache   *)
(* and queues events, and logs a sub-device in again when the cloud says    *)
(* that its session is gone; and the dispatcher (IOT_Linkkit_Yield), which  *)
(* times cached requests out and hands the events to the waiting callers.   *)
(***************************************************************************)
EXTENDS Integers, Sequences, FiniteSets

CONSTANTS
    Callers,             \* application threads
    Devices,             \* sub-devices, created by IOT_Linkkit_Open
    CACHE_MAX,           \* CONFIG_MSGCACHE_QUEUE_MAXLEN
    QUEUE_MAX,           \* CONFIG_DISPATCH_QUEUE_MAXLEN
    CallTypes,           \* the kinds of calls the application makes
    MaxCalls,            \* bound: calls of the application
    MaxFaults            \* bound: failures for lack of memory, answers that come twice and
                         \* sessions that the cloud says are gone

ASSUME UpstreamAssumption ==
    /\ "none" \notin Callers /\ "freed" \notin Devices /\ Devices # {}
    /\ CallTypes \subseteq {"register", "topo_del", "login", "logout"}
    /\ CACHE_MAX \in Nat /\ QUEUE_MAX \in Nat \ {0} /\ MaxCalls \in Nat /\ MaxFaults \in Nat

VARIABLES
    mutex,               \* holder of the linkkit mutex
    api_mutex,           \* holder of the mutex of dm_api.c
    pc,                  \* the step of each caller
    type, dev,           \* the request it makes, and for which sub-device
    msgid,               \* its msgid
    awaited,             \* ghost: the requests it has waited for in this call
    calls,               \* calls made so far
    report_id,           \* g_report_id
    cache,               \* dmc_list
    queue,               \* message_list of dm_ipc
    nodes,               \* upstream_sync_callback_list
    r_pc, r_msg,         \* the reader: its step, the answer it handles or its own request
    d_pc, d_count, d_msg,\* the dispatcher: its step, events it has dispatched, the event
    dev_status,          \* of each sub-device
    secret,              \* the sub-devices whose device_secret is known
    sent,                \* requests the cloud may still answer
    accepted,            \* ghost: the requests the cloud has answered with success
    faults

callVars == <<type, dev, msgid, awaited, calls>>
readVars == <<r_pc, r_msg>>
dispatchVars == <<d_pc, d_count, d_msg>>
deviceVars == <<dev_status, secret>>
netVars == <<sent, accepted>>
vars == <<mutex, api_mutex, pc, callVars, report_id, cache, queue, nodes, readVars, dispatchVars,
          deviceVars, netVars, faults>>

Types == {"register", "topo_add", "topo_del", "login", "logout"}
Statuses == {"AUTHORIZED", "REGISTERED", "ATTACHED", "LOGINED"}
Ids == Nat
Requests == [id : Ids, type : Types, dev : Devices]
Answers == [id : Ids, type : Types, dev : Devices, code : {"ok", "fail"}]
Events == [id : Ids, code : {"ok", "fail"}]
NoAnswer == [id |-> 0, type |-> "register", dev |-> CHOOSE d \in Devices : TRUE,
             code |-> "fail"]
NoEvent == [id |-> 0, code |-> "fail"]
Entries == [id : Ids, dev : Devices, expired : {0, 1}]
Nodes == [id : Ids, code : {"ok", "fail"}, posts : Nat]
CallSteps == {"idle", "lock", "insert", "publish", "node", "wait", "woken", "timeout",
              "subscribe", "ok", "fail"}

TypeOK ==
    /\ mutex \in Callers \cup {"none"} /\ api_mutex \in Callers \cup {"none"}
    /\ pc \in [Callers -> CallSteps]
    /\ type \in [Callers -> Types] /\ dev \in [Callers -> Devices]
    /\ msgid \in [Callers -> Ids] /\ awaited \in [Callers -> SUBSET Ids]
    /\ calls \in 0..MaxCalls /\ report_id \in Ids
    /\ cache \subseteq Entries /\ queue \in Seq(Events) /\ nodes \subseteq Nodes
    /\ r_pc \in {"idle", "apply", "event", "insert", "publish", "remove"} /\ r_msg \in Answers
    /\ d_pc \in {"idle", "tick", "next", "callback"} /\ d_count \in 0..QUEUE_MAX
    /\ d_msg \in Events
    /\ dev_status \in [Devices -> Statuses] /\ secret \subseteq Devices
    /\ sent \subseteq Requests /\ accepted \subseteq Ids
    /\ faults \in 0..MaxFaults

\* After IOT_Linkkit_Open of the sub-devices and IOT_Linkkit_Connect of the master:
\* dm_mgr_device_create knows the secret of some of them.
Init ==
    /\ mutex = "none" /\ api_mutex = "none"
    /\ pc = [c \in Callers |-> "idle"]
    /\ type \in [Callers -> {"register"}] /\ dev \in [Callers -> Devices]
    /\ msgid = [c \in Callers |-> 0] /\ awaited = [c \in Callers |-> {}]
    /\ calls = 0 /\ report_id = 0 /\ cache = {} /\ queue = <<>> /\ nodes = {}
    /\ r_pc = "idle" /\ r_msg = NoAnswer
    /\ d_pc = "idle" /\ d_count = 0 /\ d_msg = NoEvent
    /\ dev_status = [d \in Devices |-> "AUTHORIZED"] /\ secret \in SUBSET Devices
    /\ sent = {} /\ accepted = {} /\ faults = 0

----------------------------------------------------------------------------
(* The message cache and the queue of events.                               *)

\* The mutex of the cache is free: only dm_msg_cache_tick holds it for long.
CacheFree == d_pc # "tick"

Cached(i) == {e \in cache : e.id = i}

\* dm_msg_cache_insert, before it takes the mutex
CacheHasRoom_OneMore == Cardinality(cache) <= CACHE_MAX   \* Mutant: off by one.

CacheHasRoom == Cardinality(cache) < CACHE_MAX

\* dm_ipc_msg_insert: an event that finds the queue full is dropped ...
Queued(e) == IF Len(queue) >= QUEUE_MAX THEN queue ELSE Append(queue, e)

\* ... and so is one for which _dm_msg_send_to_user has no memory.
Enqueue(e) ==
    \/ queue' = Queued(e) /\ UNCHANGED faults
    \/ faults < MaxFaults /\ faults' = faults + 1 /\ UNCHANGED queue

----------------------------------------------------------------------------
(* The callers.                                                             *)

Goto(c, s) == pc' = [pc EXCEPT ![c] = s]

\* IOT_Linkkit_Connect of a sub-device, or IOT_Linkkit_Report
Begin(c, t, d) ==
    /\ pc[c] = "idle" /\ mutex = "none" /\ calls < MaxCalls
    /\ mutex' = c /\ calls' = calls + 1
    /\ Goto(c, "lock")
    /\ type' = [type EXCEPT ![c] = t] /\ dev' = [dev EXCEPT ![c] = d]
    /\ UNCHANGED <<api_mutex, msgid, awaited, report_id, cache, queue, nodes, readVars,
                   dispatchVars, deviceVars, netVars, faults>>

\* iotx_dm_subdev_register returns SUCCESS_RETURN for a device with a secret, and
\* _iotx_linkkit_slave_connect goes on with the topo add.
SkipRegister(c) ==
    /\ pc[c] = "lock" /\ api_mutex = "none" /\ type[c] = "register" /\ dev[c] \in secret
    /\ type' = [type EXCEPT ![c] = "topo_add"]
    /\ UNCHANGED <<mutex, api_mutex, pc, dev, msgid, awaited, calls, report_id, cache, queue,
                   nodes, readVars, dispatchVars, deviceVars, netVars, faults>>

\* dm_mgr_upstream_combine_logout of a device that has not logged in
LogoutRefused(c) ==
    /\ pc[c] = "lock" /\ api_mutex = "none"
    /\ type[c] = "logout" /\ dev_status[dev[c]] # "LOGINED"
    /\ Goto(c, "fail")
    /\ UNCHANGED <<mutex, api_mutex, callVars, report_id, cache, queue, nodes, readVars,
                   dispatchVars, deviceVars, netVars, faults>>

\* _dm_api_lock
TakeApi(c) == api_mutex = "none" /\ api_mutex' = c

\* The request gets its id from iotx_report_id, and dm_msg_cache_insert compares the size of
\* the cache with its limit.  A request that finds no room or no memory is sent all the same.
RequestLock(c) ==
    /\ pc[c] = "lock" /\ TakeApi(c)
    /\ ~(type[c] = "register" /\ dev[c] \in secret)
    /\ type[c] = "logout" => dev_status[dev[c]] = "LOGINED"
    /\ report_id' = report_id + 1
    /\ msgid' = [msgid EXCEPT ![c] = report_id + 1]
    /\ \/ Goto(c, IF CacheHasRoom THEN "insert" ELSE "publish") /\ UNCHANGED faults
       \/ faults < MaxFaults /\ faults' = faults + 1 /\ Goto(c, "publish")
    /\ UNCHANGED <<mutex, type, dev, awaited, calls, cache, queue, nodes, readVars, dispatchVars,
                   deviceVars, netVars>>

\* The second part of dm_msg_cache_insert, under the mutex of the cache
CacheInsert(c) ==
    /\ pc[c] = "insert" /\ CacheFree
    /\ cache' = cache \cup {[id |-> msgid[c], dev |-> dev[c], expired |-> 0]}
    /\ Goto(c, "publish")
    /\ UNCHANGED <<mutex, api_mutex, callVars, report_id, queue, nodes, readVars, dispatchVars,
                   deviceVars, netVars, faults>>

\* dm_msg_request ignores the result of dm_client_publish: a request that is lost here is
\* one the cloud never answers.
Publish(c) ==
    /\ pc[c] = "publish"
    /\ sent' = sent \cup {[id |-> msgid[c], type |-> type[c], dev |-> dev[c]]}
    /\ api_mutex' = "none"
    /\ Goto(c, "node")
    /\ UNCHANGED <<mutex, callVars, report_id, cache, queue, nodes, readVars, dispatchVars,
                   deviceVars, accepted, faults>>

\* What _iotx_linkkit_slave_connect does to the linkkit mutex when it gives up: after a
\* failed topo add it releases the mutex, which IOT_Linkkit_Connect releases once more.
EarlyUnlock(c) == IF type[c] = "topo_add" THEN "none" ELSE mutex

\* No memory for the request, or for the packet after the request was put into the cache
RequestFails(c) ==
    /\ pc[c] = "publish" /\ CacheFree /\ faults < MaxFaults
    /\ faults' = faults + 1
    /\ cache' = cache \ Cached(msgid[c])
    /\ api_mutex' = "none" /\ mutex' = EarlyUnlock(c)
    /\ Goto(c, "fail")
    /\ UNCHANGED <<callVars, report_id, queue, nodes, readVars, dispatchVars, deviceVars, netVars>>

\* No semaphore, or no memory for the node
NoSemaphore(c) ==
    /\ pc[c] = "node" /\ faults < MaxFaults
    /\ faults' = faults + 1
    /\ mutex' \in {EarlyUnlock(c), mutex}
    /\ Goto(c, "fail")
    /\ UNCHANGED <<api_mutex, callVars, report_id, cache, queue, nodes, readVars, dispatchVars,
                   deviceVars, netVars>>

\* _iotx_linkkit_upstream_sync_callback_list_insert, after the request was sent.  A new node
\* is all zeros, and 0 is SUCCESS_RETURN.
InsertNode(c) ==
    /\ pc[c] = "node"
    /\ nodes' = nodes \cup {[id |-> msgid[c], code |-> "ok", posts |-> 0]}
    /\ awaited' = [awaited EXCEPT ![c] = @ \cup {msgid[c]}]
    /\ Goto(c, "wait")
    /\ UNCHANGED <<mutex, api_mutex, type, dev, msgid, calls, report_id, cache, queue, readVars,
                   dispatchVars, deviceVars, netVars, faults>>

\* HAL_SemaphoreWait returns because of a post ...
Wake(c) ==
    /\ pc[c] = "wait"
    /\ \E n \in nodes :
        /\ n.id = msgid[c] /\ n.posts > 0
        /\ nodes' = (nodes \ {n}) \cup {[n EXCEPT !.posts = n.posts - 1]}
    /\ Goto(c, "woken")
    /\ UNCHANGED <<mutex, api_mutex, callVars, report_id, cache, queue, readVars, dispatchVars,
                   deviceVars, netVars, faults>>

\* Mutant: the wait has no limit.
WaitTimeout_Never(c) == FALSE /\ Goto(c, "timeout") /\ UNCHANGED vars

\* ... or after IOTX_LINKKIT_SYNC_DEFAULT_TIMEOUT_MS.
WaitTimeout(c) ==
    /\ pc[c] = "wait"
    /\ \E n \in nodes : n.id = msgid[c] /\ n.posts = 0
    /\ Goto(c, "timeout")
    /\ UNCHANGED <<mutex, api_mutex, callVars, report_id, cache, queue, nodes, readVars,
                   dispatchVars, deviceVars, netVars, faults>>

WithoutNode_Kept(i) == nodes          \* Mutant: the node stays in the list.

\* _iotx_linkkit_upstream_sync_callback_list_remove
WithoutNode(i) == {n \in nodes : n.id # i}

\* Where a call goes on after a successful answer
AfterSuccess(t) ==
    CASE t = "register" -> "lock" [] t = "login" -> "subscribe" [] OTHER -> "ok"

\* The caller reads the code under upstream_mutex and removes its node.
Collect(c) ==
    /\ pc[c] = "woken"
    /\ \E n \in nodes :
        /\ n.id = msgid[c]
        /\ Goto(c, IF n.code = "ok" THEN AfterSuccess(type[c]) ELSE "fail")
        /\ type' = (IF n.code = "ok" /\ type[c] = "register"
                    THEN [type EXCEPT ![c] = "topo_add"] ELSE type)
    /\ nodes' = WithoutNode(msgid[c])
    /\ UNCHANGED <<mutex, api_mutex, dev, msgid, awaited, calls, report_id, cache, queue, readVars,
                   dispatchVars, deviceVars, netVars, faults>>

\* After a timeout the node is removed whether or not it has been posted since.
GiveUp(c) ==
    /\ pc[c] = "timeout"
    /\ nodes' = WithoutNode(msgid[c])
    /\ Goto(c, "fail")
    /\ UNCHANGED <<mutex, api_mutex, callVars, report_id, cache, queue, readVars, dispatchVars,
                   deviceVars, netVars, faults>>

\* iotx_dm_subscribe after a login
Subscribe(c) ==
    /\ pc[c] = "subscribe" /\ api_mutex = "none"
    /\ \E s \in {"ok", "fail"} : Goto(c, s)
    /\ UNCHANGED <<mutex, api_mutex, callVars, report_id, cache, queue, nodes, readVars,
                   dispatchVars, deviceVars, netVars, faults>>

\* The call releases the linkkit mutex, whoever holds it, and returns.
Return(c) ==
    /\ pc[c] \in {"ok", "fail"}
    /\ mutex' = "none"
    /\ Goto(c, "idle")
    /\ type' = [type EXCEPT ![c] = "register"] /\ msgid' = [msgid EXCEPT ![c] = 0]
    /\ awaited' = [awaited EXCEPT ![c] = {}]
    /\ UNCHANGED <<api_mutex, dev, calls, report_id, cache, queue, nodes, readVars, dispatchVars,
                   deviceVars, netVars, faults>>

----------------------------------------------------------------------------
(* The cloud and the reader.                                                *)

\* dm_msg_thing_topo_add_reply and ..._delete_reply find the device in the message cache, the
\* others in their data, which a failure need not have.  Without it the answer has no effect.
UsesCache(m) == m.type \in {"topo_add", "topo_del"}
AfterRead(q, code) ==
    IF UsesCache(q) THEN IF Cached(q.id) = {} THEN {"remove"} ELSE {"apply"}
    ELSE IF code = "ok" THEN {"apply"} ELSE {"apply", "remove"}

\* The cloud answers a request and the reader gets the answer.  MQTT may deliver the request
\* twice, and the cloud then answers it twice.
ReadAnswer(q, code) ==
    /\ r_pc = "idle" /\ q \in sent /\ CacheFree
    /\ \/ sent' = sent \ {q} /\ UNCHANGED faults
       \/ faults < MaxFaults /\ faults' = faults + 1 /\ UNCHANGED sent
    /\ accepted' = (IF code = "ok" THEN accepted \cup {q.id} ELSE accepted)
    /\ r_msg' = [id |-> q.id, type |-> q.type, dev |-> q.dev, code |-> code]
    /\ r_pc' \in AfterRead(q, code)
    /\ UNCHANGED <<mutex, api_mutex, pc, callVars, report_id, cache, queue, nodes, dispatchVars,
                   deviceVars>>

\* node->devid, read without the mutex of the cache: if the dispatcher or a caller has freed
\* the node meanwhile, the number read is anything.
ReadDevid ==
    IF ~UsesCache(r_msg) THEN {r_msg.dev}
    ELSE IF Cached(r_msg.id) = {} THEN Devices \cup {"freed"}
    ELSE {e.dev : e \in Cached(r_msg.id)}

\* The state machine of the device: a topo delete leaves it ATTACHED.
NewStatus(t) ==
    CASE t = "register" -> "REGISTERED" [] t = "login" -> "LOGINED" [] OTHER -> "ATTACHED"

ApplyAnswer ==
    /\ r_pc = "apply"
    /\ \E d \in ReadDevid :
        /\ dev_status' = [x \in Devices |-> IF x = d /\ r_msg.code = "ok"
                                            THEN NewStatus(r_msg.type) ELSE dev_status[x]]
        /\ secret' = (IF r_msg.type = "register" THEN secret \cup {r_msg.dev} ELSE secret)
    /\ r_pc' = "event"
    /\ UNCHANGED <<mutex, api_mutex, pc, callVars, report_id, cache, queue, nodes, r_msg,
                   dispatchVars, netVars, faults>>

\* _dm_msg_send_to_user
SendToUser ==
    /\ r_pc = "event"
    /\ Enqueue([id |-> r_msg.id, code |-> r_msg.code])
    /\ r_pc' = "remove"
    /\ UNCHANGED <<mutex, api_mutex, pc, callVars, report_id, cache, nodes, r_msg, dispatchVars,
                   deviceVars, netVars>>

\* dm_msg_cache_remove, also after an answer without effect and after a failed re-login
RemoveAnswered ==
    /\ r_pc = "remove" /\ CacheFree
    /\ cache' = cache \ Cached(r_msg.id)
    /\ r_pc' = "idle" /\ r_msg' = NoAnswer
    /\ UNCHANGED <<mutex, api_mutex, pc, callVars, report_id, queue, nodes, dispatchVars,
                   deviceVars, netVars, faults>>

\* Error 520 tells that a sub-device has no session: dm_msg_ext_error_reply logs it in again,
\* in the reader and without the mutex of dm_api.c.  The request gets its id and the size of
\* the cache is compared as in RequestLock.
Relogin(d) ==
    /\ r_pc = "idle" /\ faults < MaxFaults
    /\ faults' = faults + 1
    /\ report_id' = report_id + 1
    /\ r_msg' = [id |-> report_id + 1, type |-> "login", dev |-> d, code |-> "fail"]
    /\ r_pc' \in {IF CacheHasRoom THEN "insert" ELSE "publish", "publish"}
    /\ UNCHANGED <<mutex, api_mutex, pc, callVars, cache, queue, nodes, dispatchVars, deviceVars,
                   netVars>>

\* The second part of dm_msg_cache_insert, as in CacheInsert
ReloginInsert ==
    /\ r_pc = "insert" /\ CacheFree
    /\ cache' = cache \cup {[id |-> r_msg.id, dev |-> r_msg.dev, expired |-> 0]}
    /\ r_pc' = "publish"
    /\ UNCHANGED <<mutex, api_mutex, pc, callVars, report_id, queue, nodes, r_msg, dispatchVars,
                   deviceVars, netVars, faults>>

\* The re-login is sent and nobody waits for its answer, or there is no memory for it.
ReloginPublish ==
    /\ r_pc = "publish"
    /\ \/ /\ sent' = sent \cup {[id |-> r_msg.id, type |-> r_msg.type, dev |-> r_msg.dev]}
          /\ r_pc' = "idle" /\ r_msg' = NoAnswer /\ UNCHANGED faults
       \/ /\ faults < MaxFaults /\ faults' = faults + 1
          /\ r_pc' = "remove" /\ UNCHANGED <<sent, r_msg>>
    /\ UNCHANGED <<mutex, api_mutex, pc, callVars, report_id, cache, queue, nodes, dispatchVars,
                   deviceVars, accepted>>

----------------------------------------------------------------------------
(* The dispatcher.                                                          *)

\* DM_MSG_CACHE_TIMEOUT_MS_DEFAULT passes for a request in the cache.
Expire(e) ==
    /\ e \in cache /\ e.expired = 0 /\ CacheFree
    /\ cache' = (cache \ {e}) \cup {[e EXCEPT !.expired = 1]}
    /\ UNCHANGED <<mutex, api_mutex, pc, callVars, report_id, queue, nodes, readVars,
                   dispatchVars, deviceVars, netVars, faults>>

Expired == {e \in cache : e.expired = 1}

\* IOT_Linkkit_Yield calls iotx_dm_dispatch, which starts with dm_msg_cache_tick.
Tick ==
    /\ d_pc = "idle" /\ (Expired # {} \/ queue # <<>>)
    /\ d_pc' = (IF Expired = {} THEN "next" ELSE "tick")
    /\ UNCHANGED <<mutex, api_mutex, pc, callVars, report_id, cache, queue, nodes, readVars,
                   d_count, d_msg, deviceVars, netVars, faults>>

\* There is nothing to time out or to dispatch.
TickNothing == d_pc = "idle" /\ Expired = {} /\ queue = <<>> /\ UNCHANGED vars

\* Mutant: the request stays in the cache.
TickNode_Kept(e) ==
    /\ d_pc = "tick" /\ e \in Expired /\ \A f \in Expired : f.id >= e.id
    /\ Enqueue([id |-> e.id, code |-> "fail"])
    /\ d_pc' = "next"
    /\ UNCHANGED <<mutex, api_mutex, pc, callVars, report_id, cache, nodes, readVars, d_count,
                   d_msg, deviceVars, netVars>>

\* dm_msg_cache_tick removes an expired request and reports a timeout, if the queue has room.
TickNode(e) ==
    /\ d_pc = "tick" /\ e \in Expired /\ \A f \in Expired : f.id >= e.id
    /\ Enqueue([id |-> e.id, code |-> "fail"])
    /\ cache' = cache \ {e}
    /\ d_pc' = (IF Expired = {e} THEN "next" ELSE "tick")
    /\ UNCHANGED <<mutex, api_mutex, pc, callVars, report_id, nodes, readVars, d_count, d_msg,
                   deviceVars, netVars>>

MayDispatch_OneMore == d_count <= QUEUE_MAX               \* Mutant: off by one.

\* One call of iotx_dm_dispatch hands out as many events as the queue can hold.
MayDispatch == d_count < QUEUE_MAX

\* dm_ipc_msg_next in iotx_dm_dispatch
NextEvent ==
    /\ d_pc = "next" /\ MayDispatch /\ queue # <<>>
    /\ d_msg' = Head(queue) /\ queue' = Tail(queue)
    /\ d_count' = d_count + 1
    /\ d_pc' = "callback"
    /\ UNCHANGED <<mutex, api_mutex, pc, callVars, report_id, cache, nodes, readVars, deviceVars,
                   netVars, faults>>

\* Mutant: the msgid is not compared.
Posted_AnyNode(n) == [id |-> n.id, code |-> d_msg.code, posts |-> n.posts + 1]

\* _iotx_linkkit_upstream_callback_remove: the result for one waiting caller
Posted(n) ==
    IF n.id = d_msg.id THEN [id |-> n.id, code |-> d_msg.code, posts |-> n.posts + 1] ELSE n

Callback ==
    /\ d_pc = "callback"
    /\ nodes' = {Posted(n) : n \in nodes}
    /\ d_pc' = "next" /\ d_msg' = NoEvent
    /\ UNCHANGED <<mutex, api_mutex, pc, callVars, report_id, cache, queue, readVars, d_count,
                   deviceVars, netVars, faults>>

DispatchEnd ==
    /\ d_pc = "next" /\ (~MayDispatch \/ queue = <<>>)
    /\ d_pc' = "idle" /\ d_count' = 0
    /\ UNCHANGED <<mutex, api_mutex, pc, callVars, report_id, cache, queue, nodes, readVars,
                   d_msg, deviceVars, netVars, faults>>

----------------------------------------------------------------------------
CallerStep(c) ==
    \/ SkipRegister(c) \/ LogoutRefused(c) \/ RequestLock(c) \/ CacheInsert(c)
    \/ Publish(c) \/ RequestFails(c) \/ NoSemaphore(c) \/ InsertNode(c) \/ Wake(c)
    \/ WaitTimeout(c) \/ Collect(c) \/ GiveUp(c) \/ Subscribe(c) \/ Return(c)

DispatchStep ==
    \/ Tick \/ TickNothing \/ NextEvent \/ Callback \/ DispatchEnd
    \/ \E e \in cache : TickNode(e)

Next ==
    \/ \E c \in Callers : CallerStep(c)
    \/ \E c \in Callers, t \in CallTypes, d \in Devices : Begin(c, t, d)
    \/ \E q \in sent, code \in {"ok", "fail"} : ReadAnswer(q, code)
    \/ ApplyAnswer \/ SendToUser \/ RemoveAnswered
    \/ (\E d \in Devices : Relogin(d)) \/ ReloginInsert \/ ReloginPublish
    \/ \E e \in cache : Expire(e)
    \/ DispatchStep

Spec == Init /\ [][Next]_vars

(***************************************************************************)
(* Callers inside the library go on and get the mutexes they wait for, time *)
(* passes, and the application keeps calling IOT_Linkkit_Yield.  Nothing is *)
(* assumed of the cloud and of the network.                                 *)
(***************************************************************************)
Fairness ==
    /\ \A c \in Callers : SF_vars(CallerStep(c))
    /\ WF_vars(DispatchStep)
    /\ SF_vars(\E e \in cache : Expire(e))

FairSpec == Spec /\ Fairness

----------------------------------------------------------------------------
(* Properties.                                                              *)

Waiting(c) == pc[c] \in {"wait", "woken", "timeout"}

\* The requests of a call: those it has waited for and the one it has drawn an id for.
Made(c) == awaited[c] \cup ({msgid[c]} \ {0})

Phase(c) == IF pc[c] \in {"idle", "ok", "fail"} THEN pc[c] ELSE "busy"

RS == INSTANCE RequestService
          WITH phase <- [c \in Callers |-> Phase(c)], made <- [c \in Callers |-> Made(c)],
               issued <- report_id, granted <- accepted

\* Callers, reader and dispatcher together are a service that answers requests: a call makes
\* its next request only after the last was accepted by the cloud, and succeeds only when all
\* of them were.  No timeout, no late or second answer to an earlier request and no answer to
\* another thread's request, the reader's re-login included, passes for its own, though a new
\* node of the wait list already holds SUCCESS_RETURN.
AnswersRequests == RS!Spec

\* The same of a state: a call that succeeds has had each request it waited for accepted.
SuccessMeansAccepted ==
    \A c \in Callers :
        pc[c] \in {"subscribe", "ok"} => awaited[c] # {} /\ awaited[c] \subseteq accepted

\* The wait list holds the nodes of the waiting callers and no others: a request that timed
\* out, was refused or was answered twice leaves no node whose semaphore would be posted or
\* destroyed later, and no caller loses its node while it waits.
OneNodePerWaiter ==
    /\ \A c \in Callers : Waiting(c) => \E n \in nodes : n.id = msgid[c]
    /\ \A n \in nodes : \E c \in Callers : Waiting(c) /\ n.id = msgid[c]
    /\ \A m, n \in nodes : m.id = n.id => m = n

\* The message cache exceeds CONFIG_MSGCACHE_QUEUE_MAXLEN by one request at most.
\* dm_msg_cache_insert compares its size before it takes the mutex of the cache: the mutex of
\* dm_api.c keeps callers apart, however many they are, but not a caller and the reader, which
\* can both find the last place free.
CacheBounded == Cardinality(cache) <= CACHE_MAX + 1

\* Neither does the queue of events exceed CONFIG_DISPATCH_QUEUE_MAXLEN.
QueueBounded == Len(queue) <= QUEUE_MAX

\* Every call returns, even when the cloud never answers, its answer is dropped because the
\* queue is full, or it comes before the caller has inserted its node.
CallReturns == \A c \in Callers : pc[c] # "idle" ~> pc[c] = "idle"

\* The cache has room again and again: every request leaves it, answered or not, so new topo
\* requests can find their device when their answers come.
CacheDrains == []<>(Cardinality(cache) < CACHE_MAX)
=============================================================================
