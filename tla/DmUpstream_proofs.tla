------------------------ MODULE DmUpstream_proofs ------------------------
(***************************************************************************)
(* Proofs about DmUpstream, for any numbers of callers, sub-devices, calls  *)
(* and faults and any limits of the cache and of the queue.                 *)
(***************************************************************************)
EXTENDS DmUpstream, FiniteSetTheorems, TLAPS

\* The answer that stands for none has the type of an answer.
LEMMA NoAnswerType == NoAnswer \in Answers
<1>1. (CHOOSE d \in Devices : TRUE) \in Devices
  BY UpstreamAssumption
<1> QED
  BY <1>1 DEF NoAnswer, Answers, Types, Ids

\* An event may be dropped and is otherwise appended.
LEMMA EnqueueType ==
    ASSUME TypeOK, NEW e \in Events, Enqueue(e)
    PROVE  queue' \in Seq(Events) /\ faults' \in 0..MaxFaults
<1>1. queue \in Seq(Events) /\ faults \in 0..MaxFaults
  BY DEF TypeOK
<1>2. Queued(e) \in Seq(Events)
  BY <1>1 DEF Queued
<1>3. queue' \in Seq(Events)
  BY <1>1, <1>2 DEF Enqueue
<1>4. faults' \in 0..MaxFaults
  BY <1>1, UpstreamAssumption DEF Enqueue
<1> QED
  BY <1>3, <1>4

\* A node and an entry of the cache keep their types when their counters change.
LEMMA NodeCounts ==
    ASSUME NEW n \in Nodes, NEW k \in Nat
    PROVE  [n EXCEPT !.posts = k] \in Nodes
  BY DEF Nodes

LEMMA EntryExpires ==
    ASSUME NEW e \in Entries
    PROVE  [e EXCEPT !.expired = 1] \in Entries
  BY DEF Entries

\* Every variable keeps its type.
LEMMA TypeStep == TypeOK /\ [Next]_vars => TypeOK'
<1> SUFFICES ASSUME TypeOK, [Next]_vars
             PROVE  TypeOK'
  OBVIOUS
<1> USE UpstreamAssumption
<1> USE DEF TypeOK, callVars, readVars, dispatchVars, deviceVars, netVars, CallSteps, Types, Ids,
            Requests, Answers, Entries, Nodes, Statuses
<1> QED
  <2>1. CASE \E c \in Callers, t \in CallTypes, d \in Devices : Begin(c, t, d)
    <3>1. PICK c \in Callers, t \in CallTypes, d \in Devices : Begin(c, t, d)
      BY <2>1
    <3>2. /\ type' \in [Callers -> Types] /\ dev' \in [Callers -> Devices]
          /\ pc' \in [Callers -> CallSteps]
      BY <3>1 DEF Begin, Goto
    <3>3. calls' \in 0..MaxCalls
      BY <3>1 DEF Begin
    <3> QED
      BY <3>1, <3>2, <3>3 DEF Begin
  <2>2. CASE \E c \in Callers : SkipRegister(c)
    BY <2>2 DEF SkipRegister
  <2>3. CASE \E c \in Callers : LogoutRefused(c)
    BY <2>3 DEF LogoutRefused, Goto
  <2>4. CASE \E c \in Callers : RequestLock(c)
    <3>1. PICK c \in Callers : RequestLock(c)
      BY <2>4
    <3>2. pc' \in [Callers -> CallSteps] /\ faults' \in 0..MaxFaults
      <4>1. PICK s \in {"insert", "publish"} : Goto(c, s)
        BY <3>1 DEF RequestLock
      <4>2. faults' = faults \/ (faults < MaxFaults /\ faults' = faults + 1)
        BY <3>1 DEF RequestLock
      <4>3. pc' \in [Callers -> CallSteps]
        BY <4>1 DEF Goto
      <4> QED
        BY <4>2, <4>3
    <3>3. msgid' \in [Callers -> Ids] /\ report_id' \in Ids
      BY <3>1 DEF RequestLock
    <3>4. api_mutex' \in Callers \cup {"none"}
      BY <3>1 DEF RequestLock, TakeApi
    <3>5. UNCHANGED <<mutex, type, dev, awaited, calls, cache, queue, nodes, readVars, dispatchVars,
                      deviceVars, netVars>>
      BY <3>1, Zenon DEF RequestLock
    <3> QED
      BY <3>2, <3>3, <3>4, <3>5
  <2>5. CASE \E c \in Callers : CacheInsert(c)
    BY <2>5 DEF CacheInsert, Goto
  <2>6. CASE \E c \in Callers : Publish(c)
    BY <2>6 DEF Publish, Goto
  <2>7. CASE \E c \in Callers : RequestFails(c)
    BY <2>7 DEF RequestFails, Goto, EarlyUnlock
  <2>8. CASE \E c \in Callers : NoSemaphore(c)
    BY <2>8 DEF NoSemaphore, Goto, EarlyUnlock
  <2>9. CASE \E c \in Callers : InsertNode(c)
    BY <2>9 DEF InsertNode, Goto
  <2>10. CASE \E c \in Callers : Wake(c)
    <3>1. PICK c \in Callers : Wake(c)
      BY <2>10
    <3>2. PICK n \in nodes : /\ n.posts > 0
                             /\ nodes' = (nodes \ {n}) \cup {[n EXCEPT !.posts = n.posts - 1]}
      BY <3>1 DEF Wake
    <3>3. [n EXCEPT !.posts = n.posts - 1] \in Nodes
      <4>1. n \in Nodes /\ n.posts - 1 \in Nat
        BY <3>2, SMTT(30)
      <4> QED
        BY <4>1, NodeCounts, Zenon
    <3>4. nodes' \subseteq Nodes
      BY <3>2, <3>3
    <3>5. pc' \in [Callers -> CallSteps]
      BY <3>1 DEF Wake, Goto
    <3>6. UNCHANGED <<mutex, api_mutex, callVars, report_id, cache, queue, readVars, dispatchVars,
                      deviceVars, netVars, faults>>
      BY <3>1, Zenon DEF Wake
    <3> QED
      BY <3>4, <3>5, <3>6
  <2>11. CASE \E c \in Callers : WaitTimeout(c)
    BY <2>11 DEF WaitTimeout, Goto
  <2>12. CASE \E c \in Callers : Collect(c)
    <3>1. PICK c \in Callers : Collect(c)
      BY <2>12
    <3>2. nodes' \subseteq Nodes
      BY <3>1 DEF Collect, WithoutNode
    <3>3. AfterSuccess(type[c]) \in CallSteps
      BY DEF AfterSuccess
    <3>4. pc' \in [Callers -> CallSteps]
      BY <3>1, <3>3 DEF Collect, Goto
    <3>5. type' \in [Callers -> Types]
      BY <3>1 DEF Collect
    <3> QED
      BY <3>1, <3>2, <3>4, <3>5 DEF Collect
  <2>13. CASE \E c \in Callers : GiveUp(c)
    BY <2>13 DEF GiveUp, Goto, WithoutNode
  <2>14. CASE \E c \in Callers : Subscribe(c)
    BY <2>14 DEF Subscribe, Goto
  <2>15. CASE \E c \in Callers : Return(c)
    BY <2>15 DEF Return, Goto
  <2>16. CASE \E q \in sent, code \in {"ok", "fail"} : ReadAnswer(q, code)
    <3>1. PICK q \in sent, code \in {"ok", "fail"} : ReadAnswer(q, code)
      BY <2>16
    <3>2. sent' \subseteq Requests /\ faults' \in 0..MaxFaults
      BY <3>1 DEF ReadAnswer
    <3>3. r_msg' \in Answers /\ accepted' \subseteq Ids
      BY <3>1 DEF ReadAnswer
    <3>4. r_pc' \in {"apply", "remove"}
      BY <3>1 DEF ReadAnswer, AfterRead
    <3> QED
      BY <3>1, <3>2, <3>3, <3>4 DEF ReadAnswer
  <2>17. CASE ApplyAnswer
    <3>1. NewStatus(r_msg.type) \in Statuses
      BY DEF NewStatus
    <3>2. dev_status' \in [Devices -> Statuses] /\ secret' \subseteq Devices
      BY <2>17, <3>1 DEF ApplyAnswer
    <3> QED
      BY <2>17, <3>2 DEF ApplyAnswer
  <2>18. CASE SendToUser
    <3>1. [id |-> r_msg.id, code |-> r_msg.code] \in Events
      BY DEF Events
    <3>2. queue' \in Seq(Events) /\ faults' \in 0..MaxFaults
      BY <2>18, <3>1, EnqueueType DEF SendToUser
    <3> QED
      BY <2>18, <3>2, SMTT(30) DEF SendToUser
  <2>19. CASE RemoveAnswered
    BY <2>19, NoAnswerType DEF RemoveAnswered
  <2>20. CASE \E e \in cache : Expire(e)
    <3>1. PICK e \in cache : Expire(e)
      BY <2>20
    <3>2. cache' \subseteq Entries
      BY <3>1, EntryExpires DEF Expire
    <3>3. UNCHANGED <<mutex, api_mutex, pc, callVars, report_id, queue, nodes, readVars,
                      dispatchVars, deviceVars, netVars, faults>>
      BY <3>1, Zenon DEF Expire
    <3> QED
      BY <3>2, <3>3
  <2>21. CASE Tick
    BY <2>21 DEF Tick
  <2>22. CASE TickNothing
    BY <2>22 DEF TickNothing, vars
  <2>23. CASE \E e \in cache : TickNode(e)
    <3>1. PICK e \in cache : TickNode(e)
      BY <2>23
    <3>2. [id |-> e.id, code |-> "fail"] \in Events
      BY <3>1 DEF Events
    <3>3. queue' \in Seq(Events) /\ faults' \in 0..MaxFaults
      BY <3>1, <3>2, EnqueueType DEF TickNode
    <3> QED
      BY <3>1, <3>3 DEF TickNode
  <2>24. CASE NextEvent
    <3>1. d_msg' \in Events /\ queue' \in Seq(Events)
      BY <2>24 DEF NextEvent
    <3>2. d_count' \in 0..QUEUE_MAX
      BY <2>24 DEF NextEvent, MayDispatch
    <3> QED
      BY <2>24, <3>1, <3>2 DEF NextEvent
  <2>25. CASE Callback
    BY <2>25 DEF Callback, Posted, NoEvent, Events
  <2>26. CASE DispatchEnd
    BY <2>26 DEF DispatchEnd
  <2>27. CASE \E d \in Devices : Relogin(d)
    BY <2>27 DEF Relogin
  <2>28. CASE ReloginInsert
    BY <2>28 DEF ReloginInsert
  <2>29. CASE ReloginPublish
    BY <2>29, NoAnswerType DEF ReloginPublish
  <2>30. CASE UNCHANGED vars
    BY <2>30 DEF vars, TypeOK
  <2> QED
    BY <2>1, <2>2, <2>3, <2>4, <2>5, <2>6, <2>7, <2>8, <2>9, <2>10, <2>11, <2>12, <2>13, <2>14,
       <2>15, <2>16, <2>17, <2>18, <2>19, <2>20, <2>21, <2>22, <2>23, <2>24, <2>25, <2>26, <2>27,
       <2>28, <2>29, <2>30 DEF Next, CallerStep, DispatchStep

----------------------------------------------------------------------------
\* A request has been given its id and its caller has not finished with it.
Busy(c) == pc[c] \in {"insert", "publish", "node", "wait", "woken", "timeout"}

\* Message ids are fresh: no two callers share one.
IdInv ==
    /\ \A c \in Callers : msgid[c] <= report_id
    /\ \A c \in Callers : Busy(c) => msgid[c] # 0
    /\ \A b, c \in Callers : b # c /\ msgid[b] = msgid[c] => msgid[b] = 0

\* An event of success on its way to a caller is about a request the cloud accepted.
EventInv ==
    /\ r_msg.code = "ok" => r_msg.id \in accepted
    /\ d_msg.code = "ok" => d_msg.id \in accepted
    /\ \A i \in 1..Len(queue) : queue[i].code = "ok" => queue[i].id \in accepted

\* The SUCCESS_RETURN a new node starts with is never read: a node has been posted, with the
\* code of its event, before its caller wakes.
PostInv ==
    /\ \A n \in nodes : n.code = "ok" => n.posts = 0 \/ n.id \in accepted
    /\ \A c \in Callers, n \in nodes :
          pc[c] = "woken" /\ n.id = msgid[c] /\ n.code = "ok" => n.id \in accepted

\* A call goes on to its next request only after the last one was accepted.
AwaitInv ==
    \A c \in Callers :
        /\ pc[c] = "idle" => awaited[c] = {}
        /\ pc[c] \in {"lock", "insert", "publish", "node"} => awaited[c] \subseteq accepted
        /\ Waiting(c) => msgid[c] \in awaited[c] /\ awaited[c] \ {msgid[c]} \subseteq accepted
        /\ pc[c] \in {"subscribe", "ok"} => awaited[c] # {} /\ awaited[c] \subseteq accepted

WaitInv == TypeOK /\ IdInv /\ OneNodePerWaiter /\ EventInv /\ PostInv /\ AwaitInv

\* iotx_report_id gives every request a new id, the reader's included.
LEMMA IdStep ==
    ASSUME TypeOK, IdInv, [Next]_vars
    PROVE  IdInv'
<1> USE UpstreamAssumption
<1> USE DEF TypeOK, IdInv, Busy, callVars, CallSteps, Ids
<1>1. CASE \E c \in Callers, t \in CallTypes, d \in Devices : Begin(c, t, d)
  BY <1>1 DEF Begin, Goto
<1>2. CASE \E c \in Callers : SkipRegister(c)
  BY <1>2 DEF SkipRegister
<1>3. CASE \E c \in Callers : LogoutRefused(c)
  BY <1>3 DEF LogoutRefused, Goto
<1>4. CASE \E c \in Callers : RequestLock(c)
  BY <1>4 DEF RequestLock, TakeApi, Goto
<1>5. CASE \E c \in Callers : CacheInsert(c)
  BY <1>5 DEF CacheInsert, Goto
<1>6. CASE \E c \in Callers : Publish(c)
  BY <1>6 DEF Publish, Goto
<1>7. CASE \E c \in Callers : RequestFails(c)
  BY <1>7 DEF RequestFails, Goto, EarlyUnlock
<1>8. CASE \E c \in Callers : NoSemaphore(c)
  BY <1>8 DEF NoSemaphore, Goto, EarlyUnlock
<1>9. CASE \E c \in Callers : InsertNode(c)
  BY <1>9 DEF InsertNode, Goto
<1>10. CASE \E c \in Callers : Wake(c)
  BY <1>10 DEF Wake, Goto
<1>11. CASE \E c \in Callers : WaitTimeout(c)
  BY <1>11 DEF WaitTimeout, Goto
<1>12. CASE \E c \in Callers : Collect(c)
  BY <1>12 DEF Collect, Goto, AfterSuccess, WithoutNode
<1>13. CASE \E c \in Callers : GiveUp(c)
  BY <1>13 DEF GiveUp, Goto, WithoutNode
<1>14. CASE \E c \in Callers : Subscribe(c)
  BY <1>14 DEF Subscribe, Goto
<1>15. CASE \E c \in Callers : Return(c)
  BY <1>15 DEF Return, Goto
<1>16. CASE \E d \in Devices : Relogin(d)
  BY <1>16 DEF Relogin
<1>17. CASE UNCHANGED <<pc, msgid, report_id>>
  BY <1>17
<1> QED
  BY <1>1, <1>2, <1>3, <1>4, <1>5, <1>6, <1>7, <1>8, <1>9, <1>10, <1>11, <1>12, <1>13, <1>14,
     <1>15, <1>16, <1>17 DEF Next, ReloginInsert, ReloginPublish, CallerStep, DispatchStep, vars, ReadAnswer, ApplyAnswer, SendToUser,
     RemoveAnswered, Expire, Tick, TickNothing, TickNode, NextEvent, Callback, DispatchEnd

\* An event that is dropped or appended keeps the meaning of the events in the queue.
LEMMA EnqueueEvents ==
    ASSUME TypeOK, EventInv, NEW e \in Events, e.code = "ok" => e.id \in accepted,
           Enqueue(e)
    PROVE  \A i \in 1..Len(queue') : queue'[i].code = "ok" => queue'[i].id \in accepted
<1>1. queue \in Seq(Events)
  BY DEF TypeOK
<1>2. CASE queue' = queue
  BY <1>2 DEF EventInv
<1>3. CASE queue' = Append(queue, e)
  <2>1. Len(queue') = Len(queue) + 1 /\ Len(queue) \in Nat
    BY <1>1, <1>3
  <2>2. \A i \in 1..Len(queue) : queue'[i] = queue[i]
    BY <1>1, <1>3
  <2>3. queue'[Len(queue) + 1] = e
    BY <1>1, <1>3
  <2> QED
    BY <2>1, <2>2, <2>3 DEF EventInv
<1> QED
  BY <1>2, <1>3 DEF Enqueue, Queued

\* The wait list stays right when nobody starts or stops waiting.
LEMMA SameWaiters ==
    ASSUME OneNodePerWaiter, nodes' = nodes,
           \A b \in Callers : Waiting(b)' <=> Waiting(b),
           \A b \in Callers : Waiting(b) => msgid'[b] = msgid[b]
    PROVE  OneNodePerWaiter'
  BY DEF OneNodePerWaiter

\* A caller that stops waiting removes its own node and no other.
LEMMA StopWaiting ==
    ASSUME TypeOK, IdInv, OneNodePerWaiter, NEW c \in Callers, Waiting(c),
           nodes' = WithoutNode(msgid[c]), msgid' = msgid,
           NEW s \in CallSteps \ {"wait", "woken", "timeout"}, Goto(c, s)
    PROVE  OneNodePerWaiter'
<1>1. \A b \in Callers : Waiting(b)' <=> (b # c /\ Waiting(b))
  BY DEF Waiting, Goto, TypeOK
<1>2. \A b \in Callers : b # c /\ Waiting(b) => msgid[b] # msgid[c]
  BY DEF IdInv, Waiting, Busy
<1>3. \A n \in nodes' : n \in nodes /\ n.id # msgid[c]
  BY DEF WithoutNode
<1>4. \A n \in nodes : n.id # msgid[c] => n \in nodes'
  BY DEF WithoutNode
<1>5. \A b \in Callers : Waiting(b)' => \E n \in nodes' : n.id = msgid'[b]
  BY <1>1, <1>2, <1>4 DEF OneNodePerWaiter
<1>6. \A n \in nodes' : \E b \in Callers : Waiting(b)' /\ n.id = msgid'[b]
  BY <1>1, <1>3 DEF OneNodePerWaiter
<1>7. \A m, n \in nodes' : m.id = n.id => m = n
  BY <1>3 DEF OneNodePerWaiter
<1> QED
  BY <1>5, <1>6, <1>7 DEF OneNodePerWaiter

\* Answers, events in the queue and the event being dispatched keep their meaning.
LEMMA EventStep ==
    ASSUME TypeOK, EventInv, [Next]_vars
    PROVE  EventInv'
<1> USE UpstreamAssumption
<1> USE DEF TypeOK, EventInv, netVars, readVars, dispatchVars, Answers, Events, Requests
<1>1. CASE \E c \in Callers : Publish(c)
  BY <1>1 DEF Publish, Goto
<1>2. CASE \E q \in sent, code \in {"ok", "fail"} : ReadAnswer(q, code)
  BY <1>2 DEF ReadAnswer, AfterRead
<1>3. CASE SendToUser
  <2>1. [id |-> r_msg.id, code |-> r_msg.code] \in Events
    OBVIOUS
  <2>2. Enqueue([id |-> r_msg.id, code |-> r_msg.code])
    BY <1>3 DEF SendToUser
  <2> QED
    BY <1>3, <2>1, <2>2, EnqueueEvents DEF SendToUser
<1>4. CASE RemoveAnswered
  BY <1>4 DEF RemoveAnswered, NoAnswer
<1>5. CASE \E e \in cache : TickNode(e)
  <2>1. PICK e \in cache : TickNode(e)
    BY <1>5
  <2>2. [id |-> e.id, code |-> "fail"] \in Events
    BY DEF Entries, Ids
  <2>3. Enqueue([id |-> e.id, code |-> "fail"])
    BY <2>1 DEF TickNode
  <2> QED
    BY <2>1, <2>2, <2>3, EnqueueEvents DEF TickNode
<1>6. CASE NextEvent
  BY <1>6 DEF NextEvent, MayDispatch
<1>7. CASE Callback
  BY <1>7 DEF Callback, Posted, NoEvent
<1>8. CASE (\E d \in Devices : Relogin(d)) \/ ReloginPublish
  BY <1>8 DEF Relogin, ReloginPublish, NoAnswer
<1>9. CASE UNCHANGED <<r_msg, d_msg, queue, accepted>>
  BY <1>9
<1> QED
  BY <1>1, <1>2, <1>3, <1>4, <1>5, <1>6, <1>7, <1>8, <1>9 DEF ReloginInsert, Next, CallerStep, DispatchStep, vars,
     Begin, SkipRegister, LogoutRefused, RequestLock, CacheInsert, RequestFails, NoSemaphore,
     InsertNode, Wake, WaitTimeout, Collect, GiveUp, Subscribe, Return, ApplyAnswer, Expire,
     Tick, TickNothing, DispatchEnd

\* A caller has exactly one node while it waits.
LEMMA NodeStep ==
    ASSUME TypeOK, IdInv, OneNodePerWaiter, [Next]_vars
    PROVE  OneNodePerWaiter'
<1> USE UpstreamAssumption
<1> USE DEF callVars
<1>1. CASE \E c \in Callers, t \in CallTypes, d \in Devices : Begin(c, t, d)
  BY <1>1, SameWaiters DEF Begin, Waiting, TypeOK, callVars, CallSteps, Goto
<1>2. CASE \E c \in Callers : SkipRegister(c)
  BY <1>2, SameWaiters DEF SkipRegister, Waiting, TypeOK, callVars, CallSteps
<1>3. CASE \E c \in Callers : LogoutRefused(c)
  BY <1>3, SameWaiters DEF LogoutRefused, Waiting, TypeOK, callVars, CallSteps, Goto
<1>4. CASE \E c \in Callers : RequestLock(c)
  BY <1>4, SameWaiters DEF RequestLock, Waiting, TypeOK, callVars, CallSteps, TakeApi, Goto
<1>5. CASE \E c \in Callers : CacheInsert(c)
  BY <1>5, SameWaiters DEF CacheInsert, Waiting, TypeOK, callVars, CallSteps, Goto
<1>6. CASE \E c \in Callers : Publish(c)
  BY <1>6, SameWaiters DEF Publish, Waiting, TypeOK, callVars, CallSteps, Goto
<1>7. CASE \E c \in Callers : RequestFails(c)
  BY <1>7, SameWaiters DEF RequestFails, Waiting, TypeOK, callVars, CallSteps, Goto, EarlyUnlock
<1>8. CASE \E c \in Callers : NoSemaphore(c)
  BY <1>8, SameWaiters DEF NoSemaphore, Waiting, TypeOK, callVars, CallSteps, Goto, EarlyUnlock
<1>9. CASE \E c \in Callers : InsertNode(c)
  <2>1. PICK c \in Callers : InsertNode(c)
    BY <1>9
  <2> DEFINE m == [id |-> msgid[c], code |-> "ok", posts |-> 0]
  <2>2. nodes' = nodes \cup {m} /\ msgid' = msgid /\ m.id = msgid[c]
    BY <2>1 DEF InsertNode
  <2>3. \A b \in Callers : Waiting(b)' <=> (b = c \/ Waiting(b))
    BY <2>1 DEF InsertNode, Goto, Waiting, TypeOK
  <2>4. \A n \in nodes : n.id # msgid[c]
    BY <2>1 DEF InsertNode, OneNodePerWaiter, IdInv, Busy, Waiting
  <2> HIDE DEF m
  <2>5. \A b \in Callers : Waiting(b)' => \E n \in nodes' : n.id = msgid'[b]
    BY <2>2, <2>3 DEF OneNodePerWaiter
  <2>6. \A n \in nodes' : \E b \in Callers : Waiting(b)' /\ n.id = msgid'[b]
    BY <2>2, <2>3 DEF OneNodePerWaiter
  <2>7. \A k, n \in nodes' : k.id = n.id => k = n
    BY <2>2, <2>4 DEF OneNodePerWaiter
  <2> QED
    BY <2>5, <2>6, <2>7 DEF OneNodePerWaiter
<1>10. CASE \E c \in Callers : Wake(c)
  <2>1. PICK c \in Callers : Wake(c)
    BY <1>10
  <2>2. PICK n \in nodes : nodes' = (nodes \ {n}) \cup {[n EXCEPT !.posts = n.posts - 1]}
    BY <2>1 DEF Wake
  <2> DEFINE m == [n EXCEPT !.posts = n.posts - 1]
  <2>3. m.id = n.id
    BY <2>2 DEF TypeOK, Nodes
  <2>4. nodes' = (nodes \ {n}) \cup {m} /\ msgid' = msgid
    BY <2>1, <2>2 DEF Wake, callVars
  <2>5. \A b \in Callers : Waiting(b)' <=> Waiting(b)
    BY <2>1 DEF Wake, Goto, Waiting, TypeOK
  <2> HIDE DEF m
  <2>6. \A b \in Callers : Waiting(b)' => \E k \in nodes' : k.id = msgid'[b]
    BY <2>3, <2>4, <2>5 DEF OneNodePerWaiter
  <2>7. \A k \in nodes' : \E b \in Callers : Waiting(b)' /\ k.id = msgid'[b]
    BY <2>2, <2>3, <2>4, <2>5 DEF OneNodePerWaiter
  <2>8. \A k, l \in nodes' : k.id = l.id => k = l
    BY <2>2, <2>3, <2>4 DEF OneNodePerWaiter
  <2> QED
    BY <2>6, <2>7, <2>8 DEF OneNodePerWaiter
<1>11. CASE \E c \in Callers : WaitTimeout(c)
  BY <1>11, SameWaiters DEF WaitTimeout, Waiting, TypeOK, callVars, CallSteps, Goto
<1>12. CASE \E c \in Callers : Collect(c)
  <2>1. PICK c \in Callers : Collect(c)
    BY <1>12
  <2>2. PICK s \in CallSteps \ {"wait", "woken", "timeout"} : Goto(c, s)
    BY <2>1 DEF Collect, AfterSuccess, CallSteps
  <2> QED
    BY <2>1, <2>2, StopWaiting DEF Collect, Waiting
<1>13. CASE \E c \in Callers : GiveUp(c)
  BY <1>13, StopWaiting DEF GiveUp, Waiting, callVars, CallSteps
<1>14. CASE \E c \in Callers : Subscribe(c)
  BY <1>14, SameWaiters DEF Subscribe, Waiting, TypeOK, callVars, CallSteps, Goto
<1>15. CASE \E c \in Callers : Return(c)
  BY <1>15, SameWaiters DEF Return, Waiting, TypeOK, callVars, CallSteps, Goto
<1>16. CASE Callback
  <2>1. nodes' = {Posted(n) : n \in nodes} /\ msgid' = msgid /\ pc' = pc
    BY <1>16 DEF Callback, callVars
  <2>2. \A n \in nodes : Posted(n).id = n.id
    BY DEF Posted
  <2>3. \A b \in Callers : Waiting(b)' <=> Waiting(b)
    BY <2>1 DEF Waiting
  <2> QED
    BY <2>1, <2>2, <2>3 DEF OneNodePerWaiter
<1>17. CASE UNCHANGED <<pc, msgid, nodes>>
  BY <1>17, SameWaiters DEF Waiting
<1> QED
  BY <1>1, <1>2, <1>3, <1>4, <1>5, <1>6, <1>7, <1>8, <1>9, <1>10, <1>11, <1>12, <1>13, <1>14,
     <1>15, <1>16, <1>17 DEF Next, CallerStep, DispatchStep, vars, ReadAnswer, ApplyAnswer,
     Relogin, ReloginInsert, ReloginPublish, SendToUser, RemoveAnswered, Expire, Tick, TickNothing, TickNode, NextEvent, DispatchEnd

\* A caller wakes after a post only.
LEMMA PostStep ==
    ASSUME TypeOK, IdInv, OneNodePerWaiter, EventInv, PostInv, [Next]_vars
    PROVE  PostInv'
<1> USE UpstreamAssumption
<1> USE DEF TypeOK, IdInv, OneNodePerWaiter, EventInv, PostInv, Waiting, Busy, callVars,
            netVars, CallSteps, Ids, Nodes
<1>1. CASE \E c \in Callers, t \in CallTypes, d \in Devices : Begin(c, t, d)
  BY <1>1 DEF Begin, Goto
<1>2. CASE \E c \in Callers : SkipRegister(c)
  BY <1>2 DEF SkipRegister
<1>3. CASE \E c \in Callers : LogoutRefused(c)
  BY <1>3 DEF LogoutRefused, Goto
<1>4. CASE \E c \in Callers : RequestLock(c)
  BY <1>4 DEF RequestLock, TakeApi, Goto
<1>5. CASE \E c \in Callers : CacheInsert(c)
  BY <1>5 DEF CacheInsert, Goto
<1>6. CASE \E c \in Callers : Publish(c)
  BY <1>6 DEF Publish, Goto
<1>7. CASE \E c \in Callers : RequestFails(c)
  BY <1>7 DEF RequestFails, Goto, EarlyUnlock
<1>8. CASE \E c \in Callers : NoSemaphore(c)
  BY <1>8 DEF NoSemaphore, Goto, EarlyUnlock
<1>9. CASE \E c \in Callers : InsertNode(c)
  BY <1>9 DEF InsertNode, Goto
<1>10. CASE \E c \in Callers : Wake(c)
  <2>1. PICK c \in Callers : Wake(c)
    BY <1>10
  <2>2. PICK n \in nodes : n.id = msgid[c] /\ n.posts > 0
                          /\ nodes' = (nodes \ {n}) \cup {[n EXCEPT !.posts = n.posts - 1]}
    BY <2>1 DEF Wake
  <2> DEFINE m == [n EXCEPT !.posts = n.posts - 1]
  <2>3. m.id = n.id /\ m.code = n.code /\ nodes' = (nodes \ {n}) \cup {m}
    BY <2>2
  <2>4. n.code = "ok" => n.id \in accepted
    BY <2>2
  <2>5. accepted' = accepted /\ msgid' = msgid
        /\ \A b \in Callers : b # c => (pc'[b] = "woken" <=> pc[b] = "woken")
    BY <2>1 DEF Wake, Goto
  <2>6. \A k \in nodes : k.id = msgid[c] => k = n
    BY <2>2
  <2> HIDE DEF m
  <2>7. \A k \in nodes' : k.code = "ok" => k.posts = 0 \/ k.id \in accepted'
    BY <2>3, <2>4, <2>5
  <2>8. \A b \in Callers, k \in nodes' :
            pc'[b] = "woken" /\ k.id = msgid'[b] /\ k.code = "ok" => k.id \in accepted'
    BY <2>2, <2>3, <2>4, <2>5, <2>6, SMTT(30)
  <2> QED
    BY <2>7, <2>8
<1>11. CASE \E c \in Callers : WaitTimeout(c)
  BY <1>11, SMTT(30) DEF WaitTimeout, Goto
<1>12. CASE \E c \in Callers : Collect(c)
  <2>1. PICK c \in Callers : Collect(c)
    BY <1>12
  <2>2. /\ nodes' \subseteq nodes /\ UNCHANGED <<msgid, accepted>>
        /\ \A b \in Callers : pc'[b] = "woken" => pc[b] = "woken"
    BY <2>1 DEF Collect, Goto, AfterSuccess, WithoutNode
  <2> QED
    BY <2>2
<1>13. CASE \E c \in Callers : GiveUp(c)
  BY <1>13 DEF GiveUp, Goto, WithoutNode
<1>14. CASE \E c \in Callers : Subscribe(c)
  BY <1>14 DEF Subscribe, Goto
<1>15. CASE \E c \in Callers : Return(c)
  BY <1>15 DEF Return, Goto
<1>16. CASE \E q \in sent, code \in {"ok", "fail"} : ReadAnswer(q, code)
  BY <1>16 DEF ReadAnswer, AfterRead
<1>17. CASE Callback
  BY <1>17 DEF Callback, Posted, NoEvent
<1>18. CASE UNCHANGED <<pc, msgid, nodes, accepted>>
  BY <1>18
<1> QED
  BY <1>1, <1>2, <1>3, <1>4, <1>5, <1>6, <1>7, <1>8, <1>9, <1>10, <1>11, <1>12, <1>13, <1>14,
     <1>15, <1>16, <1>17, <1>18 DEF Next, CallerStep, DispatchStep, vars, ApplyAnswer,
     Relogin, ReloginInsert, ReloginPublish, SendToUser, RemoveAnswered, Expire, Tick, TickNothing, TickNode, NextEvent, DispatchEnd

\* A caller counts a request as done only when it was accepted.
LEMMA AwaitStep ==
    ASSUME TypeOK, PostInv, AwaitInv, [Next]_vars
    PROVE  AwaitInv'
<1> USE UpstreamAssumption
<1> USE DEF TypeOK, PostInv, AwaitInv, Waiting, callVars, netVars, CallSteps, Ids, Nodes
<1>1. CASE \E c \in Callers, t \in CallTypes, d \in Devices : Begin(c, t, d)
  <2>1. PICK c \in Callers, t \in CallTypes, d \in Devices : Begin(c, t, d)
    BY <1>1
  <2>2. awaited[c] = {} /\ pc' = [pc EXCEPT ![c] = "lock"]
        /\ awaited' = awaited /\ msgid' = msgid /\ accepted' = accepted
    BY <2>1 DEF Begin, Goto
  <2> QED
    BY <2>2
<1>2. CASE \E c \in Callers : SkipRegister(c)
  <2>1. UNCHANGED <<pc, msgid, awaited, accepted>>
    BY <1>2, Zenon DEF SkipRegister
  <2> QED
    BY <2>1
<1>3. CASE \E c \in Callers : LogoutRefused(c)
  <2>1. PICK c \in Callers : LogoutRefused(c)
    BY <1>3
  <2>2. pc' = [pc EXCEPT ![c] = "fail"] /\ UNCHANGED <<msgid, awaited, accepted>>
    BY <2>1 DEF LogoutRefused, Goto
  <2> QED
    BY <2>2
<1>4. CASE \E c \in Callers : RequestLock(c)
  <2>1. PICK c \in Callers : RequestLock(c)
    BY <1>4
  <2>2. PICK s \in {"insert", "publish"} : Goto(c, s)
    BY <2>1 DEF RequestLock
  <2> QED
    BY <2>1, <2>2 DEF RequestLock, Goto
<1>5. CASE \E c \in Callers : CacheInsert(c)
  BY <1>5 DEF CacheInsert, Goto
<1>6. CASE \E c \in Callers : Publish(c)
  BY <1>6 DEF Publish, Goto
<1>7. CASE \E c \in Callers : RequestFails(c)
  BY <1>7 DEF RequestFails, Goto, EarlyUnlock
<1>8. CASE \E c \in Callers : NoSemaphore(c)
  BY <1>8 DEF NoSemaphore, Goto, EarlyUnlock
<1>9. CASE \E c \in Callers : InsertNode(c)
  BY <1>9 DEF InsertNode, Goto
<1>10. CASE \E c \in Callers : Wake(c)
  BY <1>10, SMTT(30) DEF Wake, Goto
<1>11. CASE \E c \in Callers : WaitTimeout(c)
  BY <1>11 DEF WaitTimeout, Goto
<1>12. CASE \E c \in Callers : Collect(c)
  BY <1>12, SMTT(30) DEF Collect, Goto, AfterSuccess, WithoutNode
<1>13. CASE \E c \in Callers : GiveUp(c)
  BY <1>13 DEF GiveUp, Goto, WithoutNode
<1>14. CASE \E c \in Callers : Subscribe(c)
  BY <1>14 DEF Subscribe, Goto
<1>15. CASE \E c \in Callers : Return(c)
  BY <1>15 DEF Return, Goto
<1>16. CASE \E q \in sent, code \in {"ok", "fail"} : ReadAnswer(q, code)
  BY <1>16 DEF ReadAnswer, AfterRead
<1>17. CASE UNCHANGED <<pc, msgid, awaited, accepted>>
  BY <1>17
<1> QED
  BY <1>1, <1>2, <1>3, <1>4, <1>5, <1>6, <1>7, <1>8, <1>9, <1>10, <1>11, <1>12, <1>13, <1>14,
     <1>15, <1>16, <1>17 DEF Next, CallerStep, DispatchStep, vars, Relogin, ReloginInsert,
     ReloginPublish, ApplyAnswer, SendToUser,
     RemoveAnswered, Expire, Tick, TickNothing, TickNode, NextEvent, Callback, DispatchEnd

----------------------------------------------------------------------------
\* The initial states satisfy the invariant.
LEMMA WaitInit == Init => WaitInv
<1> SUFFICES ASSUME Init
             PROVE  WaitInv
  OBVIOUS
<1>1. TypeOK
  BY NoAnswerType, UpstreamAssumption DEF Init, TypeOK, CallSteps, Types, Ids, Statuses,
     NoEvent, Events
<1>2. IdInv
  BY <1>1 DEF Init, IdInv, Busy
<1>3. OneNodePerWaiter
  BY DEF Init, OneNodePerWaiter, Waiting
<1>4. EventInv
  BY DEF Init, EventInv, NoAnswer, NoEvent
<1>5. PostInv
  BY DEF Init, PostInv
<1>6. AwaitInv
  BY DEF Init, AwaitInv, Waiting
<1> QED
  BY <1>1, <1>2, <1>3, <1>4, <1>5, <1>6 DEF WaitInv

\* Every step keeps it.
LEMMA WaitStep == WaitInv /\ [Next]_vars => WaitInv'
  BY TypeStep, IdStep, NodeStep, EventStep, PostStep, AwaitStep DEF WaitInv

\* The invariant of the whole protocol between callers, reader and dispatcher holds in every
\* reachable state, whatever the numbers of callers, sub-devices, calls and faults.
THEOREM WaitCorrect == Spec => []WaitInv
  BY WaitInit, WaitStep, PTL DEF Spec

\* Every variable of the model keeps its type.
THEOREM TypeCorrect == Spec => []TypeOK
<1>1. WaitInv => TypeOK
  BY DEF WaitInv
<1> QED
  BY <1>1, WaitCorrect, PTL

\* IOT_Linkkit_Connect and IOT_Linkkit_Report of a sub-device succeed only when the cloud has
\* accepted each request they waited for.
THEOREM AnswersCorrect == Spec => []SuccessMeansAccepted
<1>1. WaitInv => SuccessMeansAccepted
  BY DEF WaitInv, AwaitInv, SuccessMeansAccepted
<1> QED
  BY <1>1, WaitCorrect, PTL

\* upstream_sync_callback_list holds exactly the nodes of the callers that wait.
THEOREM WaitListCorrect == Spec => []OneNodePerWaiter
<1>1. WaitInv => OneNodePerWaiter
  BY DEF WaitInv
<1> QED
  BY <1>1, WaitCorrect, PTL

----------------------------------------------------------------------------
\* A caller between the size check of dm_msg_cache_insert and the end of its request holds the
\* mutex of dm_api.c.
ApiInv == \A c \in Callers : pc[c] \in {"insert", "publish"} => api_mutex = c

\* A caller, or the reader, has found room and has not inserted its request.
CallerInserts == \E c \in Callers : pc[c] = "insert"
ReaderInserts == r_pc = "insert"

\* Whoever is to insert a request has found room, but not with the other's request counted: a
\* caller and the reader may have been promised the same last place.
RoomInv ==
    /\ IsFiniteSet(cache) /\ CacheBounded
    /\ CallerInserts \/ ReaderInserts => Cardinality(cache) <= CACHE_MAX
    /\ CallerInserts /\ ReaderInserts => Cardinality(cache) < CACHE_MAX

CacheInv == TypeOK /\ ApiInv /\ RoomInv

\* Only its holder releases the mutex of dm_api.c.
LEMMA ApiStep ==
    ASSUME TypeOK, ApiInv, [Next]_vars
    PROVE  ApiInv'
<1> USE UpstreamAssumption
<1> USE DEF TypeOK, ApiInv, callVars, CallSteps
<1>1. CASE \E c \in Callers, t \in CallTypes, d \in Devices : Begin(c, t, d)
  BY <1>1 DEF Begin, Goto
<1>2. CASE \E c \in Callers : SkipRegister(c)
  BY <1>2 DEF SkipRegister
<1>3. CASE \E c \in Callers : LogoutRefused(c)
  BY <1>3 DEF LogoutRefused, Goto
<1>4. CASE \E c \in Callers : RequestLock(c)
  <2>1. PICK c \in Callers : RequestLock(c)
    BY <1>4
  <2>2. \A b \in Callers : pc[b] \notin {"insert", "publish"}
    BY <2>1 DEF RequestLock, TakeApi
  <2>3. api_mutex' = c /\ \A b \in Callers : b # c => pc'[b] = pc[b]
    BY <2>1 DEF RequestLock, TakeApi, Goto
  <2> QED
    BY <2>2, <2>3
<1>5. CASE \E c \in Callers : CacheInsert(c)
  BY <1>5 DEF CacheInsert, Goto
<1>6. CASE \E c \in Callers : Publish(c)
  BY <1>6 DEF Publish, Goto
<1>7. CASE \E c \in Callers : RequestFails(c)
  BY <1>7 DEF RequestFails, Goto, EarlyUnlock
<1>8. CASE \E c \in Callers : NoSemaphore(c)
  BY <1>8 DEF NoSemaphore, Goto, EarlyUnlock
<1>9. CASE \E c \in Callers : InsertNode(c)
  BY <1>9 DEF InsertNode, Goto
<1>10. CASE \E c \in Callers : Wake(c)
  BY <1>10 DEF Wake, Goto
<1>11. CASE \E c \in Callers : WaitTimeout(c)
  BY <1>11 DEF WaitTimeout, Goto
<1>12. CASE \E c \in Callers : Collect(c)
  BY <1>12 DEF Collect, Goto, AfterSuccess, WithoutNode
<1>13. CASE \E c \in Callers : GiveUp(c)
  BY <1>13 DEF GiveUp, Goto, WithoutNode
<1>14. CASE \E c \in Callers : Subscribe(c)
  BY <1>14 DEF Subscribe, Goto
<1>15. CASE \E c \in Callers : Return(c)
  BY <1>15 DEF Return, Goto
<1>16. CASE UNCHANGED <<pc, api_mutex>>
  BY <1>16
<1> QED
  BY <1>1, <1>2, <1>3, <1>4, <1>5, <1>6, <1>7, <1>8, <1>9, <1>10, <1>11, <1>12, <1>13, <1>14,
     <1>15, <1>16 DEF Next, CallerStep, DispatchStep, vars, ReadAnswer, Relogin, ReloginInsert,
     ReloginPublish, ApplyAnswer, SendToUser,
     RemoveAnswered, Expire, Tick, TickNothing, TickNode, NextEvent, Callback, DispatchEnd

\* Taking requests out of the cache, or exchanging one for another, makes it no larger.
LEMMA CacheShrinks ==
    ASSUME IsFiniteSet(cache), NEW e,
           \/ cache' \subseteq cache
           \/ \E f \in cache : cache' = (cache \ {f}) \cup {e}
    PROVE  IsFiniteSet(cache') /\ Cardinality(cache') <= Cardinality(cache)
<1>1. CASE cache' \subseteq cache
  BY <1>1, FS_Subset
<1>2. CASE \E f \in cache : cache' = (cache \ {f}) \cup {e}
  <2>1. PICK f \in cache : cache' = (cache \ {f}) \cup {e}
    BY <1>2
  <2>2. IsFiniteSet(cache \ {f}) /\ Cardinality(cache \ {f}) = Cardinality(cache) - 1
    BY <2>1, FS_RemoveElement
  <2>3. IsFiniteSet(cache')
    BY <2>1, <2>2, FS_AddElement
  <2>4. Cardinality(cache) \in Nat
    BY FS_CardinalityType
  <2>5. CASE e \in cache \ {f}
    <3>1. cache' = cache \ {f}
      BY <2>1, <2>5
    <3> QED
      BY <2>2, <2>3, <2>4, <3>1
  <2>6. CASE e \notin cache \ {f}
    <3>1. Cardinality(cache') = Cardinality(cache \ {f}) + 1
      BY <2>1, <2>2, <2>6, FS_AddElement
    <3> QED
      BY <2>2, <2>3, <2>4, <3>1
  <2> QED
    BY <2>5, <2>6
<1> QED
  BY <1>1, <1>2

\* A cache that does not grow keeps the promises when nobody new is promised a place.
LEMMA RoomKept ==
    ASSUME RoomInv, IsFiniteSet(cache'), Cardinality(cache') <= Cardinality(cache),
           CallerInserts' => CallerInserts, ReaderInserts' => ReaderInserts
    PROVE  RoomInv'
<1>1. Cardinality(cache) \in Nat /\ Cardinality(cache') \in Nat
  BY FS_CardinalityType DEF RoomInv
<1> QED
  BY <1>1, UpstreamAssumption DEF RoomInv, CacheBounded

\* An insertion makes the cache larger by one request at most.
LEMMA InsertedOne ==
    ASSUME IsFiniteSet(cache), NEW e, cache' = cache \cup {e}
    PROVE  /\ IsFiniteSet(cache') /\ Cardinality(cache) \in Nat
           /\ Cardinality(cache') \in {Cardinality(cache), Cardinality(cache) + 1}
  BY FS_AddElement, FS_CardinalityType

\* A caller inserts its request: no other caller is between check and insertion.
LEMMA CallerHasRoom ==
    ASSUME TypeOK, ApiInv, RoomInv, NEW c \in Callers, CacheInsert(c)
    PROVE  RoomInv'
<1> DEFINE e == [id |-> msgid[c], dev |-> dev[c], expired |-> 0]
<1>1. /\ pc[c] = "insert" /\ cache' = cache \cup {e} /\ pc' = [pc EXCEPT ![c] = "publish"]
      /\ r_pc' = r_pc
  BY DEF CacheInsert, Goto, readVars
<1>2. CallerInserts
  BY <1>1 DEF CallerInserts
<1>3. ~CallerInserts'
  BY <1>1 DEF TypeOK, ApiInv, CallerInserts
<1>4. ReaderInserts' <=> ReaderInserts
  BY <1>1 DEF ReaderInserts
<1> HIDE DEF e
<1>5. /\ IsFiniteSet(cache') /\ Cardinality(cache) \in Nat
      /\ Cardinality(cache') \in {Cardinality(cache), Cardinality(cache) + 1}
  BY <1>1, InsertedOne DEF RoomInv
<1> QED
  BY <1>2, <1>3, <1>4, <1>5, UpstreamAssumption DEF RoomInv, CacheBounded

\* The reader inserts its request.
LEMMA ReaderHasRoom ==
    ASSUME RoomInv, ReloginInsert
    PROVE  RoomInv'
<1> DEFINE e == [id |-> r_msg.id, dev |-> r_msg.dev, expired |-> 0]
<1>1. r_pc = "insert" /\ cache' = cache \cup {e} /\ r_pc' = "publish" /\ pc' = pc
  BY DEF ReloginInsert
<1>2. ReaderInserts /\ ~ReaderInserts' /\ (CallerInserts' <=> CallerInserts)
  BY <1>1 DEF ReaderInserts, CallerInserts
<1> HIDE DEF e
<1>3. /\ IsFiniteSet(cache') /\ Cardinality(cache) \in Nat
      /\ Cardinality(cache') \in {Cardinality(cache), Cardinality(cache) + 1}
  BY <1>1, InsertedOne DEF RoomInv
<1> QED
  BY <1>2, <1>3, UpstreamAssumption DEF RoomInv, CacheBounded

\* Whoever compares the limit is promised a place only if there is one at that moment.
LEMMA CheckFindsRoom ==
    ASSUME RoomInv, cache' = cache,
           CallerInserts' => CallerInserts \/ CacheHasRoom,
           ReaderInserts' => ReaderInserts \/ CacheHasRoom
    PROVE  RoomInv'
<1>1. Cardinality(cache) \in Nat
  BY FS_CardinalityType DEF RoomInv
<1> QED
  BY <1>1, UpstreamAssumption DEF RoomInv, CacheBounded, CacheHasRoom

\* The other steps take requests out of the cache, or mark one of them as expired.
LEMMA RoomStep ==
    ASSUME TypeOK, ApiInv, RoomInv, [Next]_vars
    PROVE  RoomInv'
<1>1. CASE \E c \in Callers : CacheInsert(c)
  BY <1>1, CallerHasRoom
<1>2. CASE ReloginInsert
  BY <1>2, ReaderHasRoom
<1>3. CASE \E c \in Callers : RequestLock(c)
  <2>1. cache' = cache /\ (CallerInserts' => CallerInserts \/ CacheHasRoom) /\ r_pc' = r_pc
    BY <1>3 DEF RequestLock, Goto, TypeOK, CallerInserts, readVars
  <2> QED
    BY <2>1, CheckFindsRoom DEF ReaderInserts
<1>4. CASE \E d \in Devices : Relogin(d)
  <2>1. cache' = cache /\ pc' = pc /\ (ReaderInserts' => CacheHasRoom)
    BY <1>4 DEF Relogin, ReaderInserts
  <2> QED
    BY <2>1, CheckFindsRoom DEF CallerInserts
<1>5. CASE \E e \in cache : Expire(e)
  <2>1. PICK e \in cache : Expire(e)
    BY <1>5
  <2> DEFINE f == [e EXCEPT !.expired = 1]
  <2>2. cache' = (cache \ {e}) \cup {f} /\ pc' = pc /\ r_pc' = r_pc
    BY <2>1 DEF Expire, readVars
  <2>3. IsFiniteSet(cache') /\ Cardinality(cache') <= Cardinality(cache)
    BY <2>2, CacheShrinks DEF RoomInv
  <2> QED
    BY <2>2, <2>3, RoomKept DEF CallerInserts, ReaderInserts
<1>6. CASE /\ cache' \subseteq cache
           /\ \A c \in Callers : pc'[c] = "insert" => pc[c] = "insert"
           /\ r_pc' = "insert" => r_pc = "insert"
  <2>1. IsFiniteSet(cache') /\ Cardinality(cache') <= Cardinality(cache)
    BY <1>6, CacheShrinks DEF RoomInv
  <2>2. (CallerInserts' => CallerInserts) /\ (ReaderInserts' => ReaderInserts)
    BY <1>6 DEF CallerInserts, ReaderInserts
  <2> QED
    BY <2>1, <2>2, RoomKept
<1>7. CASE \E c \in Callers, t \in CallTypes, d \in Devices : Begin(c, t, d)
  BY <1>6, <1>7 DEF Begin, Goto, TypeOK, readVars
<1>8. CASE \E c \in Callers : SkipRegister(c) \/ LogoutRefused(c) \/ Publish(c) \/ RequestFails(c)
                              \/ NoSemaphore(c)
  BY <1>6, <1>8 DEF SkipRegister, LogoutRefused, Publish, RequestFails, NoSemaphore, Goto, TypeOK,
     readVars
<1>9. CASE \E c \in Callers : InsertNode(c) \/ Wake(c) \/ WaitTimeout(c) \/ GiveUp(c)
                              \/ Subscribe(c) \/ Return(c)
  BY <1>6, <1>9 DEF InsertNode, Wake, WaitTimeout, GiveUp, Subscribe, Return, Goto, TypeOK, readVars
<1>10. CASE \E c \in Callers : Collect(c)
  BY <1>6, <1>10 DEF Collect, AfterSuccess, Goto, TypeOK, readVars
<1>11. CASE \/ \E q \in sent, code \in {"ok", "fail"} : ReadAnswer(q, code)
            \/ ApplyAnswer \/ SendToUser \/ RemoveAnswered \/ ReloginPublish
  BY <1>6, <1>11 DEF ReadAnswer, AfterRead, ApplyAnswer, SendToUser, RemoveAnswered, ReloginPublish
<1>12. CASE DispatchStep \/ UNCHANGED vars
  BY <1>6, <1>12 DEF DispatchStep, Tick, TickNothing, TickNode, NextEvent, Callback,
     DispatchEnd, vars, readVars
<1> QED
  BY <1>1, <1>2, <1>3, <1>4, <1>5, <1>7, <1>8, <1>9, <1>10, <1>11, <1>12 DEF Next, CallerStep

\* The message cache exceeds CONFIG_MSGCACHE_QUEUE_MAXLEN by one request at most, for any
\* number of callers: its limit is compared outside its mutex, and only the reader's re-login
\* runs beside the callers, which the mutex of dm_api.c keeps apart.
THEOREM CacheCorrect == Spec => []CacheBounded
<1>1. Init => CacheInv
  <2> SUFFICES ASSUME Init
               PROVE  CacheInv
    OBVIOUS
  <2>1. TypeOK
    BY WaitInit DEF WaitInv
  <2>2. ApiInv
    BY DEF Init, ApiInv
  <2>3. RoomInv
    BY FS_EmptySet, UpstreamAssumption DEF Init, RoomInv, CacheBounded, CallerInserts,
       ReaderInserts
  <2> QED
    BY <2>1, <2>2, <2>3 DEF CacheInv
<1>2. CacheInv /\ [Next]_vars => CacheInv'
  BY TypeStep, ApiStep, RoomStep DEF CacheInv
<1>3. CacheInv => CacheBounded
  BY DEF CacheInv, RoomInv
<1> QED
  BY <1>1, <1>2, <1>3, PTL DEF Spec

\* The queue of events stays within CONFIG_DISPATCH_QUEUE_MAXLEN, with the reader and the
\* dispatcher both appending to it.
THEOREM QueueCorrect == Spec => []QueueBounded
<1>1. Init => QueueBounded
  BY UpstreamAssumption DEF Init, QueueBounded
<1>2. TypeOK /\ QueueBounded /\ [Next]_vars => QueueBounded'
  <2> SUFFICES ASSUME TypeOK, QueueBounded, [Next]_vars
               PROVE  QueueBounded'
    OBVIOUS
  <2>1. queue \in Seq(Events) /\ Len(queue) \in Nat
    BY DEF TypeOK
  <2>2. \A e : Enqueue(e) => QueueBounded'
    BY <2>1, UpstreamAssumption DEF Enqueue, Queued, QueueBounded
  <2>3. CASE SendToUser \/ \E e \in cache : TickNode(e)
    BY <2>2, <2>3 DEF SendToUser, TickNode
  <2>4. CASE NextEvent
    BY <2>1, <2>4, UpstreamAssumption DEF NextEvent, QueueBounded
  <2>5. CASE queue' = queue
    BY <2>5 DEF QueueBounded
  <2>6. CASE \E c \in Callers : CallerStep(c)
    BY <2>5, <2>6 DEF CallerStep, SkipRegister, LogoutRefused, RequestLock, CacheInsert, Publish,
       RequestFails, NoSemaphore, InsertNode, Wake, WaitTimeout, Collect, GiveUp, Subscribe, Return
  <2> QED
    BY <2>3, <2>4, <2>5, <2>6 DEF Next, Begin, ReadAnswer, ApplyAnswer, RemoveAnswered, Expire,
       Relogin, ReloginInsert, ReloginPublish,
       DispatchStep, Tick, TickNothing, Callback, DispatchEnd, vars
<1> QED
  BY <1>1, <1>2, TypeCorrect, PTL DEF Spec

----------------------------------------------------------------------------
(* DmUpstream implements RequestService.                                    *)

\* A call knows the request it has drawn an id for, and the cloud answers only requests that
\* were made.
MadeInv ==
    /\ \A c \in Callers :
          /\ pc[c] = "idle" => msgid[c] = 0
          /\ pc[c] = "lock" => msgid[c] = 0 \/ msgid[c] \in awaited[c]
          /\ pc[c] \in {"subscribe", "ok"} => msgid[c] \in awaited[c]
    /\ \A q \in sent : q.id \in 1..report_id

\* So does the reader.
OwnInv == r_pc \in {"insert", "publish"} => r_msg.id \in 1..report_id

LEMMA MadeInit == Init => MadeInv /\ OwnInv
  BY DEF Init, MadeInv, OwnInv

\* The id of a re-login stays one of the ids drawn.
LEMMA OwnStep ==
    ASSUME TypeOK, OwnInv, [Next]_vars
    PROVE  OwnInv'
<1> USE DEF TypeOK, OwnInv, Ids
<1>1. CASE \E c \in Callers : RequestLock(c)
  BY <1>1 DEF RequestLock, readVars
<1>2. CASE \E d \in Devices : Relogin(d)
  BY <1>2 DEF Relogin
<1>3. CASE ReloginInsert
  BY <1>3 DEF ReloginInsert
<1>4. CASE r_pc' \notin {"insert", "publish"}
  BY <1>4
<1>5. CASE UNCHANGED <<r_pc, r_msg, report_id>>
  BY <1>5
<1>6. CASE ApplyAnswer \/ SendToUser \/ RemoveAnswered \/ ReloginPublish
           \/ \E q \in sent, code \in {"ok", "fail"} : ReadAnswer(q, code)
  BY <1>4, <1>6 DEF ApplyAnswer, SendToUser, RemoveAnswered, ReloginPublish, ReadAnswer, AfterRead
<1>7. CASE \E c \in Callers : CallerStep(c)
  BY <1>1, <1>5, <1>7 DEF CallerStep, readVars, SkipRegister, LogoutRefused, CacheInsert, Publish,
     RequestFails, NoSemaphore, InsertNode, Wake, WaitTimeout, Collect, GiveUp, Subscribe, Return
<1> QED
  BY <1>2, <1>3, <1>5, <1>6, <1>7 DEF Next, DispatchStep, vars, readVars, Begin, Expire, Tick,
     TickNothing, TickNode, NextEvent, Callback, DispatchEnd

\* What a call and the cloud know stays true.
LEMMA MadeStep ==
    ASSUME WaitInv, MadeInv, OwnInv, [Next]_vars
    PROVE  MadeInv'
<1> USE UpstreamAssumption
<1> USE DEF WaitInv, TypeOK, IdInv, AwaitInv, MadeInv, Busy, Waiting, callVars, netVars, CallSteps, Ids, Requests
<1>1. CASE \E c \in Callers, t \in CallTypes, d \in Devices : Begin(c, t, d)
  BY <1>1 DEF Begin, Goto
<1>2. CASE \E c \in Callers : SkipRegister(c)
  BY <1>2 DEF SkipRegister
<1>3. CASE \E c \in Callers : LogoutRefused(c)
  BY <1>3 DEF LogoutRefused, Goto
<1>4. CASE \E c \in Callers : RequestLock(c)
  <2>1. PICK c \in Callers : RequestLock(c)
    BY <1>4
  <2>2. PICK s \in {"insert", "publish"} : Goto(c, s)
    BY <2>1 DEF RequestLock
  <2>3. /\ report_id' = report_id + 1 /\ msgid' = [msgid EXCEPT ![c] = report_id + 1]
        /\ awaited' = awaited /\ sent' = sent
    BY <2>1 DEF RequestLock
  <2>4. \A q \in sent' : q.id \in 1..report_id'
    BY <2>3
  <2>5. \A b \in Callers :
          /\ pc'[b] = "idle" => msgid'[b] = 0
          /\ pc'[b] = "lock" => msgid'[b] = 0 \/ msgid'[b] \in awaited'[b]
          /\ pc'[b] \in {"subscribe", "ok"} => msgid'[b] \in awaited'[b]
    BY <2>2, <2>3 DEF Goto
  <2> QED
    BY <2>4, <2>5
<1>5. CASE \E c \in Callers : CacheInsert(c)
  BY <1>5 DEF CacheInsert, Goto
<1>6. CASE \E c \in Callers : Publish(c)
  <2>1. PICK c \in Callers : Publish(c)
    BY <1>6
  <2>2. /\ pc' = [pc EXCEPT ![c] = "node"] /\ UNCHANGED <<msgid, awaited, report_id>>
        /\ sent' = sent \cup {[id |-> msgid[c], type |-> type[c], dev |-> dev[c]]}
        /\ msgid[c] \in 1..report_id
    BY <2>1 DEF Publish, Goto
  <2>3. \A q \in sent' : q.id \in 1..report_id'
    BY <2>2
  <2> QED
    BY <2>2, <2>3
<1>7. CASE \E c \in Callers : RequestFails(c)
  BY <1>7 DEF RequestFails, Goto, EarlyUnlock
<1>8. CASE \E c \in Callers : NoSemaphore(c)
  BY <1>8 DEF NoSemaphore, Goto, EarlyUnlock
<1>9. CASE \E c \in Callers : InsertNode(c)
  BY <1>9 DEF InsertNode, Goto
<1>10. CASE \E c \in Callers : Wake(c)
  BY <1>10 DEF Wake, Goto
<1>11. CASE \E c \in Callers : WaitTimeout(c)
  BY <1>11 DEF WaitTimeout, Goto
<1>12. CASE \E c \in Callers : Collect(c)
  <2>1. PICK c \in Callers : Collect(c)
    BY <1>12
  <2>2. PICK s \in CallSteps : pc' = [pc EXCEPT ![c] = s]
    BY <2>1 DEF Collect, Goto, AfterSuccess
  <2>3. UNCHANGED <<msgid, awaited, report_id, sent>> /\ msgid[c] \in awaited[c] /\ s # "idle"
    BY <2>1, <2>2 DEF Collect, Goto, AfterSuccess
  <2> QED
    BY <2>2, <2>3
<1>13. CASE \E c \in Callers : GiveUp(c)
  BY <1>13 DEF GiveUp, Goto, WithoutNode
<1>14. CASE \E c \in Callers : Subscribe(c)
  BY <1>14 DEF Subscribe, Goto
<1>15. CASE \E c \in Callers : Return(c)
  BY <1>15 DEF Return, Goto
<1>16. CASE \E q \in sent, code \in {"ok", "fail"} : ReadAnswer(q, code)
  BY <1>16 DEF ReadAnswer
<1>17. CASE \E d \in Devices : Relogin(d)
  BY <1>17 DEF Relogin
<1>18. CASE ReloginPublish
  <2>1. UNCHANGED <<pc, msgid, awaited, report_id>>
    BY <1>18 DEF ReloginPublish
  <2>2. \A q \in sent' : q.id \in 1..report_id
    BY <1>18 DEF ReloginPublish, OwnInv
  <2> QED
    BY <2>1, <2>2
<1>19. CASE UNCHANGED <<pc, msgid, awaited, report_id, sent>>
  BY <1>19
<1> QED
  BY <1>1, <1>2, <1>3, <1>4, <1>5, <1>6, <1>7, <1>8, <1>9, <1>10, <1>11, <1>12, <1>13, <1>14,
     <1>15, <1>16, <1>17, <1>18, <1>19 DEF Next, ReloginInsert, CallerStep, DispatchStep, vars, ApplyAnswer, SendToUser,
     RemoveAnswered, Expire, Tick, TickNothing, TickNode, NextEvent, Callback, DispatchEnd

\* One caller goes on: its phase follows, the others' stay.
LEMMA PhaseOf ==
    ASSUME TypeOK, NEW c \in Callers, NEW s, Goto(c, s)
    PROVE  /\ \A b \in Callers : b # c => Phase(b)' = Phase(b)
           /\ Phase(c)' = IF s \in {"idle", "ok", "fail"} THEN s ELSE "busy"
  BY DEF TypeOK, Goto, Phase

\* The phases as a function.
LEMMA PhaseMap ==
    ASSUME NEW c \in Callers, NEW t, Phase(c)' = t, \A b \in Callers : b # c => Phase(b)' = Phase(b)
    PROVE  ([b \in Callers |-> Phase(b)])' = [[b \in Callers |-> Phase(b)] EXCEPT ![c] = t]
  OBVIOUS

\* Requests that are neither drawn nor waited for nor done with do not change.
LEMMA MadeSame ==
    ASSUME UNCHANGED <<msgid, awaited>>
    PROVE  \A b \in Callers : Made(b)' = Made(b)
  BY DEF Made

\* A step between two program points of the same phase stutters.
LEMMA Stutters ==
    ASSUME UNCHANGED <<report_id, accepted>>,
           \A b \in Callers : Phase(b)' = Phase(b) /\ Made(b)' = Made(b)
    PROVE  UNCHANGED RS!vars
  <1>1. /\ ([b \in Callers |-> Phase(b)])' = [b \in Callers |-> Phase(b)]
        /\ ([b \in Callers |-> Made(b)])' = [b \in Callers |-> Made(b)]
    OBVIOUS
  <1> QED
    BY <1>1 DEF RS!vars

\* A call that gives up.
LEMMA FailRefines ==
    ASSUME TypeOK, NEW c \in Callers, Goto(c, "fail"), pc[c] \notin {"idle", "ok", "fail"},
           UNCHANGED <<msgid, awaited, report_id, accepted>>
    PROVE  RS!Fail(c)
  <1>1. Phase(c) = "busy" /\ Phase(c)' = "fail" /\ \A b \in Callers : b # c => Phase(b)' = Phase(b)
    <2>1. Phase(c) = "busy"
      BY DEF Phase
    <2> QED
      BY <2>1, PhaseOf
  <1>2. ([b \in Callers |-> Phase(b)])' = [[b \in Callers |-> Phase(b)] EXCEPT ![c] = "fail"]
    BY <1>1, PhaseMap
  <1>3. ([b \in Callers |-> Made(b)])' = [b \in Callers |-> Made(b)]
    BY MadeSame
  <1> QED
    BY <1>1, <1>2, <1>3 DEF RS!Fail, RS!Enter

\* A call that has had all its answers.
LEMMA SucceedRefines ==
    ASSUME TypeOK, NEW c \in Callers, Goto(c, "ok"), pc[c] \notin {"idle", "ok", "fail"},
           UNCHANGED <<msgid, awaited, report_id, accepted>>,
           msgid[c] \in awaited[c], awaited[c] \subseteq accepted
    PROVE  RS!Succeed(c)
  <1>1. Phase(c) = "busy" /\ Phase(c)' = "ok" /\ \A b \in Callers : b # c => Phase(b)' = Phase(b)
    <2>1. Phase(c) = "busy"
      BY DEF Phase
    <2> QED
      BY <2>1, PhaseOf
  <1>2. ([b \in Callers |-> Phase(b)])' = [[b \in Callers |-> Phase(b)] EXCEPT ![c] = "ok"]
    BY <1>1, PhaseMap
  <1>3. ([b \in Callers |-> Made(b)])' = [b \in Callers |-> Made(b)]
    BY MadeSame
  <1>4. Made(c) # {} /\ Made(c) \subseteq accepted
    BY DEF Made
  <1> QED
    BY <1>1, <1>2, <1>3, <1>4 DEF RS!Succeed, RS!Enter

\* IOT_Linkkit_Connect or IOT_Linkkit_Report begins.
LEMMA BeginRefines ==
    ASSUME TypeOK, NEW c \in Callers, NEW t, NEW d, Begin(c, t, d)
    PROVE  RS!Call(c)
  <1>1. Goto(c, "lock") /\ UNCHANGED <<msgid, awaited, report_id, accepted>> /\ Phase(c) = "idle"
    BY DEF Begin, netVars, Phase
  <1>2. Phase(c)' = "busy" /\ \A b \in Callers : b # c => Phase(b)' = Phase(b)
    BY <1>1, PhaseOf
  <1>3. ([b \in Callers |-> Phase(b)])' = [[b \in Callers |-> Phase(b)] EXCEPT ![c] = "busy"]
    BY <1>2, PhaseMap
  <1>4. ([b \in Callers |-> Made(b)])' = [b \in Callers |-> Made(b)]
    BY <1>1, MadeSame
  <1> QED
    BY <1>1, <1>3, <1>4 DEF RS!Call, RS!Enter

\* The request gets its id.
LEMMA LockRefines ==
    ASSUME WaitInv, MadeInv, NEW c \in Callers, RequestLock(c)
    PROVE  RS!Issue(c)
  <1>1. /\ report_id' = report_id + 1 /\ msgid' = [msgid EXCEPT ![c] = report_id + 1]
        /\ UNCHANGED <<awaited, accepted>> /\ pc[c] = "lock"
    BY DEF RequestLock, netVars
  <1>2. PICK s \in {"insert", "publish"} : Goto(c, s)
    BY DEF RequestLock
  <1>3. Phase(c) = "busy" /\ \A b \in Callers : Phase(b)' = Phase(b)
    <2>1. Phase(c) = "busy"
      BY <1>1 DEF Phase
    <2>2. Phase(c)' = "busy" /\ \A b \in Callers : b # c => Phase(b)' = Phase(b)
      BY <1>2, PhaseOf DEF WaitInv
    <2> QED
      BY <2>1, <2>2
  <1>4. Made(c) \subseteq accepted /\ Made(c) = awaited[c]
    <2>1. awaited[c] \subseteq accepted /\ (msgid[c] = 0 \/ msgid[c] \in awaited[c])
      BY <1>1 DEF WaitInv, AwaitInv, MadeInv
    <2> QED
      BY <2>1 DEF Made
  <1>5. Made(c)' = Made(c) \cup {report_id + 1} /\ \A b \in Callers : b # c => Made(b)' = Made(b)
    <2>1. report_id \in Nat /\ msgid \in [Callers -> Nat]
      BY DEF WaitInv, TypeOK, Ids
    <2>2. msgid'[c] = report_id + 1 /\ report_id + 1 # 0 /\ \A b \in Callers : b # c => msgid'[b] = msgid[b]
      BY <1>1, <2>1
    <2> QED
      BY <1>1, <1>4, <2>2 DEF Made
  <1>6. ([b \in Callers |-> Made(b)])' = [[b \in Callers |-> Made(b)] EXCEPT ![c] = @ \cup {report_id + 1}]
    BY <1>5
  <1>7. ([b \in Callers |-> Phase(b)])' = [b \in Callers |-> Phase(b)]
    BY <1>3
  <1> QED
    BY <1>1, <1>3, <1>4, <1>6, <1>7 DEF RS!Issue

\* The call returns.
LEMMA ReturnRefines ==
    ASSUME TypeOK, NEW c \in Callers, Return(c)
    PROVE  RS!Return(c)
  <1>1. /\ Goto(c, "idle") /\ pc[c] \in {"ok", "fail"} /\ UNCHANGED <<report_id, accepted>>
        /\ msgid' = [msgid EXCEPT ![c] = 0] /\ awaited' = [awaited EXCEPT ![c] = {}]
    BY DEF Return, netVars
  <1>2. Phase(c)' = "idle" /\ \A b \in Callers : b # c => Phase(b)' = Phase(b)
    BY <1>1, PhaseOf
  <1>3. Phase(c) \in {"ok", "fail"}
    BY <1>1 DEF Phase
  <1>4. ([b \in Callers |-> Phase(b)])' = [[b \in Callers |-> Phase(b)] EXCEPT ![c] = "idle"]
    BY <1>2, PhaseMap
  <1>5. Made(c)' = {} /\ \A b \in Callers : b # c => Made(b)' = Made(b)
    BY <1>1 DEF Made, TypeOK
  <1>6. ([b \in Callers |-> Made(b)])' = [[b \in Callers |-> Made(b)] EXCEPT ![c] = {}]
    BY <1>5
  <1> QED
    BY <1>1, <1>3, <1>4, <1>6 DEF RS!Return, RS!Enter

\* The cloud answers.
LEMMA AnswerRefines ==
    ASSUME WaitInv, MadeInv, NEW q \in sent, NEW code \in {"ok", "fail"}, ReadAnswer(q, code)
    PROVE  (\E r \in 1..report_id : RS!Grant(r)) \/ UNCHANGED RS!vars
  <1>1. /\ UNCHANGED <<pc, msgid, awaited, report_id>>
        /\ accepted' = (IF code = "ok" THEN accepted \cup {q.id} ELSE accepted)
    BY DEF ReadAnswer, callVars
  <1>2. \A b \in Callers : Phase(b)' = Phase(b) /\ Made(b)' = Made(b)
    BY <1>1 DEF Phase, Made
  <1>3. CASE code = "ok"
    <2>1. q.id \in 1..report_id /\ accepted' = accepted \cup {q.id}
      BY <1>1, <1>3 DEF MadeInv
    <2>2. /\ ([b \in Callers |-> Phase(b)])' = [b \in Callers |-> Phase(b)]
          /\ ([b \in Callers |-> Made(b)])' = [b \in Callers |-> Made(b)]
      BY <1>2
    <2>3. RS!Grant(q.id)
      BY <1>1, <2>1, <2>2 DEF RS!Grant
    <2> QED
      BY <2>1, <2>3
  <1>4. CASE code # "ok"
    BY <1>1, <1>2, <1>4, Stutters
  <1> QED
    BY <1>3, <1>4

\* A caller moves between two program points of a request.
LEMMA BusyStutters ==
    ASSUME TypeOK, NEW c \in Callers, NEW s, Goto(c, s),
           pc[c] \notin {"idle", "ok", "fail"}, s \notin {"idle", "ok", "fail"},
           UNCHANGED <<report_id, accepted>>, \A b \in Callers : Made(b)' = Made(b)
    PROVE  UNCHANGED RS!vars
  <1>1. Phase(c) = "busy"
    BY DEF Phase
  <1>2. \A b \in Callers : Phase(b)' = Phase(b)
    BY <1>1, PhaseOf
  <1> QED
    BY <1>2, Stutters

\* The answer that a caller collects is its own.
LEMMA CollectRefines ==
    ASSUME WaitInv, MadeInv, NEW c \in Callers, Collect(c)
    PROVE  RS!Succeed(c) \/ RS!Fail(c) \/ UNCHANGED RS!vars
  <1>1. UNCHANGED <<msgid, awaited, report_id, accepted>> /\ pc[c] = "woken"
    BY DEF Collect, netVars
  <1>2. PICK n \in nodes : n.id = msgid[c] /\ Goto(c, IF n.code = "ok" THEN AfterSuccess(type[c]) ELSE "fail")
    BY DEF Collect
  <1>3. TypeOK /\ msgid[c] \in awaited[c] /\ awaited[c] \ {msgid[c]} \subseteq accepted
        /\ (n.code = "ok" => n.id \in accepted)
    BY <1>1, <1>2 DEF WaitInv, AwaitInv, PostInv, Waiting
  <1>4. CASE n.code # "ok"
    <2>1. Goto(c, "fail")
      BY <1>2, <1>4
    <2> QED
      BY <1>1, <1>3, <2>1, FailRefines
  <1>5. CASE n.code = "ok"
    <2>1. awaited[c] \subseteq accepted
      BY <1>2, <1>3, <1>5
    <2>2. AfterSuccess(type[c]) \in {"lock", "subscribe", "ok"} /\ Goto(c, AfterSuccess(type[c]))
      BY <1>2, <1>5 DEF AfterSuccess
    <2>3. CASE AfterSuccess(type[c]) = "ok"
      BY <1>1, <1>3, <2>1, <2>2, <2>3, SucceedRefines
    <2>4. CASE AfterSuccess(type[c]) # "ok"
      <3>1. \A b \in Callers : Made(b)' = Made(b)
        BY <1>1, MadeSame
      <3>2. AfterSuccess(type[c]) \notin {"idle", "ok", "fail"}
        BY <2>2, <2>4
      <3> QED
        BY <1>1, <1>3, <2>2, <3>1, <3>2, BusyStutters
    <2> QED
      BY <2>3, <2>4
  <1> QED
    BY <1>4, <1>5

\* Every step of a caller, of the reader and of the dispatcher is a step of the service or none.
LEMMA StepRefines ==
    ASSUME WaitInv, MadeInv, [Next]_vars
    PROVE  RS!Next \/ UNCHANGED RS!vars
<1>1. CASE \E c \in Callers, t \in CallTypes, d \in Devices : Begin(c, t, d)
  <2>1. TypeOK
    BY DEF WaitInv
  <2> QED
    BY <1>1, <2>1, BeginRefines DEF RS!Next
<1>2. ASSUME NEW c \in Callers, RequestLock(c) PROVE RS!Next
  BY <1>2, LockRefines DEF RS!Next
<1>3. ASSUME NEW c \in Callers, Collect(c) PROVE RS!Next \/ UNCHANGED RS!vars
  BY <1>3, CollectRefines DEF RS!Next
<1>4. ASSUME NEW c \in Callers, Return(c) PROVE RS!Next
  <2>1. TypeOK
    BY DEF WaitInv
  <2> QED
    BY <1>4, <2>1, ReturnRefines DEF RS!Next
<1>5. ASSUME NEW c \in Callers,
             LogoutRefused(c) \/ RequestFails(c) \/ NoSemaphore(c) \/ GiveUp(c)
      PROVE  RS!Next
  <2>1. /\ Goto(c, "fail") /\ pc[c] \notin {"idle", "ok", "fail"}
        /\ UNCHANGED <<msgid, awaited, report_id, accepted>>
    BY <1>5 DEF LogoutRefused, RequestFails, NoSemaphore, GiveUp, callVars, netVars
  <2>2. RS!Fail(c)
    BY <2>1, FailRefines DEF WaitInv
  <2> QED
    BY <2>2 DEF RS!Next
<1>6. ASSUME NEW c \in Callers, Subscribe(c) PROVE RS!Next
  <2>1. /\ pc[c] = "subscribe" /\ UNCHANGED <<msgid, awaited, report_id, accepted>>
        /\ (Goto(c, "ok") \/ Goto(c, "fail"))
    BY <1>6 DEF Subscribe, callVars, netVars
  <2>2. TypeOK /\ awaited[c] \subseteq accepted /\ msgid[c] \in awaited[c]
    BY <2>1 DEF WaitInv, AwaitInv, MadeInv
  <2>3. RS!Succeed(c) \/ RS!Fail(c)
    BY <2>1, <2>2, SucceedRefines, FailRefines
  <2> QED
    BY <2>3 DEF RS!Next
<1>7. ASSUME NEW c \in Callers, CacheInsert(c) \/ Publish(c) \/ Wake(c) \/ WaitTimeout(c)
      PROVE  UNCHANGED RS!vars
  <2>1. PICK s \in {"publish", "node", "woken", "timeout"} : Goto(c, s)
    BY <1>7 DEF CacheInsert, Publish, Wake, WaitTimeout
  <2>2. pc[c] \notin {"idle", "ok", "fail"} /\ UNCHANGED <<msgid, awaited, report_id, accepted>>
    BY <1>7 DEF CacheInsert, Publish, Wake, WaitTimeout, callVars, netVars
  <2>3. \A b \in Callers : Made(b)' = Made(b)
    BY <2>2, MadeSame
  <2> QED
    BY <2>1, <2>2, <2>3, BusyStutters DEF WaitInv
<1>8. ASSUME NEW c \in Callers, InsertNode(c) PROVE UNCHANGED RS!vars
  <2>1. /\ Goto(c, "wait") /\ pc[c] = "node" /\ UNCHANGED <<msgid, report_id, accepted>>
        /\ awaited' = [awaited EXCEPT ![c] = @ \cup {msgid[c]}]
    BY <1>8 DEF InsertNode, netVars
  <2>2. msgid[c] # 0 /\ awaited \in [Callers -> SUBSET Ids]
    BY <2>1 DEF WaitInv, TypeOK, IdInv, Busy
  <2>3. \A b \in Callers : Made(b)' = Made(b)
    BY <2>1, <2>2 DEF Made
  <2> QED
    BY <2>1, <2>3, BusyStutters DEF WaitInv
<1>9. ASSUME NEW q \in sent, NEW code \in {"ok", "fail"}, ReadAnswer(q, code)
      PROVE  RS!Next \/ UNCHANGED RS!vars
  BY <1>9, AnswerRefines DEF RS!Next
<1>10. ASSUME UNCHANGED <<pc, msgid, awaited, report_id, accepted>> PROVE UNCHANGED RS!vars
  <2>1. \A b \in Callers : Phase(b)' = Phase(b) /\ Made(b)' = Made(b)
    BY <1>10 DEF Phase, Made
  <2> QED
    BY <1>10, <2>1, Stutters
<1>11. ASSUME \E c \in Callers : SkipRegister(c) PROVE UNCHANGED <<pc, msgid, awaited, report_id, accepted>>
  BY <1>11 DEF SkipRegister, netVars
<1>12. ASSUME UNCHANGED vars \/ ApplyAnswer \/ SendToUser \/ RemoveAnswered \/ (\E e \in cache : Expire(e))
              \/ DispatchStep \/ ReloginInsert \/ ReloginPublish
       PROVE  UNCHANGED <<pc, msgid, awaited, report_id, accepted>>
  BY <1>12 DEF DispatchStep, vars, callVars, netVars, ApplyAnswer, SendToUser, RemoveAnswered,
     ReloginInsert, ReloginPublish, Expire, Tick, TickNothing, TickNode, NextEvent, Callback,
     DispatchEnd
<1>13. CASE \E c \in Callers : CallerStep(c)
  <2>1. PICK c \in Callers : CallerStep(c)
    BY <1>13
  <2> QED
    BY <2>1, <1>2, <1>3, <1>4, <1>5, <1>6, <1>7, <1>8, <1>10, <1>11 DEF CallerStep
<1>14. ASSUME NEW d \in Devices, Relogin(d) PROVE RS!Next
  <2>1. UNCHANGED <<pc, msgid, awaited, accepted>> /\ report_id' = report_id + 1
    BY <1>14 DEF Relogin, callVars, netVars
  <2>2. \A b \in Callers : Phase(b)' = Phase(b) /\ Made(b)' = Made(b)
    BY <2>1 DEF Phase, Made
  <2>3. /\ ([b \in Callers |-> Phase(b)])' = [b \in Callers |-> Phase(b)]
        /\ ([b \in Callers |-> Made(b)])' = [b \in Callers |-> Made(b)]
    BY <2>2
  <2>4. RS!IssueOwn
    BY <2>1, <2>3 DEF RS!IssueOwn
  <2> QED
    BY <2>4 DEF RS!Next
<1> QED
  BY <1>1, <1>9, <1>10, <1>12, <1>13, <1>14 DEF Next

\* The gateway's calls implement the request service, whatever the numbers of callers,
\* sub-devices, calls and faults and the limits of cache and queue: requests of a call are made
\* one after the other, each after the cloud has accepted the one before, and
\* IOT_Linkkit_Connect and IOT_Linkkit_Report succeed only when all of them were accepted.
THEOREM Refinement == Spec => AnswersRequests
<1>1. Init => RS!Init
  <2> SUFFICES ASSUME Init PROVE RS!Init
    OBVIOUS
  <2>1. \A c \in Callers : Phase(c) = "idle" /\ Made(c) = {}
    BY DEF Init, Phase, Made
  <2> QED
    BY <2>1 DEF Init, RS!Init
<1>2. WaitInv /\ MadeInv /\ [Next]_vars => [RS!Next]_(RS!vars)
  BY StepRefines
<1>3. WaitInv /\ MadeInv /\ OwnInv /\ [Next]_vars => MadeInv' /\ OwnInv'
  BY MadeStep, OwnStep DEF WaitInv
<1>4. Spec => RS!Spec
  BY <1>1, <1>2, <1>3, MadeInit, WaitInit, WaitStep, PTL DEF Spec, RS!Spec
<1> QED
  BY <1>4 DEF AnswersRequests
===========================================================================
