------------------------ MODULE MqttSubscribe_proofs ------------------------
(***************************************************************************)
(* Proofs about MqttSubscribe, for any threads, filters and bounds: the    *)
(* type invariant, the ownership of the wait nodes, what a successful      *)
(* synchronous subscription means, that no handler is listed twice, that   *)
(* a callback never waits for its own thread, and that a delivery reaches  *)
(* every handler exactly once.                                             *)
(***************************************************************************)
EXTENDS MqttSubscribe, LinkedList_proofs

Waiting == {"node", "yield", "yielding", "check", "top", "expired"}

\* Where the threads and the callback are tells who holds lock_yield and _in_yield_cb.
LockInv ==
    /\ lock_yield = "none" <=> y_pc = "none"
    /\ \A t \in Threads : pc[t] = "yielding" <=> lock_yield = t
    /\ in_yield_cb <=> y_pc = "callback"
    /\ pc["cb"] # "idle" => y_pc \in {"callback", "disconnect", "reconnect"}
    /\ pc["cb"] \in Waiting => y_pc # "callback"
    /\ pc["cb"] # "yielding"

\* What a caller at label l knows of its request r, when n ids have been drawn.
CallOK(l, r, n) ==
    /\ r.id <= n
    /\ r.ret = -1 \/ (r.ret = r.id /\ r.id > 0)
    /\ l \in {"sub", "send", "add"} => r.ret = -1
    /\ l \in {"send", "add"} => r.id > 0
    /\ l \in {"idle", "unsub", "unsend", "remove"} => ~r.sync
    /\ l \in {"node", "check", "top", "expired"} => r.sync
    /\ r.subed => r.sync /\ r.ret # -1 /\ l \in Waiting

\* Every request has an id of its own; what a call returns, and waits for, is its id.
CallInv ==
    /\ \A c \in Callers : CallOK(pc[c], call[c], packet_id)
    /\ \A c, d \in Callers : c # d /\ call[c].id > 0 => call[c].id # call[d].id

\* A handler is known by the id of its subscription.
HandlerIdInv ==
    /\ \A h \in ToSet(list_sub_handle) \cup y_removed : h.id \in 1..packet_id
    /\ \A c \in Callers : pc[c] \in {"send", "add"} =>
          \A h \in ToSet(list_sub_handle) \cup y_removed : h.id # call[c].id
    /\ \A i, j \in DOMAIN list_sub_handle : list_sub_handle[i].id = list_sub_handle[j].id => i = j

\* Whoever read the acknowledgement, and wherever it is, it says what the broker said.
AckInv ==
    /\ \A i \in DOMAIN list_sub_sync_ack :
          list_sub_sync_ack[i].ack_type = "SUCCESS" => list_sub_sync_ack[i].packet_id \in granted
    /\ \A i \in DOMAIN down : down[i].type = "SUBACK" /\ down[i].ok => down[i].id \in granted

NoneFreed == ToSet(y_called) \cap y_removed = {}

\* The walk has passed the first cur nodes of the list: of those, it has called the
\* matching ones, each once, and no other one.
Passed(cur) ==
    /\ IF y_node = 0 THEN cur = 0 ELSE cur > 0 /\ list_sub_handle[cur].id = y_node
    /\ \A k \in DOMAIN y_called : \E i \in 1..cur : list_sub_handle[i] = y_called[k]
    /\ \A i \in 1..cur :
          Delivers(list_sub_handle[i].filter, y_name) => list_sub_handle[i] \in ToSet(y_called)

Distinct(s) == \A j, k \in DOMAIN s : s[j] = s[k] => j = k

Walking ==
    /\ ToSet(y_start) \subseteq ToSet(list_sub_handle) \cup y_removed
    /\ y_node # 0 => y_called # << >> /\ y_called[Len(y_called)].id = y_node
    /\ NoneFreed => Distinct(y_called) /\ \E cur \in 0..Len(list_sub_handle) : Passed(cur)

\* Every matching handler that was there all the time has been called.
Walked ==
    NoneFreed =>
        /\ Distinct(y_called)
        /\ \A i \in DOMAIN y_start :
              Delivers(y_start[i].filter, y_name) /\ y_start[i] \notin y_removed =>
                  y_start[i] \in ToSet(y_called)

WalkInv ==
    /\ y_pc \in {"none", "read", "disconnect", "reconnect"} => y_start = << >> /\ y_called = << >>
    /\ y_pc = "walk" \/ (y_pc = "callback" /\ y_node # 0) => Walking
    /\ y_pc = "after" \/ (y_pc = "callback" /\ y_node = 0) => Walked

IInv ==
    /\ TypeOK /\ LockInv /\ CallInv /\ HandlerIdInv /\ AckInv
    /\ SyncNodesOwned /\ SyncSuccessIsGranted /\ HandlersDistinct
    /\ WalkInv

-----------------------------------------------------------------------------
(* Facts about the constants, and what a step leaves alone.                    *)

LEMMA NoCallFacts ==
    /\ NoCall \in Call
    /\ NoCall.id = 0 /\ NoCall.ret = -1 /\ ~NoCall.sync /\ ~NoCall.subed
  <1>1. (CHOOSE f \in Filters : TRUE) \in Filters /\ (CHOOSE h \in Handles : TRUE) \in Handles
    BY InhabitedAssumption
  <1> QED
    BY <1>1 DEF NoCall, Call

LEMMA CallFields ==
    \A r \in Call :
        /\ \A n \in Nat : [r EXCEPT !.id = n] \in Call
        /\ \A k \in Int : [r EXCEPT !.ret = k] \in Call /\ [r EXCEPT !.ret = k, !.subed = FALSE] \in Call
        /\ \A f \in Filters : [r EXCEPT !.filter = f] \in Call
        /\ [r EXCEPT !.subed = TRUE] \in Call
  BY DEF Call

LEMMA GotoFacts ==
    ASSUME TypeOK, NEW c \in Callers, NEW l \in Label, Goto(c, l)
    PROVE  /\ pc' \in [Callers -> Label] /\ pc'[c] = l
           /\ \A d \in Callers \ {c} : pc'[d] = pc[d]
  BY DEF TypeOK, Goto

LEMMA ReturnFacts ==
    ASSUME TypeOK, NEW c \in Callers, NEW ret \in Int, NEW early \in BOOLEAN, Return(c, ret, early)
    PROVE  /\ pc' \in [Callers -> Label] /\ pc'[c] = "idle"
           /\ call' \in [Callers -> Call] /\ call'[c] = NoCall
           /\ \A d \in Callers \ {c} : pc'[d] = pc[d] /\ call'[d] = call[d]
           /\ returned' \subseteq Result
  <1>1. /\ pc' \in [Callers -> Label] /\ pc'[c] = "idle"
        /\ \A d \in Callers \ {c} : pc'[d] = pc[d]
    BY DEF TypeOK, Return, Goto, Label
  <1>2. /\ call' \in [Callers -> Call] /\ call'[c] = NoCall
        /\ \A d \in Callers \ {c} : call'[d] = call[d]
    BY NoCallFacts DEF TypeOK, Return
  <1>3. (ret \in granted) \in BOOLEAN
    OBVIOUS
  <1>4. [early |-> early, acked |-> ret \in granted] \in Result
    BY <1>3, Zenon DEF Result
  <1>5. returned' \subseteq Result
    BY <1>4 DEF TypeOK, Return
  <1> QED
    BY <1>1, <1>2, <1>5

LEMMA EmptySeqs ==
    << >> \in Seq(Packet) /\ << >> \in Seq(Handler) /\ << >> \in Seq(SyncNode)
  BY EmptySeq

LEMMA OwnedFrame ==
    ASSUME SyncNodesOwned, UNCHANGED list_sub_sync_ack,
           \A t \in Callers : pc[t] \in Waiting /\ call[t].subed =>
               pc'[t] \in Waiting /\ call'[t].subed /\ call'[t].ret = call[t].ret
    PROVE  SyncNodesOwned'
  BY DEF SyncNodesOwned, Waiting

\* Only caller c moves: its id stays, is reset or is drawn anew.
LEMMA CallStepInv ==
    ASSUME TypeOK, CallInv, NEW c \in Callers,
           packet_id' \in Nat, packet_id' >= packet_id,
           \A d \in Callers \ {c} : pc'[d] = pc[d] /\ call'[d] = call[d],
           call'[c].id \in {0, call[c].id} \/ call'[c].id = packet_id + 1,
           CallOK(pc'[c], call'[c], packet_id')
    PROVE  CallInv'
  <1>1. packet_id \in Nat /\ \A d \in Callers : call[d].id \in Nat /\ call[d].id <= packet_id
    BY DEF TypeOK, Call, CallInv, CallOK
  <1>2. \A d \in Callers : CallOK(pc'[d], call'[d], packet_id')
    <2>1. ASSUME NEW d \in Callers, d # c
          PROVE  CallOK(pc'[d], call'[d], packet_id')
      <3>1. CallOK(pc[d], call[d], packet_id) /\ pc'[d] = pc[d] /\ call'[d] = call[d]
        BY <2>1 DEF CallInv
      <3> QED
        BY <1>1, <3>1 DEF CallOK
    <2> QED
      BY <2>1
  <1>3. ASSUME NEW d \in Callers, NEW e \in Callers, d # e, call'[d].id > 0
        PROVE  call'[d].id # call'[e].id
    <2>1. CASE d # c /\ e # c
      BY <1>3, <2>1 DEF CallInv
    <2>2. CASE d = c
      BY <1>1, <1>3, <2>2 DEF CallInv
    <2>3. CASE e = c
      BY <1>1, <1>3, <2>3 DEF CallInv
    <2> QED
      BY <2>1, <2>2, <2>3
  <1> QED
    BY <1>2, <1>3 DEF CallInv

\* Caller c returns.
LEMMA ReturnCallInv ==
    ASSUME TypeOK, CallInv, NEW c \in Callers,
           packet_id' \in Nat, packet_id' >= packet_id,
           \A d \in Callers \ {c} : pc'[d] = pc[d] /\ call'[d] = call[d],
           pc'[c] = "idle", call'[c] = NoCall
    PROVE  CallInv'
  <1>1. CallOK(pc'[c], call'[c], packet_id')
    BY NoCallFacts DEF CallOK
  <1>2. call'[c].id \in {0, call[c].id}
    BY NoCallFacts
  <1> QED
    BY <1>1, <1>2, CallStepInv, Zenon

\* The nodes of caller c leave the list, which keeps the others.
LEMMA NodesRemoved ==
    ASSUME TypeOK, SyncNodesOwned, NEW c \in Callers,
           \A d \in Callers \ {c} : pc'[d] = pc[d] /\ call'[d] = call[d],
           NEW f \in [DOMAIN list_sub_sync_ack' -> DOMAIN list_sub_sync_ack],
           \A i, j \in DOMAIN list_sub_sync_ack' : f[i] = f[j] => i = j,
           \A i \in DOMAIN list_sub_sync_ack' :
               /\ list_sub_sync_ack'[i] = list_sub_sync_ack[f[i]]
               /\ list_sub_sync_ack[f[i]].packet_id # call[c].ret
    PROVE  SyncNodesOwned'
  <1> DEFINE s == list_sub_sync_ack
  <1> HIDE DEF s
  <1>1. ASSUME NEW i \in DOMAIN s'
        PROVE  \E t \in Callers : pc'[t] \in Waiting /\ call'[t].subed /\ call'[t].ret = s'[i].packet_id
    <2>1. f[i] \in DOMAIN s /\ s'[i] = s[f[i]] /\ s[f[i]].packet_id # call[c].ret
      BY DEF s
    <2>2. PICK t \in Callers : pc[t] \in Waiting /\ call[t].subed /\ call[t].ret = s[f[i]].packet_id
      BY <2>1 DEF SyncNodesOwned, Waiting, s
    <2>3. t # c
      BY <2>1, <2>2
    <2> QED
      BY <2>1, <2>2, <2>3
  <1>2. ASSUME NEW i \in DOMAIN s', NEW j \in DOMAIN s', s'[i].packet_id = s'[j].packet_id
        PROVE  i = j
    <2>1. f[i] \in DOMAIN s /\ f[j] \in DOMAIN s /\ s[f[i]].packet_id = s[f[j]].packet_id
      BY <1>2 DEF s
    <2>2. f[i] = f[j]
      BY <2>1 DEF SyncNodesOwned, s
    <2> QED
      BY <2>2 DEF s
  <1> QED
    BY <1>1, <1>2 DEF SyncNodesOwned, Waiting, s

LEMMA HandlersFrame ==
    ASSUME HandlersDistinct, UNCHANGED list_sub_handle
    PROVE  HandlersDistinct'
  BY DEF HandlersDistinct

LEMMA AckFrame ==
    ASSUME AckInv, UNCHANGED <<list_sub_sync_ack, down, granted>>
    PROVE  AckInv'
  BY DEF AckInv

LEMMA ReturnedFrame ==
    ASSUME SyncSuccessIsGranted, UNCHANGED returned
    PROVE  SyncSuccessIsGranted'
  BY DEF SyncSuccessIsGranted

LEMMA WalkFrame ==
    ASSUME WalkInv, UNCHANGED <<list_sub_handle, y_pc, y_name, y_node, walkVars>>
    PROVE  WalkInv'
  BY DEF WalkInv, Walking, Walked, Passed, Distinct, NoneFreed, walkVars

-----------------------------------------------------------------------------
(* Every step keeps the invariant.                                          *)

LEMMA SubscribeInv ==
    ASSUME IInv, NEW c \in Callers, NEW f \in Filters, NEW h \in Handles, NEW sync \in BOOLEAN, Subscribe(c, f, h, sync)
    PROVE  IInv'
  <1> USE DEF IInv
  <1>1. TypeOK'
    BY NoCallFacts DEF Subscribe, MayCall, Goto, TypeOK, Label, Callers, Call, clientVars, callVars, yieldVars, brokerVars, walkVars, boundVars
  <1>2. LockInv'
    BY ThreadsAssumption DEF Subscribe, MayCall, Goto, TypeOK, LockInv, Waiting, Callers, clientVars, callVars, yieldVars, brokerVars, walkVars, boundVars
  <1>3. CallInv'
    BY NoCallFacts, SMTT(30) DEF Subscribe, MayCall, Goto, TypeOK, CallInv, CallOK, Waiting, Callers, Call, clientVars, callVars, yieldVars, brokerVars, walkVars, boundVars
  <1>4. HandlerIdInv'
    BY NoCallFacts DEF Subscribe, MayCall, Goto, TypeOK, CallInv, CallOK, HandlerIdInv, Call, clientVars, callVars, yieldVars, brokerVars, walkVars, boundVars
  <1>5. AckInv'
    BY AckFrame DEF Subscribe, MayCall, Goto, brokerVars
  <1>6. SyncNodesOwned'
    BY NoCallFacts DEF Subscribe, MayCall, Goto, TypeOK, CallInv, CallOK, SyncNodesOwned, Waiting, Call, clientVars, callVars, yieldVars, brokerVars, walkVars, boundVars
  <1>7. SyncSuccessIsGranted'
    BY ReturnedFrame DEF Subscribe, MayCall, Goto
  <1>8. HandlersDistinct'
    BY HandlersFrame DEF Subscribe, MayCall, Goto
  <1>9. WalkInv'
    BY WalkFrame DEF Subscribe, MayCall, Goto, yieldVars
  <1> QED
    BY <1>1, <1>2, <1>3, <1>4, <1>5, <1>6, <1>7, <1>8, <1>9

LEMMA UnsubscribeInv ==
    ASSUME IInv, NEW c \in Callers, NEW f \in Filters, Unsubscribe(c, f)
    PROVE  IInv'
  <1> USE DEF IInv
  <1>1. TypeOK'
    <2>1. [NoCall EXCEPT !.filter = f] \in Call
      BY NoCallFacts, CallFields
    <2>2. pc' \in [Callers -> Label]
      BY GotoFacts DEF Unsubscribe, Label
    <2>3. call' \in [Callers -> Call]
      BY <2>1 DEF TypeOK, Unsubscribe
    <2> QED
      BY <2>2, <2>3 DEF TypeOK, Unsubscribe, clientVars, yieldVars, brokerVars, walkVars
  <1>2. LockInv'
    BY ThreadsAssumption DEF Unsubscribe, MayCall, Goto, TypeOK, LockInv, Waiting, Callers, clientVars, callVars, yieldVars, brokerVars, walkVars, boundVars
  <1>3. CallInv'
    <2>1. [NoCall EXCEPT !.filter = f].id = 0 /\ [NoCall EXCEPT !.filter = f].ret = -1
          /\ ~[NoCall EXCEPT !.filter = f].sync /\ ~[NoCall EXCEPT !.filter = f].subed
      BY NoCallFacts DEF NoCall
    <2>2. /\ pc'[c] = "unsub" /\ call'[c] = [NoCall EXCEPT !.filter = f]
          /\ \A d \in Callers \ {c} : pc'[d] = pc[d] /\ call'[d] = call[d]
      BY GotoFacts DEF TypeOK, Unsubscribe, Label
    <2>3. packet_id' = packet_id /\ packet_id \in Nat /\ \A d \in Callers : call[d].id \in Nat
      BY DEF Unsubscribe, TypeOK, Call, clientVars
    <2>4. call'[c].id = 0 /\ call'[c].ret = -1 /\ ~call'[c].sync /\ ~call'[c].subed
      BY <2>1, <2>2
    <2>5. CallOK(pc'[c], call'[c], packet_id')
      BY <2>2, <2>3, <2>4 DEF CallOK
    <2>6. packet_id' \in Nat /\ packet_id' >= packet_id /\ call'[c].id \in {0, call[c].id}
          /\ \A d \in Callers \ {c} : pc'[d] = pc[d] /\ call'[d] = call[d]
      BY <2>2, <2>3, <2>4
    <2> QED
      BY <2>5, <2>6, CallStepInv, Zenon
  <1>4. HandlerIdInv'
    BY NoCallFacts DEF Unsubscribe, MayCall, Goto, TypeOK, CallInv, CallOK, HandlerIdInv, Call, clientVars, callVars, yieldVars, brokerVars, walkVars, boundVars
  <1>5. AckInv'
    BY AckFrame DEF Unsubscribe, MayCall, Goto, brokerVars
  <1>6. SyncNodesOwned'
    BY NoCallFacts DEF Unsubscribe, MayCall, Goto, TypeOK, CallInv, CallOK, SyncNodesOwned, Waiting, Call, clientVars, callVars, yieldVars, brokerVars, walkVars, boundVars
  <1>7. SyncSuccessIsGranted'
    BY ReturnedFrame DEF Unsubscribe, MayCall, Goto
  <1>8. HandlersDistinct'
    BY HandlersFrame DEF Unsubscribe, MayCall, Goto
  <1>9. WalkInv'
    BY WalkFrame DEF Unsubscribe, MayCall, Goto, yieldVars
  <1> QED
    BY <1>1, <1>2, <1>3, <1>4, <1>5, <1>6, <1>7, <1>8, <1>9

LEMMA SubCheckInv ==
    ASSUME IInv, NEW c \in Callers, SubCheck(c)
    PROVE  IInv'
  <1> USE DEF IInv
  <1>0. /\ call' \in [Callers -> Call] /\ pc' \in [Callers -> Label]
        /\ \A d \in Callers \ {c} : pc'[d] = pc[d] /\ call'[d] = call[d]
        /\ call'[c].ret = call[c].ret /\ call'[c].sync = call[c].sync /\ call'[c].subed = call[c].subed
        /\ \/ pc'[c] = "send" /\ call'[c].id = packet_id + 1
           \/ pc'[c] = "subret" /\ call'[c].id = call[c].id
    <2>0. call[c] \in Call /\ packet_id + 1 \in Nat
      BY DEF TypeOK
    <2>1. [call[c] EXCEPT !.id = packet_id + 1] \in Call
      BY <2>0, CallFields, Zenon
    <2>2. CASE Goto(c, "send") /\ call' = [call EXCEPT ![c].id = packet_id + 1]
      BY <2>0, <2>1, <2>2, GotoFacts DEF TypeOK, Label, Call
    <2>3. CASE Goto(c, "subret") /\ UNCHANGED call
      BY <2>0, <2>3, GotoFacts DEF TypeOK, Label
    <2> QED
      BY <2>2, <2>3 DEF SubCheck
  <1>1. TypeOK'
    BY <1>0 DEF TypeOK, SubCheck, clientVars, yieldVars, brokerVars, walkVars, boundVars
  <1>2. LockInv'
    BY ThreadsAssumption DEF SubCheck, Goto, TypeOK, LockInv, Waiting, Callers, clientVars, callVars, yieldVars, brokerVars, walkVars, boundVars
  <1>3. CallInv'
    <2>1. packet_id' = packet_id + 1 /\ pc[c] = "sub" /\ packet_id \in Nat
          /\ \A d \in Callers : call[d].id \in Nat
      BY DEF SubCheck, TypeOK, Call
    <2> QED
      BY <1>0, <2>1 DEF CallInv, CallOK, Waiting
  <1>4. HandlerIdInv'
    <2>1. packet_id' = packet_id + 1 /\ packet_id \in Nat
          /\ UNCHANGED <<list_sub_handle, y_removed>>
      BY DEF SubCheck, TypeOK, walkVars
    <2> QED
      BY <1>0, <2>1 DEF HandlerIdInv
  <1>5. AckInv'
    BY AckFrame DEF SubCheck, Goto, brokerVars
  <1>6. SyncNodesOwned'
    BY <1>0, OwnedFrame DEF SubCheck, Waiting
  <1>7. SyncSuccessIsGranted'
    BY ReturnedFrame DEF SubCheck, Goto
  <1>8. HandlersDistinct'
    BY HandlersFrame DEF SubCheck, Goto
  <1>9. WalkInv'
    BY WalkFrame DEF SubCheck, Goto, yieldVars
  <1> QED
    BY <1>1, <1>2, <1>3, <1>4, <1>5, <1>6, <1>7, <1>8, <1>9

LEMMA SubSendOkInv ==
    ASSUME IInv, NEW c \in Callers, NEW nack \in BOOLEAN, SubSendOk(c, nack)
    PROVE  IInv'
  <1> USE DEF IInv
  <1>1. TypeOK'
    <2>1. pc' \in [Callers -> Label]
      BY GotoFacts DEF SubSendOk, Label
    <2>2. call[c].id \in Nat /\ call[c].filter \in Filters
      BY DEF TypeOK, Call
    <2>3. (~nack) \in BOOLEAN
      BY Zenon
    <2>4. [type |-> "SUBACK", id |-> call[c].id, ok |-> ~nack] \in Packet
      BY <2>2, <2>3, Zenon DEF Packet
    <2>5. down' \in Seq(Packet)
      BY <2>4, AppendProperties DEF TypeOK, SubSendOk
    <2>6. faults' \in Nat
      BY DEF TypeOK, SubSendOk, Fault
    <2>7. granted' \subseteq Nat /\ subs' \subseteq Filters
      BY <2>2 DEF TypeOK, SubSendOk
    <2> QED
      BY <2>1, <2>5, <2>6, <2>7 DEF TypeOK, SubSendOk, clientVars, yieldVars, walkVars
  <1>2. LockInv'
    BY ThreadsAssumption DEF SubSendOk, Goto, Fault, TypeOK, LockInv, Waiting, Callers, clientVars, callVars, yieldVars, brokerVars, walkVars, boundVars
  <1>3. CallInv'
    BY NoCallFacts DEF SubSendOk, Goto, Fault, TypeOK, CallInv, CallOK, Waiting, Callers, Call, clientVars, callVars, yieldVars, brokerVars, walkVars, boundVars
  <1>4. HandlerIdInv'
    BY NoCallFacts DEF SubSendOk, Goto, Fault, TypeOK, CallInv, CallOK, HandlerIdInv, Call, clientVars, callVars, yieldVars, brokerVars, walkVars, boundVars
  <1>5. AckInv'
    <2>1. UNCHANGED list_sub_sync_ack /\ granted \subseteq granted'
      BY DEF SubSendOk
    <2>2. ASSUME NEW i \in DOMAIN down', down'[i].type = "SUBACK", down'[i].ok
          PROVE  down'[i].id \in granted'
      <3>1. down \in Seq(Packet) /\ Len(down) \in Nat
        BY DEF TypeOK
      <3>2. CASE i \in DOMAIN down
        <4>1. down'[i] = down[i]
          BY <3>1, <3>2 DEF SubSendOk
        <4> QED
          BY <2>1, <2>2, <3>2, <4>1 DEF AckInv
      <3>3. CASE i \notin DOMAIN down
        <4>1. i = Len(down) + 1
          BY <3>1, <3>3 DEF SubSendOk
        <4>2. down'[i] = [type |-> "SUBACK", id |-> call[c].id, ok |-> ~nack]
          BY <3>1, <4>1 DEF SubSendOk
        <4>3. ~nack
          <5>1. [type |-> "SUBACK", id |-> call[c].id, ok |-> ~nack].ok = (~nack)
            OBVIOUS
          <5> QED
            BY <2>2, <4>2, <5>1, Zenon
        <4> QED
          BY <4>2, <4>3 DEF SubSendOk
      <3> QED
        BY <3>2, <3>3
    <2> QED
      BY <2>1, <2>2 DEF AckInv
  <1>6. SyncNodesOwned'
    BY NoCallFacts DEF SubSendOk, Goto, Fault, TypeOK, CallInv, CallOK, SyncNodesOwned, Waiting, Call, clientVars, callVars, yieldVars, brokerVars, walkVars, boundVars
  <1>7. SyncSuccessIsGranted'
    BY ReturnedFrame DEF SubSendOk, Goto, Fault
  <1>8. HandlersDistinct'
    BY HandlersFrame DEF SubSendOk, Goto, Fault
  <1>9. WalkInv'
    BY WalkFrame DEF SubSendOk, Goto, Fault, yieldVars
  <1> QED
    BY <1>1, <1>2, <1>3, <1>4, <1>5, <1>6, <1>7, <1>8, <1>9

LEMMA SubNoMemoryInv ==
    ASSUME IInv, NEW c \in Callers, SubNoMemory(c)
    PROVE  IInv'
  <1> USE DEF IInv
  <1>1. TypeOK'
    <2>1. pc' \in [Callers -> Label]
      BY GotoFacts DEF SubNoMemory, Label
    <2> QED
      BY <2>1 DEF TypeOK, SubNoMemory, Fault, clientVars, yieldVars, brokerVars, walkVars
  <1>2. LockInv'
    BY ThreadsAssumption DEF SubNoMemory, Goto, Fault, TypeOK, LockInv, Waiting, Callers, clientVars, callVars, yieldVars, brokerVars, walkVars, boundVars
  <1>3. CallInv'
    BY NoCallFacts DEF SubNoMemory, Goto, Fault, TypeOK, CallInv, CallOK, Waiting, Callers, Call, clientVars, callVars, yieldVars, brokerVars, walkVars, boundVars
  <1>4. HandlerIdInv'
    BY NoCallFacts DEF SubNoMemory, Goto, Fault, TypeOK, CallInv, CallOK, HandlerIdInv, Call, clientVars, callVars, yieldVars, brokerVars, walkVars, boundVars
  <1>5. AckInv'
    BY AckFrame DEF SubNoMemory, Goto, Fault, brokerVars
  <1>6. SyncNodesOwned'
    BY NoCallFacts DEF SubNoMemory, Goto, Fault, TypeOK, CallInv, CallOK, SyncNodesOwned, Waiting, Call, clientVars, callVars, yieldVars, brokerVars, walkVars, boundVars
  <1>7. SyncSuccessIsGranted'
    BY ReturnedFrame DEF SubNoMemory, Goto, Fault
  <1>8. HandlersDistinct'
    BY HandlersFrame DEF SubNoMemory, Goto, Fault
  <1>9. WalkInv'
    BY WalkFrame DEF SubNoMemory, Goto, Fault, yieldVars
  <1> QED
    BY <1>1, <1>2, <1>3, <1>4, <1>5, <1>6, <1>7, <1>8, <1>9

LEMMA SubSendFailInv ==
    ASSUME IInv, NEW c \in Callers, SubSendFail(c)
    PROVE  IInv'
  <1> USE DEF IInv
  <1>1. TypeOK'
    <2>1. pc' \in [Callers -> Label]
      BY GotoFacts DEF SubSendFail, Label
    <2>2. faults' \in Nat
      BY DEF TypeOK, SubSendFail, Break, Fault
    <2>3. down' \in Seq(Packet)
      BY EmptySeqs DEF TypeOK, SubSendFail, Break
    <2> QED
      BY <2>1, <2>2, <2>3 DEF TypeOK, SubSendFail, yieldVars, walkVars
  <1>2. LockInv'
    BY ThreadsAssumption DEF SubSendFail, Goto, Break, Fault, TypeOK, LockInv, Waiting, Callers, clientVars, callVars, yieldVars, brokerVars, walkVars, boundVars
  <1>3. CallInv'
    <2>0. PICK l \in {"subret", "neterr"} : Goto(c, l)
      BY DEF SubSendFail
    <2>1. UNCHANGED <<packet_id, call>> /\ pc[c] = "send"
      BY DEF SubSendFail
    <2>2. ASSUME NEW d \in Callers
          PROVE  CallOK(pc'[d], call'[d], packet_id')
      <3>1. CallOK(pc[d], call[d], packet_id)
        BY DEF CallInv
      <3>2. pc'[d] = IF d = c THEN l ELSE pc[d]
        BY <2>0 DEF Goto, TypeOK
      <3> QED
        BY <2>0, <2>1, <3>1, <3>2 DEF CallOK, Waiting
    <2> QED
      BY <2>1, <2>2 DEF CallInv
  <1>4. HandlerIdInv'
    BY NoCallFacts DEF SubSendFail, Goto, Break, Fault, TypeOK, CallInv, CallOK, HandlerIdInv, Call, clientVars, callVars, yieldVars, brokerVars, walkVars, boundVars
  <1>5. AckInv'
    BY DEF SubSendFail, Goto, Break, Fault, TypeOK, AckInv, brokerVars
  <1>6. SyncNodesOwned'
    BY NoCallFacts DEF SubSendFail, Goto, Break, Fault, TypeOK, CallInv, CallOK, SyncNodesOwned, Waiting, Call, clientVars, callVars, yieldVars, brokerVars, walkVars, boundVars
  <1>7. SyncSuccessIsGranted'
    BY ReturnedFrame DEF SubSendFail, Goto, Break, Fault
  <1>8. HandlersDistinct'
    BY HandlersFrame DEF SubSendFail, Goto, Break, Fault
  <1>9. WalkInv'
    BY WalkFrame DEF SubSendFail, Goto, Break, Fault, yieldVars
  <1> QED
    BY <1>1, <1>2, <1>3, <1>4, <1>5, <1>6, <1>7, <1>8, <1>9

LEMMA SubNetErrInv ==
    ASSUME IInv, NEW c \in Callers, SubNetErr(c)
    PROVE  IInv'
  <1> USE DEF IInv
  <1>1. TypeOK'
    <2>1. pc' \in [Callers -> Label]
      BY GotoFacts DEF SubNetErr, Label
    <2> QED
      BY <2>1 DEF TypeOK, SubNetErr, yieldVars, brokerVars, walkVars, boundVars
  <1>2. LockInv'
    BY ThreadsAssumption DEF SubNetErr, Goto, TypeOK, LockInv, Waiting, Callers, clientVars, callVars, yieldVars, brokerVars, walkVars, boundVars
  <1>3. CallInv'
    BY NoCallFacts DEF SubNetErr, Goto, TypeOK, CallInv, CallOK, Waiting, Callers, Call, clientVars, callVars, yieldVars, brokerVars, walkVars, boundVars
  <1>4. HandlerIdInv'
    BY NoCallFacts DEF SubNetErr, Goto, TypeOK, CallInv, CallOK, HandlerIdInv, Call, clientVars, callVars, yieldVars, brokerVars, walkVars, boundVars
  <1>5. AckInv'
    BY AckFrame DEF SubNetErr, Goto, brokerVars
  <1>6. SyncNodesOwned'
    BY NoCallFacts DEF SubNetErr, Goto, TypeOK, CallInv, CallOK, SyncNodesOwned, Waiting, Call, clientVars, callVars, yieldVars, brokerVars, walkVars, boundVars
  <1>7. SyncSuccessIsGranted'
    BY ReturnedFrame DEF SubNetErr, Goto
  <1>8. HandlersDistinct'
    BY HandlersFrame DEF SubNetErr, Goto
  <1>9. WalkInv'
    BY WalkFrame DEF SubNetErr, Goto, yieldVars
  <1> QED
    BY <1>1, <1>2, <1>3, <1>4, <1>5, <1>6, <1>7, <1>8, <1>9

LEMMA SubSendLostInv ==
    ASSUME IInv, NEW c \in Callers, SubSendLost(c)
    PROVE  IInv'
  <1> USE DEF IInv
  <1>1. TypeOK'
    <2>1. pc' \in [Callers -> Label]
      BY GotoFacts DEF SubSendLost, Label
    <2>2. faults' \in Nat
      BY DEF TypeOK, SubSendLost, Break, Fault
    <2>3. down' \in Seq(Packet)
      BY EmptySeqs DEF TypeOK, SubSendLost, Break
    <2> QED
      BY <2>1, <2>2, <2>3 DEF TypeOK, SubSendLost, clientVars, yieldVars, walkVars
  <1>2. LockInv'
    BY ThreadsAssumption DEF SubSendLost, Goto, Break, Fault, TypeOK, LockInv, Waiting, Callers, clientVars, callVars, yieldVars, brokerVars, walkVars, boundVars
  <1>3. CallInv'
    BY NoCallFacts DEF SubSendLost, Goto, Break, Fault, TypeOK, CallInv, CallOK, Waiting, Callers, Call, clientVars, callVars, yieldVars, brokerVars, walkVars, boundVars
  <1>4. HandlerIdInv'
    BY NoCallFacts DEF SubSendLost, Goto, Break, Fault, TypeOK, CallInv, CallOK, HandlerIdInv, Call, clientVars, callVars, yieldVars, brokerVars, walkVars, boundVars
  <1>5. AckInv'
    BY DEF SubSendLost, Goto, Break, Fault, TypeOK, AckInv, brokerVars
  <1>6. SyncNodesOwned'
    BY NoCallFacts DEF SubSendLost, Goto, Break, Fault, TypeOK, CallInv, CallOK, SyncNodesOwned, Waiting, Call, clientVars, callVars, yieldVars, brokerVars, walkVars, boundVars
  <1>7. SyncSuccessIsGranted'
    BY ReturnedFrame DEF SubSendLost, Goto, Break, Fault
  <1>8. HandlersDistinct'
    BY HandlersFrame DEF SubSendLost, Goto, Break, Fault
  <1>9. WalkInv'
    BY WalkFrame DEF SubSendLost, Goto, Break, Fault, yieldVars
  <1> QED
    BY <1>1, <1>2, <1>3, <1>4, <1>5, <1>6, <1>7, <1>8, <1>9

LEMMA SubAddInv ==
    ASSUME IInv, NEW c \in Callers, SubAdd(c)
    PROVE  IInv'
  <1> USE DEF IInv
  <1>0. /\ call' \in [Callers -> Call] /\ pc' \in [Callers -> Label] /\ pc'[c] = "subret"
        /\ \A d \in Callers \ {c} : pc'[d] = pc[d] /\ call'[d] = call[d]
        /\ call'[c].ret = call[c].id /\ call'[c].id = call[c].id
        /\ call'[c].sync = call[c].sync /\ call'[c].subed = call[c].subed
    <2>0. call[c] \in Call /\ call[c].id \in Int
      BY DEF TypeOK, Call
    <2>1. [call[c] EXCEPT !.ret = call[c].id] \in Call
      BY <2>0, CallFields, Zenon
    <2> QED
      BY <2>0, <2>1, GotoFacts DEF SubAdd, TypeOK, Label, Call
  <1> DEFINE h == [filter |-> call[c].filter, handle |-> call[c].handle, id |-> call[c].id]
             L == list_sub_handle
  <1>h. h \in Handler
    BY DEF TypeOK, Call, Handler
  <1>l. /\ L \in Seq(Handler) /\ Len(L) \in Nat /\ DOMAIN L = 1..Len(L)
        /\ \A i \in 1..Len(L) : L[i] \in Handler
    BY DEF TypeOK
  <1>a. \/ L' = L
        \/ /\ L' = Append(L, h) /\ L' \in Seq(Handler)
           /\ DOMAIN L' = 1..(Len(L) + 1) /\ L'[Len(L) + 1] = h
           /\ \A i \in 1..Len(L) : L'[i] = L[i]
           /\ \A i \in 1..Len(L) : ~Identical(L[i], call[c])
    <2>1. CASE \E i \in DOMAIN L : Identical(L[i], call[c])
      BY <2>1 DEF SubAdd
    <2>2. CASE ~\E i \in DOMAIN L : Identical(L[i], call[c])
      <3>1. L' = Append(L, h)
        BY <2>2 DEF SubAdd
      <3>2. /\ Append(L, h) \in Seq(Handler) /\ Len(Append(L, h)) = Len(L) + 1
            /\ Append(L, h)[Len(L) + 1] = h
            /\ \A i \in 1..Len(L) : Append(L, h)[i] = L[i]
        BY <1>h, <1>l, AppendProperties
      <3>3. DOMAIN Append(L, h) = 1..(Len(L) + 1)
        BY <3>2, LenProperties
      <3> QED
        BY <1>l, <2>2, <3>1, <3>2, <3>3
    <2> QED
      BY <2>1, <2>2
  <1>s. \/ ToSet(L') = ToSet(L)
        \/ ToSet(L') = ToSet(L) \cup {h}
    <2>1. CASE L' = L
      BY <2>1
    <2>2. CASE L' # L
      <3>1. ASSUME NEW i \in 1..(Len(L) + 1)
            PROVE  L'[i] = h \/ i \in 1..Len(L)
        BY <1>a, <1>l, <2>2, <3>1
      <3>2. ToSet(L') \subseteq ToSet(L) \cup {h}
        BY <1>a, <1>l, <2>2, <3>1 DEF ToSet
      <3>3. ToSet(L) \subseteq ToSet(L')
        BY <1>a, <1>l, <2>2 DEF ToSet
      <3>4. h \in ToSet(L')
        BY <1>a, <1>l, <2>2 DEF ToSet
      <3> QED
        BY <3>2, <3>3, <3>4
    <2> QED
      BY <2>1, <2>2
  <1> HIDE DEF h, L
  <1>1. TypeOK'
    <2>1. list_sub_handle' \in Seq(Handler)
      BY <1>a, <1>l DEF L
    <2> QED
      BY <1>0, <2>1 DEF TypeOK, SubAdd, clientVars, yieldVars, brokerVars, walkVars, boundVars
  <1>2. LockInv'
    BY ThreadsAssumption DEF SubAdd, Goto, TypeOK, LockInv, Waiting, Callers, clientVars, callVars, yieldVars, brokerVars, walkVars, boundVars
  <1>3. CallInv'
    BY NoCallFacts, SMTT(30) DEF SubAdd, Goto, TypeOK, CallInv, CallOK, Waiting, Callers, Call, clientVars, callVars, yieldVars, brokerVars, walkVars, boundVars
  <1>4. HandlerIdInv'
    <2>1. h.id = call[c].id /\ call[c].id \in 1..packet_id /\ packet_id' = packet_id /\ y_removed' = y_removed
      BY <1>h DEF SubAdd, TypeOK, CallInv, CallOK, Call, clientVars, walkVars, h
    <2>2. \A g \in ToSet(L) \cup y_removed : g.id \in 1..packet_id /\ g.id # call[c].id
      BY DEF HandlerIdInv, SubAdd, L
    <2>3. \A g \in ToSet(L') \cup y_removed' : g.id \in 1..packet_id'
      BY <1>s, <2>1, <2>2
    <2>4. ASSUME NEW d \in Callers, pc'[d] \in {"send", "add"}
          PROVE  \A g \in ToSet(L') \cup y_removed' : g.id # call'[d].id
      <3>1. d # c /\ pc[d] = pc'[d] /\ call'[d] = call[d]
        BY <1>0, <2>4
      <3>2. call[d].id # call[c].id /\ \A g \in ToSet(L) \cup y_removed : g.id # call[d].id
        BY <2>1, <2>4, <3>1 DEF CallInv, CallOK, HandlerIdInv, L
      <3> QED
        BY <1>s, <2>1, <3>1, <3>2
    <2>5. ASSUME NEW i \in DOMAIN L', NEW j \in DOMAIN L', L'[i].id = L'[j].id
          PROVE  i = j
      <3>1. CASE L' = L
        BY <2>5, <3>1 DEF HandlerIdInv, L
      <3>2. CASE L' # L
        <4>1. \A k \in 1..Len(L) : L'[k] = L[k] /\ L[k].id # h.id
          BY <1>a, <1>l, <2>1, <2>2, <3>2 DEF ToSet
        <4>2. \A k \in DOMAIN L' : k \in 1..Len(L) \/ (k = Len(L) + 1 /\ L'[k] = h)
          BY <1>a, <1>l, <3>2
        <4>3. \A k, m \in 1..Len(L) : L[k].id = L[m].id => k = m
          BY <1>l DEF HandlerIdInv, L
        <4> QED
          BY <2>5, <4>1, <4>2, <4>3
      <3> QED
        BY <3>1, <3>2
    <2> QED
      BY <2>3, <2>4, <2>5 DEF HandlerIdInv, L
  <1>5. AckInv'
    BY AckFrame DEF SubAdd, Goto, brokerVars
  <1>6. SyncNodesOwned'
    BY NoCallFacts DEF SubAdd, Goto, TypeOK, CallInv, CallOK, SyncNodesOwned, Waiting, Call, clientVars, callVars, yieldVars, brokerVars, walkVars, boundVars
  <1>7. SyncSuccessIsGranted'
    BY ReturnedFrame DEF SubAdd, Goto
  <1>8. HandlersDistinct'
    <2>1. CASE L' = L
      BY <2>1 DEF HandlersDistinct, L
    <2>2. CASE L' # L
      <3>1. \A k \in 1..Len(L) : L'[k] = L[k] /\ ~(L[k].filter = h.filter /\ L[k].handle = h.handle)
        BY <1>a, <2>2 DEF Identical, h
      <3>2. \A k \in DOMAIN L' : k \in 1..Len(L) \/ (k = Len(L) + 1 /\ L'[k] = h)
        BY <1>a, <1>l, <2>2
      <3>3. \A k, m \in 1..Len(L) : L[k].filter = L[m].filter /\ L[k].handle = L[m].handle => k = m
        BY <1>l DEF HandlersDistinct, L
      <3>4. ASSUME NEW i \in DOMAIN L', NEW j \in DOMAIN L',
                   L'[i].filter = L'[j].filter, L'[i].handle = L'[j].handle
            PROVE  i = j
        BY <3>1, <3>2, <3>3, <3>4
      <3> QED
        BY <3>4 DEF HandlersDistinct, L
    <2> QED
      BY <2>1, <2>2
  <1>9. WalkInv'
    <2>1. UNCHANGED <<y_pc, y_name, y_node, y_start, y_called, y_removed>>
      BY DEF SubAdd, yieldVars, walkVars
    <2>2. ASSUME Walking
          PROVE  Walking'
      <3>1. /\ ToSet(y_start)' \subseteq ToSet(L') \cup y_removed'
            /\ NoneFreed' <=> NoneFreed
            /\ Distinct(y_called)' <=> Distinct(y_called)
        BY <1>s, <2>1, <2>2 DEF Walking, L, NoneFreed, Distinct
      <3>2. ASSUME NEW cur \in 0..Len(L), Passed(cur)
            PROVE  Passed(cur)' /\ cur \in 0..Len(L')
        <4>1. \A i \in 1..cur : L'[i] = L[i]
          BY <1>a, <1>l
        <4>2. Len(L') \in Nat /\ Len(L') >= Len(L)
          BY <1>a, <1>l, <1>h, AppendProperties
        <4> QED
          BY <1>l, <2>1, <3>2, <4>1, <4>2 DEF Passed, L
      <3> QED
        BY <2>1, <2>2, <3>1, <3>2 DEF Walking, L
    <2>3. Walked => Walked'
      BY <2>1 DEF Walked, NoneFreed, Distinct
    <2> QED
      BY <2>1, <2>2, <2>3 DEF WalkInv
  <1> QED
    BY <1>1, <1>2, <1>3, <1>4, <1>5, <1>6, <1>7, <1>8, <1>9

LEMMA SubReturnInv ==
    ASSUME IInv, NEW c \in Callers, SubReturn(c)
    PROVE  IInv'
  <1> USE DEF IInv
  <1>0. /\ call' \in [Callers -> Call] /\ pc' \in [Callers -> Label] /\ returned' \subseteq Result
        /\ \A d \in Callers \ {c} : pc'[d] = pc[d] /\ call'[d] = call[d]
        /\ \/ pc'[c] = "idle" /\ call'[c] = NoCall
           \/ pc'[c] = "node" /\ call'[c] = call[c] /\ call[c].sync /\ ~in_yield_cb
    <2>1. call[c].ret \in Int /\ TRUE \in BOOLEAN
      BY DEF TypeOK, Call
    <2>2. CASE Return(c, call[c].ret, TRUE)
      BY <2>1, <2>2, ReturnFacts
    <2>3. CASE Goto(c, "node") /\ UNCHANGED <<call, returned>> /\ call[c].sync /\ ~in_yield_cb
      BY <2>3, GotoFacts DEF TypeOK, Label
    <2> QED
      BY <2>2, <2>3 DEF SubReturn, MustNotWait
  <1>1. TypeOK'
    BY <1>0 DEF TypeOK, SubReturn, clientVars, yieldVars, brokerVars, walkVars, boundVars
  <1>2. LockInv'
    <2>1. UNCHANGED yieldVars /\ pc[c] = "subret"
      BY DEF SubReturn
    <2> QED
      BY <1>0, <2>1, ThreadsAssumption DEF LockInv, Waiting, Callers, yieldVars
  <1>3. CallInv'
    <2>1. packet_id' = packet_id /\ pc[c] = "subret" /\ packet_id \in Nat
      BY DEF SubReturn, TypeOK, clientVars
    <2> QED
      BY <1>0, <2>1, NoCallFacts DEF CallInv, CallOK, Waiting
  <1>4. HandlerIdInv'
    <2>1. UNCHANGED <<packet_id, list_sub_handle, y_removed>> /\ pc[c] = "subret"
      BY DEF SubReturn, clientVars, walkVars
    <2> QED
      BY <1>0, <2>1 DEF HandlerIdInv
  <1>5. AckInv'
    BY AckFrame DEF SubReturn, Goto, Return, MustNotWait, brokerVars
  <1>6. SyncNodesOwned'
    BY <1>0, OwnedFrame DEF SubReturn, Waiting
  <1>7. SyncSuccessIsGranted'
    BY DEF SubReturn, Goto, Return, MustNotWait, TypeOK, CallInv, CallOK, AckInv, SyncSuccessIsGranted
  <1>8. HandlersDistinct'
    BY HandlersFrame DEF SubReturn, Goto, Return, MustNotWait
  <1>9. WalkInv'
    BY WalkFrame DEF SubReturn, Goto, Return, MustNotWait, yieldVars
  <1> QED
    BY <1>1, <1>2, <1>3, <1>4, <1>5, <1>6, <1>7, <1>8, <1>9

LEMMA SyncNodeAddInv ==
    ASSUME IInv, NEW c \in Callers, SyncNodeAdd(c)
    PROVE  IInv'
  <1> USE DEF IInv
  <1>d. pc[c] = "node" /\ call[c].sync
    BY DEF SyncNodeAdd, CallInv, CallOK
  <1>0. /\ call' \in [Callers -> Call] /\ pc' \in [Callers -> Label] /\ pc'[c] = "yield"
        /\ \A d \in Callers \ {c} : pc'[d] = pc[d] /\ call'[d] = call[d]
        /\ call'[c].ret = call[c].ret /\ call'[c].id = call[c].id /\ call'[c].sync
    <2>0. call[c] \in Call
      BY DEF TypeOK
    <2>1. [call[c] EXCEPT !.subed = TRUE] \in Call
      BY <2>0, CallFields, Zenon
    <2>2. pc' \in [Callers -> Label] /\ pc'[c] = "yield" /\ \A d \in Callers \ {c} : pc'[d] = pc[d]
      BY GotoFacts DEF SyncNodeAdd, Label
    <2>3. CASE call' = [call EXCEPT ![c].subed = TRUE]
      <3>1. call'[c] = [call[c] EXCEPT !.subed = TRUE]
        BY <2>3 DEF TypeOK
      <3> QED
        BY <1>d, <2>0, <2>1, <2>2, <2>3, <3>1 DEF TypeOK, Call
    <2>4. CASE UNCHANGED call
      BY <1>d, <2>2, <2>4 DEF TypeOK
    <2> QED
      BY <2>3, <2>4 DEF SyncNodeAdd
  <1> DEFINE s == list_sub_sync_ack
             e == [packet_id |-> call[c].ret, ack_type |-> "UNDEF"]
  <1>s. s \in Seq(SyncNode) /\ Len(s) \in Nat /\ DOMAIN s = 1..Len(s)
    BY DEF TypeOK
  <1>a. \/ UNCHANGED <<list_sub_sync_ack, call>>
        \/ /\ s' = Append(s, e) /\ s' \in Seq(SyncNode) /\ DOMAIN s' = 1..(Len(s) + 1)
           /\ s'[Len(s) + 1] = e /\ \A i \in 1..Len(s) : s'[i] = s[i]
           /\ call[c].ret # -1 /\ ~call[c].subed /\ call'[c].subed
    <2>1. CASE NeedsNode(call[c]) /\ s' = Append(s, e) /\ call' = [call EXCEPT ![c].subed = TRUE]
      <3>1. call[c] \in Call /\ call[c].ret \in Nat
        BY <2>1 DEF TypeOK, Call, NeedsNode
      <3>2. e \in SyncNode
        BY <3>1 DEF SyncNode
      <3>3. Append(s, e) \in Seq(SyncNode) /\ Len(Append(s, e)) = Len(s) + 1
            /\ Append(s, e)[Len(s) + 1] = e /\ \A i \in 1..Len(s) : Append(s, e)[i] = s[i]
        BY <1>s, <3>2, AppendProperties
      <3>4. DOMAIN Append(s, e) = 1..(Len(s) + 1)
        BY <3>3, LenProperties
      <3>5. call'[c].subed
        BY <2>1, <3>1 DEF Call, TypeOK
      <3> QED
        BY <2>1, <3>1, <3>3, <3>4, <3>5 DEF NeedsNode
    <2> QED
      BY <2>1 DEF SyncNodeAdd
  <1>b. \A i \in DOMAIN s' : \/ i \in DOMAIN s /\ s'[i] = s[i]
                             \/ /\ i = Len(s) + 1 /\ s'[i] = e
                                /\ call[c].ret # -1 /\ ~call[c].subed /\ call'[c].subed
    <2>1. CASE UNCHANGED <<list_sub_sync_ack, call>>
      BY <2>1
    <2>2. CASE ~UNCHANGED <<list_sub_sync_ack, call>>
      BY <1>a, <1>s, <2>2
    <2> QED
      BY <2>1, <2>2
  <1>c. UNCHANGED call[c].subed \/ call'[c].subed
    BY <1>a
  <1>1. TypeOK'
    <2>1. list_sub_sync_ack' \in Seq(SyncNode)
      BY <1>a, <1>s
    <2> QED
      BY <1>0, <2>1 DEF TypeOK, SyncNodeAdd, clientVars, yieldVars, brokerVars, walkVars, boundVars
  <1>2. LockInv'
    BY <1>0, <1>d, ThreadsAssumption DEF SyncNodeAdd, LockInv, Waiting, Callers, yieldVars
  <1>3. CallInv'
    <2>1. packet_id' = packet_id
      BY DEF SyncNodeAdd, clientVars
    <2>2. call'[c].subed => call'[c].sync /\ call'[c].ret # -1 /\ pc'[c] \in Waiting
      <3>1. CASE UNCHANGED call
        BY <1>0, <3>1 DEF CallInv, CallOK, Waiting
      <3>2. CASE ~UNCHANGED call
        BY <1>0, <1>a, <1>d, <3>2 DEF Waiting
      <3> QED
        BY <3>1, <3>2
    <2> QED
      BY <1>0, <1>d, <2>1, <2>2 DEF CallInv, CallOK, Waiting
  <1>4. HandlerIdInv'
    <2>1. UNCHANGED <<packet_id, list_sub_handle, y_removed>>
      BY DEF SyncNodeAdd, clientVars, walkVars
    <2> QED
      BY <1>0, <2>1 DEF HandlerIdInv
  <1>5. AckInv'
    <2>1. e.ack_type # "SUCCESS" /\ UNCHANGED <<granted, down>>
      BY DEF SyncNodeAdd, brokerVars
    <2> HIDE DEF s, e
    <2>2. \A i \in DOMAIN s' : s'[i].ack_type = "SUCCESS" => s'[i].packet_id \in granted'
      BY <1>b, <2>1 DEF AckInv, s
    <2> QED
      BY <2>1, <2>2 DEF AckInv, s
  <1>6. SyncNodesOwned'
    <2>0. e.packet_id = call[c].ret
      OBVIOUS
    <2> HIDE DEF s, e
    <2>1. ASSUME NEW i \in DOMAIN s
          PROVE  \E t \in Callers : /\ pc'[t] \in Waiting /\ call'[t].subed
                                    /\ call'[t].ret = s[i].packet_id
                                    /\ call[t].subed /\ call[t].ret = s[i].packet_id
      <3>1. PICK t \in Callers : pc[t] \in Waiting /\ call[t].subed /\ call[t].ret = s[i].packet_id
        BY DEF SyncNodesOwned, Waiting, s
      <3> QED
        BY <1>0, <1>c, <3>1 DEF Waiting
    <2>2. ASSUME NEW i \in DOMAIN s, call[c].ret # -1, ~call[c].subed
          PROVE  s[i].packet_id # call[c].ret
      <3>1. PICK t \in Callers : call[t].subed /\ call[t].ret = s[i].packet_id
        BY <2>1
      <3>2. t # c /\ call[t].ret # -1 /\ call[t].ret = call[t].id /\ call[c].ret = call[c].id /\ call[c].id > 0
        BY <2>2, <3>1 DEF CallInv, CallOK
      <3> QED
        BY <3>1, <3>2 DEF CallInv, CallOK
    <2>3. \A i \in DOMAIN s' : \E t \in Callers :
             pc'[t] \in Waiting /\ call'[t].subed /\ call'[t].ret = s'[i].packet_id
      BY <1>0, <1>b, <2>0, <2>1 DEF Waiting
    <2>4. ASSUME NEW i \in DOMAIN s', NEW j \in DOMAIN s', s'[i].packet_id = s'[j].packet_id
          PROVE  i = j
      <3>1. \A k, m \in DOMAIN s : s[k].packet_id = s[m].packet_id => k = m
        BY DEF SyncNodesOwned, s
      <3> QED
        BY <1>b, <2>0, <2>2, <2>4, <3>1
    <2> QED
      BY <2>3, <2>4 DEF SyncNodesOwned, Waiting, s
  <1>7. SyncSuccessIsGranted'
    BY ReturnedFrame DEF SyncNodeAdd, Goto, NeedsNode
  <1>8. HandlersDistinct'
    BY HandlersFrame DEF SyncNodeAdd, Goto, NeedsNode
  <1>9. WalkInv'
    BY WalkFrame DEF SyncNodeAdd, Goto, NeedsNode, yieldVars
  <1> QED
    BY <1>1, <1>2, <1>3, <1>4, <1>5, <1>6, <1>7, <1>8, <1>9

LEMMA SyncCheckSuccessInv ==
    ASSUME IInv, NEW c \in Callers, SyncCheckSuccess(c)
    PROVE  IInv'
  <1> USE DEF IInv
  <1>0. /\ call' \in [Callers -> Call] /\ pc' \in [Callers -> Label] /\ returned' \subseteq Result
        /\ \A d \in Callers \ {c} : pc'[d] = pc[d] /\ call'[d] = call[d]
        /\ pc'[c] = "idle" /\ call'[c] = NoCall
    <2>1. call[c].ret \in Int /\ FALSE \in BOOLEAN /\ Return(c, call[c].ret, FALSE)
      BY DEF TypeOK, Call, SyncCheckSuccess
    <2> QED
      BY <2>1, ReturnFacts
  <1> DEFINE s == list_sub_sync_ack
  <1> HIDE DEF s
  <1>s. /\ s \in Seq(SyncNode) /\ s # << >> /\ s' = Tail(s) /\ pc[c] = "check"
        /\ Head(s).packet_id = call[c].ret /\ Head(s).ack_type = "SUCCESS"
    BY DEF SyncCheckSuccess, TypeOK, HeadIs, s
  <1>t. s' \in Seq(SyncNode) /\ Head(s) = s[1] /\ 1 \in DOMAIN s
    BY <1>s, TailFacts
  <1>f. PICK f \in [DOMAIN s' -> DOMAIN s] :
          /\ \A i \in DOMAIN s' : s'[i] = s[f[i]] /\ f[i] # 1
          /\ \A i, j \in DOMAIN s' : f[i] = f[j] => i = j
    BY <1>s, TailFacts
  <1>1. TypeOK'
    BY <1>0, <1>t DEF TypeOK, SyncCheckSuccess, s, clientVars, yieldVars, brokerVars, walkVars, boundVars
  <1>2. LockInv'
    BY <1>0, ThreadsAssumption DEF SyncCheckSuccess, LockInv, Waiting, Callers, yieldVars
  <1>3. CallInv'
    <2>1. packet_id' \in Nat /\ packet_id' >= packet_id
      BY DEF TypeOK, SyncCheckSuccess, clientVars
    <2> QED
      BY <1>0, <2>1, ReturnCallInv, Zenon
  <1>4. HandlerIdInv'
    <2>1. UNCHANGED <<packet_id, list_sub_handle, y_removed>>
      BY DEF SyncCheckSuccess, clientVars, walkVars
    <2> QED
      BY <1>0, <2>1 DEF HandlerIdInv
  <1>5. AckInv'
    <2>1. UNCHANGED <<granted, down>>
      BY DEF SyncCheckSuccess, brokerVars
    <2> QED
      BY <1>f, <2>1 DEF AckInv, s
  <1>6. SyncNodesOwned'
    <2>1. \A i \in DOMAIN s' : s[f[i]].packet_id # call[c].ret
      BY <1>s, <1>t, <1>f DEF SyncNodesOwned, s
    <2> QED
      BY <1>0, <1>f, <2>1, NodesRemoved DEF s
  <1>7. SyncSuccessIsGranted'
    <2>1. call[c].ret \in granted
      BY <1>s, <1>t DEF AckInv, s
    <2>2. returned' \subseteq returned \cup {[early |-> FALSE, acked |-> call[c].ret \in granted]}
      BY DEF SyncCheckSuccess, Return
    <2>3. [early |-> FALSE, acked |-> call[c].ret \in granted].acked = (call[c].ret \in granted)
      OBVIOUS
    <2>4. ASSUME NEW r \in returned', ~r.early
          PROVE  r.acked
      <3>1. CASE r \in returned
        BY <2>4, <3>1 DEF SyncSuccessIsGranted
      <3>2. CASE r = [early |-> FALSE, acked |-> call[c].ret \in granted]
        BY <2>1, <2>3, <3>2, Zenon
      <3> QED
        BY <2>2, <3>1, <3>2
    <2> QED
      BY <2>4 DEF SyncSuccessIsGranted
  <1>8. HandlersDistinct'
    BY HandlersFrame DEF SyncCheckSuccess, Goto, Return, HeadIs
  <1>9. WalkInv'
    BY WalkFrame DEF SyncCheckSuccess, Goto, Return, HeadIs, yieldVars
  <1> QED
    BY <1>1, <1>2, <1>3, <1>4, <1>5, <1>6, <1>7, <1>8, <1>9

LEMMA SyncCheckAgainInv ==
    ASSUME IInv, NEW c \in Callers, SyncCheckAgain(c)
    PROVE  IInv'
  <1> USE DEF IInv
  <1> DEFINE s == list_sub_sync_ack
             nack == HeadIs(call[c].ret) /\ Head(s).ack_type = "NACK"
  <1>p. PICK l \in {"top", "expired"} : Goto(c, l)
    BY DEF SyncCheckAgain, TimerOutcomes
  <1>q. /\ pc' \in [Callers -> Label] /\ pc'[c] \in {"top", "expired"}
        /\ \A d \in Callers \ {c} : pc'[d] = pc[d]
    BY <1>p, GotoFacts DEF Label
  <1>r. pc[c] = "check" /\ call[c].sync /\ call[c] \in Call
    BY DEF SyncCheckAgain, CallInv, CallOK, TypeOK
  <1>0. /\ call' \in [Callers -> Call]
        /\ \A d \in Callers \ {c} : call'[d] = call[d]
        /\ call'[c].id = call[c].id /\ call'[c].sync
        /\ \/ call'[c] = call[c] /\ UNCHANGED s
           \/ /\ call'[c].ret = -1 /\ ~call'[c].subed
              /\ s # << >> /\ s' = Tail(s) /\ Head(s).packet_id = call[c].ret
    <2>1. CASE nack
      <3>1. s # << >> /\ s' = Tail(s) /\ Head(s).packet_id = call[c].ret
            /\ call' = [call EXCEPT ![c].ret = -1, ![c].subed = FALSE]
        BY <2>1 DEF SyncCheckAgain, HeadIs
      <3>2. call' = [call EXCEPT ![c] = [call[c] EXCEPT !.ret = -1, !.subed = FALSE]]
        BY <3>1 DEF TypeOK
      <3>3. [call[c] EXCEPT !.ret = -1, !.subed = FALSE] \in Call
        <4>1. -1 \in Int
          OBVIOUS
        <4> QED
          BY <1>r, <4>1, CallFields, Zenon
      <3>4. call'[c] = [call[c] EXCEPT !.ret = -1, !.subed = FALSE]
            /\ \A d \in Callers \ {c} : call'[d] = call[d]
        BY <3>2 DEF TypeOK
      <3>5. call' \in [Callers -> Call]
        BY <3>2, <3>3 DEF TypeOK
      <3>6. call'[c].id = call[c].id /\ call'[c].sync /\ call'[c].ret = -1 /\ ~call'[c].subed
        BY <1>r, <3>4 DEF Call
      <3> QED
        BY <3>1, <3>4, <3>5, <3>6
    <2>2. CASE ~nack
      BY <1>r, <2>2 DEF SyncCheckAgain, TypeOK
    <2> QED
      BY <2>1, <2>2
  <1> HIDE DEF s
  <1>s. s \in Seq(SyncNode)
    BY DEF TypeOK, s
  <1>1. TypeOK'
    <2>1. s' \in Seq(SyncNode)
      <3>1. s # << >> => Tail(s) \in Seq(SyncNode)
        BY <1>s, HeadTailProperties
      <3> QED
        BY <1>0, <1>s, <3>1
    <2> QED
      BY <1>q, <1>0, <2>1 DEF TypeOK, SyncCheckAgain, s, clientVars, yieldVars, brokerVars, walkVars, boundVars
  <1>2. LockInv'
    BY <1>q, <1>r, ThreadsAssumption DEF SyncCheckAgain, LockInv, Waiting, Callers, yieldVars
  <1>3. CallInv'
    <2>1. packet_id' = packet_id /\ packet_id' \in Nat /\ packet_id' >= packet_id
      BY DEF TypeOK, SyncCheckAgain, clientVars
    <2>2. CallOK(pc[c], call[c], packet_id)
      BY DEF CallInv
    <2>3. CallOK(pc'[c], call'[c], packet_id')
      BY <1>q, <1>r, <1>0, <2>1, <2>2 DEF CallOK, Waiting
    <2>4. call'[c].id \in {0, call[c].id} /\ \A d \in Callers \ {c} : pc'[d] = pc[d] /\ call'[d] = call[d]
      BY <1>0, <1>q
    <2> QED
      BY <2>1, <2>3, <2>4, CallStepInv, Zenon
  <1>4. HandlerIdInv'
    <2>1. UNCHANGED <<packet_id, list_sub_handle, y_removed>>
      BY DEF SyncCheckAgain, clientVars, walkVars
    <2> QED
      BY <1>0, <1>q, <2>1 DEF HandlerIdInv
  <1>5. AckInv'
    <2>1. UNCHANGED <<granted, down>>
      BY DEF SyncCheckAgain, brokerVars
    <2>2. CASE UNCHANGED s
      BY <2>1, <2>2, AckFrame DEF s
    <2>3. CASE s # << >> /\ s' = Tail(s)
      <3>1. \A i \in DOMAIN s' : \E k \in DOMAIN s : s'[i] = s[k]
        BY <1>s, <2>3, TailFacts
      <3> QED
        BY <2>1, <3>1 DEF AckInv, s
    <2> QED
      BY <1>0, <2>2, <2>3
  <1>6. SyncNodesOwned'
    <2>1. CASE call'[c] = call[c] /\ UNCHANGED s
      BY <1>q, <1>0, <2>1, OwnedFrame DEF s, Waiting
    <2>2. CASE s # << >> /\ s' = Tail(s) /\ Head(s).packet_id = call[c].ret
      <3>1. PICK f \in [DOMAIN s' -> DOMAIN s] :
              /\ \A i \in DOMAIN s' : s'[i] = s[f[i]] /\ f[i] # 1
              /\ \A i, j \in DOMAIN s' : f[i] = f[j] => i = j
        BY <1>s, <2>2, TailFacts
      <3>2. s[1].packet_id = call[c].ret /\ 1 \in DOMAIN s
        BY <1>s, <2>2, TailFacts
      <3>3. \A i \in DOMAIN s' : s[f[i]].packet_id # call[c].ret
        BY <3>1, <3>2 DEF SyncNodesOwned, s
      <3> QED
        BY <1>q, <1>0, <3>1, <3>3, NodesRemoved DEF s
    <2> QED
      BY <1>0, <2>1, <2>2
  <1>7. SyncSuccessIsGranted'
    BY ReturnedFrame DEF SyncCheckAgain, Goto, HeadIs, TimerOutcomes
  <1>8. HandlersDistinct'
    BY HandlersFrame DEF SyncCheckAgain, Goto, HeadIs, TimerOutcomes
  <1>9. WalkInv'
    BY WalkFrame DEF SyncCheckAgain, Goto, HeadIs, TimerOutcomes, yieldVars
  <1> QED
    BY <1>1, <1>2, <1>3, <1>4, <1>5, <1>6, <1>7, <1>8, <1>9

LEMMA SyncTopInv ==
    ASSUME IInv, NEW c \in Callers, SyncTop(c)
    PROVE  IInv'
  <1> USE DEF IInv
  <1>1. TypeOK'
    BY NoCallFacts DEF SyncTop, Goto, TypeOK, Label, Callers, Call, clientVars, callVars, yieldVars, brokerVars, walkVars, boundVars
  <1>2. LockInv'
    BY ThreadsAssumption DEF SyncTop, Goto, TypeOK, LockInv, Waiting, Callers, clientVars, callVars, yieldVars, brokerVars, walkVars, boundVars
  <1>3. CallInv'
    BY NoCallFacts DEF SyncTop, Goto, TypeOK, CallInv, CallOK, Waiting, Callers, Call, clientVars, callVars, yieldVars, brokerVars, walkVars, boundVars
  <1>4. HandlerIdInv'
    BY NoCallFacts DEF SyncTop, Goto, TypeOK, CallInv, CallOK, HandlerIdInv, Call, clientVars, callVars, yieldVars, brokerVars, walkVars, boundVars
  <1>5. AckInv'
    BY AckFrame DEF SyncTop, Goto, brokerVars
  <1>6. SyncNodesOwned'
    <2>1. pc'[c] \in {"sub", "node"} /\ (pc'[c] = "sub" => call[c].ret < 0)
          /\ \A d \in Callers \ {c} : pc'[d] = pc[d]
      BY GotoFacts DEF SyncTop, Label
    <2>2. call[c].subed => call[c].ret >= 0
      BY DEF CallInv, CallOK, TypeOK, Call
    <2>3. call[c].ret \in Int
      BY DEF TypeOK, Call
    <2> QED
      BY <2>1, <2>2, <2>3, OwnedFrame DEF SyncTop, Waiting
  <1>7. SyncSuccessIsGranted'
    BY ReturnedFrame DEF SyncTop, Goto
  <1>8. HandlersDistinct'
    BY HandlersFrame DEF SyncTop, Goto
  <1>9. WalkInv'
    BY WalkFrame DEF SyncTop, Goto, yieldVars
  <1> QED
    BY <1>1, <1>2, <1>3, <1>4, <1>5, <1>6, <1>7, <1>8, <1>9

LEMMA SyncExpiredInv ==
    ASSUME IInv, NEW c \in Callers, SyncExpired(c)
    PROVE  IInv'
  <1> USE DEF IInv
  <1>0. /\ call' \in [Callers -> Call] /\ pc' \in [Callers -> Label] /\ returned' \subseteq Result
        /\ \A d \in Callers \ {c} : pc'[d] = pc[d] /\ call'[d] = call[d]
        /\ pc'[c] = "idle" /\ call'[c] = NoCall
    <2>1. -1 \in Int /\ FALSE \in BOOLEAN
      OBVIOUS
    <2>2. Return(c, -1, FALSE)
      BY Zenon DEF SyncExpired
    <2> QED
      BY <2>1, <2>2, ReturnFacts
  <1> DEFINE s == list_sub_sync_ack
             gone == {n \in ToSet(s) : n.packet_id = call[c].ret}
  <1>s. s \in Seq(SyncNode) /\ s' = Without(s, gone)
    BY DEF SyncExpired, TypeOK, Forget
  <1>u. \A i \in DOMAIN s : s[i] \notin gone => s[i].packet_id # call[c].ret
    BY DEF ToSet
  <1> HIDE DEF s, gone
  <1>t. s' \in Seq(SyncNode)
    BY <1>s, WithoutProperties
  <1>f. PICK f \in [DOMAIN s' -> DOMAIN s] :
          /\ \A i \in DOMAIN s' : s'[i] = s[f[i]] /\ s[f[i]] \notin gone
          /\ \A i, j \in DOMAIN s' : f[i] = f[j] => i = j
    BY <1>s, WithoutMap
  <1>1. TypeOK'
    BY <1>0, <1>t DEF TypeOK, SyncExpired, s, clientVars, yieldVars, brokerVars, walkVars, boundVars
  <1>2. LockInv'
    BY <1>0, ThreadsAssumption DEF SyncExpired, LockInv, Waiting, Callers, yieldVars
  <1>3. CallInv'
    <2>1. packet_id' \in Nat /\ packet_id' >= packet_id
      BY DEF TypeOK, SyncExpired, clientVars
    <2> QED
      BY <1>0, <2>1, ReturnCallInv, Zenon
  <1>4. HandlerIdInv'
    <2>1. UNCHANGED <<packet_id, list_sub_handle, y_removed>>
      BY DEF SyncExpired, clientVars, walkVars
    <2> QED
      BY <1>0, <2>1 DEF HandlerIdInv
  <1>5. AckInv'
    <2>1. UNCHANGED <<granted, down>>
      BY DEF SyncExpired, brokerVars
    <2> QED
      BY <1>f, <2>1 DEF AckInv, s
  <1>6. SyncNodesOwned'
    BY <1>0, <1>u, <1>f, NodesRemoved DEF s
  <1>7. SyncSuccessIsGranted'
    <2>1. returned' = returned
      BY DEF SyncExpired, Return
    <2> QED
      BY <2>1, ReturnedFrame
  <1>8. HandlersDistinct'
    BY HandlersFrame DEF SyncExpired, Goto, Return
  <1>9. WalkInv'
    BY WalkFrame DEF SyncExpired, Goto, Return, yieldVars
  <1> QED
    BY <1>1, <1>2, <1>3, <1>4, <1>5, <1>6, <1>7, <1>8, <1>9

LEMMA UnsubCheckInv ==
    ASSUME IInv, NEW c \in Callers, UnsubCheck(c)
    PROVE  IInv'
  <1> USE DEF IInv
  <1>0. /\ call' \in [Callers -> Call] /\ pc' \in [Callers -> Label] /\ returned' \subseteq Result
        /\ \A d \in Callers \ {c} : pc'[d] = pc[d] /\ call'[d] = call[d]
        /\ \/ pc'[c] = "idle" /\ call'[c] = NoCall
           \/ pc'[c] = "unsend" /\ call'[c] = call[c]
    <2>1. CASE Return(c, -1, TRUE)
      <3>1. -1 \in Int /\ TRUE \in BOOLEAN
        OBVIOUS
      <3> QED
        BY <2>1, <3>1, ReturnFacts
    <2>2. CASE Goto(c, "unsend") /\ UNCHANGED <<call, returned>>
      BY <2>2, GotoFacts DEF TypeOK, Label
    <2> QED
      BY <2>1, <2>2 DEF UnsubCheck
  <1>1. TypeOK'
    BY <1>0 DEF TypeOK, UnsubCheck, yieldVars, brokerVars, walkVars, boundVars
  <1>2. LockInv'
    BY <1>0, ThreadsAssumption DEF UnsubCheck, LockInv, Waiting, Callers, yieldVars
  <1>3. CallInv'
    <2>1. packet_id' \in Nat /\ packet_id' >= packet_id /\ packet_id' = packet_id + 1 /\ packet_id \in Nat
      BY DEF TypeOK, UnsubCheck
    <2>2. CASE pc'[c] = "idle" /\ call'[c] = NoCall
      BY <1>0, <2>1, <2>2, ReturnCallInv, Zenon
    <2>3. CASE pc'[c] = "unsend" /\ call'[c] = call[c]
      <3>1. CallOK(pc[c], call[c], packet_id) /\ pc[c] = "unsub" /\ call[c].id \in Nat
        BY DEF CallInv, UnsubCheck, TypeOK, Call
      <3>2. CallOK(pc'[c], call'[c], packet_id') /\ call'[c].id \in {0, call[c].id}
        BY <2>1, <2>3, <3>1 DEF CallOK, Waiting
      <3> QED
        BY <1>0, <2>1, <3>2, CallStepInv, Zenon
    <2> QED
      BY <1>0, <2>2, <2>3
  <1>4. HandlerIdInv'
    <2>1. UNCHANGED <<list_sub_handle, y_removed>> /\ packet_id' = packet_id + 1 /\ packet_id \in Nat
      BY DEF UnsubCheck, TypeOK, walkVars
    <2> QED
      BY <1>0, <2>1 DEF HandlerIdInv
  <1>5. AckInv'
    BY AckFrame DEF UnsubCheck, Goto, Return, brokerVars
  <1>6. SyncNodesOwned'
    BY <1>0, OwnedFrame DEF UnsubCheck, Waiting
  <1>7. SyncSuccessIsGranted'
    BY DEF UnsubCheck, Goto, Return, TypeOK, CallInv, CallOK, AckInv, SyncSuccessIsGranted
  <1>8. HandlersDistinct'
    BY HandlersFrame DEF UnsubCheck, Goto, Return
  <1>9. WalkInv'
    BY WalkFrame DEF UnsubCheck, Goto, Return, yieldVars
  <1> QED
    BY <1>1, <1>2, <1>3, <1>4, <1>5, <1>6, <1>7, <1>8, <1>9

LEMMA UnsubSendOkInv ==
    ASSUME IInv, NEW c \in Callers, UnsubSendOk(c)
    PROVE  IInv'
  <1> USE DEF IInv
  <1>1. TypeOK'
    <2>1. pc' \in [Callers -> Label]
      BY GotoFacts DEF UnsubSendOk, Label
    <2>2. [type |-> "UNSUBACK"] \in Packet
      BY DEF Packet
    <2>3. down' \in Seq(Packet)
      BY <2>2, AppendProperties DEF TypeOK, UnsubSendOk
    <2> QED
      BY <2>1, <2>3 DEF TypeOK, UnsubSendOk, clientVars, yieldVars, walkVars, boundVars
  <1>2. LockInv'
    BY ThreadsAssumption DEF UnsubSendOk, Goto, TypeOK, LockInv, Waiting, Callers, clientVars, callVars, yieldVars, brokerVars, walkVars, boundVars
  <1>3. CallInv'
    BY NoCallFacts DEF UnsubSendOk, Goto, TypeOK, CallInv, CallOK, Waiting, Callers, Call, clientVars, callVars, yieldVars, brokerVars, walkVars, boundVars
  <1>4. HandlerIdInv'
    BY NoCallFacts DEF UnsubSendOk, Goto, TypeOK, CallInv, CallOK, HandlerIdInv, Call, clientVars, callVars, yieldVars, brokerVars, walkVars, boundVars
  <1>5. AckInv'
    BY DEF UnsubSendOk, Goto, TypeOK, AckInv, brokerVars
  <1>6. SyncNodesOwned'
    BY NoCallFacts DEF UnsubSendOk, Goto, TypeOK, CallInv, CallOK, SyncNodesOwned, Waiting, Call, clientVars, callVars, yieldVars, brokerVars, walkVars, boundVars
  <1>7. SyncSuccessIsGranted'
    BY ReturnedFrame DEF UnsubSendOk, Goto
  <1>8. HandlersDistinct'
    BY HandlersFrame DEF UnsubSendOk, Goto
  <1>9. WalkInv'
    BY WalkFrame DEF UnsubSendOk, Goto, yieldVars
  <1> QED
    BY <1>1, <1>2, <1>3, <1>4, <1>5, <1>6, <1>7, <1>8, <1>9

LEMMA UnsubSendFailInv ==
    ASSUME IInv, NEW c \in Callers, UnsubSendFail(c)
    PROVE  IInv'
  <1> USE DEF IInv
  <1>0. /\ call' \in [Callers -> Call] /\ pc' \in [Callers -> Label] /\ returned' \subseteq Result
        /\ \A d \in Callers \ {c} : pc'[d] = pc[d] /\ call'[d] = call[d]
        /\ \/ pc'[c] = "idle" /\ call'[c] = NoCall
           \/ pc'[c] = "unneterr" /\ call'[c] = call[c]
    <2>1. CASE Return(c, -1, TRUE)
      <3>1. -1 \in Int /\ TRUE \in BOOLEAN
        OBVIOUS
      <3> QED
        BY <2>1, <3>1, ReturnFacts
    <2>2. CASE Goto(c, "unneterr") /\ UNCHANGED <<call, returned>>
      BY <2>2 DEF Goto, TypeOK, Label
    <2> QED
      BY <2>1, <2>2 DEF UnsubSendFail
  <1>a. /\ pc[c] = "unsend"
        /\ UNCHANGED <<packet_id, list_sub_handle, list_sub_sync_ack, yieldVars, subs, granted,
                       walkVars, calls, messages>>
    BY DEF UnsubSendFail
  <1>1. TypeOK'
    <2>1. client_state' \in {"CONNECTED", "DISCONNECTED", "RECONNECTING"}
      BY DEF TypeOK, UnsubSendFail
    <2>2. faults' \in Nat
      <3>1. faults' = faults \/ faults' = faults + 1
        BY Zenon DEF UnsubSendFail, Break, Fault
      <3> QED
        BY <3>1 DEF TypeOK
    <2>3. down' \in Seq(Packet)
      <3>1. down' = down \/ down' = << >>
        BY Zenon DEF UnsubSendFail, Break
      <3> QED
        BY <3>1, EmptySeqs DEF TypeOK
    <2> QED
      BY <1>0, <1>a, <2>1, <2>2, <2>3 DEF TypeOK, yieldVars, walkVars
  <1>2. LockInv'
    BY <1>0, <1>a, ThreadsAssumption DEF TypeOK, LockInv, Waiting, Callers, yieldVars
  <1>3. CallInv'
    <2>1. ASSUME NEW d \in Callers
          PROVE  /\ CallOK(pc'[d], call'[d], packet_id')
                 /\ call'[d].id = call[d].id \/ call'[d].id = 0
      <3>1. CallOK(pc[d], call[d], packet_id) /\ CallOK(pc[c], call[c], packet_id)
        BY DEF CallInv
      <3>2. CASE d # c
        BY <1>0, <1>a, <3>1, <3>2
      <3>3. CASE d = c /\ call'[c] = NoCall /\ pc'[c] = "idle"
        BY <1>a, <3>3, NoCallFacts DEF CallOK, TypeOK
      <3>4. CASE d = c /\ call'[c] = call[c] /\ pc'[c] = "unneterr"
        BY <1>a, <3>1, <3>4 DEF CallOK, Waiting
      <3> QED
        BY <1>0, <3>2, <3>3, <3>4
    <2>2. \A d \in Callers : call[d].id \in Nat
      BY DEF TypeOK, Call
    <2> QED
      BY <2>1, <2>2 DEF CallInv
  <1>4. HandlerIdInv'
    BY <1>0, <1>a DEF TypeOK, HandlerIdInv, walkVars
  <1>5. AckInv'
    BY DEF UnsubSendFail, Goto, Return, Break, Fault, TypeOK, AckInv, brokerVars
  <1>6. SyncNodesOwned'
    <2>1. \A t \in Callers : pc[t] # "unsend" => pc'[t] = pc[t] /\ call'[t] = call[t]
      BY <1>0, <1>a
    <2> QED
      BY <1>a, <2>1 DEF SyncNodesOwned
  <1>7. SyncSuccessIsGranted'
    BY DEF UnsubSendFail, Goto, Return, Break, Fault, TypeOK, CallInv, CallOK, AckInv, SyncSuccessIsGranted
  <1>8. HandlersDistinct'
    BY HandlersFrame DEF UnsubSendFail, Goto, Return, Break, Fault
  <1>9. WalkInv'
    BY WalkFrame DEF UnsubSendFail, Goto, Return, Break, Fault, yieldVars
  <1> QED
    BY <1>1, <1>2, <1>3, <1>4, <1>5, <1>6, <1>7, <1>8, <1>9

LEMMA UnsubNetErrInv ==
    ASSUME IInv, NEW c \in Callers, UnsubNetErr(c)
    PROVE  IInv'
  <1> USE DEF IInv
  <1>1. TypeOK'
    BY NoCallFacts DEF UnsubNetErr, Goto, Return, TypeOK, Label, Callers, Call, clientVars, callVars, yieldVars, brokerVars, walkVars, boundVars
  <1>2. LockInv'
    BY ThreadsAssumption DEF UnsubNetErr, Goto, Return, TypeOK, LockInv, Waiting, Callers, clientVars, callVars, yieldVars, brokerVars, walkVars, boundVars
  <1>3. CallInv'
    BY NoCallFacts, SMTT(30) DEF UnsubNetErr, Goto, Return, TypeOK, CallInv, CallOK, Waiting, Callers, Call, clientVars, callVars, yieldVars, brokerVars, walkVars, boundVars
  <1>4. HandlerIdInv'
    BY NoCallFacts DEF UnsubNetErr, Goto, Return, TypeOK, CallInv, CallOK, HandlerIdInv, Call, clientVars, callVars, yieldVars, brokerVars, walkVars, boundVars
  <1>5. AckInv'
    BY AckFrame DEF UnsubNetErr, Goto, Return, brokerVars
  <1>6. SyncNodesOwned'
    BY NoCallFacts DEF UnsubNetErr, Goto, Return, TypeOK, CallInv, CallOK, SyncNodesOwned, Waiting, Call, clientVars, callVars, yieldVars, brokerVars, walkVars, boundVars
  <1>7. SyncSuccessIsGranted'
    BY DEF UnsubNetErr, Goto, Return, TypeOK, CallInv, CallOK, AckInv, SyncSuccessIsGranted
  <1>8. HandlersDistinct'
    BY HandlersFrame DEF UnsubNetErr, Goto, Return
  <1>9. WalkInv'
    BY WalkFrame DEF UnsubNetErr, Goto, Return, yieldVars
  <1> QED
    BY <1>1, <1>2, <1>3, <1>4, <1>5, <1>6, <1>7, <1>8, <1>9

LEMMA UnsubNoMemoryInv ==
    ASSUME IInv, NEW c \in Callers, UnsubNoMemory(c)
    PROVE  IInv'
  <1> USE DEF IInv
  <1>1. TypeOK'
    BY NoCallFacts DEF UnsubNoMemory, Goto, Return, Fault, TypeOK, Label, Callers, Call, clientVars, callVars, yieldVars, brokerVars, walkVars, boundVars
  <1>2. LockInv'
    BY ThreadsAssumption DEF UnsubNoMemory, Goto, Return, Fault, TypeOK, LockInv, Waiting, Callers, clientVars, callVars, yieldVars, brokerVars, walkVars, boundVars
  <1>3. CallInv'
    BY NoCallFacts, SMTT(30) DEF UnsubNoMemory, Goto, Return, Fault, TypeOK, CallInv, CallOK, Waiting, Callers, Call, clientVars, callVars, yieldVars, brokerVars, walkVars, boundVars
  <1>4. HandlerIdInv'
    BY NoCallFacts DEF UnsubNoMemory, Goto, Return, Fault, TypeOK, CallInv, CallOK, HandlerIdInv, Call, clientVars, callVars, yieldVars, brokerVars, walkVars, boundVars
  <1>5. AckInv'
    BY AckFrame DEF UnsubNoMemory, Goto, Return, Fault, brokerVars
  <1>6. SyncNodesOwned'
    BY NoCallFacts DEF UnsubNoMemory, Goto, Return, Fault, TypeOK, CallInv, CallOK, SyncNodesOwned, Waiting, Call, clientVars, callVars, yieldVars, brokerVars, walkVars, boundVars
  <1>7. SyncSuccessIsGranted'
    BY DEF UnsubNoMemory, Goto, Return, Fault, TypeOK, CallInv, CallOK, AckInv, SyncSuccessIsGranted
  <1>8. HandlersDistinct'
    BY HandlersFrame DEF UnsubNoMemory, Goto, Return, Fault
  <1>9. WalkInv'
    BY WalkFrame DEF UnsubNoMemory, Goto, Return, Fault, yieldVars
  <1> QED
    BY <1>1, <1>2, <1>3, <1>4, <1>5, <1>6, <1>7, <1>8, <1>9

LEMMA UnsubRemoveInv ==
    ASSUME IInv, NEW c \in Callers, UnsubRemove(c)
    PROVE  IInv'
  <1> USE DEF IInv
  <1>0. /\ call' \in [Callers -> Call] /\ pc' \in [Callers -> Label] /\ returned' \subseteq Result
        /\ \A d \in Callers \ {c} : pc'[d] = pc[d] /\ call'[d] = call[d]
        /\ pc'[c] = "idle" /\ call'[c] = NoCall
    <2>1. 0 \in Int /\ TRUE \in BOOLEAN
      OBVIOUS
    <2>2. Return(c, 0, TRUE)
      BY Zenon DEF UnsubRemove
    <2> QED
      BY <2>1, <2>2, ReturnFacts
  <1> DEFINE L == list_sub_handle
             R == RemovedBy(call[c].filter)
  <1>l. L \in Seq(Handler) /\ L' = Without(L, R) /\ y_removed' = y_removed \cup R
    BY DEF UnsubRemove, TypeOK
  <1>r. R \subseteq ToSet(L) /\ ToSet(L) \subseteq Handler
    BY <1>l DEF RemovedBy, ToSet
  <1> HIDE DEF L, R
  <1>d. /\ L' \in Seq(Handler) /\ Len(L) \in Nat /\ DOMAIN L = 1..Len(L)
        /\ Len(L') \in Nat /\ DOMAIN L' = 1..Len(L')
    BY <1>l, WithoutProperties
  <1>f. PICK f \in [1..Len(L') -> 1..Len(L)] :
          /\ \A j, k \in 1..Len(L') : j < k => f[j] < f[k]
          /\ \A k \in 1..Len(L') : L'[k] = L[f[k]] /\ L[f[k]] \notin R
          /\ \A i \in 1..Len(L) : L[i] \notin R => \E k \in 1..Len(L') : f[k] = i
    BY <1>l, WithoutProperties
  <1>i. ASSUME NEW i \in 1..Len(L'), NEW j \in 1..Len(L')
        PROVE  /\ f[i] = f[j] => i = j
               /\ f[i] <= f[j] => i <= j
               /\ i <= j => f[i] <= f[j]
    <2>1. f[i] \in 1..Len(L) /\ f[j] \in 1..Len(L) /\ i \in Nat /\ j \in Nat
      BY <1>d, <1>f, SMTT(30)
    <2>2. (j < i => f[j] < f[i]) /\ (i < j => f[i] < f[j])
      BY <1>f
    <2> QED
      BY <1>d, <2>1, <2>2
  <1>s. ToSet(L') = ToSet(L) \ R
    BY <1>l, WithoutMembers
  <1>1. TypeOK'
    <2>1. list_sub_handle' \in Seq(Handler) /\ y_removed' \subseteq Handler
      BY <1>d, <1>l, <1>r DEF TypeOK, L
    <2> QED
      BY <1>0, <2>1 DEF TypeOK, UnsubRemove, clientVars, yieldVars, brokerVars, boundVars
  <1>2. LockInv'
    BY <1>0, ThreadsAssumption DEF UnsubRemove, LockInv, Waiting, Callers, yieldVars
  <1>3. CallInv'
    <2>1. packet_id' \in Nat /\ packet_id' >= packet_id
      BY DEF TypeOK, UnsubRemove, clientVars
    <2> QED
      BY <1>0, <2>1, ReturnCallInv, Zenon
  <1>4. HandlerIdInv'
    <2>1. ToSet(L') \cup y_removed' = ToSet(L) \cup y_removed
      BY <1>l, <1>r, <1>s
    <2>2. packet_id' = packet_id
      BY DEF UnsubRemove, clientVars
    <2>3. ASSUME NEW i \in DOMAIN L', NEW j \in DOMAIN L', L'[i].id = L'[j].id
          PROVE  i = j
      <3>1. f[i] \in DOMAIN L /\ f[j] \in DOMAIN L /\ L[f[i]].id = L[f[j]].id
        BY <1>d, <1>f, <2>3
      <3>2. f[i] = f[j]
        BY <3>1 DEF HandlerIdInv, L
      <3> QED
        BY <1>d, <1>i, <3>2
    <2> QED
      BY <1>0, <2>1, <2>2, <2>3 DEF HandlerIdInv, L
  <1>5. AckInv'
    BY AckFrame DEF UnsubRemove, Goto, Return, brokerVars
  <1>6. SyncNodesOwned'
    <2>1. ~call[c].subed /\ UNCHANGED list_sub_sync_ack
      BY DEF UnsubRemove, CallInv, CallOK, Waiting
    <2> QED
      BY <1>0, <2>1, OwnedFrame
  <1>7. SyncSuccessIsGranted'
    <2>1. returned' = returned
      BY DEF UnsubRemove, Return, CallInv, CallOK
    <2> QED
      BY <2>1, ReturnedFrame
  <1>8. HandlersDistinct'
    <2>1. ASSUME NEW i \in DOMAIN L', NEW j \in DOMAIN L',
                 L'[i].filter = L'[j].filter, L'[i].handle = L'[j].handle
          PROVE  i = j
      <3>1. f[i] \in DOMAIN L /\ f[j] \in DOMAIN L
            /\ L[f[i]].filter = L[f[j]].filter /\ L[f[i]].handle = L[f[j]].handle
        BY <1>d, <1>f, <2>1
      <3>2. f[i] = f[j]
        BY <3>1 DEF HandlersDistinct, L
      <3> QED
        BY <1>d, <1>i, <3>2
    <2> QED
      BY <2>1 DEF HandlersDistinct, L
  <1>9. WalkInv'
    <2>1. UNCHANGED <<y_pc, y_name, y_node, y_start, y_called>>
      BY DEF UnsubRemove, yieldVars
    <2>2. NoneFreed' => NoneFreed /\ ToSet(y_called) \cap R = {}
      BY <1>l, <2>1 DEF NoneFreed
    <2>3. Walked => Walked'
      BY <1>l, <2>1, <2>2 DEF Walked, Distinct
    <2>4. ASSUME Walking
          PROVE  Walking'
      <3>1. ToSet(y_start)' \subseteq ToSet(L') \cup y_removed'
        BY <1>l, <1>s, <2>1, <2>4 DEF Walking, L
      <3>2. ASSUME NoneFreed'
            PROVE  Distinct(y_called)' /\ \E cur \in 0..Len(L') : Passed(cur)'
        <4>1. PICK cur \in 0..Len(L) : Passed(cur)
          BY <2>2, <2>4, <3>2 DEF Walking, L
        <4>2. Distinct(y_called)'
          BY <2>1, <2>2, <2>4, <3>2 DEF Walking, Distinct
        <4>3. \A k \in DOMAIN y_called : \E i \in 1..cur : L[i] = y_called[k] /\ L[i] \notin R
          BY <2>2, <3>2, <4>1 DEF Passed, L, ToSet
        <4>4. CASE y_node = 0
          <5>1. cur = 0
            BY <4>1, <4>4 DEF Passed
          <5>2. \A k \in DOMAIN y_called : FALSE
            BY <4>3, <5>1
          <5>3. Passed(0)'
            BY <2>1, <4>4, <5>2 DEF Passed
          <5> QED
            BY <1>d, <4>2, <5>3
        <4>5. CASE y_node # 0
          <5>1. cur \in 1..Len(L) /\ L[cur].id = y_node
            BY <1>d, <4>1, <4>5 DEF Passed, L
          <5>2. PICK i \in 1..cur : L[i] = y_called[Len(y_called)] /\ L[i] \notin R
            <6>1. Len(y_called) \in DOMAIN y_called
              BY <2>4, <4>5 DEF Walking, TypeOK
            <6> QED
              BY <4>3, <6>1
          <5>3. i = cur
            <6>1. L[i].id = y_node /\ i \in DOMAIN L /\ cur \in DOMAIN L
              BY <1>d, <2>4, <4>5, <5>1, <5>2 DEF Walking
            <6> QED
              BY <5>1, <6>1 DEF HandlerIdInv, L
          <5>4. PICK k \in 1..Len(L') : f[k] = cur
            BY <1>f, <5>1, <5>2, <5>3
          <5>5. ASSUME NEW m \in 1..cur, L[m] \notin R
                PROVE  \E j \in 1..k : L'[j] = L[m]
            <6>1. m \in 1..Len(L)
              BY <1>d, <5>1
            <6>2. PICK j \in 1..Len(L') : f[j] = m
              BY <1>f, <5>5, <6>1
            <6>3. j <= k
              BY <1>i, <5>4, <6>2
            <6> QED
              BY <1>d, <1>f, <6>2, <6>3
          <5>6. ASSUME NEW j \in 1..k
                PROVE  \E m \in 1..cur : L'[j] = L[m]
            <6>1. j \in 1..Len(L') /\ j <= k
              BY <1>d
            <6>2. f[j] \in 1..Len(L) /\ f[j] <= cur
              BY <1>f, <1>i, <5>4, <6>1
            <6> QED
              BY <1>d, <1>f, <6>1, <6>2
          <5>7. k > 0 /\ L'[k].id = y_node /\ k \in 0..Len(L')
            BY <1>d, <1>f, <5>1, <5>4
          <5>8. \A n \in DOMAIN y_called : \E j \in 1..k : L'[j] = y_called[n]
            BY <4>3, <5>5
          <5>9. \A j \in 1..k : Delivers(L'[j].filter, y_name) => L'[j] \in ToSet(y_called)
            BY <4>1, <5>6 DEF Passed, L
          <5>10. Passed(k)'
            BY <2>1, <4>5, <5>7, <5>8, <5>9 DEF Passed, L
          <5> QED
            BY <4>2, <5>7, <5>10
        <4> QED
          BY <4>4, <4>5
      <3> QED
        BY <2>1, <2>4, <3>1, <3>2 DEF Walking, L
    <2> QED
      BY <2>1, <2>3, <2>4 DEF WalkInv
  <1> QED
    BY <1>1, <1>2, <1>3, <1>4, <1>5, <1>6, <1>7, <1>8, <1>9

LEMMA YieldInv ==
    ASSUME IInv, NEW t \in Threads, Yield(t)
    PROVE  IInv'
  <1> USE DEF IInv
  <1>1. TypeOK'
    BY NoCallFacts DEF Yield, Goto, TypeOK, Label, Callers, Call, clientVars, callVars, yieldVars, brokerVars, walkVars, boundVars
  <1>2. LockInv'
    BY ThreadsAssumption DEF Yield, Goto, TypeOK, LockInv, Waiting, Callers, clientVars, callVars, yieldVars, brokerVars, walkVars, boundVars
  <1>3. CallInv'
    BY NoCallFacts DEF Yield, Goto, TypeOK, CallInv, CallOK, Waiting, Callers, Call, clientVars, callVars, yieldVars, brokerVars, walkVars, boundVars
  <1>4. HandlerIdInv'
    BY NoCallFacts DEF Yield, Goto, TypeOK, CallInv, CallOK, HandlerIdInv, Call, clientVars, callVars, yieldVars, brokerVars, walkVars, boundVars
  <1>5. AckInv'
    BY AckFrame DEF Yield, Goto, brokerVars
  <1>6. SyncNodesOwned'
    BY NoCallFacts DEF Yield, Goto, TypeOK, CallInv, CallOK, SyncNodesOwned, Waiting, Call, clientVars, callVars, yieldVars, brokerVars, walkVars, boundVars
  <1>7. SyncSuccessIsGranted'
    BY ReturnedFrame DEF Yield, Goto
  <1>8. HandlersDistinct'
    BY HandlersFrame DEF Yield, Goto
  <1>9. WalkInv'
    BY WalkFrame DEF Yield, Goto, yieldVars
  <1> QED
    BY <1>1, <1>2, <1>3, <1>4, <1>5, <1>6, <1>7, <1>8, <1>9

LEMMA YLockInv ==
    ASSUME IInv, NEW t \in Threads, YLock(t)
    PROVE  IInv'
  <1> USE DEF IInv
  <1>1. TypeOK'
    BY NoCallFacts, SMTT(30) DEF YLock, Goto, Fault, TypeOK, Label, Callers, Call, clientVars, callVars, yieldVars, brokerVars, walkVars, boundVars
  <1>2. LockInv'
    BY ThreadsAssumption DEF YLock, Goto, Fault, TypeOK, LockInv, Waiting, Callers, clientVars, callVars, yieldVars, brokerVars, walkVars, boundVars
  <1>3. CallInv'
    BY NoCallFacts DEF YLock, Goto, Fault, TypeOK, CallInv, CallOK, Waiting, Callers, Call, clientVars, callVars, yieldVars, brokerVars, walkVars, boundVars
  <1>4. HandlerIdInv'
    BY NoCallFacts DEF YLock, Goto, Fault, TypeOK, CallInv, CallOK, HandlerIdInv, Call, clientVars, callVars, yieldVars, brokerVars, walkVars, boundVars
  <1>5. AckInv'
    BY AckFrame DEF YLock, Goto, Fault, brokerVars
  <1>6. SyncNodesOwned'
    BY NoCallFacts, SMTT(30) DEF YLock, Goto, Fault, TypeOK, CallInv, CallOK, SyncNodesOwned, Waiting, Call, clientVars, callVars, yieldVars, brokerVars, walkVars, boundVars
  <1>7. SyncSuccessIsGranted'
    BY ReturnedFrame DEF YLock, Goto, Fault
  <1>8. HandlersDistinct'
    BY HandlersFrame DEF YLock, Goto, Fault
  <1>9. WalkInv'
    <2>1. y_start = << >> /\ y_called = << >> /\ UNCHANGED <<y_start, y_called>>
      BY DEF YLock, LockInv, WalkInv, walkVars
    <2>2. y_pc' \in {"read", "disconnect", "reconnect", "after"}
      BY DEF YLock
    <2>3. Walked'
      BY <2>1 DEF Walked, Distinct
    <2> QED
      BY <2>1, <2>2, <2>3 DEF WalkInv
  <1> QED
    BY <1>1, <1>2, <1>3, <1>4, <1>5, <1>6, <1>7, <1>8, <1>9

LEMMA YDisconnectReturnsInv ==
    ASSUME IInv, YDisconnectReturns
    PROVE  IInv'
  <1> USE DEF IInv
  <1>1. TypeOK'
    BY NoCallFacts DEF YDisconnectReturns, TypeOK, Label, Callers, Call, clientVars, callVars, yieldVars, brokerVars, walkVars, boundVars
  <1>2. LockInv'
    BY ThreadsAssumption DEF YDisconnectReturns, TypeOK, LockInv, Waiting, Callers, clientVars, callVars, yieldVars, brokerVars, walkVars, boundVars
  <1>3. CallInv'
    BY NoCallFacts DEF YDisconnectReturns, TypeOK, CallInv, CallOK, Waiting, Callers, Call, clientVars, callVars, yieldVars, brokerVars, walkVars, boundVars
  <1>4. HandlerIdInv'
    BY NoCallFacts DEF YDisconnectReturns, TypeOK, CallInv, CallOK, HandlerIdInv, Call, clientVars, callVars, yieldVars, brokerVars, walkVars, boundVars
  <1>5. AckInv'
    BY DEF YDisconnectReturns, TypeOK, AckInv, brokerVars
  <1>6. SyncNodesOwned'
    BY NoCallFacts DEF YDisconnectReturns, TypeOK, CallInv, CallOK, SyncNodesOwned, Waiting, Call, clientVars, callVars, yieldVars, brokerVars, walkVars, boundVars
  <1>7. SyncSuccessIsGranted'
    BY ReturnedFrame DEF YDisconnectReturns
  <1>8. HandlersDistinct'
    BY HandlersFrame DEF YDisconnectReturns
  <1>9. WalkInv'
    BY DEF YDisconnectReturns, TypeOK, WalkInv, Walking, Walked, Passed, Distinct, NoneFreed, clientVars, callVars, yieldVars, brokerVars, walkVars, boundVars
  <1> QED
    BY <1>1, <1>2, <1>3, <1>4, <1>5, <1>6, <1>7, <1>8, <1>9

LEMMA YReconnectReturnsInv ==
    ASSUME IInv, YReconnectReturns
    PROVE  IInv'
  <1> USE DEF IInv
  <1>1. TypeOK'
    BY NoCallFacts DEF YReconnectReturns, TypeOK, Label, Callers, Call, clientVars, callVars, yieldVars, brokerVars, walkVars, boundVars
  <1>2. LockInv'
    BY ThreadsAssumption DEF YReconnectReturns, TypeOK, LockInv, Waiting, Callers, clientVars, callVars, yieldVars, brokerVars, walkVars, boundVars
  <1>3. CallInv'
    BY NoCallFacts DEF YReconnectReturns, TypeOK, CallInv, CallOK, Waiting, Callers, Call, clientVars, callVars, yieldVars, brokerVars, walkVars, boundVars
  <1>4. HandlerIdInv'
    BY NoCallFacts DEF YReconnectReturns, TypeOK, CallInv, CallOK, HandlerIdInv, Call, clientVars, callVars, yieldVars, brokerVars, walkVars, boundVars
  <1>5. AckInv'
    BY AckFrame DEF YReconnectReturns, brokerVars
  <1>6. SyncNodesOwned'
    BY NoCallFacts DEF YReconnectReturns, TypeOK, CallInv, CallOK, SyncNodesOwned, Waiting, Call, clientVars, callVars, yieldVars, brokerVars, walkVars, boundVars
  <1>7. SyncSuccessIsGranted'
    BY ReturnedFrame DEF YReconnectReturns
  <1>8. HandlersDistinct'
    BY HandlersFrame DEF YReconnectReturns
  <1>9. WalkInv'
    BY DEF YReconnectReturns, TypeOK, WalkInv, Walking, Walked, Passed, Distinct, NoneFreed, clientVars, callVars, yieldVars, brokerVars, walkVars, boundVars
  <1> QED
    BY <1>1, <1>2, <1>3, <1>4, <1>5, <1>6, <1>7, <1>8, <1>9

LEMMA YUnlockInv ==
    ASSUME IInv, YUnlock
    PROVE  IInv'
  <1> USE DEF IInv
  <1>1. TypeOK'
    <2>1. lock_yield \in Threads /\ lock_yield \in Callers
      BY DEF YUnlock, TypeOK, LockInv, Callers
    <2>2. pc' \in [Callers -> Label]
      BY <2>1 DEF YUnlock, Goto, TypeOK, Label
    <2> QED
      BY <2>2, EmptySeqs DEF TypeOK, YUnlock, clientVars, brokerVars, boundVars
  <1>2. LockInv'
    BY ThreadsAssumption DEF YUnlock, Goto, TypeOK, LockInv, Waiting, Callers, clientVars, callVars, yieldVars, brokerVars, walkVars, boundVars
  <1>3. CallInv'
    BY NoCallFacts DEF YUnlock, Goto, TypeOK, CallInv, CallOK, Waiting, Callers, Call, clientVars, callVars, yieldVars, brokerVars, walkVars, boundVars
  <1>4. HandlerIdInv'
    BY NoCallFacts DEF YUnlock, Goto, TypeOK, CallInv, CallOK, HandlerIdInv, Call, clientVars, callVars, yieldVars, brokerVars, walkVars, boundVars
  <1>5. AckInv'
    BY AckFrame DEF YUnlock, Goto, brokerVars
  <1>6. SyncNodesOwned'
    BY NoCallFacts DEF YUnlock, Goto, TypeOK, CallInv, CallOK, SyncNodesOwned, Waiting, Call, clientVars, callVars, yieldVars, brokerVars, walkVars, boundVars
  <1>7. SyncSuccessIsGranted'
    BY ReturnedFrame DEF YUnlock, Goto
  <1>8. HandlersDistinct'
    BY HandlersFrame DEF YUnlock, Goto
  <1>9. WalkInv'
    BY DEF YUnlock, Goto, TypeOK, WalkInv, Walking, Walked, Passed, Distinct, NoneFreed, clientVars, callVars, yieldVars, brokerVars, walkVars, boundVars
  <1> QED
    BY <1>1, <1>2, <1>3, <1>4, <1>5, <1>6, <1>7, <1>8, <1>9

LEMMA YReadTimeoutInv ==
    ASSUME IInv, YReadTimeout
    PROVE  IInv'
  <1> USE DEF IInv
  <1>1. TypeOK'
    BY NoCallFacts DEF YReadTimeout, TypeOK, Label, Callers, Call, clientVars, callVars, yieldVars, brokerVars, walkVars, boundVars
  <1>2. LockInv'
    BY ThreadsAssumption DEF YReadTimeout, TypeOK, LockInv, Waiting, Callers, clientVars, callVars, yieldVars, brokerVars, walkVars, boundVars
  <1>3. CallInv'
    BY NoCallFacts DEF YReadTimeout, TypeOK, CallInv, CallOK, Waiting, Callers, Call, clientVars, callVars, yieldVars, brokerVars, walkVars, boundVars
  <1>4. HandlerIdInv'
    BY NoCallFacts DEF YReadTimeout, TypeOK, CallInv, CallOK, HandlerIdInv, Call, clientVars, callVars, yieldVars, brokerVars, walkVars, boundVars
  <1>5. AckInv'
    BY AckFrame DEF YReadTimeout, brokerVars
  <1>6. SyncNodesOwned'
    BY NoCallFacts DEF YReadTimeout, TypeOK, CallInv, CallOK, SyncNodesOwned, Waiting, Call, clientVars, callVars, yieldVars, brokerVars, walkVars, boundVars
  <1>7. SyncSuccessIsGranted'
    BY ReturnedFrame DEF YReadTimeout
  <1>8. HandlersDistinct'
    BY HandlersFrame DEF YReadTimeout
  <1>9. WalkInv'
    BY DEF YReadTimeout, TypeOK, WalkInv, Walking, Walked, Passed, Distinct, NoneFreed, clientVars, callVars, yieldVars, brokerVars, walkVars, boundVars
  <1> QED
    BY <1>1, <1>2, <1>3, <1>4, <1>5, <1>6, <1>7, <1>8, <1>9

LEMMA YReadSubackInv ==
    ASSUME IInv, YReadSuback
    PROVE  IInv'
  <1> USE DEF IInv
  <1> DEFINE s == list_sub_sync_ack
             id == Head(down).id
             ack == IF Head(down).ok THEN "SUCCESS" ELSE "NACK"
  <1>0. s' = Acknowledge(s, id, ack) /\ down' = Tail(down) /\ down # << >> /\ down \in Seq(Packet)
        /\ s \in Seq(SyncNode)
    BY DEF YReadSuback, TypeOK
  <1>h. ack = "SUCCESS" => id \in granted
    <2>1. Head(down) = down[1] /\ 1 \in DOMAIN down
      BY <1>0, TailFacts
    <2> QED
      BY <2>1 DEF AckInv, YReadSuback
  <1>k. ack \in {"SUCCESS", "NACK"}
    OBVIOUS
  <1> HIDE DEF s, id, ack
  <1>1a. /\ Len(s) \in Nat /\ DOMAIN s = 1..Len(s) /\ \A i \in DOMAIN s : s[i] \in SyncNode
    BY <1>0
  <1>1b. /\ DOMAIN s' = DOMAIN s
         /\ \A i \in DOMAIN s : /\ s'[i] \in SyncNode /\ s'[i].packet_id = s[i].packet_id
                                /\ s'[i].ack_type = IF s[i].packet_id = id THEN ack ELSE s[i].ack_type
    BY <1>0, <1>k, <1>1a DEF Acknowledge, SyncNode
  <1>1c. s' \in Seq(SyncNode)
    <2>1. s' \in [1..Len(s) -> SyncNode]
      BY <1>0, <1>1a, <1>1b DEF Acknowledge
    <2> QED
      BY <1>1a, <2>1, FunctionIsSeq
  <1>1. TypeOK'
    <2>1. down' \in Seq(Packet)
      BY <1>0, TailFacts
    <2> QED
      BY <1>1c, <2>1 DEF TypeOK, YReadSuback, EnterCallback, s, clientVars, callVars, walkVars, boundVars
  <1>2. LockInv'
    BY ThreadsAssumption DEF YReadSuback, EnterCallback, TypeOK, LockInv, Waiting, Callers, clientVars, callVars, yieldVars, brokerVars, walkVars, boundVars
  <1>3. CallInv'
    BY NoCallFacts DEF YReadSuback, EnterCallback, TypeOK, CallInv, CallOK, Waiting, Callers, Call, clientVars, callVars, yieldVars, brokerVars, walkVars, boundVars
  <1>4. HandlerIdInv'
    BY NoCallFacts DEF YReadSuback, EnterCallback, TypeOK, CallInv, CallOK, HandlerIdInv, Call, clientVars, callVars, yieldVars, brokerVars, walkVars, boundVars
  <1>5. AckInv'
    <2>1. UNCHANGED granted
      BY DEF YReadSuback
    <2>2. \A i \in DOMAIN down' : \E k \in DOMAIN down : down'[i] = down[k]
      BY <1>0, TailFacts
    <2>3. \A i \in DOMAIN s' : s'[i].ack_type = "SUCCESS" => s'[i].packet_id \in granted
      BY <1>h, <1>1b DEF AckInv, s
    <2> QED
      BY <2>1, <2>2, <2>3 DEF AckInv, s
  <1>6. SyncNodesOwned'
    <2>1. UNCHANGED <<pc, call>>
      BY DEF YReadSuback, callVars
    <2> QED
      BY <1>1b, <2>1 DEF SyncNodesOwned, s
  <1>7. SyncSuccessIsGranted'
    BY ReturnedFrame DEF YReadSuback, EnterCallback
  <1>8. HandlersDistinct'
    BY HandlersFrame DEF YReadSuback, EnterCallback
  <1>9. WalkInv'
    BY DEF YReadSuback, EnterCallback, TypeOK, WalkInv, Walking, Walked, Passed, Distinct, NoneFreed, clientVars, callVars, yieldVars, brokerVars, walkVars, boundVars
  <1> QED
    BY <1>1, <1>2, <1>3, <1>4, <1>5, <1>6, <1>7, <1>8, <1>9

LEMMA YReadUnsubackInv ==
    ASSUME IInv, YReadUnsuback
    PROVE  IInv'
  <1> USE DEF IInv
  <1>1. TypeOK'
    BY NoCallFacts DEF YReadUnsuback, EnterCallback, TypeOK, Label, Callers, Call, clientVars, callVars, yieldVars, brokerVars, walkVars, boundVars
  <1>2. LockInv'
    BY ThreadsAssumption DEF YReadUnsuback, EnterCallback, TypeOK, LockInv, Waiting, Callers, clientVars, callVars, yieldVars, brokerVars, walkVars, boundVars
  <1>3. CallInv'
    BY NoCallFacts DEF YReadUnsuback, EnterCallback, TypeOK, CallInv, CallOK, Waiting, Callers, Call, clientVars, callVars, yieldVars, brokerVars, walkVars, boundVars
  <1>4. HandlerIdInv'
    BY NoCallFacts DEF YReadUnsuback, EnterCallback, TypeOK, CallInv, CallOK, HandlerIdInv, Call, clientVars, callVars, yieldVars, brokerVars, walkVars, boundVars
  <1>5. AckInv'
    BY DEF YReadUnsuback, EnterCallback, TypeOK, AckInv, brokerVars
  <1>6. SyncNodesOwned'
    BY NoCallFacts DEF YReadUnsuback, EnterCallback, TypeOK, CallInv, CallOK, SyncNodesOwned, Waiting, Call, clientVars, callVars, yieldVars, brokerVars, walkVars, boundVars
  <1>7. SyncSuccessIsGranted'
    BY ReturnedFrame DEF YReadUnsuback, EnterCallback
  <1>8. HandlersDistinct'
    BY HandlersFrame DEF YReadUnsuback, EnterCallback
  <1>9. WalkInv'
    BY DEF YReadUnsuback, EnterCallback, TypeOK, WalkInv, Walking, Walked, Passed, Distinct, NoneFreed, clientVars, callVars, yieldVars, brokerVars, walkVars, boundVars
  <1> QED
    BY <1>1, <1>2, <1>3, <1>4, <1>5, <1>6, <1>7, <1>8, <1>9

LEMMA YReadPublishInv ==
    ASSUME IInv, YReadPublish
    PROVE  IInv'
  <1> USE DEF IInv
  <1>1. TypeOK'
    <2>1. down \in Seq(Packet) /\ down # << >> /\ down' = Tail(down) /\ Head(down).type = "PUBLISH"
      BY DEF TypeOK, YReadPublish
    <2>2. down' \in Seq(Packet) /\ Head(down) \in Packet
      BY <2>1, TailFacts
    <2>3. y_name' \in Names
      BY <2>1, <2>2 DEF YReadPublish, Packet
    <2> QED
      BY <2>2, <2>3, EmptySeqs DEF TypeOK, YReadPublish, clientVars, callVars, boundVars
  <1>2. LockInv'
    BY ThreadsAssumption DEF YReadPublish, TypeOK, LockInv, Waiting, Callers, clientVars, callVars, yieldVars, brokerVars, walkVars, boundVars
  <1>3. CallInv'
    BY NoCallFacts DEF YReadPublish, TypeOK, CallInv, CallOK, Waiting, Callers, Call, clientVars, callVars, yieldVars, brokerVars, walkVars, boundVars
  <1>4. HandlerIdInv'
    BY NoCallFacts DEF YReadPublish, TypeOK, CallInv, CallOK, HandlerIdInv, Call, clientVars, callVars, yieldVars, brokerVars, walkVars, boundVars
  <1>5. AckInv'
    BY DEF YReadPublish, TypeOK, AckInv, brokerVars
  <1>6. SyncNodesOwned'
    BY NoCallFacts DEF YReadPublish, TypeOK, CallInv, CallOK, SyncNodesOwned, Waiting, Call, clientVars, callVars, yieldVars, brokerVars, walkVars, boundVars
  <1>7. SyncSuccessIsGranted'
    BY ReturnedFrame DEF YReadPublish
  <1>8. HandlersDistinct'
    BY HandlersFrame DEF YReadPublish
  <1>9. WalkInv'
    BY DEF YReadPublish, TypeOK, WalkInv, Walking, Walked, Passed, Distinct, NoneFreed, clientVars, callVars, yieldVars, brokerVars, walkVars, boundVars
  <1> QED
    BY <1>1, <1>2, <1>3, <1>4, <1>5, <1>6, <1>7, <1>8, <1>9

LEMMA YWalkInv ==
    ASSUME IInv, YWalk
    PROVE  IInv'
  <1> USE DEF IInv
  <1> DEFINE L == list_sub_handle
  <1>p. PICK p \in NextPositions(y_node) :
          IF MatchesFrom(p) # {}
            THEN LET n == L[Min(MatchesFrom(p))] IN
                 /\ EnterCallback
                 /\ y_node' = n.id /\ y_matched' = TRUE /\ y_called' = Append(y_called, n)
            ELSE /\ IF y_matched THEN y_pc' = "after" /\ UNCHANGED in_yield_cb ELSE EnterCallback
                 /\ y_node' = 0 /\ UNCHANGED <<y_matched, y_called>>
    BY Zenon DEF YWalk
  <1> DEFINE M == MatchesFrom(p)
  <1>0. /\ L \in Seq(Handler) /\ Len(L) \in Nat /\ DOMAIN L = 1..Len(L)
        /\ \A i \in 1..Len(L) : L[i] \in Handler /\ L[i] \in ToSet(L)
    BY DEF TypeOK, ToSet
  <1>q. p \in 1..(Len(L) + 1)
    <2>1. CASE y_node # 0 /\ InList(y_node)
      <3>1. Position(y_node) \in DOMAIN L
        BY <2>1 DEF InList, Position
      <3> QED
        BY <1>0, <2>1, <3>1 DEF NextPositions
    <2>2. CASE ~(y_node # 0 /\ InList(y_node))
      BY <1>0, <2>2 DEF NextPositions
    <2> QED
      BY <2>1, <2>2
  <1>m. /\ M \in SUBSET (1..Len(L)) /\ M \in SUBSET Nat
        /\ \A i \in 1..Len(L) : i \in M <=> i >= p /\ Delivers(L[i].filter, y_name)
    BY <1>0, <1>q DEF MatchesFrom
  <1> HIDE DEF L, M
  <1>1m. PICK m \in Nat : M # {} => m = Min(M) /\ m \in M /\ \A i \in M : m <= i
    <2>1. CASE M = {}
      BY <2>1
    <2>2. CASE M # {}
      <3>1. Min(M) \in M /\ \A i \in M : Min(M) <= i
        BY <1>m, <2>2, MinProperties
      <3> QED
        BY <1>m, <3>1
    <2> QED
      BY <2>1, <2>2
  <1>2m. M # {} => /\ m \in 1..Len(L) /\ m >= p /\ Delivers(L[m].filter, y_name) /\ L[m] \in Handler
                   /\ L[m].id \in Nat \ {0}
                   /\ \A i \in 1..Len(L) : i >= p /\ i < m => ~Delivers(L[i].filter, y_name)
    <2> SUFFICES ASSUME M # {} PROVE /\ m \in 1..Len(L) /\ m >= p /\ Delivers(L[m].filter, y_name) /\ L[m] \in Handler
                   /\ L[m].id \in Nat \ {0}
                   /\ \A i \in 1..Len(L) : i >= p /\ i < m => ~Delivers(L[i].filter, y_name)
      OBVIOUS
    <2>1. m \in 1..Len(L) /\ m >= p /\ Delivers(L[m].filter, y_name) /\ L[m] \in Handler /\ L[m] \in ToSet(L)
      BY <1>0, <1>m, <1>1m
    <2>2. L[m].id \in 1..packet_id /\ packet_id \in Nat
      BY <2>1 DEF HandlerIdInv, TypeOK, L
    <2>3. ASSUME NEW i \in 1..Len(L), i >= p, i < m
          PROVE  ~Delivers(L[i].filter, y_name)
      <3>1. ASSUME i \in M
            PROVE  FALSE
        <4>1. m <= i /\ m \in Nat /\ i \in Nat
          BY <1>1m, <1>0, <2>1, <3>1
        <4> QED
          BY <2>3, <4>1
      <3> QED
        BY <1>m, <2>3, <3>1
    <2> QED
      BY <2>1, <2>2, <2>3
  <1>a. M # {} => EnterCallback /\ y_node' = L[m].id /\ y_matched' = TRUE /\ y_called' = Append(y_called, L[m])
    BY <1>p, <1>1m, Zenon DEF M, L
  <1>b. M = {} => /\ y_node' = 0 /\ UNCHANGED <<y_matched, y_called>>
                  /\ (y_pc' = "after" /\ UNCHANGED in_yield_cb) \/ EnterCallback
    BY <1>p DEF M
  <1>y. y_pc = "walk" /\ UNCHANGED <<list_sub_handle, y_name, y_start, y_removed>>
    BY DEF YWalk
  <1>1. TypeOK'
    <2>1. y_pc' \in {"after", "callback"} /\ in_yield_cb' \in BOOLEAN
      <3>1. CASE EnterCallback
        BY <3>1 DEF EnterCallback
      <3>2. CASE y_pc' = "after" /\ UNCHANGED in_yield_cb
        BY <3>2 DEF TypeOK
      <3> QED
        BY <1>a, <1>b, <3>1, <3>2
    <2>2. y_node' \in Nat /\ y_called' \in Seq(Handler)
      <3>1. CASE M # {}
        <4>1. y_called \in Seq(Handler) /\ L[m] \in Handler /\ L[m].id \in Nat
          BY <1>2m, <3>1 DEF TypeOK
        <4>2. y_called' = Append(y_called, L[m]) /\ y_node' = L[m].id
          BY <1>a, <3>1
        <4> QED
          BY <4>1, <4>2, AppendProperties
      <3>2. CASE M = {}
        BY <1>b, <3>2 DEF TypeOK
      <3> QED
        BY <3>1, <3>2
    <2>3. y_matched' \in BOOLEAN
      BY <1>a, <1>b DEF TypeOK
    <2> QED
      BY <2>1, <2>2, <2>3, <1>y DEF TypeOK, YWalk, clientVars, callVars, brokerVars, boundVars
  <1>2. LockInv'
    <2>1. (in_yield_cb' <=> y_pc' = "callback") /\ y_pc' \in {"after", "callback"}
      <3>1. CASE EnterCallback
        BY <3>1 DEF EnterCallback
      <3>2. CASE y_pc' = "after" /\ UNCHANGED in_yield_cb
        BY <1>y, <3>2 DEF LockInv
      <3> QED
        BY <1>a, <1>b, <3>1, <3>2
    <2>2. UNCHANGED <<pc, lock_yield>>
      BY DEF YWalk, callVars
    <2>3. pc["cb"] = "idle"
      BY <1>y DEF LockInv
    <2> QED
      BY <1>y, <2>1, <2>2, <2>3 DEF LockInv, Waiting
  <1>3. CallInv'
    BY NoCallFacts DEF YWalk, EnterCallback, TypeOK, CallInv, CallOK, Waiting, Callers, Call, clientVars, callVars, yieldVars, brokerVars, walkVars, boundVars
  <1>4. HandlerIdInv'
    BY NoCallFacts DEF YWalk, EnterCallback, TypeOK, CallInv, CallOK, HandlerIdInv, Call, clientVars, callVars, yieldVars, brokerVars, walkVars, boundVars
  <1>5. AckInv'
    BY AckFrame DEF YWalk, EnterCallback, brokerVars
  <1>6. SyncNodesOwned'
    BY NoCallFacts DEF YWalk, EnterCallback, TypeOK, CallInv, CallOK, SyncNodesOwned, Waiting, Call, clientVars, callVars, yieldVars, brokerVars, walkVars, boundVars
  <1>7. SyncSuccessIsGranted'
    BY ReturnedFrame DEF YWalk, EnterCallback
  <1>8. HandlersDistinct'
    BY HandlersFrame DEF YWalk, EnterCallback
  <1>9. WalkInv'
    <2>w. Walking
      BY <1>y DEF WalkInv
    <2>c. y_called \in Seq(Handler) /\ Len(y_called) \in Nat /\ DOMAIN y_called = 1..Len(y_called)
      BY DEF TypeOK
    <2>p. ASSUME NEW cur \in 0..Len(L), Passed(cur)
          PROVE  p = cur + 1
      <3>1. CASE y_node = 0
        BY <1>p, <2>p, <3>1 DEF NextPositions, Passed
      <3>2. CASE y_node # 0
        <4>1. cur \in DOMAIN L /\ L[cur].id = y_node
          BY <1>0, <2>p, <3>2 DEF Passed, L
        <4>2. InList(y_node)
          BY <4>1 DEF InList, L
        <4>3. Position(y_node) \in DOMAIN L /\ L[Position(y_node)].id = y_node
          BY <4>1 DEF Position, L
        <4>4. Position(y_node) = cur
          BY <4>1, <4>3 DEF HandlerIdInv, L
        <4> QED
          BY <1>p, <3>2, <4>2, <4>4 DEF NextPositions
      <3> QED
        BY <3>1, <3>2
    <2>1. CASE M # {}
      <3> DEFINE n == L[m]
      <3>1. /\ m \in 1..Len(L) /\ m >= p /\ n \in Handler /\ n.id \in Nat \ {0}
            /\ \A i \in 1..Len(L) : i >= p /\ i < m => ~Delivers(L[i].filter, y_name)
        BY <1>2m, <2>1
      <3> HIDE DEF n
      <3>2. y_called' = Append(y_called, n) /\ y_node' = n.id /\ y_pc' = "callback"
        BY <1>a, <2>1 DEF EnterCallback, n
      <3>3. /\ y_called' \in Seq(Handler) /\ Len(y_called') = Len(y_called) + 1
            /\ DOMAIN y_called' = 1..(Len(y_called) + 1)
            /\ y_called'[Len(y_called) + 1] = n
            /\ \A k \in 1..Len(y_called) : y_called'[k] = y_called[k]
        BY <2>c, <3>1, <3>2
      <3>4. \A k \in DOMAIN y_called' : (k \in DOMAIN y_called /\ y_called'[k] = y_called[k])
                                        \/ (k = Len(y_called) + 1 /\ y_called'[k] = n)
        BY <2>c, <3>3
      <3>5. n \in ToSet(y_called') /\ ToSet(y_called) \subseteq ToSet(y_called')
        BY <2>c, <3>3 DEF ToSet
      <3>6. ASSUME NoneFreed'
            PROVE  Distinct(y_called)' /\ Passed(m)' /\ m \in 0..Len(L')
        <4>1. NoneFreed
          BY <1>y, <3>5, <3>6 DEF NoneFreed
        <4>2. PICK cur \in 0..Len(L) : Passed(cur)
          BY <2>w, <4>1 DEF Walking, L
        <4>3. p = cur + 1 /\ cur < m /\ cur \in Nat /\ m \in Nat
          BY <1>0, <2>p, <3>1, <4>2
        <4>4. \A k \in DOMAIN y_called : \E i \in 1..cur : L[i] = y_called[k]
          BY <4>2 DEF Passed, L
        <4>5. \A k \in DOMAIN y_called : y_called[k] # n
          <5>1. ASSUME NEW k \in DOMAIN y_called, y_called[k] = n
                PROVE  FALSE
            <6>1. PICK i \in 1..cur : L[i] = L[m]
              BY <4>4, <5>1 DEF n
            <6>2. i \in DOMAIN L /\ m \in DOMAIN L /\ i # m
              BY <1>0, <3>1, <4>3
            <6> QED
              BY <6>1, <6>2 DEF HandlerIdInv, L
          <5> QED
            BY <5>1
        <4>6. Distinct(y_called')
          <5>1. \A j, k \in DOMAIN y_called : y_called[j] = y_called[k] => j = k
            BY <2>w, <4>1 DEF Walking, Distinct
          <5> QED
            BY <3>4, <4>5, <5>1 DEF Distinct
        <4>7. \A k \in DOMAIN y_called' : \E i \in 1..m : L[i] = y_called'[k]
          <5>1. ASSUME NEW k \in DOMAIN y_called
                PROVE  \E i \in 1..m : L[i] = y_called[k]
            <6>1. PICK i \in 1..cur : L[i] = y_called[k]
              BY <4>4
            <6>2. i \in 1..m
              BY <4>3
            <6> QED
              BY <6>1, <6>2
          <5>2. m \in 1..m /\ L[m] = n
            BY <3>1, <4>3 DEF n
          <5> QED
            BY <3>4, <5>1, <5>2
        <4>8. ASSUME NEW i \in 1..m, Delivers(L[i].filter, y_name)
              PROVE  L[i] \in ToSet(y_called')
          <5>1. CASE i \in 1..cur
            BY <3>5, <4>2, <4>8, <5>1 DEF Passed, L
          <5>2. CASE i = m
            BY <3>5, <5>2 DEF n
          <5>3. CASE i \notin 1..cur /\ i # m
            <6>1. i \in 1..Len(L) /\ i >= p /\ i < m
              BY <1>0, <3>1, <4>3, <5>3
            <6> QED
              BY <3>1, <4>8, <6>1
          <5> QED
            BY <5>1, <5>2, <5>3
        <4>9. y_node' # 0 /\ m > 0 /\ L[m].id = y_node'
          BY <3>1, <3>2, <4>3 DEF n
        <4>10. Passed(m)'
          BY <1>y, <4>7, <4>8, <4>9 DEF Passed, L
        <4> QED
          BY <1>0, <1>y, <3>1, <4>6, <4>10 DEF L, Distinct
      <3>7. y_called' # << >> /\ y_called'[Len(y_called')].id = y_node' /\ y_node' # 0
        BY <2>c, <3>1, <3>2, <3>3
      <3>8. Walking'
        BY <1>y, <2>w, <3>6, <3>7 DEF Walking, L
      <3> QED
        BY <3>2, <3>7, <3>8 DEF WalkInv
    <2>2. CASE M = {}
      <3>1. y_node' = 0 /\ UNCHANGED y_called /\ y_pc' \in {"after", "callback"}
        BY <1>b, <2>2 DEF EnterCallback
      <3>2. ASSUME NoneFreed
            PROVE  \A i \in DOMAIN y_start :
                      Delivers(y_start[i].filter, y_name) /\ y_start[i] \notin y_removed =>
                          y_start[i] \in ToSet(y_called)
        <4>1. PICK cur \in 0..Len(L) : Passed(cur)
          BY <2>w, <3>2 DEF Walking, L
        <4>2. p = cur + 1
          BY <2>p, <4>1
        <4>3. SUFFICES ASSUME NEW i \in DOMAIN y_start, Delivers(y_start[i].filter, y_name),
                              y_start[i] \notin y_removed
                       PROVE  y_start[i] \in ToSet(y_called)
          OBVIOUS
        <4>4. y_start[i] \in ToSet(L)
          BY <2>w, <4>3 DEF Walking, ToSet, L
        <4>5. PICK k \in 1..Len(L) : L[k] = y_start[i]
          BY <1>0, <4>4 DEF ToSet
        <4>6. k < p
          BY <1>0, <1>m, <1>q, <2>2, <4>3, <4>5
        <4>7. k \in 1..cur
          BY <1>0, <4>2, <4>6
        <4> QED
          BY <4>1, <4>3, <4>5, <4>7 DEF Passed, L
      <3>3. Walked'
        BY <1>y, <2>w, <3>1, <3>2 DEF Walked, Walking, NoneFreed, Distinct
      <3> QED
        BY <3>1, <3>3 DEF WalkInv
    <2> QED
      BY <2>1, <2>2
  <1> QED
    BY <1>1, <1>2, <1>3, <1>4, <1>5, <1>6, <1>7, <1>8, <1>9

LEMMA YCallbackReturnsInv ==
    ASSUME IInv, YCallbackReturns
    PROVE  IInv'
  <1> USE DEF IInv
  <1>1. TypeOK'
    BY NoCallFacts DEF YCallbackReturns, TypeOK, Label, Callers, Call, clientVars, callVars, yieldVars, brokerVars, walkVars, boundVars
  <1>2. LockInv'
    BY ThreadsAssumption DEF YCallbackReturns, TypeOK, LockInv, Waiting, Callers, clientVars, callVars, yieldVars, brokerVars, walkVars, boundVars
  <1>3. CallInv'
    BY NoCallFacts DEF YCallbackReturns, TypeOK, CallInv, CallOK, Waiting, Callers, Call, clientVars, callVars, yieldVars, brokerVars, walkVars, boundVars
  <1>4. HandlerIdInv'
    BY NoCallFacts DEF YCallbackReturns, TypeOK, CallInv, CallOK, HandlerIdInv, Call, clientVars, callVars, yieldVars, brokerVars, walkVars, boundVars
  <1>5. AckInv'
    BY AckFrame DEF YCallbackReturns, brokerVars
  <1>6. SyncNodesOwned'
    BY NoCallFacts DEF YCallbackReturns, TypeOK, CallInv, CallOK, SyncNodesOwned, Waiting, Call, clientVars, callVars, yieldVars, brokerVars, walkVars, boundVars
  <1>7. SyncSuccessIsGranted'
    BY ReturnedFrame DEF YCallbackReturns
  <1>8. HandlersDistinct'
    BY HandlersFrame DEF YCallbackReturns
  <1>9. WalkInv'
    BY DEF YCallbackReturns, TypeOK, WalkInv, Walking, Walked, Passed, Distinct, NoneFreed, clientVars, callVars, yieldVars, brokerVars, walkVars, boundVars
  <1> QED
    BY <1>1, <1>2, <1>3, <1>4, <1>5, <1>6, <1>7, <1>8, <1>9

LEMMA BrokerPublishInv ==
    ASSUME IInv, NEW n \in Names, BrokerPublish(n)
    PROVE  IInv'
  <1> USE DEF IInv
  <1>1. TypeOK'
    <2>1. [type |-> "PUBLISH", name |-> n] \in Packet
      BY DEF Packet
    <2>2. down' \in Seq(Packet)
      BY <2>1, AppendProperties DEF TypeOK, BrokerPublish
    <2> QED
      BY <2>2 DEF TypeOK, BrokerPublish, clientVars, callVars, yieldVars, walkVars
  <1>2. LockInv'
    BY ThreadsAssumption DEF BrokerPublish, TypeOK, LockInv, Waiting, Callers, clientVars, callVars, yieldVars, brokerVars, walkVars, boundVars
  <1>3. CallInv'
    BY NoCallFacts DEF BrokerPublish, TypeOK, CallInv, CallOK, Waiting, Callers, Call, clientVars, callVars, yieldVars, brokerVars, walkVars, boundVars
  <1>4. HandlerIdInv'
    BY NoCallFacts DEF BrokerPublish, TypeOK, CallInv, CallOK, HandlerIdInv, Call, clientVars, callVars, yieldVars, brokerVars, walkVars, boundVars
  <1>5. AckInv'
    BY DEF BrokerPublish, TypeOK, AckInv, brokerVars
  <1>6. SyncNodesOwned'
    BY NoCallFacts DEF BrokerPublish, TypeOK, CallInv, CallOK, SyncNodesOwned, Waiting, Call, clientVars, callVars, yieldVars, brokerVars, walkVars, boundVars
  <1>7. SyncSuccessIsGranted'
    BY ReturnedFrame DEF BrokerPublish
  <1>8. HandlersDistinct'
    BY HandlersFrame DEF BrokerPublish
  <1>9. WalkInv'
    BY WalkFrame DEF BrokerPublish, yieldVars
  <1> QED
    BY <1>1, <1>2, <1>3, <1>4, <1>5, <1>6, <1>7, <1>8, <1>9

-----------------------------------------------------------------------------
(* The theorems.                                                            *)

LEMMA InitInv ==
    ASSUME Init
    PROVE  IInv
  <1>1. TypeOK
    <2>1. (CHOOSE n \in Names : TRUE) \in Names
      BY InhabitedAssumption
    <2> QED
      BY <2>1, NoCallFacts, EmptySeqs DEF Init, TypeOK, Label
  <1>2. LockInv
    BY ThreadsAssumption DEF Init, LockInv, Callers, Waiting
  <1>3. CallInv
    BY NoCallFacts DEF Init, CallInv, CallOK
  <1>4. HandlerIdInv
    BY DEF Init, HandlerIdInv, ToSet
  <1>5. AckInv /\ SyncNodesOwned /\ SyncSuccessIsGranted /\ HandlersDistinct
    BY DEF Init, AckInv, SyncNodesOwned, SyncSuccessIsGranted, HandlersDistinct
  <1>6. WalkInv
    BY DEF Init, WalkInv
  <1> QED
    BY <1>1, <1>2, <1>3, <1>4, <1>5, <1>6 DEF IInv

LEMMA StutterInv ==
    ASSUME IInv, UNCHANGED vars
    PROVE  IInv'
  <1> USE DEF IInv, vars, clientVars, callVars, yieldVars, brokerVars, walkVars, boundVars
  <1>1. TypeOK'
    BY DEF TypeOK
  <1>2. LockInv'
    BY DEF LockInv
  <1>3. CallInv'
    BY DEF CallInv
  <1>4. HandlerIdInv'
    BY DEF HandlerIdInv
  <1>5. AckInv' /\ SyncNodesOwned' /\ SyncSuccessIsGranted' /\ HandlersDistinct'
    BY DEF AckInv, SyncNodesOwned, SyncSuccessIsGranted, HandlersDistinct
  <1>6. WalkInv'
    BY WalkFrame
  <1> QED
    BY <1>1, <1>2, <1>3, <1>4, <1>5, <1>6

LEMMA NextInv ==
    ASSUME IInv, Next
    PROVE  IInv'
  <1>1. ASSUME NEW c \in Callers, NEW f \in Filters, NEW h \in Handles, NEW sync \in BOOLEAN,
               Subscribe(c, f, h, sync)
        PROVE  IInv'
    BY <1>1, SubscribeInv
  <1>2. ASSUME NEW c \in Callers, NEW f \in Filters, Unsubscribe(c, f)
        PROVE  IInv'
    BY <1>2, UnsubscribeInv
  <1>3. ASSUME NEW c \in Callers, CallStep(c)
        PROVE  IInv'
    <2>1. ASSUME NEW nack \in BOOLEAN, SubSendOk(c, nack)
          PROVE  IInv'
      BY <2>1, SubSendOkInv
    <2>2. CASE SubCheck(c)
      BY <2>2, SubCheckInv
    <2>3. CASE SubNoMemory(c)
      BY <2>3, SubNoMemoryInv
    <2>4. CASE SubSendFail(c)
      BY <2>4, SubSendFailInv
    <2>18. CASE SubNetErr(c)
      BY <2>18, SubNetErrInv
    <2>19. CASE UnsubNetErr(c)
      BY <2>19, UnsubNetErrInv
    <2>5. CASE SubSendLost(c)
      BY <2>5, SubSendLostInv
    <2>6. CASE SubAdd(c)
      BY <2>6, SubAddInv
    <2>7. CASE SubReturn(c)
      BY <2>7, SubReturnInv
    <2>8. CASE SyncNodeAdd(c)
      BY <2>8, SyncNodeAddInv
    <2>9. CASE SyncCheckSuccess(c)
      BY <2>9, SyncCheckSuccessInv
    <2>10. CASE SyncCheckAgain(c)
      BY <2>10, SyncCheckAgainInv
    <2>11. CASE SyncTop(c)
      BY <2>11, SyncTopInv
    <2>12. CASE SyncExpired(c)
      BY <2>12, SyncExpiredInv
    <2>13. CASE UnsubCheck(c)
      BY <2>13, UnsubCheckInv
    <2>14. CASE UnsubSendOk(c)
      BY <2>14, UnsubSendOkInv
    <2>15. CASE UnsubSendFail(c)
      BY <2>15, UnsubSendFailInv
    <2>16. CASE UnsubNoMemory(c)
      BY <2>16, UnsubNoMemoryInv
    <2>17. CASE UnsubRemove(c)
      BY <2>17, UnsubRemoveInv
    <2> QED
      BY <1>3, <2>1, <2>2, <2>3, <2>4, <2>5, <2>6, <2>7, <2>8, <2>9, <2>10, <2>11, <2>12, <2>13,
         <2>14, <2>15, <2>16, <2>17, <2>18, <2>19 DEF CallStep
  <1>4. ASSUME NEW t \in Threads, Yield(t) \/ YLock(t)
        PROVE  IInv'
    BY <1>4, YieldInv, YLockInv
  <1>5. CASE YStep
    BY <1>5, YUnlockInv, YDisconnectReturnsInv, YReconnectReturnsInv, YReadTimeoutInv,
       YReadSubackInv, YReadUnsubackInv, YReadPublishInv, YWalkInv, YCallbackReturnsInv DEF YStep
  <1>6. ASSUME NEW n \in Names, BrokerPublish(n)
        PROVE  IInv'
    BY <1>6, BrokerPublishInv
  <1> QED
    BY <1>1, <1>2, <1>3, <1>4, <1>5, <1>6 DEF Next

\* The inductive invariant holds in every reachable state.
THEOREM Invariance == Spec => []IInv
  <1>1. Init => IInv
    BY InitInv
  <1>2. IInv /\ [Next]_vars => IInv'
    BY NextInv, StutterInv
  <1> QED
    BY <1>1, <1>2, PTL DEF Spec

\* Every variable of the client keeps its type, for any number of threads and calls.
THEOREM TypeCorrect == Spec => []TypeOK
  BY Invariance, PTL DEF IInv

\* A synchronous subscription (wrapper_mqtt_subscribe_sync) that waited and returned an
\* id was granted by the broker under this id, whichever thread read the SUBACK.
THEOREM SyncSuccessGranted == Spec => []SyncSuccessIsGranted
  BY Invariance, PTL DEF IInv

\* Neither a timeout nor a refusal leaves a node in list_sub_sync_ack, and no call has two.
THEOREM SyncNodesHaveOwners == Spec => []SyncNodesOwned
  BY Invariance, PTL DEF IInv

\* list_sub_handle holds no handler twice, however many threads subscribe at once.
THEOREM HandlersListedOnce == Spec => []HandlersDistinct
  BY Invariance, PTL DEF IInv

\* The callback of a message or of an acknowledgement never waits for lock_yield.
THEOREM CallbacksNeverYield == Spec => []CallbackNeverYields
  <1>1. IInv => CallbackNeverYields
    BY DEF IInv, LockInv, Waiting, CallbackNeverYields
  <1> QED
    BY <1>1, Invariance, PTL

\* In a sequence without repetition every member has one position.
LEMMA OnePosition ==
    ASSUME NEW s \in Seq(Handler), Distinct(s), NEW x \in ToSet(s)
    PROVE  Cardinality({k \in DOMAIN s : s[k] = x}) = 1
  <1>1. PICK k \in DOMAIN s : s[k] = x
    BY DEF ToSet
  <1>2. {j \in DOMAIN s : s[j] = x} = {k}
    BY <1>1 DEF Distinct
  <1> QED
    BY <1>2, FS_Singleton

\* iotx_mc_deliver_message calls every matching handler that stays in the list exactly
\* once, whatever the callbacks and other threads add and remove while it walks.
THEOREM DeliveryComplete == Spec => []WalkComplete
  <1>1. ASSUME IInv
        PROVE  WalkComplete
    <2> SUFFICES ASSUME y_pc = "after", ToSet(y_called) \cap y_removed = {},
                        NEW i \in DOMAIN y_start,
                        Delivers(y_start[i].filter, y_name), y_start[i] \notin y_removed
                 PROVE  Cardinality({k \in DOMAIN y_called : y_called[k] = y_start[i]}) = 1
      BY DEF WalkComplete
    <2>1. Distinct(y_called) /\ y_start[i] \in ToSet(y_called)
      BY <1>1 DEF IInv, WalkInv, Walked, NoneFreed
    <2>2. y_called \in Seq(Handler)
      BY <1>1 DEF IInv, TypeOK
    <2> QED
      BY <2>1, <2>2, OnePosition
  <1> QED
    BY <1>1, Invariance, PTL

=============================================================================
