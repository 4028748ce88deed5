------------------------- MODULE MqttPublish_proofs -------------------------
(***************************************************************************)
(* Proofs about MqttPublish, for any set of publishers and any bounds:     *)
(* the type invariant, the bound on the republish list, that a QoS 1       *)
(* message whose publish succeeded is never forgotten, that packet ids in  *)
(* flight stay different across the wrap of the counter, and that every    *)
(* step is a step of AckedDelivery.                                        *)
(***************************************************************************)
EXTENDS MqttPublish, LinkedList_proofs

Threads == Publishers \cup {"yield", "none"}

Active(p) == pc[p] \in {"ready", "locked", "send"}

\* Who holds which lock is told by where the threads are.
LockInv ==
    /\ \A p \in Publishers : lock_list_pub = p <=> pc[p] \in {"locked", "send"}
    /\ \A p \in Publishers : lock_write_buf = p <=> pc[p] = "send"
    /\ lock_list_pub = "yield" <=> y_pc \in {"scan", "resend", "refail"}
    /\ lock_write_buf # "yield"

\* A QoS 1 request under way has its own id, not yet accepted.
ReqInv ==
    /\ accepted \subseteq 1..issued
    /\ \A p \in Publishers :
         Active(p) => \/ req[p].qos = 0 /\ req[p].id = 0 /\ req[p].seq = 0
                      \/ /\ req[p].qos = 1 /\ req[p].id \in Ids
                         /\ req[p].seq \in (1..issued) \ accepted
    /\ \A p, q \in Publishers :
         p # q /\ Active(p) /\ Active(q) /\ req[p].qos = 1 => req[p].seq # req[q].seq

\* The two places where a thread returns to a node it has found earlier.
NodeInv ==
    /\ \A p \in Publishers :
         pc[p] = "send" /\ req[p].qos = 1 =>
            LET n == Len(list_pub_wait_ack) IN
            /\ n > 0
            /\ list_pub_wait_ack[n].seq = req[p].seq
            /\ list_pub_wait_ack[n].node_state = "NORMAL"
    /\ y_pc = "resend" => cursor \in DOMAIN list_pub_wait_ack

BaseInv == TypeOK /\ LockInv /\ ReqInv /\ NodeInv /\ WaitListBounded

\* Ordinals of messages that were given up: not accepted, and never to be.
DeadSeqs == {a \in (1..issued) \ accepted : \A p \in Publishers : Active(p) => req[p].seq # a}

\* The acknowledgements that may be believed.
GoodAcks == {CONNACK} \cup received \cup DeadSeqs

\* The yield thread has not found out that a republication of its own was torn.
Trusting ==
    /\ y_pc # "refail"
    /\ client_state # "DISCONNECTED" \/ y_pc # "idle"

\* Nothing in either stream acknowledges, or may come to acknowledge, a message that
\* the broker has not received and that some publish call reported as sent.
StreamSafe ==
    /\ \A i \in DOMAIN down : down[i] \in GoodAcks
    /\ \A i \in DOMAIN up : up[i].torn => up[i].id \in GoodAcks

\* Before the counter wraps a packet id names one message.
IdsAreSeqs ==
    /\ packet_id = issued
    /\ \A p \in Publishers : Active(p) => req[p].id = req[p].seq
    /\ \A i \in DOMAIN list_pub_wait_ack : list_pub_wait_ack[i].id = list_pub_wait_ack[i].seq
    /\ \A i \in DOMAIN up : up[i].id = up[i].seq

NotForgotten == \A s \in accepted : s \in received \/ Waiting(s)

DeliveryInv ==
    /\ IdsAreSeqs
    /\ Trusting => StreamSafe
    /\ y_pc = "mask" => y_ack \in GoodAcks
    /\ NotForgotten

NoWrap == issued <= PACKET_ID_MAX /\ JunkIds = {}

\* The inductive invariant.
IInv == BaseInv /\ (NoWrap => DeliveryInv)

-----------------------------------------------------------------------------
(* Lemmas about the operators on the list.                                  *)

LEMMA MaskProperties ==
    ASSUME NEW list \in Seq(Node), NEW id
    PROVE  /\ Mask(list, id) \in Seq(Node)
           /\ Len(Mask(list, id)) = Len(list)
           /\ \A i \in 1..Len(list) :
                Mask(list, id)[i] = IF list[i].id = id
                                      THEN [list[i] EXCEPT !.node_state = "INVALID"]
                                      ELSE list[i]
  <1>1. Len(list) \in Nat /\ DOMAIN list = 1..Len(list) /\ \A k \in 1..Len(list) : list[k] \in Node
    BY LenProperties, ElementOfSeq
  <1>2. Mask(list, id) \in [1..Len(list) -> Node]
    BY <1>1 DEF Mask, Node
  <1> QED
    BY <1>1, <1>2, FunctionIsSeq DEF Mask

LEMMA RestartTimerProperties ==
    ASSUME NEW list \in Seq(Node), NEW i \in DOMAIN list, NEW b \in BOOLEAN
    PROVE  /\ [list EXCEPT ![i].late = b] \in Seq(Node)
           /\ Len([list EXCEPT ![i].late = b]) = Len(list)
           /\ \A j \in 1..Len(list) :
                [list EXCEPT ![i].late = b][j] = IF j = i THEN [list[i] EXCEPT !.late = b] ELSE list[j]
  <1>1. Len(list) \in Nat /\ DOMAIN list = 1..Len(list) /\ \A k \in 1..Len(list) : list[k] \in Node
    BY LenProperties, ElementOfSeq
  <1>2. [list EXCEPT ![i].late = b] \in [1..Len(list) -> Node]
    BY <1>1 DEF Node
  <1> QED
    BY <1>1, <1>2, FunctionIsSeq

-----------------------------------------------------------------------------
(* The part of the invariant that does not depend on packet ids.            *)

LEMMA BaseInit == Init => BaseInv
  <1> SUFFICES ASSUME Init PROVE BaseInv
    OBVIOUS
  <1> USE PublishersAssumption, PacketIdAssumption, RepubAssumption DEF Init
  <1>1. Len(list_pub_wait_ack) = 0 /\ list_pub_wait_ack \in Seq(Node)
        /\ up \in Seq(Packet) /\ down \in Seq(0..PACKET_ID_MAX)
    BY EmptySeq
  <1>2. TypeOK
    <2>1. [qos |-> 0, id |-> 0, seq |-> 0] \in Request
      BY DEF Request
    <2>2. req \in [Publishers -> Request]
      BY <2>1
    <2>3. desync \in BOOLEAN /\ session \in BOOLEAN
      BY Zenon
    <2>4. pc \in [Publishers -> {"idle", "checked", "ready", "locked", "send", "neterr"}]
      OBVIOUS
    <2>5. /\ lock_list_pub \in Publishers \cup {"yield", "none"}
          /\ lock_write_buf \in Publishers \cup {"yield", "none"}
          /\ accepted \subseteq Nat /\ received \subseteq Nat
      OBVIOUS
    <2> QED
      BY <1>1, <2>2, <2>3, <2>4, <2>5 DEF TypeOK
  <1>3. LockInv /\ ReqInv /\ NodeInv /\ WaitListBounded
    BY <1>1 DEF LockInv, ReqInv, NodeInv, WaitListBounded, Active
  <1> QED
    BY <1>2, <1>3 DEF BaseInv

LEMMA NextIdType ==
    ASSUME packet_id \in 0..PACKET_ID_MAX
    PROVE  NextPacketId \in Ids
  BY PacketIdAssumption DEF NextPacketId, Ids

LEMMA SendType ==
    ASSUME TypeOK, NEW pkt \in Packet, SendOk(pkt) \/ SendFail(pkt)
    PROVE  up' \in Seq(Packet) /\ UNCHANGED <<sock, down, desync, session>>
  <1>1. Append(up, pkt) \in Seq(Packet)
    BY AppendProperties DEF TypeOK
  <1>2. [pkt EXCEPT !.torn = TRUE] \in Packet
    BY DEF Packet
  <1>3. Append(up, [pkt EXCEPT !.torn = TRUE]) \in Seq(Packet)
    BY <1>2, AppendProperties DEF TypeOK
  <1> QED
    BY <1>1, <1>3 DEF TypeOK, SendOk, SendFail

LEMMA PublishersBase ==
    ASSUME BaseInv, NEW p \in Publishers, PubCheckState(p) \/ PubStep(p)
    PROVE  BaseInv'
  <1> USE PublishersAssumption, PacketIdAssumption, RepubAssumption, QosAssumption
  <1> USE DEF BaseInv, LockInv, ReqInv, NodeInv, WaitListBounded, Active
  <1>1. CASE PubCheckState(p)
    BY <1>1 DEF PubCheckState, TypeOK, clientVars, lockVars, yieldVars, netVars, ghostVars
  <1>2. ASSUME NEW q \in QosLevels, PubNextId(p, q)
        PROVE  BaseInv'
    <2>1. NextPacketId \in Ids
      BY NextIdType DEF TypeOK
    <2>2. /\ issued' = issued \/ issued' = issued + 1
          /\ issued \in Nat /\ issued' \in Nat
          /\ packet_id' \in 0..PACKET_ID_MAX
          /\ req' \in [Publishers -> Request]
      <3>1. q \in 0..2 /\ issued \in Nat
        BY DEF TypeOK
      <3>2. CASE q = 0
        <4>1. [qos |-> 0, id |-> 0, seq |-> 0] \in Request
          BY DEF Request
        <4> QED
          BY <1>2, <3>1, <3>2, <4>1 DEF PubNextId, TypeOK
      <3>3. CASE q # 0
        <4>1. [qos |-> q, id |-> NextPacketId, seq |-> issued + 1] \in Request
          BY <2>1, <3>1 DEF Request, Ids
        <4>2. packet_id' = NextPacketId /\ issued' = issued + 1
              /\ req' = [req EXCEPT ![p] = [qos |-> q, id |-> NextPacketId, seq |-> issued + 1]]
          BY <1>2, <3>3 DEF PubNextId, DrawPacketId
        <4> QED
          BY <2>1, <3>1, <4>1, <4>2 DEF TypeOK, Ids
      <3> QED
        BY <3>2, <3>3
    <2>3. TypeOK'
      BY <1>2, <2>2, SMTT(30) DEF PubNextId, TypeOK, lockVars, yieldVars, netVars
    <2>4. LockInv' /\ NodeInv' /\ WaitListBounded'
      BY <1>2 DEF PubNextId, TypeOK, lockVars, yieldVars
    <2>5. pc'[p] = "idle" \/
            \/ req'[p].qos = 0 /\ req'[p].id = 0 /\ req'[p].seq = 0
            \/ /\ req'[p].qos = 1 /\ req'[p].id \in Ids /\ req'[p].seq = issued'
               /\ issued' = issued + 1
      BY <1>2, <2>1 DEF PubNextId, DrawPacketId, TypeOK
    <2>6. \A r \in Publishers \ {p} : pc'[r] = pc[r] /\ req'[r] = req[r]
      BY <1>2 DEF PubNextId, TypeOK
    <2>7. accepted' = accepted
      BY <1>2 DEF PubNextId
    <2>8. ReqInv'
      BY <2>2, <2>5, <2>6, <2>7, SMTT(30)
    <2> QED
      BY <2>3, <2>4, <2>8
  <1>3. CASE PubLockList(p)
    BY <1>3 DEF PubLockList, TypeOK, clientVars, yieldVars, netVars, ghostVars
  <1>4. CASE PubPush(p)
    <2> DEFINE n == [id |-> req[p].id, seq |-> req[p].seq, node_state |-> "NORMAL", late |-> FALSE]
    <2>1. CASE req[p].qos = 0 /\ UNCHANGED list_pub_wait_ack
      BY <1>4, <2>1 DEF PubPush, TypeOK, yieldVars, netVars, ghostVars
    <2>2. CASE req[p].qos = 1 /\ ~ListFull /\ list_pub_wait_ack' = Append(list_pub_wait_ack, n)
      <3>1. n \in Node
        <4>1. req[p] \in Request /\ pc[p] = "locked"
          BY <1>4 DEF PubPush, TypeOK
        <4>2. req[p].id \in Ids /\ req[p].seq \in Nat
          BY <2>2, <4>1 DEF ReqInv, Request
        <4> QED
          BY <4>2 DEF Node
      <3>2. /\ list_pub_wait_ack' \in Seq(Node)
            /\ Len(list_pub_wait_ack') = Len(list_pub_wait_ack) + 1
            /\ list_pub_wait_ack'[Len(list_pub_wait_ack')] = n
            /\ Len(list_pub_wait_ack) \in Nat
        BY <2>2, <3>1, AppendProperties, LenProperties DEF TypeOK
      <3>3. TypeOK' /\ LockInv' /\ ReqInv'
        BY <1>4, <3>2, SMTT(30) DEF PubPush, TypeOK, yieldVars, netVars, ghostVars
      <3>4. WaitListBounded'
        BY <2>2, <3>2 DEF ListFull
      <3>5. NodeInv'
        BY <1>4, <3>2 DEF PubPush, TypeOK, yieldVars
      <3> QED
        BY <3>3, <3>4, <3>5
    <2> QED
      BY <1>4, <2>1, <2>2 DEF PubPush
  <1>5. CASE PubReject(p)
    BY <1>5 DEF PubReject, TypeOK, clientVars, yieldVars, netVars, ghostVars
  <1>6. CASE PubSendOk(p)
    <2>1. Publish(req[p].id, req[p].seq) \in Packet
      BY DEF Publish, Packet, TypeOK, Request
    <2>2. up' \in Seq(Packet) /\ UNCHANGED <<sock, down, desync, session>>
      BY <1>6, <2>1, SendType DEF PubSendOk
    <2>3. pc[p] = "send" /\ accepted' \subseteq 1..issued
          /\ \/ accepted' = accepted
             \/ req[p].qos = 1 /\ accepted' = accepted \cup {req[p].seq}
      <3>1. pc[p] = "send"
        BY <1>6 DEF PubSendOk
      <3>2. CASE req[p].qos = 1
        <4>1. accepted' = accepted \cup {req[p].seq}
          BY <1>6, <3>2 DEF PubSendOk
        <4>2. req[p].seq \in 1..issued /\ accepted \subseteq 1..issued
          BY <3>1, <3>2
        <4> QED
          BY ONLY <3>1, <3>2, <4>1, <4>2
      <3>3. CASE req[p].qos # 1
        <4>1. accepted' = accepted
          BY <1>6, <3>3 DEF PubSendOk
        <4> QED
          BY <3>1, <4>1
      <3> QED
        BY <3>2, <3>3
    <2>4. TypeOK'
      BY <1>6, <2>2, <2>3 DEF PubSendOk, ReleaseBoth, TypeOK, clientVars, yieldVars
    <2>5. LockInv' /\ NodeInv' /\ WaitListBounded'
      BY <1>6 DEF PubSendOk, ReleaseBoth, TypeOK, clientVars, yieldVars
    <2>6. \A r \in Publishers \ {p} : pc'[r] = pc[r] /\ req'[r] = req[r]
      BY <1>6 DEF PubSendOk, TypeOK
    <2>7. pc'[p] = "idle" /\ issued' = issued
      BY <1>6 DEF PubSendOk, TypeOK
    <2>8. ReqInv'
      BY <2>3, <2>6, <2>7
    <2> QED
      BY <2>4, <2>5, <2>8
  <1>7. CASE PubSendFail(p)
    <2>1. Publish(req[p].id, req[p].seq) \in Packet
      BY DEF Publish, Packet, TypeOK, Request
    <2>2. up' \in Seq(Packet) /\ UNCHANGED <<sock, down, desync, session>>
      BY <1>7, <2>1, SendType DEF PubSendFail
    <2>3. breaks' \in Nat
      BY <1>7 DEF PubSendFail, SendFail, TypeOK
    <2>4. /\ list_pub_wait_ack' \in Seq(Node)
          /\ Len(list_pub_wait_ack') <= Len(list_pub_wait_ack)
          /\ Len(list_pub_wait_ack') \in Nat /\ Len(list_pub_wait_ack) \in Nat
      <3>1. Len(list_pub_wait_ack) \in Nat
        BY LenProperties DEF TypeOK
      <3>2. CASE req[p].qos = 1
        <4>1. Len(list_pub_wait_ack) \in 1..Len(list_pub_wait_ack)
          BY <1>7, <3>1, <3>2 DEF PubSendFail
        <4>2. list_pub_wait_ack' = RemoveAt(list_pub_wait_ack, Len(list_pub_wait_ack))
          BY <1>7, <3>2 DEF PubSendFail, GiveUpNode
        <4>3. list_pub_wait_ack \in Seq(Node)
          BY DEF TypeOK
        <4> QED
          BY <3>1, <4>1, <4>2, <4>3, RemoveAtProperties
      <3> QED
        BY <1>7, <3>1, <3>2 DEF PubSendFail, GiveUpNode, TypeOK
    <2>5. TypeOK'
      BY <1>7, <2>2, <2>3, <2>4 DEF PubSendFail, ReleaseBoth, TypeOK, yieldVars
    <2>6. LockInv' /\ ReqInv' /\ WaitListBounded'
      BY <1>7, <2>4 DEF PubSendFail, ReleaseBoth, TypeOK, yieldVars
    <2>7. NodeInv'
      BY <1>7 DEF PubSendFail, TypeOK, yieldVars
    <2> QED
      BY <2>5, <2>6, <2>7
  <1>8. CASE PubNetErr(p)
    BY <1>8 DEF PubNetErr, TypeOK, lockVars, yieldVars, netVars, ghostVars
  <1> QED
    BY <1>1, <1>2, <1>3, <1>4, <1>5, <1>6, <1>7, <1>8 DEF PubStep

LEMMA YieldReadBase ==
    ASSUME BaseInv, YCycle \/ YRead
    PROVE  BaseInv'
  <1> USE PublishersAssumption, PacketIdAssumption, JunkAssumption
  <1> USE DEF BaseInv, LockInv, ReqInv, NodeInv, WaitListBounded, Active
  <1> USE DEF clientVars, lockVars, pubVars, yieldVars, netVars, ghostVars
  <1>1. CASE YCycle
    BY <1>1 DEF YCycle, TypeOK
  <1>2. CASE YReadPacket
    <2>1. Head(down) \in 0..PACKET_ID_MAX /\ Tail(down) \in Seq(0..PACKET_ID_MAX)
      BY <1>2, HeadTailProperties DEF YReadPacket, TypeOK
    <2> QED
      BY <1>2, <2>1 DEF YReadPacket, TypeOK
  <1>3. CASE YReadTimeout
    BY <1>3 DEF YReadTimeout, TypeOK
  <1>4. CASE YReadError
    BY <1>4 DEF YReadError, TypeOK
  <1>5. CASE YReadPartial
    <2>1. Tail(down) \in Seq(0..PACKET_ID_MAX)
      BY <1>5, HeadTailProperties DEF YReadPartial, TypeOK
    <2>2. desync' \in BOOLEAN
      BY <1>5, Zenon DEF YReadPartial
    <2> QED
      BY <1>5, <2>1, <2>2 DEF YReadPartial, TypeOK
  <1>6. CASE YReadJunk
    <2>1. y_ack' \in 0..PACKET_ID_MAX
      <3>1. y_ack' \in JunkIds \/ y_ack' = y_ack
        BY <1>6, Zenon DEF YReadJunk
      <3>2. \A a \in JunkIds : a \in 0..PACKET_ID_MAX
        BY SMT
      <3> QED
        BY <3>1, <3>2 DEF TypeOK
    <2> QED
      BY <1>6, <2>1 DEF YReadJunk, TypeOK
  <1> QED
    BY <1>1, <1>2, <1>3, <1>4, <1>5, <1>6 DEF YRead

LEMMA YieldProcBase ==
    ASSUME BaseInv, YProc
    PROVE  BaseInv'
  <1> USE PublishersAssumption, PacketIdAssumption
  <1> USE DEF BaseInv, LockInv, ReqInv, NodeInv, WaitListBounded, Active
  <1> USE DEF clientVars, lockVars, pubVars, yieldVars, netVars, ghostVars
  <1>0. Len(list_pub_wait_ack) \in Nat /\ DOMAIN list_pub_wait_ack = 1..Len(list_pub_wait_ack)
        /\ \A i \in 1..Len(list_pub_wait_ack) : list_pub_wait_ack[i] \in Node
    BY LenProperties, ElementOfSeq DEF TypeOK
  <1>1. CASE YMask
    <2>1. list_pub_wait_ack' \in Seq(Node) /\ Len(list_pub_wait_ack') = Len(list_pub_wait_ack)
      BY <1>1, MaskProperties DEF YMask, TypeOK
    <2>2. \A q \in Publishers : pc[q] # "send"
      BY <1>1 DEF YMask, TypeOK
    <2> QED
      BY <1>1, <2>1, <2>2 DEF YMask, TypeOK
  <1>2. CASE YProcLock
    <2>1. \A q \in Publishers : q # "yield" /\ pc[q] \notin {"locked", "send"}
      BY <1>2 DEF YProcLock
    <2>2. LockInv'
      BY <1>2, <2>1 DEF YProcLock
    <2> QED
      BY <1>2, <2>2 DEF YProcLock, TypeOK
  <1>3. CASE YScanEnd
    BY <1>3 DEF YScanEnd, TypeOK
  <1>4. CASE YScanRemove
    <2>1. list_pub_wait_ack' \in Seq(Node) /\ Len(list_pub_wait_ack') = Len(list_pub_wait_ack) - 1
      <3>1. list_pub_wait_ack \in Seq(Node) /\ cursor \in 1..Len(list_pub_wait_ack)
            /\ list_pub_wait_ack' = RemoveAt(list_pub_wait_ack, cursor)
        BY <1>0, <1>4 DEF YScanRemove, TypeOK
      <3> QED
        BY <3>1, RemoveAtProperties
    <2>2. \A q \in Publishers : pc[q] # "send"
      BY <1>4 DEF YScanRemove, TypeOK
    <2> QED
      BY <1>0, <1>4, <2>1, <2>2, RepubAssumption DEF YScanRemove, TypeOK
  <1>5. CASE YScanNormal
    BY <1>0, <1>5 DEF YScanNormal, TypeOK
  <1>6. CASE YResendOk
    <2>1. Publish(list_pub_wait_ack[cursor].id, list_pub_wait_ack[cursor].seq) \in Packet
      BY <1>0, <1>6 DEF YResendOk, Publish, Packet, Node, Ids
    <2>2. up' \in Seq(Packet) /\ UNCHANGED <<sock, down, desync, session>>
      BY <1>6, <2>1, SendType DEF YResendOk
    <2>3. list_pub_wait_ack' \in Seq(Node) /\ Len(list_pub_wait_ack') = Len(list_pub_wait_ack)
      BY <1>6, RestartTimerProperties DEF YResendOk, TypeOK, RestartTimer
    <2>4. \A q \in Publishers : pc[q] # "send"
      BY <1>6 DEF YResendOk, TypeOK
    <2> QED
      BY <1>6, <2>2, <2>3, <2>4 DEF YResendOk, TypeOK
  <1>7. CASE YResendFail
    <2>1. Publish(list_pub_wait_ack[cursor].id, list_pub_wait_ack[cursor].seq) \in Packet
      BY <1>0, <1>7 DEF YResendFail, Publish, Packet, Node, Ids
    <2>2. up' \in Seq(Packet) /\ UNCHANGED <<sock, down, desync, session>>
      BY <1>7, <2>1, SendType DEF YResendFail
    <2>3. list_pub_wait_ack' \in Seq(Node) /\ Len(list_pub_wait_ack') = Len(list_pub_wait_ack)
      BY <1>7, RestartTimerProperties DEF YResendFail, TypeOK, RestartTimer
    <2>4. \A q \in Publishers : pc[q] # "send"
      BY <1>7 DEF YResendFail, TypeOK
    <2>5. breaks' \in Nat
      BY <1>7 DEF YResendFail, SendFail, TypeOK
    <2> QED
      BY <1>7, <2>2, <2>3, <2>4, <2>5 DEF YResendFail, TypeOK
  <1>8. CASE YResendErr
    BY <1>8 DEF YResendErr, TypeOK
  <1> QED
    BY <1>1, <1>2, <1>3, <1>4, <1>5, <1>6, <1>7, <1>8 DEF YProc

LEMMA SocketType ==
    ASSUME Disconnect \/ OpenSocket
    PROVE  /\ sock' \in {"closed", "up", "dead"} /\ up' \in Seq(Packet)
           /\ down' \in Seq(0..PACKET_ID_MAX) /\ desync' \in BOOLEAN /\ session' \in BOOLEAN
  <1>1. desync' \in BOOLEAN /\ session' \in BOOLEAN
    BY Zenon DEF Disconnect, OpenSocket
  <1> QED
    BY <1>1, EmptySeq DEF Disconnect, OpenSocket

LEMMA YieldKeepaliveBase ==
    ASSUME BaseInv, YKeepalive
    PROVE  BaseInv'
  <1> USE PublishersAssumption, PacketIdAssumption
  <1> USE DEF BaseInv, LockInv, ReqInv, NodeInv, WaitListBounded, Active
  <1> USE DEF clientVars, lockVars, pubVars, yieldVars, netVars, ghostVars
  <1>1. CASE YClose
    BY <1>1, SocketType DEF YClose, TypeOK
  <1>2. CASE YSetReconnecting
    BY <1>2 DEF YSetReconnecting, TypeOK
  <1>3. CASE YReconnect
    BY <1>3, SocketType DEF YReconnect, TypeOK
  <1>4. CASE YConnectOk
    <2>1. Connect \in Packet
      BY DEF Connect, Packet
    <2>2. up' \in Seq(Packet) /\ UNCHANGED <<sock, down, desync, session>>
      BY <1>4, <2>1, SendType DEF YConnectOk
    <2> QED
      BY <1>4, <2>2, SMTT(30) DEF YConnectOk, TypeOK
  <1>5. CASE YConnectFail
    BY <1>5, SocketType, SMTT(30) DEF YConnectFail, TypeOK
  <1>6. CASE YConnack
    <2>1. Tail(down) \in Seq(0..PACKET_ID_MAX)
      BY <1>6, HeadTailProperties DEF YConnack, TypeOK
    <2> QED
      BY <1>6, <2>1 DEF YConnack, TypeOK
  <1>7. CASE YConnected
    BY <1>7 DEF YConnected, TypeOK
  <1>8. CASE YConnackFail
    BY <1>8, SocketType DEF YConnackFail, TypeOK
  <1> QED
    BY <1>1, <1>2, <1>3, <1>4, <1>5, <1>6, <1>7, <1>8 DEF YKeepalive

LEMMA EnvironmentBase ==
    ASSUME BaseInv, OtherRequest \/ Tick \/ NetBreak \/ Broker
    PROVE  BaseInv'
  <1> USE PublishersAssumption, PacketIdAssumption
  <1> USE DEF BaseInv, LockInv, ReqInv, NodeInv, WaitListBounded, Active
  <1> USE DEF clientVars, lockVars, pubVars, yieldVars, netVars, ghostVars
  <1>1. CASE OtherRequest
    <2>1. NextPacketId \in 0..PACKET_ID_MAX
      BY NextIdType DEF TypeOK, Ids
    <2> QED
      BY <1>1, <2>1 DEF OtherRequest, DrawPacketId, TypeOK
  <1>2. ASSUME NEW i \in 1..REPUB_NUM_MAX, Elapse(i)
        PROVE  BaseInv'
    <2>1. /\ list_pub_wait_ack' \in Seq(Node)
          /\ Len(list_pub_wait_ack') = Len(list_pub_wait_ack)
          /\ \A j \in 1..Len(list_pub_wait_ack) :
                /\ list_pub_wait_ack'[j].seq = list_pub_wait_ack[j].seq
                /\ list_pub_wait_ack'[j].node_state = list_pub_wait_ack[j].node_state
      <3>1. list_pub_wait_ack \in Seq(Node) /\ i \in DOMAIN list_pub_wait_ack
            /\ list_pub_wait_ack' = [list_pub_wait_ack EXCEPT ![i].late = TRUE]
        BY <1>2 DEF Elapse, TypeOK
      <3>2. \A j \in 1..Len(list_pub_wait_ack) : list_pub_wait_ack[j] \in Node
        BY <3>1, ElementOfSeq
      <3>3. /\ list_pub_wait_ack' \in Seq(Node)
            /\ Len(list_pub_wait_ack') = Len(list_pub_wait_ack)
            /\ \A j \in 1..Len(list_pub_wait_ack) :
                  list_pub_wait_ack'[j] = IF j = i THEN [list_pub_wait_ack[i] EXCEPT !.late = TRUE]
                                                   ELSE list_pub_wait_ack[j]
        BY <3>1, RestartTimerProperties
      <3> QED
        BY <3>2, <3>3, SMTT(30) DEF Node
    <2>2. Len(list_pub_wait_ack) \in Nat /\ DOMAIN list_pub_wait_ack = 1..Len(list_pub_wait_ack)
          /\ DOMAIN list_pub_wait_ack' = 1..Len(list_pub_wait_ack)
      BY <2>1, LenProperties DEF TypeOK
    <2> QED
      BY <1>2, <2>1, <2>2 DEF Elapse, TypeOK
  <1>3. CASE NetBreak
    <2>1. down' \in Seq(0..PACKET_ID_MAX)
      <3>1. PICK n \in 0..Len(down) : down' = SubSeq(down, 1, n)
        BY <1>3 DEF NetBreak
      <3>2. Len(down) \in Nat /\ \A k \in 1..n : down[k] \in 0..PACKET_ID_MAX
        BY <3>1, LenProperties, ElementOfSeq DEF TypeOK
      <3> QED
        BY <3>1, <3>2, SubSeqProperties
    <2>2. << >> \in Seq(Packet)
      BY EmptySeq
    <2> QED
      BY <1>3, <2>1, <2>2 DEF NetBreak, TypeOK
  <1>4. CASE BrokerConnect
    <2>1. Tail(up) \in Seq(Packet) /\ Append(down, CONNACK) \in Seq(0..PACKET_ID_MAX)
      BY <1>4, HeadTailProperties, AppendProperties DEF BrokerConnect, TypeOK, CONNACK
    <2>2. session' \in BOOLEAN
      BY <1>4, Zenon DEF BrokerConnect
    <2> QED
      BY <1>4, <2>1, <2>2 DEF BrokerConnect, TypeOK
  <1>5. CASE BrokerPublish
    <2>1. Tail(up) \in Seq(Packet) /\ Head(up) \in Packet
      BY <1>5, HeadTailProperties DEF BrokerPublish, TypeOK
    <2>2. Head(up).id \in 0..PACKET_ID_MAX /\ Head(up).seq \in Nat
      BY <2>1 DEF Packet
    <2>3. Append(down, Head(up).id) \in Seq(0..PACKET_ID_MAX)
      BY <2>2, AppendProperties DEF TypeOK
    <2>4. down' \in Seq(0..PACKET_ID_MAX) /\ received' \subseteq Nat
      <3>1. CASE Head(up).id = 0
        BY <1>5, <3>1 DEF BrokerPublish, TypeOK
      <3>2. CASE Head(up).id # 0
        <4>1. down' = Append(down, Head(up).id) /\ received' = received \cup {Head(up).seq}
          BY <1>5, <3>2 DEF BrokerPublish
        <4> QED
          BY <2>2, <2>3, <4>1 DEF TypeOK
      <3> QED
        BY <3>1, <3>2
    <2> QED
      BY <1>5, <2>1, <2>4, SMTT(30) DEF BrokerPublish, TypeOK
  <1>6. CASE BrokerMerge
    <2>1. Tail(up) \in Seq(Packet) /\ Len(Tail(up)) = Len(up) - 1 /\ Head(up) \in Packet
      BY <1>6, HeadTailProperties, EmptySeq, SMTT(30) DEF BrokerMerge, TypeOK
    <2>2. Tail(up) # << >>
      BY <1>6, <2>1, EmptySeq, SMTT(30) DEF BrokerMerge
    <2>3. Tail(Tail(up)) \in Seq(Packet)
      BY <2>1, <2>2, HeadTailProperties
    <2>4. Append(down, Head(up).id) \in Seq(0..PACKET_ID_MAX)
      BY <2>1, AppendProperties DEF TypeOK, Packet
    <2>5. down' \in Seq(0..PACKET_ID_MAX) /\ up' \in Seq(Packet)
      BY <1>6, <2>3, <2>4 DEF BrokerMerge, TypeOK
    <2> QED
      BY <1>6, <2>5, SMTT(30) DEF BrokerMerge, TypeOK
  <1>7. CASE BrokerHangUp
    BY <1>7, EmptySeq DEF BrokerHangUp, TypeOK
  <1> QED
    BY <1>1, <1>2, <1>3, <1>4, <1>5, <1>6, <1>7 DEF Tick, Broker

LEMMA BaseNext == BaseInv /\ [Next]_vars => BaseInv'
  <1> SUFFICES ASSUME BaseInv, [Next]_vars PROVE BaseInv'
    OBVIOUS
  <1>1. CASE UNCHANGED vars
    BY <1>1 DEF vars, clientVars, lockVars, pubVars, yieldVars, netVars, ghostVars,
                BaseInv, TypeOK, LockInv, ReqInv, NodeInv, WaitListBounded, Active
  <1>2. CASE Next
    BY <1>2, PublishersBase, YieldReadBase, YieldProcBase, YieldKeepaliveBase, EnvironmentBase
    DEF Next, YStep
  <1> QED
    BY <1>1, <1>2

-----------------------------------------------------------------------------
(* Delivery: what an acknowledgement may be about, and what the list keeps. *)

\* What a step does to the ghosts and to the requests under way.
LEMMA RequestStep ==
    ASSUME BaseInv, Next
    PROVE  /\ issued \in Nat /\ issued' \in Nat /\ issued <= issued'
           /\ received \subseteq received'
           /\ \A p \in Publishers : Active(p)' =>
                \/ Active(p) /\ req'[p] = req[p]
                \/ req'[p].seq = 0
                \/ req'[p].seq = issued + 1
           /\ \A s \in accepted' : s \in accepted \/ \E p \in Publishers : Active(p) /\ req[p].seq = s
  <1> USE DEF clientVars, lockVars, pubVars, yieldVars, netVars, ghostVars
  <1>0. issued \in Nat /\ pc \in [Publishers -> {"idle", "checked", "ready", "locked", "send", "neterr"}]
        /\ req \in [Publishers -> Request]
    BY DEF BaseInv, TypeOK
  <1> USE <1>0
  <1>1. ASSUME NEW p \in Publishers, PubCheckState(p) \/ PubStep(p)
        PROVE  /\ issued' \in {issued, issued + 1} /\ received' = received
               /\ \A q \in Publishers \ {p} : pc'[q] = pc[q] /\ req'[q] = req[q]
               /\ \/ pc'[p] \notin {"ready", "locked", "send"}
                  \/ pc[p] \in {"ready", "locked", "send"} /\ req'[p] = req[p]
                  \/ req'[p].seq \in {0, issued + 1}
               /\ accepted' = accepted \/ (pc[p] = "send" /\ accepted' = accepted \cup {req[p].seq})
    <2>1. CASE PubCheckState(p) \/ PubLockList(p) \/ PubReject(p) \/ PubNetErr(p)
      BY <2>1 DEF PubCheckState, PubLockList, PubReject, PubNetErr
    <2>2. CASE PubPush(p) \/ PubSendFail(p)
      BY <2>2 DEF PubPush, PubSendFail
    <2>3. CASE PubSendOk(p)
      BY <2>3 DEF PubSendOk
    <2>4. ASSUME NEW q \in QosLevels, PubNextId(p, q)
          PROVE  /\ issued' \in {issued, issued + 1} /\ received' = received /\ accepted' = accepted
                 /\ \A r \in Publishers \ {p} : pc'[r] = pc[r] /\ req'[r] = req[r]
                 /\ req'[p].seq \in {0, issued + 1}
      BY <2>4 DEF PubNextId, DrawPacketId
    <2> QED
      BY <1>1, <2>1, <2>2, <2>3, <2>4 DEF PubStep
  <1>2. CASE ~\E p \in Publishers : PubCheckState(p) \/ PubStep(p)
    <2>1. pc' = pc /\ req' = req /\ accepted' = accepted /\ issued' \in {issued, issued + 1}
          /\ received \subseteq received'
      <3>1. CASE OtherRequest
        BY <3>1 DEF OtherRequest, DrawPacketId
      <3>2. CASE YCycle \/ YRead
        BY <3>2 DEF YCycle, YRead, YReadPacket, YReadTimeout, YReadError, YReadPartial, YReadJunk
      <3>3. CASE YProc
        BY <3>3 DEF YProc, YMask, YProcLock, YScanEnd, YScanRemove, YScanNormal,
                    YResendOk, YResendFail, YResendErr
      <3>4. CASE YKeepalive
        BY <3>4 DEF YKeepalive, YClose, YSetReconnecting, YReconnect, YConnectOk, YConnectFail,
                    YConnack, YConnected, YConnackFail
      <3>5. CASE Tick \/ NetBreak
        BY <3>5 DEF Tick, Elapse, NetBreak
      <3>6. CASE Broker
        BY <3>6 DEF Broker, BrokerConnect, BrokerPublish, BrokerMerge, BrokerHangUp
      <3> QED
        BY <1>2, <3>1, <3>2, <3>3, <3>4, <3>5, <3>6 DEF Next, YStep
    <2> QED
      BY <2>1 DEF Active
  <1>3. CASE \E p \in Publishers : PubCheckState(p) \/ PubStep(p)
    <2>1. PICK p \in Publishers : PubCheckState(p) \/ PubStep(p)
      BY <1>3
    <2> QED
      BY <1>1, <2>1 DEF Active
  <1> QED
    BY <1>2, <1>3

\* An acknowledgement that may be believed stays so.
LEMMA AckKept ==
    ASSUME BaseInv, Next
    PROVE  GoodAcks \subseteq GoodAcks'
  <1>1. received \subseteq received'
    BY RequestStep
  <1>2. ASSUME NEW a \in DeadSeqs PROVE a \in DeadSeqs'
    <2>1. a \in 1..issued' /\ a # 0 /\ a # issued + 1
      BY RequestStep DEF DeadSeqs
    <2>2. a \notin accepted'
      BY RequestStep DEF DeadSeqs
    <2>3. \A p \in Publishers : Active(p)' => req'[p].seq # a
      BY <2>1, RequestStep DEF DeadSeqs
    <2> QED
      BY <2>1, <2>2, <2>3 DEF DeadSeqs
  <1> QED
    BY <1>1, <1>2 DEF GoodAcks, CONNACK

\* Where a node of the list comes from, and why a waiting message stops waiting.
LEMMA ListStep ==
    ASSUME BaseInv, Next
    PROVE  /\ \A i \in DOMAIN list_pub_wait_ack' :
                \/ \E j \in DOMAIN list_pub_wait_ack :
                     /\ list_pub_wait_ack'[i].id = list_pub_wait_ack[j].id
                     /\ list_pub_wait_ack'[i].seq = list_pub_wait_ack[j].seq
                \/ \E p \in Publishers :
                     /\ Active(p)
                     /\ list_pub_wait_ack'[i].id = req[p].id
                     /\ list_pub_wait_ack'[i].seq = req[p].seq
           /\ \A s : Waiting(s) =>
                \/ Waiting(s)'
                \/ accepted' = accepted /\ \E p \in Publishers :
                     PubSendFail(p) /\ Active(p) /\ req[p].qos = 1 /\ req[p].seq = s
                \/ /\ accepted' = accepted /\ YMask /\ y_pc = "mask"
                   /\ \E i \in DOMAIN list_pub_wait_ack :
                        list_pub_wait_ack[i].id = y_ack /\ list_pub_wait_ack[i].seq = s
  <1> DEFINE list == list_pub_wait_ack
             SameNodes == /\ DOMAIN list' = DOMAIN list
                          /\ \A j \in DOMAIN list : /\ list'[j].id = list[j].id
                                                    /\ list'[j].seq = list[j].seq
                                                    /\ list'[j].node_state = list[j].node_state
             Drawn(i) == \/ \E j \in DOMAIN list : list'[i].id = list[j].id /\ list'[i].seq = list[j].seq
                         \/ \E p \in Publishers :
                              Active(p) /\ list'[i].id = req[p].id /\ list'[i].seq = req[p].seq
             Kept(s) == \/ Waiting(s)'
                        \/ accepted' = accepted /\ \E p \in Publishers :
                             PubSendFail(p) /\ Active(p) /\ req[p].qos = 1 /\ req[p].seq = s
                        \/ /\ accepted' = accepted /\ YMask /\ y_pc = "mask"
                           /\ \E i \in DOMAIN list : list[i].id = y_ack /\ list[i].seq = s
             Goal == (\A i \in DOMAIN list' : Drawn(i)) /\ (\A s : Waiting(s) => Kept(s))
  <1> SUFFICES Goal
    OBVIOUS
  <1>0. /\ list \in Seq(Node) /\ Len(list) \in Nat /\ DOMAIN list = 1..Len(list)
        /\ \A i \in 1..Len(list) : list[i] \in Node
    BY LenProperties, ElementOfSeq DEF BaseInv, TypeOK
  <1>1. ASSUME SameNodes PROVE Goal
    BY <1>1 DEF Waiting
  <1>2. ASSUME list' = list PROVE Goal
    BY <1>1, <1>2
  <1>3. ASSUME NEW p \in Publishers, PubPush(p) PROVE Goal
    <2> DEFINE n == [id |-> req[p].id, seq |-> req[p].seq, node_state |-> "NORMAL", late |-> FALSE]
    <2>1. CASE list' = list
      BY <2>1, <1>2
    <2>2. CASE list' # list
      <3>1. list' = Append(list, n) /\ Active(p) /\ req[p].qos = 1 /\ pc[p] = "locked"
        BY <1>3, <2>2 DEF PubPush, Active
      <3>2. n \in Node
        BY <3>1 DEF BaseInv, ReqInv, TypeOK, Request, Node
      <3>3. /\ Len(list') = Len(list) + 1 /\ list' \in Seq(Node)
            /\ \A i \in 1..Len(list) : list'[i] = list[i]
            /\ list'[Len(list) + 1] = n
        BY <1>0, <3>1, <3>2, AppendProperties
      <3>4. DOMAIN list' = 1..Len(list) + 1
        BY <1>0, <3>3, LenProperties
      <3>5. \A i \in DOMAIN list' : Drawn(i)
        BY <1>0, <3>1, <3>3, <3>4
      <3>6. \A s : Waiting(s) => Waiting(s)'
        BY <1>0, <3>3, <3>4 DEF Waiting
      <3> QED
        BY <3>5, <3>6
    <2> QED
      BY <2>1, <2>2
  <1>4. ASSUME NEW k \in 1..Len(list), list' = RemoveAt(list, k)
        PROVE  /\ \A i \in DOMAIN list' : Drawn(i)
               /\ \A s : Waiting(s) => Waiting(s)' \/ (s = list[k].seq /\ list[k].node_state = "NORMAL")
    <2>1. /\ list' \in Seq(Node) /\ Len(list') = Len(list) - 1
          /\ \A j \in 1..Len(list) - 1 : list'[j] = IF j < k THEN list[j] ELSE list[j + 1]
      BY <1>0, <1>4, RemoveAtProperties
    <2>2. DOMAIN list' = 1..Len(list) - 1
      BY <2>1, LenProperties
    <2>3. \A i \in DOMAIN list' : \E j \in DOMAIN list : list'[i] = list[j]
      <3>1. ASSUME NEW i \in 1..Len(list) - 1
            PROVE  (i \in 1..Len(list) /\ i + 1 \in 1..Len(list))
        BY <1>0
      <3> QED
        BY <1>0, <2>1, <2>2, <3>1
    <2>4. ASSUME NEW s, NEW i \in 1..Len(list), list[i].seq = s, list[i].node_state = "NORMAL", i # k
          PROVE  Waiting(s)'
      <3>1. CASE i < k
        <4>1. i \in DOMAIN list' /\ list'[i] = list[i]
          BY <1>0, <2>1, <2>2, <3>1
        <4> QED
          BY <2>4, <4>1 DEF Waiting
      <3>2. CASE i > k
        <4>1. i - 1 \in DOMAIN list' /\ list'[i - 1] = list[i]
          BY <1>0, <2>1, <2>2, <3>2
        <4> QED
          BY <2>4, <4>1 DEF Waiting
      <3> QED
        BY <1>0, <2>4, <3>1, <3>2
    <2> QED
      BY <1>0, <2>3, <2>4 DEF Waiting
  <1>5. ASSUME NEW p \in Publishers, PubSendFail(p) PROVE Goal
    <2>1. CASE req[p].qos # 1
      BY <1>2, <1>5, <2>1 DEF PubSendFail, GiveUpNode
    <2>2. CASE req[p].qos = 1
      <3>1. pc[p] = "send" /\ Active(p) /\ list' = RemoveAt(list, Len(list)) /\ accepted' = accepted
        BY <1>5, <2>2 DEF PubSendFail, GiveUpNode, Active
      <3>2. Len(list) \in 1..Len(list) /\ list[Len(list)].seq = req[p].seq
        BY <1>0, <2>2, <3>1 DEF BaseInv, NodeInv
      <3> QED
        BY <1>4, <1>5, <2>2, <3>1, <3>2
    <2> QED
      BY <2>1, <2>2
  <1>6. ASSUME YMask PROVE Goal
    <2>1. /\ list' \in Seq(Node) /\ Len(list') = Len(list)
          /\ \A i \in 1..Len(list) :
               list'[i] = IF list[i].id = y_ack THEN [list[i] EXCEPT !.node_state = "INVALID"] ELSE list[i]
          /\ y_pc = "mask" /\ accepted' = accepted
      BY <1>0, <1>6, MaskProperties DEF YMask, ghostVars
    <2>2. DOMAIN list' = DOMAIN list
      BY <1>0, <2>1, LenProperties
    <2>3. \A i \in DOMAIN list : list'[i].id = list[i].id /\ list'[i].seq = list[i].seq
      BY <1>0, <2>1 DEF Node
    <2> QED
      BY <1>0, <1>6, <2>1, <2>2, <2>3 DEF Waiting
  <1>7. ASSUME YScanRemove PROVE Goal
    <2>1. cursor \in 1..Len(list) /\ list' = RemoveAt(list, cursor) /\ list[cursor].node_state = "INVALID"
      BY <1>0, <1>7 DEF YScanRemove, BaseInv, TypeOK
    <2> QED
      BY <1>4, <2>1
  <1>8. ASSUME NEW k \in DOMAIN list, NEW b \in BOOLEAN, list' = [list EXCEPT ![k].late = b]
        PROVE  Goal
    <2>1. /\ list' \in Seq(Node) /\ Len(list') = Len(list)
          /\ \A j \in 1..Len(list) : list'[j] = IF j = k THEN [list[k] EXCEPT !.late = b] ELSE list[j]
      BY <1>0, <1>8, RestartTimerProperties
    <2>2. DOMAIN list' = DOMAIN list
      BY <1>0, <2>1, LenProperties
    <2>3. SameNodes
      <3> DEFINE x == [list[k] EXCEPT !.late = b]
      <3>1. list[k] \in Node
        BY <1>0
      <3>2. x.id = list[k].id /\ x.seq = list[k].seq /\ x.node_state = list[k].node_state
        BY <3>1 DEF Node
      <3>3. \A j \in DOMAIN list : list'[j] = IF j = k THEN x ELSE list[j]
        BY <1>0, <2>1
      <3> HIDE DEF x
      <3> QED
        BY <2>2, <3>2, <3>3
    <2> QED
      BY <1>1, <2>3
  <1>9. ASSUME YResendOk \/ YResendFail PROVE Goal
    <2>1. cursor \in DOMAIN list /\ list' = [list EXCEPT ![cursor].late = FALSE]
      BY <1>9 DEF YResendOk, YResendFail, RestartTimer, BaseInv, NodeInv
    <2> QED
      BY <1>8, <2>1
  <1>10. ASSUME Tick PROVE Goal
    <2>1. PICK i \in 1..REPUB_NUM_MAX : Elapse(i)
      BY <1>10 DEF Tick
    <2>2. i \in DOMAIN list /\ list' = [list EXCEPT ![i].late = TRUE]
      BY <2>1 DEF Elapse
    <2> QED
      BY <1>8, <2>2
  <1>11. ASSUME NEW p \in Publishers, PubCheckState(p) \/ PubStep(p) PROVE Goal
    <2>1. CASE ~PubPush(p) /\ ~PubSendFail(p)
      <3>1. list' = list
        BY <1>11, <2>1 DEF PubCheckState, PubStep, PubLockList, PubReject, PubSendOk, PubNetErr,
                           PubNextId, clientVars
      <3> QED
        BY <1>2, <3>1
    <2> QED
      BY <1>3, <1>5, <2>1
  <1>12. ASSUME YStep PROVE Goal
    <2>1. CASE ~YMask /\ ~YScanRemove /\ ~YResendOk /\ ~YResendFail
      <3>1. CASE YCycle \/ YRead
        BY <1>2, <3>1 DEF YCycle, YRead, YReadPacket, YReadTimeout, YReadError, YReadPartial,
                          YReadJunk, clientVars
      <3>2. CASE YProc
        BY <1>2, <2>1, <3>2 DEF YProc, YProcLock, YScanEnd, YScanNormal, YResendErr, clientVars
      <3>3. CASE YKeepalive
        BY <1>2, <3>3 DEF YKeepalive, YClose, YSetReconnecting, YReconnect, YConnectOk, YConnectFail,
                          YConnack, YConnected, YConnackFail, clientVars
      <3> QED
        BY <1>12, <3>1, <3>2, <3>3 DEF YStep
    <2> QED
      BY <1>6, <1>7, <1>9, <2>1
  <1>13. ASSUME OtherRequest \/ NetBreak \/ Broker PROVE Goal
    BY <1>2, <1>13 DEF OtherRequest, NetBreak, Broker, BrokerConnect, BrokerPublish, BrokerMerge,
                       BrokerHangUp, clientVars
  <1> QED
    BY <1>10, <1>11, <1>12, <1>13 DEF Next

\* Where a packet on its way to the broker comes from.
LEMMA UpStep ==
    ASSUME BaseInv, Next
    PROVE  \A i \in DOMAIN up' :
             \/ \E j \in DOMAIN up : up'[i] = up[j]
             \/ up'[i].id = 0 /\ up'[i].seq = 0
             \/ \E p \in Publishers :
                  /\ Active(p) /\ req[p].qos = 1 /\ up'[i].id = req[p].id /\ up'[i].seq = req[p].seq
                  /\ up'[i].torn => /\ accepted' = accepted /\ req' = req /\ issued' = issued
                                    /\ pc' = [pc EXCEPT ![p] = "neterr"]
                  /\ ~up'[i].torn => req[p].seq \in accepted'
             \/ \E j \in DOMAIN list_pub_wait_ack :
                  /\ y_pc = "resend"
                  /\ up'[i].id = list_pub_wait_ack[j].id /\ up'[i].seq = list_pub_wait_ack[j].seq
                  /\ up'[i].torn => y_pc' = "refail"
  <1> DEFINE list == list_pub_wait_ack
             Old(k) == \E j \in DOMAIN up : k = up[j]
             Zero(k) == k.id = 0 /\ k.seq = 0
             Requested(k) == \E p \in Publishers :
                  /\ Active(p) /\ req[p].qos = 1 /\ k.id = req[p].id /\ k.seq = req[p].seq
                  /\ k.torn => /\ accepted' = accepted /\ req' = req /\ issued' = issued
                               /\ pc' = [pc EXCEPT ![p] = "neterr"]
                  /\ ~k.torn => req[p].seq \in accepted'
             Listed(k) == \E j \in DOMAIN list :
                  /\ y_pc = "resend"
                  /\ k.id = list[j].id /\ k.seq = list[j].seq
                  /\ k.torn => y_pc' = "refail"
             Goal == \A i \in DOMAIN up' :
                        Old(up'[i]) \/ Zero(up'[i]) \/ Requested(up'[i]) \/ Listed(up'[i])
  <1> SUFFICES Goal
    OBVIOUS
  <1>0. up \in Seq(Packet) /\ Len(up) \in Nat /\ DOMAIN up = 1..Len(up)
    BY LenProperties DEF BaseInv, TypeOK
  <1>1. ASSUME up' = up PROVE Goal
    BY <1>1
  <1>2. ASSUME up' = << >> PROVE Goal
    <2>1. DOMAIN up' = {}
      BY <1>2
    <2> QED
      BY <2>1
  <1>3. ASSUME NEW k \in Packet, up' = Append(up, k), Zero(k) \/ Requested(k) \/ Listed(k)
        PROVE  Goal
    <2>1. /\ up' \in Seq(Packet) /\ Len(up') = Len(up) + 1
          /\ \A i \in 1..Len(up) : up'[i] = up[i]
          /\ up'[Len(up) + 1] = k
      BY <1>0, <1>3, AppendProperties
    <2>2. DOMAIN up' = 1..Len(up) + 1
      BY <1>0, <2>1, LenProperties
    <2>3. \A i \in DOMAIN up' : i \in DOMAIN up \/ i = Len(up) + 1
      BY <1>0, <2>2
    <2> QED
      BY <1>0, <1>3, <2>1, <2>3
  <1>4. ASSUME up # << >>, up' = Tail(up) PROVE Goal
    <2>1. /\ up' \in Seq(Packet) /\ Len(up') = Len(up) - 1
          /\ \A i \in 1..Len(up') : up'[i] = up[i + 1]
      BY <1>0, <1>4, HeadTailProperties
    <2>2. DOMAIN up' = 1..Len(up) - 1
      BY <2>1, LenProperties
    <2>3. \A i \in DOMAIN up' : i + 1 \in DOMAIN up /\ up'[i] = up[i + 1]
      BY <1>0, <2>1, <2>2
    <2> QED
      BY <2>3
  <1>5. ASSUME BrokerMerge PROVE Goal
    <2> DEFINE t == Tail(up)
    <2>1. Len(up) >= 2 /\ up # << >> /\ up' = Tail(t)
      BY <1>0, <1>5, EmptySeq DEF BrokerMerge
    <2>2. t \in Seq(Packet) /\ Len(t) = Len(up) - 1 /\ \A i \in 1..Len(t) : t[i] = up[i + 1]
      BY <1>0, <2>1, HeadTailProperties
    <2> HIDE DEF t
    <2>3. t # << >>
      BY <1>0, <2>1, <2>2, EmptySeq
    <2>4. /\ up' \in Seq(Packet) /\ Len(up') = Len(t) - 1
          /\ \A i \in 1..Len(up') : up'[i] = t[i + 1]
      BY <2>1, <2>2, <2>3, HeadTailProperties
    <2>5. DOMAIN up' = 1..Len(up) - 2
      BY <1>0, <2>2, <2>4, LenProperties
    <2>6. \A i \in DOMAIN up' : i + 2 \in DOMAIN up /\ up'[i] = up[i + 2]
      <3> TAKE i \in DOMAIN up'
      <3>0. Len(t) = Len(up) - 1 /\ Len(up') = Len(up) - 2 /\ i \in 1..Len(up) - 2
        BY <1>0, <2>2, <2>4, <2>5
      <3>1. i \in 1..Len(up') /\ i + 1 \in 1..Len(t) /\ i + 2 \in DOMAIN up
        BY <1>0, <3>0
      <3>2. up'[i] = t[i + 1]
        BY <2>4, <3>1
      <3>3. t[i + 1] = up[(i + 1) + 1] /\ (i + 1) + 1 = i + 2
        BY <2>2, <3>1
      <3> QED
        BY <3>1, <3>2, <3>3
    <2> QED
      BY <2>6
  <1>6. ASSUME NEW p \in Publishers, pc[p] = "send"
        PROVE  LET k == Publish(req[p].id, req[p].seq) IN
               /\ k \in Packet /\ [k EXCEPT !.torn = TRUE] \in Packet
               /\ k.id = req[p].id /\ k.seq = req[p].seq /\ k.torn = FALSE
               /\ Zero(k) \/ (/\ Active(p) /\ req[p].qos = 1 /\ [k EXCEPT !.torn = TRUE].id = req[p].id
                              /\ [k EXCEPT !.torn = TRUE].seq = req[p].seq
                              /\ [k EXCEPT !.torn = TRUE].torn = TRUE)
               /\ Zero(k) => Zero([k EXCEPT !.torn = TRUE])
    BY <1>6 DEF Publish, Packet, BaseInv, TypeOK, Request, ReqInv, Active
  <1>7. ASSUME NEW p \in Publishers, PubSendOk(p) PROVE Goal
    <2> DEFINE k == Publish(req[p].id, req[p].seq)
    <2>1. /\ pc[p] = "send" /\ (up' = up \/ up' = Append(up, k))
          /\ req[p].qos = 1 => req[p].seq \in accepted'
      BY <1>7 DEF PubSendOk, SendOk
    <2>2. k \in Packet /\ (Zero(k) \/ Requested(k))
      BY <1>6, <2>1
    <2> HIDE DEF k
    <2> QED
      BY <1>1, <1>3, <2>1, <2>2
  <1>8. ASSUME NEW p \in Publishers, PubSendFail(p) PROVE Goal
    <2> DEFINE k == Publish(req[p].id, req[p].seq)
               t == [k EXCEPT !.torn = TRUE]
    <2>1. /\ pc[p] = "send" /\ (up' = up \/ up' = Append(up, t))
          /\ accepted' = accepted /\ req' = req /\ issued' = issued /\ pc' = [pc EXCEPT ![p] = "neterr"]
      BY <1>8 DEF PubSendFail, SendFail
    <2>2. t \in Packet /\ (Zero(t) \/ Requested(t))
      BY <1>6, <2>1
    <2> HIDE DEF t
    <2> QED
      BY <1>1, <1>3, <2>1, <2>2
  <1>9. ASSUME YResendOk \/ YResendFail PROVE Goal
    <2> DEFINE k == Publish(list[cursor].id, list[cursor].seq)
               t == [k EXCEPT !.torn = TRUE]
    <2>1. cursor \in DOMAIN list /\ list[cursor] \in Node /\ y_pc = "resend"
      BY <1>9, LenProperties, ElementOfSeq DEF YResendOk, YResendFail, BaseInv, NodeInv, TypeOK
    <2>2. k \in Packet /\ t \in Packet /\ Listed(k)
          /\ t.id = list[cursor].id /\ t.seq = list[cursor].seq
      <3>1. list[cursor].id \in 0..PACKET_ID_MAX /\ list[cursor].seq \in Nat
        BY <2>1, PacketIdAssumption DEF Node, Ids
      <3>2. k \in Packet /\ t \in Packet
        BY <3>1 DEF Publish, Packet
      <3>3. k.id = list[cursor].id /\ k.seq = list[cursor].seq /\ ~k.torn
        BY DEF Publish
      <3>4. t.id = list[cursor].id /\ t.seq = list[cursor].seq
        BY DEF Publish
      <3>5. Listed(k)
        BY <2>1, <3>3
      <3> QED
        BY <3>2, <3>4, <3>5
    <2>3. \/ up' = up \/ up' = Append(up, k)
          \/ up' = Append(up, t) /\ y_pc' = "refail"
      BY <1>9 DEF YResendOk, YResendFail, SendOk, SendFail
    <2> HIDE DEF k, t
    <2> QED
      BY <1>1, <1>3, <2>1, <2>2, <2>3
  <1>10. ASSUME YConnectOk PROVE Goal
    <2>1. Connect \in Packet /\ Zero(Connect)
      BY PacketIdAssumption DEF Connect, Packet
    <2>2. up' = up \/ up' = Append(up, Connect)
      BY <1>10 DEF YConnectOk, SendOk
    <2> HIDE DEF Goal, Zero
    <2> QED
      BY <1>1, <1>3, <2>1, <2>2
  <1>11. ASSUME NEW p \in Publishers, PubCheckState(p) \/ PubStep(p) PROVE Goal
    <2>1. CASE ~PubSendOk(p) /\ ~PubSendFail(p)
      <3>1. up' = up
        BY <1>11, <2>1 DEF PubCheckState, PubStep, PubLockList, PubPush, PubReject, PubNetErr,
                           PubNextId, netVars
      <3> QED
        BY <1>1, <3>1
    <2> QED
      BY <1>7, <1>8, <2>1
  <1>12. ASSUME YStep PROVE Goal
    <2>1. CASE YCycle \/ YRead
      BY <1>1, <2>1 DEF YCycle, YRead, YReadPacket, YReadTimeout, YReadError, YReadPartial,
                        YReadJunk, netVars
    <2>2. CASE YProc /\ ~YResendOk /\ ~YResendFail
      BY <1>1, <2>2 DEF YProc, YMask, YProcLock, YScanEnd, YScanRemove, YScanNormal, YResendErr,
                        netVars
    <2>3. CASE YKeepalive /\ ~YConnectOk
      BY <1>1, <1>2, <2>3 DEF YKeepalive, YClose, YSetReconnecting, YReconnect, YConnectFail,
                              YConnack, YConnected, YConnackFail, Disconnect, OpenSocket, netVars
    <2> QED
      BY <1>9, <1>10, <1>12, <2>1, <2>2, <2>3 DEF YStep
  <1>13. ASSUME OtherRequest \/ Tick \/ NetBreak PROVE Goal
    BY <1>1, <1>2, <1>13 DEF OtherRequest, Tick, Elapse, NetBreak, netVars
  <1>14. ASSUME Broker PROVE Goal
    BY <1>2, <1>4, <1>5, <1>14 DEF Broker, BrokerConnect, BrokerPublish, BrokerHangUp
  <1> QED
    BY <1>11, <1>12, <1>13, <1>14 DEF Next

\* Where an acknowledgement on its way to the client comes from.
LEMMA DownStep ==
    ASSUME BaseInv, Next
    PROVE  \A i \in DOMAIN down' :
             \/ \E j \in DOMAIN down : down'[i] = down[j]
             \/ down'[i] = CONNACK
             \/ \E j \in DOMAIN up : /\ down'[i] = up[j].id
                                     /\ up[j].torn \/ up[j].seq \in received'
  <1> DEFINE Fresh(a) == \/ a = CONNACK
                         \/ \E j \in DOMAIN up : a = up[j].id /\ (up[j].torn \/ up[j].seq \in received')
             Goal == \A i \in DOMAIN down' : (\E j \in DOMAIN down : down'[i] = down[j]) \/ Fresh(down'[i])
  <1> SUFFICES Goal
    OBVIOUS
  <1>0. /\ down \in Seq(0..PACKET_ID_MAX) /\ Len(down) \in Nat /\ DOMAIN down = 1..Len(down)
        /\ up \in Seq(Packet) /\ DOMAIN up = 1..Len(up) /\ Len(up) \in Nat
    BY LenProperties DEF BaseInv, TypeOK
  <1>1. ASSUME down' = down PROVE Goal
    BY <1>1
  <1>2. ASSUME down' = << >> PROVE Goal
    <2>1. DOMAIN down' = {}
      BY <1>2
    <2> QED
      BY <2>1
  <1>3. ASSUME NEW a \in 0..PACKET_ID_MAX, down' = Append(down, a), Fresh(a) PROVE Goal
    <2>1. /\ down' \in Seq(0..PACKET_ID_MAX) /\ Len(down') = Len(down) + 1
          /\ \A i \in 1..Len(down) : down'[i] = down[i]
          /\ down'[Len(down) + 1] = a
      BY <1>0, <1>3, AppendProperties
    <2>2. DOMAIN down' = 1..Len(down) + 1
      BY <1>0, <2>1, LenProperties
    <2>3. \A i \in DOMAIN down' : i \in DOMAIN down \/ i = Len(down) + 1
      BY <1>0, <2>2
    <2> QED
      BY <1>0, <1>3, <2>1, <2>3
  <1>4. ASSUME down # << >>, down' = Tail(down) PROVE Goal
    <2>1. /\ down' \in Seq(0..PACKET_ID_MAX) /\ Len(down') = Len(down) - 1
          /\ \A i \in 1..Len(down') : down'[i] = down[i + 1]
      BY <1>0, <1>4, HeadTailProperties
    <2>2. DOMAIN down' = 1..Len(down) - 1
      BY <2>1, LenProperties
    <2>3. \A i \in DOMAIN down' : i + 1 \in DOMAIN down /\ down'[i] = down[i + 1]
      BY <1>0, <2>1, <2>2
    <2> QED
      BY <2>3
  <1>5. ASSUME NetBreak PROVE Goal
    <2>1. PICK n \in 0..Len(down) : down' = SubSeq(down, 1, n)
      BY <1>5 DEF NetBreak
    <2>2. \A k \in 1..n : down[k] \in 0..PACKET_ID_MAX
      <3>1. \A k \in 1..Len(down) : down[k] \in 0..PACKET_ID_MAX
        BY <1>0, ElementOfSeq
      <3> QED
        BY <1>0, <3>1
    <2>3. down' \in Seq(0..PACKET_ID_MAX) /\ Len(down') = n /\ \A i \in 1..n : down'[i] = down[i]
      BY <1>0, <2>1, <2>2, SubSeqProperties
    <2>4. DOMAIN down' = 1..n
      BY <2>3, LenProperties
    <2>5. \A i \in DOMAIN down' : i \in DOMAIN down /\ down'[i] = down[i]
      BY <1>0, <2>3, <2>4
    <2> QED
      BY <2>5
  <1>6. ASSUME up # << >>
        PROVE  1 \in DOMAIN up /\ Head(up) = up[1] /\ up[1].id \in 0..PACKET_ID_MAX
    <2>1. Len(up) # 0
      BY <1>0, <1>6, EmptySeq
    <2>2. 1 \in DOMAIN up /\ Head(up) = up[1]
      BY <1>0, <2>1
    <2>3. up[1] \in Packet
      BY <1>0, <2>2, ElementOfSeq
    <2> QED
      BY <2>2, <2>3 DEF Packet
  <1>7. ASSUME BrokerConnect PROVE Goal
    <2>1. CONNACK \in 0..PACKET_ID_MAX /\ down' = Append(down, CONNACK)
      BY <1>7, PacketIdAssumption DEF BrokerConnect, CONNACK
    <2> HIDE DEF Goal
    <2> QED
      BY <1>3, <2>1
  <1>8. ASSUME BrokerPublish PROVE Goal
    <2>1. CASE Head(up).id = 0
      BY <1>1, <1>8, <2>1 DEF BrokerPublish
    <2>2. CASE Head(up).id # 0
      <3>1. down' = Append(down, up[1].id) /\ up[1].seq \in received'
            /\ 1 \in DOMAIN up /\ up[1].id \in 0..PACKET_ID_MAX
        BY <1>6, <1>8, <2>2 DEF BrokerPublish
      <3> QED
        BY <1>3, <3>1
    <2> QED
      BY <2>1, <2>2
  <1>9. ASSUME BrokerMerge PROVE Goal
    <2>1. /\ down' = down \/ down' = Append(down, up[1].id)
          /\ 1 \in DOMAIN up /\ up[1].id \in 0..PACKET_ID_MAX /\ up[1].torn
      <3>1. up # << >>
        BY <1>0, <1>9, EmptySeq DEF BrokerMerge
      <3> QED
        BY <1>6, <1>9, <3>1 DEF BrokerMerge
    <2> QED
      BY <1>1, <1>3, <2>1
  <1>10. ASSUME NEW p \in Publishers, PubCheckState(p) \/ PubStep(p) PROVE down' = down
    BY <1>10 DEF PubCheckState, PubStep, PubLockList, PubPush, PubReject, PubSendOk, PubSendFail,
                 PubNetErr, PubNextId, SendOk, SendFail, netVars
  <1>11. ASSUME YStep PROVE Goal
    <2>1. CASE YCycle \/ YRead
      BY <1>1, <1>4, <2>1 DEF YCycle, YRead, YReadPacket, YReadTimeout, YReadError, YReadPartial,
                              YReadJunk, netVars
    <2>2. CASE YProc
      BY <1>1, <2>2 DEF YProc, YMask, YProcLock, YScanEnd, YScanRemove, YScanNormal, YResendOk,
                        YResendFail, YResendErr, SendOk, SendFail, netVars
    <2>3. CASE YKeepalive
      BY <1>1, <1>2, <1>4, <2>3
      DEF YKeepalive, YClose, YSetReconnecting, YReconnect, YConnectOk, YConnectFail,
          YConnack, YConnected, YConnackFail, SendOk, Disconnect, OpenSocket, netVars
    <2> QED
      BY <1>11, <2>1, <2>2, <2>3 DEF YStep
  <1>12. ASSUME OtherRequest \/ Tick \/ BrokerHangUp PROVE down' = down
    BY <1>12 DEF OtherRequest, Tick, Elapse, BrokerHangUp, netVars
  <1> QED
    BY <1>1, <1>5, <1>7, <1>8, <1>9, <1>10, <1>11, <1>12 DEF Next, Broker

\* The streams are empty when the yield thread trusts them again, and an
\* acknowledgement to be handled was read from a stream it trusts.
LEMMA TrustStep ==
    ASSUME BaseInv, Next
    PROVE  /\ Trusting' => Trusting \/ (up' = << >> /\ down' = << >>)
           /\ y_pc' = "mask" => \/ y_pc = "mask" /\ y_ack' = y_ack
                                \/ Trusting /\ \E j \in DOMAIN down : y_ack' = down[j]
                                \/ y_ack' \in JunkIds
  <1> USE DEF Trusting
  <1>1. ASSUME NEW p \in Publishers, PubCheckState(p) \/ PubStep(p)
        PROVE  /\ y_pc' = y_pc /\ y_ack' = y_ack
               /\ client_state' = client_state \/ client_state' = "DISCONNECTED"
    BY <1>1 DEF PubCheckState, PubStep, PubLockList, PubPush, PubReject, PubSendOk, PubSendFail,
                PubNetErr, PubNextId, yieldVars, clientVars
  <1>2. ASSUME OtherRequest \/ Tick \/ NetBreak \/ Broker
        PROVE  y_pc' = y_pc /\ y_ack' = y_ack /\ client_state' = client_state
    BY <1>2 DEF OtherRequest, Tick, Elapse, NetBreak, Broker, BrokerConnect, BrokerPublish,
                BrokerMerge, BrokerHangUp, yieldVars, clientVars
  <1>3. CASE YReadPacket
    <2>1. down # << >> /\ down \in Seq(0..PACKET_ID_MAX)
      BY <1>3 DEF YReadPacket, BaseInv, TypeOK
    <2>2. 1 \in DOMAIN down /\ Head(down) = down[1]
      BY <2>1, EmptySeq, LenProperties
    <2> QED
      BY <1>3, <2>2 DEF YReadPacket
  <1>4. CASE YCycle \/ (YRead /\ ~YReadPacket)
    BY <1>4 DEF YCycle, YRead, YReadTimeout, YReadError, YReadPartial, YReadJunk
  <1>5. CASE YProc
    BY <1>5 DEF YProc, YMask, YProcLock, YScanEnd, YScanRemove, YScanNormal, YResendOk,
                YResendFail, YResendErr, clientVars, yieldVars
  <1>6. CASE YKeepalive
    BY <1>6 DEF YKeepalive, YClose, YSetReconnecting, YReconnect, YConnectOk, YConnectFail,
                YConnack, YConnected, YConnackFail, Disconnect, clientVars
  <1> QED
    BY <1>1, <1>2, <1>3, <1>4, <1>5, <1>6 DEF Next, YStep, YRead

\* What a step does to the packet id counter, and which request it serves.
LEMMA DrawStep ==
    ASSUME BaseInv, Next
    PROVE  /\ DrawPacketId \/ (packet_id' = packet_id /\ issued' = issued)
           /\ \A p \in Publishers : Active(p)' =>
                \/ Active(p) /\ req'[p] = req[p]
                \/ req'[p].id = 0 /\ req'[p].seq = 0
                \/ DrawPacketId /\ req'[p].id = packet_id' /\ req'[p].seq = issued'
  <1>0. /\ pc \in [Publishers -> {"idle", "checked", "ready", "locked", "send", "neterr"}]
        /\ req \in [Publishers -> Request]
    BY DEF BaseInv, TypeOK
  <1>1. ASSUME NEW p \in Publishers, NEW q \in QosLevels, PubNextId(p, q)
        PROVE  /\ DrawPacketId \/ (packet_id' = packet_id /\ issued' = issued)
               /\ \A r \in Publishers \ {p} : pc'[r] = pc[r] /\ req'[r] = req[r]
               /\ \/ req'[p].id = 0 /\ req'[p].seq = 0
                  \/ DrawPacketId /\ req'[p].id = packet_id' /\ req'[p].seq = issued'
    BY <1>0, <1>1 DEF PubNextId, DrawPacketId
  <1>2. ASSUME NEW p \in Publishers, PubCheckState(p) \/ PubStep(p),
               ~\E q \in QosLevels : PubNextId(p, q)
        PROVE  /\ packet_id' = packet_id /\ issued' = issued /\ req' = req
               /\ \A r \in Publishers : Active(r)' => Active(r)
    BY <1>0, <1>2 DEF PubCheckState, PubStep, PubLockList, PubPush, PubReject, PubSendOk, PubSendFail,
                      PubNetErr, clientVars, ghostVars, Active
  <1>3. ASSUME OtherRequest PROVE DrawPacketId /\ pc' = pc /\ req' = req
    BY <1>3 DEF OtherRequest, pubVars
  <1>4. ASSUME YStep \/ Tick \/ NetBreak \/ Broker
        PROVE  packet_id' = packet_id /\ issued' = issued /\ pc' = pc /\ req' = req
    <2> USE DEF clientVars, pubVars, ghostVars
    <2>1. CASE YCycle \/ YRead
      BY <2>1 DEF YCycle, YRead, YReadPacket, YReadTimeout, YReadError, YReadPartial, YReadJunk
    <2>2. CASE YProc
      BY <2>2 DEF YProc, YMask, YProcLock, YScanEnd, YScanRemove, YScanNormal,
                  YResendOk, YResendFail, YResendErr
    <2>3. CASE YKeepalive
      BY <2>3 DEF YKeepalive, YClose, YSetReconnecting, YReconnect, YConnectOk, YConnectFail,
                  YConnack, YConnected, YConnackFail
    <2>4. CASE Tick \/ NetBreak \/ Broker
      BY <2>4 DEF Tick, Elapse, NetBreak, Broker, BrokerConnect, BrokerPublish, BrokerMerge,
                  BrokerHangUp
    <2> QED
      BY <1>4, <2>1, <2>2, <2>3, <2>4 DEF YStep
  <1> QED
    BY <1>1, <1>2, <1>3, <1>4 DEF Next, PubStep, Active

\* As long as the counter has not wrapped, a packet id is the ordinal of its message.
LEMMA CounterStep ==
    ASSUME BaseInv, Next, packet_id = issued, issued' <= PACKET_ID_MAX,
           \A p \in Publishers : Active(p) => req[p].id = req[p].seq
    PROVE  /\ packet_id' = issued'
           /\ \A p \in Publishers : Active(p)' => req'[p].id = req'[p].seq
  <1>1. packet_id' = issued'
    BY DrawStep, PacketIdAssumption DEF DrawPacketId, NextPacketId, BaseInv, TypeOK
  <1> QED
    BY <1>1, DrawStep

\* A publish that succeeds leaves its own node, unacknowledged, on the list.
LEMMA AcceptedStep ==
    ASSUME BaseInv, Next, NEW s \in accepted', s \notin accepted
    PROVE  Waiting(s)'
  <1>1. PICK p \in Publishers : PubSendOk(p)
    BY DEF Next, PubCheckState, PubStep, PubLockList, PubPush, PubReject, PubSendFail, PubNetErr,
           PubNextId, OtherRequest, YStep, YCycle, YRead, YReadPacket, YReadTimeout, YReadError,
           YReadPartial, YReadJunk, YProc, YMask, YProcLock, YScanEnd, YScanRemove, YScanNormal,
           YResendOk, YResendFail, YResendErr, YKeepalive, YClose, YSetReconnecting, YReconnect,
           YConnectOk, YConnectFail, YConnack, YConnected, YConnackFail, Tick, Elapse, NetBreak,
           Broker, BrokerConnect, BrokerPublish, BrokerMerge, BrokerHangUp, ghostVars
  <1>2. pc[p] = "send" /\ req[p].qos = 1 /\ s = req[p].seq /\ list_pub_wait_ack' = list_pub_wait_ack
    BY <1>1 DEF PubSendOk, clientVars
  <1>3. Len(list_pub_wait_ack) \in DOMAIN list_pub_wait_ack
    BY <1>2, LenProperties DEF BaseInv, NodeInv, TypeOK
  <1> QED
    BY <1>2, <1>3 DEF BaseInv, NodeInv, Waiting

LEMMA DeliveryNext ==
    ASSUME BaseInv, DeliveryInv, NoWrap', Next
    PROVE  DeliveryInv'
  <1>1. packet_id' = issued' /\ \A p \in Publishers : Active(p)' => req'[p].id = req'[p].seq
    BY CounterStep DEF DeliveryInv, IdsAreSeqs, NoWrap
  <1>2. \A i \in DOMAIN list_pub_wait_ack' : list_pub_wait_ack'[i].id = list_pub_wait_ack'[i].seq
    BY ListStep DEF DeliveryInv, IdsAreSeqs
  <1>3. \A i \in DOMAIN up' : up'[i].id = up'[i].seq
    BY UpStep DEF DeliveryInv, IdsAreSeqs
  <1>4. IdsAreSeqs'
    BY <1>1, <1>2, <1>3 DEF IdsAreSeqs
  <1>5. ASSUME Trusting' PROVE StreamSafe'
    <2>1. CASE up' = << >> /\ down' = << >>
      <3>1. DOMAIN up' = {} /\ DOMAIN down' = {}
        BY <2>1
      <3> QED
        BY <3>1 DEF StreamSafe
    <2>2. CASE StreamSafe
      <3>1. ASSUME NEW i \in DOMAIN down' PROVE down'[i] \in GoodAcks'
        <4>1. ASSUME NEW j \in DOMAIN up, down'[i] = up[j].id, up[j].torn \/ up[j].seq \in received'
              PROVE  down'[i] \in GoodAcks'
          <5>1. CASE up[j].torn
            BY <2>2, <4>1, <5>1, AckKept DEF StreamSafe
          <5>2. CASE up[j].seq \in received'
            BY <4>1, <5>2 DEF DeliveryInv, IdsAreSeqs, GoodAcks
          <5> QED
            BY <4>1, <5>1, <5>2
        <4>2. CONNACK \in GoodAcks'
          BY DEF GoodAcks, CONNACK
        <4>3. \A j \in DOMAIN down : down[j] \in GoodAcks'
          BY <2>2, AckKept DEF StreamSafe
        <4> QED
          BY <4>1, <4>2, <4>3, DownStep
      <3>2. ASSUME NEW i \in DOMAIN up', up'[i].torn PROVE up'[i].id \in GoodAcks'
        <4>1. ASSUME NEW j \in DOMAIN up, up'[i] = up[j] PROVE up'[i].id \in GoodAcks'
          BY <2>2, <3>2, <4>1, AckKept DEF StreamSafe
        <4>2. ASSUME up'[i].id = 0 PROVE up'[i].id \in GoodAcks'
          BY <4>2 DEF GoodAcks, CONNACK
        <4>3. ASSUME NEW p \in Publishers, Active(p), req[p].qos = 1, up'[i].id = req[p].id,
                     accepted' = accepted, req' = req, issued' = issued,
                     pc' = [pc EXCEPT ![p] = "neterr"]
              PROVE  up'[i].id \in GoodAcks'
          <5>1. req[p].id = req[p].seq
            BY <4>3 DEF DeliveryInv, IdsAreSeqs
          <5>2. /\ req[p].seq \in (1..issued) \ accepted
                /\ \A r \in Publishers : p # r /\ Active(r) => req[r].seq # req[p].seq
            BY <4>3 DEF BaseInv, ReqInv
          <5>3. \A r \in Publishers : Active(r)' => p # r /\ Active(r)
            BY <4>3 DEF Active, BaseInv, TypeOK
          <5>4. req[p].seq \in DeadSeqs'
            BY <4>3, <5>2, <5>3 DEF DeadSeqs
          <5> QED
            BY <4>3, <5>1, <5>4 DEF GoodAcks
        <4>4. y_pc' # "refail"
          BY <1>5 DEF Trusting
        <4> QED
          BY <3>2, <4>1, <4>2, <4>3, <4>4, UpStep
      <3> QED
        BY <3>1, <3>2 DEF StreamSafe
    <2> QED
      BY <1>5, <2>1, <2>2, TrustStep DEF DeliveryInv
  <1>6. ASSUME y_pc' = "mask" PROVE y_ack' \in GoodAcks'
    <2>1. CASE y_pc = "mask" /\ y_ack' = y_ack
      BY <2>1, AckKept DEF DeliveryInv
    <2>2. ASSUME Trusting, NEW j \in DOMAIN down, y_ack' = down[j] PROVE y_ack' \in GoodAcks'
      BY <2>2, AckKept DEF DeliveryInv, StreamSafe
    <2>3. JunkIds = {}
      BY DEF NoWrap
    <2> QED
      BY <1>6, <2>1, <2>2, <2>3, TrustStep
  <1>7. NotForgotten'
    <2>1. ASSUME NEW s \in accepted, s \notin received PROVE Waiting(s)'
      <3>1. Waiting(s)
        BY <2>1 DEF DeliveryInv, NotForgotten
      <3>2. ~\E p \in Publishers : Active(p) /\ req[p].qos = 1 /\ req[p].seq = s
        BY DEF BaseInv, ReqInv
      <3>3. ASSUME y_pc = "mask", NEW i \in DOMAIN list_pub_wait_ack,
                   list_pub_wait_ack[i].id = y_ack, list_pub_wait_ack[i].seq = s
            PROVE  FALSE
        <4>1. s = y_ack /\ y_ack \in GoodAcks
          BY <3>3 DEF DeliveryInv, IdsAreSeqs
        <4>2. s # CONNACK /\ s \notin DeadSeqs
          BY DEF BaseInv, ReqInv, CONNACK, DeadSeqs
        <4> QED
          BY <2>1, <4>1, <4>2 DEF GoodAcks
      <3> QED
        BY <3>1, <3>2, <3>3, ListStep
    <2>2. received \subseteq received'
      BY RequestStep
    <2> QED
      BY <2>1, <2>2, AcceptedStep DEF NotForgotten
  <1> QED
    BY <1>4, <1>5, <1>6, <1>7 DEF DeliveryInv

LEMMA DeliveryInit == Init => DeliveryInv
  <1> SUFFICES ASSUME Init PROVE DeliveryInv
    OBVIOUS
  <1>1. /\ DOMAIN list_pub_wait_ack = {} /\ DOMAIN up = {} /\ DOMAIN down = {}
        /\ accepted = {} /\ packet_id = 0 /\ issued = 0 /\ y_pc = "idle"
    BY DEF Init
  <1>2. \A p \in Publishers : ~Active(p)
    BY DEF Init, Active
  <1> QED
    BY <1>1, <1>2 DEF DeliveryInv, IdsAreSeqs, StreamSafe, NotForgotten

LEMMA IInvInit == Init => IInv
  BY BaseInit, DeliveryInit DEF IInv

LEMMA IInvNext == IInv /\ [Next]_vars => IInv'
  <1> SUFFICES ASSUME IInv, [Next]_vars PROVE IInv'
    OBVIOUS
  <1>1. BaseInv'
    BY BaseNext DEF IInv
  <1>2. CASE Next
    <2>1. ASSUME NoWrap' PROVE DeliveryInv'
      <3>1. NoWrap
        BY <1>2, <2>1, RequestStep, PacketIdAssumption DEF NoWrap, IInv
      <3> QED
        BY <1>2, <2>1, <3>1, DeliveryNext DEF IInv
    <2> QED
      BY <1>1, <2>1 DEF IInv
  <1>3. CASE UNCHANGED vars
    <2>1. DeliveryInv => DeliveryInv'
      BY <1>3 DEF vars, clientVars, lockVars, pubVars, yieldVars, netVars, ghostVars, DeliveryInv,
                  IdsAreSeqs, Active, Trusting, StreamSafe, GoodAcks, DeadSeqs, NotForgotten, Waiting
    <2>2. NoWrap' => NoWrap
      BY <1>3 DEF vars, ghostVars, NoWrap
    <2> QED
      BY <1>1, <2>1, <2>2 DEF IInv
  <1> QED
    BY <1>2, <1>3

\* Every variable keeps its type (in particular every packet id on the list and on
\* the wire fits 16 bits, non-zero for QoS 1), for any number of threads.
THEOREM TypeCorrect == Spec => []TypeOK
  <1>1. BaseInv => TypeOK
    BY DEF BaseInv
  <1> QED
    BY <1>1, BaseInit, BaseNext, PTL DEF Spec

\* However many threads publish, the republish list never exceeds IOTX_MC_REPUB_NUM_MAX.
THEOREM ListBounded == Spec => []WaitListBounded
  <1>1. BaseInv => WaitListBounded
    BY DEF BaseInv
  <1> QED
    BY <1>1, BaseInit, BaseNext, PTL DEF Spec

\* A QoS 1 message whose publish call returned success is at the broker or still on the
\* republish list, unacknowledged, for any number of threads, failures and reconnects, as
\* long as packet ids have not wrapped and junk in a broken stream decodes to no PUBACK.
THEOREM NeverForgotten == Spec => []AtLeastOnce
  <1>1. IInv => AtLeastOnce
    BY DEF IInv, NoWrap, DeliveryInv, NotForgotten, AtLeastOnce
  <1> QED
    BY <1>1, IInvInit, IInvNext, PTL DEF Spec

----------------------------------------------------------------------------
(* Packet ids across the wrap, and the refinement of AckedDelivery.         *)

\* The counter has gone round a whole number of times when message seq drew id.
OnRound(seq, id) == \E k \in Nat : seq = id + k * PACKET_ID_MAX

\* Every id in use was drawn in its turn, on whichever round of the counter.
IdInv ==
    /\ OnRound(issued, packet_id)
    /\ \A p \in Publishers : Active(p) => OnRound(req[p].seq, req[p].id)
    /\ \A i \in DOMAIN list_pub_wait_ack :
         OnRound(list_pub_wait_ack[i].seq, list_pub_wait_ack[i].id)

\* Publisher p has pushed the node of message s and is still writing its packet.
Sends(at, r, s) == at = "send" /\ r.qos = 1 /\ r.seq = s
Sending(p, s) == Sends(pc[p], req[p], s)

\* What the broker can read, and what the list holds, was accepted by some publish
\* call; only the node a publisher has just pushed may not have been accepted yet.
SourceInv ==
    /\ issued <= MaxIssued
    /\ received \subseteq accepted
    /\ \A i \in DOMAIN up : ~up[i].torn /\ up[i].id # 0 => up[i].seq \in accepted
    /\ \A i \in DOMAIN list_pub_wait_ack :
         \/ list_pub_wait_ack[i].seq \in accepted
         \/ \E p \in Publishers : Sending(p, list_pub_wait_ack[i].seq)
    /\ \A i, j \in DOMAIN list_pub_wait_ack :
         list_pub_wait_ack[i].seq = list_pub_wait_ack[j].seq => i = j

-----------------------------------------------------------------------------
(* Packet ids across the wrap.                                              *)

LEMMA OnRoundNext ==
    ASSUME NEW seq \in Nat, NEW id \in 0..PACKET_ID_MAX, OnRound(seq, id)
    PROVE  OnRound(seq + 1, IF id = PACKET_ID_MAX THEN 1 ELSE id + 1)
  <1>1. PICK k \in Nat : seq = id + k * PACKET_ID_MAX
    BY DEF OnRound
  <1>2. CASE id = PACKET_ID_MAX
    <2>1. seq + 1 = 1 + (k + 1) * PACKET_ID_MAX
      BY <1>1, <1>2, PacketIdAssumption
    <2> QED
      BY <1>2, <2>1 DEF OnRound
  <1>3. CASE id # PACKET_ID_MAX
    <2>1. seq + 1 = (id + 1) + k * PACKET_ID_MAX
      BY <1>1, PacketIdAssumption
    <2> QED
      BY <1>3, <2>1 DEF OnRound
  <1> QED
    BY <1>2, <1>3

\* Two messages with one id are at least a whole round apart.
LEMMA OnRoundApart ==
    ASSUME NEW a \in Nat, NEW b \in Nat, NEW id \in Nat, OnRound(a, id), OnRound(b, id), a < b
    PROVE  b - a >= PACKET_ID_MAX
  <1>1. PICK j \in Nat : a = id + j * PACKET_ID_MAX
    BY DEF OnRound
  <1>2. PICK k \in Nat : b = id + k * PACKET_ID_MAX
    BY DEF OnRound
  <1>3. PACKET_ID_MAX \in Nat \ {0}
    BY PacketIdAssumption
  <1>4. ASSUME k <= j PROVE FALSE
    <2>1. (j - k) * PACKET_ID_MAX >= 0
      BY <1>3, <1>4
    <2>2. (j - k) * PACKET_ID_MAX = j * PACKET_ID_MAX - k * PACKET_ID_MAX
      BY <1>3
    <2> QED
      BY <1>1, <1>2, <1>3, <2>1, <2>2
  <1>5. (k - j - 1) * PACKET_ID_MAX >= 0
    BY <1>3, <1>4
  <1>6. (k - j - 1) * PACKET_ID_MAX = k * PACKET_ID_MAX - j * PACKET_ID_MAX - PACKET_ID_MAX
    BY <1>3
  <1> QED
    BY <1>1, <1>2, <1>3, <1>5, <1>6

LEMMA IdInit == Init => IdInv
  <1> SUFFICES ASSUME Init PROVE IdInv
    OBVIOUS
  <1>1. 0 = 0 + 0 * PACKET_ID_MAX
    BY PacketIdAssumption
  <1>2. OnRound(issued, packet_id)
    BY <1>1 DEF Init, OnRound
  <1>3. DOMAIN list_pub_wait_ack = {} /\ \A p \in Publishers : ~Active(p)
    BY DEF Init, Active
  <1> QED
    BY <1>2, <1>3 DEF IdInv

LEMMA IdNext == BaseInv /\ IdInv /\ [Next]_vars => IdInv'
  <1> SUFFICES ASSUME BaseInv, IdInv, [Next]_vars PROVE IdInv'
    OBVIOUS
  <1>1. CASE UNCHANGED vars
    BY <1>1 DEF vars, clientVars, pubVars, ghostVars, IdInv, Active
  <1>2. CASE Next
    <2>1. OnRound(issued', packet_id')
      <3>1. issued \in Nat /\ packet_id \in 0..PACKET_ID_MAX /\ OnRound(issued, packet_id)
        BY DEF BaseInv, TypeOK, IdInv
      <3>2. CASE DrawPacketId
        BY <3>1, <3>2, OnRoundNext DEF DrawPacketId, NextPacketId
      <3> QED
        BY <1>2, <3>1, <3>2, DrawStep
    <2>2. OnRound(0, 0)
      <3>1. 0 = 0 + 0 * PACKET_ID_MAX
        BY PacketIdAssumption
      <3> QED
        BY <3>1 DEF OnRound
    <2>3. \A p \in Publishers : Active(p)' => OnRound(req'[p].seq, req'[p].id)
      BY <1>2, <2>1, <2>2, DrawStep DEF IdInv
    <2>4. \A i \in DOMAIN list_pub_wait_ack' :
            OnRound(list_pub_wait_ack'[i].seq, list_pub_wait_ack'[i].id)
      BY <1>2, ListStep DEF IdInv
    <2> QED
      BY <2>1, <2>3, <2>4 DEF IdInv
  <1> QED
    BY <1>1, <1>2

\* Two publishes that wait for their PUBACK have different, non-zero packet ids although
\* iotx_mc_get_next_packetid starts again at 1, unless IOTX_MC_PACKET_ID_MAX or more ids
\* were drawn between them: for any number of threads and of rounds of the counter.
THEOREM IdsDistinct == Spec => []InFlightIdsDistinct
  <1>1. BaseInv /\ IdInv => InFlightIdsDistinct
    <2> SUFFICES ASSUME BaseInv, IdInv,
                        NEW i \in DOMAIN list_pub_wait_ack, NEW j \in DOMAIN list_pub_wait_ack,
                        list_pub_wait_ack[i].seq < list_pub_wait_ack[j].seq,
                        list_pub_wait_ack[j].seq - list_pub_wait_ack[i].seq < PACKET_ID_MAX
                 PROVE  list_pub_wait_ack[i].id # list_pub_wait_ack[j].id /\ list_pub_wait_ack[i].id > 0
      BY DEF InFlightIdsDistinct
    <2>1. list_pub_wait_ack[i] \in Node /\ list_pub_wait_ack[j] \in Node
      BY LenProperties, ElementOfSeq DEF BaseInv, TypeOK
    <2>2. /\ list_pub_wait_ack[i].id \in Nat \ {0} /\ list_pub_wait_ack[i].seq \in Nat
          /\ list_pub_wait_ack[j].seq \in Nat /\ PACKET_ID_MAX \in Nat
      BY <2>1, PacketIdAssumption DEF Node, Ids
    <2>3. /\ OnRound(list_pub_wait_ack[i].seq, list_pub_wait_ack[i].id)
          /\ OnRound(list_pub_wait_ack[j].seq, list_pub_wait_ack[j].id)
      BY DEF IdInv
    <2>4. ASSUME list_pub_wait_ack[i].id = list_pub_wait_ack[j].id PROVE FALSE
      <3>1. list_pub_wait_ack[j].seq - list_pub_wait_ack[i].seq >= PACKET_ID_MAX
        BY <2>2, <2>3, <2>4, OnRoundApart
      <3> QED
        BY <2>2, <3>1
    <2> QED
      BY <2>2, <2>4
  <1> QED
    BY <1>1, BaseInit, BaseNext, IdInit, IdNext, PTL DEF Spec

-----------------------------------------------------------------------------
(* Where messages come from.                                                *)

NewNode(p) == [id |-> req[p].id, seq |-> req[p].seq, node_state |-> "NORMAL", late |-> FALSE]

Pushes(p) ==
    /\ PubPush(p) /\ req[p].qos = 1
    /\ list_pub_wait_ack' = Append(list_pub_wait_ack, NewNode(p))

\* A push adds one node at the end; no other step adds one, and the node a failed
\* publish takes out is the one that its own call has pushed.
LEMMA NodeOrigin ==
    ASSUME BaseInv, Next
    PROVE  \/ \E p \in Publishers : Pushes(p)
           \/ \E f \in [DOMAIN list_pub_wait_ack' -> DOMAIN list_pub_wait_ack] :
                /\ \A i \in DOMAIN list_pub_wait_ack' :
                     /\ list_pub_wait_ack'[i].seq = list_pub_wait_ack[f[i]].seq
                     /\ list_pub_wait_ack'[i].node_state = "NORMAL" =>
                            list_pub_wait_ack[f[i]].node_state = "NORMAL"
                /\ \A i, j \in DOMAIN list_pub_wait_ack' : f[i] = f[j] => i = j
                /\ \A p \in Publishers : PubSendFail(p) /\ req[p].qos = 1 =>
                     \A i \in DOMAIN list_pub_wait_ack' : f[i] # Len(list_pub_wait_ack)
  <1> DEFINE list == list_pub_wait_ack
             From(f) ==
                /\ \A i \in DOMAIN list' :
                     /\ list'[i].seq = list[f[i]].seq
                     /\ list'[i].node_state = "NORMAL" => list[f[i]].node_state = "NORMAL"
                /\ \A i, j \in DOMAIN list' : f[i] = f[j] => i = j
                /\ \A p \in Publishers : PubSendFail(p) /\ req[p].qos = 1 =>
                     \A i \in DOMAIN list' : f[i] # Len(list)
             Goal == \/ \E p \in Publishers : Pushes(p)
                     \/ \E f \in [DOMAIN list' -> DOMAIN list] : From(f)
  <1> SUFFICES Goal
    OBVIOUS
  <1>0. /\ list \in Seq(Node) /\ Len(list) \in Nat /\ DOMAIN list = 1..Len(list)
        /\ \A i \in 1..Len(list) : list[i] \in Node
    BY LenProperties, ElementOfSeq DEF BaseInv, TypeOK
  <1>1. ASSUME DOMAIN list' = DOMAIN list,
               \A j \in DOMAIN list :
                  /\ list'[j].seq = list[j].seq
                  /\ list'[j].node_state = "NORMAL" => list[j].node_state = "NORMAL",
               \A p \in Publishers : PubSendFail(p) => req[p].qos # 1
        PROVE  Goal
    <2> DEFINE f == [j \in DOMAIN list |-> j]
    <2>1. f \in [DOMAIN list' -> DOMAIN list] /\ \A j \in DOMAIN list : f[j] = j
      BY <1>1
    <2> HIDE DEF f
    <2>2. From(f)
      BY <1>1, <2>1
    <2> QED
      BY <2>1, <2>2
  <1>2. ASSUME NEW k \in DOMAIN list, list' = RemoveAt(list, k),
               \A p \in Publishers : PubSendFail(p) => k = Len(list)
        PROVE  Goal
    <2>1. PICK f \in [DOMAIN list' -> DOMAIN list] :
             /\ \A j \in DOMAIN list' : list'[j] = list[f[j]] /\ f[j] # k
             /\ \A i, j \in DOMAIN list' : f[i] = f[j] => i = j
      <3>1. \E f \in [DOMAIN RemoveAt(list, k) -> DOMAIN list] :
               /\ \A j \in DOMAIN RemoveAt(list, k) : RemoveAt(list, k)[j] = list[f[j]] /\ f[j] # k
               /\ \A i, j \in DOMAIN RemoveAt(list, k) : f[i] = f[j] => i = j
        BY <1>0, RemoveAtMap, Zenon
      <3> QED
        BY <1>2, <3>1, Zenon
    <2>2. From(f)
      BY <1>2, <2>1
    <2> QED
      BY <2>2
  <1>3. ASSUME NEW p \in Publishers, PubCheckState(p) \/ PubStep(p) PROVE Goal
    <2>1. CASE PubPush(p) /\ req[p].qos = 1
      <3>1. list' = Append(list, NewNode(p))
        BY <2>1 DEF PubPush, NewNode
      <3> QED
        BY <2>1, <3>1 DEF Pushes
    <2>2. CASE PubSendFail(p) /\ req[p].qos = 1
      <3>1. list' = RemoveAt(list, Len(list)) /\ pc[p] = "send"
        BY <2>2 DEF PubSendFail, GiveUpNode
      <3>2. Len(list) \in DOMAIN list
        BY <1>0, <2>2, <3>1 DEF BaseInv, NodeInv
      <3> QED
        BY <1>2, <3>1, <3>2
    <2>3. CASE ~(PubPush(p) /\ req[p].qos = 1) /\ ~(PubSendFail(p) /\ req[p].qos = 1)
      <3>1. list' = list
        BY <1>3, <2>3 DEF PubCheckState, PubStep, PubPush, PubLockList, PubReject, PubSendOk, PubNetErr,
                          PubSendFail, GiveUpNode, PubNextId, clientVars
      <3>2. \A q \in Publishers : PubSendFail(q) => q = p
        <4>1. ASSUME NEW q \in Publishers, PubSendFail(q), q # p PROVE FALSE
          <5>1. pc[q] = "send" /\ pc'[q] = "neterr"
            BY <4>1 DEF PubSendFail, BaseInv, TypeOK
          <5>2. pc'[q] = pc[q]
            BY <1>3, <4>1 DEF PubCheckState, PubStep, PubPush, PubLockList, PubReject, PubSendOk,
                    PubNetErr, PubSendFail, PubNextId, BaseInv, TypeOK
          <5> QED
            BY <5>1, <5>2
        <4> QED
          BY <4>1
      <3> QED
        BY <1>1, <2>3, <3>1, <3>2
    <2> QED
      BY <2>1, <2>2, <2>3
  <1>4. ASSUME ~\E p \in Publishers : PubCheckState(p) \/ PubStep(p) PROVE Goal
    <2>0. \A p \in Publishers : ~PubSendFail(p)
      BY <1>4 DEF PubStep
    <2>1. ASSUME list' = list PROVE Goal
      BY <1>1, <2>0, <2>1
    <2>2. ASSUME NEW k \in DOMAIN list, NEW b \in BOOLEAN, list' = [list EXCEPT ![k].late = b]
          PROVE  Goal
      <3>1. /\ list' \in Seq(Node) /\ Len(list') = Len(list)
            /\ \A j \in 1..Len(list) : list'[j] = IF j = k THEN [list[k] EXCEPT !.late = b] ELSE list[j]
        BY <1>0, <2>2, RestartTimerProperties
      <3>2. DOMAIN list' = DOMAIN list
        BY <1>0, <3>1, LenProperties
      <3>3. \A j \in DOMAIN list : list'[j].seq = list[j].seq /\ list'[j].node_state = list[j].node_state
        BY <1>0, <3>1 DEF Node
      <3> QED
        BY <1>1, <2>0, <3>2, <3>3
    <2>3. CASE YMask
      <3>1. /\ list' \in Seq(Node) /\ Len(list') = Len(list)
            /\ \A i \in 1..Len(list) :
                 list'[i] = IF list[i].id = y_ack THEN [list[i] EXCEPT !.node_state = "INVALID"] ELSE list[i]
        BY <1>0, <2>3, MaskProperties DEF YMask
      <3>2. DOMAIN list' = DOMAIN list
        BY <1>0, <3>1, LenProperties
      <3>3. \A j \in DOMAIN list : /\ list'[j].seq = list[j].seq
                                   /\ list'[j].node_state = "NORMAL" => list[j].node_state = "NORMAL"
        BY <1>0, <3>1 DEF Node
      <3> QED
        BY <1>1, <2>0, <3>2, <3>3
    <2>4. CASE YScanRemove
      <3>1. cursor \in DOMAIN list /\ list' = RemoveAt(list, cursor)
        BY <1>0, <2>4 DEF YScanRemove, BaseInv, TypeOK
      <3> QED
        BY <1>2, <2>0, <3>1
    <2>5. CASE YResendOk \/ YResendFail
      <3>1. cursor \in DOMAIN list /\ list' = [list EXCEPT ![cursor].late = FALSE]
        BY <2>5 DEF YResendOk, YResendFail, RestartTimer, BaseInv, NodeInv
      <3> QED
        BY <2>2, <3>1
    <2>6. CASE Tick
      <3>1. PICK i \in 1..REPUB_NUM_MAX : Elapse(i)
        BY <2>6 DEF Tick
      <3>2. i \in DOMAIN list /\ list' = [list EXCEPT ![i].late = TRUE]
        BY <3>1 DEF Elapse
      <3> QED
        BY <2>2, <3>2
    <2>7. CASE YCycle \/ YRead
      BY <2>1, <2>7 DEF YCycle, YRead, YReadPacket, YReadTimeout, YReadError, YReadPartial,
                        YReadJunk, clientVars
    <2>8. CASE YProcLock \/ YScanEnd \/ YScanNormal \/ YResendErr
      BY <2>1, <2>8 DEF YProcLock, YScanEnd, YScanNormal, YResendErr, clientVars
    <2>9. CASE YKeepalive
      BY <2>1, <2>9 DEF YKeepalive, YClose, YSetReconnecting, YReconnect, YConnectOk, YConnectFail,
                        YConnack, YConnected, YConnackFail, clientVars
    <2>10. CASE OtherRequest \/ NetBreak \/ Broker
      BY <2>1, <2>10 DEF OtherRequest, NetBreak, Broker, BrokerConnect, BrokerPublish, BrokerMerge,
                         BrokerHangUp, clientVars
    <2> QED
      BY <1>4, <2>3, <2>4, <2>5, <2>6, <2>7, <2>8, <2>9, <2>10 DEF Next, YStep, YProc
  <1> QED
    BY <1>3, <1>4

\* Who changes the two ghosts: a publish that succeeds, and the broker when it reads a
\* whole PUBLISH that is not QoS 0.
LEMMA GhostStep ==
    ASSUME BaseInv, Next
    PROVE  /\ \/ accepted' = accepted
              \/ \E p \in Publishers : PubSendOk(p) /\ Sending(p, req[p].seq)
                                       /\ accepted' = accepted \cup {req[p].seq}
           /\ \/ received' = received
              \/ /\ BrokerPublish /\ 1 \in DOMAIN up /\ ~up[1].torn /\ up[1].id # 0
                 /\ received' = received \cup {up[1].seq}
  <1> USE DEF ghostVars
  <1>1. ASSUME NEW p \in Publishers, PubSendOk(p)
        PROVE  /\ received' = received
               /\ accepted' = accepted
                  \/ (Sending(p, req[p].seq) /\ accepted' = accepted \cup {req[p].seq})
    BY <1>1 DEF PubSendOk, Sending, Sends
  <1>2. ASSUME NEW p \in Publishers, PubCheckState(p) \/ PubStep(p), ~PubSendOk(p)
        PROVE  received' = received /\ accepted' = accepted
    BY <1>2 DEF PubCheckState, PubStep, PubLockList, PubPush, PubReject, PubSendFail, PubNetErr, PubNextId
  <1>3. ASSUME BrokerPublish
        PROVE  /\ accepted' = accepted
               /\ \/ received' = received
                  \/ /\ 1 \in DOMAIN up /\ ~up[1].torn /\ up[1].id # 0
                     /\ received' = received \cup {up[1].seq}
    <2>1. Head(up) = up[1] /\ 1 \in DOMAIN up
      BY <1>3, TailFacts DEF BrokerPublish, BaseInv, TypeOK
    <2> QED
      BY <1>3, <2>1 DEF BrokerPublish
  <1>4. ASSUME OtherRequest \/ Tick \/ NetBreak \/ BrokerConnect \/ BrokerMerge \/ BrokerHangUp
        PROVE  received' = received /\ accepted' = accepted
    BY <1>4 DEF OtherRequest, Tick, Elapse, NetBreak, BrokerConnect, BrokerMerge, BrokerHangUp
  <1>5. ASSUME YStep PROVE received' = received /\ accepted' = accepted
    <2>1. CASE YCycle \/ YRead
      BY <2>1 DEF YCycle, YRead, YReadPacket, YReadTimeout, YReadError, YReadPartial, YReadJunk
    <2>2. CASE YProc
      BY <2>2 DEF YProc, YMask, YProcLock, YScanEnd, YScanRemove, YScanNormal,
                  YResendOk, YResendFail, YResendErr
    <2>3. CASE YKeepalive
      BY <2>3 DEF YKeepalive, YClose, YSetReconnecting, YReconnect, YConnectOk, YConnectFail,
                  YConnack, YConnected, YConnackFail
    <2> QED
      BY <1>5, <2>1, <2>2, <2>3 DEF YStep
  <1> QED
    BY <1>1, <1>2, <1>3, <1>4, <1>5 DEF Next, PubStep, Broker

\* A publisher that writes the packet of s goes on, or succeeds, or fails.
LEMMA SendingStep ==
    ASSUME BaseInv, Next, NEW p \in Publishers, NEW s, Sending(p, s)
    PROVE  Sends(pc'[p], req'[p], s) \/ s \in accepted' \/ PubSendFail(p)
  <1>0. pc \in [Publishers -> {"idle", "checked", "ready", "locked", "send", "neterr"}]
        /\ req \in [Publishers -> Request]
    BY DEF BaseInv, TypeOK
  <1>1. ASSUME NEW q \in Publishers, PubCheckState(q) \/ PubStep(q), q # p
        PROVE  pc'[p] = pc[p] /\ req'[p] = req[p]
    BY <1>0, <1>1 DEF PubCheckState, PubStep, PubLockList, PubPush, PubReject, PubSendOk, PubSendFail,
                      PubNetErr, PubNextId
  <1>2. ASSUME PubCheckState(p) \/ PubStep(p) PROVE PubSendOk(p) \/ PubSendFail(p)
    BY <1>2 DEF PubCheckState, PubStep, PubLockList, PubPush, PubReject, PubNetErr, PubNextId, Sending, Sends
  <1>3. PubSendOk(p) => s \in accepted'
    BY DEF PubSendOk, Sending, Sends
  <1>4. ASSUME OtherRequest \/ YStep \/ Tick \/ NetBreak \/ Broker PROVE pc' = pc /\ req' = req
    <2> USE DEF pubVars
    <2>1. CASE YCycle \/ YRead
      BY <2>1 DEF YCycle, YRead, YReadPacket, YReadTimeout, YReadError, YReadPartial, YReadJunk
    <2>2. CASE YProc
      BY <2>2 DEF YProc, YMask, YProcLock, YScanEnd, YScanRemove, YScanNormal,
                  YResendOk, YResendFail, YResendErr
    <2>3. CASE YKeepalive
      BY <2>3 DEF YKeepalive, YClose, YSetReconnecting, YReconnect, YConnectOk, YConnectFail,
                  YConnack, YConnected, YConnackFail
    <2>4. CASE OtherRequest \/ Tick \/ NetBreak \/ Broker
      BY <2>4 DEF OtherRequest, Tick, Elapse, NetBreak, Broker, BrokerConnect, BrokerPublish,
                  BrokerMerge, BrokerHangUp
    <2> QED
      BY <1>4, <2>1, <2>2, <2>3, <2>4 DEF YStep
  <1> QED
    BY <1>1, <1>2, <1>3, <1>4 DEF Next, Sending, Sends

LEMMA SourceInit == Init => SourceInv
  <1> SUFFICES ASSUME Init PROVE SourceInv
    OBVIOUS
  <1>1. DOMAIN list_pub_wait_ack = {} /\ DOMAIN up = {} /\ received = {} /\ issued = 0
    BY DEF Init
  <1> QED
    BY <1>1, BoundsAssumption DEF SourceInv

\* The message of a request that has not been pushed yet is on no node.
LEMMA FreshSeq ==
    ASSUME BaseInv, SourceInv, NEW p \in Publishers, pc[p] = "locked", req[p].qos = 1,
           NEW i \in DOMAIN list_pub_wait_ack
    PROVE  list_pub_wait_ack[i].seq # req[p].seq
  <1>1. Active(p) /\ req[p].seq \notin accepted
    BY DEF Active, BaseInv, ReqInv
  <1>2. ASSUME NEW q \in Publishers, Sending(q, list_pub_wait_ack[i].seq)
        PROVE  list_pub_wait_ack[i].seq # req[p].seq
    <2>1. q # p /\ Active(q) /\ req[q].seq = list_pub_wait_ack[i].seq
      BY <1>2 DEF Sending, Sends, Active
    <2> QED
      BY <1>1, <2>1 DEF BaseInv, ReqInv
  <1> QED
    BY <1>1, <1>2 DEF SourceInv

LEMMA SourceNext == BaseInv /\ SourceInv /\ [Next]_vars => SourceInv'
  <1> SUFFICES ASSUME BaseInv, SourceInv, [Next]_vars PROVE SourceInv'
    OBVIOUS
  <1> DEFINE list == list_pub_wait_ack
             Sourced(s) == s \in accepted' \/ \E p \in Publishers : Sends(pc'[p], req'[p], s)
  <1>1. CASE UNCHANGED vars
    BY <1>1 DEF vars, clientVars, pubVars, netVars, ghostVars, SourceInv, Sending, Sends
  <1>2. CASE Next
    <2>0. /\ list \in Seq(Node) /\ Len(list) \in Nat /\ DOMAIN list = 1..Len(list)
      BY LenProperties DEF BaseInv, TypeOK
    <2>1. accepted \subseteq accepted'
      BY <1>2, GhostStep
    <2>2. issued' <= MaxIssued
      BY <1>2, DrawStep, BoundsAssumption DEF DrawPacketId, SourceInv, BaseInv, TypeOK
    <2>3. received' \subseteq accepted'
      BY <1>2, <2>1, GhostStep DEF SourceInv
    <2>4. ASSUME NEW i \in DOMAIN up', ~up'[i].torn, up'[i].id # 0 PROVE up'[i].seq \in accepted'
      <3>1. ASSUME NEW j \in DOMAIN up, up'[i] = up[j] PROVE up'[i].seq \in accepted'
        BY <2>1, <2>4, <3>1 DEF SourceInv
      <3>2. ASSUME NEW j \in DOMAIN list, y_pc = "resend", up'[i].seq = list[j].seq
            PROVE  up'[i].seq \in accepted'
        <4>1. \A p \in Publishers : pc[p] # "send"
          BY <3>2, PublishersAssumption DEF BaseInv, LockInv
        <4>2. list[j].seq \in accepted
          BY <4>1 DEF SourceInv, Sending, Sends
        <4> QED
          BY <2>1, <3>2, <4>2
      <3>3. ASSUME NEW p \in Publishers, ~up'[i].torn => req[p].seq \in accepted', up'[i].seq = req[p].seq
            PROVE  up'[i].seq \in accepted'
        BY <2>4, <3>3
      <3> QED
        BY <1>2, <2>4, <3>1, <3>2, <3>3, UpStep
    <2>5. ASSUME NEW i \in DOMAIN list, \A p \in Publishers : PubSendFail(p) => ~Sending(p, list[i].seq)
          PROVE  Sourced(list[i].seq)
      <3>1. CASE list[i].seq \in accepted
        BY <2>1, <3>1
      <3>2. ASSUME NEW p \in Publishers, Sending(p, list[i].seq) PROVE Sourced(list[i].seq)
        <4> DEFINE s == list[i].seq
        <4>1. ~PubSendFail(p)
          BY <2>5, <3>2
        <4>2. Sends(pc'[p], req'[p], s) \/ s \in accepted'
          BY <1>2, <3>2, <4>1, SendingStep
        <4> QED
          BY <4>2
      <3> QED
        BY <3>1, <3>2 DEF SourceInv
    <2>6. CASE \E p \in Publishers : Pushes(p)
      <3>1. PICK p \in Publishers : Pushes(p)
        BY <2>6
      <3>2. /\ pc[p] = "locked" /\ req[p].qos = 1 /\ pc' = [pc EXCEPT ![p] = "send"] /\ req' = req
            /\ list' = Append(list, NewNode(p))
        BY <3>1 DEF Pushes, PubPush
      <3>3. NewNode(p) \in Node /\ NewNode(p).seq = req[p].seq
        BY <3>2 DEF NewNode, BaseInv, ReqInv, TypeOK, Request, Node, Active
      <3>4. /\ Len(list') = Len(list) + 1 /\ list' \in Seq(Node)
            /\ \A i \in 1..Len(list) : list'[i] = list[i]
            /\ list'[Len(list) + 1] = NewNode(p)
        BY <2>0, <3>2, <3>3, AppendProperties
      <3>5. /\ DOMAIN list' = 1..(Len(list) + 1)
            /\ \A i \in DOMAIN list' : i \in DOMAIN list \/ i = Len(list) + 1
        BY <2>0, <3>4, LenProperties
      <3>6. \A q \in Publishers : ~PubSendFail(q)
        <4> SUFFICES ASSUME NEW q \in Publishers, PubSendFail(q) PROVE FALSE
          OBVIOUS
        <4>1. pc'[q] = "neterr" /\ pc[q] = "send"
          BY DEF PubSendFail, BaseInv, TypeOK
        <4> QED
          BY <3>2, <4>1 DEF BaseInv, TypeOK
      <3>7. Sends(pc'[p], req'[p], req[p].seq)
        BY <3>2 DEF Sending, Sends, BaseInv, TypeOK
      <3>8. \A i \in DOMAIN list' : Sourced(list'[i].seq)
        <4> TAKE i \in DOMAIN list'
        <4>1. CASE i \in DOMAIN list
          <5>1. list'[i] = list[i]
            BY <2>0, <3>4, <4>1
          <5>2. Sourced(list[i].seq)
            BY <2>5, <3>6, <4>1
          <5> QED
            BY <5>1, <5>2 DEF Sending, Sends
        <4>2. CASE i = Len(list) + 1
          <5>1. list'[i].seq = req[p].seq
            BY <3>3, <3>4, <4>2
          <5> QED
            BY <3>2, <3>7, <5>1 DEF Sending, Sends
        <4> QED
          BY <3>5, <4>1, <4>2
      <3>9. \A i, j \in DOMAIN list' : list'[i].seq = list'[j].seq => i = j
        <4>1. \A i \in DOMAIN list : list'[i] = list[i] /\ list[i].seq # req[p].seq
          BY <2>0, <3>2, <3>4, FreshSeq
        <4>2. list'[Len(list) + 1].seq = req[p].seq
          BY <3>3, <3>4
        <4> QED
          BY <3>5, <4>1, <4>2 DEF SourceInv
      <3> QED
        BY <2>2, <2>3, <2>4, <3>8, <3>9 DEF SourceInv, Sending, Sends
    <2>7. CASE ~\E p \in Publishers : Pushes(p)
      <3>1. PICK f \in [DOMAIN list' -> DOMAIN list] :
                /\ \A i \in DOMAIN list' : list'[i].seq = list[f[i]].seq
                /\ \A i, j \in DOMAIN list' : f[i] = f[j] => i = j
                /\ \A p \in Publishers : PubSendFail(p) /\ req[p].qos = 1 =>
                     \A i \in DOMAIN list' : f[i] # Len(list)
        BY <1>2, <2>7, NodeOrigin
      <3>2. ASSUME NEW i \in DOMAIN list', NEW p \in Publishers, PubSendFail(p),
                   Sending(p, list[f[i]].seq)
            PROVE  FALSE
        <4>1. Len(list) \in DOMAIN list /\ list[Len(list)].seq = req[p].seq
          BY <2>0, <3>2 DEF Sending, Sends, BaseInv, NodeInv
        <4>2. f[i] # Len(list) /\ f[i] \in DOMAIN list
          BY <3>1, <3>2 DEF Sending, Sends
        <4> QED
          BY <3>2, <4>1, <4>2 DEF SourceInv, Sending, Sends
      <3>3. \A i \in DOMAIN list' : Sourced(list'[i].seq)
        <4> TAKE i \in DOMAIN list'
        <4>1. f[i] \in DOMAIN list /\ list'[i].seq = list[f[i]].seq
          BY <3>1
        <4>2. \A p \in Publishers : PubSendFail(p) => ~Sending(p, list[f[i]].seq)
          BY <3>2
        <4>3. Sourced(list[f[i]].seq)
          BY <2>5, <4>1, <4>2
        <4> QED
          BY <4>1, <4>3 DEF Sending, Sends
      <3>4. \A i, j \in DOMAIN list' : list'[i].seq = list'[j].seq => i = j
        BY <3>1 DEF SourceInv
      <3> QED
        BY <2>2, <2>3, <2>4, <3>3, <3>4 DEF SourceInv, Sending, Sends
    <2> QED
      BY <2>6, <2>7
  <1> QED
    BY <1>1, <1>2

-----------------------------------------------------------------------------
(* MqttPublish implements AckedDelivery.                                    *)

Kept == {s \in 1..MaxIssued : Waiting(s)}

LEMMA WaitingRange ==
    ASSUME BaseInv, SourceInv, NEW s, Waiting(s)
    PROVE  s \in 1..MaxIssued
  <1>1. PICK i \in DOMAIN list_pub_wait_ack : list_pub_wait_ack[i].seq = s
    BY DEF Waiting
  <1>2. s \in accepted \/ \E p \in Publishers : Sending(p, s)
    BY <1>1 DEF SourceInv
  <1>3. s \in 1..issued
    <2>1. ASSUME NEW p \in Publishers, Sending(p, s) PROVE s \in 1..issued
      <3>1. Active(p) /\ req[p].qos = 1 /\ req[p].seq = s
        BY <2>1 DEF Sending, Sends, Active
      <3> QED
        BY <3>1 DEF BaseInv, ReqInv
    <2> QED
      BY <1>2, <2>1 DEF BaseInv, ReqInv
  <1> QED
    BY <1>3, BoundsAssumption DEF SourceInv, BaseInv, TypeOK

\* iotx_mc_push_pubInfo_to takes the message.
LEMMA PushKeeps ==
    ASSUME BaseInv, SourceInv, NEW p \in Publishers, Pushes(p)
    PROVE  AD!Keep(req[p].seq) /\ req[p].seq \in 1..MaxIssued
  <1> DEFINE list == list_pub_wait_ack
             m == req[p].seq
  <1>0. /\ list \in Seq(Node) /\ Len(list) \in Nat /\ DOMAIN list = 1..Len(list)
    BY LenProperties DEF BaseInv, TypeOK
  <1>1. /\ pc[p] = "locked" /\ req[p].qos = 1 /\ list' = Append(list, NewNode(p))
        /\ accepted' = accepted /\ received' = received
    BY DEF Pushes, PubPush, ghostVars
  <1>2. NewNode(p) \in Node /\ NewNode(p).seq = m /\ NewNode(p).node_state = "NORMAL"
    BY <1>1 DEF NewNode, BaseInv, ReqInv, TypeOK, Request, Node, Active
  <1>3. /\ Len(list') = Len(list) + 1 /\ list' \in Seq(Node)
        /\ \A i \in 1..Len(list) : list'[i] = list[i]
        /\ list'[Len(list) + 1] = NewNode(p)
    BY <1>0, <1>1, <1>2, AppendProperties
  <1>4. DOMAIN list' = 1..(Len(list) + 1)
    BY <1>0, <1>3, LenProperties
  <1>5. \A s : Waiting(s)' <=> Waiting(s) \/ s = m
    <2>1. ASSUME NEW s, Waiting(s)' PROVE Waiting(s) \/ s = m
      BY <1>0, <1>2, <1>3, <1>4, <2>1 DEF Waiting
    <2>2. ASSUME NEW s, Waiting(s) PROVE Waiting(s)'
      BY <1>0, <1>3, <1>4, <2>2 DEF Waiting
    <2>3. ASSUME NEW s, s = m PROVE Waiting(s)'
      <3>1. /\ Len(list) + 1 \in DOMAIN list' /\ list'[Len(list) + 1].seq = m
            /\ list'[Len(list) + 1].node_state = "NORMAL"
        BY <1>0, <1>2, <1>3, <1>4
      <3> QED
        BY <2>3, <3>1 DEF Waiting
    <2> QED
      BY <2>1, <2>2, <2>3
  <1>6. m \in (1..issued) \ accepted /\ m \in 1..MaxIssued
    <2>1. m \in (1..issued) \ accepted
      BY <1>1 DEF BaseInv, ReqInv, Active
    <2> QED
      BY <2>1, BoundsAssumption DEF SourceInv, BaseInv, TypeOK
  <1>7. ~Waiting(m)
    BY <1>1, FreshSeq DEF Waiting
  <1>8. m \notin received
    BY <1>6 DEF SourceInv
  <1>9. Kept' = Kept \cup {m}
    BY <1>5, <1>6 DEF Kept
  <1> QED
    BY <1>1, <1>6, <1>7, <1>8, <1>9 DEF AD!Keep, Kept

\* Only a push makes a message wait.
LEMMA WaitsSinceBefore ==
    ASSUME BaseInv, Next, \A p \in Publishers : ~Pushes(p), NEW s, Waiting(s)'
    PROVE  Waiting(s)
  BY NodeOrigin DEF Waiting

\* A publish that cannot be written takes its message back.
LEMMA FailGivesUp ==
    ASSUME BaseInv, SourceInv, Next, NEW p \in Publishers, PubSendFail(p), req[p].qos = 1
    PROVE  AD!GiveUp(req[p].seq) /\ req[p].seq \in 1..MaxIssued
  <1> DEFINE list == list_pub_wait_ack
             m == req[p].seq
  <1>0. Len(list) \in Nat /\ DOMAIN list = 1..Len(list)
    BY LenProperties DEF BaseInv, TypeOK
  <1>1. /\ pc[p] = "send" /\ pc' = [pc EXCEPT ![p] = "neterr"] /\ Active(p)
        /\ accepted' = accepted /\ received' = received
    BY DEF PubSendFail, Active
  <1>2. Len(list) \in DOMAIN list /\ list[Len(list)].seq = m /\ list[Len(list)].node_state = "NORMAL"
    BY <1>0, <1>1 DEF BaseInv, NodeInv
  <1>3. \A q \in Publishers : ~Pushes(q)
    <2> SUFFICES ASSUME NEW q \in Publishers, Pushes(q) PROVE FALSE
      OBVIOUS
    <2>1. pc[q] = "locked" /\ pc' = [pc EXCEPT ![q] = "send"]
      BY DEF Pushes, PubPush
    <2> QED
      BY <1>1, <2>1 DEF BaseInv, TypeOK
  <1>4. PICK f \in [DOMAIN list' -> DOMAIN list] :
           \A i \in DOMAIN list' : list'[i].seq = list[f[i]].seq /\ f[i] # Len(list)
    BY <1>3, NodeOrigin
  <1>5. ASSUME NEW s, s = m PROVE ~Waiting(s)'
    BY <1>2, <1>4, <1>5 DEF Waiting, SourceInv
  <1>6. ASSUME NEW s, Waiting(s), s # m PROVE Waiting(s)'
    <2>1. ~YMask
      <3>1. lock_list_pub = p
        BY <1>1 DEF BaseInv, LockInv
      <3> QED
        BY <3>1, PublishersAssumption DEF YMask
    <2>2. ASSUME NEW q \in Publishers, PubSendFail(q), req[q].seq = s PROVE FALSE
      <3>1. pc[q] = "send"
        BY <2>2 DEF PubSendFail
      <3>2. q = p
        BY <1>1, <3>1 DEF BaseInv, LockInv
      <3> QED
        BY <1>6, <2>2, <3>2
    <2> QED
      BY <1>6, <2>1, <2>2, ListStep
  <1>7. \A s : Waiting(s)' <=> Waiting(s) /\ s # m
    BY <1>3, <1>5, <1>6, WaitsSinceBefore
  <1>8. Waiting(m) /\ m \in 1..MaxIssued
    <2>1. Waiting(m)
      BY <1>2 DEF Waiting
    <2> QED
      BY <2>1, WaitingRange
  <1>9. m \notin accepted /\ m \notin received
    BY <1>1 DEF BaseInv, ReqInv, SourceInv
  <1>10. Kept' = Kept \ {m}
    BY <1>7 DEF Kept
  <1> QED
    BY <1>1, <1>8, <1>9, <1>10 DEF AD!GiveUp, Kept

\* A PUBACK settles the message it names, or nothing.
LEMMA MaskSettles ==
    ASSUME BaseInv, SourceInv, DeliveryInv, Next, YMask
    PROVE  \/ AD!Settle(y_ack) /\ y_ack \in 1..MaxIssued
           \/ UNCHANGED AD!vars
  <1> DEFINE list == list_pub_wait_ack
             m == y_ack
  <1>0. list \in Seq(Node) /\ Len(list) \in Nat /\ DOMAIN list = 1..Len(list)
        /\ \A i \in 1..Len(list) : list[i] \in Node
    BY LenProperties, ElementOfSeq DEF BaseInv, TypeOK
  <1>1. /\ y_pc = "mask" /\ lock_list_pub = "none" /\ pc' = pc
        /\ accepted' = accepted /\ received' = received /\ list' = Mask(list, m)
    BY DEF YMask, pubVars, ghostVars
  <1>2. \A i \in DOMAIN list : list[i].id = list[i].seq
    BY DEF DeliveryInv, IdsAreSeqs
  <1>3. \A q \in Publishers : ~Pushes(q) /\ ~PubSendFail(q)
    <2> SUFFICES ASSUME NEW q \in Publishers, Pushes(q) \/ PubSendFail(q) PROVE FALSE
      OBVIOUS
    <2>1. pc[q] \in {"locked", "send"}
      BY DEF Pushes, PubPush, PubSendFail
    <2> QED
      BY <1>1, <2>1, PublishersAssumption DEF BaseInv, LockInv
  <1>4. ASSUME NEW s, s = m PROVE ~Waiting(s)'
    <2>1. /\ list' \in Seq(Node) /\ Len(list') = Len(list)
          /\ \A i \in 1..Len(list) :
               list'[i] = IF list[i].id = m THEN [list[i] EXCEPT !.node_state = "INVALID"] ELSE list[i]
      BY <1>0, <1>1, MaskProperties
    <2>2. DOMAIN list' = DOMAIN list
      BY <1>0, <2>1, LenProperties
    <2>3. \A i \in DOMAIN list : list'[i].seq = m => list'[i].node_state = "INVALID"
      BY <1>0, <1>2, <2>1 DEF Node
    <2> QED
      BY <1>4, <2>2, <2>3 DEF Waiting
  <1>5. ASSUME NEW s, Waiting(s), s # m PROVE Waiting(s)'
    BY <1>2, <1>3, <1>5, ListStep
  <1>6. \A s : Waiting(s)' <=> Waiting(s) /\ s # m
    BY <1>3, <1>4, <1>5, WaitsSinceBefore
  <1>7. CASE ~Waiting(m)
    <2>1. \A s : Waiting(s)' <=> Waiting(s)
      BY <1>6, <1>7
    <2>2. Kept' = Kept
      BY <2>1 DEF Kept
    <2> QED
      BY <1>1, <2>2 DEF AD!vars, Kept
  <1>8. CASE Waiting(m)
    <2>1. m \in 1..MaxIssued
      BY <1>8, WaitingRange
    <2>2. m \in accepted \/ \E p \in Publishers : Sending(p, m)
      BY <1>8 DEF Waiting, SourceInv
    <2>3. m \notin DeadSeqs
      <3>1. ASSUME NEW p \in Publishers, Sending(p, m) PROVE Active(p) /\ req[p].seq = m
        BY <3>1 DEF Sending, Sends, Active
      <3> QED
        BY <2>2, <3>1 DEF DeadSeqs
    <2>4. m \in received
      BY <1>1, <2>1, <2>3 DEF DeliveryInv, GoodAcks, CONNACK
    <2>5. Kept' = Kept \ {m}
      BY <1>6 DEF Kept
    <2> QED
      BY <1>1, <1>8, <2>1, <2>4, <2>5 DEF AD!Settle, Kept
  <1> QED
    BY <1>7, <1>8

\* Every other step keeps what is kept; it accepts, delivers, or does nothing.
LEMMA OtherStep ==
    ASSUME BaseInv, SourceInv, DeliveryInv, Next, ~YMask,
           \A p \in Publishers : ~Pushes(p) /\ ~(PubSendFail(p) /\ req[p].qos = 1)
    PROVE  \/ \E m \in 1..MaxIssued : AD!Accept(m) \/ AD!Deliver(m)
           \/ UNCHANGED AD!vars
  <1>1. \A s : Waiting(s)' <=> Waiting(s)
    BY WaitsSinceBefore, ListStep
  <1>2. Kept' = Kept
    BY <1>1 DEF Kept
  <1>3. ASSUME NEW p \in Publishers, PubSendOk(p), Sending(p, req[p].seq),
               accepted' = accepted \cup {req[p].seq}
        PROVE  AD!Accept(req[p].seq) /\ req[p].seq \in 1..MaxIssued
    <2> DEFINE m == req[p].seq
    <2>0. Len(list_pub_wait_ack) \in Nat /\ DOMAIN list_pub_wait_ack = 1..Len(list_pub_wait_ack)
      BY LenProperties DEF BaseInv, TypeOK
    <2>1. Waiting(m)
      BY <1>3, <2>0 DEF Sending, Sends, BaseInv, NodeInv, Waiting
    <2>2. m \notin accepted
      BY <1>3 DEF Sending, Sends, BaseInv, ReqInv, Active
    <2>3. m \in 1..MaxIssued
      BY <2>1, WaitingRange
    <2>4. received' = received
      BY <1>3 DEF PubSendOk
    <2> QED
      BY <1>2, <1>3, <2>1, <2>2, <2>3, <2>4 DEF AD!Accept, Kept
  <1>4. ASSUME accepted' = accepted, BrokerPublish, 1 \in DOMAIN up, ~up[1].torn, up[1].id # 0,
               received' = received \cup {up[1].seq}, up[1].seq \notin received
        PROVE  AD!Deliver(up[1].seq) /\ up[1].seq \in 1..MaxIssued
    <2> DEFINE m == up[1].seq
    <2>1. m \in accepted
      BY <1>4 DEF SourceInv
    <2>2. Waiting(m)
      BY <1>4, <2>1 DEF DeliveryInv, NotForgotten
    <2>3. m \in 1..MaxIssued
      BY <2>2, WaitingRange
    <2> QED
      BY <1>2, <1>4, <2>1, <2>2, <2>3 DEF AD!Deliver, Kept
  <1>5. ASSUME accepted' = accepted, received' = received PROVE UNCHANGED AD!vars
    BY <1>2, <1>5 DEF AD!vars, Kept
  <1>6. CASE accepted' = accepted
    <2>1. CASE received' = received
      BY <1>5, <1>6, <2>1
    <2>2. CASE received' # received
      BY <1>4, <1>6, <2>2, GhostStep
    <2> QED
      BY <2>1, <2>2
  <1>7. CASE accepted' # accepted
    BY <1>3, <1>7, GhostStep
  <1> QED
    BY <1>6, <1>7

LEMMA StepRefines ==
    ASSUME BaseInv, SourceInv, DeliveryInv, [Next]_vars
    PROVE  AD!Next \/ UNCHANGED AD!vars
  <1>1. CASE UNCHANGED vars
    BY <1>1 DEF vars, clientVars, ghostVars, AD!vars, Waiting
  <1>2. ASSUME NEW p \in Publishers, Pushes(p) PROVE AD!Next
    BY <1>2, PushKeeps DEF AD!Next
  <1>3. ASSUME Next, NEW p \in Publishers, PubSendFail(p), req[p].qos = 1 PROVE AD!Next
    BY <1>3, FailGivesUp DEF AD!Next
  <1>4. CASE Next /\ YMask
    BY <1>4, MaskSettles DEF AD!Next
  <1>5. CASE Next /\ ~YMask /\ \A p \in Publishers : ~Pushes(p) /\ ~(PubSendFail(p) /\ req[p].qos = 1)
    BY <1>5, OtherStep DEF AD!Next
  <1> QED
    BY <1>1, <1>2, <1>3, <1>4, <1>5

\* MqttPublish implements AckedDelivery (the safety half of ReliableDelivery): every step
\* of any number of publishers, of the yield thread, the network and the broker is a step of
\* the abstract delivery or none.  The broker receives only what a publish returned success
\* for, and a message leaves the republish list only when its call has failed or the broker
\* has it.  It holds as long as packet ids do not wrap and junk decodes to no PUBACK.
THEOREM Refinement ==
    ASSUME MaxIssued <= PACKET_ID_MAX, JunkIds = {}
    PROVE  Spec => AD!Spec
  <1>1. Init => AD!Init
    <2> SUFFICES ASSUME Init PROVE AD!Init
      OBVIOUS
    <2>1. DOMAIN list_pub_wait_ack = {} /\ accepted = {} /\ received = {}
      BY DEF Init
    <2> QED
      BY <2>1 DEF AD!Init, Waiting
  <1>2. IInv /\ SourceInv => BaseInv /\ DeliveryInv
    BY PacketIdAssumption, BoundsAssumption DEF IInv, NoWrap, SourceInv, BaseInv, TypeOK
  <1>3. IInv /\ SourceInv /\ [Next]_vars => [AD!Next]_(AD!vars)
    BY <1>2, StepRefines
  <1>4. IInv => BaseInv
    BY DEF IInv
  <1> QED
    BY <1>1, <1>3, <1>4, IInvInit, IInvNext, SourceInit, SourceNext, PTL DEF Spec, AD!Spec
=============================================================================
