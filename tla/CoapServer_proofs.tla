-------------------------- MODULE CoapServer_proofs --------------------------
(***************************************************************************)
(* Proofs about CoapServer, for any number of threads, peers, messages and *)
(* retransmissions: the type invariant, the single outcome of a message,   *)
(* what a timeout means, which node the cycle may use after it has been    *)
(* freed, and when CoAPMessageId_gen repeats an id.                        *)
(***************************************************************************)
EXTENDS CoapServer, LinkedList_proofs

\* How far the id counter has moved since a message drew its id: one step for each draw,
\* from MESSAGE_ID_MAX to 1 at the wrap; the draw at the wrap leaves it at 1.
DrawInv ==
    \A i \in DOMAIN msgs :
        LET e == draws - msgs[i].draw IN
        msgs[i].draw > 0 =>
            /\ e >= 0
            /\ e < MESSAGE_ID_MAX - 1 =>
                  \/ message_id = msgs[i].id + 1 + e
                  \/ message_id = msgs[i].id + 1 + e - MESSAGE_ID_MAX
                  \/ msgs[i].id = 1 /\ message_id = 1 + e

\* No handler has heard of message n yet, and no cancel has removed it.
Open(n) == result[n].ok = 0 /\ result[n].timeout = 0 /\ n \notin cancelled

\* Message n has been acknowledged, or another one with its id.
Heard(n) == \E m \in acks : msgs[m].id = msgs[n].id

\* What a node has left of its retransmissions, and has had, makes up COAP_MAX_RETRY_COUNT,
\* unless an acknowledgement stopped them.
Budget(x) ==
    /\ sent[x.n] + x.retrans_count <= RETRY_MAX + 1
    /\ x.acked => Heard(x.n)
    /\ ~x.acked /\ ~Kept(x.n) => sent[x.n] + x.retrans_count = RETRY_MAX + 1

\* A message is in the list once, and is open while it is there.
ListInv ==
    /\ \A i, j \in DOMAIN sendlist : sendlist[i].n = sendlist[j].n => i = j
    /\ \A i \in DOMAIN sendlist :
          /\ sendlist[i].n \in DOMAIN msgs /\ sendlist[i].n \notin cancelled
          /\ ~Kept(sendlist[i].n) => Open(sendlist[i].n)
          /\ Budget(sendlist[i])

\* A message on its way into the list: it was written once, and nobody else has it.
OnItsWay(n) ==
    /\ n \in DOMAIN msgs /\ msgs[n].kind # "non"
    /\ ~Stored(n) /\ sent[n] = 1 /\ Open(n)

AppInv ==
    /\ \A a \in Apps : pc[a] = "add" => OnItsWay(cur[a].n) /\ cur[a].n # c_node.n
    /\ \A a, b \in Apps : pc[a] = "add" /\ pc[b] = "add" /\ cur[a].n = cur[b].n => a = b

\* The node that the cycle works on is in no other hands, unless it is kept.
CycleInv ==
    /\ c_pc \notin {"respadd", "deliver", "expired", "call"} => c_node = Nobody
    /\ c_pc = "respadd" => OnItsWay(c_node.n)
    /\ c_pc \in {"deliver", "expired", "call"} =>
          c_node.n \in DOMAIN msgs /\ (~Kept(c_node.n) => ~Stored(c_node.n) /\ Open(c_node.n))
    /\ c_pc \in {"expired", "call"} =>
          c_node.retrans_count = 0 /\ ~Kept(c_node.n) /\ Budget(c_node)

\* What the handlers have heard.
ResultInv ==
    /\ acks \subseteq DOMAIN msgs /\ cancelled \subseteq DOMAIN msgs
    /\ \A n \in Numbers \ DOMAIN msgs : result[n].ok = 0 /\ result[n].timeout = 0
    /\ \A n \in DOMAIN msgs : Kept(n) => result[n].timeout = 0
    /\ \A n \in DOMAIN msgs : result[n].timeout > 0 => sent[n] = RETRY_MAX + 1 \/ Heard(n)

\* No handler of a message that is not kept hears of success and of a timeout.
Single ==
    \A n \in DOMAIN msgs : ~Kept(n) => result[n].ok = 0 \/ result[n].timeout = 0

\* A request whose resource is observed has had its first response, or is having it.
ObsInv ==
    \A n \in obsclient :
        n \in DOMAIN msgs /\ (result[n].ok > 0 \/ (c_pc = "deliver" /\ c_node.n = n))

IInv ==
    /\ TypeOK /\ DrawInv /\ IdsRepeatOnlyAtWrap
    /\ ListInv /\ AppInv /\ CycleInv /\ ResultInv /\ Single /\ ObsInv

-----------------------------------------------------------------------------
(* Facts about the lists, and what a step leaves alone.                       *)

LEMMA MsgFacts ==
    ASSUME TypeOK
    PROVE  /\ Len(msgs) \in Nat /\ DOMAIN msgs = 1..Len(msgs) /\ DOMAIN msgs \subseteq Numbers
           /\ \A i \in DOMAIN msgs : msgs[i] \in Message
           /\ Room => Len(msgs) + 1 \in Numbers /\ Len(msgs) + 1 \notin DOMAIN msgs
  <1>1. msgs \in Seq(Message) /\ Len(msgs) <= MaxMessages /\ MaxMessages \in Nat
    BY CoapBoundsAssumption DEF TypeOK
  <1>2. Len(msgs) \in Nat /\ DOMAIN msgs = 1..Len(msgs) /\ \A i \in DOMAIN msgs : msgs[i] \in Message
    BY <1>1
  <1> QED
    BY <1>1, <1>2 DEF Numbers, Room

LEMMA ListFacts ==
    ASSUME TypeOK
    PROVE  /\ Len(sendlist) \in Nat /\ DOMAIN sendlist = 1..Len(sendlist)
           /\ \A i \in DOMAIN sendlist : sendlist[i] \in Node
  BY DEF TypeOK

LEMMA NodeFacts ==
    ASSUME NEW x \in Node
    PROVE  x.n \in Numbers /\ x.retrans_count \in 0..RETRY_MAX /\ x.acked \in BOOLEAN /\ x.late \in BOOLEAN
  BY DEF Node

LEMMA RequestFacts ==
    NoRequest \in Observer
  BY AppsAssumption DEF NoRequest, Observer

LEMMA EmptyLists ==
    << >> \in Seq(Node) /\ << >> \in Seq(Observer) /\ << >> \in Seq(Message)
    /\ Len(<< >>) = 0
  BY EmptySeq

LEMMA DrawFrame ==
    ASSUME DrawInv, IdsRepeatOnlyAtWrap, UNCHANGED idVars
    PROVE  DrawInv' /\ IdsRepeatOnlyAtWrap'
  BY DEF DrawInv, IdsRepeatOnlyAtWrap, idVars

\* A message is appended to the history.
LEMMA MsgsGrow ==
    ASSUME TypeOK, NEW m \in Message, msgs' = Append(msgs, m)
    PROVE  /\ msgs' \in Seq(Message) /\ Len(msgs') = Len(msgs) + 1
           /\ DOMAIN msgs' = 1..(Len(msgs) + 1) /\ DOMAIN msgs' = DOMAIN msgs \cup {Len(msgs) + 1}
           /\ \A i \in DOMAIN msgs : msgs'[i] = msgs[i]
           /\ msgs'[Len(msgs) + 1] = m
  BY DEF TypeOK

\* A new message disturbs no other one.
LEMMA Grow ==
    ASSUME IInv, Room, NEW m \in Message, msgs' = Append(msgs, m),
           \A n \in DOMAIN msgs : sent'[n] = sent[n],
           UNCHANGED <<sendlist, acks, result, cancelled>>
    PROVE  ListInv' /\ ResultInv' /\ Single'
  <1> USE DEF IInv
  <1>1. /\ DOMAIN msgs' = DOMAIN msgs \cup {Len(msgs) + 1}
        /\ \A i \in DOMAIN msgs : msgs'[i] = msgs[i]
    BY MsgsGrow
  <1>2. Len(msgs) + 1 \in Numbers /\ Len(msgs) + 1 \notin DOMAIN msgs /\ DOMAIN msgs \subseteq Numbers
    BY MsgFacts
  <1>3. ListInv'
    BY <1>1 DEF ListInv, ResultInv, Open, Heard, Budget, Kept
  <1>4. ResultInv'
    BY <1>1, <1>2 DEF ResultInv, Heard, Kept
  <1>5. Single'
    BY <1>1, <1>2 DEF Single, ResultInv, Kept
  <1> QED
    BY <1>3, <1>4, <1>5

\* The message that comes next is in nobody's hands.
LEMMA NextIsFresh ==
    ASSUME IInv, Room
    PROVE  /\ ~Stored(Len(msgs) + 1) /\ Open(Len(msgs) + 1)
           /\ \A a \in Apps : pc[a] = "add" => cur[a].n # Len(msgs) + 1
           /\ c_node.n # Len(msgs) + 1
  <1>1. Len(msgs) + 1 \in Numbers /\ Len(msgs) + 1 \notin DOMAIN msgs /\ Len(msgs) + 1 # 0
    BY MsgFacts DEF IInv
  <1>2. ~Stored(Len(msgs) + 1)
    BY <1>1 DEF IInv, ListInv, Stored
  <1>3. Open(Len(msgs) + 1)
    BY <1>1 DEF IInv, ResultInv, Open
  <1>4. \A a \in Apps : pc[a] = "add" => cur[a].n # Len(msgs) + 1
    BY <1>1 DEF IInv, AppInv, OnItsWay
  <1>5. c_node.n # Len(msgs) + 1
    BY <1>1 DEF IInv, CycleInv, OnItsWay, Nobody
  <1> QED
    BY <1>2, <1>3, <1>4, <1>5

\* The counter and the e-th id drawn after id x, around the wrap.
Follows(MAX, mid, x, e) ==
    e < MAX - 1 => \/ mid = x + 1 + e
                   \/ mid = x + 1 + e - MAX
                   \/ x = 1 /\ mid = 1 + e

LEMMA CounterMoves ==
    ASSUME NEW MAX \in Nat, MAX > 1, NEW mid \in 1..MAX, NEW x \in 1..MAX, NEW e \in Nat,
           Follows(MAX, mid, x, e)
    PROVE  /\ Follows(MAX, IF mid = MAX THEN 1 ELSE mid + 1, x, e + 1)
           /\ (IF mid = MAX THEN 1 ELSE mid) = x => e + 1 >= MAX - 1 \/ (e = 0 /\ x = 1)
  BY DEF Follows

\* CoAPMessageId_gen: the counter moves on, and the new id is compared with every
\* id drawn before.
LEMMA Drawn ==
    ASSUME TypeOK, DrawInv, IdsRepeatOnlyAtWrap, NEW kind \in Kinds, NEW r \in Remotes,
           CreateMessage(kind, r)
    PROVE  /\ DrawInv' /\ IdsRepeatOnlyAtWrap'
           /\ message_id' \in Ids /\ draws' \in Nat
           /\ NewMessageId \in Ids
  <1> DEFINE m == [id |-> NewMessageId, kind |-> kind, remote |-> r, draw |-> draws + 1]
             MAX == MESSAGE_ID_MAX
  <1>1. MAX \in Nat /\ MAX > 1 /\ message_id \in 1..MAX /\ draws \in Nat
    BY IdAssumption DEF TypeOK, Ids
  <1>2. NewMessageId \in Ids /\ message_id' \in Ids /\ draws' = draws + 1
    BY <1>1 DEF NewMessageId, NextMessageId, CreateMessage, Ids
  <1>3. m \in Message /\ msgs' = Append(msgs, m)
    BY <1>1, <1>2 DEF Message, CreateMessage
  <1>4. m.id = NewMessageId /\ m.draw = draws + 1
    OBVIOUS
  <1> HIDE DEF m
  <1>5. /\ DOMAIN msgs' = DOMAIN msgs \cup {Len(msgs) + 1}
        /\ \A i \in DOMAIN msgs : msgs'[i] = msgs[i]
        /\ msgs'[Len(msgs) + 1] = m
    BY <1>3, MsgsGrow
  <1>6. \A i \in DOMAIN msgs : msgs[i].id \in 1..MAX /\ msgs[i].draw \in Nat
    BY MsgFacts DEF Message, Ids
  <1>7. message_id' = IF message_id = MAX THEN 1 ELSE message_id + 1
    BY DEF CreateMessage, NextMessageId
  <1>8. m.id = IF message_id = MAX THEN 1 ELSE message_id
    BY <1>4 DEF NewMessageId
  <1> HIDE DEF MAX
  <1>9. ASSUME NEW i \in DOMAIN msgs, msgs[i].draw > 0
        PROVE  /\ draws - msgs[i].draw \in Nat
               /\ Follows(MAX, message_id, msgs[i].id, draws - msgs[i].draw)
    BY <1>1, <1>6, <1>9 DEF DrawInv, Follows, MAX
  <1>10. ASSUME NEW i \in DOMAIN msgs, msgs[i].draw > 0
         PROVE  LET e == draws - msgs[i].draw IN
                /\ e \in Nat /\ draws' - msgs[i].draw = e + 1
                /\ Follows(MAX, message_id', msgs[i].id, e + 1)
                /\ m.id = msgs[i].id => e + 1 >= MAX - 1 \/ (e = 0 /\ msgs[i].id = 1)
    <2> DEFINE e == draws - msgs[i].draw
    <2>1. e \in Nat /\ Follows(MAX, message_id, msgs[i].id, e) /\ draws' - msgs[i].draw = e + 1
      BY <1>1, <1>2, <1>6, <1>9, <1>10
    <2> HIDE DEF e
    <2>2. /\ Follows(MAX, message_id', msgs[i].id, e + 1)
          /\ m.id = msgs[i].id => e + 1 >= MAX - 1 \/ (e = 0 /\ msgs[i].id = 1)
      BY <1>1, <1>6, <1>7, <1>8, <2>1, CounterMoves
    <2> QED
      BY <2>1, <2>2 DEF e
  <1>11. DrawInv'
    <2> SUFFICES ASSUME NEW i \in DOMAIN msgs', msgs'[i].draw > 0
                 PROVE  /\ draws' - msgs'[i].draw >= 0
                        /\ Follows(MAX, message_id', msgs'[i].id, draws' - msgs'[i].draw)
      BY DEF DrawInv, Follows, MAX
    <2>1. CASE i \in DOMAIN msgs
      BY <1>5, <1>10, <2>1
    <2>2. CASE i = Len(msgs) + 1
      <3>1. msgs'[i] = m /\ draws' - m.draw = 0
        BY <1>1, <1>2, <1>4, <1>5, <2>2
      <3>2. Follows(MAX, message_id', m.id, 0)
        BY <1>1, <1>7, <1>8 DEF Follows
      <3> QED
        BY <3>1, <3>2
    <2> QED
      BY <1>5, <2>1, <2>2
  <1>12. IdsRepeatOnlyAtWrap'
    <2> SUFFICES ASSUME NEW i \in DOMAIN msgs', NEW j \in DOMAIN msgs',
                        msgs'[i].draw > 0, msgs'[i].draw < msgs'[j].draw, msgs'[i].id = msgs'[j].id
                 PROVE  \/ msgs'[j].draw - msgs'[i].draw >= MAX - 1
                        \/ msgs'[j].draw = msgs'[i].draw + 1 /\ msgs'[i].id = 1
      BY DEF IdsRepeatOnlyAtWrap, MAX
    <2>1. CASE i \in DOMAIN msgs /\ j \in DOMAIN msgs
      BY <1>5, <2>1 DEF IdsRepeatOnlyAtWrap, MAX
    <2>2. CASE i \in DOMAIN msgs /\ j = Len(msgs) + 1
      <3>1. msgs'[i] = msgs[i] /\ msgs'[j] = m /\ m.draw = draws' /\ m.id = msgs[i].id
            /\ msgs[i].draw \in Nat /\ msgs[i].draw > 0
        BY <1>2, <1>4, <1>5, <1>6, <2>2
      <3>2. /\ draws - msgs[i].draw \in Nat /\ draws' - msgs[i].draw = (draws - msgs[i].draw) + 1
            /\ \/ (draws - msgs[i].draw) + 1 >= MAX - 1
               \/ draws - msgs[i].draw = 0 /\ msgs[i].id = 1
        BY <1>10, <2>2, <3>1
      <3> QED
        BY <1>1, <1>2, <3>1, <3>2
    <2>3. CASE i = Len(msgs) + 1
      <3>1. msgs'[j].draw <= draws + 1
        BY <1>1, <1>4, <1>5, <1>6, <1>9
      <3> QED
        BY <1>1, <1>4, <1>5, <1>6, <2>3, <3>1
    <2> QED
      BY <1>5, <2>1, <2>2, <2>3
  <1> QED
    BY <1>1, <1>2, <1>11, <1>12

\* CoAPMessage_send up to the list.
LEMMA TransmitInv ==
    ASSUME IInv, NEW a \in Apps, NEW kind \in {"con", "kept", "note", "non"}, NEW r \in Remotes,
           NEW pos \in Nat \ {0}, pc[a] # "add", Transmit(a, kind, r, pos),
           UNCHANGED <<sendlist, acks, result, cancelled, c_pc, c_node>>
    PROVE  /\ message_id' \in Ids /\ draws' \in Nat
           /\ msgs' \in Seq(Message) /\ Len(msgs') <= MaxMessages
           /\ pc' \in [Apps -> {"idle", "add", "notify", "join"}]
           /\ cur' \in [Apps -> [n : 0..MaxMessages, pos : Nat \ {0}]]
           /\ sent' \in [Numbers -> 0..RETRY_MAX + 1]
           /\ DrawInv' /\ IdsRepeatOnlyAtWrap'
           /\ ListInv' /\ AppInv' /\ CycleInv' /\ ResultInv' /\ Single'
           /\ DOMAIN msgs \subseteq DOMAIN msgs'
  <1> USE DEF IInv
  <1> DEFINE n == Len(msgs) + 1
             m == [id |-> NewMessageId, kind |-> kind, remote |-> r, draw |-> draws + 1]
  <1>1. kind \in Kinds /\ CreateMessage(kind, r)
    BY DEF Kinds, Transmit
  <1>2. /\ DrawInv' /\ IdsRepeatOnlyAtWrap' /\ message_id' \in Ids /\ draws' \in Nat
        /\ NewMessageId \in Ids
    BY <1>1, Drawn
  <1>3. m \in Message /\ msgs' = Append(msgs, m) /\ Room
    BY <1>1, <1>2 DEF CreateMessage, Message, TypeOK
  <1>4. m.kind = kind
    OBVIOUS
  <1> HIDE DEF m
  <1>5. /\ msgs' \in Seq(Message) /\ Len(msgs') = n
        /\ DOMAIN msgs' = DOMAIN msgs \cup {n}
        /\ \A i \in DOMAIN msgs : msgs'[i] = msgs[i]
        /\ msgs'[n] = m
    BY <1>3, MsgsGrow
  <1>6. n \in Numbers /\ n \notin DOMAIN msgs /\ DOMAIN msgs \subseteq Numbers /\ n <= MaxMessages
    BY <1>3, MsgFacts, CoapBoundsAssumption DEF Numbers
  <1>7. /\ ~Stored(n) /\ Open(n) /\ c_node.n # n
        /\ \A b \in Apps : pc[b] = "add" => cur[b].n # n
    BY <1>3, NextIsFresh
  <1>8. PICK written \in BOOLEAN :
         /\ sent' = [sent EXCEPT ![n] = IF written THEN 1 ELSE 0]
         /\ IF written /\ kind # "non"
              THEN /\ pc' = [pc EXCEPT ![a] = "add"]
                   /\ cur' = [cur EXCEPT ![a] = [n |-> n, pos |-> pos]]
              ELSE AfterSend(a, pos)
    BY Zenon DEF Transmit
  <1> HIDE DEF n
  <1>9. sent' \in [Numbers -> 0..RETRY_MAX + 1] /\ \A k \in DOMAIN msgs : sent'[k] = sent[k]
    <2>1. 0 \in 0..RETRY_MAX + 1 /\ 1 \in 0..RETRY_MAX + 1
      BY CoapBoundsAssumption
    <2>2. (IF written THEN 1 ELSE 0) \in 0..RETRY_MAX + 1
      BY <2>1
    <2> QED
      BY <1>6, <1>8, <2>2 DEF TypeOK
  <1>10. ListInv' /\ ResultInv' /\ Single'
    BY <1>3, <1>9, Grow
  <1>11. /\ pc' \in [Apps -> {"idle", "add", "notify", "join"}]
         /\ cur' \in [Apps -> [n : 0..MaxMessages, pos : Nat \ {0}]]
         /\ \A b \in Apps \ {a} : pc'[b] = pc[b] /\ cur'[b] = cur[b]
         /\ pc'[a] = "add" => cur'[a].n = n /\ sent'[n] = 1 /\ kind # "non"
    <2>1. n \in 0..MaxMessages /\ 0 \in 0..MaxMessages
      BY <1>6, CoapBoundsAssumption DEF Numbers
    <2>0. /\ [n |-> n, pos |-> pos] \in [n : 0..MaxMessages, pos : Nat \ {0}]
          /\ [n |-> 0, pos |-> pos] \in [n : 0..MaxMessages, pos : Nat \ {0}]
          /\ [n |-> n, pos |-> pos].n = n
      BY <2>1
    <2>2. CASE written /\ kind # "non"
      <3>1. pc' = [pc EXCEPT ![a] = "add"] /\ cur' = [cur EXCEPT ![a] = [n |-> n, pos |-> pos]]
        BY <1>8, <2>2
      <3>2. sent'[n] = 1
        BY <1>6, <1>8, <2>2 DEF TypeOK
      <3> QED
        BY <2>0, <2>2, <3>1, <3>2 DEF TypeOK
    <2>3. CASE ~(written /\ kind # "non")
      <3>1. AfterSend(a, pos)
        BY <1>8, <2>3
      <3> QED
        BY <2>0, <3>1 DEF TypeOK, AfterSend
    <2> QED
      BY <2>2, <2>3
  <1>12. AppInv'
    <2>1. ASSUME NEW b \in Apps, pc'[b] = "add"
          PROVE  OnItsWay(cur[b].n)' /\ cur'[b].n # c_node.n
      <3>1. CASE b = a
        <4>1. cur'[a].n = n /\ sent'[n] = 1 /\ msgs'[n].kind # "non"
          BY <1>4, <1>5, <1>11, <2>1, <3>1
        <4> QED
          BY <1>5, <1>7, <3>1, <4>1 DEF OnItsWay, Open, Stored
      <3>2. CASE b # a
        <4>1. OnItsWay(cur[b].n) /\ cur[b].n # c_node.n /\ cur'[b] = cur[b]
          BY <1>11, <2>1, <3>2 DEF AppInv
        <4> QED
          BY <1>5, <1>9, <4>1 DEF OnItsWay, Open, Stored
      <3> QED
        BY <3>1, <3>2
    <2>2. ASSUME NEW b \in Apps, NEW d \in Apps, pc'[b] = "add", pc'[d] = "add", cur'[b].n = cur'[d].n
          PROVE  b = d
      BY <1>7, <1>11, <2>2 DEF AppInv
    <2> QED
      BY <2>1, <2>2 DEF AppInv
  <1>13. CycleInv'
    BY <1>5, <1>9 DEF CycleInv, OnItsWay, Open, Stored, Kept, Budget, Heard, ResultInv
  <1> QED
    BY <1>2, <1>5, <1>6, <1>9, <1>10, <1>11, <1>12, <1>13

\* A walk that unlinks nodes: the rest of the list is as it was.
LEMMA Shrinks ==
    ASSUME IInv, NEW f \in [DOMAIN sendlist' -> DOMAIN sendlist],
           \A j \in DOMAIN sendlist' : sendlist'[j] = sendlist[f[j]],
           \A j, k \in DOMAIN sendlist' : f[j] = f[k] => j = k,
           UNCHANGED <<msgs, sent>>, acks \subseteq acks',
           \A j \in DOMAIN sendlist' :
              sendlist'[j].n \notin cancelled' /\ result'[sendlist'[j].n] = result[sendlist'[j].n]
    PROVE  /\ ListInv'
           /\ \A k : (\E j \in DOMAIN sendlist' : sendlist'[j].n = k) => Stored(k)
  <1> USE DEF IInv
  <1>1. \A j, k \in DOMAIN sendlist' : sendlist'[j].n = sendlist'[k].n => j = k
    BY DEF ListInv
  <1>2. ASSUME NEW j \in DOMAIN sendlist'
        PROVE  /\ sendlist'[j].n \in DOMAIN msgs'
               /\ ~Kept(sendlist[j].n)' => Open(sendlist[j].n)'
               /\ Budget(sendlist[j])'
    <2>1. PICK i \in DOMAIN sendlist : i = f[j] /\ sendlist'[j] = sendlist[i]
      BY <1>2
    <2>2. /\ sendlist[i].n \in DOMAIN msgs
          /\ ~Kept(sendlist[i].n) => Open(sendlist[i].n)
          /\ Budget(sendlist[i])
      BY DEF ListInv
    <2> QED
      BY <1>2, <2>1, <2>2 DEF Kept, Open, Budget, Heard
  <1>3. ASSUME NEW k, NEW j \in DOMAIN sendlist', sendlist'[j].n = k
        PROVE  Stored(k)
    BY <1>3 DEF Stored
  <1> QED
    BY <1>1, <1>2, <1>3 DEF ListInv

\* The node of a stored message is at one place.
LEMMA StoredPlace ==
    ASSUME IInv, NEW n, Stored(n)
    PROVE  /\ Place(n) \in DOMAIN sendlist /\ sendlist[Place(n)].n = n
           /\ \A i \in DOMAIN sendlist : sendlist[i].n = n => i = Place(n)
  <1>1. Place(n) \in DOMAIN sendlist /\ sendlist[Place(n)].n = n
    BY DEF Stored, Place
  <1> QED
    BY <1>1 DEF IInv, ListInv

\* CoAPMessageList_add.
LEMMA AddFacts ==
    ASSUME IInv, NEW n, OnItsWay(n), ListAdd(n), UNCHANGED <<msgs, sent, acks, result, cancelled>>
    PROVE  /\ sendlist' \in Seq(Node) /\ Len(sendlist') <= SEND_MAX /\ ListInv'
           /\ \A k : (\E j \in DOMAIN sendlist' : sendlist'[j].n = k) => Stored(k) \/ k = n
  <1> USE DEF IInv
  <1>1. CASE UNCHANGED sendlist
    <2>1. sendlist' \in Seq(Node) /\ Len(sendlist') <= SEND_MAX
      BY <1>1 DEF TypeOK
    <2>2. ListInv'
      BY <1>1 DEF ListInv, Kept, Open, Budget, Heard
    <2> QED
      BY <1>1, <2>1, <2>2 DEF Stored
  <1>2. CASE Len(sendlist) < SEND_MAX /\ sendlist' = Append(sendlist, NewNode(n))
    <2>1. n \in Numbers /\ n \in DOMAIN msgs /\ msgs[n] \in Message
      BY MsgFacts DEF OnItsWay
    <2>2. NewNode(n) \in Node
      <3>1. (IF Confirmable(n) THEN RETRY_MAX ELSE 0) \in 0..RETRY_MAX
        BY CoapBoundsAssumption
      <3> QED
        BY <2>1, <3>1 DEF NewNode, Node
    <2>3. /\ NewNode(n).n = n /\ ~NewNode(n).acked
          /\ NewNode(n).retrans_count = IF Confirmable(n) THEN RETRY_MAX ELSE 0
      BY DEF NewNode
    <2>4. ~Kept(n) => Confirmable(n)
      BY <2>1 DEF OnItsWay, Kept, Confirmable, Message, Kinds
    <2>5. Budget(NewNode(n))
      BY <2>3, <2>4, CoapBoundsAssumption DEF Budget, OnItsWay
    <2> DEFINE x == NewNode(n)
    <2> HIDE DEF x
    <2>6. /\ sendlist' \in Seq(Node) /\ Len(sendlist') = Len(sendlist) + 1
          /\ DOMAIN sendlist' = DOMAIN sendlist \cup {Len(sendlist) + 1}
          /\ \A i \in DOMAIN sendlist : sendlist'[i] = sendlist[i]
          /\ sendlist'[Len(sendlist) + 1] = x
      BY <1>2, <2>2 DEF TypeOK, x
    <2>7. x.n = n /\ Budget(x)
      BY <2>3, <2>5 DEF x
    <2>8. Open(n) /\ n \notin cancelled
      BY DEF OnItsWay, Open
    <2>9. ASSUME NEW i \in DOMAIN sendlist'
          PROVE  sendlist'[i].n \in DOMAIN msgs /\ sendlist'[i].n \notin cancelled
                 /\ (~Kept(sendlist'[i].n) => Open(sendlist'[i].n)) /\ Budget(sendlist'[i])
      BY <2>1, <2>6, <2>7, <2>8, <2>9 DEF ListInv
    <2>10. \A i, j \in DOMAIN sendlist' : sendlist'[i].n = sendlist'[j].n => i = j
      BY <2>6, <2>7 DEF ListInv, OnItsWay, Stored
    <2>11. ListInv'
      BY <2>9, <2>10 DEF ListInv, Kept, Open, Budget, Heard
    <2> QED
      BY <1>2, <2>6, <2>7, <2>11, ListFacts, CoapBoundsAssumption DEF Stored
  <1> QED
    BY <1>1, <1>2 DEF ListAdd

\* A handler hears of message n: one that is kept, one that was open, or one that has not
\* timed out.
LEMMA Told ==
    ASSUME IInv, NEW n \in DOMAIN msgs, NEW r \in [ok : Nat, timeout : Nat],
           Kept(n) \/ Open(n) \/ r.timeout = 0,
           \/ r.ok = result[n].ok + 1 /\ r.timeout = result[n].timeout
           \/ /\ r.ok = result[n].ok /\ r.timeout = result[n].timeout + 1
              /\ ~Kept(n) /\ (sent[n] = RETRY_MAX + 1 \/ Heard(n)),
           result' = [result EXCEPT ![n] = r],
           UNCHANGED <<msgs, sent, cancelled>>, acks \subseteq acks', acks' \subseteq DOMAIN msgs
    PROVE  /\ result' \in [Numbers -> [ok : Nat, timeout : Nat]]
           /\ \A k \in Numbers \ {n} : result'[k] = result[k]
           /\ ResultInv' /\ Single'
  <1> USE DEF IInv
  <1>1. n \in Numbers /\ DOMAIN msgs \subseteq Numbers
    BY MsgFacts
  <1>2. /\ result' \in [Numbers -> [ok : Nat, timeout : Nat]] /\ result'[n] = r
        /\ \A k \in Numbers \ {n} : result'[k] = result[k]
    BY <1>1 DEF TypeOK
  <1>3. ResultInv'
    <2>1. \A k \in Numbers \ DOMAIN msgs : result'[k].ok = 0 /\ result'[k].timeout = 0
      BY <1>2 DEF ResultInv
    <2>2. \A k \in DOMAIN msgs : Kept(k) => result'[k].timeout = 0
      BY <1>1, <1>2 DEF ResultInv
    <2>3. ASSUME NEW k \in DOMAIN msgs, result'[k].timeout > 0
          PROVE  sent[k] = RETRY_MAX + 1 \/ Heard(k)
      BY <1>1, <1>2, <2>3 DEF ResultInv
    <2> QED
      BY <2>1, <2>2, <2>3 DEF ResultInv, Heard, Kept
  <1>4. Single'
    <2> SUFFICES ASSUME NEW k \in DOMAIN msgs, ~Kept(k)
                 PROVE  result'[k].ok = 0 \/ result'[k].timeout = 0
      BY DEF Single, Kept
    <2>1. CASE k = n
      BY <1>1, <1>2, <2>1 DEF Open
    <2>2. CASE k # n
      BY <1>1, <1>2, <2>2 DEF Single
    <2> QED
      BY <2>1, <2>2
  <1> QED
    BY <1>2, <1>3, <1>4

\* What the handler of a message is told is a result.
LEMMA OneMore ==
    ASSUME TypeOK, NEW n \in Numbers
    PROVE  /\ result[n] \in [ok : Nat, timeout : Nat]
           /\ [result[n] EXCEPT !.ok = @ + 1] \in [ok : Nat, timeout : Nat]
           /\ [result[n] EXCEPT !.ok = @ + 1].ok = result[n].ok + 1
           /\ [result[n] EXCEPT !.ok = @ + 1].timeout = result[n].timeout
           /\ [result[n] EXCEPT !.timeout = @ + 1] \in [ok : Nat, timeout : Nat]
           /\ [result[n] EXCEPT !.timeout = @ + 1].timeout = result[n].timeout + 1
           /\ [result[n] EXCEPT !.timeout = @ + 1].ok = result[n].ok
  <1>1. result[n] \in [ok : Nat, timeout : Nat]
    BY DEF TypeOK
  <1>2. \A r \in [ok : Nat, timeout : Nat] :
           /\ [r EXCEPT !.ok = @ + 1] \in [ok : Nat, timeout : Nat]
           /\ [r EXCEPT !.ok = @ + 1].ok = r.ok + 1
           /\ [r EXCEPT !.ok = @ + 1].timeout = r.timeout
           /\ [r EXCEPT !.timeout = @ + 1] \in [ok : Nat, timeout : Nat]
           /\ [r EXCEPT !.timeout = @ + 1].timeout = r.timeout + 1
           /\ [r EXCEPT !.timeout = @ + 1].ok = r.ok
    OBVIOUS
  <1> QED
    BY <1>1, <1>2

\* A set of observed requests stays finite and within its bound.
LEMMA ObserveFacts ==
    ASSUME TypeOK, NEW n \in Numbers, NEW observe \in BOOLEAN, ObsClientAdd(n, observe)
    PROVE  obsclient' \subseteq Numbers /\ Cardinality(obsclient') <= OBS_MAX
  <1>1. MaxMessages \in Nat /\ OBS_MAX \in Nat /\ 1 \in Int /\ MaxMessages \in Int
    BY CoapBoundsAssumption
  <1>2. IsFiniteSet(Numbers)
    BY <1>1, FS_Interval DEF Numbers
  <1>3. obsclient \subseteq Numbers /\ Cardinality(obsclient) <= OBS_MAX
    BY DEF TypeOK
  <1>4. IsFiniteSet(obsclient) /\ Cardinality(obsclient) \in Nat
    BY <1>2, <1>3, FS_Subset, FS_CardinalityType
  <1>5. obsclient \ {n} \subseteq obsclient
    OBVIOUS
  <1>6. Cardinality(obsclient \ {n}) \in Nat /\ Cardinality(obsclient \ {n}) <= Cardinality(obsclient)
    BY <1>4, <1>5, FS_Subset, FS_CardinalityType
  <1>7. Cardinality(obsclient \cup {n}) = Cardinality(obsclient)
        \/ Cardinality(obsclient \cup {n}) = Cardinality(obsclient) + 1
    BY <1>4, FS_AddElement
  <1>8. CASE obsclient' = obsclient \ {n}
    BY <1>1, <1>3, <1>4, <1>6, <1>8
  <1>9. CASE Cardinality(obsclient) < OBS_MAX /\ obsclient' = obsclient \cup {n}
    BY <1>1, <1>3, <1>4, <1>7, <1>9
  <1>10. CASE UNCHANGED obsclient
    BY <1>3, <1>10
  <1> QED
    BY <1>8, <1>9, <1>10 DEF ObsClientAdd

\* The fields of a node that a step may write.
LEMMA NodeWrites ==
    ASSUME NEW x \in Node
    PROVE  /\ [x EXCEPT !.acked = TRUE] \in Node /\ [x EXCEPT !.late = TRUE] \in Node
           /\ [x EXCEPT !.acked = TRUE].n = x.n /\ [x EXCEPT !.acked = TRUE].acked
           /\ [x EXCEPT !.acked = TRUE].retrans_count = x.retrans_count
  BY DEF Node

\* What Retansmit does to one node.
LEMMA CountDownFacts ==
    ASSUME NEW x \in Node
    PROVE  /\ CountDown(x) \in Node /\ CountDown(x).n = x.n /\ CountDown(x).acked = x.acked
           /\ CountDown(x).retrans_count = IF Due(x) THEN x.retrans_count - 1 ELSE x.retrans_count
           /\ Due(x) => x.retrans_count > 0
  <1>1. x.retrans_count \in 0..RETRY_MAX /\ RETRY_MAX \in Nat
    BY CoapBoundsAssumption DEF Node
  <1>2. CASE Due(x)
    <2>1. x.retrans_count - 1 \in 0..RETRY_MAX /\ x.retrans_count > 0
      BY <1>1, <1>2 DEF Due
    <2>2. CountDown(x) = [x EXCEPT !.retrans_count = x.retrans_count - 1, !.late = FALSE]
      BY <1>2 DEF CountDown
    <2> QED
      BY <1>2, <2>1, <2>2 DEF Node
  <1>3. CASE ~Due(x)
    BY <1>3 DEF CountDown
  <1> QED
    BY <1>2, <1>3

\* The cycle has told the handler of its node, which nobody else has unless it is kept.
LEMMA ToldAside ==
    ASSUME IInv, c_pc \in {"deliver", "call"},
           \A k \in Numbers \ {c_node.n} : result'[k] = result[k],
           UNCHANGED <<msgs, sent, acks, cancelled, sendlist, pc, cur>>, c_node' = Nobody
    PROVE  ListInv' /\ AppInv'
  <1> USE DEF IInv
  <1>1. DOMAIN msgs \subseteq Numbers /\ 0 \notin DOMAIN msgs
    BY MsgFacts
  <1>2. ListInv'
    <2>1. ASSUME NEW i \in DOMAIN sendlist, ~Kept(sendlist[i].n)
          PROVE  Open(sendlist[i].n)'
      <3>1. sendlist[i].n \in DOMAIN msgs /\ Open(sendlist[i].n) /\ Stored(sendlist[i].n)
        BY <2>1 DEF ListInv, Stored
      <3>2. sendlist[i].n # c_node.n
        BY <2>1, <3>1 DEF CycleInv
      <3> QED
        BY <1>1, <3>1, <3>2 DEF Open
    <2> QED
      BY <2>1 DEF ListInv, Kept, Budget, Heard
  <1>3. AppInv'
    <2>1. ASSUME NEW b \in Apps, pc[b] = "add"
          PROVE  OnItsWay(cur[b].n)' /\ cur[b].n # c_node'.n
      <3>1. OnItsWay(cur[b].n) /\ cur[b].n # c_node.n
        BY <2>1 DEF AppInv
      <3>2. cur[b].n \in Numbers /\ cur[b].n # 0
        BY <1>1, <3>1 DEF OnItsWay
      <3> QED
        BY <3>1, <3>2 DEF OnItsWay, Open, Stored, Nobody
    <2> QED
      BY <2>1 DEF AppInv
  <1> QED
    BY <1>2, <1>3

\* list_del of one node of the send list.
LEMMA Unlink ==
    ASSUME TypeOK, NEW i \in DOMAIN sendlist, sendlist' = RemoveAt(sendlist, i)
    PROVE  /\ sendlist' \in Seq(Node) /\ Len(sendlist') <= SEND_MAX
           /\ \E f \in [DOMAIN sendlist' -> DOMAIN sendlist] :
                /\ \A j \in DOMAIN sendlist' : sendlist'[j] = sendlist[f[j]] /\ f[j] # i
                /\ \A j, k \in DOMAIN sendlist' : f[j] = f[k] => j = k
  <1>1. sendlist \in Seq(Node) /\ Len(sendlist) \in Nat /\ Len(sendlist) <= SEND_MAX /\ SEND_MAX \in Nat
    BY CoapBoundsAssumption DEF TypeOK
  <1> DEFINE s == RemoveAt(sendlist, i)
  <1>2. /\ s \in Seq(Node) /\ Len(s) < Len(sendlist)
        /\ \E f \in [DOMAIN s -> DOMAIN sendlist] :
             /\ \A j \in DOMAIN s : s[j] = sendlist[f[j]] /\ f[j] # i
             /\ \A j, k \in DOMAIN s : f[j] = f[k] => j = k
    BY <1>1, RemoveAtMap, Zenon
  <1> HIDE DEF s
  <1>3. sendlist' = s
    BY DEF s
  <1>4. Len(s) \in Nat
    BY <1>2
  <1>5. sendlist' \in Seq(Node) /\ Len(sendlist') <= SEND_MAX
    BY <1>1, <1>2, <1>3, <1>4
  <1>6. \E f \in [DOMAIN sendlist' -> DOMAIN sendlist] :
           /\ \A j \in DOMAIN sendlist' : sendlist'[j] = sendlist[f[j]] /\ f[j] # i
           /\ \A j, k \in DOMAIN sendlist' : f[j] = f[k] => j = k
    BY <1>2, <1>3, Zenon
  <1> QED
    BY <1>5, <1>6

LEMMA ReadFacts ==
    ASSUME TypeOK, Read
    PROVE  arrivals' \in 0..MaxArrivals
  <1>1. arrivals \in 0..MaxArrivals /\ MaxArrivals \in Nat
    BY CoapBoundsAssumption DEF TypeOK
  <1>2. arrivals < MaxArrivals /\ arrivals' = arrivals + 1
    BY DEF Read
  <1> QED
    BY <1>1, <1>2

\* What is observed only shrinks, and nothing that was told is taken back.
LEMMA ObsFrame ==
    ASSUME ObsInv, obsclient' \subseteq obsclient, DOMAIN msgs \subseteq DOMAIN msgs',
           \A n \in DOMAIN msgs : result[n].ok > 0 => result'[n].ok > 0,
           c_pc = "deliver" => UNCHANGED <<c_pc, c_node>>
    PROVE  ObsInv'
  BY DEF ObsInv

\* A request that is not kept and whose resource is observed is in no other hands.
LEMMA ObservedAside ==
    ASSUME IInv, c_pc = "process", NEW n \in obsclient, ~Kept(n)
    PROVE  ~Stored(n) /\ result[n].ok > 0 /\ result[n].timeout = 0
  <1> USE DEF IInv
  <1>1. n \in DOMAIN msgs /\ result[n].ok > 0
    BY DEF ObsInv
  <1>2. ~Stored(n)
    BY <1>1 DEF ListInv, Open, Stored
  <1>3. result[n].timeout = 0
    BY <1>1 DEF Single
  <1> QED
    BY <1>1, <1>2, <1>3

-----------------------------------------------------------------------------
(* Every step keeps the invariant.                                          *)

LEMMA AppSendInv ==
    ASSUME IInv, NEW a \in Apps, NEW r \in Remotes, NEW kind \in {"con", "kept"}, AppSend(a, kind, r)
    PROVE  IInv'
  <1> USE DEF IInv
  <1>a. /\ Transmit(a, kind, r, 1) /\ 1 \in Nat \ {0} /\ kind \in {"con", "kept", "note", "non"}
        /\ UNCHANGED <<sendlist, acks, result, cancelled, c_pc, c_node>>
        /\ pc[a] # "add"
    BY DEF AppSend, listVars, cycleVars
  <1>t. /\ message_id' \in Ids /\ draws' \in Nat
        /\ msgs' \in Seq(Message) /\ Len(msgs') <= MaxMessages
        /\ pc' \in [Apps -> {"idle", "add", "notify", "join"}]
        /\ cur' \in [Apps -> [n : 0..MaxMessages, pos : Nat \ {0}]]
        /\ sent' \in [Numbers -> 0..RETRY_MAX + 1]
        /\ DrawInv' /\ IdsRepeatOnlyAtWrap'
        /\ ListInv' /\ AppInv' /\ CycleInv' /\ ResultInv' /\ Single'
        /\ DOMAIN msgs \subseteq DOMAIN msgs'
    BY <1>a, TransmitInv
  <1>1. TypeOK'
    <2>1. Len(msgs) + 1 \in 0..MaxMessages
      BY <1>a, MsgFacts, CoapBoundsAssumption DEF Transmit, CreateMessage, Room
    <2>2. last' \in [Apps -> 0..MaxMessages]
      BY <2>1 DEF AppSend, TypeOK
    <2> QED
      BY <1>t, <2>2 DEF AppSend, TypeOK, idVars, listVars, mutexVars, appVars, cycleVars, lifeVars, ghostVars
  <1>2. DrawInv' /\ IdsRepeatOnlyAtWrap'
    BY <1>t
  <1>3. ListInv'
    BY <1>t
  <1>4. AppInv'
    BY <1>t
  <1>5. CycleInv'
    BY <1>t
  <1>6. ResultInv'
    BY <1>t
  <1>7. Single'
    BY <1>t
  <1>8. ObsInv'
    BY <1>a, <1>t, ObsFrame DEF AppSend, listVars
  <1> QED
    BY <1>1, <1>2, <1>3, <1>4, <1>5, <1>6, <1>7, <1>8

LEMMA AppAddInv ==
    ASSUME IInv, NEW a \in Apps, AppAdd(a)
    PROVE  IInv'
  <1> USE DEF IInv
  <1>a. pc[a] = "add" /\ OnItsWay(cur[a].n) /\ cur[a].n # c_node.n
    BY DEF AppAdd, AppInv
  <1>b. /\ sendlist' \in Seq(Node) /\ Len(sendlist') <= SEND_MAX /\ ListInv'
        /\ \A k : (\E j \in DOMAIN sendlist' : sendlist'[j].n = k) => Stored(k) \/ k = cur[a].n
    BY <1>a, AddFacts DEF AppAdd, idVars, ghostVars
  <1>c. /\ pc' \in [Apps -> {"idle", "add", "notify", "join"}] /\ pc'[a] # "add"
        /\ cur' \in [Apps -> [n : 0..MaxMessages, pos : Nat \ {0}]]
        /\ \A b \in Apps \ {a} : pc'[b] = pc[b] /\ cur'[b] = cur[b]
    <2>1. 0 \in 0..MaxMessages /\ cur[a].pos \in Nat \ {0}
      BY CoapBoundsAssumption DEF TypeOK
    <2>2. [n |-> 0, pos |-> cur[a].pos] \in [n : 0..MaxMessages, pos : Nat \ {0}]
      BY <2>1
    <2> QED
      BY <2>2 DEF AppAdd, AfterSend, TypeOK
  <1>d. UNCHANGED <<msgs, sent, acks, result, cancelled, c_pc, c_node>>
    BY DEF AppAdd, idVars, ghostVars, cycleVars
  <1>1. TypeOK'
    BY <1>b, <1>c, SMTT(30) DEF AppAdd, TypeOK, idVars, listVars, mutexVars, appVars, cycleVars, lifeVars, ghostVars
  <1>2. DrawInv' /\ IdsRepeatOnlyAtWrap'
    BY DrawFrame DEF AppAdd, ListAdd, AfterSend, idVars
  <1>3. ListInv'
    BY <1>b
  <1>4. AppInv'
    <2>1. ASSUME NEW b \in Apps, pc'[b] = "add"
          PROVE  OnItsWay(cur[b].n)' /\ cur'[b].n # c_node'.n
      <3>1. b # a /\ pc[b] = "add" /\ cur'[b] = cur[b]
        BY <1>c, <2>1
      <3>2. OnItsWay(cur[b].n) /\ cur[b].n # c_node.n /\ cur[b].n # cur[a].n
        BY <1>a, <3>1 DEF AppInv
      <3> QED
        BY <1>b, <1>d, <3>1, <3>2 DEF OnItsWay, Open, Stored
    <2> QED
      BY <1>c, <2>1 DEF AppInv
  <1>5. CycleInv'
    <2>1. ~Stored(c_node.n) => ~Stored(c_node.n)'
      BY <1>a, <1>b, <1>d DEF Stored
    <2> QED
      BY <1>d, <2>1 DEF CycleInv, OnItsWay, Open, Kept, Budget, Heard
  <1>6. ResultInv'
    BY MsgFacts, ListFacts DEF AppAdd, ListAdd, AfterSend, ResultInv, Heard, Kept, idVars, listVars, mutexVars, appVars, cycleVars, lifeVars, ghostVars
  <1>7. Single'
    BY MsgFacts, ListFacts DEF AppAdd, ListAdd, AfterSend, Single, Kept, idVars, listVars, mutexVars, appVars, cycleVars, lifeVars, ghostVars
  <1>8. ObsInv'
    BY ObsFrame DEF AppAdd, Read, idVars, listVars, mutexVars, appVars, cycleVars, lifeVars, ghostVars
  <1> QED
    BY <1>1, <1>2, <1>3, <1>4, <1>5, <1>6, <1>7, <1>8

LEMMA AppCancelInv ==
    ASSUME IInv, NEW a \in Apps, AppCancel(a)
    PROVE  IInv'
  <1> USE DEF IInv
  <1> DEFINE id == msgs[last[a]].id
             gone == {x.n : x \in WithId(id)}
  <1>a. sendlist \in Seq(Node)
    BY DEF TypeOK
  <1>b. /\ sendlist' = Without(sendlist, WithId(id)) /\ cancelled' = cancelled \cup gone
        /\ UNCHANGED <<msgs, sent, acks, result, pc, cur, c_pc, c_node>>
    BY DEF AppCancel, CancelId, idVars, cycleVars
  <1>c. PICK f \in [DOMAIN sendlist' -> DOMAIN sendlist] :
           /\ \A j \in DOMAIN sendlist' : sendlist'[j] = sendlist[f[j]] /\ sendlist[f[j]] \notin WithId(id)
           /\ \A j, k \in DOMAIN sendlist' : f[j] = f[k] => j = k
    BY <1>a, <1>b, WithoutMap
  <1>d. \A k \in gone : Stored(k) /\ k \in DOMAIN msgs
    BY DEF WithId, PlacesOfId, Stored, ListInv
  <1>e. ASSUME NEW j \in DOMAIN sendlist'
        PROVE  sendlist'[j].n \notin gone
    <2> SUFFICES ASSUME NEW k \in PlacesOfId(id), sendlist[k].n = sendlist[f[j]].n
                 PROVE  FALSE
      BY <1>c, <1>e DEF WithId
    <2>1. k \in DOMAIN sendlist /\ sendlist[k] \in WithId(id)
      BY DEF PlacesOfId, WithId
    <2>2. k = f[j]
      BY <1>c, <1>e, <2>1 DEF ListInv
    <2> QED
      BY <1>c, <1>e, <2>1, <2>2
  <1> HIDE DEF gone, id
  <1>f. /\ ListInv'
        /\ \A k : (\E j \in DOMAIN sendlist' : sendlist'[j].n = k) => Stored(k)
    <2>1. ASSUME NEW j \in DOMAIN sendlist'
          PROVE  sendlist'[j].n \notin cancelled' /\ result'[sendlist'[j].n] = result[sendlist'[j].n]
      BY <1>b, <1>c, <1>e, <2>1 DEF ListInv
    <2>2. UNCHANGED <<msgs, sent>> /\ acks \subseteq acks'
      BY <1>b
    <2>3. /\ \A j \in DOMAIN sendlist' : sendlist'[j] = sendlist[f[j]]
          /\ \A j, k \in DOMAIN sendlist' : f[j] = f[k] => j = k
      BY <1>c
    <2> QED
      BY <2>1, <2>2, <2>3, Shrinks
  <1>g. \A k : ~Stored(k) /\ Open(k) => Open(k)' /\ ~Stored(k)'
    BY <1>b, <1>d, <1>f DEF Open, Stored
  <1>1. TypeOK'
    <2>1. sendlist' \in Seq(Node) /\ Len(sendlist') <= SEND_MAX
      BY <1>a, <1>b, WithoutProperties, CoapBoundsAssumption DEF TypeOK
    <2>2. cancelled' \subseteq Numbers
      BY <1>b, <1>d, MsgFacts DEF TypeOK
    <2>3. last' \in [Apps -> 0..MaxMessages]
      BY CoapBoundsAssumption DEF AppCancel, TypeOK
    <2> QED
      BY <2>1, <2>2, <2>3 DEF AppCancel, TypeOK, idVars, listVars, mutexVars, appVars, cycleVars, lifeVars, ghostVars
  <1>2. DrawInv' /\ IdsRepeatOnlyAtWrap'
    BY DrawFrame DEF AppCancel, CancelId, idVars
  <1>3. ListInv'
    BY <1>f
  <1>4. AppInv'
    BY <1>b, <1>g DEF AppInv, OnItsWay
  <1>5. CycleInv'
    BY <1>b, <1>g DEF CycleInv, OnItsWay, Kept, Budget, Heard
  <1>6. ResultInv'
    BY <1>b, <1>d DEF ResultInv, Kept, Heard
  <1>7. Single'
    BY MsgFacts, ListFacts DEF AppCancel, CancelId, Single, Kept, idVars, listVars, mutexVars, appVars, cycleVars, lifeVars, ghostVars
  <1>8. ObsInv'
    BY ObsFrame DEF AppCancel, Read, idVars, listVars, mutexVars, appVars, cycleVars, lifeVars, ghostVars
  <1> QED
    BY <1>1, <1>2, <1>3, <1>4, <1>5, <1>6, <1>7, <1>8

LEMMA NotifyInv ==
    ASSUME IInv, NEW a \in Apps, Notify(a)
    PROVE  IInv'
  <1> USE DEF IInv
  <1>1. TypeOK'
    BY MsgFacts, ListFacts, CoapBoundsAssumption DEF Notify, TypeOK, idVars, listVars, mutexVars, appVars, cycleVars, lifeVars, ghostVars
  <1>2. DrawInv' /\ IdsRepeatOnlyAtWrap'
    BY DrawFrame DEF Notify, idVars
  <1>3. ListInv'
    BY MsgFacts, ListFacts DEF Notify, ListInv, Open, Heard, Budget, Kept, idVars, listVars, mutexVars, appVars, cycleVars, lifeVars, ghostVars
  <1>4. AppInv'
    BY MsgFacts, ListFacts DEF Notify, TypeOK, AppInv, Open, OnItsWay, Stored, idVars, listVars, mutexVars, appVars, cycleVars, lifeVars, ghostVars
  <1>5. CycleInv'
    BY MsgFacts, ListFacts DEF Notify, CycleInv, Open, Heard, Budget, OnItsWay, Stored, Kept, idVars, listVars, mutexVars, appVars, cycleVars, lifeVars, ghostVars
  <1>6. ResultInv'
    BY MsgFacts, ListFacts DEF Notify, ResultInv, Heard, Kept, idVars, listVars, mutexVars, appVars, cycleVars, lifeVars, ghostVars
  <1>7. Single'
    BY MsgFacts, ListFacts DEF Notify, Single, Kept, idVars, listVars, mutexVars, appVars, cycleVars, lifeVars, ghostVars
  <1>8. ObsInv'
    BY ObsFrame DEF Notify, Read, idVars, listVars, mutexVars, appVars, cycleVars, lifeVars, ghostVars
  <1> QED
    BY <1>1, <1>2, <1>3, <1>4, <1>5, <1>6, <1>7, <1>8

LEMMA NotifyNextInv ==
    ASSUME IInv, NEW a \in Apps, NotifyNext(a)
    PROVE  IInv'
  <1> USE DEF IInv
  <1> DEFINE obs == obsserver[cur[a].pos]
             kind == IF obs.con THEN "note" ELSE "non"
  <1>a. obsserver \in Seq(Observer) /\ cur[a].pos \in Nat \ {0}
    BY DEF TypeOK
  <1>b. /\ Transmit(a, kind, obs.remote, cur[a].pos + 1) /\ kind \in {"con", "kept", "note", "non"}
        /\ UNCHANGED <<sendlist, acks, result, cancelled, c_pc, c_node>>
        /\ pc[a] # "add"
    BY DEF NotifyNext, listVars, cycleVars
  <1>c. obs \in Observer
    BY <1>a DEF NotifyNext
  <1>d. obs.remote \in Remotes
    BY <1>c DEF Observer, TypeOK
  <1>e. cur[a].pos + 1 \in Nat \ {0}
    BY <1>a
  <1> HIDE DEF kind, obs
  <1>t. /\ message_id' \in Ids /\ draws' \in Nat
        /\ msgs' \in Seq(Message) /\ Len(msgs') <= MaxMessages
        /\ pc' \in [Apps -> {"idle", "add", "notify", "join"}]
        /\ cur' \in [Apps -> [n : 0..MaxMessages, pos : Nat \ {0}]]
        /\ sent' \in [Numbers -> 0..RETRY_MAX + 1]
        /\ DrawInv' /\ IdsRepeatOnlyAtWrap'
        /\ ListInv' /\ AppInv' /\ CycleInv' /\ ResultInv' /\ Single'
        /\ DOMAIN msgs \subseteq DOMAIN msgs'
    BY <1>b, <1>d, <1>e, TransmitInv
  <1>1. TypeOK'
    BY <1>t, SMTT(30) DEF NotifyNext, TypeOK, idVars, listVars, mutexVars, appVars, cycleVars, lifeVars, ghostVars
  <1>2. DrawInv' /\ IdsRepeatOnlyAtWrap'
    BY <1>t
  <1>3. ListInv'
    BY <1>t
  <1>4. AppInv'
    BY <1>t
  <1>5. CycleInv'
    BY <1>t
  <1>6. ResultInv'
    BY <1>t
  <1>7. Single'
    BY <1>t
  <1>8. ObsInv'
    BY <1>b, <1>t, ObsFrame DEF NotifyNext, listVars
  <1> QED
    BY <1>1, <1>2, <1>3, <1>4, <1>5, <1>6, <1>7, <1>8

LEMMA NotifyEndInv ==
    ASSUME IInv, NEW a \in Apps, NotifyEnd(a)
    PROVE  IInv'
  <1> USE DEF IInv
  <1>1. TypeOK'
    <2>1. cur' \in [Apps -> [n : 0..MaxMessages, pos : Nat \ {0}]]
      <3>1. \A x \in [n : 0..MaxMessages, pos : Nat \ {0}] :
               [x EXCEPT !.pos = 1] \in [n : 0..MaxMessages, pos : Nat \ {0}]
        OBVIOUS
      <3>2. cur' = [cur EXCEPT ![a] = [cur[a] EXCEPT !.pos = 1]]
            /\ cur \in [Apps -> [n : 0..MaxMessages, pos : Nat \ {0}]]
        BY DEF NotifyEnd, TypeOK
      <3> QED
        BY <3>1, <3>2
    <2>2. pc' \in [Apps -> {"idle", "add", "notify", "join"}]
      BY DEF NotifyEnd, TypeOK
    <2> QED
      BY <2>1, <2>2 DEF NotifyEnd, TypeOK, idVars, listVars, mutexVars, appVars, cycleVars, lifeVars, ghostVars
  <1>2. DrawInv' /\ IdsRepeatOnlyAtWrap'
    BY DrawFrame DEF NotifyEnd, idVars
  <1>3. ListInv'
    BY MsgFacts, ListFacts DEF NotifyEnd, ListInv, Open, Heard, Budget, Kept, idVars, listVars, mutexVars, appVars, cycleVars, lifeVars, ghostVars
  <1>4. AppInv'
    BY MsgFacts, ListFacts DEF NotifyEnd, TypeOK, AppInv, Open, OnItsWay, Stored, idVars, listVars, mutexVars, appVars, cycleVars, lifeVars, ghostVars
  <1>5. CycleInv'
    BY MsgFacts, ListFacts DEF NotifyEnd, CycleInv, Open, Heard, Budget, OnItsWay, Stored, Kept, idVars, listVars, mutexVars, appVars, cycleVars, lifeVars, ghostVars
  <1>6. ResultInv'
    BY MsgFacts, ListFacts DEF NotifyEnd, ResultInv, Heard, Kept, idVars, listVars, mutexVars, appVars, cycleVars, lifeVars, ghostVars
  <1>7. Single'
    BY MsgFacts, ListFacts DEF NotifyEnd, Single, Kept, idVars, listVars, mutexVars, appVars, cycleVars, lifeVars, ghostVars
  <1>8. ObsInv'
    BY ObsFrame DEF NotifyEnd, Read, idVars, listVars, mutexVars, appVars, cycleVars, lifeVars, ghostVars
  <1> QED
    BY <1>1, <1>2, <1>3, <1>4, <1>5, <1>6, <1>7, <1>8

LEMMA DeinitInv ==
    ASSUME IInv, NEW a \in Apps, Deinit(a)
    PROVE  IInv'
  <1> USE DEF IInv
  <1>1. TypeOK'
    BY MsgFacts, ListFacts, CoapBoundsAssumption DEF Deinit, TypeOK, idVars, listVars, mutexVars, appVars, cycleVars, lifeVars, ghostVars
  <1>2. DrawInv' /\ IdsRepeatOnlyAtWrap'
    BY DrawFrame DEF Deinit, idVars
  <1>3. ListInv'
    BY MsgFacts, ListFacts DEF Deinit, ListInv, Open, Heard, Budget, Kept, idVars, listVars, mutexVars, appVars, cycleVars, lifeVars, ghostVars
  <1>4. AppInv'
    BY MsgFacts, ListFacts DEF Deinit, TypeOK, AppInv, Open, OnItsWay, Stored, idVars, listVars, mutexVars, appVars, cycleVars, lifeVars, ghostVars
  <1>5. CycleInv'
    BY MsgFacts, ListFacts DEF Deinit, CycleInv, Open, Heard, Budget, OnItsWay, Stored, Kept, idVars, listVars, mutexVars, appVars, cycleVars, lifeVars, ghostVars
  <1>6. ResultInv'
    BY MsgFacts, ListFacts DEF Deinit, ResultInv, Heard, Kept, idVars, listVars, mutexVars, appVars, cycleVars, lifeVars, ghostVars
  <1>7. Single'
    BY MsgFacts, ListFacts DEF Deinit, Single, Kept, idVars, listVars, mutexVars, appVars, cycleVars, lifeVars, ghostVars
  <1>8. ObsInv'
    BY ObsFrame DEF Deinit, Read, idVars, listVars, mutexVars, appVars, cycleVars, lifeVars, ghostVars
  <1> QED
    BY <1>1, <1>2, <1>3, <1>4, <1>5, <1>6, <1>7, <1>8

LEMMA DeinitFreeInv ==
    ASSUME IInv, NEW a \in Apps, DeinitFree(a)
    PROVE  IInv'
  <1> USE DEF IInv
  <1>1. TypeOK'
    <2>1. /\ sendlist' \in Seq(Node) /\ Len(sendlist') <= SEND_MAX
          /\ obsserver' \in Seq(Observer) /\ Len(obsserver') <= OBS_MAX
          /\ obsclient' \subseteq Numbers
      BY EmptyLists, CoapBoundsAssumption DEF DeinitFree
    <2>2. Cardinality(obsclient') <= OBS_MAX
      BY FS_EmptySet, CoapBoundsAssumption DEF DeinitFree
    <2>3. pc' \in [Apps -> {"idle", "add", "notify", "join"}]
      BY DEF DeinitFree, TypeOK
    <2> QED
      BY <2>1, <2>2, <2>3 DEF DeinitFree, TypeOK, idVars, listVars, mutexVars, appVars, cycleVars, lifeVars, ghostVars
  <1>2. DrawInv' /\ IdsRepeatOnlyAtWrap'
    BY DrawFrame DEF DeinitFree, idVars
  <1>3. ListInv'
    BY MsgFacts, ListFacts DEF DeinitFree, ListInv, Open, Heard, Budget, Kept, idVars, listVars, mutexVars, appVars, cycleVars, lifeVars, ghostVars
  <1>4. AppInv'
    BY MsgFacts, ListFacts DEF DeinitFree, TypeOK, AppInv, Open, OnItsWay, Stored, idVars, listVars, mutexVars, appVars, cycleVars, lifeVars, ghostVars
  <1>5. CycleInv'
    BY MsgFacts, ListFacts DEF DeinitFree, CycleInv, Open, Heard, Budget, OnItsWay, Stored, Kept, idVars, listVars, mutexVars, appVars, cycleVars, lifeVars, ghostVars
  <1>6. ResultInv'
    BY MsgFacts, ListFacts DEF DeinitFree, ResultInv, Heard, Kept, idVars, listVars, mutexVars, appVars, cycleVars, lifeVars, ghostVars
  <1>7. Single'
    BY MsgFacts, ListFacts DEF DeinitFree, Single, Kept, idVars, listVars, mutexVars, appVars, cycleVars, lifeVars, ghostVars
  <1>8. ObsInv'
    BY ObsFrame DEF DeinitFree, Read, idVars, listVars, mutexVars, appVars, cycleVars, lifeVars, ghostVars
  <1> QED
    BY <1>1, <1>2, <1>3, <1>4, <1>5, <1>6, <1>7, <1>8

LEMMA RecvAckInv ==
    ASSUME IInv, NEW n \in Numbers, RecvAck(n)
    PROVE  IInv'
  <1> USE DEF IInv
  <1>a. PICK i \in PlacesOfId(msgs[n].id) :
           IF IsResponse(sendlist[i].n)
             THEN /\ sendlist' = RemoveAt(sendlist, i)
                  /\ result' = [result EXCEPT ![sendlist[i].n].ok = @ + 1]
             ELSE /\ sendlist' = [sendlist EXCEPT ![i].acked = TRUE]
                  /\ UNCHANGED result
    BY Zenon DEF RecvAck
  <1>b. /\ n \in DOMAIN msgs /\ acks' = acks \cup {n} /\ c_pc = "process"
        /\ UNCHANGED <<msgs, sent, cancelled, pc, cur, c_pc, c_node>>
    BY DEF RecvAck, Read, idVars, appVars, cycleVars
  <1>c. i \in DOMAIN sendlist /\ msgs[sendlist[i].n].id = msgs[n].id /\ sendlist \in Seq(Node)
    BY DEF PlacesOfId, TypeOK
  <1>d. PICK x \in Numbers : x = sendlist[i].n /\ x \in DOMAIN msgs /\ Stored(x)
    BY <1>c, MsgFacts DEF ListInv, Stored
  <1>e. acks \subseteq acks' /\ acks' \subseteq DOMAIN msgs
    BY <1>b DEF ResultInv
  <1>f. /\ sendlist' \in Seq(Node) /\ Len(sendlist') <= SEND_MAX
        /\ ListInv' /\ (\A k : (\E j \in DOMAIN sendlist' : sendlist'[j].n = k) => Stored(k))
        /\ result' \in [Numbers -> [ok : Nat, timeout : Nat]]
        /\ \A k \in Numbers \ {x} : result'[k] = result[k]
        /\ \A k \in DOMAIN msgs : result[k].ok > 0 => result'[k].ok > 0
        /\ ResultInv' /\ Single'
    <2>1. CASE IsResponse(x)
      <3>1. /\ sendlist' = RemoveAt(sendlist, i)
            /\ result' = [result EXCEPT ![x].ok = @ + 1]
        BY <1>a, <1>d, <2>1
      <3>2. ~Kept(x) /\ Open(x)
        BY <1>c, <1>d, <2>1 DEF IsResponse, Kept, ListInv
      <3>3. result' = [result EXCEPT ![x] = [result[x] EXCEPT !.ok = @ + 1]]
        BY <3>1
      <3>4. /\ [result[x] EXCEPT !.ok = @ + 1] \in [ok : Nat, timeout : Nat]
            /\ [result[x] EXCEPT !.ok = @ + 1].ok = result[x].ok + 1
            /\ [result[x] EXCEPT !.ok = @ + 1].timeout = result[x].timeout
        BY OneMore
      <3>5. PICK r \in [ok : Nat, timeout : Nat] :
               /\ r.ok = result[x].ok + 1 /\ r.timeout = result[x].timeout
               /\ result' = [result EXCEPT ![x] = r]
        BY <3>3, <3>4, Zenon
      <3>6. /\ result' \in [Numbers -> [ok : Nat, timeout : Nat]]
            /\ \A k \in Numbers \ {x} : result'[k] = result[k]
            /\ ResultInv' /\ Single'
        BY <1>b, <1>d, <1>e, <3>2, <3>5, Told
      <3>7. PICK f \in [DOMAIN sendlist' -> DOMAIN sendlist] :
               /\ \A j \in DOMAIN sendlist' : sendlist'[j] = sendlist[f[j]] /\ f[j] # i
               /\ \A j, k \in DOMAIN sendlist' : f[j] = f[k] => j = k
        BY <1>c, <3>1, Unlink
      <3>8. sendlist' \in Seq(Node) /\ Len(sendlist') <= SEND_MAX
        BY <1>c, <3>1, Unlink
      <3>9. ASSUME NEW j \in DOMAIN sendlist'
            PROVE  sendlist'[j].n \notin cancelled' /\ result'[sendlist'[j].n] = result[sendlist'[j].n]
        <4>1. f[j] \in DOMAIN sendlist /\ f[j] # i /\ sendlist'[j] = sendlist[f[j]]
          BY <3>7, <3>9
        <4>2. sendlist[f[j]].n # x /\ sendlist[f[j]].n \in Numbers /\ sendlist[f[j]].n \notin cancelled
          BY <1>c, <1>d, <4>1, ListFacts, NodeFacts DEF ListInv
        <4> QED
          BY <1>b, <3>6, <4>1, <4>2
      <3>10. /\ \A j \in DOMAIN sendlist' : sendlist'[j] = sendlist[f[j]]
             /\ UNCHANGED <<msgs, sent>>
        BY <1>b, <3>7
      <3>11. ListInv' /\ (\A k : (\E j \in DOMAIN sendlist' : sendlist'[j].n = k) => Stored(k))
        BY <1>e, <3>7, <3>9, <3>10, Shrinks
      <3>12. \A k \in DOMAIN msgs : result[k].ok > 0 => result'[k].ok > 0
        BY <1>d, <3>2, <3>6, MsgFacts DEF Open
      <3> QED
        BY <3>6, <3>8, <3>11, <3>12
    <2>2. CASE ~IsResponse(x)
      <3>1. /\ sendlist' = [sendlist EXCEPT ![i] = [sendlist[i] EXCEPT !.acked = TRUE]]
            /\ result' = result
        BY <1>a, <1>d, <2>2
      <3>2. PICK y \in Node : /\ y.n = x /\ y.acked /\ y.retrans_count = sendlist[i].retrans_count
                              /\ sendlist' = [sendlist EXCEPT ![i] = y]
        <4>1. sendlist[i] \in Node
          BY <1>c, ListFacts
        <4> QED
          BY <1>d, <3>1, <4>1, NodeWrites
      <3>3. /\ sendlist' \in Seq(Node) /\ Len(sendlist') = Len(sendlist)
            /\ DOMAIN sendlist' = DOMAIN sendlist /\ sendlist'[i] = y
            /\ \A j \in DOMAIN sendlist : j # i => sendlist'[j] = sendlist[j]
        BY <1>c, <3>2, ExceptSeq
      <3>4. \A j \in DOMAIN sendlist : sendlist'[j].n = sendlist[j].n
        BY <1>d, <3>2, <3>3
      <3>5. ASSUME NEW j \in DOMAIN sendlist
            PROVE  Budget(sendlist[j])'
        <4>1. Budget(sendlist[j])
          BY DEF ListInv
        <4>2. CASE j = i
          <5>1. Heard(x)'
            BY <1>b, <1>c, <1>d DEF Heard
          <5>2. Budget(y)'
            BY <1>b, <1>d, <3>2, <4>1, <4>2, <5>1 DEF Budget
          <5> QED
            BY <3>3, <4>2, <5>2 DEF Budget, Heard, Kept
        <4>3. CASE j # i
          BY <1>b, <3>3, <4>1, <4>3 DEF Budget, Heard, Kept
        <4> QED
          BY <4>2, <4>3
      <3>6. ListInv'
        <4>1. \A j, k \in DOMAIN sendlist' : sendlist'[j].n = sendlist'[k].n => j = k
          BY <3>3, <3>4 DEF ListInv
        <4>2. ASSUME NEW j \in DOMAIN sendlist'
              PROVE  /\ sendlist'[j].n \in DOMAIN msgs' /\ sendlist'[j].n \notin cancelled'
                     /\ ~Kept(sendlist[j].n)' => Open(sendlist[j].n)'
          BY <1>b, <3>1, <3>3, <3>4, <4>2 DEF ListInv, Open, Kept
        <4> QED
          BY <3>3, <3>5, <4>1, <4>2 DEF ListInv
      <3>7. ResultInv' /\ Single'
        BY <1>b, <1>e, <3>1 DEF ResultInv, Single, Kept, Heard
      <3> QED
        BY <3>1, <3>3, <3>4, <3>6, <3>7 DEF TypeOK, Stored
    <2> QED
      BY <2>1, <2>2
  <1>1. TypeOK'
    <2>1. acks' \subseteq Numbers
      BY <1>b DEF TypeOK
    <2>2. arrivals' \in 0..MaxArrivals
      BY ReadFacts DEF RecvAck
    <2> QED
      BY <1>b, <1>f, <2>1, <2>2 DEF RecvAck, TypeOK, idVars, listVars, mutexVars, appVars, cycleVars, lifeVars, ghostVars
  <1>2. DrawInv' /\ IdsRepeatOnlyAtWrap'
    BY DrawFrame DEF RecvAck, Read, idVars
  <1>3. ListInv'
    BY <1>f
  <1>4. AppInv'
    <2>1. ASSUME NEW b \in Apps, pc[b] = "add"
          PROVE  OnItsWay(cur[b].n)'
      <3>1. OnItsWay(cur[b].n) /\ cur[b].n # x /\ cur[b].n \in Numbers
        BY <1>d, <2>1, MsgFacts DEF AppInv, OnItsWay
      <3> QED
        BY <1>b, <1>f, <3>1 DEF OnItsWay, Open, Stored
    <2> QED
      BY <1>b, <2>1 DEF AppInv
  <1>5. CycleInv'
    BY <1>b DEF CycleInv
  <1>6. ResultInv'
    BY <1>f
  <1>7. Single'
    BY <1>f
  <1>8. ObsInv'
    <2>1. \A k \in DOMAIN msgs : result[k].ok > 0 => result'[k].ok > 0
      BY <1>f
    <2> QED
      BY <1>b, <2>1, ObsFrame DEF RecvAck
  <1> QED
    BY <1>1, <1>2, <1>3, <1>4, <1>5, <1>6, <1>7, <1>8

LEMMA RecvResponseInv ==
    ASSUME IInv, NEW n \in Numbers, NEW observe \in BOOLEAN, RecvResponse(n, observe)
    PROVE  IInv'
  <1> USE DEF IInv
  <1>a. /\ n \in DOMAIN msgs /\ c_pc = "process"
        /\ UNCHANGED <<msgs, sent, acks, cancelled, pc, cur>>
    BY DEF RecvResponse, Read, idVars, appVars
  <1>b. arrivals' \in 0..MaxArrivals
    BY ReadFacts DEF RecvResponse
  <1>c. c_node = Nobody /\ n # 0
    BY <1>a, MsgFacts DEF CycleInv
  <1>d. CASE ~Stored(n)
    <2>1. ObsClientLater(n, observe) /\ UNCHANGED <<c_node, sendlist, c_pc>>
      BY <1>d DEF RecvResponse
    <2>2. n \in obsclient /\ n \in Numbers /\ result[n].ok > 0 /\ (Kept(n) \/ result[n].timeout = 0)
      BY <1>a, <2>1, ObservedAside DEF ObsClientLater, ObsInv
    <2>3. obsclient' \subseteq Numbers /\ Cardinality(obsclient') <= OBS_MAX /\ obsclient' \subseteq obsclient
      <3>1. CASE observe
        BY <2>1, <3>1 DEF ObsClientLater, TypeOK
      <3>2. CASE ~observe
        BY <2>1, <3>2, ObserveFacts DEF ObsClientLater, ObsClientAdd
      <3> QED
        BY <3>1, <3>2
    <2>4. /\ result' \in [Numbers -> [ok : Nat, timeout : Nat]] /\ ResultInv' /\ Single'
          /\ \A k \in Numbers \ {n} : result'[k] = result[k]
          /\ result'[n].ok > 0
      <3>1. CASE observe
        <4>1. PICK r \in [ok : Nat, timeout : Nat] :
                 /\ r.ok = result[n].ok + 1 /\ r.timeout = result[n].timeout
                 /\ result' = [result EXCEPT ![n] = r]
          <5>1. result' = [result EXCEPT ![n] = [result[n] EXCEPT !.ok = @ + 1]]
            BY <2>1, <3>1 DEF ObsClientLater
          <5>2. /\ [result[n] EXCEPT !.ok = @ + 1] \in [ok : Nat, timeout : Nat]
                /\ [result[n] EXCEPT !.ok = @ + 1].ok = result[n].ok + 1
                /\ [result[n] EXCEPT !.ok = @ + 1].timeout = result[n].timeout
            BY OneMore
          <5> QED
            BY <5>1, <5>2, Zenon
        <4>2. /\ acks \subseteq acks' /\ acks' \subseteq DOMAIN msgs
              /\ Kept(n) \/ Open(n) \/ r.timeout = 0
          BY <1>a, <2>2, <4>1 DEF ResultInv
        <4>3. /\ result' \in [Numbers -> [ok : Nat, timeout : Nat]] /\ ResultInv' /\ Single'
              /\ \A k \in Numbers \ {n} : result'[k] = result[k]
          BY <1>a, <4>1, <4>2, Told
        <4>4. result'[n].ok > 0
          <5>1. result[n].ok \in Nat
            BY OneMore
          <5> QED
            BY <4>1, <5>1 DEF TypeOK
        <4> QED
          BY <4>3, <4>4
      <3>2. CASE ~observe
        <4>1. result' = result
          BY <2>1, <3>2 DEF ObsClientLater
        <4> QED
          BY <1>a, <2>2, <4>1 DEF TypeOK, ResultInv, Single, Kept, Heard
      <3> QED
        BY <3>1, <3>2
    <2>5. TypeOK'
      <3>1. UNCHANGED <<idVars, obsserver, mutexVars, appVars, c_req, ip_addr, lifeVars, sent, acks, cancelled>>
        BY DEF RecvResponse
      <3>2. UNCHANGED <<c_node, sendlist, c_pc>>
        BY <2>1
      <3>3. TypeOK
        OBVIOUS
      <3> HIDE DEF IInv
      <3> QED
        BY <1>b, <2>3, <2>4, <3>1, <3>2, <3>3, SMTT(30) DEF TypeOK, idVars, mutexVars, appVars, lifeVars
    <2>6. DrawInv' /\ IdsRepeatOnlyAtWrap'
      BY DrawFrame DEF RecvResponse
    <2>7. ListInv'
      <3>1. ASSUME NEW i \in DOMAIN sendlist
            PROVE  result'[sendlist[i].n] = result[sendlist[i].n]
        BY <1>d, <2>4, <3>1, MsgFacts DEF ListInv, Stored
      <3> QED
        BY <1>a, <2>1, <3>1 DEF ListInv, Open, Kept, Heard, Budget
    <2>8. AppInv'
      <3>1. ASSUME NEW b \in Apps, pc[b] = "add"
            PROVE  OnItsWay(cur[b].n)'
        <4>1. OnItsWay(cur[b].n) /\ cur[b].n \in Numbers
          BY <3>1, MsgFacts DEF AppInv, OnItsWay
        <4>2. cur[b].n # n
          BY <2>2, <4>1 DEF OnItsWay, Open
        <4> QED
          BY <1>a, <2>1, <2>4, <4>1, <4>2 DEF OnItsWay, Open, Stored
      <3> QED
        BY <1>a, <2>1, <3>1 DEF AppInv
    <2>9. CycleInv'
      BY <1>a, <1>c, <2>1 DEF CycleInv
    <2>10. ObsInv'
      <3>1. \A k \in DOMAIN msgs : result[k].ok > 0 => result'[k].ok > 0
        BY <2>4, MsgFacts
      <3> QED
        BY <1>a, <2>3, <3>1, ObsFrame
    <2> QED
      BY <2>4, <2>5, <2>6, <2>7, <2>8, <2>9, <2>10
  <1>e. CASE Stored(n)
    <2>1. /\ c_node' = sendlist[Place(n)] /\ sendlist' = Unlinked(n)
          /\ ObsClientAdd(n, observe) /\ c_pc' = "deliver" /\ UNCHANGED result
      BY <1>e DEF RecvResponse
    <2>2. PICK i \in DOMAIN sendlist : i = Place(n) /\ sendlist[i].n = n
      BY <1>e, StoredPlace
    <2>3. c_node' \in Node /\ c_node'.n = n
      BY <2>1, <2>2, ListFacts
    <2>4. /\ sendlist' \in Seq(Node) /\ Len(sendlist') <= SEND_MAX /\ ListInv'
          /\ (\A k : (\E j \in DOMAIN sendlist' : sendlist'[j].n = k) => Stored(k))
          /\ ~Kept(n) => \A j \in DOMAIN sendlist' : sendlist'[j].n # n
      <3>1. CASE Kept(n)
        <4>1. sendlist' = sendlist
          BY <2>1, <3>1 DEF Unlinked
        <4> QED
          BY <1>a, <2>1, <3>1, <4>1 DEF TypeOK, ListInv, Open, Stored, Kept, Heard, Budget
      <3>2. CASE ~Kept(n)
        <4>1. sendlist' = RemoveAt(sendlist, i)
          BY <2>1, <2>2, <3>2 DEF Unlinked
        <4>2. PICK f \in [DOMAIN sendlist' -> DOMAIN sendlist] :
                 /\ \A j \in DOMAIN sendlist' : sendlist'[j] = sendlist[f[j]] /\ f[j] # i
                 /\ \A j, k \in DOMAIN sendlist' : f[j] = f[k] => j = k
          BY <4>1, Unlink
        <4>3. sendlist' \in Seq(Node) /\ Len(sendlist') <= SEND_MAX
          BY <4>1, Unlink
        <4>4. \A j \in DOMAIN sendlist' : sendlist'[j].n # n /\ sendlist'[j].n \notin cancelled'
                                          /\ result'[sendlist'[j].n] = result[sendlist'[j].n]
          BY <1>a, <2>1, <2>2, <4>2 DEF ListInv
        <4>5. /\ \A j \in DOMAIN sendlist' : sendlist'[j] = sendlist[f[j]]
              /\ UNCHANGED <<msgs, sent>> /\ acks \subseteq acks'
          BY <1>a, <4>2
        <4>6. ListInv' /\ (\A k : (\E j \in DOMAIN sendlist' : sendlist'[j].n = k) => Stored(k))
          BY <4>2, <4>4, <4>5, Shrinks
        <4> QED
          BY <4>3, <4>4, <4>6
      <3> QED
        BY <3>1, <3>2
    <2>5. TypeOK'
      <3>1. obsclient' \subseteq Numbers /\ Cardinality(obsclient') <= OBS_MAX
        BY <2>1, ObserveFacts
      <3>2. UNCHANGED <<idVars, obsserver, mutexVars, appVars, c_req, ip_addr, lifeVars, sent, acks, cancelled>> /\ UNCHANGED result
        BY <2>1 DEF RecvResponse
      <3>3. c_pc' = "deliver" /\ sendlist' \in Seq(Node) /\ Len(sendlist') <= SEND_MAX /\ c_node' \in Node
        BY <2>1, <2>3, <2>4
      <3> HIDE DEF IInv
      <3>4. TypeOK
        BY DEF IInv
      <3> QED
        BY <1>b, <3>1, <3>2, <3>3, <3>4, SMTT(30) DEF TypeOK, idVars, mutexVars, appVars, lifeVars
    <2>6. DrawInv' /\ IdsRepeatOnlyAtWrap'
      BY DrawFrame DEF RecvResponse
    <2>7. AppInv'
      <3>1. ASSUME NEW b \in Apps, pc[b] = "add"
            PROVE  OnItsWay(cur[b].n)' /\ cur[b].n # n
        BY <1>a, <1>e, <2>1, <2>4, <3>1, SMTT(30) DEF AppInv, OnItsWay, Open, Stored
      <3> QED
        BY <1>a, <2>3, <3>1 DEF AppInv
    <2>8. CycleInv'
      <3>1. ~Kept(n) => Open(n)
        BY <2>2 DEF ListInv
      <3> QED
        BY <1>a, <2>1, <2>3, <2>4, <3>1 DEF CycleInv, Open, Kept, Stored
    <2>9. ResultInv' /\ Single'
      BY <1>a, <2>1 DEF ResultInv, Single, Kept, Heard
    <2>10. ObsInv'
      <3>1. obsclient' \subseteq obsclient \cup {n}
        BY <2>1 DEF ObsClientAdd
      <3> QED
        BY <1>a, <2>1, <2>3, <3>1 DEF ObsInv
    <2> QED
      BY <2>4, <2>5, <2>6, <2>7, <2>8, <2>9, <2>10
  <1> QED
    BY <1>d, <1>e

LEMMA DeliverInv ==
    ASSUME IInv, Deliver
    PROVE  IInv'
  <1> USE DEF IInv
  <1>a. /\ c_pc = "deliver" /\ c_pc' = "process" /\ c_node' = Nobody
        /\ UNCHANGED <<msgs, sent, acks, cancelled, sendlist, pc, cur>>
        /\ result' = [result EXCEPT ![c_node.n] = [result[c_node.n] EXCEPT !.ok = @ + 1]]
    BY DEF Deliver, idVars, listVars, mutexVars, appVars, cycleVars, lifeVars, ghostVars
  <1>b. c_node.n \in DOMAIN msgs /\ (Kept(c_node.n) \/ Open(c_node.n)) /\ c_node.n \in Numbers
    BY <1>a, MsgFacts DEF CycleInv
  <1>d. PICK r \in [ok : Nat, timeout : Nat] :
           /\ r.ok = result[c_node.n].ok + 1 /\ r.timeout = result[c_node.n].timeout
           /\ result' = [result EXCEPT ![c_node.n] = r]
    <2>1. /\ [result[c_node.n] EXCEPT !.ok = @ + 1] \in [ok : Nat, timeout : Nat]
          /\ [result[c_node.n] EXCEPT !.ok = @ + 1].ok = result[c_node.n].ok + 1
          /\ [result[c_node.n] EXCEPT !.ok = @ + 1].timeout = result[c_node.n].timeout
      BY <1>b, OneMore
    <2> QED
      BY <1>a, <2>1, Zenon
  <1>e. acks \subseteq acks' /\ acks' \subseteq DOMAIN msgs
    BY <1>a DEF ResultInv
  <1>f. /\ result' \in [Numbers -> [ok : Nat, timeout : Nat]]
        /\ \A k \in Numbers \ {c_node.n} : result'[k] = result[k]
        /\ ResultInv' /\ Single'
    BY <1>a, <1>b, <1>d, <1>e, Told
  <1>g. ListInv' /\ AppInv'
    BY <1>a, <1>f, ToldAside
  <1>1. TypeOK'
    BY <1>a, <1>f DEF Deliver, TypeOK, idVars, listVars, mutexVars, appVars, cycleVars, lifeVars, ghostVars
  <1>2. DrawInv' /\ IdsRepeatOnlyAtWrap'
    BY DrawFrame DEF Deliver, idVars
  <1>3. ListInv'
    BY <1>g
  <1>4. AppInv'
    BY <1>g
  <1>5. CycleInv'
    BY <1>a DEF CycleInv
  <1>6. ResultInv'
    BY <1>f
  <1>7. Single'
    BY <1>f
  <1>8. ObsInv'
    <2>1. result'[c_node.n].ok > 0
      <3>1. result[c_node.n].ok \in Nat
        BY <1>b, OneMore
      <3> QED
        BY <1>b, <1>d, <3>1 DEF TypeOK
    <2>2. obsclient' = obsclient /\ DOMAIN msgs \subseteq Numbers
      BY MsgFacts DEF Deliver, listVars
    <2> QED
      BY <1>a, <1>f, <2>1, <2>2 DEF ObsInv
  <1> QED
    BY <1>1, <1>2, <1>3, <1>4, <1>5, <1>6, <1>7, <1>8

LEMMA RecvRequestInv ==
    ASSUME IInv, NEW r \in Remotes, NEW con \in BOOLEAN, NEW observe \in BOOLEAN, RecvRequest(r, con, observe)
    PROVE  IInv'
  <1> USE DEF IInv
  <1>1. TypeOK'
    <2>1. arrivals' \in 0..MaxArrivals
      BY ReadFacts DEF RecvRequest
    <2>2. c_req' \in Observer
      BY DEF RecvRequest, Observer
    <2> QED
      BY <2>1, <2>2 DEF RecvRequest, TypeOK, idVars, listVars, mutexVars, appVars, cycleVars, lifeVars, ghostVars
  <1>2. DrawInv' /\ IdsRepeatOnlyAtWrap'
    BY DrawFrame DEF RecvRequest, Read, idVars
  <1>3. ListInv'
    BY MsgFacts, ListFacts DEF RecvRequest, Read, ListInv, Open, Heard, Budget, Kept, idVars, listVars, mutexVars, appVars, cycleVars, lifeVars, ghostVars
  <1>4. AppInv'
    BY MsgFacts, ListFacts DEF RecvRequest, Read, TypeOK, AppInv, Open, OnItsWay, Stored, idVars, listVars, mutexVars, appVars, cycleVars, lifeVars, ghostVars
  <1>5. CycleInv'
    BY MsgFacts, ListFacts DEF RecvRequest, Read, CycleInv, Open, Heard, Budget, OnItsWay, Stored, Kept, idVars, listVars, mutexVars, appVars, cycleVars, lifeVars, ghostVars
  <1>6. ResultInv'
    BY MsgFacts, ListFacts DEF RecvRequest, Read, ResultInv, Heard, Kept, idVars, listVars, mutexVars, appVars, cycleVars, lifeVars, ghostVars
  <1>7. Single'
    BY MsgFacts, ListFacts DEF RecvRequest, Read, Single, Kept, idVars, listVars, mutexVars, appVars, cycleVars, lifeVars, ghostVars
  <1>8. ObsInv'
    BY ObsFrame DEF RecvRequest, Read, idVars, listVars, mutexVars, appVars, cycleVars, lifeVars, ghostVars
  <1> QED
    BY <1>1, <1>2, <1>3, <1>4, <1>5, <1>6, <1>7, <1>8

LEMMA ObsCheckInv ==
    ASSUME IInv, ObsCheck
    PROVE  IInv'
  <1> USE DEF IInv
  <1>1. TypeOK'
    BY MsgFacts, ListFacts, CoapBoundsAssumption DEF ObsCheck, TypeOK, idVars, listVars, mutexVars, appVars, cycleVars, lifeVars, ghostVars
  <1>2. DrawInv' /\ IdsRepeatOnlyAtWrap'
    BY DrawFrame DEF ObsCheck, idVars
  <1>3. ListInv'
    BY MsgFacts, ListFacts DEF ObsCheck, ListInv, Open, Heard, Budget, Kept, idVars, listVars, mutexVars, appVars, cycleVars, lifeVars, ghostVars
  <1>4. AppInv'
    BY MsgFacts, ListFacts DEF ObsCheck, TypeOK, AppInv, Open, OnItsWay, Stored, idVars, listVars, mutexVars, appVars, cycleVars, lifeVars, ghostVars
  <1>5. CycleInv'
    BY MsgFacts, ListFacts DEF ObsCheck, CycleInv, Open, Heard, Budget, OnItsWay, Stored, Kept, idVars, listVars, mutexVars, appVars, cycleVars, lifeVars, ghostVars
  <1>6. ResultInv'
    BY MsgFacts, ListFacts DEF ObsCheck, ResultInv, Heard, Kept, idVars, listVars, mutexVars, appVars, cycleVars, lifeVars, ghostVars
  <1>7. Single'
    BY MsgFacts, ListFacts DEF ObsCheck, Single, Kept, idVars, listVars, mutexVars, appVars, cycleVars, lifeVars, ghostVars
  <1>8. ObsInv'
    BY ObsFrame DEF ObsCheck, Read, idVars, listVars, mutexVars, appVars, cycleVars, lifeVars, ghostVars
  <1> QED
    BY <1>1, <1>2, <1>3, <1>4, <1>5, <1>6, <1>7, <1>8

LEMMA ObsAddInv ==
    ASSUME IInv, ObsAdd
    PROVE  IInv'
  <1> USE DEF IInv
  <1>1. TypeOK'
    <2>1. obsserver' \in Seq(Observer) /\ Len(obsserver') <= OBS_MAX
      <3>1. obsserver \in Seq(Observer) /\ Len(obsserver) <= OBS_MAX /\ OBS_MAX \in Nat /\ c_req \in Observer
        BY CoapBoundsAssumption DEF TypeOK
      <3>2. \/ Len(obsserver) < OBS_MAX /\ obsserver' = Append(obsserver, c_req)
            \/ obsserver' = obsserver
        BY DEF ObsAdd
      <3> QED
        BY <3>1, <3>2
    <2> QED
      BY <2>1 DEF ObsAdd, TypeOK, idVars, listVars, mutexVars, appVars, cycleVars, lifeVars, ghostVars
  <1>2. DrawInv' /\ IdsRepeatOnlyAtWrap'
    BY DrawFrame DEF ObsAdd, idVars
  <1>3. ListInv'
    BY MsgFacts, ListFacts DEF ObsAdd, ListInv, Open, Heard, Budget, Kept, idVars, listVars, mutexVars, appVars, cycleVars, lifeVars, ghostVars
  <1>4. AppInv'
    BY MsgFacts, ListFacts DEF ObsAdd, TypeOK, AppInv, Open, OnItsWay, Stored, idVars, listVars, mutexVars, appVars, cycleVars, lifeVars, ghostVars
  <1>5. CycleInv'
    BY MsgFacts, ListFacts DEF ObsAdd, CycleInv, Open, Heard, Budget, OnItsWay, Stored, Kept, idVars, listVars, mutexVars, appVars, cycleVars, lifeVars, ghostVars
  <1>6. ResultInv'
    BY MsgFacts, ListFacts DEF ObsAdd, ResultInv, Heard, Kept, idVars, listVars, mutexVars, appVars, cycleVars, lifeVars, ghostVars
  <1>7. Single'
    BY MsgFacts, ListFacts DEF ObsAdd, Single, Kept, idVars, listVars, mutexVars, appVars, cycleVars, lifeVars, ghostVars
  <1>8. ObsInv'
    BY ObsFrame DEF ObsAdd, Read, idVars, listVars, mutexVars, appVars, cycleVars, lifeVars, ghostVars
  <1> QED
    BY <1>1, <1>2, <1>3, <1>4, <1>5, <1>6, <1>7, <1>8

LEMMA RespondInv ==
    ASSUME IInv, Respond
    PROVE  IInv'
  <1> USE DEF IInv
  <1>a. CASE c_pc' = "process" /\ UNCHANGED <<msgs, sent, c_node>>
    <2>1. c_req' \in Observer /\ c_node = Nobody
      BY RequestFacts DEF Respond, CycleInv
    <2>2. TypeOK'
      BY <1>a, <2>1 DEF Respond, TypeOK, idVars, listVars, mutexVars, appVars, cycleVars, lifeVars, ghostVars
    <2>3. DrawInv' /\ IdsRepeatOnlyAtWrap'
      BY <1>a, DrawFrame DEF Respond, idVars
    <2>4. ListInv' /\ AppInv' /\ ResultInv' /\ Single'
      BY <1>a DEF Respond, ListInv, AppInv, ResultInv, Single, OnItsWay, Open, Stored, Kept, Heard, Budget, idVars, listVars, mutexVars, appVars, cycleVars, lifeVars, ghostVars
    <2>5. CycleInv'
      BY <1>a, <2>1 DEF CycleInv
    <2>6. ObsInv'
      BY <1>a, ObsFrame DEF Respond, listVars
    <2> QED
      BY <2>2, <2>3, <2>4, <2>5, <2>6
  <1>b. CASE /\ Room
             /\ \E id \in Ids :
                   msgs' = Append(msgs, [id |-> id, kind |-> "rsp", remote |-> c_req.remote, draw |-> 0])
             /\ sent' = [sent EXCEPT ![Len(msgs) + 1] = 1]
             /\ c_node' = [Nobody EXCEPT !.n = Len(msgs) + 1]
             /\ c_pc' = "respadd"
    <2> DEFINE n == Len(msgs) + 1
    <2>1. PICK m \in Message : msgs' = Append(msgs, m) /\ m.kind = "rsp" /\ m.draw = 0
      <3>1. c_req.remote \in Remotes
        BY DEF TypeOK, Observer
      <3> QED
        BY <1>b, <3>1 DEF Message, Kinds
    <2>2. UNCHANGED <<message_id, draws, sendlist, acks, result, cancelled, pc, cur>>
      BY DEF Respond, listVars, appVars
    <2>3. /\ msgs' \in Seq(Message) /\ Len(msgs') = n
          /\ DOMAIN msgs' = DOMAIN msgs \cup {n}
          /\ \A i \in DOMAIN msgs : msgs'[i] = msgs[i]
          /\ msgs'[n] = m
      BY <2>1, MsgsGrow
    <2>4. n \in Numbers /\ n \notin DOMAIN msgs /\ DOMAIN msgs \subseteq Numbers /\ n <= MaxMessages
      BY <1>b, MsgFacts, CoapBoundsAssumption DEF Numbers
    <2>5. /\ ~Stored(n) /\ Open(n) /\ c_node.n # n
          /\ \A b \in Apps : pc[b] = "add" => cur[b].n # n
      BY <1>b, NextIsFresh
    <2> HIDE DEF n
    <2>6. /\ sent' \in [Numbers -> 0..RETRY_MAX + 1] /\ sent'[n] = 1
          /\ \A k \in DOMAIN msgs : sent'[k] = sent[k]
      <3>1. 1 \in 0..RETRY_MAX + 1 /\ sent' = [sent EXCEPT ![n] = 1]
        BY <1>b, CoapBoundsAssumption DEF n
      <3> QED
        BY <2>4, <3>1 DEF TypeOK
    <2>7. ListInv' /\ ResultInv' /\ Single'
      BY <1>b, <2>1, <2>2, <2>6, Grow
    <2>8. c_node' \in Node /\ c_node'.n = n
      <3>1. 0 \in 0..RETRY_MAX /\ c_node' = [Nobody EXCEPT !.n = n]
        BY <1>b, CoapBoundsAssumption DEF n
      <3> QED
        BY <2>4, <3>1 DEF Nobody, Node
    <2>9. TypeOK'
      <3>1. c_req' \in Observer
        BY RequestFacts DEF Respond
      <3> QED
        BY <1>b, <2>2, <2>3, <2>4, <2>6, <2>8, <3>1, SMTT(30) DEF Respond, TypeOK, idVars, listVars, mutexVars, appVars, cycleVars, lifeVars, ghostVars
    <2>10. DrawInv' /\ IdsRepeatOnlyAtWrap'
      <3>1. \A i \in DOMAIN msgs : msgs[i].draw \in Nat
        BY MsgFacts DEF Message
      <3>2. DrawInv'
        BY <2>1, <2>2, <2>3 DEF DrawInv
      <3>3. IdsRepeatOnlyAtWrap'
        BY <2>1, <2>2, <2>3, <3>1, SMTT(30) DEF IdsRepeatOnlyAtWrap
      <3> QED
        BY <3>2, <3>3
    <2>11. AppInv'
      <3>1. ASSUME NEW b \in Apps, pc[b] = "add"
            PROVE  OnItsWay(cur[b].n)' /\ cur[b].n # n
        BY <2>2, <2>3, <2>5, <2>6, <3>1 DEF AppInv, OnItsWay, Open, Stored
      <3> QED
        BY <2>2, <2>8, <3>1 DEF AppInv
    <2>12. CycleInv'
      <3>1. OnItsWay(c_node.n)'
        BY <2>1, <2>2, <2>3, <2>5, <2>6, <2>8 DEF OnItsWay, Open, Stored
      <3> QED
        BY <1>b, <3>1 DEF CycleInv
    <2>13. ObsInv'
      BY <2>2, <2>3, ObsFrame DEF Respond, listVars
    <2> QED
      BY <2>7, <2>9, <2>10, <2>11, <2>12, <2>13
  <1> QED
    BY <1>a, <1>b, Zenon DEF Respond

LEMMA RespAddInv ==
    ASSUME IInv, RespAdd
    PROVE  IInv'
  <1> USE DEF IInv
  <1>a. OnItsWay(c_node.n)
    BY DEF RespAdd, CycleInv
  <1>b. /\ sendlist' \in Seq(Node) /\ Len(sendlist') <= SEND_MAX /\ ListInv'
        /\ \A k : (\E j \in DOMAIN sendlist' : sendlist'[j].n = k) => Stored(k) \/ k = c_node.n
    BY <1>a, AddFacts DEF RespAdd, idVars, ghostVars
  <1>c. UNCHANGED <<msgs, sent, acks, result, cancelled, pc, cur>> /\ c_node' = Nobody /\ c_pc' = "process"
    BY DEF RespAdd, idVars, ghostVars, appVars
  <1>1. TypeOK'
    BY <1>b DEF RespAdd, TypeOK, idVars, listVars, mutexVars, appVars, cycleVars, lifeVars, ghostVars
  <1>2. DrawInv' /\ IdsRepeatOnlyAtWrap'
    BY DrawFrame DEF RespAdd, ListAdd, idVars
  <1>3. ListInv'
    BY <1>b
  <1>4. AppInv'
    <2>1. ASSUME NEW b \in Apps, pc'[b] = "add"
          PROVE  OnItsWay(cur[b].n)' /\ cur'[b].n # c_node'.n
      <3>1. OnItsWay(cur[b].n) /\ cur[b].n # c_node.n
        BY <1>c, <2>1 DEF AppInv
      <3>2. OnItsWay(cur[b].n)'
        BY <1>b, <1>c, <3>1 DEF OnItsWay, Open, Stored
      <3>3. cur[b].n # 0
        BY <3>1, MsgFacts DEF OnItsWay
      <3> QED
        BY <1>c, <3>2, <3>3 DEF Nobody
    <2> QED
      BY <1>c, <2>1 DEF AppInv
  <1>5. CycleInv'
    BY MsgFacts, ListFacts DEF RespAdd, ListAdd, CycleInv, Open, Heard, Budget, OnItsWay, Stored, Kept, idVars, listVars, mutexVars, appVars, cycleVars, lifeVars, ghostVars
  <1>6. ResultInv'
    BY MsgFacts, ListFacts DEF RespAdd, ListAdd, ResultInv, Heard, Kept, idVars, listVars, mutexVars, appVars, cycleVars, lifeVars, ghostVars
  <1>7. Single'
    BY MsgFacts, ListFacts DEF RespAdd, ListAdd, Single, Kept, idVars, listVars, mutexVars, appVars, cycleVars, lifeVars, ghostVars
  <1>8. ObsInv'
    BY ObsFrame DEF RespAdd, Read, idVars, listVars, mutexVars, appVars, cycleVars, lifeVars, ghostVars
  <1> QED
    BY <1>1, <1>2, <1>3, <1>4, <1>5, <1>6, <1>7, <1>8

LEMMA RetansmitInv ==
    ASSUME IInv, Retansmit
    PROVE  IInv'
  <1> USE DEF IInv
  <1>a. /\ sendlist' = [i \in DOMAIN sendlist |-> CountDown(sendlist[i])]
        /\ sent' = [n \in Numbers |->
                      IF Stored(n) /\ Rewritten(sendlist[Place(n)]) THEN sent[n] + 1 ELSE sent[n]]
        /\ c_pc = "process" /\ c_pc' = "timeout"
        /\ UNCHANGED <<msgs, acks, result, cancelled, pc, cur, c_node>>
    BY DEF Retansmit, idVars, appVars
  <1>b. /\ sendlist' \in Seq(Node) /\ Len(sendlist') = Len(sendlist) /\ DOMAIN sendlist' = DOMAIN sendlist
        /\ \A i \in DOMAIN sendlist : sendlist'[i] = CountDown(sendlist[i])
    <2>1. sendlist' \in [1..Len(sendlist) -> Node] /\ Len(sendlist) \in Nat
      BY <1>a, ListFacts, CountDownFacts
    <2> QED
      BY <1>a, <2>1, ListFacts, FunctionIsSeq
  <1>c. ASSUME NEW i \in DOMAIN sendlist
        PROVE  /\ sendlist'[i].n = sendlist[i].n /\ sendlist'[i].acked = sendlist[i].acked
               /\ sendlist'[i].retrans_count =
                    IF Due(sendlist[i]) THEN sendlist[i].retrans_count - 1 ELSE sendlist[i].retrans_count
               /\ Due(sendlist[i]) => sendlist[i].retrans_count > 0
               /\ sent'[sendlist[i].n] =
                    IF Rewritten(sendlist[i]) THEN sent[sendlist[i].n] + 1 ELSE sent[sendlist[i].n]
    <2>1. sendlist[i] \in Node /\ sendlist[i].n \in Numbers
      BY <1>c, ListFacts, NodeFacts
    <2>2. Stored(sendlist[i].n) /\ Place(sendlist[i].n) = i
      <3>1. Stored(sendlist[i].n)
        BY <1>c DEF Stored
      <3> QED
        BY <1>c, <3>1, StoredPlace
    <2>3. sent'[sendlist[i].n] =
            IF Rewritten(sendlist[i]) THEN sent[sendlist[i].n] + 1 ELSE sent[sendlist[i].n]
      BY <1>a, <2>1, <2>2
    <2> QED
      BY <1>b, <1>c, <2>1, <2>3, CountDownFacts
  <1>d. \A k \in Numbers : ~Stored(k) => sent'[k] = sent[k]
    BY <1>a
  <1>e. \A k : (\E j \in DOMAIN sendlist' : sendlist'[j].n = k) => Stored(k)
    BY <1>b, <1>c DEF Stored
  <1>f. ASSUME NEW i \in DOMAIN sendlist
        PROVE  Budget(sendlist[i])' /\ sent'[sendlist[i].n] \in 0..RETRY_MAX + 1
    <2>1. Budget(sendlist[i]) /\ sendlist[i] \in Node
      BY <1>f, ListFacts DEF ListInv
    <2>2. /\ sendlist[i].n \in Numbers /\ sendlist[i].retrans_count \in 0..RETRY_MAX
          /\ RETRY_MAX \in Nat /\ sent[sendlist[i].n] \in 0..RETRY_MAX + 1
      BY <2>1, NodeFacts, CoapBoundsAssumption DEF TypeOK
    <2>3. Rewritten(sendlist[i]) <=> Due(sendlist[i]) /\ ~sendlist[i].acked
      BY DEF Rewritten
    <2>4. /\ sent'[sendlist[i].n] \in 0..RETRY_MAX + 1
          /\ sent'[sendlist[i].n] + sendlist'[i].retrans_count <= RETRY_MAX + 1
      BY <1>c, <1>f, <2>1, <2>2, <2>3 DEF Budget
    <2>5. ~sendlist[i].acked /\ ~Kept(sendlist[i].n) =>
            sent'[sendlist[i].n] + sendlist'[i].retrans_count = RETRY_MAX + 1
      BY <1>c, <1>f, <2>1, <2>2, <2>3 DEF Budget
    <2>6. sendlist[i].acked => Heard(sendlist[i].n)
      BY <2>1 DEF Budget
    <2> QED
      BY <1>a, <1>c, <1>f, <2>4, <2>5, <2>6 DEF Budget, Heard, Kept
  <1>1. TypeOK'
    <2>1. sent' \in [Numbers -> 0..RETRY_MAX + 1]
      <3>1. ASSUME NEW k \in Numbers
            PROVE  sent'[k] \in 0..RETRY_MAX + 1
        <4>1. CASE Stored(k)
          BY <1>f, <4>1 DEF Stored
        <4>2. CASE ~Stored(k)
          BY <1>d, <4>2 DEF TypeOK
        <4> QED
          BY <4>1, <4>2
      <3> QED
        BY <1>a, <3>1
    <2> QED
      BY <1>b, <2>1 DEF Retansmit, TypeOK, idVars, listVars, mutexVars, appVars, cycleVars, lifeVars, ghostVars
  <1>2. DrawInv' /\ IdsRepeatOnlyAtWrap'
    BY DrawFrame DEF Retansmit, idVars
  <1>3. ListInv'
    <2>1. \A i, j \in DOMAIN sendlist' : sendlist'[i].n = sendlist'[j].n => i = j
      BY <1>b, <1>c DEF ListInv
    <2>2. ASSUME NEW i \in DOMAIN sendlist'
          PROVE  /\ sendlist'[i].n \in DOMAIN msgs' /\ sendlist'[i].n \notin cancelled'
                 /\ ~Kept(sendlist[i].n)' => Open(sendlist[i].n)'
      BY <1>a, <1>b, <1>c, <2>2 DEF ListInv, Kept, Open
    <2> QED
      BY <1>b, <1>f, <2>1, <2>2 DEF ListInv
  <1>4. AppInv'
    <2>1. ASSUME NEW b \in Apps, pc[b] = "add"
          PROVE  OnItsWay(cur[b].n)'
      <3>1. OnItsWay(cur[b].n) /\ cur[b].n \in Numbers
        BY <2>1, MsgFacts DEF AppInv, OnItsWay
      <3>2. sent'[cur[b].n] = 1
        BY <1>d, <3>1 DEF OnItsWay
      <3> QED
        BY <1>a, <1>e, <3>1, <3>2 DEF OnItsWay, Open, Stored
    <2> QED
      BY <1>a, <2>1 DEF AppInv
  <1>5. CycleInv'
    BY <1>a DEF CycleInv
  <1>6. ResultInv'
    <2>1. ASSUME NEW k \in DOMAIN msgs, result[k].timeout > 0
          PROVE  sent'[k] = RETRY_MAX + 1 \/ Heard(k)
      <3>1. ~Kept(k) /\ k \in Numbers
        BY <2>1, MsgFacts DEF ResultInv
      <3>2. ~Stored(k)
        BY <2>1, <3>1 DEF ListInv, Stored, Open
      <3> QED
        BY <1>d, <2>1, <3>1, <3>2 DEF ResultInv
    <2> QED
      BY <1>a, <2>1 DEF ResultInv, Kept, Heard
  <1>7. Single'
    BY MsgFacts, ListFacts DEF Retansmit, Single, Kept, idVars, listVars, mutexVars, appVars, cycleVars, lifeVars, ghostVars
  <1>8. ObsInv'
    BY ObsFrame DEF Retansmit, Read, idVars, listVars, mutexVars, appVars, cycleVars, lifeVars, ghostVars
  <1> QED
    BY <1>1, <1>2, <1>3, <1>4, <1>5, <1>6, <1>7, <1>8

LEMMA CheckTimeoutInv ==
    ASSUME IInv, CheckTimeout
    PROVE  IInv'
  <1> USE DEF IInv
  <1>a. /\ ExpiredAt # {} /\ c_pc = "timeout" /\ c_pc' = "expired"
        /\ c_node' = sendlist[Min(ExpiredAt)] /\ sendlist' = RemoveAt(sendlist, Min(ExpiredAt))
        /\ UNCHANGED <<msgs, sent, acks, result, cancelled, pc, cur>>
    BY DEF CheckTimeout, idVars, appVars, ghostVars
  <1>b. PICK i \in DOMAIN sendlist : i = Min(ExpiredAt) /\ Expired(sendlist[i])
    <2>1. ExpiredAt \in SUBSET Nat
      BY ListFacts DEF ExpiredAt
    <2>2. Min(ExpiredAt) \in ExpiredAt
      BY <1>a, <2>1, MinProperties
    <2> QED
      BY <2>2 DEF ExpiredAt
  <1>c. sendlist' = RemoveAt(sendlist, i) /\ c_node' = sendlist[i] /\ sendlist[i] \in Node
    BY <1>a, <1>b, ListFacts
  <1>d. PICK f \in [DOMAIN sendlist' -> DOMAIN sendlist] :
           /\ \A j \in DOMAIN sendlist' : sendlist'[j] = sendlist[f[j]] /\ f[j] # i
           /\ \A j, k \in DOMAIN sendlist' : f[j] = f[k] => j = k
    BY <1>c, Unlink
  <1>e. \A j \in DOMAIN sendlist' : sendlist'[j].n # sendlist[i].n /\ sendlist'[j].n \notin cancelled'
                                    /\ result'[sendlist'[j].n] = result[sendlist'[j].n]
    BY <1>a, <1>d DEF ListInv
  <1>f. /\ \A j \in DOMAIN sendlist' : sendlist'[j] = sendlist[f[j]]
        /\ UNCHANGED <<msgs, sent>> /\ acks \subseteq acks'
    BY <1>a, <1>d
  <1>g. ListInv' /\ (\A k : (\E j \in DOMAIN sendlist' : sendlist'[j].n = k) => Stored(k))
    BY <1>d, <1>e, <1>f, Shrinks
  <1>h. Stored(sendlist[i].n) /\ sendlist[i].n \in DOMAIN msgs
    BY DEF Stored, ListInv
  <1>1. TypeOK'
    <2>1. sendlist' \in Seq(Node) /\ Len(sendlist') <= SEND_MAX
      BY <1>c, Unlink
    <2> QED
      BY <1>c, <2>1 DEF CheckTimeout, TypeOK, idVars, listVars, mutexVars, appVars, cycleVars, lifeVars, ghostVars
  <1>2. DrawInv' /\ IdsRepeatOnlyAtWrap'
    BY DrawFrame DEF CheckTimeout, idVars
  <1>3. ListInv'
    BY <1>g
  <1>4. AppInv'
    <2>1. ASSUME NEW b \in Apps, pc[b] = "add"
          PROVE  OnItsWay(cur[b].n)' /\ cur[b].n # sendlist[i].n
      BY <1>a, <1>g, <1>h, <2>1 DEF AppInv, OnItsWay, Open, Stored
    <2> QED
      BY <1>a, <1>c, <2>1 DEF AppInv
  <1>5. CycleInv'
    <2>1. ~Kept(sendlist[i].n) /\ sendlist[i].retrans_count = 0
      BY <1>b DEF Expired
    <2>2. Open(sendlist[i].n) /\ Budget(sendlist[i])
      BY <2>1 DEF ListInv
    <2>3. Budget(c_node)' /\ Open(c_node.n)' /\ ~Kept(c_node.n)'
      BY <1>a, <1>c, <2>1, <2>2 DEF Budget, Open, Kept, Heard
    <2>4. ~Stored(c_node.n)'
      BY <1>c, <1>e DEF Stored
    <2> QED
      BY <1>a, <1>c, <1>h, <2>1, <2>3, <2>4 DEF CycleInv
  <1>6. ResultInv'
    BY MsgFacts, ListFacts DEF CheckTimeout, ResultInv, Heard, Kept, idVars, listVars, mutexVars, appVars, cycleVars, lifeVars, ghostVars
  <1>7. Single'
    BY MsgFacts, ListFacts DEF CheckTimeout, Single, Kept, idVars, listVars, mutexVars, appVars, cycleVars, lifeVars, ghostVars
  <1>8. ObsInv'
    BY ObsFrame DEF CheckTimeout, Read, idVars, listVars, mutexVars, appVars, cycleVars, lifeVars, ghostVars
  <1> QED
    BY <1>1, <1>2, <1>3, <1>4, <1>5, <1>6, <1>7, <1>8

LEMMA ForgetObserversInv ==
    ASSUME IInv, ForgetObservers
    PROVE  IInv'
  <1> USE DEF IInv
  <1>1. TypeOK'
    <2>1. obsserver' \in Seq(Observer) /\ Len(obsserver') <= OBS_MAX
      <3>1. obsserver \in Seq(Observer) /\ Len(obsserver) <= OBS_MAX /\ OBS_MAX \in Nat
        BY CoapBoundsAssumption DEF TypeOK
      <3>2. PICK S : obsserver' = Without(obsserver, S)
        BY DEF ForgetObservers
      <3> QED
        BY <3>1, <3>2, WithoutProperties
    <2> QED
      BY <2>1 DEF ForgetObservers, TypeOK, idVars, listVars, mutexVars, appVars, cycleVars, lifeVars, ghostVars
  <1>2. DrawInv' /\ IdsRepeatOnlyAtWrap'
    BY DrawFrame DEF ForgetObservers, idVars
  <1>3. ListInv'
    BY MsgFacts, ListFacts DEF ForgetObservers, ListInv, Open, Heard, Budget, Kept, idVars, listVars, mutexVars, appVars, cycleVars, lifeVars, ghostVars
  <1>4. AppInv'
    BY MsgFacts, ListFacts DEF ForgetObservers, TypeOK, AppInv, Open, OnItsWay, Stored, idVars, listVars, mutexVars, appVars, cycleVars, lifeVars, ghostVars
  <1>5. CycleInv'
    BY MsgFacts, ListFacts DEF ForgetObservers, CycleInv, Open, Heard, Budget, OnItsWay, Stored, Kept, idVars, listVars, mutexVars, appVars, cycleVars, lifeVars, ghostVars
  <1>6. ResultInv'
    BY MsgFacts, ListFacts DEF ForgetObservers, ResultInv, Heard, Kept, idVars, listVars, mutexVars, appVars, cycleVars, lifeVars, ghostVars
  <1>7. Single'
    BY MsgFacts, ListFacts DEF ForgetObservers, Single, Kept, idVars, listVars, mutexVars, appVars, cycleVars, lifeVars, ghostVars
  <1>8. ObsInv'
    BY ObsFrame DEF ForgetObservers, Read, idVars, listVars, mutexVars, appVars, cycleVars, lifeVars, ghostVars
  <1> QED
    BY <1>1, <1>2, <1>3, <1>4, <1>5, <1>6, <1>7, <1>8

LEMMA CallTimeoutInv ==
    ASSUME IInv, CallTimeout
    PROVE  IInv'
  <1> USE DEF IInv
  <1>a. /\ c_pc = "call" /\ c_pc' = "timeout" /\ c_node' = Nobody
        /\ UNCHANGED <<msgs, sent, acks, cancelled, sendlist, pc, cur>>
        /\ result' = [result EXCEPT ![c_node.n] = [result[c_node.n] EXCEPT !.timeout = @ + 1]]
    BY DEF CallTimeout, idVars, listVars, mutexVars, appVars, cycleVars, lifeVars, ghostVars
  <1>b. c_node.n \in DOMAIN msgs /\ (Kept(c_node.n) \/ Open(c_node.n)) /\ c_node.n \in Numbers
    BY <1>a, MsgFacts DEF CycleInv
  <1>c. ~Kept(c_node.n) /\ (sent[c_node.n] = RETRY_MAX + 1 \/ Heard(c_node.n))
    <2>1. c_node.retrans_count = 0 /\ ~Kept(c_node.n) /\ Budget(c_node)
      BY <1>a DEF CycleInv
    <2>2. sent[c_node.n] \in Nat
      BY <1>b, CoapBoundsAssumption DEF TypeOK
    <2> QED
      BY <2>1, <2>2 DEF Budget
  <1>d. PICK r \in [ok : Nat, timeout : Nat] :
           /\ r.timeout = result[c_node.n].timeout + 1 /\ r.ok = result[c_node.n].ok
           /\ result' = [result EXCEPT ![c_node.n] = r]
    <2>1. /\ [result[c_node.n] EXCEPT !.timeout = @ + 1] \in [ok : Nat, timeout : Nat]
          /\ [result[c_node.n] EXCEPT !.timeout = @ + 1].timeout = result[c_node.n].timeout + 1
          /\ [result[c_node.n] EXCEPT !.timeout = @ + 1].ok = result[c_node.n].ok
      BY <1>b, OneMore
    <2> QED
      BY <1>a, <2>1, Zenon
  <1>e. acks \subseteq acks' /\ acks' \subseteq DOMAIN msgs
    BY <1>a DEF ResultInv
  <1>f. /\ result' \in [Numbers -> [ok : Nat, timeout : Nat]]
        /\ \A k \in Numbers \ {c_node.n} : result'[k] = result[k]
        /\ ResultInv' /\ Single'
    BY <1>a, <1>b, <1>c, <1>d, <1>e, Told
  <1>g. ListInv' /\ AppInv'
    BY <1>a, <1>f, ToldAside
  <1>1. TypeOK'
    BY <1>a, <1>f DEF CallTimeout, TypeOK, idVars, listVars, mutexVars, appVars, cycleVars, lifeVars, ghostVars
  <1>2. DrawInv' /\ IdsRepeatOnlyAtWrap'
    BY DrawFrame DEF CallTimeout, idVars
  <1>3. ListInv'
    BY <1>g
  <1>4. AppInv'
    BY <1>g
  <1>5. CycleInv'
    BY <1>a DEF CycleInv
  <1>6. ResultInv'
    BY <1>f
  <1>7. Single'
    BY <1>f
  <1>8. ObsInv'
    <2>1. result'[c_node.n].ok = result[c_node.n].ok
      BY <1>b, <1>d DEF TypeOK
    <2>2. obsclient' = obsclient /\ DOMAIN msgs \subseteq Numbers
      BY MsgFacts DEF CallTimeout, listVars
    <2>3. \A k \in DOMAIN msgs : result[k].ok > 0 => result'[k].ok > 0
      BY <1>f, <2>1, <2>2
    <2> QED
      BY <1>a, <2>2, <2>3, ObsFrame
  <1> QED
    BY <1>1, <1>2, <1>3, <1>4, <1>5, <1>6, <1>7, <1>8

LEMMA CycleEndInv ==
    ASSUME IInv, CycleEnd
    PROVE  IInv'
  <1> USE DEF IInv
  <1>1. TypeOK'
    BY MsgFacts, ListFacts, CoapBoundsAssumption DEF CycleEnd, TypeOK, idVars, listVars, mutexVars, appVars, cycleVars, lifeVars, ghostVars
  <1>2. DrawInv' /\ IdsRepeatOnlyAtWrap'
    BY DrawFrame DEF CycleEnd, idVars
  <1>3. ListInv'
    BY MsgFacts, ListFacts DEF CycleEnd, ListInv, Open, Heard, Budget, Kept, idVars, listVars, mutexVars, appVars, cycleVars, lifeVars, ghostVars
  <1>4. AppInv'
    BY MsgFacts, ListFacts DEF CycleEnd, TypeOK, AppInv, Open, OnItsWay, Stored, idVars, listVars, mutexVars, appVars, cycleVars, lifeVars, ghostVars
  <1>5. CycleInv'
    BY MsgFacts, ListFacts DEF CycleEnd, CycleInv, Open, Heard, Budget, OnItsWay, Stored, Kept, idVars, listVars, mutexVars, appVars, cycleVars, lifeVars, ghostVars
  <1>6. ResultInv'
    BY MsgFacts, ListFacts DEF CycleEnd, ResultInv, Heard, Kept, idVars, listVars, mutexVars, appVars, cycleVars, lifeVars, ghostVars
  <1>7. Single'
    BY MsgFacts, ListFacts DEF CycleEnd, Single, Kept, idVars, listVars, mutexVars, appVars, cycleVars, lifeVars, ghostVars
  <1>8. ObsInv'
    BY ObsFrame DEF CycleEnd, Read, idVars, listVars, mutexVars, appVars, cycleVars, lifeVars, ghostVars
  <1> QED
    BY <1>1, <1>2, <1>3, <1>4, <1>5, <1>6, <1>7, <1>8

LEMMA ElapseInv ==
    ASSUME IInv, NEW n \in Numbers, Elapse(n)
    PROVE  IInv'
  <1> USE DEF IInv
  <1>1. TypeOK'
    <2>1. PICK i \in DOMAIN sendlist : sendlist' = [sendlist EXCEPT ![i] = [sendlist[i] EXCEPT !.late = TRUE]]
      BY StoredPlace DEF Elapse
    <2>2. PICK y \in Node : sendlist' = [sendlist EXCEPT ![i] = y]
      <3>1. sendlist[i] \in Node
        BY <2>1, ListFacts
      <3>2. [sendlist[i] EXCEPT !.late = TRUE] \in Node
        BY <3>1, NodeWrites
      <3> QED
        BY <2>1, <3>2, Zenon
    <2>3. sendlist' \in Seq(Node) /\ Len(sendlist') = Len(sendlist)
      BY <2>2, ExceptSeq DEF TypeOK
    <2>4. UNCHANGED <<idVars, obsserver, obsclient, mutexVars, appVars, cycleVars, lifeVars, ghostVars>>
      BY Zenon DEF Elapse
    <2> QED
      BY <2>3, <2>4 DEF TypeOK, idVars, mutexVars, appVars, cycleVars, lifeVars, ghostVars
  <1>2. DrawInv' /\ IdsRepeatOnlyAtWrap'
    BY DrawFrame DEF Elapse, idVars
  <1>3. ListInv'
    BY MsgFacts, ListFacts DEF Elapse, ListInv, Open, Heard, Budget, Kept, idVars, listVars, mutexVars, appVars, cycleVars, lifeVars, ghostVars
  <1>4. AppInv'
    BY MsgFacts, ListFacts DEF Elapse, TypeOK, AppInv, Open, OnItsWay, Stored, idVars, listVars, mutexVars, appVars, cycleVars, lifeVars, ghostVars
  <1>5. CycleInv'
    BY MsgFacts, ListFacts DEF Elapse, CycleInv, Open, Heard, Budget, OnItsWay, Stored, Kept, idVars, listVars, mutexVars, appVars, cycleVars, lifeVars, ghostVars
  <1>6. ResultInv'
    BY MsgFacts, ListFacts DEF Elapse, ResultInv, Heard, Kept, idVars, listVars, mutexVars, appVars, cycleVars, lifeVars, ghostVars
  <1>7. Single'
    BY MsgFacts, ListFacts DEF Elapse, Single, Kept, idVars, listVars, mutexVars, appVars, cycleVars, lifeVars, ghostVars
  <1>8. ObsInv'
    BY ObsFrame DEF Elapse, Read, idVars, listVars, mutexVars, appVars, cycleVars, lifeVars, ghostVars
  <1> QED
    BY <1>1, <1>2, <1>3, <1>4, <1>5, <1>6, <1>7, <1>8

LEMMA InitInv ==
    ASSUME Init
    PROVE  IInv
  <1>1. TypeOK
    <2>1. message_id \in Ids /\ draws \in Nat
      BY IdAssumption DEF Init, Ids
    <2>2. Cardinality(obsclient) <= OBS_MAX
      BY FS_EmptySet, CoapBoundsAssumption DEF Init
    <2>3. cur \in [Apps -> [n : 0..MaxMessages, pos : Nat \ {0}]] /\ last \in [Apps -> 0..MaxMessages]
      <3>1. 0 \in 0..MaxMessages /\ 1 \in Nat \ {0}
        BY CoapBoundsAssumption
      <3> QED
        BY <3>1 DEF Init
    <2>4. sent \in [Numbers -> 0..RETRY_MAX + 1] /\ arrivals \in 0..MaxArrivals
      BY CoapBoundsAssumption DEF Init
    <2>5. result \in [Numbers -> [ok : Nat, timeout : Nat]]
      BY DEF Init
    <2>6. /\ msgs \in Seq(Message) /\ Len(msgs) <= MaxMessages
          /\ sendlist \in Seq(Node) /\ Len(sendlist) <= SEND_MAX
          /\ obsserver \in Seq(Observer) /\ Len(obsserver) <= OBS_MAX
      BY EmptyLists, CoapBoundsAssumption DEF Init
    <2>7. c_req \in Observer /\ pc \in [Apps -> {"idle", "add", "notify", "join"}]
      BY RequestFacts DEF Init
    <2> QED
      BY <2>1, <2>2, <2>3, <2>4, <2>5, <2>6, <2>7 DEF Init, TypeOK
  <1>2. DOMAIN msgs = {} /\ DOMAIN sendlist = {}
    BY DEF Init
  <1>3. DrawInv /\ IdsRepeatOnlyAtWrap /\ ListInv /\ Single
    BY <1>2 DEF DrawInv, IdsRepeatOnlyAtWrap, ListInv, Single
  <1>4. AppInv /\ CycleInv /\ ObsInv
    BY DEF Init, AppInv, CycleInv, ObsInv
  <1>5. ResultInv
    BY <1>2 DEF Init, ResultInv
  <1> QED
    BY <1>1, <1>3, <1>4, <1>5 DEF IInv

LEMMA StutterInv ==
    ASSUME IInv, UNCHANGED vars
    PROVE  IInv'
  <1> USE DEF IInv, vars
  <1>1. TypeOK'
    BY DEF TypeOK, idVars, listVars, mutexVars, appVars, cycleVars, lifeVars, ghostVars
  <1>2. DrawInv' /\ IdsRepeatOnlyAtWrap'
    BY DrawFrame
  <1>3. ListInv'
    BY DEF ListInv, Open, Heard, Budget, Kept, idVars, listVars, mutexVars, appVars, cycleVars, lifeVars, ghostVars
  <1>4. AppInv'
    BY DEF AppInv, OnItsWay, Open, Stored, idVars, listVars, mutexVars, appVars, cycleVars, lifeVars, ghostVars
  <1>5. CycleInv'
    BY DEF CycleInv, OnItsWay, Open, Stored, Heard, Budget, Kept, idVars, listVars, mutexVars, appVars, cycleVars, lifeVars, ghostVars
  <1>6. ResultInv' /\ Single' /\ ObsInv'
    BY DEF ResultInv, Single, ObsInv, Heard, Kept, idVars, listVars, mutexVars, appVars, cycleVars, lifeVars, ghostVars
  <1> QED
    BY <1>1, <1>2, <1>3, <1>4, <1>5, <1>6

LEMMA NextInv ==
    ASSUME IInv, [Next]_vars
    PROVE  IInv'
  <1>1. ASSUME NEW a \in Apps, NEW r \in Remotes, NEW kind \in {"con", "kept"}, AppSend(a, kind, r)
        PROVE  IInv'
    BY <1>1, AppSendInv
  <1>2. ASSUME NEW a \in Apps, AppCancel(a) \/ Notify(a) \/ Deinit(a) \/ AppStep(a)
        PROVE  IInv'
    BY <1>2, AppCancelInv, NotifyInv, DeinitInv, AppAddInv, NotifyNextInv, NotifyEndInv, DeinitFreeInv
       DEF AppStep
  <1>3. ASSUME Receive
        PROVE  IInv'
    BY <1>3, RecvAckInv, RecvResponseInv, RecvRequestInv DEF Receive
  <1>4. ASSUME CycleStep
        PROVE  IInv'
    BY <1>4, DeliverInv, ObsCheckInv, ObsAddInv, RespondInv, RespAddInv, RetansmitInv, CheckTimeoutInv,
       ForgetObserversInv, CallTimeoutInv, CycleEndInv DEF CycleStep
  <1>5. ASSUME NEW n \in Numbers, Elapse(n)
        PROVE  IInv'
    BY <1>5, ElapseInv
  <1> QED
    BY <1>1, <1>2, <1>3, <1>4, <1>5, StutterInv DEF Next

-----------------------------------------------------------------------------
(* The theorems.                                                            *)

\* Whatever the threads, the peers and the network do, every state of the server satisfies
\* the inductive invariant: the send list, the threads that are about to add to it and the
\* cycle never hold the same message, unless it is kept.
THEOREM Invariance ==
    Spec => []IInv
  <1>1. Init => IInv
    BY InitInv
  <1>2. IInv /\ [Next]_vars => IInv'
    BY NextInv
  <1> QED
    BY <1>1, <1>2, PTL DEF Spec

\* The lists of CoAPMessage.c and CoAPObserve.c never grow beyond their maxcount, a message
\* is written at most COAP_MAX_RETRY_COUNT + 1 times, and every variable has its type.
THEOREM TypeCorrect ==
    Spec => []TypeOK
  <1>1. IInv => TypeOK
    BY DEF IInv
  <1> QED
    BY <1>1, Invariance, PTL

\* A handler that hears of a message that is not kept has not heard of it before, or hears
\* of one more success of a request whose resource is observed.
LEMMA OneOutcomeStep ==
    ASSUME IInv, Next, NEW n \in DOMAIN msgs, ~Kept(n), result'[n] # result[n]
    PROVE  Open(n) \/ (n \in obsclient /\ result'[n].timeout = 0)
  <1> USE DEF IInv
  <1>1. n \in Numbers /\ result \in [Numbers -> [ok : Nat, timeout : Nat]]
    BY MsgFacts DEF TypeOK
  <1>2. CASE Deliver \/ CallTimeout
    <2>1. result'[n] # result[n] => n = c_node.n
      BY <1>1, <1>2 DEF Deliver, CallTimeout
    <2>2. Open(c_node.n) \/ Kept(c_node.n)
      BY <1>2 DEF Deliver, CallTimeout, CycleInv
    <2> QED
      BY <2>1, <2>2
  <1>3. ASSUME NEW m \in Numbers, RecvAck(m)
        PROVE  Open(n)
    <2>1. PICK i \in PlacesOfId(msgs[m].id) :
             IF IsResponse(sendlist[i].n) THEN result' = [result EXCEPT ![sendlist[i].n].ok = @ + 1]
                                          ELSE UNCHANGED result
      BY <1>3, Zenon DEF RecvAck
    <2>2. i \in DOMAIN sendlist /\ sendlist[i].n = n
      BY <1>1, <2>1 DEF PlacesOfId
    <2> QED
      BY <2>2 DEF ListInv
  <1>4. ASSUME NEW m \in Numbers, NEW observe \in BOOLEAN, RecvResponse(m, observe)
        PROVE  n \in obsclient /\ result'[n].timeout = 0
    <2>1. c_pc = "process" /\ ObsClientLater(m, observe)
      BY <1>4 DEF RecvResponse, Read
    <2>2. m = n /\ n \in obsclient /\ result' = [result EXCEPT ![n].ok = @ + 1]
      BY <1>1, <2>1 DEF ObsClientLater
    <2>3. result[n].timeout = 0 /\ result'[n] = [result[n] EXCEPT !.ok = @ + 1]
      BY <1>1, <2>1, <2>2, ObservedAside
    <2> QED
      BY <1>1, <2>2, <2>3, OneMore
  <1>5. \/ UNCHANGED result
        \/ Deliver \/ CallTimeout
        \/ \E m \in Numbers : RecvAck(m)
        \/ \E m \in Numbers, observe \in BOOLEAN : RecvResponse(m, observe)
    <2> HIDE DEF IInv
    <2>1. ASSUME NEW a \in Apps, NEW r \in Remotes, NEW kind \in {"con", "kept"}, AppSend(a, kind, r)
          PROVE  UNCHANGED result
      BY <2>1 DEF AppSend
    <2>2. ASSUME NEW a \in Apps, AppCancel(a) \/ Notify(a) \/ Deinit(a) \/ AppStep(a)
          PROVE  UNCHANGED result
      BY <2>2 DEF AppCancel, Notify, Deinit, AppStep, AppAdd, NotifyNext, NotifyEnd, DeinitFree, ghostVars
    <2>3. ASSUME NEW r \in Remotes, NEW con \in BOOLEAN, NEW observe \in BOOLEAN, RecvRequest(r, con, observe)
          PROVE  UNCHANGED result
      BY <2>3 DEF RecvRequest
    <2>4. ASSUME CycleStep
          PROVE  Deliver \/ CallTimeout \/ UNCHANGED result
      BY <2>4 DEF CycleStep, ObsCheck, ObsAdd, Respond, RespAdd, Retansmit, CheckTimeout,
         ForgetObservers, CycleEnd, ghostVars
    <2>5. ASSUME NEW m \in Numbers, Elapse(m)
          PROVE  UNCHANGED result
      BY <2>5 DEF Elapse, ghostVars
    <2> QED
      BY <2>1, <2>2, <2>3, <2>4, <2>5, Zenon DEF Next, Receive
  <1> QED
    BY <1>2, <1>3, <1>4, <1>5

\* The handler of a message that is not kept is told of one outcome, and of more only while
\* the resource it asked for is observed, and then of nothing but success: a response, an
\* acknowledgement and a timeout that race find the node unlinked.
THEOREM OneOutcomeAtMost ==
    Spec => OneOutcome
  <1>1. IInv /\ [Next]_vars =>
           [\A n \in DOMAIN msgs :
              ~Kept(n) /\ result'[n] # result[n] =>
                 \/ result[n] = [ok |-> 0, timeout |-> 0]
                 \/ n \in obsclient /\ result'[n].timeout = 0]_vars
    <2> SUFFICES ASSUME IInv, Next, NEW n \in DOMAIN msgs, ~Kept(n), result'[n] # result[n]
                 PROVE  \/ result[n] = [ok |-> 0, timeout |-> 0]
                        \/ n \in obsclient /\ result'[n].timeout = 0
      OBVIOUS
    <2>1. Open(n) \/ (n \in obsclient /\ result'[n].timeout = 0)
      BY OneOutcomeStep
    <2>2. result[n] \in [ok : Nat, timeout : Nat]
      BY MsgFacts DEF IInv, TypeOK
    <2>3. Open(n) => result[n] = [ok |-> 0, timeout |-> 0]
      BY <2>2 DEF Open
    <2> QED
      BY <2>1, <2>3
  <1> QED
    BY <1>1, Invariance, PTL DEF Spec, OneOutcome

\* A timeout is reported only for a message that was written COAP_MAX_RETRY_COUNT + 1 times
\* or whose id was acknowledged.
THEOREM TimeoutsAreEarned ==
    Spec => []TimeoutMeansTried
  <1>1. IInv => TimeoutMeansTried
    BY DEF IInv, ResultInv, Heard, TimeoutMeansTried
  <1> QED
    BY <1>1, Invariance, PTL

\* CoAPMessageId_gen gives two messages the same id only after a full round of the counter,
\* or to the two neighbours at the wrap.
THEOREM IdsRepeat ==
    Spec => []IdsRepeatOnlyAtWrap
  <1>1. IInv => IdsRepeatOnlyAtWrap
    BY DEF IInv
  <1> QED
    BY <1>1, Invariance, PTL

\* The node that CoAPRespMessage_handle and Check_timeout use without the mutex is in no
\* list and removed by no cancel, unless it is a kept one.
THEOREM CycleOwnsItsNode ==
    Spec => []OnlyKeptNodesDangle
  <1>1. IInv => OnlyKeptNodesDangle
    BY DEF IInv, CycleInv, Open, OnlyKeptNodesDangle
  <1> QED
    BY <1>1, Invariance, PTL


=============================================================================
