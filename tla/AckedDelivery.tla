--------------------------- MODULE AckedDelivery ---------------------------
(***************************************************************************)
(* What a QoS 1 publish promises, without packets, ids, lists or sockets:  *)
(* a message is kept while its call goes on; the call accepts it or gives  *)
(* it up; an accepted message is kept until it was delivered, and it is    *)
(* delivered in the end.  MqttPublish implements this.                     *)
(***************************************************************************)
CONSTANT Messages

VARIABLES
    kept,       \* messages that will be sent (again)
    sent,       \* messages whose call returned success
    delivered   \* messages the receiver has

vars == <<kept, sent, delivered>>

Init == kept = {} /\ sent = {} /\ delivered = {}

\* A call takes the message ...
Keep(m) ==
    /\ m \notin kept \cup sent \cup delivered
    /\ kept' = kept \cup {m}
    /\ UNCHANGED <<sent, delivered>>

\* ... and returns success, or an error and forgets it.
Accept(m) ==
    /\ m \in kept \ sent
    /\ sent' = sent \cup {m}
    /\ UNCHANGED <<kept, delivered>>

GiveUp(m) ==
    /\ m \in kept \ (sent \cup delivered)
    /\ kept' = kept \ {m}
    /\ UNCHANGED <<sent, delivered>>

\* Only what was accepted, and is still kept, arrives for the first time.
Deliver(m) ==
    /\ m \in (kept \cap sent) \ delivered
    /\ delivered' = delivered \cup {m}
    /\ UNCHANGED <<kept, sent>>

\* The acknowledgement: only what has arrived is forgotten.
Settle(m) ==
    /\ m \in kept \cap delivered
    /\ kept' = kept \ {m}
    /\ UNCHANGED <<sent, delivered>>

Next == \E m \in Messages : Keep(m) \/ Accept(m) \/ GiveUp(m) \/ Deliver(m) \/ Settle(m)

Spec == Init /\ [][Next]_vars

Arrives == \A m \in Messages : m \in sent ~> m \in delivered

LiveSpec == Spec /\ Arrives

=============================================================================
