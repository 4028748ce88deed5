----------------------- MODULE MqttConnection_proofs -----------------------
(***************************************************************************)
(* Proofs about MqttConnection, for any number of threads, any intervals    *)
(* and numbers of tries, and any number of faults.                          *)
(***************************************************************************)
EXTENDS MqttConnection, TLAPS

\* Giving lock_yield back keeps the types of what it changes.
LEMMA UnlockTypes ==
    ASSUME TypeOK, NEW l \in {"cycle", "out"}, UnlockYield(l)
    PROVE  /\ lock_yield' \in Yielders \cup {"none"} /\ y_pc' \in Steps
           /\ pc' \in [Yielders -> {"out", "keepalive", "cycle"}]
  BY DEF TypeOK, UnlockYield, Steps

\* So does the end of a cycle.
LEMMA EndCycleTypes ==
    ASSUME TypeOK, EndCycle
    PROVE  /\ lock_yield' \in Yielders \cup {"none"} /\ y_pc' \in Steps
           /\ pc' \in [Yielders -> {"out", "keepalive", "cycle"}]
           /\ unit' \in {"new", "kept", "done"}
<1>1. PICK l \in {"cycle", "out"} : UnlockYield(l)
  BY DEF EndCycle
<1>2. unit' \in {"new", "kept", "done"}
  BY DEF EndCycle, TypeOK
<1> QED
  BY <1>1, <1>2, UnlockTypes

\* Every variable keeps its type: no action leads the client, its threads or its timers
\* out of the states the code names.
LEMMA TypeStep == TypeOK /\ [Next]_vars => TypeOK'
<1> SUFFICES ASSUME TypeOK, [Next]_vars
             PROVE  TypeOK'
  OBVIOUS
<1> USE KeepAliveAssumption, RetryAssumption
<1> QED
  <2>1. CASE Construct
    BY <2>1 DEF Construct, netVars, TypeOK, Steps
  <2>2. CASE Destroy
    BY <2>2 DEF Destroy, CloseSocket, NewSocket, threadVars, ghostVars, TypeOK, Steps
  <2>3. CASE TcpOk
    BY <2>3 DEF TcpOk, OpenSocket, NewSocket, clientVars, ghostVars, TypeOK, Steps
  <2>4. CASE TcpFail
    BY <2>4 DEF TcpFail, Fault, CloseSocket, NewSocket, clientVars, ghostVars, TypeOK, Steps
  <2>5. CASE ConnectOk
    BY <2>5 DEF ConnectOk, WriteMayPass, Advertise, clientVars, TypeOK, Steps
  <2>6. CASE ConnectFail
    BY <2>6 DEF ConnectFail, Fault, CloseSocket, NewSocket, WriteMayFail, clientVars,
       ghostVars, TypeOK, Steps
  <2>7. CASE ConnackAccepted
    BY <2>7 DEF ConnackAccepted, clientVars, ghostVars, TypeOK, Steps
  <2>8. CASE ConnackRejected
    BY <2>8 DEF ConnackRejected, Fault, CloseSocket, NewSocket, clientVars, ghostVars,
       TypeOK, Steps
  <2>9. CASE \E reopened \in BOOLEAN : ConnackTimeout(reopened)
    BY <2>9 DEF ConnackTimeout, Fault, CloseSocket, NewSocket, OpenSocket, AfterTimeout,
       clientVars, ghostVars, TypeOK, Steps
  <2>10. CASE Accepted
    BY <2>10 DEF Accepted, PingInterval, netVars, ghostVars, TypeOK, Steps
  <2>11. CASE ConstructFailed
    BY <2>11 DEF ConstructFailed, CloseSocket, NewSocket, ghostVars, TypeOK, Steps
  <2>12. CASE PingNotDue
    BY <2>12 DEF PingNotDue, PingDue, Kept, clientVars, netVars, ghostVars, TypeOK, Steps
  <2>13. CASE PingOk
    BY <2>13 DEF PingOk, WriteMayPass, PingInterval, PingDue, Kept, TypeOK, Steps
  <2>14. CASE PingFail
    BY <2>14 DEF PingFail, Fault, WriteMayFail, PingInterval, PingDue, Kept, netVars,
       TypeOK, Steps
  <2>15. CASE KeepaliveDone
    <3>1. UnlockYield("cycle")
      BY <2>15 DEF KeepaliveDone
    <3> QED
      BY <2>15, <3>1, UnlockTypes DEF KeepaliveDone, clientVars, netVars, ghostVars, TypeOK,
       Steps
  <2>16. CASE HandleDisconnect
    <3>1. UnlockYield("cycle")
      BY <2>16 DEF HandleDisconnect
    <3> QED
      BY <2>16, <3>1, UnlockTypes DEF HandleDisconnect, CloseSocket, NewSocket,
       NotifyDisconnect, TypeOK, Steps
  <2>17. CASE BackingOff
    <3>1. UnlockYield("cycle")
      BY <2>17 DEF BackingOff
    <3> QED
      BY <2>17, <3>1, UnlockTypes DEF BackingOff, BackoffRuns, netVars, ghostVars, TypeOK,
       Steps
  <2>18. CASE AttemptReconnect
    BY <2>18 DEF AttemptReconnect, CloseBefore, CloseSocket, NewSocket, clientVars,
       ghostVars, TypeOK, Steps
  <2>19. CASE Reconnected
    <3>1. UnlockYield("cycle")
      BY <2>19 DEF Reconnected
    <3> QED
      BY <2>19, <3>1, UnlockTypes DEF Reconnected, netVars, TypeOK, Steps
  <2>20. CASE ReconnectFailed
    <3>1. UnlockYield("cycle")
      BY <2>20 DEF ReconnectFailed
    <3> QED
      BY <2>20, <3>1, UnlockTypes DEF ReconnectFailed, NextInterval, Wait, netVars,
       ghostVars, TypeOK, Steps
  <2>21. CASE CycleNotConnected
    <3>1. EndCycle
      BY <2>21 DEF CycleNotConnected
    <3> QED
      BY <2>21, <3>1, EndCycleTypes DEF CycleNotConnected, clientVars, netVars, ghostVars,
       TypeOK, Steps
  <2>22. CASE CycleCheck
    BY <2>22 DEF CycleCheck, PeerDead, netVars, ghostVars, TypeOK, Steps
  <2>23. CASE ReadPacket
    <3>1. EndCycle
      BY <2>23 DEF ReadPacket
    <3> QED
      BY <2>23, <3>1, EndCycleTypes DEF ReadPacket, ProbesAfterPacket, ghostVars, TypeOK,
       Steps
  <2>24. CASE ReadTimeout
    <3>1. EndCycle
      BY <2>24 DEF ReadTimeout
    <3> QED
      BY <2>24, <3>1, EndCycleTypes DEF ReadTimeout, clientVars, netVars, ghostVars, TypeOK,
       Steps
  <2>25. CASE ReadError
    <3>1. EndCycle
      BY <2>25 DEF ReadError
    <3> QED
      BY <2>25, <3>1, EndCycleTypes DEF ReadError, netVars, ghostVars, TypeOK, Steps
  <2>26. CASE \E y \in Yielders : Yield(y)
    BY <2>26 DEF Yield, clientVars, netVars, ghostVars, TypeOK, Steps
  <2>27. CASE \E y \in Yielders : KeepaliveLock(y)
    BY <2>27 DEF KeepaliveLock, LockYield, clientVars, netVars, ghostVars, TypeOK, Steps
  <2>28. CASE \E y \in Yielders : CycleLock(y)
    BY <2>28 DEF CycleLock, LockYield, clientVars, netVars, ghostVars, TypeOK, Steps
  <2>29. CASE \E s \in Senders : SendCheck(s)
    BY <2>29 DEF SendCheck, clientVars, netVars, ghostVars, TypeOK, Steps
  <2>30. CASE \E s \in Senders : Send(s)
    BY <2>30 DEF Send, WriteMayPass, WriteMayFail, clientVars, TypeOK, Steps
  <2>31. CASE \E s \in Senders : SendError(s)
    BY <2>31 DEF SendError, netVars, ghostVars, TypeOK, Steps
  <2>32. CASE \E l \in {"silent", "reset"} : LinkFails(l)
    BY <2>32 DEF LinkFails, Fault, clientVars, threadVars, TypeOK, Steps
  <2>33. CASE BrokerSends
    BY <2>33 DEF BrokerSends, clientVars, threadVars, ghostVars, TypeOK, Steps
  <2>34. CASE Tick
    BY <2>34 DEF Tick, Count, GhostMax, Down, threadVars, netVars, TypeOK, Steps
  <2>35. CASE UNCHANGED vars
    BY <2>35 DEF vars, clientVars, threadVars, netVars, ghostVars, TypeOK, Steps
  <2> QED
    BY <2>1, <2>2, <2>3, <2>4, <2>5, <2>6, <2>7, <2>8, <2>9, <2>10, <2>11, <2>12, <2>13,
       <2>14, <2>15, <2>16, <2>17, <2>18, <2>19, <2>20, <2>21, <2>22, <2>23, <2>24,
       <2>25, <2>26, <2>27, <2>28, <2>29, <2>30, <2>31, <2>32, <2>33, <2>34, <2>35 DEF
       Next, ConnectStep, YieldStep

\* In every reachable state, and for every value of the constants, the client and its threads
\* have only the values the code gives them.
THEOREM TypeCorrect == Spec => []TypeOK
<1>1. Init => TypeOK
  BY KeepAliveAssumption, RetryAssumption DEF Init, TypeOK, Steps
<1> QED
  BY <1>1, TypeStep, PTL DEF Spec

(***************************************************************************)
(* The state, the socket and the events follow the step of the thread that  *)
(* connects: while it is in the handshake nobody sees CONNECTED, only the   *)
(* thread that holds lock_yield closes a socket, and a client that is not   *)
(* there has no thread inside.                                              *)
(***************************************************************************)
Handshake == {"tcp", "connect", "connack", "accepted", "failed"}

HandshakeInv ==
    /\ y_pc \in Handshake => client_state # "CONNECTED"
    /\ y_pc \in {"accepted", "reconnected"} => session = "accepted"
    /\ phase = "construct" => y_pc \in Handshake

EventInv ==
    /\ client_state = "RECONNECTING" => last_event = "DISCONNECT"
    /\ (y_pc \in Handshake /\ phase = "run") => last_event = "DISCONNECT"

NobodyInv ==
    /\ phase = "none" => y_pc = "none" /\ session = "closed" /\ client_state = "INVALID"
    /\ phase # "run" => /\ \A y \in Yielders : pc[y] = "out"
                        /\ \A s \in Senders : s_pc[s] = "idle"

IInv ==
    /\ HandshakeInv /\ EventInv /\ NobodyInv
    /\ ConnectedMeansAccepted /\ NoSocketLeak /\ ReconnectAfterDisconnect

\* Every action preserves the invariant.
LEMMA IInvStep == TypeOK /\ IInv /\ [Next]_vars => IInv'
<1> SUFFICES ASSUME TypeOK, IInv, [Next]_vars
             PROVE  IInv'
  OBVIOUS
<1> USE DEF IInv, HandshakeInv, EventInv, NobodyInv, Handshake, ConnectedMeansAccepted,
            NoSocketLeak, ReconnectAfterDisconnect
<1> QED
  <2>1. CASE Construct
    BY <2>1 DEF Construct, netVars, TypeOK
  <2>2. CASE Destroy
    BY <2>2 DEF Destroy, CloseSocket, NewSocket, threadVars, ghostVars, TypeOK
  <2>3. CASE TcpOk
    BY <2>3 DEF TcpOk, OpenSocket, NewSocket, clientVars, ghostVars, TypeOK
  <2>4. CASE TcpFail
    BY <2>4 DEF TcpFail, Fault, CloseSocket, NewSocket, clientVars, ghostVars, TypeOK
  <2>5. CASE ConnectOk
    BY <2>5 DEF ConnectOk, WriteMayPass, Advertise, clientVars, TypeOK
  <2>6. CASE ConnectFail
    BY <2>6 DEF ConnectFail, Fault, CloseSocket, NewSocket, WriteMayFail, clientVars,
       ghostVars, TypeOK
  <2>7. CASE ConnackAccepted
    BY <2>7 DEF ConnackAccepted, clientVars, ghostVars, TypeOK
  <2>8. CASE ConnackRejected
    BY <2>8 DEF ConnackRejected, Fault, CloseSocket, NewSocket, clientVars, ghostVars,
       TypeOK
  <2>9. CASE \E reopened \in BOOLEAN : ConnackTimeout(reopened)
    BY <2>9 DEF ConnackTimeout, Fault, CloseSocket, NewSocket, OpenSocket, AfterTimeout,
       clientVars, ghostVars, TypeOK
  <2>10. CASE Accepted
    BY <2>10 DEF Accepted, PingInterval, netVars, ghostVars, TypeOK
  <2>11. CASE ConstructFailed
    BY <2>11 DEF ConstructFailed, CloseSocket, NewSocket, ghostVars, TypeOK
  <2>12. CASE PingNotDue
    BY <2>12 DEF PingNotDue, PingDue, Kept, clientVars, netVars, ghostVars, TypeOK
  <2>13. CASE PingOk
    BY <2>13 DEF PingOk, WriteMayPass, PingInterval, PingDue, Kept, TypeOK
  <2>14. CASE PingFail
    BY <2>14 DEF PingFail, Fault, WriteMayFail, PingInterval, PingDue, Kept, netVars, TypeOK
  <2>15. CASE KeepaliveDone
    BY <2>15 DEF KeepaliveDone, UnlockYield, clientVars, netVars, ghostVars, TypeOK
  <2>16. CASE HandleDisconnect
    BY <2>16 DEF HandleDisconnect, CloseSocket, NewSocket, UnlockYield, NotifyDisconnect,
       TypeOK
  <2>17. CASE BackingOff
    BY <2>17 DEF BackingOff, UnlockYield, BackoffRuns, netVars, ghostVars, TypeOK
  <2>18. CASE AttemptReconnect
    BY <2>18 DEF AttemptReconnect, CloseBefore, CloseSocket, NewSocket, clientVars,
       ghostVars, TypeOK
  <2>19. CASE Reconnected
    BY <2>19 DEF Reconnected, UnlockYield, netVars, TypeOK
  <2>20. CASE ReconnectFailed
    BY <2>20 DEF ReconnectFailed, UnlockYield, NextInterval, Wait, netVars, ghostVars,
       TypeOK
  <2>21. CASE CycleNotConnected
    BY <2>21 DEF CycleNotConnected, EndCycle, UnlockYield, clientVars, netVars, ghostVars,
       TypeOK
  <2>22. CASE CycleCheck
    BY <2>22 DEF CycleCheck, PeerDead, netVars, ghostVars, TypeOK
  <2>23. CASE ReadPacket
    BY <2>23 DEF ReadPacket, EndCycle, UnlockYield, ProbesAfterPacket, ghostVars, TypeOK
  <2>24. CASE ReadTimeout
    BY <2>24 DEF ReadTimeout, EndCycle, UnlockYield, clientVars, netVars, ghostVars, TypeOK
  <2>25. CASE ReadError
    BY <2>25 DEF ReadError, EndCycle, UnlockYield, netVars, ghostVars, TypeOK
  <2>26. CASE \E y \in Yielders : Yield(y)
    BY <2>26 DEF Yield, clientVars, netVars, ghostVars, TypeOK
  <2>27. CASE \E y \in Yielders : KeepaliveLock(y)
    BY <2>27 DEF KeepaliveLock, LockYield, clientVars, netVars, ghostVars, TypeOK
  <2>28. CASE \E y \in Yielders : CycleLock(y)
    BY <2>28 DEF CycleLock, LockYield, clientVars, netVars, ghostVars, TypeOK
  <2>29. CASE \E s \in Senders : SendCheck(s)
    BY <2>29 DEF SendCheck, clientVars, netVars, ghostVars, TypeOK
  <2>30. CASE \E s \in Senders : Send(s)
    BY <2>30 DEF Send, WriteMayPass, WriteMayFail, clientVars, TypeOK
  <2>31. CASE \E s \in Senders : SendError(s)
    BY <2>31 DEF SendError, netVars, ghostVars, TypeOK
  <2>32. CASE \E l \in {"silent", "reset"} : LinkFails(l)
    BY <2>32 DEF LinkFails, Fault, clientVars, threadVars, TypeOK
  <2>33. CASE BrokerSends
    BY <2>33 DEF BrokerSends, clientVars, threadVars, ghostVars, TypeOK
  <2>34. CASE Tick
    BY <2>34 DEF Tick, Count, GhostMax, Down, threadVars, netVars, TypeOK
  <2>35. CASE UNCHANGED vars
    BY <2>35 DEF vars, clientVars, threadVars, netVars, ghostVars, TypeOK
  <2> QED
    BY <2>1, <2>2, <2>3, <2>4, <2>5, <2>6, <2>7, <2>8, <2>9, <2>10, <2>11, <2>12, <2>13,
       <2>14, <2>15, <2>16, <2>17, <2>18, <2>19, <2>20, <2>21, <2>22, <2>23, <2>24,
       <2>25, <2>26, <2>27, <2>28, <2>29, <2>30, <2>31, <2>32, <2>33, <2>34, <2>35 DEF
       Next, ConnectStep, YieldStep

\* Every state of the client satisfies the invariant, for every number of threads and faults.
THEOREM SessionInvariance == Spec => []IInv
<1>1. Init => TypeOK /\ IInv
  BY KeepAliveAssumption, RetryAssumption DEF Init, TypeOK, Steps, IInv, HandshakeInv, EventInv,
     NobodyInv, Handshake, ConnectedMeansAccepted, NoSocketLeak, ReconnectAfterDisconnect
<1> QED
  BY <1>1, TypeStep, IInvStep, PTL DEF Spec

\* A client in state CONNECTED has a connection the broker has accepted, whoever wrote the
\* state last.
THEOREM SessionCorrect == Spec => []ConnectedMeansAccepted
<1>1. IInv => ConnectedMeansAccepted
  BY DEF IInv
<1> QED
  BY <1>1, SessionInvariance, PTL

\* wrapper_mqtt_connect never opens a socket over an open one.
THEOREM SocketsClosed == Spec => []NoSocketLeak
<1>1. IInv => NoSocketLeak
  BY DEF IInv
<1> QED
  BY <1>1, SessionInvariance, PTL

\* The application sees DISCONNECT before RECONNECT.
THEOREM EventsInOrder == Spec => []ReconnectAfterDisconnect
<1>1. IInv => ReconnectAfterDisconnect
  BY DEF IInv
<1> QED
  BY <1>1, SessionInvariance, PTL

\* The doubled interval is limited before it is waited for, and never doubled from the
\* maximum on, whatever the minimum and the maximum are.
THEOREM BackoffCorrect == Spec => []BackoffBounded
<1>1. Init => TypeOK /\ BackoffBounded
  BY KeepAliveAssumption, RetryAssumption DEF Init, TypeOK, Steps, BackoffBounded
<1>2. TypeOK /\ BackoffBounded /\ [Next]_vars => BackoffBounded'
  <2> SUFFICES ASSUME TypeOK, BackoffBounded, [Next]_vars
               PROVE  BackoffBounded'
    OBVIOUS
  <2> USE KeepAliveAssumption, RetryAssumption DEF TypeOK, BackoffBounded
  <2> QED
    <3>1. CASE Construct
      BY <3>1 DEF Construct, netVars
    <3>2. CASE Destroy
      BY <3>2 DEF Destroy, CloseSocket, NewSocket, threadVars, ghostVars
    <3>3. CASE TcpOk
      BY <3>3 DEF TcpOk, OpenSocket, NewSocket, clientVars, ghostVars
    <3>4. CASE TcpFail
      BY <3>4 DEF TcpFail, Fault, CloseSocket, NewSocket, clientVars, ghostVars
    <3>5. CASE ConnectOk
      BY <3>5 DEF ConnectOk, WriteMayPass, Advertise, clientVars
    <3>6. CASE ConnectFail
      BY <3>6 DEF ConnectFail, Fault, CloseSocket, NewSocket, WriteMayFail, clientVars,
         ghostVars
    <3>7. CASE ConnackAccepted
      BY <3>7 DEF ConnackAccepted, clientVars, ghostVars
    <3>8. CASE ConnackRejected
      BY <3>8 DEF ConnackRejected, Fault, CloseSocket, NewSocket, clientVars, ghostVars
    <3>9. CASE \E reopened \in BOOLEAN : ConnackTimeout(reopened)
      BY <3>9 DEF ConnackTimeout, Fault, CloseSocket, NewSocket, OpenSocket, AfterTimeout,
         clientVars, ghostVars
    <3>10. CASE Accepted
      BY <3>10 DEF Accepted, PingInterval, netVars, ghostVars
    <3>11. CASE ConstructFailed
      BY <3>11 DEF ConstructFailed, CloseSocket, NewSocket, ghostVars
    <3>12. CASE PingNotDue
      BY <3>12 DEF PingNotDue, PingDue, Kept, clientVars, netVars, ghostVars
    <3>13. CASE PingOk
      BY <3>13 DEF PingOk, WriteMayPass, PingInterval, PingDue, Kept
    <3>14. CASE PingFail
      BY <3>14 DEF PingFail, Fault, WriteMayFail, PingInterval, PingDue, Kept, netVars
    <3>15. CASE KeepaliveDone
      BY <3>15 DEF KeepaliveDone, UnlockYield, clientVars, netVars, ghostVars
    <3>16. CASE HandleDisconnect
      BY <3>16 DEF HandleDisconnect, CloseSocket, NewSocket, UnlockYield, NotifyDisconnect
    <3>17. CASE BackingOff
      BY <3>17 DEF BackingOff, UnlockYield, BackoffRuns, netVars, ghostVars
    <3>18. CASE AttemptReconnect
      BY <3>18 DEF AttemptReconnect, CloseBefore, CloseSocket, NewSocket, clientVars,
         ghostVars
    <3>19. CASE Reconnected
      BY <3>19 DEF Reconnected, UnlockYield, netVars
    <3>20. CASE ReconnectFailed
      BY <3>20 DEF ReconnectFailed, UnlockYield, NextInterval, Wait, netVars, ghostVars
    <3>21. CASE CycleNotConnected
      BY <3>21 DEF CycleNotConnected, EndCycle, UnlockYield, clientVars, netVars, ghostVars
    <3>22. CASE CycleCheck
      BY <3>22 DEF CycleCheck, PeerDead, netVars, ghostVars
    <3>23. CASE ReadPacket
      BY <3>23 DEF ReadPacket, EndCycle, UnlockYield, ProbesAfterPacket, ghostVars
    <3>24. CASE ReadTimeout
      BY <3>24 DEF ReadTimeout, EndCycle, UnlockYield, clientVars, netVars, ghostVars
    <3>25. CASE ReadError
      BY <3>25 DEF ReadError, EndCycle, UnlockYield, netVars, ghostVars
    <3>26. CASE \E y \in Yielders : Yield(y)
      BY <3>26 DEF Yield, clientVars, netVars, ghostVars
    <3>27. CASE \E y \in Yielders : KeepaliveLock(y)
      BY <3>27 DEF KeepaliveLock, LockYield, clientVars, netVars, ghostVars
    <3>28. CASE \E y \in Yielders : CycleLock(y)
      BY <3>28 DEF CycleLock, LockYield, clientVars, netVars, ghostVars
    <3>29. CASE \E s \in Senders : SendCheck(s)
      BY <3>29 DEF SendCheck, clientVars, netVars, ghostVars
    <3>30. CASE \E s \in Senders : Send(s)
      BY <3>30 DEF Send, WriteMayPass, WriteMayFail, clientVars
    <3>31. CASE \E s \in Senders : SendError(s)
      BY <3>31 DEF SendError, netVars, ghostVars
    <3>32. CASE \E l \in {"silent", "reset"} : LinkFails(l)
      BY <3>32 DEF LinkFails, Fault, clientVars, threadVars
    <3>33. CASE BrokerSends
      BY <3>33 DEF BrokerSends, clientVars, threadVars, ghostVars
    <3>34. CASE Tick
      BY <3>34 DEF Tick, Count, GhostMax, Down, threadVars, netVars
    <3>35. CASE UNCHANGED vars
      BY <3>35 DEF vars, clientVars, threadVars, netVars, ghostVars
    <3> QED
      BY <3>1, <3>2, <3>3, <3>4, <3>5, <3>6, <3>7, <3>8, <3>9, <3>10, <3>11, <3>12,
         <3>13, <3>14, <3>15, <3>16, <3>17, <3>18, <3>19, <3>20, <3>21, <3>22, <3>23,
         <3>24, <3>25, <3>26, <3>27, <3>28, <3>29, <3>30, <3>31, <3>32, <3>33, <3>34,
         <3>35 DEF Next, ConnectStep, YieldStep
<1> QED
  BY <1>1, <1>2, TypeStep, PTL DEF Spec

(***************************************************************************)
(* Keep-alive: a unit in which the keepalive has run leaves time until the  *)
(* next ping, and the silence of the client and the time left to its next   *)
(* ping do not exceed the interval together.                                *)
(***************************************************************************)
PingInv ==
    /\ (client_state = "CONNECTED" \/ y_pc = "reconnected") /\ unit # "new" => ping_left > 0
    /\ y_pc \in {"connack", "accepted"} => quiet = 0
    /\ (client_state = "CONNECTED" \/ y_pc = "reconnected") /\ link = "up" /\ missed = 0 =>
           quiet + ping_left <= KeepAlive
    /\ y_pc \in {"connack", "accepted", "reconnected"} \/ client_state = "CONNECTED" =>
         advertised >= KeepAlive

\* Every action preserves it.
LEMMA PingStep == TypeOK /\ IInv /\ PingInv /\ [Next]_vars => PingInv'
<1> SUFFICES ASSUME TypeOK, IInv, PingInv, [Next]_vars
             PROVE  PingInv'
  OBVIOUS
<1> USE KeepAliveAssumption, RetryAssumption DEF IInv, HandshakeInv, Handshake, NobodyInv,
        ConnectedMeansAccepted, PingInv
<1> QED
  <2>1. CASE Construct
    BY <2>1 DEF Construct, netVars, TypeOK
  <2>2. CASE Destroy
    BY <2>2 DEF Destroy, CloseSocket, NewSocket, threadVars, ghostVars, TypeOK
  <2>3. CASE TcpOk
    BY <2>3 DEF TcpOk, OpenSocket, NewSocket, clientVars, ghostVars, TypeOK
  <2>4. CASE TcpFail
    BY <2>4 DEF TcpFail, Fault, CloseSocket, NewSocket, clientVars, ghostVars, TypeOK
  <2>5. CASE ConnectOk
    BY <2>5 DEF ConnectOk, WriteMayPass, Advertise, clientVars, TypeOK
  <2>6. CASE ConnectFail
    BY <2>6 DEF ConnectFail, Fault, CloseSocket, NewSocket, WriteMayFail, clientVars,
       ghostVars, TypeOK
  <2>7. CASE ConnackAccepted
    BY <2>7 DEF ConnackAccepted, clientVars, ghostVars, TypeOK
  <2>8. CASE ConnackRejected
    BY <2>8 DEF ConnackRejected, Fault, CloseSocket, NewSocket, clientVars, ghostVars,
       TypeOK
  <2>9. CASE \E reopened \in BOOLEAN : ConnackTimeout(reopened)
    BY <2>9 DEF ConnackTimeout, Fault, CloseSocket, NewSocket, OpenSocket, AfterTimeout,
       clientVars, ghostVars, TypeOK
  <2>10. CASE Accepted
    BY <2>10 DEF Accepted, PingInterval, netVars, ghostVars, TypeOK
  <2>11. CASE ConstructFailed
    BY <2>11 DEF ConstructFailed, CloseSocket, NewSocket, ghostVars, TypeOK
  <2>12. CASE PingNotDue
    BY <2>12 DEF PingNotDue, PingDue, Kept, clientVars, netVars, ghostVars, TypeOK
  <2>13. CASE PingOk
    BY <2>13 DEF PingOk, WriteMayPass, PingInterval, PingDue, Kept, TypeOK
  <2>14. CASE PingFail
    BY <2>14 DEF PingFail, Fault, WriteMayFail, PingInterval, PingDue, Kept, netVars, TypeOK
  <2>15. CASE KeepaliveDone
    BY <2>15 DEF KeepaliveDone, UnlockYield, clientVars, netVars, ghostVars, TypeOK
  <2>16. CASE HandleDisconnect
    BY <2>16 DEF HandleDisconnect, CloseSocket, NewSocket, UnlockYield, NotifyDisconnect,
       TypeOK
  <2>17. CASE BackingOff
    BY <2>17 DEF BackingOff, UnlockYield, BackoffRuns, netVars, ghostVars, TypeOK
  <2>18. CASE AttemptReconnect
    BY <2>18 DEF AttemptReconnect, CloseBefore, CloseSocket, NewSocket, clientVars,
       ghostVars, TypeOK
  <2>19. CASE Reconnected
    BY <2>19 DEF Reconnected, UnlockYield, netVars, TypeOK
  <2>20. CASE ReconnectFailed
    BY <2>20 DEF ReconnectFailed, UnlockYield, NextInterval, Wait, netVars, ghostVars,
       TypeOK
  <2>21. CASE CycleNotConnected
    BY <2>21 DEF CycleNotConnected, EndCycle, UnlockYield, clientVars, netVars, ghostVars,
       TypeOK
  <2>22. CASE CycleCheck
    BY <2>22 DEF CycleCheck, PeerDead, netVars, ghostVars, TypeOK
  <2>23. CASE ReadPacket
    BY <2>23 DEF ReadPacket, EndCycle, UnlockYield, ProbesAfterPacket, ghostVars, TypeOK
  <2>24. CASE ReadTimeout
    BY <2>24 DEF ReadTimeout, EndCycle, UnlockYield, clientVars, netVars, ghostVars, TypeOK
  <2>25. CASE ReadError
    BY <2>25 DEF ReadError, EndCycle, UnlockYield, netVars, ghostVars, TypeOK
  <2>26. CASE \E y \in Yielders : Yield(y)
    BY <2>26 DEF Yield, clientVars, netVars, ghostVars, TypeOK
  <2>27. CASE \E y \in Yielders : KeepaliveLock(y)
    BY <2>27 DEF KeepaliveLock, LockYield, clientVars, netVars, ghostVars, TypeOK
  <2>28. CASE \E y \in Yielders : CycleLock(y)
    BY <2>28 DEF CycleLock, LockYield, clientVars, netVars, ghostVars, TypeOK
  <2>29. CASE \E s \in Senders : SendCheck(s)
    BY <2>29 DEF SendCheck, clientVars, netVars, ghostVars, TypeOK
  <2>30. CASE \E s \in Senders : Send(s)
    BY <2>30 DEF Send, WriteMayPass, WriteMayFail, clientVars, TypeOK
  <2>31. CASE \E s \in Senders : SendError(s)
    BY <2>31 DEF SendError, netVars, ghostVars, TypeOK
  <2>32. CASE \E l \in {"silent", "reset"} : LinkFails(l)
    BY <2>32 DEF LinkFails, Fault, clientVars, threadVars, TypeOK
  <2>33. CASE BrokerSends
    BY <2>33 DEF BrokerSends, clientVars, threadVars, ghostVars, TypeOK
  <2>34. CASE Tick
    BY <2>34 DEF Tick, Count, GhostMax, Down, threadVars, netVars, TypeOK
  <2>35. CASE UNCHANGED vars
    BY <2>35 DEF vars, clientVars, threadVars, netVars, ghostVars, TypeOK
  <2> QED
    BY <2>1, <2>2, <2>3, <2>4, <2>5, <2>6, <2>7, <2>8, <2>9, <2>10, <2>11, <2>12, <2>13,
       <2>14, <2>15, <2>16, <2>17, <2>18, <2>19, <2>20, <2>21, <2>22, <2>23, <2>24,
       <2>25, <2>26, <2>27, <2>28, <2>29, <2>30, <2>31, <2>32, <2>33, <2>34, <2>35 DEF
       Next, ConnectStep, YieldStep

\* A connected client is never silent for longer than it told the broker, for every interval.
THEOREM KeepAliveCorrect == Spec => []KeepAliveHonoured
<1>1. Init => TypeOK /\ IInv /\ PingInv
  BY KeepAliveAssumption, RetryAssumption DEF Init, TypeOK, Steps, IInv, HandshakeInv, EventInv,
     NobodyInv, Handshake, ConnectedMeansAccepted, NoSocketLeak, ReconnectAfterDisconnect, PingInv
<1>2. TypeOK /\ PingInv => KeepAliveHonoured
  BY KeepAliveAssumption DEF TypeOK, PingInv, KeepAliveHonoured
<1> QED
  BY <1>1, <1>2, TypeStep, IInvStep, PingStep, PTL DEF Spec

(***************************************************************************)
(* Probes: a client is Live from the moment iotx_mc_handle_reconnect or     *)
(* IOT_MQTT_Construct has its CONNACK.  A live client whose probes exceed   *)
(* PROBE_MAX has sent the last one in this unit and has not run the cycle   *)
(* that finds out; while the network works every probe is matched by an     *)
(* answer that is owed or can be read; and once it is silent every further   *)
(* probe takes one interval of the time that is left.                       *)
(***************************************************************************)
Live == client_state = "CONNECTED" \/ y_pc = "reconnected"

\* The time p pings take.
TimeOf(p) == p * KeepAlive

ProbeInv ==
    /\ ping_left <= KeepAlive
    /\ y_pc = "reconnected" => keepalive_probes = 0
    /\ y_pc = "read" /\ client_state = "CONNECTED" => keepalive_probes <= PROBE_MAX
    /\ Live /\ keepalive_probes > PROBE_MAX =>
          keepalive_probes = PROBE_MAX + 1 /\ unit = "kept" /\ ping_left = KeepAlive

AnswerInv ==
    Live /\ link = "up" =>
        /\ keepalive_probes <= owed + inbox
        /\ owed = 1 => ping_left = KeepAlive
        /\ KeepAlive > 1 => /\ keepalive_probes <= 1
                            /\ ping_left < KeepAlive /\ unit = "done" => keepalive_probes = 0
                            /\ ping_left < KeepAlive - 1 => keepalive_probes = 0

SilenceInv ==
    /\ y_pc = "accepted" /\ link = "silent" => silent_for = 0
    /\ Live /\ link = "silent" =>
        /\ inbox = 1 => silent_for <= 1 /\ (silent_for = 1 => unit # "done")
        /\ missed = 0 => silent_for + ping_left <= TimeOf(keepalive_probes + 1) + 1

\* One more ping takes one more interval.
LEMMA TimeFacts ==
    \A p \in Nat : /\ TimeOf(p) \in Nat /\ TimeOf(p + 1) = TimeOf(p) + KeepAlive
                   /\ TimeOf(p + 1) >= KeepAlive
  BY KeepAliveAssumption DEF TimeOf

\* The ghost counter of a tick.
LEMMA CountFacts ==
    \A n \in Nat : Count(n) \in Nat /\ Count(n) <= n + 1
  BY DEF Count

\* Every action preserves the bound on the probes.
LEMMA ProbeStep ==
    ASSUME TypeOK, IInv, PingInv, ProbeInv, [Next]_vars
    PROVE  ProbeInv'
<1> USE KeepAliveAssumption, RetryAssumption, CountFacts DEF IInv, HandshakeInv, Handshake, NobodyInv,
        ConnectedMeansAccepted, PingInv, Live, ProbeInv
<1> QED
  <2>1. CASE Construct
    BY <2>1 DEF Construct, netVars, TypeOK
  <2>2. CASE Destroy
    BY <2>2 DEF Destroy, CloseSocket, NewSocket, threadVars, ghostVars, TypeOK
  <2>3. CASE TcpOk
    BY <2>3 DEF TcpOk, OpenSocket, NewSocket, clientVars, ghostVars, TypeOK
  <2>4. CASE TcpFail
    BY <2>4 DEF TcpFail, Fault, CloseSocket, NewSocket, clientVars, ghostVars, TypeOK
  <2>5. CASE ConnectOk
    BY <2>5 DEF ConnectOk, WriteMayPass, Advertise, clientVars, TypeOK
  <2>6. CASE ConnectFail
    BY <2>6 DEF ConnectFail, Fault, CloseSocket, NewSocket, WriteMayFail, clientVars,
       ghostVars, TypeOK
  <2>7. CASE ConnackAccepted
    BY <2>7 DEF ConnackAccepted, clientVars, ghostVars, TypeOK
  <2>8. CASE ConnackRejected
    BY <2>8 DEF ConnackRejected, Fault, CloseSocket, NewSocket, clientVars, ghostVars,
       TypeOK
  <2>9. CASE \E reopened \in BOOLEAN : ConnackTimeout(reopened)
    BY <2>9 DEF ConnackTimeout, Fault, CloseSocket, NewSocket, OpenSocket, AfterTimeout,
       clientVars, ghostVars, TypeOK
  <2>10. CASE Accepted
    BY <2>10 DEF Accepted, PingInterval, netVars, ghostVars, TypeOK
  <2>11. CASE ConstructFailed
    BY <2>11 DEF ConstructFailed, CloseSocket, NewSocket, ghostVars, TypeOK
  <2>12. CASE PingNotDue
    BY <2>12 DEF PingNotDue, PingDue, Kept, clientVars, netVars, ghostVars, TypeOK
  <2>13. CASE PingOk
    BY <2>13 DEF PingOk, WriteMayPass, PingInterval, PingDue, Kept, TypeOK
  <2>14. CASE PingFail
    BY <2>14 DEF PingFail, Fault, WriteMayFail, PingInterval, PingDue, Kept, netVars, TypeOK
  <2>15. CASE KeepaliveDone
    BY <2>15 DEF KeepaliveDone, UnlockYield, clientVars, netVars, ghostVars, TypeOK
  <2>16. CASE HandleDisconnect
    BY <2>16 DEF HandleDisconnect, CloseSocket, NewSocket, UnlockYield, NotifyDisconnect,
       TypeOK
  <2>17. CASE BackingOff
    BY <2>17 DEF BackingOff, UnlockYield, BackoffRuns, netVars, ghostVars, TypeOK
  <2>18. CASE AttemptReconnect
    BY <2>18 DEF AttemptReconnect, CloseBefore, CloseSocket, NewSocket, clientVars,
       ghostVars, TypeOK
  <2>19. CASE Reconnected
    BY <2>19 DEF Reconnected, UnlockYield, netVars, TypeOK
  <2>20. CASE ReconnectFailed
    BY <2>20 DEF ReconnectFailed, UnlockYield, NextInterval, Wait, netVars, ghostVars,
       TypeOK
  <2>21. CASE CycleNotConnected
    BY <2>21 DEF CycleNotConnected, EndCycle, UnlockYield, clientVars, netVars, ghostVars,
       TypeOK
  <2>22. CASE CycleCheck
    BY <2>22 DEF CycleCheck, PeerDead, netVars, ghostVars, TypeOK
  <2>23. CASE ReadPacket
    BY <2>23 DEF ReadPacket, EndCycle, UnlockYield, ProbesAfterPacket, ghostVars, TypeOK
  <2>24. CASE ReadTimeout
    BY <2>24 DEF ReadTimeout, EndCycle, UnlockYield, clientVars, netVars, ghostVars, TypeOK
  <2>25. CASE ReadError
    BY <2>25 DEF ReadError, EndCycle, UnlockYield, netVars, ghostVars, TypeOK
  <2>26. CASE \E y \in Yielders : Yield(y)
    BY <2>26 DEF Yield, clientVars, netVars, ghostVars, TypeOK
  <2>27. CASE \E y \in Yielders : KeepaliveLock(y)
    BY <2>27 DEF KeepaliveLock, LockYield, clientVars, netVars, ghostVars, TypeOK
  <2>28. CASE \E y \in Yielders : CycleLock(y)
    BY <2>28 DEF CycleLock, LockYield, clientVars, netVars, ghostVars, TypeOK
  <2>29. CASE \E s \in Senders : SendCheck(s)
    BY <2>29 DEF SendCheck, clientVars, netVars, ghostVars, TypeOK
  <2>30. CASE \E s \in Senders : Send(s)
    BY <2>30 DEF Send, WriteMayPass, WriteMayFail, clientVars, TypeOK
  <2>31. CASE \E s \in Senders : SendError(s)
    BY <2>31 DEF SendError, netVars, ghostVars, TypeOK
  <2>32. CASE \E l \in {"silent", "reset"} : LinkFails(l)
    BY <2>32 DEF LinkFails, Fault, clientVars, threadVars, TypeOK
  <2>33. CASE BrokerSends
    BY <2>33 DEF BrokerSends, clientVars, threadVars, ghostVars, TypeOK
  <2>34. CASE Tick
    BY <2>34 DEF Tick, Down, threadVars, netVars, TypeOK
  <2>35. CASE UNCHANGED vars
    BY <2>35 DEF vars, clientVars, threadVars, netVars, ghostVars, TypeOK
  <2> QED
    BY <2>1, <2>2, <2>3, <2>4, <2>5, <2>6, <2>7, <2>8, <2>9, <2>10, <2>11, <2>12, <2>13,
       <2>14, <2>15, <2>16, <2>17, <2>18, <2>19, <2>20, <2>21, <2>22, <2>23, <2>24,
       <2>25, <2>26, <2>27, <2>28, <2>29, <2>30, <2>31, <2>32, <2>33, <2>34, <2>35 DEF
       Next, ConnectStep, YieldStep

\* Every action preserves the balance of probes and answers.
LEMMA AnswerStep ==
    ASSUME TypeOK, IInv, PingInv, ProbeInv, AnswerInv, [Next]_vars
    PROVE  AnswerInv'
<1> USE KeepAliveAssumption, RetryAssumption, CountFacts DEF IInv, HandshakeInv, Handshake, NobodyInv,
        ConnectedMeansAccepted, PingInv, Live, ProbeInv, AnswerInv
<1> QED
  <2>1. CASE Construct
    BY <2>1 DEF Construct, netVars, TypeOK
  <2>2. CASE Destroy
    BY <2>2 DEF Destroy, CloseSocket, NewSocket, threadVars, ghostVars, TypeOK
  <2>3. CASE TcpOk
    BY <2>3 DEF TcpOk, OpenSocket, NewSocket, clientVars, ghostVars, TypeOK
  <2>4. CASE TcpFail
    BY <2>4 DEF TcpFail, Fault, CloseSocket, NewSocket, clientVars, ghostVars, TypeOK
  <2>5. CASE ConnectOk
    BY <2>5 DEF ConnectOk, WriteMayPass, Advertise, clientVars, TypeOK
  <2>6. CASE ConnectFail
    BY <2>6 DEF ConnectFail, Fault, CloseSocket, NewSocket, WriteMayFail, clientVars,
       ghostVars, TypeOK
  <2>7. CASE ConnackAccepted
    BY <2>7 DEF ConnackAccepted, clientVars, ghostVars, TypeOK
  <2>8. CASE ConnackRejected
    BY <2>8 DEF ConnackRejected, Fault, CloseSocket, NewSocket, clientVars, ghostVars,
       TypeOK
  <2>9. CASE \E reopened \in BOOLEAN : ConnackTimeout(reopened)
    BY <2>9 DEF ConnackTimeout, Fault, CloseSocket, NewSocket, OpenSocket, AfterTimeout,
       clientVars, ghostVars, TypeOK
  <2>10. CASE Accepted
    BY <2>10 DEF Accepted, PingInterval, netVars, ghostVars, TypeOK
  <2>11. CASE ConstructFailed
    BY <2>11 DEF ConstructFailed, CloseSocket, NewSocket, ghostVars, TypeOK
  <2>12. CASE PingNotDue
    BY <2>12 DEF PingNotDue, PingDue, Kept, clientVars, netVars, ghostVars, TypeOK
  <2>13. CASE PingOk
    BY <2>13 DEF PingOk, WriteMayPass, PingInterval, PingDue, Kept, TypeOK
  <2>14. CASE PingFail
    BY <2>14 DEF PingFail, Fault, WriteMayFail, PingInterval, PingDue, Kept, netVars, TypeOK
  <2>15. CASE KeepaliveDone
    BY <2>15 DEF KeepaliveDone, UnlockYield, clientVars, netVars, ghostVars, TypeOK
  <2>16. CASE HandleDisconnect
    BY <2>16 DEF HandleDisconnect, CloseSocket, NewSocket, UnlockYield, NotifyDisconnect,
       TypeOK
  <2>17. CASE BackingOff
    BY <2>17 DEF BackingOff, UnlockYield, BackoffRuns, netVars, ghostVars, TypeOK
  <2>18. CASE AttemptReconnect
    BY <2>18 DEF AttemptReconnect, CloseBefore, CloseSocket, NewSocket, clientVars,
       ghostVars, TypeOK
  <2>19. CASE Reconnected
    BY <2>19 DEF Reconnected, UnlockYield, netVars, TypeOK
  <2>20. CASE ReconnectFailed
    BY <2>20 DEF ReconnectFailed, UnlockYield, NextInterval, Wait, netVars, ghostVars,
       TypeOK
  <2>21. CASE CycleNotConnected
    BY <2>21 DEF CycleNotConnected, EndCycle, UnlockYield, clientVars, netVars, ghostVars,
       TypeOK
  <2>22. CASE CycleCheck
    BY <2>22 DEF CycleCheck, PeerDead, netVars, ghostVars, TypeOK
  <2>23. CASE ReadPacket
    BY <2>23 DEF ReadPacket, EndCycle, UnlockYield, ProbesAfterPacket, ghostVars, TypeOK
  <2>24. CASE ReadTimeout
    BY <2>24 DEF ReadTimeout, EndCycle, UnlockYield, clientVars, netVars, ghostVars, TypeOK
  <2>25. CASE ReadError
    BY <2>25 DEF ReadError, EndCycle, UnlockYield, netVars, ghostVars, TypeOK
  <2>26. CASE \E y \in Yielders : Yield(y)
    BY <2>26 DEF Yield, clientVars, netVars, ghostVars, TypeOK
  <2>27. CASE \E y \in Yielders : KeepaliveLock(y)
    BY <2>27 DEF KeepaliveLock, LockYield, clientVars, netVars, ghostVars, TypeOK
  <2>28. CASE \E y \in Yielders : CycleLock(y)
    BY <2>28 DEF CycleLock, LockYield, clientVars, netVars, ghostVars, TypeOK
  <2>29. CASE \E s \in Senders : SendCheck(s)
    BY <2>29 DEF SendCheck, clientVars, netVars, ghostVars, TypeOK
  <2>30. CASE \E s \in Senders : Send(s)
    BY <2>30 DEF Send, WriteMayPass, WriteMayFail, clientVars, TypeOK
  <2>31. CASE \E s \in Senders : SendError(s)
    BY <2>31 DEF SendError, netVars, ghostVars, TypeOK
  <2>32. CASE \E l \in {"silent", "reset"} : LinkFails(l)
    BY <2>32 DEF LinkFails, Fault, clientVars, threadVars, TypeOK
  <2>33. CASE BrokerSends
    BY <2>33 DEF BrokerSends, clientVars, threadVars, ghostVars, TypeOK
  <2>34. CASE Tick
    BY <2>34 DEF Tick, Down, threadVars, netVars, TypeOK
  <2>35. CASE UNCHANGED vars
    BY <2>35 DEF vars, clientVars, threadVars, netVars, ghostVars, TypeOK
  <2> QED
    BY <2>1, <2>2, <2>3, <2>4, <2>5, <2>6, <2>7, <2>8, <2>9, <2>10, <2>11, <2>12, <2>13,
       <2>14, <2>15, <2>16, <2>17, <2>18, <2>19, <2>20, <2>21, <2>22, <2>23, <2>24,
       <2>25, <2>26, <2>27, <2>28, <2>29, <2>30, <2>31, <2>32, <2>33, <2>34, <2>35 DEF
       Next, ConnectStep, YieldStep

\* Every action preserves the account of the silence.
LEMMA SilenceStep ==
    ASSUME TypeOK, IInv, PingInv, ProbeInv, SilenceInv, [Next]_vars
    PROVE  SilenceInv'
<1> USE KeepAliveAssumption, RetryAssumption, CountFacts DEF IInv, HandshakeInv, Handshake, NobodyInv,
        ConnectedMeansAccepted, PingInv, Live, ProbeInv, SilenceInv
<1>t. /\ TimeOf(keepalive_probes + 1) \in Nat /\ TimeOf(keepalive_probes + 1) >= KeepAlive
      /\ TimeOf((keepalive_probes + 1) + 1) = TimeOf(keepalive_probes + 1) + KeepAlive
  <2>1. keepalive_probes \in Nat /\ keepalive_probes + 1 \in Nat
    BY DEF TypeOK
  <2> QED
    BY <2>1, TimeFacts
<1>u. TimeOf(keepalive_probes' + 1) \in Nat /\ TimeOf(keepalive_probes' + 1) >= KeepAlive
  <2>1. keepalive_probes' \in Nat
    BY TypeStep DEF TypeOK
  <2> QED
    BY <2>1, TimeFacts
<1>v. ping_left \in Nat /\ ping_left' \in Nat /\ silent_for \in Nat /\ silent_for' \in Nat
  BY TypeStep DEF TypeOK
<1> QED
  <2>1. CASE Construct
    BY <2>1 DEF Construct, netVars, TypeOK
  <2>2. CASE Destroy
    BY <2>2 DEF Destroy, CloseSocket, NewSocket, threadVars, ghostVars, TypeOK
  <2>3. CASE TcpOk
    BY <2>3 DEF TcpOk, OpenSocket, NewSocket, clientVars, ghostVars, TypeOK
  <2>4. CASE TcpFail
    BY <2>4 DEF TcpFail, Fault, CloseSocket, NewSocket, clientVars, ghostVars, TypeOK
  <2>5. CASE ConnectOk
    BY <2>5 DEF ConnectOk, WriteMayPass, Advertise, clientVars, TypeOK
  <2>6. CASE ConnectFail
    BY <2>6 DEF ConnectFail, Fault, CloseSocket, NewSocket, WriteMayFail, clientVars,
       ghostVars, TypeOK
  <2>7. CASE ConnackAccepted
    BY <2>7 DEF ConnackAccepted, clientVars, ghostVars, TypeOK
  <2>8. CASE ConnackRejected
    BY <2>8 DEF ConnackRejected, Fault, CloseSocket, NewSocket, clientVars, ghostVars,
       TypeOK
  <2>9. CASE \E reopened \in BOOLEAN : ConnackTimeout(reopened)
    BY <2>9 DEF ConnackTimeout, Fault, CloseSocket, NewSocket, OpenSocket, AfterTimeout,
       clientVars, ghostVars, TypeOK
  <2>10. CASE Accepted
    BY <1>t, <1>u, <1>v, <2>10 DEF Accepted, PingInterval, netVars, ghostVars, TypeOK
  <2>11. CASE ConstructFailed
    BY <2>11 DEF ConstructFailed, CloseSocket, NewSocket, ghostVars, TypeOK
  <2>12. CASE PingNotDue
    BY <2>12 DEF PingNotDue, PingDue, Kept, clientVars, netVars, ghostVars, TypeOK
  <2>13. CASE PingOk
    BY <1>t, <1>u, <1>v, <2>13 DEF PingOk, WriteMayPass, PingInterval, PingDue, Kept, TypeOK
  <2>14. CASE PingFail
    BY <1>t, <1>u, <1>v, <2>14 DEF PingFail, Fault, WriteMayFail, PingInterval, PingDue, Kept, netVars, TypeOK
  <2>15. CASE KeepaliveDone
    BY <2>15 DEF KeepaliveDone, UnlockYield, clientVars, netVars, ghostVars, TypeOK
  <2>16. CASE HandleDisconnect
    BY <2>16 DEF HandleDisconnect, CloseSocket, NewSocket, UnlockYield, NotifyDisconnect,
       TypeOK
  <2>17. CASE BackingOff
    BY <2>17 DEF BackingOff, UnlockYield, BackoffRuns, netVars, ghostVars, TypeOK
  <2>18. CASE AttemptReconnect
    BY <2>18 DEF AttemptReconnect, CloseBefore, CloseSocket, NewSocket, clientVars,
       ghostVars, TypeOK
  <2>19. CASE Reconnected
    BY <2>19 DEF Reconnected, UnlockYield, netVars, TypeOK
  <2>20. CASE ReconnectFailed
    BY <2>20 DEF ReconnectFailed, UnlockYield, NextInterval, Wait, netVars, ghostVars,
       TypeOK
  <2>21. CASE CycleNotConnected
    BY <2>21 DEF CycleNotConnected, EndCycle, UnlockYield, clientVars, netVars, ghostVars,
       TypeOK
  <2>22. CASE CycleCheck
    BY <2>22 DEF CycleCheck, PeerDead, netVars, ghostVars, TypeOK
  <2>23. CASE ReadPacket
    BY <1>t, <1>u, <1>v, <2>23 DEF ReadPacket, EndCycle, UnlockYield, ProbesAfterPacket, ghostVars, TypeOK
  <2>24. CASE ReadTimeout
    BY <2>24 DEF ReadTimeout, EndCycle, UnlockYield, clientVars, netVars, ghostVars, TypeOK
  <2>25. CASE ReadError
    BY <2>25 DEF ReadError, EndCycle, UnlockYield, netVars, ghostVars, TypeOK
  <2>26. CASE \E y \in Yielders : Yield(y)
    BY <2>26 DEF Yield, clientVars, netVars, ghostVars, TypeOK
  <2>27. CASE \E y \in Yielders : KeepaliveLock(y)
    BY <2>27 DEF KeepaliveLock, LockYield, clientVars, netVars, ghostVars, TypeOK
  <2>28. CASE \E y \in Yielders : CycleLock(y)
    BY <2>28 DEF CycleLock, LockYield, clientVars, netVars, ghostVars, TypeOK
  <2>29. CASE \E s \in Senders : SendCheck(s)
    BY <2>29 DEF SendCheck, clientVars, netVars, ghostVars, TypeOK
  <2>30. CASE \E s \in Senders : Send(s)
    BY <2>30 DEF Send, WriteMayPass, WriteMayFail, clientVars, TypeOK
  <2>31. CASE \E s \in Senders : SendError(s)
    BY <2>31 DEF SendError, netVars, ghostVars, TypeOK
  <2>32. CASE \E l \in {"silent", "reset"} : LinkFails(l)
    BY <1>t, <1>u, <1>v, <2>32 DEF LinkFails, Fault, clientVars, threadVars, TypeOK
  <2>33. CASE BrokerSends
    BY <2>33 DEF BrokerSends, clientVars, threadVars, ghostVars, TypeOK
  <2>34. CASE Tick
    BY <1>t, <1>u, <1>v, <2>34 DEF Tick, Down, threadVars, netVars, TypeOK
  <2>35. CASE UNCHANGED vars
    BY <2>35 DEF vars, clientVars, threadVars, netVars, ghostVars, TypeOK
  <2> QED
    BY <2>1, <2>2, <2>3, <2>4, <2>5, <2>6, <2>7, <2>8, <2>9, <2>10, <2>11, <2>12, <2>13,
       <2>14, <2>15, <2>16, <2>17, <2>18, <2>19, <2>20, <2>21, <2>22, <2>23, <2>24,
       <2>25, <2>26, <2>27, <2>28, <2>29, <2>30, <2>31, <2>32, <2>33, <2>34, <2>35 DEF
       Next, ConnectStep, YieldStep

LEMMA WatchInit ==
    ASSUME Init
    PROVE  TypeOK /\ IInv /\ PingInv /\ ProbeInv /\ AnswerInv /\ SilenceInv
<1>1. TypeOK /\ IInv /\ PingInv
  BY KeepAliveAssumption, RetryAssumption DEF Init, TypeOK, Steps, IInv, HandshakeInv, EventInv,
     NobodyInv, Handshake, ConnectedMeansAccepted, NoSocketLeak, ReconnectAfterDisconnect, PingInv
<1>2. ProbeInv /\ AnswerInv /\ SilenceInv
  BY KeepAliveAssumption, RetryAssumption DEF Init, ProbeInv, AnswerInv, SilenceInv, Live
<1> QED
  BY <1>1, <1>2

\* iotx_mc_cycle takes no broker for dead that answers its pings in time, for every interval
\* and every number of probes from IOTX_MC_KEEPALIVE_PROBE_MAX on.
THEOREM AliveStaysAlive == Spec => []NoFalseAlarm
<1>1. TypeOK /\ AnswerInv => NoFalseAlarm
  BY KeepAliveAssumption, RetryAssumption, ProbeAssumption
     DEF TypeOK, AnswerInv, Live, NoFalseAlarm, PeerDead
<1> QED
  BY <1>1, WatchInit, TypeStep, IInvStep, PingStep, ProbeStep, AnswerStep, PTL DEF Spec

\* A silent peer is found out within PROBE_MAX + 1 intervals and one unit, whatever they are.
THEOREM SilenceEnds == Spec => []SilenceDetected
<1>1. TypeOK /\ ProbeInv /\ SilenceInv => SilenceDetected
  <2> SUFFICES ASSUME TypeOK, ProbeInv, SilenceInv,
                      client_state = "CONNECTED", link = "silent", missed = 0
               PROVE  silent_for <= (PROBE_MAX + 1) * KeepAlive + 1
    BY DEF SilenceDetected
  <2>1. /\ keepalive_probes \in Nat /\ ping_left \in Nat /\ silent_for \in Nat
        /\ silent_for + ping_left <= TimeOf(keepalive_probes + 1) + 1
    BY DEF TypeOK, SilenceInv, Live
  <2>2. CASE keepalive_probes > PROBE_MAX
    <3>1. keepalive_probes = PROBE_MAX + 1 /\ ping_left = KeepAlive
      BY <2>2 DEF ProbeInv, Live
    <3>2. TimeOf(keepalive_probes + 1) = TimeOf(PROBE_MAX + 1) + KeepAlive
          /\ TimeOf(PROBE_MAX + 1) \in Nat
      BY <3>1, RetryAssumption, TimeFacts
    <3>3. silent_for <= TimeOf(PROBE_MAX + 1) + 1
      BY <2>1, <3>1, <3>2, KeepAliveAssumption
    <3> QED
      BY <3>3 DEF TimeOf
  <2>3. CASE keepalive_probes <= PROBE_MAX
    <3>1. TimeOf(keepalive_probes + 1) <= TimeOf(PROBE_MAX + 1)
      <4>1. \A p, q, k \in Nat : p <= q => (p + 1) * k <= (q + 1) * k
        OBVIOUS
      <4> QED
        BY <2>1, <2>3, <4>1, KeepAliveAssumption, RetryAssumption DEF TimeOf
    <3>2. TimeOf(keepalive_probes + 1) \in Nat /\ TimeOf(PROBE_MAX + 1) \in Nat
      BY <2>1, RetryAssumption, TimeFacts
    <3>3. silent_for <= TimeOf(PROBE_MAX + 1) + 1
      BY <2>1, <3>1, <3>2
    <3> QED
      BY <3>3 DEF TimeOf
  <2> QED
    BY <2>1, <2>2, <2>3, RetryAssumption
<1> QED
  BY <1>1, WatchInit, TypeStep, IInvStep, PingStep, ProbeStep, SilenceStep, PTL DEF Spec
=============================================================================
