# A TLA+ verification project for iotkit-embedded

The repository is a C SDK that connects a device to a cloud IoT platform.  This
directory holds TLA+ modules that model its core logic, TLC configurations that
check them on small instances, and TLAPS proofs of the results that matter most.
Paths below are relative to the repository's `src/`.

## The system

| Part | State it keeps | Operations | Interaction |
| --- | --- | --- | --- |
| MQTT client (`mqtt/impl/iotx_mqtt_client.c`) | `client_state`, `packet_id`, the republish list `list_pub_wait_ack`, the handler list `list_sub_handle`, the list of synchronous subscriptions, `keepalive_probes`, timers, one socket | connect, publish, subscribe, unsubscribe, yield, disconnect, release | application threads call it; the thread in `IOT_MQTT_Yield` reads packets, calls the user's handlers, pings, republishes and reconnects |
| MQTT api (`mqtt/mqtt_api.c`) | the singleton client and the list of offline subscriptions | construct, destroy, forwarders | owns the client |
| Timers (`infra/infra_timer.c`) | a 32-bit point in time | start, countdown, expired, left, spend | used by every timeout above |
| Device model (`dev_model/`) | IPC queue, message cache, device list, shadow, list of synchronous upstream requests, connection fd table | open, connect, report, yield, close | one thread in `IOT_Linkkit_Yield`; a reader thread fills the IPC queue; callers wait on semaphores |
| CoAP server and client (`coap/`) | list of confirmable messages in flight, message id counter, observers, resources | send, cancel, cycle | a server thread, and the application |
| OTA (`ota/`) | download state machine, fetched bytes, md5/sha256 | init, fetch, report, ioctl | over MQTT and HTTP |
| Device binding, dynamic registration, HTTP, HTTP/2, AT modules, Wi-Fi provisioning | retry timers, a stream list, a mailbox ring, radio frames | | |

What is hard here: application threads, the yield thread and user callbacks share
a client through seven mutexes, of which several are released and taken again
inside one operation; a write may be torn and a read may end inside a packet;
reconnects race publishes that still believe in the old connection; packet ids and
clocks wrap; every list is bounded; a request waits on a semaphore for an answer
that may come late, twice, never, or before the wait has begun.  PROJECT.json lists
these hazards line by line, each with the properties that are about it.

What makes each part correct:

- publish: no accepted QoS 1 message is forgotten, the republish list is bounded,
  ids in flight are distinct, calls return, messages arrive;
- subscriptions: a synchronous success is a grant by the broker, wait nodes have
  owners, no handler twice, every handler called once per message;
- connection: CONNECTED means an accepted session, a dead peer is found and a live
  one is left alone, the back-off is bounded, the connection comes back;
- topics: what is accepted is well formed in every level that `infra_strtok` returns, and
  matching is matching by levels;
- gateway requests: a success is the cloud's acceptance of this request, wait
  nodes neither leak nor vanish, cache and queue are bounded (the cache by its limit and
  one), calls return;
- CoAP server: a message has one outcome unless its resource is observed, a timeout was earned by retransmissions,
  nobody uses a node another thread has freed, every message comes to an end;
- OTA: what is called a success is stored as it was announced, an update fails only
  for a cause, a download ends and the handle takes the next announcement.

## Modules

Each component has a module; `MC<module>` holds the model values and symmetry sets
of its TLC instances and `<module>_proofs` its theorems.  The build modelled is the
default one of `make.settings`; `DmUpstream` is about the build with
`DEVICE_MODEL_GATEWAY`, `CoapServer` and `OtaFetch` about builds with the CoAP server
(its `COAP_SERV_MULTITHREAD` is on in `CoAPServer.h`) and OTA switched on.  A TLA+ name is the C name where there is one (without the
`iotx_mc_` prefix).  A hold of a lock over straight-line code is one action; where
the code gives a lock back, calls out, or blocks, a new action begins.  Ghost
variables are marked as such where they are declared.

### MqttPublish

`wrapper_mqtt_publish` and `MQTTPublish`, one process for each application thread:
`PubCheckState`, `PubNextId`, `PubLockList`, `PubPush`, `PubReject`, `PubSendOk`,
`PubSendFail`, `PubNetErr` are the program points between which another thread may
run.  `OtherRequest` is the id drawn by a subscribe or unsubscribe.  The yield thread
has one action for each outcome of a read (`YReadPacket`, `YReadTimeout`,
`YReadError`, `YReadPartial`, `YReadJunk`), `YMask` for `iotx_mc_mask_pubInfo_from`,
`YProcLock` to `YResendErr` for the walk of `MQTTPubInfoProc`, and `YClose` to
`YConnackFail` for the keepalive and the reconnect.

The socket is two bounded queues of packets.  A failed write may leave a torn packet;
the broker then either hangs up or completes it with the bytes of the next packet
(`BrokerMerge`) and acknowledges a message it never saw.  A read that times out
inside a packet leaves the stream desynchronised: the code keeps the state CONNECTED
and what follows is read as junk, which may look like a PUBACK of an id in `JunkIds`.
A message is named by the ordinal of its id (`seq`), so that the model tells apart
what the 16-bit ids do not.

### AckedDelivery

What a QoS 1 publish promises, with three sets and no packets: a message is kept while
its call goes on, accepted or given up, delivered only when it was accepted, forgotten
only when it was delivered, and delivered in the end.  `MqttPublish` instantiates it as
`AD` with the mapping

- `kept`: the ordinals of the nodes of `list_pub_wait_ack` that are not acknowledged;
- `sent`: the messages whose publish returned success (`accepted`);
- `delivered`: the messages the broker has (`received`),

and `ReliableDelivery` says that every behaviour of `MqttPublish` is one of
`AckedDelivery`.  Republication, reconnects, duplicates and stale acknowledgements are
stutter steps of it.

### MqttTopic

`check_topic` (over `infra_strtok`) and `is_topic_matched` as functions on sequences
of characters.  `Calls(s)` is the history of the static position of `infra_strtok` over
the calls of the token loop, `curn(f, n)` that of the cursor in the name over the turns of
the matching loop.  `infra_strtok` is modelled with what it does at the end of its
buffer: it does not return a last token of a single character, so `check_topic` does not
look at such a level.  `WellFormedFilter`, `WellFormedName` and `Covers` are the
definitions they are compared with; they know no cursor, only levels, and a level is what
lies between a slash and the next one.

### MqttSubscribe

Extends `MqttTopic`.  `IOT_MQTT_Subscribe`, `IOT_MQTT_Subscribe_Sync` and
`IOT_MQTT_Unsubscribe` called by threads and, as the caller `"cb"`, from inside
callbacks; `list_sub_handle` and `list_sub_sync_ack`; SUBACK with grant or refusal;
the delivery walk, which drops `lock_generic` around each callback while other
callers add and remove handlers.  A waiting synchronous subscription yields itself,
so any thread may be the one that holds `lock_yield` and reads.  A call whose write broke
the connection sets the state in a step of its own (`SubNetErr`, `UnsubNetErr`), perhaps
after another thread has reconnected.  A write that fails because the state is not
CONNECTED any more sets it in the same step: two threads could otherwise undo each other's
reconnects without end, and the ids they draw would have no bound.

### MqttConnection

`Construct`, `Destroy`, `wrapper_mqtt_connect` with its TCP tries and
`_mqtt_connect` with its CONNECT tries (`TcpOk` ... `Accepted`, `ConstructFailed`),
`wrapper_mqtt_yield` by any number of threads (`KeepaliveLock`, `CycleLock`), pings
and `keepalive_probes`, senders that write and report network errors without
`lock_yield`, the events DISCONNECT and RECONNECT, and the doubling of the reconnect
interval.  Time is discrete: timers count down, and each unit sees a keepalive and a
cycle.  The timers are `infra_timer.c` without the wrap of its 32-bit clock.

### DmUpstream

`IOT_Linkkit_Connect` of a sub-device (register, then topo add) and
`IOT_Linkkit_Report` of login, logout and topo delete.  Callers hold the linkkit
mutex and the one of `dm_api.c`, draw a message id, insert the request in the message
cache, publish it, insert a node in the list of synchronous callbacks and wait on its
semaphore.  The reader takes an answer, looks the request up in the cache, changes
the sub-device's status and queues an event (dropped when the queue is full).  When the
cloud answers a message of a sub-device with error 520, `dm_msg_ext_error_reply` logs the
device in again from the reader (`Relogin`, `ReloginInsert`, `ReloginPublish`): it draws an
id, inserts and publishes without the mutex of `dm_api.c`, beside a caller that does the
same, and nobody waits for the answer.  Drawing an id is one step for both.  In the code
`iotx_report_id` increments and reads a global without a lock of its own
(`infra_report.c:46`); that a caller and the reader do not meet inside it is an assumption
of `AnswersRequests` and `OneNodePerWaiter`.  The
dispatcher times cached requests out and hands events to the waiting nodes.  The
cloud answers any request any number of times, at any time, or never.

### RequestService

What those calls promise, without threads, cache, queue and semaphores: a call makes
requests one after the other, each after the one before was granted, may fail at any
time, and succeeds only when every request it made was granted.  `DmUpstream`
instantiates it as `RS` with the mapping

- `phase`: the step of the caller, with all steps inside a call as `"busy"`;
- `made`: the requests it has waited for and the one it has drawn an id for;
- `issued`: `g_report_id`;
- `granted`: the requests the cloud has answered with success (`accepted`),

and `AnswersRequests` says that every behaviour of `DmUpstream` is one of
`RequestService`.  The cache, timeouts, events, posts and second answers are stutter
steps of it.

### LinkedList

`Without(s, S)`: a list after a walk (`list_for_each_entry_safe`) that unlinks every node
that meets a condition.  `MQTTUnsubscribe`, the end of a synchronous subscription,
`CoAPMessageId_cancel` and the removal of observers are such walks.  It is `SelectSeq`
without recursion: the nodes that stay, taken by ascending position.

### CoapServer

The list of messages that wait for an answer, its retransmission and timeouts, the
observers of both directions, and the two mutexes around them.  The process `"coap"` is
`CoAPMessage_cycle`: read datagrams until none is left (`Read`, `RecvAck`,
`RecvResponse`, `RecvRequest` and what they call), then `Retansmit`, then
`CheckTimeout`; `Apps` are threads that send (`AppSend`, `AppAdd`), cancel and
notify.  Where the code releases a mutex and goes on with the node it has found, a new
action begins (`Deliver`, `CallTimeout`).  `CreateMessage` and `ListAdd` are two steps,
as in the code: a message is written before it is in the list.  Lack of memory is
possible at every allocation; a full list has the same outcome, and the list does not
fill up at the bounds of the run.  Datagrams that change nothing are left out.  `Init` is a server whose
message ids are about to wrap.  The device may have no address: the read loop
compares the sender of a datagram with the own address, a read that timed out has
no sender, and with no own address the two are equal, so the loop does not end.

### OtaFetch

One OTA handle, on which three threads work without a lock: the thread that yields to
MQTT runs `ota_callback`, assignment by assignment (`Push`, `FirmwareParams` or
`ConfigParams`, `OpenChannel`, `SetType`, `SetState`); the dispatching thread runs the
status checks, which read the state, the type and the flag one after the other, tell the
application and then set the flag (`CheckState`, `CheckType`, `TellUser`, `SetReported`);
the application thread runs a `perform_sync` (`Begin`, then a loop of `FetchChunk`, `Write`,
`IsFetchFinish`, and `Check`), whose ends are `Finish`.  Once the whole file was read the
connection is closed, and a further fetch connects again and gets the file from its start:
`ofc_Fetch` then returns what it got less what it had got before, an error for a file of
several buffers and an empty chunk for a file of one (`Drained`, `FetchEmpty`).  That the
second answer of the server is as long as the first is assumed, and that the last chunk
does not fill the buffer to its last byte (`_utils_fill_rx_buf` would then leave the
connection open).  A file is a sequence of chunks, a checksum the
sequence of chunks that was hashed.  A chunk may arrive corrupted, a fetch, a write, an
allocation or the parse of an announcement may fail.  The callbacks of
`iotx_ota_set_fetch_callback` are registered by nobody in the tree and left out.

## Runs

Deadlock checking is on in every run except `coap_server` and `ota`: a server that was
shut down, and a device to which nothing is announced any more, stop.

| Run | Instance | Shows |
| --- | --- | --- |
| `publish_wrap` | 2 publishers, ids 1..2, 3 ids drawn, buffers of 1, QoS 0, 1 and 2, partial reads, junk acknowledgements | `WaitListBounded`, `InFlightIdsDistinct` across the wrap |
| `publish_liveness` | 2 publishers, ids 1..3, 2 messages, list and socket buffers of 2, 1 network failure | `AtLeastOnce`, `ReliableDelivery`, `PublishReturns` |
| `topic_rules` | every filter of up to 7 characters of `/ a + # ctl`; for filters of up to 5, every name of up to 4 of `/ a b` | validation and matching against the definitions by levels |
| `subscribe_sync` | 2 threads and callbacks, 1 filter, 2 calls, 1 fault (refusal, break or no memory) | `SyncSuccessIsGranted`, `SyncNodesOwned`, `CallbackNeverYields`, `SyncReturns` |
| `subscribe_deliver` | 2 threads, 2 filters that match 1 name, 3 calls, 2 faults | `HandlersDistinct`, `WalkComplete` |
| `subscribe_in_event` | an event handler that subscribes synchronously | violates `SyncCanTimeOut` |
| `unsubscribe_keeps_handler` | subscribe, then unsubscribe | violates `UnsubscribeRemoves` |
| `connection` | 2 yielding threads, 1 sender, ping every 2 units, 1 probe, back-off 2 to 3, 2 TCP tries, 2 faults | eight invariants and `Recovers` |
| `gateway_requests` | 2 callers that connect and log out 1 sub-device, cache and queue of 1, 2 calls, 1 fault (no memory, or a login by the reader) | `AnswersRequests`, `OneNodePerWaiter`, `CacheBounded` |
| `gateway_liveness` | 1 caller, 2 calls of all four types, no fault | `CallReturns`, `CacheDrains` |
| `coap_server` | 1 application thread, 1 peer, ids up to 3, 1 retransmission, 2 messages, 2 datagrams | `OneOutcome`, `TimeoutMeansTried`, `IdsRepeatOnlyAtWrap`, `OnlyKeptNodesDangle`, `Resolved` |
| `ota` | 2 firmwares (2 chunks, 1 chunk), 1 configuration of 2 chunks, 3 announcements, 2 faults | `SuccessIsStored`, `FailsForCause`, `DownloadEnds` |

Why the bounds are enough.  Every race of the publish path is between two
publishers, or one publisher and the yield thread; two messages suffice for one to be
torn, acknowledged late or merged with the other, one failure for a reconnect, and a
list and buffers of two for both to fill up.  `publish_wrap` makes the counter go
round with a list as long as the id space.  In `MqttSubscribe` two threads and the
callback make three callers on one or two handlers, the fewest for one to remove what
another adds while the third walks.  In `MqttConnection` the limit of the back-off is
no multiple of its minimum, so that the stored interval overshoots it, as 60 s is
overshot from 1 s in the code.  A cache and a queue of one
are full as soon as one entry is in them, and two inserters are what it takes to exceed
the limit; login and topo delete go through the same code as logout, so they are left to
the run of one caller.  In `CoapServer` two messages are one to
time out and one to share its id, and two datagrams are an acknowledgement or response
and its duplicate.  In `OtaFetch` a file of two chunks is the shortest whose download
can stop in the middle, a file of one chunk the only one that can be fetched empty, and
three announcements are one to leave an event behind, one to be missed and one to meet
either half done; with four TLC has found no further violation of the invariants.  The proofs lift the bounds for
every safety property.

### Fairness

- `MqttPublish`: threads inside a call go on, `IOT_MQTT_Yield` is called again and
  again, the broker reads and answers, time passes.  Strong fairness for
  `PubLockList`: `_mqtt_cycle` sleeps without locks between two walks, so a waiting
  publisher gets `lock_list_pub`.  Strong fairness for `YReadError`: a peer that is
  gone is reported by the socket or by the probes, which `MqttConnection` checks
  (`SilenceDetected`).
- `MqttSubscribe`: callers and the yielding thread go on, a thread that waits for
  `lock_yield` gets it, the timer of a synchronous subscription runs out.
- `MqttConnection`: threads go on, a yield ends, locks are obtained, time passes, a
  live broker answers.  The bound on faults is what "the network is well again" means.
- `CoapServer`: the application keeps yielding to the server, threads go on and get the
  mutexes they wait for again and again (strong fairness), timers run out.  Nothing is
  assumed of the network.
- `OtaFetch`: threads go on, the application asks for every file it is told of, a fetch
  ends with a chunk or an error (its timeout is a second).  Strong fairness for each
  status check: every `iotx_dm_dispatch` makes both.  No announcement and no
  fault is fair.
- `DmUpstream`: callers get the mutexes they wait for, `IOT_Linkkit_Yield` is called
  again and again, cached requests age.  Nothing is assumed of the cloud.  `CallReturns`
  begins when a call has the linkkit mutex; how long it waits for it is not its subject.

### Findings

- **Unsubscribe leaves the handler** (`iotx_mqtt_client.c:2450`).  The topic that
  `MQTTUnsubscribe` compares the handlers with has length `strlen + 1`.  For a
  filter that does not end in a wildcard no comparison succeeds, the handler
  stays in `list_sub_handle`, and it runs if the broker still sends such a message or
  another filter matches it.  `mqtt_api.h:283` calls the result "Unsubscribe
  successful."
- **A synchronous subscription in an event handler** (`iotx_mqtt_client.c:1800`).
  The handlers of DISCONNECT and RECONNECT run with `lock_yield` held and without
  `_in_yield_cb`, so `IOT_MQTT_Subscribe_Sync` called there waits for a lock of its
  own thread, although `mqtt_api.h:260` promises "time in ms to wait".

Some properties hold only with exceptions that are part of the code; each is named in
the property, and TLC reaches it.

- `Resolved`: `CoAPObsServer_notify` sends, and so takes the mutex of the send list,
  with the mutex of the observers held; `Check_timeout` takes them the other way
  round (`CoAPObserve.c:207`).  And a server that reads while the device has no
  address never leaves the loop of `CoAPMessage_process` (`CoAPMessage.c:560`).
- `OnlyKeptNodesDangle`: a kept node may be cancelled and freed while its handler runs,
  and `node->keep` is read after it (`CoAPMessage.c:417`).
- `OneOutcome`: a response that finds no node in the send list is handed to the handler of
  an observed request as a notification, a duplicate of the first response as well
  (`CoAPObserve.c:270`), so such a handler hears of several successes.
- `CacheBounded`: `dm_msg_cache_insert` compares the size with the limit outside the mutex
  of the cache (`dm_message_cache.c:79`), and the reader inserts beside a caller: the cache
  may hold one request more than its limit.
- `TimeoutMeansTried`: acknowledgements are matched by the id alone, and the ids of
  two neighbours are equal at the wrap (`CoAPMessage.c:59`).
- `SuccessIsStored`: a configuration announced between the last chunk and the check
  restarts the hash and not the storage of the download that is going on
  (`iotx_ota.c:212`); `dm_cota_perform_sync` ignores a failed write (`dm_cota.c:150`).
- `DownloadEnds`: `IOT_OTA_FetchYield` clears a type that an announcement has just set
  (`iotx_ota.c:700`); a `perform_sync` that finds a file of the other kind leaves
  `is_report_new_config` set (`dm_cota.c:131`), and so does one whose event a status check
  has queued for a download that was just over (`dm_fota.c:174`).  In these cases the handle
  stays FETCHING and refuses every later announcement.  A `perform_sync` of a file of one
  chunk that was lost for lack of memory gets empty chunks for ever (`ota_fetch.c:74`).

Read in the code and not the subject of a run: a synchronous subscription by one
thread returns at once, without its SUBACK, while `_in_yield_cb` is set for another
thread's callback; a sender may write on a reopened socket before the CONNECT packet;
the answer to a topo delete sets the status ATTACHED (`dm_message.c:1456`), which
`iotx_dm.h:149` describes as "Receive Subdev Topo Add Reply".

## Proofs

All theorems hold for every value of the constants that the named ASSUMEs of the
modules allow: any number of threads, any limits, any number of faults.  tlapm checks
them to the last leaf.

### MqttPublish_proofs

`TypeCorrect` (`TypeOK`), `ListBounded` (`WaitListBounded`), `NeverForgotten`
(`AtLeastOnce`), `IdsDistinct` (`InFlightIdsDistinct`) and `Refinement`.

`BaseInv` is the part that does not depend on ids: `LockInv` (who holds which lock
is told by where the threads are), `ReqInv` (a request under way has an ordinal of
its own, not yet accepted) and `NodeInv` (the node a publisher pushed is still the
last one when it returns to it, which is why `list_del` after a failed write removes
the right node).

`AtLeastOnce` alone is not inductive: an acknowledgement could be on its way for
a message the broker never saw.  `DeliveryInv` says why none is ever believed.
`GoodAcks` are the ids that may be acknowledged without harm: messages
received, and ordinals of publishes that failed (`DeadSeqs`).  Everything in the two
streams is good (`StreamSafe`) as long as the yield thread is `Trusting`.  A
publisher's torn packet is good, because its call is about to return an error.  A torn
*re*publication is not, but the yield thread that wrote it is the one that reads: it
passes through `refail` and DISCONNECTED, and closes the socket, before it reads again.
The step lemmas `RequestStep`, `ListStep`, `UpStep`, `DownStep`, `TrustStep` and
`CounterStep` each say what any action may do to one part of the state;
`DeliveryNext` combines them without a further case split over actions.

The premise is that at most `IOTX_MC_PACKET_ID_MAX` ids have been drawn and that
junk is no PUBACK.  Without it the statement is false of the code: an acknowledgement
carries nothing but the id.

`IdsDistinct` (`InFlightIdsDistinct`), without any premise on wraps: by `IdInv`, every
id in use is its ordinal less a whole number of rounds of the counter (`OnRound`), so two
messages with one id are at least a round apart (`OnRoundApart`).  Stated with a
multiple instead of a remainder, it is linear but for one product, which the prover
handles.

`Refinement`: `Spec => AD!Spec`, the safety half of `ReliableDelivery`.  `SourceInv` is
what the simulation needs besides `IInv`: what the broker can read and has received was
accepted, the nodes of the list are accepted messages or the one a publisher has just
pushed, and no message has two nodes.  `NodeOrigin`, `GhostStep` and `SendingStep` say
how a step may change the list, the ghosts and a publisher that writes.  Then
`PubPush` is `Keep`, `PubSendOk` is `Accept`, `PubSendFail` is `GiveUp` (the last node is
the call's own), `BrokerPublish` is `Deliver` (or the message was there already), `YMask`
is `Settle`, or nothing when the id names a message that was given up; everything else
stutters.  The premises are those of `AtLeastOnce`, stated of the constants: no more ids
are drawn than there are, and junk is no PUBACK.

### MqttTopic_proofs

`MatchAgreesTheorem` (`MatchAgreesWithLevels`), `AcceptedTheorem` (`WellFormedAccepted`) and
`CheckedTheorem` (`AcceptedIsChecked`): filters and names of every length over every set of
characters, and every `TOPIC_MAXLEN`.

The module is about what two recursive functions compute.  That their definitions
define anything is a fact of its own: `Iteration` says that a step function can be
iterated any number of times, and `CallsProperties` and `CurnProperties` take the
functions from it.  Inductions go over an interval, with a set for the property (`UpTo`).

Validation: the position of `infra_strtok` only moves forward (`PosMonotone`) and always
stands behind a slash or at an end (`PosBehind`), hence every token is a level
(`TokenIsLevel`), and every level that is not empty is a token but for a last one of
a single character (`LevelIsToken`).  The order of the tokens is that of their levels,
which is what the rule about `#` needs.

Matching: along a level without wildcards the cursor follows the name as long as the
characters agree and not beyond its level (`LiteralLevel`).  `LevelStep` says that the
cursor is at the end of the name's level after the filter's level exactly when the two
match; otherwise it is 0 or inside the level, where the next slash of the filter breaks
the loop.  `LevelByLevel` is the invariant over levels, in the order of the slashes
(`SlashOrder`): the cursor begins the k-th level of the name when the filter's does and all
levels before it match, and is 0 otherwise.  Of the name nothing is used but that it begins
with a slash; of the filter, that a wildcard fills its level and that `#` is in the last.

### MqttSubscribe_proofs

`TypeCorrect` (`TypeOK`), `SyncSuccessGranted` (`SyncSuccessIsGranted`),
`SyncNodesHaveOwners` (`SyncNodesOwned`), `HandlersListedOnce` (`HandlersDistinct`),
`CallbacksNeverYield` (`CallbackNeverYields`) and `DeliveryComplete` (`WalkComplete`),
for any threads, filters and calls, from one inductive invariant:

- `LockInv`: who holds `lock_yield` and whether `_in_yield_cb` is set is told by where the
  threads and the callback are;
- `CallInv`: every request has an id of its own, and a call returns and waits for its own;
- `HandlerIdInv`: a handler, listed or removed, is known by the id of its subscription, and
  a caller that is about to add one has an id no handler has;
- `AckInv`: an acknowledgement, on the wire or in a wait node, says what the broker said;
- `WalkInv`: the walk of the delivery stands at a position of the list (`Passed`) such
  that, of the nodes up to it, exactly the matching ones were called, each once.  Removals
  shift the position and additions come behind it; only a node that is freed while its own
  callback runs makes it lose its place, which is the exception `WalkComplete` names.

### MqttConnection_proofs

`TypeCorrect` (`TypeOK`).  `SessionCorrect` (`ConnectedMeansAccepted`), `SocketsClosed`
(`NoSocketLeak`) and `EventsInOrder` (`ReconnectAfterDisconnect`), by `IInv`, which adds
that during a handshake the state is not CONNECTED, that RECONNECTING follows a DISCONNECT
event, and that nobody is in the library before and after the client's life.
`BackoffCorrect` (`BackoffBounded`).  `KeepAliveCorrect` (`KeepAliveHonoured`), by
`PingInv`: the time the client has been quiet and the time left to its next ping do not
exceed the interval together.

`AliveStaysAlive` (`NoFalseAlarm`) and `SilenceEnds` (`SilenceDetected`) need three more
invariants of a client that is `Live`.  `ProbeInv`: probes beyond the limit were counted
in this unit, and the cycle that finds out is still to come.  `AnswerInv`: while the
network works every probe is matched by an answer that is owed or can be read, and with an
interval of more than one unit the answer is read before the next probe.  `SilenceInv`:
the time of silence and the time left to the next ping are no more than one interval for
each probe sent and one to come, and a unit.  `ProbeAssumption` is needed for the first:
with one probe and an interval of a single unit, TLC shows a broker that answers in time
taken for dead.  The code allows two probes (`iotx_mqtt_config.h:51`).

### OtaFetch_proofs

`TypeCorrect` (`TypeOK`), `SuccessStored` (`SuccessIsStored`) and `FailureHasCause` (the
action property `FailsForCause`), for any files and any number of announcements and faults.
`StoreInv` says that hash and storage follow the same chunks through the loop of a
`perform_sync`, with the chunk in hand, if there is one, between the two; `SignalInv` what part of an
announcement is in the handle at each of its assignments; `CauseInv` that, as long as
nothing went wrong, the channel is open on the announced file (`Ready`) and what was
hashed is the beginning of it (`Hashed`), so that the comparison at the end succeeds.

### CoapServer_proofs

`TypeCorrect` (`TypeOK`), `OneOutcomeAtMost` (`OneOutcome`), `TimeoutsAreEarned`
(`TimeoutMeansTried`), `IdsRepeat` (`IdsRepeatOnlyAtWrap`) and `CycleOwnsItsNode`
(`OnlyKeptNodesDangle`), for any number of threads, peers, messages and datagrams.  The
invariant says in whose hands a message is: in the list once and still open (`ListInv`),
with a thread that has written it and is about to add it (`AppInv`), or with the cycle,
which has unlinked it (`CycleInv`); never in two of these unless it is kept.  `Budget`
relates the retransmissions left to the times a node was written, which is why a
timeout was earned.  `ObsInv` says that an observed request has had its first
response, or is having it: what a response without a node adds is a success after a success.  `DrawInv` follows the id counter through the wrap, where two
neighbours draw the same id.

### LinkedList_proofs

Lemmas only: what `RemoveAt`, `Tail`, `Min` and `Without` return and which old position each
node of the result comes from (`RemoveAtMap`, `TailFacts`, `WithoutMap`,
`WithoutMembers`).  That `Ascending` exists for every finite set is an induction over
numbers; it is made with the least number for which the statement fails (`LeastNatural`,
`SetInduction`), because the induction theorems of the library take an operator.

### DmUpstream_proofs

`WaitCorrect` (the inductive `WaitInv`) and from it `TypeCorrect`, `AnswersCorrect`
(`SuccessMeansAccepted`) and `WaitListCorrect` (`OneNodePerWaiter`).  `WaitInv` joins
`IdInv` (message ids are fresh), `EventInv` (a success event on its way is about an
accepted request), `PostInv` (the SUCCESS a new node starts with is not read before
a post has replaced it) and `AwaitInv` (a call goes to its next request only after
the last was accepted).  `CacheCorrect` and `QueueCorrect` bound cache and queue.  The
size check of `dm_msg_cache_insert` is outside the cache's mutex, and the mutex of
`dm_api.c` keeps callers apart (`ApiInv`) but not the reader.  `RoomInv` counts who is
between the check and the insertion: with both there the cache is below its limit, with
one of them it is at most at its limit, since the other may have been faster; hence
never more than one beyond.

`Refinement` (`AnswersRequests`), without premises.  Besides `WaitInv` it needs `MadeInv`: a
call that is about to make a request has waited for the one before, and the cloud answers
only requests that were made; `OwnInv` says that the id of a login by the reader was drawn,
so that it is nobody else's.  `RequestLock` is `Issue`, `ReadAnswer` with a success is
`Grant`, `Collect` is `Succeed` or `Fail` or, where the call goes on to its next
request, nothing; `SucceedRefines` and `FailRefines` are shared by all the ways a call can
end.

### Only model-checked

Liveness (`PublishReturns`, `SyncReturns`, `Recovers`, `CallReturns`, `CacheDrains`,
`Resolved`, `DownloadEnds` and the half of `ReliableDelivery` that says that messages
arrive): the prover does not reach fairness and ENABLED.  The two violated properties.

## Not modelled

- Packet encoding, JSON building and parsing, crypto, logging: functions on bytes and
  text, without state of their own.
- Local control (ALCS), deprecated device-model APIs, AT modules: not in the default
  build.  Wi-Fi provisioning: radio frames.
- The wrap of the 32-bit millisecond clock in `infra_timer.c`.
- Subscription persistence and topic compression of MQTT: off in the default build.
- In the device model: open and close, the master device, the shadow and the other
  reports.
- CoAP: the table of resources, a second init after a deinit, `CoAPObsClient_delete`
  (reached by nothing in the tree), the client under `coap/client`.
- OTA: reports and requests to the cloud, the end of the handle, the switch to a
  sub-device; the percentage that `perform_sync` reports (`dm_fota.c:122`).
- The singleton and the offline subscriptions of `mqtt_api.c`.  A model of them would
  look at the order of line 615 (the offline list is handed over before `g_mqtt_client`
  is set), the mutex destroyed without a lock in line 237, and the ignored result in
  line 220: a subscription reported as a success is dropped when its send fails.
- Device binding.  A model would look at the counter of `awss_report.c:302`, compared
  before it is incremented, and at the timer of `awss_notify.c:496`, which calls
  `awss_dev_bind_notify` and so clears the counter and an answer that has just come.
- Application callbacks that call back into the library with its mutex held: the handler
  of an acknowledged CoAP message (`CoAPMessage.c:306`), the login event of
  `impl_linkkit.c:1350`, and a synchronous call from a callback of `IOT_Linkkit_Yield`,
  which waits for an event only its own thread could dispatch (`impl_linkkit.c:1023`).
- An endless stream of datagrams: `CoAPMessage_process` returns only after an empty read
  (`CoAPMessage.c:563`), so with one nothing is retransmitted and nothing times out.
- `IOT_Linkkit_Query` holds the linkkit mutex for the whole download
  (`impl_linkkit.c:1566`); `OtaFetch` and `DmUpstream` are not composed over it.
- The parts of the plan below.

## Plan

In this order; a part enters as a module of its own, or as actions of the one it
interacts with.

1. `LinkkitLife`: `IOT_Linkkit_Open`, `Connect` of the master, `Yield` and `Close`
   against calls in progress; the connection manager `iotx_cm` (fd table, yield
   thread) and `dm_client` (subscribe on connect).  Properties: no call uses a
   freed context, every subscription of a device is made, Close returns.  To be composed
   with `DmUpstream` over the shared linkkit mutex.
2. `MqttApi`: the singleton client and offline subscriptions, composed with
   `MqttSubscribe`: a subscription that was reported as a success is made.
3. `DevBind` (token report and notification retries) over `CoapServer`, and
   `Http2Stream` (stream list, receive thread, reconnect).
4. `InfraTimer`: expiry across the wrap of the clock, with a theorem for every start.
