------------------------------ MODULE OtaFetch ------------------------------
(***************************************************************************)
(* Firmware (FOTA) and configuration (COTA) update: the OTA handle         *)
(* (src/src/ota/iotx_ota.c, ota_fetch.c, ota_mqtt.c) and its use by the    *)
(* device model (src/src/dev_model/dm_fota.c, dm_cota.c).                  *)
(*                                                                         *)
(* Three threads work on one handle without a lock.  The signal thread,   *)
(* which yields to MQTT, runs ota_callback when the cloud announces a      *)
(* file.  The dispatching thread runs the status checks that tell the      *)
(* application.  The application thread then runs dm_fota_perform_sync or  *)
(* dm_cota_perform_sync (one at a time: IOT_Linkkit_Query holds the        *)
(* linkkit mutex), which fetches, stores and verifies the file.  A file is *)
(* a sequence of chunks, one for each fetch; a checksum is the sequence of *)
(* chunks it was computed from.                                            *)
(***************************************************************************)
EXTENDS Integers, Sequences, FiniteSets

CONSTANTS
    Firmwares, Configs,   \* the files the cloud may announce
    Size,                 \* the number of chunks of each file
    MaxPushes,            \* bound: announcements
    MaxFaults             \* bound: corrupted chunks, failed fetches and writes, lack of memory

Files == Firmwares \cup Configs
Kinds == {"fota", "cota"}
KindOf(f) == IF f \in Firmwares THEN "fota" ELSE "cota"
OfKind(kind) == IF kind = "fota" THEN Firmwares ELSE Configs

ASSUME FilesAssumption == Firmwares \cap Configs = {} /\ "none" \notin Firmwares \cup Configs
ASSUME SizeAssumption == Size \in [Firmwares \cup Configs -> Nat \ {0}]
ASSUME OtaBoundsAssumption == MaxPushes \in Nat /\ MaxFaults \in Nat

VARIABLES
    state, type,          \* h_ota->state (IOT_OTAS_*), h_ota->type (IOT_OTAT_*)
    md5sum, sign,         \* the announced checksums, of a firmware and of a configuration
    size_file, size_fetched,
    md5,                  \* h_ota->md5 and sha256: what was hashed so far
    ch_fetch,             \* the HTTP channel: its file and how much of it was read
    is_report_new_config, \* of dm_fota_ctx_t and dm_cota_ctx_t
    told,                 \* events queued for the application
    d_pc, d_kind,         \* the dispatching thread inside a status check
    s_pc, s_file,         \* the signal thread: inside ota_callback, and for which file
    a_pc, a_kind, a_chunk,\* the application thread inside a perform_sync
    storage,              \* what HAL_Firmware_Persistence_Write has stored since the start
    result,               \* what the last perform_sync returned
    pushes, faults,       \* ghost: how many there were
    cause,                \* ghost: a reason why this file may fail to arrive
    skipped,              \* ghost: a chunk of this download was not stored
    torn,                 \* ghost: an announcement has restarted the hash of this download
    raced                 \* ghost: an announcement was ever taken inside a perform_sync, or an
                          \* event was queued for a download that was over

fileVars == <<md5sum, sign, size_file>>
hashVars == <<size_fetched, md5>>
reportVars == <<is_report_new_config, told>>
checkVars == <<d_pc, d_kind>>
signalVars == <<s_pc, s_file>>
appVars == <<a_pc, a_kind, a_chunk>>
ghostVars == <<pushes, faults, cause, skipped, torn, raced>>
vars == <<state, type, fileVars, hashVars, ch_fetch, reportVars, checkVars, signalVars,
          appVars, storage, result, ghostVars>>

\* Chunk k of a file; 0 is a corrupted one.
Chunk == UNION {[file : {f}, k : 0..Size[f]] : f \in Files}
NoChunk == [file |-> "none", k |-> 0]
Channel == UNION {[file : {f}, pos : 0..Size[f]] : f \in Files}
NoChannel == [file |-> "none", pos |-> 0]
Content(f) == [k \in 1..Size[f] |-> [file |-> f, k |-> k]]

TypeOK ==
    /\ state \in {"inited", "fetching", "fetched"} /\ type \in Kinds \cup {"none"}
    /\ md5sum \in Firmwares \cup {"none"} /\ sign \in Configs \cup {"none"}
    /\ size_file \in Nat /\ size_fetched \in Nat
    /\ md5 \in Seq(Chunk) /\ storage \in Seq(Chunk)
    /\ ch_fetch \in Channel \cup {NoChannel}
    /\ is_report_new_config \in [Kinds -> BOOLEAN] /\ told \subseteq Kinds
    /\ d_pc \in {"idle", "type", "tell", "set"} /\ d_kind \in Kinds
    /\ s_pc \in {"idle", "params", "channel", "type", "state"} /\ s_file \in Files \cup {"none"}
    /\ a_pc \in {"idle", "fetch", "failed", "write", "finish", "check"}
    /\ a_kind \in Kinds /\ a_chunk \in Chunk \cup {NoChunk}
    /\ result \in {"none", "success", "fail"}
    /\ pushes \in 0..MaxPushes /\ faults \in 0..MaxFaults
    /\ cause \in BOOLEAN /\ skipped \in BOOLEAN /\ torn \in BOOLEAN /\ raced \in BOOLEAN

\* IOT_OTA_Init, dm_fota_init, dm_cota_init.
Init ==
    /\ state = "inited" /\ type = "none"
    /\ md5sum = "none" /\ sign = "none" /\ size_file = 0 /\ size_fetched = 0
    /\ md5 = << >> /\ storage = << >> /\ ch_fetch = NoChannel
    /\ is_report_new_config = [k \in Kinds |-> FALSE] /\ told = {}
    /\ d_pc = "idle" /\ d_kind = "fota"
    /\ s_pc = "idle" /\ s_file = "none"
    /\ a_pc = "idle" /\ a_kind = "fota" /\ a_chunk = NoChunk
    /\ result = "none" /\ pushes = 0 /\ faults = 0
    /\ cause = FALSE /\ skipped = FALSE /\ torn = FALSE /\ raced = FALSE

InPerform == a_pc # "idle"
Fault == faults < MaxFaults /\ faults' = faults + 1

----------------------------------------------------------------------------
(* The signal thread: ota_callback, assignment by assignment.               *)

\* An announcement is refused while a download is going on.
Push(f) ==
    /\ s_pc = "idle" /\ pushes < MaxPushes
    /\ state # "fetching"
    /\ s_pc' = "params" /\ s_file' = f
    /\ pushes' = pushes + 1
    /\ cause' = (cause \/ InPerform)
    /\ raced' = (raced \/ InPerform)
    /\ UNCHANGED <<state, type, fileVars, hashVars, ch_fetch, reportVars, checkVars, appVars,
                   storage, result, faults, skipped, torn>>

\* otalib_GetParams: a document without a size is refused, its checksum stays.
FirmwareParams ==
    /\ s_pc = "params" /\ s_file \in Firmwares
    /\ md5sum' = s_file
    /\ \/ size_file' = Size[s_file] /\ s_pc' = "channel" /\ UNCHANGED <<s_file, faults>>
       \/ Fault /\ s_pc' = "idle" /\ s_file' = "none" /\ UNCHANGED size_file
    /\ UNCHANGED <<state, type, sign, hashVars, ch_fetch, reportVars, checkVars, appVars,
                   storage, result, pushes, cause, skipped, torn, raced>>

\* otalib_GetConfigParams: a document that ends after its signature is refused, the signature
\* stays; a complete one also starts the hash and the count anew.
ConfigParams ==
    /\ s_pc = "params" /\ s_file \in Configs
    /\ sign' = s_file
    /\ \/ /\ size_file' = Size[s_file]
          /\ size_fetched' = 0 /\ md5' = << >>
          /\ s_pc' = "channel"
          /\ torn' = (torn \/ InPerform)
          /\ UNCHANGED <<s_file, faults>>
       \/ /\ Fault
          /\ s_pc' = "idle" /\ s_file' = "none"
          /\ UNCHANGED <<size_file, hashVars, torn>>
    /\ UNCHANGED <<state, type, md5sum, ch_fetch, reportVars, checkVars, appVars, storage,
                   result, pushes, cause, skipped, raced>>

\* ofc_Init; the channel before is not closed.
OpenChannel ==
    /\ s_pc = "channel"
    /\ \/ /\ ch_fetch' = [file |-> s_file, pos |-> 0]
          /\ s_pc' = "type"
          /\ UNCHANGED <<s_file, faults>>
       \/ /\ Fault
          /\ ch_fetch' = NoChannel
          /\ s_pc' = "idle" /\ s_file' = "none"
    /\ UNCHANGED <<state, type, fileVars, hashVars, reportVars, checkVars, appVars, storage,
                   result, pushes, cause, skipped, torn, raced>>

SetType ==
    /\ s_pc = "type"
    /\ type' = KindOf(s_file)
    /\ s_pc' = "state"
    /\ UNCHANGED <<state, fileVars, hashVars, ch_fetch, reportVars, checkVars, s_file, appVars,
                   storage, result, ghostVars>>

SetState ==
    /\ s_pc = "state"
    /\ state' = "fetching"
    /\ s_pc' = "idle" /\ s_file' = "none"
    /\ cause' = InPerform
    /\ UNCHANGED <<type, fileVars, hashVars, ch_fetch, reportVars, checkVars, appVars, storage,
                   result, pushes, faults, skipped, torn, raced>>

----------------------------------------------------------------------------
(* The dispatching thread: dm_fota_status_check and dm_cota_status_check,   *)
(* at every iotx_dm_dispatch, step by step.                                 *)

\* IOT_OTA_IsFetching
CheckState(kind) ==
    /\ d_pc = "idle" /\ state = "fetching"
    /\ d_pc' = "type" /\ d_kind' = kind
    /\ UNCHANGED <<state, type, fileVars, hashVars, ch_fetch, reportVars, signalVars, appVars,
                   storage, result, ghostVars>>

\* IOT_OTAG_OTA_TYPE
CheckType ==
    /\ d_pc = "type"
    /\ d_pc' = IF type = d_kind THEN "tell" ELSE "idle"
    /\ d_kind' = IF type = d_kind THEN d_kind ELSE "fota"
    /\ UNCHANGED <<state, type, fileVars, hashVars, ch_fetch, reportVars, signalVars, appVars,
                   storage, result, ghostVars>>

CheckEnds == d_pc' = "idle" /\ d_kind' = "fota"

\* A new file is announced to the application, unless that was done.  Only this thread sets the
\* flag, so it is still clear when the event is queued.  Without memory, or when the queue is
\* full, nothing is noted, and the next check tries again.
TellUser ==
    /\ d_pc = "tell"
    /\ \/ is_report_new_config[d_kind] /\ CheckEnds /\ UNCHANGED <<told, faults, raced>>
       \/ /\ ~is_report_new_config[d_kind]
          /\ told' = told \cup {d_kind}
          /\ raced' = (raced \/ state # "fetching" \/ type # d_kind)
          /\ d_pc' = "set"
          /\ UNCHANGED <<d_kind, faults>>
       \/ ~is_report_new_config[d_kind] /\ Fault /\ CheckEnds /\ UNCHANGED <<told, raced>>
    /\ UNCHANGED <<state, type, fileVars, hashVars, ch_fetch, is_report_new_config, signalVars,
                   appVars, storage, result, pushes, cause, skipped, torn>>

SetReported ==
    /\ d_pc = "set"
    /\ is_report_new_config' = [is_report_new_config EXCEPT ![d_kind] = TRUE]
    /\ CheckEnds
    /\ UNCHANGED <<state, type, fileVars, hashVars, ch_fetch, told, signalVars, appVars,
                   storage, result, ghostVars>>

----------------------------------------------------------------------------
(* The application thread: dm_fota_perform_sync, dm_cota_perform_sync.      *)

\* Mutant: the counter is left where the download before has put it.
FreshSize_Old == size_fetched
\* IOT_OTAG_RESET_FETCHED_SIZE
FreshSize == 0

\* The event ITE_FOTA or ITE_COTA, handed out by the dispatching thread after its status checks,
\* makes the application ask for the file.
Begin(kind) ==
    /\ a_pc = "idle" /\ kind \in told
    /\ ~(d_pc = "set" /\ d_kind = kind)
    /\ told' = told \ {kind}
    /\ a_kind' = kind
    /\ \/ /\ type # kind
          /\ result' = "fail"
          /\ UNCHANGED <<a_pc, size_fetched, storage, cause, skipped, torn>>
       \/ /\ type = kind
          /\ size_fetched' = FreshSize
          /\ storage' = << >>
          /\ cause' = (cause \/ s_pc # "idle")
          /\ skipped' = FALSE /\ torn' = FALSE
          /\ result' = "none"
          /\ a_pc' = "fetch"
    /\ UNCHANGED <<state, type, fileVars, md5, ch_fetch, is_report_new_config, checkVars,
                   signalVars, a_chunk, pushes, faults, raced>>

\* Mutant: a failed download is not announced to the application again.
Unreported_Never == is_report_new_config
\* ctx->is_report_new_config = 0
Unreported == [is_report_new_config EXCEPT ![a_kind] = FALSE]

Finish(r) ==
    /\ result' = r
    /\ is_report_new_config' = Unreported
    /\ a_pc' = "idle" /\ a_chunk' = NoChunk
    /\ UNCHANGED <<a_kind, told, checkVars>>

\* IOT_OTA_FetchYield in a state in which there is nothing to fetch.
FetchRefused ==
    /\ a_pc = "fetch" /\ state # "fetching"
    /\ Finish("fail")
    /\ UNCHANGED <<state, type, fileVars, hashVars, ch_fetch, signalVars, storage, ghostVars>>

\* Mutant: the channel skips a chunk.
Position_Ahead == ch_fetch.pos + 2
Position == ch_fetch.pos + 1

Complete(n) == n >= size_file

\* n chunks are counted; the last one ends the download (h_ota->type is cleared before
\* h_ota->state).
Fetched(n) ==
    /\ size_fetched' = n
    /\ IF Complete(n) THEN type' = "none" /\ state' = "fetched" ELSE UNCHANGED <<type, state>>

\* ofc_Fetch brings a chunk, right or corrupted; the first one starts the hash anew.
FetchChunk ==
    /\ a_pc = "fetch" /\ state = "fetching"
    /\ ch_fetch # NoChannel /\ ch_fetch.pos < Size[ch_fetch.file]
    /\ \/ a_chunk' = [file |-> ch_fetch.file, k |-> Position] /\ UNCHANGED <<faults, cause>>
       \/ a_chunk' = [file |-> ch_fetch.file, k |-> 0] /\ Fault /\ cause' = TRUE
    /\ ch_fetch' = [ch_fetch EXCEPT !.pos = @ + 1]
    /\ md5' = IF size_fetched = 0 THEN <<a_chunk'>> ELSE Append(md5, a_chunk')
    /\ Fetched(size_fetched + 1)
    /\ a_pc' = "write"
    /\ UNCHANGED <<fileVars, reportVars, checkVars, signalVars, a_kind, storage, result, pushes,
                   skipped, torn, raced>>

\* The whole file was read, the connection closed, and the file fits into one buffer.
Drained ==
    /\ ch_fetch # NoChannel /\ ch_fetch.pos = Size[ch_fetch.file]
    /\ Size[ch_fetch.file] = 1

\* ofc_Fetch then connects once more and gets the same bytes again, but what it returns, the
\* length got in excess of the length got before, is 0: an empty chunk and no error.
FetchEmpty ==
    /\ a_pc = "fetch" /\ state = "fetching" /\ Drained
    /\ md5' = IF size_fetched = 0 THEN << >> ELSE md5
    /\ Fetched(size_fetched)
    /\ a_chunk' = NoChunk
    /\ a_pc' = "write"
    /\ UNCHANGED <<fileVars, ch_fetch, reportVars, checkVars, signalVars, a_kind, storage,
                   result, ghostVars>>

\* otalib_MD5Init or otalib_Sha256Init fails: the chunk is lost, the state stays.
NoHash ==
    /\ a_pc = "fetch" /\ state = "fetching" /\ size_fetched = 0
    /\ \/ /\ ch_fetch # NoChannel /\ ch_fetch.pos < Size[ch_fetch.file]
          /\ ch_fetch' = [ch_fetch EXCEPT !.pos = @ + 1]
       \/ Drained /\ UNCHANGED ch_fetch
    /\ Fault /\ cause' = TRUE
    /\ md5' = << >>
    /\ Finish("fail")
    /\ UNCHANGED <<state, type, fileVars, size_fetched, signalVars, storage, pushes, skipped,
                   torn, raced>>

\* ofc_Fetch fails; it always does once the whole of a larger file was read: the excess is
\* then negative.  h_ota->state is set first ...
FetchFails ==
    /\ a_pc = "fetch" /\ state = "fetching"
    /\ \/ Fault /\ cause' = TRUE
       \/ /\ ch_fetch = NoChannel \/ ch_fetch.pos = Size[ch_fetch.file]
          /\ ~Drained
          /\ UNCHANGED <<faults, cause>>
    /\ state' = "fetched"
    /\ a_pc' = "failed"
    /\ UNCHANGED <<type, fileVars, hashVars, ch_fetch, reportVars, checkVars, signalVars,
                   a_kind, a_chunk, storage, result, pushes, skipped, torn, raced>>

\* ... and h_ota->type and the rest after it.
FetchFailed ==
    /\ a_pc = "failed"
    /\ type' = "none" /\ size_fetched' = 0
    /\ Finish("fail")
    /\ UNCHANGED <<state, fileVars, md5, ch_fetch, signalVars, storage, ghostVars>>

\* Mutant: a firmware that could not be stored is treated like a configuration.
GivesUp_Never(kind) == FALSE
\* Only dm_fota_perform_sync looks at the result of HAL_Firmware_Persistence_Write.
GivesUp(kind) == kind = "fota"

Write ==
    /\ a_pc = "write"
    /\ storage' = IF a_chunk = NoChunk THEN storage ELSE Append(storage, a_chunk)
    /\ a_pc' = "finish" /\ a_chunk' = NoChunk
    /\ UNCHANGED <<state, type, fileVars, hashVars, ch_fetch, reportVars, checkVars, signalVars,
                   a_kind, result, ghostVars>>

\* A download that is given up here stays IOT_OTAS_FETCHING unless this was its last chunk.
WriteFails ==
    /\ a_pc = "write" /\ Fault
    /\ skipped' = (skipped \/ a_chunk # NoChunk) /\ cause' = TRUE
    /\ IF GivesUp(a_kind) THEN Finish("fail")
       ELSE /\ a_pc' = "finish" /\ a_chunk' = NoChunk
            /\ UNCHANGED <<a_kind, reportVars, checkVars, result>>
    /\ UNCHANGED <<state, type, fileVars, hashVars, ch_fetch, signalVars, storage, pushes, torn,
                   raced>>

\* IOT_OTA_IsFetchFinish
IsFetchFinish ==
    /\ a_pc = "finish"
    /\ a_pc' = IF state = "fetched" THEN "check" ELSE "fetch"
    /\ UNCHANGED <<state, type, fileVars, hashVars, ch_fetch, reportVars, checkVars, signalVars,
                   a_kind, a_chunk, storage, result, ghostVars>>

\* IOT_OTAG_CHECK_FIRMWARE and IOT_OTAG_CHECK_CONFIG
Valid ==
    /\ state = "fetched"
    /\ LET f == IF a_kind = "fota" THEN md5sum ELSE sign IN f # "none" /\ md5 = Content(f)

Check ==
    /\ a_pc = "check"
    /\ Finish(IF Valid THEN "success" ELSE "fail")
    /\ UNCHANGED <<state, type, fileVars, hashVars, ch_fetch, signalVars, storage, ghostVars>>

----------------------------------------------------------------------------
SignalStep == FirmwareParams \/ ConfigParams \/ OpenChannel \/ SetType \/ SetState
CheckStep == CheckType \/ TellUser \/ SetReported
AppStep ==
    \/ FetchRefused \/ FetchChunk \/ FetchEmpty \/ NoHash \/ FetchFails \/ FetchFailed
    \/ Write \/ WriteFails \/ IsFetchFinish \/ Check

Next ==
    \/ \E f \in Files : Push(f)
    \/ SignalStep
    \/ \E kind \in Kinds : CheckState(kind) \/ Begin(kind)
    \/ CheckStep
    \/ AppStep

Spec == Init /\ [][Next]_vars

(***************************************************************************)
(* The signal thread goes on inside a callback; dispatching goes on and    *)
(* comes to each status check again and again, so that a check of one kind *)
(* does not keep the other out for ever (strong fairness); the application *)
(* asks for a file it was told of, and inside perform_sync a fetch ends    *)
(* with a chunk or an error (its timeout is a second).  No announcement    *)
(* and no fault is fair.                                                   *)
(***************************************************************************)
Fairness ==
    /\ WF_vars(SignalStep)
    /\ WF_vars(AppStep)
    /\ WF_vars(CheckStep)
    /\ \A kind \in Kinds : SF_vars(CheckState(kind)) /\ WF_vars(Begin(kind))

FairSpec == Spec /\ Fairness

----------------------------------------------------------------------------
(* Properties.                                                              *)

\* What a perform_sync calls a success is stored exactly as it was announced: the hash and
\* the storage follow the same chunks through failures, retries and announcements that come
\* in between.  Two ways round it remain: dm_cota_perform_sync goes on after a write that
\* failed, and a configuration that is announced after the last chunk and before the check
\* restarts the hash but not the storage, and is then fetched by the same perform_sync.
SuccessIsStored ==
    result = "success" =>
        \/ \E f \in OfKind(a_kind) : storage = Content(f)
        \/ a_kind = "cota" /\ skipped
        \/ torn

\* An update fails for a reason: a fault of the network, the storage or the memory, or an
\* announcement that overlapped a perform_sync (the handle has no lock).  In particular a
\* second update on the same handle is not disturbed by what the first one has left in
\* size_fetched and md5.
FailsForCause == [][InPerform /\ a_pc' = "idle" /\ result' = "fail" => cause']_vars

\* The handle refuses every announcement, and the application will hear of none.
Wedged ==
    /\ state = "fetching" /\ a_pc = "idle"
    /\ type # "none" => is_report_new_config[type] /\ type \notin told

\* perform_sync goes on for ever: a chunk that was lost for lack of memory was the whole file,
\* and every further fetch is empty.
Starved == InPerform /\ state = "fetching" /\ Drained

\* A download that was announced ends, whatever fails on the way: the handle leaves
\* IOT_OTAS_FETCHING, but for these cases.  Two threads met without a lock, and nobody will ask
\* for the file: IOT_OTA_FetchYield has cleared the type that an announcement had just set; or
\* the perform_sync of one kind has fetched the file of the other; or a status check has seen a
\* download that ended before the event was queued.  In the last two the perform_sync that was
\* asked for returns at once and leaves is_report_new_config set for ever.  Or the perform_sync
\* of a file of one chunk gets empty chunks for ever.
DownloadEnds == (state = "fetching") ~> (state # "fetching" \/ (raced /\ Wedged) \/ Starved)

=============================================================================
