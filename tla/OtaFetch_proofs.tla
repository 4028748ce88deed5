-------------------------- MODULE OtaFetch_proofs --------------------------
(***************************************************************************)
(* Proofs about OtaFetch, for any files and any bounds: the type           *)
(* invariant, that what a perform_sync calls a success is stored as it was *)
(* announced, and that an update fails only for a cause.                   *)
(***************************************************************************)
EXTENDS OtaFetch, SequenceTheorems, TLAPS

\* An announcement is taken only while nothing is fetched.
PlaceInv ==
    s_pc # "idle" => s_file \in Files /\ state # "fetching"

\* The hash and the storage follow the same chunks.
StoreInv ==
    /\ InPerform => result = "none"
    /\ InPerform /\ a_kind = "fota" => ~skipped
    /\ InPerform /\ ~torn /\ ~skipped =>
         /\ a_pc = "fetch" /\ size_fetched = 0 => storage = << >>
         /\ a_pc = "fetch" /\ size_fetched # 0 => md5 = storage
         /\ a_pc = "write" /\ a_chunk # NoChunk => size_fetched # 0 /\ md5 = Append(storage, a_chunk)
         /\ a_pc = "write" /\ a_chunk = NoChunk => md5 = storage /\ (size_fetched = 0 => storage = << >>)
         /\ a_pc = "finish" => md5 = storage /\ (size_fetched = 0 => storage = << >>)
         /\ a_pc = "check" => md5 = storage

\* The announced checksum that a download of this kind is compared with.
Announced(kind) == IF kind = "fota" THEN md5sum ELSE sign

\* What the signal thread has done of an announcement is in the handle.
SignalInv ==
    /\ s_pc \in {"channel", "type", "state"} =>
         Announced(KindOf(s_file)) = s_file /\ size_file = Size[s_file]
    /\ s_pc \in {"type", "state"} => ch_fetch = [file |-> s_file, pos |-> 0]
    /\ s_pc = "state" /\ type # "none" => type = KindOf(s_file)

\* The channel is open on the announced file of this kind.
Ready(kind) ==
    /\ ch_fetch \in Channel
    /\ ch_fetch.file \in OfKind(kind)
    /\ Announced(kind) = ch_fetch.file
    /\ size_file = Size[ch_fetch.file]

\* What was hashed is the beginning of the file.
Hashed ==
    /\ ch_fetch.pos = size_fetched
    /\ size_fetched > 0 =>
         /\ Len(md5) = size_fetched
         /\ \A k \in 1..size_fetched : md5[k] = [file |-> ch_fetch.file, k |-> k]

\* As long as nothing has gone wrong the download is on its way.
CauseInv ==
    ~cause =>
        /\ a_pc = "idle" /\ type # "none" /\ s_pc # "state" =>
             s_pc = "idle" /\ state = "fetching" /\ Ready(type) /\ ch_fetch.pos = 0
        /\ InPerform => s_pc = "idle" /\ a_pc # "failed" /\ Ready(a_kind) /\ Hashed
        /\ a_pc = "fetch" => state = "fetching" /\ type = a_kind /\ size_fetched < size_file
        /\ a_pc \in {"write", "finish"} =>
             IF size_fetched = size_file THEN state = "fetched" /\ type = "none"
             ELSE state = "fetching" /\ type = a_kind /\ size_fetched \in 1..(size_file - 1)
        /\ a_pc = "check" => state = "fetched" /\ type = "none" /\ size_fetched = size_file

IInv == TypeOK /\ PlaceInv /\ StoreInv /\ SignalInv /\ CauseInv /\ SuccessIsStored

-----------------------------------------------------------------------------
(* Lemmas about files, chunks and channels.                                 *)

LEMMA FileFacts ==
    /\ \A f \in Files : Size[f] \in Nat \ {0} /\ f # "none"
    /\ \A f \in Files : KindOf(f) \in Kinds /\ f \in OfKind(KindOf(f))
    /\ \A kind \in Kinds : \A f \in OfKind(kind) : f \in Files /\ KindOf(f) = kind
  BY FilesAssumption, SizeAssumption DEF Files, KindOf, OfKind, Kinds

LEMMA ChunkFacts ==
    ASSUME NEW f \in Files, NEW k \in 0..Size[f]
    PROVE  [file |-> f, k |-> k] \in Chunk
  <1>1. [file |-> f, k |-> k] \in [file : {f}, k : 0..Size[f]]
    OBVIOUS
  <1> QED
    BY <1>1 DEF Chunk

LEMMA NoChunkFacts == NoChunk \notin Chunk
  <1>1. \A c \in Chunk : c.file \in Files
    BY DEF Chunk
  <1> QED
    BY <1>1, FileFacts DEF NoChunk

LEMMA ChannelFacts ==
    /\ NoChannel \notin Channel
    /\ \A c \in Channel : c.file \in Files /\ c.pos \in 0..Size[c.file]
    /\ \A f \in Files : [file |-> f, pos |-> 0] \in Channel
    /\ \A c \in Channel : c.pos < Size[c.file] =>
          /\ [c EXCEPT !.pos = @ + 1] \in Channel
          /\ [c EXCEPT !.pos = @ + 1].file = c.file
          /\ [c EXCEPT !.pos = @ + 1].pos = c.pos + 1
  <1>1. \A c \in Channel : c.file \in Files /\ c \in [file : {c.file}, pos : 0..Size[c.file]]
    BY DEF Channel
  <1>2. NoChannel \notin Channel
    BY <1>1, FileFacts DEF NoChannel
  <1>3. ASSUME NEW f \in Files
        PROVE  [file |-> f, pos |-> 0] \in Channel
    <2>1. [file |-> f, pos |-> 0] \in [file : {f}, pos : 0..Size[f]]
      BY FileFacts
    <2> QED
      BY <2>1 DEF Channel
  <1>4. ASSUME NEW c \in Channel, c.pos < Size[c.file]
        PROVE  /\ [c EXCEPT !.pos = @ + 1] \in Channel
               /\ [c EXCEPT !.pos = @ + 1].file = c.file
               /\ [c EXCEPT !.pos = @ + 1].pos = c.pos + 1
    <2>1. c.file \in Files /\ c \in [file : {c.file}, pos : 0..Size[c.file]] /\ Size[c.file] \in Nat
      BY <1>1, FileFacts
    <2>2. [c EXCEPT !.pos = @ + 1] \in [file : {c.file}, pos : 0..Size[c.file]]
      BY <1>4, <2>1
    <2> QED
      BY <2>1, <2>2 DEF Channel
  <1> QED
    BY <1>1, <1>2, <1>3, <1>4

-----------------------------------------------------------------------------
(* The invariant holds at the start.                                        *)

LEMMA InvInit == Init => IInv
  <1> SUFFICES ASSUME Init PROVE IInv
    OBVIOUS
  <1>1. << >> \in Seq(Chunk)
    BY EmptySeq
  <1>2. TypeOK
    <2>1. pushes \in 0..MaxPushes /\ faults \in 0..MaxFaults
      BY OtaBoundsAssumption DEF Init
    <2>2. is_report_new_config \in [Kinds -> BOOLEAN]
      BY DEF Init
    <2>3. cause \in BOOLEAN /\ skipped \in BOOLEAN /\ torn \in BOOLEAN /\ raced \in BOOLEAN
      BY Zenon DEF Init
    <2> QED
      BY <1>1, <2>1, <2>2, <2>3 DEF Init, TypeOK, Kinds
  <1>3. PlaceInv /\ StoreInv /\ SignalInv /\ CauseInv /\ SuccessIsStored
    BY DEF Init, PlaceInv, StoreInv, SignalInv, CauseInv, SuccessIsStored, InPerform
  <1> QED
    BY <1>2, <1>3 DEF IInv

-----------------------------------------------------------------------------
(* Every step keeps the invariant.                                          *)

LEMMA PushInv ==
    ASSUME IInv, NEW f \in Files, Push(f)
    PROVE  IInv'
  <1> USE DEF IInv
  <1>1. TypeOK'
    <2>1. cause' \in BOOLEAN /\ skipped' \in BOOLEAN /\ torn' \in BOOLEAN /\ raced' \in BOOLEAN
      BY Zenon DEF TypeOK, InPerform, Push
    <2>2. pushes' \in 0..MaxPushes /\ faults' \in 0..MaxFaults
      BY OtaBoundsAssumption DEF TypeOK, Push
    <2> QED
      BY <2>1, <2>2, FileFacts, ChannelFacts DEF TypeOK, PlaceInv, Push, fileVars,
         hashVars, reportVars, checkVars, appVars
  <1>2. PlaceInv'
    BY FileFacts, ChannelFacts, ChunkFacts DEF TypeOK, PlaceInv, Push, fileVars, hashVars,
       reportVars, checkVars, appVars
  <1>3. StoreInv'
    BY DEF TypeOK, PlaceInv, StoreInv, InPerform, Push, fileVars, hashVars, reportVars, checkVars,
       appVars
  <1>4. SignalInv'
    BY FileFacts DEF TypeOK, PlaceInv, SignalInv, Announced, Push, fileVars, hashVars,
       reportVars, checkVars, appVars
  <1>5. CauseInv'
    BY FileFacts, ChannelFacts DEF TypeOK, PlaceInv, SignalInv, CauseInv, Ready, Hashed,
       Announced, InPerform, Push, fileVars, hashVars, reportVars, checkVars, appVars
  <1>6. SuccessIsStored'
    BY DEF TypeOK, StoreInv, SuccessIsStored, InPerform, Push, fileVars, hashVars,
       reportVars, checkVars, appVars
  <1> QED
    BY <1>1, <1>2, <1>3, <1>4, <1>5, <1>6

LEMMA FirmwareParamsInv ==
    ASSUME IInv, FirmwareParams
    PROVE  IInv'
  <1> USE DEF IInv
  <1>1. TypeOK'
    <2>1. cause' \in BOOLEAN /\ skipped' \in BOOLEAN /\ torn' \in BOOLEAN /\ raced' \in BOOLEAN
      BY Zenon DEF TypeOK, InPerform, FirmwareParams, Fault
    <2>2. pushes' \in 0..MaxPushes /\ faults' \in 0..MaxFaults
      BY OtaBoundsAssumption DEF TypeOK, FirmwareParams, Fault
    <2> QED
      BY <2>1, <2>2, FileFacts, ChannelFacts DEF TypeOK, PlaceInv, FirmwareParams, Fault,
         hashVars, reportVars, checkVars, appVars
  <1>2. PlaceInv'
    BY FileFacts, ChannelFacts, ChunkFacts DEF TypeOK, PlaceInv, FirmwareParams, Fault,
       hashVars, reportVars, checkVars, appVars
  <1>3. StoreInv'
    BY DEF TypeOK, PlaceInv, StoreInv, InPerform, FirmwareParams, Fault, hashVars,
       reportVars, checkVars, appVars
  <1>4. SignalInv'
    <2>1. s_file \in Firmwares /\ KindOf(s_file) = "fota"
      BY FilesAssumption DEF FirmwareParams, KindOf
    <2> QED
      BY <2>1 DEF TypeOK, PlaceInv, SignalInv, Announced, FirmwareParams, Fault
  <1>5. CauseInv'
    BY FileFacts, ChannelFacts DEF TypeOK, PlaceInv, SignalInv, CauseInv, Ready, Hashed,
       Announced, InPerform, FirmwareParams, Fault, hashVars, reportVars, checkVars, appVars
  <1>6. SuccessIsStored'
    BY DEF TypeOK, StoreInv, SuccessIsStored, InPerform, FirmwareParams, Fault, hashVars,
       reportVars, checkVars, appVars
  <1> QED
    BY <1>1, <1>2, <1>3, <1>4, <1>5, <1>6

LEMMA ConfigParamsInv ==
    ASSUME IInv, ConfigParams
    PROVE  IInv'
  <1> USE DEF IInv
  <1>1. TypeOK'
    <2>1. cause' \in BOOLEAN /\ skipped' \in BOOLEAN /\ torn' \in BOOLEAN /\ raced' \in BOOLEAN
      BY Zenon DEF TypeOK, InPerform, ConfigParams, Fault
    <2>2. pushes' \in 0..MaxPushes /\ faults' \in 0..MaxFaults
      BY OtaBoundsAssumption DEF TypeOK, ConfigParams, Fault
    <2>3. md5' \in Seq(Chunk)
      BY EmptySeq DEF TypeOK, ConfigParams, hashVars
    <2> QED
      BY <2>1, <2>2, <2>3, FileFacts, ChannelFacts DEF TypeOK, PlaceInv, ConfigParams,
         Fault, hashVars, reportVars, checkVars, appVars
  <1>2. PlaceInv'
    BY FileFacts, ChannelFacts, ChunkFacts DEF TypeOK, PlaceInv, ConfigParams, Fault,
       hashVars, reportVars, checkVars, appVars
  <1>3. StoreInv'
    <2>1. CASE InPerform
      <3>1. CASE torn'
        BY <2>1, <3>1 DEF StoreInv, InPerform, ConfigParams, appVars
      <3>2. CASE ~torn'
        <4>0. torn' \/ UNCHANGED <<hashVars, torn>>
          BY <2>1, Zenon DEF ConfigParams
        <4>1. ~torn /\ UNCHANGED <<size_fetched, md5>>
          BY <3>2, <4>0 DEF hashVars
        <4> QED
          BY <2>1, <4>1 DEF StoreInv, InPerform, ConfigParams, appVars
      <3> QED
        BY <3>1, <3>2
    <2>2. CASE ~InPerform
      BY <2>2 DEF StoreInv, InPerform, ConfigParams, appVars
    <2> QED
      BY <2>1, <2>2
  <1>4. SignalInv'
    <2>1. s_file \in Configs /\ KindOf(s_file) = "cota"
      BY FilesAssumption DEF ConfigParams, KindOf
    <2> QED
      BY <2>1 DEF TypeOK, PlaceInv, SignalInv, Announced, ConfigParams, Fault
  <1>5. CauseInv'
    BY FileFacts, ChannelFacts DEF TypeOK, PlaceInv, SignalInv, CauseInv, Ready, Hashed,
       Announced, InPerform, ConfigParams, Fault, hashVars, reportVars, checkVars, appVars
  <1>6. SuccessIsStored'
    BY DEF TypeOK, StoreInv, SuccessIsStored, InPerform, ConfigParams, Fault, hashVars,
       reportVars, checkVars, appVars
  <1> QED
    BY <1>1, <1>2, <1>3, <1>4, <1>5, <1>6

LEMMA OpenChannelInv ==
    ASSUME IInv, OpenChannel
    PROVE  IInv'
  <1> USE DEF IInv
  <1>1. TypeOK'
    <2>1. cause' \in BOOLEAN /\ skipped' \in BOOLEAN /\ torn' \in BOOLEAN /\ raced' \in BOOLEAN
      BY Zenon DEF TypeOK, InPerform, OpenChannel, Fault
    <2>2. pushes' \in 0..MaxPushes /\ faults' \in 0..MaxFaults
      BY OtaBoundsAssumption DEF TypeOK, OpenChannel, Fault
    <2> QED
      BY <2>1, <2>2, FileFacts, ChannelFacts DEF TypeOK, PlaceInv, OpenChannel, Fault,
         fileVars, hashVars, reportVars, checkVars, appVars
  <1>2. PlaceInv'
    BY FileFacts, ChannelFacts, ChunkFacts DEF TypeOK, PlaceInv, OpenChannel, Fault,
       fileVars, hashVars, reportVars, checkVars, appVars
  <1>3. StoreInv'
    BY DEF TypeOK, PlaceInv, StoreInv, InPerform, OpenChannel, Fault, fileVars, hashVars,
       reportVars, checkVars, appVars
  <1>4. SignalInv'
    BY FileFacts DEF TypeOK, PlaceInv, SignalInv, Announced, OpenChannel, Fault, fileVars,
       hashVars, reportVars, checkVars, appVars
  <1>5. CauseInv'
    BY FileFacts, ChannelFacts DEF TypeOK, PlaceInv, SignalInv, CauseInv, Ready, Hashed,
       Announced, InPerform, OpenChannel, Fault, fileVars, hashVars, reportVars, checkVars, appVars
  <1>6. SuccessIsStored'
    BY DEF TypeOK, StoreInv, SuccessIsStored, InPerform, OpenChannel, Fault, fileVars,
       hashVars, reportVars, checkVars, appVars
  <1> QED
    BY <1>1, <1>2, <1>3, <1>4, <1>5, <1>6

LEMMA SetTypeInv ==
    ASSUME IInv, SetType
    PROVE  IInv'
  <1> USE DEF IInv
  <1>1. TypeOK'
    BY FileFacts, ChannelFacts, ChunkFacts DEF TypeOK, PlaceInv, SetType, fileVars,
       hashVars, reportVars, checkVars, appVars, ghostVars
  <1>2. PlaceInv'
    BY FileFacts, ChannelFacts, ChunkFacts DEF TypeOK, PlaceInv, SetType, fileVars,
       hashVars, reportVars, checkVars, appVars, ghostVars
  <1>3. StoreInv'
    BY DEF TypeOK, PlaceInv, StoreInv, InPerform, SetType, fileVars, hashVars, reportVars,
       checkVars,
       appVars, ghostVars
  <1>4. SignalInv'
    BY FileFacts DEF TypeOK, PlaceInv, SignalInv, Announced, SetType, fileVars, hashVars,
       reportVars, checkVars, appVars, ghostVars
  <1>5. CauseInv'
    BY FileFacts, ChannelFacts DEF TypeOK, PlaceInv, SignalInv, CauseInv, Ready, Hashed,
       Announced, InPerform, SetType, fileVars, hashVars, reportVars, checkVars, appVars, ghostVars
  <1>6. SuccessIsStored'
    BY DEF TypeOK, StoreInv, SuccessIsStored, InPerform, SetType, fileVars, hashVars,
       reportVars, checkVars, appVars, ghostVars
  <1> QED
    BY <1>1, <1>2, <1>3, <1>4, <1>5, <1>6

LEMMA SetStateInv ==
    ASSUME IInv, SetState
    PROVE  IInv'
  <1> USE DEF IInv
  <1>1. TypeOK'
    <2>1. cause' \in BOOLEAN /\ skipped' \in BOOLEAN /\ torn' \in BOOLEAN /\ raced' \in BOOLEAN
      BY Zenon DEF TypeOK, InPerform, SetState
    <2>2. pushes' \in 0..MaxPushes /\ faults' \in 0..MaxFaults
      BY OtaBoundsAssumption DEF TypeOK, SetState
    <2> QED
      BY <2>1, <2>2, FileFacts, ChannelFacts DEF TypeOK, PlaceInv, SetState, fileVars,
         hashVars, reportVars, checkVars, appVars
  <1>2. PlaceInv'
    BY FileFacts, ChannelFacts, ChunkFacts DEF TypeOK, PlaceInv, SetState, fileVars,
       hashVars, reportVars, checkVars, appVars
  <1>3. StoreInv'
    BY DEF TypeOK, PlaceInv, StoreInv, InPerform, SetState, fileVars, hashVars, reportVars,
       checkVars, appVars
  <1>4. SignalInv'
    BY FileFacts DEF TypeOK, PlaceInv, SignalInv, Announced, SetState, fileVars, hashVars,
       reportVars, checkVars, appVars
  <1>5. CauseInv'
    BY FileFacts, ChannelFacts DEF TypeOK, PlaceInv, SignalInv, CauseInv, Ready, Hashed,
       Announced, InPerform, SetState, fileVars, hashVars, reportVars, checkVars, appVars
  <1>6. SuccessIsStored'
    BY DEF TypeOK, StoreInv, SuccessIsStored, InPerform, SetState, fileVars, hashVars,
       reportVars, checkVars, appVars
  <1> QED
    BY <1>1, <1>2, <1>3, <1>4, <1>5, <1>6

LEMMA CheckStateInv ==
    ASSUME IInv, NEW kind \in Kinds, CheckState(kind)
    PROVE  IInv'
  <1> USE DEF IInv
  <1>1. TypeOK'
    BY FileFacts, ChannelFacts, ChunkFacts DEF reportVars, TypeOK, PlaceInv, CheckState, fileVars,
       hashVars, signalVars, appVars, ghostVars
  <1>2. PlaceInv'
    BY FileFacts, ChannelFacts, ChunkFacts DEF reportVars, TypeOK, PlaceInv, CheckState, fileVars,
       hashVars, signalVars, appVars, ghostVars
  <1>3. StoreInv'
    BY DEF reportVars, TypeOK, PlaceInv, StoreInv, InPerform, CheckState, fileVars, hashVars,
       signalVars, appVars, ghostVars
  <1>4. SignalInv'
    BY FileFacts DEF reportVars, TypeOK, PlaceInv, SignalInv, Announced, CheckState, fileVars,
       hashVars, signalVars, appVars, ghostVars
  <1>5. CauseInv'
    BY FileFacts, ChannelFacts DEF reportVars, TypeOK, PlaceInv, SignalInv, CauseInv, Ready, Hashed,
       Announced, InPerform, CheckState, fileVars, hashVars, signalVars, appVars, ghostVars
  <1>6. SuccessIsStored'
    BY DEF reportVars, TypeOK, StoreInv, SuccessIsStored, InPerform, CheckState, fileVars, hashVars,
       signalVars, appVars, ghostVars
  <1> QED
    BY <1>1, <1>2, <1>3, <1>4, <1>5, <1>6

LEMMA CheckTypeInv ==
    ASSUME IInv, CheckType
    PROVE  IInv'
  <1> USE DEF IInv
  <1>1. TypeOK'
    BY DEF TypeOK, CheckType, Kinds, fileVars, hashVars, reportVars, signalVars, appVars, ghostVars
  <1>2. PlaceInv'
    BY FileFacts, ChannelFacts, ChunkFacts DEF reportVars, TypeOK, PlaceInv, CheckType, fileVars,
       hashVars, signalVars, appVars, ghostVars
  <1>3. StoreInv'
    BY DEF reportVars, TypeOK, PlaceInv, StoreInv, InPerform, CheckType, fileVars, hashVars,
       signalVars, appVars, ghostVars
  <1>4. SignalInv'
    BY FileFacts DEF reportVars, TypeOK, PlaceInv, SignalInv, Announced, CheckType, fileVars,
       hashVars, signalVars, appVars, ghostVars
  <1>5. CauseInv'
    BY FileFacts, ChannelFacts DEF reportVars, TypeOK, PlaceInv, SignalInv, CauseInv, Ready, Hashed,
       Announced, InPerform, CheckType, fileVars, hashVars, signalVars, appVars, ghostVars
  <1>6. SuccessIsStored'
    BY DEF reportVars, TypeOK, StoreInv, SuccessIsStored, InPerform, CheckType, fileVars, hashVars,
       signalVars, appVars, ghostVars
  <1> QED
    BY <1>1, <1>2, <1>3, <1>4, <1>5, <1>6

LEMMA SetReportedInv ==
    ASSUME IInv, SetReported
    PROVE  IInv'
  <1> USE DEF IInv
  <1>1. TypeOK'
    <2>1. is_report_new_config' \in [Kinds -> BOOLEAN]
      BY DEF TypeOK, SetReported
    <2> QED
      BY <2>1 DEF TypeOK, SetReported, CheckEnds, Kinds, fileVars, hashVars, signalVars, appVars,
         ghostVars
  <1>2. PlaceInv'
    BY FileFacts, ChannelFacts, ChunkFacts DEF CheckEnds, TypeOK, PlaceInv, SetReported, fileVars,
       hashVars, signalVars, appVars, ghostVars
  <1>3. StoreInv'
    BY DEF CheckEnds, TypeOK, PlaceInv, StoreInv, InPerform, SetReported, fileVars, hashVars,
       signalVars, appVars, ghostVars
  <1>4. SignalInv'
    BY FileFacts DEF CheckEnds, TypeOK, PlaceInv, SignalInv, Announced, SetReported, fileVars,
       hashVars, signalVars, appVars, ghostVars
  <1>5. CauseInv'
    BY FileFacts, ChannelFacts DEF CheckEnds, TypeOK, PlaceInv, SignalInv, CauseInv, Ready, Hashed,
       Announced, InPerform, SetReported, fileVars, hashVars, signalVars, appVars, ghostVars
  <1>6. SuccessIsStored'
    BY DEF CheckEnds, TypeOK, StoreInv, SuccessIsStored, InPerform, SetReported, fileVars, hashVars,
       signalVars, appVars, ghostVars
  <1> QED
    BY <1>1, <1>2, <1>3, <1>4, <1>5, <1>6

LEMMA TellUserInv ==
    ASSUME IInv, TellUser
    PROVE  IInv'
  <1> USE DEF IInv
  <1>1. TypeOK'
    <2>1. cause' \in BOOLEAN /\ skipped' \in BOOLEAN /\ torn' \in BOOLEAN /\ raced' \in BOOLEAN
      BY Zenon DEF TypeOK, TellUser
    <2>2. pushes' \in 0..MaxPushes /\ faults' \in 0..MaxFaults
      BY OtaBoundsAssumption DEF TypeOK, TellUser, Fault
    <2>3. d_pc' \in {"idle", "set"} /\ d_kind' \in Kinds /\ told' \subseteq Kinds
      BY DEF TypeOK, TellUser, CheckEnds, Kinds
    <2> QED
      BY <2>1, <2>2, <2>3 DEF TypeOK, TellUser, fileVars, hashVars, signalVars, appVars
  <1>2. PlaceInv'
    BY FileFacts, ChannelFacts, ChunkFacts DEF TypeOK, PlaceInv, TellUser, CheckEnds, fileVars,
       hashVars, signalVars, appVars
  <1>3. StoreInv'
    BY DEF TypeOK, PlaceInv, StoreInv, InPerform, TellUser, CheckEnds, fileVars, hashVars,
       signalVars, appVars
  <1>4. SignalInv'
    BY FileFacts DEF TypeOK, PlaceInv, SignalInv, Announced, TellUser, CheckEnds, fileVars,
       hashVars, signalVars, appVars
  <1>5. CauseInv'
    BY FileFacts, ChannelFacts DEF TypeOK, PlaceInv, SignalInv, CauseInv, Ready, Hashed,
       Announced, InPerform, TellUser, CheckEnds, fileVars, hashVars, signalVars, appVars
  <1>6. SuccessIsStored'
    BY DEF TypeOK, StoreInv, SuccessIsStored, InPerform, TellUser, CheckEnds, fileVars, hashVars,
       signalVars, appVars
  <1> QED
    BY <1>1, <1>2, <1>3, <1>4, <1>5, <1>6

LEMMA BeginInv ==
    ASSUME IInv, NEW kind \in Kinds, Begin(kind)
    PROVE  IInv'
  <1> USE DEF IInv
  <1>1. TypeOK'
    <2>1. cause' \in BOOLEAN /\ skipped' \in BOOLEAN /\ torn' \in BOOLEAN /\ raced' \in BOOLEAN
      BY Zenon DEF TypeOK, InPerform, Begin, FreshSize
    <2>2. pushes' \in 0..MaxPushes /\ faults' \in 0..MaxFaults
      BY OtaBoundsAssumption DEF TypeOK, Begin, FreshSize
    <2>3. storage' \in Seq(Chunk)
      BY EmptySeq DEF TypeOK, Begin
    <2> QED
      BY <2>1, <2>2, <2>3, FileFacts, ChannelFacts DEF TypeOK, PlaceInv, Begin, FreshSize,
         fileVars, checkVars, signalVars
  <1>2. PlaceInv'
    BY FileFacts, ChannelFacts, ChunkFacts DEF TypeOK, PlaceInv, Begin, FreshSize, fileVars,
       checkVars, signalVars
  <1>3. StoreInv'
    BY DEF TypeOK, PlaceInv, StoreInv, InPerform, Begin, FreshSize, fileVars, checkVars, signalVars
  <1>4. SignalInv'
    BY FileFacts DEF TypeOK, PlaceInv, SignalInv, Announced, Begin, FreshSize, fileVars,
       checkVars, signalVars
  <1>5. CauseInv'
    <2>1. CASE type # kind
      BY <2>1 DEF TypeOK, CauseInv, Ready, Hashed, Announced, InPerform, Begin, fileVars,
         checkVars, signalVars
    <2>2. CASE type = kind
      <3>1. ASSUME ~cause'
            PROVE  s_pc = "idle" /\ ~cause /\ type # "none" /\ a_pc = "idle"
        BY <2>2, <3>1 DEF Begin, Kinds
      <3>2. ASSUME ~cause'
            PROVE  state = "fetching" /\ Ready(kind) /\ ch_fetch.pos = 0
        BY <2>2, <3>1, <3>2 DEF CauseInv
      <3>3. ASSUME ~cause'
            PROVE  size_file > 0 /\ Ready(kind)'
        BY <3>2, <3>3, FileFacts, ChannelFacts DEF Ready, Announced, Begin, fileVars
      <3>4. type' = type /\ state' = state /\ s_pc' = s_pc /\ ch_fetch' = ch_fetch /\ size_file' = size_file
            /\ a_pc' = "fetch" /\ a_kind' = kind /\ size_fetched' = 0
        BY <2>2 DEF Begin, fileVars, checkVars, signalVars, FreshSize
      <3>5. ASSUME ~cause'
            PROVE  Hashed'
        BY <3>2, <3>4, <3>5 DEF Hashed
      <3> QED
        BY <2>2, <3>1, <3>2, <3>3, <3>4, <3>5 DEF CauseInv, InPerform
    <2> QED
      BY <2>1, <2>2
  <1>6. SuccessIsStored'
    BY DEF TypeOK, StoreInv, SuccessIsStored, InPerform, Begin, FreshSize, fileVars, checkVars,
       signalVars
  <1> QED
    BY <1>1, <1>2, <1>3, <1>4, <1>5, <1>6

LEMMA FetchRefusedInv ==
    ASSUME IInv, FetchRefused
    PROVE  IInv'
  <1> USE DEF IInv
  <1>1. TypeOK'
    BY FileFacts, ChannelFacts, ChunkFacts DEF TypeOK, PlaceInv, FetchRefused, Finish,
       Unreported, fileVars, hashVars, checkVars, signalVars, ghostVars
  <1>2. PlaceInv'
    BY FileFacts, ChannelFacts, ChunkFacts DEF TypeOK, PlaceInv, FetchRefused, Finish,
       Unreported, fileVars, hashVars, checkVars, signalVars, ghostVars
  <1>3. StoreInv'
    BY DEF TypeOK, PlaceInv, StoreInv, InPerform, FetchRefused, Finish, Unreported,
       fileVars, hashVars, checkVars, signalVars, ghostVars
  <1>4. SignalInv'
    BY FileFacts DEF TypeOK, PlaceInv, SignalInv, Announced, FetchRefused, Finish,
       Unreported, fileVars, hashVars, checkVars, signalVars, ghostVars
  <1>5. CauseInv'
    BY FileFacts, ChannelFacts DEF TypeOK, PlaceInv, SignalInv, CauseInv, Ready, Hashed,
       Announced, InPerform, FetchRefused, Finish, Unreported, fileVars, hashVars,
       checkVars, signalVars, ghostVars
  <1>6. SuccessIsStored'
    BY DEF TypeOK, StoreInv, SuccessIsStored, InPerform, FetchRefused, Finish, Unreported,
       fileVars, hashVars, checkVars, signalVars, ghostVars
  <1> QED
    BY <1>1, <1>2, <1>3, <1>4, <1>5, <1>6

LEMMA FetchChunkInv ==
    ASSUME IInv, FetchChunk
    PROVE  IInv'
  <1> USE DEF IInv
  <1>0. a_chunk' \in Chunk
    <2>1. ch_fetch \in Channel /\ ch_fetch.file \in Files /\ ch_fetch.pos \in 0..Size[ch_fetch.file]
      BY ChannelFacts DEF TypeOK, FetchChunk
    <2>2. Size[ch_fetch.file] \in Nat /\ ch_fetch.pos < Size[ch_fetch.file]
      BY <2>1, FileFacts DEF FetchChunk
    <2>3. [file |-> ch_fetch.file, k |-> ch_fetch.pos + 1] \in Chunk /\ [file |-> ch_fetch.file, k |-> 0] \in Chunk
      BY <2>1, <2>2, ChunkFacts
    <2> QED
      BY <2>3 DEF FetchChunk, Position
  <1>1. TypeOK'
    <2>1. cause' \in BOOLEAN /\ skipped' \in BOOLEAN /\ torn' \in BOOLEAN /\ raced' \in BOOLEAN
      BY Zenon DEF TypeOK, FetchChunk, Fault
    <2>2. pushes' \in 0..MaxPushes /\ faults' \in 0..MaxFaults
      BY OtaBoundsAssumption DEF TypeOK, FetchChunk, Fault
    <2>3. a_chunk' \in Chunk
      BY <1>0
    <2>4. md5' \in Seq(Chunk)
      <3>1. Append(md5, a_chunk') \in Seq(Chunk)
        BY <2>3, AppendProperties DEF TypeOK
      <3>2. <<a_chunk'>> \in Seq(Chunk)
        BY <2>3
      <3> QED
        BY <3>1, <3>2 DEF FetchChunk
    <2> QED
      BY <2>1, <2>2, <2>3, <2>4, ChannelFacts DEF TypeOK, FetchChunk, Fault, Complete, Fetched,
         fileVars, reportVars, checkVars, signalVars
  <1>2. PlaceInv'
    BY <1>0 DEF TypeOK, PlaceInv, FetchChunk, Complete, Fetched, signalVars
  <1>3. StoreInv'
    <2>1. a_chunk' # NoChunk
      BY <1>0, NoChunkFacts
    <2>2. /\ md5' = IF size_fetched = 0 THEN <<a_chunk'>> ELSE Append(md5, a_chunk')
          /\ size_fetched' = size_fetched + 1 /\ size_fetched \in Nat
          /\ a_pc = "fetch" /\ a_pc' = "write"
          /\ UNCHANGED <<a_kind, storage, result, skipped, torn>>
      BY DEF FetchChunk, Fetched, TypeOK
    <2>3. Append(<< >>, a_chunk') = <<a_chunk'>>
      OBVIOUS
    <2> QED
      BY <2>1, <2>2, <2>3 DEF StoreInv, InPerform
  <1>4. SignalInv'
    BY FileFacts DEF TypeOK, PlaceInv, SignalInv, Announced, FetchChunk, Fault, Position,
       Complete, Fetched, fileVars, reportVars, checkVars, signalVars
  <1>5. CauseInv'
    BY FileFacts, ChannelFacts DEF TypeOK, PlaceInv, SignalInv, CauseInv, Ready, Hashed,
       Announced, InPerform, FetchChunk, Fault, Position, Complete, Fetched, fileVars, reportVars,
       checkVars,
       signalVars
  <1>6. SuccessIsStored'
    BY DEF TypeOK, StoreInv, SuccessIsStored, InPerform, FetchChunk, Fault, Position,
       Complete, Fetched, fileVars, reportVars, checkVars, signalVars
  <1> QED
    BY <1>1, <1>2, <1>3, <1>4, <1>5, <1>6

LEMMA FetchEmptyInv ==
    ASSUME IInv, FetchEmpty
    PROVE  IInv'
  <1> USE DEF IInv
  <1>0. cause /\ cause' = cause
    <2>1. ch_fetch \in Channel /\ ch_fetch.pos = Size[ch_fetch.file]
      BY DEF FetchEmpty, Drained, TypeOK
    <2>2. ch_fetch.pos \in Nat
      BY <2>1, ChannelFacts, FileFacts
    <2> QED
      BY <2>1, <2>2 DEF FetchEmpty, TypeOK, CauseInv, Ready, Hashed, InPerform, ghostVars
  <1>1. TypeOK'
    <2>1. md5' \in Seq(Chunk)
      BY EmptySeq DEF TypeOK, FetchEmpty
    <2> QED
      BY <2>1 DEF TypeOK, FetchEmpty, Fetched, Complete, fileVars, reportVars, checkVars,
         signalVars, ghostVars
  <1>2. PlaceInv'
    BY DEF TypeOK, PlaceInv, FetchEmpty, Fetched, Complete, signalVars
  <1>3. StoreInv'
    BY DEF TypeOK, StoreInv, InPerform, FetchEmpty, Fetched, ghostVars
  <1>4. SignalInv'
    BY DEF TypeOK, PlaceInv, SignalInv, Announced, FetchEmpty, Fetched, fileVars, signalVars
  <1>5. CauseInv'
    BY <1>0 DEF CauseInv
  <1>6. SuccessIsStored'
    BY DEF StoreInv, SuccessIsStored, InPerform, FetchEmpty
  <1> QED
    BY <1>1, <1>2, <1>3, <1>4, <1>5, <1>6

LEMMA NoHashInv ==
    ASSUME IInv, NoHash
    PROVE  IInv'
  <1> USE DEF IInv
  <1>1. TypeOK'
    <2>1. cause' \in BOOLEAN /\ skipped' \in BOOLEAN /\ torn' \in BOOLEAN /\ raced' \in BOOLEAN
      BY Zenon DEF TypeOK, InPerform, NoHash, Fault, Finish, Unreported
    <2>2. pushes' \in 0..MaxPushes /\ faults' \in 0..MaxFaults
      BY OtaBoundsAssumption DEF TypeOK, NoHash, Fault, Finish, Unreported
    <2>3. md5' \in Seq(Chunk)
      BY EmptySeq DEF TypeOK, NoHash
    <2> QED
      BY <2>1, <2>2, <2>3, FileFacts, ChannelFacts DEF TypeOK, PlaceInv, NoHash, Fault,
         Finish, Unreported, fileVars, checkVars, signalVars
  <1>2. PlaceInv'
    BY FileFacts, ChannelFacts, ChunkFacts DEF TypeOK, PlaceInv, NoHash, Fault, Finish,
       Unreported, fileVars, checkVars, signalVars
  <1>3. StoreInv'
    BY DEF TypeOK, PlaceInv, StoreInv, InPerform, NoHash, Fault, Finish, Unreported,
       fileVars, checkVars, signalVars
  <1>4. SignalInv'
    BY FileFacts DEF TypeOK, PlaceInv, SignalInv, Announced, NoHash, Fault, Finish,
       Unreported, fileVars, checkVars, signalVars
  <1>5. CauseInv'
    BY FileFacts, ChannelFacts DEF TypeOK, PlaceInv, SignalInv, CauseInv, Ready, Hashed,
       Announced, InPerform, NoHash, Fault, Finish, Unreported, fileVars, checkVars, signalVars
  <1>6. SuccessIsStored'
    BY DEF TypeOK, StoreInv, SuccessIsStored, InPerform, NoHash, Fault, Finish, Unreported,
       fileVars, checkVars, signalVars
  <1> QED
    BY <1>1, <1>2, <1>3, <1>4, <1>5, <1>6

LEMMA FetchFailsInv ==
    ASSUME IInv, FetchFails
    PROVE  IInv'
  <1> USE DEF IInv
  <1>1. TypeOK'
    <2>1. cause' \in BOOLEAN /\ skipped' \in BOOLEAN /\ torn' \in BOOLEAN /\ raced' \in BOOLEAN
      BY Zenon DEF TypeOK, InPerform, FetchFails, Fault
    <2>2. pushes' \in 0..MaxPushes /\ faults' \in 0..MaxFaults
      BY OtaBoundsAssumption DEF TypeOK, FetchFails, Fault
    <2> QED
      BY <2>1, <2>2, FileFacts, ChannelFacts DEF TypeOK, PlaceInv, FetchFails, Fault,
         fileVars, hashVars, reportVars, checkVars, signalVars
  <1>2. PlaceInv'
    BY FileFacts, ChannelFacts, ChunkFacts DEF TypeOK, PlaceInv, FetchFails, Fault,
       fileVars, hashVars, reportVars, checkVars, signalVars
  <1>3. StoreInv'
    BY DEF TypeOK, PlaceInv, StoreInv, InPerform, FetchFails, Fault, fileVars, hashVars,
       reportVars, checkVars, signalVars
  <1>4. SignalInv'
    BY FileFacts DEF TypeOK, PlaceInv, SignalInv, Announced, FetchFails, Fault, fileVars,
       hashVars, reportVars, checkVars, signalVars
  <1>5. CauseInv'
    BY FileFacts, ChannelFacts DEF TypeOK, PlaceInv, SignalInv, CauseInv, Ready, Hashed,
       Announced, InPerform, FetchFails, Fault, fileVars, hashVars, reportVars, checkVars,
       signalVars
  <1>6. SuccessIsStored'
    BY DEF TypeOK, StoreInv, SuccessIsStored, InPerform, FetchFails, Fault, fileVars,
       hashVars, reportVars, checkVars, signalVars
  <1> QED
    BY <1>1, <1>2, <1>3, <1>4, <1>5, <1>6

LEMMA FetchFailedInv ==
    ASSUME IInv, FetchFailed
    PROVE  IInv'
  <1> USE DEF IInv
  <1>1. TypeOK'
    BY FileFacts, ChannelFacts, ChunkFacts DEF TypeOK, PlaceInv, FetchFailed, Finish,
       Unreported, fileVars, checkVars, signalVars, ghostVars
  <1>2. PlaceInv'
    BY FileFacts, ChannelFacts, ChunkFacts DEF TypeOK, PlaceInv, FetchFailed, Finish,
       Unreported, fileVars, checkVars, signalVars, ghostVars
  <1>3. StoreInv'
    BY DEF TypeOK, PlaceInv, StoreInv, InPerform, FetchFailed, Finish, Unreported, fileVars,
       checkVars, signalVars, ghostVars
  <1>4. SignalInv'
    BY FileFacts DEF TypeOK, PlaceInv, SignalInv, Announced, FetchFailed, Finish,
       Unreported, fileVars, checkVars, signalVars, ghostVars
  <1>5. CauseInv'
    BY FileFacts, ChannelFacts DEF TypeOK, PlaceInv, SignalInv, CauseInv, Ready, Hashed,
       Announced, InPerform, FetchFailed, Finish, Unreported, fileVars, checkVars, signalVars,
       ghostVars
  <1>6. SuccessIsStored'
    BY DEF TypeOK, StoreInv, SuccessIsStored, InPerform, FetchFailed, Finish, Unreported,
       fileVars, checkVars, signalVars, ghostVars
  <1> QED
    BY <1>1, <1>2, <1>3, <1>4, <1>5, <1>6

LEMMA WriteInv ==
    ASSUME IInv, Write
    PROVE  IInv'
  <1> USE DEF IInv
  <1>1. TypeOK'
    BY FileFacts, ChannelFacts, ChunkFacts DEF TypeOK, PlaceInv, Write, fileVars, hashVars,
       reportVars, checkVars, signalVars, ghostVars
  <1>2. PlaceInv'
    BY FileFacts, ChannelFacts, ChunkFacts DEF TypeOK, PlaceInv, Write, fileVars, hashVars,
       reportVars, checkVars, signalVars, ghostVars
  <1>3. StoreInv'
    BY DEF TypeOK, PlaceInv, StoreInv, InPerform, Write, fileVars, hashVars, reportVars, checkVars,
       signalVars, ghostVars
  <1>4. SignalInv'
    BY FileFacts DEF TypeOK, PlaceInv, SignalInv, Announced, Write, fileVars, hashVars,
       reportVars, checkVars, signalVars, ghostVars
  <1>5. CauseInv'
    BY FileFacts, ChannelFacts DEF TypeOK, PlaceInv, SignalInv, CauseInv, Ready, Hashed,
       Announced, InPerform, Write, fileVars, hashVars, reportVars, checkVars, signalVars, ghostVars
  <1>6. SuccessIsStored'
    BY DEF TypeOK, StoreInv, SuccessIsStored, InPerform, Write, fileVars, hashVars,
       reportVars, checkVars, signalVars, ghostVars
  <1> QED
    BY <1>1, <1>2, <1>3, <1>4, <1>5, <1>6

LEMMA WriteFailsInv ==
    ASSUME IInv, WriteFails
    PROVE  IInv'
  <1> USE DEF IInv
  <1>1. TypeOK'
    <2>1. cause' \in BOOLEAN /\ skipped' \in BOOLEAN /\ torn' \in BOOLEAN /\ raced' \in BOOLEAN
      BY Zenon DEF TypeOK, InPerform, WriteFails, Fault, GivesUp, Finish, Unreported
    <2>2. pushes' \in 0..MaxPushes /\ faults' \in 0..MaxFaults
      BY OtaBoundsAssumption DEF TypeOK, WriteFails, Fault, GivesUp, Finish, Unreported
    <2>3. is_report_new_config' \in [Kinds -> BOOLEAN] /\ told' \subseteq Kinds
      BY DEF TypeOK, WriteFails, Finish, Unreported, reportVars, checkVars
    <2>4. /\ a_pc' \in {"idle", "finish"} /\ a_kind' \in Kinds /\ a_chunk' = NoChunk
          /\ result' \in {"none", "success", "fail"}
      BY DEF TypeOK, WriteFails, Finish
    <2>5. UNCHANGED <<state, type, fileVars, hashVars, ch_fetch, signalVars, storage>>
      BY DEF WriteFails
    <2>6. UNCHANGED <<d_pc, d_kind>>
      BY DEF WriteFails, Finish, checkVars
    <2> QED
      BY <2>1, <2>2, <2>3, <2>4, <2>5, <2>6 DEF TypeOK, fileVars, hashVars, signalVars
  <1>2. PlaceInv'
    BY FileFacts, ChannelFacts, ChunkFacts DEF TypeOK, PlaceInv, WriteFails, Fault, GivesUp,
       Finish, Unreported, fileVars, hashVars, reportVars, checkVars, signalVars
  <1>3. StoreInv'
    BY DEF TypeOK, PlaceInv, StoreInv, InPerform, WriteFails, Fault, GivesUp, Finish,
       Unreported, fileVars, hashVars, reportVars, checkVars, signalVars
  <1>4. SignalInv'
    BY FileFacts DEF TypeOK, PlaceInv, SignalInv, Announced, WriteFails, Fault, GivesUp,
       Finish, Unreported, fileVars, hashVars, reportVars, checkVars, signalVars
  <1>5. CauseInv'
    BY FileFacts, ChannelFacts DEF TypeOK, PlaceInv, SignalInv, CauseInv, Ready, Hashed,
       Announced, InPerform, WriteFails, Fault, GivesUp, Finish, Unreported, fileVars,
       hashVars, reportVars, checkVars, signalVars
  <1>6. SuccessIsStored'
    BY DEF TypeOK, StoreInv, SuccessIsStored, InPerform, WriteFails, Fault, GivesUp, Finish,
       Unreported, fileVars, hashVars, reportVars, checkVars, signalVars
  <1> QED
    BY <1>1, <1>2, <1>3, <1>4, <1>5, <1>6

LEMMA IsFetchFinishInv ==
    ASSUME IInv, IsFetchFinish
    PROVE  IInv'
  <1> USE DEF IInv
  <1>1. TypeOK'
    BY FileFacts, ChannelFacts, ChunkFacts DEF TypeOK, PlaceInv, IsFetchFinish, fileVars,
       hashVars, reportVars, checkVars, signalVars, ghostVars
  <1>2. PlaceInv'
    BY FileFacts, ChannelFacts, ChunkFacts DEF TypeOK, PlaceInv, IsFetchFinish, fileVars,
       hashVars, reportVars, checkVars, signalVars, ghostVars
  <1>3. StoreInv'
    BY DEF TypeOK, PlaceInv, StoreInv, InPerform, IsFetchFinish, fileVars, hashVars,
       reportVars, checkVars, signalVars, ghostVars
  <1>4. SignalInv'
    BY FileFacts DEF TypeOK, PlaceInv, SignalInv, Announced, IsFetchFinish, fileVars,
       hashVars, reportVars, checkVars, signalVars, ghostVars
  <1>5. CauseInv'
    BY FileFacts, ChannelFacts DEF TypeOK, PlaceInv, SignalInv, CauseInv, Ready, Hashed,
       Announced, InPerform, IsFetchFinish, fileVars, hashVars, reportVars, checkVars, signalVars,
       ghostVars
  <1>6. SuccessIsStored'
    BY DEF TypeOK, StoreInv, SuccessIsStored, InPerform, IsFetchFinish, fileVars, hashVars,
       reportVars, checkVars, signalVars, ghostVars
  <1> QED
    BY <1>1, <1>2, <1>3, <1>4, <1>5, <1>6

LEMMA CheckInv ==
    ASSUME IInv, Check
    PROVE  IInv'
  <1> USE DEF IInv
  <1>1. TypeOK'
    BY FileFacts, ChannelFacts, ChunkFacts DEF TypeOK, PlaceInv, Check, Valid, Finish,
       Unreported, fileVars, hashVars, checkVars, signalVars, ghostVars
  <1>2. PlaceInv'
    BY FileFacts, ChannelFacts, ChunkFacts DEF TypeOK, PlaceInv, Check, Valid, Finish,
       Unreported, fileVars, hashVars, checkVars, signalVars, ghostVars
  <1>3. StoreInv'
    BY DEF TypeOK, PlaceInv, StoreInv, InPerform, Check, Valid, Finish, Unreported,
       fileVars, hashVars, checkVars, signalVars, ghostVars
  <1>4. SignalInv'
    BY FileFacts DEF TypeOK, PlaceInv, SignalInv, Announced, Check, Valid, Finish,
       Unreported, fileVars, hashVars, checkVars, signalVars, ghostVars
  <1>5. CauseInv'
    BY FileFacts, ChannelFacts DEF TypeOK, PlaceInv, SignalInv, CauseInv, Ready, Hashed,
       Announced, InPerform, Check, Valid, Finish, Unreported, fileVars, hashVars,
       checkVars, signalVars, ghostVars
  <1>6. SuccessIsStored'
    <2>1. CASE ~Valid
      BY <2>1 DEF Check, Finish, SuccessIsStored
    <2>2. CASE Valid
      <3>1. PICK f \in OfKind(a_kind) : md5 = Content(f)
        BY <2>2 DEF Valid, OfKind, TypeOK, Kinds
      <3>2. ~torn /\ ~skipped => md5 = storage
        BY DEF Check, StoreInv, InPerform
      <3>3. a_kind = "fota" => ~skipped
        BY DEF Check, StoreInv, InPerform
      <3>4. torn' = torn /\ skipped' = skipped /\ a_kind' = a_kind /\ storage' = storage
        BY DEF Check, Finish, ghostVars
      <3> QED
        BY <3>1, <3>2, <3>3, <3>4 DEF SuccessIsStored, TypeOK, Kinds
    <2> QED
      BY <2>1, <2>2
  <1> QED
    BY <1>1, <1>2, <1>3, <1>4, <1>5, <1>6

-----------------------------------------------------------------------------
(* The theorems.                                                            *)

LEMMA InvNext == IInv /\ [Next]_vars => IInv'
  <1> SUFFICES ASSUME IInv, [Next]_vars PROVE IInv'
    OBVIOUS
  <1>1. ASSUME NEW f \in Files, Push(f)
        PROVE  IInv'
    BY <1>1, PushInv
  <1>2. CASE SignalStep
    BY <1>2, FirmwareParamsInv, ConfigParamsInv, OpenChannelInv, SetTypeInv, SetStateInv
       DEF SignalStep
  <1>3. ASSUME NEW kind \in Kinds, CheckState(kind) \/ Begin(kind)
        PROVE  IInv'
    BY <1>3, CheckStateInv, BeginInv
  <1>6. CASE CheckStep
    BY <1>6, CheckTypeInv, TellUserInv, SetReportedInv DEF CheckStep
  <1>4. CASE AppStep
    BY <1>4, FetchRefusedInv, FetchChunkInv, FetchEmptyInv, NoHashInv, FetchFailsInv,
       FetchFailedInv, WriteInv, WriteFailsInv, IsFetchFinishInv, CheckInv DEF AppStep
  <1>5. CASE UNCHANGED vars
    BY <1>5 DEF vars, fileVars, hashVars, reportVars, checkVars, signalVars, appVars, ghostVars,
       IInv,
       TypeOK, PlaceInv, StoreInv, SignalInv, CauseInv, SuccessIsStored, Ready, Hashed, Announced,
       InPerform
  <1> QED
    BY <1>1, <1>2, <1>3, <1>4, <1>5, <1>6 DEF Next

\* The inductive invariant holds in every state of OtaFetch.
THEOREM Invariance == Spec => []IInv
  BY InvInit, InvNext, PTL DEF Spec

\* Every variable of the handle and of its three threads keeps its type; in particular the
\* channel never reads past the end of its file (ofc_Fetch).
THEOREM TypeCorrect == Spec => []TypeOK
  <1>1. IInv => TypeOK
    BY DEF IInv
  <1> QED
    BY <1>1, Invariance, PTL

\* What dm_fota_perform_sync and dm_cota_perform_sync call a success is stored as it was
\* announced, up to the two exceptions that SuccessIsStored names.
THEOREM SuccessStored == Spec => []SuccessIsStored
  <1>1. IInv => SuccessIsStored
    BY DEF IInv
  <1> QED
    BY <1>1, Invariance, PTL

\* An update fails only when the network, the storage or the memory has failed, or when an
\* announcement overlapped a perform_sync: nothing an earlier download left in the handle
\* makes a later one fail.
THEOREM FailureHasCause == Spec => FailsForCause
  <1> DEFINE Blame == InPerform /\ a_pc' = "idle" /\ result' = "fail" => cause'
  <1>1. IInv /\ [Next]_vars => [Blame]_vars
    <2> SUFFICES ASSUME IInv, Next PROVE Blame
      OBVIOUS
    <2> SUFFICES ASSUME InPerform, a_pc' = "idle", result' = "fail" PROVE cause'
      OBVIOUS
    <2> USE DEF IInv, InPerform
    <2>1. CASE SignalStep \/ \E f \in Files : Push(f)
      BY <2>1 DEF SignalStep, Push, FirmwareParams, ConfigParams, OpenChannel, SetType, SetState,
         appVars
    <2>2. ASSUME NEW kind \in Kinds, CheckState(kind) \/ Begin(kind)
          PROVE  cause'
      BY <2>2 DEF CheckState, Begin, appVars
    <2>8. CASE CheckStep
      BY <2>8 DEF CheckStep, CheckType, TellUser, SetReported, appVars
    <2>3. CASE FetchRefused
      BY <2>3 DEF FetchRefused, CauseInv, ghostVars
    <2>4. CASE FetchChunk \/ FetchEmpty \/ FetchFails \/ Write \/ IsFetchFinish
      BY <2>4 DEF FetchChunk, FetchEmpty, FetchFails, Write, IsFetchFinish
    <2>5. CASE NoHash \/ WriteFails
      BY <2>5 DEF NoHash, WriteFails
    <2>6. CASE FetchFailed
      BY <2>6 DEF FetchFailed, CauseInv, ghostVars
    <2>7. CASE Check
      <3>1. ~Valid /\ a_pc = "check" /\ cause' = cause
        BY <2>7 DEF Check, Finish, ghostVars
      <3>2. ASSUME ~cause PROVE FALSE
        <4> DEFINE f == ch_fetch.file
        <4>1. /\ state = "fetched" /\ size_fetched = Size[f] /\ Hashed
              /\ f \in Files /\ Announced(a_kind) = f
          BY <3>1, <3>2, ChannelFacts DEF CauseInv, Ready
        <4>2. Size[f] \in Nat \ {0} /\ f # "none"
          BY <4>1, FileFacts
        <4>3. Content(f) \in Seq(Chunk) /\ Len(Content(f)) = Size[f]
          <5>1. \A k \in 1..Size[f] : [file |-> f, k |-> k] \in Chunk
            BY <4>1, <4>2, ChunkFacts
          <5>2. Content(f) \in [1..Size[f] -> Chunk]
            BY <5>1 DEF Content
          <5>3. Content(f) \in Seq(Chunk)
            BY <4>2, <5>2, SeqDef
          <5> QED
            BY <4>2, <5>2, <5>3, LenProperties
        <4>4. \A k \in 1..Size[f] : md5[k] = Content(f)[k]
          BY <4>1, <4>2 DEF Hashed, Content
        <4>5. md5 = Content(f)
          BY <4>1, <4>2, <4>3, <4>4, SeqEqual DEF Hashed, TypeOK
        <4> QED
          BY <3>1, <4>1, <4>2, <4>5 DEF Valid, Announced
      <3> QED
        BY <3>1, <3>2
    <2> QED
      BY <2>1, <2>2, <2>3, <2>4, <2>5, <2>6, <2>7, <2>8 DEF Next, AppStep
  <1> QED
    BY <1>1, Invariance, PTL DEF Spec, FailsForCause

=============================================================================
