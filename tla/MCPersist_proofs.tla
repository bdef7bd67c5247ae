-------------------------- MODULE MCPersist_proofs --------------------------
(***************************************************************************)
(* Proofs about what a port saves (PortSave), for every queue size, every  *)
(* number of requests, saving tasks and crashes: what a crash takes and    *)
(* what it leaves.  S is PortSave as MCPersist instantiates it; W brings   *)
(* the lemmas about the write pipeline, whose steps are the same formulas. *)
(*                                                                         *)
(* Before them, proofs about JsonPersist: what callers were told is stored *)
(* survives one save that fails or is cut short, however many changes,     *)
(* crashes and complete saves there are.                                   *)
(*                                                                         *)
(* After them, proofs about Provisioning: what users change while a slave  *)
(* is offline waits until the slave has had it, and the caches of one that *)
(* is listened to come to what it has.                                     *)
(***************************************************************************)
EXTENDS MCPersist, SequenceTheorems, TLAPS

-----------------------------------------------------------------------------
(* The files of the driver. *)

\* Contents of files are contents, and their fields are sets of changes.
LEMMA ContentFacts ==
    /\ Missing \in Content
    /\ Empty \in Content
    /\ Torn \in Content
    /\ \A db \in SUBSET Change :
          Whole(db) \in Content /\ Whole(db).kind = "whole" /\ Whole(db).has = db
    /\ \A f \in Content : f.has \subseteq Change
  BY DEF Content, Missing, Empty, Torn, Whole

\* The initial state has the types (Init).
LEMMA TypeInit == Init => TypeOK
  BY ContentFacts, BoundsAssumption DEF Init, TypeOK, Saving, Missing

\* What _load takes is a content.
LEMMA LoadedType ==
  ASSUME TypeOK
  PROVE  Loaded \in Content
  BY ContentFacts DEF TypeOK, Loaded, Content

\* Every step keeps the types (Next).
LEMMA TypeStep == TypeOK /\ [Next]_vars => TypeOK'
  <1> SUFFICES ASSUME TypeOK, [Next]_vars PROVE TypeOK'
    OBVIOUS
  <1> USE ContentFacts, BoundsAssumption
  <1>1. CASE Modify
    <2>1. made + 1 \in Change
      BY <1>1 DEF Modify, TypeOK, Change
    <2> QED
      BY <1>1, <2>1 DEF Modify, TypeOK, Saving
  <1>2. CASE BackUp
    BY <1>2 DEF BackUp, TypeOK, Saving
  <1>3. CASE OpenFile
    BY <1>3 DEF OpenFile, TypeOK, Saving
  <1>4. CASE WriteSome
    BY <1>4 DEF WriteSome, TypeOK, Saving
  <1>5. CASE WriteRest
    BY <1>5 DEF WriteRest, TypeOK, Saving, Whole
  <1>6. CASE SaveFails
    BY <1>6 DEF SaveFails, TypeOK, Saving
  <1>7. CASE Crash
    BY <1>7 DEF Crash, TypeOK, Saving
  <1>8. CASE Load
    <2>1. Loaded.has \subseteq Change
      BY LoadedType
    <2> QED
      BY <1>8, <2>1 DEF Load, TypeOK, Saving
  <1>9. CASE UNCHANGED vars
    BY <1>9 DEF vars, TypeOK
  <1> QED
    BY <1>1, <1>2, <1>3, <1>4, <1>5, <1>6, <1>7, <1>8, <1>9 DEF Next

\* Type correctness of the driver's state and its files, for every bound.
THEOREM TypeCorrect == Spec => []TypeOK
  BY TypeInit, TypeStep, PTL DEF Spec

-----------------------------------------------------------------------------
\* Every step keeps a good copy where CopiesInv says (Next).
LEMMA CopiesStep == TypeOK /\ CopiesInv /\ [Next]_vars => CopiesInv'
  <1> SUFFICES ASSUME TypeOK, CopiesInv, [Next]_vars PROVE CopiesInv'
    OBVIOUS
  <1>1. CASE Modify
    BY <1>1 DEF Modify, CopiesInv, Holds
  <1>2. CASE BackUp
    BY <1>2 DEF BackUp, CopiesInv, Holds, Missing
  <1>3. CASE OpenFile
    BY <1>3 DEF OpenFile, CopiesInv, Holds, Empty
  <1>4. CASE WriteSome
    BY <1>4 DEF WriteSome, CopiesInv, Holds, Torn
  <1>5. CASE WriteRest
    <2>1. Holds(file)'
      BY <1>5, ContentFacts DEF WriteRest, Holds, TypeOK
    <2> QED
      BY <1>5, <2>1 DEF WriteRest, CopiesInv, Holds
  <1>6. CASE SaveFails
    BY <1>6 DEF SaveFails, CopiesInv, Holds, TypeOK, Saving
  <1>7. CASE Crash
    BY <1>7 DEF Crash, CopiesInv, Holds, TypeOK, Saving
  <1>8. CASE Load
    <2>1. CASE Loaded.kind # "whole"
      BY <1>8, <2>1 DEF Load, CopiesInv, Holds
    <2>2. CASE Loaded.kind = "whole"
      <3>1. /\ acked' = acked \cap Loaded.has
            /\ UNCHANGED <<file, backup, failures>>
            /\ pc = "down" /\ pc' = "idle"
        BY <1>8, <2>2 DEF Load
      <3>2. acked' = {} \/ (Holds(file)' /\ acked' \subseteq acked)
                        \/ (Holds(backup)' /\ acked' \subseteq acked /\ file.kind = "torn")
        BY <3>1, <2>2, ContentFacts DEF Loaded, Holds, TypeOK, Content, Whole
      <3> QED
        BY <3>1, <3>2 DEF CopiesInv, Holds
    <2> QED
      BY <2>1, <2>2
  <1>9. CASE UNCHANGED vars
    BY <1>9 DEF vars, CopiesInv, Holds
  <1> QED
    BY <1>1, <1>2, <1>3, <1>4, <1>5, <1>6, <1>7, <1>8, <1>9 DEF Next

\* A good copy is where CopiesInv says, always.
LEMMA CopiesCorrect == Spec => [](TypeOK /\ CopiesInv)
  <1>1. Init => CopiesInv
    BY DEF Init, CopiesInv, Missing
  <1> QED
    BY <1>1, TypeInit, TypeStep, CopiesStep, PTL DEF Spec

\* What callers were told is stored is on disk whole while at most one save has
\* failed or was cut short since the last complete one (_save's rename).
THEOREM AckedStaysOnDisk == Spec => []AckedOnDisk
  <1>1. TypeOK /\ CopiesInv => AckedOnDisk
    BY DEF TypeOK, CopiesInv, AckedOnDisk, Holds
  <1> QED
    BY <1>1, CopiesCorrect, PTL

\* A restart after at most one such save finds it again (_load's use of the backup),
\* unless the crash left no file or an empty one.
THEOREM RestartFindsAcked == Spec => RestartRecovers
  <1>1. TypeOK /\ CopiesInv /\ [Next]_vars =>
            [/\ UseBackup
             /\ pc = "down"
             /\ failures <= 1
             /\ acked # {}
             /\ file.kind \in {"torn", "whole"}
             => pc' = "idle" /\ acked \subseteq mem']_vars
    <2> SUFFICES ASSUME TypeOK, CopiesInv, Next,
                        UseBackup, pc = "down", failures <= 1, acked # {},
                        file.kind \in {"torn", "whole"}
                 PROVE  pc' = "idle" /\ acked \subseteq mem'
      OBVIOUS
    <2>1. Load
      BY DEF Next, Modify, BackUp, OpenFile, WriteSome, WriteRest, SaveFails, Crash, Saving
    <2>2. Loaded.kind = "whole" /\ acked \subseteq Loaded.has
      BY DEF CopiesInv, Holds, Loaded, TypeOK
    <2> QED
      BY <2>1, <2>2 DEF Load
  <1> QED
    BY <1>1, CopiesCorrect, PTL DEF Spec, RestartRecovers

-----------------------------------------------------------------------------
W == INSTANCE PortWrite_proofs

-----------------------------------------------------------------------------
(* The pipeline within PortSave is the pipeline of PortWrite. *)

\* The assumption under which PortWrite_proofs proves its lemmas.
LEMMA Sizes == W!SizesAssumption
BY SaverAssumption DEF W!SizesAssumption

\* Both have the same types.
LEMMA SameTypes ==
    /\ S!TypeOK <=> W!TypeOK
    /\ S!Request = W!Request
    /\ S!portVars = W!portVars
    /\ S!Init <=> W!Init
<1>1. S!Request = W!Request
  BY DEF S!Request, W!Request
<1>2. S!portVars = W!portVars
  BY DEF S!portVars, W!portVars
<1>3. S!TypeOK <=> W!TypeOK
  BY Zenon DEF S!TypeOK, W!TypeOK, S!Request, W!Request, S!OptRequest, W!OptRequest,
     S!FutState, W!FutState, S!Answer, W!Answer, S!Phase, W!Phase, S!LoopState, W!LoopState
<1>4. S!Init <=> W!Init
  BY DEF S!Init, W!Init, S!Request, W!Request
<1>. QED
  BY <1>1, <1>2, <1>3, <1>4

\* Both take the same steps.
LEMMA SameSteps == S!Next <=> W!Next
<1>. USE DEF S!OthersRun, W!OthersRun, S!Request, W!Request, S!loopVars, W!loopVars,
             S!lockVars, W!lockVars, S!SaveAsap, W!SaveAsap
<1>1. \A rs, a : S!Settle(fut, rs, a) = W!Settle(fut, rs, a)
  BY Zenon DEF S!Settle, W!Settle
<1>2. \A awaited \in BOOLEAN : S!PushWrite(awaited) <=> W!PushWrite(awaited)
  BY Zenon DEF S!PushWrite, W!PushWrite, S!Settle, W!Settle, S!Evicted, W!Evicted,
               S!Enqueued, W!Enqueued
<1>3. (S!DirectWrite <=> W!DirectWrite) /\ (S!Cleanup <=> W!Cleanup)
  BY Zenon DEF S!DirectWrite, W!DirectWrite, S!Cleanup, W!Cleanup
<1>4. \A r : S!AcquireLock(r) <=> W!AcquireLock(r)
  BY Zenon DEF S!AcquireLock, W!AcquireLock
<1>5. \A r, a : S!Return(r, a) <=> W!Return(r, a)
  BY Zenon DEF S!Return, W!Return, S!Settle, W!Settle
<1>6. \A r, p : S!Resumes(r, p) <=> W!Resumes(r, p)
  BY Zenon DEF S!Resumes, W!Resumes
<1>7. S!LoopStep <=> W!LoopStep
  <2>1. \A transforms : S!LoopPop(transforms) <=> W!LoopPop(transforms)
    BY Zenon, <1>4 DEF S!LoopPop, W!LoopPop, S!Last, W!Last, S!Front, W!Front
  <2>2. (S!LoopEmpty <=> W!LoopEmpty) /\ (S!LoopWake <=> W!LoopWake)
    BY Zenon DEF S!LoopEmpty, W!LoopEmpty, S!LoopWake, W!LoopWake
  <2>3. S!CancelLoop <=> W!CancelLoop
    BY Zenon DEF S!CancelLoop, W!CancelLoop, S!Settle, W!Settle, S!LoopCallers, W!LoopCallers,
       S!ReleaseLock, W!ReleaseLock, S!LeaveLockQueue, W!LeaveLockQueue, S!ToSet, W!ToSet,
       S!RemoveAt, W!RemoveAt
  <2>. QED
    BY Zenon, <2>1, <2>2, <2>3 DEF S!LoopStep, W!LoopStep
<1>8. \A r : S!WriteStep(r) <=> W!WriteStep(r)
  <2>. TAKE r
  <2>1. (S!LockGranted(r) <=> W!LockGranted(r)) /\ (S!TransformOk(r) <=> W!TransformOk(r))
    BY Zenon, <1>4, <1>6 DEF S!LockGranted, W!LockGranted, S!TransformOk, W!TransformOk
  <2>2. /\ S!TransformUnavailable(r) <=> W!TransformUnavailable(r)
        /\ S!TransformFails(r) <=> W!TransformFails(r)
    BY Zenon, <1>5, <1>6 DEF S!TransformUnavailable, W!TransformUnavailable,
                             S!TransformFails, W!TransformFails
  <2>3. (S!WriteOk(r) <=> W!WriteOk(r)) /\ (S!WriteFails(r) <=> W!WriteFails(r))
    BY Zenon, <1>5, <1>6 DEF S!WriteOk, W!WriteOk, S!WriteFails, W!WriteFails,
                             S!ReleaseLock, W!ReleaseLock
  <2>. QED
    BY Zenon, <2>1, <2>2, <2>3 DEF S!WriteStep, W!WriteStep
<1>. QED
  BY Zenon, <1>2, <1>3, <1>7, <1>8 DEF S!Next, W!Next

\* Every step of the pipeline keeps its types, also within PortSave.
LEMMA PipelineTypes == S!TypeOK /\ S!Next => S!TypeOK'
<1>1. S!TypeOK' <=> W!TypeOK'
  BY Zenon DEF S!TypeOK, W!TypeOK, S!Request, W!Request, S!OptRequest, W!OptRequest,
     S!FutState, W!FutState, S!Answer, W!Answer, S!Phase, W!Phase, S!LoopState, W!LoopState
<1>2. W!TypeOK /\ [W!Next]_W!portVars => W!TypeOK'
  BY Sizes, W!TypeStep
<1>. QED
  BY <1>1, <1>2, SameTypes, SameSteps

-----------------------------------------------------------------------------
(* What a port saves. *)

\* What to_persisted() returns is a record of the database.
LEMMA ToPersistedType == S!TypeOK => S!ToPersisted \in S!Record
BY DEF S!TypeOK, S!ToPersisted, S!Record

\* A port that was just loaded is on disk as it is.
LEMMA SavesInit == S!SaveInit => SavesHold
<1>. SUFFICES ASSUME S!SaveInit PROVE SavesHold
  OBVIOUS
<1>1. S!TypeOK
  BY Sizes, SameTypes, W!TypeInit DEF S!SaveInit
<1>2. S!SaveTypeOK
  <2>1. 0 \in 0..MaxStops /\ S!ToPersisted \in S!Record
    BY <1>1, ToPersistedType, SaverAssumption
  <2>. QED
    BY <1>1, <2>1 DEF S!SaveInit, S!SaveTypeOK
<1>3. S!QueuedValuesSurvive
  BY DEF S!SaveInit, S!QueuedValuesSurvive, S!ToPersisted
<1>4. S!OneSaveAtATime
  BY DEF S!SaveInit, S!OneSaveAtATime
<1>. QED
  BY <1>2, <1>3, <1>4 DEF SavesHold, S!SavesHold

\* A step of the pipeline that asks for no save adds nothing to the queue: whoever pushes
\* a value asks for one.
LEMMA QueueShrinks ==
    ASSUME S!TypeOK, S!Next, ~pendingSave'
    PROVE  ~pendingSave /\ S!ToSet(queue') \subseteq S!ToSet(queue)
<1>. USE DEF S!SaveAsap, S!loopVars, S!lockVars
<1>1. pendingSave \in BOOLEAN /\ queue \in Seq(S!Request)
  BY DEF S!TypeOK
<1>2. CASE UNCHANGED <<queue, pendingSave>>
  BY <1>2
<1>3. ASSUME NEW transforms \in Transforms, S!LoopPop(transforms)
      PROVE  ~pendingSave /\ S!ToSet(queue') \subseteq S!ToSet(queue)
  <2>1. queue # <<>> /\ queue' = W!Front(queue) /\ pendingSave' = pendingSave
    BY <1>3 DEF S!LoopPop, S!Front, W!Front
  <2>2. /\ queue' \in Seq(S!Request)
        /\ Len(queue') = Len(queue) - 1
        /\ Len(queue) \in Nat
        /\ \A i \in 1..(Len(queue) - 1) : queue'[i] = queue[i]
    BY <1>1, <2>1, Sizes, W!FrontProperties
  <2>3. /\ S!ToSet(queue') = {queue'[i] : i \in 1..(Len(queue) - 1)}
        /\ S!ToSet(queue) = {queue[i] : i \in 1..Len(queue)}
    BY <1>1, <2>2 DEF S!ToSet
  <2>. QED
    BY <2>1, <2>2, <2>3
<1>4. ASSUME NEW r \in S!Request, S!WriteStep(r)
      PROVE  UNCHANGED <<queue, pendingSave>> \/ pendingSave' = TRUE
  BY <1>4 DEF S!WriteStep, S!LockGranted, S!TransformOk, S!TransformUnavailable,
              S!TransformFails, S!WriteOk, S!WriteFails, S!ReleaseLock
<1>5. CASE S!LoopEmpty \/ S!LoopWake \/ S!CancelLoop \/ S!DirectWrite \/ S!Cleanup
  <2>1. UNCHANGED <<queue, pendingSave>> \/ pendingSave' = TRUE
    BY <1>5 DEF S!LoopEmpty, S!LoopWake, S!CancelLoop, S!DirectWrite, S!Cleanup, S!ReleaseLock
  <2>. QED
    BY <1>2, <2>1
<1>6. ASSUME NEW awaited \in BOOLEAN, S!PushWrite(awaited) PROVE FALSE
  BY <1>6 DEF S!PushWrite
<1>. QED
  BY <1>2, <1>3, <1>4, <1>5, <1>6 DEF S!Next, S!LoopStep

\* A restart finds a pipeline that is well typed, with the queue that was stored.
LEMMA LoadedTypes ==
    ASSUME S!SaveTypeOK, S!CrashAndLoad
    PROVE  S!SaveTypeOK' /\ S!ToSet(queue') = S!ToSet(disk'.queue)
<1>1. disk' \in S!Record /\ queue' = disk'.queue /\ lastWritten' = disk'.lastWritten
  BY DEF S!CrashAndLoad, S!SaveTypeOK
<1>2. queue' \in Seq(S!Request) /\ Len(queue') <= WriteQueueSize /\ lastWritten' \in S!OptRequest
  BY <1>1 DEF S!Record
<1>3. fut' \in [S!Request -> S!FutState] /\ phase' \in [S!Request -> S!Phase]
  BY DEF S!CrashAndLoad, S!SaveTypeOK, S!TypeOK, S!FutState, S!Phase
<1>4. 0 \in S!OptRequest /\ waiters' \in Seq(S!Request)
  BY SaverAssumption DEF S!OptRequest, S!CrashAndLoad
<1>5. S!TypeOK'
  BY <1>2, <1>3, <1>4 DEF S!CrashAndLoad, S!SaveTypeOK, S!TypeOK, S!LoopState
<1>6. stops' \in 0..MaxStops
  BY SaverAssumption DEF S!CrashAndLoad, S!SaveTypeOK
<1>7. saver' \in [Saver -> {"idle", "lock", "replace"}] /\ snapshot' \in S!Record
  BY <1>1 DEF S!CrashAndLoad
<1>. QED
  BY <1>1, <1>5, <1>6, <1>7 DEF S!CrashAndLoad, S!SaveTypeOK

\* Every step of the port, of those who save it and of a crash keeps the three properties:
\* they are inductive together.
LEMMA SavesStep == SavesHold /\ [S!SaveNext]_S!vars => SavesHold'
<1>. SUFFICES ASSUME SavesHold, [S!SaveNext]_S!vars PROVE SavesHold'
  OBVIOUS
<1>. USE DEF SavesHold, S!SavesHold
<1>0. S!ToPersisted \in S!Record
  BY ToPersistedType DEF S!SaveTypeOK
<1>1. CASE S!Next /\ UNCHANGED S!saveVars
  <2>1. S!SaveTypeOK'
    BY <1>1, PipelineTypes DEF S!SaveTypeOK, S!saveVars
  <2>2. S!QueuedValuesSurvive'
    BY <1>1, QueueShrinks DEF S!QueuedValuesSurvive, S!saveVars, S!SaveTypeOK, S!ToSet
  <2>3. S!OneSaveAtATime'
    BY <1>1 DEF S!OneSaveAtATime, S!saveVars
  <2>. QED
    BY <2>1, <2>2, <2>3
<1>2. ASSUME NEW s \in Saver, S!SaveCalled(s) \/ S!SaveLockGranted(s) PROVE SavesHold'
  <2>1. UNCHANGED <<S!portVars, disk, missed, stops>> /\ snapshot' \in {snapshot, S!ToPersisted}
    BY <1>2 DEF S!SaveCalled, S!SaveLockGranted
  <2>2. saver' \in [Saver -> {"idle", "lock", "replace"}]
    BY <1>2 DEF S!SaveCalled, S!SaveLockGranted, S!SaveTypeOK
  <2>3. S!SaveTypeOK'
    BY <1>0, <2>1, <2>2 DEF S!SaveTypeOK, S!TypeOK, S!portVars
  <2>4. S!QueuedValuesSurvive'
    BY <2>1 DEF S!QueuedValuesSurvive, S!portVars
  <2>5. S!OneSaveAtATime'
    <3>1. \/ saver' = [saver EXCEPT ![s] = "lock"]
          \/ saver' = [saver EXCEPT ![s] = "replace"] /\ \A o \in Saver : saver[o] # "replace"
      BY <1>2 DEF S!SaveCalled, S!SaveLockGranted, S!SaveLockFree
    <3>. QED
      BY <3>1 DEF S!OneSaveAtATime, S!SaveTypeOK
  <2>. QED
    BY <2>3, <2>4, <2>5
<1>3. ASSUME NEW s \in Saver, S!SaveDone(s) PROVE SavesHold'
  <2>1. /\ disk' = snapshot /\ pendingSave' = FALSE /\ missed' = (snapshot # S!ToPersisted)
        /\ saver' = [saver EXCEPT ![s] = "idle"]
        /\ UNCHANGED <<submitted, queue, fut, phase, loop, cur, cancelling, holder, waiters,
                       writing, lastWritten, delivered, snapshot, stops>>
    BY <1>3 DEF S!SaveDone, S!loopVars, S!lockVars
  <2>2. S!SaveTypeOK'
    BY <2>1 DEF S!SaveTypeOK, S!TypeOK
  <2>3. S!QueuedValuesSurvive'
    <3>1. ~missed' => snapshot = S!ToPersisted
      BY <2>1
    <3>2. ~missed' => disk'.queue = queue'
      BY <2>1, <3>1 DEF S!ToPersisted
    <3>3. ~missed' => S!ToSet(disk'.queue) = S!ToSet(queue')
      BY <3>2
    <3>. QED
      BY <3>3 DEF S!QueuedValuesSurvive
  <2>4. S!OneSaveAtATime'
    BY <2>1 DEF S!OneSaveAtATime, S!SaveTypeOK
  <2>. QED
    BY <2>2, <2>3, <2>4
<1>4. ASSUME NEW s \in Saver, S!SaveFails(s) PROVE SavesHold'
  <2>1. /\ saver' = [saver EXCEPT ![s] = "idle"] /\ snapshot' = disk
        /\ UNCHANGED <<S!portVars, disk, missed, stops>>
    BY <1>4 DEF S!SaveFails
  <2>2. S!SaveTypeOK'
    BY <2>1 DEF S!SaveTypeOK, S!TypeOK, S!portVars
  <2>3. S!QueuedValuesSurvive' /\ S!OneSaveAtATime'
    BY <2>1 DEF S!QueuedValuesSurvive, S!OneSaveAtATime, S!SaveTypeOK, S!portVars
  <2>. QED
    BY <2>2, <2>3
<1>5. CASE S!CrashAndLoad
  <2>1. S!SaveTypeOK' /\ S!ToSet(queue') = S!ToSet(disk'.queue)
    BY <1>5, LoadedTypes
  <2>2. S!OneSaveAtATime'
    BY <1>5 DEF S!CrashAndLoad, S!OneSaveAtATime
  <2>. QED
    BY <2>1, <2>2 DEF S!QueuedValuesSurvive
<1>6. CASE UNCHANGED S!vars
  BY <1>6 DEF S!vars, S!portVars, S!saveVars, S!SaveTypeOK, S!TypeOK, S!QueuedValuesSurvive,
              S!OneSaveAtATime
<1>. QED
  BY <1>1, <1>2, <1>3, <1>4, <1>5, <1>6 DEF S!SaveNext

\* A port that asks for no save loses no queued value in a crash, unless a save_asap() fell
\* within a save; and while one save stores its record no other does (save(), save_asap()).
THEOREM SavesCorrect == MCSpec => []SavesHold
<1>1. MCInit => SavesHold
  BY SavesInit DEF MCInit
<1>2. SavesHold /\ [MCNext]_AllVars => SavesHold'
  <2>1. [MCNext]_AllVars => [S!SaveNext]_S!vars
    BY DEF MCNext, Json, Port, Slave, AllVars, S0, S!vars, S!portVars, S!saveVars
  <2>. QED
    BY <2>1, SavesStep
<1>. QED
  BY <1>1, <1>2, PTL DEF MCSpec

-----------------------------------------------------------------------------
(* What is saved of a slave to be sent to it (Provisioning).  P is          *)
(* Provisioning as MCPersist instantiates it: place[r] is where a task      *)
(* stands, saved what is on the disk, and telling, failed and itemChanges   *)
(* stand for its writing, failures and changes.                             *)

\* The items of which ChangesArrive tells.
Asked == {"device", "webhooks", "port"}

Stage == {"wait", "events", "ports", "device", "webhooks", "port", "value", "query", "fetch",
          "fetchPorts", "end"}

Event == [of : {"device", "port", "value"}, attr : Nat, value : Nat]

\* The types of what the proofs look at.
SlaveTypes ==
    /\ mode \in {"listen", "poll", "none"} /\ online \in BOOLEAN /\ loaded \in BOOLEAN
    /\ remote \in [P!Item -> Nat] /\ wanted \in [P!Item -> Nat]
    /\ local \in [P!Item -> Nat \cup {None}] /\ values \in Seq(Nat)
    /\ \A i \in P!DeviceItem : local[i] \in Nat /\ saved.local[i] \in Nat
    /\ saved \in [local : [P!Item -> Nat \cup {None}], marked : SUBSET P!Item]
    /\ marked \subseteq P!Item /\ arrived \subseteq P!Item /\ lost \subseteq P!Item
    /\ stuck \subseteq P!PortItem
    /\ events \in Seq(Event) /\ inbox \in Seq(Event)
    /\ place \in [Run -> Stage] /\ sending \in [Run -> Nat \cup {None}]
    /\ \A r \in Run : sending[r] # None => place[r] \in P!Item
    /\ telling \in Nat \cup {None} /\ itemChanges \in Nat

\* No change of an item waits for its provisioning: there was none, the device has had it, or it
\* is one of those that may be lost.
Settled(i) == wanted[i] = 0 \/ i \in lost \cup arrived

\* A call under way tells the change that waits.
TellsWanted ==
    \A r \in Run, i \in Asked :
        place[r] = i /\ sending[r] # None => Settled(i) \/ sending[r] = wanted[i]

\* A task finds none that waits where it takes marks away, or replaces what is cached.
Passed(r) ==
    /\ place[r] = "value" => Settled("port")
    /\ place[r] \in {"port", "value", "query"} => Settled("webhooks")
    /\ place[r] \in {"webhooks", "port", "value", "query", "fetch"} => Settled("device")

\* A change that waits does so on the disk as well.
OnDisk ==
    \A i \in Asked : Settled(i) \/ (i \in saved.marked /\ saved.local[i] = wanted[i])

Waits == TellsWanted /\ (\A r \in Run : Passed(r)) /\ OnDisk

\* The last of a queue's events of some kinds tells v; v is current if there is none.
Leads(q, kinds, field, current, v) ==
    \A j \in 0..Len(q) :
        /\ \A m \in (j + 1)..Len(q) : q[m].of \notin kinds
        /\ j > 0 => q[j].of \in kinds
        => (IF j = 0 THEN current ELSE q[j][field]) = v

\* The device's last events tell what it has.
EventsTell ==
    /\ Leads(events, {"device"}, "attr", remote["device"], remote["device"])
    /\ Leads(events, {"port"}, "attr", remote["port"], remote["port"])
    /\ Leads(events, {"port", "value"}, "value", remote["value"], remote["value"])

\* What is current comes to v, with what is received, q, and what waits at the device, told.
ComesTo(told, q, kinds, field, current, v) ==
    \/ \E m \in DOMAIN told : told[m].of \in kinds
    \/ Leads(q, kinds, field, current, v)

\* Where the loop of a device that is listened to may stand.
LoopPlaces ==
    /\ place[P!Loop] # "ports"
    /\ place[P!Loop] \in {"wait", "events"} \/ online
    /\ \A r \in Run : r # P!Loop => place[r] = "wait"
    /\ place[P!Loop] # "events" => inbox = <<>>

\* The marks of a port that is not loaded are on the disk, and may be stuck.
NotLoaded ==
    ~loaded => marked \cap P!PortItem = {} /\ saved.marked \cap P!PortItem \subseteq stuck

\* The marks that a provisioning under way has taken away.
MarksGone ==
    /\ place[P!Loop] \in {"webhooks", "port", "value", "query", "fetch", "fetchPorts"}
          => "device" \notin marked
    /\ place[P!Loop] \in {"port", "value", "query", "fetch", "fetchPorts"}
          => "webhooks" \notin marked
    /\ place[P!Loop] \in {"query", "fetch", "fetchPorts"} => marked \cap P!PortItem = {}

\* The loop stands where the caches follow the device: online, and past the fetches it begins with.
Follows(fetched) == place[P!Loop] \in fetched \/ (online /\ place[P!Loop] \in {"wait", "events"})

DeviceFollows ==
    Follows({"fetchPorts", "end"}) =>
        ComesTo(events, inbox, {"device"}, "attr", local["device"], remote["device"])

PortFollows ==
    Follows({"end"}) =>
        /\ loaded /\ marked \subseteq stuck
        /\ ComesTo(events, inbox, {"port"}, "attr", local["port"], remote["port"])
        /\ "value" \in stuck
              \/ ComesTo(events, inbox, {"port", "value"}, "value", P!LastRemoteValue,
                         remote["value"])

Listens == LoopPlaces /\ NotLoaded /\ MarksGone /\ DeviceFollows /\ PortFollows

\* The inductive invariant.
SlaveInv ==
    /\ SlaveTypes /\ P!ChangesArrive /\ Waits /\ EventsTell
    /\ mode = "listen" => Listens

\* An event's parts.
LEMMA EventFacts ==
  ASSUME NEW e \in Event
  PROVE  e["attr"] \in Nat /\ e["value"] \in Nat /\ e.attr = e["attr"] /\ e.value = e["value"]
  BY DEF Event

\* An empty queue leaves what is current.
LEMMA LeadsEmpty ==
  ASSUME NEW kinds, NEW field, NEW current, NEW v
  PROVE  Leads(<<>>, kinds, field, current, v) <=> current = v
<1>1. Len(<<>>) = 0 /\ 0..0 = {0} /\ 1..0 = {}
  OBVIOUS
<1>. QED
  BY <1>1 DEF Leads

\* So does one without events of the kinds.
LEMMA LeadsNone ==
  ASSUME NEW q \in Seq(Event), NEW kinds, NEW field, NEW current, NEW v,
         \A m \in DOMAIN q : q[m].of \notin kinds
  PROVE  Leads(q, kinds, field, current, v) <=> current = v
<1>1. Len(q) \in Nat /\ DOMAIN q = 1..Len(q)
  BY LenProperties
<1>2. ASSUME Leads(q, kinds, field, current, v) PROVE current = v
  <2>1. 0 \in 0..Len(q) /\ \A m \in (0 + 1)..Len(q) : q[m].of \notin kinds
    BY <1>1
  <2>. QED
    BY <1>2, <2>1 DEF Leads
<1>3. ASSUME current = v PROVE Leads(q, kinds, field, current, v)
  BY <1>1, <1>3 DEF Leads
<1>. QED
  BY <1>2, <1>3

\* What is current does not matter to one with such an event.
LEMMA LeadsSome ==
  ASSUME NEW q \in Seq(Event), NEW kinds, NEW field, NEW current, NEW other, NEW v,
         Leads(q, kinds, field, current, v),
         \E m \in DOMAIN q : q[m].of \in kinds
  PROVE  Leads(q, kinds, field, other, v)
<1>1. Len(q) \in Nat /\ DOMAIN q = 1..Len(q)
  BY LenProperties
<1>2. SUFFICES ASSUME NEW j \in 0..Len(q),
                      \A m \in (j + 1)..Len(q) : q[m].of \notin kinds,
                      j > 0 => q[j].of \in kinds
               PROVE  (IF j = 0 THEN other ELSE q[j][field]) = v
  BY DEF Leads
<1>3. j # 0
  BY <1>1, <1>2
<1>4. (IF j = 0 THEN current ELSE q[j][field]) = v
  BY <1>2 DEF Leads
<1>. QED
  BY <1>3, <1>4

\* Either an event of the kinds tells v, or v is current.
LEMMA LeadsCurrent ==
  ASSUME NEW q \in Seq(Event), NEW kinds, NEW field, NEW current, NEW v,
         Leads(q, kinds, field, v, v), current = v \/ \E m \in DOMAIN q : q[m].of \in kinds
  PROVE  Leads(q, kinds, field, current, v)
  BY LeadsSome

\* An event that is appended.
LEMMA LeadsAppend ==
  ASSUME NEW q \in Seq(Event), NEW e \in Event, NEW kinds, NEW field, NEW current, NEW v
  PROVE  /\ q \o <<e>> \in Seq(Event)
         /\ e.of \in kinds /\ e[field] = v => Leads(q \o <<e>>, kinds, field, current, v)
         /\ e.of \notin kinds /\ Leads(q, kinds, field, current, v)
               => Leads(q \o <<e>>, kinds, field, current, v)
         /\ (\E m \in DOMAIN (q \o <<e>>) : (q \o <<e>>)[m].of \in kinds)
               <=> e.of \in kinds \/ \E m \in DOMAIN q : q[m].of \in kinds
<1>. DEFINE p == q \o <<e>>
<1>1. <<e>> \in Seq(Event) /\ Len(<<e>>) = 1 /\ <<e>>[1] = e
  OBVIOUS
<1>2. Len(q) \in Nat /\ DOMAIN q = 1..Len(q)
  BY LenProperties
<1>3. /\ p \in Seq(Event) /\ Len(p) = Len(q) + 1
      /\ \A m \in 1..Len(q) : p[m] = q[m]
      /\ p[Len(q) + 1] = e
  <2>1. /\ p \in Seq(Event) /\ Len(p) = Len(q) + Len(<<e>>)
        /\ \A i \in 1..Len(p) : p[i] = IF i <= Len(q) THEN q[i] ELSE <<e>>[i - Len(q)]
    BY <1>1, ConcatProperties
  <2>. HIDE DEF p
  <2>. QED
    BY <1>1, <1>2, <2>1
<1>4. DOMAIN p = 1..(Len(q) + 1)
  BY <1>3, LenProperties
<1>. HIDE DEF p
<1>5. ASSUME e.of \in kinds, e[field] = v PROVE Leads(p, kinds, field, current, v)
  <2>1. SUFFICES ASSUME NEW j \in 0..Len(p),
                        \A m \in (j + 1)..Len(p) : p[m].of \notin kinds
                 PROVE  (IF j = 0 THEN current ELSE p[j][field]) = v
    BY DEF Leads
  <2>2. j = Len(q) + 1
    BY <1>2, <1>3, <1>5, <2>1
  <2>. QED
    BY <1>2, <1>3, <1>5, <2>2
<1>6. ASSUME e.of \notin kinds, Leads(q, kinds, field, current, v)
      PROVE  Leads(p, kinds, field, current, v)
  <2>1. SUFFICES ASSUME NEW j \in 0..Len(p),
                        \A m \in (j + 1)..Len(p) : p[m].of \notin kinds,
                        j > 0 => p[j].of \in kinds
                 PROVE  (IF j = 0 THEN current ELSE p[j][field]) = v
    BY DEF Leads
  <2>2. j \in 0..Len(q)
    BY <1>2, <1>3, <1>6, <2>1
  <2>3. \A m \in (j + 1)..Len(q) : q[m].of \notin kinds
    BY <1>2, <1>3, <2>1, <2>2
  <2>4. j > 0 => q[j].of \in kinds /\ p[j] = q[j]
    BY <1>2, <1>3, <2>1, <2>2
  <2>5. (IF j = 0 THEN current ELSE q[j][field]) = v
    BY <1>6, <2>2, <2>3, <2>4 DEF Leads
  <2>. QED
    BY <1>2, <2>2, <2>4, <2>5
<1>7. (\E m \in DOMAIN p : p[m].of \in kinds)
         <=> e.of \in kinds \/ \E m \in DOMAIN q : q[m].of \in kinds
  BY <1>2, <1>3, <1>4
<1>. QED
  BY <1>3, <1>5, <1>6, <1>7 DEF p

\* The first event, once it is handled.
LEMMA LeadsTail ==
  ASSUME NEW q \in Seq(Event), q # <<>>, NEW kinds, NEW field, NEW current, NEW v,
         Leads(q, kinds, field, current, v)
  PROVE  /\ Tail(q) \in Seq(Event) /\ Head(q) \in Event
         /\ Leads(Tail(q), kinds, field,
                  IF Head(q).of \in kinds THEN Head(q)[field] ELSE current, v)
<1>. DEFINE t == Tail(q)
<1>1. Len(q) \in Nat \ {0} /\ Head(q) = q[1] /\ q[1] \in Event
  BY EmptySeq, LenProperties, HeadTailProperties, ElementOfSeq
<1>2. t \in Seq(Event) /\ Len(t) = Len(q) - 1 /\ \A m \in 1..Len(t) : t[m] = q[m + 1]
  BY HeadTailProperties
<1>. HIDE DEF t
<1>3. ASSUME NEW j \in 0..Len(t),
             \A m \in (j + 1)..Len(t) : t[m].of \notin kinds,
             j > 0 => t[j].of \in kinds
      PROVE  (IF j = 0 THEN (IF q[1].of \in kinds THEN q[1][field] ELSE current)
              ELSE t[j][field]) = v
  <2>1. \A m \in (j + 2)..Len(q) : q[m].of \notin kinds
    <3>1. SUFFICES ASSUME NEW m \in (j + 2)..Len(q) PROVE q[m].of \notin kinds
      OBVIOUS
    <3>2. m - 1 \in (j + 1)..Len(t) /\ m - 1 \in 1..Len(t) /\ (m - 1) + 1 = m
      BY <1>1, <1>2
    <3>. QED
      BY <1>2, <1>3, <3>2
  <2>2. CASE j > 0
    <3>1. t[j] = q[j + 1] /\ j + 1 \in 0..Len(q) /\ j + 1 > 0 /\ (j + 1) + 1 = j + 2
      BY <1>1, <1>2, <2>2
    <3>2. \A m \in ((j + 1) + 1)..Len(q) : q[m].of \notin kinds
      BY <2>1, <3>1
    <3>3. (IF j + 1 = 0 THEN current ELSE q[j + 1][field]) = v
      BY <1>3, <2>2, <3>1, <3>2 DEF Leads
    <3>. QED
      BY <2>2, <3>1, <3>3
  <2>3. CASE j = 0 /\ q[1].of \in kinds
    <3>1. \A m \in (1 + 1)..Len(q) : q[m].of \notin kinds
      BY <2>1, <2>3
    <3>2. 1 \in 0..Len(q)
      BY <1>1
    <3>3. (IF 1 = 0 THEN current ELSE q[1][field]) = v
      BY <2>3, <3>1, <3>2 DEF Leads
    <3>. QED
      BY <2>3, <3>3
  <2>4. CASE j = 0 /\ q[1].of \notin kinds
    <3>1. \A m \in (0 + 1)..Len(q) : q[m].of \notin kinds
      BY <1>1, <2>1, <2>4
    <3>2. 0 \in 0..Len(q)
      BY <1>1
    <3>3. (IF 0 = 0 THEN current ELSE q[0][field]) = v
      BY <3>1, <3>2 DEF Leads
    <3>. QED
      BY <2>4, <3>3
  <2>. QED
    BY <1>2, <2>2, <2>3, <2>4
<1>. QED
  BY <1>1, <1>2, <1>3 DEF Leads, t

-----------------------------------------------------------------------------
(* What the operators of Provisioning do. *)

\* The items and the loop.
LEMMA SlaveFacts ==
  /\ P!Item = {"device", "webhooks", "port", "value"}
  /\ P!DeviceItem = {"device", "webhooks"} /\ P!PortItem = {"port", "value"}
  /\ P!Loop \in Run /\ None \notin Nat
  BY SaverAssumption DEF P!Item, P!DeviceItem, P!PortItem, P!Loop

\* The items that follow one another (After).
LEMMA AfterFacts ==
  /\ P!After("device") = "webhooks" /\ P!After("webhooks") = "port"
  /\ P!After("port") = "value" /\ P!After("value") = "query"
<1>1. /\ 2..5 = {2, 3, 4, 5}
      /\ P!Order[1] = "device" /\ P!Order[2] = "webhooks" /\ P!Order[3] = "port"
      /\ P!Order[4] = "value" /\ P!Order[5] = "query"
      /\ 2 - 1 = 1 /\ 3 - 1 = 2 /\ 4 - 1 = 3 /\ 5 - 1 = 4
  BY DEF P!Order
<1>2. \A i : P!After(i) = P!Order[CHOOSE k \in 2..5 : P!Order[k - 1] = i]
  BY DEF P!After
<1>3. (CHOOSE k \in 2..5 : P!Order[k - 1] = "device") = 2
  BY <1>1
<1>4. (CHOOSE k \in 2..5 : P!Order[k - 1] = "webhooks") = 3
  BY <1>1
<1>5. (CHOOSE k \in 2..5 : P!Order[k - 1] = "port") = 4
  BY <1>1
<1>6. (CHOOSE k \in 2..5 : P!Order[k - 1] = "value") = 5
  BY <1>1
<1>. QED
  BY <1>1, <1>2, <1>3, <1>4, <1>5, <1>6

\* A change at the device: what it has, and an event that tells of it, but of webhooks (Changed).
LEMMA ChangedFacts ==
  ASSUME remote \in [P!Item -> Nat], events \in Seq(Event), NEW i \in P!Item, NEW n \in Nat,
         P!Changed(i, n)
  PROVE  /\ remote' = [remote EXCEPT ![i] = n] /\ remote' \in [P!Item -> Nat]
         /\ events' \in Seq(Event)
         /\ EventsTell => EventsTell'
         /\ \A kinds : (\E m \in DOMAIN events : events[m].of \in kinds)
                          \/ (i # "webhooks" /\ i \in kinds)
                       => \E m \in DOMAIN events' : events'[m].of \in kinds
<1>1. remote' = [remote EXCEPT ![i] = n] /\ remote' \in [P!Item -> Nat]
  BY DEF P!Changed
<1>2. CASE i = "webhooks"
  <2>1. events' = events \o <<>>
    BY <1>2 DEF P!Changed, P!EventsOf
  <2>2. events' = events
    BY <2>1, ConcatEmptySeq
  <2>3. /\ remote'["device"] = remote["device"] /\ remote'["port"] = remote["port"]
        /\ remote'["value"] = remote["value"]
    BY <1>1, <1>2, SlaveFacts
  <2>4. EventsTell => EventsTell'
    BY <2>2, <2>3 DEF EventsTell
  <2>. QED
    BY <1>1, <1>2, <2>2, <2>4
<1>3. CASE i # "webhooks"
  <2>. DEFINE e == [of |-> i, attr |-> remote'[i], value |-> remote'["value"]]
  <2>1. e \in Event /\ e.of = i /\ e["attr"] = remote'[i] /\ e["value"] = remote'["value"]
    BY <1>1, <1>3, SlaveFacts DEF Event
  <2>2. events' = events \o <<e>>
    BY <1>3 DEF P!Changed, P!EventsOf, P!Told
  <2>. HIDE DEF e
  <2>3. events' \in Seq(Event)
    BY <2>1, <2>2, LeadsAppend
  <2>4. \A kinds : (\E m \in DOMAIN events : events[m].of \in kinds) \/ i \in kinds
                      => \E m \in DOMAIN events' : events'[m].of \in kinds
    BY <2>1, <2>2, LeadsAppend
  <2>5. ASSUME EventsTell PROVE EventsTell'
    <3>1. Leads(events', {"device"}, "attr", remote'["device"], remote'["device"])
      <4>1. CASE i = "device"
        BY <2>1, <2>2, <4>1, LeadsAppend
      <4>2. CASE i # "device"
        <5>1. remote'["device"] = remote["device"]
          BY <1>1, <4>2, SlaveFacts
        <5>. QED
          BY <2>1, <2>2, <2>5, <4>2, <5>1, LeadsAppend DEF EventsTell
      <4>. QED
        BY <4>1, <4>2
    <3>2. Leads(events', {"port"}, "attr", remote'["port"], remote'["port"])
      <4>1. CASE i = "port"
        BY <2>1, <2>2, <4>1, LeadsAppend
      <4>2. CASE i # "port"
        <5>1. remote'["port"] = remote["port"]
          BY <1>1, <4>2, SlaveFacts
        <5>. QED
          BY <2>1, <2>2, <2>5, <4>2, <5>1, LeadsAppend DEF EventsTell
      <4>. QED
        BY <4>1, <4>2
    <3>3. Leads(events', {"port", "value"}, "value", remote'["value"], remote'["value"])
      <4>1. CASE i \in {"port", "value"}
        BY <2>1, <2>2, <4>1, LeadsAppend
      <4>2. CASE i \notin {"port", "value"}
        <5>1. remote'["value"] = remote["value"]
          BY <1>1, <4>2, SlaveFacts
        <5>. QED
          BY <2>1, <2>2, <2>5, <4>2, <5>1, LeadsAppend DEF EventsTell
      <4>. QED
        BY <4>1, <4>2
    <3>. QED
      BY <3>1, <3>2, <3>3 DEF EventsTell
  <2>. QED
    BY <1>1, <1>3, <2>3, <2>4, <2>5
<1>. QED
  BY <1>2, <1>3

\* What is saved keeps its types (Save).
LEMMA SaveTypes ==
  ASSUME SlaveTypes, NEW items \in SUBSET P!Item, P!Save(items),
         local' \in [P!Item -> Nat \cup {None}], marked' \subseteq P!Item,
         \A i \in P!DeviceItem : local'[i] \in Nat
  PROVE  /\ saved' \in [local : [P!Item -> Nat \cup {None}], marked : SUBSET P!Item]
         /\ \A i \in P!DeviceItem : saved'.local[i] \in Nat
         /\ saved'.marked = (saved.marked \ items) \cup (marked' \cap items)
         /\ \A i \in P!Item : saved'.local[i] = IF i \in items THEN local'[i] ELSE saved.local[i]
<1>. DEFINE l == [i \in P!Item |-> IF i \in items THEN local'[i] ELSE saved.local[i]]
            m == (saved.marked \ items) \cup (marked' \cap items)
<1>1. saved' = [local |-> l, marked |-> m]
  BY DEF P!Save
<1>2. saved.local \in [P!Item -> Nat \cup {None}] /\ saved.marked \in SUBSET P!Item
  BY DEF SlaveTypes
<1>3. l \in [P!Item -> Nat \cup {None}] /\ m \in SUBSET P!Item
  BY <1>2
<1>4. \A i \in P!DeviceItem : i \in P!Item /\ l[i] \in Nat
  BY SlaveFacts DEF SlaveTypes
<1>5. \A i \in P!Item : l[i] = IF i \in items THEN local'[i] ELSE saved.local[i]
  OBVIOUS
<1>6. saved'.local = l /\ saved'.marked = m
  BY <1>1
<1>. HIDE DEF l
<1>. QED
  BY <1>1, <1>3, <1>4, <1>5, <1>6

\* An event that is handled keeps the types, and takes none but a port's attribute (Handle).
LEMMA HandleTypes ==
  ASSUME SlaveTypes, NEW e \in Event, P!Handle(e)
  PROVE  /\ local' \in [P!Item -> Nat \cup {None}] /\ values' \in Seq(Nat)
         /\ \A i \in P!DeviceItem : local'[i] \in Nat
         /\ lost' \in {lost, lost \cup {"port"}}
         /\ P!SavedBy(e) \in {{}, P!DeviceItem, P!PortItem}
<1>1. e.attr \in Nat /\ e.value \in Nat
  BY EventFacts
<1>2. \A x \in Nat : <<x>> \in Seq(Nat) /\ <<x>> \o values \in Seq(Nat)
  BY ConcatProperties DEF SlaveTypes
<1>3. P!SavedBy(e) \in {{}, P!DeviceItem, P!PortItem}
  BY DEF P!SavedBy
<1>4. CASE P!HandleDeviceUpdate(e.attr)
  BY <1>1, <1>3, <1>4, SlaveFacts DEF P!HandleDeviceUpdate, SlaveTypes
<1>5. CASE UNCHANGED <<local, values, lost>>
  BY <1>3, <1>5 DEF SlaveTypes
<1>6. CASE P!HandlePortUpdate(e.attr, <<e.value>>)
  BY <1>1, <1>2, <1>3, <1>6, SlaveFacts DEF P!HandlePortUpdate, SlaveTypes
<1>7. CASE P!HandleValueChange(e.value)
  BY <1>1, <1>2, <1>3, <1>7 DEF P!HandleValueChange, SlaveTypes
<1>. QED
  BY <1>4, <1>5, <1>6, <1>7 DEF P!Handle

\* A port that is found (AddPort).
LEMMA AddPortTypes ==
  ASSUME SlaveTypes, P!AddPort
  PROVE  /\ local' \in [P!Item -> Nat \cup {None}] /\ values' \in Seq(Nat)
         /\ \A i \in P!DeviceItem : local'[i] = local[i] /\ local'[i] \in Nat
         /\ local'["port"] = remote["port"] /\ values' = <<remote["value"]>>
         /\ marked' \subseteq P!Item /\ loaded' = TRUE /\ lost' = lost
<1>1. /\ loaded' = TRUE /\ lost' = lost /\ values' = <<remote["value"]>>
      /\ marked' = marked \cup (saved.marked \cap P!PortItem)
      /\ local' = [local EXCEPT !["port"] = remote["port"], !["value"] = None]
  BY DEF P!AddPort
<1>2. remote["port"] \in Nat /\ remote["value"] \in Nat
  BY SlaveFacts DEF SlaveTypes
<1>3. values' \in Seq(Nat)
  BY <1>1, <1>2
<1>4. marked' \subseteq P!Item
  BY <1>1, SlaveFacts DEF SlaveTypes
<1>5. local \in [P!Item -> Nat \cup {None}] /\ \A i \in P!DeviceItem : local[i] \in Nat
  BY DEF SlaveTypes
<1>6. local' \in [P!Item -> Nat \cup {None}]
  BY <1>1, <1>2, <1>5
<1>7. /\ \A i \in P!DeviceItem : local'[i] = local[i] /\ local'[i] \in Nat
      /\ local'["port"] = remote["port"]
  BY <1>1, <1>5, SlaveFacts
<1>. QED
  BY <1>1, <1>3, <1>4, <1>6, <1>7

\* The oldest value, once it is read (ReadValue).
LEMMA FrontFacts ==
  ASSUME NEW q \in Seq(Nat), q # <<>>
  PROVE  /\ P!Last(q) \in Nat /\ P!Front(q) \in Seq(Nat)
         /\ P!Front(q) = <<>> => P!Last(q) = Head(q)
         /\ P!Front(q) # <<>> => Head(P!Front(q)) = Head(q)
<1>1. Len(q) \in Nat \ {0} /\ Head(q) = q[1] /\ \A k \in 1..Len(q) : q[k] \in Nat
  BY EmptySeq, LenProperties, HeadTailProperties, ElementOfSeq
<1>2. P!Last(q) = q[Len(q)] /\ P!Front(q) = SubSeq(q, 1, Len(q) - 1)
  BY DEF P!Last, P!Front
<1>. DEFINE f == SubSeq(q, 1, Len(q) - 1)
<1>3. /\ f \in Seq(Nat) /\ Len(f) = Len(q) - 1
      /\ \A k \in 1..(Len(q) - 1) : f[k] = q[k]
  <2>1. 1 \in Int /\ Len(q) - 1 \in Int /\ \A k \in 1..(Len(q) - 1) : q[k] \in Nat
    BY <1>1
  <2>2. /\ f \in Seq(Nat)
        /\ Len(f) = IF 1 <= Len(q) - 1 THEN Len(q) - 1 - 1 + 1 ELSE 0
        /\ \A k \in 1..(Len(q) - 1 - 1 + 1) : f[k] = q[1 + k - 1]
    BY <2>1, SubSeqProperties
  <2>. HIDE DEF f
  <2>3. Len(f) = Len(q) - 1
    <3>1. Len(f) = IF 1 <= Len(q) - 1 THEN Len(q) - 1 - 1 + 1 ELSE 0
      BY <2>2
    <3>2. \A n \in Nat \ {0} : (IF 1 <= n - 1 THEN n - 1 - 1 + 1 ELSE 0) = n - 1
      OBVIOUS
    <3>. QED
      BY <1>1, <3>1, <3>2
  <2>4. ASSUME NEW k \in 1..(Len(q) - 1) PROVE f[k] = q[k]
    <3>1. 1 + k - 1 = k
      OBVIOUS
    <3>2. k \in 1..(Len(q) - 1 - 1 + 1)
      BY <1>1
    <3>. QED
      BY <2>2, <3>1, <3>2
  <2>. QED
    BY <2>2, <2>3, <2>4
<1>. HIDE DEF f
<1>4. f = <<>> => Len(q) = 1
  BY <1>1, <1>3
<1>5. f # <<>> => Len(f) >= 1 /\ Head(f) = f[1]
  BY <1>3, EmptySeq, LenProperties, HeadTailProperties
<1>6. f # <<>> => f[1] = q[1]
  BY <1>1, <1>3, <1>5
<1>7. P!Last(q) \in Nat
  BY <1>1, <1>2
<1>. QED
  BY <1>1, <1>2, <1>3, <1>4, <1>5, <1>6, <1>7 DEF f

\* The tasks' places and what they send, which a step of a task leaves well typed (GoTo).
LEMMA GoToTypes ==
  ASSUME SlaveTypes, NEW r \in Run, NEW next \in Stage, P!GoTo(r, next),
         sending' = [sending EXCEPT ![r] = None] \/ (sending' = sending /\ sending[r] = None)
  PROVE  /\ place' \in [Run -> Stage] /\ sending' \in [Run -> Nat \cup {None}]
         /\ \A t \in Run : sending'[t] # None => place'[t] \in P!Item
  BY SlaveFacts DEF SlaveTypes, P!GoTo

\* The initial state has the types.
LEMMA SlaveTypesInit == P!Init => SlaveTypes
<1>. SUFFICES ASSUME P!Init PROVE SlaveTypes
  OBVIOUS
<1>. USE SlaveFacts
<1>1. remote \in [P!Item -> Nat] /\ local = remote /\ wanted \in [P!Item -> Nat]
  BY DEF P!Init
<1>2. saved = [local |-> local, marked |-> {}] /\ saved.local = local /\ saved.marked = {}
  BY DEF P!Init
<1>3. values \in Seq(Nat) /\ events \in Seq(Event) /\ inbox \in Seq(Event)
  BY EmptySeq DEF P!Init
<1>4. /\ place = [r \in Run |-> "wait"] /\ place \in [Run -> Stage]
      /\ sending = [r \in Run |-> None] /\ sending \in [Run -> Nat \cup {None}]
  BY DEF P!Init, Stage
<1>5. local \in [P!Item -> Nat \cup {None}]
  BY <1>1
<1>6. saved \in [local : [P!Item -> Nat \cup {None}], marked : SUBSET P!Item]
  BY <1>2, <1>5
<1>7. \A i \in P!DeviceItem : local[i] \in Nat /\ saved.local[i] \in Nat
  BY <1>1, <1>2
<1>8. /\ mode \in {"listen", "poll", "none"} /\ online \in BOOLEAN /\ loaded \in BOOLEAN
      /\ marked = {} /\ arrived = {} /\ lost = {} /\ stuck = {} /\ telling = None
      /\ itemChanges = 0
  BY DEF P!Init
<1>. QED
  BY <1>1, <1>3, <1>4, <1>5, <1>6, <1>7, <1>8 DEF SlaveTypes

\* Every step keeps the types (Next).
LEMMA SlaveTypesStep == SlaveTypes /\ [P!Next]_P!vars => SlaveTypes'
<1>. SUFFICES ASSUME SlaveTypes, [P!Next]_P!vars PROVE SlaveTypes'
  OBVIOUS
<1>. USE SlaveFacts DEF P!device, P!caches, P!link, P!tasks, P!bounds, P!history
<1>1. ASSUME NEW i \in P!Item, P!RemoteChange(i) PROVE SlaveTypes'
  <2>1. itemChanges' \in Nat /\ P!Changed(i, itemChanges')
    BY <1>1 DEF P!RemoteChange, SlaveTypes
  <2>2. remote' \in [P!Item -> Nat] /\ events' \in Seq(Event)
    BY <2>1, ChangedFacts DEF SlaveTypes
  <2>. QED
    BY <1>1, <2>1, <2>2 DEF P!RemoteChange, SlaveTypes
<1>2. ASSUME NEW i \in P!Item, P!ChangeOffline(i) PROVE SlaveTypes'
  <2>1. /\ itemChanges' \in Nat /\ local' = [local EXCEPT ![i] = itemChanges']
        /\ marked' = marked \cup {i} /\ wanted' = [wanted EXCEPT ![i] = itemChanges']
        /\ arrived' = arrived \ {i} /\ lost' \in {lost \cup {i}, lost \ {i}}
        /\ P!Save(IF i \in P!DeviceItem THEN P!DeviceItem ELSE P!PortItem)
    BY <1>2 DEF P!ChangeOffline, SlaveTypes
  <2>2. /\ local' \in [P!Item -> Nat \cup {None}] /\ marked' \subseteq P!Item
        /\ wanted' \in [P!Item -> Nat]
        /\ arrived' \subseteq P!Item /\ lost' \subseteq P!Item
        /\ \A k \in P!DeviceItem : local'[k] \in Nat
    BY <2>1 DEF SlaveTypes
  <2>3. /\ saved' \in [local : [P!Item -> Nat \cup {None}], marked : SUBSET P!Item]
        /\ \A k \in P!DeviceItem : saved'.local[k] \in Nat
    BY <2>1, <2>2, SaveTypes
  <2>. QED
    BY <1>2, <2>1, <2>2, <2>3 DEF P!ChangeOffline, SlaveTypes
<1>3. ASSUME NEW i \in P!Item, P!ChangeOnline(i) PROVE SlaveTypes'
  <2>1. itemChanges' \in Nat /\ P!Changed(i, itemChanges') /\ telling' \in {telling, itemChanges'}
    BY <1>3 DEF P!ChangeOnline, SlaveTypes
  <2>2. remote' \in [P!Item -> Nat] /\ events' \in Seq(Event)
    BY <2>1, ChangedFacts DEF SlaveTypes
  <2>. QED
    BY <1>3, <2>1, <2>2 DEF P!ChangeOnline, SlaveTypes
<1>4. CASE P!Goes \/ P!Comes
  BY <1>4 DEF P!Goes, P!Comes, SlaveTypes
<1>5. CASE P!Forgotten
  BY <1>5, EmptySeq DEF P!Forgotten, SlaveTypes
<1>6. CASE P!Written
  <2>1. /\ telling \in Nat /\ telling' = None /\ values' = <<telling>> \o values
        /\ stuck' \in {stuck, stuck \cup {"value"}}
    BY <1>6 DEF P!Written, SlaveTypes
  <2>2. values' \in Seq(Nat)
    BY <2>1, ConcatProperties DEF SlaveTypes
  <2>. QED
    BY <1>6, <2>1, <2>2 DEF P!Written, SlaveTypes
<1>7. CASE P!ReadValue
  <2>2. P!Last(values) \in Nat /\ P!Front(values) \in Seq(Nat)
    BY <1>7, FrontFacts DEF P!ReadValue, SlaveTypes
  <2>3. /\ local' = [local EXCEPT !["value"] = P!Last(values)] /\ values' = P!Front(values)
    BY <1>7 DEF P!ReadValue
  <2>4. local' \in [P!Item -> Nat \cup {None}] /\ \A i \in P!DeviceItem : local'[i] = local[i]
    BY <2>2, <2>3 DEF SlaveTypes
  <2>. QED
    BY <1>7, <2>2, <2>3, <2>4 DEF P!ReadValue, SlaveTypes
<1>8. CASE P!TryFails
  BY <1>8 DEF P!TryFails, SlaveTypes
<1>9. CASE P!Listened
  <2>1. place' \in [Run -> Stage] /\ \A t \in Run : sending'[t] # None => place'[t] \in P!Item
    BY <1>9, GoToTypes DEF P!Listened, P!At, Stage
  <2>. QED
    BY <1>9, <2>1, EmptySeq DEF P!Listened, SlaveTypes
<1>10. CASE P!HandleEvent
  <2>1. Head(inbox) \in Event /\ inbox' \in Seq(Event)
    BY <1>10, HeadTailProperties DEF P!HandleEvent, SlaveTypes
  <2>2. /\ local' \in [P!Item -> Nat \cup {None}] /\ values' \in Seq(Nat)
        /\ \A i \in P!DeviceItem : local'[i] \in Nat
        /\ lost' \in {lost, lost \cup {"port"}}
        /\ P!SavedBy(Head(inbox)) \in SUBSET P!Item
    BY <1>10, <2>1, HandleTypes DEF P!HandleEvent
  <2>3. marked' = marked /\ P!Save(P!SavedBy(Head(inbox)))
    BY <1>10 DEF P!HandleEvent
  <2>4. /\ saved' \in [local : [P!Item -> Nat \cup {None}], marked : SUBSET P!Item]
        /\ \A k \in P!DeviceItem : saved'.local[k] \in Nat
    BY <2>2, <2>3, SaveTypes DEF SlaveTypes
  <2>. QED
    BY <1>10, <2>1, <2>2, <2>4 DEF P!HandleEvent, SlaveTypes
<1>11. CASE P!EventsHandled
  <2>1. place' \in [Run -> Stage] /\ \A t \in Run : sending'[t] # None => place'[t] \in P!Item
    BY <1>11, GoToTypes DEF P!EventsHandled, P!At, P!GoesOnline, Stage
  <2>. QED
    BY <1>11, <2>1 DEF P!EventsHandled, P!GoesOnline, SlaveTypes
<1>12. CASE P!Polled
  <2>1. place' \in [Run -> Stage] /\ \A t \in Run : sending'[t] # None => place'[t] \in P!Item
    BY <1>12, GoToTypes DEF P!Polled, P!At, P!GoesOnline, Stage
  <2>2. /\ local' \in [P!Item -> Nat \cup {None}] /\ values' = values /\ lost' = lost
        /\ \A k \in P!DeviceItem : local'[k] \in Nat
    BY <1>12 DEF P!Polled, P!HandleDeviceUpdate, SlaveTypes
  <2>3. CASE saved' = saved
    BY <1>12, <2>1, <2>2, <2>3, EmptySeq DEF P!Polled, P!GoesOnline, SlaveTypes
  <2>4. CASE P!Save(IF P!Pending("device") THEN {} ELSE P!DeviceItem)
    <3>1. marked' = marked
      BY <1>12 DEF P!Polled
    <3>2. /\ saved' \in [local : [P!Item -> Nat \cup {None}], marked : SUBSET P!Item]
          /\ \A k \in P!DeviceItem : saved'.local[k] \in Nat
      BY <2>2, <2>4, <3>1, SaveTypes DEF SlaveTypes
    <3>. QED
      BY <1>12, <2>1, <2>2, <3>2, EmptySeq DEF P!Polled, P!GoesOnline, SlaveTypes
  <2>. QED
    BY <1>12, <2>3, <2>4 DEF P!Polled
<1>13. CASE P!PolledPorts
  <2>1. place' \in [Run -> Stage] /\ \A t \in Run : sending'[t] # None => place'[t] \in P!Item
    BY <1>13, GoToTypes DEF P!PolledPorts, P!At, P!GoTo, Stage
  <2>2. remote["port"] \in Nat /\ remote["value"] \in Nat
    BY DEF SlaveTypes
  <2>3. <<remote["value"]>> \o values \in Seq(Nat) /\ <<>> \o values \in Seq(Nat)
    BY <2>2, ConcatProperties, EmptySeq DEF SlaveTypes
  <2>4. /\ local' \in [P!Item -> Nat \cup {None}] /\ values' \in Seq(Nat)
        /\ \A k \in P!DeviceItem : local'[k] \in Nat
        /\ marked' \subseteq P!Item /\ lost' \in {lost, lost \cup {"port"}} /\ loaded' \in BOOLEAN
        /\ \E items \in SUBSET P!Item : P!Save(items)
    <3>1. CASE ~loaded
      <4>1. P!AddPort
        BY <1>13, <3>1 DEF P!PolledPorts
      <4>2. P!PortItem \in SUBSET P!Item /\ P!Save(P!PortItem)
        BY <4>1 DEF P!AddPort
      <4>. QED
        BY <4>1, <4>2, AddPortTypes
    <3>2. CASE loaded /\ remote["port"] # local["port"]
      <4>1. /\ P!HandlePortUpdate(remote["port"], IF P!Ignored(remote["value"]) THEN <<>>
                                                  ELSE <<remote["value"]>>)
            /\ P!Save(P!PortItem) /\ loaded' = loaded /\ marked' = marked
        BY <1>13, <3>2 DEF P!PolledPorts
      <4>2. P!PortItem \in SUBSET P!Item
        OBVIOUS
      <4>3. /\ local' = [local EXCEPT !["port"] = remote["port"]] /\ values' \in Seq(Nat)
            /\ lost' \in {lost, lost \cup {"port"}}
        BY <2>3, <4>1 DEF P!HandlePortUpdate
      <4>4. local' \in [P!Item -> Nat \cup {None}] /\ \A k \in P!DeviceItem : local'[k] \in Nat
        BY <2>2, <4>3 DEF SlaveTypes
      <4>. QED
        BY <4>1, <4>2, <4>3, <4>4 DEF SlaveTypes
    <3>3. CASE loaded /\ remote["port"] = local["port"]
      <4>1. /\ P!HandleValueChange(remote["value"]) /\ loaded' = loaded /\ marked' = marked
            /\ P!Save(IF P!Ignored(remote["value"]) THEN {} ELSE P!PortItem)
        BY <1>13, <3>3 DEF P!PolledPorts
      <4>2. local' = local /\ lost' = lost /\ values' \in Seq(Nat)
        BY <2>3, <4>1 DEF P!HandleValueChange, SlaveTypes
      <4>3. \E items \in SUBSET P!Item : P!Save(items)
        BY <4>1
      <4>. QED
        BY <4>1, <4>2, <4>3 DEF SlaveTypes
    <3>. QED
      BY <3>1, <3>2, <3>3
  <2>5. /\ saved' \in [local : [P!Item -> Nat \cup {None}], marked : SUBSET P!Item]
        /\ \A k \in P!DeviceItem : saved'.local[k] \in Nat
    BY <2>4, SaveTypes
  <2>. QED
    BY <1>13, <2>1, <2>4, <2>5 DEF P!PolledPorts, SlaveTypes
<1>14. CASE P!PollingPortsFails
  <2>1. place' \in [Run -> Stage] /\ \A t \in Run : sending'[t] # None => place'[t] \in P!Item
    BY <1>14, GoToTypes DEF P!PollingPortsFails, P!At, Stage
  <2>. QED
    BY <1>14, <2>1 DEF P!PollingPortsFails, SlaveTypes
<1>15. CASE P!Post
  <2>1. Head(events) \in Event /\ events' \in Seq(Event)
    BY <1>15, HeadTailProperties DEF P!Post, SlaveTypes
  <2>2. /\ local' \in [P!Item -> Nat \cup {None}] /\ values' \in Seq(Nat)
        /\ \A i \in P!DeviceItem : local'[i] \in Nat
        /\ lost' \in {lost, lost \cup {"port"}}
        /\ P!SavedBy(Head(events)) \in SUBSET P!Item
    BY <1>15, <2>1, HandleTypes DEF P!Post
  <2>3. /\ marked' = marked
        /\ P!Save(P!SavedBy(Head(events))
                     \cup IF P!Raises(Head(events)) THEN {} ELSE P!DeviceItem)
    BY <1>15 DEF P!Post
  <2>4. /\ saved' \in [local : [P!Item -> Nat \cup {None}], marked : SUBSET P!Item]
        /\ \A k \in P!DeviceItem : saved'.local[k] \in Nat
    BY <2>2, <2>3, SaveTypes DEF SlaveTypes
  <2>. QED
    BY <1>15, <2>1, <2>2, <2>4 DEF P!Post, SlaveTypes
<1>16. ASSUME NEW r \in Run, P!Begin(r) PROVE SlaveTypes'
  <2>1. place' \in [Run -> Stage] /\ \A t \in Run : sending'[t] # None => place'[t] \in P!Item
    BY <1>16, GoToTypes DEF P!Begin, P!At, Stage
  <2>. QED
    BY <1>16, <2>1 DEF P!Begin, SlaveTypes
<1>17. ASSUME NEW r \in Run, NEW i \in P!Item, P!Send(r, i) PROVE SlaveTypes'
  <2>1. /\ sending' \in [Run -> Nat \cup {None}]
        /\ \A t \in Run : sending'[t] # None => place[t] \in P!Item
    BY <1>17 DEF P!Send, P!At, SlaveTypes
  <2>. QED
    BY <1>17, <2>1 DEF P!Send, SlaveTypes
<1>18. ASSUME NEW r \in Run, NEW i \in P!Item, P!Skip(r, i) PROVE SlaveTypes'
  <2>1. P!After(i) \in Stage
    BY AfterFacts DEF Stage
  <2>2. place' \in [Run -> Stage] /\ \A t \in Run : sending'[t] # None => place'[t] \in P!Item
    BY <1>18, <2>1, GoToTypes DEF P!Skip, P!At
  <2>3. marked' \subseteq P!Item /\ local' = local
    BY <1>18 DEF P!Skip, SlaveTypes
  <2>4. \E items \in SUBSET P!Item : P!Save(items)
    BY <1>18 DEF P!Skip, P!SaveAfter
  <2>5. /\ saved' \in [local : [P!Item -> Nat \cup {None}], marked : SUBSET P!Item]
        /\ \A k \in P!DeviceItem : saved'.local[k] \in Nat
    BY <2>3, <2>4, SaveTypes DEF SlaveTypes
  <2>. QED
    BY <1>18, <2>2, <2>3, <2>5 DEF P!Skip, SlaveTypes
<1>19. ASSUME NEW r \in Run, NEW i \in P!Item, NEW ok \in BOOLEAN, NEW effect \in BOOLEAN,
              P!Sent(r, i, ok, effect)
       PROVE  SlaveTypes'
  <2>1. P!After(i) \in Stage
    BY AfterFacts DEF Stage
  <2>2. /\ place' \in [Run -> Stage] /\ sending' \in [Run -> Nat \cup {None}]
        /\ \A t \in Run : sending'[t] # None => place'[t] \in P!Item
    BY <1>19, <2>1, GoToTypes DEF P!Sent
  <2>3. marked' \subseteq P!Item /\ local' = local
    BY <1>19 DEF P!Sent, SlaveTypes
  <2>4. \E items \in SUBSET P!Item : P!Save(items)
    BY <1>19 DEF P!Sent, P!SaveAfter
  <2>5. /\ saved' \in [local : [P!Item -> Nat \cup {None}], marked : SUBSET P!Item]
        /\ \A k \in P!DeviceItem : saved'.local[k] \in Nat
    BY <2>3, <2>4, SaveTypes DEF SlaveTypes
  <2>6. remote' \in [P!Item -> Nat] /\ events' \in Seq(Event)
    <3>1. sending[r] \in Nat
      BY <1>19 DEF P!Sent, SlaveTypes
    <3>2. CASE effect /\ i # "value"
      BY <1>19, <3>1, <3>2, ChangedFacts DEF P!Sent, SlaveTypes
    <3>3. CASE ~(effect /\ i # "value")
      BY <1>19, <3>3 DEF P!Sent, SlaveTypes
    <3>. QED
      BY <3>2, <3>3
  <2>7. arrived' \subseteq P!Item /\ lost' \subseteq P!Item
    BY <1>19 DEF P!Sent, SlaveTypes
  <2>. QED
    BY <1>19, <2>2, <2>3, <2>5, <2>6, <2>7 DEF P!Sent, SlaveTypes
<1>20. ASSUME NEW r \in Run, P!Query(r) PROVE SlaveTypes'
  <2>1. place' \in [Run -> Stage] /\ \A t \in Run : sending'[t] # None => place'[t] \in P!Item
    BY <1>20, GoToTypes DEF P!Query, P!At, Stage
  <2>2. CASE local' = local /\ saved' = saved
    BY <1>20, <2>1, <2>2 DEF P!Query, SlaveTypes
  <2>3. CASE /\ local' = [local EXCEPT !["webhooks"] = remote["webhooks"]]
             /\ P!Save(P!DeviceItem)
    <3>1. /\ local' \in [P!Item -> Nat \cup {None}] /\ \A k \in P!DeviceItem : local'[k] \in Nat
          /\ marked' = marked
      BY <1>20, <2>3 DEF P!Query, SlaveTypes
    <3>2. /\ saved' \in [local : [P!Item -> Nat \cup {None}], marked : SUBSET P!Item]
          /\ \A k \in P!DeviceItem : saved'.local[k] \in Nat
      BY <2>3, <3>1, SaveTypes DEF SlaveTypes
    <3>. QED
      BY <1>20, <2>1, <3>1, <3>2 DEF P!Query, SlaveTypes
  <2>. QED
    BY <1>20, <2>2, <2>3 DEF P!Query
<1>21. ASSUME NEW r \in Run, P!FetchDevice(r) PROVE SlaveTypes'
  <2>1. place' \in [Run -> Stage] /\ \A t \in Run : sending'[t] # None => place'[t] \in P!Item
    BY <1>21, GoToTypes DEF P!FetchDevice, P!At, Stage
  <2>2. local' \in [P!Item -> Nat \cup {None}] /\ \A k \in P!DeviceItem : local'[k] \in Nat
    BY <1>21 DEF P!FetchDevice, SlaveTypes
  <2>. QED
    BY <1>21, <2>1, <2>2 DEF P!FetchDevice, SlaveTypes
<1>22. ASSUME NEW r \in Run, P!FetchPorts(r) PROVE SlaveTypes'
  <2>1. place' \in [Run -> Stage] /\ \A t \in Run : sending'[t] # None => place'[t] \in P!Item
    BY <1>22, GoToTypes DEF P!FetchPorts, P!At, Stage
  <2>2. remote["port"] \in Nat /\ remote["value"] \in Nat
    BY DEF SlaveTypes
  <2>3. <<remote["value"]>> \o values \in Seq(Nat)
    BY <2>2, ConcatProperties DEF SlaveTypes
  <2>4. /\ local' \in [P!Item -> Nat \cup {None}] /\ values' \in Seq(Nat)
        /\ \A k \in P!DeviceItem : local'[k] \in Nat
        /\ marked' \subseteq P!Item /\ lost' \in {lost, lost \cup {"port"}} /\ loaded' \in BOOLEAN
        /\ P!Save(P!PortItem)
    <3>1. CASE ~loaded
      <4>1. P!AddPort
        BY <1>22, <3>1 DEF P!FetchPorts
      <4>2. P!Save(P!PortItem)
        BY <4>1 DEF P!AddPort
      <4>. QED
        BY <4>1, <4>2, AddPortTypes
    <3>2. CASE loaded
      <4>1. /\ P!HandlePortUpdate(remote["port"], <<remote["value"]>>)
            /\ P!Save(P!PortItem) /\ loaded' = loaded /\ marked' = marked
        BY <1>22, <3>2 DEF P!FetchPorts
      <4>3. /\ local' = [local EXCEPT !["port"] = remote["port"]] /\ values' \in Seq(Nat)
            /\ lost' \in {lost, lost \cup {"port"}}
        BY <2>3, <4>1 DEF P!HandlePortUpdate
      <4>4. local' \in [P!Item -> Nat \cup {None}] /\ \A k \in P!DeviceItem : local'[k] \in Nat
        BY <2>2, <4>3 DEF SlaveTypes
      <4>. QED
        BY <4>1, <4>3, <4>4 DEF SlaveTypes
    <3>. QED
      BY <3>1, <3>2
  <2>5. /\ saved' \in [local : [P!Item -> Nat \cup {None}], marked : SUBSET P!Item]
        /\ \A k \in P!DeviceItem : saved'.local[k] \in Nat
    BY <2>4, SaveTypes
  <2>. QED
    BY <1>22, <2>1, <2>4, <2>5 DEF P!FetchPorts, SlaveTypes
<1>23. ASSUME NEW r \in Run, P!FetchFails(r) PROVE SlaveTypes'
  <2>1. sending[r] = None
    BY <1>23 DEF P!FetchFails, SlaveTypes
  <2>2. place' \in [Run -> Stage] /\ \A t \in Run : sending'[t] # None => place'[t] \in P!Item
    BY <1>23, <2>1, GoToTypes DEF P!FetchFails, Stage
  <2>. QED
    BY <1>23, <2>2 DEF P!FetchFails, SlaveTypes
<1>24. ASSUME NEW r \in Run, P!Ends(r) PROVE SlaveTypes'
  <2>1. place' \in [Run -> Stage] /\ \A t \in Run : sending'[t] # None => place'[t] \in P!Item
    BY <1>24, GoToTypes DEF P!Ends, P!At, Stage
  <2>2. /\ saved' \in [local : [P!Item -> Nat \cup {None}], marked : SUBSET P!Item]
        /\ \A k \in P!DeviceItem : saved'.local[k] \in Nat
    BY <1>24, SaveTypes DEF P!Ends, SlaveTypes
  <2>. QED
    BY <1>24, <2>1, <2>2 DEF P!Ends, SlaveTypes
<1>25. CASE P!Restart
  <2>1. /\ local' = [i \in P!Item |-> IF i \in P!DeviceItem \/ (loaded' /\ i = "port")
                                      THEN saved.local[i] ELSE None]
        /\ values' = IF loaded' /\ saved.local["value"] # None THEN <<saved.local["value"]>>
                     ELSE <<>>
        /\ marked' = IF loaded' THEN saved.marked ELSE saved.marked \cap P!DeviceItem
        /\ lost' = IF loaded' THEN lost ELSE lost \cup (saved.marked \cap P!PortItem)
        /\ stuck' = IF loaded' THEN stuck ELSE stuck \cup (saved.marked \cap P!PortItem)
        /\ loaded' \in BOOLEAN /\ online' = FALSE /\ inbox' = <<>> /\ telling' = None
        /\ place' = [r \in Run |-> "wait"] /\ sending' = [r \in Run |-> None]
        /\ events' = IF mode = "listen" THEN <<>> ELSE events
        /\ UNCHANGED <<mode, reachable, remote, saved, itemChanges, wanted, arrived>>
    BY <1>25 DEF P!Restart
  <2>2. saved.local \in [P!Item -> Nat \cup {None}] /\ saved.marked \subseteq P!Item
    BY DEF SlaveTypes
  <2>3. local' \in [P!Item -> Nat \cup {None}] /\ \A k \in P!DeviceItem : local'[k] \in Nat
    BY <2>1, <2>2 DEF SlaveTypes
  <2>4. values' \in Seq(Nat) /\ events' \in Seq(Event) /\ inbox' \in Seq(Event)
    <3>1. saved.local["value"] \in Nat \cup {None}
      BY <2>2
    <3>. QED
      BY <2>1, <3>1, EmptySeq DEF SlaveTypes
  <2>5. /\ place' \in [Run -> Stage] /\ sending' \in [Run -> Nat \cup {None}]
        /\ \A t \in Run : sending'[t] # None => place'[t] \in P!Item
    BY <2>1 DEF Stage
  <2>6. marked' \subseteq P!Item /\ lost' \subseteq P!Item /\ stuck' \subseteq P!PortItem
    BY <2>1, <2>2 DEF SlaveTypes
  <2>. QED
    BY <2>1, <2>3, <2>4, <2>5, <2>6 DEF SlaveTypes
<1>26. CASE UNCHANGED P!vars
  BY <1>26 DEF P!vars, SlaveTypes
<1>. QED
  BY <1>1, <1>2, <1>3, <1>4, <1>5, <1>6, <1>7, <1>8, <1>9, <1>10, <1>11, <1>12, <1>13, <1>14,
     <1>15, <1>16, <1>17, <1>18, <1>19, <1>20, <1>21, <1>22, <1>23, <1>24, <1>25, <1>26 DEF P!Next

-----------------------------------------------------------------------------
(* A change waits until the device has had it. *)

\* A change that is not pending is settled.
LEMMA NotPending ==
  ASSUME P!ChangesArrive, NEW i \in Asked, ~P!Pending(i)
  PROVE  Settled(i)
  BY DEF P!ChangesArrive, Asked, Settled

\* One that is not settled is pending as it was made.
LEMMA NotSettled ==
  ASSUME P!ChangesArrive, NEW i \in Asked, ~Settled(i)
  PROVE  P!Pending(i) /\ local[i] = wanted[i] /\ i \in marked /\ (i = "port" => loaded)
  BY SlaveFacts DEF P!ChangesArrive, Asked, Settled, P!Pending

\* What is settled stays so, but for newer changes.
LEMMA SettledStays ==
  ASSUME wanted' = wanted, lost \subseteq lost', arrived \subseteq arrived', NEW i, Settled(i)
  PROVE  Settled(i)'
  BY DEF Settled

\* A step that neither replaces nor unmarks what waits, whatever it saves.
LEMMA CachesStep ==
  ASSUME SlaveTypes, SlaveTypes', P!ChangesArrive, OnDisk,
         wanted' = wanted, lost \subseteq lost', arrived \subseteq arrived', loaded => loaded',
         \A i \in Asked : Settled(i)' \/ (i \in marked' /\ local'[i] = local[i]),
         saved' = saved \/ \E items \in SUBSET P!Item : P!Save(items)
  PROVE  P!ChangesArrive' /\ OnDisk'
<1>. USE SlaveFacts DEF Asked
<1>1. ASSUME NEW i \in Asked, ~Settled(i)'
      PROVE  /\ i \in marked' /\ local'[i] = wanted'[i] /\ (i = "port" => loaded')
             /\ ~Settled(i) /\ local'[i] # None
  <2>1. ~Settled(i)
    BY <1>1, SettledStays
  <2>2. local[i] = wanted[i] /\ (i = "port" => loaded)
    BY <2>1, NotSettled
  <2>3. wanted[i] \in Nat
    BY DEF SlaveTypes
  <2>. QED
    BY <1>1, <2>1, <2>2, <2>3
<1>2. P!ChangesArrive'
  <2>1. SUFFICES ASSUME NEW i \in Asked, ~Settled(i)'
                 PROVE  P!Pending(i)' /\ local'[i] = wanted'[i]
    BY DEF P!ChangesArrive, Settled
  <2>. QED
    BY <1>1, <2>1 DEF P!Pending
<1>3. OnDisk'
  <2>1. SUFFICES ASSUME NEW i \in Asked, ~Settled(i)'
                 PROVE  i \in saved'.marked /\ saved'.local[i] = wanted'[i]
    BY DEF OnDisk
  <2>2. i \in saved.marked /\ saved.local[i] = wanted[i]
    BY <1>1, <2>1 DEF OnDisk
  <2>3. CASE saved' = saved
    BY <2>2, <2>3
  <2>4. ASSUME NEW items \in SUBSET P!Item, P!Save(items)
        PROVE  i \in saved'.marked /\ saved'.local[i] = wanted'[i]
    <3>1. /\ saved'.marked = (saved.marked \ items) \cup (marked' \cap items)
          /\ saved'.local[i] = IF i \in items THEN local'[i] ELSE saved.local[i]
      BY <2>4, SaveTypes DEF SlaveTypes
    <3>. QED
      BY <1>1, <2>1, <2>2, <3>1
  <2>. QED
    BY <2>3, <2>4
<1>. QED
  BY <1>2, <1>3

\* A step of tasks that leaves them where they are, or moves them past what is settled.
LEMMA PlacesStep ==
  ASSUME TellsWanted, \A r \in Run : Passed(r),
         wanted' = wanted, lost \subseteq lost', arrived \subseteq arrived',
         \A r \in Run : \/ place'[r] = place[r] /\ sending'[r] = sending[r]
                        \/ sending'[r] = None /\ Passed(r)'
  PROVE  TellsWanted' /\ \A r \in Run : Passed(r)'
<1>1. \A i : Settled(i) => Settled(i)'
  BY SettledStays
<1>2. ASSUME NEW r \in Run, place'[r] = place[r] PROVE Passed(r)'
  BY <1>1, <1>2 DEF Passed
<1>3. ASSUME NEW r \in Run, NEW i \in Asked, place'[r] = i, sending'[r] # None
      PROVE  Settled(i)' \/ sending'[r] = wanted'[i]
  <2>1. place[r] = i /\ sending'[r] = sending[r]
    BY <1>3
  <2>. QED
    BY <1>1, <1>3, <2>1 DEF TellsWanted
<1>. QED
  BY <1>2, <1>3 DEF TellsWanted

\* A task that moves on, and the others stay.
LEMMA MovesOn ==
  ASSUME SlaveTypes, TellsWanted, \A t \in Run : Passed(t),
         wanted' = wanted, lost \subseteq lost', arrived \subseteq arrived',
         NEW r \in Run, NEW next, P!GoTo(r, next),
         sending' = [sending EXCEPT ![r] = None] \/ (sending' = sending /\ sending[r] = None),
         Passed(r)'
  PROVE  TellsWanted' /\ \A t \in Run : Passed(t)'
<1>1. sending'[r] = None
  BY DEF SlaveTypes
<1>2. \A t \in Run : t # r => place'[t] = place[t] /\ sending'[t] = sending[t]
  BY DEF SlaveTypes, P!GoTo
<1>. QED
  BY <1>1, <1>2, PlacesStep

\* An event that is handled replaces no change that waits, or it may be lost.
LEMMA HandleCaches ==
  ASSUME SlaveTypes, P!ChangesArrive, NEW e \in Event, P!Handle(e),
         wanted' = wanted, arrived' = arrived
  PROVE  \A i \in Asked : Settled(i)' \/ local'[i] = local[i]
<1>. USE SlaveFacts DEF Asked
<1>1. lost \subseteq lost'
  BY HandleTypes
<1>2. CASE P!HandleDeviceUpdate(e.attr)
  <2>1. CASE P!Pending("device")
    BY <1>2, <2>1 DEF P!HandleDeviceUpdate
  <2>2. CASE ~P!Pending("device")
    <3>1. Settled("device")'
      BY <1>1, <2>2, NotPending, SettledStays
    <3>2. local' = [local EXCEPT !["device"] = e.attr]
      BY <1>2, <2>2 DEF P!HandleDeviceUpdate
    <3>. QED
      BY <3>1, <3>2 DEF SlaveTypes
  <2>. QED
    BY <2>1, <2>2
<1>3. CASE UNCHANGED <<local, values, lost>>
  BY <1>3
<1>4. CASE P!HandlePortUpdate(e.attr, <<e.value>>)
  <2>1. Settled("port")'
    <3>1. CASE P!Pending("port")
      BY <1>4, <3>1 DEF P!HandlePortUpdate, Settled
    <3>2. CASE ~P!Pending("port")
      BY <1>1, <3>2, NotPending, SettledStays
    <3>. QED
      BY <3>1, <3>2
  <2>2. local' = [local EXCEPT !["port"] = e.attr]
    BY <1>4 DEF P!HandlePortUpdate
  <2>. QED
    BY <2>1, <2>2 DEF SlaveTypes
<1>5. CASE P!HandleValueChange(e.value)
  BY <1>5 DEF P!HandleValueChange
<1>. QED
  BY <1>2, <1>3, <1>4, <1>5 DEF P!Handle

\* Nor does a port that is updated or found.
LEMMA PortCaches ==
  ASSUME SlaveTypes, P!ChangesArrive, wanted' = wanted, arrived' = arrived,
         \/ ~loaded /\ P!AddPort
         \/ loaded' = loaded /\ marked' = marked
               /\ \E value : P!HandlePortUpdate(remote["port"], value)
  PROVE  /\ lost \subseteq lost' /\ (loaded => loaded') /\ marked \subseteq marked'
         /\ \A i \in Asked : Settled(i)' \/ local'[i] = local[i]
<1>. USE SlaveFacts DEF Asked
<1>1. CASE ~loaded /\ P!AddPort
  <2>1. lost' = lost /\ loaded' = TRUE /\ marked \subseteq marked'
        /\ \A i \in Asked : i = "port" \/ local'[i] = local[i]
    BY <1>1 DEF P!AddPort, SlaveTypes
  <2>2. ~P!Pending("port")
    BY <1>1 DEF P!Pending
  <2>3. Settled("port")'
    BY <2>1, <2>2, NotPending, SettledStays
  <2>. QED
    BY <2>1, <2>3
<1>2. ASSUME NEW value, loaded' = loaded, marked' = marked,
             P!HandlePortUpdate(remote["port"], value)
      PROVE  /\ lost \subseteq lost' /\ (loaded => loaded') /\ marked \subseteq marked'
             /\ \A i \in Asked : Settled(i)' \/ local'[i] = local[i]
  <2>1. lost \subseteq lost' /\ \A i \in Asked : i = "port" \/ local'[i] = local[i]
    BY <1>2 DEF P!HandlePortUpdate, SlaveTypes
  <2>2. Settled("port")'
    <3>1. CASE P!Pending("port")
      BY <1>2, <3>1 DEF P!HandlePortUpdate, Settled
    <3>2. CASE ~P!Pending("port")
      BY <2>1, <3>2, NotPending, SettledStays
    <3>. QED
      BY <3>1, <3>2
  <2>. QED
    BY <1>2, <2>1, <2>2
<1>. QED
  BY <1>1, <1>2

\* Every step keeps what waits (Next).
LEMMA ChangesStep ==
  SlaveTypes /\ P!ChangesArrive /\ Waits /\ [P!Next]_P!vars => P!ChangesArrive' /\ Waits'
<1>. SUFFICES ASSUME SlaveTypes, P!ChangesArrive, Waits, [P!Next]_P!vars
              PROVE  P!ChangesArrive' /\ Waits'
  OBVIOUS
<1>. USE SlaveFacts DEF P!device, P!caches, P!link, P!tasks, P!bounds, P!history
<1>t. SlaveTypes'
  BY SlaveTypesStep
<1>w. TellsWanted /\ (\A r \in Run : Passed(r)) /\ OnDisk
  BY DEF Waits
<1>m. \A i \in Asked : Settled(i) \/ i \in marked
  BY NotSettled
<1>1. ASSUME /\ UNCHANGED <<marked, loaded, saved, place, sending, wanted, arrived, lost>>
             /\ \A i \in Asked : local'[i] = local[i]
      PROVE  P!ChangesArrive' /\ Waits'
  <2>1. P!ChangesArrive' /\ OnDisk'
    <3>1. \A i \in Asked : Settled(i)' \/ (i \in marked' /\ local'[i] = local[i])
      BY <1>1, <1>m, SettledStays
    <3>. QED
      BY <1>1, <1>t, <1>w, <3>1, CachesStep
  <2>2. TellsWanted' /\ \A r \in Run : Passed(r)'
    BY <1>1, <1>w, PlacesStep
  <2>. QED
    BY <2>1, <2>2 DEF Waits
<1>2. ASSUME NEW i \in P!Item, P!RemoteChange(i) \/ P!ChangeOnline(i)
      PROVE  P!ChangesArrive' /\ Waits'
  BY <1>1, <1>2 DEF P!RemoteChange, P!ChangeOnline
<1>3. CASE P!Goes \/ P!Comes \/ P!Forgotten \/ P!Written \/ P!TryFails
  BY <1>1, <1>3 DEF P!Goes, P!Comes, P!Forgotten, P!Written, P!TryFails
<1>4. CASE P!ReadValue
  <2>1. \A i \in Asked : local'[i] = local[i]
    BY <1>4 DEF P!ReadValue, Asked, SlaveTypes
  <2>. QED
    BY <1>1, <1>4, <2>1 DEF P!ReadValue
<1>5. ASSUME NEW i \in P!Item, P!ChangeOffline(i) PROVE P!ChangesArrive' /\ Waits'
  <2>. DEFINE n == itemChanges'
              items == IF i \in P!DeviceItem THEN P!DeviceItem ELSE P!PortItem
  <2>1. /\ n \in Nat /\ local' = [local EXCEPT ![i] = n] /\ marked' = marked \cup {i}
        /\ wanted' = [wanted EXCEPT ![i] = n] /\ arrived' = arrived \ {i}
        /\ lost' = IF P!TooLate(i) THEN lost \cup {i} ELSE lost \ {i}
        /\ P!Save(items) /\ (i \in P!PortItem => loaded)
        /\ UNCHANGED <<loaded, place, sending>>
    BY <1>5, <1>t DEF P!ChangeOffline, SlaveTypes
  <2>. HIDE DEF n
  <2>2. \A k \in Asked : k # i => /\ local'[k] = local[k] /\ wanted'[k] = wanted[k]
                                  /\ (Settled(k) => Settled(k)')
                                  /\ (Settled(k)' => Settled(k))
    BY <2>1 DEF SlaveTypes, Asked, Settled
  <2>3. local'[i] = n /\ wanted'[i] = n /\ n # None
    BY <2>1 DEF SlaveTypes
  <2>4. P!TooLate(i) => Settled(i)'
    BY <2>1 DEF Settled
  <2>5. P!ChangesArrive'
    <3>1. SUFFICES ASSUME NEW k \in Asked, ~Settled(k)'
                   PROVE  P!Pending(k)' /\ local'[k] = wanted'[k]
      BY DEF P!ChangesArrive, Settled, Asked
    <3>2. CASE k = i
      BY <2>1, <2>3, <3>2 DEF P!Pending
    <3>3. CASE k # i
      BY <2>1, <2>2, <3>1, <3>3, NotSettled DEF P!Pending
    <3>. QED
      BY <3>2, <3>3
  <2>6. OnDisk'
    <3>1. SUFFICES ASSUME NEW k \in Asked, ~Settled(k)'
                   PROVE  k \in saved'.marked /\ saved'.local[k] = wanted'[k]
      BY DEF OnDisk
    <3>2. items \in SUBSET P!Item /\ i \in items /\ k \in P!Item
      BY DEF Asked
    <3>. HIDE DEF items
    <3>3. /\ saved'.marked = (saved.marked \ items) \cup (marked' \cap items)
          /\ saved'.local[k] = IF k \in items THEN local'[k] ELSE saved.local[k]
      BY <1>t, <2>1, <3>2, SaveTypes DEF SlaveTypes
    <3>4. CASE k = i
      BY <2>1, <2>3, <3>2, <3>3, <3>4
    <3>5. CASE k # i
      <4>1. k \in saved.marked /\ saved.local[k] = wanted[k] /\ k \in marked /\ local[k] = wanted[k]
        BY <1>w, <2>2, <3>1, <3>5, NotSettled DEF OnDisk
      <4>. QED
        BY <2>1, <2>2, <3>3, <3>5, <4>1
    <3>. QED
      BY <3>4, <3>5
  <2>7. TellsWanted'
    <3>1. SUFFICES ASSUME NEW r \in Run, NEW k \in Asked, place[r] = k, sending[r] # None
                   PROVE  Settled(k)' \/ sending[r] = wanted'[k]
      BY <2>1 DEF TellsWanted
    <3>2. CASE k = i
      BY <2>4, <3>1, <3>2 DEF P!TooLate
    <3>3. CASE k # i
      BY <1>w, <2>2, <3>1, <3>3 DEF TellsWanted
    <3>. QED
      BY <3>2, <3>3
  <2>8. ASSUME NEW r \in Run PROVE Passed(r)'
    <3>1. Passed(r)
      BY <1>w
    <3>2. /\ i = "port" /\ place[r] = "value" => P!TooLate(i)
          /\ i = "webhooks" /\ place[r] \in {"port", "value", "query"} => P!TooLate(i)
          /\ i = "device" /\ place[r] \in {"webhooks", "port", "value", "query", "fetch"}
                => P!TooLate(i)
      BY DEF P!TooLate
    <3>3. place'[r] = place[r]
      BY <2>1
    <3>. QED
      BY <2>2, <2>4, <3>1, <3>2, <3>3 DEF Passed, Asked
  <2>. QED
    BY <2>5, <2>6, <2>7, <2>8 DEF Waits
<1>6. CASE P!Listened
  <2>1. P!GoTo(P!Loop, "events") /\ sending' = sending /\ sending[P!Loop] = None
    BY <1>6 DEF P!Listened, P!At
  <2>2. place'[P!Loop] = "events"
    BY <2>1 DEF P!GoTo, SlaveTypes
  <2>3. Passed(P!Loop)'
    BY <2>2 DEF Passed
  <2>4. TellsWanted' /\ \A r \in Run : Passed(r)'
    BY <1>6, <1>w, <2>1, <2>3, MovesOn DEF P!Listened
  <2>5. \A i \in Asked : Settled(i)' \/ (i \in marked' /\ local'[i] = local[i])
    BY <1>6, <1>m, SettledStays DEF P!Listened
  <2>6. P!ChangesArrive' /\ OnDisk'
    BY <1>6, <1>t, <1>w, <2>5, CachesStep DEF P!Listened
  <2>. QED
    BY <2>4, <2>6 DEF Waits
<1>7. CASE P!HandleEvent
  <2>1. Head(inbox) \in Event
    BY <1>7, HeadTailProperties DEF P!HandleEvent, SlaveTypes
  <2>2. P!Handle(Head(inbox)) /\ P!Save(P!SavedBy(Head(inbox)))
        /\ UNCHANGED <<marked, loaded, place, sending, wanted, arrived>>
    BY <1>7 DEF P!HandleEvent
  <2>3. lost \subseteq lost' /\ P!SavedBy(Head(inbox)) \in SUBSET P!Item
    BY <2>1, <2>2, HandleTypes
  <2>4. \A i \in Asked : Settled(i)' \/ local'[i] = local[i]
    BY <2>1, <2>2, HandleCaches
  <2>5. \A i \in Asked : Settled(i)' \/ (i \in marked' /\ local'[i] = local[i])
    BY <1>m, <2>2, <2>3, <2>4, SettledStays
  <2>6. P!ChangesArrive' /\ OnDisk'
    BY <1>t, <1>w, <2>2, <2>3, <2>5, CachesStep
  <2>7. TellsWanted' /\ \A r \in Run : Passed(r)'
    BY <1>w, <2>2, <2>3, PlacesStep
  <2>. QED
    BY <2>6, <2>7 DEF Waits
<1>8. CASE P!EventsHandled
  <2>1. /\ UNCHANGED <<local, marked, loaded, saved, wanted, arrived, lost>>
        /\ sending' = sending /\ sending[P!Loop] = None
        /\ P!GoTo(P!Loop, "wait") \/ P!GoTo(P!Loop, "device")
    BY <1>8 DEF P!EventsHandled, P!At, P!GoesOnline
  <2>2. Passed(P!Loop)'
    <3>1. place'[P!Loop] \in {"wait", "device"}
      BY <2>1 DEF P!GoTo, SlaveTypes
    <3>. QED
      BY <3>1 DEF Passed
  <2>3. TellsWanted' /\ \A r \in Run : Passed(r)'
    BY <1>w, <2>1, <2>2, MovesOn
  <2>4. \A i \in Asked : Settled(i)' \/ (i \in marked' /\ local'[i] = local[i])
    BY <1>m, <2>1, SettledStays
  <2>5. P!ChangesArrive' /\ OnDisk'
    BY <1>t, <1>w, <2>1, <2>4, CachesStep
  <2>. QED
    BY <2>3, <2>5 DEF Waits
<1>9. CASE P!Polled
  <2>1. /\ UNCHANGED <<marked, loaded, wanted, arrived>>
        /\ sending' = sending /\ sending[P!Loop] = None
        /\ P!GoTo(P!Loop, "ports") \/ P!GoTo(P!Loop, "device")
        /\ \/ UNCHANGED <<local, saved, lost>>
           \/ /\ P!HandleDeviceUpdate(remote["device"])
              /\ P!Save(IF P!Pending("device") THEN {} ELSE P!DeviceItem)
    BY <1>9 DEF P!Polled, P!At, P!GoesOnline
  <2>2. lost' = lost
    BY <2>1 DEF P!HandleDeviceUpdate
  <2>3. Passed(P!Loop)'
    <3>1. place'[P!Loop] \in {"ports", "device"}
      BY <2>1 DEF P!GoTo, SlaveTypes
    <3>. QED
      BY <3>1 DEF Passed
  <2>4. TellsWanted' /\ \A r \in Run : Passed(r)'
    BY <1>w, <2>1, <2>2, <2>3, MovesOn
  <2>5. \A i \in Asked : Settled(i)' \/ local'[i] = local[i]
    <3>1. CASE local' = local
      BY <3>1
    <3>2. CASE P!HandleDeviceUpdate(remote["device"]) /\ ~P!Pending("device")
      <4>1. Settled("device")
        BY <3>2, NotPending DEF Asked
      <4>2. Settled("device")'
        BY <2>1, <2>2, <4>1, SettledStays
      <4>3. local' = [local EXCEPT !["device"] = remote["device"]]
        BY <3>2 DEF P!HandleDeviceUpdate
      <4>. QED
        BY <4>2, <4>3 DEF Asked, SlaveTypes
    <3>3. CASE P!HandleDeviceUpdate(remote["device"]) /\ P!Pending("device")
      BY <3>3 DEF P!HandleDeviceUpdate
    <3>. QED
      BY <2>1, <3>1, <3>2, <3>3
  <2>6. \A i \in Asked : Settled(i)' \/ (i \in marked' /\ local'[i] = local[i])
    BY <1>m, <2>1, <2>2, <2>5, SettledStays
  <2>7. saved' = saved \/ \E items \in SUBSET P!Item : P!Save(items)
    <3>1. {} \in SUBSET P!Item /\ P!DeviceItem \in SUBSET P!Item
      OBVIOUS
    <3>. QED
      BY <2>1, <3>1
  <2>8. P!ChangesArrive' /\ OnDisk'
    BY <1>t, <1>w, <2>1, <2>2, <2>6, <2>7, CachesStep
  <2>. QED
    BY <2>4, <2>8 DEF Waits
<1>10. CASE P!PolledPorts
  <2>1. /\ UNCHANGED <<wanted, arrived>> /\ sending' = sending /\ sending[P!Loop] = None
        /\ P!GoTo(P!Loop, "wait")
    BY <1>10 DEF P!PolledPorts, P!At
  <2>2. /\ lost \subseteq lost' /\ (loaded => loaded') /\ marked \subseteq marked'
        /\ \A i \in Asked : Settled(i)' \/ local'[i] = local[i]
        /\ \E items \in SUBSET P!Item : P!Save(items)
    <3>1. P!PortItem \in SUBSET P!Item /\ {} \in SUBSET P!Item
      OBVIOUS
    <3>2. CASE ~loaded
      <4>1. P!AddPort
        BY <1>10, <3>2 DEF P!PolledPorts
      <4>2. P!Save(P!PortItem)
        BY <4>1 DEF P!AddPort
      <4>. QED
        BY <2>1, <3>1, <3>2, <4>1, <4>2, PortCaches
    <3>3. CASE loaded /\ remote["port"] # local["port"]
      <4>1. /\ \E value : P!HandlePortUpdate(remote["port"], value)
            /\ P!Save(P!PortItem) /\ loaded' = loaded /\ marked' = marked
        BY <1>10, <3>3 DEF P!PolledPorts
      <4>. QED
        BY <2>1, <3>1, <4>1, PortCaches
    <3>4. CASE loaded /\ remote["port"] = local["port"]
      <4>1. /\ P!HandleValueChange(remote["value"]) /\ loaded' = loaded /\ marked' = marked
            /\ P!Save(IF P!Ignored(remote["value"]) THEN {} ELSE P!PortItem)
        BY <1>10, <3>4 DEF P!PolledPorts
      <4>2. local' = local /\ lost' = lost
        BY <4>1 DEF P!HandleValueChange
      <4>3. \E items \in SUBSET P!Item : P!Save(items)
        BY <3>1, <4>1
      <4>. QED
        BY <4>1, <4>2, <4>3
    <3>. QED
      BY <3>2, <3>3, <3>4
  <2>3. Passed(P!Loop)'
    <3>1. place'[P!Loop] = "wait"
      BY <2>1 DEF P!GoTo, SlaveTypes
    <3>. QED
      BY <3>1 DEF Passed
  <2>4. TellsWanted' /\ \A r \in Run : Passed(r)'
    BY <1>w, <2>1, <2>2, <2>3, MovesOn
  <2>5. \A i \in Asked : Settled(i)' \/ (i \in marked' /\ local'[i] = local[i])
    BY <1>m, <2>1, <2>2, SettledStays
  <2>6. P!ChangesArrive' /\ OnDisk'
    BY <1>t, <1>w, <2>1, <2>2, <2>5, CachesStep
  <2>. QED
    BY <2>4, <2>6 DEF Waits
<1>11. CASE P!PollingPortsFails
  <2>1. /\ UNCHANGED <<local, marked, loaded, saved, wanted, arrived, lost>>
        /\ sending' = sending /\ sending[P!Loop] = None /\ P!GoTo(P!Loop, "wait")
    BY <1>11 DEF P!PollingPortsFails, P!At
  <2>2. Passed(P!Loop)'
    <3>1. place'[P!Loop] = "wait"
      BY <2>1 DEF P!GoTo, SlaveTypes
    <3>. QED
      BY <3>1 DEF Passed
  <2>3. TellsWanted' /\ \A r \in Run : Passed(r)'
    BY <1>w, <2>1, <2>2, MovesOn
  <2>4. \A i \in Asked : Settled(i)' \/ (i \in marked' /\ local'[i] = local[i])
    BY <1>m, <2>1, SettledStays
  <2>5. P!ChangesArrive' /\ OnDisk'
    BY <1>t, <1>w, <2>1, <2>4, CachesStep
  <2>. QED
    BY <2>3, <2>5 DEF Waits
<1>12. CASE P!Post
  <2>1. Head(events) \in Event
    BY <1>12, HeadTailProperties DEF P!Post, SlaveTypes
  <2>2. /\ P!Handle(Head(events)) /\ UNCHANGED <<marked, loaded, place, sending, wanted, arrived>>
        /\ P!Save(P!SavedBy(Head(events))
                     \cup IF P!Raises(Head(events)) THEN {} ELSE P!DeviceItem)
    BY <1>12 DEF P!Post
  <2>3. lost \subseteq lost' /\ P!SavedBy(Head(events)) \in SUBSET P!Item
    BY <2>1, <2>2, HandleTypes
  <2>4. \A i \in Asked : Settled(i)' \/ local'[i] = local[i]
    BY <2>1, <2>2, HandleCaches
  <2>5. \A i \in Asked : Settled(i)' \/ (i \in marked' /\ local'[i] = local[i])
    BY <1>m, <2>2, <2>3, <2>4, SettledStays
  <2>6. \E items \in SUBSET P!Item : P!Save(items)
    BY <2>2, <2>3
  <2>7. P!ChangesArrive' /\ OnDisk'
    BY <1>t, <1>w, <2>2, <2>3, <2>5, <2>6, CachesStep
  <2>8. TellsWanted' /\ \A r \in Run : Passed(r)'
    BY <1>w, <2>2, <2>3, PlacesStep
  <2>. QED
    BY <2>7, <2>8 DEF Waits
<1>13. ASSUME NEW r \in Run,
              \/ P!Begin(r) \/ P!FetchFails(r)
              \/ P!Ends(r)
       PROVE  P!ChangesArrive' /\ Waits'
  <2>1. /\ UNCHANGED <<local, marked, loaded, wanted, arrived, lost>>
        /\ sending' = sending /\ sending[r] = None
        /\ P!GoTo(r, "wait") \/ P!GoTo(r, "device") \/ P!GoTo(r, "ports")
        /\ saved' = saved \/ P!Save(IF mode = "none" THEN {} ELSE P!DeviceItem)
    BY <1>13 DEF P!Begin, P!FetchFails, P!Ends, P!At, SlaveTypes
  <2>2. Passed(r)'
    <3>1. place'[r] \in {"wait", "device", "ports"}
      BY <2>1 DEF P!GoTo, SlaveTypes
    <3>. QED
      BY <3>1 DEF Passed
  <2>3. TellsWanted' /\ \A t \in Run : Passed(t)'
    BY <1>w, <2>1, <2>2, MovesOn
  <2>4. \A i \in Asked : Settled(i)' \/ (i \in marked' /\ local'[i] = local[i])
    BY <1>m, <2>1, SettledStays
  <2>5. saved' = saved \/ \E items \in SUBSET P!Item : P!Save(items)
    <3>1. {} \in SUBSET P!Item /\ P!DeviceItem \in SUBSET P!Item
      OBVIOUS
    <3>. QED
      BY <2>1, <3>1
  <2>6. P!ChangesArrive' /\ OnDisk'
    BY <1>t, <1>w, <2>1, <2>4, <2>5, CachesStep
  <2>. QED
    BY <2>3, <2>6 DEF Waits
<1>14. ASSUME NEW r \in Run, NEW i \in P!Item, P!Send(r, i) PROVE P!ChangesArrive' /\ Waits'
  <2>1. /\ UNCHANGED <<local, marked, loaded, saved, place, wanted, arrived, lost>>
        /\ sending' = [sending EXCEPT ![r] = local[i]] /\ place[r] = i
    BY <1>14 DEF P!Send, P!At
  <2>2. \A k \in Asked : Settled(k)' \/ (k \in marked' /\ local'[k] = local[k])
    BY <1>m, <2>1, SettledStays
  <2>3. P!ChangesArrive' /\ OnDisk'
    BY <1>t, <1>w, <2>1, <2>2, CachesStep
  <2>4. ASSUME NEW t \in Run PROVE Passed(t)'
    BY <1>w, <2>1, SettledStays DEF Passed
  <2>5. TellsWanted'
    <3>1. SUFFICES ASSUME NEW t \in Run, NEW k \in Asked, place[t] = k, sending'[t] # None
                   PROVE  Settled(k)' \/ sending'[t] = wanted[k]
      BY <2>1 DEF TellsWanted
    <3>2. CASE t = r
      <4>1. k = i /\ sending'[t] = local[k]
        BY <2>1, <3>1, <3>2 DEF SlaveTypes
      <4>. QED
        BY <2>1, <4>1, NotSettled, SettledStays
    <3>3. CASE t # r
      BY <1>w, <2>1, <3>1, <3>3, SettledStays DEF TellsWanted, SlaveTypes
    <3>. QED
      BY <3>2, <3>3
  <2>. QED
    BY <2>3, <2>4, <2>5 DEF Waits
<1>15. ASSUME NEW r \in Run, NEW i \in P!Item, P!Skip(r, i) PROVE P!ChangesArrive' /\ Waits'
  <2>1. /\ UNCHANGED <<local, loaded, wanted, arrived, lost>>
        /\ sending' = sending /\ sending[r] = None /\ place[r] = i
        /\ P!GoTo(r, P!After(i)) /\ ~P!Pending(i)
        /\ marked' = IF i = "value" THEN marked \ P!Cleared(i) ELSE marked
    BY <1>15 DEF P!Skip, P!At
  <2>2. i # "value" => Settled(i)
    BY <2>1, NotPending DEF Asked
  <2>3. Passed(r) /\ \A k : Settled(k) => Settled(k)'
    BY <1>w, <2>1, SettledStays
  <2>4. Passed(r)'
    <3>1. place'[r] = P!After(i)
      BY <2>1 DEF P!GoTo, SlaveTypes
    <3>. QED
      BY <2>1, <2>2, <2>3, <3>1, AfterFacts DEF Passed
  <2>5. TellsWanted' /\ \A t \in Run : Passed(t)'
    BY <1>w, <2>1, <2>4, MovesOn
  <2>6. \A k \in Asked : Settled(k)' \/ (k \in marked' /\ local'[k] = local[k])
    <3>1. SUFFICES ASSUME NEW k \in Asked, ~Settled(k) PROVE k \in marked'
      BY <2>1, <2>3
    <3>2. k \in marked
      BY <1>m, <3>1
    <3>3. i = "value" => k \in P!DeviceItem
      BY <2>1, <2>3, <3>1 DEF Passed, Asked
    <3>. QED
      BY <2>1, <3>2, <3>3 DEF P!Cleared
  <2>7. \E items \in SUBSET P!Item : P!Save(items)
    <3>1. {} \in SUBSET P!Item /\ P!DeviceItem \in SUBSET P!Item /\ P!PortItem \in SUBSET P!Item
      OBVIOUS
    <3>. QED
      BY <1>15, <3>1 DEF P!Skip, P!SaveAfter
  <2>8. P!ChangesArrive' /\ OnDisk'
    BY <1>t, <1>w, <2>1, <2>6, <2>7, CachesStep
  <2>. QED
    BY <2>5, <2>8 DEF Waits
<1>16. ASSUME NEW r \in Run, NEW i \in P!Item, NEW ok \in BOOLEAN, NEW effect \in BOOLEAN,
              P!Sent(r, i, ok, effect)
       PROVE  P!ChangesArrive' /\ Waits'
  <2>1. /\ UNCHANGED <<local, loaded, wanted>> /\ arrived \subseteq arrived' /\ lost \subseteq lost'
        /\ sending' = [sending EXCEPT ![r] = None] /\ sending[r] # None /\ place[r] = i
        /\ P!GoTo(r, P!After(i)) /\ marked' = marked \ P!Cleared(i)
        /\ (ok => effect)
        /\ lost' = IF ok THEN lost ELSE lost \cup {i}
        /\ arrived' = IF remote'[i] = wanted[i] THEN arrived \cup {i} ELSE arrived
    BY <1>16 DEF P!Sent
  <2>2. Passed(r) /\ \A k : Settled(k) => Settled(k)'
    BY <1>w, <2>1, SettledStays
  <2>3. i # "value" => Settled(i)'
    <3>1. SUFFICES ASSUME i # "value", ~Settled(i) PROVE Settled(i)'
      BY <2>2
    <3>2. sending[r] = wanted[i]
      BY <1>w, <2>1, <3>1 DEF TellsWanted, Asked
    <3>3. CASE ok
      <4>1. P!Changed(i, sending[r])
        BY <1>16, <2>1, <3>1, <3>3 DEF P!Sent
      <4>2. remote'[i] = wanted[i]
        BY <3>2, <4>1 DEF P!Changed, SlaveTypes
      <4>. QED
        BY <2>1, <4>2 DEF Settled
    <3>4. CASE ~ok
      BY <2>1, <3>4 DEF Settled
    <3>. QED
      BY <3>3, <3>4
  <2>4. Passed(r)'
    <3>1. place'[r] = P!After(i)
      BY <2>1 DEF P!GoTo, SlaveTypes
    <3>. QED
      BY <2>1, <2>2, <2>3, <3>1, AfterFacts DEF Passed
  <2>5. TellsWanted' /\ \A t \in Run : Passed(t)'
    BY <1>w, <2>1, <2>4, MovesOn
  <2>6. \A k \in Asked : Settled(k)' \/ (k \in marked' /\ local'[k] = local[k])
    <3>1. SUFFICES ASSUME NEW k \in Asked, ~Settled(k)' PROVE k \in marked'
      BY <2>1
    <3>2. k \in marked /\ ~Settled(k)
      BY <1>m, <2>2, <3>1
    <3>3. i = "value" => k \in P!DeviceItem
      BY <2>1, <2>2, <3>2 DEF Passed, Asked
    <3>4. k # i
      BY <2>3, <3>1 DEF Asked
    <3>. QED
      BY <2>1, <3>2, <3>3, <3>4 DEF P!Cleared
  <2>7. \E items \in SUBSET P!Item : P!Save(items)
    <3>1. {} \in SUBSET P!Item /\ P!DeviceItem \in SUBSET P!Item /\ P!PortItem \in SUBSET P!Item
      OBVIOUS
    <3>. QED
      BY <1>16, <3>1 DEF P!Sent, P!SaveAfter
  <2>8. P!ChangesArrive' /\ OnDisk'
    BY <1>t, <1>w, <2>1, <2>6, <2>7, CachesStep
  <2>. QED
    BY <2>5, <2>8 DEF Waits
<1>17. ASSUME NEW r \in Run, P!Query(r) PROVE P!ChangesArrive' /\ Waits'
  <2>1. /\ UNCHANGED <<marked, loaded, wanted, arrived, lost>>
        /\ sending' = sending /\ sending[r] = None /\ place[r] = "query"
        /\ P!GoTo(r, "end") \/ P!GoTo(r, "fetch")
        /\ \/ UNCHANGED <<local, saved>>
           \/ /\ local' = [local EXCEPT !["webhooks"] = remote["webhooks"]]
              /\ P!Save(P!DeviceItem)
    BY <1>17 DEF P!Query, P!At
  <2>2. Settled("webhooks") /\ Settled("device")
    BY <1>w, <2>1 DEF Passed
  <2>3. \A k : Settled(k) => Settled(k)'
    BY <2>1, SettledStays
  <2>4. Passed(r)'
    <3>1. place'[r] \in {"end", "fetch"}
      BY <2>1 DEF P!GoTo, SlaveTypes
    <3>. QED
      BY <2>2, <2>3, <3>1 DEF Passed
  <2>5. TellsWanted' /\ \A t \in Run : Passed(t)'
    BY <1>w, <2>1, <2>4, MovesOn
  <2>6. \A k \in Asked : Settled(k)' \/ (k \in marked' /\ local'[k] = local[k])
    <3>1. \A k \in Asked : k # "webhooks" => local'[k] = local[k]
      BY <2>1 DEF Asked, SlaveTypes
    <3>. QED
      BY <1>m, <2>1, <2>2, <2>3, <3>1
  <2>7. saved' = saved \/ \E items \in SUBSET P!Item : P!Save(items)
    BY <2>1
  <2>8. P!ChangesArrive' /\ OnDisk'
    BY <1>t, <1>w, <2>1, <2>6, <2>7, CachesStep
  <2>. QED
    BY <2>5, <2>8 DEF Waits
<1>18. ASSUME NEW r \in Run, P!FetchDevice(r) PROVE P!ChangesArrive' /\ Waits'
  <2>1. /\ UNCHANGED <<marked, loaded, saved, wanted, arrived, lost>>
        /\ sending' = sending /\ sending[r] = None /\ place[r] = "fetch"
        /\ P!GoTo(r, "fetchPorts")
        /\ local' = [local EXCEPT !["device"] = remote["device"]]
    BY <1>18 DEF P!FetchDevice, P!At
  <2>2. Settled("device")
    BY <1>w, <2>1 DEF Passed
  <2>3. \A k : Settled(k) => Settled(k)'
    BY <2>1, SettledStays
  <2>4. Passed(r)'
    <3>1. place'[r] = "fetchPorts"
      BY <2>1 DEF P!GoTo, SlaveTypes
    <3>. QED
      BY <3>1 DEF Passed
  <2>5. TellsWanted' /\ \A t \in Run : Passed(t)'
    BY <1>w, <2>1, <2>4, MovesOn
  <2>6. \A k \in Asked : Settled(k)' \/ (k \in marked' /\ local'[k] = local[k])
    <3>1. \A k \in Asked : k # "device" => local'[k] = local[k]
      BY <2>1 DEF Asked, SlaveTypes
    <3>. QED
      BY <1>m, <2>1, <2>2, <2>3, <3>1
  <2>7. P!ChangesArrive' /\ OnDisk'
    BY <1>t, <1>w, <2>1, <2>6, CachesStep
  <2>. QED
    BY <2>5, <2>7 DEF Waits
<1>19. ASSUME NEW r \in Run, P!FetchPorts(r) PROVE P!ChangesArrive' /\ Waits'
  <2>1. /\ UNCHANGED <<wanted, arrived>> /\ sending' = sending /\ sending[r] = None
        /\ P!GoTo(r, "end")
    BY <1>19 DEF P!FetchPorts, P!At
  <2>2. /\ lost \subseteq lost' /\ (loaded => loaded') /\ marked \subseteq marked'
        /\ \A i \in Asked : Settled(i)' \/ local'[i] = local[i]
        /\ \E items \in SUBSET P!Item : P!Save(items)
    <3>1. P!PortItem \in SUBSET P!Item
      OBVIOUS
    <3>2. CASE ~loaded
      <4>1. P!AddPort
        BY <1>19, <3>2 DEF P!FetchPorts
      <4>2. P!Save(P!PortItem)
        BY <4>1 DEF P!AddPort
      <4>. QED
        BY <2>1, <3>1, <3>2, <4>1, <4>2, PortCaches
    <3>3. CASE loaded
      <4>1. /\ \E value : P!HandlePortUpdate(remote["port"], value)
            /\ P!Save(P!PortItem) /\ loaded' = loaded /\ marked' = marked
        BY <1>19, <3>3 DEF P!FetchPorts
      <4>. QED
        BY <2>1, <3>1, <4>1, PortCaches
    <3>. QED
      BY <3>2, <3>3
  <2>3. Passed(r)'
    <3>1. place'[r] = "end"
      BY <2>1 DEF P!GoTo, SlaveTypes
    <3>. QED
      BY <3>1 DEF Passed
  <2>4. TellsWanted' /\ \A t \in Run : Passed(t)'
    BY <1>w, <2>1, <2>2, <2>3, MovesOn
  <2>5. \A i \in Asked : Settled(i)' \/ (i \in marked' /\ local'[i] = local[i])
    BY <1>m, <2>1, <2>2, SettledStays
  <2>6. P!ChangesArrive' /\ OnDisk'
    BY <1>t, <1>w, <2>1, <2>2, <2>5, CachesStep
  <2>. QED
    BY <2>4, <2>6 DEF Waits
<1>20. CASE P!Restart
  <2>1. /\ \A i \in P!Item : i \in P!DeviceItem \/ (loaded' /\ i = "port")
                                => local'[i] = saved.local[i]
        /\ marked' = IF loaded' THEN saved.marked ELSE saved.marked \cap P!DeviceItem
        /\ lost' = IF loaded' THEN lost ELSE lost \cup (saved.marked \cap P!PortItem)
        /\ place' = [r \in Run |-> "wait"] /\ sending' = [r \in Run |-> None]
        /\ UNCHANGED <<saved, wanted, arrived>>
    BY <1>20 DEF P!Restart
  <2>2. \A k : Settled(k) => Settled(k)'
    BY <2>1, SettledStays
  <2>3. OnDisk'
    BY <1>w, <2>1, <2>2 DEF OnDisk
  <2>4. TellsWanted' /\ \A r \in Run : Passed(r)'
    BY <2>1 DEF TellsWanted, Passed
  <2>5. P!ChangesArrive'
    <3>1. SUFFICES ASSUME NEW k \in Asked, ~Settled(k)'
                   PROVE  P!Pending(k)' /\ local'[k] = wanted'[k]
      BY DEF P!ChangesArrive, Settled, Asked
    <3>2. k \in saved.marked /\ saved.local[k] = wanted[k] /\ wanted[k] \in Nat
      BY <1>w, <2>2, <3>1 DEF OnDisk, SlaveTypes, Asked
    <3>3. k = "port" => loaded'
      BY <2>1, <3>1, <3>2 DEF Settled
    <3>4. k \in marked' /\ local'[k] = saved.local[k]
      BY <2>1, <3>2, <3>3 DEF Asked
    <3>. QED
      BY <2>1, <3>2, <3>3, <3>4 DEF P!Pending, Asked
  <2>. QED
    BY <2>3, <2>4, <2>5 DEF Waits
<1>21. CASE UNCHANGED P!vars
  BY <1>1, <1>21 DEF P!vars
<1>. QED
  BY <1>2, <1>3, <1>4, <1>5, <1>6, <1>7, <1>8, <1>9, <1>10, <1>11, <1>12, <1>13, <1>14, <1>15,
     <1>16, <1>17, <1>18, <1>19, <1>20, <1>21 DEF P!Next

-----------------------------------------------------------------------------
(* The caches follow a device that is listened to. *)

\* The events tell what the device has, after every step (Next).
LEMMA EventsTellStep == SlaveTypes /\ EventsTell /\ [P!Next]_P!vars => EventsTell'
<1>. SUFFICES ASSUME SlaveTypes, EventsTell, [P!Next]_P!vars PROVE EventsTell'
  OBVIOUS
<1>. USE DEF P!device, P!caches, P!link, P!tasks, P!bounds, P!history
<1>1. ASSUME UNCHANGED <<remote, events>> PROVE EventsTell'
  BY <1>1 DEF EventsTell
<1>2. ASSUME remote' = remote, events' = <<>> PROVE EventsTell'
  BY <1>2, LeadsEmpty DEF EventsTell
<1>3. ASSUME NEW i \in P!Item, P!RemoteChange(i) \/ P!ChangeOnline(i) PROVE EventsTell'
  <2>1. itemChanges' \in Nat /\ P!Changed(i, itemChanges')
    BY <1>3 DEF P!RemoteChange, P!ChangeOnline, SlaveTypes
  <2>. QED
    BY <2>1, ChangedFacts DEF SlaveTypes
<1>4. ASSUME NEW r \in Run, NEW i \in P!Item, NEW ok \in BOOLEAN, NEW effect \in BOOLEAN,
             P!Sent(r, i, ok, effect)
      PROVE  EventsTell'
  <2>1. sending[r] \in Nat
    BY <1>4 DEF P!Sent, SlaveTypes
  <2>2. CASE effect /\ i # "value"
    BY <1>4, <2>1, <2>2, ChangedFacts DEF P!Sent, SlaveTypes
  <2>3. CASE ~(effect /\ i # "value")
    BY <1>1, <1>4, <2>3 DEF P!Sent
  <2>. QED
    BY <2>2, <2>3
<1>5. CASE P!Post
  <2>1. events' = Tail(events) /\ events # <<>> /\ remote' = remote /\ events \in Seq(Event)
    BY <1>5 DEF P!Post, SlaveTypes
  <2>2. ASSUME NEW kinds, NEW field, NEW v, Leads(events, kinds, field, v, v)
        PROVE  Leads(Tail(events), kinds, field, v, v)
    <3>1. Leads(Tail(events), kinds, field,
                IF Head(events).of \in kinds THEN Head(events)[field] ELSE v, v)
          /\ Tail(events) \in Seq(Event)
      BY <2>1, <2>2, LeadsTail
    <3>2. CASE \E m \in DOMAIN Tail(events) : Tail(events)[m].of \in kinds
      BY <3>1, <3>2, LeadsSome
    <3>3. CASE \A m \in DOMAIN Tail(events) : Tail(events)[m].of \notin kinds
      BY <3>1, <3>3, LeadsNone
    <3>. QED
      BY <3>2, <3>3
  <2>. QED
    BY <2>1, <2>2 DEF EventsTell
<1>6. CASE P!Goes \/ P!Comes \/ P!Written \/ P!ReadValue \/ P!TryFails \/ P!HandleEvent
              \/ P!EventsHandled \/ P!PolledPorts \/ P!PollingPortsFails
  BY <1>1, <1>6 DEF P!Goes, P!Comes, P!Written, P!ReadValue, P!TryFails, P!HandleEvent,
                    P!EventsHandled, P!PolledPorts, P!PollingPortsFails
<1>7. CASE P!Forgotten \/ P!Listened \/ P!Polled
  BY <1>2, <1>7 DEF P!Forgotten, P!Listened, P!Polled
<1>8. ASSUME NEW i \in P!Item, P!ChangeOffline(i) PROVE EventsTell'
  BY <1>1, <1>8 DEF P!ChangeOffline
<1>9. ASSUME NEW r \in Run, \/ P!Begin(r) \/ P!Query(r) \/ P!FetchDevice(r) \/ P!FetchPorts(r)
                            \/ P!FetchFails(r) \/ P!Ends(r)
      PROVE  EventsTell'
  BY <1>1, <1>9 DEF P!Begin, P!Query, P!FetchDevice, P!FetchPorts, P!FetchFails, P!Ends
<1>10. ASSUME NEW r \in Run, NEW i \in P!Item, P!Send(r, i) \/ P!Skip(r, i) PROVE EventsTell'
  BY <1>1, <1>10 DEF P!Send, P!Skip
<1>11. CASE P!Restart
  BY <1>1, <1>2, <1>11 DEF P!Restart
<1>12. CASE UNCHANGED P!vars
  BY <1>1, <1>12 DEF P!vars
<1>. QED
  BY <1>3, <1>4, <1>5, <1>6, <1>7, <1>8, <1>9, <1>10, <1>11, <1>12 DEF P!Next

\* What comes to v still does so when more waits at the device, that tells of what changes.
LEMMA ComesOn ==
  ASSUME NEW told, NEW more, NEW q, NEW kinds, NEW field, NEW current, NEW v, NEW w,
         ComesTo(told, q, kinds, field, current, v),
         (\E m \in DOMAIN told : told[m].of \in kinds)
            => \E m \in DOMAIN more : more[m].of \in kinds,
         w = v \/ \E m \in DOMAIN more : more[m].of \in kinds
  PROVE  ComesTo(more, q, kinds, field, current, w)
  BY DEF ComesTo

\* What waits at the device is received.
LEMMA Receives ==
  ASSUME NEW told \in Seq(Event), NEW kinds, NEW field, NEW current, NEW v,
         ComesTo(told, <<>>, kinds, field, current, v), Leads(told, kinds, field, v, v)
  PROVE  ComesTo(<<>>, told, kinds, field, current, v)
<1>1. current = v \/ \E m \in DOMAIN told : told[m].of \in kinds
  BY LeadsEmpty DEF ComesTo
<1>. QED
  BY <1>1, LeadsCurrent DEF ComesTo

\* The first event that was received is handled.
LEMMA HandlesOne ==
  ASSUME NEW told, NEW q \in Seq(Event), q # <<>>, NEW kinds, NEW field, NEW current, NEW v,
         ComesTo(told, q, kinds, field, current, v)
  PROVE  ComesTo(told, Tail(q), kinds, field,
                 IF Head(q).of \in kinds THEN Head(q)[field] ELSE current, v)
  BY LeadsTail DEF ComesTo

\* What is current is replaced by v, or by anything while an event of the kinds is to be handled.
LEMMA Replaced ==
  ASSUME NEW told, NEW q \in Seq(Event), NEW kinds, NEW field, NEW current, NEW other, NEW v,
         ComesTo(told, q, kinds, field, current, v),
         \/ other = v
         \/ \E m \in DOMAIN told : told[m].of \in kinds
         \/ \E m \in DOMAIN q : q[m].of \in kinds
  PROVE  ComesTo(told, q, kinds, field, other, v)
<1>1. CASE \E m \in DOMAIN told : told[m].of \in kinds
  BY <1>1 DEF ComesTo
<1>2. CASE Leads(q, kinds, field, current, v)
  <2>1. CASE \E m \in DOMAIN q : q[m].of \in kinds
    BY <1>2, <2>1, LeadsSome DEF ComesTo
  <2>2. CASE (\A m \in DOMAIN q : q[m].of \notin kinds) /\ other = v
    BY <2>2, LeadsNone DEF ComesTo
  <2>. QED
    BY <1>1, <2>1, <2>2
<1>. QED
  BY <1>1, <1>2 DEF ComesTo

\* When nothing is received and not handled, what is fetched is what the device has.
LEMMA Fetched ==
  ASSUME NEW told, NEW kinds, NEW field, NEW v
  PROVE  ComesTo(told, <<>>, kinds, field, v, v)
  BY LeadsEmpty DEF ComesTo

\* The loop goes on, and no other task does anything.
LEMMA LoopGoes ==
  ASSUME SlaveTypes, LoopPlaces, NEW next, P!GoTo(P!Loop, next), next # "ports",
         next \in {"wait", "events"} \/ online', next # "events" => inbox' = <<>>
  PROVE  place'[P!Loop] = next /\ LoopPlaces'
  BY SlaveFacts DEF SlaveTypes, LoopPlaces, P!GoTo

\* What is saved of a port that is not loaded stays as it was.
LEMMA NotLoadedStep ==
  ASSUME SlaveTypes, SlaveTypes', NotLoaded, stuck \subseteq stuck',
         ~loaded' => ~loaded /\ marked' \cap P!PortItem \subseteq marked,
         saved' = saved \/ \E items \in SUBSET P!Item : P!Save(items)
  PROVE  NotLoaded'
<1>1. CASE saved' = saved
  BY <1>1, SlaveFacts DEF NotLoaded
<1>2. ASSUME NEW items \in SUBSET P!Item, P!Save(items) PROVE NotLoaded'
  <2>1. saved'.marked = (saved.marked \ items) \cup (marked' \cap items)
    BY <1>2, SaveTypes DEF SlaveTypes
  <2>. QED
    BY <2>1, SlaveFacts DEF NotLoaded
<1>. QED
  BY <1>1, <1>2

\* Only the loop does anything of what tasks do.
LEMMA OnlyLoop ==
  ASSUME SlaveTypes, LoopPlaces, NEW r \in Run, place[r] # "wait"
  PROVE  r = P!Loop
  BY DEF LoopPlaces

\* Caches, places and what was received stay; what waits at the device tells of its changes.
LEMMA StaysFollowed ==
  ASSUME SlaveTypes, SlaveTypes', Listens, UNCHANGED <<loaded, marked, saved, place, inbox>>,
         online' => online, place[P!Loop] \in {"wait", "events"} \/ online',
         local'["device"] = local["device"], local'["port"] = local["port"],
         P!LastRemoteValue' = P!LastRemoteValue, stuck \subseteq stuck',
         \/ UNCHANGED <<remote, events>>
         \/ \E i \in P!Item, n \in Nat : P!Changed(i, n)
  PROVE  Listens'
<1>. USE SlaveFacts
<1>1. LoopPlaces' /\ NotLoaded' /\ MarksGone'
  BY DEF Listens, LoopPlaces, NotLoaded, MarksGone
<1>2. \A fetched : Follows(fetched)' => Follows(fetched)
  BY DEF Follows
<1>3. \A kinds : \A i \in {"device", "port", "value"} :
         /\ i \in kinds => remote'[i] = remote[i]
                             \/ \E m \in DOMAIN events' : events'[m].of \in kinds
         /\ (\E m \in DOMAIN events : events[m].of \in kinds)
               => \E m \in DOMAIN events' : events'[m].of \in kinds
  <2>1. CASE UNCHANGED <<remote, events>>
    BY <2>1
  <2>2. ASSUME NEW i \in P!Item, NEW n \in Nat, P!Changed(i, n)
        PROVE  \A kinds : \A k \in {"device", "port", "value"} :
                  /\ k \in kinds => remote'[k] = remote[k]
                                       \/ \E m \in DOMAIN events' : events'[m].of \in kinds
                  /\ (\E m \in DOMAIN events : events[m].of \in kinds)
                        => \E m \in DOMAIN events' : events'[m].of \in kinds
    <3>1. /\ remote' = [remote EXCEPT ![i] = n]
          /\ \A kinds : (\E m \in DOMAIN events : events[m].of \in kinds)
                           \/ (i # "webhooks" /\ i \in kinds)
                        => \E m \in DOMAIN events' : events'[m].of \in kinds
      BY <2>2, ChangedFacts DEF SlaveTypes
    <3>2. \A k \in {"device", "port", "value"} : remote'[k] = remote[k] \/ (k = i /\ i # "webhooks")
      BY <3>1 DEF SlaveTypes
    <3>. QED
      BY <3>1, <3>2
  <2>. QED
    BY <2>1, <2>2
<1>4. DeviceFollows'
  <2>1. SUFFICES ASSUME Follows({"fetchPorts", "end"})'
                 PROVE  ComesTo(events', inbox', {"device"}, "attr", local'["device"],
                                remote'["device"])
    BY DEF DeviceFollows
  <2>2. ComesTo(events, inbox, {"device"}, "attr", local["device"], remote["device"])
    BY <1>2, <2>1 DEF Listens, DeviceFollows
  <2>3. ComesTo(events', inbox, {"device"}, "attr", local["device"], remote'["device"])
    BY <1>3, <2>2, ComesOn
  <2>. QED
    BY <2>3
<1>5. PortFollows'
  <2>1. SUFFICES ASSUME Follows({"end"})'
                 PROVE  /\ loaded' /\ marked' \subseteq stuck'
                        /\ ComesTo(events', inbox', {"port"}, "attr", local'["port"],
                                   remote'["port"])
                        /\ "value" \in stuck'
                              \/ ComesTo(events', inbox', {"port", "value"}, "value",
                                         P!LastRemoteValue', remote'["value"])
    BY DEF PortFollows
  <2>2. /\ loaded /\ marked \subseteq stuck
        /\ ComesTo(events, inbox, {"port"}, "attr", local["port"], remote["port"])
        /\ "value" \in stuck
              \/ ComesTo(events, inbox, {"port", "value"}, "value", P!LastRemoteValue,
                         remote["value"])
    BY <1>2, <2>1 DEF Listens, PortFollows
  <2>3. ComesTo(events', inbox, {"port"}, "attr", local["port"], remote'["port"])
    BY <1>3, <2>2, ComesOn
  <2>4. CASE "value" \in stuck
    BY <2>2, <2>3, <2>4
  <2>5. CASE ComesTo(events, inbox, {"port", "value"}, "value", P!LastRemoteValue,
                     remote["value"])
    <3>1. ComesTo(events', inbox, {"port", "value"}, "value", P!LastRemoteValue, remote'["value"])
      BY <1>3, <2>5, ComesOn
    <3>. QED
      BY <2>2, <2>3, <3>1
  <2>. QED
    BY <2>2, <2>4, <2>5
<1>. QED
  BY <1>1, <1>4, <1>5 DEF Listens

\* Offline, or while it is provisioned, the caches need not follow.
LEMMA NotFollowed ==
  ASSUME LoopPlaces', NotLoaded', MarksGone',
         place'[P!Loop] \notin {"fetchPorts", "end"},
         place'[P!Loop] \in {"wait", "events"} => ~online'
  PROVE  Listens'
  BY DEF Listens, DeviceFollows, PortFollows, Follows

\* Handling an event that was received (HandleEvent).
LEMMA HandleFollowed ==
  ASSUME SlaveTypes, SlaveTypes', Listens, P!HandleEvent
  PROVE  Listens'
<1>. USE SlaveFacts DEF P!device, P!caches, P!link, P!tasks, P!bounds, P!history
<1>. DEFINE e == Head(inbox)
<1>1. /\ place[P!Loop] = "events" /\ inbox # <<>> /\ inbox' = Tail(inbox) /\ P!Handle(e)
      /\ UNCHANGED <<remote, events, marked, loaded, online, place, sending, stuck>>
      /\ P!Save(P!SavedBy(e))
  BY DEF P!HandleEvent, P!At
<1>2. e \in Event /\ inbox \in Seq(Event) /\ e.attr = e["attr"] /\ e.value = e["value"]
      /\ e.value \in Nat /\ e.of \in {"device", "port", "value"}
  <2>1. e \in Event /\ inbox \in Seq(Event)
    BY <1>1, HeadTailProperties DEF SlaveTypes
  <2>. QED
    BY <2>1, EventFacts DEF Event
<1>. HIDE DEF e
<1>3. LoopPlaces'
  BY <1>1 DEF Listens, LoopPlaces
<1>4. NotLoaded'
  <2>1. P!SavedBy(e) \in SUBSET P!Item
    BY <1>1, <1>2, HandleTypes
  <2>. QED
    BY <1>1, <2>1, NotLoadedStep DEF Listens
<1>5. MarksGone'
  BY <1>1 DEF MarksGone
<1>6. CASE ~online
  BY <1>1, <1>3, <1>4, <1>5, <1>6, NotFollowed
<1>7. CASE online
  <2>1. /\ loaded /\ marked \subseteq stuck /\ stuck \subseteq P!PortItem
        /\ ComesTo(events, inbox, {"device"}, "attr", local["device"], remote["device"])
        /\ ComesTo(events, inbox, {"port"}, "attr", local["port"], remote["port"])
        /\ "value" \in stuck
              \/ ComesTo(events, inbox, {"port", "value"}, "value", P!LastRemoteValue,
                         remote["value"])
    BY <1>1, <1>7 DEF Listens, DeviceFollows, PortFollows, Follows, SlaveTypes
  <2>2. ~P!Pending("device") /\ (P!Pending("value") => "value" \in stuck)
    BY <2>1 DEF P!Pending
  <2>3. <<e.value>> \in Seq(Nat) /\ <<e.value>> \o values \in Seq(Nat)
        /\ <<e.value>> \o values # <<>> /\ Head(<<e.value>> \o values) = e.value
    <3>1. <<e.value>> \in Seq(Nat) /\ Len(<<e.value>>) = 1 /\ <<e.value>>[1] = e.value
      BY <1>2
    <3>2. /\ <<e.value>> \o values \in Seq(Nat)
          /\ Len(<<e.value>> \o values) = 1 + Len(values)
          /\ \A k \in 1..Len(<<e.value>> \o values) :
                (<<e.value>> \o values)[k] = IF k <= 1 THEN <<e.value>>[k] ELSE values[k - 1]
      BY <3>1, ConcatProperties DEF SlaveTypes
    <3>3. Len(values) \in Nat
      BY LenProperties DEF SlaveTypes
    <3>4. 1 \in 1..Len(<<e.value>> \o values)
      BY <3>2, <3>3
    <3>5. (<<e.value>> \o values)[1] = e.value
      BY <3>1, <3>2, <3>4
    <3>6. <<e.value>> \o values # <<>>
      BY <3>2, <3>3, EmptySeq
    <3>. QED
      BY <3>1, <3>2, <3>5, <3>6, HeadTailProperties
  <2>4. local'["device"] = IF e.of \in {"device"} THEN e["attr"] ELSE local["device"]
    <3>1. CASE e.of = "device"
      <4>1. P!HandleDeviceUpdate(e.attr)
        BY <1>1, <3>1 DEF P!Handle
      <4>. QED
        BY <1>2, <2>2, <3>1, <4>1 DEF P!HandleDeviceUpdate, SlaveTypes
    <3>2. CASE e.of = "port"
      <4>1. P!HandlePortUpdate(e.attr, <<e.value>>)
        BY <1>1, <2>1, <3>2 DEF P!Handle
      <4>. QED
        BY <3>2, <4>1 DEF P!HandlePortUpdate, SlaveTypes
    <3>3. CASE e.of = "value"
      <4>1. P!HandleValueChange(e.value)
        BY <1>1, <2>1, <3>3 DEF P!Handle
      <4>. QED
        BY <3>3, <4>1 DEF P!HandleValueChange
    <3>. QED
      BY <1>2, <3>1, <3>2, <3>3
  <2>5. local'["port"] = IF e.of \in {"port"} THEN e["attr"] ELSE local["port"]
    <3>1. CASE e.of = "device"
      <4>1. P!HandleDeviceUpdate(e.attr)
        BY <1>1, <3>1 DEF P!Handle
      <4>. QED
        BY <1>2, <2>2, <3>1, <4>1 DEF P!HandleDeviceUpdate, SlaveTypes
    <3>2. CASE e.of = "port"
      <4>1. P!HandlePortUpdate(e.attr, <<e.value>>)
        BY <1>1, <2>1, <3>2 DEF P!Handle
      <4>. QED
        BY <1>2, <3>2, <4>1 DEF P!HandlePortUpdate, SlaveTypes
    <3>3. CASE e.of = "value"
      <4>1. P!HandleValueChange(e.value)
        BY <1>1, <2>1, <3>3 DEF P!Handle
      <4>. QED
        BY <3>3, <4>1 DEF P!HandleValueChange
    <3>. QED
      BY <1>2, <3>1, <3>2, <3>3
  <2>6. \/ "value" \in stuck
        \/ P!LastRemoteValue' = IF e.of \in {"port", "value"} THEN e["value"]
                                ELSE P!LastRemoteValue
    <3>1. CASE e.of = "device"
      <4>1. P!HandleDeviceUpdate(e.attr)
        BY <1>1, <3>1 DEF P!Handle
      <4>2. values' = values /\ local'["value"] = local["value"]
        BY <4>1 DEF P!HandleDeviceUpdate, SlaveTypes
      <4>. QED
        BY <3>1, <4>2 DEF P!LastRemoteValue
    <3>2. CASE e.of = "port"
      <4>1. P!HandlePortUpdate(e.attr, <<e.value>>)
        BY <1>1, <2>1, <3>2 DEF P!Handle
      <4>2. values' = <<e.value>> \o values
        BY <4>1 DEF P!HandlePortUpdate
      <4>. QED
        BY <1>2, <2>3, <3>2, <4>2 DEF P!LastRemoteValue
    <3>3. CASE e.of = "value"
      <4>1. P!HandleValueChange(e.value)
        BY <1>1, <2>1, <3>3 DEF P!Handle
      <4>2. CASE P!Pending("value")
        BY <2>2, <4>2
      <4>3. CASE ~P!Pending("value") /\ P!LastRemoteValue = e.value
        <5>1. values' = values /\ local' = local
          BY <4>1, <4>3 DEF P!HandleValueChange, P!Ignored
        <5>2. P!LastRemoteValue' = P!LastRemoteValue
          BY <5>1 DEF P!LastRemoteValue
        <5>. QED
          BY <1>2, <3>3, <4>3, <5>2
      <4>4. CASE ~P!Pending("value") /\ P!LastRemoteValue # e.value
        <5>1. values' = <<e.value>> \o values
          BY <4>1, <4>4 DEF P!HandleValueChange, P!Ignored
        <5>. QED
          BY <1>2, <2>3, <3>3, <5>1 DEF P!LastRemoteValue
      <4>. QED
        BY <4>2, <4>3, <4>4
    <3>. QED
      BY <1>2, <3>1, <3>2, <3>3
  <2>7. ComesTo(events', inbox', {"device"}, "attr", local'["device"], remote'["device"])
    BY <1>1, <1>2, <2>1, <2>4, HandlesOne DEF e
  <2>8. ComesTo(events', inbox', {"port"}, "attr", local'["port"], remote'["port"])
    BY <1>1, <1>2, <2>1, <2>5, HandlesOne DEF e
  <2>9. \/ "value" \in stuck'
        \/ ComesTo(events', inbox', {"port", "value"}, "value", P!LastRemoteValue',
                   remote'["value"])
    <3>1. CASE "value" \in stuck
      BY <1>1, <3>1
    <3>2. CASE "value" \notin stuck
      <4>1. ComesTo(events, inbox, {"port", "value"}, "value", P!LastRemoteValue,
                    remote["value"])
        BY <2>1, <3>2
      <4>2. ComesTo(events, Tail(inbox), {"port", "value"}, "value",
                    IF e.of \in {"port", "value"} THEN e["value"] ELSE P!LastRemoteValue,
                    remote["value"])
        BY <1>1, <1>2, <4>1, HandlesOne DEF e
      <4>3. P!LastRemoteValue' = IF e.of \in {"port", "value"} THEN e["value"]
                                 ELSE P!LastRemoteValue
        BY <2>6, <3>2
      <4>. QED
        BY <1>1, <4>2, <4>3
    <3>. QED
      BY <3>1, <3>2
  <2>10. DeviceFollows'
    BY <2>7 DEF DeviceFollows
  <2>11. PortFollows'
    <3>1. loaded' /\ marked' \subseteq stuck'
      BY <1>1, <2>1
    <3>. QED
      BY <2>8, <2>9, <3>1 DEF PortFollows
  <2>. QED
    BY <1>3, <1>4, <1>5, <2>10, <2>11 DEF Listens
<1>. QED
  BY <1>6, <1>7

\* Every step keeps the caches of a device that is listened to coming to what it has (Next).
LEMMA ListensStep ==
  SlaveTypes /\ EventsTell /\ mode = "listen" /\ Listens /\ [P!Next]_P!vars => Listens'
<1>. SUFFICES ASSUME SlaveTypes, EventsTell, mode = "listen", Listens, [P!Next]_P!vars
              PROVE  Listens'
  OBVIOUS
<1>. USE SlaveFacts DEF P!device, P!caches, P!link, P!tasks, P!bounds, P!history
<1>t. SlaveTypes'
  BY SlaveTypesStep
<1>p. /\ LoopPlaces /\ NotLoaded /\ MarksGone
      /\ \A r \in Run : place[r] # "wait" => r = P!Loop
      /\ \A r \in Run : sending[r] # None => r = P!Loop
  BY DEF Listens, LoopPlaces, SlaveTypes
<1>1. ASSUME NEW i \in P!Item, P!RemoteChange(i) \/ P!ChangeOnline(i) PROVE Listens'
  <2>1. itemChanges' \in Nat /\ P!Changed(i, itemChanges')
        /\ UNCHANGED <<loaded, marked, saved, place, inbox, online, local, values, stuck>>
    BY <1>1 DEF P!RemoteChange, P!ChangeOnline, SlaveTypes
  <2>2. P!LastRemoteValue' = P!LastRemoteValue
    BY <2>1 DEF P!LastRemoteValue
  <2>3. place[P!Loop] \in {"wait", "events"} \/ online
    BY <1>p DEF LoopPlaces
  <2>. QED
    BY <1>t, <2>1, <2>2, <2>3, StaysFollowed
<1>2. ASSUME NEW i \in P!Item, P!ChangeOffline(i) PROVE Listens'
  <2>1. /\ ~online /\ marked' = marked \cup {i} /\ (i \in P!PortItem => loaded)
        /\ P!Save(IF i \in P!DeviceItem THEN P!DeviceItem ELSE P!PortItem)
        /\ UNCHANGED <<loaded, online, place, inbox, stuck>>
    BY <1>2 DEF P!ChangeOffline
  <2>2. place[P!Loop] \in {"wait", "events"}
    BY <1>p, <2>1 DEF LoopPlaces
  <2>3. LoopPlaces' /\ MarksGone'
    BY <1>p, <2>1, <2>2 DEF LoopPlaces, MarksGone
  <2>4. NotLoaded'
    <3>1. \E items \in SUBSET P!Item : P!Save(items)
      BY <2>1
    <3>2. ~loaded' => ~loaded /\ marked' \cap P!PortItem \subseteq marked
      BY <2>1
    <3>. QED
      BY <1>p, <1>t, <2>1, <3>1, <3>2, NotLoadedStep
  <2>. QED
    BY <2>1, <2>2, <2>3, <2>4, NotFollowed
<1>3. CASE P!Goes \/ P!Comes \/ P!TryFails
  <2>1. /\ UNCHANGED <<loaded, marked, saved, place, inbox, remote, events, local, values, stuck>>
        /\ online' => online
        /\ place[P!Loop] \in {"wait", "events"} \/ online' = online
    <3>1. CASE P!Goes \/ P!Comes
      BY <3>1 DEF P!Goes, P!Comes
    <3>2. CASE P!TryFails
      <4>1. /\ UNCHANGED <<loaded, marked, saved, place, inbox, remote, events, local, values,
                           stuck>>
            /\ place[P!Loop] = "wait"
        BY <3>2 DEF P!TryFails, P!At
      <4>2. online' => online
        BY <3>2, Zenon DEF P!TryFails
      <4>. QED
        BY <4>1, <4>2
    <3>. QED
      BY <1>3, <3>1, <3>2
  <2>2. P!LastRemoteValue' = P!LastRemoteValue
    BY <2>1 DEF P!LastRemoteValue
  <2>3. place[P!Loop] \in {"wait", "events"} \/ online
    BY <1>p DEF LoopPlaces
  <2>4. CASE place[P!Loop] \in {"wait", "events"}
    <3>1. LoopPlaces' /\ NotLoaded' /\ MarksGone'
      BY <1>p, <2>1, <2>4 DEF LoopPlaces, NotLoaded, MarksGone
    <3>2. CASE ~online'
      BY <2>1, <2>4, <3>1, <3>2, NotFollowed
    <3>3. CASE online'
      BY <1>t, <2>1, <2>2, <2>4, <3>3, StaysFollowed
    <3>. QED
      BY <3>2, <3>3
  <2>5. CASE place[P!Loop] \notin {"wait", "events"}
    BY <1>t, <2>1, <2>2, <2>3, <2>5, StaysFollowed
  <2>. QED
    BY <2>4, <2>5
<1>4. CASE P!Forgotten
  <2>1. ~online /\ UNCHANGED <<loaded, marked, saved, place, inbox, online, stuck>>
    BY <1>4 DEF P!Forgotten
  <2>2. LoopPlaces' /\ NotLoaded' /\ MarksGone' /\ place'[P!Loop] \in {"wait", "events"}
    BY <1>p, <2>1 DEF LoopPlaces, NotLoaded, MarksGone
  <2>. QED
    BY <2>1, <2>2, NotFollowed
<1>5. CASE P!ReadValue
  <2>1. /\ values # <<>> /\ local' = [local EXCEPT !["value"] = P!Last(values)]
        /\ values' = P!Front(values)
        /\ UNCHANGED <<loaded, marked, saved, place, inbox, online, remote, events, stuck>>
    BY <1>5 DEF P!ReadValue
  <2>2. local'["device"] = local["device"] /\ local'["port"] = local["port"]
        /\ local'["value"] = P!Last(values)
    BY <2>1 DEF SlaveTypes
  <2>3. /\ P!Front(values) = <<>> => P!Last(values) = Head(values)
        /\ P!Front(values) # <<>> => Head(P!Front(values)) = Head(values)
    BY <2>1, FrontFacts DEF SlaveTypes
  <2>4. P!LastRemoteValue' = P!LastRemoteValue
    BY <2>1, <2>2, <2>3 DEF P!LastRemoteValue
  <2>5. place[P!Loop] \in {"wait", "events"} \/ online
    BY <1>p DEF LoopPlaces
  <2>. QED
    BY <1>t, <2>1, <2>2, <2>4, <2>5, StaysFollowed
<1>6. CASE P!Listened
  <2>1. /\ place[P!Loop] = "wait" /\ P!GoTo(P!Loop, "events")
        /\ inbox' = events /\ events' = <<>>
        /\ UNCHANGED <<remote, local, values, marked, loaded, saved, online, stuck>>
    BY <1>6 DEF P!Listened, P!At
  <2>2. place'[P!Loop] = "events" /\ LoopPlaces'
    BY <1>p, <2>1, LoopGoes
  <2>3. inbox = <<>> /\ events \in Seq(Event)
    BY <1>p, <2>1 DEF LoopPlaces, SlaveTypes
  <2>4. NotLoaded' /\ MarksGone'
    BY <1>p, <2>1, <2>2 DEF NotLoaded, MarksGone
  <2>5. P!LastRemoteValue' = P!LastRemoteValue
    BY <2>1 DEF P!LastRemoteValue
  <2>6. CASE ~online
    BY <2>1, <2>2, <2>4, <2>6, NotFollowed
  <2>7. CASE online
    <3>1. /\ loaded /\ marked \subseteq stuck
          /\ ComesTo(events, <<>>, {"device"}, "attr", local["device"], remote["device"])
          /\ ComesTo(events, <<>>, {"port"}, "attr", local["port"], remote["port"])
          /\ "value" \in stuck
                \/ ComesTo(events, <<>>, {"port", "value"}, "value", P!LastRemoteValue,
                           remote["value"])
      BY <2>1, <2>3, <2>7 DEF Listens, DeviceFollows, PortFollows, Follows
    <3>2. DeviceFollows'
      BY <2>1, <2>3, <3>1, Receives DEF DeviceFollows, EventsTell
    <3>3. ComesTo(<<>>, events, {"port"}, "attr", local["port"], remote["port"])
      BY <2>3, <3>1, Receives DEF EventsTell
    <3>4. "value" \in stuck
             \/ ComesTo(<<>>, events, {"port", "value"}, "value", P!LastRemoteValue,
                        remote["value"])
      BY <2>3, <3>1, Receives DEF EventsTell
    <3>5. PortFollows'
      BY <2>1, <2>5, <3>1, <3>3, <3>4 DEF PortFollows
    <3>. QED
      BY <2>2, <2>4, <3>2, <3>5 DEF Listens
  <2>. QED
    BY <2>6, <2>7
<1>7. CASE P!HandleEvent
  BY <1>7, <1>t, HandleFollowed
<1>8. CASE P!EventsHandled
  <2>1. /\ place[P!Loop] = "events" /\ inbox = <<>>
        /\ UNCHANGED <<remote, events, local, values, marked, loaded, saved, inbox, stuck>>
    BY <1>8 DEF P!EventsHandled, P!At
  <2>2. CASE online
    <3>1. P!GoTo(P!Loop, "wait") /\ online' = online
      BY <1>8, <2>2 DEF P!EventsHandled, P!GoesOnline
    <3>2. place'[P!Loop] = "wait" /\ LoopPlaces'
      BY <1>p, <2>1, <3>1, LoopGoes
    <3>3. NotLoaded' /\ MarksGone'
      BY <1>p, <2>1, <3>2 DEF NotLoaded, MarksGone
    <3>4. DeviceFollows'
      BY <2>1, <2>2, <3>1, <3>2 DEF Listens, DeviceFollows, Follows
    <3>5. P!LastRemoteValue' = P!LastRemoteValue
      BY <2>1 DEF P!LastRemoteValue
    <3>6. PortFollows'
      BY <2>1, <2>2, <3>1, <3>2, <3>5 DEF Listens, PortFollows, Follows
    <3>. QED
      BY <3>2, <3>3, <3>4, <3>6 DEF Listens
  <2>3. CASE ~online
    <3>1. P!GoTo(P!Loop, "device") /\ online' = TRUE
      BY <1>8, <2>3 DEF P!EventsHandled, P!GoesOnline
    <3>2. place'[P!Loop] = "device" /\ LoopPlaces'
      BY <1>p, <2>1, <3>1, LoopGoes
    <3>3. NotLoaded' /\ MarksGone'
      BY <1>p, <2>1, <3>2 DEF NotLoaded, MarksGone
    <3>. QED
      BY <3>2, <3>3, NotFollowed
  <2>. QED
    BY <2>2, <2>3
<1>9. CASE P!Written
  <2>1. /\ telling \in Nat /\ values' = <<telling>> \o values
        /\ UNCHANGED <<remote, events, local, marked, loaded, saved, online, inbox, place>>
        /\ stuck' = IF \/ remote["value"] = telling
                       \/ \E e \in P!ToSet(events \o inbox) :
                             e.of # "device" /\ e.value = remote["value"]
                    THEN stuck ELSE stuck \cup {"value"}
    BY <1>9 DEF P!Written, SlaveTypes
  <2>2. LoopPlaces' /\ NotLoaded' /\ MarksGone'
    BY <1>p, <2>1 DEF LoopPlaces, NotLoaded, MarksGone
  <2>3. \A fetched : Follows(fetched)' <=> Follows(fetched)
    BY <2>1 DEF Follows
  <2>4. DeviceFollows'
    BY <2>1, <2>3 DEF Listens, DeviceFollows
  <2>5. P!LastRemoteValue' = telling
    <3>1. <<telling>> \in Seq(Nat) /\ Len(<<telling>>) = 1 /\ <<telling>>[1] = telling
      BY <2>1
    <3>2. /\ values' \in Seq(Nat) /\ Len(values') = 1 + Len(values)
          /\ \A k \in 1..Len(values') :
                values'[k] = IF k <= 1 THEN <<telling>>[k] ELSE values[k - 1]
      BY <2>1, <3>1, ConcatProperties DEF SlaveTypes
    <3>3. Len(values) \in Nat
      BY LenProperties DEF SlaveTypes
    <3>4. values' # <<>> /\ values'[1] = telling
      BY <3>1, <3>2, <3>3, EmptySeq
    <3>. QED
      BY <3>2, <3>4, HeadTailProperties DEF P!LastRemoteValue
  <2>6. PortFollows'
    <3>1. SUFFICES ASSUME Follows({"end"})
                   PROVE  /\ loaded /\ marked \subseteq stuck'
                          /\ ComesTo(events, inbox, {"port"}, "attr", local["port"],
                                     remote["port"])
                          /\ "value" \in stuck'
                                \/ ComesTo(events, inbox, {"port", "value"}, "value", telling,
                                           remote["value"])
      BY <2>1, <2>3, <2>5 DEF PortFollows
    <3>2. /\ loaded /\ marked \subseteq stuck
          /\ ComesTo(events, inbox, {"port"}, "attr", local["port"], remote["port"])
          /\ "value" \in stuck
                \/ ComesTo(events, inbox, {"port", "value"}, "value", P!LastRemoteValue,
                           remote["value"])
      BY <3>1 DEF Listens, PortFollows
    <3>3. stuck \subseteq stuck'
      BY <2>1
    <3>4. ASSUME "value" \notin stuck'
          PROVE  ComesTo(events, inbox, {"port", "value"}, "value", telling, remote["value"])
      <4>1. ComesTo(events, inbox, {"port", "value"}, "value", P!LastRemoteValue,
                    remote["value"])
        BY <3>2, <3>3, <3>4
      <4>2. /\ events \in Seq(Event) /\ inbox \in Seq(Event)
        BY DEF SlaveTypes
      <4>3. \/ remote["value"] = telling
            \/ \E e \in P!ToSet(events \o inbox) : e.of # "device"
        BY <2>1, <3>4
      <4>4. CASE remote["value"] = telling
        BY <4>1, <4>2, <4>4, Replaced
      <4>5. ASSUME NEW e \in P!ToSet(events \o inbox), e.of # "device"
            PROVE  \/ \E m \in DOMAIN events : events[m].of \in {"port", "value"}
                   \/ \E m \in DOMAIN inbox : inbox[m].of \in {"port", "value"}
        <5>1. PICK k \in DOMAIN (events \o inbox) : e = (events \o inbox)[k]
          BY <4>5 DEF P!ToSet
        <5>2. /\ events \o inbox \in Seq(Event)
              /\ Len(events \o inbox) = Len(events) + Len(inbox)
              /\ \A j \in 1..Len(events \o inbox) :
                    (events \o inbox)[j] = IF j <= Len(events) THEN events[j]
                                           ELSE inbox[j - Len(events)]
          BY <4>2, ConcatProperties
        <5>3. /\ Len(events) \in Nat /\ DOMAIN events = 1..Len(events)
              /\ Len(inbox) \in Nat /\ DOMAIN inbox = 1..Len(inbox)
              /\ DOMAIN (events \o inbox) = 1..Len(events \o inbox)
          BY <4>2, <5>2, LenProperties
        <5>4. e \in Event
          BY <5>1, <5>2, <5>3, ElementOfSeq
        <5>5. e.of \in {"port", "value"}
          BY <4>5, <5>4 DEF Event
        <5>6. CASE k <= Len(events)
          <6>1. k \in DOMAIN events /\ e = events[k]
            BY <5>1, <5>2, <5>3, <5>6
          <6>. QED
            BY <5>5, <6>1
        <5>7. CASE ~(k <= Len(events))
          <6>1. k - Len(events) \in DOMAIN inbox /\ e = inbox[k - Len(events)]
            BY <5>1, <5>2, <5>3, <5>7
          <6>. QED
            BY <5>5, <6>1
        <5>. QED
          BY <5>6, <5>7
      <4>6. CASE \E e \in P!ToSet(events \o inbox) : e.of # "device"
        BY <4>1, <4>2, <4>5, <4>6, Replaced
      <4>. QED
        BY <4>3, <4>4, <4>6
    <3>. QED
      BY <3>2, <3>3, <3>4
  <2>. QED
    BY <2>2, <2>4, <2>6 DEF Listens
<1>10. ASSUME NEW r \in Run, NEW i \in P!Item, P!Send(r, i) PROVE Listens'
  <2>1. /\ UNCHANGED <<remote, events, local, values, marked, loaded, saved, inbox, stuck, place,
                       online>>
    BY <1>10 DEF P!Send
  <2>2. P!LastRemoteValue' = P!LastRemoteValue
    BY <2>1 DEF P!LastRemoteValue
  <2>3. place[P!Loop] \in {"wait", "events"} \/ online
    BY <1>p DEF LoopPlaces
  <2>. QED
    BY <1>t, <2>1, <2>2, <2>3, StaysFollowed
<1>11. ASSUME NEW r \in Run, NEW i \in P!Item,
              \/ P!Skip(r, i)
              \/ \E ok, effect \in BOOLEAN : P!Sent(r, i, ok, effect)
       PROVE  Listens'
  <2>1. /\ place[r] = i /\ P!GoTo(r, P!After(i))
        /\ UNCHANGED <<loaded, inbox, online, stuck>>
        /\ \E items \in SUBSET P!Item : P!Save(items)
        /\ \/ ~P!Pending(i) /\ marked' = (IF i = "value" THEN marked \ P!Cleared(i) ELSE marked)
           \/ marked' = marked \ P!Cleared(i)
    <3>1. {} \in SUBSET P!Item /\ P!DeviceItem \in SUBSET P!Item /\ P!PortItem \in SUBSET P!Item
      OBVIOUS
    <3>2. P!SaveAfter(r, i) => \E items \in SUBSET P!Item : P!Save(items)
      BY <3>1 DEF P!SaveAfter
    <3>. QED
      BY <1>11, <3>2 DEF P!Skip, P!Sent, P!At
  <2>2. r = P!Loop /\ online
    BY <1>p, <2>1 DEF LoopPlaces
  <2>3. P!After(i) \in {"webhooks", "port", "value", "query"}
    BY AfterFacts
  <2>4. inbox' = <<>>
    BY <1>p, <2>1, <2>2 DEF LoopPlaces
  <2>5. place'[P!Loop] = P!After(i) /\ LoopPlaces'
    BY <1>p, <2>1, <2>2, <2>3, <2>4, LoopGoes
  <2>6. NotLoaded'
    BY <1>p, <1>t, <2>1, NotLoadedStep
  <2>7. MarksGone'
    <3>1. marked' \subseteq marked
      BY <2>1
    <3>2. local["device"] # None /\ local["webhooks"] # None
      BY DEF SlaveTypes
    <3>3. CASE i = "device"
      <4>1. "device" \notin marked'
        BY <2>1, <3>2, <3>3 DEF P!Pending, P!Cleared
      <4>. QED
        BY <2>5, <3>3, <4>1, AfterFacts DEF MarksGone
    <3>4. CASE i = "webhooks"
      <4>1. "webhooks" \notin marked' /\ "device" \notin marked'
        BY <1>p, <2>1, <2>2, <3>1, <3>2, <3>4 DEF P!Pending, P!Cleared, MarksGone
      <4>. QED
        BY <2>5, <3>4, <4>1, AfterFacts DEF MarksGone
    <3>5. CASE i = "port"
      <4>1. "webhooks" \notin marked' /\ "device" \notin marked'
        BY <1>p, <2>1, <2>2, <3>1, <3>5 DEF MarksGone
      <4>. QED
        BY <2>5, <3>5, <4>1, AfterFacts DEF MarksGone
    <3>6. CASE i = "value"
      <4>1. "webhooks" \notin marked' /\ "device" \notin marked'
        BY <1>p, <2>1, <2>2, <3>1, <3>6 DEF MarksGone
      <4>2. marked' \cap P!PortItem = {}
        <5>1. marked' = marked \ P!Cleared("value")
          BY <2>1, <3>6
        <5>2. CASE loaded
          BY <5>1, <5>2 DEF P!Cleared
        <5>3. CASE ~loaded
          BY <1>p, <3>1, <5>3 DEF NotLoaded
        <5>. QED
          BY <5>2, <5>3
      <4>. QED
        BY <2>5, <3>6, <4>1, <4>2, AfterFacts DEF MarksGone
    <3>. QED
      BY <3>3, <3>4, <3>5, <3>6
  <2>. QED
    BY <2>3, <2>5, <2>6, <2>7, NotFollowed
<1>12. ASSUME NEW r \in Run, P!Query(r) PROVE Listens'
  <2>1. /\ place[r] = "query" /\ P!GoTo(r, "fetch")
        /\ UNCHANGED <<loaded, marked, inbox, online, stuck>>
        /\ saved' = saved \/ P!Save(P!DeviceItem)
    BY <1>12 DEF P!Query, P!At
  <2>2. r = P!Loop /\ online
    BY <1>p, <2>1 DEF LoopPlaces
  <2>3. place'[P!Loop] = "fetch" /\ LoopPlaces'
    BY <1>p, <2>1, <2>2, LoopGoes DEF LoopPlaces
  <2>4. NotLoaded'
    BY <1>p, <1>t, <2>1, NotLoadedStep
  <2>5. MarksGone'
    BY <1>p, <2>1, <2>2, <2>3 DEF MarksGone
  <2>. QED
    BY <2>3, <2>4, <2>5, NotFollowed
<1>13. ASSUME NEW r \in Run, P!FetchDevice(r) PROVE Listens'
  <2>1. /\ place[r] = "fetch" /\ P!GoTo(r, "fetchPorts")
        /\ local' = [local EXCEPT !["device"] = remote["device"]]
        /\ UNCHANGED <<loaded, marked, inbox, online, stuck, remote, saved, events>>
    BY <1>13 DEF P!FetchDevice, P!At
  <2>2. r = P!Loop /\ online /\ inbox = <<>>
    BY <1>p, <2>1 DEF LoopPlaces
  <2>3. place'[P!Loop] = "fetchPorts" /\ LoopPlaces'
    BY <1>p, <2>1, <2>2, LoopGoes
  <2>4. NotLoaded' /\ MarksGone'
    BY <1>p, <2>1, <2>2, <2>3 DEF NotLoaded, MarksGone
  <2>5. local'["device"] = remote["device"]
    BY <2>1 DEF SlaveTypes
  <2>6. DeviceFollows'
    BY <2>1, <2>2, <2>5, Fetched DEF DeviceFollows
  <2>7. PortFollows'
    BY <2>3 DEF PortFollows, Follows
  <2>. QED
    BY <2>3, <2>4, <2>6, <2>7 DEF Listens
<1>14. ASSUME NEW r \in Run, P!FetchPorts(r) PROVE Listens'
  <2>1. /\ place[r] = "fetchPorts" /\ P!GoTo(r, "end")
        /\ UNCHANGED <<inbox, online, stuck, remote, events>>
    BY <1>14 DEF P!FetchPorts, P!At
  <2>2. r = P!Loop /\ online /\ inbox = <<>>
    BY <1>p, <2>1 DEF LoopPlaces
  <2>3. place'[P!Loop] = "end" /\ LoopPlaces'
    BY <1>p, <2>1, <2>2, LoopGoes
  <2>4. /\ local'["device"] = local["device"] /\ local'["port"] = remote["port"]
        /\ P!LastRemoteValue' = remote["value"] /\ loaded'
        /\ marked' \subseteq marked \cup (saved.marked \cap P!PortItem)
        /\ (loaded => marked' = marked)
    <3>1. remote["value"] \in Nat
      BY DEF SlaveTypes
    <3>2. CASE ~loaded
      <4>1. P!AddPort
        BY <1>14, <3>2 DEF P!FetchPorts
      <4>2. values' = <<remote["value"]>> /\ Len(<<remote["value"]>>) = 1
        BY <4>1 DEF P!AddPort
      <4>3. values' # <<>> /\ Head(values') = remote["value"]
        BY <4>2
      <4>4. P!LastRemoteValue' = remote["value"]
        BY <4>3 DEF P!LastRemoteValue
      <4>. QED
        BY <3>2, <4>1, <4>4 DEF P!AddPort, SlaveTypes
    <3>3. CASE loaded
      <4>1. /\ local' = [local EXCEPT !["port"] = remote["port"]]
            /\ values' = <<remote["value"]>> \o values
            /\ UNCHANGED <<loaded, marked>>
        BY <1>14, <3>3 DEF P!FetchPorts, P!HandlePortUpdate
      <4>2. <<remote["value"]>> \in Seq(Nat) /\ Len(<<remote["value"]>>) = 1
            /\ <<remote["value"]>>[1] = remote["value"]
        BY <3>1
      <4>3. /\ values' \in Seq(Nat) /\ Len(values') = 1 + Len(values)
            /\ \A k \in 1..Len(values') :
                  values'[k] = IF k <= 1 THEN <<remote["value"]>>[k] ELSE values[k - 1]
        BY <4>1, <4>2, ConcatProperties DEF SlaveTypes
      <4>4. Len(values) \in Nat
        BY LenProperties DEF SlaveTypes
      <4>5. values' # <<>> /\ values'[1] = remote["value"]
        BY <4>2, <4>3, <4>4, EmptySeq
      <4>6. P!LastRemoteValue' = remote["value"]
        BY <4>3, <4>5, HeadTailProperties DEF P!LastRemoteValue
      <4>. QED
        BY <3>3, <4>1, <4>6 DEF SlaveTypes
    <3>. QED
      BY <3>2, <3>3
  <2>5. NotLoaded' /\ MarksGone'
    BY <2>3, <2>4 DEF NotLoaded, MarksGone
  <2>6. DeviceFollows'
    <3>1. ComesTo(events, inbox, {"device"}, "attr", local["device"], remote["device"])
      BY <2>1, <2>2 DEF Listens, DeviceFollows, Follows
    <3>. QED
      BY <2>1, <2>4, <3>1 DEF DeviceFollows
  <2>7. PortFollows'
    <3>1. marked' \subseteq stuck
      <4>1. marked \cap P!PortItem = {} /\ "device" \notin marked /\ "webhooks" \notin marked
        BY <1>p, <2>1, <2>2 DEF MarksGone
      <4>2. marked = {}
        BY <4>1 DEF SlaveTypes
      <4>3. ~loaded => saved.marked \cap P!PortItem \subseteq stuck
        BY <1>p DEF NotLoaded
      <4>. QED
        BY <2>4, <4>2, <4>3
    <3>2. ComesTo(events, <<>>, {"port"}, "attr", local'["port"], remote["port"])
      BY <2>4, Fetched
    <3>3. ComesTo(events, <<>>, {"port", "value"}, "value", P!LastRemoteValue', remote["value"])
      BY <2>4, Fetched
    <3>. QED
      BY <2>1, <2>2, <2>4, <3>1, <3>2, <3>3 DEF PortFollows
  <2>. QED
    BY <2>3, <2>5, <2>6, <2>7 DEF Listens
<1>15. ASSUME NEW r \in Run, P!FetchFails(r) PROVE Listens'
  <2>1. /\ place[r] \in {"fetch", "fetchPorts"} /\ P!GoTo(r, "wait") /\ online' = FALSE
        /\ UNCHANGED <<loaded, marked, inbox, stuck, saved>>
    BY <1>15 DEF P!FetchFails
  <2>2. r = P!Loop /\ inbox = <<>>
    BY <1>p, <2>1 DEF LoopPlaces
  <2>3. place'[P!Loop] = "wait" /\ LoopPlaces'
    BY <1>p, <2>1, <2>2, LoopGoes
  <2>4. NotLoaded' /\ MarksGone'
    BY <1>p, <2>1, <2>3 DEF NotLoaded, MarksGone
  <2>. QED
    BY <2>1, <2>3, <2>4, NotFollowed
<1>16. ASSUME NEW r \in Run, P!Ends(r) PROVE Listens'
  <2>1. /\ place[r] = "end" /\ P!GoTo(r, "wait")
        /\ UNCHANGED <<loaded, marked, inbox, online, stuck, local, values, remote, events>>
        /\ P!Save(P!DeviceItem)
    BY <1>16 DEF P!Ends, P!At
  <2>2. r = P!Loop /\ inbox = <<>>
    BY <1>p, <2>1 DEF LoopPlaces
  <2>3. place'[P!Loop] = "wait" /\ LoopPlaces'
    BY <1>p, <2>1, <2>2, LoopGoes
  <2>4. NotLoaded'
    BY <1>p, <1>t, <2>1, NotLoadedStep
  <2>5. MarksGone'
    BY <2>3 DEF MarksGone
  <2>6. P!LastRemoteValue' = P!LastRemoteValue
    BY <2>1 DEF P!LastRemoteValue
  <2>7. DeviceFollows' /\ PortFollows'
    BY <2>1, <2>2, <2>6 DEF Listens, DeviceFollows, PortFollows, Follows
  <2>. QED
    BY <2>3, <2>4, <2>5, <2>7 DEF Listens
<1>17. CASE P!Restart
  <2>1. /\ loaded' = FALSE /\ online' = FALSE /\ inbox' = <<>> /\ saved' = saved
        /\ marked' = saved.marked \cap P!DeviceItem
        /\ stuck' = stuck \cup (saved.marked \cap P!PortItem)
        /\ place' = [r \in Run |-> "wait"]
    BY <1>17 DEF P!Restart
  <2>2. LoopPlaces' /\ NotLoaded' /\ MarksGone' /\ place'[P!Loop] = "wait"
    BY <2>1 DEF LoopPlaces, NotLoaded, MarksGone
  <2>. QED
    BY <2>1, <2>2, NotFollowed
<1>18. CASE UNCHANGED P!vars
  <2>1. P!LastRemoteValue' = P!LastRemoteValue
    BY <1>18 DEF P!vars, P!LastRemoteValue
  <2>2. place[P!Loop] \in {"wait", "events"} \/ online
    BY <1>p DEF LoopPlaces
  <2>. QED
    BY <1>18, <1>t, <2>1, <2>2, StaysFollowed DEF P!vars
<1>19. ~P!Polled /\ ~P!PolledPorts /\ ~P!PollingPortsFails /\ ~P!Post
       /\ \A r \in Run : ~P!Begin(r)
  BY <1>p DEF P!Polled, P!PolledPorts, P!PollingPortsFails, P!Post, P!Begin, P!At, LoopPlaces
<1>. QED
  BY <1>1, <1>2, <1>3, <1>4, <1>5, <1>6, <1>7, <1>8, <1>9, <1>10, <1>11, <1>12, <1>13, <1>14,
     <1>15, <1>16, <1>17, <1>18, <1>19 DEF P!Next

\* The invariant at the start.
LEMMA SlaveInvInit == P!Init => SlaveInv
<1>. SUFFICES ASSUME P!Init PROVE SlaveInv
  OBVIOUS
<1>. USE SlaveFacts
<1>1. SlaveTypes
  BY SlaveTypesInit
<1>2. /\ wanted = [i \in P!Item |-> 0] /\ remote = [i \in P!Item |-> 0] /\ local = remote
      /\ place = [r \in Run |-> "wait"] /\ sending = [r \in Run |-> None]
      /\ events = <<>> /\ inbox = <<>> /\ online = FALSE /\ loaded = TRUE /\ marked = {}
  BY DEF P!Init
<1>3. \A i \in Asked : wanted[i] = 0 /\ Settled(i)
  BY <1>2 DEF Asked, Settled
<1>4. P!ChangesArrive
  BY <1>3 DEF P!ChangesArrive, Asked
<1>5. Waits
  BY <1>2, <1>3 DEF Waits, TellsWanted, Passed, OnDisk
<1>6. EventsTell
  BY <1>2, LeadsEmpty DEF EventsTell
<1>7. Listens
  BY <1>2 DEF Listens, LoopPlaces, NotLoaded, MarksGone, DeviceFollows, PortFollows, Follows
<1>. QED
  BY <1>1, <1>4, <1>5, <1>6, <1>7 DEF SlaveInv

\* Every step keeps the invariant.
LEMMA SlaveInvStep == SlaveInv /\ [P!Next]_P!vars => SlaveInv'
<1>. SUFFICES ASSUME SlaveInv, [P!Next]_P!vars PROVE SlaveInv'
  OBVIOUS
<1>1. SlaveTypes' /\ P!ChangesArrive' /\ Waits' /\ EventsTell'
  BY SlaveTypesStep, ChangesStep, EventsTellStep DEF SlaveInv
<1>2. mode' = mode
  BY DEF P!Next, P!vars, P!RemoteChange, P!ChangeOffline, P!ChangeOnline, P!Goes, P!Comes,
         P!Forgotten, P!Written, P!ReadValue, P!TryFails, P!Listened, P!HandleEvent,
         P!EventsHandled, P!Polled, P!PolledPorts, P!PollingPortsFails, P!Post, P!Begin,
         P!Query, P!FetchDevice, P!FetchPorts, P!FetchFails, P!Ends, P!Send, P!Skip, P!Sent,
         P!Restart
<1>3. mode' = "listen" => Listens'
  BY <1>2, ListensStep DEF SlaveInv
<1>. QED
  BY <1>1, <1>3 DEF SlaveInv

\* It implies what is promised.
LEMMA SlaveInvImplies == SlaveInv => ProvisioningHolds
<1>. SUFFICES ASSUME SlaveInv PROVE ProvisioningHolds
  OBVIOUS
<1>1. ASSUME mode = "listen", online, P!At(P!Loop, "wait"), events = <<>>
      PROVE  /\ loaded /\ local["device"] = remote["device"] /\ local["port"] = remote["port"]
             /\ "value" \notin stuck => P!LastRemoteValue = remote["value"]
             /\ marked \subseteq stuck
  <2>1. place[P!Loop] = "wait" /\ inbox = <<>>
    BY <1>1 DEF P!At, SlaveInv, Listens, LoopPlaces
  <2>2. /\ loaded /\ marked \subseteq stuck
        /\ ComesTo(<<>>, <<>>, {"device"}, "attr", local["device"], remote["device"])
        /\ ComesTo(<<>>, <<>>, {"port"}, "attr", local["port"], remote["port"])
        /\ "value" \in stuck
              \/ ComesTo(<<>>, <<>>, {"port", "value"}, "value", P!LastRemoteValue,
                         remote["value"])
    BY <1>1, <2>1 DEF SlaveInv, Listens, DeviceFollows, PortFollows, Follows
  <2>3. \A kinds, field, current, v :
           ComesTo(<<>>, <<>>, kinds, field, current, v) => current = v
    BY LeadsEmpty DEF ComesTo
  <2>. QED
    BY <2>2, <2>3
<1>2. P!FollowsDevice
  BY <1>1 DEF P!FollowsDevice
<1>. QED
  BY <1>2 DEF SlaveInv, ProvisioningHolds, P!ProvisioningHolds

\* A change made while the device is offline waits as the user made it, on the disk as well, until
\* the device has had it; and the caches of a device that is listened to and online come to what
\* it has, with nothing left to be provisioned (apply_provisioning(), _handle_online()).
THEOREM ProvisioningCorrect == MCSpec => []ProvisioningHolds
<1>1. MCInit => SlaveInv
  BY SlaveInvInit DEF MCInit
<1>2. SlaveInv /\ [MCNext]_AllVars => SlaveInv'
  <2>1. [MCNext]_AllVars => [P!Next]_P!vars
    BY DEF MCNext, Json, Port, Slave, AllVars, P0, P!vars, P!device, P!caches, P!link, P!tasks,
           P!bounds, P!history
  <2>. QED
    BY <2>1, SlaveInvStep
<1>. QED
  BY <1>1, <1>2, SlaveInvImplies, PTL DEF MCSpec
=============================================================================
