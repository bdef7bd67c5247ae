------------------------------ MODULE PortSave ------------------------------
(***************************************************************************)
(* What a port keeps on disk of its write pipeline, and what it finds      *)
(* there after a crash: the queued values and the last written value       *)
(* (to_persisted, from_persisted, save, save_asap and save_loop of         *)
(* core/ports.py; the port's attributes are left out).                     *)
(*                                                                         *)
(* The save loop saves a port that has asked for it; API calls save it     *)
(* directly.  A save takes a snapshot and hands it to the persistence      *)
(* driver, which may suspend (PostgreSQL does) while the port goes on.     *)
(***************************************************************************)
EXTENDS PortWrite

CONSTANTS
    Saver,          \* tasks that save: SaveLoop and API calls
    SaveLoop,
    MaxCrashes      \* bound on the number of crashes

VARIABLES
    disk,           \* the port's record in the persistence database
    saver,          \* saver[s]: where save() is suspended in task s
    snapshot,       \* the record the holder of _save_lock is storing (else: disk)
    missed,         \* history: a save_asap() fell within the last save
    crashes

saveVars == <<disk, saver, snapshot, missed, crashes>>
vars == <<portVars, saveVars>>

Record == [queue : {q \in Seq(Request) : Len(q) <= WriteQueueSize}, lastWritten : OptRequest]

\* to_persisted(): queued values without the one being written, and no future.
ToPersisted == [queue |-> queue, lastWritten |-> lastWritten]

SaveInit ==
    /\ Init
    /\ disk = ToPersisted
    /\ saver = [s \in Saver |-> "idle"]
    /\ snapshot = ToPersisted
    /\ missed = FALSE
    /\ crashes = 0

\* Mutant: saves do not exclude each other.
SaveLockNot == TRUE

\* _save_lock is free.
SaveLockFree == \A s \in Saver : saver[s] # "replace"

-----------------------------------------------------------------------------
\* save() is called: by the save loop for a port that is_pending_save(), by an API
\* call after whatever it changed.  _save_lock is free or it waits.
SaveCalled(s) ==
    /\ OthersRun
    /\ saver[s] = "idle"
    /\ s = SaveLoop => pendingSave
    /\ \/ /\ SaveLockFree
          /\ \A o \in Saver : saver[o] # "lock"
          /\ saver' = [saver EXCEPT ![s] = "replace"]
          /\ snapshot' = ToPersisted
       \/ /\ ~SaveLockFree
          /\ saver' = [saver EXCEPT ![s] = "lock"]
          /\ UNCHANGED snapshot
    /\ UNCHANGED <<portVars, disk, missed, crashes>>

\* A save that waited gets the lock and takes its snapshot now.
SaveLockGranted(s) ==
    /\ OthersRun
    /\ saver[s] = "lock"
    /\ SaveLockFree
    /\ saver' = [saver EXCEPT ![s] = "replace"]
    /\ snapshot' = ToPersisted
    /\ UNCHANGED <<portVars, disk, missed, crashes>>

\* persist.replace returns: the lock is released and _pending_save is cleared, also
\* when the port has changed since the snapshot.
SaveDone(s) ==
    /\ OthersRun
    /\ saver[s] = "replace"
    /\ disk' = snapshot
    /\ saver' = [saver EXCEPT ![s] = "idle"]
    /\ pendingSave' = FALSE
    /\ missed' = (snapshot # ToPersisted)
    /\ UNCHANGED <<submitted, queue, fut, phase, loopVars, lockVars,
                   lastWritten, delivered, snapshot, crashes>>

\* persist.replace raises: the port stays marked.
SaveFails(s) ==
    /\ OthersRun
    /\ saver[s] = "replace"
    /\ saver' = [saver EXCEPT ![s] = "idle"]
    /\ snapshot' = disk
    /\ UNCHANGED <<portVars, disk, missed, crashes>>

-----------------------------------------------------------------------------
\* The process is killed and started again: from_persisted() restores the queue
\* and the last written value; a store under way may have reached the disk, a
\* write under way the hardware.
CrashAndLoad ==
    /\ OthersRun
    /\ crashes < MaxCrashes
    /\ crashes' = crashes + 1
    /\ disk' \in {disk} \cup (IF SaveLockFree THEN {} ELSE {snapshot})
    /\ queue' = disk'.queue
    /\ lastWritten' = disk'.lastWritten
    /\ delivered' \in {delivered, delivered \cup {r \in Request : phase[r] = "write"}}
    /\ fut' = [r \in Request |-> "none"]
    /\ phase' = [r \in Request |->
                    IF r \in ToSet(queue') THEN "queued"
                    ELSE IF phase[r] \in {"queued", "transform", "lock", "write"}
                    THEN "dropped" ELSE phase[r]]
    /\ loop' = "sleep"
    /\ cur' = 0
    /\ cancelling' = FALSE
    /\ holder' = 0
    /\ waiters' = <<>>
    /\ writing' = 0
    /\ pendingSave' = FALSE
    /\ saver' = [s \in Saver |-> "idle"]
    /\ missed' = FALSE
    /\ snapshot' = disk'
    /\ UNCHANGED submitted

SaveNext ==
    \/ Next /\ UNCHANGED saveVars
    \/ \E s \in Saver :
          SaveCalled(s) \/ SaveLockGranted(s) \/ SaveDone(s) \/ SaveFails(s)
    \/ CrashAndLoad

SaveSpec == SaveInit /\ [][SaveNext]_vars

-----------------------------------------------------------------------------
\* The port's state and the saving tasks' are as the code can leave them.
SaveTypeOK ==
    /\ TypeOK
    /\ disk \in Record
    /\ saver \in [Saver -> {"idle", "lock", "replace"}]
    /\ snapshot \in Record
    /\ missed \in BOOLEAN
    /\ crashes \in 0..MaxCrashes

\* A port that asks for no save loses no queued value in a crash, whatever the
\* loop, the callers and the transforms do, unless a save_asap() fell within a
\* save and was cleared by its end.
QueuedValuesSurvive ==
    ~pendingSave /\ ~missed => ToSet(queue) \subseteq ToSet(disk.queue)

\* A working port that asks for no save and has no value in hand is on disk as it
\* is: a restart neither forgets a queued value nor writes an old one again.  ("No need to
\* call save_asap() as it will be called indirectly by transform_and_write_value()",
\* _write_loop.)
DiskCurrent ==
    ~pendingSave /\ ~missed /\ loop \in {"sleep", "backoff"} => disk = ToPersisted

\* Saves are ordered by their snapshots: while one stores its record no other does,
\* so that no older record ever replaces a newer one.
OneSaveAtATime ==
    \A s, t \in Saver : saver[s] = "replace" /\ saver[t] = "replace" => s = t

\* All three.
SavesHold == SaveTypeOK /\ QueuedValuesSurvive /\ OneSaveAtATime
=============================================================================
