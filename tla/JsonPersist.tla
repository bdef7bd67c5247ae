---------------------------- MODULE JsonPersist ----------------------------
(***************************************************************************)
(* The JSON persistence driver (drivers/persist/json.py): every change is  *)
(* made in memory and then the whole database is written to its file, the  *)
(* former file having been renamed to the backup.                          *)
(*                                                                         *)
(* _save does not await, so nothing else runs meanwhile; but the process   *)
(* may be killed, and a step of the save may raise, at any point.          *)
(*                                                                         *)
(* The database is the set of the changes it contains, a change being an   *)
(* insert, update, replace or remove.  Power loss, which may undo what was *)
(* written without fsync, is not considered.                               *)
(***************************************************************************)
EXTENDS Integers, FiniteSets

CONSTANTS
    UseBackup,      \* the driver's use_backup
    MaxChanges,     \* bound on the number of changes
    MaxCrashes      \* bound on the number of crashes

ASSUME BoundsAssumption ==
    /\ UseBackup \in BOOLEAN
    /\ MaxChanges \in Nat
    /\ MaxCrashes \in Nat

VARIABLES
    made,           \* number of changes made
    mem,            \* _data
    file,           \* the database file
    backup,         \* the backup file
    pc,             \* where _save is, or what became of the process
    crashes,
    acked,          \* history: the changes whose callers were told of success, as
                    \* far as the process still knows them
    failures        \* history: saves that failed or were cut short since the last
                    \* complete one

vars == <<made, mem, file, backup, pc, crashes, acked, failures>>

Change == 1..MaxChanges

\* "torn": a beginning of the JSON text, which does not parse.
Content == [kind : {"missing", "empty", "torn", "whole"}, has : SUBSET Change]
Missing == [kind |-> "missing", has |-> {}]
Empty == [kind |-> "empty", has |-> {}]
Torn == [kind |-> "torn", has |-> {}]
Whole(db) == [kind |-> "whole", has |-> db]

Saving == {"save", "open", "write"}

-----------------------------------------------------------------------------
Init ==
    /\ made = 0
    /\ mem = {}
    /\ file = Missing
    /\ backup = Missing
    /\ pc = "idle"
    /\ crashes = 0
    /\ acked = {}
    /\ failures = 0

\* insert, update, replace, remove: the change is made in memory, then saved.
Modify ==
    /\ pc = "idle"
    /\ made < MaxChanges
    /\ made' = made + 1
    /\ mem' = mem \cup {made + 1}
    /\ pc' = "save"
    /\ UNCHANGED <<file, backup, crashes, acked, failures>>

\* Mutants: the file is left where it is; a backup that exists is kept.
BackUpNot ==
    /\ pc = "save"
    /\ pc' = "open"
    /\ UNCHANGED <<made, mem, file, backup, crashes, acked, failures>>
BackUpOnce ==
    /\ pc = "save"
    /\ IF UseBackup /\ file.kind # "missing" /\ backup.kind = "missing"
       THEN backup' = file /\ file' = Missing
       ELSE UNCHANGED <<file, backup>>
    /\ pc' = "open"
    /\ UNCHANGED <<made, mem, crashes, acked, failures>>

\* _save: the file, if there is one and whatever is in it, becomes the backup.
BackUp ==
    /\ pc = "save"
    /\ IF UseBackup /\ file.kind # "missing"
       THEN backup' = file /\ file' = Missing
       ELSE UNCHANGED <<file, backup>>
    /\ pc' = "open"
    /\ UNCHANGED <<made, mem, crashes, acked, failures>>

\* open(..., "wb").
OpenFile ==
    /\ pc = "open"
    /\ file' = Empty
    /\ pc' = "write"
    /\ UNCHANGED <<made, mem, backup, crashes, acked, failures>>

\* The text is in the file in part.
WriteSome ==
    /\ pc = "write"
    /\ file.kind = "empty"
    /\ file' = Torn
    /\ UNCHANGED <<made, mem, backup, pc, crashes, acked, failures>>

\* All of it is, the file is closed and the operation returns.
WriteRest ==
    /\ pc = "write"
    /\ file' = Whole(mem)
    /\ pc' = "idle"
    /\ acked' = mem
    /\ failures' = 0
    /\ UNCHANGED <<made, mem, backup, crashes>>

\* The rename, the open, dumps() or the write raises: the operation raises to its
\* caller; what it changed in memory stays changed.
SaveFails ==
    /\ pc \in Saving
    /\ pc' = "idle"
    /\ failures' = failures + 1
    /\ UNCHANGED <<made, mem, file, backup, crashes, acked>>

-----------------------------------------------------------------------------
\* The process is killed.
Crash ==
    /\ pc \in {"idle"} \cup Saving
    /\ crashes < MaxCrashes
    /\ crashes' = crashes + 1
    /\ pc' = "down"
    /\ mem' = {}
    /\ failures' = IF pc \in Saving THEN failures + 1 ELSE failures
    /\ UNCHANGED <<made, file, backup, acked>>

\* The content _load takes for the database: a missing or an empty file is an empty
\* database; the backup is read only when the file does not parse.
Loaded ==
    CASE file.kind \in {"missing", "empty"} -> Whole({})
      [] file.kind = "whole" -> file
      [] file.kind = "torn" -> IF UseBackup THEN backup ELSE file

\* The process is started again; when neither file parses, or the backup is missing,
\* it does not start.
Load ==
    /\ pc = "down"
    /\ \/ /\ Loaded.kind = "whole"
          /\ mem' = Loaded.has
          /\ acked' = acked \cap Loaded.has
          /\ pc' = "idle"
       \/ /\ Loaded.kind # "whole"
          /\ pc' = "broken"
          /\ UNCHANGED <<mem, acked>>
    /\ UNCHANGED <<made, file, backup, crashes, failures>>

Next ==
    \/ Modify
    \/ BackUp
    \/ OpenFile
    \/ WriteSome
    \/ WriteRest
    \/ SaveFails
    \/ Crash
    \/ Load

Spec == Init /\ [][Next]_vars

-----------------------------------------------------------------------------
\* Every variable holds values the code gives it; a file is half-written only while
\* a save is under way or after one that did not complete.
TypeOK ==
    /\ made \in 0..MaxChanges
    /\ mem \subseteq Change
    /\ file \in Content
    /\ backup \in Content
    /\ pc \in {"idle", "down", "broken"} \cup Saving
    /\ crashes \in 0..MaxCrashes
    /\ acked \subseteq Change
    /\ failures \in Nat
    /\ pc \in {"idle", "down"} /\ file.kind \in {"empty", "torn"} => failures > 0

\* What callers were told is stored is on disk whole, in the file or in the backup,
\* when at most one save has failed or was cut short since the last complete one: the
\* point of renaming before writing.  A second one may cost both (the rename replaces
\* the good backup with the half-written file).
AckedOnDisk ==
    UseBackup /\ pc \in {"idle", "down"} /\ failures <= 1 /\ acked # {} =>
        \E f \in {file, backup} : f.kind = "whole" /\ acked \subseteq f.has

\* A restart after at most one such save finds all of it again, provided there is
\* something to find (a first save cut short leaves a database that does not load)
\* and the crash left a file with something in it: "if using a backup, simply log
\* the error and attempt to load from backup file" covers torn files only.
RestartRecovers ==
    [][/\ UseBackup
       /\ pc = "down"
       /\ failures <= 1
       /\ acked # {}
       /\ file.kind \in {"torn", "whole"}
       => pc' = "idle" /\ acked \subseteq mem']_vars

\* Where the copies of acknowledged changes are at each point of a save, for the
\* proof; inductive with TypeOK.
Holds(f) == f.kind = "whole" /\ acked \subseteq f.has
CopiesInv ==
    /\ file.kind = "whole" => Holds(file)
    /\ failures = 0 /\ pc \in {"idle", "down", "save"} => acked = {} \/ Holds(file)
    /\ UseBackup /\ failures = 0 /\ pc \in {"open", "write"} => acked = {} \/ Holds(backup)
    /\ UseBackup /\ failures = 1 /\ pc \in {"idle", "down", "save"} =>
          acked = {} \/ Holds(file) \/ Holds(backup)
=============================================================================
