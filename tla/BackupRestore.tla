----------------------------- MODULE BackupRestore -----------------------------
(***************************************************************************)
(* The backup form and the restore form of a device (common/backup-form.js, *)
(* common/restore-form.js) over the endpoints of api/provisioning.js.       *)
(*                                                                         *)
(* Both make one call per endpoint, in the endpoints' order: a chain of     *)
(* promises, of which todo are the endpoints that remain and stage is where *)
(* the first one stands.  The form may be closed and another file selected  *)
(* while the chain runs; restoring may also change the device's name, which *)
(* the browser, and the master of a slave, learn later.                     *)
(***************************************************************************)
EXTENDS Integers, Sequences, SequencesExt, Queues

CONSTANTS
    Endpoints,      \* number of endpoints; the first one is the device's own, with its name
    MaxSelections,  \* bound on the files a user selects
    MaxRuns         \* bound on the backups or restores of a form

Endpoint == 1..Endpoints
DEVICE == 1
\* The files a user has: what each supplies.  File "renamed" holds another name of the device.
File == {"partial", "renamed", "foreign"}
Supplied(f) == CASE f = "partial" -> Endpoint \ {DEVICE}
                 [] f = "renamed" -> Endpoint
                 [] f = "foreign" -> {}
Renames(f) == f = "renamed"

VARIABLES
    kind,       \* "backup" or "restore"
    main,       \* the device is the main one, not a slave
    offered,    \* the endpoints the form has, {} if they could not be obtained
    open,       \* the form is open
    renamed,    \* the device has the new name
    mastered,   \* the master calls the slave by its new name
    heard,      \* the browser has been told of the new name
    \* the restore form
    shown,      \* the file in the file field
    reading,    \* the files whose text is being read
    content,    \* the file whose content was read, "none" before
    button,     \* the button that starts is enabled
    newName,    \* _newDeviceName is set
    \* the chain
    running,    \* _running
    chosen,     \* the endpoints that were checked when it was started
    todo,       \* the endpoints that remain
    stage,      \* "idle", "next", "later", "call", "done" or "failed"
    target,     \* the name that the call under way, or the reset, was sent to
    sending,    \* the file whose data the call under way has
    mark,       \* mark[e]: what the field of endpoint e shows
    got,        \* the endpoints whose data a backup has
    runs, picks,
    \* history
    source,     \* the file that was shown when the restore was started
    log,        \* what was restored: endpoints with the files that supplied them, in order
    swapped,    \* a file was selected or read while the chain ran
    resets,     \* for each reset after a restore: it was sent to the device's own name
    reports     \* for each backup or restore reported as complete: what it did

form == <<shown, reading, content, button, newName>>
chain == <<running, chosen, todo, stage, target, sending>>
device == <<renamed, mastered, heard>>
vars == <<kind, main, offered, open, device, form, chain, mark, got, runs, picks,
          source, log, swapped, resets, reports>>

\* Names: what the cache knows decides whether a name is the main device's.
DeviceName == IF newName THEN "new" ELSE "old"
IsMainDevice(n) == main /\ n = IF heard THEN "new" ELSE "old"
DeviceIsSlave == ~IsMainDevice("old") /\ ~(newName /\ IsMainDevice("new"))
\* Whom a call reaches: the main device, or the slave by the name its master knows.
Reaches(t) == IF main THEN t = "main" ELSE t = IF mastered THEN "new" ELSE "old"

Endable == stage = "idle"
NoMarks == [e \in Endpoint |-> "none"]

-----------------------------------------------------------------------------
(* Selecting a file *)

\* handleFileSelected(): the marks are cleared, the button disabled, and the text read.
Select(f) ==
    /\ open /\ kind = "restore" /\ picks < MaxSelections /\ f # shown
    /\ shown' = f
    /\ reading' = IF f = "none" THEN reading ELSE reading \cup {f}
    /\ content' = "none" /\ button' = FALSE /\ mark' = NoMarks
    /\ swapped' = (swapped \/ running)
    /\ picks' = picks + 1
    /\ UNCHANGED <<kind, main, offered, open, device, newName, chain, got, runs, source, log,
                   resets, reports>>

\* The text of a file was read; texts arrive in any order.
FileRead(f) ==
    /\ f \in reading
    /\ reading' = reading \ {f}
    /\ IF Supplied(f) \cap offered # {}
       THEN content' = f /\ button' = TRUE
       ELSE UNCHANGED <<content, button>>
    /\ swapped' = (swapped \/ running)
    /\ UNCHANGED <<kind, main, offered, open, device, shown, newName, chain, mark, got, runs,
                   picks, source, log, resets, reports>>

-----------------------------------------------------------------------------
(* The chain *)

\* Those of S, in the order in which the form has them.
Ordered(S) == Filtered([e \in Endpoint |-> e], S)

\* applyData(): the endpoints checked, with a restore those of them that the file supplies.
Start(S) ==
    /\ open /\ button /\ Endable /\ runs < MaxRuns
    /\ running' = TRUE
    /\ chosen' = S /\ todo' = Ordered(S) /\ stage' = "next"
    /\ button' = FALSE /\ got' = {} /\ source' = content /\ log' = <<>> /\ swapped' = FALSE
    /\ runs' = runs + 1
    /\ UNCHANGED <<kind, main, offered, open, device, shown, reading, content, newName, target,
                   sending, mark, picks, resets, reports>>

StartBackup(S) == kind = "backup" /\ S \subseteq offered /\ Start(S)

StartRestore(S) == kind = "restore" /\ button /\ S \subseteq offered \cap Supplied(content) /\ Start(S)

Fails == stage' = "failed" /\ UNCHANGED <<todo, target, sending>>

\* The next endpoint's field shows progress; a content that is gone fails the chain.
PerformBackup ==
    /\ kind = "backup"
    /\ stage' = "later" /\ mark' = [mark EXCEPT ![Head(todo)] = "progress"]
    /\ UNCHANGED <<todo, target, sending>>

\* The data is taken from the content there is now.
PerformRestore ==
    /\ kind = "restore"
    /\ \/ /\ content # "none"
          /\ stage' = "later" /\ mark' = [mark EXCEPT ![Head(todo)] = "progress"]
          /\ sending' = content
          /\ UNCHANGED <<todo, target>>
       \/ content = "none" /\ Fails /\ UNCHANGED mark

\* It is left out once the form was closed.
NextEndpoint ==
    /\ stage = "next" /\ todo # <<>>
    /\ IF running THEN PerformBackup \/ PerformRestore
                  ELSE todo' = Tail(todo) /\ UNCHANGED <<stage, target, sending, mark>>
    /\ UNCHANGED <<kind, main, offered, open, device, form, running, chosen, got, runs, picks,
                   source, log, swapped, resets, reports>>

\* Half a second later the call is made: whether to a slave is decided now.
MakeCall ==
    /\ stage = "later"
    /\ stage' = "call"
    /\ target' = IF ~DeviceIsSlave \/ IsMainDevice(DeviceName) THEN "main" ELSE DeviceName
    /\ UNCHANGED <<kind, main, offered, open, device, form, running, chosen, todo, sending,
                   mark, got, runs, picks, source, log, swapped, resets, reports>>

\* What an endpoint answers to a backup is kept.
BackupDone == got' = got \cup {Head(todo)} /\ UNCHANGED <<newName, renamed, log>>

\* The new name of a device that was restored is remembered.  What the file does not supply is
\* sent without data, and refused.
RestoreDone ==
    LET renames == Head(todo) = DEVICE /\ Renames(sending)
    IN /\ Head(todo) \in Supplied(sending)
       /\ log' = Append(log, <<Head(todo), sending>>)
       /\ newName' = (newName \/ renames)
       /\ renamed' = (renamed \/ renames)
       /\ UNCHANGED got

\* The device has done what it was asked.
CallDone ==
    /\ stage = "call" /\ Reaches(target)
    /\ todo' = Tail(todo) /\ stage' = "next"
    /\ mark' = [mark EXCEPT ![Head(todo)] = "applied"]
    /\ IF kind = "backup" THEN BackupDone ELSE RestoreDone
    /\ UNCHANGED <<kind, main, offered, open, mastered, heard, shown, reading, content, button,
                   running, chosen, target, sending, runs, picks, source, swapped, resets, reports>>

\* Mutant: a call that failed is taken for one that was skipped.
CallFailsOn ==
    /\ stage = "call"
    /\ mark' = [mark EXCEPT ![Head(todo)] = "error"]
    /\ stage' = "next" /\ todo' = Tail(todo)
    /\ UNCHANGED <<kind, main, offered, open, device, form, running, chosen, target, sending,
                   got, runs, picks, source, log, swapped, resets, reports>>

\* It failed, or there was no such device.
CallFails ==
    /\ stage = "call"
    /\ mark' = [mark EXCEPT ![Head(todo)] = "error"]
    /\ Fails
    /\ UNCHANGED <<kind, main, offered, open, device, form, running, chosen, got, runs, picks,
                   source, log, swapped, resets, reports>>

\* What was reported as complete: whether it is all that was asked, of the file that was shown,
\* and whether something came in between.
AllDone == IF kind = "backup" THEN got = chosen
           ELSE log = [i \in DOMAIN Ordered(chosen) |-> <<Ordered(chosen)[i], source>>]
Report ==
    [all |-> AllDone,
     cut |-> ~running, swapped |-> swapped]

\* A restore is reported, and the device reset if so chosen.  A main device whose new name has not
\* come in is taken for a slave.
Reset(reset) ==
    /\ target' = IF IsMainDevice(DeviceName) THEN "main" ELSE DeviceName
    /\ resets' = IF reset THEN resets \cup {Reaches(target')} ELSE resets

\* A backup is downloaded.
Download == UNCHANGED <<target, resets>>

\* At the chain's end the form closes.
Complete(reset) ==
    /\ stage = "next" /\ todo = <<>>
    /\ IF kind = "restore" THEN Reset(reset) ELSE ~reset /\ Download
    /\ stage' = "done" /\ open' = FALSE
    /\ reports' = reports \cup {Report}
    /\ UNCHANGED <<kind, main, offered, device, form, running, chosen, todo, sending, mark,
                   got, runs, picks, source, log, swapped>>

\* The catch: the fields that have no result are marked as skipped.
Skip ==
    /\ stage = "failed"
    /\ stage' = "done"
    /\ mark' = [e \in Endpoint |-> IF e \in chosen /\ mark[e] \notin {"applied", "error"}
                                   THEN "skipped" ELSE mark[e]]
    /\ UNCHANGED <<kind, main, offered, open, device, form, running, chosen, todo, target,
                   sending, got, runs, picks, source, log, swapped, resets, reports>>

\* hideProgress(): only the backup form's button is enabled again.
Enabled == button' = (button \/ kind = "backup")

\* The chain ends.
Ended ==
    /\ stage = "done"
    /\ stage' = "idle" /\ running' = FALSE
    /\ Enabled
    /\ UNCHANGED <<kind, main, offered, open, device, shown, reading, content, newName, chosen,
                   todo, target, sending, mark, got, runs, picks, source, log, swapped, resets,
                   reports>>

\* onClose(): cancelBackup(), cancelRestore().
Close ==
    /\ open
    /\ open' = FALSE /\ running' = FALSE
    /\ UNCHANGED <<kind, main, offered, device, form, chosen, todo, stage, target, sending,
                   mark, got, runs, picks, source, log, swapped, resets, reports>>

-----------------------------------------------------------------------------
(* The new name gets around *)

\* The master of a slave learns it from the slave's event, or by polling.
MasterLearns ==
    /\ ~main /\ renamed /\ ~mastered
    /\ mastered' = TRUE
    /\ UNCHANGED <<kind, main, offered, open, renamed, heard, form, chain, mark, got, runs,
                   picks, source, log, swapped, resets, reports>>

\* The browser is told: a slave is removed and added anew, which closes its forms.
BrowserLearns ==
    /\ ~heard /\ IF main THEN renamed ELSE mastered
    /\ heard' = TRUE
    /\ open' = (open /\ main)
    /\ running' = (running /\ open')
    /\ UNCHANGED <<kind, main, offered, renamed, mastered, form, chosen, todo, stage, target,
                   sending, mark, got, runs, picks, source, log, swapped, resets, reports>>

-----------------------------------------------------------------------------
\* load(): the endpoints could not be obtained, or they are there.
Loaded == offered \in {{}, Endpoint}

Init ==
    /\ kind \in {"backup", "restore"} /\ main \in BOOLEAN
    /\ Loaded
    /\ open = TRUE
    /\ renamed = FALSE /\ mastered = FALSE /\ heard = FALSE
    /\ shown = "none" /\ reading = {} /\ content = "none"
    /\ button = (kind = "backup") /\ newName = FALSE
    /\ running = FALSE /\ chosen = {} /\ todo = <<>> /\ stage = "idle" /\ target = "none"
    /\ sending = "none"
    /\ mark = NoMarks /\ got = {} /\ runs = 0 /\ picks = 0
    /\ source = "none" /\ log = <<>> /\ swapped = FALSE /\ resets = {} /\ reports = {}

ChainStep == \/ NextEndpoint \/ MakeCall \/ CallDone \/ CallFails \/ Skip \/ Ended
             \/ \E reset \in BOOLEAN : Complete(reset)

Next == \/ \E f \in File \cup {"none"} : Select(f)
        \/ \E f \in File : FileRead(f)
        \/ \E S \in SUBSET Endpoint : StartBackup(S) \/ StartRestore(S)
        \/ ChainStep \/ Close \/ MasterLearns \/ BrowserLearns

Spec == Init /\ [][Next]_vars

-----------------------------------------------------------------------------
\* A backup or restore reported as complete has done every endpoint that was checked, in order and
\* from the file that was shown, unless the form was closed or another file selected or read
\* meanwhile (applyData()).
CompleteMeansAll == \A r \in reports : r.all \/ r.cut \/ r.swapped

\* When a chain has ended each field that was checked shows what became of its endpoint,
\* unless the form was closed or the file changed.  A form started again after a failure may
\* keep marks of the time before.
Done == got \cup {entry[1] : entry \in ToSet(log)}
MarksTell ==
    stage = "done" /\ running /\ ~swapped /\ runs = 1 =>
        \A e \in chosen : CASE mark[e] = "applied" -> e \in Done
                            [] mark[e] \in {"error", "skipped"} ->
                                   e \notin Done
                                   /\ \A d \in chosen : mark[d] = "applied" => d < e
                            [] OTHER -> FALSE

\* A backup or restore has done what it says, in its result and in its fields (the two above).
BackupTells == CompleteMeansAll /\ MarksTell

\* The device that was restored is the one that is rebooted after it.
ResetsTheRestored == resets \subseteq {TRUE}
=============================================================================
