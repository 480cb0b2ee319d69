----------------------------- MODULE ConfigJobs -----------------------------
(***************************************************************************)
(* The jobs of Settings > Modules, Settings > Overlay and Mail:            *)
(* core/config/service.py, overlay.py, history.py, mail/service.py and the *)
(* routes that queue them.                                                 *)
(*                                                                         *)
(* A behaviour is about one module of the core, its unit: a job touches    *)
(* the state of its own module only, and the queue runs one at a time.     *)
(* The web search has an overlay file, the mail relay has settings, and    *)
(* the RAG system and the relay have a dependent that must be told of them *)
(* (LibreChat, the Keycloak realm).                                        *)
(*                                                                         *)
(* A revision is the SHA-256 of a file, so it is the content here.  The    *)
(* host may edit the file at any time, between two file operations of a    *)
(* job too; the lock of overlay.py binds only the manager.                 *)
(*                                                                         *)
(* A route is one step: the awaits between its checks and enqueue() let    *)
(* other jobs in front of its own, which is what a queue that already      *)
(* holds them does.                                                        *)
(***************************************************************************)
EXTENDS Naturals, SequencesExt

CONSTANTS
    Units,          \* modules a behaviour may be about
    Contents,       \* overlay files or mail settings
    NoConf,         \* no overlay file, no mail server
    Keep,           \* KEEP, versions kept per overlay file
    MaxQueue,       \* bound: jobs that wait
    MaxEdits        \* bound: edits on the host

ASSUME UnitsAssumption == Units \subseteq {"web-search", "rag", "mail"}
ASSUME NoConfAssumption == NoConf \notin Contents
ASSUME KeepAssumption == Keep \in Nat \ {0}
ASSUME BoundsAssumption == MaxQueue \in Nat /\ MaxEdits \in Nat

VARIABLES
    unit,           \* the module this behaviour is about
    on,             \* its profile is in COMPOSE_PROFILES
    conf,           \* the overlay file, or the mail settings the core stored
    running,        \* what its containers were started with, or "down"
    told,           \* the dependent was last told that the module is on
    data,           \* the named volumes that module-purge deletes exist
    history,        \* overlay-history, newest last
    queue,          \* jobs that wait
    job,            \* the job that runs: its request, and where it is
    edits,          \* bound: edits on the host so far
    trouble         \* history: since the module was last switched without a failure,
                    \* something failed or was changed on the host, or a mail job ran
                    \* for a relay that was switched after the request

stack == <<on, conf, running, told, data>>
vars == <<unit, stack, history, queue, job, edits, trouble>>

Confs == Contents \cup {NoConf}
Scopes == {"keep", "data", "all"}
Request(kind, content, expected, scope, relayOn) ==
    [kind |-> kind, content |-> content, expected |-> expected, scope |-> scope,
     relayOn |-> relayOn]
NoRequest == Request("none", NoConf, NoConf, "keep", FALSE)
Requests == [kind : {"none", "overlay", "enable", "disable", "mail"}, content : Confs,
             expected : Confs, scope : Scopes, relayOn : BOOLEAN]
Steps == {"idle", "read", "check", "rename", "reread", "stop", "start", "undo-check",
          "undo-rename", "undo-start", "setup", "tell", "purge"}
NoJob == [req |-> NoRequest, at |-> "idle", previous |-> NoConf, written |-> NoConf,
          raced |-> FALSE]

TypeOK ==
    /\ unit \in Units
    /\ on \in BOOLEAN
    /\ conf \in Confs
    /\ running \in Confs \cup {"down"}
    /\ told \in BOOLEAN
    /\ data \in BOOLEAN
    /\ history \in Seq(Contents) /\ Len(history) <= Keep
    /\ queue \in Seq(Requests) /\ Len(queue) <= MaxQueue
    /\ job \in [req : Requests, at : Steps, previous : Confs, written : Confs, raced : BOOLEAN]
    /\ edits \in 0 .. MaxEdits
    /\ trouble \in BOOLEAN

HasDependent == unit \in {"rag", "mail"}

Init ==
    /\ unit \in Units
    /\ on = FALSE
    /\ conf = NoConf
    /\ running = "down"
    /\ told = FALSE
    /\ data = FALSE
    /\ history = <<>>
    /\ queue = <<>>
    /\ job = NoJob
    /\ edits = 0
    /\ trouble = FALSE

-----------------------------------------------------------------------------
(* The routes.  What a page showed is what is there: a stale one is refused. *)

Enqueue(request) ==
    /\ Len(queue) < MaxQueue
    /\ queue' = Append(queue, request)
    /\ UNCHANGED <<unit, stack, history, job, edits, trouble>>

\* apply_overlay: _stale, then the syntax check and the preview, which do not
\* refuse everything that cannot be started.
ApplyOverlay(content) ==
    /\ unit = "web-search"
    /\ Enqueue(Request("overlay", content, conf, "keep", FALSE))

\* discard_overlay: there must be a file.
DiscardOverlay ==
    /\ unit = "web-search"
    /\ conf # NoConf
    /\ Enqueue(Request("overlay", NoConf, conf, "keep", FALSE))

\* rollback_overlay: the bytes are read now, whatever the history drops later.
RollbackOverlay ==
    /\ unit = "web-search"
    /\ \E i \in DOMAIN history : Enqueue(Request("overlay", history[i], conf, "keep", FALSE))

\* enable_module; the relay needs a mail server, stored or in the request.
EnableModule(mail) ==
    /\ ~on
    /\ mail # NoConf => unit = "mail"
    /\ unit = "mail" => conf # NoConf \/ mail # NoConf
    /\ Enqueue(Request("enable", mail, NoConf, "keep", FALSE))

\* disable_module
DisableModule(scope) ==
    /\ on
    /\ Enqueue(Request("disable", NoConf, NoConf, scope, FALSE))

\* put_mail: whether the relay is on is read here, not by the job.
PutMail(content) ==
    /\ unit = "mail"
    /\ Enqueue(Request("mail", content, NoConf, "keep", on))

-----------------------------------------------------------------------------
(* The worker: a job starts, moves on, ends well or fails.                 *)

\* Mutant: setup removes the profile before the module is stopped.
FirstSetup(kind) == IF kind = "overlay" THEN "read" ELSE "setup"

First(kind) == CASE kind = "overlay" -> "read"
                 [] kind = "disable" -> IF on THEN "stop" ELSE "setup"
                 [] OTHER -> "setup"

StartJob ==
    /\ job.at = "idle"
    /\ queue # <<>>
    /\ job' = [NoJob EXCEPT !.req = Head(queue), !.at = First(Head(queue).kind)]
    /\ queue' = Tail(queue)
    /\ UNCHANGED <<unit, stack, history, edits, trouble>>

At(kinds, step) == job.req.kind \in kinds /\ job.at = step

Go(step) == job' = [job EXCEPT !.at = step]

\* An enable or a disable that ends well brings everything in step again.
End ==
    /\ job' = NoJob
    /\ trouble' = IF job.req.kind \in {"enable", "disable"} THEN FALSE ELSE trouble

Fail ==
    /\ job' = NoJob
    /\ trouble' = TRUE

Rest == UNCHANGED <<unit, queue, edits>>

-----------------------------------------------------------------------------
(* papaia-ctl: setup, start, stop, module-purge.                           *)

\* A start reads the rendered configuration; when it fails, containers may be up
\* or not.
Started == running' = conf /\ data' = TRUE

NotStarted == running' \in {running, "down"} /\ UNCHANGED data

\* _setup of the module jobs and of the mail job.  A refusal changes nothing.
Setup ==
    /\ At({"enable", "disable", "mail"}, "setup")
    /\ UNCHANGED <<running, told, data, history>>
    /\ Rest
    /\ \/ /\ Fail
          /\ UNCHANGED <<on, conf>>
       \/ /\ on' = CASE job.req.kind = "enable" -> TRUE
                     [] job.req.kind = "disable" -> FALSE
                     [] OTHER -> on \/ job.req.relayOn
          /\ conf' = IF job.req.content = NoConf THEN conf ELSE job.req.content
          /\ CASE job.req.kind = "enable" -> Go("start") /\ UNCHANGED trouble
               [] job.req.kind = "disable" -> Go("tell") /\ UNCHANGED trouble
               [] OTHER ->
                    /\ IF job.req.relayOn THEN Go("start") ELSE job' = NoJob
                    /\ trouble' = (trouble \/ job.req.relayOn # on)

\* enable_callback and apply_callback: start of the module, then its dependent:
\* the last step of the relay's start, or _recreate of LibreChat.
\* A module that does not become healthy fails the job and is left as it is.
StartModule ==
    /\ At({"enable", "mail"}, "start")
    /\ UNCHANGED <<on, conf, history>>
    /\ Rest
    /\ \/ Started /\ told' = TRUE /\ (End \/ Fail)
       \/ Started /\ HasDependent /\ UNCHANGED told /\ Fail
       \/ NotStarted /\ UNCHANGED told /\ Fail

\* disable_callback stops the module while its profile is still active.
StopModule ==
    /\ At({"disable"}, "stop")
    /\ UNCHANGED <<on, conf, told, data, history>>
    /\ Rest
    /\ \/ running' = "down" /\ Go("setup") /\ UNCHANGED trouble
       \/ running' \in {running, "down"} /\ Fail

\* Mutant: the purge does not ask for the scope.
TellDependentAndPurge ==
    /\ At({"disable"}, "tell")
    /\ UNCHANGED <<on, conf, running, data, history>>
    /\ Rest
    /\ told' = FALSE
    /\ Go("purge")
    /\ UNCHANGED trouble

\* _sync_realm, or _recreate of LibreChat.
TellDependent ==
    /\ At({"disable"}, "tell")
    /\ UNCHANGED <<on, conf, running, data, history>>
    /\ Rest
    /\ \/ /\ told' = FALSE
          /\ IF job.req.scope = "keep" THEN End ELSE Go("purge") /\ UNCHANGED trouble
       \/ HasDependent /\ UNCHANGED told /\ Fail

\* _purge
Purge ==
    /\ At({"disable"}, "purge")
    /\ UNCHANGED <<on, running, told, history>>
    /\ Rest
    /\ \/ /\ data' = FALSE
          /\ conf' = IF job.req.scope = "all" /\ unit = "mail" THEN NoConf ELSE conf
          /\ End
       \/ UNCHANGED <<conf, data>> /\ Fail

-----------------------------------------------------------------------------
(* overlay_callback                                                        *)

\* history.save, and its prune
Saved(content) ==
    LET all == Append(history, content)
    IN  IF Len(all) > Keep THEN Tail(all) ELSE all

\* Read, compare with the page's revision, copy into the history.
ReadOverlay ==
    /\ At({"overlay"}, "read")
    /\ UNCHANGED stack
    /\ Rest
    /\ \/ /\ conf = job.req.expected
          /\ job' = [job EXCEPT !.at = "check", !.previous = conf]
          /\ history' = IF conf = NoConf THEN history ELSE Saved(conf)
          /\ UNCHANGED trouble
       \/ Fail /\ UNCHANGED history    \* ConflictError, or the copy cannot be written

\* Mutant: write() trusts what the job read.
CheckOverlayOnce ==
    /\ At({"overlay"}, "check")
    /\ Go("rename")
    /\ UNCHANGED <<stack, history, trouble>>
    /\ Rest

\* write() and delete() compare once more, under their lock.
CheckOverlay ==
    /\ At({"overlay"}, "check")
    /\ UNCHANGED <<stack, history>>
    /\ Rest
    /\ \/ conf = job.previous /\ Go("rename") /\ UNCHANGED trouble
       \/ Fail                          \* ConflictError, or the file cannot be staged

RenameOverlay ==
    /\ At({"overlay"}, "rename")
    /\ conf' = job.req.content
    /\ Go("reread")
    /\ UNCHANGED <<on, running, told, data, history, trouble>>
    /\ Rest

\* write() returns what it reads after the rename; delete() reads nothing.
RereadOverlay ==
    LET written == IF job.req.content = NoConf THEN NoConf ELSE conf IN
    /\ At({"overlay"}, "reread")
    /\ \/ IF on THEN /\ job' = [job EXCEPT !.at = "stop", !.written = written]
                     /\ UNCHANGED trouble
          ELSE End
       \/ job.req.content # NoConf /\ Fail      \* the file cannot be read
    /\ UNCHANGED <<stack, history>>
    /\ Rest

StopForOverlay ==
    /\ At({"overlay"}, "stop")
    /\ \/ running' = "down" /\ Go("start")
       \/ running' \in {running, "down"} /\ Go("undo-check")
    /\ UNCHANGED <<on, conf, told, data, history, trouble>>
    /\ Rest

\* A group that is up but not healthy fails the job, and the file stays.
StartForOverlay ==
    /\ At({"overlay"}, "start")
    /\ UNCHANGED <<on, conf, told, history>>
    /\ Rest
    /\ \/ Started /\ (End \/ Fail)
       \/ NotStarted /\ Go("undo-check") /\ UNCHANGED trouble

\* _restore: a file that is no longer the one the job wrote is left alone.
CheckUndo ==
    /\ At({"overlay"}, "undo-check")
    /\ UNCHANGED <<stack, history>>
    /\ Rest
    /\ \/ conf = job.written /\ Go("undo-rename") /\ UNCHANGED trouble
       \/ Fail                          \* it changed, or the file cannot be staged

RenameUndo ==
    /\ At({"overlay"}, "undo-rename")
    /\ conf' = job.previous
    /\ \/ Go("undo-start") /\ UNCHANGED trouble
       \/ job.previous # NoConf /\ Fail         \* the file cannot be read
    /\ UNCHANGED <<on, running, told, data, history>>
    /\ Rest

StartUndo ==
    /\ At({"overlay"}, "undo-start")
    /\ Started \/ NotStarted
    /\ Fail
    /\ UNCHANGED <<on, conf, told, history>>
    /\ Rest

-----------------------------------------------------------------------------
(* The host and the process.                                               *)

\* An editor, or papaia-ctl setup.  The two windows in which a job has compared
\* the file and not yet replaced it, and the one before it reads it back.
HostEdit(content) ==
    /\ unit # "rag"
    /\ content # conf
    /\ edits < MaxEdits
    /\ edits' = edits + 1
    /\ conf' = content
    /\ job' = IF job.at \in {"rename", "reread", "undo-rename"}
              THEN [job EXCEPT !.raced = TRUE] ELSE job
    /\ trouble' = TRUE
    /\ UNCHANGED <<unit, on, running, told, data, history, queue>>

\* The manager goes away and comes back; its queue does not.
Restart ==
    /\ job.at # "idle" \/ queue # <<>>
    /\ job' = NoJob
    /\ queue' = <<>>
    /\ trouble' = (trouble \/ job.at # "idle")
    /\ UNCHANGED <<unit, stack, history, edits>>

Next ==
    \/ \E content \in Contents : ApplyOverlay(content) \/ PutMail(content)
    \/ DiscardOverlay
    \/ RollbackOverlay
    \/ \E mail \in Confs : EnableModule(mail)
    \/ \E scope \in Scopes : DisableModule(scope)
    \/ StartJob
    \/ Setup
    \/ StartModule
    \/ StopModule
    \/ TellDependent
    \/ Purge
    \/ ReadOverlay
    \/ CheckOverlay
    \/ RenameOverlay
    \/ RereadOverlay
    \/ StopForOverlay
    \/ StartForOverlay
    \/ CheckUndo
    \/ RenameUndo
    \/ StartUndo
    \/ \E content \in Confs : HostEdit(content)
    \/ Restart

Spec == Init /\ [][Next]_vars

-----------------------------------------------------------------------------
(* Properties                                                              *)

\* "Stopped while the profile is still active: once `setup` has removed it,
\* Compose no longer knows what to stop" (disable_callback): whatever fails and
\* wherever the manager is restarted, no container of a module runs while its
\* profile is off.
OffIsDown == ~on => running = "down"

\* Named volumes go only once the module is off and its containers are gone, and only
\* for an operator who asked for it (disable_callback, _purge).
DataGoesLast ==
    [][data /\ ~data' => ~on /\ running = "down" /\ job.req.scope # "keep"]_vars

\* "an edit made on the host between page load and Apply is refused instead of
\* overwritten" (overlay.py), "the old bytes" are copied first (history.py), and
\* "a file edited on the host since the job wrote it is left alone" (_restore):
\* what an overlay job replaces is the newest version in the history, or its own
\* draft, unless the host was quicker than one file operation of the job.
NothingLostUnsaved ==
    [][job.req.kind = "overlay" /\ edits' = edits /\ conf' # conf /\ conf # NoConf /\ ~job.raced =>
          IF job.at = "rename" THEN history # <<>> /\ Last(history) = conf
          ELSE conf = job.req.content]_vars

\* "If the stop or the start fails, the previous file is put back": an overlay
\* job that got as far as starting the group again has left the file as it was
\* when the page was loaded, if the host did not touch it.
UndoneIsAsBefore ==
    job.at = "undo-start" /\ edits = 0 => conf = job.req.expected

\* Once a module was switched without a failure, and until something fails or is
\* changed on the host, what runs is what is stored, and the dependent knows
\* whether the module is on: no later job of the queue undoes that.
InStep ==
    job.at = "idle" /\ ~trouble =>
        /\ running = IF on THEN conf ELSE "down"
        /\ HasDependent => told = on

\* What is stored and what runs belong together: a module that is off is down, a failed apply is
\* as before it, and after jobs that did not fail the running stack is the stored one.
StoredIsRunning == TypeOK /\ OffIsDown /\ UndoneIsAsBefore /\ InStep

=============================================================================
