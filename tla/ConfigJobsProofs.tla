--------------------------- MODULE ConfigJobsProofs ---------------------------
(***************************************************************************)
(* What the configuration jobs keep, for every set of modules and of       *)
(* contents, however many jobs wait and however often the host edits.      *)
(*                                                                         *)
(* None of the properties is inductive as it stands: each speaks of a      *)
(* state between jobs or of one step of a job, and needs to know what the  *)
(* steps before it have left. That is JobSteps.                            *)
(***************************************************************************)
EXTENDS ConfigJobs, TLAPS

USE NoConfAssumption, KeepAssumption, BoundsAssumption

-----------------------------------------------------------------------------
(* What is known of a job at each of its steps.                            *)

\* A job that switches a module off has it down before it takes the profile away, and reaches the
\* purge only for an operator who asked for it.
DisableSteps ==
    job.req.kind = "disable" =>
        /\ job.at \in {"setup", "tell", "purge"} => running = "down"
        /\ job.at \in {"tell", "purge"} => ~on
        /\ job.at = "purge" => ~told /\ job.req.scope # "keep"

\* A module is started only with its profile on.
StartSteps ==
    /\ job.req.kind \in {"enable", "mail"} /\ job.at = "start" => on
    /\ job.req.kind = "overlay"
          /\ job.at \in {"stop", "start", "undo-check", "undo-rename", "undo-start"} => on

\* An overlay job knows what it replaces, has it in the history before it does, and knows what it
\* wrote, as far as the host did not interfere.
OverlaySteps ==
    job.req.kind = "overlay" =>
        /\ job.at \notin {"idle", "read"} => job.previous = job.req.expected
        /\ job.at \in {"check", "rename"} /\ job.previous # NoConf =>
              history # <<>> /\ Last(history) = job.previous
        /\ job.at = "rename" /\ ~job.raced => conf = job.previous
        /\ job.at = "reread" /\ ~job.raced => conf = job.req.content
        /\ job.at \in {"stop", "start", "undo-check"} /\ ~job.raced => job.written = job.req.content
        /\ job.at = "undo-rename" /\ ~job.raced => conf = job.req.content

\* Jobs that do not switch the module leave what its dependent was told in step.
DependentSteps ==
    /\ ~trouble
    /\ job.at = "idle" \/ job.req.kind = "overlay" \/ (job.req.kind = "mail" /\ job.at = "setup")
    => (HasDependent => told = on)

JobSteps == DisableSteps /\ StartSteps /\ OverlaySteps /\ DependentSteps

\* The inductive invariant.
ConfigInv == StoredIsRunning /\ JobSteps

-----------------------------------------------------------------------------
(* Types.                                                                  *)

\* save() and its prune keep the newest version, and no more than KEEP.
LEMMA SavedKeepsTheNewest ==
    ASSUME NEW c \in Contents, history \in Seq(Contents), Len(history) <= Keep
    PROVE  /\ Saved(c) \in Seq(Contents) /\ Len(Saved(c)) <= Keep
           /\ Saved(c) # <<>> /\ Last(Saved(c)) = c
<1> DEFINE all == Append(history, c)
<1>1. /\ all \in Seq(Contents) /\ Len(all) = Len(history) + 1 /\ all[Len(all)] = c
      /\ Len(history) \in Nat
  OBVIOUS
<1>2. CASE Len(all) > Keep
  <2>1. /\ Tail(all) \in Seq(Contents) /\ Len(Tail(all)) = Len(history)
        /\ Len(history) = Keep /\ Len(history) \in 1 .. (Len(all) - 1)
    BY <1>1, <1>2
  <2>2. Tail(all)[Len(history)] = all[Len(history) + 1]
    BY <1>1, <2>1
  <2>3. QED
    BY <1>1, <1>2, <2>1, <2>2 DEF Saved, Last
<1>3. CASE ~(Len(all) > Keep)
  BY <1>1, <1>3 DEF Saved, Last
<1>4. QED
  BY <1>2, <1>3

LEMMA RequestType ==
    ASSUME NEW kind \in {"none", "overlay", "enable", "disable", "mail"}, NEW c \in Confs,
           NEW e \in Confs, NEW s \in Scopes, NEW r \in BOOLEAN
    PROVE  Request(kind, c, e, s, r) \in Requests
BY DEF Request, Requests

LEMMA EnqueueType ==
    ASSUME TypeOK, NEW r \in Requests, Enqueue(r)
    PROVE  TypeOK'
BY DEF TypeOK, Enqueue, stack

\* What TypeOK says of job.
JobRecords ==
    [req : Requests, at : Steps, previous : Confs, written : Confs, raced : BOOLEAN]

LEMMA JobMoves ==
    ASSUME TypeOK
    PROVE  /\ NoJob \in JobRecords /\ job \in JobRecords
           /\ \A step \in Steps : [job EXCEPT !.at = step] \in JobRecords
           /\ \A r \in Requests, step \in Steps :
                 [NoJob EXCEPT !.req = r, !.at = step] \in JobRecords
           /\ \A step \in Steps, c \in Confs :
                 /\ [job EXCEPT !.at = step, !.previous = c] \in JobRecords
                 /\ [job EXCEPT !.at = step, !.written = c] \in JobRecords
           /\ [job EXCEPT !.raced = TRUE] \in JobRecords
<1>1. NoJob \in JobRecords
  BY DEF JobRecords, NoJob, NoRequest, Request, Requests, Confs, Scopes, Steps
<1>2. job \in JobRecords
  BY DEF TypeOK, JobRecords
<1>3. QED
  BY <1>1, <1>2 DEF JobRecords

LEMMA TypeNext == TypeOK /\ [Next]_vars => TypeOK'
<1> SUFFICES ASSUME TypeOK, [Next]_vars PROVE TypeOK'
  OBVIOUS
<1> USE DEF Rest, stack, Go, End, Fail, Started, NotStarted, At
<1>1. ASSUME NEW c \in Contents, ApplyOverlay(c) \/ PutMail(c) PROVE TypeOK'
  BY <1>1, RequestType, EnqueueType DEF ApplyOverlay, PutMail, TypeOK, Confs, Scopes
<1>2. CASE DiscardOverlay
  BY <1>2, RequestType, EnqueueType DEF DiscardOverlay, TypeOK, Confs, Scopes
<1>3. CASE RollbackOverlay
  <2>1. PICK i \in DOMAIN history : Enqueue(Request("overlay", history[i], conf, "keep", FALSE))
    BY <1>3 DEF RollbackOverlay
  <2>2. history[i] \in Confs /\ conf \in Confs /\ "keep" \in Scopes
    BY <2>1 DEF TypeOK, Confs, Scopes
  <2>3. QED
    BY <2>1, <2>2, RequestType, EnqueueType
<1>4. ASSUME NEW m \in Confs, EnableModule(m) PROVE TypeOK'
  BY <1>4, RequestType, EnqueueType DEF EnableModule, TypeOK, Confs, Scopes
<1>5. ASSUME NEW s \in Scopes, DisableModule(s) PROVE TypeOK'
  BY <1>5, RequestType, EnqueueType DEF DisableModule, TypeOK, Confs, Scopes
<1>6. ASSUME NEW c \in Confs, HostEdit(c) PROVE TypeOK'
  <2>1. job' \in JobRecords
    BY <1>6, JobMoves DEF HostEdit, TypeOK, Confs
  <2>2. QED
    BY <1>6, <2>1 DEF HostEdit, TypeOK, JobRecords, Confs
<1>7. CASE StartJob
  <2>1. Head(queue) \in Requests /\ Tail(queue) \in Seq(Requests) /\ Len(Tail(queue)) <= MaxQueue
    BY <1>7 DEF StartJob, TypeOK
  <2>2. First(Head(queue).kind) \in Steps
    BY DEF First, Steps
  <2>3. job' \in JobRecords
    BY <1>7, <2>1, <2>2, JobMoves DEF StartJob
  <2>4. QED
    BY <1>7, <2>1, <2>3 DEF StartJob, TypeOK, JobRecords
<1>8. CASE Setup
  <2>1. job' \in JobRecords
    BY <1>8, JobMoves DEF Setup, TypeOK, Confs, Steps
  <2>2. QED
    BY <1>8, <2>1 DEF Setup, TypeOK, JobRecords, Confs, Requests
<1>9. CASE StartModule
  <2>1. job' \in JobRecords
    BY <1>9, JobMoves DEF StartModule, TypeOK, Confs
  <2>2. QED
    BY <1>9, <2>1 DEF StartModule, TypeOK, JobRecords, Confs
<1>10. CASE StopModule
  <2>1. job' \in JobRecords
    BY <1>10, JobMoves DEF StopModule, TypeOK, Confs, Steps
  <2>2. QED
    BY <1>10, <2>1 DEF StopModule, TypeOK, JobRecords, Confs
<1>11. CASE TellDependent
  <2>1. job' \in JobRecords
    BY <1>11, JobMoves DEF TellDependent, TypeOK, Confs, Steps
  <2>2. QED
    BY <1>11, <2>1 DEF TellDependent, TypeOK, JobRecords, Confs
<1>12. CASE Purge
  <2>1. job' \in JobRecords
    BY <1>12, JobMoves DEF Purge, TypeOK, Confs
  <2>2. QED
    BY <1>12, <2>1 DEF Purge, TypeOK, JobRecords, Confs
<1>13. CASE ReadOverlay
  <2>1. job' \in JobRecords
    <3>1. [job EXCEPT !.at = "check", !.previous = conf] \in JobRecords /\ NoJob \in JobRecords
      BY JobMoves DEF TypeOK, Steps
    <3>2. job' = [job EXCEPT !.at = "check", !.previous = conf] \/ job' = NoJob
      BY <1>13 DEF ReadOverlay
    <3>3. QED
      BY <3>1, <3>2
  <2>2. QED
    BY <1>13, <2>1, SavedKeepsTheNewest DEF ReadOverlay, TypeOK, JobRecords, Confs
<1>14. CASE CheckOverlay
  <2>1. job' \in JobRecords
    BY <1>14, JobMoves DEF CheckOverlay, TypeOK, Confs, Steps
  <2>2. QED
    BY <1>14, <2>1 DEF CheckOverlay, TypeOK, JobRecords, Confs
<1>15. CASE RenameOverlay
  <2>1. job' \in JobRecords
    BY <1>15, JobMoves DEF RenameOverlay, TypeOK, Confs, Steps
  <2>2. QED
    BY <1>15, <2>1 DEF RenameOverlay, TypeOK, JobRecords, Confs, Requests
<1>16. CASE RereadOverlay
  <2>1. job' \in JobRecords
    <3> DEFINE written == IF job.req.content = NoConf THEN NoConf ELSE conf
    <3>1. written \in Confs
      BY DEF TypeOK, Confs
    <3>2. [job EXCEPT !.at = "stop", !.written = written] \in JobRecords /\ NoJob \in JobRecords
      BY <3>1, JobMoves DEF Steps
    <3>3. job' = [job EXCEPT !.at = "stop", !.written = written] \/ job' = NoJob
      BY <1>16 DEF RereadOverlay
    <3>4. QED
      BY <3>2, <3>3, Zenon
  <2>2. QED
    BY <1>16, <2>1 DEF RereadOverlay, TypeOK, JobRecords, Confs
<1>17. CASE StopForOverlay
  <2>1. job' \in JobRecords
    BY <1>17, JobMoves DEF StopForOverlay, TypeOK, Confs, Steps
  <2>2. QED
    BY <1>17, <2>1 DEF StopForOverlay, TypeOK, JobRecords, Confs
<1>18. CASE StartForOverlay
  <2>1. job' \in JobRecords
    BY <1>18, JobMoves DEF StartForOverlay, TypeOK, Confs, Steps
  <2>2. QED
    BY <1>18, <2>1 DEF StartForOverlay, TypeOK, JobRecords, Confs
<1>19. CASE CheckUndo
  <2>1. job' \in JobRecords
    BY <1>19, JobMoves DEF CheckUndo, TypeOK, Confs, Steps
  <2>2. QED
    BY <1>19, <2>1 DEF CheckUndo, TypeOK, JobRecords, Confs
<1>20. CASE RenameUndo
  <2>1. job' \in JobRecords
    BY <1>20, JobMoves DEF RenameUndo, TypeOK, Confs, Steps
  <2>2. QED
    BY <1>20, <2>1 DEF RenameUndo, TypeOK, JobRecords, Confs
<1>21. CASE StartUndo
  <2>1. job' \in JobRecords
    BY <1>21, JobMoves DEF StartUndo, TypeOK, Confs
  <2>2. QED
    BY <1>21, <2>1 DEF StartUndo, TypeOK, JobRecords, Confs
<1>22. CASE Restart
  <2>1. job' \in JobRecords
    BY <1>22, JobMoves DEF Restart, TypeOK, Confs
  <2>2. QED
    BY <1>22, <2>1 DEF Restart, TypeOK, JobRecords, Confs
<1>23. CASE UNCHANGED vars
  BY <1>23 DEF TypeOK, vars
<1>24. QED
  BY <1>1, <1>2, <1>3, <1>4, <1>5, <1>6, <1>7, <1>8, <1>9, <1>10, <1>11, <1>12, <1>13, <1>14, <1>15, <1>16, <1>17, <1>18, <1>19, <1>20, <1>21, <1>22, <1>23 DEF Next

-----------------------------------------------------------------------------
(* The inductive invariant.                                                *)

LEMMA ConfigInvInit == Init => ConfigInv
<1> SUFFICES ASSUME Init PROVE ConfigInv
  OBVIOUS
<1>1. job \in JobRecords /\ job.at = "idle" /\ job.req.kind = "none"
  BY DEF Init, JobRecords, NoJob, NoRequest, Request, Requests, Confs, Scopes, Steps
<1>2. TypeOK
  <2>1. /\ history \in Seq(Contents) /\ Len(history) <= Keep
        /\ queue \in Seq(Requests) /\ Len(queue) <= MaxQueue
        /\ edits \in 0 .. MaxEdits
    BY DEF Init
  <2>2. QED
    BY <1>1, <2>1 DEF Init, TypeOK, JobRecords, Confs
<1>3. QED
  BY <1>1, <1>2 DEF Init, ConfigInv, StoredIsRunning, OffIsDown, UndoneIsAsBefore, InStep, JobSteps,
                    DisableSteps, StartSteps, OverlaySteps, DependentSteps

\* What a step that only adds to the queue leaves.
LEMMA QueuedKeeps ==
    ASSUME ConfigInv, TypeOK', NEW r, Enqueue(r)
    PROVE  ConfigInv'
BY DEF Enqueue, stack, ConfigInv, StoredIsRunning, OffIsDown, UndoneIsAsBefore, InStep, JobSteps,
       DisableSteps, StartSteps, OverlaySteps, DependentSteps, HasDependent

LEMMA NoJobAtAll == NoJob.at = "idle" /\ NoJob.req.kind = "none"
BY DEF NoJob, NoRequest, Request

LEMMA ConfigInvNext == ConfigInv /\ [Next]_vars => ConfigInv'
<1> SUFFICES ASSUME ConfigInv, [Next]_vars PROVE ConfigInv'
  OBVIOUS
<1>1. TypeOK /\ TypeOK' /\ job \in JobRecords
  BY TypeNext DEF ConfigInv, StoredIsRunning, TypeOK, JobRecords
<1>2. CASE \E r : Enqueue(r)
  BY <1>1, <1>2, QueuedKeeps
<1>3. CASE (\E c \in Contents : ApplyOverlay(c) \/ PutMail(c)) \/ DiscardOverlay \/ RollbackOverlay
           \/ (\E m \in Confs : EnableModule(m)) \/ \E s \in Scopes : DisableModule(s)
  BY <1>2, <1>3 DEF ApplyOverlay, PutMail, DiscardOverlay, RollbackOverlay, EnableModule, DisableModule
<1> USE NoJobAtAll DEF Rest, stack, Go, End, Fail, Started, NotStarted, At, HasDependent, JobRecords
<1> USE DEF ConfigInv, StoredIsRunning, OffIsDown, UndoneIsAsBefore, InStep, JobSteps,
        DisableSteps, StartSteps, OverlaySteps, DependentSteps
<1>4. ASSUME NEW c \in Confs, HostEdit(c) PROVE ConfigInv'
  BY <1>1, <1>4 DEF HostEdit, TypeOK
<1>5. CASE StartJob
  <2>1. OffIsDown'
    BY <1>1, <1>5 DEF StartJob, First
  <2>2. UndoneIsAsBefore'
    BY <1>1, <1>5 DEF StartJob, First
  <2>3. InStep'
    BY <1>1, <1>5 DEF StartJob, First
  <2>4. DisableSteps'
    BY <1>1, <1>5 DEF StartJob, First
  <2>5. StartSteps'
    BY <1>1, <1>5 DEF StartJob, First
  <2>6. OverlaySteps'
    BY <1>1, <1>5 DEF StartJob, First
  <2>7. DependentSteps'
    BY <1>1, <1>5 DEF StartJob, First
  <2>8. QED
    BY <1>1, <2>1, <2>2, <2>3, <2>4, <2>5, <2>6, <2>7
<1>6. CASE Setup
  <2>1. /\ job.req.kind \in {"enable", "disable", "mail"} /\ job.at = "setup"
        /\ UNCHANGED <<unit, running, told>>
    BY <1>6 DEF Setup
  <2>2. CASE job' = NoJob /\ trouble' = TRUE /\ on' = on
    BY <1>1, <2>1, <2>2
  <2>3. CASE /\ job.req.kind = "enable" /\ on' = TRUE
             /\ job' = [job EXCEPT !.at = "start"] /\ trouble' = trouble
    BY <1>1, <2>1, <2>3
  <2>4. CASE /\ job.req.kind = "disable" /\ on' = FALSE
             /\ job' = [job EXCEPT !.at = "tell"] /\ trouble' = trouble
    BY <1>1, <2>1, <2>4
  <2>5. CASE /\ job.req.kind = "mail" /\ job.req.relayOn /\ on' = TRUE
             /\ job' = [job EXCEPT !.at = "start"]
    BY <1>1, <2>1, <2>5
  <2>6. CASE /\ job.req.kind = "mail" /\ ~job.req.relayOn /\ on' = on
             /\ job' = NoJob /\ trouble' = (trouble \/ job.req.relayOn # on)
    <3>1. ~trouble' => ~trouble /\ ~on /\ running = "down"
      BY <1>1, <2>6 DEF TypeOK
    <3>2. QED
      BY <1>1, <2>1, <2>6, <3>1
  <2>7. \/ job' = NoJob /\ trouble' = TRUE /\ on' = on
        \/ /\ job.req.kind = "enable" /\ on' = TRUE
           /\ job' = [job EXCEPT !.at = "start"] /\ trouble' = trouble
        \/ /\ job.req.kind = "disable" /\ on' = FALSE
           /\ job' = [job EXCEPT !.at = "tell"] /\ trouble' = trouble
        \/ /\ job.req.kind = "mail" /\ job.req.relayOn /\ on' = TRUE
           /\ job' = [job EXCEPT !.at = "start"]
        \/ /\ job.req.kind = "mail" /\ ~job.req.relayOn /\ on' = on
           /\ job' = NoJob /\ trouble' = (trouble \/ job.req.relayOn # on)
    <3>1. on \in BOOLEAN /\ job.req.relayOn \in BOOLEAN
      BY <1>1 DEF TypeOK, Requests
    <3>2. QED
      BY <1>6, <3>1, <2>1 DEF Setup
  <2>8. QED
    BY <2>2, <2>3, <2>4, <2>5, <2>6, <2>7
<1>7. CASE StartModule
  BY <1>1, <1>7 DEF StartModule
<1>8. CASE StopModule
  BY <1>1, <1>8 DEF StopModule
<1>9. CASE TellDependent
  <2>1. /\ job.req.kind = "disable" /\ job.at = "tell" /\ ~on /\ running = "down"
        /\ UNCHANGED <<unit, on, running>>
    BY <1>9 DEF TellDependent
  <2>2. CASE job' = NoJob /\ trouble' = TRUE
    BY <1>1, <2>1, <2>2
  <2>3. CASE told' = FALSE /\ job' = NoJob
    BY <1>1, <2>1, <2>3 DEF TypeOK
  <2>4. CASE /\ told' = FALSE /\ job.req.scope # "keep"
             /\ job' = [job EXCEPT !.at = "purge"] /\ trouble' = trouble
    BY <1>1, <2>1, <2>4
  <2>5. QED
    BY <1>9, <2>2, <2>3, <2>4 DEF TellDependent
<1>10. CASE Purge
  <2>1. /\ job.req.kind = "disable" /\ job.at = "purge"
        /\ ~on /\ running = "down" /\ ~told
        /\ UNCHANGED <<unit, on, running, told>> /\ job' = NoJob
    BY <1>10 DEF Purge
  <2>2. QED
    BY <1>1, <2>1 DEF TypeOK
<1>11. CASE ReadOverlay
  <2>1. /\ job.req.kind = "overlay" /\ job.at = "read"
        /\ UNCHANGED <<unit, on, conf, running, told, edits>>
    BY <1>11 DEF ReadOverlay
  <2>2. CASE job' = NoJob /\ trouble' = TRUE
    BY <1>1, <2>1, <2>2
  <2>3. CASE /\ conf = job.req.expected /\ trouble' = trouble
             /\ job' = [job EXCEPT !.at = "check", !.previous = conf]
             /\ history' = IF conf = NoConf THEN history ELSE Saved(conf)
    <3>1. conf # NoConf => history' # <<>> /\ Last(history') = conf
      BY <1>1, <2>3, SavedKeepsTheNewest DEF TypeOK, Confs
    <3>2. /\ job'.at = "check" /\ job'.req = job.req /\ job'.previous = conf
      BY <1>1, <2>3
    <3>3. OverlaySteps'
      BY <2>1, <2>3, <3>1, <3>2
    <3>4. QED
      BY <1>1, <2>1, <2>3, <3>2, <3>3
  <2>4. QED
    BY <1>11, <2>2, <2>3 DEF ReadOverlay
<1>12. CASE CheckOverlay
  BY <1>1, <1>12 DEF CheckOverlay
<1>13. CASE RenameOverlay
  BY <1>1, <1>13 DEF RenameOverlay
<1>14. CASE RereadOverlay
  BY <1>1, <1>14 DEF RereadOverlay
<1>15. CASE StopForOverlay
  BY <1>1, <1>15 DEF StopForOverlay
<1>16. CASE StartForOverlay
  <2>1. OffIsDown'
    BY <1>1, <1>16 DEF StartForOverlay
  <2>2. UndoneIsAsBefore'
    BY <1>1, <1>16 DEF StartForOverlay
  <2>3. InStep'
    BY <1>1, <1>16 DEF StartForOverlay
  <2>4. DisableSteps'
    BY <1>1, <1>16 DEF StartForOverlay
  <2>5. StartSteps'
    BY <1>1, <1>16 DEF StartForOverlay
  <2>6. OverlaySteps'
    BY <1>1, <1>16 DEF StartForOverlay
  <2>7. DependentSteps'
    BY <1>1, <1>16 DEF StartForOverlay
  <2>8. QED
    BY <1>1, <2>1, <2>2, <2>3, <2>4, <2>5, <2>6, <2>7
<1>17. CASE CheckUndo
  BY <1>1, <1>17 DEF CheckUndo
<1>18. CASE RenameUndo
  BY <1>1, <1>18 DEF RenameUndo
<1>19. CASE StartUndo
  BY <1>1, <1>19 DEF StartUndo
<1>20. CASE Restart
  BY <1>1, <1>20 DEF Restart
<1>21. CASE UNCHANGED vars
  BY <1>1, <1>21 DEF vars
<1>22. QED
  BY <1>3, <1>4, <1>5, <1>6, <1>7, <1>8, <1>9, <1>10, <1>11, <1>12, <1>13, <1>14, <1>15, <1>16,
     <1>17, <1>18, <1>19, <1>20, <1>21 DEF Next

-----------------------------------------------------------------------------
(* The theorems.                                                           *)

\* The invariant holds in every state.
LEMMA ConfigInvAlways == Spec => []ConfigInv
BY ConfigInvInit, ConfigInvNext, PTL DEF Spec

\* A module that is off is down, a failed apply leaves the file as it was before it, and after jobs
\* that did not fail what runs is what is stored: whatever the routes queue, whatever step of a job
\* fails, and wherever the host edits and the manager restarts (disable_callback, enable_callback,
\* overlay_callback with _restore, apply_callback).
THEOREM StoredIsRunningAlways == Spec => []StoredIsRunning
<1>1. ConfigInv => StoredIsRunning
  BY DEF ConfigInv
<1>2. QED
  BY <1>1, ConfigInvAlways, PTL

\* No step but _purge deletes named volumes, and it does so to a module that is off and down.
THEOREM DataGoesLastAlways == Spec => DataGoesLast
<1>1. ConfigInv /\ [Next]_vars =>
         [data /\ ~data' => ~on /\ running = "down" /\ job.req.scope # "keep"]_vars
  <2> SUFFICES ASSUME ConfigInv, [Next]_vars, data, ~data'
               PROVE  ~on /\ running = "down" /\ job.req.scope # "keep"
    OBVIOUS
  <2>1. Purge
    BY DEF Next, vars, stack, ApplyOverlay, PutMail, DiscardOverlay, RollbackOverlay, EnableModule,
           DisableModule, Enqueue, StartJob, Setup, StartModule, StopModule, TellDependent,
           ReadOverlay, CheckOverlay, RenameOverlay, RereadOverlay, StopForOverlay, StartForOverlay,
           CheckUndo, RenameUndo, StartUndo, HostEdit, Restart, Started, NotStarted
  <2>2. QED
    BY <2>1 DEF Purge, At, ConfigInv, JobSteps, DisableSteps
<1>2. QED
  BY <1>1, ConfigInvAlways, PTL DEF Spec, DataGoesLast

\* What an overlay job replaces is in the history, or is its own draft (write, _restore).
THEOREM NothingLostUnsavedAlways == Spec => NothingLostUnsaved
<1> DEFINE Kept ==
      job.req.kind = "overlay" /\ edits' = edits /\ conf' # conf /\ conf # NoConf /\ ~job.raced =>
          IF job.at = "rename" THEN history # <<>> /\ Last(history) = conf
          ELSE conf = job.req.content
<1>1. ConfigInv /\ [Next]_vars => [Kept]_vars
  <2> SUFFICES ASSUME ConfigInv, [Next]_vars, job.req.kind = "overlay", edits' = edits,
                      conf' # conf, conf # NoConf, ~job.raced
               PROVE  IF job.at = "rename" THEN history # <<>> /\ Last(history) = conf
                      ELSE conf = job.req.content
    OBVIOUS
  <2>1. ASSUME NEW c \in Confs, HostEdit(c) PROVE FALSE
    BY <2>1 DEF HostEdit, ConfigInv, StoredIsRunning, TypeOK
  <2>2. RenameOverlay \/ RenameUndo
    BY <2>1 DEF Next, vars, stack, ApplyOverlay, PutMail, DiscardOverlay, RollbackOverlay, EnableModule,
           DisableModule, Enqueue, StartJob, Setup, StartModule, StopModule, TellDependent, Purge,
           ReadOverlay, CheckOverlay, RereadOverlay, StopForOverlay, StartForOverlay,
           CheckUndo, StartUndo, Restart, At
  <2>3. QED
    BY <2>2 DEF RenameOverlay, RenameUndo, At, ConfigInv, JobSteps, OverlaySteps
<1>2. QED
  BY <1>1, ConfigInvAlways, PTL DEF Spec, NothingLostUnsaved

=============================================================================
