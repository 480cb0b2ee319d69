------------------------------ MODULE JobQueue ------------------------------
(***************************************************************************)
(* app/core/jobs.py: the registry, the asyncio queue, the one worker task  *)
(* and the index file.                                                     *)
(*                                                                         *)
(* Atomicity.  The process has one event loop.  enqueue() never suspends   *)
(* (its only await is a put on an unbounded queue), and the worker         *)
(* suspends only on get() of an empty queue and while the callback runs,   *)
(* so taking a job and ending a job are one step each.                     *)
(*                                                                         *)
(* Faults.  Every append to index.jsonl, to a job log or to audit.log can  *)
(* raise OSError.  An exception raised outside the try of _worker ends     *)
(* the worker task; nothing starts another one before the process does.    *)
(***************************************************************************)
EXTENDS Naturals, SequencesExt

CONSTANTS
    Jobs,           \* the ids uuid4 may produce
    NoJob,          \* current when no callback runs
    IoFaults        \* whether appends to files may fail

ASSUME NoJobAssumption == NoJob \notin Jobs
ASSUME IoFaultsAssumption == IoFaults \in BOOLEAN

VARIABLES
    worker,         \* "off" (no process), "idle", "running", "dead" (task ended)
    jobs,           \* _jobs: id -> status, "none" for an id that is not a key
    created,        \* the keys of _jobs by created_at (dict order on a tie)
    callbacks,      \* the keys of _callbacks
    queue,          \* _queue
    current,        \* the job the worker popped and has not ended
    index,          \* index.jsonl, by job: the status values, in file order
    audit,          \* jobs with a result "error" entry in audit.log
    notified,       \* jobs the finished-listeners were called with
    accepted,       \* history: ids put on the queue by this process, in order
    taken           \* history: ids the worker popped, in order

processVars == <<worker, jobs, created, callbacks, queue, current, notified,
                 accepted, taken>>
vars == <<processVars, index, audit>>

Status == {"queued", "running", "succeeded", "failed"}
Terminal == {"succeeded", "failed"}

-----------------------------------------------------------------------------

\* uuid4: an id is new to the process and to the files of earlier ones.
Fresh(j) == jobs[j] = "none" /\ index[j] = <<>>

\* _append_index
AppendIndex(j, status) == index' = [index EXCEPT ![j] = Append(@, status)]

\* active_job: the oldest job that is queued or running.
ActiveJob ==
    LET active == {i \in DOMAIN created : jobs[created[i]] \in {"queued", "running"}}
    IN  IF active = {} THEN NoJob
        ELSE created[Min(active)]

-----------------------------------------------------------------------------
(* The start and the end of the process.                                   *)

Init ==
    /\ worker = "off"
    /\ jobs = [j \in Jobs |-> "none"]
    /\ created = <<>>
    /\ callbacks = {}
    /\ queue = <<>>
    /\ current = NoJob
    /\ index = [j \in Jobs |-> <<>>]
    /\ audit = {}
    /\ notified = {}
    /\ accepted = <<>>
    /\ taken = <<>>

\* __init__ and start(), from the startup handler.
Start ==
    /\ worker = "off"
    /\ worker' = "idle"
    /\ UNCHANGED <<jobs, created, callbacks, queue, current, notified,
                   accepted, taken, index, audit>>

\* What a process that ends leaves: nothing of its memory.
LoseMemory ==
    /\ worker' = "off"
    /\ jobs' = [j \in Jobs |-> "none"]
    /\ created' = <<>>
    /\ callbacks' = {}
    /\ queue' = <<>>
    /\ current' = NoJob
    /\ notified' = {}
    /\ accepted' = <<>>
    /\ taken' = <<>>

\* SIGKILL, or the container removed under the process.
Kill ==
    /\ worker # "off"
    /\ LoseMemory
    /\ UNCHANGED <<index, audit>>

\* stop(): the worker is cancelled.  CancelledError is no Exception, so a job
\* that runs keeps its status, and the finally clause appends it once more.
Stop ==
    /\ worker = "running"
    /\ LoseMemory
    /\ AppendIndex(current, "running")
    /\ UNCHANGED audit

-----------------------------------------------------------------------------
(* enqueue()                                                               *)

\* The part of enqueue() before the first write to a file.
Register(j) ==
    /\ worker # "off"
    /\ Fresh(j)
    /\ jobs' = [jobs EXCEPT ![j] = "queued"]
    /\ created' = Append(created, j)
    /\ callbacks' = callbacks \cup {j}

\* Mutant of Enqueue: a LIFO queue.
EnqueueInFront(j) ==
    /\ Register(j)
    /\ AppendIndex(j, "queued")
    /\ queue' = <<j>> \o queue
    /\ accepted' = Append(accepted, j)
    /\ UNCHANGED <<worker, current, audit, notified, taken>>

Enqueue(j) ==
    /\ Register(j)
    /\ AppendIndex(j, "queued")
    /\ queue' = Append(queue, j)
    /\ accepted' = Append(accepted, j)
    /\ UNCHANGED <<worker, current, audit, notified, taken>>

\* mkdir or _append_index raises: the request gets a 500, the registration stays.
EnqueueFails(j) ==
    /\ IoFaults
    /\ Register(j)
    /\ UNCHANGED <<worker, queue, current, index, audit, notified, accepted,
                   taken>>

-----------------------------------------------------------------------------
(* _worker()                                                               *)

\* Mutant of Pop: the youngest job goes first.
PopYoungest(j) ==
    /\ worker = "idle"
    /\ queue # <<>>
    /\ j = Last(queue)
    /\ queue' = Front(queue)
    /\ taken' = Append(taken, j)
    /\ j \in callbacks
    /\ callbacks' = callbacks \ {j}
    /\ jobs' = [jobs EXCEPT ![j] = "running"]
    /\ current' = j

\* get(), pop of the callback, RUNNING; up to the first write to a file.
Pop(j) ==
    /\ worker = "idle"
    /\ queue # <<>>
    /\ j = Head(queue)
    /\ queue' = Tail(queue)
    /\ taken' = Append(taken, j)
    /\ jobs[j] # "none"
    /\ j \in callbacks
    /\ callbacks' = callbacks \ {j}
    /\ jobs' = [jobs EXCEPT ![j] = "running"]
    /\ current' = j

\* Mutant of Take: the callback is started and not awaited.
TakeUnawaited(j) ==
    /\ Pop(j)
    /\ AppendIndex(j, "running")
    /\ UNCHANGED <<worker, created, audit, notified, accepted>>

Take(j) ==
    /\ Pop(j)
    /\ worker' = "running"
    /\ AppendIndex(j, "running")
    /\ UNCHANGED <<created, audit, notified, accepted>>

\* _append_index raises before the try: the worker ends, the job stays RUNNING.
TakeFails(j) ==
    /\ IoFaults
    /\ Pop(j)
    /\ worker' = "dead"
    /\ UNCHANGED <<created, index, audit, notified, accepted>>

\* The status and the audit entry an ended callback gets.
Settle(outcome) ==
    /\ worker = "running"
    /\ jobs' = [jobs EXCEPT ![current] = outcome]

\* The callback returned or raised, every write worked, the listeners were called.
Finish(outcome) ==
    /\ Settle(outcome)
    /\ audit' = IF outcome = "failed" THEN audit \cup {current} ELSE audit
    /\ AppendIndex(current, outcome)
    /\ notified' = notified \cup {current}
    /\ worker' = "idle"
    /\ current' = NoJob
    /\ UNCHANGED <<created, callbacks, queue, accepted, taken>>

\* Mutant of FinishIndexFails: the listeners are called before the append.
FinishNotifiesFirst(outcome) ==
    /\ IoFaults
    /\ Settle(outcome)
    /\ audit' = IF outcome = "failed" THEN audit \cup {current} ELSE audit
    /\ notified' = notified \cup {current}
    /\ worker' = "dead"
    /\ current' = NoJob
    /\ UNCHANGED <<created, callbacks, queue, index, accepted, taken>>

\* The _append_index of the finally clause raises: the worker ends.
FinishIndexFails(outcome) ==
    /\ IoFaults
    /\ Settle(outcome)
    /\ audit' = IF outcome = "failed" THEN audit \cup {current} ELSE audit
    /\ worker' = "dead"
    /\ current' = NoJob
    /\ UNCHANGED <<created, callbacks, queue, index, notified, accepted, taken>>

\* write_audit_entry raises in the except clause, after FAILED was set.
AuditFails ==
    /\ IoFaults
    /\ Settle("failed")
    /\ AppendIndex(current, "failed") \/ UNCHANGED index
    /\ worker' = "dead"
    /\ current' = NoJob
    /\ UNCHANGED <<created, callbacks, queue, audit, notified, accepted, taken>>

\* ctx.log raises in the except clause, before FAILED was set: the job stays RUNNING.
ErrorLogFails ==
    /\ IoFaults
    /\ worker = "running"
    /\ AppendIndex(current, "running") \/ UNCHANGED index
    /\ worker' = "dead"
    /\ UNCHANGED <<jobs, created, callbacks, queue, current, audit, notified,
                   accepted, taken>>

-----------------------------------------------------------------------------

Next ==
    \/ Start
    \/ Kill
    \/ Stop
    \/ \E j \in Jobs : Enqueue(j) \/ EnqueueFails(j) \/ Take(j) \/ TakeFails(j)
    \/ \E outcome \in Terminal : Finish(outcome) \/ FinishIndexFails(outcome)
    \/ AuditFails
    \/ ErrorLogFails

Spec == Init /\ [][Next]_vars
-----------------------------------------------------------------------------
(* Properties                                                              *)

TypeOK ==
    /\ worker \in {"off", "idle", "running", "dead"}
    /\ jobs \in [Jobs -> Status \cup {"none"}]
    /\ created \in Seq(Jobs)
    /\ callbacks \in SUBSET Jobs
    /\ queue \in Seq(Jobs)
    /\ current \in Jobs \cup {NoJob}
    /\ index \in [Jobs -> Seq(Status)]
    /\ audit \in SUBSET Jobs
    /\ notified \in SUBSET Jobs
    /\ accepted \in Seq(Jobs)
    /\ taken \in Seq(Jobs)

\* "At most one job runs at a time" (jobs.py, class JobQueue): two jobs never
\* have the status RUNNING together, not even after a write failed and the
\* worker died with its job half ended.
SingleFlight ==
    \A j, k \in Jobs : jobs[j] = "running" /\ jobs[k] = "running" => j = k

\* FIFO, nothing lost, nothing run twice: what the worker popped, followed by
\* what waits, is what enqueue() accepted, in that order and without repetition.
FifoNoLoss ==
    /\ taken \o queue = accepted
    /\ IsInjective(accepted)

\* An id on the queue has its job and its callback, so the "job is None or
\* callback is None" branch of _worker, which drops an id, is never taken.
QueuedIsRunnable ==
    \A i \in DOMAIN queue : jobs[queue[i]] = "queued" /\ queue[i] \in callbacks

\* While the worker lives, the last line index.jsonl has for a job that was put
\* on the queue is the status the registry shows for it.
IndexMirrorsRegistry ==
    worker \in {"idle", "running"} =>
        \A j \in Range(accepted) : index[j] # <<>> /\ Last(index[j]) = jobs[j]

\* A listener is called with a job that has ended everywhere: in the registry,
\* in the index file and, when it failed, in the audit log; and while the worker
\* lives, every job that has ended has had its call.
EndIsRecorded ==
    /\ \A j \in notified :
          /\ jobs[j] \in Terminal
          /\ Last(index[j]) = jobs[j]
          /\ jobs[j] = "failed" => j \in audit
    /\ worker \in {"idle", "running"} => {j \in Jobs : jobs[j] \in Terminal} = notified

\* Jobs that an enqueue() which raised has left behind: registered, never queued.
Stranded == {j \in Jobs : jobs[j] = "queued" /\ j \notin Range(queue)}

\* Without such a job active_job() is right: it names the job that runs, or else
\* the one that is next, and says "idle" exactly when nothing runs or waits.
ActiveJobIsRight ==
    Stranded = {} /\ worker \in {"idle", "running"} =>
        ActiveJob = CASE worker = "running" -> current
                      [] worker = "idle" /\ queue # <<>> -> Head(queue)
                      [] OTHER -> NoJob

\* What the queue keeps of a job agrees, whichever write fails: one job runs at most, a queued id
\* has its job and its callback, the index and the audit log say what the registry says, the
\* listeners hear of every end, and active_job() names the right job.
QueueHolds ==
    /\ TypeOK /\ SingleFlight /\ QueuedIsRunnable
    /\ IndexMirrorsRegistry /\ EndIsRecorded /\ ActiveJobIsRight

\* Every job on the queue ends, unless the process or, after a write that failed,
\* the worker goes away first.
JobEventuallyEnds ==
    \A j \in Jobs : j \in Range(queue) ~> jobs[j] \in Terminal \/ worker \in {"off", "dead"}

-----------------------------------------------------------------------------
(* JobQueue implements JobService.  A job the worker popped and never ended  *)
(* (TakeFails, ErrorLogFails) stays at the head of pending and busy.         *)

Service == INSTANCE JobService WITH
    pending <- IF current = NoJob THEN queue ELSE <<current>> \o queue,
    busy    <- current # NoJob,
    ended   <- [j \in Jobs |-> IF jobs[j] \in Terminal THEN jobs[j] ELSE "no"]

\* The queue, faults included, keeps the promises of JobService.
ImplementsJobService == Service!ServiceSpec

\* The event loop keeps running the worker, and the callbacks end: what they
\* wait for is a papaia-ctl process that exits.
FairSpec ==
    /\ Spec
    /\ WF_vars(\E j \in Jobs : Take(j))
    /\ WF_vars(\E outcome \in Terminal : Finish(outcome))

=============================================================================
