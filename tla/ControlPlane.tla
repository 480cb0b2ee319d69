---------------------------- MODULE ControlPlane ----------------------------
(***************************************************************************)
(* Who may start what: the handlers of api_stack.py, api_maintenance.py,   *)
(* api_upgrade.py and the configuration routes, the detached runner        *)
(* containers of core/runner.py, and the job queue (as JobService promises *)
(* it).                                                                    *)
(*                                                                         *)
(* There is no lock between the handlers.  Each asks Docker, kind by kind, *)
(* whether a runner exists, looks at the queue at one point of its own,    *)
(* and then starts something.  Every question to Docker is an await, so    *)
(* other requests, the runners and the worker move between two of them.    *)
(*                                                                         *)
(* A request is a record: the kinds it still has to look for (todo), where *)
(* in find_runner, clear_runner or start_* it is (phase), the ids docker   *)
(* ps gave it (listed), the runner to remove (victim) and the one to start *)
(* (name).  A handler that refuses ends its request and changes nothing.   *)
(***************************************************************************)
EXTENDS JobService, SequencesExt

CONSTANTS
    Requests,       \* requests the manager serves at the same time
    Runners,        \* runner names, as records [kind, target]
    NoRunner,       \* victim or name of a request that has none; checked before a check
    DockerFaults    \* whether a call of the docker CLI may fail or time out

Kinds == {"restore", "stack", "upgrade"}
Guarded == {"backup", "config"}             \* jobs whose handler looks for runners first
JobOps == Guarded \cup {"free"}             \* group actions, add-on and catalogue jobs
Ops == Guarded \cup Kinds \cup {"clear"}

ASSUME RunnersAssumption == NoRunner \notin Runners /\ \A n \in Runners : n.kind \in Kinds

VARIABLES
    up,             \* the manager process runs
    jobOp,          \* job -> what it was enqueued for, "free" when it is not pending
    status,         \* runner -> docker's State.Status, "absent" when there is no container
    order,          \* the runners that exist, by StartedAt
    checked,        \* upgrade.py _cached: the runner its target stands for, or NoRunner
    req             \* request -> its record

memory == <<serviceVars, jobOp, checked>>
vars == <<up, memory, status, order, req>>

Exists(n) == status[n] # "absent"

\* RunnerStatus.is_running
IsRunning(n) == status[n] \in {"created", "running"}

NoRequest == [op |-> "none", phase |-> "idle", todo |-> <<>>, listed |-> {},
              blocked |-> FALSE, victim |-> NoRunner, name |-> NoRunner]

TypeOK ==
    /\ ServiceTypeOK
    /\ up \in BOOLEAN
    /\ jobOp \in [Jobs -> JobOps]
    /\ status \in [Runners -> {"absent", "created", "running", "exited"}]
    /\ order \in Seq(Runners)
    /\ checked \in Runners \cup {NoRunner}
    /\ \A r \in Requests :
          /\ req[r].op \in Ops \cup {"none"}
          /\ req[r].phase \in {"idle", "list", "inspect", "remove", "run", "confirm"}
          /\ req[r].todo \in Seq(Kinds)
          /\ req[r].listed \in SUBSET Runners
          /\ req[r].blocked \in BOOLEAN
          /\ req[r].victim \in Runners \cup {NoRunner}
          /\ req[r].name \in Runners \cup {NoRunner}

Init ==
    /\ ServiceInit
    /\ up = TRUE
    /\ jobOp = [j \in Jobs |-> "free"]
    /\ status = [n \in Runners |-> "absent"]
    /\ order = <<>>
    /\ checked = NoRunner
    /\ req = [r \in Requests |-> NoRequest]

-----------------------------------------------------------------------------
(* The handlers, up to their first question to Docker.                     *)

\* A request enters a handler that will look for runners of the kinds in todo.
Arrive(r, op, todo, name) ==
    /\ up
    /\ req[r].phase = "idle"
    /\ req' = [req EXCEPT ![r] = [NoRequest EXCEPT !.op = op, !.phase = "list",
                                                   !.todo = todo, !.name = name]]
    /\ UNCHANGED <<up, memory, status, order>>

\* _require_no_runner, the queue, and then a job: the same for a backup, for the
\* removal of restore points and for the restore of a part of one.
RequireNoRunner(r) == Arrive(r, "backup", <<"restore", "upgrade">>, NoRunner)

CreateBackup(r) == RequireNoRunner(r)

DeleteRestorePoints(r) == RequireNoRunner(r)

StartScopedRestore(r) == RequireNoRunner(r)

\* The module, overlay and mail routes: require_idle_stack.
ConfigRequest(r) == Arrive(r, "config", <<"restore", "upgrade", "stack">>, NoRunner)

\* Mutant of StackRequest: only another stack action is looked for.
StackRequestOwnKind(r, n) ==
    /\ n.kind = "stack"
    /\ pending = <<>>
    /\ Arrive(r, "stack", <<"stack">>, n)

\* stack_action looks at the queue before it asks Docker anything.
StackRequest(r, n) ==
    /\ n.kind = "stack"
    /\ pending = <<>>
    /\ Arrive(r, "stack", <<"upgrade", "stack">>, n)

\* start_restore
RestoreRequest(r, n) ==
    /\ n.kind = "restore"
    /\ Arrive(r, "restore", <<"restore", "upgrade">>, n)

\* start_upgrade: only to the version of the cached check; then _require_idle.
UpgradeRequest(r, n) ==
    /\ n.kind = "upgrade"
    /\ checked = n
    /\ Arrive(r, "upgrade", <<"upgrade", "restore", "stack">>, n)

\* clear_restore, clear_stack_runner, clear_upgrade_runner
ClearRequest(r, kind) == Arrive(r, "clear", <<kind>>, NoRunner)

\* group_action, the add-on and the catalogue routes: no question to Docker,
\* and no look at the queue.
FreeRequest(r, j) ==
    /\ up
    /\ req[r].phase = "idle"
    /\ Submit(j)
    /\ jobOp' = [jobOp EXCEPT ![j] = "free"]
    /\ UNCHANGED <<up, status, order, checked, req>>

\* run_check, as far as the handlers here see it: it replaces the cached result.
CheckUpgrade(r, n) ==
    /\ up
    /\ req[r].phase = "idle"
    /\ n.kind = "upgrade"
    /\ checked' = n
    /\ UNCHANGED <<up, serviceVars, jobOp, status, order, req>>

-----------------------------------------------------------------------------
(* What a handler does with an answer.                                     *)

Finish(r) == req' = [req EXCEPT ![r] = NoRequest]

Keep == UNCHANGED <<up, memory, status, order>>

\* Mutant of Refuses: a finished runner never counts.
RefusesRunning(op, kind, found) ==
    /\ found # NoRunner
    /\ op \notin {"backup", "clear"}
    /\ IsRunning(found)

\* A found runner that makes the handler refuse at once.  An upgrade and a
\* restore also refuse on a finished one of their own kind.
Refuses(op, kind, found) ==
    /\ found # NoRunner
    /\ op \notin {"backup", "clear"}
    /\ IsRunning(found) \/ (op = kind /\ op \in {"upgrade", "restore"})

\* Mutant of EnqueueGuarded: the answer of blocking_runner is not looked at.
EnqueueUnguarded(r, blocked) ==
    /\ Finish(r)
    /\ UNCHANGED <<up, status, order, checked>>
    /\ IF req[r].op = "backup" /\ pending # <<>>
       THEN UNCHANGED <<serviceVars, jobOp>>
       ELSE \E j \in Jobs : Submit(j) /\ jobOp' = [jobOp EXCEPT ![j] = req[r].op]

\* The queue is asked, and a job enqueued, with no await in between.
EnqueueGuarded(r, blocked) ==
    /\ Finish(r)
    /\ UNCHANGED <<up, status, order, checked>>
    /\ IF req[r].op = "backup" /\ (blocked \/ pending # <<>>)
       THEN UNCHANGED <<serviceVars, jobOp>>
       ELSE \E j \in Jobs : Submit(j) /\ jobOp' = [jobOp EXCEPT ![j] = req[r].op]

\* Where a handler that goes on is next.
Go(r, phase, todo) ==
    /\ req' = [req EXCEPT ![r].phase = phase, ![r].todo = todo, ![r].listed = {}]
    /\ Keep

\* clear_runner starts: it looks for the kind once more before it removes n.
Clear(r, n) ==
    /\ req' = [req EXCEPT ![r].phase = "list", ![r].todo = <<n.kind>>,
                          ![r].listed = {}, ![r].victim = n]
    /\ Keep

Refuse(r) == Finish(r) /\ Keep

\* The last answer is in: enqueue, start, remove or refuse.
Decide(r, found, blocked) ==
    LET q == req[r] IN
    \/ /\ q.op \in Guarded
       /\ EnqueueGuarded(r, blocked)
    \/ /\ q.op \in {"restore", "upgrade"}
       /\ IF pending = <<>> THEN Go(r, "run", <<>>) ELSE Refuse(r)
    \/ /\ q.op = "stack" /\ q.victim = NoRunner
       /\ IF found = NoRunner THEN Go(r, "run", <<>>) ELSE Clear(r, found)
    \/ /\ q.op = "clear" /\ q.victim = NoRunner
       /\ IF found = NoRunner THEN Refuse(r) ELSE Clear(r, found)
    \/ /\ q.victim # NoRunner           \* inside clear_runner
       /\ IF found = q.victim /\ IsRunning(found) THEN Refuse(r) ELSE Go(r, "remove", <<>>)

\* find_runner returned found for the kind at the head of todo.  Only
\* blocking_runner puts all its questions before it looks at an answer.
Answer(r, found) ==
    LET q == req[r]
        blocked == q.blocked \/ (q.op = "backup" /\ found # NoRunner /\ IsRunning(found))
    IN  IF q.victim = NoRunner /\ Refuses(q.op, Head(q.todo), found)
        THEN Refuse(r)
        ELSE IF Len(q.todo) > 1
        THEN /\ req' = [req EXCEPT ![r].phase = "list", ![r].todo = Tail(@),
                                   ![r].listed = {}, ![r].blocked = blocked]
             /\ Keep
        ELSE Decide(r, found, blocked)

\* An exception of find_runner: a 503 or a 500, except that blocking_runner
\* takes it for "nothing is running", whatever its first question found.
AnswerFailed(r) ==
    IF req[r].op = "backup" THEN EnqueueGuarded(r, FALSE) ELSE Refuse(r)

-----------------------------------------------------------------------------
(* find_runner: docker ps, then docker inspect of every id it listed.      *)

\* Mutant of List: docker ps without the filter on the label of the kind.
ListEveryKind(r) ==
    LET ids == {n \in Runners : Exists(n)} IN
    /\ req[r].phase = "list"
    /\ IF ids = {} THEN Answer(r, NoRunner)
       ELSE /\ req' = [req EXCEPT ![r].phase = "inspect", ![r].listed = ids]
            /\ Keep

List(r) ==
    LET ids == {n \in Runners : n.kind = Head(req[r].todo) /\ Exists(n)} IN
    /\ req[r].phase = "list"
    /\ IF ids = {} THEN Answer(r, NoRunner)
       ELSE /\ req' = [req EXCEPT ![r].phase = "inspect", ![r].listed = ids]
            /\ Keep

\* Where docker's StartedAt puts a runner among those that exist.
StartedAt(n) == CHOOSE i \in DOMAIN order : order[i] = n

\* The running one, or else the one started last.
Found(listed, n) ==
    /\ n \in listed
    /\ IF \E m \in listed : IsRunning(m) THEN IsRunning(n)
       ELSE \A m \in listed : StartedAt(m) <= StartedAt(n)

Inspect(r) ==
    /\ req[r].phase = "inspect"
    /\ IF \A n \in req[r].listed : Exists(n)
       THEN \E n \in req[r].listed : Found(req[r].listed, n) /\ Answer(r, n)
       ELSE AnswerFailed(r)

\* The daemon is unreachable or slower than _DOCKER_TIMEOUT.
FindFails(r) ==
    /\ DockerFaults
    /\ req[r].phase \in {"list", "inspect"}
    /\ AnswerFailed(r)

-----------------------------------------------------------------------------
(* docker rm (without --force) and docker run --name.                      *)

\* Mutant of RemoveRunner: docker rm --force.
RemoveRunnerForced(r) ==
    LET n == req[r].victim IN
    /\ req[r].phase = "remove"
    /\ status' = [status EXCEPT ![n] = "absent"]
    /\ order' = Remove(order, n)
    /\ IF req[r].op = "stack"
       THEN req' = [req EXCEPT ![r].phase = "run", ![r].victim = NoRunner]
       ELSE Finish(r)
    /\ UNCHANGED <<up, memory>>

\* The last step of clear_runner; stack_action goes on, a clear is done.
RemoveRunner(r) ==
    LET n == req[r].victim IN
    /\ req[r].phase = "remove"
    /\ IF status[n] = "exited"
       THEN /\ status' = [status EXCEPT ![n] = "absent"]
            /\ order' = Remove(order, n)
            /\ IF req[r].op = "stack"
               THEN req' = [req EXCEPT ![r].phase = "run", ![r].victim = NoRunner]
               ELSE Finish(r)
       ELSE /\ Finish(r)
            /\ UNCHANGED <<status, order>>
    /\ UNCHANGED <<up, memory>>

\* self_spec and docker run: a name that is taken is an error.
Run(r) ==
    LET n == req[r].name IN
    /\ req[r].phase = "run"
    /\ IF Exists(n) THEN Finish(r) /\ UNCHANGED <<status, order>>
       ELSE /\ status' = [status EXCEPT ![n] = "running"]
            /\ order' = Append(order, n)
            /\ req' = [req EXCEPT ![r].phase = "confirm"]
    /\ UNCHANGED <<up, memory>>

\* docker run fails or times out: before the container was made, after it was
\* made but not started, or after it was started.
RunFails(r) ==
    LET n == req[r].name IN
    /\ DockerFaults
    /\ req[r].phase = "run"
    /\ Finish(r)
    /\ \/ UNCHANGED <<status, order>>
       \/ /\ ~Exists(n)
          /\ \E s \in {"created", "running"} : status' = [status EXCEPT ![n] = s]
          /\ order' = Append(order, n)
    /\ UNCHANGED <<up, memory>>

\* find_runner for the response.  Only an upgrade that gets its answer drops
\* the cached check.
Confirm(r) ==
    LET kind == req[r].name.kind
        found == \E n \in Runners : n.kind = kind /\ Exists(n)
    IN  /\ req[r].phase = "confirm"
        /\ Finish(r)
        /\ \/ checked' = IF kind = "upgrade" /\ found THEN NoRunner ELSE checked
           \/ DockerFaults /\ UNCHANGED checked
        /\ UNCHANGED <<up, serviceVars, jobOp, status, order>>

-----------------------------------------------------------------------------
(* The worker, the runners and the process.                                *)

JobBegins ==
    /\ up /\ Begin
    /\ UNCHANGED <<up, jobOp, checked, status, order, req>>

JobEnds ==
    /\ up /\ \E outcome \in Outcomes : End(outcome)
    /\ jobOp' = [jobOp EXCEPT ![Head(pending)] = "free"]
    /\ UNCHANGED <<up, checked, status, order, req>>

RunnerExits(n) ==
    /\ status[n] = "running"
    /\ status' = [status EXCEPT ![n] = "exited"]
    /\ UNCHANGED <<up, memory, order, req>>

\* A runner takes the stack down, and the manager with it; or the host does.
ManagerDies ==
    /\ up
    /\ up' = FALSE
    /\ Forget
    /\ jobOp' = [j \in Jobs |-> "free"]
    /\ checked' = NoRunner
    /\ req' = [r \in Requests |-> NoRequest]
    /\ UNCHANGED <<status, order>>

ManagerStarts ==
    /\ ~up
    /\ up' = TRUE
    /\ UNCHANGED <<memory, status, order, req>>

Next ==
    \/ \E r \in Requests :
          \/ CreateBackup(r)
          \/ DeleteRestorePoints(r)
          \/ StartScopedRestore(r)
          \/ ConfigRequest(r)
          \/ \E n \in Runners :
                \/ StackRequest(r, n)
                \/ RestoreRequest(r, n)
                \/ UpgradeRequest(r, n)
                \/ CheckUpgrade(r, n)
          \/ \E j \in Jobs : FreeRequest(r, j)
          \/ \E kind \in Kinds : ClearRequest(r, kind)
          \/ List(r)
          \/ Inspect(r)
          \/ FindFails(r)
          \/ RemoveRunner(r)
          \/ Run(r)
          \/ RunFails(r)
          \/ Confirm(r)
    \/ \E n \in Runners : RunnerExits(n)
    \/ JobBegins
    \/ JobEnds
    \/ ManagerDies
    \/ ManagerStarts

Spec == Init /\ [][Next]_vars

-----------------------------------------------------------------------------
(* Properties that hold whatever the requests do.                          *)

\* "killing papaia-ctl mid-operation leaves the stack in exactly the half-done
\* state this whole module exists to avoid" (clear_runner): no request removes a
\* container that runs, not even when the name it decided to remove was cleared
\* and taken again by a new runner before its docker rm.
RunningIsNeverRemoved ==
    [][\A n \in Runners : status[n] = "running" => status'[n] # "absent"]_vars

\* The outcome of an upgrade or a restore leaves only through a request that
\* acknowledges that kind; a stack action never takes it along.
OutcomeNeedsAcknowledgement ==
    [][\A n \in Runners :
          status[n] = "exited" /\ status'[n] = "absent" /\ n.kind # "stack" =>
              \E r \in DOMAIN req : req[r].op = "clear" /\ req[r].victim = n]_vars

-----------------------------------------------------------------------------
(* Properties of requests served one after the other.                      *)

RunningOf(kind) == {n \in Runners : n.kind = kind /\ IsRunning(n)}

\* _require_idle, and the look for an upgrade in the other handlers: a running
\* upgrade is the only runner that runs.
UpgradeRunsAlone ==
    \A n, m \in Runners : n.kind = "upgrade" /\ IsRunning(n) /\ IsRunning(m) => n = m

\* A backup or a scoped restore that was accepted never shares its time with a
\* restore or an upgrade ("must not run alongside", BlockingRunner), and a
\* configuration job with no runner at all (require_idle_stack).
GuardedJobsRunAlone ==
    \A i \in DOMAIN pending :
        /\ jobOp[pending[i]] \in Guarded => RunningOf("restore") \cup RunningOf("upgrade") = {}
        /\ jobOp[pending[i]] = "config" => RunningOf("stack") = {}

\* "starting the next one before anybody has read it would discard the only
\* report of what happened" (_require_idle): a second upgrade or restore
\* container does not appear next to one that was not acknowledged.
UnreadOutcomeBlocks ==
    \A n, m \in Runners :
        Exists(n) /\ Exists(m) /\ n.kind = m.kind /\ n.kind # "stack" => n = m

-----------------------------------------------------------------------------
(* What the comments of the handlers say, and the code does not keep.      *)

\* start_upgrade: "two administrators clicking at once produce one runner and
\* one 409, not two upgrades."
OneUpgrade ==
    \A n, m \in RunningOf("upgrade") : n = m

=============================================================================
