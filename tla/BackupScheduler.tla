-------------------------- MODULE BackupScheduler --------------------------
(***************************************************************************)
(* core/scheduler.py: when a scheduled backup starts.  The three jobs of   *)
(* the APScheduler (the slot, the retry, the catch-up after a start), the  *)
(* fire() each of them runs, and schedule.yaml as api_maintenance.py       *)
(* edits it.                                                               *)
(*                                                                         *)
(* fire() suspends twice: while it asks Docker for a blocking runner, and  *)
(* while a thread reads the catalogue.  Everything else can happen there,  *)
(* a change of the schedule and a fire() of another job included; of one   *)
(* job there is one fire() at a time (max_instances).                      *)
(*                                                                         *)
(* Time is counted in units of RETRY_DELAY (ten minutes).  APScheduler     *)
(* runs a job at its time, and a fire() takes less than a unit: no unit    *)
(* passes while a job is due or a fire() is on its way.                    *)
(***************************************************************************)
EXTENDS Naturals, Sequences

CONSTANTS
    Versions,       \* enabled schedules the editor can save
    MaxAttempts,    \* MAX_ATTEMPTS
    MinInterval,    \* MIN_INTERVAL, in units of RETRY_DELAY
    MaxInterval,    \* bound: the longest gap between two slots
    MaxQueue        \* bound: jobs in the queue

ASSUME MaxAttemptsAssumption == MaxAttempts \in Nat \ {0}
ASSUME IntervalAssumption ==
    MinInterval \in Nat /\ MaxInterval \in Nat /\ MinInterval <= MaxInterval
\* "tried again, up to an hour in all", and MIN_INTERVAL is an hour.
ASSUME HourAssumption == MaxAttempts <= MinInterval
ASSUME MaxQueueAssumption == MaxQueue \in Nat
ASSUME VersionsAssumption == Versions \cap {"none", "off"} = {}

VARIABLES
    up,             \* the manager process runs
    file,           \* schedule.yaml: "none", "off" or the enabled schedule it holds
    slot,           \* the job JOB_ID: [of, in]; of is "none" when there is no job
    retry,          \* the job RETRY_JOB_ID: [in, attempt, from, stale]; attempt 0: none
    catchup,        \* the job CATCHUP_JOB_ID is waiting
    fires,          \* job id -> its fire(): [phase, attempt, from, stale]
    queue,          \* JobQueue: "scheduled" and "other" jobs, the head runs
    runner,         \* a restore or an upgrade runner runs
    reachable,      \* the backup directory is mounted
    owed,           \* history: a run came due that was neither started nor given up
    unaudited       \* history: a write to audit.log failed since the last apply()

history == <<owed, unaudited>>
environment == <<queue, runner, reachable>>
vars == <<up, file, slot, retry, catchup, fires, environment, history>>

Ids == {"slot", "retry", "catchup"}
NoSlot == [of |-> "none", in |-> 0]
NoRetry == [in |-> 0, attempt |-> 0, from |-> "slot", stale |-> FALSE]
NoFire == [phase |-> "idle", attempt |-> 0, from |-> "slot", stale |-> FALSE]
NoFires == [i \in Ids |-> NoFire]

TypeOK ==
    /\ up \in BOOLEAN
    /\ file \in Versions \cup {"none", "off"}
    /\ slot \in [of : Versions \cup {"none"}, in : 0 .. MaxInterval]
    /\ retry \in [in : 0 .. 1, attempt : 0 .. MaxAttempts, from : Ids, stale : BOOLEAN]
    /\ catchup \in BOOLEAN
    /\ fires \in [Ids -> [phase : {"idle", "runner", "points"}, attempt : 0 .. MaxAttempts,
                          from : Ids, stale : BOOLEAN]]
    /\ queue \in Seq({"scheduled", "other"})
    /\ Len(queue) <= MaxQueue
    /\ runner \in BOOLEAN
    /\ reachable \in BOOLEAN
    /\ owed \in BOOLEAN
    /\ unaudited \in BOOLEAN

Enabled(f) == f \in Versions

Init ==
    /\ up = FALSE
    /\ file \in Versions \cup {"none", "off"}
    /\ slot = NoSlot
    /\ retry = NoRetry
    /\ catchup = FALSE
    /\ fires = NoFires
    /\ queue = <<>>
    /\ runner \in BOOLEAN
    /\ reachable \in BOOLEAN
    /\ owed = FALSE
    /\ unaudited = FALSE

-----------------------------------------------------------------------------
(* The schedule.                                                           *)

\* The job of schedule f: the next slot of a cron expression may be any time off.
SlotOf(f, s) ==
    IF Enabled(f) THEN \E n \in 0 .. MaxInterval : s = [of |-> f, in |-> n]
    ELSE s = NoSlot

\* Mutant of Apply: the slot of a schedule that was removed stays.
ApplyKeepsSlot(f) ==
    /\ retry' = NoRetry
    /\ catchup' = FALSE
    /\ IF Enabled(f) THEN SlotOf(f, slot') ELSE UNCHANGED slot
    /\ fires' = [i \in Ids |-> IF fires[i].phase = "idle" THEN NoFire
                               ELSE [fires[i] EXCEPT !.stale = TRUE]]
    /\ owed' = FALSE
    /\ unaudited' = FALSE

\* apply(): retry and catch-up go, the slot is replaced or removed.  A fire()
\* that is on its way belongs to the schedule that was replaced.
Apply(f) ==
    /\ retry' = NoRetry
    /\ catchup' = FALSE
    /\ SlotOf(f, slot')
    /\ fires' = [i \in Ids |-> IF fires[i].phase = "idle" THEN NoFire
                               ELSE [fires[i] EXCEPT !.stale = TRUE]]
    /\ owed' = FALSE
    /\ unaudited' = FALSE

\* start(): reload, then a catch-up if the catalogue has no recent backup.
Start ==
    /\ ~up
    /\ up' = TRUE
    /\ SlotOf(file, slot')
    /\ catchup' \in (IF Enabled(file) THEN BOOLEAN ELSE {FALSE})
    /\ UNCHANGED <<file, retry, fires, environment, history>>

\* The process ends: shutdown(), or it is killed.  The job store was in memory.
Stop ==
    /\ up
    /\ up' = FALSE
    /\ slot' = NoSlot
    /\ retry' = NoRetry
    /\ catchup' = FALSE
    /\ fires' = NoFires
    /\ queue' = <<>>
    /\ owed' = FALSE
    /\ unaudited' = FALSE
    /\ UNCHANGED <<file, runner, reachable>>

\* put_schedule and delete_schedule: write the file, audit, apply.  Putting a
\* schedule needs the backup directory.
Change(f) ==
    /\ up
    /\ ~runner
    /\ f # "none" => reachable
    /\ file' = f
    /\ Apply(f)
    /\ UNCHANGED <<up, environment>>

\* The same, when the audit entry cannot be written: the file is, apply is not called.
ChangeUnaudited(f) ==
    /\ up
    /\ ~runner
    /\ f # "none" => reachable
    /\ file' = f
    /\ unaudited' = TRUE
    /\ UNCHANGED <<up, slot, retry, catchup, fires, environment, owed>>

-----------------------------------------------------------------------------
(* fire()                                                                  *)

Idle(i) == fires' = [fires EXCEPT ![i] = NoFire]

\* The job store after the job of fire() i was taken from it: a cron job stays.
Taken(i) == IF i = "retry" THEN NoRetry ELSE retry

\* Mutant of Skip: the retry does not count the attempt.
SkipUncounted(i, f, stored) ==
    /\ Idle(i)
    /\ retry' = [in |-> 1, attempt |-> f.attempt, from |-> f.from, stale |-> f.stale]
    /\ owed' = TRUE
    /\ UNCHANGED unaudited

\* _skip: audit, then give up or plan the retry, replacing one that is planned.
Skip(i, f, stored) ==
    /\ Idle(i)
    /\ \/ /\ f.attempt >= MaxAttempts
          /\ retry' = stored
          /\ owed' = FALSE
          /\ UNCHANGED unaudited
       \/ /\ f.attempt < MaxAttempts
          /\ retry' = [in |-> 1, attempt |-> f.attempt + 1, from |-> f.from, stale |-> f.stale]
          /\ owed' = TRUE
          /\ UNCHANGED unaudited
       \/ /\ retry' = stored            \* the audit entry cannot be written
          /\ owed' = TRUE
          /\ unaudited' = TRUE

\* Mutant of Begin: the schedule is not read again.
BeginUnread(i, f) ==
    \/ /\ ~reachable
       /\ Skip(i, f, Taken(i))
    \/ /\ reachable
       /\ fires' = [fires EXCEPT ![i] = [f EXCEPT !.phase = "runner"]]
       /\ retry' = Taken(i)
       /\ owed' = TRUE
       /\ UNCHANGED unaudited

\* The first part: schedule.yaml and the backup directory.
Begin(i, f) ==
    \/ /\ ~Enabled(file)
       /\ Idle(i)
       /\ retry' = Taken(i)
       /\ owed' = FALSE
       /\ UNCHANGED unaudited
    \/ /\ Enabled(file) /\ ~reachable
       /\ Skip(i, f, Taken(i))
    \/ /\ Enabled(file) /\ reachable
       /\ fires' = [fires EXCEPT ![i] = [f EXCEPT !.phase = "runner"]]
       /\ retry' = Taken(i)
       /\ owed' = TRUE
       /\ UNCHANGED unaudited

\* _on_schedule; the cron trigger gives the next slot.
SlotDue ==
    /\ slot.of # "none" /\ slot.in = 0
    /\ fires["slot"].phase = "idle"
    /\ Begin("slot", [NoFire EXCEPT !.attempt = 1])
    /\ \E n \in MinInterval .. MaxInterval : slot' = [slot EXCEPT !.in = n]
    /\ UNCHANGED <<up, file, catchup, environment>>

RetryDue ==
    /\ retry.attempt # 0 /\ retry.in = 0
    /\ fires["retry"].phase = "idle"
    /\ Begin("retry", [NoFire EXCEPT !.attempt = retry.attempt, !.from = retry.from,
                                     !.stale = retry.stale])
    /\ UNCHANGED <<up, file, slot, catchup, environment>>

CatchupDue ==
    /\ catchup
    /\ catchup' = FALSE
    /\ Begin("catchup", [NoFire EXCEPT !.attempt = 1, !.from = "catchup"])
    /\ UNCHANGED <<up, file, slot, environment>>

\* blocking_runner has answered; then active_job, with no await in between.
RunnerAnswer(i) ==
    /\ fires[i].phase = "runner"
    /\ IF runner \/ queue # <<>>
       THEN Skip(i, fires[i], retry)
       ELSE /\ fires' = [fires EXCEPT ![i].phase = "points"]
            /\ UNCHANGED <<retry, history>>
    /\ UNCHANGED <<up, file, slot, catchup, environment>>

\* The catalogue is read: plan the retention, enqueue.
PointsAnswer(i) ==
    /\ fires[i].phase = "points"
    /\ Len(queue) < MaxQueue
    /\ queue' = Append(queue, "scheduled")
    /\ Idle(i)
    /\ owed' = FALSE
    /\ UNCHANGED <<up, file, slot, retry, catchup, runner, reachable, unaudited>>

-----------------------------------------------------------------------------
(* The rest of the system, and time.                                       *)

OtherJob ==
    /\ up
    /\ Len(queue) + 1 < MaxQueue
    /\ queue' = Append(queue, "other")
    /\ UNCHANGED <<up, file, slot, retry, catchup, fires, runner, reachable, history>>

JobEnds ==
    /\ queue # <<>>
    /\ queue' = Tail(queue)
    /\ UNCHANGED <<up, file, slot, retry, catchup, fires, runner, reachable, history>>

RunnerChanges ==
    /\ runner' = ~runner
    /\ UNCHANGED <<up, file, slot, retry, catchup, fires, queue, reachable, history>>

MountChanges ==
    /\ reachable' = ~reachable
    /\ UNCHANGED <<up, file, slot, retry, catchup, fires, queue, runner, history>>

Tick ==
    /\ up
    /\ fires = NoFires
    /\ ~catchup
    /\ slot.of # "none" => slot.in > 0
    /\ retry.attempt # 0 => retry.in > 0
    /\ slot.of # "none" \/ retry.attempt # 0
    /\ slot' = IF slot.of = "none" THEN slot ELSE [slot EXCEPT !.in = @ - 1]
    /\ retry' = IF retry.attempt = 0 THEN retry ELSE [retry EXCEPT !.in = @ - 1]
    /\ UNCHANGED <<up, file, catchup, fires, environment, history>>

Fires == \E i \in Ids : RunnerAnswer(i) \/ PointsAnswer(i)
Dues == SlotDue \/ RetryDue \/ CatchupDue

Next ==
    \/ Start
    \/ Stop
    \/ \E f \in Versions \cup {"none", "off"} : Change(f) \/ ChangeUnaudited(f)
    \/ SlotDue
    \/ RetryDue
    \/ CatchupDue
    \/ \E i \in Ids : RunnerAnswer(i) \/ PointsAnswer(i)
    \/ OtherJob
    \/ JobEnds
    \/ RunnerChanges
    \/ MountChanges
    \/ Tick

Spec == Init /\ [][Next]_vars

\* APScheduler runs what is due, fire() gets its answers, jobs end and time passes.
FairSpec == Spec /\ WF_vars(Dues) /\ WF_vars(Fires) /\ WF_vars(JobEnds) /\ WF_vars(Tick)

-----------------------------------------------------------------------------
(* Properties                                                              *)

\* BackupScheduler "keeps its one job in step with schedule.yaml": the slot
\* that is waiting is the one the file describes, as long as the audit log can be
\* written (put_schedule and delete_schedule write it between file and apply()).
InStep ==
    up /\ ~unaudited => slot.of = IF Enabled(file) THEN file ELSE "none"

\* MAX_ATTEMPTS, RETRY_DELAY and MIN_INTERVAL fit: when a slot comes due, the
\* retries of the slot before it are over, so that no slot cuts a run's hour
\* short.  (A catch-up comes when it comes, and a fire() that a change of the
\* schedule overtook leaves a retry behind that counts from its own start.)
RetriesEndBeforeNextSlot ==
    slot.of # "none" /\ slot.in = 0 /\ retry.attempt # 0 =>
        retry.from = "catchup" \/ retry.stale

\* The slot that waits is the right one, and its retries do not run into the next.
ScheduleHolds == TypeOK /\ InStep /\ RetriesEndBeforeNextSlot

\* fire() reads schedule.yaml again, so a retry or a slot that is left behind when
\* the schedule was removed does nothing: once no fire() is on its way, none gets
\* past its first part, and so no backup is queued.
RemovedIsQuiet ==
    [][~Enabled(file) /\ fires = NoFires => fires' = NoFires]_vars

\* "A run that cannot start [...] is tried again, up to an hour in all": every
\* run that came due is started or given up, unless the schedule or the process
\* goes away first, or _skip could not write its audit entry.
DueIsSettled == owed ~> (~owed \/ unaudited)

=============================================================================
