---------------------------- MODULE BackupProofs ----------------------------
(***************************************************************************)
(* Scheduled backups: the schedule and its retries, for every set of       *)
(* schedules and for every number of attempts that fits between two slots; *)
(* and their pruning, which never removes the last successful restore      *)
(* point, for every set of schedules the validator accepts.                *)
(*                                                                         *)
(* That the retries end before the next slot is not inductive: it needs    *)
(* how far the next slot is from each attempt (Distances), for the retry   *)
(* that waits and for the fire() that is about to plan one.                *)
(*                                                                         *)
(* Of the pruning, the plan is made at one moment and carried out at a     *)
(* later one. What carries the argument from the first to the second is    *)
(* RunSparesOne: a point that is at most 1.5 gaps old when the run is      *)
(* planned is at most 1.5 gaps + MaxRun <= 2 gaps <= retention old when    *)
(* the run prunes.                                                         *)
(***************************************************************************)
EXTENDS BackupScheduler, BackupRetention, TLAPS

USE MaxAttemptsAssumption, IntervalAssumption, HourAssumption, MaxQueueAssumption, VersionsAssumption

-----------------------------------------------------------------------------
(* The inductive invariant.                                                *)

\* A process that does not run has no job store.
DownIsEmpty ==
    ~up => slot = NoSlot /\ retry = NoRetry /\ ~catchup /\ fires = NoFires /\ ~unaudited

\* No retry counts from a retry.
Origins ==
    /\ retry.from # "retry"
    /\ \A i \in Ids : fires[i].from # "retry"

\* Attempt a of a slot is made at least MinInterval - (a - 1) units before the next slot, and the
\* retry after it is planned one unit later.
Distances ==
    slot.of # "none" =>
        /\ retry.attempt # 0 /\ retry.from = "slot" /\ ~retry.stale =>
              slot.in + retry.attempt >= MinInterval + retry.in + 1
        /\ \A i \in Ids : fires[i].phase # "idle" /\ fires[i].from = "slot" /\ ~fires[i].stale =>
              slot.in + fires[i].attempt >= MinInterval + 1

SchedulerInv == TypeOK /\ InStep /\ DownIsEmpty /\ Origins /\ Distances


-----------------------------------------------------------------------------
(* Types.                                                                  *)

SlotRecords == [of : Versions \cup {"none"}, in : 0 .. MaxInterval]
RetryRecords == [in : 0 .. 1, attempt : 0 .. MaxAttempts, from : Ids, stale : BOOLEAN]
FireRecords == [phase : {"idle", "runner", "points"}, attempt : 0 .. MaxAttempts,
                from : Ids, stale : BOOLEAN]

LEMMA EmptyRecords ==
    /\ NoSlot \in SlotRecords /\ NoRetry \in RetryRecords /\ NoFire \in FireRecords
    /\ NoFires \in [Ids -> FireRecords]
BY DEF NoSlot, NoRetry, NoFire, NoFires, SlotRecords, RetryRecords, FireRecords, Ids

LEMMA SlotOfType ==
    ASSUME NEW f, NEW s, SlotOf(f, s)
    PROVE  s \in SlotRecords /\ s.of = IF Enabled(f) THEN f ELSE "none"
BY DEF SlotOf, Enabled, NoSlot, SlotRecords

LEMMA ApplyType ==
    ASSUME TypeOK, NEW f, Apply(f)
    PROVE  /\ slot' \in SlotRecords /\ retry' \in RetryRecords /\ catchup' \in BOOLEAN
           /\ fires' \in [Ids -> FireRecords] /\ owed' \in BOOLEAN /\ unaudited' \in BOOLEAN
<1>1. ASSUME NEW i \in Ids PROVE [fires[i] EXCEPT !.stale = TRUE] \in FireRecords
  <2>1. fires[i] \in FireRecords
    BY DEF TypeOK, FireRecords
  <2>2. QED
    BY <2>1 DEF FireRecords
<1>2. QED
  BY <1>1, EmptyRecords, SlotOfType DEF Apply

\* What fire() leaves in the job store, whatever it does.
LEMMA SkipType ==
    ASSUME TypeOK, NEW i \in Ids, NEW f \in FireRecords, NEW stored \in RetryRecords,
           Skip(i, f, stored)
    PROVE  /\ retry' \in RetryRecords /\ fires' = [fires EXCEPT ![i] = NoFire]
           /\ fires' \in [Ids -> FireRecords] /\ owed' \in BOOLEAN /\ unaudited' \in BOOLEAN
           /\ unaudited => unaudited'
<1>1. fires' = [fires EXCEPT ![i] = NoFire] /\ fires' \in [Ids -> FireRecords]
  BY EmptyRecords DEF Skip, Idle, TypeOK, FireRecords
<1>2. ASSUME f.attempt < MaxAttempts,
             retry' = [in |-> 1, attempt |-> f.attempt + 1, from |-> f.from, stale |-> f.stale]
      PROVE  retry' \in RetryRecords
  <2>1. /\ f.attempt + 1 \in 0 .. MaxAttempts /\ 1 \in 0 .. 1
        /\ f.from \in Ids /\ f.stale \in BOOLEAN
    BY <1>2 DEF FireRecords
  <2>2. \A a \in 0 .. MaxAttempts, g \in Ids, s \in BOOLEAN :
           [in |-> 1, attempt |-> a, from |-> g, stale |-> s] \in RetryRecords
    BY DEF RetryRecords
  <2>3. QED
    BY <1>2, <2>1, <2>2
<1>3. retry' \in RetryRecords
  BY <1>2 DEF Skip
<1>4. owed' \in BOOLEAN /\ unaudited' \in BOOLEAN /\ (unaudited => unaudited')
  <2>1. owed' \in BOOLEAN /\ (unaudited' = unaudited \/ unaudited' = TRUE)
    BY DEF Skip
  <2>2. unaudited \in BOOLEAN
    BY DEF TypeOK
  <2>3. QED
    <3>1. CASE unaudited' = unaudited
      BY <2>1, <2>2, <3>1
    <3>2. CASE unaudited' = TRUE
      BY <2>1, <3>2
    <3>3. QED
      BY <2>1, <3>1, <3>2
<1>5. QED
  BY <1>1, <1>3, <1>4

LEMMA BeginType ==
    ASSUME TypeOK, NEW i \in Ids, NEW f \in FireRecords, Begin(i, f)
    PROVE  /\ retry' \in RetryRecords
           /\ fires' \in [Ids -> FireRecords] /\ owed' \in BOOLEAN /\ unaudited' \in BOOLEAN
           /\ unaudited => unaudited'
<1>1. Taken(i) \in RetryRecords
  BY EmptyRecords DEF Taken, TypeOK, RetryRecords
<1>2. [f EXCEPT !.phase = "runner"] \in FireRecords
  BY DEF FireRecords
<1>3. CASE Skip(i, f, Taken(i))
  BY <1>1, <1>3, SkipType
<1>4. CASE /\ fires' = [fires EXCEPT ![i] = NoFire] \/ fires' = [fires EXCEPT ![i] = [f EXCEPT !.phase = "runner"]]
           /\ retry' = Taken(i) /\ owed' \in BOOLEAN /\ UNCHANGED unaudited
  <2>1. fires \in [Ids -> FireRecords] /\ unaudited \in BOOLEAN
    BY DEF TypeOK, FireRecords
  <2>2. QED
    BY <1>1, <1>2, <1>4, <2>1, EmptyRecords
<1>5. QED
  BY <1>3, <1>4 DEF Begin, Idle

LEMMA TypeNext == TypeOK /\ [Next]_vars => TypeOK'
<1> SUFFICES ASSUME TypeOK, [Next]_vars PROVE TypeOK'
  OBVIOUS
<1> USE DEF environment, history
<1> DEFINE T == /\ slot' \in SlotRecords /\ retry' \in RetryRecords
                /\ fires' \in [Ids -> FireRecords]
<1>0. /\ slot \in SlotRecords /\ retry \in RetryRecords /\ fires \in [Ids -> FireRecords]
  BY DEF TypeOK, SlotRecords, RetryRecords, FireRecords
<1> HIDE DEF T
<1>1. CASE Start
  <2>1. T
    BY <1>0, <1>1, SlotOfType DEF Start, T
  <2>2. QED
    BY <1>1, <2>1 DEF T, Start, TypeOK, SlotRecords, RetryRecords, FireRecords
<1>2. CASE Stop
  <2>1. T
    BY <1>0, <1>2, EmptyRecords DEF Stop, T
  <2>2. queue' \in Seq({"scheduled", "other"}) /\ Len(queue') <= MaxQueue
    BY <1>2 DEF Stop
  <2>3. QED
    BY <1>2, <2>1, <2>2 DEF T, Stop, TypeOK, SlotRecords, RetryRecords, FireRecords
<1>3. ASSUME NEW f \in Versions \cup {"none", "off"}, Change(f) \/ ChangeUnaudited(f) PROVE TypeOK'
  <2>1. CASE Change(f)
    BY <2>1, ApplyType DEF Change, TypeOK, SlotRecords, RetryRecords, FireRecords
  <2>2. CASE ChangeUnaudited(f)
    BY <2>2 DEF ChangeUnaudited, TypeOK
  <2>3. QED
    BY <1>3, <2>1, <2>2
<1>4. CASE SlotDue
  <2>1. [NoFire EXCEPT !.attempt = 1] \in FireRecords
    <3>1. 1 \in 0 .. MaxAttempts
      OBVIOUS
    <3>2. QED
      BY <3>1 DEF NoFire, FireRecords, Ids
  <2>2. slot' \in SlotRecords
    BY <1>0, <1>4 DEF SlotDue, SlotRecords
  <2>3. T /\ owed' \in BOOLEAN /\ unaudited' \in BOOLEAN
    BY <1>4, <2>1, <2>2, BeginType DEF SlotDue, T, Ids
  <2>4. QED
    BY <1>4, <2>3 DEF T, SlotDue, TypeOK, SlotRecords, RetryRecords, FireRecords
<1>5. CASE RetryDue
  <2>1. [NoFire EXCEPT !.attempt = retry.attempt, !.from = retry.from, !.stale = retry.stale]
           \in FireRecords
    BY <1>0 DEF NoFire, FireRecords, RetryRecords
  <2>2. T /\ owed' \in BOOLEAN /\ unaudited' \in BOOLEAN
    BY <1>0, <1>5, <2>1, BeginType DEF RetryDue, T, Ids
  <2>3. QED
    BY <1>5, <2>2 DEF T, RetryDue, TypeOK, SlotRecords, RetryRecords, FireRecords
<1>6. CASE CatchupDue
  <2>1. [NoFire EXCEPT !.attempt = 1, !.from = "catchup"] \in FireRecords
    <3>1. 1 \in 0 .. MaxAttempts
      OBVIOUS
    <3>2. QED
      BY <3>1 DEF NoFire, FireRecords, Ids
  <2>2. T /\ owed' \in BOOLEAN /\ unaudited' \in BOOLEAN
    BY <1>0, <1>6, <2>1, BeginType DEF CatchupDue, T, Ids
  <2>3. QED
    BY <1>6, <2>2 DEF T, CatchupDue, TypeOK, SlotRecords, RetryRecords, FireRecords
<1>7. ASSUME NEW i \in Ids, RunnerAnswer(i) PROVE TypeOK'
  <2>1. T /\ owed' \in BOOLEAN /\ unaudited' \in BOOLEAN
    <3>1. CASE Skip(i, fires[i], retry)
      BY <1>0, <1>7, <3>1, SkipType DEF RunnerAnswer, T
    <3>2. CASE fires' = [fires EXCEPT ![i].phase = "points"] /\ UNCHANGED <<retry, history>>
      BY <1>0, <1>7, <3>2 DEF RunnerAnswer, T, FireRecords, TypeOK
    <3>3. QED
      BY <1>7, <3>1, <3>2 DEF RunnerAnswer
  <2>2. QED
    BY <1>7, <2>1 DEF T, RunnerAnswer, TypeOK, SlotRecords, RetryRecords, FireRecords
<1>8. ASSUME NEW i \in Ids, PointsAnswer(i) PROVE TypeOK'
  <2>1. T
    BY <1>0, <1>8, EmptyRecords DEF PointsAnswer, Idle, T
  <2>2. queue' \in Seq({"scheduled", "other"}) /\ Len(queue') <= MaxQueue
    BY <1>8 DEF PointsAnswer, TypeOK
  <2>3. QED
    BY <1>8, <2>1, <2>2 DEF T, PointsAnswer, TypeOK, SlotRecords, RetryRecords, FireRecords
<1>9. CASE OtherJob \/ JobEnds \/ RunnerChanges \/ MountChanges
  <2>1. queue' \in Seq({"scheduled", "other"}) /\ Len(queue') <= MaxQueue
    <3>1. queue \in Seq({"scheduled", "other"}) /\ Len(queue) <= MaxQueue
      BY DEF TypeOK
    <3>2. CASE OtherJob
      BY <3>1, <3>2 DEF OtherJob
    <3>3. CASE JobEnds
      BY <3>1, <3>3 DEF JobEnds
    <3>4. CASE RunnerChanges \/ MountChanges
      BY <3>1, <3>4 DEF RunnerChanges, MountChanges
    <3>5. QED
      BY <1>9, <3>2, <3>3, <3>4
  <2>2. /\ runner' \in BOOLEAN /\ reachable' \in BOOLEAN
        /\ UNCHANGED <<up, file, slot, retry, catchup, fires, owed, unaudited>>
    <3>1. runner \in BOOLEAN /\ reachable \in BOOLEAN
      BY DEF TypeOK
    <3>2. (runner' = runner \/ runner' = ~runner) /\ (reachable' = reachable \/ reachable' = ~reachable)
      BY <1>9, Zenon DEF OtherJob, JobEnds, RunnerChanges, MountChanges
    <3>3. UNCHANGED <<up, file, slot, retry, catchup, fires, owed, unaudited>>
      BY <1>9 DEF OtherJob, JobEnds, RunnerChanges, MountChanges
    <3>4. QED
      BY <3>1, <3>2, <3>3
  <2>3. QED
    BY <2>1, <2>2 DEF TypeOK
<1>10. CASE Tick
  <2>1. slot' \in SlotRecords
    BY <1>0, <1>10 DEF Tick, SlotRecords
  <2>2. retry' \in RetryRecords
    BY <1>0, <1>10 DEF Tick, RetryRecords
  <2>3. QED
    BY <1>0, <1>10, <2>1, <2>2 DEF Tick, TypeOK, SlotRecords, RetryRecords, FireRecords
<1>11. CASE UNCHANGED vars
  BY <1>11 DEF TypeOK, vars
<1>12. QED
  BY <1>1, <1>2, <1>3, <1>4, <1>5, <1>6, <1>7, <1>8, <1>9, <1>10, <1>11 DEF Next

-----------------------------------------------------------------------------
(* The inductive invariant is kept.                                        *)

\* What the first part of a fire() does to the invariant.
LEMMA FirePart ==
    ASSUME NEW i \in Ids, NEW f \in FireRecords, Skip(i, f, retry) \/ Begin(i, f)
    PROVE  /\ fires' = [fires EXCEPT ![i] = NoFire]
              \/ fires' = [fires EXCEPT ![i] = [f EXCEPT !.phase = "runner"]]
           /\ \/ retry' = retry
              \/ retry' = NoRetry
              \/ /\ f.attempt < MaxAttempts
                 /\ retry' = [in |-> 1, attempt |-> f.attempt + 1, from |-> f.from, stale |-> f.stale]
BY DEF Skip, Begin, Idle, Taken

LEMMA SchedulerInvInit == Init => SchedulerInv
<1> SUFFICES ASSUME Init PROVE SchedulerInv
  OBVIOUS
<1>1. Len(queue) <= MaxQueue /\ queue \in Seq({"scheduled", "other"})
  BY DEF Init
<1>2. TypeOK
  BY <1>1, EmptyRecords DEF Init, TypeOK, SlotRecords, RetryRecords, FireRecords
<1>3. QED
  BY <1>2 DEF Init, SchedulerInv, InStep, DownIsEmpty, Origins, Distances, NoSlot, NoRetry, NoFire,
              NoFires, Ids

\* A fire() of attempt a, made at least MinInterval - (a - 1) units before the next slot, leaves
\* the invariant; so does one that belongs to no slot, or to one that was replaced.
LEMMA FireKeeps ==
    ASSUME SchedulerInv, TypeOK', NEW i \in Ids, NEW f \in FireRecords,
           Skip(i, f, retry) \/ Begin(i, f),
           f.from # "retry",
           f.from = "slot" /\ ~f.stale /\ slot'.of # "none" =>
              slot'.in + f.attempt >= MinInterval + 1,
           slot'.of = slot.of, slot'.in >= slot.in
    PROVE  Origins' /\ Distances'
<1>1. /\ slot.in \in Nat /\ slot'.in \in Nat /\ retry.in \in Nat /\ retry.attempt \in Nat
      /\ f.attempt \in Nat
      /\ \A k \in Ids : fires[k] \in FireRecords /\ fires[k].attempt \in Nat
      /\ fires \in [Ids -> FireRecords]
  BY DEF SchedulerInv, TypeOK, FireRecords
<1>2. Origins'
  <2>1. retry'.from # "retry"
    BY FirePart DEF SchedulerInv, Origins, NoRetry
  <2>2. ASSUME NEW k \in Ids PROVE fires'[k].from # "retry"
    <3>1. [f EXCEPT !.phase = "runner"].from = f.from /\ NoFire.from = "slot"
      BY DEF FireRecords, NoFire
    <3>2. fires'[k] \in {NoFire, fires[k], [f EXCEPT !.phase = "runner"]}
      BY <1>1, FirePart
    <3>3. QED
      BY <3>1, <3>2 DEF SchedulerInv, Origins
  <2>3. QED
    BY <2>1, <2>2 DEF Origins
<1>3. ASSUME slot'.of # "none", retry'.attempt # 0, retry'.from = "slot", ~retry'.stale
      PROVE  slot'.in + retry'.attempt >= MinInterval + retry'.in + 1
  <2>1. CASE retry' = retry
    BY <1>1, <1>3, <2>1 DEF SchedulerInv, Distances
  <2>2. CASE retry' = NoRetry
    BY <1>3, <2>2 DEF NoRetry
  <2>3. CASE retry' = [in |-> 1, attempt |-> f.attempt + 1, from |-> f.from, stale |-> f.stale]
    BY <1>1, <1>3, <2>3
  <2>4. QED
    BY <2>1, <2>2, <2>3, FirePart
<1>4. ASSUME slot'.of # "none", NEW k \in Ids,
             fires'[k].phase # "idle", fires'[k].from = "slot", ~fires'[k].stale
      PROVE  slot'.in + fires'[k].attempt >= MinInterval + 1
  <2>1. CASE k # i
    <3>1. fires'[k] = fires[k]
      BY <1>1, <2>1, FirePart
    <3>2. QED
      BY <1>1, <1>4, <3>1 DEF SchedulerInv, Distances
  <2>2. CASE k = i
    <3>1. fires'[k] = [f EXCEPT !.phase = "runner"]
      BY <1>1, <1>4, <2>2, FirePart DEF NoFire
    <3>2. fires'[k].from = f.from /\ fires'[k].stale = f.stale /\ fires'[k].attempt = f.attempt
      BY <3>1 DEF FireRecords
    <3>3. QED
      BY <1>1, <1>4, <3>2
  <2>3. QED
    BY <2>1, <2>2
<1>5. QED
  BY <1>2, <1>3, <1>4 DEF Distances

LEMMA SchedulerInvNext == SchedulerInv /\ [Next]_vars => SchedulerInv'
<1> SUFFICES ASSUME SchedulerInv, [Next]_vars PROVE SchedulerInv'
  OBVIOUS
<1>1. TypeOK /\ TypeOK'
  BY TypeNext DEF SchedulerInv
<1>2. /\ slot \in SlotRecords /\ retry \in RetryRecords /\ fires \in [Ids -> FireRecords]
      /\ slot.in \in Nat /\ retry.in \in Nat /\ retry.attempt \in Nat
      /\ slot'.in \in Nat /\ retry'.in \in Nat /\ retry'.attempt \in Nat
      /\ \A i \in Ids : fires[i] \in FireRecords /\ fires[i].attempt \in Nat
  BY <1>1 DEF TypeOK, SlotRecords, RetryRecords, FireRecords
<1> USE DEF environment, history
<1> USE DEF SchedulerInv
<1>3. CASE Start
  <2>1. slot' \in SlotRecords /\ slot'.of = IF Enabled(file) THEN file ELSE "none"
    BY <1>3, SlotOfType DEF Start
  <2>2. /\ retry' = NoRetry /\ fires' = NoFires /\ file' = file /\ up' = TRUE
    BY <1>3 DEF Start, DownIsEmpty
  <2>3. QED
    BY <1>1, <2>1, <2>2 DEF InStep, DownIsEmpty, Origins, Distances, NoRetry, NoFires, NoFire, Enabled
<1>4. CASE Stop
  BY <1>1, <1>4 DEF Stop, InStep, DownIsEmpty, Origins, Distances, NoSlot, NoRetry, NoFires, NoFire
<1>5. ASSUME NEW f \in Versions \cup {"none", "off"}, Change(f) PROVE SchedulerInv'
  <2>1. Apply(f) /\ up /\ up' /\ file' = f
    BY <1>5 DEF Change
  <2>2. slot'.of = (IF Enabled(f) THEN f ELSE "none") /\ retry' = NoRetry
    BY <2>1, SlotOfType DEF Apply
  <2>3. ASSUME NEW i \in Ids
        PROVE  fires'[i].from # "retry" /\ (fires'[i].phase = "idle" \/ fires'[i].stale)
    BY <1>2, <2>1 DEF Apply, NoFire, FireRecords, Origins
  <2>4. QED
    BY <1>1, <2>1, <2>2, <2>3 DEF InStep, DownIsEmpty, Origins, Distances, NoRetry, Enabled
<1>6. ASSUME NEW f \in Versions \cup {"none", "off"}, ChangeUnaudited(f) PROVE SchedulerInv'
  BY <1>1, <1>6 DEF ChangeUnaudited, InStep, DownIsEmpty, Origins, Distances
<1>7. ASSUME NEW i \in Ids, NEW f \in FireRecords, Skip(i, f, retry) \/ Begin(i, f),
             UNCHANGED <<up, file>>, up, slot'.of = slot.of,
             Origins' /\ Distances'
      PROVE  SchedulerInv'
  <2>1. unaudited => unaudited'
    BY <1>1, <1>2, <1>7, SkipType, BeginType
  <2>2. QED
    BY <1>1, <1>7, <2>1 DEF InStep, DownIsEmpty, Enabled
<1>8. CASE SlotDue
  <2> DEFINE f == [NoFire EXCEPT !.attempt = 1]
  <2>1. f \in FireRecords /\ f.from = "slot" /\ f.attempt = 1
    <3>1. 1 \in 0 .. MaxAttempts
      OBVIOUS
    <3>2. QED
      BY <3>1 DEF NoFire, FireRecords, Ids
  <2>2. /\ Begin("slot", f) /\ up /\ UNCHANGED <<up, file>>
        /\ slot.in = 0 /\ slot'.of = slot.of /\ slot'.in >= MinInterval
    BY <1>2, <1>8 DEF SlotDue, DownIsEmpty, NoSlot, SlotRecords
  <2> HIDE DEF f
  <2>3. Origins' /\ Distances'
    <3>1. f.from # "retry" /\ slot'.of = slot.of /\ slot'.in >= slot.in
      BY <1>2, <2>1, <2>2
    <3>2. f.from = "slot" /\ ~f.stale /\ slot'.of # "none" => slot'.in + f.attempt >= MinInterval + 1
      BY <1>2, <2>1, <2>2
    <3>3. "slot" \in Ids /\ SchedulerInv
      BY DEF Ids
    <3>4. QED
      BY <1>1, <2>1, <2>2, <3>1, <3>2, <3>3, FireKeeps
  <2>4. QED
    BY <1>7, <2>1, <2>2, <2>3 DEF Ids
<1>9. CASE RetryDue
  <2> DEFINE f == [NoFire EXCEPT !.attempt = retry.attempt, !.from = retry.from,
                                 !.stale = retry.stale]
  <2>1. /\ f \in FireRecords /\ f.from = retry.from /\ f.attempt = retry.attempt
        /\ f.stale = retry.stale
    BY <1>2 DEF NoFire, FireRecords, RetryRecords
  <2>2. /\ Begin("retry", f) /\ up /\ UNCHANGED <<up, file, slot>>
        /\ retry.attempt # 0 /\ retry.in = 0
    BY <1>9 DEF RetryDue, DownIsEmpty, NoRetry
  <2> HIDE DEF f
  <2>3. Origins' /\ Distances'
    <3>1. f.from # "retry" /\ slot'.of = slot.of /\ slot'.in >= slot.in
      BY <1>2, <2>1, <2>2 DEF Origins, Distances
    <3>2. f.from = "slot" /\ ~f.stale /\ slot'.of # "none" => slot'.in + f.attempt >= MinInterval + 1
      BY <1>2, <2>1, <2>2 DEF Origins, Distances
    <3>3. "retry" \in Ids /\ SchedulerInv
      BY DEF Ids
    <3>4. QED
      BY <1>1, <2>1, <2>2, <3>1, <3>2, <3>3, FireKeeps
  <2>4. QED
    BY <1>7, <2>1, <2>2, <2>3 DEF Ids
<1>10. CASE CatchupDue
  <2> DEFINE f == [NoFire EXCEPT !.attempt = 1, !.from = "catchup"]
  <2>1. f \in FireRecords /\ f.from = "catchup"
    <3>1. 1 \in 0 .. MaxAttempts
      OBVIOUS
    <3>2. QED
      BY <3>1 DEF NoFire, FireRecords, Ids
  <2>2. /\ Begin("catchup", f) /\ up /\ UNCHANGED <<up, file, slot>>
    BY <1>10 DEF CatchupDue, DownIsEmpty
  <2> HIDE DEF f
  <2>3. Origins' /\ Distances'
    <3>1. f.from # "retry" /\ slot'.of = slot.of /\ slot'.in >= slot.in
      BY <1>2, <2>1, <2>2
    <3>2. f.from = "slot" /\ ~f.stale /\ slot'.of # "none" => slot'.in + f.attempt >= MinInterval + 1
      BY <1>2, <2>1, <2>2
    <3>3. "catchup" \in Ids /\ SchedulerInv
      BY DEF Ids
    <3>4. QED
      BY <1>1, <2>1, <2>2, <3>1, <3>2, <3>3, FireKeeps
  <2>4. QED
    BY <1>7, <2>1, <2>2, <2>3 DEF Ids
<1>11. ASSUME NEW i \in Ids, RunnerAnswer(i) PROVE SchedulerInv'
  <2>1. up /\ UNCHANGED <<up, file, slot>> /\ fires[i].phase # "idle"
    BY <1>11 DEF RunnerAnswer, DownIsEmpty, NoFires, NoFire
  <2>2. CASE Skip(i, fires[i], retry)
    <3>1. Origins' /\ Distances'
      BY <1>1, <1>2, <2>1, <2>2, FireKeeps DEF Origins, Distances
    <3>2. QED
      BY <1>2, <1>7, <2>1, <2>2, <3>1
  <2>3. CASE fires' = [fires EXCEPT ![i].phase = "points"] /\ UNCHANGED <<retry, history>>
    <3>1. ASSUME NEW k \in Ids
          PROVE  /\ fires'[k].from = fires[k].from /\ fires'[k].attempt = fires[k].attempt
                 /\ fires'[k].stale = fires[k].stale
                 /\ fires'[k].phase # "idle" => fires[k].phase # "idle"
      BY <1>2, <2>1, <2>3 DEF FireRecords
    <3>2. QED
      BY <1>1, <2>1, <2>3, <3>1 DEF InStep, DownIsEmpty, Origins, Distances
  <2>4. QED
    BY <1>11, <2>2, <2>3 DEF RunnerAnswer
<1>12. ASSUME NEW i \in Ids, PointsAnswer(i) PROVE SchedulerInv'
  <2>1. up /\ UNCHANGED <<up, file, slot, retry, unaudited>>
    BY <1>12 DEF PointsAnswer, DownIsEmpty, NoFires, NoFire
  <2>2. ASSUME NEW k \in Ids PROVE fires'[k] \in {fires[k], NoFire}
    BY <1>2, <1>12 DEF PointsAnswer, Idle
  <2>3. NoFire.from = "slot" /\ NoFire.phase = "idle"
    BY DEF NoFire
  <2>4. QED
    BY <1>1, <2>1, <2>2, <2>3 DEF InStep, DownIsEmpty, Origins, Distances
<1>13. CASE OtherJob \/ JobEnds \/ RunnerChanges \/ MountChanges
  BY <1>1, <1>13 DEF OtherJob, JobEnds, RunnerChanges, MountChanges, InStep, DownIsEmpty, Origins,
     Distances
<1>14. CASE Tick
  <2>1. /\ up /\ UNCHANGED <<up, file, fires, unaudited>> /\ fires = NoFires
        /\ slot'.of = slot.of
        /\ retry'.attempt = retry.attempt /\ retry'.from = retry.from /\ retry'.stale = retry.stale
    BY <1>2, <1>14 DEF Tick, SlotRecords, RetryRecords
  <2>2. /\ slot.of # "none" => slot'.in = slot.in - 1
        /\ retry.attempt # 0 => retry'.in = retry.in - 1
    BY <1>2, <1>14 DEF Tick, SlotRecords, RetryRecords
  <2>3. QED
    BY <1>1, <1>2, <2>1, <2>2 DEF InStep, DownIsEmpty, Origins, Distances, NoFires, NoFire
<1>15. CASE UNCHANGED vars
  BY <1>1, <1>15 DEF vars, InStep, DownIsEmpty, Origins, Distances
<1>16. QED
  BY <1>3, <1>4, <1>5, <1>6, <1>8, <1>9, <1>10, <1>11, <1>12, <1>13, <1>14, <1>15 DEF Next

-----------------------------------------------------------------------------
(* The theorems.                                                           *)

\* The invariant holds in every state.
LEMMA SchedulerInvAlways == Spec => []SchedulerInv
BY SchedulerInvInit, SchedulerInvNext, PTL DEF Spec

\* The slot that waits is the one schedule.yaml describes, and the retries of a slot are over when
\* the next one comes due: for every number of attempts that fits into MIN_INTERVAL, whatever is
\* edited while a fire() waits for Docker or for the catalogue (apply, fire, _skip).
THEOREM ScheduleHoldsAlways == Spec => []ScheduleHolds
<1>1. SchedulerInv => ScheduleHolds
  <2> SUFFICES ASSUME SchedulerInv, slot.of # "none", slot.in = 0, retry.attempt # 0,
                      retry.from # "catchup", ~retry.stale
               PROVE  FALSE
    BY DEF SchedulerInv, ScheduleHolds, RetriesEndBeforeNextSlot
  <2>1. retry.from = "slot"
    BY DEF SchedulerInv, TypeOK, Origins, Ids
  <2>2. retry.attempt \in 0 .. MaxAttempts /\ retry.in \in Nat
    BY DEF SchedulerInv, TypeOK
  <2>3. retry.attempt >= MinInterval + retry.in + 1
    BY <2>1, <2>2 DEF SchedulerInv, Distances
  <2>4. QED
    BY <2>2, <2>3
<1>2. QED
  BY <1>1, SchedulerInvAlways, PTL

\* No step of fire() takes a run past the schedule it reads: what is left of a schedule that was
\* removed never reaches Docker or the queue (Begin reads the file again).
THEOREM RemovedIsQuietAlways == Spec => RemovedIsQuiet
<1>1. SchedulerInv /\ [Next]_vars => [~Enabled(file) /\ fires = NoFires => fires' = NoFires]_vars
  <2> SUFFICES ASSUME SchedulerInv, [Next]_vars, ~Enabled(file), fires = NoFires
               PROVE  fires' = NoFires
    OBVIOUS
  <2>1. ASSUME NEW i \in Ids PROVE fires[i].phase = "idle" /\ [fires EXCEPT ![i] = NoFire] = NoFires
    BY DEF NoFires, NoFire
  <2>2. ASSUME NEW i \in Ids, NEW f, Begin(i, f) PROVE fires' = NoFires
    BY <2>1, <2>2 DEF Begin, Idle
  <2>3. CASE SlotDue \/ RetryDue \/ CatchupDue
    BY <2>2, <2>3 DEF SlotDue, RetryDue, CatchupDue, Ids
  <2>4. ASSUME NEW f, Change(f) PROVE fires' = NoFires
    BY <2>1, <2>4 DEF Change, Apply, NoFires
  <2>5. ASSUME NEW i \in Ids, RunnerAnswer(i) \/ PointsAnswer(i) PROVE FALSE
    BY <2>1, <2>5 DEF RunnerAnswer, PointsAnswer
  <2>6. QED
    BY <2>3, <2>4, <2>5 DEF Next, vars, Start, Stop, ChangeUnaudited, OtherJob, JobEnds,
       RunnerChanges, MountChanges, Tick
<1>2. QED
  BY <1>1, SchedulerInvAlways, PTL DEF Spec, RemovedIsQuiet

-----------------------------------------------------------------------------
(* The retention period.                                                   *)


\* No restore point is from the future; a run ends within MaxRun.
TimeInv ==
    /\ \A p \in points : p.at <= now
    /\ run.active => run.at <= now /\ now <= run.at + MaxRun

RetentionInv == RetentionTypeOK /\ TimeInv /\ RunSparesOne

USE SchedulesAssumption, MaxRunAssumption, HorizonAssumption

\* A plan that prunes has seen a restore point that outlives the run.
LEMMA PlanSparesOne ==
    ASSUME RetentionTypeOK, TimeInv, Plan # 0
    PROVE  \E p \in Good(points) : now + MaxRun <= p.at + Plan
<1>1. PICK p \in Good(points) : Recent(p)
  BY DEF Plan
<1>2. /\ p.at \in Nat
      /\ p.at <= now
      /\ p \in points
  BY DEF Good, RetentionTypeOK, TimeInv
<1>3. Plan = schedule.retention
  BY DEF Plan
<1>4. /\ schedule.longest \in Nat
      /\ schedule.retention \in Nat
      /\ schedule.retention >= 2 * schedule.longest
      /\ 2 * MaxRun <= schedule.longest
  BY DEF RetentionTypeOK
<1>5. now + MaxRun <= p.at + schedule.retention
  BY <1>1, <1>2, <1>4 DEF Recent, RetentionTypeOK
<1>6. QED
  BY <1>3, <1>5

LEMMA RetentionInvNext == RetentionInv /\ [RetentionNext]_retentionVars => RetentionInv'
<1> SUFFICES ASSUME RetentionInv, [RetentionNext]_retentionVars PROVE RetentionInv'
  OBVIOUS
<1> USE DEF RetentionInv
<1>1. CASE TimePasses
  BY <1>1 DEF TimePasses, RetentionTypeOK, TimeInv, RunSparesOne, Good
<1>2. CASE Fire
  <2>1. Plan \in Nat
    BY DEF Plan, RetentionTypeOK
  <2>2. RetentionTypeOK' /\ TimeInv'
    BY <1>2, <2>1 DEF Fire, RetentionTypeOK, TimeInv
  <2>3. RunSparesOne'
    <3>1. /\ run'.retention = Plan
          /\ run'.at = now
          /\ points' = points
      BY <1>2 DEF Fire
    <3>2. QED
      BY <3>1, PlanSparesOne DEF RunSparesOne
  <2>4. QED
    BY <2>2, <2>3
<1>3. ASSUME NEW s \in Schedules, Edit(s) PROVE RetentionInv'
  BY <1>3 DEF Edit, RetentionTypeOK, TimeInv, RunSparesOne
<1>4. ASSUME NEW r \in Results, EndRun(r) PROVE RetentionInv'
  <2>1. [at |-> now, result |-> r] \in [at : Nat, result : Results]
    BY DEF RetentionTypeOK
  <2>2. /\ points' \in SUBSET [at : Nat, result : Results]
        /\ points' \subseteq points \cup {[at |-> now, result |-> r]}
    BY <1>4, <2>1 DEF EndRun, Pruned, RetentionTypeOK
  <2>3. run' = NoRun /\ now' = now /\ schedule' = schedule
    BY <1>4 DEF EndRun
  <2>4. RetentionTypeOK' /\ RunSparesOne'
    BY <2>2, <2>3 DEF NoRun, RetentionTypeOK, RunSparesOne
  <2>5. \A p \in points' : p.at <= now
    BY <2>2 DEF RetentionTypeOK, TimeInv
  <2>6. run'.active = FALSE
    BY <2>3 DEF NoRun
  <2>7. TimeInv'
    BY <2>3, <2>5, <2>6 DEF TimeInv
  <2>8. QED
    BY <2>4, <2>7
<1>5. ASSUME NEW r \in Results, Manual(r) PROVE RetentionInv'
  <2>1. [at |-> now, result |-> r] \in [at : Nat, result : Results]
    BY DEF RetentionTypeOK
  <2>2. /\ points' = points \cup {[at |-> now, result |-> r]}
        /\ UNCHANGED <<now, schedule, run>>
    BY <1>5 DEF Manual
  <2>3. Good(points) \subseteq Good(points')
    BY <2>2 DEF Good
  <2>4. RetentionTypeOK'
    BY <2>1, <2>2 DEF RetentionTypeOK
  <2>5. \A p \in points' : p.at <= now
    BY <2>2 DEF RetentionTypeOK, TimeInv
  <2>6. TimeInv'
    BY <2>2, <2>5 DEF TimeInv
  <2>7. RunSparesOne'
    BY <2>2, <2>3 DEF RunSparesOne
  <2>8. QED
    BY <2>4, <2>6, <2>7
<1>6. CASE UNCHANGED retentionVars
  BY <1>6 DEF retentionVars, RetentionTypeOK, TimeInv, RunSparesOne
<1>7. QED
  BY <1>1, <1>2, <1>3, <1>4, <1>5, <1>6 DEF RetentionNext

LEMMA RetentionInvariant == RetentionSpec => []RetentionInv
<1>1. RetentionInit => RetentionInv
  BY DEF RetentionInit, NoRun, RetentionInv, RetentionTypeOK, TimeInv, RunSparesOne
<1>2. QED
  BY <1>1, RetentionInvNext, PTL DEF RetentionSpec

\* Type correctness of the retention model.
THEOREM RetentionTypeCorrect == RetentionSpec => []RetentionTypeOK
BY RetentionInvariant, PTL DEF RetentionInv

\* A run that is going to prune leaves a successful restore point alone.
THEOREM RunSparesOneHolds == RetentionSpec => []RunSparesOne
BY RetentionInvariant, PTL DEF RetentionInv

LEMMA NoStepLosesLastGood ==
    ASSUME RetentionInv, [RetentionNext]_retentionVars, Good(points) # {}
    PROVE  Good(points') # {}
<1> USE DEF RetentionInv
<1>1. CASE TimePasses \/ Fire \/ UNCHANGED retentionVars \/ \E s \in Schedules : Edit(s)
  BY <1>1 DEF TimePasses, Fire, Edit, retentionVars
<1>2. ASSUME NEW r \in Results, Manual(r) PROVE Good(points') # {}
  BY <1>2 DEF Manual, Good
<1>3. ASSUME NEW r \in Results, EndRun(r) PROVE Good(points') # {}
  <2>1. CASE run.retention = 0
    BY <1>3, <2>1 DEF EndRun, Good
  <2>2. CASE run.retention # 0
    <3>1. run.active
      BY <1>3 DEF EndRun
    <3>2. PICK p \in Good(points) : run.at + MaxRun <= p.at + run.retention
      BY <2>2, <3>1 DEF RunSparesOne
    <3>3. /\ p \in points
          /\ p.result = "ok"
          /\ p.at \in Nat
          /\ p.at <= now
          /\ now <= run.at + MaxRun
      BY <3>1 DEF Good, RetentionTypeOK, TimeInv
    <3>4. now - p.at <= run.retention
      BY <3>2, <3>3 DEF RetentionTypeOK
    <3>5. p \in points'
      BY <1>3, <2>2, <3>3, <3>4 DEF EndRun, Pruned
    <3>6. QED
      BY <3>3, <3>5 DEF Good
  <2>3. QED
    BY <2>1, <2>2
<1>4. QED
  BY <1>1, <1>2, <1>3 DEF RetentionNext

\* The catalogue never loses its last successful restore point to a scheduled run.
THEOREM LastGoodSurvivesHolds == RetentionSpec => LastGoodSurvives
<1>1. RetentionInv /\ [RetentionNext]_retentionVars => [Good(points) # {} => Good(points') # {}]_retentionVars
  BY NoStepLosesLastGood
<1>2. QED
  BY <1>1, RetentionInvariant, PTL DEF RetentionSpec, LastGoodSurvives

=============================================================================
