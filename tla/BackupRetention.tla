-------------------------- MODULE BackupRetention --------------------------
(***************************************************************************)
(* core/schedule.py, plan_retention and the rules that make it safe: when  *)
(* a scheduled backup may hand papaia-ctl a retention period.              *)
(*                                                                         *)
(* papaia-ctl prunes at the end of a run, a failed run included, and does  *)
(* not keep a last good restore point.  The plan is made when the run is   *)
(* enqueued; the pruning happens when the run ends.                        *)
(*                                                                         *)
(* Time is counted in a unit that divides every span a schedule has.       *)
(***************************************************************************)
EXTENDS Naturals

CONSTANTS
    Schedules,      \* schedules the validator accepts: [longest, retention]
    MaxRun,         \* the longest time from the plan of a run to its pruning
    Horizon         \* bound: no run is planned after it, time stops MaxRun later

\* BackupSchedule._check_cadence and min_retention_days: at least twice the
\* longest gap.  That a run is over within half a gap is not checked anywhere:
\* it is what the margin between 1.5 gaps and 2 gaps is for.
ASSUME SchedulesAssumption ==
    /\ Schedules # {}
    /\ \A s \in Schedules :
          /\ s.longest \in Nat
          /\ s.retention \in Nat
          /\ s.retention >= 2 * s.longest
          /\ 2 * MaxRun <= s.longest
ASSUME MaxRunAssumption == MaxRun \in Nat
ASSUME HorizonAssumption == Horizon \in Nat

VARIABLES
    now,
    schedule,       \* schedule.yaml
    points,         \* backup.yaml: restore points [at, result]
    run             \* the scheduled run: [at, retention], retention 0 when none is passed

retentionVars == <<now, schedule, points, run>>

Results == {"ok", "other"}      \* newest_successful tells "ok" from "partial" and "failed"
NoRun == [at |-> 0, retention |-> 0, active |-> FALSE]

Good(ps) == {p \in ps : p.result = "ok"}

RetentionTypeOK ==
    /\ now \in Nat
    /\ schedule \in Schedules
    /\ points \in SUBSET [at : Nat, result : Results]
    /\ run \in [at : Nat, retention : Nat, active : BOOLEAN]

RetentionInit ==
    /\ now = 0
    /\ schedule \in Schedules
    /\ points = {}
    /\ run = NoRun

-----------------------------------------------------------------------------

TimePasses ==
    /\ now < Horizon + MaxRun
    /\ run.active => now < run.at + MaxRun
    /\ now' = now + 1
    /\ UNCHANGED <<schedule, points, run>>

\* put_schedule
Edit(s) ==
    /\ schedule' = s
    /\ UNCHANGED <<now, points, run>>

\* overdue_after is 1.5 times the longest gap; a successful restore point that is
\* not older lets the retention through.
Recent(p) == 2 * (now - p.at) <= 3 * schedule.longest

\* Mutant of Plan: the newest restore point, successful or not, decides.
PlanOnAnyResult ==
    IF \E p \in points : Recent(p) THEN schedule.retention ELSE 0

\* plan_retention: the newest successful restore point decides.
Plan ==
    IF \E p \in Good(points) : Recent(p) THEN schedule.retention ELSE 0

\* fire(): plan, and enqueue.
Fire ==
    /\ ~run.active
    /\ now < Horizon
    /\ run' = [at |-> now, retention |-> Plan, active |-> TRUE]
    /\ UNCHANGED <<now, schedule, points>>

\* papaia-ctl's pruning: everything older than the retention, whatever it is.
Pruned(ps, retention) == {p \in ps : now - p.at <= retention}

\* papaia-ctl backup: write the restore point, then prune if told to.
EndRun(result) ==
    /\ run.active
    /\ LET all == points \cup {[at |-> now, result |-> result]} IN
       points' = IF run.retention = 0 THEN all ELSE Pruned(all, run.retention)
    /\ run' = NoRun
    /\ UNCHANGED <<now, schedule>>

\* A backup by the button or on the host, without a retention period.  The id of
\* a restore point is the time it was taken at.
Manual(result) ==
    /\ \A p \in points : p.at # now
    /\ points' = points \cup {[at |-> now, result |-> result]}
    /\ UNCHANGED <<now, schedule, run>>

RetentionNext ==
    \/ TimePasses
    \/ Fire
    \/ \E s \in Schedules : Edit(s)
    \/ \E result \in Results : EndRun(result) \/ Manual(result)

RetentionSpec == RetentionInit /\ [][RetentionNext]_retentionVars

-----------------------------------------------------------------------------

\* plan_retention: "Holding the retention back while the newest successful
\* restore point is overdue means such a series ends the pruning instead of
\* finishing the catalogue off": once there is a successful restore point, no
\* series of scheduled runs, failed ones included, and no edit of the schedule
\* in between leaves the catalogue without one.
LastGoodSurvives ==
    [][Good(points) # {} => Good(points') # {}]_retentionVars

\* Why: while a run that will prune is on its way, a successful restore point is
\* still young enough to outlive it however late it ends.
RunSparesOne ==
    run.active /\ run.retention # 0 =>
        \E p \in Good(points) : run.at + MaxRun <= p.at + run.retention

=============================================================================
