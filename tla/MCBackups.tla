----------------------------- MODULE MCBackups -----------------------------
(***************************************************************************)
(* BackupScheduler and BackupRetention for TLC: when a scheduled backup    *)
(* starts, and what its pruning may take. In the model they share no       *)
(* variable, so a step of one never changes what the other can do, and it  *)
(* is enough to look at the behaviours of each: the first state says whose *)
(* they are. The other side is a manager that is down, or no catalogue.    *)
(*                                                                         *)
(* Time in the scheduler counts units of RETRY_DELAY. The unit of the      *)
(* retention is half the longest gap of the tighter schedule, so that a    *)
(* run may take one unit at most.                                          *)
(***************************************************************************)
EXTENDS BackupScheduler, BackupRetention

VARIABLE side

\* The tightest retention the validator lets through, and a roomier schedule
\* that an edit may switch to.
MCSchedules == {[longest |-> 2, retention |-> 4], [longest |-> 3, retention |-> 7]}

NoScheduler ==
    /\ up = FALSE /\ file = "none" /\ slot = NoSlot /\ retry = NoRetry /\ catchup = FALSE
    /\ fires = NoFires /\ queue = <<>> /\ runner = FALSE /\ reachable = FALSE
    /\ owed = FALSE /\ unaudited = FALSE

NoCatalogue ==
    /\ now = 0 /\ schedule = CHOOSE s \in Schedules : TRUE
    /\ points = {} /\ run = NoRun

BackupsInit ==
    \/ side = "starts" /\ Init /\ NoCatalogue
    \/ side = "prunes" /\ RetentionInit /\ NoScheduler

BackupsNext ==
    \/ side = "starts" /\ Next /\ UNCHANGED <<side, retentionVars>>
    \/ side = "prunes" /\ RetentionNext /\ UNCHANGED <<side, vars>>

\* The fairness of FairSpec. None of these actions is enabled where the manager is down for good.
BackupsSpec ==
    /\ BackupsInit /\ [][BackupsNext]_<<side, vars, retentionVars>>
    /\ WF_vars(Dues) /\ WF_vars(Fires) /\ WF_vars(JobEnds) /\ WF_vars(Tick)

=============================================================================
