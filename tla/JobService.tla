----------------------------- MODULE JobService -----------------------------
(***************************************************************************)
(* What the rest of the manager relies on when it hands work to the job    *)
(* queue: jobs are accepted in an order, at most one runs, they run in     *)
(* that order, and each ends once with an outcome.  A stop of the manager  *)
(* process forgets everything that had not ended.                          *)
(*                                                                         *)
(* The abstract counterpart of JobQueue; ControlPlane is built on it.      *)
(***************************************************************************)
EXTENDS Sequences, Naturals

CONSTANT Jobs       \* the ids uuid4 may produce

VARIABLES
    pending,        \* accepted jobs that have not ended, oldest first
    busy,           \* the head of pending is the job that runs
    ended           \* job -> "no", "succeeded" or "failed"

serviceVars == <<pending, busy, ended>>

Outcomes == {"succeeded", "failed"}

ServiceTypeOK ==
    /\ pending \in Seq(Jobs)
    /\ busy \in BOOLEAN
    /\ ended \in [Jobs -> Outcomes \cup {"no"}]

ServiceInit ==
    /\ pending = <<>>
    /\ busy = FALSE
    /\ ended = [j \in Jobs |-> "no"]

Submit(j) ==
    /\ ended[j] = "no"
    /\ \A i \in DOMAIN pending : pending[i] # j
    /\ pending' = Append(pending, j)
    /\ UNCHANGED <<busy, ended>>

Begin ==
    /\ ~busy
    /\ pending # <<>>
    /\ busy' = TRUE
    /\ UNCHANGED <<pending, ended>>

End(outcome) ==
    /\ busy
    /\ busy' = FALSE
    /\ pending' = Tail(pending)
    /\ ended' = [ended EXCEPT ![Head(pending)] = outcome]

\* The process went away: nothing of the accepted work is known any more.
Forget ==
    /\ pending' = <<>>
    /\ busy' = FALSE
    /\ ended' = [j \in Jobs |-> "no"]

ServiceNext ==
    \/ \E j \in Jobs : Submit(j)
    \/ Begin
    \/ \E outcome \in Outcomes : End(outcome)
    \/ Forget

ServiceSpec == ServiceInit /\ [][ServiceNext]_serviceVars

=============================================================================
