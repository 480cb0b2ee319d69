--------------------------- MODULE MCControlPlane ---------------------------
(***************************************************************************)
(* Instances of ControlPlane for TLC. In one the requests interleave at    *)
(* every await; in the other (InTurn) they are served one after the other  *)
(* by a daemon that always answers, with more jobs and a second release to *)
(* upgrade to. The first state says which of the two a behaviour is of.    *)
(***************************************************************************)
EXTENDS ControlPlane

CONSTANTS TurnJobs, TurnRequests, TurnRunners

VARIABLE inTurn

\* One target per kind.
SingleRunners ==
    {[kind |-> "restore", target |-> "p1"], [kind |-> "stack", target |-> "restart"],
     [kind |-> "upgrade", target |-> "v1"]}

\* One target per kind, and a second version to upgrade to.
UpgradeRunners == SingleRunners \cup {[kind |-> "upgrade", target |-> "v2"]}

ASSUME TurnRunnersAssumption == NoRunner \notin TurnRunners /\ \A n \in TurnRunners : n.kind \in Kinds
ASSUME TurnAssumption == \E r \in TurnRequests : TurnRequests = {r}

InTurn == INSTANCE ControlPlane WITH
    Jobs <- TurnJobs, Requests <- TurnRequests, Runners <- TurnRunners, DockerFaults <- FALSE

PlaneInit ==
    \/ inTurn = FALSE /\ Init
    \/ inTurn = TRUE /\ InTurn!Init

PlaneNext ==
    /\ \/ ~inTurn /\ Next
       \/ inTurn /\ InTurn!Next
    /\ UNCHANGED inTurn

PlaneSpec == PlaneInit /\ [][PlaneNext]_<<inTurn, vars>>

\* Requests are told apart by nothing but their names.
RequestSymmetry == Permutations(Requests)

\* The properties of requests that are served in turn, under their names in ControlPlane.
UpgradeRunsAloneInTurn == inTurn => InTurn!UpgradeRunsAlone
GuardedJobsRunAloneInTurn == inTurn => InTurn!GuardedJobsRunAlone
UnreadOutcomeBlocksInTurn == inTurn => InTurn!UnreadOutcomeBlocks

=============================================================================
