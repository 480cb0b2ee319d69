----------------------------- MODULE MCReports -----------------------------
(***************************************************************************)
(* Notifications and Upgrade for TLC: what administrators are told of      *)
(* their stack, by the notifications and by the panel of an upgrade. In    *)
(* the model they share no variable, so a step of one never changes what   *)
(* the other can do, and it is enough to look at the behaviours of each:   *)
(* the first state says whose they are. The other side stays in its        *)
(* initial state, the notifications in one without recipients.             *)
(***************************************************************************)
EXTENDS Notifications, Upgrade

VARIABLE side

ReportsInit ==
    \/ side = "news" /\ NotifyInit /\ UpgradeInit
    \/ side = "panel" /\ NotifyInit /\ UpgradeInit /\ DOMAIN config = {}

\* The bound on upgrades ends a behaviour of Upgrade.
AtTheBound == runs = MaxRuns /\ UNCHANGED upgradeVars

ReportsNext ==
    \/ side = "news" /\ NotifyNext /\ UNCHANGED <<side, upgradeVars>>
    \/ side = "panel" /\ (UpgradeNext \/ AtTheBound) /\ UNCHANGED <<side, notifyVars>>

ReportsSpec == ReportsInit /\ [][ReportsNext]_<<side, notifyVars, upgradeVars>>

=============================================================================
