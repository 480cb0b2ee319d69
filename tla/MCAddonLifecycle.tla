-------------------------- MODULE MCAddonLifecycle --------------------------
(***************************************************************************)
(* The instance of AddonLifecycle for TLC.                                 *)
(***************************************************************************)
EXTENDS AddonLifecycle

\* A commit may leave the version of the manifest as it is: 1, 1, 2, 2.
MCVersionOf == [r \in 1..MaxRev |-> (r + 1) \div 2]

\* git archive took, or is about to take, another commit than the directory is named after.
Overtaken ==
    \/ \E r \in OnDisk : snaps[r].holds # r
    \/ req.at = "archive" /\ req.rev # head

\* A behaviour is followed until installed.yaml and deployment.yaml may have parted. The add-on is
\* installed, and installed again, from one of the first two commits; where HEAD has overtaken an
\* archive the behaviour is followed over the first three.
Followed ==
    /\ {"astray", "swapped"} \cap trouble = {}
    /\ dep.path = 0 => head <= 2
    /\ Overtaken => head <= 3
=============================================================================
