---------------------------- MODULE MCConfigJobs ----------------------------
(***************************************************************************)
(* Instance of ConfigJobs for TLC.  Two contents and two kept versions, so *)
(* that the history drops one; two jobs wait, so that one is decided on    *)
(* before another has run.                                                 *)
(***************************************************************************)
EXTENDS ConfigJobs

\* Contents are told apart by nothing but their names.
ContentSymmetry == Permutations(Contents)

=============================================================================
