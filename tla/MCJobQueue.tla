----------------------------- MODULE MCJobQueue -----------------------------
(***************************************************************************)
(* Instance of JobQueue for TLC.  Three jobs: one that runs, one that      *)
(* waits, and one whose enqueue() fails or comes late.                     *)
(***************************************************************************)
EXTENDS JobQueue

=============================================================================
