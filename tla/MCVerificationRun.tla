-------------------------- MODULE MCVerificationRun ---------------------------
(***************************************************************************)
(* A small instance of VerificationRun for TLC.  Runs, operators and       *)
(* runners are interchangeable, but liveness rules symmetry reduction out. *)
(***************************************************************************)
EXTENDS VerificationRun
=============================================================================
