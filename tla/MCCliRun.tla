------------------------------ MODULE MCCliRun ------------------------------
(* Pipes smaller than the prompt and than each output. *)
EXTENDS CliRun
=============================================================================
