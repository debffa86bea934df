------------------------------ MODULE MCActivity ------------------------------
(***************************************************************************)
(* Model-checking instance for the activity updates of several copies of   *)
(* the service whose writes may be late.                                   *)
(***************************************************************************)
EXTENDS MCSandboxSystem, TimelyActivity
==============================================================================
