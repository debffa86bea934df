-------------------------------- MODULE MCProxy --------------------------------
(***************************************************************************)
(* Model-checking instance for the endpoint caches of several copies of    *)
(* the service.  A manager is named by the same model value as the copy it *)
(* belongs to, whose cache it invalidates, so the copies are not           *)
(* interchangeable when not all of them have a manager at work.            *)
(***************************************************************************)
EXTENDS MCSandboxSystem, CacheFreshness

ContainerSymmetry == Permutations(Container)
==============================================================================
