---------------------------- MODULE MCSandboxSystem ----------------------------
(***************************************************************************)
(* Model-checking instance of SandboxSystem: its sets are sets of model    *)
(* values given in the configurations, interchangeable within each set.    *)
(* Manager and Proxy are disjoint or the same set.                         *)
(***************************************************************************)
EXTENDS SandboxInvariants, TLC

Symmetry ==
  Permutations(Container) \cup Permutations(Handler) \cup Permutations(Manager)
    \cup Permutations(Task) \cup Permutations(TaskCaller)
    \cup Permutations(Proxy) \cup Permutations(Touch)
    \cup Permutations(Request) \cup Permutations(Upload)
==============================================================================
