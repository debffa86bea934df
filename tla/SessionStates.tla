---------------------------- MODULE SessionStates ----------------------------
(***************************************************************************)
(* The statuses of a session and the table of permitted transitions, as    *)
(* models/domain.py declares them, with the sets of statuses the services  *)
(* and the lifecycle manager test against.  "absent" stands for a session  *)
(* whose item is not in the table.                                         *)
(***************************************************************************)

\* The table gives these three the same row.
WAITING_STATUSES == {"WAITING_FOR_LLM", "WAITING_FOR_TOOL", "WAITING_FOR_APPROVAL"}

SessionState ==
  WAITING_STATUSES \cup
  {"SESSION_CREATED", "SESSION_RUNNING", "SESSION_PAUSED", "SESSION_COMPLETED",
   "SESSION_FAILED", "SESSION_CANCELLED",
   "SANDBOX_PROVISIONING", "SANDBOX_READY", "SANDBOX_TERMINATED"}

VALID_TRANSITIONS ==
  LET ended == {"SESSION_FAILED", "SESSION_CANCELLED"}
      suspended == ended \cup {"SESSION_RUNNING", "SANDBOX_TERMINATED"}
  IN [SESSION_CREATED      |-> ended \cup {"SESSION_RUNNING"},
      SESSION_RUNNING      |-> ended \cup WAITING_STATUSES \cup
                               {"SESSION_PAUSED", "SESSION_COMPLETED", "SANDBOX_TERMINATED"},
      WAITING_FOR_LLM      |-> suspended,
      WAITING_FOR_TOOL     |-> suspended,
      WAITING_FOR_APPROVAL |-> suspended,
      SESSION_PAUSED       |-> suspended,
      SESSION_COMPLETED    |-> {"SESSION_RUNNING"},
      SESSION_FAILED       |-> {"SESSION_RUNNING"},
      SESSION_CANCELLED    |-> {},
      SANDBOX_PROVISIONING |-> ended \cup {"SANDBOX_READY"},
      SANDBOX_READY        |-> suspended,
      SANDBOX_TERMINATED   |-> {}]

CanTransitionTo(status, newStatus) ==
  status \in SessionState /\ newStatus \in VALID_TRANSITIONS[status]

TERMINAL_STATUSES == {s \in SessionState : VALID_TRANSITIONS[s] = {}}

SANDBOX_ACTIVE_STATUSES ==
  WAITING_STATUSES \cup {"SANDBOX_READY", "SESSION_RUNNING", "SESSION_PAUSED"}

\* Mutant: the manager scans for the statuses that receive traffic.
WithoutProvisioning == SANDBOX_ACTIVE_STATUSES

\* _ACTIVE_STATUSES of the lifecycle manager.
LIFECYCLE_STATUSES == SANDBOX_ACTIVE_STATUSES \cup {"SANDBOX_PROVISIONING"}

\* The statuses in which TaskService.create_task accepts a task.
TASK_STATUSES == {"SANDBOX_READY", "SESSION_RUNNING", "WAITING_FOR_LLM", "WAITING_FOR_TOOL"}

TaskState == {"running", "completed", "failed", "cancelled"}
==============================================================================
