------------------------------ MODULE TaskService ------------------------------
(***************************************************************************)
(* TaskService: create_task reads the session and puts the task,           *)
(* complete_task reads the task and updates it.  Neither write is          *)
(* conditional on what was read still being so.                            *)
(***************************************************************************)
EXTENDS SandboxLauncher

CONSTANT TaskCaller   \* task requests in flight at once

VARIABLE taskCall
NoTaskCall == [pc |-> "idle", task |-> None, status |-> "absent"]

ASSUME TaskAssumption == None \notin Task

TaskInit == taskCall = [w \in TaskCaller |-> NoTaskCall]

LeaveTaskCall(w) == taskCall' = [taskCall EXCEPT ![w] = NoTaskCall]

\* Mutant: a task is accepted in whatever status the session is.
CreateTaskReadUnguarded(w, t) ==
  /\ taskCall[w] = NoTaskCall
  /\ \E read \in Readable : read.status # "absent"
  /\ taskCall' = [taskCall EXCEPT ![w] = [pc |-> "create", task |-> t, status |-> "running"]]
  /\ UNCHANGED <<storeVars, container>>

CreateTaskRead(w, t) ==
  /\ taskCall[w] = NoTaskCall
  /\ \E read \in Readable : read.status \in TASK_STATUSES
  /\ taskCall' = [taskCall EXCEPT ![w] = [pc |-> "create", task |-> t, status |-> "running"]]
  /\ UNCHANGED <<storeVars, container>>

\* put_item: the task id is the caller's, and an item of that id is replaced.
CreateTaskWrite(w) ==
  /\ taskCall[w].pc = "create"
  /\ PutTask(taskCall[w].task)
  /\ LeaveTaskCall(w)
  /\ UNCHANGED <<item, replica, clock, container>>

CompleteTaskRead(w, t, status) ==
  /\ taskCall[w] = NoTaskCall
  /\ ShowsRunning(t)
  /\ taskCall' = [taskCall EXCEPT ![w] = [pc |-> "complete", task |-> t, status |-> status]]
  /\ UNCHANGED <<storeVars, container>>

CompleteTaskWrite(w) ==
  /\ taskCall[w].pc = "complete"
  /\ UpdateCompletion(taskCall[w].task, taskCall[w].status)
  /\ LeaveTaskCall(w)
  /\ UNCHANGED <<item, replica, clock, container>>

AbortTaskCall(w) ==
  /\ "crash" \in Faults
  /\ taskCall[w] # NoTaskCall
  /\ LeaveTaskCall(w)
  /\ UNCHANGED <<storeVars, container>>

TaskNext ==
  \E w \in TaskCaller :
    \/ \E t \in Task : CreateTaskRead(w, t)
    \/ \E t \in Task, status \in TaskState \ {"running"} : CompleteTaskRead(w, t, status)
    \/ CreateTaskWrite(w) \/ CompleteTaskWrite(w) \/ AbortTaskCall(w)

TaskTypeOK ==
  taskCall \in [TaskCaller -> [pc     : {"idle", "create", "complete"},
                               task   : Task \cup {None},
                               status : TaskState \cup {"absent"}]]
==============================================================================
