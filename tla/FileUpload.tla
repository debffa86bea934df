------------------------------ MODULE FileUpload ------------------------------
(***************************************************************************)
(* FileUploadService.upload_file for one path: the file is stored by the   *)
(* workspace service, then the sandbox is told to fetch it.  The session   *)
(* is read once, before both.  Contents are told apart by the version      *)
(* under which the workspace service stored them.                          *)
(***************************************************************************)
EXTENDS SandboxLauncher

CONSTANT Upload   \* upload requests, each made once

VARIABLES
  upload,
  stored,   \* version of the file in the workspace, 0 when there is none
  pulled    \* version of the file in each container, 0 when it has none
uploadVars == <<upload, stored, pulled>>

NewUpload == [pc |-> "new", endpoint |-> None, version |-> 0, answer |-> None, synced |-> FALSE]

UploadInit ==
  /\ upload = [u \in Upload |-> NewUpload]
  /\ stored = 0
  /\ pulled = [c \in Container |-> 0]

\* Only a status without a way on refuses uploads; a sandbox that is not up is no obstacle.
AcceptsUploads(read) == read.status # "absent" /\ read.status \notin TERMINAL_STATUSES

\* The session is read, and with it the decision whether there is a sandbox to sync.
BeginUpload(u) ==
  /\ upload[u].pc = "new"
  /\ \E read \in Readable :
       /\ AcceptsUploads(read)
       /\ upload' = [upload EXCEPT ![u].pc = "persist",
                                   ![u].endpoint = IF read.status \in SANDBOX_ACTIVE_STATUSES
                                                     THEN read.sandboxEndpoint ELSE None]
  /\ UNCHANGED <<storeVars, container, stored, pulled>>

\* Without an endpoint the reply is "persisted, not synced".
PersistFile(u) ==
  /\ upload[u].pc = "persist"
  /\ stored' = stored + 1
  /\ upload' = [upload EXCEPT ![u].pc = IF upload[u].endpoint = None THEN "replied" ELSE "sync",
                              ![u].version = stored + 1]
  /\ UNCHANGED <<storeVars, container, pulled>>

\* The workspace service refuses, fails or is not reached, and may have stored the file.
PersistFails(u) ==
  /\ "persistFails" \in Faults
  /\ upload[u].pc = "persist"
  /\ stored' \in {stored, stored + 1}
  /\ upload' = [upload EXCEPT ![u].pc = "raised"]
  /\ UNCHANGED <<storeVars, container, pulled>>

\* workspace.sync reaches the sandbox, which fetches what the workspace holds by then.
PullFile(u) ==
  /\ upload[u].pc = "sync"
  /\ container[upload[u].endpoint] = "running"
  /\ pulled' = [pulled EXCEPT ![upload[u].endpoint] = stored]
  /\ upload' = [upload EXCEPT ![u].pc = "answer", ![u].answer = "result"]
  /\ UNCHANGED <<storeVars, container, stored>>

\* The sandbox answers with an RPC error, which arrives with a good HTTP status.
RefuseSync(u) ==
  /\ "sandboxFails" \in Faults
  /\ upload[u].pc = "sync"
  /\ container[upload[u].endpoint] = "running"
  /\ upload' = [upload EXCEPT ![u].pc = "answer", ![u].answer = "error"]
  /\ UNCHANGED <<storeVars, container, stored, pulled>>

\* Of the answer only the HTTP status is looked at.
SyncAnswered(u) ==
  /\ upload[u].pc = "answer"
  /\ upload' = [upload EXCEPT ![u].pc = "replied", ![u].synced = TRUE]
  /\ UNCHANGED <<storeVars, container, stored, pulled>>

\* Mutant: a sync that timed out is taken for one that is still under way.
SyncFailsOptimistically(u) ==
  /\ upload[u].pc \in {"sync", "answer"}
  /\ upload' = [upload EXCEPT ![u].pc = "replied", ![u].synced = TRUE]
  /\ UNCHANGED <<storeVars, container, stored, pulled>>

\* A connection or protocol error, an error status, or no answer in time: the sandbox is
\* gone or busy, or has fetched the file and its answer is late.
SyncFails(u) ==
  /\ upload[u].pc \in {"sync", "answer"}
  /\ container[upload[u].endpoint] # "running" \/ "sandboxFails" \in Faults
  /\ upload' = [upload EXCEPT ![u].pc = "replied"]
  /\ UNCHANGED <<storeVars, container, stored, pulled>>

AbortUpload(u) ==
  /\ "crash" \in Faults
  /\ upload[u].pc \notin {"new", "replied", "raised"}
  /\ upload' = [upload EXCEPT ![u].pc = "raised"]
  /\ UNCHANGED <<storeVars, container, stored, pulled>>

UploadNext ==
  \E u \in Upload :
    \/ BeginUpload(u) \/ PersistFile(u) \/ PersistFails(u)
    \/ PullFile(u) \/ RefuseSync(u) \/ SyncAnswered(u) \/ SyncFails(u) \/ AbortUpload(u)

UploadPc == {"new", "persist", "sync", "answer", "replied", "raised"}

UploadRecord ==
  [pc       : UploadPc,
   endpoint : Container \cup {None},
   version  : Nat,
   answer   : {None, "result", "error"},
   synced   : BOOLEAN]

UploadTypeOK ==
  /\ upload \in [Upload -> UploadRecord]
  /\ \A u \in Upload : upload[u].pc \in {"sync", "answer"} => upload[u].endpoint \in Container
  /\ stored \in Nat
  /\ pulled \in [Container -> Nat]
==============================================================================
