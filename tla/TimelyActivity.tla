---------------------------- MODULE TimelyActivity ----------------------------
(***************************************************************************)
(* SandboxSystem with a bound on how long an activity update may take to   *)
(* reach the table: the timeouts of the DynamoDB client.                   *)
(***************************************************************************)
EXTENDS SandboxInvariants

CONSTANT MaxWriteDelay

ASSUME DelayAssumption == MaxWriteDelay \in Nat

WritesAreTimely ==
  \A u \in Touch : touch[u].pc = "write" => clock - touch[u].at <= MaxWriteDelay

TimelySpec == Init /\ [][Next /\ WritesAreTimely']_vars

\* What a skipped update leaves on the record, for this bound: see SkippedTouchIsOnRecord.
ActivityOnRecord == SkippedTouchIsOnRecord(MaxWriteDelay)

\* The record shows an activity no older than this one, give or take the delay.
OnRecordSince(at) ==
  /\ item.lastActivityAt # None
  /\ item.lastActivityAt + MaxWriteDelay >= at

(* The strengthening: a write that has been applied stays on the record,   *)
(* from its application to the end of the window it opens.                 *)
TimelyInv ==
  /\ \A u \in Touch :
       /\ touch[u].at <= clock
       /\ touch[u].pc = "record" => OnRecordSince(touch[u].at)
  /\ \A p \in Proxy : lastWrite[p] # 0
       => /\ lastWrite[p] <= clock + Uptime
          /\ OnRecordSince(lastWrite[p] - Uptime)
==============================================================================
