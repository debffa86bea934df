------------------------------ MODULE SandboxLife ------------------------------
(***************************************************************************)
(* SandboxSystem lives the life of SessionLife.  A creation that raised    *)
(* does not show whether it was let through before, so a history variable  *)
(* remembers how far it came; it decides nothing.  A desktop session takes *)
(* no place under the limit: to SessionLife it is one that never begins.   *)
(***************************************************************************)
EXTENDS SandboxInvariants

VARIABLE phase
lifeVars == <<vars, phase>>

\* Each phase ends where create_session leaves the calls that belong to it.
PhaseAfter ==
  CASE creation.pc = "persist" /\ creation'.pc = "count"                       -> "count"
    [] creation.pc = "count" /\ creation'.pc = "launch"                        -> "launch"
    [] creation.pc = "count" /\ creation'.pc = "raised"                        -> "refused"
    [] creation.pc \in {"launch", "storeArn", "fail", "failRetry"}
         /\ creation'.pc \in {"returned", "raised"}                            -> "ended"
    [] OTHER                                                                   -> phase

LifeInit == Init /\ phase = "new"
LifeNext == Next /\ phase' = PhaseAfter

LifeSpec == LifeInit /\ [][LifeNext]_lifeVars

------------------------------------------------------------------------------
LetThrough == phase \in {"launch", "ended"}

(* Nobody but the creation itself knows a session that was refused: no     *)
(* container has its id and the registration token, and no client has had  *)
(* it in a reply, so nobody registers, resumes or cancels it               *)
(* (create_session hands the id out after provision_sandbox only).         *)
OnlyLetThroughIsKnown ==
  /\ \A c \in Container : container[c] # "none" => LetThrough
  /\ \A h \in Handler : call[h].pc # "idle" => LetThrough

CallsAreRequested ==
  \A h \in Handler :
    /\ call[h].pc \in {"check", "expire", "run"} => "resume" \in Requests
    /\ call[h].pc = "cancel" => "cancel" \in Requests

SandboxLifeInv ==
  /\ phase \in {"new", "count", "launch", "refused", "ended"}
  /\ creation.pc \in {"new", "persist"} => phase = "new"
  /\ creation.pc = "count" <=> phase = "count"
  /\ creation.pc \in {"launch", "storeArn", "fail", "failRetry"} <=> phase = "launch"
  /\ creation.pc = "returned" => phase = "ended"
  /\ item.expectedTaskArn # None \/ replica.expectedTaskArn # None => LetThrough
  /\ \A m \in Manager : mgr[m].arn # None => LetThrough
  /\ OnlyLetThroughIsKnown
  /\ CallsAreRequested

\* A desktop session is never provisioned.
DesktopLifeInv ==
  /\ phase = "new"
  /\ creation.pc \in {"new", "persist", "returned", "raised"}

(* How far create_session came says who can know the session: the         *)
(* inductive invariant on top of IInv.                                     *)
LifeInv == IF isSandbox THEN SandboxLifeInv ELSE DesktopLifeInv

(* A session is one of those SandboxQuota counts: whatever the handlers    *)
(* and managers do, its status and phase change only as SessionLife says.  *)
lifeStatus == IF isSandbox THEN item.status ELSE "absent"

Life == INSTANCE SessionLife WITH status <- lifeStatus, creation <- phase

ImplementsLife == Life!Spec
==============================================================================
