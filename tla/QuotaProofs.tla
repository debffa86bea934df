------------------------------ MODULE QuotaProofs ------------------------------
(***************************************************************************)
(* What SandboxQuota promises, for any number of sessions and any limit.   *)
(***************************************************************************)
EXTENDS SandboxQuota, FiniteSetTheorems, TLAPS

------------------------------------------------------------------------------
(* A write changes one session, and reaches the index or leaves one record *)
(* more behind.                                                            *)
LEMMA WriteTypes ==
  ASSUME TypeOK, NEW s \in Session, NEW newStatus \in QuotaStatus, Write(s, newStatus)
  PROVE  /\ status' \in [Session -> QuotaStatus]
         /\ index' \in [Session -> QuotaStatus]
         /\ \A t \in Session : status'[t] = IF t = s THEN newStatus ELSE status[t]
BY DEF TypeOK, Write

LEMMA Typed == TypeOK /\ [Next]_quotaVars => TypeOK'
<1> SUFFICES ASSUME TypeOK, [Next]_quotaVars PROVE TypeOK'
  OBVIOUS
<1> USE DEF TypeOK
<1>1. \A x \in {"SANDBOX_PROVISIONING", "SANDBOX_READY", "SESSION_RUNNING", "SESSION_FAILED",
                "SESSION_CANCELLED", "SANDBOX_TERMINATED"} : x \in QuotaStatus
  BY DEF QuotaStatus, COUNTED_STATUSES
<1>2. CASE UNCHANGED quotaVars
  BY <1>2 DEF quotaVars
<1>3. ASSUME NEW s \in Session, PersistSession(s) PROVE TypeOK'
  BY <1>1, <1>3, WriteTypes DEF PersistSession
<1>4. ASSUME NEW s \in Session, CheckLimit(s) \/ AbortCreation(s) \/ LaunchEnds(s) PROVE TypeOK'
  BY <1>4 DEF CheckLimit, AbortCreation, LaunchEnds
<1>5. ASSUME NEW s \in Session, FailSession(s) PROVE TypeOK'
  BY <1>1, <1>5, WriteTypes DEF FailSession
<1>6. ASSUME NEW s \in Session, RegisterSandbox(s) PROVE TypeOK'
  BY <1>1, <1>6, WriteTypes DEF RegisterSandbox, Becomes
<1>7. ASSUME NEW s \in Session, ResumeSession(s) PROVE TypeOK'
  BY <1>1, <1>7, WriteTypes DEF ResumeSession
<1>8. ASSUME NEW s \in Session, ExpireSession(s) \/ CheckProvisioningTimeout(s) PROVE TypeOK'
  BY <1>1, <1>8, WriteTypes DEF ExpireSession, CheckProvisioningTimeout, Becomes
<1>9. ASSUME NEW s \in Session, CancelSession(s) PROVE TypeOK'
  BY <1>1, <1>9, WriteTypes DEF CancelSession, Becomes
<1>10. ASSUME NEW s \in Session, TerminateSession(s) PROVE TypeOK'
  BY <1>1, <1>10, WriteTypes DEF TerminateSession, Becomes
<1>11. ASSUME NEW s \in Session, Propagate(s) PROVE TypeOK'
  BY <1>11 DEF Propagate
<1> QED
  BY <1>2, <1>3, <1>4, <1>5, <1>6, <1>7, <1>8, <1>9, <1>10, <1>11 DEF Next

(* The index never lags by more than the bound.                            *)
LagBounded == Cardinality(Behind) <= MaxBehind

LEMMA BehindFinite == IsFiniteSet(Behind) /\ Cardinality(Behind) \in Nat
BY QuotaAssumption, FS_Subset, FS_CardinalityType DEF Behind

LEMMA Lagging == TypeOK /\ LagBounded /\ [Next]_quotaVars => LagBounded'
<1> SUFFICES ASSUME TypeOK, LagBounded, [Next]_quotaVars PROVE LagBounded'
  OBVIOUS
<1>1. ASSUME Behind' \subseteq Behind PROVE LagBounded'
  <2>1. Cardinality(Behind') <= Cardinality(Behind) /\ Cardinality(Behind') \in Nat
    BY <1>1, BehindFinite, FS_Subset, FS_CardinalityType
  <2> QED
    BY <2>1, BehindFinite, QuotaAssumption DEF LagBounded
<1>2. ASSUME NEW s \in Session, NEW newStatus, Write(s, newStatus) PROVE LagBounded'
  <2>1. CASE index' = [index EXCEPT ![s] = newStatus]
    <3>1. Behind' \subseteq Behind
      BY <1>2, <2>1 DEF Write, Behind, TypeOK
    <3> QED
      BY <3>1, <1>1
  <2>2. CASE Cardinality(Behind') <= MaxBehind
    BY <2>2 DEF LagBounded
  <2> QED
    BY <1>2, <2>1, <2>2 DEF Write
<1>3. CASE UNCHANGED <<status, index>>
  BY <1>1, <1>3 DEF Behind
<1>4. ASSUME NEW s \in Session, Propagate(s) PROVE LagBounded'
  <2>1. Behind' \subseteq Behind
    BY <1>4 DEF Propagate, Behind, TypeOK
  <2> QED
    BY <2>1, <1>1
<1>5. CASE UNCHANGED quotaVars
  BY <1>3, <1>5 DEF quotaVars
<1>6. ASSUME NEW s \in Session,
             CheckLimit(s) \/ AbortCreation(s) \/ LaunchEnds(s)
      PROVE  LagBounded'
  BY <1>3, <1>6 DEF CheckLimit, AbortCreation, LaunchEnds
<1>7. ASSUME NEW s \in Session,
             \/ PersistSession(s) \/ FailSession(s) \/ RegisterSandbox(s) \/ ResumeSession(s)
             \/ ExpireSession(s) \/ CancelSession(s) \/ CheckProvisioningTimeout(s)
             \/ TerminateSession(s)
      PROVE  LagBounded'
  <2>1. \E newStatus : Write(s, newStatus)
    BY <1>7 DEF PersistSession, FailSession, RegisterSandbox, ResumeSession, ExpireSession,
                CancelSession, CheckProvisioningTimeout, TerminateSession, Becomes
  <2> QED
    BY <2>1, <1>2
<1> QED
  BY <1>4, <1>5, <1>6, <1>7 DEF Next

------------------------------------------------------------------------------
(* What the count sees: if one page shows all records, every record that   *)
(* counts is counted or behind.                                            *)
Counted == {s \in FirstPage : index[s] \in COUNTED_STATUSES}

LEMMA CountedFinite == IsFiniteSet(Counted) /\ Cardinality(Counted) \in Nat
<1>1. Counted \in SUBSET Session
  BY DEF Counted, FirstPage, Listed
<1> QED
  BY <1>1, QuotaAssumption, FS_Subset, FS_CardinalityType

LEMMA WholePage ==
  ASSUME Cardinality(Session) <= PageSize
  PROVE  FirstPage = Listed
<1> SUFFICES ASSUME NEW s \in Listed PROVE Cardinality({t \in Listed : t < s}) < PageSize
  BY DEF FirstPage
<1> DEFINE Older == {t \in Listed : t < s}
<1>1. s \in Session /\ Older \in SUBSET (Session \ {s})
  BY QuotaAssumption DEF Listed
<1>2. /\ IsFiniteSet(Session \ {s})
      /\ Cardinality(Session \ {s}) = Cardinality(Session) - 1
  BY <1>1, QuotaAssumption, FS_RemoveElement
<1>3. Cardinality(Older) <= Cardinality(Session \ {s}) /\ Cardinality(Older) \in Nat
  BY <1>1, <1>2, FS_Subset, FS_CardinalityType
<1>4. Cardinality(Session) \in Nat /\ PageSize \in Nat
  BY QuotaAssumption, FS_CardinalityType
<1> HIDE DEF Older
<1>5. Cardinality(Older) < PageSize
  BY <1>2, <1>3, <1>4
<1> QED
  BY <1>5 DEF Older

LEMMA CountIsNearlyRight ==
  ASSUME TypeOK, LagBounded, Cardinality(Session) <= PageSize
  PROVE  Cardinality({s \in Session : status[s] \in COUNTED_STATUSES})
           <= CountActiveSandboxes + MaxBehind
<1> DEFINE True == {s \in Session : status[s] \in COUNTED_STATUSES}
<1>1. True \in SUBSET (Counted \cup Behind)
  BY WholePage DEF Counted, Listed, Behind, TypeOK, COUNTED_STATUSES
<1>2. /\ IsFiniteSet(Counted \cup Behind)
      /\ Cardinality(Counted \cup Behind)
           = Cardinality(Counted) + Cardinality(Behind) - Cardinality(Counted \cap Behind)
  BY CountedFinite, BehindFinite, FS_Union
<1>3. Cardinality(Counted \cap Behind) \in Nat
  BY CountedFinite, FS_Intersection, FS_CardinalityType
<1>4. /\ Cardinality(True) <= Cardinality(Counted \cup Behind)
      /\ Cardinality(True) \in Nat /\ Cardinality(Counted \cup Behind) \in Nat
  BY <1>1, <1>2, FS_Subset, FS_CardinalityType
<1>5. CountActiveSandboxes = Cardinality(Counted)
  BY DEF CountActiveSandboxes, Counted
<1> HIDE DEF True
<1>6. Cardinality(True) <= CountActiveSandboxes + MaxBehind
  BY <1>2, <1>3, <1>4, <1>5, CountedFinite, BehindFinite, QuotaAssumption DEF LagBounded
<1> QED
  BY <1>6 DEF True

------------------------------------------------------------------------------
Unrevived == ActiveSandboxes \ revived

LEMMA UnrevivedFinite == IsFiniteSet(Unrevived) /\ Cardinality(Unrevived) \in Nat
<1>1. Unrevived \in SUBSET Session
  BY DEF Unrevived, ActiveSandboxes
<1> QED
  BY <1>1, QuotaAssumption, FS_Subset, FS_CardinalityType

(* Only an admission adds to them.                                         *)
LEMMA OnlyAdmissionAdds ==
  ASSUME TypeOK, [Next]_quotaVars,
         \A s \in Session : ~(CheckLimit(s) /\ creation'[s] = "launch")
  PROVE  Unrevived' \subseteq Unrevived
<1> USE DEF Unrevived, ActiveSandboxes, Admitted
<1>a. /\ LIFECYCLE_STATUSES \cap {"SESSION_FAILED", "SESSION_CANCELLED", "SANDBOX_TERMINATED"} = {}
      /\ COUNTED_STATUSES \subseteq LIFECYCLE_STATUSES
  BY DEF LIFECYCLE_STATUSES, SANDBOX_ACTIVE_STATUSES, WAITING_STATUSES, COUNTED_STATUSES
<1>b. "SANDBOX_PROVISIONING" \in LIFECYCLE_STATUSES
  BY DEF LIFECYCLE_STATUSES
<1>1. CASE UNCHANGED quotaVars
  BY <1>1 DEF quotaVars
<1>2. ASSUME NEW s \in Session, PersistSession(s) PROVE Unrevived' \subseteq Unrevived
  BY <1>2 DEF PersistSession, Write, TypeOK
<1>3. ASSUME NEW s \in Session, CheckLimit(s) \/ AbortCreation(s) \/ LaunchEnds(s)
      PROVE  Unrevived' \subseteq Unrevived
  BY <1>3 DEF CheckLimit, AbortCreation, LaunchEnds, TypeOK
<1>4. ASSUME NEW s \in Session, FailSession(s) PROVE Unrevived' \subseteq Unrevived
  BY <1>4, <1>a DEF FailSession, Write, TypeOK
<1>5. ASSUME NEW s \in Session, RegisterSandbox(s) PROVE Unrevived' \subseteq Unrevived
  BY <1>5, <1>b DEF RegisterSandbox, Becomes, Write, TypeOK
<1>6. ASSUME NEW s \in Session, ResumeSession(s) PROVE Unrevived' \subseteq Unrevived
  BY <1>6, <1>a DEF ResumeSession, Write, TypeOK
<1>7. ASSUME NEW s \in Session, ExpireSession(s) \/ CheckProvisioningTimeout(s)
      PROVE  Unrevived' \subseteq Unrevived
  BY <1>7, <1>a DEF ExpireSession, CheckProvisioningTimeout, Becomes, Write, TypeOK
<1>8. ASSUME NEW s \in Session, CancelSession(s) \/ TerminateSession(s)
      PROVE  Unrevived' \subseteq Unrevived
  BY <1>8, <1>a DEF CancelSession, TerminateSession, Becomes, Write, TypeOK
<1>9. ASSUME NEW s \in Session, Propagate(s) PROVE Unrevived' \subseteq Unrevived
  BY <1>9 DEF Propagate
<1> QED
  BY <1>1, <1>2, <1>3, <1>4, <1>5, <1>6, <1>7, <1>8, <1>9 DEF Next

LEMMA LimitKept ==
  ASSUME TypeOK, LagBounded, AdmittedWithinLimit, [Next]_quotaVars,
         Cardinality(Session) <= PageSize
  PROVE  AdmittedWithinLimit'
<1>1. CASE \A s \in Session : ~(CheckLimit(s) /\ creation'[s] = "launch")
  <2>1. Unrevived' \subseteq Unrevived
    BY <1>1, OnlyAdmissionAdds
  <2>2. Cardinality(Unrevived') <= Cardinality(Unrevived) /\ Cardinality(Unrevived') \in Nat
    BY <2>1, UnrevivedFinite, FS_Subset, FS_CardinalityType
  <2> QED
    BY <2>2, UnrevivedFinite, QuotaAssumption DEF AdmittedWithinLimit, Unrevived
<1>2. ASSUME NEW s \in Session, CheckLimit(s), creation'[s] = "launch" PROVE AdmittedWithinLimit'
  <2> DEFINE True == {t \in Session : status[t] \in COUNTED_STATUSES}
  <2>1. CountActiveSandboxes <= Limit
    <3>1. ~OverLimit(CountActiveSandboxes)
      BY <1>2 DEF CheckLimit, TypeOK
    <3> QED
      BY <3>1, CountedFinite, QuotaAssumption DEF OverLimit, CountActiveSandboxes, Counted
  <2>2. Unrevived' \in SUBSET True
    BY <1>2 DEF Unrevived, ActiveSandboxes, CheckLimit, TypeOK, QuotaStatus, LIFECYCLE_STATUSES,
                SANDBOX_ACTIVE_STATUSES, WAITING_STATUSES, COUNTED_STATUSES
  <2>3. IsFiniteSet(True) /\ Cardinality(True) \in Nat
    BY QuotaAssumption, FS_Subset, FS_CardinalityType
  <2>4. Cardinality(Unrevived') <= Cardinality(True) /\ Cardinality(Unrevived') \in Nat
    BY <2>2, <2>3, FS_Subset, FS_CardinalityType
  <2>5. Cardinality(True) <= CountActiveSandboxes + MaxBehind
    BY CountIsNearlyRight
  <2>6. CountActiveSandboxes \in Nat
    BY CountedFinite DEF CountActiveSandboxes, Counted
  <2> HIDE DEF True
  <2> QED
    BY <2>1, <2>3, <2>4, <2>5, <2>6, QuotaAssumption DEF AdmittedWithinLimit, Unrevived
<1> QED
  BY <1>1, <1>2

LEMMA Initially == Init => TypeOK /\ LagBounded /\ AdmittedWithinLimit
<1> SUFFICES ASSUME Init PROVE TypeOK /\ LagBounded /\ AdmittedWithinLimit
  OBVIOUS
<1>1. TypeOK
  BY DEF Init, TypeOK, QuotaStatus
<1>2. Behind = {} /\ ActiveSandboxes \ revived = {}
  BY DEF Init, Behind, ActiveSandboxes, Admitted
<1> QED
  BY <1>1, <1>2, FS_EmptySet, QuotaAssumption DEF LagBounded, AdmittedWithinLimit

(* For any number of sessions, created and ended in any order, the active  *)
(* sandboxes no resumption brought back stay within the limit and the lag  *)
(* of the index, if the user's records fit on one page of the query.       *)
THEOREM LimitTheorem ==
  ASSUME Cardinality(Session) <= PageSize
  PROVE  Spec => []AdmittedWithinLimit
<1> DEFINE Inv == TypeOK /\ LagBounded /\ AdmittedWithinLimit
<1>1. Init => Inv
  BY Initially
<1>2. Inv /\ [Next]_quotaVars => Inv'
  BY Typed, Lagging, LimitKept
<1> QED
  BY <1>1, <1>2, PTL DEF Spec

(* If nobody resumes, that is all of them.                                 *)
THEOREM StrictLimitTheorem ==
  ASSUME Cardinality(Session) <= PageSize, "resume" \notin Requests
  PROVE  Spec => [](Cardinality(ActiveSandboxes) <= Limit + MaxBehind)
<1>1. Init => revived = {}
  BY DEF Init
<1>2. revived = {} /\ [Next]_quotaVars => (revived = {})'
  BY DEF Next, quotaVars, PersistSession, CheckLimit, AbortCreation, LaunchEnds, FailSession,
         RegisterSandbox, ResumeSession, ExpireSession, CancelSession, CheckProvisioningTimeout,
         TerminateSession, Propagate, Becomes
<1>3. Spec => []AdmittedWithinLimit
  BY LimitTheorem
<1>4. revived = {} /\ AdmittedWithinLimit => Cardinality(ActiveSandboxes) <= Limit + MaxBehind
  <2>1. revived = {} => ActiveSandboxes \ revived = ActiveSandboxes
    OBVIOUS
  <2> QED
    BY <2>1 DEF AdmittedWithinLimit
<1> QED
  BY <1>1, <1>2, <1>3, <1>4, PTL DEF Spec

------------------------------------------------------------------------------
(* A creation is refused only over Limit records of other sessions that    *)
(* count or did lately, whatever the lag and the page.                     *)
THEOREM RefusalTheorem == Spec => RefusedOnlyAtLimit
<1>1. ASSUME TypeOK, NEW s \in Session, creation[s] = "count", creation'[s] = "refused", Next
      PROVE  Cardinality(OtherRecords(s)) >= Limit
  <2>1. CheckLimit(s)
    BY <1>1 DEF Next, PersistSession, CheckLimit, AbortCreation, LaunchEnds, FailSession,
                RegisterSandbox, ResumeSession, ExpireSession, CancelSession,
                CheckProvisioningTimeout, TerminateSession, Propagate, Becomes, TypeOK
  <2>2. Cardinality(Counted) > Limit
    BY <1>1, <2>1 DEF CheckLimit, TypeOK, OverLimit, CountActiveSandboxes, Counted
  <2>3. /\ IsFiniteSet(Counted \ {s})
        /\ Cardinality(Counted \ {s}) >= Cardinality(Counted) - 1
        /\ Cardinality(Counted \ {s}) \in Nat
    <3>1. /\ IsFiniteSet(Counted \ {s})
          /\ Cardinality(Counted \ {s})
               = IF s \in Counted THEN Cardinality(Counted) - 1 ELSE Cardinality(Counted)
      BY CountedFinite, FS_RemoveElement
    <3>2. Cardinality(Counted \ {s}) \in Nat
      BY <3>1, FS_CardinalityType
    <3> QED
      BY <3>1, <3>2, CountedFinite
  <2>4. Counted \ {s} \in SUBSET OtherRecords(s)
    BY DEF Counted, FirstPage, Listed, OtherRecords, Behind
  <2>5. IsFiniteSet(OtherRecords(s)) /\ Cardinality(OtherRecords(s)) \in Nat
    <3>1. OtherRecords(s) \in SUBSET Session
      BY DEF OtherRecords
    <3> QED
      BY <3>1, QuotaAssumption, FS_Subset, FS_CardinalityType
  <2>6. Cardinality(Counted \ {s}) <= Cardinality(OtherRecords(s))
    BY <2>4, <2>5, FS_Subset
  <2> QED
    BY <2>2, <2>3, <2>5, <2>6, CountedFinite, QuotaAssumption
<1>2. TypeOK /\ [Next]_quotaVars =>
        [\A s \in Session : creation[s] = "count" /\ creation'[s] = "refused"
           => Cardinality(OtherRecords(s)) >= Limit]_quotaVars
  BY <1>1
<1>3. Init => TypeOK
  BY Initially
<1>4. TypeOK /\ [Next]_quotaVars => TypeOK'
  BY Typed
<1> QED
  BY <1>2, <1>3, <1>4, PTL DEF Spec, RefusedOnlyAtLimit

------------------------------------------------------------------------------
(* The place of a creation that was refused or cut short, once given back, *)
(* is not taken again: nobody can resume, register or cancel its session,  *)
(* and the timeouts only act on records that count.                        *)
THEOREM FreedTheorem == Spec => FreedPlaceStaysFree
<1>1. ASSUME TypeOK, Next, NEW s \in Session, GivenBack(s)
      PROVE  GivenBack(s)'
  <2> DEFINE Same == creation'[s] = creation[s] /\ status'[s] = status[s]
                     /\ index'[s] \in {index[s], status[s]}
  <2>1. ASSUME NEW t \in Session, NEW newStatus, Write(t, newStatus), t # s
        PROVE  status'[s] = status[s] /\ index'[s] = index[s]
    BY <1>1, <2>1 DEF Write, TypeOK
  <2>2. ASSUME NEW t \in Session, PersistSession(t) \/ FailSession(t)
        PROVE  Same
    <3>1. t # s
      BY <1>1, <2>2 DEF PersistSession, FailSession, GivenBack
    <3>2. \E newStatus : Write(t, newStatus)
      BY <2>2 DEF PersistSession, FailSession
    <3>3. creation'[s] = creation[s]
      BY <1>1, <2>2, <3>1 DEF PersistSession, FailSession, TypeOK
    <3> QED BY <2>1, <3>1, <3>2, <3>3
  <2>3. ASSUME NEW t \in Session, CheckLimit(t) \/ AbortCreation(t) \/ LaunchEnds(t)
        PROVE  Same
    BY <1>1, <2>3 DEF CheckLimit, AbortCreation, LaunchEnds, GivenBack, TypeOK
  <2>4. ASSUME NEW t \in Session,
               \/ RegisterSandbox(t) \/ ResumeSession(t) \/ ExpireSession(t) \/ CancelSession(t)
               \/ CheckProvisioningTimeout(t) \/ TerminateSession(t)
        PROVE  Same \/ TerminateSession(s)
    <3>1. Admitted(t) => t # s
      BY <1>1 DEF Admitted, GivenBack
    <3>2. status[t] = "SANDBOX_PROVISIONING" => t # s
      BY <1>1 DEF GivenBack, COUNTED_STATUSES
    <3>3. t # s \/ TerminateSession(t)
      BY <2>4, <3>1, <3>2
      DEF RegisterSandbox, ResumeSession, ExpireSession, CancelSession, CheckProvisioningTimeout
    <3>4. /\ creation' = creation
          /\ \E newStatus : Write(t, newStatus)
      BY <2>4 DEF RegisterSandbox, ResumeSession, ExpireSession, CancelSession,
                  CheckProvisioningTimeout, TerminateSession, Becomes
    <3> QED BY <2>1, <3>3, <3>4
  <2>5. ASSUME NEW t \in Session, Propagate(t)
        PROVE  Same
    BY <1>1, <2>5 DEF Propagate, TypeOK
  <2>6. CASE Same
    BY <1>1, <2>6 DEF GivenBack
  <2>7. CASE TerminateSession(s)
    BY <1>1, <2>7 DEF TerminateSession, Becomes, Write, GivenBack, COUNTED_STATUSES, TypeOK
  <2> QED BY <1>1, <2>2, <2>3, <2>4, <2>5, <2>6, <2>7 DEF Next
<1>2. TypeOK /\ [Next]_quotaVars =>
        [\A s \in Session : GivenBack(s) => GivenBack(s)']_quotaVars
  BY <1>1
<1>3. Init => TypeOK
  BY Initially
<1>4. TypeOK /\ [Next]_quotaVars => TypeOK'
  BY Typed
<1> QED
  BY <1>2, <1>3, <1>4, PTL DEF Spec, FreedPlaceStaysFree

------------------------------------------------------------------------------
(* Each session and its life.                                              *)

LEMMA WriteOne ==
  ASSUME TypeOK, NEW s \in Session, NEW t \in Session, NEW newStatus, Write(s, newStatus)
  PROVE  status'[t] = IF t = s THEN newStatus ELSE status[t]
BY DEF TypeOK, Write

\* A step of SandboxQuota is for each session a step of its life, or none.
LEMMA SessionStep ==
  ASSUME TypeOK, [Next]_quotaVars, NEW t \in Session
  PROVE  [Life(t)!Next]_(Life(t)!lifeVars)
<1> USE DEF TypeOK, Life!lifeVars
<1>1. CASE UNCHANGED quotaVars
  BY <1>1 DEF quotaVars
<1>2. ASSUME NEW s \in Session, Propagate(s)
      PROVE  UNCHANGED Life(t)!lifeVars
  BY <1>2 DEF Propagate
<1>3. ASSUME NEW s \in Session, PersistSession(s)
      PROVE  [Life(t)!Next]_(Life(t)!lifeVars)
  BY <1>3, WriteOne DEF PersistSession, Life!PersistSession, Life!Next
<1>4. ASSUME NEW s \in Session, CheckLimit(s) \/ AbortCreation(s)
      PROVE  [Life(t)!Next]_(Life(t)!lifeVars)
  BY <1>4 DEF CheckLimit, AbortCreation, Life!CheckLimit, Life!Next
<1>5. ASSUME NEW s \in Session, LaunchEnds(s) \/ FailSession(s)
      PROVE  [Life(t)!Next]_(Life(t)!lifeVars)
  BY <1>5, WriteOne DEF LaunchEnds, FailSession, Life!LaunchEnds, Life!FailSession, Life!Next
<1>6. ASSUME NEW s \in Session, RegisterSandbox(s) \/ CancelSession(s)
      PROVE  [Life(t)!Next]_(Life(t)!lifeVars)
  BY <1>6, WriteOne
  DEF RegisterSandbox, CancelSession, Becomes, Admitted, Life!RegisterSandbox, Life!CancelSession,
      Life!Becomes, Life!Admitted, Life!Next
<1>7. ASSUME NEW s \in Session, ResumeSession(s) \/ ExpireSession(s)
      PROVE  [Life(t)!Next]_(Life(t)!lifeVars)
  BY <1>7, WriteOne
  DEF ResumeSession, ExpireSession, Becomes, Admitted, Life!ResumeSession, Life!ExpireSession,
      Life!Becomes, Life!Admitted, Life!Next
<1>8. ASSUME NEW s \in Session, CheckProvisioningTimeout(s) \/ TerminateSession(s)
      PROVE  [Life(t)!Next]_(Life(t)!lifeVars)
  BY <1>8, WriteOne
  DEF CheckProvisioningTimeout, TerminateSession, Becomes, SANDBOX_ACTIVE_STATUSES, WAITING_STATUSES,
      Life!CheckProvisioningTimeout, Life!TerminateSession, Life!Becomes, Life!Next,
      Life!SANDBOX_ACTIVE_STATUSES, Life!WAITING_STATUSES
<1> QED
  BY <1>1, <1>2, <1>3, <1>4, <1>5, <1>6, <1>7, <1>8 DEF Next

(* Every session of SandboxQuota lives the life the system implements      *)
(* (LifeTheorem of LifeProofs), however many there are.                    *)
THEOREM EachLifeTheorem ==
  Spec => EachSessionLives /\ \A s \in Session : Life(s)!Spec
<1>1. Init => \A s \in Session : Life(s)!Init
  BY DEF Init, Life!Init
<1>2. TypeOK /\ [Next]_quotaVars =>
        [\A s \in Session : [Life(s)!Next]_(Life(s)!lifeVars)]_quotaVars
  BY SessionStep
<1>3. Spec => []TypeOK
  BY Initially, Typed, PTL DEF Spec
<1>4. Spec => EachSessionLives
  BY <1>1, <1>2, <1>3, PTL DEF Spec, EachSessionLives
<1>5. ASSUME NEW s \in Session
      PROVE  Spec => Life(s)!Spec
  <2>1. Init => Life(s)!Init
    BY <1>1
  <2>2. TypeOK /\ [Next]_quotaVars => [Life(s)!Next]_(Life(s)!lifeVars)
    BY SessionStep
  <2> QED BY <1>3, <2>1, <2>2, PTL DEF Spec, Life!Spec
<1> QED BY <1>4, <1>5

(* The other way round: sessions that each take a step of their life at a  *)
(* time, with the count deciding who is let through and the index hearing  *)
(* of every change of a status at once or later.                           *)
LivesOn(s) ==
  /\ Life(s)!Next
  /\ IF status'[s] = status[s] THEN UNCHANGED <<status, index>> ELSE Write(s, status'[s])
  /\ creation' = [creation EXCEPT ![s] = creation'[s]]
  /\ creation[s] \in {"refused", "dropped"} => creation'[s] = creation[s]
  /\ creation[s] = "count" /\ creation'[s] \notin {"count", "dropped"}
       => creation'[s] = IF OverLimit(CountActiveSandboxes) THEN "refused" ELSE "launch"
  /\ revived' = IF status'[s] = "SESSION_RUNNING" /\ status[s] \notin COUNTED_STATUSES
                  THEN revived \cup {s} ELSE revived

LivesSpec == Init /\ [][\E s \in Session : LivesOn(s) \/ Propagate(s)]_quotaVars

\* Writing a status again is a write, too.
LEMMA Rewrite ==
  ASSUME TypeOK, LagBounded, NEW s \in Session, UNCHANGED <<status, index>>
  PROVE  Write(s, status[s])
<1>1. status' = [status EXCEPT ![s] = status[s]]
  BY DEF TypeOK
<1>2. Behind' = Behind
  BY DEF Behind
<1> QED BY <1>1, <1>2 DEF Write, LagBounded

LEMMA LivesStep ==
  ASSUME TypeOK, LagBounded, NEW s \in Session, LivesOn(s)
  PROVE  Next \/ UNCHANGED quotaVars
<1>1. Write(s, status'[s])
  BY Rewrite DEF LivesOn
<1>2. CASE Life(s)!PersistSession
  <2>1. creation[s] = "new" /\ creation'[s] = "count" /\ status'[s] = "SANDBOX_PROVISIONING"
    BY <1>2 DEF Life!PersistSession, TypeOK
  <2> QED BY <1>1, <2>1 DEF LivesOn, PersistSession, Next
<1>3. CASE Life(s)!CheckLimit
  <2>1. /\ creation[s] = "count" /\ creation'[s] \in {"launch", "refused", "dropped"}
        /\ status'[s] = status[s]
    BY <1>3 DEF Life!CheckLimit, TypeOK
  <2>2. UNCHANGED <<status, index, revived>>
    BY <2>1 DEF LivesOn, COUNTED_STATUSES
  <2> QED BY <2>1, <2>2 DEF LivesOn, CheckLimit, AbortCreation, Next
<1>4. CASE Life(s)!LaunchEnds
  <2>1. creation[s] = "launch" /\ creation'[s] = "ended" /\ status'[s] = status[s]
    BY <1>4 DEF Life!LaunchEnds, TypeOK
  <2>2. UNCHANGED <<status, index, revived>>
    BY <2>1 DEF LivesOn, COUNTED_STATUSES
  <2> QED BY <2>1, <2>2 DEF LivesOn, LaunchEnds, Next
<1>5. CASE Life(s)!FailSession
  <2>1. creation[s] = "launch" /\ creation'[s] = "ended" /\ status'[s] = "SESSION_FAILED"
    BY <1>5 DEF Life!FailSession, TypeOK
  <2> QED BY <1>1, <2>1 DEF LivesOn, FailSession, Next
<1>6. ASSUME NEW newStatus, Life(s)!Becomes(newStatus)
      PROVE  UNCHANGED creation /\ status'[s] = newStatus /\ Write(s, newStatus)
  <2>1. creation'[s] = creation[s]
    BY <1>6 DEF Life!Becomes, LivesOn
  <2> QED BY <1>1, <1>6, <2>1 DEF Life!Becomes, LivesOn, TypeOK
<1>7. Life(s)!Admitted <=> Admitted(s)
  BY DEF Life!Admitted, Admitted
<1>8. CASE Life(s)!ResumeSession
  BY <1>6, <1>7, <1>8 DEF Life!ResumeSession, LivesOn, ResumeSession, Next
<1>9. CASE \/ Life(s)!RegisterSandbox \/ Life(s)!ExpireSession \/ Life(s)!CancelSession
           \/ Life(s)!CheckProvisioningTimeout \/ Life(s)!TerminateSession
  <2>1. ASSUME NEW newStatus \in QuotaStatus \ {"SESSION_RUNNING"}, Life(s)!Becomes(newStatus)
        PROVE  Becomes(s, newStatus)
    BY <1>6, <2>1 DEF LivesOn, Becomes
  <2>2. \A newStatus \in {"SANDBOX_READY", "SESSION_FAILED", "SESSION_CANCELLED", "SANDBOX_TERMINATED"} :
          newStatus \in QuotaStatus \ {"SESSION_RUNNING"}
    BY DEF QuotaStatus, COUNTED_STATUSES
  <2>3. CASE Life(s)!RegisterSandbox
    BY <1>7, <2>1, <2>2, <2>3 DEF Life!RegisterSandbox, RegisterSandbox, Next
  <2>4. CASE Life(s)!ExpireSession
    BY <1>7, <2>1, <2>2, <2>4 DEF Life!ExpireSession, ExpireSession, Next
  <2>5. CASE Life(s)!CancelSession
    BY <1>7, <2>1, <2>2, <2>5 DEF Life!CancelSession, CancelSession, Next
  <2>6. CASE Life(s)!CheckProvisioningTimeout
    BY <2>1, <2>2, <2>6 DEF Life!CheckProvisioningTimeout, CheckProvisioningTimeout, Next
  <2>7. CASE Life(s)!TerminateSession
    BY <2>1, <2>2, <2>7
    DEF Life!TerminateSession, TerminateSession, Next, SANDBOX_ACTIVE_STATUSES, WAITING_STATUSES,
        Life!SANDBOX_ACTIVE_STATUSES, Life!WAITING_STATUSES
  <2> QED BY <1>9, <2>3, <2>4, <2>5, <2>6, <2>7
<1> QED BY <1>2, <1>3, <1>4, <1>5, <1>8, <1>9 DEF LivesOn, Life!Next

(* Nothing is lost by counting abstract lives instead of whole systems:    *)
(* whatever sessions that live as LifeTheorem says do together, is a       *)
(* behaviour of SandboxQuota, and its limits hold of it.                   *)
THEOREM CompositionTheorem == LivesSpec => Spec
<1>1. TypeOK /\ LagBounded /\ [\E s \in Session : LivesOn(s) \/ Propagate(s)]_quotaVars
        => [Next]_quotaVars
  BY LivesStep DEF Next
<1>2. TypeOK /\ LagBounded /\ [Next]_quotaVars => TypeOK' /\ LagBounded'
  BY Typed, Lagging
<1>3. Init => TypeOK /\ LagBounded
  BY Initially
<1> QED BY <1>1, <1>2, <1>3, PTL DEF LivesSpec, Spec
==============================================================================
