-------------------------------- MODULE Risks -------------------------------
(* risk.service.ts and the activation of a matrix in risk-policy.service.ts: *)
(* raising, resolving, overriding and revising risks, and the two calls that *)
(* link risks to STOP decisions.                                             *)
EXTENDS JobState

\* assessRisk, classify: whether the ACTIVE matrix makes a risk blocking.  A
\* matrix with a blocking STOP_REJECTED override ignores the numbers of a
\* risk with that source; otherwise the thresholds and the severity and
\* likelihood the caller sends may say either.
Assessments(source) ==
    IF policy = "STOP_OVERRIDE" /\ source = "STOP_REJECTED"
      THEN {TRUE} ELSE BOOLEAN

IsRiskRaisable == job.status \notin {"NONE", "COMPLETED", "CANCELLED"}

\* createRisk: the route's schema has no source, so it is always MANUAL.
CreateRisk(blocking) ==
    /\ IsRiskRaisable
    /\ policy # "NONE"
    /\ blocking \in Assessments("MANUAL")
    /\ UnusedRisks # {}
    /\ risks' = [risks EXCEPT ![LowestIn(UnusedRisks)] =
                    [status |-> "OPEN", cycle |-> job.cycle, step |-> NoStep,
                     source |-> "MANUAL", blocking |-> blocking]]
    /\ UNCHANGED <<job, checklistVars, evidenceVars, snapshots,
                   environmentVars, requests>>

\* resolveRisk and overrideRisk, on a job in any status.
ResolveRisk(r) ==
    /\ risks[r].status = "OPEN"
    /\ risks' = [risks EXCEPT ![r].status = "RESOLVED"]
    /\ UNCHANGED <<job, checklistVars, evidenceVars, snapshots,
                   environmentVars, requests>>

\* reviseRisk inserts a superseding row, again on a job in any status.
ReviseRisk(r, blocking) ==
    /\ risks[r].status = "OPEN"
    /\ policy # "NONE"
    /\ blocking \in Assessments(risks[r].source)
    /\ UnusedRisks # {}
    /\ risks' = [risks EXCEPT
                    ![LowestIn(UnusedRisks)] = [risks[r] EXCEPT !.blocking = blocking],
                    ![r].status = "REJECTED"]
    /\ UNCHANGED <<job, checklistVars, evidenceVars, snapshots,
                   environmentVars, requests>>

OpenStopRisks(s) ==
    {r \in RiskIds : /\ risks[r].status = "OPEN"
                     /\ risks[r].source = "STOP_REJECTED"
                     /\ risks[r].step = s
                     /\ risks[r].cycle = job.cycle}

\* linkStopRejectionRisk: an open risk of the step is enough; a new one needs
\* an ACTIVE matrix, and without it the whole rejection rolls back.
LinkStopRejectionRisk(s) ==
    IF OpenStopRisks(s) # {}
      THEN UNCHANGED risks
      ELSE /\ policy # "NONE"
           /\ UnusedRisks # {}
           /\ \E blocking \in Assessments("STOP_REJECTED") :
                risks' = [risks EXCEPT ![LowestIn(UnusedRisks)] =
                             [status |-> "OPEN", cycle |-> job.cycle, step |-> s,
                              source |-> "STOP_REJECTED", blocking |-> blocking]]

\* Mutant: only the blocking risks of the step are resolved.
ResolveBlockingStopRisk(s) ==
    risks' = [r \in RiskIds |->
                 IF r \in OpenStopRisks(s) /\ risks[r].blocking
                   THEN [risks[r] EXCEPT !.status = "RESOLVED"] ELSE risks[r]]

\* resolveStopRisk: an approved STOP resolves the open risks of its step.
ResolveStopRisk(s) ==
    risks' = [r \in RiskIds |->
                 IF r \in OpenStopRisks(s)
                   THEN [risks[r] EXCEPT !.status = "RESOLVED"] ELSE risks[r]]

\* activateMatrix retires the matrix that was ACTIVE; a retired version stays
\* retired, but a new version with the same definition can always be created.
ActivateMatrix(p) ==
    /\ p # policy
    /\ policy' = p
    /\ UNCHANGED <<job, checklistVars, evidenceVars, risks, snapshots,
                   registry, now, requests>>

RetireMatrix ==
    /\ policy # "NONE"
    /\ policy' = "NONE"
    /\ UNCHANGED <<job, checklistVars, evidenceVars, risks, snapshots,
                   registry, now, requests>>
=============================================================================
