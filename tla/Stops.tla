-------------------------------- MODULE Stops -------------------------------
(* stop.service.ts: the master's decision on a STOP step and the technician's*)
(* rework of a rejected one.                                                 *)
EXTENDS Risks

\* lockPendingStop: the pending approval and the step it was submitted for.
PendingStop(s, a) ==
    /\ job.status = "WAITING_STOP_APPROVAL"
    /\ approvals[s][a] = "PENDING"
    /\ steps[s].status = "WAITING_APPROVAL"

ApproveStop(s, a) ==
    /\ PendingStop(s, a)
    /\ ResolveStopRisk(s)
    /\ approvals' = [approvals EXCEPT ![s][a] = "APPROVED"]
    /\ steps' = [steps EXCEPT ![s].status = "APPROVED"]
    /\ job' = [job EXCEPT !.status = WorkingStatus]
    /\ checklist' = HeaderAfter(steps')
    /\ UNCHANGED <<measured, evidenceVars, snapshots, environmentVars, requests>>

RejectStop(s, a) ==
    /\ PendingStop(s, a)
    /\ approvals' = [approvals EXCEPT ![s][a] = "REJECTED"]
    /\ steps' = [steps EXCEPT ![s].status = "REJECTED"]
    /\ job' = [job EXCEPT !.status = "REJECTED"]
    /\ LinkStopRejectionRisk(s)
    /\ UNCHANGED <<checklist, measured, evidenceVars, snapshots,
                   environmentVars, requests>>

\* Mutant: the rework reuses the rejected attempt.
ReworkSameAttempt(s) ==
    /\ job.status = "REJECTED"
    /\ checklist # "NONE"
    /\ steps[s].status = "REJECTED"
    /\ steps' = [steps EXCEPT ![s].status = "PENDING"]
    /\ job' = [job EXCEPT !.status = WorkingStatus]
    /\ UNCHANGED <<checklist, approvals, measured, evidenceVars, risks,
                   snapshots, environmentVars, requests>>

\* reworkStop: the rejected step becomes pending again, one attempt later.
ReworkStop(s) ==
    /\ job.status = "REJECTED"
    /\ checklist # "NONE"
    /\ steps[s].status = "REJECTED"
    /\ steps[s].attempt < MaxAttempt
    /\ steps' = [steps EXCEPT ![s].status = "PENDING", ![s].attempt = @ + 1]
    /\ job' = [job EXCEPT !.status = WorkingStatus]
    /\ UNCHANGED <<checklist, approvals, measured, evidenceVars, risks,
                   snapshots, environmentVars, requests>>
=============================================================================
