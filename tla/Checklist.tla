----------------------------- MODULE Checklist ------------------------------
(* execution.service.ts: assigning the published checklist version to a job, *)
(* completing a step in sequence, and redoing a done step of a reopened job. *)
EXTENDS JobState

AssignChecklist ==
    /\ job.status \in {"DRAFT", "IN_PROGRESS"}
    /\ checklist = "NONE"
    /\ checklist' = "OPEN"
    /\ steps' = [s \in Steps |-> [status |-> "PENDING", attempt |-> 1]]
    /\ UNCHANGED <<job, approvals, measured, evidenceVars, risks, snapshots,
                   environmentVars, requests>>

\* Mutant: only the step just before is looked at.
PreviousStepDone(s) ==
    \A t \in Steps : t + 1 = s => steps[t].status \in DoneStatuses

EarlierStepsDone(s) ==
    \A t \in Steps : t < s => steps[t].status \in DoneStatuses

ReadyToComplete(u, s) ==
    /\ IsWorkable
    /\ CanExecuteJob(u)
    /\ checklist # "NONE"
    /\ steps[s].status = "PENDING"
    /\ Cardinality(ReadyPhotos(s, steps[s].attempt)) >= RequiredPhotos[s]
    /\ EarlierStepsDone(s)

\* A STOP step is sent for a decision and takes the whole job with it.
SubmitStop(s, a) ==
    /\ steps' = [steps EXCEPT ![s].status = "WAITING_APPROVAL"]
    /\ approvals' = [approvals EXCEPT ![s][a] = "PENDING"]
    /\ job' = [job EXCEPT !.status = "WAITING_STOP_APPROVAL"]
    /\ UNCHANGED checklist

FinishStep(s) ==
    /\ steps' = [steps EXCEPT ![s].status = "COMPLETED"]
    /\ checklist' = HeaderAfter(steps')
    /\ UNCHANGED <<approvals, job>>

\* A step with a required measurement is refused without one in range, which
\* is then stored for the attempt.
CompleteStep(u, s) ==
    LET a == steps[s].attempt IN
    /\ ReadyToComplete(u, s)
    /\ measured' = measured \cup ({s} \cap MeasuredSteps) \X {a}
    /\ IF s \in StopSteps THEN SubmitStop(s, a) ELSE FinishStep(s)
    /\ UNCHANGED <<evidenceVars, risks, snapshots, environmentVars, requests>>

\* Mutant: the header keeps its completed_at.
RedoStepKeepsHeader(s) ==
    /\ job.status = "REOPENED"
    /\ checklist # "NONE"
    /\ steps[s].status \in DoneStatuses
    /\ steps[s].attempt < MaxAttempt
    /\ steps' = [steps EXCEPT ![s].status = "PENDING", ![s].attempt = @ + 1]
    /\ UNCHANGED <<job, checklist, approvals, measured, evidenceVars, risks,
                   snapshots, environmentVars, requests>>

\* redoStep asks no execution guard of its caller.
RedoStep(s) ==
    /\ job.status = "REOPENED"
    /\ checklist # "NONE"
    /\ steps[s].status \in DoneStatuses
    /\ steps[s].attempt < MaxAttempt
    /\ steps' = [steps EXCEPT ![s].status = "PENDING", ![s].attempt = @ + 1]
    /\ checklist' = "OPEN"
    /\ UNCHANGED <<job, approvals, measured, evidenceVars, risks, snapshots,
                   environmentVars, requests>>
=============================================================================
