-------------------------------- MODULE Jobs --------------------------------
(* jobs.service.ts and assignment.service.ts: opening, starting, describing, *)
(* cancelling and assigning a job, and the customer and vehicle edits that   *)
(* change what the job's summary says without touching the job row.          *)
EXTENDS JobState

\* lockJobForTransition.
InStatus(allowedFrom) == job.status \in allowedFrom

\* createJob with assignAtCreation: a technician who opens a job is assigned
\* to it, an administrator (NoUser) leaves it unassigned.
CreateJob(u) ==
    /\ job.status = "NONE"
    /\ job' = [job EXCEPT !.status = "DRAFT", !.technician = u]
    /\ UNCHANGED <<checklistVars, evidenceVars, risks, snapshots,
                   environmentVars, requests>>

StartJob ==
    /\ InStatus({"DRAFT"})
    /\ policy # "NONE"
    /\ job' = [job EXCEPT !.status = "IN_PROGRESS"]
    /\ UNCHANGED <<checklistVars, evidenceVars, risks, snapshots,
                   environmentVars, requests>>

\* updateInstallation writes only columns whose value changes.
UpdateInstallation(i) ==
    /\ job.status \in {"DRAFT", "IN_PROGRESS"}
    /\ i # job.installation
    /\ job' = [job EXCEPT !.installation = i]
    /\ UNCHANGED <<checklistVars, evidenceVars, risks, snapshots,
                   environmentVars, requests>>

\* Mutant: a job that waits for a STOP decision can be cancelled.
CancelJobWhileWaiting ==
    /\ InStatus({"DRAFT", "IN_PROGRESS", "WAITING_STOP_APPROVAL"})
    /\ job' = [job EXCEPT !.status = "CANCELLED"]
    /\ UNCHANGED <<checklistVars, evidenceVars, risks, snapshots,
                   environmentVars, requests>>

CancelJob ==
    /\ InStatus({"DRAFT", "IN_PROGRESS"})
    /\ job' = [job EXCEPT !.status = "CANCELLED"]
    /\ UNCHANGED <<checklistVars, evidenceVars, risks, snapshots,
                   environmentVars, requests>>

\* reassign and unassign stay possible in QUALITY_REVIEW.
Reassign(u) ==
    /\ job.status # "NONE"
    /\ ~IsTerminal
    /\ job' = [job EXCEPT !.technician = u]
    /\ UNCHANGED <<checklistVars, evidenceVars, risks, snapshots,
                   environmentVars, requests>>

Unassign ==
    /\ job.status # "NONE"
    /\ ~IsTerminal
    /\ job' = [job EXCEPT !.technician = NoUser]
    /\ UNCHANGED <<checklistVars, evidenceVars, risks, snapshots,
                   environmentVars, requests>>

\* updateCustomer and updateVehicle lock their own row, never the job's.
EditRegistry(r) ==
    /\ r # registry
    /\ registry' = r
    /\ UNCHANGED <<job, checklistVars, evidenceVars, risks, snapshots, policy,
                   now, requests>>
=============================================================================
