----------------------------- MODULE Completion -----------------------------
(* completion.service.ts: the master's close, the reopening of a completed   *)
(* job and the confirmation of reopened work.  A close and a confirmation    *)
(* check the gate and then the stored objects before their transaction, and  *)
(* check the gate again inside it.                                           *)
EXTENDS JobState

Advance(q, from, to) ==
    /\ requests[q] = from
    /\ requests' = [requests EXCEPT ![q] = to]
    /\ UNCHANGED <<job, checklistVars, evidenceVars, risks, snapshots,
                   environmentVars>>

CheckClose(q) ==
    IsWorkable /\ CanComplete /\ Advance(q, "IDLE", "CLOSE_CHECKED")

CheckConfirm(q) ==
    /\ job.status = "QUALITY_REVIEW"
    /\ CanComplete
    /\ Advance(q, "IDLE", "CONFIRM_CHECKED")

VerifyObjects(q) ==
    /\ EvidenceObjectsPresent
    /\ \/ Advance(q, "CLOSE_CHECKED", "CLOSE_VERIFIED")
       \/ Advance(q, "CONFIRM_CHECKED", "CONFIRM_VERIFIED")

\* Any check may fail or the request die: the transaction rolls back.
AbandonRequest(q) ==
    \E from \in RequestStates \ {"IDLE"} : Advance(q, from, "IDLE")

\* Mutant: the signature is not compared with the work again.
AcceptedWithoutFreshness == CanComplete /\ policy # "NONE"

\* What the transactions of closeJob and confirmQuality check under the lock.
AcceptedUnderLock ==
    /\ CanComplete
    /\ policy # "NONE"
    /\ SignatureFresh

\* finalizeSnapshot keeps a snapshot the cycle already has.
FinalizeSnapshot ==
    LET g == LatestIn(ActiveSignatures) IN
    snapshots' = IF snapshots[job.cycle] # NoSnapshot
                   THEN snapshots
                   ELSE [snapshots EXCEPT ![job.cycle] =
                           [summary |-> Summary, signature |-> g,
                            signedDigest |-> signatures[g].digest]]

\* The second of the clock in which a transaction sets a timestamp.
Seconds == {t \in {now, now + 1} : t <= MaxClock}

Complete(q, t) ==
    /\ AcceptedUnderLock
    /\ job' = [job EXCEPT !.status = "COMPLETED", !.closedAt = t]
    /\ now' = t
    /\ FinalizeSnapshot
    /\ requests' = [requests EXCEPT ![q] = "IDLE"]
    /\ UNCHANGED <<checklistVars, evidenceVars, risks, policy, registry>>

\* closeJob of a first cycle.
CloseJob(q, t) ==
    /\ requests[q] = "CLOSE_VERIFIED"
    /\ job.status = "IN_PROGRESS"
    /\ Complete(q, t)

\* closeJob of a reopened cycle: the work goes to quality review.
SubmitForReview(q) ==
    /\ requests[q] = "CLOSE_VERIFIED"
    /\ job.status = "REOPENED"
    /\ AcceptedUnderLock
    /\ job' = [job EXCEPT !.status = "QUALITY_REVIEW"]
    /\ requests' = [requests EXCEPT ![q] = "IDLE"]
    /\ UNCHANGED <<checklistVars, evidenceVars, risks, snapshots,
                   environmentVars>>

ConfirmQuality(q, t) ==
    /\ requests[q] = "CONFIRM_VERIFIED"
    /\ job.status = "QUALITY_REVIEW"
    /\ Complete(q, t)

\* Mutant: the signature of the closed cycle is not superseded.
ReopenKeepingSignature(t) ==
    /\ job.status = "COMPLETED"
    /\ job.cycle < MaxCycle
    /\ job' = [job EXCEPT !.status = "REOPENED", !.cycle = @ + 1,
                          !.reopenedAt = t]
    /\ now' = t
    /\ UNCHANGED <<checklistVars, evidenceVars, risks, snapshots, policy,
                   registry, requests>>

\* reopenJob: the next cycle, for which no earlier signature counts.
ReopenJob(t) ==
    /\ job.status = "COMPLETED"
    /\ job.cycle < MaxCycle
    /\ job' = [job EXCEPT !.status = "REOPENED", !.cycle = @ + 1,
                          !.reopenedAt = t]
    /\ now' = t
    /\ signatures' = [g \in SignatureIds |->
          IF signatures[g].cycle = job.cycle /\ signatures[g].status = "READY"
            THEN [signatures[g] EXCEPT !.superseded = TRUE]
            ELSE signatures[g]]
    /\ UNCHANGED <<checklistVars, photos, objects, uploads, risks, snapshots,
                   policy, registry, requests>>
=============================================================================
