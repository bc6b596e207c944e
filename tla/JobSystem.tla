----------------------------- MODULE JobSystem ------------------------------
(* One job from its opening to the last completion of its last cycle, with   *)
(* every service that touches it: technicians, masters and quality reviewers *)
(* acting at once, uploads in flight, reconciliation, changes of the risk    *)
(* policy, edits of the customer and vehicle, server crashes and storage     *)
(* faults.                                                                   *)
EXTENDS Jobs, Checklist, Stops, Evidence, Completion

\* A job that has not been opened.
FreshInit ==
    /\ job \in [status : {"NONE"}, cycle : {1}, technician : {NoUser},
                installation : Installations, closedAt : {0}, reopenedAt : {0}]
    /\ checklist = "NONE"
    /\ steps = [s \in Steps |-> [status |-> "PENDING", attempt |-> 1]]
    /\ approvals = [s \in Steps |-> [a \in Attempts |-> "NONE"]]
    /\ measured = {}
    /\ photos = [p \in PhotoIds |-> BlankPhoto]
    /\ signatures = [g \in SignatureIds |-> BlankSignature]
    /\ objects = [e \in EvidenceIds |-> "ABSENT"]

\* A job the migrations found with its checklist done, before phase 10B: the
\* evidence rows are UNVERIFIED, whatever became of their objects; a
\* signature belongs to cycle 1 and has no digest; a job reopened before has
\* cycle 2; a completed one has no snapshot.
LegacyInit ==
    /\ job \in [status : {"IN_PROGRESS"}, cycle : {1},
                technician : {NoUser}, installation : Installations,
                closedAt : {0}, reopenedAt : {0}]
          \cup [status : {"COMPLETED"}, cycle : {1},
                technician : {NoUser}, installation : Installations,
                closedAt : {1}, reopenedAt : {0}]
          \cup [status : {"REOPENED"}, cycle : {2} \cap Cycles,
                technician : {NoUser}, installation : Installations,
                closedAt : {1}, reopenedAt : {1}]
    /\ checklist = "COMPLETE"
    /\ steps = [s \in Steps |->
                  [status |-> IF s \in StopSteps THEN "APPROVED" ELSE "COMPLETED",
                   attempt |-> 1]]
    /\ approvals = [s \in Steps |-> [a \in Attempts |->
                      IF s \in StopSteps /\ a = 1 THEN "APPROVED" ELSE "NONE"]]
    /\ measured = MeasuredSteps \X {1}
    /\ photos = [p \in PhotoIds |->
                   IF p \in Steps
                     THEN [status |-> "UNVERIFIED", step |-> p, attempt |-> 1]
                     ELSE BlankPhoto]
    /\ signatures = [g \in SignatureIds |->
                       IF g = MaxPhotos + 1
                         THEN [BlankSignature EXCEPT !.status = "UNVERIFIED"]
                         ELSE BlankSignature]
    /\ objects \in [EvidenceIds -> ObjectStates]
    /\ \A e \in EvidenceIds : HasStatus(e, "NONE") => objects[e] = "ABSENT"

Init ==
    /\ IF LegacyJob THEN LegacyInit ELSE FreshInit
    /\ uploads = [e \in EvidenceIds |-> "IDLE"]
    /\ risks = [r \in RiskIds |-> BlankRisk]
    /\ snapshots = [c \in Cycles |-> NoSnapshot]
    /\ policy \in PolicyKinds
    /\ registry \in Registries
    /\ now = 1
    /\ requests = [q \in Requests |-> "IDLE"]

-----------------------------------------------------------------------------
JobActions ==
    \/ \E u \in Users \cup {NoUser} : CreateJob(u)
    \/ StartJob
    \/ \E i \in Installations : UpdateInstallation(i)
    \/ CancelJob
    \/ \E u \in Users : Reassign(u)
    \/ Unassign
    \/ \E r \in Registries : EditRegistry(r)

ChecklistActions ==
    \/ AssignChecklist
    \/ \E u \in Users, s \in Steps : CompleteStep(u, s)
    \/ \E s \in Steps : RedoStep(s)

StopActions ==
    \/ \E s \in Steps, a \in Attempts : ApproveStop(s, a)
    \/ \E s \in Steps, a \in Attempts : RejectStop(s, a)
    \/ \E s \in Steps : ReworkStop(s)

RiskActions ==
    \/ \E blocking \in BOOLEAN : CreateRisk(blocking)
    \/ \E r \in RiskIds : ResolveRisk(r)
    \/ \E r \in RiskIds, blocking \in BOOLEAN : ReviseRisk(r, blocking)
    \/ \E p \in PolicyKinds : ActivateMatrix(p)
    \/ RetireMatrix

\* The rest of an upload whose row is registered.
UploadStep(e) ==
    \/ PutObject(e)
    \/ PutObjectFails(e)
    \/ MarkFailed(e)
    \/ FinalizeUpload(e)
    \/ DeleteObject(e)

Reconcile(e) ==
    \/ PromoteLegacy(e)
    \/ FailLegacy(e)
    \/ \E deep \in BOOLEAN : FailLost(e, deep)
    \/ FailStale(e)

EvidenceActions ==
    \/ \E s \in Steps : RegisterPhoto(s)
    \/ RegisterSignature
    \/ \E e \in EvidenceIds : UploadStep(e)
    \/ \E e \in EvidenceIds : UploadDies(e)
    \/ \E e \in EvidenceIds : LoseObject(e)
    \/ \E e \in EvidenceIds : Reconcile(e)

CompletionActions ==
    \/ \E q \in Requests : CheckClose(q)
    \/ \E q \in Requests : CheckConfirm(q)
    \/ \E q \in Requests : VerifyObjects(q)
    \/ \E q \in Requests : AbandonRequest(q)
    \/ \E q \in Requests, t \in Seconds : CloseJob(q, t)
    \/ \E q \in Requests : SubmitForReview(q)
    \/ \E q \in Requests, t \in Seconds : ConfirmQuality(q, t)
    \/ \E t \in Seconds : ReopenJob(t)

Next ==
    \/ JobActions
    \/ ChecklistActions
    \/ StopActions
    \/ RiskActions
    \/ EvidenceActions
    \/ CompletionActions

Spec == Init /\ [][Next]_vars

\* A server that stays up carries every upload it started through to its end.
FairSpec == Spec /\ \A e \in EvidenceIds : WF_vars(UploadStep(e))

-----------------------------------------------------------------------------
(* Properties.                                                               *)

\* The three rows a STOP decision touches never disagree: the approval of an
\* attempt is pending exactly while that attempt of the step waits, the job
\* waits or stands rejected exactly when one of its steps does, and no two
\* steps do.  Otherwise lockPendingStop and reworkStop would refuse for ever.
StopConsistency ==
    /\ \A s \in Steps, a \in Attempts :
         approvals[s][a] = "PENDING"
           <=> steps[s].status = "WAITING_APPROVAL" /\ steps[s].attempt = a
    /\ \A s \in Steps :
         /\ steps[s].status = "REJECTED"
              => approvals[s][steps[s].attempt] = "REJECTED"
         /\ steps[s].status = "APPROVED"
              => approvals[s][steps[s].attempt] = "APPROVED"
    /\ \A s, t \in Steps :
         /\ steps[s].status \in {"WAITING_APPROVAL", "REJECTED"}
         /\ steps[t].status \in {"WAITING_APPROVAL", "REJECTED"}
         => s = t
    /\ job.status = "WAITING_STOP_APPROVAL"
         <=> \E s \in Steps : steps[s].status = "WAITING_APPROVAL"
    /\ job.status = "REJECTED"
         <=> \E s \in Steps : steps[s].status = "REJECTED"

\* The checklist header says completed exactly when every step is done: the
\* customer is never asked to sign open work (saveSignature reads only the
\* header), and finished work never lacks the header it needs.
HeaderMatchesSteps ==
    checklist = "COMPLETE" <=> (checklist # "NONE" /\ AllStepsDone)

\* A job keeps to the working status of its cycle: first-cycle statuses only
\* before a reopening, and a STOP decided in a reopened cycle returns the job
\* to REOPENED even when close and reopening fell in the same second.
CycleConsistency ==
    /\ job.status \in {"NONE", "DRAFT", "IN_PROGRESS", "CANCELLED"}
         => job.cycle = 1
    /\ job.status \in {"REOPENED", "QUALITY_REVIEW"} => job.cycle > 1
    /\ job.status \in {"WAITING_STOP_APPROVAL", "REJECTED"}
         => (IsReopenCycle <=> job.cycle > 1)

\* Sequence: whatever is waiting for a decision or was rejected has all
\* earlier steps done, and in the first cycle the done steps are a prefix.
SubmittedInOrder ==
    \A s \in Steps :
       \/ steps[s].status \in {"WAITING_APPROVAL", "REJECTED"}
       \/ job.cycle = 1 /\ steps[s].status \in DoneStatuses
       => \A t \in Steps : t < s => steps[t].status \in DoneStatuses

\* A decision on an attempt is never taken back or taken again, by no mix of
\* decisions, rework, redo and reopening.
DecisionsAreFinal ==
    [][\A s \in Steps, a \in Attempts :
          approvals[s][a] \in {"APPROVED", "REJECTED"}
            => approvals'[s][a] = approvals[s][a]]_vars

\* Evidence the master decided on can be lost, never added to: once an
\* attempt was submitted no upload in flight makes a photo of it READY.
SubmittedEvidenceOnlyShrinks ==
    [][\A s \in Steps, a \in Attempts :
          approvals[s][a] # "NONE"
            => ReadyPhotos(s, a)' \subseteq ReadyPhotos(s, a)]_vars

\* A rejected STOP leaves at most one open blocker per step and cycle, and an
\* approved one leaves none, whatever was revised or resolved in between.
StopRiskFollowsDecision ==
    \A s \in Steps :
       /\ Cardinality(OpenStopRisks(s)) <= 1
       /\ steps[s].status = "APPROVED" => OpenStopRisks(s) = {}

\* Without lost objects, a step that was accepted still passes the photo and
\* measurement parts of the completion gate: these can never strand a job
\* whose steps are all done and take no more evidence.
DoneStepsPassTheGate ==
    \A s \in Steps :
       steps[s].status \in DoneStatuses \cup {"WAITING_APPROVAL"} =>
         /\ Cardinality(ReadyPhotos(s, RelevantAttempt(s))) >= RequiredPhotos[s]
         /\ s \in MeasuredSteps => <<s, RelevantAttempt(s)>> \in measured

\* An accepted row has its object behind it, through late answers, ambiguous
\* storage errors, stale sweeps and the deletion of refused objects.
ReadyImpliesStored ==
    \A e \in EvidenceIds : HasStatus(e, "READY") => objects[e] = "STORED"

\* No attempt of a step ever holds more live photos than the limit.
PhotosWithinLimit ==
    \A s \in Steps, a \in Attempts :
       Cardinality(LivePhotos(s, a)) <= MAX_PHOTOS_PER_ATTEMPT

\* "One READY signature per cycle" (completion.service.ts:360): at most one
\* signature of a cycle is in flight or accepted and not superseded.
OneLiveSignaturePerCycle ==
    \A g, h \in SignatureIds :
       /\ signatures[g].status \in {"PENDING", "READY"}
       /\ signatures[h].status \in {"PENDING", "READY"}
       /\ signatures[g].cycle = signatures[h].cycle
       /\ ~signatures[g].superseded /\ ~signatures[h].superseded
       => g = h

\* An accepted signature that is not superseded belongs to the current cycle:
\* no signature of an earlier cycle survives a reopening, not even one whose
\* upload was still in flight.
ActiveSignatureIsCurrent ==
    \A g \in SignatureIds :
       signatures[g].status = "READY" /\ ~signatures[g].superseded
         => signatures[g].cycle = job.cycle

\* FAILED is final for an evidence row, and only an upload or a verified
\* legacy row becomes READY: what reconciliation rejected never counts again.
FailedEvidenceIsFinal ==
    [][\A e \in EvidenceIds :
          /\ HasStatus(e, "FAILED") => HasStatus(e, "FAILED")'
          /\ ~HasStatus(e, "READY") /\ HasStatus(e, "READY")'
               => objects[e] = "STORED"]_vars

\* What a completion froze names evidence of the right step and attempt, and
\* a signature of its own cycle that either carries exactly the frozen
\* summary or is a row from before digests; legacy rows that were never
\* verified, and signatures of another cycle, never seal anything.
SealNamesItsOwnEvidence ==
    \A c \in {d \in Cycles : snapshots[d] # NoSnapshot} :
       LET seal == snapshots[c] IN
       /\ seal.summary.cycle = c
       /\ signatures[seal.signature].cycle = c
       /\ signatures[seal.signature].status \in {"READY", "FAILED"}
       /\ seal.signedDigest \in {NoDigest, seal.summary}
       /\ \A s \in Steps : \A p \in seal.summary.steps[s].evidence :
            /\ photos[p].step = s
            /\ photos[p].attempt = seal.summary.steps[s].attempt
            /\ photos[p].status \in {"READY", "FAILED"}

-----------------------------------------------------------------------------
(* The ledger of completions this system implements.                         *)
NoSeal == [none |-> TRUE]

SealOf(snapshot) ==
    IF snapshot = NoSnapshot
      THEN NoSeal
      ELSE [work       |-> snapshot.summary,
            signed     |-> snapshot.signedDigest,
            blockers   |-> snapshot.summary.blockers,
            unfinished |-> {s \in Steps :
                snapshot.summary.steps[s].status \notin DoneStatuses}]

Phase ==
    CASE job.status = "COMPLETED"      -> "SEALED"
      [] job.status = "QUALITY_REVIEW" -> "REVIEW"
      [] job.status = "CANCELLED"      -> "ABANDONED"
      [] OTHER                         -> "OPEN"

Ledger == INSTANCE CompletionLedger WITH
    LastCycle <- MaxCycle, NoSeal <- NoSeal,
    phase <- Phase, cycle <- job.cycle,
    seals <- [c \in Cycles |-> SealOf(snapshots[c])]

\* A job opened in this system implements the completion ledger: sealed once
\* per cycle, only as finished, unblocked and signed as it stands, for ever.
ImplementsLedger == Ledger!Spec

-----------------------------------------------------------------------------
(* Liveness under FairSpec.                                                  *)

\* Every registered upload is settled: a customer can sign again and a
\* technician is not held to the photo limit by a row that never ends.
UploadsSettle ==
    \A e \in EvidenceIds : HasStatus(e, "PENDING") ~> ~HasStatus(e, "PENDING")

\* A put the storage acknowledged ends as accepted evidence or with the object
\* deleted, in whatever order the stale sweep, the change of the work and the
\* late answer of the storage come.
PutEndsAcceptedOrDeleted ==
    \A e \in EvidenceIds :
       uploads[e] = "PUT_OK" ~> HasStatus(e, "READY") \/ objects[e] = "ABSENT"

-----------------------------------------------------------------------------
(* What the repository says and the code does not do.                        *)

\* "Terminal (COMPLETED) and CANCELLED jobs cannot receive new risks"
\* (risk.service.ts:32): a completed cycle has no open blocking risk.
CompletedHasNoOpenBlocker == job.status = "COMPLETED" => OpenBlockers = {}

\* "Attempt-1 evidence can never satisfy attempt 2"
\* (docs/EVIDENCE-STORAGE-10B.md:81): a completion freezes, and is gated by,
\* the evidence of the attempt each step was last done at.
CompletedOnCurrentAttempts ==
    job.status = "COMPLETED" =>
      \A s \in Steps : RequiredPhotos[s] > 0 => RelevantAttempt(s) = steps[s].attempt
=============================================================================
