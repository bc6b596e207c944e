--------------------------- MODULE WorkflowProofs ---------------------------
(* Type correctness of JobSystem, with the lemmas on the latest id of a set  *)
(* that it rests on; then that the job, its checklist header, its steps and  *)
(* their STOP decisions never disagree: for every value of the constants,    *)
(* whatever the number of steps, attempts, cycles, users and requests.       *)
EXTENDS JobSystem, TLAPS, WellFoundedInduction

(* A bounded nonempty set of naturals has a greatest element, and LatestIn   *)
(* returns it: RelevantAttempt, and the signature a completion names, are    *)
(* what their definitions mean.                                              *)
LEMMA LatestInIsGreatest ==
    ASSUME NEW n \in Nat, NEW ids \in SUBSET (0..n), ids # {}
    PROVE  /\ LatestIn(ids) \in ids
           /\ \A j \in ids : j <= LatestIn(ids)
<1> DEFINE R == OpToRel(<, Nat)
           gaps == {k \in Nat : n - k \in ids}
<1>1. gaps # {}
  <2>1. PICK i \in ids : TRUE
    OBVIOUS
  <2>2. n - i \in Nat /\ n - (n - i) = i
    OBVIOUS
  <2> QED
    BY <2>2
<1>2. PICK g \in gaps : \A h \in gaps : ~(<<h, g>> \in R)
  <2>1. gaps \subseteq Nat
    OBVIOUS
  <2>2. IsWellFoundedOn(R, Nat)
    BY NatLessThanWellFounded
  <2> HIDE DEF gaps, R
  <2> QED
    BY <1>1, <2>1, <2>2, WFMin, Zenon
<1>3. \A h \in gaps : ~(h < g)
  BY <1>2 DEF OpToRel
<1>4. n - g \in ids /\ g \in Nat
  OBVIOUS
<1>5. \A j \in ids : j <= n - g
  <2> TAKE j \in ids
  <2>1. n - j \in Nat /\ n - (n - j) = j
    OBVIOUS
  <2>2. n - j \in gaps
    BY <2>1
  <2>3. ~(n - j < g)
    BY <2>2, <1>3
  <2> QED
    BY <2>3, <1>4
<1> QED
  BY <1>4, <1>5 DEF LatestIn

(* The attempt a step is judged by is one of its attempts.                   *)
LEMMA RelevantAttemptType == \A s \in Steps : RelevantAttempt(s) \in Attempts
<1> SUFFICES ASSUME NEW s \in Steps
             PROVE  RelevantAttempt(s) \in Attempts
  OBVIOUS
<1> DEFINE submitted == {a \in Attempts : approvals[s][a] # "NONE"}
<1>1. CASE submitted = {}
  BY <1>1, BoundsAssumption DEF RelevantAttempt, Attempts
<1>2. CASE submitted # {}
  <2>1. submitted \in SUBSET (0..MaxAttempt) /\ MaxAttempt \in Nat
    BY BoundsAssumption DEF Attempts
  <2>2. LatestIn(submitted) \in submitted
    BY <1>2, <2>1, LatestInIsGreatest
  <2> QED
    BY <1>2, <2>2 DEF RelevantAttempt
<1> QED
  BY <1>1, <1>2

(* What the customer signs, and what a completion freezes, is a summary.     *)
LEMMA SummaryType == ASSUME TypeOK PROVE Summary \in Summaries
<1>1. /\ job.cycle \in Cycles
      /\ job.technician \in Users \cup {NoUser}
      /\ job.installation \in Installations
      /\ registry \in Registries
  BY DEF TypeOK, JobRows
<1>2. ASSUME NEW s \in Steps
      PROVE  [status   |-> steps[s].status,
              attempt  |-> RelevantAttempt(s),
              evidence |-> ReadyPhotos(s, RelevantAttempt(s)),
              measured |-> <<s, RelevantAttempt(s)>> \in measured]
               \in [status : StepStatuses, attempt : Attempts,
                   evidence : SUBSET PhotoIds, measured : BOOLEAN]
  <2>1. steps[s].status \in StepStatuses
    BY DEF TypeOK, StepRows
  <2>2. ReadyPhotos(s, RelevantAttempt(s)) \in SUBSET PhotoIds
    BY DEF ReadyPhotos
  <2>3. (<<s, RelevantAttempt(s)>> \in measured) \in BOOLEAN
    OBVIOUS
  <2> QED
    BY <2>1, <2>2, <2>3, RelevantAttemptType
<1>3. approvals \in [Steps -> [Attempts -> ApprovalStatuses]]
  BY DEF TypeOK
<1>4. OpenBlockers \in SUBSET RiskIds
  BY DEF OpenBlockers
<1> QED
  BY <1>1, <1>2, <1>3, <1>4 DEF Summary, Summaries

(* The signature a completion names is one of the signature rows.            *)
LEMMA ActiveSignatureType ==
    ASSUME ActiveSignatures # {}
    PROVE  LatestIn(ActiveSignatures) \in ActiveSignatures
<1>1. ActiveSignatures \in SUBSET (0..(MaxPhotos + MaxSignatures))
  BY BoundsAssumption DEF ActiveSignatures, SignatureIds
<1>2. MaxPhotos + MaxSignatures \in Nat
  BY BoundsAssumption
<1> QED
  BY <1>1, <1>2, LatestInIsGreatest

-----------------------------------------------------------------------------
(* Every initial state is well typed, of a fresh job and of a migrated one.  *)
LEMMA TypeInit == Init => TypeOK
<1> USE DEF EvidenceStatuses, ObjectStates, UploadStates, RiskStatuses,
            RiskSources, StepStatuses, ApprovalStatuses, JobStatuses
<1>1. 1 \in Steps /\ 1 \in Attempts /\ 1 \in Cycles
  BY BoundsAssumption DEF Steps, Attempts, Cycles
<1>2. now = 1 => now \in 0..MaxClock
  BY BoundsAssumption
<1>3. BlankPhoto \in PhotoRows /\ BlankRisk \in RiskRows
  BY <1>1 DEF BlankPhoto, PhotoRows, BlankRisk, RiskRows, NoStep
<1>4. BlankSignature \in SignatureRows
  BY <1>1 DEF BlankSignature, SignatureRows, Digests
<1>5. Init => /\ risks \in [RiskIds -> RiskRows]
              /\ snapshots \in [Cycles -> Snapshots \cup {NoSnapshot}]
              /\ uploads \in [EvidenceIds -> UploadStates]
              /\ policy \in PolicyKinds \cup {"NONE"}
              /\ registry \in Registries
              /\ now \in 0..MaxClock
              /\ requests \in [Requests -> RequestStates]
  BY <1>2, <1>3 DEF Init, RequestStates
<1>6. FreshInit => /\ job \in JobRows
                   /\ checklist \in {"NONE", "OPEN", "COMPLETE"}
                   /\ steps \in [Steps -> StepRows]
                   /\ approvals \in [Steps -> [Attempts -> ApprovalStatuses]]
                   /\ measured \subseteq Steps \X Attempts
                   /\ photos \in [PhotoIds -> PhotoRows]
                   /\ signatures \in [SignatureIds -> SignatureRows]
                   /\ objects \in [EvidenceIds -> ObjectStates]
  BY <1>1, <1>3, <1>4, BoundsAssumption DEF FreshInit, JobRows, StepRows
<1>7. LegacyInit => /\ job \in JobRows
                    /\ checklist \in {"NONE", "OPEN", "COMPLETE"}
                    /\ steps \in [Steps -> StepRows]
                    /\ approvals \in [Steps -> [Attempts -> ApprovalStatuses]]
                    /\ measured \subseteq Steps \X Attempts
                    /\ photos \in [PhotoIds -> PhotoRows]
                    /\ signatures \in [SignatureIds -> SignatureRows]
                    /\ objects \in [EvidenceIds -> ObjectStates]
  <2> SUFFICES ASSUME LegacyInit
               PROVE  /\ job \in JobRows
                      /\ steps \in [Steps -> StepRows]
                      /\ measured \subseteq Steps \X Attempts
                      /\ photos \in [PhotoIds -> PhotoRows]
                      /\ signatures \in [SignatureIds -> SignatureRows]
    BY DEF LegacyInit
  <2>1. job \in JobRows
    BY <1>1, BoundsAssumption DEF LegacyInit, JobRows
  <2>2. steps \in [Steps -> StepRows] /\ measured \subseteq Steps \X Attempts
    BY <1>1, TemplateAssumption DEF LegacyInit, StepRows
  <2>3. photos \in [PhotoIds -> PhotoRows]
    BY <1>1, <1>3 DEF LegacyInit, PhotoRows
  <2>4. [BlankSignature EXCEPT !.status = "UNVERIFIED"] \in SignatureRows
    BY <1>4 DEF SignatureRows
  <2>5. signatures \in [SignatureIds -> SignatureRows]
    BY <1>4, <2>4 DEF LegacyInit
  <2> QED
    BY <2>1, <2>2, <2>3, <2>5
<1> QED
  BY <1>5, <1>6, <1>7 DEF Init, TypeOK

-----------------------------------------------------------------------------
(* Every action keeps the types, one lemma per service.                      *)
LEMMA TypeJobActions == TypeOK /\ JobActions => TypeOK'
<1> SUFFICES ASSUME TypeOK, JobActions
             PROVE  TypeOK'
  OBVIOUS
<1> USE DEF TypeOK, JobRows, JobStatuses, checklistVars, evidenceVars,
            environmentVars
<1>1. ASSUME NEW u \in Users \cup {NoUser}, CreateJob(u)
      PROVE  TypeOK'
  BY <1>1 DEF CreateJob
<1>2. CASE StartJob
  BY <1>2 DEF StartJob, InStatus
<1>3. ASSUME NEW i \in Installations, UpdateInstallation(i)
      PROVE  TypeOK'
  BY <1>3 DEF UpdateInstallation
<1>4. CASE CancelJob
  BY <1>4 DEF CancelJob, InStatus
<1>5. ASSUME NEW u \in Users, Reassign(u)
      PROVE  TypeOK'
  BY <1>5 DEF Reassign
<1>6. CASE Unassign
  BY <1>6 DEF Unassign
<1>7. ASSUME NEW r \in Registries, EditRegistry(r)
      PROVE  TypeOK'
  BY <1>7 DEF EditRegistry
<1> QED
  BY <1>1, <1>2, <1>3, <1>4, <1>5, <1>6, <1>7 DEF JobActions

LEMMA TypeChecklistActions == TypeOK /\ ChecklistActions => TypeOK'
<1> SUFFICES ASSUME TypeOK, ChecklistActions
             PROVE  TypeOK'
  OBVIOUS
<1> USE DEF TypeOK, StepRows, StepStatuses, ApprovalStatuses, checklistVars,
            evidenceVars, environmentVars
<1>1. CASE AssignChecklist
  <2>1. 1 \in Attempts
    BY BoundsAssumption DEF Attempts
  <2> QED
    BY <1>1, <2>1 DEF AssignChecklist
<1>2. ASSUME NEW u \in Users, NEW s \in Steps, CompleteStep(u, s)
      PROVE  TypeOK'
  <2>1. job' \in JobRows
    BY <1>2 DEF CompleteStep, ReadyToComplete, SubmitStop, FinishStep, JobRows, JobStatuses
  <2>2. steps[s].attempt \in Attempts
    OBVIOUS
  <2>3. approvals' \in [Steps -> [Attempts -> ApprovalStatuses]]
    <3>1. CASE s \in StopSteps
      <4>1. approvals' = [approvals EXCEPT ![s][steps[s].attempt] = "PENDING"]
        BY <1>2, <3>1 DEF CompleteStep, ReadyToComplete, SubmitStop, FinishStep
      <4> QED
        BY <4>1, <2>2
    <3>2. CASE s \notin StopSteps
      BY <1>2, <3>2 DEF CompleteStep, ReadyToComplete, SubmitStop, FinishStep
    <3> QED
      BY <3>1, <3>2
  <2>4. measured' \subseteq Steps \X Attempts
    BY <1>2, <2>2 DEF CompleteStep, ReadyToComplete, SubmitStop, FinishStep
  <2>5. steps' \in [Steps -> StepRows]
    <3>1. PICK status \in {"WAITING_APPROVAL", "COMPLETED"} :
            steps' = [steps EXCEPT ![s].status = status]
      BY <1>2 DEF CompleteStep, ReadyToComplete, SubmitStop, FinishStep
    <3> QED
      BY <3>1
  <2>6. checklist' \in {"NONE", "OPEN", "COMPLETE"}
    BY <1>2 DEF CompleteStep, ReadyToComplete, SubmitStop, FinishStep, HeaderAfter
  <2> QED
    BY <1>2, <2>1, <2>3, <2>4, <2>5, <2>6 DEF CompleteStep, ReadyToComplete, SubmitStop, FinishStep
<1>3. ASSUME NEW s \in Steps, RedoStep(s)
      PROVE  TypeOK'
  <2>1. steps[s].attempt + 1 \in Attempts
    BY <1>3, BoundsAssumption DEF RedoStep, Attempts
  <2> QED
    BY ZenonT(60), <1>3, <2>1 DEF RedoStep
<1> QED
  BY <1>1, <1>2, <1>3 DEF ChecklistActions

LEMMA TypeStopActions == TypeOK /\ StopActions => TypeOK'
<1> SUFFICES ASSUME TypeOK, StopActions
             PROVE  TypeOK'
  OBVIOUS
<1> USE DEF TypeOK, checklistVars, evidenceVars, environmentVars
<1>1. ASSUME NEW s \in Steps, NEW a \in Attempts, ApproveStop(s, a)
      PROVE  TypeOK'
  <2>1. risks' \in [RiskIds -> RiskRows]
    BY ZenonT(60), <1>1 DEF ApproveStop, ResolveStopRisk, RiskRows, RiskStatuses
  <2>2. approvals' \in [Steps -> [Attempts -> ApprovalStatuses]]
    BY <1>1 DEF ApproveStop, ApprovalStatuses
  <2>3. steps' \in [Steps -> StepRows]
    BY <1>1 DEF ApproveStop, StepRows, StepStatuses
  <2>4. job' \in JobRows
    BY <1>1 DEF ApproveStop, WorkingStatus, JobRows, JobStatuses
  <2>5. checklist' \in {"NONE", "OPEN", "COMPLETE"}
    BY <1>1 DEF ApproveStop, HeaderAfter
  <2> QED
    BY <1>1, <2>1, <2>2, <2>3, <2>4, <2>5 DEF ApproveStop
<1>2. ASSUME NEW s \in Steps, NEW a \in Attempts, RejectStop(s, a)
      PROVE  TypeOK'
  <2>1. PICK blocking \in BOOLEAN :
          risks' \in {risks, [risks EXCEPT ![LowestIn(UnusedRisks)] =
                                 [status |-> "OPEN", cycle |-> job.cycle,
                                  step |-> s, source |-> "STOP_REJECTED",
                                  blocking |-> blocking]]}
    BY <1>2 DEF RejectStop, LinkStopRejectionRisk, Assessments
  <2>2. [status |-> "OPEN", cycle |-> job.cycle, step |-> s,
         source |-> "STOP_REJECTED", blocking |-> blocking] \in RiskRows
    BY DEF RiskRows, RiskStatuses, RiskSources, JobRows
  <2>3. risks' \in [RiskIds -> RiskRows]
    BY <2>1, <2>2
  <2>4. approvals' \in [Steps -> [Attempts -> ApprovalStatuses]]
    BY <1>2 DEF RejectStop, ApprovalStatuses
  <2>5. steps' \in [Steps -> StepRows]
    BY <1>2 DEF RejectStop, StepRows, StepStatuses
  <2>6. job' \in JobRows
    BY <1>2 DEF RejectStop, JobRows, JobStatuses
  <2> QED
    BY <1>2, <2>3, <2>4, <2>5, <2>6 DEF RejectStop
<1>3. ASSUME NEW s \in Steps, ReworkStop(s)
      PROVE  TypeOK'
  <2>1. steps[s].attempt + 1 \in Attempts
    BY <1>3, BoundsAssumption DEF ReworkStop, Attempts, StepRows
  <2>2. steps' \in [Steps -> StepRows]
    BY <1>3, <2>1 DEF ReworkStop, StepRows, StepStatuses
  <2>3. job' \in JobRows
    BY <1>3 DEF ReworkStop, WorkingStatus, JobRows, JobStatuses
  <2> QED
    BY <1>3, <2>2, <2>3 DEF ReworkStop
<1> QED
  BY <1>1, <1>2, <1>3 DEF StopActions

LEMMA TypeRiskActions == TypeOK /\ RiskActions => TypeOK'
<1> SUFFICES ASSUME TypeOK, RiskActions
             PROVE  TypeOK'
  OBVIOUS
<1> USE DEF TypeOK, RiskRows, RiskStatuses, RiskSources, checklistVars,
            evidenceVars, environmentVars
<1>1. ASSUME NEW blocking \in BOOLEAN, CreateRisk(blocking)
      PROVE  TypeOK'
  BY <1>1 DEF CreateRisk, JobRows
<1>2. ASSUME NEW r \in RiskIds, ResolveRisk(r)
      PROVE  TypeOK'
  BY ZenonT(60), <1>2 DEF ResolveRisk
<1>3. ASSUME NEW r \in RiskIds, NEW blocking \in BOOLEAN,
             ReviseRisk(r, blocking)
      PROVE  TypeOK'
  BY <1>3 DEF ReviseRisk
<1>4. ASSUME NEW p \in PolicyKinds, ActivateMatrix(p)
      PROVE  TypeOK'
  BY <1>4 DEF ActivateMatrix
<1>5. CASE RetireMatrix
  BY <1>5 DEF RetireMatrix
<1> QED
  BY <1>1, <1>2, <1>3, <1>4, <1>5 DEF RiskActions

(* The status of an evidence row changes between evidence statuses.          *)
LEMMA SetStatusType ==
    ASSUME TypeOK, NEW e \in EvidenceIds, NEW status \in EvidenceStatuses,
           SetStatus(e, status)
    PROVE  /\ photos' \in [PhotoIds -> PhotoRows]
           /\ signatures' \in [SignatureIds -> SignatureRows]
<1>1. CASE photos' = [photos EXCEPT ![e].status = status] /\ UNCHANGED signatures
  BY <1>1 DEF TypeOK, PhotoRows
<1>2. CASE signatures' = [signatures EXCEPT ![e].status = status] /\ UNCHANGED photos
  BY <1>2 DEF TypeOK, SignatureRows
<1> QED
  BY <1>1, <1>2 DEF SetStatus

LEMMA TypeUploadStep ==
    ASSUME TypeOK, NEW e \in EvidenceIds, UploadStep(e)
    PROVE  TypeOK'
<1> USE DEF checklistVars, evidenceVars, environmentVars
<1>1. CASE PutObject(e)
  BY <1>1 DEF PutObject, TypeOK, ObjectStates, UploadStates
<1>2. CASE PutObjectFails(e)
  BY <1>2 DEF PutObjectFails, TypeOK, ObjectStates, UploadStates
<1>3. CASE MarkFailed(e)
  <2>1. /\ photos' \in [PhotoIds -> PhotoRows]
        /\ signatures' \in [SignatureIds -> SignatureRows]
    BY <1>3, SetStatusType DEF MarkFailed, EvidenceStatuses, TypeOK
  <2> QED
    BY <1>3, <2>1 DEF MarkFailed, TypeOK, UploadStates
<1>4. CASE FinalizeUpload(e)
  <2>1. /\ photos' \in [PhotoIds -> PhotoRows]
        /\ signatures' \in [SignatureIds -> SignatureRows]
    BY <1>4, SetStatusType DEF FinalizeUpload, EvidenceStatuses, TypeOK
  <2> QED
    BY <1>4, <2>1 DEF FinalizeUpload, TypeOK, UploadStates
<1>5. CASE DeleteObject(e)
  BY <1>5 DEF DeleteObject, TypeOK, ObjectStates, UploadStates
<1> QED
  BY <1>1, <1>2, <1>3, <1>4, <1>5 DEF UploadStep

LEMMA TypeReconcile ==
    ASSUME TypeOK, NEW e \in EvidenceIds, Reconcile(e)
    PROVE  TypeOK'
<1>1. PICK from \in EvidenceStatuses, to \in EvidenceStatuses :
        Reconciled(e, from, to)
  BY DEF Reconcile, PromoteLegacy, FailLegacy, FailLost, FailStale,
         EvidenceStatuses
<1>2. /\ photos' \in [PhotoIds -> PhotoRows]
      /\ signatures' \in [SignatureIds -> SignatureRows]
  BY <1>1, SetStatusType DEF Reconciled
<1> QED
  BY <1>1, <1>2 DEF Reconciled, TypeOK, checklistVars, environmentVars

LEMMA TypeEvidenceActions == TypeOK /\ EvidenceActions => TypeOK'
<1> SUFFICES ASSUME TypeOK, EvidenceActions
             PROVE  TypeOK'
  OBVIOUS
<1> USE DEF checklistVars, evidenceVars, environmentVars
<1>1. ASSUME NEW s \in Steps, RegisterPhoto(s)
      PROVE  TypeOK'
  <2>1. [status |-> "PENDING", step |-> s, attempt |-> steps[s].attempt]
           \in PhotoRows
    BY DEF TypeOK, PhotoRows, StepRows, EvidenceStatuses
  <2>2. photos' \in [PhotoIds -> PhotoRows]
    BY <1>1, <2>1 DEF RegisterPhoto, TypeOK
  <2>3. uploads' \in [EvidenceIds -> UploadStates]
    BY <1>1 DEF RegisterPhoto, TypeOK, UploadStates
  <2> QED
    BY <1>1, <2>2, <2>3 DEF RegisterPhoto, TypeOK
<1>2. CASE RegisterSignature
  <2>1. [status |-> "PENDING", cycle |-> job.cycle, superseded |-> FALSE,
         digest |-> Summary] \in SignatureRows
    BY SummaryType DEF TypeOK, JobRows, SignatureRows, EvidenceStatuses, Digests
  <2>2. [signatures EXCEPT ![LatestIn(LiveSignatures)].superseded = TRUE]
           \in [SignatureIds -> SignatureRows]
    BY DEF TypeOK, SignatureRows
  <2>3. signatures' \in [SignatureIds -> SignatureRows]
    <3> DEFINE row == [status |-> "PENDING", cycle |-> job.cycle,
                       superseded |-> FALSE, digest |-> Summary]
               others == [signatures EXCEPT
                            ![LatestIn(LiveSignatures)].superseded = TRUE]
    <3>1. \/ signatures' = [signatures EXCEPT ![LowestIn(UnusedSignatures)] = row]
          \/ signatures' = [others EXCEPT ![LowestIn(UnusedSignatures)] = row]
      BY <1>2 DEF RegisterSignature
    <3>2. signatures \in [SignatureIds -> SignatureRows]
      BY DEF TypeOK
    <3> HIDE DEF row, others
    <3> QED
      BY <2>1, <2>2, <3>1, <3>2 DEF row, others
  <2>4. uploads' \in [EvidenceIds -> UploadStates]
    BY <1>2 DEF RegisterSignature, TypeOK, UploadStates
  <2> QED
    BY <1>2, <2>3, <2>4 DEF RegisterSignature, TypeOK
<1>3. ASSUME NEW e \in EvidenceIds, UploadStep(e)
      PROVE  TypeOK'
  BY <1>3, TypeUploadStep
<1>4. ASSUME NEW e \in EvidenceIds, UploadDies(e)
      PROVE  TypeOK'
  BY <1>4 DEF UploadDies, TypeOK, UploadStates
<1>5. ASSUME NEW e \in EvidenceIds, LoseObject(e)
      PROVE  TypeOK'
  BY <1>5 DEF LoseObject, TypeOK, ObjectStates
<1>6. ASSUME NEW e \in EvidenceIds, Reconcile(e)
      PROVE  TypeOK'
  BY <1>6, TypeReconcile
<1> QED
  BY <1>1, <1>2, <1>3, <1>4, <1>5, <1>6 DEF EvidenceActions

LEMMA SecondsType == TypeOK => \A t \in Seconds : t \in 0..MaxClock /\ now <= t
BY BoundsAssumption DEF TypeOK, Seconds

LEMMA TypeAdvance ==
    ASSUME TypeOK, NEW q \in Requests, NEW from, NEW to \in RequestStates,
           Advance(q, from, to)
    PROVE  TypeOK'
BY DEF Advance, TypeOK, checklistVars, evidenceVars, environmentVars

(* A completion freezes a snapshot of the right type: it names a signature   *)
(* row, which the gate guarantees to exist.                                  *)
LEMMA TypeComplete ==
    ASSUME TypeOK, NEW q \in Requests, NEW t \in Seconds, Complete(q, t)
    PROVE  TypeOK'
<1> DEFINE g == LatestIn(ActiveSignatures)
<1>1. g \in SignatureIds
  BY ActiveSignatureType
     DEF Complete, AcceptedUnderLock, CanComplete, ActiveSignatures
<1>2. [summary |-> Summary, signature |-> g,
       signedDigest |-> signatures[g].digest] \in Snapshots
  <2>1. signatures[g].digest \in Digests
    BY <1>1 DEF TypeOK, SignatureRows
  <2> QED
    BY <1>1, <2>1, SummaryType DEF Snapshots
<1>3. snapshots' \in [Cycles -> Snapshots \cup {NoSnapshot}]
  BY <1>2 DEF Complete, FinalizeSnapshot, TypeOK
<1>4. job' \in JobRows
  BY SecondsType DEF Complete, TypeOK, JobRows, JobStatuses
<1>5. now' \in 0..MaxClock
  BY SecondsType DEF Complete
<1>6. requests' \in [Requests -> RequestStates]
  BY DEF Complete, TypeOK, RequestStates
<1> QED
  BY <1>3, <1>4, <1>5, <1>6 DEF Complete, TypeOK, checklistVars, evidenceVars

LEMMA TypeCompletionActions == TypeOK /\ CompletionActions => TypeOK'
<1> SUFFICES ASSUME TypeOK, CompletionActions
             PROVE  TypeOK'
  OBVIOUS
<1> USE DEF checklistVars, evidenceVars, environmentVars
<1>1. ASSUME NEW q \in Requests, CheckClose(q)
      PROVE  TypeOK'
  BY <1>1, TypeAdvance DEF CheckClose, RequestStates
<1>2. ASSUME NEW q \in Requests, CheckConfirm(q)
      PROVE  TypeOK'
  BY <1>2, TypeAdvance DEF CheckConfirm, RequestStates
<1>3. ASSUME NEW q \in Requests, VerifyObjects(q)
      PROVE  TypeOK'
  BY <1>3, TypeAdvance DEF VerifyObjects, RequestStates
<1>4. ASSUME NEW q \in Requests, AbandonRequest(q)
      PROVE  TypeOK'
  BY <1>4, TypeAdvance DEF AbandonRequest, RequestStates
<1>5. ASSUME NEW q \in Requests, NEW t \in Seconds, CloseJob(q, t)
      PROVE  TypeOK'
  BY <1>5, TypeComplete DEF CloseJob
<1>6. ASSUME NEW q \in Requests, SubmitForReview(q)
      PROVE  TypeOK'
  <2>1. job' \in JobRows
    BY <1>6 DEF SubmitForReview, TypeOK, JobRows, JobStatuses
  <2>2. requests' \in [Requests -> RequestStates]
    BY <1>6 DEF SubmitForReview, TypeOK, RequestStates
  <2> QED
    BY <1>6, <2>1, <2>2 DEF SubmitForReview, TypeOK
<1>7. ASSUME NEW q \in Requests, NEW t \in Seconds, ConfirmQuality(q, t)
      PROVE  TypeOK'
  BY <1>7, TypeComplete DEF ConfirmQuality
<1>8. ASSUME NEW t \in Seconds, ReopenJob(t)
      PROVE  TypeOK'
  <2>1. job.cycle + 1 \in Cycles
    BY <1>8, BoundsAssumption DEF ReopenJob, TypeOK, JobRows, Cycles
  <2>2. job' \in JobRows
    BY <1>8, <2>1, SecondsType DEF ReopenJob, TypeOK, JobRows, JobStatuses
  <2>3. signatures' \in [SignatureIds -> SignatureRows]
    BY <1>8 DEF ReopenJob, TypeOK, SignatureRows
  <2>4. now' \in 0..MaxClock
    BY <1>8, SecondsType DEF ReopenJob
  <2> QED
    BY <1>8, <2>2, <2>3, <2>4 DEF ReopenJob, TypeOK
<1> QED
  BY <1>1, <1>2, <1>3, <1>4, <1>5, <1>6, <1>7, <1>8 DEF CompletionActions

-----------------------------------------------------------------------------
LEMMA TypeStep == TypeOK /\ [Next]_vars => TypeOK'
<1> SUFFICES ASSUME TypeOK, [Next]_vars
             PROVE  TypeOK'
  OBVIOUS
<1>1. CASE UNCHANGED vars
  BY <1>1 DEF vars, checklistVars, evidenceVars, environmentVars, TypeOK
<1> QED
  BY <1>1, TypeJobActions, TypeChecklistActions, TypeStopActions,
     TypeRiskActions, TypeEvidenceActions, TypeCompletionActions DEF Next

(* No operation, however they interleave and whatever faults happen, leaves  *)
(* a row with a value its columns cannot hold: attempts and cycles stay in   *)
(* their ranges, and every seal names an existing signature and a summary.   *)
THEOREM TypeCorrect == Spec => []TypeOK
<1>1. Init => TypeOK
  BY TypeInit
<1>2. TypeOK /\ [Next]_vars => TypeOK'
  BY TypeStep
<1> QED
  BY <1>1, <1>2, PTL DEF Spec

-----------------------------------------------------------------------------
(* What has to be known besides the properties themselves, for a step to     *)
(* preserve them.                                                            *)

\* Nothing happened to the steps of a checklist that was not assigned.
UntouchedUntilAssigned ==
    checklist = "NONE" =>
      \A s \in Steps : steps[s] = [status |-> "PENDING", attempt |-> 1]

\* An attempt that was not submitted has no decision.
UnsubmittedAttemptsOpen ==
    \A s \in Steps, a \in Attempts :
       \/ a > steps[s].attempt
       \/ a = steps[s].attempt /\ steps[s].status = "PENDING"
       => approvals[s][a] = "NONE"

\* The timestamps the cycle is computed from: a job of a later cycle that is
\* not completed was reopened no earlier than it was closed.
ReopenedAfterClose ==
    /\ job.cycle = 1 => job.reopenedAt = 0
    /\ job.cycle > 1 /\ job.status # "COMPLETED"
         => job.reopenedAt # 0 /\ job.closedAt <= job.reopenedAt
    /\ job.closedAt <= now /\ job.reopenedAt <= now /\ 1 <= now

WorkflowInv ==
    /\ StopConsistency
    /\ HeaderMatchesSteps
    /\ CycleConsistency
    /\ SubmittedInOrder
    /\ UntouchedUntilAssigned
    /\ UnsubmittedAttemptsOpen
    /\ ReopenedAfterClose

-----------------------------------------------------------------------------
LEMMA WorkflowInit == Init => WorkflowInv
<1> SUFFICES ASSUME Init
             PROVE  WorkflowInv
  OBVIOUS
<1>1. 1 \in Steps /\ 1 \in Attempts
  BY BoundsAssumption DEF Steps, Attempts
<1>2. CASE FreshInit
  <2>1. StopConsistency
    BY <1>2 DEF FreshInit, StopConsistency
  <2>2. HeaderMatchesSteps
    BY <1>2 DEF FreshInit, HeaderMatchesSteps
  <2>3. CycleConsistency
    BY <1>2 DEF FreshInit, CycleConsistency
  <2>4. SubmittedInOrder
    BY <1>2 DEF FreshInit, SubmittedInOrder, DoneStatuses
  <2>5. UntouchedUntilAssigned
    BY <1>2 DEF FreshInit, UntouchedUntilAssigned
  <2>6. UnsubmittedAttemptsOpen
    BY <1>2 DEF FreshInit, UnsubmittedAttemptsOpen
  <2>7. ReopenedAfterClose
    BY <1>2 DEF Init, FreshInit, ReopenedAfterClose
  <2> QED
    BY <2>1, <2>2, <2>3, <2>4, <2>5, <2>6, <2>7 DEF WorkflowInv
<1>3. CASE LegacyInit
  <2>0. \A t \in Steps : /\ steps[t].attempt = 1
                         /\ steps[t].status = IF t \in StopSteps
                                                THEN "APPROVED" ELSE "COMPLETED"
    BY <1>3 DEF LegacyInit
  <2>1. StopConsistency
    <3>1. \A t \in Steps, a \in Attempts :
             approvals[t][a] = IF t \in StopSteps /\ a = 1
                                 THEN "APPROVED" ELSE "NONE"
      BY <1>3 DEF LegacyInit
    <3>2. job.status \in {"IN_PROGRESS", "COMPLETED", "REOPENED"}
      BY <1>3 DEF LegacyInit
    <3> QED
      BY <1>1, <2>0, <3>1, <3>2 DEF StopConsistency
  <2>2. HeaderMatchesSteps
    BY <1>3, <2>0 DEF LegacyInit, HeaderMatchesSteps, AllStepsDone, DoneStatuses
  <2>3. CycleConsistency /\ ReopenedAfterClose
    BY <1>3 DEF Init, LegacyInit, CycleConsistency, ReopenedAfterClose
  <2>4. SubmittedInOrder
    BY <2>0 DEF SubmittedInOrder, DoneStatuses
  <2>5. UntouchedUntilAssigned
    BY <1>3 DEF LegacyInit, UntouchedUntilAssigned
  <2>6. UnsubmittedAttemptsOpen
    BY <1>3, <2>0 DEF LegacyInit, UnsubmittedAttemptsOpen, Attempts
  <2> QED
    BY <2>1, <2>2, <2>3, <2>4, <2>5, <2>6 DEF WorkflowInv
<1> QED
  BY <1>2, <1>3 DEF Init

-----------------------------------------------------------------------------
(* What an action leaves alone.                                              *)
WorkflowUnchanged ==
    /\ job'.status = job.status
    /\ job'.cycle = job.cycle
    /\ job'.closedAt = job.closedAt
    /\ job'.reopenedAt = job.reopenedAt
    /\ UNCHANGED <<checklist, steps, approvals, now>>

LEMMA UnchangedKeepsWorkflow ==
    ASSUME WorkflowInv, WorkflowUnchanged
    PROVE  WorkflowInv'
<1> USE DEF WorkflowInv, WorkflowUnchanged
<1>1. IsReopenCycle' = IsReopenCycle
  BY DEF IsReopenCycle
<1>2. StopConsistency'
  BY DEF StopConsistency
<1>3. HeaderMatchesSteps'
  BY DEF HeaderMatchesSteps, AllStepsDone
<1>4. CycleConsistency'
  BY <1>1 DEF CycleConsistency
<1>5. SubmittedInOrder'
  BY DEF SubmittedInOrder
<1>6. UntouchedUntilAssigned'
  BY DEF UntouchedUntilAssigned
<1>7. UnsubmittedAttemptsOpen'
  BY DEF UnsubmittedAttemptsOpen
<1>8. ReopenedAfterClose'
  BY DEF ReopenedAfterClose
<1> QED
  BY <1>2, <1>3, <1>4, <1>5, <1>6, <1>7, <1>8

(* No step of a job that is neither waiting nor rejected waits or stands     *)
(* rejected.                                                                 *)
LEMMA NothingWaits ==
    ASSUME WorkflowInv,
           job.status \notin {"WAITING_STOP_APPROVAL", "REJECTED"}
    PROVE  \A t \in Steps : steps[t].status \notin {"WAITING_APPROVAL", "REJECTED"}
BY DEF WorkflowInv, StopConsistency

(* A new status alone cannot break what ties the steps to their decisions,   *)
(* unless it waits for a decision or stands rejected.                        *)
LEMMA StatusKeepsSteps ==
    ASSUME WorkflowInv,
           job.status \notin {"WAITING_STOP_APPROVAL", "REJECTED"},
           job'.status \notin {"WAITING_STOP_APPROVAL", "REJECTED"},
           job'.cycle = 1 => job.cycle = 1,
           UNCHANGED <<checklist, steps, approvals>>
    PROVE  /\ StopConsistency' /\ HeaderMatchesSteps' /\ SubmittedInOrder'
           /\ UntouchedUntilAssigned' /\ UnsubmittedAttemptsOpen'
<1> USE DEF WorkflowInv
<1>1. \A t \in Steps : steps[t].status \notin {"WAITING_APPROVAL", "REJECTED"}
  BY NothingWaits
<1>2. StopConsistency'
  BY <1>1 DEF StopConsistency
<1>3. HeaderMatchesSteps'
  BY DEF HeaderMatchesSteps, AllStepsDone
<1>4. SubmittedInOrder'
  BY <1>1 DEF SubmittedInOrder
<1>5. UntouchedUntilAssigned'
  BY DEF UntouchedUntilAssigned
<1>6. UnsubmittedAttemptsOpen'
  BY DEF UnsubmittedAttemptsOpen
<1> QED
  BY <1>2, <1>3, <1>4, <1>5, <1>6

-----------------------------------------------------------------------------
(* The actions that move one step: assignment, completion, redo and the      *)
(* STOP decisions.                                                           *)
LEMMA WorkflowAssignChecklist ==
    ASSUME TypeOK, WorkflowInv, AssignChecklist
    PROVE  WorkflowInv'
<1> USE DEF AssignChecklist
<1>1. steps' = steps
  BY DEF WorkflowInv, UntouchedUntilAssigned, TypeOK
<1>2. ~AllStepsDone'
  <2>1. 1 \in Steps
    BY BoundsAssumption DEF Steps
  <2> QED
    BY <2>1 DEF AllStepsDone, DoneStatuses
<1>3. HeaderMatchesSteps'
  BY <1>2 DEF HeaderMatchesSteps
<1>4. StopConsistency' /\ SubmittedInOrder' /\ UnsubmittedAttemptsOpen'
  BY <1>1 DEF WorkflowInv, StopConsistency, SubmittedInOrder,
              UnsubmittedAttemptsOpen
<1>5. CycleConsistency' /\ ReopenedAfterClose' /\ UntouchedUntilAssigned'
  BY DEF WorkflowInv, CycleConsistency, ReopenedAfterClose, IsReopenCycle,
         UntouchedUntilAssigned, environmentVars
<1> QED
  BY <1>3, <1>4, <1>5 DEF WorkflowInv

(* A step that is completed without a decision.                              *)
LEMMA WorkflowCompleteOrdinary ==
    ASSUME TypeOK, WorkflowInv,
           NEW u \in Users, NEW s \in Steps \ StopSteps, CompleteStep(u, s)
    PROVE  WorkflowInv'
<1> USE DEF WorkflowInv
<1>1. /\ IsWorkable /\ checklist # "NONE"
      /\ steps[s].status = "PENDING" /\ EarlierStepsDone(s)
      /\ checklist' = IF AllStepsDone' THEN "COMPLETE" ELSE checklist
      /\ UNCHANGED <<approvals, job, now>>
  BY DEF CompleteStep, ReadyToComplete, SubmitStop, FinishStep, HeaderAfter, AllStepsDone, environmentVars
<1>2. /\ steps'[s].status = "COMPLETED" /\ steps'[s].attempt = steps[s].attempt
      /\ \A t \in Steps \ {s} : steps'[t] = steps[t]
  BY DEF CompleteStep, ReadyToComplete, SubmitStop, FinishStep, TypeOK, StepRows
<1>3. \A t \in Steps : steps[t].status \notin {"WAITING_APPROVAL", "REJECTED"}
  BY <1>1, NothingWaits DEF IsWorkable
<1>4. StopConsistency'
  BY <1>1, <1>2, <1>3 DEF StopConsistency
<1>5. HeaderMatchesSteps'
  BY <1>1 DEF HeaderMatchesSteps, AllStepsDone, DoneStatuses
<1>6. CycleConsistency' /\ ReopenedAfterClose'
  BY <1>1 DEF CycleConsistency, ReopenedAfterClose, IsReopenCycle
<1>7. SubmittedInOrder'
  BY <1>1, <1>2, <1>3 DEF SubmittedInOrder, EarlierStepsDone, DoneStatuses
<1>8. UntouchedUntilAssigned'
  BY <1>1 DEF UntouchedUntilAssigned
<1>9. UnsubmittedAttemptsOpen'
  BY <1>1, <1>2 DEF UnsubmittedAttemptsOpen
<1> QED
  BY <1>4, <1>5, <1>6, <1>7, <1>8, <1>9

(* A STOP step that is sent for a decision takes the whole job with it.      *)
LEMMA WorkflowSubmitStop ==
    ASSUME TypeOK, WorkflowInv,
           NEW u \in Users, NEW s \in StopSteps, s \in Steps, CompleteStep(u, s)
    PROVE  WorkflowInv'
<1> USE DEF WorkflowInv
<1> DEFINE n == steps[s].attempt
<1>1. /\ IsWorkable /\ checklist # "NONE"
      /\ steps[s].status = "PENDING" /\ EarlierStepsDone(s)
      /\ UNCHANGED <<checklist, now>>
  BY DEF CompleteStep, ReadyToComplete, SubmitStop, FinishStep, environmentVars
<1>2. /\ steps'[s].status = "WAITING_APPROVAL" /\ steps'[s].attempt = n
      /\ \A t \in Steps \ {s} : steps'[t] = steps[t]
      /\ n \in Attempts
  BY DEF CompleteStep, ReadyToComplete, SubmitStop, FinishStep, TypeOK, StepRows
<1>3. \A t \in Steps, b \in Attempts :
         approvals'[t][b] = IF t = s /\ b = n THEN "PENDING" ELSE approvals[t][b]
  BY <1>2 DEF CompleteStep, ReadyToComplete, SubmitStop, FinishStep, TypeOK
<1>4. /\ job'.status = "WAITING_STOP_APPROVAL" /\ job'.cycle = job.cycle
      /\ job'.closedAt = job.closedAt /\ job'.reopenedAt = job.reopenedAt
  BY DEF CompleteStep, ReadyToComplete, SubmitStop, FinishStep, TypeOK, JobRows
<1>5. \A t \in Steps : steps[t].status \notin {"WAITING_APPROVAL", "REJECTED"}
  BY <1>1, NothingWaits DEF IsWorkable
<1>6. StopConsistency'
  <2>1. \A t \in Steps, b \in Attempts : approvals[t][b] # "PENDING"
    BY <1>5 DEF StopConsistency
  <2>2. \A t \in Steps, b \in Attempts :
           approvals'[t][b] = "PENDING"
             <=> steps'[t].status = "WAITING_APPROVAL" /\ steps'[t].attempt = b
    BY <1>2, <1>3, <1>5, <2>1
  <2>3. \A t \in Steps :
           /\ steps'[t].status = "REJECTED"
                => approvals'[t][steps'[t].attempt] = "REJECTED"
           /\ steps'[t].status = "APPROVED"
                => approvals'[t][steps'[t].attempt] = "APPROVED"
    <3> SUFFICES ASSUME NEW t \in Steps \ {s}, steps[t].status = "APPROVED"
                 PROVE  approvals'[t][steps[t].attempt] = "APPROVED"
      BY <1>2, <1>5
    <3>1. steps[t].attempt \in Attempts
      BY DEF TypeOK, StepRows
    <3> QED
      BY <1>3, <3>1 DEF StopConsistency
  <2>4. \A t \in Steps \ {s} : steps'[t].status \notin {"WAITING_APPROVAL", "REJECTED"}
    BY <1>2, <1>5
  <2> QED
    BY <1>2, <1>4, <2>2, <2>3, <2>4 DEF StopConsistency
<1>7. HeaderMatchesSteps'
  BY <1>1, <1>2 DEF HeaderMatchesSteps, AllStepsDone, DoneStatuses
<1>8. CycleConsistency' /\ ReopenedAfterClose'
  BY <1>1, <1>4 DEF CycleConsistency, ReopenedAfterClose, IsReopenCycle,
                    IsWorkable, TypeOK, JobRows, Cycles
<1>9. SubmittedInOrder'
  BY <1>1, <1>2, <1>4, <1>5 DEF SubmittedInOrder, EarlierStepsDone,
                                DoneStatuses, Steps
<1>10. UntouchedUntilAssigned'
  BY <1>1 DEF UntouchedUntilAssigned
<1>11. UnsubmittedAttemptsOpen'
  BY <1>2, <1>3 DEF UnsubmittedAttemptsOpen, Attempts
<1> QED
  BY <1>6, <1>7, <1>8, <1>9, <1>10, <1>11

LEMMA WorkflowRedoStep ==
    ASSUME TypeOK, WorkflowInv, NEW s \in Steps, RedoStep(s)
    PROVE  WorkflowInv'
<1> USE DEF WorkflowInv
<1>1. /\ job.status = "REOPENED" /\ checklist' = "OPEN"
      /\ steps[s].status \in DoneStatuses
      /\ UNCHANGED <<job, approvals, now>>
  BY DEF RedoStep, environmentVars
<1>2. /\ steps'[s].status = "PENDING"
      /\ steps'[s].attempt = steps[s].attempt + 1
      /\ \A t \in Steps \ {s} : steps'[t] = steps[t]
      /\ steps[s].attempt \in Nat
  BY DEF RedoStep, TypeOK, StepRows, Attempts
<1>3. \A t \in Steps : steps[t].status \notin {"WAITING_APPROVAL", "REJECTED"}
  BY <1>1, NothingWaits
<1>4. job.cycle > 1
  BY <1>1 DEF CycleConsistency
<1>5. StopConsistency'
  BY <1>1, <1>2, <1>3 DEF StopConsistency
<1>6. HeaderMatchesSteps'
  BY <1>1, <1>2 DEF HeaderMatchesSteps, AllStepsDone, DoneStatuses
<1>7. CycleConsistency' /\ ReopenedAfterClose'
  BY <1>1 DEF CycleConsistency, ReopenedAfterClose, IsReopenCycle
<1>8. SubmittedInOrder'
  BY <1>1, <1>2, <1>3, <1>4 DEF SubmittedInOrder, DoneStatuses
<1>9. UntouchedUntilAssigned'
  BY <1>1 DEF UntouchedUntilAssigned
<1>10. UnsubmittedAttemptsOpen'
  BY <1>1, <1>2 DEF UnsubmittedAttemptsOpen, Attempts
<1> QED
  BY <1>5, <1>6, <1>7, <1>8, <1>9, <1>10

(* The pending approval of a step is that of its current attempt, and no     *)
(* other step waits or stands rejected.                                      *)
LEMMA PendingStopIsUnique ==
    ASSUME WorkflowInv, NEW s \in Steps, NEW a \in Attempts, PendingStop(s, a)
    PROVE  /\ steps[s].attempt = a
           /\ \A t \in Steps \ {s} :
                steps[t].status \notin {"WAITING_APPROVAL", "REJECTED"}
BY DEF WorkflowInv, StopConsistency, PendingStop

LEMMA WorkflowApproveStop ==
    ASSUME TypeOK, WorkflowInv, NEW s \in Steps, NEW a \in Attempts,
           ApproveStop(s, a)
    PROVE  WorkflowInv'
<1> USE DEF WorkflowInv
<1>1. /\ PendingStop(s, a)
      /\ checklist' = IF AllStepsDone' THEN "COMPLETE" ELSE checklist
      /\ now' = now
  BY DEF ApproveStop, HeaderAfter, AllStepsDone, environmentVars
<1>2. /\ steps'[s].status = "APPROVED" /\ steps'[s].attempt = steps[s].attempt
      /\ \A t \in Steps \ {s} : steps'[t] = steps[t]
  BY DEF ApproveStop, TypeOK, StepRows
<1>3. \A t \in Steps, b \in Attempts :
         approvals'[t][b] = IF t = s /\ b = a THEN "APPROVED" ELSE approvals[t][b]
  BY DEF ApproveStop, TypeOK
<1>4. /\ job'.status = WorkingStatus /\ job'.cycle = job.cycle
      /\ job'.closedAt = job.closedAt /\ job'.reopenedAt = job.reopenedAt
  BY DEF ApproveStop, TypeOK, JobRows
<1>5. /\ steps[s].attempt = a /\ steps[s].status = "WAITING_APPROVAL"
      /\ \A t \in Steps \ {s} :
           steps[t].status \notin {"WAITING_APPROVAL", "REJECTED"}
  BY <1>1, PendingStopIsUnique DEF PendingStop
<1>6. StopConsistency'
  <2>1. \A t \in Steps, b \in Attempts :
           approvals'[t][b] = "PENDING"
             <=> steps'[t].status = "WAITING_APPROVAL" /\ steps'[t].attempt = b
    BY <1>2, <1>3, <1>5 DEF StopConsistency
  <2>2. \A t \in Steps :
           steps'[t].status = "APPROVED"
             => approvals'[t][steps'[t].attempt] = "APPROVED"
    <3> SUFFICES ASSUME NEW t \in Steps \ {s}, steps[t].status = "APPROVED"
                 PROVE  approvals'[t][steps[t].attempt] = "APPROVED"
      BY <1>2, <1>3, <1>5
    <3>1. steps[t].attempt \in Attempts
      BY DEF TypeOK, StepRows
    <3> QED
      BY <1>3, <3>1 DEF StopConsistency
  <2>3. \A t \in Steps : steps'[t].status \notin {"WAITING_APPROVAL", "REJECTED"}
    BY <1>2, <1>5
  <2> QED
    BY <1>4, <2>1, <2>2, <2>3 DEF StopConsistency, WorkingStatus
<1>7. HeaderMatchesSteps'
  BY <1>1, <1>5 DEF HeaderMatchesSteps, AllStepsDone, DoneStatuses
<1>8. CycleConsistency' /\ ReopenedAfterClose'
  BY <1>1, <1>4 DEF CycleConsistency, ReopenedAfterClose, IsReopenCycle,
                    WorkingStatus, PendingStop, TypeOK, JobRows, Cycles
<1>9. SubmittedInOrder'
  BY <1>2, <1>4, <1>5 DEF SubmittedInOrder, DoneStatuses
<1>10. UntouchedUntilAssigned'
  BY <1>1, <1>5 DEF UntouchedUntilAssigned
<1>11. UnsubmittedAttemptsOpen'
  BY <1>2, <1>3, <1>5 DEF UnsubmittedAttemptsOpen, Attempts
<1> QED
  BY <1>6, <1>7, <1>8, <1>9, <1>10, <1>11

LEMMA WorkflowRejectStop ==
    ASSUME TypeOK, WorkflowInv, NEW s \in Steps, NEW a \in Attempts,
           RejectStop(s, a)
    PROVE  WorkflowInv'
<1> USE DEF WorkflowInv
<1>1. PendingStop(s, a) /\ UNCHANGED <<checklist, now>>
  BY DEF RejectStop, environmentVars
<1>2. /\ steps'[s].status = "REJECTED" /\ steps'[s].attempt = steps[s].attempt
      /\ \A t \in Steps \ {s} : steps'[t] = steps[t]
  BY DEF RejectStop, TypeOK, StepRows
<1>3. \A t \in Steps, b \in Attempts :
         approvals'[t][b] = IF t = s /\ b = a THEN "REJECTED" ELSE approvals[t][b]
  BY DEF RejectStop, TypeOK
<1>4. /\ job'.status = "REJECTED" /\ job'.cycle = job.cycle
      /\ job'.closedAt = job.closedAt /\ job'.reopenedAt = job.reopenedAt
  BY DEF RejectStop, TypeOK, JobRows
<1>5. /\ steps[s].attempt = a /\ steps[s].status = "WAITING_APPROVAL"
      /\ \A t \in Steps \ {s} :
           steps[t].status \notin {"WAITING_APPROVAL", "REJECTED"}
  BY <1>1, PendingStopIsUnique DEF PendingStop
<1>6. StopConsistency'
  <2>1. \A t \in Steps, b \in Attempts :
           approvals'[t][b] = "PENDING"
             <=> steps'[t].status = "WAITING_APPROVAL" /\ steps'[t].attempt = b
    BY <1>2, <1>3, <1>5 DEF StopConsistency
  <2>2. \A t \in Steps :
           /\ steps'[t].status = "REJECTED"
                => approvals'[t][steps'[t].attempt] = "REJECTED"
           /\ steps'[t].status = "APPROVED"
                => approvals'[t][steps'[t].attempt] = "APPROVED"
    <3>1. approvals'[s][steps'[s].attempt] = "REJECTED"
      BY <1>2, <1>3, <1>5
    <3>2. ASSUME NEW t \in Steps \ {s}, steps[t].status = "APPROVED"
          PROVE  approvals'[t][steps[t].attempt] = "APPROVED"
      <4>1. steps[t].attempt \in Attempts
        BY DEF TypeOK, StepRows
      <4> QED
        BY <1>3, <3>2, <4>1 DEF StopConsistency
    <3> QED
      BY <1>2, <1>5, <3>1, <3>2
  <2>3. \A t \in Steps \ {s} : steps'[t].status \notin {"WAITING_APPROVAL", "REJECTED"}
    BY <1>2, <1>5
  <2> QED
    BY <1>2, <1>4, <2>1, <2>2, <2>3 DEF StopConsistency
<1>7. HeaderMatchesSteps'
  BY <1>1, <1>2, <1>5 DEF HeaderMatchesSteps, AllStepsDone, DoneStatuses
<1>8. CycleConsistency' /\ ReopenedAfterClose'
  BY <1>1, <1>4 DEF CycleConsistency, ReopenedAfterClose, IsReopenCycle,
                    PendingStop
<1>9. SubmittedInOrder'
  BY <1>2, <1>4, <1>5 DEF SubmittedInOrder, DoneStatuses
<1>10. UntouchedUntilAssigned'
  BY <1>1, <1>5 DEF UntouchedUntilAssigned
<1>11. UnsubmittedAttemptsOpen'
  BY <1>2, <1>3, <1>5 DEF UnsubmittedAttemptsOpen, Attempts
<1> QED
  BY <1>6, <1>7, <1>8, <1>9, <1>10, <1>11

LEMMA WorkflowReworkStop ==
    ASSUME TypeOK, WorkflowInv, NEW s \in Steps, ReworkStop(s)
    PROVE  WorkflowInv'
<1> USE DEF WorkflowInv
<1>1. /\ job.status = "REJECTED" /\ checklist # "NONE"
      /\ steps[s].status = "REJECTED"
      /\ UNCHANGED <<checklist, approvals, now>>
  BY DEF ReworkStop, environmentVars
<1>2. /\ steps'[s].status = "PENDING"
      /\ steps'[s].attempt = steps[s].attempt + 1
      /\ \A t \in Steps \ {s} : steps'[t] = steps[t]
      /\ steps[s].attempt \in Nat
  BY DEF ReworkStop, TypeOK, StepRows, Attempts
<1>3. /\ job'.status = WorkingStatus /\ job'.cycle = job.cycle
      /\ job'.closedAt = job.closedAt /\ job'.reopenedAt = job.reopenedAt
  BY DEF ReworkStop, TypeOK, JobRows
<1>4. \A t \in Steps \ {s} :
         steps[t].status \notin {"WAITING_APPROVAL", "REJECTED"}
  BY <1>1 DEF StopConsistency
<1>5. StopConsistency'
  <2>1. \A t \in Steps : steps'[t].status \notin {"WAITING_APPROVAL", "REJECTED"}
    BY <1>2, <1>4
  <2> QED
    BY <1>1, <1>2, <1>3, <1>4, <2>1 DEF StopConsistency, WorkingStatus
<1>6. HeaderMatchesSteps'
  BY <1>1, <1>2 DEF HeaderMatchesSteps, AllStepsDone, DoneStatuses
<1>7. CycleConsistency' /\ ReopenedAfterClose'
  BY <1>1, <1>3 DEF CycleConsistency, ReopenedAfterClose, IsReopenCycle,
                    WorkingStatus, TypeOK, JobRows, Cycles
<1>8. SubmittedInOrder'
  BY <1>1, <1>2, <1>3, <1>4 DEF SubmittedInOrder, DoneStatuses
<1>9. UntouchedUntilAssigned'
  BY <1>1 DEF UntouchedUntilAssigned
<1>10. UnsubmittedAttemptsOpen'
  BY <1>1, <1>2 DEF UnsubmittedAttemptsOpen, Attempts
<1> QED
  BY <1>5, <1>6, <1>7, <1>8, <1>9, <1>10

-----------------------------------------------------------------------------
(* The actions that move the whole job.                                      *)
LEMMA WorkflowJobActions ==
    ASSUME TypeOK, WorkflowInv, JobActions
    PROVE  WorkflowInv'
<1> USE DEF checklistVars, environmentVars
<1>1. ASSUME NEW from, NEW to,
             <<from, to>> \in {<<"NONE", "DRAFT">>, <<"DRAFT", "IN_PROGRESS">>,
                               <<"DRAFT", "CANCELLED">>,
                               <<"IN_PROGRESS", "CANCELLED">>},
             job.status = from, job'.status = to, job'.cycle = job.cycle,
             job'.closedAt = job.closedAt, job'.reopenedAt = job.reopenedAt,
             UNCHANGED <<checklist, steps, approvals, now>>
      PROVE  WorkflowInv'
  <2>1. job.cycle = 1
    BY <1>1 DEF WorkflowInv, CycleConsistency
  <2>2. CycleConsistency' /\ ReopenedAfterClose'
    BY <1>1, <2>1 DEF WorkflowInv, CycleConsistency, ReopenedAfterClose
  <2>3. /\ StopConsistency' /\ HeaderMatchesSteps' /\ SubmittedInOrder'
        /\ UntouchedUntilAssigned' /\ UnsubmittedAttemptsOpen'
    BY <1>1, <2>1, StatusKeepsSteps
  <2> QED
    BY <2>2, <2>3 DEF WorkflowInv
<1>2. ASSUME NEW u \in Users \cup {NoUser}, CreateJob(u)
      PROVE  WorkflowInv'
  <2>1. job.status = "NONE" /\ job'.status = "DRAFT"
    BY <1>2 DEF CreateJob, TypeOK, JobRows
  <2>2. /\ job'.cycle = job.cycle /\ job'.closedAt = job.closedAt
        /\ job'.reopenedAt = job.reopenedAt
        /\ UNCHANGED <<checklist, steps, approvals, now>>
    BY <1>2 DEF CreateJob, TypeOK, JobRows
  <2> QED
    BY <1>1, <2>1, <2>2
<1>3. CASE StartJob
  <2>1. job.status = "DRAFT" /\ job'.status = "IN_PROGRESS"
    BY <1>3 DEF StartJob, InStatus, TypeOK, JobRows
  <2>2. /\ job'.cycle = job.cycle /\ job'.closedAt = job.closedAt
        /\ job'.reopenedAt = job.reopenedAt
        /\ UNCHANGED <<checklist, steps, approvals, now>>
    BY <1>3 DEF StartJob, InStatus, TypeOK, JobRows
  <2> QED
    BY <1>1, <2>1, <2>2
<1>4. CASE CancelJob
  <2>1. job.status \in {"DRAFT", "IN_PROGRESS"} /\ job'.status = "CANCELLED"
    BY <1>4 DEF CancelJob, InStatus, TypeOK, JobRows
  <2>2. /\ job'.cycle = job.cycle /\ job'.closedAt = job.closedAt
        /\ job'.reopenedAt = job.reopenedAt
        /\ UNCHANGED <<checklist, steps, approvals, now>>
    BY <1>4 DEF CancelJob, InStatus, TypeOK, JobRows
  <2> QED
    BY <1>1, <2>1, <2>2
<1>5. ASSUME NEW i \in Installations, UpdateInstallation(i)
      PROVE  WorkflowInv'
  BY <1>5, UnchangedKeepsWorkflow
     DEF UpdateInstallation, WorkflowUnchanged, TypeOK, JobRows
<1>6. ASSUME NEW u \in Users, Reassign(u)
      PROVE  WorkflowInv'
  BY <1>6, UnchangedKeepsWorkflow DEF Reassign, WorkflowUnchanged, TypeOK, JobRows
<1>7. CASE Unassign
  BY <1>7, UnchangedKeepsWorkflow DEF Unassign, WorkflowUnchanged, TypeOK, JobRows
<1>8. ASSUME NEW r \in Registries, EditRegistry(r)
      PROVE  WorkflowInv'
  BY <1>8, UnchangedKeepsWorkflow DEF EditRegistry, WorkflowUnchanged
<1> QED
  BY <1>2, <1>3, <1>4, <1>5, <1>6, <1>7, <1>8 DEF JobActions

(* A completion closes the job no earlier than it was reopened.              *)
LEMMA WorkflowComplete ==
    ASSUME TypeOK, WorkflowInv, NEW q \in Requests, NEW t \in Seconds,
           job.status \in {"IN_PROGRESS", "QUALITY_REVIEW"}, Complete(q, t)
    PROVE  WorkflowInv'
<1>1. /\ job'.status = "COMPLETED" /\ job'.cycle = job.cycle
      /\ job'.closedAt = t /\ job'.reopenedAt = job.reopenedAt
      /\ now' = t /\ UNCHANGED <<checklist, steps, approvals>>
  BY DEF Complete, TypeOK, JobRows, checklistVars
<1>2. CycleConsistency'
  BY <1>1 DEF CycleConsistency
<1>3. ReopenedAfterClose'
  <2>1. t \in Nat /\ now \in Nat /\ now <= t
    BY SecondsType DEF TypeOK
  <2> QED
    BY <1>1, <2>1 DEF WorkflowInv, ReopenedAfterClose, TypeOK, JobRows
<1>4. /\ StopConsistency' /\ HeaderMatchesSteps' /\ SubmittedInOrder'
      /\ UntouchedUntilAssigned' /\ UnsubmittedAttemptsOpen'
  BY <1>1, StatusKeepsSteps
<1> QED
  BY <1>2, <1>3, <1>4 DEF WorkflowInv

LEMMA WorkflowCompletionActions ==
    ASSUME TypeOK, WorkflowInv, CompletionActions
    PROVE  WorkflowInv'
<1>1. ASSUME NEW q \in Requests, NEW from, NEW to, Advance(q, from, to)
      PROVE  WorkflowInv'
  BY <1>1, UnchangedKeepsWorkflow
     DEF Advance, WorkflowUnchanged, checklistVars, environmentVars
<1>2. ASSUME NEW q \in Requests,
             CheckClose(q) \/ CheckConfirm(q) \/ VerifyObjects(q)
               \/ AbandonRequest(q)
      PROVE  WorkflowInv'
  BY <1>1, <1>2 DEF CheckClose, CheckConfirm, VerifyObjects, AbandonRequest
<1>3. ASSUME NEW q \in Requests, NEW t \in Seconds,
             CloseJob(q, t) \/ ConfirmQuality(q, t)
      PROVE  WorkflowInv'
  BY <1>3, WorkflowComplete DEF CloseJob, ConfirmQuality
<1>4. ASSUME NEW q \in Requests, SubmitForReview(q)
      PROVE  WorkflowInv'
  <2>1. /\ job.status = "REOPENED" /\ job'.status = "QUALITY_REVIEW"
        /\ job'.cycle = job.cycle /\ job'.closedAt = job.closedAt
        /\ job'.reopenedAt = job.reopenedAt
        /\ UNCHANGED <<checklist, steps, approvals, now>>
    BY <1>4 DEF SubmitForReview, TypeOK, JobRows, checklistVars, environmentVars
  <2>2. CycleConsistency' /\ ReopenedAfterClose'
    BY <2>1 DEF WorkflowInv, CycleConsistency, ReopenedAfterClose
  <2>3. /\ StopConsistency' /\ HeaderMatchesSteps' /\ SubmittedInOrder'
        /\ UntouchedUntilAssigned' /\ UnsubmittedAttemptsOpen'
    BY <2>1, StatusKeepsSteps
  <2> QED
    BY <2>2, <2>3 DEF WorkflowInv
<1>5. ASSUME NEW t \in Seconds, ReopenJob(t)
      PROVE  WorkflowInv'
  <2>1. /\ job.status = "COMPLETED" /\ job'.status = "REOPENED"
        /\ job'.cycle = job.cycle + 1 /\ job'.closedAt = job.closedAt
        /\ job'.reopenedAt = t /\ now' = t
        /\ UNCHANGED <<checklist, steps, approvals>>
    BY <1>5 DEF ReopenJob, TypeOK, JobRows, checklistVars
  <2>2. /\ t \in Nat /\ now \in Nat /\ now <= t
        /\ job.cycle \in Nat /\ job.cycle >= 1
        /\ job.closedAt \in Nat
    BY SecondsType DEF TypeOK, JobRows, Cycles
  <2>3. CycleConsistency' /\ ReopenedAfterClose'
    BY <2>1, <2>2 DEF WorkflowInv, CycleConsistency, ReopenedAfterClose
  <2>4. job'.cycle # 1
    BY <2>1, <2>2
  <2>5. /\ StopConsistency' /\ HeaderMatchesSteps' /\ SubmittedInOrder'
        /\ UntouchedUntilAssigned' /\ UnsubmittedAttemptsOpen'
    BY <2>1, <2>4, StatusKeepsSteps
  <2> QED
    BY <2>3, <2>5 DEF WorkflowInv
<1> QED
  BY <1>2, <1>3, <1>4, <1>5 DEF CompletionActions

-----------------------------------------------------------------------------
LEMMA WorkflowStep == TypeOK /\ WorkflowInv /\ [Next]_vars => WorkflowInv'
<1> SUFFICES ASSUME TypeOK, WorkflowInv, [Next]_vars
             PROVE  WorkflowInv'
  OBVIOUS
<1>1. CASE UNCHANGED vars
  BY <1>1, UnchangedKeepsWorkflow
     DEF vars, WorkflowUnchanged, checklistVars, environmentVars
<1>2. CASE JobActions
  BY <1>2, WorkflowJobActions
<1>3. CASE ChecklistActions
  <2>1. ASSUME NEW u \in Users, NEW s \in Steps, CompleteStep(u, s)
        PROVE  WorkflowInv'
    BY <2>1, WorkflowSubmitStop, WorkflowCompleteOrdinary
  <2> QED
    BY <1>3, <2>1, WorkflowAssignChecklist, WorkflowRedoStep DEF ChecklistActions
<1>4. CASE StopActions
  BY <1>4, WorkflowApproveStop, WorkflowRejectStop, WorkflowReworkStop
     DEF StopActions
<1>5. CASE RiskActions
  <2>1. WorkflowUnchanged
    BY <1>5 DEF RiskActions, CreateRisk, ResolveRisk, ReviseRisk,
                ActivateMatrix, RetireMatrix, WorkflowUnchanged,
                checklistVars, environmentVars
  <2> QED
    BY <2>1, UnchangedKeepsWorkflow
<1>6. CASE EvidenceActions
  <2> USE DEF WorkflowUnchanged, checklistVars, environmentVars
  <2>1. ASSUME NEW e \in EvidenceIds, UploadStep(e)
        PROVE  WorkflowUnchanged
    BY <2>1 DEF UploadStep, PutObject, PutObjectFails, MarkFailed,
                FinalizeUpload, DeleteObject
  <2>2. ASSUME NEW e \in EvidenceIds, Reconcile(e)
        PROVE  WorkflowUnchanged
    BY <2>2 DEF Reconcile, PromoteLegacy, FailLegacy, FailLost, FailStale,
                Reconciled
  <2>3. ASSUME NEW e \in EvidenceIds, UploadDies(e) \/ LoseObject(e)
        PROVE  WorkflowUnchanged
    BY <2>3 DEF UploadDies, LoseObject
  <2>4. ASSUME NEW s \in Steps, RegisterPhoto(s)
        PROVE  WorkflowUnchanged
    BY <2>4 DEF RegisterPhoto
  <2>5. ASSUME RegisterSignature
        PROVE  WorkflowUnchanged
    BY <2>5 DEF RegisterSignature
  <2> QED
    BY <1>6, <2>1, <2>2, <2>3, <2>4, <2>5, UnchangedKeepsWorkflow
       DEF EvidenceActions
<1>7. CASE CompletionActions
  BY <1>7, WorkflowCompletionActions
<1> QED
  BY <1>1, <1>2, <1>3, <1>4, <1>5, <1>6, <1>7 DEF Next

(* WorkflowInv is an invariant: it holds at first and every step keeps it.   *)
LEMMA WorkflowInvariant == Spec => []WorkflowInv
<1>1. Init => TypeOK /\ WorkflowInv
  BY TypeInit, WorkflowInit
<1>2. TypeOK /\ WorkflowInv /\ [Next]_vars => TypeOK' /\ WorkflowInv'
  BY TypeStep, WorkflowStep
<1> QED
  BY <1>1, <1>2, PTL DEF Spec

(* The job, its steps and its approvals agree on what is waiting for a       *)
(* decision and what was rejected, so that the master's decision and the     *)
(* technician's rework are never refused for a disagreement of the rows.     *)
THEOREM StopRowsAgree == Spec => []StopConsistency
<1>1. WorkflowInv => StopConsistency
  BY DEF WorkflowInv
<1> QED
  BY <1>1, WorkflowInvariant, PTL

(* The checklist header says completed exactly when every step is done.      *)
THEOREM HeaderIsExact == Spec => []HeaderMatchesSteps
<1>1. WorkflowInv => HeaderMatchesSteps
  BY DEF WorkflowInv
<1> QED
  BY <1>1, WorkflowInvariant, PTL

(* A job keeps to the working status of its cycle, also when it is closed    *)
(* and reopened within one second of the clock.                              *)
THEOREM CycleIsKept == Spec => []CycleConsistency
<1>1. WorkflowInv => CycleConsistency
  BY DEF WorkflowInv
<1> QED
  BY <1>1, WorkflowInvariant, PTL

(* Nothing is decided on a step before the steps it follows are done.        *)
THEOREM SequenceIsKept == Spec => []SubmittedInOrder
<1>1. WorkflowInv => SubmittedInOrder
  BY DEF WorkflowInv
<1> QED
  BY <1>1, WorkflowInvariant, PTL

(* What no step does to a decision that was taken.                           *)
DecisionsKept ==
    \A s \in Steps, a \in Attempts :
       approvals[s][a] \in {"APPROVED", "REJECTED"}
         => approvals'[s][a] = approvals[s][a]

(* A step is sent for a decision at an attempt that has none, and a decision *)
(* is taken on an attempt that is still pending.                             *)
LEMMA DecisionStep == TypeOK /\ WorkflowInv /\ [Next]_vars => DecisionsKept
<1> SUFFICES ASSUME TypeOK, WorkflowInv, [Next]_vars
             PROVE  DecisionsKept
  OBVIOUS
<1> USE DEF DecisionsKept
<1>1. ASSUME UNCHANGED approvals
      PROVE  DecisionsKept
  BY <1>1
<1>2. ASSUME NEW u \in Users, NEW s \in Steps, CompleteStep(u, s)
      PROVE  DecisionsKept
  <2> DEFINE n == steps[s].attempt
  <2>1. n \in Attempts /\ steps[s].status = "PENDING"
    BY <1>2 DEF CompleteStep, ReadyToComplete, SubmitStop, FinishStep, TypeOK, StepRows
  <2>2. approvals[s][n] = "NONE"
    BY <2>1 DEF WorkflowInv, UnsubmittedAttemptsOpen
  <2>3. CASE s \in StopSteps
    <3>1. approvals' = [approvals EXCEPT ![s][n] = "PENDING"]
      BY <1>2, <2>3 DEF CompleteStep, ReadyToComplete, SubmitStop, FinishStep
    <3> QED
      BY <2>2, <3>1 DEF TypeOK
  <2>4. CASE s \notin StopSteps
    BY <1>1, <1>2, <2>4 DEF CompleteStep, ReadyToComplete, SubmitStop, FinishStep
  <2> QED
    BY <2>3, <2>4
<1>3. ASSUME NEW s \in Steps, NEW a \in Attempts,
             ApproveStop(s, a) \/ RejectStop(s, a)
      PROVE  DecisionsKept
  <2>1. approvals[s][a] = "PENDING"
    BY <1>3 DEF ApproveStop, RejectStop, PendingStop
  <2>2. PICK decision :
          approvals' = [approvals EXCEPT ![s][a] = decision]
    BY <1>3 DEF ApproveStop, RejectStop
  <2> QED
    BY <2>1, <2>2 DEF TypeOK
<1>4. CASE UNCHANGED vars
  BY <1>1, <1>4 DEF vars, checklistVars
<1>5. CASE JobActions
  BY <1>1, <1>5 DEF JobActions, InStatus, CreateJob, StartJob, UpdateInstallation,
                    CancelJob, Reassign, Unassign, EditRegistry, checklistVars
<1>6. CASE ChecklistActions
  BY <1>1, <1>2, <1>6 DEF ChecklistActions, AssignChecklist, RedoStep
<1>7. CASE StopActions
  BY <1>1, <1>3, <1>7 DEF StopActions, ReworkStop
<1>8. CASE RiskActions
  BY <1>1, <1>8 DEF RiskActions, CreateRisk, ResolveRisk, ReviseRisk,
                    ActivateMatrix, RetireMatrix, checklistVars
<1>9. CASE EvidenceActions
  <2>1. UNCHANGED approvals
    BY <1>9 DEF EvidenceActions, RegisterPhoto, RegisterSignature, UploadStep,
                PutObject, PutObjectFails, MarkFailed, FinalizeUpload,
                DeleteObject, UploadDies, LoseObject, Reconcile, PromoteLegacy,
                FailLegacy, FailLost, FailStale, Reconciled, checklistVars
  <2> QED
    BY <1>1, <2>1
<1>10. CASE CompletionActions
  <2>1. UNCHANGED approvals
    BY <1>10 DEF CompletionActions, CheckClose, CheckConfirm, VerifyObjects,
                 AbandonRequest, Advance, CloseJob, SubmitForReview,
                 ConfirmQuality, Complete, ReopenJob, checklistVars
  <2> QED
    BY <1>1, <2>1
<1> QED
  BY <1>4, <1>5, <1>6, <1>7, <1>8, <1>9, <1>10 DEF Next

(* A decision of the master is never taken back and never taken twice: no    *)
(* rework, redo, reopening or later decision changes it.                     *)
THEOREM DecisionsStand == Spec => DecisionsAreFinal
<1>1. TypeOK /\ WorkflowInv /\ [Next]_vars => [DecisionsKept]_vars
  BY DecisionStep
<1>2. Spec => [][DecisionsKept]_vars
  BY <1>1, TypeCorrect, WorkflowInvariant, PTL DEF Spec
<1>3. [][DecisionsKept]_vars <=> DecisionsAreFinal
  BY PTL DEF DecisionsAreFinal, DecisionsKept
<1> QED
  BY <1>2, <1>3, PTL
=============================================================================
