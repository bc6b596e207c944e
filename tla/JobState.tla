------------------------------ MODULE JobState ------------------------------
(* The rows that describe ONE job, the stored evidence objects and the       *)
(* requests in flight, with the helpers every service shares: the cycle      *)
(* rules of job-cycle.ts, the execution guard of assignment.service.ts, the  *)
(* relevant attempt and the completion gate of completion.service.ts and the *)
(* signable summary of summary.service.ts.                                   *)
(*                                                                           *)
(* Every service operation locks the job row before it reads what it decides *)
(* on, so one operation is one action.  The operations that do not take that *)
(* lock (reconciliation, the risk policy, customer and vehicle edits) are    *)
(* actions of their own, and what happens outside a transaction (the storage *)
(* calls, the checks before a close) is a step of its own.                   *)
EXTENDS Naturals, FiniteSets

CONSTANTS
    NumSteps,        \* steps of the published checklist version, in sort order
    StopSteps,       \* the steps with is_stop
    MeasuredSteps,   \* the steps with a required measurement
    RequiredPhotos,  \* [Steps -> Nat], checklist_steps.required_photos
    Users,           \* ACTIVE technicians of the job's branch (USTA, MASTER)
    Masters,         \* those of them with the MASTER role
    NoUser,          \* an administrator as actor, an unassigned job as technician
    Installations,   \* values of the installation columns
    Registries,      \* values of the customer and vehicle rows
    PolicyKinds,     \* kinds of risk matrix that may become ACTIVE
    Faults,          \* which of CRASH, PUT_FAIL, DELETE_FAIL, LOSS may happen
    LegacyJob,       \* TRUE: start from a job migrated from before phase 10B
    Requests         \* close and confirm requests that may run at once

(* Bounds of the checked instances; the code has none of them but            *)
(* MAX_PHOTOS_PER_ATTEMPT.                                                   *)
CONSTANTS
    MaxAttempt, MaxCycle, MaxClock, MaxPhotos, MaxSignatures, MaxRisks,
    MAX_PHOTOS_PER_ATTEMPT

Steps == 1..NumSteps
Attempts == 1..MaxAttempt
Cycles == 1..MaxCycle
PhotoIds == 1..MaxPhotos
SignatureIds == (MaxPhotos + 1)..(MaxPhotos + MaxSignatures)
\* job_photos and customer_signatures are numbered apart, so that a row id
\* also names the storage key of its object.
EvidenceIds == PhotoIds \cup SignatureIds
RiskIds == 1..MaxRisks
NoStep == 0

ASSUME BoundsAssumption ==
    /\ NumSteps \in Nat \ {0}
    /\ MaxAttempt \in Nat \ {0}
    /\ MaxCycle \in Nat \ {0}
    /\ MaxClock \in Nat \ {0}
    /\ MaxPhotos \in Nat
    /\ MaxSignatures \in Nat
    /\ MaxRisks \in Nat
    /\ MAX_PHOTOS_PER_ATTEMPT \in Nat

ASSUME TemplateAssumption ==
    /\ StopSteps \subseteq Steps
    /\ MeasuredSteps \subseteq Steps
    /\ RequiredPhotos \in [Steps -> Nat]

ASSUME ActorsAssumption ==
    /\ Masters \subseteq Users
    /\ NoUser \notin Users
    /\ PolicyKinds \subseteq {"STOP_OVERRIDE", "THRESHOLD"}
    /\ LegacyJob \in BOOLEAN

VARIABLES
    job,         \* the jobs row
    checklist,   \* job_checklists: not assigned, open, or completed_at set
    steps,       \* job_steps rows: status and attempt
    approvals,   \* stop_approvals: the decision on each attempt of a step
    measured,    \* step_measurements: the <<step, attempt>> pairs stored
    photos,      \* job_photos rows
    signatures,  \* customer_signatures rows
    objects,     \* the object under each evidence row's storage key
    uploads,     \* where the request that writes each object stands
    risks,       \* risk_events rows
    snapshots,   \* completion_snapshots, at most one per cycle
    policy,      \* the ACTIVE risk matrix, or NONE
    registry,    \* the customer and vehicle rows the job points to
    now,         \* the database clock, in the seconds of a TIMESTAMP
    requests     \* close and confirm requests: which check they have passed

checklistVars == <<checklist, steps, approvals, measured>>
evidenceVars == <<photos, signatures, objects, uploads>>
environmentVars == <<policy, registry, now>>
vars == <<job, checklistVars, evidenceVars, risks, snapshots, environmentVars,
          requests>>

JobStatuses == {"NONE", "DRAFT", "IN_PROGRESS", "WAITING_STOP_APPROVAL",
                "REJECTED", "REOPENED", "QUALITY_REVIEW", "COMPLETED",
                "CANCELLED"}
StepStatuses == {"PENDING", "WAITING_APPROVAL", "APPROVED", "REJECTED",
                 "COMPLETED"}
DoneStatuses == {"COMPLETED", "APPROVED"}
ApprovalStatuses == {"NONE", "PENDING", "APPROVED", "REJECTED"}
EvidenceStatuses == {"NONE", "PENDING", "UNVERIFIED", "READY", "FAILED"}
\* ABSENT also stands for an object of the wrong size, ALTERED for one of the
\* right size and other bytes.
ObjectStates == {"ABSENT", "STORED", "ALTERED"}
UploadStates == {"IDLE", "PUTTING", "PUT_OK", "PUT_FAILED", "DELETING"}
RiskStatuses == {"NONE", "OPEN", "RESOLVED", "REJECTED"}
RiskSources == {"MANUAL", "STOP_REJECTED"}
RequestStates == {"IDLE", "CLOSE_CHECKED", "CLOSE_VERIFIED",
                  "CONFIRM_CHECKED", "CONFIRM_VERIFIED"}

LowestIn(ids) == CHOOSE i \in ids : \A j \in ids : i <= j
LatestIn(ids) == CHOOSE i \in ids : \A j \in ids : j <= i

-----------------------------------------------------------------------------
(* The cycle of a job (job-cycle.ts).  0 is a NULL timestamp.                *)

\* Mutant: a reopening in the second of the close counts as before it.
IsReopenCycleStrictly ==
    \/ job.status = "REOPENED"
    \/ /\ job.reopenedAt # 0
       /\ job.closedAt = 0 \/ job.reopenedAt > job.closedAt

IsReopenCycle ==
    \/ job.status = "REOPENED"
    \/ /\ job.reopenedAt # 0
       /\ job.closedAt = 0 \/ job.reopenedAt >= job.closedAt

WorkingStatus == IF IsReopenCycle THEN "REOPENED" ELSE "IN_PROGRESS"
IsWorkable == job.status \in {"IN_PROGRESS", "REOPENED"}
IsTerminal == job.status \in {"COMPLETED", "CANCELLED"}

\* The execution guard: a master, anybody while the job is unassigned, or the
\* assigned technician.
CanExecuteJob(u) ==
    \/ u \in Masters
    \/ job.technician = NoUser
    \/ job.technician = u

-----------------------------------------------------------------------------
(* What the completion gate and the summary read.                            *)

\* The attempt a step is judged by: the latest one sent for a STOP decision,
\* and attempt 1 when there is none.
RelevantAttempt(s) ==
    LET submitted == {a \in Attempts : approvals[s][a] # "NONE"}
    IN  IF submitted = {} THEN 1 ELSE LatestIn(submitted)

\* Mutant: photos whose upload has not ended count.
RegisteredPhotos(s, a) ==
    {p \in PhotoIds : /\ photos[p].status \in {"PENDING", "READY"}
                      /\ photos[p].step = s
                      /\ photos[p].attempt = a}

ReadyPhotos(s, a) ==
    {p \in PhotoIds : /\ photos[p].status = "READY"
                      /\ photos[p].step = s
                      /\ photos[p].attempt = a}

AllStepsDone == \A s \in Steps : steps[s].status \in DoneStatuses

\* The header gets completed_at when no step is left that is not done.
HeaderAfter(rows) ==
    IF \A s \in Steps : rows[s].status \in DoneStatuses
      THEN "COMPLETE" ELSE checklist

IsOpenBlocker(r) == risks[r].status = "OPEN" /\ risks[r].blocking

OpenBlockers ==
    {r \in RiskIds : IsOpenBlocker(r) /\ risks[r].cycle = job.cycle}

\* Mutant: a signature of any cycle is accepted.
ActiveSignaturesOfAnyCycle ==
    {g \in SignatureIds : /\ signatures[g].status = "READY"
                          /\ ~signatures[g].superseded}

\* The accepted signatures of the current cycle.
ActiveSignatures ==
    {g \in SignatureIds : /\ signatures[g].status = "READY"
                          /\ ~signatures[g].superseded
                          /\ signatures[g].cycle = job.cycle}

\* validateJobCompletion: the gate of a close and of a quality confirmation.
CanComplete ==
    /\ checklist # "NONE"
    /\ AllStepsDone
    /\ \A s \in Steps :
         Cardinality(ReadyPhotos(s, RelevantAttempt(s))) >= RequiredPhotos[s]
    /\ \A s \in MeasuredSteps : <<s, RelevantAttempt(s)>> \in measured
    /\ OpenBlockers = {}
    /\ ActiveSignatures # {}

\* The objects assertReadyEvidenceObjects stats, by existence and size.
VerifiedEvidence ==
    UNION {ReadyPhotos(s, RelevantAttempt(s)) :
              s \in {t \in Steps : RequiredPhotos[t] > 0}}
      \cup (IF ActiveSignatures = {} THEN {} ELSE {LatestIn(ActiveSignatures)})

EvidenceObjectsPresent == \A e \in VerifiedEvidence : objects[e] # "ABSENT"

\* The signable summary.  Its digest is modelled by the summary itself: two
\* digests agree exactly when the summaries do.
Summary ==
    [cycle        |-> job.cycle,
     technician   |-> job.technician,
     installation |-> job.installation,
     registry     |-> registry,
     steps        |-> [s \in Steps |->
                         [status   |-> steps[s].status,
                          attempt  |-> RelevantAttempt(s),
                          evidence |-> ReadyPhotos(s, RelevantAttempt(s)),
                          measured |-> <<s, RelevantAttempt(s)>> \in measured]],
     stops        |-> approvals,
     blockers     |-> OpenBlockers]

\* summary_digest of a row from before phase 10D.
NoDigest == [legacy |-> TRUE]

\* assertSignatureFresh: a signature without a digest is never stale.
SignatureFresh ==
    ActiveSignatures # {}
        => signatures[LatestIn(ActiveSignatures)].digest \in {NoDigest, Summary}

-----------------------------------------------------------------------------
(* Rows not inserted yet, and the type of each variable.                     *)
BlankPhoto == [status |-> "NONE", step |-> 1, attempt |-> 1]
BlankSignature == [status |-> "NONE", cycle |-> 1, superseded |-> FALSE,
                   digest |-> NoDigest]
BlankRisk == [status |-> "NONE", cycle |-> 1, step |-> NoStep,
              source |-> "MANUAL", blocking |-> FALSE]
NoSnapshot == [provenance |-> "NONE"]

\* The ids of a table are handed out in increasing order (auto-increment).
UnusedPhotos == {p \in PhotoIds : photos[p].status = "NONE"}
UnusedSignatures == {g \in SignatureIds : signatures[g].status = "NONE"}
UnusedRisks == {r \in RiskIds : risks[r].status = "NONE"}

Summaries ==
    [cycle : Cycles,
     technician : Users \cup {NoUser},
     installation : Installations,
     registry : Registries,
     steps : [Steps -> [status : StepStatuses, attempt : Attempts,
                        evidence : SUBSET PhotoIds, measured : BOOLEAN]],
     stops : [Steps -> [Attempts -> ApprovalStatuses]],
     blockers : SUBSET RiskIds]

Digests == Summaries \cup {NoDigest}

Snapshots == [summary : Summaries, signature : SignatureIds,
              signedDigest : Digests]

JobRows == [status : JobStatuses, cycle : Cycles,
            technician : Users \cup {NoUser}, installation : Installations,
            closedAt : 0..MaxClock, reopenedAt : 0..MaxClock]
StepRows == [status : StepStatuses, attempt : Attempts]
PhotoRows == [status : EvidenceStatuses, step : Steps, attempt : Attempts]
SignatureRows == [status : EvidenceStatuses, cycle : Cycles,
                  superseded : BOOLEAN, digest : Digests]
RiskRows == [status : RiskStatuses, cycle : Cycles,
             step : Steps \cup {NoStep}, source : RiskSources,
             blocking : BOOLEAN]

\* Every row holds values its columns can hold.
TypeOK ==
    /\ job \in JobRows
    /\ checklist \in {"NONE", "OPEN", "COMPLETE"}
    /\ steps \in [Steps -> StepRows]
    /\ approvals \in [Steps -> [Attempts -> ApprovalStatuses]]
    /\ measured \subseteq Steps \X Attempts
    /\ photos \in [PhotoIds -> PhotoRows]
    /\ signatures \in [SignatureIds -> SignatureRows]
    /\ objects \in [EvidenceIds -> ObjectStates]
    /\ uploads \in [EvidenceIds -> UploadStates]
    /\ risks \in [RiskIds -> RiskRows]
    /\ snapshots \in [Cycles -> Snapshots \cup {NoSnapshot}]
    /\ policy \in PolicyKinds \cup {"NONE"}
    /\ registry \in Registries
    /\ now \in 0..MaxClock
    /\ requests \in [Requests -> RequestStates]
=============================================================================
