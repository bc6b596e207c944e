--------------------------- MODULE EvidenceProofs ---------------------------
(* What the uploads, reconciliation and the storage do to the evidence of a  *)
(* job, for every value of the constants: however many rows, attempts,       *)
(* requests and faults.                                                      *)
EXTENDS WorkflowProofs, FiniteSetTheorems

(* LowestIn returns an element of a set of ids: the row a table inserts is   *)
(* one that was not used.                                                    *)
LEMMA LowestInIsElement ==
    ASSUME NEW ids \in SUBSET Nat, ids # {}
    PROVE  LowestIn(ids) \in ids
<1> DEFINE R == OpToRel(<, Nat)
<1>1. PICK i \in ids : \A j \in ids : ~(<<j, i>> \in R)
  <2>1. IsWellFoundedOn(R, Nat)
    BY NatLessThanWellFounded
  <2> HIDE DEF R
  <2> QED
    BY <2>1, WFMin, Zenon
<1>2. \A j \in ids : ~(j < i)
  BY <1>1 DEF OpToRel
<1>3. \A j \in ids : i <= j
  BY <1>2
<1> QED
  BY <1>3 DEF LowestIn

(* Photos and signatures are numbered apart.                                 *)
LEMMA IdsAreApart ==
    /\ PhotoIds \subseteq Nat /\ SignatureIds \subseteq Nat
    /\ PhotoIds \cap SignatureIds = {}
    /\ EvidenceIds = PhotoIds \cup SignatureIds
BY BoundsAssumption DEF PhotoIds, SignatureIds, EvidenceIds

(* A new photo, and a new signature, is a row that was not used.             *)
LEMMA NewRowWasUnused ==
    /\ \A s \in Steps : RegisterPhoto(s) =>
         /\ LowestIn(UnusedPhotos) \in PhotoIds
         /\ photos[LowestIn(UnusedPhotos)].status = "NONE"
    /\ RegisterSignature =>
         /\ LowestIn(UnusedSignatures) \in SignatureIds
         /\ signatures[LowestIn(UnusedSignatures)].status = "NONE"
<1>1. UnusedPhotos \subseteq Nat /\ UnusedSignatures \subseteq Nat
  BY IdsAreApart DEF UnusedPhotos, UnusedSignatures
<1>2. UnusedPhotos # {} => LowestIn(UnusedPhotos) \in UnusedPhotos
  BY <1>1, LowestInIsElement
<1>3. UnusedSignatures # {} => LowestIn(UnusedSignatures) \in UnusedSignatures
  BY <1>1, LowestInIsElement
<1> QED
  BY <1>2, <1>3 DEF RegisterPhoto, RegisterSignature, UnusedPhotos, UnusedSignatures

(* Setting the status of one row leaves the others alone.                    *)
LEMMA SetStatusEffect ==
    ASSUME TypeOK, NEW e \in EvidenceIds, NEW to, SetStatus(e, to)
    PROVE  \A f \in EvidenceIds, x \in EvidenceStatuses :
              HasStatus(f, x)' <=> IF f = e THEN to = x ELSE HasStatus(f, x)
<1>1. CASE e \in PhotoIds /\ photos' = [photos EXCEPT ![e].status = to]
           /\ UNCHANGED signatures
  BY <1>1, IdsAreApart DEF TypeOK, PhotoRows, HasStatus
<1>2. CASE e \in SignatureIds /\ signatures' = [signatures EXCEPT ![e].status = to]
           /\ UNCHANGED photos
  BY <1>2, IdsAreApart DEF TypeOK, SignatureRows, HasStatus
<1> QED
  BY <1>1, <1>2 DEF SetStatus

-----------------------------------------------------------------------------
(* An upload and its row.                                                    *)

\* While a request writes an object or waits for its answer, its row is in
\* flight, or was failed meanwhile; an object is deleted only under a failed
\* row; and an acknowledged put is stored until the request goes on.
UploadsOwnTheirRows ==
    \A e \in EvidenceIds :
       /\ uploads[e] \in {"PUTTING", "PUT_OK", "PUT_FAILED"}
            => HasStatus(e, "PENDING") \/ HasStatus(e, "FAILED")
       /\ uploads[e] = "DELETING" => HasStatus(e, "FAILED")
       /\ uploads[e] = "PUT_OK" => objects[e] = "STORED"

UploadInv ==
    /\ UploadsOwnTheirRows
    /\ "LOSS" \notin Faults => ReadyImpliesStored

LEMMA UploadInit == Init => UploadInv
<1> SUFFICES ASSUME Init
             PROVE  UploadInv
  OBVIOUS
<1>1. UploadsOwnTheirRows
  BY DEF Init, UploadsOwnTheirRows
<1>2. ReadyImpliesStored
  <2>1. CASE FreshInit
    BY <2>1, IdsAreApart DEF FreshInit, ReadyImpliesStored, HasStatus, BlankPhoto, BlankSignature
  <2>2. CASE LegacyInit
    BY <2>2, IdsAreApart DEF LegacyInit, ReadyImpliesStored, HasStatus, BlankPhoto, BlankSignature
  <2> QED
    BY <2>1, <2>2 DEF Init
<1> QED
  BY <1>1, <1>2 DEF UploadInv

(* Every step of an upload, of reconciliation and of the storage keeps it.   *)
LEMMA UploadKeptByStorage ==
    ASSUME TypeOK, UploadInv, NEW e \in EvidenceIds,
           \/ PutObject(e) \/ PutObjectFails(e) \/ DeleteObject(e)
           \/ UploadDies(e) \/ LoseObject(e)
    PROVE  UploadInv'
<1> USE DEF UploadInv
<1>1. UNCHANGED <<photos, signatures>>
  BY DEF PutObject, PutObjectFails, DeleteObject, UploadDies, LoseObject, evidenceVars
<1>2. \A f \in EvidenceIds : \A x : HasStatus(f, x)' <=> HasStatus(f, x)
  BY <1>1 DEF HasStatus
<1>3. HasStatus(e, "READY") => ~HasStatus(e, "PENDING") /\ ~HasStatus(e, "FAILED")
  BY DEF HasStatus
<1>4. \A f \in EvidenceIds \ {e} : uploads'[f] = uploads[f] /\ objects'[f] = objects[f]
  BY DEF PutObject, PutObjectFails, DeleteObject, UploadDies, LoseObject, TypeOK
<1>5. CASE PutObject(e) \/ PutObjectFails(e)
  <2>1. /\ uploads[e] = "PUTTING" /\ uploads'[e] \in {"PUT_OK", "PUT_FAILED"}
        /\ uploads'[e] = "PUT_OK" => objects'[e] = "STORED"
    BY <1>5 DEF PutObject, PutObjectFails, TypeOK
  <2> QED
    BY <1>2, <1>3, <1>4, <2>1 DEF UploadsOwnTheirRows, ReadyImpliesStored
<1>6. CASE DeleteObject(e)
  <2>1. uploads[e] = "DELETING" /\ uploads'[e] = "IDLE"
    BY <1>6 DEF DeleteObject, TypeOK
  <2> QED
    BY <1>2, <1>3, <1>4, <2>1 DEF UploadsOwnTheirRows, ReadyImpliesStored
<1>7. CASE UploadDies(e)
  <2>1. uploads'[e] = "IDLE" /\ objects' = objects
    BY <1>7 DEF UploadDies, TypeOK
  <2> QED
    BY <1>2, <1>4, <2>1 DEF UploadsOwnTheirRows, ReadyImpliesStored
<1>8. CASE LoseObject(e)
  <2>1. "LOSS" \in Faults /\ uploads' = uploads /\ HasStatus(e, "READY")
    BY <1>8 DEF LoseObject
  <2> QED
    BY <1>2, <1>3, <1>4, <2>1 DEF UploadsOwnTheirRows
<1> QED
  BY <1>5, <1>6, <1>7, <1>8

(* What a step does to the evidence rows.  A row settles: an upload in       *)
(* flight is accepted or refused, a legacy row is verified or rejected, an   *)
(* accepted row that lost its object is rejected.                            *)
Moves(e, from, to) == HasStatus(e, from) /\ SetStatus(e, to)

Settles(e) ==
    \/ Moves(e, "PENDING", "READY") /\ StillValid(e) /\ objects[e] = "STORED"
    \/ Moves(e, "PENDING", "FAILED")
    \/ Moves(e, "UNVERIFIED", "READY") /\ objects[e] = "STORED"
    \/ Moves(e, "UNVERIFIED", "FAILED")
    \/ Moves(e, "READY", "FAILED") /\ objects[e] # "STORED"

\* What a step on evidence leaves alone.
workVars == <<job, checklist, steps, approvals, measured, risks, snapshots>>

LEMMA SettlingKeepsUploads ==
    ASSUME TypeOK, UploadInv, NEW e \in EvidenceIds,
           MarkFailed(e) \/ FinalizeUpload(e) \/ Reconcile(e)
    PROVE  /\ UploadInv'
           /\ (Settles(e) \/ UNCHANGED <<photos, signatures>>)
           /\ UNCHANGED workVars
<1> USE DEF UploadInv, workVars, checklistVars
<1>1. CASE MarkFailed(e)
  <2>1. /\ uploads[e] = "PUT_FAILED" /\ uploads'[e] = "IDLE" /\ objects' = objects
        /\ \A f \in EvidenceIds \ {e} : uploads'[f] = uploads[f]
    BY <1>1 DEF MarkFailed, TypeOK
  <2>2. CASE HasStatus(e, "PENDING")
    <3>1. SetStatus(e, "FAILED")
      BY <1>1, <2>2 DEF MarkFailed
    <3>2. \A f \in EvidenceIds, x \in EvidenceStatuses :
             HasStatus(f, x)' <=> IF f = e THEN x = "FAILED" ELSE HasStatus(f, x)
      BY <3>1, SetStatusEffect
    <3>3. UploadInv'
      BY <2>1, <3>2 DEF UploadsOwnTheirRows, ReadyImpliesStored, EvidenceStatuses
    <3> QED
      BY <1>1, <2>2, <3>1, <3>3 DEF MarkFailed, Settles, Moves
  <2>3. CASE ~HasStatus(e, "PENDING")
    <3>1. UNCHANGED <<photos, signatures>>
      BY <1>1, <2>3 DEF MarkFailed
    <3>2. UploadInv'
      BY <2>1, <3>1 DEF UploadsOwnTheirRows, ReadyImpliesStored, HasStatus
    <3> QED
      BY <1>1, <3>1, <3>2 DEF MarkFailed
  <2> QED
    BY <2>2, <2>3
<1>2. CASE FinalizeUpload(e)
  <2>1. /\ uploads[e] = "PUT_OK" /\ objects' = objects
        /\ uploads'[e] = IF HasStatus(e, "PENDING") /\ StillValid(e)
                           THEN "IDLE" ELSE "DELETING"
        /\ \A f \in EvidenceIds \ {e} : uploads'[f] = uploads[f]
        /\ objects[e] = "STORED"
    BY <1>2 DEF FinalizeUpload, TypeOK, UploadsOwnTheirRows
  <2>2. CASE HasStatus(e, "PENDING")
    <3>1. PICK to \in {"READY", "FAILED"} :
            SetStatus(e, to) /\ (to = "READY" <=> StillValid(e))
      BY <1>2, <2>2 DEF FinalizeUpload
    <3>2. \A f \in EvidenceIds, x \in EvidenceStatuses :
             HasStatus(f, x)' <=> IF f = e THEN to = x ELSE HasStatus(f, x)
      BY <3>1, SetStatusEffect
    <3>3. UploadInv'
      BY <2>1, <2>2, <3>1, <3>2
         DEF UploadsOwnTheirRows, ReadyImpliesStored, EvidenceStatuses
    <3> QED
      BY <1>2, <2>1, <2>2, <3>1, <3>3 DEF FinalizeUpload, Settles, Moves
  <2>3. CASE ~HasStatus(e, "PENDING")
    <3>1. UNCHANGED <<photos, signatures>>
      BY <1>2, <2>3 DEF FinalizeUpload
    <3>2. HasStatus(e, "FAILED") /\ uploads'[e] = "DELETING"
      BY <2>1, <2>3 DEF UploadsOwnTheirRows
    <3>3. UploadInv'
      BY <2>1, <3>1, <3>2 DEF UploadsOwnTheirRows, ReadyImpliesStored, HasStatus
    <3> QED
      BY <1>2, <3>1, <3>3 DEF FinalizeUpload
  <2> QED
    BY <2>2, <2>3
<1>3. CASE Reconcile(e)
  <2>1. Settles(e) /\ UNCHANGED <<workVars, objects, uploads>>
    BY <1>3 DEF Reconcile, PromoteLegacy, FailLegacy, FailLost, FailStale,
                Reconciled, Settles, Moves
  <2>2. PICK to \in {"READY", "FAILED"} :
          /\ SetStatus(e, to)
          /\ to = "READY" => HasStatus(e, "UNVERIFIED") /\ objects[e] = "STORED"
    BY <1>3 DEF Reconcile, PromoteLegacy, FailLegacy, FailLost, FailStale, Reconciled
  <2>3. \A f \in EvidenceIds, x \in EvidenceStatuses :
           HasStatus(f, x)' <=> IF f = e THEN to = x ELSE HasStatus(f, x)
    BY <2>2, SetStatusEffect
  <2>4. HasStatus(e, "UNVERIFIED") => uploads[e] = "IDLE"
    BY DEF UploadsOwnTheirRows, TypeOK, UploadStates, HasStatus
  <2>5. UploadInv'
    BY <2>1, <2>2, <2>3, <2>4
       DEF UploadsOwnTheirRows, ReadyImpliesStored, EvidenceStatuses
  <2> QED
    BY <2>1, <2>5
<1> QED
  BY <1>1, <1>2, <1>3

(* What registering a row does to the statuses: one row gets in flight.      *)
LEMMA RegisterEffect ==
    ASSUME TypeOK, (\E s \in Steps : RegisterPhoto(s)) \/ RegisterSignature
    PROVE  \E e \in EvidenceIds :
             /\ HasStatus(e, "NONE")
             /\ uploads' = [uploads EXCEPT ![e] = "PUTTING"]
             /\ \A f \in EvidenceIds, x \in EvidenceStatuses :
                  HasStatus(f, x)' <=> IF f = e THEN x = "PENDING" ELSE HasStatus(f, x)
<1>1. ASSUME NEW s \in Steps, RegisterPhoto(s)
      PROVE  \E e \in EvidenceIds :
             /\ HasStatus(e, "NONE")
             /\ uploads' = [uploads EXCEPT ![e] = "PUTTING"]
             /\ \A f \in EvidenceIds, x \in EvidenceStatuses :
                  HasStatus(f, x)' <=> IF f = e THEN x = "PENDING" ELSE HasStatus(f, x)
  <2> DEFINE p == LowestIn(UnusedPhotos)
  <2>1. /\ p \in PhotoIds /\ photos[p].status = "NONE"
        /\ uploads' = [uploads EXCEPT ![p] = "PUTTING"] /\ signatures' = signatures
        /\ photos' = [photos EXCEPT ![p] =
                         [status |-> "PENDING", step |-> s, attempt |-> steps[s].attempt]]
    BY <1>1, NewRowWasUnused DEF RegisterPhoto
  <2> HIDE DEF p
  <2>2. p \in EvidenceIds /\ HasStatus(p, "NONE")
    BY <2>1, IdsAreApart DEF HasStatus
  <2>3. \A f \in EvidenceIds, x \in EvidenceStatuses :
           HasStatus(f, x)' <=> IF f = p THEN x = "PENDING" ELSE HasStatus(f, x)
    BY <2>1, IdsAreApart DEF HasStatus, TypeOK
  <2> QED
    BY <2>1, <2>2, <2>3
<1>2. ASSUME RegisterSignature
      PROVE  \E e \in EvidenceIds :
             /\ HasStatus(e, "NONE")
             /\ uploads' = [uploads EXCEPT ![e] = "PUTTING"]
             /\ \A f \in EvidenceIds, x \in EvidenceStatuses :
                  HasStatus(f, x)' <=> IF f = e THEN x = "PENDING" ELSE HasStatus(f, x)
  <2> DEFINE g == LowestIn(UnusedSignatures)
             latest == LatestIn(LiveSignatures)
             row == [status |-> "PENDING", cycle |-> job.cycle,
                     superseded |-> FALSE, digest |-> Summary]
  <2>1. /\ g \in SignatureIds /\ signatures[g].status = "NONE"
        /\ uploads' = [uploads EXCEPT ![g] = "PUTTING"] /\ photos' = photos
        /\ \/ signatures' = [signatures EXCEPT ![g] = row]
           \/ signatures' = [[signatures EXCEPT ![latest].superseded = TRUE]
                               EXCEPT ![g] = row]
    BY <1>2, NewRowWasUnused DEF RegisterSignature
  <2>2. row.status = "PENDING"
    OBVIOUS
  <2> HIDE DEF g, latest, row
  <2>3. /\ signatures'[g] = row
        /\ \A h \in SignatureIds \ {g} : signatures'[h].status = signatures[h].status
    BY <2>1 DEF TypeOK, SignatureRows
  <2>4. g \in EvidenceIds /\ HasStatus(g, "NONE")
    BY <2>1, IdsAreApart DEF HasStatus
  <2>5. \A f \in EvidenceIds, x \in EvidenceStatuses :
           HasStatus(f, x)' <=> IF f = g THEN x = "PENDING" ELSE HasStatus(f, x)
    BY <2>1, <2>2, <2>3, IdsAreApart DEF HasStatus
  <2> QED
    BY <2>1, <2>4, <2>5
<1> QED
  BY <1>1, <1>2

(* A reopening changes no status.                                            *)
LEMMA ReopenEffect ==
    ASSUME TypeOK, NEW t \in Seconds, ReopenJob(t)
    PROVE  \A f \in EvidenceIds, x \in EvidenceStatuses :
              HasStatus(f, x)' <=> HasStatus(f, x)
<1>1. \A g \in SignatureIds : signatures'[g].status = signatures[g].status
  BY DEF ReopenJob, TypeOK, SignatureRows
<1> QED
  BY <1>1, IdsAreApart DEF ReopenJob, HasStatus

(* The effects of a step on the evidence, and that every step keeps uploads  *)
(* and their rows together.                                                  *)
EvidenceEffect ==
    \/ UNCHANGED <<photos, signatures>> /\ job'.cycle = job.cycle
    \/ \E s \in Steps : RegisterPhoto(s)
    \/ RegisterSignature
    \/ \E e \in EvidenceIds : Settles(e) /\ UNCHANGED workVars
    \/ \E t \in Seconds : ReopenJob(t)

LEMMA EvidenceStep ==
    TypeOK /\ UploadInv /\ [Next]_vars => UploadInv' /\ EvidenceEffect
<1> SUFFICES ASSUME TypeOK, UploadInv, [Next]_vars
             PROVE  UploadInv' /\ EvidenceEffect
  OBVIOUS
<1>1. ASSUME UNCHANGED evidenceVars, job'.cycle = job.cycle
      PROVE  UploadInv' /\ EvidenceEffect
  BY <1>1 DEF UploadInv, UploadsOwnTheirRows, ReadyImpliesStored, HasStatus,
              EvidenceEffect, evidenceVars
<1>2. CASE (\E s \in Steps : RegisterPhoto(s)) \/ RegisterSignature
  <2>1. PICK e \in EvidenceIds :
             /\ HasStatus(e, "NONE")
             /\ uploads' = [uploads EXCEPT ![e] = "PUTTING"]
             /\ \A f \in EvidenceIds, x \in EvidenceStatuses :
                  HasStatus(f, x)' <=> IF f = e THEN x = "PENDING" ELSE HasStatus(f, x)
    BY <1>2, RegisterEffect
  <2>2. objects' = objects
    BY <1>2 DEF RegisterPhoto, RegisterSignature
  <2>3. uploads'[e] = "PUTTING" /\ \A f \in EvidenceIds \ {e} : uploads'[f] = uploads[f]
    BY <2>1 DEF TypeOK
  <2>4. UploadInv'
    BY <2>1, <2>2, <2>3
       DEF UploadInv, UploadsOwnTheirRows, ReadyImpliesStored, EvidenceStatuses
  <2> QED
    BY <1>2, <2>4 DEF EvidenceEffect
<1>3. ASSUME NEW e \in EvidenceIds,
             \/ PutObject(e) \/ PutObjectFails(e) \/ DeleteObject(e)
             \/ UploadDies(e) \/ LoseObject(e)
      PROVE  UploadInv' /\ EvidenceEffect
  <2>1. UNCHANGED <<photos, signatures, job>>
    BY <1>3 DEF PutObject, PutObjectFails, DeleteObject, UploadDies, LoseObject
  <2> QED
    BY <1>3, <2>1, UploadKeptByStorage DEF EvidenceEffect
<1>4. ASSUME NEW e \in EvidenceIds, MarkFailed(e) \/ FinalizeUpload(e) \/ Reconcile(e)
      PROVE  UploadInv' /\ EvidenceEffect
  BY <1>4, SettlingKeepsUploads DEF EvidenceEffect, workVars
<1>5. ASSUME NEW t \in Seconds, ReopenJob(t)
      PROVE  UploadInv' /\ EvidenceEffect
  <2>1. UNCHANGED <<objects, uploads>>
    BY <1>5 DEF ReopenJob
  <2>2. \A f \in EvidenceIds, x \in EvidenceStatuses :
           HasStatus(f, x)' <=> HasStatus(f, x)
    BY <1>5, ReopenEffect
  <2>3. UploadInv'
    BY <2>1, <2>2 DEF UploadInv, UploadsOwnTheirRows, ReadyImpliesStored, EvidenceStatuses
  <2> QED
    BY <1>5, <2>3 DEF EvidenceEffect
<1>6. CASE UNCHANGED vars
  BY <1>1, <1>6 DEF vars
<1>7. CASE JobActions
  BY <1>1, <1>7 DEF JobActions, CreateJob, StartJob, UpdateInstallation,
                    CancelJob, Reassign, Unassign, EditRegistry, TypeOK, JobRows
<1>8. CASE ChecklistActions
  BY <1>1, <1>8 DEF ChecklistActions, AssignChecklist, CompleteStep, SubmitStop,
                    FinishStep, RedoStep, TypeOK, JobRows
<1>9. CASE StopActions
  BY <1>1, <1>9 DEF StopActions, ApproveStop, RejectStop, ReworkStop, TypeOK, JobRows
<1>10. CASE RiskActions
  BY <1>1, <1>10 DEF RiskActions, CreateRisk, ResolveRisk, ReviseRisk,
                     ActivateMatrix, RetireMatrix
<1>11. CASE EvidenceActions
  BY <1>2, <1>3, <1>4, <1>11 DEF EvidenceActions, UploadStep
<1>12. CASE CompletionActions
  BY <1>1, <1>5, <1>12 DEF CompletionActions, CheckClose, CheckConfirm, VerifyObjects,
                           AbandonRequest, Advance, CloseJob, SubmitForReview,
                           ConfirmQuality, Complete, TypeOK, JobRows
<1> QED
  BY <1>6, <1>7, <1>8, <1>9, <1>10, <1>11, <1>12 DEF Next

LEMMA UploadInvariant == Spec => [](TypeOK /\ UploadInv)
<1>1. Init => TypeOK /\ UploadInv
  BY TypeInit, UploadInit
<1>2. TypeOK /\ UploadInv /\ [Next]_vars => TypeOK' /\ UploadInv'
  BY TypeStep, EvidenceStep
<1> QED
  BY <1>1, <1>2, PTL DEF Spec

(* An accepted photo or signature has its object behind it, whatever order   *)
(* late answers of the storage, errors that wrote the object all the same,   *)
(* stale sweeps, crashes and deletions come in, as long as the storage keeps *)
(* what it acknowledged.                                                     *)
THEOREM ReadyIsStored ==
    ASSUME "LOSS" \notin Faults
    PROVE  Spec => []ReadyImpliesStored
<1>1. UploadInv => ReadyImpliesStored
  BY DEF UploadInv
<1> QED
  BY <1>1, UploadInvariant, PTL

-----------------------------------------------------------------------------
(* What never comes back.                                                    *)

FailedStays ==
    \A e \in EvidenceIds :
       /\ HasStatus(e, "FAILED") => HasStatus(e, "FAILED")'
       /\ ~HasStatus(e, "READY") /\ HasStatus(e, "READY")' => objects[e] = "STORED"

LEMMA FailedStep == TypeOK /\ UploadInv /\ [Next]_vars => FailedStays
<1> SUFFICES ASSUME TypeOK, UploadInv, [Next]_vars
             PROVE  FailedStays
  OBVIOUS
<1> USE DEF FailedStays, EvidenceStatuses
<1>1. CASE UNCHANGED <<photos, signatures>>
  BY <1>1 DEF HasStatus
<1>2. CASE (\E s \in Steps : RegisterPhoto(s)) \/ RegisterSignature
  <2>1. PICK e \in EvidenceIds :
             /\ HasStatus(e, "NONE")
             /\ \A f \in EvidenceIds, x \in EvidenceStatuses :
                  HasStatus(f, x)' <=> IF f = e THEN x = "PENDING" ELSE HasStatus(f, x)
    BY <1>2, RegisterEffect
  <2>2. ~HasStatus(e, "FAILED")
    BY <2>1 DEF HasStatus
  <2> QED
    BY <2>1, <2>2
<1>3. ASSUME NEW e \in EvidenceIds, Settles(e)
      PROVE  FailedStays
  <2>1. PICK from \in {"PENDING", "UNVERIFIED", "READY"}, to \in {"READY", "FAILED"} :
          /\ HasStatus(e, from) /\ SetStatus(e, to)
          /\ to = "READY" => objects[e] = "STORED"
    BY <1>3 DEF Settles, Moves
  <2>2. \A f \in EvidenceIds, x \in EvidenceStatuses :
           HasStatus(f, x)' <=> IF f = e THEN to = x ELSE HasStatus(f, x)
    BY <2>1, SetStatusEffect
  <2>3. ~HasStatus(e, "FAILED")
    BY <2>1 DEF HasStatus
  <2> QED
    BY <2>1, <2>2, <2>3
<1>4. ASSUME NEW t \in Seconds, ReopenJob(t)
      PROVE  FailedStays
  BY <1>4, ReopenEffect
<1> QED
  BY <1>1, <1>2, <1>3, <1>4, EvidenceStep DEF EvidenceEffect

(* FAILED is final, and a row becomes READY only with its object stored: no  *)
(* upload that comes late and no run of reconciliation makes rejected        *)
(* evidence count again.                                                     *)
THEOREM FailedIsFinal == Spec => FailedEvidenceIsFinal
<1>1. TypeOK /\ UploadInv /\ [Next]_vars => [FailedStays]_vars
  BY FailedStep
<1>2. Spec => [][FailedStays]_vars
  BY <1>1, UploadInvariant, PTL DEF Spec
<1>3. [][FailedStays]_vars <=> FailedEvidenceIsFinal
  BY PTL DEF FailedEvidenceIsFinal, FailedStays
<1> QED
  BY <1>2, <1>3, PTL

-----------------------------------------------------------------------------
(* The row an evidence row becomes.                                          *)

\* What a photo is of is written once, and so is what a signature is of.
RowsKeepTheirOrigin ==
    /\ \A p \in PhotoIds : photos[p].status # "NONE" =>
         /\ photos'[p].step = photos[p].step
         /\ photos'[p].attempt = photos[p].attempt
    /\ \A g \in SignatureIds : signatures[g].status # "NONE" =>
         /\ signatures'[g].cycle = signatures[g].cycle
         /\ signatures'[g].digest = signatures[g].digest
         /\ signatures[g].superseded => signatures'[g].superseded

LEMMA OriginStep ==
    ASSUME TypeOK, UploadInv, [Next]_vars
    PROVE  RowsKeepTheirOrigin
<1> USE DEF RowsKeepTheirOrigin
<1>0. /\ photos \in [PhotoIds -> PhotoRows]
      /\ signatures \in [SignatureIds -> SignatureRows]
  BY DEF TypeOK
<1>1. CASE UNCHANGED <<photos, signatures>>
  BY <1>1
<1>2. ASSUME NEW s \in Steps, RegisterPhoto(s)
      PROVE  RowsKeepTheirOrigin
  <2> DEFINE p == LowestIn(UnusedPhotos)
  <2>1. /\ p \in PhotoIds /\ photos[p].status = "NONE" /\ signatures' = signatures
        /\ photos' = [photos EXCEPT ![p] =
                         [status |-> "PENDING", step |-> s, attempt |-> steps[s].attempt]]
    BY <1>2, NewRowWasUnused DEF RegisterPhoto
  <2> HIDE DEF p
  <2> QED
    BY <1>0, <2>1
<1>3. CASE RegisterSignature
  <2> DEFINE g == LowestIn(UnusedSignatures)
             latest == LatestIn(LiveSignatures)
             row == [status |-> "PENDING", cycle |-> job.cycle,
                     superseded |-> FALSE, digest |-> Summary]
  <2>1. /\ g \in SignatureIds /\ signatures[g].status = "NONE" /\ photos' = photos
        /\ \/ signatures' = [signatures EXCEPT ![g] = row]
           \/ signatures' = [[signatures EXCEPT ![latest].superseded = TRUE]
                               EXCEPT ![g] = row]
    BY <1>3, NewRowWasUnused DEF RegisterSignature
  <2> HIDE DEF g, latest, row
  <2>2. /\ \A h \in SignatureIds \ {g} : 
             /\ signatures'[h].cycle = signatures[h].cycle
             /\ signatures'[h].digest = signatures[h].digest
             /\ signatures[h].superseded => signatures'[h].superseded
    BY <1>0, <2>1 DEF SignatureRows
  <2> QED
    BY <2>1, <2>2
<1>4. ASSUME NEW e \in EvidenceIds, Settles(e)
      PROVE  RowsKeepTheirOrigin
  <2>1. PICK to \in {"READY", "FAILED"} : SetStatus(e, to)
    BY <1>4 DEF Settles, Moves
  <2>2. CASE photos' = [photos EXCEPT ![e].status = to] /\ signatures' = signatures
    BY <1>0, <2>2 DEF PhotoRows
  <2>3. CASE signatures' = [signatures EXCEPT ![e].status = to] /\ photos' = photos
    BY <1>0, <2>3 DEF SignatureRows
  <2> QED
    BY <2>1, <2>2, <2>3 DEF SetStatus
<1>5. ASSUME NEW t \in Seconds, ReopenJob(t)
      PROVE  RowsKeepTheirOrigin
  BY <1>0, <1>5 DEF ReopenJob, SignatureRows
<1> QED
  BY <1>1, <1>2, <1>3, <1>4, <1>5, EvidenceStep DEF EvidenceEffect

-----------------------------------------------------------------------------
(* Jobs opened in this system have no rows from before phase 10B.            *)
NothingUnverified ==
    ~LegacyJob => \A e \in EvidenceIds : ~HasStatus(e, "UNVERIFIED")

LEMMA NothingUnverifiedInit == Init => NothingUnverified
<1> SUFFICES ASSUME Init, ~LegacyJob
             PROVE  \A e \in EvidenceIds : ~HasStatus(e, "UNVERIFIED")
  BY DEF NothingUnverified
<1>1. FreshInit
  BY DEF Init
<1> QED
  BY <1>1, IdsAreApart DEF FreshInit, HasStatus, BlankPhoto, BlankSignature

LEMMA NothingUnverifiedStep ==
    ASSUME TypeOK, UploadInv, NothingUnverified, [Next]_vars
    PROVE  NothingUnverified'
<1> USE DEF NothingUnverified, EvidenceStatuses
<1>1. CASE UNCHANGED <<photos, signatures>>
  BY <1>1 DEF HasStatus
<1>2. CASE (\E s \in Steps : RegisterPhoto(s)) \/ RegisterSignature
  BY <1>2, RegisterEffect
<1>3. ASSUME NEW e \in EvidenceIds, Settles(e)
      PROVE  NothingUnverified'
  <2>1. PICK to \in {"READY", "FAILED"} : SetStatus(e, to)
    BY <1>3 DEF Settles, Moves
  <2>2. \A f \in EvidenceIds, x \in EvidenceStatuses :
           HasStatus(f, x)' <=> IF f = e THEN to = x ELSE HasStatus(f, x)
    BY <2>1, SetStatusEffect
  <2> QED
    BY <2>2
<1>4. ASSUME NEW t \in Seconds, ReopenJob(t)
      PROVE  NothingUnverified'
  BY <1>4, ReopenEffect
<1> QED
  BY <1>1, <1>2, <1>3, <1>4, EvidenceStep DEF EvidenceEffect

-----------------------------------------------------------------------------
(* The signatures of a job opened in this system.                            *)

\* Whoever signs sees a summary.
SignedWithDigest ==
    \A g \in SignatureIds :
       signatures[g].status # "NONE" => signatures[g].digest \in Summaries

SignatureInv ==
    /\ NothingUnverified
    /\ ~LegacyJob => /\ OneLiveSignaturePerCycle
                     /\ ActiveSignatureIsCurrent
                     /\ SignedWithDigest

LEMMA SignatureInit == Init => SignatureInv
<1> SUFFICES ASSUME Init, ~LegacyJob
             PROVE  /\ OneLiveSignaturePerCycle
                    /\ ActiveSignatureIsCurrent
                    /\ SignedWithDigest
  BY NothingUnverifiedInit DEF SignatureInv
<1>1. \A g \in SignatureIds : signatures[g].status = "NONE"
  BY DEF Init, FreshInit, BlankSignature
<1> QED
  BY <1>1 DEF OneLiveSignaturePerCycle, ActiveSignatureIsCurrent, SignedWithDigest

(* The latest live signature of the cycle is one of them.                    *)
LEMMA LatestLiveSignature ==
    LiveSignatures # {} => LatestIn(LiveSignatures) \in LiveSignatures
<1>1. LiveSignatures \in SUBSET (0..(MaxPhotos + MaxSignatures))
  BY BoundsAssumption DEF LiveSignatures, SignatureIds
<1>2. MaxPhotos + MaxSignatures \in Nat
  BY BoundsAssumption
<1> QED
  BY <1>1, <1>2, LatestInIsGreatest

LEMMA SignatureRegistered ==
    ASSUME TypeOK, SignatureInv, ~LegacyJob, RegisterSignature
    PROVE  /\ OneLiveSignaturePerCycle'
           /\ ActiveSignatureIsCurrent'
           /\ SignedWithDigest'
<1> DEFINE g == LowestIn(UnusedSignatures)
           latest == LatestIn(LiveSignatures)
           row == [status |-> "PENDING", cycle |-> job.cycle,
                   superseded |-> FALSE, digest |-> Summary]
<1>1. /\ g \in SignatureIds /\ job' = job
      /\ signatures' = IF LiveSignatures = {}
                         THEN [signatures EXCEPT ![g] = row]
                         ELSE [[signatures EXCEPT ![latest].superseded = TRUE]
                                 EXCEPT ![g] = row]
  BY NewRowWasUnused DEF RegisterSignature
<1>2. LiveSignatures # {} => latest \in LiveSignatures
  BY LatestLiveSignature
<1>3. /\ row.status = "PENDING" /\ row.cycle = job.cycle
      /\ row.superseded = FALSE /\ row.digest \in Summaries
  BY SummaryType
<1>4. signatures \in [SignatureIds -> SignatureRows]
  BY DEF TypeOK
<1> HIDE DEF g, latest, row
<1>5. /\ signatures'[g] = row
      /\ \A h \in SignatureIds \ {g} :
           /\ signatures'[h].status = signatures[h].status
           /\ signatures'[h].cycle = signatures[h].cycle
           /\ signatures'[h].digest = signatures[h].digest
           /\ ~signatures'[h].superseded
                => ~signatures[h].superseded /\ (LiveSignatures = {} \/ h # latest)
  BY <1>1, <1>2, <1>4 DEF SignatureRows, LiveSignatures
<1>6. \A h \in LiveSignatures : h = latest
  BY <1>2 DEF SignatureInv, OneLiveSignaturePerCycle, LiveSignatures
<1>7. \A h \in SignatureIds \ {g} :
         /\ signatures'[h].status \in {"PENDING", "READY"}
         /\ ~signatures'[h].superseded
         => signatures'[h].cycle # job.cycle
  BY <1>5, <1>6 DEF LiveSignatures
<1>8. OneLiveSignaturePerCycle'
  BY <1>3, <1>5, <1>7 DEF SignatureInv, OneLiveSignaturePerCycle
<1>9. ActiveSignatureIsCurrent' /\ SignedWithDigest'
  BY ZenonT(60), <1>1, <1>3, <1>5 DEF SignatureInv, ActiveSignatureIsCurrent, SignedWithDigest
<1> QED
  BY <1>8, <1>9

LEMMA SignatureStep ==
    ASSUME TypeOK, UploadInv, SignatureInv, [Next]_vars
    PROVE  SignatureInv'
<1> SUFFICES ASSUME ~LegacyJob
             PROVE  /\ OneLiveSignaturePerCycle'
                    /\ ActiveSignatureIsCurrent'
                    /\ SignedWithDigest'
  BY NothingUnverifiedStep DEF SignatureInv
<1> USE DEF SignatureInv
<1>0. signatures \in [SignatureIds -> SignatureRows]
  BY DEF TypeOK
<1>1. CASE UNCHANGED <<photos, signatures>> /\ job'.cycle = job.cycle
  BY <1>1 DEF OneLiveSignaturePerCycle, ActiveSignatureIsCurrent, SignedWithDigest
<1>2. ASSUME NEW s \in Steps, RegisterPhoto(s)
      PROVE  /\ OneLiveSignaturePerCycle'
             /\ ActiveSignatureIsCurrent'
             /\ SignedWithDigest'
  <2>1. UNCHANGED <<signatures, job>>
    BY <1>2 DEF RegisterPhoto
  <2> QED
    BY <2>1 DEF OneLiveSignaturePerCycle, ActiveSignatureIsCurrent, SignedWithDigest
<1>3. CASE RegisterSignature
  BY <1>3, SignatureRegistered
<1>4. ASSUME NEW e \in EvidenceIds, Settles(e), UNCHANGED workVars
      PROVE  /\ OneLiveSignaturePerCycle'
             /\ ActiveSignatureIsCurrent'
             /\ SignedWithDigest'
  <2>1. PICK to \in {"READY", "FAILED"} :
          /\ SetStatus(e, to)
          /\ HasStatus(e, "PENDING") \/ (HasStatus(e, "READY") /\ to = "FAILED")
          /\ to = "READY" => StillValid(e)
    BY <1>4 DEF Settles, Moves, NothingUnverified
  <2>2. job' = job
    BY <1>4 DEF workVars
  <2>3. CASE e \in PhotoIds
    <3>1. signatures' = signatures
      BY <2>1, <2>3, IdsAreApart DEF SetStatus
    <3> QED
      BY <2>2, <3>1 DEF OneLiveSignaturePerCycle, ActiveSignatureIsCurrent, SignedWithDigest
  <2>4. CASE e \in SignatureIds
    <3>1. /\ signatures' = [signatures EXCEPT ![e].status = to]
          /\ signatures[e].status \in {"PENDING", "READY"}
          /\ to = "READY" => signatures[e].cycle = job.cycle
      BY <2>1, <2>4, IdsAreApart DEF SetStatus, HasStatus, StillValid
    <3>2. /\ signatures'[e].status = to
          /\ \A h \in SignatureIds :
               /\ h # e => signatures'[h].status = signatures[h].status
               /\ signatures'[h].cycle = signatures[h].cycle
               /\ signatures'[h].digest = signatures[h].digest
               /\ signatures'[h].superseded = signatures[h].superseded
      BY <1>0, <2>4, <3>1 DEF SignatureRows
    <3>3. \A h \in SignatureIds : signatures'[h].status \in {"PENDING", "READY"}
                                    => signatures[h].status \in {"PENDING", "READY"}
      BY <3>1, <3>2
    <3>4. OneLiveSignaturePerCycle'
      BY <3>2, <3>3 DEF OneLiveSignaturePerCycle
    <3>5. ActiveSignatureIsCurrent' /\ SignedWithDigest'
      BY <2>2, <3>1, <3>2 DEF ActiveSignatureIsCurrent, SignedWithDigest
    <3> QED
      BY <3>4, <3>5
  <2> QED
    BY <2>3, <2>4, IdsAreApart
<1>5. ASSUME NEW t \in Seconds, ReopenJob(t)
      PROVE  /\ OneLiveSignaturePerCycle'
             /\ ActiveSignatureIsCurrent'
             /\ SignedWithDigest'
  <2>1. \A h \in SignatureIds :
          /\ signatures'[h].status = signatures[h].status
          /\ signatures'[h].cycle = signatures[h].cycle
          /\ signatures'[h].digest = signatures[h].digest
          /\ ~signatures'[h].superseded =>
               /\ ~signatures[h].superseded
               /\ signatures[h].cycle # job.cycle \/ signatures[h].status # "READY"
    BY <1>0, <1>5 DEF ReopenJob, SignatureRows
  <2>2. SignedWithDigest'
    BY <2>1 DEF SignedWithDigest
  <2>4. OneLiveSignaturePerCycle'
    BY <2>1 DEF OneLiveSignaturePerCycle
  <2>3. ActiveSignatureIsCurrent'
    BY <2>1 DEF ActiveSignatureIsCurrent
  <2> QED
    BY <2>2, <2>3, <2>4
<1> QED
  BY <1>1, <1>2, <1>3, <1>4, <1>5, EvidenceStep DEF EvidenceEffect

LEMMA SignatureInvariant == Spec => []SignatureInv
<1>1. Init => SignatureInv
  BY SignatureInit
<1>2. TypeOK /\ UploadInv /\ SignatureInv /\ [Next]_vars => SignatureInv'
  BY SignatureStep
<1> QED
  BY <1>1, <1>2, UploadInvariant, PTL DEF Spec

(* The customer signs a cycle once: however requests to sign, uploads that   *)
(* end late, sweeps and reopenings interleave, no two signatures of a cycle  *)
(* are in flight or accepted and not superseded.                             *)
THEOREM OneSignaturePerCycle ==
    ASSUME ~LegacyJob
    PROVE  Spec => []OneLiveSignaturePerCycle
<1>1. SignatureInv => OneLiveSignaturePerCycle
  BY DEF SignatureInv
<1> QED
  BY <1>1, SignatureInvariant, PTL

(* No signature of an earlier cycle counts after a reopening, not even one   *)
(* whose upload was in flight.                                               *)
THEOREM SignaturesEndWithTheirCycle ==
    ASSUME ~LegacyJob
    PROVE  Spec => []ActiveSignatureIsCurrent
<1>1. SignatureInv => ActiveSignatureIsCurrent
  BY DEF SignatureInv
<1> QED
  BY <1>1, SignatureInvariant, PTL

-----------------------------------------------------------------------------
(* The photos of an attempt.                                                 *)

LEMMA FinitelyManyPhotos == IsFiniteSet(PhotoIds)
BY FS_Interval, BoundsAssumption DEF PhotoIds

(* A set of photos that gives up members gives up a count.                   *)
LEMMA FewerPhotos ==
    ASSUME NEW more \in SUBSET PhotoIds, NEW fewer \in SUBSET more
    PROVE  /\ Cardinality(fewer) \in Nat /\ Cardinality(more) \in Nat
           /\ Cardinality(fewer) <= Cardinality(more)
<1>1. IsFiniteSet(more)
  BY FinitelyManyPhotos, FS_Subset
<1>2. IsFiniteSet(fewer) /\ Cardinality(fewer) <= Cardinality(more)
  BY <1>1, FS_Subset
<1> QED
  BY <1>1, <1>2, FS_CardinalityType

(* Of a job opened in this system, only a registration makes another photo   *)
(* live.                                                                     *)
LEMMA LivePhotosStep ==
    ASSUME TypeOK, UploadInv, NothingUnverified, ~LegacyJob, [Next]_vars,
           NEW s \in Steps, NEW a \in Attempts
    PROVE  \/ LivePhotos(s, a)' \subseteq LivePhotos(s, a)
           \/ /\ Cardinality(LivePhotos(s, a)) < MAX_PHOTOS_PER_ATTEMPT
              /\ \E p \in PhotoIds : LivePhotos(s, a)' \subseteq LivePhotos(s, a) \cup {p}
<1>0. photos \in [PhotoIds -> PhotoRows]
  BY DEF TypeOK
<1>1. CASE UNCHANGED photos
  BY <1>1 DEF LivePhotos
<1>2. ASSUME NEW t \in Steps, RegisterPhoto(t)
      PROVE  \/ LivePhotos(s, a)' \subseteq LivePhotos(s, a)
             \/ /\ Cardinality(LivePhotos(s, a)) < MAX_PHOTOS_PER_ATTEMPT
                /\ \E p \in PhotoIds : LivePhotos(s, a)' \subseteq LivePhotos(s, a) \cup {p}
  <2> DEFINE p == LowestIn(UnusedPhotos)
             row == [status |-> "PENDING", step |-> t, attempt |-> steps[t].attempt]
  <2>1. /\ p \in PhotoIds
        /\ photos' = [photos EXCEPT ![p] = row]
        /\ Cardinality(LivePhotos(t, steps[t].attempt)) < MAX_PHOTOS_PER_ATTEMPT
    BY <1>2, NewRowWasUnused DEF RegisterPhoto
  <2>2. row.step = t /\ row.attempt = steps[t].attempt
    OBVIOUS
  <2> HIDE DEF p, row
  <2>3. photos'[p] = row /\ \A q \in PhotoIds \ {p} : photos'[q] = photos[q]
    BY <1>0, <2>1
  <2>4. LivePhotos(s, a)' \subseteq LivePhotos(s, a) \cup {p}
    BY <2>3 DEF LivePhotos
  <2>5. CASE s = t /\ a = steps[t].attempt
    BY <2>1, <2>4, <2>5
  <2>6. CASE ~(s = t /\ a = steps[t].attempt)
    BY <2>2, <2>3, <2>6 DEF LivePhotos
  <2> QED
    BY <2>5, <2>6
<1>3. CASE RegisterSignature
  BY <1>1, <1>3 DEF RegisterSignature
<1>4. ASSUME NEW e \in EvidenceIds, Settles(e)
      PROVE  LivePhotos(s, a)' \subseteq LivePhotos(s, a)
  <2>1. PICK to \in {"READY", "FAILED"} :
          /\ SetStatus(e, to)
          /\ HasStatus(e, "PENDING") \/ HasStatus(e, "READY")
    BY <1>4 DEF Settles, Moves, NothingUnverified
  <2>2. CASE UNCHANGED photos
    BY <2>2 DEF LivePhotos
  <2>3. CASE e \in PhotoIds /\ photos' = [photos EXCEPT ![e].status = to]
    <3>1. photos[e].status \in {"PENDING", "READY"}
      BY <2>1, <2>3 DEF HasStatus
    <3>2. \A q \in PhotoIds : /\ q # e => photos'[q] = photos[q]
                              /\ photos'[q].step = photos[q].step
                              /\ photos'[q].attempt = photos[q].attempt
      BY <1>0, <2>3 DEF PhotoRows
    <3> QED
      BY <3>1, <3>2 DEF LivePhotos
  <2> QED
    BY <2>1, <2>2, <2>3 DEF SetStatus
<1>5. ASSUME NEW t \in Seconds, ReopenJob(t)
      PROVE  LivePhotos(s, a)' \subseteq LivePhotos(s, a)
  BY <1>1, <1>5 DEF ReopenJob, LivePhotos
<1> QED
  BY <1>1, <1>2, <1>3, <1>4, <1>5, EvidenceStep DEF EvidenceEffect

LimitInv == ~LegacyJob => PhotosWithinLimit

LEMMA LimitInit == Init => LimitInv
<1> SUFFICES ASSUME Init, ~LegacyJob, NEW s \in Steps, NEW a \in Attempts
             PROVE  Cardinality(LivePhotos(s, a)) <= MAX_PHOTOS_PER_ATTEMPT
  BY DEF LimitInv, PhotosWithinLimit
<1>1. LivePhotos(s, a) = {}
  BY DEF Init, FreshInit, BlankPhoto, LivePhotos
<1> QED
  BY <1>1, FS_EmptySet, BoundsAssumption

LEMMA LimitStep ==
    ASSUME TypeOK, UploadInv, NothingUnverified, LimitInv, [Next]_vars
    PROVE  LimitInv'
<1> SUFFICES ASSUME ~LegacyJob, NEW s \in Steps, NEW a \in Attempts
             PROVE  Cardinality(LivePhotos(s, a)') <= MAX_PHOTOS_PER_ATTEMPT
  BY DEF LimitInv, PhotosWithinLimit
<1>1. /\ LivePhotos(s, a) \in SUBSET PhotoIds
      /\ LivePhotos(s, a)' \in SUBSET PhotoIds
  BY DEF LivePhotos
<1>2. Cardinality(LivePhotos(s, a)) <= MAX_PHOTOS_PER_ATTEMPT
  BY DEF LimitInv, PhotosWithinLimit
<1>3. CASE LivePhotos(s, a)' \subseteq LivePhotos(s, a)
  BY <1>1, <1>2, <1>3, FewerPhotos, BoundsAssumption
<1>4. CASE /\ Cardinality(LivePhotos(s, a)) < MAX_PHOTOS_PER_ATTEMPT
           /\ \E p \in PhotoIds : LivePhotos(s, a)' \subseteq LivePhotos(s, a) \cup {p}
  <2>1. PICK p \in PhotoIds : LivePhotos(s, a)' \subseteq LivePhotos(s, a) \cup {p}
    BY <1>4
  <2>2. LivePhotos(s, a) \cup {p} \in SUBSET PhotoIds
    BY <1>1
  <2>3. Cardinality(LivePhotos(s, a)') <= Cardinality(LivePhotos(s, a) \cup {p})
    BY <1>1, <2>1, <2>2, FewerPhotos
  <2>4. IsFiniteSet(LivePhotos(s, a))
    BY <1>1, FinitelyManyPhotos, FS_Subset
  <2>5. Cardinality(LivePhotos(s, a) \cup {p}) \in
           {Cardinality(LivePhotos(s, a)), Cardinality(LivePhotos(s, a)) + 1}
    BY <2>4, FS_AddElement
  <2>6. /\ Cardinality(LivePhotos(s, a)) \in Nat
        /\ Cardinality(LivePhotos(s, a)') \in Nat
    BY <1>1, FewerPhotos
  <2> QED
    BY <1>4, <2>3, <2>5, <2>6, BoundsAssumption
<1> QED
  BY <1>3, <1>4, LivePhotosStep

LEMMA LimitInvariant == Spec => []LimitInv
<1>1. Init => LimitInv
  BY LimitInit
<1>2. TypeOK /\ UploadInv /\ SignatureInv /\ LimitInv /\ [Next]_vars => LimitInv'
  BY LimitStep DEF SignatureInv
<1> QED
  BY <1>1, <1>2, UploadInvariant, SignatureInvariant, PTL DEF Spec

(* The limit counts uploads in flight, so no number of them started at once  *)
(* leaves an attempt with more live photos than it allows.                   *)
THEOREM LimitOfPhotosIsKept ==
    ASSUME ~LegacyJob
    PROVE  Spec => []PhotosWithinLimit
<1>1. LimitInv => PhotosWithinLimit
  BY DEF LimitInv
<1> QED
  BY <1>1, LimitInvariant, PTL

-----------------------------------------------------------------------------
(* The gate a step is judged by, once it was submitted or done.              *)

\* What the completion gate asks of the photos and measurements of a step.
PassesGate(s) ==
    /\ Cardinality(ReadyPhotos(s, RelevantAttempt(s))) >= RequiredPhotos[s]
    /\ s \in MeasuredSteps => <<s, RelevantAttempt(s)>> \in measured

\* A step that left its first attempt, or left it once, passes: a step that
\* is redone is judged by what it was done with before.
TouchedStepsPass ==
    \A s \in Steps :
       \/ steps[s].status = "PENDING" /\ steps[s].attempt = 1
       \/ PassesGate(s)

\* Only STOP steps are decided on.
OrdinaryStepsUndecided ==
    \A s \in Steps \ StopSteps, a \in Attempts : approvals[s][a] = "NONE"

GateInv ==
    /\ OrdinaryStepsUndecided
    /\ ~LegacyJob /\ "LOSS" \notin Faults => TouchedStepsPass

LEMMA GateInit == Init => GateInv
<1> SUFFICES ASSUME Init
             PROVE  GateInv
  OBVIOUS
<1>1. OrdinaryStepsUndecided
  BY DEF Init, FreshInit, LegacyInit, OrdinaryStepsUndecided
<1>2. ~LegacyJob => TouchedStepsPass
  BY DEF Init, FreshInit, TouchedStepsPass
<1> QED
  BY <1>1, <1>2 DEF GateInv

(* The steps that touch the checklist of a job.                              *)
ChecklistEffect ==
    \/ UNCHANGED <<steps, approvals, measured>>
    \/ ChecklistActions
    \/ StopActions

LEMMA ChecklistStep == [Next]_vars => ChecklistEffect
<1> SUFFICES ASSUME [Next]_vars
             PROVE  ChecklistEffect
  OBVIOUS
<1> USE DEF ChecklistEffect, checklistVars
<1>1. CASE UNCHANGED vars
  BY <1>1 DEF vars
<1>2. CASE JobActions
  BY <1>2 DEF JobActions, CreateJob, StartJob, UpdateInstallation,
              CancelJob, Reassign, Unassign, EditRegistry
<1>3. CASE RiskActions
  BY <1>3 DEF RiskActions, CreateRisk, ResolveRisk, ReviseRisk, ActivateMatrix,
              RetireMatrix
<1>4. CASE EvidenceActions
  <2>1. UNCHANGED <<steps, approvals, measured>>
    BY <1>4 DEF EvidenceActions, RegisterPhoto, RegisterSignature, UploadStep,
                PutObject, PutObjectFails, MarkFailed, FinalizeUpload,
                DeleteObject, UploadDies, LoseObject, Reconcile, PromoteLegacy,
                FailLegacy, FailLost, FailStale, Reconciled
  <2> QED
    BY <2>1
<1>5. CASE CompletionActions
  <2>1. UNCHANGED <<steps, approvals, measured>>
    BY <1>5 DEF CompletionActions, CheckClose, CheckConfirm, VerifyObjects,
                AbandonRequest, Advance, CloseJob, SubmitForReview,
                ConfirmQuality, Complete, ReopenJob
  <2> QED
    BY <2>1
<1> QED
  BY <1>1, <1>2, <1>3, <1>4, <1>5 DEF Next

LEMMA UndecidedStep ==
    ASSUME TypeOK, OrdinaryStepsUndecided, [Next]_vars
    PROVE  OrdinaryStepsUndecided'
<1> USE DEF OrdinaryStepsUndecided
<1>1. CASE UNCHANGED approvals
  BY <1>1
<1>2. ASSUME NEW u \in Users, NEW s \in Steps, CompleteStep(u, s)
      PROVE  OrdinaryStepsUndecided'
  <2>1. CASE s \in StopSteps
    <3>1. approvals' = [approvals EXCEPT ![s][steps[s].attempt] = "PENDING"]
      BY <1>2, <2>1 DEF CompleteStep, SubmitStop
    <3> QED
      BY <2>1, <3>1 DEF TypeOK
  <2>2. CASE s \notin StopSteps
    BY <1>1, <1>2, <2>2 DEF CompleteStep, FinishStep
  <2> QED
    BY <2>1, <2>2
<1>3. ASSUME NEW s \in Steps, NEW a \in Attempts, ApproveStop(s, a) \/ RejectStop(s, a)
      PROVE  OrdinaryStepsUndecided'
  <2>1. PICK decision : approvals' = [approvals EXCEPT ![s][a] = decision]
    BY <1>3 DEF ApproveStop, RejectStop
  <2>2. approvals[s][a] = "PENDING"
    BY <1>3 DEF ApproveStop, RejectStop, PendingStop
  <2>3. s \in StopSteps
    BY <2>2
  <2> QED
    BY <2>1, <2>3 DEF TypeOK
<1>4. CASE ChecklistActions
  BY <1>1, <1>2, <1>4 DEF ChecklistActions, AssignChecklist, RedoStep
<1>5. CASE StopActions
  BY <1>1, <1>3, <1>5 DEF StopActions, ReworkStop
<1> QED
  BY <1>1, <1>4, <1>5, ChecklistStep DEF ChecklistEffect

(* Of a job opened here an accepted photo stays accepted, as long as the     *)
(* storage loses nothing.                                                    *)
LEMMA AcceptedPhotosStay ==
    ASSUME TypeOK, UploadInv, NothingUnverified, "LOSS" \notin Faults, [Next]_vars
    PROVE  \A s \in Steps, a \in Attempts :
              ReadyPhotos(s, a) \subseteq ReadyPhotos(s, a)'
<1>0. RowsKeepTheirOrigin
  BY OriginStep
<1> SUFFICES ASSUME NEW p \in PhotoIds, photos[p].status = "READY"
             PROVE  photos'[p].status = "READY"
  BY <1>0 DEF ReadyPhotos, RowsKeepTheirOrigin
<1>1. HasStatus(p, "READY") /\ p \in EvidenceIds
  BY IdsAreApart DEF HasStatus
<1>2. HasStatus(p, "READY")'
  <2> USE DEF EvidenceStatuses
  <2>1. CASE UNCHANGED <<photos, signatures>>
    BY <1>1, <2>1 DEF HasStatus
  <2>2. CASE (\E s \in Steps : RegisterPhoto(s)) \/ RegisterSignature
    <3>1. PICK e \in EvidenceIds :
             /\ HasStatus(e, "NONE")
             /\ \A f \in EvidenceIds, x \in EvidenceStatuses :
                  HasStatus(f, x)' <=> IF f = e THEN x = "PENDING" ELSE HasStatus(f, x)
      BY <2>2, RegisterEffect
    <3>2. p # e
      BY <1>1, <3>1 DEF HasStatus
    <3> QED
      BY <1>1, <3>1, <3>2
  <2>3. ASSUME NEW e \in EvidenceIds, Settles(e)
        PROVE  HasStatus(p, "READY")'
    <3>1. PICK to \in {"READY", "FAILED"} :
            /\ SetStatus(e, to)
            /\ HasStatus(e, "PENDING") \/ HasStatus(e, "UNVERIFIED") \/ objects[e] # "STORED"
            /\ HasStatus(e, "PENDING") \/ HasStatus(e, "UNVERIFIED") \/ HasStatus(e, "READY")
      BY <2>3 DEF Settles, Moves
    <3>2. objects[p] = "STORED"
      BY <1>1 DEF UploadInv, ReadyImpliesStored
    <3>3. p # e
      BY <1>1, <3>1, <3>2 DEF HasStatus
    <3>4. \A f \in EvidenceIds, x \in EvidenceStatuses :
             HasStatus(f, x)' <=> IF f = e THEN to = x ELSE HasStatus(f, x)
      BY <3>1, SetStatusEffect
    <3> QED
      BY <1>1, <3>3, <3>4
  <2>4. ASSUME NEW t \in Seconds, ReopenJob(t)
        PROVE  HasStatus(p, "READY")'
    BY <1>1, <2>4, ReopenEffect
  <2> QED
    BY <2>1, <2>2, <2>3, <2>4, EvidenceStep DEF EvidenceEffect
<1> QED
  BY <1>2 DEF HasStatus

(* Which attempt a step is judged by depends on which were submitted.        *)
LEMMA RelevantAttemptKept ==
    ASSUME NEW s \in Steps,
           \A a \in Attempts : approvals'[s][a] = "NONE" <=> approvals[s][a] = "NONE"
    PROVE  RelevantAttempt(s)' = RelevantAttempt(s)
<1>1. {a \in Attempts : approvals'[s][a] # "NONE"}
        = {a \in Attempts : approvals[s][a] # "NONE"}
  OBVIOUS
<1> QED
  BY <1>1 DEF RelevantAttempt

(* A step keeps passing while its attempt stands and nothing is taken away.  *)
LEMMA PassingStays ==
    ASSUME TypeOK, TypeOK', NEW s \in Steps, PassesGate(s),
           RelevantAttempt(s)' = RelevantAttempt(s),
           ReadyPhotos(s, RelevantAttempt(s))
             \subseteq (ReadyPhotos(s, RelevantAttempt(s)))',
           measured \subseteq measured'
    PROVE  PassesGate(s)'
<1>1. /\ ReadyPhotos(s, RelevantAttempt(s)) \in SUBSET PhotoIds
      /\ (ReadyPhotos(s, RelevantAttempt(s)))' \in SUBSET PhotoIds
  BY DEF ReadyPhotos
<1>2. /\ Cardinality(ReadyPhotos(s, RelevantAttempt(s))) \in Nat
      /\ Cardinality(ReadyPhotos(s, RelevantAttempt(s))') \in Nat
      /\ Cardinality(ReadyPhotos(s, RelevantAttempt(s)))
           <= Cardinality(ReadyPhotos(s, RelevantAttempt(s))')
  BY <1>1, FewerPhotos
<1>3. RequiredPhotos[s] \in Nat
  BY TemplateAssumption
<1> QED
  BY <1>2, <1>3 DEF PassesGate

\* What a step that takes nothing away leaves to prove of each step.
NothingTakenAway ==
    /\ \A s \in Steps, a \in Attempts : ReadyPhotos(s, a) \subseteq ReadyPhotos(s, a)'
    /\ measured \subseteq measured'

(* A step sent for a decision is judged by the attempt it was sent with.     *)
LEMMA SubmittedAttemptIsRelevant ==
    ASSUME TypeOK, WorkflowInv, NEW s \in StopSteps, NEW u \in Users, CompleteStep(u, s)
    PROVE  RelevantAttempt(s)' = steps[s].attempt
<1> DEFINE n == steps[s].attempt
           submitted == {b \in Attempts : approvals'[s][b] # "NONE"}
<1>1. /\ s \in Steps /\ n \in Attempts /\ n \in Nat /\ steps[s].status = "PENDING"
      /\ approvals' = [approvals EXCEPT ![s][n] = "PENDING"]
  BY TemplateAssumption DEF CompleteStep, ReadyToComplete, SubmitStop, TypeOK,
                            StepRows, Attempts
<1>2. n \in submitted
  BY <1>1 DEF TypeOK
<1>3. \A b \in submitted : b <= n
  <2> SUFFICES ASSUME NEW b \in Attempts, b > n
               PROVE  approvals'[s][b] = "NONE"
    BY <1>1 DEF Attempts
  <2>1. approvals[s][b] = "NONE"
    BY <1>1 DEF WorkflowInv, UnsubmittedAttemptsOpen
  <2>2. b # n
    BY <1>1 DEF Attempts
  <2> QED
    BY <1>1, <2>1, <2>2 DEF TypeOK
<1>4. submitted \in SUBSET (0..MaxAttempt) /\ MaxAttempt \in Nat
  BY BoundsAssumption DEF Attempts
<1>5. /\ LatestIn(submitted) \in submitted
      /\ \A b \in submitted : b <= LatestIn(submitted)
  BY <1>2, <1>4, LatestInIsGreatest
<1>6. LatestIn(submitted) = n
  <2>1. LatestIn(submitted) <= n /\ n <= LatestIn(submitted)
    BY <1>2, <1>3, <1>5
  <2>2. LatestIn(submitted) \in Nat
    BY <1>4, <1>5
  <2> HIDE DEF submitted, n
  <2> QED
    BY <1>1, <2>1, <2>2
<1> QED
  BY <1>2, <1>6 DEF RelevantAttempt

(* A step passes when it is completed or sent for a decision.                *)
LEMMA CompletedStepPasses ==
    ASSUME TypeOK, TypeOK', WorkflowInv, OrdinaryStepsUndecided, TouchedStepsPass,
           NothingTakenAway, NEW u \in Users, NEW s \in Steps, CompleteStep(u, s)
    PROVE  PassesGate(s)'
<1>0. steps[s].attempt \in Attempts
  BY DEF TypeOK, StepRows
<1> PICK n \in Attempts : n = steps[s].attempt
  BY <1>0
<1>1. /\ steps[s].status = "PENDING"
      /\ Cardinality(ReadyPhotos(s, n)) >= RequiredPhotos[s]
      /\ s \in MeasuredSteps => <<s, n>> \in measured'
  BY DEF CompleteStep, ReadyToComplete
<1>2. ASSUME RelevantAttempt(s)' = n
      PROVE  PassesGate(s)'
  <2>1. /\ ReadyPhotos(s, n)' \in SUBSET PhotoIds
        /\ ReadyPhotos(s, n) \in SUBSET (ReadyPhotos(s, n)')
    BY DEF ReadyPhotos, NothingTakenAway
  <2>2. /\ Cardinality(ReadyPhotos(s, n)) <= Cardinality(ReadyPhotos(s, n)')
        /\ Cardinality(ReadyPhotos(s, n)) \in Nat
        /\ Cardinality(ReadyPhotos(s, n)') \in Nat
    BY <2>1, FewerPhotos
  <2>3. RequiredPhotos[s] \in Nat
    BY TemplateAssumption
  <2>4. ReadyPhotos(s, RelevantAttempt(s))' = ReadyPhotos(s, n)'
    BY <1>2 DEF ReadyPhotos
  <2> QED
    BY <1>1, <1>2, <2>2, <2>3, <2>4 DEF PassesGate
<1>3. CASE s \in StopSteps
  BY <1>2, <1>3, SubmittedAttemptIsRelevant
<1>4. CASE s \notin StopSteps
  <2>1. approvals' = approvals
    BY <1>4 DEF CompleteStep, FinishStep
  <2>2. {a \in Attempts : approvals[s][a] # "NONE"} = {}
    BY <1>4 DEF OrdinaryStepsUndecided
  <2>3. RelevantAttempt(s) = 1 /\ RelevantAttempt(s)' = 1
    BY <2>1, <2>2 DEF RelevantAttempt
  <2>4. CASE n = 1
    BY <1>2, <2>3, <2>4
  <2>5. CASE n # 1
    <3>1. PassesGate(s)
      BY <1>1, <2>5 DEF TouchedStepsPass
    <3>2. 1 \in Attempts
      BY BoundsAssumption DEF Attempts
    <3>3. ReadyPhotos(s, RelevantAttempt(s)) \subseteq (ReadyPhotos(s, RelevantAttempt(s)))'
      BY <2>3, <3>2 DEF NothingTakenAway, ReadyPhotos
    <3> QED
      BY <2>3, <3>1, <3>3, PassingStays DEF NothingTakenAway
  <2> QED
    BY <2>4, <2>5
<1> QED
  BY <1>3, <1>4

(* What passes passes on, and what is touched passes.                        *)
LEMMA GateStep ==
    ASSUME TypeOK, UploadInv, SignatureInv, WorkflowInv, GateInv, [Next]_vars
    PROVE  GateInv'
<1> USE DEF GateInv
<1>1. OrdinaryStepsUndecided'
  BY UndecidedStep
<1> SUFFICES ASSUME ~LegacyJob, "LOSS" \notin Faults
             PROVE  TouchedStepsPass'
  BY <1>1
<1>2. TypeOK'
  BY TypeStep
<1>3. NothingTakenAway
  <2>1. measured \subseteq measured'
    BY ChecklistStep DEF ChecklistEffect, ChecklistActions, AssignChecklist,
       CompleteStep, RedoStep, StopActions, ApproveStop, RejectStop, ReworkStop
  <2> QED
    BY <2>1, AcceptedPhotosStay DEF NothingTakenAway, SignatureInv
<1>4. ASSUME NEW s \in Steps, PassesGate(s),
             \A a \in Attempts : approvals'[s][a] = "NONE" <=> approvals[s][a] = "NONE"
      PROVE  PassesGate(s)'
  <2>1. RelevantAttempt(s)' = RelevantAttempt(s)
    BY <1>4, RelevantAttemptKept
  <2>2. PICK a \in Attempts : a = RelevantAttempt(s)
    BY RelevantAttemptType
  <2>3. ReadyPhotos(s, RelevantAttempt(s)) \subseteq (ReadyPhotos(s, RelevantAttempt(s)))'
    BY <1>3, <2>1, <2>2 DEF NothingTakenAway, ReadyPhotos
  <2> QED
    BY <1>2, <1>3, <1>4, <2>1, <2>3, PassingStays DEF NothingTakenAway
<1>5. CASE UNCHANGED <<steps, approvals, measured>>
  BY <1>4, <1>5 DEF TouchedStepsPass
<1>6. CASE AssignChecklist
  BY <1>6 DEF AssignChecklist, TouchedStepsPass
<1>7. ASSUME NEW u \in Users, NEW s \in Steps, CompleteStep(u, s)
      PROVE  TouchedStepsPass'
  <2>1. PassesGate(s)'
    BY <1>2, <1>3, <1>7, CompletedStepPasses
  <2>2. \A t \in Steps \ {s} : steps'[t] = steps[t] /\ approvals'[t] = approvals[t]
    BY <1>7 DEF CompleteStep, SubmitStop, FinishStep, TypeOK
  <2> QED
    BY <1>4, <2>1, <2>2 DEF TouchedStepsPass
<1>8. ASSUME NEW s \in Steps, RedoStep(s) \/ ReworkStop(s)
      PROVE  TouchedStepsPass'
  <2>1. /\ approvals' = approvals /\ steps[s].status # "PENDING"
        /\ \A t \in Steps \ {s} : steps'[t] = steps[t]
    BY <1>8 DEF RedoStep, ReworkStop, TypeOK, DoneStatuses
  <2>2. PassesGate(s)
    BY <2>1 DEF TouchedStepsPass
  <2> QED
    BY <1>4, <2>1, <2>2 DEF TouchedStepsPass
<1>9. ASSUME NEW s \in Steps, NEW a \in Attempts, ApproveStop(s, a) \/ RejectStop(s, a)
      PROVE  TouchedStepsPass'
  <2>1. PICK decision \in {"APPROVED", "REJECTED"} :
          approvals' = [approvals EXCEPT ![s][a] = decision]
    BY <1>9 DEF ApproveStop, RejectStop
  <2>2. /\ approvals[s][a] = "PENDING" /\ steps[s].status # "PENDING"
        /\ \A t \in Steps \ {s} : steps'[t] = steps[t]
    BY <1>9 DEF ApproveStop, RejectStop, PendingStop, TypeOK
  <2>3. \A t \in Steps, b \in Attempts :
           approvals'[t][b] = "NONE" <=> approvals[t][b] = "NONE"
    BY <2>1, <2>2 DEF TypeOK
  <2>4. PassesGate(s)
    BY <2>2 DEF TouchedStepsPass
  <2> QED
    BY <1>4, <2>2, <2>3, <2>4 DEF TouchedStepsPass
<1> QED
  BY <1>5, <1>6, <1>7, <1>8, <1>9, ChecklistStep
     DEF ChecklistEffect, ChecklistActions, StopActions

LEMMA GateInvariant == Spec => []GateInv
<1>1. Init => GateInv
  BY GateInit
<1>2. TypeOK /\ UploadInv /\ SignatureInv /\ WorkflowInv /\ GateInv /\ [Next]_vars
        => GateInv'
  BY GateStep
<1> QED
  BY <1>1, <1>2, UploadInvariant, SignatureInvariant, WorkflowInvariant, PTL DEF Spec

(* A step that was accepted never fails the photo and measurement parts of   *)
(* the completion gate afterwards, not even while it is redone, as long as   *)
(* the storage keeps what it acknowledged: finished work cannot be stranded. *)
THEOREM DoneWorkPassesTheGate ==
    ASSUME ~LegacyJob, "LOSS" \notin Faults
    PROVE  Spec => []DoneStepsPassTheGate
<1>1. GateInv => DoneStepsPassTheGate
  BY DEF GateInv, TouchedStepsPass, PassesGate, DoneStepsPassTheGate, DoneStatuses
<1> QED
  BY <1>1, GateInvariant, PTL

-----------------------------------------------------------------------------
(* What was decided on.                                                      *)
SubmittedShrinks ==
    \A s \in Steps, a \in Attempts :
       approvals[s][a] # "NONE" => ReadyPhotos(s, a)' \subseteq ReadyPhotos(s, a)

(* An upload is accepted only while its attempt is open, and an open attempt *)
(* was not submitted.                                                        *)
LEMMA ShrinksStep ==
    ASSUME TypeOK, UploadInv, SignatureInv, WorkflowInv, ~LegacyJob, [Next]_vars
    PROVE  SubmittedShrinks
<1> SUFFICES ASSUME NEW s \in Steps, NEW a \in Attempts, approvals[s][a] # "NONE",
                    NEW p \in ReadyPhotos(s, a)'
             PROVE  p \in ReadyPhotos(s, a)
  BY DEF SubmittedShrinks
<1> USE DEF ReadyPhotos, EvidenceStatuses
<1>1. /\ p \in PhotoIds /\ p \in EvidenceIds /\ photos'[p].status = "READY"
      /\ photos'[p].step = s /\ photos'[p].attempt = a
  BY IdsAreApart
<1>2. photos \in [PhotoIds -> PhotoRows]
  BY DEF TypeOK
<1>3. CASE UNCHANGED photos
  BY <1>1, <1>3
<1>4. ASSUME NEW t \in Steps, RegisterPhoto(t)
      PROVE  p \in ReadyPhotos(s, a)
  <2> DEFINE row == [status |-> "PENDING", step |-> t, attempt |-> steps[t].attempt]
  <2>1. photos' = [photos EXCEPT ![LowestIn(UnusedPhotos)] = row]
    BY <1>4 DEF RegisterPhoto
  <2>2. row.status = "PENDING"
    OBVIOUS
  <2> HIDE DEF row
  <2>3. p # LowestIn(UnusedPhotos)
    BY <1>1, <1>2, <2>1, <2>2
  <2> QED
    BY <1>1, <1>2, <2>1, <2>3
<1>5. CASE RegisterSignature
  BY <1>3, <1>5 DEF RegisterSignature
<1>6. ASSUME NEW e \in EvidenceIds, Settles(e)
      PROVE  p \in ReadyPhotos(s, a)
  <2>1. PICK to \in {"READY", "FAILED"} :
          /\ SetStatus(e, to)
          /\ to = "READY" => HasStatus(e, "PENDING") /\ StillValid(e)
    BY <1>6 DEF Settles, Moves, SignatureInv, NothingUnverified
  <2>2. CASE UNCHANGED photos
    BY <1>3, <2>2
  <2>3. CASE e \in PhotoIds /\ photos' = [photos EXCEPT ![e].status = to]
    <3>1. CASE p # e
      BY <1>1, <1>2, <2>3, <3>1
    <3>2. CASE p = e
      <4>1. to = "READY" /\ photos[p].step = s /\ photos[p].attempt = a
        BY <1>1, <1>2, <2>3, <3>2 DEF PhotoRows
      <4>2. steps[s] = [status |-> "PENDING", attempt |-> a]
        BY <1>1, <2>1, <3>2, <4>1 DEF StillValid
      <4>3. approvals[s][a] = "NONE"
        BY <4>2 DEF WorkflowInv, UnsubmittedAttemptsOpen
      <4> QED
        BY <4>3
    <3> QED
      BY <3>1, <3>2
  <2> QED
    BY <2>1, <2>2, <2>3 DEF SetStatus
<1>7. ASSUME NEW t \in Seconds, ReopenJob(t)
      PROVE  p \in ReadyPhotos(s, a)
  BY <1>3, <1>7 DEF ReopenJob
<1> QED
  BY <1>3, <1>4, <1>5, <1>6, <1>7, EvidenceStep DEF EvidenceEffect

(* What the master decided on can be lost, never added to: no upload in      *)
(* flight, however late it ends, is accepted for an attempt that was         *)
(* submitted.                                                                *)
THEOREM SubmittedEvidenceIsClosed ==
    ASSUME ~LegacyJob
    PROVE  Spec => SubmittedEvidenceOnlyShrinks
<1>1. TypeOK /\ UploadInv /\ SignatureInv /\ WorkflowInv /\ [Next]_vars
        => [SubmittedShrinks]_vars
  BY ShrinksStep
<1>2. Spec => [][SubmittedShrinks]_vars
  BY <1>1, UploadInvariant, SignatureInvariant, WorkflowInvariant, PTL DEF Spec
<1>3. [][SubmittedShrinks]_vars <=> SubmittedEvidenceOnlyShrinks
  BY PTL DEF SubmittedEvidenceOnlyShrinks, SubmittedShrinks
<1> QED
  BY <1>2, <1>3, PTL
=============================================================================
