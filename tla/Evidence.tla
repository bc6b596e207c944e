------------------------------ MODULE Evidence ------------------------------
(* photos.service.ts and saveSignature of completion.service.ts: an upload   *)
(* registers a PENDING row in one transaction, writes the object outside any *)
(* transaction, and finalizes the row in a second one; and evidence          *)
(* reconciliation, which runs beside it (reconcile.service.ts).              *)
EXTENDS JobState

SetStatus(e, status) ==
    \/ /\ e \in PhotoIds
       /\ photos' = [photos EXCEPT ![e].status = status]
       /\ UNCHANGED signatures
    \/ /\ e \in SignatureIds
       /\ signatures' = [signatures EXCEPT ![e].status = status]
       /\ UNCHANGED photos

HasStatus(e, status) ==
    IF e \in PhotoIds THEN photos[e].status = status
                      ELSE signatures[e].status = status

\* Mutant: uploads in flight do not count toward the limit.
FinishedPhotos(s, a) == ReadyPhotos(s, a)

\* The photos of an attempt that count toward the limit.
LivePhotos(s, a) ==
    {p \in PhotoIds : /\ photos[p].status \in {"PENDING", "READY"}
                      /\ photos[p].step = s
                      /\ photos[p].attempt = a}

\* uploadStepPhoto, first transaction.
RegisterPhoto(s) ==
    LET a == steps[s].attempt
        p == LowestIn(UnusedPhotos)
    IN  /\ IsWorkable
        /\ checklist # "NONE"
        /\ steps[s].status = "PENDING"
        /\ Cardinality(LivePhotos(s, a)) < MAX_PHOTOS_PER_ATTEMPT
        /\ UnusedPhotos # {}
        /\ photos' = [photos EXCEPT ![p] =
                         [status |-> "PENDING", step |-> s, attempt |-> a]]
        /\ uploads' = [uploads EXCEPT ![p] = "PUTTING"]
        /\ UNCHANGED <<job, checklistVars, signatures, objects, risks,
                       snapshots, environmentVars, requests>>

\* Mutant: a signature in flight does not block another one.
AcceptedSignatures ==
    {g \in SignatureIds : /\ signatures[g].cycle = job.cycle
                          /\ signatures[g].status = "READY"
                          /\ ~signatures[g].superseded}

\* The signature rows of this cycle that block, or are replaced by, a new one.
LiveSignatures ==
    {g \in SignatureIds : /\ signatures[g].cycle = job.cycle
                          /\ signatures[g].status \in {"PENDING", "READY"}
                          /\ ~signatures[g].superseded}

\* A READY signature whose digest no longer matches the work.
IsStaleSignature(g) ==
    signatures[g].status = "READY" /\ signatures[g].digest # Summary

\* saveSignature, first transaction: the latest live signature blocks a new
\* one while it is in flight or still matches, and is superseded otherwise.
RegisterSignature ==
    LET latest == LatestIn(LiveSignatures)
        g == LowestIn(UnusedSignatures)
        others == IF LiveSignatures = {}
                    THEN signatures
                    ELSE [signatures EXCEPT ![latest].superseded = TRUE]
    IN  /\ IsWorkable
        /\ checklist = "COMPLETE"
        /\ LiveSignatures # {} => IsStaleSignature(latest)
        /\ UnusedSignatures # {}
        /\ signatures' = [others EXCEPT ![g] =
                             [status |-> "PENDING", cycle |-> job.cycle,
                              superseded |-> FALSE, digest |-> Summary]]
        /\ uploads' = [uploads EXCEPT ![g] = "PUTTING"]
        /\ UNCHANGED <<job, checklistVars, photos, objects, risks, snapshots,
                       environmentVars, requests>>

-----------------------------------------------------------------------------
(* The storage calls.  A failed put may have written the object, or a part   *)
(* of it, before the error.                                                  *)
PutObject(e) ==
    /\ uploads[e] = "PUTTING"
    /\ objects' = [objects EXCEPT ![e] = "STORED"]
    /\ uploads' = [uploads EXCEPT ![e] = "PUT_OK"]
    /\ UNCHANGED <<job, checklistVars, photos, signatures, risks, snapshots,
                   environmentVars, requests>>

\* Mutant: the size the storage reports is not compared.
PutObjectFailsUnseen(e) ==
    /\ "PUT_FAIL" \in Faults
    /\ uploads[e] = "PUTTING"
    /\ uploads' = [uploads EXCEPT ![e] = "PUT_OK"]
    /\ UNCHANGED <<job, checklistVars, photos, signatures, objects, risks,
                   snapshots, environmentVars, requests>>

PutObjectFails(e) ==
    /\ "PUT_FAIL" \in Faults
    /\ uploads[e] = "PUTTING"
    /\ \E left \in {"ABSENT", "STORED"} : objects' = [objects EXCEPT ![e] = left]
    /\ uploads' = [uploads EXCEPT ![e] = "PUT_FAILED"]
    /\ UNCHANGED <<job, checklistVars, photos, signatures, risks, snapshots,
                   environmentVars, requests>>

\* Mutant: the row of a failed put is left as it is.
ForgetFailedPut(e) ==
    /\ uploads[e] = "PUT_FAILED"
    /\ uploads' = [uploads EXCEPT ![e] = "IDLE"]
    /\ UNCHANGED <<job, checklistVars, photos, signatures, objects, risks,
                   snapshots, environmentVars, requests>>

\* markPhotoFailed and markSignatureFailed.
MarkFailed(e) ==
    /\ uploads[e] = "PUT_FAILED"
    /\ IF HasStatus(e, "PENDING") THEN SetStatus(e, "FAILED")
                                  ELSE UNCHANGED <<photos, signatures>>
    /\ uploads' = [uploads EXCEPT ![e] = "IDLE"]
    /\ UNCHANGED <<job, checklistVars, objects, risks, snapshots,
                   environmentVars, requests>>

\* Mutant: the job is looked at again, the step and its attempt are not.
StillWorkable(e) ==
    IsWorkable /\ (e \in SignatureIds => signatures[e].cycle = job.cycle)

\* Whether the work the row was registered for is still the current work.
StillValid(e) ==
    /\ IsWorkable
    /\ IF e \in PhotoIds
         THEN steps[photos[e].step] = [status |-> "PENDING",
                                       attempt |-> photos[e].attempt]
         ELSE signatures[e].cycle = job.cycle

\* Mutant: a row that reconciliation failed meanwhile is accepted.
FinalizeAnyStatus(e) ==
    /\ uploads[e] = "PUT_OK"
    /\ SetStatus(e, IF StillValid(e) THEN "READY" ELSE "FAILED")
    /\ uploads' = [uploads EXCEPT ![e] =
                      IF StillValid(e) THEN "IDLE" ELSE "DELETING"]
    /\ UNCHANGED <<job, checklistVars, objects, risks, snapshots,
                   environmentVars, requests>>

\* Mutant: the object of a row that was failed meanwhile is left behind.
FinalizeWithoutDelete(e) ==
    /\ uploads[e] = "PUT_OK"
    /\ IF HasStatus(e, "PENDING")
         THEN SetStatus(e, IF StillValid(e) THEN "READY" ELSE "FAILED")
         ELSE UNCHANGED <<photos, signatures>>
    /\ uploads' = [uploads EXCEPT ![e] =
                      IF HasStatus(e, "PENDING") /\ ~StillValid(e)
                        THEN "DELETING" ELSE "IDLE"]
    /\ UNCHANGED <<job, checklistVars, objects, risks, snapshots,
                   environmentVars, requests>>

\* The second transaction of both uploads: READY, or FAILED (superseded).
FinalizeUpload(e) ==
    /\ uploads[e] = "PUT_OK"
    /\ IF HasStatus(e, "PENDING")
         THEN SetStatus(e, IF StillValid(e) THEN "READY" ELSE "FAILED")
         ELSE UNCHANGED <<photos, signatures>>
    /\ uploads' = [uploads EXCEPT ![e] =
                      IF HasStatus(e, "PENDING") /\ StillValid(e)
                        THEN "IDLE" ELSE "DELETING"]
    /\ UNCHANGED <<job, checklistVars, objects, risks, snapshots,
                   environmentVars, requests>>

\* The refused object is deleted, best effort.
DeleteObject(e) ==
    /\ uploads[e] = "DELETING"
    /\ \/ objects' = [objects EXCEPT ![e] = "ABSENT"]
       \/ "DELETE_FAIL" \in Faults /\ UNCHANGED objects
    /\ uploads' = [uploads EXCEPT ![e] = "IDLE"]
    /\ UNCHANGED <<job, checklistVars, photos, signatures, risks, snapshots,
                   environmentVars, requests>>

\* The server stops, or the database refuses the next transaction of the
\* request: nothing more of it happens.
UploadDies(e) ==
    /\ "CRASH" \in Faults
    /\ uploads[e] # "IDLE"
    /\ uploads' = [uploads EXCEPT ![e] = "IDLE"]
    /\ UNCHANGED <<job, checklistVars, photos, signatures, objects, risks,
                   snapshots, environmentVars, requests>>

\* The storage loses or damages the object of an accepted row (external).
LoseObject(e) ==
    /\ "LOSS" \in Faults
    /\ HasStatus(e, "READY")
    /\ objects[e] = "STORED"
    /\ \E left \in {"ABSENT", "ALTERED"} : objects' = [objects EXCEPT ![e] = left]
    /\ UNCHANGED <<job, checklistVars, photos, signatures, uploads, risks,
                   snapshots, environmentVars, requests>>

-----------------------------------------------------------------------------
(* reconcileEvidence with --apply.  It takes the evidence row's lock and no  *)
(* other.  Nobody writes a storage key twice, so what it read of an object   *)
(* still holds when it updates the row.                                      *)
Reconciled(e, from, to) ==
    /\ HasStatus(e, from)
    /\ SetStatus(e, to)
    /\ UNCHANGED <<job, checklistVars, objects, uploads, risks, snapshots,
                   environmentVars, requests>>

\* verifyLegacy always reads the bytes.
PromoteLegacy(e) ==
    objects[e] = "STORED" /\ Reconciled(e, "UNVERIFIED", "READY")

FailLegacy(e) ==
    objects[e] # "STORED" /\ Reconciled(e, "UNVERIFIED", "FAILED")

\* verifyReady sees altered bytes only with --deep.
FailLost(e, deep) ==
    /\ objects[e] = "ABSENT" \/ (deep /\ objects[e] = "ALTERED")
    /\ Reconciled(e, "READY", "FAILED")

\* A row is stale fifteen minutes after it was registered, whether the upload
\* that owns it is dead or only slow.
FailStale(e) == Reconciled(e, "PENDING", "FAILED")
=============================================================================
