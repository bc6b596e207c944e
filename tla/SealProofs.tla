----------------------------- MODULE SealProofs -----------------------------
(* What a completion freezes, that the job's system implements the ledger of *)
(* completions, and that the risks of a rejected STOP follow its decision.   *)
EXTENDS EvidenceProofs

(* A row that was accepted, or failed, stays one or the other.               *)
LEMMA SettledStays ==
    ASSUME TypeOK, UploadInv, [Next]_vars,
           NEW e \in EvidenceIds, HasStatus(e, "READY") \/ HasStatus(e, "FAILED")
    PROVE  HasStatus(e, "READY")' \/ HasStatus(e, "FAILED")'
<1> USE DEF EvidenceStatuses
<1>1. CASE UNCHANGED <<photos, signatures>>
  BY <1>1 DEF HasStatus
<1>2. CASE (\E s \in Steps : RegisterPhoto(s)) \/ RegisterSignature
  <2>1. PICK f \in EvidenceIds :
             /\ HasStatus(f, "NONE")
             /\ \A h \in EvidenceIds, x \in EvidenceStatuses :
                  HasStatus(h, x)' <=> IF h = f THEN x = "PENDING" ELSE HasStatus(h, x)
    BY <1>2, RegisterEffect
  <2>2. e # f
    BY <2>1 DEF HasStatus
  <2> QED
    BY <2>1, <2>2
<1>3. ASSUME NEW f \in EvidenceIds, Settles(f)
      PROVE  HasStatus(e, "READY")' \/ HasStatus(e, "FAILED")'
  <2>1. PICK to \in {"READY", "FAILED"} : SetStatus(f, to)
    BY <1>3 DEF Settles, Moves
  <2>2. \A h \in EvidenceIds, x \in EvidenceStatuses :
           HasStatus(h, x)' <=> IF h = f THEN to = x ELSE HasStatus(h, x)
    BY <2>1, SetStatusEffect
  <2> QED
    BY <2>2
<1>4. ASSUME NEW t \in Seconds, ReopenJob(t)
      PROVE  HasStatus(e, "READY")' \/ HasStatus(e, "FAILED")'
  BY <1>4, ReopenEffect
<1> QED
  BY <1>1, <1>2, <1>3, <1>4, EvidenceStep DEF EvidenceEffect

-----------------------------------------------------------------------------
(* A completion writes the seal of its cycle, if the cycle has none.         *)
LEMMA SnapshotStep ==
    [Next]_vars =>
      \/ UNCHANGED snapshots
      \/ \E q \in Requests, t \in Seconds : CloseJob(q, t) \/ ConfirmQuality(q, t)
<1> SUFFICES ASSUME [Next]_vars
             PROVE  \/ UNCHANGED snapshots
                    \/ \E q \in Requests, t \in Seconds :
                         CloseJob(q, t) \/ ConfirmQuality(q, t)
  OBVIOUS
<1>1. CASE UNCHANGED vars
  BY <1>1 DEF vars
<1>2. CASE JobActions
  BY <1>2 DEF JobActions, CreateJob, StartJob, UpdateInstallation,
              CancelJob, Reassign, Unassign, EditRegistry
<1>3. CASE ChecklistActions
  BY <1>3 DEF ChecklistActions, AssignChecklist, CompleteStep, RedoStep
<1>4. CASE StopActions
  BY <1>4 DEF StopActions, ApproveStop, RejectStop, ReworkStop
<1>5. CASE RiskActions
  BY <1>5 DEF RiskActions, CreateRisk, ResolveRisk, ReviseRisk, ActivateMatrix,
              RetireMatrix
<1>6. CASE EvidenceActions
  <2>1. UNCHANGED snapshots
    BY <1>6 DEF EvidenceActions, RegisterPhoto, RegisterSignature, UploadStep,
                PutObject, PutObjectFails, MarkFailed, FinalizeUpload,
                DeleteObject, UploadDies, LoseObject, Reconcile, PromoteLegacy,
                FailLegacy, FailLost, FailStale, Reconciled
  <2> QED
    BY <2>1
<1>7. CASE CompletionActions
  BY <1>7 DEF CompletionActions, CheckClose, CheckConfirm, VerifyObjects,
              AbandonRequest, Advance, SubmitForReview, ReopenJob
<1> QED
  BY <1>1, <1>2, <1>3, <1>4, <1>5, <1>6, <1>7 DEF Next

\* What SealNamesItsOwnEvidence says of one seal.
Owns(seal, c) ==
    /\ seal.summary.cycle = c
    /\ signatures[seal.signature].cycle = c
    /\ signatures[seal.signature].status \in {"READY", "FAILED"}
    /\ seal.signedDigest \in {NoDigest, seal.summary}
    /\ \A s \in Steps : \A p \in seal.summary.steps[s].evidence :
         /\ photos[p].step = s
         /\ photos[p].attempt = seal.summary.steps[s].attempt
         /\ photos[p].status \in {"READY", "FAILED"}

SealInv == \A c \in Cycles : snapshots[c] # NoSnapshot => Owns(snapshots[c], c)

(* A seal keeps naming its own evidence.                                     *)
LEMMA OwningStays ==
    ASSUME TypeOK, UploadInv, [Next]_vars,
           NEW seal \in Snapshots, NEW c \in Cycles, Owns(seal, c)
    PROVE  Owns(seal, c)'
<1>1. RowsKeepTheirOrigin
  BY OriginStep
<1>2. seal.signature \in SignatureIds
  BY DEF Snapshots
<1>3. /\ signatures'[seal.signature].cycle = c
      /\ signatures'[seal.signature].status \in {"READY", "FAILED"}
  <2>1. HasStatus(seal.signature, "READY") \/ HasStatus(seal.signature, "FAILED")
    BY <1>2, IdsAreApart DEF Owns, HasStatus
  <2>2. HasStatus(seal.signature, "READY")' \/ HasStatus(seal.signature, "FAILED")'
    BY <1>2, <2>1, SettledStays, IdsAreApart
  <2>3. signatures'[seal.signature].status \in {"READY", "FAILED"}
    BY <1>2, <2>2, IdsAreApart DEF HasStatus
  <2>4. signatures'[seal.signature].cycle = signatures[seal.signature].cycle
    BY <1>1, <1>2 DEF Owns, RowsKeepTheirOrigin
  <2> QED
    BY <2>3, <2>4 DEF Owns
<1>4. ASSUME NEW s \in Steps, NEW p \in seal.summary.steps[s].evidence
      PROVE  /\ photos'[p].step = s
             /\ photos'[p].attempt = seal.summary.steps[s].attempt
             /\ photos'[p].status \in {"READY", "FAILED"}
  <2>1. p \in PhotoIds /\ p \in EvidenceIds
    BY IdsAreApart DEF Snapshots, Summaries
  <2>2. /\ photos[p].step = s
        /\ photos[p].attempt = seal.summary.steps[s].attempt
        /\ photos[p].status \in {"READY", "FAILED"}
    BY DEF Owns
  <2>3. HasStatus(p, "READY")' \/ HasStatus(p, "FAILED")'
    BY <2>1, <2>2, SettledStays DEF HasStatus
  <2> QED
    BY <1>1, <2>1, <2>2, <2>3 DEF RowsKeepTheirOrigin, HasStatus
<1> QED
  BY <1>3, <1>4 DEF Owns

(* What a completion freezes is its own when it is frozen.                   *)
LEMMA CompletionOwns ==
    ASSUME TypeOK, NEW q \in Requests, NEW t \in Seconds, Complete(q, t)
    PROVE  LET g == LatestIn(ActiveSignatures)
               seal == [summary |-> Summary, signature |-> g,
                        signedDigest |-> signatures[g].digest]
           IN  Owns(seal, job.cycle)
<1> DEFINE g == LatestIn(ActiveSignatures)
           seal == [summary |-> Summary, signature |-> g,
                    signedDigest |-> signatures[g].digest]
<1>1. ActiveSignatures # {} /\ SignatureFresh
  BY DEF Complete, AcceptedUnderLock, CanComplete
<1>2. g \in ActiveSignatures
  BY <1>1, ActiveSignatureType
<1>3. /\ signatures[g].cycle = job.cycle /\ signatures[g].status = "READY"
      /\ signatures[g].digest \in {NoDigest, Summary}
  BY <1>1, <1>2 DEF ActiveSignatures, SignatureFresh
<1>4. Summary.cycle = job.cycle
  BY DEF Summary
<1>5. ASSUME NEW s \in Steps
      PROVE  /\ Summary.steps[s].evidence = ReadyPhotos(s, RelevantAttempt(s))
             /\ Summary.steps[s].attempt = RelevantAttempt(s)
  BY DEF Summary
<1>6. ASSUME NEW s \in Steps, NEW p \in Summary.steps[s].evidence
      PROVE  /\ photos[p].step = s
             /\ photos[p].attempt = Summary.steps[s].attempt
             /\ photos[p].status = "READY"
  BY <1>5, <1>6 DEF ReadyPhotos
<1>7. /\ seal.summary = Summary /\ seal.signature = g
      /\ seal.signedDigest = signatures[g].digest
  OBVIOUS
<1> HIDE DEF seal, g
<1>8. Owns(seal, job.cycle)
  BY <1>3, <1>4, <1>6, <1>7 DEF Owns
<1> QED
  BY <1>8 DEF seal, g

LEMMA SealStep ==
    ASSUME TypeOK, UploadInv, SealInv, [Next]_vars
    PROVE  SealInv'
<1>1. ASSUME NEW c \in Cycles, snapshots[c] # NoSnapshot, snapshots'[c] = snapshots[c]
      PROVE  Owns(snapshots[c], c)'
  <2>1. PICK seal \in Snapshots : seal = snapshots[c]
    BY <1>1 DEF TypeOK
  <2>2. Owns(seal, c)'
    BY <1>1, <2>1, OwningStays DEF SealInv
  <2> QED
    BY <1>1, <2>1, <2>2 DEF Owns
<1>2. CASE UNCHANGED snapshots
  BY <1>1, <1>2 DEF SealInv
<1>3. ASSUME NEW q \in Requests, NEW t \in Seconds, Complete(q, t)
      PROVE  SealInv'
  <2> DEFINE g == LatestIn(ActiveSignatures)
             new == [summary |-> Summary, signature |-> g,
                     signedDigest |-> signatures[g].digest]
  <2>1. UNCHANGED <<photos, signatures>> /\ job.cycle \in Cycles
    BY <1>3 DEF Complete, evidenceVars, TypeOK, JobRows
  <2>2. Owns(new, job.cycle)
    BY <1>3, CompletionOwns
  <2>3. \/ UNCHANGED snapshots
        \/ snapshots' = [snapshots EXCEPT ![job.cycle] = new]
    BY <1>3 DEF Complete, FinalizeSnapshot
  <2> HIDE DEF new, g
  <2>4. CASE snapshots' = [snapshots EXCEPT ![job.cycle] = new]
    <3>1. /\ snapshots'[job.cycle] = new
          /\ \A c \in Cycles : c # job.cycle => snapshots'[c] = snapshots[c]
      BY <2>1, <2>4 DEF TypeOK
    <3>2. Owns(snapshots'[job.cycle], job.cycle)
      BY <2>2, <3>1
    <3>3. \A c \in Cycles : snapshots'[c] # NoSnapshot => Owns(snapshots'[c], c)
      BY <3>1, <3>2 DEF SealInv
    <3> QED
      BY <2>1, <3>3 DEF SealInv, Owns
  <2> QED
    BY <1>2, <2>3, <2>4
<1> QED
  BY <1>2, <1>3, SnapshotStep DEF CloseJob, ConfirmQuality

LEMMA SealInvariant == Spec => []SealInv
<1>1. Init => SealInv
  BY DEF Init, SealInv
<1>2. TypeOK /\ UploadInv /\ SealInv /\ [Next]_vars => SealInv'
  BY SealStep
<1> QED
  BY <1>1, <1>2, UploadInvariant, PTL DEF Spec

(* A completion freezes evidence of the right step and attempt, and a        *)
(* signature of its own cycle over exactly what it froze or from before      *)
(* digests; whatever reconciliation does later, the rows it names are still  *)
(* those rows.                                                               *)
THEOREM SealsOwnTheirEvidence == Spec => []SealNamesItsOwnEvidence
<1>1. SealInv => SealNamesItsOwnEvidence
  BY DEF SealInv, Owns, SealNamesItsOwnEvidence
<1> QED
  BY <1>1, SealInvariant, PTL

-----------------------------------------------------------------------------
(* The risks of a rejected STOP.                                             *)

\* One open risk at most for a step and cycle, none for an approved step, and
\* none of a cycle to come.
RiskInv ==
    /\ \A s \in Steps : \A r, q \in OpenStopRisks(s) : r = q
    /\ \A s \in Steps : steps[s].status = "APPROVED" => OpenStopRisks(s) = {}
    /\ \A r \in RiskIds : risks[r].status = "OPEN" => risks[r].cycle <= job.cycle

LEMMA NewRiskWasUnused ==
    UnusedRisks # {} => /\ LowestIn(UnusedRisks) \in RiskIds
                        /\ risks[LowestIn(UnusedRisks)].status = "NONE"
<1>1. UnusedRisks \subseteq Nat
  BY BoundsAssumption DEF UnusedRisks, RiskIds
<1> QED
  BY <1>1, LowestInIsElement DEF UnusedRisks

\* What a step that opens no risk and approves nothing does.
OpensNoRisk ==
    /\ \A r \in RiskIds : risks'[r].status = "OPEN" =>
         /\ risks[r].status = "OPEN"
         /\ risks'[r].source = risks[r].source
         /\ risks'[r].step = risks[r].step
         /\ risks'[r].cycle = risks[r].cycle
    /\ \A s \in Steps : steps'[s].status = "APPROVED" => steps[s].status = "APPROVED"
    /\ job'.cycle = job.cycle

LEMMA OpeningNothingKeepsRisks ==
    ASSUME RiskInv, OpensNoRisk
    PROVE  RiskInv'
<1>1. \A s \in Steps : OpenStopRisks(s)' \subseteq OpenStopRisks(s)
  BY DEF OpensNoRisk, OpenStopRisks
<1>2. \A r \in RiskIds : risks'[r].status = "OPEN" => risks'[r].cycle <= job'.cycle
  BY DEF OpensNoRisk, RiskInv
<1>3. \A s \in Steps : \A r, q \in OpenStopRisks(s)' : r = q
  BY <1>1 DEF RiskInv
<1>4. \A s \in Steps : steps'[s].status = "APPROVED" => OpenStopRisks(s)' = {}
  BY <1>1 DEF RiskInv, OpensNoRisk
<1> QED
  BY <1>2, <1>3, <1>4 DEF RiskInv

(* A revision replaces one risk by one of the same step and cycle.           *)
LEMMA RevisionKeepsRisks ==
    ASSUME TypeOK, RiskInv, NEW r \in RiskIds, NEW blocking \in BOOLEAN,
           ReviseRisk(r, blocking)
    PROVE  RiskInv'
<1> PICK n \in RiskIds : /\ n = LowestIn(UnusedRisks)
                         /\ risks[n].status = "NONE"
  BY NewRiskWasUnused DEF ReviseRisk
<1>1. /\ risks[r].status = "OPEN" /\ r # n
      /\ risks' = [risks EXCEPT ![n] = [risks[r] EXCEPT !.blocking = blocking],
                                ![r].status = "REJECTED"]
      /\ UNCHANGED <<job, steps>>
  BY DEF ReviseRisk, checklistVars
<1>2. risks \in [RiskIds -> RiskRows]
  BY DEF TypeOK
<1>3. /\ risks'[r].status = "REJECTED"
      /\ risks'[n].source = risks[r].source /\ risks'[n].step = risks[r].step
      /\ risks'[n].cycle = risks[r].cycle /\ risks'[n].status = "OPEN"
      /\ \A q \in RiskIds \ {n, r} : risks'[q] = risks[q]
  BY <1>1, <1>2 DEF RiskRows
<1>4. \A s \in Steps : \A q \in OpenStopRisks(s)' :
         IF q = n THEN r \in OpenStopRisks(s)
                  ELSE q \in OpenStopRisks(s) /\ q # r
  <2> SUFFICES ASSUME NEW s \in Steps, NEW q \in OpenStopRisks(s)'
               PROVE  IF q = n THEN r \in OpenStopRisks(s)
                               ELSE q \in OpenStopRisks(s) /\ q # r
    OBVIOUS
  <2>1. /\ q \in RiskIds /\ risks'[q].status = "OPEN"
        /\ risks'[q].source = "STOP_REJECTED"
        /\ risks'[q].step = s /\ risks'[q].cycle = job.cycle
    BY <1>1 DEF OpenStopRisks
  <2>2. q # r
    BY <1>3, <2>1
  <2>3. CASE q = n
    BY <1>1, <1>3, <2>1, <2>3 DEF OpenStopRisks
  <2>4. CASE q # n
    BY <1>3, <2>1, <2>2, <2>4 DEF OpenStopRisks
  <2> QED
    BY <2>3, <2>4, <2>2
<1>5. \A s \in Steps : \A p, q \in OpenStopRisks(s)' : p = q
  BY <1>4 DEF RiskInv
<1>6. \A s \in Steps : steps'[s].status = "APPROVED" => OpenStopRisks(s)' = {}
  BY <1>1, <1>4 DEF RiskInv
<1>7. \A q \in RiskIds : risks'[q].status = "OPEN" => risks'[q].cycle <= job'.cycle
  BY <1>1, <1>3 DEF RiskInv
<1> QED
  BY <1>5, <1>6, <1>7 DEF RiskInv

(* A rejection opens a risk only when the step has none.                     *)
LEMMA RejectionKeepsRisks ==
    ASSUME TypeOK, RiskInv, NEW s \in Steps, NEW a \in Attempts, RejectStop(s, a)
    PROVE  RiskInv'
<1>1. /\ steps'[s].status = "REJECTED" /\ job'.cycle = job.cycle
      /\ \A t \in Steps \ {s} : steps'[t] = steps[t]
  BY DEF RejectStop, TypeOK, StepRows, JobRows
<1>2. CASE OpenStopRisks(s) # {}
  <2>1. risks' = risks
    BY <1>2 DEF RejectStop, LinkStopRejectionRisk
  <2>2. OpensNoRisk
    BY <1>1, <2>1 DEF OpensNoRisk
  <2> QED
    BY <2>2, OpeningNothingKeepsRisks
<1>3. CASE OpenStopRisks(s) = {}
  <2> PICK n \in RiskIds : /\ n = LowestIn(UnusedRisks)
                           /\ risks[n].status = "NONE"
    BY <1>3, NewRiskWasUnused DEF RejectStop, LinkStopRejectionRisk
  <2> PICK blocking \in Assessments("STOP_REJECTED") :
         risks' = [risks EXCEPT ![LowestIn(UnusedRisks)] =
                     [status |-> "OPEN", cycle |-> job.cycle, step |-> s,
                      source |-> "STOP_REJECTED", blocking |-> blocking]]
    <3>1. LinkStopRejectionRisk(s)
      BY DEF RejectStop
    <3> QED
      BY <1>3, <3>1 DEF LinkStopRejectionRisk
  <2> DEFINE row == [status |-> "OPEN", cycle |-> job.cycle, step |-> s,
                     source |-> "STOP_REJECTED", blocking |-> blocking]
  <2>1. /\ risks' = [risks EXCEPT ![n] = row]
        /\ row.cycle = job.cycle /\ row.step = s
    OBVIOUS
  <2>2. risks'[n] = row /\ \A q \in RiskIds \ {n} : risks'[q] = risks[q]
    BY <2>1 DEF TypeOK
  <2>3. OpenStopRisks(s)' \subseteq {n}
    BY <1>1, <1>3, <2>2 DEF OpenStopRisks
  <2>4. \A t \in Steps \ {s} : OpenStopRisks(t)' \subseteq OpenStopRisks(t)
    BY <1>1, <2>1, <2>2 DEF OpenStopRisks
  <2>5. \A t \in Steps : \A p, q \in OpenStopRisks(t)' : p = q
    BY <2>3, <2>4 DEF RiskInv
  <2>6. \A t \in Steps : steps'[t].status = "APPROVED" => OpenStopRisks(t)' = {}
    BY <1>1, <2>4 DEF RiskInv
  <2>7. \A q \in RiskIds : risks'[q].status = "OPEN" => risks'[q].cycle <= job'.cycle
    BY <1>1, <2>1, <2>2 DEF RiskInv, TypeOK, JobRows, Cycles
  <2> QED
    BY <2>5, <2>6, <2>7 DEF RiskInv
<1> QED
  BY <1>2, <1>3

LEMMA RiskStep ==
    ASSUME TypeOK, RiskInv, [Next]_vars
    PROVE  RiskInv'
<1> USE DEF checklistVars
<1>1. ASSUME OpensNoRisk
      PROVE  RiskInv'
  BY <1>1, OpeningNothingKeepsRisks
<1>2. ASSUME UNCHANGED <<risks, steps>>, job'.cycle = job.cycle
      PROVE  RiskInv'
  BY <1>1, <1>2 DEF OpensNoRisk
<1>3. CASE UNCHANGED vars
  BY <1>2, <1>3 DEF vars
<1>4. CASE JobActions
  BY <1>2, <1>4 DEF JobActions, CreateJob, StartJob, UpdateInstallation,
                    CancelJob, Reassign, Unassign, EditRegistry, TypeOK, JobRows
<1>5. CASE ChecklistActions
  <2>1. UNCHANGED risks /\ job'.cycle = job.cycle
    BY <1>5 DEF ChecklistActions, AssignChecklist, CompleteStep, SubmitStop,
                FinishStep, RedoStep, TypeOK, JobRows
  <2>2. \A s \in Steps : steps'[s].status = "APPROVED" => steps[s].status = "APPROVED"
    <3>1. CASE AssignChecklist
      BY <3>1 DEF AssignChecklist
    <3>2. ASSUME NEW u \in Users, NEW s \in Steps, CompleteStep(u, s)
          PROVE  \A t \in Steps : steps'[t].status = "APPROVED" => steps[t].status = "APPROVED"
      <4>1. SubmitStop(s, steps[s].attempt) \/ FinishStep(s)
        BY <3>2 DEF CompleteStep
      <4>2. ASSUME FinishStep(s)
            PROVE  \A t \in Steps : steps'[t].status = "APPROVED" => steps[t].status = "APPROVED"
        BY <4>2 DEF FinishStep, TypeOK, StepRows
      <4>3. ASSUME SubmitStop(s, steps[s].attempt)
            PROVE  \A t \in Steps : steps'[t].status = "APPROVED" => steps[t].status = "APPROVED"
        BY <4>3 DEF SubmitStop, TypeOK, StepRows
      <4> QED
        BY <4>1, <4>2, <4>3
    <3>3. ASSUME NEW s \in Steps, RedoStep(s)
          PROVE  \A t \in Steps : steps'[t].status = "APPROVED" => steps[t].status = "APPROVED"
      BY <3>3 DEF RedoStep, TypeOK, StepRows
    <3> QED
      BY <1>5, <3>1, <3>2, <3>3 DEF ChecklistActions
  <2> QED
    BY <1>1, <2>1, <2>2 DEF OpensNoRisk
<1>6. ASSUME NEW s \in Steps, NEW a \in Attempts, ApproveStop(s, a)
      PROVE  RiskInv'
  <2>1. /\ job'.cycle = job.cycle
        /\ \A t \in Steps \ {s} : steps'[t] = steps[t]
        /\ risks' = [r \in RiskIds |-> IF r \in OpenStopRisks(s)
                                         THEN [risks[r] EXCEPT !.status = "RESOLVED"]
                                         ELSE risks[r]]
    BY <1>6 DEF ApproveStop, ResolveStopRisk, TypeOK, StepRows, JobRows
  <2>2. \A r \in RiskIds : IF r \in OpenStopRisks(s) THEN risks'[r].status = "RESOLVED"
                                                     ELSE risks'[r] = risks[r]
    BY <2>1 DEF TypeOK, RiskRows
  <2>3. OpenStopRisks(s)' = {}
    BY <2>1, <2>2 DEF OpenStopRisks
  <2>4. \A t \in Steps : OpenStopRisks(t)' \subseteq OpenStopRisks(t)
    BY <2>1, <2>2 DEF OpenStopRisks
  <2>5. \A r \in RiskIds : risks'[r].status = "OPEN" => risks'[r].cycle <= job'.cycle
    BY <2>1, <2>2 DEF RiskInv
  <2>6. \A t \in Steps : \A p, q \in OpenStopRisks(t)' : p = q
    BY <2>4 DEF RiskInv
  <2>7. \A t \in Steps : steps'[t].status = "APPROVED" => OpenStopRisks(t)' = {}
    BY <2>1, <2>3, <2>4 DEF RiskInv
  <2> QED
    BY <2>5, <2>6, <2>7 DEF RiskInv
<1>7. ASSUME NEW s \in Steps, ReworkStop(s)
      PROVE  RiskInv'
  <2>1. UNCHANGED risks /\ job'.cycle = job.cycle
    BY <1>7 DEF ReworkStop, TypeOK, JobRows
  <2>2. \A t \in Steps : steps'[t].status = "APPROVED" => steps[t].status = "APPROVED"
    BY <1>7 DEF ReworkStop, TypeOK, StepRows
  <2> QED
    BY <1>1, <2>1, <2>2 DEF OpensNoRisk
<1>8. CASE StopActions
  BY <1>6, <1>7, <1>8, RejectionKeepsRisks DEF StopActions
<1>9. CASE RiskActions
  <2>1. ASSUME NEW blocking \in BOOLEAN, CreateRisk(blocking)
        PROVE  RiskInv'
    <3> PICK n \in RiskIds : n = LowestIn(UnusedRisks) /\ risks[n].status = "NONE"
      BY <2>1, NewRiskWasUnused DEF CreateRisk
    <3> DEFINE row == [status |-> "OPEN", cycle |-> job.cycle, step |-> NoStep,
                       source |-> "MANUAL", blocking |-> blocking]
    <3>1. /\ risks' = [risks EXCEPT ![n] = row]
          /\ row.cycle = job.cycle /\ row.source = "MANUAL"
      BY <2>1 DEF CreateRisk
    <3>2. /\ risks'[n] = row /\ \A q \in RiskIds \ {n} : risks'[q] = risks[q]
          /\ UNCHANGED <<job, steps>>
      BY <2>1, <3>1 DEF CreateRisk, TypeOK
    <3>3. \A t \in Steps : OpenStopRisks(t)' \subseteq OpenStopRisks(t)
      BY <3>1, <3>2 DEF OpenStopRisks
    <3>4. \A q \in RiskIds : risks'[q].status = "OPEN" => risks'[q].cycle <= job'.cycle
      BY <3>1, <3>2 DEF RiskInv, TypeOK, JobRows, Cycles
    <3>5. \A t \in Steps : \A p, q \in OpenStopRisks(t)' : p = q
      BY <3>3 DEF RiskInv
    <3>6. \A t \in Steps : steps'[t].status = "APPROVED" => OpenStopRisks(t)' = {}
      BY <3>2, <3>3 DEF RiskInv
    <3> QED
      BY <3>4, <3>5, <3>6 DEF RiskInv
  <2>2. ASSUME NEW r \in RiskIds, ResolveRisk(r)
        PROVE  RiskInv'
    <3>1. UNCHANGED <<job, steps>> /\ risks' = [risks EXCEPT ![r].status = "RESOLVED"]
      BY <2>2 DEF ResolveRisk
    <3>2. OpensNoRisk
      BY <3>1 DEF OpensNoRisk, TypeOK, RiskRows
    <3> QED
      BY <1>1, <3>2
  <2>3. (\E p \in PolicyKinds : ActivateMatrix(p)) \/ RetireMatrix => RiskInv'
    BY <1>2 DEF ActivateMatrix, RetireMatrix
  <2> QED
    BY <1>9, <2>1, <2>2, <2>3, RevisionKeepsRisks DEF RiskActions
<1>10. CASE EvidenceActions
  <2>1. UNCHANGED <<risks, steps, job>>
    BY <1>10 DEF EvidenceActions, RegisterPhoto, RegisterSignature, UploadStep,
                 PutObject, PutObjectFails, MarkFailed, FinalizeUpload,
                 DeleteObject, UploadDies, LoseObject, Reconcile, PromoteLegacy,
                 FailLegacy, FailLost, FailStale, Reconciled
  <2> QED
    BY <1>2, <2>1
<1>11. ASSUME NEW t \in Seconds, ReopenJob(t)
       PROVE  RiskInv'
  <2>1. /\ UNCHANGED <<risks, steps>> /\ job'.cycle = job.cycle + 1
        /\ job.cycle \in Nat
    BY <1>11 DEF ReopenJob, TypeOK, JobRows, Cycles
  <2>2. \A r \in RiskIds : risks[r].status = "OPEN" => risks[r].cycle < job'.cycle
    BY <2>1 DEF RiskInv, TypeOK, RiskRows, Cycles
  <2>3. \A s \in Steps : OpenStopRisks(s)' = {}
    BY <2>1, <2>2 DEF OpenStopRisks, TypeOK, RiskRows, Cycles
  <2> QED
    BY <2>1, <2>2, <2>3 DEF RiskInv, TypeOK, RiskRows, Cycles
<1>12. CASE CompletionActions
  BY <1>2, <1>11, <1>12 DEF CompletionActions, CheckClose, CheckConfirm, VerifyObjects,
                            AbandonRequest, Advance, CloseJob, SubmitForReview,
                            ConfirmQuality, Complete, TypeOK, JobRows
<1> QED
  BY <1>3, <1>4, <1>5, <1>8, <1>9, <1>10, <1>12 DEF Next

LEMMA RiskInit == Init => RiskInv
<1>1. Init => \A r \in RiskIds : risks[r].status = "NONE"
  BY DEF Init, BlankRisk
<1> QED
  BY <1>1 DEF RiskInv, OpenStopRisks

(* A rejected STOP leaves one open risk of its step and cycle at most, an    *)
(* approved one leaves none, through every revision, resolution, rework and  *)
(* reopening in between.                                                     *)
THEOREM RisksFollowDecisions == Spec => []StopRiskFollowsDecision
<1>1. RiskInv => StopRiskFollowsDecision
  <2> SUFFICES ASSUME RiskInv, NEW s \in Steps
               PROVE  Cardinality(OpenStopRisks(s)) <= 1
    BY DEF RiskInv, StopRiskFollowsDecision
  <2>1. CASE OpenStopRisks(s) = {}
    BY <2>1, FS_EmptySet
  <2>2. CASE OpenStopRisks(s) # {}
    <3>1. PICK r : OpenStopRisks(s) = {r}
      BY <2>2 DEF RiskInv
    <3> QED
      <4>1. Cardinality({r}) = 1
        BY FS_Singleton
      <4> QED
        BY <3>1, <4>1
  <2> QED
    BY <2>1, <2>2
<1>2. TypeOK /\ RiskInv /\ [Next]_vars => RiskInv'
  BY RiskStep
<1> QED
  BY <1>1, <1>2, RiskInit, TypeCorrect, PTL DEF Spec

-----------------------------------------------------------------------------
(* The ledger of completions.                                                *)

\* What the ledger sees of a step that neither seals, reviews, reopens nor
\* abandons.
PhaseKept ==
    /\ job'.cycle = job.cycle
    /\ \A x \in {"COMPLETED", "QUALITY_REVIEW", "CANCELLED"} :
         job'.status = x <=> job.status = x
    /\ UNCHANGED snapshots

PhaseMoves ==
    \/ CancelJob
    \/ \E q \in Requests, t \in Seconds : CloseJob(q, t) \/ ConfirmQuality(q, t)
    \/ \E q \in Requests : SubmitForReview(q)
    \/ \E t \in Seconds : ReopenJob(t)

LEMMA PhaseStep ==
    ASSUME TypeOK, [Next]_vars
    PROVE  PhaseKept \/ PhaseMoves
<1> USE DEF PhaseKept
<1>1. CASE UNCHANGED vars
  BY <1>1 DEF vars
<1>2. CASE JobActions
  <2>1. ASSUME NEW u \in Users \cup {NoUser}, CreateJob(u)
        PROVE  PhaseKept
    BY <2>1 DEF CreateJob, TypeOK, JobRows
  <2>2. CASE StartJob
    BY <2>2 DEF StartJob, InStatus, TypeOK, JobRows
  <2>3. ASSUME NEW i \in Installations, UpdateInstallation(i)
        PROVE  PhaseKept
    BY <2>3 DEF UpdateInstallation, TypeOK, JobRows
  <2>4. ASSUME NEW u \in Users, Reassign(u)
        PROVE  PhaseKept
    BY <2>4 DEF Reassign, TypeOK, JobRows
  <2>5. CASE Unassign
    BY <2>5 DEF Unassign, TypeOK, JobRows
  <2>6. ASSUME NEW r \in Registries, EditRegistry(r)
        PROVE  PhaseKept
    BY <2>6 DEF EditRegistry
  <2> QED
    BY <1>2, <2>1, <2>2, <2>3, <2>4, <2>5, <2>6 DEF JobActions, PhaseMoves
<1>3. CASE ChecklistActions
  <2>1. ASSUME NEW u \in Users, NEW s \in Steps, CompleteStep(u, s)
        PROVE  PhaseKept
    BY <2>1 DEF CompleteStep, ReadyToComplete, IsWorkable, SubmitStop, FinishStep,
                TypeOK, JobRows
  <2>2. ASSUME AssignChecklist \/ \E s \in Steps : RedoStep(s)
        PROVE  PhaseKept
    BY <2>2 DEF AssignChecklist, RedoStep
  <2> QED
    BY <1>3, <2>1, <2>2 DEF ChecklistActions
<1>4. CASE StopActions
  <2>1. WorkingStatus \in {"REOPENED", "IN_PROGRESS"}
    BY DEF WorkingStatus
  <2>2. ASSUME NEW s \in Steps, NEW a \in Attempts, ApproveStop(s, a)
        PROVE  PhaseKept
    BY <2>1, <2>2 DEF ApproveStop, PendingStop, TypeOK, JobRows
  <2>3. ASSUME NEW s \in Steps, NEW a \in Attempts, RejectStop(s, a)
        PROVE  PhaseKept
    BY <2>3 DEF RejectStop, PendingStop, TypeOK, JobRows
  <2>4. ASSUME NEW s \in Steps, ReworkStop(s)
        PROVE  PhaseKept
    BY <2>1, <2>4 DEF ReworkStop, TypeOK, JobRows
  <2> QED
    BY <1>4, <2>2, <2>3, <2>4 DEF StopActions
<1>5. CASE RiskActions
  BY <1>5 DEF RiskActions, CreateRisk, ResolveRisk, ReviseRisk, ActivateMatrix,
              RetireMatrix
<1>6. CASE EvidenceActions
  <2>1. UNCHANGED <<job, snapshots>>
    BY <1>6 DEF EvidenceActions, RegisterPhoto, RegisterSignature, UploadStep,
                PutObject, PutObjectFails, MarkFailed, FinalizeUpload,
                DeleteObject, UploadDies, LoseObject, Reconcile, PromoteLegacy,
                FailLegacy, FailLost, FailStale, Reconciled
  <2> QED
    BY <2>1
<1>7. CASE CompletionActions
  BY <1>7 DEF CompletionActions, CheckClose, CheckConfirm, VerifyObjects,
              AbandonRequest, Advance, PhaseMoves
<1> QED
  BY <1>1, <1>2, <1>3, <1>4, <1>5, <1>6, <1>7 DEF Next

\* Only a completed cycle has a seal: the first completion of a cycle finds none.
SealedWhenCompleted ==
    \A c \in Cycles : snapshots[c] # NoSnapshot =>
       c < job.cycle \/ (c = job.cycle /\ job.status = "COMPLETED")

LEMMA SealedStep ==
    ASSUME TypeOK, SealedWhenCompleted, [Next]_vars
    PROVE  SealedWhenCompleted'
<1> USE DEF SealedWhenCompleted
<1>1. job.cycle \in Nat /\ \A c \in Cycles : c \in Nat
  BY DEF TypeOK, JobRows, Cycles
<1>2. CASE PhaseKept
  BY <1>2 DEF PhaseKept
<1>3. CASE CancelJob
  BY <1>3 DEF CancelJob, InStatus, TypeOK, JobRows
<1>4. ASSUME NEW q \in Requests, NEW t \in Seconds, Complete(q, t)
      PROVE  SealedWhenCompleted'
  <2>1. job'.cycle = job.cycle /\ job'.status = "COMPLETED"
    BY <1>4 DEF Complete, TypeOK, JobRows
  <2>2. \A c \in Cycles : c # job.cycle => snapshots'[c] = snapshots[c]
    BY <1>4 DEF Complete, FinalizeSnapshot, TypeOK
  <2> QED
    BY <1>1, <2>1, <2>2
<1>5. ASSUME NEW q \in Requests, SubmitForReview(q)
      PROVE  SealedWhenCompleted'
  BY <1>5 DEF SubmitForReview, TypeOK, JobRows
<1>6. ASSUME NEW t \in Seconds, ReopenJob(t)
      PROVE  SealedWhenCompleted'
  BY <1>1, <1>6 DEF ReopenJob, TypeOK, JobRows
<1> QED
  BY <1>2, <1>3, <1>4, <1>5, <1>6, PhaseStep DEF PhaseMoves, CloseJob, ConfirmQuality

LEMMA PhaseKeptStutters == PhaseKept => UNCHANGED Ledger!ledger
BY DEF PhaseKept, Ledger!ledger, Phase

\* The seal a snapshot stands for is never the absence of one.
LEMMA SealIsASeal ==
    ASSUME NEW seal, seal # NoSnapshot
    PROVE  SealOf(seal) # NoSeal
<1>1. "none" \in DOMAIN NoSeal
  BY DEF NoSeal
<1>2. "none" \notin DOMAIN SealOf(seal)
  BY DEF SealOf
<1> QED
  BY <1>1, <1>2

LEMMA NoDigestIsNoSummary == NoDigest \notin Summaries
<1>1. "legacy" \in DOMAIN NoDigest
  BY DEF NoDigest
<1>2. \A x \in Summaries : "legacy" \notin DOMAIN x
  BY DEF Summaries
<1> QED
  BY <1>1, <1>2

(* What a completion seals is finished, unblocked and signed as it stands.   *)
LEMMA CompletionIsAcceptable ==
    ASSUME TypeOK, SignatureInv, ~LegacyJob, snapshots[job.cycle] = NoSnapshot,
           NEW q \in Requests, NEW t \in Seconds, Complete(q, t)
    PROVE  /\ Ledger!Acceptable(SealOf(snapshots'[job.cycle]))
           /\ \A c \in Cycles : c # job.cycle => snapshots'[c] = snapshots[c]
<1> DEFINE g == LatestIn(ActiveSignatures)
           new == [summary |-> Summary, signature |-> g,
                   signedDigest |-> signatures[g].digest]
<1>1. snapshots' = [snapshots EXCEPT ![job.cycle] = new]
  BY DEF Complete, FinalizeSnapshot
<1>2. job.cycle \in Cycles /\ snapshots \in [Cycles -> Snapshots \cup {NoSnapshot}]
  BY DEF TypeOK, JobRows
<1>3. /\ snapshots'[job.cycle] = new
      /\ \A c \in Cycles : c # job.cycle => snapshots'[c] = snapshots[c]
  BY <1>1, <1>2
<1>4. signatures[g].digest = Summary
  <2>1. ActiveSignatures # {} /\ SignatureFresh
    BY DEF Complete, AcceptedUnderLock, CanComplete
  <2>2. g \in ActiveSignatures
    BY <2>1, ActiveSignatureType
  <2>3. signatures[g].digest \in Summaries
    BY <2>2 DEF SignatureInv, SignedWithDigest, ActiveSignatures
  <2> QED
    BY <2>1, <2>3, NoDigestIsNoSummary DEF SignatureFresh
<1>5. AllStepsDone /\ OpenBlockers = {}
  BY DEF Complete, AcceptedUnderLock, CanComplete
<1>6. /\ new.summary = Summary /\ new.signedDigest = signatures[g].digest
      /\ new # NoSnapshot
  <2>1. "summary" \in DOMAIN new /\ "summary" \notin DOMAIN NoSnapshot
    BY DEF NoSnapshot
  <2> QED
    BY <2>1
<1> HIDE DEF new, g
<1>7. /\ SealOf(new).work = Summary
      /\ SealOf(new).signed = Summary
      /\ SealOf(new).blockers = Summary.blockers
      /\ SealOf(new).unfinished = {s \in Steps : Summary.steps[s].status \notin DoneStatuses}
  BY <1>4, <1>6 DEF SealOf
<1>8. /\ Summary.blockers = {}
      /\ \A s \in Steps : Summary.steps[s].status \in DoneStatuses
  BY <1>5 DEF Summary, AllStepsDone
<1>9. SealOf(new) # NoSeal
  BY <1>6, SealIsASeal
<1> QED
  BY <1>3, <1>7, <1>8, <1>9 DEF Ledger!Acceptable

LEMMA LedgerSeals ==
    ASSUME TypeOK, WorkflowInv, SignatureInv, SealedWhenCompleted, ~LegacyJob,
           NEW q \in Requests, NEW t \in Seconds, CloseJob(q, t) \/ ConfirmQuality(q, t)
    PROVE  Ledger!Seal
<1> DEFINE seals == [c \in Cycles |-> SealOf(snapshots[c])]
<1>1. job.cycle \in Cycles /\ job.cycle \in Nat
  BY DEF TypeOK, JobRows, Cycles
<1>2. Complete(q, t) /\ job.status \in {"IN_PROGRESS", "QUALITY_REVIEW"}
  BY DEF CloseJob, ConfirmQuality
<1>3. snapshots[job.cycle] = NoSnapshot
  BY <1>1, <1>2 DEF SealedWhenCompleted
<1>4. /\ Ledger!Acceptable(SealOf(snapshots'[job.cycle]))
      /\ \A c \in Cycles : c # job.cycle => snapshots'[c] = snapshots[c]
  BY <1>2, <1>3, CompletionIsAcceptable
<1>5. Phase = IF job.cycle = 1 THEN "OPEN" ELSE "REVIEW"
  BY <1>2 DEF WorkflowInv, CycleConsistency, Phase
<1>6. job'.cycle = job.cycle /\ Phase' = "SEALED"
  BY <1>2 DEF Complete, TypeOK, JobRows, Phase
<1>7. seals[job.cycle] = NoSeal
  BY <1>1, <1>3 DEF SealOf
<1>8. seals'[job.cycle] = SealOf(snapshots'[job.cycle])
  BY <1>1 DEF SealOf
<1>9. seals' = [seals EXCEPT ![job.cycle] = seals'[job.cycle]]
  BY <1>1, <1>4 DEF SealOf
<1> QED
  BY <1>4, <1>5, <1>6, <1>7, <1>8, <1>9 DEF Ledger!Seal

LEMMA LedgerStep ==
    ASSUME TypeOK, WorkflowInv, SignatureInv, SealedWhenCompleted, ~LegacyJob, [Next]_vars
    PROVE  [Ledger!Next]_(Ledger!ledger)
<1> USE DEF Ledger!Next
<1>1. CASE PhaseKept
  BY <1>1, PhaseKeptStutters
<1>2. CASE CancelJob
  <2>1. Ledger!Abandon
    BY <1>2 DEF CancelJob, InStatus, Ledger!Abandon, Phase, WorkflowInv,
                CycleConsistency, TypeOK, JobRows
  <2> QED
    BY <2>1
<1>3. ASSUME NEW q \in Requests, SubmitForReview(q)
      PROVE  Ledger!Review
  BY <1>3 DEF SubmitForReview, Ledger!Review, Phase, WorkflowInv,
              CycleConsistency, TypeOK, JobRows
<1>4. ASSUME NEW t \in Seconds, ReopenJob(t)
      PROVE  Ledger!Reopen
  BY <1>4 DEF ReopenJob, Ledger!Reopen, Phase, TypeOK, JobRows
<1> QED
  BY <1>1, <1>2, <1>3, <1>4, PhaseStep, LedgerSeals DEF PhaseMoves

(* The system of a job opened here implements the ledger of completions:     *)
(* each cycle is sealed once, only as finished work without an open blocking *)
(* risk that the customer signed as it stands, a reopened cycle only through *)
(* review, and a seal never changes.                                         *)
THEOREM LedgerIsImplemented ==
    ASSUME ~LegacyJob
    PROVE  Spec => ImplementsLedger
<1>1. Init => SealedWhenCompleted
  BY DEF Init, SealedWhenCompleted
<1>2. TypeOK /\ SealedWhenCompleted /\ [Next]_vars => SealedWhenCompleted'
  BY SealedStep
<1>3. Init => Ledger!Init
  BY DEF Init, FreshInit, Ledger!Init, Phase, SealOf, Cycles
<1>4. TypeOK /\ WorkflowInv /\ SignatureInv /\ SealedWhenCompleted /\ [Next]_vars
        => [Ledger!Next]_(Ledger!ledger)
  BY LedgerStep
<1> QED
  BY <1>1, <1>2, <1>3, <1>4, TypeCorrect, WorkflowInvariant, SignatureInvariant, PTL
     DEF Spec, ImplementsLedger, Ledger!Spec
=============================================================================
