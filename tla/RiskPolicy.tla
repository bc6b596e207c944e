----------------------------- MODULE RiskPolicy ----------------------------
(* The governance of risk matrices and what is scored under them             *)
(* (risk-policy.service.ts, risk-matrix.ts): versions go DRAFT, ACTIVE,      *)
(* RETIRED; a safety operation scores a hazard under the ACTIVE one. Each    *)
(* activation and retirement is one action, because it runs under the lock   *)
(* of the singleton control row; createMatrixVersion checks the name without *)
(* a lock, and assessRisk reads the ACTIVE matrix in the transaction that    *)
(* stores the risk, without one.                                             *)
EXTENDS Integers, Sequences

CONSTANTS Versions,       \* version names
          Seeded,         \* the one the migration seeds as a DRAFT
          Definitions,    \* the definitions an administrator submits
          NoDefinition,   \* no request in flight, no row
          Approvers,      \* createMatrixVersion requests that may run at once
          Assessors,      \* transactions that score a hazard at once
          MaxAssessments  \* bound: risks stored

ASSUME PolicyAssumption ==
    /\ Seeded \in Versions
    /\ \A def \in Definitions : \A i \in DOMAIN def.thresholds :
          def.thresholds[i].min \in Int

VARIABLES matrices,     \* risk_matrix_versions
          creating,     \* createMatrixVersion requests past their checks
          scoring,      \* risks scored by a transaction, not stored yet
          assessments   \* the scores that risk_events store

policyVars == <<matrices, creating, scoring, assessments>>

-----------------------------------------------------------------------------
(* Definitions                                                               *)

Levels == {"LOW", "MEDIUM", "HIGH", "CRITICAL"}
LevelOrder == [LOW |-> 0, MEDIUM |-> 1, HIGH |-> 2, CRITICAL |-> 3]
Sources == {"MANUAL", "STOP_REJECTED"}
NoLevel == "none"
Scale == 1..4
\* The numbers a caller may pass before they are clamped to the scale.
Inputs == 0..5

V1Definition ==
    [severities |-> Scale, likelihoods |-> Scale,
     thresholds |-> <<[min |-> 12, level |-> "CRITICAL"], [min |-> 8, level |-> "HIGH"],
                      [min |-> 4, level |-> "MEDIUM"], [min |-> 0, level |-> "LOW"]>>,
     blocking |-> {"CRITICAL"},
     overrides |-> [MANUAL |-> NoLevel, STOP_REJECTED |-> "CRITICAL"],
     severity4 |-> "HIGH"]

Clamp(n) == IF n < 1 THEN 1 ELSE IF n > 4 THEN 4 ELSE n

Matches(def, score) == { i \in DOMAIN def.thresholds : score >= def.thresholds[i].min }

(* The first threshold that the score reaches, LOW without one.              *)
ThresholdLevel(def, score) ==
    LET hits == Matches(def, score) IN
    IF hits = {} THEN "LOW"
    ELSE def.thresholds[CHOOSE i \in hits : \A j \in hits : i <= j].level

Classify(def, severity, likelihood, source) ==
    LET s == Clamp(severity)
        score == s * Clamp(likelihood)
        base == ThresholdLevel(def, score)
        level == IF def.overrides[source] # NoLevel THEN def.overrides[source]
                 ELSE IF /\ def.severity4 # NoLevel /\ s = 4
                         /\ LevelOrder[base] < LevelOrder[def.severity4]
                 THEN def.severity4 ELSE base
    IN  [score |-> score, level |-> level, blocking |-> level \in def.blocking]

(* validateDefinition finds no problem.                                      *)
Valid(def) ==
    /\ def.severities # {} /\ def.likelihoods # {} /\ def.thresholds # <<>>
    /\ \E i \in DOMAIN def.thresholds : def.thresholds[i].min <= 1
    /\ \A i \in DOMAIN def.thresholds : def.thresholds[i].level \in Levels
    /\ \A i \in 2..Len(def.thresholds) : def.thresholds[i].min <= def.thresholds[i - 1].min
    /\ "CRITICAL" \in def.blocking
    /\ \A s \in def.severities, l \in def.likelihoods : Matches(def, s * l) # {}

(* The classification of risk-matrix.ts, the documented policy.              *)
ComputeRisk(severity, likelihood, source) ==
    LET s == Clamp(severity)
        score == s * Clamp(likelihood)
        base == CASE score >= 12 -> "CRITICAL" [] score \in 8..11 -> "HIGH"
                  [] score \in 4..7 -> "MEDIUM" [] OTHER -> "LOW"
        level == IF source = "STOP_REJECTED" THEN "CRITICAL"
                 ELSE IF s = 4 /\ base # "CRITICAL" THEN "HIGH" ELSE base
    IN  [score |-> score, level |-> level, blocking |-> level = "CRITICAL"]

-----------------------------------------------------------------------------
(* Governance                                                                *)

NoMatrix == [status |-> "NONE", def |-> NoDefinition]
NoRequest == [version |-> Seeded, def |-> NoDefinition]

Exists(v) == matrices[v].status # "NONE"
Active == { v \in Versions : matrices[v].status = "ACTIVE" }

CheckMatrixVersion(a, v, def) ==
    /\ creating[a] = NoRequest
    /\ Valid(def)
    /\ ~Exists(v)
    /\ creating' = [creating EXCEPT ![a] = [version |-> v, def |-> def]]
    /\ UNCHANGED <<matrices, scoring, assessments>>

\* Mutant: the second of two requests overwrites the version of the first.
UpsertMatrixVersion(a) ==
    LET request == creating[a] IN
    /\ request # NoRequest
    /\ creating' = [creating EXCEPT ![a] = NoRequest]
    /\ matrices' = [matrices EXCEPT ![request.version] =
                        [status |-> "DRAFT", def |-> request.def]]
    /\ UNCHANGED <<scoring, assessments>>

(* The insert: the unique index on the version decides between two requests. *)
CreateMatrixVersion(a) ==
    LET request == creating[a] IN
    /\ request # NoRequest
    /\ creating' = [creating EXCEPT ![a] = NoRequest]
    /\ matrices' = IF Exists(request.version) THEN matrices
                   ELSE [matrices EXCEPT ![request.version] =
                            [status |-> "DRAFT", def |-> request.def]]
    /\ UNCHANGED <<scoring, assessments>>

\* Mutant: the matrix that was active stays active.
ActivateAlone(v) ==
    /\ matrices[v].status \in {"DRAFT", "ACTIVE"}
    /\ Valid(matrices[v].def)
    /\ matrices' = [matrices EXCEPT ![v] = [@ EXCEPT !.status = "ACTIVE"]]
    /\ UNCHANGED <<creating, scoring, assessments>>

(* The active matrix is retired first, then the target activated. The unique *)
(* index over the ACTIVE rows, a second guard, is left out.                  *)
ActivateMatrix(v) ==
    /\ matrices[v].status \in {"DRAFT", "ACTIVE"}
    /\ Valid(matrices[v].def)
    /\ matrices' = [w \in Versions |->
           IF w = v THEN [matrices[w] EXCEPT !.status = "ACTIVE"]
           ELSE IF w \in Active THEN [matrices[w] EXCEPT !.status = "RETIRED"]
           ELSE matrices[w]]
    /\ UNCHANGED <<creating, scoring, assessments>>

RetireMatrix(v) ==
    /\ matrices[v].status \in {"DRAFT", "ACTIVE"}
    /\ matrices' = [matrices EXCEPT ![v] = [@ EXCEPT !.status = "RETIRED"]]
    /\ UNCHANGED <<creating, scoring, assessments>>

-----------------------------------------------------------------------------
(* Assessment                                                                *)

Nothing == [matrix |-> NoLevel]

Scored(v, s, l, source) ==
    LET result == Classify(matrices[v].def, s, l, source)
    IN  [matrix |-> v, severity |-> s, likelihood |-> l, source |-> source,
         score |-> result.score, level |-> result.level, blocking |-> result.blocking]

AssessRisk(q, s, l, source) ==
    /\ scoring[q] = Nothing
    /\ Len(assessments) < MaxAssessments
    /\ \E v \in Active : scoring' = [scoring EXCEPT ![q] = Scored(v, s, l, source)]
    /\ UNCHANGED <<matrices, creating, assessments>>

StoreRisk(q) ==
    /\ scoring[q] # Nothing
    /\ assessments' = Append(assessments, scoring[q])
    /\ scoring' = [scoring EXCEPT ![q] = Nothing]
    /\ UNCHANGED <<matrices, creating>>

-----------------------------------------------------------------------------
PolicyInit ==
    /\ matrices = [v \in Versions |->
          IF v = Seeded THEN [status |-> "DRAFT", def |-> V1Definition] ELSE NoMatrix]
    /\ creating = [a \in Approvers |-> NoRequest]
    /\ scoring = [q \in Assessors |-> Nothing]
    /\ assessments = <<>>

PolicyNext ==
    \/ \E a \in Approvers, v \in Versions, def \in Definitions :
          CheckMatrixVersion(a, v, def)
    \/ \E a \in Approvers : CreateMatrixVersion(a)
    \/ \E v \in Versions : ActivateMatrix(v) \/ RetireMatrix(v)
    \/ \E q \in Assessors, s, l \in Inputs, source \in Sources : AssessRisk(q, s, l, source)
    \/ \E q \in Assessors : StoreRisk(q)

PolicySpec == PolicyInit /\ [][PolicyNext]_policyVars

-----------------------------------------------------------------------------
(* Properties                                                                *)

(* At most one matrix is ACTIVE, whatever activations and retirements follow *)
(* each other, and it covers the whole scale: no score falls through to the  *)
(* built-in LOW, and a CRITICAL hazard blocks under it.                      *)
ActiveMatrixGoverns ==
    /\ \A v, w \in Active : v = w
    /\ \A v \in Active : \A s, l \in Inputs, source \in Sources :
          LET result == Classify(matrices[v].def, s, l, source)
          IN  /\ Matches(matrices[v].def, result.score) # {}
              /\ result.level = "CRITICAL" => result.blocking

(* A stored score can be read again at its own version for ever: its matrix  *)
(* exists, was approved, and still classifies the hazard the way it was      *)
(* stored, whatever was created, activated and retired since; under v1 that  *)
(* is the documented policy of risk-matrix.ts.                               *)
ScoresStayReproducible ==
    \A i \in DOMAIN assessments :
        LET risk == assessments[i]
            again == Scored(risk.matrix, risk.severity, risk.likelihood, risk.source)
            policy == ComputeRisk(risk.severity, risk.likelihood, risk.source)
        IN  /\ matrices[risk.matrix].status \in {"ACTIVE", "RETIRED"}
            /\ risk = again
            /\ risk.matrix = Seeded =>
                  risk.level = policy.level /\ risk.blocking = policy.blocking
=============================================================================
