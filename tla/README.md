# A verification project for easygas-guide-server

The server runs the workshops that fit gas equipment to vehicles. A *job*
follows a checklist with photos, measurements and STOP points that a master
decides on, collects a customer's signature, is closed, and can be reopened
under quality control. Its employees log in to sessions that rotate;
administrators manage accounts, branches, templates, risk policy and a price
catalogue; a worker sends queued messages, a shared counter limits requests,
and every business transaction ends in an audit entry of a hash chain. These
modules model each of these parts with what it interacts with, check them with
TLC on small instances, and prove most of the safety properties with TLAPS for
every value of the constants.

## 1. The system and its parts

| part | state it keeps | operations that change it | what is hard | here |
|---|---|---|---|---|
| jobs, assignment (`modules/jobs`) | `jobs` row: status, cycle, technician, installation, `closed_at`, `reopened_at` | create, start, cancel, describe, assign, unassign | second-granular timestamps decide the cycle | `Jobs` |
| checklist execution (`modules/checklist/execution`) | header `completed_at`; `job_steps` status and attempt; measurements | assign, complete a step, redo a step | a cached header; attempts; sequence over rows that redo moves back | `Checklist` |
| STOP decisions (`modules/checklist/stop`) | `stop_approvals` | approve, reject, rework | three tables must agree | `Stops` |
| risks (`modules/risk`) | `risk_events`; the ACTIVE matrix | create, resolve, override, revise; linked from STOP decisions; activate and retire a matrix | the policy changes under the job | `Risks` |
| evidence (`modules/photos`, signatures in `modules/jobs/completion`) | evidence rows; stored objects; requests in flight | two-transaction upload with a storage call between | crashes, ambiguous puts, late answers, the photo limit | `Evidence` |
| reconciliation (`modules/evidence`) | the same rows, without the job's lock | promote or fail legacy rows, fail lost ones, sweep stale uploads | races uploads and the completion | `Evidence` |
| completion (`modules/jobs/completion`, `modules/completion`) | `completion_snapshots`, the job row | close, reopen, confirm quality | checks made before the transaction; freshness of the signature | `Completion` |
| sessions (`modules/auth/session`) | `sessions` | create, resolve, rotate, refresh, revoke | a row is read without a lock and acted on later; grace and replay | `Sessions` |
| accounts (`modules/auth`, `modules/users`, branch status, the authentication middleware) | `users`, `branches.status` | login, change of password, block, unblock, update, reset, deactivate and activate a branch | authorization is decided before the handler runs; the last administrator | `Accounts` |
| customers, vehicles, branches (`modules/customers`, `vehicles`, `branches`) | their rows and audit entries; requests in flight | create, edit, set the status of a branch | checks of a free plate, VIN or name before the transaction; only plates and VINs have a unique index; an edit changes what was signed without touching the job | `Registry`; `EditRegistry` in `Jobs`; branch status in `Accounts` |
| checklist templates (`modules/checklist/templates`) | templates, numbered versions, ordered steps | create, draft, edit, reorder, publish, archive, delete | a job takes the published version by two reads without a lock | `Templates` |
| risk policy (`modules/risk/risk-policy`, `risk-matrix`) | `risk_matrix_versions`, the scores risks store | create, activate, retire, classify | the name is checked before the insert; scores must stay readable | `RiskPolicy`; what a job sees in `Risks` |
| registration (`modules/auth`, `modules/users`) | `registration_requests`, new `users` | request, approve, reject; create a user, change a phone | two pending requests of one phone; the hash of a password between check and insert | `Registration` |
| catalogue and import (`modules/catalog`, `modules/reference`) | items, reference rows, price history | create, edit, archive, delete, import a file | stale forms; an import that plans first and inserts later | `Catalog` |
| SMS outbox and maintenance (`sms`, `maintenance`) | `sms_outbox`; worker cycles and processes | queue, claim, send, retry, settle, recover leases, purge, retire | overlapping cycles, crashes, failed writes that may be stored, leases by the clock that nothing renews | `SmsOutbox` |
| Redis, rate limits, configuration, start and stop (`redis`, `middleware/rate-limit`, `config/env`, `server`) | one counter per key, connections, calls in flight | count, answer, fail open or closed, reconnect, start, shut down | lost and repeated counts, outages, restarts, stray keys | `RateLimits` |
| audit (`modules/audit`) | one hash chain and head per UTC day, checkpoints; row locks of every transaction | append, commit, roll back, verify | the head is the last lock but one; midnight; verification of a growing chain | `AuditTrail` over `RowLocks` |
| GPS events, views, request validation, metrics, API description, scripts | nothing a decision reads | appends or none | — | not modelled, see section 6 |

How they interact: an operation of a job locks the job row first (`SELECT ...
FOR UPDATE`), then what belongs to the job, and works in one transaction. So one
operation is one action. The exceptions are where the hazards are:

* **Evidence uploads** register a PENDING row (transaction 1), write the object
  outside any transaction, and finalize the row (transaction 2). Anything may
  happen between: each part is an action, `uploads[e]` says where the request
  stands.
* **Close and confirm requests** check the gate, stat the stored objects, and
  only then open the transaction that checks the gate again. `requests[q]` says
  which checks a request has passed. `VerifyObjects` looks at all objects in one
  step; the code loops, but nothing decided later depends on the order.
* **Reconciliation** locks only the evidence row; **customer and vehicle edits**
  only their own row; **the risk policy** its own tables.
* **STOP decisions** call the risk service in their transaction
  (`linkStopRejectionRisk`, `resolveStopRisk`): the effect is part of the
  decision's action, and when it refuses, the whole decision does.
* **An authenticated request** reads its session row without a lock
  (`PresentToken`), then rotates, refreshes or revokes in a statement or
  transaction of its own, then reads the account (`Authenticate`), and only then
  runs its handler. Each is an action; `requests[q]` holds what was read. Login
  reads account and branch before it locks the account.
* **A check before the transaction.** Creating a user, a registration request, a
  branch, a vehicle, a template or a matrix checks for a free name first and
  inserts later; a product is saved from a form read long before. Check and
  insert are two actions; what decides at the insert is a unique index where the
  schema has one and nothing where it has none.
* **Every statement of a transaction** is an action in `RowLocks`, because there
  the order of locks is the question: a transaction walks through the locks the
  code takes, through the head of the audit chain, to its commit. A deadlock is a
  cycle of waiting transactions, of which the database ends one (`Victim`).
* **A delivery** of the worker is five steps (claim, read, send, answer, verdict)
  of a cycle that other cycles and processes do not wait for, nor the clock of its
  lease, and the verdict is written by id, whoever has the row by then; a **count** of the
  limiter is a call to Redis with an answer that may be lost after it counted.

The parts share little. Jobs and accounts meet only in who may act: the
execution guard of a job reads the user of the request, which `JobSystem` takes
from a set. A job sees the published version of a template as a constant and the
risk policy as "some matrix is ACTIVE"; `Templates` and `RiskPolicy` have what
happens behind that. The audit chain meets everything in its locks, which is why
`RowLocks` has the lock sequences of jobs, risks, signatures, catalogue and login
side by side.

## 2. Modules

| module | models | state and actions |
|---|---|---|
| `JobState` | the tables of one job, `job-cycle.ts`, the execution guard, the gate `validateJobCompletion`, the signable summary | all variables; `IsReopenCycle`, `CanExecuteJob`, `RelevantAttempt`, `CanComplete`, `Summary`, `SignatureFresh`; `TypeOK` |
| `Jobs` | `jobs.service.ts`, `assignment.service.ts`, customer and vehicle edits | `CreateJob` ... `Unassign`, `EditRegistry` |
| `Checklist` | `execution.service.ts` | `AssignChecklist`, `CompleteStep`, `RedoStep` |
| `Risks` | `risk.service.ts`, activation in `risk-policy.service.ts` | `CreateRisk`, `ResolveRisk` (override changes the row alike), `ReviseRisk`, `LinkStopRejectionRisk`, `ResolveStopRisk`, `ActivateMatrix`, `RetireMatrix` |
| `Stops` (extends `Risks`) | `stop.service.ts` | `ApproveStop`, `RejectStop`, `ReworkStop` |
| `Evidence` | `photos.service.ts`, `saveSignature`, `reconcile.service.ts`, the storage | `RegisterPhoto`, `RegisterSignature`, `PutObject`, `PutObjectFails`, `MarkFailed`, `FinalizeUpload`, `DeleteObject`, `PromoteLegacy`, `FailLegacy`, `FailLost`, `FailStale`; faults `UploadDies`, `LoseObject` |
| `Completion` | `completion.service.ts` | `CheckClose`, `CheckConfirm`, `VerifyObjects`, `CloseJob`, `SubmitForReview`, `ConfirmQuality`, `ReopenJob`, `AbandonRequest` |
| `CompletionLedger` | nothing: the abstract promise of a completion | `Seal`, `Review`, `Reopen`, `Abandon` |
| `JobSystem` | all of it together | initial states, `Next`, `Spec`, `FairSpec`, the properties, the refinement mapping to `CompletionLedger` |
| `Sessions` | `session.service.ts` | `users`, `activeBranches`, `sessions`, `requests`, `now`; `PresentToken`, `DetectReplay`, `ReadForLogout`, `RevokeFamily`, `RotateSession`, `RotationLost`, `RefreshSession` |
| `Accounts` (extends `Sessions`) | `auth.service.ts`, the authentication middleware, `users.service.ts`, the status of a branch | `FindUserByPhone`, `Login`, `Authenticate`, `ChangePassword`, `BlockUser`, `UnblockUser`, `UpdateUser`, `ConfirmReset`, `ResetUserPassword`, `DeactivateBranch`, `ActivateBranch`, `EndRequest`, `Tick`; `AccountsSpec`, the properties |
| `RowLocks` | the lock order of eight operations (`startJob`, `resolveRisk`, `approveStop`, `finalizeSignature`, `reopenJob`, `createProduct`, `updateProduct`, `login`), row locks, deadlocks | `Begin`, `LockRow`, `LockHead`, `Rollback`, `Victim` |
| `AuditTrail` (extends `RowLocks`) | `audit.service.ts`, `audit-chain.ts`, `audit-verify.ts` | `ChooseChain`, `AppendEntry`, `Commit`, `Midnight`; `StartVerify`, `VerifyPage`, `ReadHeads`, `CompareHead`, `FinishVerify`; the fault `Damage` |
| `SmsOutbox` | `outbox.service.ts`, `sms.worker.ts`, the outbox part of `cleanup.service.ts`, the migration that retires recovery messages | `EnqueueOtpSms`, `RunOnce`, `Claim`, `ReadClaimed`, `CancelTooOld`, `Send`, `MarkTerminal`, `ScheduleRetry`; the failed writes `ClaimLost`, `VerdictLost`, `DoubtAcceptance`, `WriteOverAcceptance`; `StopWorker`, `Exit`, `Crash`, `StartWorker`; `RunCleanup`, `RetireRecoverySms`, `Tick` |
| `RateLimits` | `rate-limit.middleware.ts`, `redis.ts`, start rules of `env.ts`, life of a process in `server.ts` | `Receive`, `Execute`, `Decide`, `CommandFails`, `ConnectionLost`, `Reconnect`, `RedisCrash`, `RedisUp`, `WindowTick`; `StartServer`, `ConnectRedis`, `ConnectFails`, `Shutdown`, `CloseRedis`, `Kill` |
| `Templates` | `templates.service.ts`, the reads of `assignChecklist` | `CheckName`, `CreateTemplate`, `CreateVersion`, `PublishVersion`, `ArchiveVersion`, `DeleteTemplate`, `AddStep`, `UpdateStep`, `DeleteStep`, `MoveStep`, `ReadPublished`, `InsertChecklist` |
| `RiskPolicy` | `risk-policy.service.ts`, `risk-matrix.ts`, the scoring of `risk.service.ts` | `CheckMatrixVersion`, `CreateMatrixVersion`, `ActivateMatrix`, `RetireMatrix`, `AssessRisk`, `StoreRisk`; `Classify` and `ComputeRisk` |
| `Catalog` | `products.service.ts`, `services.service.ts`, `import.service.ts`, `reference.service.ts`, `injection.service.ts` | create, open, save, archive and delete items; create, rename, archive and delete reference rows; `StartImport`, `ApplyImport` |
| `Registration` | registration in `auth.service.ts`, `registration.admin.service.ts`, `createUser` | `CheckRequest`, `CreateRegistrationRequest`, `ApproveRequest`, `RejectRequest`, `CheckUser`, `CreateUser`, `ChangePhone`, `ToggleBranch` |
| `Registry` | `branches.service.ts`, `customers.service.ts`, `vehicles.service.ts` | `CreateCustomer`, `CheckBranch`, `CreateBranch`, `CheckVehicle`, `CreateVehicle`, `UpdateBranch`, `UpdateCustomer`, `UpdateVehicle`, `WriteEdit` |
| `MCJobSystem`, `MCAccounts`, `MCAuditTrail`, `MCRuntime`, `MCAdministration` | what the configurations choose from | `MCRuntime` and `MCAdministration` run several components; `MCAccounts` chooses at the start whether a behaviour follows one account or all |
| `WorkflowProofs`, `EvidenceProofs`, `SealProofs` (each extends the one before), `AccountProofs`, `AdministrationProofs`, `CatalogProofs`, `AuditProofs`, `RuntimeProofs` | the theorems | |

Choices a reader should know:

* **One job.** The job row's lock separates jobs; nothing in these services
  reads another job's rows.
* **Text is gone.** Notes, file names, audit rows and the assignment history
  are left out: no decision reads them. Measured values become "a measurement
  of this attempt is stored"; a value out of range refuses the whole step.
* **A risk is its blocking flag.** Which scores block depends on the matrix and
  on numbers a caller sends: `Assessments` offers both outcomes, except when a
  `STOP_REJECTED` override fixes one.
* **A digest is its summary.** Two SHA-256 digests of canonical JSON agree
  exactly when the summaries do; `NoDigest` is the NULL of old rows, which
  `assertSignatureFresh` lets pass.
* **A customer signs what they see.** A client may send the digest of the
  summary it displayed; when it does not, the server binds the current one.
  Both end with the digest of the moment of registration.
* **Time** is the database clock in whole seconds (`closed_at`, `reopened_at`
  are TIMESTAMPs); a transaction falls in the current second or the next.
* **Initial states** are a job not yet opened, or (`LegacyJob`) what migration
  `20260816000019` leaves of an older job: UNVERIFIED evidence whose objects may
  be stored, missing or altered, and a signature without digest.
* **A password is the number of times it was set**, so two passwords agree
  exactly when bcrypt says so. A session row carries the password its family was
  opened with: no column, it is what `SessionsMatchPassword` compares.
* **Session rows are numbered as they are stored**, where the code draws a UUID.
  The family of a login is its own number.
* **One clock** for the durations of sessions: the database's and the server's
  are taken to agree. Expiry, idling, rotation, grace and temporary passwords are
  compared with it as the code compares them.
* **Atomic account operations.** Every operation that changes an account locks
  its row and works in one transaction; blocking and changing a role lock the
  active administrators first, which is why `AnotherAdminThan` reads the rows as
  they are. A statement that revokes and a transaction that rotates are serial:
  at REPEATABLE READ, the default, an UPDATE over the family or the user locks
  the index range a successor would go into. `resolveRoleAndBranch` reads the
  status of a branch without locking it; the model reads it with the transaction.
* **Two operations stand for all requests.** `ADMINISTER` is every handler that
  needs an administrator, `CHANGE_PASSWORD` the one that a temporary password
  may reach; a handler that only reads is `EndRequest`, like a refusal or the end
  of the process, whose open transaction is rolled back. Any role that cannot
  administer is `USTA`.
* **One part per behaviour.** `MCRuntime` and `MCAdministration` put components
  together that share no table and no process state. A behaviour chooses one of
  them at the start (`part`) and runs only that; the instance is their sum, not
  their product, and no property relates two of them.
* **A hash is what is hashed.** In `AuditTrail` a hash is the tuple of the hashed
  values, so two are equal exactly when their inputs are. The keyed signature of
  a checkpoint is left out: a checkpoint is a row nobody changes.
* **Durations count down.** A row of the outbox keeps the ticks until it is due,
  too old, and free of its lease; a counter keeps the ticks of its window. No
  absolute time and no bound on it is needed, and the worker's, the database's
  and Redis's clocks are taken to run alike.
* **A lease may end during a delivery.** Nothing renews a lease or bounds a batch
  by it (20 rows, 5 at a time, up to 15 s each, against 60 s), and a verdict is
  written by id without asking whose the row is. So `Tick` may take the lease from a
  row that a cycle still has; the cycle goes on, another one may claim the row, and
  both write their verdicts. `overruns[i]` counts how often it happened to a message,
  and the properties of the outbox say what each time may cost. One thing is assumed:
  a message past its retention (30 days by default) is not being sent any more when
  `RunCleanup` deletes its row.
* **A write that fails may have been stored.** A verdict that follows a failure of
  the send, or CANCELLED, ends the cycle either way (`VerdictLost`). SENT is written
  inside the `try` of the send: when that write fails the cycle is `doubted`, and
  writes RETRY or FAILED over the row (`DoubtAcceptance`, `WriteOverAcceptance`).
* **One key of one limiter.** Counters of different keys never meet, so a
  behaviour follows one. `admitted` counts the requests let through that the
  current window counted; a count from an earlier window belongs to that window. A
  Redis that lost its data starts a new window, before the old one would have ended.
* **A matrix is its definition**: thresholds, blocking levels, overrides. The
  model keeps the arithmetic of `Classify`, because coverage of the scale and
  agreement with `risk-matrix.ts` are the properties.
* **A row of a form** (`Catalog`) is the whole item the administrator read;
  prices, names and codes are members of small sets. A deleted row keeps its id.
  The rows a file adds are inserted in any order, since no decision reads the order.
* Definitions commented *Mutant* are deliberate bugs that show a property can
  fail; no specification uses them.

## 3. Properties and runs

Nine runs must pass, three must find a violation (section 5). Together the nine
take every action of every module.

| run | configuration | what it shows |
|---|---|---|
| `workflow` | 3 steps, STOP 2 and 3, measurements on 1 and 3; 2 installations; a technician and a second user, 2 attempts, 2 cycles, 2 seconds, 2 risks, both kinds of matrix | the workflow's rows agree through every mix of submission, decision, rework, redo, reopening and policy change |
| `sealing` | 1 STOP step, 2 close/confirm requests, 2 signatures, 2 customer rows, crashes, 2 cycles | the completion keeps its promises under races, and implements `CompletionLedger` |
| `evidence` | a technician and a master, 2 steps each needing a photo, limit 1, 3 photos, 1 signature, crashes, failed puts, failed deletes | uploads racing the workflow never corrupt the evidence of an attempt |
| `legacy` | a migrated job, 2 photos, 2 signatures, objects lost or altered | reconciliation never lets rejected evidence count again, and a completion names its own evidence |
| `uploads` | a STOP step, fair uploads, failed puts, 2 photos at a time, 1 signature | what was submitted for a decision gets no further photo, every upload settles, every acknowledged object is accepted or deleted |
| `accounts` | 2 administrators of one branch, 2 requests, 3 session rows, 3 passwords; rotation after 1, idle after 2, life 3; one account through 4 ticks, or both and their administration at two instants 2 apart with 2 session rows | sessions keep to the password, families are revoked whole and stay chains, an active administrator remains |
| `runtime` | outbox: 2 processes with 1 cycle each, 2 messages, 1 fault, 1 outlived lease, lease 2, age 2, 2 attempts. Limiter: 2 servers, 2 calls, limit 1, window 2, 1 outage, 5 environments, a fail-closed limiter in production and a fail-open one elsewhere | a message is sent again once at most for each fault or outlived lease, a verdict is changed by its own late or doubted write only, every message settles; limits hold over all servers and end |
| `audit` | 2 transactions, 2 days, pages of 1 row; of any of the 8 kinds, or of 3 kinds beside 1 verification and 1 damaged row | chains stay linked, the pages of a verification take no row in a growing chain for a broken link, damage stays visible, every transaction ends |
| `administration` | templates: 2 administrators, 2 templates, 3 versions, 4 step rows, 1 job. Policy: 2 versions, 3 definitions besides v1, 2 requests, 1 score. Catalogue: 2 items, 3 reference rows, 2 editors, 3 revisions of an item, a file that lists a row twice. Registration: 2 calls, 2 phones, 3 requests, 3 accounts. Registry: 2 desks, 3 rows, 5 audit entries | what two administrators do at once, in each of the five parts |
| `revise_after_close`, `redone_evidence`, `lock_order` | small | each refutes one sentence of the repository |

* `workflow`: `StopConsistency` (approval, step and job row of a STOP never
  disagree, at most one step waits or stands rejected); `HeaderMatchesSteps` (the
  cached header is exact); `CycleConsistency` (a job keeps to the working status of
  its cycle even when close and reopening share a second); `SubmittedInOrder`;
  `StopRiskFollowsDecision` (one open blocker per rejected step at most, none after
  approval); `DecisionsAreFinal`.
* `sealing`: `OneLiveSignaturePerCycle`, `ActiveSignatureIsCurrent` and
  `ImplementsLedger`: a cycle is sealed once, only as finished work without open
  blockers that was signed exactly as it stands, and a seal never changes.
* `evidence`: `DoneStepsPassTheGate` (an accepted step never fails the photo and
  measurement gate later, where no upload could repair it), `ReadyImpliesStored`,
  `PhotosWithinLimit`.
* `legacy`: `SealNamesItsOwnEvidence`, `FailedEvidenceIsFinal`.
* `uploads`: `SubmittedEvidenceOnlyShrinks`, `UploadsSettle`, `PutEndsAcceptedOrDeleted`.
* `accounts`: `SessionsMatchPassword` (a live session was opened with the password
  the account has now), `AnActiveAdminRemains`, `FamilyRevokedTogether` (no row
  lives on beside a revoked one of its family), `FamilyIsAChain` (one current row,
  sequence numbers that grow).
* `runtime`: `OneCyclePerMessage` (as long as no lease of the message was outlived),
  `RepeatsNeedAFault` (a person gets a message once more at most for each process that
  ended, write that failed or lease that was outlived), `VerdictsAreFinal` (the only
  write over a verdict is that of a cycle which still has the message: late, after an
  outlived lease, or after its SENT failed), `MessagesSettle` (liveness); `LimitsAreKept` (in production
  the limiters of login, registration and passwords let no more than the limit
  through in a window over all servers, whatever fails, and a limiter fails only
  after an outage, never because of a start or an orderly stop), `WindowsEnd`
  (liveness: nobody is locked out for ever).
* `audit`: `ChainsAreLinked` (no gap, no repetition, links, times in order, head
  and checkpoints right, through rollbacks and deadlocks), `PagesNeverAlarm` (of
  broken links; the comparison with the head is another matter, see section 5),
  `DamageStaysVisible`, `TransactionsEnd` (liveness).
* `administration`: `OneActiveVersion`, `ChecklistIsAWholeVersion` (the steps a job
  gets are those of one published version, whole and in order);
  `ActiveMatrixGoverns` (one active matrix, covering the scale, under which a
  CRITICAL hazard blocks), `ScoresStayReproducible`; `PriceHistoryIsLedger` (the
  entries lead from nothing to the price the item has), `CatalogHoldsTogether`,
  `NoLostUpdate` (a save replaces what its form showed, whatever a second editor, an
  archive or an import did meanwhile); `OneAccountPerPhone` (also: an approval has an account of its
  own); `RegistryAgrees` (one vehicle per plate and VIN, also when two requests
  write one after both found it free; the audit entries of a row
  lead, old value to new, from its creation to what it is).

**Deadlock** is checked in the job runs; a risk matrix can always be activated or
retired there, so it says little. The other runs turn it off, because the system
may really stop in them: when the administrators deactivate the branch of every
one of them nobody can log in any more (`BranchAdmits`), and every bounded part ends when its rows are used up.

**Why these bounds are enough to be interesting.** Two attempts and two cycles
make every "earlier attempt" and "earlier cycle" question arise; three steps put
a step before, at and after each STOP; two requests and two signatures are every
pairwise race; two seconds let a close and a reopening share one or not. The
bounds `MaxAttempt`, `MaxCycle`, `MaxClock`, `MaxPhotos`, `MaxSignatures` and
`MaxRisks` are guards or exhausted ids; the code has none of them, only
`MAX_PHOTOS_PER_ATTEMPT`, which `evidence` sets to 1 so that two uploads compete for the
last place, and `uploads` to 2, so that a step can be submitted beside an upload. In
`workflow` and `evidence` a second user keeps the technician from a step by being assigned: the execution guard only restricts who acts. Two risks are
a blocker and its successor. The installation of a job changes in `workflow` only:
in `sealing` it would be one more part of the signed summary beside the customer row,
which does change there. A failed put is looked at in `evidence` and `uploads`; in
`sealing` it would end a signature as a crash does.

In `accounts` two requests are enough for a request to be overtaken between its
authentication and its handler, by an operation on its own account or on its
target; three passwords let a change and a reset follow each other; three session
rows are a family rotated twice, or a rotation beside the family of a password
change. Four ticks are more than the life of a session: it is refreshed, rotated, its
superseded row comes back after its grace (`GraceFor = 0` accepts it in the tick of
its rotation), it idles out or expires. They are looked at for one account at a
time; with all accounts and their administration two instants suffice, as far apart
as a rotation needs, and two session rows, one for each account or a row and its
successor (`MCAccounts`).

In `runtime` two processes are every race between a worker and a lease recovery
elsewhere; one fault lets a message go out twice, and a second one only adds a
further repetition, which `RepeatsArePaidFor` covers for any number; an age of 2 with
a backoff of 1 lets a message end by attempts and by age. One outlived lease, of the
first message, puts two cycles on one row whose verdicts come in either order;
beside a second message it is only looked at without a fault (`LateWithinBounds`),
while the theorems hold for any number of either. Two cycles of one process race like
those of two processes, and the theorems hold for any number of both; that an
orderly stop waits only for the last of two overlapping batches (`inFlight`) costs
no property, because the lease then recovers the other. Two callers over two
servers and one outage make "counted, but the answer was lost, and counted again
after the reconnection" happen, together with a stray counter without expiry and a
Redis that comes back empty. In `audit` two transactions are every deadlock of two
locks and every race for a head; two days put a transaction's two entries on both
sides of midnight, and pages of one row make verification stop after every row. A
behaviour chooses at the start (`watched`) between all eight kinds of transaction
and three kinds beside a verification and a damaged row: those three write one entry
or two, and deadlock; the theorems hold for any mix. In `administration` two requests
in each part race for every name, and three versions, rows or accounts let one appear
after another was archived, deleted or renamed. Two editors with the same item open
and three revisions make either save come first and the other one stale. The two have
forms open at once only in a catalogue of one item without a planned import, and one
form is open beside a planned import only before further items and reference rows
(`FewFormsAtATime`). Five audit entries are a customer, two vehicles and two edits, so
an edit and an insertion, or two edits, race for a plate to the end and only the
unique index stops the second; customers are renamed only before there are vehicles
and within three entries (`RenamesComeFirst`). The two desks, who are also the two
editors, are interchangeable (`SYMMETRY`; this run has no liveness property). The
theorems do without any of this.
The bounds named `Max...` count rows inserted or changes made; the code has none.

**Fairness.** `FairSpec` (`uploads`) asks weak fairness of the remaining steps of
each upload (put, finalization, deletion): they run in one request handler of a
server that stays up, one `await` after the other, and nothing can disable them
for good. `CRASH` and `DELETE_FAIL` are off in the fair run: after a crash only
an operator's `reconcile --apply` settles the row (the shipped crontab is a dry
run), and the code deletes a refused object once, best effort.

`SmsFairness` asks weak fairness of the cycles of each worker, which the interval
timer runs again and again; of the start of a process that ended, which the
process manager in `deploy/ecosystem.config.cjs` restarts; of the end of an orderly
stop, which `server.ts` forces; and of time. Faults are bounded and not fair.
`LimitsFairness` asks only that time passes. `AuditFairness` asks that the next
statement of a transaction is sent when its lock is free, that the database ends
one transaction of each deadlock (InnoDB's detection), and that a verification goes
on. `AccountsSpec` and `AdministrationSpec` have no fairness: any request may stop
anywhere, and only safety is claimed. Liveness of people (that a master decides, an
administrator reviews) is not assumed and nothing is claimed of it.

## 4. Theorems

`WorkflowProofs`, `EvidenceProofs` and `SealProofs`, for every value of the constants allowed by
`BoundsAssumption` (bounds are naturals, at least one step, attempt, cycle and
second), `TemplateAssumption` (STOP and measured steps are steps, photo
requirements are naturals) and `ActorsAssumption` (masters are users, kinds of
matrix are the two known ones):

| theorem | says |
|---|---|
| `TypeCorrect` | `Spec => []TypeOK`, the types of every row, on which the others rest |
| `StopRowsAgree` | `Spec => []StopConsistency` |
| `HeaderIsExact` | `Spec => []HeaderMatchesSteps` |
| `CycleIsKept` | `Spec => []CycleConsistency` |
| `SequenceIsKept` | `Spec => []SubmittedInOrder` |
| `DecisionsStand` | `Spec => DecisionsAreFinal` |
| `FailedIsFinal` | `Spec => FailedEvidenceIsFinal` |
| `ReadyIsStored` | `Spec => []ReadyImpliesStored`, if the storage loses nothing |
| `OneSignaturePerCycle` | `Spec => []OneLiveSignaturePerCycle`, for a job opened here |
| `SignaturesEndWithTheirCycle` | `Spec => []ActiveSignatureIsCurrent`, for a job opened here |
| `LimitOfPhotosIsKept` | `Spec => []PhotosWithinLimit`, for a job opened here |
| `SubmittedEvidenceIsClosed` | `Spec => SubmittedEvidenceOnlyShrinks`, for a job opened here |
| `DoneWorkPassesTheGate` | `Spec => []DoneStepsPassTheGate`, for a job opened here, if the storage loses nothing |
| `SealsOwnTheirEvidence` | `Spec => []SealNamesItsOwnEvidence` |
| `RisksFollowDecisions` | `Spec => []StopRiskFollowsDecision` |
| `LedgerIsImplemented` | `Spec => ImplementsLedger`, for a job opened here: the refinement of `CompletionLedger` |

"For a job opened here" is the assumption `~LegacyJob`, "loses nothing" is
`"LOSS" \notin Faults`: the constants of the runs that check the same property, and
both are needed (a migrated job may have two signatures, see section 5, and an
object that is lost is not there).

`AccountProofs`, for every value of the constants allowed by
`DurationsAssumption` (durations are naturals, lives positive),
`AccountBoundsAssumption` and `AccountsAssumption` (some account starts as
administrator; the NULLs are no accounts or branches):

| theorem | says |
|---|---|
| `AccountsTypeCorrect` | `AccountsSpec => []AccountsTypeOK`, likewise |
| `SessionsFollowThePassword` | `AccountsSpec => []SessionsMatchPassword` |
| `AdminsSurvive` | `AccountsSpec => []AnActiveAdminRemains` |
| `FamiliesEndTogether` | `AccountsSpec => []FamilyRevokedTogether` |
| `FamiliesAreChains` | `AccountsSpec => []FamilyIsAChain` |

`AdministrationProofs`, for every value of the constants allowed by
`RegistryAssumption`, `PolicyAssumption` and `TemplateBounds` (bounds are naturals,
`NoVin` is no VIN, the seeded version is a version, thresholds are integers):

| theorem | says |
|---|---|
| `OneAccountEach` | `RegistrationSpec => []OneAccountPerPhone` |
| `RegistryAndAuditAgree` | `RegistrySpec => []RegistryAgrees` |
| `OneMatrixGoverns` | `PolicySpec => []ActiveMatrixGoverns` |
| `ScoresAreReproducible` | `PolicySpec => []ScoresStayReproducible` |
| `OneVersionIsActive` | `TemplateSpec => []OneActiveVersion` |
| `ChecklistsAreWhole` | `TemplateSpec => []ChecklistIsAWholeVersion` |

`CatalogProofs`, for every value allowed by `CatalogBounds` (bounds are naturals,
`NoPrice` is no price) and `CatalogRows` (what the columns allow, and that the first
reference rows obey the unique index of their names):

| theorem | says |
|---|---|
| `HistoryIsLedger` | `CatalogSpec => []PriceHistoryIsLedger` |
| `CatalogStaysWhole` | `CatalogSpec => []CatalogHoldsTogether` |
| `NoUpdateIsLost` | `CatalogSpec => NoLostUpdate` |

`AuditProofs`, for every value allowed by `OperationsAssumption` (the operations are
among the eight) and `AuditBounds` (bounds are naturals, pages are not empty, there is
a day, days are no NULL):

| theorem | says |
|---|---|
| `ChainsStayLinked` | `AuditSpec => []ChainsAreLinked` |
| `PagesStaySilent` | `AuditSpec => []PagesNeverAlarm` |
| `DamageIsSeen` | `AuditSpec => []DamageStaysVisible` |

`RuntimeProofs`, for every value allowed by `BoundsAssumption` of `SmsOutbox` and
`LimitsAssumption`, and for finite sets of processes, of cycles (`FiniteCycles`) and of
callers. Nothing is assumed of how long a delivery takes:

| theorem | says |
|---|---|
| `OneCycleSends` | `SmsSpec => []OneCyclePerMessage` |
| `RepeatsArePaidFor` | `SmsSpec => []RepeatsNeedAFault` |
| `VerdictsStayFinal` | `SmsSpec => VerdictsAreFinal` |
| `LimitsHold` | `LimitsSpec => []LimitsAreKept` |
| `BackendsAgree` | the memory store counts a request as the Redis script does, once an expired entry is taken for a missing one |

*Types.* The one hard fact is that `RelevantAttempt`, the greatest attempt with
an approval, exists and is an attempt (`LatestInIsGreatest`, by well-founded
minimality of the distance to the bound); the summary, digests and snapshots
follow.

*Workflow.* The four invariants are not inductive one by one. `WorkflowInv`
conjoins them with three facts:

* `UntouchedUntilAssigned`: before a checklist is assigned every step is pending
  at attempt 1; without it the assignment could reset a step that waits.
* `UnsubmittedAttemptsOpen`: a pending step's attempt, and every later one, has
  no approval yet; without it a submission could overwrite a decision. Rework and
  redo keep it because both count the attempt up.
* `ReopenedAfterClose`: in a later cycle `reopened_at` is not before `closed_at`
  and not NULL, until the next close; without it a STOP decision in the reopened
  cycle could restore `IN_PROGRESS`.

`WorkflowInit` and `WorkflowStep` (one lemma per action that moves a step or the
job, `UnchangedKeepsWorkflow` and `StatusKeepsSteps` for the others) make it an
invariant; `DecisionStep` derives the action property from the same facts.

*Evidence.* `UploadInv` ties an upload to its row: while a request writes an object
or waits for the answer, its row is PENDING or was failed meanwhile, an object is
deleted only under a FAILED row, and an acknowledged put is stored. It leaves two
ways for a row to change its status, a registration and a settlement
(`EvidenceEffect`). From it follow that failed rows stay failed, and that used rows
keep their step, attempt and cycle (`RowsKeepTheirOrigin`). Signatures need that
nothing of a job opened here is UNVERIFIED (`NothingUnverified`) and that whoever
signs has a digest. `LimitInv` counts by `FewerPhotos`, since a step adds one photo
or none. The gate is not inductive alone: it is asked of done steps, while a redone
step is judged by what it was done with before, so `GateInv` speaks of every step
that was touched; and it needs that ordinary steps have no decisions
(`OrdinaryStepsUndecided`), since the attempt a step is judged by is the greatest
one that was submitted.

*Seals.* `SealInv` is kept because accepted or failed rows stay that
(`SettledStays`) and keep their origin. `RiskInv` adds to the property that no open
risk is of a cycle to come; a reopening then starts without one. For the ledger,
`PhaseStep` sorts the steps of the system into those the ledger does not see and
its four actions, and `SealedWhenCompleted` shows that a completion finds no seal
of its cycle, so the keeping of an existing snapshot in `FinalizeSnapshot`
never hides a second completion.

*Templates.* `VersionsInv` adds to the property that ids are used in order and bound
the numbers of versions, so the version `createVersion` copies, the one with the
greatest number, exists and its successor is new. `Numbered(S, n)` says that steps
carry the orders 1..n, each once; one lemma for each edit of a draft shows that it
stays so, from `CountUpTo`: as many steps come up to an order as it says.
`PublishedStays` makes what an assignment has read still true when it inserts.

*Accounts.* `AccountsInv` adds to the types that the row and the account a request
has read exist, and that rows are stored in the order of their numbers with their
roots: a new login can join no stored family. `StepEffects` sorts every step by
what it does to the session rows (nothing, revoking accounts, revoking a family,
a rotation, a new family) and to the passwords; the step lemmas of
`SessionsMatchPassword` and of the families go by its five cases. The family
properties need a third one, `FamilyHasOneUser`: without it revoking the rows
of an account could cut a family in two. A rotation keeps the chain because a
current row is the last of its family, which is `FamilyIsAChain` itself.
`AnActiveAdminRemains` goes by the actions that write a status or a role.

*Administration.* `RegistrationInv` adds to unique phones that an approval names an
account that exists and that no two name the same. `RegistryInv` adds that a
desk that edits holds the row it copied (`EditsHoldTheirRow`): no other desk can
have its lock, so the old values of its audit entry are the row's. `HistoryGrows`
is the one lemma about chains of entries; creation and edit both cite it.
`PolicyInv` keeps the definition of a matrix that exists for ever, which makes a
stored score computable again; `ValidCoversTheScale` shows that the validation of a
definition, which looks at a finite table, is enough for every number a caller may
send, and `SeededIsThePolicy` that v1 is the policy of `risk-matrix.ts`.

*Catalogue.* `CatalogInv` states the two properties over all rows (`Ledgers`,
`ItemsNameRefs`, `CodesApart`, `NamesApart`) and adds what is remembered across
transactions. `Forms`: an open form shows an item as it was at a version, and a row
still at that version *is* what the form shows; versions only grow, so the version
check of a save is a comparison of rows, which is `NoUpdateIsLost`. `PlanOK`: a row an
import found under a name keeps its kind as long as it is kept, and different names
found different rows. Three lemmas carry the operations: `RefsStep` (a reference row
changes: whoever is named keeps its kind), `ItemStep` (one item changes with its
history) and `Growth` (rows are appended), which a creation and an import share. For
the import, `ImportedRefs` shows that every name of the plan gets one id and no two
names the same, whether found or created, so that planned rows with different codes or
companies cannot clash once their names are ids; `SetListed` supplies that `SetToSeq`
lists a finite set, each element once.

*Audit chain.* `AuditInv` needs the locks: `LocksSeparate` says that no two
transactions hold conflicting locks, so the entries a transaction has written under
the lock of a head continue that head until it commits (`EntriesContinue`), and were
written no later than now (`WrittenByNow`), which orders the times although a clock is
read before the commit. `VerifyInv` says that a verification in the middle of a chain
stands at a row of it and carries that row's hash; appending keeps this, so every page
continues where the last one ended. `DamageLeavesATrace` is stronger than its property
and inductive: once there was damage, some chain is shorter than its head says or
holds an altered row; an append only continues from the head, and repairs neither.

*Outbox.* `SmsInv` conjoins types with `HeldUnderALease` and `HeldByOne` (a message
none of whose leases was outlived has one cycle at most, and its row is PROCESSING
under a lease that runs, or SENT by a write taken for failed), `DownIsIdle` and
`FaultsPayForRepeats`. The last is the interesting one. After an outlived lease
several cycles have a message at once and each may still send it or queue it, so
texts alone are not inductive. `Expected(i)` counts the texts of a message, plus the
cycles that may still add one (`Open`), plus one when a cycle can claim its row, now
or after the lease (`Waiting`). Every step leaves this number alone or lowers it,
except an outlived lease (one more, for its message) and a failed write of SENT (one
more, for a fault). Faults of a process are counted when it *starts* to stop, while
the repetition comes later, so the processes that are stopping are added on the side
of the texts. `HandMoves` and `HandsAreStill` carry this: what one step of one cycle,
or a step of no cycle, does to `Open` and `Waiting`. `VerdictsStayFinal` follows from
`HeldUnderALease`: without an outlived lease, only a doubted cycle has a settled row.

*Limiter.* `LimitsInv` adds to types that a process that runs was allowed to start
(so production has a Redis), that requests are only in servers that run, with a
connection, and that a lost connection was an outage. `NumbersAreApart` bounds the
requests let through *plus* the counted calls of this window whose answer is on the
way and within the limit: their counts are different numbers up to the shared
count, because each count was handed out once. Fail-closed means a lost answer
only wastes a number.

**Only model-checked**: liveness under fairness (`UploadsSettle`,
`PutEndsAcceptedOrDeleted`, `MessagesSettle`, `WindowsEnd`, `TransactionsEnd`), which
with `ENABLED` is out of the prover's reach. Every other property of a passing run,
invariant or action property, is stated by a theorem, under the specification of its
component (the runs restrict it where section 3 says so). What a recursive definition
computes for every input cannot be proved either; the modules have no recursive
operator, and where the audit log once filtered sequences it now takes the part of a
sequence after a position, about which the prover can reason.

## 5. Where the code and its documentation disagree

* `revise_after_close` — `risk.service.ts:32` says completed jobs cannot receive
  new risks. `reviseRisk` inserts a superseding risk on a job in any status, and
  the new one may be blocking.
* `redone_evidence` — `docs/EVIDENCE-STORAGE-10B.md:81` says attempt-1 evidence
  can never satisfy attempt 2. The gate, the object check and the summary judge a
  step without STOP decisions by attempt 1, so a step redone after a reopening
  completes on its first photos; and a signature given before that redo stays
  fresh.
* `lock_order` — `docs/AUDIT-INTEGRITY-10F.md:55` says the audit head is always the
  last thing locked and can never deadlock, `auth.service.ts:69` that no deadlock is
  possible. The audit row names its user under a foreign key, so its INSERT needs
  the user's row after the head: a login of a user holds that row and waits for the
  head, an operation of the same user holds the head and waits for the row. The
  database ends one of them (`TransactionsEnd` holds), so the cost is an error
  where the documents promise none.

Seen while modelling, and not a run of their own:

* Reconciliation can give a migrated job a second active signature beside one the
  customer gave meanwhile (`promoteReady` takes only the evidence row;
  `completion.service.ts:406` promises one). `OneLiveSignaturePerCycle` is therefore
  checked on jobs that are not migrated.
* `changePassword` checks the password on the locked account row but, unlike
  `login`, not its status: an account blocked between `requireAuth` and the
  transaction gets a live session, refused until the account is unblocked.
* `createBranch` and `updateBranch` check the name before the transaction and the
  schema has no unique index on it: two branches can get one name. `RegistryAgrees`
  says nothing of branch names.
* Two registration requests of one phone can be pending at once, for the same
  reason; the second approval is refused, and the request has to be rejected.
* Risk operations lock the risk row before the job row although the header of
  `risk.service.ts` says the opposite; `finalizeSignature` locks its row before the
  job, reopening after it. Both deadlock in `audit`, and the database resolves it.
* The outbox repeats a text without a crash: a slow batch outlives its lease, which
  nothing renews, and a SENT that was stored but reported as failed is queued again
  (`sms.worker.ts:139`). The worker avoids a duplicate after an ambiguous answer of
  the gateway (line 125) but promises nothing in these two cases.
* A verification can report a head mismatch, and `ok` false (`audit-verify.ts:139`),
  in an intact log: it reads the heads in one statement (127) and the last row of
  each chain in a later one (133), and an append may be committed between them.
  `verify.mismatch` keeps this apart from a broken link; no property promises that
  it is right.
* QUALITY_REVIEW's only exit needs a fresh signature that cannot be given there; a
  rejection needs an ACTIVE matrix while an approval does not; objects of FAILED
  rows are left to a reconciliation that never deletes; `rotateSession` cannot tell
  a lost race from a revoked session; administrators who are all on deactivated
  branches lock everybody out, while `lockActiveAdminIds` still counts them.

## 6. Not modelled

* **OpenAPI description** (`openapi/spec.ts`, the longest file): a literal.
* **GPS events**: rows appended to a table no decision reads.
* **Read-only views** (quality, job evidence, health): they change no state.
* **Observability**: counters and logs no decision reads.
* **Request validation, CSRF header, cookies, error answers**: no state; the models
  take inputs that passed validation.
* **Import source parsing, normalisation, image and phone utilities**: functions of
  text. The import starts with the parsed file.
* **Operations scripts and seeds**: run by an operator beside the server. The two
  that matter to a module are in it: `reconcile --apply` in `Evidence`, the audit
  verification in `AuditTrail`.
* **Partly**: object storage (what the uploads use of it), maintenance (its outbox
  statements; the sessions it deletes are long expired), configuration (the rules
  that stop a production start), the database schema (keys the models rely on).
