---------------------------- MODULE AuditTrail -----------------------------
(* The audit log as one hash chain per UTC day (src/modules/audit): entries  *)
(* appended inside business transactions under the lock of the day's head    *)
(* row, and the verification that pages through the chains while others      *)
(* append. A hash is the tuple of what is hashed: equal hashes, equal input. *)
EXTENDS RowLocks

CONSTANTS PageSize,         \* rows verifyChain reads at once
          MaxTxns,          \* bound: transactions begun
          MaxVerifications, \* bound: verifications begun
          MaxDamage         \* bound: rows changed or lost behind the program

ASSUME AuditBounds ==
    /\ PageSize \in Nat \ {0}
    /\ MaxTxns \in Nat /\ MaxVerifications \in Nat /\ MaxDamage \in Nat
    /\ Days \in Seq(STRING) /\ Days # <<>> /\ NoDay \notin Range(Days)

VARIABLES logs,        \* audit_logs: the committed rows of each chain, by seq
          heads,       \* audit_chain_heads
          checkpoints, \* audit_chain_checkpoints
          today,       \* the clock: the position of the day in Days
          verify,      \* the verification that runs
          damage,      \* rows changed or lost behind the program so far
          begun        \* transactions and verifications begun

chainVars == <<logs, heads>>
auditVars == <<txn, logs, heads, checkpoints, today, verify, damage, begun>>

-----------------------------------------------------------------------------
(* Entries and hashes                                                        *)

DaySet == Range(Days)
Today == Days[today]

Genesis(day) == <<day>>

\* Mutant: the hash leaves out what happened.
HashWithoutContent(e) == <<e.seq, e.prev, e.at>>

EntryHash(e) == <<e.seq, e.prev, e.what, e.at>>

EmptyHead(day) == [seq |-> 0, hash |-> Genesis(day)]

HeadAt(row) == [seq |-> row.seq, hash |-> row.hash]

(* The head as the transaction that holds its lock sees it.                  *)
HeadFor(t, day) ==
    LET own == txn[t].entries[day]
    IN  IF own = <<>> THEN heads[day] ELSE HeadAt(Last(own))

NewEntry(t) ==
    LET head == HeadFor(t, txn[t].day)
        row == [seq |-> head.seq + 1, prev |-> head.hash, what |-> txn[t].op,
                at |-> today, hash |-> <<>>]
    IN  [row EXCEPT !.hash = EntryHash(row)]

-----------------------------------------------------------------------------
(* Appending                                                                 *)

BeginTxn(t) ==
    /\ begun.txns < MaxTxns
    /\ Begin(t)
    /\ begun' = [begun EXCEPT !.txns = @ + 1]
    /\ UNCHANGED <<chainVars, checkpoints, today, verify, damage>>

(* utcChainId, by the clock of the process, before the head is locked.       *)
ChooseChain(t) ==
    /\ Logging(t) /\ txn[t].day = NoDay
    /\ Change(t, [txn[t] EXCEPT !.day = Today])
    /\ UNCHANGED <<chainVars, checkpoints, today, verify, damage, begun>>

(* The time is the database's and is read under the head lock; the insert    *)
(* then needs the user's row.                                                *)
AppendEntry(t) ==
    /\ Logging(t) /\ txn[t].day # NoDay
    /\ HoldsLock(t, Exclusive(txn[t].day))
    /\ Granted(t, Shared("user"))
    /\ Change(t, [txn[t] EXCEPT !.at = @ + 1, !.day = NoDay,
                                !.held = @ \cup {Shared("user")},
                                !.entries[txn[t].day] = Append(@, NewEntry(t))])
    /\ UNCHANGED <<chainVars, checkpoints, today, verify, damage, begun>>

Commit(t) ==
    /\ Runs(t) /\ AtEnd(t)
    /\ logs' = [d \in DaySet |-> logs[d] \o txn[t].entries[d]]
    /\ heads' = [d \in DaySet |-> HeadFor(t, d)]
    /\ Release(t)
    /\ UNCHANGED <<checkpoints, today, verify, damage, begun>>

TakeLock(t) ==
    /\ LockRow(t) \/ LockHead(t)
    /\ UNCHANGED <<chainVars, checkpoints, today, verify, damage, begun>>

Abandon(t) ==
    /\ Rollback(t)
    /\ UNCHANGED <<chainVars, checkpoints, today, verify, damage, begun>>

ResolveDeadlock(t) ==
    /\ Victim(t)
    /\ UNCHANGED <<chainVars, checkpoints, today, verify, damage, begun>>

Midnight ==
    /\ today < Len(Days) /\ today' = today + 1
    /\ UNCHANGED <<txn, chainVars, checkpoints, verify, damage, begun>>

-----------------------------------------------------------------------------
(* Verification                                                              *)

NotVerifying == [at |-> "idle", todo |-> {}, after |-> 0, prev |-> <<>>,
                 heads |-> <<>>, ok |-> TRUE, mismatch |-> FALSE]

SetVerify(value) ==
    /\ verify' = value
    /\ UNCHANGED <<txn, chainVars, today, damage>>

(* The chains are read in the order of their days.                           *)
First(days) ==
    Days[CHOOSE k \in DOMAIN Days :
            Days[k] \in days /\ \A l \in DOMAIN Days : Days[l] \in days => k <= l]

FirstPageOf(days) ==
    [verify EXCEPT !.todo = days, !.after = 0,
                   !.prev = IF days = {} THEN <<>> ELSE Genesis(First(days))]

(* The chains that have a row now.                                           *)
StartVerify ==
    /\ verify.at \in {"idle", "done"}
    /\ begun.verifications < MaxVerifications
    /\ SetVerify([FirstPageOf({ d \in DaySet : logs[d] # <<>> })
                     EXCEPT !.at = "chains", !.ok = TRUE, !.mismatch = FALSE])
    /\ begun' = [begun EXCEPT !.verifications = @ + 1]
    /\ UNCHANGED checkpoints

(* The next rows of a chain, which is kept in the order of seq.              *)
Page(d, after) ==
    LET read == Cardinality({ i \in DOMAIN logs[d] : logs[d][i].seq <= after })
        rest == Len(logs[d]) - read
    IN  SubSeq(logs[d], read + 1, read + (IF rest < PageSize THEN rest ELSE PageSize))

\* Mutant: each page is expected to start at 1.
PageHoldsFromOne(page, after, prev) ==
    \A i \in DOMAIN page :
        /\ page[i].seq = i
        /\ page[i].prev = IF i = 1 THEN prev ELSE page[i - 1].hash
        /\ page[i].hash = EntryHash(page[i])

(* Seq without a gap, prev links, and the hash of what is stored.            *)
PageHolds(page, after, prev) ==
    \A i \in DOMAIN page :
        /\ page[i].seq = after + i
        /\ page[i].prev = IF i = 1 THEN prev ELSE page[i - 1].hash
        /\ page[i].hash = EntryHash(page[i])

VerifyPage ==
    /\ verify.at = "chains" /\ verify.todo # {}
    /\ LET day == First(verify.todo)
           others == verify.todo \ {day}
           page == Page(day, verify.after)
           holds == PageHolds(page, verify.after, verify.prev)
       IN  SetVerify(
             IF ~holds THEN [FirstPageOf(others) EXCEPT !.ok = FALSE]
             ELSE IF Len(page) < PageSize THEN FirstPageOf(others)
             ELSE [verify EXCEPT !.after = Last(page).seq, !.prev = Last(page).hash])
    /\ UNCHANGED <<checkpoints, begun>>

ReadHeads ==
    /\ verify.at = "chains" /\ verify.todo = {}
    /\ SetVerify([verify EXCEPT !.at = "heads", !.heads = heads, !.todo = DaySet])
    /\ UNCHANGED <<checkpoints, begun>>

LastRow(d) ==
    IF logs[d] = <<>> THEN EmptyHead(d)
    ELSE HeadAt(Last(logs[d]))

CompareHead ==
    /\ verify.at = "heads" /\ verify.todo # {}
    /\ LET d == First(verify.todo)
       IN  SetVerify([verify EXCEPT !.todo = @ \ {d},
                                    !.mismatch = @ \/ verify.heads[d] # LastRow(d)])
    /\ UNCHANGED <<checkpoints, begun>>

(* The command, run with --checkpoint, then writes a checkpoint of every     *)
(* head as it is then, whatever the verification found.                      *)
FinishVerify ==
    /\ verify.at = "heads" /\ verify.todo = {}
    /\ SetVerify([verify EXCEPT !.at = "done", !.heads = <<>>])
    /\ checkpoints' = checkpoints \cup
          { [day |-> d, seq |-> heads[d].seq, hash |-> heads[d].hash] : d \in DaySet }
    /\ UNCHANGED begun

-----------------------------------------------------------------------------
(* A row is changed or lost behind the program.                              *)
Damage ==
    /\ damage < MaxDamage /\ damage' = damage + 1
    /\ \E d \in DaySet : \E i \in DOMAIN logs[d] :
          \/ logs' = [logs EXCEPT ![d][i].what = "altered"]
          \/ logs' = [logs EXCEPT ![d] = RemoveAt(@, i)]
    /\ UNCHANGED <<txn, heads, checkpoints, today, verify, begun>>

AuditInit ==
    /\ txn = [t \in Txns |-> NoTxn]
    /\ logs = [d \in DaySet |-> <<>>]
    /\ heads = [d \in DaySet |-> EmptyHead(d)]
    /\ checkpoints = {}
    /\ today = 1
    /\ verify = NotVerifying
    /\ damage = 0
    /\ begun = [txns |-> 0, verifications |-> 0]

TxnStep(t) == ChooseChain(t) \/ TakeLock(t) \/ AppendEntry(t) \/ Commit(t)

VerifyStep == VerifyPage \/ ReadHeads \/ CompareHead \/ FinishVerify

AuditNext ==
    \/ \E t \in Txns : BeginTxn(t) \/ TxnStep(t) \/ Abandon(t) \/ ResolveDeadlock(t)
    \/ StartVerify \/ VerifyStep
    \/ Midnight
    \/ Damage

AuditSpec == AuditInit /\ [][AuditNext]_auditVars

(* Statements of a transaction go on, and the database ends deadlocks.       *)
AuditFairness ==
    /\ \A t \in Txns : WF_auditVars(TxnStep(t)) /\ WF_auditVars(ResolveDeadlock(t))
    /\ WF_auditVars(VerifyStep)

FairAuditSpec == AuditSpec /\ AuditFairness

-----------------------------------------------------------------------------
(* Properties                                                                *)

(* Numbered without gap or repetition, each row linked to the one before it, *)
(* the times never going back, the head the last row.                        *)
LinkedChain(d) ==
    /\ heads[d] = LastRow(d)
    /\ PageHolds(logs[d], 0, Genesis(d))
    /\ \A i, j \in DOMAIN logs[d] : i < j => logs[d][i].at <= logs[d][j].at

(* A checkpoint names the genesis, or a row that stays as it was.            *)
CheckpointHolds(c) ==
    IF c.seq = 0 THEN c.hash = Genesis(c.day)
    ELSE c.seq \in DOMAIN logs[c.day] /\ logs[c.day][c.seq].hash = c.hash

(* Whatever transactions interleave, roll back or are chosen as a victim, at *)
(* midnight or not, every chain is a chain, in the order of time, and every  *)
(* checkpoint taken while they ran names a row of it.                        *)
ChainsAreLinked ==
    damage = 0 =>
        /\ \A d \in DaySet : LinkedChain(d)
        /\ \A c \in checkpoints : CheckpointHolds(c)

(* Paging through the chains while others append never finds a broken link.  *)
PagesNeverAlarm == damage = 0 => verify.ok

(* A row changed or lost behind the program stays visible: no later append   *)
(* makes the chain whole again.                                              *)
DamageStaysVisible ==
    damage > 0 =>
        \E d \in DaySet :
            heads[d] # LastRow(d) \/ ~PageHolds(logs[d], 0, Genesis(d))

(* Every transaction ends: nobody waits for ever, deadlocks included.        *)
TransactionsEnd == \A t \in Txns : Runs(t) ~> ~Runs(t)

(* auth.service.ts and the audit documentation: rows are locked in an order  *)
(* that leaves no deadlock with the audit chain.                             *)
HeadsAreNeverDeadlocked ==
    ~ \E S \in SUBSET Txns :
        WaitCycle(S) /\ \E t \in S : \E lock \in Needs(t) : lock.row \in DaySet
=============================================================================
