------------------------------ MODULE RowLocks ------------------------------
(* Database transactions as the row locks they take, in the order the code   *)
(* takes them, down to the audit entry. Locks are held until the transaction *)
(* ends; the database ends one transaction of every cycle of waiting ones.   *)
(* One row stands for the rows of a table that one job, product or user      *)
(* touches.                                                                  *)
EXTENDS Integers, Sequences, SequencesExt, FiniteSetsExt

CONSTANTS Txns,          \* concurrent transactions
          Operations,    \* the operations they run
          Days           \* the UTC days, in order: one audit head row each

VARIABLES txn            \* the transaction of each Txns

-----------------------------------------------------------------------------
(* Locks of the operations                                                   *)

Rows == {"job", "approval", "step", "header", "risk", "signature", "user",
         "company", "category", "product"}

Exclusive(row) == [row |-> row, mode |-> "X"]
Shared(row) == [row |-> row, mode |-> "S"]

(* A statement that appends an audit entry.                                  *)
Log == [row |-> "audit", mode |-> "X"]

(* A foreign key to users is checked under a shared lock of the user's row.  *)
StartJob == <<Exclusive("job"), Log>>
ResolveRisk == <<Exclusive("risk"), Exclusive("job"), Shared("user"), Log>>
ApproveStop == <<Exclusive("job"), Exclusive("approval"), Exclusive("step"),
                 Exclusive("risk"), Shared("user"), Log, Exclusive("header"), Log>>
FinalizeSignature == <<Exclusive("signature"), Exclusive("job"), Log>>
ReopenJob == <<Exclusive("job"), Shared("user"), Exclusive("signature"), Log, Log>>
CreateProduct == <<Exclusive("company"), Exclusive("category"), Shared("user"), Log>>
UpdateProduct == <<Exclusive("product"), Exclusive("category"), Exclusive("company"),
                   Shared("user"), Log, Log>>
Login == <<Exclusive("user"), Log>>

Locking == [startJob |-> StartJob, resolveRisk |-> ResolveRisk,
            approveStop |-> ApproveStop, finalizeSignature |-> FinalizeSignature,
            reopenJob |-> ReopenJob, createProduct |-> CreateProduct,
            updateProduct |-> UpdateProduct, login |-> Login]

ASSUME OperationsAssumption == Operations \subseteq DOMAIN Locking

-----------------------------------------------------------------------------
(* Transactions                                                              *)

NoDay == "none"

(* The audit entries a transaction has written, by the day of their chain.   *)
NoEntries == [d \in Range(Days) |-> <<>>]

NoTxn == [op |-> "none", at |-> 0, day |-> NoDay, held |-> {}, entries |-> NoEntries]

Runs(t) == txn[t].op # "none"
AtEnd(t) == txn[t].at > Len(Locking[txn[t].op])
Statement(t) == Locking[txn[t].op][txn[t].at]
Logging(t) == Runs(t) /\ ~AtEnd(t) /\ Statement(t) = Log

HoldsLock(t, lock) ==
    \E held \in txn[t].held :
        held.row = lock.row /\ (held.mode = "X" \/ lock.mode = "S")

Conflicts(u, lock) ==
    \E held \in txn[u].held :
        held.row = lock.row /\ (held.mode = "X" \/ lock.mode = "X")

(* The lock the next statement needs: its own, the head row of the day the   *)
(* entry was given, or the row of the user the entry names.                  *)
Needs(t) ==
    IF ~Runs(t) \/ AtEnd(t) THEN {}
    ELSE IF Statement(t) # Log THEN {Statement(t)}
    ELSE IF txn[t].day = NoDay THEN {}
    ELSE IF ~HoldsLock(t, Exclusive(txn[t].day)) THEN {Exclusive(txn[t].day)}
    ELSE {Shared("user")}

Granted(t, lock) == \A u \in Txns \ {t} : ~Conflicts(u, lock)

(* t waits for u.                                                            *)
Waits ==
    { w \in Txns \X Txns :
        /\ w[1] # w[2]
        /\ \E lock \in Needs(w[1]) : Conflicts(w[2], lock) }

(* Transactions each of which waits for another of them.                     *)
WaitCycle(S) == S # {} /\ \A t \in S : \E u \in S : <<t, u>> \in Waits

Change(t, value) == txn' = [txn EXCEPT ![t] = value]

Begin(t) ==
    /\ ~Runs(t)
    /\ \E op \in Operations : Change(t, [NoTxn EXCEPT !.op = op, !.at = 1])

(* A statement whose lock is held already goes on at once.                   *)
LockRow(t) ==
    /\ Runs(t) /\ ~AtEnd(t) /\ ~Logging(t)
    /\ Granted(t, Statement(t))
    /\ Change(t, [txn[t] EXCEPT !.at = @ + 1, !.held = @ \cup {Statement(t)}])

\* Mutant: the head is read without its lock.
LockHeadAtOnce(t) ==
    LET head == Exclusive(txn[t].day) IN
    /\ Logging(t) /\ txn[t].day # NoDay
    /\ ~HoldsLock(t, head)
    /\ Change(t, [txn[t] EXCEPT !.held = @ \cup {head}])

LockHead(t) ==
    LET head == Exclusive(txn[t].day) IN
    /\ Logging(t) /\ txn[t].day # NoDay
    /\ ~HoldsLock(t, head)
    /\ Granted(t, head)
    /\ Change(t, [txn[t] EXCEPT !.held = @ \cup {head}])

\* Mutant: a connection goes back to the pool with its transaction open.
KeepLocks(t) == Change(t, [NoTxn EXCEPT !.held = txn[t].held])

Release(t) == Change(t, NoTxn)

(* A refused guard, an error, a lost connection or a crash.                  *)
Rollback(t) == Runs(t) /\ Release(t)

(* The database ends one transaction of a cycle; the caller answers 409.     *)
Victim(t) ==
    /\ \E S \in SUBSET Txns : t \in S /\ WaitCycle(S)
    /\ Release(t)
=============================================================================
