---------------------------- MODULE MCAuditTrail ---------------------------
(* Instances of AuditTrail for TLC. What a behaviour looks at is chosen at   *)
(* the start: transactions of every kind, or a few kinds beside verification *)
(* and damage.                                                               *)
EXTENDS AuditTrail, TLC

CONSTANT WatchedOperations   \* bound: those that run beside a verification

VARIABLE watched             \* is there verification and damage?

watchedVars == <<auditVars, watched>>

OneDay == <<"d1">>
TwoDays == <<"d1", "d2">>
AllOperations == DOMAIN Locking

WatchedInit == AuditInit /\ watched \in BOOLEAN

WatchedNext ==
    /\ AuditNext
    /\ watched' = watched
    /\ IF watched
       THEN \A t \in Txns : Runs(t)' => txn'[t].op \in WatchedOperations
       ELSE begun'.verifications = 0 /\ damage' = 0

Watched(A) == A /\ UNCHANGED watched

(* AuditFairness, of steps that WatchedNext always allows.                   *)
WatchedFairness ==
    /\ \A t \in Txns :
          WF_watchedVars(Watched(TxnStep(t))) /\ WF_watchedVars(Watched(ResolveDeadlock(t)))
    /\ WF_watchedVars(Watched(VerifyStep))

WatchedSpec == WatchedInit /\ [][WatchedNext]_watchedVars /\ WatchedFairness
=============================================================================
