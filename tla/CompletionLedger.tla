-------------------------- MODULE CompletionLedger --------------------------
(* What a completed job promises, without how it is reached: each cycle is   *)
(* sealed at most once, what is sealed is finished work without an open      *)
(* blocking risk that the customer signed exactly as it stands, and a seal   *)
(* never changes afterwards, whatever happens to the job.                    *)
EXTENDS Naturals

CONSTANTS LastCycle, NoSeal

VARIABLES phase, cycle, seals

ledger == <<phase, cycle, seals>>

Acceptable(seal) ==
    /\ seal # NoSeal
    /\ seal.signed = seal.work
    /\ seal.unfinished = {}
    /\ seal.blockers = {}

Init ==
    /\ phase = "OPEN"
    /\ cycle = 1
    /\ seals = [c \in 1..LastCycle |-> NoSeal]

\* The first cycle is sealed straight from the work, a later one from review.
Seal ==
    /\ phase = IF cycle = 1 THEN "OPEN" ELSE "REVIEW"
    /\ phase' = "SEALED"
    /\ seals[cycle] = NoSeal
    /\ Acceptable(seals'[cycle])
    /\ seals' = [seals EXCEPT ![cycle] = seals'[cycle]]
    /\ UNCHANGED cycle

Review ==
    /\ phase = "OPEN"
    /\ cycle > 1
    /\ phase' = "REVIEW"
    /\ UNCHANGED <<cycle, seals>>

Reopen ==
    /\ phase = "SEALED"
    /\ phase' = "OPEN"
    /\ cycle' = cycle + 1
    /\ UNCHANGED seals

\* Only work that was never sealed can be abandoned.
Abandon ==
    /\ phase = "OPEN"
    /\ cycle = 1
    /\ phase' = "ABANDONED"
    /\ UNCHANGED <<cycle, seals>>

Next == Seal \/ Review \/ Reopen \/ Abandon

Spec == Init /\ [][Next]_ledger
=============================================================================
