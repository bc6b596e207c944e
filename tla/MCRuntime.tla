----------------------------- MODULE MCRuntime -----------------------------
(* An instance of the outbox and of the rate limiter for TLC. The two share  *)
(* no state but the life of a process, which each models for itself, so a    *)
(* behaviour runs one of them, chosen at the start.                          *)
EXTENDS SmsOutbox, RateLimits

VARIABLE part

runtimeVars == <<part, smsVars, limitVars>>

Live1 == [mode |-> "production", redisUrl |-> TRUE, proxyHops |-> 1,
          sms |-> "none", rest |-> TRUE, bypass |-> TRUE]

\* Production as it should be, without Redis, with the SMS stub, and the modes
\* that keep counters in memory or pass the limiter by.
Environments ==
    {Live1, [Live1 EXCEPT !.redisUrl = FALSE], [Live1 EXCEPT !.sms = "eskiz"],
     [Live1 EXCEPT !.mode = "development", !.redisUrl = FALSE, !.bypass = FALSE],
     [Live1 EXCEPT !.mode = "test"]}

\* Production is what the guarded limiters are for; a limiter that fails open
\* is followed where the counters are in memory or passed by.
GuardedWhereItCounts == Production <=> limiter \in FailClosed

OneLimiter ==
    /\ limiter = "api" /\ config = Live1
    /\ \A s \in DOMAIN counters : counters[s] = Absent

\* Bound: only the lease of the first message is outlived, and beside a second
\* message only where nothing else goes wrong.
Late == {i \in DOMAIN overruns' : overruns'[i] > 0}
LateWithinBounds == Late \subseteq {1} /\ (Late # {} /\ faults' > 0 => Len(sms') = 1)

RuntimeInit ==
    /\ SmsInit /\ LimitsInit
    /\ \/ part = "sms" /\ OneLimiter
       \/ part = "limits" /\ GuardedWhereItCounts

RuntimeNext ==
    /\ part' = part
    /\ \/ part = "sms" /\ SmsNext /\ LateWithinBounds /\ UNCHANGED limitVars
       \/ part = "limits" /\ LimitsNext /\ UNCHANGED smsVars

(* SmsFairness and LimitsFairness, each of the part that runs.               *)
RuntimeFairness ==
    /\ \A p \in Processes, c \in Cycles : WF_smsVars(part = "sms" /\ CycleStep(p, c))
    /\ \A p \in Processes : WF_smsVars(part = "sms" /\ (StartWorker(p) \/ Exit(p)))
    /\ WF_smsVars(part = "sms" /\ Tick)
    /\ WF_limitVars(part = "limits" /\ WindowTick)

RuntimeSpec == RuntimeInit /\ [][RuntimeNext]_runtimeVars /\ RuntimeFairness
=============================================================================
