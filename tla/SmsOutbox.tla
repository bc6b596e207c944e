----------------------------- MODULE SmsOutbox -----------------------------
(* The durable SMS outbox (src/sms) and the part of the maintenance run that *)
(* touches it. A row is queued by the caller's transaction; the worker of    *)
(* any server process claims due rows with a lease, sends, and writes the    *)
(* provider's answer back by id. A process runs its worker on an interval    *)
(* that does not wait for the previous cycle, so cycles of one process       *)
(* overlap; a cycle of the model has one row of the batch.                   *)
(*                                                                           *)
(* Time is relative: a row keeps the ticks left until it is due, until it is *)
(* too old and until its lease ends, and Tick takes one from each.           *)
EXTENDS Integers, Sequences, FiniteSets

CONSTANTS Recipients,
          Processes,       \* server processes with an enabled, usable provider
          Cycles,          \* the overlapping cycles of one process
          NoCycle,         \* inFlight = null
          MaxAttempts,     \* SMS_MAX_ATTEMPTS
          LeaseTicks,      \* SMS_LEASE_SECONDS
          MaxAge,          \* SMS_MAX_AGE_SECONDS
          Backoff,         \* the longest backoff
          MaxMessages,     \* bound: rows queued
          MaxFaults,       \* bound: ends of a process, orderly or not, and lost writes
          MaxOverruns      \* bound: leases of a message that end during a delivery

ASSUME BoundsAssumption ==
    /\ MaxAttempts \in Nat \ {0} /\ LeaseTicks \in Nat \ {0}
    /\ MaxAge \in Nat \ {0} /\ Backoff \in Nat \ {0}
    /\ MaxMessages \in Nat /\ MaxFaults \in Nat /\ MaxOverruns \in Nat
    /\ NoCycle \notin Cycles

ASSUME FiniteCycles == IsFiniteSet(Processes) /\ IsFiniteSet(Cycles)

VARIABLES sms,        \* the rows of sms_outbox, by id
          texts,      \* how often the gateway took each message
          overruns,   \* how often the lease of each ended in the hands of a cycle
          server,     \* up | stopping | down, per process
          cycle,      \* what each worker cycle is doing
          inFlight,   \* the batch the process believes is running
          drain,      \* the batch an orderly stop waits for
          faults      \* how many ends of a process and lost writes there were

countVars == <<texts, overruns>>
rowVars == <<sms, countVars>>
processVars == <<server, inFlight, drain, faults>>
smsVars == <<rowVars, cycle, processVars>>

-----------------------------------------------------------------------------
(* Rows                                                                      *)

Queued == {"PENDING", "RETRY"}
Settled == {"SENT", "FAILED", "CANCELLED", "purged"}

NewMessage(to) == [to |-> to, status |-> "PENDING", attempts |-> 0,
                   wait |-> 0, life |-> MaxAge, lease |-> 0]

Less(n) == IF n = 0 THEN 0 ELSE n - 1

Older(row) == [row EXCEPT !.wait = Less(@), !.life = Less(@), !.lease = Less(@)]

Superseded(row, to) ==
    IF row.to = to /\ row.status \in Queued
    THEN [row EXCEPT !.status = "CANCELLED"] ELSE row

\* Mutant: a row that another cycle is sending is claimed too.
DueOrTaken(row) == row.status \in Queued \cup {"PROCESSING"} /\ row.wait = 0

Due(row) == row.status \in Queued /\ row.wait = 0

\* Mutant: the recovery looks at the lease and not at the status.
LeaseRunOutOfAny(row) == row.status # "purged" /\ row.lease = 0

LeaseRunOut(row) == row.status = "PROCESSING" /\ row.lease = 0

\* Mutant: the leases of a worker that died are never recovered.
NeverRecovered(row) == row

Recovered(row) ==
    IF LeaseRunOut(row) THEN [row EXCEPT !.status = "RETRY"] ELSE row

ClaimedRow(row) == [row EXCEPT !.status = "PROCESSING", !.lease = LeaseTicks]

(* An update by id writes nothing once the row has been deleted.             *)
Closed(row, verdict, tries) ==
    IF row.status = "purged" THEN row
    ELSE [row EXCEPT !.status = verdict, !.attempts = tries, !.lease = 0]

Rescheduled(row, tries, delay) ==
    IF row.status = "purged" THEN row
    ELSE [row EXCEPT !.status = "RETRY", !.attempts = tries,
                     !.wait = delay, !.lease = 0]

-----------------------------------------------------------------------------
(* Worker cycles                                                             *)

\* rejected: for good, or not sent because its body cannot be read.
Answers == {"accepted", "refused", "rejected", "unknown"}

(* idle; claiming, past the check of `stopping`; claimed, before the row is  *)
(* read again; sending, with that copy of the row; answered; doubted, when   *)
(* the write of SENT failed. A cycle keeps its message past the lease.       *)
Idle == [at |-> "idle", id |-> 0, tries |-> 0, answer |-> "accepted"]

Holds(c, i) == c.at \in {"claimed", "sending", "answered", "doubted"} /\ c.id = i

Held(i) == \E p \in Processes, c \in Cycles : Holds(cycle[p][c], i)

SetCycle(p, c, value) == cycle' = [cycle EXCEPT ![p] = [@ EXCEPT ![c] = value]]
SetRow(i, value) == sms' = [sms EXCEPT ![i] = value]
-----------------------------------------------------------------------------
EnqueueOtpSms(to) ==
    /\ Len(sms) < MaxMessages
    /\ sms' = Append([i \in DOMAIN sms |-> Superseded(sms[i], to)], NewMessage(to))
    /\ texts' = Append(texts, 0)
    /\ overruns' = Append(overruns, 0)
    /\ UNCHANGED <<processVars, cycle>>

(* runOnce up to the claim: leases that ran out go back to the queue.        *)
RunOnce(p, c) ==
    /\ server[p] = "up" /\ cycle[p][c].at = "idle"
    /\ sms' = [i \in DOMAIN sms |-> Recovered(sms[i])]
    /\ SetCycle(p, c, [Idle EXCEPT !.at = "claiming"])
    /\ UNCHANGED <<countVars, processVars>>

Claim(p, c, i) ==
    /\ cycle[p][c].at = "claiming"
    /\ Due(sms[i])
    /\ SetRow(i, ClaimedRow(sms[i]))
    /\ SetCycle(p, c, [Idle EXCEPT !.at = "claimed", !.id = i])
    /\ UNCHANGED <<countVars, processVars>>

ClaimNothing(p, c) ==
    /\ cycle[p][c].at = "claiming"
    /\ ~ \E i \in DOMAIN sms : Due(sms[i])
    /\ SetCycle(p, c, Idle)
    /\ UNCHANGED <<rowVars, processVars>>

(* The claimed row is read by a statement of its own, and the delivery       *)
(* becomes the process's batch in flight, whatever was there before.         *)
ReadClaimed(p, c) ==
    LET now == cycle[p][c] IN
    /\ now.at = "claimed"
    /\ SetCycle(p, c, [now EXCEPT !.at = "sending", !.tries = sms[now.id].attempts + 1])
    /\ inFlight' = [inFlight EXCEPT ![p] = c]
    /\ UNCHANGED <<rowVars, server, drain, faults>>

(* The end of a cycle clears inFlight without asking whose it is.            *)
EndCycle(p, c) ==
    /\ SetCycle(p, c, Idle)
    /\ inFlight' = [inFlight EXCEPT ![p] = NoCycle]
    /\ UNCHANGED <<server, drain>>

CancelTooOld(p, c) ==
    LET now == cycle[p][c] IN
    /\ now.at = "sending"
    /\ sms[now.id].life = 0
    /\ SetRow(now.id, Closed(sms[now.id], "CANCELLED", sms[now.id].attempts))
    /\ EndCycle(p, c)
    /\ UNCHANGED <<countVars, faults>>

(* The gateway has taken the message when it accepts it, and may have taken  *)
(* it when the answer is unknown.                                            *)
Send(p, c, answer) ==
    LET now == cycle[p][c] IN
    /\ now.at = "sending"
    /\ sms[now.id].life > 0
    /\ SetCycle(p, c, [now EXCEPT !.at = "answered", !.answer = answer])
    /\ texts' \in { [texts EXCEPT ![now.id] = @ + n] :
                    n \in CASE answer = "accepted" -> {1}
                            [] answer = "unknown" -> {0, 1}
                            [] OTHER -> {0} }
    /\ UNCHANGED <<sms, overruns, processVars>>

\* Mutant: an ambiguous answer is tried again.
RetryableUnknown(now) == now.answer \in {"refused", "unknown"} /\ now.tries < MaxAttempts

Retryable(now) == now.answer = "refused" /\ now.tries < MaxAttempts

MarkTerminal(p, c) ==
    LET now == cycle[p][c] IN
    /\ now.at = "answered"
    /\ ~Retryable(now)
    /\ SetRow(now.id, Closed(sms[now.id],
                             IF now.answer = "accepted" THEN "SENT" ELSE "FAILED",
                             now.tries))
    /\ EndCycle(p, c)
    /\ UNCHANGED <<countVars, faults>>

ScheduleRetry(p, c) ==
    LET now == cycle[p][c] IN
    /\ now.at = "answered"
    /\ Retryable(now)
    /\ \E delay \in 1..Backoff :
          SetRow(now.id, Rescheduled(sms[now.id], now.tries, delay))
    /\ EndCycle(p, c)
    /\ UNCHANGED <<countVars, faults>>

(* A statement before the send fails: the row waits for its lease.           *)
ClaimLost(p, c) ==
    /\ cycle[p][c].at = "claimed"
    /\ faults < MaxFaults /\ faults' = faults + 1
    /\ SetCycle(p, c, Idle)
    /\ UNCHANGED <<rowVars, server, inFlight, drain>>

(* The write of a verdict fails, stored or not, and ends the cycle: that of  *)
(* CANCELLED and those that follow a failure of the send.                    *)
VerdictLost(p, c) ==
    LET now == cycle[p][c] IN
    /\ faults < MaxFaults /\ faults' = faults + 1
    /\ \/ now.at = "sending" /\ sms[now.id].life = 0
       \/ now.at = "answered" /\ now.answer # "accepted"
    /\ \/ UNCHANGED sms
       \/ /\ now.at = "sending"
          /\ SetRow(now.id, Closed(sms[now.id], "CANCELLED", sms[now.id].attempts))
       \/ /\ now.at = "answered" /\ ~Retryable(now)
          /\ SetRow(now.id, Closed(sms[now.id], "FAILED", now.tries))
       \/ /\ now.at = "answered" /\ Retryable(now)
          /\ \E delay \in 1..Backoff :
                SetRow(now.id, Rescheduled(sms[now.id], now.tries, delay))
    /\ EndCycle(p, c)
    /\ UNCHANGED countVars

(* The write of SENT fails, stored or not. The catch of the send takes the   *)
(* error for one of the provider that may be retried.                        *)
DoubtAcceptance(p, c) ==
    LET now == cycle[p][c] IN
    /\ faults < MaxFaults /\ faults' = faults + 1
    /\ now.at = "answered" /\ now.answer = "accepted"
    /\ UNCHANGED sms \/ SetRow(now.id, Closed(sms[now.id], "SENT", now.tries))
    /\ SetCycle(p, c, [now EXCEPT !.at = "doubted"])
    /\ UNCHANGED <<countVars, server, inFlight, drain>>

(* The verdict of that catch, over whatever the row says by now; this write  *)
(* may fail like the first.                                                  *)
WriteOverAcceptance(p, c) ==
    LET now == cycle[p][c] IN
    /\ now.at = "doubted"
    /\ \/ UNCHANGED sms
       \/ /\ now.tries >= MaxAttempts
          /\ SetRow(now.id, Closed(sms[now.id], "FAILED", now.tries))
       \/ /\ now.tries < MaxAttempts
          /\ \E delay \in 1..Backoff :
                SetRow(now.id, Rescheduled(sms[now.id], now.tries, delay))
    /\ EndCycle(p, c)
    /\ UNCHANGED <<countVars, faults>>

-----------------------------------------------------------------------------
(* Processes, maintenance and time                                           *)

(* stopWorker: no new cycle, and wait for the batch in flight at this moment.*)
StopWorker(p) ==
    /\ server[p] = "up"
    /\ faults < MaxFaults
    /\ server' = [server EXCEPT ![p] = "stopping"]
    /\ drain' = [drain EXCEPT ![p] = inFlight[p]]
    /\ faults' = faults + 1
    /\ UNCHANGED <<rowVars, cycle, inFlight>>

Drained(p) == \A c \in Cycles : drain[p] = c => cycle[p][c].at = "idle"

Down(p) ==
    /\ server' = [server EXCEPT ![p] = "down"]
    /\ cycle' = [cycle EXCEPT ![p] = [c \in Cycles |-> Idle]]
    /\ inFlight' = [inFlight EXCEPT ![p] = NoCycle]
    /\ drain' = [drain EXCEPT ![p] = NoCycle]
    /\ UNCHANGED rowVars

Exit(p) == server[p] = "stopping" /\ Drained(p) /\ Down(p) /\ UNCHANGED faults

(* A crash, a second signal or the forced exit of a slow shutdown.           *)
Crash(p) ==
    /\ server[p] # "down" /\ faults < MaxFaults
    /\ Down(p)
    /\ faults' = faults + 1

StartWorker(p) ==
    /\ server[p] = "down"
    /\ server' = [server EXCEPT ![p] = "up"]
    /\ UNCHANGED <<rowVars, cycle, inFlight, drain, faults>>

(* One maintenance transaction: settled rows past their retention go, and    *)
(* leases that ran out are recovered. Nothing that old is still being sent.  *)
Retired(i) == sms[i].status \in Settled /\ sms[i].life = 0 /\ ~Held(i)

RunCleanup ==
    /\ sms' = [i \in DOMAIN sms |->
                  IF Retired(i) THEN [sms[i] EXCEPT !.status = "purged"]
                  ELSE Recovered(sms[i])]
    /\ sms' # sms
    /\ UNCHANGED <<countVars, cycle, processVars>>

(* The migration that retires recovery messages runs on drained workers; a   *)
(* row in PROCESSING is then the lease of a worker that crashed.             *)
RetireRecoverySms ==
    /\ \A p \in Processes : server[p] = "down"
    /\ sms' = [i \in DOMAIN sms |->
                  IF sms[i].status \in Settled THEN sms[i]
                  ELSE [sms[i] EXCEPT !.status = "CANCELLED", !.lease = 0]]
    /\ sms' # sms
    /\ UNCHANGED <<countVars, cycle, processVars>>

(* A delivery may take longer than its lease: nothing renews the lease, and  *)
(* nothing asks for it when the verdict is written.                          *)
Outlived(i) == Held(i) /\ sms[i].status = "PROCESSING" /\ sms[i].lease = 1

Tick ==
    /\ \E i \in DOMAIN sms : sms[i].wait + sms[i].life + sms[i].lease > 0
    /\ \A i \in DOMAIN sms : Outlived(i) => overruns[i] < MaxOverruns
    /\ sms' = [i \in DOMAIN sms |-> Older(sms[i])]
    /\ overruns' = [i \in DOMAIN sms |-> overruns[i] + (IF Outlived(i) THEN 1 ELSE 0)]
    /\ UNCHANGED <<texts, cycle, processVars>>

-----------------------------------------------------------------------------
SmsInit ==
    /\ sms = <<>> /\ texts = <<>> /\ overruns = <<>>
    /\ server = [p \in Processes |-> "up"]
    /\ cycle = [p \in Processes |-> [c \in Cycles |-> Idle]]
    /\ inFlight = [p \in Processes |-> NoCycle]
    /\ drain = [p \in Processes |-> NoCycle]
    /\ faults = 0

Deliver(p, c) ==
    \/ CancelTooOld(p, c)
    \/ \E answer \in Answers : Send(p, c, answer)
    \/ MarkTerminal(p, c)
    \/ ScheduleRetry(p, c)
    \/ ClaimLost(p, c) \/ VerdictLost(p, c)
    \/ DoubtAcceptance(p, c) \/ WriteOverAcceptance(p, c)

CycleStep(p, c) ==
    \/ RunOnce(p, c)
    \/ \E i \in DOMAIN sms : Claim(p, c, i)
    \/ ClaimNothing(p, c)
    \/ ReadClaimed(p, c)
    \/ Deliver(p, c)

SmsNext ==
    \/ \E to \in Recipients : EnqueueOtpSms(to)
    \/ \E p \in Processes, c \in Cycles : CycleStep(p, c)
    \/ \E p \in Processes : StopWorker(p) \/ Exit(p) \/ Crash(p) \/ StartWorker(p)
    \/ RunCleanup \/ RetireRecoverySms
    \/ Tick

SmsSpec == SmsInit /\ [][SmsNext]_smsVars

(* The interval timer runs cycles, the process manager restarts a process    *)
(* that ended, an orderly stop ends, and time passes.                        *)
SmsFairness ==
    /\ \A p \in Processes, c \in Cycles : WF_smsVars(CycleStep(p, c))
    /\ \A p \in Processes : WF_smsVars(StartWorker(p)) /\ WF_smsVars(Exit(p))
    /\ WF_smsVars(Tick)

FairSmsSpec == SmsSpec /\ SmsFairness
-----------------------------------------------------------------------------
(* Properties                                                                *)

(* Whatever processes crash and whichever cycles overlap, a message whose    *)
(* deliveries ended within their lease so far is in the hands of one cycle   *)
(* at most, and the row says so: claim, the lease recovery of every other    *)
(* cycle and the maintenance run never give it to a second one.              *)
OneCyclePerMessage ==
    \A i \in DOMAIN sms, p, q \in Processes, c, d \in Cycles :
        Holds(cycle[p][c], i) /\ overruns[i] = 0 =>
            /\ sms[i].status = "PROCESSING" \/ cycle[p][c].at = "doubted"
            /\ Holds(cycle[q][d], i) => p = q /\ c = d

(* A person gets the same message again only when a process ended, the write *)
(* of a verdict failed, or a delivery outlived its lease: once for each time *)
(* it happened, however many cycles then have the message and write over     *)
(* each other's verdicts.                                                    *)
RepeatsNeedAFault == \A i \in DOMAIN texts : texts[i] <= 1 + faults + overruns[i]

(* No lease recovery, claim, newer message, maintenance or migration changes *)
(* a verdict (sent, failed, cancelled). What does is the own write of a      *)
(* cycle that still has the settled message: one whose SENT failed although  *)
(* it was stored, or a late one, after a delivery outlived its lease.        *)
OwnWrite(p, c, i) == Holds(cycle[p][c], i) /\ cycle'[p][c] # cycle[p][c]

VerdictsAreFinal ==
    [][\A i \in DOMAIN sms :
          sms[i].status \in Settled /\ sms'[i].status \notin {sms[i].status, "purged"} =>
              \E p \in Processes, c \in Cycles :
                  /\ OwnWrite(p, c, i)
                  /\ \/ overruns[i] > 0
                     \/ sms[i].status = "SENT" /\ cycle[p][c].at = "doubted"]_smsVars

(* Every queued message is settled in the end, through failures of the       *)
(* gateway and of the database, crashes, restarts, orderly stops and late    *)
(* answers, by the attempts limit or by its age.                             *)
MessagesSettle == <>[](\A i \in DOMAIN sms : sms[i].status \in Settled)
=============================================================================
