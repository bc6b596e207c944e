---------------------------- MODULE RuntimeProofs ---------------------------
(* The outbox and the rate limiter keep their promises for every number of   *)
(* messages, processes, cycles, callers, faults and outages.                 *)
EXTENDS SmsOutbox, RateLimits, FiniteSetTheorems, SequenceTheorems, TLAPS

-----------------------------------------------------------------------------
(* The outbox: the invariant                                                 *)

Statuses == Queued \cup Settled \cup {"PROCESSING"}

Message == [to: Recipients, status: Statuses, attempts: Nat,
            wait: Nat, life: Nat, lease: Nat]

CycleState == [at: {"idle", "claiming", "claimed", "sending", "answered", "doubted"},
               id: Nat, tries: Nat, answer: Answers]

SmsTypes ==
    /\ sms \in Seq(Message)
    /\ texts \in Seq(Nat) /\ Len(texts) = Len(sms)
    /\ overruns \in Seq(Nat) /\ Len(overruns) = Len(sms)
    /\ server \in [Processes -> {"up", "stopping", "down"}]
    /\ cycle \in [Processes -> [Cycles -> CycleState]]
    /\ faults \in Nat

Busy(c) == c.at \in {"claimed", "sending", "answered", "doubted"}

\* The row of a message that a cycle has in time: in PROCESSING under a lease
\* that runs, or SENT by a write that was taken for failed.
KnownToRow(c, row) ==
    \/ row.status = "PROCESSING" /\ row.lease > 0
    \/ row.status = "SENT" /\ c.at = "doubted"

HeldUnderALease ==
    \A p \in Processes, c \in Cycles : Busy(cycle[p][c]) =>
        /\ cycle[p][c].id \in DOMAIN sms
        /\ overruns[cycle[p][c].id] = 0 => KnownToRow(cycle[p][c], sms[cycle[p][c].id])

HeldByOne ==
    \A p, q \in Processes, c, d \in Cycles :
        (/\ Busy(cycle[p][c]) /\ Busy(cycle[q][d]) /\ cycle[p][c].id = cycle[q][d].id
         /\ overruns[cycle[p][c].id] = 0)
        => p = q /\ c = d

DownIsIdle ==
    \A p \in Processes : server[p] = "down" => \A c \in Cycles : cycle[p][c].at = "idle"

Stopping == {p \in Processes : server[p] = "stopping"}

\* The cycle may send its message once more, or queue it to be sent.
MaySend(c) ==
    \/ c.at \in {"claimed", "sending", "doubted"}
    \/ c.at = "answered" /\ c.answer = "refused"

Open(i) == {h \in Processes \X Cycles :
               MaySend(cycle[h[1]][h[2]]) /\ cycle[h[1]][h[2]].id = i}

\* The row lets a cycle claim the message, now or after the lease.
Waiting(i) ==
    \/ sms[i].status \in Queued
    \/ sms[i].status = "PROCESSING" /\ (sms[i].lease = 0 \/ ~Held(i))

\* How often the gateway took the message, and may still take it if nothing
\* goes wrong any more.
Expected(i) == texts[i] + Cardinality(Open(i)) + (IF Waiting(i) THEN 1 ELSE 0)

\* Each fault pays for one more text of every message, an outlived lease for
\* one of its own; a process that is stopping has its fault still in hand.
FaultsPayForRepeats ==
    /\ Cardinality(Stopping) <= faults
    /\ \A i \in DOMAIN sms :
          Expected(i) + Cardinality(Stopping) <= 1 + faults + overruns[i]

SmsInv ==
    SmsTypes /\ HeldUnderALease /\ HeldByOne /\ DownIsIdle /\ FaultsPayForRepeats

\* A step changes a verdict only as VerdictsAreFinal says.
VerdictKept(i) ==
    sms[i].status \in Settled /\ sms'[i].status \notin {sms[i].status, "purged"} =>
        \E p \in Processes, c \in Cycles :
            /\ OwnWrite(p, c, i)
            /\ \/ overruns[i] > 0
               \/ sms[i].status = "SENT" /\ cycle[p][c].at = "doubted"

VerdictsKept == \A i \in DOMAIN sms : VerdictKept(i)

-----------------------------------------------------------------------------
(* The outbox: its operators                                                 *)

LEMMA ClaimedRowIs ==
    ASSUME NEW row \in Message
    PROVE  /\ ClaimedRow(row) \in Message
           /\ ClaimedRow(row).status = "PROCESSING" /\ ClaimedRow(row).lease = LeaseTicks
<1> DEFINE mid == [row EXCEPT !.status = "PROCESSING"]
           new == [mid EXCEPT !.lease = LeaseTicks]
<1>1. ClaimedRow(row) = new
  BY Zenon DEF ClaimedRow
<1>2. mid \in Message /\ mid.status = "PROCESSING"
  BY DEF Message, Statuses
<1> HIDE DEF mid
<1>3. new \in Message /\ new.status = mid.status /\ new.lease = LeaseTicks
  BY <1>2, BoundsAssumption DEF Message
<1> QED
  BY <1>1, <1>2, <1>3

LEMMA ClosedIs ==
    ASSUME NEW row \in Message, NEW verdict \in Settled, NEW tries \in Nat
    PROVE  /\ Closed(row, verdict, tries) \in Message
           /\ Closed(row, verdict, tries).status \in Settled
           /\ row.status # "purged" => Closed(row, verdict, tries).status = verdict
<1> DEFINE first == [row EXCEPT !.status = verdict]
           second == [first EXCEPT !.attempts = tries]
           new == [second EXCEPT !.lease = 0]
<1>1. first \in Message /\ first.status = verdict
  BY DEF Message, Statuses
<1>2. Closed(row, verdict, tries) = IF row.status = "purged" THEN row ELSE new
  BY Zenon DEF Closed
<1> HIDE DEF first
<1>3. second \in Message /\ second.status = first.status
  BY <1>1 DEF Message
<1> HIDE DEF second
<1>4. new \in Message /\ new.status = second.status
  BY <1>3 DEF Message
<1> QED
  BY <1>1, <1>2, <1>3, <1>4 DEF Settled

LEMMA RescheduledIs ==
    ASSUME NEW row \in Message, NEW tries \in Nat, NEW delay \in Nat
    PROVE  Rescheduled(row, tries, delay) \in Message
<1> DEFINE first == [row EXCEPT !.status = "RETRY"]
           second == [first EXCEPT !.attempts = tries]
           third == [second EXCEPT !.wait = delay]
           new == [third EXCEPT !.lease = 0]
<1>1. first \in Message
  BY DEF Message, Statuses, Queued
<1>2. Rescheduled(row, tries, delay) = IF row.status = "purged" THEN row ELSE new
  BY Zenon DEF Rescheduled
<1> HIDE DEF first
<1>3. second \in Message
  BY <1>1 DEF Message
<1> HIDE DEF second
<1>4. third \in Message
  BY <1>3 DEF Message
<1> HIDE DEF third
<1>5. new \in Message
  BY <1>4 DEF Message
<1> QED
  BY <1>2, <1>5

LEMMA OlderIs ==
    ASSUME NEW row \in Message
    PROVE  /\ Older(row) \in Message
           /\ Older(row).status = row.status
           /\ Older(row).lease = IF row.lease = 0 THEN 0 ELSE row.lease - 1
<1> DEFINE first == [row EXCEPT !.wait = Less(row.wait)]
           second == [first EXCEPT !.life = Less(first.life)]
           new == [second EXCEPT !.lease = Less(second.lease)]
<1>1. /\ first \in Message
      /\ first.life = row.life /\ first.lease = row.lease /\ first.status = row.status
  BY DEF Message, Less
<1>2. /\ second \in Message
      /\ second.lease = row.lease /\ second.status = row.status
  <2> HIDE DEF first
  <2> QED
    BY <1>1 DEF Message, Less
<1>3. /\ new \in Message
      /\ new.status = row.status /\ new.lease = Less(row.lease)
  <2> HIDE DEF second
  <2> QED
    BY <1>2 DEF Message, Less
<1>4. Older(row) = new
  BY <1>1, <1>2, Zenon DEF Older
<1> QED
  BY <1>3, <1>4 DEF Less

LEMMA SupersededIs ==
    ASSUME NEW row \in Message, NEW to
    PROVE  /\ Superseded(row, to) \in Message
           /\ \/ Superseded(row, to) = row
              \/ row.status \in Queued /\ Superseded(row, to).status = "CANCELLED"
           /\ Superseded(row, to).lease = row.lease
BY DEF Superseded, Message, Statuses, Queued, Settled

LEMMA RecoveredIs ==
    ASSUME NEW row \in Message
    PROVE  /\ Recovered(row) \in Message
           /\ \/ Recovered(row) = row
              \/ LeaseRunOut(row) /\ Recovered(row).status = "RETRY"
BY DEF Recovered, LeaseRunOut, Message, Statuses, Queued, Settled

-----------------------------------------------------------------------------
(* The outbox: rows and cycles that change                                   *)

LEMMA TypedRows ==
    ASSUME SmsInv
    PROVE  /\ Len(sms) \in Nat /\ DOMAIN sms = 1..Len(sms)
           /\ DOMAIN texts = 1..Len(sms) /\ DOMAIN overruns = 1..Len(sms)
           /\ \A i \in DOMAIN sms :
                 sms[i] \in Message /\ texts[i] \in Nat /\ overruns[i] \in Nat
BY LenProperties, ElementOfSeq DEF SmsInv, SmsTypes

LEMMA RowsMapped ==
    ASSUME SmsInv, NEW new, new = [i \in DOMAIN sms |-> new[i]],
           \A i \in DOMAIN sms : new[i] \in Message
    PROVE  new \in Seq(Message) /\ Len(new) = Len(sms) /\ DOMAIN new = DOMAIN sms
<1>1. Len(sms) \in Nat /\ DOMAIN sms = 1..Len(sms)
  BY TypedRows
<1>2. new \in [1..Len(sms) -> Message]
  BY <1>1
<1>3. new \in Seq(Message)
  BY <1>1, <1>2, SeqDef
<1> QED
  BY <1>1, <1>2, <1>3, LenProperties

LEMMA RowSet ==
    ASSUME SmsInv, NEW i \in DOMAIN sms, NEW value \in Message, SetRow(i, value)
    PROVE  /\ sms' \in Seq(Message) /\ Len(sms') = Len(sms) /\ DOMAIN sms' = DOMAIN sms
           /\ \A j \in DOMAIN sms : sms'[j] = IF j = i THEN value ELSE sms[j]
<1>1. sms \in Seq(Message) /\ DOMAIN sms = 1..Len(sms)
  BY TypedRows DEF SmsInv, SmsTypes
<1> QED
  BY <1>1, ExceptSeq, LenProperties DEF SetRow

LEMMA CycleSet ==
    ASSUME SmsInv, NEW p \in Processes, NEW c \in Cycles, NEW value \in CycleState,
           SetCycle(p, c, value)
    PROVE  /\ cycle' \in [Processes -> [Cycles -> CycleState]]
           /\ \A q \in Processes, d \in Cycles :
                 cycle'[q][d] = IF q = p /\ d = c THEN value ELSE cycle[q][d]
<1> DEFINE own == [cycle[p] EXCEPT ![c] = value]
<1>1. cycle \in [Processes -> [Cycles -> CycleState]]
  BY DEF SmsInv, SmsTypes
<1>2. cycle' = [cycle EXCEPT ![p] = own]
  BY <1>1 DEF SetCycle
<1>3. /\ own \in [Cycles -> CycleState]
      /\ \A d \in Cycles : own[d] = IF d = c THEN value ELSE cycle[p][d]
  BY <1>1
<1> HIDE DEF own
<1> QED
  BY <1>1, <1>2, <1>3

LEMMA IdleIsACycle ==
    /\ Idle \in CycleState /\ ~Busy(Idle) /\ ~MaySend(Idle) /\ Idle.at = "idle"
    /\ LET claiming == [Idle EXCEPT !.at = "claiming"]
       IN  claiming \in CycleState /\ ~Busy(claiming) /\ claiming.at = "claiming"
BY DEF Idle, CycleState, Answers, Busy, MaySend

LEMMA StoppingIsFinite == IsFiniteSet(Stopping) /\ Cardinality(Stopping) \in Nat
BY FiniteCycles, FS_Subset, FS_CardinalityType DEF Stopping

LEMMA OpenIsFinite ==
    ASSUME NEW i
    PROVE  IsFiniteSet(Open(i)) /\ Cardinality(Open(i)) \in Nat
<1>1. IsFiniteSet(Processes \X Cycles)
  BY FiniteCycles, FS_Product
<1>2. Open(i) \in SUBSET (Processes \X Cycles)
  BY DEF Open
<1> QED
  BY <1>1, <1>2, FS_Subset, FS_CardinalityType

LEMMA Counts ==
    ASSUME SmsInv
    PROVE  /\ faults \in Nat /\ Cardinality(Stopping) \in Nat
           /\ \A i \in DOMAIN sms :
                 texts[i] \in Nat /\ overruns[i] \in Nat /\ Cardinality(Open(i)) \in Nat
BY TypedRows, StoppingIsFinite, OpenIsFinite DEF SmsInv, SmsTypes

LEMMA ExpectedIsANumber ==
    ASSUME SmsInv, NEW i \in DOMAIN sms
    PROVE  Expected(i) \in Int
<1> DEFINE w == IF Waiting(i) THEN 1 ELSE 0
<1>1. Expected(i) = texts[i] + Cardinality(Open(i)) + w /\ w \in Int
  BY DEF Expected
<1>2. texts[i] \in Int /\ Cardinality(Open(i)) \in Int
  BY Counts
<1> HIDE DEF w
<1> QED
  BY <1>1, <1>2

LEMMA HeldIsBusy ==
    ASSUME NEW i
    PROVE  Held(i) <=> \E p \in Processes, c \in Cycles :
                          Busy(cycle[p][c]) /\ cycle[p][c].id = i
BY DEF Held, Holds, Busy

\* What a cycle may still send, of its own message or of message i.
Chance(c) == IF MaySend(c) THEN 1 ELSE 0
ChanceOf(c, i) == IF MaySend(c) /\ c.id = i THEN 1 ELSE 0

\* One cycle changes: what it may send is counted where it is.
LEMMA OpenChanges ==
    ASSUME SmsInv, NEW p \in Processes, NEW c \in Cycles, NEW value \in CycleState,
           SetCycle(p, c, value), NEW i
    PROVE  /\ Cardinality(Open(i)') =
                 Cardinality(Open(i)) - ChanceOf(cycle[p][c], i) + ChanceOf(value, i)
           /\ Cardinality(Open(i)) \in Nat /\ Cardinality(Open(i)') \in Int
<1> DEFINE h == <<p, c>>
           rest == Open(i) \ {h}
<1>1. \A q \in Processes, d \in Cycles :
         cycle'[q][d] = IF q = p /\ d = c THEN value ELSE cycle[q][d]
  BY CycleSet
<1>2. \A g \in Processes \X Cycles :
         /\ g[1] \in Processes /\ g[2] \in Cycles
         /\ g = h <=> g[1] = p /\ g[2] = c
  OBVIOUS
<1>3. h \in Open(i) <=> MaySend(cycle[p][c]) /\ cycle[p][c].id = i
  BY DEF Open
<1>4. Open(i)' = IF MaySend(value) /\ value.id = i THEN rest \cup {h} ELSE rest
  <2>1. ASSUME NEW g \in Processes \X Cycles
        PROVE  g \in Open(i)' <=> IF g = h THEN MaySend(value) /\ value.id = i ELSE g \in Open(i)
    BY <1>1, <1>2 DEF Open
  <2>2. Open(i)' \subseteq Processes \X Cycles /\ Open(i) \subseteq Processes \X Cycles
        /\ h \in Processes \X Cycles
    BY DEF Open
  <2> HIDE DEF h
  <2> QED
    BY <2>1, <2>2
<1>5. /\ IsFiniteSet(rest) /\ h \notin rest /\ Cardinality(Open(i)) \in Nat
      /\ Cardinality(rest) = Cardinality(Open(i)) - (IF h \in Open(i) THEN 1 ELSE 0)
  <2> HIDE DEF h
  <2>1. IsFiniteSet(Open(i)) /\ Cardinality(Open(i)) \in Nat
    BY OpenIsFinite
  <2> QED
    BY <2>1, FS_RemoveElement
<1>6. Cardinality(rest \cup {h}) = Cardinality(rest) + 1
  BY <1>5, FS_AddElement
<1> HIDE DEF rest
<1> QED
  BY <1>3, <1>4, <1>5, <1>6 DEF ChanceOf

\* A row stays as it is or moves on, and the cycles that have it in time keep it.
RowIsStill(i) ==
    /\ overruns'[i] = overruns[i] \/ overruns'[i] = overruns[i] + 1
    /\ sms[i].status \in Settled => sms'[i].status \in {sms[i].status, "purged"}
    /\ overruns'[i] = overruns[i] /\ Waiting(i)' => Waiting(i)
    /\ Held(i) /\ overruns'[i] = 0 =>
          /\ sms'[i].status = sms[i].status
          /\ sms[i].status = "PROCESSING" => sms'[i].lease > 0

HandIsStill(p, c) ==
    Busy(cycle[p][c]) \/ Busy(cycle'[p][c]) => cycle'[p][c] = cycle[p][c]

\* Rows change, or cycles without a message, and nobody loses a message that is
\* held: a row waits that waited before, or its lease ended.
LEMMA HandsAreStill ==
    ASSUME SmsInv, UNCHANGED <<texts, server, faults>>, SmsTypes', DownIsIdle',
           DOMAIN sms' = DOMAIN sms,
           \A p \in Processes, c \in Cycles : HandIsStill(p, c),
           \A i \in DOMAIN sms : RowIsStill(i)
    PROVE  SmsInv' /\ VerdictsKept
<1>1. Stopping' = Stopping
  BY DEF Stopping
<1>2. ASSUME NEW i
      PROVE  Open(i)' = Open(i)
  <2>1. \A p \in Processes, c \in Cycles :
           MaySend(cycle[p][c]) \/ MaySend(cycle'[p][c]) => cycle'[p][c] = cycle[p][c]
    BY DEF MaySend, Busy, HandIsStill
  <2> QED
    BY <2>1 DEF Open
<1>3. \A i \in DOMAIN sms :
         overruns[i] \in Nat /\ overruns'[i] \in Nat /\ (overruns'[i] = 0 => overruns[i] = 0)
  BY TypedRows DEF RowIsStill
<1>4. ASSUME NEW p \in Processes, NEW c \in Cycles, Busy(cycle'[p][c]),
             NEW i, i = cycle'[p][c].id
      PROVE  /\ Busy(cycle[p][c]) /\ cycle'[p][c] = cycle[p][c]
             /\ i \in DOMAIN sms /\ (overruns'[i] = 0 => overruns[i] = 0)
             /\ overruns'[i] = 0 => KnownToRow(cycle[p][c], sms'[i])
  <2>1. cycle'[p][c] = cycle[p][c] /\ Busy(cycle[p][c])
    BY <1>4 DEF HandIsStill
  <2>2. i \in DOMAIN sms /\ (overruns[i] = 0 => KnownToRow(cycle[p][c], sms[i]))
    BY <1>4, <2>1 DEF SmsInv, HeldUnderALease
  <2>3. Held(i)
    BY <1>4, <2>1, HeldIsBusy
  <2>4. overruns'[i] = 0 => KnownToRow(cycle[p][c], sms'[i])
    BY <1>3, <2>2, <2>3 DEF KnownToRow, RowIsStill
  <2> QED
    BY <1>3, <2>1, <2>2, <2>4
<1>5. HeldUnderALease'
  BY <1>4 DEF HeldUnderALease
<1>6. HeldByOne'
  <2>1. ASSUME NEW p \in Processes, NEW q \in Processes, NEW c \in Cycles, NEW d \in Cycles,
               Busy(cycle'[p][c]), Busy(cycle'[q][d]), cycle'[p][c].id = cycle'[q][d].id,
               overruns'[cycle'[p][c].id] = 0
        PROVE  p = q /\ c = d
    <3>1. /\ Busy(cycle[p][c]) /\ Busy(cycle[q][d]) /\ cycle[p][c].id = cycle[q][d].id
          /\ overruns[cycle[p][c].id] = 0
      BY <1>4, <2>1
    <3> QED
      BY <3>1 DEF SmsInv, HeldByOne
  <2> QED
    BY <2>1 DEF HeldByOne
<1>7. FaultsPayForRepeats'
  <2>1. ASSUME NEW i \in DOMAIN sms
        PROVE  Expected(i)' + Cardinality(Stopping) <= 1 + faults + overruns'[i]
    <3>1. Expected(i) + Cardinality(Stopping) <= 1 + faults + overruns[i]
      BY DEF SmsInv, FaultsPayForRepeats
    <3>2. /\ Expected(i) = texts[i] + Cardinality(Open(i)) + (IF Waiting(i) THEN 1 ELSE 0)
          /\ Expected(i)' = texts[i] + Cardinality(Open(i)) + (IF Waiting(i)' THEN 1 ELSE 0)
      BY <1>2 DEF Expected
    <3>3. /\ texts[i] \in Nat /\ overruns[i] \in Nat /\ Cardinality(Open(i)) \in Nat
          /\ faults \in Nat /\ Cardinality(Stopping) \in Nat /\ overruns'[i] \in Nat
      BY <1>3, Counts
    <3>4. \/ overruns'[i] = overruns[i] /\ (Waiting(i)' => Waiting(i))
          \/ overruns'[i] = overruns[i] + 1
      BY DEF RowIsStill
    <3> QED
      BY <3>1, <3>2, <3>3, <3>4
  <2> QED
    BY <1>1, <2>1 DEF SmsInv, FaultsPayForRepeats
<1>8. VerdictsKept
  BY DEF VerdictsKept, VerdictKept, RowIsStill
<1> QED
  BY <1>5, <1>6, <1>7, <1>8 DEF SmsInv

\* A cycle goes on with its message, or its SENT is in doubt.
GoesOn(now, value, i, row) ==
    /\ Busy(value) /\ value.id = i /\ now.at # "doubted"
    /\ \/ row = sms[i]
       \/ /\ value.at = "doubted" /\ row.status \in Settled
          /\ sms[i].status # "purged" => row.status = "SENT"

\* What the cycle may send afterwards, a text that it sends now, and the row
\* when it is left to be claimed, are owed by the cycle already, or paid for.
Owed(now, value, i, row) ==
    \/ /\ row.status \in Settled \/ (row = sms[i] /\ Busy(value))
       /\ texts'[i] + Chance(value) <= texts[i] + Chance(now) + (faults' - faults)
    \/ /\ value = Idle /\ texts'[i] = texts[i]
       /\ MaySend(now) \/ faults' = faults + 1

\* The cycle that has a message goes on with it or lets go of it.
LEMMA HandMoves ==
    ASSUME SmsInv, NEW p \in Processes, NEW c \in Cycles, Busy(cycle[p][c]),
           NEW i, i = cycle[p][c].id,
           NEW value \in CycleState, SetCycle(p, c, value), value.at # cycle[p][c].at,
           NEW row \in Message, SetRow(i, row), UNCHANGED <<server, overruns>>,
           value = Idle \/ GoesOn(cycle[p][c], value, i, row),
           texts' \in Seq(Nat), Len(texts') = Len(texts),
           \A j \in DOMAIN sms : j # i => texts'[j] = texts[j],
           faults' = faults \/ faults' = faults + 1,
           Owed(cycle[p][c], value, i, row)
    PROVE  SmsInv' /\ VerdictsKept
<1> DEFINE now == cycle[p][c]
<1>1. i \in DOMAIN sms /\ (overruns[i] = 0 => KnownToRow(now, sms[i]))
  BY DEF SmsInv, HeldUnderALease
<1>2. /\ sms' \in Seq(Message) /\ Len(sms') = Len(sms) /\ DOMAIN sms' = DOMAIN sms
      /\ \A j \in DOMAIN sms : sms'[j] = IF j = i THEN row ELSE sms[j]
  BY <1>1, RowSet
<1>3. /\ cycle' \in [Processes -> [Cycles -> CycleState]]
      /\ \A q \in Processes, d \in Cycles :
            cycle'[q][d] = IF q = p /\ d = c THEN value ELSE cycle[q][d]
  BY CycleSet
<1>4. Stopping' = Stopping /\ faults \in Nat /\ faults' \in Nat /\ server[p] # "down"
  BY Counts DEF Stopping, SmsInv, DownIsIdle, Busy
<1>5. SmsTypes'
  BY <1>2, <1>3, <1>4 DEF SmsInv, SmsTypes
<1>6. DownIsIdle'
  BY <1>3, <1>4 DEF SmsInv, DownIsIdle
<1>7. Busy(value) => value.id = i /\ (overruns[i] = 0 => KnownToRow(value, row))
  BY <1>1, IdleIsACycle DEF KnownToRow, GoesOn
<1>8. HeldUnderALease'
  <2>1. ASSUME NEW q \in Processes, NEW d \in Cycles, Busy(cycle'[q][d]),
               NEW j, j = cycle'[q][d].id
        PROVE  j \in DOMAIN sms /\ (overruns[j] = 0 => KnownToRow(cycle'[q][d], sms'[j]))
    <3>1. CASE q = p /\ d = c
      BY <1>1, <1>2, <1>3, <1>7, <2>1, <3>1
    <3>2. CASE ~(q = p /\ d = c)
      <4>1. cycle'[q][d] = cycle[q][d]
        BY <1>3, <3>2
      <4>2. j \in DOMAIN sms /\ (overruns[j] = 0 => KnownToRow(cycle[q][d], sms[j]))
        BY <2>1, <4>1 DEF SmsInv, HeldUnderALease
      <4>3. overruns[j] = 0 => j # i
        BY <2>1, <3>2, <4>1 DEF SmsInv, HeldByOne
      <4> QED
        BY <1>2, <4>1, <4>2, <4>3
    <3> QED
      BY <3>1, <3>2
  <2> QED
    BY <1>2, <2>1 DEF HeldUnderALease
<1>9. HeldByOne'
  <2>1. \A q \in Processes, d \in Cycles :
           Busy(cycle'[q][d]) => Busy(cycle[q][d]) /\ cycle'[q][d].id = cycle[q][d].id
    BY <1>3, <1>7, IdleIsACycle
  <2>2. ASSUME NEW q \in Processes, NEW r \in Processes, NEW d \in Cycles, NEW e \in Cycles,
               Busy(cycle'[q][d]), Busy(cycle'[r][e]), cycle'[q][d].id = cycle'[r][e].id,
               overruns[cycle'[q][d].id] = 0
        PROVE  q = r /\ d = e
    BY <2>1, <2>2 DEF SmsInv, HeldByOne
  <2> QED
    BY <2>2 DEF HeldByOne
<1>10. ASSUME NEW j \in DOMAIN sms
       PROVE  /\ Expected(j) = texts[j] + Cardinality(Open(j)) + (IF Waiting(j) THEN 1 ELSE 0)
              /\ Expected(j)' = texts'[j] + Cardinality(Open(j)') + (IF Waiting(j)' THEN 1 ELSE 0)
              /\ Cardinality(Open(j)') =
                    Cardinality(Open(j)) - ChanceOf(now, j) + ChanceOf(value, j)
              /\ Cardinality(Open(j)) \in Nat /\ Cardinality(Open(j)') \in Int
              /\ texts[j] \in Nat /\ texts'[j] \in Nat /\ overruns[j] \in Nat
              /\ Expected(j) \in Int /\ Expected(j)' \in Int
  <2>1. DOMAIN sms = 1..Len(texts') /\ texts'[j] \in Nat
    BY TypedRows, ElementOfSeq DEF SmsInv, SmsTypes
  <2>2. texts[j] \in Nat /\ overruns[j] \in Nat
    BY Counts
  <2>3. /\ Cardinality(Open(j)') =
               Cardinality(Open(j)) - ChanceOf(now, j) + ChanceOf(value, j)
        /\ Cardinality(Open(j)) \in Nat /\ Cardinality(Open(j)') \in Int
    BY OpenChanges
  <2> DEFINE w == IF Waiting(j) THEN 1 ELSE 0
             v == IF Waiting(j)' THEN 1 ELSE 0
  <2>4. /\ Expected(j) = texts[j] + Cardinality(Open(j)) + w /\ w \in Int
        /\ Expected(j)' = texts'[j] + Cardinality(Open(j)') + v /\ v \in Int
    BY DEF Expected
  <2>5. Expected(j) \in Int /\ Expected(j)' \in Int
    <3> HIDE DEF w, v
    <3> QED
      BY <2>1, <2>2, <2>3, <2>4, SMTT(60)
  <2> QED
    BY <2>1, <2>2, <2>3, <2>4, <2>5
<1>11. ASSUME NEW j \in DOMAIN sms, j # i
       PROVE  Expected(j)' = Expected(j)
  <2>1. ChanceOf(now, j) = 0 /\ ChanceOf(value, j) = 0
    BY <1>7, <1>11 DEF ChanceOf, MaySend, Busy
  <2>2. Held(j)' <=> Held(j)
    <3>1. \A q \in Processes, d \in Cycles :
             (Busy(cycle'[q][d]) /\ cycle'[q][d].id = j)
                <=> (Busy(cycle[q][d]) /\ cycle[q][d].id = j)
      BY <1>3, <1>7, <1>11
    <3> QED
      BY <3>1 DEF Held, Holds, Busy
  <2>3. Waiting(j)' <=> Waiting(j)
    BY <1>2, <1>11, <2>2 DEF Waiting
  <2>4. /\ Expected(j)' = texts[j] + Cardinality(Open(j)) + (IF Waiting(j) THEN 1 ELSE 0)
    BY <1>10, <1>11, <2>1, <2>3, SMTT(60)
  <2> QED
    BY <1>10, <2>4, Zenon
<1>12. /\ Expected(i)' <= Expected(i) + (faults' - faults)
       /\ Expected(i) \in Int /\ Expected(i)' \in Int
  <2>1. /\ ChanceOf(now, i) = Chance(now) /\ ChanceOf(value, i) = Chance(value)
        /\ Chance(now) \in 0..1 /\ Chance(value) \in 0..1
    BY <1>7 DEF ChanceOf, Chance, MaySend, Busy
  <2> DEFINE w == IF Waiting(i) THEN 1 ELSE 0
             v == IF Waiting(i)' THEN 1 ELSE 0
             t == texts[i]
             u == texts'[i]
             o == Cardinality(Open(i))
             r == Cardinality(Open(i)')
             a == Chance(now)
             b == Chance(value)
             e == Expected(i)
             e2 == Expected(i)'
             f == faults
             g == faults'
  <2>2. /\ e = t + o + w /\ e2 = u + r + v /\ r = o - a + b
        /\ t \in Int /\ u \in Int /\ o \in Int /\ r \in Int
    BY <1>1, <1>10, <2>1, SMTT(60)
  <2>0. /\ w \in 0..1 /\ v \in 0..1 /\ a \in 0..1 /\ b \in 0..1
        /\ f \in Int /\ g \in Int /\ e \in Int /\ e2 \in Int
    BY <1>1, <1>4, <1>10, <2>1
  <2>3. CASE /\ row.status \in Settled \/ (row = sms[i] /\ Busy(value))
             /\ u + b <= t + a + (faults' - faults)
    <3>1. Waiting(i)' => Waiting(i)
      <4>1. CASE row.status \in Settled
        BY <1>1, <1>2, <4>1 DEF Waiting, Settled, Queued
      <4>2. CASE row = sms[i] /\ Busy(value)
        <5>1. Held(i)'
          BY <1>3, <1>7, <4>2 DEF Held, Holds, Busy
        <5> QED
          BY <1>1, <1>2, <4>2, <5>1 DEF Waiting
      <4> QED
        BY <2>3, <4>1, <4>2
    <3>2. v <= w /\ u + b <= t + a + (g - f)
      BY <2>3, <3>1
    <3> HIDE DEF w, v, t, u, o, r, a, b, e, e2, f, g
    <3> DEFINE x == u + b
               y == t + a
    <3>3. x \in Int /\ y \in Int /\ x <= y + (g - f)
      BY <2>0, <2>2, <3>2
    <3>4. e = y - a + o + w /\ e2 = x + o - a + v
      BY <2>0, <2>2
    <3> HIDE DEF x, y
    <3>5. e2 <= e + (g - f)
      BY <2>0, <2>2, <3>2, <3>3, <3>4
    <3> QED
      BY <3>5, <2>0 DEF e, e2, f, g
  <2>4. CASE /\ value = Idle /\ u = t
             /\ MaySend(now) \/ faults' = faults + 1
    <3>1. b = 0 /\ u = t /\ ((a = 1 /\ g >= f) \/ g = f + 1)
      BY <1>4, <2>4, IdleIsACycle DEF Chance
    <3> HIDE DEF w, v, t, u, o, r, a, b, e, e2, f, g
    <3>2. e2 <= e + (g - f)
      BY <2>0, <2>2, <3>1
    <3> QED
      BY <3>2, <2>0 DEF e, e2, f, g
  <2> QED
    BY <2>3, <2>4 DEF Owed
<1>13. FaultsPayForRepeats'
  <2>1. Cardinality(Stopping) <= faults /\ Cardinality(Stopping) \in Nat
    BY Counts DEF SmsInv, FaultsPayForRepeats
  <2>2. ASSUME NEW j \in DOMAIN sms
        PROVE  Expected(j)' + Cardinality(Stopping) <= 1 + faults' + overruns[j]
    <3>1. Expected(j) \in Int
      BY ExpectedIsANumber
    <3>2. Expected(j)' \in Int /\ Expected(j)' <= Expected(j) + (faults' - faults)
      <4>1. CASE j = i
        BY <1>12, <4>1, Zenon
      <4>2. CASE j # i
        <5>1. Expected(j)' = Expected(j)
          BY <1>11, <4>2, Zenon
        <5>2. faults' \in Nat /\ faults \in Nat /\ (faults' = faults \/ faults' = faults + 1)
          BY <1>4, Zenon
        <5> QED
          BY <3>1, <5>1, <5>2
      <4> QED
        BY <4>1, <4>2
    <3>3. /\ Expected(j) + Cardinality(Stopping) <= 1 + faults + overruns[j]
          /\ overruns[j] \in Nat
      BY <1>10 DEF SmsInv, FaultsPayForRepeats
    <3> QED
      BY <1>4, <2>1, <3>1, <3>2, <3>3, SMTT(60)
  <2> QED
    BY <1>2, <1>4, <2>1, <2>2 DEF FaultsPayForRepeats
<1>14. VerdictsKept
  <2>1. ASSUME NEW j \in DOMAIN sms
        PROVE  VerdictKept(j)
    <3>1. CASE j # i
      BY <1>2, <3>1 DEF VerdictKept
    <3>2. CASE j = i
      <4>1. OwnWrite(p, c, i)
        BY <1>3 DEF OwnWrite, Holds, Busy
      <4>2. sms[i].status \in Settled =>
               overruns[i] > 0 \/ (sms[i].status = "SENT" /\ now.at = "doubted")
        BY <1>1, Counts DEF KnownToRow, Settled
      <4> QED
        BY <3>2, <4>1, <4>2 DEF VerdictKept
    <3> QED
      BY <3>1, <3>2
  <2> QED
    BY <2>1 DEF VerdictsKept
<1> QED
  BY <1>5, <1>6, <1>8, <1>9, <1>13, <1>14 DEF SmsInv

\* A process ends: a stop paid in advance, a crash pays now.
LEMMA ProcessEnds ==
    ASSUME SmsInv, NEW p \in Processes, Down(p),
           \/ server[p] = "stopping" /\ faults' = faults
           \/ faults' = faults + 1
    PROVE  SmsInv' /\ VerdictsKept
<1>1. /\ server' = [server EXCEPT ![p] = "down"]
      /\ cycle' = [cycle EXCEPT ![p] = [c \in Cycles |-> Idle]]
      /\ UNCHANGED <<sms, texts, overruns>>
  BY DEF Down, rowVars, countVars
<1>2. \A q \in Processes, c \in Cycles :
         cycle'[q][c] = IF q = p THEN Idle ELSE cycle[q][c]
  BY <1>1 DEF SmsInv, SmsTypes
<1>3. cycle' \in [Processes -> [Cycles -> CycleState]]
  BY <1>1, IdleIsACycle DEF SmsInv, SmsTypes
<1>4. faults \in Nat /\ faults' \in Nat
  BY Counts
<1>5. SmsTypes'
  BY <1>1, <1>3, <1>4 DEF SmsInv, SmsTypes
<1>6. HeldUnderALease' /\ HeldByOne'
  BY <1>1, <1>2, IdleIsACycle DEF SmsInv, HeldUnderALease, HeldByOne
<1>7. DownIsIdle'
  BY <1>1, <1>2, IdleIsACycle DEF SmsInv, SmsTypes, DownIsIdle
<1>8. Stopping' = Stopping \ {p} /\ (p \in Stopping <=> server[p] = "stopping")
  BY <1>1 DEF Stopping, SmsInv, SmsTypes
<1>9. /\ Cardinality(Stopping) \in Nat /\ Cardinality(Stopping') \in Int
      /\ Cardinality(Stopping') = IF p \in Stopping THEN Cardinality(Stopping) - 1
                                  ELSE Cardinality(Stopping)
  <2>1. IsFiniteSet(Stopping) /\ Cardinality(Stopping) \in Nat
    BY StoppingIsFinite
  <2>2. Cardinality(Stopping \ {p}) = IF p \in Stopping THEN Cardinality(Stopping) - 1
                                      ELSE Cardinality(Stopping)
    BY <2>1, FS_RemoveElement
  <2> QED
    BY <1>8, <2>1, <2>2
<1>10. Cardinality(Stopping') - faults' <= Cardinality(Stopping) - faults - 1
  BY <1>4, <1>8, <1>9
<1>11. ASSUME NEW i \in DOMAIN sms
       PROVE  Expected(i)' + Cardinality(Stopping') <= 1 + faults' + overruns[i]
  <2>1. Open(i)' \in SUBSET Open(i)
    BY <1>2, IdleIsACycle DEF Open
  <2>2. Cardinality(Open(i)') <= Cardinality(Open(i)) /\ Cardinality(Open(i)') \in Nat
    BY <2>1, OpenIsFinite, FS_Subset, FS_CardinalityType
  <2>3. /\ Expected(i) = texts[i] + Cardinality(Open(i)) + (IF Waiting(i) THEN 1 ELSE 0)
        /\ Expected(i)' = texts[i] + Cardinality(Open(i)') + (IF Waiting(i)' THEN 1 ELSE 0)
    BY <1>1 DEF Expected
  <2>4. texts[i] \in Nat /\ overruns[i] \in Nat /\ Cardinality(Open(i)) \in Nat
    BY Counts
  <2>5. Expected(i) + Cardinality(Stopping) <= 1 + faults + overruns[i]
    BY DEF SmsInv, FaultsPayForRepeats
  <2> QED
    BY <1>4, <1>9, <1>10, <2>2, <2>3, <2>4, <2>5
<1>12. FaultsPayForRepeats'
  <2>1. Cardinality(Stopping') <= faults'
    BY <1>4, <1>9, <1>10 DEF SmsInv, FaultsPayForRepeats
  <2> QED
    BY <1>1, <1>11, <2>1 DEF FaultsPayForRepeats
<1> QED
  BY <1>1, <1>5, <1>6, <1>7, <1>12 DEF SmsInv, VerdictsKept, VerdictKept

LEMMA Claimed ==
    ASSUME SmsInv, NEW p \in Processes, NEW c \in Cycles,
           NEW i \in DOMAIN sms, Claim(p, c, i)
    PROVE  SmsInv' /\ VerdictsKept
<1> DEFINE first == [Idle EXCEPT !.at = "claimed"]
           value == [first EXCEPT !.id = i]
<1>1. /\ SetRow(i, ClaimedRow(sms[i])) /\ sms[i] \in Message /\ sms[i].status \in Queued
      /\ cycle[p][c].at = "claiming"
      /\ UNCHANGED <<texts, overruns, server, faults>>
  BY TypedRows DEF Claim, Due, countVars, processVars
<1>2. value \in CycleState /\ value.at = "claimed" /\ value.id = i
  <2>1. first \in CycleState /\ first.at = "claimed" /\ i \in Nat
    BY TypedRows DEF Idle, CycleState, Answers
  <2> HIDE DEF first
  <2> QED
    BY <2>1 DEF CycleState
<1>3. SetCycle(p, c, value)
  BY Zenon DEF Claim
<1> HIDE DEF value
<1>4. /\ cycle' \in [Processes -> [Cycles -> CycleState]]
      /\ \A q \in Processes, d \in Cycles :
            cycle'[q][d] = IF q = p /\ d = c THEN value ELSE cycle[q][d]
  BY <1>2, <1>3, CycleSet
<1>5. /\ sms' \in Seq(Message) /\ Len(sms') = Len(sms) /\ DOMAIN sms' = DOMAIN sms
      /\ \A j \in DOMAIN sms : j # i => sms'[j] = sms[j]
      /\ sms'[i].status = "PROCESSING" /\ sms'[i].lease > 0
  BY <1>1, RowSet, ClaimedRowIs, BoundsAssumption
<1>6. Stopping' = Stopping
  BY <1>1 DEF Stopping
<1>7. SmsTypes' /\ server[p] # "down"
  BY <1>1, <1>4, <1>5 DEF SmsInv, SmsTypes, DownIsIdle
<1>8. ASSUME NEW q \in Processes, NEW d \in Cycles, Busy(cycle'[q][d]), ~(q = p /\ d = c)
      PROVE  /\ Busy(cycle[q][d]) /\ cycle'[q][d] = cycle[q][d]
             /\ overruns[cycle[q][d].id] = 0 => cycle[q][d].id # i
  <2>1. cycle'[q][d] = cycle[q][d]
    BY <1>4, <1>8
  <2> QED
    BY <1>1, <1>8, <2>1 DEF SmsInv, HeldUnderALease, KnownToRow, Queued
<1>9. HeldUnderALease'
  <2>1. ASSUME NEW q \in Processes, NEW d \in Cycles, Busy(cycle'[q][d]),
               NEW j, j = cycle'[q][d].id
        PROVE  j \in DOMAIN sms /\ (overruns[j] = 0 => KnownToRow(cycle'[q][d], sms'[j]))
    <3>1. CASE q = p /\ d = c
      BY <1>2, <1>4, <1>5, <2>1, <3>1 DEF KnownToRow
    <3>2. CASE ~(q = p /\ d = c)
      BY <1>5, <1>8, <2>1, <3>2 DEF SmsInv, HeldUnderALease
    <3> QED
      BY <3>1, <3>2
  <2> QED
    BY <1>1, <1>5, <2>1 DEF HeldUnderALease
<1>10. HeldByOne'
  <2>1. ASSUME NEW q \in Processes, NEW r \in Processes, NEW d \in Cycles, NEW e \in Cycles,
               Busy(cycle'[q][d]), Busy(cycle'[r][e]), cycle'[q][d].id = cycle'[r][e].id,
               overruns[cycle'[q][d].id] = 0
        PROVE  q = r /\ d = e
    <3>1. CASE (q = p /\ d = c) \/ (r = p /\ e = c)
      BY <1>2, <1>4, <1>8, <2>1, <3>1
    <3>2. CASE ~(q = p /\ d = c) /\ ~(r = p /\ e = c)
      BY <1>8, <2>1, <3>2 DEF SmsInv, HeldByOne
    <3> QED
      BY <3>1, <3>2
  <2> QED
    BY <1>1, <2>1 DEF HeldByOne
<1>11. DownIsIdle'
  BY <1>1, <1>4, <1>7 DEF SmsInv, DownIsIdle
<1>12. ASSUME NEW j \in DOMAIN sms
       PROVE  Expected(j)' = Expected(j)
  <2>1. /\ Expected(j) = texts[j] + Cardinality(Open(j)) + (IF Waiting(j) THEN 1 ELSE 0)
        /\ Expected(j)' = texts[j] + Cardinality(Open(j)') + (IF Waiting(j)' THEN 1 ELSE 0)
        /\ texts[j] \in Nat /\ Cardinality(Open(j)) \in Nat
    BY <1>1, Counts DEF Expected
  <2>2. Cardinality(Open(j)') = Cardinality(Open(j)) + (IF j = i THEN 1 ELSE 0)
    <3>1. ~MaySend(cycle[p][c]) /\ MaySend(value)
      BY <1>1, <1>2 DEF MaySend
    <3> QED
      BY <1>2, <1>3, <2>1, <3>1, OpenChanges DEF ChanceOf
  <2>3. CASE j = i
    <3>1. Held(i)'
      BY <1>2, <1>4 DEF Held, Holds
    <3>2. Waiting(i) /\ ~Waiting(i)'
      BY <1>1, <1>5, <3>1 DEF Waiting, Queued
    <3> QED
      BY <2>1, <2>2, <2>3, <3>2
  <2>4. CASE j # i
    <3>1. Held(j)' <=> Held(j)
      <4>1. \A q \in Processes, d \in Cycles :
               (Busy(cycle'[q][d]) /\ cycle'[q][d].id = j)
                  <=> (Busy(cycle[q][d]) /\ cycle[q][d].id = j)
        BY <1>1, <1>2, <1>4, <2>4 DEF Busy
      <4> QED
        BY <4>1 DEF Held, Holds, Busy
    <3>2. Waiting(j)' <=> Waiting(j)
      BY <1>5, <2>4, <3>1 DEF Waiting
    <3> QED
      BY <2>1, <2>2, <2>4, <3>2
  <2> QED
    BY <2>3, <2>4
<1>13. FaultsPayForRepeats'
  BY <1>1, <1>5, <1>6, <1>12 DEF SmsInv, FaultsPayForRepeats
<1>14. VerdictsKept
  BY <1>1, <1>5 DEF VerdictsKept, VerdictKept, Queued, Settled
<1> QED
  BY <1>7, <1>9, <1>10, <1>11, <1>13, <1>14 DEF SmsInv

-----------------------------------------------------------------------------
(* The outbox: every step                                                    *)

LEMMA Queueing ==
    ASSUME SmsInv, NEW to \in Recipients, EnqueueOtpSms(to)
    PROVE  SmsInv' /\ VerdictsKept
<1> DEFINE old == [i \in DOMAIN sms |-> Superseded(sms[i], to)]
<1>0. PICK n \in Nat : n = Len(sms)
  BY TypedRows
<1>1. /\ sms' = Append(old, NewMessage(to)) /\ texts' = Append(texts, 0)
      /\ overruns' = Append(overruns, 0)
      /\ UNCHANGED <<cycle, server, faults>>
  BY DEF EnqueueOtpSms, processVars
<1>2. /\ n \in Nat /\ DOMAIN sms = 1..n
      /\ texts \in Seq(Nat) /\ Len(texts) = n /\ overruns \in Seq(Nat) /\ Len(overruns) = n
      /\ \A i \in 1..n : sms[i] \in Message
  BY <1>0, TypedRows DEF SmsInv, SmsTypes
<1>3. old \in Seq(Message) /\ Len(old) = n
  BY <1>0, <1>2, RowsMapped, SupersededIs
<1>4. NewMessage(to) \in Message /\ NewMessage(to).status = "PENDING"
  BY BoundsAssumption DEF NewMessage, Message, Statuses, Queued
<1>5. \A i \in 1..n : old[i] = Superseded(sms[i], to)
  BY <1>2
<1> HIDE DEF old
<1>6. /\ sms' \in Seq(Message) /\ Len(sms') = n + 1 /\ DOMAIN sms' = 1..(n + 1)
      /\ \A i \in 1..n : sms'[i] = Superseded(sms[i], to)
      /\ sms'[n + 1].status = "PENDING"
  BY <1>1, <1>3, <1>4, <1>5, AppendProperties, LenProperties
<1>7. /\ texts' \in Seq(Nat) /\ Len(texts') = n + 1
      /\ \A i \in 1..n : texts'[i] = texts[i]
      /\ texts'[n + 1] = 0
  BY <1>1, <1>2, AppendProperties
<1>8. /\ overruns' \in Seq(Nat) /\ Len(overruns') = n + 1
      /\ \A i \in 1..n : overruns'[i] = overruns[i]
      /\ overruns'[n + 1] = 0
  BY <1>1, <1>2, AppendProperties
<1>9. \A i \in 1..n : \/ sms'[i] = sms[i]
                      \/ sms[i].status \in Queued /\ sms'[i].status = "CANCELLED"
  BY <1>2, <1>6, SupersededIs
<1>10. SmsTypes' /\ DownIsIdle' /\ Stopping' = Stopping
  BY <1>1, <1>6, <1>7, <1>8 DEF SmsInv, SmsTypes, DownIsIdle, Stopping
<1>11. \A p \in Processes, c \in Cycles :
          /\ cycle'[p][c] = cycle[p][c]
          /\ Busy(cycle[p][c]) => cycle[p][c].id \in 1..n
  BY <1>1, <1>2 DEF SmsInv, HeldUnderALease
<1>12. HeldUnderALease'
  <2>1. ASSUME NEW p \in Processes, NEW c \in Cycles, Busy(cycle[p][c]),
               NEW i, i = cycle[p][c].id
        PROVE  i \in DOMAIN sms' /\ (overruns'[i] = 0 => KnownToRow(cycle[p][c], sms'[i]))
    <3>1. i \in 1..n /\ i \in DOMAIN sms' /\ overruns'[i] = overruns[i]
      BY <1>2, <1>6, <1>8, <1>11, <2>1
    <3>2. overruns[i] = 0 => KnownToRow(cycle[p][c], sms[i])
      BY <2>1 DEF SmsInv, HeldUnderALease
    <3> QED
      BY <1>9, <3>1, <3>2 DEF KnownToRow, Queued
  <2> QED
    BY <1>11, <2>1 DEF HeldUnderALease
<1>13. HeldByOne'
  <2>1. ASSUME NEW p \in Processes, NEW q \in Processes, NEW c \in Cycles, NEW d \in Cycles,
               Busy(cycle[p][c]), Busy(cycle[q][d]), cycle[p][c].id = cycle[q][d].id,
               overruns'[cycle[p][c].id] = 0
        PROVE  p = q /\ c = d
    <3>1. overruns[cycle[p][c].id] = 0
      BY <1>8, <1>11, <2>1
    <3> QED
      BY <2>1, <3>1 DEF SmsInv, HeldByOne
  <2> QED
    BY <1>11, <2>1 DEF HeldByOne
<1>14. \A i : (Open(i)' = Open(i)) /\ (Held(i)' <=> Held(i))
  BY <1>11 DEF Open, Held
<1>15. ASSUME NEW i \in 1..n
       PROVE  Expected(i)' + Cardinality(Stopping) <= 1 + faults + overruns'[i]
  <2>1. /\ Expected(i) = texts[i] + Cardinality(Open(i)) + (IF Waiting(i) THEN 1 ELSE 0)
        /\ Expected(i)' = texts[i] + Cardinality(Open(i)) + (IF Waiting(i)' THEN 1 ELSE 0)
    BY <1>7, <1>14 DEF Expected
  <2>2. Waiting(i)' => Waiting(i)
    BY <1>9, <1>14 DEF Waiting, Queued
  <2>3. /\ texts[i] \in Nat /\ overruns[i] \in Nat /\ Cardinality(Open(i)) \in Nat
        /\ faults \in Nat /\ Cardinality(Stopping) \in Nat
    BY <1>2, Counts
  <2>4. Expected(i) + Cardinality(Stopping) <= 1 + faults + overruns[i]
    BY <1>2 DEF SmsInv, FaultsPayForRepeats
  <2> QED
    BY <1>8, <2>1, <2>2, <2>3, <2>4, SMTT(60)
<1>16. Expected(n + 1)' + Cardinality(Stopping) <= 1 + faults + overruns'[n + 1]
  <2>1. Open(n + 1) = {}
    BY <1>2, <1>11 DEF Open, MaySend, Busy
  <2>2. Open(n + 1)' = {} /\ Cardinality({}) = 0
    BY <1>14, <2>1, FS_EmptySet
  <2>3. Expected(n + 1)' = 0 + 0 + (IF Waiting(n + 1)' THEN 1 ELSE 0)
    BY <1>7, <2>2, Zenon DEF Expected
  <2>4. /\ faults \in Nat /\ Cardinality(Stopping) \in Nat
        /\ Cardinality(Stopping) <= faults
    BY Counts DEF SmsInv, FaultsPayForRepeats
  <2> QED
    BY <1>8, <2>3, <2>4
<1>17. FaultsPayForRepeats'
  <2>1. \A i \in 1..(n + 1) : i \in 1..n \/ i = n + 1
    BY <1>2
  <2>2. \A i \in 1..(n + 1) :
           Expected(i)' + Cardinality(Stopping)' <= 1 + faults' + overruns'[i]
    BY <1>1, <1>10, <1>15, <1>16, <2>1
  <2>3. Cardinality(Stopping)' <= faults'
    BY <1>1, <1>10 DEF SmsInv, FaultsPayForRepeats
  <2> QED
    BY <1>6, <2>2, <2>3 DEF FaultsPayForRepeats
<1>18. VerdictsKept
  BY <1>2, <1>9 DEF VerdictsKept, VerdictKept, Queued, Settled
<1> QED
  BY <1>10, <1>12, <1>13, <1>17, <1>18 DEF SmsInv


LEMMA HandLetsGo ==
    ASSUME SmsInv, NEW p \in Processes, NEW c \in Cycles, Busy(cycle[p][c]),
           SetCycle(p, c, Idle), UNCHANGED <<server, countVars>>,
           NEW row \in Message, SetRow(cycle[p][c].id, row),
           faults' = faults \/ faults' = faults + 1,
           row.status \in Settled \/ MaySend(cycle[p][c]) \/ faults' = faults + 1
    PROVE  SmsInv' /\ VerdictsKept
<1> DEFINE now == cycle[p][c]
<1>1. /\ UNCHANGED <<texts, overruns, server>> /\ texts' \in Seq(Nat) /\ Len(texts') = Len(texts)
      /\ Idle \in CycleState /\ Idle.at # now.at
  BY IdleIsACycle DEF countVars, SmsInv, SmsTypes, Busy
<1>2. Owed(now, Idle, now.id, row)
  <2>1. CASE row.status \in Settled
    <3>1. now.id \in DOMAIN sms /\ texts[now.id] \in Nat /\ faults \in Nat
      BY Counts DEF SmsInv, HeldUnderALease
    <3>2. Chance(Idle) = 0 /\ Chance(now) \in 0..1
      BY IdleIsACycle DEF Chance
    <3>3. faults' - faults >= 0 /\ faults' \in Nat
      BY <3>1
    <3>4. texts[now.id] + Chance(Idle) <= texts[now.id] + Chance(now) + (faults' - faults)
      BY <3>1, <3>2, <3>3
    <3> QED
      BY <1>1, <2>1, <3>4 DEF Owed
  <2>2. CASE MaySend(now) \/ faults' = faults + 1
    BY <1>1, <2>2 DEF Owed
  <2> QED
    BY <2>1, <2>2
<1> QED
  BY <1>1, <1>2, HandMoves

LEMMA RowAsItIs ==
    ASSUME SmsInv, NEW i \in DOMAIN sms, sms' = sms
    PROVE  SetRow(i, sms[i])
BY TypedRows DEF SetRow, SmsInv, SmsTypes

\* A message that is held in time is not for the recovery.
LEMMA HeldRows ==
    ASSUME SmsInv, NEW i \in DOMAIN sms, Held(i), overruns[i] = 0
    PROVE  (sms[i].status = "PROCESSING" /\ sms[i].lease > 0) \/ sms[i].status = "SENT"
BY HeldIsBusy DEF SmsInv, HeldUnderALease, KnownToRow

LEMMA HeldAsBefore ==
    ASSUME \A p \in Processes, c \in Cycles : HandIsStill(p, c), NEW i
    PROVE  Held(i)' <=> Held(i)
BY DEF HandIsStill, Held, Holds, Busy

\* Rows that no cycle has in time are recovered, deleted or cancelled.
RowMoves(i) ==
    \/ sms'[i] = sms[i]
    \/ LeaseRunOut(sms[i]) /\ sms'[i].status = "RETRY"
    \/ sms[i].status \in Settled /\ sms'[i].status = "purged" /\ ~Held(i)
    \/ sms[i].status \notin Settled /\ sms'[i].status = "CANCELLED" /\ ~Held(i)

LEMMA RowsMove ==
    ASSUME SmsInv, UNCHANGED <<countVars, server, faults>>,
           cycle' \in [Processes -> [Cycles -> CycleState]], DownIsIdle',
           \A p \in Processes, c \in Cycles : HandIsStill(p, c),
           sms' \in Seq(Message), Len(sms') = Len(sms),
           \A i \in DOMAIN sms : RowMoves(i)
    PROVE  SmsInv' /\ VerdictsKept
<1>1. UNCHANGED <<texts, overruns>> /\ SmsTypes' /\ DOMAIN sms' = DOMAIN sms
  BY TypedRows, LenProperties DEF countVars, SmsInv, SmsTypes
<1>2. ASSUME NEW i \in DOMAIN sms
      PROVE  RowIsStill(i)
  <2>1. Held(i)' <=> Held(i)
    BY HeldAsBefore
  <2>2. CASE sms'[i] = sms[i]
    BY <1>1, <2>1, <2>2, HeldRows DEF RowIsStill, Waiting
  <2>3. CASE LeaseRunOut(sms[i]) /\ sms'[i].status = "RETRY"
    <3>1. ~(Held(i) /\ overruns[i] = 0)
      BY <2>3, HeldRows DEF LeaseRunOut
    <3> QED
      BY <1>1, <2>3, <3>1 DEF RowIsStill, Waiting, LeaseRunOut, Settled
  <2>4. CASE ~Held(i) /\ sms[i].status \in Settled /\ sms'[i].status = "purged"
    BY <1>1, <2>4 DEF RowIsStill, Waiting, Queued
  <2>5. CASE ~Held(i) /\ sms[i].status \notin Settled /\ sms'[i].status = "CANCELLED"
    BY <1>1, <2>5 DEF RowIsStill, Waiting, Queued
  <2> QED
    BY <2>2, <2>3, <2>4, <2>5 DEF RowMoves
<1> QED
  BY <1>1, <1>2, HandsAreStill

\* A cycle without a message goes on without one.
LEMMA FreeCycleMoves ==
    ASSUME SmsInv, NEW p \in Processes, NEW c \in Cycles, ~Busy(cycle[p][c]),
           NEW value \in CycleState, ~Busy(value), value.at = "idle" \/ server[p] # "down",
           SetCycle(p, c, value), UNCHANGED <<countVars, server, faults>>,
           sms' \in Seq(Message), Len(sms') = Len(sms),
           \A i \in DOMAIN sms : RowMoves(i)
    PROVE  SmsInv' /\ VerdictsKept
<1>1. /\ cycle' \in [Processes -> [Cycles -> CycleState]]
      /\ \A q \in Processes, d \in Cycles :
            cycle'[q][d] = IF q = p /\ d = c THEN value ELSE cycle[q][d]
  BY CycleSet
<1>2. \A q \in Processes, d \in Cycles : HandIsStill(q, d)
  BY <1>1 DEF HandIsStill
<1>3. DownIsIdle'
  BY <1>1 DEF SmsInv, DownIsIdle
<1> QED
  BY <1>1, <1>2, <1>3, RowsMove

LEMMA CycleSteps ==
    ASSUME SmsInv, NEW p \in Processes, NEW c \in Cycles, CycleStep(p, c)
    PROVE  SmsInv' /\ VerdictsKept
<1> DEFINE now == cycle[p][c]
<1>0. /\ now \in CycleState /\ faults \in Nat
      /\ Busy(now) => now.id \in DOMAIN sms /\ sms[now.id] \in Message
  BY TypedRows DEF SmsInv, SmsTypes, HeldUnderALease
<1>1. CASE RunOnce(p, c)
  <2> DEFINE value == [Idle EXCEPT !.at = "claiming"]
  <2>1. /\ sms' = [i \in DOMAIN sms |-> Recovered(sms[i])]
        /\ SetCycle(p, c, value) /\ now.at = "idle" /\ server[p] = "up"
        /\ UNCHANGED <<countVars, server, faults>>
    BY <1>1 DEF RunOnce, processVars
  <2>2. value \in CycleState /\ ~Busy(value) /\ ~Busy(now)
    BY <2>1, IdleIsACycle DEF Busy
  <2> HIDE DEF value
  <2>3. sms' \in Seq(Message) /\ Len(sms') = Len(sms)
    BY <2>1, TypedRows, RowsMapped, RecoveredIs
  <2>4. \A i \in DOMAIN sms : RowMoves(i)
    BY <2>1, TypedRows, RecoveredIs DEF RowMoves
  <2> QED
    BY <2>1, <2>2, <2>3, <2>4, FreeCycleMoves
<1>2. CASE \E i \in DOMAIN sms : Claim(p, c, i)
  BY <1>2, Claimed
<1>3. CASE ClaimNothing(p, c)
  <2>1. SetCycle(p, c, Idle) /\ ~Busy(now) /\ UNCHANGED <<sms, countVars, server, faults>>
    BY <1>3 DEF ClaimNothing, Busy, rowVars, processVars
  <2>2. sms' \in Seq(Message) /\ \A i \in DOMAIN sms : RowMoves(i)
    BY <2>1 DEF SmsInv, SmsTypes, RowMoves
  <2> QED
    BY <2>1, <2>2, IdleIsACycle, FreeCycleMoves
<1>4. CASE ReadClaimed(p, c)
  <2> DEFINE first == [now EXCEPT !.at = "sending"]
             value == [first EXCEPT !.tries = sms[now.id].attempts + 1]
  <2>1. now.at = "claimed" /\ UNCHANGED <<sms, texts, overruns, server, faults>>
    BY <1>4 DEF ReadClaimed, rowVars, countVars
  <2>2. SetCycle(p, c, value)
    BY <1>4, Zenon DEF ReadClaimed
  <2>3. sms[now.id].attempts + 1 \in Nat /\ Busy(now)
    BY <1>0, <2>1 DEF Message, Busy
  <2>4. first \in CycleState /\ first.at = "sending" /\ first.id = now.id
    BY <1>0 DEF CycleState
  <2>5. value \in CycleState /\ value.at = "sending" /\ value.id = now.id
    <3> HIDE DEF first
    <3> QED
      BY <2>3, <2>4 DEF CycleState
  <2> HIDE DEF value
  <2>6. /\ now.id \in DOMAIN sms /\ sms[now.id] \in Message /\ SetRow(now.id, sms[now.id])
        /\ texts[now.id] \in Nat /\ texts' \in Seq(Nat) /\ Len(texts') = Len(texts)
    BY <1>0, <2>1, <2>3, RowAsItIs, Counts DEF SmsInv, SmsTypes
  <2>7. Chance(now) = 1 /\ Chance(value) = 1
    BY <2>1, <2>5 DEF Chance, MaySend
  <2>8. Owed(now, value, now.id, sms[now.id]) /\ GoesOn(now, value, now.id, sms[now.id])
    BY <1>0, <2>1, <2>5, <2>6, <2>7 DEF Owed, GoesOn, Busy
  <2> QED
    BY <2>1, <2>2, <2>3, <2>5, <2>6, <2>8, HandMoves
<1>5. CASE ClaimLost(p, c)
  <2>1. /\ Busy(now) /\ SetCycle(p, c, Idle) /\ faults' = faults + 1
        /\ UNCHANGED <<sms, countVars, server>>
    BY <1>5 DEF ClaimLost, Busy, rowVars
  <2> QED
    BY <1>0, <2>1, RowAsItIs, HandLetsGo
<1>6. CASE CancelTooOld(p, c)
  <2> DEFINE row == Closed(sms[now.id], "CANCELLED", sms[now.id].attempts)
  <2>1. /\ Busy(now) /\ SetCycle(p, c, Idle) /\ UNCHANGED <<countVars, server, faults>>
        /\ SetRow(now.id, row)
    BY <1>6 DEF CancelTooOld, Busy, EndCycle
  <2>2. sms[now.id].attempts \in Nat /\ "CANCELLED" \in Settled
    BY <1>0, <2>1 DEF Message, Settled
  <2>3. row \in Message /\ row.status \in Settled
    BY <1>0, <2>1, <2>2, ClosedIs
  <2> HIDE DEF row
  <2> QED
    BY <2>1, <2>3, HandLetsGo
<1>7. CASE \E answer \in Answers : Send(p, c, answer)
  <2>1. PICK answer \in Answers : Send(p, c, answer)
    BY <1>7
  <2> DEFINE first == [now EXCEPT !.at = "answered"]
             value == [first EXCEPT !.answer = answer]
  <2>2. now.at = "sending" /\ UNCHANGED <<sms, overruns, server, faults>> /\ Busy(now)
    BY <2>1 DEF Send, processVars, Busy
  <2>3. SetCycle(p, c, value)
    BY <2>1, Zenon DEF Send
  <2>4. PICK n \in (CASE answer = "accepted" -> {1} [] answer = "unknown" -> {0, 1}
                      [] OTHER -> {0}) :
           texts' = [texts EXCEPT ![now.id] = @ + n]
    BY <2>1 DEF Send
  <2>5. first \in CycleState /\ first.at = "answered" /\ first.id = now.id
    BY <1>0 DEF CycleState
  <2>6. /\ value \in CycleState /\ value.at = "answered" /\ value.id = now.id
        /\ value.answer = answer
    <3> HIDE DEF first
    <3> QED
      BY <2>5 DEF CycleState
  <2> HIDE DEF value
  <2>7. n \in 0..1 /\ n + Chance(value) <= 1 /\ Chance(value) \in 0..1 /\ Chance(now) = 1
    <3>1. Chance(now) = 1 /\ Chance(value) = IF answer = "refused" THEN 1 ELSE 0
      BY <2>2, <2>6 DEF Chance, MaySend
    <3>2. n = 0 \/ (n = 1 /\ answer # "refused")
      BY <2>4 DEF Answers
    <3> QED
      BY <3>1, <3>2
  <2>8. /\ texts \in Seq(Nat) /\ now.id \in 1..Len(texts) /\ DOMAIN sms = 1..Len(texts)
        /\ texts[now.id] \in Nat
    BY <1>0, <2>2, TypedRows DEF SmsInv, SmsTypes
  <2>9. texts' = [texts EXCEPT ![now.id] = texts[now.id] + n]
    BY <2>4, <2>8
  <2>10. /\ texts' \in Seq(Nat) /\ Len(texts') = Len(texts)
         /\ \A j \in 1..Len(texts) :
               texts'[j] = IF j = now.id THEN texts[now.id] + n ELSE texts[j]
    <3>1. texts[now.id] + n \in Nat
      BY <2>7, <2>8
    <3> QED
      BY <2>8, <2>9, <3>1, ExceptSeq
  <2>11. /\ \A j \in DOMAIN sms : j # now.id => texts'[j] = texts[j]
         /\ texts'[now.id] = texts[now.id] + n
    BY <2>8, <2>10
  <2>12. now.id \in DOMAIN sms /\ sms[now.id] \in Message /\ SetRow(now.id, sms[now.id])
    BY <1>0, <2>2, RowAsItIs
  <2>13. texts'[now.id] + Chance(value) <= texts[now.id] + Chance(now) + (faults' - faults)
    BY <1>0, <2>2, <2>7, <2>8, <2>11
  <2>14. Owed(now, value, now.id, sms[now.id]) /\ GoesOn(now, value, now.id, sms[now.id])
    BY <2>2, <2>6, <2>13 DEF Owed, GoesOn, Busy
  <2> QED
    BY <2>2, <2>3, <2>6, <2>10, <2>11, <2>12, <2>14, HandMoves
<1>8. CASE MarkTerminal(p, c)
  <2> DEFINE verdict == IF now.answer = "accepted" THEN "SENT" ELSE "FAILED"
             row == Closed(sms[now.id], verdict, now.tries)
  <2>1. /\ Busy(now) /\ SetCycle(p, c, Idle) /\ UNCHANGED <<countVars, server, faults>>
        /\ SetRow(now.id, row)
    BY <1>8 DEF MarkTerminal, Busy, EndCycle
  <2>2. verdict \in Settled /\ now.tries \in Nat
    BY <1>0 DEF Settled, CycleState
  <2> HIDE DEF verdict
  <2>3. row \in Message /\ row.status \in Settled
    BY <1>0, <2>1, <2>2, ClosedIs
  <2> HIDE DEF row
  <2> QED
    BY <2>1, <2>3, HandLetsGo
<1>9. CASE ScheduleRetry(p, c)
  <2>1. /\ Busy(now) /\ MaySend(now) /\ SetCycle(p, c, Idle)
        /\ UNCHANGED <<countVars, server, faults>>
    BY <1>9 DEF ScheduleRetry, Retryable, Busy, MaySend, EndCycle
  <2>2. PICK delay \in 1..Backoff :
           SetRow(now.id, Rescheduled(sms[now.id], now.tries, delay))
    BY <1>9 DEF ScheduleRetry
  <2>3. Rescheduled(sms[now.id], now.tries, delay) \in Message
    <3>1. delay \in Nat /\ now.tries \in Nat
      BY <1>0, BoundsAssumption DEF CycleState
    <3> QED
      BY <1>0, <2>1, <3>1, RescheduledIs
  <2> QED
    BY <2>1, <2>2, <2>3, HandLetsGo
<1>10. CASE VerdictLost(p, c)
  <2>1. /\ Busy(now) /\ SetCycle(p, c, Idle) /\ UNCHANGED <<countVars, server>>
        /\ faults' = faults + 1
        /\ now.id \in DOMAIN sms /\ sms[now.id] \in Message
        /\ now.tries \in Nat /\ sms[now.id].attempts \in Nat
    BY <1>0, <1>10 DEF VerdictLost, Busy, CycleState, EndCycle, Message
  <2>2. \E row \in Message : SetRow(now.id, row)
    <3>1. CASE sms' = sms
      BY <2>1, <3>1, RowAsItIs
    <3>2. CASE SetRow(now.id, Closed(sms[now.id], "CANCELLED", sms[now.id].attempts))
      <4>1. "CANCELLED" \in Settled
        BY DEF Settled
      <4> QED
        BY <2>1, <3>2, <4>1, ClosedIs
    <3>3. CASE SetRow(now.id, Closed(sms[now.id], "FAILED", now.tries))
      <4>1. "FAILED" \in Settled
        BY DEF Settled
      <4> QED
        BY <2>1, <3>3, <4>1, ClosedIs
    <3>4. CASE \E delay \in 1..Backoff :
                 SetRow(now.id, Rescheduled(sms[now.id], now.tries, delay))
      <4>1. PICK delay \in 1..Backoff :
               SetRow(now.id, Rescheduled(sms[now.id], now.tries, delay))
        BY <3>4
      <4>2. delay \in Nat
        BY BoundsAssumption
      <4> QED
        BY <2>1, <4>1, <4>2, RescheduledIs
    <3> QED
      BY <1>10, <3>1, <3>2, <3>3, <3>4 DEF VerdictLost
  <2> QED
    BY <2>1, <2>2, HandLetsGo
<1>11. CASE DoubtAcceptance(p, c)
  <2> DEFINE value == [now EXCEPT !.at = "doubted"]
  <2>1. /\ now.at = "answered" /\ now.answer = "accepted" /\ faults' = faults + 1
        /\ SetCycle(p, c, value) /\ UNCHANGED <<texts, overruns, server>> /\ Busy(now)
        /\ sms' = sms \/ SetRow(now.id, Closed(sms[now.id], "SENT", now.tries))
    BY <1>11 DEF DoubtAcceptance, countVars, Busy
  <2>2. value \in CycleState /\ value.at = "doubted" /\ value.id = now.id
    BY <1>0 DEF CycleState
  <2> HIDE DEF value
  <2>3. /\ now.id \in DOMAIN sms /\ sms[now.id] \in Message /\ now.tries \in Nat
        /\ texts[now.id] \in Nat /\ texts' \in Seq(Nat) /\ Len(texts') = Len(texts)
    BY <1>0, <2>1, Counts DEF CycleState, SmsInv, SmsTypes
  <2>4. PICK row \in Message :
           /\ SetRow(now.id, row)
           /\ \/ row = sms[now.id]
              \/ row.status \in Settled /\ (sms[now.id].status # "purged" => row.status = "SENT")
    <3>1. CASE sms' = sms
      BY <2>3, <3>1, RowAsItIs
    <3>2. CASE SetRow(now.id, Closed(sms[now.id], "SENT", now.tries))
      <4>1. "SENT" \in Settled
        BY DEF Settled
      <4> QED
        BY <2>3, <3>2, <4>1, ClosedIs
    <3> QED
      BY <2>1, <3>1, <3>2
  <2>5. Chance(now) = 0 /\ Chance(value) = 1
    BY <2>1, <2>2 DEF Chance, MaySend
  <2>6. texts'[now.id] + Chance(value) <= texts[now.id] + Chance(now) + (faults' - faults)
    BY <1>0, <2>1, <2>3, <2>5
  <2>7. Owed(now, value, now.id, row) /\ GoesOn(now, value, now.id, row)
    BY <2>1, <2>2, <2>4, <2>6 DEF Owed, GoesOn, Busy
  <2> QED
    BY <2>1, <2>2, <2>3, <2>4, <2>7, HandMoves
<1>12. CASE WriteOverAcceptance(p, c)
  <2>1. /\ Busy(now) /\ MaySend(now) /\ SetCycle(p, c, Idle)
        /\ UNCHANGED <<countVars, server, faults>>
        /\ now.id \in DOMAIN sms /\ sms[now.id] \in Message /\ now.tries \in Nat
    BY <1>0, <1>12 DEF WriteOverAcceptance, Busy, MaySend, EndCycle, CycleState
  <2>2. \E row \in Message : SetRow(now.id, row)
    <3>1. CASE sms' = sms
      BY <2>1, <3>1, RowAsItIs
    <3>2. CASE SetRow(now.id, Closed(sms[now.id], "FAILED", now.tries))
      <4>1. "FAILED" \in Settled
        BY DEF Settled
      <4> QED
        BY <2>1, <3>2, <4>1, ClosedIs
    <3>3. CASE \E delay \in 1..Backoff :
                 SetRow(now.id, Rescheduled(sms[now.id], now.tries, delay))
      <4>1. PICK delay \in 1..Backoff :
               SetRow(now.id, Rescheduled(sms[now.id], now.tries, delay))
        BY <3>3
      <4>2. delay \in Nat
        BY BoundsAssumption
      <4> QED
        BY <2>1, <4>1, <4>2, RescheduledIs
    <3> QED
      BY <1>12, <3>1, <3>2, <3>3 DEF WriteOverAcceptance
  <2> QED
    BY <2>1, <2>2, HandLetsGo
<1> QED
  BY <1>1, <1>2, <1>3, <1>4, <1>5, <1>6, <1>7, <1>8, <1>9, <1>10, <1>11, <1>12
  DEF CycleStep, Deliver

LEMMA ProcessSteps ==
    ASSUME SmsInv, NEW p \in Processes,
           StopWorker(p) \/ Exit(p) \/ Crash(p) \/ StartWorker(p)
    PROVE  SmsInv' /\ VerdictsKept
<1>1. CASE Exit(p) \/ Crash(p)
  BY <1>1, ProcessEnds DEF Exit, Crash
<1>2. CASE StopWorker(p)
  <2>1. /\ server' = [server EXCEPT ![p] = "stopping"] /\ server[p] = "up"
        /\ faults' = faults + 1 /\ UNCHANGED <<sms, texts, overruns, cycle>>
    BY <1>2 DEF StopWorker, rowVars, countVars
  <2>2. SmsTypes' /\ HeldUnderALease' /\ HeldByOne' /\ DownIsIdle'
    BY <2>1 DEF SmsInv, SmsTypes, HeldUnderALease, HeldByOne, DownIsIdle, Busy
  <2>3. Stopping' = Stopping \cup {p} /\ p \notin Stopping
    BY <2>1 DEF Stopping, SmsInv, SmsTypes
  <2>4. Cardinality(Stopping') = Cardinality(Stopping) + 1 /\ Cardinality(Stopping) \in Nat
    BY <2>3, StoppingIsFinite, FS_AddElement
  <2>5. \A i : Expected(i)' = Expected(i)
    BY <2>1 DEF Expected, Open, Waiting, Held
  <2>6. faults \in Nat /\ Cardinality(Stopping) <= faults
    BY Counts DEF SmsInv, FaultsPayForRepeats
  <2>7. ASSUME NEW i \in DOMAIN sms
        PROVE  Expected(i) + Cardinality(Stopping') <= 1 + faults' + overruns[i]
    <3>1. /\ Expected(i) + Cardinality(Stopping) <= 1 + faults + overruns[i]
          /\ texts[i] \in Nat /\ overruns[i] \in Nat /\ Cardinality(Open(i)) \in Nat
      BY Counts DEF SmsInv, FaultsPayForRepeats
    <3>2. Expected(i) \in Int
      BY <3>1 DEF Expected
    <3> QED
      BY <2>1, <2>4, <2>6, <3>1, <3>2
  <2>8. Cardinality(Stopping') <= faults'
    BY <2>1, <2>4, <2>6
  <2>9. FaultsPayForRepeats'
    BY <2>1, <2>5, <2>7, <2>8 DEF FaultsPayForRepeats
  <2> QED
    BY <2>1, <2>2, <2>9 DEF SmsInv, VerdictsKept, VerdictKept
<1>3. CASE StartWorker(p)
  <2>1. /\ server' = [server EXCEPT ![p] = "up"] /\ server[p] = "down"
        /\ UNCHANGED <<sms, texts, overruns, cycle, faults>>
    BY <1>3 DEF StartWorker, rowVars, countVars
  <2>2. SmsTypes' /\ HeldUnderALease' /\ HeldByOne' /\ DownIsIdle'
    BY <2>1 DEF SmsInv, SmsTypes, HeldUnderALease, HeldByOne, DownIsIdle, Busy
  <2>3. Stopping' = Stopping
    BY <2>1 DEF Stopping, SmsInv, SmsTypes
  <2>4. \A i : Expected(i)' = Expected(i)
    BY <2>1 DEF Expected, Open, Waiting, Held
  <2>5. FaultsPayForRepeats'
    BY <2>1, <2>3, <2>4 DEF SmsInv, FaultsPayForRepeats
  <2> QED
    BY <2>1, <2>2, <2>5 DEF SmsInv, VerdictsKept, VerdictKept
<1> QED
  BY <1>1, <1>2, <1>3

\* Time passes. A lease that ends in the hands of a cycle is counted.
LEMMA TimePasses ==
    ASSUME SmsInv, Tick
    PROVE  SmsInv' /\ VerdictsKept
<1> DEFINE ends(i) == IF Outlived(i) THEN 1 ELSE 0
<1>1. /\ sms' = [i \in DOMAIN sms |-> Older(sms[i])]
      /\ overruns' = [i \in DOMAIN sms |-> overruns[i] + ends(i)]
      /\ UNCHANGED <<texts, cycle, server, faults>>
  BY DEF Tick, processVars
<1>2. /\ sms' \in Seq(Message) /\ Len(sms') = Len(sms) /\ DOMAIN sms' = DOMAIN sms
      /\ Len(sms) \in Nat /\ DOMAIN sms = 1..Len(sms)
      /\ \A i \in DOMAIN sms : sms'[i] = Older(sms[i]) /\ sms[i] \in Message
                               /\ overruns[i] \in Nat
  BY <1>1, TypedRows, RowsMapped, OlderIs
<1>3. overruns' \in Seq(Nat) /\ Len(overruns') = Len(sms)
  <2>1. \A i \in DOMAIN sms : ends(i) \in Nat
    OBVIOUS
  <2> HIDE DEF ends
  <2>2. overruns' \in [1..Len(sms) -> Nat]
    BY <1>1, <1>2, <2>1
  <2>3. overruns' \in Seq(Nat)
    BY <1>2, <2>2, SeqDef
  <2> QED
    BY <1>2, <2>2, <2>3, LenProperties
<1>4. \A p \in Processes, c \in Cycles : HandIsStill(p, c)
  BY <1>1 DEF HandIsStill
<1>5. SmsTypes' /\ DownIsIdle'
  BY <1>1, <1>2, <1>3 DEF SmsInv, SmsTypes, DownIsIdle
<1>6. ASSUME NEW i \in DOMAIN sms
      PROVE  RowIsStill(i)
  <2>1. Held(i)' <=> Held(i)
    BY <1>4, HeldAsBefore
  <2>2. /\ sms'[i].status = sms[i].status /\ sms[i].lease \in Nat /\ overruns[i] \in Nat
        /\ sms'[i].lease = IF sms[i].lease = 0 THEN 0 ELSE sms[i].lease - 1
    BY <1>2, OlderIs DEF Message
  <2>3. overruns'[i] = overruns[i] + (IF Outlived(i) THEN 1 ELSE 0)
    BY <1>1
  <2>4. /\ overruns'[i] = overruns[i] => ~Outlived(i)
        /\ overruns'[i] = 0 => overruns[i] = 0 /\ ~Outlived(i)
    BY <2>2, <2>3
  <2>5. overruns'[i] = overruns[i] /\ Waiting(i)' => Waiting(i)
    BY <2>1, <2>2, <2>4 DEF Waiting, Outlived
  <2>6. Held(i) /\ overruns'[i] = 0 =>
           (sms[i].status = "PROCESSING" => sms'[i].lease > 0)
    BY <2>2, <2>4, HeldRows DEF Outlived
  <2> QED
    BY <2>2, <2>3, <2>5, <2>6 DEF RowIsStill
<1> QED
  BY <1>1, <1>2, <1>4, <1>5, <1>6, HandsAreStill

LEMMA OutboxSteps ==
    ASSUME SmsInv, RunCleanup \/ RetireRecoverySms
    PROVE  SmsInv' /\ VerdictsKept
<1>1. UNCHANGED <<countVars, cycle, server, faults>>
  BY DEF RunCleanup, RetireRecoverySms, processVars
<1>2. /\ cycle' \in [Processes -> [Cycles -> CycleState]] /\ DownIsIdle'
      /\ \A p \in Processes, c \in Cycles : HandIsStill(p, c)
  BY <1>1 DEF SmsInv, SmsTypes, DownIsIdle, HandIsStill
<1>3. CASE RunCleanup
  <2> DEFINE new(i) == IF Retired(i) THEN [sms[i] EXCEPT !.status = "purged"]
                       ELSE Recovered(sms[i])
  <2>1. sms' = [i \in DOMAIN sms |-> new(i)]
    BY <1>3 DEF RunCleanup
  <2>2. ASSUME NEW i \in DOMAIN sms
        PROVE  /\ new(i) \in Message
               /\ \/ new(i) = sms[i]
                  \/ LeaseRunOut(sms[i]) /\ new(i).status = "RETRY"
                  \/ sms[i].status \in Settled /\ new(i).status = "purged" /\ ~Held(i)
    <3>1. sms[i] \in Message
      BY TypedRows
    <3>2. CASE Retired(i)
      BY <3>1, <3>2 DEF Retired, Message, Statuses, Settled
    <3>3. CASE ~Retired(i)
      BY <3>1, <3>3, RecoveredIs
    <3> QED
      BY <3>2, <3>3
  <2> HIDE DEF new
  <2>3. /\ sms' \in Seq(Message) /\ Len(sms') = Len(sms)
        /\ \A i \in DOMAIN sms : RowMoves(i)
    BY <2>1, <2>2, RowsMapped DEF RowMoves
  <2> QED
    BY <1>1, <1>2, <2>3, RowsMove
<1>4. CASE RetireRecoverySms
  <2> DEFINE first(i) == [sms[i] EXCEPT !.status = "CANCELLED"]
             closed(i) == [first(i) EXCEPT !.lease = 0]
             new(i) == IF sms[i].status \in Settled THEN sms[i] ELSE closed(i)
  <2>1. /\ sms' = [i \in DOMAIN sms |-> new(i)]
        /\ \A p \in Processes : server[p] = "down"
    BY <1>4, Zenon DEF RetireRecoverySms
  <2>2. ASSUME NEW i \in DOMAIN sms
        PROVE  /\ new(i) \in Message
               /\ \/ new(i) = sms[i]
                  \/ sms[i].status \notin Settled /\ new(i).status = "CANCELLED" /\ ~Held(i)
    <3>1. sms[i] \in Message /\ first(i) \in Message /\ first(i).status = "CANCELLED"
      BY TypedRows DEF Message, Statuses, Settled
    <3>2. closed(i) \in Message /\ closed(i).status = "CANCELLED"
      <4> HIDE DEF first
      <4> QED
        BY <3>1 DEF Message
    <3>3. ~Held(i)
      BY <2>1 DEF Held, Holds, SmsInv, DownIsIdle
    <3> QED
      BY <3>1, <3>2, <3>3
  <2> HIDE DEF new
  <2>3. /\ sms' \in Seq(Message) /\ Len(sms') = Len(sms)
        /\ \A i \in DOMAIN sms : RowMoves(i)
    BY <2>1, <2>2, RowsMapped DEF RowMoves
  <2> QED
    BY <1>1, <1>2, <2>3, RowsMove
<1> QED
  BY <1>3, <1>4

LEMMA SmsInvStep ==
    ASSUME SmsInv, [SmsNext]_smsVars
    PROVE  SmsInv' /\ VerdictsKept
<1>1. CASE SmsNext
  BY <1>1, Queueing, CycleSteps, ProcessSteps, OutboxSteps, TimePasses DEF SmsNext
<1>2. CASE UNCHANGED smsVars
  <2>1. UNCHANGED <<sms, texts, overruns, server, cycle, faults>>
    BY <1>2 DEF smsVars, rowVars, countVars, processVars
  <2>2. Stopping' = Stopping /\ \A i : Expected(i)' = Expected(i)
    BY <2>1 DEF Stopping, Expected, Open, Waiting, Held
  <2>3. SmsTypes' /\ HeldUnderALease' /\ HeldByOne' /\ DownIsIdle'
    BY <2>1 DEF SmsInv, SmsTypes, HeldUnderALease, HeldByOne, DownIsIdle
  <2>4. FaultsPayForRepeats'
    BY <2>1, <2>2 DEF SmsInv, FaultsPayForRepeats
  <2>5. VerdictsKept
    BY <2>1 DEF VerdictsKept, VerdictKept
  <2> QED
    BY <2>3, <2>4, <2>5 DEF SmsInv
<1> QED
  BY <1>1, <1>2

LEMMA SmsInvInit ==
    ASSUME SmsInit
    PROVE  SmsInv
<1>1. /\ sms = <<>> /\ texts = <<>> /\ overruns = <<>> /\ faults = 0
      /\ server = [p \in Processes |-> "up"]
      /\ cycle = [p \in Processes |-> [c \in Cycles |-> Idle]]
  BY DEF SmsInit
<1>2. /\ sms \in Seq(Message) /\ texts \in Seq(Nat) /\ overruns \in Seq(Nat)
      /\ Len(sms) = 0 /\ Len(texts) = 0 /\ Len(overruns) = 0
  BY <1>1, EmptySeq
<1>3. SmsTypes
  BY <1>1, <1>2, IdleIsACycle DEF SmsTypes
<1>4. \A p \in Processes, c \in Cycles : ~Busy(cycle[p][c]) /\ server[p] # "down"
  BY <1>1, IdleIsACycle
<1>5. HeldUnderALease /\ HeldByOne /\ DownIsIdle
  BY <1>4 DEF HeldUnderALease, HeldByOne, DownIsIdle
<1>6. Stopping = {} /\ DOMAIN sms = {}
  BY <1>1 DEF Stopping
<1>7. FaultsPayForRepeats
  BY <1>1, <1>6, FS_EmptySet DEF FaultsPayForRepeats
<1> QED
  BY <1>3, <1>5, <1>7 DEF SmsInv

-----------------------------------------------------------------------------
(* The outbox: what follows                                                  *)

\* A message whose deliveries ended within their lease so far is in the hands
\* of one cycle at most, and its row says so (sms.worker.ts, outbox.service.ts).
THEOREM OneCycleSends == SmsSpec => []OneCyclePerMessage
<1>1. SmsInv => OneCyclePerMessage
  <2> SUFFICES ASSUME SmsInv, NEW i \in DOMAIN sms,
                      NEW p \in Processes, NEW q \in Processes,
                      NEW c \in Cycles, NEW d \in Cycles,
                      Holds(cycle[p][c], i), overruns[i] = 0
               PROVE  /\ sms[i].status = "PROCESSING" \/ cycle[p][c].at = "doubted"
                      /\ Holds(cycle[q][d], i) => p = q /\ c = d
    BY DEF OneCyclePerMessage
  <2>1. Busy(cycle[p][c]) /\ cycle[p][c].id = i
    BY DEF Holds, Busy
  <2>2. sms[i].status = "PROCESSING" \/ cycle[p][c].at = "doubted"
    BY <2>1 DEF SmsInv, HeldUnderALease, KnownToRow
  <2>3. Holds(cycle[q][d], i) => p = q /\ c = d
    BY <2>1 DEF SmsInv, HeldByOne, Holds, Busy
  <2> QED
    BY <2>2, <2>3
<1>2. SmsInit => SmsInv
  BY SmsInvInit
<1>3. SmsInv /\ [SmsNext]_smsVars => SmsInv'
  BY SmsInvStep
<1> QED
  BY <1>1, <1>2, <1>3, PTL DEF SmsSpec

\* A person gets a message again once at most for every process that ended,
\* write that failed and lease that was outlived (sms.worker.ts).
THEOREM RepeatsArePaidFor == SmsSpec => []RepeatsNeedAFault
<1>1. SmsInv => RepeatsNeedAFault
  <2> SUFFICES ASSUME SmsInv, NEW i \in DOMAIN texts
               PROVE  texts[i] <= 1 + faults + overruns[i]
    BY DEF RepeatsNeedAFault
  <2>1. i \in DOMAIN sms
    BY TypedRows
  <2>2. /\ texts[i] \in Nat /\ overruns[i] \in Nat /\ Cardinality(Open(i)) \in Nat
        /\ faults \in Nat /\ Cardinality(Stopping) \in Nat
    BY <2>1, Counts
  <2>3. Expected(i) + Cardinality(Stopping) <= 1 + faults + overruns[i]
    BY <2>1 DEF SmsInv, FaultsPayForRepeats
  <2>4. Expected(i) \in Int /\ texts[i] <= Expected(i)
    BY <2>2 DEF Expected
  <2> QED
    BY <2>2, <2>3, <2>4
<1>2. SmsInit => SmsInv
  BY SmsInvInit
<1>3. SmsInv /\ [SmsNext]_smsVars => SmsInv'
  BY SmsInvStep
<1> QED
  BY <1>1, <1>2, <1>3, PTL DEF SmsSpec

\* A verdict is changed by nothing but the own write of a cycle that still has
\* the settled message, late or after its SENT failed (sms.worker.ts).
THEOREM VerdictsStayFinal == SmsSpec => VerdictsAreFinal
<1>1. SmsInv /\ [SmsNext]_smsVars => [VerdictsKept]_smsVars
  BY SmsInvStep
<1>2. SmsInit => SmsInv
  BY SmsInvInit
<1>3. SmsInv /\ [SmsNext]_smsVars => SmsInv'
  BY SmsInvStep
<1>4. SmsSpec => [][VerdictsKept]_smsVars
  BY <1>1, <1>2, <1>3, PTL DEF SmsSpec
<1> QED
  BY <1>4 DEF VerdictsAreFinal, VerdictsKept, VerdictKept

-----------------------------------------------------------------------------
(* The rate limiter: the invariant                                           *)

Stores == Servers \cup {"redis"}

Counter == [count: Nat, ttl: Int]

CallState == [at: {"idle", "sent", "counted", "failed"}, server: Servers \cup {"none"},
              count: Nat, inWindow: BOOLEAN]

LimitsTypes ==
    /\ counters \in [Stores -> Counter]
    /\ process \in [Servers -> {"down", "starting", "up", "stopping"}]
    /\ link \in [Servers -> {"none", "ready", "lost"}]
    /\ calls \in [Callers -> CallState]
    /\ admitted \in Nat /\ outages \in Nat

\* A process that runs has passed the checks of its environment.
StartedAreValid == \A p \in Servers : process[p] # "down" => ValidateProductionConfig

\* A request is in a process that serves, and such a process has its client.
RequestsAreServed ==
    \A c \in Callers : calls[c].at # "idle" =>
        calls[c].server \in Servers /\ process[calls[c].server] \in {"up", "stopping"}

ServersAreConnected ==
    \A p \in Servers :
        process[p] \in {"up", "stopping"} /\ Store(p) = "redis" => link[p] \in {"ready", "lost"}

LossesAreOutages ==
    /\ \A p \in Servers : link[p] = "lost" => outages > 0
    /\ FailuresNeedAnOutage

\* Requests that the current window counted within the limit, not let through yet.
Pending == {c \in Callers : calls[c].at = "counted" /\ calls[c].inWindow /\ calls[c].count <= Limit}

Guarded == Production /\ limiter \in FailClosed

\* Every request let through, and every one that is about to be, has a number
\* of its own in the shared counter.
NumbersAreApart ==
    Guarded => /\ admitted + Cardinality(Pending) <= Limit
               /\ admitted + Cardinality(Pending) <= counters["redis"].count

LimitsInv ==
    /\ LimitsTypes /\ StartedAreValid /\ RequestsAreServed
    /\ ServersAreConnected /\ LossesAreOutages /\ NumbersAreApart

-----------------------------------------------------------------------------
(* The rate limiter: counters and requests                                   *)

LEMMA CountedIs ==
    ASSUME NEW n \in Nat
    PROVE  /\ Counted(n) \in Nat /\ Counted(n) >= n
           /\ Counted(n) <= Limit => Counted(n) = n + 1
           /\ n < Limit => Counted(n) = n + 1
BY LimitsAssumption DEF Counted

LEMMA IncrWindowIs ==
    ASSUME NEW store \in Stores, NEW counter \in Counter
    PROVE  /\ IncrWindow(store, counter) \in Counter
           /\ store = "redis" => IncrWindow(store, counter).count = Counted(counter.count)
<1>1. Counted(counter.count) \in Nat /\ Window \in Int /\ counter.ttl \in Int
  BY CountedIs, LimitsAssumption DEF Counter
<1>2. IncrWindowLua(counter) \in Counter /\ IncrWindowLua(counter).count = Counted(counter.count)
  BY <1>1 DEF IncrWindowLua, Counter
<1>3. IncrWindowMemory(counter) \in Counter
  BY <1>1 DEF IncrWindowMemory, Counter
<1> QED
  BY <1>2, <1>3 DEF IncrWindow

LEMMA ElapsedIs ==
    ASSUME NEW store, NEW counter \in Counter
    PROVE  /\ Elapsed(store, counter) \in Counter
           /\ store = "redis" /\ counter.ttl # 1 => Elapsed(store, counter).count = counter.count
BY DEF Elapsed, Counter, Absent, NoExpiry

LEMMA AnsweredIs ==
    ASSUME NEW call \in CallState, NEW count \in Nat
    PROVE  /\ Answered(call, count) \in CallState
           /\ Answered(call, count).at = "counted"
           /\ Answered(call, count).server = call.server
           /\ Answered(call, count).count = count
<1> DEFINE first == [call EXCEPT !.at = "counted"]
           second == [first EXCEPT !.count = count]
           new == [second EXCEPT !.inWindow = TRUE]
<1>1. first \in CallState /\ first.at = "counted" /\ first.server = call.server
  BY DEF CallState
<1>2. Answered(call, count) = new
  BY Zenon DEF Answered
<1> HIDE DEF first
<1>3. /\ second \in CallState
      /\ second.at = "counted" /\ second.server = call.server /\ second.count = count
  BY <1>1 DEF CallState
<1> HIDE DEF second
<1>4. /\ new \in CallState
      /\ new.at = "counted" /\ new.server = call.server /\ new.count = count
  BY <1>3 DEF CallState
<1> QED
  BY <1>2, <1>4

LEMMA WithoutAnswerIs ==
    ASSUME NEW call \in CallState
    PROVE  LET failed == [WithoutAnswer(call) EXCEPT !.at = "failed"]
           IN  /\ WithoutAnswer(call) \in CallState /\ WithoutAnswer(call).at = "sent"
               /\ WithoutAnswer(call).server = call.server
               /\ failed \in CallState /\ failed.at = "failed" /\ failed.server = call.server
<1> DEFINE first == [IdleCall EXCEPT !.at = "sent"]
           second == [first EXCEPT !.server = call.server]
           failed == [second EXCEPT !.at = "failed"]
<1>1. first \in CallState /\ first.at = "sent"
  BY DEF IdleCall, CallState
<1>2. WithoutAnswer(call) = second
  BY Zenon DEF WithoutAnswer
<1> HIDE DEF first
<1>3. second \in CallState /\ second.at = "sent" /\ second.server = call.server
  BY <1>1 DEF CallState
<1> HIDE DEF second
<1>4. failed \in CallState /\ failed.at = "failed" /\ failed.server = call.server
  BY <1>3 DEF CallState
<1> QED
  BY <1>2, <1>3, <1>4

LEMMA IdleCallIs ==
    IdleCall \in CallState /\ IdleCall.at = "idle"
BY DEF IdleCall, CallState

LEMMA PendingIsFinite ==
    ASSUME IsFiniteSet(Callers)
    PROVE  /\ IsFiniteSet(Pending) /\ Cardinality(Pending) \in Nat
           /\ \A S \in SUBSET Pending : Cardinality(S) \in Nat /\ Cardinality(S) <= Cardinality(Pending)
BY FS_Subset, FS_CardinalityType DEF Pending

\* A guarded request is counted in Redis.
LEMMA GuardedUseRedis ==
    ASSUME LimitsInv, Production, NEW p \in Servers, process[p] # "down"
    PROVE  Store(p) = "redis"
BY DEF LimitsInv, StartedAreValid, ValidateProductionConfig, Store, Production

\* While the count stays and no new request joins those about to be let
\* through, the numbers stay apart.
LEMMA NumbersStayApart ==
    ASSUME LimitsInv, IsFiniteSet(Callers), UNCHANGED <<limiter, config, admitted>>,
           counters'["redis"].count = counters["redis"].count, Pending' \subseteq Pending
    PROVE  NumbersAreApart'
<1>1. Guarded' <=> Guarded
  BY DEF Guarded, Production
<1>2. /\ Cardinality(Pending') \in Nat /\ Cardinality(Pending) \in Nat
      /\ Cardinality(Pending') <= Cardinality(Pending)
  BY PendingIsFinite
<1>3. admitted \in Nat /\ counters["redis"].count \in Nat /\ Limit \in Nat
  BY LimitsAssumption DEF LimitsInv, LimitsTypes, Stores, Counter
<1> QED
  BY <1>1, <1>2, <1>3 DEF LimitsInv, NumbersAreApart

-----------------------------------------------------------------------------
(* The rate limiter: every step                                              *)

LEMMA CallSet ==
    ASSUME LimitsInv, NEW c \in Callers, NEW value \in CallState,
           calls' = [calls EXCEPT ![c] = value]
    PROVE  /\ calls' \in [Callers -> CallState]
           /\ \A d \in Callers : calls'[d] = IF d = c THEN value ELSE calls[d]
BY DEF LimitsInv, LimitsTypes

LEMMA Receiving ==
    ASSUME LimitsInv, IsFiniteSet(Callers), NEW c \in Callers, NEW p \in Servers, Receive(c, p)
    PROVE  LimitsInv'
<1> DEFINE first == [IdleCall EXCEPT !.at = "sent"]
           call == [first EXCEPT !.server = p]
           failed == [call EXCEPT !.at = "failed"]
           next == IncrWindow(p, counters[p])
<1>1. /\ process[p] = "up" /\ calls[c] = IdleCall
      /\ UNCHANGED <<limiter, config, redis, process, link, admitted, outages>>
  BY DEF Receive
<1>2. first \in CallState /\ first.at = "sent"
  BY DEF IdleCall, CallState
<1>3. call \in CallState /\ call.at = "sent" /\ call.server = p
  <2> HIDE DEF first
  <2> QED
    BY <1>2 DEF CallState
<1>4. IF Store(p) = "redis"
      THEN /\ calls' = [calls EXCEPT ![c] = IF link[p] = "ready" THEN call ELSE failed]
           /\ UNCHANGED counters
      ELSE /\ counters' = [counters EXCEPT ![p] = next]
           /\ calls' = [calls EXCEPT ![c] = Answered(call, next.count)]
  BY Zenon DEF Receive
<1> HIDE DEF call
<1>5. failed \in CallState /\ failed.at = "failed" /\ failed.server = p
  BY <1>3 DEF CallState
<1> HIDE DEF failed
<1>6. next \in Counter /\ next.count \in Nat
  BY IncrWindowIs DEF LimitsInv, LimitsTypes, Stores, Counter
<1> HIDE DEF next
<1>7. Answered(call, next.count) \in CallState /\ Answered(call, next.count).server = p
      /\ Answered(call, next.count).at = "counted"
  BY <1>3, <1>6, AnsweredIs
<1>8. PICK value \in CallState :
         /\ calls' = [calls EXCEPT ![c] = value]
         /\ value.server = p
         /\ value.at = "failed" => Store(p) = "redis" /\ link[p] # "ready"
         /\ Store(p) = "redis" => value.at # "counted" /\ UNCHANGED counters
  <2>1. CASE Store(p) = "redis" /\ link[p] = "ready"
    BY <1>3, <1>4, <2>1
  <2>2. CASE Store(p) = "redis" /\ link[p] # "ready"
    BY <1>4, <1>5, <2>2
  <2>3. CASE Store(p) # "redis"
    BY <1>4, <1>7, <2>3
  <2> QED
    BY <2>1, <2>2, <2>3
<1>9. /\ calls' \in [Callers -> CallState]
      /\ \A d \in Callers : calls'[d] = IF d = c THEN value ELSE calls[d]
  BY <1>8, CallSet
<1>10. counters' \in [Stores -> Counter]
  BY <1>4, <1>6 DEF LimitsInv, LimitsTypes, Stores
<1>11. LimitsTypes' /\ StartedAreValid' /\ ServersAreConnected'
  BY <1>1, <1>9, <1>10 DEF LimitsInv, LimitsTypes, StartedAreValid, ServersAreConnected,
                           ValidateProductionConfig, Production, Store
<1>12. RequestsAreServed'
  BY <1>1, <1>8, <1>9 DEF LimitsInv, RequestsAreServed
<1>13. LossesAreOutages'
  <2>1. Store(p) = "redis" /\ link[p] # "ready" => outages > 0
    BY <1>1 DEF LimitsInv, ServersAreConnected, LossesAreOutages
  <2> QED
    BY <1>1, <1>8, <1>9, <2>1 DEF LimitsInv, LossesAreOutages, FailuresNeedAnOutage
<1>14. NumbersAreApart'
  <2>1. CASE Store(p) = "redis"
    <3>1. Pending' \subseteq Pending
      BY <1>8, <1>9, <2>1 DEF Pending
    <3> QED
      BY <1>1, <1>8, <2>1, <3>1, NumbersStayApart
  <2>2. CASE Store(p) # "redis"
    BY <1>1, <2>2, GuardedUseRedis DEF NumbersAreApart, Guarded, Production
  <2> QED
    BY <2>1, <2>2
<1> QED
  BY <1>11, <1>12, <1>13, <1>14 DEF LimitsInv

LEMMA Executing ==
    ASSUME LimitsInv, IsFiniteSet(Callers), NEW c \in Callers, Execute(c)
    PROVE  LimitsInv'
<1> DEFINE next == IncrWindow("redis", counters["redis"])
           value == Answered(calls[c], next.count)
<1>1. /\ calls[c].at = "sent" /\ calls[c] \in CallState
      /\ counters' = [counters EXCEPT !["redis"] = next]
      /\ calls' = [calls EXCEPT ![c] = value]
      /\ UNCHANGED <<limiter, config, redis, process, link, admitted, outages>>
  BY DEF Execute, LimitsInv, LimitsTypes
<1>2. /\ next \in Counter /\ next.count = Counted(counters["redis"].count)
      /\ next.count \in Nat /\ counters["redis"].count \in Nat
  BY IncrWindowIs DEF LimitsInv, LimitsTypes, Stores, Counter
<1> HIDE DEF next
<1>3. /\ value \in CallState /\ value.at = "counted" /\ value.server = calls[c].server
      /\ value.count = next.count
  BY <1>1, <1>2, AnsweredIs
<1> HIDE DEF value
<1>4. /\ calls' \in [Callers -> CallState]
      /\ \A d \in Callers : calls'[d] = IF d = c THEN value ELSE calls[d]
  BY <1>1, <1>3, CallSet
<1>5. counters' \in [Stores -> Counter] /\ counters'["redis"] = next
  BY <1>1, <1>2 DEF LimitsInv, LimitsTypes, Stores
<1>6. LimitsTypes' /\ StartedAreValid' /\ ServersAreConnected'
  BY <1>1, <1>4, <1>5 DEF LimitsInv, LimitsTypes, StartedAreValid, ServersAreConnected,
                          ValidateProductionConfig, Production, Store
<1>7. RequestsAreServed' /\ LossesAreOutages'
  BY <1>1, <1>3, <1>4 DEF LimitsInv, RequestsAreServed, LossesAreOutages, FailuresNeedAnOutage
<1>8. NumbersAreApart'
  <2>1. Cardinality(Pending) \in Nat /\ IsFiniteSet(Pending) /\ c \notin Pending
    BY <1>1, PendingIsFinite DEF Pending
  <2>2. admitted \in Nat /\ Limit \in Nat
    BY LimitsAssumption DEF LimitsInv, LimitsTypes
  <2>3. (Guarded' <=> Guarded) /\ admitted' = admitted
    BY <1>1 DEF Guarded, Production
  <2>4. CASE next.count <= Limit
    <3>1. Pending' \subseteq Pending \cup {c}
      BY <1>4 DEF Pending
    <3>2. /\ IsFiniteSet(Pending \cup {c})
          /\ Cardinality(Pending \cup {c}) = Cardinality(Pending) + 1
      BY <2>1, FS_AddElement
    <3>3. Cardinality(Pending') \in Nat /\ Cardinality(Pending') <= Cardinality(Pending) + 1
      BY <3>1, <3>2, FS_Subset, FS_CardinalityType
    <3>4. next.count = counters["redis"].count + 1
      BY <1>2, <2>4, CountedIs
    <3> QED
      BY <1>2, <1>5, <2>1, <2>2, <2>3, <2>4, <3>3, <3>4 DEF LimitsInv, NumbersAreApart
  <2>5. CASE ~(next.count <= Limit)
    <3>1. Pending' \subseteq Pending
      BY <1>3, <1>4, <2>5 DEF Pending
    <3>2. Cardinality(Pending') \in Nat /\ Cardinality(Pending') <= Cardinality(Pending)
      BY <3>1, PendingIsFinite
    <3>3. next.count >= counters["redis"].count
      BY <1>2, CountedIs
    <3> QED
      BY <1>2, <1>5, <2>1, <2>2, <2>3, <3>2, <3>3 DEF LimitsInv, NumbersAreApart
  <2> QED
    BY <2>4, <2>5
<1> QED
  BY <1>6, <1>7, <1>8 DEF LimitsInv

LEMMA Deciding ==
    ASSUME LimitsInv, IsFiniteSet(Callers), NEW c \in Callers, Decide(c)
    PROVE  LimitsInv'
<1> DEFINE counts == LetThrough(calls[c]) /\ (calls[c].inWindow \/ calls[c].at = "failed")
<1>1. /\ calls[c].at \in {"counted", "failed"} /\ calls[c] \in CallState
      /\ admitted' = IF counts THEN Counted(admitted) ELSE admitted
      /\ calls' = [calls EXCEPT ![c] = IdleCall]
      /\ UNCHANGED <<limiter, config, counters, redis, process, link, outages>>
  BY DEF Decide, LimitsInv, LimitsTypes
<1>2. /\ calls' \in [Callers -> CallState]
      /\ \A d \in Callers : calls'[d] = IF d = c THEN IdleCall ELSE calls[d]
  BY <1>1, IdleCallIs, CallSet
<1>3. admitted \in Nat /\ admitted' \in Nat /\ Counted(admitted) \in Nat
  BY <1>1, CountedIs DEF LimitsInv, LimitsTypes
<1>4. LimitsTypes' /\ StartedAreValid' /\ ServersAreConnected'
  BY <1>1, <1>2, <1>3 DEF LimitsInv, LimitsTypes, StartedAreValid, ServersAreConnected,
                          ValidateProductionConfig, Production, Store
<1>5. RequestsAreServed' /\ LossesAreOutages'
  BY <1>1, <1>2, IdleCallIs DEF LimitsInv, RequestsAreServed, LossesAreOutages,
                                FailuresNeedAnOutage
<1>6. Pending' = Pending \ {c}
  BY <1>2, IdleCallIs DEF Pending
<1>7. NumbersAreApart'
  <2>1. /\ IsFiniteSet(Pending) /\ Cardinality(Pending) \in Nat
        /\ Cardinality(Pending') = IF c \in Pending THEN Cardinality(Pending) - 1
                                   ELSE Cardinality(Pending)
    BY <1>6, PendingIsFinite, FS_RemoveElement
  <2>2. (Guarded' <=> Guarded) /\ Limit \in Nat /\ counters["redis"].count \in Nat
    BY <1>1, LimitsAssumption DEF Guarded, Production, LimitsInv, LimitsTypes, Stores, Counter
  <2>3. Guarded /\ counts => c \in Pending
    BY <1>1 DEF Guarded, LetThrough, FailMode, Limiters, Pending, FailClosed
  <2>4. CASE Guarded /\ c \in Pending
    <3>1. admitted < Limit /\ admitted' <= admitted + 1
      <4>1. Cardinality(Pending) # 0
        BY <2>1, <2>4, FS_EmptySet
      <4>2. admitted < Limit
        BY <1>3, <2>1, <2>2, <2>4, <4>1 DEF LimitsInv, NumbersAreApart
      <4> QED
        BY <1>1, <1>3, <4>2, CountedIs
    <3> QED
      BY <1>1, <1>3, <2>1, <2>2, <2>4, <3>1 DEF LimitsInv, NumbersAreApart
  <2>5. CASE Guarded /\ c \notin Pending
    BY <1>1, <1>3, <2>1, <2>2, <2>3, <2>5 DEF LimitsInv, NumbersAreApart
  <2> QED
    BY <2>2, <2>4, <2>5 DEF NumbersAreApart
<1> QED
  BY <1>4, <1>5, <1>7 DEF LimitsInv

LEMMA Failing ==
    ASSUME LimitsInv, IsFiniteSet(Callers), NEW c \in Callers, CommandFails(c)
    PROVE  LimitsInv'
<1> DEFINE value == [WithoutAnswer(calls[c]) EXCEPT !.at = "failed"]
<1>1. /\ OnItsWay(calls[c]) /\ calls[c] \in CallState
      /\ \/ link[calls[c].server] = "lost" /\ outages' = outages
         \/ outages' = outages + 1
      /\ calls' = [calls EXCEPT ![c] = value]
      /\ UNCHANGED <<limiter, config, counters, redis, process, link, admitted>>
  BY DEF CommandFails, LimitsInv, LimitsTypes
<1>2. value \in CallState /\ value.at = "failed" /\ value.server = calls[c].server
  BY <1>1, WithoutAnswerIs
<1> HIDE DEF value
<1>3. /\ calls' \in [Callers -> CallState]
      /\ \A d \in Callers : calls'[d] = IF d = c THEN value ELSE calls[d]
  BY <1>1, <1>2, CallSet
<1>4. calls[c].server \in Servers /\ outages \in Nat /\ outages' \in Nat
  BY <1>1 DEF OnItsWay, LimitsInv, LimitsTypes, RequestsAreServed
<1>5. LimitsTypes' /\ StartedAreValid' /\ ServersAreConnected'
  BY <1>1, <1>3, <1>4 DEF LimitsInv, LimitsTypes, StartedAreValid, ServersAreConnected,
                          ValidateProductionConfig, Production, Store
<1>6. RequestsAreServed'
  BY <1>1, <1>2, <1>3 DEF LimitsInv, RequestsAreServed, OnItsWay
<1>7. outages' > 0 /\ LossesAreOutages'
  <2>1. outages' > 0
    BY <1>1, <1>4 DEF LimitsInv, LossesAreOutages
  <2> QED
    BY <2>1 DEF LossesAreOutages, FailuresNeedAnOutage
<1>8. Pending' \subseteq Pending
  BY <1>2, <1>3 DEF Pending
<1> QED
  BY <1>1, <1>5, <1>6, <1>7, <1>8, NumbersStayApart DEF LimitsInv

\* Connections that break take the answers on their way with them.
LEMMA Breaking ==
    ASSUME LimitsInv, NEW lost \in SUBSET Servers, Disconnected(lost),
           UNCHANGED <<limiter, config, process>>, admitted' \in Nat,
           counters' \in [Stores -> Counter]
    PROVE  /\ LimitsTypes' /\ StartedAreValid' /\ RequestsAreServed'
           /\ ServersAreConnected' /\ LossesAreOutages'
           /\ \A c \in Pending' : c \in Pending /\ calls[c].server \notin lost
<1>1. /\ link' = [p \in Servers |-> IF p \in lost /\ link[p] = "ready" THEN "lost" ELSE link[p]]
      /\ calls' = [c \in Callers |->
                      IF OnItsWay(calls[c]) /\ calls[c].server \in lost
                      THEN WithoutAnswer(calls[c]) ELSE calls[c]]
      /\ outages' = outages + 1 /\ outages \in Nat
  BY DEF Disconnected, LimitsInv, LimitsTypes
<1>2. \A c \in Callers :
         /\ calls[c] \in CallState /\ calls'[c] \in CallState
         /\ calls'[c].server = calls[c].server
         /\ calls'[c].at # "idle" => calls[c].at # "idle"
         /\ \/ calls'[c] = calls[c] /\ ~(OnItsWay(calls[c]) /\ calls[c].server \in lost)
            \/ calls'[c].at = "sent"
  <2> SUFFICES ASSUME NEW c \in Callers
               PROVE  /\ calls[c] \in CallState /\ calls'[c] \in CallState
                      /\ calls'[c].server = calls[c].server
                      /\ calls'[c].at # "idle" => calls[c].at # "idle"
                      /\ \/ /\ calls'[c] = calls[c]
                            /\ ~(OnItsWay(calls[c]) /\ calls[c].server \in lost)
                         \/ calls'[c].at = "sent"
    OBVIOUS
  <2>1. calls[c] \in CallState
    BY DEF LimitsInv, LimitsTypes
  <2>2. CASE OnItsWay(calls[c]) /\ calls[c].server \in lost
    BY <1>1, <2>1, <2>2, WithoutAnswerIs DEF OnItsWay
  <2>3. CASE ~(OnItsWay(calls[c]) /\ calls[c].server \in lost)
    BY <1>1, <2>1, <2>3
  <2> QED
    BY <2>2, <2>3
<1>3. calls' \in [Callers -> CallState] /\ link' \in [Servers -> {"none", "ready", "lost"}]
  BY <1>1, <1>2 DEF LimitsInv, LimitsTypes
<1>4. LimitsTypes'
  BY <1>1, <1>3 DEF LimitsInv, LimitsTypes
<1>5. StartedAreValid' /\ RequestsAreServed'
  BY <1>2 DEF LimitsInv, StartedAreValid, RequestsAreServed, ValidateProductionConfig, Production
<1>6. ServersAreConnected'
  BY <1>1 DEF LimitsInv, ServersAreConnected, Store
<1>7. LossesAreOutages'
  BY <1>1 DEF LossesAreOutages, FailuresNeedAnOutage
<1>8. \A c \in Pending' : c \in Pending /\ calls[c].server \notin lost
  BY <1>2 DEF Pending, OnItsWay
<1> QED
  BY <1>4, <1>5, <1>6, <1>7, <1>8

\* Every guarded request that is counted is in a process whose counter is Redis.
LEMMA PendingAreInRedis ==
    ASSUME LimitsInv, Guarded, NEW c \in Pending
    PROVE  /\ calls[c].server \in Servers
           /\ Store(calls[c].server) = "redis"
<1>1. calls[c].server \in Servers /\ process[calls[c].server] # "down"
  BY DEF Pending, LimitsInv, RequestsAreServed
<1> QED
  BY <1>1, GuardedUseRedis DEF Guarded

LEMMA OutageSteps ==
    ASSUME LimitsInv, IsFiniteSet(Callers),
           \/ \E p \in Servers : ConnectionLost(p) \/ Reconnect(p)
           \/ RedisCrash \/ RedisUp
    PROVE  LimitsInv'
<1>1. ASSUME NEW p \in Servers, ConnectionLost(p)
      PROVE  LimitsInv'
  <2>1. Disconnected({p}) /\ UNCHANGED <<limiter, config, counters, redis, process, admitted>>
    BY <1>1 DEF ConnectionLost
  <2> QED
    BY <2>1, Breaking, NumbersStayApart DEF LimitsInv, LimitsTypes
<1>2. ASSUME NEW p \in Servers, Reconnect(p)
      PROVE  LimitsInv'
  <2>1. /\ link' = [link EXCEPT ![p] = "ready"]
        /\ UNCHANGED <<limiter, config, counters, redis, process, calls, admitted, outages>>
    BY <1>2 DEF Reconnect
  <2>2. LimitsTypes' /\ StartedAreValid' /\ RequestsAreServed' /\ ServersAreConnected'
    BY <2>1 DEF LimitsInv, LimitsTypes, StartedAreValid, RequestsAreServed,
                ServersAreConnected, ValidateProductionConfig, Production, Store
  <2>3. LossesAreOutages'
    BY <2>1 DEF LimitsInv, LimitsTypes, LossesAreOutages, FailuresNeedAnOutage
  <2>4. Pending' \subseteq Pending
    BY <2>1 DEF Pending
  <2> QED
    BY <2>1, <2>2, <2>3, <2>4, NumbersStayApart DEF LimitsInv
<1>3. CASE RedisCrash
  <2> DEFINE lost == {p \in Servers : Store(p) = "redis"}
  <2>1. /\ Disconnected(lost) /\ UNCHANGED <<limiter, config, process>>
        /\ \/ UNCHANGED <<counters, admitted>>
           \/ counters' = [counters EXCEPT !["redis"] = Absent] /\ admitted' = 0
    BY <1>3 DEF RedisCrash
  <2>2. admitted' \in Nat /\ counters' \in [Stores -> Counter]
    <3>1. Absent \in Counter
      BY DEF Absent, Counter, NoExpiry
    <3> QED
      BY <2>1, <3>1 DEF LimitsInv, LimitsTypes
  <2>3. /\ LimitsTypes' /\ StartedAreValid' /\ RequestsAreServed'
        /\ ServersAreConnected' /\ LossesAreOutages'
        /\ \A c \in Pending' : c \in Pending /\ calls[c].server \notin lost
    BY <2>1, <2>2, Breaking
  <2>4. NumbersAreApart'
    <3>1. CASE UNCHANGED <<counters, admitted>>
      BY <2>1, <2>3, <3>1, NumbersStayApart
    <3>2. CASE counters' = [counters EXCEPT !["redis"] = Absent] /\ admitted' = 0
      <4>1. Guarded' => Guarded /\ Pending' = {}
        BY <2>1, <2>3, PendingAreInRedis DEF Guarded, Production
      <4>2. counters'["redis"].count = 0 /\ Limit \in Nat
        BY <3>2, LimitsAssumption DEF LimitsInv, LimitsTypes, Stores, Absent
      <4> QED
        BY <3>2, <4>1, <4>2, FS_EmptySet DEF NumbersAreApart
    <3> QED
      BY <2>1, <3>1, <3>2
  <2> QED
    BY <2>3, <2>4 DEF LimitsInv
<1>4. CASE RedisUp
  <2>1. UNCHANGED <<limiter, config, counters, process, link, calls, admitted, outages>>
    BY <1>4 DEF RedisUp
  <2>2. Pending' = Pending
    BY <2>1 DEF Pending
  <2> QED
    BY <2>1, <2>2, NumbersStayApart
       DEF LimitsInv, LimitsTypes, StartedAreValid, RequestsAreServed, ServersAreConnected,
           LossesAreOutages, FailuresNeedAnOutage, ValidateProductionConfig, Production, Store
<1> QED
  BY <1>1, <1>2, <1>3, <1>4

LEMMA Ticking ==
    ASSUME LimitsInv, IsFiniteSet(Callers), WindowTick
    PROVE  LimitsInv'
<1> DEFINE late(call) == OnItsWay(call) /\ WindowEnds(Store(call.server))
<1>1. /\ counters' = [s \in DOMAIN counters |-> Elapsed(s, counters[s])]
      /\ admitted' = IF WindowEnds("redis") THEN 0 ELSE admitted
      /\ calls' = [c \in Callers |-> IF late(calls[c])
                                     THEN [calls[c] EXCEPT !.inWindow = FALSE] ELSE calls[c]]
      /\ UNCHANGED <<limiter, config, redis, process, link, outages>>
  BY DEF WindowTick
<1>2. /\ counters \in [Stores -> Counter] /\ admitted \in Nat
      /\ \A c \in Callers : calls[c] \in CallState
  BY DEF LimitsInv, LimitsTypes
<1>3. \A c \in Callers :
         /\ calls'[c] \in CallState
         /\ calls'[c].at = calls[c].at /\ calls'[c].server = calls[c].server
         /\ calls'[c].count = calls[c].count
         /\ calls'[c].inWindow => calls[c].inWindow /\ ~late(calls[c])
  <2> HIDE DEF late
  <2> QED
    BY <1>1, <1>2 DEF CallState
<1>4. calls' \in [Callers -> CallState]
  BY <1>1, <1>3
<1>5. counters' \in [Stores -> Counter] /\ admitted' \in Nat
  BY <1>1, <1>2, ElapsedIs
<1>6. LimitsTypes' /\ StartedAreValid' /\ ServersAreConnected'
  BY <1>1, <1>4, <1>5 DEF LimitsInv, LimitsTypes, StartedAreValid, ServersAreConnected,
                          ValidateProductionConfig, Production, Store
<1>7. RequestsAreServed' /\ LossesAreOutages'
  BY <1>1, <1>3 DEF LimitsInv, RequestsAreServed, LossesAreOutages, FailuresNeedAnOutage
<1>8. Pending' \subseteq Pending
  BY <1>3 DEF Pending
<1>9. NumbersAreApart'
  <2>1. CASE WindowEnds("redis")
    <3>1. Guarded' => Guarded /\ Pending' = {}
      <4>1. Guarded' => Guarded
        BY <1>1 DEF Guarded, Production
      <4>2. ASSUME Guarded, NEW c \in Pending'
            PROVE  FALSE
        <5>1. Store(calls[c].server) = "redis" /\ calls[c].at = "counted"
          BY <1>8, <4>2, PendingAreInRedis DEF Pending
        <5> QED
          BY <1>3, <2>1, <5>1 DEF OnItsWay, Pending
      <4> QED
        BY <4>1, <4>2
    <3>2. counters'["redis"].count \in Nat /\ Limit \in Nat
      BY <1>5, LimitsAssumption DEF Stores, Counter
    <3>3. admitted' = 0
      BY <1>1, <2>1
    <3>4. Guarded' => Cardinality(Pending') = 0
      BY <3>1, FS_EmptySet
    <3> QED
      BY <3>2, <3>3, <3>4 DEF NumbersAreApart
  <2>2. CASE ~WindowEnds("redis")
    <3>1. counters'["redis"].count = counters["redis"].count
      BY <1>1, <1>2, <2>2, ElapsedIs DEF WindowEnds, Stores
    <3> QED
      BY <1>1, <1>8, <2>2, <3>1, NumbersStayApart
  <2> QED
    BY <2>1, <2>2
<1> QED
  BY <1>6, <1>7, <1>9 DEF LimitsInv

LEMMA ServerSteps ==
    ASSUME LimitsInv, IsFiniteSet(Callers), NEW p \in Servers,
           \/ StartServer(p) \/ ConnectRedis(p) \/ ConnectFails(p)
           \/ Shutdown(p) \/ CloseRedis(p) \/ Kill(p)
    PROVE  LimitsInv'
<1>1. CASE StartServer(p) \/ ConnectFails(p) \/ Shutdown(p)
  <2>1. UNCHANGED <<limiter, config, counters, redis, admitted, link, calls, outages>>
    BY <1>1 DEF StartServer, ConnectFails, Shutdown, counterVars
  <2>2. PICK status \in {"down", "starting", "stopping"} :
           /\ process' = [process EXCEPT ![p] = status]
           /\ status = "stopping" <=> process[p] = "up"
           /\ status = "starting" => ValidateProductionConfig
           /\ process[p] \in {"down", "starting", "up"}
    BY <1>1 DEF StartServer, ConnectFails, Shutdown
  <2>3. LimitsTypes' /\ StartedAreValid'
    BY <2>1, <2>2 DEF LimitsInv, LimitsTypes, StartedAreValid, ValidateProductionConfig,
                      Production
  <2>4. RequestsAreServed' /\ ServersAreConnected'
    BY <2>1, <2>2 DEF LimitsInv, LimitsTypes, RequestsAreServed, ServersAreConnected, Store
  <2>5. LossesAreOutages' /\ Pending' = Pending
    BY <2>1 DEF LimitsInv, LossesAreOutages, FailuresNeedAnOutage, Pending
  <2> QED
    BY <2>1, <2>3, <2>4, <2>5, NumbersStayApart DEF LimitsInv
<1>2. CASE ConnectRedis(p)
  <2>1. /\ UNCHANGED <<limiter, config, counters, redis, admitted, calls, outages>>
        /\ process[p] = "starting" /\ process' = [process EXCEPT ![p] = "up"]
        /\ \/ link' = [link EXCEPT ![p] = "ready"]
           \/ Store(p) # "redis" /\ UNCHANGED link
    BY <1>2 DEF ConnectRedis, counterVars
  <2>2. LimitsTypes' /\ StartedAreValid'
    BY <2>1 DEF LimitsInv, LimitsTypes, StartedAreValid, ValidateProductionConfig, Production
  <2>3. RequestsAreServed' /\ ServersAreConnected'
    BY <2>1 DEF LimitsInv, LimitsTypes, RequestsAreServed, ServersAreConnected, Store
  <2>4. LossesAreOutages' /\ Pending' = Pending
    BY <2>1 DEF LimitsInv, LimitsTypes, LossesAreOutages, FailuresNeedAnOutage, Pending
  <2> QED
    BY <2>1, <2>2, <2>3, <2>4, NumbersStayApart DEF LimitsInv
<1>3. CASE CloseRedis(p) \/ Kill(p)
  <2>1. /\ process' = [process EXCEPT ![p] = "down"] /\ link' = [link EXCEPT ![p] = "none"]
        /\ counters' = [counters EXCEPT ![p] = Absent]
        /\ calls' = [c \in Callers |-> IF calls[c].server = p THEN IdleCall ELSE calls[c]]
        /\ UNCHANGED <<limiter, config, redis, admitted, outages>>
    BY <1>3 DEF CloseRedis, Kill, Gone
  <2>2. \A c \in Callers : calls'[c] = IdleCall \/ (calls'[c] = calls[c] /\ calls[c].server # p)
    BY <2>1
  <2>3. Absent \in Counter /\ calls' \in [Callers -> CallState]
    BY <2>1, IdleCallIs DEF Absent, Counter, NoExpiry, LimitsInv, LimitsTypes
  <2>4. LimitsTypes' /\ StartedAreValid'
    BY <2>1, <2>3 DEF LimitsInv, LimitsTypes, StartedAreValid, ValidateProductionConfig,
                      Production, Stores
  <2>5. RequestsAreServed' /\ ServersAreConnected'
    BY <2>1, <2>2, IdleCallIs
       DEF LimitsInv, LimitsTypes, RequestsAreServed, ServersAreConnected, Store
  <2>6. LossesAreOutages'
    BY <2>1, <2>2, IdleCallIs DEF LimitsInv, LimitsTypes, LossesAreOutages, FailuresNeedAnOutage
  <2>7. Pending' \subseteq Pending
    BY <2>2, IdleCallIs DEF Pending
  <2>8. counters'["redis"].count = counters["redis"].count
    BY <2>1, LimitsAssumption DEF LimitsInv, LimitsTypes, Stores
  <2> QED
    BY <2>1, <2>4, <2>5, <2>6, <2>7, <2>8, NumbersStayApart DEF LimitsInv
<1> QED
  BY <1>1, <1>2, <1>3

LEMMA LimitsInvStep ==
    ASSUME LimitsInv, IsFiniteSet(Callers), [LimitsNext]_limitVars
    PROVE  LimitsInv'
<1>1. CASE LimitsNext
  BY <1>1, Receiving, Executing, Deciding, Failing, OutageSteps, Ticking, ServerSteps
     DEF LimitsNext
<1>2. CASE UNCHANGED limitVars
  <2>1. UNCHANGED <<limiter, config, counters, process, link, calls, admitted, outages>>
    BY <1>2 DEF limitVars
  <2>2. Pending' = Pending
    BY <2>1 DEF Pending
  <2> QED
    BY <2>1, <2>2, NumbersStayApart
       DEF LimitsInv, LimitsTypes, StartedAreValid, RequestsAreServed, ServersAreConnected,
           LossesAreOutages, FailuresNeedAnOutage, ValidateProductionConfig, Production, Store
<1> QED
  BY <1>1, <1>2

LEMMA LimitsInvInit == LimitsInit => LimitsInv
<1> SUFFICES ASSUME LimitsInit PROVE LimitsInv
  OBVIOUS
<1>1. /\ process = [p \in Servers |-> "down"] /\ link = [p \in Servers |-> "none"]
      /\ calls = [c \in Callers |-> IdleCall] /\ admitted = 0 /\ outages = 0
  BY DEF LimitsInit
<1>2. counters \in [Stores -> Counter]
  BY LimitsAssumption DEF LimitsInit, Stores, Counter, Absent, NoExpiry
<1>3. \A c \in Callers : calls[c] \in CallState /\ calls[c].at = "idle"
  BY <1>1, IdleCallIs
<1>4. LimitsTypes
  BY <1>1, <1>2, IdleCallIs DEF LimitsTypes
<1>5. StartedAreValid /\ RequestsAreServed /\ ServersAreConnected /\ LossesAreOutages
  BY <1>1, <1>3 DEF StartedAreValid, RequestsAreServed, ServersAreConnected,
                    LossesAreOutages, FailuresNeedAnOutage
<1>6. Pending = {}
  BY <1>3 DEF Pending
<1>7. NumbersAreApart
  <2>1. counters["redis"].count \in Nat /\ Limit \in Nat
    BY <1>2, LimitsAssumption DEF Stores, Counter
  <2> QED
    BY <1>1, <1>6, <2>1, FS_EmptySet DEF NumbersAreApart
<1> QED
  BY <1>4, <1>5, <1>7 DEF LimitsInv

-----------------------------------------------------------------------------
(* The rate limiter: what follows                                            *)

\* The limiters of login, registration and passwords let no more than Limit
\* attempts through in a window, and no limiter fails without an outage
\* (rate-limit.middleware.ts, redis.ts, server.ts).
THEOREM LimitsHold ==
    ASSUME IsFiniteSet(Callers)
    PROVE  LimitsSpec => []LimitsAreKept
<1>1. LimitsInv => LimitsAreKept
  <2> SUFFICES ASSUME LimitsInv PROVE GuessesWithinLimit
    BY DEF LimitsAreKept, LimitsInv, LossesAreOutages
  <2>1. Cardinality(Pending) \in Nat /\ admitted \in Nat /\ Limit \in Nat
    BY PendingIsFinite, LimitsAssumption DEF LimitsInv, LimitsTypes
  <2> QED
    BY <2>1 DEF LimitsInv, NumbersAreApart, GuessesWithinLimit, Guarded
<1>2. LimitsInit => LimitsInv
  BY LimitsInvInit
<1>3. LimitsInv /\ [LimitsNext]_limitVars => LimitsInv'
  BY LimitsInvStep
<1> QED
  BY <1>1, <1>2, <1>3, PTL DEF LimitsSpec

\* The memory backend answers as the Lua script does, once an expired entry is
\* taken for a missing one (redis.ts): only WHERE a counter is kept differs.
THEOREM BackendsAgree ==
    ASSUME NEW entry \in Counter, entry.ttl >= NoExpiry
    PROVE  IncrWindowMemory(entry) = IncrWindowLua(Live(entry))
<1>1. Limit \in Nat \ {0} /\ entry.ttl \in Int /\ entry.count \in Nat
  BY LimitsAssumption DEF Counter
<1>2. CASE entry.ttl = 0
  BY <1>1, <1>2 DEF IncrWindowMemory, IncrWindowLua, Live, Absent, NoExpiry, Counted
<1>3. CASE entry.ttl # 0 /\ entry = Absent
  BY <1>1, <1>3 DEF IncrWindowMemory, IncrWindowLua, Live, Absent, NoExpiry, Counted
<1>4. CASE entry.ttl # 0 /\ entry # Absent
  <2>1. Live(entry) = entry
    BY <1>4 DEF Live
  <2>2. entry.ttl = NoExpiry <=> entry.ttl < 0
    BY <1>1, <1>4 DEF NoExpiry
  <2> QED
    BY <1>4, <2>1, <2>2 DEF IncrWindowMemory, IncrWindowLua
<1> QED
  BY <1>2, <1>3, <1>4
=============================================================================
