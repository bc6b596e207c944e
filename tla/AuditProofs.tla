---------------------------- MODULE AuditProofs ----------------------------
(* The audit chains under any number of transactions, days, verifications    *)
(* and damaged rows.                                                         *)
EXTENDS AuditTrail, FiniteSetTheorems, SequenceTheorems, WellFoundedInduction, TLAPS

\* A stored row. Its hash was taken when it was written, of an operation: the
\* hash of a row that was altered since is another one.
Row(e) ==
    /\ e \in [seq : Nat, prev : {e.prev}, what : {e.what}, at : Nat, hash : {e.hash}]
    /\ e.hash[3] # "altered"

RowSeq(s) == s \in Seq(Range(s)) /\ \A i \in 1..Len(s) : Row(s[i])

TxnRow(x) ==
    /\ x \in [op : Operations \cup {"none"}, at : Nat, day : DaySet \cup {NoDay},
              held : {x.held}, entries : {x.entries}]
    /\ x.entries = [d \in DaySet |-> x.entries[d]]
    /\ \A d \in DaySet : RowSeq(x.entries[d])

TrailTypeOK ==
    /\ txn = [t \in Txns |-> txn[t]] /\ \A t \in Txns : TxnRow(txn[t])
    /\ logs = [d \in DaySet |-> logs[d]] /\ \A d \in DaySet : RowSeq(logs[d])
    /\ heads = [d \in DaySet |-> heads[d]]
    /\ \A d \in DaySet : heads[d] \in [seq : Nat, hash : {heads[d].hash}]
    /\ today \in 1..Len(Days)
    /\ damage \in Nat
    /\ \A c \in checkpoints : c.day \in DaySet /\ c.seq \in Nat
    /\ verify \in [at : {"idle", "chains", "heads", "done"}, todo : SUBSET DaySet,
                   after : {verify.after}, prev : {verify.prev}, heads : {verify.heads},
                   ok : BOOLEAN, mismatch : BOOLEAN]

\* No transaction holds a lock that conflicts with another's.
LocksSeparate ==
    \A t, u \in Txns : t # u => \A lock \in txn[t].held : ~Conflicts(u, lock)

\* Entries not committed yet continue the chain from its head, whose lock their
\* transaction holds; and they come after every committed row.
Pending(t, d) ==
    /\ HoldsLock(t, Exclusive(d))
    /\ PageHolds(txn[t].entries[d], heads[d].seq, heads[d].hash)
    /\ \A i, j \in 1..Len(txn[t].entries[d]) :
          i < j => txn[t].entries[d][i].at <= txn[t].entries[d][j].at
    /\ \A i \in 1..Len(txn[t].entries[d]) :
          /\ txn[t].entries[d][i].at <= today
          /\ damage = 0 => \A k \in 1..Len(logs[d]) : logs[d][k].at <= txn[t].entries[d][i].at

EntriesContinue ==
    \A t \in Txns : \A d \in DaySet : txn[t].entries[d] # <<>> => Pending(t, d)

WrittenByNow ==
    damage = 0 => \A d \in DaySet : \A k \in 1..Len(logs[d]) : logs[d][k].at <= today

\* Damage leaves a chain shorter than its head says, or a row that was altered.
DamageLeavesATrace ==
    /\ \A d \in DaySet : Len(logs[d]) <= heads[d].seq
    /\ damage > 0 =>
          \E d \in DaySet :
              \/ Len(logs[d]) < heads[d].seq
              \/ \E i \in 1..Len(logs[d]) : logs[d][i].what = "altered"

\* The verification has read the first rows of a chain, and knows the last hash.
ReadSoFar(d) ==
    /\ verify.after \in 0..Len(logs[d])
    /\ verify.prev = IF verify.after = 0 THEN Genesis(d) ELSE logs[d][verify.after].hash

VerifyInv ==
    damage = 0 =>
        /\ verify.ok
        /\ verify.at = "chains" /\ verify.todo # {} => ReadSoFar(First(verify.todo))

AuditInv ==
    /\ TrailTypeOK /\ LocksSeparate /\ EntriesContinue /\ WrittenByNow
    /\ ChainsAreLinked /\ DamageLeavesATrace /\ VerifyInv

-----------------------------------------------------------------------------
(* Sequences of stored rows.                                                 *)

LEMMA RowSeqs ==
    ASSUME NEW s, RowSeq(s)
    PROVE  /\ Len(s) \in Nat /\ DOMAIN s = 1..Len(s)
           /\ s # <<>> <=> Len(s) > 0
           /\ s \in Seq(Range(s))
           /\ \A i \in 1..Len(s) : Row(s[i])
           /\ s # <<>> => Last(s) = s[Len(s)] /\ Row(Last(s))
<1>1. s \in Seq(Range(s)) /\ \A i \in 1..Len(s) : Row(s[i])
  BY DEF RowSeq
<1>2. Len(s) \in Nat /\ DOMAIN s = 1..Len(s)
  BY <1>1, LenProperties
<1>3. s # <<>> <=> Len(s) > 0
  BY <1>1, <1>2, EmptySeq
<1>4. s # <<>> => Last(s) = s[Len(s)] /\ Row(Last(s))
  BY <1>1, <1>2, <1>3 DEF Last
<1> QED
  BY <1>1, <1>2, <1>3, <1>4

\* A sequence over any set whose members are rows.
LEMMA RowSeqOf ==
    ASSUME NEW S, NEW s \in Seq(S), \A i \in 1..Len(s) : Row(s[i])
    PROVE  RowSeq(s)
BY SeqOfRange DEF RowSeq

LEMMA NoRows == RowSeq(<<>>) /\ Len(<<>>) = 0
<1>1. <<>> \in Seq({}) /\ Len(<<>>) = 0
  BY EmptySeq
<1>2. \A i \in 1..Len(<<>>) : Row((<<>>)[i])
  <2>1. 1..Len(<<>>) = {}
    BY <1>1
  <2> QED
    BY <2>1
<1>3. RowSeq(<<>>)
  BY <1>1, <1>2, RowSeqOf
<1> QED
  BY <1>1, <1>3

LEMMA AppendRow ==
    ASSUME NEW s, RowSeq(s), NEW r, Row(r)
    PROVE  /\ RowSeq(Append(s, r))
           /\ Len(Append(s, r)) = Len(s) + 1
           /\ Append(s, r) # <<>>
           /\ \A i \in 1..Len(s) : Append(s, r)[i] = s[i]
           /\ Append(s, r)[Len(s) + 1] = r
<1> DEFINE S == Range(s) \cup {r}
<1>1. s \in Seq(S)
  BY RowSeqs, SeqMonotonic
<1>2. /\ Append(s, r) \in Seq(S)
      /\ Len(Append(s, r)) = Len(s) + 1
      /\ Append(s, r) # <<>>
      /\ \A i \in 1..Len(s) : Append(s, r)[i] = s[i]
      /\ Append(s, r)[Len(s) + 1] = r
  <2> HIDE DEF S
  <2> r \in S
    BY DEF S
  <2> QED
    BY <1>1, AppendProperties
<1>3. \A i \in 1..Len(Append(s, r)) : Row(Append(s, r)[i])
  BY <1>2, RowSeqs
<1>4. RowSeq(Append(s, r))
  <2> HIDE DEF S
  <2> QED
    BY <1>2, <1>3, RowSeqOf
<1> QED
  BY <1>2, <1>4

LEMMA JoinRows ==
    ASSUME NEW s, RowSeq(s), NEW r, RowSeq(r)
    PROVE  /\ RowSeq(s \o r)
           /\ Len(s \o r) = Len(s) + Len(r)
           /\ \A i \in 1..Len(s) : (s \o r)[i] = s[i]
           /\ \A i \in 1..Len(r) : (s \o r)[Len(s) + i] = r[i]
           /\ r = <<>> => s \o r = s
<1> DEFINE S == Range(s) \cup Range(r)
<1>1. s \in Seq(S) /\ r \in Seq(S)
  BY RowSeqs, SeqMonotonic
<1>2. /\ s \o r \in Seq(S)
      /\ Len(s \o r) = Len(s) + Len(r)
      /\ \A i \in 1..Len(s) + Len(r) :
            (s \o r)[i] = IF i <= Len(s) THEN s[i] ELSE r[i - Len(s)]
  <2> HIDE DEF S
  <2> QED
    BY <1>1, ConcatProperties
<1>3. Len(s) \in Nat /\ Len(r) \in Nat
  BY RowSeqs
<1>4. \A i \in 1..Len(s) : (s \o r)[i] = s[i]
  BY <1>2, <1>3
<1>5. \A i \in 1..Len(r) : (s \o r)[Len(s) + i] = r[i]
  <2> TAKE i \in 1..Len(r)
  <2>1. Len(s) + i \in 1..Len(s) + Len(r) /\ ~(Len(s) + i <= Len(s)) /\ (Len(s) + i) - Len(s) = i
    BY <1>3
  <2> QED
    BY <1>2, <2>1
<1>6. \A i \in 1..Len(s \o r) : Row((s \o r)[i])
  <2> TAKE i \in 1..Len(s \o r)
  <2>1. CASE i <= Len(s)
    BY <1>2, <1>3, <2>1, RowSeqs
  <2>2. CASE ~(i <= Len(s))
    <3>1. i - Len(s) \in 1..Len(r) /\ (s \o r)[i] = r[i - Len(s)]
      BY <1>2, <1>3, <2>2
    <3> QED
      BY <3>1, RowSeqs
  <2> QED
    BY <2>1, <2>2
<1>7. RowSeq(s \o r)
  <2> HIDE DEF S
  <2> QED
    BY <1>2, <1>6, RowSeqOf
<1>8. r = <<>> => s \o r = s
  BY RowSeqs, ConcatEmptySeq
<1> QED
  BY <1>2, <1>4, <1>5, <1>7, <1>8

LEMMA RemoveRow ==
    ASSUME NEW s, RowSeq(s), NEW i \in 1..Len(s)
    PROVE  RowSeq(RemoveAt(s, i)) /\ Len(RemoveAt(s, i)) = Len(s) - 1
<1> DEFINE a == SubSeq(s, 1, i - 1)
           b == SubSeq(s, i + 1, Len(s))
<1>1. Len(s) \in Nat /\ s \in Seq(Range(s)) /\ \A k \in 1..Len(s) : s[k] \in Range(s) /\ Row(s[k])
  BY RowSeqs, ElementOfSeq
<1>2. /\ a \in Seq(Range(s)) /\ Len(a) = i - 1
      /\ \A k \in 1..Len(a) : a[k] = s[k]
  <2>1. \A k \in 1..i - 1 : s[k] \in Range(s)
    BY <1>1
  <2>2. /\ a \in Seq(Range(s))
        /\ Len(a) = IF 1 <= i - 1 THEN (i - 1) - 1 + 1 ELSE 0
        /\ \A k \in 1..(i - 1) - 1 + 1 : a[k] = s[1 + k - 1]
    BY <1>1, <2>1, SubSeqProperties, i - 1 \in Int
  <2> QED
    BY <1>1, <2>2
<1>3. /\ b \in Seq(Range(s)) /\ Len(b) = Len(s) - i
      /\ \A k \in 1..Len(b) : b[k] = s[i + k]
  <2>1. \A k \in i + 1..Len(s) : s[k] \in Range(s)
    BY <1>1
  <2>2. /\ b \in Seq(Range(s))
        /\ Len(b) = IF i + 1 <= Len(s) THEN Len(s) - (i + 1) + 1 ELSE 0
        /\ \A k \in 1..Len(s) - (i + 1) + 1 : b[k] = s[(i + 1) + k - 1]
    BY <1>1, <2>1, SubSeqProperties, i + 1 \in Int
  <2> QED
    BY <1>1, <2>2
<1>4. RowSeq(a) /\ RowSeq(b)
  <2>1. \A k \in 1..Len(a) : Row(a[k])
    BY <1>1, <1>2
  <2>2. \A k \in 1..Len(b) : Row(b[k])
    BY <1>1, <1>3
  <2> HIDE DEF a, b
  <2> QED
    BY <1>2, <1>3, <2>1, <2>2, RowSeqOf
<1>5. RemoveAt(s, i) = a \o b
  BY DEF RemoveAt
<1> HIDE DEF a, b
<1>6. RowSeq(a \o b) /\ Len(a \o b) = Len(a) + Len(b)
  BY <1>4, JoinRows
<1> QED
  BY <1>1, <1>2, <1>3, <1>5, <1>6

-----------------------------------------------------------------------------
(* Links: seq without a gap, prev, and the hash of what is stored.           *)

\* The hash the row after s has to name.
LastHash(s, prev) == IF s = <<>> THEN prev ELSE Last(s).hash

LEMMA LinkedLast ==
    ASSUME NEW s, RowSeq(s), NEW after \in Nat, NEW prev, PageHolds(s, after, prev), s # <<>>
    PROVE  Last(s).seq = after + Len(s)
BY RowSeqs DEF PageHolds

LEMMA LinkedAppend ==
    ASSUME NEW s, RowSeq(s), NEW after \in Nat, NEW prev, PageHolds(s, after, prev),
           NEW r, Row(r), r.seq = after + Len(s) + 1, r.prev = LastHash(s, prev),
           r.hash = EntryHash(r)
    PROVE  PageHolds(Append(s, r), after, prev)
<1> DEFINE p == Append(s, r)
<1>1. Len(s) \in Nat /\ DOMAIN s = 1..Len(s) /\ (s # <<>> <=> Len(s) > 0)
  BY RowSeqs
<1>2. /\ Len(p) = Len(s) + 1
      /\ DOMAIN p = 1..Len(s) + 1
      /\ \A i \in 1..Len(s) : p[i] = s[i]
      /\ p[Len(s) + 1] = r
  BY AppendRow, RowSeqs
<1> HIDE DEF p
<1>3. ASSUME NEW i \in 1..Len(s)
      PROVE  /\ p[i].seq = after + i
             /\ p[i].prev = IF i = 1 THEN prev ELSE p[i - 1].hash
             /\ p[i].hash = EntryHash(p[i])
  <2>1. /\ s[i].seq = after + i
        /\ s[i].prev = IF i = 1 THEN prev ELSE s[i - 1].hash
        /\ s[i].hash = EntryHash(s[i])
    BY <1>1 DEF PageHolds
  <2>2. i # 1 => p[i - 1] = s[i - 1]
    BY <1>1, <1>2
  <2> QED
    BY <1>2, <2>1, <2>2
<1>4. /\ p[Len(s) + 1].prev = IF Len(s) + 1 = 1 THEN prev ELSE p[(Len(s) + 1) - 1].hash
  <2>1. s # <<>> => Last(s) = p[(Len(s) + 1) - 1]
    BY <1>1, <1>2, RowSeqs
  <2> QED
    BY <1>1, <1>2, <2>1 DEF LastHash
<1>5. p[Len(s) + 1].seq = after + (Len(s) + 1) /\ p[Len(s) + 1].hash = EntryHash(p[Len(s) + 1])
  BY <1>1, <1>2
<1>6. \A i \in DOMAIN p : i \in 1..Len(s) \/ i = Len(s) + 1
  BY <1>1, <1>2
<1>7. PageHolds(p, after, prev)
  BY <1>3, <1>4, <1>5, <1>6 DEF PageHolds
<1> QED
  BY <1>7 DEF p

LEMMA LinkedJoin ==
    ASSUME NEW s, RowSeq(s), NEW after \in Nat, NEW prev, PageHolds(s, after, prev),
           NEW r, RowSeq(r), PageHolds(r, after + Len(s), LastHash(s, prev))
    PROVE  PageHolds(s \o r, after, prev)
<1> DEFINE p == s \o r
<1>1. /\ Len(s) \in Nat /\ DOMAIN s = 1..Len(s) /\ (s # <<>> <=> Len(s) > 0)
      /\ Len(r) \in Nat /\ DOMAIN r = 1..Len(r)
  BY RowSeqs
<1>2. /\ DOMAIN p = 1..Len(s) + Len(r)
      /\ \A i \in 1..Len(s) : p[i] = s[i]
      /\ \A i \in 1..Len(r) : p[Len(s) + i] = r[i]
  BY JoinRows, RowSeqs
<1> HIDE DEF p
<1>3. ASSUME NEW i \in 1..Len(s)
      PROVE  /\ p[i].seq = after + i
             /\ p[i].prev = IF i = 1 THEN prev ELSE p[i - 1].hash
             /\ p[i].hash = EntryHash(p[i])
  <2>1. /\ s[i].seq = after + i
        /\ s[i].prev = IF i = 1 THEN prev ELSE s[i - 1].hash
        /\ s[i].hash = EntryHash(s[i])
    BY <1>1 DEF PageHolds
  <2>2. i # 1 => p[i - 1] = s[i - 1]
    BY <1>1, <1>2
  <2> QED
    BY <1>2, <2>1, <2>2
<1>4. ASSUME NEW k \in 1..Len(r), NEW i, i = Len(s) + k
      PROVE  /\ p[i].seq = after + i
             /\ p[i].prev = IF i = 1 THEN prev ELSE p[i - 1].hash
             /\ p[i].hash = EntryHash(p[i])
  <2>1. /\ r[k].seq = (after + Len(s)) + k
        /\ r[k].prev = IF k = 1 THEN LastHash(s, prev) ELSE r[k - 1].hash
        /\ r[k].hash = EntryHash(r[k])
    BY <1>1 DEF PageHolds
  <2>2. p[i] = r[k] /\ (after + Len(s)) + k = after + i
    BY <1>1, <1>2, <1>4
  <2>3. k # 1 => i # 1 /\ p[i - 1] = r[k - 1]
    <3> HAVE k # 1
    <3>1. k - 1 \in 1..Len(r) /\ i - 1 = Len(s) + (k - 1) /\ i # 1
      BY <1>1, <1>4
    <3> QED
      BY <1>2, <3>1
  <2>4. k = 1 /\ s # <<>> => i # 1 /\ p[i - 1] = Last(s)
    BY <1>1, <1>2, <1>4, RowSeqs
  <2>5. k = 1 /\ s = <<>> => i = 1
    BY <1>1, <1>4
  <2> QED
    BY <2>1, <2>2, <2>3, <2>4, <2>5 DEF LastHash
<1>5. \A i \in DOMAIN p : i \in 1..Len(s) \/ \E k \in 1..Len(r) : i = Len(s) + k
  <2> TAKE i \in DOMAIN p
  <2>1. CASE i <= Len(s)
    BY <1>1, <1>2, <2>1
  <2>2. CASE ~(i <= Len(s))
    <3>1. i - Len(s) \in 1..Len(r) /\ i = Len(s) + (i - Len(s))
      BY <1>1, <1>2, <2>2
    <3> QED
      BY <3>1
  <2> QED
    BY <2>1, <2>2
<1>6. PageHolds(p, after, prev)
  BY <1>3, <1>4, <1>5 DEF PageHolds
<1> QED
  BY <1>6 DEF p

\* The head is the last row exactly with its number: the length of the chain.
LEMMA HeadIsLength ==
    ASSUME NEW d, RowSeq(logs[d]), PageHolds(logs[d], 0, Genesis(d)), heads[d] = LastRow(d)
    PROVE  heads[d].seq = Len(logs[d]) /\ heads[d].hash = LastHash(logs[d], Genesis(d))
<1>1. CASE logs[d] = <<>>
  BY <1>1, RowSeqs DEF LastRow, EmptyHead, LastHash
<1>2. CASE logs[d] # <<>>
  <2>1. Last(logs[d]).seq = 0 + Len(logs[d])
    BY <1>2, LinkedLast
  <2>2. heads[d] = HeadAt(Last(logs[d]))
    BY <1>2 DEF LastRow
  <2> QED
    BY <1>2, <2>1, <2>2, RowSeqs DEF HeadAt, LastHash
<1> QED
  BY <1>1, <1>2

\* Before entries, the head is the one a transaction holds; after, its last entry.
LEMMA HeadSeen ==
    ASSUME NEW t, NEW d, RowSeq(txn[t].entries[d]), heads[d].seq \in Nat,
           heads[d] \in [seq : Nat, hash : {heads[d].hash}],
           txn[t].entries[d] # <<>> =>
              PageHolds(txn[t].entries[d], heads[d].seq, heads[d].hash)
    PROVE  /\ HeadFor(t, d).seq = heads[d].seq + Len(txn[t].entries[d])
           /\ HeadFor(t, d).hash = LastHash(txn[t].entries[d], heads[d].hash)
           /\ HeadFor(t, d) = [seq |-> HeadFor(t, d).seq, hash |-> HeadFor(t, d).hash]
<1>1. CASE txn[t].entries[d] = <<>>
  BY <1>1, RowSeqs DEF HeadFor, LastHash
<1>2. CASE txn[t].entries[d] # <<>>
  <2>1. Last(txn[t].entries[d]).seq = heads[d].seq + Len(txn[t].entries[d])
    BY <1>2, LinkedLast
  <2>2. HeadFor(t, d) = HeadAt(Last(txn[t].entries[d]))
    BY <1>2 DEF HeadFor
  <2> QED
    BY <1>2, <2>1, <2>2 DEF HeadAt, LastHash
<1> QED
  BY <1>1, <1>2

-----------------------------------------------------------------------------
(* Transactions                                                              *)

LEMMA NewEntryLinks ==
    ASSUME AuditInv, NEW t \in Txns, NEW d \in DaySet, txn[t].day = d, Runs(t)
    PROVE  /\ Row(NewEntry(t))
           /\ NewEntry(t).seq = heads[d].seq + Len(txn[t].entries[d]) + 1
           /\ NewEntry(t).prev = LastHash(txn[t].entries[d], heads[d].hash)
           /\ NewEntry(t).hash = EntryHash(NewEntry(t))
           /\ NewEntry(t).at = today
<1> DEFINE head == HeadFor(t, d)
           row == [seq |-> head.seq + 1, prev |-> head.hash, what |-> txn[t].op,
                   at |-> today, hash |-> <<>>]
           e == [row EXCEPT !.hash = EntryHash(row)]
<1>1. NewEntry(t) = e
  BY DEF NewEntry
<1>2. TxnRow(txn[t])
  BY DEF AuditInv, TrailTypeOK
<1>3. /\ RowSeq(txn[t].entries[d])
      /\ txn[t].op \in Operations
      /\ Len(txn[t].entries[d]) \in Nat
  BY <1>2, RowSeqs DEF TxnRow, Runs
<1>4. /\ heads[d] \in [seq : Nat, hash : {heads[d].hash}]
      /\ heads[d].seq \in Nat
  BY DEF AuditInv, TrailTypeOK
<1>5. txn[t].entries[d] # <<>> => PageHolds(txn[t].entries[d], heads[d].seq, heads[d].hash)
  BY DEF AuditInv, EntriesContinue, Pending
<1>6. /\ head.seq = heads[d].seq + Len(txn[t].entries[d])
      /\ head.hash = LastHash(txn[t].entries[d], heads[d].hash)
  BY <1>3, <1>4, <1>5, HeadSeen
<1>7. today \in Nat
  <2>1. today \in 1..Len(Days) /\ Len(Days) \in Nat
    BY AuditBounds, LenProperties DEF AuditInv, TrailTypeOK
  <2> QED
    BY <2>1
<1> HIDE DEF head
<1>8. /\ e.seq = head.seq + 1 /\ e.prev = head.hash /\ e.what = txn[t].op /\ e.at = today
      /\ e.hash = <<head.seq + 1, head.hash, txn[t].op, today>>
  BY DEF EntryHash
<1>9. e.hash = EntryHash(e)
  BY <1>8 DEF EntryHash
<1>10. e.hash[3] # "altered"
  <2>1. e.hash[3] = txn[t].op
    BY <1>8
  <2>2. "altered" \notin DOMAIN Locking
    BY DEF Locking
  <2> QED
    BY <1>3, <2>1, <2>2, OperationsAssumption
<1>11. e \in [seq : Nat, prev : {e.prev}, what : {e.what}, at : Nat, hash : {e.hash}]
  BY SMTT(60), <1>3, <1>4, <1>6, <1>7, <1>8
<1>12. Row(e)
  BY <1>10, <1>11 DEF Row
<1> QED
  <2> HIDE DEF e
  <2>1. e.seq = heads[d].seq + Len(txn[t].entries[d]) + 1
    BY <1>6, <1>8 DEF e
  <2> QED
    BY <1>1, <1>6, <1>8, <1>9, <1>12, <2>1

\* A step of one transaction, which changes its own row and nothing that is stored.
LEMMA OwnStep ==
    ASSUME AuditInv, NEW t \in Txns, NEW v, TxnRow(v), txn' = [txn EXCEPT ![t] = v],
           UNCHANGED <<logs, heads, checkpoints, today, verify, damage>>,
           \A lock \in v.held : lock \in txn[t].held \/ Granted(t, lock),
           \A d \in DaySet : v.entries[d] # <<>> => Pending(t, d)'
    PROVE  AuditInv'
<1>1. /\ txn' = [u \in Txns |-> txn'[u]]
      /\ txn'[t] = v
      /\ \A u \in Txns \ {t} : txn'[u] = txn[u]
  BY DEF AuditInv, TrailTypeOK
<1>2. TrailTypeOK'
  <2>1. \A u \in Txns : TxnRow(txn[u])
    BY DEF AuditInv, TrailTypeOK
  <2>2. \A u \in Txns : TxnRow(txn'[u])
    BY <1>1, <2>1
  <2> QED
    BY <1>1, <2>2 DEF AuditInv, TrailTypeOK
<1>3. LocksSeparate'
  <2> SUFFICES ASSUME NEW a \in Txns, NEW b \in Txns, a # b, NEW lock \in txn'[a].held,
                      NEW other \in txn'[b].held, other.row = lock.row,
                      other.mode = "X" \/ lock.mode = "X"
               PROVE  FALSE
    BY DEF LocksSeparate, Conflicts
  <2>0. \A x, y \in Txns : \A l \in txn[x].held, m \in txn[y].held :
           x # y => ~(m.row = l.row /\ (m.mode = "X" \/ l.mode = "X"))
    BY DEF AuditInv, LocksSeparate, Conflicts
  <2>1. CASE a = t
    <3>1. other \in txn[b].held
      BY <1>1, <2>1
    <3>2. lock \in txn[t].held \/ Granted(t, lock)
      BY <1>1, <2>1
    <3> QED
      BY <2>0, <2>1, <3>1, <3>2 DEF Granted, Conflicts
  <2>2. CASE b = t
    <3>1. lock \in txn[a].held
      BY <1>1, <2>2
    <3>2. other \in txn[t].held \/ Granted(t, other)
      BY <1>1, <2>2
    <3> QED
      BY <2>0, <2>2, <3>1, <3>2 DEF Granted, Conflicts
  <2>3. CASE a # t /\ b # t
    BY <1>1, <2>0, <2>3
  <2> QED
    BY <2>1, <2>2, <2>3
<1>4. EntriesContinue'
  <2> SUFFICES ASSUME NEW u \in Txns, NEW d \in DaySet, txn'[u].entries[d] # <<>>
               PROVE  Pending(u, d)'
    BY DEF EntriesContinue
  <2>1. CASE u = t
    BY <1>1, <2>1
  <2>2. CASE u # t
    <3>1. txn'[u] = txn[u] /\ Pending(u, d)
      BY <1>1, <2>2 DEF AuditInv, EntriesContinue
    <3> QED
      BY <3>1 DEF Pending, HoldsLock
  <2> QED
    BY <2>1, <2>2
<1>5. WrittenByNow' /\ ChainsAreLinked' /\ DamageLeavesATrace' /\ VerifyInv'
  BY DEF AuditInv, WrittenByNow, ChainsAreLinked, LinkedChain, LastRow, CheckpointHolds,
         DamageLeavesATrace, VerifyInv, ReadSoFar
<1> QED
  BY <1>2, <1>3, <1>4, <1>5 DEF AuditInv

\* What a transaction has written is not disturbed while only its locks grow.
LEMMA LockStep ==
    ASSUME AuditInv, NEW t \in Txns, NEW v, TxnRow(v), txn' = [txn EXCEPT ![t] = v],
           UNCHANGED <<logs, heads, checkpoints, today, verify, damage>>,
           \A lock \in v.held : lock \in txn[t].held \/ Granted(t, lock),
           txn[t].held \subseteq v.held, v.entries = txn[t].entries
    PROVE  AuditInv'
<1>1. txn'[t] = v
  BY DEF AuditInv, TrailTypeOK
<1>2. \A d \in DaySet : v.entries[d] # <<>> => Pending(t, d)'
  <2> SUFFICES ASSUME NEW d \in DaySet, txn[t].entries[d] # <<>>
               PROVE  Pending(t, d)'
    OBVIOUS
  <2>1. Pending(t, d)
    BY DEF AuditInv, EntriesContinue
  <2> QED
    BY <1>1, <2>1 DEF Pending, HoldsLock
<1> QED
  BY <1>2, OwnStep

LEMMA NoTxnRow ==
    /\ TxnRow(NoTxn)
    /\ NoTxn.held = {} /\ \A d \in DaySet : NoTxn.entries[d] = <<>>
<1>1. NoEntries = [d \in DaySet |-> <<>>]
  BY DEF NoEntries, DaySet
<1>2. \A d \in DaySet : NoTxn.entries[d] = <<>>
  BY <1>1 DEF NoTxn
<1> QED
  BY <1>1, <1>2, NoRows DEF NoTxn, TxnRow

\* A transaction that is over holds nothing and has written nothing.
LEMMA OverStep ==
    ASSUME AuditInv, NEW t \in Txns, Release(t),
           UNCHANGED <<logs, heads, checkpoints, today, verify, damage>>
    PROVE  AuditInv'
<1>1. PICK v : v = NoTxn
  OBVIOUS
<1>2. TxnRow(v) /\ v.held = {} /\ \A d \in DaySet : v.entries[d] = <<>>
  BY <1>1, NoTxnRow
<1>3. txn' = [txn EXCEPT ![t] = v]
  BY <1>1 DEF Release, Change
<1> QED
  BY <1>2, <1>3, OwnStep

LEMMA BeginKeeps ==
    ASSUME AuditInv, NEW t \in Txns, BeginTxn(t)
    PROVE  AuditInv'
<1>1. PICK op \in Operations : txn' = [txn EXCEPT ![t] = [NoTxn EXCEPT !.op = op, !.at = 1]]
  BY DEF BeginTxn, Begin, Change
<1>2. PICK v : v = [NoTxn EXCEPT !.op = op, !.at = 1]
  OBVIOUS
<1>3. /\ v.op = op /\ v.at = 1 /\ v.day = NoDay /\ v.held = {}
      /\ v.entries = NoTxn.entries
      /\ v = [op |-> v.op, at |-> v.at, day |-> v.day, held |-> v.held, entries |-> v.entries]
  BY <1>2 DEF NoTxn
<1>4. TxnRow(v)
  BY <1>3, NoTxnRow DEF TxnRow
<1>5. \A d \in DaySet : v.entries[d] = <<>>
  BY <1>3, NoTxnRow
<1>6. UNCHANGED <<logs, heads, checkpoints, today, verify, damage>>
  BY DEF BeginTxn, chainVars
<1> QED
  <2>1. txn' = [txn EXCEPT ![t] = v]
    BY <1>1, <1>2
  <2>2. \A lock \in v.held : lock \in txn[t].held \/ Granted(t, lock)
    BY <1>3
  <2>3. \A d \in DaySet : v.entries[d] # <<>> => Pending(t, d)'
    BY <1>5
  <2> QED
    BY <1>4, <1>6, <2>1, <2>2, <2>3, OwnStep

LEMMA ChooseKeeps ==
    ASSUME AuditInv, NEW t \in Txns, ChooseChain(t)
    PROVE  AuditInv'
<1>1. TxnRow(txn[t])
  BY DEF AuditInv, TrailTypeOK
<1>2. Today \in DaySet
  <2>1. Days \in Seq(STRING) /\ today \in 1..Len(Days)
    BY AuditBounds DEF AuditInv, TrailTypeOK
  <2>2. DOMAIN Days = 1..Len(Days)
    BY <2>1, LenProperties
  <2> QED
    BY <2>1, <2>2 DEF Today, DaySet, Range
<1>3. PICK v : v = [txn[t] EXCEPT !.day = Today]
  OBVIOUS
<1>4. /\ v.op = txn[t].op /\ v.at = txn[t].at /\ v.day = Today /\ v.held = txn[t].held
      /\ v.entries = txn[t].entries
      /\ v = [op |-> v.op, at |-> v.at, day |-> v.day, held |-> v.held, entries |-> v.entries]
  BY <1>1, <1>3 DEF TxnRow
<1>5. TxnRow(v)
  BY <1>1, <1>2, <1>4 DEF TxnRow
<1>6. txn' = [txn EXCEPT ![t] = v]
  BY <1>3 DEF ChooseChain, Change
<1>7. UNCHANGED <<logs, heads, checkpoints, today, verify, damage>>
  BY DEF ChooseChain, chainVars
<1> QED
  BY <1>4, <1>5, <1>6, <1>7, LockStep

LEMMA TakeLockKeeps ==
    ASSUME AuditInv, NEW t \in Txns, TakeLock(t)
    PROVE  AuditInv'
<1>1. TxnRow(txn[t])
  BY DEF AuditInv, TrailTypeOK
<1>2. UNCHANGED <<logs, heads, checkpoints, today, verify, damage>>
  BY DEF TakeLock, chainVars
<1>3. CASE LockRow(t)
  <2>1. PICK v : v = [txn[t] EXCEPT !.at = @ + 1, !.held = @ \cup {Statement(t)}]
    OBVIOUS
  <2>2. /\ v.op = txn[t].op /\ v.at = txn[t].at + 1 /\ v.day = txn[t].day
        /\ v.held = txn[t].held \cup {Statement(t)} /\ v.entries = txn[t].entries
        /\ v = [op |-> v.op, at |-> v.at, day |-> v.day, held |-> v.held, entries |-> v.entries]
    BY <1>1, <2>1 DEF TxnRow
  <2>3. TxnRow(v)
    BY <1>1, <2>2 DEF TxnRow
  <2>4. txn' = [txn EXCEPT ![t] = v] /\ Granted(t, Statement(t))
    BY <1>3, <2>1 DEF LockRow, Change
  <2> QED
    BY <1>2, <2>2, <2>3, <2>4, LockStep
<1>4. CASE LockHead(t)
  <2>1. PICK head : head = Exclusive(txn[t].day)
    OBVIOUS
  <2>2. PICK v : v = [txn[t] EXCEPT !.held = @ \cup {head}]
    OBVIOUS
  <2>3. /\ v.op = txn[t].op /\ v.at = txn[t].at /\ v.day = txn[t].day
        /\ v.held = txn[t].held \cup {head} /\ v.entries = txn[t].entries
        /\ v = [op |-> v.op, at |-> v.at, day |-> v.day, held |-> v.held, entries |-> v.entries]
    BY <1>1, <2>2 DEF TxnRow
  <2>4. TxnRow(v)
    BY <1>1, <2>3 DEF TxnRow
  <2>5. txn' = [txn EXCEPT ![t] = v] /\ Granted(t, head)
    BY <1>4, <2>1, <2>2 DEF LockHead, Change
  <2> QED
    BY <1>2, <2>3, <2>4, <2>5, LockStep
<1> QED
  BY <1>3, <1>4 DEF TakeLock

LEMMA AppendKeeps ==
    ASSUME AuditInv, NEW t \in Txns, AppendEntry(t)
    PROVE  AuditInv'
<1>0. TxnRow(txn[t])
  BY DEF AuditInv, TrailTypeOK
<1>1. PICK d : d = txn[t].day
  OBVIOUS
<1>2. d \in DaySet /\ Runs(t) /\ HoldsLock(t, Exclusive(d))
  BY <1>0, <1>1 DEF AppendEntry, Logging, TxnRow
<1>3. PICK e : e = NewEntry(t)
  OBVIOUS
<1>4. PICK own : own = txn[t].entries[d]
  OBVIOUS
<1>5. RowSeq(own) /\ Len(own) \in Nat /\ heads[d].seq \in Nat
  BY <1>0, <1>2, <1>4, RowSeqs DEF TxnRow, AuditInv, TrailTypeOK
<1>6. /\ Row(e)
      /\ e.seq = heads[d].seq + Len(own) + 1
      /\ e.prev = LastHash(own, heads[d].hash)
      /\ e.hash = EntryHash(e)
      /\ e.at = today
  BY <1>1, <1>2, <1>3, <1>4, NewEntryLinks
<1>7. PICK entries : entries = [txn[t].entries EXCEPT ![d] = Append(own, e)]
  OBVIOUS
<1>8. PICK v : v = [txn[t] EXCEPT !.at = @ + 1, !.day = NoDay, !.held = @ \cup {Shared("user")},
                                  !.entries = entries]
  OBVIOUS
<1>9. txn' = [txn EXCEPT ![t] = v]
  <2>1. txn' = [txn EXCEPT ![t] = [txn[t] EXCEPT !.at = @ + 1, !.day = NoDay,
                                     !.held = @ \cup {Shared("user")},
                                     !.entries[txn[t].day] = Append(@, NewEntry(t))]]
    BY DEF AppendEntry, Change
  <2>2. [txn[t] EXCEPT !.at = @ + 1, !.day = NoDay, !.held = @ \cup {Shared("user")},
                       !.entries[txn[t].day] = Append(@, NewEntry(t))] = v
    BY <1>1, <1>3, <1>4, <1>7, <1>8
  <2> QED
    BY <2>1, <2>2
<1>10. /\ v.op = txn[t].op /\ v.at = txn[t].at + 1 /\ v.day = NoDay
       /\ v.held = txn[t].held \cup {Shared("user")} /\ v.entries = entries
       /\ v = [op |-> v.op, at |-> v.at, day |-> v.day, held |-> v.held, entries |-> v.entries]
  BY <1>0, <1>8 DEF TxnRow
<1>11. /\ entries = [c \in DaySet |-> entries[c]]
       /\ entries[d] = Append(own, e)
       /\ \A c \in DaySet \ {d} : entries[c] = txn[t].entries[c]
  BY <1>0, <1>2, <1>7 DEF TxnRow
<1>12. /\ RowSeq(Append(own, e))
       /\ Len(Append(own, e)) = Len(own) + 1
       /\ \A i \in 1..Len(own) : Append(own, e)[i] = own[i]
       /\ Append(own, e)[Len(own) + 1] = e
  BY <1>5, <1>6, AppendRow
<1>13. TxnRow(v)
  <2>1. \A c \in DaySet : RowSeq(entries[c])
    BY <1>0, <1>11, <1>12 DEF TxnRow
  <2>2. v.op \in Operations \cup {"none"} /\ v.at \in Nat /\ v.day \in DaySet \cup {NoDay}
    BY <1>0, <1>10 DEF TxnRow
  <2> QED
    BY <1>10, <1>11, <2>1, <2>2 DEF TxnRow
<1>14. UNCHANGED <<logs, heads, checkpoints, today, verify, damage>>
  BY DEF AppendEntry, chainVars
<1>15. Granted(t, Shared("user"))
  BY DEF AppendEntry
<1>16. txn'[t] = v
  BY <1>9 DEF AuditInv, TrailTypeOK
<1>17. HoldsLock(t, Exclusive(d))'
  BY <1>2, <1>10, <1>16 DEF HoldsLock
<1>18. own # <<>> => Pending(t, d)
  BY <1>2, <1>4 DEF AuditInv, EntriesContinue
<1>19. PageHolds(Append(own, e), heads[d].seq, heads[d].hash)
  <2>1. PageHolds(own, heads[d].seq, heads[d].hash)
    <3>1. own = <<>> => DOMAIN own = {}
      BY <1>5, RowSeqs
    <3> QED
      BY <1>4, <1>18, <3>1 DEF Pending, PageHolds
  <2> QED
    BY <1>5, <1>6, <2>1, LinkedAppend
<1>20. PICK a : a = Append(own, e)
  OBVIOUS
<1>21. /\ Len(a) = Len(own) + 1
       /\ \A i \in 1..Len(own) : a[i] = own[i]
       /\ a[Len(own) + 1] = e
  BY <1>12, <1>20
<1>22. /\ \A i, j \in 1..Len(own) : i < j => own[i].at <= own[j].at
       /\ \A i \in 1..Len(own) :
             /\ own[i].at <= today
             /\ damage = 0 => \A k \in 1..Len(logs[d]) : logs[d][k].at <= own[i].at
  <2>1. own = <<>> => 1..Len(own) = {}
    BY <1>5, RowSeqs
  <2> QED
    BY <1>4, <1>18, <2>1 DEF Pending
<1>23. \A i \in 1..Len(a) : i \in 1..Len(own) \/ i = Len(own) + 1
  BY <1>5, <1>21
<1>24. today \in Nat
  <2>1. today \in 1..Len(Days) /\ Len(Days) \in Nat
    BY AuditBounds, LenProperties DEF AuditInv, TrailTypeOK
  <2> QED
    BY <2>1
<1>25. \A i, j \in 1..Len(a) : i < j => a[i].at <= a[j].at
  <2> TAKE i, j \in 1..Len(a)
  <2> HAVE i < j
  <2>1. i \in 1..Len(own)
    BY <1>5, <1>21
  <2> QED
    BY <1>6, <1>21, <1>22, <1>23, <2>1
<1>26. \A i \in 1..Len(a) :
          /\ a[i].at <= today
          /\ damage = 0 => \A k \in 1..Len(logs[d]) : logs[d][k].at <= a[i].at
  <2> TAKE i \in 1..Len(a)
  <2>1. CASE i \in 1..Len(own)
    BY <1>21, <1>22, <2>1
  <2>2. CASE i = Len(own) + 1
    BY <1>2, <1>6, <1>21, <1>24, <2>2 DEF AuditInv, WrittenByNow
  <2> QED
    BY <1>23, <2>1, <2>2
<1>27. Pending(t, d)'
  <2>1. txn'[t].entries[d] = a
    BY <1>10, <1>11, <1>16, <1>20
  <2> QED
    BY <1>14, <1>17, <1>19, <1>20, <1>25, <1>26, <2>1 DEF Pending
<1>28. \A c \in DaySet \ {d} : v.entries[c] # <<>> => Pending(t, c)'
  <2> SUFFICES ASSUME NEW c \in DaySet \ {d}, v.entries[c] # <<>>
               PROVE  Pending(t, c)'
    OBVIOUS
  <2>1. txn'[t].entries[c] = txn[t].entries[c]
    BY <1>10, <1>11, <1>16
  <2>2. Pending(t, c)
    BY <1>10, <1>11, <1>16 DEF AuditInv, EntriesContinue
  <2> QED
    BY <1>10, <1>14, <1>16, <2>1, <2>2 DEF Pending, HoldsLock
<1> QED
  BY <1>9, <1>10, <1>13, <1>14, <1>15, <1>27, <1>28, OwnStep

LEMMA AbandonKeeps ==
    ASSUME AuditInv, NEW t \in Txns, Abandon(t) \/ ResolveDeadlock(t)
    PROVE  AuditInv'
BY OverStep DEF Abandon, ResolveDeadlock, Rollback, Victim, chainVars

LEMMA DaysInOrder ==
    /\ Len(Days) \in Nat /\ DOMAIN Days = 1..Len(Days)
    /\ \A d : d \in DaySet <=> \E k \in DOMAIN Days : d = Days[k]
BY AuditBounds, LenProperties DEF DaySet, Range

LEMMA FirstIsOneOfThem ==
    ASSUME NEW days \in SUBSET DaySet, days # {}
    PROVE  First(days) \in days
<1> DEFINE R == OpToRel(<, Nat)
           places == {k \in DOMAIN Days : Days[k] \in days}
<1>1. places # {} /\ places \subseteq Nat
  BY DaysInOrder
<1>2. IsWellFoundedOn(R, Nat)
  BY NatLessThanWellFounded
<1>3. PICK k \in places : \A l \in places : ~(<<l, k>> \in R)
  <2> HIDE DEF places, R
  <2> QED
    BY <1>1, <1>2, WFMin, Zenon
<1>4. \A l \in places : k <= l
  <2>1. \A l \in places : ~(l < k)
    BY <1>1, <1>3 DEF OpToRel
  <2>2. \A l \in places : l \in Nat /\ k \in Nat
    BY <1>1
  <2> QED
    BY <2>1, <2>2
<1>5. \E m \in DOMAIN Days :
         Days[m] \in days /\ \A l \in DOMAIN Days : Days[l] \in days => m <= l
  BY <1>4
<1> QED
  BY <1>5 DEF First

\* What a commit does to one chain.
LEMMA CommitOfDay ==
    ASSUME AuditInv, NEW t \in Txns, Commit(t), NEW d \in DaySet
    PROVE  /\ RowSeq(logs'[d])
           /\ Len(logs'[d]) = Len(logs[d]) + Len(txn[t].entries[d])
           /\ \A i \in 1..Len(logs[d]) : logs'[d][i] = logs[d][i]
           /\ \A i \in 1..Len(txn[t].entries[d]) :
                 logs'[d][Len(logs[d]) + i] = txn[t].entries[d][i]
           /\ heads'[d] \in [seq : Nat, hash : {heads'[d].hash}]
           /\ heads'[d].seq = heads[d].seq + Len(txn[t].entries[d])
           /\ txn[t].entries[d] = <<>> => logs'[d] = logs[d] /\ heads'[d] = heads[d]
<1>1. RowSeq(logs[d]) /\ RowSeq(txn[t].entries[d])
  BY DEF AuditInv, TrailTypeOK, TxnRow
<1>2. logs'[d] = logs[d] \o txn[t].entries[d] /\ heads'[d] = HeadFor(t, d)
  BY DEF Commit
<1>3. /\ heads[d] \in [seq : Nat, hash : {heads[d].hash}]
      /\ heads[d].seq \in Nat
  BY DEF AuditInv, TrailTypeOK
<1>4. txn[t].entries[d] # <<>> => PageHolds(txn[t].entries[d], heads[d].seq, heads[d].hash)
  BY DEF AuditInv, EntriesContinue, Pending
<1>5. /\ HeadFor(t, d).seq = heads[d].seq + Len(txn[t].entries[d])
      /\ HeadFor(t, d) = [seq |-> HeadFor(t, d).seq, hash |-> HeadFor(t, d).hash]
  BY <1>1, <1>3, <1>4, HeadSeen
<1>6. Len(txn[t].entries[d]) \in Nat
  BY <1>1, RowSeqs
<1>7. heads'[d] \in [seq : Nat, hash : {heads'[d].hash}]
  BY SMTT(60), <1>2, <1>3, <1>5, <1>6
<1>8. txn[t].entries[d] = <<>> => heads'[d] = heads[d]
  BY <1>2 DEF HeadFor
<1>9. PICK old, own : old = logs[d] /\ own = txn[t].entries[d]
  OBVIOUS
<1>10. RowSeq(old) /\ RowSeq(own) /\ logs'[d] = old \o own
  BY <1>1, <1>2, <1>9
<1>11. /\ RowSeq(logs'[d])
       /\ Len(logs'[d]) = Len(old) + Len(own)
       /\ \A i \in 1..Len(old) : logs'[d][i] = old[i]
       /\ \A i \in 1..Len(own) : logs'[d][Len(old) + i] = own[i]
       /\ own = <<>> => logs'[d] = old
  <2>1. RowSeq(old) /\ RowSeq(own)
    BY <1>10
  <2>2. /\ RowSeq(old \o own)
        /\ Len(old \o own) = Len(old) + Len(own)
        /\ \A i \in 1..Len(old) : (old \o own)[i] = old[i]
        /\ \A i \in 1..Len(own) : (old \o own)[Len(old) + i] = own[i]
        /\ own = <<>> => old \o own = old
    <3> QED
      BY <2>1, JoinRows, Zenon
  <2> QED
    BY <1>10, <2>2, Zenon
<1>12. heads'[d].seq = heads[d].seq + Len(own)
  BY <1>2, <1>5, <1>9
<1> QED
  BY <1>7, <1>8, <1>9, <1>11, <1>12

\* A day two transactions have written to at once does not exist.
LEMMA OneWriter ==
    ASSUME AuditInv, NEW t \in Txns, NEW u \in Txns, u # t, NEW d \in DaySet,
           txn[u].entries[d] # <<>>
    PROVE  txn[t].entries[d] = <<>>
<1> SUFFICES ASSUME txn[t].entries[d] # <<>> PROVE FALSE
  OBVIOUS
<1>1. HoldsLock(t, Exclusive(d)) /\ HoldsLock(u, Exclusive(d))
  BY DEF AuditInv, EntriesContinue, Pending
<1> QED
  BY <1>1 DEF AuditInv, LocksSeparate, HoldsLock, Conflicts, Exclusive

LEMMA CommitKeeps ==
    ASSUME AuditInv, NEW t \in Txns, Commit(t)
    PROVE  AuditInv'
<1>1. PICK gone : gone = NoTxn
  OBVIOUS
<1>2. TxnRow(gone) /\ gone.held = {} /\ \A d \in DaySet : gone.entries[d] = <<>>
  BY <1>1, NoTxnRow
<1>3. /\ txn' = [u \in Txns |-> txn'[u]]
      /\ txn'[t] = gone
      /\ \A u \in Txns \ {t} : txn'[u] = txn[u]
  BY <1>1 DEF Commit, Release, Change, AuditInv, TrailTypeOK
<1>4. UNCHANGED <<checkpoints, today, verify, damage>>
  BY DEF Commit
<1>5. /\ logs' = [d \in DaySet |-> logs'[d]]
      /\ heads' = [d \in DaySet |-> heads'[d]]
  BY DEF Commit
<1>6. TrailTypeOK'
  <2>1. \A u \in Txns : TxnRow(txn'[u])
    BY <1>2, <1>3 DEF AuditInv, TrailTypeOK
  <2>2. \A d \in DaySet : RowSeq(logs'[d]) /\ heads'[d] \in [seq : Nat, hash : {heads'[d].hash}]
    BY CommitOfDay
  <2>3. /\ today' \in 1..Len(Days) /\ damage' \in Nat
        /\ \A c \in checkpoints' : c.day \in DaySet /\ c.seq \in Nat
        /\ verify' \in [at : {"idle", "chains", "heads", "done"}, todo : SUBSET DaySet,
                        after : {verify'.after}, prev : {verify'.prev},
                        heads : {verify'.heads}, ok : BOOLEAN, mismatch : BOOLEAN]
    BY <1>4 DEF AuditInv, TrailTypeOK
  <2> QED
    BY <1>3, <1>5, <2>1, <2>2, <2>3 DEF TrailTypeOK
<1>7. LocksSeparate'
  <2> SUFFICES ASSUME NEW a \in Txns, NEW b \in Txns, a # b, NEW lock \in txn'[a].held,
                      NEW other \in txn'[b].held, other.row = lock.row,
                      other.mode = "X" \/ lock.mode = "X"
               PROVE  FALSE
    BY DEF LocksSeparate, Conflicts
  <2>1. a # t /\ b # t
    BY <1>2, <1>3
  <2> QED
    BY <1>3, <2>1 DEF AuditInv, LocksSeparate, Conflicts
<1>8. EntriesContinue'
  <2> SUFFICES ASSUME NEW u \in Txns, NEW d \in DaySet, txn'[u].entries[d] # <<>>
               PROVE  Pending(u, d)'
    BY DEF EntriesContinue
  <2>1. u # t /\ txn'[u] = txn[u]
    BY <1>2, <1>3
  <2>2. logs'[d] = logs[d] /\ heads'[d] = heads[d]
    <3>1. txn[t].entries[d] = <<>>
      BY <2>1, OneWriter
    <3> QED
      BY <3>1, CommitOfDay
  <2>3. Pending(u, d)
    BY <2>1 DEF AuditInv, EntriesContinue
  <2> QED
    BY <1>4, <2>1, <2>2, <2>3 DEF Pending, HoldsLock
<1>9. ASSUME NEW d \in DaySet, NEW k \in 1..Len(logs'[d])
      PROVE  \/ k \in 1..Len(logs[d]) /\ logs'[d][k] = logs[d][k]
             \/ \E i \in 1..Len(txn[t].entries[d]) :
                   k = Len(logs[d]) + i /\ logs'[d][k] = txn[t].entries[d][i]
  <2>1. PICK m : m = Len(logs[d])
    OBVIOUS
  <2>2. PICK n : n = Len(txn[t].entries[d])
    OBVIOUS
  <2>3. m \in Nat /\ n \in Nat
    BY <2>1, <2>2, RowSeqs DEF AuditInv, TrailTypeOK, TxnRow
  <2>4. /\ Len(logs'[d]) = m + n
        /\ \A i \in 1..m : logs'[d][i] = logs[d][i]
        /\ \A i \in 1..n : logs'[d][m + i] = txn[t].entries[d][i]
    BY <2>1, <2>2, CommitOfDay
  <2>5. k \in 1..m + n
    BY <2>4
  <2>6. CASE k <= m
    <3>1. k \in 1..m
      BY <2>3, <2>5, <2>6
    <3> QED
      BY <2>1, <2>4, <3>1
  <2>7. CASE ~(k <= m)
    <3>1. k - m \in 1..n /\ k = m + (k - m)
      BY <2>3, <2>5, <2>7
    <3> QED
      BY <2>1, <2>2, <2>4, <3>1
  <2> QED
    BY <2>6, <2>7
<1>10. WrittenByNow'
  <2> SUFFICES ASSUME damage = 0, NEW d \in DaySet, NEW k \in 1..Len(logs'[d])
               PROVE  logs'[d][k].at <= today
    BY <1>4 DEF WrittenByNow
  <2>1. CASE k \in 1..Len(logs[d]) /\ logs'[d][k] = logs[d][k]
    BY <2>1 DEF AuditInv, WrittenByNow
  <2>2. CASE \E i \in 1..Len(txn[t].entries[d]) : logs'[d][k] = txn[t].entries[d][i]
    <3>1. PICK i \in 1..Len(txn[t].entries[d]) : logs'[d][k] = txn[t].entries[d][i]
      BY <2>2
    <3>2. txn[t].entries[d] # <<>>
      BY NoRows
    <3> QED
      BY <3>1, <3>2 DEF AuditInv, EntriesContinue, Pending
  <2> QED
    BY <1>9, <2>1, <2>2
<1>11. ASSUME damage = 0, NEW d \in DaySet
       PROVE  LinkedChain(d)'
  <2>1. PICK own : own = txn[t].entries[d]
    OBVIOUS
  <2>2. PICK old : old = logs[d]
    OBVIOUS
  <2>3. PICK new : new = logs'[d]
    OBVIOUS
  <2>4. RowSeq(old) /\ RowSeq(own) /\ RowSeq(new) /\ new = old \o own
    <3>1. RowSeq(old) /\ RowSeq(own)
      BY <2>1, <2>2 DEF AuditInv, TrailTypeOK, TxnRow
    <3>2. RowSeq(new)
      BY <2>3, CommitOfDay
    <3>3. new = old \o own
      BY <2>1, <2>2, <2>3 DEF Commit
    <3> QED
      BY <3>1, <3>2, <3>3
  <2>5. LinkedChain(d)
    BY <1>11 DEF AuditInv, ChainsAreLinked
  <2>6. CASE own = <<>>
    <3>1. logs'[d] = logs[d] /\ heads'[d] = heads[d]
      BY <2>1, <2>6, CommitOfDay
    <3> QED
      BY <2>5, <3>1 DEF LinkedChain, LastRow
  <2>7. CASE own # <<>>
    <3>1. Pending(t, d)
      BY <2>1, <2>7 DEF AuditInv, EntriesContinue
    <3>2. heads[d].seq = Len(old) /\ heads[d].hash = LastHash(old, Genesis(d))
      BY <2>2, <2>4, <2>5, HeadIsLength DEF LinkedChain
    <3>3. Len(old) \in Nat /\ Len(own) \in Nat /\ Len(own) > 0 /\ DOMAIN new = 1..Len(new)
      BY <2>4, <2>7, RowSeqs
    <3>4. PageHolds(new, 0, Genesis(d))
      <4>1. PageHolds(own, 0 + Len(old), LastHash(old, Genesis(d)))
        BY <2>1, <3>1, <3>2, <3>3 DEF Pending
      <4>2. PageHolds(old, 0, Genesis(d))
        BY <2>2, <2>5 DEF LinkedChain
      <4> QED
        BY <2>4, <4>1, <4>2, LinkedJoin
    <3>5. /\ Len(new) = Len(old) + Len(own)
          /\ \A i \in 1..Len(old) : new[i] = old[i]
          /\ \A i \in 1..Len(own) : new[Len(old) + i] = own[i]
      BY <2>4, JoinRows
    <3>6. heads'[d] = LastRow(d)'
      <4>1. new # <<>> /\ Last(new) = Last(own)
        <5>1. new # <<>> /\ Last(new) = new[Len(new)] /\ Last(own) = own[Len(own)]
          <6>1. Len(new) > 0
            BY <3>3, <3>5
          <6> QED
            BY <2>4, <2>7, <6>1, RowSeqs
        <5>2. Len(own) \in 1..Len(own)
          BY <3>3
        <5> QED
          BY <3>5, <5>1, <5>2
      <4>2. heads'[d] = HeadAt(Last(own))
        BY <2>1, <2>7 DEF Commit, HeadFor
      <4> QED
        BY <2>3, <4>1, <4>2 DEF LastRow, HeadAt
    <3>7. \A i, j \in DOMAIN new : i < j => new[i].at <= new[j].at
      <4> SUFFICES ASSUME NEW i \in 1..Len(new), NEW j \in 1..Len(new), i < j
                   PROVE  new[i].at <= new[j].at
        BY <3>3
      <4>1. CASE j <= Len(old)
        <5>1. i \in DOMAIN logs[d] /\ j \in DOMAIN logs[d] /\ new[i] = logs[d][i] /\ new[j] = logs[d][j]
          BY <2>2, <2>4, <3>3, <3>5, <4>1, RowSeqs
        <5> QED
          BY <2>5, <5>1 DEF LinkedChain
      <4>2. CASE ~(j <= Len(old))
        <5>1. PICK m \in 1..Len(own) : j = Len(old) + m /\ new[j] = own[m]
          <6>1. j - Len(old) \in 1..Len(own) /\ j = Len(old) + (j - Len(old))
            BY <3>3, <3>5, <4>2
          <6> QED
            BY <3>5, <6>1
        <5>2. CASE i <= Len(old)
          <6>1. i \in 1..Len(old) /\ new[i] = old[i]
            BY <3>3, <3>5, <5>2
          <6> QED
            BY <1>11, <2>1, <2>2, <3>1, <5>1, <6>1 DEF Pending
        <5>3. CASE ~(i <= Len(old))
          <6>1. PICK l \in 1..Len(own) : i = Len(old) + l /\ new[i] = own[l]
            <7>1. i - Len(old) \in 1..Len(own) /\ i = Len(old) + (i - Len(old))
              BY <3>3, <3>5, <5>3
            <7> QED
              BY <3>5, <7>1
          <6>2. l < m
            BY <3>3, <5>1, <6>1
          <6> QED
            BY <2>1, <3>1, <5>1, <6>1, <6>2 DEF Pending
        <5> QED
          BY <5>2, <5>3
      <4> QED
        BY <4>1, <4>2
    <3> QED
      BY <2>3, <3>4, <3>6, <3>7 DEF LinkedChain
  <2> QED
    BY <2>6, <2>7
<1>12. ChainsAreLinked'
  <2> SUFFICES ASSUME damage = 0
               PROVE  /\ \A d \in DaySet : LinkedChain(d)'
                      /\ \A c \in checkpoints' : CheckpointHolds(c)'
    BY <1>4 DEF ChainsAreLinked
  <2>1. ASSUME NEW c \in checkpoints
        PROVE  CheckpointHolds(c)'
    <3>1. CheckpointHolds(c) /\ c.day \in DaySet
      BY DEF AuditInv, TrailTypeOK, ChainsAreLinked
    <3>2. /\ DOMAIN logs[c.day] = 1..Len(logs[c.day]) /\ DOMAIN logs'[c.day] = 1..Len(logs'[c.day])
          /\ Len(logs[c.day]) \in Nat /\ Len(txn[t].entries[c.day]) \in Nat
      BY <3>1, CommitOfDay, RowSeqs DEF AuditInv, TrailTypeOK, TxnRow
    <3>3. /\ Len(logs'[c.day]) = Len(logs[c.day]) + Len(txn[t].entries[c.day])
          /\ \A i \in 1..Len(logs[c.day]) : logs'[c.day][i] = logs[c.day][i]
      BY <3>1, CommitOfDay
    <3>4. CASE c.seq # 0
      <4>1. c.seq \in 1..Len(logs[c.day]) /\ logs[c.day][c.seq].hash = c.hash
        BY <3>1, <3>2, <3>4 DEF CheckpointHolds
      <4>2. c.seq \in 1..Len(logs'[c.day])
        <5>1. PICK m, n, q : m = Len(logs[c.day]) /\ n = Len(txn[t].entries[c.day]) /\ q = c.seq
          OBVIOUS
        <5>2. m \in Nat /\ n \in Nat /\ q \in 1..m /\ Len(logs'[c.day]) = m + n
          BY <3>2, <3>3, <4>1, <5>1
        <5>3. q \in 1..m + n
          BY <5>2
        <5> QED
          BY <5>1, <5>2, <5>3
      <4>3. c.seq \in DOMAIN logs'[c.day] /\ logs'[c.day][c.seq].hash = c.hash
        BY <3>2, <3>3, <4>1, <4>2
      <4> QED
        BY <3>4, <4>3 DEF CheckpointHolds
    <3>5. CASE c.seq = 0
      BY <3>1, <3>5 DEF CheckpointHolds, Genesis
    <3> QED
      BY <3>4, <3>5
  <2> QED
    BY <1>4, <1>11, <2>1
<1>13. DamageLeavesATrace'
  <2>1. ASSUME NEW d \in DaySet
        PROVE  /\ Len(logs[d]) \in Nat /\ Len(logs'[d]) \in Nat
               /\ heads[d].seq \in Nat /\ heads'[d].seq \in Nat
               /\ heads'[d].seq - Len(logs'[d]) = heads[d].seq - Len(logs[d])
               /\ \A i \in 1..Len(logs[d]) : i \in 1..Len(logs'[d]) /\ logs'[d][i] = logs[d][i]
    <3>1. /\ Len(logs[d]) \in Nat /\ Len(txn[t].entries[d]) \in Nat /\ heads[d].seq \in Nat
      BY RowSeqs DEF AuditInv, TrailTypeOK, TxnRow
    <3>2. /\ Len(logs'[d]) = Len(logs[d]) + Len(txn[t].entries[d])
          /\ heads'[d].seq = heads[d].seq + Len(txn[t].entries[d])
          /\ \A i \in 1..Len(logs[d]) : logs'[d][i] = logs[d][i]
      BY CommitOfDay
    <3>3. PICK m, n, h : m = Len(logs[d]) /\ n = Len(txn[t].entries[d]) /\ h = heads[d].seq
      OBVIOUS
    <3>4. m \in Nat /\ n \in Nat /\ h \in Nat
      BY <3>1, <3>3
    <3>5. Len(logs'[d]) = m + n /\ heads'[d].seq = h + n
      BY <3>2, <3>3
    <3>6. /\ m + n \in Nat /\ h + n \in Nat /\ (h + n) - (m + n) = h - m
          /\ \A i \in 1..m : i \in 1..m + n
      BY <3>4
    <3> QED
      BY <3>1, <3>2, <3>3, <3>5, <3>6
  <2>2. \A d \in DaySet : Len(logs'[d]) <= heads'[d].seq
    BY <2>1 DEF AuditInv, DamageLeavesATrace
  <2>3. ASSUME damage > 0
        PROVE  \E d \in DaySet :
                  \/ Len(logs'[d]) < heads'[d].seq
                  \/ \E i \in 1..Len(logs'[d]) : logs'[d][i].what = "altered"
    <3>1. PICK d \in DaySet : \/ Len(logs[d]) < heads[d].seq
                              \/ \E i \in 1..Len(logs[d]) : logs[d][i].what = "altered"
      BY <2>3 DEF AuditInv, DamageLeavesATrace
    <3>2. CASE Len(logs[d]) < heads[d].seq
      BY <2>1, <3>2
    <3>3. CASE \E i \in 1..Len(logs[d]) : logs[d][i].what = "altered"
      <4>1. PICK i \in 1..Len(logs[d]) : logs[d][i].what = "altered"
        BY <3>3
      <4>2. i \in 1..Len(logs'[d]) /\ logs'[d][i].what = "altered"
        BY <2>1, <4>1
      <4> QED
        BY <4>2
    <3> QED
      BY <3>1, <3>2, <3>3
  <2> QED
    BY <1>4, <2>2, <2>3 DEF DamageLeavesATrace
<1>14. VerifyInv'
  <2> SUFFICES ASSUME damage = 0, verify.at = "chains", verify.todo # {}
               PROVE  ReadSoFar(First(verify.todo))'
    BY <1>4 DEF AuditInv, VerifyInv
  <2>1. PICK d : d = First(verify.todo)
    OBVIOUS
  <2>2. d \in DaySet
    <3>1. verify.todo \in SUBSET DaySet
      BY DEF AuditInv, TrailTypeOK
    <3> QED
      BY <2>1, <3>1, FirstIsOneOfThem
  <2>3. ReadSoFar(d)
    BY <2>1 DEF AuditInv, VerifyInv
  <2>4. /\ Len(logs[d]) \in Nat /\ Len(txn[t].entries[d]) \in Nat
        /\ Len(logs'[d]) = Len(logs[d]) + Len(txn[t].entries[d])
        /\ \A i \in 1..Len(logs[d]) : logs'[d][i] = logs[d][i]
    BY <2>2, CommitOfDay, RowSeqs DEF AuditInv, TrailTypeOK, TxnRow
  <2>5. ReadSoFar(d)'
    <3>1. PICK m, n, a : m = Len(logs[d]) /\ n = Len(txn[t].entries[d]) /\ a = verify.after
      OBVIOUS
    <3>2. m \in Nat /\ n \in Nat /\ a \in 0..m /\ verify'.after = a
      BY <1>4, <2>3, <2>4, <3>1 DEF ReadSoFar
    <3>3. a \in 0..m + n /\ (a # 0 => a \in 1..m)
      BY <3>2
    <3>4. verify'.after \in 0..Len(logs'[d])
      BY <2>4, <3>1, <3>2, <3>3
    <3>5. verify'.prev = IF a = 0 THEN Genesis(d) ELSE logs'[d][a].hash
      BY <1>4, <2>3, <2>4, <3>1, <3>3 DEF ReadSoFar
    <3> QED
      BY <3>2, <3>4, <3>5 DEF ReadSoFar, Genesis
  <2>6. First(verify'.todo) = d
    BY <1>4, <2>1
  <2> QED
    BY <2>5, <2>6 DEF ReadSoFar
<1> QED
  BY <1>6, <1>7, <1>8, <1>10, <1>12, <1>13, <1>14 DEF AuditInv

LEMMA MidnightKeeps ==
    ASSUME AuditInv, Midnight
    PROVE  AuditInv'
<1>1. /\ UNCHANGED <<txn, logs, heads, checkpoints, verify, damage>>
      /\ today < Len(Days) /\ today' = today + 1 /\ today \in Nat /\ today' \in 1..Len(Days)
  BY DaysInOrder DEF Midnight, chainVars, AuditInv, TrailTypeOK
<1>2. TrailTypeOK' /\ LocksSeparate' /\ ChainsAreLinked' /\ DamageLeavesATrace' /\ VerifyInv'
  BY <1>1 DEF AuditInv, TrailTypeOK, LocksSeparate, Conflicts, ChainsAreLinked, LinkedChain,
              LastRow, CheckpointHolds, DamageLeavesATrace, VerifyInv, ReadSoFar
<1>3. WrittenByNow'
  <2> SUFFICES ASSUME damage = 0, NEW d \in DaySet, NEW k \in 1..Len(logs[d])
               PROVE  logs[d][k].at <= today + 1
    BY <1>1 DEF WrittenByNow
  <2>1. logs[d][k].at <= today
    BY DEF AuditInv, WrittenByNow
  <2>2. logs[d][k].at \in Nat
    BY DEF AuditInv, TrailTypeOK, RowSeq, Row
  <2> QED
    BY <1>1, <2>1, <2>2
<1>4. EntriesContinue'
  <2> SUFFICES ASSUME NEW t \in Txns, NEW d \in DaySet, txn[t].entries[d] # <<>>
               PROVE  Pending(t, d)'
    BY <1>1 DEF EntriesContinue
  <2>1. Pending(t, d)
    BY DEF AuditInv, EntriesContinue
  <2>2. \A i \in 1..Len(txn[t].entries[d]) : txn[t].entries[d][i].at \in Nat
    BY DEF AuditInv, TrailTypeOK, TxnRow, RowSeq, Row
  <2>3. \A i \in 1..Len(txn[t].entries[d]) : txn[t].entries[d][i].at <= today + 1
    BY <1>1, <2>1, <2>2 DEF Pending
  <2> QED
    BY <1>1, <2>1, <2>3 DEF Pending, HoldsLock
<1> QED
  BY <1>2, <1>3, <1>4 DEF AuditInv

LEMMA ExceptRow ==
    ASSUME NEW s, RowSeq(s), NEW i \in 1..Len(s), NEW r, Row(r)
    PROVE  /\ RowSeq([s EXCEPT ![i] = r])
           /\ Len([s EXCEPT ![i] = r]) = Len(s)
           /\ [s EXCEPT ![i] = r][i] = r
<1> DEFINE S == Range(s) \cup {r}
<1>1. s \in Seq(S) /\ r \in S
  BY RowSeqs, SeqMonotonic
<1> HIDE DEF S
<1>2. /\ [s EXCEPT ![i] = r] \in Seq(S)
      /\ Len([s EXCEPT ![i] = r]) = Len(s)
      /\ \A j \in 1..Len(s) : [s EXCEPT ![i] = r][j] = IF j = i THEN r ELSE s[j]
  BY <1>1, ExceptSeq
<1>3. \A j \in 1..Len(s) : Row([s EXCEPT ![i] = r][j])
  BY <1>2, RowSeqs
<1> QED
  BY <1>2, <1>3, RowSeqOf

LEMMA DamageKeeps ==
    ASSUME AuditInv, Damage
    PROVE  AuditInv'
<1>1. UNCHANGED <<txn, heads, checkpoints, today, verify>> /\ damage' = damage + 1
      /\ damage' \in Nat /\ damage' # 0
  BY DEF Damage, AuditInv, TrailTypeOK
<1>2. PICK d \in DaySet : \E i \in DOMAIN logs[d] :
         \/ logs' = [logs EXCEPT ![d][i].what = "altered"]
         \/ logs' = [logs EXCEPT ![d] = RemoveAt(@, i)]
  BY DEF Damage
<1>3. PICK s : s = logs[d]
  OBVIOUS
<1>4. RowSeq(s) /\ Len(s) \in Nat /\ DOMAIN s = 1..Len(s) /\ Len(s) <= heads[d].seq
      /\ heads[d].seq \in Nat
  BY <1>3, RowSeqs DEF AuditInv, TrailTypeOK, DamageLeavesATrace
<1>5. PICK i \in 1..Len(s) :
         \/ logs' = [logs EXCEPT ![d] = [s EXCEPT ![i] = [s[i] EXCEPT !.what = "altered"]]]
         \/ logs' = [logs EXCEPT ![d] = RemoveAt(s, i)]
  <2>1. PICK i \in DOMAIN logs[d] :
           \/ logs' = [logs EXCEPT ![d] = [logs[d] EXCEPT ![i] = [logs[d][i] EXCEPT !.what = "altered"]]]
           \/ logs' = [logs EXCEPT ![d] = RemoveAt(logs[d], i)]
    BY <1>2, Zenon
  <2>2. i \in 1..Len(s)
    BY <1>3, <1>4
  <2>3. \/ logs' = [logs EXCEPT ![d] = [s EXCEPT ![i] = [s[i] EXCEPT !.what = "altered"]]]
        \/ logs' = [logs EXCEPT ![d] = RemoveAt(s, i)]
    BY <1>3, <2>1
  <2> QED
    BY <2>2, <2>3
<1>6. \E new : /\ logs' = [logs EXCEPT ![d] = new]
               /\ RowSeq(new) /\ Len(new) <= heads[d].seq
               /\ \/ Len(new) < heads[d].seq
                  \/ \E k \in 1..Len(new) : new[k].what = "altered"
  <2>1. CASE logs' = [logs EXCEPT ![d] = [s EXCEPT ![i] = [s[i] EXCEPT !.what = "altered"]]]
    <3>1. PICK r : r = [s[i] EXCEPT !.what = "altered"]
      OBVIOUS
    <3>2. Row(s[i])
      BY <1>4, RowSeqs
    <3>3. /\ r.seq = s[i].seq /\ r.prev = s[i].prev /\ r.what = "altered" /\ r.at = s[i].at
          /\ r.hash = s[i].hash
          /\ r = [seq |-> r.seq, prev |-> r.prev, what |-> r.what, at |-> r.at, hash |-> r.hash]
      BY <3>1, <3>2 DEF Row
    <3>4. Row(r)
      BY <3>2, <3>3 DEF Row
    <3>5. PICK new : new = [s EXCEPT ![i] = r]
      OBVIOUS
    <3>6. RowSeq(new) /\ Len(new) = Len(s) /\ new[i].what = "altered"
      BY <1>4, <3>3, <3>4, <3>5, ExceptRow
    <3>7. i \in 1..Len(new) /\ Len(new) <= heads[d].seq /\ logs' = [logs EXCEPT ![d] = new]
      BY <1>4, <2>1, <3>1, <3>5, <3>6
    <3> QED
      BY <3>6, <3>7
  <2>2. CASE logs' = [logs EXCEPT ![d] = RemoveAt(s, i)]
    <3>1. PICK new : new = RemoveAt(s, i)
      OBVIOUS
    <3>2. RowSeq(new) /\ Len(new) = Len(s) - 1
      BY <1>4, <3>1, RemoveRow
    <3>3. Len(new) <= heads[d].seq /\ Len(new) < heads[d].seq
      BY <1>4, <3>2
    <3> QED
      BY <2>2, <3>1, <3>2, <3>3
  <2> QED
    BY <1>5, <2>1, <2>2
<1>7. PICK new : /\ logs' = [logs EXCEPT ![d] = new]
                 /\ RowSeq(new) /\ Len(new) <= heads[d].seq
                 /\ \/ Len(new) < heads[d].seq
                    \/ \E k \in 1..Len(new) : new[k].what = "altered"
  BY <1>6
<1>8. /\ logs' = [c \in DaySet |-> logs'[c]]
      /\ logs'[d] = new
      /\ \A c \in DaySet \ {d} : logs'[c] = logs[c]
  BY <1>7 DEF AuditInv, TrailTypeOK
<1>9. TrailTypeOK'
  <2>1. \A c \in DaySet : RowSeq(logs'[c])
    BY <1>7, <1>8 DEF AuditInv, TrailTypeOK
  <2> QED
    BY <1>1, <1>8, <2>1 DEF AuditInv, TrailTypeOK
<1>10. LocksSeparate'
  BY <1>1 DEF AuditInv, LocksSeparate, Conflicts
<1>11. EntriesContinue'
  <2> SUFFICES ASSUME NEW t \in Txns, NEW c \in DaySet, txn[t].entries[c] # <<>>
               PROVE  Pending(t, c)'
    BY <1>1 DEF EntriesContinue
  <2>1. Pending(t, c)
    BY DEF AuditInv, EntriesContinue
  <2> QED
    BY <1>1, <2>1 DEF Pending, HoldsLock
<1>12. WrittenByNow' /\ ChainsAreLinked' /\ VerifyInv'
  BY <1>1 DEF WrittenByNow, ChainsAreLinked, VerifyInv
<1>13. DamageLeavesATrace'
  <2>1. \A c \in DaySet : Len(logs'[c]) <= heads'[c].seq
    BY <1>1, <1>7, <1>8 DEF AuditInv, DamageLeavesATrace
  <2>2. \/ Len(logs'[d]) < heads'[d].seq
        \/ \E k \in 1..Len(logs'[d]) : logs'[d][k].what = "altered"
    BY <1>1, <1>7, <1>8
  <2> QED
    BY <2>1, <2>2 DEF DamageLeavesATrace
<1> QED
  BY <1>9, <1>10, <1>11, <1>12, <1>13 DEF AuditInv

-----------------------------------------------------------------------------
(* Verification                                                              *)

\* A step of the verification reads, and may add checkpoints.
LEMMA VerificationStep ==
    ASSUME AuditInv, UNCHANGED <<txn, chainVars, today, damage>>,
           NEW v, verify' = v,
           v \in [at : {"idle", "chains", "heads", "done"}, todo : SUBSET DaySet,
                  after : {v.after}, prev : {v.prev}, heads : {v.heads},
                  ok : BOOLEAN, mismatch : BOOLEAN],
           damage = 0 => v.ok,
           damage = 0 /\ v.at = "chains" /\ v.todo # {} =>
              /\ v.after \in 0..Len(logs[First(v.todo)])
              /\ v.prev = IF v.after = 0 THEN Genesis(First(v.todo))
                          ELSE logs[First(v.todo)][v.after].hash,
           \A c \in checkpoints' : c.day \in DaySet /\ c.seq \in Nat,
           damage = 0 => \A c \in checkpoints' : CheckpointHolds(c)
    PROVE  AuditInv'
<1>1. UNCHANGED <<txn, logs, heads, today, damage>>
  BY DEF chainVars
<1>2. TrailTypeOK'
  BY <1>1 DEF AuditInv, TrailTypeOK
<1>3. LocksSeparate' /\ WrittenByNow' /\ DamageLeavesATrace'
  BY <1>1 DEF AuditInv, LocksSeparate, Conflicts, WrittenByNow, DamageLeavesATrace
<1>4. EntriesContinue'
  BY <1>1 DEF AuditInv, EntriesContinue, Pending, HoldsLock
<1>5. ChainsAreLinked'
  <2>1. ASSUME NEW c, CheckpointHolds(c)
        PROVE  CheckpointHolds(c)'
    BY <1>1, <2>1 DEF CheckpointHolds
  <2>2. ASSUME NEW d \in DaySet, LinkedChain(d)
        PROVE  LinkedChain(d)'
    BY <1>1, <2>2 DEF LinkedChain, LastRow
  <2> QED
    BY <1>1, <2>1, <2>2 DEF AuditInv, ChainsAreLinked
<1>6. VerifyInv'
  BY <1>1 DEF VerifyInv, ReadSoFar
<1> QED
  BY <1>2, <1>3, <1>4, <1>5, <1>6 DEF AuditInv

LEMMA CheckpointsUnchanged ==
    ASSUME AuditInv, UNCHANGED checkpoints
    PROVE  /\ \A c \in checkpoints' : c.day \in DaySet /\ c.seq \in Nat
           /\ damage = 0 => \A c \in checkpoints' : CheckpointHolds(c)
BY DEF AuditInv, TrailTypeOK, ChainsAreLinked

LEMMA VerifyFields ==
    ASSUME AuditInv
    PROVE  /\ verify = [at |-> verify.at, todo |-> verify.todo, after |-> verify.after,
                        prev |-> verify.prev, heads |-> verify.heads, ok |-> verify.ok,
                        mismatch |-> verify.mismatch]
           /\ verify.at \in {"idle", "chains", "heads", "done"}
           /\ verify.todo \subseteq DaySet
           /\ verify.ok \in BOOLEAN /\ verify.mismatch \in BOOLEAN
           /\ damage = 0 => verify.ok
BY DEF AuditInv, TrailTypeOK, VerifyInv

LEMMA LengthsAreNatural == ASSUME AuditInv, NEW d \in DaySet PROVE Len(logs[d]) \in Nat
BY RowSeqs DEF AuditInv, TrailTypeOK

LEMMA StartVerifyKeeps ==
    ASSUME AuditInv, StartVerify
    PROVE  AuditInv'
<1>1. PICK days : days = { d \in DaySet : logs[d] # <<>> }
  OBVIOUS
<1>2. PICK v : v = [FirstPageOf(days) EXCEPT !.at = "chains", !.ok = TRUE, !.mismatch = FALSE]
  OBVIOUS
<1>3. /\ v.at = "chains" /\ v.todo = days /\ v.after = 0
      /\ v.prev = IF days = {} THEN <<>> ELSE Genesis(First(days))
      /\ v.heads = verify.heads /\ v.ok = TRUE /\ v.mismatch = FALSE
      /\ v = [at |-> v.at, todo |-> v.todo, after |-> v.after, prev |-> v.prev,
              heads |-> v.heads, ok |-> v.ok, mismatch |-> v.mismatch]
  BY <1>2, VerifyFields DEF FirstPageOf
<1>4. days \subseteq DaySet
  BY <1>1
<1>5. v \in [at : {"idle", "chains", "heads", "done"}, todo : SUBSET DaySet,
             after : {v.after}, prev : {v.prev}, heads : {v.heads},
             ok : BOOLEAN, mismatch : BOOLEAN]
  BY <1>3, <1>4
<1>6. days # {} => 0 \in 0..Len(logs[First(days)])
  BY <1>4, FirstIsOneOfThem, LengthsAreNatural
<1>7. UNCHANGED <<txn, chainVars, today, damage>> /\ verify' = v /\ UNCHANGED checkpoints
  BY <1>1, <1>2 DEF StartVerify, SetVerify
<1> QED
  BY <1>3, <1>5, <1>6, <1>7, CheckpointsUnchanged, VerificationStep

\* The rows a page reads of an undamaged chain are the next ones of it.
LEMMA PageIsNext ==
    ASSUME AuditInv, damage = 0, NEW d \in DaySet, NEW after \in 0..Len(logs[d]), NEW prev,
           prev = IF after = 0 THEN Genesis(d) ELSE logs[d][after].hash
    PROVE  /\ PageHolds(Page(d, after), after, prev)
           /\ Len(Page(d, after)) \in Nat
           /\ ~(Len(Page(d, after)) < PageSize) =>
                 /\ Page(d, after) # <<>>
                 /\ Last(Page(d, after)).seq \in 1..Len(logs[d])
                 /\ Last(Page(d, after)).hash = logs[d][Last(Page(d, after)).seq].hash
<1>1. PICK s : s = logs[d]
  OBVIOUS
<1>2. RowSeq(s) /\ Len(s) \in Nat /\ DOMAIN s = 1..Len(s) /\ PageHolds(s, 0, Genesis(d))
      /\ after \in 0..Len(s) /\ after \in Nat
  BY <1>1, RowSeqs DEF AuditInv, TrailTypeOK, ChainsAreLinked, LinkedChain
<1>3. \A i \in 1..Len(s) : /\ s[i].seq = i
                           /\ s[i].prev = IF i = 1 THEN Genesis(d) ELSE s[i - 1].hash
                           /\ s[i].hash = EntryHash(s[i])
  BY <1>2 DEF PageHolds
<1>4. Cardinality({ i \in DOMAIN logs[d] : logs[d][i].seq <= after }) = after
  <2>1. { i \in DOMAIN logs[d] : logs[d][i].seq <= after } = 1..after
    BY <1>1, <1>2, <1>3
  <2>2. Cardinality(1..after) = after
    BY <1>2, FS_Interval
  <2> QED
    BY <2>1, <2>2
<1>5. PICK n : n = IF Len(s) - after < PageSize THEN Len(s) - after ELSE PageSize
  OBVIOUS
<1>6. n \in Nat /\ after + n <= Len(s) /\ (~(n < PageSize) => n = PageSize /\ n > 0)
  <2>1. PICK m, size : m = Len(s) /\ size = PageSize
    OBVIOUS
  <2>2. m \in Nat /\ after \in 0..m /\ size \in Nat /\ size # 0
    BY <1>2, <2>1, AuditBounds
  <2>3. n = IF m - after < size THEN m - after ELSE size
    BY <1>5, <2>1
  <2>4. n \in Nat /\ after + n <= m /\ (~(n < size) => n = size /\ n > 0)
    BY <2>2, <2>3
  <2> QED
    BY <2>1, <2>4
<1>7. Page(d, after) = SubSeq(s, after + 1, after + n)
  <2>1. Page(d, after) = SubSeq(logs[d], after + 1, after + (IF Len(logs[d]) - after < PageSize
                                                            THEN Len(logs[d]) - after ELSE PageSize))
    BY <1>4 DEF Page
  <2> QED
    BY <1>1, <1>5, <2>1
<1>8. PICK p : p = SubSeq(s, after + 1, after + n)
  OBVIOUS
<1>9. p \in Seq(Range(s)) /\ Len(p) = n /\ \A i \in 1..n : p[i] = s[after + i]
  <2>1. s \in Seq(Range(s))
    BY <1>2, RowSeqs
  <2>2. \A i \in after + 1..after + n : s[i] \in Range(s)
    <3> TAKE i \in after + 1..after + n
    <3>1. i \in 1..Len(s)
      BY <1>2, <1>6
    <3> QED
      BY <2>1, <3>1, ElementOfSeq
  <2>3. /\ p \in Seq(Range(s))
        /\ Len(p) = IF after + 1 <= after + n THEN (after + n) - (after + 1) + 1 ELSE 0
        /\ \A i \in 1..(after + n) - (after + 1) + 1 : p[i] = s[(after + 1) + i - 1]
    <3>1. after + 1 \in Int /\ after + n \in Int
      BY <1>2, <1>6
    <3>2. PICK m, k : m = after + 1 /\ k = after + n
      OBVIOUS
    <3>3. /\ SubSeq(s, m, k) \in Seq(Range(s))
          /\ Len(SubSeq(s, m, k)) = IF m <= k THEN k - m + 1 ELSE 0
          /\ \A i \in 1..k - m + 1 : SubSeq(s, m, k)[i] = s[m + i - 1]
      BY <2>2, <3>1, <3>2, SubSeqProperties
    <3> QED
      BY <1>8, <3>2, <3>3
  <2>4. (after + n) - (after + 1) + 1 = n /\ \A i \in 1..n : (after + 1) + i - 1 = after + i
    BY <1>2, <1>6
  <2> QED
    BY <1>2, <1>6, <2>3, <2>4
<1>10. DOMAIN p = 1..n
  BY <1>9, LenProperties
<1>11. PageHolds(p, after, prev)
  <2> SUFFICES ASSUME NEW i \in 1..n
               PROVE  /\ p[i].seq = after + i
                      /\ p[i].prev = IF i = 1 THEN prev ELSE p[i - 1].hash
                      /\ p[i].hash = EntryHash(p[i])
    BY <1>10 DEF PageHolds
  <2>1. p[i] = s[after + i] /\ after + i \in 1..Len(s)
    BY <1>2, <1>6, <1>9
  <2>2. CASE i = 1
    <3>1. after + i = 1 <=> after = 0
      BY <1>2, <2>2
    <3>2. (after + i) - 1 = after
      BY <1>2, <2>2
    <3> QED
      BY <1>1, <1>3, <2>1, <2>2, <3>1, <3>2
  <2>3. CASE i # 1
    <3>1. i - 1 \in 1..n /\ after + (i - 1) = (after + i) - 1 /\ after + i # 1
      BY <1>2, <1>6, <2>3
    <3>2. p[i - 1] = s[(after + i) - 1]
      BY <1>9, <3>1
    <3> QED
      BY <1>3, <2>1, <2>3, <3>1, <3>2
  <2> QED
    BY <2>2, <2>3
<1>12. ~(n < PageSize) =>
          /\ p # <<>>
          /\ Last(p).seq \in 1..Len(s)
          /\ Last(p).hash = s[Last(p).seq].hash
  <2> HAVE ~(n < PageSize)
  <2>1. n \in 1..n /\ after + n \in 1..Len(s)
    BY <1>2, <1>6
  <2>2. p # <<>>
    BY <1>6, <1>9, EmptySeq
  <2>3. Last(p) = s[after + n]
    BY <1>9, <2>1 DEF Last
  <2> QED
    BY <1>3, <2>1, <2>2, <2>3
<1> QED
  BY <1>1, <1>6, <1>7, <1>8, <1>9, <1>11, <1>12

LEMMA VerifyPageKeeps ==
    ASSUME AuditInv, VerifyPage
    PROVE  AuditInv'
<1>1. PICK d : d = First(verify.todo)
  OBVIOUS
<1>2. d \in verify.todo /\ d \in DaySet /\ verify.todo \subseteq DaySet
  BY <1>1, VerifyFields, FirstIsOneOfThem DEF VerifyPage
<1>3. PICK others : others = verify.todo \ {d}
  OBVIOUS
<1>4. PICK page : page = Page(d, verify.after)
  OBVIOUS
<1>5. PICK first : first = FirstPageOf(others)
  OBVIOUS
<1>6. /\ first = [at |-> verify.at, todo |-> others, after |-> 0,
                  prev |-> IF others = {} THEN <<>> ELSE Genesis(First(others)),
                  heads |-> verify.heads, ok |-> verify.ok, mismatch |-> verify.mismatch]
  BY <1>5, VerifyFields DEF FirstPageOf
<1>7. others \subseteq DaySet /\ (others # {} => 0 \in 0..Len(logs[First(others)]))
  BY <1>2, <1>3, FirstIsOneOfThem, LengthsAreNatural
<1>8. UNCHANGED <<txn, chainVars, today, damage>> /\ UNCHANGED checkpoints
  BY DEF VerifyPage, SetVerify
<1>9. verify' = IF ~PageHolds(page, verify.after, verify.prev) THEN [first EXCEPT !.ok = FALSE]
                ELSE IF Len(page) < PageSize THEN first
                ELSE [verify EXCEPT !.after = Last(page).seq, !.prev = Last(page).hash]
  BY <1>1, <1>3, <1>4, <1>5 DEF VerifyPage, SetVerify
<1>10. damage = 0 =>
          /\ PageHolds(page, verify.after, verify.prev)
          /\ ~(Len(page) < PageSize) =>
                /\ Last(page).seq \in 1..Len(logs[d])
                /\ Last(page).hash = logs[d][Last(page).seq].hash
  <2> HAVE damage = 0
  <2>1. ReadSoFar(d)
    BY <1>1 DEF VerifyPage, AuditInv, VerifyInv
  <2> QED
    BY <1>2, <1>4, <2>1, PageIsNext DEF ReadSoFar
<1>11. CASE ~PageHolds(page, verify.after, verify.prev)
  <2>1. PICK v : v = [first EXCEPT !.ok = FALSE]
    OBVIOUS
  <2>2. /\ v.at = verify.at /\ v.ok = FALSE /\ v.todo = others /\ v.mismatch = verify.mismatch
        /\ v = [at |-> v.at, todo |-> v.todo, after |-> v.after, prev |-> v.prev,
                heads |-> v.heads, ok |-> v.ok, mismatch |-> v.mismatch]
    BY <1>6, <2>1
  <2>3. v \in [at : {"idle", "chains", "heads", "done"}, todo : SUBSET DaySet,
               after : {v.after}, prev : {v.prev}, heads : {v.heads},
               ok : BOOLEAN, mismatch : BOOLEAN]
    <3>1. v.at \in {"idle", "chains", "heads", "done"} /\ v.todo \in SUBSET DaySet
      BY <1>7, <2>2, VerifyFields
    <3>2. v.ok \in BOOLEAN /\ v.mismatch \in BOOLEAN
      BY <2>2, VerifyFields
    <3> QED
      BY <2>2, <3>1, <3>2
  <2>4. verify' = v /\ damage # 0
    BY <1>9, <1>10, <1>11, <2>1
  <2> QED
    BY <1>8, <2>3, <2>4, CheckpointsUnchanged, VerificationStep
<1>12. CASE PageHolds(page, verify.after, verify.prev) /\ Len(page) < PageSize
  <2>1. /\ first.at = verify.at /\ first.ok = verify.ok /\ first.todo = others /\ first.after = 0
        /\ first.prev = IF others = {} THEN <<>> ELSE Genesis(First(others))
    BY <1>6
  <2>2. first \in [at : {"idle", "chains", "heads", "done"}, todo : SUBSET DaySet,
                   after : {first.after}, prev : {first.prev}, heads : {first.heads},
                   ok : BOOLEAN, mismatch : BOOLEAN]
    BY <1>6, <1>7, VerifyFields
  <2>3. verify' = first
    BY <1>9, <1>12
  <2>4. damage = 0 /\ first.at = "chains" /\ first.todo # {} =>
              /\ first.after \in 0..Len(logs[First(first.todo)])
              /\ first.prev = IF first.after = 0 THEN Genesis(First(first.todo))
                              ELSE logs[First(first.todo)][first.after].hash
    BY <1>7, <2>1
  <2>5. damage = 0 => first.ok
    BY <2>1, VerifyFields
  <2> QED
    BY <1>8, <2>2, <2>3, <2>4, <2>5, CheckpointsUnchanged, VerificationStep
<1>13. CASE PageHolds(page, verify.after, verify.prev) /\ ~(Len(page) < PageSize)
  <2>1. PICK v : v = [verify EXCEPT !.after = Last(page).seq, !.prev = Last(page).hash]
    OBVIOUS
  <2>2. /\ v.ok = verify.ok /\ v.todo = verify.todo
        /\ v.after = Last(page).seq /\ v.prev = Last(page).hash
        /\ v = [at |-> verify.at, todo |-> verify.todo, after |-> v.after, prev |-> v.prev,
                heads |-> verify.heads, ok |-> verify.ok, mismatch |-> verify.mismatch]
    BY <2>1, VerifyFields
  <2>3. v \in [at : {"idle", "chains", "heads", "done"}, todo : SUBSET DaySet,
               after : {v.after}, prev : {v.prev}, heads : {v.heads},
               ok : BOOLEAN, mismatch : BOOLEAN]
    BY <2>2, VerifyFields
  <2>4. verify' = v
    BY <1>9, <1>13, <2>1
  <2>5. damage = 0 /\ v.at = "chains" /\ v.todo # {} =>
              /\ v.after \in 0..Len(logs[First(v.todo)])
              /\ v.prev = IF v.after = 0 THEN Genesis(First(v.todo))
                          ELSE logs[First(v.todo)][v.after].hash
    <3> HAVE damage = 0 /\ v.at = "chains" /\ v.todo # {}
    <3>1. First(v.todo) = d
      BY <1>1, <2>2
    <3>2. v.after \in 1..Len(logs[d]) /\ v.prev = logs[d][v.after].hash
      BY <1>10, <1>13, <2>2
    <3>3. v.after \in 0..Len(logs[d]) /\ v.after # 0
      BY <1>2, <3>2, LengthsAreNatural
    <3> QED
      BY <3>1, <3>2, <3>3
  <2>6. damage = 0 => v.ok
    BY <2>2, VerifyFields
  <2> QED
    BY <1>8, <2>3, <2>4, <2>5, <2>6, CheckpointsUnchanged, VerificationStep
<1> QED
  BY <1>11, <1>12, <1>13

LEMMA ReadHeadsKeeps ==
    ASSUME AuditInv, ReadHeads
    PROVE  AuditInv'
<1>1. PICK v : v = [verify EXCEPT !.at = "heads", !.heads = heads, !.todo = DaySet]
  OBVIOUS
<1>2. /\ v.at = "heads" /\ v.ok = verify.ok
      /\ v = [at |-> "heads", todo |-> DaySet, after |-> v.after, prev |-> v.prev,
              heads |-> v.heads, ok |-> verify.ok, mismatch |-> verify.mismatch]
  BY <1>1, VerifyFields
<1>3. v \in [at : {"idle", "chains", "heads", "done"}, todo : SUBSET DaySet,
             after : {v.after}, prev : {v.prev}, heads : {v.heads},
             ok : BOOLEAN, mismatch : BOOLEAN]
  BY <1>2, VerifyFields
<1>4. UNCHANGED <<txn, chainVars, today, damage>> /\ UNCHANGED checkpoints /\ verify' = v
  BY <1>1 DEF ReadHeads, SetVerify
<1> QED
  BY <1>2, <1>3, <1>4, VerifyFields, CheckpointsUnchanged, VerificationStep

LEMMA CompareHeadKeeps ==
    ASSUME AuditInv, CompareHead
    PROVE  AuditInv'
<1>1. PICK d : d = First(verify.todo)
  OBVIOUS
<1>2. PICK mismatch \in BOOLEAN : mismatch = (verify.mismatch \/ verify.heads[d] # LastRow(d))
  OBVIOUS
<1>3. PICK v : v = [verify EXCEPT !.todo = verify.todo \ {d}, !.mismatch = mismatch]
  OBVIOUS
<1>4. /\ v.at = verify.at /\ v.ok = verify.ok
      /\ v = [at |-> verify.at, todo |-> verify.todo \ {d}, after |-> v.after, prev |-> v.prev,
              heads |-> v.heads, ok |-> verify.ok, mismatch |-> mismatch]
  BY <1>3, VerifyFields
<1>5. v \in [at : {"idle", "chains", "heads", "done"}, todo : SUBSET DaySet,
             after : {v.after}, prev : {v.prev}, heads : {v.heads},
             ok : BOOLEAN, mismatch : BOOLEAN]
  BY <1>4, VerifyFields
<1>6. UNCHANGED <<txn, chainVars, today, damage>> /\ UNCHANGED checkpoints /\ verify.at = "heads"
  BY DEF CompareHead, SetVerify
<1>7. verify' = v
  BY <1>1, <1>2, <1>3 DEF CompareHead, SetVerify
<1>8. v.at # "chains"
  BY <1>4, <1>6
<1> QED
  BY <1>4, <1>5, <1>6, <1>7, <1>8, VerifyFields, CheckpointsUnchanged, VerificationStep

LEMMA FinishVerifyKeeps ==
    ASSUME AuditInv, FinishVerify
    PROVE  AuditInv'
<1>1. PICK v : v = [verify EXCEPT !.at = "done", !.heads = <<>>]
  OBVIOUS
<1>2. /\ v.at = "done" /\ v.ok = verify.ok
      /\ v = [at |-> "done", todo |-> verify.todo, after |-> v.after, prev |-> v.prev,
              heads |-> v.heads, ok |-> verify.ok, mismatch |-> verify.mismatch]
  BY <1>1, VerifyFields
<1>3. v \in [at : {"idle", "chains", "heads", "done"}, todo : SUBSET DaySet,
             after : {v.after}, prev : {v.prev}, heads : {v.heads},
             ok : BOOLEAN, mismatch : BOOLEAN]
  BY <1>2, VerifyFields
<1>4. UNCHANGED <<txn, chainVars, today, damage>> /\ verify' = v
  BY <1>1 DEF FinishVerify, SetVerify
<1>5. ASSUME NEW c \in checkpoints'
      PROVE  \/ c \in checkpoints
             \/ \E d \in DaySet : c = [day |-> d, seq |-> heads[d].seq, hash |-> heads[d].hash]
  BY DEF FinishVerify
<1>6. ASSUME NEW c \in checkpoints'
      PROVE  /\ c.day \in DaySet /\ c.seq \in Nat
             /\ damage = 0 => CheckpointHolds(c)
  <2>1. CASE c \in checkpoints
    BY <2>1 DEF AuditInv, TrailTypeOK, ChainsAreLinked
  <2>2. CASE \E d \in DaySet : c = [day |-> d, seq |-> heads[d].seq, hash |-> heads[d].hash]
    <3>1. PICK d \in DaySet : c.day = d /\ c.seq = heads[d].seq /\ c.hash = heads[d].hash
      BY <2>2
    <3>2. heads[d].seq \in Nat /\ RowSeq(logs[d])
      BY DEF AuditInv, TrailTypeOK
    <3>3. damage = 0 => CheckpointHolds(c)
      <4> HAVE damage = 0
      <4>1. heads[d].seq = Len(logs[d]) /\ heads[d].hash = LastHash(logs[d], Genesis(d))
        BY <3>2, HeadIsLength DEF AuditInv, ChainsAreLinked, LinkedChain
      <4>2. CASE logs[d] = <<>>
        BY <3>1, <4>1, <4>2, NoRows DEF CheckpointHolds, LastHash
      <4>3. CASE logs[d] # <<>>
        <5>1. Len(logs[d]) \in DOMAIN logs[d] /\ Len(logs[d]) # 0 /\ Last(logs[d]) = logs[d][Len(logs[d])]
          BY <3>2, <4>3, RowSeqs
        <5> QED
          BY <3>1, <4>1, <4>3, <5>1 DEF CheckpointHolds, LastHash
      <4> QED
        BY <4>2, <4>3
    <3> QED
      BY <3>1, <3>2, <3>3
  <2> QED
    BY <1>5, <2>1, <2>2
<1> QED
  BY <1>2, <1>3, <1>4, <1>6, VerifyFields, VerificationStep

-----------------------------------------------------------------------------
(* The theorems                                                              *)

LEMMA AuditInitInv == AuditInit => AuditInv
<1> SUFFICES ASSUME AuditInit PROVE AuditInv
  OBVIOUS
<1>1. PICK none : none = NoTxn
  OBVIOUS
<1>2. TxnRow(none) /\ none.held = {} /\ \A d \in DaySet : none.entries[d] = <<>>
  BY <1>1, NoTxnRow
<1>3. /\ txn = [t \in Txns |-> none] /\ logs = [d \in DaySet |-> <<>>]
      /\ heads = [d \in DaySet |-> EmptyHead(d)] /\ checkpoints = {} /\ today = 1
      /\ verify = NotVerifying /\ damage = 0
  BY <1>1 DEF AuditInit
<1>4. \A d \in DaySet : /\ logs[d] = <<>> /\ RowSeq(logs[d]) /\ Len(logs[d]) = 0
                        /\ DOMAIN logs[d] = {}
                        /\ heads[d] = EmptyHead(d) /\ heads[d].seq = 0
                        /\ heads[d] \in [seq : Nat, hash : {heads[d].hash}]
  BY <1>3, NoRows, RowSeqs DEF EmptyHead
<1>5. 1 \in 1..Len(Days)
  BY DaysInOrder, AuditBounds, EmptySeq
<1>6. verify \in [at : {"idle", "chains", "heads", "done"}, todo : SUBSET DaySet,
                  after : {verify.after}, prev : {verify.prev}, heads : {verify.heads},
                  ok : BOOLEAN, mismatch : BOOLEAN] /\ verify.ok /\ verify.at = "idle"
  BY <1>3 DEF NotVerifying
<1>7. TrailTypeOK
  BY <1>2, <1>3, <1>4, <1>5, <1>6 DEF TrailTypeOK
<1>8. LocksSeparate /\ EntriesContinue
  BY <1>2, <1>3 DEF LocksSeparate, EntriesContinue
<1>9. WrittenByNow /\ DamageLeavesATrace /\ VerifyInv
  BY <1>3, <1>4, <1>6 DEF WrittenByNow, DamageLeavesATrace, VerifyInv
<1>10. ChainsAreLinked
  BY <1>3, <1>4 DEF ChainsAreLinked, LinkedChain, LastRow, PageHolds
<1> QED
  BY <1>7, <1>8, <1>9, <1>10 DEF AuditInv

LEMMA AuditNextInv == AuditInv /\ [AuditNext]_auditVars => AuditInv'
<1> SUFFICES ASSUME AuditInv, [AuditNext]_auditVars PROVE AuditInv'
  OBVIOUS
<1>1. CASE \E t \in Txns : BeginTxn(t) \/ TxnStep(t) \/ Abandon(t) \/ ResolveDeadlock(t)
  BY <1>1, BeginKeeps, ChooseKeeps, TakeLockKeeps, AppendKeeps, CommitKeeps, AbandonKeeps
     DEF TxnStep
<1>2. CASE StartVerify \/ VerifyStep
  BY <1>2, StartVerifyKeeps, VerifyPageKeeps, ReadHeadsKeeps, CompareHeadKeeps, FinishVerifyKeeps
     DEF VerifyStep
<1>3. CASE Midnight \/ Damage
  BY <1>3, MidnightKeeps, DamageKeeps
<1>4. CASE UNCHANGED auditVars
  <2>1. UNCHANGED <<txn, logs, heads, checkpoints, today, verify, damage>>
    BY <1>4 DEF auditVars
  <2> QED
    <3>1. (TrailTypeOK /\ LocksSeparate /\ EntriesContinue /\ WrittenByNow)'
      BY <2>1 DEF AuditInv, TrailTypeOK, LocksSeparate, Conflicts, EntriesContinue, Pending,
                  HoldsLock, WrittenByNow
    <3>2. (ChainsAreLinked /\ DamageLeavesATrace /\ VerifyInv)'
      BY <2>1 DEF AuditInv, ChainsAreLinked, LinkedChain, LastRow, CheckpointHolds,
                  DamageLeavesATrace, VerifyInv, ReadSoFar
    <3> QED
      BY <3>1, <3>2 DEF AuditInv
<1> QED
  BY <1>1, <1>2, <1>3, <1>4 DEF AuditNext

LEMMA AuditInvariant == AuditSpec => []AuditInv
<1> QED
  BY AuditInitInv, AuditNextInv, PTL DEF AuditSpec

(* However transactions interleave, roll back or are ended in a deadlock, at *)
(* midnight or not, every chain is numbered without a gap and linked in the  *)
(* order of time, its head is its last row, and every checkpoint names a row *)
(* of it (appendAuditLog, audit-checkpoint.ts).                              *)
THEOREM ChainsStayLinked == AuditSpec => []ChainsAreLinked
<1>1. AuditInv => ChainsAreLinked
  BY DEF AuditInv
<1> QED
  BY <1>1, AuditInvariant, PTL

(* verifyChain, page by page and not in one snapshot, never finds a broken   *)
(* link in a chain nobody has damaged, whatever is appended meanwhile.       *)
THEOREM PagesStaySilent == AuditSpec => []PagesNeverAlarm
<1>1. AuditInv => PagesNeverAlarm
  BY DEF AuditInv, VerifyInv, PagesNeverAlarm
<1> QED
  BY <1>1, AuditInvariant, PTL

(* Once a row has been altered or lost behind the program, however often, no *)
(* append makes a whole chain of what is left: a chain fails its check or    *)
(* disagrees with its head.                                                  *)
THEOREM DamageIsSeen == AuditSpec => []DamageStaysVisible
<1>1. ASSUME AuditInv, damage > 0
      PROVE  \E d \in DaySet : heads[d] # LastRow(d) \/ ~PageHolds(logs[d], 0, Genesis(d))
  <2>1. PICK d \in DaySet : \/ Len(logs[d]) < heads[d].seq
                            \/ \E i \in 1..Len(logs[d]) : logs[d][i].what = "altered"
    BY <1>1 DEF AuditInv, DamageLeavesATrace
  <2>2. RowSeq(logs[d]) /\ Len(logs[d]) \in Nat /\ DOMAIN logs[d] = 1..Len(logs[d])
        /\ heads[d].seq \in Nat
    BY <1>1, RowSeqs DEF AuditInv, TrailTypeOK
  <2>3. CASE Len(logs[d]) < heads[d].seq
    <3> SUFFICES ASSUME heads[d] = LastRow(d), PageHolds(logs[d], 0, Genesis(d))
                 PROVE  FALSE
      OBVIOUS
    <3> QED
      BY <2>2, <2>3, HeadIsLength
  <2>4. CASE \E i \in 1..Len(logs[d]) : logs[d][i].what = "altered"
    <3>1. PICK i \in 1..Len(logs[d]) : logs[d][i].what = "altered"
      BY <2>4
    <3>2. logs[d][i].hash[3] # "altered"
      BY <2>2, RowSeqs DEF Row
    <3>3. EntryHash(logs[d][i])[3] = "altered"
      BY <3>1 DEF EntryHash
    <3>4. logs[d][i].hash # EntryHash(logs[d][i])
      BY <3>2, <3>3
    <3> QED
      BY <2>2, <3>4 DEF PageHolds
  <2> QED
    BY <2>1, <2>3, <2>4
<1>2. AuditInv => DamageStaysVisible
  BY <1>1 DEF DamageStaysVisible
<1> QED
  BY <1>2, AuditInvariant, PTL
=============================================================================
