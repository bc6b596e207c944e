------------------------ MODULE AdministrationProofs ------------------------
(* Registration, the registry, the risk policy and the templates keep their  *)
(* promises for every number of phones, plates, matrices, requests, rows and *)
(* versions: the bounds of the model are only read as guards.                *)
EXTENDS Registration, Registry, RiskPolicy, Templates, FiniteSetTheorems, SequenceTheorems,
        WellFoundedInduction, TLAPS

-----------------------------------------------------------------------------
(* Registration                                                              *)

Accounts == [phone: Phones, branch: ServiceBranches]

Requests == [phone: Phones, branch: ServiceBranches,
             status: {"PENDING", "APPROVED", "REJECTED"}, account: Nat]

CallRecords == {NoCall} \cup
    [kind: {"register", "create"}, phone: Phones, branch: ServiceBranches]

RegistrationTypes ==
    /\ accounts \in Seq(Accounts)
    /\ registrations \in Seq(Requests)
    /\ openBranches \subseteq ServiceBranches
    /\ calls \in [Calls -> CallRecords]

PhonesAreUnique ==
    \A u, v \in DOMAIN accounts : accounts[u].phone = accounts[v].phone => u = v

\* The account of a request that was not approved is 0, which is no account.
ApprovalsNameAccounts ==
    \A r \in DOMAIN registrations :
        /\ registrations[r].status = "APPROVED" => registrations[r].account \in DOMAIN accounts
        /\ registrations[r].status # "APPROVED" => registrations[r].account = 0

ApprovalsAreApart ==
    \A r, s \in DOMAIN registrations :
        r # s /\ registrations[r].account # 0
            => registrations[r].account # registrations[s].account

RegistrationInv ==
    RegistrationTypes /\ PhonesAreUnique /\ ApprovalsNameAccounts /\ ApprovalsAreApart

\* A new account under a free phone keeps every account and its number.
LEMMA NewAccountIsApart ==
    ASSUME RegistrationInv, NEW phone \in Phones, NEW branch \in ServiceBranches,
           PhoneFree(phone), accounts' = NewAccount(phone, branch)
    PROVE  /\ accounts' \in Seq(Accounts)
           /\ PhonesAreUnique'
           /\ DOMAIN accounts = 1..Len(accounts)
           /\ DOMAIN accounts' = 1..(Len(accounts) + 1)
           /\ Len(accounts) \in Nat
<1> DEFINE row == [phone |-> phone, branch |-> branch]
<1>1. row \in Accounts /\ accounts \in Seq(Accounts)
  BY DEF RegistrationInv, RegistrationTypes, Accounts
<1>2. accounts' = Append(accounts, row)
  BY DEF NewAccount
<1>3. /\ accounts' \in Seq(Accounts)
      /\ Len(accounts') = Len(accounts) + 1
      /\ \A u \in 1..Len(accounts) : accounts'[u] = accounts[u]
      /\ accounts'[Len(accounts) + 1] = row
  BY <1>1, <1>2, AppendProperties
<1>4. /\ Len(accounts) \in Nat
      /\ DOMAIN accounts = 1..Len(accounts)
      /\ DOMAIN accounts' = 1..(Len(accounts) + 1)
  BY <1>1, <1>3, LenProperties
<1>5. PhonesAreUnique'
  BY <1>3, <1>4, row.phone = phone DEF RegistrationInv, PhonesAreUnique, PhoneFree
<1> QED
  BY <1>3, <1>4, <1>5

\* A call that ends leaves the others as they are.
LEMMA EndCallTyped ==
    ASSUME RegistrationInv, NEW c \in Calls, EndCall(c)
    PROVE  calls' \in [Calls -> CallRecords]
BY DEF EndCall, RegistrationInv, RegistrationTypes, CallRecords

\* Growing the accounts leaves what the requests say true.
LEMMA AccountsMayGrow ==
    ASSUME RegistrationInv, NEW n \in Nat, DOMAIN accounts = 1..Len(accounts),
           Len(accounts) \in Nat, DOMAIN accounts' = 1..(Len(accounts) + 1),
           UNCHANGED registrations
    PROVE  ApprovalsNameAccounts' /\ ApprovalsAreApart'
BY DEF RegistrationInv, ApprovalsNameAccounts, ApprovalsAreApart

LEMMA RegistrationInvStep ==
    ASSUME RegistrationInv, [RegistrationNext]_registrationVars
    PROVE  RegistrationInv'
<1> USE DEF RegistrationInv
<1>1. ASSUME NEW c \in Calls, NEW phone \in Phones, NEW b \in ServiceBranches,
             CheckRequest(c, phone, b) \/ CheckUser(c, phone, b)
      PROVE  RegistrationInv'
  <2>1. calls' \in [Calls -> CallRecords]
    BY <1>1 DEF CheckRequest, CheckUser, RegistrationTypes, CallRecords
  <2> QED
    BY <1>1, <2>1 DEF CheckRequest, CheckUser, RegistrationTypes, PhonesAreUnique,
                      ApprovalsNameAccounts, ApprovalsAreApart
<1>2. ASSUME NEW c \in Calls, CreateRegistrationRequest(c)
      PROVE  RegistrationInv'
  <2> DEFINE row == [phone |-> calls[c].phone, branch |-> calls[c].branch,
                     status |-> "PENDING", account |-> 0]
  <2>1. calls[c] \in CallRecords /\ calls[c] # NoCall
    BY <1>2 DEF CreateRegistrationRequest, RegistrationTypes, NoCall
  <2>2. row \in Requests /\ registrations \in Seq(Requests)
    BY <2>1 DEF RegistrationTypes, CallRecords, Requests
  <2>3. registrations' = Append(registrations, row)
    BY <1>2 DEF CreateRegistrationRequest
  <2> HIDE DEF row
  <2>4. /\ registrations' \in Seq(Requests)
        /\ Len(registrations') = Len(registrations) + 1
        /\ \A r \in 1..Len(registrations) : registrations'[r] = registrations[r]
        /\ registrations'[Len(registrations) + 1] = row
    BY <2>2, <2>3, AppendProperties
  <2>5. /\ Len(registrations) \in Nat
        /\ DOMAIN registrations = 1..Len(registrations)
        /\ DOMAIN registrations' = 1..(Len(registrations) + 1)
    BY <2>2, <2>4, LenProperties
  <2>6. UNCHANGED <<accounts, openBranches>> /\ EndCall(c)
    BY <1>2 DEF CreateRegistrationRequest
  <2>7. row.status = "PENDING" /\ row.account = 0
    BY DEF row
  <2>8. ApprovalsNameAccounts'
    BY <2>4, <2>5, <2>6, <2>7 DEF ApprovalsNameAccounts
  <2>9. ApprovalsAreApart'
    BY <2>4, <2>5, <2>7 DEF ApprovalsAreApart
  <2> QED
    BY <2>4, <2>6, <2>8, <2>9, EndCallTyped DEF RegistrationTypes, PhonesAreUnique
<1>3. ASSUME NEW c \in Calls, CreateUser(c)
      PROVE  RegistrationInv'
  <2>1. calls[c] \in CallRecords /\ calls[c] # NoCall
    BY <1>3 DEF CreateUser, RegistrationTypes, NoCall
  <2>2. calls[c].phone \in Phones /\ calls[c].branch \in ServiceBranches
    BY <2>1 DEF CallRecords
  <2>3. calls' \in [Calls -> CallRecords] /\ UNCHANGED <<registrations, openBranches>>
    BY <1>3, EndCallTyped DEF CreateUser
  <2>4. CASE PhoneFree(calls[c].phone)
    <3>1. accounts' = NewAccount(calls[c].phone, calls[c].branch)
      BY <1>3, <2>4 DEF CreateUser
    <3> QED
      BY <2>2, <2>3, <2>4, <3>1, NewAccountIsApart, AccountsMayGrow DEF RegistrationTypes
  <2>5. CASE ~PhoneFree(calls[c].phone)
    <3>1. accounts' = accounts
      BY <1>3, <2>5 DEF CreateUser
    <3> QED
      BY <2>3, <3>1 DEF RegistrationTypes, PhonesAreUnique, ApprovalsNameAccounts,
                        ApprovalsAreApart
  <2> QED
    BY <2>4, <2>5
<1>4. ASSUME NEW r \in DOMAIN registrations, ApproveRequest(r)
      PROVE  RegistrationInv'
  <2> DEFINE request == registrations[r]
             id == Len(accounts) + 1
             row == [request EXCEPT !.status = "APPROVED", !.account = id]
  <2>1. request \in Requests /\ registrations \in Seq(Requests)
    BY ElementOfSeq, LenProperties DEF RegistrationTypes
  <2>2. /\ accounts' = NewAccount(request.phone, request.branch)
        /\ PhoneFree(request.phone)
        /\ registrations' = [registrations EXCEPT ![r] = row]
        /\ UNCHANGED <<openBranches, calls>>
    BY <1>4 DEF ApproveRequest
  <2>3. /\ accounts' \in Seq(Accounts)
        /\ PhonesAreUnique'
        /\ DOMAIN accounts = 1..Len(accounts)
        /\ DOMAIN accounts' = 1..(Len(accounts) + 1)
        /\ Len(accounts) \in Nat
    BY <2>1, <2>2, NewAccountIsApart DEF Requests
  <2>4. row \in Requests /\ row.status = "APPROVED" /\ row.account = id
    <3> DEFINE mid == [request EXCEPT !.status = "APPROVED"]
    <3>1. mid \in Requests /\ mid.status = "APPROVED"
      BY <2>1 DEF Requests
    <3>2. row = [mid EXCEPT !.account = id]
      BY Zenon
    <3>3. id \in Nat
      BY <2>3
    <3> HIDE DEF mid, id
    <3> QED
      BY <3>1, <3>2, <3>3 DEF Requests
  <2>5. registrations' \in Seq(Requests) /\ DOMAIN registrations' = DOMAIN registrations
    BY <2>1, <2>2, <2>4, ExceptSeq, LenProperties
  <2>6. \A s \in DOMAIN registrations :
            registrations'[s] = IF s = r THEN row ELSE registrations[s]
    BY <2>2
  <2> HIDE DEF row
  <2>7. ApprovalsNameAccounts'
    BY <2>3, <2>4, <2>5, <2>6 DEF ApprovalsNameAccounts
  <2>8. \A s \in DOMAIN registrations : registrations[s].account # id
    BY <2>3 DEF ApprovalsNameAccounts
  <2>9. ApprovalsAreApart'
    BY <2>4, <2>5, <2>6, <2>8 DEF ApprovalsAreApart
  <2> QED
    BY <2>2, <2>3, <2>5, <2>7, <2>9 DEF RegistrationTypes
<1>5. ASSUME NEW r \in DOMAIN registrations, RejectRequest(r)
      PROVE  RegistrationInv'
  <2> DEFINE row == [registrations[r] EXCEPT !.status = "REJECTED"]
  <2>1. registrations[r] \in Requests /\ registrations \in Seq(Requests)
    BY ElementOfSeq, LenProperties DEF RegistrationTypes
  <2>2. /\ registrations' = [registrations EXCEPT ![r] = row]
        /\ registrations[r].status = "PENDING"
        /\ UNCHANGED <<accounts, openBranches, calls>>
    BY <1>5 DEF RejectRequest
  <2>3. /\ row \in Requests /\ row.status = "REJECTED"
        /\ row.account = registrations[r].account
    BY <2>1 DEF Requests
  <2>4. registrations' \in Seq(Requests) /\ DOMAIN registrations' = DOMAIN registrations
    BY <2>1, <2>2, <2>3, ExceptSeq, LenProperties
  <2>5. \A s \in DOMAIN registrations :
            registrations'[s] = IF s = r THEN row ELSE registrations[s]
    BY <2>2
  <2> HIDE DEF row
  <2>6. ApprovalsNameAccounts'
    BY <2>2, <2>3, <2>4, <2>5 DEF ApprovalsNameAccounts
  <2>7. ApprovalsAreApart'
    BY <2>3, <2>4, <2>5 DEF ApprovalsAreApart
  <2> QED
    BY <2>2, <2>4, <2>6, <2>7 DEF RegistrationTypes, PhonesAreUnique
<1>6. ASSUME NEW u \in DOMAIN accounts, NEW phone \in Phones, ChangePhone(u, phone)
      PROVE  RegistrationInv'
  <2> DEFINE row == [accounts[u] EXCEPT !.phone = phone]
  <2>1. accounts[u] \in Accounts /\ accounts \in Seq(Accounts)
    BY ElementOfSeq, LenProperties DEF RegistrationTypes
  <2>2. /\ accounts' = [accounts EXCEPT ![u] = row]
        /\ PhoneFree(phone)
        /\ UNCHANGED <<registrations, openBranches, calls>>
    BY <1>6 DEF ChangePhone
  <2>3. row \in Accounts /\ row.phone = phone
    BY <2>1 DEF Accounts
  <2>4. accounts' \in Seq(Accounts) /\ DOMAIN accounts' = DOMAIN accounts
    BY <2>1, <2>2, <2>3, ExceptSeq, LenProperties
  <2>5. \A v \in DOMAIN accounts : accounts'[v] = IF v = u THEN row ELSE accounts[v]
    BY <2>2
  <2> HIDE DEF row
  <2>6. PhonesAreUnique'
    BY <2>2, <2>3, <2>4, <2>5 DEF PhonesAreUnique, PhoneFree
  <2> QED
    BY <2>2, <2>4, <2>6 DEF RegistrationTypes, ApprovalsNameAccounts, ApprovalsAreApart
<1>7. ASSUME NEW b \in ServiceBranches, ToggleBranch(b)
      PROVE  RegistrationInv'
  BY <1>7 DEF ToggleBranch, RegistrationTypes, PhonesAreUnique, ApprovalsNameAccounts,
              ApprovalsAreApart
<1>8. CASE UNCHANGED registrationVars
  BY <1>8 DEF registrationVars, RegistrationTypes, PhonesAreUnique,
              ApprovalsNameAccounts, ApprovalsAreApart
<1> QED
  BY <1>1, <1>2, <1>3, <1>4, <1>5, <1>6, <1>7, <1>8 DEF RegistrationNext

LEMMA RegistrationInvInit == RegistrationInit => RegistrationInv
<1> SUFFICES ASSUME RegistrationInit PROVE RegistrationInv
  OBVIOUS
<1>1. <<>> \in Seq(Accounts) /\ <<>> \in Seq(Requests) /\ DOMAIN <<>> = {}
  BY EmptySeq
<1> QED
  BY <1>1 DEF RegistrationInit, RegistrationInv, RegistrationTypes, PhonesAreUnique,
              ApprovalsNameAccounts, ApprovalsAreApart, CallRecords

\* A phone has one account and an approval one account of its own
\* (registration.admin.service.ts, users.service.ts).
THEOREM OneAccountEach == RegistrationSpec => []OneAccountPerPhone
<1>1. RegistrationInv => OneAccountPerPhone
  <2> SUFFICES ASSUME RegistrationInv PROVE OneAccountPerPhone
    OBVIOUS
  <2>1. DOMAIN accounts = 1..Len(accounts) /\ Len(accounts) \in Nat
    BY LenProperties DEF RegistrationInv, RegistrationTypes
  <2>2. 0 \notin DOMAIN accounts
    BY <2>1
  <2> QED
    BY <2>2 DEF RegistrationInv, PhonesAreUnique, ApprovalsNameAccounts,
                ApprovalsAreApart, OneAccountPerPhone
<1> QED
  BY <1>1, RegistrationInvInit, RegistrationInvStep, PTL DEF RegistrationSpec

-----------------------------------------------------------------------------
(* The registry                                                              *)

RowRecords == [kind: {"branch", "customer", "vehicle"},
               name: BranchNames \cup CustomerNames \cup Plates \cup {"none"},
               owner: Nat, vin: Vins \cup {NoVin}]

ChangeRecords == [id: Nat, old: RowRecords, new: RowRecords]

DeskRecords == [at: {"free", "inserting", "editing"}, id: Nat,
                copy: RowRecords, next: RowRecords]

RegistryTypes ==
    /\ rows \in Seq(RowRecords)
    /\ changes \in Seq(ChangeRecords)
    /\ \A n \in DOMAIN changes : changes[n].id \in DOMAIN rows
    /\ desks \in [Desks -> DeskRecords]

\* An edit holds the lock of its row, so its copy is the row as it is.
EditsHoldTheirRow ==
    \A d \in Desks : desks[d].at = "editing" =>
        /\ desks[d].id \in DOMAIN rows
        /\ desks[d].copy = rows[desks[d].id]
        /\ desks[d].next.kind = rows[desks[d].id].kind
        /\ \A e \in Desks : desks[e].at = "editing" /\ desks[e].id = desks[d].id => e = d

RegistryInv ==
    RegistryTypes /\ EditsHoldTheirRow /\ OneVehiclePerPlate /\ HistoryIsAChain

LEMMA RecordsAreTyped ==
    /\ FreeDesk \in DeskRecords
    /\ \A name \in BranchNames : Branch(name) \in RowRecords
    /\ \A name \in CustomerNames : Customer(name) \in RowRecords
    /\ \A plate \in Plates, owner \in Nat, vin \in Vins \cup {NoVin} :
          Vehicle(plate, owner, vin) \in RowRecords
BY DEF FreeDesk, NoRow, Branch, Customer, Vehicle, RowRecords, DeskRecords

\* An entry that starts from the row as it was, or starts the row, extends the
\* chain of that row and leaves the chains of the others as they are.
LEMMA HistoryGrows ==
    ASSUME RegistryInv, NEW k \in Nat, NEW old \in RowRecords, NEW new \in RowRecords,
           changes' = Append(changes, [id |-> k, old |-> old, new |-> new]),
           DOMAIN rows' = DOMAIN rows \cup {k},
           \A i \in DOMAIN rows : i # k => rows'[i] = rows[i],
           rows'[k] = new,
           k \in DOMAIN rows => old = rows[k]
    PROVE  /\ HistoryIsAChain'
           /\ changes' \in Seq(ChangeRecords)
           /\ \A n \in DOMAIN changes' : changes'[n].id \in DOMAIN rows'
<1> DEFINE entry == [id |-> k, old |-> old, new |-> new]
           last == Len(changes) + 1
<1>1. entry \in ChangeRecords /\ changes \in Seq(ChangeRecords)
  BY DEF ChangeRecords, RegistryInv, RegistryTypes
<1>2. /\ changes' \in Seq(ChangeRecords)
      /\ Len(changes') = last
      /\ \A n \in 1..Len(changes) : changes'[n] = changes[n]
      /\ changes'[last] = entry
  BY <1>1, AppendProperties
<1>3. /\ Len(changes) \in Nat
      /\ DOMAIN changes = 1..Len(changes)
      /\ DOMAIN changes' = 1..last
  BY <1>1, <1>2, LenProperties
<1>4. entry.id = k /\ entry.old = old /\ entry.new = new
  OBVIOUS
<1> HIDE DEF entry
<1>5. /\ \A n \in DOMAIN changes : changes[n].id \in DOMAIN rows
      /\ \A i \in DOMAIN rows : \E n \in DOMAIN changes : changes[n].id = i
      /\ \A n \in DOMAIN changes : IsLast(n) => changes[n].new = rows[changes[n].id]
      /\ \A m, n \in DOMAIN changes : Follows(n, m) => changes[n].old = changes[m].new
  BY DEF RegistryInv, RegistryTypes, HistoryIsAChain
<1>6. \A n \in DOMAIN changes' : changes'[n].id \in DOMAIN rows'
  BY <1>2, <1>3, <1>4, <1>5
<1>7. \A i \in DOMAIN rows' : \E n \in DOMAIN changes' : changes'[n].id = i
  BY SMTT(60), <1>2, <1>3, <1>4, <1>5
<1>8. ASSUME NEW n \in DOMAIN changes', IsLast(n)'
      PROVE  changes'[n].new = rows'[changes'[n].id]
  <2>1. CASE n = last
    BY <1>2, <1>4, <2>1
  <2>2. CASE n # last
    <3>1. n \in DOMAIN changes /\ changes'[n] = changes[n]
      BY <1>2, <1>3, <2>2
    <3>2. changes[n].id # k
      BY <1>2, <1>3, <1>4, <1>8, <3>1 DEF IsLast
    <3>3. IsLast(n)
      BY <1>2, <1>3, <1>8, <3>1 DEF IsLast
    <3> QED
      BY <1>5, <3>1, <3>2, <3>3
  <2> QED
    BY <2>1, <2>2
<1>9. ASSUME NEW m \in DOMAIN changes', NEW n \in DOMAIN changes', Follows(n, m)'
      PROVE  changes'[n].old = changes'[m].new
  <2>1. m \in DOMAIN changes /\ changes'[m] = changes[m]
    BY <1>2, <1>3, <1>9 DEF Follows
  <2>2. CASE n = last
    <3>1. changes[m].id = k /\ k \in DOMAIN rows
      BY <1>2, <1>4, <1>5, <1>9, <2>1, <2>2 DEF Follows
    <3>2. IsLast(m)
      BY <1>2, <1>3, <1>4, <1>9, <2>1, <2>2, <3>1 DEF Follows, IsLast
    <3> QED
      BY <1>2, <1>4, <1>5, <2>1, <2>2, <3>1, <3>2
  <2>3. CASE n # last
    <3>1. n \in DOMAIN changes /\ changes'[n] = changes[n]
      BY <1>2, <1>3, <2>3
    <3>2. Follows(n, m)
      BY <1>2, <1>3, <1>9, <2>1, <3>1 DEF Follows
    <3> QED
      BY <1>5, <2>1, <3>1, <3>2
  <2> QED
    BY <2>2, <2>3
<1>10. HistoryIsAChain'
  BY <1>7, <1>8, <1>9 DEF HistoryIsAChain
<1> QED
  BY <1>2, <1>6, <1>10

\* A row whose plate and VIN nobody else has keeps the vehicles apart.
LEMMA PlatesStayApart ==
    ASSUME RegistryInv, NEW k \in Nat, NEW new \in RowRecords,
           UniqueIndexes(new, k),
           DOMAIN rows' = DOMAIN rows \cup {k},
           \A i \in DOMAIN rows : i # k => rows'[i] = rows[i],
           rows'[k] = new
    PROVE  OneVehiclePerPlate'
BY DEF RegistryInv, OneVehiclePerPlate, UniqueIndexes, NameAvailable, VinAvailable, RowsOf

\* The other desks keep their edits when a desk becomes free and no row that
\* is being edited by another one changes.
LEMMA EditsKeepTheirRow ==
    ASSUME RegistryInv, NEW d, Leave(d) \/ UNCHANGED desks,
           DOMAIN rows \subseteq DOMAIN rows',
           \A e \in Desks : desks'[e].at = "editing" =>
               rows'[desks[e].id] = rows[desks[e].id]
    PROVE  EditsHoldTheirRow' /\ desks' \in [Desks -> DeskRecords]
<1>1. desks \in [Desks -> DeskRecords] /\ FreeDesk \in DeskRecords /\ FreeDesk.at = "free"
  BY RecordsAreTyped DEF RegistryInv, RegistryTypes, FreeDesk
<1>2. desks' \in [Desks -> DeskRecords]
  BY <1>1 DEF Leave
<1>3. \A e \in Desks : desks'[e].at = "editing" => desks'[e] = desks[e]
  BY <1>1 DEF Leave
<1> QED
  BY <1>2, <1>3 DEF RegistryInv, EditsHoldTheirRow

LEMMA AddRowKeeps ==
    ASSUME RegistryInv, NEW row \in RowRecords, UniqueIndexes(row, 0), AddRow(row),
           NEW d, Leave(d) \/ UNCHANGED desks
    PROVE  RegistryInv'
<1> DEFINE k == Len(rows) + 1
<1>1. /\ rows \in Seq(RowRecords) /\ rows' = Append(rows, row)
      /\ changes' = Append(changes, [id |-> k, old |-> row, new |-> row])
  BY DEF AddRow, RegistryInv, RegistryTypes
<1>2. /\ rows' \in Seq(RowRecords)
      /\ Len(rows') = k
      /\ \A i \in 1..Len(rows) : rows'[i] = rows[i]
      /\ rows'[k] = row
  BY <1>1, AppendProperties
<1>3. /\ Len(rows) \in Nat /\ DOMAIN rows = 1..Len(rows)
      /\ DOMAIN rows' = DOMAIN rows \cup {k}
      /\ k \in Nat /\ k \notin DOMAIN rows /\ 0 \notin DOMAIN rows
  BY <1>1, <1>2, LenProperties
<1>4. \A i \in DOMAIN rows : rows'[i] = rows[i]
  BY <1>2, <1>3
<1>5. UniqueIndexes(row, k)
  BY <1>3 DEF UniqueIndexes, NameAvailable, VinAvailable, RowsOf
<1> HIDE DEF k
<1>6. OneVehiclePerPlate'
  BY <1>2, <1>3, <1>4, <1>5, PlatesStayApart
<1>7. /\ HistoryIsAChain'
      /\ changes' \in Seq(ChangeRecords)
      /\ \A n \in DOMAIN changes' : changes'[n].id \in DOMAIN rows'
  BY <1>1, <1>2, <1>3, <1>4, HistoryGrows
<1>8. EditsHoldTheirRow' /\ desks' \in [Desks -> DeskRecords]
  <2>1. \A e \in Desks : desks'[e].at = "editing" => desks[e].at = "editing"
    BY RecordsAreTyped DEF Leave, RegistryInv, RegistryTypes, FreeDesk, DeskRecords
  <2>2. \A e \in Desks : desks'[e].at = "editing" => rows'[desks[e].id] = rows[desks[e].id]
    BY <1>4, <2>1 DEF RegistryInv, EditsHoldTheirRow
  <2>3. DOMAIN rows \subseteq DOMAIN rows'
    BY <1>3
  <2> QED
    BY <2>2, <2>3, EditsKeepTheirRow
<1> QED
  BY <1>2, <1>6, <1>7, <1>8 DEF RegistryInv, RegistryTypes

\* A desk that locks a row that is not locked, with a copy of it.
LEMMA LockRowKeeps ==
    ASSUME RegistryInv, NEW d \in Desks, NEW i \in DOMAIN rows, NEW next \in RowRecords,
           next.kind = rows[i].kind, LockRow(d, i, next)
    PROVE  RegistryInv'
<1> DEFINE edit == [at |-> "editing", id |-> i, copy |-> rows[i], next |-> next]
<1>1. /\ desks' = [desks EXCEPT ![d] = edit]
      /\ ~RowLocked(i)
      /\ UNCHANGED <<rows, changes>>
  BY DEF LockRow
<1>2. rows[i] \in RowRecords /\ i \in Nat /\ desks \in [Desks -> DeskRecords]
  BY ElementOfSeq, LenProperties DEF RegistryInv, RegistryTypes
<1>3. /\ edit \in DeskRecords
      /\ edit.id = i /\ edit.copy = rows[i] /\ edit.next = next /\ edit.at = "editing"
  BY <1>2 DEF DeskRecords
<1> HIDE DEF edit
<1>4. /\ desks' \in [Desks -> DeskRecords]
      /\ \A e \in Desks : desks'[e] = IF e = d THEN edit ELSE desks[e]
  BY <1>1, <1>2, <1>3
<1>5. EditsHoldTheirRow'
  BY <1>1, <1>3, <1>4 DEF RegistryInv, EditsHoldTheirRow, RowLocked
<1> QED
  BY <1>1, <1>4, <1>5 DEF RegistryInv, RegistryTypes, OneVehiclePerPlate, HistoryIsAChain,
       RowsOf, IsLast, Follows

LEMMA CheckInsertKeeps ==
    ASSUME RegistryInv, NEW d \in Desks, NEW row \in RowRecords, CheckInsert(d, row)
    PROVE  RegistryInv'
<1> DEFINE mid == [FreeDesk EXCEPT !.at = "inserting"]
           desk == [mid EXCEPT !.next = row]
<1>1. mid \in DeskRecords /\ mid.at = "inserting"
  BY RecordsAreTyped DEF DeskRecords
<1> HIDE DEF mid
<1>2. desk \in DeskRecords /\ desk.at = "inserting"
  BY <1>1 DEF DeskRecords
<1>3. desks' = [desks EXCEPT ![d] = desk] /\ UNCHANGED <<rows, changes>>
  BY Zenon DEF CheckInsert, mid
<1> HIDE DEF desk
<1>4. desks \in [Desks -> DeskRecords]
  BY DEF RegistryInv, RegistryTypes
<1>5. /\ desks' \in [Desks -> DeskRecords]
      /\ \A e \in Desks : desks'[e].at = "editing" => desks'[e] = desks[e]
  BY <1>2, <1>3, <1>4
<1>6. EditsHoldTheirRow'
  BY <1>3, <1>5 DEF RegistryInv, EditsHoldTheirRow
<1> QED
  BY <1>3, <1>5, <1>6 DEF RegistryInv, RegistryTypes, OneVehiclePerPlate, HistoryIsAChain,
       RowsOf, IsLast, Follows

LEMMA WriteEditKeeps ==
    ASSUME RegistryInv, NEW d \in Desks, WriteEdit(d)
    PROVE  RegistryInv'
<1> DEFINE edit == desks[d]
           id == edit.id
<1>1. /\ edit.at = "editing" /\ edit \in DeskRecords
      /\ id \in DOMAIN rows /\ edit.copy = rows[id] /\ edit.next.kind = rows[id].kind
      /\ \A e \in Desks : desks[e].at = "editing" /\ desks[e].id = id => e = d
      /\ Leave(d)
  BY DEF WriteEdit, RegistryInv, RegistryTypes, EditsHoldTheirRow
<1>2. id \in Nat /\ edit.next \in RowRecords /\ rows[id] \in RowRecords
  BY <1>1, ElementOfSeq, LenProperties DEF DeskRecords, RegistryInv, RegistryTypes
<1>3. /\ desks \in [Desks -> DeskRecords] /\ FreeDesk.at = "free"
      /\ desks' = [desks EXCEPT ![d] = FreeDesk]
  BY <1>1 DEF Leave, RegistryInv, RegistryTypes, FreeDesk
<1>4. \A e \in Desks : desks'[e].at = "editing" =>
          e # d /\ desks'[e] = desks[e] /\ desks[e].id # id /\ desks[e].id \in DOMAIN rows
  BY <1>1, <1>3 DEF RegistryInv, EditsHoldTheirRow
<1>5. CASE edit.next # edit.copy /\ UniqueIndexes(edit.next, id)
  <2>1. /\ rows' = [rows EXCEPT ![id] = edit.next]
        /\ changes' = Append(changes, [id |-> id, old |-> edit.copy, new |-> edit.next])
    BY <1>5 DEF WriteEdit
  <2> HIDE DEF id, edit
  <2>2. /\ DOMAIN rows' = DOMAIN rows /\ DOMAIN rows' = DOMAIN rows \cup {id}
        /\ rows'[id] = edit.next
        /\ \A i \in DOMAIN rows : i # id => rows'[i] = rows[i]
    BY <1>1, <2>1
  <2>3. rows' \in Seq(RowRecords)
    <3>1. rows \in Seq(RowRecords) /\ DOMAIN rows = 1..Len(rows)
      BY LenProperties DEF RegistryInv, RegistryTypes
    <3> QED
      BY <1>1, <1>2, <2>1, <3>1, ExceptSeq
  <2>4. OneVehiclePerPlate'
    BY <1>2, <1>5, <2>2, PlatesStayApart
  <2>5. /\ HistoryIsAChain'
        /\ changes' \in Seq(ChangeRecords)
        /\ \A n \in DOMAIN changes' : changes'[n].id \in DOMAIN rows'
    BY <1>1, <1>2, <2>1, <2>2, HistoryGrows
  <2>6. EditsHoldTheirRow' /\ desks' \in [Desks -> DeskRecords]
    BY <1>1, <1>4, <2>2, EditsKeepTheirRow
  <2> QED
    BY <2>3, <2>4, <2>5, <2>6 DEF RegistryInv, RegistryTypes
<1>6. CASE ~(edit.next # edit.copy /\ UniqueIndexes(edit.next, id))
  <2>1. UNCHANGED <<rows, changes>>
    BY <1>6 DEF WriteEdit
  <2>2. EditsHoldTheirRow' /\ desks' \in [Desks -> DeskRecords]
    BY <1>1, <2>1, EditsKeepTheirRow
  <2> QED
    BY <2>1, <2>2 DEF RegistryInv, RegistryTypes, OneVehiclePerPlate, HistoryIsAChain,
         RowsOf, IsLast, Follows
<1> QED
  BY <1>5, <1>6

LEMMA RegistryInvStep ==
    ASSUME RegistryInv, [RegistryNext]_registryVars
    PROVE  RegistryInv'
<1>1. \A i \in DOMAIN rows : rows[i] \in RowRecords /\ i \in Nat
  BY ElementOfSeq, LenProperties DEF RegistryInv, RegistryTypes
<1>2. ASSUME NEW name \in CustomerNames, CreateCustomer(name)
      PROVE  RegistryInv'
  <2>1. Customer(name) \in RowRecords /\ UniqueIndexes(Customer(name), 0)
    BY RecordsAreTyped DEF UniqueIndexes, Customer
  <2> QED
    BY <1>2, <2>1, AddRowKeeps DEF CreateCustomer
<1>3. ASSUME NEW d \in Desks, CreateAtDesk(d)
      PROVE  RegistryInv'
  <2>1. ASSUME NEW name \in BranchNames, CheckBranch(d, name)
        PROVE  RegistryInv'
    BY <2>1, RecordsAreTyped, CheckInsertKeeps DEF CheckBranch
  <2>2. ASSUME NEW plate \in Plates, NEW owner \in RowsOf("customer"),
               NEW vin \in Vins \cup {NoVin}, CheckVehicle(d, plate, owner, vin)
        PROVE  RegistryInv'
    <3>1. owner \in Nat
      BY <1>1 DEF RowsOf
    <3> QED
      BY <2>2, <3>1, RecordsAreTyped, CheckInsertKeeps DEF CheckVehicle
  <2>3. desks[d].next \in RowRecords
    BY DEF RegistryInv, RegistryTypes, DeskRecords
  <2>4. CASE CreateBranch(d)
    <3>1. UniqueIndexes(desks[d].next, 0)
      BY <2>4 DEF CreateBranch, UniqueIndexes
    <3> QED
      BY <2>3, <2>4, <3>1, AddRowKeeps DEF CreateBranch
  <2>5. CASE CreateVehicle(d)
    <3>1. CASE UniqueIndexes(desks[d].next, 0)
      BY <2>3, <2>5, <3>1, AddRowKeeps DEF CreateVehicle
    <3>2. CASE ~UniqueIndexes(desks[d].next, 0)
      <4>1. UNCHANGED <<rows, changes>> /\ Leave(d)
        BY <2>5, <3>2 DEF CreateVehicle
      <4>2. EditsHoldTheirRow' /\ desks' \in [Desks -> DeskRecords]
        BY <4>1, EditsKeepTheirRow
      <4> QED
        BY <4>1, <4>2 DEF RegistryInv, RegistryTypes, OneVehiclePerPlate,
             HistoryIsAChain, RowsOf, IsLast, Follows
    <3> QED
      BY <3>1, <3>2
  <2> QED
    BY <1>3, <2>1, <2>2, <2>4, <2>5 DEF CreateAtDesk
<1>4. ASSUME NEW d \in Desks, EditAtDesk(d)
      PROVE  RegistryInv'
  <2>1. ASSUME NEW i \in RowsOf("branch"), NEW name \in BranchNames, UpdateBranch(d, i, name)
        PROVE  RegistryInv'
    <3>1. i \in DOMAIN rows /\ rows[i] \in RowRecords
      BY <1>1 DEF RowsOf
    <3>2. /\ [rows[i] EXCEPT !.name = name] \in RowRecords
          /\ [rows[i] EXCEPT !.name = name].kind = rows[i].kind
      BY <3>1 DEF RowRecords
    <3> QED
      BY <2>1, <3>1, <3>2, LockRowKeeps DEF UpdateBranch
  <2>2. ASSUME NEW i \in RowsOf("customer"), NEW name \in CustomerNames,
               UpdateCustomer(d, i, name)
        PROVE  RegistryInv'
    <3>1. i \in DOMAIN rows /\ rows[i] \in RowRecords
      BY <1>1 DEF RowsOf
    <3>2. /\ [rows[i] EXCEPT !.name = name] \in RowRecords
          /\ [rows[i] EXCEPT !.name = name].kind = rows[i].kind
      BY <3>1 DEF RowRecords
    <3> QED
      BY <2>2, <3>1, <3>2, LockRowKeeps DEF UpdateCustomer
  <2>3. ASSUME NEW i \in RowsOf("vehicle"), NEW plate \in Plates,
               NEW owner \in RowsOf("customer"), NEW vin \in Vins \cup {NoVin},
               UpdateVehicle(d, i, Vehicle(plate, owner, vin))
        PROVE  RegistryInv'
    <3>1. i \in DOMAIN rows /\ owner \in Nat /\ rows[i].kind = "vehicle"
      BY <1>1 DEF RowsOf
    <3>2. /\ Vehicle(plate, owner, vin) \in RowRecords
          /\ Vehicle(plate, owner, vin).kind = "vehicle"
      BY <3>1, RecordsAreTyped DEF Vehicle
    <3> QED
      BY <2>3, <3>1, <3>2, LockRowKeeps DEF UpdateVehicle
  <2> QED
    BY <1>4, <2>1, <2>2, <2>3, WriteEditKeeps DEF EditAtDesk
<1>5. CASE UNCHANGED registryVars
  BY <1>5 DEF registryVars, RegistryInv, RegistryTypes, EditsHoldTheirRow,
       OneVehiclePerPlate, HistoryIsAChain, RowsOf, IsLast, Follows
<1> QED
  BY <1>2, <1>3, <1>4, <1>5 DEF RegistryNext

LEMMA RegistryInvInit == RegistryInit => RegistryInv
<1> SUFFICES ASSUME RegistryInit PROVE RegistryInv
  OBVIOUS
<1>1. /\ <<>> \in Seq(RowRecords) /\ <<>> \in Seq(ChangeRecords)
      /\ DOMAIN rows = {} /\ DOMAIN changes = {}
  BY EmptySeq DEF RegistryInit
<1>2. desks \in [Desks -> DeskRecords] /\ \A d \in Desks : desks[d].at = "free"
  BY RecordsAreTyped DEF RegistryInit, FreeDesk
<1>3. RegistryTypes /\ EditsHoldTheirRow
  BY <1>1, <1>2 DEF RegistryInit, RegistryTypes, EditsHoldTheirRow
<1>4. OneVehiclePerPlate /\ HistoryIsAChain
  BY <1>1 DEF OneVehiclePerPlate, HistoryIsAChain, RowsOf
<1> QED
  BY <1>3, <1>4 DEF RegistryInv

\* Edits of branches, customers and vehicles and their audit entries tell one
\* story, and two vehicles never share a plate or a VIN.
THEOREM RegistryAndAuditAgree == RegistrySpec => []RegistryAgrees
<1>1. RegistryInv => RegistryAgrees
  BY DEF RegistryInv, RegistryAgrees
<1> QED
  BY <1>1, RegistryInvInit, RegistryInvStep, PTL DEF RegistrySpec

-----------------------------------------------------------------------------
(* Risk policy                                                               *)

Submitted == Definitions \cup {V1Definition}

MatrixRecords == [status: {"NONE", "DRAFT", "ACTIVE", "RETIRED"},
                  def: Submitted \cup {NoDefinition}]

\* A score that can be read again at its own version.
Kept(risk) ==
    /\ risk.matrix \in Versions /\ risk.severity \in Inputs /\ risk.likelihood \in Inputs
    /\ risk.source \in Sources
    /\ matrices[risk.matrix].status \in {"ACTIVE", "RETIRED"}
    /\ risk = Scored(risk.matrix, risk.severity, risk.likelihood, risk.source)

PolicyTypes ==
    /\ matrices \in [Versions -> MatrixRecords]
    /\ \A v \in Versions : Exists(v) => matrices[v].def \in Submitted
    /\ creating \in [Approvers ->
                        {NoRequest} \cup [version: Versions, def: Definitions]]
    /\ DOMAIN scoring = Assessors
    /\ \E S : assessments \in Seq(S)

MatricesAreGoverned ==
    /\ Exists(Seeded) /\ matrices[Seeded].def = V1Definition
    /\ \A v, w \in Active : v = w
    /\ \A v \in Active : Valid(matrices[v].def)

ScoresAreKept ==
    /\ \A i \in DOMAIN assessments : Kept(assessments[i])
    /\ \A q \in Assessors : scoring[q] # Nothing => Kept(scoring[q])

PolicyInv == PolicyTypes /\ MatricesAreGoverned /\ ScoresAreKept

\* A step that keeps the definition of every matrix and takes no approval back
\* keeps every score.
LEMMA ScoresStayKept ==
    ASSUME NEW risk, Kept(risk),
           \A v \in Versions : Exists(v) => matrices'[v].def = matrices[v].def,
           \A v \in Versions : matrices[v].status \in {"ACTIVE", "RETIRED"} =>
               matrices'[v].status \in {"ACTIVE", "RETIRED"}
    PROVE  Kept(risk)'
<1>1. matrices'[risk.matrix].def = matrices[risk.matrix].def
  BY DEF Kept, Exists
<1>2. Scored(risk.matrix, risk.severity, risk.likelihood, risk.source)'
        = Scored(risk.matrix, risk.severity, risk.likelihood, risk.source)
  BY <1>1 DEF Scored
<1> QED
  BY <1>2 DEF Kept

LEMMA ScoresSurvive ==
    ASSUME PolicyInv, UNCHANGED <<scoring, assessments>>,
           \A v \in Versions : Exists(v) => matrices'[v].def = matrices[v].def,
           \A v \in Versions : matrices[v].status \in {"ACTIVE", "RETIRED"} =>
               matrices'[v].status \in {"ACTIVE", "RETIRED"}
    PROVE  ScoresAreKept'
<1>1. \A i \in DOMAIN assessments : Kept(assessments[i])'
  BY ScoresStayKept DEF PolicyInv, ScoresAreKept
<1>2. \A q \in Assessors : scoring[q] # Nothing => Kept(scoring[q])'
  BY ScoresStayKept DEF PolicyInv, ScoresAreKept
<1>3. \A i \in DOMAIN assessments' : Kept(assessments[i])'
  BY <1>1
<1>4. \A q \in Assessors : (scoring[q] # Nothing)' => Kept(scoring[q])'
  BY <1>2
<1> QED
  BY <1>3, <1>4 DEF ScoresAreKept

LEMMA PolicyInvStep ==
    ASSUME PolicyInv, [PolicyNext]_policyVars
    PROVE  PolicyInv'
<1>1. ASSUME NEW a \in Approvers, NEW v \in Versions, NEW def \in Definitions,
             CheckMatrixVersion(a, v, def)
      PROVE  PolicyInv'
  <2>1. UNCHANGED <<matrices, scoring, assessments>>
    BY <1>1 DEF CheckMatrixVersion
  <2>2. creating' \in [Approvers -> {NoRequest} \cup [version: Versions, def: Definitions]]
    BY <1>1 DEF CheckMatrixVersion, PolicyInv, PolicyTypes
  <2>3. ScoresAreKept'
    BY <2>1, ScoresSurvive
  <2> QED
    BY <2>1, <2>2, <2>3 DEF PolicyInv, PolicyTypes, MatricesAreGoverned, Exists, Active
<1>2. ASSUME NEW a \in Approvers, CreateMatrixVersion(a)
      PROVE  PolicyInv'
  <2> DEFINE request == creating[a]
             new == [status |-> "DRAFT", def |-> request.def]
  <2>1. request \in [version: Versions, def: Definitions]
    BY <1>2 DEF CreateMatrixVersion, PolicyInv, PolicyTypes
  <2>2. request.version \in Versions /\ request.def \in Definitions
    BY <2>1
  <2>3. UNCHANGED <<scoring, assessments>>
    BY <1>2 DEF CreateMatrixVersion
  <2>4. creating' \in [Approvers -> {NoRequest} \cup [version: Versions, def: Definitions]]
    BY <1>2 DEF CreateMatrixVersion, PolicyInv, PolicyTypes
  <2>5. new \in MatrixRecords /\ new.status = "DRAFT" /\ new.def \in Submitted
    BY <2>2 DEF MatrixRecords, Submitted
  <2>6. matrices' = IF Exists(request.version) THEN matrices
                    ELSE [matrices EXCEPT ![request.version] = new]
    BY <1>2 DEF CreateMatrixVersion
  <2> HIDE DEF request, new
  <2>7. /\ matrices' \in [Versions -> MatrixRecords]
        /\ \A v \in Versions : matrices'[v] = matrices[v] \/ (~Exists(v) /\ matrices'[v] = new)
    BY <2>2, <2>5, <2>6 DEF PolicyInv, PolicyTypes
  <2>8. ScoresAreKept'
    BY <2>3, <2>7, ScoresSurvive DEF Exists
  <2>9. MatricesAreGoverned'
    BY <2>5, <2>7, PolicyAssumption DEF PolicyInv, MatricesAreGoverned, Exists, Active
  <2> QED
    BY <2>3, <2>4, <2>5, <2>7, <2>8, <2>9 DEF PolicyInv, PolicyTypes, Exists
<1>3. ASSUME NEW v \in Versions, ActivateMatrix(v)
      PROVE  PolicyInv'
  <2>1. /\ UNCHANGED <<creating, scoring, assessments>>
        /\ Exists(v) /\ Valid(matrices[v].def)
    BY <1>3 DEF ActivateMatrix, Exists
  <2>2. \A w \in Versions :
          /\ matrices[w] \in MatrixRecords
          /\ matrices'[w] = IF w = v THEN [matrices[w] EXCEPT !.status = "ACTIVE"]
                            ELSE IF w \in Active THEN [matrices[w] EXCEPT !.status = "RETIRED"]
                            ELSE matrices[w]
    BY <1>3 DEF ActivateMatrix, PolicyInv, PolicyTypes
  <2>3. \A w \in Versions :
          /\ matrices'[w] \in MatrixRecords
          /\ matrices'[w].def = matrices[w].def
          /\ matrices'[w].status = IF w = v THEN "ACTIVE"
                                   ELSE IF matrices[w].status = "ACTIVE" THEN "RETIRED"
                                   ELSE matrices[w].status
    BY <2>2 DEF MatrixRecords, Active
  <2>4. matrices' \in [Versions -> MatrixRecords]
    BY <1>3, <2>3 DEF ActivateMatrix
  <2>5. ScoresAreKept'
    BY <2>1, <2>3, ScoresSurvive
  <2>6. MatricesAreGoverned'
    BY <2>1, <2>3, PolicyAssumption DEF PolicyInv, MatricesAreGoverned, Exists, Active
  <2> QED
    BY <2>1, <2>3, <2>4, <2>5, <2>6 DEF PolicyInv, PolicyTypes, Exists
<1>4. ASSUME NEW v \in Versions, RetireMatrix(v)
      PROVE  PolicyInv'
  <2>1. UNCHANGED <<creating, scoring, assessments>> /\ Exists(v)
    BY <1>4 DEF RetireMatrix, Exists
  <2>2. \A w \in Versions :
          /\ matrices[w] \in MatrixRecords
          /\ matrices'[w] = IF w = v THEN [matrices[w] EXCEPT !.status = "RETIRED"]
                            ELSE matrices[w]
    BY <1>4 DEF RetireMatrix, PolicyInv, PolicyTypes
  <2>3. \A w \in Versions :
          /\ matrices'[w] \in MatrixRecords
          /\ matrices'[w].def = matrices[w].def
          /\ matrices'[w].status = IF w = v THEN "RETIRED" ELSE matrices[w].status
    BY <2>2 DEF MatrixRecords
  <2>4. matrices' \in [Versions -> MatrixRecords]
    BY <1>4, <2>3 DEF RetireMatrix, PolicyInv, PolicyTypes
  <2>5. ScoresAreKept'
    BY <2>1, <2>3, ScoresSurvive
  <2>6. MatricesAreGoverned'
    BY <2>1, <2>3, PolicyAssumption DEF PolicyInv, MatricesAreGoverned, Exists, Active
  <2> QED
    BY <2>1, <2>3, <2>4, <2>5, <2>6 DEF PolicyInv, PolicyTypes, Exists
<1>5. ASSUME NEW q \in Assessors, NEW s \in Inputs, NEW l \in Inputs, NEW source \in Sources,
             AssessRisk(q, s, l, source)
      PROVE  PolicyInv'
  <2>1. PICK v \in Active : scoring' = [scoring EXCEPT ![q] = Scored(v, s, l, source)]
    BY <1>5 DEF AssessRisk
  <2>2. UNCHANGED <<matrices, creating, assessments>>
    BY <1>5 DEF AssessRisk
  <2> DEFINE risk == Scored(v, s, l, source)
  <2>3. /\ risk.matrix = v /\ risk.severity = s /\ risk.likelihood = l
        /\ risk.source = source
    BY DEF Scored
  <2>4. Kept(risk)
    <3>1. risk = Scored(risk.matrix, risk.severity, risk.likelihood, risk.source)
      BY <2>3
    <3> HIDE DEF risk
    <3> QED
      BY <2>3, <3>1 DEF Kept, Active
  <2>5. scoring' = [scoring EXCEPT ![q] = risk] /\ DOMAIN scoring = Assessors
    BY <2>1 DEF PolicyInv, PolicyTypes
  <2> HIDE DEF risk
  <2>6. /\ DOMAIN scoring' = Assessors
        /\ \A p \in Assessors : scoring'[p] # Nothing => Kept(scoring'[p])
    BY <2>4, <2>5 DEF PolicyInv, ScoresAreKept
  <2>7. ScoresAreKept'
    <3>1. \A i \in DOMAIN assessments' : Kept(assessments[i])'
      BY <2>2 DEF PolicyInv, ScoresAreKept, Kept, Scored
    <3>2. \A p \in Assessors : (scoring[p] # Nothing)' => Kept(scoring[p])'
      BY <2>2, <2>6 DEF Kept, Scored, Nothing
    <3> QED
      BY <3>1, <3>2 DEF ScoresAreKept
  <2> QED
    BY <2>2, <2>6, <2>7 DEF PolicyInv, PolicyTypes, MatricesAreGoverned, Exists, Active
<1>6. ASSUME NEW q \in Assessors, StoreRisk(q)
      PROVE  PolicyInv'
  <2> DEFINE risk == scoring[q]
  <2>1. /\ Kept(risk) /\ assessments' = Append(assessments, risk)
        /\ scoring' = [scoring EXCEPT ![q] = Nothing]
        /\ UNCHANGED <<matrices, creating>>
    BY <1>6 DEF StoreRisk, PolicyInv, ScoresAreKept
  <2>2. PICK S : assessments \in Seq(S)
    BY DEF PolicyInv, PolicyTypes
  <2>3. assessments \in Seq(S \cup {risk}) /\ risk \in S \cup {risk}
    BY <2>2, SeqMonotonic
  <2> HIDE DEF risk
  <2>4. /\ assessments' \in Seq(S \cup {risk})
        /\ Len(assessments') = Len(assessments) + 1
        /\ \A i \in 1..Len(assessments) : assessments'[i] = assessments[i]
        /\ assessments'[Len(assessments) + 1] = risk
    BY <2>1, <2>3, AppendProperties
  <2>5. /\ Len(assessments) \in Nat
        /\ DOMAIN assessments = 1..Len(assessments)
        /\ DOMAIN assessments' = 1..(Len(assessments) + 1)
    BY <2>3, <2>4, LenProperties
  <2>6. \A i \in DOMAIN assessments' : Kept(assessments'[i])
    BY <2>1, <2>4, <2>5 DEF PolicyInv, ScoresAreKept
  <2>7. /\ DOMAIN scoring' = Assessors
        /\ \A p \in Assessors : scoring'[p] # Nothing => Kept(scoring'[p])
    BY <2>1 DEF PolicyInv, PolicyTypes, ScoresAreKept
  <2>10. matrices' = matrices
    BY <2>1
  <2>8. ScoresAreKept'
    <3>1. \A i \in DOMAIN assessments' : Kept(assessments[i])'
      BY <2>6, <2>10 DEF Kept, Scored
    <3>2. \A p \in Assessors : (scoring[p] # Nothing)' => Kept(scoring[p])'
      BY <2>7, <2>10 DEF Kept, Scored, Nothing
    <3> QED
      BY <3>1, <3>2 DEF ScoresAreKept
  <2>9. \E T : assessments' \in Seq(T)
    BY <2>4
  <2> QED
    BY <2>1, <2>7, <2>8, <2>9 DEF PolicyInv, PolicyTypes, MatricesAreGoverned, Exists, Active
<1>7. CASE UNCHANGED policyVars
  <2>1. UNCHANGED <<matrices, creating, scoring, assessments>>
    BY <1>7 DEF policyVars
  <2>2. ScoresAreKept'
    BY <2>1 DEF PolicyInv, ScoresAreKept, Kept, Scored, Nothing
  <2> QED
    BY <2>1, <2>2 DEF PolicyInv, PolicyTypes, MatricesAreGoverned, Exists, Active
<1> QED
  BY <1>1, <1>2, <1>3, <1>4, <1>5, <1>6, <1>7 DEF PolicyNext

LEMMA PolicyInvInit == PolicyInit => PolicyInv
<1> SUFFICES ASSUME PolicyInit PROVE PolicyInv
  OBVIOUS
<1>1. /\ matrices \in [Versions -> MatrixRecords]
      /\ \A v \in Versions : Exists(v) <=> v = Seeded
      /\ \A v \in Versions : matrices[v].status # "ACTIVE"
      /\ matrices[Seeded].def = V1Definition
  <2> HIDE DEF V1Definition
  <2> QED
    BY PolicyAssumption DEF PolicyInit, NoMatrix, MatrixRecords, Submitted, Exists
<1>2. assessments \in Seq({}) /\ DOMAIN assessments = {}
  BY EmptySeq DEF PolicyInit
<1>3. \A q \in Assessors : scoring[q] = Nothing
  BY DEF PolicyInit
<1>4. ScoresAreKept
  BY <1>2, <1>3 DEF ScoresAreKept
<1>5. MatricesAreGoverned
  BY <1>1, PolicyAssumption DEF MatricesAreGoverned, Active
<1>6. PolicyTypes
  BY <1>1, <1>2, PolicyAssumption DEF PolicyTypes, Submitted, PolicyInit
<1> QED
  BY <1>4, <1>5, <1>6 DEF PolicyInv

\* Every hazard scores at least 1, so the last threshold of a valid matrix
\* catches it.
LEMMA ValidCoversTheScale ==
    ASSUME NEW def \in Submitted, Valid(def), NEW s \in Inputs, NEW l \in Inputs,
           NEW source \in Sources
    PROVE  LET result == Classify(def, s, l, source)
           IN  /\ Matches(def, result.score) # {}
               /\ result.level = "CRITICAL" => result.blocking
<1> DEFINE result == Classify(def, s, l, source)
<1>1. result.score = Clamp(s) * Clamp(l) /\ result.blocking = (result.level \in def.blocking)
  BY DEF Classify
<1>2. Clamp(s) \in 1..4 /\ Clamp(l) \in 1..4
  BY DEF Clamp, Inputs
<1>3. Clamp(s) * Clamp(l) \in Int /\ Clamp(s) * Clamp(l) >= 1
  BY <1>2
<1>4. PICK i \in DOMAIN def.thresholds : def.thresholds[i].min <= 1
  BY DEF Valid
<1>5. def.thresholds[i].min \in Int
  <2>1. CASE def \in Definitions
    BY <2>1, PolicyAssumption
  <2>2. CASE def = V1Definition
    BY <2>2 DEF V1Definition
  <2> QED
    BY <2>1, <2>2 DEF Submitted
<1> HIDE DEF result
<1>6. Matches(def, result.score) # {}
  BY <1>1, <1>3, <1>4, <1>5 DEF Matches
<1> QED
  BY <1>1, <1>6 DEF Valid, result

\* At most one matrix is ACTIVE; it leaves no score unclassified and blocks on
\* a CRITICAL one (risk-policy.service.ts).
THEOREM OneMatrixGoverns == PolicySpec => []ActiveMatrixGoverns
<1>1. PolicyInv => ActiveMatrixGoverns
  <2> SUFFICES ASSUME PolicyInv PROVE ActiveMatrixGoverns
    OBVIOUS
  <2>1. \A v \in Active : matrices[v].def \in Submitted /\ Valid(matrices[v].def)
    BY DEF PolicyInv, PolicyTypes, MatricesAreGoverned, Exists, Active
  <2> QED
    BY <2>1, ValidCoversTheScale DEF PolicyInv, MatricesAreGoverned, ActiveMatrixGoverns
<1> QED
  BY <1>1, PolicyInvInit, PolicyInvStep, PTL DEF PolicySpec

\* The seeded definition is the documented policy (risk-matrix.ts).
LEMMA SeededIsThePolicy ==
    ASSUME NEW s \in Inputs, NEW l \in Inputs, NEW source \in Sources
    PROVE  /\ Classify(V1Definition, s, l, source).level = ComputeRisk(s, l, source).level
           /\ Classify(V1Definition, s, l, source).blocking
                = ComputeRisk(s, l, source).blocking
<1> DEFINE score == Clamp(s) * Clamp(l)
           hits == Matches(V1Definition, score)
<1>1. Clamp(s) \in 1..4 /\ Clamp(l) \in 1..4
  BY DEF Clamp, Inputs
<1>2. score \in 1..16
  BY <1>1
<1>3. hits = {i \in 1..4 : \/ i = 1 /\ score >= 12
                           \/ i = 2 /\ score >= 8
                           \/ i = 3 /\ score >= 4
                           \/ i = 4}
  BY <1>2 DEF Matches, V1Definition
<1> DEFINE first == CHOOSE i \in hits : \A j \in hits : i <= j
<1> HIDE DEF hits, score
<1>4. first = IF score >= 12 THEN 1 ELSE IF score >= 8 THEN 2 ELSE IF score >= 4 THEN 3 ELSE 4
  <2> DEFINE least == IF score >= 12 THEN 1 ELSE IF score >= 8 THEN 2
                      ELSE IF score >= 4 THEN 3 ELSE 4
  <2>1. least \in hits /\ \A j \in hits : least <= j
    BY <1>2, <1>3
  <2>2. \A i \in hits : (\A j \in hits : i <= j) => i = least
    BY <1>3, <2>1
  <2> HIDE DEF least
  <2>3. first \in hits /\ \A j \in hits : first <= j
    BY <2>1
  <2> HIDE DEF first
  <2>4. first = least
    BY <2>2, <2>3
  <2> QED
    BY <2>4 DEF least
<1>5. ThresholdLevel(V1Definition, score) =
         IF score >= 12 THEN "CRITICAL" ELSE IF score >= 8 THEN "HIGH"
         ELSE IF score >= 4 THEN "MEDIUM" ELSE "LOW"
  <2>1. hits # {}
    BY <1>3
  <2>2. ThresholdLevel(V1Definition, score) = V1Definition.thresholds[first].level
    BY <2>1 DEF ThresholdLevel, hits
  <2> HIDE DEF first
  <2> QED
    BY <1>2, <1>4, <2>2 DEF V1Definition
<1>6. CASE source = "STOP_REJECTED"
  BY <1>6 DEF Classify, ComputeRisk, V1Definition, NoLevel
<1>7. CASE source = "MANUAL"
  BY <1>1, <1>2, <1>5, <1>7 DEF Classify, ComputeRisk, V1Definition, NoLevel, LevelOrder, score
<1> QED
  BY <1>6, <1>7 DEF Sources

\* A stored score can be read again at its own version for ever, and under the
\* seeded version it is what the documented policy says.
THEOREM ScoresAreReproducible == PolicySpec => []ScoresStayReproducible
<1>1. PolicyInv => ScoresStayReproducible
  <2> SUFFICES ASSUME PolicyInv, NEW i \in DOMAIN assessments
               PROVE  LET risk == assessments[i]
                          policy == ComputeRisk(risk.severity, risk.likelihood, risk.source)
                      IN  /\ matrices[risk.matrix].status \in {"ACTIVE", "RETIRED"}
                          /\ risk = Scored(risk.matrix, risk.severity, risk.likelihood,
                                           risk.source)
                          /\ risk.matrix = Seeded =>
                                risk.level = policy.level /\ risk.blocking = policy.blocking
    BY DEF ScoresStayReproducible
  <2> DEFINE risk == assessments[i]
  <2>1. Kept(risk)
    BY DEF PolicyInv, ScoresAreKept
  <2> HIDE DEF risk
  <2>2. ASSUME risk.matrix = Seeded
        PROVE  /\ risk.level = ComputeRisk(risk.severity, risk.likelihood, risk.source).level
               /\ risk.blocking
                    = ComputeRisk(risk.severity, risk.likelihood, risk.source).blocking
    <3> DEFINE result == Classify(V1Definition, risk.severity, risk.likelihood, risk.source)
    <3>1. matrices[risk.matrix].def = V1Definition
      BY <2>2 DEF PolicyInv, MatricesAreGoverned
    <3>2. /\ result.level = ComputeRisk(risk.severity, risk.likelihood, risk.source).level
          /\ result.blocking
               = ComputeRisk(risk.severity, risk.likelihood, risk.source).blocking
      BY <2>1, SeededIsThePolicy DEF Kept
    <3>3. risk = Scored(risk.matrix, risk.severity, risk.likelihood, risk.source)
      BY <2>1 DEF Kept
    <3>4. /\ Scored(risk.matrix, risk.severity, risk.likelihood, risk.source).level
               = result.level
          /\ Scored(risk.matrix, risk.severity, risk.likelihood, risk.source).blocking
               = result.blocking
      BY <3>1 DEF Scored
    <3> HIDE DEF result
    <3> QED
      BY <3>2, <3>3, <3>4
  <2> QED
    BY <2>1, <2>2 DEF Kept, risk
<1> QED
  BY <1>1, PolicyInvInit, PolicyInvStep, PTL DEF PolicySpec

-----------------------------------------------------------------------------
(* Checklist templates                                                       *)

Gone == {"UNUSED", "DELETED"}
Statuses == Gone \cup {"DRAFT", "PUBLISHED", "ARCHIVED"}

TemplateRows == [state : {"unused", "live", "deleted"}, name : Names \cup {NoName}]
VersionRows == [template : Nat, number : Nat, status : Statuses]

\* The rows, and that a version belongs to a template that has been created
\* exactly while it is neither unused nor deleted.
RowsTypeOK ==
    /\ templates \in [TemplateIds -> TemplateRows]
    /\ versions \in [VersionIds -> VersionRows]
    /\ naming \in [Admins -> Names \cup {NoName}]
    /\ \A v \in VersionIds : versions[v].template # 0 <=> versions[v].status \notin Gone
    /\ \A t \in TemplateIds : templates[t].state = "unused" => VersionsOf(t) = {}

\* Ids are used from the first one on, and bound the number of a version.
UsedInOrder ==
    /\ \A v, w \in VersionIds :
          w < v /\ versions[v].status # "UNUSED" => versions[w].status # "UNUSED"
    /\ \A v \in VersionIds : versions[v].number <= v

\* A live template has a version to copy.
LiveHasVersion == \A t \in TemplateIds : Live(t) => VersionsOf(t) # {}

VersionsInv == RowsTypeOK /\ UsedInOrder /\ LiveHasVersion /\ OneActiveVersion

(* A bounded nonempty set of naturals has a greatest element.                *)
LEMMA GreatestExists ==
    ASSUME NEW n \in Nat, NEW numbers \in SUBSET (0..n), numbers # {}
    PROVE  \E i \in numbers : \A j \in numbers : j <= i
<1> DEFINE R == OpToRel(<, Nat)
           gaps == {k \in Nat : n - k \in numbers}
<1>1. gaps # {} /\ gaps \subseteq Nat
  <2>1. PICK i \in numbers : TRUE
    OBVIOUS
  <2>2. n - i \in Nat /\ n - (n - i) = i
    OBVIOUS
  <2> QED
    BY <2>2
<1>2. IsWellFoundedOn(R, Nat)
  BY NatLessThanWellFounded
<1>3. PICK g \in gaps : \A h \in gaps : ~(<<h, g>> \in R)
  <2> HIDE DEF gaps, R
  <2> QED
    BY <1>1, <1>2, WFMin, Zenon
<1>4. \A h \in gaps : ~(h < g)
  BY <1>3 DEF OpToRel
<1>5. \A j \in numbers : n - j \in gaps
  <2> TAKE j \in numbers
  <2> QED
    OBVIOUS
<1>6. \A j \in numbers : j <= n - g
  BY <1>4, <1>5
<1> QED
  BY <1>6

(* createVersion numbers on from a version whose number is the greatest.     *)
LEMMA LatestIsGreatest ==
    ASSUME VersionsInv, NEW t \in TemplateIds, VersionsOf(t) # {}
    PROVE  /\ Latest(t) \in VersionsOf(t)
           /\ \A w \in VersionsOf(t) : versions[w].number <= versions[Latest(t)].number
<1> DEFINE numbers == {versions[w].number : w \in VersionsOf(t)}
<1>1. MaxVersions \in Nat
  BY TemplateBounds
<1>2. numbers \in SUBSET (0..MaxVersions) /\ numbers # {}
  <2>1. \A w \in VersionIds : versions[w].number \in 0..MaxVersions
    BY <1>1 DEF VersionsInv, RowsTypeOK, UsedInOrder, VersionIds, VersionRows
  <2>2. VersionsOf(t) \subseteq VersionIds
    BY DEF VersionsOf
  <2> QED
    BY <2>1, <2>2
<1>3. PICK i \in numbers : \A j \in numbers : j <= i
  <2> HIDE DEF numbers
  <2> QED
    BY <1>1, <1>2, GreatestExists
<1>4. \E v \in VersionsOf(t) :
        \A w \in VersionsOf(t) : versions[w].number <= versions[v].number
  BY <1>3
<1> QED
  BY <1>4 DEF Latest

(* A new version of t takes an id after all used ones.                       *)
LEMMA FreshComesLast ==
    ASSUME VersionsInv, NEW v \in VersionIds, FreshVersion(v)
    PROVE  /\ versions[v].status = "UNUSED"
           /\ \A w \in VersionIds : versions[w].status # "UNUSED" => w < v
BY TemplateBounds DEF VersionsInv, UsedInOrder, FreshVersion, VersionIds

\* A version is added to a template, with the greatest number and as its only
\* draft.
AddsVersion(t, v, number) ==
    /\ FreshVersion(v)
    /\ versions' = [versions EXCEPT
                      ![v] = [template |-> t, number |-> number, status |-> "DRAFT"]]
    /\ WithStatus(t, "DRAFT") = {}
    /\ \A w \in VersionsOf(t) : versions[w].number < number
    /\ number \in Nat /\ number <= v

LEMMA AddingKeepsVersions ==
    ASSUME VersionsInv, NEW t \in TemplateIds, NEW v \in VersionIds, NEW number,
           AddsVersion(t, v, number),
           templates' \in [TemplateIds -> TemplateRows],
           naming' \in [Admins -> Names \cup {NoName}],
           templates'[t].state = "live",
           \A u \in TemplateIds \ {t} : templates'[u] = templates[u]
    PROVE  VersionsInv'
<1>1. /\ versions \in [VersionIds -> VersionRows]
      /\ v \in Nat /\ t \in Nat \ {0} /\ VersionIds \subseteq Nat
  BY TemplateBounds DEF VersionsInv, RowsTypeOK, VersionIds, TemplateIds
<1>2. /\ versions'[v].template = t /\ versions'[v].number = number
      /\ versions'[v].status = "DRAFT"
      /\ \A w \in VersionIds \ {v} : versions'[w] = versions[w]
  BY <1>1 DEF AddsVersion
<1>3. versions' \in [VersionIds -> VersionRows]
  BY <1>1 DEF AddsVersion, VersionRows, Statuses
<1>4. /\ versions[v].status = "UNUSED" /\ versions[v].template = 0
      /\ \A w \in VersionIds : versions[w].status # "UNUSED" => w < v
  BY FreshComesLast DEF AddsVersion, VersionsInv, RowsTypeOK, Gone
<1>5. /\ VersionsOf(t)' = VersionsOf(t) \cup {v}
      /\ \A u \in TemplateIds \ {t} : VersionsOf(u)' = VersionsOf(u)
  <2>1. \A w \in VersionIds, u \in TemplateIds :
           versions'[w].template = u <=> IF w = v THEN u = t ELSE versions[w].template = u
    BY <1>2
  <2>2. \A u \in TemplateIds : 0 # u
    BY DEF TemplateIds
  <2> QED
    BY <1>4, <2>1, <2>2 DEF VersionsOf
<1>6. RowsTypeOK'
  <2>1. \A w \in VersionIds : versions'[w].template # 0 <=> versions'[w].status \notin Gone
    BY <1>1, <1>2 DEF VersionsInv, RowsTypeOK, Gone
  <2>2. \A u \in TemplateIds : templates'[u].state = "unused" => VersionsOf(u)' = {}
    BY <1>5 DEF VersionsInv, RowsTypeOK
  <2> QED
    BY <1>3, <2>1, <2>2 DEF RowsTypeOK
<1>7. UsedInOrder'
  BY <1>1, <1>2, <1>4 DEF VersionsInv, UsedInOrder, AddsVersion, FreshVersion, VersionIds
<1>8. LiveHasVersion'
  BY <1>5 DEF VersionsInv, LiveHasVersion, Live
<1>9. OneActiveVersion'
  <2> SUFFICES ASSUME NEW u \in TemplateIds, NEW x \in VersionIds, NEW y \in VersionIds,
                      x # y, x \in VersionsOf(u)', y \in VersionsOf(u)'
               PROVE  /\ versions'[x].number # versions'[y].number
                      /\ versions'[x].status = versions'[y].status
                           => versions'[x].status = "ARCHIVED"
    BY DEF OneActiveVersion
  <2>1. CASE x # v /\ y # v
    <3>1. x \in VersionsOf(u) /\ y \in VersionsOf(u)
      BY <1>5, <2>1
    <3> QED
      BY <1>2, <2>1, <3>1 DEF VersionsInv, OneActiveVersion
  <2>2. ASSUME NEW z \in VersionIds, z # v, z \in VersionsOf(t)
        PROVE  versions[z].number # number /\ versions[z].status # "DRAFT"
    BY <1>1, <2>2 DEF AddsVersion, WithStatus, VersionRows
  <2>3. x = v \/ y = v => u = t
    BY <1>2 DEF VersionsOf
  <2> QED
    BY <1>2, <1>5, <2>1, <2>2, <2>3
<1> QED
  BY <1>6, <1>7, <1>8, <1>9 DEF VersionsInv

\* Versions get another status: one of the three, and at most one version of a
\* template each but the archived ones.
RestatusesVersions ==
    /\ UNCHANGED <<templates, naming>>
    /\ versions' \in [VersionIds -> VersionRows]
    /\ \A v \in VersionIds :
          /\ versions'[v].template = versions[v].template
          /\ versions'[v].number = versions[v].number
          /\ versions'[v].status # versions[v].status =>
               /\ versions[v].status \notin Gone
               /\ \/ versions'[v].status = "ARCHIVED"
                  \/ /\ versions'[v].status = "PUBLISHED"
                     /\ \A w \in VersionsOf(versions[v].template) \ {v} :
                           versions'[w].status # "PUBLISHED"

LEMMA RestatusingKeepsVersions ==
    ASSUME VersionsInv, RestatusesVersions
    PROVE  VersionsInv'
<1>1. \A t : VersionsOf(t)' = VersionsOf(t)
  BY DEF RestatusesVersions, VersionsOf
<1>2. \A v \in VersionIds : versions'[v].status \in Gone <=> versions[v].status \in Gone
  BY DEF RestatusesVersions, Gone
<1>3. \A v \in VersionIds : versions'[v].status = "UNUSED" <=> versions[v].status = "UNUSED"
  BY DEF RestatusesVersions, Gone
<1>4. RowsTypeOK'
  BY <1>1, <1>2 DEF VersionsInv, RowsTypeOK, RestatusesVersions
<1>5. UsedInOrder'
  BY <1>3 DEF VersionsInv, UsedInOrder, RestatusesVersions
<1>6. LiveHasVersion'
  BY <1>1 DEF VersionsInv, LiveHasVersion, Live, RestatusesVersions
<1>7. OneActiveVersion'
  <2> SUFFICES ASSUME NEW t \in TemplateIds, NEW v \in VersionIds, NEW w \in VersionIds,
                      v # w, v \in VersionsOf(t)', w \in VersionsOf(t)'
               PROVE  /\ versions'[v].number # versions'[w].number
                      /\ versions'[v].status = versions'[w].status
                           => versions'[v].status = "ARCHIVED"
    BY DEF OneActiveVersion
  <2>1. v \in VersionsOf(t) /\ w \in VersionsOf(t)
    BY <1>1
  <2>2. versions[v].template = t /\ versions[w].template = t
    BY <2>1 DEF VersionsOf
  <2>3. /\ versions[v].number # versions[w].number
        /\ versions[v].status = versions[w].status => versions[v].status = "ARCHIVED"
    BY <2>1 DEF VersionsInv, OneActiveVersion
  <2> QED
    BY <2>1, <2>2, <2>3 DEF RestatusesVersions
<1> QED
  BY <1>4, <1>5, <1>6, <1>7 DEF VersionsInv

\* A template goes with its versions, the ids stay used.
DropsTemplate(t) ==
    /\ templates' \in [TemplateIds -> TemplateRows]
    /\ templates'[t].state = "deleted"
    /\ \A u \in TemplateIds \ {t} : templates'[u] = templates[u]
    /\ versions' = [v \in VersionIds |->
                       IF v \in VersionsOf(t)
                       THEN [template |-> 0, number |-> 0, status |-> "DELETED"]
                       ELSE versions[v]]
    /\ UNCHANGED naming

LEMMA DroppingKeepsVersions ==
    ASSUME VersionsInv, NEW t \in TemplateIds, DropsTemplate(t)
    PROVE  VersionsInv'
<1>1. \A v \in VersionIds :
        IF v \in VersionsOf(t)
        THEN /\ versions'[v].template = 0 /\ versions'[v].number = 0
             /\ versions'[v].status = "DELETED"
        ELSE versions'[v] = versions[v]
  BY DEF DropsTemplate
<1>2. /\ VersionsOf(t)' = {}
      /\ \A u \in TemplateIds \ {t} : VersionsOf(u)' = VersionsOf(u)
  <2>1. \A u \in TemplateIds : 0 # u
    BY DEF TemplateIds
  <2> QED
    BY <1>1, <2>1 DEF VersionsOf
<1>3. RowsTypeOK'
  <2>1. versions' \in [VersionIds -> VersionRows]
    BY DEF DropsTemplate, VersionsInv, RowsTypeOK, VersionRows, Statuses, Gone
  <2>2. \A v \in VersionIds : versions'[v].template # 0 <=> versions'[v].status \notin Gone
    BY <1>1 DEF VersionsInv, RowsTypeOK, Gone
  <2> QED
    BY <1>2, <2>1, <2>2 DEF VersionsInv, RowsTypeOK, DropsTemplate
<1>4. UsedInOrder'
  <2>1. \A v \in VersionIds : versions'[v].status = "UNUSED" <=> versions[v].status = "UNUSED"
    BY <1>1 DEF VersionsInv, RowsTypeOK, Gone, VersionsOf, TemplateIds
  <2> QED
    BY <1>1, <2>1 DEF VersionsInv, UsedInOrder, VersionIds
<1>5. LiveHasVersion'
  BY <1>2 DEF VersionsInv, LiveHasVersion, Live, DropsTemplate
<1>6. OneActiveVersion'
  <2>1. \A u \in TemplateIds : VersionsOf(u)' \subseteq VersionsOf(u) \ VersionsOf(t)
    BY <1>2 DEF VersionsOf
  <2> QED
    BY <1>1, <2>1 DEF VersionsInv, OneActiveVersion
<1> QED
  BY <1>3, <1>4, <1>5, <1>6 DEF VersionsInv

-----------------------------------------------------------------------------
\* What a step does to the versions.
VersionsEffect ==
    \/ /\ UNCHANGED <<templates, versions>>
       /\ naming' \in [Admins -> Names \cup {NoName}]
    \/ /\ \E t \in TemplateIds, v \in VersionIds : \E number \in Nat :
             AddsVersion(t, v, number) /\ templates'[t].state = "live"
             /\ \A u \in TemplateIds \ {t} : templates'[u] = templates[u]
       /\ templates' \in [TemplateIds -> TemplateRows]
       /\ naming' \in [Admins -> Names \cup {NoName}]
    \/ RestatusesVersions
    \/ \E t \in TemplateIds : DropsTemplate(t)

LEMMA CreatedTemplateAdds ==
    ASSUME VersionsInv, NEW a \in Admins, CreateTemplate(a)
    PROVE  VersionsEffect
<1>1. naming' \in [Admins -> Names \cup {NoName}]
  BY DEF CreateTemplate, VersionsInv, RowsTypeOK
<1>2. CASE UNCHANGED <<templates, versions>>
  BY <1>1, <1>2 DEF VersionsEffect
<1>3. ASSUME NEW t \in TemplateIds, NEW v \in VersionIds, FreshTemplate(t), FreshVersion(v),
             templates' = [templates EXCEPT ![t] = [state |-> "live", name |-> naming[a]]],
             versions' = [versions EXCEPT
                            ![v] = [template |-> t, number |-> 1, status |-> "DRAFT"]]
      PROVE  VersionsEffect
  <2>1. /\ templates' \in [TemplateIds -> TemplateRows]
        /\ templates'[t].state = "live"
        /\ \A u \in TemplateIds \ {t} : templates'[u] = templates[u]
    BY <1>3 DEF VersionsInv, RowsTypeOK, TemplateRows
  <2>2. VersionsOf(t) = {}
    BY <1>3 DEF FreshTemplate, VersionsInv, RowsTypeOK
  <2>3. AddsVersion(t, v, 1)
    BY <1>3, <2>2 DEF AddsVersion, WithStatus, VersionIds
  <2> QED
    BY <1>1, <2>1, <2>3 DEF VersionsEffect
<1> QED
  BY <1>2, <1>3 DEF CreateTemplate

LEMMA CreatedVersionAdds ==
    ASSUME VersionsInv, NEW t \in TemplateIds, CreateVersion(t)
    PROVE  VersionsEffect
<1> DEFINE latest == Latest(t)
           number == versions[latest].number + 1
<1>1. PICK v \in VersionIds :
        /\ FreshVersion(v)
        /\ versions' = [versions EXCEPT
                          ![v] = [template |-> t, number |-> number, status |-> "DRAFT"]]
  BY DEF CreateVersion
<1>2. VersionsOf(t) # {}
  BY DEF CreateVersion, VersionsInv, LiveHasVersion
<1>3. /\ latest \in VersionsOf(t)
      /\ \A w \in VersionsOf(t) : versions[w].number <= versions[latest].number
  BY <1>2, LatestIsGreatest
<1> HIDE DEF latest
<1>4. /\ VersionsOf(t) \subseteq VersionIds /\ VersionIds \subseteq Nat
      /\ \A w \in VersionIds : versions[w].number \in Nat /\ versions[w].number <= w
  BY TemplateBounds
     DEF VersionsOf, VersionsInv, RowsTypeOK, UsedInOrder, VersionRows, VersionIds
<1>5. latest < v
  <2>1. versions[latest].template = t /\ t # 0
    BY <1>3 DEF VersionsOf, TemplateIds
  <2>2. versions[latest].status # "UNUSED"
    BY <1>3, <1>4, <2>1 DEF VersionsInv, RowsTypeOK, Gone
  <2> QED
    BY <1>1, <1>3, <1>4, <2>2, FreshComesLast
<1>6. AddsVersion(t, v, number) /\ number \in Nat
  <2>1. latest \in VersionIds /\ versions[latest].number \in Nat
        /\ versions[latest].number <= latest /\ v \in Nat /\ latest \in Nat
    BY <1>3, <1>4
  <2>2. number \in Nat /\ number <= v
    BY <2>1, <1>5
  <2>3. \A w \in VersionsOf(t) : versions[w].number < number
    BY <1>3, <1>4, <2>1
  <2>4. WithStatus(t, "DRAFT") = {}
    BY DEF CreateVersion
  <2> HIDE DEF number
  <2> QED
    BY <1>1, <2>2, <2>3, <2>4 DEF AddsVersion
<1>7. /\ UNCHANGED <<templates, naming>> /\ templates[t].state = "live"
  BY DEF CreateVersion, Live
<1> HIDE DEF number
<1> QED
  BY <1>6, <1>7 DEF VersionsEffect, VersionsInv, RowsTypeOK

LEMMA SetStatusRestatuses ==
    ASSUME VersionsInv, NEW v \in VersionIds, NEW status \in {"PUBLISHED", "ARCHIVED"},
           versions[v].status \notin Gone, SetStatus(v, status),
           UNCHANGED <<templates, naming>>
    PROVE  RestatusesVersions
<1>1. versions \in [VersionIds -> VersionRows]
  BY DEF VersionsInv, RowsTypeOK
<1>2. \A w \in VersionIds :
        versions'[w] = IF w = v THEN [versions[w] EXCEPT !.status = status]
                       ELSE IF status = "PUBLISHED"
                               /\ w \in WithStatus(versions[v].template, "PUBLISHED")
                       THEN [versions[w] EXCEPT !.status = "ARCHIVED"]
                       ELSE versions[w]
  BY DEF SetStatus
<1>3. /\ versions' \in [VersionIds -> VersionRows]
      /\ versions'[v].status = status
      /\ \A w \in VersionIds :
           /\ versions'[w].template = versions[w].template
           /\ versions'[w].number = versions[w].number
  BY <1>1, <1>2 DEF SetStatus, VersionRows, Statuses
<1>4. \A w \in VersionIds \ {v} :
        versions'[w].status =
          IF status = "PUBLISHED" /\ w \in WithStatus(versions[v].template, "PUBLISHED")
          THEN "ARCHIVED" ELSE versions[w].status
  BY ZenonT(60), <1>1, <1>2 DEF VersionRows
<1>5. \A w \in WithStatus(versions[v].template, "PUBLISHED") :
        w \in VersionIds /\ versions[w].status = "PUBLISHED"
  BY DEF WithStatus, VersionsOf
<1>6. status = "PUBLISHED" =>
        \A w \in VersionsOf(versions[v].template) \ {v} : versions'[w].status # "PUBLISHED"
  BY <1>4 DEF WithStatus, VersionsOf
<1> QED
  BY <1>3, <1>4, <1>5, <1>6 DEF RestatusesVersions, Gone

LEMMA VersionsEffects == ASSUME VersionsInv, [TemplateNext]_templateVars PROVE VersionsEffect
<1>1. CASE UNCHANGED templateVars
  BY <1>1 DEF VersionsEffect, templateVars, VersionsInv, RowsTypeOK
<1>2. ASSUME NEW a \in Admins, NEW n \in Names, CheckName(a, n)
      PROVE  VersionsEffect
  BY <1>2 DEF CheckName, VersionsEffect, VersionsInv, RowsTypeOK
<1>3. ASSUME NEW t \in TemplateIds, DeleteTemplate(t)
      PROVE  VersionsEffect
  <2>1. DropsTemplate(t)
    BY <1>3 DEF DeleteTemplate, DropsTemplate, VersionsInv, RowsTypeOK, TemplateRows
  <2> QED
    BY <2>1 DEF VersionsEffect
<1>4. ASSUME NEW v \in VersionIds, PublishVersion(v) \/ ArchiveVersion(v)
      PROVE  VersionsEffect
  BY <1>4, SetStatusRestatuses DEF PublishVersion, ArchiveVersion, VersionsEffect, Gone
<1>5. ASSUME NEW v \in VersionIds, EditDraft(v)
      PROVE  VersionsEffect
  BY <1>5 DEF EditDraft, AddStep, UpdateStep, DeleteStep, MoveStep, SetSteps,
              VersionsEffect, VersionsInv, RowsTypeOK
<1>6. ASSUME NEW j \in ChecklistJobs, InsertChecklist(j) \/ \E v \in VersionIds : ReadPublished(j, v)
      PROVE  VersionsEffect
  BY <1>6 DEF InsertChecklist, ReadPublished, VersionsEffect, VersionsInv, RowsTypeOK
<1> QED
  BY <1>1, <1>2, <1>3, <1>4, <1>5, <1>6, CreatedTemplateAdds, CreatedVersionAdds
     DEF TemplateNext

LEMMA VersionsStep == VersionsInv /\ [TemplateNext]_templateVars => VersionsInv'
<1> SUFFICES ASSUME VersionsInv, [TemplateNext]_templateVars
             PROVE  VersionsInv'
  OBVIOUS
<1>1. ASSUME UNCHANGED <<templates, versions>>, naming' \in [Admins -> Names \cup {NoName}]
      PROVE  VersionsInv'
  BY <1>1 DEF VersionsInv, RowsTypeOK, UsedInOrder, LiveHasVersion, OneActiveVersion,
              VersionsOf, Live
<1> QED
  BY <1>1, VersionsEffects, AddingKeepsVersions, RestatusingKeepsVersions,
     DroppingKeepsVersions DEF VersionsEffect

LEMMA VersionsInvariant == TemplateSpec => []VersionsInv
<1>1. TemplateInit => VersionsInv
  <2> SUFFICES ASSUME TemplateInit
               PROVE  VersionsInv
    OBVIOUS
  <2>1. \A v \in VersionIds : versions[v] = NoVersion
    BY DEF TemplateInit
  <2>2. \A t \in TemplateIds : VersionsOf(t) = {} /\ templates[t].state = "unused"
    BY <2>1 DEF TemplateInit, VersionsOf, TemplateIds, NoVersion, NoTemplate
  <2>3. RowsTypeOK
    BY <2>1, <2>2 DEF TemplateInit, RowsTypeOK, NoVersion, NoTemplate, TemplateRows,
                      VersionRows, Statuses, Gone
  <2>4. UsedInOrder
    BY <2>1 DEF UsedInOrder, NoVersion, VersionIds
  <2> QED
    BY <2>2, <2>3, <2>4 DEF VersionsInv, LiveHasVersion, OneActiveVersion, Live
<1> QED
  BY <1>1, VersionsStep, PTL DEF TemplateSpec

(* At most one draft and one published version of a template, and numbers    *)
(* that never repeat, for any number of administrators and versions.         *)
THEOREM OneVersionIsActive == TemplateSpec => []OneActiveVersion
<1>1. VersionsInv => OneActiveVersion
  BY DEF VersionsInv
<1> QED
  BY <1>1, VersionsInvariant, PTL

-----------------------------------------------------------------------------
(* The steps of a version.                                                   *)

Shapes == [id : Nat, order : Nat, content : Contents]

\* The steps S have ids of their own and the orders 1..n, each once.
Numbered(S, n) ==
    /\ S \subseteq Shapes
    /\ \A s \in S : s.order \in 1..n
    /\ \A k \in 1..n : \E s \in S : s.order = k
    /\ \A s, r \in S : s.order = r.order => s = r
    /\ \A s, r \in S : s.id = r.id => s = r

(* Numbered steps can be counted by their orders, and by their ids.          *)
LEMMA NumberedCount ==
    ASSUME NEW S, NEW n \in Nat, Numbered(S, n)
    PROVE  /\ IsFiniteSet(S) /\ Cardinality(S) = n
           /\ Cardinality(Ids(S)) = n
           /\ {s.order : s \in S} = 1..n
<1> DEFINE at == [k \in 1..n |-> CHOOSE s \in S : s.order = k]
           idAt == [k \in 1..n |-> at[k].id]
<1>1. \A k \in 1..n : at[k] \in S /\ at[k].order = k
  BY DEF Numbered
<1>2. \A s \in S : s.order \in 1..n /\ at[s.order] = s
  <2> HIDE DEF at
  <2> QED
    BY <1>1 DEF Numbered
<1> HIDE DEF at
<1>3. at \in [1..n -> S]
  BY <1>1 DEF at
<1>4. at \in Bijection(1..n, S)
  BY <1>1, <1>2, <1>3 DEF Bijection, Injection, Surjection, IsInjective
<1>5. idAt \in Bijection(1..n, Ids(S))
  <2>1. \A k \in 1..n : idAt[k] = at[k].id
    OBVIOUS
  <2>2. idAt \in [1..n -> Ids(S)]
    BY <1>1 DEF Ids
  <2> HIDE DEF idAt
  <2>3. \A j, k \in 1..n : idAt[j] = idAt[k] => j = k
    <3> TAKE j, k \in 1..n
    <3> HAVE idAt[j] = idAt[k]
    <3>1. at[j] = at[k]
      BY <1>1, <2>1 DEF Numbered
    <3> QED
      BY <1>1, <3>1
  <2>4. \A i \in Ids(S) : \E k \in 1..n : idAt[k] = i
    BY <1>2, <2>1 DEF Ids
  <2> QED
    BY <2>2, <2>3, <2>4 DEF Bijection, Injection, Surjection, IsInjective
<1>6. ExistsBijection(1..n, S) /\ ExistsBijection(1..n, Ids(S))
  BY <1>4, <1>5 DEF ExistsBijection
<1>7. IsFiniteSet(S)
  BY <1>6, FS_NatBijection
<1>8. Cardinality(S) = n /\ Cardinality(Ids(S)) = n
  BY <1>6, FS_CountingElements
<1>9. {s.order : s \in S} = 1..n
  BY DEF Numbered
<1> QED
  BY <1>7, <1>8, <1>9

(* There are k steps up to the order k.                                      *)
LEMMA CountUpTo ==
    ASSUME NEW S, NEW n \in Nat, Numbered(S, n), NEW k \in 0..n
    PROVE  /\ IsFiniteSet({s \in S : s.order <= k})
           /\ Cardinality({s \in S : s.order <= k}) = k
<1> DEFINE T == {s \in S : s.order <= k}
<1>1. Numbered(T, k)
  BY DEF Numbered
<1> HIDE DEF T
<1>2. IsFiniteSet(T) /\ Cardinality(T) = k
  BY <1>1, NumberedCount
<1> QED
  BY <1>2 DEF T

(* Among numbered steps the rank of a step is its order; without the step x, *)
(* the steps after x move up by one.                                         *)
LEMMA RankOfNumbered ==
    ASSUME NEW S, NEW n \in Nat, Numbered(S, n), NEW s \in S
    PROVE  Rank(s, S) = s.order
<1>1. s.order \in 1..n
  BY DEF Numbered
<1>2. Cardinality({r \in S : r.order <= s.order}) = s.order
  BY <1>1, CountUpTo
<1> QED
  BY <1>2 DEF Rank

LEMMA RankWithoutOne ==
    ASSUME NEW S, NEW n \in Nat, Numbered(S, n), NEW x \in S, NEW s \in S \ {x}
    PROVE  Rank(s, S \ {x}) = IF s.order < x.order THEN s.order ELSE s.order - 1
<1> DEFINE upTo == {r \in S : r.order <= s.order}
<1>1. /\ s.order \in 1..n /\ x.order \in 1..n /\ s.order # x.order
      /\ \A r \in S : r.order \in Nat
  BY DEF Numbered
<1>2. IsFiniteSet(upTo) /\ Cardinality(upTo) = s.order
  BY <1>1, CountUpTo
<1>3. {r \in S \ {x} : r.order <= s.order} = upTo \ {x}
  OBVIOUS
<1>4. x \in upTo <=> ~(s.order < x.order)
  BY <1>1
<1> HIDE DEF upTo
<1>5. Cardinality(upTo \ {x}) = IF x \in upTo THEN s.order - 1 ELSE s.order
  BY <1>2, FS_RemoveElement
<1> QED
  BY <1>3, <1>4, <1>5 DEF Rank

(* What each operation on a draft leaves is numbered again.                  *)
LEMMA AddingKeepsNumbers ==
    ASSUME NEW S, NEW n \in Nat, Numbered(S, n), NEW id \in Nat, NEW c \in Contents,
           \A s \in S : s.id # id
    PROVE  Numbered(S \cup {StepRow(id, MaxOrder(S) + 1, c)}, n + 1)
<1>1. MaxOrder(S) = n
  <2>1. CASE S = {}
    BY <2>1 DEF Numbered, MaxOrder
  <2>2. CASE S # {}
    <3>1. PICK last \in S : last.order = n
      BY <2>2 DEF Numbered
    <3>2. \E s \in S : \A r \in S : r.order <= s.order
      BY <3>1 DEF Numbered
    <3>3. PICK s \in S : /\ s = CHOOSE x \in S : \A r \in S : r.order <= x.order
                         /\ \A r \in S : r.order <= s.order
      BY <3>2
    <3>4. s.order = n
      BY <3>1, <3>3 DEF Numbered
    <3> QED
      BY <2>2, <3>3, <3>4 DEF MaxOrder
  <2> QED
    BY <2>1, <2>2
<1> DEFINE new == StepRow(id, n + 1, c)
<1>2. new \in Shapes /\ new.order = n + 1 /\ new.id = id
  BY DEF Shapes, StepRow
<1> HIDE DEF new
<1>3. Numbered(S \cup {new}, n + 1)
  BY <1>2 DEF Numbered
<1> QED
  BY <1>1, <1>3 DEF new

LEMMA RewritingKeepsNumbers ==
    ASSUME NEW S, NEW n \in Nat, Numbered(S, n), NEW s \in S, NEW c \in Contents
    PROVE  Numbered((S \ {s}) \cup {[s EXCEPT !.content = c]}, n)
<1> DEFINE new == [s EXCEPT !.content = c]
<1>1. new \in Shapes /\ new.order = s.order /\ new.id = s.id
  BY DEF Numbered, Shapes
<1> HIDE DEF new
<1>2. Numbered((S \ {s}) \cup {new}, n)
  BY <1>1 DEF Numbered
<1> QED
  BY <1>2 DEF new

LEMMA SwappingKeepsNumbers ==
    ASSUME NEW S, NEW n \in Nat, Numbered(S, n), NEW s \in S, NEW r \in S, s.order # r.order
    PROVE  Numbered((S \ {s, r}) \cup {[s EXCEPT !.order = r.order],
                                       [r EXCEPT !.order = s.order]}, n)
<1> DEFINE s2 == [s EXCEPT !.order = r.order]
           r2 == [r EXCEPT !.order = s.order]
<1>1. /\ s2 \in Shapes /\ s2.order = r.order /\ s2.id = s.id
      /\ r2 \in Shapes /\ r2.order = s.order /\ r2.id = r.id
  BY DEF Numbered, Shapes
<1> HIDE DEF s2, r2
<1>2. Numbered((S \ {s, r}) \cup {s2, r2}, n)
  BY <1>1 DEF Numbered
<1> QED
  BY <1>2 DEF s2, r2

LEMMA RenumberingNumbers ==
    ASSUME NEW S, NEW n \in Nat, Numbered(S, n), NEW x \in S
    PROVE  n - 1 \in Nat /\ Numbered(Renumbered(S \ {x}), n - 1)
<1> DEFINE place(s) == IF s.order < x.order THEN s.order ELSE s.order - 1
           new(s) == [s EXCEPT !.order = place(s)]
           T == {new(s) : s \in S \ {x}}
<1>1. /\ x.order \in 1..n
      /\ \A s \in S \ {x} : s.order \in 1..n /\ s.order # x.order /\ s \in Shapes
  BY DEF Numbered
<1>2. \A s \in S \ {x} : place(s) \in 1..(n - 1)
  BY <1>1
<1>3. \A s \in S \ {x} : new(s) \in Shapes /\ new(s).order = place(s) /\ new(s).id = s.id
  BY <1>1, <1>2 DEF Shapes
<1>4. \A k \in 1..(n - 1) : \E s \in S \ {x} : place(s) = k
  <2> TAKE k \in 1..(n - 1)
  <2>1. CASE k < x.order
    <3>1. PICK s \in S : s.order = k
      BY DEF Numbered
    <3> QED
      BY <2>1, <3>1
  <2>2. CASE ~(k < x.order)
    <3>1. PICK s \in S : s.order = k + 1
      BY <1>1 DEF Numbered
    <3> QED
      BY <1>1, <2>2, <3>1
  <2> QED
    BY <2>1, <2>2
<1>5. \A s, r \in S \ {x} : place(s) = place(r) => s = r
  <2> TAKE s, r \in S \ {x}
  <2> HAVE place(s) = place(r)
  <2>1. s.order = r.order
    BY <1>1
  <2> QED
    BY <2>1 DEF Numbered
<1>6. Renumbered(S \ {x}) = T
  <2>1. \A s \in S \ {x} : [s EXCEPT !.order = Rank(s, S \ {x})] = new(s)
    BY RankWithoutOne
  <2> QED
    <3>1. Renumbered(S \ {x}) = {[s EXCEPT !.order = Rank(s, S \ {x})] : s \in S \ {x}}
      BY DEF Renumbered
    <3> HIDE DEF new
    <3> QED
      BY <2>1, <3>1
<1> HIDE DEF place, new
<1>7. Numbered(T, n - 1)
  <2>1. T \subseteq Shapes /\ \A t \in T : t.order \in 1..(n - 1)
    BY <1>2, <1>3
  <2>2. \A k \in 1..(n - 1) : \E t \in T : t.order = k
    BY <1>3, <1>4
  <2>3. \A t, u \in T : t.order = u.order => t = u
    BY <1>3, <1>5
  <2>4. \A t, u \in T : t.id = u.id => t = u
    BY <1>3 DEF Numbered
  <2> QED
    BY <2>1, <2>2, <2>3, <2>4 DEF Numbered
<1>8. n - 1 \in Nat
  BY <1>1
<1> HIDE DEF T
<1> QED
  BY <1>6, <1>7, <1>8

LEMMA CopyingKeepsNumbers ==
    ASSUME NEW S, NEW n \in Nat, Numbered(S, n), lastStep \in Nat
    PROVE  /\ Numbered(Copied(S), n)
           /\ \A s \in Copied(S) : s.id <= lastStep + n
<1> DEFINE new(s) == StepRow(lastStep + s.order, s.order, s.content)
           T == {new(s) : s \in S}
<1>1. \A s \in S : /\ new(s) \in Shapes /\ new(s).order = s.order
                   /\ new(s).id = lastStep + s.order
                   /\ s.order \in 1..n
  BY DEF Numbered, Shapes, StepRow
<1>2. Copied(S) = T
  <2>1. \A s \in S : StepRow(lastStep + Rank(s, S), s.order, s.content) = new(s)
    BY RankOfNumbered
  <2> QED
    BY <2>1 DEF Copied
<1> HIDE DEF new
<1>3. T \subseteq Shapes /\ \A t \in T : t.order \in 1..n /\ t.id <= lastStep + n
  BY <1>1
<1>4. \A k \in 1..n : \E t \in T : t.order = k
  BY <1>1 DEF Numbered
<1>5. \A t, u \in T : t.order = u.order => t = u
  BY <1>1 DEF Numbered
<1>6. \A t, u \in T : t.id = u.id => t = u
  <2> TAKE t, u \in T
  <2> HAVE t.id = u.id
  <2>1. t.order = u.order
    BY <1>1
  <2> QED
    BY <1>5, <2>1
<1> QED
  BY <1>2, <1>3, <1>4, <1>5, <1>6 DEF Numbered

-----------------------------------------------------------------------------
(* The checklists of jobs.                                                   *)

StepsInv ==
    /\ lastStep \in Nat
    /\ stepsOf \in [VersionIds -> SUBSET Shapes]
    /\ \A v \in VersionIds : \E n \in Nat : Numbered(stepsOf[v], n)
    /\ \A v \in VersionIds : \A s \in stepsOf[v] : s.id <= lastStep

\* The steps of one version that was published, all of them.
Whole(work) ==
    /\ work.version \in VersionIds
    /\ versions[work.version].status \in {"PUBLISHED", "ARCHIVED"}
    /\ work.steps # {}
    /\ work.steps = Ids(stepsOf[work.version])

JobsInv ==
    /\ assigning \in [ChecklistJobs -> [version : 0..MaxVersions, steps : SUBSET Nat]]
    /\ assigned \in [ChecklistJobs -> [version : 0..MaxVersions, steps : SUBSET Nat]]
    /\ \A j \in ChecklistJobs :
          /\ assigning[j] # NoWork => Whole(assigning[j])
          /\ assigned[j] # NoWork => Whole(assigned[j])

\* A version that was published stays so, with its steps.
PublishedStays ==
    \A v \in VersionIds :
       versions[v].status \in {"PUBLISHED", "ARCHIVED"} =>
          /\ versions'[v].status \in {"PUBLISHED", "ARCHIVED"}
          /\ stepsOf'[v] = stepsOf[v]

(* One version gets other steps, numbered like all.                          *)
LEMMA SetStepsKeeps ==
    ASSUME StepsInv, NEW v \in VersionIds, NEW S, NEW n \in Nat, Numbered(S, n),
           stepsOf' = [stepsOf EXCEPT ![v] = S],
           lastStep' \in Nat, lastStep <= lastStep', \A s \in S : s.id <= lastStep'
    PROVE  StepsInv'
<1>1. S \in SUBSET Shapes
  BY DEF Numbered
<1>2. /\ stepsOf'[v] = S
      /\ \A w \in VersionIds \ {v} : stepsOf'[w] = stepsOf[w]
      /\ stepsOf' \in [VersionIds -> SUBSET Shapes]
  BY <1>1 DEF StepsInv
<1>3. \A w \in VersionIds : \E k \in Nat : Numbered(stepsOf'[w], k)
  BY <1>2 DEF StepsInv
<1>4. \A w \in VersionIds : \A s \in stepsOf'[w] : s.id <= lastStep'
  <2> TAKE w \in VersionIds
  <2> TAKE s \in stepsOf'[w]
  <2>1. CASE w = v
    BY <1>2, <2>1
  <2>2. CASE w # v
    <3>1. s \in stepsOf[w] /\ s.id <= lastStep
      BY <1>2, <2>2 DEF StepsInv
    <3>2. s.id \in Nat
      BY <3>1 DEF StepsInv, Shapes
    <3> QED
      BY <3>1, <3>2 DEF StepsInv
  <2> QED
    BY <2>1, <2>2
<1> QED
  BY <1>2, <1>3, <1>4 DEF StepsInv, Numbered

(* The four edits of a draft.                                                *)
LEMMA EditKeepsSteps ==
    ASSUME StepsInv, NEW v \in VersionIds, EditDraft(v)
    PROVE  StepsInv'
<1>1. PICK n \in Nat : Numbered(stepsOf[v], n)
  BY DEF StepsInv
<1>2. /\ lastStep \in Nat /\ stepsOf[v] \subseteq Shapes
      /\ \A s \in stepsOf[v] : s.id \in Nat /\ s.id <= lastStep
  BY DEF StepsInv, Shapes
<1>3. ASSUME NEW c \in Contents, AddStep(v, c)
      PROVE  StepsInv'
  <2> DEFINE S == stepsOf[v] \cup {StepRow(lastStep + 1, MaxOrder(stepsOf[v]) + 1, c)}
  <2>1. Numbered(S, n + 1)
    BY <1>1, <1>2, AddingKeepsNumbers
  <2>2. \A s \in S : s.id <= lastStep + 1
    BY <1>2 DEF StepRow
  <2>3. stepsOf' = [stepsOf EXCEPT ![v] = S] /\ lastStep' = lastStep + 1
    BY <1>3 DEF AddStep, SetSteps
  <2> HIDE DEF S
  <2>4. /\ lastStep' \in Nat /\ lastStep <= lastStep' /\ n + 1 \in Nat
        /\ \A s \in S : s.id <= lastStep'
    BY <1>2, <2>2, <2>3
  <2> QED
    BY <2>1, <2>3, <2>4, SetStepsKeeps
<1>4. ASSUME NEW S, NEW k \in Nat, Numbered(S, k), SetSteps(v, S), UNCHANGED lastStep,
             \A s \in S : \E r \in stepsOf[v] : s.id = r.id
      PROVE  StepsInv'
  <2>1. stepsOf' = [stepsOf EXCEPT ![v] = S] /\ lastStep' = lastStep
    BY <1>4 DEF SetSteps
  <2>2. /\ lastStep' \in Nat /\ lastStep <= lastStep'
        /\ \A s \in S : s.id <= lastStep'
    BY <1>2, <1>4, <2>1
  <2> QED
    BY <1>4, <2>1, <2>2, SetStepsKeeps
<1>5. ASSUME NEW s \in stepsOf[v], NEW c \in Contents, UpdateStep(v, s, c)
      PROVE  StepsInv'
  <2> DEFINE S == (stepsOf[v] \ {s}) \cup {[s EXCEPT !.content = c]}
  <2>1. Numbered(S, n)
    BY <1>1, RewritingKeepsNumbers
  <2>2. \A x \in S : \E r \in stepsOf[v] : x.id = r.id
    BY <1>2 DEF Shapes
  <2>3. SetSteps(v, S) /\ UNCHANGED lastStep
    BY <1>5 DEF UpdateStep
  <2> HIDE DEF S
  <2> QED
    BY <1>4, <2>1, <2>2, <2>3
<1>6. ASSUME NEW s \in stepsOf[v], DeleteStep(v, s)
      PROVE  StepsInv'
  <2> DEFINE S == Renumbered(stepsOf[v] \ {s})
  <2>1. n - 1 \in Nat /\ Numbered(S, n - 1)
    BY <1>1, RenumberingNumbers
  <2>2. \A x \in S : \E r \in stepsOf[v] : x.id = r.id
    BY <1>2 DEF Renumbered, Shapes
  <2>3. SetSteps(v, S) /\ UNCHANGED lastStep
    BY <1>6 DEF DeleteStep
  <2> HIDE DEF S
  <2> QED
    BY <1>4, <2>1, <2>2, <2>3
<1>7. ASSUME NEW s \in stepsOf[v], NEW m \in stepsOf[v], MoveStep(v, s, m)
      PROVE  StepsInv'
  <2> DEFINE S == (stepsOf[v] \ {s, m}) \cup {[s EXCEPT !.order = m.order],
                                              [m EXCEPT !.order = s.order]}
  <2>1. s.order # m.order
    BY <1>2, <1>7 DEF MoveStep, Shapes
  <2>2. Numbered(S, n)
    BY <1>1, <2>1, SwappingKeepsNumbers
  <2>3. \A x \in S : \E r \in stepsOf[v] : x.id = r.id
    BY <1>2 DEF Shapes
  <2>4. SetSteps(v, S) /\ UNCHANGED lastStep
    BY <1>7 DEF MoveStep
  <2> HIDE DEF S
  <2> QED
    BY <1>4, <2>2, <2>3, <2>4
<1> QED
  BY <1>3, <1>5, <1>6, <1>7 DEF EditDraft

LEMMA StepsStep ==
    ASSUME VersionsInv, StepsInv, [TemplateNext]_templateVars
    PROVE  StepsInv' /\ PublishedStays
<1>1. ASSUME UNCHANGED <<versions, stepsOf, lastStep>>
      PROVE  StepsInv' /\ PublishedStays
  BY <1>1 DEF StepsInv, PublishedStays
<1>2. CASE UNCHANGED templateVars
  BY <1>1, <1>2 DEF templateVars
<1>3. ASSUME NEW a \in Admins, CreateTemplate(a)
      PROVE  StepsInv' /\ PublishedStays
  <2>1. UNCHANGED <<stepsOf, lastStep>>
    BY <1>3 DEF CreateTemplate
  <2>2. PublishedStays
    <3>1. CASE UNCHANGED versions
      BY <2>1, <3>1 DEF PublishedStays
    <3>2. ASSUME NEW t \in TemplateIds, NEW v \in VersionIds, FreshVersion(v),
                 versions' = [versions EXCEPT
                                ![v] = [template |-> t, number |-> 1, status |-> "DRAFT"]]
          PROVE  PublishedStays
      <4>1. versions[v].status = "UNUSED"
        BY <3>2 DEF FreshVersion
      <4>2. \A w \in VersionIds \ {v} : versions'[w] = versions[w]
        BY <3>2 DEF VersionsInv, RowsTypeOK
      <4> QED
        BY <2>1, <4>1, <4>2 DEF PublishedStays
    <3> QED
      BY <1>3, <3>1, <3>2 DEF CreateTemplate
  <2> QED
    BY <2>1, <2>2 DEF StepsInv
<1>4. ASSUME NEW t \in TemplateIds, CreateVersion(t)
      PROVE  StepsInv' /\ PublishedStays
  <2> DEFINE latest == Latest(t)
             S == Copied(stepsOf[latest])
  <2>1. PICK v \in VersionIds :
          /\ FreshVersion(v)
          /\ versions' = [versions EXCEPT
                 ![v] = [template |-> t, number |-> versions[latest].number + 1,
                         status |-> "DRAFT"]]
          /\ stepsOf' = [stepsOf EXCEPT ![v] = S]
          /\ lastStep' = lastStep + Cardinality(stepsOf[latest])
    BY <1>4 DEF CreateVersion
  <2>2. latest \in VersionIds
    <3>1. VersionsOf(t) # {}
      BY <1>4 DEF CreateVersion, VersionsInv, LiveHasVersion
    <3> QED
      BY <3>1, LatestIsGreatest DEF VersionsOf
  <2> HIDE DEF latest
  <2>3. PICK n \in Nat : Numbered(stepsOf[latest], n)
    BY <2>2 DEF StepsInv
  <2>4. Numbered(S, n) /\ \A s \in S : s.id <= lastStep + n
    BY <2>3, CopyingKeepsNumbers DEF StepsInv
  <2>5. Cardinality(stepsOf[latest]) = n
    BY <2>3, NumberedCount
  <2> HIDE DEF S
  <2>6. StepsInv'
    <3>1. lastStep' \in Nat /\ lastStep <= lastStep' /\ lastStep' = lastStep + n
      BY <2>1, <2>5 DEF StepsInv
    <3> QED
      BY <2>1, <2>4, <3>1, SetStepsKeeps
  <2>7. /\ versions[v].status = "UNUSED"
        /\ \A w \in VersionIds \ {v} : versions'[w] = versions[w] /\ stepsOf'[w] = stepsOf[w]
    BY <2>1 DEF FreshVersion, VersionsInv, RowsTypeOK, StepsInv
  <2>8. PublishedStays
    BY <2>7 DEF PublishedStays
  <2> QED
    BY <2>6, <2>8
<1>5. ASSUME NEW v \in VersionIds, PublishVersion(v) \/ ArchiveVersion(v)
      PROVE  StepsInv' /\ PublishedStays
  <2>1. UNCHANGED <<stepsOf, lastStep>>
    BY <1>5 DEF PublishVersion, ArchiveVersion
  <2>2. RestatusesVersions
    BY <1>5, SetStatusRestatuses DEF PublishVersion, ArchiveVersion, Gone
  <2> QED
    BY <2>1, <2>2 DEF StepsInv, PublishedStays, RestatusesVersions
<1>6. ASSUME NEW t \in TemplateIds, DeleteTemplate(t)
      PROVE  StepsInv' /\ PublishedStays
  <2>1. /\ stepsOf' = [v \in VersionIds |-> IF v \in VersionsOf(t) THEN {} ELSE stepsOf[v]]
        /\ lastStep' = lastStep
        /\ \A v \in VersionsOf(t) : versions[v].status = "DRAFT"
        /\ \A v \in VersionIds : v \notin VersionsOf(t) => versions'[v] = versions[v]
    BY <1>6 DEF DeleteTemplate
  <2>2. Numbered({}, 0)
    BY DEF Numbered
  <2>3. StepsInv'
    BY <2>1, <2>2 DEF StepsInv
  <2>4. PublishedStays
    BY <2>1 DEF PublishedStays
  <2> QED
    BY <2>3, <2>4
<1>7. ASSUME NEW v \in VersionIds, EditDraft(v)
      PROVE  StepsInv' /\ PublishedStays
  <2>1. versions[v].status = "DRAFT" /\ UNCHANGED versions
    BY <1>7 DEF EditDraft, AddStep, UpdateStep, DeleteStep, MoveStep, LockDraftVersion,
                SetSteps
  <2>2. \A w \in VersionIds \ {v} : stepsOf'[w] = stepsOf[w]
    BY <1>7 DEF EditDraft, AddStep, UpdateStep, DeleteStep, MoveStep, SetSteps, StepsInv
  <2> QED
    BY <1>7, <2>1, <2>2, EditKeepsSteps DEF PublishedStays
<1>8. ASSUME \/ \E a \in Admins, n \in Names : CheckName(a, n)
             \/ \E j \in ChecklistJobs, v \in VersionIds : ReadPublished(j, v)
             \/ \E j \in ChecklistJobs : InsertChecklist(j)
      PROVE  StepsInv' /\ PublishedStays
  BY <1>1, <1>8 DEF CheckName, ReadPublished, InsertChecklist
<1> QED
  BY <1>2, <1>3, <1>4, <1>5, <1>6, <1>7, <1>8 DEF TemplateNext

\* What is read whole stays whole, and what is inserted was read.
LEMMA JobsStep ==
    ASSUME VersionsInv, StepsInv, JobsInv, [TemplateNext]_templateVars
    PROVE  JobsInv'
<1>1. PublishedStays
  BY StepsStep
<1>2. \A work : Whole(work) => Whole(work)'
  BY <1>1 DEF PublishedStays, Whole, Ids
<1>3. CASE UNCHANGED assignVars
  BY <1>2, <1>3 DEF JobsInv, assignVars
<1>4. ASSUME NEW j \in ChecklistJobs, NEW v \in VersionIds, ReadPublished(j, v)
      PROVE  JobsInv'
  <2> DEFINE work == [version |-> v, steps |-> Ids(stepsOf[v])]
  <2>1. /\ assigning' = [assigning EXCEPT ![j] = work] /\ UNCHANGED assigned
        /\ versions[v].status = "PUBLISHED" /\ stepsOf[v] # {}
    BY <1>4 DEF ReadPublished
  <2>2. Whole(work)
    BY <2>1 DEF Whole, Ids
  <2>3. work \in [version : 0..MaxVersions, steps : SUBSET Nat]
    BY DEF StepsInv, Shapes, Ids, VersionIds
  <2> HIDE DEF work
  <2> QED
    BY <1>2, <2>1, <2>2, <2>3 DEF JobsInv
<1>5. ASSUME NEW j \in ChecklistJobs, InsertChecklist(j)
      PROVE  JobsInv'
  <2>1. /\ assigning' = [assigning EXCEPT ![j] = NoWork] /\ assigning[j] # NoWork
        /\ \/ UNCHANGED assigned
           \/ assigned' = [assigned EXCEPT ![j] = assigning[j]]
    BY <1>5 DEF InsertChecklist
  <2>2. NoWork \in [version : 0..MaxVersions, steps : SUBSET Nat]
    BY TemplateBounds DEF NoWork
  <2> QED
    BY <1>2, <2>1, <2>2 DEF JobsInv
<1>6. ASSUME \/ \E a \in Admins, n \in Names : CheckName(a, n)
             \/ \E a \in Admins : CreateTemplate(a)
             \/ \E t \in TemplateIds : CreateVersion(t) \/ DeleteTemplate(t)
             \/ \E v \in VersionIds : PublishVersion(v) \/ ArchiveVersion(v) \/ EditDraft(v)
      PROVE  UNCHANGED assignVars
  BY <1>6 DEF CheckName, CreateTemplate, CreateVersion, DeleteTemplate, PublishVersion,
              ArchiveVersion, EditDraft, AddStep, UpdateStep, DeleteStep, MoveStep, SetSteps
<1>7. CASE UNCHANGED templateVars
  BY <1>3, <1>7 DEF templateVars, assignVars
<1> QED
  BY <1>3, <1>4, <1>5, <1>6, <1>7 DEF TemplateNext

(* The checklist of a job is one whole version that was published, in an     *)
(* order without ties or gaps: edits, publications, archivings and deletions *)
(* between the reads of the assignment and its inserts change nothing of it. *)
THEOREM ChecklistsAreWhole == TemplateSpec => []ChecklistIsAWholeVersion
<1>1. TemplateInit => StepsInv /\ JobsInv
  <2> SUFFICES ASSUME TemplateInit
               PROVE  StepsInv /\ JobsInv
    OBVIOUS
  <2>1. Numbered({}, 0)
    BY DEF Numbered
  <2>2. StepsInv
    BY <2>1 DEF TemplateInit, StepsInv
  <2>3. NoWork \in [version : 0..MaxVersions, steps : SUBSET Nat]
    BY TemplateBounds DEF NoWork
  <2> QED
    BY <2>2, <2>3 DEF TemplateInit, JobsInv
<1>2. VersionsInv /\ StepsInv /\ JobsInv /\ [TemplateNext]_templateVars
        => StepsInv' /\ JobsInv'
  BY StepsStep, JobsStep
<1>3. StepsInv /\ JobsInv => ChecklistIsAWholeVersion
  <2> SUFFICES ASSUME StepsInv, JobsInv, NEW j \in ChecklistJobs, assigned[j] # NoWork
               PROVE  /\ versions[assigned[j].version].status \in {"PUBLISHED", "ARCHIVED"}
                      /\ assigned[j].steps # {}
                      /\ assigned[j].steps = Ids(stepsOf[assigned[j].version])
                      /\ { s.order : s \in stepsOf[assigned[j].version] }
                            = 1..Cardinality(assigned[j].steps)
    BY DEF ChecklistIsAWholeVersion
  <2>1. Whole(assigned[j])
    BY DEF JobsInv
  <2> DEFINE S == stepsOf[assigned[j].version]
  <2>2. PICK n \in Nat : Numbered(S, n)
    BY <2>1 DEF StepsInv, Whole
  <2>3. Cardinality(Ids(S)) = n /\ {s.order : s \in S} = 1..n
    BY <2>2, NumberedCount
  <2> QED
    BY <2>1, <2>3 DEF Whole
<1> QED
  BY <1>1, <1>2, <1>3, VersionsInvariant, PTL DEF TemplateSpec
=============================================================================
