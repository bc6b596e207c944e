---------------------------- MODULE AccountProofs ----------------------------
(* Sessions, passwords, families and administrators agree for every value of *)
(* the constants: whatever the number of accounts, sessions and requests in  *)
(* flight, the durations and the times a password is set.                    *)
EXTENDS Accounts, TLAPS

\* Rows are never deleted, so the row or the account a request has read is
\* there when the request acts on it.
RequestsInFlight ==
    \A q \in Requests :
       /\ requests[q].at \in {"ROTATE", "REFRESH", "REVOKE", "RESOLVED"}
            => /\ requests[q].row \in SessionIds
               /\ sessions[requests[q].row].state # "NONE"
       /\ requests[q].at \in {"LOGIN", "HANDLER", "RESET"}
            => requests[q].user \in Users

\* Rows are stored in the order of their numbers, each with its root: a new
\* row belongs to no family that is stored unless a rotation says so.
StoredInOrder ==
    \A i \in SessionIds : sessions[i].state # "NONE" =>
       /\ sessions[sessions[i].family].state # "NONE"
       /\ \A j \in SessionIds : j < i => sessions[j].state # "NONE"

AccountsInv ==
    /\ AccountsTypeOK
    /\ RequestsInFlight
    /\ StoredInOrder

\* The rows of accounts and sessions, typed.
LEMMA RowTypes ==
    ASSUME AccountsTypeOK
    PROVE  /\ \A i \in SessionIds : sessions[i].state # "NONE" =>
                sessions[i] \in SessionRows
           /\ \A i \in SessionIds : sessions[i].state = "NONE" => sessions[i] = NoSession
BY DEF AccountsTypeOK, NoSession, SessionRows

\* Revoking changes nothing but the state of live rows.
LEMMA RevokedRows ==
    ASSUME AccountsTypeOK, NEW rows
    PROVE  \A i \in SessionIds :
             /\ sessions[i].state = "NONE" => Revoked(rows)[i] = sessions[i]
             /\ sessions[i].state # "NONE" => Revoked(rows)[i] \in SessionRows
             /\ Revoked(rows)[i].state = "LIVE" <=>
                  sessions[i].state = "LIVE" /\ i \notin rows
             /\ Revoked(rows)[i].state = "NONE" <=> sessions[i].state = "NONE"
             /\ Revoked(rows)[i].user = sessions[i].user
             /\ Revoked(rows)[i].family = sessions[i].family
             /\ Revoked(rows)[i].seq = sessions[i].seq
             /\ Revoked(rows)[i].superseded = sessions[i].superseded
             /\ Revoked(rows)[i].password = sessions[i].password
<1> TAKE i \in SessionIds
<1>1. CASE sessions[i].state = "NONE"
  BY <1>1, RowTypes DEF Revoked, SessionRows, NoSession
<1>2. CASE sessions[i].state # "NONE"
  BY <1>2, RowTypes DEF Revoked, SessionRows
<1> QED
  BY <1>1, <1>2

LEMMA RevokedTyped ==
    ASSUME AccountsTypeOK, NEW rows
    PROVE  Revoked(rows) \in [SessionIds -> {NoSession} \cup SessionRows]
<1>1. \A i \in SessionIds : Revoked(rows)[i] \in {NoSession} \cup SessionRows
  BY RevokedRows, RowTypes
<1> QED
  BY <1>1 DEF Revoked

-----------------------------------------------------------------------------
(* Types, the requests in flight and the order of the rows.                  *)

LEMMA AccountsInitial == AccountsInit => AccountsInv
<1> SUFFICES ASSUME AccountsInit
             PROVE  AccountsInv
  OBVIOUS
<1>1. AccountsTypeOK
  BY AccountsAssumption, AccountBoundsAssumption
     DEF AccountsInit, AccountsTypeOK, Roles, Passwords, Null, IdleRequest
<1>2. RequestsInFlight
  BY DEF AccountsInit, RequestsInFlight, IdleRequest
<1>3. StoredInOrder
  BY DEF AccountsInit, StoredInOrder, NoSession
<1> QED
  BY <1>1, <1>2, <1>3 DEF AccountsInv

LEMMA NewSessionTyped ==
    ASSUME AccountsTypeOK, NEW i \in SessionIds, NEW u \in Users,
           NEW p \in Passwords, NEW lifetime \in Nat
    PROVE  NewSession(i, u, p, lifetime) \in SessionRows
BY DEF AccountsTypeOK, NewSession, SessionRows, Null

LEMMA SuccessorTyped ==
    ASSUME AccountsTypeOK, NEW i \in SessionIds, sessions[i].state # "NONE"
    PROVE  Successor(i) \in SessionRows
<1>1. sessions[i] \in SessionRows /\ now \in Nat
  BY RowTypes DEF AccountsTypeOK
<1> QED
  BY <1>1 DEF Successor, SessionRows, Null

RequestRecords ==
    [at : {"IDLE", "LOGIN", "ROTATE", "REFRESH", "REVOKE", "RESOLVED",
           "HANDLER", "RESET"},
     op : {"NONE", "CHANGE_PASSWORD", "ADMINISTER"},
     row : SessionIds \cup {0}, user : Users \cup {NoUser},
     password : Passwords \cup {0}, until : Nat]

UserRows ==
    [status : {"ACTIVE", "BLOCKED"}, role : Roles,
     branch : Branches \cup {NoBranch}, password : Passwords, tempUntil : Nat]

\* The pairs of columns a step writes to one account.
LEMMA PasswordWritten ==
    ASSUME NEW row \in UserRows, NEW p \in Passwords, NEW until \in Nat
    PROVE  [row EXCEPT !.password = p, !.tempUntil = until] \in UserRows
BY DEF UserRows

LEMMA PlaceWritten ==
    ASSUME NEW row \in UserRows, NEW role \in Roles,
           NEW branch \in Branches \cup {NoBranch}
    PROVE  [row EXCEPT !.role = role, !.branch = branch] \in UserRows
BY DEF UserRows

\* A step that only moves a request to a sound position.
LEMMA MovingARequest ==
    ASSUME AccountsInv, NEW q \in Requests, NEW r \in RequestRecords,
           UNCHANGED <<users, activeBranches, sessions, now>>, Moved(q, r),
           r.at \in {"ROTATE", "REFRESH", "REVOKE", "RESOLVED"} =>
             r.row \in SessionIds /\ sessions[r.row].state # "NONE",
           r.at \in {"LOGIN", "HANDLER", "RESET"} => r.user \in Users
    PROVE  AccountsInv'
<1>1. AccountsTypeOK'
  BY DEF AccountsInv, AccountsTypeOK, Moved, RequestRecords
<1>2. RequestsInFlight'
  BY DEF AccountsInv, RequestsInFlight, Moved, AccountsTypeOK
<1>3. StoredInOrder'
  BY DEF AccountsInv, StoredInOrder
<1> QED
  BY <1>1, <1>2, <1>3 DEF AccountsInv

\* A step that ends a request and loses no session row.
LEMMA EndingARequest ==
    ASSUME AccountsInv, NEW q \in Requests, Ended(q), now' = now,
           users' \in [Users -> [status : {"ACTIVE", "BLOCKED"}, role : Roles,
                                 branch : Branches \cup {NoBranch},
                                 password : Passwords, tempUntil : Nat]],
           activeBranches' \subseteq Branches,
           sessions' \in [SessionIds -> {NoSession} \cup SessionRows],
           \A i \in SessionIds : sessions[i].state # "NONE" => sessions'[i].state # "NONE",
           StoredInOrder'
    PROVE  AccountsInv'
<1>1. AccountsTypeOK'
  BY DEF AccountsInv, AccountsTypeOK, Ended, Moved, IdleRequest
<1>2. RequestsInFlight'
  BY DEF AccountsInv, RequestsInFlight, Ended, Moved, IdleRequest, AccountsTypeOK
<1> QED
  BY <1>1, <1>2 DEF AccountsInv

LEMMA RevokedInOrder ==
    ASSUME AccountsInv, NEW rows, sessions' = Revoked(rows)
    PROVE  /\ StoredInOrder'
           /\ sessions' \in [SessionIds -> {NoSession} \cup SessionRows]
           /\ \A i \in SessionIds :
                sessions[i].state # "NONE" => sessions'[i].state # "NONE"
<1>1. \A i \in SessionIds : sessions[i].state # "NONE" => sessions[i].family \in SessionIds
  BY RowTypes DEF AccountsInv, SessionRows
<1>2. StoredInOrder'
  BY <1>1, RevokedRows DEF AccountsInv, StoredInOrder
<1> QED
  BY <1>2, RevokedTyped, RevokedRows DEF AccountsInv

\* A new row beside rows of which some are revoked.
LEMMA NewRowInOrder ==
    ASSUME AccountsInv, NEW rows, NEW i \in SessionIds, NEW row \in SessionRows,
           NextSession(i), row.family = i \/ sessions[row.family].state # "NONE",
           sessions' = [Revoked(rows) EXCEPT ![i] = row]
    PROVE  /\ StoredInOrder'
           /\ sessions' \in [SessionIds -> {NoSession} \cup SessionRows]
           /\ \A j \in SessionIds :
                sessions[j].state # "NONE" => sessions'[j].state # "NONE"
<1>1. \A j \in SessionIds : j # i => sessions'[j] = Revoked(rows)[j]
  BY RevokedTyped DEF AccountsInv
<1>2. sessions'[i] = row /\ row.state # "NONE" /\ row.family \in SessionIds
  BY RevokedTyped DEF AccountsInv, SessionRows
<1>3. \A j \in SessionIds :
        sessions'[j].state # "NONE" <=> sessions[j].state # "NONE" \/ j = i
  BY <1>1, <1>2, RevokedRows DEF AccountsInv
<1>4. \A j \in SessionIds : sessions[j].state # "NONE" =>
        sessions[j].family \in SessionIds /\ j # i
  BY RowTypes DEF AccountsInv, SessionRows, NextSession
<1>5. \A j \in SessionIds : j < i => sessions[j].state # "NONE"
  BY DEF NextSession, SessionIds
<1>6. ASSUME NEW j \in SessionIds, sessions'[j].state # "NONE"
      PROVE  /\ sessions'[sessions'[j].family].state # "NONE"
             /\ \A k \in SessionIds : k < j => sessions'[k].state # "NONE"
  <2>1. CASE j = i
    BY <2>1, <1>2, <1>3, <1>5
  <2>2. CASE j # i
    BY <2>2, <1>6, <1>1, <1>3, <1>4, RevokedRows DEF AccountsInv, StoredInOrder
  <2> QED
    BY <2>1, <2>2
<1>7. sessions' \in [SessionIds -> {NoSession} \cup SessionRows]
  BY RevokedTyped DEF AccountsInv
<1> QED
  BY <1>3, <1>6, <1>7 DEF StoredInOrder

LEMMA RevokedNothing == ASSUME AccountsTypeOK PROVE Revoked({}) = sessions
BY DEF Revoked, AccountsTypeOK

\* What a rotation writes.
LEMMA RotatedRows ==
    ASSUME AccountsInv, NEW i \in SessionIds, NEW j \in SessionIds, NextSession(j),
           sessions[i].state # "NONE",
           sessions' = [sessions EXCEPT ![j] = Successor(i), ![i].superseded = now]
    PROVE  /\ i # j
           /\ \A k \in SessionIds : k # i /\ k # j => sessions'[k] = sessions[k]
           /\ sessions'[j] = Successor(i)
           /\ sessions'[i] = [sessions[i] EXCEPT !.superseded = now]
           /\ sessions' \in [SessionIds -> {NoSession} \cup SessionRows]
<1>1. i # j
  BY DEF NextSession
<1>2. sessions \in [SessionIds -> {NoSession} \cup SessionRows] /\ now \in Nat
  BY DEF AccountsInv, AccountsTypeOK
<1>3. [sessions[i] EXCEPT !.superseded = now] \in SessionRows
  BY <1>2, RowTypes DEF AccountsInv, SessionRows
<1>4. Successor(i) \in SessionRows
  BY SuccessorTyped DEF AccountsInv
<1>5. sessions' = [[sessions EXCEPT ![j] = Successor(i)]
                     EXCEPT ![i] = [sessions[i] EXCEPT !.superseded = now]]
  BY <1>1, <1>2
<1> QED
  BY <1>1, <1>2, <1>3, <1>4, <1>5

LEMMA RotationInv ==
    ASSUME AccountsInv, NEW q \in Requests, RotateSession(q)
    PROVE  AccountsInv'
<1> DEFINE i == requests[q].row
<1>1. i \in SessionIds /\ sessions[i].state # "NONE"
  BY DEF AccountsInv, RequestsInFlight, RotateSession
<1>2. PICK j \in SessionIds :
        /\ NextSession(j)
        /\ sessions' = [sessions EXCEPT ![j] = Successor(i), ![i].superseded = now]
        /\ Moved(q, [requests[q] EXCEPT !.at = "RESOLVED", !.row = j])
  BY DEF RotateSession
<1> HIDE DEF i
<1>3. UNCHANGED <<users, activeBranches, now>>
  BY DEF RotateSession
<1>4. /\ i # j
      /\ \A k \in SessionIds : k # i /\ k # j => sessions'[k] = sessions[k]
      /\ sessions'[j] = Successor(i)
      /\ sessions'[i] = [sessions[i] EXCEPT !.superseded = now]
      /\ sessions' \in [SessionIds -> {NoSession} \cup SessionRows]
  BY <1>1, <1>2, RotatedRows
<1>5. sessions[i] \in SessionRows
  BY <1>1, RowTypes DEF AccountsInv
<1>6. /\ sessions'[i].state = sessions[i].state
      /\ sessions'[i].family = sessions[i].family
  BY <1>4, <1>5 DEF SessionRows
<1>7. sessions'[j].state = "LIVE" /\ sessions'[j].family = sessions[i].family
  BY <1>4 DEF Successor
<1>8. \A k \in SessionIds : sessions'[k].state # "NONE" <=> sessions[k].state # "NONE" \/ k = j
  BY <1>1, <1>4, <1>6, <1>7
<1>9. \A k \in SessionIds : sessions[k].state # "NONE" => sessions[k].family \in SessionIds
  BY RowTypes DEF AccountsInv, SessionRows
<1>10. StoredInOrder'
  <2> SUFFICES ASSUME NEW k \in SessionIds, sessions'[k].state # "NONE"
               PROVE  /\ sessions'[sessions'[k].family].state # "NONE"
                      /\ \A l \in SessionIds : l < k => sessions'[l].state # "NONE"
    BY DEF StoredInOrder
  <2>1. \A l \in SessionIds : l < j => sessions[l].state # "NONE"
    BY <1>2 DEF NextSession, SessionIds
  <2>2. CASE k = j
    BY <2>1, <2>2, <1>1, <1>7, <1>8, <1>9 DEF AccountsInv, StoredInOrder
  <2>3. CASE k # j
    <3>1. sessions'[k].family = sessions[k].family /\ sessions[k].state # "NONE"
      BY <2>3, <1>4, <1>6, <1>8
    <3> QED
      BY <3>1, <1>8, <1>9 DEF AccountsInv, StoredInOrder
  <2> QED
    BY <2>2, <2>3
<1>11. requests[q] \in RequestRecords
  BY DEF AccountsInv, AccountsTypeOK, RequestRecords
<1>12. [requests[q] EXCEPT !.at = "RESOLVED", !.row = j] \in RequestRecords
  BY <1>11 DEF RequestRecords
<1>13. AccountsTypeOK'
  BY <1>2, <1>3, <1>4, <1>12 DEF AccountsInv, AccountsTypeOK, Moved, RequestRecords
<1>14. RequestsInFlight'
  <2> SUFFICES ASSUME NEW r \in Requests
               PROVE  /\ requests'[r].at \in {"ROTATE", "REFRESH", "REVOKE", "RESOLVED"}
                           => /\ requests'[r].row \in SessionIds
                              /\ sessions'[requests'[r].row].state # "NONE"
                      /\ requests'[r].at \in {"LOGIN", "HANDLER", "RESET"}
                           => requests'[r].user \in Users
    BY DEF RequestsInFlight
  <2>1. CASE r = q
    <3>1. requests'[q].at = "RESOLVED" /\ requests'[q].row = j
      BY <1>2, <1>11 DEF Moved, AccountsInv, AccountsTypeOK, RequestRecords
    <3> QED
      BY <2>1, <3>1, <1>8
  <2>2. CASE r # q
    <3>1. requests'[r] = requests[r]
      BY <2>2, <1>2 DEF Moved, AccountsInv, AccountsTypeOK
    <3> QED
      BY <3>1, <1>8 DEF AccountsInv, RequestsInFlight
  <2> QED
    BY <2>1, <2>2
<1> QED
  BY <1>10, <1>13, <1>14 DEF AccountsInv

LEMMA AccountsStep == AccountsInv /\ [AccountsNext]_accountVars => AccountsInv'
<1> SUFFICES ASSUME AccountsInv, [AccountsNext]_accountVars
             PROVE  AccountsInv'
  OBVIOUS
<1>1. CASE UNCHANGED accountVars
  BY <1>1 DEF accountVars, AccountsInv, AccountsTypeOK, RequestsInFlight, StoredInOrder
<1>2. CASE Tick
  <2>1. AccountsTypeOK'
    BY <1>2 DEF Tick, AccountsInv, AccountsTypeOK
  <2> QED
    BY <1>2, <2>1 DEF Tick, AccountsInv, RequestsInFlight, StoredInOrder
<1>3. ASSUME NEW q \in Requests, SessionStep(q)
      PROVE  AccountsInv'
  <2>1. ASSUME NEW i \in SessionIds, NEW op \in {"CHANGE_PASSWORD", "ADMINISTER"},
               PresentToken(q, i, op)
        PROVE  AccountsInv'
    <3> DEFINE p == IF op = "CHANGE_PASSWORD" THEN users[sessions[i].user].password ELSE 0
               r == [IdleRequest EXCEPT !.at = Verdict(i), !.op = op, !.row = i,
                                        !.password = p]
    <3>1. sessions[i].state # "NONE" /\ sessions[i] \in SessionRows
      BY <2>1, RowTypes DEF PresentToken, AccountsInv
    <3>2. p \in Passwords \cup {0}
      BY <3>1 DEF AccountsInv, AccountsTypeOK, SessionRows
    <3>3. Verdict(i) \in {"RESOLVED", "ROTATE", "REFRESH"}
      BY DEF Verdict
    <3> HIDE DEF p
    <3>4. r \in RequestRecords /\ r.at = Verdict(i) /\ r.row = i
      BY <3>2, <3>3 DEF IdleRequest, RequestRecords
    <3>5. Moved(q, r) /\ UNCHANGED <<users, activeBranches, sessions, now>>
      BY <2>1 DEF PresentToken, p
    <3> HIDE DEF r
    <3> QED
      BY <3>1, <3>3, <3>4, <3>5, MovingARequest
  <2>2. ASSUME NEW i \in SessionIds, DetectReplay(q, i) \/ ReadForLogout(q, i)
        PROVE  AccountsInv'
    <3> DEFINE r == [IdleRequest EXCEPT !.at = "REVOKE", !.row = i]
    <3>1. r \in RequestRecords /\ r.at = "REVOKE" /\ r.row = i
      BY DEF IdleRequest, RequestRecords
    <3>2. /\ Moved(q, r) /\ UNCHANGED <<users, activeBranches, sessions, now>>
          /\ sessions[i].state # "NONE"
      BY <2>2 DEF DetectReplay, ReadForLogout
    <3> HIDE DEF r
    <3> QED
      BY <3>1, <3>2, MovingARequest
  <2>3. CASE RotateSession(q)
    BY <2>3, RotationInv
  <2>4. CASE RotationLost(q)
    <3> DEFINE r == [requests[q] EXCEPT !.at = "RESOLVED"]
    <3>1. requests[q] \in RequestRecords
      BY DEF AccountsInv, AccountsTypeOK, RequestRecords
    <3>2. r \in RequestRecords /\ r.at = "RESOLVED" /\ r.row = requests[q].row
      BY <3>1 DEF RequestRecords
    <3>3. /\ Moved(q, r) /\ UNCHANGED <<users, activeBranches, sessions, now>>
          /\ requests[q].at = "ROTATE"
      BY <2>4 DEF RotationLost
    <3> HIDE DEF r
    <3> QED
      BY <3>2, <3>3, MovingARequest DEF AccountsInv, RequestsInFlight
  <2>5. CASE RefreshSession(q)
    <3> DEFINE i == requests[q].row
               row == [sessions[i] EXCEPT !.used = now]
    <3>1. i \in SessionIds /\ sessions[i].state # "NONE"
      BY <2>5 DEF RefreshSession, AccountsInv, RequestsInFlight
    <3>2. sessions[i] \in SessionRows /\ now \in Nat
      BY <3>1, RowTypes DEF AccountsInv, AccountsTypeOK
    <3>3. /\ row \in SessionRows /\ row.state = sessions[i].state
          /\ row.family = sessions[i].family
      BY <3>2 DEF SessionRows
    <3>4. sessions' = [sessions EXCEPT ![i] = row]
      BY <2>5 DEF RefreshSession
    <3> HIDE DEF row, i
    <3>5. /\ sessions' \in [SessionIds -> {NoSession} \cup SessionRows]
          /\ \A k \in SessionIds : /\ sessions'[k].state = sessions[k].state
                                   /\ sessions'[k].family = sessions[k].family
      BY <3>1, <3>3, <3>4 DEF AccountsInv, AccountsTypeOK
    <3>6. \A k \in SessionIds : sessions[k].state # "NONE" => sessions[k].family \in SessionIds
      BY RowTypes DEF AccountsInv, SessionRows
    <3>7. StoredInOrder'
      BY <3>5, <3>6 DEF AccountsInv, StoredInOrder
    <3>8. requests[q] \in RequestRecords
      BY DEF AccountsInv, AccountsTypeOK, RequestRecords
    <3>9. /\ [requests[q] EXCEPT !.at = "RESOLVED"] \in RequestRecords
          /\ [requests[q] EXCEPT !.at = "RESOLVED"].at = "RESOLVED"
          /\ [requests[q] EXCEPT !.at = "RESOLVED"].row = requests[q].row
      BY <3>8 DEF RequestRecords
    <3>10. AccountsTypeOK'
      BY <2>5, <3>5, <3>9
         DEF RefreshSession, AccountsInv, AccountsTypeOK, Moved, RequestRecords
    <3>11. RequestsInFlight'
      BY <2>5, <3>1, <3>5, <3>9
         DEF RefreshSession, AccountsInv, AccountsTypeOK, RequestsInFlight, Moved, i
    <3> QED
      BY <3>7, <3>10, <3>11 DEF AccountsInv
  <2>6. CASE RevokeFamily(q)
    <3>1. /\ sessions' = Revoked(FamilyOf(requests[q].row)) /\ Ended(q)
          /\ UNCHANGED <<users, activeBranches, now>>
      BY <2>6 DEF RevokeFamily
    <3> QED
      BY <3>1, RevokedInOrder, EndingARequest DEF AccountsInv, AccountsTypeOK
  <2> QED
    BY <1>3, <2>1, <2>2, <2>3, <2>4, <2>5, <2>6 DEF SessionStep
<1>4. ASSUME NEW q \in Requests, OwnAccountStep(q)
      PROVE  AccountsInv'
  <2>0. requests[q] \in RequestRecords
    BY DEF AccountsInv, AccountsTypeOK, RequestRecords
  <2>1. ASSUME NEW u \in Users, FindUserByPhone(q, u)
        PROVE  AccountsInv'
    <3> DEFINE r == [IdleRequest EXCEPT !.at = "LOGIN", !.user = u,
                                        !.password = users[u].password]
    <3>1. users[u].password \in Passwords
      BY DEF AccountsInv, AccountsTypeOK
    <3>2. r \in RequestRecords /\ r.at = "LOGIN" /\ r.user = u
      BY <3>1 DEF IdleRequest, RequestRecords
    <3>3. Moved(q, r) /\ UNCHANGED <<users, activeBranches, sessions, now>>
      BY <2>1 DEF FindUserByPhone
    <3> HIDE DEF r
    <3> QED
      BY <3>2, <3>3, MovingARequest
  <2>2. CASE Login(q)
    <3> DEFINE u == requests[q].user
    <3>1. u \in Users /\ users[u].password \in Passwords
      BY <2>2 DEF Login, AccountsInv, RequestsInFlight, AccountsTypeOK
    <3>2. PICK i \in SessionIds, lifetime \in {SessionTtl, RememberedTtl} :
            /\ NextSession(i)
            /\ sessions' = [sessions EXCEPT
                              ![i] = NewSession(i, u, users[u].password, lifetime)]
      BY <2>2 DEF Login
    <3>3. Ended(q) /\ UNCHANGED <<users, activeBranches, now>>
      BY <2>2 DEF Login
    <3> HIDE DEF u
    <3>4. lifetime \in Nat
      BY DurationsAssumption
    <3> DEFINE row == NewSession(i, u, users[u].password, lifetime)
    <3>5. row \in SessionRows /\ row.family = i
      BY <3>1, <3>4, NewSessionTyped DEF NewSession, AccountsInv
    <3>6. sessions' = [Revoked({}) EXCEPT ![i] = row]
      BY <3>2, RevokedNothing DEF AccountsInv
    <3> HIDE DEF row
    <3> QED
      BY <3>2, <3>3, <3>5, <3>6, NewRowInOrder, EndingARequest
         DEF AccountsInv, AccountsTypeOK
  <2>3. CASE Authenticate(q)
    <3> DEFINE u == sessions[requests[q].row].user
               r == [requests[q] EXCEPT !.at = "HANDLER", !.row = 0, !.user = u]
    <3>1. u \in Users
      BY <2>3, RowTypes DEF Authenticate, AccountsInv, RequestsInFlight, SessionRows
    <3>2. Moved(q, r) /\ UNCHANGED <<users, activeBranches, sessions, now>>
      BY <2>3 DEF Authenticate
    <3> HIDE DEF u
    <3>3. r \in RequestRecords /\ r.at = "HANDLER" /\ r.user = u
      BY <2>0, <3>1 DEF RequestRecords
    <3> HIDE DEF r
    <3> QED
      BY <3>1, <3>2, <3>3, MovingARequest
  <2>4. CASE ChangePassword(q)
    <3> DEFINE u == requests[q].user
               next == users[u].password + 1
    <3>1. u \in Users
      BY <2>4 DEF ChangePassword, Handling, AccountsInv, RequestsInFlight
    <3>2. PICK i \in SessionIds :
            /\ NextSession(i)
            /\ sessions' = [Revoked(SessionsOf({u})) EXCEPT
                              ![i] = NewSession(i, u, next, SessionTtl)]
      BY <2>4 DEF ChangePassword
    <3>3. /\ next \in Passwords /\ Ended(q) /\ UNCHANGED <<activeBranches, now>>
          /\ users' = [users EXCEPT
                         ![u] = [users[u] EXCEPT !.password = next, !.tempUntil = Null]]
      BY <2>4 DEF ChangePassword
    <3> HIDE DEF u, next
    <3>4. users' \in [Users -> UserRows]
      BY <3>1, <3>3, PasswordWritten DEF AccountsInv, AccountsTypeOK, UserRows, Null
    <3> DEFINE row == NewSession(i, u, next, SessionTtl)
    <3>5. row \in SessionRows /\ row.family = i
      BY <3>1, <3>3, DurationsAssumption, NewSessionTyped DEF NewSession, AccountsInv
    <3> HIDE DEF row
    <3>6. sessions' = [Revoked(SessionsOf({u})) EXCEPT ![i] = row]
      BY <3>2 DEF row
    <3> QED
      BY <3>2, <3>3, <3>4, <3>5, <3>6, NewRowInOrder, EndingARequest
         DEF AccountsInv, AccountsTypeOK, UserRows
  <2>5. CASE EndRequest(q)
    <3>1. IdleRequest \in RequestRecords /\ IdleRequest.at = "IDLE"
      BY DEF IdleRequest, RequestRecords
    <3> QED
      BY <2>5, <3>1, MovingARequest DEF EndRequest, Ended
  <2> QED
    BY <1>4, <2>1, <2>2, <2>3, <2>4, <2>5 DEF OwnAccountStep
<1>5. ASSUME NEW q \in Requests, AdministrationStep(q)
      PROVE  AccountsInv'
  <2>1. ASSUME NEW t \in Users, BlockUser(q, t)
        PROVE  AccountsInv'
    <3>1. /\ sessions' = Revoked(SessionsOf({t})) /\ Ended(q)
          /\ UNCHANGED <<activeBranches, now>>
          /\ users' = [users EXCEPT ![t].status = "BLOCKED"]
      BY <2>1 DEF BlockUser
    <3> QED
      BY ZenonT(200), <3>1, RevokedInOrder, EndingARequest DEF AccountsInv, AccountsTypeOK
  <2>2. ASSUME NEW t \in Users, UnblockUser(q, t)
        PROVE  AccountsInv'
    <3>1. Ended(q) /\ UNCHANGED <<activeBranches, sessions, now>>
      BY <2>2 DEF UnblockUser
    <3>2. users' = [users EXCEPT ![t].status = "ACTIVE"]
      BY <2>2 DEF UnblockUser
    <3>3. StoredInOrder'
      BY <3>1 DEF AccountsInv, StoredInOrder
    <3> QED
      BY <3>1, <3>2, <3>3, EndingARequest DEF AccountsInv, AccountsTypeOK
  <2>3. ASSUME NEW t \in Users, ConfirmReset(q, t)
        PROVE  AccountsInv'
    <3> DEFINE r == [requests[q] EXCEPT !.at = "RESET", !.user = t,
                                        !.until = now + TempTtl]
    <3>1. now + TempTtl \in Nat
      BY DurationsAssumption DEF AccountsInv, AccountsTypeOK
    <3>2. requests[q] \in RequestRecords
      BY DEF AccountsInv, AccountsTypeOK, RequestRecords
    <3>3. r \in RequestRecords /\ r.at = "RESET" /\ r.user = t
      BY <3>1, <3>2 DEF RequestRecords
    <3>4. Moved(q, r) /\ UNCHANGED <<users, activeBranches, sessions, now>>
      BY <2>3 DEF ConfirmReset
    <3> HIDE DEF r
    <3> QED
      BY <3>3, <3>4, MovingARequest
  <2>4. ASSUME NEW t \in Users, NEW role \in Roles,
               NEW branch \in Branches \cup {NoBranch},
               UpdateUser(q, t, role, branch)
        PROVE  AccountsInv'
    <3>1. Ended(q) /\ UNCHANGED <<activeBranches, sessions, now>>
      BY <2>4 DEF UpdateUser
    <3>2. users' = [users EXCEPT
                      ![t] = [users[t] EXCEPT !.role = role, !.branch = branch]]
      BY <2>4 DEF UpdateUser
    <3>3. StoredInOrder'
      BY <3>1 DEF AccountsInv, StoredInOrder
    <3>4. users \in [Users -> UserRows]
      BY DEF AccountsInv, AccountsTypeOK, UserRows
    <3>5. [users[t] EXCEPT !.role = role, !.branch = branch] \in UserRows
      BY <3>4, PlaceWritten
    <3>6. users' \in [Users -> UserRows]
      BY <3>2, <3>4, <3>5
    <3> QED
      BY <3>1, <3>3, <3>6, EndingARequest DEF AccountsInv, AccountsTypeOK, UserRows
  <2>5. CASE ResetUserPassword(q)
    <3> DEFINE t == requests[q].user
               next == users[t].password + 1
    <3>1. t \in Users /\ requests[q].until \in Nat
      BY <2>5 DEF ResetUserPassword, AccountsInv, RequestsInFlight, AccountsTypeOK
    <3>2. /\ sessions' = Revoked(SessionsOf({t})) /\ Ended(q)
          /\ UNCHANGED <<activeBranches, now>>
          /\ next \in Passwords
          /\ users' = [users EXCEPT ![t] = [users[t] EXCEPT !.password = next,
                                             !.tempUntil = requests[q].until]]
      BY <2>5 DEF ResetUserPassword
    <3> HIDE DEF t, next
    <3>3. users \in [Users -> UserRows]
      BY DEF AccountsInv, AccountsTypeOK, UserRows
    <3>4. [users[t] EXCEPT !.password = next, !.tempUntil = requests[q].until]
            \in UserRows
      BY <3>1, <3>2, <3>3, PasswordWritten
    <3>5. users' \in [Users -> UserRows]
      BY <3>2, <3>3, <3>4
    <3> QED
      BY <3>1, <3>2, <3>5, RevokedInOrder, EndingARequest
         DEF AccountsInv, AccountsTypeOK, UserRows
  <2>6. ASSUME NEW b \in Branches, DeactivateBranch(q, b)
        PROVE  AccountsInv'
    <3>1. /\ sessions' = Revoked(SessionsOf({u \in Users : users[u].branch = b}))
          /\ Ended(q) /\ UNCHANGED <<users, now>>
          /\ activeBranches' = activeBranches \ {b}
      BY <2>6 DEF DeactivateBranch
    <3> QED
      BY <3>1, RevokedInOrder, EndingARequest DEF AccountsInv, AccountsTypeOK
  <2>7. ASSUME NEW b \in Branches, ActivateBranch(q, b)
        PROVE  AccountsInv'
    <3>1. /\ Ended(q) /\ UNCHANGED <<users, sessions, now>>
          /\ activeBranches' = activeBranches \cup {b}
      BY <2>7 DEF ActivateBranch
    <3>2. StoredInOrder'
      BY <3>1 DEF AccountsInv, StoredInOrder
    <3> QED
      BY <3>1, <3>2, EndingARequest DEF AccountsInv, AccountsTypeOK
  <2> QED
    BY <1>5, <2>1, <2>2, <2>3, <2>4, <2>5, <2>6, <2>7 DEF AdministrationStep
<1> QED
  BY <1>1, <1>2, <1>3, <1>4, <1>5 DEF AccountsNext

LEMMA AccountsInvariant == AccountsSpec => []AccountsInv
<1> QED
  BY AccountsInitial, AccountsStep, PTL DEF AccountsSpec

\* Every account, session and request row holds values its columns can hold.
THEOREM AccountsTypeCorrect == AccountsSpec => []AccountsTypeOK
<1>1. AccountsInv => AccountsTypeOK
  BY DEF AccountsInv
<1> QED
  BY <1>1, AccountsInvariant, PTL

-----------------------------------------------------------------------------
(* What the steps do to the session rows and to the passwords.               *)

SameRows ==
    \A i \in SessionIds :
       /\ sessions'[i].state = sessions[i].state
       /\ sessions'[i].user = sessions[i].user
       /\ sessions'[i].family = sessions[i].family
       /\ sessions'[i].seq = sessions[i].seq
       /\ sessions'[i].superseded = sessions[i].superseded
       /\ sessions'[i].password = sessions[i].password

SamePasswords(us) == \A u \in us : users'[u].password = users[u].password

AccountsRevoked ==
    \E us \in SUBSET Users :
       sessions' = Revoked(SessionsOf(us)) /\ SamePasswords(Users \ us)

FamilyRevoked ==
    /\ \E i \in SessionIds :
         sessions[i].state # "NONE" /\ sessions' = Revoked(FamilyOf(i))
    /\ SamePasswords(Users)

Rotation(i, j) ==
    /\ sessions[i].state = "LIVE" /\ sessions[i].superseded = Null
    /\ NextSession(j)
    /\ sessions' = [sessions EXCEPT ![j] = Successor(i), ![i].superseded = now]

Rotated == (\E i, j \in SessionIds : Rotation(i, j)) /\ SamePasswords(Users)

Opening(i, u, rows, p, lifetime) ==
    /\ NextSession(i)
    /\ sessions' = [Revoked(rows) EXCEPT ![i] = NewSession(i, u, p, lifetime)]

\* The account whose family is opened, and those whose sessions are revoked.
Opened ==
    \E i \in SessionIds, u \in Users, us \in SUBSET Users,
       p \in Passwords, lifetime \in Nat :
       /\ Opening(i, u, SessionsOf(us), p, lifetime)
       /\ users'[u].password = p
       /\ SamePasswords(Users \ us)

LEMMA StepEffects ==
    ASSUME AccountsInv, [AccountsNext]_accountVars
    PROVE  (SameRows /\ SamePasswords(Users)) \/ AccountsRevoked \/ FamilyRevoked
             \/ Rotated \/ Opened
<1>1. CASE UNCHANGED <<users, sessions>>
  BY <1>1 DEF SameRows, SamePasswords
<1>2. CASE Tick
  BY <1>1, <1>2 DEF Tick
<1>3. ASSUME NEW q \in Requests, SessionStep(q)
      PROVE  (SameRows /\ SamePasswords(Users)) \/ FamilyRevoked \/ Rotated
  <2>1. CASE \E i \in SessionIds, op \in {"CHANGE_PASSWORD", "ADMINISTER"} :
               PresentToken(q, i, op)
    BY <2>1, <1>1 DEF PresentToken, SameRows, SamePasswords
  <2>2. CASE \E i \in SessionIds : DetectReplay(q, i) \/ ReadForLogout(q, i)
    BY <2>2, <1>1 DEF DetectReplay, ReadForLogout, SameRows, SamePasswords
  <2>3. CASE RotationLost(q)
    BY <2>3 DEF RotationLost, SameRows, SamePasswords
  <2>4. CASE RotateSession(q)
    <3>1. requests[q].row \in SessionIds
      BY <2>4 DEF RotateSession, AccountsInv, RequestsInFlight
    <3> QED
      BY <2>4, <3>1 DEF RotateSession, Rotated, Rotation, SamePasswords
  <2>5. CASE RefreshSession(q)
    <3>1. /\ sessions' = [sessions EXCEPT ![requests[q].row].used = now]
          /\ users' = users
      BY <2>5 DEF RefreshSession
    <3>2. SameRows
      <4>1. requests[q].row \in SessionIds /\ sessions[requests[q].row] \in SessionRows
        BY <2>5, RowTypes DEF RefreshSession, AccountsInv, RequestsInFlight
      <4> QED
        BY <3>1, <4>1 DEF SameRows, SessionRows, AccountsInv, AccountsTypeOK
    <3> QED
      BY <3>1, <3>2 DEF SamePasswords
  <2>6. CASE RevokeFamily(q)
    <3>1. requests[q].row \in SessionIds /\ sessions[requests[q].row].state # "NONE"
      BY <2>6 DEF RevokeFamily, AccountsInv, RequestsInFlight
    <3> QED
      BY <2>6, <3>1 DEF RevokeFamily, FamilyRevoked, SamePasswords
  <2> QED
    BY <1>3, <2>1, <2>2, <2>3, <2>4, <2>5, <2>6 DEF SessionStep
<1>4. ASSUME NEW q \in Requests, OwnAccountStep(q)
      PROVE  (SameRows /\ SamePasswords(Users)) \/ Opened
  <2>1. CASE (\E u \in Users : FindUserByPhone(q, u)) \/ Authenticate(q) \/ EndRequest(q)
    BY <2>1 DEF FindUserByPhone, Authenticate, EndRequest, SameRows, SamePasswords
  <2>2. CASE Login(q)
    <3> DEFINE u == requests[q].user
    <3>1. u \in Users /\ users[u].password \in Passwords
      BY <2>2 DEF Login, AccountsInv, RequestsInFlight, AccountsTypeOK
    <3>2. PICK i \in SessionIds, lifetime \in {SessionTtl, RememberedTtl} :
            /\ NextSession(i)
            /\ sessions' = [sessions EXCEPT
                              ![i] = NewSession(i, u, users[u].password, lifetime)]
      BY <2>2 DEF Login
    <3>3. users' = users
      BY <2>2 DEF Login
    <3>4. lifetime \in Nat
      BY DurationsAssumption
    <3>5. Revoked(SessionsOf({})) = sessions
      BY RevokedNothing DEF SessionsOf, AccountsInv
    <3> HIDE DEF u
    <3> QED
      BY <3>1, <3>2, <3>3, <3>4, <3>5 DEF Opened, Opening, SamePasswords
  <2>3. CASE ChangePassword(q)
    <3> DEFINE u == requests[q].user
               next == users[u].password + 1
    <3>1. u \in Users
      BY <2>3 DEF ChangePassword, Handling, AccountsInv, RequestsInFlight
    <3>2. PICK i \in SessionIds :
            /\ NextSession(i)
            /\ sessions' = [Revoked(SessionsOf({u})) EXCEPT
                              ![i] = NewSession(i, u, next, SessionTtl)]
      BY <2>3 DEF ChangePassword
    <3>3. /\ next \in Passwords
          /\ users' = [users EXCEPT
                         ![u] = [users[u] EXCEPT !.password = next, !.tempUntil = Null]]
      BY <2>3 DEF ChangePassword
    <3> HIDE DEF u, next
    <3>4. users'[u].password = next /\ SamePasswords(Users \ {u})
      BY <3>1, <3>3 DEF SamePasswords, AccountsInv, AccountsTypeOK
    <3> QED
      BY <3>1, <3>2, <3>3, <3>4, DurationsAssumption DEF Opened, Opening
  <2> QED
    BY <1>4, <2>1, <2>2, <2>3 DEF OwnAccountStep
<1>5. ASSUME NEW q \in Requests, AdministrationStep(q)
      PROVE  (SameRows /\ SamePasswords(Users)) \/ AccountsRevoked
  <2>1. ASSUME NEW t \in Users, BlockUser(q, t)
        PROVE  AccountsRevoked
    <3>1. SamePasswords(Users)
      BY <2>1 DEF BlockUser, SamePasswords, AccountsInv, AccountsTypeOK
    <3> QED
      BY <2>1, <3>1 DEF BlockUser, AccountsRevoked, SamePasswords
  <2>2. ASSUME NEW t \in Users, UnblockUser(q, t) \/ ConfirmReset(q, t)
        PROVE  SameRows /\ SamePasswords(Users)
    BY <2>2 DEF UnblockUser, ConfirmReset, SameRows, SamePasswords, AccountsInv, AccountsTypeOK
  <2>3. ASSUME NEW t \in Users, NEW role \in Roles,
               NEW branch \in Branches \cup {NoBranch}, UpdateUser(q, t, role, branch)
        PROVE  SameRows /\ SamePasswords(Users)
    <3>1. users' = [users EXCEPT
                      ![t] = [users[t] EXCEPT !.role = role, !.branch = branch]]
      BY <2>3 DEF UpdateUser
    <3>2. sessions' = sessions
      BY <2>3 DEF UpdateUser
    <3> QED
      BY <3>1, <3>2 DEF SameRows, SamePasswords, AccountsInv, AccountsTypeOK
  <2>4. CASE ResetUserPassword(q)
    <3> DEFINE t == requests[q].user
               next == users[t].password + 1
    <3>1. t \in Users
      BY <2>4 DEF ResetUserPassword, AccountsInv, RequestsInFlight
    <3>2. sessions' = Revoked(SessionsOf({t}))
      BY <2>4 DEF ResetUserPassword
    <3>3. users' = [users EXCEPT ![t] = [users[t] EXCEPT !.password = next,
                                                         !.tempUntil = requests[q].until]]
      BY <2>4 DEF ResetUserPassword
    <3> HIDE DEF t, next
    <3>4. SamePasswords(Users \ {t})
      BY <3>1, <3>3 DEF SamePasswords, AccountsInv, AccountsTypeOK
    <3> QED
      BY <3>1, <3>2, <3>4 DEF AccountsRevoked
  <2>5. ASSUME NEW b \in Branches, DeactivateBranch(q, b)
        PROVE  AccountsRevoked
    <3>1. {u \in Users : users[u].branch = b} \in SUBSET Users
      OBVIOUS
    <3> QED
      BY <2>5, <3>1 DEF DeactivateBranch, AccountsRevoked, SamePasswords
  <2>6. ASSUME NEW b \in Branches, ActivateBranch(q, b)
        PROVE  SameRows /\ SamePasswords(Users)
    BY <2>6 DEF ActivateBranch, SameRows, SamePasswords
  <2> QED
    BY <1>5, <2>1, <2>2, <2>3, <2>4, <2>5, <2>6 DEF AdministrationStep
<1> QED
  BY <1>1, <1>2, <1>3, <1>4, <1>5 DEF AccountsNext, accountVars

\* What a rotation does to the columns the properties speak of.
LEMMA RotationEffects ==
    ASSUME AccountsInv, NEW i \in SessionIds, NEW j \in SessionIds, Rotation(i, j)
    PROVE  /\ i # j /\ sessions[j].state = "NONE"
           /\ sessions[i].state = "LIVE" /\ sessions[i].superseded = Null
           /\ \A k \in SessionIds : k # i /\ k # j => sessions'[k] = sessions[k]
           /\ \A k \in SessionIds : k # j =>
                /\ sessions'[k].state = sessions[k].state
                /\ sessions'[k].user = sessions[k].user
                /\ sessions'[k].family = sessions[k].family
                /\ sessions'[k].seq = sessions[k].seq
                /\ sessions'[k].password = sessions[k].password
           /\ sessions'[i].superseded = now
           /\ sessions'[j] = Successor(i)
<1>0. /\ sessions[i].state = "LIVE" /\ sessions[i].superseded = Null
      /\ NextSession(j)
      /\ sessions' = [sessions EXCEPT ![j] = Successor(i), ![i].superseded = now]
  BY DEF Rotation
<1>1. /\ i # j
      /\ \A k \in SessionIds : k # i /\ k # j => sessions'[k] = sessions[k]
      /\ sessions'[j] = Successor(i)
      /\ sessions'[i] = [sessions[i] EXCEPT !.superseded = now]
  BY <1>0, RotatedRows
<1>2. sessions[i] \in SessionRows
  BY <1>0, RowTypes DEF AccountsInv
<1>3. sessions[j].state = "NONE"
  BY <1>0 DEF NextSession
<1>4. /\ sessions'[i].state = sessions[i].state
      /\ sessions'[i].user = sessions[i].user
      /\ sessions'[i].family = sessions[i].family
      /\ sessions'[i].seq = sessions[i].seq
      /\ sessions'[i].password = sessions[i].password
      /\ sessions'[i].superseded = now
  BY <1>1, <1>2 DEF SessionRows
<1> QED
  BY <1>0, <1>1, <1>3, <1>4

\* What opening a family does to them.
LEMMA OpeningEffects ==
    ASSUME AccountsInv, NEW i \in SessionIds, NEW u \in Users, NEW rows,
           NEW p \in Passwords, NEW lifetime \in Nat, Opening(i, u, rows, p, lifetime)
    PROVE  /\ \A k \in SessionIds : k # i => sessions'[k] = Revoked(rows)[k]
           /\ sessions'[i] = NewSession(i, u, p, lifetime)
           /\ sessions[i].state = "NONE"
           /\ \A k \in SessionIds :
                k # i /\ sessions'[k].state # "NONE" => sessions'[k].family # i
<1>1. Revoked(rows) \in [SessionIds -> {NoSession} \cup SessionRows]
  BY RevokedTyped DEF AccountsInv
<1>2. /\ \A k \in SessionIds : k # i => sessions'[k] = Revoked(rows)[k]
      /\ sessions'[i] = NewSession(i, u, p, lifetime)
  BY <1>1 DEF Opening
<1>3. sessions[i].state = "NONE"
  BY DEF Opening, NextSession
<1>4. \A k \in SessionIds : sessions[k].state # "NONE" => sessions[k].family # i
  BY <1>3 DEF AccountsInv, StoredInOrder
<1> QED
  BY <1>2, <1>3, <1>4, RevokedRows DEF AccountsInv

-----------------------------------------------------------------------------
(* Sessions and passwords.                                                   *)

LEMMA SessionsMatchStep ==
    AccountsInv /\ SessionsMatchPassword /\ [AccountsNext]_accountVars
      => SessionsMatchPassword'
<1> SUFFICES ASSUME AccountsInv, SessionsMatchPassword, [AccountsNext]_accountVars,
                    NEW k \in SessionIds, sessions'[k].state = "LIVE"
             PROVE  sessions'[k].password = users'[sessions'[k].user].password
  BY DEF SessionsMatchPassword, Live
<1>0. sessions[k].state = "LIVE" =>
        /\ sessions[k].user \in Users
        /\ sessions[k].password = users[sessions[k].user].password
  BY RowTypes DEF AccountsInv, SessionRows, SessionsMatchPassword, Live
<1>1. CASE SameRows /\ SamePasswords(Users)
  BY <1>0, <1>1 DEF SameRows, SamePasswords
<1>2. CASE AccountsRevoked
  <2>1. PICK us \in SUBSET Users :
          sessions' = Revoked(SessionsOf(us)) /\ SamePasswords(Users \ us)
    BY <1>2 DEF AccountsRevoked
  <2>2. /\ sessions[k].state = "LIVE" /\ k \notin SessionsOf(us)
        /\ sessions'[k].user = sessions[k].user
        /\ sessions'[k].password = sessions[k].password
    BY <2>1, RevokedRows DEF AccountsInv
  <2> QED
    BY <1>0, <2>1, <2>2 DEF SessionsOf, SamePasswords
<1>3. CASE FamilyRevoked
  <2>1. PICK i \in SessionIds : sessions' = Revoked(FamilyOf(i))
    BY <1>3 DEF FamilyRevoked
  <2>2. /\ sessions[k].state = "LIVE" /\ sessions'[k].user = sessions[k].user
        /\ sessions'[k].password = sessions[k].password
    BY <2>1, RevokedRows DEF AccountsInv
  <2> QED
    BY <1>0, <1>3, <2>2 DEF FamilyRevoked, SamePasswords
<1>4. CASE Rotated
  <2>1. PICK i \in SessionIds, j \in SessionIds : Rotation(i, j)
    BY <1>4 DEF Rotated
  <2>2. /\ sessions'[j] = Successor(i)
        /\ k # j => /\ sessions'[k].state = sessions[k].state
                    /\ sessions'[k].user = sessions[k].user
                    /\ sessions'[k].password = sessions[k].password
    BY <2>1, RotationEffects
  <2>3. /\ sessions[i].user \in Users
        /\ sessions[i].password = users[sessions[i].user].password
    BY <2>1, RotationEffects, RowTypes DEF AccountsInv, SessionRows, SessionsMatchPassword, Live
  <2>4. SamePasswords(Users)
    BY <1>4 DEF Rotated
  <2>5. CASE k = j
    BY <2>2, <2>3, <2>4, <2>5 DEF Successor, SamePasswords
  <2>6. CASE k # j
    BY <1>0, <2>2, <2>4, <2>6 DEF SamePasswords
  <2> QED
    BY <2>5, <2>6
<1>5. CASE Opened
  <2>1. PICK i \in SessionIds, u \in Users, us \in SUBSET Users,
             p \in Passwords, lifetime \in Nat :
          /\ Opening(i, u, SessionsOf(us), p, lifetime)
          /\ users'[u].password = p
          /\ SamePasswords(Users \ us)
    BY <1>5 DEF Opened
  <2>2. /\ k # i => sessions'[k] = Revoked(SessionsOf(us))[k]
        /\ sessions'[i] = NewSession(i, u, p, lifetime)
    BY <2>1, OpeningEffects
  <2>3. CASE k = i
    BY <2>1, <2>2, <2>3 DEF NewSession
  <2>4. CASE k # i
    <3>1. /\ sessions[k].state = "LIVE" /\ k \notin SessionsOf(us)
          /\ sessions'[k].user = sessions[k].user
          /\ sessions'[k].password = sessions[k].password
      BY <2>2, <2>4, RevokedRows DEF AccountsInv
    <3> QED
      BY <1>0, <2>1, <3>1 DEF SessionsOf, SamePasswords
  <2> QED
    BY <2>3, <2>4
<1> QED
  BY <1>1, <1>2, <1>3, <1>4, <1>5, StepEffects

\* However logins, rotations, changes and resets of a password interleave, a
\* session that works was opened with the password the account has now.
THEOREM SessionsFollowThePassword == AccountsSpec => []SessionsMatchPassword
<1>1. AccountsInit => SessionsMatchPassword
  BY DEF AccountsInit, SessionsMatchPassword, Live, NoSession
<1> QED
  BY <1>1, SessionsMatchStep, AccountsInvariant, PTL DEF AccountsSpec

-----------------------------------------------------------------------------
(* The last administrator.                                                   *)

LEMMA AdminStep ==
    AccountsInv /\ AnActiveAdminRemains /\ [AccountsNext]_accountVars
      => AnActiveAdminRemains'
<1> SUFFICES ASSUME AccountsInv, AnActiveAdminRemains, [AccountsNext]_accountVars
             PROVE  \E u \in Users : users'[u].role = "ADMIN" /\ users'[u].status = "ACTIVE"
  BY DEF AnActiveAdminRemains, ActiveAdmins
<1>0. PICK a \in Users : users[a].role = "ADMIN" /\ users[a].status = "ACTIVE"
  BY DEF AnActiveAdminRemains, ActiveAdmins
<1> DEFINE Kept(u) == users'[u].role = users[u].role /\ users'[u].status = users[u].status
<1>1. CASE \A u \in Users : Kept(u)
  BY <1>0, <1>1
<1>2. CASE Tick \/ UNCHANGED accountVars
  BY <1>1, <1>2 DEF Tick, accountVars
<1>3. ASSUME NEW q \in Requests, SessionStep(q)
      PROVE  \A u \in Users : Kept(u)
  BY <1>3 DEF SessionStep, PresentToken, DetectReplay, ReadForLogout, RotateSession,
              RotationLost, RefreshSession, RevokeFamily
<1>4. ASSUME NEW q \in Requests, OwnAccountStep(q)
      PROVE  \A u \in Users : Kept(u)
  <2>1. CASE ChangePassword(q)
    <3> DEFINE t == requests[q].user
    <3>1. t \in Users
      BY <2>1 DEF ChangePassword, Handling, AccountsInv, RequestsInFlight
    <3>2. users' = [users EXCEPT
                      ![t] = [users[t] EXCEPT !.password = users[t].password + 1,
                                              !.tempUntil = Null]]
      BY <2>1 DEF ChangePassword
    <3> HIDE DEF t
    <3> QED
      BY <3>1, <3>2 DEF AccountsInv, AccountsTypeOK
  <2>2. CASE \/ \E u \in Users : FindUserByPhone(q, u)
             \/ Login(q) \/ Authenticate(q) \/ EndRequest(q)
    BY <2>2 DEF FindUserByPhone, Login, Authenticate, EndRequest
  <2> QED
    BY <1>4, <2>1, <2>2 DEF OwnAccountStep
<1>5. ASSUME NEW q \in Requests, AdministrationStep(q)
      PROVE  \E u \in Users : users'[u].role = "ADMIN" /\ users'[u].status = "ACTIVE"
  <2>1. ASSUME NEW t \in Users, BlockUser(q, t)
        PROVE  \E u \in Users : users'[u].role = "ADMIN" /\ users'[u].status = "ACTIVE"
    <3>1. /\ users' = [users EXCEPT ![t].status = "BLOCKED"]
          /\ users[t].role = "ADMIN" => AnotherAdminThan(t)
      BY <2>1 DEF BlockUser
    <3>2. \A u \in Users : u # t => users'[u] = users[u]
      BY <3>1 DEF AccountsInv, AccountsTypeOK
    <3>3. CASE users[t].role = "ADMIN"
      BY <3>1, <3>2, <3>3 DEF AnotherAdminThan, ActiveAdmins
    <3>4. CASE users[t].role # "ADMIN"
      BY <1>0, <3>2, <3>4
    <3> QED
      BY <3>3, <3>4
  <2>2. ASSUME NEW t \in Users, UnblockUser(q, t) \/ ConfirmReset(q, t)
        PROVE  \E u \in Users : users'[u].role = "ADMIN" /\ users'[u].status = "ACTIVE"
    <3>1. CASE ConfirmReset(q, t)
      BY <1>0, <3>1 DEF ConfirmReset
    <3>2. CASE UnblockUser(q, t)
      <4>1. users' = [users EXCEPT ![t].status = "ACTIVE"] /\ users[t].status = "BLOCKED"
        BY <3>2 DEF UnblockUser
      <4>2. users'[a] = users[a]
        BY <1>0, <4>1 DEF AccountsInv, AccountsTypeOK
      <4> QED
        BY <1>0, <4>2
    <3> QED
      BY <2>2, <3>1, <3>2
  <2>3. ASSUME NEW t \in Users, NEW role \in Roles,
               NEW branch \in Branches \cup {NoBranch}, UpdateUser(q, t, role, branch)
        PROVE  \E u \in Users : users'[u].role = "ADMIN" /\ users'[u].status = "ACTIVE"
    <3>1. users' = [users EXCEPT
                      ![t] = [users[t] EXCEPT !.role = role, !.branch = branch]]
      BY <2>3 DEF UpdateUser
    <3>2. users[t].role = "ADMIN" /\ role # "ADMIN" => AnotherAdminThan(t)
      BY <2>3 DEF UpdateUser
    <3>3. \A u \in Users : u # t => users'[u] = users[u]
      BY <3>1 DEF AccountsInv, AccountsTypeOK
    <3>4. users'[t].role = role /\ users'[t].status = users[t].status
      BY <3>1 DEF AccountsInv, AccountsTypeOK
    <3>5. CASE users[t].role = "ADMIN" /\ role # "ADMIN"
      BY <3>2, <3>3, <3>5 DEF AnotherAdminThan, ActiveAdmins
    <3>6. CASE users[t].role # "ADMIN" \/ role = "ADMIN"
      BY <1>0, <3>3, <3>4, <3>6
    <3> QED
      BY <3>5, <3>6
  <2>4. CASE ResetUserPassword(q)
    <3> DEFINE t == requests[q].user
    <3>1. t \in Users
      BY <2>4 DEF ResetUserPassword, AccountsInv, RequestsInFlight
    <3>2. users' = [users EXCEPT
                      ![t] = [users[t] EXCEPT !.password = users[t].password + 1,
                                              !.tempUntil = requests[q].until]]
      BY <2>4 DEF ResetUserPassword
    <3> HIDE DEF t
    <3>3. \A u \in Users : Kept(u)
      BY <3>1, <3>2 DEF AccountsInv, AccountsTypeOK
    <3> QED
      BY <1>0, <3>3
  <2>5. CASE \E b \in Branches : DeactivateBranch(q, b) \/ ActivateBranch(q, b)
    BY <1>0, <2>5 DEF DeactivateBranch, ActivateBranch
  <2> QED
    BY <1>5, <2>1, <2>2, <2>3, <2>4, <2>5 DEF AdministrationStep
<1> QED
  BY <1>1, <1>2, <1>3, <1>4, <1>5 DEF AccountsNext

\* Administrators who block and demote each other never leave the system
\* without an active one, however many there are.
THEOREM AdminsSurvive == AccountsSpec => []AnActiveAdminRemains
<1>1. AccountsInit => AnActiveAdminRemains
  BY AccountsAssumption DEF AccountsInit, AnActiveAdminRemains, ActiveAdmins
<1> QED
  BY <1>1, AdminStep, AccountsInvariant, PTL DEF AccountsSpec

-----------------------------------------------------------------------------
(* Families.                                                                 *)

FamilyHasOneUser ==
    \A i, j \in SessionIds :
       /\ sessions[i].state # "NONE" /\ sessions[j].state # "NONE"
       /\ sessions[i].family = sessions[j].family
       => sessions[i].user = sessions[j].user

FamilyInv ==
    /\ FamilyHasOneUser
    /\ FamilyRevokedTogether
    /\ FamilyIsAChain

LEMMA PairsBefore ==
    ASSUME FamilyInv, NEW k \in SessionIds, NEW l \in SessionIds,
           sessions[k].state # "NONE", sessions[l].state # "NONE",
           sessions[k].family = sessions[l].family
    PROVE  /\ sessions[k].user = sessions[l].user
           /\ ~(sessions[k].state = "LIVE" /\ sessions[l].state = "REVOKED")
           /\ k < l => sessions[k].superseded # Null /\ sessions[k].seq < sessions[l].seq
BY DEF FamilyInv, FamilyHasOneUser, FamilyRevokedTogether, FamilyIsAChain, Live

\* Revoking a set of rows that holds a family whole or not at all.
LEMMA WholeFamiliesRevoked ==
    ASSUME AccountsInv, FamilyInv, NEW rows,
           \A k, l \in SessionIds :
              /\ sessions[k].state # "NONE" /\ sessions[l].state # "NONE"
              /\ sessions[k].family = sessions[l].family
              /\ k \in rows
              => l \in rows,
           NEW k \in SessionIds, NEW l \in SessionIds, sessions[k].state # "NONE",
           sessions[l].state # "NONE", sessions[k].family = sessions[l].family
    PROVE  LET after == Revoked(rows) IN
           /\ after[k].user = after[l].user
           /\ ~(after[k].state = "LIVE" /\ after[l].state = "REVOKED")
           /\ k < l => after[k].superseded # Null /\ after[k].seq < after[l].seq
<1>1. /\ sessions[k].user = sessions[l].user
      /\ ~(sessions[k].state = "LIVE" /\ sessions[l].state = "REVOKED")
      /\ k < l => sessions[k].superseded # Null /\ sessions[k].seq < sessions[l].seq
  BY PairsBefore
<1>2. /\ Revoked(rows)[k].state = "LIVE" => sessions[k].state = "LIVE" /\ k \notin rows
      /\ sessions[l].state = "LIVE" /\ l \notin rows => Revoked(rows)[l].state = "LIVE"
      /\ Revoked(rows)[k].user = sessions[k].user
      /\ Revoked(rows)[l].user = sessions[l].user
      /\ Revoked(rows)[k].seq = sessions[k].seq
      /\ Revoked(rows)[l].seq = sessions[l].seq
      /\ Revoked(rows)[k].superseded = sessions[k].superseded
  BY RevokedRows DEF AccountsInv
<1>3. sessions[l].state \in {"LIVE", "REVOKED"}
  BY RowTypes DEF AccountsInv, SessionRows
<1> QED
  BY <1>1, <1>2, <1>3

LEMMA AccountsAreWholeFamilies ==
    ASSUME FamilyInv, NEW us, NEW k \in SessionIds, NEW l \in SessionIds,
           sessions[k].state # "NONE", sessions[l].state # "NONE",
           sessions[k].family = sessions[l].family, k \in SessionsOf(us)
    PROVE  l \in SessionsOf(us)
BY PairsBefore DEF SessionsOf

LEMMA FamilyStep == AccountsInv /\ FamilyInv /\ [AccountsNext]_accountVars => FamilyInv'
<1> SUFFICES ASSUME AccountsInv, FamilyInv, [AccountsNext]_accountVars,
                    NEW k \in SessionIds, NEW l \in SessionIds,
                    sessions'[k].state # "NONE", sessions'[l].state # "NONE",
                    sessions'[k].family = sessions'[l].family
             PROVE  /\ sessions'[k].user = sessions'[l].user
                    /\ ~(sessions'[k].state = "LIVE" /\ sessions'[l].state = "REVOKED")
                    /\ k < l => /\ sessions'[k].superseded # Null
                                /\ sessions'[k].seq < sessions'[l].seq
  BY DEF FamilyInv, FamilyHasOneUser, FamilyRevokedTogether, FamilyIsAChain, Live
<1>1. CASE SameRows
  BY <1>1, PairsBefore DEF SameRows
<1>2. CASE AccountsRevoked
  <2>1. PICK us \in SUBSET Users : sessions' = Revoked(SessionsOf(us))
    BY <1>2 DEF AccountsRevoked
  <2> DEFINE rows == SessionsOf(us)
  <2>2. \A m, n \in SessionIds :
           /\ sessions[m].state # "NONE" /\ sessions[n].state # "NONE"
           /\ sessions[m].family = sessions[n].family
           /\ m \in rows
           => n \in rows
    BY AccountsAreWholeFamilies
  <2>3. sessions' = Revoked(rows)
    BY <2>1
  <2> HIDE DEF rows
  <2>4. /\ sessions[k].state # "NONE" /\ sessions[l].state # "NONE"
        /\ sessions[k].family = sessions[l].family
    BY <2>3, RevokedRows DEF AccountsInv
  <2> QED
    BY <2>2, <2>3, <2>4, WholeFamiliesRevoked
<1>3. CASE FamilyRevoked
  <2>1. PICK i \in SessionIds : sessions' = Revoked(FamilyOf(i))
    BY <1>3 DEF FamilyRevoked
  <2> DEFINE rows == FamilyOf(i)
  <2>2. \A m, n \in SessionIds :
           /\ sessions[m].state # "NONE" /\ sessions[n].state # "NONE"
           /\ sessions[m].family = sessions[n].family
           /\ m \in rows
           => n \in rows
    BY DEF FamilyOf
  <2>3. sessions' = Revoked(rows)
    BY <2>1
  <2> HIDE DEF rows
  <2>4. /\ sessions[k].state # "NONE" /\ sessions[l].state # "NONE"
        /\ sessions[k].family = sessions[l].family
    BY <2>3, RevokedRows DEF AccountsInv
  <2> QED
    BY <2>2, <2>3, <2>4, WholeFamiliesRevoked
<1>4. CASE Rotated
  <2>1. PICK i \in SessionIds, j \in SessionIds : Rotation(i, j)
    BY <1>4 DEF Rotated
  <2>2. /\ i # j /\ sessions[j].state = "NONE"
        /\ sessions[i].state = "LIVE" /\ sessions[i].superseded = Null
        /\ \A m \in SessionIds : m # i /\ m # j => sessions'[m] = sessions[m]
        /\ \A m \in SessionIds : m # j =>
             /\ sessions'[m].state = sessions[m].state
             /\ sessions'[m].user = sessions[m].user
             /\ sessions'[m].family = sessions[m].family
             /\ sessions'[m].seq = sessions[m].seq
        /\ sessions'[i].superseded = now
        /\ sessions'[j] = Successor(i)
    BY <2>1, RotationEffects
  <2>3. /\ sessions'[j].state = "LIVE" /\ sessions'[j].user = sessions[i].user
        /\ sessions'[j].family = sessions[i].family
        /\ sessions'[j].seq = sessions[i].seq + 1
    BY <2>2 DEF Successor
  <2>4. now # Null
    BY DEF AccountsInv, AccountsTypeOK, Null
  <2>5. \A m \in SessionIds : sessions[m].state # "NONE" => m < j /\ sessions[m].seq \in Nat
    <3>1. ASSUME NEW m \in SessionIds, sessions[m].state # "NONE"
          PROVE  m < j
      <4>1. m # j /\ ~(j < m)
        BY <2>2, <3>1 DEF AccountsInv, StoredInOrder
      <4> QED
        BY <4>1 DEF SessionIds
    <3> QED
      BY <3>1, RowTypes DEF AccountsInv, SessionRows
  \* The row rotated is the last of its family.
  <2>6. ASSUME NEW m \in SessionIds, sessions[m].state # "NONE",
               sessions[m].family = sessions[i].family
        PROVE  /\ sessions[m].user = sessions[i].user
               /\ sessions[m].state # "REVOKED"
               /\ m = i \/ (m < i /\ sessions[m].superseded # Null)
               /\ sessions[m].seq <= sessions[i].seq
    <3>1. /\ sessions[m].user = sessions[i].user
          /\ sessions[m].state # "REVOKED"
          /\ m < i => sessions[m].superseded # Null /\ sessions[m].seq < sessions[i].seq
          /\ ~(i < m)
      BY <2>2, <2>6, PairsBefore
    <3>2. m = i \/ m < i \/ i < m
      BY DEF SessionIds
    <3> QED
      BY <2>2, <2>5, <2>6, <3>1, <3>2
  <2>7. CASE l = j /\ k # j
    <3>1. sessions[k].state # "NONE" /\ sessions[k].family = sessions[i].family
      BY <2>2, <2>3, <2>7
    <3>2. sessions'[k].superseded # Null
      BY <2>2, <2>4, <2>6, <2>7, <3>1
    <3>3. sessions'[k].seq < sessions'[j].seq
      BY <2>2, <2>3, <2>5, <2>6, <2>7, <3>1
    <3> QED
      BY <2>2, <2>3, <2>6, <2>7, <3>1, <3>2, <3>3
  <2>8. CASE k = j /\ l # j
    <3>1. sessions[l].state # "NONE" /\ sessions[l].family = sessions[i].family
      BY <2>2, <2>3, <2>8
    <3>2. l < j /\ ~(j < l)
      BY <2>5, <3>1 DEF SessionIds
    <3> QED
      BY <2>2, <2>3, <2>6, <2>8, <3>1, <3>2
  <2>9. CASE k = j /\ l = j
    BY <2>3, <2>9 DEF SessionIds
  <2>10. CASE k # j /\ l # j
    <3>1. /\ sessions[k].state # "NONE" /\ sessions[l].state # "NONE"
          /\ sessions[k].family = sessions[l].family
      BY <2>2, <2>10
    <3>2. sessions[k].superseded # Null => sessions'[k].superseded # Null
      BY <2>2, <2>4, <2>10
    <3> QED
      BY <2>2, <2>10, <3>1, <3>2, PairsBefore
  <2> QED
    BY <2>7, <2>8, <2>9, <2>10
<1>5. CASE Opened
  <2>1. PICK i \in SessionIds, u \in Users, us \in SUBSET Users,
             p \in Passwords, lifetime \in Nat : Opening(i, u, SessionsOf(us), p, lifetime)
    BY <1>5 DEF Opened
  <2> DEFINE rows == SessionsOf(us)
  <2>2. \A m, n \in SessionIds :
           /\ sessions[m].state # "NONE" /\ sessions[n].state # "NONE"
           /\ sessions[m].family = sessions[n].family
           /\ m \in rows
           => n \in rows
    BY AccountsAreWholeFamilies
  <2>3. Opening(i, u, rows, p, lifetime)
    BY <2>1
  <2> HIDE DEF rows
  <2>4. /\ \A m \in SessionIds : m # i => sessions'[m] = Revoked(rows)[m]
        /\ sessions'[i] = NewSession(i, u, p, lifetime)
        /\ \A m \in SessionIds :
             m # i /\ sessions'[m].state # "NONE" => sessions'[m].family # i
    BY <2>3, OpeningEffects
  <2>5. sessions'[i].family = i /\ sessions'[i].state = "LIVE"
    BY <2>4 DEF NewSession
  <2>6. CASE k = i \/ l = i
    <3>1. k = i /\ l = i
      BY <2>4, <2>5, <2>6
    <3> QED
      BY <3>1, <2>5 DEF SessionIds
  <2>7. CASE k # i /\ l # i
    <3>1. /\ sessions[k].state # "NONE" /\ sessions[l].state # "NONE"
          /\ sessions[k].family = sessions[l].family
      BY <2>4, <2>7, RevokedRows DEF AccountsInv
    <3> QED
      BY <2>2, <2>4, <2>7, <3>1, WholeFamiliesRevoked
  <2> QED
    BY <2>6, <2>7
<1> QED
  BY <1>1, <1>2, <1>3, <1>4, <1>5, StepEffects

LEMMA FamilyInvariant == AccountsSpec => []FamilyInv
<1>1. AccountsInit => FamilyInv
  BY DEF AccountsInit, FamilyInv, FamilyHasOneUser, FamilyRevokedTogether,
         FamilyIsAChain, Live, NoSession
<1> QED
  BY <1>1, FamilyStep, AccountsInvariant, PTL DEF AccountsSpec

\* A logout or a replay ends the whole family, whatever rotation of it is
\* under way; so does everything else that revokes a session.
THEOREM FamiliesEndTogether == AccountsSpec => []FamilyRevokedTogether
<1>1. FamilyInv => FamilyRevokedTogether
  BY DEF FamilyInv
<1> QED
  BY <1>1, FamilyInvariant, PTL

\* Parallel requests never give a family two current tokens.
THEOREM FamiliesAreChains == AccountsSpec => []FamilyIsAChain
<1>1. FamilyInv => FamilyIsAChain
  BY DEF FamilyInv
<1> QED
  BY <1>1, FamilyInvariant, PTL
=============================================================================
