------------------------------ MODULE Accounts ------------------------------
(* The accounts, their branches and the requests that change them: login and *)
(* change of password (auth.service.ts), the check of every request          *)
(* (auth.middleware.ts), administration (users.service.ts) and the status of *)
(* a branch (branches.service.ts).  What an administrator may do is decided  *)
(* when the request is authenticated; the handler runs later.                *)
EXTENDS Sessions

MustChangePassword(u) == users[u].tempUntil # Null
TempPasswordExpired(u) == MustChangePassword(u) /\ users[u].tempUntil <= now
BranchAdmits(u) == users[u].branch \in activeBranches \cup {NoBranch}

-----------------------------------------------------------------------------
(* Login.                                                                    *)

\* The account and the status of its branch are read before the row is
\* locked; the password typed is the one of that moment.
FindUserByPhone(q, u) ==
    /\ requests[q] = IdleRequest
    /\ BranchAdmits(u)
    /\ Moved(q, [IdleRequest EXCEPT !.at = "LOGIN", !.user = u,
                                    !.password = users[u].password])
    /\ UNCHANGED <<users, activeBranches, sessions, now>>

\* Mutant: the password was compared with the hash read before the lock.
LoginOnReadHash(q) ==
    LET u == requests[q].user IN
    /\ requests[q].at = "LOGIN"
    /\ users[u].status = "ACTIVE"
    /\ ~TempPasswordExpired(u)
    /\ \E i \in SessionIds, lifetime \in {SessionTtl, RememberedTtl} :
         /\ NextSession(i)
         /\ sessions' = [sessions EXCEPT
                           ![i] = NewSession(i, u, requests[q].password, lifetime)]
    /\ Ended(q)
    /\ UNCHANGED <<users, activeBranches, now>>

\* The rest is checked on the locked row; the session is created with it.
Login(q) ==
    LET u == requests[q].user IN
    /\ requests[q].at = "LOGIN"
    /\ users[u].password = requests[q].password
    /\ users[u].status = "ACTIVE"
    /\ ~TempPasswordExpired(u)
    /\ \E i \in SessionIds, lifetime \in {SessionTtl, RememberedTtl} :
         /\ NextSession(i)
         /\ sessions' = [sessions EXCEPT
                           ![i] = NewSession(i, u, users[u].password, lifetime)]
    /\ Ended(q)
    /\ UNCHANGED <<users, activeBranches, now>>

-----------------------------------------------------------------------------
(* requireAuth and requirePermission: the account is read after the session. *)
Authenticate(q) ==
    LET u == sessions[requests[q].row].user IN
    /\ requests[q].at = "RESOLVED"
    /\ users[u].status = "ACTIVE"
    /\ BranchAdmits(u)
    /\ \/ requests[q].op = "CHANGE_PASSWORD"
       \/ /\ requests[q].op = "ADMINISTER"
          /\ ~MustChangePassword(u)
          /\ users[u].role = "ADMIN"
    /\ Moved(q, [requests[q] EXCEPT !.at = "HANDLER", !.row = 0, !.user = u])
    /\ UNCHANGED <<users, activeBranches, sessions, now>>

Handling(q, op) == requests[q].at = "HANDLER" /\ requests[q].op = op

\* A refusal, a handler that only reads, or the end of the process: what was
\* not committed never happens.
EndRequest(q) ==
    /\ requests[q].at # "IDLE"
    /\ Ended(q)
    /\ UNCHANGED <<users, activeBranches, sessions, now>>

\* The account row is locked; its status is not looked at again.
ChangePassword(q) ==
    LET u == requests[q].user
        next == users[u].password + 1
    IN  /\ Handling(q, "CHANGE_PASSWORD")
        /\ ~TempPasswordExpired(u)
        /\ users[u].password = requests[q].password
        /\ next \in Passwords
        /\ users' = [users EXCEPT ![u] = [@ EXCEPT !.password = next, !.tempUntil = Null]]
        /\ \E i \in SessionIds :
             /\ NextSession(i)
             /\ sessions' = [Revoked(SessionsOf({u})) EXCEPT
                               ![i] = NewSession(i, u, next, SessionTtl)]
        /\ Ended(q)
        /\ UNCHANGED <<activeBranches, now>>

-----------------------------------------------------------------------------
(* Administration.                                                           *)
ActiveAdmins == {u \in Users : users[u].role = "ADMIN" /\ users[u].status = "ACTIVE"}

\* Mutant: the one who is blocked or demoted is counted among the others.
AnyActiveAdmin(t) == ActiveAdmins # {}

\* lockActiveAdminIds serializes the operations that need it.
AnotherAdminThan(t) == ActiveAdmins \ {t} # {}

BlockUser(q, t) ==
    /\ Handling(q, "ADMINISTER")
    /\ t # requests[q].user
    /\ users[t].status = "ACTIVE"
    /\ users[t].role = "ADMIN" => AnotherAdminThan(t)
    /\ users' = [users EXCEPT ![t].status = "BLOCKED"]
    /\ sessions' = Revoked(SessionsOf({t}))
    /\ Ended(q)
    /\ UNCHANGED <<activeBranches, now>>

UnblockUser(q, t) ==
    /\ Handling(q, "ADMINISTER")
    /\ users[t].status = "BLOCKED"
    /\ users' = [users EXCEPT ![t].status = "ACTIVE"]
    /\ Ended(q)
    /\ UNCHANGED <<activeBranches, sessions, now>>

\* resolveRoleAndBranch for an administrator.
RoleFitsBranch(role, branch) ==
    /\ role # "ADMIN" => branch # NoBranch
    /\ branch \in activeBranches \cup {NoBranch}

\* A field that is not given keeps its value; names, phone and region are
\* left out.
UpdateUser(q, t, role, branch) ==
    /\ Handling(q, "ADMINISTER")
    /\ role # users[t].role => t # requests[q].user
    /\ users[t].role = "ADMIN" /\ role # "ADMIN" => AnotherAdminThan(t)
    /\ RoleFitsBranch(role, branch)
    /\ users' = [users EXCEPT ![t] = [@ EXCEPT !.role = role, !.branch = branch]]
    /\ Ended(q)
    /\ UNCHANGED <<activeBranches, sessions, now>>

\* The administrator's own password is verified and the temporary one made
\* before the transaction; its life is counted from there.
ConfirmReset(q, t) ==
    /\ Handling(q, "ADMINISTER")
    /\ t # requests[q].user
    /\ Moved(q, [requests[q] EXCEPT !.at = "RESET", !.user = t,
                                    !.until = now + TempTtl])
    /\ UNCHANGED <<users, activeBranches, sessions, now>>

ResetUserPassword(q) ==
    LET t == requests[q].user
        next == users[t].password + 1
    IN  /\ requests[q].at = "RESET"
        /\ next \in Passwords
        /\ users' = [users EXCEPT ![t] = [@ EXCEPT !.password = next,
                                                  !.tempUntil = requests[q].until]]
        /\ sessions' = Revoked(SessionsOf({t}))
        /\ Ended(q)
        /\ UNCHANGED <<activeBranches, now>>

DeactivateBranch(q, b) ==
    /\ Handling(q, "ADMINISTER")
    /\ b \in activeBranches
    /\ activeBranches' = activeBranches \ {b}
    /\ sessions' = Revoked(SessionsOf({u \in Users : users[u].branch = b}))
    /\ Ended(q)
    /\ UNCHANGED <<users, now>>

ActivateBranch(q, b) ==
    /\ Handling(q, "ADMINISTER")
    /\ b \notin activeBranches
    /\ activeBranches' = activeBranches \cup {b}
    /\ Ended(q)
    /\ UNCHANGED <<users, sessions, now>>

-----------------------------------------------------------------------------
Tick ==
    /\ now < MaxClock
    /\ now' = now + 1
    /\ UNCHANGED <<users, activeBranches, sessions, requests>>

AccountsInit ==
    /\ users = [u \in Users |->
                  [status |-> "ACTIVE",
                   role |-> IF u \in Admins THEN "ADMIN" ELSE "USTA",
                   branch |-> HomeBranch[u], password |-> 1, tempUntil |-> Null]]
    /\ activeBranches = Branches
    /\ sessions = [i \in SessionIds |-> NoSession]
    /\ requests = [q \in Requests |-> IdleRequest]
    /\ now = 1

SessionStep(q) ==
    \/ \E i \in SessionIds :
         \/ \E op \in {"CHANGE_PASSWORD", "ADMINISTER"} : PresentToken(q, i, op)
         \/ DetectReplay(q, i)
         \/ ReadForLogout(q, i)
    \/ RotateSession(q)
    \/ RotationLost(q)
    \/ RefreshSession(q)
    \/ RevokeFamily(q)

OwnAccountStep(q) ==
    \/ \E u \in Users : FindUserByPhone(q, u)
    \/ Login(q)
    \/ Authenticate(q)
    \/ ChangePassword(q)
    \/ EndRequest(q)

AdministrationStep(q) ==
    \/ \E t \in Users :
         \/ BlockUser(q, t)
         \/ UnblockUser(q, t)
         \/ ConfirmReset(q, t)
         \/ \E role \in Roles, branch \in Branches \cup {NoBranch} :
              UpdateUser(q, t, role, branch)
    \/ ResetUserPassword(q)
    \/ \E b \in Branches : DeactivateBranch(q, b) \/ ActivateBranch(q, b)

AccountsNext ==
    \/ \E q \in Requests : SessionStep(q) \/ OwnAccountStep(q) \/ AdministrationStep(q)
    \/ Tick

AccountsSpec == AccountsInit /\ [][AccountsNext]_accountVars

-----------------------------------------------------------------------------
(* Properties.                                                               *)

SessionRows ==
    [state : {"LIVE", "REVOKED"}, user : Users, family : SessionIds,
     seq : Nat, created : Nat, used : Nat, superseded : Nat, expires : Nat,
     password : Passwords]

\* Every row holds values its columns can hold: a stored session belongs to
\* an account and to a family whose root is stored.
AccountsTypeOK ==
    /\ users \in [Users -> [status : {"ACTIVE", "BLOCKED"}, role : Roles,
                            branch : Branches \cup {NoBranch},
                            password : Passwords, tempUntil : Nat]]
    /\ activeBranches \subseteq Branches
    /\ sessions \in [SessionIds -> {NoSession} \cup SessionRows]
    /\ requests \in [Requests ->
         [at : {"IDLE", "LOGIN", "ROTATE", "REFRESH", "REVOKE", "RESOLVED",
                "HANDLER", "RESET"},
          op : {"NONE", "CHANGE_PASSWORD", "ADMINISTER"},
          row : SessionIds \cup {0}, user : Users \cup {NoUser},
          password : Passwords \cup {0}, until : Nat]]
    /\ now \in Nat \ {0}

Live(i) == sessions[i].state = "LIVE"

\* "A stale/replacement session can never outlive an intervening reset"
\* (auth.service.ts:301): however logins, rotations, changes and resets of a
\* password interleave, a session that works was opened with the password the
\* account has now.
SessionsMatchPassword ==
    \A i \in SessionIds :
       Live(i) => sessions[i].password = users[sessions[i].user].password

\* Administrators who block and demote each other, each allowed to when the
\* request was authenticated, never leave the system without an active one.
AnActiveAdminRemains == ActiveAdmins # {}

\* A logout or a replay ends the whole family, whatever rotation of it is
\* under way: no row of a family lives on beside a revoked one.
FamilyRevokedTogether ==
    \A i, j \in SessionIds :
       Live(i) /\ sessions[j].state = "REVOKED"
         => sessions[i].family # sessions[j].family

\* Parallel requests never give a family two current tokens: its rows are a
\* chain, numbered as the browser orders them, and only the last is current.
FamilyIsAChain ==
    \A i, j \in SessionIds :
       /\ sessions[i].state # "NONE" /\ sessions[j].state # "NONE"
       /\ sessions[i].family = sessions[j].family
       /\ i < j
       => sessions[i].superseded # Null /\ sessions[i].seq < sessions[j].seq
=============================================================================
