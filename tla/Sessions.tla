------------------------------ MODULE Sessions ------------------------------
(* The session rows and what session.service.ts does with them: a login is a *)
(* family of rows, the current row is rotated to a successor when it is due, *)
(* a superseded row works for a grace period and revokes its family after    *)
(* it.  A request reads its row without a lock and acts on it later, so the  *)
(* reading and each later write are actions of their own; a transaction that *)
(* locks what it decides on is one action.                                   *)
EXTENDS Naturals, FiniteSets

CONSTANTS
    Users,           \* the accounts, none of them deleted
    NoUser,
    Admins,          \* the accounts that start with the ADMIN role
    Branches,
    NoBranch,        \* a NULL branch_id
    HomeBranch,      \* [Users -> Branches \cup {NoBranch}], where they start
    Requests,        \* requests that may be in flight at once
    RotateAfter,     \* SESSION_ROTATE_MINUTES
    GraceFor,        \* SESSION_ROTATION_GRACE_SECONDS
    IdleFor,         \* SESSION_IDLE_MINUTES
    RefreshAfter,    \* the minute after which last_used_at is written again
    SessionTtl,      \* SESSION_TTL_HOURS, the life of a session
    RememberedTtl,   \* SESSION_ABSOLUTE_DAYS, with "remember me"
    TempTtl          \* TEMP_PASSWORD_TTL_MINUTES

(* Bounds of the checked instances; the code has none of them.               *)
CONSTANTS MaxClock, MaxSessions, MaxPassword

SessionIds == 1..MaxSessions
Passwords == 1..MaxPassword
Roles == {"ADMIN", "USTA"}
Null == 0

ASSUME DurationsAssumption ==
    /\ {RotateAfter, GraceFor, IdleFor, RefreshAfter} \subseteq Nat
    /\ {SessionTtl, RememberedTtl, TempTtl} \subseteq Nat \ {0}

ASSUME AccountBoundsAssumption ==
    /\ MaxClock \in Nat \ {0}
    /\ MaxSessions \in Nat
    /\ MaxPassword \in Nat \ {0}

ASSUME AccountsAssumption ==
    /\ Admins \subseteq Users /\ Admins # {}
    /\ NoUser \notin Users
    /\ NoBranch \notin Branches
    /\ HomeBranch \in [Users -> Branches \cup {NoBranch}]

VARIABLES
    users,           \* users rows: status, role, branch, password, tempUntil
    activeBranches,  \* the branches with status ACTIVE
    sessions,        \* sessions rows
    requests,        \* where each request stands, and what it has read
    now              \* one clock: the database and the server agree on time

accountVars == <<users, activeBranches, sessions, requests, now>>

\* A password is the number of times it has been set.  A session carries the
\* one its family was created under: no column, it is what the properties
\* compare.
NoSession ==
    [state |-> "NONE", user |-> NoUser, family |-> 0, seq |-> 0,
     created |-> 0, used |-> 0, superseded |-> Null, expires |-> 0,
     password |-> 0]
IdleRequest ==
    [at |-> "IDLE", op |-> "NONE", row |-> 0, user |-> NoUser,
     password |-> 0, until |-> 0]

Moved(q, request) == requests' = [requests EXCEPT ![q] = request]
Ended(q) == Moved(q, IdleRequest)

-----------------------------------------------------------------------------
(* Creating and revoking.                                                    *)

NextSession(i) ==
    sessions[i].state = "NONE" /\ \A j \in 1..(i - 1) : sessions[j].state # "NONE"

NewSession(i, u, password, lifetime) ==
    [state |-> "LIVE", user |-> u, family |-> i, seq |-> 0,
     created |-> now, used |-> now, superseded |-> Null,
     expires |-> now + lifetime, password |-> password]

Revoked(rows) ==
    [i \in SessionIds |->
       IF i \in rows /\ sessions[i].state = "LIVE"
         THEN [sessions[i] EXCEPT !.state = "REVOKED"]
         ELSE sessions[i]]

SessionsOf(us) == {i \in SessionIds : sessions[i].user \in us}

FamilyOf(i) == {j \in SessionIds : sessions[j].family = sessions[i].family}

-----------------------------------------------------------------------------
(* resolveSession.                                                           *)
Expired(i) ==
    \/ sessions[i].expires <= now
    \/ now - sessions[i].used > IdleFor

InGrace(i) == now - sessions[i].superseded <= GraceFor

DueForRotation(i) == now - sessions[i].created > RotateAfter
DueForRefresh(i) == now - sessions[i].used > RefreshAfter

\* What a request does next with a row that is neither expired nor replayed.
Verdict(i) ==
    CASE sessions[i].superseded # Null -> "RESOLVED"
      [] DueForRotation(i)             -> "ROTATE"
      [] DueForRefresh(i)              -> "REFRESH"
      [] OTHER                         -> "RESOLVED"

\* A request arrives with the cookie of row i.  An invalid one is refused and
\* changes nothing.  A change of password carries the current password, as it
\* is when the request is sent; with another one it changes nothing.
PresentToken(q, i, op) ==
    /\ requests[q] = IdleRequest
    /\ sessions[i].state = "LIVE"
    /\ ~Expired(i)
    /\ sessions[i].superseded = Null \/ InGrace(i)
    /\ Moved(q, [IdleRequest EXCEPT
                   !.at = Verdict(i), !.op = op, !.row = i,
                   !.password = IF op = "CHANGE_PASSWORD"
                                  THEN users[sessions[i].user].password ELSE 0])
    /\ UNCHANGED <<users, activeBranches, sessions, now>>

\* The family is to be revoked: a rotated token comes back after its grace.
DetectReplay(q, i) ==
    /\ requests[q] = IdleRequest
    /\ sessions[i].state = "LIVE"
    /\ ~Expired(i)
    /\ sessions[i].superseded # Null /\ ~InGrace(i)
    /\ Moved(q, [IdleRequest EXCEPT !.at = "REVOKE", !.row = i])
    /\ UNCHANGED <<users, activeBranches, sessions, now>>

\* So it is after a logout, which looks at nothing but revoked_at.
ReadForLogout(q, i) ==
    /\ requests[q] = IdleRequest
    /\ sessions[i].state = "LIVE"
    /\ Moved(q, [IdleRequest EXCEPT !.at = "REVOKE", !.row = i])
    /\ UNCHANGED <<users, activeBranches, sessions, now>>

RevokeFamily(q) ==
    /\ requests[q].at = "REVOKE"
    /\ sessions' = Revoked(FamilyOf(requests[q].row))
    /\ Ended(q)
    /\ UNCHANGED <<users, activeBranches, now>>

Successor(i) ==
    [state |-> "LIVE", user |-> sessions[i].user, family |-> sessions[i].family,
     seq |-> sessions[i].seq + 1, created |-> now, used |-> now,
     superseded |-> Null, expires |-> sessions[i].expires,
     password |-> sessions[i].password]

\* Mutant: the row lock is taken, but not used to look at the row again.
RotateUnseen(q) ==
    LET i == requests[q].row IN
    /\ requests[q].at = "ROTATE"
    /\ sessions[i].state = "LIVE"
    /\ \E j \in SessionIds :
         /\ NextSession(j)
         /\ sessions' = [sessions EXCEPT ![j] = Successor(i), ![i].superseded = now]
         /\ Moved(q, [requests[q] EXCEPT !.at = "RESOLVED", !.row = j])
    /\ UNCHANGED <<users, activeBranches, now>>

\* Mutant: a row revoked since it was read is rotated all the same.
RotateRevoked(q) ==
    LET i == requests[q].row IN
    /\ requests[q].at = "ROTATE"
    /\ sessions[i].superseded = Null
    /\ \E j \in SessionIds :
         /\ NextSession(j)
         /\ sessions' = [sessions EXCEPT ![j] = Successor(i), ![i].superseded = now]
         /\ Moved(q, [requests[q] EXCEPT !.at = "RESOLVED", !.row = j])
    /\ UNCHANGED <<users, activeBranches, now>>

\* The row is locked and read again; the request continues on its successor.
RotateSession(q) ==
    LET i == requests[q].row IN
    /\ requests[q].at = "ROTATE"
    /\ sessions[i].state = "LIVE"
    /\ sessions[i].superseded = Null
    /\ \E j \in SessionIds :
         /\ NextSession(j)
         /\ sessions' = [sessions EXCEPT ![j] = Successor(i), ![i].superseded = now]
         /\ Moved(q, [requests[q] EXCEPT !.at = "RESOLVED", !.row = j])
    /\ UNCHANGED <<users, activeBranches, now>>

\* Rotated or revoked meanwhile: the request continues on the row it has read.
RotationLost(q) ==
    /\ requests[q].at = "ROTATE"
    /\ \/ sessions[requests[q].row].state # "LIVE"
       \/ sessions[requests[q].row].superseded # Null
    /\ Moved(q, [requests[q] EXCEPT !.at = "RESOLVED"])
    /\ UNCHANGED <<users, activeBranches, sessions, now>>

RefreshSession(q) ==
    /\ requests[q].at = "REFRESH"
    /\ sessions' = [sessions EXCEPT ![requests[q].row].used = now]
    /\ Moved(q, [requests[q] EXCEPT !.at = "RESOLVED"])
    /\ UNCHANGED <<users, activeBranches, now>>
=============================================================================
