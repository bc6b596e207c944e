---------------------------- MODULE Registration ---------------------------
(* Registration requests and the accounts they lead to (auth.service.ts,     *)
(* registration.admin.service.ts, users.service.ts). The checks of a new     *)
(* request and of a new account take no lock and the password is hashed      *)
(* before the insert, so both are two actions; a review is one transaction   *)
(* under the lock of the request's row.                                      *)
EXTENDS Integers, Sequences, FiniteSetsExt

CONSTANTS Phones,
          ServiceBranches,   \* branches a technician may ask for
          NoPhone,           \* no call in flight
          Calls,             \* calls of createRegistrationRequest or createUser
          MaxRequests, MaxAccounts   \* bounds: rows inserted

VARIABLES registrations,   \* registration_requests, by id
          accounts,        \* users, by id, as far as registration goes
          openBranches,    \* branches with status ACTIVE
          calls            \* calls past their checks

registrationVars == <<registrations, accounts, openBranches, calls>>

NoCall == [kind |-> "none", phone |-> NoPhone]

PhoneFree(phone) == \A u \in DOMAIN accounts : accounts[u].phone # phone

Pending(phone) ==
    \E r \in DOMAIN registrations :
        registrations[r].phone = phone /\ registrations[r].status = "PENDING"

EndCall(c) == calls' = [calls EXCEPT ![c] = NoCall]

-----------------------------------------------------------------------------
CheckRequest(c, phone, branch) ==
    /\ calls[c] = NoCall
    /\ branch \in openBranches
    /\ PhoneFree(phone)
    /\ ~Pending(phone)
    /\ calls' = [calls EXCEPT ![c] = [kind |-> "register", phone |-> phone, branch |-> branch]]
    /\ UNCHANGED <<registrations, accounts, openBranches>>

(* No unique index stands behind the check for a pending request.            *)
CreateRegistrationRequest(c) ==
    /\ calls[c].kind = "register"
    /\ Len(registrations) < MaxRequests
    /\ registrations' = Append(registrations,
          [phone |-> calls[c].phone, branch |-> calls[c].branch, status |-> "PENDING", account |-> 0])
    /\ EndCall(c)
    /\ UNCHANGED <<accounts, openBranches>>

NewAccount(phone, branch) == Append(accounts, [phone |-> phone, branch |-> branch])
(* The branch of the request is not looked at again.                         *)
ApproveRequest(r) ==
    LET request == registrations[r] IN
    /\ request.status = "PENDING"
    /\ PhoneFree(request.phone)
    /\ Len(accounts) < MaxAccounts
    /\ accounts' = NewAccount(request.phone, request.branch)
    /\ registrations' = [registrations EXCEPT
          ![r] = [request EXCEPT !.status = "APPROVED", !.account = Len(accounts) + 1]]
    /\ UNCHANGED <<openBranches, calls>>

RejectRequest(r) ==
    /\ registrations[r].status = "PENDING"
    /\ registrations' = [registrations EXCEPT ![r] = [@ EXCEPT !.status = "REJECTED"]]
    /\ UNCHANGED <<accounts, openBranches, calls>>

CheckUser(c, phone, branch) ==
    /\ calls[c] = NoCall
    /\ branch \in openBranches
    /\ PhoneFree(phone)
    /\ calls' = [calls EXCEPT ![c] = [kind |-> "create", phone |-> phone, branch |-> branch]]
    /\ UNCHANGED <<registrations, accounts, openBranches>>

\* Mutant: only the check made before the password was hashed.
CreateUserUnchecked(c) ==
    /\ calls[c].kind = "create"
    /\ Len(accounts) < MaxAccounts
    /\ accounts' = NewAccount(calls[c].phone, calls[c].branch)
    /\ EndCall(c)
    /\ UNCHANGED <<registrations, openBranches>>

(* The unique index on the phone decides between two calls.                  *)
CreateUser(c) ==
    /\ calls[c].kind = "create"
    /\ Len(accounts) < MaxAccounts
    /\ accounts' = IF PhoneFree(calls[c].phone)
                   THEN NewAccount(calls[c].phone, calls[c].branch) ELSE accounts
    /\ EndCall(c)
    /\ UNCHANGED <<registrations, openBranches>>

ChangePhone(u, phone) ==
    /\ PhoneFree(phone)
    /\ accounts' = [accounts EXCEPT ![u] = [@ EXCEPT !.phone = phone]]
    /\ UNCHANGED <<registrations, openBranches, calls>>

ToggleBranch(b) ==
    /\ openBranches' = IF b \in openBranches THEN openBranches \ {b} ELSE openBranches \cup {b}
    /\ UNCHANGED <<registrations, accounts, calls>>

-----------------------------------------------------------------------------
RegistrationInit ==
    /\ registrations = <<>>
    /\ accounts = <<>>
    /\ openBranches = ServiceBranches
    /\ calls = [c \in Calls |-> NoCall]

RegistrationNext ==
    \/ \E c \in Calls, phone \in Phones, b \in ServiceBranches :
          CheckRequest(c, phone, b) \/ CheckUser(c, phone, b)
    \/ \E c \in Calls : CreateRegistrationRequest(c) \/ CreateUser(c)
    \/ \E r \in DOMAIN registrations : ApproveRequest(r) \/ RejectRequest(r)
    \/ \E u \in DOMAIN accounts, phone \in Phones : ChangePhone(u, phone)
    \/ \E b \in ServiceBranches : ToggleBranch(b)

RegistrationSpec == RegistrationInit /\ [][RegistrationNext]_registrationVars

-----------------------------------------------------------------------------
(* Properties                                                                *)

(* A phone has one account and an approval one account of its own: two       *)
(* requests for the same phone may be pending at once, a review may overtake *)
(* the creation of a user who asked for it, and the phone of an account may  *)
(* change in between.                                                        *)
OneAccountPerPhone ==
    /\ \A u, v \in DOMAIN accounts : accounts[u].phone = accounts[v].phone => u = v
    /\ \A r \in DOMAIN registrations :
          (registrations[r].status = "APPROVED") <=> (registrations[r].account \in DOMAIN accounts)
    /\ \A r, s \in DOMAIN registrations :
          r # s /\ registrations[r].account # 0
              => registrations[r].account # registrations[s].account
=============================================================================
