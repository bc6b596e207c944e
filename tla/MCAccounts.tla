----------------------------- MODULE MCAccounts -----------------------------
(* Instances of Accounts for TLC.  What a behaviour looks at is chosen at    *)
(* the start: the sessions of one account from their first login to their    *)
(* end, or all accounts and their administration at two instants, a rotation *)
(* apart.                                                                    *)
EXTENDS Accounts, TLC

CONSTANTS TheBranch,
          MaxInstant, MaxTogether   \* bounds when all accounts act: instants, session rows

VARIABLE acting      \* the accounts that log in

AllAtTheBranch == [u \in Users |-> TheBranch]
AccountsAndRequestsAlike == Permutations(Users) \cup Permutations(Requests)

MCAccountsInit ==
    /\ AccountsInit
    /\ acting \in {Users} \cup {{u} : u \in Users}

\* Logins of an account that does not act are not looked at, nor what an
\* administrator's request would do.
Looked(q) ==
    /\ requests'[q].at = "LOGIN" => requests'[q].user \in acting
    /\ requests'[q].op # "ADMINISTER"

OneAccount ==
    /\ acting # Users
    /\ \/ \E q \in Requests : (SessionStep(q) \/ OwnAccountStep(q)) /\ Looked(q)
       \/ Tick

AllAccounts ==
    /\ acting = Users
    /\ \/ /\ now # 2
          /\ \E q \in Requests :
               SessionStep(q) \/ OwnAccountStep(q) \/ AdministrationStep(q)
       \/ now < MaxInstant /\ Tick
    /\ \A i \in SessionIds : sessions'[i].state # "NONE" => i <= MaxTogether

MCAccountsNext == (OneAccount \/ AllAccounts) /\ UNCHANGED acting

MCAccountsSpec == MCAccountsInit /\ [][MCAccountsNext]_<<accountVars, acting>>
=============================================================================
