------------------------------ MODULE Accounts ------------------------------
(***************************************************************************)
(* Users, their tokens, and branches (auth.py, routes/auth.py,             *)
(* routes/branches.py), from the state that seed.py leaves: one            *)
(* administrator and one branch, the head office, in the first             *)
(* organization.                                                           *)
(*                                                                         *)
(* A request that changes a table looks at it before it commits; the       *)
(* requests of other threads come in between. What one query decides is    *)
(* one step. A token is gone when the client forgets it or when it         *)
(* expires, which is the same to every other request: no clock is needed.  *)
(***************************************************************************)
EXTENDS Integers, Sequences, FiniteSets

CONSTANTS
    Emails, Admin,      \* Admin is the email of the seeded administrator
    Orgs, FirstOrg,
    Names,              \* of branches
    SeedName,
    Threads,
    Created,            \* the creatable roles that the model gives to users
    MAX_BRANCHES        \* bound of the model

CREATABLE_ROLES == {"GM", "DIRECTOR", "SALES"}

ASSUME SeedAssumption == Admin \in Emails /\ FirstOrg \in Orgs /\ SeedName \in Names
ASSUME CreatedAssumption == Created \subseteq CREATABLE_ROLES
ASSUME ThreadsAssumption == IsFiniteSet(Threads) /\ Threads # {}

VARIABLES
    users,      \* the rows of users, by their email, which is unique
    branches,   \* the rows of branches, in the order of commits
    tokens,     \* the tokens in the hands of clients
    request     \* thread -> the request it is serving

vars == <<users, branches, tokens, request>>

NoUser == [org |-> FirstOrg, role |-> "NONE", branch |-> 0, is_active |-> FALSE]
Idle == [op |-> "idle"]
Exists(u) == users[u].role # "NONE"

(* The id of a branch is its place; 0 is no branch.                         *)
Branches == 1..Len(branches)

Init ==
    /\ users = [u \in Emails |->
          IF u = Admin
          THEN [org |-> FirstOrg, role |-> "ADMIN", branch |-> 1, is_active |-> TRUE]
          ELSE NoUser]
    /\ branches = <<[org |-> FirstOrg, name |-> SeedName, is_head_office |-> TRUE]>>
    /\ tokens = {}
    /\ request = [t \in Threads |-> Idle]

-----------------------------------------------------------------------------
(* Tokens *)

create_access_token(u, org) == [sub |-> u, org |-> org, role |-> users[u].role]

(* What a request knows of its caller: user and role, and the organization  *)
(* of the token, which need not be the user's own.                          *)
get_current_user(token) == [user |-> token.sub, org |-> token.org, role |-> token.role]

Authentic(token) == Exists(token.sub) /\ users[token.sub].is_active

(* Slip: a role below is enough.                                            *)
is_director(auth) == auth.role \in {"DIRECTOR", "ADMIN"}

is_admin(auth) == auth.role = "ADMIN"

Become(t, r) == request' = [request EXCEPT ![t] = r]

login(u) ==
    /\ Exists(u) /\ users[u].is_active
    /\ tokens' = tokens \cup {create_access_token(u, users[u].org)}
    /\ UNCHANGED <<users, branches, request>>

(* Only the client forgets the token, at logout or when it expires: a copy  *)
(* of it would still be accepted.                                           *)
logout(token) ==
    /\ tokens' = tokens \ {token}
    /\ UNCHANGED <<users, branches, request>>

(* require_admin. A client that keeps its tokens still has the old one.     *)
switch_org(token, org) ==
    /\ Authentic(token) /\ is_admin(get_current_user(token))
    /\ tokens' = tokens \cup {create_access_token(token.sub, org)}
    /\ UNCHANGED <<users, branches, request>>

-----------------------------------------------------------------------------
(* Users *)

(* Slip: a branch of any organization.                                      *)
BranchesAnywhere(org) == {0} \cup Branches

BranchesOf(org) == {0} \cup {b \in Branches : branches[b].org = org}

(* create_user: a free email and, if one is asked for, a branch of the      *)
(* organization of the token.                                               *)
create_user(t, token, email, role) ==
    LET auth == get_current_user(token)
    IN  /\ request[t] = Idle
        /\ Authentic(token) /\ is_admin(auth)
        /\ ~ Exists(email)
        /\ \E b \in BranchesOf(auth.org) :
              Become(t, [op |-> "create_user", auth |-> auth, email |-> email,
                         row |-> [org |-> auth.org, role |-> role, branch |-> b,
                                  is_active |-> TRUE]])
        /\ UNCHANGED <<users, branches, tokens>>

(* The commit fails on the unique index if the email is taken by now.       *)
create_user_commit(t) ==
    LET r == request[t]
    IN  /\ r.op = "create_user"
        /\ users' = IF Exists(r.email) THEN users ELSE [users EXCEPT ![r.email] = r.row]
        /\ Become(t, Idle)
        /\ UNCHANGED <<branches, tokens>>

(* Slip: the account of the caller is not spared.                           *)
SameOrg(auth, u) == users[u].org = auth.org

Togglable(auth, u) == u # auth.user /\ users[u].org = auth.org

(* toggle_user_status reads the flag ...                                    *)
toggle_user_status(t, token, u) ==
    LET auth == get_current_user(token)
    IN  /\ request[t] = Idle
        /\ Authentic(token) /\ is_admin(auth)
        /\ Exists(u) /\ Togglable(auth, u)
        /\ Become(t, [op |-> "toggle", auth |-> auth, user |-> u,
                      is_active |-> ~ users[u].is_active])
        /\ UNCHANGED <<users, branches, tokens>>

SetActive(row, is_active) == [row EXCEPT !.is_active = is_active]

(* ... and writes the value computed from what it read.                     *)
toggle_commit(t) ==
    LET r == request[t]
    IN  /\ r.op = "toggle"
        /\ users' = [users EXCEPT ![r.user] = SetActive(@, r.is_active)]
        /\ Become(t, Idle)
        /\ UNCHANGED <<branches, tokens>>

-----------------------------------------------------------------------------
(* Branches *)

HeadOffices(org) == {b \in Branches : branches[b].org = org /\ branches[b].is_head_office}
Named(org, name) == {b \in Branches : branches[b].org = org /\ branches[b].name = name}

Creating == {t \in Threads : request[t].op = "create_branch"}

(* Slip: only the name is looked for.                                       *)
NameFree(org, name, is_head_office) == Named(org, name) = {}

Creatable(org, name, is_head_office) ==
    Named(org, name) = {} /\ (is_head_office => HeadOffices(org) = {})

create_branch(t, token, name, is_head_office) ==
    LET auth == get_current_user(token)
    IN  /\ request[t] = Idle
        /\ Authentic(token) /\ is_admin(auth)
        /\ Len(branches) + Cardinality(Creating) < MAX_BRANCHES
        /\ Creatable(auth.org, name, is_head_office)
        /\ Become(t, [op |-> "create_branch", auth |-> auth,
                      row |-> [org |-> auth.org, name |-> name,
                               is_head_office |-> is_head_office]])
        /\ UNCHANGED <<users, branches, tokens>>

(* No index of the table forbids a second one.                              *)
create_branch_commit(t) ==
    /\ request[t].op = "create_branch"
    /\ branches' = Append(branches, request[t].row)
    /\ Become(t, Idle)
    /\ UNCHANGED <<users, tokens>>

-----------------------------------------------------------------------------
Next ==
    \/ \E u \in Emails : login(u)
    \/ \E token \in tokens :
          \/ logout(token)
          \/ \E org \in Orgs : switch_org(token, org)
    \/ \E t \in Threads :
          \/ create_user_commit(t)
          \/ toggle_commit(t)
          \/ create_branch_commit(t)
          \/ \E token \in tokens :
                \/ \E u \in Emails, role \in Created : create_user(t, token, u, role)
                \/ \E u \in Emails : toggle_user_status(t, token, u)
                \/ \E name \in Names, hq \in BOOLEAN : create_branch(t, token, name, hq)

Spec == Init /\ [][Next]_vars

-----------------------------------------------------------------------------
(* Properties *)

User == [org : Orgs, role : CREATABLE_ROLES \cup {"ADMIN", "NONE"}, branch : Nat,
         is_active : BOOLEAN]
Branch == [org : Orgs, name : Names, is_head_office : BOOLEAN]
Role == CREATABLE_ROLES \cup {"ADMIN"}
Token == [sub : Emails, org : Orgs, role : Role]
Auth == [user : Emails, org : Orgs, role : Role]

Request ==
    [op : {"idle"}]
        \cup [op : {"create_user"}, auth : Auth, email : Emails, row : User]
        \cup [op : {"toggle"}, auth : Auth, user : Emails, is_active : BOOLEAN]
        \cup [op : {"create_branch"}, auth : Auth, row : Branch]

(* The types, and that only accounts that exist have a token or a request,  *)
(* under the role they have now.                                            *)
TypeOK ==
    /\ users \in [Emails -> User]
    /\ branches \in Seq(Branch)
    /\ tokens \subseteq Token
    /\ \A token \in tokens : token.role = users[token.sub].role
    /\ request \in [Threads -> Request]
    /\ \A t \in Threads :
          /\ request[t].op = "toggle" => Exists(request[t].user)
          /\ request[t].op # "idle" =>
                users[request[t].auth.user].role = "ADMIN" /\ is_admin(request[t].auth)

(* A token for an organization other than its user's own is an              *)
(* administrator's, who came there by switch_org: everybody else works in   *)
(* one organization only, whatever tokens are kept.                         *)
TokensAtHome ==
    \A token \in tokens :
        token.org # users[token.sub].org => users[token.sub].role = "ADMIN"

(* A user's branch belongs to the user's organization, also when an         *)
(* administrator of another one created the account.                        *)
BranchOfOwnOrg ==
    \A u \in Emails :
        Exists(u) /\ users[u].branch # 0 =>
            /\ users[u].branch \in Branches
            /\ branches[users[u].branch].org = users[u].org

(* Whatever requests overlap and whatever tokens are kept, organizations    *)
(* stay apart, in what a user may do and in what an account is of.          *)
KeptApart == TokensAtHome /\ BranchOfOwnOrg

(* The seeded administrator is the only one ("ADMIN cannot be created via   *)
(* API") and nobody can deactivate the account, so that there always is     *)
(* somebody who can reactivate the others.                                  *)
AdminStays ==
    /\ users[Admin].role = "ADMIN" /\ users[Admin].is_active
    /\ \A u \in Emails \ {Admin} : users[u].role # "ADMIN"

(* The seeded organization keeps its one head office, and another one gets  *)
(* at most as many head offices, or branches of one name, as requests can   *)
(* overlap: the checks of create_branch see what is committed.              *)
HeadOfficesBounded ==
    /\ Cardinality(HeadOffices(FirstOrg)) = 1
    /\ \A org \in Orgs :
          /\ Cardinality(HeadOffices(org)) <= Cardinality(Threads)
          /\ \A name \in Names : Cardinality(Named(org, name)) <= Cardinality(Threads)

(* An account is activated or deactivated only from its own organization,   *)
(* and never by itself.                                                     *)
ToggledFromOwnOrg ==
    [][\A u \in Emails :
          Exists(u) /\ users'[u].is_active # users[u].is_active =>
              \E t \in Threads :
                  /\ request[t].op = "toggle" /\ request[t].user = u
                  /\ request[t].auth.org = users[u].org /\ request[t].auth.user # u]_vars
=============================================================================
