--------------------------- MODULE AccountsProofs ---------------------------
(***************************************************************************)
(* Theorems about Accounts, for any emails, organizations, branches and    *)
(* threads.                                                                *)
(***************************************************************************)
EXTENDS Accounts, FiniteSetTheorems, TLAPS

\* A branch, or none, of an organization, in a table of branches.
Fits(row, table) ==
  row.branch # 0 =>
    row.branch \in 1..Len(table) /\ table[row.branch].org = row.org

\* What a request that is being served knows of the accounts.
CallerOK(r, accounts) ==
  r.op # "idle" => accounts[r.auth.user].role = "ADMIN" /\ r.auth.role = "ADMIN"

ToggleOK(r, accounts) ==
  r.op = "toggle" =>
    /\ accounts[r.user].role # "NONE"
    /\ r.user # r.auth.user
    /\ accounts[r.user].org = r.auth.org

CreateOK(r, table) ==
  r.op = "create_user" => r.row.role \in CREATABLE_ROLES /\ Fits(r.row, table)

RequestOK(r) == CallerOK(r, users) /\ ToggleOK(r, users) /\ CreateOK(r, branches)

RequestsOK == \A t \in Threads : RequestOK(request[t])

IInv == TypeOK /\ TokensAtHome /\ BranchOfOwnOrg /\ AdminStays /\ RequestsOK

\* What a step leaves of the accounts that exist, and of the branches.
Kept ==
  \A u \in Emails : users[u].role # "NONE" =>
    /\ users'[u].role = users[u].role
    /\ users'[u].org = users[u].org
    /\ users'[u].branch = users[u].branch

Grown ==
  \A b \in 1..Len(branches) : b \in 1..Len(branches') /\ branches'[b] = branches[b]

-----------------------------------------------------------------------------
(* Requests *)

LEMMA CreateTyped ==
  ASSUME NEW r \in Request, r.op = "create_user"
  PROVE  r.auth \in Auth /\ r.email \in Emails /\ r.row \in User
BY DEF Request

LEMMA ToggleTyped ==
  ASSUME NEW r \in Request, r.op = "toggle"
  PROVE  r.auth \in Auth /\ r.user \in Emails /\ r.is_active \in BOOLEAN
BY DEF Request

LEMMA BranchTyped ==
  ASSUME NEW r \in Request, r.op = "create_branch"
  PROVE  r.auth \in Auth /\ r.row \in Branch
BY DEF Request

LEMMA CallerTyped ==
  ASSUME NEW r \in Request, r.op # "idle"
  PROVE  r.auth \in Auth
BY DEF Request

LEMMA IdleOK == Idle \in Request /\ RequestOK(Idle) /\ Idle.op = "idle"
BY DEF Idle, Request, RequestOK, CallerOK, ToggleOK, CreateOK

\* What a request knows survives every step.
LEMMA StillOK ==
  ASSUME TypeOK, Kept, Grown, AdminStays,
         NEW r \in Request, RequestOK(r)
  PROVE  /\ CallerOK(r, users') /\ ToggleOK(r, users') /\ CreateOK(r, branches')
<1>1. CallerOK(r, users')
  <2>1. CASE r.op = "idle" BY <2>1 DEF CallerOK
  <2>2. CASE r.op # "idle"
    <3>1. r.auth.user \in Emails BY <2>2, CallerTyped DEF Auth
    <3> QED BY <2>2, <3>1 DEF CallerOK, RequestOK, Kept
  <2> QED BY <2>1, <2>2
<1>2. ToggleOK(r, users')
  <2>1. CASE r.op # "toggle" BY <2>1 DEF ToggleOK
  <2>2. CASE r.op = "toggle"
    <3>1. r.user \in Emails BY <2>2, ToggleTyped
    <3> QED BY <2>2, <3>1 DEF ToggleOK, RequestOK, Kept
  <2> QED BY <2>1, <2>2
<1>3. CreateOK(r, branches')
  BY DEF CreateOK, Fits, RequestOK, Grown
<1> QED BY <1>1, <1>2, <1>3

-----------------------------------------------------------------------------
(* What each kind of step changes *)

\* Steps that only hand out or forget tokens.
LEMMA TokenSteps ==
  ASSUME IInv, NEW token \in tokens
  PROVE  /\ token.sub \in Emails /\ token.org \in Orgs
         /\ users[token.sub].role \in Role
         /\ get_current_user(token) \in Auth
         /\ get_current_user(token).role = users[token.sub].role
BY DEF IInv, TypeOK, Token, get_current_user, Auth, User

LEMMA LoginInv ==
  ASSUME IInv, NEW u \in Emails, login(u)
  PROVE  IInv'
<1> DEFINE new == create_access_token(u, users[u].org)
<1>1. users[u] \in User /\ users[u].role # "NONE"
  BY DEF IInv, TypeOK, login, Exists
<1>2. /\ new \in Token /\ new.role = users[u].role /\ new.sub = u
      /\ new.org = users[u].org
  BY <1>1 DEF create_access_token, Token, Role, User
<1>3. tokens' = tokens \cup {new}
  BY DEF login
<1> HIDE DEF new
<1>4. users' = users /\ branches' = branches /\ request' = request
  BY DEF login
<1>5. TypeOK' BY <1>2, <1>3, <1>4 DEF IInv, TypeOK, Exists
<1>6. TokensAtHome' BY <1>2, <1>3, <1>4 DEF IInv, TokensAtHome
<1>7. BranchOfOwnOrg' BY <1>4 DEF IInv, BranchOfOwnOrg, Exists, Branches
<1>8. AdminStays' BY <1>4 DEF IInv, AdminStays
<1>9. RequestsOK' BY <1>4 DEF IInv, RequestsOK, RequestOK
<1> QED BY <1>5, <1>6, <1>7, <1>8, <1>9 DEF IInv

LEMMA LogoutInv ==
  ASSUME IInv, NEW token \in tokens, logout(token)
  PROVE  IInv'
<1>1. tokens' \subseteq tokens
  BY DEF logout
<1>2. users' = users /\ branches' = branches /\ request' = request
  BY DEF logout
<1>3. TypeOK' BY <1>1, <1>2 DEF IInv, TypeOK, Exists
<1>4. TokensAtHome' BY <1>1, <1>2 DEF IInv, TokensAtHome
<1>5. BranchOfOwnOrg' BY <1>2 DEF IInv, BranchOfOwnOrg, Exists, Branches
<1>6. AdminStays' BY <1>2 DEF IInv, AdminStays
<1>7. RequestsOK' BY <1>2 DEF IInv, RequestsOK, RequestOK
<1> QED BY <1>3, <1>4, <1>5, <1>6, <1>7 DEF IInv

\* Only an administrator gets a token for an organization of choice.
LEMMA SwitchInv ==
  ASSUME IInv, NEW token \in tokens, NEW org \in Orgs, switch_org(token, org)
  PROVE  IInv'
<1> DEFINE new == create_access_token(token.sub, org)
<1>1. /\ token.sub \in Emails /\ users[token.sub].role = "ADMIN"
  BY TokenSteps DEF switch_org, is_admin
<1>2. new \in Token /\ new.role = "ADMIN" /\ new.sub = token.sub
  BY <1>1 DEF create_access_token, Token, Role
<1>3. tokens' = tokens \cup {new}
  BY DEF switch_org
<1> HIDE DEF new
<1>4. users' = users /\ branches' = branches /\ request' = request
  BY DEF switch_org
<1>5. TypeOK' BY <1>1, <1>2, <1>3, <1>4 DEF IInv, TypeOK, Exists
<1>6. TokensAtHome' BY <1>1, <1>2, <1>3, <1>4 DEF IInv, TokensAtHome
<1>7. BranchOfOwnOrg' BY <1>4 DEF IInv, BranchOfOwnOrg, Exists, Branches
<1>8. AdminStays' BY <1>4 DEF IInv, AdminStays
<1>9. RequestsOK' BY <1>4 DEF IInv, RequestsOK, RequestOK
<1> QED BY <1>5, <1>6, <1>7, <1>8, <1>9 DEF IInv

-----------------------------------------------------------------------------
\* Steps of a request: it becomes something admissible, and the tables only
\* change in what is not yet there and in is_active.
LEMMA RequestInv ==
  ASSUME IInv, NEW t \in Threads, NEW r \in Request,
         request' = [request EXCEPT ![t] = r], RequestOK(r),
         tokens' = tokens, Kept, Grown,
         users' \in [Emails -> User], branches' \in Seq(Branch),
         BranchOfOwnOrg', AdminStays'
  PROVE  IInv'
<1>1. \A s \in Threads : request'[s] \in Request /\ RequestOK(request'[s])
  BY DEF IInv, TypeOK, RequestsOK
<1>2. \A s \in Threads :
        /\ CallerOK(request'[s], users') /\ ToggleOK(request'[s], users')
        /\ CreateOK(request'[s], branches')
  BY <1>1, StillOK DEF IInv
<1>3. RequestsOK'
  BY <1>2 DEF RequestsOK, RequestOK
<1>4. request' \in [Threads -> Request]
  BY <1>1 DEF IInv, TypeOK
<1>5. \A token \in tokens' : /\ users'[token.sub].role = users[token.sub].role
                             /\ users'[token.sub].org = users[token.sub].org
  <2> SUFFICES ASSUME NEW token \in tokens
               PROVE  /\ users'[token.sub].role = users[token.sub].role
                      /\ users'[token.sub].org = users[token.sub].org
    OBVIOUS
  <2>1. token.sub \in Emails /\ users[token.sub].role # "NONE"
    BY TokenSteps DEF Role, CREATABLE_ROLES
  <2> QED BY <2>1 DEF Kept
<1>6. TokensAtHome'
  BY <1>5 DEF IInv, TokensAtHome
<1>7. TypeOK'
  <2>1. \A token \in tokens' : token.role = users'[token.sub].role
    BY <1>5 DEF IInv, TypeOK
  <2>2. \A s \in Threads :
          /\ request'[s].op = "toggle" => users'[request'[s].user].role # "NONE"
          /\ request'[s].op # "idle" =>
               /\ users'[request'[s].auth.user].role = "ADMIN"
               /\ request'[s].auth.role = "ADMIN"
    BY <1>2 DEF CallerOK, ToggleOK
  <2>3. tokens' \subseteq Token
    BY DEF IInv, TypeOK
  <2> QED BY <1>4, <2>1, <2>2, <2>3 DEF TypeOK, Exists, is_admin
<1> QED BY <1>3, <1>6, <1>7 DEF IInv

\* The tables stay as they are when a request begins.
LEMMA BeginInv ==
  ASSUME IInv, NEW t \in Threads, NEW r \in Request,
         request' = [request EXCEPT ![t] = r], RequestOK(r),
         UNCHANGED <<users, branches, tokens>>
  PROVE  IInv'
<1>1. Kept /\ Grown
  BY DEF Kept, Grown
<1>2. BranchOfOwnOrg' /\ AdminStays'
  BY DEF IInv, BranchOfOwnOrg, AdminStays, Exists, Branches
<1>3. users' \in [Emails -> User] /\ branches' \in Seq(Branch)
  BY DEF IInv, TypeOK
<1> QED BY <1>1, <1>2, <1>3, RequestInv

LEMMA CreateUserInv ==
  ASSUME IInv, NEW t \in Threads, NEW token \in tokens, NEW email \in Emails,
         NEW role \in Created, create_user(t, token, email, role)
  PROVE  IInv'
<1> DEFINE auth == get_current_user(token)
<1>1. auth \in Auth /\ auth.role = "ADMIN" /\ users[auth.user].role = "ADMIN"
  BY TokenSteps DEF create_user, is_admin, get_current_user
<1>2. PICK b \in BranchesOf(auth.org) :
        Become(t, [op |-> "create_user", auth |-> auth, email |-> email,
                   row |-> [org |-> auth.org, role |-> role, branch |-> b,
                            is_active |-> TRUE]])
  BY DEF create_user
<1>3. auth.org \in Orgs
  BY <1>1 DEF Auth
<1> HIDE DEF auth
<1> DEFINE row == [org |-> auth.org, role |-> role, branch |-> b, is_active |-> TRUE]
           r == [op |-> "create_user", auth |-> auth, email |-> email, row |-> row]
<1>4. b \in Nat /\ (b # 0 => b \in 1..Len(branches) /\ branches[b].org = auth.org)
  BY DEF BranchesOf, Branches, IInv, TypeOK
<1>5. row \in User /\ row.role \in CREATABLE_ROLES /\ Fits(row, branches)
  BY <1>3, <1>4, CreatedAssumption DEF User, Fits
<1> HIDE DEF row
<1>6. r \in Request
  BY <1>1, <1>5 DEF Request
<1>7. RequestOK(r)
  BY <1>1, <1>5 DEF RequestOK, CallerOK, ToggleOK, CreateOK
<1>8. request' = [request EXCEPT ![t] = r]
  BY <1>2 DEF Become, row
<1> HIDE DEF r
<1>9. UNCHANGED <<users, branches, tokens>>
  BY DEF create_user
<1> QED BY <1>6, <1>7, <1>8, <1>9, BeginInv

LEMMA ToggleInv ==
  ASSUME IInv, NEW t \in Threads, NEW token \in tokens, NEW u \in Emails,
         toggle_user_status(t, token, u)
  PROVE  IInv'
<1> DEFINE auth == get_current_user(token)
           r == [op |-> "toggle", auth |-> auth, user |-> u,
                 is_active |-> ~ users[u].is_active]
<1>1. auth \in Auth /\ auth.role = "ADMIN" /\ users[auth.user].role = "ADMIN"
  BY TokenSteps DEF toggle_user_status, is_admin, get_current_user
<1>2. /\ request' = [request EXCEPT ![t] = r]
      /\ UNCHANGED <<users, branches, tokens>>
      /\ users[u].role # "NONE" /\ u # auth.user /\ users[u].org = auth.org
  BY DEF toggle_user_status, Become, Exists, Togglable
<1> HIDE DEF auth
<1>3. r \in Request
  BY <1>1 DEF Request
<1>4. RequestOK(r)
  BY <1>1, <1>2 DEF RequestOK, CallerOK, ToggleOK, CreateOK
<1> HIDE DEF r
<1> QED BY <1>2, <1>3, <1>4, BeginInv

LEMMA CreateBranchInv ==
  ASSUME IInv, NEW t \in Threads, NEW token \in tokens, NEW name \in Names,
         NEW hq \in BOOLEAN, create_branch(t, token, name, hq)
  PROVE  IInv'
<1> DEFINE auth == get_current_user(token)
           row == [org |-> auth.org, name |-> name, is_head_office |-> hq]
           r == [op |-> "create_branch", auth |-> auth, row |-> row]
<1>1. auth \in Auth /\ auth.role = "ADMIN" /\ users[auth.user].role = "ADMIN"
  BY TokenSteps DEF create_branch, is_admin, get_current_user
<1>2. /\ request' = [request EXCEPT ![t] = r]
      /\ UNCHANGED <<users, branches, tokens>>
  BY DEF create_branch, Become
<1> HIDE DEF auth
<1>3. row \in Branch
  BY <1>1 DEF Branch, Auth
<1> HIDE DEF row
<1>4. r \in Request
  BY <1>1, <1>3 DEF Request
<1>5. RequestOK(r)
  BY <1>1 DEF RequestOK, CallerOK, ToggleOK, CreateOK
<1> HIDE DEF r
<1> QED BY <1>2, <1>4, <1>5, BeginInv

-----------------------------------------------------------------------------
(* The commits *)

\* A new account is never an administrator's, and takes nobody's place.
LEMMA CreateCommitInv ==
  ASSUME IInv, NEW t \in Threads, create_user_commit(t)
  PROVE  IInv'
<1> DEFINE r == request[t]
<1>1. r \in Request /\ RequestOK(r) /\ r.op = "create_user"
  BY DEF IInv, TypeOK, RequestsOK, create_user_commit
<1>2. /\ users' = IF users[r.email].role # "NONE" THEN users
                  ELSE [users EXCEPT ![r.email] = r.row]
      /\ request' = [request EXCEPT ![t] = Idle]
      /\ branches' = branches /\ tokens' = tokens
  BY DEF create_user_commit, Become, Exists
<1> HIDE DEF r
<1>3. r.email \in Emails /\ r.row \in User
  BY <1>1, CreateTyped
<1>4. r.row.role \in CREATABLE_ROLES /\ Fits(r.row, branches)
  BY <1>1 DEF RequestOK, CreateOK
<1>5. users' \in [Emails -> User] /\ branches' \in Seq(Branch)
  BY <1>2, <1>3 DEF IInv, TypeOK
<1>6. \A u \in Emails : \/ users'[u] = users[u]
                       \/ (u = r.email /\ users[u].role = "NONE" /\ users'[u] = r.row)
  BY <1>2, <1>3 DEF IInv, TypeOK
<1>7. Kept /\ Grown
  BY <1>2, <1>6 DEF Kept, Grown
<1>8. AdminStays'
  BY <1>4, <1>6, SeedAssumption DEF IInv, AdminStays, CREATABLE_ROLES
<1>9. BranchOfOwnOrg'
  BY <1>2, <1>4, <1>6 DEF IInv, BranchOfOwnOrg, Fits, Exists, Branches
<1> QED BY <1>2, <1>5, <1>7, <1>8, <1>9, IdleOK, RequestInv

LEMMA SetActiveTyped ==
  ASSUME NEW row \in User, NEW b \in BOOLEAN
  PROVE  /\ SetActive(row, b) \in User
         /\ SetActive(row, b).org = row.org
         /\ SetActive(row, b).role = row.role
         /\ SetActive(row, b).branch = row.branch
BY DEF User, SetActive

\* The one administrator is the caller, whom the request spares.
LEMMA ToggleCommitInv ==
  ASSUME IInv, NEW t \in Threads, toggle_commit(t)
  PROVE  IInv'
<1> DEFINE r == request[t]
<1>1. r \in Request /\ RequestOK(r) /\ r.op = "toggle"
  BY DEF IInv, TypeOK, RequestsOK, toggle_commit
<1>2. /\ users' = [users EXCEPT ![r.user] = SetActive(users[r.user], r.is_active)]
      /\ request' = [request EXCEPT ![t] = Idle]
      /\ branches' = branches /\ tokens' = tokens
  BY DEF toggle_commit, Become
<1> HIDE DEF r
<1>3. r.user \in Emails /\ r.auth.user \in Emails /\ r.is_active \in BOOLEAN
  BY <1>1, ToggleTyped DEF Auth
<1>4. r.user # r.auth.user /\ users[r.auth.user].role = "ADMIN"
  BY <1>1 DEF RequestOK, ToggleOK, CallerOK
<1>5. r.user # Admin
  BY <1>3, <1>4 DEF IInv, AdminStays
<1> DEFINE new == SetActive(users[r.user], r.is_active)
<1>6. /\ new \in User
      /\ new.org = users[r.user].org /\ new.role = users[r.user].role
      /\ new.branch = users[r.user].branch
  BY <1>3, SetActiveTyped DEF IInv, TypeOK
<1> HIDE DEF new
<1>7. users' = [users EXCEPT ![r.user] = new]
  BY <1>2 DEF new
<1>8. users' \in [Emails -> User] /\ branches' \in Seq(Branch)
  BY <1>2, <1>3, <1>6, <1>7 DEF IInv, TypeOK
<1>9. \A u \in Emails : users'[u] = users[u] \/ (u = r.user /\ users'[u] = new)
  BY <1>3, <1>7 DEF IInv, TypeOK
<1>10. \A u \in Emails : /\ users'[u].role = users[u].role
                         /\ users'[u].org = users[u].org
                         /\ users'[u].branch = users[u].branch
  BY <1>6, <1>9
<1>11. Kept /\ Grown
  BY <1>2, <1>10 DEF Kept, Grown
<1>12. AdminStays'
  BY <1>5, <1>9, <1>10, SeedAssumption DEF IInv, AdminStays
<1>13. BranchOfOwnOrg'
  BY <1>2, <1>10 DEF IInv, BranchOfOwnOrg, Exists, Branches
<1> QED BY <1>2, <1>8, <1>11, <1>12, <1>13, IdleOK, RequestInv

LEMMA BranchCommitInv ==
  ASSUME IInv, NEW t \in Threads, create_branch_commit(t)
  PROVE  IInv'
<1> DEFINE row == request[t].row
<1>1. row \in Branch
  BY BranchTyped DEF IInv, TypeOK, create_branch_commit
<1>2. /\ branches' = Append(branches, row)
      /\ request' = [request EXCEPT ![t] = Idle]
      /\ users' = users /\ tokens' = tokens
  BY DEF create_branch_commit, Become
<1> HIDE DEF row
<1>3. users \in [Emails -> User] /\ branches \in Seq(Branch)
  BY DEF IInv, TypeOK
<1> HIDE DEF Branch
<1>4. branches' \in Seq(Branch)
  BY <1>1, <1>2, <1>3
<1>5. Grown
  BY <1>1, <1>2, <1>3 DEF Grown
<1>6. Kept
  BY <1>2 DEF Kept
<1>7. AdminStays'
  BY <1>2 DEF IInv, AdminStays
<1>8. BranchOfOwnOrg'
  BY <1>2, <1>5 DEF IInv, BranchOfOwnOrg, Exists, Branches, Grown
<1> QED BY <1>2, <1>3, <1>4, <1>5, <1>6, <1>7, <1>8, IdleOK, RequestInv

-----------------------------------------------------------------------------
LEMMA InitInv == Init => IInv
<1> SUFFICES ASSUME Init PROVE IInv OBVIOUS
<1> USE SeedAssumption DEF Init, CREATABLE_ROLES
<1>1. \A u \in Emails : users[u] \in User
                        /\ (u # Admin => users[u].role = "NONE")
  BY DEF NoUser, User
<1>2. /\ users[Admin].role = "ADMIN" /\ users[Admin].is_active = TRUE
      /\ users[Admin].branch = 1 /\ users[Admin].org = FirstOrg
  OBVIOUS
<1>3. /\ branches \in Seq(Branch) /\ Len(branches) = 1
      /\ branches[1].org = FirstOrg
  BY DEF Branch
<1>4. \A t \in Threads : request[t] = Idle
  OBVIOUS
<1>5. TypeOK
  <2>1. users \in [Emails -> User] BY <1>1
  <2>2. request \in [Threads -> Request] BY IdleOK
  <2> QED BY <1>3, <1>4, <2>1, <2>2, IdleOK DEF TypeOK
<1>6. TokensAtHome BY DEF TokensAtHome
<1>7. BranchOfOwnOrg BY <1>1, <1>2, <1>3 DEF BranchOfOwnOrg, Exists, Branches
<1>8. AdminStays BY <1>1, <1>2 DEF AdminStays
<1>9. RequestsOK BY <1>4, IdleOK DEF RequestsOK
<1> QED BY <1>5, <1>6, <1>7, <1>8, <1>9 DEF IInv

LEMMA StepInv == IInv /\ [Next]_vars => IInv'
<1> SUFFICES ASSUME IInv, [Next]_vars PROVE IInv' OBVIOUS
<1>1. CASE UNCHANGED vars
  BY <1>1 DEF vars, IInv, TypeOK, TokensAtHome, BranchOfOwnOrg, AdminStays,
              RequestsOK, RequestOK, Exists, Branches
<1>2. CASE \E u \in Emails : login(u)
  BY <1>2, LoginInv
<1>3. CASE \E token \in tokens : logout(token) \/ \E org \in Orgs : switch_org(token, org)
  BY <1>3, LogoutInv, SwitchInv
<1>4. CASE \E t \in Threads : create_user_commit(t)
  BY <1>4, CreateCommitInv
<1>5. CASE \E t \in Threads : toggle_commit(t)
  BY <1>5, ToggleCommitInv
<1>6. CASE \E t \in Threads : create_branch_commit(t)
  BY <1>6, BranchCommitInv
<1>7. CASE \E t \in Threads : \E token \in tokens : \E u \in Emails :
             \E role \in Created : create_user(t, token, u, role)
  BY <1>7, CreateUserInv
<1>8. CASE \E t \in Threads : \E token \in tokens :
             \E u \in Emails : toggle_user_status(t, token, u)
  BY <1>8, ToggleInv
<1>9. CASE \E t \in Threads : \E token \in tokens : \E name \in Names :
             \E hq \in BOOLEAN : create_branch(t, token, name, hq)
  BY <1>9, CreateBranchInv
<1> QED BY <1>1, <1>2, <1>3, <1>4, <1>5, <1>6, <1>7, <1>8, <1>9 DEF Next

LEMMA Always == Spec => []IInv
BY InitInv, StepInv, PTL DEF Spec

\* Requests under way are administrators', and accounts, branches, tokens and
\* requests have their types (TypeOK).
THEOREM Typed == Spec => []TypeOK
<1>1. IInv => TypeOK BY DEF IInv
<1> QED BY <1>1, Always, PTL

\* Nobody but an administrator holds a token of another organization, whatever
\* tokens are kept, and an account's branch is one of its own organization, also
\* when create_user looked it up before another request committed (KeptApart).
THEOREM OrganizationsApart == Spec => []KeptApart
<1>1. IInv => KeptApart BY DEF IInv, KeptApart
<1> QED BY <1>1, Always, PTL

\* The seeded administrator stays the only one and stays active, whatever
\* requests overlap (AdminStays).
THEOREM AdminForever == Spec => []AdminStays
<1>1. IInv => AdminStays BY DEF IInv
<1> QED BY <1>1, Always, PTL

\* Only somebody else, acting in the account's organization, switches it on or
\* off, also when the request was overtaken by others (ToggledFromOwnOrg).
THEOREM ToggledFromInside == Spec => ToggledFromOwnOrg
<1> DEFINE Other(u) ==
      \E t \in Threads :
         /\ request[t].op = "toggle" /\ request[t].user = u
         /\ request[t].auth.org = users[u].org /\ request[t].auth.user # u
<1>1. IInv /\ [Next]_vars =>
        [\A u \in Emails :
           Exists(u) /\ users'[u].is_active # users[u].is_active => Other(u)]_vars
  <2> SUFFICES ASSUME IInv, Next, NEW u \in Emails,
                      Exists(u), users'[u].is_active # users[u].is_active
               PROVE  Other(u)
    BY DEF vars
  <2>1. CASE \E t \in Threads : toggle_commit(t)
    <3>1. PICK t \in Threads : toggle_commit(t) BY <2>1
    <3>2. request[t].op = "toggle" /\ RequestOK(request[t])
      BY <3>1 DEF toggle_commit, IInv, RequestsOK
    <3>3. request[t].user = u
      <4>1. users' = [users EXCEPT ![request[t].user] =
                        SetActive(users[request[t].user], request[t].is_active)]
        BY <3>1 DEF toggle_commit
      <4> QED BY <4>1 DEF IInv, TypeOK
    <3> QED BY <3>2, <3>3 DEF RequestOK, ToggleOK
  <2>2. CASE \E t \in Threads : create_user_commit(t)
    <3>1. PICK t \in Threads : create_user_commit(t) BY <2>2
    <3>2. users' = IF Exists(request[t].email) THEN users
                   ELSE [users EXCEPT ![request[t].email] = request[t].row]
      BY <3>1 DEF create_user_commit
    <3> QED BY <3>2 DEF IInv, TypeOK, Exists
  <2>3. CASE users' = users
    BY <2>3
  <2>4. \/ users' = users \/ \E t \in Threads : toggle_commit(t)
        \/ \E t \in Threads : create_user_commit(t)
    BY DEF Next, login, logout, switch_org, create_branch_commit, create_user,
           toggle_user_status, create_branch
  <2> QED BY <2>1, <2>2, <2>3, <2>4
<1> QED BY <1>1, Always, PTL DEF Spec, ToggledFromOwnOrg

-----------------------------------------------------------------------------
(* Overlapping creations of a branch *)

\* The rows of which create_branch wants no second one: the head offices of an
\* organization, and its branches of one name.
Offices(org) == {row \in Branch : row.org = org /\ row.is_head_office}
OfName(org, name) == {row \in Branch : row.org = org /\ row.name = name}
Unique == {Offices(org) : org \in Orgs} \cup {OfName(org, name) : org \in Orgs, name \in Names}

\* The rows of a kind that are committed, and the requests about to add one.
Stored(kind) == {b \in Branches : branches[b] \in kind}
Waiting(kind) == {t \in Threads : request[t].op = "create_branch" /\ request[t].row \in kind}

\* A request only joins those waiting while no row is stored, so a thread
\* accounts for one row of a kind: waiting, or as the one who stored it.
Bounded(kind) ==
  /\ IsFiniteSet(Stored(kind))
  /\ Cardinality(Stored(kind)) + Cardinality(Waiting(kind)) <= Cardinality(Threads)

CountInv ==
  /\ \A kind \in Unique : Bounded(kind)
  /\ Stored(Offices(FirstOrg)) = {1} /\ Waiting(Offices(FirstOrg)) = {}

LEMMA WaitingFinite ==
  ASSUME NEW kind
  PROVE  /\ IsFiniteSet(Waiting(kind)) /\ Cardinality(Waiting(kind)) \in Nat
         /\ Cardinality(Waiting(kind)) <= Cardinality(Threads)
         /\ Cardinality(Threads) \in Nat
<1>1. Waiting(kind) \in SUBSET Threads
  BY DEF Waiting
<1> QED BY <1>1, ThreadsAssumption, FS_Subset, FS_CardinalityType

\* A thread that is not about to create a branch, before and after a step.
LEMMA OtherRequest ==
  ASSUME IInv, branches' = branches, NEW t \in Threads, NEW r,
         request' = [request EXCEPT ![t] = r], r.op # "create_branch", NEW kind
  PROVE  Stored(kind)' = Stored(kind) /\ Waiting(kind)' \subseteq Waiting(kind)
<1>1. Stored(kind)' = Stored(kind)
  BY DEF Stored, Branches
<1>2. ASSUME NEW s \in Waiting(kind)' PROVE s \in Waiting(kind)
  BY DEF Waiting, IInv, TypeOK
<1> QED BY <1>1, <1>2

\* A step that leaves the branches, and adds nobody to those waiting.
LEMMA FewerWaiting ==
  ASSUME CountInv,
         \A kind \in Unique :
            Stored(kind)' = Stored(kind) /\ Waiting(kind)' \subseteq Waiting(kind)
  PROVE  CountInv'
<1>1. ASSUME NEW kind \in Unique PROVE Bounded(kind)'
  <2>1. Waiting(kind)' \in SUBSET Waiting(kind) /\ Stored(kind)' = Stored(kind)
    OBVIOUS
  <2>2. /\ Cardinality(Waiting(kind)') <= Cardinality(Waiting(kind))
        /\ Cardinality(Waiting(kind)') \in Nat /\ Cardinality(Waiting(kind)) \in Nat
    BY <2>1, WaitingFinite, FS_Subset, FS_CardinalityType
  <2>3. /\ IsFiniteSet(Stored(kind)) /\ Cardinality(Stored(kind)) \in Nat
        /\ Cardinality(Stored(kind)) + Cardinality(Waiting(kind)) <= Cardinality(Threads)
    BY FS_CardinalityType DEF CountInv, Bounded
  <2> QED BY <2>1, <2>2, <2>3, WaitingFinite DEF Bounded
<1>2. Offices(FirstOrg) \in Unique
  BY SeedAssumption DEF Unique
<1> QED BY <1>1, <1>2 DEF CountInv, Unique, Offices, OfName

\* create_branch: a request joins those waiting for a kind only where none is
\* stored.
LEMMA BeginCount ==
  ASSUME IInv, CountInv, NEW t \in Threads, NEW token \in tokens, NEW name \in Names,
         NEW hq \in BOOLEAN, create_branch(t, token, name, hq)
  PROVE  CountInv'
<1> DEFINE org == get_current_user(token).org
           row == [org |-> org, name |-> name, is_head_office |-> hq]
<1>1. /\ request' = [request EXCEPT ![t] = [op |-> "create_branch",
                                           auth |-> get_current_user(token), row |-> row]]
      /\ branches' = branches /\ request[t] = Idle
      /\ Creatable(org, name, hq)
  BY DEF create_branch, Become
<1>2. org \in Orgs
  BY TokenSteps DEF Auth
<1>3. request'[t].row = row
  BY <1>1 DEF IInv, TypeOK
<1> HIDE DEF org, row
<1>4. ASSUME NEW kind PROVE Stored(kind)' = Stored(kind)
  BY <1>1 DEF Stored, Branches
<1>5. ASSUME NEW kind, row \notin kind PROVE Waiting(kind)' \subseteq Waiting(kind)
  BY <1>1, <1>3, <1>5 DEF Waiting, IInv, TypeOK
<1>6. row.org = org /\ row.name = name /\ row.is_head_office = hq
  BY DEF row
<1>7. ASSUME NEW kind \in Unique, row \in kind PROVE Stored(kind) = {}
  <2>1. CASE kind \in {Offices(o) : o \in Orgs}
    <3>1. PICK o \in Orgs : kind = Offices(o)
      BY <2>1
    <3>2. o = org /\ hq
      BY <1>6, <1>7, <3>1 DEF Offices
    <3>3. HeadOffices(org) = {}
      BY <1>1, <3>2 DEF Creatable
    <3> QED BY <3>1, <3>2, <3>3 DEF Stored, Offices, HeadOffices
  <2>2. CASE kind \in {OfName(o, m) : o \in Orgs, m \in Names}
    <3>1. PICK o \in Orgs, m \in Names : kind = OfName(o, m)
      BY <2>2
    <3>2. o = org /\ m = name
      BY <1>6, <1>7, <3>1 DEF OfName
    <3>3. Named(org, name) = {}
      BY <1>1 DEF Creatable
    <3> QED BY <3>1, <3>2, <3>3 DEF Stored, OfName, Named
  <2> QED BY <1>7, <2>1, <2>2 DEF Unique
<1>8. ASSUME NEW kind \in Unique PROVE Bounded(kind)'
  <2>1. CASE row \in kind
    <3>1. Stored(kind)' = {} /\ IsFiniteSet({}) /\ Cardinality({}) = 0
      BY <1>4, <1>7, <2>1, FS_EmptySet
    <3>2. Waiting(kind)' \in SUBSET Threads
      BY DEF Waiting
    <3>3. /\ Cardinality(Waiting(kind)') <= Cardinality(Threads)
          /\ Cardinality(Waiting(kind)') \in Nat
      BY <3>2, ThreadsAssumption, FS_Subset, FS_CardinalityType
    <3> QED BY <3>1, <3>3 DEF Bounded
  <2>2. CASE row \notin kind
    <3>1. Waiting(kind)' \in SUBSET Waiting(kind) /\ Stored(kind)' = Stored(kind)
      BY <1>4, <1>5, <2>2
    <3>2. /\ Cardinality(Waiting(kind)') <= Cardinality(Waiting(kind))
          /\ Cardinality(Waiting(kind)') \in Nat /\ Cardinality(Waiting(kind)) \in Nat
      BY <3>1, WaitingFinite, FS_Subset, FS_CardinalityType
    <3>3. /\ IsFiniteSet(Stored(kind)) /\ Cardinality(Stored(kind)) \in Nat
          /\ Cardinality(Stored(kind)) + Cardinality(Waiting(kind)) <= Cardinality(Threads)
      BY FS_CardinalityType DEF CountInv, Bounded
    <3> QED BY <3>1, <3>2, <3>3, WaitingFinite DEF Bounded
  <2> QED BY <2>1, <2>2
<1>9. Waiting(Offices(FirstOrg))' = {} /\ Stored(Offices(FirstOrg))' = {1}
  <2>1. Offices(FirstOrg) \in Unique
    BY SeedAssumption DEF Unique
  <2>2. row \notin Offices(FirstOrg)
    BY <1>7, <2>1 DEF CountInv
  <2> QED BY <1>4, <1>5, <2>2 DEF CountInv
<1> QED BY <1>8, <1>9 DEF CountInv, Unique, Offices, OfName

\* create_branch commits: a row takes the place of the request that waited.
LEMMA CommitCount ==
  ASSUME IInv, CountInv, NEW t \in Threads, create_branch_commit(t)
  PROVE  CountInv'
<1> DEFINE row == request[t].row
           new == Len(branches) + 1
<1>1. /\ request[t].op = "create_branch" /\ row \in Branch
      /\ branches' = Append(branches, row) /\ request' = [request EXCEPT ![t] = Idle]
  BY BranchTyped DEF IInv, TypeOK, create_branch_commit, Become
<1>2. /\ Len(branches) \in Nat /\ Len(branches') = new
      /\ branches'[new] = row /\ new \notin Branches
      /\ \A b \in Branches : branches'[b] = branches[b]
  <2>1. branches \in Seq(Branch)
    BY DEF IInv, TypeOK
  <2> HIDE DEF Branch, row
  <2> QED BY <1>1, <2>1 DEF Branches
<1>3. \A b : b \in Branches' <=> b \in Branches \/ b = new
  BY <1>2 DEF Branches
<1>4. \A s \in Threads : request'[s] = IF s = t THEN Idle ELSE request[s]
  BY <1>1 DEF IInv, TypeOK
<1> HIDE DEF new
<1>5. ASSUME NEW kind
      PROVE  /\ Stored(kind)' = IF row \in kind THEN Stored(kind) \cup {new} ELSE Stored(kind)
             /\ Waiting(kind)' = Waiting(kind) \ {t}
             /\ row \in kind <=> t \in Waiting(kind)
  <2>1. Waiting(kind)' = Waiting(kind) \ {t}
    BY <1>4, IdleOK DEF Waiting
  <2>2. row \in kind <=> t \in Waiting(kind)
    BY <1>1 DEF Waiting
  <2>3. \A b : b \in Stored(kind)' <=> b \in Stored(kind) \/ (b = new /\ row \in kind)
    BY <1>2, <1>3 DEF Stored
  <2>4. Stored(kind)' = IF row \in kind THEN Stored(kind) \cup {new} ELSE Stored(kind)
    <3>1. CASE row \in kind
      BY <2>3, <3>1
    <3>2. CASE row \notin kind
      BY <2>3, <3>2
    <3> QED BY <3>1, <3>2
  <2> QED BY <2>1, <2>2, <2>4
<1> HIDE DEF row
<1>6. ASSUME NEW kind \in Unique PROVE Bounded(kind)'
  <2>1. /\ IsFiniteSet(Stored(kind)) /\ Cardinality(Stored(kind)) \in Nat
        /\ Cardinality(Stored(kind)) + Cardinality(Waiting(kind)) <= Cardinality(Threads)
    BY FS_CardinalityType DEF CountInv, Bounded
  <2>2. CASE row \in kind
    <3>1. /\ Stored(kind)' = Stored(kind) \cup {new} /\ Waiting(kind)' = Waiting(kind) \ {t}
          /\ t \in Waiting(kind) /\ new \notin Stored(kind)
      BY <1>2, <1>5, <2>2 DEF Stored
    <3>2. /\ IsFiniteSet(Stored(kind)')
          /\ Cardinality(Stored(kind)') = Cardinality(Stored(kind)) + 1
      BY <2>1, <3>1, FS_AddElement
    <3>3. Cardinality(Waiting(kind)') = Cardinality(Waiting(kind)) - 1
      BY <3>1, WaitingFinite, FS_RemoveElement
    <3> QED BY <2>1, <3>2, <3>3, WaitingFinite DEF Bounded
  <2>3. CASE row \notin kind
    BY <1>5, <2>1, <2>3 DEF Bounded
  <2> QED BY <2>2, <2>3
<1>7. Stored(Offices(FirstOrg))' = {1} /\ Waiting(Offices(FirstOrg))' = {}
  BY <1>5 DEF CountInv
<1> QED BY <1>6, <1>7 DEF CountInv, Unique, Offices, OfName

LEMMA InitCount == Init => CountInv
<1> SUFFICES ASSUME Init PROVE CountInv OBVIOUS
<1> DEFINE seeded == [org |-> FirstOrg, name |-> SeedName, is_head_office |-> TRUE]
<1>1. /\ Branches = {1} /\ branches[1] = seeded /\ seeded \in Branch
      /\ seeded.org = FirstOrg /\ seeded.is_head_office
  BY SeedAssumption DEF Init, Branches, Branch
<1> HIDE DEF seeded
<1>2. ASSUME NEW kind
      PROVE  Stored(kind) \subseteq {1} /\ Waiting(kind) = {}
  BY <1>1, IdleOK DEF Init, Stored, Waiting
<1>3. Cardinality(Threads) \in Nat /\ Cardinality(Threads) >= 1
  BY ThreadsAssumption, FS_CardinalityType, FS_EmptySet
<1>4. \A kind \in Unique : Bounded(kind)
  <2> SUFFICES ASSUME NEW kind \in Unique PROVE Bounded(kind) OBVIOUS
  <2>1. Stored(kind) \in SUBSET {1} /\ IsFiniteSet({1}) /\ Cardinality({1}) = 1
    BY <1>2, FS_Singleton
  <2>2. /\ IsFiniteSet(Stored(kind)) /\ Cardinality(Stored(kind)) <= 1
        /\ Cardinality(Stored(kind)) \in Nat
    BY <2>1, FS_Subset, FS_CardinalityType
  <2>3. Cardinality(Waiting(kind)) = 0
    BY <1>2, FS_EmptySet
  <2> QED BY <1>3, <2>2, <2>3 DEF Bounded
<1>5. Stored(Offices(FirstOrg)) = {1}
  BY <1>1 DEF Stored, Offices
<1> QED BY <1>2, <1>4, <1>5 DEF CountInv

LEMMA StepCount == IInv /\ CountInv /\ [Next]_vars => CountInv'
<1> SUFFICES ASSUME IInv, CountInv, [Next]_vars PROVE CountInv' OBVIOUS
<1>1. CASE UNCHANGED <<branches, request>>
  BY <1>1, FewerWaiting DEF Stored, Waiting, Branches
<1>2. ASSUME NEW t \in Threads, NEW r, r.op # "create_branch",
             request' = [request EXCEPT ![t] = r], branches' = branches
      PROVE  CountInv'
  BY <1>2, OtherRequest, FewerWaiting
<1>3. ASSUME NEW t \in Threads, create_user_commit(t) \/ toggle_commit(t)
      PROVE  CountInv'
  <2>1. request' = [request EXCEPT ![t] = Idle] /\ branches' = branches
    BY <1>3 DEF create_user_commit, toggle_commit, Become
  <2> QED BY <1>2, <2>1, IdleOK
<1>4. ASSUME NEW t \in Threads, NEW token \in tokens, NEW u \in Emails, NEW role \in Created,
             create_user(t, token, u, role)
      PROVE  CountInv'
  BY <1>2, <1>4 DEF create_user, Become
<1>5. ASSUME NEW t \in Threads, NEW token \in tokens, NEW u \in Emails,
             toggle_user_status(t, token, u)
      PROVE  CountInv'
  <2> DEFINE r == [op |-> "toggle", auth |-> get_current_user(token), user |-> u,
                   is_active |-> ~ users[u].is_active]
  <2>1. request' = [request EXCEPT ![t] = r] /\ branches' = branches
    BY <1>5 DEF toggle_user_status, Become
  <2>2. r.op # "create_branch"
    OBVIOUS
  <2> HIDE DEF r
  <2> QED BY <1>2, <2>1, <2>2
<1>6. CASE \/ \E u \in Emails : login(u)
           \/ \E token \in tokens : logout(token) \/ \E org \in Orgs : switch_org(token, org)
           \/ UNCHANGED vars
  BY <1>1, <1>6 DEF login, logout, switch_org, vars
<1> QED BY <1>3, <1>4, <1>5, <1>6, BeginCount, CommitCount DEF Next

\* create_branch looks before it commits and no index helps it, yet the seeded
\* organization keeps its one head office, and no organization gets more head
\* offices, or branches of one name, than there are threads
\* (HeadOfficesBounded).
THEOREM OverlapsAddOnePerThread == Spec => []HeadOfficesBounded
<1>1. IInv /\ CountInv => HeadOfficesBounded
  <2> SUFFICES ASSUME IInv, CountInv PROVE HeadOfficesBounded OBVIOUS
  <2>1. \A b \in Branches : branches[b] \in Branch
    BY DEF IInv, TypeOK, Branches
  <2>2. ASSUME NEW org \in Orgs
        PROVE  /\ HeadOffices(org) = Stored(Offices(org)) /\ Offices(org) \in Unique
               /\ \A name \in Names : /\ Named(org, name) = Stored(OfName(org, name))
                                      /\ OfName(org, name) \in Unique
    BY <2>1 DEF HeadOffices, Named, Stored, Offices, OfName, Unique
  <2>3. ASSUME NEW kind \in Unique PROVE Cardinality(Stored(kind)) <= Cardinality(Threads)
    BY WaitingFinite, FS_CardinalityType DEF CountInv, Bounded
  <2>4. Cardinality(HeadOffices(FirstOrg)) = 1
    BY <2>2, SeedAssumption, FS_Singleton DEF CountInv
  <2> QED BY <2>2, <2>3, <2>4 DEF HeadOfficesBounded
<1>2. IInv /\ CountInv /\ [Next]_vars => (IInv /\ CountInv)'
  BY StepInv, StepCount
<1> QED BY <1>1, <1>2, InitInv, InitCount, PTL DEF Spec
=============================================================================
