----------------------------- MODULE AuthTokens -----------------------------
(***************************************************************************)
(* AuthService and the parts of UsersService that touch sessions: accounts *)
(* and their roles, the refresh tokens stored for them, and the access     *)
(* tokens clients hold.  Every awaited statement is one step.              *)
(***************************************************************************)
EXTENDS Integers, FiniteSets

CONSTANTS
  Users,        \* accounts, each with an email of its own; updateUser's change of
                \* it is not modelled
  TenantOf,     \* their tenants; None for those that register
  Requests,     \* requests running at a time
  Logins,       \* history: the sign-ins ever made; bound on their number
  MaxTime,      \* bound: the last second
  AccessTTL, RefreshTTL,   \* seconds
  Ops,          \* the operations clients use in an instance
  None, Gone

AllOps == {"register", "hire", "login", "refresh", "logout", "delete", "role", "crash"}
Roles == {"TENANT_ADMIN", "USER"}     \* of SUPER_ADMIN no route here asks
Seconds == 0..MaxTime

\* A JWT is its claims: sub with the role, and iat, in whole seconds.  The same
\* claims give the same string.
Token == [user : Users, role : Roles, iat : Seconds]

ASSUME AuthAssumption ==
  /\ MaxTime \in Nat /\ AccessTTL \in Nat /\ RefreshTTL \in Nat
  /\ Ops \subseteq AllOps
  /\ None \notin Roles /\ Gone \notin Roles /\ None # Gone
  /\ None \notin Users /\ None \notin Logins /\ None \notin Token

VARIABLES
  account,    \* User.role by account, None before, Gone after
  stored,     \* RefreshToken rows by token, which is unique: [login, expires]
  access,     \* access tokens that have been handed out
  begun,      \* history: the sign-ins made so far
  changed,    \* history: when an account's role last changed
  req,        \* the requests
  now

vars == <<account, stored, access, begun, changed, req, now>>
tables == <<account, stored, access, begun, changed, now>>

\* "login" on a row, on a request and on a sign-in is history: the register or
\* login a token descends from.  "read" on an access token is history: when the
\* role in it was read.
Row == [login : Logins, expires : Nat]

ASSUME RowAssumption == None \notin Row

Access == [user : Users, role : Roles, until : Nat, read : Seconds]
Steps == {"idle", "createUser", "readUser", "deleteToken", "sign", "store", "dropTokens", "dropUser"}
Request == [op : AllOps \cup {None}, at : Steps, user : Users \cup {None},
            role : Roles \cup {None}, read : Seconds, token : Token \cup {None},
            login : Logins \cup {None}]
Idle == [op |-> None, at |-> "idle", user |-> None, role |-> None, read |-> 0,
         token |-> None, login |-> None]

Exists(u) == account[u] \in Roles
Valid(t) == stored[t] # None

\* The tokens stored for a sign-in, and the requests that are to store one.
RowsOf(l) == {t \in Token : Valid(t) /\ stored[t].login = l}
Holds(q) == q.at \in {"createUser", "sign", "store"}
HasRole(q) == q.at \in {"deleteToken", "sign", "store"}
IssuesOf(l) == {r \in Requests : Holds(req[r]) /\ req[r].login = l}

\* What an account has when it is made: by createTenantAdmin, or by register.
FirstRole(u) == IF TenantOf[u] = None THEN "USER" ELSE "TENANT_ADMIN"

Init ==
  /\ account \in {f \in [Users -> Roles \cup {None}] : \A u \in Users : f[u] \in {None, FirstRole(u)}}
  /\ stored = [t \in Token |-> None]
  /\ access = {} /\ begun = {}
  /\ changed = [u \in Users |-> 0]
  /\ req = [r \in Requests |-> Idle]
  /\ now = 0

Goto(r, step) == req' = [req EXCEPT ![r].at = step]
Finish(r) == req' = [req EXCEPT ![r] = Idle]

(***************************************************************************)
(* register and login.                                                     *)
(***************************************************************************)
\* register finds no account of that email and hashes the password.
BeginRegister(r) ==
  /\ "register" \in Ops /\ req[r].at = "idle"
  /\ \E u \in Users, l \in Logins \ begun :
       /\ account[u] = None /\ TenantOf[u] = None
       /\ req' = [req EXCEPT ![r] = [op |-> "register", at |-> "createUser", user |-> u,
                                     role |-> None, read |-> 0, token |-> None, login |-> l]]
       /\ begun' = begun \cup {l}
  /\ UNCHANGED <<account, stored, access, changed, now>>

\* user.create; the second of two for one email fails on its unique index.
CreateUser(r) ==
  /\ req[r].at = "createUser"
  /\ IF account[req[r].user] = None
     THEN /\ account' = [account EXCEPT ![req[r].user] = "USER"]
          /\ req' = [req EXCEPT ![r].at = "sign", ![r].role = "USER", ![r].read = now]
     ELSE /\ Finish(r)
          /\ UNCHANGED account
  /\ UNCHANGED <<stored, access, begun, changed, now>>

\* login reads the account, with its role.
BeginLogin(r) ==
  /\ "login" \in Ops /\ req[r].at = "idle"
  /\ \E u \in Users, l \in Logins \ begun :
       /\ Exists(u)
       /\ req' = [req EXCEPT ![r] = [op |-> "login", at |-> "sign", user |-> u, role |-> account[u],
                                     read |-> now, token |-> None, login |-> l]]
       /\ begun' = begun \cup {l}
  /\ UNCHANGED <<account, stored, access, changed, now>>

(***************************************************************************)
(* issueTokens.                                                            *)
(***************************************************************************)
\* Both tokens are signed, with the second it is.
Sign(r) ==
  /\ req[r].at = "sign"
  /\ req' = [req EXCEPT ![r].at = "store",
                        ![r].token = [user |-> req[r].user, role |-> req[r].role, iat |-> now]]
  /\ UNCHANGED tables

\* refreshToken.create; it fails when the token is there already or the account
\* is not, and then the client gets neither token.
Store(r) ==
  /\ req[r].at = "store"
  /\ LET t == req[r].token
     IN  IF Valid(t) \/ ~Exists(t.user)
         THEN UNCHANGED <<stored, access>>
         ELSE /\ stored' = [stored EXCEPT ![t] = [login |-> req[r].login, expires |-> now + RefreshTTL]]
              /\ access' = access \cup {[user |-> t.user, role |-> t.role,
                                        until |-> t.iat + AccessTTL, read |-> req[r].read]}
  /\ Finish(r)
  /\ UNCHANGED <<account, begun, changed, now>>

(***************************************************************************)
(* refresh.                                                                *)
(***************************************************************************)
\* The JWT is verified and its row found, neither expired.
BeginRefresh(r) ==
  /\ "refresh" \in Ops /\ req[r].at = "idle"
  /\ \E t \in Token :
       /\ now < t.iat + RefreshTTL
       /\ Valid(t) /\ now < stored[t].expires
       /\ req' = [req EXCEPT ![r] = [op |-> "refresh", at |-> "readUser", user |-> t.user, role |-> None,
                                     read |-> 0, token |-> t, login |-> stored[t].login]]
  /\ UNCHANGED tables

\* A bug: the role of the old token is kept.
KeepRole(r) ==
  /\ req[r].at = "readUser"
  /\ IF Exists(req[r].user)
     THEN req' = [req EXCEPT ![r].at = "deleteToken", ![r].role = req[r].token.role, ![r].read = now]
     ELSE Finish(r)
  /\ UNCHANGED tables

\* A bug: user is not tested for null.
ReadAnyUser(r) ==
  /\ req[r].at = "readUser"
  /\ req' = [req EXCEPT ![r].at = "deleteToken", ![r].role = account[req[r].user], ![r].read = now]
  /\ UNCHANGED tables

\* user.findUnique, with the role as it is now.
ReadUser(r) ==
  /\ req[r].at = "readUser"
  /\ IF Exists(req[r].user)
     THEN req' = [req EXCEPT ![r].at = "deleteToken", ![r].role = account[req[r].user], ![r].read = now]
     ELSE Finish(r)
  /\ UNCHANGED tables

\* A bug: deleteMany, which does not fail when the row is gone.
DeleteAnyToken(r) ==
  /\ req[r].at = "deleteToken"
  /\ stored' = [stored EXCEPT ![req[r].token] = None]
  /\ Goto(r, "sign")
  /\ UNCHANGED <<account, access, begun, changed, now>>

\* refreshToken.delete fails when the row is gone.  The row may be another than
\* the one found, of the same token.
DeleteToken(r) ==
  /\ req[r].at = "deleteToken"
  /\ LET t == req[r].token
     IN  IF Valid(t)
         THEN /\ stored' = [stored EXCEPT ![t] = None]
              /\ req' = [req EXCEPT ![r].at = "sign", ![r].login = stored[t].login]
         ELSE /\ Finish(r)
              /\ UNCHANGED stored
  /\ UNCHANGED <<account, access, begun, changed, now>>

(***************************************************************************)
(* createTenantAdmin, logout, deleteUser and updateUserRole.               *)
(***************************************************************************)
\* user.create; with an account of that email already there it fails.
CreateTenantAdmin(u) ==
  /\ "hire" \in Ops
  /\ account[u] = None /\ TenantOf[u] # None
  /\ account' = [account EXCEPT ![u] = "TENANT_ADMIN"]
  /\ UNCHANGED <<stored, access, begun, changed, req, now>>

Logout(t) ==
  /\ "logout" \in Ops
  /\ stored' = [stored EXCEPT ![t] = None]
  /\ UNCHANGED <<account, access, begun, changed, req, now>>

\* Who holds an access token of a tenant admin may act on the tenant's accounts,
\* whatever has become of the admin's account since.
MayManage(a, u) == a.role = "TENANT_ADMIN" /\ TenantOf[u] # None /\ TenantOf[a.user] = TenantOf[u]

\* No one may delete the own account.
BeginDelete(r) ==
  /\ "delete" \in Ops /\ req[r].at = "idle"
  /\ \E u \in Users, a \in access :
       /\ Exists(u) /\ MayManage(a, u) /\ a.user # u
       /\ req' = [req EXCEPT ![r] = [op |-> "delete", at |-> "dropTokens", user |-> u, role |-> None,
                                     read |-> 0, token |-> None, login |-> None]]
  /\ UNCHANGED tables

\* A bug: the tokens of all who share the tenant go.
DropTenantTokens(r) ==
  /\ req[r].at = "dropTokens"
  /\ stored' = [t \in Token |-> IF TenantOf[t.user] = TenantOf[req[r].user] THEN None ELSE stored[t]]
  /\ Goto(r, "dropUser")
  /\ UNCHANGED <<account, access, begun, changed, now>>

DropTokens(r) ==
  /\ req[r].at = "dropTokens"
  /\ stored' = [t \in Token |-> IF t.user = req[r].user THEN None ELSE stored[t]]
  /\ Goto(r, "dropUser")
  /\ UNCHANGED <<account, access, begun, changed, now>>

\* A bug: the relation RefreshToken.user does not restrict the deletion.
Unrestricted(u) == FALSE

\* The relation RefreshToken.user restricts the deletion of an account.
Restricted(u) == \E t \in Token : Valid(t) /\ t.user = u

\* user.delete fails when the account has a token, was deleted by another, or is
\* referred to by rows of other tables, which may be at any time.
DropUser(r) ==
  /\ req[r].at = "dropUser"
  /\ LET u == req[r].user
     IN  \/ /\ Exists(u) /\ ~Restricted(u)
            /\ account' = [account EXCEPT ![u] = Gone]
            /\ changed' = [changed EXCEPT ![u] = now]
         \/ UNCHANGED <<account, changed>>
  /\ Finish(r)
  /\ UNCHANGED <<stored, access, begun, now>>

\* updateUserRole; what it has read before only an update of a deleted account
\* could belie, and that fails.
ChangeRole(a, u, role) ==
  /\ "role" \in Ops
  /\ Exists(u) /\ MayManage(a, u)
  /\ account' = [account EXCEPT ![u] = role]
  /\ changed' = [changed EXCEPT ![u] = now]
  /\ UNCHANGED <<stored, access, begun, req, now>>

(***************************************************************************)
(* Time, crashes, and the whole.                                           *)
(***************************************************************************)
\* A second passes; what has expired by then is refused, and forgotten.
Tick ==
  /\ now < MaxTime
  /\ now' = now + 1
  /\ access' = {a \in access : now' < a.until}
  /\ UNCHANGED <<account, stored, begun, changed, req>>

Crash ==
  /\ "crash" \in Ops
  /\ \E r \in Requests : req[r].at # "idle"
  /\ req' = [r \in Requests |-> Idle]
  /\ UNCHANGED tables

Next ==
  \/ \E r \in Requests :
       \/ BeginRegister(r) \/ CreateUser(r) \/ BeginLogin(r)
       \/ Sign(r) \/ Store(r)
       \/ BeginRefresh(r) \/ ReadUser(r) \/ DeleteToken(r)
       \/ BeginDelete(r) \/ DropTokens(r) \/ DropUser(r)
  \/ \E t \in Token : Logout(t)
  \/ \E u \in Users : CreateTenantAdmin(u)
  \/ \E a \in access, u \in Users, role \in Roles : ChangeRole(a, u, role)
  \/ Tick
  \/ Crash

Spec == Init /\ [][Next]_vars

(***************************************************************************)
(* Properties.                                                             *)
(***************************************************************************)
\* What a request has at each of its steps.
RequestOK(q) ==
  /\ q.at # "idle" => q.user \in Users
  /\ q.at \in {"readUser", "deleteToken", "store"} => q.token \in Token /\ q.token.user = q.user
  /\ Holds(q) => q.login \in begun
  /\ HasRole(q) => q.role \in Roles
  /\ q.at = "store" => q.token.role = q.role

TypeOK ==
  /\ account \in [Users -> Roles \cup {None, Gone}]
  /\ stored \in [Token -> Row \cup {None}]
  /\ access \subseteq Access
  /\ begun \subseteq Logins
  /\ changed \in [Users -> Seconds]
  /\ req \in [Requests -> Request]
  /\ now \in Seconds
  /\ \A r \in Requests : RequestOK(req[r])

Single(l) ==
  /\ \A t, u \in RowsOf(l) : t = u
  /\ \A r, q \in IssuesOf(l) : r = q
  /\ RowsOf(l) = {} \/ IssuesOf(l) = {}
  /\ RowsOf(l) # {} => l \in begun

\* A sign-in has at most one session, however its tokens are refreshed: one row,
\* or one request that is about to store one (delete fails for the second of
\* two refreshes).  No account is deleted under its tokens.
OneSession ==
  /\ \A l \in Logins : Single(l)
  /\ \A t \in Token : Valid(t) => Exists(t.user)

Ended(l) == l \in begun /\ RowsOf(l) = {} /\ IssuesOf(l) = {}

\* Logging out with the token a sign-in has ends it at once, and what has ended
\* stays so, whichever refreshes were under way.
LogoutIsFinal ==
  [][\A l \in Logins :
       Ended(l) \/ (\E t \in RowsOf(l) : Logout(t)) => Ended(l)']_vars

(***************************************************************************)
(* What sessions are to their clients: see SessionLife.                    *)
(***************************************************************************)
StageOf(l) ==
  IF l \notin begun THEN "new"
  ELSE IF RowsOf(l) # {} THEN "open"
  ELSE IF IssuesOf(l) # {} THEN "pending"
  ELSE "closed"

AccountsOf(l) == {t.user : t \in RowsOf(l)} \cup {req[r].user : r \in IssuesOf(l)}

Life == [l \in Logins |-> StageOf(l)]
Whose == [l \in Logins |-> AccountsOf(l)]

Client == INSTANCE SessionLife WITH life <- Life, whose <- Whose

\* Whatever refreshes, logouts, deletions and crashes interleave, a sign-in keeps
\* its account, is taken up by one refresh at a time, and once ended stays so; to
\* delete an account ends its sessions and no other's, though a token found by a
\* refresh may have become another sign-in's by the time it is deleted.
ImplementsSessionLife == Client!LifeSpec

Has(u, role, read) ==
  account[u] # None /\ read <= now /\ (account[u] # role => changed[u] >= read)

\* An access token has the role its account has, or had when the request that
\* issued it read it or later: a change of role or a deletion is overtaken only
\* by requests under way, and holds for all when their tokens expire.
RoleWasRead ==
  /\ \A a \in access : Has(a.user, a.role, a.read)
  /\ \A r \in Requests :
       HasRole(req[r]) => Has(req[r].user, req[r].role, req[r].read)
=============================================================================
