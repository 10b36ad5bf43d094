-------------------------- MODULE AuthTokensProofs --------------------------
(***************************************************************************)
(* What sessions and roles keep for any number of accounts, requests and   *)
(* sign-ins, and any lifetimes of tokens.                                  *)
(***************************************************************************)
EXTENDS AuthTokens, TLAPS

AuthInv == TypeOK /\ OneSession /\ RoleWasRead

RequestStep(r) ==
  \/ BeginRegister(r) \/ CreateUser(r) \/ BeginLogin(r)
  \/ Sign(r) \/ Store(r)
  \/ BeginRefresh(r) \/ ReadUser(r) \/ DeleteToken(r)
  \/ BeginDelete(r) \/ DropTokens(r) \/ DropUser(r)

OtherStep ==
  \/ \E t \in Token : Logout(t)
  \/ \E u \in Users : CreateTenantAdmin(u)
  \/ \E a \in access, u \in Users, role \in Roles : ChangeRole(a, u, role)
  \/ Tick
  \/ Crash

(***************************************************************************)
(* Typing.                                                                 *)
(***************************************************************************)
\* A slot with nothing in it is well formed.
LEMMA IdleOK == Idle \in Request /\ RequestOK(Idle)
BY AuthAssumption DEF Idle, Request, RequestOK, Holds, HasRole, Steps, Seconds

\* One slot gets a well-formed request, the others keep theirs.
LEMMA SlotTyped ==
  ASSUME TypeOK, NEW r \in Requests, NEW q \in Request, RequestOK(q)',
         req' = [req EXCEPT ![r] = q], begun \subseteq begun'
  PROVE  req' \in [Requests -> Request] /\ \A x \in Requests : RequestOK(req[x])'
<1>1. req' \in [Requests -> Request]
  BY DEF TypeOK
<1>2. ASSUME NEW x \in Requests PROVE RequestOK(req[x])'
  <2>1. CASE x = r
    BY <2>1 DEF TypeOK, RequestOK
  <2>2. CASE x # r
    BY <2>2 DEF TypeOK, RequestOK
  <2>. QED
    BY <2>1, <2>2
<1>. QED
  BY <1>1, <1>2

\* The tables that steps of a request leave alone are typed as before.
LEMMA ReadersTyped ==
  ASSUME TypeOK, NEW r \in Requests,
         BeginRegister(r) \/ BeginLogin(r) \/ Sign(r) \/ BeginRefresh(r) \/ ReadUser(r) \/ BeginDelete(r)
  PROVE  TypeOK'
<1>. USE AuthAssumption, IdleOK
<1>1. \E q \in Request : req' = [req EXCEPT ![r] = q] /\ RequestOK(q)'
  <2>1. CASE BeginRegister(r)
    <3>1. PICK u \in Users, l \in Logins \ begun :
            /\ req' = [req EXCEPT ![r] = [op |-> "register", at |-> "createUser", user |-> u,
                        role |-> None, read |-> 0, token |-> None, login |-> l]]
            /\ begun' = begun \cup {l}
      BY <2>1 DEF BeginRegister
    <3>2. PICK q : q = [op |-> "register", at |-> "createUser", user |-> u,
                        role |-> None, read |-> 0, token |-> None, login |-> l]
      OBVIOUS
    <3>3. q \in Request
      BY <3>2 DEF Request, Steps, AllOps, Seconds
    <3>4. RequestOK(q)'
      BY <3>1, <3>2 DEF RequestOK, Holds, HasRole
    <3>. QED
      BY <3>1, <3>2, <3>3, <3>4
  <2>2. CASE BeginLogin(r)
    <3>1. PICK u \in Users, l \in Logins \ begun :
            /\ Exists(u)
            /\ req' = [req EXCEPT ![r] = [op |-> "login", at |-> "sign", user |-> u, role |-> account[u],
                        read |-> now, token |-> None, login |-> l]]
            /\ begun' = begun \cup {l}
      BY <2>2 DEF BeginLogin
    <3>2. PICK q : q = [op |-> "login", at |-> "sign", user |-> u, role |-> account[u],
                        read |-> now, token |-> None, login |-> l]
      OBVIOUS
    <3>3. q \in Request
      BY <3>1, <3>2 DEF Request, Steps, AllOps, TypeOK, Exists
    <3>4. RequestOK(q)'
      BY <3>1, <3>2 DEF RequestOK, Holds, HasRole, Exists
    <3>. QED
      BY <3>1, <3>2, <3>3, <3>4
  <2>3. CASE Sign(r)
    <3>1. PICK t : t = [user |-> req[r].user, role |-> req[r].role, iat |-> now]
      OBVIOUS
    <3>2. req[r] \in Request /\ RequestOK(req[r]) /\ req[r].at = "sign"
      BY <2>3 DEF Sign, TypeOK
    <3>3. t \in Token /\ t.user = req[r].user /\ t.role = req[r].role
      BY <3>1, <3>2 DEF Token, RequestOK, HasRole, TypeOK
    <3>4. PICK q : q = [req[r] EXCEPT !.at = "store", !.token = t]
      OBVIOUS
    <3>5. req' = [req EXCEPT ![r] = q] /\ begun' = begun
      BY <2>3, <3>1, <3>4 DEF Sign, TypeOK, tables
    <3>6. q \in Request
      BY <3>2, <3>3, <3>4 DEF Request, Steps
    <3>7. RequestOK(q)'
      BY <3>2, <3>3, <3>4, <3>5 DEF Request, RequestOK, Holds, HasRole
    <3>. QED
      BY <3>5, <3>6, <3>7
  <2>4. CASE BeginRefresh(r)
    <3>1. PICK t \in Token :
            /\ Valid(t)
            /\ req' = [req EXCEPT ![r] = [op |-> "refresh", at |-> "readUser", user |-> t.user, role |-> None,
                        read |-> 0, token |-> t, login |-> stored[t].login]]
      BY <2>4 DEF BeginRefresh
    <3>2. t \in Token /\ stored[t] \in Row
      BY <3>1 DEF TypeOK, Valid
    <3>3. PICK q : q = [op |-> "refresh", at |-> "readUser", user |-> t.user, role |-> None,
                        read |-> 0, token |-> t, login |-> stored[t].login]
      OBVIOUS
    <3>4. t.user \in Users /\ stored[t].login \in Logins
      BY <3>2 DEF Token, Row
    <3>5. q \in Request
      BY <3>2, <3>3, <3>4 DEF Request, Steps, AllOps, Seconds
    <3>6. RequestOK(q)'
      BY <3>2, <3>3, <3>4 DEF RequestOK, Holds, HasRole
    <3>. QED
      BY <3>1, <3>3, <3>5, <3>6
  <2>5. CASE ReadUser(r)
    <3>1. req[r] \in Request /\ RequestOK(req[r]) /\ req[r].at = "readUser"
      BY <2>5 DEF ReadUser, TypeOK
    <3>2. CASE ~Exists(req[r].user)
      <4>1. req' = [req EXCEPT ![r] = Idle] /\ begun' = begun
        BY <2>5, <3>2 DEF ReadUser, Finish, tables
      <4>2. RequestOK(Idle)'
        BY DEF Idle, RequestOK, Holds, HasRole
      <4>. QED
        BY <4>1, <4>2
    <3>3. CASE Exists(req[r].user)
      <4>1. PICK q : q = [req[r] EXCEPT !.at = "deleteToken", !.role = account[req[r].user], !.read = now]
        OBVIOUS
      <4>2. req' = [req EXCEPT ![r] = q] /\ begun' = begun
        BY <2>5, <3>3, <4>1 DEF ReadUser, TypeOK, tables
      <4>3. q \in Request
        BY <3>1, <3>3, <4>1 DEF Request, Steps, TypeOK, Exists
      <4>4. RequestOK(q)'
        BY <3>1, <3>3, <4>1 DEF Request, RequestOK, Holds, HasRole, Exists
      <4>. QED
        BY <4>2, <4>3, <4>4
    <3>. QED
      BY <3>2, <3>3
  <2>6. CASE BeginDelete(r)
    <3>1. PICK u \in Users :
            req' = [req EXCEPT ![r] = [op |-> "delete", at |-> "dropTokens", user |-> u, role |-> None,
                                      read |-> 0, token |-> None, login |-> None]]
      BY <2>6 DEF BeginDelete
    <3>2. PICK q : q = [op |-> "delete", at |-> "dropTokens", user |-> u, role |-> None,
                                      read |-> 0, token |-> None, login |-> None]
      OBVIOUS
    <3>3. q \in Request
      BY <3>2 DEF Request, Steps, AllOps, Seconds
    <3>4. RequestOK(q)'
      BY <3>2 DEF RequestOK, Holds, HasRole
    <3>. QED
      BY <3>1, <3>2, <3>3, <3>4
  <2>. QED
    BY <2>1, <2>2, <2>3, <2>4, <2>5, <2>6
<1>2. /\ begun \subseteq begun' /\ begun' \subseteq Logins
      /\ UNCHANGED <<account, stored, access, changed, now>>
  <2>1. CASE BeginRegister(r) \/ BeginLogin(r)
    BY <2>1 DEF BeginRegister, BeginLogin, TypeOK
  <2>2. CASE Sign(r) \/ BeginRefresh(r) \/ ReadUser(r) \/ BeginDelete(r)
    BY <2>2 DEF Sign, BeginRefresh, ReadUser, BeginDelete, tables, TypeOK
  <2>. QED
    BY <2>1, <2>2
<1>. QED
  BY <1>1, <1>2, SlotTyped DEF TypeOK

\* A request that ends leaves an idle slot.
LEMMA FinishTyped ==
  ASSUME TypeOK, NEW r \in Requests, Finish(r), begun' = begun
  PROVE  req' \in [Requests -> Request] /\ \A x \in Requests : RequestOK(req[x])'
<1>1. RequestOK(Idle)'
  BY DEF Idle, RequestOK, Holds, HasRole
<1>. QED
  BY <1>1, IdleOK, SlotTyped DEF Finish

\* The steps of a request that write a table.
LEMMA WritersTyped ==
  ASSUME TypeOK, OneSession, NEW r \in Requests,
         CreateUser(r) \/ Store(r) \/ DeleteToken(r) \/ DropTokens(r) \/ DropUser(r)
  PROVE  TypeOK'
<1>. USE AuthAssumption
<1>0. req[r] \in Request /\ RequestOK(req[r])
  BY DEF TypeOK
<1>1. CASE CreateUser(r)
  <2>1. req[r].at = "createUser" /\ req[r].user \in Users /\ req[r].login \in begun
    BY <1>0, <1>1 DEF CreateUser, RequestOK, Holds
  <2>2. account' \in [Users -> Roles \cup {None, Gone}]
    BY <1>1, <2>1 DEF CreateUser, TypeOK, Roles
  <2>3. req' \in [Requests -> Request] /\ \A x \in Requests : RequestOK(req[x])'
    <3>1. CASE account[req[r].user] = None
      <4>1. PICK q : q = [req[r] EXCEPT !.at = "sign", !.role = "USER", !.read = now]
        OBVIOUS
      <4>2. req' = [req EXCEPT ![r] = q] /\ begun' = begun
        BY <1>1, <3>1, <4>1 DEF CreateUser, TypeOK
      <4>3. q \in Request
        BY <1>0, <4>1 DEF Request, Steps, Roles, TypeOK
      <4>4. RequestOK(q)'
        BY <1>0, <2>1, <4>1, <4>2 DEF Request, RequestOK, Holds, HasRole, Roles
      <4>. QED
        BY <4>2, <4>3, <4>4, SlotTyped
    <3>2. CASE account[req[r].user] # None
      BY <1>1, <3>2, FinishTyped DEF CreateUser
    <3>. QED
      BY <3>1, <3>2
  <2>. QED
    BY <1>1, <2>2, <2>3 DEF CreateUser, TypeOK
<1>2. CASE Store(r)
  <2>1. req[r].at = "store" /\ req[r].token \in Token /\ req[r].login \in Logins
    BY <1>0, <1>2 DEF Store, RequestOK, Holds, TypeOK
  <2>2. PICK t \in Token : t = req[r].token
    BY <2>1
  <2>3. PICK row : row = [login |-> req[r].login, expires |-> now + RefreshTTL]
    OBVIOUS
  <2>4. PICK a : a = [user |-> t.user, role |-> t.role, until |-> t.iat + AccessTTL, read |-> req[r].read]
    OBVIOUS
  <2>5. row \in Row
    BY <2>1, <2>3 DEF Row, TypeOK, Seconds
  <2>6. a \in Access
    BY <1>0, <2>4 DEF Access, Token, Request, Seconds
  <2>7. \/ UNCHANGED <<stored, access>>
        \/ /\ stored' = [stored EXCEPT ![t] = row]
           /\ access' = access \cup {a}
    BY <1>2, <2>2, <2>3, <2>4 DEF Store
  <2>8. /\ stored' \in [Token -> Row \cup {None}]
        /\ access' \subseteq Access
    BY <2>5, <2>6, <2>7 DEF TypeOK
  <2>9. req' \in [Requests -> Request] /\ \A x \in Requests : RequestOK(req[x])'
    BY <1>2, FinishTyped DEF Store
  <2>. QED
    BY <1>2, <2>8, <2>9 DEF Store, TypeOK
<1>3. CASE DeleteToken(r)
  <2>1. req[r].at = "deleteToken" /\ req[r].token \in Token
    BY <1>0, <1>3 DEF DeleteToken, RequestOK
  <2>2. stored' \in [Token -> Row \cup {None}]
    BY <1>3, <2>1 DEF DeleteToken, TypeOK
  <2>3. CASE Valid(req[r].token)
    <3>1. PICK l : l = stored[req[r].token].login
      OBVIOUS
    <3>2. l \in Logins
      BY <2>1, <2>3, <3>1 DEF TypeOK, Valid, Row
    <3>3. l \in begun
      BY <2>1, <2>3, <3>1, <3>2 DEF OneSession, Single, RowsOf
    <3>4. PICK q : q = [req[r] EXCEPT !.at = "sign", !.login = l]
      OBVIOUS
    <3>5. req' = [req EXCEPT ![r] = q] /\ begun' = begun
      BY <1>3, <2>3, <3>1, <3>4 DEF DeleteToken, TypeOK
    <3>6. q \in Request
      BY <1>0, <3>2, <3>4 DEF Request, Steps
    <3>7. RequestOK(q)'
      BY <1>0, <2>1, <3>3, <3>4, <3>5 DEF Request, RequestOK, Holds, HasRole
    <3>8. req' \in [Requests -> Request] /\ \A x \in Requests : RequestOK(req[x])'
      BY <3>5, <3>6, <3>7, SlotTyped
    <3>. QED
      BY <1>3, <2>2, <3>8 DEF DeleteToken, TypeOK
  <2>4. CASE ~Valid(req[r].token)
    <3>1. req' \in [Requests -> Request] /\ \A x \in Requests : RequestOK(req[x])'
      BY <1>3, <2>4, FinishTyped DEF DeleteToken
    <3>. QED
      BY <1>3, <2>2, <3>1 DEF DeleteToken, TypeOK
  <2>. QED
    BY <2>3, <2>4
<1>4. CASE DropTokens(r)
  <2>1. stored' \in [Token -> Row \cup {None}]
    BY <1>4 DEF DropTokens, TypeOK
  <2>2. PICK q : q = [req[r] EXCEPT !.at = "dropUser"]
    OBVIOUS
  <2>3. req' = [req EXCEPT ![r] = q] /\ begun' = begun
    BY <1>4, <2>2 DEF DropTokens, Goto
  <2>4. q \in Request /\ RequestOK(q)'
    BY <1>0, <1>4, <2>2 DEF DropTokens, Request, Steps, RequestOK, Holds, HasRole
  <2>5. req' \in [Requests -> Request] /\ \A x \in Requests : RequestOK(req[x])'
    BY <2>3, <2>4, SlotTyped
  <2>. QED
    BY <1>4, <2>1, <2>5 DEF DropTokens, TypeOK
<1>5. CASE DropUser(r)
  <2>1. account' \in [Users -> Roles \cup {None, Gone}] /\ changed' \in [Users -> Seconds]
    BY <1>5 DEF DropUser, TypeOK
  <2>2. req' \in [Requests -> Request] /\ \A x \in Requests : RequestOK(req[x])'
    BY <1>5, FinishTyped DEF DropUser
  <2>. QED
    BY <1>5, <2>1, <2>2 DEF DropUser, TypeOK
<1>. QED
  BY <1>1, <1>2, <1>3, <1>4, <1>5

\* The steps that are no request's.
LEMMA OthersTyped ==
  ASSUME TypeOK, OtherStep
  PROVE  TypeOK'
<1>. USE AuthAssumption
<1>0. \A x \in Requests : begun' = begun /\ req' = req => RequestOK(req[x])'
  BY DEF TypeOK, RequestOK
<1>1. ASSUME NEW t \in Token, Logout(t) PROVE TypeOK'
  BY <1>0, <1>1 DEF Logout, TypeOK
<1>2. ASSUME NEW u \in Users, CreateTenantAdmin(u) PROVE TypeOK'
  BY <1>0, <1>2 DEF CreateTenantAdmin, TypeOK, Roles
<1>3. ASSUME NEW a \in access, NEW u \in Users, NEW role \in Roles, ChangeRole(a, u, role)
      PROVE  TypeOK'
  BY <1>0, <1>3 DEF ChangeRole, TypeOK
<1>4. CASE Tick
  BY <1>0, <1>4 DEF Tick, TypeOK, Seconds
<1>5. CASE Crash
  <2>1. RequestOK(Idle)'
    BY DEF Idle, RequestOK, Holds, HasRole
  <2>2. \A x \in Requests : RequestOK(req[x])'
    BY <1>5, <2>1 DEF Crash
  <2>. QED
    BY <1>5, <2>2, IdleOK DEF Crash, TypeOK, tables
<1>. QED
  BY <1>1, <1>2, <1>3, <1>4, <1>5 DEF OtherStep

(***************************************************************************)
(* Sessions.  For them a step is one of four kinds.                        *)
(***************************************************************************)
Shrinks(l) == RowsOf(l)' \subseteq RowsOf(l) /\ IssuesOf(l)' \subseteq IssuesOf(l)
OthersShrink(l) == \A k \in Logins \ {l} : Shrinks(k)

\* A sign-in begins with r.
Starts(r, l) ==
  /\ l \notin begun /\ l \in begun'
  /\ RowsOf(l)' \subseteq RowsOf(l) /\ IssuesOf(l)' \subseteq IssuesOf(l) \cup {r}
  /\ OthersShrink(l)
\* r stores the token it has for l.
Stores(r, l, t) ==
  /\ r \in IssuesOf(l)
  /\ RowsOf(l)' \subseteq RowsOf(l) \cup {t} /\ IssuesOf(l)' \subseteq IssuesOf(l) \ {r}
  /\ OthersShrink(l)
\* r takes the row of l.
Takes(r, l, t) ==
  /\ t \in RowsOf(l)
  /\ RowsOf(l)' \subseteq RowsOf(l) \ {t} /\ IssuesOf(l)' \subseteq IssuesOf(l) \cup {r}
  /\ OthersShrink(l)

SessionStep ==
  /\ begun \subseteq begun'
  /\ \/ \A l \in Logins : Shrinks(l)
     \/ \E r \in Requests, l \in Logins : Starts(r, l)
     \/ \E r \in Requests, l \in Logins, t \in Token : Stores(r, l, t) \/ Takes(r, l, t)

\* Every such step keeps a sign-in to one session, and one that has ended ended.
LEMMA SessionKept ==
  ASSUME TypeOK, OneSession, SessionStep, NEW l \in Logins
  PROVE  Single(l)' /\ (Ended(l) => Ended(l)')
<1>0. Single(l) /\ (IssuesOf(l) # {} => l \in begun) /\ begun \subseteq begun'
  BY DEF OneSession, SessionStep, TypeOK, RequestOK, IssuesOf
<1>1. CASE Shrinks(l)
  BY <1>0, <1>1 DEF Shrinks, Single, Ended
<1>2. ASSUME NEW r \in Requests, Starts(r, l) PROVE Single(l)' /\ ~Ended(l)
  BY <1>0, <1>2 DEF Starts, Single, Ended
<1>3. ASSUME NEW r \in Requests, NEW t \in Token, Stores(r, l, t) PROVE Single(l)' /\ ~Ended(l)
  BY <1>0, <1>3 DEF Stores, Single, Ended
<1>4. ASSUME NEW r \in Requests, NEW t \in Token, Takes(r, l, t) PROVE Single(l)' /\ ~Ended(l)
  BY <1>0, <1>4 DEF Takes, Single, Ended
<1>5. \/ Shrinks(l) \/ \E r \in Requests : Starts(r, l)
      \/ \E r \in Requests, t \in Token : Stores(r, l, t) \/ Takes(r, l, t)
  BY DEF SessionStep, Starts, Stores, Takes, OthersShrink
<1>. QED
  BY <1>1, <1>2, <1>3, <1>4, <1>5

\* Where no row comes to hold a sign-in, and no request but r.
LEMMA RowsShrink ==
  ASSUME NEW l \in Logins, \A t \in Token : Valid(t)' => Valid(t) /\ stored'[t] = stored[t]
  PROVE  RowsOf(l)' \subseteq RowsOf(l)
BY DEF RowsOf

LEMMA IssuesShrink ==
  ASSUME TypeOK, NEW l \in Logins, NEW r \in Requests, NEW q, req' = [req EXCEPT ![r] = q],
         Holds(q) => q.login # l \/ (Holds(req[r]) /\ req[r].login = l)
  PROVE  IssuesOf(l)' \subseteq IssuesOf(l)
BY DEF IssuesOf, TypeOK

LEMMA IssuesGrow ==
  ASSUME TypeOK, NEW l \in Logins, NEW r \in Requests, NEW q, req' = [req EXCEPT ![r] = q]
  PROVE  IssuesOf(l)' \subseteq IssuesOf(l) \cup {r}
BY DEF IssuesOf, TypeOK

\* A request begins that issues nothing, ends, or goes on with what it holds.
LEMMA QuietSession ==
  ASSUME TypeOK, NEW r \in Requests, NEW q, req' = [req EXCEPT ![r] = q],
         Holds(q) => Holds(req[r]) /\ req[r].login = q.login,
         \A t \in Token : Valid(t)' => Valid(t) /\ stored'[t] = stored[t],
         begun \subseteq begun'
  PROVE  SessionStep
<1>1. \A l \in Logins : RowsOf(l)' \subseteq RowsOf(l)
  BY RowsShrink
<1>2. ASSUME NEW l \in Logins PROVE IssuesOf(l)' \subseteq IssuesOf(l)
  <2>1. Holds(q) => q.login # l \/ (Holds(req[r]) /\ req[r].login = l)
    OBVIOUS
  <2>. QED
    BY <2>1, IssuesShrink
<1>. QED
  BY <1>1, <1>2 DEF SessionStep, Shrinks

LEMMA FinishSession ==
  ASSUME TypeOK, NEW r \in Requests, Finish(r), begun' = begun,
         \A t \in Token : Valid(t)' => Valid(t) /\ stored'[t] = stored[t]
  PROVE  SessionStep
<1>1. ~Holds(Idle)
  BY DEF Holds, Idle
<1>. QED
  BY <1>1, QuietSession DEF Finish

\* A register or a login begins with a sign-in of its own.
LEMMA BeginSession ==
  ASSUME TypeOK, NEW r \in Requests, NEW l \in Logins \ begun, NEW q,
         req' = [req EXCEPT ![r] = q], q.login = l, begun' = begun \cup {l}, stored' = stored
  PROVE  SessionStep
<1>1. \A k \in Logins : RowsOf(k)' \subseteq RowsOf(k)
  BY RowsShrink DEF Valid
<1>2. ASSUME NEW k \in Logins \ {l} PROVE IssuesOf(k)' \subseteq IssuesOf(k)
  <2>1. Holds(q) => q.login # k \/ (Holds(req[r]) /\ req[r].login = k)
    OBVIOUS
  <2>. QED
    BY <2>1, IssuesShrink
<1>3. IssuesOf(l)' \subseteq IssuesOf(l) \cup {r}
  BY IssuesGrow
<1>4. Starts(r, l)
  BY <1>1, <1>2, <1>3 DEF Starts, OthersShrink, Shrinks
<1>. QED
  BY <1>4 DEF SessionStep

\* Storing moves a sign-in from the request to a row.
LEMMA StoreSession ==
  ASSUME TypeOK, NEW r \in Requests, Store(r)
  PROVE  SessionStep
<1>1. req[r].at = "store" /\ req[r].token \in Token /\ req[r].login \in Logins /\ begun' = begun
  BY DEF Store, TypeOK, RequestOK, Holds
<1>2. CASE UNCHANGED stored
  BY <1>1, <1>2, FinishSession DEF Store, Valid
<1>3. CASE stored' # stored
  <2>1. PICK t \in Token, l \in Logins : t = req[r].token /\ l = req[r].login
    BY <1>1
  <2>2. PICK row : row = [login |-> l, expires |-> now + RefreshTTL]
    OBVIOUS
  <2>3. stored' = [stored EXCEPT ![t] = row] /\ row.login = l
    BY <1>3, <2>1, <2>2 DEF Store
  <2>4. \A k \in Logins \ {l} : RowsOf(k)' \subseteq RowsOf(k)
    BY <2>3 DEF RowsOf, Valid, TypeOK
  <2>5. RowsOf(l)' \subseteq RowsOf(l) \cup {t}
    BY <2>3 DEF RowsOf, Valid, TypeOK
  <2>6. req' = [req EXCEPT ![r] = Idle] /\ ~Holds(Idle)
    BY DEF Store, Finish, Holds, Idle
  <2>7. \A k \in Logins : IssuesOf(k)' \subseteq IssuesOf(k)
    BY <2>6, IssuesShrink
  <2>8. r \notin IssuesOf(l)' /\ r \in IssuesOf(l)
    BY <1>1, <2>1, <2>6 DEF IssuesOf, Holds, TypeOK
  <2>9. Stores(r, l, t)
    BY <2>4, <2>5, <2>7, <2>8 DEF Stores, OthersShrink, Shrinks
  <2>. QED
    BY <1>1, <2>9 DEF SessionStep
<1>. QED
  BY <1>2, <1>3

\* Taking the old token moves a sign-in from the row to the request.
LEMMA DeleteSession ==
  ASSUME TypeOK, NEW r \in Requests, DeleteToken(r)
  PROVE  SessionStep
<1>1. req[r].at = "deleteToken" /\ req[r].token \in Token /\ begun' = begun
  BY DEF DeleteToken, TypeOK, RequestOK
<1>2. CASE ~Valid(req[r].token)
  BY <1>1, <1>2, FinishSession DEF DeleteToken, Valid
<1>3. CASE Valid(req[r].token)
  <2>1. PICK t \in Token, l \in Logins : t = req[r].token /\ l = stored[t].login
    BY <1>1, <1>3 DEF TypeOK, Valid, Row
  <2>2. stored' = [stored EXCEPT ![t] = None]
    BY <1>3, <2>1 DEF DeleteToken
  <2>3. PICK q : q = [req[r] EXCEPT !.at = "sign", !.login = l]
    OBVIOUS
  <2>4. req' = [req EXCEPT ![r] = q] /\ q.login = l
    <3>1. req[r] \in Request
      BY DEF TypeOK
    <3>. QED
      BY <1>3, <2>1, <2>3, <3>1 DEF DeleteToken, Request
  <2>5. \A k \in Logins : RowsOf(k)' \subseteq RowsOf(k) \ {t}
    BY <2>2 DEF RowsOf, Valid, TypeOK
  <2>6. ASSUME NEW k \in Logins \ {l} PROVE IssuesOf(k)' \subseteq IssuesOf(k)
    <3>1. Holds(q) => q.login # k \/ (Holds(req[r]) /\ req[r].login = k)
      BY <2>4
    <3>. QED
      BY <2>4, <3>1, IssuesShrink
  <2>7. IssuesOf(l)' \subseteq IssuesOf(l) \cup {r}
    BY <2>4, IssuesGrow
  <2>8. t \in RowsOf(l)
    BY <1>3, <2>1 DEF RowsOf
  <2>9. Takes(r, l, t)
    BY <2>5, <2>6, <2>7, <2>8 DEF Takes, OthersShrink, Shrinks
  <2>. QED
    BY <1>1, <2>9 DEF SessionStep
<1>. QED
  BY <1>2, <1>3

\* A request's step is one of the four kinds.
LEMMA RequestSession ==
  ASSUME TypeOK, NEW r \in Requests, RequestStep(r)
  PROVE  SessionStep
<1>0. /\ stored' = stored => \A t \in Token : Valid(t)' => Valid(t) /\ stored'[t] = stored[t]
      /\ req[r] \in Request
  BY DEF Valid, TypeOK
<1>1. CASE BeginRegister(r)
  <2>1. PICK u \in Users, l \in Logins \ begun :
          /\ req' = [req EXCEPT ![r] = [op |-> "register", at |-> "createUser", user |-> u,
                      role |-> None, read |-> 0, token |-> None, login |-> l]]
          /\ begun' = begun \cup {l} /\ stored' = stored
    BY <1>1 DEF BeginRegister
  <2>2. PICK q : q = [op |-> "register", at |-> "createUser", user |-> u,
                      role |-> None, read |-> 0, token |-> None, login |-> l]
    OBVIOUS
  <2>3. req' = [req EXCEPT ![r] = q] /\ q.login = l
    BY <2>1, <2>2
  <2>. QED
    BY <2>1, <2>3, BeginSession
<1>2. CASE BeginLogin(r)
  <2>1. PICK u \in Users, l \in Logins \ begun :
          /\ req' = [req EXCEPT ![r] = [op |-> "login", at |-> "sign", user |-> u, role |-> account[u],
                      read |-> now, token |-> None, login |-> l]]
          /\ begun' = begun \cup {l} /\ stored' = stored
    BY <1>2 DEF BeginLogin
  <2>2. PICK q : q = [op |-> "login", at |-> "sign", user |-> u, role |-> account[u],
                      read |-> now, token |-> None, login |-> l]
    OBVIOUS
  <2>3. req' = [req EXCEPT ![r] = q] /\ q.login = l
    BY <2>1, <2>2
  <2>. QED
    BY <2>1, <2>3, BeginSession
<1>3. CASE CreateUser(r)
  <2>1. CASE account[req[r].user] = None
    <3>1. PICK q : q = [req[r] EXCEPT !.at = "sign", !.role = "USER", !.read = now]
      OBVIOUS
    <3>2. req' = [req EXCEPT ![r] = q] /\ q.login = req[r].login /\ Holds(req[r])
      BY <1>0, <1>3, <2>1, <3>1 DEF CreateUser, Request, Holds
    <3>. QED
      BY <1>0, <1>3, <3>2, QuietSession DEF CreateUser
  <2>2. CASE account[req[r].user] # None
    BY <1>0, <1>3, <2>2, FinishSession DEF CreateUser
  <2>. QED
    BY <2>1, <2>2
<1>4. CASE Sign(r)
  <2>1. PICK q : q = [req[r] EXCEPT !.at = "store",
                        !.token = [user |-> req[r].user, role |-> req[r].role, iat |-> now]]
    OBVIOUS
  <2>2. req' = [req EXCEPT ![r] = q] /\ q.login = req[r].login /\ Holds(req[r])
    BY <1>0, <1>4, <2>1 DEF Sign, Request, Holds
  <2>. QED
    BY <1>0, <1>4, <2>2, QuietSession DEF Sign, tables
<1>5. CASE Store(r)
  BY <1>5, StoreSession
<1>6. CASE BeginRefresh(r)
  <2>1. PICK t \in Token :
          req' = [req EXCEPT ![r] = [op |-> "refresh", at |-> "readUser", user |-> t.user, role |-> None,
                      read |-> 0, token |-> t, login |-> stored[t].login]]
    BY <1>6 DEF BeginRefresh
  <2>. QED
    BY <1>0, <1>6, <2>1, QuietSession DEF BeginRefresh, tables, Holds
<1>7. CASE ReadUser(r)
  <2>1. CASE Exists(req[r].user)
    <3>1. PICK q : q = [req[r] EXCEPT !.at = "deleteToken", !.role = account[req[r].user], !.read = now]
      OBVIOUS
    <3>2. req' = [req EXCEPT ![r] = q] /\ ~Holds(q)
      BY <1>0, <1>7, <2>1, <3>1 DEF ReadUser, Request, Holds
    <3>. QED
      BY <1>0, <1>7, <3>2, QuietSession DEF ReadUser, tables
  <2>2. CASE ~Exists(req[r].user)
    BY <1>0, <1>7, <2>2, FinishSession DEF ReadUser, tables
  <2>. QED
    BY <2>1, <2>2
<1>8. CASE DeleteToken(r)
  BY <1>8, DeleteSession
<1>9. CASE BeginDelete(r)
  <2>1. PICK u \in Users :
          req' = [req EXCEPT ![r] = [op |-> "delete", at |-> "dropTokens", user |-> u, role |-> None,
                                    read |-> 0, token |-> None, login |-> None]]
    BY <1>9 DEF BeginDelete
  <2>. QED
    BY <1>0, <1>9, <2>1, QuietSession DEF BeginDelete, tables, Holds
<1>10. CASE DropTokens(r)
  <2>1. PICK q : q = [req[r] EXCEPT !.at = "dropUser"]
    OBVIOUS
  <2>2. req' = [req EXCEPT ![r] = q] /\ ~Holds(q)
    BY <1>0, <1>10, <2>1 DEF DropTokens, Goto, Request, Holds
  <2>3. \A t \in Token : Valid(t)' => Valid(t) /\ stored'[t] = stored[t]
    BY <1>10 DEF DropTokens, Valid
  <2>. QED
    BY <1>10, <2>2, <2>3, QuietSession DEF DropTokens
<1>11. CASE DropUser(r)
  BY <1>0, <1>11, FinishSession DEF DropUser
<1>. QED
  BY <1>1, <1>2, <1>3, <1>4, <1>5, <1>6, <1>7, <1>8, <1>9, <1>10, <1>11 DEF RequestStep

\* The steps that are no request's, and stuttering, only end sessions.
LEMMA OtherSession ==
  ASSUME TypeOK, OtherStep \/ UNCHANGED vars
  PROVE  SessionStep
<1>1. /\ \A t \in Token : Valid(t)' => Valid(t) /\ stored'[t] = stored[t]
      /\ begun' = begun
      /\ \A x \in Requests : req'[x] = req[x] \/ req'[x] = Idle
  BY DEF OtherStep, Logout, CreateTenantAdmin, ChangeRole, Tick, Crash, vars, tables, Valid, TypeOK
<1>2. ~Holds(Idle)
  BY DEF Holds, Idle
<1>3. \A l \in Logins : RowsOf(l)' \subseteq RowsOf(l)
  BY <1>1, RowsShrink
<1>4. \A l \in Logins : IssuesOf(l)' \subseteq IssuesOf(l)
  BY <1>1, <1>2 DEF IssuesOf
<1>. QED
  BY <1>1, <1>3, <1>4 DEF SessionStep, Shrinks

(***************************************************************************)
(* Accounts and roles.                                                     *)
(***************************************************************************)
\* What a step does to the accounts: no account vanishes under a token, and a
\* change is noted.
AccountsStep ==
  /\ now \in Nat /\ now' \in Nat /\ now <= now'
  /\ \A u \in Users :
       /\ account[u] # None => account'[u] # None
       /\ \/ account'[u] = account[u] /\ changed'[u] = changed[u]
          \/ account[u] = None /\ changed'[u] = changed[u]
          \/ changed'[u] = now
       /\ Exists(u) => Exists(u)' \/ ~Restricted(u)

\* Every step is one.
LEMMA Accounts ==
  ASSUME TypeOK, Next \/ UNCHANGED vars
  PROVE  AccountsStep
<1>. USE AuthAssumption
<1>0. now \in Nat /\ (now' = now => now' \in Nat /\ now <= now')
  BY DEF TypeOK, Seconds
<1>1. CASE UNCHANGED <<account, changed, now>>
  BY <1>0, <1>1 DEF AccountsStep, Exists
<1>2. ASSUME NEW r \in Requests, CreateUser(r) PROVE AccountsStep
  <2>1. req[r].user \in Users
    BY <1>2 DEF CreateUser, TypeOK, RequestOK
  <2>2. account' = account \/ (account[req[r].user] = None /\ account' = [account EXCEPT ![req[r].user] = "USER"])
    BY <1>2 DEF CreateUser
  <2>. QED
    BY <1>0, <1>2, <2>1, <2>2 DEF CreateUser, AccountsStep, Exists, TypeOK, Roles
<1>3. ASSUME NEW r \in Requests, DropUser(r) PROVE AccountsStep
  <2>1. req[r].user \in Users
    BY <1>3 DEF DropUser, TypeOK, RequestOK
  <2>. QED
    BY <1>0, <1>3, <2>1 DEF DropUser, AccountsStep, Exists, TypeOK
<1>4. ASSUME NEW u \in Users, CreateTenantAdmin(u) PROVE AccountsStep
  BY <1>0, <1>4 DEF CreateTenantAdmin, AccountsStep, Exists, TypeOK, Roles
<1>5. ASSUME NEW a \in access, NEW u \in Users, NEW role \in Roles, ChangeRole(a, u, role)
      PROVE  AccountsStep
  BY <1>0, <1>5 DEF ChangeRole, AccountsStep, Exists, TypeOK
<1>6. CASE Tick
  BY <1>0, <1>6 DEF Tick, AccountsStep, Exists
<1>7. Next => \/ UNCHANGED <<account, changed, now>>
              \/ \E r \in Requests : CreateUser(r) \/ DropUser(r)
              \/ \E u \in Users : CreateTenantAdmin(u)
              \/ \E a \in access, u \in Users, role \in Roles : ChangeRole(a, u, role)
              \/ Tick
  BY DEF Next, BeginRegister, BeginLogin, Sign, Store, BeginRefresh, ReadUser, DeleteToken,
         BeginDelete, DropTokens, Logout, Crash, tables
<1>8. UNCHANGED vars => UNCHANGED <<account, changed, now>>
  BY DEF vars
<1>. QED
  BY <1>1, <1>2, <1>3, <1>4, <1>5, <1>6, <1>7, <1>8

\* What was read of an account stays explained.
LEMMA HasStays ==
  ASSUME AccountsStep, TypeOK, NEW u \in Users, NEW role, NEW read \in Seconds, Has(u, role, read)
  PROVE  account'[u] # None /\ read <= now' /\ (account'[u] # role => changed'[u] >= read)
BY AuthAssumption DEF AccountsStep, Has, Seconds

\* A request has the role it had, or has just read it.
Reads(r) ==
  HasRole(req'[r]) =>
    \/ /\ HasRole(req[r])
       /\ req'[r].user = req[r].user /\ req'[r].role = req[r].role /\ req'[r].read = req[r].read
    \/ /\ req'[r].user \in Users /\ account'[req'[r].user] \in Roles
       /\ req'[r].role = account'[req'[r].user] /\ req'[r].read = now /\ now' = now

LEMMA RequestReads ==
  ASSUME TypeOK, NEW r \in Requests, RequestStep(r)
  PROVE  Reads(r)
<1>0. req[r] \in Request /\ RequestOK(req[r]) /\ ~HasRole(Idle)
  BY DEF TypeOK, HasRole, Idle
<1>1. CASE BeginRegister(r) \/ BeginRefresh(r) \/ BeginDelete(r)
  BY <1>1 DEF BeginRegister, BeginRefresh, BeginDelete, Reads, HasRole, TypeOK
<1>2. CASE BeginLogin(r)
  <2>1. PICK u \in Users, l \in Logins \ begun :
          /\ Exists(u)
          /\ req' = [req EXCEPT ![r] = [op |-> "login", at |-> "sign", user |-> u, role |-> account[u],
                      read |-> now, token |-> None, login |-> l]]
    BY <1>2 DEF BeginLogin
  <2>2. req'[r].user = u /\ req'[r].role = account[u] /\ req'[r].read = now
    BY <2>1 DEF TypeOK
  <2>. QED
    BY <1>2, <2>1, <2>2 DEF BeginLogin, Reads, Exists
<1>3. CASE CreateUser(r)
  <2>1. CASE account[req[r].user] = None
    <3>1. req' = [req EXCEPT ![r] = [req[r] EXCEPT !.at = "sign", !.role = "USER", !.read = now]]
      BY <1>3, <2>1 DEF CreateUser, TypeOK
    <3>2. req'[r].user = req[r].user /\ req'[r].role = "USER" /\ req'[r].read = now
      BY <1>0, <3>1 DEF TypeOK, Request
    <3>3. req[r].user \in Users
      BY <1>0, <1>3 DEF CreateUser, RequestOK
    <3>4. account' = [account EXCEPT ![req[r].user] = "USER"] /\ now' = now
      BY <1>3, <2>1 DEF CreateUser
    <3>. QED
      BY <3>2, <3>3, <3>4 DEF Reads, TypeOK, Roles
  <2>2. CASE account[req[r].user] # None
    BY <1>0, <1>3, <2>2 DEF CreateUser, Finish, Reads, TypeOK
  <2>. QED
    BY <2>1, <2>2
<1>4. CASE Sign(r)
  <2>1. req' = [req EXCEPT ![r] = [req[r] EXCEPT !.at = "store",
                 !.token = [user |-> req[r].user, role |-> req[r].role, iat |-> now]]]
    BY <1>4 DEF Sign, TypeOK
  <2>2. req'[r].user = req[r].user /\ req'[r].role = req[r].role /\ req'[r].read = req[r].read
    BY <1>0, <2>1 DEF TypeOK, Request
  <2>. QED
    BY <1>4, <2>2 DEF Sign, Reads, HasRole
<1>5. CASE Store(r) \/ DropUser(r)
  BY <1>0, <1>5 DEF Store, DropUser, Finish, Reads, TypeOK
<1>6. CASE ReadUser(r)
  <2>1. CASE Exists(req[r].user)
    <3>1. req' = [req EXCEPT ![r] = [req[r] EXCEPT !.at = "deleteToken",
                   !.role = account[req[r].user], !.read = now]]
      BY <1>6, <2>1 DEF ReadUser, TypeOK
    <3>2. req'[r].user = req[r].user /\ req'[r].role = account[req[r].user] /\ req'[r].read = now
      BY <1>0, <3>1 DEF TypeOK, Request
    <3>3. req[r].user \in Users
      BY <1>0, <1>6 DEF ReadUser, RequestOK
    <3>. QED
      BY <1>6, <2>1, <3>2, <3>3 DEF ReadUser, Reads, Exists, tables
  <2>2. CASE ~Exists(req[r].user)
    BY <1>0, <1>6, <2>2 DEF ReadUser, Finish, Reads, TypeOK
  <2>. QED
    BY <2>1, <2>2
<1>7. CASE DeleteToken(r)
  <2>1. CASE Valid(req[r].token)
    <3>1. req' = [req EXCEPT ![r] = [req[r] EXCEPT !.at = "sign", !.login = stored[req[r].token].login]]
      BY <1>7, <2>1 DEF DeleteToken, TypeOK
    <3>2. req'[r].user = req[r].user /\ req'[r].role = req[r].role /\ req'[r].read = req[r].read
      BY <1>0, <3>1 DEF TypeOK, Request
    <3>. QED
      BY <1>7, <3>2 DEF DeleteToken, Reads, HasRole
  <2>2. CASE ~Valid(req[r].token)
    BY <1>0, <1>7, <2>2 DEF DeleteToken, Finish, Reads, TypeOK
  <2>. QED
    BY <2>1, <2>2
<1>8. CASE DropTokens(r)
  <2>1. req'[r].at = "dropUser"
    BY <1>0, <1>8 DEF DropTokens, Goto, TypeOK, Request
  <2>. QED
    BY <2>1 DEF Reads, HasRole
<1>. QED
  BY <1>1, <1>2, <1>3, <1>4, <1>5, <1>6, <1>7, <1>8 DEF RequestStep

\* A token handed out has the role of the request that had it.
LEMMA Handed ==
  ASSUME TypeOK, Next \/ UNCHANGED vars, NEW a \in access'
  PROVE  \/ a \in access
         \/ \E r \in Requests : /\ HasRole(req[r]) /\ a.user = req[r].user
                                /\ a.role = req[r].role /\ a.read = req[r].read
<1>1. ASSUME NEW r \in Requests, Store(r), a \notin access
      PROVE  HasRole(req[r]) /\ a.user = req[r].user /\ a.role = req[r].role /\ a.read = req[r].read
  <2>1. req[r].at = "store" /\ RequestOK(req[r])
    BY <1>1 DEF Store, TypeOK
  <2>2. a = [user |-> req[r].token.user, role |-> req[r].token.role,
             until |-> req[r].token.iat + AccessTTL, read |-> req[r].read]
    BY <1>1 DEF Store
  <2>. QED
    BY <2>1, <2>2 DEF HasRole, RequestOK
<1>2. \/ access' \subseteq access \/ \E r \in Requests : Store(r)
  BY DEF Next, BeginRegister, CreateUser, BeginLogin, Sign, BeginRefresh, ReadUser, DeleteToken,
         BeginDelete, DropTokens, DropUser, Logout, CreateTenantAdmin, ChangeRole, Tick, Crash, tables, vars
<1>. QED
  BY <1>1, <1>2

\* A step keeps every role explained.
LEMMA RoleKept ==
  ASSUME TypeOK, TypeOK', RoleWasRead, Next \/ UNCHANGED vars
  PROVE  RoleWasRead'
<1>. USE AuthAssumption
<1>1. AccountsStep
  BY Accounts
<1>2. ASSUME NEW r \in Requests, HasRole(req[r])
      PROVE  /\ req[r].user \in Users /\ req[r].read \in Seconds
             /\ Has(req[r].user, req[r].role, req[r].read)
  BY <1>2 DEF RoleWasRead, TypeOK, RequestOK, HasRole, Request
<1>3. ASSUME NEW a \in access'
      PROVE  account'[a.user] # None /\ a.read <= now' /\ (account'[a.user] # a.role => changed'[a.user] >= a.read)
  <2>1. CASE a \in access
    <3>1. a.user \in Users /\ a.read \in Seconds /\ Has(a.user, a.role, a.read)
      BY <2>1 DEF RoleWasRead, TypeOK, Access
    <3>. QED
      BY <1>1, <3>1, HasStays
  <2>2. CASE a \notin access
    <3>1. PICK r \in Requests : /\ HasRole(req[r]) /\ a.user = req[r].user
                                /\ a.role = req[r].role /\ a.read = req[r].read
      BY <2>2, Handed
    <3>2. a.user \in Users /\ a.read \in Seconds /\ Has(a.user, a.role, a.read)
      BY <1>2, <3>1
    <3>. QED
      BY <1>1, <3>2, HasStays
  <2>. QED
    BY <2>1, <2>2
<1>4. ASSUME NEW r \in Requests, HasRole(req'[r])
      PROVE  /\ account'[req'[r].user] # None /\ req'[r].read <= now'
             /\ account'[req'[r].user] # req'[r].role => changed'[req'[r].user] >= req'[r].read
  <2>1. Reads(r) \/ req'[r] = req[r] \/ req'[r] = Idle
    <3>1. ASSUME NEW x \in Requests, RequestStep(x) PROVE Reads(r) \/ req'[r] = req[r]
      <4>1. x # r => req'[r] = req[r]
        BY <3>1 DEF RequestStep, BeginRegister, CreateUser, BeginLogin, Sign, Store, BeginRefresh, ReadUser,
                    DeleteToken, BeginDelete, DropTokens, DropUser, Finish, Goto, TypeOK
      <4>. QED
        BY <3>1, <4>1, RequestReads
    <3>2. OtherStep \/ UNCHANGED vars => req'[r] = req[r] \/ req'[r] = Idle
      BY DEF OtherStep, Logout, CreateTenantAdmin, ChangeRole, Tick, Crash, vars
    <3>3. Next => OtherStep \/ \E x \in Requests : RequestStep(x)
      BY DEF Next, OtherStep, RequestStep
    <3>. QED
      BY <3>1, <3>2, <3>3
  <2>2. CASE HasRole(req[r]) /\ req'[r].user = req[r].user /\ req'[r].role = req[r].role
                            /\ req'[r].read = req[r].read
    BY <1>1, <1>2, <2>2, HasStays
  <2>3. CASE /\ req'[r].user \in Users /\ account'[req'[r].user] \in Roles
             /\ req'[r].role = account'[req'[r].user] /\ req'[r].read = now /\ now' = now
    <3>1. now' <= now' /\ account'[req'[r].user] # None
      BY <1>1, <2>3 DEF AccountsStep
    <3>. QED
      BY <2>3, <3>1
  <2>4. ~HasRole(Idle)
    BY DEF HasRole, Idle
  <2>. QED
    BY <1>4, <2>1, <2>2, <2>3, <2>4 DEF Reads
<1>. QED
  BY <1>3, <1>4 DEF RoleWasRead, Has

\* No step leaves a token without its account.
LEMMA AccountKept ==
  ASSUME TypeOK, OneSession, Next \/ UNCHANGED vars, NEW t \in Token, Valid(t)'
  PROVE  Exists(t.user)'
<1>1. AccountsStep /\ t.user \in Users
  BY Accounts DEF Token
<1>2. CASE Valid(t)
  <2>1. Exists(t.user) /\ Restricted(t.user)
    BY <1>2 DEF OneSession, Restricted
  <2>. QED
    BY <1>1, <2>1 DEF AccountsStep
<1>3. CASE ~Valid(t)
  <2>1. ASSUME NEW r \in Requests, Store(r) PROVE Exists(t.user)'
    BY <1>3, <2>1 DEF Store, Valid, Exists, TypeOK
  <2>2. (\E r \in Requests : Store(r)) \/ \A k \in Token : Valid(k)' => Valid(k)
    BY DEF Next, BeginRegister, CreateUser, BeginLogin, Sign, BeginRefresh, ReadUser, DeleteToken,
           BeginDelete, DropTokens, DropUser, Logout, CreateTenantAdmin, ChangeRole, Tick, Crash,
           tables, vars, Valid, TypeOK
  <2>. QED
    BY <1>3, <2>1, <2>2
<1>. QED
  BY <1>2, <1>3

(***************************************************************************)
(* The theorems.                                                           *)
(***************************************************************************)
LEMMA InitAuth == Init => AuthInv
<1> SUFFICES ASSUME Init PROVE AuthInv
  OBVIOUS
<1>. USE AuthAssumption
<1>1. TypeOK
  BY IdleOK DEF Init, TypeOK, Seconds
<1>2. \A l \in Logins : RowsOf(l) = {} /\ IssuesOf(l) = {}
  BY DEF Init, RowsOf, Valid, IssuesOf, Holds, Idle
<1>3. OneSession
  BY <1>2 DEF OneSession, Single, Init, Valid
<1>4. RoleWasRead
  BY DEF Init, RoleWasRead, HasRole, Idle
<1>. QED
  BY <1>1, <1>3, <1>4 DEF AuthInv

LEMMA NextSession == TypeOK /\ (Next \/ UNCHANGED vars) => SessionStep
<1>1. Next => OtherStep \/ \E x \in Requests : RequestStep(x)
  BY DEF Next, OtherStep, RequestStep
<1>. QED
  BY <1>1, RequestSession, OtherSession

LEMMA NextAuth == AuthInv /\ [Next]_vars => AuthInv'
<1> SUFFICES ASSUME TypeOK, OneSession, RoleWasRead, Next \/ UNCHANGED vars PROVE AuthInv'
  BY DEF AuthInv
<1>1. TypeOK'
  <2>1. CASE UNCHANGED vars
    BY <2>1 DEF vars, TypeOK, RequestOK
  <2>2. ASSUME NEW r \in Requests, RequestStep(r) PROVE TypeOK'
    BY <2>2, ReadersTyped, WritersTyped DEF RequestStep
  <2>3. Next => OtherStep \/ \E x \in Requests : RequestStep(x)
    BY DEF Next, OtherStep, RequestStep
  <2>. QED
    BY <2>1, <2>2, <2>3, OthersTyped
<1>2. OneSession'
  <2>1. \A l \in Logins : Single(l)'
    BY NextSession, SessionKept
  <2>. QED
    BY <2>1, AccountKept DEF OneSession
<1>3. RoleWasRead'
  BY <1>1, RoleKept
<1>. QED
  BY <1>1, <1>2, <1>3 DEF AuthInv

\* Types, sessions and roles are inductive together: taking a token gives a
\* request the sign-in of its row, which OneSession knows to have begun.
THEOREM AuthInductive == Spec => []AuthInv
BY InitAuth, NextAuth, PTL DEF Spec

\* The tables and requests of AuthService and UsersService stay typed.
THEOREM AuthTyped == Spec => []TypeOK
BY AuthInductive, PTL DEF AuthInv

\* However many refreshes, logins, logouts and deletions interleave, a sign-in
\* has one session, and no account goes under its refresh tokens.
THEOREM OneSessionEach == Spec => []OneSession
BY AuthInductive, PTL DEF AuthInv

\* A change of role or a deletion reaches every access token but those of
\* requests that had read the account before it.
THEOREM RolesAreRead == Spec => []RoleWasRead
BY AuthInductive, PTL DEF AuthInv

\* A logout ends its sign-in, and nothing starts an ended one again.
THEOREM LogoutEnds == Spec => LogoutIsFinal
<1>1. ASSUME AuthInv, Next \/ UNCHANGED vars, NEW l \in Logins,
             Ended(l) \/ (\E t \in RowsOf(l) : Logout(t))
      PROVE  Ended(l)'
  <2>1. CASE Ended(l)
    BY <1>1, <2>1, NextSession, SessionKept DEF AuthInv
  <2>2. ASSUME NEW t \in RowsOf(l), Logout(t) PROVE Ended(l)'
    <3>1. Single(l)
      BY <1>1 DEF AuthInv, OneSession
    <3>2. RowsOf(l)' = {}
      BY <1>1, <2>2, <3>1 DEF Single, Logout, RowsOf, Valid, AuthInv, TypeOK
    <3>3. IssuesOf(l)' = {}
      BY <2>2, <3>1 DEF Single, Logout, IssuesOf
    <3>. QED
      BY <2>2, <3>1, <3>2, <3>3 DEF Single, Logout, Ended
  <2>. QED
    BY <1>1, <2>1, <2>2
<1>2. AuthInv /\ [Next]_vars =>
        [\A l \in Logins : Ended(l) \/ (\E t \in RowsOf(l) : Logout(t)) => Ended(l)']_vars
  BY <1>1
<1>. QED
  BY <1>2, AuthInductive, PTL DEF Spec, LogoutIsFinal

(***************************************************************************)
(* What sessions are to their clients: the refinement of SessionLife.      *)
(***************************************************************************)
\* A sign-in none of whose rows and requests a step touches.
Untouched(l) ==
  /\ (l \in begun') = (l \in begun)
  /\ RowsOf(l)' = RowsOf(l) /\ IssuesOf(l)' = IssuesOf(l)
  /\ \A r \in IssuesOf(l) : req'[r].user = req[r].user

LEMMA UntouchedStays ==
  ASSUME NEW l \in Logins, Untouched(l)
  PROVE  Life'[l] = Life[l] /\ Whose'[l] = Whose[l]
<1>1. AccountsOf(l)' = AccountsOf(l)
  BY DEF Untouched, AccountsOf
<1>2. StageOf(l)' = StageOf(l)
  BY DEF Untouched, StageOf
<1>. QED
  BY <1>1, <1>2 DEF Life, Whose

\* A step that touches one sign-in.
LEMMA OneTouched ==
  ASSUME NEW l \in Logins, NEW stage, NEW accounts,
         \A k \in Logins \ {l} : Untouched(k),
         StageOf(l)' = stage, AccountsOf(l)' = accounts
  PROVE  Client!Becomes(l, stage, accounts)
<1>1. \A k \in Logins \ {l} : Life'[k] = Life[k] /\ Whose'[k] = Whose[k]
  BY UntouchedStays
<1>2. Life'[l] = stage /\ Whose'[l] = accounts
  BY DEF Life, Whose
<1>3. /\ Life = [k \in Logins |-> Life[k]] /\ Life' = [k \in Logins |-> Life'[k]]
      /\ Whose = [k \in Logins |-> Whose[k]] /\ Whose' = [k \in Logins |-> Whose'[k]]
  BY DEF Life, Whose
<1>4. Life' = [Life EXCEPT ![l] = stage]
  BY <1>1, <1>2, <1>3
<1>5. Whose' = [Whose EXCEPT ![l] = accounts]
  BY <1>1, <1>2, <1>3
<1>. QED
  BY <1>4, <1>5 DEF Client!Becomes

\* A step that touches none.
LEMMA NoneTouched ==
  ASSUME \A k \in Logins : Untouched(k)
  PROVE  UNCHANGED <<Life, Whose>>
<1>1. \A k \in Logins : Life'[k] = Life[k] /\ Whose'[k] = Whose[k]
  BY UntouchedStays
<1>. QED
  BY <1>1 DEF Life, Whose

\* What a slot is to hold, the sign-ins see.
LEMMA SlotGains ==
  ASSUME TypeOK, NEW r \in Requests, NEW q, req' = [req EXCEPT ![r] = q], NEW l \in Logins,
         Holds(q), q.login = l
  PROVE  IssuesOf(l)' = IssuesOf(l) \cup {r}
BY DEF IssuesOf, TypeOK

LEMMA SlotLoses ==
  ASSUME TypeOK, NEW r \in Requests, NEW q, req' = [req EXCEPT ![r] = q], NEW l \in Logins,
         ~(Holds(q) /\ q.login = l)
  PROVE  IssuesOf(l)' = IssuesOf(l) \ {r}
BY DEF IssuesOf, TypeOK

LEMMA OtherSlots ==
  ASSUME TypeOK, NEW r \in Requests, NEW q, req' = [req EXCEPT ![r] = q], NEW x \in Requests \ {r}
  PROVE  req'[x] = req[x]
BY DEF TypeOK

\* Where a slot goes on with the sign-in and the account it holds, or holds none.
LEMMA SlotUntouched ==
  ASSUME TypeOK, NEW r \in Requests, NEW q, req' = [req EXCEPT ![r] = q], NEW l \in Logins,
         Holds(q) /\ q.login = l <=> Holds(req[r]) /\ req[r].login = l,
         Holds(q) /\ q.login = l => q.user = req[r].user,
         RowsOf(l)' = RowsOf(l), (l \in begun') = (l \in begun)
  PROVE  Untouched(l)
<1>1. r \in IssuesOf(l) <=> Holds(q) /\ q.login = l
  BY DEF IssuesOf
<1>2. IssuesOf(l)' = IssuesOf(l)
  <2>1. CASE Holds(q) /\ q.login = l
    <3>1. IssuesOf(l)' = IssuesOf(l) \cup {r}
      BY <2>1, SlotGains
    <3>. QED
      BY <1>1, <2>1, <3>1
  <2>2. CASE ~(Holds(q) /\ q.login = l)
    <3>1. IssuesOf(l)' = IssuesOf(l) \ {r}
      BY <2>2, SlotLoses
    <3>. QED
      BY <1>1, <2>2, <3>1
  <2>. QED
    BY <2>1, <2>2
<1>3. ASSUME NEW x \in IssuesOf(l) PROVE req'[x].user = req[x].user
  <2>1. CASE x = r
    BY <1>1, <1>3, <2>1 DEF TypeOK
  <2>2. CASE x # r
    BY <1>3, <2>2, OtherSlots DEF IssuesOf
  <2>. QED
    BY <2>1, <2>2
<1>. QED
  BY <1>2, <1>3 DEF Untouched

\* A register or login is a sign-in that was not there.
LEMMA BeginRefines ==
  ASSUME AuthInv, NEW r \in Requests, NEW l \in Logins \ begun, NEW u \in Users, NEW q,
         req' = [req EXCEPT ![r] = q], q.login = l, q.user = u, Holds(q), ~Holds(req[r]),
         begun' = begun \cup {l}, stored' = stored
  PROVE  Client!SignIn(l, u)
<1>. USE DEF AuthInv
<1>1. RowsOf(l) = {} /\ IssuesOf(l) = {}
  BY DEF OneSession, Single, TypeOK, RequestOK, IssuesOf
<1>2. \A k \in Logins : RowsOf(k)' = RowsOf(k)
  BY DEF RowsOf, Valid
<1>3. IssuesOf(l)' = {r}
  <2>1. IssuesOf(l)' = IssuesOf(l) \cup {r}
    BY SlotGains
  <2>. QED
    BY <1>1, <2>1
<1>4. req'[r].user = u
  BY DEF TypeOK
<1>5. StageOf(l)' = "pending" /\ AccountsOf(l)' = {u}
  BY <1>1, <1>2, <1>3, <1>4 DEF StageOf, AccountsOf
<1>6. ASSUME NEW k \in Logins \ {l} PROVE Untouched(k)
  <2>1. RowsOf(k)' = RowsOf(k) /\ (k \in begun') = (k \in begun)
    BY <1>2
  <2>2. ~(Holds(q) /\ q.login = k) /\ ~(Holds(req[r]) /\ req[r].login = k)
    OBVIOUS
  <2>. QED
    BY <2>1, <2>2, SlotUntouched
<1>7. Life[l] = "new"
  BY DEF Life, StageOf
<1>. QED
  BY <1>5, <1>6, <1>7, OneTouched DEF Client!SignIn

\* A request that held a sign-in and ends, ends the sign-in.
LEMMA LoseRefines ==
  ASSUME AuthInv, NEW r \in Requests, Holds(req[r]), Finish(r), begun' = begun, stored' = stored
  PROVE  \E l \in Logins : Client!End(l)
<1>. USE DEF AuthInv
<1>1. PICK l \in Logins : l = req[r].login /\ l \in begun
  BY DEF TypeOK, RequestOK
<1>2. IssuesOf(l) = {r} /\ RowsOf(l) = {}
  BY <1>1 DEF OneSession, Single, IssuesOf
<1>3. req' = [req EXCEPT ![r] = Idle] /\ ~Holds(Idle)
  BY DEF Finish, Holds, Idle
<1>4. \A k \in Logins : RowsOf(k)' = RowsOf(k)
  BY DEF RowsOf, Valid
<1>5. IssuesOf(l)' = {}
  <2>1. IssuesOf(l)' = IssuesOf(l) \ {r}
    BY <1>3, SlotLoses
  <2>. QED
    BY <1>2, <2>1
<1>6. StageOf(l)' = "closed" /\ AccountsOf(l)' = {}
  BY <1>1, <1>2, <1>4, <1>5 DEF StageOf, AccountsOf
<1>7. \A k \in Logins \ {l} : Untouched(k)
  BY <1>1, <1>3, <1>4, SlotUntouched
<1>8. Life[l] = "pending"
  BY <1>1, <1>2 DEF Life, StageOf
<1>9. Client!Becomes(l, "closed", {})
  BY <1>6, <1>7, OneTouched
<1>. QED
  BY <1>8, <1>9 DEF Client!End

\* A stored token opens the sign-in the request held, for the account it held.
LEMMA StoreRefines ==
  ASSUME AuthInv, NEW r \in Requests, Store(r)
  PROVE  \E l \in Logins : Client!Grant(l) \/ Client!End(l)
<1>. USE DEF AuthInv
<1>1. /\ req[r].at = "store" /\ Holds(req[r]) /\ req[r].token \in Token
      /\ req[r].token.user = req[r].user
  BY DEF Store, TypeOK, RequestOK, Holds
<1>2. CASE UNCHANGED stored
  BY <1>1, <1>2, LoseRefines DEF Store
<1>3. CASE stored' # stored
  <2>1. PICK t \in Token, l \in Logins : t = req[r].token /\ l = req[r].login /\ l \in begun
    BY <1>1 DEF TypeOK, RequestOK
  <2>2. PICK row : row = [login |-> l, expires |-> now + RefreshTTL]
    OBVIOUS
  <2>3. stored' = [stored EXCEPT ![t] = row] /\ row.login = l /\ ~Valid(t) /\ row # None
    <3>1. row \in Row
      BY <2>1, <2>2, AuthAssumption DEF Row, TypeOK, Seconds
    <3>2. stored' = [stored EXCEPT ![t] = row] /\ row.login = l /\ ~Valid(t)
      BY <1>3, <2>1, <2>2 DEF Store
    <3>3. stored'[t] = row /\ begun' = begun
      BY <3>2 DEF Store, TypeOK
    <3>. QED
      BY <2>2, <3>1, <3>2, RowAssumption
  <2>4. IssuesOf(l) = {r} /\ RowsOf(l) = {}
    BY <1>1, <2>1 DEF OneSession, Single, IssuesOf
  <2>5. RowsOf(l)' = {t} /\ \A k \in Logins \ {l} : RowsOf(k)' = RowsOf(k)
    BY <2>3, <2>4 DEF RowsOf, Valid, TypeOK
  <2>6. req' = [req EXCEPT ![r] = Idle] /\ ~Holds(Idle) /\ begun' = begun
    BY DEF Store, Finish, Holds, Idle
  <2>7. IssuesOf(l)' = {}
    <3>1. IssuesOf(l)' = IssuesOf(l) \ {r}
      BY <2>6, SlotLoses
    <3>. QED
      BY <2>4, <3>1
  <2>8. \A k \in Logins \ {l} : Untouched(k)
    BY <2>1, <2>5, <2>6, SlotUntouched
  <2>9. Whose[l] = {t.user} /\ Life[l] = "pending"
    BY <1>1, <2>1, <2>4 DEF Whose, AccountsOf, Life, StageOf
  <2>10. StageOf(l)' = "open" /\ AccountsOf(l)' = {t.user}
    BY <2>1, <2>5, <2>6, <2>7 DEF StageOf, AccountsOf
  <2>11. Client!Becomes(l, "open", {t.user})
    BY <2>8, <2>10, OneTouched
  <2>. QED
    BY <2>9, <2>11 DEF Client!Grant
<1>. QED
  BY <1>2, <1>3

\* A token taken makes its sign-in, of the same account, the request's.
LEMMA TakeRefines ==
  ASSUME AuthInv, NEW r \in Requests, DeleteToken(r), Valid(req[r].token)
  PROVE  \E l \in Logins : Client!Renew(l)
<1>. USE DEF AuthInv
<1>1. /\ req[r].at = "deleteToken" /\ req[r].token \in Token /\ begun' = begun
      /\ req[r].token.user = req[r].user /\ ~Holds(req[r]) /\ req[r] \in Request
  BY DEF DeleteToken, TypeOK, RequestOK, Holds
<1>2. PICK t \in Token, l \in Logins : t = req[r].token /\ l = stored[t].login
  BY <1>1 DEF TypeOK, Valid, Row
<1>3. stored' = [stored EXCEPT ![t] = None]
  BY <1>2 DEF DeleteToken
<1>4. PICK q : q = [req[r] EXCEPT !.at = "sign", !.login = l]
  OBVIOUS
<1>5. req' = [req EXCEPT ![r] = q]
  BY <1>2, <1>4 DEF DeleteToken, TypeOK
<1>6. q.login = l /\ q.user = t.user /\ Holds(q)
  BY <1>1, <1>2, <1>4 DEF Request, Holds
<1>7. RowsOf(l) = {t} /\ IssuesOf(l) = {} /\ l \in begun
  BY <1>2 DEF OneSession, Single, RowsOf
<1>8. RowsOf(l)' = {} /\ \A k \in Logins \ {l} : RowsOf(k)' = RowsOf(k)
  BY <1>2, <1>3, <1>7 DEF RowsOf, Valid, TypeOK
<1>9. IssuesOf(l)' = {r} /\ req'[r].user = t.user
  <2>1. IssuesOf(l)' = IssuesOf(l) \cup {r}
    BY <1>5, <1>6, SlotGains
  <2>. QED
    BY <1>5, <1>6, <1>7, <2>1 DEF TypeOK
<1>10. \A k \in Logins \ {l} : Untouched(k)
  BY <1>1, <1>5, <1>6, <1>8, SlotUntouched
<1>11. Whose[l] = {t.user} /\ Life[l] = "open"
  BY <1>7 DEF Whose, AccountsOf, Life, StageOf
<1>12. StageOf(l)' = "pending" /\ AccountsOf(l)' = {t.user}
  BY <1>1, <1>7, <1>8, <1>9 DEF StageOf, AccountsOf
<1>13. Client!Becomes(l, "pending", {t.user})
  BY <1>10, <1>12, OneTouched
<1>. QED
  BY <1>11, <1>13 DEF Client!Renew

\* A logout ends the sign-in whose token it is.
LEMMA LogoutRefines ==
  ASSUME AuthInv, NEW t \in Token, Logout(t)
  PROVE  (\E l \in Logins : Client!End(l)) \/ UNCHANGED <<Life, Whose>>
<1>. USE DEF AuthInv
<1>1. stored' = [stored EXCEPT ![t] = None] /\ req' = req /\ begun' = begun
  BY DEF Logout
<1>2. \A k \in Logins : IssuesOf(k)' = IssuesOf(k)
  BY <1>1 DEF IssuesOf
<1>3. CASE ~Valid(t)
  <2>1. \A k \in Logins : RowsOf(k)' = RowsOf(k)
    BY <1>1, <1>3 DEF RowsOf, Valid, TypeOK
  <2>. QED
    BY <1>1, <1>2, <2>1, NoneTouched DEF Untouched
<1>4. CASE Valid(t)
  <2>1. PICK l \in Logins : l = stored[t].login
    BY <1>4 DEF TypeOK, Valid, Row
  <2>2. RowsOf(l) = {t} /\ IssuesOf(l) = {} /\ l \in begun
    BY <1>4, <2>1 DEF OneSession, Single, RowsOf
  <2>3. RowsOf(l)' = {} /\ \A k \in Logins \ {l} : RowsOf(k)' = RowsOf(k)
    BY <1>1, <2>1, <2>2 DEF RowsOf, Valid, TypeOK
  <2>4. \A k \in Logins \ {l} : Untouched(k)
    BY <1>1, <1>2, <2>3 DEF Untouched
  <2>5. StageOf(l)' = "closed" /\ AccountsOf(l)' = {}
    BY <1>1, <1>2, <2>2, <2>3 DEF StageOf, AccountsOf
  <2>6. Life[l] = "open"
    BY <2>2 DEF Life, StageOf
  <2>7. Client!Becomes(l, "closed", {})
    BY <2>4, <2>5, OneTouched
  <2>. QED
    BY <2>6, <2>7 DEF Client!End
<1>. QED
  BY <1>3, <1>4

\* Dropping the tokens of an account closes its open sign-ins and no other.
LEMMA DropRefines ==
  ASSUME AuthInv, NEW r \in Requests, DropTokens(r)
  PROVE  \E u \in Users : Client!Revoke(u)
<1>. USE DEF AuthInv
<1>1. PICK u \in Users : u = req[r].user
  BY DEF DropTokens, TypeOK, RequestOK
<1>2. stored' = [t \in Token |-> IF t.user = u THEN None ELSE stored[t]] /\ begun' = begun
  BY <1>1 DEF DropTokens
<1>3. PICK q : q = [req[r] EXCEPT !.at = "dropUser"]
  OBVIOUS
<1>4. req' = [req EXCEPT ![r] = q] /\ ~Holds(q) /\ ~Holds(req[r])
  <2>1. req[r] \in Request /\ req[r].at = "dropTokens"
    BY DEF DropTokens, TypeOK
  <2>. QED
    BY <1>3, <2>1 DEF DropTokens, Goto, Request, Holds
<1>5. \A l \in Logins : /\ IssuesOf(l)' = IssuesOf(l)
                        /\ \A x \in IssuesOf(l) : req'[x] = req[x]
  <2>1. ASSUME NEW l \in Logins PROVE IssuesOf(l)' = IssuesOf(l) /\ r \notin IssuesOf(l)
    <3>1. IssuesOf(l)' = IssuesOf(l) \ {r}
      BY <1>4, SlotLoses
    <3>. QED
      BY <1>4, <3>1 DEF IssuesOf
  <2>. QED
    BY <1>4, <2>1, OtherSlots DEF IssuesOf
<1>6. PICK S : S = {l \in Logins : Life[l] = "open" /\ Whose[l] = {u}}
  OBVIOUS
<1>7. ASSUME NEW l \in S PROVE l \in Logins /\ Life'[l] = "closed" /\ Whose'[l] = {}
  <2>1. l \in Logins /\ StageOf(l) = "open" /\ AccountsOf(l) = {u}
    BY <1>6, <1>7 DEF Life, Whose
  <2>2. RowsOf(l) # {} /\ l \in begun
    BY <2>1 DEF StageOf
  <2>3. IssuesOf(l) = {} /\ \A t \in RowsOf(l) : t.user = u
    BY <2>1, <2>2 DEF OneSession, Single, AccountsOf
  <2>4. RowsOf(l)' = {}
    BY <1>2, <2>3 DEF RowsOf, Valid
  <2>5. StageOf(l)' = "closed" /\ AccountsOf(l)' = {}
    BY <1>2, <1>5, <2>1, <2>2, <2>3, <2>4 DEF StageOf, AccountsOf
  <2>. QED
    BY <2>1, <2>5 DEF Life, Whose
<1>8. ASSUME NEW l \in Logins \ S PROVE Life'[l] = Life[l] /\ Whose'[l] = Whose[l]
  <2>1. ASSUME NEW t \in RowsOf(l) PROVE t.user # u
    <3>1. RowsOf(l) = {t} /\ IssuesOf(l) = {} /\ l \in begun
      BY <2>1 DEF OneSession, Single
    <3>2. Life[l] = "open" /\ Whose[l] = {t.user}
      BY <3>1 DEF Life, Whose, StageOf, AccountsOf
    <3>. QED
      BY <1>6, <1>8, <3>2
  <2>2. RowsOf(l)' = RowsOf(l)
    BY <1>2, <2>1 DEF RowsOf, Valid
  <2>3. Untouched(l)
    BY <1>2, <1>5, <2>2 DEF Untouched
  <2>. QED
    BY <2>3, UntouchedStays
<1>9. Client!Close(S)
  <2>1. Life' = [l \in Logins |-> IF l \in S THEN "closed" ELSE Life[l]]
    BY <1>7, <1>8 DEF Life
  <2>2. Whose' = [l \in Logins |-> IF l \in S THEN {} ELSE Whose[l]]
    BY <1>7, <1>8 DEF Whose
  <2>. QED
    BY <2>1, <2>2 DEF Client!Close
<1>. QED
  BY <1>6, <1>9 DEF Client!Revoke

\* A crash closes the sign-ins that requests held, and leaves the rows.
LEMMA CrashRefines ==
  ASSUME AuthInv, Crash
  PROVE  Client!Abandon
<1>. USE DEF AuthInv
<1>1. req' = [r \in Requests |-> Idle] /\ stored' = stored /\ begun' = begun
  BY DEF Crash, tables
<1>2. \A l \in Logins : RowsOf(l)' = RowsOf(l) /\ IssuesOf(l)' = {}
  BY <1>1 DEF RowsOf, Valid, IssuesOf, Holds, Idle
<1>3. PICK S : S = {l \in Logins : Life[l] = "pending"}
  OBVIOUS
<1>4. ASSUME NEW l \in S PROVE l \in Logins /\ Life'[l] = "closed" /\ Whose'[l] = {}
  <2>1. l \in Logins /\ l \in begun /\ RowsOf(l) = {}
    BY <1>3, <1>4 DEF Life, StageOf
  <2>. QED
    BY <1>1, <1>2, <2>1 DEF Life, Whose, StageOf, AccountsOf
<1>5. ASSUME NEW l \in Logins \ S PROVE Life'[l] = Life[l] /\ Whose'[l] = Whose[l]
  <2>1. IssuesOf(l) = {}
    <3>1. IssuesOf(l) # {} => l \in begun /\ RowsOf(l) = {}
      BY DEF OneSession, Single, TypeOK, RequestOK, IssuesOf
    <3>. QED
      BY <1>3, <1>5, <3>1 DEF Life, StageOf
  <2>2. Untouched(l)
    BY <1>1, <1>2, <2>1 DEF Untouched
  <2>. QED
    BY <2>2, UntouchedStays
<1>6. Client!Close(S)
  <2>1. Life' = [l \in Logins |-> IF l \in S THEN "closed" ELSE Life[l]]
    BY <1>4, <1>5 DEF Life
  <2>2. Whose' = [l \in Logins |-> IF l \in S THEN {} ELSE Whose[l]]
    BY <1>4, <1>5 DEF Whose
  <2>. QED
    BY <2>1, <2>2 DEF Client!Close
<1>. QED
  BY <1>3, <1>6 DEF Client!Abandon

\* A step of a request that touches no sign-in.
LEMMA SlotRefines ==
  ASSUME AuthInv, NEW r \in Requests, NEW q, req' = [req EXCEPT ![r] = q],
         Holds(q) <=> Holds(req[r]),
         Holds(q) => q.login = req[r].login /\ q.user = req[r].user,
         stored' = stored, begun' = begun
  PROVE  UNCHANGED <<Life, Whose>>
<1>1. \A k \in Logins : RowsOf(k)' = RowsOf(k)
  BY DEF RowsOf, Valid
<1>2. \A k \in Logins : Untouched(k)
  BY <1>1, SlotUntouched DEF AuthInv
<1>. QED
  BY <1>2, NoneTouched

LEMMA RequestRefines ==
  ASSUME AuthInv, NEW r \in Requests, RequestStep(r)
  PROVE  Client!LifeNext \/ UNCHANGED <<Life, Whose>>
<1>0. req[r] \in Request /\ ~Holds(Idle)
  BY DEF AuthInv, TypeOK, Holds, Idle
<1>1. CASE BeginRegister(r)
  <2>1. PICK u \in Users, l \in Logins \ begun :
          /\ req' = [req EXCEPT ![r] = [op |-> "register", at |-> "createUser", user |-> u,
                      role |-> None, read |-> 0, token |-> None, login |-> l]]
          /\ begun' = begun \cup {l} /\ stored' = stored
    BY <1>1 DEF BeginRegister
  <2>2. PICK q : q = [op |-> "register", at |-> "createUser", user |-> u,
                      role |-> None, read |-> 0, token |-> None, login |-> l]
    OBVIOUS
  <2>3. req' = [req EXCEPT ![r] = q] /\ q.login = l /\ q.user = u /\ Holds(q) /\ ~Holds(req[r])
    BY <1>1, <2>1, <2>2 DEF BeginRegister, Holds
  <2>. QED
    BY <2>1, <2>3, BeginRefines DEF Client!LifeNext
<1>2. CASE BeginLogin(r)
  <2>1. PICK u \in Users, l \in Logins \ begun :
          /\ req' = [req EXCEPT ![r] = [op |-> "login", at |-> "sign", user |-> u, role |-> account[u],
                      read |-> now, token |-> None, login |-> l]]
          /\ begun' = begun \cup {l} /\ stored' = stored
    BY <1>2 DEF BeginLogin
  <2>2. PICK q : q = [op |-> "login", at |-> "sign", user |-> u, role |-> account[u],
                      read |-> now, token |-> None, login |-> l]
    OBVIOUS
  <2>3. req' = [req EXCEPT ![r] = q] /\ q.login = l /\ q.user = u /\ Holds(q) /\ ~Holds(req[r])
    BY <1>2, <2>1, <2>2 DEF BeginLogin, Holds
  <2>. QED
    BY <2>1, <2>3, BeginRefines DEF Client!LifeNext
<1>3. CASE CreateUser(r)
  <2>1. CASE account[req[r].user] = None
    <3>1. PICK q : q = [req[r] EXCEPT !.at = "sign", !.role = "USER", !.read = now]
      OBVIOUS
    <3>2. /\ req' = [req EXCEPT ![r] = q] /\ Holds(q) /\ Holds(req[r])
          /\ q.login = req[r].login /\ q.user = req[r].user
      BY <1>0, <1>3, <2>1, <3>1 DEF CreateUser, Request, Holds
    <3>. QED
      BY <1>3, <3>2, SlotRefines DEF CreateUser
  <2>2. CASE account[req[r].user] # None
    BY <1>3, <2>2, LoseRefines DEF CreateUser, Holds, Client!LifeNext
  <2>. QED
    BY <2>1, <2>2
<1>4. CASE Sign(r)
  <2>1. PICK q : q = [req[r] EXCEPT !.at = "store",
                        !.token = [user |-> req[r].user, role |-> req[r].role, iat |-> now]]
    OBVIOUS
  <2>2. /\ req' = [req EXCEPT ![r] = q] /\ Holds(q) /\ Holds(req[r])
        /\ q.login = req[r].login /\ q.user = req[r].user
    BY <1>0, <1>4, <2>1 DEF Sign, Request, Holds
  <2>. QED
    BY <1>4, <2>2, SlotRefines DEF Sign, tables
<1>5. CASE Store(r)
  BY <1>5, StoreRefines DEF Client!LifeNext
<1>6. CASE DeleteToken(r) /\ Valid(req[r].token)
  BY <1>6, TakeRefines DEF Client!LifeNext
<1>7. CASE DropTokens(r)
  BY <1>7, DropRefines DEF Client!LifeNext
<1>8. CASE BeginRefresh(r)
  <2>1. PICK t \in Token :
          req' = [req EXCEPT ![r] = [op |-> "refresh", at |-> "readUser", user |-> t.user, role |-> None,
                      read |-> 0, token |-> t, login |-> stored[t].login]]
    BY <1>8 DEF BeginRefresh
  <2>2. PICK q : q = [op |-> "refresh", at |-> "readUser", user |-> t.user, role |-> None,
                      read |-> 0, token |-> t, login |-> stored[t].login]
    OBVIOUS
  <2>3. req' = [req EXCEPT ![r] = q] /\ ~Holds(q) /\ ~Holds(req[r])
    BY <1>8, <2>1, <2>2 DEF BeginRefresh, Holds
  <2>. QED
    BY <1>8, <2>3, SlotRefines DEF BeginRefresh, tables
<1>9. CASE BeginDelete(r)
  <2>1. PICK u \in Users :
          req' = [req EXCEPT ![r] = [op |-> "delete", at |-> "dropTokens", user |-> u, role |-> None,
                                    read |-> 0, token |-> None, login |-> None]]
    BY <1>9 DEF BeginDelete
  <2>2. PICK q : q = [op |-> "delete", at |-> "dropTokens", user |-> u, role |-> None,
                                    read |-> 0, token |-> None, login |-> None]
    OBVIOUS
  <2>3. req' = [req EXCEPT ![r] = q] /\ ~Holds(q) /\ ~Holds(req[r])
    BY <1>9, <2>1, <2>2 DEF BeginDelete, Holds
  <2>. QED
    BY <1>9, <2>3, SlotRefines DEF BeginDelete, tables
<1>10. CASE ReadUser(r) /\ Exists(req[r].user)
  <2>1. PICK q : q = [req[r] EXCEPT !.at = "deleteToken", !.role = account[req[r].user], !.read = now]
    OBVIOUS
  <2>2. req' = [req EXCEPT ![r] = q] /\ ~Holds(q) /\ ~Holds(req[r])
    BY <1>0, <1>10, <2>1 DEF ReadUser, Request, Holds
  <2>. QED
    BY <1>10, <2>2, SlotRefines DEF ReadUser, tables
<1>11. CASE \/ ReadUser(r) /\ ~Exists(req[r].user)
            \/ DeleteToken(r) /\ ~Valid(req[r].token)
            \/ DropUser(r)
  <2>1. /\ req' = [req EXCEPT ![r] = Idle] /\ ~Holds(req[r])
        /\ stored' = stored /\ begun' = begun
    BY <1>11 DEF ReadUser, DeleteToken, DropUser, Finish, Holds, tables
  <2>. QED
    BY <1>0, <2>1, SlotRefines
<1>. QED
  BY <1>1, <1>2, <1>3, <1>4, <1>5, <1>6, <1>7, <1>8, <1>9, <1>10, <1>11 DEF RequestStep

LEMMA OtherRefines ==
  ASSUME AuthInv, OtherStep \/ UNCHANGED vars
  PROVE  Client!LifeNext \/ UNCHANGED <<Life, Whose>>
<1>1. ASSUME NEW t \in Token, Logout(t) PROVE Client!LifeNext \/ UNCHANGED <<Life, Whose>>
  BY <1>1, LogoutRefines DEF Client!LifeNext
<1>2. CASE Crash
  BY <1>2, CrashRefines DEF Client!LifeNext
<1>3. CASE UNCHANGED <<stored, begun, req>>
  <2>1. \A k \in Logins : Untouched(k)
    BY <1>3 DEF Untouched, RowsOf, IssuesOf, Valid
  <2>. QED
    BY <2>1, NoneTouched
<1>4. \/ \E t \in Token : Logout(t)
      \/ Crash
      \/ UNCHANGED <<stored, begun, req>>
  BY DEF OtherStep, CreateTenantAdmin, ChangeRole, Tick, vars
<1>. QED
  BY <1>1, <1>2, <1>3, <1>4

\* The statements of AuthService and deleteUser, interleaved, refine SessionLife:
\* from its sign-in to its end a session keeps its account, one refresh at a time
\* takes it up, and nothing resumes it.
THEOREM SessionsAreLives == Spec => ImplementsSessionLife
<1>1. Init => Client!LifeInit
  <2>1. Init => \A l \in Logins : IssuesOf(l) = {} /\ RowsOf(l) = {} /\ l \notin begun
    BY DEF Init, RowsOf, Valid, IssuesOf, Holds, Idle
  <2>. QED
    BY <2>1 DEF Client!LifeInit, Life, Whose, StageOf, AccountsOf
<1>2. AuthInv /\ [Next]_vars => [Client!LifeNext]_(Client!session)
  <2>1. Next => OtherStep \/ \E x \in Requests : RequestStep(x)
    BY DEF Next, OtherStep, RequestStep
  <2>. QED
    BY <2>1, RequestRefines, OtherRefines DEF Client!session
<1>. QED
  BY <1>1, <1>2, AuthInductive, PTL DEF Spec, ImplementsSessionLife, Client!LifeSpec
=============================================================================
