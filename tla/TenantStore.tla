---------------------------- MODULE TenantStore ----------------------------
(***************************************************************************)
(* The tables the platform, notification, property and favorite services   *)
(* share, and the requests in flight over them.  As in RentalStore, every  *)
(* awaited Prisma call is one statement and one step, and a handler is a    *)
(* slot that holds its locals and its position "at".                       *)
(***************************************************************************)
EXTENDS Integers, FiniteSets

CONSTANTS
  Tenants, Users, Properties,   \* primary keys; bounds on the rows ever made
  NoticeIds, DetailIds,
  Slugs, Emails, Amenities,
  Requests,     \* request slots: how many handlers run at a time
  MaxTime,      \* bound: the last instant
  Scenes,       \* how an instance begins: its first rows and the operations
                \* clients use in it
  None,         \* SQL NULL, a row never made, an unused field
  Gone          \* a deleted row: its key is not given out again

AllOps == {"createTenant", "updateTenant", "deleteTenant", "setStatus", "hire",
           "register", "updateUser", "deleteUser", "role",
           "createProperty", "setProperty", "amenity", "detail", "remove",
           "markRead", "markAll", "save", "unsave", "tick", "crash"}

Statuses == {"ACTIVE", "INACTIVE"}
Roles == {"TENANT_ADMIN", "USER"}    \* "USER" stands for every role but the one
Parts == Amenities \cup {"image", "rule"}
Times == 0..MaxTime

TenantRow == [slug : Slugs, status : Statuses]
UserRow == [email : Emails, role : Roles, tenant : Tenants \cup {None}]
\* "patched" is history: update has replaced the owner.
PropertyRow == [tenant : Tenants, owner : Users, status : Statuses, patched : BOOLEAN]
DetailRow == [property : Properties, what : Parts]
\* "addressee" is history: whom the notification was inserted for.
NoticeRow == [user : Users \cup {None}, tenant : Tenants \cup {None},
              readAt : Times \cup {None}, addressee : Users]

VARIABLES
  tenant, user, property,   \* Tenant, User and Property rows
  adminRole,                \* is there a Role row TENANT_ADMIN
  notice,                   \* Notification rows of tenant admins
  detail,                   \* PropertyAmenity, PropertyImage and PropertyRule rows
  saved,                    \* FavoriteProperty rows, unique by user and property
  badge,                    \* in which tenant's name an account has had an admin's
                            \* access token, which outlives role and account
  scene,                    \* the operations clients use
  req,                      \* the request slots
  now

tables == <<tenant, user, property, adminRole, notice, detail, saved, badge, scene, now>>
vars == <<tenant, user, property, adminRole, notice, detail, saved, badge, scene, req, now>>

HasTenant(t) == tenant[t] \notin {None, Gone}
HasUser(u) == user[u] \notin {None, Gone}
HasProperty(p) == property[p] # None

SlugTaken(s) == \E t \in Tenants : HasTenant(t) /\ tenant[t].slug = s
EmailTaken(e) == \E u \in Users : HasUser(u) /\ user[u].email = e

\* What refers to a tenant and so restricts its deletion.  A tenant with
\* bookings or reviews has their properties, which no route deletes.
Staff(t) == {u \in Users : HasUser(u) /\ user[u].tenant = t}
Listings(t) == {p \in Properties : HasProperty(p) /\ property[p].tenant = t}
Empty(t) == Staff(t) = {} /\ Listings(t) = {}
Admins(t) == {u \in Staff(t) : user[u].role = "TENANT_ADMIN"}

\* Whom the application shows a listing.
Public(p) ==
  /\ property[p].status = "ACTIVE"
  /\ tenant[property[p].tenant].status = "ACTIVE"

Has(p, what) == \E d \in DetailIds : detail[d] = [property |-> p, what |-> what]

(***************************************************************************)
(* The requests.  "stale" is history: the facts, among those a request     *)
(* goes by at its position, that others have changed since.  A fact is a   *)
(* pair of what it is about and which one:                                 *)
(*   slug, email, role, saved, amenity   one has been taken or inserted    *)
(*   member, notice                      a row of that tenant was inserted *)
(*   status, listing                     that tenant's, listing's status   *)
(*   read                                the notification's readAt         *)
(*   tenant, user                        it was deleted                    *)
(***************************************************************************)
Looks ==
  [idle |-> {}, writeRead |-> {"read"},
   insertTenant |-> {"slug"},
   updateTenant |-> {"slug", "tenant"},
   dropTenant |-> {"tenant", "member", "notice"},
   findRole |-> {"tenant", "email"},
   insertRole |-> {"tenant", "email", "role"},
   insertUser |-> {"tenant", "email"},
   findOwner |-> {"tenant", "status"},
   insertProperty |-> {"tenant", "status", "user"},
   findAdmins |-> {},
   tell |-> {"tenant", "user"},
   findSaved |-> {"status", "listing"},
   insertSaved |-> {"status", "listing", "saved"},
   insertAmenity |-> {"amenity"}]

Steps == DOMAIN Looks

Facts ==
  ({"slug"} \X Slugs) \cup ({"email"} \X Emails) \cup ({"role"} \X Roles)
  \cup ({"tenant", "member", "notice", "status"} \X Tenants)
  \cup ({"user"} \X Users) \cup ({"listing"} \X Properties) \cup ({"read"} \X NoticeIds)
  \cup ({"saved"} \X (Users \X Properties)) \cup ({"amenity"} \X (Properties \X Parts))

Request == [at : Steps,
            tenant : Tenants \cup {None}, slug : Slugs \cup {None},
            user : Users \cup {None}, email : Emails \cup {None},
            property : Properties \cup {None}, status : Statuses \cup {None},
            what : Parts \cup {None}, notice : NoticeIds \cup {None},
            seen : Times \cup {None}, to : SUBSET Users, stale : SUBSET Facts]

Idle == [at |-> "idle", tenant |-> None, slug |-> None, user |-> None,
         email |-> None, property |-> None, status |-> None, what |-> None,
         notice |-> None, seen |-> None, to |-> {}, stale |-> {}]

\* What a request holds at each position.
RequestOK(q) ==
  /\ q.at \in {"insertTenant", "updateTenant"} => q.slug \in Slugs
  /\ q.at \in {"updateTenant", "dropTenant", "findRole", "insertRole", "insertUser",
              "findOwner", "insertProperty", "findAdmins", "tell",
              "findSaved", "insertSaved"} => q.tenant \in Tenants
  /\ q.at \in {"findRole", "insertRole", "insertUser"} => q.email \in Emails
  /\ q.at \in {"findOwner", "insertProperty", "findSaved", "insertSaved"} => q.user \in Users
  /\ q.at \in {"findOwner", "insertProperty"} => q.status \in Statuses
  /\ q.at \in {"findSaved", "insertSaved", "insertAmenity"} => q.property \in Properties
  /\ q.at \in {"findSaved", "insertSaved"} =>
       HasProperty(q.property) /\ property[q.property].tenant = q.tenant
  /\ q.at = "insertAmenity" => q.what \in Amenities
  /\ q.at = "writeRead" => q.notice \in NoticeIds /\ notice[q.notice] # None

About(q) ==
  {<<"slug", q.slug>>, <<"email", q.email>>, <<"role", "TENANT_ADMIN">>,
   <<"tenant", q.tenant>>, <<"member", q.tenant>>, <<"notice", q.tenant>>,
   <<"status", q.tenant>>, <<"user", q.user>>, <<"listing", q.property>>,
   <<"read", q.notice>>,
   <<"saved", <<q.user, q.property>>>>, <<"amenity", <<q.property, q.what>>>>}
  \cup ({"user"} \X q.to)

Watched(q) == {f \in About(q) : f[1] \in Looks[q.at]}

Later(q, facts) == [q EXCEPT !.stale = @ \cup (facts \cap Watched(q))]

\* Request r goes on as next; it has changed these facts.
Wrote(r, next, facts) ==
  req' = [q \in Requests |-> IF q = r THEN next ELSE Later(req[q], facts)]

\* A request of a single step has changed these facts.
Changed(facts) == req' = [q \in Requests |-> Later(req[q], facts)]

Finish(r) == req' = [req EXCEPT ![r] = Idle]
Start(r, q) == req[r].at = "idle" /\ req' = [req EXCEPT ![r] = q]

\* A key that has not been given out; when all are, an insert waits for ever.
NewKey(k, table) == table[k] = None

(***************************************************************************)
(* How an instance begins: rows as the application may have left them.     *)
(***************************************************************************)
Consistent(s) ==
  /\ s.ops \subseteq AllOps /\ s.role \in BOOLEAN
  /\ s.tenant \in [Tenants -> TenantRow \cup {None}]
  /\ s.user \in [Users -> UserRow \cup {None}]
  /\ s.property \in [Properties -> PropertyRow \cup {None}]
  /\ \A t, v \in Tenants :
       s.tenant[t] # None /\ s.tenant[v] # None /\ s.tenant[t].slug = s.tenant[v].slug => t = v
  /\ \A u, v \in Users :
       s.user[u] # None /\ s.user[v] # None /\ s.user[u].email = s.user[v].email => u = v
  /\ \A u \in Users :
       s.user[u] # None /\ s.user[u].tenant # None => s.tenant[s.user[u].tenant] # None
  /\ \A p \in Properties :
       s.property[p] # None =>
         /\ s.tenant[s.property[p].tenant] # None
         /\ s.user[s.property[p].owner] # None
         /\ s.user[s.property[p].owner].tenant = s.property[p].tenant
         /\ ~s.property[p].patched
  /\ \A u \in Users : s.user[u] # None /\ s.user[u].role = "TENANT_ADMIN" => s.role

ASSUME TenantAssumption ==
  /\ MaxTime \in Nat
  /\ None # Gone /\ None \notin AllOps \cup Parts /\ None \notin Times
  /\ {"image", "rule"} \cap Amenities = {}
  /\ None \notin Tenants \cup Users \cup Properties \cup NoticeIds \cup Slugs \cup Emails
  /\ None \notin TenantRow \cup UserRow \cup PropertyRow \cup NoticeRow \cup DetailRow
  /\ Gone \notin TenantRow \cup UserRow \cup DetailRow
  /\ \A s \in Scenes : Consistent(s)

Init ==
  /\ \E s \in Scenes :
       /\ scene = s.ops /\ adminRole = s.role
       /\ tenant = s.tenant /\ user = s.user /\ property = s.property
       /\ badge = [u \in Users |->
                     IF s.user[u] # None /\ s.user[u].role = "TENANT_ADMIN"
                     THEN s.user[u].tenant ELSE None]
  /\ notice = [n \in NoticeIds |-> None]
  /\ detail = [d \in DetailIds |-> None]
  /\ saved = {}
  /\ req = [r \in Requests |-> Idle]
  /\ now = 0
=============================================================================
