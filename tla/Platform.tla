------------------------------ MODULE Platform ------------------------------
(***************************************************************************)
(* PlatformService and the routes of UsersService: tenants, their status    *)
(* and their accounts.  What a first statement found out about existence    *)
(* can only turn to "deleted", which the next one finds for itself; the two *)
(* are one step.  notifySuperAdmins writes rows that refer to no tenant,    *)
(* for accounts no route deletes, and is left out.                          *)
(***************************************************************************)
EXTENDS TenantStore

(***************************************************************************)
(* createTenant and updateTenant: the slug is looked up, then written; the  *)
(* unique index refuses it if it is taken by then.                          *)
(***************************************************************************)
\* A bug: createTenant relies on the index alone.
BeginCreateTenantUnseen(r) ==
  /\ "createTenant" \in scene
  /\ \E s \in Slugs :
       Start(r, [Idle EXCEPT !.at = "insertTenant", !.slug = s])
  /\ UNCHANGED tables

BeginCreateTenant(r) ==
  /\ "createTenant" \in scene
  /\ \E s \in Slugs :
       /\ ~SlugTaken(s)
       /\ Start(r, [Idle EXCEPT !.at = "insertTenant", !.slug = s])
  /\ UNCHANGED tables

InsertTenant(r) ==
  /\ req[r].at = "insertTenant"
  /\ LET s == req[r].slug
     IN  \/ /\ SlugTaken(s) /\ Finish(r)
            /\ UNCHANGED tenant
         \/ /\ ~SlugTaken(s)
            /\ \E t \in Tenants :
                 /\ NewKey(t, tenant)
                 /\ tenant' = [tenant EXCEPT ![t] = [slug |-> s, status |-> "ACTIVE"]]
            /\ Wrote(r, Idle, {<<"slug", s>>})
  /\ UNCHANGED <<user, property, adminRole, notice, detail, saved, badge, scene, now>>

SlugOfOther(s, t) == \E v \in Tenants \ {t} : HasTenant(v) /\ tenant[v].slug = s

\* A bug: an update that names no slug goes on with none.
BeginUpdateUnnamed(r) ==
  /\ "updateTenant" \in scene
  /\ \E t \in Tenants, s \in Slugs \cup {None} :
       /\ HasTenant(t) /\ ~SlugOfOther(s, t)
       /\ Start(r, [Idle EXCEPT !.at = "updateTenant",
                                !.tenant = t, !.slug = s])
  /\ UNCHANGED tables

\* An update that names no slug changes nothing modelled here.
BeginUpdateTenant(r) ==
  /\ "updateTenant" \in scene
  /\ \E t \in Tenants, s \in Slugs :
       /\ HasTenant(t) /\ ~SlugOfOther(s, t)
       /\ Start(r, [Idle EXCEPT !.at = "updateTenant",
                                !.tenant = t, !.slug = s])
  /\ UNCHANGED tables

UpdateTenant(r) ==
  /\ req[r].at = "updateTenant"
  /\ LET t == req[r].tenant
         s == req[r].slug
         refused == ~HasTenant(t) \/ SlugOfOther(s, t)
     IN  \/ /\ refused /\ Finish(r)
            /\ UNCHANGED tenant
         \/ /\ ~refused
            /\ tenant' = [tenant EXCEPT ![t].slug = s]
            /\ Wrote(r, Idle, {<<"slug", s>>})
  /\ UNCHANGED <<user, property, adminRole, notice, detail, saved, badge, scene, now>>

(***************************************************************************)
(* deleteTenant counts what belongs to the tenant and goes on if that is    *)
(* nothing.  By the time it deletes, foreign keys of User and Property may  *)
(* refuse; that of Notification sets tenantId to null.                      *)
(***************************************************************************)
NoticesOf(t) == {n \in NoticeIds : notice[n] # None /\ notice[n].tenant = t}

\* A bug: notifications are not counted.
BeginDeleteUncounted(r) ==
  /\ "deleteTenant" \in scene
  /\ \E t \in Tenants :
       /\ HasTenant(t) /\ Empty(t)
       /\ Start(r, [Idle EXCEPT !.at = "dropTenant", !.tenant = t])
  /\ UNCHANGED tables

BeginDeleteTenant(r) ==
  /\ "deleteTenant" \in scene
  /\ \E t \in Tenants :
       /\ HasTenant(t) /\ Empty(t) /\ NoticesOf(t) = {}
       /\ Start(r, [Idle EXCEPT !.at = "dropTenant", !.tenant = t])
  /\ UNCHANGED tables

\* A bug: the relations of User and Property do not restrict.
DropTenantAnyway(r) ==
  /\ req[r].at = "dropTenant"
  /\ LET t == req[r].tenant
     IN  /\ HasTenant(t)
         /\ tenant' = [tenant EXCEPT ![t] = Gone]
         /\ notice' = [n \in NoticeIds |->
                         IF n \in NoticesOf(t) THEN [notice[n] EXCEPT !.tenant = None] ELSE notice[n]]
         /\ Wrote(r, Idle, {<<"tenant", t>>})
  /\ UNCHANGED <<user, property, adminRole, detail, saved, badge, scene, now>>

DropTenant(r) ==
  /\ req[r].at = "dropTenant"
  /\ LET t == req[r].tenant
         refused == ~HasTenant(t) \/ ~Empty(t)
     IN  \/ /\ refused /\ Finish(r)
            /\ UNCHANGED <<tenant, notice>>
         \/ /\ ~refused
            /\ tenant' = [tenant EXCEPT ![t] = Gone]
            /\ notice' = [n \in NoticeIds |->
                            IF n \in NoticesOf(t) THEN [notice[n] EXCEPT !.tenant = None] ELSE notice[n]]
            /\ Wrote(r, Idle, {<<"tenant", t>>})
  /\ UNCHANGED <<user, property, adminRole, detail, saved, badge, scene, now>>

\* deactivateTenant and reactivateTenant; the tenant's admins are told after.
SetStatus(r) ==
  /\ "setStatus" \in scene /\ req[r].at = "idle"
  /\ \E t \in Tenants, status \in Statuses :
       /\ HasTenant(t)
       /\ tenant' = [tenant EXCEPT ![t].status = status]
       /\ Wrote(r, [Idle EXCEPT !.at = "findAdmins", !.tenant = t],
                {<<"status", t>>})
  /\ UNCHANGED <<user, property, adminRole, notice, detail, saved, badge, scene, now>>

(***************************************************************************)
(* createTenantAdmin: the role is found or made, the account inserted.      *)
(***************************************************************************)
BeginHire(r) ==
  /\ "hire" \in scene
  /\ \E t \in Tenants, e \in Emails :
       /\ HasTenant(t) /\ ~EmailTaken(e)
       /\ Start(r, [Idle EXCEPT !.at = "findRole", !.tenant = t, !.email = e])
  /\ UNCHANGED tables

FindRole(r) ==
  /\ req[r].at = "findRole"
  /\ req' = [req EXCEPT ![r].at = IF adminRole THEN "insertUser" ELSE "insertRole"]
  /\ UNCHANGED tables

\* Role.name is unique: the second of two fails.
InsertRole(r) ==
  /\ req[r].at = "insertRole"
  /\ \/ adminRole /\ Finish(r)
     \/ /\ ~adminRole
        /\ Wrote(r, [req[r] EXCEPT !.at = "insertUser"], {<<"role", "TENANT_ADMIN">>})
  /\ adminRole' = TRUE
  /\ UNCHANGED <<tenant, user, property, notice, detail, saved, badge, scene, now>>

InsertUser(r) ==
  /\ req[r].at = "insertUser"
  /\ LET t == req[r].tenant
         e == req[r].email
         refused == EmailTaken(e) \/ ~HasTenant(t)
     IN  \/ /\ refused /\ Finish(r)
            /\ UNCHANGED <<user, badge>>
         \/ /\ ~refused
            /\ \E u \in Users :
                 /\ NewKey(u, user)
                 /\ user' = [user EXCEPT ![u] = [email |-> e, role |-> "TENANT_ADMIN", tenant |-> t]]
                 /\ badge' = [badge EXCEPT ![u] = t]
            /\ Wrote(r, Idle, {<<"email", e>>, <<"member", t>>})
  /\ UNCHANGED <<tenant, property, adminRole, notice, detail, saved, scene, now>>

(***************************************************************************)
(* Accounts: register (its statements are in AuthTokens) and the routes of  *)
(* UsersService, of which a tenant's admins have most.                      *)
(***************************************************************************)
\* Account a has a token of an admin of the tenant that account u is in.
Manages(a, u) == HasUser(u) /\ badge[a] # None /\ badge[a] = user[u].tenant

Register(u, e) ==
  /\ "register" \in scene
  /\ NewKey(u, user) /\ ~EmailTaken(e)
  /\ user' = [user EXCEPT ![u] = [email |-> e, role |-> "USER", tenant |-> None]]
  /\ Changed({<<"email", e>>})
  /\ UNCHANGED <<tenant, property, adminRole, notice, detail, saved, badge, scene, now>>

\* One's own email, or as an admin another's; the unique index is its only check.
UpdateUser(a, u, e) ==
  /\ "updateUser" \in scene
  /\ Manages(a, u) \/ (a = u /\ HasUser(u) /\ user[u].tenant # None)
  /\ ~EmailTaken(e)
  /\ user' = [user EXCEPT ![u].email = e]
  /\ Changed({<<"email", e>>})
  /\ UNCHANGED <<tenant, property, adminRole, notice, detail, saved, badge, scene, now>>

ChangeRole(a, u, role) ==
  /\ "role" \in scene
  /\ Manages(a, u) /\ (role = "TENANT_ADMIN" => adminRole)
  /\ user' = [user EXCEPT ![u].role = role]
  /\ badge' = [badge EXCEPT ![u] = IF role = "TENANT_ADMIN" THEN user[u].tenant ELSE @]
  /\ UNCHANGED <<tenant, property, adminRole, notice, detail, saved, scene, req, now>>

\* The relations of Property and FavoriteProperty restrict the deletion, that of
\* Notification sets userId to null.
Restricted(u) ==
  \/ \E p \in Properties : HasProperty(p) /\ property[p].owner = u
  \/ \E p \in Properties : <<u, p>> \in saved

DeleteUser(a, u) ==
  /\ "deleteUser" \in scene
  /\ Manages(a, u) /\ a # u
  /\ ~Restricted(u)
  /\ user' = [user EXCEPT ![u] = Gone]
  /\ notice' = [n \in NoticeIds |->
                  IF notice[n] # None /\ notice[n].user = u
                  THEN [notice[n] EXCEPT !.user = None] ELSE notice[n]]
  /\ Changed({<<"user", u>>})
  /\ UNCHANGED <<tenant, property, adminRole, detail, saved, badge, scene, now>>

PlatformStep(r) ==
  \/ InsertTenant(r) \/ UpdateTenant(r) \/ DropTenant(r)
  \/ FindRole(r) \/ InsertRole(r) \/ InsertUser(r)

PlatformBegin(r) ==
  \/ BeginCreateTenant(r) \/ BeginUpdateTenant(r) \/ BeginDeleteTenant(r)
  \/ SetStatus(r) \/ BeginHire(r)

Accounts ==
  \/ \E u \in Users, e \in Emails : Register(u, e)
  \/ \E a, u \in Users, e \in Emails : UpdateUser(a, u, e)
  \/ \E a, u \in Users, role \in Roles : ChangeRole(a, u, role)
  \/ \E a, u \in Users : DeleteUser(a, u)
=============================================================================
