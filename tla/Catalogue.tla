----------------------------- MODULE Catalogue -----------------------------
(***************************************************************************)
(* PropertiesService apart from prices and blocked dates (see Listings),    *)
(* and FavoritesService.  A listing is never deleted and never changes its  *)
(* tenant, so a check of either may be one step with the write it is for.   *)
(***************************************************************************)
EXTENDS TenantStore

(***************************************************************************)
(* create: the tenant and its status, the owner, the insert.  The owner is  *)
(* the caller, or whom a super admin names.                                 *)
(***************************************************************************)
\* A bug: the tenant's status is not looked at.
BeginCreateWhileClosed(r) ==
  /\ "createProperty" \in scene
  /\ \E t \in Tenants, u \in Users, status \in Statuses :
       /\ HasTenant(t)
       /\ Start(r, [Idle EXCEPT !.at = "findOwner",
                                !.tenant = t, !.user = u, !.status = status])
  /\ UNCHANGED tables

BeginCreateProperty(r) ==
  /\ "createProperty" \in scene
  /\ \E t \in Tenants, u \in Users, status \in Statuses :
       /\ HasTenant(t) /\ (tenant[t].status = "ACTIVE" \/ status = "INACTIVE")
       /\ Start(r, [Idle EXCEPT !.at = "findOwner",
                                !.tenant = t, !.user = u, !.status = status])
  /\ UNCHANGED tables

\* A bug: the owner need not belong to the tenant.
FindOwnerAnywhere(r) ==
  /\ req[r].at = "findOwner"
  /\ IF HasUser(req[r].user)
     THEN req' = [req EXCEPT ![r].at = "insertProperty"]
     ELSE Finish(r)
  /\ UNCHANGED tables

FindOwner(r) ==
  /\ req[r].at = "findOwner"
  /\ IF HasUser(req[r].user) /\ user[req[r].user].tenant = req[r].tenant
     THEN req' = [req EXCEPT ![r].at = "insertProperty"]
     ELSE Finish(r)
  /\ UNCHANGED tables

\* The foreign keys refuse an owner or a tenant deleted by then.
InsertProperty(r) ==
  /\ req[r].at = "insertProperty"
  /\ LET q == req[r]
         refused == ~HasTenant(q.tenant) \/ ~HasUser(q.user)
     IN  \/ /\ refused /\ Finish(r)
            /\ UNCHANGED property
         \/ /\ ~refused
            /\ \E p \in Properties :
                 /\ NewKey(p, property)
                 /\ property' = [property EXCEPT ![p] =
                                   [tenant |-> q.tenant, owner |-> q.user,
                                    status |-> q.status, patched |-> FALSE]]
            /\ Wrote(r, [Idle EXCEPT !.at = "findAdmins", !.tenant = q.tenant],
                     {<<"member", q.tenant>>})
  /\ UNCHANGED <<tenant, user, adminRole, notice, detail, saved, badge, scene, now>>

(***************************************************************************)
(* update, remove, reactivate.  An update may name another owner, whom only *)
(* the foreign key checks.                                                  *)
(***************************************************************************)
WriteProperty(r, p, status, owner) ==
  /\ "setProperty" \in scene /\ req[r].at = "idle" /\ HasProperty(p)
  /\ property' = [property EXCEPT ![p].status = status, ![p].owner = owner,
                                  ![p].patched = @ \/ property[p].owner # owner]
  /\ Wrote(r, [Idle EXCEPT !.at = "findAdmins", !.tenant = property[p].tenant],
           {<<"listing", p>>})
  /\ UNCHANGED <<tenant, user, adminRole, notice, detail, saved, badge, scene, now>>

UpdateProperty(r) ==
  \E p \in Properties, status \in Statuses, owner \in Users :
    HasUser(owner) /\ WriteProperty(r, p, status, owner)

RemoveProperty(r) ==
  \E p \in Properties : WriteProperty(r, p, "INACTIVE", property[p].owner)

ReactivateProperty(r) ==
  \E p \in Properties : WriteProperty(r, p, "ACTIVE", property[p].owner)

(***************************************************************************)
(* Amenities, which are looked for before they are added; images and rules, *)
(* which are not.                                                           *)
(***************************************************************************)
\* A bug: an amenity is added without a look.
BeginAddAmenityTwice(r) ==
  /\ "amenity" \in scene
  /\ \E p \in Properties, what \in Amenities :
       /\ HasProperty(p)
       /\ Start(r, [Idle EXCEPT !.at = "insertAmenity",
                                !.property = p, !.what = what])
  /\ UNCHANGED tables

BeginAddAmenity(r) ==
  /\ "amenity" \in scene
  /\ \E p \in Properties, what \in Amenities :
       /\ HasProperty(p) /\ ~Has(p, what)
       /\ Start(r, [Idle EXCEPT !.at = "insertAmenity",
                                !.property = p, !.what = what])
  /\ UNCHANGED tables

InsertAmenity(r) ==
  /\ req[r].at = "insertAmenity"
  /\ LET p == req[r].property
         what == req[r].what
     IN  /\ \E d \in DetailIds :
              /\ NewKey(d, detail)
              /\ detail' = [detail EXCEPT ![d] = [property |-> p, what |-> what]]
         /\ Wrote(r, Idle, {<<"amenity", <<p, what>>>>})
  /\ UNCHANGED <<tenant, user, property, adminRole, notice, saved, badge, scene, now>>

Add(p, d, what) ==
  /\ "detail" \in scene
  /\ HasProperty(p) /\ NewKey(d, detail)
  /\ detail' = [detail EXCEPT ![d] = [property |-> p, what |-> what]]
  /\ UNCHANGED <<tenant, user, property, adminRole, notice, saved, badge, scene, req, now>>

AddImage(p, d) == Add(p, d, "image")
AddRule(p, d) == Add(p, d, "rule")

RemoveOne(d, kinds) ==
  /\ "remove" \in scene
  /\ detail[d] \notin {None, Gone} /\ detail[d].what \in kinds
  /\ detail' = [detail EXCEPT ![d] = Gone]
  /\ UNCHANGED <<tenant, user, property, adminRole, notice, saved, badge, scene, req, now>>

RemoveImage(d) == RemoveOne(d, {"image"})
RemoveAmenity(d) == RemoveOne(d, Amenities)
RemoveRule(d) == RemoveOne(d, {"rule"})

(***************************************************************************)
(* Favorites: the listing is looked for, then the favorite, which is then   *)
(* inserted under a unique index.                                           *)
(***************************************************************************)
\* A bug: the listing's own status is looked at, its tenant's is not.
BeginSaveOfClosed(r) ==
  /\ "save" \in scene
  /\ \E u \in Users, p \in Properties :
       /\ user[u] # None /\ HasProperty(p) /\ property[p].status = "ACTIVE"
       /\ Start(r, [Idle EXCEPT !.at = "findSaved", !.user = u,
                                !.property = p, !.tenant = property[p].tenant])
  /\ UNCHANGED tables

BeginSave(r) ==
  /\ "save" \in scene
  /\ \E u \in Users, p \in Properties :
       /\ user[u] # None /\ HasProperty(p) /\ Public(p)
       /\ Start(r, [Idle EXCEPT !.at = "findSaved", !.user = u,
                                !.property = p, !.tenant = property[p].tenant])
  /\ UNCHANGED tables

FindSaved(r) ==
  /\ req[r].at = "findSaved"
  /\ IF <<req[r].user, req[r].property>> \in saved
     THEN Finish(r)
     ELSE req' = [req EXCEPT ![r].at = "insertSaved"]
  /\ UNCHANGED tables

\* Refused for one saved meanwhile, and for an account deleted before: its token
\* may still be in use.
InsertSaved(r) ==
  /\ req[r].at = "insertSaved"
  /\ LET one == <<req[r].user, req[r].property>>
         refused == one \in saved \/ ~HasUser(req[r].user)
     IN  \/ /\ refused /\ Finish(r)
            /\ UNCHANGED saved
         \/ /\ ~refused
            /\ saved' = saved \cup {one}
            /\ Wrote(r, Idle, {<<"saved", one>>})
  /\ UNCHANGED <<tenant, user, property, adminRole, notice, detail, badge, scene, now>>

Unsave(u, p) ==
  /\ "unsave" \in scene /\ <<u, p>> \in saved
  /\ saved' = saved \ {<<u, p>>}
  /\ UNCHANGED <<tenant, user, property, adminRole, notice, detail, badge, scene, req, now>>

CatalogueStep(r) ==
  \/ FindOwner(r) \/ InsertProperty(r) \/ InsertAmenity(r)
  \/ FindSaved(r) \/ InsertSaved(r)

CatalogueBegin(r) ==
  \/ BeginCreateProperty(r)
  \/ UpdateProperty(r) \/ RemoveProperty(r) \/ ReactivateProperty(r)
  \/ BeginAddAmenity(r) \/ BeginSave(r)

Details ==
  \/ \E p \in Properties, d \in DetailIds : AddImage(p, d) \/ AddRule(p, d)
  \/ \E d \in DetailIds : RemoveImage(d) \/ RemoveAmenity(d) \/ RemoveRule(d)
  \/ \E u \in Users, p \in Properties : Unsave(u, p)
=============================================================================
