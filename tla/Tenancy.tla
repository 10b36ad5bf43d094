------------------------------ MODULE Tenancy ------------------------------
(***************************************************************************)
(* The tenants of the platform with their accounts, listings, notifications *)
(* and favorites: the handlers of Platform, Inbox and Catalogue interleaved *)
(* at their awaits, and what has to hold of the tables they share.          *)
(***************************************************************************)
EXTENDS Platform, Inbox, Catalogue

\* The server process stops: the requests are lost, the tables are not.
Crash ==
  /\ "crash" \in scene
  /\ req' = [r \in Requests |-> Idle]
  /\ UNCHANGED tables

Handler(r) ==
  \/ PlatformBegin(r) \/ PlatformStep(r)
  \/ BeginMarkRead(r) \/ InboxStep(r)
  \/ CatalogueBegin(r) \/ CatalogueStep(r)

Next ==
  \/ \E r \in Requests : Handler(r)
  \/ Accounts \/ Details
  \/ \E v \in Users : MarkAllRead(v)
  \/ Tick \/ Crash

Spec == Init /\ [][Next]_vars

(***************************************************************************)
(* Types, and what a handler holds at each of its statements.               *)
(***************************************************************************)
TypeOK ==
  /\ tenant \in [Tenants -> TenantRow \cup {None, Gone}]
  /\ user \in [Users -> UserRow \cup {None, Gone}]
  /\ property \in [Properties -> PropertyRow \cup {None}]
  /\ adminRole \in BOOLEAN
  /\ notice \in [NoticeIds -> NoticeRow \cup {None}]
  /\ detail \in [DetailIds -> DetailRow \cup {None, Gone}]
  /\ saved \subseteq Users \X Properties
  /\ badge \in [Users -> Tenants \cup {None}]
  /\ scene \subseteq AllOps
  /\ req \in [Requests -> Request]
  /\ now \in Times
  /\ \A r \in Requests : RequestOK(req[r])

(***************************************************************************)
(* The rows refer to one another as the services assume: every account and  *)
(* listing has its tenant, a listing and a favorite have their accounts,    *)
(* and the owner that create has checked is still of the listing's tenant;  *)
(* deletions in between, which create does not see, do not break it.        *)
(***************************************************************************)
RowsHaveOwners ==
  /\ \A u \in Users : HasUser(u) /\ user[u].tenant # None => HasTenant(user[u].tenant)
  /\ \A p \in Properties : HasProperty(p) =>
       LET owner == property[p].owner
       IN  /\ HasTenant(property[p].tenant)
           /\ HasUser(owner)
           /\ property[p].patched \/ user[owner].tenant = property[p].tenant
  /\ \A one \in saved : HasUser(one[1]) /\ HasProperty(one[2])

(***************************************************************************)
(* What a handler has made sure of at an earlier statement holds when it    *)
(* comes to write, unless another request has changed it in between: the    *)
(* slug and the email are free, the tenant is there and empty, a listing to *)
(* be published has a tenant that is open, a listing to be saved is public, *)
(* an amenity is not there yet, a notification is as it was read.           *)
(***************************************************************************)
Kept(q) ==
  LET Moved(tag, x) == <<tag, x>> \in q.stale
      t == q.tenant
      p == q.property
  IN  /\ q.at = "insertTenant" /\ SlugTaken(q.slug) => Moved("slug", q.slug)
      /\ q.at = "updateTenant" /\ SlugOfOther(q.slug, t) => Moved("slug", q.slug)
      /\ q.at \in {"findRole", "insertRole", "insertUser"} /\ EmailTaken(q.email) =>
           Moved("email", q.email)
      /\ q.at = "insertRole" /\ adminRole => Moved("role", "TENANT_ADMIN")
      /\ q.at \in {"updateTenant", "dropTenant", "findRole", "insertRole", "insertUser",
                   "findOwner", "insertProperty", "tell"} /\ ~HasTenant(t) => Moved("tenant", t)
      /\ q.at = "dropTenant" /\ ~Empty(t) => Moved("member", t)
      /\ q.at = "dropTenant" /\ NoticesOf(t) # {} => Moved("notice", t)
      /\ q.at \in {"findOwner", "insertProperty"} /\ HasTenant(t) /\ q.status = "ACTIVE"
           /\ tenant[t].status = "INACTIVE" => Moved("status", t)
      /\ q.at = "insertProperty" /\ ~HasUser(q.user) => Moved("user", q.user)
      /\ q.at = "tell" => \A u \in q.to : ~HasUser(u) => Moved("user", u)
      /\ q.at \in {"findSaved", "insertSaved"} /\ ~Public(p) =>
           Moved("status", t) \/ Moved("listing", p)
      /\ q.at = "insertSaved" /\ <<q.user, p>> \in saved => Moved("saved", <<q.user, p>>)
      /\ q.at = "insertAmenity" /\ Has(p, q.what) => Moved("amenity", <<p, q.what>>)
      /\ q.at = "writeRead" /\ notice[q.notice].readAt # q.seen => Moved("read", q.notice)

ChecksKept == \A r \in Requests : Kept(req[r])

(***************************************************************************)
(* Notifications.  One about a tenant is seen by that tenant's people only, *)
(* and by nobody but its addressee as long as the account is there; role    *)
(* changes, deletions and tokens that outlive both do not widen this.       *)
(***************************************************************************)
NoticeScope ==
  \A n \in NoticeIds, v \in Users : Sees(v, n) =>
    /\ HasUser(notice[n].addressee) => v = notice[n].addressee
    /\ notice[n].tenant # None
    /\ IF HasUser(v) THEN user[v].tenant = notice[n].tenant ELSE badge[v] = notice[n].tenant

\* Request r comes to the end of this statement.
Does(r, at) == req[r].at = at /\ req'[r] # req[r]

(***************************************************************************)
(* deleteTenant counts the notifications and refuses if there are any: one  *)
(* loses its tenant only if it was inserted after the count.                *)
(***************************************************************************)
LostNoticeIsRace ==
  [][\A n \in NoticeIds :
       notice[n] # None /\ notice[n].tenant # None /\ notice'[n].tenant = None =>
         \E r \in Requests :
           Does(r, "dropTenant") /\ <<"notice", notice[n].tenant>> \in req[r].stale]_vars

(***************************************************************************)
(* create refuses an active listing of an inactive tenant: one comes about  *)
(* only if the tenant's status was written after the check.                 *)
(***************************************************************************)
CreatedActiveIsRace ==
  [][\A p \in Properties :
       property[p] = None /\ property'[p] # None /\ property'[p].status = "ACTIVE"
         /\ tenant[property'[p].tenant].status = "INACTIVE" =>
           \E r \in Requests :
             Does(r, "insertProperty") /\ <<"status", property'[p].tenant>> \in req[r].stale]_vars

(***************************************************************************)
(* A listing that is not public is saved only by a request that found it    *)
(* public before it was hidden.                                             *)
(***************************************************************************)
SavedHiddenIsRace ==
  [][\A u \in Users, p \in Properties :
       <<u, p>> \in saved' \ saved /\ ~Public(p) =>
         \E r \in Requests :
           /\ Does(r, "insertSaved")
           /\ req[r].stale \cap {<<"status", property[p].tenant>>, <<"listing", p>>} # {}]_vars

(***************************************************************************)
(* An amenity is listed twice only by two requests that passed each other's *)
(* look.                                                                    *)
(***************************************************************************)
DuplicateAmenityIsRace ==
  [][\A d \in DetailIds :
       detail[d] = None /\ detail'[d] # None /\ detail'[d].what \in Amenities
         /\ Has(detail'[d].property, detail'[d].what) =>
           \E r \in Requests :
             /\ Does(r, "insertAmenity")
             /\ <<"amenity", <<detail'[d].property, detail'[d].what>>>> \in req[r].stale]_vars

(***************************************************************************)
(* The time at which a notification was read stays, except that a markRead  *)
(* that looked before it was last written replaces it.  Read stays read.    *)
(***************************************************************************)
ReadTimeKept ==
  [][\A n \in NoticeIds :
       notice[n] # None /\ notice[n].readAt # None /\ notice'[n].readAt # notice[n].readAt =>
         /\ notice'[n].readAt # None
         /\ \E r \in Requests :
              /\ Does(r, "writeRead") /\ req[r].notice = n
              /\ <<"read", n>> \in req[r].stale]_vars

(***************************************************************************)
(* The abstract specification.                                              *)
(***************************************************************************)
Life == [t \in Tenants |->
          IF tenant[t] = None THEN "new" ELSE
          IF tenant[t] = Gone THEN "deleted" ELSE
          IF tenant[t].status = "ACTIVE" THEN "open" ELSE "closed"]
Name == [t \in Tenants |-> IF HasTenant(t) THEN tenant[t].slug ELSE None]
StaffOf == [t \in Tenants |-> Staff(t)]
ListingsOf == [t \in Tenants |-> Listings(t)]

Abstract == INSTANCE TenantLife
  WITH life <- Life, name <- Name, staff <- StaffOf, listings <- ListingsOf

\* The routes and the race between them keep every promise of TenantLife.
ImplementsTenantLife == Abstract!LifeSpec
=============================================================================
