--------------------------- MODULE TenancyProofs ---------------------------
(***************************************************************************)
(* Theorems about Tenancy.  A step is taken apart into its effect on the    *)
(* tables, with the facts it tells the other requests, and what becomes of  *)
(* the request that takes it; each invariant is then shown effect by        *)
(* effect, and the checks of the other requests from the facts alone.       *)
(***************************************************************************)
EXTENDS Tenancy, TLAPS

(***************************************************************************)
(* The effects on the tables.                                               *)
(***************************************************************************)
Nothing ==
  /\ UNCHANGED <<tenant, user, property, adminRole, notice, detail, saved, badge, scene>>
  /\ now' \in Times

Founds(t, s) ==
  /\ tenant[t] = None /\ ~SlugTaken(s)
  /\ tenant' = [tenant EXCEPT ![t] = [slug |-> s, status |-> "ACTIVE"]]
  /\ UNCHANGED <<user, property, adminRole, notice, detail, saved, badge, scene, now>>

Renames(t, s) ==
  /\ HasTenant(t) /\ ~SlugOfOther(s, t)
  /\ tenant' = [tenant EXCEPT ![t].slug = s]
  /\ UNCHANGED <<user, property, adminRole, notice, detail, saved, badge, scene, now>>

Turns(t, status) ==
  /\ HasTenant(t)
  /\ tenant' = [tenant EXCEPT ![t].status = status]
  /\ UNCHANGED <<user, property, adminRole, notice, detail, saved, badge, scene, now>>

Drops(t) ==
  /\ HasTenant(t) /\ Empty(t)
  /\ tenant' = [tenant EXCEPT ![t] = Gone]
  /\ notice' = [n \in NoticeIds |->
                  IF n \in NoticesOf(t) THEN [notice[n] EXCEPT !.tenant = None] ELSE notice[n]]
  /\ UNCHANGED <<user, property, adminRole, detail, saved, badge, scene, now>>

MakesRole ==
  /\ adminRole' = TRUE
  /\ UNCHANGED <<tenant, user, property, notice, detail, saved, badge, scene, now>>

Enters(u, row) ==
  /\ user[u] = None /\ ~EmailTaken(row.email)
  /\ row \in UserRow /\ (row.tenant # None => HasTenant(row.tenant))
  /\ user' = [user EXCEPT ![u] = row]
  /\ badge' \in {badge, [badge EXCEPT ![u] = row.tenant]}
  /\ UNCHANGED <<tenant, property, adminRole, notice, detail, saved, scene, now>>

Mails(u, e) ==
  /\ HasUser(u) /\ ~EmailTaken(e)
  /\ user' = [user EXCEPT ![u].email = e]
  /\ UNCHANGED <<tenant, property, adminRole, notice, detail, saved, badge, scene, now>>

Promotes(u, role) ==
  /\ HasUser(u)
  /\ user' = [user EXCEPT ![u].role = role]
  /\ badge' \in {badge, [badge EXCEPT ![u] = user[u].tenant]}
  /\ UNCHANGED <<tenant, property, adminRole, notice, detail, saved, scene, now>>

Fires(u) ==
  /\ HasUser(u) /\ ~Restricted(u)
  /\ user' = [user EXCEPT ![u] = Gone]
  /\ notice' = [n \in NoticeIds |->
                  IF notice[n] # None /\ notice[n].user = u
                  THEN [notice[n] EXCEPT !.user = None] ELSE notice[n]]
  /\ UNCHANGED <<tenant, property, adminRole, detail, saved, badge, scene, now>>

Tells(n, u, t) ==
  /\ notice[n] = None /\ HasUser(u) /\ HasTenant(t) /\ user[u].tenant = t
  /\ notice' = [notice EXCEPT ![n] =
                  [user |-> u, tenant |-> t, readAt |-> None, addressee |-> u]]
  /\ UNCHANGED <<tenant, user, property, adminRole, detail, saved, badge, scene, now>>

Reads(ids, time) ==
  /\ \A n \in ids : notice[n] # None
  /\ notice' = [n \in NoticeIds |->
                  IF n \in ids THEN [notice[n] EXCEPT !.readAt = time] ELSE notice[n]]
  /\ UNCHANGED <<tenant, user, property, adminRole, detail, saved, badge, scene, now>>

Lists(p, row) ==
  /\ property[p] = None
  /\ row \in PropertyRow /\ HasTenant(row.tenant) /\ HasUser(row.owner)
  /\ user[row.owner].tenant = row.tenant
  /\ property' = [property EXCEPT ![p] = row]
  /\ UNCHANGED <<tenant, user, adminRole, notice, detail, saved, badge, scene, now>>

Sets(p, status, owner) ==
  /\ HasProperty(p) /\ HasUser(owner)
  /\ property' = [property EXCEPT ![p].status = status, ![p].owner = owner,
                                  ![p].patched = @ \/ property[p].owner # owner]
  /\ UNCHANGED <<tenant, user, adminRole, notice, detail, saved, badge, scene, now>>

Furnishes(d, p, what) ==
  /\ detail[d] = None
  /\ detail' = [detail EXCEPT ![d] = [property |-> p, what |-> what]]
  /\ UNCHANGED <<tenant, user, property, adminRole, notice, saved, badge, scene, now>>

Clears(d) ==
  /\ detail' = [detail EXCEPT ![d] = Gone]
  /\ UNCHANGED <<tenant, user, property, adminRole, notice, saved, badge, scene, now>>

Saves(u, p) ==
  /\ HasUser(u) /\ HasProperty(p)
  /\ saved' = saved \cup {<<u, p>>}
  /\ UNCHANGED <<tenant, user, property, adminRole, notice, detail, badge, scene, now>>

Forgets(u, p) ==
  /\ saved' = saved \ {<<u, p>>}
  /\ UNCHANGED <<tenant, user, property, adminRole, notice, detail, badge, scene, now>>

\* An effect, and the facts that are told of it.
TenantEffect(F) ==
  \/ \E t \in Tenants, s \in Slugs :
       (Founds(t, s) \/ Renames(t, s)) /\ F = {<<"slug", s>>}
  \/ \E t \in Tenants, status \in Statuses : Turns(t, status) /\ F = {<<"status", t>>}
  \/ \E t \in Tenants : Drops(t) /\ F = {<<"tenant", t>>}

UserEffect(F) ==
  \/ MakesRole /\ F = {<<"role", "TENANT_ADMIN">>}
  \/ \E u \in Users, row \in UserRow :
       /\ Enters(u, row)
       /\ <<"email", row.email>> \in F
       /\ row.tenant # None => <<"member", row.tenant>> \in F
  \/ \E u \in Users, e \in Emails : Mails(u, e) /\ F = {<<"email", e>>}
  \/ \E u \in Users, role \in Roles : Promotes(u, role)
  \/ \E u \in Users : Fires(u) /\ F = {<<"user", u>>}

NoticeEffect(F) ==
  \/ \E n \in NoticeIds, u \in Users, t \in Tenants : Tells(n, u, t) /\ F = {<<"notice", t>>}
  \/ \E ids \in SUBSET NoticeIds, time \in Times :
       /\ Reads(ids, time)
       /\ \A n \in ids : notice[n].readAt # time => <<"read", n>> \in F

PropertyEffect(F) ==
  \/ \E p \in Properties, row \in PropertyRow : Lists(p, row) /\ <<"member", row.tenant>> \in F
  \/ \E p \in Properties, status \in Statuses, owner \in Users :
       Sets(p, status, owner) /\ <<"listing", p>> \in F
  \/ \E d \in DetailIds, p \in Properties, what \in Parts :
       Furnishes(d, p, what) /\ (what \in Amenities => <<"amenity", <<p, what>>>> \in F)
  \/ \E d \in DetailIds : Clears(d)
  \/ \E u \in Users, p \in Properties :
       \/ Saves(u, p) /\ <<"saved", <<u, p>>>> \in F
       \/ Forgets(u, p)

Effect(F) ==
  Nothing \/ TenantEffect(F) \/ UserEffect(F) \/ NoticeEffect(F) \/ PropertyEffect(F)

(***************************************************************************)
(* Types of the tables, and what stays as it is.                            *)
(***************************************************************************)
TablesTyped ==
  /\ tenant \in [Tenants -> TenantRow \cup {None, Gone}]
  /\ user \in [Users -> UserRow \cup {None, Gone}]
  /\ property \in [Properties -> PropertyRow \cup {None}]
  /\ adminRole \in BOOLEAN
  /\ notice \in [NoticeIds -> NoticeRow \cup {None}]
  /\ detail \in [DetailIds -> DetailRow \cup {None, Gone}]
  /\ saved \subseteq Users \X Properties
  /\ badge \in [Users -> Tenants \cup {None}]
  /\ scene \subseteq AllOps
  /\ now \in Times

ReqTyped ==
  /\ req \in [Requests -> Request]
  /\ \A r \in Requests : RequestOK(req[r])

\* Types are those of the tables and those of the requests.
LEMMA SplitType ==
  /\ TypeOK <=> TablesTyped /\ ReqTyped
  /\ TypeOK' <=> TablesTyped' /\ ReqTyped'
BY DEF TypeOK, TablesTyped, ReqTyped

\* Keys are not given out again, and nobody changes tenant.
RowsStay ==
  /\ \A u \in Users :
       /\ user[u] # None => user'[u] # None
       /\ user[u] # None /\ HasUser(u)' => HasUser(u) /\ user'[u].tenant = user[u].tenant
  /\ \A p \in Properties :
       HasProperty(p) => HasProperty(p)' /\ property'[p].tenant = property[p].tenant
  /\ \A n \in NoticeIds : notice[n] # None => notice'[n] # None

\* No value is taken for another.
LEMMA Values ==
  /\ None # Gone /\ None \notin Times /\ None \notin Tenants /\ None \notin Users
  /\ None \notin Properties /\ None \notin NoticeIds /\ None \notin Slugs /\ None \notin Emails
  /\ None \notin TenantRow /\ None \notin UserRow /\ None \notin PropertyRow
  /\ None \notin NoticeRow /\ None \notin DetailRow
  /\ Gone \notin TenantRow /\ Gone \notin UserRow /\ Gone \notin DetailRow
  /\ "image" \notin Amenities /\ "rule" \notin Amenities
BY TenantAssumption

\* Writes of tenants keep the tables typed and the rows where they are.
LEMMA TenantTables ==
  ASSUME TablesTyped, NEW F, TenantEffect(F)
  PROVE  TablesTyped' /\ RowsStay
<1>1. ASSUME NEW t \in Tenants, NEW s \in Slugs, Founds(t, s) \/ Renames(t, s)
      PROVE  TablesTyped' /\ RowsStay
  BY <1>1, Values DEF Founds, Renames, TablesTyped, RowsStay, HasTenant, HasUser, HasProperty,
                      TenantRow, Statuses
<1>2. ASSUME NEW t \in Tenants, NEW s \in Statuses, Turns(t, s)
      PROVE  TablesTyped' /\ RowsStay
  BY <1>2, Values DEF Turns, TablesTyped, RowsStay, HasTenant, HasUser, HasProperty, TenantRow
<1>3. ASSUME NEW t \in Tenants, Drops(t)
      PROVE  TablesTyped' /\ RowsStay
  <2>1. \A n \in NoticesOf(t) : [notice[n] EXCEPT !.tenant = None] \in NoticeRow
    BY DEF TablesTyped, NoticesOf, NoticeRow
  <2> QED
    BY <1>3, <2>1, Values DEF Drops, TablesTyped, RowsStay, HasUser, HasProperty, NoticesOf
<1> QED
  BY <1>1, <1>2, <1>3 DEF TenantEffect

\* So do writes of accounts,
LEMMA UserTables ==
  ASSUME TablesTyped, NEW F, UserEffect(F)
  PROVE  TablesTyped' /\ RowsStay
<1>1. CASE MakesRole
  BY <1>1 DEF MakesRole, TablesTyped, RowsStay, HasUser, HasProperty
<1>2. ASSUME NEW u \in Users, NEW row \in UserRow, Enters(u, row)
      PROVE  TablesTyped' /\ RowsStay
  <2>1. user' = [user EXCEPT ![u] = row] /\ row # None /\ row.tenant \in Tenants \cup {None}
    BY <1>2, Values DEF Enters, UserRow
  <2>2. badge' \in [Users -> Tenants \cup {None}]
    BY <1>2, <2>1 DEF Enters, TablesTyped
  <2>3. RowsStay
    BY <1>2, <2>1 DEF Enters, TablesTyped, RowsStay, HasUser, HasProperty
  <2> QED
    BY <1>2, <2>1, <2>2, <2>3 DEF Enters, TablesTyped
<1>3. ASSUME NEW u \in Users, NEW e \in Emails, Mails(u, e)
      PROVE  TablesTyped' /\ RowsStay
  BY <1>3, Values DEF Mails, TablesTyped, RowsStay, HasUser, HasProperty, UserRow
<1>4. ASSUME NEW u \in Users, NEW role \in Roles, Promotes(u, role)
      PROVE  TablesTyped' /\ RowsStay
  BY <1>4, Values DEF Promotes, TablesTyped, RowsStay, HasUser, HasProperty, UserRow
<1>5. ASSUME NEW u \in Users, Fires(u)
      PROVE  TablesTyped' /\ RowsStay
  <2>1. \A n \in NoticeIds : notice[n] # None => [notice[n] EXCEPT !.user = None] \in NoticeRow
    BY DEF TablesTyped, NoticeRow
  <2> QED
    BY <1>5, <2>1, Values DEF Fires, TablesTyped, RowsStay, HasUser, HasProperty
<1> QED
  BY <1>1, <1>2, <1>3, <1>4, <1>5 DEF UserEffect

\* of notifications,
LEMMA NoticeTables ==
  ASSUME TablesTyped, NEW F, NoticeEffect(F)
  PROVE  TablesTyped' /\ RowsStay
<1>1. ASSUME NEW n \in NoticeIds, NEW u \in Users, NEW t \in Tenants, Tells(n, u, t)
      PROVE  TablesTyped' /\ RowsStay
  BY <1>1, Values DEF Tells, TablesTyped, RowsStay, HasUser, HasProperty, NoticeRow
<1>2. ASSUME NEW ids \in SUBSET NoticeIds, NEW time \in Times, Reads(ids, time)
      PROVE  TablesTyped' /\ RowsStay
  <2>1. \A n \in NoticeIds : notice[n] # None => [notice[n] EXCEPT !.readAt = time] \in NoticeRow
    BY DEF TablesTyped, NoticeRow
  <2> QED
    BY <1>2, <2>1, Values DEF Reads, TablesTyped, RowsStay, HasUser, HasProperty
<1> QED
  BY <1>1, <1>2 DEF NoticeEffect

\* of listings and what hangs on them,
LEMMA PropertyTables ==
  ASSUME TablesTyped, NEW F, PropertyEffect(F)
  PROVE  TablesTyped' /\ RowsStay
<1>1. ASSUME NEW p \in Properties, NEW row \in PropertyRow, Lists(p, row)
      PROVE  TablesTyped' /\ RowsStay
  BY <1>1, Values DEF Lists, TablesTyped, RowsStay, HasUser, HasProperty
<1>2. ASSUME NEW p \in Properties, NEW status \in Statuses, NEW owner \in Users,
             Sets(p, status, owner)
      PROVE  TablesTyped' /\ RowsStay
  <2>1. PICK patched \in BOOLEAN :
          property' = [property EXCEPT ![p].status = status, ![p].owner = owner,
                                       ![p].patched = patched]
    BY <1>2 DEF Sets
  <2>2. property[p] \in PropertyRow
    BY <1>2 DEF Sets, TablesTyped, HasProperty
  <2>3. /\ property'[p] \in PropertyRow /\ property'[p].tenant = property[p].tenant
        /\ \A q \in Properties \ {p} : property'[q] = property[q]
        /\ property' \in [Properties -> PropertyRow \cup {None}]
    BY <2>1, <2>2 DEF TablesTyped, PropertyRow
  <2> QED
    BY <1>2, <2>3, Values DEF Sets, TablesTyped, RowsStay, HasUser, HasProperty
<1>3. ASSUME NEW d \in DetailIds, NEW p \in Properties, NEW what \in Parts, Furnishes(d, p, what)
      PROVE  TablesTyped' /\ RowsStay
  BY <1>3 DEF Furnishes, TablesTyped, RowsStay, HasUser, HasProperty, DetailRow
<1>4. ASSUME NEW d \in DetailIds, Clears(d)
      PROVE  TablesTyped' /\ RowsStay
  BY <1>4 DEF Clears, TablesTyped, RowsStay, HasUser, HasProperty
<1>5. ASSUME NEW u \in Users, NEW p \in Properties, Saves(u, p) \/ Forgets(u, p)
      PROVE  TablesTyped' /\ RowsStay
  BY <1>5 DEF Saves, Forgets, TablesTyped, RowsStay, HasUser, HasProperty
<1> QED
  BY <1>1, <1>2, <1>3, <1>4, <1>5 DEF PropertyEffect

\* and every effect.
LEMMA EffectTables ==
  ASSUME TablesTyped, NEW F, Effect(F)
  PROVE  TablesTyped' /\ RowsStay
<1>1. CASE Nothing
  BY <1>1 DEF Nothing, TablesTyped, RowsStay, HasUser, HasProperty
<1> QED
  BY <1>1, TenantTables, UserTables, NoticeTables, PropertyTables DEF Effect

(***************************************************************************)
(* What a step tells the others covers what it changes.                     *)
(***************************************************************************)
ToldTenants(F) ==
  /\ \A s \in Slugs : SlugTaken(s)' /\ ~SlugTaken(s) => <<"slug", s>> \in F
  /\ \A s \in Slugs, t \in Tenants :
       SlugOfOther(s, t)' /\ ~SlugOfOther(s, t) => <<"slug", s>> \in F
  /\ \A t \in Tenants : HasTenant(t) /\ ~HasTenant(t)' => <<"tenant", t>> \in F
  /\ \A t \in Tenants :
       HasTenant(t)' /\ tenant'[t].status = "INACTIVE" =>
         (HasTenant(t) /\ tenant[t].status = "INACTIVE") \/ <<"status", t>> \in F

ToldUsers(F) ==
  /\ \A e \in Emails : EmailTaken(e)' /\ ~EmailTaken(e) => <<"email", e>> \in F
  /\ adminRole' /\ ~adminRole => <<"role", "TENANT_ADMIN">> \in F
  /\ \A u \in Users : HasUser(u) /\ ~HasUser(u)' => <<"user", u>> \in F
  /\ \A t \in Tenants : Empty(t) /\ ~Empty(t)' => <<"member", t>> \in F

ToldNotices(F) ==
  /\ \A t \in Tenants : NoticesOf(t) = {} /\ NoticesOf(t)' # {} => <<"notice", t>> \in F
  /\ \A n \in NoticeIds :
       notice[n] # None /\ notice'[n].readAt # notice[n].readAt => <<"read", n>> \in F

ToldListings(F) ==
  /\ \A p \in Properties :
       HasProperty(p) /\ Public(p) /\ ~Public(p)' =>
         <<"status", property[p].tenant>> \in F \/ <<"listing", p>> \in F
  /\ \A u \in Users, p \in Properties :
       <<u, p>> \in saved' /\ <<u, p>> \notin saved => <<"saved", <<u, p>>>> \in F
  /\ \A p \in Properties, what \in Amenities :
       Has(p, what)' /\ ~Has(p, what) => <<"amenity", <<p, what>>>> \in F

Told(F) == ToldTenants(F) /\ ToldUsers(F) /\ ToldNotices(F) /\ ToldListings(F)

\* Of tables that stay there is nothing to tell.
LEMMA NothingToTell ==
  ASSUME NEW F
  PROVE  /\ tenant' = tenant => ToldTenants(F)
         /\ user' = user /\ adminRole' = adminRole /\ property' = property => ToldUsers(F)
         /\ notice' = notice => ToldNotices(F)
         /\ tenant' = tenant /\ property' = property /\ saved' = saved /\ detail' = detail =>
              ToldListings(F)
<1>1. tenant' = tenant => ToldTenants(F)
  BY DEF ToldTenants, SlugTaken, SlugOfOther, HasTenant
<1>2. user' = user /\ adminRole' = adminRole /\ property' = property => ToldUsers(F)
  BY DEF ToldUsers, EmailTaken, HasUser, Empty, Staff, Listings, HasProperty
<1>3. notice' = notice => ToldNotices(F)
  BY DEF ToldNotices, NoticesOf
<1>4. tenant' = tenant /\ property' = property /\ saved' = saved /\ detail' = detail =>
        ToldListings(F)
  BY DEF ToldListings, Public, Has
<1> QED
  BY <1>1, <1>2, <1>3, <1>4

\* Whoever writes a tenant tells that its slug, its status or the tenant has gone.
LEMMA TenantTold ==
  ASSUME TablesTyped, RowsHaveOwners, NEW F, TenantEffect(F)
  PROVE  Told(F)
<1>1. ToldUsers(F)
  BY NothingToTell DEF TenantEffect, Founds, Renames, Turns, Drops
<1>2. ASSUME NEW t \in Tenants, NEW s \in Slugs, Founds(t, s) \/ Renames(t, s),
             F = {<<"slug", s>>}
      PROVE  Told(F)
  <2>1. /\ tenant'[t].slug = s /\ HasTenant(t)'
        /\ \A v \in Tenants \ {t} : tenant'[v] = tenant[v] /\ (HasTenant(v)' <=> HasTenant(v))
        /\ HasTenant(t) => tenant'[t].status = tenant[t].status
        /\ ~HasTenant(t) => tenant'[t].status = "ACTIVE"
    <3>1. CASE Founds(t, s)
      <4>1. [slug |-> s, status |-> "ACTIVE"] \in TenantRow
        BY DEF TenantRow, Statuses
      <4>2. tenant'[t] = [slug |-> s, status |-> "ACTIVE"] /\ ~HasTenant(t)
        BY <3>1 DEF Founds, TablesTyped, HasTenant
      <4>3. HasTenant(t)'
        BY <4>1, <4>2, Values DEF HasTenant
      <4> QED
        BY <3>1, <4>2, <4>3 DEF Founds, TablesTyped, HasTenant
    <3>2. CASE Renames(t, s)
      BY <3>2, Values DEF Renames, TablesTyped, HasTenant, TenantRow
    <3> QED
      BY <1>2, <3>1, <3>2
  <2>2. ToldTenants(F)
    BY <1>2, <2>1 DEF ToldTenants, SlugTaken, SlugOfOther
  <2>3. ToldNotices(F)
    BY <1>2, NothingToTell DEF Founds, Renames
  <2>4. ToldListings(F)
    <3>1. \A p \in Properties : HasProperty(p) =>
            tenant'[property[p].tenant].status = tenant[property[p].tenant].status
      BY <2>1 DEF RowsHaveOwners, TablesTyped, HasProperty, PropertyRow
    <3> QED
      BY <1>2, <3>1 DEF Founds, Renames, ToldListings, Public, Has
  <2> QED
    BY <1>1, <2>2, <2>3, <2>4 DEF Told
<1>3. ASSUME NEW t \in Tenants, NEW status \in Statuses, Turns(t, status), F = {<<"status", t>>}
      PROVE  Told(F)
  <2>1. /\ tenant'[t].slug = tenant[t].slug
        /\ \A v \in Tenants \ {t} : tenant'[v] = tenant[v]
        /\ \A v \in Tenants : HasTenant(v)' <=> HasTenant(v)
    BY <1>3, Values DEF Turns, TablesTyped, HasTenant, TenantRow
  <2>2. ToldTenants(F)
    BY <1>3, <2>1 DEF ToldTenants, SlugTaken, SlugOfOther
  <2>3. ToldNotices(F)
    BY <1>3, NothingToTell DEF Turns
  <2>4. ToldListings(F)
    <3>1. \A p \in Properties : HasProperty(p) => property[p].tenant \in Tenants
      BY DEF TablesTyped, HasProperty, PropertyRow
    <3> QED
      BY <1>3, <2>1, <3>1 DEF Turns, ToldListings, Public, Has
  <2> QED
    BY <1>1, <2>2, <2>3, <2>4 DEF Told
<1>4. ASSUME NEW t \in Tenants, Drops(t), F = {<<"tenant", t>>}
      PROVE  Told(F)
  <2>1. /\ ~HasTenant(t)'
        /\ \A v \in Tenants \ {t} : tenant'[v] = tenant[v] /\ (HasTenant(v)' <=> HasTenant(v))
    BY <1>4, Values DEF Drops, TablesTyped, HasTenant
  <2>2. ToldTenants(F)
    BY <1>4, <2>1 DEF ToldTenants, SlugTaken, SlugOfOther
  <2>3. ToldNotices(F)
    <3>1. \A n \in NoticeIds : notice[n] # None =>
            /\ notice'[n].readAt = notice[n].readAt
            /\ notice'[n].tenant \in {notice[n].tenant, None}
      BY <1>4 DEF Drops, TablesTyped, NoticeRow, NoticesOf
    <3>2. \A n \in NoticeIds : notice[n] = None => notice'[n] = None
      BY <1>4 DEF Drops, NoticesOf
    <3> QED
      BY <3>1, <3>2, Values DEF ToldNotices, NoticesOf
  <2>4. ToldListings(F)
    <3>1. \A p \in Properties : HasProperty(p) =>
            property[p].tenant \in Tenants /\ property[p].tenant # t
      BY <1>4 DEF Drops, Empty, Listings, TablesTyped, HasProperty, PropertyRow
    <3> QED
      BY <1>4, <2>1, <3>1 DEF Drops, ToldListings, Public, Has
  <2> QED
    BY <1>1, <2>2, <2>3, <2>4 DEF Told
<1> QED
  BY <1>2, <1>3, <1>4 DEF TenantEffect

\* Whoever writes an account tells its email, its tenant and its end.
LEMMA UserTold ==
  ASSUME TablesTyped, NEW F, UserEffect(F)
  PROVE  Told(F)
<1>1. ToldTenants(F) /\ ToldListings(F)
  BY NothingToTell DEF UserEffect, MakesRole, Enters, Mails, Promotes, Fires
<1>2. CASE MakesRole /\ F = {<<"role", "TENANT_ADMIN">>}
  <2>1. ToldUsers(F)
    BY <1>2 DEF MakesRole, ToldUsers, EmailTaken, HasUser, Empty, Staff, Listings, HasProperty
  <2> QED
    BY <1>1, <1>2, <2>1, NothingToTell DEF MakesRole, Told
<1>3. ASSUME NEW u \in Users, NEW row \in UserRow, Enters(u, row),
             <<"email", row.email>> \in F, row.tenant # None => <<"member", row.tenant>> \in F
      PROVE  Told(F)
  <2>1. /\ user'[u] = row /\ ~HasUser(u) /\ adminRole' = adminRole /\ property' = property
        /\ \A v \in Users \ {u} : user'[v] = user[v] /\ (HasUser(v)' <=> HasUser(v))
    BY <1>3 DEF Enters, TablesTyped, HasUser
  <2>2. \A e \in Emails : EmailTaken(e)' /\ ~EmailTaken(e) => e = row.email
    BY <2>1 DEF EmailTaken
  <2>3. \A t \in Tenants : t # row.tenant => Staff(t)' \subseteq Staff(t)
    BY <2>1 DEF Staff
  <2>4. \A t \in Tenants : Empty(t) /\ ~Empty(t)' => t = row.tenant
    BY <2>1, <2>3 DEF Empty, Listings, HasProperty
  <2>5. ToldUsers(F)
    BY <1>3, <2>1, <2>2, <2>4, Values DEF ToldUsers
  <2> QED
    BY <1>1, <1>3, <2>5, NothingToTell DEF Enters, Told
<1>4. ASSUME NEW u \in Users, NEW e \in Emails, Mails(u, e), F = {<<"email", e>>}
      PROVE  Told(F)
  <2>1. /\ user'[u].email = e /\ user'[u].tenant = user[u].tenant
        /\ adminRole' = adminRole /\ property' = property
        /\ \A v \in Users \ {u} : user'[v] = user[v]
        /\ \A v \in Users : HasUser(v)' <=> HasUser(v)
    BY <1>4, Values DEF Mails, TablesTyped, HasUser, UserRow
  <2>2. \A d \in Emails : EmailTaken(d)' /\ ~EmailTaken(d) => d = e
    BY <2>1 DEF EmailTaken
  <2>3. \A t \in Tenants : Empty(t)' <=> Empty(t)
    BY <2>1 DEF Empty, Staff, Listings, HasProperty
  <2>4. ToldUsers(F)
    BY <1>4, <2>1, <2>2, <2>3 DEF ToldUsers
  <2> QED
    BY <1>1, <1>4, <2>4, NothingToTell DEF Mails, Told
<1>5. ASSUME NEW u \in Users, NEW role \in Roles, Promotes(u, role)
      PROVE  Told(F)
  <2>1. /\ user'[u].email = user[u].email /\ user'[u].tenant = user[u].tenant
        /\ adminRole' = adminRole /\ property' = property
        /\ \A v \in Users \ {u} : user'[v] = user[v]
        /\ \A v \in Users : HasUser(v)' <=> HasUser(v)
    BY <1>5, Values DEF Promotes, TablesTyped, HasUser, UserRow
  <2>2. \A d \in Emails : EmailTaken(d)' <=> EmailTaken(d)
    BY <2>1 DEF EmailTaken
  <2>3. \A t \in Tenants : Empty(t)' <=> Empty(t)
    BY <2>1 DEF Empty, Staff, Listings, HasProperty
  <2>4. ToldUsers(F)
    BY <2>1, <2>2, <2>3 DEF ToldUsers
  <2> QED
    BY <1>1, <1>5, <2>4, NothingToTell DEF Promotes, Told
<1>6. ASSUME NEW u \in Users, Fires(u), F = {<<"user", u>>}
      PROVE  Told(F)
  <2>1. /\ ~HasUser(u)' /\ adminRole' = adminRole /\ property' = property
        /\ \A v \in Users \ {u} : user'[v] = user[v] /\ (HasUser(v)' <=> HasUser(v))
    BY <1>6 DEF Fires, TablesTyped, HasUser
  <2>2. \A e \in Emails : EmailTaken(e)' => EmailTaken(e)
    BY <2>1 DEF EmailTaken
  <2>3. \A t \in Tenants : Staff(t)' \subseteq Staff(t)
    BY <2>1 DEF Staff
  <2>4. \A t \in Tenants : Empty(t) => Empty(t)'
    BY <2>1, <2>3 DEF Empty, Listings, HasProperty
  <2>5. ToldUsers(F)
    BY <1>6, <2>1, <2>2, <2>4 DEF ToldUsers
  <2>6. \A n \in NoticeIds :
          /\ notice[n] = None => notice'[n] = None
          /\ notice[n] # None => /\ notice'[n].readAt = notice[n].readAt
                                 /\ notice'[n].tenant = notice[n].tenant
    BY <1>6 DEF Fires, TablesTyped, NoticeRow
  <2>7. ToldNotices(F)
    BY <2>6 DEF ToldNotices, NoticesOf
  <2> QED
    BY <1>1, <2>5, <2>7 DEF Told
<1> QED
  BY <1>2, <1>3, <1>4, <1>5, <1>6 DEF UserEffect

\* Whoever writes notifications tells their tenant or that they were read.
LEMMA NoticeTold ==
  ASSUME TablesTyped, NEW F, NoticeEffect(F)
  PROVE  Told(F)
<1>1. ToldTenants(F) /\ ToldUsers(F) /\ ToldListings(F)
  BY NothingToTell DEF NoticeEffect, Tells, Reads
<1>2. ASSUME NEW n \in NoticeIds, NEW u \in Users, NEW t \in Tenants, Tells(n, u, t),
             F = {<<"notice", t>>}
      PROVE  ToldNotices(F)
  <2>1. /\ notice'[n].tenant = t /\ notice[n] = None
        /\ \A m \in NoticeIds \ {n} : notice'[m] = notice[m]
    BY <1>2 DEF Tells, TablesTyped
  <2> QED
    BY <1>2, <2>1 DEF ToldNotices, NoticesOf
<1>3. ASSUME NEW ids \in SUBSET NoticeIds, NEW time \in Times, Reads(ids, time),
             \A n \in ids : notice[n].readAt # time => <<"read", n>> \in F
      PROVE  ToldNotices(F)
  <2>1. \A n \in NoticeIds :
          /\ notice[n] = None => notice'[n] = None
          /\ notice[n] # None => /\ notice'[n].tenant = notice[n].tenant
                                 /\ notice'[n].readAt = IF n \in ids THEN time ELSE notice[n].readAt
    BY <1>3 DEF Reads, TablesTyped, NoticeRow
  <2> QED
    BY <1>3, <2>1 DEF ToldNotices, NoticesOf
<1> QED
  BY <1>1, <1>2, <1>3 DEF NoticeEffect, Told

\* Whoever writes a listing, an amenity or a favorite tells it.
LEMMA PropertyTold ==
  ASSUME TablesTyped, NEW F, PropertyEffect(F)
  PROVE  Told(F)
<1>1. ToldTenants(F) /\ ToldNotices(F)
  BY NothingToTell DEF PropertyEffect, Lists, Sets, Furnishes, Clears, Saves, Forgets
<1>2. ASSUME NEW p \in Properties, NEW row \in PropertyRow, Lists(p, row),
             <<"member", row.tenant>> \in F
      PROVE  Told(F)
  <2>1. /\ property'[p] = row /\ property[p] = None
        /\ \A q \in Properties \ {p} : property'[q] = property[q]
    BY <1>2 DEF Lists, TablesTyped
  <2>2. \A t \in Tenants : t # row.tenant => Listings(t)' \subseteq Listings(t)
    BY <2>1 DEF Listings, HasProperty
  <2>3. \A t \in Tenants : Empty(t) /\ ~Empty(t)' => t = row.tenant
    BY <1>2, <2>2 DEF Lists, Empty, Staff, HasUser
  <2>4. ToldUsers(F)
    BY <1>2, <2>3 DEF Lists, ToldUsers, EmailTaken, HasUser
  <2>5. ToldListings(F)
    BY <1>2, <2>1 DEF Lists, ToldListings, Public, Has, HasProperty
  <2> QED
    BY <1>1, <2>4, <2>5 DEF Told
<1>3. ASSUME NEW p \in Properties, NEW status \in Statuses, NEW owner \in Users,
             Sets(p, status, owner), <<"listing", p>> \in F
      PROVE  Told(F)
  <2>1. /\ property'[p].tenant = property[p].tenant /\ HasProperty(p) /\ HasProperty(p)'
        /\ \A q \in Properties \ {p} : property'[q] = property[q]
    <3>1. RowsStay
      BY <1>3, PropertyTables DEF PropertyEffect
    <3> QED
      BY <1>3, <3>1 DEF Sets, RowsStay, TablesTyped
  <2>2. \A t \in Tenants : Listings(t)' = Listings(t)
    BY <2>1 DEF Listings, HasProperty
  <2>3. ToldUsers(F)
    BY <1>3, <2>2 DEF Sets, ToldUsers, EmailTaken, HasUser, Empty, Staff
  <2>4. ToldListings(F)
    BY <1>3, <2>1 DEF Sets, ToldListings, Public, Has
  <2> QED
    BY <1>1, <2>3, <2>4 DEF Told
<1>4. ASSUME NEW d \in DetailIds, NEW p \in Properties, NEW what \in Parts,
             Furnishes(d, p, what), what \in Amenities => <<"amenity", <<p, what>>>> \in F
      PROVE  Told(F)
  <2>1. /\ detail'[d] = [property |-> p, what |-> what]
        /\ \A c \in DetailIds \ {d} : detail'[c] = detail[c]
    BY <1>4 DEF Furnishes, TablesTyped
  <2>2. \A q \in Properties, w \in Amenities : Has(q, w)' /\ ~Has(q, w) => q = p /\ w = what
    BY <2>1 DEF Has
  <2>3. ToldListings(F)
    BY <1>4, <2>2 DEF Furnishes, ToldListings, Public
  <2> QED
    BY <1>1, <1>4, <2>3, NothingToTell DEF Furnishes, Told
<1>5. ASSUME NEW d \in DetailIds, Clears(d)
      PROVE  Told(F)
  <2>1. detail'[d] = Gone /\ \A c \in DetailIds \ {d} : detail'[c] = detail[c]
    BY <1>5 DEF Clears, TablesTyped
  <2>2. \A q \in Properties, w \in Amenities : [property |-> q, what |-> w] \in DetailRow
    BY DEF DetailRow, Parts
  <2>3. \A q \in Properties, w \in Amenities : Has(q, w)' => Has(q, w)
    BY <2>1, <2>2, Values DEF Has
  <2>4. ToldListings(F)
    BY <1>5, <2>3 DEF Clears, ToldListings, Public
  <2> QED
    BY <1>1, <1>5, <2>4, NothingToTell DEF Clears, Told
<1>6. ASSUME NEW u \in Users, NEW p \in Properties,
             \/ Saves(u, p) /\ <<"saved", <<u, p>>>> \in F
             \/ Forgets(u, p)
      PROVE  Told(F)
  <2>1. ToldListings(F)
    BY <1>6 DEF Saves, Forgets, ToldListings, Public, Has
  <2> QED
    BY <1>1, <1>6, <2>1, NothingToTell DEF Saves, Forgets, Told
<1> QED
  BY <1>2, <1>3, <1>4, <1>5, <1>6 DEF PropertyEffect

\* Every effect tells what it changes.
LEMMA EffectTold ==
  ASSUME TablesTyped, RowsHaveOwners, NEW F, Effect(F)
  PROVE  Told(F)
<1>1. CASE Nothing
  BY <1>1, NothingToTell DEF Nothing, Told
<1> QED
  BY <1>1, TenantTold, UserTold, NoticeTold, PropertyTold DEF Effect

(***************************************************************************)
(* The requests.                                                            *)
(***************************************************************************)
\* The owner and the admins a request has found have been accounts of its tenant.
Sure(q) ==
  /\ q.at = "insertProperty" =>
       user[q.user] # None /\ (HasUser(q.user) => user[q.user].tenant = q.tenant)
  /\ q.at = "tell" => \A u \in q.to :
       user[u] # None /\ (HasUser(u) => user[u].tenant = q.tenant)

\* Request q has moved on, and is as it should be.
Good(q) ==
  /\ req'[q] \in Request /\ RequestOK(req[q])'
  /\ Kept(req[q])' /\ Sure(req[q])'

\* Request q has stayed, and has been told F.
Carried(q, F) == req'[q] = Later(req[q], F)

Turn(F) ==
  /\ F \in SUBSET Facts /\ Effect(F)
  /\ req' = [q \in Requests |-> req'[q]]
  /\ \A q \in Requests : Carried(q, F) \/ Good(q)

\* What a request holds does not change by what it is told.
LEMMA LaterSame ==
  ASSUME NEW q \in Request, NEW F \in SUBSET Facts
  PROVE  /\ Later(q, F) \in Request
         /\ Later(q, F).stale = q.stale \cup (F \cap Watched(q))
         /\ Later(q, F).at = q.at /\ Later(q, F).tenant = q.tenant /\ Later(q, F).slug = q.slug
         /\ Later(q, F).user = q.user /\ Later(q, F).email = q.email
         /\ Later(q, F).property = q.property /\ Later(q, F).status = q.status
         /\ Later(q, F).what = q.what /\ Later(q, F).notice = q.notice
         /\ Later(q, F).seen = q.seen /\ Later(q, F).to = q.to
BY DEF Later, Request

\* Who is told nothing stays the same.
LEMMA LaterNone ==
  ASSUME NEW q \in Request
  PROVE  Later(q, {}) = q
BY DEF Later, Request

\* What a request still goes by is what it went by, or it has been told.
LEMMA CarriedGood ==
  ASSUME TablesTyped, ReqTyped, RowsStay, NEW F \in SUBSET Facts, Told(F),
         NEW q \in Requests, Carried(q, F), Kept(req[q]), Sure(req[q])
  PROVE  Good(q)
<1>x. PICK x : x = req[q]
  OBVIOUS
<1>y. PICK y : y = req'[q]
  OBVIOUS
<1>1. /\ y \in Request /\ y.stale = x.stale \cup (F \cap Watched(x))
      /\ y.at = x.at /\ y.tenant = x.tenant /\ y.slug = x.slug /\ y.user = x.user
      /\ y.email = x.email /\ y.property = x.property /\ y.status = x.status
      /\ y.what = x.what /\ y.notice = x.notice /\ y.seen = x.seen /\ y.to = x.to
  BY <1>x, <1>y, LaterSame DEF Carried, ReqTyped
<1>2. x \in Request /\ RequestOK(x)
  BY <1>x DEF ReqTyped
<1>3. RequestOK(req[q])'
  BY <1>1, <1>2, <1>y DEF RequestOK, RowsStay, Request
<1>4. \A tag, v : <<tag, v>> \in F /\ <<tag, v>> \in About(x) /\ tag \in Looks[x.at] =>
        <<tag, v>> \in y.stale
  <2>1. \A tag, v : <<tag, v>>[1] = tag
    OBVIOUS
  <2> QED
    BY <1>1, <2>1 DEF Watched
<1>5. x.stale \subseteq y.stale
  BY <1>1
<1>6. Sure(req[q])'
  BY <1>1, <1>2, <1>x, <1>y DEF Sure, RowsStay, Request, RequestOK
<1>20. /\ <<"slug", x.slug>> \in About(x) /\ <<"email", x.email>> \in About(x)
       /\ <<"role", "TENANT_ADMIN">> \in About(x) /\ <<"tenant", x.tenant>> \in About(x)
       /\ <<"member", x.tenant>> \in About(x) /\ <<"notice", x.tenant>> \in About(x)
       /\ <<"status", x.tenant>> \in About(x) /\ <<"user", x.user>> \in About(x)
       /\ <<"listing", x.property>> \in About(x) /\ <<"read", x.notice>> \in About(x)
       /\ <<"saved", <<x.user, x.property>>>> \in About(x)
       /\ <<"amenity", <<x.property, x.what>>>> \in About(x)
       /\ \A u \in x.to : <<"user", u>> \in About(x)
  BY DEF About
<1>21. Kept(x) /\ RequestOK(x) /\ x \in Request
  BY <1>2, <1>x
<1>22. /\ x.at \in {"insertTenant", "updateTenant"} => "slug" \in Looks[x.at]
       /\ x.at \in {"updateTenant", "dropTenant", "findRole", "insertRole",
                   "insertUser", "findOwner", "insertProperty", "tell"} => "tenant" \in Looks[x.at]
       /\ x.at \in {"findRole", "insertRole", "insertUser"} => "email" \in Looks[x.at]
       /\ x.at = "insertRole" => "role" \in Looks[x.at]
       /\ x.at = "dropTenant" => "member" \in Looks[x.at]
       /\ x.at = "dropTenant" => "notice" \in Looks[x.at]
       /\ x.at \in {"findOwner", "insertProperty", "findSaved", "insertSaved"} => "status" \in Looks[x.at]
       /\ x.at \in {"insertProperty", "tell"} => "user" \in Looks[x.at]
       /\ x.at \in {"findSaved", "insertSaved"} => "listing" \in Looks[x.at]
       /\ x.at = "insertSaved" => "saved" \in Looks[x.at]
       /\ x.at = "insertAmenity" => "amenity" \in Looks[x.at]
       /\ x.at = "writeRead" => "read" \in Looks[x.at]
  BY DEF Looks
<1>7. /\ x.at = "insertTenant" /\ SlugTaken(x.slug)' => <<"slug", x.slug>> \in y.stale
      /\ x.at = "updateTenant" /\ SlugOfOther(x.slug, x.tenant)' => <<"slug", x.slug>> \in y.stale
  BY <1>21, <1>22, <1>20, <1>4, <1>5 DEF Kept, Told, ToldTenants, RequestOK
<1>8. x.at \in {"findRole", "insertRole", "insertUser"} /\ EmailTaken(x.email)' =>
        <<"email", x.email>> \in y.stale
  BY <1>21, <1>22, <1>20, <1>4, <1>5 DEF Kept, Told, ToldUsers, RequestOK
<1>9. x.at = "insertRole" /\ adminRole' => <<"role", "TENANT_ADMIN">> \in y.stale
  BY <1>21, <1>22, <1>20, <1>4, <1>5 DEF Kept, Told, ToldUsers
<1>10. x.at \in {"updateTenant", "dropTenant", "findRole", "insertRole", "insertUser",
                 "findOwner", "insertProperty", "tell"} /\ ~HasTenant(x.tenant)' =>
         <<"tenant", x.tenant>> \in y.stale
  BY <1>21, <1>22, <1>20, <1>4, <1>5 DEF Kept, Told, ToldTenants, RequestOK
<1>11. /\ x.at = "dropTenant" /\ ~Empty(x.tenant)' => <<"member", x.tenant>> \in y.stale
       /\ x.at = "dropTenant" /\ NoticesOf(x.tenant)' # {} => <<"notice", x.tenant>> \in y.stale
  BY <1>21, <1>22, <1>20, <1>4, <1>5 DEF Kept, Told, ToldUsers, ToldNotices, RequestOK
<1>12. x.at \in {"findOwner", "insertProperty"} /\ HasTenant(x.tenant)' /\ x.status = "ACTIVE"
         /\ tenant'[x.tenant].status = "INACTIVE" => <<"status", x.tenant>> \in y.stale
  BY <1>21, <1>22, <1>20, <1>4, <1>5 DEF Kept, Told, ToldTenants, RequestOK
<1>13. x.at = "insertProperty" /\ ~HasUser(x.user)' => <<"user", x.user>> \in y.stale
  BY <1>21, <1>22, <1>20, <1>4, <1>5 DEF Kept, Told, ToldUsers, RequestOK
<1>14. x.at = "tell" => \A u \in x.to : ~HasUser(u)' => <<"user", u>> \in y.stale
  BY <1>21, <1>22, <1>20, <1>4, <1>5 DEF Kept, Told, ToldUsers, Request
<1>15. x.at \in {"findSaved", "insertSaved"} /\ ~Public(x.property)' =>
         <<"status", x.tenant>> \in y.stale \/ <<"listing", x.property>> \in y.stale
  BY <1>21, <1>22, <1>20, <1>4, <1>5 DEF Kept, Told, ToldListings, RequestOK
<1>16. x.at = "insertSaved" /\ <<x.user, x.property>> \in saved' =>
         <<"saved", <<x.user, x.property>>>> \in y.stale
  BY <1>21, <1>22, <1>20, <1>4, <1>5 DEF Kept, Told, ToldListings, RequestOK
<1>17. x.at = "insertAmenity" /\ Has(x.property, x.what)' =>
         <<"amenity", <<x.property, x.what>>>> \in y.stale
  BY <1>21, <1>22, <1>20, <1>4, <1>5 DEF Kept, Told, ToldListings, RequestOK
<1>18. x.at = "writeRead" /\ notice'[x.notice].readAt # x.seen => <<"read", x.notice>> \in y.stale
  BY <1>21, <1>22, <1>20, <1>4, <1>5 DEF Kept, Told, ToldNotices, RequestOK
<1>19. Kept(req[q])'
  BY <1>y, <1>1, <1>7, <1>8, <1>9, <1>10, <1>11, <1>12, <1>13, <1>14, <1>15, <1>16, <1>17, <1>18
  DEF Kept
<1> QED
  BY <1>y, <1>1, <1>3, <1>6, <1>19 DEF Good

\* All that is shown to hold together.
Sound ==
  /\ TypeOK /\ RowsHaveOwners /\ ChecksKept
  /\ \A q \in Requests : Sure(req[q])

\* A turn of some request keeps what is known of all of them.
LEMMA TurnKeeps ==
  ASSUME Sound, NEW F, Turn(F)
  PROVE  /\ TypeOK' /\ RowsStay
         /\ \A q \in Requests : Kept(req[q])' /\ Sure(req[q])'
<1>1. TablesTyped /\ ReqTyped
  BY SplitType DEF Sound
<1>2. TablesTyped' /\ RowsStay /\ Told(F)
  BY <1>1, EffectTables, EffectTold DEF Sound, Turn
<1>3. \A q \in Requests : Good(q)
  BY <1>1, <1>2, CarriedGood DEF Turn, Sound, ChecksKept
<1>4. ReqTyped'
  <2>1. req' \in [Requests -> Request]
    BY <1>3 DEF Turn, Good
  <2> QED
    BY <1>3, <2>1 DEF ReqTyped, Good
<1> QED
  BY <1>2, <1>3, <1>4, SplitType DEF Good

\* A request that has ended holds nothing.
LEMMA IdleGood ==
  ASSUME NEW q \in Requests, req'[q] = Idle
  PROVE  Good(q)
BY DEF Good, Idle, Request, Steps, Looks, RequestOK, Kept, Sure

\* A request that writes and goes on.
LEMMA WroteTurn ==
  ASSUME Sound, NEW r \in Requests, NEW next, NEW F \in SUBSET Facts,
         Wrote(r, next, F), Effect(F), req'[r] = next => Good(r)
  PROVE  \E G : Turn(G)
<1>1. \A q \in Requests \ {r} : Carried(q, F)
  BY DEF Wrote, Carried
<1>2. req'[r] = next /\ req' = [q \in Requests |-> req'[q]]
  BY DEF Wrote
<1> QED
  BY <1>1, <1>2 DEF Turn

\* One that writes by its only statement.
LEMMA ChangedTurn ==
  ASSUME Sound, NEW F \in SUBSET Facts, Changed(F), Effect(F)
  PROVE  \E G : Turn(G)
<1>1. \A q \in Requests : Carried(q, F)
  BY DEF Changed, Carried
<1>2. req' = [q \in Requests |-> req'[q]]
  BY DEF Changed
<1> QED
  BY <1>1, <1>2 DEF Turn

\* One that changes what no other goes by.
LEMMA StillTurn ==
  ASSUME Sound, Effect({}), req' = req
  PROVE  \E G : Turn(G)
<1>1. req \in [Requests -> Request]
  BY DEF Sound, TypeOK
<1>2. \A q \in Requests : Carried(q, {})
  BY <1>1, LaterNone DEF Carried
<1>3. req' = [q \in Requests |-> req'[q]]
  BY <1>1
<1> QED
  BY <1>2, <1>3 DEF Turn

\* One that reads and goes on.
LEMMA ReadTurn ==
  ASSUME Sound, NEW r \in Requests, NEW next, req' = [req EXCEPT ![r] = next],
         UNCHANGED tables, req'[r] = next => Good(r)
  PROVE  \E G : Turn(G)
<1>1. req \in [Requests -> Request] /\ now \in Times
  BY DEF Sound, TypeOK
<1>2. req'[r] = next /\ \A q \in Requests \ {r} : Carried(q, {})
  BY <1>1, LaterNone DEF Carried
<1>3. req' = [q \in Requests |-> req'[q]]
  BY <1>1
<1>4. Effect({})
  BY <1>1 DEF Effect, Nothing, tables
<1> QED
  BY <1>2, <1>3, <1>4 DEF Turn

\* One that ends without a write.
LEMMA EndTurn ==
  ASSUME Sound, NEW r \in Requests, Finish(r), UNCHANGED tables
  PROVE  \E G : Turn(G)
BY ReadTurn, IdleGood DEF Finish

(***************************************************************************)
(* The handlers of Platform.                                                *)
(***************************************************************************)
\* A request begins with what its first statement has found.
LEMMA BeginPlatformTurn ==
  ASSUME Sound, NEW r \in Requests,
         \/ BeginCreateTenant(r) \/ BeginUpdateTenant(r) \/ BeginDeleteTenant(r) \/ BeginHire(r)
  PROVE  \E G : Turn(G)
<1>1. CASE BeginCreateTenant(r)
  <2>1. PICK s \in Slugs :
          /\ ~SlugTaken(s) /\ UNCHANGED tables
          /\ req' = [req EXCEPT ![r] = [Idle EXCEPT !.at = "insertTenant", !.slug = s]]
    BY <1>1 DEF BeginCreateTenant, Start
  <2>2. ASSUME req'[r] = [Idle EXCEPT !.at = "insertTenant", !.slug = s]
        PROVE  Good(r)
    <3>1. req'[r] \in Request /\ req'[r].at = "insertTenant" /\ req'[r].slug = s
      BY <2>2 DEF Idle, Request, Steps, Looks
    <3> QED
      BY <3>1, <2>1 DEF Good, RequestOK, Kept, Sure, SlugTaken, HasTenant, tables
  <2> QED
    BY <2>1, <2>2, ReadTurn
<1>2. CASE BeginUpdateTenant(r)
  <2>1. PICK t \in Tenants, s \in Slugs :
          /\ HasTenant(t) /\ ~SlugOfOther(s, t) /\ UNCHANGED tables
          /\ req' = [req EXCEPT ![r] = [Idle EXCEPT !.at = "updateTenant", !.tenant = t, !.slug = s]]
    BY <1>2 DEF BeginUpdateTenant, Start
  <2>2. ASSUME req'[r] = [Idle EXCEPT !.at = "updateTenant", !.tenant = t, !.slug = s]
        PROVE  Good(r)
    <3>1. /\ req'[r] \in Request /\ req'[r].at = "updateTenant"
          /\ req'[r].tenant = t /\ req'[r].slug = s
      BY <2>2 DEF Idle, Request, Steps, Looks
    <3> QED
      BY <3>1, <2>1 DEF Good, RequestOK, Kept, Sure, SlugOfOther, HasTenant, tables
  <2> QED
    BY <2>1, <2>2, ReadTurn
<1>3. CASE BeginDeleteTenant(r)
  <2>1. PICK t \in Tenants :
          /\ HasTenant(t) /\ Empty(t) /\ NoticesOf(t) = {} /\ UNCHANGED tables
          /\ req' = [req EXCEPT ![r] = [Idle EXCEPT !.at = "dropTenant", !.tenant = t]]
    BY <1>3 DEF BeginDeleteTenant, Start
  <2>2. HasTenant(t)' /\ Empty(t)' /\ NoticesOf(t)' = {}
    BY <2>1 DEF HasTenant, Empty, Staff, Listings, HasUser, HasProperty, NoticesOf, tables
  <2>3. ASSUME req'[r] = [Idle EXCEPT !.at = "dropTenant", !.tenant = t]
        PROVE  Good(r)
    <3>1. /\ req'[r] \in Request /\ req'[r].at = "dropTenant"
          /\ req'[r].tenant = t
      BY <2>3 DEF Idle, Request, Steps, Looks
    <3> QED
      BY <3>1, <2>2 DEF Good, RequestOK, Kept, Sure
  <2> QED
    BY <2>1, <2>3, ReadTurn
<1>4. CASE BeginHire(r)
  <2>1. PICK t \in Tenants, e \in Emails :
          /\ HasTenant(t) /\ ~EmailTaken(e) /\ UNCHANGED tables
          /\ req' = [req EXCEPT ![r] = [Idle EXCEPT !.at = "findRole", !.tenant = t, !.email = e]]
    BY <1>4 DEF BeginHire, Start
  <2>2. ASSUME req'[r] = [Idle EXCEPT !.at = "findRole", !.tenant = t, !.email = e]
        PROVE  Good(r)
    <3>1. /\ req'[r] \in Request /\ req'[r].at = "findRole"
          /\ req'[r].tenant = t /\ req'[r].email = e
      BY <2>2 DEF Idle, Request, Steps, Looks
    <3> QED
      BY <3>1, <2>1 DEF Good, RequestOK, Kept, Sure, EmailTaken, HasUser, HasTenant, tables
  <2> QED
    BY <2>1, <2>2, ReadTurn
<1> QED
  BY <1>1, <1>2, <1>3, <1>4

\* A request writes a tenant, or is refused.
LEMMA TenantTurn ==
  ASSUME Sound, NEW r \in Requests,
         InsertTenant(r) \/ UpdateTenant(r) \/ DropTenant(r) \/ SetStatus(r)
  PROVE  \E G : Turn(G)
<1>1. RequestOK(req[r])
  BY DEF Sound, TypeOK
<1>2. CASE InsertTenant(r)
  <2> DEFINE s == req[r].slug
  <2>1. s \in Slugs
    BY <1>1, <1>2 DEF InsertTenant, RequestOK
  <2>2. CASE SlugTaken(s) /\ Finish(r) /\ UNCHANGED tables
    BY <2>2, EndTurn
  <2>3. ASSUME ~SlugTaken(s), UNCHANGED <<user, property, adminRole, notice, detail, saved, badge, scene, now>>,
               Wrote(r, Idle, {<<"slug", s>>}), NEW t \in Tenants, tenant[t] = None,
               tenant' = [tenant EXCEPT ![t] = [slug |-> s, status |-> "ACTIVE"]]
        PROVE  \E G : Turn(G)
    <3>1. Effect({<<"slug", s>>})
      BY <2>1, <2>3 DEF Effect, TenantEffect, Founds
    <3>2. {<<"slug", s>>} \in SUBSET Facts
      BY <2>1 DEF Facts
    <3> QED
      BY <2>3, <3>1, <3>2, WroteTurn, IdleGood
  <2> QED
    BY <1>2, <2>2, <2>3 DEF InsertTenant, NewKey, tables
<1>3. CASE UpdateTenant(r)
  <2> DEFINE s == req[r].slug
             t == req[r].tenant
  <2>1. s \in Slugs /\ t \in Tenants
    BY <1>1, <1>3 DEF UpdateTenant, RequestOK
  <2>2. CASE Finish(r) /\ UNCHANGED tables
    BY <2>2, EndTurn
  <2>3. ASSUME HasTenant(t), ~SlugOfOther(s, t), tenant' = [tenant EXCEPT ![t].slug = s],
               UNCHANGED <<user, property, adminRole, notice, detail, saved, badge, scene, now>>,
               Wrote(r, Idle, {<<"slug", s>>})
        PROVE  \E G : Turn(G)
    <3>1. Effect({<<"slug", s>>})
      BY <2>1, <2>3 DEF Effect, TenantEffect, Renames
    <3>2. {<<"slug", s>>} \in SUBSET Facts
      BY <2>1 DEF Facts
    <3> QED
      BY <2>3, <3>1, <3>2, WroteTurn, IdleGood
  <2> QED
    BY <1>3, <2>2, <2>3 DEF UpdateTenant, tables
<1>4. CASE DropTenant(r)
  <2> DEFINE t == req[r].tenant
  <2>1. t \in Tenants
    BY <1>1, <1>4 DEF DropTenant, RequestOK
  <2>2. CASE Finish(r) /\ UNCHANGED tables
    BY <2>2, EndTurn
  <2>3. ASSUME Drops(t), Wrote(r, Idle, {<<"tenant", t>>})
        PROVE  \E G : Turn(G)
    <3>1. Effect({<<"tenant", t>>})
      BY <2>1, <2>3 DEF Effect, TenantEffect
    <3>2. {<<"tenant", t>>} \in SUBSET Facts
      BY <2>1 DEF Facts
    <3> QED
      BY <2>3, <3>1, <3>2, WroteTurn, IdleGood
  <2> QED
    BY <1>4, <2>2, <2>3 DEF DropTenant, Drops, tables
<1>5. ASSUME NEW t \in Tenants, NEW status \in Statuses, Turns(t, status),
             Wrote(r, [Idle EXCEPT !.at = "findAdmins", !.tenant = t], {<<"status", t>>})
      PROVE  \E G : Turn(G)
  <2>1. Effect({<<"status", t>>})
    BY <1>5 DEF Effect, TenantEffect
  <2>2. {<<"status", t>>} \in SUBSET Facts
    BY DEF Facts
  <2>3. ASSUME req'[r] = [Idle EXCEPT !.at = "findAdmins", !.tenant = t]
        PROVE  Good(r)
    <3>1. req'[r] \in Request /\ req'[r].at = "findAdmins" /\ req'[r].tenant = t
      BY <2>3 DEF Idle, Request, Steps, Looks
    <3> QED
      BY <3>1 DEF Good, RequestOK, Kept, Sure
  <2> QED
    BY <1>5, <2>1, <2>2, <2>3, WroteTurn
<1> QED
  BY <1>2, <1>3, <1>4, <1>5 DEF SetStatus, Turns

\* A request finds or makes the role, or writes the account.
LEMMA HireTurn ==
  ASSUME Sound, NEW r \in Requests, FindRole(r) \/ InsertRole(r) \/ InsertUser(r)
  PROVE  \E G : Turn(G)
<1>1. /\ RequestOK(req[r]) /\ req[r] \in Request /\ Kept(req[r])
      /\ req \in [Requests -> Request]
  BY DEF Sound, TypeOK, ChecksKept
<1>2. CASE FindRole(r)
  <2> DEFINE at == IF adminRole THEN "insertUser" ELSE "insertRole"
  <2>1. req' = [req EXCEPT ![r] = [req[r] EXCEPT !.at = at]] /\ UNCHANGED tables
    BY <1>1, <1>2 DEF FindRole
  <2>2. ASSUME req'[r] = [req[r] EXCEPT !.at = at]
        PROVE  Good(r)
    <3>1. /\ req'[r] \in Request /\ req'[r].at = at /\ req'[r].tenant = req[r].tenant
          /\ req'[r].email = req[r].email /\ req'[r].stale = req[r].stale
      BY <1>1, <2>2 DEF Request, Steps, Looks
    <3>2. req[r].at = "findRole"
      BY <1>2 DEF FindRole
    <3> QED
      BY <1>1, <2>1, <3>1, <3>2
      DEF Good, RequestOK, Kept, Sure, EmailTaken, HasUser, HasTenant, tables
  <2> QED
    BY <2>1, <2>2, ReadTurn
<1>3. CASE InsertRole(r)
  <2>1. CASE adminRole /\ Finish(r) /\ UNCHANGED tables
    BY <2>1, EndTurn
  <2>2. ASSUME MakesRole, Wrote(r, [req[r] EXCEPT !.at = "insertUser"], {<<"role", "TENANT_ADMIN">>})
        PROVE  \E G : Turn(G)
    <3>1. Effect({<<"role", "TENANT_ADMIN">>})
      BY <2>2 DEF Effect, UserEffect
    <3>2. {<<"role", "TENANT_ADMIN">>} \in SUBSET Facts
      BY DEF Facts, Roles
    <3>3. ASSUME req'[r] = [req[r] EXCEPT !.at = "insertUser"]
          PROVE  Good(r)
      <4>1. /\ req'[r] \in Request /\ req'[r].at = "insertUser" /\ req'[r].tenant = req[r].tenant
            /\ req'[r].email = req[r].email /\ req'[r].stale = req[r].stale
        BY <1>1, <3>3 DEF Request, Steps, Looks
      <4>2. req[r].at = "insertRole"
        BY <1>3 DEF InsertRole
      <4> QED
        BY <1>1, <2>2, <4>1, <4>2
        DEF Good, RequestOK, Kept, Sure, EmailTaken, HasUser, HasTenant, MakesRole
    <3> QED
      BY <2>2, <3>1, <3>2, <3>3, WroteTurn
  <2> QED
    BY <1>3, <2>1, <2>2 DEF InsertRole, MakesRole, Sound, TypeOK, tables
<1>4. CASE InsertUser(r)
  <2> DEFINE t == req[r].tenant
             e == req[r].email
             row == [email |-> e, role |-> "TENANT_ADMIN", tenant |-> t]
             F == {<<"email", e>>, <<"member", t>>}
  <2>1. t \in Tenants /\ e \in Emails
    BY <1>1, <1>4 DEF InsertUser, RequestOK
  <2>2. CASE Finish(r) /\ UNCHANGED tables
    BY <2>2, EndTurn
  <2>3. ASSUME NEW u \in Users, user[u] = None, ~EmailTaken(e), HasTenant(t),
               user' = [user EXCEPT ![u] = row], badge' = [badge EXCEPT ![u] = t],
               UNCHANGED <<tenant, property, adminRole, notice, detail, saved, scene, now>>,
               Wrote(r, Idle, F)
        PROVE  \E G : Turn(G)
    <3>1. row \in UserRow /\ row.email = e /\ row.tenant = t
      BY <2>1 DEF UserRow, Roles
    <3>2. Enters(u, row)
      BY <2>3, <3>1 DEF Enters
    <3>3. Effect(F)
      BY <3>1, <3>2 DEF Effect, UserEffect
    <3>4. F \in SUBSET Facts
      BY <2>1 DEF Facts
    <3> QED
      BY <2>3, <3>3, <3>4, WroteTurn, IdleGood
  <2> QED
    BY <1>4, <2>2, <2>3 DEF InsertUser, NewKey, tables
<1> QED
  BY <1>2, <1>3, <1>4

\* The routes of one statement over accounts.
LEMMA AccountTurn ==
  ASSUME Sound, Accounts
  PROVE  \E G : Turn(G)
<1>1. ASSUME NEW u \in Users, NEW e \in Emails, Register(u, e)
      PROVE  \E G : Turn(G)
  <2> DEFINE row == [email |-> e, role |-> "USER", tenant |-> None]
  <2>1. row \in UserRow /\ row.email = e /\ row.tenant = None
    BY DEF UserRow, Roles
  <2>2. Enters(u, row)
    BY <1>1, <2>1 DEF Register, Enters, NewKey
  <2>3. Effect({<<"email", e>>})
    BY <2>1, <2>2 DEF Effect, UserEffect
  <2>4. {<<"email", e>>} \in SUBSET Facts
    BY DEF Facts
  <2> QED
    BY <1>1, <2>3, <2>4, ChangedTurn DEF Register
<1>2. ASSUME NEW a \in Users, NEW u \in Users, NEW e \in Emails, UpdateUser(a, u, e)
      PROVE  \E G : Turn(G)
  <2>1. Mails(u, e) /\ Changed({<<"email", e>>})
    BY <1>2 DEF UpdateUser, Manages, Mails
  <2>2. Effect({<<"email", e>>})
    BY <2>1 DEF Effect, UserEffect
  <2>3. {<<"email", e>>} \in SUBSET Facts
    BY DEF Facts
  <2> QED
    BY <2>1, <2>2, <2>3, ChangedTurn
<1>3. ASSUME NEW a \in Users, NEW u \in Users, NEW role \in Roles, ChangeRole(a, u, role)
      PROVE  \E G : Turn(G)
  <2>1. badge' \in {badge, [badge EXCEPT ![u] = user[u].tenant]}
    BY <1>3 DEF ChangeRole, Sound, TypeOK
  <2>2. Promotes(u, role) /\ req' = req
    BY <1>3, <2>1 DEF ChangeRole, Manages, Promotes
  <2>3. Effect({})
    BY <2>2 DEF Effect, UserEffect
  <2> QED
    BY <2>2, <2>3, StillTurn
<1>4. ASSUME NEW a \in Users, NEW u \in Users, DeleteUser(a, u)
      PROVE  \E G : Turn(G)
  <2>1. Fires(u) /\ Changed({<<"user", u>>})
    BY <1>4 DEF DeleteUser, Manages, Fires
  <2>2. Effect({<<"user", u>>})
    BY <2>1 DEF Effect, UserEffect
  <2>3. {<<"user", u>>} \in SUBSET Facts
    BY DEF Facts
  <2> QED
    BY <2>1, <2>2, <2>3, ChangedTurn
<1> QED
  BY <1>1, <1>2, <1>3, <1>4 DEF Accounts

(***************************************************************************)
(* The handlers of Inbox.                                                   *)
(***************************************************************************)
\* A request finds the admins, and tells one.
LEMMA TellTurn ==
  ASSUME Sound, NEW r \in Requests, FindAdmins(r) \/ \E u \in Users : Tell(r, u)
  PROVE  \E G : Turn(G)
<1> DEFINE t == req[r].tenant
<1>1. /\ RequestOK(req[r]) /\ req[r] \in Request /\ Kept(req[r]) /\ Sure(req[r])
      /\ req \in [Requests -> Request]
  BY DEF Sound, TypeOK, ChecksKept
<1>2. t \in Tenants
  BY <1>1 DEF FindAdmins, Tell, RequestOK
<1>3. CASE FindAdmins(r)
  <2> DEFINE found == Admins(t)
             next == IF found = {} THEN Idle ELSE [req[r] EXCEPT !.at = "tell", !.to = found]
  <2>1. req' = [req EXCEPT ![r] = next] /\ UNCHANGED tables
    BY <1>1, <1>3 DEF FindAdmins
  <2>2. ASSUME found # {}, req'[r] = [req[r] EXCEPT !.at = "tell", !.to = found]
        PROVE  Good(r)
    <3>1. found \in SUBSET Users /\ \A u \in found : HasUser(u) /\ user[u].tenant = t
      BY DEF Admins, Staff
    <3>2. /\ req'[r] \in Request /\ req'[r].at = "tell" /\ req'[r].tenant = t
          /\ req'[r].to = found
      <4> DEFINE telling(q, who) == [q EXCEPT !.at = "tell", !.to = who]
      <4>1. ASSUME NEW q \in Request, NEW who \in SUBSET Users
            PROVE  /\ telling(q, who) \in Request /\ telling(q, who).at = "tell"
                   /\ telling(q, who).tenant = q.tenant /\ telling(q, who).to = who
        <5>1. "tell" \in Steps
          BY DEF Steps, Looks
        <5> QED
          BY <5>1, ZenonT(60) DEF Request
      <4>2. req[r] \in Request /\ found \in SUBSET Users /\ req'[r] = telling(req[r], found)
        BY <1>1, <2>2, <3>1
      <4> HIDE DEF found, telling
      <4> QED
        BY <4>1, <4>2
    <3>3. HasTenant(t)
      BY <1>2, <2>2, <3>1, Values DEF Sound, RowsHaveOwners
    <3> QED
      BY <1>2, <2>1, <3>1, <3>2, <3>3
      DEF Good, RequestOK, Kept, Sure, HasUser, HasTenant, tables
  <2>3. ASSUME req'[r] = next
        PROVE  Good(r)
    BY <2>2, <2>3, IdleGood
  <2> QED
    BY <2>1, <2>3, ReadTurn
<1>4. ASSUME NEW u \in Users, Tell(r, u)
      PROVE  \E G : Turn(G)
  <2> DEFINE left == req[r].to \ {u}
             next == IF left = {} THEN Idle ELSE [req[r] EXCEPT !.to = left]
  <2>1. req[r].at = "tell" /\ u \in req[r].to
    BY <1>4 DEF Tell
  <2>2. ASSUME tenant' = tenant, user' = user, req'[r] = next
        PROVE  Good(r)
    <3>1. CASE req'[r] = [req[r] EXCEPT !.to = left]
      <4>1. /\ req'[r] \in Request /\ req'[r].at = "tell" /\ req'[r].tenant = t
            /\ req'[r].to = left /\ req'[r].stale = req[r].stale
        BY <1>1, <2>1, <3>1 DEF Request
      <4> QED
        BY <1>1, <1>2, <2>1, <2>2, <4>1 DEF Good, RequestOK, Kept, Sure, HasUser, HasTenant
    <3> QED
      BY <2>2, <3>1, IdleGood
  <2>3. CASE req' = [req EXCEPT ![r] = next] /\ UNCHANGED tables
    BY <2>2, <2>3, ReadTurn DEF tables
  <2>4. ASSUME NEW n \in NoticeIds, Tells(n, u, t), Wrote(r, next, {<<"notice", t>>})
        PROVE  \E G : Turn(G)
    <3>1. Effect({<<"notice", t>>})
      BY <1>2, <2>4 DEF Effect, NoticeEffect
    <3>2. {<<"notice", t>>} \in SUBSET Facts
      BY <1>2 DEF Facts
    <3>3. tenant' = tenant /\ user' = user
      BY <2>4 DEF Tells
    <3> QED
      BY <2>2, <2>4, <3>1, <3>2, <3>3, WroteTurn
  <2>5. HasUser(u) => user[u].tenant = t
    BY <1>1, <2>1 DEF Sure
  <2> QED
    BY <1>4, <2>3, <2>4, <2>5 DEF Tell, Tells, NewKey, tables
<1> QED
  BY <1>3, <1>4

\* A reader marks one, by two statements, or all.
LEMMA ReaderTurn ==
  ASSUME Sound
  PROVE  /\ \A r \in Requests : BeginMarkRead(r) \/ WriteRead(r) => \E G : Turn(G)
         /\ \A v \in Users : MarkAllRead(v) => \E G : Turn(G)
<1>1. ASSUME NEW r \in Requests, BeginMarkRead(r)
      PROVE  \E G : Turn(G)
  <2>1. PICK v \in Users, n \in NoticeIds :
          /\ Sees(v, n) /\ UNCHANGED tables
          /\ req' = [req EXCEPT ![r] = [Idle EXCEPT !.at = "writeRead", !.notice = n,
                                                    !.seen = notice[n].readAt]]
    BY <1>1 DEF BeginMarkRead, Start
  <2>2. notice[n] # None /\ notice[n].readAt \in Times \cup {None}
    BY <2>1 DEF Sees, Sound, TypeOK, NoticeRow
  <2>3. ASSUME req'[r] = [Idle EXCEPT !.at = "writeRead", !.notice = n, !.seen = notice[n].readAt]
        PROVE  Good(r)
    <3>1. /\ req'[r] \in Request /\ req'[r].at = "writeRead" /\ req'[r].notice = n
          /\ req'[r].seen = notice[n].readAt
      BY <2>2, <2>3 DEF Idle, Request, Steps, Looks
    <3> QED
      BY <2>1, <2>2, <3>1 DEF Good, RequestOK, Kept, Sure, tables
  <2> QED
    BY <2>1, <2>3, ReadTurn
<1>2. ASSUME NEW r \in Requests, WriteRead(r)
      PROVE  \E G : Turn(G)
  <2> DEFINE n == req[r].notice
             time == IF req[r].seen = None THEN now ELSE req[r].seen
             F == IF time = notice[n].readAt THEN {} ELSE {<<"read", n>>}
  <2>1. n \in NoticeIds /\ notice[n] # None /\ time \in Times /\ req[r] \in Request
    BY <1>2 DEF WriteRead, Sound, TypeOK, RequestOK, Request
  <2>2. /\ notice' = [notice EXCEPT ![n].readAt = time] /\ Wrote(r, Idle, F)
        /\ UNCHANGED <<tenant, user, property, adminRole, detail, saved, badge, scene, now>>
    BY <1>2 DEF WriteRead
  <2>3. Reads({n}, time)
    BY <2>1, <2>2 DEF Reads, Sound, TypeOK
  <2>4. Effect(F)
    BY <2>1, <2>3 DEF Effect, NoticeEffect
  <2>5. F \in SUBSET Facts
    BY <2>1 DEF Facts
  <2> QED
    BY <2>2, <2>4, <2>5, WroteTurn, IdleGood
<1>3. ASSUME NEW v \in Users, MarkAllRead(v)
      PROVE  \E G : Turn(G)
  <2> DEFINE unread == {n \in NoticeIds : Sees(v, n) /\ notice[n].readAt = None}
  <2>1. Reads(unread, now) /\ Changed({"read"} \X unread)
    BY <1>3 DEF MarkAllRead, Reads, Sees
  <2>2. Effect({"read"} \X unread)
    BY <2>1 DEF Effect, NoticeEffect, Sound, TypeOK
  <2>3. {"read"} \X unread \in SUBSET Facts
    BY DEF Facts
  <2> QED
    BY <2>1, <2>2, <2>3, ChangedTurn
<1> QED
  BY <1>1, <1>2, <1>3

(***************************************************************************)
(* The handlers of Catalogue.                                               *)
(***************************************************************************)
\* A request begins with what its first statement has found.
LEMMA BeginCatalogueTurn ==
  ASSUME Sound, NEW r \in Requests,
         BeginCreateProperty(r) \/ BeginAddAmenity(r) \/ BeginSave(r)
  PROVE  \E G : Turn(G)
<1>1. CASE BeginCreateProperty(r)
  <2>1. PICK t \in Tenants, u \in Users, status \in Statuses :
          /\ HasTenant(t) /\ (tenant[t].status = "ACTIVE" \/ status = "INACTIVE")
          /\ UNCHANGED tables
          /\ req' = [req EXCEPT ![r] = [Idle EXCEPT !.at = "findOwner", !.tenant = t, !.user = u,
                                                    !.status = status]]
    BY <1>1 DEF BeginCreateProperty, Start
  <2>2. ASSUME req'[r] = [Idle EXCEPT !.at = "findOwner", !.tenant = t, !.user = u,
                                      !.status = status]
        PROVE  Good(r)
    <3>1. /\ req'[r] \in Request /\ req'[r].at = "findOwner" /\ req'[r].tenant = t
          /\ req'[r].user = u /\ req'[r].status = status
      BY <2>2 DEF Idle, Request, Steps, Looks
    <3> QED
      BY <2>1, <3>1 DEF Good, RequestOK, Kept, Sure, HasTenant, tables
  <2> QED
    BY <2>1, <2>2, ReadTurn
<1>2. CASE BeginAddAmenity(r)
  <2>1. PICK p \in Properties, what \in Amenities :
          /\ HasProperty(p) /\ ~Has(p, what) /\ UNCHANGED tables
          /\ req' = [req EXCEPT ![r] = [Idle EXCEPT !.at = "insertAmenity", !.property = p,
                                                    !.what = what]]
    BY <1>2 DEF BeginAddAmenity, Start
  <2>2. ASSUME req'[r] = [Idle EXCEPT !.at = "insertAmenity", !.property = p, !.what = what]
        PROVE  Good(r)
    <3>1. /\ req'[r] \in Request /\ req'[r].at = "insertAmenity" /\ req'[r].property = p
          /\ req'[r].what = what
      BY <2>2 DEF Idle, Request, Steps, Looks, Parts
    <3> QED
      BY <2>1, <3>1 DEF Good, RequestOK, Kept, Sure, Has, tables
  <2> QED
    BY <2>1, <2>2, ReadTurn
<1>3. CASE BeginSave(r)
  <2>1. PICK u \in Users, p \in Properties :
          /\ user[u] # None /\ HasProperty(p) /\ Public(p) /\ UNCHANGED tables
          /\ req' = [req EXCEPT ![r] = [Idle EXCEPT !.at = "findSaved", !.user = u,
                                          !.property = p, !.tenant = property[p].tenant]]
    BY <1>3 DEF BeginSave, Start
  <2>2. property[p].tenant \in Tenants
    BY <2>1 DEF HasProperty, Sound, TypeOK, PropertyRow
  <2>3. ASSUME req'[r] = [Idle EXCEPT !.at = "findSaved", !.user = u, !.property = p,
                                      !.tenant = property[p].tenant]
        PROVE  Good(r)
    <3>1. /\ req'[r] \in Request /\ req'[r].at = "findSaved" /\ req'[r].user = u
          /\ req'[r].property = p /\ req'[r].tenant = property[p].tenant
      BY <2>2, <2>3 DEF Idle, Request, Steps, Looks
    <3>2. HasProperty(p)' /\ Public(p)' /\ property' = property
      BY <2>1 DEF HasProperty, Public, tables
    <3> QED
      BY <2>2, <3>1, <3>2 DEF Good, RequestOK, Kept, Sure, HasProperty
  <2> QED
    BY <2>1, <2>3, ReadTurn
<1> QED
  BY <1>1, <1>2, <1>3

\* create, after its first check.
LEMMA CreateTurn ==
  ASSUME Sound, NEW r \in Requests, FindOwner(r) \/ InsertProperty(r)
  PROVE  \E G : Turn(G)
<1> DEFINE t == req[r].tenant
           u == req[r].user
           status == req[r].status
<1>1. /\ RequestOK(req[r]) /\ req[r] \in Request /\ Kept(req[r]) /\ Sure(req[r])
      /\ req \in [Requests -> Request]
  BY DEF Sound, TypeOK, ChecksKept
<1>2. t \in Tenants /\ u \in Users /\ status \in Statuses
  BY <1>1 DEF FindOwner, InsertProperty, RequestOK
<1>3. CASE FindOwner(r)
  <2>1. CASE Finish(r) /\ UNCHANGED tables
    BY <2>1, EndTurn
  <2>2. CASE /\ HasUser(u) /\ user[u].tenant = t /\ UNCHANGED tables
             /\ req' = [req EXCEPT ![r] = [req[r] EXCEPT !.at = "insertProperty"]]
    <3>1. ASSUME req'[r] = [req[r] EXCEPT !.at = "insertProperty"]
          PROVE  Good(r)
      <4>1. /\ req'[r] \in Request /\ req'[r].at = "insertProperty" /\ req'[r].tenant = t
            /\ req'[r].user = u /\ req'[r].status = status /\ req'[r].stale = req[r].stale
        BY <1>1, <3>1 DEF Request, Steps, Looks
      <4>2. req[r].at = "findOwner"
        BY <1>3 DEF FindOwner
      <4> QED
        BY <1>1, <1>2, <2>2, <4>1, <4>2
        DEF Good, RequestOK, Kept, Sure, HasTenant, HasUser, tables
    <3> QED
      BY <2>2, <3>1, ReadTurn
  <2> QED
    BY <1>1, <1>3, <2>1, <2>2 DEF FindOwner
<1>4. CASE InsertProperty(r)
  <2> DEFINE row == [tenant |-> t, owner |-> u, status |-> status, patched |-> FALSE]
             next == [Idle EXCEPT !.at = "findAdmins", !.tenant = t]
  <2>1. CASE Finish(r) /\ UNCHANGED tables
    BY <2>1, EndTurn
  <2>2. ASSUME HasTenant(t), HasUser(u), NEW p \in Properties, property[p] = None,
               property' = [property EXCEPT ![p] = row],
               UNCHANGED <<tenant, user, adminRole, notice, detail, saved, badge, scene, now>>,
               Wrote(r, next, {<<"member", t>>})
        PROVE  \E G : Turn(G)
    <3>1. row \in PropertyRow /\ row.tenant = t /\ row.owner = u
      BY <1>2 DEF PropertyRow
    <3>2. user[u].tenant = t
      BY <1>1, <1>4, <2>2 DEF Sure, InsertProperty
    <3>3. Lists(p, row)
      BY <2>2, <3>1, <3>2 DEF Lists
    <3>4. Effect({<<"member", t>>})
      BY <3>1, <3>3 DEF Effect, PropertyEffect
    <3>5. {<<"member", t>>} \in SUBSET Facts
      BY <1>2 DEF Facts
    <3>6. ASSUME req'[r] = next
          PROVE  Good(r)
      <4>1. req'[r] \in Request /\ req'[r].at = "findAdmins" /\ req'[r].tenant = t
        BY <1>2, <3>6 DEF Idle, Request, Steps, Looks
      <4> QED
        BY <1>2, <4>1 DEF Good, RequestOK, Kept, Sure
    <3> QED
      BY <2>2, <3>4, <3>5, <3>6, WroteTurn
  <2> QED
    BY <1>4, <2>1, <2>2 DEF InsertProperty, NewKey, tables
<1> QED
  BY <1>3, <1>4

\* update, remove, reactivate.
LEMMA WritePropertyTurn ==
  ASSUME Sound, NEW r \in Requests, UpdateProperty(r) \/ RemoveProperty(r) \/ ReactivateProperty(r)
  PROVE  \E G : Turn(G)
<1>1. ASSUME NEW p \in Properties, NEW status \in Statuses, NEW owner \in Users, HasUser(owner),
             WriteProperty(r, p, status, owner)
      PROVE  \E G : Turn(G)
  <2> DEFINE t == property[p].tenant
             next == [Idle EXCEPT !.at = "findAdmins", !.tenant = t]
  <2>1. Sets(p, status, owner) /\ Wrote(r, next, {<<"listing", p>>})
    BY <1>1 DEF WriteProperty, Sets
  <2>2. t \in Tenants
    BY <1>1 DEF WriteProperty, HasProperty, Sound, TypeOK, PropertyRow
  <2>3. Effect({<<"listing", p>>})
    BY <2>1 DEF Effect, PropertyEffect
  <2>4. {<<"listing", p>>} \in SUBSET Facts
    BY DEF Facts
  <2>5. ASSUME req'[r] = next
        PROVE  Good(r)
    <3>1. req'[r] \in Request /\ req'[r].at = "findAdmins" /\ req'[r].tenant = t
      BY <2>2, <2>5 DEF Idle, Request, Steps, Looks
    <3>2. req'[r].tenant \in Tenants
      BY <2>2, <3>1
    <3> QED
      BY <3>1, <3>2 DEF Good, RequestOK, Kept, Sure
  <2> QED
    BY <2>1, <2>3, <2>4, <2>5, WroteTurn
<1>2. \A p \in Properties : HasProperty(p) =>
        property[p].owner \in Users /\ HasUser(property[p].owner)
  BY DEF Sound, RowsHaveOwners, TypeOK, HasProperty, PropertyRow
<1>3. \A p \in Properties : \A status, owner : WriteProperty(r, p, status, owner) => HasProperty(p)
  BY DEF WriteProperty
<1>4. CASE UpdateProperty(r)
  BY <1>1, <1>4 DEF UpdateProperty
<1>5. ASSUME NEW p \in Properties, NEW status \in Statuses,
             WriteProperty(r, p, status, property[p].owner)
      PROVE  \E G : Turn(G)
  BY <1>1, <1>2, <1>3, <1>5
<1> QED
  BY <1>4, <1>5 DEF RemoveProperty, ReactivateProperty, Statuses

\* Amenities, images and rules come and go.
LEMMA DetailTurn ==
  ASSUME Sound
  PROVE  /\ \A r \in Requests : InsertAmenity(r) => \E G : Turn(G)
         /\ Details => \E G : Turn(G)
<1>1. ASSUME NEW r \in Requests, InsertAmenity(r)
      PROVE  \E G : Turn(G)
  <2> DEFINE p == req[r].property
             what == req[r].what
             F == {<<"amenity", <<p, what>>>>}
  <2>1. p \in Properties /\ what \in Amenities
    BY <1>1 DEF InsertAmenity, Sound, TypeOK, RequestOK
  <2>2. PICK d \in DetailIds : Furnishes(d, p, what)
    BY <1>1 DEF InsertAmenity, NewKey, Furnishes
  <2>3. Wrote(r, Idle, F)
    BY <1>1 DEF InsertAmenity
  <2>4. Effect(F)
    BY <2>1, <2>2 DEF Effect, PropertyEffect, Parts
  <2>5. F \in SUBSET Facts
    BY <2>1 DEF Facts, Parts
  <2> QED
    BY <2>3, <2>4, <2>5, WroteTurn, IdleGood
<1>2. ASSUME NEW p \in Properties, NEW d \in DetailIds, NEW what \in {"image", "rule"},
             Add(p, d, what)
      PROVE  \E G : Turn(G)
  <2>1. Furnishes(d, p, what) /\ req' = req
    BY <1>2 DEF Add, NewKey, Furnishes
  <2>2. what \notin Amenities /\ what \in Parts
    BY Values DEF Parts
  <2>3. Effect({})
    BY <2>1, <2>2 DEF Effect, PropertyEffect
  <2> QED
    BY <2>1, <2>3, StillTurn
<1>3. ASSUME NEW d \in DetailIds, NEW kinds, RemoveOne(d, kinds)
      PROVE  \E G : Turn(G)
  <2>1. Clears(d) /\ req' = req
    BY <1>3 DEF RemoveOne, Clears
  <2> QED
    BY <2>1, StillTurn DEF Effect, PropertyEffect
<1>4. ASSUME NEW u \in Users, NEW p \in Properties, Unsave(u, p)
      PROVE  \E G : Turn(G)
  <2>1. Forgets(u, p) /\ req' = req
    BY <1>4 DEF Unsave, Forgets
  <2> QED
    BY <2>1, StillTurn DEF Effect, PropertyEffect
<1> QED
  BY <1>1, <1>2, <1>3, <1>4
  DEF Details, AddImage, AddRule, RemoveImage, RemoveAmenity, RemoveRule

\* A favorite is looked for and inserted.
LEMMA SaveTurn ==
  ASSUME Sound, NEW r \in Requests, FindSaved(r) \/ InsertSaved(r)
  PROVE  \E G : Turn(G)
<1> DEFINE u == req[r].user
           p == req[r].property
           t == req[r].tenant
<1>1. /\ RequestOK(req[r]) /\ req[r] \in Request /\ Kept(req[r])
      /\ req \in [Requests -> Request]
  BY DEF Sound, TypeOK, ChecksKept
<1>2. u \in Users /\ p \in Properties /\ HasProperty(p) /\ t \in Tenants /\ property[p].tenant = t
  BY <1>1 DEF FindSaved, InsertSaved, RequestOK
<1>3. CASE FindSaved(r)
  <2>1. CASE Finish(r) /\ UNCHANGED tables
    BY <2>1, EndTurn
  <2>2. CASE /\ <<u, p>> \notin saved /\ UNCHANGED tables
             /\ req' = [req EXCEPT ![r] = [req[r] EXCEPT !.at = "insertSaved"]]
    <3>1. ASSUME req'[r] = [req[r] EXCEPT !.at = "insertSaved"]
          PROVE  Good(r)
      <4>1. /\ req'[r] \in Request /\ req'[r].at = "insertSaved" /\ req'[r].tenant = t
            /\ req'[r].user = u /\ req'[r].property = p /\ req'[r].stale = req[r].stale
        BY <1>1, <3>1 DEF Request, Steps, Looks
      <4>2. req[r].at = "findSaved"
        BY <1>3 DEF FindSaved
      <4>3. /\ property' = property /\ tenant' = tenant /\ saved' = saved
            /\ ~Public(p) => <<"status", t>> \in req[r].stale \/ <<"listing", p>> \in req[r].stale
        BY <1>1, <2>2, <4>2 DEF Kept, tables
      <4> QED
        BY <1>2, <2>2, <4>1, <4>3 DEF Good, RequestOK, Kept, Sure, Public, HasProperty
    <3> QED
      BY <2>2, <3>1, ReadTurn
  <2> QED
    BY <1>1, <1>3, <2>1, <2>2 DEF FindSaved
<1>4. CASE InsertSaved(r)
  <2>1. CASE Finish(r) /\ UNCHANGED tables
    BY <2>1, EndTurn
  <2>2. ASSUME Saves(u, p), Wrote(r, Idle, {<<"saved", <<u, p>>>>})
        PROVE  \E G : Turn(G)
    <3>1. Effect({<<"saved", <<u, p>>>>})
      BY <1>2, <2>2 DEF Effect, PropertyEffect
    <3>2. {<<"saved", <<u, p>>>>} \in SUBSET Facts
      BY <1>2 DEF Facts
    <3> QED
      BY <2>2, <3>1, <3>2, WroteTurn, IdleGood
  <2> QED
    BY <1>2, <1>4, <2>1, <2>2 DEF InsertSaved, Saves, tables
<1> QED
  BY <1>3, <1>4

\* Every step is a turn.
LEMMA EveryTurn ==
  ASSUME Sound, [Next]_vars
  PROVE  \E G : Turn(G)
<1>1. ASSUME NEW r \in Requests, Handler(r)
      PROVE  \E G : Turn(G)
  BY <1>1, BeginPlatformTurn, TenantTurn, HireTurn, TellTurn, ReaderTurn, BeginCatalogueTurn,
     CreateTurn, WritePropertyTurn, DetailTurn, SaveTurn
  DEF Handler, PlatformBegin, PlatformStep, InboxStep, CatalogueBegin, CatalogueStep
<1>2. CASE Tick
  <2>1. now' \in Times
    BY <1>2, TenantAssumption DEF Tick, Times, Sound, TypeOK
  <2> QED
    BY <1>2, <2>1, StillTurn DEF Tick, Effect, Nothing
<1>3. CASE Crash
  <2>1. /\ req' = [q \in Requests |-> req'[q]] /\ \A q \in Requests : req'[q] = Idle
        /\ Effect({})
    BY <1>3 DEF Crash, Effect, Nothing, tables, Sound, TypeOK
  <2> QED
    BY <2>1, IdleGood DEF Turn
<1>4. CASE UNCHANGED vars
  BY <1>4, StillTurn DEF vars, Effect, Nothing, Sound, TypeOK
<1> QED
  BY <1>1, <1>2, <1>3, <1>4, AccountTurn, DetailTurn, ReaderTurn DEF Next

(***************************************************************************)
(* The rows keep their owners: a deletion goes through only of what nothing *)
(* refers to, and an insert only next to what it refers to.                 *)
(***************************************************************************)
LEMMA OwnersKept ==
  ASSUME TablesTyped, RowsHaveOwners, NEW F, Effect(F)
  PROVE  RowsHaveOwners'
<1>1. TablesTyped' /\ RowsStay
  BY EffectTables
<1>2. \A p \in Properties : HasProperty(p) =>
        /\ property[p].tenant \in Tenants /\ property[p].owner \in Users
        /\ property[p].patched \in BOOLEAN
  BY DEF TablesTyped, HasProperty, PropertyRow
<1>3. \A u \in Users : HasUser(u) => user[u].tenant \in Tenants \cup {None}
  BY DEF TablesTyped, HasUser, UserRow
<1>s. \A one \in saved : one[1] \in Users /\ one[2] \in Properties /\ one = <<one[1], one[2]>>
  BY DEF TablesTyped
<1>4. CASE \/ Nothing \/ MakesRole \/ NoticeEffect(F)
           \/ \E d \in DetailIds, p \in Properties, what \in Parts : Furnishes(d, p, what)
           \/ \E d \in DetailIds : Clears(d)
  BY <1>4 DEF Nothing, MakesRole, NoticeEffect, Tells, Reads, Furnishes, Clears, RowsHaveOwners,
              HasUser, HasTenant, HasProperty
<1>5. ASSUME NEW t \in Tenants, NEW s \in Slugs, Founds(t, s) \/ Renames(t, s)
      PROVE  RowsHaveOwners'
  <2>1. \A v \in Tenants : HasTenant(v) => HasTenant(v)'
    <3>1. tenant'[t] # tenant[t] => tenant'[t] \in TenantRow
      BY <1>1, <1>5, Values DEF Founds, Renames, TablesTyped, HasTenant, TenantRow, Statuses
    <3> QED
      BY <1>5, <3>1, Values DEF Founds, Renames, TablesTyped, HasTenant
  <2> QED
    BY <1>2, <1>3, <1>5, <2>1 DEF Founds, Renames, RowsHaveOwners, HasUser, HasProperty
<1>6. ASSUME NEW t \in Tenants, NEW status \in Statuses, Turns(t, status)
      PROVE  RowsHaveOwners'
  <2>1. \A v \in Tenants : HasTenant(v) => HasTenant(v)'
    BY <1>6, Values DEF Turns, TablesTyped, HasTenant, TenantRow
  <2> QED
    BY <1>2, <1>3, <1>6, <2>1 DEF Turns, RowsHaveOwners, HasUser, HasProperty
<1>7. ASSUME NEW t \in Tenants, Drops(t)
      PROVE  RowsHaveOwners'
  <2>1. \A v \in Tenants \ {t} : HasTenant(v) => HasTenant(v)'
    BY <1>7 DEF Drops, TablesTyped, HasTenant
  <2>2. /\ \A u \in Users : HasUser(u) => user[u].tenant # t
        /\ \A p \in Properties : HasProperty(p) => property[p].tenant # t
    BY <1>7 DEF Drops, Empty, Staff, Listings
  <2> QED
    BY <1>2, <1>3, <1>7, <2>1, <2>2 DEF Drops, RowsHaveOwners, HasUser, HasProperty
<1>8. ASSUME NEW u \in Users, NEW row \in UserRow, Enters(u, row)
      PROVE  RowsHaveOwners'
  <2>1. /\ ~HasUser(u) /\ user'[u] = row
        /\ \A v \in Users \ {u} : user'[v] = user[v] /\ (HasUser(v) <=> HasUser(v)')
    BY <1>8 DEF Enters, TablesTyped, HasUser
  <2> QED
    BY <1>2, <1>s, <1>8, <2>1 DEF Enters, RowsHaveOwners, HasTenant, HasProperty
<1>9. ASSUME NEW u \in Users, (\E e \in Emails : Mails(u, e)) \/ (\E role \in Roles : Promotes(u, role))
      PROVE  RowsHaveOwners'
  <2>1. \A v \in Users : (HasUser(v) <=> HasUser(v)') /\ (HasUser(v) => user'[v].tenant = user[v].tenant)
    BY <1>9, Values DEF Mails, Promotes, TablesTyped, HasUser, UserRow
  <2> QED
    BY <1>2, <1>s, <1>9, <2>1 DEF Mails, Promotes, RowsHaveOwners, HasTenant, HasProperty
<1>10. ASSUME NEW u \in Users, Fires(u)
       PROVE  RowsHaveOwners'
  <2>1. /\ ~HasUser(u)' /\ \A v \in Users \ {u} : user'[v] = user[v] /\ (HasUser(v) <=> HasUser(v)')
    BY <1>10 DEF Fires, TablesTyped, HasUser
  <2>2. /\ \A p \in Properties : HasProperty(p) => property[p].owner # u
        /\ \A one \in saved : one[1] # u
    BY <1>s, <1>10 DEF Fires, Restricted
  <2>3. tenant' = tenant /\ property' = property /\ saved' = saved
    BY <1>10 DEF Fires
  <2> QED
    BY <1>2, <1>s, <2>1, <2>2, <2>3 DEF RowsHaveOwners, HasTenant, HasProperty
<1>11. ASSUME NEW p \in Properties, NEW row \in PropertyRow, Lists(p, row)
       PROVE  RowsHaveOwners'
  <2>1. /\ property'[p] = row /\ HasProperty(p)' /\ property' = [property EXCEPT ![p] = row]
        /\ \A q \in Properties \ {p} : property'[q] = property[q]
    BY <1>11, Values DEF Lists, TablesTyped, HasProperty
  <2> QED
    BY <1>11, <2>1 DEF Lists, RowsHaveOwners, HasTenant, HasUser, HasProperty
<1>12. ASSUME NEW p \in Properties, NEW status \in Statuses, NEW owner \in Users, Sets(p, status, owner)
       PROVE  RowsHaveOwners'
  <2>1. HasProperty(p) /\ HasProperty(p)' /\ property'[p].tenant = property[p].tenant
    BY <1>1, <1>12 DEF Sets, RowsStay
  <2>2. property'[p].owner = owner /\ (~property'[p].patched => owner = property[p].owner)
    <3>1. property[p] \in PropertyRow
      BY <2>1 DEF TablesTyped, HasProperty
    <3> QED
      BY <1>12, <3>1 DEF Sets, TablesTyped, PropertyRow
  <2>3. ~property'[p].patched => ~property[p].patched
    <3>1. property[p] \in PropertyRow
      BY <2>1 DEF TablesTyped, HasProperty
    <3> QED
      BY <1>12, <3>1 DEF Sets, TablesTyped, PropertyRow
  <2>4. \A q \in Properties \ {p} : property'[q] = property[q]
    BY <1>12 DEF Sets, TablesTyped
  <2>5. tenant' = tenant /\ user' = user /\ saved' = saved /\ HasUser(owner)
    BY <1>12 DEF Sets
  <2> QED
    BY <1>s, <2>1, <2>2, <2>3, <2>4, <2>5 DEF RowsHaveOwners, HasTenant, HasUser, HasProperty
<1>13. ASSUME NEW u \in Users, NEW p \in Properties, Saves(u, p) \/ Forgets(u, p)
       PROVE  RowsHaveOwners'
  BY <1>13 DEF Saves, Forgets, RowsHaveOwners, HasTenant, HasUser, HasProperty
<1> QED
  BY <1>4, <1>5, <1>6, <1>7, <1>8, <1>9, <1>10, <1>11, <1>12, <1>13
  DEF Effect, TenantEffect, UserEffect, PropertyEffect

\* What is shown to hold together does, at first and after every step.
LEMMA SoundInit == Init => Sound
<1> SUFFICES ASSUME Init
             PROVE  Sound
  OBVIOUS
<1>1. PICK s \in Scenes :
        /\ scene = s.ops /\ adminRole = s.role
        /\ tenant = s.tenant /\ user = s.user /\ property = s.property
        /\ badge = [u \in Users |->
                      IF s.user[u] # None /\ s.user[u].role = "TENANT_ADMIN"
                      THEN s.user[u].tenant ELSE None]
  BY DEF Init
<1>2. Consistent(s)
  BY TenantAssumption
<1>3. /\ req = [r \in Requests |-> Idle] /\ saved = {} /\ now = 0
      /\ notice = [n \in NoticeIds |-> None] /\ detail = [d \in DetailIds |-> None]
  BY DEF Init
<1>4. /\ tenant \in [Tenants -> TenantRow \cup {None}] /\ user \in [Users -> UserRow \cup {None}]
      /\ property \in [Properties -> PropertyRow \cup {None}]
      /\ scene \subseteq AllOps /\ adminRole \in BOOLEAN
  BY <1>1, <1>2 DEF Consistent
<1>5. badge \in [Users -> Tenants \cup {None}]
  <2>1. \A u \in Users : user[u] # None => user[u].tenant \in Tenants \cup {None}
    BY <1>4 DEF UserRow
  <2> QED
    BY <1>1, <2>1
<1>6. Idle \in Request
  BY DEF Idle, Request, Steps, Looks
<1>7. now \in Times
  BY <1>3, TenantAssumption DEF Times
<1>8. \A r \in Requests : RequestOK(req[r]) /\ Kept(req[r]) /\ Sure(req[r])
  BY <1>3 DEF Idle, RequestOK, Kept, Sure
<1>9. TypeOK
  BY <1>3, <1>4, <1>5, <1>6, <1>7, <1>8 DEF TypeOK
<1>10. /\ \A t \in Tenants : tenant[t] # None => HasTenant(t)
       /\ \A u \in Users : user[u] # None => HasUser(u)
  BY <1>4, Values DEF HasTenant, HasUser
<1>11. RowsHaveOwners
  <2>1. \A u \in Users : HasUser(u) /\ user[u].tenant # None => HasTenant(user[u].tenant)
    <3>1. \A u \in Users : user[u] # None => user[u].tenant \in Tenants \cup {None}
      BY <1>4 DEF UserRow
    <3> QED
      BY <1>1, <1>2, <1>10, <3>1 DEF Consistent, HasUser
  <2>2. ASSUME NEW p \in Properties, HasProperty(p)
        PROVE  /\ HasTenant(property[p].tenant) /\ HasUser(property[p].owner)
               /\ user[property[p].owner].tenant = property[p].tenant
    <3>1. property[p].tenant \in Tenants /\ property[p].owner \in Users
      BY <1>4, <2>2 DEF HasProperty, PropertyRow
    <3> QED
      BY <1>1, <1>2, <1>10, <2>2, <3>1 DEF Consistent, HasProperty
  <2> QED
    BY <1>3, <2>1, <2>2 DEF RowsHaveOwners
<1> QED
  BY <1>8, <1>9, <1>11 DEF Sound, ChecksKept

\* Every step, of whatever request, keeps all of it.
LEMMA SoundStep ==
  ASSUME Sound, [Next]_vars
  PROVE  Sound'
<1>1. PICK F : Turn(F)
  BY EveryTurn
<1>2. /\ TypeOK' /\ \A q \in Requests : Kept(req[q])' /\ Sure(req[q])'
  BY <1>1, TurnKeeps
<1>3. RowsHaveOwners'
  BY <1>1, OwnersKept, SplitType DEF Turn, Sound
<1> QED
  BY <1>2, <1>3 DEF Sound, ChecksKept

\* Types, owners and checks are jointly inductive.
THEOREM TenancyInductive == Spec => []Sound
BY SoundInit, SoundStep, PTL DEF Spec

\* The tables, and what a handler holds at each of its statements, are well typed.
THEOREM TenancyTyped == Spec => []TypeOK
<1>1. Sound => TypeOK
  BY DEF Sound
<1> QED
  BY <1>1, TenancyInductive, PTL

\* Whatever deletions interleave with inserts, rows refer to rows that are there.
THEOREM NoOrphans == Spec => []RowsHaveOwners
<1>1. Sound => RowsHaveOwners
  BY DEF Sound
<1> QED
  BY <1>1, TenancyInductive, PTL

\* What a handler has checked holds when it writes, or another has changed it since.
THEOREM ChecksHold == Spec => []ChecksKept
<1>1. Sound => ChecksKept
  BY DEF Sound
<1> QED
  BY <1>1, TenancyInductive, PTL

(***************************************************************************)
(* The races: only these steps write a table, and what they go by is kept.  *)
(***************************************************************************)
\* Which steps write notifications, listings, favorites and details.
LEMMA Writers ==
  ASSUME [Next]_vars
  PROVE  /\ \/ notice' = notice
            \/ \E r \in Requests : DropTenant(r) \/ WriteRead(r) \/ \E u \in Users : Tell(r, u)
            \/ \E a, u \in Users : DeleteUser(a, u)
            \/ \E v \in Users : MarkAllRead(v)
         /\ \/ property' = property
            \/ \E r \in Requests : InsertProperty(r)
            \/ \E r \in Requests, p \in Properties : \E status, owner : WriteProperty(r, p, status, owner)
         /\ \/ saved' = saved
            \/ \E r \in Requests : InsertSaved(r)
            \/ \E u \in Users, p \in Properties : Unsave(u, p)
         /\ \/ detail' = detail
            \/ \E r \in Requests : InsertAmenity(r)
            \/ \E p \in Properties, d \in DetailIds, what \in {"image", "rule"} : Add(p, d, what)
            \/ \E d \in DetailIds : \E kinds : RemoveOne(d, kinds)
<1>1. ASSUME NEW r \in Requests, PlatformBegin(r)
      PROVE  UNCHANGED <<notice, property, saved, detail>>
  BY <1>1 DEF PlatformBegin, BeginCreateTenant, BeginUpdateTenant, BeginDeleteTenant, SetStatus,
              BeginHire, tables
<1>2. ASSUME NEW r \in Requests, PlatformStep(r)
      PROVE  UNCHANGED <<property, saved, detail>> /\ (DropTenant(r) \/ notice' = notice)
  BY <1>2 DEF PlatformStep, InsertTenant, UpdateTenant, DropTenant, FindRole, InsertRole, InsertUser,
              tables
<1>3. ASSUME Accounts
      PROVE  /\ UNCHANGED <<property, saved, detail>>
             /\ (\E a, u \in Users : DeleteUser(a, u)) \/ notice' = notice
  BY <1>3 DEF Accounts, Register, UpdateUser, ChangeRole, DeleteUser
<1>4. ASSUME NEW r \in Requests, BeginMarkRead(r) \/ InboxStep(r)
      PROVE  /\ UNCHANGED <<property, saved, detail>>
             /\ WriteRead(r) \/ (\E u \in Users : Tell(r, u)) \/ notice' = notice
  BY <1>4 DEF BeginMarkRead, InboxStep, FindAdmins, WriteRead, Tell, tables
<1>5. ASSUME NEW v \in Users, MarkAllRead(v)
      PROVE  UNCHANGED <<property, saved, detail>>
  BY <1>5 DEF MarkAllRead
<1>6. ASSUME NEW r \in Requests, CatalogueBegin(r)
      PROVE  /\ UNCHANGED <<notice, saved, detail>>
             /\ \/ \E p \in Properties : \E status, owner : WriteProperty(r, p, status, owner)
                \/ property' = property
  BY <1>6 DEF CatalogueBegin, BeginCreateProperty, BeginAddAmenity, BeginSave, UpdateProperty,
              RemoveProperty, ReactivateProperty, WriteProperty, tables
<1>7. ASSUME NEW r \in Requests, CatalogueStep(r)
      PROVE  /\ notice' = notice
             /\ InsertProperty(r) \/ property' = property
             /\ InsertSaved(r) \/ saved' = saved
             /\ InsertAmenity(r) \/ detail' = detail
  BY <1>7 DEF CatalogueStep, FindOwner, InsertProperty, InsertAmenity, FindSaved, InsertSaved, tables
<1>8. ASSUME Details
      PROVE  /\ UNCHANGED <<notice, property>>
             /\ (\E u \in Users, p \in Properties : Unsave(u, p)) \/ saved' = saved
             /\ \/ \E p \in Properties, d \in DetailIds, what \in {"image", "rule"} : Add(p, d, what)
                \/ \E d \in DetailIds : \E kinds : RemoveOne(d, kinds)
                \/ detail' = detail
  BY <1>8 DEF Details, AddImage, AddRule, Add, RemoveImage, RemoveAmenity, RemoveRule, RemoveOne, Unsave
<1>9. ASSUME Tick \/ Crash \/ UNCHANGED vars
      PROVE  UNCHANGED <<notice, property, saved, detail>>
  BY <1>9 DEF Tick, Crash, tables, vars
<1> QED
  BY <1>1, <1>2, <1>3, <1>4, <1>5, <1>6, <1>7, <1>8, <1>9 DEF Next, Handler

\* A request that ends has done its statement.
LEMMA EndDoes ==
  ASSUME NEW r \in Requests, NEW at, req[r].at = at, req'[r].at # at
  PROVE  Does(r, at)
BY DEF Does

\* A notification loses its tenant only to a deletion that counted before it was inserted.
THEOREM LostOnlyByRace == Spec => LostNoticeIsRace
<1>1. ASSUME Sound, [Next]_vars, NEW n \in NoticeIds,
             notice[n] # None, notice[n].tenant # None, notice'[n].tenant = None
      PROVE  \E r \in Requests :
               Does(r, "dropTenant") /\ <<"notice", notice[n].tenant>> \in req[r].stale
  <2>1. notice \in [NoticeIds -> NoticeRow \cup {None}] /\ req \in [Requests -> Request]
    BY <1>1 DEF Sound, TypeOK
  <2>2. PICK r \in Requests : DropTenant(r)
    <3>1. CASE \E r \in Requests : WriteRead(r)
      BY <1>1, <2>1, <3>1 DEF WriteRead, NoticeRow
    <3>2. CASE \E r \in Requests, u \in Users : Tell(r, u)
      BY <1>1, <2>1, <3>2 DEF Tell, NewKey
    <3>3. CASE \E a, u \in Users : DeleteUser(a, u)
      BY <1>1, <2>1, <3>3 DEF DeleteUser, NoticeRow
    <3>4. CASE \E v \in Users : MarkAllRead(v)
      BY <1>1, <2>1, <3>4 DEF MarkAllRead, NoticeRow
    <3> QED
      BY <1>1, <3>1, <3>2, <3>3, <3>4, Writers
  <2>3. /\ req[r].at = "dropTenant" /\ n \in NoticesOf(req[r].tenant) /\ req'[r] = Idle
    BY <1>1, <2>2 DEF DropTenant, Wrote, NoticesOf
  <2>4. Does(r, "dropTenant")
    BY <2>3, EndDoes DEF Idle
  <2>5. <<"notice", req[r].tenant>> \in req[r].stale
    BY <1>1, <2>3 DEF Sound, ChecksKept, Kept
  <2> QED
    BY <2>3, <2>4, <2>5 DEF NoticesOf
<1>2. Sound /\ [Next]_vars =>
        \A n \in NoticeIds :
          notice[n] # None /\ notice[n].tenant # None /\ notice'[n].tenant = None =>
            \E r \in Requests :
              Does(r, "dropTenant") /\ <<"notice", notice[n].tenant>> \in req[r].stale
  BY <1>1
<1> QED
  BY <1>2, TenancyInductive, PTL DEF Spec, LostNoticeIsRace

\* A time of reading is replaced only by a markRead that looked before it was written.
THEOREM ReadOnce == Spec => ReadTimeKept
<1>1. ASSUME Sound, [Next]_vars, NEW n \in NoticeIds,
             notice[n] # None, notice[n].readAt # None, notice'[n].readAt # notice[n].readAt
      PROVE  /\ notice'[n].readAt # None
             /\ \E r \in Requests :
                  Does(r, "writeRead") /\ req[r].notice = n /\ <<"read", n>> \in req[r].stale
  <2>1. notice \in [NoticeIds -> NoticeRow \cup {None}] /\ req \in [Requests -> Request]
    BY <1>1 DEF Sound, TypeOK
  <2>2. PICK r \in Requests : WriteRead(r)
    <3>1. CASE \E r \in Requests : DropTenant(r)
      BY <1>1, <2>1, <3>1 DEF DropTenant, NoticeRow
    <3>2. CASE \E r \in Requests, u \in Users : Tell(r, u)
      BY <1>1, <2>1, <3>2 DEF Tell, NewKey
    <3>3. CASE \E a, u \in Users : DeleteUser(a, u)
      BY <1>1, <2>1, <3>3 DEF DeleteUser, NoticeRow
    <3>4. CASE \E v \in Users : MarkAllRead(v)
      BY <1>1, <2>1, <3>4 DEF MarkAllRead, NoticeRow
    <3> QED
      BY <1>1, <3>1, <3>2, <3>3, <3>4, Writers
  <2> DEFINE time == IF req[r].seen = None THEN now ELSE req[r].seen
  <2>3. /\ req[r].at = "writeRead" /\ req'[r] = Idle
        /\ notice' = [notice EXCEPT ![req[r].notice].readAt = time]
    BY <2>2 DEF WriteRead, Wrote
  <2>4. req[r].notice = n /\ notice'[n].readAt = time
    BY <1>1, <2>1, <2>3 DEF NoticeRow
  <2>5. time \in Times /\ time # None
    BY <2>1, Values, <1>1 DEF Request, Sound, TypeOK
  <2>6. req[r].seen # notice[n].readAt
    BY <1>1, <2>4
  <2>7. <<"read", n>> \in req[r].stale
    BY <1>1, <2>3, <2>4, <2>6 DEF Sound, ChecksKept, Kept
  <2>8. Does(r, "writeRead")
    BY <2>3, EndDoes DEF Idle
  <2> QED
    BY <2>4, <2>5, <2>7, <2>8
<1>2. Sound /\ [Next]_vars =>
        \A n \in NoticeIds :
          notice[n] # None /\ notice[n].readAt # None /\ notice'[n].readAt # notice[n].readAt =>
            /\ notice'[n].readAt # None
            /\ \E r \in Requests :
                 /\ Does(r, "writeRead") /\ req[r].notice = n
                 /\ <<"read", n>> \in req[r].stale
  BY <1>1
<1> QED
  BY <1>2, TenancyInductive, PTL DEF Spec, ReadTimeKept

\* An active listing of an inactive tenant comes of a status written after the check.
THEOREM CreatedOnlyByRace == Spec => CreatedActiveIsRace
<1>1. ASSUME Sound, [Next]_vars, NEW p \in Properties,
             property[p] = None, property'[p] # None, property'[p].status = "ACTIVE",
             tenant[property'[p].tenant].status = "INACTIVE"
      PROVE  \E r \in Requests :
               Does(r, "insertProperty") /\ <<"status", property'[p].tenant>> \in req[r].stale
  <2>1. property \in [Properties -> PropertyRow \cup {None}] /\ req \in [Requests -> Request]
    BY <1>1 DEF Sound, TypeOK
  <2>2. PICK r \in Requests : InsertProperty(r)
    <3>1. CASE \E r \in Requests, q \in Properties : \E status, owner : WriteProperty(r, q, status, owner)
      <4>1. PICK q \in Properties : HasProperty(q) /\ \A o \in Properties \ {q} : property'[o] = property[o]
        BY <2>1, <3>1 DEF WriteProperty
      <4> QED
        BY <1>1, <4>1 DEF HasProperty
    <3> QED
      BY <1>1, <3>1, Writers
  <2>3. PICK q \in Properties :
          property' = [property EXCEPT ![q] = [tenant |-> req[r].tenant, owner |-> req[r].user,
                                               status |-> req[r].status, patched |-> FALSE]]
    BY <1>1, <2>2 DEF InsertProperty
  <2>4. property'[p].tenant = req[r].tenant /\ req[r].status = "ACTIVE"
    BY <1>1, <2>1, <2>3
  <2>5. req[r].at = "insertProperty" /\ HasTenant(req[r].tenant) /\ req'[r].at = "findAdmins"
    BY <1>1, <2>2 DEF InsertProperty, Wrote, Idle
  <2>6. Does(r, "insertProperty")
    BY <2>5, EndDoes
  <2> QED
    BY <1>1, <2>4, <2>5, <2>6 DEF Sound, ChecksKept, Kept
<1>2. Sound /\ [Next]_vars =>
        \A p \in Properties :
          property[p] = None /\ property'[p] # None /\ property'[p].status = "ACTIVE"
            /\ tenant[property'[p].tenant].status = "INACTIVE" =>
              \E r \in Requests :
                Does(r, "insertProperty") /\ <<"status", property'[p].tenant>> \in req[r].stale
  BY <1>1
<1> QED
  BY <1>2, TenancyInductive, PTL DEF Spec, CreatedActiveIsRace

\* A hidden listing is saved only by a request that found it public before.
THEOREM SavedOnlyByRace == Spec => SavedHiddenIsRace
<1>1. ASSUME Sound, [Next]_vars, NEW u \in Users, NEW p \in Properties,
             <<u, p>> \in saved' \ saved, ~Public(p)
      PROVE  \E r \in Requests :
               /\ Does(r, "insertSaved")
               /\ req[r].stale \cap {<<"status", property[p].tenant>>, <<"listing", p>>} # {}
  <2>1. PICK r \in Requests : InsertSaved(r)
    BY <1>1, Writers DEF Unsave
  <2>2. /\ req[r].at = "insertSaved" /\ req'[r] = Idle
        /\ saved' = saved \cup {<<req[r].user, req[r].property>>}
    BY <1>1, <2>1 DEF InsertSaved, Wrote
  <2>3. req[r].property = p
    BY <1>1, <2>2
  <2>4. property[p].tenant = req[r].tenant
    BY <1>1, <2>2, <2>3 DEF Sound, TypeOK, RequestOK
  <2>5. <<"status", property[p].tenant>> \in req[r].stale \/ <<"listing", p>> \in req[r].stale
    BY <1>1, <2>2, <2>3, <2>4 DEF Sound, ChecksKept, Kept
  <2>6. Does(r, "insertSaved")
    BY <2>2, EndDoes DEF Idle
  <2> QED
    BY <2>5, <2>6
<1>2. Sound /\ [Next]_vars =>
        \A u \in Users, p \in Properties :
          <<u, p>> \in saved' \ saved /\ ~Public(p) =>
            \E r \in Requests :
              /\ Does(r, "insertSaved")
              /\ req[r].stale \cap {<<"status", property[p].tenant>>, <<"listing", p>>} # {}
  BY <1>1
<1> QED
  BY <1>2, TenancyInductive, PTL DEF Spec, SavedHiddenIsRace

\* An amenity is listed twice only by two requests that passed each other's look.
THEOREM DoubledOnlyByRace == Spec => DuplicateAmenityIsRace
<1>1. ASSUME Sound, [Next]_vars, NEW d \in DetailIds, detail[d] = None, detail'[d] # None,
             detail'[d].what \in Amenities, Has(detail'[d].property, detail'[d].what)
      PROVE  \E r \in Requests :
               /\ Does(r, "insertAmenity")
               /\ <<"amenity", <<detail'[d].property, detail'[d].what>>>> \in req[r].stale
  <2>1. detail \in [DetailIds -> DetailRow \cup {None, Gone}]
    BY <1>1 DEF Sound, TypeOK
  <2>2. PICK r \in Requests : InsertAmenity(r)
    <3>1. CASE \E p \in Properties, c \in DetailIds, what \in {"image", "rule"} : Add(p, c, what)
      BY <1>1, <2>1, <3>1, Values DEF Add
    <3>2. CASE \E c \in DetailIds : \E kinds : RemoveOne(c, kinds)
      BY <1>1, <2>1, <3>2 DEF RemoveOne
    <3> QED
      BY <1>1, <3>1, <3>2, Writers
  <2>3. PICK c \in DetailIds :
          detail' = [detail EXCEPT ![c] = [property |-> req[r].property, what |-> req[r].what]]
    BY <2>2 DEF InsertAmenity
  <2>4. detail'[d] = [property |-> req[r].property, what |-> req[r].what]
    BY <1>1, <2>1, <2>3
  <2>5. req[r].at = "insertAmenity" /\ req'[r] = Idle
    BY <2>2 DEF InsertAmenity, Wrote
  <2>6. <<"amenity", <<req[r].property, req[r].what>>>> \in req[r].stale
    <3>1. Has(req[r].property, req[r].what)
      BY <1>1, <2>4 DEF Has
    <3> QED
      BY <1>1, <2>5, <3>1 DEF Sound, ChecksKept, Kept
  <2>7. Does(r, "insertAmenity")
    BY <2>5, EndDoes DEF Idle
  <2> QED
    BY <2>4, <2>6, <2>7
<1>2. Sound /\ [Next]_vars =>
        \A d \in DetailIds :
          detail[d] = None /\ detail'[d] # None /\ detail'[d].what \in Amenities
            /\ Has(detail'[d].property, detail'[d].what) =>
              \E r \in Requests :
                /\ Does(r, "insertAmenity")
                /\ <<"amenity", <<detail'[d].property, detail'[d].what>>>> \in req[r].stale
  BY <1>1
<1> QED
  BY <1>2, TenancyInductive, PTL DEF Spec, DuplicateAmenityIsRace

(***************************************************************************)
(* Who sees a notification.  It is its addressee's as long as the account   *)
(* is there, and then nobody's; a token's tenant is the account's, which    *)
(* never changes.                                                           *)
(***************************************************************************)
Addressed(n) ==
  LET a == notice[n].addressee
  IN  notice[n] # None =>
        /\ user[a] # None
        /\ IF HasUser(a)
           THEN /\ notice[n].user = a /\ notice[n].tenant # None
                /\ notice[n].tenant = user[a].tenant
           ELSE notice[n].user = None

Badged(u) ==
  /\ user[u] = None => badge[u] = None
  /\ HasUser(u) /\ badge[u] # None => badge[u] = user[u].tenant

Trusty == (\A n \in NoticeIds : Addressed(n)) /\ (\A u \in Users : Badged(u))

\* That is why a notification is seen in its own scope.
LEMMA TrustyScope ==
  ASSUME TablesTyped, Trusty
  PROVE  NoticeScope
<1> SUFFICES ASSUME NEW n \in NoticeIds, NEW v \in Users, Sees(v, n)
             PROVE  /\ HasUser(notice[n].addressee) => v = notice[n].addressee
                    /\ notice[n].tenant # None
                    /\ IF HasUser(v) THEN user[v].tenant = notice[n].tenant
                                     ELSE badge[v] = notice[n].tenant
  BY DEF NoticeScope
<1>1. notice[n] # None /\ notice[n].addressee \in Users /\ notice[n].addressee # None
  BY Values DEF Sees, TablesTyped, NoticeRow
<1>2. v # None
  BY Values
<1> QED
  BY <1>1, <1>2 DEF Sees, Trusty, Addressed, Badged

\* Every effect keeps it.
LEMMA TrustyKept ==
  ASSUME TablesTyped, RowsHaveOwners, Trusty, NEW F, Effect(F)
  PROVE  Trusty'
<1>1. TablesTyped' /\ RowsStay
  BY EffectTables
<1>2. /\ \A n \in NoticeIds : notice[n] # None => notice[n] \in NoticeRow
      /\ \A u \in Users : HasUser(u) => user[u].tenant \in Tenants \cup {None}
  BY DEF TablesTyped, HasUser, UserRow
<1>3. CASE UNCHANGED <<user, notice, badge>>
  BY <1>3 DEF Trusty, Addressed, Badged, HasUser
<1>4. ASSUME NEW t \in Tenants, Drops(t)
      PROVE  Trusty'
  <2>1. user' = user /\ badge' = badge /\ \A u \in Users : HasUser(u) => user[u].tenant # t
    BY <1>4 DEF Drops, Empty, Staff
  <2>2. \A n \in NoticeIds :
          /\ notice[n] = None => notice'[n] = None
          /\ notice[n] # None => /\ notice'[n].addressee = notice[n].addressee
                                 /\ notice'[n].user = notice[n].user
                                 /\ notice[n].tenant # t => notice'[n].tenant = notice[n].tenant
    BY <1>2, <1>4 DEF Drops, NoticesOf, NoticeRow
  <2>3. \A n \in NoticeIds : notice[n] # None => notice[n].addressee \in Users
    BY <1>2 DEF NoticeRow
  <2> QED
    BY <2>1, <2>2, <2>3 DEF Trusty, Addressed, Badged, HasUser
<1>5. ASSUME NEW u \in Users, NEW row \in UserRow, Enters(u, row)
      PROVE  Trusty'
  <2>1. /\ notice' = notice /\ user[u] = None /\ user'[u] = row /\ HasUser(u)'
        /\ \A v \in Users \ {u} : user'[v] = user[v] /\ badge'[v] = badge[v]
        /\ badge'[u] \in {None, row.tenant}
    BY <1>5, Values DEF Enters, TablesTyped, HasUser, Trusty, Badged
  <2>2. \A n \in NoticeIds : notice[n] # None => notice[n].addressee \in Users \ {u}
    BY <1>2, <2>1 DEF NoticeRow, Trusty, Addressed
  <2>3. \A n \in NoticeIds : Addressed(n)'
    BY <2>1, <2>2 DEF Trusty, Addressed, HasUser
  <2>4. \A v \in Users : Badged(v)'
    BY <2>1 DEF Trusty, Badged, HasUser
  <2> QED
    BY <2>3, <2>4 DEF Trusty
<1>6. ASSUME NEW u \in Users, (\E e \in Emails : Mails(u, e)) \/ (\E role \in Roles : Promotes(u, role))
      PROVE  Trusty'
  <2>1. /\ notice' = notice /\ HasUser(u) /\ badge'[u] \in {badge[u], user[u].tenant}
        /\ \A v \in Users : (HasUser(v) <=> HasUser(v)') /\ (HasUser(v) => user'[v].tenant = user[v].tenant)
        /\ \A v \in Users : user'[v] = None <=> user[v] = None
        /\ \A v \in Users \ {u} : badge'[v] = badge[v]
    BY <1>6, Values DEF Mails, Promotes, TablesTyped, HasUser, UserRow
  <2>2. \A n \in NoticeIds : notice[n] # None => notice[n].addressee \in Users
    BY <1>2 DEF NoticeRow
  <2>3. \A n \in NoticeIds : Addressed(n)'
    BY <2>1, <2>2 DEF Trusty, Addressed
  <2>4. \A v \in Users : Badged(v)'
    BY <2>1 DEF Trusty, Badged, HasUser
  <2> QED
    BY <2>3, <2>4 DEF Trusty
<1>7. ASSUME NEW u \in Users, Fires(u)
      PROVE  Trusty'
  <2>1. /\ badge' = badge /\ HasUser(u) /\ ~HasUser(u)' /\ user'[u] # None
        /\ \A v \in Users \ {u} : user'[v] = user[v] /\ (HasUser(v) <=> HasUser(v)')
    BY <1>7, Values DEF Fires, TablesTyped, HasUser
  <2>2. \A n \in NoticeIds :
          /\ notice[n] = None => notice'[n] = None
          /\ notice[n] # None => /\ notice'[n].addressee = notice[n].addressee
                                 /\ notice'[n].tenant = notice[n].tenant
                                 /\ notice'[n].user = IF notice[n].user = u THEN None ELSE notice[n].user
    BY <1>2, <1>7 DEF Fires, NoticeRow
  <2>3. \A n \in NoticeIds : notice[n] # None => notice[n].addressee \in Users
    BY <1>2 DEF NoticeRow
  <2>4. \A n \in NoticeIds : Addressed(n)'
    BY <2>1, <2>2, <2>3 DEF Trusty, Addressed
  <2>5. \A v \in Users : Badged(v)'
    BY <2>1 DEF Trusty, Badged
  <2> QED
    BY <2>4, <2>5 DEF Trusty
<1>8. ASSUME NEW n \in NoticeIds, NEW u \in Users, NEW t \in Tenants, Tells(n, u, t)
      PROVE  Trusty'
  <2>1. /\ notice'[n] = [user |-> u, tenant |-> t, readAt |-> None, addressee |-> u]
        /\ \A m \in NoticeIds \ {n} : notice'[m] = notice[m]
        /\ user' = user /\ badge' = badge /\ HasUser(u) /\ user[u].tenant = t /\ t # None
    BY <1>8, Values DEF Tells, TablesTyped
  <2> QED
    BY <2>1 DEF Trusty, Addressed, Badged, HasUser
<1>9. ASSUME NEW ids \in SUBSET NoticeIds, NEW time \in Times, Reads(ids, time)
      PROVE  Trusty'
  <2>1. \A n \in NoticeIds :
          /\ notice[n] = None => notice'[n] = None
          /\ notice[n] # None => /\ notice'[n].addressee = notice[n].addressee
                                 /\ notice'[n].tenant = notice[n].tenant
                                 /\ notice'[n].user = notice[n].user
    BY <1>2, <1>9 DEF Reads, NoticeRow
  <2>2. user' = user /\ badge' = badge
    BY <1>9 DEF Reads
  <2> QED
    BY <2>1, <2>2 DEF Trusty, Addressed, Badged, HasUser
<1>10. CASE \/ Nothing \/ MakesRole \/ PropertyEffect(F)
            \/ \E t \in Tenants, s \in Slugs : Founds(t, s) \/ Renames(t, s)
            \/ \E t \in Tenants, status \in Statuses : Turns(t, status)
  <2>1. UNCHANGED <<user, notice, badge>>
    BY <1>10 DEF Nothing, MakesRole, PropertyEffect, Lists, Sets, Furnishes, Clears, Saves, Forgets,
                 Founds, Renames, Turns
  <2> QED
    BY <1>3, <2>1
<1> QED
  BY <1>4, <1>5, <1>6, <1>7, <1>8, <1>9, <1>10 DEF Effect, TenantEffect, UserEffect, NoticeEffect

\* A notification is seen by its tenant's people only, and by nobody but its addressee while
\* that account is there, whatever roles, accounts and tenants come to.
THEOREM NoticesInScope == Spec => []NoticeScope
<1>1. Init => Trusty
  <2> SUFFICES ASSUME Init
               PROVE  Trusty
    OBVIOUS
  <2>1. /\ notice = [n \in NoticeIds |-> None]
        /\ badge = [u \in Users |-> IF user[u] # None /\ user[u].role = "TENANT_ADMIN"
                                    THEN user[u].tenant ELSE None]
    BY DEF Init
  <2> QED
    BY <2>1 DEF Trusty, Addressed, Badged
<1>2. Sound /\ Trusty /\ [Next]_vars => Trusty'
  BY EveryTurn, TrustyKept, SplitType DEF Turn, Sound
<1>3. Sound /\ Trusty => NoticeScope
  BY TrustyScope, SplitType DEF Sound
<1> QED
  BY <1>1, <1>2, <1>3, TenancyInductive, PTL DEF Spec

(***************************************************************************)
(* The platform keeps what TenantLife promises: every effect is one of its  *)
(* steps, or none.                                                          *)
(***************************************************************************)
\* What the abstract specification sees.
LEMMA LifeViews ==
  /\ \A t \in Tenants :
       /\ Life[t] = IF tenant[t] = None THEN "new" ELSE
                    IF tenant[t] = Gone THEN "deleted" ELSE
                    IF tenant[t].status = "ACTIVE" THEN "open" ELSE "closed"
       /\ Name[t] = IF HasTenant(t) THEN tenant[t].slug ELSE None
       /\ StaffOf[t] = Staff(t) /\ ListingsOf[t] = Listings(t)
       /\ Abstract!There(t) <=> HasTenant(t)
  /\ \A t \in Tenants, s \in Slugs : Abstract!Free(s, t) <=> ~SlugOfOther(s, t)
<1>1. \A t \in Tenants :
        /\ Life[t] = IF tenant[t] = None THEN "new" ELSE
                     IF tenant[t] = Gone THEN "deleted" ELSE
                     IF tenant[t].status = "ACTIVE" THEN "open" ELSE "closed"
        /\ Name[t] = IF HasTenant(t) THEN tenant[t].slug ELSE None
        /\ StaffOf[t] = Staff(t) /\ ListingsOf[t] = Listings(t)
  BY DEF Life, Name, StaffOf, ListingsOf
<1>2. \A t \in Tenants : Abstract!There(t) <=> HasTenant(t)
  BY <1>1 DEF Abstract!There, HasTenant
<1>3. \A t \in Tenants, s \in Slugs : Abstract!Free(s, t) <=> ~SlugOfOther(s, t)
  BY <1>1, Values DEF Abstract!Free, SlugOfOther
<1> QED
  BY <1>1, <1>2, <1>3

\* What the abstract specification sees stays as the tables do.
LEMMA LifeStays ==
  /\ tenant' = tenant => Life' = Life /\ Name' = Name
  /\ user' = user => StaffOf' = StaffOf
  /\ property' = property => ListingsOf' = ListingsOf
BY DEF Life, Name, StaffOf, ListingsOf, HasTenant, Staff, HasUser, Listings, HasProperty

\* Founding, renaming, closing and deleting a tenant.
LEMMA TenantLives ==
  ASSUME TablesTyped, NEW F, TenantEffect(F)
  PROVE  Abstract!LifeNext
<1>1. ASSUME NEW t \in Tenants, NEW s \in Slugs, Founds(t, s)
      PROVE  Abstract!Found(t, s)
  <2>1. /\ tenant'[t] = [slug |-> s, status |-> "ACTIVE"] /\ ~HasTenant(t) /\ tenant[t] = None
        /\ \A v \in Tenants \ {t} : tenant'[v] = tenant[v]
    BY <1>1 DEF Founds, TablesTyped, HasTenant
  <2>2. tenant'[t] # None /\ tenant'[t] # Gone
    <3>1. [slug |-> s, status |-> "ACTIVE"] \in TenantRow
      BY DEF TenantRow, Statuses
    <3> QED
      BY <2>1, <3>1, Values
  <2>3. Life' = [Life EXCEPT ![t] = "open"]
    <3>1. \A v \in Tenants : Life'[v] = IF v = t THEN "open" ELSE Life[v]
      BY <2>1, <2>2 DEF Life
    <3> QED
      BY <3>1 DEF Life
  <2>4. Name' = [Name EXCEPT ![t] = s]
    <3>1. \A v \in Tenants : Name'[v] = IF v = t THEN s ELSE Name[v]
      BY <2>1, <2>2 DEF Name, HasTenant
    <3> QED
      BY <3>1 DEF Name
  <2>5. Life[t] = "new" /\ Abstract!Free(s, t)
    BY <1>1, <2>1, LifeViews DEF Founds, SlugTaken, SlugOfOther
  <2> QED
    BY <1>1, <2>3, <2>4, <2>5, LifeStays DEF Abstract!Found, Founds
<1>2. ASSUME NEW t \in Tenants, NEW s \in Slugs, Renames(t, s)
      PROVE  Abstract!Rename(t, s)
  <2>1. /\ tenant'[t].slug = s /\ tenant'[t].status = tenant[t].status
        /\ tenant'[t] # None /\ tenant'[t] # Gone /\ HasTenant(t)
        /\ \A v \in Tenants \ {t} : tenant'[v] = tenant[v]
    BY <1>2, Values DEF Renames, TablesTyped, HasTenant, TenantRow
  <2>2. Life' = Life
    BY <2>1 DEF Life, HasTenant
  <2>3. Name' = [Name EXCEPT ![t] = s]
    BY <2>1 DEF Name, HasTenant
  <2> QED
    BY <1>2, <2>1, <2>2, <2>3, LifeViews, LifeStays DEF Abstract!Rename, Renames
<1>3. ASSUME NEW t \in Tenants, NEW status \in Statuses, Turns(t, status)
      PROVE  Abstract!Turn(t, IF status = "ACTIVE" THEN "open" ELSE "closed")
  <2>1. /\ tenant'[t].slug = tenant[t].slug /\ tenant'[t].status = status
        /\ tenant'[t] # None /\ tenant'[t] # Gone /\ HasTenant(t)
        /\ \A v \in Tenants \ {t} : tenant'[v] = tenant[v]
    BY <1>3, Values DEF Turns, TablesTyped, HasTenant, TenantRow
  <2>2. Life' = [Life EXCEPT ![t] = IF status = "ACTIVE" THEN "open" ELSE "closed"]
    BY <2>1 DEF Life
  <2>3. Name' = Name
    BY <2>1 DEF Name, HasTenant
  <2> QED
    BY <1>3, <2>1, <2>2, <2>3, LifeViews, LifeStays DEF Abstract!Turn, Turns
<1>4. ASSUME NEW t \in Tenants, Drops(t)
      PROVE  Abstract!Delete(t)
  <2>1. /\ tenant'[t] = Gone /\ HasTenant(t) /\ Staff(t) = {} /\ Listings(t) = {}
        /\ \A v \in Tenants \ {t} : tenant'[v] = tenant[v]
    BY <1>4 DEF Drops, TablesTyped, Empty
  <2>2. Life' = [Life EXCEPT ![t] = "deleted"]
    BY <2>1, Values DEF Life
  <2>3. Name' = [Name EXCEPT ![t] = None]
    <3>1. \A v \in Tenants : Name'[v] = IF v = t THEN None ELSE Name[v]
      BY <2>1 DEF Name, HasTenant
    <3> QED
      BY <3>1 DEF Name
  <2> QED
    BY <1>4, <2>1, <2>2, <2>3, LifeViews, LifeStays DEF Abstract!Delete, Drops
<1> QED
  BY <1>1, <1>2, <1>3, <1>4 DEF TenantEffect, Abstract!LifeNext

\* Accounts join and leave, and listings are made.
LEMMA PeopleLive ==
  ASSUME TablesTyped, RowsHaveOwners, NEW F, UserEffect(F) \/ PropertyEffect(F)
  PROVE  Abstract!LifeNext \/ UNCHANGED <<Life, Name, StaffOf, ListingsOf>>
<1>1. ASSUME NEW u \in Users, NEW row \in UserRow, Enters(u, row)
      PROVE  Abstract!LifeNext \/ UNCHANGED <<Life, Name, StaffOf, ListingsOf>>
  <2>1. /\ user'[u] = row /\ HasUser(u)' /\ ~HasUser(u)
        /\ \A v \in Users \ {u} : user'[v] = user[v]
        /\ row.tenant \in Tenants \cup {None}
    BY <1>1, Values DEF Enters, TablesTyped, HasUser, UserRow
  <2>2. \A t \in Tenants : Staff(t)' = IF t = row.tenant THEN Staff(t) \cup {u} ELSE Staff(t)
    BY <2>1 DEF Staff, HasUser
  <2>3. \A t \in Tenants : u \notin Staff(t)
    BY <2>1 DEF Staff
  <2>4. CASE row.tenant = None
    BY <1>1, <2>2, <2>4, LifeStays, Values DEF StaffOf, Enters
  <2>5. CASE row.tenant \in Tenants
    <3>1. StaffOf' = [StaffOf EXCEPT ![row.tenant] = @ \cup {u}]
      BY <2>2, <2>5 DEF StaffOf
    <3>2. Abstract!Join(row.tenant, u)
      BY <1>1, <2>3, <2>5, <3>1, LifeViews, LifeStays, Values DEF Abstract!Join, Enters
    <3> QED
      BY <2>5, <3>2 DEF Abstract!LifeNext
  <2> QED
    BY <2>1, <2>4, <2>5
<1>2. ASSUME NEW u \in Users, (\E e \in Emails : Mails(u, e)) \/ (\E role \in Roles : Promotes(u, role))
      PROVE  UNCHANGED <<Life, Name, StaffOf, ListingsOf>>
  <2>1. \A v \in Users : (HasUser(v) <=> HasUser(v)') /\ (HasUser(v) => user'[v].tenant = user[v].tenant)
    BY <1>2, Values DEF Mails, Promotes, TablesTyped, HasUser, UserRow
  <2>2. StaffOf' = StaffOf
    BY <2>1 DEF StaffOf, Staff
  <2> QED
    BY <1>2, <2>2, LifeStays DEF Mails, Promotes
<1>3. ASSUME NEW u \in Users, Fires(u)
      PROVE  Abstract!LifeNext \/ UNCHANGED <<Life, Name, StaffOf, ListingsOf>>
  <2> DEFINE t == user[u].tenant
  <2>1. /\ HasUser(u) /\ ~HasUser(u)' /\ t \in Tenants \cup {None}
        /\ \A v \in Users \ {u} : user'[v] = user[v] /\ (HasUser(v) <=> HasUser(v)')
    BY <1>3 DEF Fires, TablesTyped, HasUser, UserRow
  <2>2. \A v \in Tenants : Staff(v)' = IF v = t THEN Staff(v) \ {u} ELSE Staff(v)
    BY <2>1 DEF Staff
  <2>3. CASE t = None
    BY <1>3, <2>2, <2>3, LifeStays, Values DEF StaffOf, Fires
  <2>4. CASE t \in Tenants
    <3>1. StaffOf' = [StaffOf EXCEPT ![t] = @ \ {u}]
      BY <2>2, <2>4 DEF StaffOf
    <3>2. Abstract!Leave(t, u)
      BY <1>3, <3>1, LifeStays DEF Abstract!Leave, Fires
    <3> QED
      BY <2>4, <3>2 DEF Abstract!LifeNext
  <2> QED
    BY <2>1, <2>3, <2>4
<1>4. ASSUME NEW p \in Properties, NEW row \in PropertyRow, Lists(p, row)
      PROVE  Abstract!LifeNext
  <2> DEFINE t == row.tenant
  <2>1. /\ property'[p] = row /\ HasProperty(p)' /\ ~HasProperty(p) /\ t \in Tenants
        /\ \A q \in Properties \ {p} : property'[q] = property[q]
    BY <1>4, Values DEF Lists, TablesTyped, HasProperty, PropertyRow
  <2>2. \A v \in Tenants : Listings(v)' = IF v = t THEN Listings(v) \cup {p} ELSE Listings(v)
    BY <2>1 DEF Listings, HasProperty
  <2>3. ListingsOf' = [ListingsOf EXCEPT ![t] = @ \cup {p}]
    BY <2>1, <2>2 DEF ListingsOf
  <2>4. \A v \in Tenants : p \notin Listings(v)
    BY <2>1 DEF Listings
  <2>5. Abstract!List(t, p)
    BY <1>4, <2>1, <2>3, <2>4, LifeViews, LifeStays DEF Abstract!List, Lists
  <2> QED
    BY <2>1, <2>5 DEF Abstract!LifeNext
<1>5. ASSUME NEW p \in Properties, NEW status \in Statuses, NEW owner \in Users, Sets(p, status, owner)
      PROVE  UNCHANGED <<Life, Name, StaffOf, ListingsOf>>
  <2>1. RowsStay
    BY <1>5, EffectTables DEF Effect, PropertyEffect
  <2>2. \A q \in Properties : (HasProperty(q) <=> HasProperty(q)')
                              /\ (HasProperty(q) => property'[q].tenant = property[q].tenant)
    BY <1>5, <2>1 DEF Sets, RowsStay, TablesTyped, HasProperty
  <2>3. ListingsOf' = ListingsOf
    BY <2>2 DEF ListingsOf, Listings
  <2> QED
    BY <1>5, <2>3, LifeStays DEF Sets
<1>6. CASE \/ MakesRole
           \/ \E d \in DetailIds, p \in Properties, what \in Parts : Furnishes(d, p, what)
           \/ \E d \in DetailIds : Clears(d)
           \/ \E u \in Users, p \in Properties : Saves(u, p) \/ Forgets(u, p)
  BY <1>6, LifeStays DEF MakesRole, Furnishes, Clears, Saves, Forgets
<1> QED
  BY <1>1, <1>2, <1>3, <1>4, <1>5, <1>6 DEF UserEffect, PropertyEffect

\* The platform implements TenantLife, whatever requests interleave.
THEOREM PlatformKeepsLife == Spec => ImplementsTenantLife
<1>1. Init => Abstract!LifeInit
  <2> SUFFICES ASSUME Init
               PROVE  Abstract!LifeInit
    OBVIOUS
  <2>1. Sound
    BY SoundInit
  <2>2. PICK s \in Scenes : tenant = s.tenant /\ Consistent(s)
    BY TenantAssumption DEF Init
  <2>3. /\ tenant \in [Tenants -> TenantRow \cup {None}]
        /\ \A t, v \in Tenants :
             tenant[t] # None /\ tenant[v] # None /\ tenant[t].slug = tenant[v].slug => t = v
    BY <2>2 DEF Consistent
  <2>4. \A t \in Tenants : HasTenant(t) => tenant[t].slug \in Slugs
    BY <2>3 DEF HasTenant, TenantRow
  <2>5. /\ Life \in [Tenants -> {"new", "open", "closed"}]
        /\ Name \in [Tenants -> Slugs \cup {None}]
        /\ StaffOf \in [Tenants -> SUBSET Users]
        /\ ListingsOf \in [Tenants -> SUBSET Properties]
    <3>1. \A t \in Tenants : tenant[t] # Gone
      BY <2>3, Values DEF TenantRow
    <3> QED
      BY <2>4, <3>1 DEF Life, Name, StaffOf, ListingsOf, Staff, Listings
  <2>6. ASSUME NEW t \in Tenants, HasTenant(t)
        PROVE  Name[t] # None /\ Abstract!Free(Name[t], t)
    <3>1. Name[t] = tenant[t].slug /\ tenant[t].slug \in Slugs
      BY <2>4, <2>6, LifeViews
    <3>2. ~SlugOfOther(tenant[t].slug, t)
      BY <2>3, <2>6 DEF SlugOfOther, HasTenant
    <3> QED
      BY <3>1, <3>2, LifeViews, Values
  <2>7. ASSUME NEW t \in Tenants, ~HasTenant(t)
        PROVE  Name[t] = None /\ StaffOf[t] = {} /\ ListingsOf[t] = {}
    <3>1. Staff(t) = {}
      BY <2>1, <2>7, Values DEF Sound, RowsHaveOwners, Staff
    <3>2. Listings(t) = {}
      BY <2>1, <2>7 DEF Sound, RowsHaveOwners, Listings
    <3> QED
      BY <2>7, <3>1, <3>2, LifeViews
  <2> QED
    BY <2>5, <2>6, <2>7, LifeViews DEF Abstract!LifeInit
<1>2. Sound /\ [Next]_vars => [Abstract!LifeNext]_<<Life, Name, StaffOf, ListingsOf>>
  <2> SUFFICES ASSUME Sound, [Next]_vars
               PROVE  Abstract!LifeNext \/ UNCHANGED <<Life, Name, StaffOf, ListingsOf>>
    OBVIOUS
  <2>1. TablesTyped /\ RowsHaveOwners
    BY SplitType DEF Sound
  <2>2. PICK F : Effect(F)
    BY EveryTurn DEF Turn
  <2>3. CASE Nothing \/ NoticeEffect(F)
    BY <2>3, LifeStays DEF Nothing, NoticeEffect, Tells, Reads
  <2> QED
    BY <2>1, <2>2, <2>3, TenantLives, PeopleLive DEF Effect
<1> QED
  BY <1>1, <1>2, TenancyInductive, PTL DEF Spec, ImplementsTenantLife, Abstract!LifeSpec

(***************************************************************************)
(* What Rentals and SearchCache take for granted.                           *)
(***************************************************************************)
\* A listing is there for good and stays with its tenant, and an account keeps its
\* tenant as long as it is there: the constants TenantOf and TenantOfUser of the
\* other modules stand for what no route changes.
THEOREM TenantsStay == Spec => [][RowsStay]_vars
<1>1. Sound /\ [Next]_vars => RowsStay
  BY EveryTurn, EffectTables, SplitType DEF Turn, Sound
<1> QED
  BY <1>1, TenancyInductive, PTL DEF Spec
=============================================================================
