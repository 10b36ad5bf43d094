---------------------------- MODULE SearchCache ----------------------------
(***************************************************************************)
(* The public property search: SearchService over the listings and their   *)
(* Redis cache, with the routes of PropertiesService and PlatformService   *)
(* that change what is public and clear the cache.  Every awaited call to  *)
(* PostgreSQL or Redis is one step.  Redis may fail at any call, which     *)
(* RedisCacheService logs and swallows, and the server may crash.          *)
(***************************************************************************)
EXTENDS Integers, FiniteSets

CONSTANTS
  Properties, Tenants,
  TenantOf,       \* Properties -> tenant; update strikes tenantId from its data
  Queries,        \* cache keys
  Selects,        \* Queries -> the properties a query's filters let through
  Searches,       \* searches running at a time
  Admins,         \* admin requests running at a time
  TTL,            \* ticks an entry lives
  MaxFill,        \* bound: ticks a search takes from its query to its SET
  AdminOps,       \* the admin routes used in an instance
  Faults,         \* what may fail in an instance: "redis", "crash"
  None

Statuses == {"ACTIVE", "INACTIVE"}

\* Ages count up to one more than any that a property compares.
AgeCap == TTL + MaxFill + 1

ASSUME CacheAssumption ==
  /\ TTL \in Nat \ {0} /\ MaxFill \in Nat
  /\ TenantOf \in [Properties -> Tenants]
  /\ Selects \in [Queries -> SUBSET Properties]
  /\ None \notin Statuses /\ None \notin Queries
  /\ None \notin Properties

VARIABLES
  status,    \* Property.status, None before the property is created
  tenant,    \* Tenant.status
  cache,     \* Redis: the entry of a query, None when there is none
  search,    \* the searches
  admin,     \* the admin requests
  clear,     \* the deleteByPattern each admin request started
  hidden     \* history: ticks since a property was last public

vars == <<status, tenant, cache, search, admin, clear, hidden>>

\* late, spared, data's age: history.  late are the listings hidden after the
\* query that found them; a spared entry is one an invalidation did not reach.
Entry == [data : SUBSET Properties, left : 1..TTL, late : SUBSET Properties,
          spared : BOOLEAN, fill : 0..MaxFill]
Search == [at : {"idle", "get", "query", "set"}, key : Queries \cup {None},
           data : SUBSET Properties, late : SUBSET Properties, age : 0..MaxFill]
Admin == [at : {"idle", "insert", "clear", "notify"}, property : Properties \cup {None},
          as : Statuses \cup {None}, hides : SUBSET Properties]
Clear == [at : {"off", "scan", "del"}, todo : SUBSET Queries, batch : SUBSET Queries]

NoSearch == [at |-> "idle", key |-> None, data |-> {}, late |-> {}, age |-> 0]
NoAdmin == [at |-> "idle", property |-> None, as |-> None, hides |-> {}]
NoClear == [at |-> "off", todo |-> {}, batch |-> {}]

\* where: { status: 'ACTIVE', tenant: { status: 'ACTIVE' } }
PublicIn(st, tn) == {p \in Properties : st[p] = "ACTIVE" /\ tn[TenantOf[p]] = "ACTIVE"}
Public == PublicIn(status, tenant)

Cached(k) == cache[k] # None

Init ==
  /\ status \in [Properties -> Statuses \cup {None}]
  /\ tenant \in [Tenants -> Statuses]
  /\ cache = [k \in Queries |-> None]
  /\ search = [s \in Searches |-> NoSearch]
  /\ admin = [a \in Admins |-> NoAdmin]
  /\ clear = [a \in Admins |-> NoClear]
  /\ hidden = [p \in Properties |-> 0]

(***************************************************************************)
(* searchProperties.                                                       *)
(***************************************************************************)
\* The request is normalised to its key and the search history written.
BeginSearch(s) ==
  /\ search[s].at = "idle"
  /\ \E k \in Queries :
       search' = [search EXCEPT ![s] = [at |-> "get", key |-> k, data |-> {}, late |-> {}, age |-> 0]]
  /\ UNCHANGED <<status, tenant, cache, admin, clear, hidden>>

\* A bug: a hit writes the entry back and so renews its time to live.
HitRenews(s) ==
  /\ search[s].at = "get" /\ Cached(search[s].key)
  /\ cache' = [cache EXCEPT ![search[s].key].left = TTL]
  /\ search' = [search EXCEPT ![s] = NoSearch]
  /\ UNCHANGED <<status, tenant, admin, clear, hidden>>

\* getJson finds an entry, which is the answer.
Hit(s) ==
  /\ search[s].at = "get" /\ Cached(search[s].key)
  /\ search' = [search EXCEPT ![s] = NoSearch]
  /\ UNCHANGED <<status, tenant, cache, admin, clear, hidden>>

\* getJson finds none, or Redis fails and getJson returns null.
Miss(s) ==
  /\ search[s].at = "get"
  /\ ~Cached(search[s].key) \/ "redis" \in Faults
  /\ search' = [search EXCEPT ![s].at = "query"]
  /\ UNCHANGED <<status, tenant, cache, admin, clear, hidden>>

\* property.findMany; the rest of the method up to setJson is synchronous.
Query(s) ==
  /\ search[s].at = "query"
  /\ search' = [search EXCEPT ![s].at = "set",
                              ![s].data = Selects[search[s].key] \cap Public]
  /\ UNCHANGED <<status, tenant, cache, admin, clear, hidden>>

\* setJson with EX; the answer follows.
Fill(s) ==
  /\ search[s].at = "set"
  /\ \/ cache' = [cache EXCEPT ![search[s].key] =
                    [data |-> search[s].data, left |-> TTL, late |-> search[s].late,
                     spared |-> FALSE, fill |-> search[s].age]]
     \/ "redis" \in Faults /\ UNCHANGED cache
  /\ search' = [search EXCEPT ![s] = NoSearch]
  /\ UNCHANGED <<status, tenant, admin, clear, hidden>>

(***************************************************************************)
(* The admin routes.  Each writes one row and calls clearCache; the        *)
(* property routes await it, the tenant routes do not.                     *)
(***************************************************************************)
Free(a) == admin[a].at = "idle" /\ clear[a].at = "off"

\* The row write that makes the tables st and tn, with what follows from it
\* for the histories; a goes on at "next" with its clear started.
Write(a, st, tn, next) ==
  LET gone == Public \ PublicIn(st, tn)
  IN  /\ status' = st /\ tenant' = tn
      /\ search' = [s \in Searches |->
                      [search[s] EXCEPT !.late = @ \cup (search[s].data \cap gone)]]
      /\ hidden' = [p \in Properties |-> IF p \in PublicIn(st, tn) THEN 0 ELSE hidden[p]]
      /\ admin' = [admin EXCEPT ![a] = [NoAdmin EXCEPT !.at = next, !.hides = gone]]
      /\ clear' = [clear EXCEPT ![a] = [at |-> "scan", todo |-> Queries, batch |-> {}]]
      /\ UNCHANGED cache

\* create: the tenant must be active unless the property is not to be.
BeginCreate(a) ==
  /\ "create" \in AdminOps /\ Free(a)
  /\ \E p \in Properties, x \in Statuses :
       /\ status[p] = None
       /\ \A c \in Admins : admin[c].property # p      \* every row has a new id
       /\ tenant[TenantOf[p]] = "ACTIVE" \/ x = "INACTIVE"
       /\ admin' = [admin EXCEPT ![a] = [at |-> "insert", property |-> p, as |-> x, hides |-> {}]]
  /\ UNCHANGED <<status, tenant, cache, search, clear, hidden>>

InsertProperty(a) ==
  /\ admin[a].at = "insert"
  /\ Write(a, [status EXCEPT ![admin[a].property] = admin[a].as], tenant, "clear")

\* update, remove and reactivate, which differ in the status they write.
\* Properties are never deleted, so the check before is one step with the write.
WriteProperty(a) ==
  /\ "property" \in AdminOps /\ Free(a)
  /\ \E p \in Properties, x \in Statuses :
       /\ status[p] # None
       /\ Write(a, [status EXCEPT ![p] = x], tenant, "clear")

\* deactivateTenant and reactivateTenant go on while the cache is cleared.
WriteTenant(a) ==
  /\ "tenant" \in AdminOps /\ Free(a)
  /\ \E t \in Tenants, x \in Statuses :
       Write(a, status, [tenant EXCEPT ![t] = x], "notify")

\* The awaited clearCache is over.
Cleared(a) ==
  /\ admin[a].at = "clear" /\ clear[a].at = "off"
  /\ admin' = [admin EXCEPT ![a].at = "notify"]
  /\ UNCHANGED <<status, tenant, cache, search, clear, hidden>>

\* The notifications are written and the request answered.
Answer(a) ==
  /\ admin[a].at = "notify"
  /\ admin' = [admin EXCEPT ![a] = NoAdmin]
  /\ UNCHANGED <<status, tenant, cache, search, clear, hidden>>

(***************************************************************************)
(* deleteByPattern.  SCAN goes through the key space in some order and     *)
(* promises only that a key there from its first call to its last is       *)
(* found: todo are the keys whose place it has not come to.                *)
(***************************************************************************)
After(c) == IF c.todo = {} THEN NoClear ELSE [c EXCEPT !.at = "scan", !.batch = {}]

\* A bug: only the first page of the scan is looked at.
ScanOnce(a) ==
  /\ clear[a].at = "scan"
  /\ \E page \in SUBSET clear[a].todo \ {{}} :
       LET found == {k \in page : Cached(k)}
           c == [at |-> "del", todo |-> {}, batch |-> found]
       IN  clear' = [clear EXCEPT ![a] = IF found = {} THEN After(c) ELSE c]
  /\ UNCHANGED <<status, tenant, cache, search, admin, hidden>>

Scan(a) ==
  /\ clear[a].at = "scan"
  /\ \E page \in SUBSET clear[a].todo \ {{}} :
       LET found == {k \in page : Cached(k)}
           c == [at |-> "del", todo |-> clear[a].todo \ page, batch |-> found]
       IN  clear' = [clear EXCEPT ![a] = IF found = {} THEN After(c) ELSE c]
  /\ UNCHANGED <<status, tenant, cache, search, admin, hidden>>

Delete(a) ==
  /\ clear[a].at = "del"
  /\ cache' = [k \in Queries |-> IF k \in clear[a].batch THEN None ELSE cache[k]]
  /\ clear' = [clear EXCEPT ![a] = After(@)]
  /\ UNCHANGED <<status, tenant, search, admin, hidden>>

\* The entries the clears in cs leave behind when they are given up.
Spare(cs) ==
  cache' = [k \in Queries |->
              IF Cached(k) /\ \E a \in cs : k \in clear[a].todo \cup clear[a].batch
              THEN [cache[k] EXCEPT !.spared = TRUE] ELSE cache[k]]

ClearFails(a) ==
  /\ "redis" \in Faults /\ clear[a].at # "off"
  /\ Spare({a})
  /\ clear' = [clear EXCEPT ![a] = NoClear]
  /\ UNCHANGED <<status, tenant, search, admin, hidden>>

(***************************************************************************)
(* Time and crashes.                                                       *)
(***************************************************************************)
\* A bug: an entry outlives its time by a tick.
AgedLate(e) == IF e.left = 0 THEN None ELSE [e EXCEPT !.left = @ - 1]

\* A bug: SET without EX.
NeverExpires(e) == e

\* An entry one tick later; Redis drops it at the end of its time.
Aged(e) == IF e.left = 1 THEN None ELSE [e EXCEPT !.left = @ - 1]

Older(n) == IF n = AgeCap THEN n ELSE n + 1

Tick ==
  /\ \A s \in Searches : search[s].at = "set" => search[s].age < MaxFill
  /\ cache' = [k \in Queries |-> IF cache[k] = None THEN None ELSE Aged(cache[k])]
  /\ search' = [s \in Searches |->
                  IF search[s].at = "set" THEN [search[s] EXCEPT !.age = @ + 1] ELSE search[s]]
  /\ hidden' = [p \in Properties |-> IF p \in Public THEN 0 ELSE Older(hidden[p])]
  /\ UNCHANGED <<status, tenant, admin, clear>>

Crash ==
  /\ "crash" \in Faults
  /\ Spare(Admins)
  /\ search' = [s \in Searches |-> NoSearch]
  /\ admin' = [a \in Admins |-> NoAdmin]
  /\ clear' = [a \in Admins |-> NoClear]
  /\ UNCHANGED <<status, tenant, hidden>>

SearchStep(s) == Hit(s) \/ Miss(s) \/ Query(s) \/ Fill(s)
AdminStep(a) == InsertProperty(a) \/ Cleared(a) \/ Answer(a)
ClearStep(a) == Scan(a) \/ Delete(a)

Next ==
  \/ \E s \in Searches : BeginSearch(s) \/ SearchStep(s)
  \/ \E a \in Admins : \/ BeginCreate(a) \/ WriteProperty(a) \/ WriteTenant(a)
                       \/ AdminStep(a) \/ ClearStep(a) \/ ClearFails(a)
  \/ Tick
  \/ Crash

Spec == Init /\ [][Next]_vars

(***************************************************************************)
(* Node and Redis go on with what has begun, and time passes.  Strong for  *)
(* Tick because the bound MaxFill stops it now and then.                   *)
(***************************************************************************)
FairSpec ==
  /\ Spec /\ SF_vars(Tick)
  /\ \A s \in Searches : WF_vars(SearchStep(s))
  /\ \A a \in Admins : WF_vars(AdminStep(a)) /\ WF_vars(ClearStep(a))

(***************************************************************************)
(* Properties.                                                             *)
(***************************************************************************)
TypeOK ==
  /\ status \in [Properties -> Statuses \cup {None}]
  /\ tenant \in [Tenants -> Statuses]
  /\ cache \in [Queries -> Entry \cup {None}]
  /\ search \in [Searches -> Search]
  /\ admin \in [Admins -> Admin]
  /\ clear \in [Admins -> Clear]
  /\ hidden \in [Properties -> 0..AgeCap]
  /\ \A s \in Searches : search[s].at # "idle" => search[s].key \in Queries
  /\ \A a \in Admins : admin[a].at = "insert" =>
                         admin[a].property \in Properties /\ admin[a].as \in Statuses
  /\ \A a \in Admins : clear[a].at # "del" => clear[a].batch = {}

\* A clear that is going to remove what is stored under k.
WillClear(k) == \E a \in Admins : k \in clear[a].todo \cup clear[a].batch

\* What a search holds between its query and its SET: a listing that is no longer
\* public was hidden since, and not longer ago than the query.
SearchInv ==
  /\ \A p \in Public : hidden[p] = 0
  /\ \A s \in Searches :
       IF search[s].at = "set"
       THEN \A p \in search[s].data : /\ p \in search[s].late \cup Public
                                     /\ hidden[p] <= search[s].age
       ELSE search[s].data = {} /\ search[s].age = 0

\* The cache shows a hidden listing for three reasons only: its clear is still
\* under way, the entry was stored by a search that had read the listing before
\* it was hidden and wrote after, or a clear was given up (clearCache after
\* every write, with the guarantee of SCAN).
StaleIsRaced ==
  \A k \in Queries : Cached(k) =>
    \A p \in cache[k].data \ Public :
      p \in cache[k].late \/ cache[k].spared \/ WillClear(k)

\* However invalidation fails, the cache shows a listing at most for the time
\* to live of an entry and the time its search took after the listing was
\* hidden (EX on every SET, and no SET on a hit).
StaleIsBounded ==
  \A k \in Queries : Cached(k) =>
    \A p \in cache[k].data : hidden[p] <= cache[k].fill + (TTL - cache[k].left)

\* Once the request that hid a listing has been answered, no search finds it
\* in the cache.
AnsweredIsHidden ==
  \A k \in Queries : Cached(k) =>
    \A p \in cache[k].data \ Public : \E a \in Admins : p \in admin[a].hides

\* The cache comes to agree with the tables about every listing that is public,
\* or not, from some time on, whatever fails.
CacheSettles ==
  \A p \in Properties :
    /\ <>[](p \notin Public) => <>[](\A k \in Queries : Cached(k) => p \notin cache[k].data)
    /\ <>[](p \in Public) =>
         <>[](\A k \in Queries : Cached(k) /\ p \in Selects[k] => p \in cache[k].data)
=============================================================================
