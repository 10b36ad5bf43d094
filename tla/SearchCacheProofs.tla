-------------------------- MODULE SearchCacheProofs --------------------------
(***************************************************************************)
(* What the search cache keeps for every number of listings, queries,      *)
(* searches and admin requests, every time to live, and whatever fails.    *)
(***************************************************************************)
EXTENDS SearchCache, TLAPS

CacheInv == TypeOK /\ SearchInv /\ StaleIsRaced /\ StaleIsBounded

\* The steps that write a row are Write with some tables.
Writes(a) == InsertProperty(a) \/ WriteProperty(a) \/ WriteTenant(a)

(***************************************************************************)
(* Typing.                                                                 *)
(***************************************************************************)
\* The initial state is typed and holds no entry, no search and no age.
LEMMA InitInv == Init => CacheInv
<1> SUFFICES ASSUME Init PROVE CacheInv
  OBVIOUS
<1>. USE CacheAssumption
<1>1. TypeOK
  <2>1. NoSearch \in Search
    BY DEF NoSearch, Search
  <2>2. NoAdmin \in Admin
    BY DEF NoAdmin, Admin
  <2>3. NoClear \in Clear /\ NoClear.batch = {}
    BY DEF NoClear, Clear
  <2>4. 0 \in 0..AgeCap
    BY DEF AgeCap
  <2>. QED
    BY <2>1, <2>2, <2>3, <2>4 DEF Init, TypeOK, NoSearch, NoAdmin
<1>2. SearchInv
  BY DEF Init, SearchInv, Public, PublicIn, NoSearch
<1>3. StaleIsRaced /\ StaleIsBounded
  BY DEF Init, StaleIsRaced, StaleIsBounded, Cached
<1>. QED
  BY <1>1, <1>2, <1>3 DEF CacheInv

\* What is public is a set of listings, whatever the tables.
LEMMA PublicTyped == ASSUME NEW st, NEW tn PROVE PublicIn(st, tn) \subseteq Properties
BY DEF PublicIn

\* A search step leaves the tables, the admin requests and the ages alone.
LEMMA SearchTyped ==
  ASSUME TypeOK, NEW s \in Searches, BeginSearch(s) \/ SearchStep(s)
  PROVE  TypeOK'
<1>. USE CacheAssumption
<1>0. NoSearch \in Search /\ NoSearch.at = "idle"
  BY DEF NoSearch, Search
<1>1. CASE BeginSearch(s)
  <2>1. PICK k \in Queries : search' = [search EXCEPT ![s] =
          [at |-> "get", key |-> k, data |-> {}, late |-> {}, age |-> 0]]
    BY <1>1 DEF BeginSearch
  <2>2. [at |-> "get", key |-> k, data |-> {}, late |-> {}, age |-> 0] \in Search
    BY DEF Search
  <2>. QED
    BY <1>1, <2>1, <2>2 DEF BeginSearch, TypeOK
<1>2. CASE Hit(s)
  BY <1>0, <1>2 DEF Hit, TypeOK
<1>3. CASE Miss(s)
  BY <1>3 DEF Miss, TypeOK, Search
<1>4. CASE Query(s)
  <2> DEFINE found == Selects[search[s].key] \cap Public
             filling(q, data) == [q EXCEPT !.at = "set", !.data = data]
  <2>1. found \in SUBSET Properties
    BY PublicTyped DEF Public
  <2>2. search' = [search EXCEPT ![s] = filling(search[s], found)]
    BY <1>4 DEF Query, TypeOK
  <2>3. ASSUME NEW q \in Search, NEW data \in SUBSET Properties
        PROVE  filling(q, data) \in Search /\ filling(q, data).key = q.key
    BY DEF Search
  <2> HIDE DEF found, filling
  <2>4. search[s].key \in Queries
    BY <1>4 DEF Query, TypeOK
  <2>. QED
    <3>1. search' \in [Searches -> Search]
      BY <2>1, <2>2, <2>3 DEF TypeOK
    <3>2. \A q \in Searches : search'[q].at # "idle" => search'[q].key \in Queries
      BY <2>1, <2>2, <2>3, <2>4 DEF TypeOK
    <3>. QED
      BY <1>4, <3>1, <3>2 DEF Query, TypeOK
<1>5. CASE Fill(s)
  <2>1. search' \in [Searches -> Search]
        /\ \A q \in Searches : search'[q].at # "idle" => search'[q].key \in Queries
    BY <1>0, <1>5 DEF Fill, TypeOK
  <2>2. [data |-> search[s].data, left |-> TTL, late |-> search[s].late,
         spared |-> FALSE, fill |-> search[s].age] \in Entry
    BY DEF TypeOK, Search, Entry
  <2>3. cache' \in [Queries -> Entry \cup {None}]
    BY <1>5, <2>2 DEF Fill, TypeOK
  <2>. QED
    BY <1>5, <2>1, <2>3 DEF Fill, TypeOK
<1>. QED
  BY <1>1, <1>2, <1>3, <1>4, <1>5 DEF SearchStep

\* A row write of typed tables keeps the types.
LEMMA WriteTyped ==
  ASSUME TypeOK, NEW a \in Admins,
         NEW st \in [Properties -> Statuses \cup {None}], NEW tn \in [Tenants -> Statuses],
         NEW next \in {"clear", "notify"}, Write(a, st, tn, next)
  PROVE  TypeOK'
<1>. USE CacheAssumption
<1> DEFINE gone == Public \ PublicIn(st, tn)
<1>1. gone \in SUBSET Properties
  BY PublicTyped DEF Public
<1>2. search' \in [Searches -> Search]
      /\ \A s \in Searches : search'[s].at # "idle" => search'[s].key \in Queries
  <2> HIDE DEF gone
  <2>1. search' = [s \in Searches |->
                     [search[s] EXCEPT !.late = @ \cup (search[s].data \cap gone)]]
    BY DEF Write, gone
  <2>2. ASSUME NEW s \in Searches
        PROVE  /\ search'[s] \in Search
               /\ search'[s].at = search[s].at /\ search'[s].key = search[s].key
    <3>1. search[s] \in Search
      BY DEF TypeOK
    <3>2. search'[s] = [search[s] EXCEPT !.late = search[s].late \cup (search[s].data \cap gone)]
      BY <2>1
    <3>. QED
      BY <1>1, <3>1, <3>2 DEF Search
  <2>. QED
    BY <2>1, <2>2 DEF TypeOK
<1>3. hidden' \in [Properties -> 0..AgeCap]
  BY DEF Write, TypeOK, AgeCap
<1>4. admin' \in [Admins -> Admin]
      /\ \A c \in Admins : admin'[c].at = "insert" =>
           admin'[c].property \in Properties /\ admin'[c].as \in Statuses
  <2> HIDE DEF gone
  <2>1. admin' = [admin EXCEPT ![a] = [NoAdmin EXCEPT !.at = next, !.hides = gone]]
    BY DEF Write, gone
  <2>2. [NoAdmin EXCEPT !.at = next, !.hides = gone] \in Admin
        /\ [NoAdmin EXCEPT !.at = next, !.hides = gone].at # "insert"
    BY <1>1 DEF NoAdmin, Admin
  <2>. QED
    BY <2>1, <2>2 DEF TypeOK
<1>5. clear' \in [Admins -> Clear]
      /\ \A c \in Admins : clear'[c].at # "del" => clear'[c].batch = {}
  BY DEF Write, TypeOK, Clear
<1>. QED
  BY <1>2, <1>3, <1>4, <1>5 DEF Write, TypeOK

\* Every row write is one of typed tables.
LEMMA WritesWrite ==
  ASSUME TypeOK, NEW a \in Admins, Writes(a)
  PROVE  \E st \in [Properties -> Statuses \cup {None}], tn \in [Tenants -> Statuses],
            next \in {"clear", "notify"} : Write(a, st, tn, next)
<1>. USE DEF TypeOK
<1>1. CASE InsertProperty(a)
  <2>1. [status EXCEPT ![admin[a].property] = admin[a].as] \in [Properties -> Statuses \cup {None}]
    BY <1>1 DEF InsertProperty
  <2>. QED
    BY <1>1, <2>1 DEF InsertProperty
<1>2. CASE WriteProperty(a)
  <2>1. PICK p \in Properties, x \in Statuses :
          Write(a, [status EXCEPT ![p] = x], tenant, "clear")
    BY <1>2 DEF WriteProperty
  <2>2. [status EXCEPT ![p] = x] \in [Properties -> Statuses \cup {None}]
    OBVIOUS
  <2>. QED
    BY <2>1, <2>2
<1>3. CASE WriteTenant(a)
  <2>1. PICK t \in Tenants, x \in Statuses :
          Write(a, status, [tenant EXCEPT ![t] = x], "notify")
    BY <1>3 DEF WriteTenant
  <2>2. [tenant EXCEPT ![t] = x] \in [Tenants -> Statuses]
    OBVIOUS
  <2>. QED
    BY <2>1, <2>2
<1>. QED
  BY <1>1, <1>2, <1>3 DEF Writes

\* The steps of an admin request that write no row.
LEMMA AdminTyped ==
  ASSUME TypeOK, NEW a \in Admins, BeginCreate(a) \/ Cleared(a) \/ Answer(a)
  PROVE  TypeOK'
<1>. USE CacheAssumption
<1>1. CASE BeginCreate(a)
  <2>1. PICK p \in Properties, x \in Statuses :
          admin' = [admin EXCEPT ![a] = [at |-> "insert", property |-> p, as |-> x, hides |-> {}]]
    BY <1>1 DEF BeginCreate
  <2>2. [at |-> "insert", property |-> p, as |-> x, hides |-> {}] \in Admin
    BY DEF Admin
  <2>. QED
    <3>1. /\ admin' \in [Admins -> Admin]
          /\ \A c \in Admins : admin'[c].at = "insert" =>
               admin'[c].property \in Properties /\ admin'[c].as \in Statuses
      BY <2>1, <2>2 DEF TypeOK
    <3>2. UNCHANGED <<status, tenant, cache, search, clear, hidden>>
      BY <1>1 DEF BeginCreate
    <3>. QED
      BY <3>1, <3>2 DEF TypeOK
<1>2. CASE Cleared(a)
  <2>1. [admin[a] EXCEPT !.at = "notify"] \in Admin
        /\ [admin[a] EXCEPT !.at = "notify"].at # "insert"
    BY DEF TypeOK, Admin
  <2>2. admin' = [admin EXCEPT ![a] = [admin[a] EXCEPT !.at = "notify"]]
    BY <1>2 DEF Cleared
  <2>3. UNCHANGED <<status, tenant, cache, search, clear, hidden>>
    BY <1>2 DEF Cleared
  <2>. QED
    BY <2>1, <2>2, <2>3 DEF TypeOK
<1>3. CASE Answer(a)
  <2>1. NoAdmin \in Admin /\ NoAdmin.at # "insert"
    BY DEF NoAdmin, Admin
  <2>. QED
    BY <1>3, <2>1 DEF Answer, TypeOK
<1>. QED
  BY <1>1, <1>2, <1>3

LEMMA SpareTyped ==
  ASSUME cache \in [Queries -> Entry \cup {None}], NEW cs, Spare(cs)
  PROVE  cache' \in [Queries -> Entry \cup {None}]
<1>1. ASSUME NEW e \in Entry PROVE [e EXCEPT !.spared = TRUE] \in Entry
  BY DEF Entry
<1>. QED
  BY <1>1 DEF Spare, Cached

\* A clear that goes on.
LEMMA AfterTyped ==
  ASSUME NEW c \in Clear
  PROVE  After(c) \in Clear /\ After(c).batch = {} /\ After(c).todo = c.todo
BY DEF After, NoClear, Clear

LEMMA ClearTyped ==
  ASSUME TypeOK, NEW a \in Admins, ClearStep(a) \/ ClearFails(a)
  PROVE  TypeOK'
<1>1. CASE Scan(a)
  <2>1. PICK page \in SUBSET clear[a].todo \ {{}} :
          LET found == {k \in page : Cached(k)}
              c == [at |-> "del", todo |-> clear[a].todo \ page, batch |-> found]
          IN  clear' = [clear EXCEPT ![a] = IF found = {} THEN After(c) ELSE c]
    BY <1>1 DEF Scan
  <2> DEFINE found == {k \in page : Cached(k)}
             c == [at |-> "del", todo |-> clear[a].todo \ page, batch |-> found]
  <2>2. c \in Clear
    BY DEF TypeOK, Clear
  <2>3. clear' = [clear EXCEPT ![a] = IF found = {} THEN After(c) ELSE c]
    BY <2>1
  <2>4. /\ (IF found = {} THEN After(c) ELSE c) \in Clear
        /\ (IF found = {} THEN After(c) ELSE c).at # "del" =>
             (IF found = {} THEN After(c) ELSE c).batch = {}
    BY <2>2, AfterTyped
  <2> HIDE DEF c, found
  <2>5. clear' \in [Admins -> Clear]
        /\ \A b \in Admins : clear'[b].at # "del" => clear'[b].batch = {}
    BY <2>3, <2>4 DEF TypeOK
  <2>. QED
    BY <1>1, <2>5 DEF Scan, TypeOK
<1>2. CASE Delete(a)
  BY <1>2, AfterTyped DEF Delete, TypeOK
<1>3. CASE ClearFails(a)
  <2>1. NoClear \in Clear /\ NoClear.batch = {}
    BY DEF NoClear, Clear
  <2>2. cache' \in [Queries -> Entry \cup {None}]
    BY <1>3, SpareTyped DEF ClearFails, TypeOK
  <2>. QED
    BY <1>3, <2>1, <2>2 DEF ClearFails, TypeOK
<1>. QED
  BY <1>1, <1>2, <1>3 DEF ClearStep

LEMMA TickTyped ==
  ASSUME TypeOK, Tick
  PROVE  TypeOK'
<1>. USE CacheAssumption
<1>1. cache' \in [Queries -> Entry \cup {None}]
  <2>1. ASSUME NEW e \in Entry PROVE Aged(e) \in Entry \cup {None}
    BY DEF Aged, Entry
  <2>. QED
    BY <2>1 DEF Tick, TypeOK
<1>2. ASSUME NEW s \in Searches
      PROVE  search'[s] \in Search /\ (search'[s].at # "idle" => search'[s].key \in Queries)
  <2>1. search[s] \in Search
    BY DEF TypeOK
  <2>2. search'[s] = IF search[s].at = "set" THEN [search[s] EXCEPT !.age = search[s].age + 1]
                     ELSE search[s]
    BY DEF Tick
  <2>3. search[s].at = "set" => search[s].age + 1 \in 0..MaxFill
    BY <2>1 DEF Tick, Search
  <2>. QED
    BY <2>1, <2>2, <2>3 DEF Search, TypeOK
<1>3. search' \in [Searches -> Search]
  BY <1>2 DEF Tick
<1>4. hidden' \in [Properties -> 0..AgeCap]
  <2>1. AgeCap \in Nat
    BY DEF AgeCap
  <2>2. \A p \in Properties : Older(hidden[p]) \in 0..AgeCap /\ 0 \in 0..AgeCap
    BY <2>1 DEF TypeOK, Older
  <2>. QED
    BY <2>2 DEF Tick, TypeOK
<1>. QED
  BY <1>1, <1>2, <1>3, <1>4 DEF Tick, TypeOK

LEMMA CrashTyped ==
  ASSUME TypeOK, Crash
  PROVE  TypeOK'
<1>. USE CacheAssumption
<1>1. NoSearch \in Search /\ NoSearch.at = "idle"
  BY DEF NoSearch, Search
<1>2. NoAdmin \in Admin /\ NoAdmin.at # "insert"
  BY DEF NoAdmin, Admin
<1>3. NoClear \in Clear /\ NoClear.batch = {}
  BY DEF NoClear, Clear
<1>4. cache' \in [Queries -> Entry \cup {None}]
  BY SpareTyped DEF Crash, TypeOK
<1>. QED
  BY <1>1, <1>2, <1>3, <1>4 DEF Crash, TypeOK

\* Every step is of a search, of an admin request, a row write, of a clear, of
\* time or a crash.
LEMMA StepKinds ==
  ASSUME Next
  PROVE  \/ \E s \in Searches : BeginSearch(s) \/ SearchStep(s)
         \/ \E a \in Admins : BeginCreate(a) \/ Cleared(a) \/ Answer(a)
         \/ \E a \in Admins : Writes(a)
         \/ \E a \in Admins : ClearStep(a) \/ ClearFails(a)
         \/ Tick
         \/ Crash
BY DEF Next, AdminStep, Writes

LEMMA NextTyped == TypeOK /\ [Next]_vars => TypeOK'
<1> SUFFICES ASSUME TypeOK, [Next]_vars PROVE TypeOK'
  OBVIOUS
<1>1. CASE UNCHANGED vars
  BY <1>1 DEF vars, TypeOK
<1>2. CASE \E a \in Admins : Writes(a)
  BY <1>2, WritesWrite, WriteTyped
<1>. QED
  BY <1>1, <1>2, StepKinds, SearchTyped, AdminTyped, ClearTyped, TickTyped, CrashTyped

(***************************************************************************)
(* What searches hold.                                                     *)
(***************************************************************************)
\* What SearchInv says of one search.
Held(q) ==
  IF q.at = "set"
  THEN \A p \in q.data : p \in q.late \cup Public /\ hidden[p] <= q.age
  ELSE q.data = {} /\ q.age = 0

LEMMA SearchInvHeld ==
  SearchInv <=> (\A p \in Public : hidden[p] = 0) /\ (\A s \in Searches : Held(search[s]))
BY DEF SearchInv, Held

LEMMA HeldBySearch ==
  ASSUME TypeOK, SearchInv, NEW s \in Searches, BeginSearch(s) \/ SearchStep(s)
  PROVE  SearchInv'
<1>. USE SearchInvHeld
<1>1. UNCHANGED <<status, tenant, hidden>> /\ Public' = Public
  BY DEF BeginSearch, SearchStep, Hit, Miss, Query, Fill, Public
<1>2. SUFFICES ASSUME Held(search'[s]), \A q \in Searches \ {s} : search'[q] = search[q]
               PROVE  SearchInv'
  <2>1. Held(NoSearch)
    BY DEF Held, NoSearch
  <2>2. CASE BeginSearch(s)
    BY <2>2, <1>1 DEF BeginSearch, Held, TypeOK
  <2>3. CASE Hit(s) \/ Fill(s)
    BY <2>1, <2>3, <1>1 DEF Hit, Fill, TypeOK
  <2>4. CASE Miss(s)
    BY <2>4, <1>1 DEF Miss, Held, TypeOK, Search
  <2>5. CASE Query(s)
    <3>1. search[s].age = 0
      BY <2>5 DEF Query, Held
    <3>2. /\ search'[s].at = "set" /\ search'[s].age = 0
          /\ search'[s].data \subseteq Public
          /\ \A q \in Searches \ {s} : search'[q] = search[q]
      BY <2>5, <3>1 DEF Query, TypeOK, Search
    <3>. QED
      BY <3>1, <3>2 DEF Held
  <2>. QED
    BY <2>2, <2>3, <2>4, <2>5 DEF SearchStep
<1>3. \A q \in Searches : Held(search'[q])
  BY <1>2
<1>. QED
  BY <1>1, <1>3 DEF SearchInv, Held

\* A search that had read what a write hides records it as hidden since.
LEMMA HeldByWrite ==
  ASSUME TypeOK, SearchInv, NEW a \in Admins, NEW st, NEW tn, NEW next,
         Write(a, st, tn, next)
  PROVE  SearchInv'
<1>1. Public' = PublicIn(st, tn)
  BY DEF Write, Public
<1>2. \A p \in Properties : hidden'[p] <= hidden[p] /\ (p \in Public' => hidden'[p] = 0)
  <2>1. hidden \in [Properties -> 0..AgeCap]
    BY DEF TypeOK
  <2>2. hidden' = [p \in Properties |-> IF p \in PublicIn(st, tn) THEN 0 ELSE hidden[p]]
    BY DEF Write
  <2>. QED
    BY <1>1, <2>1, <2>2, CacheAssumption DEF AgeCap
<1>3. Public \subseteq Properties /\ Public' \subseteq Properties
  BY <1>1, PublicTyped DEF Public
<1>4. ASSUME NEW s \in Searches
      PROVE  /\ search'[s].at = search[s].at /\ search'[s].age = search[s].age
             /\ search'[s].data = search[s].data
             /\ search'[s].late = search[s].late \cup (search[s].data \cap (Public \ Public'))
             /\ search[s] \in Search
  <2>1. search[s] \in Search
    BY DEF TypeOK
  <2> DEFINE late == search[s].late \cup (search[s].data \cap (Public \ Public'))
  <2>2. search'[s] = [search[s] EXCEPT !.late = late]
    BY <1>1 DEF Write
  <2> HIDE DEF late
  <2>3. /\ search'[s].at = search[s].at /\ search'[s].age = search[s].age
        /\ search'[s].data = search[s].data /\ search'[s].late = late
    BY <2>1, <2>2 DEF Search
  <2>. QED
    BY <2>1, <2>3 DEF late
<1>5. ASSUME NEW s \in Searches, search[s].at = "set", NEW p \in search[s].data
      PROVE  p \in search'[s].late \cup Public' /\ hidden'[p] <= search[s].age
  <2>1. p \in search[s].late \cup Public /\ hidden[p] <= search[s].age /\ p \in Properties
    BY <1>4, <1>5 DEF SearchInv, Search
  <2>2. hidden[p] \in Int /\ hidden'[p] \in Int /\ search[s].age \in Int
    <3>1. hidden[p] \in 0..AgeCap /\ search[s].age \in 0..MaxFill
      BY <1>4, <2>1 DEF TypeOK, Search
    <3>2. hidden'[p] = IF p \in PublicIn(st, tn) THEN 0 ELSE hidden[p]
      BY <2>1 DEF Write
    <3>. QED
      BY <3>1, <3>2
  <2>. QED
    BY <1>2, <1>4, <2>1, <2>2
<1>. QED
  BY <1>2, <1>3, <1>4, <1>5 DEF SearchInv

LEMMA HeldByTick ==
  ASSUME TypeOK, SearchInv, Tick
  PROVE  SearchInv'
<1>1. Public' = Public /\ Public \subseteq Properties
  BY PublicTyped DEF Tick, Public
<1>2. hidden' = [p \in Properties |-> IF p \in Public THEN 0 ELSE Older(hidden[p])]
  BY DEF Tick
<1>3. ASSUME NEW s \in Searches
      PROVE  /\ search[s] \in Search
             /\ search[s].at # "set" => search'[s] = search[s]
             /\ search[s].at = "set" =>
                  /\ search'[s].at = "set" /\ search'[s].age = search[s].age + 1
                  /\ search'[s].data = search[s].data /\ search'[s].late = search[s].late
  <2>1. search[s] \in Search
    BY DEF TypeOK
  <2>2. search'[s] = IF search[s].at = "set" THEN [search[s] EXCEPT !.age = search[s].age + 1]
                     ELSE search[s]
    BY DEF Tick
  <2>. QED
    BY <2>1, <2>2 DEF Search
<1>4. ASSUME NEW p \in Properties, NEW n \in 0..MaxFill, hidden[p] <= n
      PROVE  hidden'[p] <= n + 1
  <2>1. hidden[p] \in 0..AgeCap
    BY DEF TypeOK
  <2>2. hidden'[p] = 0 \/ hidden'[p] = hidden[p] \/ hidden'[p] = hidden[p] + 1
    BY <1>2 DEF Older
  <2>. QED
    BY <1>4, <2>1, <2>2
<1>5. ASSUME NEW s \in Searches, search[s].at = "set", NEW p \in search[s].data
      PROVE  p \in search[s].late \cup Public /\ hidden'[p] <= search[s].age + 1
  BY <1>3, <1>4, <1>5 DEF SearchInv, Search
<1>. QED
  BY <1>1, <1>2, <1>3, <1>5 DEF SearchInv

LEMMA NextHeld == TypeOK /\ SearchInv /\ [Next]_vars => SearchInv'
<1> SUFFICES ASSUME TypeOK, SearchInv, [Next]_vars PROVE SearchInv'
  OBVIOUS
<1>1. CASE UNCHANGED <<status, tenant, search, hidden>>
  BY <1>1 DEF SearchInv, Public
<1>2. CASE \E a \in Admins : Writes(a)
  BY <1>2, WritesWrite, HeldByWrite
<1>3. CASE Crash
  BY <1>3 DEF Crash, SearchInv, Public, NoSearch
<1>4. ASSUME NEW a \in Admins,
             \/ BeginCreate(a) \/ Cleared(a) \/ Answer(a)
             \/ ClearStep(a) \/ ClearFails(a)
      PROVE  UNCHANGED <<status, tenant, search, hidden>>
  BY <1>4 DEF BeginCreate, Cleared, Answer, ClearStep, Scan, Delete, ClearFails
<1>. QED
  BY <1>1, <1>2, <1>3, <1>4, StepKinds, HeldBySearch, HeldByTick DEF vars

(***************************************************************************)
(* Why an entry may be stale.                                              *)
(***************************************************************************)
\* An entry that keeps its data and loses no excuse stays excused.
LEMMA StillExcused ==
  ASSUME StaleIsRaced, Public' = Public,
         \A k \in Queries : Cached(k)' =>
           /\ Cached(k) /\ cache'[k].data = cache[k].data /\ cache'[k].late = cache[k].late
           /\ cache[k].spared => cache'[k].spared
           /\ WillClear(k) => WillClear(k)' \/ cache'[k].spared
  PROVE  StaleIsRaced'
BY DEF StaleIsRaced

LEMMA RacedBySearch ==
  ASSUME TypeOK, SearchInv, StaleIsRaced, NEW s \in Searches, BeginSearch(s) \/ SearchStep(s)
  PROVE  StaleIsRaced'
<1>1. Public' = Public /\ UNCHANGED clear
  BY DEF BeginSearch, SearchStep, Hit, Miss, Query, Fill, Public
<1>2. CASE UNCHANGED cache
  BY <1>1, <1>2 DEF StaleIsRaced, Cached, WillClear
<1>3. CASE ~UNCHANGED cache
  <2> DEFINE new == [data |-> search[s].data, left |-> TTL, late |-> search[s].late,
                     spared |-> FALSE, fill |-> search[s].age]
  <2>1. search[s].at = "set" /\ cache' = [cache EXCEPT ![search[s].key] = new]
    BY <1>3 DEF BeginSearch, SearchStep, Hit, Miss, Query, Fill
  <2>2. \A p \in search[s].data : p \in search[s].late \cup Public
    BY <2>1 DEF SearchInv
  <2>3. ASSUME NEW k \in Queries, Cached(k)', NEW p \in cache'[k].data \ Public
        PROVE  p \in cache'[k].late \/ cache'[k].spared \/ WillClear(k)'
    <3>1. CASE k = search[s].key
      <4>1. cache'[k] = new
        BY <2>1, <3>1 DEF TypeOK
      <4>. QED
        BY <2>2, <2>3, <4>1
    <3>2. CASE k # search[s].key
      <4>1. cache'[k] = cache[k]
        BY <2>1, <3>2 DEF TypeOK
      <4>. QED
        BY <1>1, <2>3, <4>1 DEF StaleIsRaced, Cached, WillClear
    <3>. QED
      BY <3>1, <3>2
  <2>. QED
    BY <1>1, <2>3 DEF StaleIsRaced
<1>. QED
  BY <1>2, <1>3

\* A write starts a clear of every key, so every entry is excused.
LEMMA RacedByWrite ==
  ASSUME TypeOK, NEW a \in Admins, NEW st, NEW tn, NEW next, Write(a, st, tn, next)
  PROVE  StaleIsRaced'
<1>1. clear'[a] = [at |-> "scan", todo |-> Queries, batch |-> {}]
  BY DEF Write, TypeOK
<1>2. \A k \in Queries : WillClear(k)'
  BY <1>1 DEF WillClear
<1>. QED
  BY <1>2 DEF StaleIsRaced

\* A page of the scan drops no key that has an entry, and a DEL removes every
\* entry it takes off its list.
LEMMA RacedByClear ==
  ASSUME TypeOK, StaleIsRaced, NEW a \in Admins, ClearStep(a) \/ ClearFails(a)
  PROVE  StaleIsRaced'
<1>1. Public' = Public
  BY DEF ClearStep, Scan, Delete, ClearFails, Public
<1>3. CASE Scan(a)
  <2>1. PICK page \in SUBSET clear[a].todo \ {{}} :
          LET found == {k \in page : Cached(k)}
              c == [at |-> "del", todo |-> clear[a].todo \ page, batch |-> found]
          IN  clear' = [clear EXCEPT ![a] = IF found = {} THEN After(c) ELSE c]
    BY <1>3 DEF Scan
  <2> DEFINE found == {k \in page : Cached(k)}
             c == [at |-> "del", todo |-> clear[a].todo \ page, batch |-> found]
  <2>2. c \in Clear /\ clear[a].batch \subseteq Queries
    BY DEF TypeOK, Clear
  <2>3. clear'[a].todo = clear[a].todo \ page /\ found \subseteq clear'[a].todo \cup clear'[a].batch
    <3>1. clear'[a] = IF found = {} THEN After(c) ELSE c
      BY <2>1 DEF TypeOK
    <3>2. c.todo = clear[a].todo \ page /\ c.batch = found
      OBVIOUS
    <3>3. CASE found = {}
      BY AfterTyped, <2>2, <3>1, <3>2, <3>3
    <3>4. CASE found # {}
      BY <3>1, <3>2, <3>4
    <3>. QED
      BY <3>3, <3>4
  <2>4. \A b \in Admins \ {a} : clear'[b] = clear[b]
    BY <2>1 DEF TypeOK
  <2>5. clear[a].batch = {}
    BY <1>3 DEF Scan, TypeOK
  <2>6. UNCHANGED cache
    BY <1>3 DEF Scan
  <2>7. ASSUME NEW k \in Queries, Cached(k), WillClear(k)
        PROVE  WillClear(k)'
    <3>1. PICK b \in Admins : k \in clear[b].todo \cup clear[b].batch
      BY <2>7 DEF WillClear
    <3>2. CASE b = a
      BY <2>3, <2>5, <2>7, <3>1, <3>2 DEF WillClear
    <3>3. CASE b # a
      BY <2>4, <3>1, <3>3 DEF WillClear
    <3>. QED
      BY <3>2, <3>3
  <2>. QED
    BY <1>1, <2>6, <2>7, StillExcused DEF Cached
<1>4. CASE Delete(a)
  <2>1. clear'[a].todo = clear[a].todo
    BY AfterTyped, <1>4 DEF Delete, TypeOK
  <2>2. \A b \in Admins \ {a} : clear'[b] = clear[b]
    BY <1>4 DEF Delete, TypeOK
  <2>3. \A k \in Queries : Cached(k)' => k \notin clear[a].batch /\ cache'[k] = cache[k]
    BY <1>4 DEF Delete, Cached
  <2>. QED
    BY <1>1, <2>1, <2>2, <2>3, StillExcused DEF WillClear, Cached
<1>5. CASE ClearFails(a)
  <2>1. \A b \in Admins \ {a} : clear'[b] = clear[b]
    BY <1>5 DEF ClearFails, TypeOK
  <2>2. ASSUME NEW k \in Queries, Cached(k)'
        PROVE  /\ Cached(k) /\ cache'[k].data = cache[k].data /\ cache'[k].late = cache[k].late
               /\ cache[k].spared => cache'[k].spared
               /\ k \in clear[a].todo \cup clear[a].batch => cache'[k].spared
    <3>1. cache'[k] = IF Cached(k) /\ k \in clear[a].todo \cup clear[a].batch
                      THEN [cache[k] EXCEPT !.spared = TRUE] ELSE cache[k]
      BY <1>5 DEF ClearFails, Spare
    <3>2. Cached(k)
      BY <2>2, <3>1 DEF Cached
    <3>3. cache[k] \in Entry
      BY <3>2 DEF Cached, TypeOK
    <3>. QED
      BY <3>1, <3>2, <3>3 DEF Entry
  <2>. QED
    BY <1>1, <2>1, <2>2, StillExcused DEF WillClear
<1>. QED
  BY <1>3, <1>4, <1>5 DEF ClearStep

LEMMA RacedByTick ==
  ASSUME TypeOK, StaleIsRaced, Tick
  PROVE  StaleIsRaced'
<1>1. Public' = Public /\ UNCHANGED clear
  BY DEF Tick, Public
<1>2. ASSUME NEW k \in Queries, Cached(k)'
      PROVE  /\ Cached(k) /\ cache'[k].data = cache[k].data /\ cache'[k].late = cache[k].late
             /\ cache'[k].spared = cache[k].spared
  <2>1. cache'[k] = IF cache[k] = None THEN None ELSE Aged(cache[k])
    BY DEF Tick
  <2>2. Cached(k) /\ cache[k] \in Entry /\ cache[k].left # 1
    BY <1>2, <2>1 DEF Cached, TypeOK, Aged
  <2>. QED
    BY <2>1, <2>2 DEF Cached, Aged, Entry
<1>. QED
  BY <1>1, <1>2, StillExcused DEF WillClear

LEMMA RacedByCrash ==
  ASSUME TypeOK, StaleIsRaced, Crash
  PROVE  StaleIsRaced'
<1>1. Public' = Public
  BY DEF Crash, Public
<1>2. ASSUME NEW k \in Queries, Cached(k)'
      PROVE  /\ Cached(k) /\ cache'[k].data = cache[k].data /\ cache'[k].late = cache[k].late
             /\ cache[k].spared => cache'[k].spared
             /\ WillClear(k) => cache'[k].spared
  <2>1. cache'[k] = IF Cached(k) /\ WillClear(k)
                    THEN [cache[k] EXCEPT !.spared = TRUE] ELSE cache[k]
    BY DEF Crash, Spare, WillClear
  <2>2. Cached(k)
    BY <1>2, <2>1 DEF Cached
  <2>3. cache[k] \in Entry
    BY <2>2 DEF Cached, TypeOK
  <2>. QED
    BY <2>1, <2>2, <2>3 DEF Entry
<1>. QED
  BY <1>1, <1>2, StillExcused

LEMMA NextRaced == TypeOK /\ SearchInv /\ StaleIsRaced /\ [Next]_vars => StaleIsRaced'
<1> SUFFICES ASSUME TypeOK, SearchInv, StaleIsRaced, [Next]_vars PROVE StaleIsRaced'
  OBVIOUS
<1>1. CASE UNCHANGED <<status, tenant, cache, clear>>
  BY <1>1 DEF StaleIsRaced, Public, Cached, WillClear
<1>2. CASE \E a \in Admins : Writes(a)
  BY <1>2, WritesWrite, RacedByWrite
<1>3. ASSUME NEW a \in Admins, BeginCreate(a) \/ Cleared(a) \/ Answer(a)
      PROVE  UNCHANGED <<status, tenant, cache, clear>>
  BY <1>3 DEF BeginCreate, Cleared, Answer
<1>. QED
  BY <1>1, <1>2, <1>3, StepKinds, RacedBySearch, RacedByClear, RacedByTick, RacedByCrash DEF vars

(***************************************************************************)
(* How long an entry may be stale.                                         *)
(***************************************************************************)
\* What StaleIsBounded says, for a step that changes neither the listings'
\* ages upwards nor the age of an entry that stays.
LEMMA StillBounded ==
  ASSUME TypeOK, TypeOK', StaleIsBounded,
         \A p \in Properties : hidden'[p] <= hidden[p],
         \A k \in Queries : Cached(k)' =>
           /\ Cached(k) /\ cache'[k].data = cache[k].data
           /\ cache'[k].fill = cache[k].fill /\ cache'[k].left = cache[k].left
  PROVE  StaleIsBounded'
<1> SUFFICES ASSUME NEW k \in Queries, Cached(k)', NEW p \in cache'[k].data
             PROVE  hidden'[p] <= cache'[k].fill + (TTL - cache'[k].left)
  BY DEF StaleIsBounded
<1>1. cache[k] \in Entry /\ p \in cache[k].data /\ p \in Properties
  BY DEF TypeOK, Cached, Entry
<1>2. hidden[p] <= cache[k].fill + (TTL - cache[k].left)
  BY <1>1 DEF StaleIsBounded
<1>3. hidden[p] \in 0..AgeCap /\ hidden'[p] \in 0..AgeCap
  BY <1>1 DEF TypeOK
<1>4. cache[k].fill \in 0..MaxFill /\ cache[k].left \in 1..TTL /\ TTL \in Nat /\ MaxFill \in Nat
  BY <1>1, CacheAssumption DEF Entry
<1>. QED
  BY <1>1, <1>2, <1>3, <1>4

LEMMA AgesComparable ==
  ASSUME TypeOK, NEW p \in Properties
  PROVE  hidden[p] \in Nat
BY CacheAssumption DEF TypeOK, AgeCap

\* A SET gives the entry the age of what the search has read.
LEMMA BoundedBySearch ==
  ASSUME TypeOK, TypeOK', SearchInv, StaleIsBounded, NEW s \in Searches,
         BeginSearch(s) \/ SearchStep(s)
  PROVE  StaleIsBounded'
<1>1. UNCHANGED hidden
  BY DEF BeginSearch, SearchStep, Hit, Miss, Query, Fill
<1>2. CASE UNCHANGED cache
  BY <1>1, <1>2 DEF StaleIsBounded, Cached
<1>3. CASE ~UNCHANGED cache
  <2> DEFINE new == [data |-> search[s].data, left |-> TTL, late |-> search[s].late,
                     spared |-> FALSE, fill |-> search[s].age]
  <2>1. search[s].at = "set" /\ cache' = [cache EXCEPT ![search[s].key] = new]
    BY <1>3 DEF BeginSearch, SearchStep, Hit, Miss, Query, Fill
  <2>2. \A p \in search[s].data : hidden[p] <= search[s].age
    BY <2>1 DEF SearchInv
  <2>3. search[s].age \in Nat /\ TTL \in Nat
    BY CacheAssumption DEF TypeOK, Search
  <2>4. ASSUME NEW k \in Queries, Cached(k)', NEW p \in cache'[k].data
        PROVE  hidden'[p] <= cache'[k].fill + (TTL - cache'[k].left)
    <3>1. CASE k = search[s].key
      <4>1. cache'[k] = new
        BY <2>1, <3>1 DEF TypeOK
      <4>2. hidden[p] <= search[s].age /\ search[s].age + (TTL - TTL) = search[s].age
        BY <2>2, <2>3, <2>4, <4>1
      <4>. QED
        BY <1>1, <4>1, <4>2
    <3>2. CASE k # search[s].key
      <4>1. cache'[k] = cache[k]
        BY <2>1, <3>2 DEF TypeOK
      <4>. QED
        BY <1>1, <2>4, <4>1 DEF StaleIsBounded, Cached
    <3>. QED
      BY <3>1, <3>2
  <2>. QED
    BY <2>4 DEF StaleIsBounded
<1>. QED
  BY <1>2, <1>3

LEMMA BoundedByWrite ==
  ASSUME TypeOK, TypeOK', StaleIsBounded, NEW a \in Admins, NEW st, NEW tn, NEW next,
         Write(a, st, tn, next)
  PROVE  StaleIsBounded'
<1>1. ASSUME NEW p \in Properties
      PROVE  hidden'[p] <= hidden[p]
  <2>1. hidden'[p] = IF p \in PublicIn(st, tn) THEN 0 ELSE hidden[p]
    BY DEF Write
  <2>. QED
    BY <2>1, AgesComparable
<1>2. UNCHANGED cache
  BY DEF Write
<1>. QED
  BY <1>1, <1>2, StillBounded DEF Cached

\* With every tick an entry has one tick less to live.
LEMMA BoundedByTick ==
  ASSUME TypeOK, TypeOK', StaleIsBounded, Tick
  PROVE  StaleIsBounded'
<1> SUFFICES ASSUME NEW k \in Queries, Cached(k)', NEW p \in cache'[k].data
             PROVE  hidden'[p] <= cache'[k].fill + (TTL - cache'[k].left)
  BY DEF StaleIsBounded
<1>1. cache'[k] = IF cache[k] = None THEN None ELSE Aged(cache[k])
  BY DEF Tick
<1>2. Cached(k) /\ cache[k] \in Entry /\ cache[k].left # 1
  BY <1>1 DEF Cached, TypeOK, Aged
<1>3. /\ cache'[k].data = cache[k].data /\ cache'[k].fill = cache[k].fill
      /\ cache'[k].left = cache[k].left - 1
  BY <1>1, <1>2 DEF Cached, Aged, Entry
<1>4. p \in Properties /\ hidden[p] <= cache[k].fill + (TTL - cache[k].left)
  BY <1>2, <1>3 DEF StaleIsBounded, Entry
<1>5. hidden'[p] = 0 \/ hidden'[p] = hidden[p] \/ hidden'[p] = hidden[p] + 1
  BY <1>4 DEF Tick, Older
<1>6. cache[k].fill \in Nat /\ cache[k].left \in 1..TTL /\ TTL \in Nat /\ hidden[p] \in Nat
  BY <1>2, <1>4, AgesComparable, CacheAssumption DEF Entry
<1>. QED
  BY <1>3, <1>4, <1>5, <1>6

\* Clears and crashes remove and mark entries; they do not renew them.
LEMMA BoundedByLoss ==
  ASSUME TypeOK, TypeOK', StaleIsBounded,
         \/ \E a \in Admins : ClearStep(a) \/ ClearFails(a)
         \/ Crash
  PROVE  StaleIsBounded'
<1>1. UNCHANGED hidden
  BY DEF ClearStep, Scan, Delete, ClearFails, Crash
<1>2. ASSUME NEW k \in Queries, Cached(k)'
      PROVE  /\ Cached(k) /\ cache'[k].data = cache[k].data
             /\ cache'[k].fill = cache[k].fill /\ cache'[k].left = cache[k].left
  <2>1. \/ cache'[k] = cache[k]
        \/ cache'[k] = None
        \/ Cached(k) /\ cache'[k] = [cache[k] EXCEPT !.spared = TRUE]
    BY DEF ClearStep, Scan, Delete, ClearFails, Crash, Spare
  <2>2. Cached(k) => cache[k] \in Entry
    BY DEF Cached, TypeOK
  <2>. QED
    BY <1>2, <2>1, <2>2 DEF Cached, Entry
<1>3. \A p \in Properties : hidden'[p] <= hidden[p]
  BY <1>1, AgesComparable
<1>. QED
  BY <1>2, <1>3, StillBounded

LEMMA NextBounded ==
  TypeOK /\ TypeOK' /\ SearchInv /\ StaleIsBounded /\ [Next]_vars => StaleIsBounded'
<1> SUFFICES ASSUME TypeOK, TypeOK', SearchInv, StaleIsBounded, [Next]_vars
             PROVE  StaleIsBounded'
  OBVIOUS
<1>1. CASE UNCHANGED <<cache, hidden>>
  BY <1>1 DEF StaleIsBounded, Cached
<1>2. CASE \E a \in Admins : Writes(a)
  BY <1>2, WritesWrite, BoundedByWrite
<1>3. ASSUME NEW a \in Admins, BeginCreate(a) \/ Cleared(a) \/ Answer(a)
      PROVE  UNCHANGED <<cache, hidden>>
  BY <1>3 DEF BeginCreate, Cleared, Answer
<1>. QED
  BY <1>1, <1>2, <1>3, StepKinds, BoundedBySearch, BoundedByTick, BoundedByLoss DEF vars

(***************************************************************************)
(* The theorems.                                                           *)
(***************************************************************************)
\* Types, what searches hold and the two statements about entries hold in every
\* reachable state.
THEOREM CacheInductive == Spec => []CacheInv
<1>1. CacheInv /\ [Next]_vars => CacheInv'
  BY NextTyped, NextHeld, NextRaced, NextBounded DEF CacheInv
<1>. QED
  BY <1>1, InitInv, PTL DEF Spec

\* The types of the search cache.
THEOREM CacheTyped == Spec => []TypeOK
BY CacheInductive, PTL DEF CacheInv

\* A stale entry is one whose clear is under way or was given up, or one that
\* was stored by a search overtaken by the clear.
THEOREM StaleOnlyByRace == Spec => []StaleIsRaced
BY CacheInductive, PTL DEF CacheInv

\* No failure of invalidation keeps a hidden listing in the cache for longer
\* than the time to live and the time its search took.
THEOREM StaleOnlyForTTL == Spec => []StaleIsBounded
BY CacheInductive, PTL DEF CacheInv
=============================================================================
