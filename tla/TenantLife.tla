----------------------------- MODULE TenantLife -----------------------------
(***************************************************************************)
(* What the platform promises of its tenants.  A tenant is founded under a  *)
(* slug no other has, may be closed and opened, is joined by accounts and   *)
(* given listings while it is there, and is deleted for good once it has    *)
(* neither.  A listing stays with its tenant.                               *)
(***************************************************************************)
CONSTANTS Tenants, Users, Properties, Slugs, None

VARIABLES
  life,       \* "new", "open", "closed" or "deleted"
  name,       \* the slug of a tenant that is there
  staff,      \* its accounts
  listings    \* its listings

There(t) == life[t] \in {"open", "closed"}
Free(s, t) == \A v \in Tenants \ {t} : name[v] # s

LifeInit ==
  /\ life \in [Tenants -> {"new", "open", "closed"}]
  /\ name \in [Tenants -> Slugs \cup {None}]
  /\ staff \in [Tenants -> SUBSET Users]
  /\ listings \in [Tenants -> SUBSET Properties]
  /\ \A t \in Tenants :
       IF There(t)
       THEN name[t] # None /\ Free(name[t], t)
       ELSE name[t] = None /\ staff[t] = {} /\ listings[t] = {}

Found(t, s) ==
  /\ life[t] = "new" /\ Free(s, t)
  /\ life' = [life EXCEPT ![t] = "open"]
  /\ name' = [name EXCEPT ![t] = s]
  /\ UNCHANGED <<staff, listings>>

Rename(t, s) ==
  /\ There(t) /\ Free(s, t)
  /\ name' = [name EXCEPT ![t] = s]
  /\ UNCHANGED <<life, staff, listings>>

Turn(t, to) ==
  /\ There(t)
  /\ life' = [life EXCEPT ![t] = to]
  /\ UNCHANGED <<name, staff, listings>>

Join(t, u) ==
  /\ There(t) /\ \A v \in Tenants : u \notin staff[v]
  /\ staff' = [staff EXCEPT ![t] = @ \cup {u}]
  /\ UNCHANGED <<life, name, listings>>

Leave(t, u) ==
  /\ staff' = [staff EXCEPT ![t] = @ \ {u}]
  /\ UNCHANGED <<life, name, listings>>

List(t, p) ==
  /\ There(t) /\ \A v \in Tenants : p \notin listings[v]
  /\ listings' = [listings EXCEPT ![t] = @ \cup {p}]
  /\ UNCHANGED <<life, name, staff>>

Delete(t) ==
  /\ There(t) /\ staff[t] = {} /\ listings[t] = {}
  /\ life' = [life EXCEPT ![t] = "deleted"]
  /\ name' = [name EXCEPT ![t] = None]
  /\ UNCHANGED <<staff, listings>>

LifeNext ==
  \E t \in Tenants :
    \/ \E s \in Slugs : Found(t, s) \/ Rename(t, s)
    \/ \E to \in {"open", "closed"} : Turn(t, to)
    \/ \E u \in Users : Join(t, u) \/ Leave(t, u)
    \/ \E p \in Properties : List(t, p)
    \/ Delete(t)

LifeSpec == LifeInit /\ [][LifeNext]_<<life, name, staff, listings>>
=============================================================================
