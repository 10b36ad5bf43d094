----------------------------- MODULE MCTenancy -----------------------------
(***************************************************************************)
(* Small instances of Tenancy.  A scene is a few first rows and the          *)
(* operations clients use on them; the state space of a run is the sum of   *)
(* those of its scenes.                                                     *)
(***************************************************************************)
EXTENDS Tenancy, TLC

CONSTANTS acme, zest, ann, bob, cid, flat, loft, red, blue, mail, post, note

None3 == [t \in Tenants |-> None]
Open(slug) == [slug |-> slug, status |-> "ACTIVE"]
Admin(email, t) == [email |-> email, role |-> "TENANT_ADMIN", tenant |-> t]
Guest(email, t) == [email |-> email, role |-> "USER", tenant |-> t]
Owned(u, t) == [tenant |-> t, owner |-> u, status |-> "ACTIVE", patched |-> FALSE]

NoUsers == [u \in Users |-> None]
NoProperties == [p \in Properties |-> None]
Acme == [None3 EXCEPT ![acme] = Open(red)]
Both == [None3 EXCEPT ![acme] = Open(red), ![zest] = Open(blue)]

Scene(ops, role, ts, us, ps) ==
  [ops |-> ops, role |-> role, tenant |-> ts, user |-> us, property |-> ps]

\* A tenant that nobody administers yet, and another founded beside it.
Founding == Scene({"createTenant", "updateTenant", "deleteTenant", "hire", "register"},
                  FALSE, Acme, NoUsers, NoProperties)

\* An empty tenant whose deletion meets everything that may come to belong to it.
Closing == Scene({"deleteTenant", "hire", "setStatus", "deleteUser"},
                 TRUE, Acme, NoUsers, NoProperties)

\* Listings are created while the tenant is closed and accounts are deleted.
Publishing == Scene({"createProperty", "setProperty", "setStatus", "deleteUser", "crash"}, TRUE, Acme,
                    [NoUsers EXCEPT ![ann] = Admin(mail, acme), ![bob] = Guest(post, acme),
                                    ![cid] = Guest(note, None)], NoProperties)

\* Two admins of one tenant are told, and read; a third is of another tenant.
Reading == Scene({"setStatus", "deleteUser", "markRead", "markAll", "tick"}, TRUE, Both,
                 [NoUsers EXCEPT ![ann] = Admin(mail, acme), ![bob] = Admin(post, acme),
                                 ![cid] = Admin(note, zest)], NoProperties)

\* An account becomes an admin and ceases to be one while the admins are told.
Promoting == Scene({"setStatus", "deleteUser", "role", "markRead", "markAll"}, TRUE, Acme,
                   [NoUsers EXCEPT ![ann] = Admin(mail, acme), ![bob] = Guest(post, acme)],
                   NoProperties)

\* A guest saves a listing that is hidden and shown; its amenities change.
Browsing == Scene({"save", "unsave", "setStatus", "setProperty", "updateUser"}, TRUE, Acme,
                  [NoUsers EXCEPT ![ann] = Guest(mail, acme), ![bob] = Guest(post, None)],
                  [NoProperties EXCEPT ![flat] = Owned(ann, acme)])
Furnishing == Scene({"amenity", "detail", "remove"}, TRUE, Acme,
                  [NoUsers EXCEPT ![ann] = Guest(mail, acme)],
                  [NoProperties EXCEPT ![flat] = Owned(ann, acme)])

MCScenes == {Founding, Closing, Publishing, Reading, Promoting, Browsing, Furnishing}

RequestSymmetry == Permutations(Requests) \cup Permutations(NoticeIds) \cup Permutations(DetailIds)
=============================================================================
