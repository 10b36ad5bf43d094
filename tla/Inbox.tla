------------------------------- MODULE Inbox -------------------------------
(***************************************************************************)
(* NotificationsService: what the admins of a tenant are told of its        *)
(* listings and its status, and the routes with which readers mark it.      *)
(***************************************************************************)
EXTENDS TenantStore

(***************************************************************************)
(* notifyTenantAdmins: one query, then for every admin found an insert of   *)
(* its own, all of them under way at once.                                  *)
(***************************************************************************)
FindAdmins(r) ==
  /\ req[r].at = "findAdmins"
  /\ LET found == Admins(req[r].tenant)
     IN  req' = [req EXCEPT ![r] = IF found = {} THEN Idle ELSE [@ EXCEPT !.at = "tell", !.to = found]]
  /\ UNCHANGED tables

\* An insert for an account or a tenant that has gone fails; the others stay.
Tell(r, u) ==
  /\ req[r].at = "tell" /\ u \in req[r].to
  /\ LET t == req[r].tenant
         left == req[r].to \ {u}
         next == IF left = {} THEN Idle ELSE [req[r] EXCEPT !.to = left]
         refused == ~HasUser(u) \/ ~HasTenant(t)
     IN  \/ /\ refused /\ req' = [req EXCEPT ![r] = next]
            /\ UNCHANGED notice
         \/ /\ ~refused
            /\ \E n \in NoticeIds :
                 /\ NewKey(n, notice)
                 /\ notice' = [notice EXCEPT ![n] =
                                 [user |-> u, tenant |-> t, readAt |-> None, addressee |-> u]]
            /\ Wrote(r, next, {<<"notice", t>>})
  /\ UNCHANGED <<tenant, user, property, adminRole, detail, saved, badge, scene, now>>

(***************************************************************************)
(* visibleToUserWhere: what account v finds with a token it has had.        *)
(***************************************************************************)
\* A bug: what belongs to nobody any more is shown to the admins of any tenant.
SeesLost(v, n) ==
  /\ notice[n] # None
  /\ \/ notice[n].user = v
     \/ notice[n].user = None /\ badge[v] # None

Sees(v, n) ==
  /\ notice[n] # None
  /\ \/ notice[n].user = v
     \/ notice[n].user = None /\ badge[v] # None /\ notice[n].tenant = badge[v]

(***************************************************************************)
(* markRead reads the row and writes readAt; markAllRead is one update.     *)
(***************************************************************************)
BeginMarkRead(r) ==
  /\ "markRead" \in scene
  /\ \E v \in Users, n \in NoticeIds :
       /\ Sees(v, n)
       /\ Start(r, [Idle EXCEPT !.at = "writeRead",
                                !.notice = n, !.seen = notice[n].readAt])
  /\ UNCHANGED tables

\* A bug: the time is that of the last reading.
WriteReadNow(r) ==
  /\ req[r].at = "writeRead"
  /\ notice' = [notice EXCEPT ![req[r].notice].readAt = now]
  /\ Wrote(r, Idle, {<<"read", req[r].notice>>})
  /\ UNCHANGED <<tenant, user, property, adminRole, detail, saved, badge, scene, now>>

WriteRead(r) ==
  /\ req[r].at = "writeRead"
  /\ LET n == req[r].notice
         time == IF req[r].seen = None THEN now ELSE req[r].seen
     IN  /\ notice' = [notice EXCEPT ![n].readAt = time]
         /\ Wrote(r, Idle, IF time = notice[n].readAt THEN {} ELSE {<<"read", n>>})
  /\ UNCHANGED <<tenant, user, property, adminRole, detail, saved, badge, scene, now>>

MarkAllRead(v) ==
  /\ "markAll" \in scene
  /\ LET unread == {n \in NoticeIds : Sees(v, n) /\ notice[n].readAt = None}
     IN  /\ unread # {}
         /\ notice' = [n \in NoticeIds |->
                         IF n \in unread THEN [notice[n] EXCEPT !.readAt = now] ELSE notice[n]]
         /\ Changed({"read"} \X unread)
  /\ UNCHANGED <<tenant, user, property, adminRole, detail, saved, badge, scene, now>>

Tick ==
  /\ "tick" \in scene /\ now < MaxTime
  /\ now' = now + 1
  /\ UNCHANGED <<tenant, user, property, adminRole, notice, detail, saved, badge, scene, req>>

InboxStep(r) ==
  \/ FindAdmins(r) \/ WriteRead(r)
  \/ \E u \in Users : Tell(r, u)
=============================================================================
