---------------------------- MODULE SessionLife ----------------------------
(***************************************************************************)
(* What a client may count on of a sign-in, whatever the requests that     *)
(* carry it do in between: it is one account's from its beginning to its   *)
(* end, is refreshed over and over, and once ended is never resumed.       *)
(***************************************************************************)
CONSTANTS Users, Logins

VARIABLES life,   \* "new", "pending" (about to get a token), "open", "closed"
          whose   \* the account a pending or open sign-in is of, as a set

session == <<life, whose>>

LifeInit ==
  /\ life = [l \in Logins |-> "new"]
  /\ whose = [l \in Logins |-> {}]

Becomes(l, stage, accounts) ==
  /\ life' = [life EXCEPT ![l] = stage]
  /\ whose' = [whose EXCEPT ![l] = accounts]

SignIn(l, u) == life[l] = "new" /\ Becomes(l, "pending", {u})
Grant(l) == life[l] = "pending" /\ Becomes(l, "open", whose[l])
Renew(l) == life[l] = "open" /\ Becomes(l, "pending", whose[l])
End(l) == life[l] \in {"pending", "open"} /\ Becomes(l, "closed", {})

Close(S) ==
  /\ life' = [l \in Logins |-> IF l \in S THEN "closed" ELSE life[l]]
  /\ whose' = [l \in Logins |-> IF l \in S THEN {} ELSE whose[l]]

\* All the tokens of one account go, and no other's.
Revoke(u) == Close({l \in Logins : life[l] = "open" /\ whose[l] = {u}})

\* The requests go, and the tokens stay.
Abandon == Close({l \in Logins : life[l] = "pending"})

LifeNext ==
  \/ \E l \in Logins, u \in Users : SignIn(l, u)
  \/ \E l \in Logins : Grant(l) \/ Renew(l) \/ End(l)
  \/ \E u \in Users : Revoke(u)
  \/ Abandon

LifeSpec == LifeInit /\ [][LifeNext]_session
=============================================================================
