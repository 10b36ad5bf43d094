------------------------------ MODULE Listings ------------------------------
(***************************************************************************)
(* The part of PropertiesService that bookings depend on: the status and   *)
(* the price of a listing, and its blocked ranges.  verifyTenantProperty   *)
(* reads what never changes (a property is never deleted, update strikes   *)
(* tenantId from its data), so it is one step with the write behind it.    *)
(***************************************************************************)
EXTENDS RentalStore

UpdateProperty(u, p, status, rate) ==
  /\ MayManage(u, p)
  /\ listing' = [listing EXCEPT ![p] = [status |-> status, rate |-> rate]]

RemoveProperty(u, p) ==
  /\ MayManage(u, p)
  /\ listing' = [listing EXCEPT ![p].status = "INACTIVE"]

ReactivateProperty(u, p) ==
  /\ MayManage(u, p)
  /\ listing' = [listing EXCEPT ![p].status = "ACTIVE"]

ChangeListing ==
  /\ "listing" \in Ops
  /\ \E u \in Users, p \in Properties :
       /\ \/ \E s \in {"ACTIVE", "INACTIVE"}, x \in Rates : UpdateProperty(u, p, s, x)
          \/ RemoveProperty(u, p)
          \/ ReactivateProperty(u, p)
       /\ WroteListing(p)
  /\ UNCHANGED <<booking, block, payment, invoice, notice>>

\* addAvailability, up to and including its query for bookings.  The property
\* need not be active.
BeginBlock(r) ==
  /\ "block" \in Ops /\ req[r].at = "idle"
  /\ Cardinality({q \in Requests : req[q].op = "block"})
       < Cardinality({k \in BlockIds : block[k] = None})
  /\ \E u \in Users, p \in Properties, from, to \in Times :
       LET q == [Idle EXCEPT !.op = "block", !.at = "findBlock", !.actor = u,
                             !.property = p, !.from = from, !.to = to]
       IN  /\ MayManage(u, p)
           /\ from < to
           /\ ~ \E b \in BookingIds : Active(b) /\ Clash(booking[b], q)
           /\ req' = [req EXCEPT ![r] = q]
  /\ UNCHANGED tables

\* After FindBlock (Bookings): the same query, the same rejection.
InsertBlock(r) ==
  /\ req[r].op = "block" /\ req[r].at = "write"
  /\ \E k \in BlockIds :
       /\ NextKey(k, BlockIds, block)
       /\ block' = [block EXCEPT ![k] = [property |-> req[r].property,
                                         from |-> req[r].from, to |-> req[r].to]]
       /\ WroteBlock(r, k)
  /\ UNCHANGED <<listing, booking, payment, invoice, notice>>

\* removeAvailability: its row is never changed, and deleting it twice fails
\* without effect, so read and delete are one step.
RemoveBlock ==
  /\ "unblock" \in Ops
  /\ \E u \in Users, k \in BlockIds :
       /\ Blocks(k) /\ MayManage(u, block[k].property)
       /\ block' = [block EXCEPT ![k] = Gone]
  /\ UNCHANGED <<listing, booking, payment, invoice, notice, req>>
=============================================================================
