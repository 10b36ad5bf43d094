------------------------------ MODULE Bookings ------------------------------
(***************************************************************************)
(* BookingsService: create, update, cancel, confirm and remove.  A request *)
(* that the code rejects has changed nothing; when that happens at its     *)
(* first statement it is simply not begun here.                            *)
(***************************************************************************)
EXTENDS RentalStore

\* A bound: as many bookings are begun as there are keys left.
KeysLeft ==
  Cardinality({r \in Requests : req[r].op = "create" /\ req[r].booking = None})
    < Cardinality({b \in BookingIds : booking[b] = None})

\* create, up to and including the read of the property.  The check of the
\* property's status, its price and its tenant are those of this read.
CreateRequest(u, p, from, to, g) ==
  [Idle EXCEPT !.op = "create", !.at = "findBooking", !.actor = u, !.user = u,
               !.property = p, !.from = from, !.to = to, !.guests = g,
               !.price = Nights(from, to) * listing[p].rate]

BeginCreate(r) ==
  /\ "create" \in Ops /\ req[r].at = "idle" /\ KeysLeft
  /\ \E u \in Users, p \in Properties, from, to \in Times, g \in GuestLists :
       /\ from < to
       /\ listing[p].status = "ACTIVE"
       /\ req' = [req EXCEPT ![r] = CreateRequest(u, p, from, to, g)]
  /\ UNCHANGED tables

\* A bug: only confirmed bookings are seen.
ConfirmedOverlap(q) ==
  \E b \in BookingIds :
    /\ Exists(b) /\ booking[b].status = "CONFIRMED"
    /\ Clash(booking[b], q)
    /\ q.op = "update" => b # q.booking /\ booking[b].tenant = TenantOf[q.property]

\* The overlap query.  update leaves its own row out, and looks only at rows
\* of the property's tenant.
OverlapFound(q) ==
  \E b \in BookingIds :
    /\ Active(b)
    /\ Clash(booking[b], q)
    /\ q.op = "update" => b # q.booking /\ booking[b].tenant = TenantOf[q.property]

\* A bug: a block is seen only if the stay covers it.
CoveredBlock(q) ==
  \E k \in BlockIds : /\ Blocks(k) /\ block[k].property = q.property
                      /\ q.from <= block[k].from /\ block[k].to <= q.to

\* A bug: blocks are not looked for when another one is added.
BlockFoundForStays(q) ==
  q.op # "block" /\ \E k \in BlockIds : Blocks(k) /\ Clash(block[k], q)

BlockFound(q) == \E k \in BlockIds : Blocks(k) /\ Clash(block[k], q)

FindBooking(r) ==
  /\ req[r].at = "findBooking"
  /\ IF OverlapFound(req[r]) THEN Finish(r) ELSE Goto(r, "findBlock")
  /\ UNCHANGED tables

FindBlock(r) ==
  /\ req[r].at = "findBlock"
  /\ IF BlockFound(req[r]) THEN Finish(r) ELSE Goto(r, "write")
  /\ UNCHANGED tables

InsertBooking(r) ==
  LET q == req[r]
  IN  /\ q.op = "create" /\ q.at = "write"
      /\ \E b \in BookingIds :
           /\ NextKey(b, BookingIds, booking)
           /\ booking' = [booking EXCEPT ![b] =
                [property |-> q.property, from |-> q.from, to |-> q.to,
                 tenant |-> TenantOf[q.property], user |-> q.user,
                 status |-> "PENDING", price |-> q.price, guests |-> q.guests]]
           /\ WroteBooking(r, b, [Idle EXCEPT !.op = "create", !.at = "notifyUser",
                                              !.booking = b])
      /\ UNCHANGED <<listing, block, payment, invoice, notice>>

\* update, up to and including verifyTenantBooking.  A field the patch leaves
\* out keeps the value read here, which is among those chosen from; a status
\* left out is None, for it is not written at all.  The row of the new user is
\* looked up later in the code; users do not change here.
UpdateRequest(u, w, b, p, from, to, s) ==
  [Idle EXCEPT !.op = "update", !.at = "readProperty", !.actor = u, !.user = w,
               !.booking = b, !.property = p, !.from = from, !.to = to, !.status = s]

BeginUpdate(r) ==
  /\ "update" \in Ops /\ req[r].at = "idle"
  /\ \E u, w \in Users, b \in BookingIds, p \in Properties,
        from, to \in Times, s \in Patches :
       /\ MaySee(u, b)
       /\ from < to
       /\ w # booking[b].user =>
            \/ Role[u] = "SUPER_ADMIN"
            \/ Role[u] = "TENANT_ADMIN" /\ TenantOfUser[w] = TenantOfUser[u]
       /\ req' = [req EXCEPT ![r] = UpdateRequest(u, w, b, p, from, to, s)]
  /\ UNCHANGED tables

\* A bug: a listing that is not ACTIVE will do for an update.
ReadAnyProperty(r) ==
  LET q == req[r]
  IN  /\ q.at = "readProperty"
      /\ IF Role[q.actor] = "TENANT_ADMIN" => TenantOf[q.property] = TenantOfUser[q.actor]
         THEN req' = [req EXCEPT ![r].at = "findBooking",
                        ![r].price = Nights(q.from, q.to) * listing[q.property].rate]
         ELSE Finish(r)
      /\ UNCHANGED tables

ReadProperty(r) ==
  LET q == req[r]
  IN  /\ q.at = "readProperty"
      /\ IF /\ listing[q.property].status = "ACTIVE"
            /\ Role[q.actor] = "TENANT_ADMIN" =>
                 TenantOf[q.property] = TenantOfUser[q.actor]
         THEN req' = [req EXCEPT ![r].at = "findBooking",
                        ![r].price = Nights(q.from, q.to) * listing[q.property].rate]
         ELSE Finish(r)
      /\ UNCHANGED tables

\* The row update leaves behind: a status left out stays.
Patched(row, q) ==
  [property |-> q.property, from |-> q.from, to |-> q.to,
   tenant |-> TenantOf[q.property], user |-> q.user,
   status |-> IF q.status = None THEN row.status ELSE q.status,
   price |-> q.price, guests |-> row.guests]

\* The final UPDATE: it waits for a payment that holds the row, and fails when
\* the row is gone.
WriteUpdate(r) ==
  LET b == req[r].booking
  IN  /\ req[r].op = "update" /\ req[r].at = "write" /\ ~RowLocked(b)
      /\ IF Exists(b)
         THEN /\ booking' = [booking EXCEPT ![b] = Patched(@, req[r])]
              /\ WroteBooking(r, b, Idle)
         ELSE Finish(r) /\ UNCHANGED booking
      /\ UNCHANGED <<listing, block, payment, invoice, notice>>

\* cancel, confirm and remove, up to and including verifyTenantBooking: nothing
\* but who may touch the booking is looked at.
BeginOnBooking(r, op) ==
  /\ op \in Ops /\ req[r].at = "idle"
  /\ \E u \in Users, b \in BookingIds :
       /\ MaySee(u, b)
       /\ req' = [req EXCEPT ![r] = [Idle EXCEPT !.op = op, !.at = "write",
                                                 !.actor = u, !.booking = b]]
  /\ UNCHANGED tables

BeginCancel(r) == BeginOnBooking(r, "cancel")
BeginConfirm(r) == BeginOnBooking(r, "confirm")
BeginRemove(r) == BeginOnBooking(r, "remove")

\* The unconditional UPDATE of the status, and where the handler goes on.
SetStatus(r, status, next) ==
  LET b == req[r].booking
  IN  /\ req[r].at = "write" /\ ~RowLocked(b)
      /\ IF Exists(b)
         THEN /\ booking' = [booking EXCEPT ![b].status = status]
              /\ WroteBooking(r, b, next)
         ELSE Finish(r) /\ UNCHANGED booking
      /\ UNCHANGED <<listing, block, payment, invoice, notice>>

WriteCancel(r) ==
  /\ req[r].op = "cancel"
  /\ SetStatus(r, "CANCELLED", [Idle EXCEPT !.op = "cancel", !.at = "notifyUser",
                                            !.booking = req[r].booking])

WriteConfirm(r) == req[r].op = "confirm" /\ SetStatus(r, "CONFIRMED", Idle)

\* A bug: payments and invoice are deleted with the booking (onDelete: Cascade).
ReferencedByGuests(b) == booking[b].guests

\* Rows whose foreign keys to the booking restrict its deletion.
Referenced(b) == PaymentsOf(b) # {} \/ invoice[b] # None \/ booking[b].guests

\* The DELETE: notifications let go of the booking (SET NULL).
DeleteBooking(r) ==
  LET b == req[r].booking
  IN  /\ req[r].op = "remove" /\ req[r].at = "write"
      /\ ~RowLocked(b) /\ ~KeyShared(b)
      /\ IF Exists(b) /\ ~Referenced(b)
         THEN /\ booking' = [booking EXCEPT ![b] = Gone]
              /\ notice' = {n \in notice : n.booking # b}
              /\ WroteBooking(r, b, Idle)
         ELSE Finish(r) /\ UNCHANGED <<booking, notice>>
      /\ UNCHANGED <<listing, block, payment, invoice>>
=============================================================================
