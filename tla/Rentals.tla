------------------------------ MODULE Rentals ------------------------------
(***************************************************************************)
(* The booking core: BookingsService, PaymentsService, the listing and     *)
(* availability part of PropertiesService and the notifications they send, *)
(* running over the same tables.                                           *)
(***************************************************************************)
EXTENDS Bookings, Listings, Payments, BookingNotices

\* A handler starts.
Begin(r) ==
  \/ BeginCreate(r) \/ BeginUpdate(r)
  \/ BeginCancel(r) \/ BeginConfirm(r) \/ BeginRemove(r)
  \/ BeginBlock(r) \/ BeginPay(r)

\* A handler goes on.
Step(r) ==
  \/ FindBooking(r) \/ FindBlock(r) \/ InsertBooking(r)
  \/ ReadProperty(r) \/ WriteUpdate(r)
  \/ WriteCancel(r) \/ WriteConfirm(r) \/ DeleteBooking(r)
  \/ InsertBlock(r)
  \/ FindPayment(r) \/ WritePayment(r) \/ ConfirmRow(r)
  \/ FindInvoice(r) \/ InsertInvoice(r)
  \/ NotifyUser(r) \/ NotifyAdmins(r)

\* The server stops and starts again: the handlers are lost, what they
\* committed is not.
Crash ==
  /\ "crash" \in Ops
  /\ \E r \in Requests : req[r].at # "idle"
  /\ req' = [r \in Requests |-> Idle]
  /\ UNCHANGED tables

Next ==
  \/ \E r \in Requests : Begin(r) \/ Step(r) \/ Timeout(r)
  \/ ChangeListing
  \/ RemoveBlock
  \/ Crash

Spec == Init /\ [][Next]_vars

(***************************************************************************)
(* Node and PostgreSQL keep running every handler: weakly fair, and        *)
(* strongly fair where a statement waits for a row lock, since PostgreSQL  *)
(* queues the waiters of a row.  Nothing is fair about clients, limits     *)
(* or crashes.                                                             *)
(***************************************************************************)
FairSpec == Spec /\ \A r \in Requests : SF_vars(Step(r))

(***************************************************************************)
(* Types.                                                                  *)
(***************************************************************************)
TypeOK ==
  /\ listing \in [Properties -> [status : {"ACTIVE", "INACTIVE"}, rate : Rates]]
  /\ booking \in [BookingIds -> BookingRow \cup {None, Gone}]
  /\ block \in [BlockIds -> BlockRow \cup {None, Gone}]
  /\ payment \in [PaymentIds -> PaymentRow \cup {None}]
  /\ invoice \in [BookingIds -> InvoiceRow \cup {None}]
  /\ notice \subseteq [event : {"create", "cancel", "pay"}, booking : BookingIds,
                       to : {"user", "admins"}]
  /\ req \in [Requests -> Request]
  /\ \A r \in Requests : RequestOK(req[r])

(***************************************************************************)
(* What was read, and what is written.                                     *)
(***************************************************************************)
\* r ends its last statement in this step.
Writes(r, ops) == req[r].op \in ops /\ req[r].at = "write" /\ req'[r].at # "write"

\* A row priced by its listing as it stands.
Priced(row) ==
  /\ listing[row.property].status = "ACTIVE"
  /\ row.price = Nights(row.from, row.to) * listing[row.property].rate

\* create and update write a stay at an active listing for its price per night,
\* unless the listing was written after they read it: the overlap queries lie
\* between that read and the write.
BookedAsRead ==
  [][\A r \in Requests, b \in BookingIds :
       Writes(r, {"create", "update"}) /\ booking'[b] # booking[b] /\ ~req[r].moved =>
         Priced(booking'[b])]_vars

(***************************************************************************)
(* Money.                                                                  *)
(***************************************************************************)
\* A booking has a payment exactly if it has an invoice, and the invoice names
\* a payment of that booking: neither a failed transaction nor two at a time
\* leave one without the other (payments.service.ts, the transaction).
PaidIffInvoiced ==
  \A b \in BookingIds :
    /\ Paid(b) <=> invoice[b] # None
    /\ invoice[b] # None => invoice[b].payment \in PaymentsOf(b)

\* The insert of an invoice never meets the unique bookingId: two payments of
\* one booking are ordered by the row lock of booking.update, and the second
\* looks for the invoice only when it has that lock.
InvoiceSlotFree ==
  \A r \in Requests : req[r].at = "insertInvoice" => invoice[req[r].booking] = None

\* What is settled stays: an invoice is never changed or removed, and a booking
\* with a payment is never deleted, whoever removes it while it is being paid.
SettledStays ==
  [][\A b \in BookingIds :
       Paid(b) => Paid(b)' /\ invoice'[b] = invoice[b] /\ Exists(b)']_vars

\* The first payment of a booking, its confirmation and its invoice appear in
\* one step, for the price the request has read.
SettledAtOnce ==
  [][\A b \in BookingIds :
       ~Paid(b) /\ Paid(b)' =>
         /\ booking'[b].status = "CONFIRMED"
         /\ \E r \in Requests : /\ req[r].op = "pay" /\ req[r].booking = b
                                /\ invoice'[b].amount = req[r].price]_vars

\* The core implements the ledger: every statement of every handler is a step
\* of the ledger or changes nothing in it, and a second payment is the latter.
Stage == [b \in BookingIds |-> IF booking[b] = None THEN "new"
                               ELSE IF booking[b] = Gone THEN "dropped"
                               ELSE IF Paid(b) THEN "settled" ELSE "open"]
Bill == [b \in BookingIds |-> IF invoice[b] = None THEN None
                              ELSE invoice[b].amount]

Ledger == INSTANCE InvoiceLedger WITH stage <- Stage, bill <- Bill

ImplementsLedger == Ledger!LedgerSpec

\* What the transaction's locks achieve, step by step: one transaction at a time
\* holds the row of a booking, the row is there while it does, and a payment
\* found is one of the booking's.
RowLockInv ==
  /\ \A r, s \in Requests :
       HoldsBooking(r) /\ HoldsBooking(s) /\ req[r].booking = req[s].booking => r = s
  /\ \A r \in Requests :
       /\ HoldsBooking(r) => Exists(req[r].booking)
       /\ req[r].payment # None => req[r].payment \in PaymentsOf(req[r].booking)
  /\ \A r \in Requests :
       req[r].at = "confirmRow" /\ req[r].payment = None => Exists(req[r].booking)
  /\ \A b \in BookingIds : Paid(b) => Exists(b)

\* What the transaction of a payment stands on until its commit: its locks, and
\* the place of the invoice that they keep free.
TransactionInv == InvoiceSlotFree /\ RowLockInv

MoneyInv == PaidIffInvoiced /\ InvoiceSlotFree /\ RowLockInv

\* With guests' and admins' own confirm and update out of the way, a booking is
\* confirmed only if it is paid for.
ConfirmedIsPaid ==
  \A b \in BookingIds : Exists(b) /\ booking[b].status = "CONFIRMED" => Paid(b)

\* A cancelled booking is not paid for: "Cancelled bookings cannot be paid".
CancelledNotPaid ==
  [][\A b \in BookingIds :
       Exists(b) /\ booking[b].status = "CANCELLED" /\ ~Paid(b) => ~Paid(b)']_vars

\* A payment is written over what its first read found, a pending booking nobody
\* has paid for, at the price of that read; unless the booking was written after
\* the read, the only way to CancelledNotPaid and to a second payment.
PaidAsRead ==
  [][\A p \in PaymentIds :
       payment'[p] # payment[p] =>
         \E r \in Requests :
           LET b == req[r].booking
           IN  /\ Paying(req[r]) /\ payment'[p].booking = b
               /\ b \notin req[r].stale =>
                    /\ booking[b].status = "PENDING" /\ ~Paid(b)
                    /\ payment'[p].amount = booking[b].price]_vars

\* A booking has one payment, however often it is paid for.
PaidOnce == \A b \in BookingIds : Cardinality(PaymentsOf(b)) <= 1

(***************************************************************************)
(* The calendar.                                                           *)
(***************************************************************************)
DoubleBooked(b, c) ==
  b # c /\ Active(b) /\ Active(c) /\ Clash(booking[b], booking[c])

BookedOverBlock(b, k) == Active(b) /\ Blocks(k) /\ Clash(booking[b], block[k])

BlockedTwice(k, l) == k # l /\ Blocks(k) /\ Blocks(l) /\ Clash(block[k], block[l])

\* Two bookings never hold the same property for overlapping dates: "Property
\* is already booked for the selected dates".
NoDoubleBooking == \A b, c \in BookingIds : ~DoubleBooked(b, c)

\* No booking lies in a blocked range.
NoBookedBlock == \A b \in BookingIds, k \in BlockIds : ~BookedOverBlock(b, k)

\* What the queries establish: a row that clashes with a request past its query
\* was written since, or is the booking it is about to update.  The query of
\* update filters on the tenant, so it matters that bookings store their
\* property's tenant.
CalendarInv ==
  /\ \A b \in BookingIds : Exists(b) => booking[b].tenant = TenantOf[booking[b].property]
  /\ \A r \in Requests, b \in BookingIds :
       SawBookings(req[r]) /\ Active(b) /\ Clash(booking[b], req[r]) =>
         b \in req[r].stale \/ (req[r].op = "update" /\ b = req[r].booking)
  /\ \A r \in Requests, k \in BlockIds :
       SawBlocks(req[r]) /\ Blocks(k) /\ Clash(block[k], req[r]) =>
         k \in req[r].staleBlocks

\* A cancelled booking b is confirmed, by confirm or by a payment that was
\* under way when it was cancelled: neither looks at the calendar.
Revives(b) ==
  /\ Exists(b) /\ booking[b].status = "CANCELLED"
  /\ booking'[b].status = "CONFIRMED"
  /\ \E r \in Requests : req[r].op \in {"confirm", "pay"} /\ req[r].booking = b

\* Two bookings come to overlap only when one is revived, or in a race: the one
\* whose request wrote last had been written after that request looked.  So
\* without either, the queries of create and update miss nothing.
DoubleBookingIsRace ==
  [][\A b, c \in BookingIds :
       DoubleBooked(b, c)' /\ ~DoubleBooked(b, c) =>
         \/ Revives(b) \/ Revives(c)
         \/ \E r \in Requests : /\ Writes(r, {"create", "update"})
                                /\ {b, c} \cap req[r].stale # {}]_vars

\* The same of a booking and a blocked range, which create and update look for
\* on one side and addAvailability on the other.
BlockClashIsRace ==
  [][\A b \in BookingIds, k \in BlockIds :
       BookedOverBlock(b, k)' /\ ~BookedOverBlock(b, k) =>
         \/ Revives(b)
         \/ \E r \in Requests :
              \/ Writes(r, {"create", "update"}) /\ k \in req[r].staleBlocks
              \/ Writes(r, {"block"}) /\ b \in req[r].stale]_vars

\* The same of two blocked ranges.
BlockedTwiceIsRace ==
  [][\A k, l \in BlockIds :
       BlockedTwice(k, l)' /\ ~BlockedTwice(k, l) =>
         \E r \in Requests : /\ Writes(r, {"block"})
                             /\ {k, l} \cap req[r].staleBlocks # {}]_vars

\* What only a race may spoil holds when handlers run one at a time.
SerialCalendar ==
  /\ NoDoubleBooking
  /\ NoBookedBlock
  /\ \A k, l \in BlockIds : ~BlockedTwice(k, l)

(***************************************************************************)
(* Progress.                                                               *)
(***************************************************************************)
\* Every handler ends: no chain of row locks keeps one waiting.
EveryRequestEnds == \A r \in Requests : req[r].at # "idle" ~> req[r].at = "idle"

\* A payment that is committed is announced to the guest and the admins: its
\* booking cannot be deleted before the notifications refer to it.
PaymentAnnounced ==
  \A b \in BookingIds :
    Paid(b) ~> \A to \in {"user", "admins"} :
                 [event |-> "pay", booking |-> b, to |-> to] \in notice
=============================================================================
