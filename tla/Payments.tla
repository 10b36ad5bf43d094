------------------------------ MODULE Payments ------------------------------
(***************************************************************************)
(* PaymentsService.payBooking: a read that decides, then a transaction at  *)
(* READ COMMITTED that writes the payment, confirms the booking and        *)
(* invoices it.  Its writes appear in the tables at the commit; until then *)
(* it is felt through its row locks (RentalStore).                         *)
(***************************************************************************)
EXTENDS RentalStore

Paid(b) == PaymentsOf(b) # {}

\* A bound: as many payments are begun as there are keys left.
PaymentKeysLeft ==
  Cardinality({r \in Requests : req[r].op = "pay"})
    < Cardinality({p \in PaymentIds : payment[p] = None})

\* A bug: a cancelled booking is not refused.
BeginPayCancelled(r) ==
  /\ "pay" \in Ops /\ req[r].at = "idle" /\ PaymentKeysLeft
  /\ \E b \in BookingIds :
       /\ Exists(b) /\ booking[b].status # "CONFIRMED" /\ ~Paid(b)
       /\ req' = [req EXCEPT ![r] =
                    [Idle EXCEPT !.op = "pay", !.at = "findPayment",
                                 !.actor = booking[b].user, !.booking = b,
                                 !.price = booking[b].price]]
  /\ UNCHANGED tables

\* The first read.  A cancelled booking is refused; one that is confirmed or
\* has a payment is answered "already paid"; the amount is that read's price.
BeginPay(r) ==
  /\ "pay" \in Ops /\ req[r].at = "idle" /\ PaymentKeysLeft
  /\ \E b \in BookingIds :
       /\ Exists(b)
       /\ booking[b].status \notin {"CANCELLED", "CONFIRMED"}
       /\ ~Paid(b)
       /\ req' = [req EXCEPT ![r] =
                    [Idle EXCEPT !.op = "pay", !.at = "findPayment",
                                 !.actor = booking[b].user, !.booking = b,
                                 !.price = booking[b].price]]
  /\ UNCHANGED tables

\* The latest payment there is for the booking, if any; keys grow with createdAt.
FindPayment(r) ==
  LET found == PaymentsOf(req[r].booking)
  IN  /\ req[r].at = "findPayment"
      /\ \/ found = {} /\ Goto(r, "writePayment")
         \/ \E p \in found :
              /\ \A o \in found : o <= p
              /\ req' = [req EXCEPT ![r].at = "writePayment", ![r].payment = p]
      /\ UNCHANGED tables

\* A bug: the new payment is created on the connection, not in the transaction.
WritePaymentOutside(r) ==
  LET q == req[r]
  IN  /\ q.at = "writePayment"
      /\ \/ q.payment # None /\ Goto(r, "confirmRow") /\ UNCHANGED payment
         \/ /\ q.payment = None /\ Exists(q.booking)
            /\ \E p \in PaymentIds :
                 /\ NextKey(p, PaymentIds, payment)
                 /\ payment' = [payment EXCEPT ![p] =
                                  [booking |-> q.booking, amount |-> q.price]]
                 /\ req' = [req EXCEPT ![r].at = "confirmRow", ![r].payment = p]
      /\ UNCHANGED <<listing, booking, block, invoice, notice>>

\* Update the payment found, waiting for its row, or insert one: the insert
\* fails when the booking is gone.
WritePayment(r) ==
  LET q == req[r]
  IN  /\ q.at = "writePayment"
      /\ \/ q.payment # None /\ ~PaymentLocked(q.payment) /\ Goto(r, "confirmRow")
         \/ q.payment = None /\ Exists(q.booking) /\ Goto(r, "confirmRow")
         \/ q.payment = None /\ ~Exists(q.booking) /\ Finish(r)
      /\ UNCHANGED tables

\* A bug: the booking is confirmed on the connection, not in the transaction.
ConfirmRowOutside(r) ==
  LET b == req[r].booking
  IN  /\ req[r].at = "confirmRow" /\ ~RowLocked(b) /\ Exists(b)
      /\ booking' = [booking EXCEPT ![b].status = "CONFIRMED"]
      /\ Goto(r, "findInvoice")
      /\ UNCHANGED <<listing, block, payment, invoice, notice>>

\* A bug: the update takes the lock that DELETE takes (a key column is written),
\* which the foreign keys of other payments under way refuse.
ConfirmRowForUpdate(r) ==
  LET b == req[r].booking
  IN  /\ req[r].at = "confirmRow" /\ ~RowLocked(b) /\ Exists(b)
      /\ ~ \E s \in Requests \ {r} : HoldsPayment(s) /\ req[s].booking = b
      /\ Goto(r, "findInvoice")
      /\ UNCHANGED tables

\* booking.update: takes the row lock, or waits for it.
ConfirmRow(r) ==
  /\ req[r].at = "confirmRow" /\ ~RowLocked(req[r].booking)
  /\ IF Exists(req[r].booking) THEN Goto(r, "findInvoice") ELSE Finish(r)
  /\ UNCHANGED tables

\* A bug: the transaction forgets to confirm the booking.
CommitUnconfirmed(r, p) ==
  LET b == req[r].booking
  IN  /\ IF req[r].payment = None THEN NextKey(p, PaymentIds, payment)
         ELSE p = req[r].payment
      /\ payment' = [payment EXCEPT ![p] = [booking |-> b, amount |-> req[r].price]]
      /\ WroteBooking(r, b, [Idle EXCEPT !.op = "pay", !.at = "notifyUser",
                                         !.booking = b])
      /\ UNCHANGED <<listing, booking, block, notice>>

\* The transaction commits: its payment p and the confirmed status show.
Commit(r, p) ==
  LET b == req[r].booking
  IN  /\ IF req[r].payment = None THEN NextKey(p, PaymentIds, payment)
         ELSE p = req[r].payment
      /\ payment' = [payment EXCEPT ![p] = [booking |-> b, amount |-> req[r].price]]
      /\ booking' = [booking EXCEPT ![b].status = "CONFIRMED"]
      /\ WroteBooking(r, b, [Idle EXCEPT !.op = "pay", !.at = "notifyUser",
                                         !.booking = b])
      /\ UNCHANGED <<listing, block, notice>>

FindInvoice(r) ==
  /\ req[r].at = "findInvoice"
  /\ \/ /\ invoice[req[r].booking] # None
        /\ \E p \in PaymentIds : Commit(r, p)
        /\ UNCHANGED invoice
     \/ /\ invoice[req[r].booking] = None
        /\ Goto(r, "insertInvoice") /\ UNCHANGED tables

\* Insert the invoice and commit, unless bookingId is taken by then.
InsertInvoice(r) ==
  LET b == req[r].booking
  IN  /\ req[r].at = "insertInvoice"
      /\ IF invoice[b] = None
         THEN \E p \in PaymentIds :
                /\ Commit(r, p)
                /\ invoice' = [invoice EXCEPT ![b] =
                                 [payment |-> p, amount |-> req[r].price]]
         ELSE Finish(r) /\ UNCHANGED tables

\* The transaction is rolled back: Prisma's time limit, or a lost connection.
Timeout(r) ==
  /\ "timeout" \in Ops /\ Paying(req[r])
  /\ Finish(r)
  /\ UNCHANGED tables
=============================================================================
