--------------------------- MODULE ProgressProofs ---------------------------
(***************************************************************************)
(* What EveryRequestEnds and PaymentAnnounced of Rentals owe to its steps   *)
(* and not to fairness: a handler has ever fewer statements before it, and  *)
(* a payment that nobody is about to announce has been announced.           *)
(***************************************************************************)
EXTENDS RentalsProofs

(***************************************************************************)
(* Handlers run forward.                                                    *)
(***************************************************************************)
\* The most statements a handler may still have before it.
Ahead(q) ==
  CASE q.at = "idle" -> 0
    [] q.at = "notifyAdmins" -> 1
    [] q.at = "notifyUser" -> 2
    [] q.at \in {"insertInvoice", "write"} -> 3
    [] q.at \in {"findInvoice", "findBlock"} -> 4
    [] q.at \in {"confirmRow", "findBooking"} -> 5
    [] q.at \in {"writePayment", "readProperty"} -> 6
    [] q.at = "findPayment" -> 7

\* A step of a handler leaves it with fewer, and no other step with more.
HandlersAdvance ==
  [][\A r \in Requests :
       /\ Step(r) => Ahead(req'[r]) < Ahead(req[r])
       /\ req[r].at # "idle" =>
            req'[r].at = req[r].at \/ Ahead(req'[r]) < Ahead(req[r])]_vars

\* A handler under way has a statement before it.
LEMMA AheadPositive ==
  ASSUME TypeOK, NEW r \in Requests
  PROVE  Ahead(req[r]) \in 0..7 /\ (req[r].at # "idle" => Ahead(req[r]) > 0)
<1>1. req[r].at \in Steps
  BY DEF TypeOK, Request
<1> QED
  BY <1>1 DEF Steps, Ahead

\* Each statement leads to one of those further on.
LEMMA StepAdvances ==
  ASSUME TypeOK, NEW r \in Requests, Step(r)
  PROVE  Ahead(req'[r]) < Ahead(req[r])
<1>1. req \in [Requests -> Request] /\ RequestOK(req[r])
  BY DEF TypeOK
<1>2. ASSUME NEW at, Goto(r, at) PROVE req'[r].at = at
  BY <1>1, <1>2 DEF Goto, Request
<1>3. ASSUME Finish(r) PROVE req'[r].at = "idle"
  BY <1>1, <1>3 DEF Finish, Idle
<1>4. ASSUME NEW b, NEW n, WroteBooking(r, b, n) PROVE req'[r] = n
  BY <1>4 DEF WroteBooking
<1>5. ASSUME NEW op, NEW b, NEW c,
             WroteBooking(r, b, [Idle EXCEPT !.op = op, !.at = "notifyUser", !.booking = c])
      PROVE  req'[r].at = "notifyUser"
  BY <1>5 DEF WroteBooking, Idle
<1>0. ASSUME NEW p \in PaymentIds, Commit(r, p) PROVE req'[r].at = "notifyUser"
  BY <1>0, <1>5 DEF Commit
<1>6. Idle.at = "idle"
  BY DEF Idle
<1>7. CASE FindBooking(r) \/ FindBlock(r)
  BY <1>2, <1>3, <1>7 DEF FindBooking, FindBlock, Ahead
<1>8. CASE ReadProperty(r)
  <2>1. req'[r].at = "findBooking" \/ Finish(r)
    BY <1>1, <1>8 DEF ReadProperty, Request
  <2> QED
    BY <1>3, <1>8, <2>1 DEF ReadProperty, Ahead
<1>9. CASE InsertBooking(r) \/ WriteCancel(r)
  <2>1. CASE InsertBooking(r)
    <3>1. PICK b \in BookingIds :
            WroteBooking(r, b, [Idle EXCEPT !.op = "create", !.at = "notifyUser", !.booking = b])
      BY <2>1 DEF InsertBooking
    <3>2. req[r].at = "write" /\ req'[r].at = "notifyUser"
      BY <1>5, <2>1, <3>1 DEF InsertBooking
    <3> QED
      BY <3>2 DEF Ahead
  <2>2. CASE WriteCancel(r)
    <3>1. req[r].at = "write" /\ req'[r].at \in {"idle", "notifyUser"}
      BY <1>3, <1>5, <2>2 DEF WriteCancel, SetStatus
    <3> QED
      BY <3>1 DEF Ahead
  <2> QED
    BY <1>9, <2>1, <2>2
<1>10. CASE WriteUpdate(r) \/ WriteConfirm(r) \/ DeleteBooking(r)
  <2>1. req[r].at = "write" /\ req'[r].at = "idle"
    BY <1>3, <1>4, <1>6, <1>10 DEF WriteUpdate, WriteConfirm, SetStatus, DeleteBooking
  <2> QED
    BY <2>1 DEF Ahead
<1>11. CASE InsertBlock(r)
  BY <1>6, <1>11 DEF InsertBlock, WroteBlock, Ahead
<1>12. CASE FindPayment(r)
  <2>1. req'[r].at = "writePayment"
    BY <1>1, <1>2, <1>12 DEF FindPayment, Request
  <2> QED
    BY <1>12, <2>1 DEF FindPayment, Ahead
<1>13. CASE WritePayment(r) \/ ConfirmRow(r)
  BY <1>2, <1>3, <1>13 DEF WritePayment, ConfirmRow, Ahead
<1>14. CASE FindInvoice(r)
  <2>1. req[r].at = "findInvoice" /\ req'[r].at \in {"insertInvoice", "notifyUser"}
    BY <1>2, <1>14, <1>0 DEF FindInvoice
  <2> QED
    BY <2>1 DEF Ahead
<1>15. CASE InsertInvoice(r)
  <2>1. req[r].at = "insertInvoice" /\ req'[r].at \in {"idle", "notifyUser"}
    BY <1>3, <1>15, <1>0 DEF InsertInvoice
  <2> QED
    BY <2>1 DEF Ahead
<1>16. CASE NotifyUser(r) \/ NotifyAdmins(r)
  BY <1>2, <1>3, <1>16 DEF NotifyUser, NotifyAdmins, Ahead
<1> QED
  BY <1>7, <1>8, <1>9, <1>10, <1>11, <1>12, <1>13, <1>14, <1>15, <1>16 DEF Step

\* A handler under way stays where it is, advances or is given up.
LEMMA NoneGoesBack ==
  ASSUME TypeOK, [Next]_vars, NEW s \in Requests, req[s].at # "idle"
  PROVE  req'[s].at = req[s].at \/ Ahead(req'[s]) < Ahead(req[s])
<1>1. ASSUME NEW r \in Requests, Begin(r) \/ Step(r) \/ Timeout(r), s # r
      PROVE  req'[s].at = req[s].at
  BY <1>1, RequestsMove DEF SlotKept
<1>2. ~Begin(s)
  BY DEF Begin, BeginCreate, BeginUpdate, BeginCancel, BeginConfirm, BeginRemove,
         BeginOnBooking, BeginBlock, BeginPay
<1>3. Step(s) => Ahead(req'[s]) < Ahead(req[s])
  BY StepAdvances
<1>4. CASE Timeout(s) \/ Crash
  <2>1. req'[s].at = "idle"
    BY <1>4 DEF Timeout, Crash, Finish, Idle, TypeOK
  <2> QED
    BY <2>1, AheadPositive DEF Ahead
<1>5. CASE ChangeListing
  BY <1>5, OnlyMoved DEF ChangeListing, TypeOK
<1>6. CASE RemoveBlock \/ UNCHANGED vars
  BY <1>6 DEF RemoveBlock, vars
<1> QED
  BY <1>1, <1>2, <1>3, <1>4, <1>5, <1>6 DEF Next

\* Every handler has at most seven statements before it, one fewer with each: the
\* variant behind EveryRequestEnds.
THEOREM HandlersEnd == Spec => HandlersAdvance
<1>1. TypeOK /\ MoneyInv /\ [Next]_vars
      => [\A r \in Requests :
            /\ Step(r) => Ahead(req'[r]) < Ahead(req[r])
            /\ req[r].at # "idle" =>
                 req'[r].at = req[r].at \/ Ahead(req'[r]) < Ahead(req[r])]_vars
  BY StepAdvances, NoneGoesBack
<1> QED
  BY <1>1, Inductive, PTL DEF Spec, HandlersAdvance

(***************************************************************************)
(* Handlers that wait.                                                      *)
(***************************************************************************)
\* The next statement of r needs a lock that another handler holds: the row of
\* the payment it found, the row of its booking, or to delete that row the key
\* that a new payment refers to.
Waiting(r) ==
  \/ req[r].at = "writePayment" /\ req[r].payment # None /\ PaymentLocked(req[r].payment)
  \/ req[r].at = "confirmRow" /\ RowLocked(req[r].booking)
  \/ /\ req[r].at = "write" /\ req[r].op \in {"update", "cancel", "confirm", "remove"}
     /\ RowLocked(req[r].booking)
  \/ /\ req[r].at = "write" /\ req[r].op = "remove"
     /\ KeyShared(req[r].booking)

\* A handler that waits is behind a payment of its own booking that does not.
NoDeadlock ==
  \A r \in Requests :
    Waiting(r) =>
      \E s \in Requests :
        HoldsPayment(s) /\ ~Waiting(s) /\ req[s].booking = req[r].booking

\* While a handler waits it takes no step.
LEMMA WaitersWait ==
  ASSUME NEW r \in Requests, Waiting(r)
  PROVE  ~Step(r)
<1>1. CASE req[r].at = "write"
  BY <1>1 DEF Waiting, Step, FindBooking, FindBlock, InsertBooking, ReadProperty, WriteUpdate,
              WriteCancel, WriteConfirm, SetStatus, DeleteBooking, InsertBlock,
              FindPayment, WritePayment, ConfirmRow, FindInvoice, InsertInvoice,
              NotifyUser, NotifyAdmins
<1>2. CASE req[r].at \in {"writePayment", "confirmRow"}
  BY <1>2 DEF Waiting, Step, FindBooking, FindBlock, InsertBooking, ReadProperty, WriteUpdate,
              WriteCancel, WriteConfirm, SetStatus, DeleteBooking, InsertBlock,
              FindPayment, WritePayment, ConfirmRow, FindInvoice, InsertInvoice,
              NotifyUser, NotifyAdmins
<1> QED
  BY <1>1, <1>2 DEF Waiting

\* The holder of a booking's row waits for nothing.
LEMMA RowHolderRuns ==
  ASSUME NEW b, RowLocked(b)
  PROVE  \E s \in Requests : HoldsPayment(s) /\ ~Waiting(s) /\ req[s].booking = b
BY DEF RowLocked, HoldsBooking, HoldsPayment, Waiting

\* A payment past its first write waits, if at all, for that holder.
LEMMA PayerRuns ==
  ASSUME NEW t \in Requests, HoldsPayment(t)
  PROVE  \E s \in Requests : HoldsPayment(s) /\ ~Waiting(s) /\ req[s].booking = req[t].booking
<1>1. CASE ~Waiting(t)
  BY <1>1
<1>2. CASE Waiting(t)
  <2>1. RowLocked(req[t].booking)
    BY <1>2 DEF Waiting, HoldsPayment
  <2> QED
    BY <2>1, RowHolderRuns
<1> QED
  BY <1>1, <1>2

\* The row locks of payments, updates and deletions, however many there are,
\* never close a circle, and a handler that waits takes no step until it need
\* not: a payment takes its payment first, its booking second and asks for no
\* lock after that, and all that share a payment share the booking.  The safety
\* half of EveryRequestEnds.
THEOREM LocksAreOrdered ==
  Spec => []NoDeadlock /\ [][\A r \in Requests : Waiting(r) => ~Step(r)]_vars
<1>1. ASSUME TypeOK, MoneyInv PROVE NoDeadlock
  <2> SUFFICES ASSUME NEW r \in Requests, Waiting(r)
               PROVE  \E s \in Requests :
                        HoldsPayment(s) /\ ~Waiting(s) /\ req[s].booking = req[r].booking
    BY DEF NoDeadlock
  <2>1. CASE RowLocked(req[r].booking)
    BY <2>1, RowHolderRuns
  <2>2. CASE KeyShared(req[r].booking)
    BY <2>2, PayerRuns DEF KeyShared
  <2>3. CASE req[r].payment # None /\ PaymentLocked(req[r].payment)
    <3>1. PICK t \in Requests : HoldsPayment(t) /\ req[t].payment = req[r].payment
      BY <2>3 DEF PaymentLocked
    <3>2. req[t].booking = req[r].booking
      BY <1>1, <2>3, <3>1 DEF MoneyInv, RowLockInv, PaymentsOf
    <3> QED
      BY <3>1, <3>2, PayerRuns
  <2> QED
    BY <2>1, <2>2, <2>3 DEF Waiting
<1>2. [Next]_vars => [\A r \in Requests : Waiting(r) => ~Step(r)]_vars
  BY WaitersWait
<1> QED
  BY <1>1, <1>2, Inductive, PTL DEF Spec

(***************************************************************************)
(* Payments are announced.                                                  *)
(***************************************************************************)
PayNotice(b, to) == [event |-> "pay", booking |-> b, to |-> to]

\* The positions from which the notification is still to be inserted.
Before(to) == IF to = "user" THEN {"notifyUser"} ELSE {"notifyUser", "notifyAdmins"}

\* Handler r has committed a payment of b and will announce it.
Announces(r, b, to) ==
  req[r].op = "pay" /\ req[r].booking = b /\ req[r].at \in Before(to)

\* The guest and the admins have been told of the payment, or are being told.
PaidIsTold ==
  \A b \in BookingIds, to \in {"user", "admins"} :
    Paid(b) => PayNotice(b, to) \in notice \/ \E r \in Requests : Announces(r, b, to)

\* Notifications are not lost but by the deletion of their booking.
LEMMA NoticesKept ==
  ASSUME TypeOK, [Next]_vars
  PROVE  \A n \in notice : n \in notice' \/ PaymentsOf(n.booking) = {}
<1>1. ASSUME NEW r \in Requests, Begin(r) PROVE UNCHANGED notice
  BY <1>1 DEF Begin, BeginCreate, BeginUpdate, BeginCancel, BeginConfirm, BeginRemove,
              BeginOnBooking, BeginBlock, BeginPay, tables
<1>2. ASSUME NEW r \in Requests, DeleteBooking(r)
      PROVE  \A n \in notice : n \in notice' \/ PaymentsOf(n.booking) = {}
  BY <1>2 DEF DeleteBooking, Referenced
<1>3. ASSUME NEW r \in Requests, Step(r), ~DeleteBooking(r) PROVE notice \subseteq notice'
  BY <1>3 DEF Step, FindBooking, FindBlock, InsertBooking, ReadProperty, WriteUpdate,
              WriteCancel, WriteConfirm, SetStatus, InsertBlock,
              FindPayment, WritePayment, ConfirmRow, FindInvoice, InsertInvoice, Commit,
              NotifyUser, NotifyAdmins, tables
<1>4. ASSUME ChangeListing \/ RemoveBlock \/ Crash \/ UNCHANGED vars \/ \E r \in Requests : Timeout(r)
      PROVE  UNCHANGED notice
  BY <1>4 DEF ChangeListing, RemoveBlock, Crash, Timeout, vars, tables
<1> QED
  BY <1>1, <1>2, <1>3, <1>4 DEF Next

\* A handler that announces a payment inserts the notification or is yet to.
LEMMA AnnouncerStep ==
  ASSUME TypeOK, MoneyInv, [Next]_vars, "crash" \notin Ops,
         NEW b \in BookingIds, NEW to \in {"user", "admins"}, Paid(b),
         NEW s \in Requests, Announces(s, b, to)
  PROVE  PayNotice(b, to) \in notice' \/ Announces(s, b, to)'
<1>1. req \in [Requests -> Request]
  BY DEF TypeOK
<1>2. Exists(b)
  BY DEF MoneyInv, RowLockInv
<1>3. req[s].op = "pay" /\ req[s].booking = b /\ req[s].at \in {"notifyUser", "notifyAdmins"}
  BY DEF Announces, Before
<1>4. ASSUME req'[s].op = req[s].op, req'[s].booking = req[s].booking, req'[s].at = req[s].at
      PROVE  Announces(s, b, to)'
  BY <1>4 DEF Announces
<1>5. ASSUME NEW r \in Requests, Begin(r) \/ Step(r) \/ Timeout(r), s # r
      PROVE  Announces(s, b, to)'
  BY <1>4, <1>5, RequestsMove DEF SlotKept
<1>6. ~Begin(s) /\ ~Timeout(s)
  BY <1>3 DEF Begin, BeginCreate, BeginUpdate, BeginCancel, BeginConfirm, BeginRemove,
              BeginOnBooking, BeginBlock, BeginPay, Timeout, Paying
<1>7. CASE Step(s)
  <2>1. NotifyUser(s) \/ NotifyAdmins(s)
    BY <1>3, <1>7 DEF Step, FindBooking, FindBlock, InsertBooking, ReadProperty, WriteUpdate,
              WriteCancel, WriteConfirm, SetStatus, DeleteBooking, InsertBlock,
              FindPayment, WritePayment, ConfirmRow, FindInvoice, InsertInvoice
  <2>2. CASE NotifyUser(s)
    <3>1. PayNotice(b, "user") \in notice' /\ Goto(s, "notifyAdmins")
      BY <1>2, <1>3, <2>2 DEF NotifyUser, Notice, PayNotice
    <3>2. req'[s].at = "notifyAdmins" /\ req'[s].op = "pay" /\ req'[s].booking = b
      BY <1>1, <1>3, <3>1 DEF Goto, Request
    <3> QED
      BY <3>1, <3>2 DEF Announces, Before
  <2>3. CASE NotifyAdmins(s)
    <3>1. PayNotice(b, "admins") \in notice' /\ req[s].at = "notifyAdmins"
      BY <1>2, <1>3, <2>3 DEF NotifyAdmins, Notice, PayNotice
    <3>2. to = "admins"
      BY <3>1 DEF Announces, Before
    <3> QED
      BY <3>1, <3>2
  <2> QED
    BY <2>1, <2>2, <2>3
<1>8. CASE ChangeListing
  BY <1>1, <1>4, <1>8, OnlyMoved DEF ChangeListing
<1>9. CASE RemoveBlock \/ UNCHANGED vars
  BY <1>4, <1>9 DEF RemoveBlock, vars
<1> QED
  BY <1>5, <1>6, <1>7, <1>8, <1>9 DEF Next, Crash

\* A booking that becomes paid has a handler to announce it.
LEMMA PayerAnnounces ==
  ASSUME TypeOK, MoneyInv, [Next]_vars, NEW b \in BookingIds, ~Paid(b), Paid(b)',
         NEW to \in {"user", "admins"}
  PROVE  \E r \in Requests : Announces(r, b, to)'
<1>1. ~UNCHANGED payment
  BY DEF Paid, PaymentsOf
<1>2. PICK r \in Requests, p \in PaymentIds : Commits(r, p)
  BY <1>1, Kinds DEF StepKinds, Still, Crash, tables, Quiet, Forward, DeleteBooking
<1>3. req[r].booking = b
  BY <1>2, CommitPays DEF Paid
<1>4. PICK n : n = [Idle EXCEPT !.op = "pay", !.at = "notifyUser", !.booking = b]
  OBVIOUS
<1>5. n.op = "pay" /\ n.at = "notifyUser" /\ n.booking = b
  BY <1>4 DEF Idle
<1>6. req'[r] = n
  BY <1>2, <1>3, <1>4 DEF Commits, Commit, WroteBooking
<1> QED
  BY <1>5, <1>6 DEF Announces, Before

\* Without a crash, whoever has paid a booking has announced it or is about to:
\* the booking cannot be deleted under the notifications.  The safety half of
\* PaymentAnnounced.
THEOREM PaymentsAreTold ==
  ASSUME "crash" \notin Ops
  PROVE  Spec => []PaidIsTold
<1>1. Init => PaidIsTold
  BY DEF Init, PaidIsTold, Paid, PaymentsOf
<1>2. ASSUME TypeOK, MoneyInv, PaidIsTold, [Next]_vars PROVE PaidIsTold'
  <2> SUFFICES ASSUME NEW b \in BookingIds, NEW to \in {"user", "admins"}, Paid(b)'
               PROVE  PayNotice(b, to) \in notice'
                      \/ \E r \in Requests : Announces(r, b, to)'
    BY DEF PaidIsTold, PayNotice
  <2>1. CASE ~Paid(b)
    BY <1>2, <2>1, PayerAnnounces
  <2>2. CASE Paid(b) /\ PayNotice(b, to) \in notice
    <3>1. PayNotice(b, to).booking = b
      BY DEF PayNotice
    <3> QED
      BY <1>2, <2>2, <3>1, NoticesKept DEF Paid
  <2>3. ASSUME Paid(b), NEW r \in Requests, Announces(r, b, to)
        PROVE  PayNotice(b, to) \in notice' \/ Announces(r, b, to)'
    BY <1>2, <2>3, AnnouncerStep
  <2> QED
    BY <1>2, <2>1, <2>2, <2>3 DEF PaidIsTold
<1> QED
  BY <1>1, <1>2, Inductive, PTL DEF Spec
=============================================================================
