-------------------------- MODULE StaleReadProofs --------------------------
(***************************************************************************)
(* Theorems about reads that are stale when used: what payBooking, create   *)
(* and update write goes back to a read several statements earlier, and is  *)
(* what that read allows unless the row was written in between.             *)
(***************************************************************************)
EXTENDS CalendarProofs, FiniteSetTheorems

(***************************************************************************)
(* A payment in its transaction.                                            *)
(***************************************************************************)
\* What the first read of payBooking found still holds, or the booking has been
\* written since.
PaySeen(r) ==
  LET b == req[r].booking
  IN  Paying(req[r]) /\ b \notin req[r].stale =>
        /\ Exists(b) /\ booking[b].status = "PENDING" /\ ~Paid(b)
        /\ req[r].price = booking[b].price

\* Slot s is in the transaction it was in, and remembers what it was told.
StillPaying(s) ==
  /\ Paying(req[s])
  /\ req'[s].booking = req[s].booking /\ req'[s].price = req[s].price
  /\ req[s].stale \subseteq req'[s].stale

\* A slot gets into a transaction by its first read only.
LEMMA PayingFrom ==
  ASSUME TypeOK, [Next]_vars, NEW s \in Requests, Paying(req'[s])
  PROVE  BeginPay(s) \/ StillPaying(s)
<1>1. req \in [Requests -> Request]
  BY DEF TypeOK
<1>2. ASSUME NEW r \in Requests, Begin(r) \/ Step(r) \/ Timeout(r), s # r
      PROVE  StillPaying(s)
  BY <1>2, RequestsMove DEF SlotKept, Paying, StillPaying
<1>3. CASE Begin(s)
  <2>1. CASE BeginCreate(s)
    <3>1. \A u, p, from, to, g : CreateRequest(u, p, from, to, g).at = "findBooking"
      BY DEF CreateRequest, Idle
    <3> QED
      BY <1>1, <2>1, <3>1 DEF BeginCreate, Paying
  <2>2. CASE BeginUpdate(s)
    <3>1. \A u, w, b, p, from, to, c :
            UpdateRequest(u, w, b, p, from, to, c).at = "readProperty"
      BY DEF UpdateRequest, Idle
    <3> QED
      BY <1>1, <2>2, <3>1 DEF BeginUpdate, Paying
  <2>3. CASE BeginCancel(s) \/ BeginConfirm(s) \/ BeginRemove(s)
    <3>1. PICK op \in {"cancel", "confirm", "remove"}, u \in Users, b \in BookingIds :
            req' = [req EXCEPT ![s] = [Idle EXCEPT !.op = op, !.at = "write",
                                                   !.actor = u, !.booking = b]]
      BY <2>3 DEF BeginCancel, BeginConfirm, BeginRemove, BeginOnBooking
    <3> QED
      BY <1>1, <3>1 DEF Idle, Paying
  <2>4. CASE BeginBlock(s)
    BY <1>1, <2>4 DEF BeginBlock, Idle, Paying
  <2> QED
    BY <1>3, <2>1, <2>2, <2>3, <2>4 DEF Begin
<1>4. ASSUME NEW at, Goto(s, at), Paying(req[s]) PROVE StillPaying(s)
  BY <1>1, <1>4 DEF Goto, StillPaying, Request
<1>5. ASSUME NEW at, Goto(s, at), at \notin {"findPayment", "writePayment", "confirmRow",
                                             "findInvoice", "insertInvoice"}
      PROVE  FALSE
  BY <1>1, <1>5 DEF Goto, Paying, Request
<1>6. ~Finish(s)
  BY <1>1 DEF Finish, Idle, Paying
<1>7. ASSUME NEW b, NEW n, WroteBooking(s, b, n), n.at \in {"idle", "notifyUser"} PROVE FALSE
  BY <1>7 DEF WroteBooking, Paying
<1>8. CASE Step(s) \/ Timeout(s)
  <2>1. CASE FindBooking(s) \/ FindBlock(s) \/ NotifyUser(s) \/ NotifyAdmins(s) \/ Timeout(s)
    BY <1>5, <1>6, <2>1 DEF FindBooking, FindBlock, NotifyUser, NotifyAdmins, Timeout
  <2>2. CASE ReadProperty(s)
    BY <1>1, <1>6, <2>2 DEF ReadProperty, Paying, Request
  <2>3. CASE InsertBooking(s) \/ WriteUpdate(s) \/ WriteCancel(s) \/ WriteConfirm(s)
             \/ DeleteBooking(s)
    BY <1>6, <1>7, <2>3 DEF InsertBooking, WriteUpdate, WriteCancel, WriteConfirm, SetStatus,
                            DeleteBooking, Idle
  <2>4. CASE InsertBlock(s)
    BY <2>4 DEF InsertBlock, WroteBlock, Idle, Paying
  <2>5. CASE FindPayment(s)
    BY <1>1, <1>4, <2>5 DEF FindPayment, Paying, StillPaying, Request
  <2>6. CASE WritePayment(s) \/ ConfirmRow(s)
    BY <1>4, <1>6, <2>6 DEF WritePayment, ConfirmRow, Paying
  <2>7. CASE FindInvoice(s) \/ InsertInvoice(s)
    BY <1>4, <1>6, <1>7, <2>7 DEF FindInvoice, InsertInvoice, Commit, Idle, Paying
  <2> QED
    BY <1>8, <2>1, <2>2, <2>3, <2>4, <2>5, <2>6, <2>7 DEF Step
<1>9. CASE ChangeListing
  BY <1>1, <1>9, OnlyMoved DEF ChangeListing, Paying, StillPaying
<1>10. CASE RemoveBlock \/ UNCHANGED vars
  BY <1>10 DEF RemoveBlock, vars, StillPaying
<1>11. CASE Crash
  BY <1>11 DEF Crash, Idle, Paying
<1> QED
  BY <1>2, <1>3, <1>8, <1>9, <1>10, <1>11 DEF Next

\* Whoever writes a booking, or pays for it, tells the others.
LEMMA ChangesTold ==
  ASSUME TypeOK, MoneyInv, [Next]_vars, NEW b \in BookingIds,
         booking'[b] # booking[b] \/ PaymentsOf(b)' # PaymentsOf(b)
  PROVE  \E r \in Requests : \E next : WroteBooking(r, b, next) /\ ~Paying(next)
<1>1. CASE booking'[b] # booking[b]
  <2>1. PICK r \in Requests, x \in BookingIds : WritesRow(r, x)
    BY <1>1, CalendarSteps DEF CalendarKinds, Calm, WritesBlock, DropsBlock
  <2>2. x = b
    BY <1>1, <2>1 DEF WritesRow
  <2> QED
    BY <2>1, <2>2 DEF WritesRow, Fresh
<1>2. CASE PaymentsOf(b)' # PaymentsOf(b)
  <2>1. ~UNCHANGED payment
    BY <1>2 DEF PaymentsOf
  <2>2. PICK r \in Requests, p \in PaymentIds : Commits(r, p)
    BY <2>1, Kinds DEF StepKinds, Still, Crash, tables, Quiet, Forward, DeleteBooking
  <2>3. req[r].booking = b
    BY <1>2, <2>2, CommitPays
  <2>4. PICK n : n = [Idle EXCEPT !.op = "pay", !.at = "notifyUser", !.booking = b]
    OBVIOUS
  <2>5. n.at = "notifyUser"
    BY <2>4 DEF Idle
  <2>6. WroteBooking(r, b, n)
    BY <2>2, <2>3, <2>4 DEF Commits, Commit
  <2> QED
    BY <2>5, <2>6 DEF Paying
<1> QED
  BY <1>1, <1>2

\* Every step keeps what a payment has seen.
LEMMA PaySeenStep ==
  ASSUME TypeOK, MoneyInv, [Next]_vars, NEW s \in Requests, PaySeen(s)
  PROVE  PaySeen(s)'
<1>1. req' \in [Requests -> Request] /\ req \in [Requests -> Request]
  BY TypeStep DEF TypeOK
<1>2. ASSUME NEW b \in BookingIds, b = req'[s].booking,
             Exists(b)', booking'[b].status = "PENDING", ~Paid(b)',
             req'[s].price = booking'[b].price
      PROVE  PaySeen(s)'
  BY <1>2 DEF PaySeen, Exists, Paid, PaymentsOf
<1>3. CASE BeginPay(s)
  <2>1. PICK b \in BookingIds :
          /\ Exists(b)
          /\ booking[b].status \notin {"CANCELLED", "CONFIRMED"}
          /\ ~Paid(b)
          /\ req' = [req EXCEPT ![s] =
                       [Idle EXCEPT !.op = "pay", !.at = "findPayment",
                                    !.actor = booking[b].user, !.booking = b,
                                    !.price = booking[b].price]]
    BY <1>3 DEF BeginPay
  <2>2. req'[s].booking = b /\ req'[s].price = booking[b].price
    BY <1>1, <2>1 DEF Idle
  <2>3. booking[b].status = "PENDING"
    BY <2>1 DEF TypeOK, Exists, BookingRow, Statuses
  <2>4. UNCHANGED <<booking, payment>>
    BY <1>3 DEF BeginPay, tables
  <2>5. Exists(b)' /\ ~Paid(b)'
    BY <2>1, <2>4 DEF Exists, Paid, PaymentsOf
  <2> QED
    BY <1>2, <2>2, <2>3, <2>4, <2>5
<1>4. CASE StillPaying(s) /\ req'[s].booking \notin req'[s].stale
  <2>1. PICK b \in BookingIds : b = req[s].booking
    BY <1>4 DEF StillPaying, Paying, TypeOK, RequestOK
  <2>2. b = req'[s].booking /\ b \notin req'[s].stale /\ b \notin req[s].stale
    BY <1>4, <2>1 DEF StillPaying
  <2>3. ASSUME NEW r \in Requests, NEW next, WroteBooking(r, b, next), ~Paying(next),
               Paying(req'[s])
        PROVE  FALSE
    <3>1. s # r
      BY <2>3, WriterNext
    <3>2. req'[s] = [req[s] EXCEPT !.stale = @ \cup {b}]
      BY <1>4, <2>3, <3>1 DEF WroteBooking, StillPaying
    <3>3. b \in req'[s].stale
      BY <1>1, <3>2 DEF Request
    <3> QED
      BY <2>2, <3>3
  <2>4. CASE Paying(req'[s])
    <3>1. booking'[b] = booking[b] /\ PaymentsOf(b)' = PaymentsOf(b)
      BY <2>3, <2>4, ChangesTold
    <3>2. Exists(b) /\ booking[b].status = "PENDING" /\ ~Paid(b) /\ req[s].price = booking[b].price
      BY <1>4, <2>1, <2>2 DEF PaySeen, StillPaying
    <3>3. Exists(b)' /\ ~Paid(b)' /\ req'[s].price = booking'[b].price
      BY <1>4, <3>1, <3>2 DEF Exists, Paid, StillPaying
    <3> QED
      BY <1>2, <2>2, <3>1, <3>2, <3>3
  <2> QED
    BY <2>4 DEF PaySeen
<1>5. CASE ~Paying(req'[s]) \/ req'[s].booking \in req'[s].stale
  BY <1>5 DEF PaySeen
<1> QED
  BY <1>3, <1>4, <1>5, PayingFrom

PaymentsSee == \A r \in Requests : PaySeen(r)

\* What the first read of every payment found holds until the booking is written.
LEMMA PaymentReadsHold == Spec => [](TypeOK /\ MoneyInv /\ PaymentsSee)
<1>1. ASSUME Init, NEW r \in Requests PROVE PaySeen(r)
  <2>1. req[r].at = "idle"
    BY <1>1 DEF Init, Idle
  <2> QED
    BY <2>1 DEF PaySeen, Paying
<1>2. TypeOK /\ MoneyInv /\ PaymentsSee /\ [Next]_vars => PaymentsSee'
  BY PaySeenStep DEF PaymentsSee
<1>3. Init => PaymentsSee
  BY <1>1 DEF PaymentsSee
<1> QED
  BY <1>2, <1>3, Inductive, PTL DEF Spec

\* A payment is written by the commit of a transaction.
LEMMA PaymentWritten ==
  ASSUME TypeOK, MoneyInv, [Next]_vars, NEW p \in PaymentIds, payment'[p] # payment[p]
  PROVE  \E r \in Requests :
           /\ Commits(r, p) /\ Paying(req[r])
           /\ payment'[p] = [booking |-> req[r].booking, amount |-> req[r].price]
<1>1. PICK r \in Requests, x \in PaymentIds : Commits(r, x)
  BY Kinds DEF StepKinds, Still, Crash, tables, Quiet, Forward, DeleteBooking
<1>2. payment' = [payment EXCEPT ![x] = [booking |-> req[r].booking, amount |-> req[r].price]]
  BY <1>1 DEF Commits, Commit
<1>3. x = p
  BY <1>2 DEF TypeOK
<1>4. Paying(req[r])
  BY <1>1 DEF Commits, HoldsBooking, Paying
<1> QED
  BY <1>1, <1>2, <1>3, <1>4 DEF TypeOK

\* So a payment is written over what its request has seen.
LEMMA PaidAsReadStep ==
  ASSUME TypeOK, MoneyInv, PaymentsSee, [Next]_vars,
         NEW p \in PaymentIds, payment'[p] # payment[p]
  PROVE  \E r \in Requests :
           LET b == req[r].booking
           IN  /\ Paying(req[r]) /\ payment'[p].booking = b
               /\ b \notin req[r].stale =>
                    /\ booking[b].status = "PENDING" /\ ~Paid(b)
                    /\ payment'[p].amount = booking[b].price
<1>1. PICK r \in Requests :
        /\ Commits(r, p) /\ Paying(req[r])
        /\ payment'[p] = [booking |-> req[r].booking, amount |-> req[r].price]
  BY PaymentWritten
<1>2. payment'[p].booking = req[r].booking /\ payment'[p].amount = req[r].price
  BY <1>1
<1>3. PaySeen(r)
  BY DEF PaymentsSee
<1> QED
  BY <1>1, <1>2, <1>3 DEF PaySeen

\* A payment is for a pending booking nobody has paid for, at its price, unless
\* the booking was written after the first read of payBooking.
THEOREM PaymentsAreAsRead == Spec => PaidAsRead
<1>1. TypeOK /\ MoneyInv /\ PaymentsSee /\ [Next]_vars
      => [\A p \in PaymentIds :
            payment'[p] # payment[p] =>
              \E r \in Requests :
                LET b == req[r].booking
                IN  /\ Paying(req[r]) /\ payment'[p].booking = b
                    /\ b \notin req[r].stale =>
                         /\ booking[b].status = "PENDING" /\ ~Paid(b)
                         /\ payment'[p].amount = booking[b].price]_vars
  BY PaidAsReadStep
<1> QED
  BY <1>1, PaymentReadsHold, PTL DEF Spec, PaidAsRead

(***************************************************************************)
(* A stay and its listing.                                                  *)
(***************************************************************************)
\* The listing create or update has read is active and the stay priced by it, or
\* the listing has been written since.
ListingSeen(r) ==
  SawListing(req[r]) /\ ~req[r].moved => Priced(req[r])

\* Slot s looks for the stay it looked for, and remembers what it was told.
StaySame(s) ==
  /\ SawListing(req[s])
  /\ req'[s].property = req[s].property /\ req'[s].price = req[s].price
  /\ req'[s].from = req[s].from /\ req'[s].to = req[s].to
  /\ req[s].moved => req'[s].moved

\* A slot has read a listing just now, or before.
LEMMA ListingFrom ==
  ASSUME TypeOK, [Next]_vars, NEW s \in Requests, SawListing(req'[s])
  PROVE  BeginCreate(s) \/ ReadProperty(s) \/ StaySame(s)
<1>1. req \in [Requests -> Request]
  BY DEF TypeOK
<1>2. ASSUME NEW r \in Requests, Begin(r) \/ Step(r) \/ Timeout(r), s # r
      PROVE  StaySame(s)
  BY <1>2, RequestsMove DEF SlotKept, SawListing, StaySame
<1>3. CASE Begin(s)
  <2>1. CASE BeginUpdate(s)
    <3>1. \A u, w, b, p, from, to, c :
            UpdateRequest(u, w, b, p, from, to, c).at = "readProperty"
      BY DEF UpdateRequest, Idle
    <3> QED
      BY <1>1, <2>1, <3>1 DEF BeginUpdate, SawListing
  <2>2. CASE BeginCancel(s) \/ BeginConfirm(s) \/ BeginRemove(s)
    <3>1. PICK op \in {"cancel", "confirm", "remove"}, u \in Users, b \in BookingIds :
            req' = [req EXCEPT ![s] = [Idle EXCEPT !.op = op, !.at = "write",
                                                   !.actor = u, !.booking = b]]
      BY <2>2 DEF BeginCancel, BeginConfirm, BeginRemove, BeginOnBooking
    <3> QED
      BY <1>1, <3>1 DEF Idle, SawListing
  <2>3. CASE BeginBlock(s)
    BY <1>1, <2>3 DEF BeginBlock, Idle, SawListing
  <2>4. CASE BeginPay(s)
    <3>1. PICK b \in BookingIds :
            req' = [req EXCEPT ![s] =
                      [Idle EXCEPT !.op = "pay", !.at = "findPayment",
                                   !.actor = booking[b].user, !.booking = b,
                                   !.price = booking[b].price]]
      BY <2>4 DEF BeginPay
    <3> QED
      BY <1>1, <3>1 DEF Idle, SawListing
  <2> QED
    BY <1>3, <2>1, <2>2, <2>3, <2>4 DEF Begin
<1>4. ASSUME NEW at, Goto(s, at), SawListing(req[s]) PROVE StaySame(s)
  BY <1>1, <1>4 DEF Goto, StaySame, Request
<1>5. ASSUME NEW at, Goto(s, at), at \notin {"findBooking", "findBlock", "write"}
      PROVE  FALSE
  BY <1>1, <1>5 DEF Goto, SawListing, Request
<1>6. ~Finish(s)
  BY <1>1 DEF Finish, Idle, SawListing
<1>7. ASSUME NEW b, NEW n, WroteBooking(s, b, n), n.at \in {"idle", "notifyUser"} PROVE FALSE
  BY <1>7 DEF WroteBooking, SawListing
<1>8. CASE Step(s) \/ Timeout(s)
  <2>1. CASE NotifyUser(s) \/ NotifyAdmins(s) \/ WritePayment(s) \/ ConfirmRow(s) \/ Timeout(s)
    BY <1>5, <1>6, <2>1 DEF NotifyUser, NotifyAdmins, WritePayment, ConfirmRow, Timeout
  <2>2. CASE FindBooking(s) \/ FindBlock(s)
    <3>1. PICK at : Goto(s, at)
      BY <1>6, <2>2 DEF FindBooking, FindBlock
    <3>2. SawListing(req[s])
      BY <1>1, <2>2, <3>1 DEF FindBooking, FindBlock, Goto, SawListing, Request
    <3> QED
      BY <1>4, <3>1, <3>2
  <2>3. CASE InsertBooking(s) \/ WriteUpdate(s) \/ WriteCancel(s) \/ WriteConfirm(s)
             \/ DeleteBooking(s)
    BY <1>6, <1>7, <2>3 DEF InsertBooking, WriteUpdate, WriteCancel, WriteConfirm, SetStatus,
                            DeleteBooking, Idle
  <2>4. CASE InsertBlock(s)
    BY <2>4 DEF InsertBlock, WroteBlock, Idle, SawListing
  <2>5. CASE FindPayment(s)
    BY <1>1, <1>5, <2>5 DEF FindPayment, SawListing, Request
  <2>6. CASE FindInvoice(s) \/ InsertInvoice(s)
    BY <1>5, <1>6, <1>7, <2>6 DEF FindInvoice, InsertInvoice, Commit, Idle
  <2> QED
    BY <1>8, <2>1, <2>2, <2>3, <2>4, <2>5, <2>6 DEF Step
<1>9. CASE ChangeListing
  <2>1. PICK p : WroteListing(p)
    BY <1>9 DEF ChangeListing
  <2>2. req[s].moved => req'[s].moved
    BY <1>1, <2>1, ListingTold
  <2> QED
    BY <1>1, <2>1, <2>2, OnlyMoved DEF SawListing, StaySame
<1>10. CASE RemoveBlock \/ UNCHANGED vars
  BY <1>10 DEF RemoveBlock, vars, StaySame
<1>11. CASE Crash
  BY <1>11 DEF Crash, Idle, SawListing
<1> QED
  BY <1>2, <1>3, <1>8, <1>9, <1>10, <1>11 DEF Next, Begin

\* Only PropertiesService writes listings.
LEMMA ListingKept ==
  ASSUME [Next]_vars, ~ChangeListing
  PROVE  UNCHANGED listing
<1>1. ASSUME NEW r \in Requests, Begin(r) PROVE UNCHANGED listing
  BY <1>1 DEF Begin, BeginCreate, BeginUpdate, BeginCancel, BeginConfirm, BeginRemove,
              BeginOnBooking, BeginBlock, BeginPay, tables
<1>2. ASSUME NEW r \in Requests, Step(r) PROVE UNCHANGED listing
  BY <1>2 DEF Step, FindBooking, FindBlock, InsertBooking, ReadProperty, WriteUpdate,
              WriteCancel, WriteConfirm, SetStatus, DeleteBooking, InsertBlock,
              FindPayment, WritePayment, ConfirmRow, FindInvoice, InsertInvoice, Commit,
              NotifyUser, NotifyAdmins, tables
<1> QED
  BY <1>1, <1>2 DEF Next, Timeout, RemoveBlock, Crash, vars, tables

\* Every step keeps what create and update have read of the listing.
LEMMA ListingSeenStep ==
  ASSUME TypeOK, MoneyInv, [Next]_vars, NEW s \in Requests, ListingSeen(s)
  PROVE  ListingSeen(s)'
<1>1. req' \in [Requests -> Request] /\ req \in [Requests -> Request]
  BY TypeStep DEF TypeOK
<1>2. CASE BeginCreate(s)
  <2>1. PICK u \in Users, p \in Properties, from, to \in Times, g \in GuestLists :
          /\ from < to
          /\ listing[p].status = "ACTIVE"
          /\ req' = [req EXCEPT ![s] = CreateRequest(u, p, from, to, g)]
    BY <1>2 DEF BeginCreate
  <2>2. /\ req'[s].property = p /\ req'[s].from = from /\ req'[s].to = to
        /\ req'[s].price = Nights(from, to) * listing[p].rate
    BY <1>1, <2>1 DEF CreateRequest, Idle
  <2>3. UNCHANGED listing
    BY <1>2 DEF BeginCreate, tables
  <2> QED
    BY <2>1, <2>2, <2>3 DEF ListingSeen, Priced
<1>3. CASE ReadProperty(s) /\ SawListing(req'[s])
  <2>1. /\ listing[req[s].property].status = "ACTIVE"
        /\ req' = [req EXCEPT ![s].at = "findBooking",
                     ![s].price = Nights(req[s].from, req[s].to)
                                  * listing[req[s].property].rate]
    BY <1>1, <1>3 DEF ReadProperty, Finish, Idle, SawListing
  <2>2. /\ req'[s].property = req[s].property
        /\ req'[s].from = req[s].from /\ req'[s].to = req[s].to
        /\ req'[s].price = Nights(req[s].from, req[s].to) * listing[req[s].property].rate
    BY <1>1, <2>1 DEF Request
  <2>3. UNCHANGED listing
    BY <1>3 DEF ReadProperty, tables
  <2> QED
    BY <2>1, <2>2, <2>3 DEF ListingSeen, Priced
<1>4. CASE StaySame(s) /\ ~req'[s].moved
  <2>1. Priced(req[s])
    BY <1>4 DEF ListingSeen, StaySame
  <2>2. listing'[req[s].property] = listing[req[s].property]
    <3>1. CASE ChangeListing
      <4>1. PICK p \in Properties :
              /\ WroteListing(p)
              /\ \E l : listing' = [listing EXCEPT ![p] = l]
        BY <3>1 DEF ChangeListing, UpdateProperty, RemoveProperty, ReactivateProperty
      <4>2. req[s].property # p
        BY <1>4, <4>1 DEF WroteListing, StaySame
      <4> QED
        BY <4>1, <4>2 DEF TypeOK
    <3> QED
      BY <3>1, ListingKept
  <2> QED
    BY <1>4, <2>1, <2>2 DEF StaySame, ListingSeen, Priced
<1>5. CASE ~SawListing(req'[s]) \/ req'[s].moved
  BY <1>5 DEF ListingSeen
<1> QED
  BY <1>2, <1>3, <1>4, <1>5, ListingFrom

ListingsSeen == \A r \in Requests : ListingSeen(r)

\* What create and update have read of a listing holds until it is written.
LEMMA ListingReadsHold == Spec => [](TypeOK /\ MoneyInv /\ ListingsSeen)
<1>1. ASSUME Init, NEW r \in Requests PROVE ListingSeen(r)
  <2>1. req[r].at = "idle"
    BY <1>1 DEF Init, Idle
  <2> QED
    BY <2>1 DEF ListingSeen, SawListing
<1>2. Init => ListingsSeen
  BY <1>1 DEF ListingsSeen
<1>3. TypeOK /\ MoneyInv /\ ListingsSeen /\ [Next]_vars => ListingsSeen'
  BY ListingSeenStep DEF ListingsSeen
<1> QED
  BY <1>2, <1>3, Inductive, PTL DEF Spec

\* Only its own insert or update ends the last statement of create or update,
\* or a crash.
LEMMA StayWritten ==
  ASSUME TypeOK, [Next]_vars, NEW r \in Requests, Writes(r, {"create", "update"})
  PROVE  InsertBooking(r) \/ WriteUpdate(r) \/ Crash
<1>1. req[r].op \in {"create", "update"} /\ req[r].at = "write" /\ req'[r].at # "write"
  BY DEF Writes
<1>2. ASSUME NEW q \in Requests, q # r PROVE ~(Begin(q) \/ Step(q) \/ Timeout(q))
  BY <1>1, <1>2, RequestsMove DEF SlotKept
<1>3. ~Begin(r)
  BY <1>1 DEF Begin, BeginCreate, BeginUpdate, BeginCancel, BeginConfirm, BeginRemove,
              BeginOnBooking, BeginBlock, BeginPay
<1>4. Step(r) => InsertBooking(r) \/ WriteUpdate(r)
  BY <1>1 DEF Step, FindBooking, FindBlock, ReadProperty, WriteCancel, WriteConfirm,
              DeleteBooking, InsertBlock, FindPayment, WritePayment, ConfirmRow,
              FindInvoice, InsertInvoice, NotifyUser, NotifyAdmins
<1>5. ~Timeout(r)
  BY <1>1 DEF Timeout, Paying
<1>6. ~ChangeListing
  BY <1>1, OnlyMoved DEF ChangeListing, TypeOK
<1>7. ~RemoveBlock /\ ~UNCHANGED vars
  BY <1>1 DEF RemoveBlock, vars
<1> QED
  BY <1>2, <1>3, <1>4, <1>5, <1>6, <1>7 DEF Next

\* The row create or update writes is the stay of the request.
LEMMA BookedAsReadStep ==
  ASSUME TypeOK, MoneyInv, ListingsSeen, [Next]_vars, NEW r \in Requests, NEW b \in BookingIds,
         Writes(r, {"create", "update"}), booking'[b] # booking[b], ~req[r].moved
  PROVE  Priced(booking'[b])
<1>1. Priced(req[r])
  BY DEF ListingsSeen, ListingSeen, SawListing, Writes
<1>2. /\ booking'[b].property = req[r].property /\ booking'[b].price = req[r].price
      /\ booking'[b].from = req[r].from /\ booking'[b].to = req[r].to
  <2>1. CASE InsertBooking(r)
    BY <2>1 DEF InsertBooking, TypeOK
  <2>2. CASE WriteUpdate(r)
    BY <2>2 DEF WriteUpdate, Patched, TypeOK
  <2> QED
    BY <2>1, <2>2, StayWritten DEF Crash, tables
<1> QED
  BY <1>1, <1>2 DEF Priced

\* create and update write a stay at an active listing for its price per night,
\* unless the listing was written after they read it.
THEOREM BookingsAreAsRead == Spec => BookedAsRead
<1>1. TypeOK /\ MoneyInv /\ ListingsSeen /\ [Next]_vars
      => [\A r \in Requests, b \in BookingIds :
            Writes(r, {"create", "update"}) /\ booking'[b] # booking[b] /\ ~req[r].moved =>
              Priced(booking'[b])]_vars
  BY BookedAsReadStep
<1> QED
  BY <1>1, ListingReadsHold, PTL DEF Spec, BookedAsRead

\* Whole division.
LEMMA DivisionBounds ==
  ASSUME NEW a \in Nat, NEW d \in Nat \ {0}
  PROVE  a \div d \in Nat /\ (a \div d) * d <= a /\ a < (a \div d) * d + d
OBVIOUS

\* calculateTotalPrice charges at least a night, every night begun, and none more.
THEOREM NightsRoundUp ==
  ASSUME NEW from \in Times, NEW to \in Times, from < to
  PROVE  /\ Nights(from, to) \in Nat \ {0}
         /\ (Nights(from, to) - 1) * DayLength < to - from
         /\ to - from <= Nights(from, to) * DayLength
<1> DEFINE a == to - from + DayLength - 1
<1>1. DayLength \in Nat \ {0} /\ from \in Nat /\ to \in Nat
  BY StoreAssumption
<1>2. a \in Nat /\ a >= DayLength
  BY <1>1
<1>3. PICK n : n = Nights(from, to)
  OBVIOUS
<1>4. n \in Nat /\ n * DayLength <= a /\ a < n * DayLength + DayLength
  <2> HIDE DEF a
  <2>1. n = a \div DayLength
    BY <1>3 DEF a, Nights
  <2> QED
    BY <1>1, <1>2, <2>1, DivisionBounds
<1>5. n # 0
  BY <1>1, <1>2, <1>4
<1>6. (n - 1) * DayLength = n * DayLength - DayLength /\ n * DayLength \in Nat
  BY <1>1, <1>4
<1> QED
  BY <1>1, <1>3, <1>4, <1>5, <1>6

(***************************************************************************)
(* One handler at a time.                                                   *)
(***************************************************************************)
\* A handler that is alone pays for what it sees.
LEMMA AloneSees ==
  ASSUME TypeOK, Undisturbed, PaymentsSee, NEW r \in Requests, HoldsBooking(r)
  PROVE  booking[req[r].booking].status = "PENDING" /\ ~Paid(req[r].booking)
<1>1. Paying(req[r]) /\ req[r].stale = {}
  BY DEF HoldsBooking, Paying, Undisturbed
<1> QED
  BY <1>1 DEF PaymentsSee, PaySeen

\* So a payment by a handler that is alone is the first of a pending booking.
LEMMA AlonePays ==
  ASSUME TypeOK, MoneyInv, Undisturbed, PaymentsSee, [Next]_vars, NEW b \in BookingIds
  PROVE  \/ PaymentsOf(b)' = PaymentsOf(b)
         \/ /\ booking[b].status = "PENDING" /\ PaymentsOf(b) = {}
            /\ \E p \in PaymentIds : PaymentsOf(b)' = {p}
<1>1. CASE ~UNCHANGED payment
  <2>1. PICK r \in Requests, p \in PaymentIds : Commits(r, p)
    BY <1>1, Kinds DEF StepKinds, Still, Crash, tables, Quiet, Forward, DeleteBooking
  <2>2. CASE req[r].booking = b
    <3>1. booking[b].status = "PENDING" /\ PaymentsOf(b) = {}
      BY <2>1, <2>2, AloneSees DEF Commits, Paid
    <3>2. PaymentsOf(b)' = PaymentsOf(b) \cup {p}
      BY <2>1, <2>2, CommitPays
    <3> QED
      BY <3>1, <3>2
  <2>3. CASE req[r].booking # b
    BY <2>1, <2>3, CommitPays
  <2> QED
    BY <2>2, <2>3
<1>2. CASE UNCHANGED payment
  BY <1>2 DEF PaymentsOf
<1> QED
  BY <1>1, <1>2

\* A handler that is alone confirms a cancelled booking only by confirm.
LEMMA AloneRevives ==
  ASSUME TypeOK, MoneyInv, NEW h, Requests = {h}, Undisturbed, PaymentsSee, [Next]_vars,
         "confirm" \notin Ops, NEW b \in BookingIds
  PROVE  ~Revives(b)
<1> SUFFICES ASSUME Revives(b) PROVE FALSE
  OBVIOUS
<1>1. req[h].op = "pay" /\ req[h].booking = b
  <2>1. req[h].op \in Ops \cup {None} /\ None # "confirm"
    BY StoreAssumption DEF Undisturbed, AllOps
  <2> QED
    BY <2>1 DEF Revives
<1>2. booking[b].status = "CANCELLED" /\ booking' # booking
  BY DEF Revives
<1>3. ASSUME HoldsBooking(h) PROVE FALSE
  <2>1. booking[b].status = "PENDING"
    BY <1>1, <1>3, AloneSees
  <2> QED
    BY <1>2, <2>1
<1>4. ~Begin(h)
  BY <1>2 DEF Begin, BeginCreate, BeginUpdate, BeginCancel, BeginConfirm, BeginRemove,
              BeginOnBooking, BeginBlock, BeginPay, tables
<1>5. ~Step(h)
  BY <1>1, <1>2, <1>3 DEF Step, FindBooking, FindBlock, ReadProperty, InsertBooking,
       WriteUpdate, WriteCancel, WriteConfirm, DeleteBooking, InsertBlock, FindPayment,
       WritePayment, ConfirmRow, FindInvoice, InsertInvoice, HoldsBooking,
       NotifyUser, NotifyAdmins, tables
<1> QED
  BY <1>2, <1>4, <1>5 DEF Next, Timeout, ChangeListing, RemoveBlock, Crash, vars, tables

\* What is known of a handler that is alone.
LEMMA AloneHolds ==
  ASSUME NEW h, Requests = {h}
  PROVE  Spec => [](TypeOK /\ MoneyInv /\ CalendarInv /\ PaymentsSee /\ Undisturbed)
<1>1. Init => Undisturbed
  BY DEF Init, Undisturbed, Idle
<1>2. TypeOK /\ MoneyInv /\ CalendarInv /\ Undisturbed /\ [Next]_vars => Undisturbed'
  BY CalendarSteps, AloneStep
<1> QED
  BY <1>1, <1>2, KindsHold, PaymentReadsHold, PTL DEF Spec

\* With one handler at a time a booking is paid for once, cancelled bookings are
\* not paid for ...
THEOREM AlonePaysOnce ==
  ASSUME NEW h, Requests = {h}
  PROVE  Spec => []PaidOnce
<1>1. Init => PaidOnce
  <2>1. Init => \A b \in BookingIds : PaymentsOf(b) = {}
    BY DEF Init, PaymentsOf
  <2> QED
    BY <2>1, FS_EmptySet DEF PaidOnce
<1>2. TypeOK /\ MoneyInv /\ PaymentsSee /\ Undisturbed /\ PaidOnce /\ [Next]_vars => PaidOnce'
  <2> SUFFICES ASSUME TypeOK, MoneyInv, PaymentsSee, Undisturbed, PaidOnce, [Next]_vars,
                      NEW b \in BookingIds
               PROVE  Cardinality(PaymentsOf(b)') <= 1
    BY DEF PaidOnce
  <2>1. CASE PaymentsOf(b)' = PaymentsOf(b)
    BY <2>1 DEF PaidOnce
  <2>2. ASSUME NEW p, PaymentsOf(b)' = {p} PROVE Cardinality(PaymentsOf(b)') <= 1
    <3>1. Cardinality({p}) = 1
      BY FS_Singleton
    <3> QED
      BY <2>2, <3>1
  <2> QED
    BY <2>1, <2>2, AlonePays
<1> QED
  BY <1>1, <1>2, AloneHolds, PTL DEF Spec

\* ... "Cancelled bookings cannot be paid" ...
THEOREM AlonePaysNoCancelled ==
  ASSUME NEW h, Requests = {h}
  PROVE  Spec => CancelledNotPaid
<1>1. TypeOK /\ MoneyInv /\ PaymentsSee /\ Undisturbed /\ [Next]_vars
      => [\A b \in BookingIds :
            Exists(b) /\ booking[b].status = "CANCELLED" /\ ~Paid(b) => ~Paid(b)']_vars
  BY AlonePays DEF Paid
<1> QED
  BY <1>1, AloneHolds, PTL DEF Spec, CancelledNotPaid

\* ... and the queries of create, update and addAvailability keep the calendar
\* free of overlaps, as long as confirm does not revive a cancelled booking: a
\* payment does not, when it is alone.
THEOREM AloneKeepsCalendar ==
  ASSUME NEW h, Requests = {h}, "confirm" \notin Ops
  PROVE  Spec => []SerialCalendar
<1>1. Init => SerialCalendar
  BY DEF Init, SerialCalendar, NoDoubleBooking, NoBookedBlock,
         DoubleBooked, BookedOverBlock, BlockedTwice, Active, Exists, Blocks
<1>2. /\ TypeOK /\ MoneyInv /\ CalendarInv /\ PaymentsSee /\ Undisturbed /\ TypeOK'
      /\ SerialCalendar /\ [Next]_vars
      => SerialCalendar'
  BY CalendarSteps, AloneRevives, AloneSerial
<1> QED
  BY <1>1, <1>2, AloneHolds, PTL DEF Spec
=============================================================================
