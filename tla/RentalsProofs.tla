--------------------------- MODULE RentalsProofs ---------------------------
(***************************************************************************)
(* Theorems about Rentals, for every set of bookings, properties, users    *)
(* and requests.                                                           *)
(***************************************************************************)
EXTENDS Rentals, TLAPS

ReqTyped == req \in [Requests -> Request] /\ \A r \in Requests : RequestOK(req[r])

\* NULL is not the name of an operation.
LEMMA NoneIsNoOp == None \notin AllOps
BY StoreAssumption

(***************************************************************************)
(* How the steps of a request keep its record well formed.                 *)
(***************************************************************************)
\* A slot that is given a well-formed record leaves all slots well formed.
LEMMA ReplaceTyped ==
  ASSUME ReqTyped, NEW r \in Requests, NEW q \in Request, RequestOK(q),
         req' = [req EXCEPT ![r] = q]
  PROVE  ReqTyped'
BY DEF ReqTyped, Request

\* The empty record is well formed.
LEMMA IdleTyped == Idle \in Request /\ RequestOK(Idle)
<1>1. Idle \in Request
  BY DEF Idle, Request, Steps
<1>2. Idle.op = None /\ Idle.at = "idle" /\ None \notin AllOps
  BY StoreAssumption DEF Idle
<1>3. RequestOK(Idle)
  BY <1>2 DEF RequestOK, AllOps
<1> QED
  BY <1>1, <1>3

\* A handler that ends leaves its slot empty.
LEMMA FinishTyped ==
  ASSUME ReqTyped, NEW r \in Requests, Finish(r)
  PROVE  ReqTyped'
BY IdleTyped, ReplaceTyped DEF Finish

\* A handler that moves on does so to a position that fits what it holds.
LEMMA GotoTyped ==
  ASSUME ReqTyped, NEW r \in Requests, NEW s \in Steps, Goto(r, s),
         RequestOK([req[r] EXCEPT !.at = s])
  PROVE  ReqTyped'
<1>1. [req[r] EXCEPT !.at = s] \in Request
  BY DEF ReqTyped, Request
<1>2. req' = [req EXCEPT ![r] = [req[r] EXCEPT !.at = s]]
  BY DEF Goto
<1> QED
  BY <1>1, <1>2, ReplaceTyped

\* Telling the others of a booking that was written changes only their history.
LEMMA WroteBookingTyped ==
  ASSUME ReqTyped, NEW r \in Requests, NEW b \in BookingIds,
         NEW q \in Request, RequestOK(q), WroteBooking(r, b, q)
  PROVE  ReqTyped'
<1> DEFINE told(s) == [req[s] EXCEPT !.stale = @ \cup {b}]
<1>1. \A s \in Requests : told(s) \in Request /\ RequestOK(told(s))
  BY DEF ReqTyped, Request, RequestOK
<1>2. \A s \in Requests : req'[s] \in {q, told(s), req[s]}
  BY DEF WroteBooking
<1>3. req' = [s \in Requests |-> req'[s]]
  BY DEF WroteBooking
<1> QED
  BY <1>1, <1>2, <1>3 DEF ReqTyped

\* The same of a blocked range.
LEMMA WroteBlockTyped ==
  ASSUME ReqTyped, NEW r \in Requests, NEW k \in BlockIds, WroteBlock(r, k)
  PROVE  ReqTyped'
<1> DEFINE told(s) == [req[s] EXCEPT !.staleBlocks = @ \cup {k}]
<1>1. \A s \in Requests : told(s) \in Request /\ RequestOK(told(s))
  BY DEF ReqTyped, Request, RequestOK
<1>2. \A s \in Requests : req'[s] \in {Idle, told(s), req[s]}
  BY DEF WroteBlock
<1>3. req' = [s \in Requests |-> req'[s]]
  BY DEF WroteBlock
<1> QED
  BY <1>1, <1>2, <1>3, IdleTyped DEF ReqTyped

\* A listing that is written leaves a note with those that read it, and no more.
LEMMA ListingTold ==
  ASSUME req \in [Requests -> Request], NEW p, WroteListing(p), NEW s \in Requests
  PROVE  /\ req'[s] \in {req[s], [req[s] EXCEPT !.moved = TRUE]}
         /\ \/ req'[s] = req[s]
            \/ req'[s].moved /\ SawListing(req[s]) /\ req[s].property = p
BY DEF WroteListing, Request

\* The note is all that changes.
LEMMA OnlyMoved ==
  ASSUME req \in [Requests -> Request], NEW p, WroteListing(p), NEW s \in Requests
  PROVE  /\ req'[s].at = req[s].at /\ req'[s].op = req[s].op
         /\ req'[s].booking = req[s].booking /\ req'[s].payment = req[s].payment
         /\ req'[s].property = req[s].property /\ req'[s].status = req[s].status
         /\ req'[s].from = req[s].from /\ req'[s].to = req[s].to
         /\ req'[s].price = req[s].price
         /\ req'[s].stale = req[s].stale /\ req'[s].staleBlocks = req[s].staleBlocks
BY ListingTold DEF Request

\* So the slots stay well formed.
LEMMA WroteListingTyped ==
  ASSUME ReqTyped, NEW p, WroteListing(p)
  PROVE  ReqTyped'
<1> DEFINE told(s) == [req[s] EXCEPT !.moved = TRUE]
<1>1. ASSUME NEW s \in Requests
      PROVE  told(s) \in Request /\ RequestOK(told(s))
  <2> req[s] \in Request
    BY DEF ReqTyped
  <2>1. told(s) \in Request
    BY DEF Request
  <2>2. /\ told(s).at = req[s].at /\ told(s).op = req[s].op
        /\ told(s).booking = req[s].booking /\ told(s).property = req[s].property
        /\ told(s).from = req[s].from /\ told(s).to = req[s].to
        /\ told(s).actor = req[s].actor /\ told(s).user = req[s].user
    BY DEF ReqTyped, Request
  <2> HIDE DEF told
  <2>3. RequestOK(told(s))
    BY <2>2 DEF ReqTyped, RequestOK
  <2> QED
    BY <2>1, <2>3
<1>2. \A s \in Requests : req'[s] \in {told(s), req[s]}
  BY ListingTold DEF ReqTyped
<1>3. req' = [s \in Requests |-> req'[s]]
  BY DEF WroteListing
<1> QED
  BY <1>1, <1>2, <1>3 DEF ReqTyped

\* The record of a handler that goes on to its notifications.
LEMMA AnnounceTyped ==
  ASSUME NEW b \in BookingIds, NEW op \in {"create", "cancel", "pay"},
         NEW q, q = [Idle EXCEPT !.op = op, !.at = "notifyUser", !.booking = b]
  PROVE  q \in Request /\ RequestOK(q)
<1>1. q \in Request
  BY DEF Idle, Request, Steps, AllOps
<1>2. q.op = op /\ q.at = "notifyUser" /\ q.booking = b
  BY DEF Idle
<1>3. RequestOK(q)
  BY <1>2, NoneIsNoOp DEF RequestOK, AllOps
<1> QED
  BY <1>1, <1>3

\* What a request that looks at the calendar must hold.
LEMMA CalendarRequestOK ==
  ASSUME NEW q,
         \/ q.op = "create" /\ q.at \in {"findBooking", "findBlock", "write"}
         \/ /\ q.op = "update" /\ q.booking \in BookingIds
            /\ q.at \in {"readProperty", "findBooking", "findBlock", "write"},
         q.property \in Properties, q.from \in Times, q.to \in Times, q.from < q.to,
         q.actor \in Users, q.user \in Users
  PROVE  RequestOK(q)
<1>1. CASE q.op = "create"
  BY <1>1, NoneIsNoOp DEF RequestOK, AllOps
<1>2. CASE q.op = "update"
  BY <1>2, NoneIsNoOp DEF RequestOK, AllOps
<1> QED
  BY <1>1, <1>2

\* A stay of positive length has a natural number of nights.
LEMMA NightsNat ==
  ASSUME NEW from \in Times, NEW to \in Times, from < to
  PROVE  Nights(from, to) \in Nat
<1>1. DayLength \in Nat \ {0} /\ from \in Nat /\ to \in Nat
  BY StoreAssumption
<1>2. to - from + DayLength - 1 \in Nat
  BY <1>1
<1>3. ASSUME NEW a \in Nat, NEW d \in Nat \ {0} PROVE a \div d \in Nat
  OBVIOUS
<1> QED
  BY <1>1, <1>2, <1>3 DEF Nights

(***************************************************************************)
(* Types.                                                                  *)
(***************************************************************************)
TablesTyped ==
  /\ listing \in [Properties -> [status : {"ACTIVE", "INACTIVE"}, rate : Rates]]
  /\ booking \in [BookingIds -> BookingRow \cup {None, Gone}]
  /\ block \in [BlockIds -> BlockRow \cup {None, Gone}]
  /\ payment \in [PaymentIds -> PaymentRow \cup {None}]
  /\ invoice \in [BookingIds -> InvoiceRow \cup {None}]
  /\ notice \subseteq [event : {"create", "cancel", "pay"}, booking : BookingIds,
                       to : {"user", "admins"}]

\* The type invariant, of the tables and of the requests.
LEMMA SplitType ==
  /\ TypeOK <=> TablesTyped /\ ReqTyped
  /\ TypeOK' <=> TablesTyped' /\ ReqTyped'
BY DEF TypeOK, TablesTyped, ReqTyped

\* The fresh database is well typed.
LEMMA InitTyped == Init => TypeOK
<1> SUFFICES ASSUME Init PROVE TablesTyped /\ ReqTyped
  BY SplitType
<1>1. TablesTyped
  BY DEF Init, TablesTyped
<1>2. ReqTyped
  BY IdleTyped DEF Init, ReqTyped
<1> QED
  BY <1>1, <1>2

\* The requests that begin.
LEMMA BeginTyped ==
  ASSUME TypeOK, NEW r \in Requests, Begin(r)
  PROVE  TypeOK'
<1> USE SplitType
<1>1. TablesTyped' <=> TablesTyped
  <2>1. UNCHANGED tables
    BY DEF Begin, BeginCreate, BeginUpdate, BeginCancel, BeginConfirm, BeginRemove,
           BeginOnBooking, BeginBlock, BeginPay
  <2> QED
    BY <2>1 DEF tables, TablesTyped
<1> SUFFICES ReqTyped'
  BY <1>1
<1>2. CASE BeginCreate(r)
  <2>1. PICK u \in Users, p \in Properties, from, to \in Times, g \in GuestLists :
          /\ from < to
          /\ listing[p].status = "ACTIVE"
          /\ req' = [req EXCEPT ![r] = CreateRequest(u, p, from, to, g)]
    BY <1>2 DEF BeginCreate
  <2>2. PICK q : q = CreateRequest(u, p, from, to, g)
    OBVIOUS
  <2>3. Nights(from, to) \in Nat /\ listing[p].rate \in Nat /\ g \in BOOLEAN
    BY <2>1, NightsNat, StoreAssumption DEF TablesTyped
  <2>4. Nights(from, to) * listing[p].rate \in Nat
    BY <2>3
  <2>5. q \in Request
    BY <2>2, <2>3, <2>4 DEF CreateRequest, Idle, Request, Steps, AllOps
  <2>6. /\ q.op = "create" /\ q.at = "findBooking" /\ q.actor = u /\ q.user = u
        /\ q.property = p /\ q.from = from /\ q.to = to
    BY <2>2 DEF CreateRequest, Idle
  <2>7. RequestOK(q)
    BY <2>1, <2>6, CalendarRequestOK
  <2> QED
    BY <2>1, <2>2, <2>5, <2>7, ReplaceTyped
<1>3. CASE BeginUpdate(r)
  <2>1. PICK u, w \in Users, b \in BookingIds, p \in Properties,
             from, to \in Times, s \in Patches :
          /\ MaySee(u, b)
          /\ from < to
          /\ w # booking[b].user =>
               \/ Role[u] = "SUPER_ADMIN"
               \/ Role[u] = "TENANT_ADMIN" /\ TenantOfUser[w] = TenantOfUser[u]
          /\ req' = [req EXCEPT ![r] = UpdateRequest(u, w, b, p, from, to, s)]
    BY <1>3 DEF BeginUpdate
  <2>2. PICK q : q = UpdateRequest(u, w, b, p, from, to, s)
    OBVIOUS
  <2>3. s \in Statuses \cup {None}
    BY StoreAssumption
  <2>4. q \in Request
    BY <2>2, <2>3 DEF UpdateRequest, Idle, Request, Steps, AllOps
  <2>5. /\ q.op = "update" /\ q.at = "readProperty" /\ q.actor = u /\ q.user = w
        /\ q.booking = b /\ q.property = p /\ q.from = from /\ q.to = to
    BY <2>2 DEF UpdateRequest, Idle
  <2>6. RequestOK(q)
    BY <2>1, <2>5, CalendarRequestOK
  <2> QED
    BY <2>1, <2>2, <2>4, <2>6, ReplaceTyped
<1>4. ASSUME NEW op \in {"cancel", "confirm", "remove"}, BeginOnBooking(r, op)
      PROVE  ReqTyped'
  <2>1. PICK u \in Users, b \in BookingIds :
          req' = [req EXCEPT ![r] = [Idle EXCEPT !.op = op, !.at = "write",
                                                 !.actor = u, !.booking = b]]
    BY <1>4 DEF BeginOnBooking
  <2>2. PICK q : q = [Idle EXCEPT !.op = op, !.at = "write", !.actor = u, !.booking = b]
    OBVIOUS
  <2>3. q \in Request
    BY <2>2 DEF Idle, Request, Steps, AllOps
  <2>4. q.op = op /\ q.at = "write" /\ q.booking = b
    BY <2>2 DEF Idle
  <2>5. RequestOK(q)
    BY <2>4, NoneIsNoOp DEF RequestOK, AllOps
  <2> QED
    BY <2>1, <2>2, <2>3, <2>5, ReplaceTyped
<1>5. CASE BeginBlock(r)
  <2>1. PICK u \in Users, p \in Properties, from \in Times, to \in Times :
          /\ from < to
          /\ req' = [req EXCEPT ![r] =
                       [Idle EXCEPT !.op = "block", !.at = "findBlock", !.actor = u,
                                    !.property = p, !.from = from, !.to = to]]
    BY <1>5 DEF BeginBlock
  <2>2. PICK q : q = [Idle EXCEPT !.op = "block", !.at = "findBlock", !.actor = u,
                                  !.property = p, !.from = from, !.to = to]
    OBVIOUS
  <2>3. q \in Request
    BY <2>2 DEF Idle, Request, Steps, AllOps
  <2>4. /\ q.op = "block" /\ q.at = "findBlock" /\ q.property = p
        /\ q.from = from /\ q.to = to
    BY <2>2 DEF Idle
  <2>5. RequestOK(q)
    BY <2>1, <2>4, NoneIsNoOp DEF RequestOK, AllOps
  <2> QED
    BY <2>1, <2>2, <2>3, <2>5, ReplaceTyped
<1>6. CASE BeginPay(r)
  <2>1. PICK b \in BookingIds :
          /\ Exists(b)
          /\ req' = [req EXCEPT ![r] =
                       [Idle EXCEPT !.op = "pay", !.at = "findPayment",
                                    !.actor = booking[b].user, !.booking = b,
                                    !.price = booking[b].price]]
    BY <1>6 DEF BeginPay
  <2>2. PICK q : q = [Idle EXCEPT !.op = "pay", !.at = "findPayment",
                                  !.actor = booking[b].user, !.booking = b,
                                  !.price = booking[b].price]
    OBVIOUS
  <2>3. booking[b].user \in Users /\ booking[b].price \in Nat
    BY <2>1 DEF Exists, TablesTyped, BookingRow
  <2>4. q \in Request
    BY <2>2, <2>3 DEF Idle, Request, Steps, AllOps
  <2>5. q.op = "pay" /\ q.at = "findPayment" /\ q.booking = b
    BY <2>2 DEF Idle
  <2>6. RequestOK(q)
    BY <2>5, NoneIsNoOp DEF RequestOK, AllOps
  <2> QED
    BY <2>1, <2>2, <2>4, <2>6, ReplaceTyped
<1> QED
  BY <1>2, <1>3, <1>4, <1>5, <1>6
     DEF Begin, BeginCancel, BeginConfirm, BeginRemove

\* The row an update writes.
LEMMA PatchedTyped ==
  ASSUME TypeOK, NEW r \in Requests, req[r].op = "update", req[r].at = "write",
         Exists(req[r].booking)
  PROVE  Patched(booking[req[r].booking], req[r]) \in BookingRow
<1> DEFINE q == req[r]
<1>1. q \in Request /\ RequestOK(q)
  BY DEF TypeOK
<1>2. /\ q.property \in Properties /\ q.from \in Times /\ q.to \in Times
      /\ q.user \in Users /\ q.booking \in BookingIds
  BY <1>1 DEF RequestOK
<1>3. q.price \in Nat /\ q.status \in Statuses \cup {None}
  BY <1>1 DEF Request
<1>4. booking[q.booking] \in BookingRow
  BY <1>2 DEF TypeOK, Exists
<1>5. TenantOf[q.property] \in Tenants
  BY <1>2, StoreAssumption
<1> QED
  BY <1>2, <1>3, <1>4, <1>5 DEF Patched, BookingRow

\* The steps that read, or take a lock, and write no table.
LEMMA ReadTyped ==
  ASSUME TypeOK, NEW r \in Requests,
         \/ FindBooking(r) \/ FindBlock(r) \/ ReadProperty(r)
         \/ FindPayment(r) \/ WritePayment(r) \/ ConfirmRow(r)
  PROVE  TypeOK'
<1>1. TablesTyped /\ ReqTyped
  BY SplitType
<1>2. req[r] \in Request /\ RequestOK(req[r])
  BY <1>1 DEF ReqTyped
<1>3. UNCHANGED tables
  BY DEF FindBooking, FindBlock, ReadProperty, FindPayment, WritePayment, ConfirmRow
<1>4. TablesTyped'
  BY <1>1, <1>3 DEF tables, TablesTyped
<1> SUFFICES ReqTyped'
  BY <1>4, SplitType
<1>5. ASSUME NEW s \in Steps, Goto(r, s), RequestOK([req[r] EXCEPT !.at = s])
      PROVE  ReqTyped'
  BY <1>1, <1>5, GotoTyped
<1>6. ASSUME Finish(r) PROVE ReqTyped'
  BY <1>1, <1>6, FinishTyped
<1>7. CASE FindBooking(r)
  <2>1. RequestOK([req[r] EXCEPT !.at = "findBlock"])
    BY <1>2, <1>7 DEF FindBooking, Request, RequestOK
  <2>2. Goto(r, "findBlock") => ReqTyped'
    BY <1>5, <2>1 DEF Steps
  <2> QED
    BY <1>6, <1>7, <2>2 DEF FindBooking
<1>8. CASE FindBlock(r)
  <2>1. RequestOK([req[r] EXCEPT !.at = "write"])
    BY <1>2, <1>8 DEF FindBlock, Request, RequestOK
  <2>2. Goto(r, "write") => ReqTyped'
    BY <1>5, <2>1 DEF Steps
  <2> QED
    BY <1>6, <1>8, <2>2 DEF FindBlock
<1>9. CASE ReadProperty(r)
  <2> DEFINE q == req[r]
             price == Nights(q.from, q.to) * listing[q.property].rate
             n == [q EXCEPT !.at = "findBooking", !.price = price]
  <2>1. q.at = "readProperty" /\ q.op = "update"
    BY <1>2, <1>9 DEF ReadProperty, RequestOK
  <2>2. q.property \in Properties /\ q.from \in Times /\ q.to \in Times /\ q.from < q.to
    BY <1>2, <2>1 DEF RequestOK
  <2>3. Nights(q.from, q.to) \in Nat /\ listing[q.property].rate \in Nat
    BY <1>1, <2>2, NightsNat, StoreAssumption DEF TablesTyped
  <2>4. price \in Nat
    BY <2>3
  <2>5. n \in Request
    BY <1>2, <2>4 DEF Request, Steps
  <2>6. RequestOK(n)
    BY <1>2, <2>1 DEF RequestOK, Request
  <2>7. Finish(r) \/ req' = [req EXCEPT ![r] = n]
    BY <1>9 DEF ReadProperty
  <2> QED
    BY <1>1, <1>6, <2>5, <2>6, <2>7, ReplaceTyped
<1>10. CASE FindPayment(r)
  <2>1. RequestOK([req[r] EXCEPT !.at = "writePayment"])
    BY <1>2, <1>10 DEF FindPayment, Request, RequestOK
  <2>2. ASSUME NEW p \in PaymentsOf(req[r].booking),
               req' = [req EXCEPT ![r].at = "writePayment", ![r].payment = p]
        PROVE  ReqTyped'
    <3> DEFINE n == [req[r] EXCEPT !.at = "writePayment", !.payment = p]
    <3>1. n \in Request
      BY <1>2 DEF Request, Steps, PaymentsOf
    <3>2. RequestOK(n)
      BY <1>2, <1>10 DEF FindPayment, Request, RequestOK
    <3>3. req' = [req EXCEPT ![r] = n]
      BY <2>2
    <3> QED
      BY <1>1, <3>1, <3>2, <3>3, ReplaceTyped
  <2>3. Goto(r, "writePayment") => ReqTyped'
    BY <1>5, <2>1 DEF Steps
  <2> QED
    BY <1>10, <2>2, <2>3 DEF FindPayment
<1>11. CASE WritePayment(r)
  <2>1. RequestOK([req[r] EXCEPT !.at = "confirmRow"])
    BY <1>2, <1>11 DEF WritePayment, Request, RequestOK
  <2>2. Goto(r, "confirmRow") => ReqTyped'
    BY <1>5, <2>1 DEF Steps
  <2> QED
    BY <1>6, <1>11, <2>2 DEF WritePayment
<1>12. CASE ConfirmRow(r)
  <2>1. RequestOK([req[r] EXCEPT !.at = "findInvoice"])
    BY <1>2, <1>12 DEF ConfirmRow, Request, RequestOK
  <2>2. Goto(r, "findInvoice") => ReqTyped'
    BY <1>5, <2>1 DEF Steps
  <2> QED
    BY <1>6, <1>12, <2>2 DEF ConfirmRow
<1> QED
  BY <1>7, <1>8, <1>9, <1>10, <1>11, <1>12

\* The statements that write a booking, on behalf of whom it may be.
LEMMA WriteBookingTyped ==
  ASSUME TypeOK, NEW r \in Requests,
         \/ InsertBooking(r) \/ WriteUpdate(r) \/ WriteCancel(r)
         \/ WriteConfirm(r) \/ DeleteBooking(r)
  PROVE  TypeOK'
<1>1. TablesTyped /\ ReqTyped
  BY SplitType
<1>2. req[r] \in Request /\ RequestOK(req[r])
  BY <1>1 DEF ReqTyped
<1> SUFFICES TablesTyped' /\ ReqTyped'
  BY SplitType
<1>3. ASSUME Finish(r) PROVE ReqTyped'
  BY <1>1, <1>3, FinishTyped
<1>4. ASSUME UNCHANGED tables PROVE TablesTyped'
  BY <1>1, <1>4 DEF tables, TablesTyped
<1>5. ASSUME NEW b \in BookingIds, NEW row \in BookingRow \cup {Gone},
             booking' = [booking EXCEPT ![b] = row], notice' \subseteq notice,
             UNCHANGED <<listing, block, payment, invoice>>
      PROVE  TablesTyped'
  BY <1>1, <1>5 DEF TablesTyped
<1>6. CASE InsertBooking(r)
  <2> DEFINE q == req[r]
             row == [property |-> q.property, from |-> q.from, to |-> q.to,
                     tenant |-> TenantOf[q.property], user |-> q.user,
                     status |-> "PENDING", price |-> q.price, guests |-> q.guests]
  <2>1. PICK b \in BookingIds :
          /\ NextKey(b, BookingIds, booking)
          /\ booking' = [booking EXCEPT ![b] = row]
          /\ WroteBooking(r, b, [Idle EXCEPT !.op = "create", !.at = "notifyUser",
                                            !.booking = b])
    BY <1>6 DEF InsertBooking
  <2>2. q.property \in Properties /\ q.from \in Times /\ q.to \in Times /\ q.user \in Users
    BY <1>2, <1>6 DEF InsertBooking, RequestOK
  <2>3. q.price \in Nat /\ q.guests \in BOOLEAN /\ TenantOf[q.property] \in Tenants
    BY <1>2, <2>2, StoreAssumption DEF Request
  <2>4. row \in BookingRow
    BY <2>2, <2>3 DEF BookingRow, Statuses
  <2>5. TablesTyped'
    BY <1>5, <1>6, <2>1, <2>4 DEF InsertBooking
  <2>6. PICK n : n = [Idle EXCEPT !.op = "create", !.at = "notifyUser", !.booking = b]
    OBVIOUS
  <2>7. n \in Request /\ RequestOK(n)
    BY <2>6, AnnounceTyped
  <2>8. ReqTyped'
    BY <1>1, <2>1, <2>6, <2>7, WroteBookingTyped
  <2> QED
    BY <2>5, <2>8
<1>7. CASE WriteUpdate(r)
  <2> DEFINE b == req[r].booking
  <2>1. b \in BookingIds
    BY <1>2, <1>7 DEF WriteUpdate, RequestOK
  <2>2. CASE Exists(b)
    <3>1. Patched(booking[b], req[r]) \in BookingRow
      BY <1>7, <2>2, PatchedTyped DEF WriteUpdate
    <3>2. booking' = [booking EXCEPT ![b] = Patched(booking[b], req[r])]
      BY <1>1, <1>7, <2>1, <2>2 DEF WriteUpdate, TablesTyped
    <3>3. TablesTyped'
      BY <1>5, <1>7, <2>1, <3>1, <3>2 DEF WriteUpdate
    <3>4. ReqTyped'
      BY <1>1, <1>7, <2>1, <2>2, IdleTyped, WroteBookingTyped DEF WriteUpdate
    <3> QED
      BY <3>3, <3>4
  <2>3. CASE ~Exists(b)
    BY <1>3, <1>4, <1>7, <2>3 DEF WriteUpdate, tables
  <2> QED
    BY <2>2, <2>3
<1>8. ASSUME NEW status \in Statuses, NEW n \in Request, RequestOK(n),
             SetStatus(r, status, n), req[r].booking \in BookingIds
      PROVE  TablesTyped' /\ ReqTyped'
  <2> DEFINE b == req[r].booking
             row == [booking[b] EXCEPT !.status = status]
  <2>1. CASE Exists(b)
    <3>1. booking[b] \in BookingRow
      BY <1>1, <1>8, <2>1 DEF TablesTyped, Exists
    <3>2. row \in BookingRow
      BY <3>1 DEF BookingRow
    <3>3. booking' = [booking EXCEPT ![b] = row]
      BY <1>1, <1>8, <2>1 DEF SetStatus, TablesTyped
    <3>4. TablesTyped'
      BY <1>5, <1>8, <3>2, <3>3 DEF SetStatus
    <3>5. ReqTyped'
      BY <1>1, <1>8, <2>1, WroteBookingTyped DEF SetStatus
    <3> QED
      BY <3>4, <3>5
  <2>2. CASE ~Exists(b)
    BY <1>3, <1>4, <1>8, <2>2 DEF SetStatus, tables
  <2> QED
    BY <2>1, <2>2
<1>9. CASE WriteCancel(r)
  <2>1. req[r].booking \in BookingIds
    BY <1>2, <1>9 DEF WriteCancel, RequestOK
  <2>2. PICK n : n = [Idle EXCEPT !.op = "cancel", !.at = "notifyUser",
                                  !.booking = req[r].booking]
    OBVIOUS
  <2>3. n \in Request /\ RequestOK(n)
    BY <2>1, <2>2, AnnounceTyped
  <2> QED
    BY <1>8, <1>9, <2>1, <2>2, <2>3 DEF WriteCancel, Statuses
<1>10. CASE WriteConfirm(r)
  <2>1. req[r].booking \in BookingIds
    BY <1>2, <1>10 DEF WriteConfirm, RequestOK
  <2> QED
    BY <1>8, <1>10, <2>1, IdleTyped DEF WriteConfirm, Statuses
<1>11. CASE DeleteBooking(r)
  <2> DEFINE b == req[r].booking
  <2>1. b \in BookingIds
    BY <1>2, <1>11 DEF DeleteBooking, RequestOK
  <2>2. CASE Exists(b) /\ ~Referenced(b)
    <3>1. TablesTyped'
      BY <1>5, <1>11, <2>1, <2>2 DEF DeleteBooking
    <3>2. ReqTyped'
      BY <1>1, <1>11, <2>1, <2>2, IdleTyped, WroteBookingTyped DEF DeleteBooking
    <3> QED
      BY <3>1, <3>2
  <2>3. CASE ~(Exists(b) /\ ~Referenced(b))
    BY <1>3, <1>4, <1>11, <2>3 DEF DeleteBooking, tables
  <2> QED
    BY <2>2, <2>3
<1> QED
  BY <1>6, <1>7, <1>9, <1>10, <1>11

\* A row that a transaction holds is there.
RowHeld == \A r \in Requests : HoldsBooking(r) => Exists(req[r].booking)

\* A payment transaction that commits.
LEMMA CommitTyped ==
  ASSUME TypeOK, NEW r \in Requests, NEW p \in PaymentIds, req[r].op = "pay",
         Exists(req[r].booking), Commit(r, p)
  PROVE  /\ booking' \in [BookingIds -> BookingRow \cup {None, Gone}]
         /\ payment' \in [PaymentIds -> PaymentRow \cup {None}]
         /\ ReqTyped'
<1> DEFINE b == req[r].booking
           row == [booking[b] EXCEPT !.status = "CONFIRMED"]
<1>1. TablesTyped /\ ReqTyped
  BY SplitType
<1>2. b \in BookingIds /\ req[r].price \in Nat
  BY <1>1 DEF ReqTyped, Request, RequestOK
<1>3. row \in BookingRow
  BY <1>1, <1>2 DEF TablesTyped, Exists, BookingRow, Statuses
<1>4. booking' = [booking EXCEPT ![b] = row]
  BY <1>1, <1>2 DEF Commit, TablesTyped
<1>5. [booking |-> b, amount |-> req[r].price] \in PaymentRow
  BY <1>2 DEF PaymentRow
<1>6. payment' = [payment EXCEPT ![p] = [booking |-> b, amount |-> req[r].price]]
  BY DEF Commit
<1>7. PICK n : n = [Idle EXCEPT !.op = "pay", !.at = "notifyUser", !.booking = b]
  OBVIOUS
<1>8. n \in Request /\ RequestOK(n)
  BY <1>2, <1>7, AnnounceTyped
<1>9. WroteBooking(r, b, n)
  BY <1>7 DEF Commit
<1>10. ReqTyped'
  BY <1>1, <1>2, <1>8, <1>9, WroteBookingTyped
<1> QED
  BY <1>1, <1>2, <1>3, <1>4, <1>5, <1>6, <1>10 DEF TablesTyped

\* The end of a payment, its notifications, and a blocked range.
LEMMA LastStepsTyped ==
  ASSUME TypeOK, RowHeld, NEW r \in Requests,
         \/ FindInvoice(r) \/ InsertInvoice(r) \/ NotifyUser(r) \/ NotifyAdmins(r)
         \/ InsertBlock(r) \/ Timeout(r)
  PROVE  TypeOK'
<1>1. TablesTyped /\ ReqTyped
  BY SplitType
<1>2. req[r] \in Request /\ RequestOK(req[r])
  BY <1>1 DEF ReqTyped
<1> SUFFICES TablesTyped' /\ ReqTyped'
  BY SplitType
<1>3. ASSUME Finish(r) PROVE ReqTyped'
  BY <1>1, <1>3, FinishTyped
<1>4. ASSUME UNCHANGED tables PROVE TablesTyped'
  BY <1>1, <1>4 DEF tables, TablesTyped
<1>5. CASE FindInvoice(r)
  <2>1. req[r].op = "pay" /\ Exists(req[r].booking)
    BY <1>2, <1>5 DEF FindInvoice, RequestOK, RowHeld, HoldsBooking
  <2>2. ASSUME NEW p \in PaymentIds, Commit(r, p), UNCHANGED invoice
        PROVE  TablesTyped' /\ ReqTyped'
    <3>1. /\ booking' \in [BookingIds -> BookingRow \cup {None, Gone}]
          /\ payment' \in [PaymentIds -> PaymentRow \cup {None}]
          /\ ReqTyped'
      BY <2>1, <2>2, CommitTyped
    <3> QED
      BY <1>1, <2>2, <3>1 DEF Commit, TablesTyped
  <2>3. ASSUME Goto(r, "insertInvoice"), UNCHANGED tables
        PROVE  TablesTyped' /\ ReqTyped'
    <3>1. RequestOK([req[r] EXCEPT !.at = "insertInvoice"])
      BY <1>2, <2>1, NoneIsNoOp DEF Request, RequestOK, AllOps
    <3>2. "insertInvoice" \in Steps
      BY DEF Steps
    <3> QED
      BY <1>1, <1>4, <2>3, <3>1, <3>2, GotoTyped
  <2> QED
    BY <1>5, <2>2, <2>3 DEF FindInvoice
<1>6. CASE InsertInvoice(r)
  <2> DEFINE b == req[r].booking
  <2>1. req[r].op = "pay" /\ Exists(b) /\ b \in BookingIds /\ req[r].price \in Nat
    BY <1>2, <1>6 DEF InsertInvoice, Request, RequestOK, RowHeld, HoldsBooking
  <2>2. ASSUME NEW p \in PaymentIds, Commit(r, p),
               invoice' = [invoice EXCEPT ![b] = [payment |-> p, amount |-> req[r].price]]
        PROVE  TablesTyped' /\ ReqTyped'
    <3>1. /\ booking' \in [BookingIds -> BookingRow \cup {None, Gone}]
          /\ payment' \in [PaymentIds -> PaymentRow \cup {None}]
          /\ ReqTyped'
      BY <2>1, <2>2, CommitTyped
    <3>2. invoice' \in [BookingIds -> InvoiceRow \cup {None}]
      BY <1>1, <2>1, <2>2 DEF TablesTyped, InvoiceRow
    <3> QED
      BY <1>1, <2>2, <3>1, <3>2 DEF Commit, TablesTyped
  <2>3. ASSUME Finish(r), UNCHANGED tables PROVE TablesTyped' /\ ReqTyped'
    BY <1>3, <1>4, <2>3
  <2> QED
    BY <1>6, <2>2, <2>3 DEF InsertInvoice
<1>7. CASE NotifyUser(r)
  <2>1. req[r].op \in {"create", "cancel", "pay"} /\ req[r].booking \in BookingIds
    BY <1>2, <1>7 DEF NotifyUser, RequestOK
  <2>2. TablesTyped'
    BY <1>1, <1>7, <2>1 DEF NotifyUser, Notice, TablesTyped
  <2>3. RequestOK([req[r] EXCEPT !.at = "notifyAdmins"])
    BY <1>2, <2>1, NoneIsNoOp DEF Request, RequestOK, AllOps
  <2>4. Goto(r, "notifyAdmins") => ReqTyped'
    BY <1>1, <2>3, GotoTyped DEF Steps
  <2> QED
    BY <1>3, <1>7, <2>2, <2>4 DEF NotifyUser
<1>8. CASE NotifyAdmins(r)
  <2>1. req[r].op \in {"create", "cancel", "pay"} /\ req[r].booking \in BookingIds
    BY <1>2, <1>8 DEF NotifyAdmins, RequestOK
  <2>2. TablesTyped'
    BY <1>1, <1>8, <2>1 DEF NotifyAdmins, Notice, TablesTyped
  <2> QED
    BY <1>3, <1>8, <2>2 DEF NotifyAdmins
<1>9. CASE InsertBlock(r)
  <2> DEFINE row == [property |-> req[r].property, from |-> req[r].from, to |-> req[r].to]
  <2>1. PICK k \in BlockIds : block' = [block EXCEPT ![k] = row] /\ WroteBlock(r, k)
    BY <1>9 DEF InsertBlock
  <2>2. row \in BlockRow
    BY <1>2, <1>9 DEF InsertBlock, RequestOK, BlockRow
  <2>3. TablesTyped'
    BY <1>1, <1>9, <2>1, <2>2 DEF InsertBlock, TablesTyped
  <2>4. ReqTyped'
    BY <1>1, <2>1, WroteBlockTyped
  <2> QED
    BY <2>3, <2>4
<1>10. CASE Timeout(r)
  BY <1>3, <1>4, <1>10 DEF Timeout
<1> QED
  BY <1>5, <1>6, <1>7, <1>8, <1>9, <1>10

\* What happens outside the request slots.
LEMMA EnvironmentTyped ==
  ASSUME TypeOK, ChangeListing \/ RemoveBlock \/ Crash
  PROVE  TypeOK'
<1>1. TablesTyped /\ ReqTyped
  BY SplitType
<1> SUFFICES TablesTyped' /\ ReqTyped'
  BY SplitType
<1>2. CASE ChangeListing
  <2>1. PICK u \in Users, p \in Properties :
          /\ \/ \E s \in {"ACTIVE", "INACTIVE"}, x \in Rates : UpdateProperty(u, p, s, x)
             \/ RemoveProperty(u, p)
             \/ ReactivateProperty(u, p)
          /\ WroteListing(p)
    BY <1>2 DEF ChangeListing
  <2>2. listing' \in [Properties -> [status : {"ACTIVE", "INACTIVE"}, rate : Rates]]
    BY <1>1, <2>1 DEF UpdateProperty, RemoveProperty, ReactivateProperty, TablesTyped
  <2>3. ReqTyped'
    BY <1>1, <2>1, WroteListingTyped
  <2> QED
    BY <1>1, <1>2, <2>2, <2>3 DEF ChangeListing, TablesTyped
<1>3. CASE RemoveBlock
  <2>1. block' \in [BlockIds -> BlockRow \cup {None, Gone}]
    BY <1>1, <1>3 DEF RemoveBlock, TablesTyped
  <2> QED
    BY <1>1, <1>3, <2>1 DEF RemoveBlock, TablesTyped, ReqTyped
<1>4. CASE Crash
  <2>1. TablesTyped'
    BY <1>1, <1>4 DEF Crash, tables, TablesTyped
  <2>2. ReqTyped'
    BY <1>4, IdleTyped DEF Crash, ReqTyped
  <2> QED
    BY <2>1, <2>2
<1> QED
  BY <1>2, <1>3, <1>4

(***************************************************************************)
(* Row locks.                                                              *)
(***************************************************************************)
\* Slot s is where it was, with all it holds; it may have been told of a write.
SlotKept(s) ==
  /\ req'[s].at = req[s].at /\ req'[s].op = req[s].op
  /\ req'[s].booking = req[s].booking /\ req'[s].payment = req[s].payment
  /\ req'[s].property = req[s].property /\ req'[s].price = req[s].price
  /\ req'[s].from = req[s].from /\ req'[s].to = req[s].to
  /\ req[s].stale \subseteq req'[s].stale /\ req'[s].moved = req[s].moved

\* A step of one handler leaves the others where they are.
LEMMA RequestsMove ==
  ASSUME TypeOK, NEW r \in Requests, Begin(r) \/ Step(r) \/ Timeout(r),
         NEW s \in Requests, s # r
  PROVE  SlotKept(s)
<1>1. req \in [Requests -> Request]
  BY DEF TypeOK
<1> SUFFICES SlotKept(s)
  OBVIOUS
<1>0. ASSUME req'[s] = req[s] PROVE SlotKept(s)
  BY <1>0 DEF SlotKept
<1>2. ASSUME NEW n, req' = [req EXCEPT ![r] = n] PROVE SlotKept(s)
  BY <1>0, <1>1, <1>2
<1>3. ASSUME NEW b, NEW n, WroteBooking(r, b, n)
      PROVE  SlotKept(s)
  BY <1>1, <1>3 DEF WroteBooking, Request, SlotKept
<1>4. ASSUME NEW k, WroteBlock(r, k)
      PROVE  SlotKept(s)
  BY <1>1, <1>4 DEF WroteBlock, Request, SlotKept
<1>5. ASSUME NEW step, Goto(r, step) PROVE SlotKept(s)
  BY <1>0, <1>1, <1>5 DEF Goto
<1>6. CASE Begin(r)
  BY <1>2, <1>6, ZenonT(60) DEF Begin, BeginCreate, BeginUpdate, BeginCancel, BeginConfirm, BeginRemove,
                    BeginOnBooking, BeginBlock, BeginPay
<1>7. Finish(r) => SlotKept(s)
  BY <1>2 DEF Finish
<1>8. CASE FindBooking(r) \/ FindBlock(r) \/ WritePayment(r) \/ ConfirmRow(r)
           \/ NotifyUser(r) \/ NotifyAdmins(r) \/ Timeout(r)
  BY <1>5, <1>7, <1>8 DEF FindBooking, FindBlock, WritePayment, ConfirmRow,
                          NotifyUser, NotifyAdmins, Timeout
<1>9. CASE ReadProperty(r) \/ FindPayment(r)
  <2>1. CASE ReadProperty(r)
    <3>1. Finish(r) \/ \E n : req' = [req EXCEPT ![r] = n]
      BY <2>1 DEF ReadProperty
    <3> QED
      BY <1>2, <1>7, <3>1
  <2>2. CASE FindPayment(r)
    <3>1. Goto(r, "writePayment") \/ \E n : req' = [req EXCEPT ![r] = n]
      BY <2>2 DEF FindPayment
    <3> QED
      BY <1>2, <1>5, <3>1
  <2> QED
    BY <1>9, <2>1, <2>2
<1>10. CASE InsertBooking(r) \/ WriteUpdate(r) \/ WriteCancel(r) \/ WriteConfirm(r)
            \/ DeleteBooking(r)
  BY <1>3, <1>7, <1>10 DEF InsertBooking, WriteUpdate, WriteCancel, WriteConfirm, SetStatus,
                           DeleteBooking
<1>11. CASE FindInvoice(r) \/ InsertInvoice(r)
  BY <1>3, <1>5, <1>7, <1>11 DEF FindInvoice, InsertInvoice, Commit
<1>12. CASE InsertBlock(r)
  BY <1>4, <1>12 DEF InsertBlock
<1> QED
  BY <1>6, <1>8, <1>9, <1>10, <1>11, <1>12 DEF Step

\* A step of r in which no money moves, no booking goes and no lock is taken.
Quiet(r) ==
  /\ UNCHANGED <<payment, invoice>>
  /\ \A b \in BookingIds : Exists(b) => Exists(b)'
  /\ ~HoldsPayment(r)'
  /\ req'[r].payment # None =>
       req'[r].payment = req[r].payment /\ req'[r].booking = req[r].booking

\* A row that is written is there.
LEMMA RowWritten ==
  ASSUME TypeOK, NEW b \in BookingIds, NEW row \in BookingRow,
         booking' = [booking EXCEPT ![b] = row]
  PROVE  \A c \in BookingIds : /\ Exists(c) => Exists(c)'
                               /\ c # b => booking'[c] = booking[c]
BY StoreAssumption DEF TypeOK, Exists

\* The same of a row whose status alone is written.
LEMMA StatusWritten ==
  ASSUME TypeOK, NEW b \in BookingIds, NEW status \in Statuses, Exists(b),
         booking' = [booking EXCEPT ![b].status = status]
  PROVE  \A c \in BookingIds : Exists(c) => Exists(c)'
<1>1. booking[b] \in BookingRow
  BY DEF TypeOK, Exists
<1>2. [booking[b] EXCEPT !.status = status] \in BookingRow
  BY <1>1 DEF BookingRow
<1>3. booking' = [booking EXCEPT ![b] = [booking[b] EXCEPT !.status = status]]
  BY DEF TypeOK
<1> QED
  BY <1>2, <1>3, RowWritten

\* Most steps are quiet.
LEMMA QuietSteps ==
  ASSUME TypeOK, NEW r \in Requests,
         \/ Begin(r) \/ Timeout(r) \/ FindBooking(r) \/ FindBlock(r) \/ ReadProperty(r)
         \/ InsertBooking(r) \/ WriteUpdate(r) \/ WriteCancel(r) \/ WriteConfirm(r)
         \/ InsertBlock(r) \/ NotifyUser(r) \/ NotifyAdmins(r)
  PROVE  Quiet(r)
<1>1. req \in [Requests -> Request] /\ RequestOK(req[r])
  BY DEF TypeOK
<1>2. ASSUME NEW n, req' = [req EXCEPT ![r] = n],
             n.at \notin {"confirmRow", "findInvoice", "insertInvoice"},
             n.payment # None => n.payment = req[r].payment /\ n.booking = req[r].booking,
             UNCHANGED <<payment, invoice>>, \A b \in BookingIds : Exists(b) => Exists(b)'
      PROVE  Quiet(r)
  BY <1>1, <1>2 DEF Quiet, HoldsPayment
<1>3. ASSUME UNCHANGED booking PROVE \A b \in BookingIds : Exists(b) => Exists(b)'
  BY <1>3 DEF Exists
<1>4. ASSUME Finish(r), UNCHANGED <<payment, invoice, booking>> PROVE Quiet(r)
  BY <1>2, <1>3, <1>4 DEF Finish, Idle
<1>5. ASSUME NEW step, Goto(r, step), UNCHANGED <<payment, invoice, booking>>,
             step \notin {"confirmRow", "findInvoice", "insertInvoice"}
      PROVE  Quiet(r)
  <2> DEFINE n == [req[r] EXCEPT !.at = step]
  <2>1. req' = [req EXCEPT ![r] = n]
    BY <1>5 DEF Goto
  <2>2. n.at = step /\ n.payment = req[r].payment /\ n.booking = req[r].booking
    BY <1>1 DEF Request
  <2> HIDE DEF n
  <2> QED
    BY <1>2, <1>3, <1>5, <2>1, <2>2
<1>6. CASE Begin(r)
  <2>1. UNCHANGED <<payment, invoice, booking>>
    BY <1>6 DEF Begin, BeginCreate, BeginUpdate, BeginCancel, BeginConfirm, BeginRemove,
                BeginOnBooking, BeginBlock, BeginPay, tables
  <2>2. ASSUME req'[r].payment = None,
               req'[r].at \in {"findBooking", "readProperty", "write", "findBlock",
                              "findPayment"}
        PROVE  Quiet(r)
    BY <1>3, <2>1, <2>2 DEF Quiet, HoldsPayment
  <2>3. CASE BeginCreate(r)
    <3>1. \A u, p, from, to, g : /\ CreateRequest(u, p, from, to, g).payment = None
                                /\ CreateRequest(u, p, from, to, g).at = "findBooking"
      BY DEF CreateRequest, Idle
    <3> QED
      BY <1>1, <2>2, <2>3, <3>1 DEF BeginCreate
  <2>4. CASE BeginUpdate(r)
    <3>1. \A u, w, b, p, from, to, s :
            /\ UpdateRequest(u, w, b, p, from, to, s).payment = None
            /\ UpdateRequest(u, w, b, p, from, to, s).at = "readProperty"
      BY DEF UpdateRequest, Idle
    <3> QED
      BY <1>1, <2>2, <2>4, <3>1 DEF BeginUpdate
  <2>5. CASE BeginCancel(r) \/ BeginConfirm(r) \/ BeginRemove(r)
    <3>1. PICK op \in {"cancel", "confirm", "remove"}, u \in Users, b \in BookingIds :
            req' = [req EXCEPT ![r] = [Idle EXCEPT !.op = op, !.at = "write",
                                                   !.actor = u, !.booking = b]]
      BY <2>5 DEF BeginCancel, BeginConfirm, BeginRemove, BeginOnBooking
    <3> QED
      BY <1>1, <2>2, <3>1 DEF Idle
  <2>6. CASE BeginBlock(r)
    <3>1. PICK u \in Users, p \in Properties, from \in Times, to \in Times :
            req' = [req EXCEPT ![r] =
                     [Idle EXCEPT !.op = "block", !.at = "findBlock", !.actor = u,
                                  !.property = p, !.from = from, !.to = to]]
      BY <2>6 DEF BeginBlock
    <3> QED
      BY <1>1, <2>2, <3>1 DEF Idle
  <2>7. CASE BeginPay(r)
    <3>1. PICK b \in BookingIds :
            req' = [req EXCEPT ![r] =
                     [Idle EXCEPT !.op = "pay", !.at = "findPayment",
                                  !.actor = booking[b].user, !.booking = b,
                                  !.price = booking[b].price]]
      BY <2>7 DEF BeginPay
    <3> QED
      BY <1>1, <2>2, <3>1 DEF Idle
  <2> QED
    BY <1>6, <2>3, <2>4, <2>5, <2>6, <2>7 DEF Begin
<1>7. CASE Timeout(r)
  BY <1>4, <1>7 DEF Timeout, tables
<1>8. CASE FindBooking(r) \/ FindBlock(r)
  BY <1>4, <1>5, <1>8 DEF FindBooking, FindBlock, tables
<1>9. CASE ReadProperty(r)
  <2> DEFINE q == req[r]
             n == [q EXCEPT !.at = "findBooking",
                            !.price = Nights(q.from, q.to) * listing[q.property].rate]
  <2>1. Finish(r) \/ req' = [req EXCEPT ![r] = n]
    BY <1>9 DEF ReadProperty
  <2>2. n.at = "findBooking" /\ n.payment = q.payment /\ n.booking = q.booking
    BY <1>1 DEF Request
  <2>3. UNCHANGED <<payment, invoice, booking>>
    BY <1>9 DEF ReadProperty, tables
  <2> HIDE DEF n
  <2> QED
    BY <1>2, <1>3, <1>4, <2>1, <2>2, <2>3
<1>10. ASSUME NEW b, NEW n, WroteBooking(r, b, n), n.payment = None,
              n.at \notin {"confirmRow", "findInvoice", "insertInvoice"},
              UNCHANGED <<payment, invoice>>, \A c \in BookingIds : Exists(c) => Exists(c)'
       PROVE  Quiet(r)
  BY <1>1, <1>10 DEF WroteBooking, Quiet, HoldsPayment
<1>11. CASE InsertBooking(r)
  <2>1. PICK b \in BookingIds :
          /\ NextKey(b, BookingIds, booking)
          /\ \A c \in BookingIds : c # b => booking'[c] = booking[c]
          /\ WroteBooking(r, b, [Idle EXCEPT !.op = "create", !.at = "notifyUser",
                                            !.booking = b])
    BY <1>11 DEF InsertBooking, TypeOK
  <2>2. \A c \in BookingIds : Exists(c) => Exists(c)'
    BY <2>1 DEF Exists, NextKey
  <2> QED
    BY <1>10, <1>11, <2>1, <2>2 DEF InsertBooking, Idle
<1>12. CASE WriteUpdate(r)
  <2> DEFINE b == req[r].booking
  <2>1. b \in BookingIds
    BY <1>1, <1>12 DEF WriteUpdate, RequestOK
  <2>2. CASE Exists(b)
    <3>1. Patched(booking[b], req[r]) \in BookingRow
      BY <1>12, <2>2, PatchedTyped DEF WriteUpdate
    <3>2. booking' = [booking EXCEPT ![b] = Patched(booking[b], req[r])]
      BY <1>12, <2>1, <2>2 DEF WriteUpdate, TypeOK
    <3>3. \A c \in BookingIds : Exists(c) => Exists(c)'
      BY <2>1, <3>1, <3>2, RowWritten
    <3> QED
      BY <1>10, <1>12, <2>2, <3>3 DEF WriteUpdate, Idle
  <2> QED
    BY <1>4, <1>12, <2>2 DEF WriteUpdate
<1>13. ASSUME NEW status \in Statuses, NEW n, SetStatus(r, status, n), n.payment = None,
              n.at \notin {"confirmRow", "findInvoice", "insertInvoice"},
              req[r].booking \in BookingIds
       PROVE  Quiet(r)
  <2>1. CASE Exists(req[r].booking)
    <3>1. \A c \in BookingIds : Exists(c) => Exists(c)'
      BY <1>13, <2>1, StatusWritten DEF SetStatus
    <3> QED
      BY <1>10, <1>13, <2>1, <3>1 DEF SetStatus
  <2> QED
    BY <1>4, <1>13, <2>1 DEF SetStatus
<1>14. CASE WriteCancel(r)
  <2>1. req[r].booking \in BookingIds
    BY <1>1, <1>14 DEF WriteCancel, RequestOK
  <2> QED
    BY <1>13, <1>14, <2>1 DEF WriteCancel, Idle, Statuses
<1>15. CASE WriteConfirm(r)
  <2>1. req[r].booking \in BookingIds
    BY <1>1, <1>15 DEF WriteConfirm, RequestOK
  <2> QED
    BY <1>13, <1>15, <2>1 DEF WriteConfirm, Idle, Statuses
<1>16. CASE InsertBlock(r)
  BY <1>1, <1>3, <1>16 DEF InsertBlock, WroteBlock, Idle, Quiet, HoldsPayment
<1>17. CASE NotifyUser(r) \/ NotifyAdmins(r)
  BY <1>4, <1>5, <1>17 DEF NotifyUser, NotifyAdmins
<1> QED
  BY <1>6, <1>7, <1>8, <1>9, <1>11, <1>12, <1>14, <1>15, <1>16, <1>17

\* All slots but r are where they were.
OthersStay(r) ==
  \A s \in Requests \ {r} :
    /\ req'[s].at = req[s].at /\ req'[s].op = req[s].op
    /\ req'[s].booking = req[s].booking /\ req'[s].payment = req[s].payment

\* All slots are where they were, and so are the tables that hold money.
Still ==
  /\ UNCHANGED <<booking, payment, invoice>>
  /\ \A s \in Requests :
       /\ req'[s].at = req[s].at /\ req'[s].op = req[s].op
       /\ req'[s].booking = req[s].booking /\ req'[s].payment = req[s].payment

\* A quiet step keeps the invariant of the money.
LEMMA QuietMoney ==
  ASSUME TypeOK, MoneyInv, NEW r \in Requests, Quiet(r), OthersStay(r)
  PROVE  MoneyInv'
<1>1. \A b : PaymentsOf(b)' = PaymentsOf(b) /\ (Paid(b)' <=> Paid(b))
  BY DEF Quiet, PaymentsOf, Paid
<1>2. \A s \in Requests : HoldsPayment(s)' => s # r /\ HoldsPayment(s)
  BY DEF Quiet, OthersStay, HoldsPayment
<1>3. \A s \in Requests : HoldsBooking(s)' => s # r /\ HoldsBooking(s)
  BY <1>2 DEF OthersStay, HoldsPayment, HoldsBooking
<1>4. \A b \in BookingIds : Exists(b) => Exists(b)'
  BY DEF Quiet
<1>5. PaidIffInvoiced'
  BY <1>1 DEF MoneyInv, PaidIffInvoiced, Quiet
<1>6. InvoiceSlotFree'
  BY <1>2 DEF MoneyInv, InvoiceSlotFree, HoldsPayment, OthersStay, Quiet
<1>7. \A s \in Requests : HoldsPayment(s) => req[s].booking \in BookingIds
  BY DEF TypeOK, RequestOK, HoldsPayment
<1>8. RowLockInv'
  <2>1. \A q, s \in Requests :
          HoldsBooking(q)' /\ HoldsBooking(s)' /\ req'[q].booking = req'[s].booking => q = s
    BY <1>3 DEF MoneyInv, RowLockInv, OthersStay
  <2>2. \A s \in Requests : req'[s].payment # None =>
          req'[s].payment \in PaymentsOf(req[s].booking)'
    BY <1>1 DEF MoneyInv, RowLockInv, OthersStay, Quiet
  <2>3. \A s \in Requests : req'[s].at = "confirmRow" /\ req'[s].payment = None =>
          Exists(req[s].booking)'
    BY <1>2, <1>4, <1>7 DEF MoneyInv, RowLockInv, OthersStay, HoldsPayment
  <2>4. \A b \in BookingIds : Paid(b)' => Exists(b)'
    BY <1>1, <1>4 DEF MoneyInv, RowLockInv
  <2>5. \A s \in Requests : HoldsBooking(s)' => Exists(req[s].booking)'
    BY <1>3, <1>4, <1>7 DEF MoneyInv, RowLockInv, OthersStay, HoldsBooking, HoldsPayment
  <2> QED
    BY <2>1, <2>2, <2>3, <2>4, <2>5 DEF RowLockInv, PaymentsOf, Exists
<1> QED
  BY <1>5, <1>6, <1>8 DEF MoneyInv

\* A transaction moves forward without committing: only its own position and
\* the payment it found change.
LEMMA ForwardMoney ==
  ASSUME TypeOK, MoneyInv, NEW r \in Requests, OthersStay(r), UNCHANGED tables,
         req'[r].booking = req[r].booking,
         req'[r].payment # None => req'[r].payment \in PaymentsOf(req[r].booking),
         \/ req'[r].at = "writePayment"
         \/ req'[r].at = "confirmRow" /\ (req'[r].payment = None => Exists(req[r].booking))
         \/ req'[r].at = "findInvoice" /\ ~RowLocked(req[r].booking) /\ Exists(req[r].booking)
         \/ /\ req'[r].at = "insertInvoice" /\ req[r].at = "findInvoice"
            /\ invoice[req[r].booking] = None
  PROVE  MoneyInv'
<1> USE DEF tables
<1>1. \A b : PaymentsOf(b)' = PaymentsOf(b) /\ (Paid(b)' <=> Paid(b)) /\ (Exists(b)' <=> Exists(b))
  BY DEF PaymentsOf, Paid, Exists
<1>2. PaidIffInvoiced'
  BY <1>1 DEF MoneyInv, PaidIffInvoiced
<1>3. InvoiceSlotFree'
  BY DEF MoneyInv, InvoiceSlotFree, OthersStay
<1>4. \A s \in Requests \ {r} : HoldsBooking(s)' <=> HoldsBooking(s)
  BY DEF HoldsBooking, OthersStay
<1>5. HoldsBooking(r)' => HoldsBooking(r) \/ ~RowLocked(req[r].booking)
  BY DEF HoldsBooking
<1>6. \A q, s \in Requests :
        HoldsBooking(q)' /\ HoldsBooking(s)' /\ req'[q].booking = req'[s].booking => q = s
  BY <1>4, <1>5 DEF MoneyInv, RowLockInv, OthersStay, RowLocked
<1>7. \A s \in Requests : HoldsBooking(s)' => Exists(req'[s].booking)
  BY <1>4 DEF MoneyInv, RowLockInv, OthersStay, HoldsBooking
<1>8. \A s \in Requests : req'[s].payment # None => req'[s].payment \in PaymentsOf(req'[s].booking)
  BY DEF MoneyInv, RowLockInv, OthersStay
<1>9. \A s \in Requests : req'[s].at = "confirmRow" /\ req'[s].payment = None =>
        Exists(req'[s].booking)
  BY DEF MoneyInv, RowLockInv, OthersStay
<1>10. \A b \in BookingIds : Paid(b)' => Exists(b)'
  BY <1>1 DEF MoneyInv, RowLockInv
<1>11. RowLockInv'
  BY <1>6, <1>7, <1>8, <1>9, <1>10 DEF RowLockInv, PaymentsOf, Exists
<1> QED
  BY <1>2, <1>3, <1>11 DEF MoneyInv

\* A transaction of r commits payment p.
Commits(r, p) ==
  /\ Commit(r, p) /\ HoldsBooking(r) /\ Exists(req[r].booking)
  /\ \/ invoice[req[r].booking] # None /\ UNCHANGED invoice
     \/ /\ invoice[req[r].booking] = None
        /\ invoice' = [invoice EXCEPT ![req[r].booking] =
                         [payment |-> p, amount |-> req[r].price]]


\* A commit adds its payment to the booking's, and to no other's.
LEMMA CommitPays ==
  ASSUME TypeOK, MoneyInv, NEW r \in Requests, NEW p \in PaymentIds, Commits(r, p)
  PROVE  \E b \in BookingIds :
           /\ b = req[r].booking /\ req[r].op = "pay"
           /\ PaymentsOf(b)' = PaymentsOf(b) \cup {p}
           /\ \A c \in BookingIds \ {b} : PaymentsOf(c)' = PaymentsOf(c)
<1>1. RequestOK(req[r]) /\ HoldsBooking(r)
  BY DEF TypeOK, Commits
<1>2. PICK b \in BookingIds : b = req[r].booking
  BY <1>1 DEF RequestOK, HoldsBooking
<1>3. payment' = [payment EXCEPT ![p] = [booking |-> b, amount |-> req[r].price]]
  BY <1>2 DEF Commits, Commit
<1>4. payment[p] = None \/ (payment[p] # None /\ payment[p].booking = b)
  BY <1>2 DEF Commits, Commit, NextKey, MoneyInv, RowLockInv, PaymentsOf
<1>5. [booking |-> b, amount |-> req[r].price] # None
  BY <1>2, StoreAssumption DEF TypeOK, Request, PaymentRow
<1>6. PaymentsOf(b)' = PaymentsOf(b) \cup {p}
  BY <1>3, <1>4, <1>5 DEF PaymentsOf, TypeOK
<1>7. \A c \in BookingIds \ {b} : PaymentsOf(c)' = PaymentsOf(c)
  BY <1>3, <1>4 DEF PaymentsOf, TypeOK
<1> QED
  BY <1>1, <1>2, <1>6, <1>7 DEF RequestOK, HoldsBooking

\* A transaction commits its payment p, with an invoice if there was none.
LEMMA CommitMoney ==
  ASSUME TypeOK, MoneyInv, NEW r \in Requests, OthersStay(r), NEW p \in PaymentIds,
         Commits(r, p)
  PROVE  MoneyInv'
<1>1. PICK b \in BookingIds :
        /\ b = req[r].booking
        /\ PaymentsOf(b)' = PaymentsOf(b) \cup {p}
        /\ \A c \in BookingIds \ {b} : PaymentsOf(c)' = PaymentsOf(c)
  BY CommitPays
<1>2. Commit(r, p) /\ HoldsBooking(r) /\ Exists(b)
  BY <1>1 DEF Commits
<1>6. req'[r].at = "notifyUser" /\ req'[r].payment = None
  BY <1>2 DEF Commit, WroteBooking, Idle
<1>7. \A c \in BookingIds : Exists(c) => Exists(c)'
  BY <1>1, <1>2, StatusWritten DEF Commit, Statuses
<1>8. \A c \in BookingIds : c # b => invoice'[c] = invoice[c]
  BY <1>1 DEF TypeOK, Commits
<1>9. invoice'[b] # None /\ invoice'[b].payment \in PaymentsOf(b)'
  <2>1. CASE invoice[b] # None /\ UNCHANGED invoice
    <3>1. invoice[b].payment \in PaymentsOf(b)
      BY <2>1 DEF MoneyInv, PaidIffInvoiced
    <3> QED
      BY <1>1, <2>1, <3>1
  <2>2. CASE invoice' = [invoice EXCEPT ![b] = [payment |-> p, amount |-> req[r].price]]
    <3>1. [payment |-> p, amount |-> req[r].price] # None
      BY <1>1, StoreAssumption DEF TypeOK, Request, InvoiceRow
    <3> QED
      BY <1>1, <2>2, <3>1 DEF TypeOK
  <2> QED
    BY <1>1, <2>1, <2>2 DEF Commits
<1>10. PaidIffInvoiced'
  BY <1>1, <1>8, <1>9 DEF MoneyInv, PaidIffInvoiced, Paid
<1>11. \A s \in Requests \ {r} : HoldsBooking(s)' => HoldsBooking(s) /\ req[s].booking # b
  <2>1. \A s \in Requests \ {r} : HoldsBooking(s)' => HoldsBooking(s)
    BY DEF HoldsBooking, OthersStay
  <2>2. \A s \in Requests \ {r} : HoldsBooking(s) => req[s].booking # b
    BY <1>1, <1>2 DEF MoneyInv, RowLockInv
  <2> QED
    BY <2>1, <2>2
<1>12. InvoiceSlotFree'
  <2>1. ASSUME NEW s \in Requests, req'[s].at = "insertInvoice"
        PROVE  invoice'[req'[s].booking] = None
    <3>1. s # r /\ req[s].at = "insertInvoice" /\ req'[s].booking = req[s].booking
      BY <1>6, <2>1 DEF OthersStay
    <3>2. req[s].booking \in BookingIds /\ req[s].booking # b
      BY <1>11, <3>1 DEF TypeOK, RequestOK, HoldsBooking, OthersStay
    <3> QED
      BY <1>8, <3>1, <3>2 DEF MoneyInv, InvoiceSlotFree
  <2> QED
    BY <2>1 DEF InvoiceSlotFree
<1>13. RowLockInv'
  <2>1. \A q, s \in Requests :
          HoldsBooking(q)' /\ HoldsBooking(s)' /\ req'[q].booking = req'[s].booking => q = s
    BY <1>6 DEF MoneyInv, RowLockInv, OthersStay, HoldsBooking
  <2>2. \A s \in Requests : HoldsPayment(s) => req[s].booking \in BookingIds
    BY DEF TypeOK, RequestOK, HoldsPayment
  <2>3. \A s \in Requests : HoldsBooking(s)' => Exists(req[s].booking)'
    BY <1>6, <1>7, <2>2 DEF MoneyInv, RowLockInv, OthersStay, HoldsBooking, HoldsPayment
  <2>4. \A s \in Requests : req'[s].payment # None =>
          req'[s].payment \in PaymentsOf(req[s].booking)'
    <3> SUFFICES ASSUME NEW s \in Requests, req'[s].payment # None
                 PROVE  req'[s].payment \in PaymentsOf(req[s].booking)'
      OBVIOUS
    <3>1. s # r /\ req'[s].payment = req[s].payment /\ req'[s].booking = req[s].booking
      BY <1>6 DEF OthersStay
    <3>2. req[s].payment \in PaymentsOf(req[s].booking)
      BY <3>1 DEF MoneyInv, RowLockInv
    <3>3. PICK c \in BookingIds : c = req[s].booking
      BY <3>2 DEF PaymentsOf, TypeOK, PaymentRow
    <3>4. req[s].payment \in PaymentsOf(c)'
      BY <1>1, <3>2, <3>3
    <3>5. PaymentsOf(req[s].booking)' = PaymentsOf(c)'
      BY <3>1, <3>3 DEF PaymentsOf
    <3> QED
      BY <3>1, <3>4, <3>5
  <2>5. \A s \in Requests : req'[s].at = "confirmRow" /\ req'[s].payment = None =>
          Exists(req[s].booking)'
    BY <1>6, <1>7, <2>2 DEF MoneyInv, RowLockInv, OthersStay, HoldsPayment
  <2>6. \A c \in BookingIds : Paid(c)' => Exists(c)'
    BY <1>1, <1>2, <1>7 DEF MoneyInv, RowLockInv, Paid
  <2> QED
    BY <2>1, <2>3, <2>4, <2>5, <2>6 DEF RowLockInv, PaymentsOf, Exists
<1> QED
  BY <1>10, <1>12, <1>13 DEF MoneyInv

\* Deleting a booking: nothing refers to it and no transaction needs it.
LEMMA DeleteMoney ==
  ASSUME TypeOK, MoneyInv, NEW r \in Requests, OthersStay(r), DeleteBooking(r)
  PROVE  MoneyInv'
<1> DEFINE b == req[r].booking
<1>1. b \in BookingIds /\ req \in [Requests -> Request]
  BY DEF TypeOK, DeleteBooking, RequestOK
<1>2. req'[r].payment = None /\ req'[r].at = "idle"
  BY <1>1 DEF DeleteBooking, Finish, WroteBooking, Idle
<1>3. CASE ~(Exists(b) /\ ~Referenced(b))
  <2>1. Quiet(r)
    BY <1>2, <1>3 DEF DeleteBooking, Quiet, HoldsPayment, Exists
  <2> QED
    BY <2>1, QuietMoney
<1>4. CASE Exists(b) /\ ~Referenced(b)
  <2>1. UNCHANGED <<payment, invoice>>
    BY DEF DeleteBooking
  <2>2. ~Paid(b)
    BY <1>4 DEF Referenced, Paid
  <2>3. \A c \in BookingIds : c # b => (Exists(c)' <=> Exists(c))
    BY <1>1, <1>4 DEF DeleteBooking, Exists, TypeOK
  <2>4. \A s \in Requests \ {r} : HoldsBooking(s) => req[s].booking # b
    BY DEF DeleteBooking, RowLocked
  <2>5. \A s \in Requests \ {r} : HoldsPayment(s) /\ req[s].payment = None => req[s].booking # b
    BY DEF DeleteBooking, KeyShared
  <2>6. \A c : PaymentsOf(c)' = PaymentsOf(c) /\ (Paid(c)' <=> Paid(c))
    BY <2>1 DEF PaymentsOf, Paid
  <2>7. PaidIffInvoiced' /\ InvoiceSlotFree'
    BY <1>2, <2>1, <2>6 DEF MoneyInv, PaidIffInvoiced, InvoiceSlotFree, OthersStay
  <2>8. \A s \in Requests : HoldsPayment(s) => req[s].booking \in BookingIds
    BY DEF TypeOK, RequestOK, HoldsPayment
  <2>9. RowLockInv'
    <3>1. \A q, s \in Requests :
            HoldsBooking(q)' /\ HoldsBooking(s)' /\ req'[q].booking = req'[s].booking => q = s
      BY <1>2 DEF MoneyInv, RowLockInv, OthersStay, HoldsBooking
    <3>2. \A s \in Requests : HoldsBooking(s)' => Exists(req[s].booking)'
      BY <1>2, <2>3, <2>4, <2>8 DEF MoneyInv, RowLockInv, OthersStay, HoldsBooking, HoldsPayment
    <3>3. \A s \in Requests : req'[s].payment # None =>
            req'[s].payment \in PaymentsOf(req[s].booking)'
      BY <1>2, <2>6 DEF MoneyInv, RowLockInv, OthersStay
    <3>4. \A s \in Requests : req'[s].at = "confirmRow" /\ req'[s].payment = None =>
            Exists(req[s].booking)'
      BY <1>2, <2>3, <2>5, <2>8 DEF MoneyInv, RowLockInv, OthersStay, HoldsPayment
    <3>5. \A c \in BookingIds : Paid(c)' => Exists(c)'
      BY <2>2, <2>3, <2>6 DEF MoneyInv, RowLockInv
    <3> QED
      BY <3>1, <3>2, <3>3, <3>4, <3>5 DEF RowLockInv, PaymentsOf, Exists
  <2> QED
    BY <2>7, <2>9 DEF MoneyInv
<1> QED
  BY <1>3, <1>4

\* The first database holds no money and no locks.
LEMMA InitMoney == Init => MoneyInv
<1> SUFFICES ASSUME Init PROVE MoneyInv
  OBVIOUS
<1>1. \A b : PaymentsOf(b) = {}
  BY DEF Init, PaymentsOf
<1>2. \A r \in Requests : req[r].at = "idle" /\ req[r].payment = None
  BY DEF Init, Idle
<1>3. PaidIffInvoiced
  BY <1>1 DEF Init, PaidIffInvoiced, Paid
<1>4. InvoiceSlotFree
  BY <1>2 DEF InvoiceSlotFree
<1>5. RowLockInv
  BY <1>1, <1>2 DEF RowLockInv, HoldsBooking, Paid
<1> QED
  BY <1>3, <1>4, <1>5 DEF MoneyInv

(***************************************************************************)
(* What a step can be, as far as money is concerned.                       *)
(***************************************************************************)
\* A transaction of r gets further without committing.
Forward(r) ==
  /\ UNCHANGED tables
  /\ req'[r].booking = req[r].booking
  /\ req'[r].payment # None => req'[r].payment \in PaymentsOf(req[r].booking)
  /\ \/ req'[r].at = "writePayment"
     \/ req'[r].at = "confirmRow" /\ (req'[r].payment = None => Exists(req[r].booking))
     \/ req'[r].at = "findInvoice" /\ ~RowLocked(req[r].booking) /\ Exists(req[r].booking)
     \/ /\ req'[r].at = "insertInvoice" /\ req[r].at = "findInvoice"
        /\ invoice[req[r].booking] = None

\* A handler that stops without writing is quiet.
LEMMA FinishQuiet ==
  ASSUME TypeOK, NEW r \in Requests, Finish(r), UNCHANGED tables
  PROVE  Quiet(r)
<1>1. req'[r] = Idle
  BY DEF TypeOK, Finish
<1> QED
  BY <1>1 DEF Idle, Quiet, HoldsPayment, tables, Exists

\* A handler that goes to another position keeps all else.
LEMMA GotoMoves ==
  ASSUME TypeOK, NEW r \in Requests, NEW s, Goto(r, s)
  PROVE  /\ req'[r].at = s
         /\ req'[r].booking = req[r].booking /\ req'[r].payment = req[r].payment
BY DEF TypeOK, Request, Goto

\* Every step of a transaction goes forward, commits or stops.
LEMMA TransactionSteps ==
  ASSUME TypeOK, MoneyInv, NEW r \in Requests,
         \/ FindPayment(r) \/ WritePayment(r) \/ ConfirmRow(r)
         \/ FindInvoice(r) \/ InsertInvoice(r)
  PROVE  Quiet(r) \/ Forward(r) \/ \E p \in PaymentIds : Commits(r, p)
<1>1. req[r].payment # None => req[r].payment \in PaymentsOf(req[r].booking)
  BY DEF MoneyInv, RowLockInv
<1>2. Finish(r) /\ UNCHANGED tables => Quiet(r)
  BY FinishQuiet
<1>3. ASSUME NEW s, Goto(r, s)
      PROVE  /\ req'[r].at = s
             /\ req'[r].booking = req[r].booking /\ req'[r].payment = req[r].payment
  BY <1>3, GotoMoves
<1>4. HoldsBooking(r) => Exists(req[r].booking)
  BY DEF MoneyInv, RowLockInv
<1>5. CASE FindPayment(r)
  <2>1. CASE Goto(r, "writePayment")
    BY <1>1, <1>3, <1>5, <2>1 DEF FindPayment, Forward
  <2>2. CASE \E p \in PaymentsOf(req[r].booking) :
               req' = [req EXCEPT ![r].at = "writePayment", ![r].payment = p]
    <3>1. /\ req'[r].at = "writePayment" /\ req'[r].booking = req[r].booking
          /\ req'[r].payment \in PaymentsOf(req[r].booking)
      BY <2>2 DEF TypeOK, Request
    <3> QED
      BY <1>5, <3>1 DEF FindPayment, Forward
  <2> QED
    BY <1>5, <2>1, <2>2 DEF FindPayment
<1>6. CASE WritePayment(r)
  BY <1>1, <1>2, <1>3, <1>6 DEF WritePayment, Forward
<1>7. CASE ConfirmRow(r)
  BY <1>1, <1>2, <1>3, <1>7 DEF ConfirmRow, Forward
<1>8. CASE FindInvoice(r)
  <2>1. HoldsBooking(r)
    BY <1>8 DEF FindInvoice, HoldsBooking
  <2>2. ASSUME NEW p \in PaymentIds, Commit(r, p), UNCHANGED invoice,
               invoice[req[r].booking] # None
        PROVE  Commits(r, p)
    BY <1>4, <2>1, <2>2 DEF Commits
  <2>3. ASSUME Goto(r, "insertInvoice"), UNCHANGED tables, invoice[req[r].booking] = None
        PROVE  Forward(r)
    BY <1>1, <1>3, <1>8, <2>3 DEF FindInvoice, Forward
  <2> QED
    BY <1>8, <2>2, <2>3 DEF FindInvoice
<1>9. CASE InsertInvoice(r)
  <2>1. HoldsBooking(r)
    BY <1>9 DEF InsertInvoice, HoldsBooking
  <2>2. ASSUME NEW p \in PaymentIds, Commit(r, p), invoice[req[r].booking] = None,
               invoice' = [invoice EXCEPT ![req[r].booking] =
                             [payment |-> p, amount |-> req[r].price]]
        PROVE  Commits(r, p)
    BY <1>4, <2>1, <2>2 DEF Commits
  <2> QED
    BY <1>2, <1>9, <2>2 DEF InsertInvoice
<1> QED
  BY <1>5, <1>6, <1>7, <1>8, <1>9

\* The kinds of step, with what stays put in the other slots.
StepKinds ==
  \/ Still
  \/ Crash
  \/ \E r \in Requests :
       /\ OthersStay(r)
       /\ \/ Quiet(r) \/ Forward(r) \/ DeleteBooking(r)
          \/ \E p \in PaymentIds : Commits(r, p)

\* Every step is of one of the kinds.
LEMMA Kinds ==
  ASSUME TypeOK, MoneyInv, [Next]_vars
  PROVE  StepKinds
<1>1. ASSUME NEW r \in Requests, Begin(r) \/ Step(r) \/ Timeout(r)
      PROVE  StepKinds
  <2>1. OthersStay(r)
    BY <1>1, RequestsMove DEF OthersStay, SlotKept
  <2>2. CASE \/ Begin(r) \/ Timeout(r) \/ FindBooking(r) \/ FindBlock(r) \/ ReadProperty(r)
             \/ InsertBooking(r) \/ WriteUpdate(r) \/ WriteCancel(r) \/ WriteConfirm(r)
             \/ InsertBlock(r) \/ NotifyUser(r) \/ NotifyAdmins(r)
    BY <2>1, <2>2, QuietSteps DEF StepKinds
  <2>3. CASE \/ FindPayment(r) \/ WritePayment(r) \/ ConfirmRow(r)
             \/ FindInvoice(r) \/ InsertInvoice(r)
    <3>1. Quiet(r) \/ Forward(r) \/ \E p \in PaymentIds : Commits(r, p)
      BY <2>3, TransactionSteps
    <3> QED
      BY <2>1, <3>1 DEF StepKinds
  <2>4. CASE DeleteBooking(r)
    BY <2>1, <2>4 DEF StepKinds
  <2> QED
    BY <1>1, <2>2, <2>3, <2>4 DEF Step
<1>2. CASE RemoveBlock \/ UNCHANGED vars
  BY <1>2 DEF RemoveBlock, vars, StepKinds, Still
<1>3. CASE Crash
  BY <1>3 DEF StepKinds
<1>4. CASE ChangeListing
  <2>1. PICK p \in Properties : WroteListing(p)
    BY <1>4 DEF ChangeListing
  <2>2. Still
    BY <1>4, <2>1, OnlyMoved DEF ChangeListing, Still, TypeOK
  <2> QED
    BY <2>2 DEF StepKinds
<1> QED
  BY <1>1, <1>2, <1>3, <1>4 DEF Next

\* Restarting gives back all locks and moves no money.
LEMMA CrashMoney ==
  ASSUME TypeOK, MoneyInv, Crash
  PROVE  MoneyInv'
<1>1. \A r \in Requests : req'[r].at = "idle" /\ req'[r].payment = None
  BY DEF Crash, Idle
<1>2. \A b : PaymentsOf(b)' = PaymentsOf(b) /\ (Paid(b)' <=> Paid(b)) /\ (Exists(b)' <=> Exists(b))
  BY DEF Crash, tables, PaymentsOf, Paid, Exists
<1>3. PaidIffInvoiced'
  BY <1>2 DEF MoneyInv, PaidIffInvoiced, Crash, tables
<1>4. InvoiceSlotFree'
  BY <1>1 DEF InvoiceSlotFree
<1>5. RowLockInv'
  BY <1>1, <1>2 DEF MoneyInv, RowLockInv, HoldsBooking
<1> QED
  BY <1>3, <1>4, <1>5 DEF MoneyInv

\* Steps that touch none of it.
LEMMA StillMoney ==
  ASSUME MoneyInv, Still
  PROVE  MoneyInv'
BY DEF Still, MoneyInv, PaidIffInvoiced, InvoiceSlotFree, RowLockInv, Paid, PaymentsOf, Exists,
       HoldsBooking

\* Every step keeps the invariant of the money.
LEMMA MoneyStep ==
  ASSUME TypeOK, MoneyInv, [Next]_vars
  PROVE  MoneyInv'
<1>1. ASSUME NEW r \in Requests, OthersStay(r), NEW p \in PaymentIds, Commits(r, p)
      PROVE  MoneyInv'
  BY <1>1, CommitMoney
<1>2. ASSUME NEW r \in Requests, OthersStay(r), Forward(r)
      PROVE  MoneyInv'
  BY <1>2, ForwardMoney DEF Forward
<1> QED
  BY <1>1, <1>2, Kinds, QuietMoney, DeleteMoney, CrashMoney, StillMoney DEF StepKinds

\* Every step keeps the types.
LEMMA TypeStep ==
  ASSUME TypeOK, MoneyInv, [Next]_vars
  PROVE  TypeOK'
<1>1. RowHeld
  BY DEF MoneyInv, RowLockInv, RowHeld
<1>2. ASSUME NEW r \in Requests, Begin(r) \/ Step(r) \/ Timeout(r)
      PROVE  TypeOK'
  BY <1>1, <1>2, BeginTyped, ReadTyped, WriteBookingTyped, LastStepsTyped DEF Step
<1>3. CASE UNCHANGED vars
  BY <1>3 DEF vars, TypeOK
<1> QED
  BY <1>2, <1>3, EnvironmentTyped DEF Next

\* A settled booking after one step.
LEMMA SettledStep ==
  ASSUME TypeOK, MoneyInv, [Next]_vars, NEW b \in BookingIds, Paid(b)
  PROVE  Paid(b)' /\ invoice'[b] = invoice[b] /\ Exists(b)'
<1>1. invoice[b] # None /\ Exists(b)
  BY DEF MoneyInv, PaidIffInvoiced, RowLockInv
<1>2. ASSUME UNCHANGED <<payment, invoice>>
      PROVE  Paid(b)' /\ invoice'[b] = invoice[b]
  BY <1>2 DEF Paid, PaymentsOf
<1>3. MoneyInv'
  BY MoneyStep
<1>4. Paid(b)' => Exists(b)'
  BY <1>3 DEF MoneyInv, RowLockInv
<1>5. ASSUME NEW r \in Requests, NEW p \in PaymentIds, Commits(r, p)
      PROVE  Paid(b)' /\ invoice'[b] = invoice[b]
  <2>1. invoice'[b] = invoice[b]
    BY <1>1, <1>5 DEF Commits, TypeOK
  <2> QED
    BY <1>1, <1>3, <2>1 DEF MoneyInv, PaidIffInvoiced
<1>6. ASSUME NEW r \in Requests, Forward(r)
      PROVE  UNCHANGED <<payment, invoice>>
  BY <1>6 DEF Forward, tables
<1> QED
  BY <1>2, <1>4, <1>5, <1>6, Kinds DEF StepKinds, Still, Crash, tables, Quiet, DeleteBooking

\* Only a commit pays for a booking.
LEMMA SettlingStep ==
  ASSUME TypeOK, MoneyInv, [Next]_vars, NEW b \in BookingIds, ~Paid(b), Paid(b)'
  PROVE  \E r \in Requests, p \in PaymentIds :
           Commits(r, p) /\ req[r].booking = b /\ req[r].op = "pay"
<1>1. ~ UNCHANGED payment
  BY DEF Paid, PaymentsOf
<1>2. PICK r \in Requests, p \in PaymentIds : Commits(r, p)
  BY <1>1, Kinds DEF StepKinds, Still, Crash, tables, Quiet, Forward, DeleteBooking
<1>3. req[r].booking = b /\ req[r].op = "pay"
  BY <1>2, CommitPays DEF Paid
<1> QED
  BY <1>2, <1>3

\* It also confirms it and invoices it.
LEMMA SettledAtOnceStep ==
  ASSUME TypeOK, MoneyInv, [Next]_vars, NEW b \in BookingIds, ~Paid(b), Paid(b)'
  PROVE  /\ booking'[b].status = "CONFIRMED"
         /\ \E r \in Requests : /\ req[r].op = "pay" /\ req[r].booking = b
                                /\ invoice'[b].amount = req[r].price
<1>1. PICK r \in Requests, p \in PaymentIds :
        Commits(r, p) /\ req[r].booking = b /\ req[r].op = "pay"
  BY SettlingStep
<1>2. invoice[b] = None
  BY DEF MoneyInv, PaidIffInvoiced
<1>3. invoice' = [invoice EXCEPT ![b] = [payment |-> p, amount |-> req[r].price]]
  BY <1>1, <1>2 DEF Commits
<1>4. invoice'[b].amount = req[r].price
  BY <1>3 DEF TypeOK
<1>5. booking[b] \in BookingRow
  BY <1>1 DEF Commits, Exists, TypeOK
<1>6. booking' = [booking EXCEPT ![b].status = "CONFIRMED"]
  BY <1>1 DEF Commits, Commit
<1>7. booking'[b].status = "CONFIRMED"
  BY <1>5, <1>6 DEF TypeOK, BookingRow
<1> QED
  BY <1>1, <1>4, <1>7

(***************************************************************************)
(* The life of a booking.                                                  *)
(***************************************************************************)
\* A row is there, gone or not yet made, as before.
Kept(c) ==
  /\ booking[c] = None <=> booking'[c] = None
  /\ booking[c] = Gone <=> booking'[c] = Gone

\* A row that is there and is written stays there.
LEMMA WrittenKept ==
  ASSUME TypeOK, NEW b \in BookingIds, Exists(b), NEW row \in BookingRow,
         booking' = [booking EXCEPT ![b] = row]
  PROVE  \A c \in BookingIds : Kept(c)
BY StoreAssumption DEF TypeOK, Exists, Kept

\* The same of its status alone.
LEMMA StatusKept ==
  ASSUME TypeOK, NEW b \in BookingIds, Exists(b), NEW status \in Statuses,
         booking' = [booking EXCEPT ![b].status = status]
  PROVE  \A c \in BookingIds : Kept(c)
<1>1. booking[b] \in BookingRow
  BY DEF TypeOK, Exists
<1>2. [booking[b] EXCEPT !.status = status] \in BookingRow
  BY <1>1 DEF BookingRow
<1>3. booking' = [booking EXCEPT ![b] = [booking[b] EXCEPT !.status = status]]
  BY DEF TypeOK
<1> QED
  BY <1>2, <1>3, WrittenKept

Opened(b) ==
  /\ booking[b] = None /\ Exists(b)'
  /\ \A c \in BookingIds \ {b} : Kept(c)
  /\ UNCHANGED <<payment, invoice>>

Dropped(b) ==
  /\ Exists(b) /\ booking'[b] = Gone /\ ~Paid(b)
  /\ \A c \in BookingIds \ {b} : Kept(c)
  /\ UNCHANGED <<payment, invoice>>

\* A booking's row is made by create, taken away by remove, and kept by all else.
LEMMA Lifecycle ==
  ASSUME TypeOK, MoneyInv, [Next]_vars
  PROVE  \/ \A c \in BookingIds : Kept(c)
         \/ \E b \in BookingIds : Opened(b) \/ Dropped(b)
<1> DEFINE Goal == \/ \A c \in BookingIds : Kept(c)
                   \/ \E b \in BookingIds : Opened(b) \/ Dropped(b)
<1> SUFFICES Goal
  OBVIOUS
<1>1. ASSUME UNCHANGED booking PROVE Goal
  BY <1>1 DEF Kept
<1>2. CASE ChangeListing \/ RemoveBlock \/ Crash \/ UNCHANGED vars
  BY <1>1, <1>2 DEF ChangeListing, RemoveBlock, Crash, tables, vars
<1>3. ASSUME NEW r \in Requests, Begin(r) \/ Step(r) \/ Timeout(r)
      PROVE  Goal
  <2> DEFINE b == req[r].booking
  <2>1. RequestOK(req[r])
    BY DEF TypeOK
  <2>2. CASE Begin(r)
    BY <1>1, <2>2 DEF Begin, BeginCreate, BeginUpdate, BeginCancel, BeginConfirm, BeginRemove,
                      BeginOnBooking, BeginBlock, BeginPay, tables
  <2>3. CASE \/ Timeout(r) \/ FindBooking(r) \/ FindBlock(r) \/ ReadProperty(r)
             \/ InsertBlock(r) \/ NotifyUser(r) \/ NotifyAdmins(r)
             \/ FindPayment(r) \/ WritePayment(r) \/ ConfirmRow(r)
    BY <1>1, <2>3 DEF Timeout, FindBooking, FindBlock, ReadProperty, InsertBlock, NotifyUser,
                      NotifyAdmins, FindPayment, WritePayment, ConfirmRow, tables
  <2>4. CASE InsertBooking(r)
    <3> DEFINE q == req[r]
               row == [property |-> q.property, from |-> q.from, to |-> q.to,
                       tenant |-> TenantOf[q.property], user |-> q.user,
                       status |-> "PENDING", price |-> q.price, guests |-> q.guests]
    <3>1. PICK n \in BookingIds :
            NextKey(n, BookingIds, booking) /\ booking' = [booking EXCEPT ![n] = row]
      BY <2>4 DEF InsertBooking
    <3>2. TypeOK'
      BY <2>4, WriteBookingTyped
    <3>3. booking'[n] = row /\ \A c \in BookingIds \ {n} : booking'[c] = booking[c]
      BY <3>1 DEF TypeOK
    <3>4. q.property \in Properties /\ q.from \in Times /\ q.to \in Times /\ q.user \in Users
      BY <2>1, <2>4 DEF InsertBooking, RequestOK
    <3>5. q.price \in Nat /\ q.guests \in BOOLEAN /\ TenantOf[q.property] \in Tenants
      BY <3>4, StoreAssumption DEF TypeOK, Request
    <3>6. row \in BookingRow
      BY <3>4, <3>5 DEF BookingRow, Statuses
    <3> HIDE DEF row
    <3>7. Opened(n)
      BY <2>4, <3>1, <3>3, <3>6, StoreAssumption DEF InsertBooking, NextKey, Opened, Exists, Kept
    <3> QED
      BY <3>7
  <2>5. CASE WriteUpdate(r)
    <3>1. b \in BookingIds
      BY <2>1, <2>5 DEF WriteUpdate, RequestOK
    <3>2. CASE Exists(b)
      <4>1. Patched(booking[b], req[r]) \in BookingRow
        BY <2>5, <3>2, PatchedTyped DEF WriteUpdate
      <4>2. booking' = [booking EXCEPT ![b] = Patched(booking[b], req[r])]
        BY <2>5, <3>1, <3>2 DEF WriteUpdate, TypeOK
      <4> QED
        BY <3>1, <3>2, <4>1, <4>2, WrittenKept
    <3> QED
      BY <1>1, <2>5, <3>2 DEF WriteUpdate
  <2>6. ASSUME NEW status \in Statuses, NEW n, SetStatus(r, status, n), b \in BookingIds
        PROVE  Goal
    <3>1. CASE Exists(b)
      BY <2>6, <3>1, StatusKept DEF SetStatus
    <3> QED
      BY <1>1, <2>6, <3>1 DEF SetStatus
  <2>7. CASE WriteCancel(r) \/ WriteConfirm(r)
    <3>1. b \in BookingIds
      BY <2>1, <2>7 DEF WriteCancel, WriteConfirm, RequestOK
    <3> QED
      BY <2>6, <2>7, <3>1 DEF WriteCancel, WriteConfirm, Statuses
  <2>8. CASE DeleteBooking(r)
    <3>1. PICK n \in BookingIds : n = b
      BY <2>1, <2>8 DEF DeleteBooking, RequestOK
    <3>2. CASE Exists(n) /\ ~Referenced(n)
      <4>1. booking' = [booking EXCEPT ![n] = Gone] /\ UNCHANGED <<payment, invoice>>
        BY <2>8, <3>1, <3>2 DEF DeleteBooking
      <4>2. Dropped(n)
        BY <3>2, <4>1 DEF Dropped, Kept, Referenced, Paid, TypeOK
      <4> QED
        BY <4>2
    <3> QED
      BY <1>1, <2>8, <3>1, <3>2 DEF DeleteBooking
  <2>9. ASSUME NEW p \in PaymentIds, Commits(r, p) PROVE Goal
    <3>1. PICK n \in BookingIds : n = b
      BY <2>1, <2>9 DEF Commits, HoldsBooking, RequestOK
    <3>2. Exists(n) /\ booking' = [booking EXCEPT ![n].status = "CONFIRMED"]
      BY <2>9, <3>1 DEF Commits, Commit
    <3> QED
      BY <3>2, StatusKept DEF Statuses
  <2>10. CASE FindInvoice(r) \/ InsertInvoice(r)
    <3>1. CASE UNCHANGED booking
      BY <1>1, <3>1
    <3>2. CASE \E p \in PaymentIds : Commit(r, p)
      <4>1. PICK p \in PaymentIds : Commit(r, p)
        BY <3>2
      <4>2. HoldsBooking(r) /\ Exists(b)
        BY <2>10 DEF FindInvoice, InsertInvoice, HoldsBooking, MoneyInv, RowLockInv
      <4>3. PICK n \in BookingIds : n = b
        BY <2>1, <4>2 DEF HoldsBooking, RequestOK
      <4>4. Exists(n) /\ booking' = [booking EXCEPT ![n].status = "CONFIRMED"]
        BY <4>1, <4>2, <4>3 DEF Commit
      <4> QED
        BY <4>4, StatusKept DEF Statuses
    <3> QED
      BY <2>10, <3>1, <3>2 DEF FindInvoice, InsertInvoice, tables
  <2> QED
    BY <1>3, <2>2, <2>3, <2>4, <2>5, <2>7, <2>8, <2>10 DEF Step
<1> QED
  BY <1>2, <1>3 DEF Next

(***************************************************************************)
(* The ledger.                                                             *)
(***************************************************************************)
\* A fresh database is an empty ledger.
LEMMA LedgerStart == Init => Ledger!LedgerInit
<1> SUFFICES ASSUME Init PROVE Ledger!LedgerInit
  OBVIOUS
<1>1. Stage = [b \in BookingIds |-> "new"] /\ Bill = [b \in BookingIds |-> None]
  BY DEF Init, Stage, Bill
<1> QED
  BY <1>1 DEF Ledger!LedgerInit

\* The column of one booking in the ledger.
StageOf(b) == IF booking[b] = None THEN "new"
              ELSE IF booking[b] = Gone THEN "dropped"
              ELSE IF Paid(b) THEN "settled" ELSE "open"
BillOf(b) == IF invoice[b] = None THEN None ELSE invoice[b].amount

\* The mapping, column by column.
LEMMA Columns ==
  /\ Stage = [b \in BookingIds |-> StageOf(b)] /\ Bill = [b \in BookingIds |-> BillOf(b)]
  /\ Stage' = [b \in BookingIds |-> StageOf(b)'] /\ Bill' = [b \in BookingIds |-> BillOf(b)']
BY DEF Stage, Bill, StageOf, BillOf

\* Every step is one of the ledger's, or none.
LEMMA LedgerStep ==
  ASSUME TypeOK, MoneyInv, [Next]_vars
  PROVE  [Ledger!LedgerNext]_(Ledger!ledger)
<1>1. MoneyInv'
  BY MoneyStep
<1>2. ASSUME UNCHANGED <<payment, invoice>>
      PROVE  \A c \in BookingIds : (Paid(c)' <=> Paid(c)) /\ BillOf(c)' = BillOf(c)
  BY <1>2 DEF Paid, PaymentsOf, BillOf
<1>3. ASSUME NEW c \in BookingIds, Kept(c), Paid(c)' <=> Paid(c)
      PROVE  StageOf(c)' = StageOf(c)
  BY <1>3 DEF Kept, StageOf
<1>4. ASSUME NEW b \in BookingIds, Opened(b) PROVE Ledger!Open(b)
  <2>1. StageOf(b) = "new"
    BY <1>4 DEF Opened, StageOf
  <2>2. ~Paid(b)
    BY <1>4 DEF Opened, MoneyInv, RowLockInv, Exists
  <2>3. StageOf(b)' = "open"
    BY <1>2, <1>4, <2>2 DEF Opened, StageOf, Exists
  <2>4. \A c \in BookingIds \ {b} : StageOf(c)' = StageOf(c)
    BY <1>2, <1>3, <1>4 DEF Opened
  <2>5. \A c \in BookingIds : BillOf(c)' = BillOf(c)
    BY <1>2, <1>4 DEF Opened
  <2>6. Stage[b] = "new" /\ Stage' = [Stage EXCEPT ![b] = "open"] /\ Bill' = Bill
    BY <2>1, <2>3, <2>4, <2>5, Columns
  <2> QED
    BY <2>6 DEF Ledger!Open, Ledger!Move
<1>5. ASSUME NEW b \in BookingIds, Dropped(b) PROVE Ledger!Drop(b)
  <2>1. StageOf(b) = "open" /\ StageOf(b)' = "dropped"
    BY <1>5, StoreAssumption DEF Dropped, StageOf, Exists
  <2>2. \A c \in BookingIds \ {b} : StageOf(c)' = StageOf(c)
    BY <1>2, <1>3, <1>5 DEF Dropped
  <2>3. \A c \in BookingIds : BillOf(c)' = BillOf(c)
    BY <1>2, <1>5 DEF Dropped
  <2>4. Stage[b] = "open" /\ Stage' = [Stage EXCEPT ![b] = "dropped"] /\ Bill' = Bill
    BY <2>1, <2>2, <2>3, Columns
  <2> QED
    BY <2>4 DEF Ledger!Drop, Ledger!Move
<1>6. ASSUME NEW r \in Requests, NEW p \in PaymentIds, Commits(r, p),
             \A c \in BookingIds : Kept(c)
      PROVE  [Ledger!LedgerNext]_(Ledger!ledger)
  <2>1. PICK b \in BookingIds :
          /\ b = req[r].booking
          /\ PaymentsOf(b)' = PaymentsOf(b) \cup {p}
          /\ \A c \in BookingIds \ {b} : PaymentsOf(c)' = PaymentsOf(c)
    BY <1>6, CommitPays
  <2>2. \A c \in BookingIds \ {b} : StageOf(c)' = StageOf(c)
    BY <1>3, <1>6, <2>1 DEF Paid
  <2>3. \A c \in BookingIds \ {b} : BillOf(c)' = BillOf(c)
    BY <1>6, <2>1 DEF Commits, BillOf, TypeOK
  <2>4. Exists(b) /\ Paid(b)'
    BY <1>6, <2>1 DEF Commits, Paid
  <2>5. CASE Paid(b)
    <3>1. StageOf(b)' = StageOf(b)
      BY <1>3, <1>6, <2>4, <2>5
    <3>2. BillOf(b)' = BillOf(b)
      BY <2>5, SettledStep DEF BillOf
    <3>3. Stage' = Stage /\ Bill' = Bill
      BY <2>2, <2>3, <3>1, <3>2, Columns
    <3> QED
      BY <3>3 DEF Ledger!ledger
  <2>6. CASE ~Paid(b)
    <3>1. StageOf(b) = "open" /\ StageOf(b)' = "settled"
      BY <1>6, <2>4, <2>6 DEF Kept, StageOf, Exists
    <3>2. BillOf(b)' \in Nat
      <4>1. invoice[b] = None
        BY <2>6 DEF MoneyInv, PaidIffInvoiced
      <4>2. invoice' = [invoice EXCEPT ![b] = [payment |-> p, amount |-> req[r].price]]
        BY <1>6, <2>1, <4>1 DEF Commits
      <4>3. invoice'[b] # None
        BY <1>1, <2>4 DEF MoneyInv, PaidIffInvoiced
      <4>4. invoice'[b].amount = req[r].price /\ req[r].price \in Nat
        BY <4>2 DEF TypeOK, Request
      <4> QED
        BY <4>3, <4>4 DEF BillOf
    <3>3. /\ Stage[b] = "open" /\ Stage' = [Stage EXCEPT ![b] = "settled"]
          /\ Bill'[b] \in Nat /\ Bill' = [Bill EXCEPT ![b] = Bill'[b]]
      BY <2>2, <2>3, <3>1, <3>2, Columns
    <3>4. Ledger!Settle(b)
      BY <3>3 DEF Ledger!Settle, Ledger!Move
    <3> QED
      BY <3>4 DEF Ledger!LedgerNext
  <2> QED
    BY <2>5, <2>6
<1>7. ASSUME UNCHANGED <<payment, invoice>>, \A c \in BookingIds : Kept(c)
      PROVE  [Ledger!LedgerNext]_(Ledger!ledger)
  <2>1. Stage' = Stage /\ Bill' = Bill
    BY <1>2, <1>3, <1>7, Columns
  <2> QED
    BY <2>1 DEF Ledger!ledger
<1>8. CASE \A c \in BookingIds : Kept(c)
  BY <1>6, <1>7, <1>8, Kinds DEF StepKinds, Still, Crash, tables, Quiet, Forward, DeleteBooking
<1>9. CASE \E b \in BookingIds : Opened(b) \/ Dropped(b)
  BY <1>4, <1>5, <1>9 DEF Ledger!LedgerNext
<1> QED
  BY <1>8, <1>9, Lifecycle

(***************************************************************************)
(* The theorems.                                                           *)
(***************************************************************************)
\* The types and the invariant of the money hold together: that a transaction
\* writes into a row that is there is a matter of locks, and what the locks are
\* held on a matter of types.
THEOREM Inductive == Spec => [](TypeOK /\ MoneyInv)
<1>1. Init => TypeOK /\ MoneyInv
  BY InitTyped, InitMoney
<1>2. TypeOK /\ MoneyInv /\ [Next]_vars => (TypeOK /\ MoneyInv)'
  BY TypeStep, MoneyStep
<1> QED
  BY <1>1, <1>2, PTL DEF Spec

\* Every table holds rows of its type, and every handler what its position needs.
THEOREM TypeCorrect == Spec => []TypeOK
BY Inductive, PTL

\* Payment and invoice of a booking come together, or not at all: payBooking's
\* transaction, however many run, time out or die.
THEOREM PaymentsInvoiced == Spec => []PaidIffInvoiced
<1>1. MoneyInv => PaidIffInvoiced
  BY DEF MoneyInv
<1> QED
  BY <1>1, Inductive, PTL

\* One transaction at a time holds a booking's row, the row is there, and so no
\* payment ever fails on the unique bookingId of its invoice.
THEOREM TransactionsHold == Spec => []TransactionInv
<1>1. MoneyInv => TransactionInv
  BY DEF MoneyInv, TransactionInv
<1> QED
  BY <1>1, Inductive, PTL

\* What is settled stays: no cancel, remove, update, payment or crash takes a
\* payment or an invoice back, changes it, or deletes its booking.
THEOREM SettledForGood == Spec => SettledStays
<1>1. TypeOK /\ MoneyInv /\ [Next]_vars =>
        [\A b \in BookingIds :
           Paid(b) => Paid(b)' /\ invoice'[b] = invoice[b] /\ Exists(b)']_vars
  BY SettledStep
<1> QED
  BY <1>1, Inductive, PTL DEF Spec, SettledStays

\* The first payment, the confirmation and the invoice of a booking are one
\* step, and the invoice is for the price the payer's request read.
THEOREM SettlesAtOnce == Spec => SettledAtOnce
<1>1. TypeOK /\ MoneyInv /\ [Next]_vars =>
        [\A b \in BookingIds :
           ~Paid(b) /\ Paid(b)' =>
             /\ booking'[b].status = "CONFIRMED"
             /\ \E r \in Requests : /\ req[r].op = "pay" /\ req[r].booking = b
                                    /\ invoice'[b].amount = req[r].price]_vars
  BY SettledAtOnceStep
<1> QED
  BY <1>1, Inductive, PTL DEF Spec, SettledAtOnce

\* The booking core implements the ledger.
THEOREM CoreImplementsLedger == Spec => ImplementsLedger
<1>1. Init => Ledger!LedgerInit
  BY LedgerStart
<1>2. TypeOK /\ MoneyInv /\ [Next]_vars => [Ledger!LedgerNext]_(Ledger!ledger)
  BY LedgerStep
<1> QED
  BY <1>1, <1>2, Inductive, PTL DEF Spec, ImplementsLedger, Ledger!LedgerSpec

(***************************************************************************)
(* Confirmed bookings, when nobody confirms by hand.                       *)
(***************************************************************************)
\* A request that will not confirm a booking except by paying for it.
Plain(q) == q.op # "confirm" /\ q.status \in Patches \cup {None}

\* Each step leaves every request plain.
LEMMA PlainStep ==
  ASSUME TypeOK, "confirm" \notin Ops, [Next]_vars, \A s \in Requests : Plain(req[s])
  PROVE  \A s \in Requests : Plain(req'[s])
<1>0. /\ req \in [Requests -> Request]
      /\ None # "confirm" /\ Plain(Idle)
  BY NoneIsNoOp DEF TypeOK, AllOps, Plain, Idle
<1> DEFINE Goal == \A s \in Requests : Plain(req'[s])
<1> SUFFICES Goal
  OBVIOUS
<1>1. ASSUME NEW r \in Requests, NEW n, Plain(n), req' = [req EXCEPT ![r] = n]
      PROVE  Goal
  BY <1>0, <1>1
<1>2. ASSUME NEW r \in Requests, NEW at, Goto(r, at)
      PROVE  Goal
  BY <1>0, <1>2 DEF Goto, Plain, Request
<1>3. ASSUME NEW r \in Requests, Finish(r)
      PROVE  Goal
  BY <1>0, <1>1, <1>3 DEF Finish
<1>4. ASSUME NEW r \in Requests, NEW b \in BookingIds, NEW n, Plain(n), WroteBooking(r, b, n)
      PROVE  Goal
  BY <1>0, <1>4 DEF WroteBooking, Plain, Request
<1>5. ASSUME NEW r \in Requests, NEW k \in BlockIds, WroteBlock(r, k)
      PROVE  Goal
  BY <1>0, <1>5 DEF WroteBlock, Plain, Request
<1>6. ASSUME NEW r \in Requests, Begin(r)
      PROVE  Goal
  <2>1. CASE BeginCreate(r)
    <3>1. PICK u \in Users, p \in Properties, from, to \in Times, g \in GuestLists :
            /\ from < to
            /\ listing[p].status = "ACTIVE"
            /\ req' = [req EXCEPT ![r] = CreateRequest(u, p, from, to, g)]
      BY <2>1 DEF BeginCreate
    <3>2. Plain(CreateRequest(u, p, from, to, g))
      BY DEF CreateRequest, Plain, Idle
    <3> QED
      BY <1>1, <3>1, <3>2
  <2>2. CASE BeginUpdate(r)
    <3>1. PICK u, w \in Users, b \in BookingIds, p \in Properties,
               from, to \in Times, s \in Patches :
            /\ MaySee(u, b)
            /\ from < to
            /\ w # booking[b].user =>
                 \/ Role[u] = "SUPER_ADMIN"
                 \/ Role[u] = "TENANT_ADMIN" /\ TenantOfUser[w] = TenantOfUser[u]
            /\ req' = [req EXCEPT ![r] = UpdateRequest(u, w, b, p, from, to, s)]
      BY <2>2 DEF BeginUpdate
    <3>2. Plain(UpdateRequest(u, w, b, p, from, to, s))
      BY DEF UpdateRequest, Plain, Idle
    <3> QED
      BY <1>1, <3>1, <3>2
  <2>3. CASE BeginCancel(r) \/ BeginConfirm(r) \/ BeginRemove(r)
    <3>1. PICK op \in {"cancel", "remove"} : BeginOnBooking(r, op)
      BY <2>3 DEF BeginCancel, BeginConfirm, BeginRemove, BeginOnBooking
    <3>2. PICK u \in Users, b \in BookingIds :
            req' = [req EXCEPT ![r] = [Idle EXCEPT !.op = op, !.at = "write",
                                                   !.actor = u, !.booking = b]]
      BY <3>1 DEF BeginOnBooking
    <3>3. Plain([Idle EXCEPT !.op = op, !.at = "write", !.actor = u, !.booking = b])
      BY DEF Plain, Idle
    <3> QED
      BY <1>1, <3>2, <3>3
  <2>4. CASE BeginBlock(r)
    <3>1. PICK u \in Users, p \in Properties, from \in Times, to \in Times :
            req' = [req EXCEPT ![r] = [Idle EXCEPT !.op = "block", !.at = "findBlock",
                      !.actor = u, !.property = p, !.from = from, !.to = to]]
      BY <2>4 DEF BeginBlock
    <3>2. Plain([Idle EXCEPT !.op = "block", !.at = "findBlock",
                   !.actor = u, !.property = p, !.from = from, !.to = to])
      BY DEF Plain, Idle
    <3> QED
      BY <1>1, <3>1, <3>2
  <2>5. CASE BeginPay(r)
    <3>1. PICK b \in BookingIds :
            req' = [req EXCEPT ![r] = [Idle EXCEPT !.op = "pay", !.at = "findPayment",
                      !.actor = booking[b].user, !.booking = b, !.price = booking[b].price]]
      BY <2>5 DEF BeginPay
    <3>2. Plain([Idle EXCEPT !.op = "pay", !.at = "findPayment",
                   !.actor = booking[b].user, !.booking = b, !.price = booking[b].price])
      BY DEF Plain, Idle
    <3> QED
      BY <1>1, <3>1, <3>2
  <2> QED
    BY <1>6, <2>1, <2>2, <2>3, <2>4, <2>5 DEF Begin
<1>7. ASSUME NEW r \in Requests, Step(r) \/ Timeout(r)
      PROVE  Goal
  <2>1. CASE \/ Timeout(r) \/ FindBooking(r) \/ FindBlock(r) \/ WritePayment(r)
             \/ ConfirmRow(r) \/ NotifyUser(r) \/ NotifyAdmins(r)
    BY <1>2, <1>3, <2>1 DEF Timeout, FindBooking, FindBlock, WritePayment, ConfirmRow,
                            NotifyUser, NotifyAdmins
  <2>2. CASE ReadProperty(r)
    BY <1>0, <1>3, <2>2 DEF ReadProperty, Plain, Request
  <2>3. CASE FindPayment(r)
    BY <1>0, <1>2, <2>3 DEF FindPayment, Plain, Request
  <2>4. ASSUME NEW op \in {"create", "cancel", "pay"}, NEW b
        PROVE  Plain([Idle EXCEPT !.op = op, !.at = "notifyUser", !.booking = b])
    BY DEF Plain, Idle
  <2>5. CASE InsertBooking(r)
    <3>1. PICK b \in BookingIds :
            WroteBooking(r, b, [Idle EXCEPT !.op = "create", !.at = "notifyUser", !.booking = b])
      BY <2>5 DEF InsertBooking
    <3> QED
      BY <1>4, <2>4, <3>1
  <2>6. CASE WriteUpdate(r) \/ WriteConfirm(r) \/ DeleteBooking(r)
    <3>1. Finish(r) \/ WroteBooking(r, req[r].booking, Idle)
      BY <2>6 DEF WriteUpdate, WriteConfirm, SetStatus, DeleteBooking
    <3>2. req[r].booking \in BookingIds
      BY <2>6 DEF WriteUpdate, WriteConfirm, DeleteBooking, TypeOK, RequestOK
    <3> QED
      BY <1>0, <1>3, <1>4, <3>1, <3>2
  <2>7. CASE WriteCancel(r)
    <3>1. \/ Finish(r)
          \/ WroteBooking(r, req[r].booking,
               [Idle EXCEPT !.op = "cancel", !.at = "notifyUser", !.booking = req[r].booking])
      BY <2>7 DEF WriteCancel, SetStatus
    <3>2. req[r].booking \in BookingIds
      BY <2>7 DEF WriteCancel, TypeOK, RequestOK
    <3> QED
      BY <1>3, <1>4, <2>4, <3>1, <3>2
  <2>8. CASE FindInvoice(r) \/ InsertInvoice(r)
    <3>1. \/ Finish(r)
          \/ \E at : Goto(r, at)
          \/ WroteBooking(r, req[r].booking,
               [Idle EXCEPT !.op = "pay", !.at = "notifyUser", !.booking = req[r].booking])
      BY <2>8 DEF FindInvoice, InsertInvoice, Commit
    <3>2. req[r].booking \in BookingIds
      BY <2>8 DEF FindInvoice, InsertInvoice, TypeOK, RequestOK
    <3> QED
      BY <1>2, <1>3, <1>4, <2>4, <3>1, <3>2
  <2>9. CASE InsertBlock(r)
    BY <1>5, <2>9 DEF InsertBlock
  <2> QED
    BY <1>7, <2>1, <2>2, <2>3, <2>5, <2>6, <2>7, <2>8, <2>9 DEF Step
<1>8. CASE RemoveBlock \/ UNCHANGED vars
  BY <1>8 DEF RemoveBlock, vars
<1>9. CASE Crash
  BY <1>0, <1>9 DEF Crash
<1>10. CASE ChangeListing
  BY <1>0, <1>10, OnlyMoved DEF ChangeListing, Plain
<1> QED
  BY <1>6, <1>7, <1>8, <1>9, <1>10 DEF Next

\* A booking that a plain request leaves confirmed was so before, or is paid for.
LEMMA ConfirmedStep ==
  ASSUME TypeOK, MoneyInv, "CONFIRMED" \notin Patches, [Next]_vars,
         \A s \in Requests : Plain(req[s]),
         NEW b \in BookingIds, Exists(b)', booking'[b].status = "CONFIRMED"
  PROVE  (Exists(b) /\ booking[b].status = "CONFIRMED") \/ Paid(b)'
<1> DEFINE Goal == (Exists(b) /\ booking[b].status = "CONFIRMED") \/ Paid(b)'
<1> SUFFICES Goal
  OBVIOUS
<1>1. ASSUME booking'[b] = booking[b] PROVE Goal
  BY <1>1 DEF Exists
<1>2. CASE ChangeListing \/ RemoveBlock \/ Crash \/ UNCHANGED vars
  BY <1>1, <1>2 DEF ChangeListing, RemoveBlock, Crash, tables, vars
<1>3. ASSUME NEW r \in Requests, Begin(r) \/ Step(r) \/ Timeout(r)
      PROVE  Goal
  <2>1. CASE Begin(r)
    BY <1>1, <2>1 DEF Begin, BeginCreate, BeginUpdate, BeginCancel, BeginConfirm, BeginRemove,
                      BeginOnBooking, BeginBlock, BeginPay, tables
  <2>2. CASE \/ Timeout(r) \/ FindBooking(r) \/ FindBlock(r) \/ ReadProperty(r)
             \/ InsertBlock(r) \/ NotifyUser(r) \/ NotifyAdmins(r)
             \/ FindPayment(r) \/ WritePayment(r) \/ ConfirmRow(r)
    BY <1>1, <2>2 DEF Timeout, FindBooking, FindBlock, ReadProperty, InsertBlock, NotifyUser,
                      NotifyAdmins, FindPayment, WritePayment, ConfirmRow, tables
  <2>3. CASE InsertBooking(r)
    <3>1. PICK n \in BookingIds :
            booking' = [booking EXCEPT ![n] =
              [property |-> req[r].property, from |-> req[r].from, to |-> req[r].to,
               tenant |-> TenantOf[req[r].property], user |-> req[r].user,
               status |-> "PENDING", price |-> req[r].price, guests |-> req[r].guests]]
      BY <2>3 DEF InsertBooking
    <3>2. b # n
      BY <3>1 DEF TypeOK
    <3> QED
      BY <1>1, <3>1, <3>2 DEF TypeOK
  <2>4. CASE WriteUpdate(r)
    <3> DEFINE c == req[r].booking
    <3>1. c \in BookingIds
      BY <2>4 DEF WriteUpdate, TypeOK, RequestOK
    <3>2. CASE b = c /\ Exists(c)
      <4>1. booking'[b] = Patched(booking[b], req[r])
        BY <2>4, <3>1, <3>2 DEF WriteUpdate, TypeOK
      <4>2. booking'[b].status = booking[b].status
        BY <4>1 DEF Patched, Plain
      <4> QED
        BY <3>2, <4>2
    <3> QED
      BY <1>1, <2>4, <3>1, <3>2 DEF WriteUpdate, TypeOK
  <2>5. CASE WriteCancel(r)
    <3>1. req[r].booking \in BookingIds
      BY <2>5 DEF WriteCancel, TypeOK, RequestOK
    <3>2. ASSUME Exists(b), b = req[r].booking PROVE booking'[b].status = "CANCELLED"
      BY <2>5, <3>1, <3>2 DEF WriteCancel, SetStatus, TypeOK, Exists, BookingRow
    <3> QED
      BY <1>1, <2>5, <3>1, <3>2 DEF WriteCancel, SetStatus, TypeOK
  <2>6. CASE DeleteBooking(r)
    BY <1>1, <2>6 DEF DeleteBooking, TypeOK, Exists
  <2>7. ~WriteConfirm(r)
    BY DEF WriteConfirm, Plain
  <2>8. CASE FindInvoice(r) \/ InsertInvoice(r)
    <3>1. UNCHANGED booking \/ \E p \in PaymentIds : Commits(r, p)
      <4>1. HoldsBooking(r) /\ Exists(req[r].booking)
        BY <2>8 DEF FindInvoice, InsertInvoice, HoldsBooking, MoneyInv, RowLockInv
      <4> QED
        BY <2>8, <4>1 DEF FindInvoice, InsertInvoice, Commits, tables
    <3>2. ASSUME NEW p \in PaymentIds, Commits(r, p) PROVE Goal
      <4>1. PICK c \in BookingIds : c = req[r].booking /\ PaymentsOf(c)' = PaymentsOf(c) \cup {p}
        BY <3>2, CommitPays
      <4>2. b # c => booking'[b] = booking[b]
        BY <3>2, <4>1 DEF Commits, Commit, TypeOK
      <4> QED
        BY <1>1, <4>1, <4>2 DEF Paid
    <3> QED
      BY <1>1, <3>1, <3>2
  <2> QED
    BY <1>3, <2>1, <2>2, <2>3, <2>4, <2>5, <2>6, <2>7, <2>8 DEF Step
<1> QED
  BY <1>2, <1>3 DEF Next

\* As long as no client confirms by hand, every confirmed booking is paid for:
\* payBooking confirms and pays in one commit, and nothing takes a payment back.
THEOREM ConfirmedArePaid ==
  ASSUME "confirm" \notin Ops, "CONFIRMED" \notin Patches
  PROVE  Spec => []ConfirmedIsPaid
<1> DEFINE AllPlain == \A s \in Requests : Plain(req[s])
<1>1. Init => AllPlain /\ ConfirmedIsPaid
  BY NoneIsNoOp DEF Init, Plain, Idle, AllOps, ConfirmedIsPaid, Exists
<1>2. TypeOK /\ MoneyInv /\ AllPlain /\ ConfirmedIsPaid /\ [Next]_vars
      => AllPlain' /\ ConfirmedIsPaid'
  BY PlainStep, ConfirmedStep, SettledStep DEF ConfirmedIsPaid
<1> QED
  BY <1>1, <1>2, Inductive, PTL DEF Spec
=============================================================================
