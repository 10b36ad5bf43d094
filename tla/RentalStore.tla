---------------------------- MODULE RentalStore ----------------------------
(***************************************************************************)
(* The PostgreSQL tables the booking, availability and payment services    *)
(* share, and the requests in flight over them.  Every awaited Prisma call *)
(* is one SQL statement and hence one step; the handlers interleave        *)
(* between their awaits.  A handler is a request slot: what it has read    *)
(* and will write is in its record, its position in the code is "at".      *)
(***************************************************************************)
EXTENDS Integers, FiniteSets

CONSTANTS
  Users, Tenants, Properties,
  BookingIds, PaymentIds, BlockIds,  \* primary keys; bounds on the rows ever made
  Requests,       \* request slots: how many handlers run at a time
  Times,          \* instants a stay may start or end at
  DayLength,      \* instants per day
  Rates,          \* nightly prices
  GuestLists,     \* does a new booking name guests: a subset of BOOLEAN
  Patches,        \* the status in an update's body, None when left out
  Role,           \* Users -> role
  TenantOfUser,   \* Users -> tenant, None for an account outside every tenant
  TenantOf,       \* Properties -> tenant: never changes, see Listings
  Ops,            \* the operations clients use in an instance
  None,           \* SQL NULL, a row never made, an unused field
  Gone            \* a deleted row: its key is not given out again

Statuses == {"PENDING", "CONFIRMED", "CANCELLED"}
Roles == {"USER", "TENANT_ADMIN", "SUPER_ADMIN"}
AllOps == {"create", "update", "cancel", "confirm", "remove", "pay",
           "block", "unblock", "listing", "timeout", "crash"}

BlockRow == [property : Properties, from : Times, to : Times]
BookingRow == [property : Properties, from : Times, to : Times,
               tenant : Tenants, user : Users, status : Statuses,
               price : Nat, guests : BOOLEAN]
PaymentRow == [booking : BookingIds, amount : Nat]
InvoiceRow == [payment : PaymentIds, amount : Nat]

\* Positions in the handlers, named for the statement that comes next.
Steps == {"idle", "readProperty", "findBooking", "findBlock", "write",
          "notifyUser", "notifyAdmins",
          "findPayment", "writePayment", "confirmRow", "findInvoice",
          "insertInvoice"}

Request == [op : AllOps \cup {None}, at : Steps, actor : Users \cup {None},
            booking : BookingIds \cup {None}, property : Properties \cup {None},
            from : Times \cup {None}, to : Times \cup {None},
            status : Statuses \cup {None}, user : Users \cup {None},
            price : Nat, guests : BOOLEAN, payment : PaymentIds \cup {None},
            stale : SUBSET BookingIds, staleBlocks : SUBSET BlockIds,
            moved : BOOLEAN]

Idle == [op |-> None, at |-> "idle", actor |-> None, booking |-> None,
         property |-> None, from |-> None, to |-> None, status |-> None,
         user |-> None, price |-> 0, guests |-> FALSE,
         payment |-> None, stale |-> {}, staleBlocks |-> {}, moved |-> FALSE]

\* What a request holds at each position.
RequestOK(q) ==
  /\ q.at # "idle" => q.op # None
  /\ q.op \in {"update", "cancel", "confirm", "remove", "pay"} => q.booking \in BookingIds
  /\ q.at \in {"notifyUser", "notifyAdmins"} =>
       q.op \in {"create", "cancel", "pay"} /\ q.booking \in BookingIds
  /\ q.at \in {"findPayment", "writePayment", "confirmRow", "findInvoice",
              "insertInvoice"} => q.op = "pay"
  /\ q.at = "readProperty" => q.op = "update"
  /\ q.at = "findBooking" => q.op \in {"create", "update"}
  /\ q.at = "findBlock" => q.op \in {"create", "update", "block"}
  /\ q.at = "write" => q.op \in {"create", "update", "block", "cancel", "confirm", "remove"}
  /\ q.op \in {"create", "update", "block"} /\ q.at \notin {"notifyUser", "notifyAdmins"} =>
       /\ q.property \in Properties
       /\ q.from \in Times /\ q.to \in Times /\ q.from < q.to
  /\ q.op \in {"create", "update"} /\ q.at \notin {"notifyUser", "notifyAdmins"} =>
       q.actor \in Users /\ q.user \in Users

ASSUME StoreAssumption ==
  /\ BookingIds \subseteq Nat /\ PaymentIds \subseteq Nat /\ BlockIds \subseteq Nat
  /\ Times \subseteq Nat /\ Rates \subseteq Nat /\ DayLength \in Nat \ {0}
  /\ GuestLists \subseteq BOOLEAN /\ Patches \subseteq Statuses \cup {None}
  /\ Ops \subseteq AllOps
  /\ Role \in [Users -> Roles]
  /\ TenantOfUser \in [Users -> Tenants \cup {None}]
  /\ TenantOf \in [Properties -> Tenants]
  /\ None \notin AllOps
  /\ None \notin BookingIds \cup PaymentIds \cup BlockIds \cup Properties
  /\ None \notin BookingRow /\ Gone \notin BookingRow /\ Gone # None
  /\ None \notin PaymentRow /\ None \notin InvoiceRow
  /\ None \notin BlockRow /\ Gone \notin BlockRow

VARIABLES
  listing,   \* Property rows: status and nightly price
  booking,   \* Booking rows
  block,     \* Availability rows
  payment,   \* Payment rows; every one ever written has status PAID
  invoice,   \* Invoice rows by bookingId, which is unique
  notice,    \* Notification rows that refer to a booking
  req        \* the request slots

vars == <<listing, booking, block, payment, invoice, notice, req>>
tables == <<listing, booking, block, payment, invoice, notice>>

(***************************************************************************)
(* Rows and queries.                                                       *)
(***************************************************************************)
Exists(b) == booking[b] \notin {None, Gone}
Active(b) == Exists(b) /\ booking[b].status # "CANCELLED"
Blocks(k) == block[k] \notin {None, Gone}

\* The three range conditions of every availability query: same property,
\* startDate < other end, endDate > other start.
Clash(x, y) ==
  /\ x.property = y.property
  /\ x.from < y.to
  /\ x.to > y.from

PaymentsOf(b) == {p \in PaymentIds : payment[p] # None /\ payment[p].booking = b}

\* k is the next key of the table's sequence: the least one never given out.
NextKey(k, ids, table) == table[k] = None /\ \A j \in ids : table[j] = None => k <= j

\* A bug: end and start the wrong way round.
NightsSwapped(from, to) == (from - to + DayLength - 1) \div DayLength

\* Math.ceil of the stay's length in days.
Nights(from, to) == (to - from + DayLength - 1) \div DayLength

\* verifyTenantBooking: SUPER_ADMIN any booking, USER their own, TENANT_ADMIN
\* those of the tenant.
MaySee(u, b) ==
  /\ Exists(b)
  /\ \/ Role[u] = "SUPER_ADMIN"
     \/ Role[u] = "USER" /\ booking[b].user = u
     \/ Role[u] = "TENANT_ADMIN" /\ booking[b].tenant = TenantOfUser[u]

\* RolesGuard, TenantGuard and verifyTenantProperty: SUPER_ADMIN, or a
\* TENANT_ADMIN of the property's tenant.
MayManage(u, p) ==
  \/ Role[u] = "SUPER_ADMIN"
  \/ Role[u] = "TENANT_ADMIN" /\ TenantOfUser[u] = TenantOf[p]

(***************************************************************************)
(* Row locks of the payment transaction.  The database writes of the       *)
(* transaction are invisible until it commits; what others can feel are    *)
(* its locks, and those follow from how far it has got.                    *)
(***************************************************************************)
HoldsPayment(r) == req[r].at \in {"confirmRow", "findInvoice", "insertInvoice"}

\* A bug: the invoice is looked up before booking.update takes the row lock.
HoldsBookingLate(r) == req[r].at = "insertInvoice"
HoldsBooking(r) == req[r].at \in {"findInvoice", "insertInvoice"}

\* The exclusive lock of UPDATE: a second writer of the row waits.
RowLocked(b) == \E r \in Requests : HoldsBooking(r) /\ req[r].booking = b

\* The share lock the foreign key of a new payment takes: only DELETE waits.
KeyShared(b) == \E r \in Requests : HoldsPayment(r) /\ req[r].booking = b
                                    /\ req[r].payment = None

PaymentLocked(p) == \E r \in Requests : HoldsPayment(r) /\ req[r].payment = p

(***************************************************************************)
(* Moving a request on.  "stale", "staleBlocks" and "moved" are history:   *)
(* the bookings and blocks written since the request's own overlap queries *)
(* or, in a payment, since its first read, which therefore have not seen   *)
(* them; and whether the listing was written since the request read it.    *)
(* They record what happened and guard nothing.                            *)
(***************************************************************************)
Goto(r, step) == req' = [req EXCEPT ![r].at = step]
Finish(r) == req' = [req EXCEPT ![r] = Idle]

SawBookings(q) == q.at \in {"findBlock", "write"} /\ q.op \in {"create", "update", "block"}
Paying(q) == q.at \in {"findPayment", "writePayment", "confirmRow", "findInvoice",
                      "insertInvoice"}
SawListing(q) == q.at \in {"findBooking", "findBlock", "write"} /\ q.op \in {"create", "update"}
SawBlocks(q) == q.at = "write" /\ q.op \in {"create", "update", "block"}

\* Request r wrote booking b and goes on as next.
WroteBooking(r, b, next) ==
  req' = [q \in Requests |->
            IF q = r THEN next
            ELSE IF SawBookings(req[q]) \/ Paying(req[q]) THEN [req[q] EXCEPT !.stale = @ \cup {b}]
            ELSE req[q]]

WroteBlock(r, k) ==
  req' = [q \in Requests |->
            IF q = r THEN Idle
            ELSE IF SawBlocks(req[q]) THEN [req[q] EXCEPT !.staleBlocks = @ \cup {k}]
            ELSE req[q]]

WroteListing(p) ==
  req' = [q \in Requests |->
            IF SawListing(req[q]) /\ req[q].property = p
            THEN [req[q] EXCEPT !.moved = TRUE] ELSE req[q]]

Init ==
  /\ listing \in [Properties -> {[status |-> "ACTIVE", rate |-> x] : x \in Rates}]
  /\ booking = [b \in BookingIds |-> None]
  /\ block = [k \in BlockIds |-> None]
  /\ payment = [p \in PaymentIds |-> None]
  /\ invoice = [b \in BookingIds |-> None]
  /\ notice = {}
  /\ req = [r \in Requests |-> Idle]
=============================================================================
