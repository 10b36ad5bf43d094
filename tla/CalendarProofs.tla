--------------------------- MODULE CalendarProofs ---------------------------
(***************************************************************************)
(* Theorems about the calendar of Rentals: what the queries of create,      *)
(* update and addAvailability establish, and that only a race past them or  *)
(* the revival of a cancelled booking makes rows overlap.                   *)
(***************************************************************************)
EXTENDS RentalsProofs

(***************************************************************************)
(* The kinds of step, for the calendar.                                     *)
(***************************************************************************)
\* Slot q is where it was, with what it looks for and what it has missed.
SlotStays(q) ==
  /\ req'[q].at = req[q].at /\ req'[q].op = req[q].op
  /\ req'[q].booking = req[q].booking /\ req'[q].property = req[q].property
  /\ req'[q].from = req[q].from /\ req'[q].to = req[q].to
  /\ req'[q].stale = req[q].stale /\ req'[q].staleBlocks = req[q].staleBlocks

\* Slot q stays, leaves its queries behind, or has just run one of them.
SlotCalm(q) ==
  /\ req'[q].stale \subseteq req[q].stale
  /\ req'[q].staleBlocks \subseteq req[q].staleBlocks
  /\ req'[q].op \in Ops \cup {None, req[q].op}
  /\ \/ SlotStays(q)
     \/ ~SawBookings(req'[q]) /\ ~SawBlocks(req'[q])
     \/ /\ req[q].at = "findBooking" /\ ~OverlapFound(req[q])
        /\ req'[q] = [req[q] EXCEPT !.at = "findBlock"]
     \/ /\ req'[q].at = "findBlock" /\ req'[q].op = "block"
        /\ \A b \in BookingIds : ~(Active(b) /\ Clash(booking[b], req'[q]))
     \/ /\ req[q].at = "findBlock" /\ ~BlockFound(req[q])
        /\ req'[q] = [req[q] EXCEPT !.at = "write"]

Calm == booking' = booking /\ block' = block /\ \A q \in Requests : SlotCalm(q)

\* The slot a writer goes on with has no queries behind it.
Fresh(q, next) ==
  /\ ~SawBookings(next) /\ ~SawBlocks(next) /\ ~Paying(next)
  /\ next.stale = {} /\ next.staleBlocks = {} /\ next.op \in {None, q.op}

\* The range of row b is now that of request r.
Placed(r, b) ==
  /\ Writes(r, {"create", "update"})
  /\ req[r].op = "update" => req[r].booking = b
  /\ booking'[b].property = req[r].property
  /\ booking'[b].from = req[r].from /\ booking'[b].to = req[r].to
  /\ booking'[b].tenant = TenantOf[req[r].property]

\* Only the status of row b has been written.
Marked(r, b) ==
  /\ Exists(b)
  /\ \E s \in {"CANCELLED", "CONFIRMED"} :
       /\ booking'[b] = [booking[b] EXCEPT !.status = s]
       /\ s = "CONFIRMED" => req[r].op \in {"confirm", "pay"} /\ req[r].booking = b

WritesRow(r, b) ==
  /\ Placed(r, b) \/ Marked(r, b) \/ booking'[b] = Gone
  /\ \A c \in BookingIds \ {b} : booking'[c] = booking[c]
  /\ block' = block
  /\ \E next : Fresh(req[r], next) /\ WroteBooking(r, b, next)

WritesBlock(r, k) ==
  /\ Writes(r, {"block"})
  /\ block'[k].property = req[r].property
  /\ block'[k].from = req[r].from /\ block'[k].to = req[r].to
  /\ \A l \in BlockIds \ {k} : block'[l] = block[l]
  /\ booking' = booking
  /\ WroteBlock(r, k)

DropsBlock(k) ==
  /\ block' = [block EXCEPT ![k] = Gone]
  /\ booking' = booking /\ req' = req

CalendarKinds ==
  \/ Calm
  \/ \E r \in Requests, b \in BookingIds : WritesRow(r, b)
  \/ \E r \in Requests, k \in BlockIds : WritesBlock(r, k)
  \/ \E k \in BlockIds : DropsBlock(k)

(***************************************************************************)
(* Every step is of one of the kinds.                                       *)
(***************************************************************************)
\* A request that moves while the others and the calendar stay is calm if its slot is.
LEMMA OneCalm ==
  ASSUME TypeOK, NEW r \in Requests, NEW x, req' = [req EXCEPT ![r] = x],
         booking' = booking, block' = block, SlotCalm(r)
  PROVE  Calm
<1>1. \A q \in Requests \ {r} : SlotCalm(q)
  BY DEF TypeOK, SlotCalm, SlotStays
<1> QED
  BY <1>1 DEF Calm

\* A handler that ends is calm.
LEMMA FinishCalm ==
  ASSUME TypeOK, NEW r \in Requests, Finish(r), booking' = booking, block' = block
  PROVE  Calm
<1>1. req'[r] = Idle
  BY DEF TypeOK, Finish
<1>2. SlotCalm(r)
  BY <1>1 DEF SlotCalm, Idle, SawBookings, SawBlocks
<1> QED
  BY <1>2, OneCalm DEF Finish

\* A handler that goes to a position before its queries, or without any, is calm.
LEMMA GotoCalm ==
  ASSUME TypeOK, NEW r \in Requests, NEW s, Goto(r, s), s \notin {"findBlock", "write"},
         booking' = booking, block' = block
  PROVE  Calm
<1>1. req'[r] = [req[r] EXCEPT !.at = s]
  BY DEF TypeOK, Goto
<1>2. req'[r].at = s /\ req'[r].op = req[r].op
      /\ req'[r].stale = req[r].stale /\ req'[r].staleBlocks = req[r].staleBlocks
  BY <1>1 DEF TypeOK, Request
<1>3. SlotCalm(r)
  BY <1>2 DEF SlotCalm, SawBookings, SawBlocks
<1>4. req' = [req EXCEPT ![r] = [req[r] EXCEPT !.at = s]]
  BY DEF Goto
<1> QED
  BY <1>3, <1>4, OneCalm

\* A handler that starts has run no query, but for addAvailability, which found none.
LEMMA BeginCalm ==
  ASSUME TypeOK, NEW r \in Requests, Begin(r)
  PROVE  Calm
<1> DEFINE Start(x) == /\ req' = [req EXCEPT ![r] = x] /\ UNCHANGED tables
                       /\ x.stale = {} /\ x.staleBlocks = {} /\ x.op \in Ops
<1>1. ASSUME NEW x, Start(x), ~SawBookings(x), ~SawBlocks(x)
      PROVE  Calm
  <2>1. req'[r] = x
    BY <1>1 DEF TypeOK
  <2>2. SlotCalm(r)
    BY <1>1, <2>1 DEF SlotCalm
  <2> QED
    BY <1>1, <2>2, OneCalm DEF tables
<1>2. CASE BeginCreate(r)
  <2>1. PICK u \in Users, p \in Properties, from, to \in Times, g \in GuestLists :
          /\ from < to
          /\ listing[p].status = "ACTIVE"
          /\ req' = [req EXCEPT ![r] = CreateRequest(u, p, from, to, g)]
    BY <1>2 DEF BeginCreate
  <2>2. Start(CreateRequest(u, p, from, to, g)) /\ CreateRequest(u, p, from, to, g).at = "findBooking"
    BY <1>2, <2>1 DEF BeginCreate, CreateRequest, Idle
  <2> QED
    BY <1>1, <2>2 DEF SawBookings, SawBlocks
<1>3. CASE BeginUpdate(r)
  <2>1. PICK u, w \in Users, b \in BookingIds, p \in Properties,
             from, to \in Times, s \in Patches :
          /\ MaySee(u, b)
          /\ from < to
          /\ w # booking[b].user =>
               \/ Role[u] = "SUPER_ADMIN"
               \/ Role[u] = "TENANT_ADMIN" /\ TenantOfUser[w] = TenantOfUser[u]
          /\ req' = [req EXCEPT ![r] = UpdateRequest(u, w, b, p, from, to, s)]
    BY <1>3 DEF BeginUpdate
  <2>2. /\ Start(UpdateRequest(u, w, b, p, from, to, s))
        /\ UpdateRequest(u, w, b, p, from, to, s).at = "readProperty"
    BY <1>3, <2>1 DEF BeginUpdate, UpdateRequest, Idle
  <2> QED
    BY <1>1, <2>2 DEF SawBookings, SawBlocks
<1>4. ASSUME NEW op \in {"cancel", "confirm", "remove"}, BeginOnBooking(r, op)
      PROVE  Calm
  <2>1. PICK u \in Users, b \in BookingIds :
           req' = [req EXCEPT ![r] = [Idle EXCEPT !.op = op, !.at = "write",
                                                  !.actor = u, !.booking = b]]
    BY <1>4 DEF BeginOnBooking
  <2> DEFINE x == [Idle EXCEPT !.op = op, !.at = "write", !.actor = u, !.booking = b]
  <2>2. Start(x) /\ x.op = op
    BY <1>4, <2>1 DEF BeginOnBooking, Idle
  <2> QED
    BY <1>1, <2>2 DEF SawBookings, SawBlocks
<1>5. CASE BeginBlock(r)
  <2>1. PICK u \in Users, p \in Properties, from \in Times, to \in Times :
          LET q == [Idle EXCEPT !.op = "block", !.at = "findBlock", !.actor = u,
                                !.property = p, !.from = from, !.to = to]
          IN  /\ ~ \E b \in BookingIds : Active(b) /\ Clash(booking[b], q)
              /\ req' = [req EXCEPT ![r] = q]
    BY <1>5 DEF BeginBlock
  <2> DEFINE q == [Idle EXCEPT !.op = "block", !.at = "findBlock", !.actor = u,
                               !.property = p, !.from = from, !.to = to]
  <2>2. req'[r] = q
    BY <2>1 DEF TypeOK
  <2>3. q.op = "block" /\ q.at = "findBlock" /\ q.stale = {} /\ q.staleBlocks = {}
    BY DEF Idle
  <2>4. "block" \in Ops /\ booking' = booking /\ block' = block
    BY <1>5 DEF BeginBlock, tables
  <2> HIDE DEF q
  <2>5. \A b \in BookingIds : ~(Active(b) /\ Clash(booking[b], q))
    BY <2>1 DEF q
  <2>6. SlotCalm(r)
    BY <2>2, <2>3, <2>4, <2>5 DEF SlotCalm
  <2>7. req' = [req EXCEPT ![r] = q]
    BY <2>1 DEF q
  <2> QED
    BY <2>4, <2>6, <2>7, OneCalm
<1>6. CASE BeginPay(r)
  <2>1. PICK b \in BookingIds :
          req' = [req EXCEPT ![r] =
                    [Idle EXCEPT !.op = "pay", !.at = "findPayment",
                                 !.actor = booking[b].user, !.booking = b,
                                 !.price = booking[b].price]]
    BY <1>6 DEF BeginPay
  <2> DEFINE x == [Idle EXCEPT !.op = "pay", !.at = "findPayment",
                               !.actor = booking[b].user, !.booking = b,
                               !.price = booking[b].price]
  <2>2. Start(x) /\ x.at = "findPayment"
    BY <1>6, <2>1 DEF BeginPay, Idle
  <2> QED
    BY <1>1, <2>2 DEF SawBookings, SawBlocks
<1> QED
  BY <1>2, <1>3, <1>4, <1>5, <1>6 DEF Begin, BeginCancel, BeginConfirm, BeginRemove

\* A query that finds nothing, or a statement that is none, writes nothing.
LEMMA ReadCalm ==
  ASSUME TypeOK, NEW r \in Requests,
         \/ FindBooking(r) \/ FindBlock(r) \/ ReadProperty(r) \/ Timeout(r)
         \/ NotifyUser(r) \/ NotifyAdmins(r)
         \/ FindPayment(r) \/ WritePayment(r) \/ ConfirmRow(r)
  PROVE  Calm
<1>1. booking' = booking /\ block' = block
  BY DEF FindBooking, FindBlock, ReadProperty, Timeout, NotifyUser, NotifyAdmins,
         FindPayment, WritePayment, ConfirmRow, tables
<1>2. Finish(r) => Calm
  BY <1>1, FinishCalm
<1>3. ASSUME NEW s \in {"notifyAdmins", "writePayment", "confirmRow", "findInvoice"}, Goto(r, s)
      PROVE  Calm
  BY <1>1, <1>3, GotoCalm
<1>4. ASSUME NEW s, Goto(r, s)
      PROVE  /\ req' = [req EXCEPT ![r] = [req[r] EXCEPT !.at = s]]
             /\ req'[r] = [req[r] EXCEPT !.at = s]
             /\ req'[r].op = req[r].op
             /\ req'[r].stale = req[r].stale /\ req'[r].staleBlocks = req[r].staleBlocks
  BY <1>4 DEF TypeOK, Request, Goto
<1>5. CASE FindBooking(r)
  <2>1. CASE Goto(r, "findBlock") /\ ~OverlapFound(req[r])
    <3>1. SlotCalm(r)
      BY <1>4, <1>5, <2>1 DEF FindBooking, SlotCalm
    <3> QED
      BY <1>1, <1>4, <2>1, <3>1, OneCalm
  <2> QED
    BY <1>2, <1>5, <2>1 DEF FindBooking
<1>6. CASE FindBlock(r)
  <2>1. CASE Goto(r, "write") /\ ~BlockFound(req[r])
    <3>1. SlotCalm(r)
      BY <1>4, <1>6, <2>1 DEF FindBlock, SlotCalm
    <3> QED
      BY <1>1, <1>4, <2>1, <3>1, OneCalm
  <2> QED
    BY <1>2, <1>6, <2>1 DEF FindBlock
<1>7. CASE ReadProperty(r)
  <2>1. ASSUME NEW price,
               req' = [req EXCEPT ![r].at = "findBooking", ![r].price = price]
        PROVE  Calm
    <3> DEFINE x == [req[r] EXCEPT !.at = "findBooking", !.price = price]
    <3>1. req' = [req EXCEPT ![r] = x]
      BY <2>1
    <3>2. req'[r] = x
      BY <3>1 DEF TypeOK
    <3>3. x.at = "findBooking" /\ x.op = req[r].op /\ x.stale = req[r].stale
          /\ x.staleBlocks = req[r].staleBlocks
      BY DEF TypeOK, Request
    <3>4. SlotCalm(r)
      BY <3>2, <3>3 DEF SlotCalm, SawBookings, SawBlocks
    <3> QED
      BY <1>1, <3>1, <3>4, OneCalm
  <2> QED
    BY <1>2, <1>7, <2>1 DEF ReadProperty
<1>8. CASE FindPayment(r)
  <2>1. ASSUME NEW p, req' = [req EXCEPT ![r].at = "writePayment", ![r].payment = p]
        PROVE  Calm
    <3> DEFINE x == [req[r] EXCEPT !.at = "writePayment", !.payment = p]
    <3>1. req' = [req EXCEPT ![r] = x]
      BY <2>1
    <3>2. req'[r] = x
      BY <3>1 DEF TypeOK
    <3>3. x.at = "writePayment" /\ x.op = req[r].op /\ x.stale = req[r].stale
          /\ x.staleBlocks = req[r].staleBlocks
      BY DEF TypeOK, Request
    <3>4. SlotCalm(r)
      BY <3>2, <3>3 DEF SlotCalm, SawBookings, SawBlocks
    <3> QED
      BY <1>1, <3>1, <3>4, OneCalm
  <2> QED
    BY <1>3, <1>8, <2>1 DEF FindPayment
<1>9. CASE Timeout(r) \/ NotifyUser(r) \/ NotifyAdmins(r) \/ WritePayment(r) \/ ConfirmRow(r)
  BY <1>2, <1>3, <1>9 DEF Timeout, NotifyUser, NotifyAdmins, WritePayment, ConfirmRow
<1> QED
  BY <1>5, <1>6, <1>7, <1>8, <1>9

(***************************************************************************)
(* The steps that write.                                                    *)
(***************************************************************************)
\* Only the row written changes.
LEMMA OtherRows ==
  ASSUME TypeOK, NEW b \in BookingIds, NEW row, booking' = [booking EXCEPT ![b] = row]
  PROVE  booking'[b] = row /\ \A c \in BookingIds \ {b} : booking'[c] = booking[c]
BY DEF TypeOK

\* What WroteBooking makes of the writer's slot.
LEMMA WriterNext ==
  ASSUME NEW r \in Requests, NEW b, NEW next, WroteBooking(r, b, next)
  PROVE  req'[r] = next
BY DEF WroteBooking

\* create's insert and update's write put a row into the range of their queries.
LEMMA PlaceKind ==
  ASSUME TypeOK, NEW r \in Requests, InsertBooking(r) \/ WriteUpdate(r)
  PROVE  Calm \/ \E b \in BookingIds : WritesRow(r, b)
<1>1. CASE InsertBooking(r)
  <2>1. PICK b \in BookingIds :
           /\ NextKey(b, BookingIds, booking)
           /\ booking' = [booking EXCEPT ![b] =
                [property |-> req[r].property, from |-> req[r].from, to |-> req[r].to,
                 tenant |-> TenantOf[req[r].property], user |-> req[r].user,
                 status |-> "PENDING", price |-> req[r].price, guests |-> req[r].guests]]
           /\ WroteBooking(r, b, [Idle EXCEPT !.op = "create", !.at = "notifyUser",
                                              !.booking = b])
    BY <1>1 DEF InsertBooking
  <2> DEFINE next == [Idle EXCEPT !.op = "create", !.at = "notifyUser", !.booking = b]
  <2>2. next.op = "create" /\ next.at = "notifyUser" /\ next.stale = {} /\ next.staleBlocks = {}
    BY DEF Idle
  <2>3. req[r].op = "create" /\ req[r].at = "write" /\ block' = block
    BY <1>1 DEF InsertBooking
  <2>4. Fresh(req[r], next) /\ req'[r] = next
    BY <2>1, <2>2, <2>3, WriterNext DEF Fresh, Paying, SawBookings, SawBlocks
  <2>5. /\ booking'[b].property = req[r].property
        /\ booking'[b].from = req[r].from /\ booking'[b].to = req[r].to
        /\ booking'[b].tenant = TenantOf[req[r].property]
        /\ \A c \in BookingIds \ {b} : booking'[c] = booking[c]
    BY <2>1 DEF TypeOK
  <2> HIDE DEF next
  <2>6. Writes(r, {"create", "update"})
    BY <2>2, <2>3, <2>4 DEF Writes
  <2>7. Placed(r, b)
    BY <2>3, <2>5, <2>6 DEF Placed
  <2>8. WroteBooking(r, b, next)
    BY <2>1 DEF next
  <2>9. WritesRow(r, b)
    BY <2>3, <2>4, <2>5, <2>7, <2>8 DEF WritesRow
  <2> QED
    BY <2>9
<1>2. CASE WriteUpdate(r)
  <2>1. CASE ~Exists(req[r].booking)
    BY <1>2, <2>1, FinishCalm DEF WriteUpdate
  <2>2. CASE Exists(req[r].booking)
    <3> DEFINE b == req[r].booking
    <3>1. /\ b \in BookingIds
          /\ booking' = [booking EXCEPT ![b] = Patched(booking[b], req[r])]
          /\ WroteBooking(r, b, Idle) /\ block' = block
          /\ req[r].op = "update" /\ req[r].at = "write"
      BY <1>2, <2>2 DEF WriteUpdate, TypeOK, RequestOK
    <3>2. Fresh(req[r], Idle) /\ req'[r] = Idle /\ Idle.at = "idle"
      BY <3>1, WriterNext DEF Fresh, Idle, Paying, SawBookings, SawBlocks
    <3>3. booking'[b] = Patched(booking[b], req[r])
          /\ \A c \in BookingIds \ {b} : booking'[c] = booking[c]
      BY <3>1, OtherRows
    <3> HIDE DEF b
    <3>6. /\ booking'[b].property = req[r].property
          /\ booking'[b].from = req[r].from /\ booking'[b].to = req[r].to
          /\ booking'[b].tenant = TenantOf[req[r].property]
      BY <3>3 DEF Patched
    <3>7. req[r].booking = b
      BY DEF b
    <3>8. Writes(r, {"create", "update"})
      BY <3>1, <3>2 DEF Writes
    <3>4. Placed(r, b)
      BY <3>6, <3>7, <3>8 DEF Placed
    <3>5. WritesRow(r, b)
      BY <3>1, <3>2, <3>3, <3>4 DEF WritesRow
    <3> QED
      BY <3>1, <3>5
  <2> QED
    BY <2>1, <2>2
<1> QED
  BY <1>1, <1>2

\* cancel, confirm, remove and the commit of a payment leave the range alone.
LEMMA MarkKind ==
  ASSUME TypeOK, NEW r \in Requests, WriteCancel(r) \/ WriteConfirm(r) \/ DeleteBooking(r)
  PROVE  Calm \/ \E b \in BookingIds : WritesRow(r, b)
<1> DEFINE b == req[r].booking
<1>1. b \in BookingIds
  BY DEF WriteCancel, WriteConfirm, DeleteBooking, TypeOK, RequestOK
<1>2. block' = block
  BY DEF WriteCancel, WriteConfirm, DeleteBooking, SetStatus
<1>3. ASSUME NEW status \in {"CANCELLED", "CONFIRMED"}, NEW next, SetStatus(r, status, next),
             Fresh(req[r], next), status = "CONFIRMED" => req[r].op = "confirm"
      PROVE  Calm \/ WritesRow(r, b)
  <2>1. CASE Exists(b)
    <3>1. booking' = [booking EXCEPT ![b] = [booking[b] EXCEPT !.status = status]]
          /\ WroteBooking(r, b, next)
      BY <1>3, <2>1 DEF SetStatus
    <3>2. /\ booking'[b] = [booking[b] EXCEPT !.status = status]
          /\ \A c \in BookingIds \ {b} : booking'[c] = booking[c]
      BY <1>1, <3>1, OtherRows
    <3>3. Marked(r, b)
      BY <1>3, <2>1, <3>2 DEF Marked
    <3> QED
      BY <1>2, <1>3, <3>1, <3>2, <3>3 DEF WritesRow
  <2>2. CASE ~Exists(b)
    BY <1>3, <2>2, FinishCalm DEF SetStatus
  <2> QED
    BY <2>1, <2>2
<1>4. CASE WriteCancel(r)
  <2> DEFINE next == [Idle EXCEPT !.op = "cancel", !.at = "notifyUser", !.booking = b]
  <2>1. next.op = "cancel" /\ next.at = "notifyUser" /\ next.stale = {} /\ next.staleBlocks = {}
    BY DEF Idle
  <2>2. Fresh(req[r], next)
    BY <1>4, <2>1 DEF WriteCancel, Fresh, Paying, SawBookings, SawBlocks
  <2>3. SetStatus(r, "CANCELLED", next)
    BY <1>4 DEF WriteCancel
  <2> HIDE DEF next
  <2> QED
    BY <1>1, <1>3, <2>2, <2>3
<1>5. Fresh(req[r], Idle)
  BY DEF Fresh, Idle, Paying, SawBookings, SawBlocks
<1>6. CASE WriteConfirm(r)
  BY <1>1, <1>3, <1>5, <1>6 DEF WriteConfirm
<1>7. CASE DeleteBooking(r)
  <2>1. CASE Exists(b) /\ ~Referenced(b)
    <3>1. booking' = [booking EXCEPT ![b] = Gone] /\ WroteBooking(r, b, Idle)
      BY <1>7, <2>1 DEF DeleteBooking
    <3>2. booking'[b] = Gone /\ \A c \in BookingIds \ {b} : booking'[c] = booking[c]
      BY <1>1, <3>1, OtherRows
    <3> QED
      BY <1>1, <1>2, <1>5, <3>1, <3>2 DEF WritesRow
  <2>2. CASE ~(Exists(b) /\ ~Referenced(b))
    BY <1>7, <2>2, FinishCalm DEF DeleteBooking
  <2> QED
    BY <2>1, <2>2
<1> QED
  BY <1>4, <1>6, <1>7

\* The end of a payment leaves the calendar alone, or writes its booking's row.
LEMMA CommitKind ==
  ASSUME TypeOK, MoneyInv, NEW r \in Requests, FindInvoice(r) \/ InsertInvoice(r)
  PROVE  Calm \/ \E b \in BookingIds : WritesRow(r, b)
<1> DEFINE b == req[r].booking
<1>1. b \in BookingIds /\ Exists(b) /\ req[r].op = "pay"
  BY DEF FindInvoice, InsertInvoice, TypeOK, RequestOK, MoneyInv, RowLockInv, HoldsBooking
<1>2. ASSUME NEW p \in PaymentIds, Commit(r, p)
      PROVE  WritesRow(r, b)
  <2> DEFINE next == [Idle EXCEPT !.op = "pay", !.at = "notifyUser", !.booking = b]
  <2>1. /\ booking' = [booking EXCEPT ![b] = [booking[b] EXCEPT !.status = "CONFIRMED"]]
        /\ WroteBooking(r, b, next) /\ block' = block
    BY <1>2 DEF Commit
  <2>2. /\ booking'[b] = [booking[b] EXCEPT !.status = "CONFIRMED"]
        /\ \A c \in BookingIds \ {b} : booking'[c] = booking[c]
    BY <1>1, <2>1, OtherRows
  <2>3. next.op = "pay" /\ next.at = "notifyUser" /\ next.stale = {} /\ next.staleBlocks = {}
    BY DEF Idle
  <2>4. Fresh(req[r], next)
    BY <1>1, <2>3 DEF Fresh, Paying, SawBookings, SawBlocks
  <2>5. Marked(r, b)
    BY <1>1, <2>2 DEF Marked
  <2> QED
    BY <2>1, <2>2, <2>4, <2>5 DEF WritesRow
<1>3. Goto(r, "insertInvoice") /\ UNCHANGED tables => Calm
  BY GotoCalm DEF tables
<1>4. Finish(r) /\ UNCHANGED tables => Calm
  BY FinishCalm DEF tables
<1> QED
  BY <1>1, <1>2, <1>3, <1>4 DEF FindInvoice, InsertInvoice

\* addAvailability's insert and removeAvailability are the two writes of blocked ranges.
LEMMA BlockKinds ==
  ASSUME TypeOK
  PROVE  /\ \A r \in Requests : InsertBlock(r) => \E k \in BlockIds : WritesBlock(r, k)
         /\ RemoveBlock => \E k \in BlockIds : DropsBlock(k)
<1>1. ASSUME NEW r \in Requests, InsertBlock(r)
      PROVE  \E k \in BlockIds : WritesBlock(r, k)
  <2>1. PICK k \in BlockIds :
           /\ NextKey(k, BlockIds, block)
           /\ block' = [block EXCEPT ![k] = [property |-> req[r].property,
                                             from |-> req[r].from, to |-> req[r].to]]
           /\ WroteBlock(r, k)
    BY <1>1 DEF InsertBlock
  <2>2. /\ block'[k] = [property |-> req[r].property, from |-> req[r].from, to |-> req[r].to]
        /\ \A l \in BlockIds \ {k} : block'[l] = block[l]
    BY <2>1 DEF TypeOK
  <2>3. req'[r].at = "idle" /\ req[r].op = "block" /\ req[r].at = "write" /\ booking' = booking
    BY <1>1, <2>1 DEF InsertBlock, WroteBlock, Idle
  <2> QED
    BY <2>1, <2>2, <2>3 DEF WritesBlock, Writes
<1>2. ASSUME RemoveBlock
      PROVE  \E k \in BlockIds : DropsBlock(k)
  BY <1>2 DEF RemoveBlock, DropsBlock
<1> QED
  BY <1>1, <1>2

\* Every step is of one of the kinds.
LEMMA CalendarSteps ==
  ASSUME TypeOK, MoneyInv, [Next]_vars
  PROVE  CalendarKinds
<1>1. ASSUME NEW r \in Requests, Begin(r) \/ Step(r) \/ Timeout(r)
      PROVE  CalendarKinds
  BY <1>1, BeginCalm, ReadCalm, PlaceKind, MarkKind, CommitKind, BlockKinds
  DEF Step, CalendarKinds
<1>2. CASE RemoveBlock
  BY <1>2, BlockKinds DEF CalendarKinds
<1>3. CASE ChangeListing \/ UNCHANGED vars
  <2>1. booking' = booking /\ block' = block
    BY <1>3 DEF ChangeListing, vars
  <2>2. \A q \in Requests : SlotStays(q)
    BY <1>3, OnlyMoved DEF ChangeListing, vars, SlotStays, TypeOK
  <2> QED
    BY <2>1, <2>2 DEF CalendarKinds, Calm, SlotCalm, SlotStays
<1>4. CASE Crash
  <2>1. \A q \in Requests : req'[q] = Idle
    BY <1>4 DEF Crash
  <2>2. \A q \in Requests : SlotCalm(q)
    BY <2>1 DEF SlotCalm, Idle, SawBookings, SawBlocks
  <2> QED
    BY <1>4, <2>2 DEF Crash, tables, CalendarKinds, Calm
<1> QED
  BY <1>1, <1>2, <1>3, <1>4 DEF Next

(***************************************************************************)
(* What the queries establish is kept.                                      *)
(***************************************************************************)
TenantKept == \A b \in BookingIds : Exists(b) => booking[b].tenant = TenantOf[booking[b].property]

Known(r, b) ==
  SawBookings(req[r]) /\ Active(b) /\ Clash(booking[b], req[r]) =>
    b \in req[r].stale \/ (req[r].op = "update" /\ b = req[r].booking)

KnownBlock(r, k) ==
  SawBlocks(req[r]) /\ Blocks(k) /\ Clash(block[k], req[r]) => k \in req[r].staleBlocks

\* The calendar invariant is three conjuncts, shown one by one.
LEMMA SplitCalendar ==
  CalendarInv <=> /\ TenantKept
                  /\ \A r \in Requests, b \in BookingIds : Known(r, b)
                  /\ \A r \in Requests, k \in BlockIds : KnownBlock(r, k)
BY DEF CalendarInv, TenantKept, Known, KnownBlock

\* And so after a step.
LEMMA SplitCalendarNext ==
  CalendarInv' <=> /\ TenantKept'
                   /\ \A r \in Requests, b \in BookingIds : Known(r, b)'
                   /\ \A r \in Requests, k \in BlockIds : KnownBlock(r, k)'
BY DEF CalendarInv, TenantKept, Known, KnownBlock

\* A calm step: a slot has just run a query, or knew what it knows now.
LEMMA CalmCalendar ==
  ASSUME TypeOK, CalendarInv, Calm
  PROVE  CalendarInv'
<1>1. /\ TenantKept
      /\ \A r \in Requests, b \in BookingIds : Known(r, b)
      /\ \A r \in Requests, k \in BlockIds : KnownBlock(r, k)
  BY SplitCalendar
<1>2. /\ booking' = booking /\ block' = block
      /\ \A b : (Exists(b)' <=> Exists(b)) /\ (Active(b)' <=> Active(b))
      /\ \A k : Blocks(k)' <=> Blocks(k)
  BY DEF Calm, Exists, Active, Blocks
<1>3. TenantKept'
  BY <1>1, <1>2 DEF TenantKept
<1>4. ASSUME NEW r \in Requests
      PROVE  /\ \A b \in BookingIds : Known(r, b)'
             /\ \A k \in BlockIds : KnownBlock(r, k)'
  <2>1. SlotCalm(r)
    BY DEF Calm
  <2>2. CASE SlotStays(r)
    <3>1. \A x : Clash(x, req'[r]) <=> Clash(x, req[r])
      BY <2>2 DEF SlotStays, Clash
    <3>2. (SawBlocks(req'[r]) <=> SawBlocks(req[r])) /\ (SawBookings(req'[r]) <=> SawBookings(req[r]))
      BY <2>2 DEF SlotStays, SawBlocks, SawBookings
    <3> QED
      BY <1>1, <1>2, <2>2, <3>1, <3>2 DEF SlotStays, Known, KnownBlock
  <2>3. CASE ~SawBookings(req'[r]) /\ ~SawBlocks(req'[r])
    BY <2>3 DEF Known, KnownBlock
  <2>4. CASE /\ req[r].at = "findBooking" /\ ~OverlapFound(req[r])
             /\ req'[r] = [req[r] EXCEPT !.at = "findBlock"]
    <3>1. /\ req'[r].at = "findBlock" /\ req'[r].op = req[r].op
          /\ req'[r].booking = req[r].booking /\ req'[r].property = req[r].property
          /\ req'[r].from = req[r].from /\ req'[r].to = req[r].to
      BY <2>4 DEF TypeOK, Request
    <3>2. ASSUME NEW b \in BookingIds, Active(b), Clash(booking[b], req'[r])
          PROVE  req'[r].op = "update" /\ b = req'[r].booking
      <4>1. Clash(booking[b], req[r]) /\ booking[b].property = req[r].property /\ Exists(b)
        BY <3>1, <3>2 DEF Clash, Active
      <4>2. booking[b].tenant = TenantOf[req[r].property]
        BY <1>1, <4>1 DEF TenantKept
      <4> QED
        BY <2>4, <3>1, <3>2, <4>1, <4>2 DEF OverlapFound
    <3> QED
      BY <1>2, <3>1, <3>2 DEF Known, KnownBlock, SawBlocks
  <2>5. CASE /\ req'[r].at = "findBlock" /\ req'[r].op = "block"
             /\ \A b \in BookingIds : ~(Active(b) /\ Clash(booking[b], req'[r]))
    BY <1>2, <2>5 DEF Known, KnownBlock, SawBlocks
  <2>6. CASE /\ req[r].at = "findBlock" /\ ~BlockFound(req[r])
             /\ req'[r] = [req[r] EXCEPT !.at = "write"]
    <3>1. /\ req'[r].at = "write" /\ req'[r].op = req[r].op
          /\ req'[r].booking = req[r].booking /\ req'[r].property = req[r].property
          /\ req'[r].from = req[r].from /\ req'[r].to = req[r].to
          /\ req'[r].stale = req[r].stale
      BY <2>6 DEF TypeOK, Request
    <3>2. SawBookings(req'[r]) => SawBookings(req[r])
      BY <2>6, <3>1 DEF SawBookings
    <3>3. \A k \in BlockIds : ~(Blocks(k) /\ Clash(block[k], req'[r]))
      BY <2>6, <3>1 DEF BlockFound, Clash
    <3> QED
      BY <1>1, <1>2, <3>1, <3>2, <3>3 DEF Known, KnownBlock, Clash
  <2> QED
    BY <2>1, <2>2, <2>3, <2>4, <2>5, <2>6 DEF SlotCalm
<1> QED
  BY <1>3, <1>4, SplitCalendarNext

\* A row that is written goes into the history of whoever has looked.
LEMMA RowCalendar ==
  ASSUME TypeOK, CalendarInv, NEW r \in Requests, NEW b \in BookingIds, WritesRow(r, b)
  PROVE  CalendarInv'
<1>1. /\ TenantKept
      /\ \A q \in Requests, c \in BookingIds : Known(q, c)
      /\ \A q \in Requests, k \in BlockIds : KnownBlock(q, k)
  BY SplitCalendar
<1>2. PICK next : Fresh(req[r], next) /\ WroteBooking(r, b, next)
  BY DEF WritesRow
<1>3. /\ \A c \in BookingIds \ {b} : /\ booking'[c] = booking[c] /\ (Exists(c)' <=> Exists(c))
                                   /\ (Active(c)' <=> Active(c))
      /\ block' = block /\ \A k : Blocks(k)' <=> Blocks(k)
  BY DEF WritesRow, Exists, Active, Blocks
<1>4. Exists(b)' => booking'[b].tenant = TenantOf[booking'[b].property]
  <2>1. CASE Marked(r, b)
    BY <1>1, <2>1 DEF Marked, TenantKept, TypeOK, BookingRow, Exists
  <2> QED
    BY <2>1 DEF WritesRow, Placed, Exists
<1>5. TenantKept'
  BY <1>1, <1>3, <1>4 DEF TenantKept
<1>6. ASSUME NEW q \in Requests
      PROVE  /\ \A c \in BookingIds : Known(q, c)'
             /\ \A k \in BlockIds : KnownBlock(q, k)'
  <2>1. CASE q = r
    BY <1>2, <2>1, WriterNext DEF Fresh, Known, KnownBlock
  <2>2. CASE q # r /\ ~SawBookings(req[q])
    <3>1. req'[q].at = req[q].at /\ req'[q].op = req[q].op
      BY <1>2, <2>2 DEF WroteBooking, TypeOK, Request
    <3> QED
      BY <2>2, <3>1 DEF Known, KnownBlock, SawBookings, SawBlocks
  <2>3. CASE q # r /\ SawBookings(req[q])
    <3>1. req'[q] = [req[q] EXCEPT !.stale = @ \cup {b}]
      BY <1>2, <2>3 DEF WroteBooking
    <3>2. /\ req'[q].at = req[q].at /\ req'[q].op = req[q].op
          /\ req'[q].booking = req[q].booking /\ req'[q].property = req[q].property
          /\ req'[q].from = req[q].from /\ req'[q].to = req[q].to
          /\ req'[q].stale = req[q].stale \cup {b} /\ req'[q].staleBlocks = req[q].staleBlocks
      BY <3>1 DEF TypeOK, Request
    <3>3. \A x : (Clash(x, req'[q]) <=> Clash(x, req[q]))
      BY <3>2 DEF Clash
    <3>4. (SawBlocks(req'[q]) <=> SawBlocks(req[q])) /\ (SawBookings(req'[q]) <=> SawBookings(req[q]))
      BY <3>2 DEF SawBlocks, SawBookings
    <3>5. \A c \in BookingIds : Known(q, c)'
      BY <1>1, <1>3, <3>2, <3>3, <3>4 DEF Known
    <3>6. \A k \in BlockIds : KnownBlock(q, k)'
      BY <1>1, <1>3, <3>2, <3>3, <3>4 DEF KnownBlock
    <3> QED
      BY <3>5, <3>6
  <2> QED
    BY <2>1, <2>2, <2>3
<1> QED
  BY <1>5, <1>6, SplitCalendarNext

\* The same of a blocked range, and of one that is taken away.
LEMMA BlockCalendar ==
  ASSUME TypeOK, CalendarInv, NEW k \in BlockIds,
         (\E r \in Requests : WritesBlock(r, k)) \/ DropsBlock(k)
  PROVE  CalendarInv'
<1>1. /\ TenantKept
      /\ \A q \in Requests, c \in BookingIds : Known(q, c)
      /\ \A q \in Requests, l \in BlockIds : KnownBlock(q, l)
  BY SplitCalendar
<1>2. /\ booking' = booking
      /\ \A b : (Exists(b)' <=> Exists(b)) /\ (Active(b)' <=> Active(b))
      /\ \A l \in BlockIds \ {k} : block'[l] = block[l] /\ (Blocks(l)' <=> Blocks(l))
  BY DEF WritesBlock, DropsBlock, Exists, Active, Blocks, TypeOK
<1>3. TenantKept'
  BY <1>1, <1>2 DEF TenantKept
<1>4. CASE DropsBlock(k)
  <2>1. req' = req /\ ~Blocks(k)'
    BY <1>4 DEF DropsBlock, Blocks, TypeOK
  <2>2. \A q \in Requests, c \in BookingIds : Known(q, c)'
    BY <1>1, <1>2, <2>1 DEF Known
  <2>3. \A q \in Requests, l \in BlockIds : KnownBlock(q, l)'
    BY <1>1, <1>2, <2>1 DEF KnownBlock
  <2> QED
    BY <1>3, <2>2, <2>3, SplitCalendarNext
<1>5. ASSUME NEW r \in Requests, WritesBlock(r, k)
      PROVE  CalendarInv'
  <2>1. ASSUME NEW q \in Requests
        PROVE  /\ \A c \in BookingIds : Known(q, c)'
               /\ \A l \in BlockIds : KnownBlock(q, l)'
    <3>1. CASE q = r
      BY <1>5, <3>1 DEF WritesBlock, WroteBlock, Idle, Known, KnownBlock, SawBookings, SawBlocks
    <3>2. CASE q # r /\ ~SawBlocks(req[q])
      <4>1. req'[q] = req[q]
        BY <1>5, <3>2 DEF WritesBlock, WroteBlock
      <4> QED
        BY <1>1, <1>2, <3>2, <4>1 DEF Known, KnownBlock
    <3>3. CASE q # r /\ SawBlocks(req[q])
      <4>1. req'[q] = [req[q] EXCEPT !.staleBlocks = @ \cup {k}]
        BY <1>5, <3>3 DEF WritesBlock, WroteBlock
      <4>2. /\ req'[q].at = req[q].at /\ req'[q].op = req[q].op
            /\ req'[q].booking = req[q].booking /\ req'[q].property = req[q].property
            /\ req'[q].from = req[q].from /\ req'[q].to = req[q].to
            /\ req'[q].stale = req[q].stale
            /\ req'[q].staleBlocks = req[q].staleBlocks \cup {k}
        BY <4>1 DEF TypeOK, Request
      <4>3. \A x : (Clash(x, req'[q]) <=> Clash(x, req[q]))
        BY <4>2 DEF Clash
      <4>4. (SawBlocks(req'[q]) <=> SawBlocks(req[q])) /\ (SawBookings(req'[q]) <=> SawBookings(req[q]))
        BY <4>2 DEF SawBlocks, SawBookings
      <4>5. \A c \in BookingIds : Known(q, c)'
        BY <1>1, <1>2, <4>2, <4>3, <4>4 DEF Known
      <4>6. \A l \in BlockIds : KnownBlock(q, l)'
        BY <1>1, <1>2, <4>2, <4>3, <4>4 DEF KnownBlock
      <4> QED
        BY <4>5, <4>6
    <3> QED
      BY <3>1, <3>2, <3>3
  <2> QED
    BY <1>3, <2>1, SplitCalendarNext
<1> QED
  BY <1>4, <1>5

\* Every step keeps what the queries have established.
LEMMA CalendarStep ==
  ASSUME TypeOK, MoneyInv, CalendarInv, [Next]_vars
  PROVE  CalendarInv'
BY CalendarSteps, CalmCalendar, RowCalendar, BlockCalendar DEF CalendarKinds

\* Nobody has looked at first.
LEMMA CalendarInit == Init => CalendarInv
BY DEF Init, CalendarInv, Exists, Active, SawBookings, SawBlocks, Idle

\* What create, update and addAvailability know of the calendar when they write.
THEOREM QueriesHold == Spec => []CalendarInv
<1>1. TypeOK /\ MoneyInv /\ CalendarInv /\ [Next]_vars => CalendarInv'
  BY CalendarStep
<1> QED
  BY <1>1, CalendarInit, Inductive, PTL DEF Spec

(***************************************************************************)
(* What makes rows overlap.                                                 *)
(***************************************************************************)
\* Overlapping is mutual.
LEMMA ClashBothWays ==
  ASSUME NEW x, NEW y, x.from \in Times, x.to \in Times, y.from \in Times, y.to \in Times
  PROVE  Clash(x, y) <=> Clash(y, x)
<1>1. x.from \in Nat /\ x.to \in Nat /\ y.from \in Nat /\ y.to \in Nat
  BY StoreAssumption
<1> QED
  BY <1>1 DEF Clash

\* The rows of bookings and blocked ranges have a range.
LEMMA RowsHaveRanges ==
  ASSUME TypeOK
  PROVE  /\ \A b \in BookingIds : Exists(b) => booking[b].from \in Times /\ booking[b].to \in Times
         /\ \A k \in BlockIds : Blocks(k) => block[k].from \in Times /\ block[k].to \in Times
BY DEF TypeOK, Exists, Blocks, BookingRow, BlockRow

\* So has a request that is about to write a range.
LEMMA WritersHaveRanges ==
  ASSUME TypeOK, NEW r \in Requests, req[r].op \in {"create", "update", "block"},
         req[r].at = "write"
  PROVE  req[r].from \in Times /\ req[r].to \in Times
BY DEF TypeOK, RequestOK

\* Writing the status of a row makes it active only if that revives it.
LEMMA MarkRevives ==
  ASSUME TypeOK, NEW r \in Requests, NEW b \in BookingIds, Marked(r, b), Active(b)', ~Active(b)
  PROVE  Revives(b)
<1>1. Exists(b) /\ booking[b] \in BookingRow
  BY DEF Marked, TypeOK, Exists
<1>2. PICK s \in {"CANCELLED", "CONFIRMED"} :
        /\ booking'[b] = [booking[b] EXCEPT !.status = s]
        /\ s = "CONFIRMED" => req[r].op \in {"confirm", "pay"} /\ req[r].booking = b
  BY DEF Marked
<1>3. booking'[b].status = s
  BY <1>1, <1>2 DEF BookingRow
<1>4. s = "CONFIRMED" /\ booking[b].status = "CANCELLED"
  BY <1>1, <1>3 DEF Active
<1> QED
  BY <1>1, <1>2, <1>3, <1>4 DEF Revives

\* Writing the status of a row leaves its range.
LEMMA MarkKeepsRange ==
  ASSUME TypeOK, NEW r \in Requests, NEW b \in BookingIds, Marked(r, b), NEW x
  PROVE  Clash(booking'[b], x) <=> Clash(booking[b], x)
<1>1. booking[b] \in BookingRow
  BY DEF Marked, TypeOK, Exists
<1>2. /\ booking'[b].property = booking[b].property
      /\ booking'[b].from = booking[b].from /\ booking'[b].to = booking[b].to
  BY <1>1 DEF Marked, BookingRow
<1> QED
  BY <1>2 DEF Clash

\* A row that comes to overlap another one has been revived, or its writer has
\* missed the other one.
LEMMA RowOverlaps ==
  ASSUME TypeOK, TypeOK', CalendarInv, NEW r \in Requests,
         NEW b \in BookingIds, NEW c \in BookingIds, WritesRow(r, b),
         b # c, Active(b)', Active(c), Clash(booking'[b], booking[c]),
         ~DoubleBooked(b, c)
  PROVE  Revives(b) \/ (Writes(r, {"create", "update"}) /\ c \in req[r].stale)
<1>1. CASE Marked(r, b)
  <2>1. Clash(booking[b], booking[c])
    BY <1>1, MarkKeepsRange
  <2>2. ~Active(b)
    BY <2>1 DEF DoubleBooked
  <2> QED
    BY <1>1, <2>2, MarkRevives
<1>2. CASE Placed(r, b)
  <2>1. /\ req[r].op \in {"create", "update"} /\ req[r].at = "write"
        /\ req[r].op = "update" => req[r].booking = b
    BY <1>2 DEF Placed, Writes
  <2>2. Clash(req[r], booking[c])
    BY <1>2 DEF Placed, Clash
  <2>3. Clash(booking[c], req[r])
    BY <2>1, <2>2, WritersHaveRanges, RowsHaveRanges, ClashBothWays DEF Active
  <2>4. Known(r, c) /\ SawBookings(req[r])
    BY <2>1, SplitCalendar DEF SawBookings
  <2> QED
    BY <1>2, <2>1, <2>3, <2>4 DEF Known, Placed
<1>3. CASE booking'[b] = Gone
  BY <1>3 DEF Active, Exists
<1> QED
  BY <1>1, <1>2, <1>3 DEF WritesRow

\* One step: the rows of two bookings come to overlap by a revival or in a race.
LEMMA DoubleBookingStep ==
  ASSUME TypeOK, TypeOK', CalendarInv, CalendarKinds,
         NEW b \in BookingIds, NEW c \in BookingIds,
         DoubleBooked(b, c)', ~DoubleBooked(b, c)
  PROVE  \/ Revives(b) \/ Revives(c)
         \/ \E r \in Requests : /\ Writes(r, {"create", "update"})
                                /\ {b, c} \cap req[r].stale # {}
<1>1. /\ b # c /\ Active(b)' /\ Active(c)'
      /\ Clash(booking'[b], booking'[c])
  BY DEF DoubleBooked, Clash
<1>2. Clash(booking'[c], booking'[b])
  <2>1. /\ booking'[b].from \in Times /\ booking'[b].to \in Times
        /\ booking'[c].from \in Times /\ booking'[c].to \in Times
    BY <1>1, RowsHaveRanges DEF TypeOK, Active, Exists, BookingRow
  <2> QED
    BY <1>1, <2>1, ClashBothWays
<1>3. booking' # booking
  BY DEF DoubleBooked, Active, Exists, Clash
<1>4. PICK r \in Requests, x \in BookingIds : WritesRow(r, x)
  BY <1>3 DEF CalendarKinds, Calm, WritesBlock, DropsBlock
<1>5. \A y \in BookingIds \ {x} : booking'[y] = booking[y] /\ (Active(y)' <=> Active(y))
  BY <1>4 DEF WritesRow, Active, Exists
<1>6. CASE x = b
  <2>1. Active(c) /\ Clash(booking'[b], booking[c])
    BY <1>1, <1>5, <1>6
  <2> QED
    BY <1>1, <1>4, <1>6, <2>1, RowOverlaps
<1>7. CASE x = c
  <2>1. Active(b) /\ Clash(booking'[c], booking[b])
    BY <1>1, <1>2, <1>5, <1>7
  <2>2. ~DoubleBooked(c, b)
    <3>1. SUFFICES ASSUME Active(c), Clash(booking[c], booking[b]) PROVE FALSE
      BY DEF DoubleBooked
    <3>2. Clash(booking[b], booking[c])
      BY <2>1, <3>1, RowsHaveRanges, ClashBothWays DEF Active
    <3> QED
      BY <1>1, <2>1, <3>1, <3>2 DEF DoubleBooked
  <2> QED
    BY <1>1, <1>4, <1>7, <2>1, <2>2, RowOverlaps
<1>8. CASE x \notin {b, c}
  BY <1>1, <1>5, <1>8 DEF DoubleBooked
<1> QED
  BY <1>6, <1>7, <1>8

\* The same of a booking and a blocked range.
LEMMA BlockClashStep ==
  ASSUME TypeOK, TypeOK', CalendarInv, CalendarKinds,
         NEW b \in BookingIds, NEW k \in BlockIds,
         BookedOverBlock(b, k)', ~BookedOverBlock(b, k)
  PROVE  \/ Revives(b)
         \/ \E r \in Requests :
              \/ Writes(r, {"create", "update"}) /\ k \in req[r].staleBlocks
              \/ Writes(r, {"block"}) /\ b \in req[r].stale
<1>1. /\ Active(b)' /\ Blocks(k)' /\ Clash(booking'[b], block'[k])
  BY DEF BookedOverBlock, Clash
<1>2. CASE Calm
  BY <1>1, <1>2 DEF Calm, BookedOverBlock, Active, Exists, Blocks
<1>3. ASSUME NEW r \in Requests, NEW x \in BookingIds, WritesRow(r, x)
      PROVE  Revives(b) \/ (Writes(r, {"create", "update"}) /\ k \in req[r].staleBlocks)
  <2>1. /\ block' = block /\ Blocks(k) /\ Clash(booking'[b], block[k])
        /\ x # b => booking'[b] = booking[b] /\ Active(b)
    BY <1>1, <1>3 DEF WritesRow, Blocks, Active, Exists
  <2>2. x = b
    BY <2>1 DEF BookedOverBlock
  <2>3. CASE Marked(r, b)
    <3>1. Clash(booking[b], block[k])
      BY <2>1, <2>3, MarkKeepsRange
    <3>2. ~Active(b)
      BY <2>1, <3>1 DEF BookedOverBlock
    <3> QED
      BY <1>1, <2>3, <3>2, MarkRevives
  <2>4. CASE Placed(r, b)
    <3>1. req[r].op \in {"create", "update"} /\ req[r].at = "write"
      BY <2>4 DEF Placed, Writes
    <3>2. Clash(req[r], block[k])
      BY <2>1, <2>4 DEF Placed, Clash
    <3>3. Clash(block[k], req[r])
      BY <2>1, <3>1, <3>2, WritersHaveRanges, RowsHaveRanges, ClashBothWays
    <3>4. KnownBlock(r, k) /\ SawBlocks(req[r])
      BY <3>1, SplitCalendar DEF SawBlocks
    <3> QED
      BY <2>1, <2>4, <3>3, <3>4 DEF KnownBlock, Placed
  <2>5. CASE booking'[b] = Gone
    BY <1>1, <2>5 DEF Active, Exists
  <2> QED
    BY <1>3, <2>2, <2>3, <2>4, <2>5 DEF WritesRow
<1>4. ASSUME NEW r \in Requests, NEW x \in BlockIds, WritesBlock(r, x)
      PROVE  Writes(r, {"block"}) /\ b \in req[r].stale
  <2>1. /\ booking' = booking /\ Active(b) /\ Clash(booking[b], block'[k])
        /\ x # k => block'[k] = block[k] /\ Blocks(k)
    BY <1>1, <1>4 DEF WritesBlock, Blocks, Active, Exists
  <2>2. x = k
    BY <2>1 DEF BookedOverBlock
  <2>3. Clash(booking[b], req[r])
    BY <1>4, <2>1, <2>2 DEF WritesBlock, Clash
  <2>4. Writes(r, {"block"}) /\ req[r].op = "block" /\ SawBookings(req[r])
    BY <1>4 DEF WritesBlock, Writes, SawBookings
  <2>5. Known(r, b)
    BY SplitCalendar
  <2> QED
    BY <2>1, <2>3, <2>4, <2>5 DEF Known
<1>5. ASSUME NEW x \in BlockIds, DropsBlock(x)
      PROVE  FALSE
  <2>1. booking' = booking /\ Active(b) /\ block' = [block EXCEPT ![x] = Gone]
    BY <1>1, <1>5 DEF DropsBlock, Active, Exists
  <2>2. x # k
    BY <1>1, <2>1 DEF Blocks, TypeOK
  <2>3. block'[k] = block[k] /\ Blocks(k)
    BY <1>1, <2>1, <2>2 DEF Blocks, TypeOK
  <2> QED
    BY <1>1, <2>1, <2>3 DEF BookedOverBlock
<1> QED
  BY <1>2, <1>3, <1>4, <1>5 DEF CalendarKinds

\* The same of two blocked ranges: addAvailability has missed one of them.
LEMMA BlockedTwiceStep ==
  ASSUME TypeOK, TypeOK', CalendarInv, CalendarKinds,
         NEW k \in BlockIds, NEW l \in BlockIds,
         BlockedTwice(k, l)', ~BlockedTwice(k, l)
  PROVE  \E r \in Requests : /\ Writes(r, {"block"})
                             /\ {k, l} \cap req[r].staleBlocks # {}
<1>1. /\ k # l /\ Blocks(k)' /\ Blocks(l)' /\ Clash(block'[k], block'[l])
  BY DEF BlockedTwice, Clash
<1>2. Clash(block'[l], block'[k])
  <2>1. /\ block'[k].from \in Times /\ block'[k].to \in Times
        /\ block'[l].from \in Times /\ block'[l].to \in Times
    BY <1>1 DEF TypeOK, Blocks, BlockRow
  <2> QED
    BY <1>1, <2>1, ClashBothWays
<1>3. block' # block
  BY DEF BlockedTwice, Blocks, Clash
<1>4. ASSUME NEW x \in BlockIds, DropsBlock(x)
      PROVE  FALSE
  <2>1. block' = [block EXCEPT ![x] = Gone]
    BY <1>4 DEF DropsBlock
  <2>2. x # k /\ x # l
    BY <1>1, <2>1 DEF Blocks, TypeOK
  <2>3. block'[k] = block[k] /\ Blocks(k) /\ block'[l] = block[l] /\ Blocks(l)
    BY <1>1, <2>1, <2>2 DEF Blocks, TypeOK
  <2> QED
    BY <1>1, <2>3 DEF BlockedTwice
<1>5. PICK r \in Requests, x \in BlockIds : WritesBlock(r, x)
  BY <1>3, <1>4 DEF CalendarKinds, Calm, WritesRow
<1>6. /\ Writes(r, {"block"}) /\ req[r].op = "block" /\ req[r].at = "write"
      /\ \A y \in BlockIds \ {x} : block'[y] = block[y] /\ (Blocks(y)' <=> Blocks(y))
  BY <1>5 DEF WritesBlock, Writes, Blocks
<1>7. ASSUME NEW y \in BlockIds, y # x, Blocks(y)', Clash(block'[x], block'[y])
      PROVE  y \in req[r].staleBlocks
  <2>1. Blocks(y) /\ Clash(req[r], block[y])
    BY <1>5, <1>6, <1>7 DEF WritesBlock, Clash
  <2>2. Clash(block[y], req[r])
    BY <1>6, <2>1, WritersHaveRanges, RowsHaveRanges, ClashBothWays
  <2>3. KnownBlock(r, y) /\ SawBlocks(req[r])
    BY <1>6, SplitCalendar DEF SawBlocks
  <2> QED
    BY <2>1, <2>2, <2>3 DEF KnownBlock
<1>8. x = k \/ x = l
  BY <1>1, <1>6 DEF BlockedTwice
<1> QED
  BY <1>1, <1>2, <1>6, <1>7, <1>8

\* What the three theorems below rest on.
LEMMA KindsHold == Spec => [](TypeOK /\ MoneyInv /\ CalendarInv)
BY Inductive, QueriesHold, PTL

\* Two bookings come to overlap only when a cancelled one is confirmed, or when
\* create or update writes over a row its overlap query ran too early to see.
THEOREM OnlyRacesDoubleBook == Spec => DoubleBookingIsRace
<1>1. /\ TypeOK /\ MoneyInv /\ CalendarInv
      /\ TypeOK' /\ [Next]_vars
      => [\A b, c \in BookingIds :
            DoubleBooked(b, c)' /\ ~DoubleBooked(b, c) =>
              \/ Revives(b) \/ Revives(c)
              \/ \E r \in Requests : /\ Writes(r, {"create", "update"})
                                     /\ {b, c} \cap req[r].stale # {}]_vars
  BY CalendarSteps, DoubleBookingStep
<1> QED
  BY <1>1, KindsHold, PTL DEF Spec, DoubleBookingIsRace

\* A booking comes to lie in a blocked range only by a revival, or when one of
\* the two was written after the other one's writer had looked.
THEOREM OnlyRacesBookBlocks == Spec => BlockClashIsRace
<1>1. /\ TypeOK /\ MoneyInv /\ CalendarInv
      /\ TypeOK' /\ [Next]_vars
      => [\A b \in BookingIds, k \in BlockIds :
            BookedOverBlock(b, k)' /\ ~BookedOverBlock(b, k) =>
              \/ Revives(b)
              \/ \E r \in Requests :
                   \/ Writes(r, {"create", "update"}) /\ k \in req[r].staleBlocks
                   \/ Writes(r, {"block"}) /\ b \in req[r].stale]_vars
  BY CalendarSteps, BlockClashStep
<1> QED
  BY <1>1, KindsHold, PTL DEF Spec, BlockClashIsRace

\* Two blocked ranges come to overlap only when two addAvailability race.
THEOREM OnlyRacesBlockTwice == Spec => BlockedTwiceIsRace
<1>1. /\ TypeOK /\ MoneyInv /\ CalendarInv
      /\ TypeOK' /\ [Next]_vars
      => [\A k, l \in BlockIds :
            BlockedTwice(k, l)' /\ ~BlockedTwice(k, l) =>
              \E r \in Requests : /\ Writes(r, {"block"})
                                  /\ {k, l} \cap req[r].staleBlocks # {}]_vars
  BY CalendarSteps, BlockedTwiceStep
<1> QED
  BY <1>1, KindsHold, PTL DEF Spec, BlockedTwiceIsRace

(***************************************************************************)
(* One handler at a time.                                                   *)
(***************************************************************************)
\* Nothing is written behind the back of a handler that is alone.
Undisturbed ==
  \A r \in Requests : /\ req[r].stale = {} /\ req[r].staleBlocks = {}
                      /\ req[r].op \in Ops \cup {None}

\* A step of a handler that is alone leaves nothing behind its queries.
LEMMA AloneStep ==
  ASSUME TypeOK, NEW h, Requests = {h}, Undisturbed, CalendarKinds
  PROVE  Undisturbed'
<1>1. /\ req[h].stale = {} /\ req[h].staleBlocks = {} /\ req[h].op \in Ops \cup {None}
  BY DEF Undisturbed
<1>2. SUFFICES /\ req'[h].stale = {} /\ req'[h].staleBlocks = {}
               /\ req'[h].op \in Ops \cup {None}
  BY DEF Undisturbed
<1>3. CASE Calm
  BY <1>1, <1>3 DEF Calm, SlotCalm
<1>4. ASSUME NEW r \in Requests, NEW b \in BookingIds, WritesRow(r, b)
      PROVE  /\ req'[h].stale = {} /\ req'[h].staleBlocks = {}
             /\ req'[h].op \in Ops \cup {None}
  <2>1. PICK next : Fresh(req[r], next) /\ WroteBooking(r, b, next)
    BY <1>4 DEF WritesRow
  <2>2. r = h /\ req'[h] = next
    BY <2>1, WriterNext
  <2> QED
    BY <1>1, <2>1, <2>2 DEF Fresh
<1>5. ASSUME NEW r \in Requests, NEW k \in BlockIds, WritesBlock(r, k)
      PROVE  req'[h] = Idle
  BY <1>5 DEF WritesBlock, WroteBlock
<1>6. ASSUME NEW k \in BlockIds, DropsBlock(k)
      PROVE  req'[h] = req[h]
  BY <1>6 DEF DropsBlock
<1> QED
  BY <1>1, <1>3, <1>4, <1>5, <1>6 DEF CalendarKinds, Idle

\* It does not make anything overlap either, unless it revives a booking.
LEMMA AloneSerial ==
  ASSUME TypeOK, TypeOK', CalendarInv, CalendarKinds, NEW h, Requests = {h}, Undisturbed,
         \A b \in BookingIds : ~Revives(b), SerialCalendar
  PROVE  SerialCalendar'
<1>1. \A b, c \in BookingIds : ~DoubleBooked(b, c)'
  BY DoubleBookingStep DEF SerialCalendar, NoDoubleBooking, Undisturbed
<1>2. \A b \in BookingIds, k \in BlockIds : ~BookedOverBlock(b, k)'
  BY BlockClashStep DEF SerialCalendar, NoBookedBlock, Undisturbed
<1>3. \A k, l \in BlockIds : ~BlockedTwice(k, l)'
  BY BlockedTwiceStep DEF SerialCalendar, Undisturbed
<1> QED
  BY <1>1, <1>2, <1>3 DEF SerialCalendar, NoDoubleBooking, NoBookedBlock
=============================================================================
