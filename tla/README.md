# Verification of the property rental backend

TLA+ models of the NestJS/Prisma backend in this repository (`src/src/...` below is
its source directory), TLC runs over small instances of them, and TLAPS proofs. The
first part is the inventory of the system and the plan; then the modules, the runs,
the proofs, and what is left out.

## The system

One Node process (or several) serves HTTP requests. Every handler is a chain of
awaited Prisma calls; each call is one SQL statement on PostgreSQL at READ COMMITTED,
and handlers interleave at their awaits. Only `payBooking` uses an interactive
transaction. Redis caches searches. Two cron jobs run in the process. What makes the
system hard is therefore: check-then-write over several statements with nothing but a
few unique constraints and foreign keys behind it, row locks in the one transaction,
statements that follow a commit (notifications, cache invalidation), and work that
fails half way.

| Component | State | Operations | Correct if |
| --- | --- | --- | --- |
| Bookings (`bookings.service.ts`) | Booking, BookingGuest | create, update, cancel, confirm, remove; reads | no two live bookings of one property overlap, none lies in a blocked range, a stored booking has its property's tenant |
| Payments (`payments.service.ts`) | Payment, Invoice, Booking.status | payBooking | payment, confirmation and invoice come together or not at all, once, and stay; a cancelled booking is not paid; handlers do not deadlock |
| Properties (`properties.service.ts`) | Property, Availability, PropertyImage, PropertyAmenity, PropertyRule | create, update, remove, reactivate, add/removeAvailability, images, amenities, rules | blocks do not overlap bookings or each other; an amenity is listed once |
| Notifications (`notifications.service.ts`) | Notification | create, notifyUser, notifyTenantAdmins, notifySuperAdmins, markRead, markAllRead | what happened is announced; a reader sees only what is theirs |
| Invoices (`invoices.service.ts`) | none of its own | findMine, findOne, findByBooking | reads only |
| Search (`search.service.ts`, `cache/redis-cache.service.ts`) | Redis entries with a TTL, SearchHistory | searchProperties, clearCache | a deactivated listing is not served once its deactivation has been answered, or at least not for longer than the TTL |
| Authentication (`auth/`) | RefreshToken | register, login, refresh, logout; guards | a refresh token is used once; a deleted user has no session |
| Users (`users.service.ts`) | User | updateUser, deleteUser, updateUserRole | deletion and role changes against sessions and rows of the user |
| Platform (`platform.service.ts`) | Tenant, its admins | createTenant, updateTenant, deleteTenant, de/reactivate, createTenantAdmin | a tenant with data is not deleted; its listings vanish when it is deactivated |
| Reviews (`reviews.service.ts`, `jobs/review-analysis.job.ts`) | Review, ReviewAnalysis | create, update, delete; the analysis job | one review per user and property; an analysis is of the review's text; every review is analysed in the end |
| Favorites (`favorites.service.ts`) | FavoriteProperty | add, findMine, remove | at most one per user and property |
| AI helpers, history clean-up, bootstrap | none that others rely on | | |

Interactions: Bookings, Payments and Properties share the tables Booking, Availability
and Property; all of them call Notifications after their own write; Properties and
Platform call `SearchService.clearCache` after theirs; the guards supply role and
tenant from the access token, which is not checked against the tables again; the
review job calls the external language model.

PROJECT.json lists the components with their status and, under "hazards", the places
where this code is hard to test, with the properties that watch them.

## Plan

1. **Booking core** (done): `RentalStore`, `Bookings`, `Payments`, `Listings`,
   `BookingNotices`, composed by `Rentals`; the abstract `InvoiceLedger`; `MCRentals`
   and its runs; `RentalsProofs`.
2. **Search cache** (done): `SearchCache`, `MCSearchCache`, `SearchCacheProofs`.
3. **Sessions and accounts** (done): `AuthTokens`, `MCAuthTokens`, `AuthTokensProofs`.
4. **Reviews and their analysis** (done): `ReviewAnalysis`, `MCReviewAnalysis`,
   `ReviewAnalysisProofs`.
5. **Tenants, accounts, listings, notifications, favorites** (done): `TenantStore`,
   `Platform`, `Inbox`, `Catalogue`, composed by `Tenancy`; the abstract `TenantLife`;
   `MCTenancy`, `TenancyProofs`.
6. **The calendar proved** (done): `CalendarProofs`.
7. **What handlers have read, and how far they get** (done): `PaidAsRead` and `BookedAsRead` with
   `StaleReadProofs`; `ProgressProofs`; the abstract `SessionLife`.
8. What one might add: the search cache as a read that may lag behind the tables by a bounded
   time, as an abstract specification; `Rentals` and `Tenancy` over one set of tables; several server
   processes for the review job.

## The modules

**RentalStore** has the tables and the request slots that all others work on. A table is
a function from primary keys to rows, with `None` for a key not yet given out and `Gone`
for a deleted row; `invoice` is keyed by `bookingId`, which is unique. A handler in flight is
a slot of `req`: `op` is the route, `at` the statement that comes next, the other fields the
locals that survive an await. One action is one awaited statement together with the
synchronous code up to the next await. A request that the code refuses at its first
statement is not begun; one refused later ends (`Finish`) with nothing written.

A payment transaction's writes are put into the tables at its commit, since READ
COMMITTED hides them until then. What others do notice before is its locks:
`HoldsBooking` (row lock taken by `booking.update`), `HoldsPayment` (row lock of an
updated payment, or the key-share lock the foreign key of a new one takes, which only
DELETE waits for). A writer of a locked row is not enabled, which is PostgreSQL making it
wait.

`stale`, `staleBlocks` and `moved` are history variables inside the slots: the bookings and blocks written
since the slot's own overlap queries (in a payment: since its first read), and whether the listing was
written since the slot read it. Nothing reads them but the properties.

**Bookings** is `BookingsService`: `BeginCreate`, `FindBooking`, `FindBlock`, `InsertBooking` for
create; `BeginUpdate`, `ReadProperty`, `FindBooking`, `FindBlock`, `WriteUpdate` for update;
`BeginCancel`/`BeginConfirm`/`BeginRemove` and then `WriteCancel`, `WriteConfirm` or
`DeleteBooking`. `OverlapFound` and `BlockFound` are the two queries. `MaySee` in RentalStore is
`verifyTenantBooking`. The price is whole nights, rounded up, at the listing's rate, as
`calculateTotalPrice` has it. An update's patch may leave fields out; the old value is then
one of those chosen from, except for the status, which is then not written (`None`). The
status in an update's body is any string in the code; the code tells apart only CANCELLED,
CONFIRMED and the rest, so three values do.

**Payments** is `payBooking`: `BeginPay` (the first read and all refusals), `FindPayment`,
`WritePayment`, `ConfirmRow`, `FindInvoice`, `InsertInvoice` (which commit through `Commit`), and
`Timeout`, the rollback.

**Listings** is the part of `PropertiesService` that bookings depend on: status and price
(`ChangeListing`), `BeginBlock` … `InsertBlock` for addAvailability, `RemoveBlock`. A property's
tenant never changes (`update` strikes `tenantId`, and no route deletes a property), so it is the
constant `TenantOf`.

**BookingNotices** inserts the notifications that refer to a booking, after the commit, by
statements of their own that fail when the booking is gone.

**Rentals** composes them: `Begin(r)`, `Step(r)` and `Timeout(r)` of each slot, `ChangeListing`,
`RemoveBlock`, and `Crash`, which empties the slots and leaves the tables. It states the
properties.

**InvoiceLedger** is the abstract specification: per booking `new`, `open`, `settled` or
`dropped`, and the amount of the bill, which is set at the settlement and never again.
`Rentals` maps onto it with `Stage` and `Bill`.

**MCRentals** gives the constants of the instances.

**SearchCache** is `searchProperties` with Redis and the routes that hide and show listings. A
listing is hidden if it or its tenant is not ACTIVE (`Public`, the `where` of the query). A search is
`BeginSearch`, then `Hit` or `Miss`, `Query`, `Fill`; each is one call of Redis or PostgreSQL. An admin
request writes its row and starts `clearCache` in one step (`Write`), since the call up to the
first SCAN is synchronous; the property routes then wait for it (`Cleared`), the tenant routes go on
beside it. `Scan` and `Delete` are the loop of `deleteByPattern`: SCAN goes through the keys in an
order of its own and is sure to find only a key that is there from its first call to its last, so
`todo` is what it has not come to. Redis is external: a call may fail (`ClearFails`, the disjuncts of
`Miss` and `Fill`), and an entry lives for `TTL` ticks (`Tick`, `Aged`). `late` (what was hidden while a search held it), `spared` (left behind
by a clear that was given up), `fill`, `age` and `hidden` (times) are history.

**AuthTokens** is `AuthService` with the routes of other services that touch accounts: `BeginRegister`,
`CreateUser`; `BeginLogin`; `Sign`, `Store` (`issueTokens`); `BeginRefresh`, `ReadUser`, `DeleteToken`; `Logout`;
`CreateTenantAdmin`; `BeginDelete`, `DropTokens`, `DropUser` (`deleteUser`); `ChangeRole`. A JWT is its claims:
tokens of one account, role and second are one string, as the signature over the same bytes is, and
`stored` is keyed by it. `access` are the access tokens in clients' hands, which the guards believe until
they expire; `MayManage` is what the checks of `deleteUser` and `updateUserRole` make of one. `login` on a
row or a request, `begun`, `changed` and `read` are history: which sign-in a token descends from, when
an account's role changed, when the role in a token was read. External: the verification of
signatures, the hashing of passwords, PostgreSQL's unique and foreign keys.

**SessionLife** is the abstract specification: a sign-in is pending when a request is about to store
a token for it, open when a token is stored, closed for good after; it is of one account from beginning
to end; deleting an account's tokens (`Revoke`) closes all open sign-ins of that account and no other; a crash
(`Abandon`) closes what is pending. `AuthTokens` maps onto it with `Life` and `Whose`.

**ReviewAnalysis** is `ReviewsService` and `ReviewAnalysisJob`: `FindReview` and `InsertReview`
(`createReview`), `UpdateReview`, `DeleteReview`; `Trigger` (the cron and the flag), `FindBatch` or
`FindFails`, then for each review of the batch `Succeed` and `Store`, or `Fail`; `Continue` is the rest of the
loop and the `finally`. The language model is external: it answers, fails now and then
(`"ai" \in Faults`), or fails on a comment each time (`Unreadable`). Ids grow with `createdAt`, by which the
batch is ordered. `late`, `missed` and `edited` are history.

**TenantStore** has the tables of the other services, and request slots as in RentalStore. `stale` is
history: a request has at each position some facts it goes by (`Looks`: a slug was free, a tenant
was empty, a listing public), and a step of another request that changes such a fact puts it
there. `scene` is the set of operations that clients use; each instance begins with one of `Scenes`,
rows that the application may have left, since most of what the routes do needs several routes
before it. `badge` is in which tenant's name an account has had an admin's access token: the
guards believe it after the role or the account is gone, and how long is the subject of
AuthTokens, so here it does not expire.

**Platform** is `PlatformService` and the routes of `UsersService`: `BeginCreateTenant`, `InsertTenant`;
`BeginUpdateTenant`, `UpdateTenant`; `BeginDeleteTenant`, `DropTenant`; `SetStatus` (de- and
reactivateTenant); `BeginHire`, `FindRole`, `InsertRole`, `InsertUser` (createTenantAdmin); `Register`, `UpdateUser`,
`ChangeRole`, `DeleteUser`. Foreign keys are part of the writes: `DropTenant` is refused by an account or
a listing of the tenant and lets its notifications go (SET NULL); `DeleteUser` is refused by a listing or
a favorite.

**Inbox** is `NotificationsService`: `FindAdmins` and one `Tell` for each admin found (notifyTenantAdmins with its
`Promise.all`), `BeginMarkRead` and `WriteRead`, `MarkAllRead`, and `Sees`, the `visibleToUserWhere` of
all reads. Notifications about bookings and payments are in BookingNotices.

**Catalogue** is the rest of `PropertiesService` (create, update, remove and reactivate with the status and
the owner they write; images, amenities, rules) and `FavoritesService` (`BeginSave`, `FindSaved`, `InsertSaved`,
`Unsave`). update may name another owner, whom the code does not look at; `patched` remembers it.

**Tenancy** composes them, with `Tick`, the clock that the reading times are taken from, and `Crash`, and
states the properties.

**TenantLife** is the abstract specification: a tenant is founded under a slug no other has, may be
renamed, closed and opened, is joined and left by accounts, is given listings that stay with it, and
is deleted for good, only when it has neither accounts nor listings.

**MCTenancy** gives the scenes.

Operators whose comment begins "A bug:" stand before the definition they are a broken version of;
they are used by no specification, only to see that a property notices (PROJECT.json, "mutants").

## The properties and the runs

Calendar. `NoDoubleBooking` and `NoBookedBlock` are what the error messages, README and tests of
the repository say; the code does not keep them, see below. What it does keep:
`CalendarInv` (after its query a handler's range clashes only with rows written since) and
`DoubleBookingIsRace`, `BlockClashIsRace`, `BlockedTwiceIsRace`: a clash appears only in a step
of a handler one of whose opponents was written after its query, or by reviving a cancelled
booking. `SerialCalendar`: with handlers one at a time and no confirm, nothing ever overlaps,
even when update moves a booking to another tenant's listing. No run checks it: it is a theorem.

Money. `PaidIffInvoiced`, `SettledAtOnce` (payment, status and invoice in one step, for the price
read), `SettledStays` (never taken back, changed or deleted), and `TransactionInv`: the invoice
insert never meets the unique `bookingId` (`InvoiceSlotFree`), and the row locks that are why (`RowLockInv`).
`ImplementsLedger` is the refinement. `ConfirmedIsPaid` holds as long as nobody uses the confirm route or an update
that sets the status.

Stale reads. `PaidAsRead`: a payment is written over a pending booking that nobody has paid for, at its
price, unless the booking was written between payBooking's first read and the commit; that is
the only way to a cancelled booking that is paid, a second payment or an old price. `BookedAsRead`: create
and update write a stay at an active listing for its price per night, unless the listing was written after
they had read it.

Progress. `EveryRequestEnds` and `PaymentAnnounced`.

Search. `StaleIsRaced`: the cache shows a hidden listing for three reasons only, a clear still under
way, a search that read before the change and stored after it, or a clear given up.
`StaleIsBounded`: and never longer than an entry lives plus the time that search took.
`CacheSettles`: about a listing that stays as it is the cache comes to agree with the tables.
`AnsweredIsHidden`, what README promises, does not hold.

Sessions. `OneSession`: a sign-in has one row or one request about to store one, never two, and
no account goes under its tokens. `LogoutIsFinal`: a logout ends a sign-in and no refresh under way
starts it again. `ImplementsSessionLife` is the refinement; that a session keeps its account is worth checking,
since a refresh deletes a row by its token, and when tokens of one second are equal that may be the
row of another sign-in than the one it had found. `RoleWasRead`: an access token says what its account's role was when the issuing
request read it, or later; so only requests under way overtake a change of role.

Reviews. `DuplicateIsRace`, `NothingTwice` (the flag), `AnalysisHasReview`, `AnalysisIsOfText` and
`ReadableAnalysed`: a review that the language model can read is analysed, unless time and again
enough older unreadable ones fill the batch (`Starved`), which the code lets happen.

Tenancy. `RowsHaveOwners`: accounts and listings have their tenants, listings and favorites their accounts,
and an owner whom create checked is of the listing's tenant, whatever is deleted between the check and
the insert. `ChecksKept`: what any handler has found out at one statement is still so at the write it
is for, unless another request changed it after. `NoticeScope`: a notification is seen by
its addressee only, while that account is there, and never outside its tenant; deletion of the account,
changes of role and old tokens do not widen this. `LostNoticeIsRace`, `CreatedActiveIsRace`, `SavedHiddenIsRace`,
`DuplicateAmenityIsRace`, `ReadTimeKept`: that a notification loses its tenant, that a closed tenant gets an
active listing, that a hidden listing is saved, that an amenity is listed twice, that a reading time
is replaced, each can happen, and only to a request that another overtook between its look and its
write. `ImplementsTenantLife` is the refinement.

| Run | Instance | Result |
| --- | --- | --- |
| `calendar` | 2 handlers, 2 bookings, 2 blocks, 3 instants, 1 listing | `CalendarInv`, `DoubleBookingIsRace`, `BlockClashIsRace`, `BlockedTwiceIsRace` hold |
| `money` | 2 handlers, 1 booking, 2 payments, 2 rates, with rollback and crash | types, all money properties, `PaidAsRead` and `BookedAsRead` hold |
| `progress` | 2 handlers, 1 booking, fair | `EveryRequestEnds`, `PaymentAnnounced` hold |
| `search` | 1 search, 1 admin request, 2 queries, with Redis failing and crashes, fair | `TypeOK`, `StaleIsRaced`, `StaleIsBounded`, `CacheSettles` hold |
| `sessions` | 2 requests, 2 sign-ins, a guest and 2 tenant admins, 2 seconds, with deletions and crashes | `OneSession`, `LogoutIsFinal`, `ImplementsSessionLife` hold |
| `staff` | 2 requests, 2 sign-ins, 2 tenant admins, 2 seconds | `TypeOK`, `RoleWasRead` hold |
| `reviews` | 3 creates of 1 user, 2 calls of the job, 3 reviews, batches of 2, with failures and crashes, fair | `TypeOK` and the five review properties hold |
| `tenancy` | 2 requests, 2 tenants, 3 accounts, 2 listings, 2 notifications, in 7 scenes, with crashes | `TypeOK` and the nine tenancy properties hold |
| `double_booking` | 2 creates | `NoDoubleBooking` violated |
| `paid_twice` | 2 payments at a time | `PaidOnce` violated |
| `cancelled` | cancel between payBooking's read and its transaction | `CancelledNotPaid` violated |
| `search_late` | a search between its query and its SET, a listing hidden and answered | `AnsweredIsHidden` violated |

The four violations are disagreements between the code and what the repository says of it;
PROJECT.json, "findings", quotes both sides. Some more follow from the exceptions the
passing properties name, and can be had by putting the plain property into a configuration:
`NoBookedBlock` fails in the `calendar` instance (a create and an addAvailability pass each other's
query); `NoDoubleBooking` fails for one handler with create, cancel, create, confirm;
`ConfirmedIsPaid` fails in `money` as soon as `Ops` has `"confirm"`, which the guest may call without
having paid, and payBooking then answers that the booking is paid.

**Bounds.** Primary keys are a finite set, so the number of rows ever made is bounded
(`KeysLeft`, `PaymentKeysLeft` and the guard of `BeginBlock` start no handler that would find no key).
When all keys are used and all handlers idle, an instance may have nothing left to do: that is why
the runs of MCRentals do not check deadlock; waiting for locks is watched by `EveryRequestEnds`
instead. In MCAuthTokens time and sign-ins run out, in MCTenancy keys; the runs of MCSearchCache and
MCReviewAnalysis check deadlock. Every calendar property relates two rows and one
handler that wrote late to another that wrote in between, so two rows and two handlers show every
shape of clash; three instants give disjoint, touching, equal and nested ranges. The money
properties are about one booking, and the row locks are per booking: two handlers are two payments,
or a payment and a third party, with a listing repriced or deactivated and dates changed in between; what
three handlers do is covered by the proofs. There are about 494,000 distinct states up to symmetry. A day is one instant. The views and the request symmetry of the configurations
drop what no checked property depends on: notifications in the calendar runs, and which slot
a handler runs in. The run with liveness uses neither.

The safety properties of `search`, `sessions`, `staff` and `reviews` are proved
for every size, so their instances need only be large enough to see each action and each
broken version, and small enough for the liveness properties. `search`: two queries make a clear of
two keys in one or two pages; `TTL` 2 and `MaxFill` 1 let an entry be stored late and age. `AgeCap` ends
the counting of ages where no property tells them apart. `staff`: tokens live for one of two seconds,
so a refresh may begin before a change of role and a second and end after. `sessions`: two sign-ins within
one second give equal tokens, two admins can delete each other, and only a guest registers. `reviews`: three reviews and
batches of two, so that a batch can be full of unreadable reviews while another waits; the three
are of one user, since only that makes duplicates.

`tenancy` is the sum of seven scenes: `Founding` (tenants are created, renamed, deleted and staffed at a time),
`Closing` (an empty tenant is deleted while admins and notifications come), `Publishing` (listings are created
while the tenant is closed and accounts go), `Reading` and `Promoting` (admins are told, read, change
roles and are deleted), `Browsing` (favorites) and `Furnishing` (amenities, images, rules). Two
requests are what each of the races needs; two slugs and three emails let one be taken and another free;
a third account and a second tenant are there for a notification to be seen by the wrong one. An insert for
which no key is left waits for ever, so deadlock is not checked. There are about 755,000 distinct
states, up to symmetry of requests, notifications and details.

**Fairness.** `FairSpec` is strong fairness of every slot's `Step`. Node always returns to
a handler whose statement was answered, and PostgreSQL grants a row lock in the order of its queue,
so a statement that is again and again able to run does run. Beginning a request, `Timeout`,
`Crash`, `ChangeListing` and `RemoveBlock` are not fair: no client has to come, nothing has to
fail. `PaymentAnnounced` is checked without rollbacks and crashes, since the code sends no
notification again after a crash.

In `SearchCache` the steps that have begun are weakly fair, since Node and Redis go on with them;
`Tick` is strongly fair, because the bound `MaxFill` on the time a search holds its result stops
time now and then. Failures and crashes are not fair, and `CacheSettles` holds in spite of them.
In `ReviewAnalysis` the cron keeps coming and a call goes on (weak fairness); what is tried again
and again is not cut off by a failure or a crash each time (strong fairness of the batch's query,
of the insert, and for each review of the end of its turn and of an answer about a
comment the model can read). Without the last, "every review is analysed" would ask an answer of
a service that never gives one.

## The proofs

### Payments and bookings

`RentalsProofs` proves, for every value of the constants that satisfies `StoreAssumption` (any
number of users, listings, bookings, payments and handlers; keys, instants and rates natural
numbers; `None` and `Gone` unlike any row; TLC evaluates it in every run):

- `TypeCorrect`: `Spec => []TypeOK`
- `PaymentsInvoiced`, `TransactionsHold`: `Spec => []` `PaidIffInvoiced`, `TransactionInv`
- `SettledForGood`, `SettlesAtOnce`: `Spec =>` `SettledStays`, `SettledAtOnce`
- `ConfirmedArePaid`: if `Ops` has no `"confirm"` and `Patches` no `"CONFIRMED"`, `Spec => []ConfirmedIsPaid`
- `CoreImplementsLedger`: `Spec => ImplementsLedger`

The inductive invariant is `TypeOK /\ MoneyInv` (`Inductive`). Neither half is inductive: the
commit writes into the row of a booking, which is well typed only if the row is still
there, and that is a matter of the locks in `RowLockInv`; the locks in turn are on bookings
only because the slots are well typed. `PaidIffInvoiced` alone is not inductive either, for the
commit adds an invoice only if it found none, which needs `InvoiceSlotFree`, which needs that
no other transaction holds the row (`RowLockInv`). A part of `TypeOK` is `RequestOK`, what
a handler holds at each of its positions.

The argument: `Kinds` shows that every step is, for money, one of few kinds: quiet (no money, no
lock, no booking goes), forward in a transaction, a commit, a delete, a crash, or nothing. Each
kind keeps `MoneyInv` (`QuietMoney`, `ForwardMoney`, `CommitMoney`, `DeleteMoney`, `CrashMoney`,
`StillMoney`). `CommitPays` says what a commit adds; `Lifecycle` which rows come and go;
`LedgerStep` puts the two together for the refinement. `ConfirmedArePaid` needs beside `MoneyInv` that no request
holds a status to confirm with (`PlainStep`), and that what is settled stays settled (`SettledStep`). Types go action by action (`BeginTyped`,
`ReadTyped`, `WriteBookingTyped`, `LastStepsTyped`, `EnvironmentTyped`).

### The calendar

`CalendarProofs` proves, under the same assumption, `QueriesHold` (`CalendarInv`), `OnlyRacesDoubleBook`,
`OnlyRacesBookBlocks` and `OnlyRacesBlockTwice` (`DoubleBookingIsRace`, `BlockClashIsRace`, `BlockedTwiceIsRace`).
For the calendar a step is calm (no row changes, and a handler that now relies on a query has just made it), writes
a booking, writes a block, or drops a block (`CalendarSteps`). `CalendarInv` is inductive given
`TypeOK /\ MoneyInv` (`CalendarStep`), which say what a handler holds at each position and that the rows a
payment writes are there. The three race properties follow from it for each kind
of step (`DoubleBookingStep`, `BlockClashStep`, `BlockedTwiceStep`): the row just written clashes with one
that its handler's query did not find, which by `CalendarInv` is in `stale`.

### Stale reads

`StaleReadProofs` proves what becomes of values read at one statement and used at a later one.

- `PaymentsAreAsRead`: `Spec => PaidAsRead`. The inductive invariant is `PaymentsSee` beside `TypeOK /\ MoneyInv`: the
  booking of a request in payBooking is there, pending, unpaid and at the price the request holds, or
  is in the request's `stale`. It is kept because every step that writes a booking or pays for
  one tells the payers (`ChangesTold`); the commit then writes what `PaymentsSee` says (`PaymentWritten`).
- `BookingsAreAsRead`: `Spec => BookedAsRead`, from `ListingsSeen` in the same way: the listing of a create or update
  past its read is active and gives the price the request holds, or `moved` says that it was written.
- `NightsRoundUp`: `Nights`, the price's number of nights, is at least one, covers the stay, and no fewer
  nights do.
- `AlonePaysOnce`, `AlonePaysNoCancelled`, `AloneKeepsCalendar`: if `Requests` has one element, `Spec` implies `[]PaidOnce`,
  `CancelledNotPaid`, and, without `"confirm"` in `Ops`, `[]SerialCalendar`. Alone, a handler's `stale` stays empty
  (`AloneHolds`), so none of the exceptions applies. These are the properties that runs show violated: with
  the theorems it is the interleaving, and nothing else, that violates them. That a payment alone does not revive a
  cancelled booking, and so keeps the calendar, is `PaidAsRead` again.

### Progress

Liveness is out of reach, but what `EveryRequestEnds` and `PaymentAnnounced` owe to the steps and not to
fairness is proved in `ProgressProofs`. `HandlersEnd`: a variant, `Ahead`, the statements a handler may
still have before it, at most seven, decreases with each of its steps, and no other step increases it;
a handler that does not end must therefore be one that for ever waits for a lock.
`LocksAreOrdered`: a handler that waits for the row of a payment or of a booking (`Waiting`) takes no step, and is
behind a payment of the same booking that waits for nothing, however many handlers there are (`NoDeadlock`). A payment
takes its payment row first, the booking's second and waits for nothing after that; that all who want one payment row are
about the same booking is `RowLockInv`. So locks never close a circle, and what is left to fairness, and to TLC, is that
PostgreSQL lets a waiter go on when the holder is done. That a handler can take its step exactly when it is not waiting
speaks of `ENABLED` and is not proved; it is no run of its own either, for `EveryRequestEnds` needs it to hold, but TLC
found it true of `progress` with two and with three handlers.
`PaymentsAreTold`: without crashes, for every booking with a payment the guest and the admins have their notification,
or some handler has still to insert it (`PaidIsTold`); with the end of that handler the notification is there.

### The search cache

`SearchCacheProofs` proves `CacheTyped`, `StaleOnlyByRace` and `StaleOnlyForTTL`, for any number of listings,
queries, searches and admin requests, any `TTL` and any failures. `StaleIsRaced` is not inductive: that
`Fill` stores only what was public or is in `late` is known from `SearchInv`, which says so of what a
search holds between its query and its SET, and how long ago it was hidden. `CacheInv` is
the conjunction (`CacheInductive`).

### Sessions and accounts

`AuthTokensProofs` proves `AuthTyped`, `OneSessionEach`, `RolesAreRead` and `LogoutEnds`. `AuthInductive` is the
invariant `TypeOK /\ OneSession /\ RoleWasRead`. For `OneSession` every step leaves the rows
and requests of a sign-in as they are or fewer, begins it, passes it from a request to a row
(`Store`), or from a row to a request (`DeleteToken`); that a request has the sign-in of the row it took
is why `delete`, which fails for the second of two refreshes, keeps them one. `RoleWasRead` is about
the roles requests hold as well as those in tokens, since the one comes from the other.
`LogoutEnds` is an action property from the same invariant.

`SessionsAreLives` is the refinement of `SessionLife`, from `AuthInductive`: a step that leaves the rows and requests of a
sign-in and their account alone leaves `Life` and `Whose` alone (`UntouchedStays`), and each action that
does not is mapped in a lemma of its own (`BeginRefines`, `StoreRefines`, `TakeRefines`, `LogoutRefines`, `DropRefines`,
`CrashRefines`, and `LoseRefines` for a request that fails). `OneSession` gives that what is taken from a
sign-in was all it had; `RequestOK`, that a request's token is its account's, gives that the account stays.

### Reviews

`ReviewAnalysisProofs` proves `ReviewsTyped`, `DuplicatesAreRaces`, `JobRunsOnce`, `AnalysesHaveReviews`,
`AnalysesOfText`. `DuplicateIsRace` needs `SeenReviews`, what a createReview knows past its
findFirst; that a batch holds no analysed review needs that no other call is at work. All steps of
the job but `Succeed` are of one kind, `JobGoesOn` (a batch is taken or left to its rest, an
analysis stored or not), which `GoesOnInv` treats once.

### Tenants

`TenancyProofs` proves, under `TenantAssumption` (the rows at the start agree with each other, as
`Consistent` says; nothing bounds the number of anything), every property of the `tenancy` run. The invariant is
`Sound`, `TypeOK /\ RowsHaveOwners /\ ChecksKept` and `Sure`: the owner and the admins that a handler has found are
accounts of its tenant or deleted (`TenancyInductive`). `ChecksKept` is about what others do, so a proof action by action would ask of
some forty actions what each does to each check of each position. Instead every step is shown to be a
`Turn`: an `Effect` on the tables (a tenant is founded, an account goes, a notification is read, ...,
seventeen in all) together with the facts told to the other requests, and one request at most that takes its turn.
`Told` says that an effect changes no fact but those it tells; it is proved once for each effect (`EffectTold`).
Then a request that is merely told keeps its checks (`CarriedGood`), and what is left of an action is that the
request it moves has them (`TenantTurn`, `HireTurn`, ..., collected in `EveryTurn`).
`OwnersKept` does `RowsHaveOwners` effect by effect.

The five race properties are read off `ChecksKept` at the position of the writer; `Writers` says who writes
what. `TenantsStay` is about the other models: accounts and listings never change their tenant,
which `Rentals`, `SearchCache` and `AuthTokens` have as constants. `NoticesInScope` needs a strengthening of its own, `Trusty`: a notification is its addressee's and of that
account's tenant, or after its deletion nobody's, and a badge is of the account's tenant, which no route changes. `PlatformKeepsLife` maps effects to steps of
`TenantLife`, or to none.

### What is only model-checked

The liveness properties `EveryRequestEnds`, `PaymentAnnounced`, `CacheSettles` and `ReadableAnalysed`, which are
out of the prover's reach; `ProgressProofs` has the safety half of the first two. Every other property of a
passing run is also a theorem.

## Not modelled

- Invoices (reads only), the AI helpers (a prompt and an answer; what the reviews make of it is in
  ReviewAnalysis), the clean-up of the search history (one DELETE by date of rows nothing else reads), the
  Prisma client, bootstrap, `seed.ts`.
- Notifications to super admins, which refer to no tenant and to accounts no route deletes; those about new
  reviews, which are inserted as those about listings are.
- `updateTenant` without a slug, and what listings, amenities, images and rules say: texts and pictures.
- In Tenancy, rows of bookings, reviews and refresh tokens that restrict the deletion of an account: a
  refusal changes nothing, and the model may refuse by a listing or a favorite.
- Reads that only list.
- In the booking core, access tokens that outlive a change of role or tenant: users do not change
  in that model; `AuthTokens` has them.
- `updateTenant`, the routes for images and those for reviews do not clear the cache, so an entry
  may show old details of a listing; a model that tells only whether a listing is shown does not see it.
- The history of searches; keys that SCAN returns twice.
- Several server processes: the flag of the review job is one per process, and the model has one.
- Several payments with a status other than PAID: no code writes one.
- HTTP responses, wording, logging, DTO validation beyond the checks in the services, rate limits.
- Serial keys lost by failed inserts and the ids of notifications: nothing depends on them.
- `payment` keys are given out at the commit rather than at the insert, and grow with `createdAt`:
  `findFirst` orders by `createdAt`, and nothing else looks at the order.
