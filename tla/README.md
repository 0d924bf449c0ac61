# Hotel management system: TLA+ models, checks and proofs

The repository is a hotel management system: a NestJS backend over PostgreSQL
(Prisma), a Next.js frontend, and a websocket gateway between them.  Every
operation is an HTTP request handled by one asynchronous method: it reads rows,
awaits, decides, and writes rows, sometimes inside a database transaction.  There
is one shared state, the database, and no lock in the application: whatever keeps
two requests apart is a `version` column, a unique key, or nothing.  What is hard
to test here is what these models are about: what other requests commit between a
handler's read and its write.

## 1. The parts of the system

Backend paths are below `src/backend/src/modules/`.

| Part | State | Operations | Talks to | What makes it correct |
|---|---|---|---|---|
| Reservations `reservations/` | `reservations` (status, room, dates, `version`), draft invoice | create, update, updateStatus, cancel | availability (conflict query in its transaction), invoices | no two holding stays share a night in a room; statuses follow `VALID_TRANSITIONS`; an ended stay is not edited |
| Availability `availability/` | cache of search results | isRoomAvailable, getAvailableRooms, calendar, invalidate | called by every booking | the conflict query is exact; the cache is not stale for longer than its TTL |
| Public booking `public-booking/` | guest, reservation | createReservation | availability, portal | same as reservations; a refused booking can be repeated |
| Check-in and check-out `check-in/` | `check_ins`, `check_outs`, room status, invoice | checkIn, checkOut | reservations, rooms, housekeeping, gateway | acts on the row it validated; one record and one cleaning task per check-out; the right room |
| Housekeeping `housekeeping/` | `housekeeping_tasks`, room status | create, assign, start, complete, skip | rooms, gateway | tasks follow their lifecycle; a room with a guest is not freed |
| Rooms `rooms/`, board `frontend/app/(dashboard)/rooms/status-board/` | `rooms.status`, `cleaning_status`; the board's copy | updateStatus, updateCleaningStatus, push, CRUD | pushes by rooms, desk, housekeeping | a room with a guest is not freed |
| Billing `billing/` | invoices, payments, attempts, charges, refunds | initiate, webhook, add and discount charge, refund | payment provider, check-out | charged once, recorded once; totals equal lines; no over-refund |
| Guest portal `guest-portal/` | access tokens, online check-ins | issue, verify, online check-in, pay | reservations, billing | a token opens its own stay only while valid; one online check-in |
| Auth `auth/`, browser client `frontend/lib/api/client.ts` | refresh tokens, reset tokens | login, refresh (rotation), logout, reset | users | a token is used once; concurrent refreshes do not log a user out |
| Guests `guests/` | guest rows, documents | create, update, erase | portal, public booking | e-mails unique where checked; an erased guest stays erased |
| Room types, branches, users | one row each; accounts | CRUD, activation, move to a branch | auth | a manager changes only the own branch |
| Reports, widget, lists, schedule | none: queries over the tables above | read | reservations, rooms | figures agree with each other and with what comes true |
| Frontend `frontend/app`, `frontend/components` | one page's rows, choice, flags; a profile per tab | load, act, choose | the routes, through `frontend/lib/api` | shows what was chosen; asks only what is permitted |
| AI assistants, notifications, audit, uploads, health | feedback rows; an append-only log | read and send | model and mail services | nothing transactional |

## 2. What is modelled

### Lifecycle, ReservationBook: what a reservation is, and what is promised

`Lifecycle` holds the pure part: the statuses, `ValidTransitions`, the half-open stay
`[from, to)` and the conflict query (`Overlaps`, `IsFree`).  A checked-out stay still
holds its nights: the query excludes only cancelled and no-show rows.

`ReservationBook` is the abstract specification.  Every operation happens at one
instant: `Enter` a stay on nights nobody holds, `Move` one to nights nobody else
holds, `Advance` a status along the transition table.

### FrontDesk: the detailed model

The reservation and check-in services over the shared tables.  A request occupies a
slot: `Bookers` are the slots for requests that book or move a stay (`create`, the
public `createReservation`, `update`), `Clerks` those for requests that change a
status (`updateStatus`, `cancel`, `checkIn`, `checkOut`).  `req[w]` is what the
handler of slot `w` remembers across its awaits.  One action is one stretch of code
between awaits that other requests can observe:

| Code | Actions |
|---|---|
| `ReservationsService.create`, `PublicBookingService.createReservation` | `FindFree`, `Insert` (the two differ in the first status and the invoice) |
| `ReservationsService.update`, room or dates | `ReadForMove`, `Recheck`, `Rewrite` (version in the WHERE clause) |
| `ReservationsService.update`, other fields | `ReadForDetails`, `WriteDetails` (id alone) |
| `updateStatus`, `cancel` | `ReadForStatus`, `ReadForCancel`, `WriteStatus` (id alone) |
| `checkIn` | `ReadForCheckIn`, `ConfirmFirst` when pending (id alone), `Admit` (one transaction, version) |
| `checkOut` | `ReadForCheckOut`, `Release` (one transaction, version) |
| `HousekeepingService.createTask`, which may name a reservation | `CreateTask` |
| an await throws, or the process stops | `Abandon`: what was committed stays |

`Abandon` is also how a request ends that its transaction's version test or unique
key rejects, except that there the action itself commits nothing and finishes.
`overtaken` is history: the reservations whose status a request wrote by id alone over
another status than it had validated.

### Housekeeping

Rooms and cleaning tasks, which have no version.  Three services write a room's status,
each in a later step than the read that allows it.  Of the desk only what a room sees is
repeated: a guest is due, in the house or gone, and may be moved.  Actions:
`ReadForRoomStatus`/`WriteRoomStatus` (rooms); `CreateTask`, `ReadForStart`/`Start`,
`ReadForComplete`/`Complete`, `ReadForSkip`/`Skip` (housekeeping);
`ReadForAdmit`/`Confirm`/`Admit`, `ReadForRelease`/`Release`, `MoveStay` (desk).
`overtaken` is history: the tasks and rooms written by a request that had checked
something else than what it found when it wrote.

### PaymentBook, Billing

`PaymentBook` is the abstract specification: the provider's charges, the entries kept of
them, and whether the invoice is paid, without requests, line items or totals.  A charge is
asked for once, and its amount taken and given back (`Ask`, `Take`, `GiveBack`); an entry
agrees with it when it is made (`Enter`), is confirmed only when the money was taken and
refunded only when some was given back (`Confirm`, `Refund`); only a payment pays the
invoice (`Enter`, `Pay`), and `Reopen` is what a later charge or a check-out does to it.

`Billing` is one invoice and everything that moves money against it.  Cashier slots pay or check
out, biller slots charge, discount or refund, hook slots are calls of the provider's
webhook.

| Code | Actions |
|---|---|
| `PaymentService.initiatePayment`, `initiatePrePayment` | `ReadInvoice`, `CountAttempts`, `ChargeManual` or `ChargeStripe`/`ReplayStripe`/`LoseAnswer`, `RecordPayment` |
| `GuestPortalService.initiatePayment` | `ReadForPortal`, `CountForPortal`, `RecordPortal` |
| `handleWebhook` | `WebhookPayment`, `ConfirmInvoice` (two updates, any number of times) |
| `ChargeService.addCharge`, `applyDiscount` | `ReadForCharge`/`WriteCharge`, `ReadForDiscount`/`WriteDiscount` |
| `RefundService.initiateRefund` | `ReadForRefund`, `GiveBackByHand` or `GiveBackOnCard`, `RecordRefund` |
| `CheckInService.checkOut`, its invoice | `BeginCheckOut`, `CommitCheckOut` |
| an await throws, or the process stops | `Abandon`; `Stop` after the money has moved |

The provider is what Stripe's idempotency keys promise: a key it knows gets its first
answer again, or an error if the amount is another.  The portal's payments always fail
(their token's purpose is never issued), but they shift the numbering of the attempts.
Two variables are history: `stops` counts the payments cut short after the money moved,
and `overtaken` tells that a charge or a discount was written over a subtotal that had
changed since the request read it.

### Sessions

The refresh and reset tokens of one user, the one cookie jar of a browser, and the
fetch wrapper of each of its tabs.  `Send`, `EndCall`, `AskForRefresh`, `GiveUp` are a
call of `apiFetch`; `SendRefresh`, `FindToken`, `Rotate`, `Receive`, `FailRefresh`,
`LoseRefresh` the shared `doRefresh` and `AuthService.refresh`, whose find and exchange
are two awaits; `CheckPassword`, `IssueTokens`, `EnterApp`, `FailLogin` a login;
`Logout`, `LogoutAll`, `RevokeSession`, `ForgotPassword`, `CheckResetToken`,
`ResetPassword` the rest.  `epoch` counts what ends all sessions, and a row remembers
the epoch its request began in.  A page that goes to the login by `window.location` loses
its scripts, and with them `refreshPromise`: the refresh it had sent becomes one of the
`Strays`, whose answer nobody waits for, but which may still set the cookies.

### Guests

The rows about a guest that are written in more than one place: the guest, the online
check-in form, documents and comments, and the portal's tokens.  Writer slots are
requests of the staff and of the public site (`create`, `update`, and the guest, the
booking and the link of `createReservation`, committed one after the other); portal
slots are online check-ins and feedback.  Erasure is one transaction.  Three history
variables tell what a property may expect: `booked`, `apart`, `sealed`.

### Search

The search for free rooms of one range of nights with its cache: `Read` reads the
database, `Store` fills the cache later, writers (`Take`, `GiveBack`) clear it later
still (`Clear`) or never (`Stop`), and `Expire` ends an entry.  What clears nothing are
actions of their own: `MarkNoShow` and `Revive` (`updateStatus` clears for two statuses
only) and `SetRoomStatus`.  The public site books the first room it was offered
(`OfferCached`, `TakeOffered`).  `missed` in a list is history: what kind of write it does
not show, and no clearing to come will remove it for.

### Figures

The reports, the occupancy widget, the lists of the front desk and the cleaning
schedule, each an operator over the same reservations and rooms, while days pass.  A
figure is kept as the set it counts.  Stays enter and move onto nights that were free
when they were asked for, and need not be any more (`Enter`, `Move`): double bookings
happen.  There are two dates.  The reports go by `today`, the date in UTC; the desk's
lists go by `desk`, the browser's date when the page was loaded (`OpenDesk`), which is a
day later between the two midnights, and an open page keeps it (`NextDay`).

### Pages

The load and the actions of 44 pages, widgets and forms.  The handlers are shared;
a page is a record of the decisions in which it differs (whether it hides its rows
while it loads, what a failed load does, which buttons it disables, whether its filters
depend on what its actions change, whether the router takes it away).  Answers come in
any order, are refused or lost.  `foundBy` is the choice whose query finds a row: an
action on a page with filters may change it, and the page keeps the row all the same.  A
form left by the router is first `leaving`, with its buttons enabled again, then
`Navigated`.  Three variables are history and excuse what the code gives up on:
`blurred` (overlapping calls, lost answers, swallowed errors), `lost`, and `again` (an
action begun while the page was being left).

### Access, Staff

`Access` is four tables: the routes and `@Roles` of the controllers, the routes behind
the client library, what each page loads and has buttons for, and the menu and links
with their role gates.  `Staff` adds the accounts, the claims in the cookie, the stored
profile and its copy in each tab, and the users page, whose check and write are two
steps.  The server goes by the claims, the pages by the profile.  A refresh is two steps
as well: its answer sets the cookies whenever it comes (`Refresh`, `RefreshArrives`,
`RefreshLost`), and `crossed` is history: one from before the last login has come since.

### Assumptions about the platform

- PostgreSQL at READ COMMITTED: a transaction takes effect at its commit, and a
  query inside one sees what is committed at that moment.  A transaction's own
  writes are therefore one step; its earlier queries are steps of their own only
  where what they saw can be out of date at the write (`FindFree`, `Recheck`).
- `update({ where: { id, version } })` is an atomic compare-and-set: no matching row
  is an error, and the transaction rolls back.
- `SELECT ... FOR UPDATE` that matches no row locks nothing.
- A unique key rejects a second row and rolls its transaction back.
- Fairness is assumed in two runs only.  `browser`: every fetch is answered or fails,
  and the event loop runs what its answer wakes (`WF` of `CallStep` and `RefreshStep`).
  `pages`: every call of a page is answered or fails (`WF` of each answer).  Both are
  what a browser's `fetch` does; nothing is assumed of users or of the order of answers.

## 3. The runs

Bounds are the CONSTANTS of the cfg files: `LastDay` (last calendar day of a stay),
`MaxVersion` (no request starts on a row with this version), `MaxTasks` (cleaning tasks
added by hand), `MaxLost` (answers that may be lost), `MaxAttempt`, `MaxLines`,
`MaxStops` (payments, line items, payments cut short), `MaxToken`, `MaxEpoch` (tokens,
ends of all sessions), `MaxCalls`, `MaxWrites` (calls out, changes made), `Window` (days
of the trend), and the numbers of ids and slots (`Strays` and `Flights` are slots for
refreshes).  Ids that no code distinguishes are symmetric, and no run with a liveness
property uses symmetry.

| Run | Instance | Shows |
|---|---|---|
| `desk_serial` | 2 reservations, 1 room, 3 days, 1 booker, 1 clerk, 3 versions; 309,970 states | types, no double booking, `ImplementsBook` |
| `desk_racing` | 1 reservation, 2 rooms, 2 days, 2 bookers, 2 clerks, 3 versions, 1 task by hand; 1,054,175 states | what the version column guarantees to any number of requests, and that only an overtaken status write leaves the lifecycle |
| `housekeeping` | 2 rooms, 1 guest, 1 task, 2 requests, 3 versions; 1,616,732 states | two requests race: the task lifecycle, and when a room is freed over a guest |
| `billing` | 1 cashier, 1 biller, 1 webhook call, 2 attempts, 1 amount, 1 charge and discount, 1 stop; 2,434,504 states | recorded money was taken, paid invoices have money, totals, refunds, unrecorded charges, `ImplementsPaymentBook` |
| `sessions` | 2 tabs, 2 calls, 1 stray refresh, 1 reset token, 3 refresh tokens, no lost answer; 3,873,177 states | the cookie is current, one live token per login, ended sessions stay ended |
| `browser` | 2 tabs, 2 calls, 1 stray refresh, 2 refresh tokens, 1 lost answer; 162,569 states | every call of a tab ends (liveness) |
| `guests` | 2 guests, 1 e-mail, 1 name, 1 token, 1 writer, 1 portal request; 1,190,445 states | e-mails, whole bookings, form and row agree, erasure |
| `search` | 2 rooms, types and filters over them, 2 requests; 2,241,371 states | when the cache may be stale, and what the site may book |
| `figures` | 2 reservations, 2 rooms, 4 days, a window of 2; 682,206 states | figures agree with each other, with the search, with tomorrow |
| `pages` | 44 pages, 2 choices, 2 calls out, 2 changes; 912,628 states | what a page shows once its answers are in; forms done once; the loading flag (liveness) |
| `staff` | 2 people, 2 branches, 2 tabs, 1 request, 1 refresh on its way; 1,762,732 states | tabs and cookie agree, menus lead nowhere refused, managers keep to their branch |
| `two_bookers` | 2 reservations, 1 room, 2 bookers | *violation*: two bookings of the same nights both find the room free |

Why the bounds suffice.  An overlap takes two reservations, one room, and three days,
so that stays can meet at a boundary, contain one another, and be moved; two days
would make all stays the same.  A race is between two requests of the same kind and
at most one of the other, and the rows they race over are one reservation and the
rooms it is moved between, or one task and the rooms a guest is moved between.  Three
versions allow a row to be created, confirmed,
moved and checked in while a request holds a snapshot.  Two attempts and one stop
are a charge that is lost and its retry; the webhook may come between any two steps.
Two tabs, two calls and three tokens are two exchanges of one token, both out at once, a
login between them included.  An e-mail clash takes two guests and one e-mail.  A stale
entry takes a search, a write and a second search.  Two reservations on two rooms are a
turnover, or a double booking next to a free room.  A page is confused by one more call and
one more choice than it expects, which is two of each.  "Serial" means one request of
each kind in flight at a time, still interleaved with the other kinds; where a property
needs that, its comment says so, and section 5 says what happens otherwise.  The runs that
have less than a race are `billing` and `guests`: one biller, cashier or writer is what
most of their properties need, and what two do is in section 5.

Deadlock is not checked where everything may be used up (ended reservations, attempts,
tokens, a page that was left); it is checked in `housekeeping`,
`guests`, `search`, `figures` and `staff`, where the staff can always do something more.

The run that finds the code at odds with its documentation is `two_bookers`:
`NoOverlap` is what `docs/` promise of double booking (the finding in `PROJECT.json`
quotes it), and `SELECT ... FOR UPDATE` that matches no row locks nothing.

The mutants in the modules are changes a bug would make (a query without its own
row, a write without the version, a record outside the transaction); each is an
operator defined before the action it would replace, and `PROJECT.json` says which
property refutes it.  The type invariants of `Housekeeping`, `Billing`, `Sessions`,
`Guests`, `Search`, `Figures`, `Pages`, `Staff` are left out of the runs' lists, which are for what
could go wrong; all are proved, on the way to the theorems of section 4.

## 4. The proofs

All theorems hold for every value of the constants, under the assumptions listed below:
for any number of rows and of requests in flight, but where a hypothesis says one.

| Module | Theorems | Inductive invariant |
|---|---|---|
| `FrontDeskProofs` | `TypeCorrect`, `OptimisticLock`, `DeskIsCurrent`, `EndedStayPut`, `OneTaskEach`, `AdmittedInvoiced`, `LifecycleUnlessOvertaken`, `AdmittedOnceUnlessOvertaken` | `TypeOK`; `SnapshotCoherent` on top of it; what each slot's `pc` says of its snapshot |
| | with `OneClerk` and `OneBooker`: `SerialDeskNeverDoubleBooks`, `SerialDeskImplementsBook` | a clerk's snapshot has the row's present status; the nights a booker found free are still free; every step maps to a step of the book or a stutter |
| `FiguresProofs` | `BookNeverDoubleBooks`, `FiguresAlwaysAgree`, `OfferNeverExceedsFigure`, `TurnoversAlwaysFirst`, `ForecastsComeTrue` | of the figures `TypeOK` alone; of the book `BookTypeOK` and `NoDoubleBooking` |
| `HousekeepingProofs` | `HousekeepingTypes`, `FinishedWasStarted`, `TasksFollowLifecycle`, `GuestsKeepRooms` | `HkInv`: readers of a task refer to one that exists, and who is about to complete it has seen it started (`TaskReaders`); what a request checked is what it remembers (`Checked`), and a check-out with the current version knows the guest's room (`ReleaseLock`) |
| `BillingProofs` | `BillingTypes`, `CardMoneyWasTaken`, `PaidIsBacked` | `MoneyInv`: payment rows, intents and what requests carry agree (`RowMatches`, `MemoryMatches`) |
| | `BillingImplementsPaymentBook` | `BookInv`: `MoneyInv`, and a card refund about to be recorded was given back (`RefundAsked`); every step maps to a step of the book or a stutter |
| | of `PaymentBook` itself: `PaymentBookKeepsMoney` | `PaymentBookInv`: a card entry agrees with its charge (`EntryMatches`), and a paid invoice has its payment |
| | `TotalsUnlessOvertaken` | `TotalsInv`: a discount whose subtotal is still the invoice's has read a total that agrees with the line items (`DiscountAgrees`) |
| | with `OneBiller`: `OneBillerRefundsWithin` | `BillerInv`: what the biller read of the payment is still so, and money given back is within the intent's (`BillerSees`, `RefundsMatch`) |
| | with `OneCashier`: `OneCashierLosesByStops` | `CashierInv`: attempts are numbered without a gap, the number counted is still the next, and intents adrift are no more than stops |
| `SessionsProofs` | `SessionTypes`, `JarIsCurrent`, `LoginHasOneToken`, `ResetEndsSessions` | `SessionInv`: a token on its way to the browser is in no jar and no request, and was not exchanged (`AnswersFresh`) |
| `GuestsProofs` | `GuestTypes`, `ErasedStaysErased`, `SiteBookingIsWhole` | `GuestInv`: whatever refers to a guest refers to a row (`Rooted`); nothing leads to a sealed one (`SealedUntouched`); `BookingWhole` |
| | with `OneWriter`: `OneWriterKeepsUnique`; with `OnePortal`: `OnePortalKeepsForm` | the e-mail the writer checked is still free (`WriterSees`); between its two writes a submission finds the form it wrote (`PortalSees`) |
| `SearchProofs` | `SearchTypes`, `CacheStaleOnlyIfRaced`, `ClosedRoomsNotBooked` | `SearchInv`: every list, in the cache or with a request, is what was free when it was read, or notes what it misses (`Current`, `Open`) |
| `FrontendProofs` | of `Staff` and `Access`: `StaffTypes`, `TabsShowTheirUser`, `ManagersKeep`, `TabsHaveTheClaimsRole`, `TablesAgree`, `TabsOfferWhatIsPermitted` | `StaffInv`: what is stored is the cookie's user's, a profile that was not marked moved has the branch its account has, both also in the claims that a refresh not older than the login will bring (`LiveClaims`), and claims and requests are about accounts there are; `RolesAgree` on top of it |
| | of `Pages`: `PageTypes`, `SettledPagesShow`, `FormsDoneOnce` | `PageInv`: the one call that is out brings, or will bring, the rows of the choice (`Settling`); only pages with filters have rows that no query of theirs finds (`Unfiltered`); a page is left when its action was done (`Done`); the one action of a form is out, or done, or there was none yet (`OneAction`) |

*The desk.*  Every UPDATE increments the version, so as long as a request's version is
current its snapshot is the row (`SnapshotCoherent`).  It is
weaker for a check-in that confirmed the reservation itself: it has the status and
the version, not the room; section 5 tells what becomes of a move in between.
From it follow, for any number of requests, all properties of the actions that test the
version (`Rewrite`, `Admit`, `Release`).  An action that writes by id alone is either
right, because the row still has the status it validated, or marks the reservation as
overtaken; so the lifecycle and the single admission are proved for any number of
requests, of every reservation that was not overtaken.  That no room is double-booked, and
that the book is implemented, is only right with one request of each kind in flight:
`OneClerk` (at most one clerk slot) and `OneBooker`.  `two_bookers` shows that the second
cannot be dropped, and section 5 tells what two clerks can do.

*Housekeeping.*  The proof has the same shape: every write is by id alone, so what it did
follows from what the request checked, or the task or room is marked.  The one version is
the reservation's, and it is what lets a check-out free the room the guest is in.

*Billing.*  What is true of the money needs no hypothesis: an intent's answer, its
amount and that it was taken are never undone (`Keeps`), so whatever a request learned of
an intent is still so when it writes.  That is why billing implements `PaymentBook` however many requests there are: what a
request carries across its awaits about a charge is still true of it when it
writes, so the write alone is the book's step.  The book alone already promises
`RecordedWasTaken` and `PaidHasMoney` (`PaymentBookKeepsMoney`): a change of the handlers
that still implements it cannot lose them.  The book allows what the code does not
prevent: an invoice that is paid while its payment still says failed, one reopened after it
was paid, and more recorded as refunded than was given back, which needs `OneBiller`.
The invoice's figures are read, added to and
written back.  Until a figure is written over a subtotal that has changed, the subtotal
only grows, so a request that finds the subtotal it read can have missed discounts at most, and
the totals add up for any number of requests.  The refund's limit is read before the
money moves; it stays right if whoever refunds is alone, and cashiers, portal and webhook
may be many, since none of them refunds.  The key of a charge is the number of payments
counted so far: with one cashier that number is still the next when it is used, and an
intent without a row is one whose request was stopped.

*Sessions.*  `OneTokenPerLogin` fails to be inductive on its own: a stale answer could
put back a token.  The invariant says where a token can be.  It comes to the browser in
one answer only, and until then it is in no jar and no request and has not been exchanged;
so an exchange by the rightful owner can only be of the newest.

*Guests.*  An erased guest comes back by a token, or by a request that holds the id.
`SealedUntouched` says that there is none, and `Rooted` that a row never written before is
not referred to, so that no creation makes one either.

*Search.*  A list goes stale by a write only.  Either the writer's clearing follows,
empties the cache, and marks the lists it cannot reach because they are not stored yet;
or nothing follows, and all lists are marked at once with what they miss.  So an unmarked
one is current unless a clearing is still to come, and one marked with a no-show alone can
only leave a room out.

*Figures.*  No reservation is assumed to be alone in its room.  A room the search offers
has no counted stay, so the offered rooms and the rooms of the counted stays are disjoint
sets of the rooms in use; what the widget subtracts beyond these is `Overcounted`, and
the rest is arithmetic on cardinalities.  The other theorems follow from the figures'
definitions and the order of the two dates; `BookNeverDoubleBooks` is of the abstract
book, which only `desk_serial` implements.

*Staff.*  `TabShowsItsUser` alone is not inductive.  A page load copies the storage, so the
storage must be the cookie's user's; and a refresh takes the branch from the account,
so every profile that was not marked when its user was moved must have the account's
branch: these are `StoredIsCookies` and `FreshUnlessMoved`.  The claims that the answer to
a refresh will bring must agree like the cookie's, unless that refresh is `early`; with the
answer to an early one (`crossed`) the agreement ends, until the next login.  No handler
writes the role of an account there is, so profile and claims of one person never differ
in it.  `TablesAgree` is about fixed tables only: `LedTo` names for each role pages among
which the menu starts and the links stay, every call of such a page is in `Allowed`, and
for every call in `Allowed` the proof names the route behind it and the roles the route is
open to.  A page, button or route that is added to one table without the others breaks one
of these steps.

*Pages.*  Without a call out nothing says where the rows came from, so
`SettledShowsChoice` is proved from what is true while a call is out.  As long as
calls do not overlap there is at most one, and it `Brings` the rows of the choice: a load
is of the choice, and its answer, once it has one, is what the database has, since only
the page's actions write and none is out; an action finds the page showing the choice,
and what the server did, patched into what the page keeps, is again what the database has,
but for rows that a filter would no longer find, which the page keeps, and rows it would
not find, which the page adds (`Current`).  Every other case (an overlap, a failure not
said, an answer lost) raises `blurred` or `error`.  That every form disables its button
while its action is out is a fact about the 44 records (`PagesAreWellMade`); with it the
one action of a form is the only one that can write, until its answer is in and the button
is enabled again before the router has left (`again`).  The two parts of the module are
about different variables, and neither uses the other.

Assumptions on constants: `LastDay`, `MaxVersion`, `MaxTasks`, `MaxLost`, `MaxAttempt`,
`MaxLines`, `MaxStops`, `MaxEpoch`, `Vat`, `MaxWrites` are naturals; `MaxToken`, `Window`,
`MaxCalls`, amounts and the price of the room are positive; rooms of the search are numbers,
ordered as the query orders them, and types and filters are sets of rooms; the tables the
figures count are finite; the bookers' slots are not the clerks'; a page has a choice, and
`NoChoice` is none; `NoBranch` is no branch, and the accounts there are to begin with are
accounts.  The hypotheses `OneClerk`, `OneBooker`, `OneBiller`, `OneCashier`, `OneWriter`,
`OnePortal` are on the sets of slots, and the instances of the serial runs meet them; the
code grants none of them; section 5 tells what two clerks, bookers or billers can do.

Out of reach of the prover, and left to TLC: liveness and ENABLED (`EveryCallEnds`,
`LoadingEnds`), induction over data, and recursive operators; none is used in the modules
with theorems.  Every other property of the passing runs is stated by a theorem.

## 5. Differences met in reading

What the code does where a comment, a document or the other half of the code says
otherwise, or where a model's property needs its condition.  `two_bookers` above is
one; these others are not runs.

Reservations, desk, rooms and cleaning (all but the last two are behaviours of the models):

- `update` asks for conflicts without leaving out the reservation itself
  (`reservations.service.ts:379`): a stay can be moved to another room or to nights apart
  from its own, but not extended, shortened or shifted by a day within its room, where
  PHASE-05 says dates are edited (lines 26 and 107).
- Two clerks break `VALID_TRANSITIONS`: `updateStatus` writes by id alone
  (`reservations.service.ts:450`; `docs/phases/PHASE-05` line 51).
- A pending reservation that is moved while it is checked in: the room of the first
  read becomes occupied (`check-in.service.ts:92`; PHASE-06 lines 110, 163).  `checkIn`
  also confirms a pending reservation where PHASE-06 line 44 expects a refusal.
- A dirty room can be booked (`availability.service.ts:37`; PHASE-09 line 13).
- A finished task can be started, completed or skipped again by a request that read it
  before (`housekeeping.service.ts:243`; PHASE-09 line 148).  A check-out's task
  completed after the next check-in frees a room with a guest in it
  (`housekeeping.service.ts:206`), and so does `updateStatus` of rooms
  (`rooms.service.ts:137`, against its own message at `:132`).
- `createTask` checks neither branch nor role of the person it assigns, `assignTask`
  does.  The optimizer reports a room in mid-stay as vacant
  (`schedule-optimizer.service.ts:28`, `:66`).
- A room type whose rooms are all retired passes the guard of its removal, and the
  foreign key then refuses.

Billing:

- A retry after a lost answer charges the card again under the next key
  (`payment.service.ts:53`, `stripe.provider.ts:49`; PHASE-07 line 50).
- Any payment, of whatever amount, marks the invoice paid (`payment.service.ts:99`), and
  a check-out finalises the invoice over a payment committed since its read
  (`check-in.service.ts:219`).
- Two billers lose a line from the total (`charge.service.ts:40`): what the model calls
  `overtaken`.  Two refunds at once, each within the payment, may exceed it together
  (`refund.service.ts:46`).
- The portal's payment token is never issued, so its payments always fail.
- `payments/checkout` enters its discount and then pays the amount of before, and
  enters the discount again on a retry.

Sessions, guests, staff:

- A reset token changes the password twice if two requests found it unused
  (`auth.service.ts:220`; PHASE-11 line 161).  `refresh` does not ask whether the
  account is active.  A logout with an expired access token leaves the session live.
- The refresh answers no token in its body, so the client never stores the one the
  status board reads (`client.ts:36`): the board's socket is never opened, and no push
  reaches it (`status-board/page.tsx:42`).
- The answer to a refresh sets both cookies whenever it comes (`auth.controller.ts:98`):
  one from before the last login makes the browser the earlier user again, under the menu
  of the later one.
- A duplicate e-mail is refused where PHASE-03 line 46 says warn, not block.
- Portal requests in flight rewrite the details of an erased guest, portal tokens
  survive the erasure, and feedback accepts revoked ones.
- Someone moved to another branch gets the search for rooms refused until the next
  login: the profile is never read again.  The users page offers managers a role that
  `create` refuses.  `BranchGuard` is used nowhere.

Search and figures:

- `updateStatus` clears the cache for cancellations and check-outs only
  (`reservations.service.ts:465`): a no-show frees its room, and the cached search goes on
  without it.
- Reports go by the date in UTC (`reports.service.ts:472-476`), the desk's lists by the
  browser's (`front-desk/page.tsx:20-21`): for two or three hours after the desk's midnight
  its arrivals are those of the dashboard's tomorrow.  A page left open keeps its date.
- "Arrivals today" are reservations confirmed or checked in, where PHASE-10 line 140
  expects confirmed ones only.
- The cache key leaves out the floor and the occupancy (`availability.service.ts:60`).
- Deleting a room asks nothing of its stays: the trend may pass 100 %, and the widget's
  available rooms may be negative.
- A report with only `from` ends today, one with only `to` ignores it
  (`reports.service.ts:518`).

Pages:

- Every list overwrites a newer answer by an older one that comes late.  The reload
  after a check-in is of the branch selected when the button was pressed.
- Lists filtered by what their actions change keep the row an action took out of the
  filter (`rooms/page.tsx:81`, `housekeeping/page.tsx:27`), and a created task is
  listed whatever the filters (`housekeeping/manage/page.tsx:114`), until the next load.
- Forms enable their button before the router has left them
  (`reservations/new/page.tsx:86-96`, `rooms/new/page.tsx:99-104`): a second press in
  between writes again.
- The list of invoices swallows a failed load; an action on room types clears its
  error; both then show the rows of the branch before.
- A failed e-mail replaces the whole invoice page by its error; a task's start has no
  catch; the feedback form thanks for what was refused; the edit forms can be
  submitted blank after a failed load.

## 6. What is not modelled

- Prices beyond the sums of an invoice, cents, notes, occupants, wording, layout, the
  audit log, e-mail and the n8n calls: no property tells them apart, and failures of
  these calls are swallowed by their callers.
- Transactions in the order of their row locks.  By reading, each takes reservation or
  task, room, invoice and portal token in this order, so that no two wait for each
  other; the locks are the database's and are not in `src/`.
- The status board and its pushes, and a room's cleaning status: the board's socket is
  never opened, and the cleaning status guards nothing.
- Several branches: every query is confined to one, except in `Staff` and `Pages`, where
  the choice of a branch is the point.
- Creation and editing of rooms, room types and branches: writes of single rows whose
  columns no property reads.
- The language model's side of the AI assistants, uploads, health checks, and the
  framework glue: no state of their own.  Their routes and roles are in `Access`, the
  pages that call them in `Pages`.
- The Tranzila provider only throws; the POS endpoints are stubs.

## 7. Plan

1. Figures that are sums (revenue, cancellations, cross-branch), as folds over the
   book.
2. An abstract cleaning service, whose tasks and rooms change in one step, that
   `Housekeeping` implements of every task and room that was not overtaken.
3. `Billing` with two billers in a run of its own: the theorems are of any number, the run
   of one.
