# NduthiRide: specifications and proofs

TLA+ models of NduthiRide (a NestJS backend with Prisma/PostgreSQL, Socket.IO and
Lipana M-Pesa, and an Angular frontend), TLC configurations that check them on small
instances, and TLAPS proofs of the results that matter most for instances of every
size. Paths are relative to `src/backend/src/` or `src/frontend/src/app/`; a file name
without a directory is unique there. Modules are in this directory.

NduthiRide is a motorcycle taxi and parcel service. A passenger books a ride,
a verified rider accepts it and moves it along a chain of statuses, the fare is
paid by an M-Pesa prompt or in cash, the rider's earnings grow and are withdrawn,
and the two chat meanwhile.

On the server everything that must be right is a row of a PostgreSQL table, and
almost every handler works on it the same way: `findUnique`, some checks, some
awaits, then an unconditional `update` by id. There are no row locks and no
conditional updates outside the payout reservation, so what goes wrong here goes
wrong between the awaits. The server's models therefore give every database or
provider call of a handler an action of its own.

In the browser every page keeps a copy of some rows in signals and brings it up to
date by several ways at once: the replies to HTTP requests, which may overtake one
another, the events of a socket that drops and connects again, timers, and what the
user presses. What goes wrong there goes wrong because a reply is old when it comes,
or an event is missed. The models of pages give every request a sending, a serving
and a reply, and take an operation of the server as one step.

## 1. Inventory

| Component | State | Operations | What is hard | What makes it correct | Modelled in |
|---|---|---|---|---|---|
| Rides (`rides.service.ts`) | tables `rides`, `riders` (totals), `conversations`; tasks fired and not awaited | createRide, acceptRide, updateRideStatus, cancelRide, rateRide, ratePassenger, queries | two requests on one ride; cash settlement against a passenger's own payment; a conversation created in the background; a crash between the ride's update and the rider's | one rider per ride, statuses in sequence, completed only if paid, credited once, chat exactly while the trip lives | `Rides` |
| Parcels (`parcels.service.ts`) | table `parcels`, `ratings` | createParcel, acceptParcel, updateParcelStatus, cancelParcel, uploadProof, rateParcel | as rides, with two people who may cancel; an average computed from a list that is old when it is written | as rides, with its own chain; the average is one of the rider's own ratings | `Parcels` |
| Payments (`payments.service.ts`) | table `payments` | initiatePayment, resendPayment, handleLipanaWebhook, analytics, receipts | webhooks repeated, reordered, with other ids; a prompt that outlives its request; resends | completed only by what was reported for that trip; money sent is seen; completed is final | `Payments` |
| Guards of the provider (same file) | in memory: `recentRequests`, `failedAttempts`, `circuitBreaker` | isDuplicateRequest, checkFraudDetection, checkCircuitBreaker and what feeds them | late answers, windows of time, restarts | breaker and counter agree; neither a lock nor an outage feeds itself | `PaymentGuards` |
| Webhook reading (`lipana-webhook.service.ts`, `payments.service.ts`) | none | verifySignature, parseWebhookPayload, isTimestampValid, the classification of events | field names, shapes and event words that vary | a call does to a row what it says | `LipanaWebhook` |
| Payouts (`riders.service.ts`, `admin.service.ts`, `lipana-payout.service.ts`) | `riders.totalEarnings`, table `payouts`; money at Lipana | requestPayout, updatePayoutStatus, sendPayoutViaLipana | overlapping withdrawals; a transfer whose answer is lost; two admins | no overdraft, no money made or lost, paid or refunded once | `Payouts` |
| Riders, admin (`riders.service.ts`, `admin.service.ts`) | flags, settings | updateAvailability, setRiderVerification, setAccountStatus, updateSettings, forced updates | flags and percentages that change under a request | only eligible riders accept; a trip is priced by the commission it ended under | actions of `Rides`, `Parcels`, `Accounts`, `RiderDashboard` |
| Auth (`auth.service.ts`) | accounts, refresh token hashes, one-time codes | register, login, refreshTokens, logout, changePassword, verifyEmail, resendVerificationOtp, forgotPassword, resetPassword | bcrypt between what is read and what is written; codes created and deleted by tasks | an address is verified by its code, a link works once, a session that ended needs the password | `Accounts` |
| Chat (`chat.service.ts`, `chat.gateway.ts`, frontend chat page) | `conversations`, `messages`; rooms; the list shown | create, close, send by socket or REST, history, hide, delete | a message comes by three ways; acknowledgement and broadcast race; sockets drop | every message once, none left pending | `Chat` |
| Trip pages (`ride-detail`, `parcel-detail`) | signals, four timers, a socket | the passenger's payment: initiate, resend, recover, poll, events | old replies, missed events, polls that give up | what is shown of the payment becomes true again | `TripPage` |
| Rider app (`rider-dashboard`, `rider-active`) | signals, timers, a socket; `isAvailable` | going online, requests nearby, accepting, next status, proof | emits on a socket that is not there yet; lists filled by two ways; one flag for all parcels | the server has the rider as the page shows him; no delivery without proof | `RiderDashboard`, `RiderTrip`, `RiderApp` |
| Browser session (`core/services/auth.service.ts`, interceptors, guards) | localStorage shared by tabs, a signal per tab | login, logout, updateUser, refresh, retry of refused calls | several calls that wait for one refresh; answers of an earlier session; a profile that comes after a logout | the tokens are of one login and stand with a user, a login lasts, and no call hangs | `BrowserSession` |
| Tracking gateway (`tracking.gateway.ts`) | rooms, `connectedClients` | connect, locations, payment subscriptions, broadcasts | reconnections | who listens hears | in `TripPage`, `RiderDashboard`, `RiderTrip` |
| Triggers (`neon_triggers.sql`), notifications, mail, media, map, audit, support, users, HTTP layer, other pages | own rows or none | - | I/O, or one owner's rows | - | not modelled, see 6 |

Interactions: `RidesService` and `ParcelsService` write `payments` themselves
(cash) and read them (the M-Pesa gate); `PaymentsService` writes them on requests
and webhooks; both increment `riders.totalEarnings`, which payouts decrement;
accepting calls `ChatService.createConversation`, completing and cancelling close
what it made; the gateways announce to rooms what the services wrote, and pages that
are in a room at that moment hear of it. Payment state that is not a row
(`recentRequests` and the other maps) dies with the process.

How the modules say so: `Rides` and `Parcels` take the payment service to be
`PaymentRow`, and `Payments` is checked against `PaymentRow`; `TripPage` too has
`PaymentRow` for a server; both trip services implement `TripLifecycle`;
`RiderApp` puts the rider's two pages into one app.

## 2. Plan

| # | Module(s) | Abstract specification | State |
|---|---|---|---|
| 1 | `Rides` over `PaymentRow` | `TripLifecycle` | checked; type invariant, riders and the refinement proved for overlapping requests, gate, chats and credits under assumptions |
| 2 | `Payments` | `PaymentRow` | checked, liveness too; every safety property and the refinement proved |
| 3 | `Payouts` | `Withdrawals` | checked; safety, the books and the refinement proved for overlapping requests and updates |
| 4 | `Parcels` over `PaymentRow` | `TripLifecycle` with the parcels' chain | checked; type invariant, averages and the refinement proved for overlapping requests, gate and chats under assumptions |
| 5 | `Accounts` | `SessionLife` | checked; type invariant and verification proved for overlapping requests, links and refinement for accounts in turn |
| 6 | `PaymentGuards` | - | checked; type invariant and `BreakerAgrees` proved |
| 7 | `LipanaWebhook` | - | sampled by TLC, proved for every call |
| 8 | `TripPage` over `PaymentRow` | - | checked, liveness too; `FailureIsOfLastPrompt` proved for replies in order |
| 9 | `Chat` | - | checked, liveness too; both invariants proved for a server that works on one message at a time |
| 10 | `RiderDashboard`, `RiderTrip` in `RiderApp` | - | checked, liveness too; both invariants proved under the assumptions of the run |
| 11 | `BrowserSession` | - | checked, liveness too; `TokensBelong` and `LoginLasts` proved |

Left to prove: liveness, and what section 5 has under assumptions. Left to model: `rateRide` and `ratePassenger`, whose
code is that of `rateParcel`; older pages of a conversation; the dashboard's card of the
active job.

## 3. Modules and code

In the server's modules a handler is a process `p` of `Procs`: `h[p].pc` names the call
it makes next and the other fields are the request's parameters and what earlier reads
returned. The first action of a handler is enabled only if the checks it makes
before its next call pass (a refused request changes nothing); a check that comes
later sends the process back to `Idle`. Notifications, mail, audit rows and logs change
nothing a model holds and are left out; an exception they may raise is `HandlerFails`.

PROJECT.json maps every definition to its lines.

### Rides, RidesProperties, TripLifecycle, PaymentRow

| Action | Code |
|---|---|
| `CreateRide` | `createRide` 118-173 |
| `AcceptFindRider`, `AcceptFindRide`, `AcceptUpdate` | the three calls of `acceptRide` 377-459; the last also adds the ride to `convTasks`, the background task |
| `CreateConversation` | that task, `ChatService.createConversation` |
| `UpdateFindRide` | `updateRideStatus` up to the transition check, 465-486; the rider and the ride are read by consecutive calls of which only the second is looked at again, so they are one action |
| `UpdateFindMpesaPayment`, `UpdateFindCashPayment`, `UpdateSettleCash` | the payment gate and the cash settlement, 488-544 |
| `UpdateRide` | the setting and the update, 546-566; nothing reads the setting again |
| `UpdateCreditRider` | the rider's increment, 584-592 |
| `CancelFindRide`, `CancelUpdate` | `cancelRide` 676-696 |
| `FindConversation`, `CloseConversation` | the end of a completion and of a cancellation |
| `SetEligibility`, `SetCommission` | the toggles of riders and admins; `eligible` stands for isVerified and isAvailable, which `acceptRide` checks together |
| `PaymentMoves` | any step `PaymentRow` allows the payment service |
| `HandlerFails`, `TaskFails` | a call throws, or the process dies (then every handler and task does) |

`PaymentRow` is the interface between trips and payments: one row per trip and the
ways it moves. With `Regress = FALSE` a COMPLETED row is final; with `TRUE` it is
what overlapping payment handlers may do to it. `Payments` is checked against both.
`TripLifecycle` is the abstract trip: every operation a single step. On the trips of
`Crossing` the requests may cross one another, and an operation may come late
(`LateAssign`, `LateAdvance`, `LateWithdraw`): it was allowed when the trip was looked
at and is carried out on whatever the trip has become, so a second rider may take a trip
and a status may be written again or over a cancellation. What nothing does on any trip:
give up its rider, be under way without one, or take its last status unpaid - unless
payments may be undone (`Regress`, `Unpay`).
`Crossing` is every ride unless `OnePerRide`, and the parcels outside `InTurn`.

Money is in hundredths of a shilling, so that a percentage of a whole fare is exact;
the code uses floating point.

### Parcels, ParcelsProperties

The same shape with the parcels' chain. `acceptParcel` asks for a verified rider only
and awaits the conversation it creates (`AcceptCreateConversation`), sender and rider
may cancel (`CancelFindParcel`, `CancelUpdate`, 613-672), `ProofFindParcel` and
`ProofUpdate` are `uploadProof`, and `RateFindParcel`, `RateCreate`, `RateFindMany`,
`RateUpdateRider` the four calls of `rateParcel` 711-766, of which the last writes an
average of the list that the third has read. An average is in tenths, rounded half up
as `toFixed(1)` does for the values that occur. Requests on the parcels of
`InTurn` do not overlap, those on the others may, and both meet in the riders' rows.

### Payments, PaymentsProperties

| Action | Code (`payments.service.ts`) |
|---|---|
| `InitiateFind`, `InitiateCreate` | `initiatePayment` 319-449: the existing payment, the duplicate window; then the insert, refused by the unique index, and only then the phone |
| `ResendFind`, `ResendUpdate` | `resendPayment` 840-941 |
| `StkRejectPhone`, `StkCall`, `StkPersist` | `performStkPushAndPersistIds` 186-241 |
| `StkTimeout`, `StkError`, `StkMarkFailed` | `launchStkPushWithTimeout` 253-308: after 20 s the request is answered and the push goes on; its error then marks the row FAILED |
| `WebhookFind` | `handleLipanaWebhook` 490-721: `ById`, then `ByReference` and `Newest` |
| `WebhookSettle`, `WebhookFail` | 723-832 |
| `CashFind`, `CashSettle` | the cash branch of `updateRideStatus` and `updateParcelStatus`, as a competitor for the row |
| `WindowExpires` | 60 s of `isDuplicateRequest`, or a restart |
| `CustomerPays`, `CustomerRefuses`, `ProviderDispatches` | external: the customer's phone and Lipana, who may also report the dispatch of a prompt as a success |

A webhook is a triple in the set `hooks` (`Deliveries`): the prompt it is about, its
event, and whether its body nests the account reference (`References` says which bodies
there are), without which nothing is looked up but ids (`WebhookMatches`) and a call that
matches none is answered and gone. Handling a call may leave it there, so calls are
repeated and reordered; the ids it carries are any subset of those that could match.
The events of a success are transaction.success, payment.success and the others of
which the code says that they settle; that a prompt's success was reported
(`ReportsSuccess`, `push.success`) and that its payer confirmed it (`push.st = "paid"`)
are therefore two things. A request refused by a guard is a request not made. `Prefix`
is what the account reference tells of a trip: its kind and the first 8 characters of
its id.

### LipanaWebhook, LipanaWebhookProperties

No state: `Calls` is what a webhook call may look like, `Verdict(ev, st)` the branch
that `handleLipanaWebhook` takes, `LookupIds` the ids a row is looked up by,
`RowAfter` what a call leaves of a row. `Payments` begins where a call has been read:
its "success" and "failed" are the calls of which `Verdict` says COMPLETED and FAILED,
its receipts and ids those of `LookupIds`.

### PaymentGuards, PaymentGuardsProperties

Timestamps are ages that grow with `Tick` up to the first age from which all of the
code's comparisons agree, so that time is unbounded and the states finite; the two
counters stop at their limits for the same reason. `RequestArrives` is a call of
initiate or resend, `RequestStep` each of the steps it takes (the breaker, the fraud
check, the existing payment, the duplicate window, the insert, the push and the ways a
push ends), `Settle` what webhooks do to the row, `Restart` the loss of the maps.

### Payouts, PayoutsProperties, Withdrawals

| Action | Code |
|---|---|
| `RequestFind`, `ReserveRefused`, `Reserve` | `requestPayout` 234-281, `requestMpesaPayoutSelfService` 286-328: the look at the balance, then the transaction |
| `SendDone`, `SendFailed`, `SendWithoutId` | `sendToPhone` 86-132; with `LostAnswers` a failed call may have moved the money |
| `Complete`, `Refund` | `requestMpesaPayoutSelfService` 330-378 |
| `AdminFind`, `AdminReject`, `AdminComplete` | `updatePayoutStatus` 570-610; nothing keeps two of one payout apart |
| `Credit` | what Rides and Parcels add |

The update after a transfer failing is `HandlerFails` at `complete`: the code throws
on without refunding. `sendPayoutViaLipana` asks for a PENDING payout by MPESA;
`requestPayout` creates MPESA payouts PROCESSING only, so it refuses every row the
code creates and has no action. `earned` is a history variable.
The two ways of a payout, `method` "MPESA" and "BANK", matter to who ends it. In
`Withdrawals` a slip ends once, paid or given back; one that goes over an admin's `desk`
(the payouts to a bank) may end again by an update that overlaps the first, with the
amount and to the rider it was opened with.

### Accounts, AccountsProperties, SessionLife

| Action | Code (`auth.service.ts`) |
|---|---|
| `RegisterFind`, `RegisterCreate` | `registerUser`, `registerRider` 54-176; the mail's task is `OtpTaskDeletes`, `OtpTaskCreates` |
| `LoginFind`, `RefreshFind`, `IssueUpdate` | `login` 185-240, `refreshTokens` 248-275, `issueTokens` 318-353 |
| `LogoutFind`, `LogoutUpdate` | the guard's read and `logout` 280-290 |
| `ChangeFind`, `ChangeUpdate` | `changePassword` 557-601 |
| `ForgotFind`, `ForgotDeleteMany`, `ForgotCreate` | `forgotPassword` 464-504 |
| `ResetFindMany`, `ResetTransaction` | `resetPassword` 509-552 |
| `ResendFind`, `OtpDeleteMany`, `OtpCreate` | `resendVerificationOtp` 605-631, `sendEmailVerificationOtp` 361-408 |
| `VerifyFindMany`, `VerifyTransaction` | `verifyEmail` 414-456 |
| `CodeExpires`, `SetActive` | time; `AdminService.setAccountStatus` |

A password is the number of times it was replaced, a token the password it was issued
under and its place; `Fits` is the comparison of a presented token with the stored
hash, which accepts any token of the account, because bcrypt reads 72 bytes and these
are the same in all of them. `SessionLife` is the session as its owner understands it.
`inTurn`, chosen initially, are the accounts whose requests do not overlap.

### TripPage, TripPageProperties

`page` has the component's signals and timers, `sock` the socket with the handlers set
on it, `reqs` the requests in flight. Every request has a serving (`ServeGet`,
`ServeInitiate`, `ServeResend`, `ServeCancel`) and a reply handler of its own
(`InitReply`, `ReconcileReply`, `TickReply`, `AfterReply`, `PollReply`, `RefreshReply`,
`PromptReply`, `RecoverReply`, `CancelReply`, `ReadFailed`). `SyncTick` is the interval
that reads the trip while the payment is PROCESSING, `PollerSees`, `PollerReturns` and
`PollerGivesUp` the poll of the payment, `RidePoll` and `HalfMinute` the other two
timers. `WithPay`, `WithTrip`, `WithTerminal`, `WithPrompt` are the helpers that replies
share. The parcel page is the same code but for the places where `kind` is read.

### Chat, ChatProperties

`chat.shown` is the list on the page, entries confirmed or pending; `conn` is the socket,
`up` and `down` what is on it; `calls` the HTTP requests; `work` the gateway's and
controller's handlers. `HandleJoin`, `HandleSend` and `RestSend` start a handler, `CreateMessage`,
`FinishSend` and `FailSend` take it on, and `ToRoom` broadcasts before `Answer`
acknowledges. `Peer...` is what the other member asks of the server. Read receipts,
typing and older pages are left out.

### RiderDashboard, RiderTrip, RiderApp

`RiderDashboard` has the switch (`ToggleOnline`, the `toggleAvailability(true)` at the
end of `ngOnInit` in `Entered` and `LateEntered`), the emits on their way (`wire`), the
gateway's handler (`StartToggle`, `UpdateAvailability`), the list filled by replies
(`NearbyShown`) and broadcasts (`NewsArrives`) and accepting. `RiderTrip` has the page
of active trips: `Refresh`, the half-minute `Poll` and payment events ask for the
trips, `Advance` for the next status, `SelectProof` uploads; `ShowActive` and
`Advanced` are what replies do to the page. `RiderApp` has one of the pages open, as
the routes have it, and its runs (`AppSpec`) are those of either; the rows behind the
other are fixed, since nothing would read them.

### BrowserSession, BrowserSessionProperties

| Action | Code |
|---|---|
| `Call`, `PressLogout`, `ChangePassword`, `Login` | a request sent by a page that `authGuard` or `guestGuard` let in, with the header `authInterceptor` gives it |
| `LoggedIn`, `PasswordChanged`, `LoggedOut`, `CallDone` | `persist`, `changePassword`, `clear`, nothing |
| `ProfileDone` | the answer to a profile's GET or PATCH: `updateUser` 121-129 writes the user entry if the tab shows a user, whatever has become of the storage |
| `CallRefused` | `authInterceptor` 43-69: wait for the tab's refresh, or log out the second time |
| `RefreshEnds` | `doRefresh` with what every waiting call then does |
| `Reload` | a tab is loaded again: the constructor reads storage; what was in flight loses its page |
| `Serve`, `ServeRefresh`, `Fail`, `AnswerLost`, `Expire`, `SetAccountStatus` | the server's guards, which refuse a token that expired and the account that is suspended, and the token row; the admin's switch of the account; errors, answers lost behind a 504 and sent again by `errorInterceptor`; 15 minutes |

The successful end of a refresh is in the model and unreachable in it
(`PagesProofs!RefreshesFail`), for the reason given below under
`ExpiryIsBridged`.

`ChatTab` is a tab with its calls and its chat page, which share no state: a behaviour
is of either, and one run checks both.

### Configurations and proofs

An `MC` module extends a component's properties where the instance needs definitions
(symmetry, fares, prefixes); `ChatTab.cfg` and `MCPaymentGuards.cfg` need none and are run
on `ChatTab` and `PaymentGuardsProperties` themselves. Proofs are in modules of
their own, `RidesProofs` to `PagesProofs`; what `LipanaWebhook` promises is proved in
`PaymentsProofs`, next to the handler that relies on it. Two proof modules extend several
components: `PromptsProofs` the guards of a prompt on the server and the trip page that
asks for it, `PagesProofs` the browser session, the pages of `RiderApp` and the chat
page. The components of one of them share no name, which is why `TripPage` says
`PageSpec` and `Chat` `ChatSpec`. `Sums` has what any of them needs of sums over finite
sets, and of the sequences that requests in flight and lists on pages are.

## 4. What is checked

All runs are exhaustive and pass. The type invariants of `Rides`, `Payments` and
`Payouts`, which also bound births and balances, are checked in runs; the others were
checked once, with the same bounds, and those of `Parcels`, `Accounts` and
`PaymentGuards` are proved.

| Run | Bounds | Shows |
|---|---|---|
| `rides_races` | 1 ride, 2 riders, 2 requests at a time, failures | `AssignedWhenUnderWay`, `CompletedIsPaid`, `ChatHasRider` survive every interleaving; `KeepsTripPromise`: so does the promise of `TripLifecycle`, with operations that come late. Two requests are what a race needs; a ride touches no other ride |
| `rides_in_turn` | 2 rides, 1 rider, one request per ride at a time, two commissions, no failures | `KeepsTripPromise`: the split handlers implement the abstract trip; `CreditedExactly`; `ClosedChatMeansEnded`. Two rides of one rider meet in the rider's row |
| `parcels` | 2 parcels of one rider, one with requests in turn and no failures, one with overlapping requests that fail | `KeepsTripPromise` of both, of the first without late operations; `ChatFollowsParcel` of the first whatever happens to the second; `DeliveredIsPaid`; `AverageOfOwnRatings`: two ratings are what a stale list needs |
| `payments_races` | 2 trips, 2 prompts, 2 handlers, failures, every call with a reference | `CompletedIsReported`; `KeepsRowPromise` in its weak form. Two prompts are a first and a resent one, or one for each trip |
| `payments_in_turn` | 1 trip payable in cash too, 2 prompts, one handler at a time on the trip, refusals, calls with and without a reference | `KeepsRowPromise` in its strong form; `PaidSettles` (liveness): money is seen if a call that nests the reference tells of it |
| `payment_guards` | 1 payer, 2 requests; 2 failures lock him out for 2 ticks, 2 open the breaker for 1 | `BreakerAgrees`; `LockoutEnds` and `OutageEnds` (liveness). The limits are small multiples of one another as in the code (10 min, 60 s, 60 s); two failures are the least that differ from one |
| `withdrawals` | 2 riders, 3 payouts, amounts 1 and 2, 2 handlers, failures, updates of two admins overlapping | `KeepsWithdrawalPromise`: those by M-Pesa end once, those of admins may end again; `SentIsNotGivenBack`; `NobodyLoses`; `BooksBalance`: a refund made twice costs the company, and nothing else changes the sum. No balance falls below zero (`TypeOK`). Two handlers are what a race needs, three payouts are one more |
| `accounts` | 1 account, in turn or not, 2 requests, 2 codes, 2 passwords, 2 token pairs, failures | `VerifiedByCode`, `LinkWorksOnce`, `KeepsSessionPromise`. Accounts share no row |
| `trip_page` | the ride page, 2 requests and 1 event in flight, 1 poll of the trip, a socket that drops | `FailureIsOfLastPrompt`, `AwaitingEnds` (liveness). Two requests are an old and a new one |
| `chat_tab` | chat page: 2 messages, 2 requests, 1 handler, a socket that drops; session: 1 tab, 2 requests and a refresh in flight, 2 logins, faults | `NothingTwice`, `PendingSettles`, `SendingEnds` (liveness): a second message is what may stand next to the first. `CallEnds` (liveness): a call waits only for the refresh of its own tab |
| `rider_app` | dashboard: 1 ride, 2 lists, 2 switches in flight; active trips: 2 parcels one after the other, 2 requests, 1 upload; both with faults | `AvailabilityAgrees`, `ProofBeforeDelivery`, `ListCatchesUp` and `ActiveCatchesUp` (liveness) |
| `browser_session` | 2 tabs, 2 requests and a refresh each in flight, 2 logins, a suspended account, errors and lost answers | `TokensBelong`, `LoginLasts`. Two logins are an old session and a new one |

`MCPayments` also evaluates the properties of `LipanaWebhook` on every pair of event
and status and on samples of calls with two ids, when it starts.

`MaxCompletions`, `MaxEarned`, `Pushes`, `Ids`, `Codes`, `MaxPasswords`, `MaxTokens`,
`MaxMessages` bound what grows for ever, `MaxRequests`, `MaxEvents`, `MaxLoads`,
`MaxSwitches`, `MaxUploads` and `Slots` what is in flight; `MaxRidePolls` stands for 72
and `HistorySize` for 50. The guards that use a bound are named or take it as a conjunct
of their own. Deadlock is not checked where the system may come to rest: everything
paid, accounts at their bounds, no trips left.

Each property has a mutant, an operator next to the definition it replaces, that
breaks it: a missing check, a forgotten rider, a second insert, a header left alone.

By hand, larger: the parcel page (`Kinds = {"parcel"}`, 974,937 states); the rider's
active trips with a ride and a parcel (594,062 states). No errors. The dashboard with
a parcel too is too large; ride and parcel differ there only in the check of
availability in `ServeAccept`.

### Fairness

`FairSpec` of `Rides` and `Payments` has weak fairness for the steps of each running
handler and each fired task: Node.js goes on with every promise whose call returns,
and nothing fails in the runs that use it. Webhooks have strong fairness, because
`Procs` is a bound of the model while the server takes every call.
`PaymentGuards` assumes only that time passes: a push may hang for ever.
On the pages, requests are answered in the end (an HTTP request ends with an answer or
an error) and replies, events and running timers are handled, all weakly; what competes
for the bounds on requests in flight, the interval of `TripPage` and the reads of the
rider's pages, and what finds the one handler of `Chat` busy, strongly, since the bound
is the model's. In `BrowserSession` each request and each refresh is taken on by server
and browser. People (new requests, confirmations, presses) and the network (drops,
connections) are under no fairness at all.

### Where code and text disagree

The properties below state what a comment, a test or a document says, and the model
violates them in a few steps. None is a run of its own: set the listed constants in the
cfg and the property in place of its properties. PROJECT.json quotes the text.

| Property | With | The code does |
|---|---|---|
| `NotTakenTwice` | `MCRidesRaces.cfg`, `Faults = FALSE`, as PROPERTY, no SYMMETRY | the second of two accepting riders overwrites the first |
| `TotalsCountTrips` | the same, `Faults = FALSE` | a completion sent twice is credited twice |
| `EndedRideClosesChat` | `MCRidesSerial.cfg`, `SPECIFICATION FairSpec`, one ride | the chat is created after the trip's end looked for it |
| `CompletedIsFinal` | `MCPaymentsTwoTrips.cfg`, `Trips = {t1}`, no refusals or faults | a resend undoes the webhook that came between its read and its write |
| `CompletedMeansPaid` | `MCPaymentsTwoTrips.cfg` | a success reported when the prompt is dispatched completes the payment of a prompt nobody confirmed |
| `PaidIsNeverLost` | `MCPaymentsTwoTrips.cfg`, `FairSpec`, `Trips = {t1}`, `Procs = {p1}` | a success that matches no row is answered 200 and dropped |
| `CompletedIsOwn` | `MCPaymentsTwoTrips.cfg`, `Prefix <- SharedPrefix` | ids created within 36 ms share the 8 characters |
| `SuccessSettles`, `ShapesAgree` | constant level | "payment.paid" without a status is ignored; of a flat body fewer ids are looked up |
| `EndedIsFinal` | `MCPayoutsWithdrawals.cfg`, no SYMMETRY | two admins, two refunds |
| `SessionKnowsPassword` | `MaxTokens = 3`, `Faults = FALSE` | a token that was rotated away still refreshes the session |
| `OpensAfterFailures` | as it is | errors returned by the provider do not count for the breaker, only timeouts and unusable answers |
| `RidePollFollowsPayment` | as it is | a payment first seen as COMPLETED by the interval starts no poll of the ride |
| `LocationWatched` | as it is | the second `connect` replaces the socket on which the location handler was set |
| `FailureIsOfLastPrompt` | `Overtake = TRUE` | a reply sent before a resend puts the old failure back |
| `PendingAlwaysSettles` | as it is | the room is not joined again after a reconnection |
| `HistoryIsNewest` | as it is | a conversation is loaded with its 50 oldest messages |
| `HidingSparesOthers` | as it is | hiding deletes one's own messages for both |
| `NothingTwice` | `ChatOverlap = TRUE` | a history read after a message's creation and before its broadcast has it, and the broadcast brings it again |
| `AvailabilityAgrees` without `~hasty` | `MCRiderApp.cfg` | the rest of `ngOnInit` makes an offline rider available |
| `OfflineShowsNothing`, `ListedOnce` | as `Dash!...` | a late reply fills the list of an offline rider; a broadcast request stands twice until the next poll |
| `ProofBeforeDelivery` | `OneParcel = FALSE`, or `OneUpload = FALSE` and `MaxUploads = 2`, or `Overtake = TRUE` | the page's one flag is that of another parcel |
| `PaidStaysShown` | `TripRides = {r1}` | the answer to a new status lacks the payment |
| `OpenCatchesUp` | as `Active!...` | after a failed first load the timer asks for nothing |
| `ExpiryIsBridged` | as it is | the interceptor overwrites the refresh token's header, so no refresh succeeds and every session ends after 15 minutes |
| `LoginAlwaysLasts` | as it is | an answer of an earlier session clears a newer login |
| `TabsAgree` | as it is | a tab goes on as the user that another tab has replaced |

Not stated as properties: the sender's cancel button asks for a status change that only
riders may make; new requests are broadcast to riders who are offline; a test of
`payments.service.spec.ts` (450) refuses an event that the code settles; leaving the
active page during its first load leaves its timer running; after a refused resend no
timer watches the payment; `updateProfile` changes an address and leaves it verified;
a POST that ended in a 504 is sent again, so a ride may be booked twice; a profile
that comes after another tab's logout puts the user's entry back without tokens.

## 5. What is proved

All theorems hold for every value of the constants; the assumptions on these
(`RidesAssumption`, `ParcelsAssumption`, `PaymentsAssumption`, `PayoutsAssumption`,
`GuardsAssumption`, `AccountsAssumption`, `WebhookAssumption`, `BrowserAssumption`,
`RiderAppAssumption`, `TripPageAssumption`, `ChatAssumption`) are evaluated by TLC in the
runs. Of tables and handlers they say at
most that they are finite, where something is counted or summed over them.

| Theorem | Statement | Argument |
|---|---|---|
| `RidesProofs!TypeCorrect` | `Spec => []TypeOK` | with the ride and rider each place of a handler carries |
| `RidesProofs!AssignedAlways`, `ChatsHaveRiders` | `AssignedWhenUnderWay`, `ChatHasRider` | `AssignedWhenUnderWay` is not inductive: a handler about to write a status must already know that its ride has a rider, which no step takes away |
| `RidesProofs!RidesKeepTripPromise` | `Spec => KeepsTripPromise` | a write that comes late is a late operation of the trip, because its handler knows the rider and, unless payments are undone, the payment (`PaidInv`); if requests take turns `SerialInv`: a handler is alone on its ride, so what it read is still what the row says, and its write is one operation in its place |
| `ParcelsProofs!TypeCorrect` | `Spec => []TypeOK`, averages in 0..5 stars | with what each place of a handler carries; an average lies between its scores (`Sums!SumBounded`) |
| `ParcelsProofs!ParcelsKeepTripPromise` | `Spec => KeepsTripPromise` | as for rides, parcel by parcel: those of `InTurn` by `SerialInv`, the others by late operations |
| `ParcelsProofs!AveragesAreOwn` | `Spec => []AverageOfOwnRatings` | `RatingInv`: a rating given is never changed, so an old list still has own ratings, and the average of a rating not yet in one is going to be written by its handler |
| `PaymentsProofs!TypeCorrect` | `Spec => []TypeOK` | with a counting argument: a trip without a row leaves room for one more birth |
| `PaymentsProofs!CompletedWasReported` | `Spec => []CompletedIsReported`, whether prefixes tell trips apart or not | `PaidInv` follows the ids: every checkout id or receipt in a row, in a handler and in a webhook belongs to a prompt whose reference reads as the trip's, and a receipt or a success to one that was reported |
| `PaymentsProofs!PaymentsImplementRow` | `Spec => KeepsRowPromise` | `OpenInv`: the row a handler writes exists, and with one handler at a time on a payment is unpaid until it writes; rows with ids are M-Pesa rows or COMPLETED |
| `PaymentsProofs!SettlementNeedsBoth`, `ExactlyTheseIgnored`, `ResultCodesDecide`, `RepeatsFindTheirRow`, `OnlySettlementsComplete` | the properties of `LipanaWebhook`, of every event, status and body | the sets of labels are disjoint; the first id given is one of those looked up |
| `PayoutsProofs!NeverOverdrawn` | `Spec => []TypeOK`, balances included | the reservation's condition is checked by the update itself |
| `PayoutsProofs!PayoutsKeepWithdrawalPromise` | `Spec => KeepsWithdrawalPromise` | `SlipInv`: what a handler carries of a payout is what its row says, and the handler that sends it holds it alone, because admins find PENDING ones only, which go to a bank; those, admins may share |
| `PayoutsProofs!SentStaysSent` | `Spec => []SentIsNotGivenBack` | `SentInv`: if no answer is lost, the handler about to send or to give back knows that no money has gone out, and admins hold only payouts that are never sent |
| `PayoutsProofs!RidersNeverLose` | `Spec => []NobodyLoses` | the rider's surplus (balance and payouts not given back, less what was earned) never shrinks (`StepSurplus`): each step moves at most one payout into or out of the sum, and what is given back a second time is on top of it |
| `PayoutsProofs!BooksAlwaysBalance` | `Spec => BooksBalance` | the same lemma: by `SlipInv` what a handler gives back is its payout's amount, so the surplus grows only where a payout that has ended ends again |
| `PromptsProofs!TypeCorrect`, `BreakerAlwaysAgrees` | `TypeOK`, `BreakerAgrees` | the counter stays at or above the threshold while the breaker is open, whoever reports |
| `AccountsProofs!TypeCorrect` | `Spec => []TypeOK` | every step is an `Effect`: what it may do to each table at most |
| `AccountsProofs!VerifiedAlways` | `Spec => []VerifiedByCode` | the codes a verification still holds are the account's own, and a used code is never deleted |
| `PagesProofs!TokensAlwaysBelong`, `RefreshesFail` | `Spec => []TokensBelong`; no refresh ever succeeds | `SessionInv`: a refresh on its way carries an access token, because the interceptor puts the stored one there; what would be written by a refresh never is, a login writes all, a logout clears all, a profile writes the user alone |
| `PagesProofs!LoginsLast` | `Spec => LoginLasts` | `LastsInv`: while nothing older is in flight and the account has not been suspended, every call carries the login's own token, so that a refusal shows this token to be over |

The following hold under assumptions that nothing in the code enforces, and say what it
would take. They are proved, since the runs check what they state under the same
assumptions, and are not among PROJECT.json's theorems. What happens without the
assumption is in the table of section 4.

| Theorem | Under | Statement | Argument |
|---|---|---|---|
| `RidesProofs!PaidBeforeCompleted`, `ParcelsProofs!PaidBeforeDelivered` | `~Regress` | `CompletedIsPaid`, `DeliveredIsPaid` | `PaidInv`: a handler past the gate of a completion knows its trip is paid, which stays so |
| `RidesProofs!ChatsCloseAtTheEnd` | `OnePerRide` | `ClosedChatMeansEnded` | `SettledInv`: a ride that has ended is never written again, so what is done some awaits after its end finds it as it was |
| `RidesProofs!RidersCreditedExactly` | `OnePerRide`, `~Faults` | `CreditedExactly` | by `SettledInv` an increment is worth what its ride's row says; each step moves at most one ride into the sum on the right, one handler into or out of that on the left |
| `ParcelsProofs!ChatsFollowParcels` | parcels of `InTurn` | `ChatFollowsParcel` | `ChatInv`: the chat and the status differ only while the handler that changed the status has the chat still to do |
| `AccountsProofs!LinkAlwaysWorksOnce`, `SessionPromiseKept` | accounts of `inTurn` | `LinkWorksOnce`, `KeepsSessionPromise` | `Together`: types, links, what handlers know, that a handler on an account of `inTurn` is alone, and that what it read is still so |
| `PromptsProofs!LastPromptsFailure` | `~Overtake` | `FailureIsOfLastPrompt` | `PromptInv`, below |
| `PagesProofs!AvailabilityAlwaysAgrees` | `~Overlap` | `AvailabilityAgrees` | `SwitchInv`: the switch sent last, wherever it is on its way, is what the page shows; the handlers work on one at a time, so it is also what the row ends with |
| `PagesProofs!ProvenBeforeDelivery` | `OneParcel`, `OneUpload`, `~Overtake` | `ProofBeforeDelivery` | `ProofInv`: every reply on its way shows the parcel as the replies before it leave it (`View`), so an old one cannot bring back an earlier parcel; hence the page's flag and the upload in flight are about the parcel shown, and a delivery that was asked for has its proof already |
| `PagesProofs!NoMessageTwice`, `PendingIsAnswered` | `~ChatOverlap` | `NothingTwice`, `PendingSettles` | `ChatInv`, below |

`Sums` is a library: of a sum over a finite set its type, its bounds and how it changes
when an element joins or leaves, of a sequence that an element is appended to, written
over in or taken from. It says nothing of the program, and its lemmas are cited only.

The theorems on sums need an induction that no prover does by itself. `Sums!SetInduction`
derives it: if some subset of a finite set were a counterexample, a smallest one would
exist, because strict inclusion of finite sets is well-founded
(`FS_StrictSubsetOrderingWellFounded`), and removing one element from it would be another.

The invariants of the two pages whose answers come in several ways are the longest.

`PromptInv`: replies are used in the order in which the requests were sent, so a read of
the trip that was answered before a prompt was made is read before that prompt's own
reply. While the last prompt is open, then, a reply that tells of a failure has a request
for a prompt behind it (`FailuresAreOld`), at most one such request is under way, and
`paying` says so; a page that is neither `paying` nor `refused` shows no failure and has
put none off (`Calm`). A step of the payment from FAILED to PROCESSING is the serving of a
prompt, at which the last two conjuncts begin to speak.

`ChatInv`: what the page has sent is at one place at a time - emitted, at work in a
handler, acknowledged, or an HTTP request - and while it is anywhere the page says
`sending` (`OneSend`). A load of the history is alone, and while it is under way the page
is neither in the room nor about to enter it, so the history cannot bring what a
broadcast brings too (`OneLoad`, `EachOnce`); a message that its handler has created and
not yet announced is nowhere on the page's side (`IdsKnown`). For `PendingSettles` a
pending entry must have its answer coming (`Covered`), and of a message sent by the
socket this says that the page is in the room, or will be before the server reads it, so
that the broadcast comes before the acknowledgement (`Settled`). TLC checked `ChatInv`
with two texts and two handlers (7,263,734 states) before it was proved. `~ChatOverlap`
is needed: a history that is read between a message's creation and its broadcast has the
message already, and the broadcast is appended to it.

`~Regress`, where it stands, is an assumption on the payment service: that the
handlers of one trip's payment do not overlap. `PaymentsImplementRow` proves that the
service then keeps it, `CompletedIsFinal` shows what happens otherwise.

`OnePerRide` and `InTurn` assume that the requests on one row take turns. Without them
the credits do not hold, and the refinements hold with the late operations of their
abstract specification: `NotTakenTwice` and `TotalsCountTrips` of section 4 show a
second rider and a second credit.

`~Overlap` (the server works on one switch of a rider's availability at a time),
`~ChatOverlap` (it works on one message or history of a conversation at a time),
`~Overtake` of either page (what it asks for is served, and its answers are used, in
order), `OneParcel` and `OneUpload` are what the runs assume too. The code enforces none
of them; section 4 has the violation that each but the first prevents.

Only model-checked: liveness (`PaidSettles`, `LockoutEnds`, `OutageEnds`, `AwaitingEnds`,
`SendingEnds`, `ListCatchesUp`, `ActiveCatchesUp`, `CallEnds`), which needs fairness and
ENABLED and is out of the prover's reach. The invariants, action properties and
refinements that passing runs check are proved, in the second table only under the
assumptions of their runs.

## 6. Not modelled

- Forms, lists and most of the admin's pages: they read, show and send one request at
  a time. More than half of the frontend's lines are templates and styles.
- Controllers, DTOs, guards of roles, filters, modules: they hand a call to a service.
- Queries, statistics, analytics, receipts as PDF, mail templates, seeds: they change
  nothing that a model holds.
- Notifications, mail, media, map, payment audit: I/O after the fact.
- Users and support: rows that only their owner writes.
- `neon_triggers.sql`: optional, and its column names are those of no migration.
- The admin's forced ride status, which may write any status; `rateRide` and
  `ratePassenger` (the code of `rateParcel`); the relay of locations; read receipts and
  older pages of a chat; the week of a refresh token.
