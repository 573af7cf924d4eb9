----------------------------- MODULE Payments -----------------------------
(***************************************************************************)
(* PaymentsService: one row per trip, paid by M-Pesa prompts ("STK         *)
(* pushes") that the provider Lipana sends to the passenger's phone and    *)
(* reports on by webhook, or in cash by the rider who completes the trip.  *)
(*                                                                         *)
(* As in Rides, a handler is a process of Procs that makes one database    *)
(* or provider call per action and writes unconditionally by id what an    *)
(* earlier read decided.  A push that outlasts its 20 seconds goes on in   *)
(* the background after the request was answered.                          *)
(***************************************************************************)
EXTENDS Naturals, FiniteSets

CONSTANTS
    Trips,      \* rides and parcels to pay for
    CashTrips,  \* those booked with paymentMethod CASH
    Prefix,     \* Prefix[t]: kind and first 8 characters of the id
    Pushes,     \* STK pushes; bounds how many are ever sent
    Procs,      \* handlers at work at the same time
    None,       \* null
    OnePerTrip, \* TRUE: the handlers of one trip's payment never overlap
    References, \* the choices of ref below, whether calls nest a reference
    Refusals,   \* TRUE: customers may dismiss a prompt or let it expire
    Faults      \* TRUE: a provider or database call may fail, or the server stop

ASSUME PaymentsAssumption ==
    /\ IsFiniteSet(Trips) /\ CashTrips \subseteq Trips
    /\ None \notin Trips \cup Pushes
    /\ References \subseteq BOOLEAN
    /\ OnePerTrip \in BOOLEAN /\ Refusals \in BOOLEAN /\ Faults \in BOOLEAN

VARIABLES
    pay,        \* table payments, by trip
    push,       \* push[u]: the trip it asks money for, and what became of it
    hooks,      \* webhook calls the provider has made: push, event, and whether
                \* the body nests an account reference
    recent,     \* trips in recentRequests (the key also names the payer)
    h           \* h[p]: the handler process p is running

vars == <<pay, push, hooks, recent, h>>

Row == INSTANCE PaymentRow
         WITH pay <- [t \in Trips |-> [st |-> pay[t].st, method |-> pay[t].method]],
              Regress <- ~OnePerTrip

-----------------------------------------------------------------------------
(* Rows, pushes, webhooks                                                  *)

Phones == {"good", "malformed", "missing"}

Rows == [st : Row!PayStatuses, method : Row!PayMethods \cup {"NONE"},
         phone : Phones, checkout : Pushes \cup {None},
         receipt : Pushes \cup {None}, born : 0 .. Cardinality(Trips)]

NoRow == [st |-> "NONE", method |-> "NONE", phone |-> "missing",
          checkout |-> None, receipt |-> None, born |-> 0]

RowsBorn == Cardinality({t \in Trips : pay[t].st # "NONE"})

PushStates == {"unused", "prompt", "paid", "refused"}
Events == {"success", "failed"}

(* A call: <<push, event, ref>>, ref for a body whose nested data object   *)
(* has an accountReference of the form sent with the prompt.               *)
Deliveries == Pushes \X Events \X References

(* Which of the ids a webhook carries agree with what is stored: Lipana    *)
(* names its id fields differently from call to call.                      *)
Carried == SUBSET {"checkout", "receipt"}

Places ==
    {"idle", "initiate.create", "resend.update", "stk.call", "stk.persist",
     "stk.markFailed", "webhook.settle", "webhook.fail", "cash.settle"}

HandlerRecords ==
    [pc : Places, trip : Trips \cup {None}, method : Row!PayMethods,
     phone : Phones, push : Pushes \cup {None}, ids : Carried,
     seen : Row!PayStatuses, background : BOOLEAN]

Idle == [pc |-> "idle", trip |-> None, method |-> "MPESA", phone |-> "missing",
         push |-> None, ids |-> {}, seen |-> "NONE", background |-> FALSE]

Free(p, t) ==
    /\ h[p].pc = "idle"
    /\ OnePerTrip => \A q \in Procs : h[q].trip # t

(* The bound on pushes: a handler that may send one finds one left.        *)
PushLeft ==
    Cardinality({q \in Procs : h[q].pc \in {"initiate.create", "resend.update", "stk.call"}})
        < Cardinality({u \in Pushes : push[u].st = "unused"})

At(p, pc) == h[p].pc = pc
Goto(p, pc) == h' = [h EXCEPT ![p].pc = pc]
Return(p) == h' = [h EXCEPT ![p] = Idle]
Start(p, rec) == h' = [h EXCEPT ![p] = rec]

Init ==
    /\ pay = [t \in Trips |-> NoRow]
    /\ push = [u \in Pushes |-> [trip |-> None, st |-> "unused", success |-> FALSE]]
    /\ hooks = {}
    /\ recent = {}
    /\ h = [p \in Procs |-> Idle]

-----------------------------------------------------------------------------
(* Mutants: what a slip in one of the handlers below would do.             *)

(* The table has no unique index on the trip.                              *)
InsertsAgain(p) ==
    /\ At(p, "initiate.create")
    /\ pay' = [pay EXCEPT ![h[p].trip] =
                  [NoRow EXCEPT !.st = "PROCESSING", !.method = h[p].method,
                                !.phone = h[p].phone, !.born = RowsBorn + 1]]
    /\ IF h[p].method = "CASH" \/ h[p].phone = "missing"
       THEN Return(p) ELSE Goto(p, "stk.call")
    /\ UNCHANGED <<push, hooks, recent>>

-----------------------------------------------------------------------------
(* initiatePayment: a payment under way is returned as it is; a second     *)
(* request within the window is refused.                                   *)
InitiateFind(p, t, m, phone) ==
    /\ Free(p, t) /\ PushLeft
    /\ pay[t].st # "PROCESSING"
    /\ t \notin recent
    /\ recent' = recent \cup {t}
    /\ Start(p, [Idle EXCEPT !.pc = "initiate.create", !.trip = t,
                             !.method = m, !.phone = phone])
    /\ UNCHANGED <<pay, push, hooks>>

(* The insert, refused by the unique index if the trip has a row.  Cash    *)
(* ends here; a missing phone is an error, with the row already there.     *)
InitiateCreate(p) ==
    /\ At(p, "initiate.create")
    /\ LET t == h[p].trip
           row == [st |-> "PROCESSING", method |-> h[p].method,
                   phone |-> h[p].phone, checkout |-> None, receipt |-> None,
                   born |-> RowsBorn + 1]
       IN  IF pay[t].st # "NONE"
           THEN Return(p) /\ UNCHANGED pay
           ELSE /\ pay' = [pay EXCEPT ![t] = row]
                /\ IF row.method = "CASH" \/ row.phone = "missing"
                   THEN Return(p) ELSE Goto(p, "stk.call")
    /\ UNCHANGED <<push, hooks, recent>>

(* resendPayment: for an M-Pesa row that is PROCESSING or FAILED.  Its     *)
(* duplicate check deletes the key it is about to look up.                 *)
ResendFind(p, t) ==
    /\ Free(p, t) /\ PushLeft
    /\ pay[t].st \in {"PROCESSING", "FAILED"}
    /\ pay[t].method = "MPESA"
    /\ pay[t].phone # "missing"
    /\ recent' = recent \cup {t}
    /\ Start(p, [Idle EXCEPT !.pc = "resend.update", !.trip = t,
                             !.phone = pay[t].phone])
    /\ UNCHANGED <<pay, push, hooks>>

ResendUpdate(p) ==
    /\ At(p, "resend.update")
    /\ pay' = [pay EXCEPT ![h[p].trip] =
                  [@ EXCEPT !.st = "PROCESSING", !.checkout = None, !.receipt = None]]
    /\ Goto(p, "stk.call")
    /\ UNCHANGED <<push, hooks, recent>>

(* performStkPushAndPersistIds: a malformed number is refused before the   *)
(* provider is called; a good one gets a prompt.                           *)
StkRejectPhone(p) ==
    /\ At(p, "stk.call")
    /\ h[p].phone = "malformed"
    /\ Return(p)
    /\ UNCHANGED <<pay, push, hooks, recent>>

StkCall(p, u) ==
    /\ At(p, "stk.call")
    /\ h[p].phone = "good"
    /\ push[u].st = "unused"
    /\ push' = [push EXCEPT ![u] = [@ EXCEPT !.trip = h[p].trip, !.st = "prompt"]]
    /\ h' = [h EXCEPT ![p] = [@ EXCEPT !.pc = "stk.persist", !.push = u]]
    /\ UNCHANGED <<pay, hooks, recent>>

StkPersist(p) ==
    /\ At(p, "stk.persist")
    /\ pay' = [pay EXCEPT ![h[p].trip].checkout = h[p].push]
    /\ Return(p)
    /\ UNCHANGED <<push, hooks, recent>>

(* launchStkPushWithTimeout: the request is answered, the push goes on.    *)
StkTimeout(p) ==
    /\ h[p].pc \in {"stk.call", "stk.persist"}
    /\ ~h[p].background /\ h[p].phone = "good"
    /\ h' = [h EXCEPT ![p].background = TRUE]
    /\ UNCHANGED <<pay, push, hooks, recent>>

(* The provider's call, its answer or the update after it fails: in the    *)
(* foreground the request fails, in the background the row is marked.      *)
StkError(p) ==
    /\ Faults
    /\ h[p].pc \in {"stk.call", "stk.persist"}
    /\ IF h[p].background THEN Goto(p, "stk.markFailed") ELSE Return(p)
    /\ UNCHANGED <<pay, push, hooks, recent>>

StkMarkFailed(p) ==
    /\ At(p, "stk.markFailed")
    /\ pay' = [pay EXCEPT ![h[p].trip].st = "FAILED"]
    /\ Return(p)
    /\ UNCHANGED <<push, hooks, recent>>

-----------------------------------------------------------------------------
(* handleLipanaWebhook: find the row by the ids the call carries, or else  *)
(* by its account reference, the newest M-Pesa row still PROCESSING.       *)

ById(u, ids) ==
    {t \in Trips : \/ "checkout" \in ids /\ pay[t].checkout = u
                   \/ "receipt" \in ids /\ pay[t].receipt = u}

(* Mutant: the newest row waiting, whatever reference the call carries.    *)
AnyReference(u) ==
    {t \in Trips : pay[t].st = "PROCESSING" /\ pay[t].method = "MPESA"}

ByReference(u) ==
    {t \in Trips : /\ pay[t].st = "PROCESSING" /\ pay[t].method = "MPESA"
                   /\ Prefix[t] = Prefix[push[u].trip]}

Newest(S) == {t \in S : \A s \in S : pay[s].born <= pay[t].born}

(* Mutant: no fallback to the account reference.                           *)
OnlyById(u, ref, ids) == ById(u, ids)

WebhookMatches(u, ref, ids) ==
    IF ById(u, ids) # {} THEN ById(u, ids)
    ELSE IF ref THEN Newest(ByReference(u)) ELSE {}

(* Mutant: a COMPLETED row is not skipped.                                 *)
CompletedNotSkipped(p, u, ev, ref, ids) ==
    /\ <<u, ev, ref>> \in hooks
    /\ h[p].pc = "idle"
    /\ hooks' \in {hooks, hooks \ {<<u, ev, ref>>}}
    /\ \E t \in WebhookMatches(u, ref, ids) :
          /\ Free(p, t)
          /\ Start(p, [Idle EXCEPT !.pc = IF ev = "success" THEN "webhook.settle"
                                                            ELSE "webhook.fail",
                                   !.trip = t, !.push = u, !.ids = ids])
    /\ UNCHANGED <<pay, push, recent>>

(* The provider may deliver a call again, so it stays in hooks or not.  A  *)
(* call nothing matches, or whose row is COMPLETED, is answered and gone.  *)
WebhookFind(p, u, ev, ref, ids) ==
    /\ <<u, ev, ref>> \in hooks
    /\ h[p].pc = "idle"
    /\ hooks' \in {hooks, hooks \ {<<u, ev, ref>>}}
    /\ LET rows == WebhookMatches(u, ref, ids)
           pc == IF ev = "success" THEN "webhook.settle" ELSE "webhook.fail"
       IN  \/ \E t \in rows :
                 /\ pay[t].st # "COMPLETED"
                 /\ Free(p, t)
                 /\ Start(p, [Idle EXCEPT !.pc = pc, !.trip = t, !.push = u,
                                          !.ids = ids])
           \/ /\ rows = {} \/ \E t \in rows : pay[t].st = "COMPLETED"
              /\ UNCHANGED h
    /\ UNCHANGED <<pay, push, recent>>

(* A success; the checkout id is unique, so the update may be refused.     *)
WebhookSettle(p) ==
    /\ At(p, "webhook.settle")
    /\ LET t == h[p].trip
           u == h[p].push
           named == "checkout" \in h[p].ids
       IN  IF named /\ \E s \in Trips \ {t} : pay[s].checkout = u
           THEN UNCHANGED pay
           ELSE pay' = [pay EXCEPT ![t] =
                           [@ EXCEPT !.st = "COMPLETED", !.receipt = u,
                                     !.checkout = IF named THEN u ELSE pay[t].checkout]]
    /\ Return(p)
    /\ UNCHANGED <<push, hooks, recent>>

WebhookFail(p) ==
    /\ At(p, "webhook.fail")
    /\ pay' = [pay EXCEPT ![h[p].trip].st = "FAILED"]
    /\ Return(p)
    /\ UNCHANGED <<push, hooks, recent>>

-----------------------------------------------------------------------------
(* updateRideStatus and updateParcelStatus, completing a cash trip.        *)
CashFind(p, t) ==
    /\ Free(p, t)
    /\ t \in CashTrips
    /\ pay[t].st # "COMPLETED"
    /\ Start(p, [Idle EXCEPT !.pc = "cash.settle", !.trip = t, !.seen = pay[t].st])
    /\ UNCHANGED <<pay, push, hooks, recent>>

CashSettle(p) ==
    /\ At(p, "cash.settle")
    /\ LET t == h[p].trip
           paid == [pay[t] EXCEPT !.st = "COMPLETED", !.method = "CASH"]
       IN  CASE h[p].seen # "NONE" -> pay' = [pay EXCEPT ![t] = paid]
             [] h[p].seen = "NONE" /\ pay[t].st = "NONE" ->
                    pay' = [pay EXCEPT ![t] = [paid EXCEPT !.born = RowsBorn + 1]]
             [] OTHER -> UNCHANGED pay
    /\ Return(p)
    /\ UNCHANGED <<push, hooks, recent>>

(* The provider reports a success of push u: of the customer's payment, or *)
(* only that the prompt was sent.  A comment of the webhook's code takes   *)
(* transaction.success for the former, its test for the latter; the code   *)
(* settles the row either way.                                             *)
ReportsSuccess(u, st, ref) ==
    /\ push[u].st = "prompt"
    /\ push' = [push EXCEPT ![u] = [@ EXCEPT !.st = st, !.success = TRUE]]
    /\ hooks' = hooks \cup {<<u, "success", ref>>}
    /\ UNCHANGED <<pay, recent, h>>

ProviderDispatches(u, ref) == ReportsSuccess(u, "prompt", ref)

(* The customer confirms the prompt or does not, and the provider tells.   *)
CustomerPays(u, ref) == ReportsSuccess(u, "paid", ref)

CustomerRefuses(u, ref) ==
    /\ Refusals
    /\ push[u].st = "prompt"
    /\ push' = [push EXCEPT ![u].st = "refused"]
    /\ hooks' = hooks \cup {<<u, "failed", ref>>}
    /\ UNCHANGED <<pay, recent, h>>

(* The 60 seconds of isDuplicateRequest pass, or the server restarts.      *)
WindowExpires(t) ==
    /\ t \in recent
    /\ recent' = recent \ {t}
    /\ UNCHANGED <<pay, push, hooks, h>>

HandlerFails(p) ==
    /\ Faults
    /\ h[p].pc # "idle"
    /\ Return(p)
    /\ UNCHANGED <<pay, push, hooks, recent>>

HandlerStep(p) ==
    \/ InitiateCreate(p) \/ ResendUpdate(p)
    \/ StkRejectPhone(p) \/ \E u \in Pushes : StkCall(p, u)
    \/ StkPersist(p) \/ StkMarkFailed(p)
    \/ WebhookSettle(p) \/ WebhookFail(p) \/ CashSettle(p)

WebhookArrives(m) ==
    \E p \in Procs, ids \in Carried : WebhookFind(p, m[1], m[2], m[3], ids)

NewRequest(p, t) ==
    \/ \E m \in Row!PayMethods, phone \in Phones : InitiateFind(p, t, m, phone)
    \/ ResendFind(p, t)
    \/ CashFind(p, t)

Next ==
    \/ \E p \in Procs : HandlerStep(p) \/ StkTimeout(p) \/ StkError(p) \/ HandlerFails(p)
    \/ \E p \in Procs, t \in Trips : NewRequest(p, t)
    \/ \E m \in Deliveries : WebhookArrives(m)
    \/ \E u \in Pushes, ref \in References :
          ProviderDispatches(u, ref) \/ CustomerPays(u, ref) \/ CustomerRefuses(u, ref)
    \/ \E t \in Trips : WindowExpires(t)

Spec == Init /\ [][Next]_vars

(* Node.js goes on with every call it awaits, and each success call with a *)
(* reference is served in the end, however many handlers are at work.      *)
FairSpec ==
    /\ Spec
    /\ \A p \in Procs : WF_vars(HandlerStep(p))
    /\ \A u \in Pushes : SF_vars(WebhookArrives(<<u, "success", TRUE>>))
=============================================================================
