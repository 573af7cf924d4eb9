------------------------------ MODULE Payouts ------------------------------
(***************************************************************************)
(* RidersService.requestPayout and AdminService.updatePayoutStatus: a      *)
(* rider withdraws earnings, by M-Pesa at once through Lipana, or by bank  *)
(* through an admin.                                                       *)
(*                                                                         *)
(* A handler is a process of Procs.  The reservation and the refunds are   *)
(* transactions, one action each; between them other handlers run.         *)
(***************************************************************************)
EXTENDS Naturals, FiniteSets

CONSTANTS
    Riders,
    Ids,            \* ids of payouts; bounds how many are ever requested
    Amounts,        \* whole shillings asked for or earned at a time
    MaxEarned,      \* bound on what a rider ever earns
    Procs,          \* handlers at work at the same time
    None,           \* null
    LostAnswers,    \* TRUE: the answer to a transfer may be lost
    Faults          \* TRUE: a database call may fail, or the server stop

ASSUME PayoutsAssumption ==
    /\ IsFiniteSet(Ids)
    /\ Amounts \subseteq Nat \ {0}
    /\ None \notin Riders \cup Ids
    /\ MaxEarned \in Nat
    /\ LostAnswers \in BOOLEAN /\ Faults \in BOOLEAN

VARIABLES
    balance,    \* rider.totalEarnings, by rider
    earned,     \* history: all the trips ever credited, by rider
    payout,     \* table payouts
    sent,       \* payouts whose money Lipana has transferred
    h           \* h[p]: the handler process p is running

vars == <<balance, earned, payout, sent, h>>

PayoutStates == {"NONE", "PENDING", "PROCESSING", "COMPLETED", "FAILED", "REJECTED"}
Methods == {"MPESA", "BANK"}

PayoutRows == [st : PayoutStates, riderId : Riders \cup {None},
               amount : Amounts \cup {0}, method : Methods]

NoPayout == [st |-> "NONE", riderId |-> None, amount |-> 0, method |-> "MPESA"]

Places == {"idle", "reserve", "send", "complete", "refund", "admin.update"}

HandlerRecords ==
    [pc : Places, payout : Ids \cup {None}, rider : Riders \cup {None},
     amount : Amounts \cup {0}, method : Methods,
     to : {"COMPLETED", "REJECTED"}]

Idle == [pc |-> "idle", payout |-> None, rider |-> None, amount |-> 0,
         method |-> "MPESA", to |-> "COMPLETED"]

At(p, pc) == h[p].pc = pc
Goto(p, pc) == h' = [h EXCEPT ![p].pc = pc]
Return(p) == h' = [h EXCEPT ![p] = Idle]
Start(p, rec) == h' = [h EXCEPT ![p] = rec]

(* The bound on payouts: a request that may make one finds an id left.     *)
IdLeft == Cardinality({q \in Procs : At(q, "reserve")})
              < Cardinality({o \in Ids : payout[o].st = "NONE"})

Add(k, a) == balance' = [balance EXCEPT ![k] = balance[k] + a]
Mark(o, st) == payout' = [payout EXCEPT ![o].st = st]

Init ==
    /\ balance = [k \in Riders |-> 0]
    /\ earned = [k \in Riders |-> 0]
    /\ payout = [o \in Ids |-> NoPayout]
    /\ sent = {}
    /\ h = [p \in Procs |-> Idle]

-----------------------------------------------------------------------------
(* Mutants: what a slip in one of the handlers below would do.             *)

(* The reservation trusts the balance read before it.                      *)
ReserveOnTrust(p, o) ==
    /\ At(p, "reserve")
    /\ payout[o].st = "NONE"
    /\ LET k == h[p].rider
       IN  /\ balance' = [balance EXCEPT ![k] = balance[k] - h[p].amount]
           /\ payout' = [payout EXCEPT ![o] = [st |-> "PENDING", riderId |-> k,
                                              amount |-> h[p].amount,
                                              method |-> h[p].method]]
    /\ Return(p)
    /\ UNCHANGED <<earned, sent>>

(* Every error of a transfer is answered by a refund.                      *)
SendWithoutIdRefunds(p) ==
    /\ At(p, "send")
    /\ sent' \in {sent, sent \cup {h[p].payout}}
    /\ Goto(p, "refund")
    /\ UNCHANGED <<balance, earned, payout>>

(* The refund marks the payout and forgets the rider.                      *)
RefundMarksOnly(p) ==
    /\ At(p, "refund")
    /\ Mark(h[p].payout, "FAILED")
    /\ Return(p)
    /\ UNCHANGED <<balance, earned, sent>>

(* The admin may update a payout that is being sent.                       *)
AdminFindOpen(p, o, to) ==
    /\ At(p, "idle")
    /\ payout[o].st \in {"PENDING", "PROCESSING", "FAILED"}
    /\ Start(p, [Idle EXCEPT !.pc = "admin.update", !.payout = o, !.to = to,
                             !.rider = payout[o].riderId, !.amount = payout[o].amount])
    /\ UNCHANGED <<balance, earned, payout, sent>>

-----------------------------------------------------------------------------
(* requestPayout: look at the balance ...                                  *)
RequestFind(p, k, a, m) ==
    /\ At(p, "idle") /\ IdLeft
    /\ balance[k] >= a
    /\ Start(p, [Idle EXCEPT !.pc = "reserve", !.rider = k, !.amount = a, !.method = m])
    /\ UNCHANGED <<balance, earned, payout, sent>>

(* ... then take the money if it is still there (updateMany with the       *)
(* condition, and the insert, in one transaction).                         *)
ReserveRefused(p) ==
    /\ At(p, "reserve")
    /\ balance[h[p].rider] < h[p].amount
    /\ Return(p)
    /\ UNCHANGED <<balance, earned, payout, sent>>

Reserve(p, o) ==
    /\ At(p, "reserve")
    /\ payout[o].st = "NONE"
    /\ LET k == h[p].rider
           a == h[p].amount
           row(st) == [st |-> st, riderId |-> k, amount |-> a, method |-> h[p].method]
       IN  /\ balance[k] >= a
           /\ balance' = [balance EXCEPT ![k] = balance[k] - a]
           /\ \/ /\ h[p].method = "MPESA"
                 /\ payout' = [payout EXCEPT ![o] = row("PROCESSING")]
                 /\ Start(p, [h[p] EXCEPT !.pc = "send", !.payout = o])
              \/ /\ h[p].method # "MPESA"
                 /\ payout' = [payout EXCEPT ![o] = row("PENDING")]
                 /\ Return(p)
    /\ UNCHANGED <<earned, sent>>

(* sendToPhone: the transfer is made and its id comes back.                *)
SendDone(p) ==
    /\ At(p, "send")
    /\ sent' = sent \cup {h[p].payout}
    /\ Goto(p, "complete")
    /\ UNCHANGED <<balance, earned, payout>>

(* It is refused, or 60 seconds pass without an answer.                    *)
SendFailed(p) ==
    /\ At(p, "send")
    /\ sent' \in {sent} \cup (IF LostAnswers THEN {sent \cup {h[p].payout}} ELSE {})
    /\ Goto(p, "refund")
    /\ UNCHANGED <<balance, earned, payout>>

(* An answer without an id: InternalServerErrorException, thrown on.       *)
SendWithoutId(p) ==
    /\ At(p, "send")
    /\ sent' \in {sent, sent \cup {h[p].payout}}
    /\ Return(p)
    /\ UNCHANGED <<balance, earned, payout>>

Complete(p) ==
    /\ At(p, "complete")
    /\ Mark(h[p].payout, "COMPLETED")
    /\ Return(p)
    /\ UNCHANGED <<balance, earned, sent>>

Refund(p) ==
    /\ At(p, "refund")
    /\ Mark(h[p].payout, "FAILED")
    /\ Add(h[p].rider, h[p].amount)
    /\ Return(p)
    /\ UNCHANGED <<earned, sent>>

(* updatePayoutStatus reads the payout before its transaction and writes   *)
(* it by id.                                                               *)
AdminFind(p, o, to) ==
    /\ At(p, "idle")
    /\ payout[o].st = "PENDING"
    /\ Start(p, [Idle EXCEPT !.pc = "admin.update", !.payout = o, !.to = to,
                             !.rider = payout[o].riderId, !.amount = payout[o].amount])
    /\ UNCHANGED <<balance, earned, payout, sent>>

AdminReject(p) ==
    /\ At(p, "admin.update") /\ h[p].to = "REJECTED"
    /\ Mark(h[p].payout, "REJECTED")
    /\ Add(h[p].rider, h[p].amount)
    /\ Return(p)
    /\ UNCHANGED <<earned, sent>>

AdminComplete(p) ==
    /\ At(p, "admin.update") /\ h[p].to = "COMPLETED"
    /\ Mark(h[p].payout, "COMPLETED")
    /\ Return(p)
    /\ UNCHANGED <<balance, earned, sent>>

(* Rides and Parcels: a completed trip is credited, an atomic increment.   *)
Credit(k, a) ==
    /\ earned[k] + a <= MaxEarned
    /\ Add(k, a)
    /\ earned' = [earned EXCEPT ![k] = earned[k] + a]
    /\ UNCHANGED <<payout, sent, h>>

(* A database call throws, or the server stops: the handler ends where it  *)
(* stands.                                                                 *)
HandlerFails(p) ==
    /\ Faults
    /\ ~At(p, "idle")
    /\ Return(p)
    /\ UNCHANGED <<balance, earned, payout, sent>>

HandlerStep(p) ==
    \/ ReserveRefused(p) \/ \E o \in Ids : Reserve(p, o)
    \/ SendDone(p) \/ SendFailed(p) \/ SendWithoutId(p)
    \/ Complete(p) \/ Refund(p)
    \/ AdminReject(p) \/ AdminComplete(p)
    \/ HandlerFails(p)

NewRequest(p) ==
    \/ \E k \in Riders, a \in Amounts, m \in Methods : RequestFind(p, k, a, m)
    \/ \E o \in Ids, to \in {"COMPLETED", "REJECTED"} : AdminFind(p, o, to)

Next ==
    \/ \E p \in Procs : HandlerStep(p) \/ NewRequest(p)
    \/ \E k \in Riders, a \in Amounts : Credit(k, a)

Spec == Init /\ [][Next]_vars
=============================================================================
