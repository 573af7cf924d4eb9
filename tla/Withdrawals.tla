---------------------------- MODULE Withdrawals ----------------------------
(***************************************************************************)
(* What a withdrawal promises to the rider and the company: money leaves   *)
(* the rider's funds when a withdrawal is opened, never more than they     *)
(* hold, and either goes out or comes back, once.  The promise is weaker   *)
(* for one that goes over an admin's desk, which two admins may end: its   *)
(* amount may come back twice, or go out as well, but always to the rider  *)
(* it was of.                                                              *)
(***************************************************************************)
EXTENDS Naturals

CONSTANTS Riders, Ids, Amounts, NoOne

VARIABLES funds, slip

slipVars == <<funds, slip>>

NoSlip == [st |-> "none", rider |-> NoOne, amount |-> 0, desk |-> FALSE]

SlipsInit ==
    /\ funds = [k \in Riders |-> 0]
    /\ slip = [o \in Ids |-> NoSlip]

Earn(k, a) ==
    /\ funds' = [funds EXCEPT ![k] = @ + a]
    /\ UNCHANGED slip

Open(o, k, a, d) ==
    /\ slip[o].st = "none" /\ funds[k] >= a
    /\ funds' = [funds EXCEPT ![k] = @ - a]
    /\ slip' = [slip EXCEPT ![o] = [st |-> "open", rider |-> k, amount |-> a, desk |-> d]]

MayEnd(o) == slip[o].st = "open" \/ (slip[o].desk /\ slip[o].st # "none")

PayOut(o) ==
    /\ MayEnd(o)
    /\ slip' = [slip EXCEPT ![o].st = "paid"]
    /\ UNCHANGED funds

GiveBack(o) ==
    /\ MayEnd(o)
    /\ slip' = [slip EXCEPT ![o].st = "returned"]
    /\ funds' = [funds EXCEPT ![slip[o].rider] = @ + slip[o].amount]

SlipsNext ==
    \/ \E k \in Riders, a \in Amounts : Earn(k, a)
    \/ \E o \in Ids, k \in Riders, a \in Amounts, d \in BOOLEAN : Open(o, k, a, d)
    \/ \E o \in Ids : PayOut(o) \/ GiveBack(o)

SlipsSpec == SlipsInit /\ [][SlipsNext]_slipVars
=============================================================================
