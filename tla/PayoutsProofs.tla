--------------------------- MODULE PayoutsProofs ---------------------------
(***************************************************************************)
(* Proofs about Payouts for every set of riders, payouts and handlers.     *)
(***************************************************************************)
EXTENDS PayoutsProperties, Sums, TLAPS

-----------------------------------------------------------------------------
(* Type correctness, with what a handler at each place holds.              *)

Holding == {"send", "complete", "refund", "admin.update"}

(* What a handler record holds at its place.                               *)
Filled(x) ==
    /\ x.pc = "reserve" => x.rider \in Riders /\ x.amount \in Amounts
    /\ x.pc \in Holding => /\ x.payout \in Ids
                           /\ x.rider \in Riders /\ x.amount \in Amounts
    /\ x.pc \notin Holding => x.payout = None

RowFilled(row) == row.st # "NONE" => row.riderId \in Riders /\ row.amount \in Amounts

Held == \A p \in Procs : h[p].pc \in Holding => payout[h[p].payout].st # "NONE"

TypeInv ==
    /\ TypeOK
    /\ \A p \in Procs : Filled(h[p])
    /\ \A o \in Ids : RowFilled(payout[o])
    /\ Held

LEMMA IdleFilled == Idle \in HandlerRecords /\ Filled(Idle) /\ Idle.pc = "idle"
  BY DEF Idle, HandlerRecords, Places, Methods, Filled, Holding

LEMMA InitTypeInv == Init => TypeInv
  BY IdleFilled
     DEF Init, TypeInv, TypeOK, RowFilled, NoPayout, PayoutRows, PayoutStates,
         Methods, Held, Holding

(* The ways a step changes handlers and rows.                              *)
HandlersKeep == h' \in [Procs -> HandlerRecords] /\ \A q \in Procs : Filled(h'[q])
RowsKeep == payout' \in [Ids -> PayoutRows] /\ \A o \in Ids : RowFilled(payout'[o])

LEMMA HandlerKeeps ==
    ASSUME TypeInv, NEW p \in Procs, NEW x \in HandlerRecords, Filled(x), Start(p, x)
    PROVE  HandlersKeep
  BY DEF TypeInv, TypeOK, Start, HandlersKeep

LEMMA ReturnKeeps ==
    ASSUME TypeInv, NEW p \in Procs, Return(p)
    PROVE  HandlersKeep /\ \A q \in Procs : h'[q] = h[q] \/ h'[q].pc = "idle"
  BY IdleFilled DEF TypeInv, TypeOK, Return, HandlersKeep

LEMMA GotoKeeps ==
    ASSUME TypeInv, NEW p \in Procs, NEW pc \in Holding, h[p].pc \in Holding, Goto(p, pc)
    PROVE  /\ HandlersKeep
           /\ h'[p].pc = pc /\ h'[p].payout = h[p].payout
           /\ h'[p].rider = h[p].rider /\ h'[p].amount = h[p].amount
           /\ \A q \in Procs \ {p} : h'[q] = h[q]
<1> DEFINE x == [h[p] EXCEPT !.pc = pc]
<1>1. h[p] \in HandlerRecords /\ Filled(h[p])
  BY DEF TypeInv, TypeOK
<1>2. x \in HandlerRecords /\ Filled(x)
  BY <1>1 DEF HandlerRecords, Filled, Holding, Places
<1>3. /\ x.pc = pc /\ x.payout = h[p].payout
      /\ x.rider = h[p].rider /\ x.amount = h[p].amount
  BY <1>1 DEF HandlerRecords
<1>4. h' = [h EXCEPT ![p] = x]
  BY DEF Goto
<1> HIDE DEF x
<1>5. QED
  BY <1>2, <1>3, <1>4, HandlerKeeps DEF Start, TypeInv, TypeOK

LEMMA RowKeeps ==
    ASSUME TypeInv, NEW o \in Ids, NEW x \in PayoutRows, RowFilled(x),
           payout' = [payout EXCEPT ![o] = x]
    PROVE  RowsKeep
  BY DEF TypeInv, TypeOK, RowsKeep

LEMMA MarkKeeps ==
    ASSUME TypeInv, NEW o \in Ids, NEW st \in PayoutStates \ {"NONE"},
           payout[o].st # "NONE", Mark(o, st)
    PROVE  /\ RowsKeep
           /\ payout'[o].st = st /\ payout'[o].riderId = payout[o].riderId
           /\ payout'[o].amount = payout[o].amount
           /\ payout'[o].method = payout[o].method
           /\ \A r \in Ids \ {o} : payout'[r] = payout[r]
<1> DEFINE x == [payout[o] EXCEPT !.st = st]
<1>1. /\ x \in PayoutRows /\ RowFilled(x) /\ x.st = st
      /\ x.riderId = payout[o].riderId /\ x.amount = payout[o].amount
      /\ x.method = payout[o].method
  BY DEF TypeInv, TypeOK, PayoutRows, RowFilled
<1>2. payout' = [payout EXCEPT ![o] = x]
  BY DEF Mark
<1> HIDE DEF x
<1>3. QED
  BY <1>1, <1>2, RowKeeps DEF TypeInv, TypeOK

LEMMA AddKeeps ==
    ASSUME TypeInv, NEW k \in Riders, NEW a \in Nat, Add(k, a)
    PROVE  balance' \in [Riders -> Nat]
  BY DEF TypeInv, TypeOK, Add

LEMMA AmountsAreNat == Amounts \subseteq Nat
  BY PayoutsAssumption

LEMMA StepTypeInv == TypeInv /\ [Next]_vars => TypeInv'
<1> SUFFICES ASSUME TypeInv, [Next]_vars
             PROVE  TypeInv'
  OBVIOUS
<1> DEFINE RestKeeps == /\ balance' \in [Riders -> Nat] /\ earned' \in [Riders -> Nat]
                        /\ sent' \in SUBSET Ids
           Keeps == HandlersKeep /\ RowsKeep /\ Held' /\ RestKeeps
<1>0. Keeps => TypeInv'
  BY DEF TypeInv, TypeOK, HandlersKeep, RowsKeep
<1>a. /\ payout' = payout => RowsKeep
      /\ h' = h => HandlersKeep
      /\ UNCHANGED <<balance, earned, sent>> => RestKeeps
      /\ h' = h /\ payout' = payout => Held'
  BY DEF TypeInv, TypeOK, HandlersKeep, RowsKeep, Held
<1>b. ASSUME NEW p \in Procs, h[p].pc \in Holding
      PROVE  /\ h[p].payout \in Ids /\ h[p].rider \in Riders
             /\ h[p].amount \in Nat /\ payout[h[p].payout].st # "NONE"
  BY <1>b, AmountsAreNat DEF TypeInv, Filled, Held
<1>c. ASSUME NEW p \in Procs, Return(p), UNCHANGED payout
      PROVE  HandlersKeep /\ RowsKeep /\ Held'
  BY <1>a, <1>c, ReturnKeeps DEF TypeInv, Held, Holding
<1>d. ASSUME NEW p \in Procs, NEW st \in PayoutStates \ {"NONE"}, h[p].pc \in Holding,
             Mark(h[p].payout, st), Return(p)
      PROVE  HandlersKeep /\ RowsKeep /\ Held'
  <2>1. HandlersKeep /\ \A q \in Procs : h'[q] = h[q] \/ h'[q].pc = "idle"
    BY <1>d, ReturnKeeps
  <2>2. RowsKeep /\ \A r \in Ids : payout[r].st # "NONE" => payout'[r].st # "NONE"
    BY <1>b, <1>d, MarkKeeps
  <2>3. Held'
    BY <2>1, <2>2 DEF TypeInv, Held, Holding, Filled
  <2>4. QED
    BY <2>1, <2>2, <2>3
<1>1. ASSUME NEW p \in Procs, NEW k \in Riders, NEW a \in Amounts, NEW m \in Methods,
             RequestFind(p, k, a, m)
      PROVE  Keeps
  <2> DEFINE x == [Idle EXCEPT !.pc = "reserve", !.rider = k, !.amount = a, !.method = m]
  <2>1. x \in HandlerRecords /\ Filled(x) /\ x.pc \notin Holding
    BY IdleFilled DEF Idle, HandlerRecords, Places, Filled, Holding
  <2>2. Start(p, x)
    BY <1>1 DEF RequestFind
  <2> HIDE DEF x
  <2>3. HandlersKeep
    BY <2>1, <2>2, HandlerKeeps
  <2>4. Held'
    BY <1>1, <2>1, <2>2 DEF RequestFind, Start, TypeInv, TypeOK, Held
  <2>5. QED
    BY <1>a, <1>1, <2>3, <2>4 DEF RequestFind
<1>2. ASSUME NEW p \in Procs, ReserveRefused(p) \/ HandlerFails(p)
      PROVE  Keeps
  BY <1>a, <1>c, <1>2 DEF ReserveRefused, HandlerFails
<1>3. ASSUME NEW p \in Procs, NEW o \in Ids, Reserve(p, o)
      PROVE  Keeps
  <2> DEFINE k == h[p].rider
             a == h[p].amount
             row(st) == [st |-> st, riderId |-> k, amount |-> a, method |-> h[p].method]
             x == [h[p] EXCEPT !.pc = "send", !.payout = o]
  <2>1. k \in Riders /\ a \in Amounts /\ a \in Nat /\ h[p] \in HandlerRecords
    BY <1>3, AmountsAreNat DEF Reserve, At, TypeInv, TypeOK, Filled
  <2>2. \A st \in {"PROCESSING", "PENDING"} :
            row(st) \in PayoutRows /\ RowFilled(row(st)) /\ row(st).st # "NONE"
    BY <2>1 DEF PayoutRows, PayoutStates, RowFilled, HandlerRecords
  <2>3. x \in HandlerRecords /\ Filled(x) /\ x.payout = o
    BY <2>1 DEF HandlerRecords, Places, Filled, Holding
  <2>4. /\ Start(p, x) \/ Return(p)
        /\ \E st \in {"PROCESSING", "PENDING"} : payout' = [payout EXCEPT ![o] = row(st)]
        /\ balance[k] >= a /\ balance' = [balance EXCEPT ![k] = balance[k] - a]
        /\ UNCHANGED <<earned, sent>>
    BY <1>3 DEF Reserve
  <2> HIDE DEF x, row
  <2>5. RowsKeep
    BY <2>2, <2>4, RowKeeps
  <2>6. HandlersKeep
    BY <2>3, <2>4, HandlerKeeps, ReturnKeeps
  <2>7. \A r \in Ids : payout'[r].st # "NONE" \/ (r # o /\ payout'[r] = payout[r])
    BY <2>2, <2>4 DEF TypeInv, TypeOK
  <2>8. \A q \in Procs : \/ h'[q] = h[q] \/ h'[q].pc = "idle"
                         \/ h'[q].payout = o
    BY <2>3, <2>4, ReturnKeeps DEF Start, TypeInv, TypeOK
  <2>9. payout'[o].st # "NONE"
    BY <2>7
  <2>10. Held'
    BY <2>7, <2>8, <2>9 DEF Held, TypeInv, Holding, Filled
  <2>11. balance' \in [Riders -> Nat]
    BY <2>1, <2>4 DEF TypeInv, TypeOK
  <2>12. QED
    BY <2>4, <2>5, <2>6, <2>10, <2>11 DEF TypeInv, TypeOK
<1>4. ASSUME NEW p \in Procs, SendDone(p) \/ SendFailed(p)
      PROVE  Keeps
  <2>1. h[p].pc \in Holding /\ UNCHANGED <<balance, earned, payout>>
    BY <1>4 DEF SendDone, SendFailed, At, Holding
  <2>2. PICK pc \in Holding : Goto(p, pc)
    BY <1>4 DEF SendDone, SendFailed, Holding
  <2>3. sent' \in {sent, sent \cup {h[p].payout}}
    BY <1>4 DEF SendDone, SendFailed
  <2>4. HandlersKeep /\ Held'
    BY <2>1, <2>2, GotoKeeps DEF TypeInv, Held
  <2>5. QED
    BY <1>a, <1>b, <2>1, <2>3, <2>4 DEF TypeInv, TypeOK
<1>5. ASSUME NEW p \in Procs, SendWithoutId(p)
      PROVE  Keeps
  <2>1. h[p].payout \in Ids
    BY <1>b, <1>5 DEF SendWithoutId, At, Holding
  <2>2. RestKeeps
    BY <1>5, <2>1 DEF SendWithoutId, TypeInv, TypeOK
  <2>3. QED
    BY <1>c, <1>5, <2>2 DEF SendWithoutId
<1>6. ASSUME NEW p \in Procs, Complete(p) \/ AdminComplete(p)
      PROVE  Keeps
  BY <1>a, <1>d, <1>6 DEF Complete, AdminComplete, At, Holding, PayoutStates
<1>7. ASSUME NEW p \in Procs, Refund(p) \/ AdminReject(p)
      PROVE  Keeps
  <2>1. h[p].pc \in Holding /\ Add(h[p].rider, h[p].amount) /\ UNCHANGED <<earned, sent>>
    BY <1>7 DEF Refund, AdminReject, At, Holding
  <2>2. RestKeeps
    BY <1>b, <2>1, AddKeeps DEF TypeInv, TypeOK
  <2>3. QED
    BY <1>d, <1>7, <2>1, <2>2 DEF Refund, AdminReject, PayoutStates
<1>8. ASSUME NEW p \in Procs, NEW o \in Ids, NEW to \in {"COMPLETED", "REJECTED"},
             AdminFind(p, o, to)
      PROVE  Keeps
  <2> DEFINE x == [Idle EXCEPT !.pc = "admin.update", !.payout = o, !.to = to,
                               !.rider = payout[o].riderId, !.amount = payout[o].amount]
  <2>1. payout[o].riderId \in Riders /\ payout[o].amount \in Amounts
    BY <1>8 DEF AdminFind, TypeInv, RowFilled
  <2>2. x \in HandlerRecords /\ Filled(x) /\ x.payout = o
    BY <2>1, IdleFilled DEF Idle, HandlerRecords, Places, Filled, Holding
  <2>3. Start(p, x)
    BY <1>8 DEF AdminFind
  <2> HIDE DEF x
  <2>4. HandlersKeep
    BY <2>2, <2>3, HandlerKeeps
  <2>5. Held'
    BY <1>8, <2>2, <2>3 DEF AdminFind, Start, TypeInv, TypeOK, Held
  <2>6. QED
    BY <1>a, <1>8, <2>4, <2>5 DEF AdminFind
<1>9. ASSUME NEW k \in Riders, NEW a \in Amounts, Credit(k, a)
      PROVE  Keeps
  <2>1. balance' \in [Riders -> Nat]
    BY <1>9, AddKeeps, AmountsAreNat DEF Credit
  <2>2. earned' \in [Riders -> Nat]
    BY <1>9, AmountsAreNat DEF Credit, TypeInv, TypeOK
  <2>3. QED
    BY <1>a, <1>9, <2>1, <2>2 DEF Credit, TypeInv, TypeOK
<1>10. CASE UNCHANGED vars
  BY <1>0, <1>a, <1>10 DEF vars
<1> HIDE DEF Keeps
<1>11. ASSUME NEW p \in Procs, HandlerStep(p) \/ NewRequest(p)
       PROVE  Keeps
  BY <1>1, <1>2, <1>3, <1>4, <1>5, <1>6, <1>7, <1>8, <1>11 DEF HandlerStep, NewRequest
<1>12. QED
  BY <1>0, <1>9, <1>10, <1>11 DEF Next

(* Tables and handlers keep their types; in particular no number of        *)
(* overlapping withdrawals takes a rider's balance below zero.             *)
THEOREM NeverOverdrawn == Spec => []TypeOK
<1>1. TypeInv => TypeOK
  BY DEF TypeInv
<1>2. QED
  BY InitTypeInv, StepTypeInv, <1>1, PTL DEF Spec

-----------------------------------------------------------------------------
(* A handler that sends a payout is the only one that holds it, because    *)
(* admins find PENDING ones only, which are not by M-Pesa; admins may      *)
(* share one.  What a handler holds is what the row says: so whatever it   *)
(* writes is one step of the withdrawal.                                   *)

Ending == {"send", "complete", "refund"}

Matches(x, rows) ==
    /\ x.pc \in Ending => rows[x.payout].st = "PROCESSING"
    /\ x.pc = "admin.update" =>
           /\ rows[x.payout].st \in {"PENDING", "COMPLETED", "REJECTED"}
           /\ rows[x.payout].method = "BANK"
    /\ x.pc \in Holding => /\ rows[x.payout].riderId = x.rider
                           /\ rows[x.payout].amount = x.amount

Alone == \A p, q \in Procs :
             h[p].pc \in Holding /\ h[q].pc \in Holding /\ h[p].payout = h[q].payout
                 => p = q \/ (h[p].pc \notin Ending /\ h[q].pc \notin Ending)

Desks(rows) == \A o \in Ids : rows[o].st = "PENDING" => rows[o].method = "BANK"

SlipInv == Alone /\ Desks(payout) /\ \A p \in Procs : Matches(h[p], payout)

LEMMA ReturnSlips ==
    ASSUME TypeInv, SlipInv, NEW p \in Procs, Return(p), Desks(payout'),
           \A q \in Procs \ {p} : h[q].pc \in Holding => Matches(h[q], payout')
    PROVE  SlipInv'
<1>1. h'[p].pc = "idle" /\ \A q \in Procs \ {p} : h'[q] = h[q]
  BY IdleFilled DEF Return, TypeInv, TypeOK
<1>2. Alone'
  BY <1>1 DEF SlipInv, Alone, Holding
<1>3. ASSUME NEW q \in Procs
      PROVE  Matches(h'[q], payout')
  <2>1. CASE q = p
    BY <1>1, <2>1 DEF Matches, Holding, Ending
  <2>2. CASE q # p
    <3>1. CASE h[q].pc \in Holding
      BY <1>1, <2>2, <3>1
    <3>2. CASE h[q].pc \notin Holding
      BY <1>1, <2>2, <3>2 DEF Matches, Holding, Ending
    <3>3. QED
      BY <3>1, <3>2
  <2>3. QED
    BY <2>1, <2>2
<1>4. QED
  BY <1>2, <1>3 DEF SlipInv

(* A handler whose payout a step leaves alone still matches it.            *)
LEMMA StillMatches ==
    ASSUME SlipInv, NEW q \in Procs, h[q].pc \in Holding,
           payout'[h[q].payout] = payout[h[q].payout]
    PROVE  Matches(h[q], payout')
  BY DEF SlipInv, Matches, Holding, Ending

(* A handler that ends its payout touches nobody else's, but that of       *)
(* another admin, who may end it again.                                    *)
LEMMA MarkSlips ==
    ASSUME TypeInv, SlipInv, NEW p \in Procs, h[p].pc \in Holding,
           NEW st \in {"COMPLETED", "FAILED", "REJECTED"}, Mark(h[p].payout, st), Return(p),
           h[p].pc = "admin.update" => st \in {"COMPLETED", "REJECTED"}
    PROVE  SlipInv'
<1>1. h[p].payout \in Ids /\ payout[h[p].payout].st # "NONE"
  BY DEF TypeInv, Filled, Held
<1>2. /\ payout'[h[p].payout].st = st
      /\ payout'[h[p].payout].riderId = payout[h[p].payout].riderId
      /\ payout'[h[p].payout].amount = payout[h[p].payout].amount
      /\ payout'[h[p].payout].method = payout[h[p].payout].method
      /\ \A r \in Ids \ {h[p].payout} : payout'[r] = payout[r]
  BY <1>1, MarkKeeps DEF PayoutStates
<1>3. ASSUME NEW q \in Procs \ {p}, h[q].pc \in Holding
      PROVE  Matches(h[q], payout')
  <2>1. CASE h[q].payout # h[p].payout
    <3>1. h[q].payout \in Ids
      BY <1>3 DEF TypeInv, Filled
    <3>2. QED
      BY <1>2, <1>3, <2>1, <3>1, StillMatches
  <2>2. CASE h[q].payout = h[p].payout
    <3>1. h[p].pc \notin Ending /\ h[q].pc \notin Ending
      BY <1>3, <2>2 DEF SlipInv, Alone
    <3>2. st \in {"COMPLETED", "REJECTED"}
      BY <3>1 DEF Holding, Ending
    <3>3. payout[h[q].payout].riderId = h[q].rider /\ payout[h[q].payout].amount = h[q].amount
      BY <1>3 DEF SlipInv, Matches
    <3>4. h[p].pc = "admin.update" /\ payout[h[p].payout].method = "BANK"
      BY <3>1 DEF Holding, Ending, SlipInv, Matches
    <3>5. QED
      BY <1>2, <2>2, <3>1, <3>2, <3>3, <3>4 DEF Matches
  <2>3. QED
    BY <2>1, <2>2
<1>4. Desks(payout')
  BY <1>1, <1>2 DEF SlipInv, Desks
<1>5. QED
  BY <1>3, <1>4, ReturnSlips

(* A handler that takes hold of a payout: one that nobody else holds, or   *)
(* one that other admins hold.                                             *)
LEMMA TakeSlips ==
    ASSUME TypeInv, SlipInv, NEW p \in Procs, NEW x, NEW o \in Ids, Start(p, x),
           x.payout = o, Matches(x, payout'), Desks(payout'),
           \A q \in Procs \ {p} :
               h[q].pc \in Holding =>
                   /\ \/ h[q].payout # o
                      \/ x.pc \notin Ending /\ h[q].pc \notin Ending
                   /\ payout'[h[q].payout] = payout[h[q].payout]
    PROVE  SlipInv'
<1>1. h'[p] = x /\ \A q \in Procs \ {p} : h'[q] = h[q]
  BY DEF Start, TypeInv, TypeOK
<1>2. Alone'
  BY <1>1 DEF SlipInv, Alone
<1>3. ASSUME NEW q \in Procs
      PROVE  Matches(h'[q], payout')
  <2>1. CASE q = p
    BY <1>1, <2>1 DEF Matches
  <2>2. CASE q # p
    <3>1. CASE h[q].pc \in Holding
      BY <1>1, <2>2, <3>1, StillMatches
    <3>2. CASE h[q].pc \notin Holding
      BY <1>1, <2>2, <3>2 DEF Matches, Holding, Ending
    <3>3. QED
      BY <3>1, <3>2
  <2>3. QED
    BY <2>1, <2>2
<1>4. QED
  BY <1>2, <1>3 DEF SlipInv

LEMMA StepSlipInv ==
    ASSUME TypeInv, SlipInv, [Next]_vars
    PROVE  SlipInv'
<1>1. ASSUME NEW p \in Procs, NEW k \in Riders, NEW a \in Amounts, NEW m \in Methods,
             RequestFind(p, k, a, m)
      PROVE  SlipInv'
  <2>1. h'[p].pc = "reserve" /\ \A q \in Procs \ {p} : h'[q] = h[q]
    BY <1>1 DEF RequestFind, Start, Idle, TypeInv, TypeOK
  <2>2. payout' = payout
    BY <1>1 DEF RequestFind
  <2>3. QED
    BY <2>1, <2>2 DEF SlipInv, Alone, Desks, Matches, Holding, Ending
<1>2. ASSUME NEW p \in Procs, ReserveRefused(p) \/ HandlerFails(p) \/ SendWithoutId(p)
      PROVE  SlipInv'
  BY <1>2, ReturnSlips, StillMatches DEF ReserveRefused, HandlerFails, SendWithoutId, SlipInv
<1>3. ASSUME NEW p \in Procs, NEW o \in Ids, Reserve(p, o)
      PROVE  SlipInv'
  <2> DEFINE row(st) == [st |-> st, riderId |-> h[p].rider, amount |-> h[p].amount,
                         method |-> h[p].method]
             x == [h[p] EXCEPT !.pc = "send", !.payout = o]
  <2>1. payout[o].st = "NONE"
    BY <1>3 DEF Reserve
  <2>2. /\ x.pc = "send" /\ x.payout = o
        /\ x.rider = h[p].rider /\ x.amount = h[p].amount
    BY DEF TypeInv, TypeOK, HandlerRecords
  <2>3. \/ Start(p, x) /\ payout' = [payout EXCEPT ![o] = row("PROCESSING")]
        \/ Return(p) /\ h[p].method = "BANK" /\ payout' = [payout EXCEPT ![o] = row("PENDING")]
    BY <1>3 DEF Reserve, TypeInv, TypeOK, HandlerRecords, Methods
  <2>8. Desks(payout')
    BY <2>3 DEF SlipInv, Desks, TypeInv, TypeOK
  <2>4. ASSUME NEW q \in Procs, h[q].pc \in Holding
        PROVE  h[q].payout # o /\ payout'[h[q].payout] = payout[h[q].payout]
    BY <2>1, <2>3, <2>4 DEF TypeInv, TypeOK, Held, Filled
  <2>5. CASE Return(p)
    BY <2>4, <2>5, <2>8, ReturnSlips, StillMatches
  <2>6. CASE Start(p, x) /\ payout' = [payout EXCEPT ![o] = row("PROCESSING")]
    <3>1. payout'[o] = row("PROCESSING")
      BY <2>6 DEF TypeInv, TypeOK
    <3> HIDE DEF x
    <3>2. Matches(x, payout')
      BY <2>2, <3>1 DEF Matches, Ending
    <3>3. QED
      BY <2>2, <2>4, <2>6, <2>8, <3>2, TakeSlips
  <2>7. QED
    BY <2>3, <2>5, <2>6
<1>4. ASSUME NEW p \in Procs, SendDone(p) \/ SendFailed(p)
      PROVE  SlipInv'
  <2>1. h[p].pc = "send" /\ h[p].pc \in Holding /\ payout' = payout
    BY <1>4 DEF SendDone, SendFailed, At, Holding
  <2>2. PICK pc \in {"complete", "refund"} : Goto(p, pc)
    BY <1>4 DEF SendDone, SendFailed
  <2>3. /\ h'[p].pc = pc /\ pc \in Holding /\ h'[p].payout = h[p].payout
        /\ h'[p].rider = h[p].rider /\ h'[p].amount = h[p].amount
        /\ \A q \in Procs \ {p} : h'[q] = h[q]
    BY <2>1, <2>2, GotoKeeps DEF Holding
  <2>4. h[p].pc \in Ending /\ h'[p].pc \in Ending
    BY <2>1, <2>3 DEF Ending
  <2>5. Alone'
    BY <2>1, <2>3, <2>4 DEF SlipInv, Alone
  <2>6. \A q \in Procs : Matches(h'[q], payout')
    BY <2>1, <2>3, <2>4 DEF SlipInv, Matches, Ending
  <2>7. QED
    BY <2>1, <2>5, <2>6 DEF SlipInv
<1>5. ASSUME NEW p \in Procs,
             Complete(p) \/ AdminComplete(p) \/ Refund(p) \/ AdminReject(p)
      PROVE  SlipInv'
  BY <1>5, MarkSlips
     DEF Complete, AdminComplete, Refund, AdminReject, At, Holding, PayoutStates
<1>6. ASSUME NEW p \in Procs, NEW o \in Ids, NEW to \in {"COMPLETED", "REJECTED"},
             AdminFind(p, o, to)
      PROVE  SlipInv'
  <2> DEFINE x == [Idle EXCEPT !.pc = "admin.update", !.payout = o, !.to = to,
                               !.rider = payout[o].riderId, !.amount = payout[o].amount]
  <2>1. /\ x.pc = "admin.update" /\ x.payout = o
        /\ x.rider = payout[o].riderId /\ x.amount = payout[o].amount
    BY DEF Idle
  <2>2. Start(p, x) /\ payout' = payout /\ payout[o].st = "PENDING"
    BY <1>6 DEF AdminFind
  <2>3. ASSUME NEW q \in Procs, h[q].pc \in Holding
        PROVE  h[q].payout # o \/ h[q].pc \notin Ending
    BY <2>2 DEF SlipInv, Matches
  <2> HIDE DEF x
  <2>4. Matches(x, payout') /\ x.pc \notin Ending /\ Desks(payout')
    BY <2>1, <2>2 DEF SlipInv, Desks, Matches, Ending
  <2>5. QED
    BY <2>1, <2>2, <2>3, <2>4, TakeSlips
<1>7. ASSUME NEW k \in Riders, NEW a \in Amounts, Credit(k, a)
      PROVE  SlipInv'
  BY <1>7 DEF Credit, SlipInv, Alone, Desks, Matches
<1>8. CASE UNCHANGED vars
  BY <1>8 DEF vars, SlipInv, Alone, Desks, Matches
<1>9. QED
  BY <1>1, <1>2, <1>3, <1>4, <1>5, <1>6, <1>7, <1>8 DEF Next, HandlerStep, NewRequest

(* Each step is a step of the withdrawals, or none.                        *)
LEMMA SlipStep ==
    ASSUME TypeInv, SlipInv, [Next]_vars
    PROVE  [Slips!SlipsNext]_(Slips!slipVars)
<1> DEFINE slip == [o \in Ids |-> SlipOf(payout[o])]
<1>1. ASSUME UNCHANGED <<balance, payout>>
      PROVE  UNCHANGED Slips!slipVars
  BY <1>1 DEF Slips!slipVars
<1>2. ASSUME NEW p \in Procs, NEW o \in Ids, Reserve(p, o)
      PROVE  Slips!Open(o, h[p].rider, h[p].amount, h[p].method = "BANK")
             /\ h[p].rider \in Riders /\ h[p].amount \in Amounts
             /\ (h[p].method = "BANK") \in BOOLEAN
  <2> DEFINE row(st) == [st |-> st, riderId |-> h[p].rider, amount |-> h[p].amount,
                         method |-> h[p].method]
  <2>1. \E st \in {"PROCESSING", "PENDING"} : payout' = [payout EXCEPT ![o] = row(st)]
    BY <1>2 DEF Reserve
  <2>2. slip' = [slip EXCEPT ![o] =
                    [st |-> "open", rider |-> h[p].rider, amount |-> h[p].amount,
                     desk |-> h[p].method = "BANK"]]
    <3>1. \A st \in {"PROCESSING", "PENDING"} :
              SlipOf(row(st)) = [st |-> "open", rider |-> h[p].rider, amount |-> h[p].amount,
                                 desk |-> h[p].method = "BANK"]
      BY DEF SlipOf
    <3>2. \A r \in Ids \ {o} : payout'[r] = payout[r]
      BY <2>1 DEF TypeInv, TypeOK
    <3>3. \E st \in {"PROCESSING", "PENDING"} : payout'[o] = row(st)
      BY <2>1 DEF TypeInv, TypeOK
    <3> HIDE DEF row
    <3>4. slip'[o] = [st |-> "open", rider |-> h[p].rider, amount |-> h[p].amount,
                      desk |-> h[p].method = "BANK"]
      BY <3>1, <3>3
    <3>5. \A r \in Ids \ {o} : slip'[r] = slip[r]
      BY <3>2
    <3>6. QED
      BY <3>4, <3>5
  <2>3. slip[o].st = "none"
    BY <1>2 DEF Reserve, SlipOf
  <2>4. h[p].rider \in Riders /\ h[p].amount \in Amounts
    BY <1>2 DEF Reserve, At, TypeInv, Filled
  <2>5. /\ balance[h[p].rider] >= h[p].amount
        /\ balance' = [balance EXCEPT ![h[p].rider] = @ - h[p].amount]
    BY <1>2 DEF Reserve
  <2>6. QED
    BY <2>2, <2>3, <2>4, <2>5 DEF Slips!Open
<1>3. ASSUME NEW p \in Procs, h[p].pc \in Holding,
             NEW st \in {"COMPLETED", "FAILED", "REJECTED"}, Mark(h[p].payout, st)
      PROVE  /\ h[p].payout \in Ids
             /\ \/ slip[h[p].payout].st = "open"
                \/ slip[h[p].payout].desk /\ slip[h[p].payout].st # "none"
             /\ slip[h[p].payout].rider = h[p].rider
             /\ slip[h[p].payout].amount = h[p].amount
             /\ slip' = [slip EXCEPT ![h[p].payout].st =
                            IF st = "COMPLETED" THEN "paid" ELSE "returned"]
  <2> DEFINE o == h[p].payout
  <2>1. o \in Ids
    BY <1>3 DEF TypeInv, Filled
  <2>2. /\ \/ payout[o].st \in {"PROCESSING", "PENDING"}
           \/ payout[o].method = "BANK" /\ payout[o].st \in {"COMPLETED", "REJECTED"}
        /\ payout[o].riderId = h[p].rider /\ payout[o].amount = h[p].amount
    BY <1>3 DEF SlipInv, Matches, Holding, Ending
  <2>3. /\ payout'[o].st = st /\ payout'[o].riderId = payout[o].riderId
        /\ payout'[o].amount = payout[o].amount /\ payout'[o].method = payout[o].method
        /\ \A r \in Ids \ {o} : payout'[r] = payout[r]
    BY <1>3, <2>1, <2>2, MarkKeeps DEF PayoutStates
  <2>4. /\ \/ SlipOf(payout[o]).st = "open"
           \/ SlipOf(payout[o]).desk /\ SlipOf(payout[o]).st # "none"
        /\ SlipOf(payout[o]) = [st |-> SlipOf(payout[o]).st, rider |-> h[p].rider,
                                amount |-> h[p].amount, desk |-> payout[o].method = "BANK"]
    BY <2>2 DEF SlipOf
  <2>5. SlipOf(payout'[o]) = [st |-> IF st = "COMPLETED" THEN "paid" ELSE "returned",
                              rider |-> h[p].rider, amount |-> h[p].amount,
                              desk |-> payout[o].method = "BANK"]
    BY <2>2, <2>3 DEF SlipOf
  <2>6. slip' = [slip EXCEPT ![o] =
                    [@ EXCEPT !.st = IF st = "COMPLETED" THEN "paid" ELSE "returned"]]
    <3>1. slip'[o] = [slip[o] EXCEPT !.st = IF st = "COMPLETED" THEN "paid" ELSE "returned"]
      BY <2>1, <2>4, <2>5
    <3>2. \A r \in Ids \ {o} : slip'[r] = slip[r]
      BY <2>3
    <3>3. QED
      BY <2>1, <3>1, <3>2
  <2>7. QED
    BY <2>1, <2>4, <2>6
<1>4. ASSUME NEW p \in Procs, Complete(p) \/ AdminComplete(p)
      PROVE  \E o \in Ids : Slips!PayOut(o)
  <2>1. h[p].pc \in Holding /\ Mark(h[p].payout, "COMPLETED") /\ balance' = balance
    BY <1>4 DEF Complete, AdminComplete, At, Holding
  <2>2. QED
    BY <1>3, <2>1 DEF Slips!PayOut, Slips!MayEnd
<1>5. ASSUME NEW p \in Procs, Refund(p) \/ AdminReject(p)
      PROVE  \E o \in Ids : Slips!GiveBack(o)
  <2>1. /\ h[p].pc \in Holding
        /\ balance' = [balance EXCEPT ![h[p].rider] = balance[h[p].rider] + h[p].amount]
    BY <1>5 DEF Refund, AdminReject, At, Holding, Add
  <2>2. PICK st \in {"FAILED", "REJECTED"} : Mark(h[p].payout, st)
    BY <1>5 DEF Refund, AdminReject
  <2>3. QED
    BY <1>3, <2>1, <2>2 DEF Slips!GiveBack, Slips!MayEnd
<1>6. ASSUME NEW k \in Riders, NEW a \in Amounts, Credit(k, a)
      PROVE  Slips!Earn(k, a)
  BY <1>6 DEF Credit, Add, Slips!Earn
<1>7. \/ UNCHANGED <<balance, payout>>
      \/ \E p \in Procs, o \in Ids : Reserve(p, o)
      \/ \E p \in Procs : Complete(p) \/ AdminComplete(p)
      \/ \E p \in Procs : Refund(p) \/ AdminReject(p)
      \/ \E k \in Riders, a \in Amounts : Credit(k, a)
  <2>1. ASSUME NEW p \in Procs,
               ReserveRefused(p) \/ SendDone(p) \/ SendFailed(p) \/ SendWithoutId(p)
                   \/ HandlerFails(p) \/ NewRequest(p)
        PROVE  UNCHANGED <<balance, payout>>
    BY <2>1 DEF ReserveRefused, SendDone, SendFailed, SendWithoutId, HandlerFails,
                NewRequest, RequestFind, AdminFind
  <2>2. QED
    BY <2>1 DEF Next, HandlerStep, vars
<1>8. QED
  <2>1. ASSUME NEW p \in Procs, NEW o \in Ids, Reserve(p, o)
        PROVE  \E i \in Ids, k \in Riders, a \in Amounts, d \in BOOLEAN :
                   Slips!Open(i, k, a, d)
    BY <1>2, <2>1
  <2>2. QED
    BY <1>1, <1>4, <1>5, <1>6, <1>7, <2>1 DEF Slips!SlipsNext

(* requestPayout and updatePayoutStatus implement withdrawals, for any     *)
(* number of riders, payouts and overlapping handlers, wherever they die:  *)
(* ones that end once if they are by M-Pesa, and otherwise ones that end   *)
(* with the opening's amount and rider, again and again perhaps, but never *)
(* before they are opened.                                                 *)
THEOREM PayoutsKeepWithdrawalPromise == Spec => KeepsWithdrawalPromise
<1>1. Init => SlipInv
  BY IdleFilled DEF Init, SlipInv, Alone, Desks, NoPayout, Matches, Holding, Ending
<1>2. Init => Slips!SlipsInit
  <2>1. ("MPESA" = "BANK") = FALSE
    OBVIOUS
  <2>2. SlipOf(NoPayout) = Slips!NoSlip
    BY <2>1 DEF NoPayout, SlipOf, Slips!NoSlip
  <2>3. QED
    BY <2>2 DEF Init, Slips!SlipsInit
<1>3. TypeInv /\ SlipInv /\ [Next]_vars => SlipInv'
  BY StepSlipInv
<1>4. TypeInv /\ SlipInv /\ [Next]_vars => [Slips!SlipsNext]_(Slips!slipVars)
  BY SlipStep
<1>5. QED
  BY InitTypeInv, StepTypeInv, <1>1, <1>2, <1>3, <1>4, PTL
     DEF Spec, KeepsWithdrawalPromise, Slips!SlipsSpec

-----------------------------------------------------------------------------
(* Money that was sent is not given back: when every transfer that fails   *)
(* was not made, the handler that gives a payout's amount back knows that  *)
(* no money went out, and admins never find a payout that was sent.        *)

SentInv ==
    /\ \A o \in sent : payout[o].st \in {"PROCESSING", "COMPLETED"}
    /\ \A p \in Procs : h[p].pc \in {"send", "refund", "admin.update"} => h[p].payout \notin sent

LEMMA StepSentInv ==
    ASSUME ~LostAnswers, TypeInv, SlipInv, SentInv, [Next]_vars
    PROVE  SentInv'
<1>1. ASSUME NEW p \in Procs, Return(p), sent' = sent,
             \A o \in sent : payout'[o].st \in {"PROCESSING", "COMPLETED"}
      PROVE  SentInv'
  BY <1>1, ReturnKeeps DEF SentInv
<1>2. ASSUME NEW p \in Procs, NEW o \in Ids, Reserve(p, o)
      PROVE  SentInv'
  <2>1. o \notin sent /\ sent' = sent
    BY <1>2 DEF Reserve, SentInv
  <2>2. \A r \in Ids \ {o} : payout'[r] = payout[r]
    BY <1>2 DEF Reserve, TypeInv, TypeOK
  <2>3. \A r \in sent : payout'[r].st \in {"PROCESSING", "COMPLETED"}
    BY <2>1, <2>2 DEF SentInv, TypeInv, TypeOK
  <2>4. CASE Return(p)
    BY <1>1, <2>1, <2>3, <2>4
  <2>5. CASE ~Return(p)
    <3> DEFINE x == [h[p] EXCEPT !.pc = "send", !.payout = o]
    <3>1. Start(p, x)
      BY <1>2, <2>5 DEF Reserve
    <3>2. x.payout = o
      BY DEF TypeInv, TypeOK, HandlerRecords
    <3> HIDE DEF x
    <3>3. \A q \in Procs : h'[q] = h[q] \/ h'[q].payout = o
      BY <3>1, <3>2 DEF Start, TypeInv, TypeOK
    <3>4. QED
      BY <2>1, <2>3, <3>3 DEF SentInv
  <2>6. QED
    BY <2>4, <2>5
<1>3. ASSUME NEW p \in Procs, SendDone(p)
      PROVE  SentInv'
  <2>1. h[p].pc = "send" /\ payout[h[p].payout].st = "PROCESSING" /\ payout' = payout
    BY <1>3 DEF SendDone, At, SlipInv, Matches, Ending
  <2>2. sent' = sent \cup {h[p].payout} /\ Goto(p, "complete")
    BY <1>3 DEF SendDone
  <2>3. h'[p].pc = "complete" /\ \A q \in Procs \ {p} : h'[q] = h[q]
    BY <2>1, <2>2, GotoKeeps DEF Holding
  <2>4. \A q \in Procs \ {p} : h[q].pc \in Holding => h[q].payout # h[p].payout
    BY <2>1 DEF SlipInv, Alone, Holding, Ending
  <2>5. QED
    BY <2>1, <2>2, <2>3, <2>4 DEF SentInv, Holding
<1>4. ASSUME NEW p \in Procs, SendFailed(p)
      PROVE  SentInv'
  <2>1. h[p].pc = "send" /\ payout' = payout /\ sent' = sent /\ Goto(p, "refund")
    BY <1>4 DEF SendFailed, At
  <2>2. h'[p].payout = h[p].payout /\ \A q \in Procs \ {p} : h'[q] = h[q]
    BY <2>1, GotoKeeps DEF Holding
  <2>3. QED
    BY <2>1, <2>2 DEF SentInv
<1>5. ASSUME NEW p \in Procs, SendWithoutId(p)
      PROVE  SentInv'
  <2>1. h[p].pc = "send" /\ payout[h[p].payout].st = "PROCESSING" /\ payout' = payout
    BY <1>5 DEF SendWithoutId, At, SlipInv, Matches, Ending
  <2>2. sent' \in {sent, sent \cup {h[p].payout}} /\ Return(p)
    BY <1>5 DEF SendWithoutId
  <2>3. \A q \in Procs : (q # p /\ h'[q] = h[q]) \/ h'[q].pc = "idle"
    BY <2>2, ReturnKeeps DEF Return, TypeInv, TypeOK, Idle
  <2>4. \A q \in Procs \ {p} : h[q].pc \in Holding => h[q].payout # h[p].payout
    BY <2>1 DEF SlipInv, Alone, Holding, Ending
  <2>5. QED
    BY <2>1, <2>2, <2>3, <2>4 DEF SentInv, Holding
<1>6. ASSUME NEW p \in Procs, NEW st \in {"COMPLETED", "FAILED", "REJECTED"},
             h[p].pc \in Holding, Mark(h[p].payout, st), Return(p), sent' = sent,
             st # "COMPLETED" => h[p].payout \notin sent
      PROVE  SentInv'
  <2>1. h[p].payout \in Ids /\ payout[h[p].payout].st # "NONE"
    BY <1>6 DEF TypeInv, Filled, Held
  <2>2. /\ payout'[h[p].payout].st = st
        /\ \A o \in Ids \ {h[p].payout} : payout'[o] = payout[o]
    BY <1>6, <2>1, MarkKeeps DEF PayoutStates
  <2>3. \A o \in sent : payout'[o].st \in {"PROCESSING", "COMPLETED"}
    BY <1>6, <2>2 DEF SentInv, TypeInv, TypeOK
  <2>4. QED
    BY <1>1, <1>6, <2>3
<1>7. ASSUME NEW p \in Procs, Complete(p) \/ AdminComplete(p)
      PROVE  SentInv'
  BY <1>6, <1>7 DEF Complete, AdminComplete, At, Holding
<1>8. ASSUME NEW p \in Procs, Refund(p) \/ AdminReject(p)
      PROVE  SentInv'
  <2>1. h[p].pc \in {"refund", "admin.update"} /\ h[p].payout \notin sent
    BY <1>8 DEF Refund, AdminReject, At, SentInv
  <2>2. QED
    BY <1>6, <1>8, <2>1 DEF Refund, AdminReject, Holding
<1>9. ASSUME NEW p \in Procs, ReserveRefused(p) \/ HandlerFails(p)
      PROVE  SentInv'
  BY <1>1, <1>9 DEF ReserveRefused, HandlerFails, SentInv
<1>10. ASSUME NEW p \in Procs, NewRequest(p)
       PROVE  SentInv'
  <2>1. payout' = payout /\ sent' = sent
    BY <1>10 DEF NewRequest, RequestFind, AdminFind
  <2>2. ASSUME NEW k \in Riders, NEW a \in Amounts, NEW m \in Methods, RequestFind(p, k, a, m)
        PROVE  \A q \in Procs : h'[q] = h[q] \/ h'[q].pc = "reserve"
    BY <2>2 DEF RequestFind, Start, Idle, TypeInv, TypeOK
  <2>3. ASSUME NEW o \in Ids, NEW to \in {"COMPLETED", "REJECTED"}, AdminFind(p, o, to)
        PROVE  \A q \in Procs : h'[q] = h[q] \/ (h'[q].payout = o /\ o \notin sent)
    <3>1. o \notin sent
      BY <2>3 DEF AdminFind, SentInv
    <3>2. QED
      BY <2>3, <3>1 DEF AdminFind, Start, Idle, TypeInv, TypeOK
  <2>4. QED
    BY <1>10, <2>1, <2>2, <2>3 DEF NewRequest, SentInv
<1>11. ASSUME NEW k \in Riders, NEW a \in Amounts, Credit(k, a)
       PROVE  SentInv'
  BY <1>11 DEF Credit, SentInv
<1>12. CASE UNCHANGED vars
  BY <1>12 DEF vars, SentInv
<1>13. QED
  BY <1>2, <1>3, <1>4, <1>5, <1>7, <1>8, <1>9, <1>10, <1>11, <1>12
     DEF Next, HandlerStep

LEMMA InitSlipInv == Init => SlipInv
  BY IdleFilled DEF Init, SlipInv, Alone, Desks, NoPayout, Matches, Holding, Ending

(* A withdrawal whose money Lipana transferred is neither failed nor       *)
(* rejected, whatever requests and admins overlap, wherever handlers die   *)
(* and whatever answers cannot be used.                                    *)
THEOREM SentStaysSent == Spec => []SentIsNotGivenBack
<1>1. CASE LostAnswers
  <2>1. SentIsNotGivenBack
    BY <1>1 DEF SentIsNotGivenBack
  <2>2. QED
    BY <2>1, PTL
<1>2. CASE ~LostAnswers
  <2>1. Init => SentInv
    BY DEF Init, SentInv, Idle
  <2>2. SentInv => SentIsNotGivenBack
    BY DEF SentInv, SentIsNotGivenBack
  <2>3. TypeInv /\ SlipInv /\ [Next]_vars => SlipInv'
    BY StepSlipInv
  <2>4. TypeInv /\ SlipInv /\ SentInv /\ [Next]_vars => SentInv'
    BY <1>2, StepSentInv
  <2>5. QED
    BY InitTypeInv, StepTypeInv, InitSlipInv, <2>1, <2>2, <2>3, <2>4, PTL DEF Spec
<1>3. QED
  BY <1>1, <1>2

-----------------------------------------------------------------------------
(* The books balance.  Sums are over the payouts of one rider, and a step  *)
(* adds one payout to them, takes one off or leaves them as they are.      *)

Cost == [o \in Ids |-> payout[o].amount]

LEMMA AmountInt ==
    ASSUME NEW table \in [Ids -> PayoutRows]
    PROVE  \A o \in Ids : table[o].amount \in Int
<1>1. \A row \in PayoutRows : row.amount \in Amounts \cup {0}
  BY DEF PayoutRows
<1>2. \A a \in Amounts \cup {0} : a \in Int
  BY AmountsAreNat
<1>3. QED
  BY <1>1, <1>2

LEMMA OutOfFinite ==
    ASSUME TypeInv, NEW k \in Riders
    PROVE  /\ IsFiniteSet(OutOf(k)) /\ OutOf(k) \subseteq Ids
           /\ \A o \in Ids : Cost[o] \in Int /\ Cost[o] = payout[o].amount
<1>1. IsFiniteSet(OutOf(k))
  BY FS_Subset, PayoutsAssumption DEF OutOf
<1>2. QED
  BY <1>1, AmountInt DEF OutOf, Cost, TypeInv, TypeOK

LEMMA TakenFromType ==
    ASSUME TypeInv, NEW k \in Riders
    PROVE  TakenFrom(k) \in Int
<1>1. SumFunctionOnSet(Cost, OutOf(k)) \in Int
  BY OutOfFinite, SumType
<1>2. QED
  BY <1>1 DEF TakenFrom, Cost

(* A sum over payouts whose amounts a step leaves alone.                   *)
LEMMA SameCosts ==
    ASSUME TypeInv, NEW S, S \subseteq Ids,
           \A o \in S : payout'[o].amount = payout[o].amount
    PROVE  SumFunctionOnSet(Cost', S) = SumFunctionOnSet(Cost, S)
<1>1. IsFiniteSet(S)
  BY FS_Subset, PayoutsAssumption
<1>2. \A o \in S : Cost[o] \in Int
  BY AmountInt DEF Cost, TypeInv, TypeOK
<1>3. \A o \in S : Cost'[o] = Cost[o]
  BY DEF Cost
<1>4. QED
  BY <1>1, <1>2, <1>3, SumAgrees

LEMMA TakenFromNext ==
    ASSUME TypeInv, NEW k \in Riders,
           OutOf(k)' = OutOf(k), \A o \in OutOf(k) : payout'[o].amount = payout[o].amount
    PROVE  TakenFrom(k)' = TakenFrom(k)
<1>1. OutOf(k) \subseteq Ids
  BY DEF OutOf
<1>2. SumFunctionOnSet(Cost', OutOf(k)) = SumFunctionOnSet(Cost, OutOf(k))
  BY <1>1, SameCosts
<1>3. QED
  BY <1>2 DEF TakenFrom, Cost

(* A payout joins those that are out, or leaves them.                      *)
LEMMA TakenOneMore ==
    ASSUME TypeInv, TypeInv', NEW k \in Riders, NEW o \in Ids, o \notin OutOf(k),
           OutOf(k)' = OutOf(k) \cup {o},
           \A r \in OutOf(k) : payout'[r].amount = payout[r].amount
    PROVE  TakenFrom(k)' = TakenFrom(k) + payout'[o].amount
<1>1. OutOf(k) \subseteq Ids /\ IsFiniteSet(OutOf(k))
  BY OutOfFinite
<1>2. \A r \in Ids : Cost'[r] \in Int /\ Cost'[r] = payout'[r].amount
  BY AmountInt DEF Cost, TypeInv, TypeOK
<1>3. SumFunctionOnSet(Cost', OutOf(k) \cup {o})
          = SumFunctionOnSet(Cost', OutOf(k)) + Cost'[o]
  BY <1>1, <1>2, SumAdds
<1>4. SumFunctionOnSet(Cost', OutOf(k)) = SumFunctionOnSet(Cost, OutOf(k))
  BY <1>1, SameCosts
<1>5. QED
  BY <1>2, <1>3, <1>4 DEF TakenFrom, Cost

LEMMA TakenOneLess ==
    ASSUME TypeInv, NEW k \in Riders, NEW o \in OutOf(k),
           OutOf(k)' = OutOf(k) \ {o},
           \A r \in OutOf(k) : payout'[r].amount = payout[r].amount
    PROVE  TakenFrom(k)' = TakenFrom(k) - payout[o].amount
<1>1. OutOf(k) \subseteq Ids /\ IsFiniteSet(OutOf(k))
  BY OutOfFinite
<1>2. \A r \in OutOf(k) : Cost[r] \in Int /\ Cost[r] = payout[r].amount
  BY <1>1, OutOfFinite
<1>3. SumFunctionOnSet(Cost, OutOf(k) \ {o}) = SumFunctionOnSet(Cost, OutOf(k)) - Cost[o]
  BY <1>1, <1>2, SumLoses
<1>4. SumFunctionOnSet(Cost', OutOf(k) \ {o}) = SumFunctionOnSet(Cost, OutOf(k) \ {o})
  BY <1>1, SameCosts
<1>5. QED
  BY <1>2, <1>3, <1>4 DEF TakenFrom, Cost

(* What is in the books of a rider beyond what he earned never falls, and  *)
(* only a payout that is ended again makes it rise.                        *)
LEMMA StepSurplus ==
    ASSUME TypeInv, TypeInv', SlipInv, [Next]_vars, NEW k \in Riders
    PROVE  /\ TakenFrom(k) \in Int /\ TakenFrom(k)' \in Int
           /\ Surplus(k)' >= Surplus(k)
           /\ Surplus(k)' # Surplus(k) => EndedAgain(k)
<1> DEFINE Goal == /\ TakenFrom(k)' \in Int /\ Surplus(k)' >= Surplus(k)
                   /\ Surplus(k)' # Surplus(k) => EndedAgain(k)
<1>0. /\ earned[k] \in Int /\ balance[k] \in Int /\ TakenFrom(k) \in Int
      /\ Surplus(k) \in Int
  BY TakenFromType DEF TypeInv, TypeOK, Surplus
<1>1. ASSUME UNCHANGED <<balance, earned, payout>>
      PROVE  Goal
  BY <1>0, <1>1 DEF TakenFrom, OutOf, Surplus
<1>2. ASSUME NEW j \in Riders, NEW a \in Amounts, Credit(j, a)
      PROVE  Goal
  <2>1. TakenFrom(k)' = TakenFrom(k) /\ a \in Int
    BY <1>2, AmountsAreNat DEF Credit, TakenFrom, OutOf
  <2>2. /\ balance'[k] = IF k = j THEN balance[k] + a ELSE balance[k]
        /\ earned'[k] = IF k = j THEN earned[k] + a ELSE earned[k]
    BY <1>2 DEF Credit, Add, TypeInv, TypeOK
  <2>3. QED
    BY <1>0, <2>1, <2>2 DEF Surplus
<1>3. ASSUME NEW p \in Procs, NEW o \in Ids, Reserve(p, o)
      PROVE  Goal
  <2> DEFINE j == h[p].rider
             a == h[p].amount
             row(st) == [st |-> st, riderId |-> j, amount |-> a, method |-> h[p].method]
  <2>1. j \in Riders /\ a \in Int
    BY <1>3, AmountsAreNat DEF Reserve, At, TypeInv, Filled
  <2>2. balance'[k] = IF k = j THEN balance[k] - a ELSE balance[k]
    BY <1>3 DEF Reserve, TypeInv, TypeOK
  <2>3. /\ payout[o].st = "NONE" /\ earned' = earned
        /\ \A r \in Ids \ {o} : payout'[r] = payout[r]
    BY <1>3 DEF Reserve, TypeInv, TypeOK
  <2>4. PICK st \in {"PROCESSING", "PENDING"} : payout'[o] = row(st)
    BY <1>3 DEF Reserve, TypeInv, TypeOK
  <2>5. o \notin OutOf(k) /\ \A r \in OutOf(k) : payout'[r].amount = payout[r].amount
    BY <2>3 DEF OutOf
  <2>6. CASE k = j
    <3>1. OutOf(k)' = OutOf(k) \cup {o} /\ payout'[o].amount = a
      BY <2>3, <2>4, <2>6 DEF OutOf
    <3>2. TakenFrom(k)' = TakenFrom(k) + a
      BY <2>5, <3>1, TakenOneMore
    <3>3. QED
      BY <1>0, <2>1, <2>2, <2>3, <2>6, <3>2 DEF Surplus
  <2>7. CASE k # j
    <3>1. OutOf(k)' = OutOf(k)
      BY <2>3, <2>4, <2>7 DEF OutOf
    <3>2. TakenFrom(k)' = TakenFrom(k)
      BY <2>5, <3>1, TakenFromNext
    <3>3. QED
      BY <1>0, <2>2, <2>3, <2>7, <3>2 DEF Surplus
  <2>8. QED
    BY <2>6, <2>7
<1>4. ASSUME NEW p \in Procs, h[p].pc \in Holding,
             NEW st \in {"COMPLETED", "FAILED", "REJECTED"}, Mark(h[p].payout, st), Return(p)
      PROVE  /\ h[p].payout \in Ids /\ h[p].rider \in Riders /\ h[p].amount \in Nat
             /\ payout[h[p].payout].amount = h[p].amount
             /\ \A r \in Ids : payout'[r].amount = payout[r].amount
             /\ h[p].payout \in OutOf(h[p].rider) \/ EndedAgain(h[p].rider)
             /\ OutOf(k)' = IF h[p].rider # k THEN OutOf(k)
                            ELSE IF st = "COMPLETED" THEN OutOf(k) \cup {h[p].payout}
                            ELSE OutOf(k) \ {h[p].payout}
  <2>1. h[p].payout \in Ids /\ h[p].rider \in Riders /\ h[p].amount \in Nat
    BY <1>4, AmountsAreNat DEF TypeInv, Filled
  <2>2. /\ \/ payout[h[p].payout].st \in {"PROCESSING", "PENDING"}
           \/ At(p, "admin.update") /\ payout[h[p].payout].st \in {"COMPLETED", "REJECTED"}
        /\ payout[h[p].payout].st # "NONE"
        /\ payout[h[p].payout].riderId = h[p].rider
        /\ payout[h[p].payout].amount = h[p].amount
    BY <1>4 DEF SlipInv, Matches, Holding, Ending, TypeInv, Held, At
  <2>3. /\ payout'[h[p].payout].st = st
        /\ payout'[h[p].payout].riderId = payout[h[p].payout].riderId
        /\ payout'[h[p].payout].amount = payout[h[p].payout].amount
        /\ \A r \in Ids \ {h[p].payout} : payout'[r] = payout[r]
    BY <1>4, <2>1, <2>2, MarkKeeps DEF PayoutStates
  <2>4. OutOf(k)' = IF h[p].rider # k THEN OutOf(k)
                    ELSE IF st = "COMPLETED" THEN OutOf(k) \cup {h[p].payout}
                    ELSE OutOf(k) \ {h[p].payout}
    <3>1. \A r \in Ids : r # h[p].payout => (r \in OutOf(k)' <=> r \in OutOf(k))
      BY <2>3 DEF OutOf
    <3>2. h[p].payout \in OutOf(k)' <=> st = "COMPLETED" /\ h[p].rider = k
      BY <2>1, <2>2, <2>3 DEF OutOf
    <3>3. h[p].rider # k => h[p].payout \notin OutOf(k)
      BY <2>2 DEF OutOf
    <3>4. OutOf(k)' \subseteq Ids /\ OutOf(k) \subseteq Ids
      BY DEF OutOf
    <3> HIDE DEF OutOf
    <3>5. QED
      BY <2>1, <3>1, <3>2, <3>3, <3>4
  <2>5. h[p].payout \in OutOf(h[p].rider) \/ EndedAgain(h[p].rider)
    <3>1. h'[p] = Idle
      BY <1>4 DEF Return, TypeInv, TypeOK
    <3>2. QED
      BY <2>1, <2>2, <3>1 DEF OutOf, EndedAgain
  <2>6. \A r \in Ids : payout'[r].amount = payout[r].amount
    BY <2>3
  <2>7. QED
    BY <2>1, <2>2, <2>4, <2>5, <2>6
<1>5. ASSUME NEW p \in Procs, Complete(p) \/ AdminComplete(p)
      PROVE  Goal
  <2>1. /\ h[p].pc \in Holding /\ Mark(h[p].payout, "COMPLETED") /\ Return(p)
        /\ UNCHANGED <<balance, earned>>
    BY <1>5 DEF Complete, AdminComplete, At, Holding
  <2>2. /\ h[p].payout \in Ids /\ h[p].amount \in Nat
        /\ payout'[h[p].payout].amount = h[p].amount
        /\ h[p].payout \in OutOf(h[p].rider) \/ EndedAgain(h[p].rider)
        /\ OutOf(k)' = IF h[p].rider # k THEN OutOf(k) ELSE OutOf(k) \cup {h[p].payout}
        /\ \A r \in OutOf(k) : payout'[r].amount = payout[r].amount
    BY <1>4, <2>1 DEF OutOf
  <2>3. CASE h[p].rider # k \/ h[p].payout \in OutOf(k)
    <3>1. OutOf(k)' = OutOf(k)
      BY <2>2, <2>3
    <3>2. TakenFrom(k)' = TakenFrom(k)
      BY <2>2, <3>1, TakenFromNext
    <3>3. QED
      BY <1>0, <2>1, <3>2 DEF Surplus
  <2>4. CASE h[p].rider = k /\ h[p].payout \notin OutOf(k)
    <3>1. TakenFrom(k)' = TakenFrom(k) + h[p].amount
      BY <2>2, <2>4, TakenOneMore
    <3>2. EndedAgain(k)
      BY <2>2, <2>4
    <3>3. QED
      BY <1>0, <2>1, <2>2, <3>1, <3>2 DEF Surplus
  <2>5. QED
    BY <2>3, <2>4
<1>6. ASSUME NEW p \in Procs, Refund(p) \/ AdminReject(p)
      PROVE  Goal
  <2>1. /\ h[p].pc \in Holding /\ Return(p)
        /\ Add(h[p].rider, h[p].amount) /\ earned' = earned
    BY <1>6 DEF Refund, AdminReject, At, Holding
  <2>2. PICK st \in {"FAILED", "REJECTED"} : Mark(h[p].payout, st)
    BY <1>6 DEF Refund, AdminReject
  <2>3. /\ h[p].payout \in Ids /\ h[p].rider \in Riders /\ h[p].amount \in Nat
        /\ payout[h[p].payout].amount = h[p].amount
        /\ h[p].payout \in OutOf(h[p].rider) \/ EndedAgain(h[p].rider)
        /\ OutOf(k)' = IF h[p].rider # k THEN OutOf(k) ELSE OutOf(k) \ {h[p].payout}
        /\ \A r \in OutOf(k) : payout'[r].amount = payout[r].amount
    BY <1>4, <2>1, <2>2 DEF OutOf
  <2>4. balance'[k] = IF k = h[p].rider THEN balance[k] + h[p].amount ELSE balance[k]
    BY <2>1, <2>3 DEF Add, TypeInv, TypeOK
  <2>5. CASE h[p].rider = k /\ h[p].payout \in OutOf(k)
    <3>1. TakenFrom(k)' = TakenFrom(k) - h[p].amount
      BY <2>3, <2>5, TakenOneLess
    <3>2. QED
      BY <1>0, <2>1, <2>3, <2>4, <2>5, <3>1 DEF Surplus
  <2>6. CASE h[p].rider # k \/ h[p].payout \notin OutOf(k)
    <3>1. OutOf(k)' = OutOf(k)
      BY <2>3, <2>6
    <3>2. TakenFrom(k)' = TakenFrom(k)
      BY <2>3, <3>1, TakenFromNext
    <3>3. h[p].rider # k \/ EndedAgain(k)
      BY <2>3, <2>6
    <3>4. QED
      BY <1>0, <2>1, <2>3, <2>4, <3>2, <3>3 DEF Surplus
  <2>7. QED
    BY <2>5, <2>6
<1>7. \/ UNCHANGED <<balance, earned, payout>>
      \/ \E p \in Procs, o \in Ids : Reserve(p, o)
      \/ \E p \in Procs : Complete(p) \/ AdminComplete(p)
      \/ \E p \in Procs : Refund(p) \/ AdminReject(p)
      \/ \E j \in Riders, a \in Amounts : Credit(j, a)
  <2>1. ASSUME NEW p \in Procs,
               ReserveRefused(p) \/ SendDone(p) \/ SendFailed(p) \/ SendWithoutId(p)
                   \/ HandlerFails(p) \/ NewRequest(p)
        PROVE  UNCHANGED <<balance, earned, payout>>
    BY <2>1 DEF ReserveRefused, SendDone, SendFailed, SendWithoutId, HandlerFails,
                NewRequest, RequestFind, AdminFind
  <2>2. QED
    BY <2>1 DEF Next, HandlerStep, vars
<1> HIDE DEF Goal
<1>8. Goal
  BY <1>1, <1>2, <1>3, <1>5, <1>6, <1>7
<1>9. QED
  BY <1>0, <1>8 DEF Goal

LEMMA InitBooks == Init => NobodyLoses
<1> SUFFICES ASSUME Init, NEW k \in Riders
             PROVE  earned[k] = balance[k] + TakenFrom(k) /\ earned[k] = 0 /\ balance[k] = 0
  BY DEF NobodyLoses
<1>1. OutOf(k) = {}
  BY DEF Init, OutOf, NoPayout
<1>2. TakenFrom(k) = 0
  BY <1>1, SumOfNothing DEF TakenFrom
<1>3. QED
  BY <1>2 DEF Init

(* A rider never loses money, for any number of riders, payouts and        *)
(* overlapping handlers, wherever they die: what he earned is still held,  *)
(* under way or paid out.                                                  *)
THEOREM RidersNeverLose == Spec => []NobodyLoses
<1>1. ASSUME TypeInv, TypeInv', SlipInv, NobodyLoses, [Next]_vars
      PROVE  NobodyLoses'
  <2>1. ASSUME NEW k \in Riders
        PROVE  earned'[k] <= balance'[k] + TakenFrom(k)'
    <3>1. earned[k] <= balance[k] + TakenFrom(k)
      BY <1>1 DEF NobodyLoses
    <3>2. /\ TakenFrom(k) \in Int /\ TakenFrom(k)' \in Int
          /\ Surplus(k)' >= Surplus(k)
      BY <1>1, StepSurplus
    <3>3. QED
      BY <1>1, <3>1, <3>2 DEF Surplus, TypeInv, TypeOK
  <2>2. QED
    BY <2>1 DEF NobodyLoses
<1>2. QED
  BY InitTypeInv, StepTypeInv, InitSlipInv, StepSlipInv, InitBooks, <1>1, PTL DEF Spec

(* No money appears either, however requests and updates overlap and       *)
(* handlers die: a step that changes the sum of what a rider holds, what   *)
(* is under way and what was paid out, beyond what he earns by it, is the  *)
(* update of a payout that another admin ended before.                     *)
THEOREM BooksAlwaysBalance == Spec => BooksBalance
<1>1. ASSUME TypeInv, TypeInv', SlipInv, [Next]_vars
      PROVE  [\A k \in Riders : Surplus(k)' # Surplus(k) => EndedAgain(k)]_vars
  BY <1>1, StepSurplus
<1>2. QED
  BY InitTypeInv, StepTypeInv, InitSlipInv, StepSlipInv, <1>1, PTL DEF Spec, BooksBalance
=============================================================================
