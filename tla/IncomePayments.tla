---------------------------- MODULE IncomePayments ----------------------------
(***************************************************************************)
(* The money of one client: payments of sale orders, what each payment is  *)
(* applied to, the client's credit, refunds and bank reconciliation.       *)
(*                                                                         *)
(* Every operation of ManageIncomePaymentsUsecase, the cancellation of an  *)
(* order, the correction of its total and the saving of its form is one    *)
(* database transaction that first locks the rows it decides on, and is    *)
(* one step here.  The exception is applyCustomerCredit: the statement     *)
(* that locks the order also sums what is applied to it, and the sum is as *)
(* old as the statement's snapshot, taken before the lock was granted.     *)
(*                                                                         *)
(* Rows that are only ever inserted (allocations, credit and account       *)
(* movements) are kept as the sums that the queries compute.  One currency,*)
(* accounts and methods valid, versions current, permissions granted,      *)
(* orders not archived.                                                    *)
(***************************************************************************)
EXTENDS Integers, FiniteSets, Sums

CONSTANTS
  Orders,
  Payments,        \* identifiers of payments; ORDER BY id is their order
  Refunds,
  Rows,            \* rows that reconcile a payment with the bank statement line
  LineAmount,      \* amount of the bank statement line
  Amounts, Totals, \* amounts of a payment, totals of an order, in minor units
  MaxCorrections,  \* bound on changes of an order's total
  None             \* no order, no payment

ASSUME IncomeAssumption ==
  /\ IsFiniteSet(Orders) /\ IsFiniteSet(Payments) /\ IsFiniteSet(Refunds) /\ IsFiniteSet(Rows)
  /\ Payments \subseteq Nat
  /\ Amounts \subseteq Nat \ {0} /\ Totals \subseteq Nat \ {0}
  /\ LineAmount \in Nat /\ None \notin Orders \cup Payments \cup Refunds

VARIABLES
  pay,            \* sale_payments
  total, state,   \* sale_orders
  corrections,    \* changes of a total so far
  net, positive,  \* sale_payment_allocations: the sum of all, and of the positive ones
  credit, moved,  \* customer_credit_movements: their sum by payment, the payments that have any
  ledger,         \* financial_account_movements of each payment: INCOME and REVERSAL
  refund,         \* customer_refunds
  outflow,        \* financial_account_movements of each refund
  line, bank,     \* bank_statement_lines, bank_reconciliation_allocations not undone
  applying        \* an application of credit whose statement waits for the order

orderVars == <<total, state, corrections>>
moneyVars == <<net, positive, credit, moved>>
refundVars == <<refund, outflow>>
bankVars == <<line, bank>>
vars == <<pay, orderVars, moneyVars, ledger, refundVars, bankVars, applying>>

PaymentStatuses == {"ABSENT", "PENDING_CONFIRMATION", "POSTED", "CANCELLED", "REVERSED"}
RefundStatuses == {"ABSENT", "PENDING", "POSTED", "CANCELLED", "REVERSED"}
Active == {"PENDING_CONFIRMATION", "POSTED"}
Open == {"PENDING", "POSTED"}

Idle == [order |-> None, amount |-> 0, seen |-> 0]

Init ==
  /\ pay = [p \in Payments |-> [status |-> "ABSENT", order |-> None, amount |-> 0]]
  /\ total \in [Orders -> Totals] /\ state = [o \in Orders |-> "OPEN"] /\ corrections = 0
  /\ net = [p \in Payments |-> [o \in Orders |-> 0]] /\ positive = net
  /\ credit = [p \in Payments |-> 0] /\ moved = {}
  /\ ledger = [p \in Payments |-> 0]
  /\ refund = [r \in Refunds |-> [status |-> "ABSENT", pay |-> None, amount |-> 0]]
  /\ outflow = [r \in Refunds |-> 0]
  /\ line = 0 /\ bank = [r \in Rows |-> [pay |-> None, amount |-> 0]]
  /\ applying = Idle

-----------------------------------------------------------------------------
AtLeastZero(n) == IF n < 0 THEN 0 ELSE n

\* Math.min(a, Math.max(room, 0))
Clamp(a, room) == IF room \in 0 .. a THEN room ELSE IF room < 0 THEN 0 ELSE a

Of(o, statuses) == {p \in Payments : pay[p].order = o /\ pay[p].status \in statuses}
AmountOf(S) == SumOver(S, [p \in S |-> pay[p].amount])

\* What posted payments, of this order or of others, have applied to order o.
Posted == {p \in Payments : pay[p].status = "POSTED"}
Applied(o) == SumOver(Posted, [p \in Posted |-> net[p][o]])

\* What is taken of an order: applied to it, or pending on it.
Reserved(o) == Applied(o) + AmountOf(Of(o, {"PENDING_CONFIRMATION"}))

Earlier(S, p) == {q \in S : q < p}
RefundsOf(p) == {r \in Refunds : refund[r].pay = p /\ refund[r].status \in Open}
RowsOf(p) == {r \in Rows : bank[r].pay = p}

\* clients ... FOR UPDATE: nobody else of the client's applies or returns credit now.
ClientFree == applying = Idle

-----------------------------------------------------------------------------
(* Payments by confirm.                                                    *)

\* The order's form adds a pending payment or edits one, and may change the
\* order's total; neither looks at what the order already has.
NewTotal(o, t) ==
  \/ t = total[o] /\ UNCHANGED <<total, corrections>>
  \/ /\ t # total[o] /\ corrections < MaxCorrections
     /\ total' = [total EXCEPT ![o] = t] /\ corrections' = corrections + 1

SaveOrder(o) ==
  /\ \E p \in Payments, a \in Amounts :
       /\ pay[p].status = "ABSENT" \/ p \in Of(o, {"PENDING_CONFIRMATION"})
       /\ pay' = [pay EXCEPT ![p] = [status |-> "PENDING_CONFIRMATION", order |-> o, amount |-> a]]
  /\ \E t \in Totals : NewTotal(o, t)
  /\ UNCHANGED <<state, moneyVars, ledger, refundVars, bankVars, applying>>

FitsOrder(o, others, a) == AmountOf(others) + a <= total[o]

UpdatePending(p) ==
  /\ pay[p].status = "PENDING_CONFIRMATION"
  /\ \E a \in Amounts :
       /\ FitsOrder(pay[p].order, Of(pay[p].order, Active) \ {p}, a)
       /\ pay' = [pay EXCEPT ![p].amount = a]
  /\ UNCHANGED <<orderVars, moneyVars, ledger, refundVars, bankVars, applying>>

TransferPending(p, o) ==
  /\ pay[p].status = "PENDING_CONFIRMATION"
  /\ state[o] = "OPEN" /\ FitsOrder(o, Of(o, Active), pay[p].amount)
  /\ pay' = [pay EXCEPT ![p].order = o]
  /\ UNCHANGED <<orderVars, moneyVars, ledger, refundVars, bankVars, applying>>

\* A closed payment is entered again, as a pending one of the same order.
Reenter(p) ==
  /\ pay[p].status \in {"CANCELLED", "REVERSED"}
  /\ state[pay[p].order] = "OPEN"
  /\ \E q \in Payments, a \in Amounts :
       /\ pay[q].status = "ABSENT"
       /\ pay' = [pay EXCEPT ![q] =
            [status |-> "PENDING_CONFIRMATION", order |-> pay[p].order, amount |-> a]]
  /\ UNCHANGED <<orderVars, moneyVars, ledger, refundVars, bankVars, applying>>

-----------------------------------------------------------------------------
(* Posting, correcting, cancelling and reversing payments.                 *)

\* validateForPosting: the payment and the others of its order exceed the total.
Overpays(p) == ~FitsOrder(pay[p].order, Of(pay[p].order, Active) \ {p}, pay[p].amount)

\* The rows are posted one after the other, and the query of what is posted
\* already sees the earlier ones, which are then subtracted once more.
AppliedInBatch(S, p) ==
  LET o == pay[p].order
      before == AmountOf({q \in Earlier(S, p) : pay[q].order = o})
  IN Clamp(pay[p].amount, total[o] - AmountOf(Of(o, {"POSTED"})) - before - before)

ExcessToCredit(S, applied) == {p \in S : pay[p].amount > applied[p]}

PostBatch(S, confirmed) ==
  LET applied == [p \in S |-> AppliedInBatch(S, p)]
      excess == ExcessToCredit(S, applied)
  IN
  /\ S # {}
  /\ \A p \in S : /\ pay[p].status = "PENDING_CONFIRMATION" /\ state[pay[p].order] = "OPEN"
                  /\ Overpays(p) => confirmed
  /\ pay' = [p \in Payments |-> IF p \in S THEN [pay[p] EXCEPT !.status = "POSTED"] ELSE pay[p]]
  /\ ledger' = [p \in Payments |-> IF p \in S THEN ledger[p] + pay[p].amount ELSE ledger[p]]
  /\ net' = [p \in Payments |-> IF p \in S
               THEN [net[p] EXCEPT ![pay[p].order] = @ + applied[p]] ELSE net[p]]
  /\ positive' = [p \in Payments |-> IF p \in S
               THEN [positive[p] EXCEPT ![pay[p].order] = @ + applied[p]] ELSE positive[p]]
  /\ credit' = [p \in Payments |-> IF p \in S
               THEN credit[p] + (pay[p].amount - applied[p]) ELSE credit[p]]
  /\ moved' = moved \cup excess
  /\ UNCHANGED <<orderVars, refundVars, bankVars, applying>>

\* Faults: a balance of credit, or a reconciliation, does not stand in the way.
HasDependenciesButCredit(p) == RowsOf(p) # {} \/ RefundsOf(p) # {}
HasDependenciesButBank(p) == RefundsOf(p) # {} \/ credit[p] # 0

\* What a posted payment takes part in must be undone first.
HasDependencies(p) == RowsOf(p) # {} \/ RefundsOf(p) # {} \/ credit[p] # 0

\* A REVERSAL cancels the INCOME, and every positive allocation is negated.
ReverseInto(p) ==
  /\ ledger' = [ledger EXCEPT ![p] = 0]
  /\ net' = [net EXCEPT ![p] = [o \in Orders |-> net[p][o] - positive[p][o]]]
  /\ pay' = [pay EXCEPT ![p].status = "REVERSED"]

CancelOrReverse(p) ==
  /\ \/ /\ pay[p].status = "PENDING_CONFIRMATION"
        /\ pay' = [pay EXCEPT ![p].status = "CANCELLED"]
        /\ UNCHANGED <<ledger, net>>
     \/ /\ pay[p].status = "POSTED" /\ ~HasDependencies(p)
        /\ ReverseInto(p)
  /\ UNCHANGED <<orderVars, positive, credit, moved, refundVars, bankVars, applying>>

\* The original is reversed and a posted copy takes its place.
CorrectPosted(p) ==
  /\ pay[p].status = "POSTED" /\ state[pay[p].order] = "OPEN"
  /\ ~HasDependencies(p) /\ p \notin moved
  /\ \E q \in Payments, a \in Amounts :
       LET o == pay[p].order
           applied == Clamp(a, total[o] - AmountOf(Of(o, Active) \ {p}))
       IN
       /\ pay[q].status = "ABSENT"
       /\ pay' = [pay EXCEPT ![p].status = "REVERSED",
                             ![q] = [status |-> "POSTED", order |-> o, amount |-> a]]
       /\ ledger' = [ledger EXCEPT ![p] = 0, ![q] = @ + a]
       /\ net' = [net EXCEPT ![p] = [x \in Orders |-> net[p][x] - positive[p][x]],
                             ![q][o] = @ + applied]
       /\ positive' = [positive EXCEPT ![q][o] = @ + applied]
       /\ credit' = [credit EXCEPT ![q] = @ + (a - applied)]
       /\ moved' = IF a > applied THEN moved \cup {q} ELSE moved
  /\ UNCHANGED <<orderVars, refundVars, bankVars, applying>>

-----------------------------------------------------------------------------
(* Customer credit.                                                        *)

\* The client is locked; the statement that locks the order sums what is
\* applied to it as of now, and waits for whoever holds the order.
ApplyRead(o) ==
  /\ ClientFree
  /\ \E a \in Amounts : applying' = [order |-> o, amount |-> a, seen |-> Applied(o)]
  /\ UNCHANGED <<pay, orderVars, moneyVars, ledger, refundVars, bankVars>>

CreditAllows(o, a, seen) ==
  /\ state[o] = "OPEN"
  /\ a <= SumOver(Payments, credit)
  /\ a <= AtLeastZero(total[o] - seen)

\* Fault: the first source pays for all.
SpendsFirst(use, a) ==
  /\ SumOver(Payments, use) = a
  /\ \A p \in Payments : use[p] > 0 => pay[p].status = "POSTED" /\ credit[p] > 0

\* Source payments give their credit one after the other: at most one gives a part.
Spends(use, a) ==
  /\ SumOver(Payments, use) = a
  /\ \A p \in Payments : use[p] <= (IF pay[p].status = "POSTED" THEN AtLeastZero(credit[p]) ELSE 0)
  /\ Cardinality({p \in Payments : use[p] > 0 /\ use[p] < credit[p]}) <= 1

ApplyCredit ==
  /\ applying # Idle
  /\ CreditAllows(applying.order, applying.amount, applying.seen)
  /\ \E use \in [Payments -> 0 .. applying.amount] :
       LET o == applying.order IN
       /\ Spends(use, applying.amount)
       /\ credit' = [p \in Payments |-> credit[p] - use[p]]
       /\ net' = [p \in Payments |-> [net[p] EXCEPT ![o] = @ + use[p]]]
       /\ positive' = [p \in Payments |-> [positive[p] EXCEPT ![o] = @ + use[p]]]
       /\ moved' = moved \cup {p \in Payments : use[p] > 0}
  /\ applying' = Idle
  /\ UNCHANGED <<pay, orderVars, ledger, refundVars, bankVars>>

ApplyRejected ==
  /\ applying # Idle
  /\ ~CreditAllows(applying.order, applying.amount, applying.seen)
  /\ applying' = Idle
  /\ UNCHANGED <<pay, orderVars, moneyVars, ledger, refundVars, bankVars>>

-----------------------------------------------------------------------------
(* Refunds: a pending refund already holds the credit it will pay out.     *)

CreateRefund(r, p) ==
  /\ ClientFree /\ refund[r].status = "ABSENT"
  /\ pay[p].status = "POSTED"
  /\ \E a \in Amounts :
       /\ a <= credit[p]
       /\ refund' = [refund EXCEPT ![r] = [status |-> "PENDING", pay |-> p, amount |-> a]]
       /\ credit' = [credit EXCEPT ![p] = @ - a] /\ moved' = moved \cup {p}
  /\ UNCHANGED <<pay, orderVars, net, positive, ledger, outflow, bankVars, applying>>

PostRefund(r) ==
  /\ ClientFree /\ refund[r].status = "PENDING"
  /\ refund' = [refund EXCEPT ![r].status = "POSTED"]
  /\ outflow' = [outflow EXCEPT ![r] = @ - refund[r].amount]
  /\ UNCHANGED <<pay, orderVars, moneyVars, ledger, bankVars, applying>>

\* Fault: the credit held by the refund is not returned.
KeepsCredit(r) == UNCHANGED credit

GivesBack(r) == credit' = [credit EXCEPT ![refund[r].pay] = @ + refund[r].amount]

CancelRefund(r) ==
  /\ ClientFree /\ refund[r].status = "PENDING"
  /\ refund' = [refund EXCEPT ![r].status = "CANCELLED"]
  /\ GivesBack(r)
  /\ UNCHANGED <<pay, orderVars, net, positive, moved, ledger, outflow, bankVars, applying>>

ReverseRefund(r) ==
  /\ ClientFree /\ refund[r].status = "POSTED"
  /\ refund' = [refund EXCEPT ![r].status = "REVERSED"]
  /\ outflow' = [outflow EXCEPT ![r] = @ + refund[r].amount]
  /\ GivesBack(r)
  /\ UNCHANGED <<pay, orderVars, net, positive, moved, ledger, bankVars, applying>>

-----------------------------------------------------------------------------
(* Reconciliation with the bank.                                           *)

CreateBankStatementLine ==
  /\ line = 0 /\ line' = LineAmount
  /\ UNCHANGED <<pay, orderVars, moneyVars, ledger, refundVars, bank, applying>>

RowAmount(S) == SumOver(S, [r \in S |-> bank[r].amount])

ReconcileIncome(r, p) ==
  /\ bank[r].pay = None /\ pay[p].status = "POSTED"
  /\ \E a \in Amounts :
       /\ RowAmount(Rows) + a <= line
       /\ RowAmount(RowsOf(p)) + a <= pay[p].amount
       /\ bank' = [bank EXCEPT ![r] = [pay |-> p, amount |-> a]]
  /\ UNCHANGED <<pay, orderVars, moneyVars, ledger, refundVars, line, applying>>

UnreconcileIncome(r) ==
  /\ bank[r].pay # None
  /\ bank' = [bank EXCEPT ![r] = [pay |-> None, amount |-> 0]]
  /\ UNCHANGED <<pay, orderVars, moneyVars, ledger, refundVars, line, applying>>

-----------------------------------------------------------------------------
(* Cancelling an order, and correcting its total.                          *)

\* Fault: credit of the payment is taken for credit that was released already.
FreedBeyondCredit(o, p) == AtLeastZero(net[p][o] - credit[p])

\* appliedCents: what a posted payment has on the order that is cancelled.
Freed(o, p) == AtLeastZero(net[p][o])

\* A resolution of the payments of an order.  A pending one is cancelled
\* (no target) or transferred; a posted one is kept as credit, or part of
\* its credit is applied to the target or becomes a refund.
Resolutions(o) ==
  LET own == Of(o, Active) IN
  [to : [own -> (Orders \ {o}) \cup {None}], by : [own -> Refunds \cup {None}],
   part : [own -> Amounts \cup {0}]]

Valid(o, res) ==
  LET own == Of(o, Active) IN
  /\ \A p \in own :
       \/ /\ pay[p].status = "PENDING_CONFIRMATION" /\ res.by[p] = None
          /\ res.part[p] = (IF res.to[p] = None THEN 0 ELSE pay[p].amount)
       \/ /\ pay[p].status = "POSTED"
          /\ res.to[p] = None \/ res.by[p] = None
          /\ res.part[p] <= AtLeastZero(credit[p]) + Freed(o, p)
          /\ res.part[p] = 0 <=> res.to[p] = None /\ res.by[p] = None
  /\ \A p, q \in own : p # q /\ res.by[p] # None => res.by[p] # res.by[q]
  /\ \A p \in own : res.by[p] # None => refund[res.by[p]].status = "ABSENT"

\* Each move is compared with what the earlier ones left of the target; the
\* query sees the earlier moves and movedByTarget subtracts them once more.
TargetsHaveRoom(o, res) ==
  LET own == Of(o, Active) IN
  \A p \in own : res.to[p] # None =>
    LET t == res.to[p]
        before == {q \in Earlier(own, p) : res.to[q] = t}
        alreadyMoved == SumOver(before, [q \in before |-> res.part[q]])
    IN /\ state[t] = "OPEN"
       /\ res.part[p] <= total[t] - (Reserved(t) + alreadyMoved) - alreadyMoved

CancelOrder(o) ==
  LET pending == Of(o, {"PENDING_CONFIRMATION"})
      posted == Of(o, {"POSTED"})
      own == pending \cup posted
  IN
  /\ ClientFree /\ state[o] = "OPEN"
  /\ state' = [state EXCEPT ![o] = "CANCELLED"]
  /\ \E res \in Resolutions(o) :
       /\ Valid(o, res) /\ TargetsHaveRoom(o, res)
       /\ pay' = [p \in Payments |->
            CASE p \in pending /\ res.to[p] = None -> [pay[p] EXCEPT !.status = "CANCELLED"]
              [] p \in pending /\ res.to[p] # None -> [pay[p] EXCEPT !.order = res.to[p]]
              [] OTHER -> pay[p]]
       /\ net' = [p \in Payments |-> [x \in Orders |->
            CASE p \in posted /\ x = o -> net[p][x] - Freed(o, p)
              [] p \in posted /\ x = res.to[p] -> net[p][x] + res.part[p]
              [] OTHER -> net[p][x]]]
       /\ positive' = [p \in Payments |-> [x \in Orders |->
            IF p \in posted /\ x = res.to[p] THEN positive[p][x] + res.part[p] ELSE positive[p][x]]]
       /\ credit' = [p \in Payments |->
            IF p \in posted THEN credit[p] + Freed(o, p) - res.part[p] ELSE credit[p]]
       /\ moved' = moved \cup {p \in posted : Freed(o, p) > 0 \/ res.part[p] > 0}
       /\ refund' = [r \in Refunds |->
            IF \E p \in posted : res.by[p] = r
            THEN LET p == CHOOSE p \in posted : res.by[p] = r
                 IN [status |-> "PENDING", pay |-> p, amount |-> res.part[p]]
            ELSE refund[r]]
  /\ UNCHANGED <<total, corrections, ledger, outflow, bankVars, applying>>

\* calculateReleasedAllocations: the order's own posted payments give back the
\* excess one after the other, the newest first; at most one gives a part.
Releases(o, t, rel) ==
  LET own == Of(o, {"POSTED"})
      excess == AtLeastZero(SumOver(own, [p \in own |-> Freed(o, p)]) - t)
  IN /\ SumOver(own, rel) = (IF t < total[o] THEN excess ELSE 0)
     /\ \A p \in own : rel[p] <= Freed(o, p)
     /\ Cardinality({p \in own : rel[p] > 0 /\ rel[p] < Freed(o, p)}) <= 1

CorrectTotal(o) ==
  LET own == Of(o, {"POSTED"}) IN
  /\ \E t \in Totals, rel \in [own -> Amounts \cup {0}] :
       /\ t # total[o] /\ Releases(o, t, rel) /\ NewTotal(o, t)
       /\ net' = [p \in Payments |->
            IF p \in own THEN [net[p] EXCEPT ![o] = @ - rel[p]] ELSE net[p]]
       /\ credit' = [p \in Payments |-> IF p \in own THEN credit[p] + rel[p] ELSE credit[p]]
       /\ moved' = moved \cup {p \in own : rel[p] > 0}
  /\ UNCHANGED <<pay, state, positive, ledger, refundVars, bankVars, applying>>

-----------------------------------------------------------------------------
Next ==
  \/ \E o \in Orders : SaveOrder(o) \/ CancelOrder(o) \/ CorrectTotal(o) \/ ApplyRead(o)
  \/ ApplyCredit \/ ApplyRejected \/ CreateBankStatementLine
  \/ \E p \in Payments :
       \/ UpdatePending(p) \/ Reenter(p) \/ CancelOrReverse(p) \/ CorrectPosted(p)
       \/ \E o \in Orders : TransferPending(p, o)
       \/ \E r \in Refunds : CreateRefund(r, p)
       \/ \E r \in Rows : ReconcileIncome(r, p)
  \/ \E S \in SUBSET Payments, confirmed \in BOOLEAN : PostBatch(S, confirmed)
  \/ \E r \in Refunds : PostRefund(r) \/ CancelRefund(r) \/ ReverseRefund(r)
  \/ \E r \in Rows : UnreconcileIncome(r)

Spec == Init /\ [][Next]_vars

-----------------------------------------------------------------------------
(* Properties.                                                             *)

TypeOK ==
  /\ pay \in [Payments -> [status : PaymentStatuses, order : Orders \cup {None}, amount : Nat]]
  /\ \A p \in Payments : pay[p].order = None <=> pay[p].status = "ABSENT"
  /\ total \in [Orders -> Totals] /\ state \in [Orders -> {"OPEN", "CANCELLED"}]
  /\ corrections \in Nat
  /\ net \in [Payments -> [Orders -> Int]] /\ positive \in [Payments -> [Orders -> Nat]]
  /\ credit \in [Payments -> Int] /\ moved \subseteq Payments
  /\ ledger \in [Payments -> Int] /\ outflow \in [Refunds -> Int]
  /\ refund \in [Refunds -> [status : RefundStatuses, pay : Payments \cup {None}, amount : Nat]]
  /\ line \in Nat /\ bank \in [Rows -> [pay : Payments \cup {None}, amount : Nat]]
  /\ applying = Idle \/ (applying.order \in Orders /\ applying.amount \in Nat)

\* No money is lost or made: a posted payment is, to the last cent, applied to
\* orders, held as the client's credit, or promised or paid out as refunds.
PaymentConserved ==
  \A p \in Posted :
    pay[p].amount = SumOver(Orders, net[p]) + credit[p]
                    + SumOver(RefundsOf(p), [r \in RefundsOf(p) |-> refund[r].amount])

\* Credit is never spent twice, whichever of applications, refunds and
\* cancellations of orders draw on the same payment.
CreditNotOverspent == \A p \in Payments : credit[p] >= 0

\* The accounts agree with the documents: a posted payment stands in the account
\* once, a closed one not at all, and a refund left it iff it stands posted.
LedgerMatchesStatus ==
  /\ \A p \in Payments : ledger[p] = IF pay[p].status = "POSTED" THEN pay[p].amount ELSE 0
  /\ \A r \in Refunds : outflow[r] = IF refund[r].status = "POSTED" THEN 0 - refund[r].amount ELSE 0

\* A payment that is not posted backs nothing: it has no credit to spend and no
\* refund that could still be paid out.
ClosedHoldsNothing ==
  \A p \in Payments : pay[p].status # "POSTED" => credit[p] = 0 /\ RefundsOf(p) = {}

\* What is reconciled with the bank is a posted payment, within its amount and
\* within the statement line, whatever is corrected or reversed meanwhile.
ReconciliationSound ==
  /\ RowAmount(Rows) <= line
  /\ \A p \in Payments : RowsOf(p) # {} =>
       pay[p].status = "POSTED" /\ RowAmount(RowsOf(p)) <= pay[p].amount

\* The step that cancels an order leaves none of its own payments pending and
\* none of its own posted payments applied to it.
CancellationSettles ==
  [][\A o \in Orders : state[o] = "OPEN" /\ state'[o] = "CANCELLED" =>
       /\ \A p \in Of(o, Active) : pay'[p].status # "PENDING_CONFIRMATION" \/ pay'[p].order # o
       /\ \A p \in Of(o, {"POSTED"}) : net'[p][o] <= 0]_vars

===============================================================================
