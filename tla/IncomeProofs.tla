----------------------------- MODULE IncomeProofs -----------------------------
(***************************************************************************)
(* Incomes and their evidence.                                             *)
(*                                                                         *)
(* What holds of IncomePayments for every number of orders, payments and   *)
(* refunds and all amounts.                                                *)
(*                                                                         *)
(* What holds of EvidenceUpload for every number of calls, images, crashes *)
(* and damaged writes.  The lease does not say who holds it, so the        *)
(* invariant says that nobody else is at work: while no lease expired too  *)
(* early, one process at most is past the claim, and what it found a file  *)
(* to hold stays true until it has written the evidence.  The file saved   *)
(* from quarantine has a name that no call writes.                         *)
(***************************************************************************)
EXTENDS IncomePayments, EvidenceUpload, SumTheorems

\* A refund that exists belongs to a payment.
RefundsNamed == \A r \in Refunds : refund[r].status # "ABSENT" => refund[r].pay \in Payments

MoneyInv ==
  /\ TypeOK
  /\ LedgerMatchesStatus
  /\ CreditNotOverspent
  /\ ClosedHoldsNothing
  /\ RefundsNamed

\* What is applied is between nothing and the payment's amount, however the
\* room left on the order was computed.
LEMMA ClampInRange == ASSUME NEW a \in Nat, NEW room PROVE Clamp(a, room) \in 0 .. a
  BY DEF Clamp

\* What is clamped at zero is an amount.
LEMMA AtLeastZeroNat == ASSUME NEW n \in Int
                        PROVE AtLeastZero(n) \in Nat /\ AtLeastZero(n) >= n
  BY DEF AtLeastZero

\* Amounts are positive, totals are not negative.
LEMMA AmountsNat == Amounts \subseteq Nat /\ 0 \notin Amounts /\ Totals \subseteq Nat
  BY IncomeAssumption

PaymentType == [status : PaymentStatuses, order : Orders \cup {None}, amount : Nat]

\* A payment given a status keeps its order and amount.
LEMMA WithStatus ==
  ASSUME NEW x \in PaymentType, NEW s \in PaymentStatuses
  PROVE  /\ [x EXCEPT !.status = s] \in PaymentType /\ [x EXCEPT !.status = s].status = s
         /\ [x EXCEPT !.status = s].order = x.order /\ [x EXCEPT !.status = s].amount = x.amount
  BY DEF PaymentType

RefundType == [status : RefundStatuses, pay : Payments \cup {None}, amount : Nat]

\* Giving a refund a status keeps the table's type.
LEMMA RefundWithStatus ==
  ASSUME NEW f \in [Refunds -> RefundType], NEW r \in Refunds, NEW s \in RefundStatuses
  PROVE  [f EXCEPT ![r].status = s] \in [Refunds -> RefundType]
<1>1. [f[r] EXCEPT !.status = s] \in RefundType
  BY DEF RefundType
<1> QED BY <1>1

\* Adding an amount at one order keeps the type of a table of sums.
LEMMA AddedAt ==
  ASSUME NEW f, NEW o \in Orders, NEW n \in Nat
  PROVE  /\ f \in [Orders -> Int] => [f EXCEPT ![o] = @ + n] \in [Orders -> Int]
         /\ f \in [Orders -> Nat] => [f EXCEPT ![o] = @ + n] \in [Orders -> Nat]
  OBVIOUS

\* Without payments the accounts agree.
LEMMA InitEstablishes == Init => MoneyInv
<1> SUFFICES ASSUME Init PROVE MoneyInv
  OBVIOUS
<1>0. None \notin Orders /\ None \notin Payments
  BY IncomeAssumption
<1>1. TypeOK
  BY <1>0 DEF Init, TypeOK, PaymentStatuses, RefundStatuses, Idle
<1>2. LedgerMatchesStatus /\ CreditNotOverspent /\ RefundsNamed
  BY DEF Init, LedgerMatchesStatus, CreditNotOverspent, RefundsNamed
<1>3. ClosedHoldsNothing
  BY <1>0 DEF Init, ClosedHoldsNothing, RefundsOf, Open
<1> QED BY <1>1, <1>2, <1>3 DEF MoneyInv

-----------------------------------------------------------------------------
(* Steps that change pending payments only.                                *)

PendingRow(p, s, o, a) ==
  /\ pay[p].status \in {"ABSENT", "PENDING_CONFIRMATION"}
  /\ pay' = [pay EXCEPT ![p] = [status |-> s, order |-> o, amount |-> a]]
  /\ total' \in [Orders -> Totals] /\ corrections' \in Nat
  /\ UNCHANGED <<state, moneyVars, ledger, refundVars, bankVars, applying>>

\* Writing a row that stays pending or is cancelled moves no money.
LEMMA PendingRowPreserves ==
  ASSUME MoneyInv, NEW p \in Payments, NEW s \in {"PENDING_CONFIRMATION", "CANCELLED"},
         NEW o \in Orders, NEW a \in Nat, PendingRow(p, s, o, a)
  PROVE  MoneyInv'
<1> USE DEF moneyVars, refundVars, bankVars, PendingRow
<1>2. TypeOK'
  BY IncomeAssumption DEF MoneyInv, TypeOK, PaymentStatuses
<1>3. LedgerMatchesStatus'
  BY DEF MoneyInv, TypeOK, LedgerMatchesStatus
<1>4. ClosedHoldsNothing'
  BY DEF MoneyInv, TypeOK, ClosedHoldsNothing, RefundsOf
<1>5. CreditNotOverspent' /\ RefundsNamed'
  BY DEF MoneyInv, CreditNotOverspent, RefundsNamed
<1> QED BY <1>2, <1>3, <1>4, <1>5 DEF MoneyInv

\* A new total is one of the totals.
LEMMA NewTotalType ==
  ASSUME TypeOK, NEW o \in Orders, NEW t \in Totals, NewTotal(o, t)
  PROVE  total' \in [Orders -> Totals] /\ corrections' \in Nat
  BY DEF TypeOK, NewTotal

\* Saving an order and all that is done to pending payments keep the accounts.
LEMMA PendingSteps ==
  ASSUME MoneyInv,
         \/ \E o \in Orders : SaveOrder(o)
         \/ \E p \in Payments :
              \/ UpdatePending(p) \/ Reenter(p)
              \/ CancelOrReverse(p) /\ pay[p].status = "PENDING_CONFIRMATION"
              \/ \E o \in Orders : TransferPending(p, o)
  PROVE  MoneyInv'
<1> USE DEF orderVars, PendingRow
<1>0. /\ pay \in [Payments -> PaymentType]
      /\ \A p \in Payments : pay[p].order = None <=> pay[p].status = "ABSENT"
      /\ \A p \in Payments : pay[p] = [status |-> pay[p].status, order |-> pay[p].order,
                                       amount |-> pay[p].amount]
      /\ total \in [Orders -> Totals] /\ corrections \in Nat
  BY DEF MoneyInv, TypeOK, PaymentType
<1>1. ASSUME NEW o \in Orders, SaveOrder(o) PROVE MoneyInv'
  <2>1. PICK t \in Totals : NewTotal(o, t)
    BY <1>1 DEF SaveOrder
  <2>2. total' \in [Orders -> Totals] /\ corrections' \in Nat
    BY <2>1, NewTotalType DEF MoneyInv
  <2>3. PICK p \in Payments, a \in Amounts :
          /\ pay[p].status = "ABSENT" \/ p \in Of(o, {"PENDING_CONFIRMATION"})
          /\ pay' = [pay EXCEPT ![p] = [status |-> "PENDING_CONFIRMATION", order |-> o, amount |-> a]]
    BY <1>1 DEF SaveOrder
  <2>4. pay[p].status \in {"ABSENT", "PENDING_CONFIRMATION"} /\ a \in Nat
    BY <2>3, AmountsNat DEF Of
  <2>5. PendingRow(p, "PENDING_CONFIRMATION", o, a)
    BY <1>1, <2>2, <2>3, <2>4 DEF SaveOrder
  <2> QED BY <2>4, <2>5, PendingRowPreserves
<1>2. ASSUME NEW p \in Payments, UpdatePending(p) PROVE MoneyInv'
  <2>1. PICK a \in Amounts : pay' = [pay EXCEPT ![p].amount = a]
    BY <1>2 DEF UpdatePending
  <2>2. pay[p].order \in Orders /\ pay[p].status = "PENDING_CONFIRMATION" /\ a \in Nat
    BY <1>0, <1>2, AmountsNat DEF UpdatePending, PaymentType
  <2>3. pay' = [pay EXCEPT ![p] =
           [status |-> "PENDING_CONFIRMATION", order |-> pay[p].order, amount |-> a]]
    <3>1. pay[p] \in PaymentType
      BY <1>0
    <3>2. [pay[p] EXCEPT !.amount = a]
            = [status |-> "PENDING_CONFIRMATION", order |-> pay[p].order, amount |-> a]
      BY <2>2, <3>1 DEF PaymentType
    <3>3. pay' = [pay EXCEPT ![p] = [pay[p] EXCEPT !.amount = a]]
      BY <2>1, Zenon
    <3> QED BY <3>2, <3>3, Zenon
  <2>4. PendingRow(p, "PENDING_CONFIRMATION", pay[p].order, a)
    BY <1>0, <1>2, <2>2, <2>3 DEF UpdatePending
  <2> QED BY <2>2, <2>4, PendingRowPreserves
<1>3. ASSUME NEW p \in Payments, Reenter(p) PROVE MoneyInv'
  <2>1. PICK q \in Payments, a \in Amounts :
          /\ pay[q].status = "ABSENT"
          /\ pay' = [pay EXCEPT ![q] =
               [status |-> "PENDING_CONFIRMATION", order |-> pay[p].order, amount |-> a]]
    BY <1>3 DEF Reenter
  <2>2. pay[p].order \in Orders /\ a \in Nat
    BY <1>0, <1>3, AmountsNat DEF Reenter, PaymentType
  <2>3. PendingRow(q, "PENDING_CONFIRMATION", pay[p].order, a)
    BY <1>0, <1>3, <2>1 DEF Reenter
  <2> QED BY <2>2, <2>3, PendingRowPreserves
<1>4. ASSUME NEW p \in Payments, CancelOrReverse(p), pay[p].status = "PENDING_CONFIRMATION"
      PROVE  MoneyInv'
  <2>1. /\ pay' = [pay EXCEPT ![p].status = "CANCELLED"]
        /\ UNCHANGED <<orderVars, moneyVars, ledger, refundVars, bankVars, applying>>
    BY <1>4 DEF CancelOrReverse, moneyVars
  <2>2. pay[p].order \in Orders /\ pay[p].amount \in Nat
    BY <1>0, <1>4 DEF PaymentType
  <2>3. pay' = [pay EXCEPT ![p] =
           [status |-> "CANCELLED", order |-> pay[p].order, amount |-> pay[p].amount]]
    <3>1. pay[p] \in PaymentType
      BY <1>0
    <3>2. [pay[p] EXCEPT !.status = "CANCELLED"]
            = [status |-> "CANCELLED", order |-> pay[p].order, amount |-> pay[p].amount]
      BY <3>1 DEF PaymentType
    <3>3. pay' = [pay EXCEPT ![p] = [pay[p] EXCEPT !.status = "CANCELLED"]]
      BY <2>1, Zenon
    <3> QED BY <3>2, <3>3, Zenon
  <2>4. PendingRow(p, "CANCELLED", pay[p].order, pay[p].amount)
    BY <1>0, <1>4, <2>1, <2>3
  <2> QED BY <2>2, <2>4, PendingRowPreserves
<1>5. ASSUME NEW p \in Payments, NEW o \in Orders, TransferPending(p, o) PROVE MoneyInv'
  <2>1. /\ pay[p].status = "PENDING_CONFIRMATION" /\ pay' = [pay EXCEPT ![p].order = o]
        /\ UNCHANGED <<orderVars, moneyVars, ledger, refundVars, bankVars, applying>>
    BY <1>5, Zenon DEF TransferPending
  <2>2. pay' = [pay EXCEPT ![p] =
           [status |-> "PENDING_CONFIRMATION", order |-> o, amount |-> pay[p].amount]]
    <3>1. pay[p] \in PaymentType
      BY <1>0
    <3>2. [pay[p] EXCEPT !.order = o]
            = [status |-> "PENDING_CONFIRMATION", order |-> o, amount |-> pay[p].amount]
      BY <2>1, <3>1 DEF PaymentType
    <3>3. pay' = [pay EXCEPT ![p] = [pay[p] EXCEPT !.order = o]]
      BY <2>1, Zenon
    <3> QED BY <3>2, <3>3, Zenon
  <2>3. pay[p].amount \in Nat
    BY <1>0 DEF PaymentType
  <2>4. PendingRow(p, "PENDING_CONFIRMATION", o, pay[p].amount)
    BY <1>0, <2>1, <2>2
  <2> QED BY <2>3, <2>4, PendingRowPreserves
<1> QED BY <1>1, <1>2, <1>3, <1>4, <1>5

-----------------------------------------------------------------------------
(* Posting and reversing.                                                  *)

\* Registering and confirming keep the accounts, however the room on an order was computed.
LEMMA PostBatchPreserves ==
  ASSUME MoneyInv, NEW S \in SUBSET Payments, NEW confirmed \in BOOLEAN, PostBatch(S, confirmed)
  PROVE  MoneyInv'
<1> USE DEF orderVars, refundVars, bankVars
<1> DEFINE applied == [p \in S |-> AppliedInBatch(S, p)]
           excess == ExcessToCredit(S, applied)
<1>0. /\ \A p \in S : pay[p].status = "PENDING_CONFIRMATION"
      /\ pay' = [p \in Payments |-> IF p \in S THEN [pay[p] EXCEPT !.status = "POSTED"] ELSE pay[p]]
      /\ ledger' = [p \in Payments |-> IF p \in S THEN ledger[p] + pay[p].amount ELSE ledger[p]]
      /\ net' = [p \in Payments |-> IF p \in S
                   THEN [net[p] EXCEPT ![pay[p].order] = @ + applied[p]] ELSE net[p]]
      /\ positive' = [p \in Payments |-> IF p \in S
                   THEN [positive[p] EXCEPT ![pay[p].order] = @ + applied[p]] ELSE positive[p]]
      /\ credit' = [p \in Payments |-> IF p \in S
                   THEN credit[p] + (pay[p].amount - applied[p]) ELSE credit[p]]
      /\ moved' = moved \cup excess
          /\ UNCHANGED <<orderVars, refundVars, bankVars, applying>>
  BY Zenon DEF PostBatch
<1>1. \A p \in S : pay[p].amount \in Nat /\ applied[p] \in 0 .. pay[p].amount
  <2> TAKE p \in S
  <2>1. pay[p].amount \in Nat
    BY DEF MoneyInv, TypeOK
  <2> QED BY <2>1, ClampInRange DEF AppliedInBatch
<1>2. excess \subseteq Payments
  BY DEF ExcessToCredit
<1> HIDE DEF applied, excess
<1>3. TypeOK'
  <2>1. pay' \in [Payments -> PaymentType]
    <3>1. \A p \in Payments : pay[p] \in PaymentType
      BY DEF MoneyInv, TypeOK, PaymentType
    <3>2. \A p \in S : [pay[p] EXCEPT !.status = "POSTED"] \in PaymentType
      BY <3>1, WithStatus DEF PaymentStatuses
    <3> QED BY <1>0, <3>1, <3>2
  <2>2. \A p \in Payments : pay'[p].order = None <=> pay'[p].status = "ABSENT"
    BY <1>0 DEF MoneyInv, TypeOK, PaymentStatuses
  <2>3. net' \in [Payments -> [Orders -> Int]] /\ positive' \in [Payments -> [Orders -> Nat]]
    BY <1>0, <1>1 DEF MoneyInv, TypeOK
  <2>4. credit' \in [Payments -> Int] /\ ledger' \in [Payments -> Int]
    BY <1>0, <1>1 DEF MoneyInv, TypeOK
  <2>5. moved' \subseteq Payments
    BY <1>0, <1>2 DEF MoneyInv, TypeOK
  <2> QED BY <1>0, <2>1, <2>2, <2>3, <2>4, <2>5 DEF MoneyInv, TypeOK, PaymentType
<1>4. LedgerMatchesStatus'
  BY <1>0 DEF MoneyInv, TypeOK, LedgerMatchesStatus
<1>5. CreditNotOverspent'
  BY <1>0, <1>1 DEF MoneyInv, TypeOK, CreditNotOverspent
<1>6. ClosedHoldsNothing'
  BY <1>0 DEF MoneyInv, TypeOK, ClosedHoldsNothing, RefundsOf
<1>7. RefundsNamed'
  BY <1>0 DEF MoneyInv, RefundsNamed
<1> QED BY <1>3, <1>4, <1>5, <1>6, <1>7 DEF MoneyInv

\* A reversed payment takes back what it applied; it had neither credit nor refunds.
LEMMA ReversePreserves ==
  ASSUME MoneyInv, NEW p \in Payments, CancelOrReverse(p), pay[p].status # "PENDING_CONFIRMATION"
  PROVE  MoneyInv'
<1> USE DEF orderVars, refundVars, bankVars
<1>0. /\ pay[p].status = "POSTED" /\ RefundsOf(p) = {} /\ credit[p] = 0
      /\ ledger' = [ledger EXCEPT ![p] = 0]
      /\ net' = [net EXCEPT ![p] = [o \in Orders |-> net[p][o] - positive[p][o]]]
      /\ pay' = [pay EXCEPT ![p].status = "REVERSED"]
      /\ UNCHANGED <<orderVars, positive, credit, moved, refundVars, bankVars, applying>>
  BY Zenon DEF CancelOrReverse, HasDependencies, ReverseInto
<1>1. TypeOK'
  <2>1. pay[p] \in PaymentType /\ pay \in [Payments -> PaymentType]
    BY DEF MoneyInv, TypeOK, PaymentType
  <2>2. [pay[p] EXCEPT !.status = "REVERSED"] \in PaymentType
    BY <2>1, WithStatus DEF PaymentStatuses
  <2>3. pay' \in [Payments -> PaymentType]
    BY <1>0, <2>1, <2>2
  <2>4. \A x \in Payments : pay'[x].order = None <=> pay'[x].status = "ABSENT"
    BY <1>0 DEF MoneyInv, TypeOK, PaymentStatuses
  <2>5. net' \in [Payments -> [Orders -> Int]] /\ ledger' \in [Payments -> Int]
    BY <1>0 DEF MoneyInv, TypeOK
  <2> QED BY <1>0, <2>3, <2>4, <2>5 DEF MoneyInv, TypeOK, PaymentType
<1>2. LedgerMatchesStatus' /\ CreditNotOverspent' /\ RefundsNamed'
  BY <1>0 DEF MoneyInv, TypeOK, LedgerMatchesStatus, CreditNotOverspent, RefundsNamed
<1>3. ClosedHoldsNothing'
  BY <1>0 DEF MoneyInv, TypeOK, ClosedHoldsNothing, RefundsOf
<1> QED BY <1>1, <1>2, <1>3 DEF MoneyInv

\* Correcting a posted payment keeps the accounts.
LEMMA CorrectPostedPreserves ==
  ASSUME MoneyInv, NEW p \in Payments, CorrectPosted(p)
  PROVE  MoneyInv'
<1> USE DEF orderVars, refundVars, bankVars
<1> DEFINE o == pay[p].order
           applied(a) == Clamp(a, total[o] - AmountOf(Of(o, Active) \ {p}))
<1>0. /\ pay[p].status = "POSTED" /\ RefundsOf(p) = {} /\ credit[p] = 0
      /\ UNCHANGED <<orderVars, refundVars, bankVars, applying>>
  BY Zenon DEF CorrectPosted, HasDependencies
<1>1. PICK q \in Payments, a \in Amounts :
        /\ pay[q].status = "ABSENT"
        /\ pay' = [pay EXCEPT ![p].status = "REVERSED",
                              ![q] = [status |-> "POSTED", order |-> o, amount |-> a]]
        /\ ledger' = [ledger EXCEPT ![p] = 0, ![q] = @ + a]
        /\ net' = [net EXCEPT ![p] = [x \in Orders |-> net[p][x] - positive[p][x]],
                              ![q][o] = @ + applied(a)]
        /\ positive' = [positive EXCEPT ![q][o] = @ + applied(a)]
        /\ credit' = [credit EXCEPT ![q] = @ + (a - applied(a))]
        /\ moved' = IF a > applied(a) THEN moved \cup {q} ELSE moved
  BY DEF CorrectPosted
<1>2. a \in Nat /\ applied(a) \in 0 .. a
  BY AmountsNat, ClampInRange
<1>3. o \in Orders /\ p # q
  BY <1>0, <1>1 DEF MoneyInv, TypeOK
<1> HIDE DEF applied, o
<1>4. TypeOK'
  <2>1. pay' \in [Payments -> PaymentType]
    <3>1. pay[p] \in PaymentType /\ pay \in [Payments -> PaymentType]
      BY DEF MoneyInv, TypeOK, PaymentType
    <3>2. [pay[p] EXCEPT !.status = "REVERSED"] \in PaymentType
      BY <3>1, WithStatus DEF PaymentStatuses
    <3>3. [status |-> "POSTED", order |-> o, amount |-> a] \in PaymentType
      BY <1>2, <1>3 DEF PaymentType, PaymentStatuses
    <3> QED BY <1>1, <1>3, <3>1, <3>2, <3>3
  <2>2. \A x \in Payments : pay'[x].order = None <=> pay'[x].status = "ABSENT"
    <3> TAKE x \in Payments
    <3>1. pay \in [Payments -> PaymentType] /\ (pay[x].order = None <=> pay[x].status = "ABSENT")
      BY DEF MoneyInv, TypeOK, PaymentType
    <3>2. CASE x = q
      BY <1>1, <1>3, <3>1, <3>2, IncomeAssumption
    <3>3. CASE x = p
      <4>1. pay'[p] = [pay[p] EXCEPT !.status = "REVERSED"]
        BY <1>1, <1>3, <3>1
      <4> QED BY <1>0, <3>1, <3>3, <4>1, WithStatus DEF PaymentStatuses
    <3>4. CASE x # p /\ x # q
      BY <1>1, <3>1, <3>4
    <3> QED BY <3>2, <3>3, <3>4
  <2>3. net' \in [Payments -> [Orders -> Int]] /\ positive' \in [Payments -> [Orders -> Nat]]
    <3>1. /\ net \in [Payments -> [Orders -> Int]] /\ positive \in [Payments -> [Orders -> Nat]]
          /\ applied(a) \in Nat
      BY <1>2 DEF MoneyInv, TypeOK
    <3>2. /\ [x \in Orders |-> net[p][x] - positive[p][x]] \in [Orders -> Int]
          /\ [net[q] EXCEPT ![o] = @ + applied(a)] \in [Orders -> Int]
          /\ [positive[q] EXCEPT ![o] = @ + applied(a)] \in [Orders -> Nat]
      BY <1>3, <3>1
    <3>3. positive' = [positive EXCEPT ![q] = [positive[q] EXCEPT ![o] = @ + applied(a)]]
      BY <1>1
    <3>4. net' = [net EXCEPT ![p] = [x \in Orders |-> net[p][x] - positive[p][x]],
                             ![q] = [net[q] EXCEPT ![o] = @ + applied(a)]]
      BY <1>1, <1>3, <3>1
    <3> QED BY <3>1, <3>2, <3>3, <3>4
  <2>4. credit' \in [Payments -> Int] /\ ledger' \in [Payments -> Int] /\ moved' \subseteq Payments
    BY <1>1, <1>2 DEF MoneyInv, TypeOK
  <2> QED BY <1>0, <2>1, <2>2, <2>3, <2>4 DEF MoneyInv, TypeOK, PaymentType
<1>5. LedgerMatchesStatus'
  BY <1>0, <1>1, <1>2, <1>3 DEF MoneyInv, TypeOK, LedgerMatchesStatus
<1>6. CreditNotOverspent'
  BY <1>1, <1>2 DEF MoneyInv, TypeOK, CreditNotOverspent
<1>7. ClosedHoldsNothing' /\ RefundsNamed'
  BY <1>0, <1>1, <1>2, <1>3 DEF MoneyInv, TypeOK, ClosedHoldsNothing, RefundsOf, RefundsNamed
<1> QED BY <1>4, <1>5, <1>6, <1>7 DEF MoneyInv

-----------------------------------------------------------------------------
(* Credit, refunds, the bank.                                              *)

\* Applying credit takes no more than there is, however old the read of the room.
LEMMA ApplyPreserves ==
  ASSUME MoneyInv, (\E o \in Orders : ApplyRead(o)) \/ ApplyCredit \/ ApplyRejected
  PROVE  MoneyInv'
<1> USE DEF orderVars, moneyVars, refundVars, bankVars
<1>1. CASE \E o \in Orders : ApplyRead(o)
  <2>1. /\ UNCHANGED <<pay, orderVars, moneyVars, ledger, refundVars, bankVars>>
        /\ applying'.order \in Orders /\ applying'.amount \in Nat
    BY <1>1, AmountsNat DEF ApplyRead
  <2> QED BY <2>1 DEF MoneyInv, TypeOK, LedgerMatchesStatus, CreditNotOverspent,
                      ClosedHoldsNothing, RefundsOf, RefundsNamed
<1>2. CASE ApplyCredit
  <2> DEFINE o == applying.order
  <2>1. /\ applying # Idle /\ applying' = Idle
        /\ UNCHANGED <<pay, orderVars, ledger, refundVars, bankVars>>
    BY <1>2 DEF ApplyCredit
  <2>2. PICK use \in [Payments -> 0 .. applying.amount] :
          /\ \A p \in Payments :
               use[p] <= (IF pay[p].status = "POSTED" THEN AtLeastZero(credit[p]) ELSE 0)
          /\ credit' = [p \in Payments |-> credit[p] - use[p]]
          /\ net' = [p \in Payments |-> [net[p] EXCEPT ![o] = @ + use[p]]]
          /\ positive' = [p \in Payments |-> [positive[p] EXCEPT ![o] = @ + use[p]]]
          /\ moved' = moved \cup {p \in Payments : use[p] > 0}
    BY <1>2, Zenon DEF ApplyCredit, Spends
  <2>3. o \in Orders /\ \A p \in Payments : use[p] \in Nat
    BY <2>1 DEF MoneyInv, TypeOK
  <2>4. /\ net' \in [Payments -> [Orders -> Int]] /\ positive' \in [Payments -> [Orders -> Nat]]
        /\ credit' \in [Payments -> Int] /\ moved' \subseteq Payments
    <3>1. \A p \in Payments : /\ [net[p] EXCEPT ![o] = @ + use[p]] \in [Orders -> Int]
                              /\ [positive[p] EXCEPT ![o] = @ + use[p]] \in [Orders -> Nat]
      <4> TAKE p \in Payments
      <4>1. /\ net[p] \in [Orders -> Int] /\ positive[p] \in [Orders -> Nat]
            /\ use[p] \in Nat /\ o \in Orders
        BY <2>3 DEF MoneyInv, TypeOK
      <4> HIDE DEF o
      <4> QED BY <4>1, AddedAt
    <3>2. credit' \in [Payments -> Int]
      BY <2>2, <2>3 DEF MoneyInv, TypeOK
    <3>3. moved' \subseteq Payments
      BY <2>2 DEF MoneyInv, TypeOK
    <3>4. net' \in [Payments -> [Orders -> Int]] /\ positive' \in [Payments -> [Orders -> Nat]]
      BY <2>2, <3>1
    <3> QED BY <3>2, <3>3, <3>4
  <2>5. TypeOK'
    BY <2>1, <2>4 DEF MoneyInv, TypeOK, Idle
  <2>6. CreditNotOverspent'
    <3> SUFFICES ASSUME NEW p \in Payments PROVE credit'[p] >= 0
      BY DEF CreditNotOverspent
    <3>1. credit[p] \in Int /\ credit[p] >= 0 /\ use[p] \in Nat
      BY <2>3 DEF MoneyInv, TypeOK, CreditNotOverspent
    <3>2. use[p] <= credit[p]
      BY <2>2, <3>1 DEF AtLeastZero
    <3> QED BY <2>2, <3>1, <3>2
  <2>8. LedgerMatchesStatus' /\ RefundsNamed'
    BY <2>1 DEF MoneyInv, LedgerMatchesStatus, RefundsNamed
  <2>7. ClosedHoldsNothing'
    BY <2>1, <2>2, <2>3 DEF MoneyInv, TypeOK, ClosedHoldsNothing, RefundsOf
  <2> QED BY <2>5, <2>6, <2>7, <2>8 DEF MoneyInv
<1>3. CASE ApplyRejected
  BY <1>3 DEF ApplyRejected, Idle, MoneyInv, TypeOK, LedgerMatchesStatus, CreditNotOverspent,
              ClosedHoldsNothing, RefundsOf, RefundsNamed
<1> QED BY <1>1, <1>2, <1>3

\* A refund takes from the credit what a cancelled or reversed one gives back.
LEMMA RefundPreserves ==
  ASSUME MoneyInv, NEW r \in Refunds,
         \/ \E p \in Payments : CreateRefund(r, p)
         \/ PostRefund(r) \/ CancelRefund(r) \/ ReverseRefund(r)
  PROVE  MoneyInv'
<1> USE DEF orderVars, moneyVars, bankVars
<1>0. refund \in [Refunds -> RefundType] /\ outflow \in [Refunds -> Int]
  BY DEF MoneyInv, TypeOK, RefundType
<1> USE DEF RefundType
<1>1. ASSUME NEW p \in Payments, CreateRefund(r, p) PROVE MoneyInv'
  <2>1. PICK a \in Amounts :
          /\ a <= credit[p]
          /\ refund' = [refund EXCEPT ![r] = [status |-> "PENDING", pay |-> p, amount |-> a]]
          /\ credit' = [credit EXCEPT ![p] = @ - a] /\ moved' = moved \cup {p}
    BY <1>1 DEF CreateRefund
  <2>2. /\ pay[p].status = "POSTED" /\ refund[r].status = "ABSENT"
        /\ UNCHANGED <<pay, orderVars, net, positive, ledger, outflow, bankVars, applying>>
    BY <1>1 DEF CreateRefund
  <2>3. a \in Nat
    BY AmountsNat
  <2>4. TypeOK'
    BY <2>1, <2>2, <2>3 DEF MoneyInv, TypeOK, RefundStatuses
  <2>5. LedgerMatchesStatus' /\ CreditNotOverspent' /\ RefundsNamed'
    BY <1>0, <2>1, <2>2, <2>3
    DEF MoneyInv, TypeOK, LedgerMatchesStatus, CreditNotOverspent, RefundsNamed
  <2>6. ClosedHoldsNothing'
    BY <1>0, <2>1, <2>2, <2>3 DEF MoneyInv, TypeOK, ClosedHoldsNothing, RefundsOf
  <2> QED BY <2>4, <2>5, <2>6 DEF MoneyInv
<1>2. CASE PostRefund(r)
  <2>1. /\ refund[r].status = "PENDING"
        /\ refund' = [refund EXCEPT ![r].status = "POSTED"]
        /\ outflow' = [outflow EXCEPT ![r] = @ - refund[r].amount]
        /\ UNCHANGED <<pay, orderVars, moneyVars, ledger, bankVars, applying>>
    BY <1>2 DEF PostRefund
  <2>2. TypeOK'
    <3>1. refund' \in [Refunds -> RefundType]
      BY <1>0, <2>1, RefundWithStatus DEF RefundStatuses
    <3> QED BY <1>0, <2>1, <3>1 DEF MoneyInv, TypeOK
  <2>3. LedgerMatchesStatus' /\ CreditNotOverspent' /\ RefundsNamed'
    BY <1>0, <2>1 DEF MoneyInv, LedgerMatchesStatus, CreditNotOverspent, RefundsNamed
  <2>4. ClosedHoldsNothing'
    BY <1>0, <2>1 DEF MoneyInv, ClosedHoldsNothing, RefundsOf, Open
  <2> QED BY <2>2, <2>3, <2>4 DEF MoneyInv
<1>3. CASE CancelRefund(r) \/ ReverseRefund(r)
  <2>1. PICK s \in {"CANCELLED", "REVERSED"} :
          /\ refund[r].status \in Open
          /\ refund' = [refund EXCEPT ![r].status = s]
          /\ outflow' = [outflow EXCEPT ![r] = 0]
          /\ credit' = [credit EXCEPT ![refund[r].pay] = @ + refund[r].amount]
          /\ UNCHANGED <<pay, orderVars, net, positive, moved, ledger, bankVars, applying>>
    <3>1. CASE CancelRefund(r)
      <4>1. outflow[r] = 0
        BY <3>1 DEF CancelRefund, MoneyInv, LedgerMatchesStatus
      <4>2. outflow' = [outflow EXCEPT ![r] = 0]
        BY <1>0, <3>1, <4>1 DEF CancelRefund
      <4> QED BY <3>1, <4>2 DEF CancelRefund, GivesBack, Open
    <3>2. CASE ReverseRefund(r)
      <4>1. outflow[r] + refund[r].amount = 0
        BY <1>0, <3>2 DEF ReverseRefund, MoneyInv, LedgerMatchesStatus
      <4>2. outflow' = [outflow EXCEPT ![r] = 0]
        BY <1>0, <3>2, <4>1 DEF ReverseRefund
      <4> QED BY <3>2, <4>2 DEF ReverseRefund, GivesBack, Open
    <3> QED BY <1>3, <3>1, <3>2
  <2>2. /\ refund[r].pay \in Payments /\ refund[r].amount \in Nat
        /\ pay[refund[r].pay].status = "POSTED"
    <3>1. refund[r].pay \in Payments
      BY <2>1 DEF MoneyInv, RefundsNamed, Open
    <3> QED BY <1>0, <2>1, <3>1 DEF MoneyInv, ClosedHoldsNothing, RefundsOf
  <2>3. TypeOK'
    <3>1. refund' \in [Refunds -> RefundType]
      BY <1>0, <2>1, RefundWithStatus DEF RefundStatuses
    <3> QED BY <1>0, <2>1, <2>2, <3>1 DEF MoneyInv, TypeOK
  <2>4. LedgerMatchesStatus' /\ CreditNotOverspent' /\ RefundsNamed'
    BY <1>0, <2>1, <2>2
    DEF MoneyInv, TypeOK, LedgerMatchesStatus, CreditNotOverspent, RefundsNamed, Open
  <2>5. ClosedHoldsNothing'
    BY <1>0, <2>1, <2>2 DEF MoneyInv, TypeOK, ClosedHoldsNothing, RefundsOf, Open
  <2> QED BY <2>3, <2>4, <2>5 DEF MoneyInv
<1> QED BY <1>1, <1>2, <1>3

\* The bank's rows touch no account.
LEMMA BankPreserves ==
  ASSUME MoneyInv,
         \/ CreateBankStatementLine
         \/ \E r \in Rows : UnreconcileIncome(r) \/ \E p \in Payments : ReconcileIncome(r, p)
  PROVE  MoneyInv'
<1> USE AmountsNat, IncomeAssumption DEF orderVars, moneyVars, refundVars
<1>0. bank \in [Rows -> [pay : Payments \cup {None}, amount : Nat]] /\ line \in Nat
  BY DEF MoneyInv, TypeOK
<1>1. /\ UNCHANGED <<pay, orderVars, moneyVars, ledger, refundVars, applying>>
      /\ line' \in Nat /\ bank' \in [Rows -> [pay : Payments \cup {None}, amount : Nat]]
  <2>1. CASE CreateBankStatementLine
    BY <1>0, <2>1 DEF CreateBankStatementLine
  <2>2. ASSUME NEW r \in Rows, UnreconcileIncome(r)
        PROVE  <1>1!:
    BY <1>0, <2>2 DEF UnreconcileIncome
  <2>3. ASSUME NEW r \in Rows, NEW p \in Payments, ReconcileIncome(r, p)
        PROVE  <1>1!:
    <3>1. PICK a \in Amounts : bank' = [bank EXCEPT ![r] = [pay |-> p, amount |-> a]]
      BY <2>3 DEF ReconcileIncome
    <3>2. a \in Nat /\ UNCHANGED <<pay, orderVars, moneyVars, ledger, refundVars, line, applying>>
      BY <2>3 DEF ReconcileIncome
    <3>3. bank' \in [Rows -> [pay : Payments \cup {None}, amount : Nat]]
      BY <1>0, <3>1, <3>2
    <3> QED BY <1>0, <3>2, <3>3
  <2> QED BY <2>1, <2>2, <2>3
<1> QED BY <1>1 DEF MoneyInv, TypeOK, LedgerMatchesStatus, CreditNotOverspent,
                    ClosedHoldsNothing, RefundsOf, RefundsNamed

-----------------------------------------------------------------------------
(* Cancelling an order and correcting its total.                           *)

\* What a cancelled order frees of a payment is an amount, and leaves nothing applied.
LEMMA FreedNat ==
  ASSUME TypeOK, NEW o \in Orders, NEW p \in Payments
  PROVE  Freed(o, p) \in Nat /\ net[p][o] - Freed(o, p) <= 0
  BY AtLeastZeroNat DEF TypeOK, Freed

\* Cancelling an order keeps the accounts, and leaves it no active payment that is pending or applied.
LEMMA CancelOrderPreserves ==
  ASSUME MoneyInv, NEW o \in Orders, CancelOrder(o)
  PROVE  /\ MoneyInv'
         /\ \A p \in Of(o, Active) : pay'[p].status # "PENDING_CONFIRMATION" \/ pay'[p].order # o
         /\ \A p \in Of(o, {"POSTED"}) : net'[p][o] <= 0
<1> USE DEF bankVars
<1> DEFINE pending == Of(o, {"PENDING_CONFIRMATION"})
           posted == Of(o, {"POSTED"})
           own == Of(o, Active)
<1>1. PICK res \in Resolutions(o) :
        /\ Valid(o, res)
        /\ pay' = [p \in Payments |->
             CASE p \in pending /\ res.to[p] = None -> [pay[p] EXCEPT !.status = "CANCELLED"]
               [] p \in pending /\ res.to[p] # None -> [pay[p] EXCEPT !.order = res.to[p]]
               [] OTHER -> pay[p]]
        /\ net' = [p \in Payments |-> [x \in Orders |->
             CASE p \in posted /\ x = o -> net[p][x] - Freed(o, p)
               [] p \in posted /\ x = res.to[p] -> net[p][x] + res.part[p]
               [] OTHER -> net[p][x]]]
        /\ positive' = [p \in Payments |-> [x \in Orders |->
             IF p \in posted /\ x = res.to[p] THEN positive[p][x] + res.part[p] ELSE positive[p][x]]]
        /\ credit' = [p \in Payments |->
             IF p \in posted THEN credit[p] + Freed(o, p) - res.part[p] ELSE credit[p]]
        /\ moved' = moved \cup {p \in posted : Freed(o, p) > 0 \/ res.part[p] > 0}
        /\ refund' = [r \in Refunds |->
             IF \E p \in posted : res.by[p] = r
             THEN LET p == CHOOSE p \in posted : res.by[p] = r
                  IN [status |-> "PENDING", pay |-> p, amount |-> res.part[p]]
             ELSE refund[r]]
  BY Zenon DEF CancelOrder
<1>2. /\ state' = [state EXCEPT ![o] = "CANCELLED"]
      /\ UNCHANGED <<total, corrections, ledger, outflow, bankVars, applying>>
  BY DEF CancelOrder
<1>3. /\ own \subseteq Payments /\ pending \subseteq own /\ posted \subseteq own
      /\ own = pending \cup posted
      /\ \A p \in pending : pay[p].status = "PENDING_CONFIRMATION" /\ pay[p].order = o
      /\ \A p \in posted : pay[p].status = "POSTED" /\ pay[p].order = o
  BY DEF Of, Active
<1>4. \A p \in own : res.to[p] \in (Orders \ {o}) \cup {None} /\ res.part[p] \in Nat
  <2>1. res \in [to : [own -> (Orders \ {o}) \cup {None}], by : [own -> Refunds \cup {None}],
                 part : [own -> Amounts \cup {0}]]
    BY <1>1, Zenon DEF Resolutions
  <2> HIDE DEF own
  <2>2. res.to \in [own -> (Orders \ {o}) \cup {None}] /\ res.part \in [own -> Amounts \cup {0}]
    BY <2>1
  <2>3. \A p \in own : res.to[p] \in (Orders \ {o}) \cup {None}
    BY <2>2, Zenon
  <2>4. \A p \in own : res.part[p] \in Amounts \cup {0}
    BY <2>2, Zenon
  <2>5. Amounts \cup {0} \subseteq Nat
    BY AmountsNat
  <2> QED BY <2>3, <2>4, <2>5, Zenon
<1>5. \A p \in posted : /\ Freed(o, p) \in Nat
                         /\ res.part[p] <= credit[p] + Freed(o, p)
  <2> TAKE p \in posted
  <2>1. credit[p] \in Int /\ credit[p] >= 0 /\ p \in Payments /\ p \in own
    BY <1>3 DEF MoneyInv, TypeOK, CreditNotOverspent
  <2>2. Freed(o, p) \in Nat
    BY <2>1, FreedNat DEF MoneyInv
  <2>3. res.part[p] <= AtLeastZero(credit[p]) + Freed(o, p)
    BY <1>1, <1>3, <2>1 DEF Valid
  <2> QED BY <2>1, <2>2, <2>3 DEF AtLeastZero
<1>6. \A r \in Refunds : (\E p \in posted : res.by[p] = r) => refund[r].status = "ABSENT"
  <2> SUFFICES ASSUME NEW r \in Refunds, NEW p \in posted, res.by[p] = r
               PROVE  refund[r].status = "ABSENT"
    OBVIOUS
  <2>1. res.by[p] # None
    BY IncomeAssumption
  <2> QED BY <1>1, <1>3, <2>1 DEF Valid
<1> HIDE DEF pending, posted, own
<1>7. \A p \in Payments :
        \/ pay'[p] = pay[p] /\ p \notin pending
        \/ /\ p \in pending /\ pay'[p].amount = pay[p].amount /\ pay'[p] \in PaymentType
           /\ \/ pay'[p].status = "CANCELLED" /\ pay'[p].order = o
              \/ pay'[p].status = "PENDING_CONFIRMATION" /\ pay'[p].order \in Orders \ {o}
  <2> TAKE p \in Payments
  <2>1. pay[p] \in PaymentType
    BY DEF MoneyInv, TypeOK, PaymentType
  <2>2. CASE p \notin pending
    BY <1>1, <2>2
  <2>3. CASE p \in pending /\ res.to[p] = None
    <3>1. pay'[p] = [pay[p] EXCEPT !.status = "CANCELLED"]
      BY <1>1, <2>3
    <3>2. /\ pay'[p] \in PaymentType /\ pay'[p].status = "CANCELLED"
          /\ pay'[p].order = pay[p].order /\ pay'[p].amount = pay[p].amount
      <4>1. "CANCELLED" \in PaymentStatuses
        BY DEF PaymentStatuses
      <4> QED BY <2>1, <3>1, <4>1, WithStatus
    <3> QED BY <1>3, <2>3, <3>2
  <2>4. CASE p \in pending /\ res.to[p] # None
    <3>1. pay'[p] = [pay[p] EXCEPT !.order = res.to[p]]
      BY <1>1, <2>4
    <3>2. res.to[p] \in Orders \ {o}
      BY <1>3, <1>4, <2>4
    <3> QED BY <1>3, <2>1, <2>4, <3>1, <3>2 DEF PaymentType
  <2> QED BY <2>2, <2>3, <2>4
<1>8. TypeOK'
  <2>1. pay' \in [Payments -> PaymentType]
    BY <1>1, <1>7 DEF MoneyInv, TypeOK, PaymentType
  <2>2. \A p \in Payments : pay'[p].order = None <=> pay'[p].status = "ABSENT"
    BY <1>7, IncomeAssumption DEF MoneyInv, TypeOK
  <2>3. net' \in [Payments -> [Orders -> Int]]
    BY <1>1, <1>3, <1>4, <1>5 DEF MoneyInv, TypeOK
  <2>4. positive' \in [Payments -> [Orders -> Nat]]
    BY <1>1, <1>3, <1>4 DEF MoneyInv, TypeOK
  <2>5. credit' \in [Payments -> Int]
    BY <1>1, <1>3, <1>4, <1>5 DEF MoneyInv, TypeOK
  <2>6. moved' \subseteq Payments
    BY <1>1, <1>3 DEF MoneyInv, TypeOK
  <2>7. refund' \in [Refunds -> RefundType]
    <3>1. \A r \in Refunds : (\E p \in posted : res.by[p] = r) =>
            LET p == CHOOSE p \in posted : res.by[p] = r
            IN [status |-> "PENDING", pay |-> p, amount |-> res.part[p]] \in RefundType
      BY <1>3, <1>4 DEF RefundType, RefundStatuses
    <3>2. refund \in [Refunds -> RefundType]
      BY DEF MoneyInv, TypeOK, RefundType
    <3> QED BY <1>1, <3>1, <3>2
  <2>8. state' \in [Orders -> {"OPEN", "CANCELLED"}]
    BY <1>2 DEF MoneyInv, TypeOK
  <2> QED BY <1>2, <2>1, <2>2, <2>3, <2>4, <2>5, <2>6, <2>7, <2>8
          DEF MoneyInv, TypeOK, PaymentType, RefundType
<1>9. CreditNotOverspent'
  BY <1>1, <1>3, <1>4, <1>5 DEF MoneyInv, TypeOK, CreditNotOverspent
<1>10. \A r \in Refunds : \/ refund'[r] = refund[r]
                          \/ /\ refund'[r].status = "PENDING" /\ refund[r].status = "ABSENT"
                             /\ refund'[r].pay \in posted
  BY <1>1, <1>6
<1>11. RefundsNamed'
  BY <1>3, <1>10 DEF MoneyInv, RefundsNamed
<1>12. LedgerMatchesStatus'
  <2>1. \A p \in Payments : pay[p].amount \in Nat /\ pay'[p].amount = pay[p].amount
                            /\ (pay'[p].status = "POSTED" <=> pay[p].status = "POSTED")
    BY <1>3, <1>7 DEF MoneyInv, TypeOK
  <2>2. \A r \in Refunds : outflow[r] = IF refund'[r].status = "POSTED"
                                         THEN 0 - refund'[r].amount ELSE 0
    BY <1>10 DEF MoneyInv, LedgerMatchesStatus
  <2> QED BY <1>2, <2>1, <2>2 DEF MoneyInv, LedgerMatchesStatus
<1>13. ClosedHoldsNothing'
  <2> SUFFICES ASSUME NEW p \in Payments, pay'[p].status # "POSTED"
               PROVE  credit'[p] = 0 /\ \A r \in Refunds :
                        ~(refund'[r].pay = p /\ refund'[r].status \in Open)
    BY DEF ClosedHoldsNothing, RefundsOf
  <2>1. pay[p].status # "POSTED" /\ p \notin posted
    BY <1>3, <1>7
  <2>2. credit[p] = 0 /\ \A r \in Refunds : ~(refund[r].pay = p /\ refund[r].status \in Open)
    BY <2>1 DEF MoneyInv, ClosedHoldsNothing, RefundsOf
  <2> QED BY <1>1, <1>10, <2>1, <2>2
<1>14. \A p \in own : pay'[p].status # "PENDING_CONFIRMATION" \/ pay'[p].order # o
  BY <1>3, <1>7
<1>15. ASSUME NEW p \in posted PROVE net'[p][o] <= 0
  <2>0. res.to[p] # o /\ p \in Payments
    BY <1>3, <1>4, IncomeAssumption
  <2>1. net'[p][o] = net[p][o] - Freed(o, p)
    <3>1. net'[p] = [x \in Orders |->
             CASE p \in posted /\ x = o -> net[p][x] - Freed(o, p)
               [] p \in posted /\ x = res.to[p] -> net[p][x] + res.part[p]
               [] OTHER -> net[p][x]]
      BY <1>1, <2>0, Zenon
    <3> QED BY <2>0, <3>1
  <2> QED BY <1>3, <2>1, FreedNat DEF MoneyInv
<1> QED BY <1>8, <1>9, <1>11, <1>12, <1>13, <1>14, <1>15 DEF MoneyInv, own, posted

\* Correcting a total releases from the order what it adds to the credits.
LEMMA CorrectTotalPreserves ==
  ASSUME MoneyInv, NEW o \in Orders, CorrectTotal(o)
  PROVE  MoneyInv'
<1> USE DEF refundVars, bankVars
<1> DEFINE own == Of(o, {"POSTED"})
<1>1. UNCHANGED <<pay, state, positive, ledger, refundVars, bankVars, applying>>
  BY Zenon DEF CorrectTotal
<1>2. PICK t \in Totals, rel \in [own -> Amounts \cup {0}] :
        /\ NewTotal(o, t)
        /\ net' = [p \in Payments |->
             IF p \in own THEN [net[p] EXCEPT ![o] = @ - rel[p]] ELSE net[p]]
        /\ credit' = [p \in Payments |-> IF p \in own THEN credit[p] + rel[p] ELSE credit[p]]
        /\ moved' = moved \cup {p \in own : rel[p] > 0}
  BY Zenon DEF CorrectTotal
<1>3. total' \in [Orders -> Totals] /\ corrections' \in Nat
  BY <1>2, NewTotalType DEF MoneyInv
<1>4. \A p \in own : p \in Payments /\ pay[p].status = "POSTED" /\ rel[p] \in Nat
  <2>1. \A p \in own : p \in Payments /\ pay[p].status = "POSTED"
    BY DEF Of
  <2>2. \A p \in own : rel[p] \in Amounts \cup {0}
    BY <1>2, Zenon
  <2>3. Amounts \cup {0} \subseteq Nat
    BY AmountsNat
  <2> QED BY <2>1, <2>2, <2>3, Zenon
<1> HIDE DEF own
<1>5. TypeOK'
  <2>1. net' \in [Payments -> [Orders -> Int]]
    <3>1. \A p \in own : [net[p] EXCEPT ![o] = @ - rel[p]] \in [Orders -> Int]
      BY <1>4 DEF MoneyInv, TypeOK
    <3> QED BY <1>2, <3>1 DEF MoneyInv, TypeOK
  <2>2. credit' \in [Payments -> Int] /\ moved' \subseteq Payments
    BY <1>2, <1>4 DEF MoneyInv, TypeOK
  <2> QED BY <1>1, <1>3, <2>1, <2>2 DEF MoneyInv, TypeOK
<1>6. LedgerMatchesStatus' /\ RefundsNamed'
  BY <1>1 DEF MoneyInv, LedgerMatchesStatus, RefundsNamed
<1>7. CreditNotOverspent'
  <2> SUFFICES ASSUME NEW p \in Payments PROVE credit'[p] >= 0
    BY DEF CreditNotOverspent
  <2>1. credit'[p] = IF p \in own THEN credit[p] + rel[p] ELSE credit[p]
    BY <1>2
  <2>2. credit[p] \in Int /\ credit[p] >= 0
    BY DEF MoneyInv, TypeOK, CreditNotOverspent
  <2> QED BY <1>4, <2>1, <2>2
<1>8. ClosedHoldsNothing'
  BY <1>1, <1>2, <1>4 DEF MoneyInv, ClosedHoldsNothing, RefundsOf
<1> QED BY <1>5, <1>6, <1>7, <1>8 DEF MoneyInv

-----------------------------------------------------------------------------
(* The theorems.                                                           *)

\* Every operation keeps the accounts.
LEMMA StepPreserves == MoneyInv /\ [Next]_vars => MoneyInv'
<1> SUFFICES ASSUME MoneyInv, [Next]_vars PROVE MoneyInv'
  OBVIOUS
<1>1. CASE UNCHANGED vars
  BY <1>1 DEF vars, orderVars, moneyVars, refundVars, bankVars, MoneyInv, TypeOK,
              LedgerMatchesStatus, CreditNotOverspent, ClosedHoldsNothing, RefundsOf, RefundsNamed
<1>2. ASSUME NEW o \in Orders, CancelOrder(o) PROVE MoneyInv'
  BY <1>2, CancelOrderPreserves
<1>3. ASSUME NEW o \in Orders, CorrectTotal(o) PROVE MoneyInv'
  BY <1>3, CorrectTotalPreserves
<1>4. ASSUME NEW p \in Payments, CancelOrReverse(p) PROVE MoneyInv'
  BY <1>4, PendingSteps, ReversePreserves
<1>5. ASSUME NEW p \in Payments, CorrectPosted(p) PROVE MoneyInv'
  BY <1>5, CorrectPostedPreserves
<1>6. ASSUME NEW S \in SUBSET Payments, NEW confirmed \in BOOLEAN, PostBatch(S, confirmed)
      PROVE  MoneyInv'
  BY <1>6, PostBatchPreserves
<1> QED BY <1>1, <1>2, <1>3, <1>4, <1>5, <1>6, PendingSteps, ApplyPreserves, RefundPreserves,
           BankPreserves DEF Next

\* However payments, applications of credit, refunds and cancellations of orders
\* interleave, the variables keep their types and the four facts hold together.
THEOREM MoneyInvariant == Spec => []MoneyInv
  BY InitEstablishes, StepPreserves, PTL DEF Spec

\* The variables of the payments model keep their types.
THEOREM MoneyTypes == Spec => []TypeOK
<1>1. MoneyInv => TypeOK
  BY DEF MoneyInv
<1> QED BY <1>1, MoneyInvariant, PTL

\* Credit is never spent beyond what the payment behind it left.
THEOREM CreditSafe == Spec => []CreditNotOverspent
<1>1. MoneyInv => CreditNotOverspent
  BY DEF MoneyInv
<1> QED BY <1>1, MoneyInvariant, PTL

\* The account movements agree with the statuses of payments and refunds.
THEOREM AccountsAgree == Spec => []LedgerMatchesStatus
<1>1. MoneyInv => LedgerMatchesStatus
  BY DEF MoneyInv
<1> QED BY <1>1, MoneyInvariant, PTL

\* A payment that is not posted backs neither credit nor refunds.
THEOREM ClosedIsEmpty == Spec => []ClosedHoldsNothing
<1>1. MoneyInv => ClosedHoldsNothing
  BY DEF MoneyInv
<1> QED BY <1>1, MoneyInvariant, PTL

\* No other step closes an order.
LEMMA OnlyCancellationCloses ==
  ASSUME MoneyInv, [Next]_vars, NEW o \in Orders, state[o] = "OPEN", state'[o] = "CANCELLED"
  PROVE  CancelOrder(o)
<1>1. ASSUME NEW x \in Orders, CancelOrder(x) PROVE x = o
  <2>1. state' = [state EXCEPT ![x] = "CANCELLED"]
    BY <1>1, Zenon DEF CancelOrder
  <2> QED BY <2>1 DEF MoneyInv, TypeOK
<1>2. ASSUME UNCHANGED state PROVE FALSE
  BY <1>2
<1>3. ASSUME NEW x \in Orders, SaveOrder(x) \/ CorrectTotal(x) \/ ApplyRead(x) PROVE UNCHANGED state
  BY <1>3, Zenon DEF SaveOrder, CorrectTotal, ApplyRead, orderVars
<1>4. ASSUME ApplyCredit \/ ApplyRejected \/ CreateBankStatementLine PROVE UNCHANGED state
  BY <1>4, Zenon DEF ApplyCredit, ApplyRejected, CreateBankStatementLine, orderVars
<1>5. ASSUME NEW p \in Payments, \/ UpdatePending(p) \/ Reenter(p) \/ CancelOrReverse(p) \/ CorrectPosted(p)
      PROVE UNCHANGED state
  BY <1>5, Zenon DEF UpdatePending, Reenter, CancelOrReverse, CorrectPosted, orderVars
<1>6. ASSUME NEW p \in Payments, NEW x \in Orders, TransferPending(p, x) PROVE UNCHANGED state
  BY <1>6, Zenon DEF TransferPending, orderVars
<1>7. ASSUME NEW p \in Payments, NEW r \in Refunds, CreateRefund(r, p) PROVE UNCHANGED state
  BY <1>7, Zenon DEF CreateRefund, orderVars
<1>8. ASSUME NEW p \in Payments, NEW r \in Rows, ReconcileIncome(r, p) PROVE UNCHANGED state
  BY <1>8, Zenon DEF ReconcileIncome, orderVars
<1>9. ASSUME NEW S \in SUBSET Payments, NEW confirmed \in BOOLEAN, PostBatch(S, confirmed)
      PROVE  UNCHANGED state
  BY <1>9, Zenon DEF PostBatch, orderVars
<1>10. ASSUME NEW r \in Refunds, PostRefund(r) \/ CancelRefund(r) \/ ReverseRefund(r)
       PROVE  UNCHANGED state
  BY <1>10, Zenon DEF PostRefund, CancelRefund, ReverseRefund, orderVars
<1>11. ASSUME NEW r \in Rows, UnreconcileIncome(r) PROVE UNCHANGED state
  BY <1>11, Zenon DEF UnreconcileIncome, orderVars
<1>12. ASSUME UNCHANGED vars PROVE UNCHANGED state
  BY <1>12, Zenon DEF vars, orderVars
<1> QED BY <1>1, <1>2, <1>3, <1>4, <1>5, <1>6, <1>7, <1>8, <1>9, <1>10, <1>11, <1>12, Zenon DEF Next

\* Cancelling an order, whatever resolution was chosen for each of its payments
\* and however much of them credit applications, corrections and refunds had
\* moved before, leaves none of them pending on it or applied to it.
THEOREM CancellationSettled == Spec => CancellationSettles
<1> DEFINE Settled(o) ==
      /\ \A p \in Of(o, Active) : pay'[p].status # "PENDING_CONFIRMATION" \/ pay'[p].order # o
      /\ \A p \in Of(o, {"POSTED"}) : net'[p][o] <= 0
<1>1. ASSUME MoneyInv, [Next]_vars, NEW o \in Orders, state[o] = "OPEN", state'[o] = "CANCELLED"
      PROVE  Settled(o)
  <2>1. CancelOrder(o)
    BY <1>1, OnlyCancellationCloses
  <2> QED BY <1>1, <2>1, CancelOrderPreserves
<1>2. MoneyInv /\ [Next]_vars
        => [\A o \in Orders : state[o] = "OPEN" /\ state'[o] = "CANCELLED" => Settled(o)]_vars
  BY <1>1
<1> QED BY <1>2, MoneyInvariant, PTL DEF Spec, CancellationSettles

-----------------------------------------------------------------------------
(* Every cent of a posted payment.                                         *)

\* What each refund that is open holds of payment p.
Held(p) == [r \in Refunds |->
  IF refund[r].pay = p /\ refund[r].status \in Open THEN refund[r].amount ELSE 0]

Balance(p) == SumOver(Orders, net[p]) + credit[p] + SumOver(Refunds, Held(p))

\* Before a payment is posted nothing of it is applied.
NothingApplied ==
  \A p \in Payments : pay[p].status \in {"ABSENT", "PENDING_CONFIRMATION"} =>
    \A o \in Orders : net[p][o] = 0

Balanced == \A p \in Payments : pay[p].status = "POSTED" => pay[p].amount = Balance(p)

CentInv == NothingApplied /\ Balanced

\* Sums are over finite sets.
LEMMA Finite == /\ IsFiniteSet(Orders) /\ IsFiniteSet(Payments)
                /\ IsFiniteSet(Refunds) /\ IsFiniteSet(Rows)
  BY IncomeAssumption

\* What is applied to one order alone changed.
LEMMA AppliedMoves ==
  ASSUME NEW f \in [Orders -> Int], NEW g \in [Orders -> Int], NEW o \in Orders,
         \A x \in Orders \ {o} : g[x] = f[x]
  PROVE  SumOver(Orders, g) = SumOver(Orders, f) - f[o] + g[o]
  BY Finite, SumUpdate

\* What refunds hold of a payment are amounts.
LEMMA HeldNat ==
  ASSUME TypeOK, NEW p \in Payments
  PROVE  Held(p) \in [Refunds -> Nat]
  BY DEF TypeOK, Held

\* The three parts of a payment's balance are numbers.
LEMMA BalanceInts ==
  ASSUME TypeOK, NEW p \in Payments
  PROVE  /\ SumOver(Orders, net[p]) \in Int /\ credit[p] \in Int
         /\ SumOver(Refunds, Held(p)) \in Nat
<1>1. SumOver(Orders, net[p]) \in Int /\ credit[p] \in Int
  BY Finite, SumInt DEF TypeOK
<1>2. SumOver(Refunds, Held(p)) \in Nat
  BY Finite, HeldNat, SumNat
<1> QED BY <1>1, <1>2

\* The sum over the refunds of a payment, as the property writes it.
LEMMA HeldIsRefunds ==
  ASSUME TypeOK, NEW p \in Payments
  PROVE  SumOver(RefundsOf(p), [r \in RefundsOf(p) |-> refund[r].amount])
           = SumOver(Refunds, Held(p))
<1> DEFINE R == RefundsOf(p)
           f == [r \in R |-> refund[r].amount]
<1>1. R \in SUBSET Refunds
  BY DEF RefundsOf
<1>2. \A r \in R : f[r] \in Int /\ Held(p)[r] = f[r]
  BY DEF RefundsOf, Held, TypeOK
<1>3. \A r \in Refunds \ R : Held(p)[r] = 0
  BY DEF RefundsOf, Held
<1> HIDE DEF R, f
<1>4. SumOver(Refunds, Held(p)) = SumOver(R, f)
  BY <1>1, <1>2, <1>3, Finite, SumWhere
<1> QED BY <1>4 DEF R, f

\* A balanced payment is conserved: the sums of the two are the same.
LEMMA BalancedIsConserved == ASSUME TypeOK, Balanced PROVE PaymentConserved
  BY HeldIsRefunds DEF Balanced, PaymentConserved, Posted, Balance

\* No payment is out of balance before there is one.
LEMMA InitConserves == Init => CentInv
<1> SUFFICES ASSUME Init PROVE CentInv
  OBVIOUS
<1> QED BY DEF Init, CentInv, NothingApplied, Balanced

\* A step that moves no money keeps every payment's balance.
LEMMA NoMove ==
  ASSUME CentInv, UNCHANGED <<net, credit>>, \A p \in Payments : Held(p)' = Held(p),
         \A p \in Payments :
           /\ pay'[p].status = "POSTED" => pay[p].status = "POSTED" /\ pay'[p].amount = pay[p].amount
           /\ pay'[p].status \in {"ABSENT", "PENDING_CONFIRMATION"}
                => pay[p].status \in {"ABSENT", "PENDING_CONFIRMATION"}
  PROVE  CentInv'
<1>1. \A p \in Payments : Balance(p)' = Balance(p)
  BY DEF Balance
<1>2. Balanced'
  BY <1>1 DEF CentInv, Balanced
<1>3. NothingApplied'
  BY DEF CentInv, NothingApplied
<1> QED BY <1>2, <1>3 DEF CentInv

\* What is done to pending payments changes no posted one.
LEMMA PendingKeepsCents ==
  ASSUME MoneyInv, CentInv,
         \/ \E o \in Orders : SaveOrder(o)
         \/ \E p \in Payments :
              \/ UpdatePending(p) \/ Reenter(p)
              \/ CancelOrReverse(p) /\ pay[p].status = "PENDING_CONFIRMATION"
              \/ \E o \in Orders : TransferPending(p, o)
  PROVE  CentInv'
<1> USE DEF orderVars, moneyVars, refundVars, bankVars
<1> DEFINE Quiet ==
      /\ UNCHANGED <<net, credit, refund>>
      /\ \A p \in Payments :
           /\ pay'[p].status = "POSTED" => pay[p].status = "POSTED" /\ pay'[p].amount = pay[p].amount
           /\ pay'[p].status \in {"ABSENT", "PENDING_CONFIRMATION"}
                => pay[p].status \in {"ABSENT", "PENDING_CONFIRMATION"}
<1>0. pay \in [Payments -> PaymentType]
  BY DEF MoneyInv, TypeOK, PaymentType
<1>1. ASSUME NEW o \in Orders, SaveOrder(o) PROVE Quiet
  BY <1>0, <1>1 DEF SaveOrder, Of
<1>2. ASSUME NEW p \in Payments, UpdatePending(p) PROVE Quiet
  BY <1>0, <1>2 DEF UpdatePending, PaymentType
<1>3. ASSUME NEW p \in Payments, Reenter(p) PROVE Quiet
  BY <1>0, <1>3 DEF Reenter
<1>4. ASSUME NEW p \in Payments, CancelOrReverse(p), pay[p].status = "PENDING_CONFIRMATION"
      PROVE  Quiet
  BY <1>0, <1>4 DEF CancelOrReverse, PaymentType
<1>5. ASSUME NEW p \in Payments, NEW o \in Orders, TransferPending(p, o) PROVE Quiet
  BY <1>0, <1>5 DEF TransferPending, PaymentType
<1>6. Quiet
  BY <1>1, <1>2, <1>3, <1>4, <1>5
<1>7. \A p \in Payments : Held(p)' = Held(p)
  BY <1>6 DEF Held
<1> QED BY <1>6, <1>7, NoMove

\* Reading, refusing, paying a refund out and the bank's rows move no cent.
LEMMA OthersKeepCents ==
  ASSUME MoneyInv, CentInv,
         \/ (\E o \in Orders : ApplyRead(o)) \/ ApplyRejected \/ CreateBankStatementLine
         \/ \E r \in Rows : UnreconcileIncome(r) \/ \E p \in Payments : ReconcileIncome(r, p)
         \/ \E r \in Refunds : PostRefund(r)
         \/ UNCHANGED vars
  PROVE  CentInv'
<1> USE DEF vars, orderVars, moneyVars, refundVars, bankVars
<1>1. UNCHANGED <<pay, net, credit>>
  BY Zenon DEF ApplyRead, ApplyRejected, CreateBankStatementLine, UnreconcileIncome, ReconcileIncome,
               PostRefund
<1>2. ASSUME NEW p \in Payments PROVE Held(p)' = Held(p)
  <2>1. ASSUME NEW r \in Refunds, PostRefund(r) PROVE Held(p)' = Held(p)
    <3>1. /\ refund \in [Refunds -> RefundType] /\ refund[r].status = "PENDING"
          /\ refund' = [refund EXCEPT ![r].status = "POSTED"]
      BY <2>1 DEF PostRefund, MoneyInv, TypeOK, RefundType
    <3> QED BY <3>1 DEF Held, Open, RefundType
  <2>2. CASE UNCHANGED refund
    BY <2>2 DEF Held
  <2> QED BY <2>1, <2>2 DEF ApplyRead, ApplyRejected, CreateBankStatementLine, UnreconcileIncome,
                            ReconcileIncome
<1> QED BY <1>1, <1>2, NoMove

\* A refund holds what leaves the credit.
LEMMA CreateRefundKeepsCents ==
  ASSUME MoneyInv, MoneyInv', CentInv, NEW r \in Refunds, NEW q \in Payments, CreateRefund(r, q)
  PROVE  CentInv'
<1>1. /\ UNCHANGED <<pay, net>> /\ refund[r].status = "ABSENT"
      /\ refund \in [Refunds -> RefundType] /\ TypeOK /\ TypeOK'
  BY DEF CreateRefund, MoneyInv, TypeOK, RefundType
<1>2. PICK a \in Amounts :
        /\ refund' = [refund EXCEPT ![r] = [status |-> "PENDING", pay |-> q, amount |-> a]]
        /\ credit' = [credit EXCEPT ![q] = @ - a]
  BY DEF CreateRefund
<1>3. a \in Nat
  BY AmountsNat
<1>4. ASSUME NEW p \in Payments PROVE Balance(p)' = Balance(p)
  <2>1. CASE p # q
    <3>1. Held(p)' = Held(p)
      BY <1>1, <1>2, <2>1 DEF Held, Open
    <3> QED BY <1>1, <1>2, <2>1, <3>1 DEF Balance, TypeOK
  <2>2. CASE p = q
    <3> DEFINE before == Held(p)
               after == Held(p)'
    <3>1. before \in [Refunds -> Nat] /\ after \in [Refunds -> Nat]
      <4>1. before \in [Refunds -> Nat]
        BY <1>1, HeldNat
      <4>2. after \in [Refunds -> Nat]
        BY <1>1 DEF TypeOK, Held
      <4> QED BY <4>1, <4>2
    <3>2. before[r] = 0 /\ after[r] = a /\ \A s \in Refunds \ {r} : after[s] = before[s]
      BY <1>1, <1>2, <2>2 DEF Held, Open
    <3> HIDE DEF before, after
    <3>3. SumOver(Refunds, after) = SumOver(Refunds, before) - 0 + a
      BY <3>1, <3>2, Finite, SumUpdate
    <3>4. credit'[p] = credit[p] - a
      BY <1>1, <1>2, <2>2 DEF TypeOK
    <3>5. /\ SumOver(Orders, net[p]) \in Int /\ credit[p] \in Int
          /\ SumOver(Refunds, before) \in Nat
      BY <1>1, BalanceInts DEF before
    <3>6. Balance(p) = SumOver(Orders, net[p]) + credit[p] + SumOver(Refunds, before)
      BY DEF Balance, before
    <3>7. Balance(p)' = SumOver(Orders, net[p]) + credit'[p] + SumOver(Refunds, after)
      BY <1>1 DEF Balance, after
    <3> QED BY <1>3, <3>3, <3>4, <3>5, <3>6, <3>7
  <2> QED BY <2>1, <2>2
<1> QED BY <1>1, <1>4 DEF CentInv, NothingApplied, Balanced

\* A refund that is cancelled or reversed gives back to the credit what it held.
LEMMA ReturnKeepsCents ==
  ASSUME MoneyInv, MoneyInv', CentInv, NEW r \in Refunds, CancelRefund(r) \/ ReverseRefund(r)
  PROVE  CentInv'
<1> DEFINE q == refund[r].pay
           a == refund[r].amount
<1>1. /\ UNCHANGED <<pay, net>> /\ refund[r].status \in Open
      /\ refund \in [Refunds -> RefundType] /\ TypeOK /\ TypeOK'
      /\ credit' = [credit EXCEPT ![q] = @ + a]
  BY DEF CancelRefund, ReverseRefund, GivesBack, Open, MoneyInv, TypeOK, RefundType
<1>2. PICK s \in {"CANCELLED", "REVERSED"} : refund' = [refund EXCEPT ![r].status = s]
  BY DEF CancelRefund, ReverseRefund
<1>3. a \in Nat /\ q \in Payments
  BY <1>1 DEF RefundType, MoneyInv, RefundsNamed, Open
<1>4. refund'[r].status \notin Open /\ \A x \in Refunds \ {r} : refund'[x] = refund[x]
  BY <1>1, <1>2 DEF Open, RefundType
<1> HIDE DEF q
<1>5. ASSUME NEW p \in Payments PROVE Balance(p)' = Balance(p)
  <2>1. CASE p # q
    <3>1. \A x \in Refunds : Held(p)'[x] = Held(p)[x]
      BY <1>1, <1>4, <2>1 DEF Held, q
    <3>2. Held(p)' = Held(p)
      BY <3>1 DEF Held
    <3> QED BY <1>1, <2>1, <3>2 DEF Balance, TypeOK
  <2>2. CASE p = q
    <3> DEFINE before == Held(p)
               after == Held(p)'
    <3>1. before \in [Refunds -> Nat] /\ after \in [Refunds -> Nat]
      <4>1. before \in [Refunds -> Nat]
        BY <1>1, HeldNat
      <4>2. after \in [Refunds -> Nat]
        BY <1>1 DEF TypeOK, Held
      <4> QED BY <4>1, <4>2
    <3>2. before[r] = a /\ after[r] = 0 /\ \A x \in Refunds \ {r} : after[x] = before[x]
      BY <1>1, <1>4, <2>2 DEF Held, q
    <3> HIDE DEF before, after, a
    <3>3. SumOver(Refunds, after) = SumOver(Refunds, before) - a + 0
      BY <3>1, <3>2, Finite, SumUpdate
    <3>4. credit'[p] = credit[p] + a
      BY <1>1, <2>2 DEF TypeOK
    <3>5. /\ SumOver(Orders, net[p]) \in Int /\ credit[p] \in Int
          /\ SumOver(Refunds, before) \in Nat
      BY <1>1, BalanceInts DEF before
    <3>6. Balance(p) = SumOver(Orders, net[p]) + credit[p] + SumOver(Refunds, before)
      BY DEF Balance, before
    <3>7. Balance(p)' = SumOver(Orders, net[p]) + credit'[p] + SumOver(Refunds, after)
      BY <1>1 DEF Balance, after
    <3> QED BY <1>3, <3>3, <3>4, <3>5, <3>6, <3>7
  <2> QED BY <2>1, <2>2
<1> QED BY <1>1, <1>5 DEF CentInv, NothingApplied, Balanced

\* A payment that was worth nothing to anybody is worth its amount once it is posted.
LEMMA PostedBalance ==
  ASSUME MoneyInv, MoneyInv', NothingApplied, NEW p \in Payments, NEW o \in Orders,
         pay[p].status \in {"ABSENT", "PENDING_CONFIRMATION"}, UNCHANGED refund,
         NEW a \in Nat, NEW applied \in 0 .. a,
         net'[p] = [net[p] EXCEPT ![o] = @ + applied], credit'[p] = credit[p] + (a - applied)
  PROVE  Balance(p)' = a
<1>1. net[p] \in [Orders -> Int] /\ credit[p] = 0 /\ \A x \in Orders : net[p][x] = 0
  BY DEF MoneyInv, TypeOK, ClosedHoldsNothing, NothingApplied
<1>2. net'[p] \in [Orders -> Int] /\ net'[p][o] = applied
      /\ \A x \in Orders \ {o} : net'[p][x] = net[p][x]
  BY <1>1
<1>3. SumOver(Orders, net'[p]) = SumOver(Orders, net[p]) - 0 + applied
  BY <1>1, <1>2, Finite, SumUpdate
<1>4. SumOver(Orders, net[p]) = 0
  BY <1>1, Finite, SumZero
<1>5. SumOver(Refunds, Held(p)') = 0
  <2>1. \A r \in Refunds : Held(p)'[r] = 0
    BY DEF MoneyInv, ClosedHoldsNothing, RefundsOf, Held
  <2> QED BY <2>1, Finite, SumZero
<1> QED BY <1>1, <1>3, <1>4, <1>5 DEF Balance

\* What a posted payment cannot apply becomes credit.
LEMMA PostBatchKeepsCents ==
  ASSUME MoneyInv, MoneyInv', CentInv, NEW S \in SUBSET Payments, NEW confirmed \in BOOLEAN,
         PostBatch(S, confirmed)
  PROVE  CentInv'
<1> USE DEF refundVars
<1> DEFINE applied == [p \in S |-> AppliedInBatch(S, p)]
<1>0. /\ \A p \in S : pay[p].status = "PENDING_CONFIRMATION"
      /\ pay' = [p \in Payments |-> IF p \in S THEN [pay[p] EXCEPT !.status = "POSTED"] ELSE pay[p]]
      /\ net' = [p \in Payments |-> IF p \in S
                   THEN [net[p] EXCEPT ![pay[p].order] = @ + applied[p]] ELSE net[p]]
      /\ credit' = [p \in Payments |-> IF p \in S
                   THEN credit[p] + (pay[p].amount - applied[p]) ELSE credit[p]]
      /\ UNCHANGED refund
  BY Zenon DEF PostBatch
<1>1. \A p \in S : pay[p].amount \in Nat /\ applied[p] \in 0 .. pay[p].amount
  <2> TAKE p \in S
  <2>1. pay[p].amount \in Nat
    BY DEF MoneyInv, TypeOK
  <2> QED BY <2>1, ClampInRange DEF AppliedInBatch
<1> HIDE DEF applied
<1>2. \A p \in S : pay[p].order \in Orders
  BY <1>0 DEF MoneyInv, TypeOK
<1>3. \A p \in S : pay'[p].status = "POSTED" /\ pay'[p].amount = pay[p].amount
  <2> TAKE p \in S
  <2>1. pay[p] \in PaymentType /\ pay'[p] = [pay[p] EXCEPT !.status = "POSTED"]
    BY <1>0 DEF MoneyInv, TypeOK, PaymentType
  <2> QED BY <2>1, WithStatus DEF PaymentStatuses
<1>4. \A p \in Payments \ S : pay'[p] = pay[p] /\ net'[p] = net[p] /\ credit'[p] = credit[p]
  BY <1>0
<1>5. ASSUME NEW p \in S PROVE Balance(p)' = pay[p].amount
  <2>1. /\ net'[p] = [net[p] EXCEPT ![pay[p].order] = @ + applied[p]]
        /\ credit'[p] = credit[p] + (pay[p].amount - applied[p])
    BY <1>0
  <2> QED BY <1>0, <1>1, <1>2, <2>1, PostedBalance DEF CentInv
<1>6. ASSUME NEW p \in Payments \ S PROVE Balance(p)' = Balance(p)
  <2>1. Held(p)' = Held(p)
    BY <1>0 DEF Held
  <2> QED BY <1>4, <2>1 DEF Balance
<1>7. Balanced'
  BY <1>3, <1>4, <1>5, <1>6 DEF CentInv, Balanced
<1>8. NothingApplied'
  BY <1>3, <1>4 DEF CentInv, NothingApplied
<1> QED BY <1>7, <1>8 DEF CentInv

\* A reversed payment is posted no more and need not add up; the others are as they were.
LEMMA ReverseKeepsCents ==
  ASSUME MoneyInv, MoneyInv', CentInv, NEW p \in Payments, CancelOrReverse(p),
         pay[p].status # "PENDING_CONFIRMATION"
  PROVE  CentInv'
<1> USE DEF refundVars
<1>1. /\ pay' = [pay EXCEPT ![p].status = "REVERSED"]
      /\ net' = [net EXCEPT ![p] = [o \in Orders |-> net[p][o] - positive[p][o]]]
      /\ UNCHANGED <<credit, refund>>
  BY Zenon DEF CancelOrReverse, ReverseInto
<1>2. pay'[p].status = "REVERSED"
  <2>1. pay[p] \in PaymentType /\ pay'[p] = [pay[p] EXCEPT !.status = "REVERSED"]
    BY <1>1 DEF MoneyInv, TypeOK, PaymentType
  <2> QED BY <2>1, WithStatus DEF PaymentStatuses
<1>3. \A x \in Payments \ {p} : pay'[x] = pay[x] /\ net'[x] = net[x]
  BY <1>1 DEF MoneyInv, TypeOK
<1>4. ASSUME NEW x \in Payments \ {p} PROVE Balance(x)' = Balance(x)
  <2>1. Held(x)' = Held(x)
    BY <1>1 DEF Held
  <2> QED BY <1>1, <1>3, <2>1 DEF Balance
<1>5. Balanced'
  BY <1>2, <1>3, <1>4 DEF CentInv, Balanced
<1>6. NothingApplied'
  BY <1>2, <1>3 DEF CentInv, NothingApplied
<1> QED BY <1>5, <1>6 DEF CentInv

\* The payment that replaces a corrected one is applied, or credit, to its amount.
LEMMA CorrectPostedKeepsCents ==
  ASSUME MoneyInv, MoneyInv', CentInv, NEW p \in Payments, CorrectPosted(p)
  PROVE  CentInv'
<1> USE DEF refundVars
<1> DEFINE o == pay[p].order
           applied(a) == Clamp(a, total[o] - AmountOf(Of(o, Active) \ {p}))
<1>0. pay[p].status = "POSTED" /\ UNCHANGED refund
  BY Zenon DEF CorrectPosted
<1>1. PICK q \in Payments, a \in Amounts :
        /\ pay[q].status = "ABSENT"
        /\ pay' = [pay EXCEPT ![p].status = "REVERSED",
                              ![q] = [status |-> "POSTED", order |-> o, amount |-> a]]
        /\ net' = [net EXCEPT ![p] = [x \in Orders |-> net[p][x] - positive[p][x]],
                              ![q][o] = @ + applied(a)]
        /\ credit' = [credit EXCEPT ![q] = @ + (a - applied(a))]
  BY DEF CorrectPosted
<1>2. a \in Nat /\ applied(a) \in 0 .. a
  BY AmountsNat, ClampInRange
<1>3. o \in Orders /\ p # q /\ pay[p] \in PaymentType
  BY <1>0, <1>1 DEF MoneyInv, TypeOK, PaymentType
<1> HIDE DEF applied, o
<1>4. /\ pay \in [Payments -> PaymentType] /\ net \in [Payments -> [Orders -> Int]]
      /\ credit \in [Payments -> Int]
  BY DEF MoneyInv, TypeOK, PaymentType
<1>5. /\ net'[q] = [net[q] EXCEPT ![o] = @ + applied(a)]
      /\ credit'[q] = credit[q] + (a - applied(a))
      /\ pay'[q].status = "POSTED" /\ pay'[q].amount = a
  BY <1>1, <1>3, <1>4
<1>6. pay'[p].status = "REVERSED"
  <2>1. pay'[p] = [pay[p] EXCEPT !.status = "REVERSED"]
    BY <1>1, <1>3, <1>4
  <2> QED BY <1>3, <2>1, WithStatus DEF PaymentStatuses
<1>7. \A x \in Payments \ {p, q} : pay'[x] = pay[x] /\ net'[x] = net[x] /\ credit'[x] = credit[x]
  BY <1>1, <1>4
<1>8. Balance(q)' = a
  BY <1>0, <1>1, <1>2, <1>3, <1>5, PostedBalance DEF CentInv
<1>9. ASSUME NEW x \in Payments \ {p, q} PROVE Balance(x)' = Balance(x)
  <2>1. Held(x)' = Held(x)
    BY <1>0 DEF Held
  <2> QED BY <1>7, <2>1 DEF Balance
<1>10. Balanced'
  BY <1>5, <1>6, <1>7, <1>8, <1>9 DEF CentInv, Balanced
<1>11. NothingApplied'
  BY <1>5, <1>6, <1>7 DEF CentInv, NothingApplied
<1> QED BY <1>10, <1>11 DEF CentInv

\* What is applied to an order leaves the credit, cent by cent.
LEMMA ApplyKeepsCents ==
  ASSUME MoneyInv, MoneyInv', CentInv, ApplyCredit
  PROVE  CentInv'
<1> USE DEF refundVars
<1> DEFINE o == applying.order
<1>1. applying # Idle /\ UNCHANGED <<pay, refund>>
  BY DEF ApplyCredit
<1>2. PICK use \in [Payments -> 0 .. applying.amount] :
        /\ \A p \in Payments :
             use[p] <= (IF pay[p].status = "POSTED" THEN AtLeastZero(credit[p]) ELSE 0)
        /\ credit' = [p \in Payments |-> credit[p] - use[p]]
        /\ net' = [p \in Payments |-> [net[p] EXCEPT ![o] = @ + use[p]]]
  BY Zenon DEF ApplyCredit, Spends
<1>3. o \in Orders /\ \A p \in Payments : use[p] \in Nat
  BY <1>1 DEF MoneyInv, TypeOK
<1> HIDE DEF o
<1>4. ASSUME NEW p \in Payments PROVE Balance(p)' = Balance(p)
  <2>1. Held(p)' = Held(p)
    BY <1>1 DEF Held
  <2>2. net[p] \in [Orders -> Int] /\ credit[p] \in Int /\ use[p] \in Nat
    BY <1>3 DEF MoneyInv, TypeOK
  <2>3. net'[p] = [net[p] EXCEPT ![o] = @ + use[p]] /\ credit'[p] = credit[p] - use[p]
    BY <1>2
  <2>4. SumOver(Orders, net'[p]) = SumOver(Orders, net[p]) - net[p][o] + (net[p][o] + use[p])
    <3>1. /\ net'[p] \in [Orders -> Int] /\ net'[p][o] = net[p][o] + use[p]
          /\ \A x \in Orders \ {o} : net'[p][x] = net[p][x]
      BY <1>3, <2>2, <2>3
    <3> QED BY <1>3, <2>2, <3>1, AppliedMoves
  <2>5. SumOver(Orders, net[p]) \in Int /\ SumOver(Refunds, Held(p)) \in Nat /\ net[p][o] \in Int
    BY <1>3, <2>2, BalanceInts DEF MoneyInv
  <2> QED BY <2>1, <2>2, <2>3, <2>4, <2>5 DEF Balance
<1>5. ASSUME NEW p \in Payments, pay[p].status # "POSTED" PROVE net'[p] = net[p]
  <2>1. use[p] = 0 /\ net[p] \in [Orders -> Int]
    BY <1>2, <1>3, <1>5 DEF MoneyInv, TypeOK
  <2> QED BY <1>2, <1>3, <2>1
<1>6. NothingApplied'
  BY <1>1, <1>5 DEF CentInv, NothingApplied
<1> QED BY <1>1, <1>4, <1>6 DEF CentInv, Balanced

\* What a smaller total takes off an order becomes credit.
LEMMA CorrectTotalKeepsCents ==
  ASSUME MoneyInv, MoneyInv', CentInv, NEW o \in Orders, CorrectTotal(o)
  PROVE  CentInv'
<1> USE DEF refundVars
<1> DEFINE own == Of(o, {"POSTED"})
<1>1. UNCHANGED <<pay, refund>>
  BY Zenon DEF CorrectTotal
<1>2. PICK t \in Totals, rel \in [own -> Amounts \cup {0}] :
        /\ net' = [p \in Payments |->
             IF p \in own THEN [net[p] EXCEPT ![o] = @ - rel[p]] ELSE net[p]]
        /\ credit' = [p \in Payments |-> IF p \in own THEN credit[p] + rel[p] ELSE credit[p]]
  BY Zenon DEF CorrectTotal
<1>3. \A p \in own : p \in Payments /\ pay[p].status = "POSTED" /\ rel[p] \in Nat
  <2>1. \A p \in own : p \in Payments /\ pay[p].status = "POSTED"
    BY DEF Of
  <2>2. \A p \in own : rel[p] \in Amounts \cup {0}
    BY <1>2, Zenon
  <2>3. Amounts \cup {0} \subseteq Nat
    BY AmountsNat
  <2> QED BY <2>1, <2>2, <2>3, Zenon
<1> HIDE DEF own
<1>4. ASSUME NEW p \in Payments PROVE Balance(p)' = Balance(p)
  <2>1. Held(p)' = Held(p)
    BY <1>1 DEF Held
  <2>2. net[p] \in [Orders -> Int] /\ credit[p] \in Int
    BY DEF MoneyInv, TypeOK
  <2>3. CASE p \notin own
    BY <1>2, <2>1, <2>3 DEF Balance
  <2>4. CASE p \in own
    <3>1. net'[p] = [net[p] EXCEPT ![o] = @ - rel[p]] /\ credit'[p] = credit[p] + rel[p]
      BY <1>2, <2>4
    <3>2. SumOver(Orders, net'[p]) = SumOver(Orders, net[p]) - net[p][o] + (net[p][o] - rel[p])
      <4>1. /\ net'[p] \in [Orders -> Int] /\ net'[p][o] = net[p][o] - rel[p]
            /\ \A x \in Orders \ {o} : net'[p][x] = net[p][x]
        BY <1>3, <2>2, <2>4, <3>1
      <4> QED BY <2>2, <4>1, AppliedMoves
    <3>3. SumOver(Orders, net[p]) \in Int /\ SumOver(Refunds, Held(p)) \in Nat /\ net[p][o] \in Int
      BY <2>2, BalanceInts DEF MoneyInv
    <3> QED BY <1>3, <2>1, <2>2, <2>4, <3>1, <3>2, <3>3 DEF Balance
  <2> QED BY <2>3, <2>4
<1>5. NothingApplied'
  BY <1>1, <1>2, <1>3 DEF CentInv, NothingApplied
<1> QED BY <1>1, <1>4, <1>5 DEF CentInv, Balanced

\* What a cancelled order frees goes to the credit, to another order or to a refund.
LEMMA CancelOrderKeepsCents ==
  ASSUME MoneyInv, MoneyInv', CentInv, NEW o \in Orders, CancelOrder(o)
  PROVE  CentInv'
<1> DEFINE pending == Of(o, {"PENDING_CONFIRMATION"})
           posted == Of(o, {"POSTED"})
           own == Of(o, Active)
<1>1. PICK res \in Resolutions(o) :
        /\ Valid(o, res)
        /\ pay' = [p \in Payments |->
             CASE p \in pending /\ res.to[p] = None -> [pay[p] EXCEPT !.status = "CANCELLED"]
               [] p \in pending /\ res.to[p] # None -> [pay[p] EXCEPT !.order = res.to[p]]
               [] OTHER -> pay[p]]
        /\ net' = [p \in Payments |-> [x \in Orders |->
             CASE p \in posted /\ x = o -> net[p][x] - Freed(o, p)
               [] p \in posted /\ x = res.to[p] -> net[p][x] + res.part[p]
               [] OTHER -> net[p][x]]]
        /\ credit' = [p \in Payments |->
             IF p \in posted THEN credit[p] + Freed(o, p) - res.part[p] ELSE credit[p]]
        /\ refund' = [r \in Refunds |->
             IF \E p \in posted : res.by[p] = r
             THEN LET p == CHOOSE p \in posted : res.by[p] = r
                  IN [status |-> "PENDING", pay |-> p, amount |-> res.part[p]]
             ELSE refund[r]]
  BY Zenon DEF CancelOrder
<1>2. /\ posted \subseteq own /\ own \subseteq Payments /\ pending \cap posted = {}
      /\ \A p \in pending : pay[p].status = "PENDING_CONFIRMATION"
      /\ \A p \in posted : pay[p].status = "POSTED"
  BY DEF Of, Active
<1>3. \A p \in own : /\ res.to[p] \in (Orders \ {o}) \cup {None}
                     /\ res.by[p] \in Refunds \cup {None}
                     /\ res.part[p] \in Nat
  <2>1. res \in [to : [own -> (Orders \ {o}) \cup {None}], by : [own -> Refunds \cup {None}],
                 part : [own -> Amounts \cup {0}]]
    BY <1>1, Zenon DEF Resolutions
  <2> HIDE DEF own
  <2>2. /\ res.to \in [own -> (Orders \ {o}) \cup {None}] /\ res.by \in [own -> Refunds \cup {None}]
        /\ res.part \in [own -> Amounts \cup {0}]
    BY <2>1
  <2>3. \A p \in own : res.to[p] \in (Orders \ {o}) \cup {None} /\ res.by[p] \in Refunds \cup {None}
    BY <2>2, Zenon
  <2>4. \A p \in own : res.part[p] \in Amounts \cup {0}
    BY <2>2, Zenon
  <2>5. Amounts \cup {0} \subseteq Nat
    BY AmountsNat
  <2> QED BY <2>3, <2>4, <2>5, Zenon
<1>4. \A p \in posted : /\ res.to[p] = None \/ res.by[p] = None
                        /\ res.to[p] = None /\ res.by[p] = None => res.part[p] = 0
                        /\ res.by[p] # None => refund[res.by[p]].status = "ABSENT"
                        /\ \A q \in posted : p # q /\ res.by[p] # None => res.by[p] # res.by[q]
  BY <1>1, <1>2 DEF Valid
<1> HIDE DEF pending, posted, own
<1>5. \A r \in Refunds :
        \/ refund'[r] = refund[r] /\ \A p \in posted : res.by[p] # r
        \/ \E p \in posted : /\ res.by[p] = r /\ refund[r].status = "ABSENT"
                             /\ refund'[r] = [status |-> "PENDING", pay |-> p, amount |-> res.part[p]]
  <2> SUFFICES ASSUME NEW r \in Refunds, \E p \in posted : res.by[p] = r
               PROVE  \E p \in posted :
                        /\ res.by[p] = r /\ refund[r].status = "ABSENT"
                        /\ refund'[r] = [status |-> "PENDING", pay |-> p, amount |-> res.part[p]]
    BY <1>1
  <2> DEFINE q == CHOOSE p \in posted : res.by[p] = r
  <2>1. q \in posted /\ res.by[q] = r
    OBVIOUS
  <2>2. refund'[r] = [status |-> "PENDING", pay |-> q, amount |-> res.part[q]]
    BY <1>1
  <2> HIDE DEF q
  <2> QED BY <1>4, <2>1, <2>2, IncomeAssumption
<1>6. \A p \in Payments : /\ Held(p) \in [Refunds -> Nat] /\ Held(p)' \in [Refunds -> Nat]
                          /\ net[p] \in [Orders -> Int] /\ net'[p] \in [Orders -> Int]
                          /\ credit[p] \in Int /\ SumOver(Orders, net[p]) \in Int
                          /\ SumOver(Refunds, Held(p)) \in Nat
  <2> TAKE p \in Payments
  <2>1. Held(p) \in [Refunds -> Nat] /\ Held(p)' \in [Refunds -> Nat]
    <3>1. Held(p) \in [Refunds -> Nat]
      BY HeldNat DEF MoneyInv
    <3>2. Held(p)' \in [Refunds -> Nat]
      BY DEF MoneyInv, TypeOK, Held
    <3> QED BY <3>1, <3>2
  <2>2. net[p] \in [Orders -> Int] /\ net'[p] \in [Orders -> Int]
    BY DEF MoneyInv, TypeOK
  <2> QED BY <2>1, <2>2, BalanceInts DEF MoneyInv
<1>7. \A p \in Payments, r \in Refunds :
        p \notin posted \/ res.by[p] # r => Held(p)'[r] = Held(p)[r]
  <2> SUFFICES ASSUME NEW p \in Payments, NEW r \in Refunds, p \notin posted \/ res.by[p] # r
               PROVE  Held(p)'[r] = Held(p)[r]
    OBVIOUS
  <2>1. CASE refund'[r] = refund[r]
    BY <2>1 DEF Held
  <2>2. CASE refund[r].status = "ABSENT" /\ refund'[r].pay # p
    BY <2>2 DEF Held, Open
  <2>3. ASSUME NEW q \in posted, res.by[q] = r,
               refund'[r] = [status |-> "PENDING", pay |-> q, amount |-> res.part[q]]
        PROVE  refund'[r].pay # p
    BY <2>3
  <2> QED BY <1>5, <2>1, <2>2, <2>3
<1>8. ASSUME NEW p \in Payments \ posted PROVE Balance(p)' = Balance(p) /\ net'[p] = net[p]
  <2>1. net'[p] = net[p] /\ credit'[p] = credit[p]
    BY <1>1, <1>6
  <2>2. \A r \in Refunds : Held(p)'[r] = Held(p)[r]
    BY <1>7
  <2>3. Held(p)' = Held(p)
    BY <1>6, <2>2
  <2> QED BY <2>1, <2>3 DEF Balance
<1>9. ASSUME NEW p \in posted PROVE Balance(p)' = Balance(p)
  <2> DEFINE F == Freed(o, p)
             k == res.part[p]
             mid == [net[p] EXCEPT ![o] = @ - F]
  <2>0. p \in Payments /\ p \in own /\ F \in Nat /\ k \in Nat
    BY <1>2, <1>3, FreedNat DEF MoneyInv
  <2>1. credit'[p] = credit[p] + F - k
    BY <1>1, <2>0
  <2>2. net'[p] = [x \in Orders |->
          CASE x = o -> net[p][x] - F [] x = res.to[p] -> net[p][x] + k [] OTHER -> net[p][x]]
    BY <1>1, <2>0
  <2> HIDE DEF F, k
  <2>3. mid \in [Orders -> Int] /\ mid[o] = net[p][o] - F
        /\ \A x \in Orders \ {o} : mid[x] = net[p][x]
    BY <1>6, <2>0
  <2> HIDE DEF mid
  <2>4. SumOver(Orders, mid) = SumOver(Orders, net[p]) - net[p][o] + (net[p][o] - F)
    BY <1>6, <2>0, <2>3, AppliedMoves
  <2>5. SumOver(Orders, net'[p]) = SumOver(Orders, mid) + IF res.to[p] = None THEN 0 ELSE k
    <3>0. SumOver(Orders, mid) \in Int
      BY <2>3, Finite, SumInt
    <3>1. CASE res.to[p] = None
      <4>1. \A x \in Orders : net'[p][x] = mid[x]
        BY <2>2, <2>3, <3>1, IncomeAssumption
      <4>2. SumOver(Orders, net'[p]) = SumOver(Orders, mid)
        BY <4>1, Finite, SumSame
      <4> QED BY <3>0, <3>1, <4>2
    <3>2. CASE res.to[p] # None
      <4> DEFINE t == res.to[p]
      <4>1. t \in Orders /\ t # o
        BY <1>3, <2>0, <3>2
      <4>2. net'[p][t] = mid[t] + k /\ \A x \in Orders \ {t} : net'[p][x] = mid[x]
        BY <2>2, <2>3, <4>1
      <4>3. net'[p] \in [Orders -> Int] /\ mid[t] \in Int
        BY <1>6, <2>0, <2>3, <4>1
      <4> HIDE DEF t
      <4>4. SumOver(Orders, net'[p]) = SumOver(Orders, mid) - mid[t] + net'[p][t]
        BY <2>3, <4>1, <4>2, <4>3, AppliedMoves
      <4> QED BY <2>0, <3>0, <3>2, <4>2, <4>3, <4>4
    <3> QED BY <3>1, <3>2
  <2>6. SumOver(Refunds, Held(p)') = SumOver(Refunds, Held(p)) + IF res.by[p] = None THEN 0 ELSE k
    <3> DEFINE before == Held(p)
               after == Held(p)'
    <3>0. before \in [Refunds -> Nat] /\ after \in [Refunds -> Nat]
          /\ SumOver(Refunds, before) \in Nat
      BY <1>6, <2>0
    <3>1. \A r \in Refunds : res.by[p] # r => after[r] = before[r]
      BY <1>7, <2>0
    <3>2. CASE res.by[p] = None
      <4>1. \A r \in Refunds : after[r] = before[r]
        BY <3>1, <3>2, IncomeAssumption
      <4> HIDE DEF before, after
      <4>2. SumOver(Refunds, after) = SumOver(Refunds, before)
        BY <4>1, Finite, SumSame
      <4> QED BY <3>0, <3>2, <4>2 DEF before, after
    <3>3. CASE res.by[p] # None
      <4> DEFINE r == res.by[p]
      <4>1. r \in Refunds
        BY <1>3, <2>0, <3>3
      <4>2. refund[r].status = "ABSENT" /\ refund'[r].status = "PENDING"
            /\ refund'[r].pay = p /\ refund'[r].amount = k
        <5>1. PICK q \in posted :
                /\ res.by[q] = r /\ refund[r].status = "ABSENT"
                /\ refund'[r] = [status |-> "PENDING", pay |-> q, amount |-> res.part[q]]
          BY <1>5, <4>1
        <5>2. q = p
          BY <1>4, <3>3, <5>1
        <5> QED BY <5>1, <5>2 DEF k
      <4>3. before[r] = 0 /\ after[r] = k
        BY <4>1, <4>2 DEF Held, Open
      <4>4. \A x \in Refunds \ {r} : after[x] = before[x]
        BY <3>1
      <4> HIDE DEF before, after, r
      <4>5. SumOver(Refunds, after) = SumOver(Refunds, before) - 0 + k
        BY <3>0, <4>1, <4>3, <4>4, Finite, SumUpdate
      <4> QED BY <2>0, <3>0, <3>3, <4>5 DEF before, after
    <3> QED BY <3>2, <3>3
  <2>7. (IF res.to[p] = None THEN 0 ELSE k) + (IF res.by[p] = None THEN 0 ELSE k) = k
    BY <1>4, <2>0 DEF k
  <2>8. /\ net[p][o] \in Int /\ credit[p] \in Int /\ SumOver(Orders, net[p]) \in Int
        /\ SumOver(Refunds, Held(p)) \in Nat
    BY <1>6, <2>0
  <2>9. Balance(p)' = SumOver(Orders, net'[p]) + credit'[p] + SumOver(Refunds, Held(p)')
    BY DEF Balance
  <2> QED BY <2>0, <2>1, <2>4, <2>5, <2>6, <2>7, <2>8, <2>9 DEF Balance
<1>10. \A p \in Payments :
        /\ pay'[p].status = "POSTED" => pay[p].status = "POSTED" /\ pay'[p].amount = pay[p].amount
        /\ pay'[p].status \in {"ABSENT", "PENDING_CONFIRMATION"}
             => pay[p].status \in {"ABSENT", "PENDING_CONFIRMATION"} /\ p \notin posted
  <2> TAKE p \in Payments
  <2>1. pay[p] \in PaymentType
    BY DEF MoneyInv, TypeOK, PaymentType
  <2>2. CASE p \in pending /\ res.to[p] = None
    <3>1. pay'[p] = [pay[p] EXCEPT !.status = "CANCELLED"]
      BY <1>1, <2>2
    <3> QED BY <2>1, <3>1, WithStatus DEF PaymentStatuses
  <2>3. CASE p \in pending /\ res.to[p] # None
    <3>1. pay'[p] = [pay[p] EXCEPT !.order = res.to[p]]
      BY <1>1, <2>3
    <3> QED BY <1>2, <2>1, <2>3, <3>1 DEF PaymentType
  <2>4. CASE p \notin pending
    BY <1>1, <1>2, <2>4
  <2> QED BY <2>2, <2>3, <2>4
<1>11. Balanced'
  BY <1>8, <1>9, <1>10 DEF CentInv, Balanced
<1>12. NothingApplied'
  BY <1>8, <1>10 DEF CentInv, NothingApplied
<1> QED BY <1>11, <1>12 DEF CentInv

\* Every operation keeps every cent.
LEMMA StepConserves == MoneyInv /\ CentInv /\ [Next]_vars => CentInv'
<1> SUFFICES ASSUME MoneyInv, CentInv, [Next]_vars PROVE CentInv'
  OBVIOUS
<1>1. MoneyInv'
  BY StepPreserves
<1>2. ASSUME NEW o \in Orders, CancelOrder(o) PROVE CentInv'
  BY <1>1, <1>2, CancelOrderKeepsCents
<1>3. ASSUME NEW o \in Orders, CorrectTotal(o) PROVE CentInv'
  BY <1>1, <1>3, CorrectTotalKeepsCents
<1>4. ASSUME NEW p \in Payments, CancelOrReverse(p) PROVE CentInv'
  BY <1>1, <1>4, PendingKeepsCents, ReverseKeepsCents
<1>5. ASSUME NEW p \in Payments, CorrectPosted(p) PROVE CentInv'
  BY <1>1, <1>5, CorrectPostedKeepsCents
<1>6. ASSUME NEW S \in SUBSET Payments, NEW confirmed \in BOOLEAN, PostBatch(S, confirmed)
      PROVE  CentInv'
  BY <1>1, <1>6, PostBatchKeepsCents
<1>7. CASE ApplyCredit
  BY <1>1, <1>7, ApplyKeepsCents
<1>8. ASSUME NEW r \in Refunds, CancelRefund(r) \/ ReverseRefund(r) PROVE CentInv'
  BY <1>1, <1>8, ReturnKeepsCents
<1>9. ASSUME NEW r \in Refunds, NEW p \in Payments, CreateRefund(r, p) PROVE CentInv'
  BY <1>1, <1>9, CreateRefundKeepsCents
<1> QED BY <1>2, <1>3, <1>4, <1>5, <1>6, <1>7, <1>8, <1>9, PendingKeepsCents, OthersKeepCents
        DEF Next

\* No money is lost or made: to the last cent, a posted payment is applied to
\* orders, held as credit, or promised or paid out as refunds, whatever
\* batches, corrections, applications and cancellations moved it.
THEOREM EveryCentKept == Spec => []PaymentConserved
<1>1. MoneyInv /\ CentInv => PaymentConserved
  BY BalancedIsConserved DEF MoneyInv, CentInv
<1>2. Spec => []CentInv
  BY InitConserves, StepConserves, MoneyInvariant, PTL DEF Spec
<1> QED BY <1>1, <1>2, MoneyInvariant, PTL

-----------------------------------------------------------------------------
(* What is reconciled with the bank.                                       *)

RowType == [pay : Payments \cup {None}, amount : Nat]
Taken(b) == [r \in Rows |-> b[r].amount]

\* The amount of some rows, as a sum of one function.
LEMMA RowSum ==
  ASSUME NEW b \in [Rows -> RowType], NEW S \in SUBSET Rows
  PROVE  /\ SumOver(S, [r \in S |-> b[r].amount]) = SumOver(S, Taken(b))
         /\ SumOver(S, Taken(b)) \in Nat /\ IsFiniteSet(S)
<1> DEFINE f == [r \in S |-> b[r].amount]
           g == Taken(b)
<1>1. IsFiniteSet(S)
  BY Finite, FS_Subset
<1>2. \A r \in S : f[r] = g[r] /\ g[r] \in Nat
  BY DEF RowType, Taken
<1> HIDE DEF f, g
<1>3. SumOver(S, f) = SumOver(S, g)
  BY <1>1, <1>2, SumSame
<1>4. SumOver(S, g) \in Nat
  BY <1>1, <1>2, SumNat
<1> QED BY <1>1, <1>3, <1>4 DEF f, g

\* The row of one reconciliation alone changed.
LEMMA RowMoves ==
  ASSUME NEW f \in [Rows -> Nat], NEW g \in [Rows -> Nat], NEW r \in Rows,
         \A x \in Rows \ {r} : g[x] = f[x]
  PROVE  SumOver(Rows, g) = SumOver(Rows, f) - f[r] + g[r]
  BY Finite, SumUpdate

\* What payments need of a step that leaves the bank alone: those reconciled stay as they are.
LEMMA BankUntouched ==
  ASSUME ReconciliationSound, UNCHANGED bankVars,
         \A p \in Payments : pay[p].status = "POSTED" /\ RowsOf(p) # {} =>
           pay'[p].status = "POSTED" /\ pay'[p].amount = pay[p].amount
  PROVE  ReconciliationSound'
<1>1. RowAmount(Rows)' = RowAmount(Rows) /\ line' = line
  BY DEF RowAmount, bankVars
<1>2. \A p \in Payments : RowsOf(p)' = RowsOf(p) /\ RowAmount(RowsOf(p))' = RowAmount(RowsOf(p))
  BY DEF RowAmount, RowsOf, bankVars
<1> QED BY <1>1, <1>2 DEF ReconciliationSound

\* A row is reconciled with what is left of a posted payment and of the bank line.
LEMMA ReconcileSound ==
  ASSUME MoneyInv, MoneyInv', ReconciliationSound, NEW r \in Rows, NEW p \in Payments,
         ReconcileIncome(r, p)
  PROVE  ReconciliationSound'
<1>1. PICK a \in Amounts :
        /\ RowAmount(Rows) + a <= line
        /\ RowAmount(RowsOf(p)) + a <= pay[p].amount
        /\ bank' = [bank EXCEPT ![r] = [pay |-> p, amount |-> a]]
  BY DEF ReconcileIncome
<1>2. bank[r].pay = None /\ pay[p].status = "POSTED" /\ UNCHANGED <<pay, line>>
  BY DEF ReconcileIncome
<1>3. /\ bank \in [Rows -> RowType] /\ bank' \in [Rows -> RowType] /\ a \in Nat /\ line \in Nat
      /\ p # None
  BY AmountsNat, IncomeAssumption DEF MoneyInv, TypeOK, RowType
<1> DEFINE f == Taken(bank)
           g == Taken(bank')
<1>4. /\ g[r] = a /\ f \in [Rows -> Nat] /\ g \in [Rows -> Nat]
      /\ \A x \in Rows \ {r} : g[x] = f[x]
  BY <1>1, <1>3 DEF Taken, RowType
<1>5. ASSUME NEW q \in Payments
      PROVE  /\ RowsOf(q) \in SUBSET Rows
             /\ RowsOf(q)' = IF q = p THEN RowsOf(q) \cup {r} ELSE RowsOf(q)
             /\ r \notin RowsOf(q)
  BY <1>1, <1>2, <1>3, IncomeAssumption DEF RowsOf
<1>6. RowAmount(Rows) = SumOver(Rows, f) /\ RowAmount(Rows)' = SumOver(Rows, g)
      /\ SumOver(Rows, f) \in Nat
  BY <1>3, RowSum DEF RowAmount
<1>7. ASSUME NEW q \in Payments
      PROVE  /\ RowAmount(RowsOf(q)) = SumOver(RowsOf(q), f)
             /\ RowAmount(RowsOf(q))' = SumOver(RowsOf(q)', g)
             /\ SumOver(RowsOf(q), f) \in Nat /\ IsFiniteSet(RowsOf(q))
  <2>1. RowsOf(q)' \in SUBSET Rows
    BY DEF RowsOf
  <2>2. RowAmount(RowsOf(q))' = SumOver(RowsOf(q)', [x \in RowsOf(q)' |-> bank'[x].amount])
    BY DEF RowAmount
  <2> QED BY <1>3, <1>5, <2>1, <2>2, RowSum DEF RowAmount
<1> HIDE DEF f, g
<1>8. RowAmount(Rows)' <= line'
  <2>1. SumOver(Rows, g) = SumOver(Rows, f) - f[r] + g[r]
    BY <1>4, RowMoves
  <2> QED BY <1>1, <1>2, <1>3, <1>4, <1>6, <2>1
<1>9. ASSUME NEW q \in Payments PROVE SumOver(RowsOf(q), g) = SumOver(RowsOf(q), f)
  <2> DEFINE S == RowsOf(q)
  <2>1. IsFiniteSet(S) /\ \A x \in S : g[x] = f[x]
    BY <1>4, <1>5, <1>7
  <2> HIDE DEF S
  <2>2. SumOver(S, g) = SumOver(S, f)
    BY <2>1, SumSame
  <2> QED BY <2>2 DEF S
<1>10. RowAmount(RowsOf(p))' <= pay[p].amount
  <2> DEFINE S == RowsOf(p)
  <2>1. IsFiniteSet(S) /\ r \notin S /\ \A x \in S \cup {r} : g[x] \in Int
    BY <1>4, <1>5, <1>7
  <2> HIDE DEF S
  <2>2. SumOver(S \cup {r}, g) = g[r] + SumOver(S, g)
    BY <2>1, SumAdd
  <2>3. RowsOf(p)' = S \cup {r}
    BY <1>5 DEF S
  <2>4. RowAmount(RowsOf(p))' = a + RowAmount(RowsOf(p))
    BY <1>4, <1>7, <1>9, <2>2, <2>3 DEF S
  <2> QED BY <1>1, <1>3, <1>7, <2>4
<1>11. ASSUME NEW q \in Payments, RowsOf(q)' # {}
       PROVE  pay'[q].status = "POSTED" /\ RowAmount(RowsOf(q))' <= pay'[q].amount
  <2>1. CASE q = p
    BY <1>2, <1>10, <2>1
  <2>2. CASE q # p
    <3>1. RowsOf(q)' = RowsOf(q)
      BY <1>5, <2>2
    <3>2. RowAmount(RowsOf(q))' = RowAmount(RowsOf(q))
      BY <1>7, <1>9, <3>1
    <3> QED BY <1>2, <1>11, <3>1, <3>2 DEF ReconciliationSound
  <2> QED BY <2>1, <2>2
<1> QED BY <1>8, <1>11 DEF ReconciliationSound

\* Undoing a reconciliation leaves less reconciled.
LEMMA UnreconcileSound ==
  ASSUME MoneyInv, MoneyInv', ReconciliationSound, NEW r \in Rows, UnreconcileIncome(r)
  PROVE  ReconciliationSound'
<1>1. /\ bank[r].pay # None /\ bank' = [bank EXCEPT ![r] = [pay |-> None, amount |-> 0]]
      /\ UNCHANGED <<pay, line>>
  BY DEF UnreconcileIncome
<1>2. bank \in [Rows -> RowType] /\ bank' \in [Rows -> RowType] /\ line \in Nat
  BY DEF MoneyInv, TypeOK, RowType
<1> DEFINE f == Taken(bank)
           g == Taken(bank')
<1>3. /\ g[r] = 0 /\ f \in [Rows -> Nat] /\ g \in [Rows -> Nat]
      /\ \A x \in Rows \ {r} : g[x] = f[x]
  BY <1>1, <1>2 DEF Taken, RowType
<1>4. ASSUME NEW q \in Payments PROVE RowsOf(q) \in SUBSET Rows /\ RowsOf(q)' = RowsOf(q) \ {r}
  BY <1>1, <1>2, IncomeAssumption DEF RowsOf
<1>5. RowAmount(Rows) = SumOver(Rows, f) /\ RowAmount(Rows)' = SumOver(Rows, g)
      /\ SumOver(Rows, f) \in Nat
  BY <1>2, RowSum DEF RowAmount
<1>6. ASSUME NEW q \in Payments
      PROVE  /\ RowAmount(RowsOf(q)) = SumOver(RowsOf(q), f)
             /\ RowAmount(RowsOf(q))' = SumOver(RowsOf(q)', g)
             /\ SumOver(RowsOf(q), f) \in Nat /\ IsFiniteSet(RowsOf(q)) /\ IsFiniteSet(RowsOf(q)')
             /\ SumOver(RowsOf(q)', f) \in Nat
  <2>1. RowsOf(q)' \in SUBSET Rows
    BY <1>4
  <2>2. RowAmount(RowsOf(q))' = SumOver(RowsOf(q)', [x \in RowsOf(q)' |-> bank'[x].amount])
    BY DEF RowAmount
  <2> QED BY <1>2, <1>4, <2>1, <2>2, RowSum DEF RowAmount
<1> HIDE DEF f, g
<1>7. RowAmount(Rows)' <= line'
  <2>1. SumOver(Rows, g) = SumOver(Rows, f) - f[r] + g[r]
    BY <1>3, RowMoves
  <2>2. f[r] \in Nat /\ SumOver(Rows, f) <= line
    BY <1>3, <1>5 DEF ReconciliationSound
  <2> QED BY <1>1, <1>2, <1>3, <1>5, <2>1, <2>2
<1>8. ASSUME NEW q \in Payments, RowsOf(q)' # {}
      PROVE  pay'[q].status = "POSTED" /\ RowAmount(RowsOf(q))' <= pay'[q].amount
  <2> DEFINE S == RowsOf(q)
             T == RowsOf(q)'
  <2>1. /\ IsFiniteSet(S) /\ T \in SUBSET S /\ IsFiniteSet(T) /\ \A x \in S : f[x] \in Nat
        /\ \A x \in T : f[x] = g[x]
    BY <1>3, <1>4, <1>6
  <2>2. pay[q].status = "POSTED" /\ SumOver(S, f) <= pay[q].amount /\ pay[q].amount \in Nat
    BY <1>4, <1>6, <1>8 DEF ReconciliationSound, MoneyInv, TypeOK
  <2>3. SumOver(S, f) \in Nat /\ SumOver(T, f) \in Nat
    BY <1>6
  <2>4. RowAmount(RowsOf(q))' = SumOver(T, g)
    BY <1>6
  <2> HIDE DEF S, T
  <2>5. SumOver(T, g) = SumOver(T, f)
    BY <2>1, SumSame
  <2>6. SumOver(T, f) <= SumOver(S, f)
    BY <2>1, SumPart
  <2> QED BY <1>1, <2>2, <2>3, <2>4, <2>5, <2>6
<1> QED BY <1>7, <1>8 DEF ReconciliationSound

\* A bank line is written before anything is reconciled with it.
LEMMA LineSound ==
  ASSUME MoneyInv, ReconciliationSound, CreateBankStatementLine
  PROVE  ReconciliationSound'
<1>1. line = 0 /\ line' = LineAmount /\ LineAmount \in Nat /\ UNCHANGED <<pay, bank>>
  BY IncomeAssumption DEF CreateBankStatementLine
<1>2. RowAmount(Rows) \in Nat
  <2>1. bank \in [Rows -> RowType]
    BY DEF MoneyInv, TypeOK, RowType
  <2> QED BY <2>1, RowSum DEF RowAmount
<1>3. RowAmount(Rows)' = RowAmount(Rows)
  BY <1>1 DEF RowAmount
<1>4. \A p \in Payments : RowsOf(p)' = RowsOf(p) /\ RowAmount(RowsOf(p))' = RowAmount(RowsOf(p))
  BY <1>1 DEF RowAmount, RowsOf
<1> QED BY <1>1, <1>2, <1>3, <1>4 DEF ReconciliationSound

\* A payment that is reconciled is neither corrected nor closed.
LEMMA ReconciledStays ==
  ASSUME MoneyInv, [Next]_vars, NEW p \in Payments, pay[p].status = "POSTED", RowsOf(p) # {}
  PROVE  pay'[p].status = "POSTED" /\ pay'[p].amount = pay[p].amount
<1> DEFINE Stays == pay'[p].status = "POSTED" /\ pay'[p].amount = pay[p].amount
<1>0. /\ pay \in [Payments -> PaymentType]
      /\ \A q \in Payments : pay[q].order = None <=> pay[q].status = "ABSENT"
  BY DEF MoneyInv, TypeOK, PaymentType
<1>1. ASSUME NEW o \in Orders, SaveOrder(o) PROVE Stays
  BY <1>0, <1>1 DEF SaveOrder, Of
<1>2. ASSUME NEW q \in Payments, UpdatePending(q) \/ Reenter(q) PROVE Stays
  BY <1>0, <1>2 DEF UpdatePending, Reenter
<1>3. ASSUME NEW q \in Payments, NEW o \in Orders, TransferPending(q, o) PROVE Stays
  BY <1>0, <1>3 DEF TransferPending
<1>4. ASSUME NEW q \in Payments, CancelOrReverse(q) PROVE Stays
  <2>1. PICK s : pay' = [pay EXCEPT ![q].status = s] /\ (q # p \/ RowsOf(p) = {})
    BY <1>4 DEF CancelOrReverse, ReverseInto, HasDependencies
  <2> QED BY <1>0, <2>1
<1>5. ASSUME NEW q \in Payments, CorrectPosted(q) PROVE Stays
  <2>1. q # p
    BY <1>5 DEF CorrectPosted, HasDependencies
  <2>2. PICK x \in Payments, a \in Amounts :
          /\ pay[x].status = "ABSENT"
          /\ pay' = [pay EXCEPT ![q].status = "REVERSED",
                                ![x] = [status |-> "POSTED", order |-> pay[q].order, amount |-> a]]
    BY <1>5 DEF CorrectPosted
  <2> QED BY <1>0, <2>1, <2>2
<1>6. ASSUME NEW S \in SUBSET Payments, NEW confirmed \in BOOLEAN, PostBatch(S, confirmed)
      PROVE  Stays
  <2>1. /\ \A q \in S : pay[q].status = "PENDING_CONFIRMATION"
        /\ pay' = [q \in Payments |-> IF q \in S THEN [pay[q] EXCEPT !.status = "POSTED"] ELSE pay[q]]
    BY <1>6 DEF PostBatch
  <2> QED BY <2>1
<1>7. ASSUME NEW o \in Orders, CancelOrder(o) PROVE Stays
  <2>1. PICK res \in Resolutions(o) :
          pay' = [q \in Payments |->
            CASE q \in Of(o, {"PENDING_CONFIRMATION"}) /\ res.to[q] = None
                   -> [pay[q] EXCEPT !.status = "CANCELLED"]
              [] q \in Of(o, {"PENDING_CONFIRMATION"}) /\ res.to[q] # None
                   -> [pay[q] EXCEPT !.order = res.to[q]]
              [] OTHER -> pay[q]]
    BY <1>7, Zenon DEF CancelOrder
  <2>2. p \notin Of(o, {"PENDING_CONFIRMATION"})
    BY DEF Of
  <2> QED BY <2>1, <2>2
<1>8. ASSUME UNCHANGED pay PROVE Stays
  BY <1>8
<1>9. ASSUME NEW o \in Orders, CorrectTotal(o) \/ ApplyRead(o) PROVE UNCHANGED pay
  BY <1>9, Zenon DEF CorrectTotal, ApplyRead
<1>10. ASSUME ApplyCredit \/ ApplyRejected \/ CreateBankStatementLine \/ UNCHANGED vars
       PROVE UNCHANGED pay
  BY <1>10, Zenon DEF ApplyCredit, ApplyRejected, CreateBankStatementLine, vars
<1>11. ASSUME NEW q \in Payments, NEW r \in Refunds,
              CreateRefund(r, q) \/ PostRefund(r) \/ CancelRefund(r) \/ ReverseRefund(r)
       PROVE  UNCHANGED pay
  BY <1>11, Zenon DEF CreateRefund, PostRefund, CancelRefund, ReverseRefund
<1>12. ASSUME NEW q \in Payments, NEW r \in Rows, ReconcileIncome(r, q) \/ UnreconcileIncome(r)
       PROVE  UNCHANGED pay
  BY <1>12, Zenon DEF ReconcileIncome, UnreconcileIncome
<1> HIDE DEF Stays
<1>13. Stays
  BY <1>1, <1>2, <1>3, <1>4, <1>5, <1>6, <1>7, <1>8, <1>9, <1>10, <1>11, <1>12, Zenon DEF Next
<1> QED BY <1>13 DEF Stays

\* No other step touches the bank.
LEMMA BankSteps ==
  ASSUME [Next]_vars
  PROVE  \/ UNCHANGED bankVars \/ CreateBankStatementLine
         \/ \E r \in Rows : UnreconcileIncome(r) \/ \E p \in Payments : ReconcileIncome(r, p)
<1>1. ASSUME NEW o \in Orders, SaveOrder(o) \/ CancelOrder(o) \/ CorrectTotal(o) \/ ApplyRead(o)
      PROVE UNCHANGED bankVars
  BY <1>1, Zenon DEF SaveOrder, CancelOrder, CorrectTotal, ApplyRead
<1>2. ASSUME ApplyCredit \/ ApplyRejected \/ UNCHANGED vars PROVE UNCHANGED bankVars
  BY <1>2, Zenon DEF ApplyCredit, ApplyRejected, vars
<1>3. ASSUME NEW p \in Payments, UpdatePending(p) \/ Reenter(p) \/ CancelOrReverse(p) \/ CorrectPosted(p)
      PROVE UNCHANGED bankVars
  BY <1>3, Zenon DEF UpdatePending, Reenter, CancelOrReverse, CorrectPosted
<1>4. ASSUME NEW p \in Payments, NEW o \in Orders, TransferPending(p, o) PROVE UNCHANGED bankVars
  BY <1>4, Zenon DEF TransferPending
<1>5. ASSUME NEW p \in Payments, NEW r \in Refunds, CreateRefund(r, p) PROVE UNCHANGED bankVars
  BY <1>5, Zenon DEF CreateRefund
<1>6. ASSUME NEW r \in Refunds, PostRefund(r) \/ CancelRefund(r) \/ ReverseRefund(r)
      PROVE UNCHANGED bankVars
  BY <1>6, Zenon DEF PostRefund, CancelRefund, ReverseRefund
<1>7. ASSUME NEW S \in SUBSET Payments, NEW confirmed \in BOOLEAN, PostBatch(S, confirmed)
      PROVE UNCHANGED bankVars
  BY <1>7, Zenon DEF PostBatch
<1> QED BY <1>1, <1>2, <1>3, <1>4, <1>5, <1>6, <1>7, Zenon DEF Next

\* Nothing is reconciled at first.
LEMMA InitReconciled == Init => ReconciliationSound
<1> SUFFICES ASSUME Init PROVE ReconciliationSound
  OBVIOUS
<1>1. RowAmount(Rows) = 0
  <2> DEFINE f == [r \in Rows |-> bank[r].amount]
  <2>1. \A r \in Rows : f[r] = 0
    BY DEF Init
  <2> HIDE DEF f
  <2>2. SumOver(Rows, f) = 0
    BY <2>1, Finite, SumZero
  <2> QED BY <2>2 DEF RowAmount, f
<1>2. line = 0 /\ \A p \in Payments : RowsOf(p) = {}
  BY IncomeAssumption DEF Init, RowsOf
<1> QED BY <1>1, <1>2 DEF ReconciliationSound

\* Every operation keeps rows and payments agreeing.
LEMMA StepReconciles == MoneyInv /\ ReconciliationSound /\ [Next]_vars => ReconciliationSound'
<1> SUFFICES ASSUME MoneyInv, ReconciliationSound, [Next]_vars PROVE ReconciliationSound'
  OBVIOUS
<1>1. MoneyInv'
  BY StepPreserves
<1>2. CASE UNCHANGED bankVars
  BY <1>2, BankUntouched, ReconciledStays
<1>3. CASE CreateBankStatementLine
  BY <1>3, LineSound
<1>4. ASSUME NEW r \in Rows, UnreconcileIncome(r) PROVE ReconciliationSound'
  BY <1>1, <1>4, UnreconcileSound
<1>5. ASSUME NEW r \in Rows, NEW p \in Payments, ReconcileIncome(r, p) PROVE ReconciliationSound'
  BY <1>1, <1>5, ReconcileSound
<1> QED BY <1>2, <1>3, <1>4, <1>5, BankSteps

\* Reconciliations never add up to more than the bank statement line or than the
\* payment they are of, and that payment stays posted as long as it has any.
THEOREM BankAgrees == Spec => []ReconciliationSound
  BY InitReconciled, StepReconciles, MoneyInvariant, PTL DEF Spec

-----------------------------------------------------------------------------
(* The upload of evidence.                                                 *)

Statuses == {"NONE", "PREPARING", "STAGED", "PROMOTED", "QUARANTINED", "COMPLETED"}
Keys == [Areas -> Uploads \cup {Nothing}]
Operation == [status : Statuses, image : Images \cup {Nothing}, keys : Keys,
              lease : {"none", "held", "expired"}, recent : BOOLEAN, attempts : Nat]
Evidence == [image : Images, file : Names]

\* Where a call, or the worker, has no lease on the operation.
Waiting == {"idle", "find", "acquire", "claim", "completed", "done"}
Working == {"stage", "resume", "reset", "save", "staged", "check", "target", "move", "verify", "promoted", "clean",
            "isolate staging", "isolate private", "isolate target", "isolated", "isolated, move", "persist",
            "release", "duplicate", "drop", "settle"}
WorkerSteps == {"idle", "look", "move", "verify", "checkpoint", "persist", "release"}
Process(steps) == [pc : steps, image : Images \cup {Nothing}, keys : Keys, file : Uploads \cup {Nothing}]
Contents == Images \cup {Nothing, "DAMAGED"}

Answered == {"OK", "REUSED", "ERROR", "IN_PROGRESS", "LOST", Nothing}

EvidenceTypes ==
  /\ op \in Operation /\ att \in Evidence \cup {Nothing}
  /\ disk \in [Areas -> [Names -> Contents]]
  /\ me \in [Uploads -> Process(Waiting \cup Working)] /\ worker \in Process(WorkerSteps)
  /\ answer \in [Uploads -> Answered]

\* A staged file has its target already.
Targeted(k) == k["staging"] # Nothing => k["private"] # Nothing

\* Where a call is about to write, or to name, the file it promoted.
Naming == {"resume", "move", "verify", "promoted", "clean", "persist", "isolate private", "isolate target",
           "isolated", "isolated, move", "duplicate", "drop"}
Staging == {"staged", "check", "target", "isolate staging"}

\* What holds of a call m with the answer x, for the operation o and the evidence a.
CallInv(m, x, o, a) ==
  /\ Targeted(m.keys)
  /\ m.pc \notin {"idle", "find", "acquire", "done"} => o.status # "NONE" /\ o.image = m.image
  /\ m.pc # "idle" => m.image \in Images
  /\ m.pc \in Staging => m.keys["staging"] # Nothing
  /\ m.pc \in Naming => m.file # Nothing
  /\ m.pc \in {"duplicate", "drop", "settle"} => a # Nothing
  /\ m.pc = "settle" => a.image = m.image
  /\ x # Nothing => m.pc = "done"
  /\ x = "OK" => a # Nothing /\ a.image = m.image

WorkerInv(w, o) ==
  w.pc # "idle" => o.status # "NONE" /\ w.image = o.image /\ w.file # Nothing

RowInv(o, a) ==
  /\ Targeted(o.keys)
  /\ o.status # "NONE" => o.image \in Images
  /\ o.status = "NONE" => a = Nothing
  /\ o.status = "COMPLETED" => a # Nothing

CopyInv ==
  /\ keeper # Nothing => op.status # "NONE" /\ disk["private"]["op"] = op.image
  /\ att # Nothing /\ att.file = "op" => disk["private"]["op"] = att.image

LooseInv ==
  /\ EvidenceTypes /\ RowInv(op, att) /\ CopyInv
  /\ \A u \in Uploads : CallInv(me[u], answer[u], op, att)
  /\ WorkerInv(worker, op)

-----------------------------------------------------------------------------
(* While no lease expired at work.                                         *)

Works(u) == me[u].pc \in Working

\* A process at work has the lease, or found the file damaged.
Locks(o, a) == a = Nothing /\ (o.lease = "held" \/ o.status = "QUARANTINED")

\* Where the file was found to hold the image.
Copied(m, d) == m.pc \in {"resume", "promoted", "clean", "persist"} => d["private"][m.file] = m.image
WorkerCopied(w, d) == w.pc \in {"checkpoint", "persist"} => d["private"][w.file] = w.image

Recorded(o, a, d) == a # Nothing => o.status = "COMPLETED" /\ d["private"][a.file] = a.image

ByHand(a) == a # Nothing /\ a.file = "op"

SoleInv ==
  ~late /\ ~ByHand(att) =>
    /\ \A u \in Uploads : Works(u) =>
         /\ Locks(op, att) /\ Copied(me[u], disk)
         /\ worker.pc = "idle" /\ \A v \in Uploads : v # u => ~Works(v)
    /\ worker.pc # "idle" => Locks(op, att) /\ WorkerCopied(worker, disk) /\ \A u \in Uploads : ~Works(u)
    /\ Recorded(op, att, disk)

EvidenceInv == LooseInv /\ SoleInv

-----------------------------------------------------------------------------
\* What may become of the row and of the evidence, whoever writes them.
Grows(o, a, o2, a2) ==
  /\ o2 \in Operation /\ a2 \in Evidence \cup {Nothing} /\ RowInv(o2, a2)
  /\ o.status # "NONE" => o2.status # "NONE" /\ o2.image = o.image
  /\ a # Nothing => a2 = a

\* And of the files, but for the one saved from quarantine.
FilesOf(d, d2) == d2 \in [Areas -> [Names -> Contents]] /\ d2["private"]["op"] = d["private"]["op"]

Steps == Waiting \cup Working

\* Nothing is no evidence.
LEMMA NothingElse == /\ Nothing \notin Evidence /\ Nothing \notin Uploads /\ Nothing \notin Images
                     /\ "op" \notin Uploads /\ Nothing # "OK"
BY EvidenceAssumption DEF Evidence, Names

\* What holds of a call goes on to hold while others work.
LEMMA OthersStay ==
  ASSUME NEW m, NEW x, NEW o, NEW a, NEW o2, NEW a2, CallInv(m, x, o, a), Grows(o, a, o2, a2)
  PROVE  CallInv(m, x, o2, a2)
BY DEF CallInv, Grows

\* A step of a call, and what it may leave.
LEMMA CallLoose ==
  ASSUME LooseInv, NEW u \in Uploads, NEW m \in Process(Steps), NEW x \in Answered,
         me' = [me EXCEPT ![u] = m], answer' = [answer EXCEPT ![u] = x],
         UNCHANGED <<worker, keeper>>,
         Grows(op, att, op', att'), FilesOf(disk, disk'), CallInv(m, x, op', att'),
         att' # att => att'.file # "op"
  PROVE  LooseInv'
<1> USE DEF LooseInv
<1>1. me' \in [Uploads -> Process(Steps)] /\ answer' \in [Uploads -> Answered]
  BY DEF EvidenceTypes, Steps
<1>2. EvidenceTypes'
  BY <1>1 DEF EvidenceTypes, Grows, FilesOf, Steps
<1>3. CopyInv'
  BY DEF CopyInv, Grows, FilesOf
<1>4. WorkerInv(worker', op')
  BY DEF WorkerInv, Grows
<1>5. \A v \in Uploads : CallInv(me'[v], answer'[v], op', att')
  <2> TAKE v \in Uploads
  <2>1. CASE v = u
    BY <2>1 DEF EvidenceTypes
  <2>2. CASE v # u
    <3>1. me'[v] = me[v] /\ answer'[v] = answer[v]
      BY <2>2 DEF EvidenceTypes
    <3>2. CallInv(me[v], answer[v], op, att)
      OBVIOUS
    <3> QED BY <3>1, <3>2, OthersStay
  <2> QED BY <2>1, <2>2
<1>6. RowInv(op', att')
  BY DEF Grows
<1>7. (\A v \in Uploads : CallInv(me[v], answer[v], op, att))'
  BY <1>5
<1> QED BY <1>2, <1>3, <1>4, <1>6, <1>7

\* A call that has the lease goes on.
LEMMA WorkStep ==
  ASSUME EvidenceInv, NEW u \in Uploads, NEW m \in Process(Steps), NEW x \in Answered,
         me' = [me EXCEPT ![u] = m], answer' = [answer EXCEPT ![u] = x],
         UNCHANGED <<worker, keeper, late>>,
         Grows(op, att, op', att'), FilesOf(disk, disk'), CallInv(m, x, op', att'),
         att' # att => att'.file # "op",
         Works(u),
         Locks(op, att) /\ Copied(me[u], disk) =>
           /\ m.pc \in Working => Locks(op', att') /\ Copied(m, disk')
           /\ Recorded(op', att', disk')
  PROVE  EvidenceInv'
<1> USE DEF EvidenceInv
<1>1. LooseInv'
  BY CallLoose
<1>2. SoleInv'
  <2> SUFFICES ASSUME ~late, ~ByHand(att') PROVE SoleInv'
    BY DEF SoleInv
  <2>1. ~ByHand(att)
    BY DEF Grows, ByHand
  <2>2. /\ Locks(op, att) /\ Copied(me[u], disk) /\ worker.pc = "idle"
        /\ \A v \in Uploads : v # u => ~Works(v)
    BY <2>1 DEF SoleInv
  <2>3. me'[u] = m /\ \A v \in Uploads : v # u => me'[v] = me[v]
    BY DEF LooseInv, EvidenceTypes
  <2>4. \A v \in Uploads : Works(v)' => v = u
    BY <2>2, <2>3 DEF Works
  <2>5. Works(u)' => Locks(op', att') /\ Copied(m, disk')
    BY <2>2, <2>3 DEF Works
  <2>6. Recorded(op', att', disk')
    BY <2>2
  <2> QED BY <2>2, <2>3, <2>4, <2>5, <2>6 DEF SoleInv, Copied, Recorded, Locks
<1> QED BY <1>1, <1>2

\* A call without a lease goes on without one.
LEMMA WaitStep ==
  ASSUME EvidenceInv, NEW u \in Uploads, NEW m \in Process(Waiting), NEW x \in Answered,
         me' = [me EXCEPT ![u] = m], answer' = [answer EXCEPT ![u] = x],
         UNCHANGED <<worker, keeper, late, disk, att>>,
         Grows(op, att, op', att'), CallInv(m, x, op', att'),
         ~Works(u), op'.status = op.status, op.lease = "held" => op'.lease = "held"
  PROVE  EvidenceInv'
<1> USE DEF EvidenceInv
<1>1. m \in Process(Steps) /\ m.pc \notin Working
  BY DEF Process, Steps, Waiting, Working
<1>2. LooseInv'
  BY <1>1, CallLoose DEF FilesOf, LooseInv, EvidenceTypes
<1>3. SoleInv'
  <2> SUFFICES ASSUME ~late, ~ByHand(att) PROVE SoleInv'
    BY DEF SoleInv
  <2>1. \A v \in Uploads : Works(v)' => Works(v) /\ me'[v] = me[v]
    BY <1>1 DEF LooseInv, EvidenceTypes, Works
  <2>2. Locks(op, att) => Locks(op', att')
    BY DEF Locks
  <2>3. Recorded(op', att', disk')
    BY DEF SoleInv, Recorded
  <2> QED BY <2>1, <2>2, <2>3 DEF SoleInv, Copied, Recorded, Locks, WorkerCopied
<1> QED BY <1>2, <1>3

\* A call takes the lease: nobody is at work.
LEMMA StartStep ==
  ASSUME EvidenceInv, NEW u \in Uploads, NEW m \in Process({"stage"}),
         me' = [me EXCEPT ![u] = m],
         UNCHANGED <<answer, worker, keeper, late, disk, att>>,
         Grows(op, att, op', att'), CallInv(m, answer[u], op', att'),
         op'.lease = "held", op.status = "NONE" \/ (op.status \notin {"QUARANTINED", "COMPLETED"} /\ op.lease # "held")
  PROVE  EvidenceInv'
<1> USE DEF EvidenceInv
<1>1. m \in Process(Steps) /\ m.pc = "stage" /\ answer[u] \in Answered /\ answer' = [answer EXCEPT ![u] = answer[u]]
  BY DEF Process, Steps, Working, LooseInv, EvidenceTypes
<1>2. LooseInv'
  BY <1>1, CallLoose DEF FilesOf, LooseInv, EvidenceTypes
<1>3. SoleInv'
  <2> SUFFICES ASSUME ~late, ~ByHand(att) PROVE SoleInv'
    BY DEF SoleInv
  <2>1. att = Nothing /\ worker.pc = "idle" /\ \A v \in Uploads : ~Works(v)
    <3>1. CASE op.status = "NONE"
      <4>1. \A v \in Uploads : ~Works(v)
        BY <3>1 DEF LooseInv, CallInv, Works, Working
      <4> QED BY <3>1, <4>1 DEF LooseInv, RowInv, WorkerInv
    <3>2. CASE op.status \notin {"QUARANTINED", "COMPLETED"} /\ op.lease # "held"
      BY <3>2 DEF SoleInv, Locks, Recorded
    <3> QED BY <3>1, <3>2
  <2>2. me'[u] = m /\ \A v \in Uploads : v # u => me'[v] = me[v]
    BY DEF LooseInv, EvidenceTypes
  <2>3. Locks(op', att') /\ Copied(m, disk') /\ Recorded(op', att', disk')
    BY <1>1, <2>1 DEF Locks, Copied, Recorded
  <2> QED BY <2>1, <2>2, <2>3 DEF SoleInv, Works, Copied, Recorded, Locks
<1> QED BY <1>2, <1>3

\* An update of a row that exists by a process at work.
Updated(o) ==
  /\ o \in Operation /\ o.image = op.image /\ Targeted(o.keys)
  /\ o.status \in {"PREPARING", "STAGED", "PROMOTED", "QUARANTINED"}
  /\ o.lease = "held" \/ o.status = "QUARANTINED"

\* A call at work that stays at work.
LEMMA GoesOn ==
  ASSUME EvidenceInv, NEW u \in Uploads, Works(u), NEW m \in Process(Working \ {"duplicate", "drop", "settle"}),
         me' = [me EXCEPT ![u] = m], UNCHANGED <<att, answer, worker, keeper, late>>,
         m.image = me[u].image, Targeted(m.keys),
         m.pc \in Staging => m.keys["staging"] # Nothing, m.pc \in Naming => m.file # Nothing,
         op' = op \/ Updated(op'),
         FilesOf(disk, disk'),
         Copied(me[u], disk) => Copied(m, disk')
  PROVE  EvidenceInv'
<1> USE DEF EvidenceInv
<1> DEFINE x == answer[u]
<1>1. x \in Answered /\ answer' = [answer EXCEPT ![u] = x] /\ CallInv(me[u], x, op, att) /\ me[u] \in Process(Steps)
  BY DEF LooseInv, EvidenceTypes, Steps
<1>2. m \in Process(Steps) /\ m.pc \notin {"duplicate", "drop", "settle"} /\ m.pc \in Working /\ m.pc # "done"
  BY DEF Process, Steps, Working
<1>3. op.status # "NONE" /\ op.image = m.image /\ m.image \in Images /\ x = Nothing
  BY <1>1 DEF Works, Working, CallInv
<1>4. Grows(op, att, op', att')
  <2>1. CASE op' = op
    BY <2>1 DEF Grows, LooseInv, EvidenceTypes
  <2>2. CASE Updated(op')
    BY <1>3, <2>2 DEF Grows, LooseInv, EvidenceTypes, RowInv, Updated
  <2> QED BY <2>1, <2>2
<1>5. CallInv(m, x, op', att')
  <2>1. op'.status # "NONE" /\ op'.image = m.image
    BY <1>3 DEF Updated
  <2>2. x # "OK"
    BY <1>3, NothingElse
  <2> QED BY <1>2, <1>3, <2>1, <2>2 DEF CallInv
<1>6. Locks(op, att) /\ Copied(me[u], disk) =>
         /\ m.pc \in Working => Locks(op', att') /\ Copied(m, disk')
         /\ Recorded(op', att', disk')
  BY DEF Locks, Recorded, Updated
<1> HIDE DEF x
<1> QED BY <1>1, <1>2, <1>4, <1>5, <1>6, WorkStep

\* Where the call u is, and the type of what it holds.
LEMMA CallType ==
  ASSUME EvidenceInv, NEW u \in Uploads
  PROVE  /\ me \in [Uploads -> Process(Steps)] /\ me[u].keys \in Keys /\ me[u].file \in Uploads \cup {Nothing}
         /\ me[u].image \in Images \cup {Nothing} /\ Targeted(me[u].keys)
         /\ CallInv(me[u], answer[u], op, att)
         /\ disk \in [Areas -> [Names -> Contents]] /\ op \in Operation
BY DEF EvidenceInv, LooseInv, EvidenceTypes, Steps, Process, CallInv

\* Steps that only look.
LEMMA LooksStep ==
  ASSUME EvidenceInv, NEW u \in Uploads, Works(u), NEW pc \in Working \ {"duplicate", "drop", "settle"},
         NEW file \in Uploads \cup {Nothing},
         me' = [me EXCEPT ![u] = [me[u] EXCEPT !.pc = pc, !.file = file]],
         UNCHANGED <<op, att, disk, answer, worker, keeper, late>>,
         pc \in Staging => me[u].keys["staging"] # Nothing, pc \in Naming => file # Nothing,
         pc \in {"resume", "promoted", "clean", "persist"} => disk["private"][file] = me[u].image
  PROVE  EvidenceInv'
<1> DEFINE m == [me[u] EXCEPT !.pc = pc, !.file = file]
<1>0. me[u] \in Process(Steps)
  BY CallType
<1>1. m \in Process(Working \ {"duplicate", "drop", "settle"})
  BY <1>0 DEF Process
<1>2. m.pc = pc /\ m.file = file /\ m.image = me[u].image /\ m.keys = me[u].keys
  BY <1>0 DEF Process
<1>3. FilesOf(disk, disk')
  BY CallType DEF FilesOf
<1>4. Targeted(m.keys)
  BY <1>2, CallType
<1>5. m.pc \in {"resume", "promoted", "clean", "persist"} => disk'["private"][m.file] = m.image
  BY <1>2
<1>6. me' = [me EXCEPT ![u] = m]
  OBVIOUS
<1> HIDE DEF m
<1>7. m.pc \in Staging => m.keys["staging"] # Nothing
  BY <1>2
<1>8. m.pc \in Naming => m.file # Nothing
  BY <1>2
<1>9. Copied(me[u], disk) => Copied(m, disk')
  BY <1>5 DEF Copied
<1>10. op' = op /\ UNCHANGED <<att, answer, worker, keeper, late>>
  OBVIOUS
<1>11. m.image = me[u].image
  BY <1>2
<1> QED BY <1>1, <1>11, <1>3, <1>4, <1>6, <1>7, <1>8, <1>9, <1>10, GoesOn

\* Which file is there is only looked up.
LEMMA StageStep == ASSUME EvidenceInv, NEW u \in Uploads, Stage(u) PROVE EvidenceInv'
<1> DEFINE k == me[u].keys
           p == k["private"]
<1>1. Works(u) /\ me[u].pc = "stage" /\ UNCHANGED <<op, att, disk, answer, worker, keeper, late>>
  BY DEF Stage, At, Works, Working, OnlyCalls
<1>2. k \in Keys /\ p \in Uploads \cup {Nothing}
  BY CallType DEF Keys, Areas
<1>3. CASE Exists("private", p)
  <2>1. PICK pc \in {"resume", "isolate private"} :
          /\ me' = [me EXCEPT ![u] = [me[u] EXCEPT !.pc = pc, !.file = p]]
          /\ pc = "resume" => disk["private"][p] = me[u].image
    BY <1>3, CallType DEF Stage, Exists, Process
  <2> QED BY <1>1, <1>2, <1>3, <2>1, LooksStep DEF Working, Staging, Exists
<1>4. CASE ~Exists("private", p)
  <2>1. PICK pc \in {"check", "save", "reset"} :
          /\ Goes(u, pc) /\ (pc = "check" => k["staging"] # Nothing)
    BY <1>4 DEF Stage, Exists
  <2>2. me' = [me EXCEPT ![u] = [me[u] EXCEPT !.pc = pc, !.file = me[u].file]]
    BY <2>1, CallType DEF Goes, Process
  <2> QED BY <1>1, <2>1, <2>2, CallType, LooksStep DEF Working, Staging, Naming
<1> QED BY <1>3, <1>4

\* A call at work that looks and goes on, with the file it has.
LEMMA LooksOn ==
  ASSUME EvidenceInv, NEW u \in Uploads, Works(u), NEW pc \in Working \ {"duplicate", "drop", "settle"},
         Goes(u, pc), UNCHANGED <<op, att, disk, answer, worker, keeper, late>>,
         pc \in Staging => me[u].keys["staging"] # Nothing, pc \in Naming => me[u].file # Nothing,
         pc \in {"resume", "promoted", "clean", "persist"} => disk["private"][me[u].file] = me[u].image
  PROVE  EvidenceInv'
<1>1. me' = [me EXCEPT ![u] = [me[u] EXCEPT !.pc = pc, !.file = me[u].file]]
  BY CallType DEF Goes, Process
<1> QED BY <1>1, CallType, LooksStep

\* What is known of a call from where it is.
LEMMA PlaceFacts ==
  ASSUME EvidenceInv, NEW u \in Uploads
  PROVE  /\ me[u].pc \in Staging => me[u].keys["staging"] # Nothing /\ me[u].keys["private"] # Nothing
         /\ me[u].pc \in Naming => me[u].file # Nothing
         /\ me[u].keys["staging"] \in Uploads \cup {Nothing} /\ me[u].keys["private"] \in Uploads \cup {Nothing}
BY CallType DEF CallInv, Targeted, Keys, Areas

\* The staged file is read.
LEMMA CheckStep == ASSUME EvidenceInv, NEW u \in Uploads, Check(u) PROVE EvidenceInv'
<1>1. Works(u) /\ me[u].pc \in Staging /\ UNCHANGED <<op, att, disk, answer, worker, keeper, late>>
  BY DEF Check, At, Works, Working, OnlyCalls, Staging
<1>2. PICK pc \in {"release", "target", "isolate staging"} : Goes(u, pc)
  BY DEF Check
<1>3. me[u].keys["staging"] # Nothing
  BY <1>1, PlaceFacts
<1> QED BY <1>1, <1>2, <1>3, LooksOn DEF Working, Naming

\* The target is looked up; the staged file has one.
LEMMA TargetStep == ASSUME EvidenceInv, NEW u \in Uploads, Target(u) PROVE EvidenceInv'
<1> DEFINE t == me[u].keys["private"]
<1>1. Works(u) /\ me[u].pc \in Staging /\ UNCHANGED <<op, att, disk, answer, worker, keeper, late>>
  BY DEF Target, At, Works, Working, OnlyCalls, Staging
<1>2. PICK pc \in {"move", "verify", "isolate target"} :
        me' = [me EXCEPT ![u] = [me[u] EXCEPT !.pc = pc, !.file = t]]
  BY CallType DEF Target, Process
<1>3. t \in Uploads \cup {Nothing} /\ t # Nothing
  BY <1>1, PlaceFacts
<1>4. pc \in Working \ {"duplicate", "drop", "settle"} /\ pc \notin Staging
      /\ pc \notin {"resume", "promoted", "clean", "persist"}
  BY <1>2 DEF Working, Staging
<1> HIDE DEF t
<1> QED BY <1>1, <1>2, <1>3, <1>4, LooksStep

\* A file is verified by reading it.
LEMMA VerifyStep == ASSUME EvidenceInv, NEW u \in Uploads, Verify(u) PROVE EvidenceInv'
<1>1. Works(u) /\ me[u].pc \in Naming /\ UNCHANGED <<op, att, disk, answer, worker, keeper, late>>
  BY DEF Verify, At, Works, Working, OnlyCalls, Naming
<1>2. PICK pc \in {"release", "promoted", "isolate private"} :
        Goes(u, pc) /\ (pc = "promoted" => disk["private"][me[u].file] = me[u].image)
  BY DEF Verify
<1>3. me[u].file # Nothing
  BY <1>1, PlaceFacts
<1> QED BY <1>1, <1>2, <1>3, LooksOn DEF Working, Staging

\* The keys after a step.
LEMMA KeysFacts ==
  ASSUME NEW k \in Keys, NEW n \in Uploads \cup {Nothing}, NEW m \in Uploads \cup {Nothing}
  PROVE  /\ KeysWith(k, n, m) \in Keys /\ KeysWith(k, n, m)["staging"] = n /\ KeysWith(k, n, m)["private"] = m
         /\ Forgotten(k) \in Keys /\ Targeted(Forgotten(k)) /\ Forgotten(k)["staging"] = Nothing
BY DEF Keys, Areas, KeysWith, Forgotten, Targeted

\* A row that a process at work updates.
LEMMA TouchUpdates ==
  ASSUME EvidenceInv, NEW s \in {"PREPARING", "STAGED", "PROMOTED"}, NEW k \in Keys, Targeted(k),
         Touch(s, k, "held")
  PROVE  Updated(op')
<1>1. op \in Operation
  BY DEF EvidenceInv, LooseInv, EvidenceTypes
<1> QED BY <1>1 DEF Touch, Updated, Operation, Statuses

\* A file that is in its place is told of.
LEMMA ResumeStep == ASSUME EvidenceInv, NEW u \in Uploads, Resume(u) PROVE EvidenceInv'
<1> DEFINE m == [me[u] EXCEPT !.pc = "persist"]
<1>1. Works(u) /\ me[u].pc = "resume" /\ UNCHANGED <<att, disk, answer, worker, keeper, late>>
  BY DEF Resume, At, Works, Working, OnlyCalls
<1>2. me[u] \in Process(Steps)
  BY CallType
<1>3. m \in Process(Working \ {"duplicate", "drop", "settle"})
  BY <1>2 DEF Process, Working
<1>4. m.pc = "persist" /\ m.file = me[u].file /\ m.image = me[u].image /\ m.keys = me[u].keys
  BY <1>2 DEF Process
<1>5. me' = [me EXCEPT ![u] = m]
  BY DEF Resume, Goes
<1>6. Updated(op')
  BY CallType, TouchUpdates DEF Resume
<1>7. Copied(me[u], disk) => Copied(m, disk')
  BY <1>1, <1>4 DEF Copied
<1>8. Targeted(m.keys) /\ FilesOf(disk, disk') /\ m.file # Nothing
  BY <1>1, <1>4, CallType, PlaceFacts DEF FilesOf, Naming
<1>9. m.pc \notin Staging
  BY <1>4 DEF Staging
<1> HIDE DEF m
<1> QED BY <1>1, <1>3, <1>4, <1>5, <1>6, <1>7, <1>8, <1>9, GoesOn

\* Keys of files that are gone are forgotten.
LEMMA ResetStep == ASSUME EvidenceInv, NEW u \in Uploads, Reset(u) PROVE EvidenceInv'
<1> DEFINE m == [me[u] EXCEPT !.pc = "save", !.keys = Forgotten(me[u].keys)]
<1>1. Works(u) /\ me[u].pc = "reset" /\ UNCHANGED <<att, disk, answer, worker, keeper, late>>
  BY DEF Reset, At, Works, Working, OnlyCalls
<1>2. me[u] \in Process(Steps) /\ Forgotten(me[u].keys) \in Keys /\ Targeted(Forgotten(me[u].keys))
  BY CallType, KeysFacts
<1>3. m \in Process(Working \ {"duplicate", "drop", "settle"})
  BY <1>2 DEF Process, Working
<1>4. m.pc = "save" /\ m.image = me[u].image /\ m.keys = Forgotten(me[u].keys)
  BY <1>2 DEF Process
<1>5. me' = [me EXCEPT ![u] = m]
  BY <1>2 DEF Reset, Process
<1>6. Updated(op')
  BY <1>2, TouchUpdates DEF Reset
<1>7. Copied(me[u], disk) => Copied(m, disk')
  BY <1>4 DEF Copied
<1>8. Targeted(m.keys) /\ FilesOf(disk, disk')
  BY <1>1, <1>2, <1>4, CallType DEF FilesOf
<1>9. m.pc \notin Staging /\ m.pc \notin Naming
  BY <1>4 DEF Staging, Naming
<1> HIDE DEF m
<1> QED BY <1>1, <1>3, <1>4, <1>5, <1>6, <1>7, <1>8, <1>9, GoesOn

\* The staged file is told of.
LEMMA StagedStep == ASSUME EvidenceInv, NEW u \in Uploads, Staged(u) PROVE EvidenceInv'
<1> DEFINE m == [me[u] EXCEPT !.pc = "check"]
<1>1. Works(u) /\ me[u].pc = "staged" /\ UNCHANGED <<att, disk, answer, worker, keeper, late>>
  BY DEF Staged, At, Works, Working, OnlyCalls
<1>2. me[u] \in Process(Steps)
  BY CallType
<1>3. m \in Process(Working \ {"duplicate", "drop", "settle"})
  BY <1>2 DEF Process, Working
<1>4. m.pc = "check" /\ m.image = me[u].image /\ m.keys = me[u].keys
  BY <1>2 DEF Process
<1>5. me' = [me EXCEPT ![u] = m]
  BY DEF Staged, Goes
<1>6. Updated(op')
  BY CallType, TouchUpdates DEF Staged
<1>7. Copied(me[u], disk) => Copied(m, disk')
  BY <1>4 DEF Copied
<1>8. Targeted(m.keys) /\ FilesOf(disk, disk') /\ m.keys["staging"] # Nothing
  BY <1>1, <1>4, CallType, PlaceFacts DEF FilesOf, Staging
<1>9. m.pc \notin Naming
  BY <1>4 DEF Naming
<1> HIDE DEF m
<1> QED BY <1>1, <1>3, <1>4, <1>5, <1>6, <1>7, <1>8, <1>9, GoesOn

\* The promoted file is told of.
LEMMA PromotedStep == ASSUME EvidenceInv, NEW u \in Uploads, Promoted(u) PROVE EvidenceInv'
<1> DEFINE m == [me[u] EXCEPT !.pc = "clean"]
           k == KeysWith(me[u].keys, Nothing, me[u].file)
<1>1. Works(u) /\ me[u].pc = "promoted" /\ UNCHANGED <<att, disk, answer, worker, keeper, late>>
  BY DEF Promoted, At, Works, Working, OnlyCalls
<1>2. me[u] \in Process(Steps)
  BY CallType
<1>3. m \in Process(Working \ {"duplicate", "drop", "settle"})
  BY <1>2 DEF Process, Working
<1>4. m.pc = "clean" /\ m.file = me[u].file /\ m.image = me[u].image /\ m.keys = me[u].keys
  BY <1>2 DEF Process
<1>5. me' = [me EXCEPT ![u] = m]
  BY DEF Promoted, Goes
<1>6. Updated(op')
  <2>1. k \in Keys /\ Targeted(k)
    <3>1. me[u].keys \in Keys /\ me[u].file \in Uploads \cup {Nothing} /\ Nothing \in Uploads \cup {Nothing}
      BY CallType
    <3>2. k \in Keys /\ k["staging"] = Nothing
      BY <3>1, KeysFacts
    <3> QED BY <3>2 DEF Targeted
  <2>2. Touch("PROMOTED", k, "held")
    BY DEF Promoted
  <2> HIDE DEF k
  <2> QED BY <2>1, <2>2, TouchUpdates
<1>7. Copied(me[u], disk) => Copied(m, disk')
  BY <1>1, <1>4 DEF Copied
<1>8. Targeted(m.keys) /\ FilesOf(disk, disk') /\ m.file # Nothing
  BY <1>1, <1>4, CallType, PlaceFacts DEF FilesOf, Naming
<1>9. m.pc \notin Staging
  BY <1>4 DEF Staging
<1> HIDE DEF m
<1> QED BY <1>1, <1>3, <1>4, <1>5, <1>6, <1>7, <1>8, <1>9, GoesOn

\* What a step does to the files, other than the one saved from quarantine.
LEMMA PutFiles ==
  ASSUME EvidenceInv, NEW a \in Areas, NEW n, NEW x \in Contents, Put(a, n, x),
         a = "private" => n # "op"
  PROVE  FilesOf(disk, disk')
<1>1. disk \in [Areas -> [Names -> Contents]] /\ "op" \in Names /\ "private" \in Areas
  BY DEF EvidenceInv, LooseInv, EvidenceTypes, Names, Areas
<1> QED BY <1>1 DEF Put, FilesOf

\* Nor does a file that is moved take its place.
LEMMA RenameFiles ==
  ASSUME EvidenceInv, NEW a \in Areas, NEW b \in Areas, NEW n \in Uploads, NEW m \in Uploads, Rename(a, b, n, m)
  PROVE  FilesOf(disk, disk')
<1>1. disk \in [Areas -> [Names -> Contents]] /\ "op" \in Names /\ "private" \in Areas /\ "op" \notin Uploads
      /\ disk[a][n] \in Contents /\ Nothing \in Contents
  BY NothingElse DEF EvidenceInv, LooseInv, EvidenceTypes, Names, Areas, Contents
<1> DEFINE d == [disk EXCEPT ![b][m] = disk[a][n]]
<1>2. d \in [Areas -> [Names -> Contents]] /\ d["private"]["op"] = disk["private"]["op"]
  BY <1>1
<1>3. disk' = [d EXCEPT ![a][n] = Nothing]
  BY DEF Rename
<1> HIDE DEF d
<1> QED BY <1>1, <1>2, <1>3 DEF FilesOf

\* Nor one that is written.
LEMMA WritesFiles ==
  ASSUME EvidenceInv, NEW a \in Areas, NEW n \in Uploads, NEW x \in Images \cup {Nothing}, Writes(a, n, x)
  PROVE  FilesOf(disk, disk')
BY NothingElse, PutFiles DEF Writes, Contents

\* A file is staged under the name of the call.
LEMMA SaveStep == ASSUME EvidenceInv, NEW u \in Uploads, Save(u) PROVE EvidenceInv'
<1> DEFINE k == KeysWith(me[u].keys, u, u)
           m == [me[u] EXCEPT !.pc = "staged", !.keys = k]
<1>1. Works(u) /\ UNCHANGED <<op, att, answer, worker, keeper, late>>
  BY DEF Save, At, Works, Working, OnlyCalls
<1>2. me[u] \in Process(Steps) /\ k \in Keys /\ k["staging"] = u /\ k["private"] = u
  <2>1. me[u].keys \in Keys /\ u \in Uploads \cup {Nothing} /\ me[u] \in Process(Steps)
    BY CallType
  <2> QED BY <2>1, KeysFacts
<1>3. m \in Process(Working \ {"duplicate", "drop", "settle"})
  BY <1>2 DEF Process, Working
<1>4. m.pc = "staged" /\ m.image = me[u].image /\ m.keys = k
  BY <1>2 DEF Process
<1>5. me' = [me EXCEPT ![u] = m]
  BY <1>2 DEF Save, Process
<1>6. FilesOf(disk, disk')
  BY CallType, WritesFiles DEF Save, Areas
<1>7. Copied(me[u], disk) => Copied(m, disk')
  BY <1>4 DEF Copied
<1>8. Targeted(m.keys) /\ m.keys["staging"] # Nothing
  BY <1>2, <1>4, NothingElse DEF Targeted
<1>9. m.pc \notin Naming
  BY <1>4 DEF Naming
<1> HIDE DEF m
<1> QED BY <1>1, <1>3, <1>4, <1>5, <1>6, <1>7, <1>8, <1>9, GoesOn

\* A call at work that changed a file and keeps its keys.
LEMMA FileStep ==
  ASSUME EvidenceInv, NEW u \in Uploads, Works(u), NEW pc \in Working \ {"duplicate", "drop", "settle"},
         NEW file \in Uploads,
         me' = [me EXCEPT ![u] = [me[u] EXCEPT !.pc = pc, !.file = file]],
         UNCHANGED <<op, att, answer, worker, keeper, late>>,
         FilesOf(disk, disk'), pc \notin Staging,
         pc \in {"resume", "promoted", "clean", "persist"} =>
           (Copied(me[u], disk) => disk'["private"][file] = me[u].image)
  PROVE  EvidenceInv'
<1> DEFINE m == [me[u] EXCEPT !.pc = pc, !.file = file]
<1>1. me[u] \in Process(Steps) /\ file # Nothing
  BY CallType, NothingElse
<1>2. m \in Process(Working \ {"duplicate", "drop", "settle"})
  BY <1>1 DEF Process
<1>3. m.pc = pc /\ m.file = file /\ m.image = me[u].image /\ m.keys = me[u].keys
  BY <1>1 DEF Process
<1>4. me' = [me EXCEPT ![u] = m]
  OBVIOUS
<1> HIDE DEF m
<1>5. Copied(me[u], disk) => Copied(m, disk')
  BY <1>3 DEF Copied
<1>6. Targeted(m.keys) /\ m.file # Nothing /\ m.pc \notin Staging
  BY <1>1, <1>3, CallType
<1> QED BY <1>2, <1>3, <1>4, <1>5, <1>6, GoesOn

\* A file is promoted, and not yet verified.
LEMMA MoveStep == ASSUME EvidenceInv, NEW u \in Uploads, Move(u) PROVE EvidenceInv'
<1> DEFINE n == me[u].keys["staging"]
           t == me[u].file
<1>1. Works(u) /\ me[u].pc \in Naming /\ UNCHANGED <<op, att, answer, worker, keeper, late>>
  BY DEF Move, At, Works, Working, OnlyCalls, Naming
<1>2. t \in Uploads /\ n \in Uploads \cup {Nothing}
  BY <1>1, CallType, PlaceFacts
<1>3. PICK pc \in {"verify", "release"} : Goes(u, pc)
  BY DEF Move
<1>4. me' = [me EXCEPT ![u] = [me[u] EXCEPT !.pc = pc, !.file = t]]
  BY <1>3, CallType DEF Goes, Process
<1>5. FilesOf(disk, disk')
  <2>1. CASE Exists("staging", n) /\ Rename("staging", "private", n, t)
    BY <1>2, <2>1, RenameFiles DEF Exists, Areas
  <2>2. CASE Writes("private", t, me[u].image)
    BY <1>2, <2>2, CallType, WritesFiles DEF Areas
  <2>3. CASE disk' = disk
    BY <2>3, CallType DEF FilesOf
  <2> QED BY <2>1, <2>2, <2>3 DEF Move, Promote
<1>6. /\ pc \in Working \ {"duplicate", "drop", "settle"} /\ pc \notin Staging
      /\ pc \notin {"resume", "promoted", "clean", "persist"}
  BY <1>3 DEF Working, Staging
<1> HIDE DEF t
<1> QED BY <1>1, <1>2, <1>4, <1>5, <1>6, FileStep

\* The staged file is removed; the promoted one stays.
LEMMA CleanStep == ASSUME EvidenceInv, NEW u \in Uploads, Clean(u) PROVE EvidenceInv'
<1> DEFINE t == me[u].file
<1>1. Works(u) /\ me[u].pc = "clean" /\ UNCHANGED <<op, att, answer, worker, keeper, late>>
  BY DEF Clean, At, Works, Working, OnlyCalls
<1>2. t \in Uploads
  BY <1>1, CallType, PlaceFacts DEF Naming
<1>3. me' = [me EXCEPT ![u] = [me[u] EXCEPT !.pc = "persist", !.file = t]]
  BY CallType DEF Clean, Goes, Process
<1>4. FilesOf(disk, disk')
  BY PutFiles DEF Clean, Contents, Areas
<1>5. disk'["private"] = disk["private"]
  BY CallType DEF Clean, Put, Areas
<1>6. Copied(me[u], disk) => disk'["private"][t] = me[u].image
  BY <1>1, <1>5 DEF Copied
<1>7. "persist" \in Working \ {"duplicate", "drop", "settle"} /\ "persist" \notin Staging
  BY DEF Working, Staging
<1> HIDE DEF t
<1> QED BY <1>1, <1>2, <1>3, <1>4, <1>6, <1>7, FileStep

\* A file is isolated: the call has nothing ready.
LEMMA IsolateStep ==
  ASSUME EvidenceInv, NEW u \in Uploads, NEW a \in DOMAIN IsolateAt, Isolate(u, a)
  PROVE  EvidenceInv'
<1> DEFINE area == IF a = "staging" THEN "staging" ELSE "private"
           n == IF a = "staging" THEN me[u].keys["staging"] ELSE me[u].file
<1>1. a \in {"staging", "private", "target"} /\ me[u].pc = IsolateAt[a]
      /\ UNCHANGED <<op, att, answer, worker, keeper, late>>
  BY DEF Isolate, IsolateAt, At, OnlyCalls
<1>2. Works(u) /\ (a = "staging" => me[u].pc \in Staging) /\ (a # "staging" => me[u].pc \in Naming)
  <2>1. me[u].pc = IF a = "staging" THEN "isolate staging"
                   ELSE IF a = "private" THEN "isolate private" ELSE "isolate target"
    <3>1. IsolateAt["staging"] = "isolate staging" /\ IsolateAt["private"] = "isolate private"
          /\ IsolateAt["target"] = "isolate target"
      BY DEF IsolateAt
    <3> QED BY <1>1, <3>1
  <2> QED BY <1>1, <2>1 DEF Works, Working, Staging, Naming
<1>3. n \in Uploads
  BY <1>2, CallType, PlaceFacts
<1>4. CASE Exists(area, n)
  <2>1. PICK pc \in {"isolated", "isolated, move"} :
          me' = [me EXCEPT ![u] = [me[u] EXCEPT !.pc = pc, !.file = n]]
    BY <1>4, CallType DEF Isolate, Process
  <2>2. Rename(area, "quarantine", n, n)
    BY <1>4 DEF Isolate
  <2>3. FilesOf(disk, disk')
    BY <1>3, <2>2, RenameFiles DEF Areas
  <2>4. /\ pc \in Working \ {"duplicate", "drop", "settle"} /\ pc \notin Staging
        /\ pc \notin {"resume", "promoted", "clean", "persist"}
    BY <2>1 DEF Working, Staging
  <2> HIDE DEF n
  <2> QED BY <1>1, <1>2, <1>3, <2>1, <2>3, <2>4, FileStep
<1>5. CASE ~Exists(area, n)
  <2>1. Goes(u, "release") /\ disk' = disk
    BY <1>5 DEF Isolate
  <2> QED BY <1>1, <1>2, <2>1, LooksOn DEF Working, Staging, Naming
<1> QED BY <1>4, <1>5

\* The row is told that its file is in quarantine.
LEMMA IsolatedStep == ASSUME EvidenceInv, NEW u \in Uploads, Isolated(u) PROVE EvidenceInv'
<1> DEFINE k == [me[u].keys EXCEPT !["quarantine"] = me[u].file]
<1>1. Works(u) /\ me[u].pc \in Naming /\ UNCHANGED <<att, disk, answer, worker, keeper, late>>
  BY DEF Isolated, Works, Working, OnlyCalls, Naming
<1>2. me[u] \in Process(Steps) /\ me[u].file # Nothing
  BY <1>1, CallType, PlaceFacts
<1>3. PICK pc \in {"release", "move"} : me' = [me EXCEPT ![u] = [me[u] EXCEPT !.pc = pc, !.keys = k]]
  BY <1>2 DEF Isolated, Process
<1> DEFINE m == [me[u] EXCEPT !.pc = pc, !.keys = k]
<1>4. k \in Keys /\ Targeted(k)
  BY CallType DEF Keys, Targeted, Areas
<1>5. m \in Process(Working \ {"duplicate", "drop", "settle"})
  BY <1>2, <1>3, <1>4 DEF Process, Working
<1>6. m.pc = pc /\ m.file = me[u].file /\ m.image = me[u].image /\ m.keys = k
  BY <1>2 DEF Process
<1>7. Updated(op')
  <2> DEFINE q == [Forgotten(op.keys) EXCEPT !["quarantine"] = me[u].file]
  <2>1. op \in Operation /\ op.keys \in Keys /\ op.attempts \in Nat
    BY CallType DEF Operation
  <2>2. q \in Keys /\ Targeted(q)
    <3>1. Forgotten(op.keys) \in Keys /\ Forgotten(op.keys)["staging"] = Nothing
      BY <2>1, KeysFacts
    <3> QED BY <3>1, CallType DEF Keys, Targeted, Areas
  <2>3. op' = [op EXCEPT !.status = "QUARANTINED", !.lease = "none", !.recent = TRUE,
                         !.attempts = op.attempts + 1, !.keys = q]
    BY <2>1 DEF Isolated, Operation
  <2> HIDE DEF q
  <2>4. op.attempts + 1 \in Nat
    BY <2>1
  <2>5. op' \in Operation
    BY <2>1, <2>2, <2>3, <2>4 DEF Operation, Statuses
  <2>6. op'.status = "QUARANTINED" /\ op'.image = op.image /\ op'.keys = q
    BY <2>1, <2>3 DEF Operation
  <2> QED BY <2>2, <2>5, <2>6 DEF Updated
<1>8. Copied(me[u], disk) => Copied(m, disk')
  BY <1>3, <1>6 DEF Copied
<1>9. FilesOf(disk, disk') /\ m.pc \notin Staging
  BY <1>1, <1>3, <1>6, CallType DEF FilesOf, Staging
<1> HIDE DEF m, k
<1>10. me' = [me EXCEPT ![u] = m]
  BY <1>3 DEF m
<1> QED BY <1>1, <1>2, <1>4, <1>5, <1>6, <1>7, <1>8, <1>9, <1>10, GoesOn

\* A call at work answers.
LEMMA AnswerStep ==
  ASSUME EvidenceInv, NEW u \in Uploads, Works(u), NEW x \in {"OK", "REUSED", "ERROR", "LOST"}, Answers(u, x),
         UNCHANGED <<worker, keeper, late>>,
         Grows(op, att, op', att'), FilesOf(disk, disk'), att' # att => att'.file # "op",
         x = "OK" => att' # Nothing /\ att'.image = me[u].image,
         Locks(op, att) /\ Copied(me[u], disk) => Recorded(op', att', disk')
  PROVE  EvidenceInv'
<1> DEFINE m == [me[u] EXCEPT !.pc = "done"]
<1>1. me[u] \in Process(Steps) /\ me[u].image \in Images /\ Targeted(me[u].keys)
  BY CallType DEF CallInv, Works, Working
<1>2. m \in Process(Steps) /\ m.pc = "done" /\ m.image = me[u].image /\ m.keys = me[u].keys
  BY <1>1 DEF Process, Steps, Waiting
<1>3. me' = [me EXCEPT ![u] = m] /\ answer' = [answer EXCEPT ![u] = x] /\ x \in Answered
  BY DEF Answers, Goes, Answered
<1>4. CallInv(m, x, op', att')
  BY <1>1, <1>2 DEF CallInv, Staging, Naming
<1>5. m.pc \notin Working
  BY <1>2 DEF Working
<1> HIDE DEF m
<1> QED BY <1>2, <1>3, <1>4, <1>5, WorkStep

\* The types of the row, and what it keeps when it is unleased or completed.
LEMMA RowFacts ==
  ASSUME EvidenceInv
  PROVE  /\ op \in Operation /\ att \in Evidence \cup {Nothing} /\ op.keys \in Keys /\ RowInv(op, att)
         /\ Grows(op, att, op, att) /\ FilesOf(disk, disk)
BY DEF EvidenceInv, LooseInv, EvidenceTypes, Operation, Grows, FilesOf

\* Giving up the lease keeps the rest of the row.
LEMMA UnleasedGrows == ASSUME EvidenceInv, op' = Unleased, att' = att PROVE Grows(op, att, op', att')
<1>1. op' \in Operation /\ op'.status = op.status /\ op'.image = op.image /\ op'.keys = op.keys
  <2>1. op \in Operation /\ op.attempts + 1 \in Nat
    BY RowFacts DEF Operation
  <2>2. CASE op' = op
    BY <2>1, <2>2
  <2>3. CASE op' = [op EXCEPT !.lease = "none", !.recent = TRUE, !.attempts = op.attempts + 1]
    BY <2>1, <2>3 DEF Operation
  <2> QED BY <2>2, <2>3 DEF Unleased
<1> QED BY <1>1, RowFacts DEF Grows, RowInv

\* A row is completed together with its evidence.
LEMMA CompletedGrows ==
  ASSUME EvidenceInv, NEW k \in Keys, Targeted(k), Touch("COMPLETED", k, "none"), op.status # "NONE",
         att' \in Evidence, att # Nothing => att' = att
  PROVE  Grows(op, att, op', att') /\ op'.status = "COMPLETED"
<1>1. op' \in Operation /\ op'.status = "COMPLETED" /\ op'.image = op.image /\ op'.keys = k
  BY RowFacts DEF Touch, Operation, Statuses
<1> QED BY <1>1, RowFacts, NothingElse DEF Grows, RowInv

\* The evidence is written, with a file that was found to hold the image.
LEMMA PersistStep == ASSUME EvidenceInv, NEW u \in Uploads, Persist(u) PROVE EvidenceInv'
<1>1. Works(u) /\ me[u].pc = "persist" /\ UNCHANGED <<disk, worker, keeper, late>>
  BY DEF Persist, At, Works, Working, OnlyCalls
<1>2. me[u].file \in Uploads /\ me[u].image \in Images /\ op.status # "NONE"
  BY <1>1, CallType, PlaceFacts DEF Naming, CallInv
<1>3. CASE att = Nothing /\ att' = Row(u) /\ Touch("COMPLETED", op.keys, "none") /\ Answers(u, "OK")
  <2>1. Row(u) \in Evidence /\ Row(u).image = me[u].image /\ Row(u).file = me[u].file /\ me[u].file # "op"
    BY <1>2, NothingElse DEF Row, Evidence, Names
  <2>2. Grows(op, att, op', att') /\ op'.status = "COMPLETED"
    BY <1>2, <1>3, <2>1, RowFacts, CompletedGrows DEF RowInv
  <2>3. Copied(me[u], disk) => Recorded(op', att', disk')
    BY <1>1, <1>3, <2>1, <2>2 DEF Copied, Recorded
  <2>4. FilesOf(disk, disk') /\ att' # Nothing
    BY <1>1, <1>3, <2>1, RowFacts, NothingElse
  <2> QED BY <1>1, <1>3, <2>1, <2>2, <2>3, <2>4, AnswerStep
<1>4. CASE Goes(u, "release") /\ UNCHANGED <<op, att, answer>>
  BY <1>1, <1>4, LooksOn DEF Working, Staging, Naming
<1>5. CASE att # Nothing /\ Goes(u, "duplicate") /\ UNCHANGED <<op, att, answer>>
  <2> DEFINE m == [me[u] EXCEPT !.pc = "duplicate"]
             x == answer[u]
  <2>1. me[u] \in Process(Steps) /\ x \in Answered /\ answer' = [answer EXCEPT ![u] = x]
    BY <1>5, CallType DEF EvidenceInv, LooseInv, EvidenceTypes
  <2>2. m \in Process(Steps) /\ m.pc = "duplicate" /\ m.image = me[u].image /\ m.keys = me[u].keys
        /\ m.file = me[u].file
    BY <2>1 DEF Process, Steps, Working
  <2>3. me' = [me EXCEPT ![u] = m]
    BY <1>5 DEF Goes
  <2>4. CallInv(m, x, op', att')
    BY <1>1, <1>2, <1>5, <2>2, CallType, NothingElse DEF CallInv, Staging, Naming
  <2>5. Grows(op, att, op', att') /\ FilesOf(disk, disk') /\ ~Locks(op, att)
    BY <1>1, <1>5, RowFacts DEF Locks
  <2> HIDE DEF m, x
  <2> QED BY <1>1, <1>5, <2>1, <2>2, <2>3, <2>4, <2>5, WorkStep
<1> QED BY <1>3, <1>4, <1>5 DEF Persist

\* A call that gives up.
LEMMA ReleaseStep == ASSUME EvidenceInv, NEW u \in Uploads, Release(u) PROVE EvidenceInv'
<1>1. Works(u) /\ UNCHANGED <<att, disk, worker, keeper, late>> /\ op' = Unleased /\ Answers(u, "ERROR")
  BY DEF Release, At, Works, Working, OnlyCalls
<1>2. Grows(op, att, op', att') /\ FilesOf(disk, disk')
  BY <1>1, UnleasedGrows, RowFacts
<1>3. Locks(op, att) => Recorded(op', att', disk')
  BY <1>1 DEF Locks, Recorded
<1> QED BY <1>1, <1>2, <1>3, AnswerStep

\* A call that finds evidence already there was late, or was overtaken by hand.
LEMMA DuplicateStep == ASSUME EvidenceInv, NEW u \in Uploads, Duplicate(u) PROVE EvidenceInv'
<1> DEFINE m == [me[u] EXCEPT !.pc = "drop"]
           x == answer[u]
<1>1. Works(u) /\ me[u].pc = "duplicate" /\ UNCHANGED <<att, disk, answer, worker, keeper, late>> /\ op' = Unleased
  BY DEF Duplicate, At, Works, Working, OnlyCalls
<1>2. att # Nothing /\ me[u].file # Nothing /\ op.status # "NONE" /\ op.image = me[u].image /\ me[u].image \in Images
      /\ x = Nothing
  BY <1>1, CallType DEF CallInv, Naming
<1>3. me[u] \in Process(Steps) /\ x \in Answered /\ answer' = [answer EXCEPT ![u] = x]
  BY <1>1, CallType DEF EvidenceInv, LooseInv, EvidenceTypes
<1>4. m \in Process(Steps) /\ m.pc = "drop" /\ m.image = me[u].image /\ m.keys = me[u].keys /\ m.file = me[u].file
  BY <1>3 DEF Process, Steps, Working
<1>5. me' = [me EXCEPT ![u] = m]
  BY DEF Duplicate, Goes
<1>6. Grows(op, att, op', att') /\ FilesOf(disk, disk') /\ ~Locks(op, att)
  BY <1>1, <1>2, UnleasedGrows, RowFacts DEF Locks
<1>7. CallInv(m, x, op', att')
  BY <1>1, <1>2, <1>4, <1>6, CallType, NothingElse DEF CallInv, Staging, Naming, Grows
<1> HIDE DEF m, x
<1> QED BY <1>1, <1>3, <1>4, <1>5, <1>6, <1>7, WorkStep

\* It deletes the file that it promoted; the one saved from quarantine has another name.
LEMMA DropStep == ASSUME EvidenceInv, NEW u \in Uploads, Drop(u) PROVE EvidenceInv'
<1> DEFINE m == [me[u] EXCEPT !.pc = "settle"]
           x == answer[u]
<1>1. Works(u) /\ me[u].pc = "drop" /\ UNCHANGED <<op, att, worker, keeper, late>>
      /\ Put("private", me[u].file, Nothing)
  BY DEF Drop, At, Works, Working, OnlyCalls
<1>2. att # Nothing /\ me[u].file \in Uploads /\ op.status # "NONE" /\ op.image = me[u].image
      /\ me[u].image \in Images /\ x = Nothing
  BY <1>1, CallType DEF CallInv, Naming
<1>3. FilesOf(disk, disk') /\ Grows(op, att, op', att') /\ ~Locks(op, att)
  BY <1>1, <1>2, PutFiles, RowFacts, NothingElse DEF Contents, Areas, Locks
<1>4. CASE att.image = me[u].image /\ Goes(u, "settle") /\ UNCHANGED answer
  <2>1. me[u] \in Process(Steps) /\ x \in Answered /\ answer' = [answer EXCEPT ![u] = x]
    BY <1>4, CallType DEF EvidenceInv, LooseInv, EvidenceTypes
  <2>2. m \in Process(Steps) /\ m.pc = "settle" /\ m.image = me[u].image /\ m.keys = me[u].keys
    BY <2>1 DEF Process, Steps, Working
  <2>3. me' = [me EXCEPT ![u] = m]
    BY <1>4 DEF Goes
  <2>4. CallInv(m, x, op', att')
    BY <1>1, <1>2, <1>4, <2>2, CallType, NothingElse DEF CallInv, Staging, Naming
  <2> HIDE DEF m, x
  <2> QED BY <1>1, <1>3, <2>1, <2>2, <2>3, <2>4, WorkStep
<1>5. CASE Answers(u, "REUSED")
  BY <1>1, <1>3, <1>5, AnswerStep
<1> QED BY <1>4, <1>5 DEF Drop

\* It completes the row of the evidence that is there.
LEMMA SettleStep == ASSUME EvidenceInv, NEW u \in Uploads, Settle(u) PROVE EvidenceInv'
<1>1. Works(u) /\ me[u].pc = "settle" /\ UNCHANGED <<att, disk, worker, keeper, late>>
      /\ Touch("COMPLETED", Forgotten(op.keys), "none") /\ Answers(u, "OK")
  BY DEF Settle, At, Works, Working, OnlyCalls
<1>2. att # Nothing /\ att.image = me[u].image /\ op.status # "NONE"
  BY <1>1, CallType DEF CallInv
<1>3. Forgotten(op.keys) \in Keys /\ Targeted(Forgotten(op.keys)) /\ att \in Evidence
  BY <1>2, RowFacts, KeysFacts
<1>4. Grows(op, att, op', att') /\ FilesOf(disk, disk') /\ ~Locks(op, att)
  BY <1>1, <1>2, <1>3, CompletedGrows, RowFacts DEF Locks
<1> QED BY <1>1, <1>2, <1>4, AnswerStep

\* A call without a lease answers.
LEMMA RefusalStep ==
  ASSUME EvidenceInv, NEW u \in Uploads, me[u].pc \in {"find", "acquire", "claim", "completed"},
         NEW x \in {"OK", "REUSED", "ERROR", "IN_PROGRESS", "LOST"}, Answers(u, x),
         UNCHANGED <<worker, keeper, late, disk, att>>,
         Grows(op, att, op', att'), op'.status = op.status, op.lease = "held" => op'.lease = "held",
         x = "OK" => att # Nothing /\ att.image = me[u].image
  PROVE  EvidenceInv'
<1> DEFINE m == [me[u] EXCEPT !.pc = "done"]
<1>1. me[u] \in Process(Steps) /\ me[u].image \in Images /\ Targeted(me[u].keys) /\ ~Works(u)
  BY CallType DEF CallInv, Works, Working
<1>2. m \in Process(Waiting) /\ m.pc = "done" /\ m.image = me[u].image /\ m.keys = me[u].keys
  BY <1>1 DEF Process, Waiting
<1>3. me' = [me EXCEPT ![u] = m] /\ answer' = [answer EXCEPT ![u] = x] /\ x \in Answered
  BY DEF Answers, Goes, Answered
<1>4. CallInv(m, x, op', att')
  BY <1>1, <1>2 DEF CallInv, Staging, Naming
<1> HIDE DEF m
<1> QED BY <1>1, <1>2, <1>3, <1>4, WaitStep

\* A call without a lease goes on without one.
LEMMA QueryStep ==
  ASSUME EvidenceInv, NEW u \in Uploads, me[u].pc \in {"find", "acquire", "claim", "completed"},
         NEW pc \in {"acquire", "claim", "completed"}, NEW k \in Keys, Targeted(k),
         me' = [me EXCEPT ![u] = [me[u] EXCEPT !.pc = pc, !.keys = k]],
         UNCHANGED <<answer, worker, keeper, late, disk, att>>,
         Grows(op, att, op', att'), op'.status = op.status, op.lease = "held" => op'.lease = "held",
         pc # "acquire" => op'.status # "NONE" /\ op'.image = me[u].image
  PROVE  EvidenceInv'
<1> DEFINE m == [me[u] EXCEPT !.pc = pc, !.keys = k]
           x == answer[u]
<1>1. me[u] \in Process(Steps) /\ me[u].image \in Images /\ ~Works(u) /\ x = Nothing
      /\ x \in Answered /\ answer' = [answer EXCEPT ![u] = x]
  BY CallType DEF CallInv, Works, Working, EvidenceInv, LooseInv, EvidenceTypes
<1>2. m \in Process(Waiting) /\ m.pc = pc /\ m.image = me[u].image /\ m.keys = k
  BY <1>1 DEF Process, Waiting
<1>3. me' = [me EXCEPT ![u] = m]
  OBVIOUS
<1>4. CallInv(m, x, op', att')
  BY <1>1, <1>2, NothingElse DEF CallInv, Staging, Naming
<1> HIDE DEF m, x
<1> QED BY <1>1, <1>2, <1>3, <1>4, WaitStep

\* A call arrives.
LEMMA CallStep == ASSUME EvidenceInv, NEW u \in Uploads, NEW c \in Images, Call(u, c) PROVE EvidenceInv'
<1> DEFINE m == [Resting EXCEPT !.pc = "find", !.image = c]
           x == answer[u]
<1>1. me[u].pc = "idle" /\ UNCHANGED <<op, att, disk, answer, worker, keeper, late>> /\ me' = [me EXCEPT ![u] = m]
  BY DEF Call, At, OnlyCalls
<1>2. x = Nothing /\ x \in Answered /\ answer' = [answer EXCEPT ![u] = x] /\ ~Works(u)
  BY <1>1, CallType DEF CallInv, Works, Working, EvidenceInv, LooseInv, EvidenceTypes
<1>3. m \in Process(Waiting) /\ m.pc = "find" /\ m.image = c /\ Targeted(m.keys)
  <2>1. NoKeys \in Keys /\ Targeted(NoKeys)
    BY DEF NoKeys, Keys, Targeted, Areas
  <2> QED BY <2>1 DEF Process, Waiting, Resting
<1>4. CallInv(m, x, op', att')
  BY <1>2, <1>3, NothingElse DEF CallInv, Staging, Naming
<1>5. Grows(op, att, op', att')
  BY <1>1, RowFacts
<1> HIDE DEF m, x
<1> QED BY <1>1, <1>2, <1>3, <1>4, <1>5, WaitStep

\* The evidence that the key has answers.
LEMMA FindPriorStep == ASSUME EvidenceInv, NEW u \in Uploads, FindPrior(u) PROVE EvidenceInv'
<1>1. me[u].pc = "find" /\ UNCHANGED <<op, att, disk, worker, keeper, late>>
  BY DEF FindPrior, At, OnlyCalls
<1>2. Grows(op, att, op', att')
  BY <1>1, RowFacts
<1>3. CASE att # Nothing /\ AnswersPrior(u)
  BY <1>1, <1>2, <1>3, RefusalStep DEF AnswersPrior
<1>4. CASE Goes(u, "acquire") /\ UNCHANGED answer
  <2>1. me' = [me EXCEPT ![u] = [me[u] EXCEPT !.pc = "acquire", !.keys = me[u].keys]]
    BY <1>4, CallType DEF Goes, Process
  <2> QED BY <1>1, <1>2, <1>4, <2>1, CallType, QueryStep
<1> QED BY <1>3, <1>4 DEF FindPrior

\* Likewise after the row was found completed.
LEMMA CompletedStep == ASSUME EvidenceInv, NEW u \in Uploads, Completed(u) PROVE EvidenceInv'
<1>1. me[u].pc = "completed" /\ UNCHANGED <<op, att, disk, worker, keeper, late>>
  BY DEF Completed, At, OnlyCalls
<1>2. Grows(op, att, op', att')
  BY <1>1, RowFacts
<1> QED BY <1>1, <1>2, RefusalStep DEF Completed, AnswersPrior

\* The row is inserted, where nobody can be at work, or read.
LEMMA AcquireStep == ASSUME EvidenceInv, NEW u \in Uploads, Acquire(u) PROVE EvidenceInv'
<1>1. me[u].pc = "acquire" /\ UNCHANGED <<att, disk, worker, keeper, late>>
  BY DEF Acquire, At, OnlyCalls
<1>2. me[u] \in Process(Steps) /\ me[u].image \in Images /\ Targeted(me[u].keys) /\ answer[u] = Nothing
  BY <1>1, CallType DEF CallInv
<1>3. CASE op.status = "NONE"
  <2> DEFINE m == [me[u] EXCEPT !.pc = "stage"]
             o == [NoRow EXCEPT !.status = "PREPARING", !.image = me[u].image,
                                !.lease = "held", !.recent = TRUE]
  <2>1. op' = o /\ me' = [me EXCEPT ![u] = m] /\ UNCHANGED answer
    BY <1>3 DEF Acquire, Goes
  <2>2. m \in Process({"stage"}) /\ m.pc = "stage" /\ m.image = me[u].image /\ m.keys = me[u].keys
    BY <1>2 DEF Process
  <2>3. NoKeys \in Keys /\ Targeted(NoKeys)
    BY DEF NoKeys, Keys, Targeted, Areas
  <2>4. o \in Operation /\ o.status = "PREPARING" /\ o.image = me[u].image /\ o.lease = "held" /\ o.keys = NoKeys
    BY <1>2, <2>3 DEF NoRow, Operation, Statuses
  <2>5. att = Nothing
    BY <1>3, RowFacts DEF RowInv
  <2> HIDE DEF m, o
  <2>6. Grows(op, att, op', att')
    BY <1>1, <1>2, <1>3, <2>1, <2>3, <2>4, <2>5, RowFacts DEF Grows, RowInv
  <2>7. CallInv(m, answer[u], op', att')
    BY <1>2, <2>1, <2>2, <2>4, NothingElse DEF CallInv, Staging, Naming
  <2> QED BY <1>1, <1>3, <2>1, <2>2, <2>4, <2>6, <2>7, StartStep
<1>4. CASE op.status # "NONE"
  <2>1. op' = op /\ Grows(op, att, op', att')
    BY <1>1, <1>4, RowFacts DEF Acquire
  <2>2. CASE \E x \in {"REUSED", "ERROR", "IN_PROGRESS"} : Answers(u, x)
    BY <1>1, <2>1, <2>2, RefusalStep
  <2>3. CASE op.image = me[u].image /\ UNCHANGED answer /\ \E pc \in {"completed", "claim"} : Goes(u, pc)
    <3>1. PICK pc \in {"completed", "claim"} : Goes(u, pc)
      BY <2>3
    <3>2. me' = [me EXCEPT ![u] = [me[u] EXCEPT !.pc = pc, !.keys = me[u].keys]]
      BY <3>1, CallType DEF Goes, Process
    <3> QED BY <1>1, <1>4, <2>1, <2>3, <3>2, CallType, QueryStep
  <2> QED BY <1>4, <2>2, <2>3 DEF Acquire
<1> QED BY <1>3, <1>4

\* The lease is claimed where it is free: nobody is at work.
LEMMA ClaimCallStep == ASSUME EvidenceInv, NEW u \in Uploads, ClaimCall(u) PROVE EvidenceInv'
<1>1. me[u].pc = "claim" /\ UNCHANGED <<att, disk, worker, keeper, late>>
  BY DEF ClaimCall, At, OnlyCalls
<1>2. me[u] \in Process(Steps) /\ me[u].image \in Images /\ answer[u] = Nothing
      /\ op.status # "NONE" /\ op.image = me[u].image
  BY <1>1, CallType DEF CallInv
<1>3. op.keys \in Keys /\ Targeted(op.keys)
  BY RowFacts DEF RowInv
<1>4. CASE ~LeaseFree
  <2>1. Answers(u, "IN_PROGRESS") /\ op' = op /\ Grows(op, att, op', att')
    BY <1>1, <1>4, RowFacts DEF ClaimCall
  <2> QED BY <1>1, <2>1, RefusalStep
<1>5. CASE LeaseFree
  <2>1. op' = [op EXCEPT !.lease = "held", !.recent = TRUE, !.attempts = op.attempts + 1]
    BY <1>5 DEF ClaimCall
  <2>2. op \in Operation /\ op.attempts + 1 \in Nat
    BY RowFacts DEF Operation
  <2>3. op' \in Operation /\ op'.lease = "held" /\ op'.status = op.status /\ op'.image = op.image /\ op'.keys = op.keys
    BY <2>1, <2>2 DEF Operation
  <2>4. Grows(op, att, op', att')
    BY <1>1, <2>3, RowFacts DEF Grows, RowInv
  <2>5. CASE op.status = "QUARANTINED"
    BY <1>1, <1>5, <2>3, <2>4, <2>5, RefusalStep DEF ClaimCall
  <2>6. CASE op.status = "COMPLETED"
    <3>1. UNCHANGED answer /\ me' = [me EXCEPT ![u].keys = op.keys, ![u].pc = "completed"]
      BY <1>5, <2>6 DEF ClaimCall
    <3>2. me' = [me EXCEPT ![u] = [me[u] EXCEPT !.pc = "completed", !.keys = op.keys]]
      BY <3>1, CallType DEF Process
    <3> QED BY <1>1, <1>2, <1>3, <2>3, <2>4, <3>1, <3>2, QueryStep
  <2>7. CASE op.status \notin {"QUARANTINED", "COMPLETED"}
    <3> DEFINE m == [me[u] EXCEPT !.pc = "stage", !.keys = op.keys]
    <3>1. UNCHANGED answer /\ me' = [me EXCEPT ![u].keys = op.keys, ![u].pc = "stage"]
      BY <1>5, <2>7 DEF ClaimCall
    <3>2. me' = [me EXCEPT ![u] = m]
      BY <3>1, CallType DEF Process
    <3>3. m \in Process({"stage"}) /\ m.pc = "stage" /\ m.image = me[u].image /\ m.keys = op.keys
      BY <1>2, <1>3 DEF Process
    <3>4. CallInv(m, answer[u], op', att')
      BY <1>2, <1>3, <2>3, <3>3, NothingElse DEF CallInv, Staging, Naming
    <3>5. op.lease # "held"
      BY <1>5 DEF LeaseFree
    <3> HIDE DEF m
    <3> QED BY <1>1, <2>3, <2>4, <2>7, <3>1, <3>2, <3>3, <3>4, <3>5, StartStep
  <2> QED BY <2>5, <2>6, <2>7
<1> QED BY <1>4, <1>5

\* A step of a call.
LEMMA CallWorksStep == ASSUME EvidenceInv, NEW u \in Uploads, CallWorks(u) PROVE EvidenceInv'
BY FindPriorStep, AcquireStep, ClaimCallStep, CompletedStep, StageStep, ResumeStep, ResetStep, SaveStep, StagedStep,
   CheckStep, TargetStep, MoveStep, VerifyStep, PromotedStep, CleanStep, IsolateStep, IsolatedStep, PersistStep,
   ReleaseStep, DuplicateStep, DropStep, SettleStep DEF CallWorks

-----------------------------------------------------------------------------
(* The worker, the recovery from quarantine and the environment.           *)

\* What others do to the row, the evidence and the files leaves the calls sound.
LEMMA LooseFrom ==
  ASSUME LooseInv, UNCHANGED <<me, answer>>, worker' \in Process(WorkerSteps), WorkerInv(worker', op'),
         Grows(op, att, op', att'), disk' \in [Areas -> [Names -> Contents]], CopyInv'
  PROVE  LooseInv'
<1> USE DEF LooseInv
<1>1. EvidenceTypes'
  BY DEF EvidenceTypes, Grows
<1>2. \A v \in Uploads : CallInv(me[v], answer[v], op', att')
  BY OthersStay
<1>3. (\A v \in Uploads : CallInv(me[v], answer[v], op, att))'
  BY <1>2
<1>4. RowInv(op', att')
  BY DEF Grows
<1> QED BY <1>1, <1>3, <1>4

\* The worker goes on.
LEMMA WorkerStep ==
  ASSUME EvidenceInv, worker' \in Process(WorkerSteps), WorkerInv(worker', op'),
         UNCHANGED <<me, answer, keeper, late>>,
         Grows(op, att, op', att'), FilesOf(disk, disk'), att' # att => att'.file # "op",
         worker.pc # "idle",
         Locks(op, att) /\ WorkerCopied(worker, disk) =>
           /\ worker'.pc # "idle" => Locks(op', att') /\ WorkerCopied(worker', disk')
           /\ Recorded(op', att', disk')
  PROVE  EvidenceInv'
<1> USE DEF EvidenceInv
<1>1. CopyInv'
  BY DEF LooseInv, CopyInv, Grows, FilesOf
<1>2. LooseInv'
  BY <1>1, LooseFrom DEF FilesOf
<1>3. SoleInv'
  <2> SUFFICES ASSUME ~late, ~ByHand(att') PROVE SoleInv'
    BY DEF SoleInv
  <2>1. ~ByHand(att)
    BY DEF Grows, ByHand
  <2>2. Locks(op, att) /\ WorkerCopied(worker, disk) /\ \A u \in Uploads : ~Works(u)
    BY <2>1 DEF SoleInv
  <2>3. \A u \in Uploads : ~Works(u)'
    BY <2>2 DEF Works
  <2> QED BY <2>2, <2>3 DEF SoleInv, Locks, WorkerCopied, Recorded
<1> QED BY <1>2, <1>3

\* The types of the worker, and what it took over.
LEMMA WorkerType ==
  ASSUME EvidenceInv
  PROVE  /\ worker \in Process(WorkerSteps) /\ worker.keys \in Keys /\ worker.image \in Images \cup {Nothing}
         /\ worker.file \in Uploads \cup {Nothing} /\ WorkerInv(worker, op)
         /\ Resting \in Process(WorkerSteps) /\ Resting.pc = "idle"
<1>1. NoKeys \in Keys
  BY DEF NoKeys, Keys, Areas
<1>2. Resting \in Process(WorkerSteps) /\ Resting.pc = "idle"
  BY <1>1 DEF Process, WorkerSteps, Resting
<1> QED BY <1>2 DEF EvidenceInv, LooseInv, EvidenceTypes, Process

\* The worker, at work, goes on with what it has.
LEMMA WorkerGoesOn ==
  ASSUME EvidenceInv, worker.pc # "idle", NEW pc \in WorkerSteps, WorkerGoes(pc),
         UNCHANGED <<me, answer, keeper, late, att>>,
         op' = op \/ Updated(op'), FilesOf(disk, disk'),
         pc \in {"checkpoint", "persist"} =>
           (WorkerCopied(worker, disk) => disk'["private"][worker.file] = worker.image)
  PROVE  EvidenceInv'
<1>1. worker' \in Process(WorkerSteps) /\ worker'.pc = pc /\ worker'.image = worker.image /\ worker'.file = worker.file
  BY WorkerType DEF WorkerGoes, Process
<1>2. op.status # "NONE" /\ worker.image = op.image /\ worker.file # Nothing
  BY WorkerType DEF WorkerInv
<1>3. Grows(op, att, op', att')
  BY <1>2, RowFacts DEF Grows, Updated, RowInv
<1>4. WorkerInv(worker', op')
  BY <1>1, <1>2, <1>3 DEF WorkerInv, Grows
<1>5. Locks(op, att) /\ WorkerCopied(worker, disk) =>
           /\ worker'.pc # "idle" => Locks(op', att') /\ WorkerCopied(worker', disk')
           /\ Recorded(op', att', disk')
  BY <1>1 DEF Locks, WorkerCopied, Recorded, Updated
<1> QED BY <1>1, <1>3, <1>4, <1>5, WorkerStep

\* The worker claims what nobody works on.
LEMMA ClaimStep == ASSUME EvidenceInv, Claim PROVE EvidenceInv'
<1> DEFINE file == IF op.keys["private"] # Nothing THEN op.keys["private"] ELSE op.keys["staging"]
<1>1. worker.pc = "idle" /\ Recoverable /\ UNCHANGED <<me, answer, keeper, late, att, disk>>
      /\ op' = [op EXCEPT !.lease = "held", !.recent = TRUE, !.attempts = op.attempts + 1]
      /\ worker' = [pc |-> "look", image |-> op.image, keys |-> op.keys, file |-> file]
  BY DEF Claim, WorkerAt, OnlyWorker
<1>2. op \in Operation /\ op.attempts + 1 \in Nat /\ op.keys \in Keys /\ Targeted(op.keys) /\ op.image \in Images \cup {Nothing}
      /\ op.status \in {"STAGED", "PROMOTED"} /\ op.lease # "held" /\ op.keys # Forgotten(op.keys)
  BY <1>1, RowFacts DEF Operation, RowInv, Recoverable, LeaseFree, NoFiles
<1>3. op' \in Operation /\ op'.lease = "held" /\ op'.status = op.status /\ op'.image = op.image /\ op'.keys = op.keys
  BY <1>1, <1>2 DEF Operation
<1>4. file \in Uploads \cup {Nothing} /\ file # Nothing
  <2>1. op.keys["private"] \in Uploads \cup {Nothing} /\ op.keys["staging"] \in Uploads \cup {Nothing}
    BY <1>2 DEF Keys, Areas
  <2>2. CASE file = Nothing
    <3>1. op.keys["private"] = Nothing /\ op.keys["staging"] = Nothing
      BY <2>1, <2>2
    <3>2. op.keys = Forgotten(op.keys)
      BY <1>2, <3>1 DEF Forgotten, KeysWith, Keys
    <3> QED BY <1>2, <3>2
  <2> QED BY <2>1, <2>2
<1> HIDE DEF file
<1>5. worker' \in Process(WorkerSteps) /\ worker'.pc = "look" /\ WorkerInv(worker', op')
  BY <1>1, <1>2, <1>3, <1>4 DEF Process, WorkerSteps, WorkerInv
<1>6. Grows(op, att, op', att')
  BY <1>1, <1>3, RowFacts DEF Grows, RowInv
<1>7. LooseInv'
  <2>1. CopyInv'
    BY <1>1, <1>6 DEF EvidenceInv, LooseInv, CopyInv, Grows
  <2> QED BY <1>1, <1>5, <1>6, <2>1, LooseFrom, RowFacts DEF EvidenceInv, FilesOf
<1>8. SoleInv'
  <2> SUFFICES ASSUME ~late, ~ByHand(att) PROVE SoleInv'
    BY <1>1 DEF SoleInv
  <2>1. att = Nothing /\ \A u \in Uploads : ~Works(u)
    BY <1>2 DEF EvidenceInv, SoleInv, Locks, Recorded
  <2>2. Locks(op', att') /\ WorkerCopied(worker', disk') /\ Recorded(op', att', disk')
    BY <1>1, <1>3, <1>5, <2>1 DEF Locks, WorkerCopied, Recorded
  <2>3. \A u \in Uploads : ~Works(u)'
    BY <1>1, <2>1 DEF Works
  <2> QED BY <2>2, <2>3 DEF SoleInv, Locks, WorkerCopied, Recorded
<1> QED BY <1>7, <1>8 DEF EvidenceInv

\* A step of the worker.
LEMMA WorkerWorksStep == ASSUME EvidenceInv, WorkerWorks PROVE EvidenceInv'
<1>1. FilesOf(disk, disk) /\ op \in Operation
  BY RowFacts
<1>2. ASSUME Look PROVE EvidenceInv'
  <2>1. worker.pc # "idle" /\ UNCHANGED <<op, att, disk, me, answer, keeper, late>>
    BY <1>2 DEF Look, WorkerAt, OnlyWorker
  <2>2. PICK pc \in {"persist", "release", "move"} :
          WorkerGoes(pc) /\ (pc = "persist" => disk["private"][worker.file] = worker.image)
    BY <1>2 DEF Look
  <2> QED BY <1>1, <2>1, <2>2, WorkerGoesOn DEF WorkerSteps
<1>3. ASSUME WorkerMove PROVE EvidenceInv'
  <2> DEFINE n == worker.keys["staging"]
             t == worker.file
  <2>1. worker.pc # "idle" /\ UNCHANGED <<op, att, me, answer, keeper, late>>
    BY <1>3 DEF WorkerMove, WorkerAt, OnlyWorker
  <2>2. t \in Uploads /\ n \in Uploads \cup {Nothing} /\ worker.image \in Images \cup {Nothing}
    BY <2>1, WorkerType DEF WorkerInv, Keys, Areas
  <2>3. PICK pc \in {"verify", "release"} : WorkerGoes(pc)
    BY <1>3 DEF WorkerMove
  <2>4. FilesOf(disk, disk')
    <3>1. CASE Exists("staging", n) /\ Rename("staging", "private", n, t)
      BY <2>2, <3>1, RenameFiles DEF Exists, Areas
    <3>2. CASE Writes("private", t, worker.image)
      BY <2>2, <3>2, WritesFiles DEF Areas
    <3>3. CASE disk' = disk
      BY <1>1, <3>3
    <3> QED BY <1>3, <3>1, <3>2, <3>3 DEF WorkerMove, Promote
  <2> QED BY <2>1, <2>3, <2>4, WorkerGoesOn DEF WorkerSteps
<1>4. ASSUME WorkerVerify PROVE EvidenceInv'
  <2>1. worker.pc # "idle" /\ UNCHANGED <<op, att, disk, me, answer, keeper, late>>
    BY <1>4 DEF WorkerVerify, WorkerAt, OnlyWorker
  <2>2. PICK pc \in {"checkpoint", "release"} :
          WorkerGoes(pc) /\ (pc = "checkpoint" => disk["private"][worker.file] = worker.image)
    BY <1>4 DEF WorkerVerify
  <2> QED BY <1>1, <2>1, <2>2, WorkerGoesOn DEF WorkerSteps
<1>5. ASSUME Checkpoint PROVE EvidenceInv'
  <2>1. worker.pc = "checkpoint" /\ UNCHANGED <<att, disk, me, answer, keeper, late>>
    BY <1>5 DEF Checkpoint, WorkerAt, OnlyWorker
  <2>2. CASE WorkerGoes("release") /\ UNCHANGED op
    BY <1>1, <2>1, <2>2, WorkerGoesOn DEF WorkerSteps
  <2>3. CASE WorkerGoes("persist") /\ Touch("PROMOTED", KeysWith(op.keys, Nothing, worker.file), "held")
    <3> DEFINE k == KeysWith(op.keys, Nothing, worker.file)
    <3>1. k \in Keys /\ Targeted(k)
      BY RowFacts, WorkerType, KeysFacts DEF Targeted
    <3> HIDE DEF k
    <3>2. Updated(op')
      BY <2>3, <3>1, TouchUpdates DEF k
    <3>3. WorkerCopied(worker, disk) => disk'["private"][worker.file] = worker.image
      BY <2>1 DEF WorkerCopied
    <3> QED BY <1>1, <2>1, <2>3, <3>2, <3>3, WorkerGoesOn DEF WorkerSteps
  <2> QED BY <1>5, <2>2, <2>3 DEF Checkpoint
<1>6. ASSUME WorkerPersist PROVE EvidenceInv'
  <2> DEFINE row == [image |-> worker.image, file |-> worker.file]
  <2>1. worker.pc = "persist" /\ UNCHANGED <<disk, me, answer, keeper, late>>
    BY <1>6 DEF WorkerPersist, WorkerAt, OnlyWorker
  <2>2. CASE WorkerGoes("release") /\ UNCHANGED <<op, att>>
    BY <1>1, <2>1, <2>2, WorkerGoesOn DEF WorkerSteps
  <2>3. CASE /\ att = Nothing \/ att = row
             /\ att' = row /\ Touch("COMPLETED", Forgotten(op.keys), "none") /\ worker' = Resting
    <3>1. op.status # "NONE" /\ worker.image \in Images /\ worker.file \in Uploads
      BY <2>1, WorkerType, RowFacts DEF WorkerInv, RowInv
    <3>2. row \in Evidence /\ row.file # "op" /\ row.file = worker.file /\ row.image = worker.image
      BY <3>1, NothingElse DEF Evidence, Names
    <3>3. Forgotten(op.keys) \in Keys /\ Targeted(Forgotten(op.keys))
      BY RowFacts, KeysFacts
    <3> HIDE DEF row
    <3>4. Grows(op, att, op', att') /\ op'.status = "COMPLETED"
      BY <2>3, <3>1, <3>2, <3>3, CompletedGrows
    <3>5. worker' \in Process(WorkerSteps) /\ worker'.pc = "idle" /\ WorkerInv(worker', op')
      BY <2>3, WorkerType DEF WorkerInv
    <3>6. WorkerCopied(worker, disk) => Recorded(op', att', disk')
      BY <2>1, <2>3, <3>2, <3>4 DEF WorkerCopied, Recorded
    <3>7. FilesOf(disk, disk') /\ worker.pc # "idle" /\ (att' # att => att'.file # "op")
      BY <1>1, <2>1, <2>3, <3>2
    <3> QED BY <2>1, <3>4, <3>5, <3>6, <3>7, WorkerStep
  <2> QED BY <1>6, <2>2, <2>3 DEF WorkerPersist
<1>7. ASSUME WorkerRelease PROVE EvidenceInv'
  <2>1. worker.pc = "release" /\ UNCHANGED <<att, disk, me, answer, keeper, late>> /\ worker' = Resting
    BY <1>7 DEF WorkerRelease, WorkerAt, OnlyWorker
  <2>2. op' \in Operation /\ op'.status = op.status /\ op'.image = op.image /\ op'.keys = op.keys
    <3>1. CASE op' = op
      BY <1>1, <3>1
    <3>2. CASE op' = [op EXCEPT !.lease = "none", !.recent = TRUE]
      BY <1>1, <3>2 DEF Operation
    <3> QED BY <1>7, <3>1, <3>2 DEF WorkerRelease
  <2>3. Grows(op, att, op', att')
    BY <2>1, <2>2, RowFacts DEF Grows, RowInv
  <2>4. worker' \in Process(WorkerSteps) /\ worker'.pc = "idle" /\ WorkerInv(worker', op')
    BY <2>1, WorkerType DEF WorkerInv
  <2>5. Locks(op, att) => Recorded(op', att', disk')
    BY <2>1 DEF Locks, Recorded
  <2>6. FilesOf(disk, disk') /\ worker.pc # "idle" /\ att' = att
    BY <1>1, <2>1
  <2> QED BY <2>1, <2>3, <2>4, <2>5, <2>6, WorkerStep
<1> QED BY <1>2, <1>3, <1>4, <1>5, <1>6, <1>7, ClaimStep DEF WorkerWorks

\* The copy made from quarantine is the only file that this step writes.
LEMMA KeeperSaveStep == ASSUME EvidenceInv, KeeperSave PROVE EvidenceInv'
<1>1. UNCHANGED <<op, att, me, worker, answer, late>> /\ op.status = "QUARANTINED"
  BY DEF KeeperSave
<1>2. disk \in [Areas -> [Names -> Contents]] /\ "op" \in Names /\ "private" \in Areas
      /\ op.image \in Contents /\ "DAMAGED" \in Contents
  BY RowFacts DEF EvidenceInv, LooseInv, EvidenceTypes, Names, Areas, Contents, Operation
<1>3. /\ disk' \in [Areas -> [Names -> Contents]]
      /\ \A u \in Uploads : disk'["private"][u] = disk["private"][u]
  <2>1. ASSUME NEW x \in Contents, Put("private", "op", x)
        PROVE  /\ disk' \in [Areas -> [Names -> Contents]]
               /\ \A u \in Uploads : disk'["private"][u] = disk["private"][u]
    BY <1>2, <2>1, NothingElse DEF Put, Names
  <2>2. disk' = disk \/ \E x \in Contents : Put("private", "op", x)
    BY <1>2 DEF KeeperSave, Writes
  <2> QED BY <1>2, <2>1, <2>2
<1>4. CopyInv'
  <2>1. keeper' # Nothing => disk'["private"]["op"] = op.image
    BY DEF KeeperSave
  <2>2. CASE disk' = disk
    BY <1>1, <2>1, <2>2 DEF CopyInv, EvidenceInv, LooseInv
  <2>3. CASE disk["private"]["op"] = Nothing
    <3>1. ~ByHand(att)
      <4>1. att \in Evidence => att.image # Nothing
        BY NothingElse DEF Evidence
      <4> QED BY <2>3, <4>1, RowFacts DEF ByHand, EvidenceInv, LooseInv, CopyInv
    <3> QED BY <1>1, <2>1, <3>1 DEF CopyInv, ByHand
  <2> QED BY <2>2, <2>3 DEF KeeperSave
<1>5. LooseInv'
  BY <1>1, <1>3, <1>4, LooseFrom, RowFacts, WorkerType DEF EvidenceInv
<1>6. SoleInv'
  <2> SUFFICES ASSUME ~late, ~ByHand(att) PROVE SoleInv'
    BY <1>1 DEF SoleInv
  <2>1. \A u \in Uploads : Copied(me[u], disk) => Copied(me[u], disk')
    <3> TAKE u \in Uploads
    <3>1. me[u].pc \in {"resume", "promoted", "clean", "persist"} => me[u].file \in Uploads
      BY CallType, PlaceFacts DEF Naming
    <3> QED BY <1>3, <3>1 DEF Copied
  <2>2. WorkerCopied(worker, disk) => WorkerCopied(worker, disk')
    <3>1. worker.pc # "idle" => worker.file \in Uploads
      BY WorkerType DEF WorkerInv
    <3> QED BY <1>3, <3>1 DEF WorkerCopied
  <2>3. Recorded(op, att, disk) => Recorded(op, att, disk')
    <3>1. att # Nothing => att.file \in Uploads
      BY RowFacts DEF ByHand, Evidence, Names
    <3> QED BY <1>3, <3>1 DEF Recorded
  <2> QED BY <1>1, <2>1, <2>2, <2>3 DEF EvidenceInv, SoleInv, Works, Locks, Copied, WorkerCopied, Recorded
<1> QED BY <1>5, <1>6 DEF EvidenceInv

\* Steps that leave the row, the evidence and the files that calls promoted.
LEMMA AsideStep ==
  ASSUME EvidenceInv, UNCHANGED <<op, att, me, answer, late>>, keeper' = keeper \/ keeper' = Nothing,
         worker' = worker \/ worker' = Resting,
         disk' \in [Areas -> [Names -> Contents]], disk'["private"] = disk["private"]
  PROVE  EvidenceInv'
<1>1. CopyInv'
  BY DEF EvidenceInv, LooseInv, CopyInv
<1>2. worker' \in Process(WorkerSteps) /\ WorkerInv(worker', op')
  BY WorkerType DEF WorkerInv
<1>3. LooseInv'
  BY <1>1, <1>2, LooseFrom, RowFacts DEF EvidenceInv
<1>4. SoleInv'
  BY WorkerType DEF EvidenceInv, SoleInv, Works, Locks, Copied, WorkerCopied, Recorded
<1> QED BY <1>3, <1>4 DEF EvidenceInv

\* The copy from quarantine becomes the evidence, under its own name.
LEMMA KeeperPersistStep == ASSUME EvidenceInv, KeeperPersist PROVE EvidenceInv'
<1> DEFINE row == [image |-> op.image, file |-> "op"]
<1>1. keeper # Nothing /\ keeper' = Nothing /\ UNCHANGED <<disk, me, worker, answer, late>>
  BY DEF KeeperPersist
<1>2. CASE UNCHANGED <<op, att>>
  BY <1>1, <1>2, AsideStep, RowFacts DEF FilesOf
<1>3. CASE op.status = "QUARANTINED" /\ att \in {Nothing, row} /\ att' = row
           /\ Touch("COMPLETED", Forgotten(op.keys), "none")
  <2>1. row \in Evidence /\ row.file = "op" /\ row.image = op.image
    BY <1>3, RowFacts DEF RowInv, Evidence, Names
  <2>2. Forgotten(op.keys) \in Keys /\ Targeted(Forgotten(op.keys))
    BY RowFacts, KeysFacts
  <2> HIDE DEF row
  <2>3. Grows(op, att, op', att') /\ op'.status = "COMPLETED"
    BY <1>3, <2>1, <2>2, CompletedGrows
  <2>4. CopyInv' /\ ByHand(att')
    BY <1>1, <1>3, <2>1, NothingElse DEF EvidenceInv, LooseInv, CopyInv, ByHand
  <2>5. LooseInv'
    <3>1. WorkerInv(worker', op') /\ worker' \in Process(WorkerSteps)
      BY <1>1, <2>3, WorkerType DEF WorkerInv, Grows
    <3> QED BY <1>1, <2>3, <2>4, <3>1, LooseFrom, RowFacts DEF EvidenceInv, FilesOf
  <2>6. SoleInv'
    BY <2>4 DEF SoleInv, ByHand
  <2> QED BY <2>5, <2>6 DEF EvidenceInv
<1> QED BY <1>2, <1>3 DEF KeeperPersist

\* Time passes: where a lease expires and nobody is late, nobody is at work.
LEMMA WaitingStep == ASSUME EvidenceInv, Wait PROVE EvidenceInv'
<1>1. UNCHANGED <<att, disk, me, worker, keeper, answer>> /\ late' = (late \/ Busy)
      /\ op' = [op EXCEPT !.recent = FALSE, !.lease = IF op.lease = "held" THEN "expired" ELSE op.lease]
  BY DEF Wait
<1>2. op' \in Operation /\ op'.status = op.status /\ op'.image = op.image /\ op'.keys = op.keys
  <2>1. op \in Operation /\ (IF op.lease = "held" THEN "expired" ELSE op.lease) \in {"none", "held", "expired"}
    BY RowFacts DEF Operation
  <2> QED BY <1>1, <2>1 DEF Operation
<1>3. Grows(op, att, op', att')
  BY <1>1, <1>2, RowFacts DEF Grows, RowInv
<1>4. LooseInv'
  <2>1. CopyInv'
    BY <1>1, <1>2 DEF EvidenceInv, LooseInv, CopyInv
  <2>2. WorkerInv(worker', op') /\ worker' \in Process(WorkerSteps)
    BY <1>1, <1>2, WorkerType DEF WorkerInv
  <2> QED BY <1>1, <1>3, <2>1, <2>2, LooseFrom, RowFacts DEF EvidenceInv, FilesOf
<1>5. SoleInv'
  <2> SUFFICES ASSUME ~late', ~ByHand(att) PROVE SoleInv'
    BY <1>1 DEF SoleInv
  <2>1. ~late /\ ~Busy
    BY <1>1
  <2>2. worker'.pc = "idle" /\ \A u \in Uploads : ~Works(u)'
    BY <1>1, <2>1, WorkerType DEF Busy, Works, Working
  <2>3. Recorded(op', att', disk')
    BY <1>1, <1>2, <2>1 DEF EvidenceInv, SoleInv, Recorded
  <2> QED BY <2>2, <2>3 DEF SoleInv, Recorded
<1> QED BY <1>4, <1>5 DEF EvidenceInv

\* A process dies.
LEMMA CrashStep == ASSUME EvidenceInv, Crash PROVE EvidenceInv'
<1>1. UNCHANGED <<op, att, disk, late>>
  BY DEF Crash
<1>2. ASSUME NEW u \in Uploads, me[u].pc \notin {"idle", "done"}, Answers(u, "LOST"), UNCHANGED <<worker, keeper>>
      PROVE  EvidenceInv'
  <2>1. Grows(op, att, op', att') /\ FilesOf(disk, disk')
    BY <1>1, RowFacts
  <2>2. CASE Works(u)
    <3>1. Locks(op, att) => Recorded(op', att', disk')
      BY <1>1 DEF Locks, Recorded
    <3> QED BY <1>1, <1>2, <2>1, <2>2, <3>1, AnswerStep
  <2>3. CASE ~Works(u)
    <3>1. me[u].pc \in {"find", "acquire", "claim", "completed"}
      <4>1. me[u].pc \in Steps
        BY CallType DEF Process
      <4> QED BY <1>2, <2>3, <4>1 DEF Steps, Works, Waiting
    <3> QED BY <1>1, <1>2, <2>1, <3>1, RefusalStep
  <2> QED BY <2>2, <2>3
<1>3. ASSUME UNCHANGED <<me, answer>>, keeper' = keeper \/ keeper' = Nothing, worker' = worker \/ worker' = Resting
      PROVE  EvidenceInv'
  BY <1>1, <1>3, AsideStep, RowFacts DEF FilesOf
<1> QED BY <1>2, <1>3 DEF Crash

\* An undamaged image is put in quarantine.
LEMMA RestoreStep == ASSUME EvidenceInv, Restore PROVE EvidenceInv'
<1>1. PICK n \in Names : Put("quarantine", n, op.image)
  BY DEF Restore
<1>2. UNCHANGED <<op, att, me, worker, keeper, answer, late>>
  BY DEF Restore
<1>3. op.image \in Contents /\ disk \in [Areas -> [Names -> Contents]]
  BY RowFacts DEF EvidenceInv, LooseInv, EvidenceTypes, Operation, Contents
<1>4. disk' \in [Areas -> [Names -> Contents]] /\ disk'["private"] = disk["private"]
  BY <1>1, <1>3 DEF Put, Areas
<1> QED BY <1>2, <1>4, AsideStep

\* At first there is no row, no evidence and no file.
LEMMA InitEvidence == EvidenceInit => EvidenceInv
<1> SUFFICES ASSUME EvidenceInit PROVE EvidenceInv
  OBVIOUS
<1>1. NoKeys \in Keys /\ Targeted(NoKeys)
  BY DEF NoKeys, Keys, Targeted, Areas
<1>2. NoRow \in Operation /\ NoRow.status = "NONE" /\ NoRow.keys = NoKeys
  BY <1>1 DEF NoRow, Operation, Statuses
<1>3. Resting \in Process(Waiting) /\ Resting \in Process(WorkerSteps) /\ Resting.pc = "idle" /\ Resting.keys = NoKeys
  BY <1>1 DEF Resting, Process, Waiting, WorkerSteps
<1>4. Resting \in Process(Waiting \cup Working)
  BY <1>3 DEF Process
<1>5. EvidenceTypes
  BY <1>2, <1>3, <1>4 DEF EvidenceInit, EvidenceTypes, Answered, Contents
<1>6. \A u \in Uploads : CallInv(me[u], answer[u], op, att)
  BY <1>1, <1>3, NothingElse DEF EvidenceInit, CallInv, Staging, Naming
<1>7. LooseInv
  BY <1>1, <1>2, <1>3, <1>5, <1>6 DEF EvidenceInit, LooseInv, RowInv, CopyInv, WorkerInv
<1>8. SoleInv
  BY <1>3 DEF EvidenceInit, SoleInv, Works, Working, Recorded
<1> QED BY <1>7, <1>8 DEF EvidenceInv

\* Every step keeps the invariant.
LEMMA EvidenceStep == EvidenceInv /\ [EvidenceNext]_evidenceVars => EvidenceInv'
<1> SUFFICES ASSUME EvidenceInv, [EvidenceNext]_evidenceVars PROVE EvidenceInv'
  OBVIOUS
<1>1. CASE Post \/ UNCHANGED evidenceVars
  BY <1>1, AsideStep, RowFacts DEF Post, evidenceVars, FilesOf
<1> QED BY <1>1, CallWorksStep, CallStep, WorkerWorksStep, KeeperSaveStep, KeeperPersistStep, WaitingStep, CrashStep,
           RestoreStep DEF EvidenceNext

\* The invariant of uploads.
LEMMA EvidenceInvariant == EvidenceSpec => []EvidenceInv
BY InitEvidence, EvidenceStep, PTL DEF EvidenceSpec

(* For any number of calls, images, crashes and damaged writes: evidence   *)
(* names a file that holds the image which was sent, unless a lease        *)
(* expired while its holder was still at work.                             *)
THEOREM EvidenceKeptAlways == EvidenceSpec => []EvidenceKept
<1>1. EvidenceInv => EvidenceKept
  <2> SUFFICES ASSUME EvidenceInv, ~late, att # Nothing PROVE disk["private"][att.file] = att.image
    BY DEF EvidenceKept
  <2>1. CASE ByHand(att)
    BY <2>1 DEF EvidenceInv, LooseInv, CopyInv, ByHand
  <2>2. CASE ~ByHand(att)
    BY <2>2 DEF EvidenceInv, SoleInv, Recorded
  <2> QED BY <2>1, <2>2
<1> QED BY <1>1, EvidenceInvariant, PTL

(* For any number of calls, images, crashes and damaged writes, and        *)
(* whatever the leases: who is told that its evidence is stored has the    *)
(* image it sent stored.                                                   *)
THEOREM StoredWhatWasSentAlways == EvidenceSpec => []StoredWhatWasSent
<1>1. EvidenceInv => StoredWhatWasSent
  BY DEF EvidenceInv, LooseInv, CallInv, StoredWhatWasSent
<1> QED BY <1>1, EvidenceInvariant, PTL
===============================================================================
