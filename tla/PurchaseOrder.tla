----------------------------- MODULE PurchaseOrder -----------------------------
(***************************************************************************)
(* One purchase with an expected date: its approval, its sending, the      *)
(* timer that asks for its confirmation, its receptions, whole or in parts,*)
(* its cancellation, and the stock it brings into the warehouse.           *)
(*                                                                         *)
(* Each operation is a transaction that first reads what it decides on,    *)
(* without a lock, and is two steps here: the reading, and everything else.*)
(* The document of a movement of stock locks its series up to the commit,  *)
(* so what is read after it belongs to the second step; a reception of     *)
(* which nothing is accepted moves no stock and is three steps.  The       *)
(* review of a purchase that was created with payments is no transaction:  *)
(* its queries are steps of their own.                                     *)
(*                                                                         *)
(* One item that affects stock, in its base unit; one warehouse; one       *)
(* payment; permissions granted.  PATCH purchases/:id may write any status *)
(* and is left out.                                                        *)
(***************************************************************************)
EXTENDS Integers, FiniteSets, Sums

CONSTANTS
  Handlers,
  Receptions,
  Ordered,      \* quantity of the item
  Counts,       \* what is counted of a reception: units received, units accepted
  Spare,        \* units of it in the warehouse from elsewhere
  MaxActs,      \* bound: calls of the users, in all
  MaxRestarts,  \* bound: restarts of the process
  Timer,        \* the run that a timer starts
  None

ASSUME PurchaseAssumption ==
  /\ Ordered \in Nat \ {0} /\ Spare \in Nat
  /\ Counts \subseteq {c \in (1 .. Ordered) \X (0 .. Ordered) : c[2] <= c[1]} /\ MaxActs \in Nat /\ MaxRestarts \in Nat
  /\ IsFiniteSet(Receptions) /\ None \notin Receptions

VARIABLES
  status, reception, approval, \* purchase_orders: status, reception_status, approval_status
  review,      \* approval_requests: of the creation with payments
  processing,  \* purchase_processing_approvals: the request that the purchase be sent
  payment,     \* its payment
  payable,     \* what it owes: none, or open, or paid at least in part
  rec,         \* purchase_receptions
  entered,     \* units it brought into the warehouse, less those taken back
  timer,       \* a timer is set for it
  running,     \* requests in progress
  whole, back, \* history: confirmations of the whole purchase, reversals
  overlapped,  \* history: two requests were in progress at once
  lost,        \* history: the run of its timer came too early or failed, and none was set since
  acts, restarts

orderVars == <<status, reception, approval>>
reviewVars == <<review, processing, payment, payable>>
stockVars == <<rec, entered, whole, back>>
purchaseVars == <<orderVars, reviewVars, stockVars, timer, running, overlapped, lost, acts, restarts>>
historyVars == <<overlapped, lost>>

Blocking == {"PENDING", "REJECTED"}
Decisions == {"APPROVED", "REJECTED"}
NoReception == [status |-> "NONE", received |-> 0, accepted |-> 0]
Runners == Handlers \cup {Timer}
Resting == [op |-> "none", seen |-> "none", what |-> None]

PurchaseInit ==
  /\ status = "DRAFT" /\ reception = "PENDING"
  /\ payable \in {"none", "open"}
  /\ \/ approval = "NOT_REQUIRED" /\ payment = "NONE" /\ review = "NONE"
     \/ approval = "NOT_REQUIRED" /\ payment = "APPROVED" /\ review = "NONE"
     \/ approval = "PENDING" /\ payment = "PENDING_APPROVAL" /\ review = "PENDING"
  /\ processing = "NONE"
  /\ rec = [x \in Receptions |-> NoReception]
  /\ entered = 0 /\ whole = 0 /\ back = 0
  /\ timer = FALSE /\ overlapped = FALSE /\ lost = FALSE /\ acts = 0 /\ restarts = 0
  /\ running = [r \in Runners |-> Resting]

-----------------------------------------------------------------------------
Becomes(r, new) == running' = [running EXCEPT ![r] = new]
Leaves(r) == Becomes(r, Resting)

Acted == acts < MaxActs /\ acts' = acts + 1

\* A transaction has read the purchase.
Reads(r, op, what) ==
  /\ IF r \in Handlers THEN Acted ELSE UNCHANGED acts
  /\ running[r] = Resting /\ Becomes(r, [op |-> op, seen |-> status, what |-> what])
  /\ overlapped' = (overlapped \/ \E o \in Runners : running[o] # Resting)
  /\ UNCHANGED <<orderVars, reviewVars, stockVars, lost, restarts>>

Sendable == status \in {"DRAFT", "PARTIAL"}

\* PATCH :id/sent
Send(r) == Sendable /\ approval \notin Blocking /\ Reads(r, "send", None) /\ UNCHANGED timer

\* POST :id/approve-processing
Process(r) == processing = "PENDING" /\ Sendable /\ Reads(r, "process", None) /\ UNCHANGED timer

Expectable == status \in {"SENT", "PARTIAL"}

\* POST :id/run-expected
Expect(r) == Expectable /\ Reads(r, "expected", None) /\ UNCHANGED timer

\* The timer goes off; a purchase in another state is left alone.
Fire ==
  /\ timer /\ timer' = FALSE
  /\ IF Expectable THEN Reads(Timer, "expected", None)
     ELSE running[Timer] = Resting /\ UNCHANGED <<running, orderVars, reviewVars, stockVars, historyVars, acts, restarts>>

\* POST :id/confirm-reception
Confirm(r) ==
  status = "PENDING_RECEIPT_CONFIRMATION" /\ Reads(r, "confirm", None) /\ UNCHANGED timer

Receivable(x) == rec[x].status = "DRAFT" /\ status # "CANCELLED"

\* confirm of a reception
Receive(r, x) == Receivable(x) /\ Reads(r, "receive", x) /\ UNCHANGED timer

Cancel(r) == status # "CANCELLED" /\ Reads(r, "cancel", None) /\ UNCHANGED timer

\* POST :id/approve-creation-with-payment and reject-creation-with-payment
Review(r, d) == review = "PENDING" /\ Reads(r, "review", d) /\ UNCHANGED timer

-----------------------------------------------------------------------------
\* The timer is set before the commit: one that is due at once may run too early and is lost.
SetsTimer == TRUE

CommitSend(r) ==
  /\ \/ running[r].op = "send" /\ Leaves(r)
     \/ running[r].op = "process" /\ Becomes(r, [running[r] EXCEPT !.op = "processed"])
  /\ status' = "SENT"
  /\ \/ timer' = SetsTimer /\ lost' = FALSE
     \/ timer' = FALSE /\ lost' = TRUE
  /\ UNCHANGED <<reception, approval, reviewVars, stockVars, overlapped, acts, restarts>>

\* What an operation that fails may have done to the timer, which no rollback undoes.
TimerAfter(op) ==
  CASE op \in {"send", "process"} -> BOOLEAN
    [] op = "cancel" -> {timer, FALSE}
    [] OTHER -> {timer}

\* A query fails: the transaction leaves nothing, and of the timer's run the error is only logged.
Breaks(r) ==
  /\ running[r] # Resting /\ Leaves(r)
  /\ timer' \in TimerAfter(running[r].op)
  /\ lost' = (lost \/ (~timer' /\ (timer \/ r = Timer)))
  /\ UNCHANGED <<orderVars, reviewVars, stockVars, overlapped, acts, restarts>>

\* The request is saved as approved after the purchase was sent.
SaveProcessing(r) ==
  /\ running[r].op = "processed" /\ Leaves(r) /\ processing' = "APPROVED"
  /\ UNCHANGED <<orderVars, review, payment, payable, stockVars, timer, historyVars, acts, restarts>>

CommitExpected(r) ==
  /\ running[r].op = "expected" /\ Leaves(r)
  /\ status' = "PENDING_RECEIPT_CONFIRMATION"
  /\ UNCHANGED <<reception, approval, reviewVars, stockVars, timer, historyVars, acts, restarts>>

\* The whole quantity enters.
CommitConfirm(r) ==
  /\ running[r].op = "confirm" /\ Leaves(r)
  /\ entered' = entered + Ordered /\ whole' = whole + 1
  /\ status' = "RECEIVED" /\ reception' = "RECEIVED"
  /\ UNCHANGED <<approval, reviewVars, rec, back, timer, historyVars, acts, restarts>>

Confirmed(rows) == {x \in Receptions : rows[x].status = "CONFIRMED"}
Received(rows) == SumOver(Confirmed(rows), [x \in Receptions |-> rows[x].received])
Accepted(rows) == SumOver(Confirmed(rows), [x \in Receptions |-> rows[x].accepted])

\* Fault: the totals are those before the confirmation.
FullBefore(rows) == Received(rec) >= Ordered

Full(rows) == Received(rows) >= Ordered

\* Fault: what was received enters, not what was accepted.
EntersReceived(x) == rec[x].received

Enters(x) == rec[x].accepted

WithConfirmed(x) == [rec EXCEPT ![x].status = "CONFIRMED"]
NewStatus(rows) == IF Full(rows) THEN "RECEIVED" ELSE "PARTIAL"

\* The reception is confirmed and the purchase given the status st.
ConfirmReception(r, x, st) ==
  /\ Leaves(r)
  /\ rec' = WithConfirmed(x) /\ entered' = entered + Enters(x)
  /\ status' = st
  /\ reception' = IF st = "RECEIVED" THEN "RECEIVED" ELSE "PARTIALLY_RECEIVED"
  /\ UNCHANGED <<approval, reviewVars, whole, back, timer, historyVars, acts, restarts>>

CommitReceive(r) ==
  LET x == running[r].what IN
  /\ running[r].op = "receive" /\ rec[x].accepted > 0
  /\ ConfirmReception(r, x, NewStatus(WithConfirmed(x)))

\* Without stock to move only the reception's own row is locked when the totals are read.
ReadTotals(r) ==
  LET x == running[r].what IN
  /\ running[r].op = "receive" /\ rec[x].accepted = 0
  /\ \A o \in Runners : ~(running[o].op = "totals" /\ running[o].what = x)
  /\ Becomes(r, [op |-> "totals", seen |-> NewStatus(WithConfirmed(x)), what |-> x])
  /\ UNCHANGED <<orderVars, reviewVars, stockVars, timer, historyVars, acts, restarts>>

CommitTotals(r) == running[r].op = "totals" /\ ConfirmReception(r, running[r].what, running[r].seen)

Reverses(r) == running[r].seen = "RECEIVED"

\* chk_accounts_payable_balanced_amounts: a row with nothing paid and nothing pending breaks it.
CheckFails == payable = "open"

Missing(r) == Reverses(r) /\ Spare + entered < Ordered

\* Stock to take back is missing, or a payment is approved, or the check fails: rolled back.
CancelThrows(r) == Missing(r) \/ payment = "APPROVED" \/ CheckFails

CommitCancel(r) ==
  /\ running[r].op = "cancel" /\ Leaves(r) /\ ~CancelThrows(r)
  /\ status' = "CANCELLED" /\ timer' = FALSE
  /\ IF Reverses(r) THEN entered' = entered - Ordered /\ back' = back + 1
                    ELSE UNCHANGED <<entered, back>>
  /\ UNCHANGED <<reception, approval, reviewVars, rec, whole, historyVars, acts, restarts>>

RollbackCancel(r) ==
  /\ running[r].op = "cancel" /\ Leaves(r) /\ CancelThrows(r)
  /\ UNCHANGED <<orderVars, reviewVars, stockVars, timer, historyVars, acts, restarts>>

Decision(r) == running[r].what

\* The pending payments, in one update by their status ...
DecidePayments(r) ==
  /\ running[r].op = "review" /\ Becomes(r, [running[r] EXCEPT !.op = "decide"])
  /\ payment' = IF payment = "PENDING_APPROVAL" THEN Decision(r) ELSE payment
  /\ UNCHANGED <<orderVars, review, processing, payable, stockVars, timer, historyVars, acts, restarts>>

\* ... then the purchase and the request.
Decide(r) ==
  /\ running[r].op = "decide" /\ Leaves(r)
  /\ approval' = running[r].what /\ review' = running[r].what
  /\ UNCHANGED <<status, reception, processing, payment, payable, stockVars, timer, historyVars, acts, restarts>>

-----------------------------------------------------------------------------
\* POST :id/request-processing
RequestProcessing ==
  /\ Acted
  /\ approval \notin Blocking /\ status = "DRAFT" /\ processing # "PENDING"
  /\ processing' = "PENDING"
  /\ UNCHANGED <<orderVars, review, payment, payable, stockVars, timer, running, historyVars, restarts>>

\* POST :id/reject-processing
RejectProcessing ==
  /\ Acted
  /\ processing = "PENDING" /\ processing' = "REJECTED"
  /\ UNCHANGED <<orderVars, review, payment, payable, stockVars, timer, running, historyVars, restarts>>

Fits(q) == Received(rec) + q <= Ordered

\* A reception is written down, not yet confirmed.
CreateReception(x, c) ==
  /\ Acted
  /\ rec[x] = NoReception /\ reception # "RECEIVED" /\ Fits(c[1])
  /\ rec' = [rec EXCEPT ![x] = [status |-> "DRAFT", received |-> c[1], accepted |-> c[2]]]
  /\ UNCHANGED <<orderVars, reviewVars, entered, whole, back, timer, running, historyVars, restarts>>

\* PATCH :id/extra-time
AddExtraTime ==
  /\ Acted
  /\ timer' = TRUE /\ lost' = FALSE
  /\ UNCHANGED <<orderVars, reviewVars, stockVars, running, overlapped, restarts>>

\* The payments module registers a payment as posted, or approves the pending one.
Post ==
  /\ Acted
  /\ payment \in {"NONE", "PENDING_APPROVAL"} /\ payment' = "POSTED"
  /\ payable' = IF payable = "open" THEN "paid" ELSE payable
  /\ IF approval = "PENDING" THEN approval' = "APPROVED" /\ review' = "APPROVED"
                             ELSE UNCHANGED <<approval, review>>
  /\ UNCHANGED <<status, reception, processing, stockVars, timer, running, historyVars, restarts>>

\* Fault: nothing is done about the purchases that were sent.
RearmedNever == FALSE

\* onApplicationBootstrap sets the timers of the purchases that were sent.
Rearmed == status = "SENT"

\* Timers and requests are gone.
Reboot ==
  /\ restarts < MaxRestarts /\ restarts' = restarts + 1
  /\ timer' = Rearmed /\ lost' = FALSE
  /\ running' = [r \in Runners |-> Resting]
  /\ UNCHANGED <<orderVars, reviewVars, stockVars, overlapped, acts>>

Starts(r) ==
  \/ Send(r) \/ Process(r) \/ Expect(r) \/ Confirm(r) \/ Cancel(r)
  \/ \E x \in Receptions : Receive(r, x)
  \/ \E d \in Decisions : Review(r, d)

Continues(r) ==
  \/ CommitSend(r) \/ SaveProcessing(r) \/ CommitExpected(r) \/ CommitConfirm(r) \/ CommitReceive(r)
  \/ ReadTotals(r) \/ CommitTotals(r)
  \/ CommitCancel(r) \/ RollbackCancel(r) \/ DecidePayments(r) \/ Decide(r)

PurchaseNext ==
  \/ \E r \in Handlers : Starts(r)
  \/ Fire
  \/ \E r \in Runners : Continues(r) \/ Breaks(r)
  \/ \E x \in Receptions, c \in Counts : CreateReception(x, c)
  \/ RequestProcessing \/ RejectProcessing \/ Post
  \/ AddExtraTime \/ Reboot

PurchaseSpec == PurchaseInit /\ [][PurchaseNext]_purchaseVars

(* A request that runs ends, and a timer that is set goes off: nobody adds *)
(* extra time for ever.                                                    *)
PurchaseFairness ==
  /\ \A r \in Runners : WF_purchaseVars(Continues(r))
  /\ WF_purchaseVars(Fire)
FairPurchaseSpec == PurchaseSpec /\ PurchaseFairness

-----------------------------------------------------------------------------
(* The reception status tells what the receptions add up to, in whatever   *)
(* order they are confirmed, and never calls received what did not come.  *)
(* Where receptions overlap, something is accepted of each: only then do   *)
(* they wait for each other.                                               *)
ReceptionStatusTrue ==
  ~overlapped \/ (\A x \in Receptions : rec[x].received > 0 => rec[x].accepted > 0) =>
    /\ Received(rec) >= Ordered => reception = "RECEIVED"
    /\ reception = "RECEIVED" => Received(rec) >= Ordered \/ whole > 0

(* What the purchase brought into the warehouse is what its receptions and *)
(* confirmations record, less its reversals.  Holds while no two requests  *)
(* overlap.                                                                *)
StockAsRecorded ==
  ~overlapped => entered = Accepted(rec) + Ordered * whole - Ordered * back

(* A purchase that was sent does not stay so: its timer goes off, and one  *)
(* is set again by a restart, a new sending or extra time.  Until then it  *)
(* stays if the run of its timer came before the commit or failed.         *)
SentIsAwaited == status = "SENT" ~> status # "SENT" \/ lost
===============================================================================
