--------------------------- MODULE SupplierPayments ---------------------------
(***************************************************************************)
(* Payments of one payable of a purchase, all of one credit quota: the     *)
(* payment documents from draft to voiding, their allocations, the paid    *)
(* total of the quota and the balance of the payable.                      *)
(*                                                                         *)
(* Submitting, editing, approving, rejecting and voiding run query after   *)
(* query without a transaction.  Registering a posted payment and deleting *)
(* one run in a transaction: what it writes is in req[r] until Commit, and *)
(* it holds the rows of the quota and of the payable from its writes on.   *)
(***************************************************************************)
EXTENDS Integers, FiniteSets, Sums

CONSTANTS
  Requests,   \* requests at work at the same time
  Payments,
  Amount,     \* Amount[p]: what p pays
  Total,      \* amount_total of the payable
  Opening     \* what the purchase's request said was paid of the quota: no payment stands for it

ASSUME PaymentAssumption ==
  /\ IsFiniteSet(Payments) /\ "none" \notin Payments
  /\ Amount \in [Payments -> Nat \ {0}] /\ Total \in Nat \ {0} /\ Opening \in 0 .. Total

VARIABLES
  status,      \* by payment; ABSENT before and DELETED after its row is there
  allocated,   \* the payments that have a row in payment_allocations
  quota,       \* total_paid of the credit quota
  payable,     \* amount_paid, amount_pending and status of the payable
  req,         \* what each request does
  disturbed    \* two requests overlapped or one broke off half-way

db == <<status, allocated, quota, payable>>
vars == <<status, allocated, quota, payable, req, disturbed>>

Columns == {"paid", "pending", "status"}
Idle == [op |-> "none", pay |-> "none", pc |-> "idle", quota |-> 0,
         next |-> [paid |-> 0, pending |-> 0, status |-> "none"], diff |-> {}]

Init ==
  /\ status = [p \in Payments |-> "ABSENT"]
  /\ allocated = {}
  /\ quota = Opening
  /\ payable = [paid |-> 0, pending |-> Total, status |-> "PENDING"]
  /\ req = [r \in Requests |-> Idle]
  /\ disturbed = FALSE

SumOf(P) == SumOver(P, Amount)

\* findApprovedByAccountPayableId
Posted == {p \in Payments : status[p] = "POSTED"}

\* withBalance: the next row of the payable; refused beyond the total.
WithBalance(paid) ==
  [paid |-> paid, pending |-> Total - paid,
   status |-> CASE paid = Total -> "PAID"
                [] paid \in 1 .. Total - 1 -> "PARTIAL"
                [] OTHER -> IF payable.status = "OVERDUE" THEN "OVERDUE" ELSE "PENDING"]

-----------------------------------------------------------------------------
InTransaction(r) == req[r].op \in {"post", "delete"}
QuotaFree(r) == \A o \in Requests \ {r} :
  ~(InTransaction(o) /\ req[o].pc \in {"sum", "select", "write", "commit"})
PayableFree(r) == \A o \in Requests \ {r} : req[o].pc # "commit"
RowFree(r, p) == \A o \in Requests \ {r} : req[o].pay = p => QuotaFree(r)

Goes(r, x) == req' = [req EXCEPT ![r] = x] /\ UNCHANGED <<db, disturbed>>
Ends(r) == req' = [req EXCEPT ![r] = Idle]
At(r, pc) == req[r].pc = pc
To(r, pc) == req' = [req EXCEPT ![r].pc = pc]

Starts(r, x) ==
  /\ At(r, "idle")
  /\ req' = [req EXCEPT ![r] = x]
  /\ disturbed' = (disturbed \/ \E o \in Requests : ~At(o, "idle"))
  /\ UNCHANGED db

-----------------------------------------------------------------------------
New(p) == status[p] = "ABSENT" /\ \A o \in Requests : req[o].pay # p

\* A payment that is not posted at once is only inserted: a draft, a scheduled
\* one, or one of a user who may not approve.
Request(p) ==
  /\ New(p)
  /\ \E s \in {"DRAFT", "SCHEDULED", "PENDING_APPROVAL"} : status' = [status EXCEPT ![p] = s]
  /\ UNCHANGED <<allocated, quota, payable, req, disturbed>>

Expects(op) ==
  CASE op \in {"edit", "submit"} -> {"DRAFT"}
    [] op = "approve" -> {"PENDING_APPROVAL", "SCHEDULED"}
    [] op = "reject" -> {"PENDING_APPROVAL"}
    [] op = "void" -> {"POSTED"}

\* A submitted payment that has a date is scheduled.
Becomes(op) ==
  CASE op = "edit" -> {"DRAFT"}
    [] op = "submit" -> {"SCHEDULED", "PENDING_APPROVAL"}
    [] op = "approve" -> {"POSTED"}
    [] op = "reject" -> {"REJECTED"}
    [] op = "void" -> {"VOIDED"}

\* The payment is read and its status checked; another status is refused.
Load(r, op, p) ==
  /\ status[p] \in Expects(op)
  /\ Starts(r, [Idle EXCEPT !.op = op, !.pay = p, !.pc = "save"])

\* Fault: an approval counts in the quota whether or not it is allocated.
AfterSaveQuota(op) ==
  CASE op = "approve" -> "readQuota" [] op = "void" -> "sum" [] OTHER -> "idle"

\* Fault: a voiding does not recalculate the payable.
AfterSaveVoid(op) == IF op = "approve" THEN "allocate" ELSE "idle"

\* What follows the save.
AfterSave(op) ==
  CASE op = "approve" -> "allocate" [] op = "void" -> "sum" [] OTHER -> "idle"

\* save writes every column that differs from the row of that moment, whatever
\* its status is by now.  A row that was deleted is inserted again, unless it
\* went between the two queries of save.
Save(r) ==
  LET p == req[r].pay
      next == AfterSave(req[r].op)
  IN /\ At(r, "save") /\ RowFree(r, p)
     /\ \/ \E s \in Becomes(req[r].op) : status' = [status EXCEPT ![p] = s]
        \/ status[p] = "DELETED" /\ UNCHANGED status
     /\ IF next = "idle" THEN Ends(r) ELSE To(r, next)
     /\ UNCHANGED <<allocated, quota, payable, disturbed>>

\* The foreign key and the unique index of payment_allocations.
Allocatable(p) == status[p] # "DELETED" /\ p \notin allocated

\* The rest of an approval: allocation, quota, balance.
Allocate(r) ==
  LET p == req[r].pay
  IN /\ At(r, "allocate") /\ RowFree(r, p)
     /\ IF Allocatable(p)
          THEN allocated' = allocated \cup {p} /\ To(r, "readQuota")
          ELSE Ends(r) /\ UNCHANGED allocated
     /\ UNCHANGED <<status, quota, payable, disturbed>>

ReadQuota(r) ==
  At(r, "readQuota") /\ Goes(r, [req[r] EXCEPT !.pc = "addQuota", !.quota = quota])

AddToQuota(r) ==
  /\ At(r, "addQuota") /\ QuotaFree(r)
  /\ quota' = req[r].quota + Amount[req[r].pay]
  /\ To(r, "sum")
  /\ UNCHANGED <<status, allocated, payable, disturbed>>

-----------------------------------------------------------------------------
\* The posted payments that r sees: those committed and its own writes.
Recalculates(r) ==
  CASE req[r].op = "post" -> Posted \cup {req[r].pay}
    [] req[r].op = "delete" -> Posted \ {req[r].pay}
    [] OTHER -> Posted

\* RecalculateAccountPayable reads the payable and its posted payments, and
\* throws beyond the total: a transaction rolls back, an approval stays.
Sum(r) ==
  LET paid == SumOf(Recalculates(r))
  IN /\ At(r, "sum")
     /\ IF paid > Total
          THEN Goes(r, Idle)
          ELSE Goes(r, [req[r] EXCEPT !.pc = "select", !.next = WithBalance(paid)])

\* repo.save reads the row and keeps the columns that differ ...
Select(r) ==
  /\ At(r, "select")
  /\ Goes(r, [req[r] EXCEPT !.pc = "write",
                            !.diff = {c \in Columns : payable[c] # req[r].next[c]}])

\* Fault: the pending amount is left as it was.
WrittenPaid(r) ==
  [c \in Columns |-> IF c \in req[r].diff \ {"pending"} THEN req[r].next[c] ELSE payable[c]]

Written(r) == [c \in Columns |-> IF c \in req[r].diff THEN req[r].next[c] ELSE payable[c]]

\* ... and writes them; a transaction keeps the row until it commits.
Write(r) ==
  /\ At(r, "write") /\ PayableFree(r)
  /\ IF InTransaction(r)
       THEN Goes(r, [req[r] EXCEPT !.pc = "commit"])
       ELSE /\ payable' = Written(r) /\ Ends(r)
            /\ UNCHANGED <<status, allocated, quota, disturbed>>

-----------------------------------------------------------------------------
\* A payment registered as posted must fit what is pending; the quota is read.
Accepts(p) == SumOf(Posted) + Amount[p] <= Total

Check(r, p) ==
  /\ New(p) /\ Accepts(p)
  /\ Starts(r, [Idle EXCEPT !.op = "post", !.pay = p, !.pc = "book", !.quota = quota])

Deletable == {"DRAFT", "SCHEDULED", "PENDING_APPROVAL", "REJECTED"}

Delete(r, p) ==
  /\ status[p] \in Deletable
  /\ Starts(r, [Idle EXCEPT !.op = "delete", !.pay = p, !.pc = "book", !.quota = quota])

\* A deletion takes the amount off the quota, down to zero.
Less(p, q) == IF q > Amount[p] THEN q - Amount[p] ELSE 0

\* The writes of the transaction before the balance.  ON DELETE RESTRICT keeps
\* a payment that was allocated meanwhile.
Book(r) ==
  LET p == req[r].pay
  IN /\ At(r, "book") /\ QuotaFree(r)
     /\ IF req[r].op = "delete" /\ p \in allocated
          THEN Goes(r, Idle)
          ELSE Goes(r, [req[r] EXCEPT
                 !.pc = "sum",
                 !.quota = IF req[r].op = "post" THEN @ + Amount[p] ELSE Less(p, @)])

Commit(r) ==
  LET p == req[r].pay
      posts == req[r].op = "post"
  IN /\ At(r, "commit")
     /\ status' = [status EXCEPT ![p] = IF posts THEN "POSTED" ELSE "DELETED"]
     /\ allocated' = IF posts THEN allocated \cup {p} ELSE allocated
     /\ quota' = req[r].quota
     /\ payable' = Written(r)
     /\ Ends(r)
     /\ UNCHANGED disturbed

\* The due date has passed: one conditional UPDATE.
MarkOverdue ==
  /\ \A r \in Requests : ~At(r, "commit")
  /\ payable.pending > 0 /\ payable.status \in {"PENDING", "PARTIAL"}
  /\ payable' = [payable EXCEPT !.status = "OVERDUE"]
  /\ UNCHANGED <<status, allocated, quota, req, disturbed>>

\* The process dies or a query fails: a transaction leaves nothing.
Fail(r) ==
  /\ ~At(r, "idle")
  /\ Ends(r)
  /\ disturbed' = TRUE
  /\ UNCHANGED db

Runs(r) ==
  \/ \E p \in Payments :
       \/ \E op \in {"edit", "submit", "approve", "reject", "void"} : Load(r, op, p)
       \/ Check(r, p) \/ Delete(r, p)
  \/ Save(r) \/ Allocate(r) \/ ReadQuota(r) \/ AddToQuota(r)
  \/ Sum(r) \/ Select(r) \/ Write(r) \/ Book(r) \/ Commit(r) \/ Fail(r)

Next == \/ \E p \in Payments : Request(p)
        \/ \E r \in Requests : Runs(r)
        \/ MarkOverdue

Spec == Init /\ [][Next]_vars

-----------------------------------------------------------------------------
\* However the saves of several recalculations mix, the payable never shows an
\* amount pending that is not what its paid amount leaves of the total.
PayableBalanced ==
  payable.paid >= 0 /\ payable.pending >= 0 /\ payable.paid + payable.pending = Total

\* However approvals, deletions and failures meet, the quota never counts more
\* than it opened with and the allocations since, nor one payment twice.
QuotaWithinAllocated == 0 <= quota /\ quota <= Opening + SumOf(allocated)

\* When requests come one at a time and finish, the payable shows what is posted,
\* unless more is posted than it is worth, and it is PAID when nothing is pending.
PaidIsPosted ==
  /\ ~disturbed
  /\ \A r \in Requests : At(r, "idle")
  /\ SumOf(Posted) <= Total
  => /\ payable.paid = SumOf(Posted)
     /\ payable.pending = 0 <=> payable.status = "PAID"

===============================================================================
