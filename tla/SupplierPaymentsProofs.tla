------------------------- MODULE SupplierPaymentsProofs -------------------------
(***************************************************************************)
(* What holds of SupplierPayments for any payments of any amounts and any  *)
(* number of requests at work on them at the same time.                    *)
(***************************************************************************)
EXTENDS SupplierPayments, SumTheorems

Ops == {"none", "edit", "submit", "approve", "reject", "void", "post", "delete"}
Phases == {"idle", "save", "allocate", "readQuota", "addQuota", "sum", "select", "write",
           "book", "commit"}
Statuses == {"ABSENT", "DRAFT", "SCHEDULED", "PENDING_APPROVAL", "POSTED", "REJECTED",
             "VOIDED", "DELETED"}

Balances == [paid : Nat, pending : Nat,
             status : {"none", "PENDING", "PARTIAL", "PAID", "OVERDUE"}]
ReqType == [op : Ops, pay : Payments \cup {"none"}, pc : Phases, quota : Nat,
            next : Balances, diff : SUBSET Columns]

\* Where a request can be in its operation.
InPhase(q) ==
  \/ q.op = "none" /\ q.pc = "idle" /\ q.pay = "none"
  \/ /\ q.pay \in Payments
     /\ \/ q.op \in {"edit", "submit", "reject"} /\ q.pc = "save"
        \/ /\ q.op = "approve"
           /\ q.pc \in {"save", "allocate", "readQuota", "addQuota", "sum", "select", "write"}
        \/ q.op = "void" /\ q.pc \in {"save", "sum", "select", "write"}
        \/ q.op \in {"post", "delete"} /\ q.pc \in {"book", "sum", "select", "write", "commit"}

Types ==
  /\ status \in [Payments -> Statuses] /\ allocated \subseteq Payments /\ quota \in Nat
  /\ payable \in Balances /\ req \in [Requests -> ReqType] /\ disturbed \in BOOLEAN
  /\ \A r \in Requests : InPhase(req[r])

\* What is paid and what is pending make up the total, and are written together.
BalanceInv ==
  /\ PayableBalanced
  /\ \A r \in Requests :
       /\ req[r].pc \in {"select", "write", "commit"} =>
            req[r].next.paid \in 0 .. Total /\ req[r].next.pending = Total - req[r].next.paid
       /\ req[r].pc \in {"write", "commit"} => ("paid" \in req[r].diff <=> "pending" \in req[r].diff)

\* Allocated payments that an approval has still to add to the quota.
Adds(r) == req[r].pc \in {"readQuota", "addQuota"}
Counted == {p \in allocated : \A r \in Requests : Adds(r) => req[r].pay # p}
Booked(r) ==
  IF req[r].op = "post" /\ req[r].pc \in {"sum", "select", "write", "commit"}
  THEN Amount[req[r].pay] ELSE 0

\* Which payment each request holds: one to register is nobody else's, and of two
\* approvals one allocates.
Holders ==
  /\ \A p \in allocated : status[p] # "ABSENT"
  /\ \A r \in Requests : Adds(r) => req[r].pay \in allocated
  /\ \A r, o \in Requests : Adds(r) /\ Adds(o) /\ r # o => req[r].pay # req[o].pay
  /\ \A r \in Requests :
       /\ req[r].op = "post" => /\ status[req[r].pay] = "ABSENT"
                                /\ \A o \in Requests \ {r} : req[o].pay # req[r].pay
       /\ req[r].op \notin {"none", "post"} => status[req[r].pay] # "ABSENT"

\* What the quota has, and what each request read of it, is counted.
QuotaInv ==
  /\ quota <= Opening + SumOf(Counted)
  /\ \A r \in Requests : req[r].quota <= Opening + SumOf(Counted) + Booked(r)

\* The payable shows what is posted, unless more is posted than it is worth.
Shows ==
  SumOf(Posted) <= Total => payable.paid = SumOf(Posted) /\ (payable.pending = 0 <=> payable.status = "PAID")

\* How far the one request at work has brought the payable to what is posted.
OnItsWay(r) ==
  LET q == req[r] IN
  /\ At(r, "save") => status[q.pay] \in Expects(q.op)
  /\ q.op = "delete" => status[q.pay] \in Deletable
  /\ At(r, "allocate") => status[q.pay] = "POSTED" /\ q.pay \notin allocated
  /\ Adds(r) => status[q.pay] = "POSTED"
  /\ q.pc \in {"select", "write", "commit"} =>
       /\ q.next.paid = SumOf(Recalculates(r))
       /\ q.next.pending = 0 <=> q.next.status = "PAID"
  /\ q.pc \in {"write", "commit"} =>
       /\ Written(r).paid = q.next.paid /\ Written(r).pending = q.next.pending
       /\ Written(r).pending = 0 <=> Written(r).status = "PAID"

\* Only an approval or a voiding leaves the payable behind, from its save to its write.
Settled(r) == At(r, "idle") \/ At(r, "save") \/ InTransaction(r)

AloneInv ==
  ~disturbed =>
    /\ \A r, o \in Requests : r # o => At(r, "idle") \/ At(o, "idle")
    /\ (\A r \in Requests : Settled(r)) => Shows
    /\ \A p \in allocated : status[p] \in {"POSTED", "VOIDED"}
    /\ \A r \in Requests : OnItsWay(r)

-----------------------------------------------------------------------------
(* Amounts.                                                                *)

\* Payments are finitely many, of natural amounts, and the payable is worth something.
LEMMA AmountsNat ==
  /\ Amount \in [Payments -> Nat] /\ IsFiniteSet(Payments)
  /\ Total \in Nat \ {0} /\ Opening \in Nat
  BY PaymentAssumption

\* The sum of some payments is an amount.
LEMMA SumOfNat ==
  ASSUME NEW P \in SUBSET Payments
  PROVE  SumOf(P) \in Nat /\ IsFiniteSet(P)
<1>1. IsFiniteSet(P) /\ \A p \in P : Amount[p] \in Nat
  BY AmountsNat, FS_Subset
<1> QED BY <1>1, SumNat DEF SumOf

\* One payment more adds its amount.
LEMMA SumOfMore ==
  ASSUME NEW P \in SUBSET Payments, NEW p \in Payments \ P
  PROVE  SumOf(P \cup {p}) = SumOf(P) + Amount[p]
<1>1. IsFiniteSet(P) /\ p \notin P /\ \A x \in P \cup {p} : Amount[x] \in Int
  BY AmountsNat, FS_Subset
<1>2. SumOver(P \cup {p}, Amount) = Amount[p] + SumOver(P, Amount)
  BY <1>1, SumAdd
<1> QED BY <1>2, SumOfNat, AmountsNat DEF SumOf

\* Fewer payments are worth no more.
LEMMA SumOfPart ==
  ASSUME NEW P \in SUBSET Payments, NEW R \in SUBSET P
  PROVE  SumOf(R) <= SumOf(P)
<1>1. IsFiniteSet(P) /\ \A x \in P : Amount[x] \in Nat
  BY AmountsNat, FS_Subset
<1> QED BY <1>1, SumPart DEF SumOf

\* What is posted, and what a recalculation adds up, are payments.
LEMMA PostedPayments ==
  /\ Posted \in SUBSET Payments
  /\ \A r \in Requests : Types => Recalculates(r) \in SUBSET Payments
<1>1. Posted \in SUBSET Payments
  BY DEF Posted
<1>2. ASSUME NEW r \in Requests, Types PROVE Recalculates(r) \in SUBSET Payments
  BY <1>1, <1>2 DEF Recalculates, Types, InPhase
<1> QED BY <1>1, <1>2

-----------------------------------------------------------------------------
(* Types, and where a request can be.                                      *)

\* The variables have their types at first.
LEMMA InitTypes == Init => Types
<1> SUFFICES ASSUME Init PROVE Types
  OBVIOUS
<1>1. Idle \in ReqType /\ InPhase(Idle)
  BY DEF Idle, ReqType, Ops, Phases, Balances, Columns, InPhase
<1>2. req \in [Requests -> ReqType] /\ \A r \in Requests : InPhase(req[r])
  BY <1>1 DEF Init
<1>3. payable \in Balances
  BY AmountsNat DEF Init, Balances
<1> QED BY <1>2, <1>3, AmountsNat DEF Init, Types, Statuses

\* A request at rest has the type of a request.
LEMMA IdleType == Idle \in ReqType /\ InPhase(Idle) /\ Idle.pc = "idle" /\ Idle.op = "none"
                  /\ Idle.pay = "none" /\ Idle.quota = 0
  BY DEF Idle, ReqType, Ops, Phases, Balances, Columns, InPhase

\* The next row of the payable, where the amount is not refused.
LEMMA BalanceType ==
  ASSUME NEW paid \in 0 .. Total
  PROVE  /\ WithBalance(paid) \in Balances
         /\ WithBalance(paid).paid = paid /\ WithBalance(paid).pending = Total - paid
         /\ WithBalance(paid).pending = 0 <=> WithBalance(paid).status = "PAID"
  BY AmountsNat DEF WithBalance, Balances

\* What a write leaves in the payable.
LEMMA WrittenType ==
  ASSUME Types, NEW r \in Requests
  PROVE  /\ Written(r) \in Balances
         /\ Written(r).paid = IF "paid" \in req[r].diff THEN req[r].next.paid ELSE payable.paid
         /\ Written(r).pending = IF "pending" \in req[r].diff THEN req[r].next.pending
                                 ELSE payable.pending
         /\ Written(r).status = IF "status" \in req[r].diff THEN req[r].next.status
                                ELSE payable.status
<1>1. req[r].next \in Balances /\ payable \in Balances
  BY DEF Types, ReqType
<1> QED BY <1>1 DEF Written, Columns, Balances

\* What req[r] becomes is a request again.
LEMMA ReqStep ==
  ASSUME Types, NEW r \in Requests, NEW x \in ReqType, InPhase(x), req' = [req EXCEPT ![r] = x],
         status' \in [Payments -> Statuses], allocated' \subseteq Payments, quota' \in Nat,
         payable' \in Balances, disturbed' \in BOOLEAN
  PROVE  Types'
  BY DEF Types

\* A query of a request keeps the types.
LEMMA RunTypes ==
  ASSUME Types, NEW r \in Requests, Runs(r)
  PROVE  Types'
<1> USE DEF db
<1> DEFINE q == req[r]
<1>0. /\ req \in [Requests -> ReqType] /\ q \in ReqType /\ InPhase(q)
      /\ status \in [Payments -> Statuses] /\ allocated \subseteq Payments /\ quota \in Nat
      /\ payable \in Balances /\ disturbed \in BOOLEAN
  BY DEF Types
<1>1. ASSUME NEW op \in {"edit", "submit", "approve", "reject", "void"}, NEW p \in Payments,
             Load(r, op, p)
      PROVE  Types'
  <2> DEFINE x == [Idle EXCEPT !.op = op, !.pay = p, !.pc = "save"]
  <2>1. x \in ReqType /\ InPhase(x)
    BY IdleType DEF ReqType, Ops, Phases, InPhase
  <2>2. req' = [req EXCEPT ![r] = x] /\ disturbed' \in BOOLEAN /\ UNCHANGED db
    BY <1>0, <1>1 DEF Load, Starts
  <2> HIDE DEF x
  <2> QED BY <1>0, <2>1, <2>2, ReqStep
<1>2. ASSUME NEW op \in {"post", "delete"}, NEW p \in Payments,
             Starts(r, [Idle EXCEPT !.op = op, !.pay = p, !.pc = "book", !.quota = quota])
      PROVE  Types'
  <2> DEFINE x == [Idle EXCEPT !.op = op, !.pay = p, !.pc = "book", !.quota = quota]
  <2>1. x \in ReqType /\ InPhase(x)
    BY <1>0, IdleType DEF ReqType, Ops, Phases, InPhase
  <2>2. req' = [req EXCEPT ![r] = x] /\ disturbed' \in BOOLEAN /\ UNCHANGED db
    BY <1>0, <1>2 DEF Starts
  <2> HIDE DEF x
  <2> QED BY <1>0, <2>1, <2>2, ReqStep
\* A step that moves on, leaves the operation, or writes.
<1>3. ASSUME NEW pc \in Phases, req' = [req EXCEPT ![r].pc = pc], InPhase([q EXCEPT !.pc = pc]),
             status' \in [Payments -> Statuses], allocated' \subseteq Payments, quota' \in Nat,
             UNCHANGED <<payable, disturbed>>
      PROVE  Types'
  <2> DEFINE x == [q EXCEPT !.pc = pc]
  <2>1. x \in ReqType /\ req' = [req EXCEPT ![r] = x]
    BY <1>0, <1>3 DEF ReqType
  <2> HIDE DEF x
  <2>2. InPhase(x)
    BY <1>3 DEF x
  <2> QED BY <1>0, <1>3, <2>1, <2>2, ReqStep
<1>4. ASSUME Ends(r), status' \in [Payments -> Statuses], allocated' \subseteq Payments,
             quota' \in Nat, payable' \in Balances, disturbed' \in BOOLEAN
      PROVE  Types'
  BY <1>4, IdleType, ReqStep DEF Ends
<1>5. CASE Save(r)
  <2>1. /\ status' \in [Payments -> Statuses] /\ q.pc = "save"
        /\ UNCHANGED <<allocated, quota, payable, disturbed>>
    BY <1>0, <1>5 DEF Save, Becomes, Statuses, At, InPhase
  <2>2. AfterSave(q.op) # "idle" => InPhase([q EXCEPT !.pc = AfterSave(q.op)])
                                    /\ AfterSave(q.op) \in Phases
    BY <1>0, <2>1 DEF AfterSave, InPhase, Phases, ReqType
  <2>3. IF AfterSave(q.op) = "idle" THEN Ends(r) ELSE To(r, AfterSave(q.op))
    BY <1>5 DEF Save
  <2> QED BY <1>0, <1>3, <1>4, <2>1, <2>2, <2>3 DEF To
<1>6. CASE Allocate(r)
  <2>1. q.pc = "allocate" /\ q.pay \in Payments /\ UNCHANGED <<status, quota, payable, disturbed>>
    BY <1>0, <1>6 DEF Allocate, At, InPhase
  <2>2. InPhase([q EXCEPT !.pc = "readQuota"]) /\ "readQuota" \in Phases
    BY <1>0, <2>1 DEF InPhase, Phases, ReqType
  <2>3. \/ allocated' = allocated \cup {q.pay} /\ To(r, "readQuota")
        \/ Ends(r) /\ UNCHANGED allocated
    BY <1>6 DEF Allocate
  <2> QED BY <1>0, <1>3, <1>4, <2>1, <2>2, <2>3 DEF To
<1>7. CASE ReadQuota(r)
  <2> DEFINE x == [q EXCEPT !.pc = "addQuota", !.quota = quota]
  <2>1. x \in ReqType /\ InPhase(x)
    BY <1>0, <1>7 DEF ReadQuota, At, ReqType, Phases, InPhase
  <2>2. req' = [req EXCEPT ![r] = x] /\ UNCHANGED <<db, disturbed>>
    BY <1>7 DEF ReadQuota, Goes
  <2> HIDE DEF x
  <2> QED BY <1>0, <2>1, <2>2, ReqStep
<1>8. CASE AddToQuota(r)
  <2>1. /\ q.pc = "addQuota" /\ q.pay \in Payments /\ q.quota \in Nat
        /\ quota' = q.quota + Amount[q.pay] /\ UNCHANGED <<status, allocated, payable, disturbed>>
        /\ To(r, "sum")
    BY <1>0, <1>8 DEF AddToQuota, At, InPhase, ReqType
  <2>2. InPhase([q EXCEPT !.pc = "sum"]) /\ "sum" \in Phases
    BY <1>0, <2>1 DEF InPhase, Phases, ReqType
  <2>3. quota' \in Nat
    BY <2>1, AmountsNat
  <2> QED BY <1>0, <1>3, <2>1, <2>2, <2>3 DEF To
<1>9. CASE Sum(r)
  <2> DEFINE paid == SumOf(Recalculates(r))
             x == [q EXCEPT !.pc = "select", !.next = WithBalance(paid)]
  <2>1. paid \in Nat
    BY PostedPayments, SumOfNat
  <2>2. UNCHANGED <<db, disturbed>> /\ q.pc = "sum"
    BY <1>9 DEF Sum, Goes, At
  <2>3. \/ Ends(r)
        \/ paid \in 0 .. Total /\ req' = [req EXCEPT ![r] = x]
    BY <1>9, <2>1, AmountsNat DEF Sum, Goes, Ends
  <2>4. paid \in 0 .. Total => x \in ReqType /\ InPhase(x)
    BY <1>0, <2>2, BalanceType DEF ReqType, Phases, InPhase
  <2> HIDE DEF x, paid
  <2> QED BY <1>0, <1>4, <2>2, <2>3, <2>4, ReqStep
<1>10. CASE Select(r)
  <2> DEFINE d == {c \in Columns : payable[c] # q.next[c]}
             x == [q EXCEPT !.pc = "write", !.diff = d]
  <2>1. x \in ReqType /\ InPhase(x)
    BY <1>0, <1>10 DEF Select, At, ReqType, Phases, InPhase
  <2>2. req' = [req EXCEPT ![r] = x] /\ UNCHANGED <<db, disturbed>>
    BY <1>10 DEF Select, Goes
  <2> HIDE DEF x
  <2> QED BY <1>0, <2>1, <2>2, ReqStep
<1>11. CASE Write(r)
  <2>1. q.pc = "write" /\ UNCHANGED <<status, allocated, quota, disturbed>>
    BY <1>11 DEF Write, At, Goes
  <2>2. CASE InTransaction(r)
    <3> DEFINE x == [q EXCEPT !.pc = "commit"]
    <3>1. x \in ReqType /\ InPhase(x)
      BY <1>0, <2>1, <2>2 DEF InTransaction, ReqType, Phases, InPhase
    <3>2. req' = [req EXCEPT ![r] = x] /\ UNCHANGED <<db, disturbed>>
      BY <1>11, <2>2 DEF Write, Goes
    <3> HIDE DEF x
    <3> QED BY <1>0, <3>1, <3>2, ReqStep
  <2>3. CASE ~InTransaction(r)
    BY <1>0, <1>4, <1>11, <2>1, <2>3, WrittenType DEF Write
  <2> QED BY <2>2, <2>3
<1>12. CASE Book(r)
  <2> DEFINE p == q.pay
             n == IF q.op = "post" THEN q.quota + Amount[p] ELSE Less(p, q.quota)
             x == [q EXCEPT !.pc = "sum", !.quota = n]
  <2>1. q.pc = "book" /\ q.op \in {"post", "delete"} /\ p \in Payments /\ q.quota \in Nat
    BY <1>0, <1>12 DEF Book, At, InPhase, ReqType
  <2>2. n \in Nat
    BY <2>1, AmountsNat DEF Less
  <2>3. Goes(r, Idle) \/ Goes(r, x)
    BY <1>0, <1>12 DEF Book, ReqType
  <2> HIDE DEF n
  <2>4. x \in ReqType /\ InPhase(x)
    BY <1>0, <2>1, <2>2 DEF ReqType, Phases, InPhase
  <2> HIDE DEF x
  <2> QED BY <1>0, <2>3, <2>4, IdleType, ReqStep DEF Goes
<1>13. CASE Commit(r)
  <2>1. q.pay \in Payments /\ q.quota \in Nat
    BY <1>0, <1>13 DEF Commit, At, InPhase, ReqType
  <2> QED BY <1>0, <1>4, <1>13, <2>1, WrittenType DEF Commit, Statuses
<1>14. CASE Fail(r)
  BY <1>0, <1>4, <1>14 DEF Fail
<1> QED BY <1>1, <1>2, <1>5, <1>6, <1>7, <1>8, <1>9, <1>10, <1>11, <1>12, <1>13, <1>14
        DEF Runs, Check, Delete

\* Every step keeps the types.
LEMMA StepTypes == Types /\ [Next]_vars => Types'
<1> SUFFICES ASSUME Types, [Next]_vars PROVE Types'
  OBVIOUS
<1>1. ASSUME NEW p \in Payments, Request(p) PROVE Types'
  BY <1>1 DEF Request, Types, Statuses
<1>2. CASE MarkOverdue
  BY <1>2 DEF MarkOverdue, Types, Balances
<1>3. CASE UNCHANGED vars
  BY <1>3 DEF vars, Types
<1> QED BY <1>1, <1>2, <1>3, RunTypes DEF Next

\* A request runs alone: the others stay where they are.
LEMMA OthersStay ==
  ASSUME Types, NEW r \in Requests, Runs(r)
  PROVE  \A o \in Requests \ {r} : req'[o] = req[o]
<1>1. \E x : req' = [req EXCEPT ![r] = x]
  BY Zenon DEF Runs, Load, Check, Delete, Starts, Save, Allocate, ReadQuota, AddToQuota, Sum, Select,
               Write, Book, Commit, Fail, Goes, Ends, To
<1> QED BY <1>1 DEF Types

-----------------------------------------------------------------------------
(* What one step of a request does to it.                                  *)

\* The fields that a step leaves alone.
Keeps(r, fields) ==
  /\ "op" \in fields => req'[r].op = req[r].op
  /\ "pay" \in fields => req'[r].pay = req[r].pay
  /\ "quota" \in fields => req'[r].quota = req[r].quota
  /\ "next" \in fields => req'[r].next = req[r].next
  /\ "diff" \in fields => req'[r].diff = req[r].diff

\* A request that goes idle holds nothing.
Stopped(r) == req'[r] = Idle /\ req'[r].pc = "idle" /\ req'[r].op = "none" /\ req'[r].pay = "none"
              /\ req'[r].quota = 0

\* A request that ends is at rest.
LEMMA EndsStop ==
  ASSUME Types, NEW r \in Requests, Ends(r)
  PROVE  Stopped(r)
  BY IdleType DEF Ends, Types, Stopped

\* Going to the next query keeps what the request knows.
LEMMA ToStep ==
  ASSUME Types, NEW r \in Requests, NEW pc, To(r, pc)
  PROVE  req'[r].pc = pc /\ Keeps(r, {"op", "pay", "quota", "next", "diff"})
  BY DEF To, Types, ReqType, Keeps

\* A request that starts: what it holds from its first step on.
Started(r, op, p, pc, n) ==
  /\ req[r].pc = "idle" /\ req'[r].op = op /\ req'[r].pay = p /\ req'[r].pc = pc
  /\ req'[r].quota = n /\ UNCHANGED db
  /\ disturbed' = (disturbed \/ \E o \in Requests : ~At(o, "idle"))

\* Reading a payment starts a request on it.
LEMMA LoadStep ==
  ASSUME Types, NEW r \in Requests, NEW op \in {"edit", "submit", "approve", "reject", "void"},
         NEW p \in Payments, Load(r, op, p)
  PROVE  status[p] \in Expects(op) /\ Started(r, op, p, "save", 0)
<1>1. status[p] \in Expects(op) /\ Starts(r, [Idle EXCEPT !.op = op, !.pay = p, !.pc = "save"])
  BY DEF Load
<1> QED BY <1>1 DEF Starts, Types, Idle, Started, At

\* The validation of a new payment starts its registration with the quota it read.
LEMMA CheckStep ==
  ASSUME Types, NEW r \in Requests, NEW p \in Payments, Check(r, p)
  PROVE  New(p) /\ Accepts(p) /\ Started(r, "post", p, "book", quota)
<1>1. Starts(r, [Idle EXCEPT !.op = "post", !.pay = p, !.pc = "book", !.quota = quota])
  BY DEF Check
<1>2. New(p) /\ Accepts(p)
  BY DEF Check
<1>3. Started(r, "post", p, "book", quota)
  BY <1>1 DEF Starts, Types, Idle, Started, At
<1> QED BY <1>2, <1>3

\* A deletion starts on a payment that may be deleted, with the quota it read.
LEMMA DeleteStep ==
  ASSUME Types, NEW r \in Requests, NEW p \in Payments, Delete(r, p)
  PROVE  status[p] \in Deletable /\ Started(r, "delete", p, "book", quota)
<1>1. Starts(r, [Idle EXCEPT !.op = "delete", !.pay = p, !.pc = "book", !.quota = quota])
  BY DEF Delete
<1>2. status[p] \in Deletable
  BY DEF Delete
<1>3. Started(r, "delete", p, "book", quota)
  BY <1>1 DEF Starts, Types, Idle, Started, At
<1> QED BY <1>2, <1>3

\* The save ends an edit, sends an approval to allocate and a voiding to recalculate.
LEMMA SaveStep ==
  ASSUME Types, NEW r \in Requests, Save(r)
  PROVE  /\ req[r].pc = "save" /\ UNCHANGED <<allocated, quota, payable, disturbed>>
         /\ \/ Stopped(r) /\ req[r].op \in {"edit", "submit", "reject"}
            \/ /\ req'[r].pc = "allocate" /\ req[r].op = "approve"
               /\ Keeps(r, {"op", "pay", "quota", "next", "diff"})
            \/ /\ req'[r].pc = "sum" /\ req[r].op = "void"
               /\ Keeps(r, {"op", "pay", "quota", "next", "diff"})
<1>1. /\ req[r].pc = "save" /\ UNCHANGED <<allocated, quota, payable, disturbed>>
      /\ IF AfterSave(req[r].op) = "idle" THEN Ends(r) ELSE To(r, AfterSave(req[r].op))
  BY DEF Save, At
<1>2. req[r].op \in {"edit", "submit", "reject", "approve", "void"}
  BY <1>1 DEF Types, InPhase
<1>3. CASE req[r].op \in {"edit", "submit", "reject"}
  <2>1. Ends(r)
    BY <1>1, <1>3 DEF AfterSave
  <2> QED BY <1>1, <1>3, <2>1, EndsStop
<1>4. CASE req[r].op = "approve"
  <2>1. To(r, "allocate")
    BY <1>1, <1>4 DEF AfterSave
  <2> QED BY <1>1, <1>4, <2>1, ToStep
<1>5. CASE req[r].op = "void"
  <2>1. To(r, "sum")
    BY <1>1, <1>5 DEF AfterSave
  <2> QED BY <1>1, <1>5, <2>1, ToStep
<1> QED BY <1>2, <1>3, <1>4, <1>5

\* An approval allocates its payment, or ends when it is allocated already.
LEMMA AllocateStep ==
  ASSUME Types, NEW r \in Requests, Allocate(r)
  PROVE  /\ req[r].pc = "allocate" /\ UNCHANGED <<status, quota, payable, disturbed>>
         /\ \/ /\ Allocatable(req[r].pay) /\ allocated' = allocated \cup {req[r].pay}
               /\ req'[r].pc = "readQuota" /\ Keeps(r, {"op", "pay", "quota", "next", "diff"})
            \/ ~Allocatable(req[r].pay) /\ Stopped(r) /\ UNCHANGED allocated
<1>1. CASE Allocatable(req[r].pay)
  BY <1>1, ToStep DEF Allocate, At
<1>2. CASE ~Allocatable(req[r].pay)
  BY <1>2, EndsStop DEF Allocate, At
<1> QED BY <1>1, <1>2

\* An approval reads the quota and changes nothing.
LEMMA ReadQuotaStep ==
  ASSUME Types, NEW r \in Requests, ReadQuota(r)
  PROVE  /\ req[r].pc = "readQuota" /\ UNCHANGED <<db, disturbed>>
         /\ req'[r].pc = "addQuota" /\ req'[r].quota = quota
         /\ Keeps(r, {"op", "pay", "next", "diff"})
<1>1. req' = [req EXCEPT ![r] = [req[r] EXCEPT !.pc = "addQuota", !.quota = quota]]
  BY DEF ReadQuota, Goes
<1> QED BY <1>1 DEF ReadQuota, Goes, At, Types, ReqType, Keeps

\* An approval adds its payment to the quota it read.
LEMMA AddToQuotaStep ==
  ASSUME Types, NEW r \in Requests, AddToQuota(r)
  PROVE  /\ req[r].pc = "addQuota" /\ UNCHANGED <<status, allocated, payable, disturbed>>
         /\ quota' = req[r].quota + Amount[req[r].pay]
         /\ req'[r].pc = "sum" /\ Keeps(r, {"op", "pay", "quota", "next", "diff"})
  BY ToStep DEF AddToQuota, At

\* A recalculation refuses more than the total and goes on with a balance otherwise.
LEMMA SumStepOf ==
  ASSUME Types, NEW r \in Requests, Sum(r)
  PROVE  /\ req[r].pc = "sum" /\ UNCHANGED <<db, disturbed>>
         /\ SumOf(Recalculates(r)) \in Nat
         /\ \/ Stopped(r) /\ SumOf(Recalculates(r)) > Total
            \/ /\ SumOf(Recalculates(r)) \in 0 .. Total
               /\ req'[r].pc = "select" /\ req'[r].next = WithBalance(SumOf(Recalculates(r)))
               /\ Keeps(r, {"op", "pay", "quota", "diff"})
<1> DEFINE paid == SumOf(Recalculates(r))
<1>1. paid \in Nat
  BY PostedPayments, SumOfNat
<1>2. req[r].pc = "sum" /\ UNCHANGED <<db, disturbed>>
  BY DEF Sum, At, Goes
<1>3. CASE paid > Total
  <2>1. Ends(r)
    BY <1>3 DEF Sum, Goes, Ends
  <2> QED BY <1>1, <1>2, <1>3, <2>1, EndsStop
<1>4. CASE ~(paid > Total)
  <2>1. req' = [req EXCEPT ![r] = [req[r] EXCEPT !.pc = "select", !.next = WithBalance(paid)]]
    BY <1>4 DEF Sum, Goes
  <2>2. paid \in 0 .. Total
    BY <1>1, <1>4, AmountsNat
  <2> HIDE DEF paid
  <2>3. req'[r].pc = "select" /\ req'[r].next = WithBalance(paid)
        /\ Keeps(r, {"op", "pay", "quota", "diff"})
    BY <2>1 DEF Types, ReqType, Keeps
  <2> QED BY <1>1, <1>2, <2>2, <2>3 DEF paid
<1> QED BY <1>3, <1>4

\* The save selects the row and remembers which columns differ.
LEMMA SelectStep ==
  ASSUME Types, NEW r \in Requests, Select(r)
  PROVE  /\ req[r].pc = "select" /\ UNCHANGED <<db, disturbed>>
         /\ req'[r].pc = "write" /\ Keeps(r, {"op", "pay", "quota", "next"})
         /\ req'[r].diff = {c \in Columns : payable[c] # req[r].next[c]}
<1> DEFINE d == {c \in Columns : payable[c] # req[r].next[c]}
<1>1. req' = [req EXCEPT ![r] = [req[r] EXCEPT !.pc = "write", !.diff = d]]
  BY DEF Select, Goes
<1> HIDE DEF d
<1>2. req'[r].pc = "write" /\ Keeps(r, {"op", "pay", "quota", "next"}) /\ req'[r].diff = d
  BY <1>1 DEF Types, ReqType, Keeps
<1> QED BY <1>2 DEF Select, At, Goes, d

\* A write is seen at once outside a transaction and at the commit inside.
LEMMA WriteStep ==
  ASSUME Types, NEW r \in Requests, Write(r)
  PROVE  /\ req[r].pc = "write" /\ UNCHANGED <<status, allocated, quota, disturbed>>
         /\ \/ /\ InTransaction(r) /\ UNCHANGED payable
               /\ req'[r].pc = "commit" /\ Keeps(r, {"op", "pay", "quota", "next", "diff"})
            \/ ~InTransaction(r) /\ payable' = Written(r) /\ Stopped(r)
<1>1. CASE InTransaction(r)
  <2>1. req' = [req EXCEPT ![r] = [req[r] EXCEPT !.pc = "commit"]]
    BY <1>1 DEF Write, Goes
  <2>2. req'[r].pc = "commit" /\ Keeps(r, {"op", "pay", "quota", "next", "diff"})
    BY <2>1 DEF Types, ReqType, Keeps
  <2> QED BY <1>1, <2>2 DEF Write, At, Goes, db
<1>2. CASE ~InTransaction(r)
  BY <1>2, EndsStop DEF Write, At
<1> QED BY <1>1, <1>2

\* A transaction computes the quota of its payment, and deletes nothing allocated.
LEMMA BookStep ==
  ASSUME Types, NEW r \in Requests, Book(r)
  PROVE  /\ req[r].pc = "book" /\ UNCHANGED <<db, disturbed>>
         /\ \/ Stopped(r)
            \/ /\ req[r].op = "delete" => req[r].pay \notin allocated
               /\ req'[r].pc = "sum" /\ Keeps(r, {"op", "pay", "next", "diff"})
               /\ req'[r].quota = IF req[r].op = "post" THEN req[r].quota + Amount[req[r].pay]
                                  ELSE Less(req[r].pay, req[r].quota)
<1> DEFINE p == req[r].pay
           n == IF req[r].op = "post" THEN req[r].quota + Amount[p] ELSE Less(p, req[r].quota)
<1>1. CASE req[r].op = "delete" /\ p \in allocated
  <2>1. Ends(r)
    BY <1>1 DEF Book, Goes, Ends
  <2> QED BY <2>1, EndsStop DEF Book, At, Goes
<1>2. CASE ~(req[r].op = "delete" /\ p \in allocated)
  <2>1. req' = [req EXCEPT ![r] = [req[r] EXCEPT !.pc = "sum", !.quota = n]]
    BY <1>2 DEF Book, Goes, Types, ReqType
  <2> HIDE DEF n
  <2>2. req'[r].pc = "sum" /\ Keeps(r, {"op", "pay", "next", "diff"}) /\ req'[r].quota = n
    BY <2>1 DEF Types, ReqType, Keeps
  <2> QED BY <1>2, <2>2 DEF Book, At, Goes, n
<1> QED BY <1>1, <1>2

\* A commit shows status, allocation, quota and balance at once.
LEMMA CommitStep ==
  ASSUME Types, NEW r \in Requests, Commit(r)
  PROVE  /\ req[r].pc = "commit" /\ req[r].op \in {"post", "delete"} /\ req[r].pay \in Payments
         /\ Stopped(r) /\ UNCHANGED disturbed /\ payable' = Written(r) /\ quota' = req[r].quota
         /\ req[r].op = "post" => /\ status' = [status EXCEPT ![req[r].pay] = "POSTED"]
                                  /\ allocated' = allocated \cup {req[r].pay}
         /\ req[r].op = "delete" => /\ status' = [status EXCEPT ![req[r].pay] = "DELETED"]
                                    /\ UNCHANGED allocated
<1>1. req[r].pc = "commit" /\ req[r].op \in {"post", "delete"} /\ req[r].pay \in Payments
  BY DEF Commit, At, Types, InPhase
<1> QED BY <1>1, EndsStop DEF Commit

\* A failure leaves what was committed.
LEMMA FailStep ==
  ASSUME Types, NEW r \in Requests, Fail(r)
  PROVE  Stopped(r) /\ UNCHANGED db /\ disturbed'
  BY EndsStop DEF Fail

-----------------------------------------------------------------------------
(* The payable balances.                                                   *)

\* An untouched payable is balanced.
LEMMA InitBalances == Init => BalanceInv
  BY AmountsNat DEF Init, BalanceInv, PayableBalanced, Idle

\* Requests that write nothing, and are not about to.
LEMMA BalanceKept ==
  ASSUME Types, BalanceInv, NEW r \in Requests, \A o \in Requests \ {r} : req'[o] = req[o],
         req'[r].pc \notin {"select", "write", "commit"}, UNCHANGED payable
  PROVE  BalanceInv'
  BY DEF BalanceInv, PayableBalanced

\* Every step keeps what is paid and what is pending adding up.
LEMMA StepBalances == Types /\ BalanceInv /\ [Next]_vars => BalanceInv'
<1> SUFFICES ASSUME Types, BalanceInv, [Next]_vars PROVE BalanceInv'
  OBVIOUS
<1>1. ASSUME NEW p \in Payments, Request(p) PROVE BalanceInv'
  BY <1>1 DEF Request, BalanceInv, PayableBalanced
<1>2. CASE MarkOverdue
  <2>1. UNCHANGED req /\ payable'.paid = payable.paid /\ payable'.pending = payable.pending
    BY <1>2 DEF MarkOverdue, Types, Balances
  <2> QED BY <2>1 DEF BalanceInv, PayableBalanced
<1>3. CASE UNCHANGED vars
  BY <1>3 DEF vars, BalanceInv, PayableBalanced
<1>4. ASSUME NEW r \in Requests, Runs(r) PROVE BalanceInv'
  <2> DEFINE q == req[r]
  <2>0. \A o \in Requests \ {r} : req'[o] = req[o]
    BY <1>4, OthersStay
  <2> USE DEF db, Keeps, Stopped
  <2>1. ASSUME NEW op \in {"edit", "submit", "approve", "reject", "void"}, NEW p \in Payments,
               Load(r, op, p)
        PROVE  req'[r].pc = "save" /\ UNCHANGED payable
    BY <2>1, LoadStep DEF Started
  <2>2. ASSUME NEW p \in Payments, Check(r, p) \/ Delete(r, p)
        PROVE  req'[r].pc = "book" /\ UNCHANGED payable
    BY <2>2, CheckStep, DeleteStep DEF Started
  <2>3. ASSUME Save(r) \/ Allocate(r) \/ ReadQuota(r) \/ AddToQuota(r) \/ Book(r) \/ Fail(r)
        PROVE  req'[r].pc \notin {"select", "write", "commit"} /\ UNCHANGED payable
    BY <2>3, SaveStep, AllocateStep, ReadQuotaStep, AddToQuotaStep, BookStep, FailStep
  <2>4. CASE Sum(r)
    <3>1. CASE req'[r].pc = "idle" /\ UNCHANGED payable
      BY <2>0, <3>1, BalanceKept
    <3>2. CASE req'[r].pc # "idle"
      <4>1. /\ req'[r].pc = "select" /\ UNCHANGED payable /\ req'[r].next.paid \in 0 .. Total
            /\ req'[r].next.pending = Total - req'[r].next.paid
        BY <2>4, <3>2, SumStepOf, BalanceType
      <4> QED BY <2>0, <4>1 DEF BalanceInv, PayableBalanced
    <3> QED BY <2>4, <3>1, <3>2, SumStepOf
  <2>5. CASE Select(r)
    <3>1. /\ q.pc = "select" /\ req'[r].pc = "write" /\ req'[r].next = q.next
          /\ req'[r].diff = {c \in Columns : payable[c] # q.next[c]} /\ UNCHANGED payable
      BY <2>5, SelectStep
    <3>2. /\ q.next.paid \in 0 .. Total /\ q.next.pending = Total - q.next.paid
          /\ payable.paid + payable.pending = Total /\ payable.paid >= 0 /\ payable.pending >= 0
          /\ payable.paid \in Nat /\ payable.pending \in Nat
      BY <3>1 DEF BalanceInv, PayableBalanced, Types, Balances
    <3>3. "paid" \in req'[r].diff <=> "pending" \in req'[r].diff
      <4>1. /\ "paid" \in req'[r].diff <=> payable.paid # q.next.paid
            /\ "pending" \in req'[r].diff <=> payable.pending # q.next.pending
        BY <3>1 DEF Columns
      <4> QED BY <3>2, <4>1, AmountsNat
    <3> QED BY <2>0, <3>1, <3>2, <3>3 DEF BalanceInv, PayableBalanced
  <2>6. ASSUME q.pc \in {"write", "commit"}, payable' = Written(r), Stopped(r)
        PROVE  BalanceInv'
    <3>1. /\ payable'.paid = IF "paid" \in q.diff THEN q.next.paid ELSE payable.paid
          /\ payable'.pending = IF "pending" \in q.diff THEN q.next.pending ELSE payable.pending
      BY <2>6, WrittenType
    <3>2. /\ q.next.paid \in 0 .. Total /\ q.next.pending = Total - q.next.paid
          /\ "paid" \in q.diff <=> "pending" \in q.diff
      BY <2>6 DEF BalanceInv
    <3>3. PayableBalanced'
      BY <3>1, <3>2, AmountsNat DEF BalanceInv, PayableBalanced
    <3> QED BY <2>0, <2>6, <3>3 DEF BalanceInv
  <2>7. CASE Write(r)
    <3>1. CASE InTransaction(r)
      <4>1. /\ q.pc = "write" /\ req'[r].pc = "commit" /\ req'[r].next = q.next
            /\ req'[r].diff = q.diff /\ UNCHANGED payable
        BY <2>7, <3>1, WriteStep
      <4> QED BY <2>0, <4>1 DEF BalanceInv, PayableBalanced
    <3>2. CASE ~InTransaction(r)
      BY <2>6, <2>7, <3>2, WriteStep
    <3> QED BY <3>1, <3>2
  <2>8. CASE Commit(r)
    BY <2>6, <2>8, CommitStep
  <2> HIDE DEF q
  <2> QED BY <1>4, <2>0, <2>1, <2>2, <2>3, <2>4, <2>5, <2>7, <2>8, BalanceKept DEF Runs
<1> QED BY <1>1, <1>2, <1>3, <1>4 DEF Next

\* Whatever requests overlap, the payable never shows an amount pending that is
\* not what its paid amount leaves of the total.
THEOREM PayableAlwaysBalanced == Spec => []PayableBalanced
<1>1. BalanceInv => PayableBalanced
  BY DEF BalanceInv
<1> QED BY <1>1, InitTypes, StepTypes, InitBalances, StepBalances, PTL DEF Spec

-----------------------------------------------------------------------------
(* The quota: who holds which payment.                                     *)

\* Nothing is held at first.
LEMMA InitHolders == Init => Holders
  BY IdleType DEF Init, Holders, Adds

\* A step that neither takes a payment nor changes one keeps who holds what.
LEMMA HoldersKept ==
  ASSUME Types, Holders, NEW r \in Requests, \A o \in Requests \ {r} : req'[o] = req[o],
         UNCHANGED <<status, allocated>>,
         \/ Stopped(r)
         \/ Keeps(r, {"op", "pay"}) /\ (Adds(r)' => Adds(r))
  PROVE  Holders'
<1>1. \A o \in Requests : \/ req'[o].pay = "none" /\ req'[o].op = "none" /\ ~Adds(o)'
                          \/ /\ req'[o].op = req[o].op /\ req'[o].pay = req[o].pay
                             /\ Adds(o)' => Adds(o)
  BY DEF Stopped, Keeps, Adds
<1>2. \A p \in allocated' : status'[p] # "ABSENT"
  BY DEF Holders
<1>3. \A o \in Requests : Adds(o)' => req'[o].pay \in allocated'
  BY <1>1 DEF Holders
<1>4. \A o, u \in Requests : Adds(o)' /\ Adds(u)' /\ o # u => req'[o].pay # req'[u].pay
  BY <1>1 DEF Holders
<1>5. ASSUME NEW o \in Requests, req'[o].op = "post"
      PROVE  status'[req'[o].pay] = "ABSENT" /\ \A u \in Requests \ {o} : req'[u].pay # req'[o].pay
  <2>1. req[o].op = "post" /\ req'[o].pay = req[o].pay
    BY <1>1, <1>5
  <2>2. req[o].pay \in Payments
    BY <2>1 DEF Types, InPhase
  <2> QED BY <1>1, <2>1, <2>2, PaymentAssumption DEF Holders
<1>6. \A o \in Requests : req'[o].op \notin {"none", "post"} => status'[req'[o].pay] # "ABSENT"
  BY <1>1 DEF Holders
<1> QED BY <1>2, <1>3, <1>4, <1>5, <1>6 DEF Holders

\* A request that starts on p, which no request registers if it is there already.
LEMMA HoldersStart ==
  ASSUME Types, Holders, NEW r \in Requests, \A o \in Requests \ {r} : req'[o] = req[o],
         NEW p \in Payments, NEW op \in Ops \ {"none"}, NEW pc \in {"save", "book"}, NEW n,
         Started(r, op, p, pc, n),
         IF op = "post" THEN New(p) ELSE status[p] # "ABSENT"
  PROVE  Holders'
<1>1. /\ req'[r].op = op /\ req'[r].pay = p /\ ~Adds(r)' /\ UNCHANGED <<status, allocated>>
      /\ \A o \in Requests \ {r} : Adds(o)' = Adds(o)
  BY DEF Started, db, Adds
<1>2. \A o \in Requests : Adds(o)' => req'[o].pay \in allocated'
  BY <1>1 DEF Holders
<1>3. \A o, u \in Requests : Adds(o)' /\ Adds(u)' /\ o # u => req'[o].pay # req'[u].pay
  BY <1>1 DEF Holders
<1>4. ASSUME NEW o \in Requests, req'[o].op = "post"
      PROVE  status'[req'[o].pay] = "ABSENT" /\ \A u \in Requests \ {o} : req'[u].pay # req'[o].pay
  <2>1. CASE o = r
    BY <1>1, <1>4, <2>1 DEF New
  <2>2. CASE o # r
    <3>1. req[o].op = "post" /\ req'[o].pay = req[o].pay /\ status[req[o].pay] = "ABSENT"
      BY <1>4, <2>2 DEF Holders
    <3>2. p # req[o].pay
      BY <3>1 DEF New
    <3> QED BY <1>1, <2>2, <3>1, <3>2 DEF Holders
  <2> QED BY <2>1, <2>2
<1>5. \A o \in Requests : req'[o].op \notin {"none", "post"} => status'[req'[o].pay] # "ABSENT"
  BY <1>1 DEF Holders
<1> QED BY <1>1, <1>2, <1>3, <1>4, <1>5 DEF Holders

\* Every step keeps who holds what.
LEMMA StepHolders == Types /\ Holders /\ [Next]_vars => Holders'
<1> SUFFICES ASSUME Types, Holders, [Next]_vars PROVE Holders'
  OBVIOUS
<1>1. ASSUME NEW p \in Payments, Request(p) PROVE Holders'
  <2>1. /\ \A o \in Requests : req[o].pay # p
        /\ status' \in [Payments -> Statuses] /\ status'[p] # "ABSENT"
        /\ \A x \in Payments \ {p} : status'[x] = status[x]
        /\ UNCHANGED <<allocated, req>>
    BY <1>1 DEF Request, New, Types, Statuses
  <2>2. \A o \in Requests : req[o].op # "none" => req[o].pay \in Payments
    BY DEF Types, InPhase
  <2> QED BY <2>1, <2>2 DEF Holders, Adds, Types
<1>2. CASE MarkOverdue \/ UNCHANGED vars
  BY <1>2 DEF MarkOverdue, vars, Holders, Adds
<1>3. ASSUME NEW r \in Requests, Runs(r) PROVE Holders'
  <2> DEFINE q == req[r]
             p == q.pay
  <2>0. \A o \in Requests \ {r} : req'[o] = req[o]
    BY <1>3, OthersStay
  <2>1. ASSUME NEW op \in {"edit", "submit", "approve", "reject", "void"}, NEW x \in Payments,
               Load(r, op, x)
        PROVE  Holders'
    <3>1. status[x] # "ABSENT" /\ Started(r, op, x, "save", 0)
      BY <2>1, LoadStep DEF Expects
    <3> QED BY <2>0, <3>1, HoldersStart DEF Ops
  <2>2. ASSUME NEW x \in Payments, Check(r, x) PROVE Holders'
    BY <2>0, <2>2, CheckStep, HoldersStart DEF Ops
  <2>3. ASSUME NEW x \in Payments, Delete(r, x) PROVE Holders'
    <3>1. status[x] # "ABSENT" /\ Started(r, "delete", x, "book", quota)
      BY <2>3, DeleteStep DEF Deletable
    <3> QED BY <2>0, <3>1, HoldersStart DEF Ops
  \* A write of p, which nobody registers.
  <2>4. ASSUME p \in Payments, q.op # "none", Stopped(r) \/ (Keeps(r, {"op", "pay"}) /\ q.op # "post"),
               Adds(r)' => Adds(r), allocated' \in {allocated, allocated \cup {p}},
               status' \in [Payments -> Statuses], status'[p] # "ABSENT",
               \A x \in Payments \ {p} : status'[x] = status[x]
        PROVE  Holders'
    <3>1. \A o \in Requests \ {r} : Adds(o)' = Adds(o)
      BY <2>0 DEF Adds
    <3>2. /\ req'[r].pay \in {p, "none"} /\ req'[r].op # "post"
          /\ req'[r].op # "none" => req'[r].pay = p
          /\ Adds(r)' => req'[r].pay = p
      BY <2>4 DEF Stopped, Keeps, Adds
    <3>3. \A o \in Requests : Adds(o)' => req'[o].pay \in allocated'
      BY <2>0, <2>4, <3>1, <3>2 DEF Holders
    <3>4. \A o, u \in Requests : Adds(o)' /\ Adds(u)' /\ o # u => req'[o].pay # req'[u].pay
      BY <2>0, <2>4, <3>1, <3>2 DEF Holders
    <3>5. \A x \in allocated' : status'[x] # "ABSENT"
      BY <2>4 DEF Holders, Types
    <3>6. ASSUME NEW o \in Requests, req'[o].op = "post"
          PROVE  status'[req'[o].pay] = "ABSENT" /\ \A u \in Requests \ {o} : req'[u].pay # req'[o].pay
      <4>1. o # r /\ req[o].op = "post" /\ req'[o] = req[o] /\ req[o].pay \in Payments
        BY <2>0, <3>2, <3>6 DEF Types, InPhase
      <4>2. status[req[o].pay] = "ABSENT" /\ \A u \in Requests \ {o} : req[u].pay # req[o].pay
        BY <4>1 DEF Holders
      <4> QED BY <2>0, <2>4, <3>2, <4>1, <4>2, PaymentAssumption
    <3>7. ASSUME NEW o \in Requests, req'[o].op \notin {"none", "post"}
          PROVE  status'[req'[o].pay] # "ABSENT"
      <4>1. CASE o = r
        BY <2>4, <3>2, <3>7, <4>1
      <4>2. CASE o # r
        <5>1. req[o].op \notin {"none", "post"} /\ req'[o] = req[o] /\ req[o].pay \in Payments
          BY <2>0, <3>7, <4>2 DEF Types, InPhase
        <5> QED BY <2>4, <5>1 DEF Holders
      <4> QED BY <4>1, <4>2
    <3> QED BY <3>3, <3>4, <3>5, <3>6, <3>7 DEF Holders
  <2>5. CASE Save(r)
    <3>1. /\ q.op \notin {"none", "post"} /\ p \in Payments /\ ~Adds(r)' /\ UNCHANGED allocated
          /\ Stopped(r) \/ Keeps(r, {"op", "pay"})
      BY <2>5, SaveStep DEF Types, InPhase, Adds, Stopped, Keeps
    <3>2. \/ \E x \in Statuses \ {"ABSENT"} : status' = [status EXCEPT ![p] = x]
          \/ UNCHANGED status
      BY <2>5 DEF Save, Becomes, Statuses, Types, InPhase, At
    <3>3. status[p] # "ABSENT"
      BY <3>1 DEF Holders
    <3>4. /\ status' \in [Payments -> Statuses] /\ status'[p] # "ABSENT"
          /\ \A x \in Payments \ {p} : status'[x] = status[x]
      BY <3>1, <3>2, <3>3 DEF Types
    <3> QED BY <2>4, <3>1, <3>4
  <2>6. CASE Allocate(r)
    <3>1. q.op = "approve" /\ p \in Payments /\ UNCHANGED status /\ ~Adds(r)
      BY <2>6, AllocateStep DEF Types, InPhase, Adds
    <3>2. CASE Stopped(r) /\ UNCHANGED allocated
      BY <2>0, <3>1, <3>2, HoldersKept
    <3>3. CASE /\ Allocatable(p) /\ allocated' = allocated \cup {p} /\ req'[r].pay = p
               /\ req'[r].op = q.op
      <4>1. status[p] # "ABSENT" /\ p \notin allocated
        BY <3>1, <3>3 DEF Holders, Allocatable
      <4>2. \A o \in Requests \ {r} : Adds(o)' = Adds(o)
        BY <2>0 DEF Adds
      <4>3. \A o \in Requests : Adds(o)' => req'[o].pay \in allocated'
        BY <2>0, <3>3, <4>2 DEF Holders
      <4>4. \A o, u \in Requests : Adds(o)' /\ Adds(u)' /\ o # u => req'[o].pay # req'[u].pay
        BY <2>0, <3>3, <4>1, <4>2 DEF Holders
      <4>5. \A o \in Requests : req'[o].op = req[o].op /\ req'[o].pay = req[o].pay
        BY <2>0, <3>3
      <4>6. \A x \in allocated' : status'[x] # "ABSENT"
        BY <3>1, <3>3, <4>1 DEF Holders
      <4> QED BY <3>1, <4>3, <4>4, <4>5, <4>6 DEF Holders
    <3> QED BY <2>6, <3>2, <3>3, AllocateStep DEF Keeps
  <2>7. CASE ReadQuota(r) \/ AddToQuota(r) \/ Sum(r) \/ Select(r) \/ Write(r) \/ Book(r) \/ Fail(r)
    <3>1. UNCHANGED <<status, allocated>>
      BY <2>7, ReadQuotaStep, AddToQuotaStep, SumStepOf, SelectStep, WriteStep, BookStep, FailStep
      DEF db
    <3>2. Stopped(r) \/ (Keeps(r, {"op", "pay"}) /\ (Adds(r)' => Adds(r)))
      BY <2>7, ReadQuotaStep, AddToQuotaStep, SumStepOf, SelectStep, WriteStep, BookStep, FailStep
      DEF Keeps, Adds
    <3> QED BY <2>0, <3>1, <3>2, HoldersKept
  <2>8. CASE Commit(r)
    <3>1. p \in Payments /\ q.op \in {"post", "delete"} /\ Stopped(r) /\ ~Adds(r)'
      BY <2>8, CommitStep DEF Stopped, Adds
    <3>2. /\ status' \in [Payments -> Statuses] /\ status'[p] # "ABSENT"
          /\ \A x \in Payments \ {p} : status'[x] = status[x]
          /\ allocated' \in {allocated, allocated \cup {p}}
      BY <2>8, <3>1, CommitStep DEF Types, Statuses
    <3> QED BY <2>4, <3>1, <3>2
  <2> HIDE DEF q, p
  <2> QED BY <1>3, <2>1, <2>2, <2>3, <2>5, <2>6, <2>7, <2>8 DEF Runs
<1> QED BY <1>1, <1>2, <1>3 DEF Next

-----------------------------------------------------------------------------
(* The quota: what it counts.                                              *)

\* The quota starts at what it opened with.
LEMMA InitQuota == Init => QuotaInv
<1> SUFFICES ASSUME Init PROVE QuotaInv
  OBVIOUS
<1>1. Counted \in SUBSET Payments /\ quota = Opening
      /\ \A r \in Requests : req[r].quota = 0 /\ req[r].op = "none"
  BY IdleType DEF Init, Counted
<1>2. SumOf(Counted) \in Nat
  BY <1>1, SumOfNat
<1> QED BY <1>1, <1>2, AmountsNat DEF QuotaInv, Booked

\* What is counted is a part of what is allocated.
LEMMA CountedSums ==
  ASSUME Types
  PROVE  /\ Counted \in SUBSET Payments /\ SumOf(Counted) \in Nat
         /\ SumOf(allocated) \in Nat /\ SumOf(Counted) <= SumOf(allocated)
<1>1. Counted \in SUBSET allocated /\ allocated \in SUBSET Payments
  BY DEF Counted, Types
<1> QED BY <1>1, SumOfNat, SumOfPart

\* What is counted once stays counted: no allocation is ever taken back.
LEMMA CountedGrows ==
  ASSUME Types, Holders, [Next]_vars
  PROVE  Counted \subseteq Counted'
<1>1. CASE UNCHANGED <<allocated, req>>
  BY <1>1 DEF Counted, Adds
<1>2. ASSUME NEW r \in Requests, Runs(r) PROVE Counted \subseteq Counted'
  <2>0. \A o \in Requests \ {r} : req'[o] = req[o] /\ Adds(o)' = Adds(o)
    BY <1>2, OthersStay DEF Adds
  <2>1. CASE Allocate(r)
    <3>1. /\ allocated' \in {allocated, allocated \cup {req[r].pay}}
          /\ Adds(r)' => req'[r].pay = req[r].pay /\ req[r].pay \notin allocated
      BY <2>1, AllocateStep DEF Stopped, Keeps, Adds, Allocatable
    <3> QED BY <2>0, <3>1 DEF Counted
  <2>2. ASSUME NEW p \in Payments,
               \/ Check(r, p) \/ Delete(r, p)
               \/ \E op \in {"edit", "submit", "approve", "reject", "void"} : Load(r, op, p)
        PROVE  ~Adds(r)' /\ allocated' = allocated
    BY <2>2, LoadStep, CheckStep, DeleteStep DEF Started, Adds, db
  <2>3. ASSUME \/ Save(r) \/ ReadQuota(r) \/ AddToQuota(r) \/ Sum(r) \/ Select(r) \/ Write(r)
               \/ Book(r) \/ Fail(r)
        PROVE  (Adds(r)' => Adds(r) /\ req'[r].pay = req[r].pay) /\ allocated' = allocated
    BY <2>3, SaveStep, ReadQuotaStep, AddToQuotaStep, SumStepOf, SelectStep, WriteStep, BookStep,
       FailStep DEF Stopped, Keeps, Adds, db
  <2>4. CASE Commit(r)
    <3>1. ~Adds(r)' /\ allocated \subseteq allocated'
      BY <2>4, CommitStep DEF Stopped, Adds
    <3> QED BY <2>0, <3>1 DEF Counted
  <2>5. CASE (Adds(r)' => Adds(r) /\ req'[r].pay = req[r].pay) /\ allocated' = allocated
    BY <2>0, <2>5 DEF Counted
  <2> QED BY <1>2, <2>1, <2>2, <2>3, <2>4, <2>5 DEF Runs
<1>3. ASSUME NEW p \in Payments, Request(p) PROVE UNCHANGED <<allocated, req>>
  BY <1>3 DEF Request
<1> QED BY <1>1, <1>2, <1>3 DEF Next, MarkOverdue, vars

\* A payment counted anew weighs its amount.
LEMMA CountedMore ==
  ASSUME Types, Types', NEW p \in Payments, p \notin Counted, Counted \cup {p} \subseteq Counted'
  PROVE  SumOf(Counted) + Amount[p] <= SumOf(Counted')
<1>1. /\ Counted \in SUBSET Payments /\ Counted' \in SUBSET Payments
      /\ Counted \cup {p} \in SUBSET Counted'
  BY CountedSums DEF Types, Counted
<1>2. SumOf(Counted \cup {p}) = SumOf(Counted) + Amount[p]
  BY <1>1, SumOfMore
<1>3. SumOf(Counted \cup {p}) <= SumOf(Counted')
  BY <1>1, SumOfPart
<1> QED BY <1>2, <1>3

\* Every step keeps the quota to what is counted.
LEMMA StepQuota == Types /\ Types' /\ Holders /\ QuotaInv /\ [Next]_vars => QuotaInv'
<1> SUFFICES ASSUME Types, Types', Holders, QuotaInv, [Next]_vars PROVE QuotaInv'
  OBVIOUS
<1>0. /\ SumOf(Counted) \in Nat /\ SumOf(Counted') \in Nat /\ SumOf(Counted) <= SumOf(Counted')
      /\ quota \in Nat /\ quota' \in Nat /\ quota <= Opening + SumOf(Counted)
      /\ Opening \in Nat
  <2>1. Counted \in SUBSET Counted' /\ Counted' \in SUBSET Payments
    BY CountedGrows DEF Types, Counted
  <2> QED BY <2>1, CountedSums, SumOfNat, SumOfPart, AmountsNat DEF Types, QuotaInv
<1> DEFINE old == Opening + SumOf(Counted)
           new == Opening + SumOf(Counted')
<1> HIDE DEF old, new
<1>1. ASSUME NEW o \in Requests
      PROVE  /\ req[o].quota \in Nat /\ req'[o].quota \in Nat
             /\ Booked(o) \in Nat /\ req[o].quota <= old + Booked(o)
  BY AmountsNat DEF Types, ReqType, InPhase, Booked, QuotaInv, old
<1>2. ASSUME NEW o \in Requests, req'[o] = req[o] PROVE req'[o].quota <= new + Booked(o)'
  <2>1. Booked(o)' = Booked(o)
    BY <1>2 DEF Booked
  <2> QED BY <1>0, <1>1, <1>2, <2>1 DEF old, new
<1>3. CASE UNCHANGED <<req, quota>>
  BY <1>0, <1>2, <1>3 DEF QuotaInv, old, new
<1>4. ASSUME NEW r \in Requests, \A o \in Requests \ {r} : req'[o] = req[o],
             quota' <= new, req'[r].quota <= new + Booked(r)'
      PROVE  QuotaInv'
  BY <1>2, <1>4 DEF QuotaInv, new
<1>5. ASSUME NEW r \in Requests, Runs(r) PROVE QuotaInv'
  <2> DEFINE q == req[r]
             p == q.pay
  <2>0. /\ \A o \in Requests \ {r} : req'[o] = req[o]
        /\ q.quota \in Nat /\ Booked(r) \in Nat /\ q.quota <= old + Booked(r)
        /\ Booked(r)' \in Nat /\ req'[r].quota \in Nat
        /\ old \in Nat /\ new \in Nat /\ old <= new /\ quota <= old /\ quota \in Nat
    BY <1>0, <1>1, <1>5, OthersStay, AmountsNat DEF old, new, Types, InPhase, Booked
  <2>1. ASSUME quota' = quota,
               req'[r].quota \in {0, quota} \/ (req'[r].quota = q.quota /\ Booked(r)' = Booked(r))
        PROVE  QuotaInv'
    BY <1>4, <2>0, <2>1
  <2>2. ASSUME NEW x \in Payments,
               \/ Check(r, x) \/ Delete(r, x)
               \/ \E op \in {"edit", "submit", "approve", "reject", "void"} : Load(r, op, x)
        PROVE  quota' = quota /\ req'[r].quota \in {0, quota}
    BY <2>2, LoadStep, CheckStep, DeleteStep DEF Started, db
  <2>3. ASSUME Save(r) \/ Allocate(r) \/ ReadQuota(r) \/ Sum(r) \/ Select(r) \/ Write(r) \/ Fail(r)
        PROVE  /\ quota' = quota
               /\ \/ req'[r].quota \in {0, quota}
                  \/ /\ req'[r].quota = q.quota /\ req'[r].op = q.op /\ req'[r].pay = p
                     /\ \/ q.op # "post"
                        \/ {q.pc, req'[r].pc} \subseteq {"sum", "select", "write", "commit"}
    <3>1. Save(r) \/ Allocate(r) => q.op # "post"
      BY SaveStep, AllocateStep DEF Types, InPhase
    <3>2. CASE Save(r) \/ Allocate(r)
      BY <3>1, <3>2, SaveStep, AllocateStep DEF Stopped, Keeps
    <3>3. CASE ReadQuota(r) \/ Fail(r)
      BY <3>3, ReadQuotaStep, FailStep DEF Stopped, db
    <3>4. CASE Sum(r) \/ Select(r) \/ Write(r)
      BY <3>4, SumStepOf, SelectStep, WriteStep DEF Stopped, Keeps, db
    <3> QED BY <2>3, <3>2, <3>3, <3>4
  <2>7. ASSUME req'[r].op = q.op, req'[r].pay = p,
               q.op # "post" \/ {q.pc, req'[r].pc} \subseteq {"sum", "select", "write", "commit"}
        PROVE  Booked(r)' = Booked(r)
    BY <2>7 DEF Booked
  <2>4. CASE AddToQuota(r)
    <3>1. /\ q.op = "approve" /\ p \in Payments /\ Adds(r) /\ ~Adds(r)' /\ UNCHANGED allocated
          /\ quota' = q.quota + Amount[p] /\ req'[r].quota = q.quota
      BY <2>4, AddToQuotaStep DEF Adds, Types, InPhase, Keeps
    <3>2. p \in allocated /\ p \notin Counted /\ p \in Counted'
      BY <2>0, <3>1 DEF Holders, Counted, Adds
    <3>3. old + Amount[p] <= new
      BY <1>0, <3>1, <3>2, CountedGrows, CountedMore, AmountsNat DEF old, new
    <3>4. Booked(r) = 0 /\ Amount[p] \in Nat
      BY <3>1, AmountsNat DEF Booked
    <3> QED BY <1>4, <2>0, <3>1, <3>3, <3>4
  <2>5. CASE Book(r)
    <3>1. q.op \in {"post", "delete"} /\ p \in Payments /\ q.pc = "book" /\ quota' = quota
      BY <2>5, BookStep DEF Types, InPhase, db
    <3>2. Booked(r) = 0 /\ Amount[p] \in Nat
      BY <3>1, AmountsNat DEF Booked
    <3>3. CASE Stopped(r)
      <4>1. req'[r].quota = 0
        BY <3>3 DEF Stopped
      <4> QED BY <2>1, <3>1, <4>1
    <3>4. CASE ~Stopped(r)
      <4>1. /\ req'[r].pc = "sum" /\ req'[r].op = q.op /\ req'[r].pay = p
            /\ req'[r].quota = IF q.op = "post" THEN q.quota + Amount[p] ELSE Less(p, q.quota)
        BY <2>5, <3>4, BookStep DEF Keeps
      <4>2. CASE q.op = "post"
        <5>1. Booked(r)' = Amount[p]
          BY <4>1, <4>2 DEF Booked
        <5> QED BY <1>4, <2>0, <3>1, <3>2, <4>1, <4>2, <5>1
      <4>3. CASE q.op = "delete"
        <5>1. req'[r].quota <= q.quota
          BY <2>0, <3>2, <4>1, <4>3 DEF Less
        <5> QED BY <1>4, <2>0, <3>1, <3>2, <5>1
      <4> QED BY <3>1, <4>2, <4>3
    <3> QED BY <3>3, <3>4
  <2>6. CASE Commit(r)
    <3>1. /\ q.pc = "commit" /\ q.op \in {"post", "delete"} /\ p \in Payments
          /\ quota' = q.quota /\ req'[r].quota = 0
      BY <2>6, CommitStep DEF Stopped
    <3>2. CASE q.op = "post"
      <4>1. p \notin Counted /\ p \in Counted'
        <5>1. allocated' = allocated \cup {p} /\ ~Adds(r)'
          BY <2>6, <3>2, CommitStep DEF Stopped, Adds
        <5>2. p \notin allocated /\ \A o \in Requests \ {r} : req[o].pay # p
          BY <3>2 DEF Holders
        <5> QED BY <2>0, <5>1, <5>2 DEF Counted, Adds
      <4>2. old + Amount[p] <= new
        BY <1>0, <3>1, <4>1, CountedGrows, CountedMore, AmountsNat DEF old, new
      <4>3. Booked(r) = Amount[p] /\ Amount[p] \in Nat
        BY <3>1, <3>2, AmountsNat DEF Booked
      <4> QED BY <1>4, <2>0, <3>1, <4>2, <4>3
    <3>3. CASE q.op = "delete"
      <4>1. Booked(r) = 0
        BY <3>3 DEF Booked
      <4> QED BY <1>4, <2>0, <3>1, <4>1
    <3> QED BY <3>1, <3>2, <3>3
  <2> HIDE DEF q, p
  <2> QED BY <1>5, <2>1, <2>2, <2>3, <2>4, <2>5, <2>6, <2>7 DEF Runs
<1>6. ASSUME NEW p \in Payments, Request(p) PROVE UNCHANGED <<req, quota>>
  BY <1>6 DEF Request
<1> QED BY <1>3, <1>5, <1>6 DEF Next, MarkOverdue, vars

\* However approvals, registrations, deletions and failures meet, the quota never
\* counts more than it opened with and the allocations since, nor one payment twice.
THEOREM QuotaHoldsAllocated == Spec => []QuotaWithinAllocated
<1>1. Types /\ QuotaInv => QuotaWithinAllocated
  <2> SUFFICES ASSUME Types, QuotaInv PROVE QuotaWithinAllocated
    OBVIOUS
  <2>1. SumOf(Counted) \in Nat /\ SumOf(allocated) \in Nat /\ SumOf(Counted) <= SumOf(allocated)
    BY CountedSums
  <2> QED BY <2>1, AmountsNat DEF Types, QuotaInv, QuotaWithinAllocated
<1> QED BY <1>1, InitTypes, StepTypes, InitHolders, StepHolders, InitQuota, StepQuota, PTL DEF Spec

-----------------------------------------------------------------------------
(* One request at a time.                                                  *)

\* An untouched payable shows that nothing is posted.
LEMMA InitAlone == Init => AloneInv
<1> SUFFICES ASSUME Init PROVE AloneInv
  OBVIOUS
<1>1. Posted = {} /\ SumOf({}) = 0
  BY SumEmpty DEF Init, Posted, SumOf
<1>2. \A r \in Requests : req[r].pc = "idle" /\ req[r].op = "none"
  BY IdleType DEF Init
<1>3. Shows
  BY <1>1, AmountsNat DEF Init, Shows
<1> QED BY <1>2, <1>3 DEF Init, AloneInv, OnItsWay, At, Adds

\* A save writes the columns that differed, and those only.
LEMMA WrittenFields ==
  ASSUME NEW r \in Requests
  PROVE  /\ Written(r).paid = IF "paid" \in req[r].diff THEN req[r].next.paid ELSE payable.paid
         /\ Written(r).pending = IF "pending" \in req[r].diff THEN req[r].next.pending
                                 ELSE payable.pending
         /\ Written(r).status = IF "status" \in req[r].diff THEN req[r].next.status
                                ELSE payable.status
         /\ Written(r)'.paid = IF "paid" \in req'[r].diff THEN req'[r].next.paid ELSE payable'.paid
         /\ Written(r)'.pending = IF "pending" \in req'[r].diff THEN req'[r].next.pending
                                  ELSE payable'.pending
         /\ Written(r)'.status = IF "status" \in req'[r].diff THEN req'[r].next.status
                                 ELSE payable'.status
  BY DEF Written, Columns

\* The payable goes on showing the posted payments while neither changes.
LEMMA ShowsStays ==
  ASSUME Shows, UNCHANGED payable, Posted' = Posted
  PROVE  Shows'
  BY DEF Shows

\* The others are idle, and stay so.
LEMMA AloneOthers ==
  ASSUME Types, AloneInv, NEW r \in Requests, Runs(r), ~disturbed'
  PROVE  /\ ~disturbed
         /\ \A o \in Requests \ {r} : req[o].pc = "idle" /\ req[o].op = "none" /\ req'[o] = req[o]
<1> USE DEF db
<1>1. ASSUME NEW op, NEW p, NEW pc, NEW n, Started(r, op, p, pc, n)
      PROVE  ~disturbed /\ \A o \in Requests : req[o].pc = "idle"
  BY <1>1 DEF Started, At, Types
<1>2. ASSUME NEW p \in Payments,
             \/ Check(r, p) \/ Delete(r, p)
             \/ \E op \in {"edit", "submit", "approve", "reject", "void"} : Load(r, op, p)
      PROVE  ~disturbed /\ \A o \in Requests : req[o].pc = "idle"
  BY <1>1, <1>2, LoadStep, CheckStep, DeleteStep
<1>3. ASSUME \/ Save(r) \/ Allocate(r) \/ ReadQuota(r) \/ AddToQuota(r) \/ Sum(r) \/ Select(r)
             \/ Write(r) \/ Book(r) \/ Commit(r)
      PROVE  UNCHANGED disturbed /\ req[r].pc # "idle"
  BY <1>3, SaveStep, AllocateStep, ReadQuotaStep, AddToQuotaStep, SumStepOf, SelectStep, WriteStep,
     BookStep, CommitStep
<1>4. ~Fail(r)
  BY FailStep
<1>5. ~disturbed /\ \A o \in Requests \ {r} : req[o].pc = "idle"
  BY <1>2, <1>3, <1>4 DEF Runs, AloneInv, At
<1>6. ASSUME NEW o \in Requests, req[o].pc = "idle" PROVE req[o].op = "none"
  BY <1>6 DEF Types, InPhase
<1> QED BY <1>5, <1>6, OthersStay

\* It is enough to look at the request that runs.
LEMMA AloneStep ==
  ASSUME NEW r \in Requests,
         \A o \in Requests \ {r} : req'[o].pc = "idle" /\ req'[o].op = "none",
         Settled(r)' => Shows', OnItsWay(r)',
         \A p \in allocated' : status'[p] \in {"POSTED", "VOIDED"}
  PROVE  AloneInv'
<1>1. \A o \in Requests \ {r} : OnItsWay(o)'
  BY DEF OnItsWay, At, Adds
<1>2. \A o, u \in Requests : o # u => At(o, "idle")' \/ At(u, "idle")'
  BY DEF At
<1> QED BY <1>1, <1>2 DEF AloneInv

\* A step that leaves the posted payments and the payable alone.
LEMMA SettledStays ==
  ASSUME AloneInv, ~disturbed, NEW r \in Requests,
         \A o \in Requests \ {r} : req[o].pc = "idle", Settled(r),
         UNCHANGED payable, Posted' = Posted
  PROVE  Shows'
<1>1. \A o \in Requests : Settled(o)
  BY DEF Settled, At
<1> QED BY <1>1, ShowsStays DEF AloneInv

\* The write of a request alone brings the payable to what is posted.
LEMMA AloneWrites ==
  ASSUME Types, Types', AloneInv, NEW r \in Requests, ~disturbed, req[r].pc \in {"write", "commit"},
         payable' = Written(r), Posted' = Recalculates(r)
  PROVE  Shows'
<1>1. /\ req[r].next.paid = SumOf(Recalculates(r)) /\ Written(r).paid = req[r].next.paid
      /\ Written(r).pending = 0 <=> Written(r).status = "PAID"
  BY DEF AloneInv, OnItsWay
<1> QED BY <1>1 DEF Shows

\* A query of a request alone keeps the payable on its way to what is posted.
LEMMA RunAlone ==
  ASSUME Types, Types', AloneInv, NEW r \in Requests, Runs(r), ~disturbed'
  PROVE  AloneInv'
<1> DEFINE q == req[r]
           p == q.pay
<1>0. /\ ~disturbed
      /\ \A o \in Requests \ {r} : req[o].pc = "idle" /\ req[o].op = "none" /\ req'[o] = req[o]
      /\ OnItsWay(r) /\ \A x \in allocated : status[x] \in {"POSTED", "VOIDED"}
      /\ q \in ReqType /\ InPhase(q) /\ req'[r] \in ReqType /\ InPhase(req'[r])
      /\ status \in [Payments -> Statuses]
  BY AloneOthers DEF AloneInv, Types
<1>1. ASSUME Settled(r)' => Shows', OnItsWay(r)', \A x \in allocated' : status'[x] \in {"POSTED", "VOIDED"}
      PROVE  AloneInv'
  BY <1>0, <1>1, AloneStep
<1>2. ASSUME Settled(r), UNCHANGED payable, Posted' = Posted PROVE Shows'
  BY <1>0, <1>2, SettledStays
<1>3. ASSUME UNCHANGED status PROVE Posted' = Posted
  BY <1>3 DEF Posted
\* A request at rest, before its balance.
<1>4. ASSUME req'[r].pc \in {"idle", "book", "sum"}, req'[r].op = "delete" => status'[req'[r].pay] \in Deletable
      PROVE  OnItsWay(r)'
  BY <1>4 DEF OnItsWay, At, Adds
<1>5. ASSUME NEW op \in {"edit", "submit", "approve", "reject", "void"}, NEW x \in Payments,
             Load(r, op, x)
      PROVE  AloneInv'
  <2>1. /\ status[x] \in Expects(op) /\ Settled(r) /\ req'[r].pc = "save" /\ req'[r].op = op
        /\ req'[r].pay = x /\ UNCHANGED <<status, allocated, payable>>
    BY <1>5, LoadStep DEF Started, Settled, At, db
  <2>2. OnItsWay(r)'
    BY <2>1 DEF OnItsWay, At, Adds, Expects
  <2> QED BY <1>0, <1>1, <1>2, <1>3, <2>1, <2>2
<1>6. ASSUME NEW x \in Payments, Check(r, x) PROVE AloneInv'
  <2>1. /\ Settled(r) /\ req'[r].pc = "book" /\ req'[r].op = "post"
        /\ UNCHANGED <<status, allocated, payable>>
    BY <1>6, CheckStep DEF Started, Settled, At, db
  <2> QED BY <1>0, <1>1, <1>2, <1>3, <1>4, <2>1
<1>7. ASSUME NEW x \in Payments, Delete(r, x) PROVE AloneInv'
  <2>1. /\ Settled(r) /\ req'[r].pc = "book" /\ req'[r].op = "delete" /\ req'[r].pay = x
        /\ status[x] \in Deletable /\ UNCHANGED <<status, allocated, payable>>
    BY <1>7, DeleteStep DEF Started, Settled, At, db
  <2> QED BY <1>0, <1>1, <1>2, <1>3, <1>4, <2>1
<1>8. CASE Save(r)
  <2>1. /\ q.pc = "save" /\ p \in Payments /\ status[p] \in Expects(q.op) /\ Settled(r)
        /\ q.op \in {"edit", "submit", "approve", "reject", "void"}
        /\ UNCHANGED <<allocated, payable>>
    BY <1>0, <1>8, SaveStep DEF OnItsWay, At, InPhase, Settled
  <2>2. \E s \in Becomes(q.op) : status' = [status EXCEPT ![p] = s]
    BY <1>8, <2>1 DEF Save, Expects
  <2>3. CASE q.op \in {"edit", "submit", "reject"}
    <3>1. Stopped(r)
      BY <1>8, <2>3, SaveStep
    <3>2. status[p] \in {"DRAFT", "PENDING_APPROVAL"} /\ status'[p] # "POSTED"
          /\ \A x \in Payments \ {p} : status'[x] = status[x]
      BY <1>0, <2>1, <2>2, <2>3 DEF Expects, Becomes
    <3>3. Posted' = Posted
      BY <3>2 DEF Posted
    <3>4. \A x \in allocated' : status'[x] \in {"POSTED", "VOIDED"}
      BY <1>0, <2>1, <3>2 DEF Types
    <3> QED BY <1>1, <1>2, <1>4, <2>1, <3>1, <3>3, <3>4 DEF Stopped
  <2>4. CASE q.op = "approve"
    <3>1. /\ req'[r].pc = "allocate" /\ req'[r].pay = p /\ req'[r].op = "approve" /\ ~Settled(r)'
      BY <1>8, <2>4, SaveStep DEF Keeps, Stopped, Settled, At, InTransaction
    <3>2. status[p] \in {"PENDING_APPROVAL", "SCHEDULED"} /\ status'[p] = "POSTED"
          /\ \A x \in Payments \ {p} : status'[x] = status[x]
      BY <1>0, <2>1, <2>2, <2>4 DEF Expects, Becomes
    <3>3. p \notin allocated
      BY <1>0, <3>2
    <3>4. \A x \in allocated' : status'[x] \in {"POSTED", "VOIDED"}
      BY <1>0, <2>1, <3>2 DEF Types
    <3>5. OnItsWay(r)'
      BY <2>1, <3>1, <3>2, <3>3 DEF OnItsWay, At, Adds
    <3> QED BY <1>1, <3>1, <3>4, <3>5
  <2>5. CASE q.op = "void"
    <3>1. /\ req'[r].pc = "sum" /\ req'[r].op = "void" /\ ~Settled(r)'
      BY <1>8, <2>5, SaveStep DEF Keeps, Stopped, Settled, At, InTransaction
    <3>2. status'[p] = "VOIDED" /\ \A x \in Payments \ {p} : status'[x] = status[x]
      BY <1>0, <2>1, <2>2, <2>5 DEF Becomes
    <3>3. \A x \in allocated' : status'[x] \in {"POSTED", "VOIDED"}
      BY <1>0, <2>1, <3>2 DEF Types
    <3> QED BY <1>1, <1>4, <3>1, <3>3
  <2> QED BY <2>1, <2>3, <2>4, <2>5
<1>9. CASE Allocate(r)
  <2>1. status[p] = "POSTED" /\ Allocatable(p) /\ q.op = "approve"
    BY <1>0, <1>9, AllocateStep DEF OnItsWay, At, Allocatable, InPhase
  <2>2. /\ req'[r].pc = "readQuota" /\ req'[r].pay = p /\ req'[r].op = "approve"
        /\ allocated' = allocated \cup {p} /\ UNCHANGED status
    BY <1>9, <2>1, AllocateStep DEF Keeps
  <2>3. OnItsWay(r)' /\ ~Settled(r)'
    BY <2>1, <2>2 DEF OnItsWay, At, Adds, Settled, InTransaction
  <2> QED BY <1>0, <1>1, <2>1, <2>2, <2>3
<1>10. CASE ReadQuota(r)
  <2>1. /\ req'[r].pc = "addQuota" /\ req'[r].pay = p /\ req'[r].op = "approve"
        /\ UNCHANGED <<status, allocated>> /\ status[p] = "POSTED"
    BY <1>0, <1>10, ReadQuotaStep DEF Keeps, db, OnItsWay, Adds, InPhase
  <2>2. OnItsWay(r)' /\ ~Settled(r)'
    BY <2>1 DEF OnItsWay, At, Adds, Settled, InTransaction
  <2> QED BY <1>0, <1>1, <2>1, <2>2
<1>11. CASE AddToQuota(r)
  <2>1. req'[r].pc = "sum" /\ req'[r].op = "approve" /\ UNCHANGED <<status, allocated>>
    BY <1>0, <1>11, AddToQuotaStep DEF Keeps, InPhase
  <2> QED BY <1>0, <1>1, <1>4, <2>1 DEF Settled, At, InTransaction
<1>12. ASSUME UNCHANGED <<status, allocated>>, req'[r].op = q.op, req'[r].pay = p
       PROVE  /\ Recalculates(r)' = Recalculates(r) /\ InTransaction(r)' = InTransaction(r)
              /\ req'[r].op = "delete" => status'[req'[r].pay] \in Deletable
  BY <1>0, <1>12 DEF Recalculates, Posted, OnItsWay, InTransaction
<1>13. ASSUME UNCHANGED <<status, allocated, payable>>, Stopped(r), InTransaction(r)
       PROVE  AloneInv'
  BY <1>0, <1>1, <1>2, <1>3, <1>4, <1>13 DEF Stopped, Settled
<1>14. CASE Sum(r)
  <2>0. UNCHANGED <<status, allocated, payable>> /\ q.pc = "sum"
    BY <1>14, SumStepOf DEF db
  <2>1. CASE Stopped(r) /\ SumOf(Recalculates(r)) > Total
    <3>1. CASE ~InTransaction(r)
      <4>1. SumOf(Posted') > Total /\ SumOf(Posted') \in Nat
        BY <1>3, <1>14, <2>0, <2>1, <3>1, SumStepOf DEF Recalculates, InTransaction
      <4>2. Shows'
        BY <4>1, AmountsNat DEF Shows
      <4> QED BY <1>0, <1>1, <1>4, <2>0, <2>1, <4>2 DEF Stopped
    <3> QED BY <1>13, <2>0, <2>1, <3>1
  <2>2. CASE /\ SumOf(Recalculates(r)) \in 0 .. Total /\ req'[r].pc = "select"
             /\ req'[r].next = WithBalance(SumOf(Recalculates(r))) /\ Keeps(r, {"op", "pay"})
    <3>1. /\ Recalculates(r)' = Recalculates(r) /\ InTransaction(r)' = InTransaction(r)
          /\ req'[r].op = "delete" => status'[req'[r].pay] \in Deletable
      BY <1>12, <2>0, <2>2 DEF Keeps
    <3>2. /\ req'[r].next.paid = SumOf(Recalculates(r)')
          /\ req'[r].next.pending = 0 <=> req'[r].next.status = "PAID"
      BY <2>2, <3>1, BalanceType
    <3>3. OnItsWay(r)'
      BY <2>2, <3>1, <3>2 DEF OnItsWay, At, Adds
    <3>4. Settled(r)' => Settled(r)
      BY <2>2, <3>1 DEF Settled, At
    <3> QED BY <1>0, <1>1, <1>2, <1>3, <2>0, <3>3, <3>4
  <2> QED BY <1>14, <2>1, <2>2, SumStepOf DEF Keeps
<1>15. CASE Select(r)
  <2>0. /\ UNCHANGED <<status, allocated, payable>> /\ q.pc = "select" /\ req'[r].pc = "write"
        /\ req'[r].next = q.next /\ req'[r].op = q.op /\ req'[r].pay = p
        /\ req'[r].diff = {c \in Columns : payable[c] # q.next[c]}
    BY <1>15, SelectStep DEF db, Keeps
  <2>1. /\ Recalculates(r)' = Recalculates(r) /\ InTransaction(r)' = InTransaction(r)
        /\ req'[r].op = "delete" => status'[req'[r].pay] \in Deletable
    BY <1>12, <2>0
  <2>2. /\ Written(r)'.paid = q.next.paid /\ Written(r)'.pending = q.next.pending
        /\ Written(r)'.status = q.next.status
    BY <2>0, WrittenFields DEF Columns
  <2>3. /\ q.next.paid = SumOf(Recalculates(r))
        /\ q.next.pending = 0 <=> q.next.status = "PAID"
    BY <1>0, <2>0 DEF OnItsWay
  <2>4. OnItsWay(r)'
    BY <2>0, <2>1, <2>2, <2>3 DEF OnItsWay, At, Adds
  <2>5. Settled(r)' => Settled(r)
    BY <2>0, <2>1 DEF Settled, At
  <2> QED BY <1>0, <1>1, <1>2, <1>3, <2>0, <2>4, <2>5
<1>16. CASE Write(r)
  <2>0. UNCHANGED <<status, allocated>> /\ q.pc = "write"
    BY <1>16, WriteStep
  <2>1. CASE InTransaction(r)
    <3>0. /\ UNCHANGED payable /\ req'[r].pc = "commit" /\ req'[r].next = q.next
          /\ req'[r].diff = q.diff /\ req'[r].op = q.op /\ req'[r].pay = p
      BY <1>16, <2>1, WriteStep DEF Keeps
    <3>1. /\ Recalculates(r)' = Recalculates(r) /\ InTransaction(r)' = InTransaction(r)
          /\ req'[r].op = "delete" => status'[req'[r].pay] \in Deletable
      BY <1>12, <2>0, <3>0
    <3>2. /\ Written(r)'.paid = Written(r).paid /\ Written(r)'.pending = Written(r).pending
          /\ Written(r)'.status = Written(r).status
      BY <3>0, WrittenFields
    <3>3. OnItsWay(r)'
      BY <1>0, <2>0, <3>0, <3>1, <3>2 DEF OnItsWay, At, Adds
    <3> QED BY <1>0, <1>1, <1>2, <1>3, <2>0, <2>1, <3>0, <3>3 DEF Settled
  <2>2. CASE ~InTransaction(r)
    <3>1. payable' = Written(r) /\ Stopped(r) /\ Posted' = Recalculates(r)
      BY <1>3, <1>16, <2>0, <2>2, WriteStep DEF Recalculates, InTransaction
    <3>2. Shows'
      BY <1>0, <2>0, <3>1, AloneWrites
    <3> QED BY <1>0, <1>1, <1>4, <2>0, <3>1, <3>2 DEF Stopped
  <2> QED BY <2>1, <2>2
<1>17. CASE Book(r)
  <2>0. UNCHANGED <<status, allocated, payable>> /\ InTransaction(r)
    BY <1>0, <1>17, BookStep DEF db, InPhase, InTransaction
  <2>1. CASE ~Stopped(r)
    <3>0. req'[r].pc = "sum" /\ req'[r].op = q.op /\ req'[r].pay = p
      BY <1>17, <2>1, BookStep DEF Keeps
    <3>1. req'[r].op = "delete" => status'[req'[r].pay] \in Deletable
      BY <1>12, <2>0, <3>0
    <3> QED BY <1>0, <1>1, <1>2, <1>3, <1>4, <2>0, <3>0, <3>1 DEF Settled
  <2> QED BY <1>13, <2>0, <2>1
<1>18. CASE Commit(r)
  <2>0. /\ q.pc = "commit" /\ p \in Payments /\ q.op \in {"post", "delete"} /\ Stopped(r)
        /\ payable' = Written(r)
    BY <1>18, CommitStep
  <2>1. CASE q.op = "post"
    <3>1. status' = [status EXCEPT ![p] = "POSTED"] /\ allocated' = allocated \cup {p}
      BY <1>18, <2>1, CommitStep
    <3>2. Posted' = Recalculates(r)
      BY <1>0, <2>0, <2>1, <3>1 DEF Posted, Recalculates
    <3>3. Shows'
      BY <1>0, <2>0, <3>2, AloneWrites
    <3>4. \A x \in allocated' : status'[x] \in {"POSTED", "VOIDED"}
      BY <1>0, <2>0, <3>1 DEF Types
    <3> QED BY <1>1, <1>4, <2>0, <3>3, <3>4 DEF Stopped
  <2>2. CASE q.op = "delete"
    <3>1. status' = [status EXCEPT ![p] = "DELETED"] /\ UNCHANGED allocated
      BY <1>18, <2>2, CommitStep
    <3>2. Posted' = Recalculates(r)
      BY <1>0, <2>0, <2>2, <3>1 DEF Posted, Recalculates
    <3>3. Shows'
      BY <1>0, <2>0, <3>2, AloneWrites
    <3>4. p \notin allocated
      BY <1>0, <2>2 DEF OnItsWay, Deletable
    <3>5. \A x \in allocated' : status'[x] \in {"POSTED", "VOIDED"}
      BY <1>0, <2>0, <3>1, <3>4 DEF Types
    <3> QED BY <1>1, <1>4, <2>0, <3>3, <3>5 DEF Stopped
  <2> QED BY <2>0, <2>1, <2>2
<1>19. ~Fail(r)
  BY FailStep
<1> HIDE DEF q, p
<1> QED BY <1>5, <1>6, <1>7, <1>8, <1>9, <1>10, <1>11, <1>14, <1>15, <1>16, <1>17, <1>18, <1>19
        DEF Runs

\* The overdue mark changes the status of a payable that still has something
\* pending, under a request that has read it.
LEMMA OverdueAlone ==
  ASSUME Types, AloneInv, MarkOverdue, ~disturbed
  PROVE  AloneInv'
<1>1. /\ payable.pending > 0 /\ payable.status \in {"PENDING", "PARTIAL"}
      /\ payable'.paid = payable.paid /\ payable'.pending = payable.pending
      /\ payable'.status = "OVERDUE" /\ payable.pending \in Nat
      /\ UNCHANGED <<status, allocated, req, disturbed>>
  BY DEF MarkOverdue, Types, Balances
<1>2. Posted' = Posted /\ \A r \in Requests : Recalculates(r)' = Recalculates(r)
  BY <1>1 DEF Posted, Recalculates
<1>3. ASSUME NEW r \in Requests PROVE OnItsWay(r)'
  <2>1. /\ Written(r)'.paid = Written(r).paid /\ Written(r)'.pending = Written(r).pending
        /\ Written(r)'.status = IF "status" \in req[r].diff THEN Written(r).status ELSE "OVERDUE"
        /\ "status" \notin req[r].diff => Written(r).status \in {"PENDING", "PARTIAL"}
    BY <1>1, WrittenFields
  <2>2. OnItsWay(r)
    BY DEF AloneInv
  <2> QED BY <1>1, <1>2, <2>1, <2>2 DEF OnItsWay, At, Adds
<1>4. Shows => Shows'
  BY <1>1, <1>2 DEF Shows
<1>5. \A r \in Requests : Settled(r)' = Settled(r)
  BY <1>1 DEF Settled, At, InTransaction
<1> QED BY <1>1, <1>3, <1>4, <1>5 DEF AloneInv, At

\* A request that starts alone finds the payable showing what is posted.
LEMMA RequestAlone ==
  ASSUME Types, AloneInv, NEW p \in Payments, Request(p), ~disturbed
  PROVE  AloneInv'
<1>1. /\ status[p] = "ABSENT" /\ status'[p] \in {"DRAFT", "SCHEDULED", "PENDING_APPROVAL"}
      /\ \A x \in Payments \ {p} : status'[x] = status[x]
      /\ \A r \in Requests : req[r].pay # p
      /\ UNCHANGED <<allocated, payable, req, disturbed>>
  BY DEF Request, New, Types
<1>2. Posted' = Posted
  BY <1>1 DEF Posted
<1>3. \A r \in Requests : Recalculates(r)' = Recalculates(r) /\ Written(r)' = Written(r)
  BY <1>1, <1>2 DEF Recalculates, Written
<1>4. Shows => Shows'
  BY <1>1, <1>2 DEF Shows
<1>5. ASSUME NEW r \in Requests PROVE OnItsWay(r)' /\ Settled(r)' = Settled(r)
  <2>1. OnItsWay(r) /\ (req[r].op # "none" => status'[req[r].pay] = status[req[r].pay])
    BY <1>1 DEF AloneInv, Types, InPhase
  <2>2. req[r].op = "none" => req[r].pc = "idle"
    BY DEF Types, InPhase
  <2> QED BY <1>1, <1>3, <2>1, <2>2 DEF OnItsWay, At, Adds, Settled, InTransaction
<1>6. \A x \in allocated' : status'[x] \in {"POSTED", "VOIDED"}
  BY <1>1 DEF AloneInv, Types
<1> QED BY <1>1, <1>4, <1>5, <1>6 DEF AloneInv, At

\* Every step keeps it so, until requests overlap or one fails.
LEMMA StepAlone == Types /\ Types' /\ AloneInv /\ [Next]_vars => AloneInv'
<1> SUFFICES ASSUME Types, Types', AloneInv, [Next]_vars, ~disturbed' PROVE AloneInv'
  BY DEF AloneInv
<1>1. ASSUME NEW p \in Payments, Request(p) PROVE AloneInv'
  BY <1>1, RequestAlone DEF Request
<1>2. CASE MarkOverdue
  BY <1>2, OverdueAlone DEF MarkOverdue
<1>3. CASE UNCHANGED vars
  <2>1. /\ UNCHANGED <<status, allocated, payable, req, disturbed>> /\ Posted' = Posted
        /\ \A r \in Requests : Recalculates(r)' = Recalculates(r) /\ Written(r)' = Written(r)
    BY <1>3 DEF vars, Posted, Recalculates, Written
  <2>2. \A r \in Requests : OnItsWay(r)' = OnItsWay(r) /\ Settled(r)' = Settled(r)
    BY <2>1 DEF OnItsWay, At, Adds, Settled, InTransaction
  <2>3. Shows' = Shows
    BY <2>1 DEF Shows
  <2> QED BY <2>1, <2>2, <2>3 DEF AloneInv, At
<1> QED BY <1>1, <1>2, <1>3, RunAlone DEF Next

\* When requests come one at a time and finish, the payable shows what is posted,
\* unless more is posted than it is worth, and it is PAID when nothing is pending.
THEOREM AlonePaidIsPosted == Spec => []PaidIsPosted
<1>1. AloneInv => PaidIsPosted
  BY DEF AloneInv, PaidIsPosted, Settled, Shows
<1> QED BY <1>1, InitTypes, StepTypes, InitAlone, StepAlone, PTL DEF Spec

===============================================================================
