----------------------------- MODULE InventoryTx -----------------------------
(***************************************************************************)
(* Inventory documents and stock balances as concurrent PostgreSQL         *)
(* transactions at READ COMMITTED.  A request handler opens a transaction  *)
(* (TypeormUnitOfWork), takes a number from a series row, an inventory     *)
(* document row and one advisory lock per line (InventoryLockBridge),      *)
(* reads a balance, saves the next one, and commits or rolls back.  Every  *)
(* read, lock and write of the database is a step of its own; what a       *)
(* transaction wrote is seen by others only after Commit.                  *)
(*                                                                         *)
(* The use cases are                                                       *)
(*   register  RegisterProductCatalogInventoryMovement, auto-posted        *)
(*   draft     a TRANSFER or an ADJUSTMENT created in DRAFT                *)
(*   process   ProcessProductCatalogInventoryDocument                      *)
(*   receive   ReceiveProductCatalogInventoryTransfer                      *)
(*                                                                         *)
(* The ledger table is kept as what its readers tell apart: the signed sum *)
(* of its entries per balance row (ledgerNet) and, per document, how many  *)
(* times a batch of entries was appended for each warehouse side (batches).*)
(***************************************************************************)
EXTENDS Integers, FiniteSets

CONSTANTS
  Clients,      \* request handlers; each runs one transaction at a time
  Warehouses, StockItems,
  Locations,    \* values of pc_inventory.location_id, the null one included
  Series,       \* document series
  Docs,         \* one per creation request
  Request,      \* Request[d]: the body of the request that creates d
  Opening,      \* Opening[r]: the balance row at the start, or None
  None

Rows == Warehouses \X StockItems       \* primary key of pc_inventory
DocTypes == {"IN", "OUT", "ADJUSTMENT", "TRANSFER"}
Statuses == {"ABSENT", "DRAFT", "IN_TRANSIT", "POSTED"}
Kinds == {"register", "draft", "process", "receive"}
Columns == {"loc", "onHand", "reserved", "available"}
Sides == {"out", "in"}

Balance == [loc : Locations, onHand : Int, reserved : Int, available : Int]

\* A line carries a signed quantity: positive for Direction.IN, negative for
\* Direction.OUT; the lines of a transfer are positive.  For the document types
\* other than TRANSFER the one warehouse of the request is "from".
LineType == [item : StockItems, loc : Locations, qty : Int]

RequestOK(q) ==
  /\ q.type \in DocTypes
  /\ q.serie \in Series
  /\ q.from \in Warehouses
  /\ q.to \in Warehouses
  /\ q.lines \in [DOMAIN q.lines -> LineType]
  /\ DOMAIN q.lines \subseteq Nat \ {0}
  /\ IsFiniteSet(DOMAIN q.lines)
  /\ \A k \in DOMAIN q.lines :
        q.lines[k].qty # 0 /\ (q.type = "TRANSFER" => q.lines[k].qty > 0)
  /\ q.type = "TRANSFER" => q.from # q.to

BalanceOK(b) ==
  0 <= b.reserved /\ b.reserved <= b.onHand /\ b.available = b.onHand - b.reserved

ASSUME NoneAssumption == None \notin Balance \cup Docs

ASSUME RequestAssumption ==
  DOMAIN Request = Docs /\ \A d \in Docs : RequestOK(Request[d])

ASSUME OpeningAssumption ==
  /\ Opening \in [Rows -> Balance \cup {None}]
  /\ \A r \in Rows : Opening[r] # None => BalanceOK(Opening[r])

-----------------------------------------------------------------------------
VARIABLES
  row,         \* committed pc_inventory
  ledgerNet,   \* committed signed sum of the ledger entries of each row
  batches,     \* committed ledger batches of each document, per side
  status,      \* committed document status
  correlative, \* committed document number, 0 while there is none
  nextNumber,  \* committed next_number of each series
  tx           \* the transaction each client is in

db == <<row, ledgerNet, batches, status, correlative, nextNumber>>
vars == <<row, ledgerNet, batches, status, correlative, nextNumber, tx>>

PCs == {"idle", "serie", "doc", "line", "lock", "read", "select", "update"}

NoWork == [r \in Rows |-> None]

Idle == [pc |-> "idle", kind |-> "register", doc |-> None, todo |-> {},
         line |-> 0, next |-> None, diff |-> {}, work |-> NoWork,
         delta |-> [r \in Rows |-> 0], held |-> {}, number |-> 0]

OnHand(b) == IF b = None THEN 0 ELSE b.onHand

Init ==
  /\ row = Opening
  /\ ledgerNet = [r \in Rows |-> OnHand(Opening[r])]
  /\ batches = [d \in Docs |-> [s \in Sides |-> 0]]
  /\ status = [d \in Docs |-> "ABSENT"]
  /\ correlative = [d \in Docs |-> 0]
  /\ nextNumber = [s \in Series |-> 1]
  /\ tx = [c \in Clients |-> Idle]

-----------------------------------------------------------------------------
\* Locks.  A row lock on pc_inventory is held from the write to the end of the
\* transaction; the others are named in "held".
SerieLock(s) == <<"serie", s>>
DocLock(d) == <<"doc", d>>
KeyLock(r, l) == <<"pcinv", r, l>>

Locks == {SerieLock(s) : s \in Series} \cup {DocLock(d) : d \in Docs}
         \cup {KeyLock(r, l) : r \in Rows, l \in Locations}

\* Fault: the lock is not waited for.
FreeUnchecked(c, lock) == TRUE

Free(c, lock) == \A o \in Clients \ {c} : lock \notin tx[o].held

RowFree(c, r) == \A o \in Clients \ {c} : tx[o].work[r] = None

Body(c) == Request[tx[c].doc]
Line(c) == Body(c).lines[tx[c].line]

\* The balance row and the signed quantity of client c's current line.
RowOf(c) ==
  <<IF tx[c].kind = "receive" THEN Body(c).to ELSE Body(c).from, Line(c).item>>

\* Fault: the dispatch of a transfer adds its units.
QuantityUnsigned(c) == Line(c).qty

Quantity(c) ==
  IF Body(c).type = "TRANSFER" /\ tx[c].kind = "process"
    THEN -Line(c).qty ELSE Line(c).qty

\* What c's transaction sees of a row: its own write, else the committed row.
View(c, r) == IF tx[c].work[r] # None THEN tx[c].work[r] ELSE row[r]

\* getSnapshot: a row of another location counts as no row, and a missing row
\* is a zero balance.
Snapshot(c, r, l) ==
  IF View(c, r) # None /\ View(c, r).loc = l
    THEN View(c, r)
    ELSE [loc |-> l, onHand |-> 0, reserved |-> 0, available |-> 0]

-----------------------------------------------------------------------------
\* Every step but Commit changes the transaction of one client only.
Goes(c, t) ==
  /\ tx' = [tx EXCEPT ![c] = t]
  /\ UNCHANGED db

\* The request throws: what the transaction wrote is gone, its locks are free.
Throws(c) == Goes(c, Idle)

\* A request arrives.  A document is created by one request only.
Begin(c, k, d) ==
  /\ tx[c].pc = "idle"
  /\ k = "register" => Request[d].type \in {"IN", "OUT"}
  /\ k = "draft" => Request[d].type \in {"TRANSFER", "ADJUSTMENT"}
  /\ IF k \in {"register", "draft"}
       THEN /\ status[d] = "ABSENT"
            /\ \A o \in Clients : tx[o].doc = d => tx[o].kind \notin {"register", "draft"}
            /\ Goes(c, [Idle EXCEPT !.pc = "serie", !.kind = k, !.doc = d])
       ELSE /\ status[d] # "ABSENT"
            /\ Goes(c, [Idle EXCEPT !.pc = "doc", !.kind = k, !.doc = d])

\* reserveNextNumber: lock the series row, read and increment next_number.
\* The new DRAFT document is visible to nobody before the commit.
TakeNumber(c) ==
  /\ tx[c].pc = "serie"
  /\ Free(c, SerieLock(Body(c).serie))
  /\ Goes(c, [tx[c] EXCEPT
       !.pc = "line",
       !.held = @ \cup {SerieLock(Body(c).serie)},
       !.number = nextNumber[Body(c).serie],
       !.todo = IF tx[c].kind = "register" THEN DOMAIN Body(c).lines ELSE {}])

\* The conditions a document must meet once its row is locked.
Accepts(c) ==
  \/ /\ tx[c].kind = "process"
     /\ status[tx[c].doc] = "DRAFT"
     /\ Body(c).type \in {"TRANSFER", "ADJUSTMENT"}
  \/ /\ tx[c].kind = "receive"
     /\ Body(c).type = "TRANSFER"
     /\ status[tx[c].doc] = "IN_TRANSIT"

\* Fault: the document is read without FOR UPDATE.
LockDocumentUnlocked(c) ==
  /\ tx[c].pc = "doc"
  /\ IF Accepts(c)
       THEN Goes(c, [tx[c] EXCEPT !.pc = "line", !.todo = DOMAIN Body(c).lines])
       ELSE Throws(c)

\* findByIdForUpdate, then the status and type checks, which throw.
LockDocument(c) ==
  /\ tx[c].pc = "doc"
  /\ Free(c, DocLock(tx[c].doc))
  /\ IF Accepts(c)
       THEN Goes(c, [tx[c] EXCEPT !.pc = "line",
                                  !.held = @ \cup {DocLock(tx[c].doc)},
                                  !.todo = DOMAIN Body(c).lines])
       ELSE Throws(c)

\* The next line; the order is the client's or an unordered SELECT's.
NextLine(c) ==
  /\ tx[c].pc = "line"
  /\ \E k \in tx[c].todo : Goes(c, [tx[c] EXCEPT !.pc = "lock", !.line = k])

\* lockSnapshots on the key of the line: pg_advisory_xact_lock.
LockKey(c) ==
  /\ tx[c].pc = "lock"
  /\ Free(c, KeyLock(RowOf(c), Line(c).loc))
  /\ Goes(c, [tx[c] EXCEPT !.pc = "read",
                           !.held = @ \cup {KeyLock(RowOf(c), Line(c).loc)}])

\* Fault: an OUT may take reserved units.
ReadBalanceIgnoringReserved(c) ==
  LET cur == Snapshot(c, RowOf(c), Line(c).loc)
      onHand == cur.onHand + Quantity(c)
  IN /\ tx[c].pc = "read"
     /\ IF onHand < 0
          THEN Throws(c)
          ELSE Goes(c, [tx[c] EXCEPT !.pc = "select",
                                     !.next = [cur EXCEPT !.onHand = onHand,
                                                          !.available = onHand - cur.reserved]])

\* Read the balance, check that an OUT leaves what is reserved, and compute the
\* next balance; an insufficient balance throws.
ReadBalance(c) ==
  LET cur == Snapshot(c, RowOf(c), Line(c).loc)
      onHand == cur.onHand + Quantity(c)
  IN /\ tx[c].pc = "read"
     /\ IF Quantity(c) < 0 /\ (cur.available < -Quantity(c) \/ onHand < 0)
          THEN Throws(c)
          ELSE Goes(c, [tx[c] EXCEPT !.pc = "select",
                                     !.next = [cur EXCEPT !.onHand = onHand,
                                                          !.available = onHand - cur.reserved]])

\* Repository.save first SELECTs the row by primary key and keeps the columns
\* that differ; no difference, no UPDATE.
Difference(c) ==
  IF View(c, RowOf(c)) = None THEN {"insert"}
  ELSE {f \in Columns : View(c, RowOf(c))[f] # tx[c].next[f]}

SaveSelect(c) ==
  /\ tx[c].pc = "select"
  /\ Goes(c, [tx[c] EXCEPT !.pc = "update", !.diff = Difference(c)])

\* ... then INSERTs or UPDATEs those columns, waiting for the row lock.
Saved(c) ==
  LET old == View(c, RowOf(c)) IN
  CASE tx[c].diff = {} -> tx[c].work[RowOf(c)]
    [] tx[c].diff = {"insert"} -> tx[c].next
    [] OTHER -> [f \in Columns |-> IF f \in tx[c].diff THEN tx[c].next[f] ELSE old[f]]

\* An INSERT that finds the row there violates the primary key and throws.
SaveUpdate(c) ==
  /\ tx[c].pc = "update"
  /\ tx[c].diff # {} => RowFree(c, RowOf(c))
  /\ IF tx[c].diff = {"insert"} /\ View(c, RowOf(c)) # None
       THEN Throws(c)
       ELSE Goes(c, [tx[c] EXCEPT !.pc = "line",
                                  !.todo = @ \ {tx[c].line},
                                  !.line = 0,
                                  !.next = None,
                                  !.diff = {},
                                  !.delta[RowOf(c)] = @ + Quantity(c),
                                  !.work[RowOf(c)] = Saved(c)])

Side(c) ==
  CASE tx[c].kind = "draft"   -> {}
    [] tx[c].kind = "receive" -> {"in"}
    [] OTHER                  -> {"out"}

\* markPosted, markInTransit, markReceived; the last two are conditional
\* UPDATEs on the status they leave.
StatusAfter(c) ==
  LET old == status[tx[c].doc] IN
  CASE tx[c].kind = "draft" -> "DRAFT"
    [] tx[c].kind = "receive" -> IF old = "IN_TRANSIT" THEN "POSTED" ELSE old
    [] tx[c].kind = "process" /\ Body(c).type = "TRANSFER" ->
         IF old = "DRAFT" THEN "IN_TRANSIT" ELSE old
    [] OTHER -> "POSTED"

\* All lines done: append the ledger batch, mark the document, commit.
Commit(c) ==
  LET d == tx[c].doc
      creates == tx[c].kind \in {"register", "draft"}
  IN /\ tx[c].pc = "line" /\ tx[c].todo = {}
     /\ row' = [r \in Rows |-> View(c, r)]
     /\ ledgerNet' = [r \in Rows |-> ledgerNet[r] + tx[c].delta[r]]
     /\ batches' = [batches EXCEPT ![d] =
                      [s \in Sides |-> IF s \in Side(c) THEN @[s] + 1 ELSE @[s]]]
     /\ status' = [status EXCEPT ![d] = StatusAfter(c)]
     /\ correlative' = [correlative EXCEPT ![d] = IF creates THEN tx[c].number ELSE @]
     /\ nextNumber' = [nextNumber EXCEPT ![Body(c).serie] =
                         IF creates THEN tx[c].number + 1 ELSE @]
     /\ tx' = [tx EXCEPT ![c] = Idle]

\* The lock or row that c waits for.
Waits(c, o) ==
  \/ tx[c].pc = "serie"  /\ SerieLock(Body(c).serie) \in tx[o].held
  \/ tx[c].pc = "doc"    /\ DocLock(tx[c].doc) \in tx[o].held
  \/ tx[c].pc = "lock"   /\ KeyLock(RowOf(c), Line(c).loc) \in tx[o].held
  \/ tx[c].pc = "update" /\ tx[c].diff # {} /\ tx[o].work[RowOf(c)] # None

\* Fault: nobody detects deadlocks.
DeadlockedNever(c) == FALSE

Deadlocked(c) ==
  \E S \in SUBSET Clients :
    /\ c \in S
    /\ \A a \in S : \E b \in S \ {a} : Waits(a, b)
    /\ \A b \in S : \E a \in S \ {b} : Waits(a, b)

\* PostgreSQL's deadlock detector ends one transaction of the cycle.
DeadlockVictim(c) == Deadlocked(c) /\ Throws(c)

\* Any other failure of the request (a validation or query error, a lost
\* connection, a crash of the process) rolls back.
Rollback(c) == tx[c].pc # "idle" /\ Throws(c)

Step(c) ==
  \/ TakeNumber(c) \/ LockDocument(c) \/ NextLine(c) \/ LockKey(c)
  \/ ReadBalance(c) \/ SaveSelect(c) \/ SaveUpdate(c) \/ Commit(c)

Next ==
  \E c \in Clients :
    \/ \E k \in Kinds, d \in Docs : Begin(c, k, d)
    \/ Step(c)
    \/ DeadlockVictim(c)
    \/ Rollback(c)

Spec == Init /\ [][Next]_vars

\* A handler keeps awaiting its queries.  Strong fairness of the waits: locks
\* of PostgreSQL are granted in the order of their queue.
Fairness ==
  \A c \in Clients :
    /\ WF_vars(NextLine(c) \/ ReadBalance(c) \/ SaveSelect(c) \/ Commit(c))
    /\ SF_vars(TakeNumber(c)) /\ SF_vars(LockDocument(c))
    /\ SF_vars(LockKey(c)) /\ SF_vars(SaveUpdate(c))
    /\ SF_vars(DeadlockVictim(c))

FairSpec == Spec /\ Fairness

-----------------------------------------------------------------------------
TxType ==
  [pc : PCs, kind : Kinds, doc : Docs \cup {None}, todo : SUBSET Nat,
   line : Nat, next : Balance \cup {None}, diff : SUBSET (Columns \cup {"insert"}),
   work : [Rows -> Balance \cup {None}], delta : [Rows -> Int],
   held : SUBSET Locks, number : Nat]

\* The types of the tables and of the transactions.
TypeOK ==
  /\ row \in [Rows -> Balance \cup {None}]
  /\ ledgerNet \in [Rows -> Int]
  /\ batches \in [Docs -> [Sides -> Nat]]
  /\ status \in [Docs -> Statuses]
  /\ correlative \in [Docs -> Nat]
  /\ nextNumber \in [Series -> Nat \ {0}]
  /\ tx \in [Clients -> TxType]

\* The kardex adds up: the committed on-hand of a row is the sum of its ledger,
\* whatever postings, dispatches and receptions ran at once or rolled back.
BalanceMatchesLedger == \A r \in Rows : OnHand(row[r]) = ledgerNet[r]

\* No oversell: stock is never negative nor below what is reserved, and the
\* "available" column is never stale (validateInventoryBalance).
BalanceValid == \A r \in Rows : row[r] # None => BalanceOK(row[r])

\* The ledger batches that the status of a document of type ty stands for.
Entries(st, ty) ==
  [s \in Sides |->
     CASE s = "out" /\ st \in {"IN_TRANSIT", "POSTED"} -> 1
       [] s = "in" /\ st = "POSTED" /\ ty = "TRANSFER" -> 1
       [] OTHER -> 0]

\* Two handlers that process or receive the same document post it once: its
\* ledger batches are exactly those its status stands for.
PostedOnce == \A d \in Docs : batches[d] = Entries(status[d], Request[d].type)

\* Every request is answered: waits end, by the lock being released or by the
\* deadlock detector, even when two documents lock their lines crosswise.
RequestsEnd == \A c \in Clients : tx[c].pc # "idle" ~> tx[c].pc = "idle"

\* Each stock row is used with one location, the condition under which
\* getSnapshot never takes an existing row for a missing one.
OneLocation(home) ==
  /\ \A d \in Docs : \A k \in DOMAIN Request[d].lines :
       LET l == Request[d].lines[k] IN
         /\ l.loc = home[<<Request[d].from, l.item>>]
         /\ l.loc = home[<<Request[d].to, l.item>>]
  /\ \A r \in Rows : Opening[r] # None => Opening[r].loc = home[r]

=============================================================================
