-------------------------- MODULE InventoryTxProofs --------------------------
(***************************************************************************)
(* Proofs about InventoryTx, for any number of clients, documents, rows    *)
(* and lines.                                                              *)
(***************************************************************************)
EXTENDS InventoryTxInvariant, SumTheorems

\* The request bodies are what RequestAssumption says.
LEMMA RequestType ==
  ASSUME NEW d \in Docs
  PROVE  /\ Request[d].type \in DocTypes
         /\ Request[d].serie \in Series
         /\ Request[d].from \in Warehouses /\ Request[d].to \in Warehouses
         /\ DOMAIN Request[d].lines \subseteq Nat
         /\ \A k \in DOMAIN Request[d].lines :
              /\ Request[d].lines[k].item \in StockItems
              /\ Request[d].lines[k].loc \in Locations
              /\ Request[d].lines[k].qty \in Int
              /\ Request[d].lines[k].qty # 0
              /\ Request[d].type = "TRANSFER" => Request[d].lines[k].qty > 0
BY RequestAssumption DEF RequestOK, LineType

\* A client between transactions has a well-typed record.
LEMMA IdleType == Idle \in TxType
BY DEF Idle, TxType, PCs, Kinds, NoWork

\* What the lock operators name are locks.
LEMMA LockType ==
  /\ \A s \in Series : SerieLock(s) \in Locks
  /\ \A d \in Docs : DocLock(d) \in Locks
  /\ \A r \in Rows, l \in Locations : KeyLock(r, l) \in Locks
BY DEF Locks

\* The current line of a transaction names a balance row and a quantity.
LEMMA CurrentLine ==
  ASSUME NEW c \in Clients, HasLine(c),
         tx[c].pc \in {"lock", "read", "select", "update"}
  PROVE  /\ RowOf(c) \in Rows
         /\ Line(c).loc \in Locations
         /\ Quantity(c) \in Int /\ Quantity(c) # 0
<1>1. tx[c].doc \in Docs /\ tx[c].line \in DOMAIN Request[tx[c].doc].lines
  BY DEF HasLine, Body
<1>2. /\ Line(c).item \in StockItems
      /\ Line(c).loc \in Locations
      /\ Line(c).qty \in Int /\ Line(c).qty # 0
  BY <1>1, RequestType DEF Line, Body
<1>3. RowOf(c) \in Rows
  BY <1>1, <1>2, RequestType DEF RowOf, Rows, Body
<1> QED
  BY <1>2, <1>3 DEF Quantity

\* Each step of one client but Commit changes that client's record only ...
LEMMA Local ==
  ASSUME TypeOK, NEW c \in Clients, NEW t \in TxType, Goes(c, t)
  PROVE  /\ TypeOK'
         /\ tx'[c] = t
         /\ \A o \in Clients \ {c} : tx'[o] = tx[o]
         /\ UNCHANGED db
BY DEF Goes, TypeOK, db

\* ... and keeps it well typed.
LEMMA StepType ==
  ASSUME TypeInv, NEW c \in Clients,
         \/ \E k \in Kinds, d \in Docs : Begin(c, k, d)
         \/ TakeNumber(c) \/ LockDocument(c) \/ NextLine(c) \/ LockKey(c)
         \/ ReadBalance(c) \/ SaveSelect(c) \/ SaveUpdate(c)
         \/ DeadlockVictim(c) \/ Rollback(c)
  PROVE  /\ \E t \in TxType : Goes(c, t)
         /\ HasLine(c)'
<1> DEFINE Typed == /\ \E t \in TxType : Goes(c, t)
                    /\ HasLine(c)'
<1>0. tx[c] \in TxType /\ TypeOK /\ HasLine(c)
  BY DEF TypeInv, TypeOK
<1>1. ASSUME Throws(c) PROVE Typed
  <2>1. tx'[c] = Idle
    BY <1>0, <1>1, IdleType, Local DEF Throws
  <2> QED
    BY <1>1, <2>1, IdleType DEF Throws, HasLine, Idle
<1>2. ASSUME NEW k \in Kinds, NEW d \in Docs, Begin(c, k, d) PROVE Typed
  <2> DEFINE t == [Idle EXCEPT !.pc = IF k \in {"register", "draft"} THEN "serie" ELSE "doc",
                               !.kind = k, !.doc = d]
  <2>1. Goes(c, t)
    BY <1>2 DEF Begin
  <2>2. t \in TxType
    BY IdleType DEF TxType, PCs
  <2>3. tx'[c] = t
    BY <1>0, <2>1, <2>2, Local
  <2>4. HasLine(c)'
    BY <2>3 DEF HasLine, Idle, Body
  <2> QED
    BY <2>1, <2>2, <2>4
<1>3. CASE TakeNumber(c)
  <2>1. tx[c].doc \in Docs /\ DOMAIN Body(c).lines \subseteq Nat
    BY <1>0, <1>3, RequestType DEF TakeNumber, HasLine, Body
  <2>2. nextNumber[Body(c).serie] \in Nat /\ SerieLock(Body(c).serie) \in Locks
    BY <1>0, <2>1, LockType, RequestType DEF TypeOK, Body
  <2> DEFINE t == [tx[c] EXCEPT
       !.pc = "line",
       !.held = @ \cup {SerieLock(Body(c).serie)},
       !.number = nextNumber[Body(c).serie],
       !.todo = IF tx[c].kind = "register" THEN DOMAIN Body(c).lines ELSE {}]
  <2>3. Goes(c, t)
    BY <1>3 DEF TakeNumber
  <2>4. t \in TxType
    BY <1>0, <2>1, <2>2 DEF TxType, PCs
  <2>5. tx'[c] = t
    BY <1>0, <2>3, <2>4, Local
  <2>6. HasLine(c)'
    BY <1>0, <2>1, <2>5 DEF HasLine, Body, TxType
  <2> QED
    BY <2>3, <2>4, <2>6
<1>4. CASE LockDocument(c)
  <2>1. tx[c].doc \in Docs /\ DOMAIN Body(c).lines \subseteq Nat
    BY <1>0, <1>4, RequestType DEF LockDocument, HasLine, Body
  <2> DEFINE t == [tx[c] EXCEPT !.pc = "line",
                                !.held = @ \cup {DocLock(tx[c].doc)},
                                !.todo = DOMAIN Body(c).lines]
  <2>2. CASE Goes(c, t)
    <3>1. t \in TxType
      BY <1>0, <2>1, LockType DEF TxType, PCs
    <3>2. tx'[c] = t
      BY <1>0, <2>2, <3>1, Local
    <3>3. HasLine(c)'
      BY <1>0, <2>1, <3>2 DEF HasLine, Body, TxType
    <3> QED
      BY <2>2, <3>1, <3>3
  <2> QED
    BY <1>4, <1>1, <2>2 DEF LockDocument
<1>5. CASE NextLine(c)
  <2>1. PICK k \in tx[c].todo : Goes(c, [tx[c] EXCEPT !.pc = "lock", !.line = k])
    BY <1>5 DEF NextLine
  <2> DEFINE t == [tx[c] EXCEPT !.pc = "lock", !.line = k]
  <2>2. t \in TxType
    BY <1>0 DEF TxType, PCs
  <2>3. tx'[c] = t
    BY <1>0, <2>1, <2>2, Local
  <2>4. HasLine(c)'
    BY <1>0, <1>5, <2>3 DEF NextLine, HasLine, Body, TxType
  <2> QED
    BY <2>1, <2>2, <2>4
<1>6. CASE LockKey(c)
  <2> DEFINE t == [tx[c] EXCEPT !.pc = "read",
                                !.held = @ \cup {KeyLock(RowOf(c), Line(c).loc)}]
  <2>1. Goes(c, t)
    BY <1>6 DEF LockKey
  <2>2. KeyLock(RowOf(c), Line(c).loc) \in Locks
    BY <1>0, <1>6, CurrentLine, LockType DEF LockKey
  <2>3. t \in TxType
    BY <1>0, <2>2 DEF TxType, PCs
  <2>4. tx'[c] = t
    BY <1>0, <2>1, <2>3, Local
  <2>5. HasLine(c)'
    BY <1>0, <1>6, <2>4 DEF LockKey, HasLine, Body, TxType
  <2> QED
    BY <2>1, <2>3, <2>5
<1>7. CASE ReadBalance(c)
  <2> DEFINE cur == Snapshot(c, RowOf(c), Line(c).loc)
             onHand == cur.onHand + Quantity(c)
             next == [cur EXCEPT !.onHand = onHand, !.available = onHand - cur.reserved]
             t == [tx[c] EXCEPT !.pc = "select", !.next = next]
  <2>1. RowOf(c) \in Rows /\ Line(c).loc \in Locations /\ Quantity(c) \in Int
    BY <1>0, <1>7, CurrentLine DEF ReadBalance
  <2>2. View(c, RowOf(c)) \in Balance \cup {None}
    BY <1>0, <2>1 DEF TypeOK, TxType, View
  <2>3. cur \in Balance
    BY <2>1, <2>2 DEF Snapshot, Balance
  <2>4. next \in Balance
    <3>1. ASSUME NEW b \in Balance, NEW h \in Int
          PROVE  [b EXCEPT !.onHand = h, !.available = h - b.reserved] \in Balance
      <4>1. h - b.reserved \in Int
        BY DEF Balance
      <4>2. ASSUME NEW a \in Int PROVE [b EXCEPT !.onHand = h, !.available = a] \in Balance
        BY DEF Balance
      <4> QED
        BY <4>1, <4>2
    <3>2. onHand \in Int
      BY <2>1, <2>3 DEF Balance
    <3> HIDE DEF cur, onHand
    <3> QED
      BY <2>3, <3>1, <3>2
  <2>5. t \in TxType
    BY <1>0, <2>4 DEF TxType, PCs
  <2>6. CASE Goes(c, t)
    <3>1. tx'[c] = t
      BY <1>0, <2>5, <2>6, Local
    <3>2. HasLine(c)'
      BY <1>0, <1>7, <2>4, <3>1 DEF ReadBalance, HasLine, Body, TxType
    <3> QED
      BY <2>5, <2>6, <3>2
  <2> QED
    BY <1>7, <1>1, <2>6 DEF ReadBalance
<1>8. CASE SaveSelect(c)
  <2> DEFINE t == [tx[c] EXCEPT !.pc = "update", !.diff = Difference(c)]
  <2>1. Goes(c, t)
    BY <1>8 DEF SaveSelect
  <2>2. t \in TxType
    BY <1>0 DEF TxType, PCs, Difference
  <2>3. tx'[c] = t /\ UNCHANGED db
    BY <1>0, <2>1, <2>2, Local
  <2>4. View(c, RowOf(c))' = View(c, RowOf(c))
    BY <1>0, <2>3 DEF View, RowOf, Body, Line, db, TxType
  <2>5. \/ Difference(c) = {"insert"}
        \/ Difference(c) \subseteq Columns /\ View(c, RowOf(c)) # None
    BY DEF Difference
  <2>6. HasLine(c)'
    BY <1>0, <1>8, <2>3, <2>4, <2>5 DEF SaveSelect, HasLine, Body, TxType
  <2> QED
    BY <2>1, <2>2, <2>6
<1>9. CASE SaveUpdate(c)
  <2> DEFINE t == [tx[c] EXCEPT !.pc = "line",
                                !.todo = @ \ {tx[c].line},
                                !.line = 0,
                                !.next = None,
                                !.diff = {},
                                !.delta[RowOf(c)] = @ + Quantity(c),
                                !.work[RowOf(c)] = Saved(c)]
  <2>1. RowOf(c) \in Rows /\ Quantity(c) \in Int
    BY <1>0, <1>9, CurrentLine DEF SaveUpdate
  <2>2. Saved(c) \in Balance \cup {None}
    <3>1. tx[c].next \in Balance /\ View(c, RowOf(c)) \in Balance \cup {None}
      BY <1>0, <1>9, <2>1 DEF SaveUpdate, HasLine, TypeOK, TxType, View
    <3>2. CASE tx[c].diff = {}
      BY <1>0, <2>1, <3>2 DEF Saved, TxType
    <3>3. CASE tx[c].diff = {"insert"}
      BY <3>1, <3>3 DEF Saved
    <3>4. CASE tx[c].diff # {} /\ tx[c].diff # {"insert"}
      <4>1. View(c, RowOf(c)) \in Balance
        BY <1>0, <1>9, <3>1, <3>4 DEF SaveUpdate, HasLine
      <4>2. Saved(c) = [f \in Columns |-> IF f \in tx[c].diff THEN tx[c].next[f]
                                          ELSE View(c, RowOf(c))[f]]
        BY <3>4 DEF Saved
      <4> QED
        BY <3>1, <4>1, <4>2 DEF Balance, Columns
    <3> QED
      BY <3>2, <3>3, <3>4
  <2>3. t \in TxType
    <3>1. [tx[c].delta EXCEPT ![RowOf(c)] = @ + Quantity(c)] \in [Rows -> Int]
      BY <1>0, <2>1 DEF TxType
    <3>2. [tx[c].work EXCEPT ![RowOf(c)] = Saved(c)] \in [Rows -> Balance \cup {None}]
      BY <1>0, <2>1, <2>2 DEF TxType
    <3>3. t = [tx[c] EXCEPT !.pc = "line",
                            !.todo = tx[c].todo \ {tx[c].line},
                            !.line = 0,
                            !.next = None,
                            !.diff = {},
                            !.delta = [tx[c].delta EXCEPT ![RowOf(c)] = @ + Quantity(c)],
                            !.work = [tx[c].work EXCEPT ![RowOf(c)] = Saved(c)]]
      OBVIOUS
    <3> QED
      BY <1>0, <3>1, <3>2, <3>3 DEF TxType, PCs
  <2>4. CASE Goes(c, t)
    <3>1. tx'[c] = t
      BY <1>0, <2>3, <2>4, Local
    <3>2. HasLine(c)'
      BY <1>0, <1>9, <3>1 DEF SaveUpdate, HasLine, Body, TxType
    <3> QED
      BY <2>3, <2>4, <3>2
  <2> QED
    BY <1>9, <1>1, <2>4 DEF SaveUpdate
<1>10. CASE DeadlockVictim(c) \/ Rollback(c)
  BY <1>10, <1>1 DEF DeadlockVictim, Rollback
<1> QED
  BY <1>2, <1>3, <1>4, <1>5, <1>6, <1>7, <1>8, <1>9, <1>10

\* Commit ends the transaction: its client is idle, the others are untouched,
\* and the row of a balance never disappears.
LEMMA CommitType ==
  ASSUME TypeInv, NEW c \in Clients, Commit(c)
  PROVE  /\ TypeOK'
         /\ tx'[c] = Idle
         /\ \A o \in Clients \ {c} : tx'[o] = tx[o]
         /\ \A r \in Rows : row'[r] = View(c, r)
<1>1. tx \in [Clients -> TxType]
  BY DEF TypeInv, TypeOK
<1>2. tx[c] \in TxType /\ tx[c].doc \in Docs
  BY <1>1 DEF TypeInv, HasLine, Commit
<1>3. row' \in [Rows -> Balance \cup {None}] /\ ledgerNet' \in [Rows -> Int]
  BY <1>2 DEF TypeInv, TypeOK, TxType, Commit, View
<1>4. batches' \in [Docs -> [Sides -> Nat]]
  BY <1>2 DEF TypeInv, TypeOK, Commit
<1>5. status' \in [Docs -> Statuses]
  <2>1. StatusAfter(c) \in Statuses
    BY <1>2 DEF TypeInv, TypeOK, StatusAfter, Statuses
  <2> QED
    BY <1>2, <2>1 DEF TypeInv, TypeOK, Commit
<1>6. correlative' \in [Docs -> Nat] /\ nextNumber' \in [Series -> Nat \ {0}]
  BY <1>2, RequestType DEF TypeInv, TypeOK, TxType, Commit, Body
<1>7. tx' = [tx EXCEPT ![c] = Idle]
  BY DEF Commit
<1>8. TypeOK'
  BY <1>1, <1>3, <1>4, <1>5, <1>6, <1>7, IdleType DEF TypeOK
<1>9. row' = [r \in Rows |-> View(c, r)]
  BY DEF Commit
<1> QED
  BY <1>1, <1>7, <1>8, <1>9

\* What a client knows of its line, document and view depends on its own record
\* and on rows that stay rows.
LEMMA OtherLine ==
  ASSUME TypeInv, NEW o \in Clients, tx'[o] = tx[o],
         \A r \in Rows : row[r] # None => row'[r] # None
  PROVE  HasLine(o)'
<1>1. HasLine(o)
  BY DEF TypeInv
<1>2. CASE tx[o].pc = "update"
  <2>1. RowOf(o) \in Rows
    BY <1>1, <1>2, CurrentLine
  <2>2. RowOf(o)' = RowOf(o)
    BY DEF RowOf, Line, Body
  <2>3. View(o, RowOf(o)) # None => View(o, RowOf(o))' # None
    BY <2>1, <2>2 DEF View
  <2> QED
    BY <1>1, <1>2, <2>3 DEF HasLine, Body
<1>3. CASE tx[o].pc # "update"
  BY <1>1, <1>3 DEF HasLine, Body
<1> QED
  BY <1>2, <1>3

\* The types are kept by every step, and a transaction never works on a line,
\* a document or a balance that it does not have.
THEOREM TypeCorrect == Spec => []TypeInv
<1>1. Init => TypeInv
  <2> SUFFICES ASSUME Init PROVE TypeInv
    OBVIOUS
  <2>1. row \in [Rows -> Balance \cup {None}] /\ ledgerNet \in [Rows -> Int]
    BY OpeningAssumption DEF Init, OnHand, Balance
  <2>2. batches \in [Docs -> [Sides -> Nat]] /\ status \in [Docs -> Statuses]
    BY DEF Init, Statuses
  <2>3. /\ correlative \in [Docs -> Nat] /\ nextNumber \in [Series -> Nat \ {0}]
        /\ tx \in [Clients -> TxType]
    BY IdleType DEF Init
  <2>4. \A c \in Clients : HasLine(c)
    BY DEF Init, HasLine, Idle
  <2> QED
    BY <2>1, <2>2, <2>3, <2>4 DEF TypeInv, TypeOK
<1>2. TypeInv /\ [Next]_vars => TypeInv'
  <2> SUFFICES ASSUME TypeInv, [Next]_vars PROVE TypeInv'
    OBVIOUS
  <2>1. ASSUME NEW c \in Clients, NEW t \in TxType, Goes(c, t), HasLine(c)' PROVE TypeInv'
    <3>1. TypeOK' /\ UNCHANGED db /\ \A o \in Clients \ {c} : tx'[o] = tx[o]
      BY <2>1, Local DEF TypeInv
    <3>2. \A o \in Clients \ {c} : HasLine(o)'
      BY <3>1, OtherLine DEF db
    <3> QED
      BY <2>1, <3>1, <3>2 DEF TypeInv
  <2>2. ASSUME NEW c \in Clients, Commit(c) PROVE TypeInv'
    <3>1. TypeOK' /\ tx'[c] = Idle
      BY <2>2, CommitType
    <3>2. HasLine(c)'
      BY <3>1 DEF HasLine, Idle
    <3>3. \A o \in Clients \ {c} : HasLine(o)'
      BY <2>2, CommitType, OtherLine DEF View
    <3> QED
      BY <3>1, <3>2, <3>3 DEF TypeInv
  <2>3. CASE UNCHANGED vars
    <3>1. TypeOK'
      BY <2>3 DEF TypeInv, TypeOK, vars
    <3>2. \A o \in Clients : HasLine(o)'
      BY <2>3, OtherLine DEF vars
    <3> QED
      BY <3>1, <3>2 DEF TypeInv
  <2>4. CASE Next
    <3>1. PICK c \in Clients : \/ \E k \in Kinds, d \in Docs : Begin(c, k, d)
                              \/ Step(c) \/ DeadlockVictim(c) \/ Rollback(c)
      BY <2>4 DEF Next
    <3>2. CASE Commit(c)
      BY <2>2, <3>2
    <3>3. CASE ~Commit(c)
      BY <2>1, <3>1, <3>3, StepType DEF Step
    <3> QED
      BY <3>2, <3>3
  <2> QED
    BY <2>3, <2>4
<1> QED
  BY <1>1, <1>2, PTL DEF Spec

\* The types of the tables and of the transactions, for every number of clients,
\* documents, rows and lines.
THEOREM Types == Spec => []TypeOK
BY TypeCorrect, PTL DEF TypeInv

-----------------------------------------------------------------------------
\* A step within a transaction adds only free locks to those it holds, and goes
\* past the lock of the document only if the document is accepted.
Advances(c) ==
  /\ tx[c].pc # "idle" /\ tx'[c].pc \notin {"idle", "serie", "doc"}
  /\ tx'[c].kind = tx[c].kind /\ tx'[c].doc = tx[c].doc
  /\ tx[c].held \subseteq tx'[c].held
  /\ \A o \in Clients \ {c} : tx'[c].held \cap tx[o].held = {}
  /\ tx[c].pc = "doc" => DocLock(tx[c].doc) \in tx'[c].held /\ Accepts(c)

\* A query throws, or takes its transaction one step on.
LEMMA StepAdvances ==
  ASSUME TypeInv, LocksExclusive, NEW c \in Clients,
         \/ TakeNumber(c) \/ LockDocument(c) \/ NextLine(c) \/ LockKey(c)
         \/ ReadBalance(c) \/ SaveSelect(c) \/ SaveUpdate(c)
  PROVE  Throws(c) \/ Advances(c)
<1>0. /\ tx[c] \in TxType /\ tx \in [Clients -> TxType]
      /\ \A o \in Clients \ {c} : tx[c].held \cap tx[o].held = {}
  BY DEF TypeInv, TypeOK, LocksExclusive
<1>1. CASE TakeNumber(c)
  BY <1>0, <1>1 DEF TakeNumber, Goes, Advances, TxType, Free
<1>2. CASE LockDocument(c)
  <2>1. ASSUME Goes(c, [tx[c] EXCEPT !.pc = "line",
                                     !.held = @ \cup {DocLock(tx[c].doc)},
                                     !.todo = DOMAIN Body(c).lines]), Accepts(c)
        PROVE  Advances(c)
    <3>1. tx'[c] = [tx[c] EXCEPT !.pc = "line",
                                 !.held = @ \cup {DocLock(tx[c].doc)},
                                 !.todo = DOMAIN Body(c).lines]
      BY <1>0, <2>1 DEF Goes
    <3> QED
      BY <1>0, <1>2, <2>1, <3>1 DEF LockDocument, Advances, TxType, Free
  <2> QED
    BY <1>2, <2>1 DEF LockDocument
<1>3. CASE LockKey(c)
  BY <1>0, <1>3 DEF LockKey, Goes, Advances, TxType, Free
<1>4. CASE NextLine(c)
  <2>1. PICK k \in tx[c].todo : Goes(c, [tx[c] EXCEPT !.pc = "lock", !.line = k])
    BY <1>4 DEF NextLine
  <2>2. tx'[c] = [tx[c] EXCEPT !.pc = "lock", !.line = k]
    BY <1>0, <2>1 DEF Goes
  <2> QED
    BY <1>0, <1>4, <2>2 DEF NextLine, Advances, TxType
<1>5. CASE ReadBalance(c)
  <2>1. ASSUME NEW n, Goes(c, [tx[c] EXCEPT !.pc = "select", !.next = n]) PROVE Advances(c)
    <3>1. tx'[c] = [tx[c] EXCEPT !.pc = "select", !.next = n]
      BY <1>0, <2>1 DEF Goes
    <3> QED
      BY <1>0, <1>5, <3>1 DEF ReadBalance, Advances, TxType
  <2> QED
    BY <1>5, <2>1 DEF ReadBalance
<1>6. CASE SaveSelect(c)
  BY <1>0, <1>6 DEF SaveSelect, Goes, Advances, TxType
<1>7. CASE SaveUpdate(c)
  <2> DEFINE t == [tx[c] EXCEPT !.pc = "line",
                                !.todo = @ \ {tx[c].line},
                                !.line = 0,
                                !.next = None,
                                !.diff = {},
                                !.delta[RowOf(c)] = @ + Quantity(c),
                                !.work[RowOf(c)] = Saved(c)]
  <2>1. ASSUME Goes(c, t) PROVE Advances(c)
    <3>1. tx'[c] = t
      BY <1>0, <2>1 DEF Goes
    <3> QED
      BY <1>0, <1>7, <3>1 DEF SaveUpdate, Advances, TxType
  <2> QED
    BY <1>7, <2>1 DEF SaveUpdate
<1> QED
  BY <1>1, <1>2, <1>3, <1>4, <1>5, <1>6, <1>7

\* The lock and document invariants survive every step within a transaction.
LEMMA DocumentStep ==
  ASSUME TypeInv, DocumentInv, NEW c \in Clients, NEW t \in TxType, Goes(c, t),
         \/ \E k \in Kinds, d \in Docs : Begin(c, k, d)
         \/ Throws(c)
         \/ Advances(c)
  PROVE  DocumentInv'
<1>0. /\ tx'[c] = t
      /\ \A o \in Clients \ {c} : tx'[o] = tx[o]
      /\ UNCHANGED db
  BY Local DEF TypeInv
<1>1. /\ LocksExclusive /\ \A o \in Clients : OwnsDocument(o) /\ HasLine(o)
      /\ tx \in [Clients -> TxType] /\ tx' \in [Clients -> TxType]
  BY Local DEF DocumentInv, TypeInv, TypeOK
<1>2. ASSUME Throws(c)
      PROVE  tx'[c].pc = "idle" /\ tx'[c].doc = None /\ tx'[c].held = {}
  BY <1>1, <1>2 DEF Throws, Goes, Idle
<1>3. ASSUME NEW k \in Kinds, NEW d \in Docs, Begin(c, k, d)
      PROVE  /\ tx'[c].pc = IF k \in {"register", "draft"} THEN "serie" ELSE "doc"
             /\ tx'[c].kind = k /\ tx'[c].doc = d /\ tx'[c].held = {}
  <2>1. ASSUME NEW pc, Goes(c, [Idle EXCEPT !.pc = pc, !.kind = k, !.doc = d])
        PROVE  tx'[c].pc = pc /\ tx'[c].kind = k /\ tx'[c].doc = d /\ tx'[c].held = {}
    <3>1. tx'[c] = [Idle EXCEPT !.pc = pc, !.kind = k, !.doc = d]
      BY <1>1, <2>1 DEF Goes
    <3> QED
      BY <3>1 DEF Idle
  <2>2. CASE k \in {"register", "draft"}
    <3>1. Goes(c, [Idle EXCEPT !.pc = "serie", !.kind = k, !.doc = d])
      BY <1>3, <2>2 DEF Begin
    <3> QED
      BY <2>1, <2>2, <3>1
  <2>3. CASE k \notin {"register", "draft"}
    <3>1. Goes(c, [Idle EXCEPT !.pc = "doc", !.kind = k, !.doc = d])
      BY <1>3, <2>3 DEF Begin
    <3> QED
      BY <2>1, <2>3, <3>1
  <2> QED
    BY <2>2, <2>3
\* What Begin checks before the transaction starts.
<1>3a. ASSUME NEW k \in Kinds, NEW d \in Docs, Begin(c, k, d)
       PROVE  /\ k = "register" => Request[d].type \in {"IN", "OUT"}
              /\ k \in {"register", "draft"} =>
                   /\ status[d] = "ABSENT"
                   /\ \A o \in Clients : tx[o].doc = d => ~Creates(o)
              /\ k \notin {"register", "draft"} => status[d] # "ABSENT"
  BY <1>3a DEF Begin, Creates
<1>4. LocksExclusive'
  <2>1. \A o \in Clients \ {c} : tx'[c].held \cap tx[o].held = {}
    BY <1>2, <1>3 DEF Advances
  <2> QED
    BY <1>0, <1>1, <2>1 DEF LocksExclusive
<1>5. OwnsDocument(c)'
  <2>1. CASE Throws(c)
    BY <1>2, <2>1 DEF OwnsDocument
  <2>2. ASSUME NEW k \in Kinds, NEW d \in Docs, Begin(c, k, d) PROVE OwnsDocument(c)'
    <3>1. /\ tx'[c].pc = IF k \in {"register", "draft"} THEN "serie" ELSE "doc"
          /\ tx'[c].kind = k /\ tx'[c].doc = d
      BY <1>3, <2>2
    <3>2. status' = status /\ Body(c)' = Request[d] /\ Creates(c)' = (k \in {"register", "draft"})
      BY <1>0, <3>1 DEF Body, Creates, db
    <3>3. ASSUME NEW o \in Clients \ {c}, k \in {"register", "draft"}, Creates(o)'
          PROVE  tx'[o].doc # d
      BY <1>0, <1>3a, <2>2, <3>3 DEF Creates
    <3>4. /\ k = "register" => Request[d].type \in {"IN", "OUT"}
          /\ k \in {"register", "draft"} => status[d] = "ABSENT"
          /\ k \notin {"register", "draft"} => status[d] # "ABSENT"
      BY <1>3a, <2>2
    <3> QED
      BY <3>1, <3>2, <3>3, <3>4 DEF OwnsDocument
  <2>3. CASE Advances(c)
    <3>1. OwnsDocument(c)
      BY <1>1
    <3>2. Accepts(c)' = Accepts(c) /\ Body(c)' = Body(c)
      BY <1>0, <2>3 DEF Accepts, Body, Advances, db
    <3> QED
      BY <1>0, <1>1, <2>3, <3>1, <3>2 DEF OwnsDocument, Creates, Advances, db
  <2> QED
    BY <2>1, <2>2, <2>3
<1>6. ASSUME NEW o \in Clients \ {c} PROVE OwnsDocument(o)'
  <2>1. OwnsDocument(o) /\ tx'[o] = tx[o] /\ HasLine(o)
    BY <1>0, <1>1
  <2>2. ASSUME tx[o].pc # "idle", Creates(o), Creates(c)' PROVE tx'[c].doc # tx[o].doc
    <3>1. tx[o].doc \in Docs
      BY <2>1, <2>2 DEF HasLine
    <3>2. CASE Throws(c)
      BY <1>2, <3>1, <3>2, NoneAssumption
    <3>3. ASSUME NEW k \in Kinds, NEW d \in Docs, Begin(c, k, d) PROVE tx'[c].doc # tx[o].doc
      <4>1. tx'[c].kind = k /\ tx'[c].doc = d
        BY <1>3, <3>3
      <4>2. k \in {"register", "draft"}
        BY <2>2, <4>1 DEF Creates
      <4>3. \A a \in Clients : tx[a].doc = d => ~Creates(a)
        BY <1>3a, <3>3, <4>2
      <4> QED
        BY <2>2, <4>1, <4>3
    <3>4. CASE Advances(c)
      BY <2>1, <2>2, <3>4 DEF Advances, OwnsDocument, Creates
    <3> QED
      BY <3>2, <3>3, <3>4
  <2> QED
    BY <1>0, <2>1, <2>2 DEF OwnsDocument, Creates, Accepts, Body, db
<1>7. PostedOnce'
  BY <1>0 DEF DocumentInv, PostedOnce, db
<1> QED
  BY <1>4, <1>5, <1>6, <1>7 DEF DocumentInv

\* ... and the commit: the one that posts a document is the only transaction
\* whose status check on it still stands.
LEMMA DocumentCommit ==
  ASSUME TypeInv, DocumentInv, NEW c \in Clients, Commit(c)
  PROVE  DocumentInv'
<1> DEFINE d == tx[c].doc
<1>0. /\ tx'[c] = Idle
      /\ \A o \in Clients \ {c} : tx'[o] = tx[o]
  BY CommitType
<1>1. /\ LocksExclusive /\ PostedOnce /\ \A o \in Clients : OwnsDocument(o) /\ HasLine(o)
      /\ status \in [Docs -> Statuses] /\ batches \in [Docs -> [Sides -> Nat]]
  BY DEF DocumentInv, TypeInv, TypeOK
<1>2. /\ tx[c].pc = "line" /\ d \in Docs
      /\ status' = [status EXCEPT ![d] = StatusAfter(c)]
      /\ batches' = [batches EXCEPT ![d] =
                       [s \in Sides |-> IF s \in Side(c) THEN @[s] + 1 ELSE @[s]]]
  BY <1>1 DEF Commit, HasLine
<1>3. LocksExclusive'
  BY <1>0, <1>1 DEF LocksExclusive, Idle
<1>4. OwnsDocument(c)'
  BY <1>0 DEF OwnsDocument, Idle
<1>5. ASSUME NEW o \in Clients \ {c} PROVE OwnsDocument(o)'
  <2>1. OwnsDocument(o) /\ OwnsDocument(c) /\ HasLine(o) /\ tx'[o] = tx[o]
    BY <1>0, <1>1
  <2>2. ASSUME tx[o].pc # "idle", tx[o].doc = d, Creates(o) PROVE FALSE
    BY <1>2, <2>1, <2>2 DEF OwnsDocument
  <2>3. ASSUME tx[o].pc \notin {"idle", "doc"}, tx[o].doc = d, ~Creates(o) PROVE FALSE
    <3>1. ~Creates(c) /\ DocLock(d) \in tx[c].held /\ DocLock(d) \in tx[o].held
      BY <1>2, <2>1, <2>3 DEF OwnsDocument
    <3> QED
      BY <1>1, <3>1 DEF LocksExclusive
  <2>4. StatusAfter(c) # "ABSENT"
    BY <1>1, <1>2, <2>1 DEF StatusAfter, OwnsDocument, Accepts, Creates
  <2>5. tx[o].doc \in Docs /\ tx[o].doc # d => status'[tx[o].doc] = status[tx[o].doc]
    BY <1>1, <1>2
  <2>6. CASE tx[o].pc = "idle"
    BY <2>1, <2>6 DEF OwnsDocument
  <2>7. CASE tx[o].pc # "idle" /\ Creates(o)
    <3>1. tx[o].doc \in Docs /\ tx[o].doc # d
      BY <2>1, <2>2, <2>7 DEF HasLine
    <3>2. ASSUME NEW a \in Clients \ {o}, Creates(a)' PROVE tx'[a].doc # tx[o].doc
      <4>1. CASE a = c
        BY <1>0, <3>1, <4>1, NoneAssumption DEF Idle
      <4>2. CASE a # c
        BY <1>0, <2>1, <2>7, <3>2, <4>2 DEF OwnsDocument, Creates
      <4> QED
        BY <4>1, <4>2
    <3> QED
      BY <2>1, <2>5, <2>7, <3>1, <3>2 DEF OwnsDocument, Creates, Body
  <2>8. CASE tx[o].pc # "idle" /\ ~Creates(o)
    <3>1. tx[o].doc \in Docs
      BY <2>1, <2>8 DEF HasLine
    <3>2. status'[tx[o].doc] # "ABSENT"
      BY <1>1, <1>2, <2>1, <2>4, <2>5, <2>8, <3>1 DEF OwnsDocument
    <3>3. CASE tx[o].pc = "doc"
      BY <2>1, <2>8, <3>2, <3>3 DEF OwnsDocument, Creates
    <3>4. CASE tx[o].pc # "doc"
      <4>1. tx[o].doc # d
        BY <2>3, <2>8, <3>4
      <4>2. Accepts(o)' = Accepts(o)
        BY <2>1, <2>5, <3>1, <4>1 DEF Accepts, Body
      <4> QED
        BY <2>1, <2>8, <3>2, <3>4, <4>2 DEF OwnsDocument, Creates
    <3> QED
      BY <3>3, <3>4
  <2> QED
    BY <2>6, <2>7, <2>8
<1>6. PostedOnce'
  <2>1. ASSUME NEW e \in Docs \ {d} PROVE batches'[e] = batches[e] /\ status'[e] = status[e]
    BY <1>1, <1>2
  <2>2. batches'[d] = [s \in Sides |-> IF s \in Side(c) THEN batches[d][s] + 1 ELSE batches[d][s]]
    BY <1>1, <1>2
  <2>3. status'[d] = StatusAfter(c)
    BY <1>1, <1>2
  <2>4. OwnsDocument(c) /\ tx[c].kind \in Kinds
    BY <1>1 DEF TypeInv, TypeOK, TxType
  <2>5. batches[d] = Entries(status[d], Request[d].type)
    BY <1>1, <1>2 DEF PostedOnce
  <2>6. StatusAfter(c) # "ABSENT" /\
        \A s \in Sides : Entries(StatusAfter(c), Request[d].type)[s] =
          IF s \in Side(c) THEN Entries(status[d], Request[d].type)[s] + 1
                           ELSE Entries(status[d], Request[d].type)[s]
    <3>0. Body(c).type = Request[d].type
      BY DEF Body
    <3>1. CASE tx[c].kind = "register"
      <4>1. status[d] = "ABSENT" /\ Request[d].type # "TRANSFER"
        BY <1>2, <2>4, <3>0, <3>1 DEF OwnsDocument, Creates
      <4>2. StatusAfter(c) = "POSTED" /\ Side(c) = {"out"}
        BY <3>1 DEF StatusAfter, Side
      <4> QED
        BY <4>1, <4>2 DEF Entries, Sides
    <3>2. CASE tx[c].kind = "draft"
      <4>1. status[d] = "ABSENT"
        BY <1>2, <2>4, <3>2 DEF OwnsDocument, Creates
      <4>2. StatusAfter(c) = "DRAFT" /\ Side(c) = {}
        BY <3>2 DEF StatusAfter, Side
      <4> QED
        BY <4>1, <4>2 DEF Entries, Sides
    <3>3. CASE tx[c].kind = "process"
      <4>1. status[d] = "DRAFT" /\ Request[d].type \in {"TRANSFER", "ADJUSTMENT"}
        BY <1>2, <2>4, <3>0, <3>3 DEF OwnsDocument, Creates, Accepts
      <4>2. /\ StatusAfter(c) = IF Request[d].type = "TRANSFER" THEN "IN_TRANSIT" ELSE "POSTED"
            /\ Side(c) = {"out"}
        BY <3>0, <3>3, <4>1 DEF StatusAfter, Side
      <4> QED
        BY <4>1, <4>2 DEF Entries, Sides
    <3>4. CASE tx[c].kind = "receive"
      <4>1. status[d] = "IN_TRANSIT" /\ Request[d].type = "TRANSFER"
        BY <1>2, <2>4, <3>0, <3>4 DEF OwnsDocument, Creates, Accepts
      <4>2. StatusAfter(c) = "POSTED" /\ Side(c) = {"in"}
        BY <3>4, <4>1 DEF StatusAfter, Side
      <4> QED
        BY <4>1, <4>2 DEF Entries, Sides
    <3> QED
      BY <2>4, <3>1, <3>2, <3>3, <3>4 DEF Kinds
  <2>7. batches'[d] = Entries(status'[d], Request[d].type)
    <3>1. \A s \in Sides : batches'[d][s] = Entries(status'[d], Request[d].type)[s]
      <4>1. ASSUME NEW s \in Sides
            PROVE  batches'[d][s] = IF s \in Side(c) THEN batches[d][s] + 1 ELSE batches[d][s]
        BY <2>2
      <4> QED
        BY <2>3, <2>5, <2>6, <4>1
    <3>2. batches'[d] = [s \in Sides |-> batches'[d][s]]
      BY <2>2
    <3>3. ASSUME NEW st, NEW ty PROVE Entries(st, ty) = [s \in Sides |-> Entries(st, ty)[s]]
      BY DEF Entries
    <3> HIDE DEF d
    <3> QED
      BY <3>1, <3>2, <3>3
  <2> QED
    BY <1>1, <2>1, <2>7 DEF PostedOnce
<1> QED
  BY <1>3, <1>4, <1>5, <1>6 DEF DocumentInv

\* A lock has one holder, and what a handler checked of its document still holds
\* when it commits: the row lock is held from the check to the commit.
THEOREM DocumentCorrect == Spec => []DocumentInv
<1>1. Init => DocumentInv
  <2> SUFFICES ASSUME Init PROVE DocumentInv
    OBVIOUS
  <2>1. LocksExclusive /\ \A c \in Clients : OwnsDocument(c)
    BY DEF Init, LocksExclusive, OwnsDocument, Idle
  <2>2. PostedOnce
    BY DEF Init, PostedOnce, Sides, Entries
  <2> QED
    BY <2>1, <2>2 DEF DocumentInv
<1>2. TypeInv /\ DocumentInv /\ [Next]_vars => DocumentInv'
  <2> SUFFICES ASSUME TypeInv, DocumentInv, [Next]_vars PROVE DocumentInv'
    OBVIOUS
  <2>1. CASE UNCHANGED vars
    <3>1. LocksExclusive' /\ PostedOnce'
      BY <2>1 DEF vars, DocumentInv, LocksExclusive, PostedOnce
    <3>2. ASSUME NEW o \in Clients PROVE OwnsDocument(o)'
      <4>1. OwnsDocument(o)
        BY DEF DocumentInv
      <4> QED
        BY <2>1, <4>1 DEF vars, OwnsDocument, Creates, Accepts, Body
    <3> QED
      BY <3>1, <3>2 DEF DocumentInv
  <2>2. ASSUME NEW c \in Clients, Commit(c) PROVE DocumentInv'
    BY <2>2, DocumentCommit
  <2>3. ASSUME NEW c \in Clients, \E k \in Kinds, d \in Docs : Begin(c, k, d)
        PROVE  DocumentInv'
    BY <2>3, StepType, DocumentStep
  <2>4. ASSUME NEW c \in Clients, DeadlockVictim(c) \/ Rollback(c) PROVE DocumentInv'
    BY <2>4, StepType, DocumentStep DEF DeadlockVictim, Rollback
  <2>5. ASSUME NEW c \in Clients,
               \/ TakeNumber(c) \/ LockDocument(c) \/ NextLine(c) \/ LockKey(c)
               \/ ReadBalance(c) \/ SaveSelect(c) \/ SaveUpdate(c)
        PROVE  DocumentInv'
    <3>1. Throws(c) \/ Advances(c)
      BY <2>5, StepAdvances DEF DocumentInv
    <3>2. \E t \in TxType : Goes(c, t)
      BY <2>5, StepType
    <3> QED
      BY <3>1, <3>2, DocumentStep
  <2> QED
    BY <2>1, <2>2, <2>3, <2>4, <2>5 DEF Next, Step
<1> QED
  BY <1>1, <1>2, TypeCorrect, PTL DEF Spec

\* Two handlers that process or receive the same document post it once, however
\* many clients, documents and lines there are.
THEOREM PostingOnce == Spec => []PostedOnce
BY DocumentCorrect, PTL DEF DocumentInv

-----------------------------------------------------------------------------
\* A line names the one location of its row.
LEMMA LineAtHome ==
  ASSUME NEW home \in [Rows -> Locations], OneLocation(home),
         NEW c \in Clients, HasLine(c),
         tx[c].pc \in {"lock", "read", "select", "update"}
  PROVE  Line(c).loc = home[RowOf(c)]
<1>1. tx[c].doc \in Docs /\ tx[c].line \in DOMAIN Request[tx[c].doc].lines
  BY DEF HasLine, Body
<1> QED
  BY <1>1 DEF OneLocation, RowOf, Line, Body

\* What c wrote stays right while its writes and locks are kept and the
\* committed rows it wrote do not change.
LEMMA WroteKept ==
  ASSUME NEW home, NEW c \in Clients, Wrote(c, home),
         tx'[c].work = tx[c].work, tx'[c].delta = tx[c].delta,
         tx[c].held \subseteq tx'[c].held,
         \A r \in Rows : tx[c].work[r] # None => row'[r] = row[r]
  PROVE  Wrote(c, home)'
BY DEF Wrote, OnHand, BalanceOK

\* An idle client wrote nothing.
LEMMA IdleStock ==
  ASSUME NEW home, NEW c \in Clients,
         tx'[c].pc \in {"idle", "serie", "doc"},
         tx'[c].work = NoWork, tx'[c].delta = [r \in Rows |-> 0]
  PROVE  Wrote(c, home)' /\ Computed(c, home)'
BY DEF Wrote, Computed, NoWork

\* The balance that ReadBalance computes is valid if the one it read is.
LEMMA NextBalance ==
  ASSUME NEW cur \in Balance, BalanceOK(cur), NEW q \in Int,
         ~(q < 0 /\ (cur.available < -q \/ cur.onHand + q < 0)),
         NEW next, next = [cur EXCEPT !.onHand = cur.onHand + q,
                                      !.available = (cur.onHand + q) - cur.reserved]
  PROVE  BalanceOK(next) /\ next.loc = cur.loc /\ next.onHand = cur.onHand + q
BY DEF BalanceOK, Balance

\* What a transaction sees of a row is a valid balance at the row's location.
LEMMA ViewAtHome ==
  ASSUME NEW home \in [Rows -> Locations], TypeInv, StockInv(home),
         NEW c \in Clients, NEW r \in Rows
  PROVE  /\ View(c, r) \in Balance \cup {None}
         /\ View(c, r) # None => View(c, r).loc = home[r] /\ BalanceOK(View(c, r))
<1>1. row[r] \in Balance \cup {None} /\ tx[c].work[r] \in Balance \cup {None}
  BY DEF TypeInv, TypeOK, TxType
<1>2. Wrote(c, home) /\ AtHome(home) /\ BalanceValid
  BY DEF StockInv
<1> QED
  BY <1>1, <1>2 DEF View, Wrote, AtHome, BalanceValid

\* Each step of a transaction keeps what it knows of its own line.
LEMMA StockSelf ==
  ASSUME NEW home \in [Rows -> Locations], OneLocation(home),
         TypeInv, StockInv(home), NEW c \in Clients,
         \/ \E k \in Kinds, d \in Docs : Begin(c, k, d)
         \/ TakeNumber(c) \/ LockDocument(c) \/ NextLine(c) \/ LockKey(c)
         \/ ReadBalance(c) \/ SaveSelect(c) \/ SaveUpdate(c)
         \/ DeadlockVictim(c) \/ Rollback(c)
  PROVE  Wrote(c, home)' /\ Computed(c, home)'
<1> DEFINE Known == Wrote(c, home)' /\ Computed(c, home)'
<1>0. /\ tx[c] \in TxType /\ tx \in [Clients -> TxType] /\ HasLine(c)
      /\ Wrote(c, home) /\ Computed(c, home)
  BY DEF TypeInv, TypeOK, StockInv
<1>1. ASSUME Throws(c) PROVE Known
  <2>1. tx'[c] = Idle
    BY <1>0, <1>1 DEF Throws, Goes
  <2> QED
    BY <2>1, IdleStock DEF Idle
<1>2. ASSUME NEW k \in Kinds, NEW d \in Docs, Begin(c, k, d) PROVE Known
  <2>1. ASSUME NEW pc \in {"serie", "doc"}, Goes(c, [Idle EXCEPT !.pc = pc, !.kind = k, !.doc = d])
        PROVE  Known
    <3>1. tx'[c] = [Idle EXCEPT !.pc = pc, !.kind = k, !.doc = d]
      BY <1>0, <2>1 DEF Goes
    <3>2. tx'[c].pc = pc /\ tx'[c].work = NoWork /\ tx'[c].delta = [r \in Rows |-> 0]
      BY <3>1 DEF Idle
    <3>3. tx'[c].pc \notin {"read", "select", "update"}
      BY <3>2
    <3> QED
      BY <3>2, <3>3, IdleStock
  <2>2. Goes(c, [Idle EXCEPT !.pc = "serie", !.kind = k, !.doc = d])
        \/ Goes(c, [Idle EXCEPT !.pc = "doc", !.kind = k, !.doc = d])
    BY <1>2 DEF Begin
  <2> QED
    BY <2>1, <2>2
\* Steps that change neither the writes nor the current line.
<1>3. ASSUME row' = row, tx'[c].pc \in {"line", "lock"},
             tx'[c].work = tx[c].work, tx'[c].delta = tx[c].delta,
             tx[c].held \subseteq tx'[c].held
      PROVE  Known
  <2>1. Wrote(c, home)'
    BY <1>0, <1>3, WroteKept
  <2> QED
    BY <1>3, <2>1 DEF Computed
<1>4. CASE TakeNumber(c)
  BY <1>0, <1>3, <1>4 DEF TakeNumber, Goes, TxType, db
<1>5. CASE LockDocument(c)
  <2>1. ASSUME Goes(c, [tx[c] EXCEPT !.pc = "line",
                                     !.held = @ \cup {DocLock(tx[c].doc)},
                                     !.todo = DOMAIN Body(c).lines])
        PROVE  Known
    BY <1>0, <1>3, <2>1 DEF Goes, TxType, db
  <2> QED
    BY <1>5, <1>1, <2>1 DEF LockDocument
<1>6. CASE NextLine(c)
  <2>1. PICK k \in tx[c].todo : Goes(c, [tx[c] EXCEPT !.pc = "lock", !.line = k])
    BY <1>6 DEF NextLine
  <2> QED
    BY <1>0, <1>3, <2>1 DEF Goes, TxType, db
<1>7. CASE LockKey(c)
  <2>1. /\ tx'[c] = [tx[c] EXCEPT !.pc = "read",
                                  !.held = @ \cup {KeyLock(RowOf(c), Line(c).loc)}]
        /\ row' = row
    BY <1>0, <1>7 DEF LockKey, Goes, db
  <2>2. Line(c).loc = home[RowOf(c)]
    BY <1>0, <1>7, LineAtHome DEF LockKey
  <2>3. RowOf(c)' = RowOf(c)
    BY <1>0, <2>1 DEF RowOf, Line, Body, TxType
  <2>4. /\ tx'[c].work = tx[c].work /\ tx'[c].delta = tx[c].delta
        /\ tx'[c].held = tx[c].held \cup {KeyLock(RowOf(c), Line(c).loc)}
        /\ tx'[c].pc = "read"
    BY <1>0, <2>1 DEF TxType
  <2>5. Wrote(c, home)'
    BY <1>0, <2>1, <2>4, WroteKept
  <2>6. (KeyLock(RowOf(c), home[RowOf(c)]))' \in tx'[c].held
    BY <2>2, <2>3, <2>4 DEF KeyLock
  <2> QED
    BY <2>4, <2>5, <2>6 DEF Computed
\* Steps on the current line: what c sees of its row does not change.
<1>8. ASSUME ReadBalance(c) \/ SaveSelect(c), row' = row,
             tx'[c].work = tx[c].work, tx'[c].delta = tx[c].delta, tx'[c].held = tx[c].held,
             tx'[c].kind = tx[c].kind, tx'[c].doc = tx[c].doc, tx'[c].line = tx[c].line
      PROVE  /\ Wrote(c, home)'
             /\ RowOf(c)' = RowOf(c) /\ Quantity(c)' = Quantity(c)
             /\ View(c, RowOf(c))' = View(c, RowOf(c))
             /\ KeyLock(RowOf(c), home[RowOf(c)])' \in tx'[c].held
  <2>1. RowOf(c)' = RowOf(c) /\ Quantity(c)' = Quantity(c)
    BY <1>8 DEF RowOf, Quantity, Line, Body
  <2>2. KeyLock(RowOf(c), home[RowOf(c)]) \in tx[c].held
    BY <1>0, <1>8 DEF ReadBalance, SaveSelect, Computed
  <2>3. Wrote(c, home)'
    BY <1>0, <1>8, WroteKept
  <2> QED
    BY <1>8, <2>1, <2>2, <2>3 DEF View, KeyLock
<1>9. CASE ReadBalance(c)
  <2> DEFINE r == RowOf(c)
             cur == Snapshot(c, RowOf(c), Line(c).loc)
             onHand == cur.onHand + Quantity(c)
             next == [cur EXCEPT !.onHand = onHand, !.available = onHand - cur.reserved]
             t == [tx[c] EXCEPT !.pc = "select", !.next = next]
  <2>1. /\ r \in Rows /\ Quantity(c) \in Int /\ Line(c).loc \in Locations
        /\ Line(c).loc = home[r]
    BY <1>0, <1>9, CurrentLine, LineAtHome DEF ReadBalance
  <2>2. /\ cur \in Balance /\ BalanceOK(cur) /\ cur.loc = home[r]
        /\ cur.onHand = OnHand(View(c, r))
    BY <2>1, ViewAtHome DEF Snapshot, OnHand, Balance, BalanceOK
  <2>3. CASE /\ Goes(c, t)
             /\ ~(Quantity(c) < 0 /\ (cur.available < -Quantity(c) \/ onHand < 0))
    <3>1. BalanceOK(next) /\ next.loc = cur.loc /\ next.onHand = cur.onHand + Quantity(c)
      <4> HIDE DEF cur
      <4> QED
        BY <2>1, <2>2, <2>3, NextBalance
    <3>2. tx'[c] = t /\ row' = row
      BY <1>0, <2>3 DEF Goes, db
    <3>3. /\ tx'[c].pc = "select" /\ tx'[c].next = next /\ tx'[c].held = tx[c].held
          /\ tx'[c].work = tx[c].work /\ tx'[c].delta = tx[c].delta
          /\ tx'[c].kind = tx[c].kind /\ tx'[c].doc = tx[c].doc /\ tx'[c].line = tx[c].line
      BY <1>0, <3>2 DEF TxType
    <3>4. /\ Wrote(c, home)'
          /\ RowOf(c)' = r /\ Quantity(c)' = Quantity(c) /\ View(c, RowOf(c))' = View(c, r)
          /\ KeyLock(RowOf(c), home[RowOf(c)])' \in tx'[c].held
      BY <1>8, <1>9, <3>2, <3>3
    <3>5. /\ BalanceOK(tx[c].next)'
          /\ tx'[c].next.loc = home[RowOf(c)'] /\ tx'[c].next.onHand = OnHand(View(c, RowOf(c)))' + Quantity(c)'
      BY <2>2, <3>1, <3>3, <3>4 DEF BalanceOK, OnHand
    <3> QED
      BY <3>3, <3>4, <3>5 DEF Computed
  <2> QED
    BY <1>9, <1>1, <2>3 DEF ReadBalance
<1>10. CASE SaveSelect(c)
  <2>1. tx'[c] = [tx[c] EXCEPT !.pc = "update", !.diff = Difference(c)] /\ row' = row
    BY <1>0, <1>10 DEF SaveSelect, Goes, db
  <2>2. Difference(c)' = Difference(c)
    BY <1>0, <1>8, <1>10, <2>1 DEF Difference, TxType
  <2> QED
    BY <1>0, <1>8, <1>10, <2>1, <2>2 DEF SaveSelect, Computed, TxType
<1>11. CASE SaveUpdate(c)
  <2> DEFINE r == RowOf(c)
             t == [tx[c] EXCEPT !.pc = "line",
                                !.todo = @ \ {tx[c].line},
                                !.line = 0,
                                !.next = None,
                                !.diff = {},
                                !.delta[RowOf(c)] = @ + Quantity(c),
                                !.work[RowOf(c)] = Saved(c)]
  <2>1. /\ tx[c].pc = "update" /\ r \in Rows /\ tx[c].next \in Balance
        /\ Quantity(c) \in Int /\ Quantity(c) # 0
    BY <1>0, <1>11, CurrentLine DEF SaveUpdate, HasLine
  <2>2. /\ KeyLock(r, home[r]) \in tx[c].held
        /\ tx[c].next.loc = home[r] /\ BalanceOK(tx[c].next)
        /\ tx[c].next.onHand = OnHand(View(c, r)) + Quantity(c)
        /\ tx[c].diff = Difference(c)
    BY <1>0, <2>1 DEF Computed
  <2>3. Saved(c) = tx[c].next
    <3>1. CASE View(c, r) = None
      BY <2>2, <3>1 DEF Saved, Difference
    <3>2. CASE View(c, r) # None
      <4>1. View(c, r) \in Balance
        BY <2>1, <3>2, ViewAtHome
      <4>2. "onHand" \in tx[c].diff
        BY <2>1, <2>2, <3>2, <4>1 DEF Difference, Columns, OnHand, Balance
      <4>3. Saved(c) = [f \in Columns |-> IF f \in tx[c].diff THEN tx[c].next[f] ELSE View(c, r)[f]]
        BY <4>2 DEF Saved
      <4>4. \A f \in Columns : f \notin tx[c].diff => View(c, r)[f] = tx[c].next[f]
        BY <2>2, <3>2 DEF Difference
      <4> QED
        BY <2>1, <4>3, <4>4 DEF Columns, Balance
    <3> QED
      BY <3>1, <3>2
  <2>4. OnHand(View(c, r)) = OnHand(row[r]) + tx[c].delta[r] /\ tx[c].delta[r] \in Int
        /\ OnHand(row[r]) \in Int
    BY <1>0, <2>1 DEF Wrote, View, OnHand, TxType, TypeInv, TypeOK, Balance
  <2>5. CASE Goes(c, t)
    <3>1. tx'[c] = t /\ row' = row
      BY <1>0, <2>5 DEF Goes, db
    <3>2. /\ tx'[c].pc = "line" /\ tx'[c].held = tx[c].held
          /\ tx'[c].work = [tx[c].work EXCEPT ![r] = tx[c].next]
          /\ tx'[c].delta = [tx[c].delta EXCEPT ![r] = @ + Quantity(c)]
      BY <1>0, <2>3, <3>1 DEF TxType
    <3>3. tx'[c].work[r] = tx[c].next /\ tx'[c].delta[r] = tx[c].delta[r] + Quantity(c)
      BY <1>0, <2>1, <3>2 DEF TxType
    <3>4. tx[c].next # None
      BY <2>1, NoneAssumption
    <3>5. ASSUME NEW s \in Rows, s # r
          PROVE  tx'[c].work[s] = tx[c].work[s] /\ tx'[c].delta[s] = tx[c].delta[s]
      BY <1>0, <3>2, <3>5 DEF TxType
    <3>6. tx[c].next.onHand = OnHand(row[r]) + (tx[c].delta[r] + Quantity(c))
      BY <2>1, <2>2, <2>4
    <3>7. Wrote(c, home)'
      BY <1>0, <2>2, <3>1, <3>2, <3>3, <3>4, <3>5, <3>6 DEF Wrote, OnHand, BalanceOK
    <3> QED
      BY <3>2, <3>7 DEF Computed
  <2> QED
    BY <1>11, <1>1, <2>5 DEF SaveUpdate
<1>12. CASE DeadlockVictim(c) \/ Rollback(c)
  BY <1>12, <1>1 DEF DeadlockVictim, Rollback
<1> QED
  BY <1>2, <1>4, <1>5, <1>6, <1>7, <1>9, <1>10, <1>11, <1>12

\* Another client's knowledge survives a step that leaves its record alone and
\* changes no row whose advisory lock it holds.
LEMMA StockOther ==
  ASSUME NEW home \in [Rows -> Locations], TypeInv, StockInv(home),
         NEW o \in Clients, tx'[o] = tx[o],
         \A r \in Rows : KeyLock(r, home[r]) \in tx[o].held => row'[r] = row[r]
  PROVE  Wrote(o, home)' /\ Computed(o, home)'
<1>1. Wrote(o, home) /\ Computed(o, home) /\ HasLine(o)
  BY DEF StockInv, TypeInv
<1>2. \A r \in Rows : tx[o].work[r] # None => row'[r] = row[r]
  BY <1>1 DEF Wrote
<1>3. Wrote(o, home)'
  BY <1>1, <1>2, WroteKept
<1>4. RowOf(o)' = RowOf(o) /\ Quantity(o)' = Quantity(o)
  BY DEF RowOf, Quantity, Line, Body
<1>5. ASSUME tx[o].pc \in {"read", "select", "update"}
      PROVE  View(o, RowOf(o))' = View(o, RowOf(o))
  <2>1. RowOf(o) \in Rows
    BY <1>1, <1>5, CurrentLine
  <2>2. row'[RowOf(o)] = row[RowOf(o)]
    BY <1>1, <1>5, <2>1 DEF Computed
  <2> QED
    BY <1>4, <2>2 DEF View
<1>6. tx[o].pc = "update" => Difference(o)' = Difference(o)
  BY <1>4, <1>5 DEF Difference
<1> QED
  BY <1>1, <1>3, <1>4, <1>5, <1>6 DEF Computed, KeyLock, OnHand, BalanceOK

\* The commit publishes, for each row, the balance and the ledger entries that
\* belong together, and only rows whose advisory lock the client holds.
LEMMA StockCommit ==
  ASSUME NEW home \in [Rows -> Locations], TypeInv, LocksExclusive, StockInv(home),
         NEW c \in Clients, Commit(c)
  PROVE  StockInv(home)'
<1>0. /\ tx'[c] = Idle
      /\ \A o \in Clients \ {c} : tx'[o] = tx[o]
      /\ \A r \in Rows : row'[r] = View(c, r)
      /\ \A r \in Rows : ledgerNet'[r] = ledgerNet[r] + tx[c].delta[r]
  BY CommitType DEF Commit
<1>1. Wrote(c, home) /\ AtHome(home) /\ BalanceMatchesLedger
  BY DEF StockInv
<1>2. AtHome(home)' /\ BalanceValid'
  BY <1>0, ViewAtHome DEF AtHome, BalanceValid, BalanceOK
<1>3. BalanceMatchesLedger'
  <2> SUFFICES ASSUME NEW r \in Rows PROVE OnHand(row'[r]) = ledgerNet'[r]
    BY DEF BalanceMatchesLedger, OnHand
  <2>1. OnHand(row[r]) = ledgerNet[r] /\ ledgerNet[r] \in Int /\ tx[c].delta[r] \in Int
    BY <1>1 DEF BalanceMatchesLedger, TypeInv, TypeOK, TxType
  <2>2. OnHand(View(c, r)) = OnHand(row[r]) + tx[c].delta[r]
    BY <1>1, <2>1 DEF Wrote, View, OnHand
  <2> QED
    BY <1>0, <2>1, <2>2
<1>4. Wrote(c, home)' /\ Computed(c, home)'
  BY <1>0, IdleStock DEF Idle
<1>5. ASSUME NEW o \in Clients \ {c} PROVE Wrote(o, home)' /\ Computed(o, home)'
  <2>1. ASSUME NEW r \in Rows, KeyLock(r, home[r]) \in tx[o].held PROVE row'[r] = row[r]
    <3>1. KeyLock(r, home[r]) \notin tx[c].held
      BY <2>1 DEF LocksExclusive
    <3> QED
      BY <1>0, <1>1, <3>1 DEF Wrote, View
  <2> QED
    BY <1>0, <2>1, StockOther
<1> QED
  BY <1>2, <1>3, <1>4, <1>5 DEF StockInv

\* The knowledge of every transaction, as long as each row is used with one
\* location, and with it the committed balances.
THEOREM StockInvAlways ==
  ASSUME NEW home \in [Rows -> Locations], OneLocation(home)
  PROVE  Spec => []StockInv(home)
<1>1. Init => StockInv(home)
  <2> SUFFICES ASSUME Init PROVE StockInv(home)
    OBVIOUS
  <2>1. AtHome(home) /\ BalanceValid
    BY OpeningAssumption DEF Init, AtHome, BalanceValid, OneLocation
  <2>2. BalanceMatchesLedger
    BY DEF Init, BalanceMatchesLedger
  <2>3. \A c \in Clients : Wrote(c, home) /\ Computed(c, home)
    BY DEF Init, Wrote, Computed, Idle, NoWork
  <2> QED
    BY <2>1, <2>2, <2>3 DEF StockInv
<1>2. TypeInv /\ DocumentInv /\ StockInv(home) /\ [Next]_vars => StockInv(home)'
  <2> SUFFICES ASSUME TypeInv, DocumentInv, StockInv(home), [Next]_vars PROVE StockInv(home)'
    OBVIOUS
  <2>1. ASSUME row' = row, ledgerNet' = ledgerNet
        PROVE  AtHome(home)' /\ BalanceValid' /\ BalanceMatchesLedger'
    BY <2>1 DEF StockInv, AtHome, BalanceValid, BalanceMatchesLedger
  <2>2. CASE UNCHANGED vars
    BY <2>1, <2>2, StockOther DEF vars, StockInv
  <2>3. ASSUME NEW c \in Clients, Commit(c) PROVE StockInv(home)'
    BY <2>3, StockCommit DEF DocumentInv
  <2>4. ASSUME NEW c \in Clients, NEW t \in TxType, Goes(c, t), Wrote(c, home)', Computed(c, home)'
        PROVE  StockInv(home)'
    <3>1. UNCHANGED db /\ \A o \in Clients \ {c} : tx'[o] = tx[o]
      BY <2>4, Local DEF TypeInv
    <3>2. \A o \in Clients \ {c} : Wrote(o, home)' /\ Computed(o, home)'
      BY <3>1, StockOther DEF db
    <3> QED
      BY <2>1, <2>4, <3>1, <3>2 DEF db, StockInv
  <2>5. ASSUME NEW c \in Clients,
               \/ \E k \in Kinds, d \in Docs : Begin(c, k, d)
               \/ TakeNumber(c) \/ LockDocument(c) \/ NextLine(c) \/ LockKey(c)
               \/ ReadBalance(c) \/ SaveSelect(c) \/ SaveUpdate(c)
               \/ DeadlockVictim(c) \/ Rollback(c)
        PROVE  StockInv(home)'
    <3>1. \E t \in TxType : Goes(c, t)
      BY <2>5, StepType
    <3>2. Wrote(c, home)' /\ Computed(c, home)'
      BY <2>5, StockSelf
    <3> QED
      BY <2>4, <3>1, <3>2
  <2> QED
    BY <2>2, <2>3, <2>5 DEF Next, Step
<1>3. Spec => []TypeInv
  BY TypeCorrect
<1>4. Spec => []DocumentInv
  BY DocumentCorrect
<1> QED
  BY <1>1, <1>2, <1>3, <1>4, PTL DEF Spec

\* No lost update and no oversell among the locking writers: as long as each row
\* is used with one location, committed balances equal their ledger and never
\* fall below what is reserved, whatever runs at once, deadlocks or rolls back.
THEOREM StockCorrect ==
  ASSUME NEW home \in [Rows -> Locations], OneLocation(home)
  PROVE  Spec => [](BalanceMatchesLedger /\ BalanceValid)
<1>1. Spec => []StockInv(home)
  BY StockInvAlways
<1>2. StockInv(home) => BalanceMatchesLedger /\ BalanceValid
  BY DEF StockInv
<1> QED
  BY <1>1, <1>2, PTL

\* No oversell, under the same condition: stock is never negative nor below what
\* is reserved, and "available" is the difference (validateInventoryBalance).
THEOREM BalanceStaysValid ==
  ASSUME NEW home \in [Rows -> Locations], OneLocation(home)
  PROVE  Spec => []BalanceValid
<1>1. Spec => [](BalanceMatchesLedger /\ BalanceValid)
  BY StockCorrect
<1> QED
  BY <1>1, PTL

-----------------------------------------------------------------------------
\* The refinement.  What a line adds is a number; the whole document adds the
\* sum over its lines.
LEMMA ShareType ==
  ASSUME NEW d \in Docs, NEW wh, NEW sign \in {-1, 1}, NEW r
  PROVE  /\ IsFiniteSet(DOMAIN Request[d].lines)
         /\ \A k \in DOMAIN Request[d].lines :
              /\ Request[d].lines[k].qty \in Int
              /\ Ledger!Shares(d, wh, sign, r)[k] =
                   IF <<wh, Request[d].lines[k].item>> = r
                     THEN sign * Request[d].lines[k].qty ELSE 0
              /\ Ledger!Shares(d, wh, sign, r)[k] \in Int
<1>1. IsFiniteSet(DOMAIN Request[d].lines)
  BY RequestAssumption DEF RequestOK
<1>2. ASSUME NEW k \in DOMAIN Request[d].lines PROVE Request[d].lines[k].qty \in Int
  BY RequestAssumption DEF RequestOK, LineType
<1>3. QED
  BY <1>1, <1>2 DEF Ledger!Shares

\* What a step keeps of an invocation: its request and its reads of the series.
Same(c) ==
  /\ tx'[c].kind = tx[c].kind /\ tx'[c].doc = tx[c].doc
  /\ tx'[c].number = tx[c].number /\ tx[c].held \subseteq tx'[c].held

\* The count is kept by a step that neither begins a line nor ends one.
LEMMA CountsKept ==
  ASSUME NEW c \in Clients, Counts(c), Same(c), UNCHANGED nextNumber,
         tx[c].pc \notin {"idle", "serie", "doc"}, tx'[c].pc \notin {"idle", "serie", "doc"},
         tx'[c].todo = tx[c].todo, tx'[c].delta = tx[c].delta,
         tx'[c].pc \in {"lock", "read", "select", "update"} => tx'[c].line \in tx[c].todo
  PROVE  Counts(c)'
<1>1. /\ Body(c)' = Body(c) /\ Creates(c)' = Creates(c)
      /\ Place(c)' = Place(c) /\ Sign(c)' = Sign(c)
  BY DEF Same, Body, Creates, Place, Sign
<1>2. \A r \in Rows : Share(c, r)' = Share(c, r)
  BY <1>1 DEF Same, Share, Ledger!Shares
<1> QED
  BY <1>1, <1>2 DEF Counts, Same, SerieLock

\* ... and by one that leaves the client's record alone and its series too.
LEMMA CountsOther ==
  ASSUME NEW o \in Clients, Counts(o), tx'[o] = tx[o],
         Creates(o) /\ tx[o].pc \notin {"idle", "serie"} =>
           nextNumber'[Body(o).serie] = nextNumber[Body(o).serie]
  PROVE  Counts(o)'
<1>1. /\ Body(o)' = Body(o) /\ Creates(o)' = Creates(o)
      /\ Place(o)' = Place(o) /\ Sign(o)' = Sign(o)
  BY DEF Body, Creates, Place, Sign
<1>2. \A r \in Rows : Share(o, r)' = Share(o, r)
  BY <1>1 DEF Share, Ledger!Shares
<1> QED
  BY <1>1, <1>2 DEF Counts, SerieLock

\* A finished line moves from what is left to do to what is counted.
LEMMA LineCounted ==
  ASSUME TypeInv, NEW c \in Clients, Counts(c), tx[c].pc = "update", NEW r \in Rows
  PROVE  LET rest == tx[c].todo \ {tx[c].line} IN
         /\ tx[c].kind # "draft"
         /\ tx[c].delta[r] + (IF r = RowOf(c) THEN Quantity(c) ELSE 0)
              = SumOver(DOMAIN Body(c).lines \ rest, Share(c, r))
<1> DEFINE k == tx[c].line
           L == DOMAIN Body(c).lines
           S == L \ tx[c].todo
           rest == tx[c].todo \ {k}
           f == Share(c, r)
<1>1. /\ tx[c].doc \in Docs /\ tx[c].todo \subseteq L /\ k \in L /\ k \in tx[c].todo
      /\ tx[c].kind # "draft"
  BY DEF TypeInv, HasLine, Counts
<1>2. tx[c].delta[r] = SumOver(S, f)
  BY <1>1 DEF Counts
<1>3. /\ IsFiniteSet(L) /\ \A j \in L : f[j] \in Int
      /\ f[k] = IF <<Place(c), Line(c).item>> = r THEN Sign(c) * Line(c).qty ELSE 0
      /\ Line(c).qty \in Int
  <2>1. Sign(c) \in {-1, 1}
    BY DEF Sign
  <2>2. ASSUME NEW j \in L
        PROVE  /\ f[j] = IF <<Place(c), Body(c).lines[j].item>> = r
                           THEN Sign(c) * Body(c).lines[j].qty ELSE 0
               /\ f[j] \in Int /\ Body(c).lines[j].qty \in Int
    BY <1>1, <2>1, ShareType DEF Share, Body
  <2>3. QED
    BY <1>1, <2>2, ShareType DEF Line, Body
<1>4. f[k] = IF r = RowOf(c) THEN Quantity(c) ELSE 0
  BY <1>3 DEF RowOf, Quantity, Place, Sign
<1>5. S \subseteq L /\ k \notin S /\ L \ rest = S \cup {k}
  BY <1>1
<1>6. \A j \in S \cup {k} : f[j] \in Int
  BY <1>1, <1>3, <1>5
<1>7. IsFiniteSet(S)
  BY <1>3, <1>5, FS_Subset
<1>8. SumOver(L \ rest, f) = SumOver(S \cup {k}, f)
  BY <1>5
<1> HIDE DEF S, f, L, k, rest
<1>9. SumOver(S \cup {k}, f) = f[k] + SumOver(S, f)
  BY <1>5, <1>6, <1>7, SumAdd
<1>10. SumOver(S, f) \in Int /\ f[k] \in Int
  BY <1>6, <1>7, SumInt
<1>11. tx[c].delta[r] + f[k] = SumOver(L \ rest, f)
  BY <1>2, <1>8, <1>9, <1>10
<1> QED
  BY <1>1, <1>4, <1>11 DEF L, f, k, rest

\* Every step of a transaction but its commit keeps its own count.
LEMMA CountsSelf ==
  ASSUME TypeInv, DocumentInv, NEW c \in Clients, Counts(c),
         \/ \E k \in Kinds, d \in Docs : Begin(c, k, d)
         \/ TakeNumber(c) \/ LockDocument(c) \/ NextLine(c) \/ LockKey(c)
         \/ ReadBalance(c) \/ SaveSelect(c) \/ SaveUpdate(c)
         \/ DeadlockVictim(c) \/ Rollback(c)
  PROVE  Counts(c)'
<1>0. /\ tx[c] \in TxType /\ tx \in [Clients -> TxType] /\ HasLine(c) /\ OwnsDocument(c)
  BY DEF TypeInv, TypeOK, DocumentInv
<1>1. ASSUME Throws(c) PROVE Counts(c)'
  <2>1. tx'[c] = Idle
    BY <1>0, <1>1 DEF Throws, Goes
  <2> QED
    BY <2>1 DEF Idle, Counts
<1>2. ASSUME NEW k \in Kinds, NEW d \in Docs, Begin(c, k, d) PROVE Counts(c)'
  <2>1. ASSUME NEW pc \in {"serie", "doc"}, pc = "doc" => k \notin {"register", "draft"},
               Goes(c, [Idle EXCEPT !.pc = pc, !.kind = k, !.doc = d])
        PROVE  Counts(c)'
    <3>1. tx'[c] = [Idle EXCEPT !.pc = pc, !.kind = k, !.doc = d]
      BY <1>0, <2>1 DEF Goes
    <3>2. /\ tx'[c].pc = pc /\ tx'[c].kind = k /\ tx'[c].doc = d /\ tx'[c].todo = {}
          /\ \A r \in Rows : tx'[c].delta[r] = 0
      BY <3>1 DEF Idle
    <3>3. Body(c)' = Request[d]
      BY <3>2 DEF Body
    <3> QED
      BY <1>2, <2>1, <3>2, <3>3 DEF Counts, Creates, Begin
  <2> QED
    BY <1>2, <2>1 DEF Begin
<1>3. CASE TakeNumber(c)
  <2> DEFINE s == Body(c).serie
  <2>1. tx'[c] = [tx[c] EXCEPT !.pc = "line", !.held = @ \cup {SerieLock(s)},
                    !.number = nextNumber[s],
                    !.todo = IF tx[c].kind = "register" THEN DOMAIN Body(c).lines ELSE {}]
        /\ nextNumber' = nextNumber
    BY <1>0, <1>3 DEF TakeNumber, Goes, db
  <2>2. /\ tx'[c].pc = "line" /\ SerieLock(s) \in tx'[c].held /\ tx'[c].number = nextNumber[s]
        /\ tx'[c].todo = IF tx[c].kind = "register" THEN DOMAIN Body(c).lines ELSE {}
        /\ tx'[c].kind = tx[c].kind /\ tx'[c].doc = tx[c].doc /\ tx'[c].delta = tx[c].delta
    BY <1>0, <2>1 DEF TxType
  <2>3. Body(c)' = Body(c) /\ tx[c].pc = "serie" /\ Creates(c)
    BY <1>0, <1>3, <2>2 DEF Body, TakeNumber, OwnsDocument
  <2>4. \A r \in Rows : tx[c].delta[r] = 0
    BY <2>3 DEF Counts
  <2>5. tx[c].kind = "register" =>
          \A r \in Rows : SumOver(DOMAIN Body(c).lines \ tx'[c].todo, Share(c, r)') = 0
    <3>1. ASSUME tx[c].kind = "register" PROVE DOMAIN Body(c).lines \ tx'[c].todo = {}
      BY <2>2, <3>1
    <3> QED
      BY <3>1, SumEmpty
  <2>6. (SerieLock(Body(c).serie))' \in tx'[c].held /\ tx'[c].number = nextNumber'[Body(c)'.serie]
    BY <2>1, <2>2, <2>3 DEF SerieLock
  <2> QED
    BY <2>2, <2>3, <2>4, <2>5, <2>6 DEF Counts, Creates
<1>4. CASE LockDocument(c)
  <2>1. ASSUME Goes(c, [tx[c] EXCEPT !.pc = "line",
                                     !.held = @ \cup {DocLock(tx[c].doc)},
                                     !.todo = DOMAIN Body(c).lines])
        PROVE  Counts(c)'
    <3>1. /\ tx'[c].pc = "line" /\ tx'[c].todo = DOMAIN Body(c).lines
          /\ tx'[c].kind = tx[c].kind /\ tx'[c].doc = tx[c].doc /\ tx'[c].delta = tx[c].delta
      BY <1>0, <2>1 DEF Goes, TxType
    <3>2. Body(c)' = Body(c) /\ tx[c].pc = "doc" /\ ~Creates(c)
      BY <1>0, <1>4, <3>1 DEF Body, LockDocument, OwnsDocument
    <3>3. \A r \in Rows : tx[c].delta[r] = 0
      BY <3>2 DEF Counts
    <3>4. \A r \in Rows : SumOver(DOMAIN Body(c).lines \ tx'[c].todo, Share(c, r)') = 0
      <4>1. DOMAIN Body(c).lines \ tx'[c].todo = {}
        BY <3>1
      <4> QED
        BY <4>1, SumEmpty
    <3> QED
      BY <3>1, <3>2, <3>3, <3>4 DEF Counts, Creates
  <2> QED
    BY <1>4, <1>1, <2>1 DEF LockDocument
<1>5. CASE NextLine(c)
  <2>1. PICK k \in tx[c].todo : Goes(c, [tx[c] EXCEPT !.pc = "lock", !.line = k])
    BY <1>5 DEF NextLine
  <2>2. /\ tx'[c].pc = "lock" /\ tx'[c].line = k /\ Same(c) /\ nextNumber' = nextNumber
        /\ tx'[c].todo = tx[c].todo /\ tx'[c].delta = tx[c].delta
    BY <1>0, <2>1 DEF Goes, TxType, db, Same
  <2> QED
    BY <1>5, <2>2, CountsKept DEF NextLine
<1>6. CASE LockKey(c) \/ ReadBalance(c) \/ SaveSelect(c)
  <2>1. ASSUME ~Throws(c)
        PROVE  /\ tx'[c].pc \in {"read", "select", "update"} /\ Same(c)
               /\ nextNumber' = nextNumber /\ tx'[c].line = tx[c].line
               /\ tx'[c].todo = tx[c].todo /\ tx'[c].delta = tx[c].delta
    <3>1. CASE LockKey(c)
      BY <1>0, <3>1 DEF LockKey, Goes, TxType, db, Same
    <3>2. CASE SaveSelect(c)
      BY <1>0, <3>2 DEF SaveSelect, Goes, TxType, db, Same
    <3>3. CASE ReadBalance(c)
      <4>1. PICK n : Goes(c, [tx[c] EXCEPT !.pc = "select", !.next = n])
        BY <2>1, <3>3 DEF ReadBalance
      <4> QED
        BY <1>0, <4>1 DEF Goes, TxType, db, Same
    <3> QED
      BY <1>6, <3>1, <3>2, <3>3
  <2>2. tx[c].pc \in {"lock", "read", "select"}
    BY <1>6 DEF LockKey, ReadBalance, SaveSelect
  <2>3. tx[c].line \in tx[c].todo
    BY <2>2 DEF Counts
  <2>4. CASE ~Throws(c)
    BY <2>1, <2>2, <2>3, <2>4, CountsKept
  <2> QED
    BY <1>1, <2>4
<1>7. CASE SaveUpdate(c)
  <2> DEFINE t == [tx[c] EXCEPT !.pc = "line",
                                !.todo = @ \ {tx[c].line},
                                !.line = 0,
                                !.next = None,
                                !.diff = {},
                                !.delta[RowOf(c)] = @ + Quantity(c),
                                !.work[RowOf(c)] = Saved(c)]
  <2>1. ASSUME Goes(c, t) PROVE Counts(c)'
    <3>1. /\ tx'[c].pc = "line" /\ Same(c) /\ nextNumber' = nextNumber
          /\ tx'[c].todo = tx[c].todo \ {tx[c].line}
          /\ tx'[c].delta = [tx[c].delta EXCEPT ![RowOf(c)] = @ + Quantity(c)]
      BY <1>0, <2>1 DEF Goes, TxType, db, Same
    <3>2. tx[c].pc = "update" /\ RowOf(c) \in Rows /\ Quantity(c) \in Int
      BY <1>0, <1>7, CurrentLine DEF SaveUpdate
    <3>3. /\ Body(c)' = Body(c) /\ Creates(c)' = Creates(c)
          /\ Place(c)' = Place(c) /\ Sign(c)' = Sign(c)
      BY <3>1 DEF Same, Body, Creates, Place, Sign
    <3>4. \A r \in Rows : Share(c, r)' = Share(c, r)
      BY <3>1, <3>3 DEF Same, Share, Ledger!Shares
    <3>5. ASSUME NEW r \in Rows
          PROVE  tx'[c].delta[r] = tx[c].delta[r] + (IF r = RowOf(c) THEN Quantity(c) ELSE 0)
      BY <1>0, <3>1, <3>2 DEF TxType
    <3>6. ASSUME NEW r \in Rows
          PROVE  tx'[c].delta[r] = SumOver(DOMAIN Body(c)'.lines \ tx'[c].todo, Share(c, r)')
      BY <3>1, <3>2, <3>3, <3>4, <3>5, LineCounted
    <3>7. tx[c].kind # "draft"
      <4>1. tx[c].line \in tx[c].todo
        BY <3>2 DEF Counts
      <4> QED
        BY <4>1 DEF Counts
    <3>8. Creates(c) => /\ (SerieLock(Body(c).serie))' \in tx'[c].held
                        /\ tx'[c].number = nextNumber'[Body(c)'.serie]
      BY <3>1, <3>2, <3>3 DEF Counts, Same, SerieLock
    <3> QED
      BY <3>1, <3>2, <3>3, <3>6, <3>7, <3>8 DEF Counts, Same
  <2> QED
    BY <1>7, <1>1, <2>1 DEF SaveUpdate
<1>8. CASE DeadlockVictim(c) \/ Rollback(c)
  BY <1>8, <1>1 DEF DeadlockVictim, Rollback
<1> QED
  BY <1>2, <1>3, <1>4, <1>5, <1>6, <1>7, <1>8

\* Every step of a transaction but its commit writes back the reserved units
\* that it read.
LEMMA ReservedSelf ==
  ASSUME NEW home \in [Rows -> Locations], OneLocation(home),
         TypeInv, StockInv(home), NEW c \in Clients, KeepsReserved(c),
         \/ \E k \in Kinds, d \in Docs : Begin(c, k, d)
         \/ TakeNumber(c) \/ LockDocument(c) \/ NextLine(c) \/ LockKey(c)
         \/ ReadBalance(c) \/ SaveSelect(c) \/ SaveUpdate(c)
         \/ DeadlockVictim(c) \/ Rollback(c)
  PROVE  KeepsReserved(c)'
<1>0. /\ tx[c] \in TxType /\ tx \in [Clients -> TxType] /\ HasLine(c)
      /\ Wrote(c, home) /\ Computed(c, home)
  BY DEF TypeInv, TypeOK, StockInv
<1>1. ASSUME NEW pc \in {"idle", "serie", "doc"}, tx'[c].pc = pc, tx'[c].work = NoWork
      PROVE  KeepsReserved(c)'
  BY <1>1 DEF KeepsReserved, NoWork
<1>2. ASSUME Throws(c) PROVE KeepsReserved(c)'
  <2>1. tx'[c] = Idle
    BY <1>0, <1>2 DEF Throws, Goes
  <2> QED
    BY <1>1, <2>1 DEF Idle
<1>3. ASSUME NEW k \in Kinds, NEW d \in Docs, Begin(c, k, d) PROVE KeepsReserved(c)'
  <2>1. ASSUME NEW pc \in {"serie", "doc"}, Goes(c, [Idle EXCEPT !.pc = pc, !.kind = k, !.doc = d])
        PROVE  KeepsReserved(c)'
    <3>1. tx'[c] = [Idle EXCEPT !.pc = pc, !.kind = k, !.doc = d]
      BY <1>0, <2>1 DEF Goes
    <3> QED
      BY <1>1, <3>1 DEF Idle
  <2> QED
    BY <1>3, <2>1 DEF Begin
\* Steps that neither write nor compute a balance.
<1>4. ASSUME row' = row, tx'[c].work = tx[c].work, tx'[c].pc \in {"line", "lock", "read"}
      PROVE  KeepsReserved(c)'
  BY <1>4 DEF KeepsReserved, Held
<1>5. CASE TakeNumber(c) \/ LockDocument(c) \/ NextLine(c) \/ LockKey(c)
  <2>1. ASSUME ~Throws(c)
        PROVE  row' = row /\ tx'[c].work = tx[c].work /\ tx'[c].pc \in {"line", "lock", "read"}
    <3>1. CASE TakeNumber(c)
      BY <1>0, <3>1 DEF TakeNumber, Goes, TxType, db
    <3>2. CASE LockDocument(c)
      <4>1. Goes(c, [tx[c] EXCEPT !.pc = "line", !.held = @ \cup {DocLock(tx[c].doc)},
                                  !.todo = DOMAIN Body(c).lines])
        BY <2>1, <3>2 DEF LockDocument
      <4> QED
        BY <1>0, <4>1 DEF Goes, TxType, db
    <3>3. CASE NextLine(c)
      <4>1. PICK k \in tx[c].todo : Goes(c, [tx[c] EXCEPT !.pc = "lock", !.line = k])
        BY <3>3 DEF NextLine
      <4> QED
        BY <1>0, <4>1 DEF Goes, TxType, db
    <3>4. CASE LockKey(c)
      BY <1>0, <3>4 DEF LockKey, Goes, TxType, db
    <3> QED
      BY <1>5, <3>1, <3>2, <3>3, <3>4
  <2> QED
    BY <1>2, <1>4, <2>1
\* What c sees of a row has the reserved units of the committed one.
<1>6. \A r \in Rows : Held(View(c, r)) = Held(row[r])
  BY DEF KeepsReserved, View, Held
<1>7. CASE ReadBalance(c)
  <2> DEFINE r == RowOf(c)
             cur == Snapshot(c, r, Line(c).loc)
  <2>1. /\ r \in Rows /\ Line(c).loc = home[r]
    BY <1>0, <1>7, CurrentLine, LineAtHome DEF ReadBalance
  <2>2. cur.reserved = Held(View(c, r)) /\ cur \in Balance
    BY <2>1, ViewAtHome DEF Snapshot, Held, Balance
  <2>3. ASSUME NEW n, NEW a, Goes(c, [tx[c] EXCEPT !.pc = "select",
                                        !.next = [cur EXCEPT !.onHand = n, !.available = a]])
        PROVE  KeepsReserved(c)'
    <3> HIDE DEF cur
    <3>1. [cur EXCEPT !.onHand = n, !.available = a].reserved = cur.reserved
      BY <2>2 DEF Balance
    <3>2. /\ row' = row /\ tx'[c].work = tx[c].work /\ tx'[c].pc = "select"
          /\ tx'[c].next.reserved = cur.reserved
          /\ tx'[c].kind = tx[c].kind /\ tx'[c].doc = tx[c].doc /\ tx'[c].line = tx[c].line
      BY <1>0, <2>3, <3>1 DEF Goes, TxType, db
    <3>3. RowOf(c)' = RowOf(c)
      BY <3>2 DEF RowOf, Line, Body
    <3>4. Held(View(c, RowOf(c)))' = Held(View(c, r))
      BY <3>2, <3>3 DEF Held, View
    <3> QED
      BY <2>2, <3>2, <3>4 DEF KeepsReserved, Held
  <2> QED
    BY <1>2, <1>7, <2>3 DEF ReadBalance
<1>8. CASE SaveSelect(c)
  <2>1. /\ row' = row /\ tx'[c].work = tx[c].work /\ tx[c].pc = "select"
        /\ tx'[c].next = tx[c].next
        /\ tx'[c].kind = tx[c].kind /\ tx'[c].doc = tx[c].doc /\ tx'[c].line = tx[c].line
    BY <1>0, <1>8 DEF SaveSelect, Goes, TxType, db
  <2>2. RowOf(c)' = RowOf(c)
    BY <2>1 DEF RowOf, Line, Body
  <2> QED
    BY <2>1, <2>2 DEF KeepsReserved, Held, View
<1>9. CASE SaveUpdate(c)
  <2> DEFINE r == RowOf(c)
             t == [tx[c] EXCEPT !.pc = "line",
                                !.todo = @ \ {tx[c].line},
                                !.line = 0,
                                !.next = None,
                                !.diff = {},
                                !.delta[RowOf(c)] = @ + Quantity(c),
                                !.work[RowOf(c)] = Saved(c)]
  <2>1. /\ tx[c].pc = "update" /\ r \in Rows /\ tx[c].next \in Balance
        /\ tx[c].diff = Difference(c)
        /\ tx[c].diff # {"insert"} => View(c, r) # None
    BY <1>0, <1>9, CurrentLine DEF SaveUpdate, HasLine, Computed
  <2>2. tx[c].next.reserved = Held(row[r])
    BY <1>6, <2>1 DEF KeepsReserved
  <2>3. Saved(c) # None => Saved(c).reserved = Held(row[r])
    <3>1. CASE View(c, r) = None
      BY <2>1, <2>2, <3>1 DEF Saved, Difference
    <3>2. CASE View(c, r) # None
      <4>1. tx[c].diff = {f \in Columns : View(c, r)[f] # tx[c].next[f]}
        BY <2>1, <3>2 DEF Difference
      <4>2. View(c, r).reserved = Held(row[r])
        BY <1>6, <2>1, <3>2 DEF Held
      <4>3. tx[c].diff # {"insert"}
        BY <4>1 DEF Columns
      <4>4. CASE tx[c].diff = {}
        BY <2>1, <4>4 DEF Saved, KeepsReserved
      <4>5. CASE tx[c].diff # {}
        <5>1. Saved(c) = [f \in Columns |-> IF f \in tx[c].diff THEN tx[c].next[f]
                                                               ELSE View(c, r)[f]]
          BY <4>3, <4>5 DEF Saved
        <5> QED
          BY <2>2, <4>2, <5>1 DEF Columns
      <4> QED
        BY <4>4, <4>5
    <3> QED
      BY <3>1, <3>2
  <2>4. ASSUME Goes(c, t) PROVE KeepsReserved(c)'
    <3>1. /\ row' = row /\ tx'[c].pc = "line"
          /\ tx'[c].work = [tx[c].work EXCEPT ![r] = Saved(c)]
      BY <1>0, <2>4 DEF Goes, TxType, db
    <3>2. tx'[c].work[r] = Saved(c) /\ \A s \in Rows \ {r} : tx'[c].work[s] = tx[c].work[s]
      BY <1>0, <2>1, <3>1 DEF TxType
    <3> QED
      BY <2>3, <3>1, <3>2 DEF KeepsReserved, Held
  <2> QED
    BY <1>9, <1>2, <2>4 DEF SaveUpdate
<1>10. CASE DeadlockVictim(c) \/ Rollback(c)
  BY <1>10, <1>2 DEF DeadlockVictim, Rollback
<1> QED
  BY <1>3, <1>5, <1>7, <1>8, <1>9, <1>10

\* Another client's reads survive a step that changes no row it has locked.
LEMMA ReservedOther ==
  ASSUME NEW home \in [Rows -> Locations], TypeInv, StockInv(home),
         NEW o \in Clients, KeepsReserved(o), tx'[o] = tx[o],
         \A r \in Rows : KeyLock(r, home[r]) \in tx[o].held => row'[r] = row[r]
  PROVE  KeepsReserved(o)'
<1>1. Wrote(o, home) /\ Computed(o, home) /\ HasLine(o)
  BY DEF StockInv, TypeInv
<1>2. \A r \in Rows : tx[o].work[r] # None => row'[r] = row[r]
  BY <1>1 DEF Wrote
<1>3. RowOf(o)' = RowOf(o)
  BY DEF RowOf, Line, Body
<1>4. ASSUME tx[o].pc \in {"select", "update"}
      PROVE  Held(View(o, RowOf(o)))' = Held(View(o, RowOf(o)))
  <2>1. RowOf(o) \in Rows
    BY <1>1, <1>4, CurrentLine
  <2>2. row'[RowOf(o)] = row[RowOf(o)]
    BY <1>1, <1>4, <2>1 DEF Computed
  <2> QED
    BY <1>3, <2>2 DEF View, Held
<1> QED
  BY <1>2, <1>4 DEF KeepsReserved, Held

\* The sum of the ledger's module is the sum of ours.
LEMMA OneSum == ASSUME NEW S, NEW f PROVE Ledger!SumOver(S, f) = SumOver(S, f)
BY DEF SumOver, MapThenSumSet, MapThenFoldSet, Ledger!SumOver, Ledger!MapThenSumSet,
       Ledger!MapThenFoldSet

\* What a commit changes, for the lemmas that follow.
LEMMA CommitReserved ==
  ASSUME TypeInv, NEW c \in Clients, KeepsReserved(c), Commit(c)
  PROVE  \A r \in Rows : Held(row'[r]) = Held(row[r])
<1>1. \A r \in Rows : row'[r] = View(c, r)
  BY DEF Commit
<1> QED
  BY <1>1 DEF KeepsReserved, View, Held

\* A commit leaves what the others count and have read: it moves only rows and
\* the one series that it holds locked.
LEMMA LedgerCommit ==
  ASSUME NEW home \in [Rows -> Locations], TypeInv, DocumentInv, StockInv(home), LedgerInv,
         NEW c \in Clients, Commit(c)
  PROVE  LedgerInv'
<1>0. /\ tx'[c] = Idle
      /\ \A o \in Clients \ {c} : tx'[o] = tx[o]
      /\ \A r \in Rows : row'[r] = View(c, r)
  BY CommitType DEF Commit
<1>1. Wrote(c, home) /\ Counts(c) /\ LocksExclusive /\ OwnsDocument(c) /\ HasLine(c)
  BY DEF StockInv, LedgerInv, DocumentInv, TypeInv
<1>2. Counts(c)' /\ KeepsReserved(c)'
  BY <1>0 DEF Counts, KeepsReserved, Idle, NoWork, Creates
<1>3. ASSUME NEW o \in Clients \ {c} PROVE Counts(o)' /\ KeepsReserved(o)'
  <2>1. Counts(o) /\ KeepsReserved(o) /\ HasLine(o)
    BY DEF LedgerInv, TypeInv
  <2>2. ASSUME Creates(o), tx[o].pc \notin {"idle", "serie"}
        PROVE  nextNumber'[Body(o).serie] = nextNumber[Body(o).serie]
    <3>1. SerieLock(Body(o).serie) \in tx[o].held /\ Body(o).serie \in Series
      BY <2>1, <2>2, RequestType DEF Counts, HasLine, Body
    <3>2. tx[c].pc = "line" /\ nextNumber \in [Series -> Nat \ {0}]
      BY DEF Commit, TypeInv, TypeOK
    <3>3. CASE Creates(c)
      <4>1. SerieLock(Body(c).serie) \in tx[c].held
        BY <1>1, <3>2, <3>3 DEF Counts
      <4>2. tx[c].held \cap tx[o].held = {}
        BY <1>1 DEF LocksExclusive
      <4>3. Body(c).serie # Body(o).serie
        BY <3>1, <4>1, <4>2
      <4> QED
        BY <3>1, <3>2, <4>3 DEF Commit
    <3>4. CASE ~Creates(c)
      <4>1. nextNumber' = [nextNumber EXCEPT ![Body(c).serie] = @]
        BY <3>4 DEF Commit, Creates
      <4> QED
        BY <3>1, <3>2, <4>1
    <3> QED
      BY <3>3, <3>4
  <2>3. ASSUME NEW r \in Rows, KeyLock(r, home[r]) \in tx[o].held PROVE row'[r] = row[r]
    <3>1. KeyLock(r, home[r]) \notin tx[c].held
      BY <1>1, <2>3 DEF LocksExclusive
    <3> QED
      BY <1>0, <1>1, <3>1 DEF Wrote, View
  <2>4. Counts(o)'
    BY <1>0, <2>1, <2>2, CountsOther
  <2> QED
    BY <1>0, <2>1, <2>3, <2>4, ReservedOther
<1> QED
  BY <1>2, <1>3 DEF LedgerInv

\* A committed document moves each row by the sum of its lines, a draft none.
LEMMA CommitMoves ==
  ASSUME NEW home \in [Rows -> Locations], TypeInv, StockInv(home), LedgerInv,
         NEW c \in Clients, Commit(c), NEW r \in Rows
  PROVE  /\ OnHand(row[r]) \in Int
         /\ tx[c].kind # "draft" =>
              OnHand(row'[r]) = OnHand(row[r]) + Ledger!Units(tx[c].doc, Place(c), Sign(c), r)
         /\ tx[c].kind = "draft" => OnHand(row'[r]) = OnHand(row[r])
<1>1. /\ Counts(c) /\ Wrote(c, home) /\ HasLine(c) /\ tx[c].pc = "line" /\ tx[c].todo = {}
      /\ row'[r] = View(c, r)
  BY DEF LedgerInv, StockInv, TypeInv, Commit
<1>2. OnHand(row[r]) \in Int /\ tx[c].delta[r] \in Int
  BY DEF TypeInv, TypeOK, TxType, OnHand, Balance
<1>3. OnHand(row'[r]) = OnHand(row[r]) + tx[c].delta[r]
  BY <1>1, <1>2 DEF Wrote, View, OnHand
<1>4. tx[c].kind # "draft" => tx[c].delta[r] = Ledger!Units(tx[c].doc, Place(c), Sign(c), r)
  <2>1. DOMAIN Body(c).lines \ tx[c].todo = DOMAIN Body(c).lines
    BY <1>1
  <2> QED
    BY <1>1, <2>1, OneSum DEF Counts, Share, Ledger!Units, Body
<1>5. tx[c].kind = "draft" => tx[c].delta[r] = 0
  BY <1>1 DEF Counts
<1> QED
  BY <1>2, <1>3, <1>4, <1>5

\* A commit of anything but a draft is a move of the whole document.
LEMMA CommitIsMove ==
  ASSUME NEW home \in [Rows -> Locations], TypeInv, StockInv(home), LedgerInv, BalanceValid',
         NEW c \in Clients, Commit(c), tx[c].kind # "draft"
  PROVE  Ledger!Move(tx[c].doc, Place(c), Sign(c))
<1> DEFINE U(r) == Ledger!Units(tx[c].doc, Place(c), Sign(c), r)
<1>1. ASSUME NEW r \in Rows PROVE OnHand(row'[r]) = OnHand(row[r]) + U(r)
  BY <1>1, CommitMoves
<1>2. ASSUME NEW r \in Rows PROVE Held(row'[r]) = Held(row[r])
  BY <1>2, CommitReserved DEF LedgerInv
<1>3. ASSUME NEW r \in Rows PROVE Held(row'[r]) <= OnHand(row'[r])
  <2>1. row'[r] \in Balance \cup {None}
    BY CommitType DEF TypeOK
  <2> QED
    BY <2>1 DEF BalanceValid, BalanceOK, Held, OnHand, Balance
<1> QED
  BY <1>1, <1>2, <1>3 DEF Ledger!Move, OnHand, Held

\* A commit of a draft moves nothing.
LEMMA DraftMovesNothing ==
  ASSUME NEW home \in [Rows -> Locations], TypeInv, StockInv(home), LedgerInv,
         NEW c \in Clients, Commit(c), tx[c].kind = "draft"
  PROVE  /\ [r \in Rows |-> OnHand(row[r])]' = [r \in Rows |-> OnHand(row[r])]
         /\ [r \in Rows |-> Held(row[r])]' = [r \in Rows |-> Held(row[r])]
<1>1. ASSUME NEW r \in Rows PROVE OnHand(row'[r]) = OnHand(row[r])
  BY <1>1, CommitMoves
<1>2. ASSUME NEW r \in Rows PROVE Held(row'[r]) = Held(row[r])
  BY <1>2, CommitReserved DEF LedgerInv
<1> QED
  BY <1>1, <1>2 DEF OnHand, Held

\* The commit of a creation gives the document the next number of its series;
\* any other commit numbers nothing.
LEMMA CommitNumbers ==
  ASSUME TypeInv, DocumentInv, LedgerInv, NEW c \in Clients, Commit(c),
         NEW d \in Docs, d = tx[c].doc
  PROVE  /\ Creates(c) => Ledger!Numbered(d)
         /\ ~Creates(c) => UNCHANGED <<correlative, [s \in Series |-> nextNumber[s] - 1]>>
<1> DEFINE s == Request[d].serie
<1>1. /\ s \in Series /\ tx[c].pc = "line"
      /\ nextNumber \in [Series -> Nat \ {0}] /\ correlative \in [Docs -> Nat]
  BY RequestType DEF Commit, TypeInv, TypeOK, HasLine
<1>2. CASE Creates(c)
  <2>1. tx[c].number = nextNumber[s]
    BY <1>1, <1>2 DEF LedgerInv, Counts, Body
  <2>2. /\ correlative' = [correlative EXCEPT ![d] = nextNumber[s]]
        /\ nextNumber' = [nextNumber EXCEPT ![s] = nextNumber[s] + 1]
    BY <1>2, <2>1 DEF Commit, Creates, Body
  <2>3. nextNumber'[s] = nextNumber[s] + 1 /\ \A q \in Series \ {s} : nextNumber'[q] = nextNumber[q]
    BY <1>1, <2>2
  <2>4. [q \in Series |-> nextNumber[q] - 1]'
          = [[q \in Series |-> nextNumber[q] - 1] EXCEPT ![s] = @ + 1]
    BY <1>1, <2>3
  <2>5. [q \in Series |-> nextNumber[q] - 1][s] + 1 = nextNumber[s]
    BY <1>1
  <2>6. correlative' = [correlative EXCEPT ![d] = [q \in Series |-> nextNumber[q] - 1][s] + 1]
    BY <2>2, <2>5
  <2> QED
    BY <1>2, <2>4, <2>6 DEF Ledger!Numbered
<1>3. CASE ~Creates(c)
  BY <1>1, <1>3 DEF Commit, Creates, Body
<1> QED
  BY <1>2, <1>3

\* Each commit is one operation of the ledger, by the request it answers.
LEMMA CommitIsLedger ==
  ASSUME NEW home \in [Rows -> Locations], TypeInv, DocumentInv, StockInv(home), LedgerInv,
         BalanceValid', NEW c \in Clients, Commit(c), NEW d \in Docs, d = tx[c].doc
  PROVE  Ledger!Next
<1>1. /\ tx[c].pc = "line" /\ OwnsDocument(c) /\ Counts(c) /\ tx[c].kind \in Kinds
      /\ Body(c) = Request[d] /\ Request[d].type \in DocTypes
      /\ status' = [status EXCEPT ![d] = StatusAfter(c)]
  BY RequestType DEF Commit, TypeInv, TypeOK, TxType, HasLine, DocumentInv, LedgerInv, Body
<1>2. ASSUME \/ Ledger!Draft(d) \/ Ledger!Register(d) \/ Ledger!Adjust(d)
             \/ Ledger!Dispatch(d) \/ Ledger!Receive(d)
      PROVE  Ledger!Next
  BY <1>2 DEF Ledger!Next
<1>3. CASE tx[c].kind = "draft"
  <2>1. /\ status[d] = "ABSENT" /\ Request[d].type \in {"TRANSFER", "ADJUSTMENT"}
        /\ status' = [status EXCEPT ![d] = "DRAFT"] /\ Ledger!Numbered(d)
    BY <1>1, <1>3, CommitNumbers DEF OwnsDocument, Creates, Counts, StatusAfter
  <2>2. Ledger!Draft(d)
    BY <1>3, <2>1, DraftMovesNothing DEF Ledger!Draft
  <2> QED
    BY <1>2, <2>2
<1>4. CASE tx[c].kind = "register"
  <2>1. /\ status[d] = "ABSENT" /\ Request[d].type \in {"IN", "OUT"}
        /\ status' = [status EXCEPT ![d] = "POSTED"] /\ Ledger!Numbered(d)
    BY <1>1, <1>4, CommitNumbers DEF OwnsDocument, Creates, Counts, StatusAfter
  <2>2. Ledger!Move(d, Request[d].from, 1)
    <3>1. Place(c) = Request[d].from /\ Sign(c) = 1
      BY <1>1, <1>4 DEF Place, Sign
    <3> QED
      BY <1>4, <3>1, CommitIsMove
  <2>3. Ledger!Register(d)
    BY <2>1, <2>2 DEF Ledger!Register
  <2> QED
    BY <1>2, <2>3
<1>5. CASE tx[c].kind = "process"
  <2>1. /\ status[d] = "DRAFT" /\ Request[d].type \in {"TRANSFER", "ADJUSTMENT"}
        /\ UNCHANGED <<correlative, [s \in Series |-> nextNumber[s] - 1]>>
    BY <1>1, <1>5, CommitNumbers DEF OwnsDocument, Creates, Accepts
  <2>2. Place(c) = Request[d].from
    BY <1>1, <1>5 DEF Place
  <2>3. CASE Request[d].type = "TRANSFER"
    <3>1. Sign(c) = -1 /\ status' = [status EXCEPT ![d] = "IN_TRANSIT"]
      BY <1>1, <1>5, <2>1, <2>3 DEF Sign, StatusAfter
    <3>2. Ledger!Move(d, Request[d].from, -1)
      BY <1>5, <2>2, <3>1, CommitIsMove
    <3>3. Ledger!Dispatch(d)
      BY <2>1, <2>3, <3>1, <3>2 DEF Ledger!Dispatch
    <3> QED
      BY <1>2, <3>3
  <2>4. CASE Request[d].type = "ADJUSTMENT"
    <3>1. Sign(c) = 1 /\ status' = [status EXCEPT ![d] = "POSTED"]
      BY <1>1, <1>5, <2>1, <2>4 DEF Sign, StatusAfter
    <3>2. Ledger!Move(d, Request[d].from, 1)
      BY <1>5, <2>2, <3>1, CommitIsMove
    <3>3. Ledger!Adjust(d)
      BY <2>1, <2>4, <3>1, <3>2 DEF Ledger!Adjust
    <3> QED
      BY <1>2, <3>3
  <2> QED
    BY <2>1, <2>3, <2>4
<1>6. CASE tx[c].kind = "receive"
  <2>1. /\ status[d] = "IN_TRANSIT" /\ status' = [status EXCEPT ![d] = "POSTED"]
        /\ UNCHANGED <<correlative, [s \in Series |-> nextNumber[s] - 1]>>
    BY <1>1, <1>6, CommitNumbers DEF OwnsDocument, Creates, Accepts, StatusAfter
  <2>2. Place(c) = Request[d].to /\ Sign(c) = 1
    BY <1>1, <1>6 DEF Place, Sign
  <2>3. Ledger!Move(d, Request[d].to, 1)
    BY <1>6, <2>2, CommitIsMove
  <2>4. Ledger!Receive(d)
    BY <2>1, <2>3 DEF Ledger!Receive
  <2> QED
    BY <1>2, <2>4
<1> QED
  BY <1>1, <1>3, <1>4, <1>5, <1>6 DEF Kinds

\* The transactions implement the ledger, for any number of clients, documents,
\* lines, rows and series, as long as each row is used with one location.
THEOREM ImplementsTheLedger ==
  ASSUME NEW home \in [Rows -> Locations], OneLocation(home)
  PROVE  Spec => ImplementsLedger
<1>1. Init => LedgerInv /\ Ledger!Init
  <2> SUFFICES ASSUME Init PROVE LedgerInv /\ Ledger!Init
    OBVIOUS
  <2>1. LedgerInv
    BY DEF Init, LedgerInv, Counts, KeepsReserved, Idle, NoWork, Creates
  <2>2. Ledger!Init
    BY DEF Init, Ledger!Init, OpeningReserved
  <2> QED
    BY <2>1, <2>2
<1>2. TypeInv /\ DocumentInv /\ StockInv(home) /\ LedgerInv /\ [Next]_vars => LedgerInv'
  <2> SUFFICES ASSUME TypeInv, DocumentInv, StockInv(home), LedgerInv, [Next]_vars PROVE LedgerInv'
    OBVIOUS
  <2>1. ASSUME NEW o \in Clients, tx'[o] = tx[o], UNCHANGED db
        PROVE  Counts(o)' /\ KeepsReserved(o)'
    BY <2>1, CountsOther, ReservedOther DEF db, LedgerInv
  <2>2. CASE UNCHANGED vars
    BY <2>1, <2>2 DEF vars, db, LedgerInv
  <2>3. ASSUME NEW c \in Clients, Commit(c) PROVE LedgerInv'
    BY <2>3, LedgerCommit
  <2>4. ASSUME NEW c \in Clients,
               \/ \E k \in Kinds, d \in Docs : Begin(c, k, d)
               \/ TakeNumber(c) \/ LockDocument(c) \/ NextLine(c) \/ LockKey(c)
               \/ ReadBalance(c) \/ SaveSelect(c) \/ SaveUpdate(c)
               \/ DeadlockVictim(c) \/ Rollback(c)
        PROVE  LedgerInv'
    <3>1. PICK t \in TxType : Goes(c, t)
      BY <2>4, StepType
    <3>2. UNCHANGED db /\ \A o \in Clients \ {c} : tx'[o] = tx[o]
      BY <3>1, Local DEF TypeInv
    <3>3. Counts(c)' /\ KeepsReserved(c)'
      BY <2>4, CountsSelf, ReservedSelf DEF LedgerInv
    <3> QED
      BY <2>1, <3>2, <3>3 DEF LedgerInv
  <2> QED
    BY <2>2, <2>3, <2>4 DEF Next, Step
<1>3. TypeInv /\ DocumentInv /\ StockInv(home) /\ LedgerInv /\ [Next]_vars /\ StockInv(home)'
        => [Ledger!Next]_(Ledger!vars)
  <2> SUFFICES ASSUME TypeInv, DocumentInv, StockInv(home), LedgerInv, [Next]_vars, StockInv(home)'
               PROVE  [Ledger!Next]_(Ledger!vars)
    OBVIOUS
  <2>1. CASE UNCHANGED db
    BY <2>1 DEF db, Ledger!vars, OnHand, Held
  <2>2. ASSUME NEW c \in Clients, Commit(c) PROVE Ledger!Next
    <3>1. PICK d \in Docs : d = tx[c].doc
      BY <2>2 DEF Commit, TypeInv, HasLine
    <3> QED
      BY <2>2, <3>1, CommitIsLedger DEF StockInv
  <2>3. ASSUME NEW c \in Clients,
               \/ \E k \in Kinds, d \in Docs : Begin(c, k, d)
               \/ TakeNumber(c) \/ LockDocument(c) \/ NextLine(c) \/ LockKey(c)
               \/ ReadBalance(c) \/ SaveSelect(c) \/ SaveUpdate(c)
               \/ DeadlockVictim(c) \/ Rollback(c)
        PROVE  UNCHANGED db
    BY <2>3, StepType, Local DEF TypeInv
  <2>4. CASE UNCHANGED vars
    BY <2>1, <2>4 DEF vars, db
  <2>5. CASE Next
    BY <2>1, <2>2, <2>3, <2>5 DEF Next, Step
  <2> QED
    BY <2>4, <2>5
<1>4. Spec => []TypeInv /\ []DocumentInv /\ []StockInv(home)
  BY TypeCorrect, DocumentCorrect, StockInvAlways
<1> QED
  BY <1>1, <1>2, <1>3, <1>4, PTL DEF Spec, ImplementsLedger, Ledger!Spec

=============================================================================
