---------------------------- MODULE UnlockedStock ----------------------------
(***************************************************************************)
(* The writers of pc_inventory that take neither a transaction nor the     *)
(* advisory lock of InventoryTx: ReserveProductCatalogMaterials (modes     *)
(* "reserve" and "release"), which production orders call, and             *)
(* UpsertProductCatalogInventoryBalance (mode "set").  Each of their       *)
(* queries commits on its own and interleaves with the postings of         *)
(* InventoryTx.                                                            *)
(***************************************************************************)
EXTENDS InventoryTx, Sequences

CONSTANTS
  Calls,   \* calls of the two use cases, each made once
  Call     \* Call[m]: its mode, warehouse and lines

VARIABLE call   \* how far each call is: its line, what it will save

uvars == <<vars, call>>

NotCalled == [pc |-> "start", line |-> 1, next |-> None, diff |-> {}]

CLine(m) == Call[m].lines[call[m].line]
CRow(m) == <<Call[m].warehouse, CLine(m).item>>

UInit == Init /\ call = [m \in Calls |-> NotCalled]

-----------------------------------------------------------------------------
Continues(m, c) == call' = [call EXCEPT ![m] = c] /\ UNCHANGED vars

Ends(m) == Continues(m, [NotCalled EXCEPT !.pc = "end"])

\* Another line, or what follows the last one.
LastLine(m, after) ==
  IF call[m].line < Len(Call[m].lines)
    THEN [call[m] EXCEPT !.line = @ + 1]
    ELSE [NotCalled EXCEPT !.pc = after]

\* A call arrives.  The body of "set" is a valid balance, or it is refused.
Start(m) ==
  /\ call[m].pc = "start"
  /\ IF Call[m].mode = "set"
       THEN IF BalanceOK(CLine(m).balance) /\ CLine(m).balance.onHand >= 0
              THEN Continues(m, [call[m] EXCEPT !.pc = "select", !.next = CLine(m).balance])
              ELSE Ends(m)
       ELSE Continues(m, [call[m] EXCEPT !.pc = "check"])

\* getSnapshot on committed rows; a row of another location is not found.
Found(r, l) == row[r] # None /\ row[r].loc = l

Committed(r, l) ==
  IF Found(r, l) THEN row[r] ELSE [loc |-> l, onHand |-> 0, reserved |-> 0, available |-> 0]

\* The first loop: each line is checked against the balance of the moment.
CheckLine(m) ==
  LET cur == Committed(CRow(m), CLine(m).loc)
      enough == IF Call[m].mode = "reserve"
                  THEN Found(CRow(m), CLine(m).loc) /\ cur.available >= CLine(m).qty
                  ELSE cur.reserved >= CLine(m).qty
  IN /\ call[m].pc = "check"
     /\ IF enough THEN Continues(m, LastLine(m, "read")) ELSE Ends(m)

\* incrementReserved reads the balance again, validates and computes the next.
ReadForIncrement(m) ==
  LET cur == Committed(CRow(m), CLine(m).loc)
      reserved == cur.reserved + (IF Call[m].mode = "reserve" THEN 1 ELSE -1) * CLine(m).qty
  IN /\ call[m].pc = "read"
     /\ IF 0 <= reserved /\ reserved <= cur.onHand
          THEN Continues(m, [call[m] EXCEPT
                 !.pc = "select",
                 !.next = [cur EXCEPT !.reserved = reserved, !.available = cur.onHand - reserved]])
          ELSE Ends(m)

\* Repository.save reads the row and keeps the columns that differ ...
SelectForSave(m) ==
  /\ call[m].pc = "select"
  /\ Continues(m, [call[m] EXCEPT
       !.pc = "update",
       !.diff = IF row[CRow(m)] = None THEN {"insert"}
                ELSE {f \in Columns : row[CRow(m)][f] # call[m].next[f]}])

\* ... and writes them when no transaction holds the row.  The lines written
\* before a failing one stay written.
UpdateNow(m) ==
  LET r == CRow(m)
      c == call[m]
  IN /\ c.pc = "update"
     /\ c.diff # {} => \A o \in Clients : tx[o].work[r] = None
     /\ IF c.diff = {"insert"} /\ row[r] # None
          THEN Ends(m)
          ELSE /\ row' = [row EXCEPT ![r] =
                    CASE c.diff = {} -> @
                      [] c.diff = {"insert"} -> c.next
                      [] OTHER -> [f \in Columns |-> IF f \in c.diff THEN c.next[f] ELSE @[f]]]
               /\ call' = [call EXCEPT ![m] =
                    IF Call[m].mode = "set" THEN [NotCalled EXCEPT !.pc = "end"]
                    ELSE LET more == LastLine(m, "end")
                         IN IF more.pc = "end" THEN more
                            ELSE [more EXCEPT !.pc = "read", !.next = None, !.diff = {}]]
               /\ UNCHANGED <<ledgerNet, batches, status, correlative, nextNumber, tx>>

UNext ==
  \/ Next /\ UNCHANGED call
  \/ \E m \in Calls :
       Start(m) \/ CheckLine(m) \/ ReadForIncrement(m) \/ SelectForSave(m) \/ UpdateNow(m)

USpec == UInit /\ [][UNext]_uvars

=============================================================================
