--------------------------- MODULE InventoryLedger ---------------------------
(***************************************************************************)
(* What the inventory documents promise, transactions left out: a document *)
(* moves its whole quantity in one step, at most once per side, never      *)
(* below what is reserved, and gets the next number of its series.         *)
(***************************************************************************)
EXTENDS Integers, Sums

CONSTANTS Rows, Docs, Series, Request, OpeningStock, OpeningReserved

VARIABLES
  stock,       \* on-hand units per row
  reserved,    \* reserved units per row, which documents never change
  docStatus,   \* status per document
  number,      \* correlative per document, 0 while there is none
  issued       \* how many numbers each series has given out

vars == <<stock, reserved, docStatus, number, issued>>

Init ==
  /\ stock = OpeningStock
  /\ reserved = OpeningReserved
  /\ docStatus = [d \in Docs |-> "ABSENT"]
  /\ number = [d \in Docs |-> 0]
  /\ issued = [s \in Series |-> 0]

\* What each line of d adds to row r, at one of its warehouses, and their sum.
Shares(d, wh, sign, r) ==
  [k \in DOMAIN Request[d].lines |->
     IF <<wh, Request[d].lines[k].item>> = r THEN sign * Request[d].lines[k].qty ELSE 0]

Units(d, wh, sign, r) == SumOver(DOMAIN Request[d].lines, Shares(d, wh, sign, r))

Move(d, wh, sign) ==
  /\ stock' = [r \in Rows |-> stock[r] + Units(d, wh, sign, r)]
  /\ \A r \in Rows : Units(d, wh, sign, r) < 0 => reserved[r] <= stock'[r]
  /\ UNCHANGED reserved

Numbered(d) ==
  LET s == Request[d].serie IN
  /\ issued' = [issued EXCEPT ![s] = @ + 1]
  /\ number' = [number EXCEPT ![d] = issued[s] + 1]

Draft(d) ==
  /\ docStatus[d] = "ABSENT"
  /\ Request[d].type \in {"TRANSFER", "ADJUSTMENT"}
  /\ docStatus' = [docStatus EXCEPT ![d] = "DRAFT"]
  /\ Numbered(d)
  /\ UNCHANGED <<stock, reserved>>

Register(d) ==
  /\ docStatus[d] = "ABSENT"
  /\ Request[d].type \in {"IN", "OUT"}
  /\ docStatus' = [docStatus EXCEPT ![d] = "POSTED"]
  /\ Numbered(d)
  /\ Move(d, Request[d].from, 1)

Adjust(d) ==
  /\ docStatus[d] = "DRAFT"
  /\ Request[d].type = "ADJUSTMENT"
  /\ docStatus' = [docStatus EXCEPT ![d] = "POSTED"]
  /\ Move(d, Request[d].from, 1)
  /\ UNCHANGED <<number, issued>>

Dispatch(d) ==
  /\ docStatus[d] = "DRAFT"
  /\ Request[d].type = "TRANSFER"
  /\ docStatus' = [docStatus EXCEPT ![d] = "IN_TRANSIT"]
  /\ Move(d, Request[d].from, -1)
  /\ UNCHANGED <<number, issued>>

Receive(d) ==
  /\ docStatus[d] = "IN_TRANSIT"
  /\ docStatus' = [docStatus EXCEPT ![d] = "POSTED"]
  /\ Move(d, Request[d].to, 1)
  /\ UNCHANGED <<number, issued>>

Next ==
  \E d \in Docs :
    Draft(d) \/ Register(d) \/ Adjust(d) \/ Dispatch(d) \/ Receive(d)

Spec == Init /\ [][Next]_vars

=============================================================================
