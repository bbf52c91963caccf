------------------------- MODULE InventoryTxInvariant -------------------------
(***************************************************************************)
(* Why the properties of InventoryTx hold: what each transaction knows     *)
(* between its steps.  The parts are stated per client, so that a step of  *)
(* another client has to be shown not to disturb them.                     *)
(***************************************************************************)
EXTENDS InventoryTx, Sums

\* A transaction has a document, a current line while it works on one, and a
\* computed balance from the read to the write.
HasLine(c) ==
  /\ tx[c].pc = "idle" => tx[c] = Idle
  /\ tx[c].pc # "idle" => /\ tx[c].doc \in Docs
                          /\ tx[c].todo \subseteq DOMAIN Body(c).lines
  /\ tx[c].pc \in {"lock", "read", "select", "update"} =>
       tx[c].line \in DOMAIN Body(c).lines
  /\ tx[c].pc \in {"select", "update"} => tx[c].next \in Balance
  /\ tx[c].pc = "update" =>
       IF tx[c].diff = {"insert"} THEN TRUE
       ELSE tx[c].diff \subseteq Columns /\ View(c, RowOf(c)) # None

TypeInv == TypeOK /\ \A c \in Clients : HasLine(c)

Creates(c) == tx[c].kind \in {"register", "draft"}

\* A lock has one holder.
LocksExclusive ==
  \A c, o \in Clients : c # o => tx[c].held \cap tx[o].held = {}

\* A creation request is the only one of its document, which nobody else sees;
\* any other holds the document's row lock from its status check on, so what it
\* checked stays true until it commits.
OwnsDocument(c) ==
  tx[c].pc # "idle" =>
    /\ Creates(c) =>
         /\ tx[c].pc # "doc"
         /\ status[tx[c].doc] = "ABSENT"
         /\ tx[c].kind = "register" => Body(c).type # "TRANSFER"
         /\ \A o \in Clients \ {c} : Creates(o) => tx[o].doc # tx[c].doc
    /\ ~Creates(c) =>
         /\ tx[c].pc # "serie"
         /\ status[tx[c].doc] # "ABSENT"
         /\ tx[c].pc # "doc" => DocLock(tx[c].doc) \in tx[c].held /\ Accepts(c)

DocumentInv ==
  /\ LocksExclusive
  /\ \A c \in Clients : OwnsDocument(c)
  /\ PostedOnce

\* What a transaction wrote to a row, under the row's advisory lock, is the
\* committed balance plus what it will append to the ledger.
Wrote(c, home) ==
  \A r \in Rows :
    IF tx[c].work[r] = None THEN tx[c].delta[r] = 0
    ELSE /\ KeyLock(r, home[r]) \in tx[c].held
         /\ tx[c].work[r].loc = home[r]
         /\ BalanceOK(tx[c].work[r])
         /\ tx[c].work[r].onHand = OnHand(row[r]) + tx[c].delta[r]

\* What it read under that lock is still there when it saves.
Computed(c, home) ==
  /\ tx[c].pc \in {"read", "select", "update"} =>
       KeyLock(RowOf(c), home[RowOf(c)]) \in tx[c].held
  /\ tx[c].pc \in {"select", "update"} =>
       /\ tx[c].next.loc = home[RowOf(c)]
       /\ BalanceOK(tx[c].next)
       /\ tx[c].next.onHand = OnHand(View(c, RowOf(c))) + Quantity(c)
  /\ tx[c].pc = "update" => tx[c].diff = Difference(c)

AtHome(home) == \A r \in Rows : row[r] # None => row[r].loc = home[r]

StockInv(home) ==
  /\ AtHome(home)
  /\ BalanceValid
  /\ BalanceMatchesLedger
  /\ \A c \in Clients : Wrote(c, home) /\ Computed(c, home)

-----------------------------------------------------------------------------
Held(b) == IF b = None THEN 0 ELSE b.reserved

OpeningReserved == [r \in Rows |-> Held(Opening[r])]

\* The refinement: committed stock, document status and numbers behave as
\* InventoryLedger says; all the rest of a transaction is invisible.
Ledger ==
  INSTANCE InventoryLedger WITH
    OpeningStock <- [r \in Rows |-> OnHand(Opening[r])],
    stock <- [r \in Rows |-> OnHand(row[r])],
    reserved <- [r \in Rows |-> Held(row[r])],
    docStatus <- status,
    number <- correlative,
    issued <- [s \in Series |-> nextNumber[s] - 1]

\* The transactions implement the documents: whatever the interleaving, each
\* commit is one whole posting, dispatch or reception and nothing else moves
\* stock, status or numbering.
ImplementsLedger == Ledger!Spec

\* Where the lines of c's document go, and what each adds to row r there.
Place(c) == IF tx[c].kind = "receive" THEN Body(c).to ELSE Body(c).from
Sign(c) == IF Body(c).type = "TRANSFER" /\ tx[c].kind = "process" THEN -1 ELSE 1
Share(c, r) == Ledger!Shares(tx[c].doc, Place(c), Sign(c), r)

\* What a transaction will append to the ledger is what the lines it is done
\* with add, and the number it took is still the next one of its series.
Counts(c) ==
  /\ tx[c].pc # "idle" =>
       /\ tx[c].kind = "register" => Body(c).type \in {"IN", "OUT"}
       /\ tx[c].kind = "draft" => Body(c).type \in {"TRANSFER", "ADJUSTMENT"}
  /\ tx[c].pc \in {"lock", "read", "select", "update"} => tx[c].line \in tx[c].todo
  /\ IF tx[c].pc \in {"idle", "serie", "doc"} \/ tx[c].kind = "draft"
       THEN /\ \A r \in Rows : tx[c].delta[r] = 0
            /\ tx[c].kind = "draft" => tx[c].todo = {}
       ELSE \A r \in Rows :
              tx[c].delta[r] = SumOver(DOMAIN Body(c).lines \ tx[c].todo, Share(c, r))
  /\ Creates(c) /\ tx[c].pc \notin {"idle", "serie"} =>
       /\ SerieLock(Body(c).serie) \in tx[c].held
       /\ tx[c].number = nextNumber[Body(c).serie]

\* It saves back the reserved units it read.
KeepsReserved(c) ==
  /\ \A r \in Rows : tx[c].work[r] # None => tx[c].work[r].reserved = Held(row[r])
  /\ tx[c].pc \in {"select", "update"} => tx[c].next.reserved = Held(View(c, RowOf(c)))

LedgerInv == \A c \in Clients : Counts(c) /\ KeepsReserved(c)

=============================================================================
