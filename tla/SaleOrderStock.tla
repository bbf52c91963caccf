---------------------------- MODULE SaleOrderStock ----------------------------
(***************************************************************************)
(* The stock of sale orders: transitions of their workflow, edits, total   *)
(* corrections, payment and date rollbacks, deletion and restoration, the  *)
(* retry of reservations, and documents of other sources on the same rows. *)
(*                                                                         *)
(* One action is one transaction: each locks the order's row first and     *)
(* keeps the locks of the balance rows until it commits (InventoryTx is    *)
(* where those locks are examined).  A service that throws rolls back and  *)
(* is no step.  Conditions that choose a branch may come out either way.   *)
(***************************************************************************)
EXTENDS Integers, Sequences, FiniteSets, Sums

CONSTANTS
  Orders, Warehouses, StockItems, None,
  Flows,         \* initial state of each workflow
  Transitions,   \* branches: flow, states left, state reached, stock actions, warehouse assigned
  Rollbacks,     \* where an unpaid or undated order goes back to
  Edits,         \* what a save may give each order: workflow, warehouse and composition
  Opening,       \* orders at the start
  OnHand,        \* stock at the start
  Lote,          \* orders of the import batch
  MaxOnHand      \* bound: units that come in

Plans == {<<>>, <<"RESERVE">>, <<"CONSUME">>, <<"REVERT">>, <<"RESTORE">>, <<"RESERVE", "CONSUME">>}

ASSUME StockAssumption ==
  /\ IsFiniteSet(Orders) /\ IsFiniteSet(Warehouses) /\ None \notin Warehouses
  /\ OnHand \in [Warehouses \X StockItems -> Nat]
  /\ \A t \in Transitions : t.plan \in Plans
  /\ \A o \in Orders : Opening[o].comp \in [StockItems -> Nat]
  /\ \A o \in Orders : \A new \in Edits[o] :
       /\ new.warehouse \in Warehouses
       /\ new.comp \in [StockItems -> Nat] /\ \E i \in StockItems : new.comp[i] > 0

VARIABLES
  order,  \* sale_orders, what is derived from their history, and their OUT documents
  stock,  \* pc_inventory
  moved   \* ghost: what documents of other sources brought in

vars == <<order, stock, moved>>

Rows == Warehouses \X StockItems
Places == Warehouses \cup {None}

Init ==
  /\ order = [o \in Orders |->
       [flow |-> Opening[o].flow, state |-> Flows[Opening[o].flow], active |-> TRUE,
        warehouse |-> Opening[o].warehouse, comp |-> Opening[o].comp, reserveBool |-> FALSE,
        replay |-> FALSE,    \* hasActiveReservation
        policy |-> "NONE",   \* the last stock status recorded
        trail |-> {},        \* boundaries passed by transitions, with whether stock was reserved before
        open |-> <<>>,       \* OUT documents not reversed: row units
        posted |-> FALSE]]   \* an OUT document exists
  /\ stock = [r \in Rows |-> [onHand |-> OnHand[r], reserved |-> 0]]
  /\ moved = [r \in Rows |-> 0]

-----------------------------------------------------------------------------
(* A transaction as a function of the world; ok is FALSE once it has thrown. *)

world == [order |-> order, stock |-> stock, ok |-> TRUE]

Check(w, holds) == [w EXCEPT !.ok = @ /\ holds]
Sets(w, o, new) == [w EXCEPT !.order[o] = new]
SetReserveBool(w, o, b) == [w EXCEPT !.order[o].reserveBool = b]

Needs(ord) == [r \in Rows |-> IF r[1] = ord.warehouse THEN ord.comp[r[2]] ELSE 0]
RowsOf(ord) == {r \in Rows : Needs(ord)[r] > 0}

\* listExpected: what the orders marked as reserved need of a row.
Expected(w, r) ==
  SumOver({o \in Orders : w.order[o].reserveBool /\ w.order[o].active},
          [o \in Orders |-> Needs(w.order[o])[r]])

\* What the OUT document of the order took.
Out(ord) == IF ord.open = <<>> THEN [r \in Rows |-> 0] ELSE Head(ord.open)

Scaled(k, units) == [r \in Rows |-> k * units[r]]

\* incrementOnHand and incrementReserved: a balance that is not valid is refused.
Increment(w, hand, held) ==
  LET new == [r \in Rows |-> [onHand |-> w.stock[r].onHand + hand[r], reserved |-> w.stock[r].reserved + held[r]]]
  IN  Check([w EXCEPT !.stock = new],
            \A r \in Rows : 0 <= new[r].reserved /\ new[r].reserved <= new[r].onHand)

\* The reserved units of the order's rows become what the orders expect.
Reconcile(w, o) ==
  LET rows == RowsOf(w.order[o])
  IN  Check([w EXCEPT !.stock = [r \in Rows |->
               IF r \in rows THEN [w.stock[r] EXCEPT !.reserved = Expected(w, r)] ELSE w.stock[r]]],
            \A r \in rows : Expected(w, r) <= w.stock[r].onHand)

\* The health of a reservation, for an order that is marked.
Complete(w, o) ==
  /\ RowsOf(w.order[o]) # {}
  /\ \A r \in RowsOf(w.order[o]) :
       Expected(w, r) <= w.stock[r].onHand /\ w.stock[r].reserved = Expected(w, r)

Consume(w, o) ==
  LET ord == w.order[o] IN
  IF RowsOf(ord) = {} \/ ord.open # <<>> THEN w
  ELSE Increment(Sets(w, o, [ord EXCEPT !.open = <<Needs(ord)>>, !.posted = TRUE]),
                 Scaled(-1, Needs(ord)), Scaled(-1, Needs(ord)))

\* The units of a document at the warehouse that the order has now.
Here(ord, units) ==
  [r \in Rows |-> IF r[1] = ord.warehouse
                    THEN SumOver(Warehouses, [x \in Warehouses |-> units[<<x, r[2]>>]]) ELSE 0]

Restore(w, o, keep) ==
  LET ord == w.order[o] IN
  IF ord.open = <<>> THEN Check(w, ord.warehouse # None)
  ELSE Check(Increment(Sets(w, o, [ord EXCEPT !.open = Tail(@), !.reserveBool = keep]),
                       Here(ord, Head(ord.open)), Scaled(IF keep THEN 1 ELSE 0, Here(ord, Head(ord.open)))),
             ord.warehouse # None /\ Len(ord.open) = 1)

-----------------------------------------------------------------------------
(* The stock actions of a transition. *)

Has(plan, a) == \E k \in DOMAIN plan : plan[k] = a

Conflict(w, o, plan) ==
  LET ord == w.order[o] IN
  \/ ~ord.active
  \/ Len(ord.open) > 1
  \/ Has(plan, "RESERVE") /\ (ord.open # <<>> \/ (ord.reserveBool /\ ~Complete(w, o)))
  \/ Has(plan, "REVERT") /\ ord.reserveBool /\ ~Complete(w, o)
  \/ Has(plan, "RESTORE") /\ ~ord.posted

\* What a REVERT gives back: never more than the row has reserved.
ReleaseUnits(w, o) ==
  LET needs == Needs(w.order[o])
  IN  [r \in Rows |-> IF needs[r] < w.stock[r].reserved THEN needs[r] ELSE w.stock[r].reserved]

\* A consumption is restored; what is reserved is released if the mark, or the
\* transitions of the history, say that there is a reservation.
Revert(w, o) ==
  LET ord == w.order[o]
      back == IF ord.warehouse = None THEN w ELSE Restore(w, o, FALSE)
      even == Reconcile(back, o)
  IN  SetReserveBool(
        IF (ord.reserveBool \/ ord.replay) /\ ord.warehouse # None
          THEN Increment(even, Scaled(0, ReleaseUnits(even, o)), Scaled(-1, ReleaseUnits(even, o)))
          ELSE back,
        o, FALSE)

\* RESERVE or CONSUME on balances that have been reconciled.
Perform(w, o, a) ==
  LET needs == Needs(w.order[o]) IN
  IF a = "RESERVE"
    THEN SetReserveBool(Check(Increment(w, Scaled(0, needs), needs),
           \A r \in RowsOf(w.order[o]) : w.stock[r].onHand - w.stock[r].reserved >= needs[r]), o, TRUE)
    ELSE SetReserveBool(Check(Consume(w, o),
           \A r \in RowsOf(w.order[o]) : w.stock[r].reserved >= needs[r] /\ w.stock[r].onHand >= needs[r]), o, FALSE)

\* Actions that are satisfied already are skipped; RESERVE comes before CONSUME.
Act(w, o, plan) ==
  LET ord == w.order[o]
      reserves == Has(plan, "RESERVE") /\ ~ord.reserveBool
      consumes == Has(plan, "CONSUME") /\ ord.open = <<>>
      even == Check(Reconcile(w, o), ord.warehouse # None)
      first == IF reserves THEN Perform(even, o, "RESERVE") ELSE even
  IN  CASE consumes -> Perform(first, o, "CONSUME")
        [] reserves /\ ~consumes -> first
        [] OTHER -> SetReserveBool(w, o, ord.reserveBool /\ ~Has(plan, "CONSUME"))

Run(w, o, plan) ==
  CASE plan = <<>>          -> Check(w, w.order[o].active)
    [] plan = <<"REVERT">>  -> Check(Revert(w, o), ~Conflict(w, o, plan))
    [] plan = <<"RESTORE">> -> Check(Restore(w, o, FALSE), ~Conflict(w, o, plan))
    [] OTHER                -> Check(Act(w, o, plan), ~Conflict(w, o, plan))

\* The stock status recorded with a transition.
StatusAfter(plan, old) ==
  CASE plan = <<>>                      -> old
    [] plan = <<"RESERVE">>             -> "RESERVED"
    [] Has(plan, "CONSUME")             -> "CONSUMED"
    [] OTHER                            -> "REVERTED"

-----------------------------------------------------------------------------
(* Corrections. *)

\* A reservation counts only while the order is marked.
Policy(ord) == IF ord.policy = "RESERVED" /\ ~ord.reserveBool THEN "NONE" ELSE ord.policy

\* Fault: the mark goes, the units stay.
UnreserveMarkOnly(w, o) == SetReserveBool(w, o, FALSE)

Unreserve(w, o) == Reconcile(SetReserveBool(w, o, FALSE), o)

\* Fault: consumed units are not brought back.
ReleaseReservedOnly(w, o, status) == Unreserve(w, o)

ReleasePreviousComposition(w, o, status) ==
  LET ord == w.order[o]
      back == IF status = "CONSUMED"
                THEN Check(Restore(w, o, TRUE), ord.open # <<>> \/ ord.reserveBool)
                ELSE Check(w, ord.warehouse # None)
  IN  Unreserve(back, o)

ReserveCorrectedComposition(w, o) ==
  Reconcile(SetReserveBool(Check(w, w.order[o].warehouse # None), o, TRUE), o)

ReconcileCurrentReservation(w, o) == IF w.order[o].reserveBool THEN Reconcile(w, o) ELSE w

ReleaseCurrentReservation(w, o) == IF w.order[o].reserveBool THEN Unreserve(w, o) ELSE w

ConsumeCorrectedComposition(w, o) == SetReserveBool(Consume(Reconcile(w, o), o), o, FALSE)

\* An invalid payment or date: found on the transitions that led to the state, or
\* in the graph of the workflow, which does not lead back from a cancelled order.
CanRollBack(ord, b) ==
  /\ ord.active /\ b.flow = ord.flow /\ b.from = ord.state
  /\ b.graph \/ \E reserved \in BOOLEAN : <<b.via, reserved>> \in ord.trail

\* Whether the order was reserved before that transition, or is by the graph.
Keeps(ord, b) ==
  b.keep /\ ((\E reserved \in BOOLEAN : <<b.via, reserved>> \in ord.trail) => <<b.via, TRUE>> \in ord.trail)

\* Fault: the stock status is not recorded.
RollBackUnrecorded(w, o, b) ==
  LET done == Restore(w, o, Keeps(w.order[o], b))
  IN  Sets(done, o, [done.order[o] EXCEPT !.state = b.to, !.trail = {}])

RollBack(w, o, b) ==
  LET keep == Keeps(w.order[o], b)
      back == Restore(w, o, keep)
      done == IF keep THEN back ELSE ReleaseCurrentReservation(back, o)
  IN  Sets(done, o, [done.order[o] EXCEPT
        !.state = b.to, !.trail = {},
        !.policy = IF keep /\ done.order[o].reserveBool THEN "RESERVED" ELSE "NONE"])

\* Fault: the new warehouse and composition are written before the old are released.
UpdatedBeforeRelease(w, o, new, rolls) ==
  LET early == Sets(w, o, [w.order[o] EXCEPT !.warehouse = new.warehouse, !.comp = new.comp])
  IN  ReserveCorrectedComposition(ReleasePreviousComposition(early, o, Policy(w.order[o])), o)

\* A save: the old composition is released, the new one is reserved and, if it was
\* consumed and the order stays where it is, consumed.  rolls is at most one rollback.
Updated(w, o, new, rolls) ==
  LET ord == w.order[o]
      status == Policy(ord)
      flowChanged == new.flow # ord.flow
      released == /\ status \in {"RESERVED", "CONSUMED"}
                  /\ flowChanged \/ new.comp # ord.comp \/ new.warehouse # ord.warehouse
      clear == IF released THEN ReleasePreviousComposition(w, o, status) ELSE w
      kept == [clear.order[o] EXCEPT !.warehouse = new.warehouse, !.comp = new.comp]
      saved == Sets(clear, o, IF flowChanged
                                THEN [kept EXCEPT !.flow = new.flow, !.state = Flows[new.flow],
                                                  !.policy = "NONE", !.trail = {}]
                                ELSE kept)
      stays == ~flowChanged
      held == CASE stays /\ released                         -> ReserveCorrectedComposition(saved, o)
                [] stays /\ ~released /\ status = "RESERVED" -> ReconcileCurrentReservation(saved, o)
                [] OTHER                                     -> saved
  IN  CASE flowChanged                     -> Check(held, rolls = {})
        [] stays /\ rolls # {}             -> RollBack(held, o, CHOOSE b \in rolls : TRUE)
        [] stays /\ rolls = {} /\ released ->
             Check(IF status = "CONSUMED" THEN ConsumeCorrectedComposition(held, o) ELSE held, ord.active)
        [] OTHER                           -> held

-----------------------------------------------------------------------------
(* Transactions. *)

Becomes(w) == w.ok /\ order' = w.order /\ stock' = w.stock /\ UNCHANGED moved

Boundaries == {b.via : b \in Rollbacks}

\* A transition, by a user or automatic.
Advance(o, t) ==
  LET ord == order[o]
      placed == Sets(world, o, [ord EXCEPT !.warehouse = IF @ = None THEN t.assign ELSE @])
      done == Run(placed, o, t.plan)
  IN  /\ t.flow = ord.flow /\ ord.state \in t.from
      /\ Becomes(Sets(done, o, [done.order[o] EXCEPT
           !.state = t.to,
           !.replay = IF t.plan = <<>> THEN @ ELSE t.plan = <<"RESERVE">>,
           !.policy = StatusAfter(t.plan, @),
           !.trail = IF t.to \in Boundaries THEN @ \cup {<<t.to, ord.policy = "RESERVED">>} ELSE @]))

\* An edit, alone or with the client's transaction.
Update(o, new, rolls) ==
  (\A b \in rolls : CanRollBack(order[o], b)) /\ Becomes(Updated(world, o, new, rolls))

\* A corrected total, or a payment or date that changes, with the rollback it causes.
Correct(o, b) == CanRollBack(order[o], b) /\ Becomes(RollBack(world, o, b))

Deactivate(o) ==
  LET ord == order[o]
      back == IF ord.warehouse = None THEN world ELSE Restore(world, o, FALSE)
      done == IF Policy(ord) = "RESERVED" THEN Run(back, o, <<"REVERT">>) ELSE back
  IN  ord.active /\ Becomes(Sets(done, o, [done.order[o] EXCEPT !.active = FALSE]))

Reactivate(o) == ~order[o].active /\ Becomes(Sets(world, o, [order[o] EXCEPT !.active = TRUE]))

\* The whole import batch, with no look at its stock.
SetLoteActive(active) ==
  Lote # {} /\ Becomes([world EXCEPT !.order = [o \in Orders |->
    IF o \in Lote THEN [order[o] EXCEPT !.active = active] ELSE order[o]]])

RetryReservation(o) ==
  order[o].active /\ order[o].reserveBool /\ Becomes(Reconcile(world, o))

\* A document of another source takes units that are available, or brings some in.
Move(r, d) ==
  /\ stock[r].onHand + d <= MaxOnHand /\ (d < 0 => stock[r].onHand - stock[r].reserved >= -d)
  /\ stock' = [stock EXCEPT ![r].onHand = @ + d]
  /\ moved' = [moved EXCEPT ![r] = @ + d]
  /\ UNCHANGED order

Next ==
  \/ \E o \in Orders :
       \/ \E t \in Transitions : Advance(o, t)
       \/ \E new \in Edits[o], rolls \in {{}} \cup {{b} : b \in Rollbacks} : Update(o, new, rolls)
       \/ \E b \in Rollbacks : Correct(o, b)
       \/ Deactivate(o) \/ Reactivate(o) \/ RetryReservation(o)
  \/ \E active \in BOOLEAN : SetLoteActive(active)
  \/ \E r \in Rows, d \in {-1, 1} : Move(r, d)

Spec == Init /\ [][Next]_vars

-----------------------------------------------------------------------------
\* Stock is conserved over any sequence of operations: what is on hand is the
\* opening stock and what others brought in, less the OUT documents not reversed,
\* each at the warehouse that its units left.
StockConserved ==
  \A r \in Rows :
    stock[r].onHand + SumOver(Orders, [o \in Orders |-> Out(order[o])[r]]) = OnHand[r] + moved[r]

\* An order is consumed at most once at a time, as the composition and warehouse
\* that it has now, and is not reserved meanwhile.
ConsumedOnce ==
  \A o \in Orders : order[o].open # <<>> =>
    order[o].open = <<Needs(order[o])>> /\ ~order[o].reserveBool

\* The edit policy, which is read off the history, knows of every unit that an
\* order has reserved or consumed: no edit changes a composition without its stock.
PolicyCoversStock ==
  \A o \in Orders :
    /\ order[o].open # <<>> => Policy(order[o]) = "CONSUMED"
    /\ order[o].reserveBool => Policy(order[o]) = "RESERVED"

Exact == \A r \in Rows : stock[r].reserved = Expected(world, r)

\* The history claims no reservation that the order does not have, and no order
\* waits to consume what it has not reserved.
Honest(ord) ==
  /\ ord.replay => ord.reserveBool
  /\ \A t \in Transitions : t.plan = <<"CONSUME">> /\ t.flow = ord.flow /\ ord.state \in t.from => ord.reserveBool

\* The reserved column goes on being what the orders expect, in every step but a
\* change of activity of an order that stays marked, which nobody reconciles.
ReservedKept ==
  [][Exact /\ (\A o \in Orders : /\ Honest(order[o])
                                 /\ order'[o].active = order[o].active \/ ~order'[o].reserveBool)
     => Exact']_vars
===============================================================================
