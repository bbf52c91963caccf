----------------------------- MODULE OrderProofs -----------------------------
(***************************************************************************)
(* Sale orders and production orders.                                      *)
(*                                                                         *)
(* The stock of sale orders for any orders, warehouses, items, workflows,  *)
(* rollbacks and edits.                                                    *)
(*                                                                         *)
(* Each operator of SaleOrderStock takes a world to a world.  The lemmas   *)
(* named ...Is say what it leaves of the order and of the stock: Moves is  *)
(* the balance of a row between what is on hand and what is out for the    *)
(* order, and chains from one operator to the next.  The lemmas named      *)
(* ...Exact say the same of the reserved column, which follows what the    *)
(* order asks of it (Asks).  A transaction changes one order, so the sums  *)
(* over all orders change by its share only (SumUpdate).                   *)
(*                                                                         *)
(* Production orders for any orders, operations at once, recipes and       *)
(* faults.  That a started order is watched holds of all interleavings.    *)
(* That orders hold and post what they should is proved for operations     *)
(* that are alone with their order (OneAtATime): the invariant says, step  *)
(* by step, what an operation has done to its order so far (InStep), and   *)
(* that it leaves the order at rest if it throws before its first commit.  *)
(***************************************************************************)
EXTENDS SaleOrderStock, ProductionOrder, SumTheorems, TLAPS

\* What the operators rely on: types, as far as the arithmetic needs them.
Fields ==
  {"flow", "state", "active", "warehouse", "comp", "reserveBool", "replay", "policy", "trail", "open", "posted"}

IsOrder(ord) ==
  DOMAIN ord = Fields /\ ord.comp \in [StockItems -> Nat] /\ ord.reserveBool \in BOOLEAN /\ ord.active \in BOOLEAN

IsWorld(w) ==
  /\ DOMAIN w = {"order", "stock", "ok"} /\ DOMAIN w.order = Orders
  /\ \A p \in Orders : IsOrder(w.order[p])
  /\ w.stock \in [Rows -> [onHand : Int, reserved : Int]]

\* What an order has consumed is what it needs now, and it is not reserved as well.
AsItIs(ord) ==
  ord.open # <<>> => ord.open = <<Needs(ord)>> /\ ord.warehouse \in Warehouses

Settled(ord) == AsItIs(ord) /\ (ord.open # <<>> => ~ord.reserveBool)

\* The units of a row that are on hand or out for the order.
Total(w, o, r) == w.stock[r].onHand + Out(w.order[o])[r]

\* From w to v, units go in and out of the stock for the order only.
Moves(v, w, o) ==
  /\ IsWorld(v)
  /\ \A p \in Orders \ {o} : v.order[p] = w.order[p]
  /\ \A r \in Rows : Total(v, o, r) = Total(w, o, r)

\* The order stays what it is.
Same(v, w, o) ==
  /\ v.order[o].warehouse = w.order[o].warehouse
  /\ v.order[o].comp = w.order[o].comp
  /\ v.order[o].policy = w.order[o].policy
  /\ v.order[o].active = w.order[o].active

-----------------------------------------------------------------------------
\* What an order needs is a number of units for each row.
LEMMA NeedsType ==
  ASSUME NEW ord, IsOrder(ord)
  PROVE  Needs(ord) \in [Rows -> Nat]
<1>1. \A r \in Rows : r[2] \in StockItems
  BY DEF Rows
<1> QED BY <1>1 DEF Needs, IsOrder

\* So is what is out for it.
LEMMA OutType ==
  ASSUME NEW ord, IsOrder(ord), AsItIs(ord)
  PROVE  Out(ord) \in [Rows -> Nat]
<1>1. CASE ord.open = <<>>
  BY <1>1 DEF Out
<1>2. CASE ord.open # <<>>
  <2>1. ord.open = <<Needs(ord)>> /\ Needs(ord) \in [Rows -> Nat]
    BY <1>2, NeedsType DEF AsItIs
  <2> QED BY <2>1 DEF Out
<1> QED BY <1>1, <1>2

\* A document goes back where it came from.
LEMMA HereIs ==
  ASSUME NEW ord, IsOrder(ord), ord.warehouse \in Warehouses
  PROVE  Here(ord, Needs(ord)) = Needs(ord)
<1> SUFFICES ASSUME NEW r \in Rows, r[1] = ord.warehouse
             PROVE  SumOver(Warehouses, [x \in Warehouses |-> Needs(ord)[<<x, r[2]>>]]) = ord.comp[r[2]]
  BY Zenon DEF Here, Needs
<1> DEFINE h == ord.warehouse
           g == [x \in Warehouses |-> Needs(ord)[<<x, r[2]>>]]
           f == [x \in {h} |-> ord.comp[r[2]]]
<1>1. r[2] \in StockItems /\ ord.comp[r[2]] \in Nat
  BY DEF Rows, IsOrder
<1>2. \A x \in Warehouses : g[x] = IF x = h THEN ord.comp[r[2]] ELSE 0
  BY <1>1 DEF Needs, Rows
<1>3. {h} \in SUBSET Warehouses /\ IsFiniteSet(Warehouses) /\ IsFiniteSet({h}) /\ IsFiniteSet({})
  BY StockAssumption, FS_Singleton, FS_EmptySet
<1>4. \A x \in {h} : f[x] \in Int /\ g[x] = f[x]
  BY <1>1, <1>2
<1>5. \A x \in Warehouses \ {h} : g[x] = 0
  BY <1>2
<1>6. SumOver(Warehouses, g) = SumOver({h}, f)
  <2> HIDE DEF f, g
  <2> QED BY <1>3, <1>4, <1>5, SumWhere
<1>7. SumOver({h}, f) = f[h] + SumOver({h} \ {h}, f)
  <2> HIDE DEF f
  <2> QED BY <1>3, <1>4, SumRemove
<1>8. {h} \ {h} = {} /\ SumOver({}, f) = 0
  BY SumEmpty
<1>9. f[h] = ord.comp[r[2]]
  OBVIOUS
<1>10. SumOver({h}, f) = ord.comp[r[2]] + 0
  <2> HIDE DEF f, g, h
  <2> QED BY <1>7, <1>8, <1>9, Zenon
<1>11. SumOver(Warehouses, g) = ord.comp[r[2]]
  <2> HIDE DEF f, g, h
  <2> QED BY <1>1, <1>6, <1>10
<1> QED BY <1>11, Zenon

\* The sum of listExpected is a number.
LEMMA ExpectedType ==
  ASSUME NEW w, IsWorld(w), NEW r \in Rows
  PROVE  Expected(w, r) \in Int
<1> DEFINE f == [o \in Orders |-> Needs(w.order[o])[r]]
           S == {o \in Orders : w.order[o].reserveBool /\ w.order[o].active}
<1>1. \A o \in S : f[o] \in Int
  BY NeedsType DEF IsWorld
<1>2. IsFiniteSet(S)
  BY StockAssumption, FS_Subset
<1> HIDE DEF f, S
<1>3. SumOver(S, f) \in Int
  BY <1>1, <1>2, SumInt
<1> QED BY <1>3 DEF Expected, f, S

-----------------------------------------------------------------------------
\* A check changes nothing and, when it passes, what it checks holds.
LEMMA CheckIs ==
  ASSUME NEW w, IsWorld(w), NEW b
  PROVE  /\ IsWorld(Check(w, b))
         /\ Check(w, b).order = w.order /\ Check(w, b).stock = w.stock
         /\ Check(w, b).ok => b /\ w.ok
BY DEF Check, IsWorld

\* Writing an order's row changes that order only.
LEMMA SetsIs ==
  ASSUME NEW w, IsWorld(w), NEW o \in Orders, NEW new, IsOrder(new)
  PROVE  /\ IsWorld(Sets(w, o, new)) /\ Sets(w, o, new).stock = w.stock
         /\ Sets(w, o, new).order[o] = new
         /\ \A p \in Orders \ {o} : Sets(w, o, new).order[p] = w.order[p]
         /\ Sets(w, o, new).ok <=> w.ok
BY DEF Sets, IsWorld

\* Setting the reservation mark changes the mark only.
LEMMA MarkIs ==
  ASSUME NEW w, IsWorld(w), NEW o \in Orders, NEW b \in BOOLEAN
  PROVE  /\ IsWorld(SetReserveBool(w, o, b)) /\ SetReserveBool(w, o, b).stock = w.stock
         /\ SetReserveBool(w, o, b).order[o] = [w.order[o] EXCEPT !.reserveBool = b]
         /\ \A p \in Orders \ {o} : SetReserveBool(w, o, b).order[p] = w.order[p]
         /\ SetReserveBool(w, o, b).ok <=> w.ok
<1>1. IsOrder(w.order[o])
  BY DEF IsWorld
<1>2. IsOrder([w.order[o] EXCEPT !.reserveBool = b])
  BY <1>1 DEF IsOrder, Fields
<1>3. SetReserveBool(w, o, b) = Sets(w, o, [w.order[o] EXCEPT !.reserveBool = b])
  BY DEF SetReserveBool, Sets, IsWorld
<1> QED BY <1>2, <1>3, SetsIs

\* Reconciling touches the reserved column only.
LEMMA ReconcileIs ==
  ASSUME NEW w, IsWorld(w), NEW o \in Orders
  PROVE  /\ IsWorld(Reconcile(w, o)) /\ Reconcile(w, o).order = w.order
         /\ \A r \in Rows : Reconcile(w, o).stock[r].onHand = w.stock[r].onHand
         /\ \A r \in Rows : Reconcile(w, o).stock[r].reserved =
              IF r \in RowsOf(w.order[o]) THEN Expected(w, r) ELSE w.stock[r].reserved
         /\ Reconcile(w, o).ok => w.ok
<1> DEFINE new == [r \in Rows |->
             IF r \in RowsOf(w.order[o]) THEN [w.stock[r] EXCEPT !.reserved = Expected(w, r)] ELSE w.stock[r]]
           v == [w EXCEPT !.stock = new]
<1>1. \A r \in Rows :
        /\ new[r] \in [onHand : Int, reserved : Int] /\ new[r].onHand = w.stock[r].onHand
        /\ new[r].reserved = IF r \in RowsOf(w.order[o]) THEN Expected(w, r) ELSE w.stock[r].reserved
  BY ExpectedType DEF IsWorld
<1>2. v.order = w.order /\ v.stock = new /\ DOMAIN v = DOMAIN w /\ (v.ok => w.ok)
  BY DEF IsWorld
<1>3. new \in [Rows -> [onHand : Int, reserved : Int]]
  BY <1>1
<1>4. \E b : Reconcile(w, o) = Check(v, b)
  BY DEF Reconcile
<1> HIDE DEF v, new
<1>5. IsWorld(v)
  BY <1>2, <1>3 DEF IsWorld
<1> QED BY <1>1, <1>2, <1>4, <1>5, CheckIs

\* An increment adds to both columns, row by row.
LEMMA IncrementIs ==
  ASSUME NEW w, IsWorld(w), NEW hand \in [Rows -> Int], NEW booked \in [Rows -> Int]
  PROVE  /\ IsWorld(Increment(w, hand, booked)) /\ Increment(w, hand, booked).order = w.order
         /\ \A r \in Rows : Increment(w, hand, booked).stock[r].onHand = w.stock[r].onHand + hand[r]
         /\ \A r \in Rows : Increment(w, hand, booked).stock[r].reserved = w.stock[r].reserved + booked[r]
         /\ Increment(w, hand, booked).ok => w.ok
<1> DEFINE new == [r \in Rows |->
             [onHand |-> w.stock[r].onHand + hand[r], reserved |-> w.stock[r].reserved + booked[r]]]
           v == [w EXCEPT !.stock = new]
<1>1. \A r \in Rows : w.stock[r].onHand \in Int /\ w.stock[r].reserved \in Int
  BY DEF IsWorld
<1>2. /\ new \in [Rows -> [onHand : Int, reserved : Int]]
      /\ \A r \in Rows : new[r].onHand = w.stock[r].onHand + hand[r] /\ new[r].reserved = w.stock[r].reserved + booked[r]
  BY <1>1
<1>3. v.order = w.order /\ v.stock = new /\ DOMAIN v = DOMAIN w /\ (v.ok => w.ok)
  BY DEF IsWorld
<1>4. \E b : Increment(w, hand, booked) = Check(v, b)
  BY DEF Increment
<1> HIDE DEF v, new
<1>5. IsWorld(v)
  BY <1>2, <1>3 DEF IsWorld
<1> QED BY <1>2, <1>3, <1>4, <1>5, CheckIs

\* Multiples of units are units.
LEMMA ScaledType ==
  ASSUME NEW k \in Int, NEW units \in [Rows -> Int]
  PROVE  Scaled(k, units) \in [Rows -> Int]
<1>1. \A r \in Rows : k * units[r] \in Int
  OBVIOUS
<1> QED BY <1>1 DEF Scaled

-----------------------------------------------------------------------------
\* Ways to move no stock, and to move it twice.

\* Two moves of stock for one order are a move.
LEMMA MovesTwice ==
  ASSUME NEW v, NEW u, NEW w, NEW o \in Orders, Moves(v, u, o), Moves(u, w, o)
  PROVE  Moves(v, w, o)
BY DEF Moves

\* What changes neither orders nor on-hand is a move.
LEMMA StockStill ==
  ASSUME NEW v, NEW w, NEW o \in Orders, IsWorld(v), v.order = w.order,
         \A r \in Rows : v.stock[r].onHand = w.stock[r].onHand
  PROVE  Moves(v, w, o) /\ Same(v, w, o)
BY DEF Moves, Same, Total

\* Writing an order with the same OUT documents moves no stock.
LEMMA SetsStill ==
  ASSUME NEW w, IsWorld(w), NEW o \in Orders, NEW new, IsOrder(new), new.open = w.order[o].open
  PROVE  Moves(Sets(w, o, new), w, o)
BY SetsIs DEF Moves, Total, Out

\* Setting the mark moves no stock.
LEMMA MarkStill ==
  ASSUME NEW w, IsWorld(w), NEW o \in Orders, NEW b \in BOOLEAN
  PROVE  LET v == SetReserveBool(w, o, b) IN
         /\ Moves(v, w, o) /\ Same(v, w, o)
         /\ v.order[o].open = w.order[o].open /\ v.order[o].reserveBool = b
         /\ v.stock = w.stock /\ (v.ok <=> w.ok)
<1>1. IsOrder(w.order[o])
  BY DEF IsWorld
<1> DEFINE new == [w.order[o] EXCEPT !.reserveBool = b]
<1>2. /\ new.open = w.order[o].open /\ new.reserveBool = b
      /\ new.warehouse = w.order[o].warehouse /\ new.comp = w.order[o].comp /\ new.policy = w.order[o].policy
      /\ new.active = w.order[o].active
  BY <1>1 DEF IsOrder, Fields
<1> HIDE DEF new
<1>3. /\ IsWorld(SetReserveBool(w, o, b)) /\ SetReserveBool(w, o, b).stock = w.stock
      /\ SetReserveBool(w, o, b).order[o] = new
      /\ \A p \in Orders \ {o} : SetReserveBool(w, o, b).order[p] = w.order[p]
  BY MarkIs DEF new
<1>4. SetReserveBool(w, o, b).ok <=> w.ok
  BY MarkIs
<1> QED BY <1>2, <1>3, <1>4 DEF Moves, Same, Total, Out

\* A composition settled in one order is settled in one that needs the same.
LEMMA SettledAlike ==
  ASSUME NEW x, NEW y, AsItIs(x), y.open = x.open, y.warehouse = x.warehouse, y.comp = x.comp
  PROVE  AsItIs(y)
<1>1. Needs(y) = Needs(x)
  BY DEF Needs
<1> QED BY <1>1 DEF AsItIs

-----------------------------------------------------------------------------
\* The two operations that move stock.

\* A restoration brings the order's document back, where it came from, and marks the
\* order as reserved when it keeps the units.
LEMMA RestoreIs ==
  ASSUME NEW w, IsWorld(w), NEW o \in Orders, AsItIs(w.order[o]), NEW keep \in BOOLEAN
  PROVE  LET v == Restore(w, o, keep) IN
         /\ Moves(v, w, o) /\ Same(v, w, o)
         /\ v.order[o].open = <<>>
         /\ v.order[o].reserveBool = IF w.order[o].open = <<>> THEN w.order[o].reserveBool ELSE keep
         /\ \A r \in Rows : v.stock[r].reserved =
              w.stock[r].reserved + IF w.order[o].open # <<>> /\ keep THEN Needs(w.order[o])[r] ELSE 0
         /\ v.ok => w.order[o].warehouse # None
<1> DEFINE ord == w.order[o]
<1>0. IsOrder(ord)
  BY DEF IsWorld
<1>1. CASE ord.open = <<>>
  <2> DEFINE z == Check(w, ord.warehouse # None)
  <2>1. Restore(w, o, keep) = z
    BY <1>1 DEF Restore
  <2>2. IsWorld(z) /\ z.order = w.order /\ z.stock = w.stock /\ (z.ok => ord.warehouse # None)
    BY CheckIs
  <2> HIDE DEF z
  <2>3. Moves(z, w, o) /\ Same(z, w, o)
    BY <2>2, StockStill
  <2>4. \A r \in Rows : z.stock[r].reserved =
          w.stock[r].reserved + IF ord.open # <<>> /\ keep THEN Needs(ord)[r] ELSE 0
    <3>1. \A r \in Rows : w.stock[r].reserved \in Int
      BY DEF IsWorld
    <3> QED BY <1>1, <2>2, <3>1
  <2> QED BY <1>1, <2>1, <2>2, <2>3, <2>4
<1>2. CASE ord.open # <<>>
  <2> DEFINE new == [ord EXCEPT !.open = Tail(@), !.reserveBool = keep]
             u == Sets(w, o, new)
             units == Needs(ord)
             booked == Scaled(IF keep THEN 1 ELSE 0, units)
             v == Increment(u, units, booked)
  <2>1. ord.open = <<units>> /\ ord.warehouse \in Warehouses /\ units \in [Rows -> Nat]
    BY <1>0, <1>2, NeedsType DEF AsItIs
  <2>2. Head(ord.open) = units /\ Tail(ord.open) = <<>>
    BY <2>1
  <2>3. Here(ord, units) = units
    BY <1>0, <2>1, HereIs
  <2>4. IsOrder(new) /\ new.open = <<>> /\ new.reserveBool = keep /\ new.warehouse = ord.warehouse
        /\ new.comp = ord.comp /\ new.policy = ord.policy /\ new.active = ord.active
    BY <1>0, <2>2 DEF IsOrder, Fields
  <2>5. Restore(w, o, keep) = Check(v, ord.warehouse # None /\ Len(ord.open) = 1)
    BY <1>2, <2>2, <2>3 DEF Restore
  <2>6. booked \in [Rows -> Int] /\ units \in [Rows -> Int]
        /\ \A r \in Rows : booked[r] = IF keep THEN units[r] ELSE 0
    BY <2>1, ScaledType DEF Scaled
  <2> HIDE DEF new, booked, units
  <2>7. IsWorld(u) /\ u.stock = w.stock /\ u.order[o] = new /\ \A p \in Orders \ {o} : u.order[p] = w.order[p]
    BY <2>4, SetsIs
  <2> HIDE DEF u
  <2>8. /\ IsWorld(v) /\ v.order = u.order
        /\ \A r \in Rows : /\ v.stock[r].onHand = w.stock[r].onHand + units[r]
                           /\ v.stock[r].reserved = w.stock[r].reserved + booked[r]
    BY <2>6, <2>7, IncrementIs
  <2> HIDE DEF v
  <2>9. \A r \in Rows : Total(v, o, r) = Total(w, o, r)
    <3> TAKE r \in Rows
    <3>1. Out(v.order[o])[r] = 0 /\ Out(w.order[o])[r] = units[r]
      BY <1>2, <2>2, <2>4, <2>7, <2>8 DEF Out
    <3>2. w.stock[r].onHand \in Int /\ units[r] \in Int
      BY <2>6 DEF IsWorld
    <3> QED BY <2>8, <3>1, <3>2 DEF Total
  <2>10. Moves(v, w, o) /\ Same(v, w, o)
    BY <2>4, <2>7, <2>8, <2>9 DEF Moves, Same
  <2>11. \A r \in Rows : v.stock[r].reserved = w.stock[r].reserved + IF keep THEN units[r] ELSE 0
    BY <2>6, <2>8
  <2> DEFINE b == ord.warehouse # None /\ Len(ord.open) = 1
             z == Check(v, b)
  <2>12. IsWorld(z) /\ z.order = v.order /\ z.stock = v.stock /\ (z.ok => b)
    BY <2>8, CheckIs
  <2>13. Moves(z, w, o) /\ Same(z, w, o)
    <3> HIDE DEF z
    <3> QED BY <2>10, <2>12 DEF Moves, Same, Total
  <2>14. z.order[o].open = <<>> /\ z.order[o].reserveBool = keep
    BY <2>4, <2>7, <2>8, <2>12
  <2>15. \A r \in Rows : z.stock[r].reserved =
           w.stock[r].reserved + IF ord.open # <<>> /\ keep THEN Needs(ord)[r] ELSE 0
    <3> HIDE DEF z
    <3> QED BY <1>2, <2>11, <2>12 DEF units
  <2>16. Restore(w, o, keep) = z
    BY <2>5
  <2> HIDE DEF z
  <2> QED BY <1>2, <2>12, <2>13, <2>14, <2>15, <2>16
<1> QED BY <1>1, <1>2

\* A consumption takes out what the order needs, once.
LEMMA ConsumeIs ==
  ASSUME NEW w, IsWorld(w), NEW o \in Orders, AsItIs(w.order[o])
  PROVE  LET v == Consume(w, o) IN
         /\ Moves(v, w, o) /\ Same(v, w, o)
         /\ AsItIs(v.order[o]) /\ v.order[o].reserveBool = w.order[o].reserveBool
         /\ \A r \in Rows : v.stock[r].reserved =
              w.stock[r].reserved - IF w.order[o].open = <<>> THEN Needs(w.order[o])[r] ELSE 0
<1> DEFINE ord == w.order[o]
<1>0. IsOrder(ord)
  BY DEF IsWorld
<1>1. CASE RowsOf(ord) = {} \/ ord.open # <<>>
  <2>1. Consume(w, o) = w
    BY <1>1 DEF Consume
  <2>2. \A r \in Rows : w.stock[r].reserved \in Int
    BY DEF IsWorld
  <2>3. ord.open = <<>> => \A r \in Rows : Needs(ord)[r] = 0
    <3>1. Needs(ord) \in [Rows -> Nat]
      BY <1>0, NeedsType
    <3> QED BY <1>1, <3>1 DEF RowsOf
  <2>4. \A r \in Rows : w.stock[r].reserved = w.stock[r].reserved - IF ord.open = <<>> THEN Needs(ord)[r] ELSE 0
    BY <2>2, <2>3
  <2> QED BY <2>1, <2>4 DEF Moves, Same
<1>2. CASE RowsOf(ord) # {} /\ ord.open = <<>>
  <2> DEFINE units == Needs(ord)
             new == [ord EXCEPT !.open = <<units>>, !.posted = TRUE]
             u == Sets(w, o, new)
             less == Scaled(-1, units)
             v == Increment(u, less, less)
  <2>1. units \in [Rows -> Nat]
    BY <1>0, NeedsType
  <2>2. ord.warehouse \in Warehouses
    <3>1. PICK r \in Rows : Needs(ord)[r] > 0
      BY <1>2 DEF RowsOf
    <3>2. r[1] = ord.warehouse
      BY <3>1 DEF Needs
    <3> QED BY <3>2 DEF Rows
  <2>3. IsOrder(new) /\ new.open = <<units>> /\ new.reserveBool = ord.reserveBool /\ new.warehouse = ord.warehouse
        /\ new.comp = ord.comp /\ new.policy = ord.policy /\ new.active = ord.active
    BY <1>0 DEF IsOrder, Fields
  <2>4. Needs(new) = units
    BY <2>3 DEF Needs
  <2>5. Consume(w, o) = v
    BY <1>2 DEF Consume
  <2>6. less \in [Rows -> Int] /\ \A r \in Rows : less[r] = -1 * units[r]
    BY <2>1, ScaledType DEF Scaled
  <2> HIDE DEF new, units, less
  <2>7. IsWorld(u) /\ u.stock = w.stock /\ u.order[o] = new /\ \A p \in Orders \ {o} : u.order[p] = w.order[p]
    BY <2>3, SetsIs
  <2> HIDE DEF u
  <2>8. /\ IsWorld(v) /\ v.order = u.order
        /\ \A r \in Rows : /\ v.stock[r].onHand = w.stock[r].onHand + less[r]
                           /\ v.stock[r].reserved = w.stock[r].reserved + less[r]
    BY <2>6, <2>7, IncrementIs
  <2> HIDE DEF v
  <2>9. \A r \in Rows : Total(v, o, r) = Total(w, o, r)
    <3> TAKE r \in Rows
    <3>1. Out(v.order[o])[r] = units[r] /\ Out(w.order[o])[r] = 0
      BY <1>2, <2>3, <2>7, <2>8 DEF Out
    <3>2. w.stock[r].onHand \in Int /\ units[r] \in Int /\ less[r] = -1 * units[r]
      BY <2>1, <2>6 DEF IsWorld
    <3> QED BY <2>8, <3>1, <3>2 DEF Total
  <2>10. \A r \in Rows : v.stock[r].reserved = w.stock[r].reserved - units[r]
    <3> TAKE r \in Rows
    <3>1. w.stock[r].reserved \in Int /\ units[r] \in Int /\ less[r] = -1 * units[r]
      BY <2>1, <2>6 DEF IsWorld
    <3> QED BY <2>8, <3>1
  <2>11. Moves(v, w, o) /\ Same(v, w, o) /\ AsItIs(v.order[o]) /\ v.order[o].reserveBool = ord.reserveBool
    BY <2>2, <2>3, <2>4, <2>7, <2>8, <2>9 DEF Moves, Same, AsItIs
  <2>12. \A r \in Rows : v.stock[r].reserved = w.stock[r].reserved - IF ord.open = <<>> THEN Needs(ord)[r] ELSE 0
    BY <1>2, <2>10 DEF units
  <2>13. Consume(w, o) = v
    BY <2>5 DEF v
  <2> QED BY <2>11, <2>12, <2>13
<1> QED BY <1>1, <1>2

-----------------------------------------------------------------------------
\* The stock actions of a transition.

\* A REVERT leaves nothing out and no mark.
LEMMA RevertIs ==
  ASSUME NEW w, IsWorld(w), NEW o \in Orders, AsItIs(w.order[o])
  PROVE  LET v == Revert(w, o) IN
         /\ Moves(v, w, o) /\ Same(v, w, o)
         /\ v.order[o].open = <<>> /\ v.order[o].reserveBool = FALSE
<1> DEFINE ord == w.order[o]
           back == IF ord.warehouse = None THEN w ELSE Restore(w, o, FALSE)
           even == Reconcile(back, o)
           units == ReleaseUnits(even, o)
           less == Increment(even, Scaled(0, units), Scaled(-1, units))
           last == IF (ord.reserveBool \/ ord.replay) /\ ord.warehouse # None THEN less ELSE back
<1>1. Moves(back, w, o) /\ Same(back, w, o) /\ back.order[o].open = <<>>
  <2>1. CASE ord.warehouse = None
    BY <2>1, StockAssumption DEF Moves, Same, AsItIs
  <2>2. CASE ord.warehouse # None
    BY <2>2, RestoreIs
  <2> QED BY <2>1, <2>2
<1>2. Revert(w, o) = SetReserveBool(last, o, FALSE)
  BY DEF Revert
<1> HIDE DEF back
<1>3. IsWorld(even) /\ even.order = back.order /\ \A r \in Rows : even.stock[r].onHand = back.stock[r].onHand
  BY <1>1, ReconcileIs DEF Moves
<1> HIDE DEF even
<1>4. units \in [Rows -> Int]
  <2>1. Needs(even.order[o]) \in [Rows -> Nat]
    BY <1>3, NeedsType DEF IsWorld
  <2>2. \A r \in Rows : even.stock[r].reserved \in Int
    BY <1>3 DEF IsWorld
  <2> QED BY <2>1, <2>2 DEF ReleaseUnits
<1> HIDE DEF units
<1>5. Scaled(0, units) \in [Rows -> Int] /\ Scaled(-1, units) \in [Rows -> Int]
      /\ \A r \in Rows : Scaled(0, units)[r] = 0
  BY <1>4, ScaledType DEF Scaled
<1>6. IsWorld(less) /\ less.order = back.order /\ \A r \in Rows : less.stock[r].onHand = back.stock[r].onHand
  <2>1. IsWorld(less) /\ less.order = even.order
        /\ \A r \in Rows : less.stock[r].onHand = even.stock[r].onHand + Scaled(0, units)[r]
    BY <1>3, <1>5, IncrementIs
  <2>2. \A r \in Rows : even.stock[r].onHand \in Int
    BY <1>3 DEF IsWorld
  <2> HIDE DEF less
  <2> QED BY <1>3, <1>5, <2>1, <2>2
<1> HIDE DEF less
<1>7. Moves(less, back, o) /\ Same(less, back, o)
  BY <1>6, StockStill
<1>8. Moves(last, w, o) /\ Same(last, w, o) /\ last.order[o].open = <<>>
  BY <1>1, <1>6, <1>7, MovesTwice DEF Same
<1> HIDE DEF last
<1>9. LET v == SetReserveBool(last, o, FALSE) IN
      /\ Moves(v, last, o) /\ Same(v, last, o)
      /\ v.order[o].open = last.order[o].open /\ v.order[o].reserveBool = FALSE
  <2>1. IsWorld(last)
    BY <1>8 DEF Moves
  <2> QED BY <2>1, MarkStill
<1> QED BY <1>2, <1>8, <1>9, MovesTwice DEF Same

\* Reserving moves nothing out.
LEMMA PerformReserve ==
  ASSUME NEW w, IsWorld(w), NEW o \in Orders
  PROVE  LET v == Perform(w, o, "RESERVE") IN
         /\ Moves(v, w, o) /\ Same(v, w, o)
         /\ v.order[o].open = w.order[o].open /\ v.order[o].reserveBool = TRUE
         /\ \A r \in Rows : v.stock[r].reserved = w.stock[r].reserved + Needs(w.order[o])[r]
         /\ v.ok => w.ok
<1> DEFINE needs == Needs(w.order[o])
           u == Increment(w, Scaled(0, needs), needs)
<1>1. needs \in [Rows -> Int]
  <2>1. needs \in [Rows -> Nat]
    BY NeedsType DEF IsWorld
  <2> QED BY <2>1
<1>2. \E b : Perform(w, o, "RESERVE") = SetReserveBool(Check(u, b), o, TRUE)
  BY DEF Perform
<1> HIDE DEF needs
<1>3. Scaled(0, needs) \in [Rows -> Int] /\ \A r \in Rows : Scaled(0, needs)[r] = 0
  BY <1>1, ScaledType DEF Scaled
<1>4. /\ IsWorld(u) /\ u.order = w.order /\ (u.ok => w.ok)
      /\ \A r \in Rows : u.stock[r].onHand = w.stock[r].onHand /\ u.stock[r].reserved = w.stock[r].reserved + needs[r]
  <2>1. \A r \in Rows : w.stock[r].onHand \in Int
    BY DEF IsWorld
  <2>2. /\ IsWorld(u) /\ u.order = w.order /\ (u.ok => w.ok)
        /\ \A r \in Rows : /\ u.stock[r].onHand = w.stock[r].onHand + Scaled(0, needs)[r]
                           /\ u.stock[r].reserved = w.stock[r].reserved + needs[r]
    BY <1>1, <1>3, IncrementIs
  <2> HIDE DEF u
  <2> QED BY <1>3, <2>1, <2>2
<1> HIDE DEF u
<1>5. PICK b : Perform(w, o, "RESERVE") = SetReserveBool(Check(u, b), o, TRUE)
  BY <1>2
<1> DEFINE t == Check(u, b)
<1>6. /\ IsWorld(t) /\ t.order = w.order /\ (t.ok => w.ok)
      /\ \A r \in Rows : t.stock[r].onHand = w.stock[r].onHand /\ t.stock[r].reserved = w.stock[r].reserved + needs[r]
  BY <1>4, CheckIs
<1> HIDE DEF t
<1>7. Moves(t, w, o) /\ Same(t, w, o)
  BY <1>6, StockStill
<1> DEFINE v == SetReserveBool(t, o, TRUE)
<1>8. /\ Moves(v, t, o) /\ Same(v, t, o) /\ v.order[o].open = t.order[o].open /\ v.order[o].reserveBool = TRUE
      /\ v.stock = t.stock /\ (v.ok <=> t.ok)
  BY <1>6, MarkStill
<1>9. Perform(w, o, "RESERVE") = v
  BY <1>5 DEF t
<1> HIDE DEF v
<1> QED BY <1>6, <1>7, <1>8, <1>9, MovesTwice DEF Same, needs

\* A consumption and the removal of the mark settle the order.
LEMMA ConsumeUnmarked ==
  ASSUME NEW w, IsWorld(w), NEW o \in Orders, AsItIs(w.order[o]), NEW b
  PROVE  LET v == SetReserveBool(Check(Consume(w, o), b), o, FALSE) IN
         Moves(v, w, o) /\ Same(v, w, o) /\ Settled(v.order[o]) /\ v.order[o].reserveBool = FALSE
<1> DEFINE u == Consume(w, o)
           t == Check(u, b)
           v == SetReserveBool(t, o, FALSE)
<1>1. Moves(u, w, o) /\ Same(u, w, o) /\ AsItIs(u.order[o])
  BY ConsumeIs
<1> HIDE DEF u
<1>2. IsWorld(t) /\ t.order = u.order /\ t.stock = u.stock
  BY <1>1, CheckIs DEF Moves
<1> HIDE DEF t
<1>3. Moves(v, t, o) /\ Same(v, t, o) /\ v.order[o].open = t.order[o].open /\ v.order[o].reserveBool = FALSE
  BY <1>2, MarkStill
<1> HIDE DEF v
<1>4. Moves(t, u, o) /\ Same(t, u, o)
  BY <1>2, StockStill
<1>5. Moves(v, w, o) /\ Same(v, w, o)
  BY <1>1, <1>3, <1>4, MovesTwice DEF Same
<1>6. AsItIs(v.order[o])
  BY <1>1, <1>2, <1>3, SettledAlike DEF Same
<1>7. Moves(v, w, o) /\ Same(v, w, o) /\ Settled(v.order[o]) /\ v.order[o].reserveBool = FALSE
  BY <1>3, <1>5, <1>6 DEF Settled
<1> QED BY <1>7 DEF v, t, u

\* A list of stock actions other than one reversal or restoration reserves or consumes.
LEMMA PlanFacts ==
  ASSUME NEW plan \in Plans, plan \notin {<<>>, <<"REVERT">>, <<"RESTORE">>}
  PROVE  /\ Has(plan, "RESERVE") \/ Has(plan, "CONSUME")
         /\ ~Has(plan, "CONSUME") => plan = <<"RESERVE">>
<1>1. plan[1] = "RESERVE" \/ plan[1] = "CONSUME"
  BY DEF Plans
<1>2. 1 \in DOMAIN plan
  BY DEF Plans
<1>3. Has(<<"CONSUME">>, "CONSUME") /\ Has(<<"RESERVE", "CONSUME">>, "CONSUME")
  <2>1. <<"CONSUME">>[1] = "CONSUME" /\ <<"RESERVE", "CONSUME">>[2] = "CONSUME"
        /\ 1 \in DOMAIN <<"CONSUME">> /\ 2 \in DOMAIN <<"RESERVE", "CONSUME">>
    OBVIOUS
  <2> QED BY <2>1 DEF Has
<1> QED BY <1>1, <1>2, <1>3 DEF Has, Plans

\* RESERVE and CONSUME: what is out afterwards was consumed now, or before.
LEMMA ActIs ==
  ASSUME NEW w, IsWorld(w), NEW o \in Orders, Settled(w.order[o]), NEW plan,
         Has(plan, "RESERVE") \/ Has(plan, "CONSUME")
  PROVE  LET v == Act(w, o, plan) IN
         /\ Moves(v, w, o) /\ Same(v, w, o)
         /\ v.ok /\ v.order[o].reserveBool => w.order[o].reserveBool \/ w.order[o].warehouse # None
         /\ (Has(plan, "RESERVE") => w.order[o].open = <<>>) =>
              /\ Settled(v.order[o])
              /\ v.order[o].open # <<>> => Has(plan, "CONSUME")
              /\ v.order[o].reserveBool => ~Has(plan, "CONSUME")
<1> DEFINE ord == w.order[o]
           reserves == Has(plan, "RESERVE") /\ ~ord.reserveBool
           consumes == Has(plan, "CONSUME") /\ ord.open = <<>>
           even == Check(Reconcile(w, o), ord.warehouse # None)
           first == IF reserves THEN Perform(even, o, "RESERVE") ELSE even
           Goal(v) == /\ Moves(v, w, o) /\ Same(v, w, o)
                      /\ v.ok /\ v.order[o].reserveBool => ord.reserveBool \/ ord.warehouse # None
                      /\ (Has(plan, "RESERVE") => ord.open = <<>>) =>
                           /\ Settled(v.order[o])
                           /\ v.order[o].open # <<>> => Has(plan, "CONSUME")
                           /\ v.order[o].reserveBool => ~Has(plan, "CONSUME")
<1>0. AsItIs(ord)
  BY DEF Settled
<1>1. /\ IsWorld(even) /\ even.order = w.order /\ \A r \in Rows : even.stock[r].onHand = w.stock[r].onHand
      /\ even.ok => ord.warehouse # None
  <2> DEFINE t == Reconcile(w, o)
  <2>1. IsWorld(t) /\ t.order = w.order /\ \A r \in Rows : t.stock[r].onHand = w.stock[r].onHand
    BY ReconcileIs
  <2> HIDE DEF t
  <2>2. /\ IsWorld(Check(t, ord.warehouse # None)) /\ Check(t, ord.warehouse # None).order = t.order
        /\ Check(t, ord.warehouse # None).stock = t.stock
        /\ Check(t, ord.warehouse # None).ok => ord.warehouse # None
    BY <2>1, CheckIs
  <2> QED BY <2>1, <2>2 DEF t
<1>2. Moves(even, w, o) /\ Same(even, w, o)
  BY <1>1, StockStill
<1>3. Act(w, o, plan) = CASE consumes -> Perform(first, o, "CONSUME")
                          [] reserves /\ ~consumes -> first
                          [] OTHER -> SetReserveBool(w, o, ord.reserveBool /\ ~Has(plan, "CONSUME"))
  BY DEF Act
<1> HIDE DEF even
<1>4. Moves(first, w, o) /\ Same(first, w, o) /\ first.order[o].open = ord.open
      /\ (first.ok => ord.warehouse # None)
  <2>1. CASE reserves
    <3> DEFINE v == Perform(even, o, "RESERVE")
    <3>1. first = v
      BY <2>1
    <3>2. Moves(v, even, o) /\ Same(v, even, o) /\ v.order[o].open = even.order[o].open /\ (v.ok => even.ok)
      BY <1>1, PerformReserve
    <3> HIDE DEF v, first
    <3>3. Moves(v, w, o) /\ Same(v, w, o)
      BY <1>2, <3>2, MovesTwice DEF Same
    <3> QED BY <1>1, <3>1, <3>2, <3>3
  <2>2. CASE ~reserves
    BY <1>1, <1>2, <2>2
  <2> QED BY <2>1, <2>2
<1> HIDE DEF first
<1>5. CASE consumes
  <2>1. \E b : Perform(first, o, "CONSUME") = SetReserveBool(Check(Consume(first, o), b), o, FALSE)
    BY DEF Perform
  <2>2. PICK b : Perform(first, o, "CONSUME") = SetReserveBool(Check(Consume(first, o), b), o, FALSE)
    BY <2>1
  <2>3. IsWorld(first) /\ AsItIs(first.order[o])
    BY <1>0, <1>4, SettledAlike DEF Moves, Same
  <2>4. LET v == Perform(first, o, "CONSUME") IN
        Moves(v, first, o) /\ Same(v, first, o) /\ Settled(v.order[o]) /\ v.order[o].reserveBool = FALSE
    BY <2>2, <2>3, ConsumeUnmarked
  <2>5. Goal(Perform(first, o, "CONSUME"))
    BY <1>4, <1>5, <2>4, MovesTwice DEF Same
  <2> QED BY <1>3, <1>5, <2>5
<1>6. CASE reserves /\ ~consumes
  <2>1. (Has(plan, "RESERVE") => ord.open = <<>>) => first.order[o].open = <<>>
    BY <1>4, <1>6
  <2>2. Goal(first)
    BY <1>4, <1>6, <2>1 DEF Settled, AsItIs
  <2> QED BY <1>3, <1>6, <2>2
<1>7. CASE ~reserves /\ ~consumes
  <2> DEFINE m == ord.reserveBool /\ ~Has(plan, "CONSUME")
             v == SetReserveBool(w, o, m)
  <2>1. Act(w, o, plan) = v
    BY <1>3, <1>7
  <2>2. m \in BOOLEAN
    OBVIOUS
  <2>3. Moves(v, w, o) /\ Same(v, w, o) /\ v.order[o].open = ord.open /\ v.order[o].reserveBool = m
    <3> HIDE DEF m
    <3> QED BY <2>2, MarkStill
  <2>4. AsItIs(v.order[o])
    BY <1>0, <2>3, SettledAlike DEF Same
  <2>5. (Has(plan, "RESERVE") => ord.open = <<>>) =>
          (v.order[o].open # <<>> => Has(plan, "CONSUME") /\ ~m)
    BY <2>3
  <2>6. Goal(v)
    BY <2>3, <2>4, <2>5 DEF Settled
  <2> QED BY <2>1, <2>6
<1> QED BY <1>5, <1>6, <1>7

\* The stock actions of any transition: the order stays settled, and is marked only if it
\* was, or has just been reserved in a warehouse.
LEMMA RunIs ==
  ASSUME NEW w, IsWorld(w), NEW o \in Orders, Settled(w.order[o]), NEW plan \in Plans
  PROVE  LET v == Run(w, o, plan) IN
         /\ IsWorld(v)
         /\ v.ok => /\ Moves(v, w, o) /\ Same(v, w, o) /\ Settled(v.order[o])
                    /\ v.order[o].open # <<>> =>
                         (plan = <<>> /\ w.order[o].open # <<>>) \/ Has(plan, "CONSUME")
                    /\ v.order[o].reserveBool =>
                         \/ plan \in {<<>>, <<"RESTORE">>} /\ w.order[o].reserveBool
                         \/ plan = <<"RESERVE">> /\ (w.order[o].reserveBool \/ w.order[o].warehouse # None)
<1> DEFINE Goal(v) == /\ Moves(v, w, o) /\ Same(v, w, o) /\ Settled(v.order[o])
                      /\ v.order[o].open # <<>> => (plan = <<>> /\ w.order[o].open # <<>>) \/ Has(plan, "CONSUME")
                      /\ v.ok /\ v.order[o].reserveBool =>
                           \/ plan \in {<<>>, <<"RESTORE">>} /\ w.order[o].reserveBool
                           \/ plan = <<"RESERVE">> /\ (w.order[o].reserveBool \/ w.order[o].warehouse # None)
           All == IsWorld(Run(w, o, plan)) /\ (Run(w, o, plan).ok => Goal(Run(w, o, plan)))
<1>0. AsItIs(w.order[o])
  BY DEF Settled
<1>1. ASSUME NEW u, NEW b, Goal(u), Run(w, o, plan) = Check(u, b) PROVE All
  <2>1. IsWorld(Check(u, b)) /\ Check(u, b).order = u.order /\ Check(u, b).stock = u.stock
        /\ (Check(u, b).ok => u.ok)
    BY <1>1, CheckIs DEF Moves
  <2>2. Goal(Check(u, b))
    BY <1>1, <2>1 DEF Moves, Same, Total
  <2> QED BY <1>1, <2>1, <2>2
<1>2. CASE plan = <<>>
  <2>1. Run(w, o, plan) = Check(w, w.order[o].active)
    BY <1>2 DEF Run
  <2>2. Goal(w)
    BY <1>2 DEF Moves, Same
  <2> QED BY <1>1, <2>1, <2>2
<1>3. CASE plan = <<"REVERT">>
  <2>1. \E b : Run(w, o, plan) = Check(Revert(w, o), b)
    BY <1>3 DEF Run
  <2>2. Goal(Revert(w, o))
    BY <1>0, RevertIs DEF Settled, AsItIs
  <2> QED BY <1>1, <2>1, <2>2
<1>4. CASE plan = <<"RESTORE">>
  <2>1. \E b : Run(w, o, plan) = Check(Restore(w, o, FALSE), b)
    BY <1>4 DEF Run
  <2>2. Goal(Restore(w, o, FALSE))
    BY <1>0, <1>4, RestoreIs DEF Settled, AsItIs
  <2> QED BY <1>1, <2>1, <2>2
<1>5. CASE plan \notin {<<>>, <<"REVERT">>, <<"RESTORE">>}
  <2>1. Run(w, o, plan) = Check(Act(w, o, plan), ~Conflict(w, o, plan))
    BY <1>5 DEF Run
  <2>2. /\ IsWorld(Act(w, o, plan))
        /\ (Has(plan, "RESERVE") => w.order[o].open = <<>>) => Goal(Act(w, o, plan))
    <3> DEFINE v == Act(w, o, plan)
    <3>1. /\ Has(plan, "RESERVE") \/ Has(plan, "CONSUME")
          /\ ~Has(plan, "CONSUME") => plan = <<"RESERVE">>
      BY <1>5, PlanFacts
    <3>2. /\ Moves(v, w, o) /\ Same(v, w, o)
          /\ v.ok /\ v.order[o].reserveBool => w.order[o].reserveBool \/ w.order[o].warehouse # None
          /\ (Has(plan, "RESERVE") => w.order[o].open = <<>>) =>
               /\ Settled(v.order[o])
               /\ v.order[o].open # <<>> => Has(plan, "CONSUME")
               /\ v.order[o].reserveBool => ~Has(plan, "CONSUME")
      BY <3>1, ActIs
    <3> HIDE DEF v
    <3>3. IsWorld(v) /\ ((Has(plan, "RESERVE") => w.order[o].open = <<>>) => Goal(v))
      BY <3>1, <3>2 DEF Moves
    <3> QED BY <3>3 DEF v
  <2>3. CASE Conflict(w, o, plan)
    <3> DEFINE t == Act(w, o, plan)
    <3> HIDE DEF t
    <3>1. IsWorld(Check(t, ~Conflict(w, o, plan)))
          /\ (Check(t, ~Conflict(w, o, plan)).ok => ~Conflict(w, o, plan))
      BY <2>2, CheckIs DEF t
    <3>2. Run(w, o, plan) = Check(t, ~Conflict(w, o, plan))
      BY <2>1 DEF t
    <3> QED BY <2>3, <3>1, <3>2
  <2>4. CASE ~Conflict(w, o, plan)
    <3>1. Goal(Act(w, o, plan))
      BY <2>2, <2>4 DEF Conflict
    <3> QED BY <1>1, <2>1, <3>1
  <2> QED BY <2>3, <2>4
<1> QED BY <1>2, <1>3, <1>4, <1>5

-----------------------------------------------------------------------------
\* Corrections.

\* Releasing a reservation clears the mark and moves no unit.
LEMMA UnreserveIs ==
  ASSUME NEW w, IsWorld(w), NEW o \in Orders
  PROVE  LET v == Unreserve(w, o) IN
         /\ Moves(v, w, o) /\ Same(v, w, o)
         /\ v.order[o].open = w.order[o].open /\ v.order[o].reserveBool = FALSE
<1> DEFINE u == SetReserveBool(w, o, FALSE)
           v == Reconcile(u, o)
<1>1. /\ Moves(u, w, o) /\ Same(u, w, o)
      /\ u.order[o].open = w.order[o].open /\ u.order[o].reserveBool = FALSE
  BY MarkStill
<1>2. Unreserve(w, o) = v
  BY DEF Unreserve
<1> HIDE DEF u
<1>3. IsWorld(v) /\ v.order = u.order /\ \A r \in Rows : v.stock[r].onHand = u.stock[r].onHand
  BY <1>1, ReconcileIs DEF Moves
<1> HIDE DEF v
<1>4. Moves(v, u, o) /\ Same(v, u, o)
  BY <1>3, StockStill
<1> QED BY <1>1, <1>2, <1>3, <1>4, MovesTwice DEF Same

\* The old composition is released, and brought back if the policy says it was consumed.
LEMMA ReleasePreviousIs ==
  ASSUME NEW w, IsWorld(w), NEW o \in Orders, AsItIs(w.order[o]), NEW stockStatus
  PROVE  LET v == ReleasePreviousComposition(w, o, stockStatus) IN
         /\ Moves(v, w, o) /\ Same(v, w, o) /\ v.order[o].reserveBool = FALSE
         /\ w.order[o].open = <<>> \/ stockStatus = "CONSUMED" => v.order[o].open = <<>>
<1>1. CASE stockStatus = "CONSUMED"
  <2>1. \E b : ReleasePreviousComposition(w, o, stockStatus) = Unreserve(Check(Restore(w, o, TRUE), b), o)
    BY <1>1 DEF ReleasePreviousComposition
  <2>2. PICK b : ReleasePreviousComposition(w, o, stockStatus) = Unreserve(Check(Restore(w, o, TRUE), b), o)
    BY <2>1
  <2> DEFINE u == Restore(w, o, TRUE)
             t == Check(u, b)
             v == Unreserve(t, o)
  <2>3. Moves(u, w, o) /\ Same(u, w, o) /\ u.order[o].open = <<>>
    BY RestoreIs
  <2> HIDE DEF u
  <2>4. IsWorld(t) /\ t.order = u.order /\ t.stock = u.stock
    BY <2>3, CheckIs DEF Moves
  <2> HIDE DEF t
  <2>5. Moves(t, u, o) /\ Same(t, u, o)
    BY <2>4, StockStill
  <2>6. /\ Moves(v, t, o) /\ Same(v, t, o)
        /\ v.order[o].open = t.order[o].open /\ v.order[o].reserveBool = FALSE
    BY <2>4, UnreserveIs
  <2>7. ReleasePreviousComposition(w, o, stockStatus) = v
    BY <2>2 DEF u, t
  <2> HIDE DEF v
  <2> QED BY <2>3, <2>4, <2>5, <2>6, <2>7, MovesTwice DEF Same
<1>2. CASE stockStatus # "CONSUMED"
  <2> DEFINE t == Check(w, w.order[o].warehouse # None)
             v == Unreserve(t, o)
  <2>1. ReleasePreviousComposition(w, o, stockStatus) = v
    BY <1>2 DEF ReleasePreviousComposition
  <2>2. IsWorld(t) /\ t.order = w.order /\ t.stock = w.stock
    BY CheckIs
  <2> HIDE DEF t
  <2>3. Moves(t, w, o) /\ Same(t, w, o)
    BY <2>2, StockStill
  <2>4. /\ Moves(v, t, o) /\ Same(v, t, o)
        /\ v.order[o].open = t.order[o].open /\ v.order[o].reserveBool = FALSE
    BY <2>2, UnreserveIs
  <2> HIDE DEF v
  <2> QED BY <1>2, <2>1, <2>2, <2>3, <2>4, MovesTwice DEF Same
<1> QED BY <1>1, <1>2

\* Reserving a corrected composition sets the mark and moves no unit.
LEMMA ReserveCorrectedIs ==
  ASSUME NEW w, IsWorld(w), NEW o \in Orders
  PROVE  LET v == ReserveCorrectedComposition(w, o) IN
         Moves(v, w, o) /\ Same(v, w, o) /\ v.order[o].open = w.order[o].open /\ v.order[o].reserveBool = TRUE
<1> DEFINE t == Check(w, w.order[o].warehouse # None)
           u == SetReserveBool(t, o, TRUE)
           v == Reconcile(u, o)
<1>1. ReserveCorrectedComposition(w, o) = v
  BY DEF ReserveCorrectedComposition
<1>2. IsWorld(t) /\ t.order = w.order /\ t.stock = w.stock
  BY CheckIs
<1> HIDE DEF t
<1>3. Moves(t, w, o) /\ Same(t, w, o)
  BY <1>2, StockStill
<1>4. Moves(u, t, o) /\ Same(u, t, o) /\ u.order[o].open = t.order[o].open /\ u.order[o].reserveBool = TRUE
  BY <1>2, MarkStill
<1> HIDE DEF u
<1>5. IsWorld(v) /\ v.order = u.order /\ \A r \in Rows : v.stock[r].onHand = u.stock[r].onHand
  BY <1>4, ReconcileIs DEF Moves
<1> HIDE DEF v
<1>6. Moves(v, u, o) /\ Same(v, u, o)
  BY <1>5, StockStill
<1>7. Moves(u, w, o) /\ Same(u, w, o)
  BY <1>3, <1>4, MovesTwice DEF Same
<1> QED BY <1>1, <1>2, <1>4, <1>5, <1>6, <1>7, MovesTwice DEF Same

\* Reconciling the reserved column leaves the orders as they are.
LEMMA ReconcileCurrentIs ==
  ASSUME NEW w, IsWorld(w), NEW o \in Orders
  PROVE  LET v == ReconcileCurrentReservation(w, o) IN
         Moves(v, w, o) /\ v.order = w.order
<1>1. CASE w.order[o].reserveBool
  <2>1. ReconcileCurrentReservation(w, o) = Reconcile(w, o)
    BY <1>1 DEF ReconcileCurrentReservation
  <2> QED BY <2>1, ReconcileIs, StockStill
<1>2. CASE ~w.order[o].reserveBool
  BY <1>2 DEF ReconcileCurrentReservation, Moves
<1> QED BY <1>1, <1>2

\* Releasing the current reservation clears the mark and moves no unit.
LEMMA ReleaseCurrentIs ==
  ASSUME NEW w, IsWorld(w), NEW o \in Orders
  PROVE  LET v == ReleaseCurrentReservation(w, o) IN
         /\ Moves(v, w, o) /\ Same(v, w, o)
         /\ v.order[o].open = w.order[o].open /\ ~v.order[o].reserveBool
<1>1. CASE w.order[o].reserveBool
  BY <1>1, UnreserveIs DEF ReleaseCurrentReservation
<1>2. CASE ~w.order[o].reserveBool
  BY <1>2 DEF ReleaseCurrentReservation, Moves, Same
<1> QED BY <1>1, <1>2

\* Consuming a corrected composition leaves the order settled and not reserved.
LEMMA ConsumeCorrectedIs ==
  ASSUME NEW w, IsWorld(w), NEW o \in Orders, AsItIs(w.order[o])
  PROVE  LET v == ConsumeCorrectedComposition(w, o) IN
         Moves(v, w, o) /\ Same(v, w, o) /\ Settled(v.order[o]) /\ v.order[o].reserveBool = FALSE
<1> DEFINE t == Reconcile(w, o)
           u == Consume(t, o)
           v == SetReserveBool(u, o, FALSE)
<1>1. ConsumeCorrectedComposition(w, o) = v
  BY DEF ConsumeCorrectedComposition
<1>2. IsWorld(t) /\ t.order = w.order /\ \A r \in Rows : t.stock[r].onHand = w.stock[r].onHand
  BY ReconcileIs
<1> HIDE DEF t
<1>3. Moves(t, w, o) /\ Same(t, w, o)
  BY <1>2, StockStill
<1>4. Moves(u, t, o) /\ Same(u, t, o) /\ AsItIs(u.order[o])
  BY <1>2, ConsumeIs
<1> HIDE DEF u
<1>5. Moves(v, u, o) /\ Same(v, u, o) /\ v.order[o].open = u.order[o].open /\ v.order[o].reserveBool = FALSE
  <2>1. IsWorld(u)
    BY <1>4 DEF Moves
  <2> QED BY <2>1, MarkStill
<1> HIDE DEF v
<1>6. AsItIs(v.order[o])
  BY <1>4, <1>5, SettledAlike DEF Same
<1>7. Moves(u, w, o) /\ Same(u, w, o)
  BY <1>3, <1>4, MovesTwice DEF Same
<1> QED BY <1>1, <1>5, <1>6, <1>7, MovesTwice DEF Same, Settled

\* What the edit policy knows of an order that is marked.
Covers(ord) == ord.reserveBool => ord.policy = "RESERVED" /\ ord.warehouse # None

\* A rollback leaves nothing out.
LEMMA RollBackIs ==
  ASSUME NEW w, IsWorld(w), NEW o \in Orders, AsItIs(w.order[o]), NEW b
  PROVE  LET v == RollBack(w, o, b) IN Moves(v, w, o) /\ v.order[o].open = <<>> /\ (v.ok => Covers(v.order[o]))
<1> DEFINE keep == Keeps(w.order[o], b)
           back == Restore(w, o, keep)
           done == IF keep THEN back ELSE ReleaseCurrentReservation(back, o)
           new == [done.order[o] EXCEPT
                    !.state = b.to, !.trail = {},
                    !.policy = IF keep /\ done.order[o].reserveBool THEN "RESERVED" ELSE "NONE"]
           v == Sets(done, o, new)
<1>1. RollBack(w, o, b) = v
  BY DEF RollBack
<1>2. keep \in BOOLEAN
  BY DEF Keeps
<1> HIDE DEF keep
<1>3. Moves(back, w, o) /\ back.order[o].open = <<>> /\ (back.ok => back.order[o].warehouse # None)
  BY <1>2, RestoreIs DEF Same
<1> HIDE DEF back
<1>4. /\ Moves(done, w, o) /\ done.order[o].open = <<>> /\ (done.order[o].reserveBool => keep)
      /\ done.ok /\ done.order[o].reserveBool => done.order[o].warehouse # None
  <2>1. CASE keep
    BY <1>3, <2>1
  <2>2. CASE ~keep
    <3>1. Moves(ReleaseCurrentReservation(back, o), back, o)
          /\ ReleaseCurrentReservation(back, o).order[o].open = <<>>
          /\ ~ReleaseCurrentReservation(back, o).order[o].reserveBool
      BY <1>3, ReleaseCurrentIs DEF Moves
    <3> QED BY <1>3, <2>2, <3>1, MovesTwice
  <2> QED BY <2>1, <2>2
<1> HIDE DEF done
<1>5. IsOrder(done.order[o])
  BY <1>4 DEF Moves, IsWorld
<1>6. IsOrder(new) /\ new.open = <<>> /\ (done.ok => Covers(new))
  BY <1>4, <1>5 DEF IsOrder, Fields, Covers
<1> HIDE DEF new
<1>7. IsWorld(done)
  BY <1>4 DEF Moves
<1>8. Moves(v, done, o) /\ v.order[o] = new /\ (v.ok => done.ok)
  BY <1>4, <1>6, <1>7, SetsStill, SetsIs
<1> HIDE DEF v
<1> QED BY <1>1, <1>4, <1>6, <1>8, MovesTwice

\* What the edit policy knows of an order that has stock out.
Known(ord) == Settled(ord) /\ (ord.open # <<>> => ord.policy = "CONSUMED")

-----------------------------------------------------------------------------
\* The reserved column, row by row.

\* What the orders expect of a row is the sum of what each asks of it.
Asks(ord, r) == IF ord.reserveBool /\ ord.active THEN Needs(ord)[r] ELSE 0

ExactAt(w, r) == w.stock[r].reserved = Expected(w, r)
Exactly(w) == \A r \in Rows : ExactAt(w, r)

\* Wrong at most where a reconciliation of the order writes.
Elsewhere(w, o) == \A r \in Rows \ RowsOf(w.order[o]) : ExactAt(w, r)

\* What an order asks of the reserved column is an amount.
LEMMA AsksType ==
  ASSUME NEW ord, IsOrder(ord), NEW r \in Rows
  PROVE  Asks(ord, r) \in Nat
BY NeedsType DEF Asks

\* The expected units of a row are the sum of what each order asks of it.
LEMMA ExpectedSum ==
  ASSUME NEW w, IsWorld(w), NEW r \in Rows
  PROVE  Expected(w, r) = SumOver(Orders, [p \in Orders |-> Asks(w.order[p], r)])
<1> DEFINE f == [p \in Orders |-> Needs(w.order[p])[r]]
           g == [p \in Orders |-> Asks(w.order[p], r)]
           S == {p \in Orders : w.order[p].reserveBool /\ w.order[p].active}
<1>1. \A p \in S : f[p] \in Int /\ g[p] = f[p]
  BY NeedsType DEF IsWorld, Asks
<1>2. \A p \in Orders \ S : g[p] = 0
  BY DEF Asks
<1>3. S \in SUBSET Orders /\ IsFiniteSet(Orders)
  BY StockAssumption
<1>4. Expected(w, r) = SumOver(S, f)
  BY DEF Expected
<1> HIDE DEF f, g, S
<1>5. SumOver(Orders, g) = SumOver(S, f)
  BY <1>1, <1>2, <1>3, SumWhere
<1> QED BY <1>4, <1>5 DEF g

\* The orders expect at least what each of them asks.
LEMMA ExpectedAtLeast ==
  ASSUME NEW w, IsWorld(w), NEW o \in Orders, NEW r \in Rows
  PROVE  Asks(w.order[o], r) <= Expected(w, r)
<1> DEFINE g == [p \in Orders |-> Asks(w.order[p], r)]
<1>1. \A p \in Orders : g[p] \in Nat
  BY AsksType DEF IsWorld
<1>2. IsFiniteSet(Orders) /\ IsFiniteSet(Orders \ {o})
  BY StockAssumption, FS_Subset
<1>3. Expected(w, r) = SumOver(Orders, g) /\ g[o] = Asks(w.order[o], r)
  BY ExpectedSum
<1> HIDE DEF g
<1>4. SumOver(Orders, g) = g[o] + SumOver(Orders \ {o}, g)
  BY <1>1, <1>2, SumRemove
<1>5. SumOver(Orders \ {o}, g) \in Nat
  BY <1>1, <1>2, SumNat
<1>6. g[o] \in Nat
  BY <1>1
<1> QED BY <1>3, <1>4, <1>5, <1>6

\* When one order changes, so does what it asks.
LEMMA ExpectedMoves ==
  ASSUME NEW w, IsWorld(w), NEW v, IsWorld(v), NEW o \in Orders, NEW r \in Rows,
         \A p \in Orders \ {o} : v.order[p] = w.order[p]
  PROVE  /\ Expected(v, r) = Expected(w, r) - Asks(w.order[o], r) + Asks(v.order[o], r)
         /\ Expected(w, r) \in Int /\ Asks(w.order[o], r) \in Int /\ Asks(v.order[o], r) \in Int
<1> DEFINE f == [p \in Orders |-> Asks(w.order[p], r)]
           g == [p \in Orders |-> Asks(v.order[p], r)]
<1>1. \A p \in Orders : f[p] \in Int /\ g[p] \in Int
  BY AsksType DEF IsWorld
<1>2. \A p \in Orders \ {o} : g[p] = f[p]
  OBVIOUS
<1>3. /\ Expected(w, r) = SumOver(Orders, f) /\ f[o] = Asks(w.order[o], r)
      /\ Expected(v, r) = SumOver(Orders, g) /\ g[o] = Asks(v.order[o], r)
  BY ExpectedSum
<1> HIDE DEF f, g
<1>4. IsFiniteSet(Orders)
  BY StockAssumption
<1>5. SumOver(Orders, g) = SumOver(Orders, f) - f[o] + g[o]
  BY <1>1, <1>2, <1>4, SumUpdate
<1>6. f[o] \in Int /\ g[o] \in Int
  BY <1>1
<1>7. Expected(w, r) \in Int
  BY ExpectedType
<1> QED BY <1>3, <1>5, <1>6, <1>7

\* A row stays exact when its units change by what the order asks.
LEMMA RowKept ==
  ASSUME NEW w, IsWorld(w), NEW v, IsWorld(v), NEW o \in Orders, NEW r \in Rows,
         \A p \in Orders \ {o} : v.order[p] = w.order[p], ExactAt(w, r),
         v.stock[r].reserved = w.stock[r].reserved + Asks(v.order[o], r) - Asks(w.order[o], r)
  PROVE  ExactAt(v, r)
<1>1. /\ Expected(v, r) = Expected(w, r) - Asks(w.order[o], r) + Asks(v.order[o], r)
      /\ Expected(w, r) \in Int /\ Asks(w.order[o], r) \in Int /\ Asks(v.order[o], r) \in Int
  BY ExpectedMoves
<1> QED BY <1>1 DEF ExactAt

\* Nothing that the orders expect changes.
LEMMA SameAsks ==
  ASSUME NEW w, IsWorld(w), NEW v, IsWorld(v), NEW r \in Rows, ExactAt(w, r),
         \A p \in Orders : Asks(v.order[p], r) = Asks(w.order[p], r),
         v.stock[r].reserved = w.stock[r].reserved
  PROVE  ExactAt(v, r)
<1>1. [p \in Orders |-> Asks(v.order[p], r)] = [p \in Orders |-> Asks(w.order[p], r)]
  OBVIOUS
<1>2. Expected(v, r) = Expected(w, r)
  BY <1>1, ExpectedSum, Zenon
<1> QED BY <1>2 DEF ExactAt

\* A transaction that changes the reserved units by what its order asks.
Follows(v, w, o) ==
  \A r \in Rows : v.stock[r].reserved = w.stock[r].reserved + Asks(v.order[o], r) - Asks(w.order[o], r)

\* If the reserved column moves by what the order asks more, it stays exact.
LEMMA FollowsExact ==
  ASSUME NEW w, IsWorld(w), NEW o \in Orders, NEW v, Moves(v, w, o), Follows(v, w, o), Exactly(w)
  PROVE  Exactly(v)
BY RowKept DEF Moves, Follows, Exactly

\* The same rows need units before and after.
LEMMA SameNeeds ==
  ASSUME NEW v, NEW w, NEW o \in Orders, Same(v, w, o)
  PROVE  Needs(v.order[o]) = Needs(w.order[o]) /\ RowsOf(v.order[o]) = RowsOf(w.order[o])
<1>1. Needs(v.order[o]) = Needs(w.order[o])
  BY DEF Same, Needs
<1> QED BY <1>1 DEF RowsOf

\* An operation on the order's rows leaves the others exact.
LEMMA ElsewhereKept ==
  ASSUME NEW w, IsWorld(w), NEW o \in Orders, NEW v, Moves(v, w, o), Same(v, w, o), Elsewhere(w, o),
         \A r \in Rows \ RowsOf(w.order[o]) : v.stock[r].reserved = w.stock[r].reserved
  PROVE  Elsewhere(v, o)
<1>1. Needs(v.order[o]) = Needs(w.order[o]) /\ RowsOf(v.order[o]) = RowsOf(w.order[o])
  BY SameNeeds
<1> SUFFICES ASSUME NEW r \in Rows \ RowsOf(w.order[o]) PROVE ExactAt(v, r)
  BY <1>1 DEF Elsewhere
<1>2. IsOrder(w.order[o]) /\ IsOrder(v.order[o]) /\ IsWorld(v)
  BY DEF Moves, IsWorld
<1>3. Needs(w.order[o])[r] = 0
  <2>1. Needs(w.order[o])[r] \in Nat
    BY <1>2, NeedsType
  <2> QED BY <2>1 DEF RowsOf
<1>4. Asks(v.order[o], r) = 0 /\ Asks(w.order[o], r) = 0
  BY <1>1, <1>3 DEF Asks
<1>5. w.stock[r].reserved \in Int
  BY DEF IsWorld
<1>6. v.stock[r].reserved = w.stock[r].reserved + Asks(v.order[o], r) - Asks(w.order[o], r)
  BY <1>4, <1>5
<1>7. ExactAt(w, r)
  BY DEF Elsewhere
<1> QED BY <1>2, <1>6, <1>7, RowKept DEF Moves

\* A reconciliation makes the rows of its order exact.
LEMMA ReconcileExact ==
  ASSUME NEW w, IsWorld(w), NEW o \in Orders, Elsewhere(w, o)
  PROVE  Exactly(Reconcile(w, o))
<1> DEFINE v == Reconcile(w, o)
<1>1. /\ IsWorld(v) /\ v.order = w.order
      /\ \A r \in Rows : v.stock[r].reserved =
           IF r \in RowsOf(w.order[o]) THEN Expected(w, r) ELSE w.stock[r].reserved
  BY ReconcileIs
<1> HIDE DEF v
<1>2. \A r \in Rows : Expected(v, r) = Expected(w, r)
  <2> TAKE r \in Rows
  <2>1. [p \in Orders |-> Asks(v.order[p], r)] = [p \in Orders |-> Asks(w.order[p], r)]
    BY <1>1
  <2> QED BY <1>1, <2>1, ExpectedSum, Zenon
<1>3. Exactly(v)
  BY <1>1, <1>2 DEF Exactly, ExactAt, Elsewhere
<1> QED BY <1>3 DEF v

\* Where all is exact, a reconciliation writes what was there.
LEMMA ReconcileIdle ==
  ASSUME NEW w, IsWorld(w), NEW o \in Orders, Exactly(w)
  PROVE  \A r \in Rows : Reconcile(w, o).stock[r].reserved = w.stock[r].reserved
BY ReconcileIs DEF Exactly, ExactAt

\* What changes neither orders nor the reserved column keeps it exact.
LEMMA AlikeExact ==
  ASSUME NEW w, IsWorld(w), NEW v, IsWorld(v), v.order = w.order,
         \A r \in Rows : v.stock[r].reserved = w.stock[r].reserved, Exactly(w)
  PROVE  Exactly(v)
BY SameAsks DEF Exactly

\* A check changes whether the transaction is refused, and nothing else.
LEMMA CheckExact ==
  ASSUME NEW w, IsWorld(w), NEW b, Exactly(w)
  PROVE  Exactly(Check(w, b))
BY CheckIs, AlikeExact

\* Marking changes what is expected of the order's rows only.
LEMMA MarkElsewhere ==
  ASSUME NEW w, IsWorld(w), NEW o \in Orders, NEW b \in BOOLEAN, Elsewhere(w, o)
  PROVE  Elsewhere(SetReserveBool(w, o, b), o)
<1> DEFINE v == SetReserveBool(w, o, b)
<1>1. Moves(v, w, o) /\ Same(v, w, o) /\ v.stock = w.stock
  BY MarkStill
<1> HIDE DEF v
<1>2. Elsewhere(v, o)
  BY <1>1, ElsewhereKept
<1> QED BY <1>2 DEF v

\* Releasing makes the order's own rows exact again.
LEMMA UnreserveExact ==
  ASSUME NEW w, IsWorld(w), NEW o \in Orders, Elsewhere(w, o)
  PROVE  Exactly(Unreserve(w, o))
<1> DEFINE u == SetReserveBool(w, o, FALSE)
<1>1. IsWorld(u) /\ Elsewhere(u, o)
  BY MarkElsewhere, MarkStill DEF Moves
<1>2. Unreserve(w, o) = Reconcile(u, o)
  BY DEF Unreserve
<1> HIDE DEF u
<1> QED BY <1>1, <1>2, ReconcileExact

\* What a restoration reserves is what the order then asks.
LEMMA RestoreExact ==
  ASSUME NEW w, IsWorld(w), NEW o \in Orders, Settled(w.order[o]), NEW keep \in BOOLEAN,
         keep => w.order[o].active, Exactly(w)
  PROVE  Exactly(Restore(w, o, keep))
<1> DEFINE ord == w.order[o]
           v == Restore(w, o, keep)
<1>1. /\ Moves(v, w, o) /\ Same(v, w, o)
      /\ v.order[o].reserveBool = IF ord.open = <<>> THEN ord.reserveBool ELSE keep
      /\ \A r \in Rows : v.stock[r].reserved =
           w.stock[r].reserved + IF ord.open # <<>> /\ keep THEN Needs(ord)[r] ELSE 0
  BY RestoreIs DEF Settled
<1> HIDE DEF v
<1>2. Needs(v.order[o]) = Needs(ord) /\ v.order[o].active = ord.active
  BY <1>1, SameNeeds DEF Same
<1>3. \A r \in Rows : w.stock[r].reserved \in Int /\ Asks(ord, r) \in Int /\ Needs(ord)[r] \in Int
  BY AsksType, NeedsType DEF IsWorld
<1>4. CASE ord.open = <<>>
  <2>1. \A r \in Rows : Asks(v.order[o], r) = Asks(ord, r)
    BY <1>1, <1>2, <1>4 DEF Asks
  <2>2. Follows(v, w, o)
    BY <1>1, <1>3, <1>4, <2>1 DEF Follows
  <2>3. Exactly(v)
    BY <1>1, <2>2, FollowsExact
  <2> QED BY <2>3 DEF v
<1>5. CASE ord.open # <<>>
  <2>1. \A r \in Rows : Asks(ord, r) = 0 /\ Asks(v.order[o], r) = IF keep THEN Needs(ord)[r] ELSE 0
    BY <1>1, <1>2, <1>5 DEF Asks, Settled
  <2>2. Follows(v, w, o)
    BY <1>1, <1>3, <1>5, <2>1 DEF Follows
  <2>3. Exactly(v)
    BY <1>1, <2>2, FollowsExact
  <2> QED BY <2>3 DEF v
<1> QED BY <1>4, <1>5

\* A restoration disturbs the reserved column in the order's own rows only.
LEMMA RestoreElsewhere ==
  ASSUME NEW w, IsWorld(w), NEW o \in Orders, AsItIs(w.order[o]), NEW keep \in BOOLEAN, Elsewhere(w, o)
  PROVE  Elsewhere(Restore(w, o, keep), o)
<1> DEFINE ord == w.order[o]
           v == Restore(w, o, keep)
<1>1. /\ Moves(v, w, o) /\ Same(v, w, o)
      /\ \A r \in Rows : v.stock[r].reserved =
           w.stock[r].reserved + IF ord.open # <<>> /\ keep THEN Needs(ord)[r] ELSE 0
  BY RestoreIs
<1>2. \A r \in Rows \ RowsOf(ord) : Needs(ord)[r] = 0 /\ w.stock[r].reserved \in Int
  BY NeedsType DEF RowsOf, IsWorld
<1> HIDE DEF v
<1>3. \A r \in Rows \ RowsOf(ord) : v.stock[r].reserved = w.stock[r].reserved
  BY <1>1, <1>2
<1>4. Elsewhere(v, o)
  BY <1>1, <1>3, ElsewhereKept
<1> QED BY <1>4 DEF v

\* A release gives back what the order asked, when the history claims no more than the mark.
LEMMA RevertExact ==
  ASSUME NEW w, IsWorld(w), NEW o \in Orders, Settled(w.order[o]), w.order[o].active,
         w.order[o].replay => w.order[o].reserveBool, Exactly(w)
  PROVE  Exactly(Revert(w, o))
<1> DEFINE ord == w.order[o]
           back == IF ord.warehouse = None THEN w ELSE Restore(w, o, FALSE)
           even == Reconcile(back, o)
           units == ReleaseUnits(even, o)
           less == Increment(even, Scaled(0, units), Scaled(-1, units))
           last == IF (ord.reserveBool \/ ord.replay) /\ ord.warehouse # None THEN less ELSE back
           v == SetReserveBool(last, o, FALSE)
<1>0. Revert(w, o) = v
  BY DEF Revert
<1>1. Moves(back, w, o) /\ Same(back, w, o) /\ Exactly(back) /\ back.order[o].reserveBool = ord.reserveBool
  <2>1. CASE ord.warehouse = None
    BY <2>1 DEF Moves, Same
  <2>2. CASE ord.warehouse # None
    <3> DEFINE z == Restore(w, o, FALSE)
    <3>1. AsItIs(ord) /\ (ord.open # <<>> => ord.reserveBool = FALSE)
      BY DEF Settled, IsWorld, IsOrder
    <3>2. /\ Moves(z, w, o) /\ Same(z, w, o)
          /\ z.order[o].reserveBool = IF ord.open = <<>> THEN ord.reserveBool ELSE FALSE
      BY <3>1, RestoreIs
    <3>3. Exactly(z)
      BY RestoreExact
    <3> HIDE DEF z
    <3>4. Moves(z, w, o) /\ Same(z, w, o) /\ Exactly(z) /\ z.order[o].reserveBool = ord.reserveBool
      BY <3>1, <3>2, <3>3
    <3> QED BY <2>2, <3>4 DEF z
  <2> QED BY <2>1, <2>2
<1> HIDE DEF back
<1>2. IsWorld(back) /\ Needs(back.order[o]) = Needs(ord) /\ back.order[o].active
      /\ back.order[o].warehouse = ord.warehouse
  BY <1>1, SameNeeds DEF Moves, Same
<1>3. IsWorld(even) /\ even.order = back.order /\ \A r \in Rows : even.stock[r].reserved = back.stock[r].reserved
  BY <1>1, <1>2, ReconcileIs, ReconcileIdle
<1> HIDE DEF even
<1>4. \A r \in Rows : Needs(ord)[r] \in Nat /\ back.stock[r].reserved \in Int
  BY <1>2, NeedsType DEF IsWorld
<1>5. \A r \in Rows : units[r] = IF Needs(ord)[r] < back.stock[r].reserved THEN Needs(ord)[r] ELSE back.stock[r].reserved
  BY <1>2, <1>3 DEF ReleaseUnits
<1>6. units \in [Rows -> Int]
  BY <1>4, <1>5 DEF ReleaseUnits
<1> HIDE DEF units
<1>7. Scaled(0, units) \in [Rows -> Int] /\ Scaled(-1, units) \in [Rows -> Int]
      /\ \A r \in Rows : Scaled(-1, units)[r] = -1 * units[r]
  BY <1>6, ScaledType DEF Scaled
<1>8. /\ IsWorld(less) /\ less.order = back.order
      /\ \A r \in Rows : less.stock[r].reserved = back.stock[r].reserved - units[r]
  <2>1. /\ IsWorld(less) /\ less.order = even.order
        /\ \A r \in Rows : less.stock[r].reserved = even.stock[r].reserved + Scaled(-1, units)[r]
    BY <1>3, <1>7, IncrementIs
  <2> HIDE DEF less
  <2> QED BY <1>3, <1>4, <1>6, <1>7, <2>1
<1> HIDE DEF less
<1>9. IsWorld(last) /\ last.order = back.order
  BY <1>2, <1>8
<1>10. \A r \in Rows : last.stock[r].reserved = back.stock[r].reserved - Asks(back.order[o], r)
  <2> TAKE r \in Rows
  <2>1. CASE ~ord.reserveBool
    <3>1. last = back /\ Asks(back.order[o], r) = 0
      BY <1>1, <2>1 DEF Asks
    <3> QED BY <1>4, <3>1
  <2>2. CASE ord.warehouse = None
    <3>1. last = back
      BY <2>2
    <3>2. Needs(ord)[r] = 0
      BY <2>2, StockAssumption DEF Needs, Rows
    <3>3. Asks(back.order[o], r) = 0
      BY <1>2, <3>2 DEF Asks
    <3> QED BY <1>4, <3>1, <3>3
  <2>3. CASE ord.reserveBool /\ ord.warehouse # None
    <3>1. last = less
      BY <2>3
    <3>2. Asks(back.order[o], r) = Needs(ord)[r]
      BY <1>1, <1>2, <2>3 DEF Asks
    <3>3. Needs(ord)[r] <= back.stock[r].reserved
      BY <1>1, <1>2, <3>2, ExpectedAtLeast DEF Exactly, ExactAt
    <3>4. units[r] = Needs(ord)[r]
      BY <1>4, <1>5, <3>3
    <3> HIDE DEF last
    <3> QED BY <1>8, <3>1, <3>2, <3>4
  <2> QED BY <2>1, <2>2, <2>3
<1> HIDE DEF last
<1>11. /\ Moves(v, last, o) /\ v.stock = last.stock /\ v.order[o].reserveBool = FALSE
  BY <1>9, MarkStill
<1> HIDE DEF v
<1>12. \A r \in Rows : v.stock[r].reserved = back.stock[r].reserved + Asks(v.order[o], r) - Asks(back.order[o], r)
  <2> TAKE r \in Rows
  <2>1. Asks(v.order[o], r) = 0
    BY <1>11 DEF Asks
  <2>2. Asks(back.order[o], r) \in Int /\ back.stock[r].reserved \in Int
    BY <1>2, <1>4, AsksType DEF IsWorld
  <2> QED BY <1>10, <1>11, <2>1, <2>2
<1>13. IsWorld(v) /\ \A p \in Orders \ {o} : v.order[p] = back.order[p]
  BY <1>9, <1>11 DEF Moves
<1>14. Exactly(v)
  BY <1>1, <1>2, <1>12, <1>13, RowKept DEF Exactly
<1> QED BY <1>0, <1>14

\* Reserving adds what the order asks from then on.
LEMMA ReserveExact ==
  ASSUME NEW w, IsWorld(w), NEW o \in Orders, ~w.order[o].reserveBool, w.order[o].active, Exactly(w)
  PROVE  Exactly(Perform(w, o, "RESERVE"))
<1> DEFINE v == Perform(w, o, "RESERVE")
<1>1. /\ Moves(v, w, o) /\ Same(v, w, o) /\ v.order[o].reserveBool = TRUE
      /\ \A r \in Rows : v.stock[r].reserved = w.stock[r].reserved + Needs(w.order[o])[r]
  BY PerformReserve
<1> HIDE DEF v
<1>2. Needs(v.order[o]) = Needs(w.order[o]) /\ v.order[o].active
  BY <1>1, SameNeeds DEF Same
<1>3. \A r \in Rows : Asks(w.order[o], r) = 0 /\ Asks(v.order[o], r) = Needs(w.order[o])[r]
  BY <1>1, <1>2 DEF Asks
<1>4. \A r \in Rows : w.stock[r].reserved \in Int /\ Needs(w.order[o])[r] \in Int
  BY NeedsType DEF IsWorld
<1>5. Follows(v, w, o)
  BY <1>1, <1>3, <1>4 DEF Follows
<1>6. Exactly(v)
  BY <1>1, <1>5, FollowsExact
<1> QED BY <1>6 DEF v

\* A consumption takes from the reserved units what the order had reserved.
LEMMA ConsumeExact ==
  ASSUME NEW w, IsWorld(w), NEW o \in Orders, AsItIs(w.order[o]),
         w.order[o].open = <<>>, w.order[o].reserveBool, w.order[o].active, Exactly(w),
         NEW t, IsWorld(t), t.order = Consume(w, o).order, t.stock = Consume(w, o).stock
  PROVE  Exactly(SetReserveBool(t, o, FALSE))
<1> DEFINE u == Consume(w, o)
           v == SetReserveBool(t, o, FALSE)
<1>1. /\ Moves(u, w, o) /\ Same(u, w, o)
      /\ \A r \in Rows : u.stock[r].reserved = w.stock[r].reserved - Needs(w.order[o])[r]
  BY ConsumeIs
<1>2. t.order = u.order /\ t.stock = u.stock
  OBVIOUS
<1> HIDE DEF u
<1>3. Moves(v, t, o) /\ v.stock = t.stock /\ v.order[o].reserveBool = FALSE
  BY MarkStill
<1> HIDE DEF v
<1>4. IsWorld(v) /\ \A p \in Orders \ {o} : v.order[p] = w.order[p]
  BY <1>1, <1>2, <1>3 DEF Moves
<1>5. \A r \in Rows : Asks(v.order[o], r) = 0 /\ Asks(w.order[o], r) = Needs(w.order[o])[r]
  BY <1>3 DEF Asks
<1>6. \A r \in Rows : w.stock[r].reserved \in Int /\ Needs(w.order[o])[r] \in Int
  BY NeedsType DEF IsWorld
<1>7. \A r \in Rows : v.stock[r].reserved = w.stock[r].reserved + Asks(v.order[o], r) - Asks(w.order[o], r)
  BY <1>1, <1>2, <1>3, <1>5, <1>6
<1>8. Exactly(v)
  BY <1>4, <1>7, RowKept DEF Exactly
<1> QED BY <1>8 DEF v

\* Writing an order that asks the same.
LEMMA SetsExact ==
  ASSUME NEW w, IsWorld(w), NEW o \in Orders, NEW new, IsOrder(new),
         \A r \in Rows : Asks(new, r) = Asks(w.order[o], r), Exactly(w)
  PROVE  Exactly(Sets(w, o, new))
<1> DEFINE v == Sets(w, o, new)
<1>1. IsWorld(v) /\ v.stock = w.stock /\ v.order[o] = new /\ \A p \in Orders \ {o} : v.order[p] = w.order[p]
  BY SetsIs
<1> HIDE DEF v
<1>2. \A p \in Orders, r \in Rows : Asks(v.order[p], r) = Asks(w.order[p], r)
  BY <1>1
<1>3. Exactly(v)
  BY <1>1, <1>2, SameAsks DEF Exactly
<1> QED BY <1>3 DEF v

\* What an order asks follows from its mark, activity, warehouse and composition.
LEMMA AsksAlike ==
  ASSUME NEW x, NEW y, y.reserveBool = x.reserveBool, y.active = x.active,
         y.warehouse = x.warehouse, y.comp = x.comp
  PROVE  \A r \in Rows : Asks(y, r) = Asks(x, r)
<1>1. Needs(y) = Needs(x)
  BY DEF Needs
<1> QED BY <1>1 DEF Asks

\* RESERVE and CONSUME follow the mark, if nothing is consumed that is not reserved.
LEMMA ActExact ==
  ASSUME NEW w, IsWorld(w), NEW o \in Orders, Settled(w.order[o]), w.order[o].active, NEW plan,
         Has(plan, "CONSUME") => Has(plan, "RESERVE") \/ w.order[o].reserveBool, Exactly(w)
  PROVE  Exactly(Act(w, o, plan))
<1> DEFINE ord == w.order[o]
           reserves == Has(plan, "RESERVE") /\ ~ord.reserveBool
           consumes == Has(plan, "CONSUME") /\ ord.open = <<>>
           even == Check(Reconcile(w, o), ord.warehouse # None)
           first == IF reserves THEN Perform(even, o, "RESERVE") ELSE even
<1>1. Act(w, o, plan) = CASE consumes -> Perform(first, o, "CONSUME")
                          [] reserves /\ ~consumes -> first
                          [] OTHER -> SetReserveBool(w, o, ord.reserveBool /\ ~Has(plan, "CONSUME"))
  BY DEF Act
<1>2. IsWorld(even) /\ even.order = w.order /\ Exactly(even)
  <2> DEFINE t == Reconcile(w, o)
  <2>1. IsWorld(t) /\ t.order = w.order /\ Exactly(t)
    BY ReconcileIs, ReconcileExact DEF Exactly, Elsewhere
  <2> HIDE DEF t
  <2>2. IsWorld(Check(t, ord.warehouse # None)) /\ Check(t, ord.warehouse # None).order = t.order
    BY <2>1, CheckIs
  <2>3. Exactly(Check(t, ord.warehouse # None))
    BY <2>1, CheckExact
  <2> QED BY <2>1, <2>2, <2>3 DEF t
<1> HIDE DEF even
<1>3. /\ IsWorld(first) /\ Exactly(first) /\ first.order[o].active /\ first.order[o].open = ord.open
      /\ AsItIs(first.order[o])
      /\ first.order[o].reserveBool = (reserves \/ ord.reserveBool)
  <2>1. CASE reserves
    <3> DEFINE v == Perform(even, o, "RESERVE")
    <3>1. first = v
      BY <2>1
    <3>2. Moves(v, even, o) /\ Same(v, even, o) /\ v.order[o].open = even.order[o].open
          /\ v.order[o].reserveBool = TRUE
      BY <1>2, PerformReserve
    <3>3. Exactly(v)
      BY <1>2, <2>1, ReserveExact
    <3> HIDE DEF v, first
    <3>4. AsItIs(v.order[o]) /\ v.order[o].active
      BY <1>2, <3>2, SettledAlike DEF Same, Settled
    <3> QED BY <1>2, <2>1, <3>1, <3>2, <3>3, <3>4 DEF Moves
  <2>2. CASE ~reserves
    <3>1. first = even /\ ord.reserveBool \in BOOLEAN
      BY <2>2 DEF IsWorld, IsOrder
    <3> QED BY <1>2, <2>2, <3>1 DEF Settled
  <2> QED BY <2>1, <2>2
<1> HIDE DEF first
<1>4. CASE consumes
  <2>1. \E b : Perform(first, o, "CONSUME") = SetReserveBool(Check(Consume(first, o), b), o, FALSE)
    BY DEF Perform
  <2>2. PICK b : Perform(first, o, "CONSUME") = SetReserveBool(Check(Consume(first, o), b), o, FALSE)
    BY <2>1
  <2> DEFINE u == Consume(first, o)
             t == Check(u, b)
  <2>3. IsWorld(u)
    BY <1>3, ConsumeIs DEF Moves
  <2>4. IsWorld(t) /\ t.order = u.order /\ t.stock = u.stock
    <3> HIDE DEF u
    <3> QED BY <2>3, CheckIs
  <2>5. first.order[o].reserveBool /\ first.order[o].open = <<>>
    BY <1>3, <1>4
  <2> HIDE DEF t
  <2>6. Exactly(SetReserveBool(t, o, FALSE))
    BY <1>3, <2>4, <2>5, ConsumeExact
  <2> QED BY <1>1, <1>4, <2>2, <2>6 DEF t
<1>5. CASE reserves /\ ~consumes
  BY <1>1, <1>3, <1>5
<1>6. CASE ~reserves /\ ~consumes
  <2> DEFINE m == ord.reserveBool /\ ~Has(plan, "CONSUME")
             v == SetReserveBool(w, o, m)
  <2>1. Act(w, o, plan) = v
    BY <1>1, <1>6
  <2>2. m = ord.reserveBool /\ m \in BOOLEAN
    <3>1. ord.reserveBool \in BOOLEAN
      BY DEF IsWorld, IsOrder
    <3> QED BY <1>6, <3>1 DEF Settled
  <2>3. Moves(v, w, o) /\ Same(v, w, o) /\ v.stock = w.stock /\ v.order[o].reserveBool = ord.reserveBool
    <3> HIDE DEF m
    <3> QED BY <2>2, MarkStill
  <2> HIDE DEF v
  <2>4. \A r \in Rows : Asks(v.order[o], r) = Asks(ord, r)
    BY <2>3, AsksAlike DEF Same
  <2>5. \A r \in Rows : w.stock[r].reserved \in Int /\ Asks(ord, r) \in Int
    BY AsksType DEF IsWorld
  <2>6. Follows(v, w, o)
    BY <2>3, <2>4, <2>5 DEF Follows
  <2> QED BY <2>1, <2>3, <2>6, FollowsExact
<1> QED BY <1>4, <1>5, <1>6

\* So do the stock actions of any transition of an order whose history is honest.
LEMMA RunExact ==
  ASSUME NEW w, IsWorld(w), NEW o \in Orders, Settled(w.order[o]), NEW plan \in Plans, Exactly(w),
         w.order[o].replay => w.order[o].reserveBool,
         plan = <<"CONSUME">> => w.order[o].reserveBool, Run(w, o, plan).ok
  PROVE  Exactly(Run(w, o, plan))
<1>1. ASSUME NEW u, NEW b, IsWorld(u), Run(w, o, plan) = Check(u, b) PROVE b /\ (Exactly(u) => Exactly(Run(w, o, plan)))
  BY <1>1, CheckIs, CheckExact
<1>0. AsItIs(w.order[o])
  BY DEF Settled
<1>2. CASE plan = <<>>
  BY <1>1, <1>2 DEF Run
<1>3. CASE plan = <<"REVERT">>
  <2>1. Run(w, o, plan) = Check(Revert(w, o), ~Conflict(w, o, plan))
    BY <1>3 DEF Run
  <2>2. IsWorld(Revert(w, o))
    BY <1>0, RevertIs DEF Moves
  <2>3. ~Conflict(w, o, plan)
    BY <1>1, <2>1, <2>2
  <2>4. Exactly(Revert(w, o))
    BY <2>3, RevertExact DEF Conflict
  <2> QED BY <1>1, <2>1, <2>2, <2>4
<1>4. CASE plan = <<"RESTORE">>
  <2>1. Run(w, o, plan) = Check(Restore(w, o, FALSE), ~Conflict(w, o, plan))
    BY <1>4 DEF Run
  <2>2. IsWorld(Restore(w, o, FALSE))
    BY <1>0, RestoreIs DEF Moves
  <2>3. Exactly(Restore(w, o, FALSE))
    BY RestoreExact
  <2> QED BY <1>1, <2>1, <2>2, <2>3
<1>5. CASE plan \notin {<<>>, <<"REVERT">>, <<"RESTORE">>}
  <2>1. Run(w, o, plan) = Check(Act(w, o, plan), ~Conflict(w, o, plan))
    BY <1>5 DEF Run
  <2>2. IsWorld(Act(w, o, plan))
    BY <1>5, PlanFacts, ActIs DEF Moves
  <2>3. w.order[o].active
    BY <1>1, <2>1, <2>2 DEF Conflict
  <2>4. Has(plan, "RESERVE") \/ plan = <<"CONSUME">>
    <3>1. plan \in {<<"RESERVE">>, <<"CONSUME">>, <<"RESERVE", "CONSUME">>}
      BY <1>5 DEF Plans
    <3>2. <<"RESERVE">>[1] = "RESERVE" /\ <<"RESERVE", "CONSUME">>[1] = "RESERVE"
          /\ 1 \in DOMAIN <<"RESERVE">> /\ 1 \in DOMAIN <<"RESERVE", "CONSUME">>
      OBVIOUS
    <3> QED BY <3>1, <3>2 DEF Has
  <2>5. Exactly(Act(w, o, plan))
    BY <2>3, <2>4, ActExact
  <2> QED BY <1>1, <2>1, <2>2, <2>5
<1> QED BY <1>2, <1>3, <1>4, <1>5

\* A release of the old composition makes its rows exact, whichever way it goes.
LEMMA ReleasePreviousExact ==
  ASSUME NEW w, IsWorld(w), NEW o \in Orders, AsItIs(w.order[o]), NEW stockStatus, Exactly(w)
  PROVE  Exactly(ReleasePreviousComposition(w, o, stockStatus))
<1>0. Elsewhere(w, o)
  BY DEF Exactly, Elsewhere
<1>1. ASSUME NEW u, IsWorld(u), Elsewhere(u, o), NEW b,
             ReleasePreviousComposition(w, o, stockStatus) = Unreserve(Check(u, b), o)
      PROVE  Exactly(ReleasePreviousComposition(w, o, stockStatus))
  <2> DEFINE t == Check(u, b)
  <2>1. IsWorld(t) /\ t.order = u.order /\ t.stock = u.stock
    BY <1>1, CheckIs
  <2> HIDE DEF t
  <2>2. \A r \in Rows \ RowsOf(u.order[o]) : ExactAt(t, r)
    BY <1>1, <2>1, SameAsks DEF Elsewhere
  <2>3. Elsewhere(t, o)
    BY <2>1, <2>2 DEF Elsewhere
  <2>4. Exactly(Unreserve(t, o))
    BY <2>1, <2>3, UnreserveExact
  <2> QED BY <1>1, <2>4 DEF t
<1>2. CASE stockStatus = "CONSUMED"
  <2>1. \E b : ReleasePreviousComposition(w, o, stockStatus) = Unreserve(Check(Restore(w, o, TRUE), b), o)
    BY <1>2 DEF ReleasePreviousComposition
  <2>2. IsWorld(Restore(w, o, TRUE)) /\ Elsewhere(Restore(w, o, TRUE), o)
    BY <1>0, RestoreIs, RestoreElsewhere DEF Moves
  <2> QED BY <1>1, <2>1, <2>2
<1>3. CASE stockStatus # "CONSUMED"
  <2>1. \E b : ReleasePreviousComposition(w, o, stockStatus) = Unreserve(Check(w, b), o)
    BY <1>3 DEF ReleasePreviousComposition
  <2> QED BY <1>0, <1>1, <2>1
<1> QED BY <1>2, <1>3

\* Reserving a corrected composition brings the reserved column to what is asked.
LEMMA ReserveCorrectedExact ==
  ASSUME NEW w, IsWorld(w), NEW o \in Orders, Exactly(w)
  PROVE  Exactly(ReserveCorrectedComposition(w, o))
<1> DEFINE b == w.order[o].warehouse # None
           t == Check(w, b)
           u == SetReserveBool(t, o, TRUE)
<1>1. ReserveCorrectedComposition(w, o) = Reconcile(u, o)
  BY DEF ReserveCorrectedComposition
<1> HIDE DEF b
<1>2. IsWorld(t) /\ Exactly(t)
  BY CheckIs, CheckExact
<1> HIDE DEF t
<1>3. IsWorld(u) /\ Elsewhere(u, o)
  BY <1>2, MarkElsewhere, MarkStill DEF Moves, Exactly, Elsewhere
<1> HIDE DEF u
<1> QED BY <1>1, <1>3, ReconcileExact

\* Reconciling and releasing the current reservation keep the reserved column exact.
LEMMA CurrentExact ==
  ASSUME NEW w, IsWorld(w), NEW o \in Orders, Exactly(w)
  PROVE  Exactly(ReconcileCurrentReservation(w, o)) /\ Exactly(ReleaseCurrentReservation(w, o))
<1>1. Elsewhere(w, o)
  BY DEF Exactly, Elsewhere
<1>2. Exactly(Reconcile(w, o)) /\ Exactly(Unreserve(w, o))
  BY <1>1, ReconcileExact, UnreserveExact
<1> QED BY <1>2 DEF ReconcileCurrentReservation, ReleaseCurrentReservation

\* Consuming what was reserved takes it from the reserved column.
LEMMA ConsumeCorrectedExact ==
  ASSUME NEW w, IsWorld(w), NEW o \in Orders, AsItIs(w.order[o]),
         w.order[o].open = <<>>, w.order[o].reserveBool, w.order[o].active, Exactly(w)
  PROVE  Exactly(ConsumeCorrectedComposition(w, o))
<1> DEFINE t == Reconcile(w, o)
           u == Consume(t, o)
<1>1. ConsumeCorrectedComposition(w, o) = SetReserveBool(u, o, FALSE)
  BY DEF ConsumeCorrectedComposition
<1>2. IsWorld(t) /\ t.order = w.order /\ Exactly(t)
  BY ReconcileIs, ReconcileExact DEF Exactly, Elsewhere
<1> HIDE DEF t
<1>3. IsWorld(u)
  BY <1>2, ConsumeIs DEF Moves
<1>4. Exactly(SetReserveBool(u, o, FALSE))
  BY <1>2, <1>3, ConsumeExact
<1> QED BY <1>1, <1>4

\* A rollback keeps the mark and the units together.
LEMMA RollBackExact ==
  ASSUME NEW w, IsWorld(w), NEW o \in Orders, Settled(w.order[o]), NEW b, w.order[o].active, Exactly(w)
  PROVE  Exactly(RollBack(w, o, b))
<1> DEFINE keep == Keeps(w.order[o], b)
           back == Restore(w, o, keep)
           done == IF keep THEN back ELSE ReleaseCurrentReservation(back, o)
           new == [done.order[o] EXCEPT
                    !.state = b.to, !.trail = {},
                    !.policy = IF keep /\ done.order[o].reserveBool THEN "RESERVED" ELSE "NONE"]
<1>1. RollBack(w, o, b) = Sets(done, o, new)
  BY DEF RollBack
<1>2. keep \in BOOLEAN
  BY DEF Keeps
<1> HIDE DEF keep
<1>3. IsWorld(back) /\ Exactly(back)
  <2>1. IsWorld(back)
    BY <1>2, RestoreIs DEF Moves, Settled
  <2>2. Exactly(back)
    BY <1>2, RestoreExact
  <2> QED BY <2>1, <2>2
<1> HIDE DEF back
<1>4. IsWorld(done) /\ Exactly(done)
  BY <1>3, ReleaseCurrentIs, CurrentExact DEF Moves
<1> HIDE DEF done
<1>5. IsOrder(done.order[o])
  BY <1>4 DEF IsWorld
<1>6. IsOrder(new) /\ new.reserveBool = done.order[o].reserveBool /\ new.active = done.order[o].active
      /\ new.warehouse = done.order[o].warehouse /\ new.comp = done.order[o].comp
  BY <1>5 DEF IsOrder, Fields
<1> HIDE DEF new
<1>7. \A r \in Rows : Asks(new, r) = Asks(done.order[o], r)
  BY <1>6, AsksAlike
<1> QED BY <1>1, <1>4, <1>6, <1>7, SetsExact

\* A save: whatever it changes, what is out afterwards is the new composition, and
\* what is reserved is what the orders expect, if the policy knew of the reservation.
LEMMA UpdatedIs ==
  ASSUME NEW w, IsWorld(w), NEW o \in Orders, Known(w.order[o]), NEW new \in Edits[o], NEW rolls
  PROVE  LET v == Updated(w, o, new, rolls) IN
         /\ Moves(v, w, o) /\ Known(v.order[o])
         /\ v.ok /\ Covers(w.order[o]) => Covers(v.order[o])
         /\ v.ok /\ Covers(w.order[o]) /\ Exactly(w) /\ (rolls # {} => w.order[o].active) => Exactly(v)
<1> DEFINE ord == w.order[o]
           stockStatus == Policy(ord)
           flowChanged == new.flow # ord.flow
           released == /\ stockStatus \in {"RESERVED", "CONSUMED"}
                       /\ flowChanged \/ new.comp # ord.comp \/ new.warehouse # ord.warehouse
           clear == IF released THEN ReleasePreviousComposition(w, o, stockStatus) ELSE w
           kept == [clear.order[o] EXCEPT !.warehouse = new.warehouse, !.comp = new.comp]
           next == IF flowChanged
                     THEN [kept EXCEPT !.flow = new.flow, !.state = Flows[new.flow],
                                       !.policy = "NONE", !.trail = {}]
                     ELSE kept
           saved == Sets(clear, o, next)
           stays == ~flowChanged
           booked == CASE stays /\ released                         -> ReserveCorrectedComposition(saved, o)
                     [] stays /\ ~released /\ stockStatus = "RESERVED" -> ReconcileCurrentReservation(saved, o)
                     [] OTHER                                     -> saved
           more == IF stockStatus = "CONSUMED" THEN ConsumeCorrectedComposition(booked, o) ELSE booked
           fit == Covers(ord) /\ Exactly(w)
           Goal(v) == /\ Moves(v, w, o) /\ Known(v.order[o])
                      /\ v.ok /\ Covers(ord) => Covers(v.order[o])
                      /\ v.ok /\ fit /\ (rolls # {} => ord.active) => Exactly(v)
<1>0. AsItIs(ord) /\ (ord.open # <<>> => stockStatus = "CONSUMED") /\ (stockStatus = "CONSUMED" => ord.policy = "CONSUMED")
      /\ (Covers(ord) /\ ord.reserveBool => stockStatus = "RESERVED")
      /\ (stockStatus = "RESERVED" => ord.policy = "RESERVED")
  BY DEF Known, Settled, Policy, Covers
<1>r. (released => stockStatus \in {"RESERVED", "CONSUMED"}) /\ (stockStatus = "RESERVED" /\ flowChanged => released)
  OBVIOUS
<1>1. Updated(w, o, new, rolls) =
        CASE flowChanged                     -> Check(booked, rolls = {})
          [] stays /\ rolls # {}             -> RollBack(booked, o, CHOOSE b \in rolls : TRUE)
          [] stays /\ rolls = {} /\ released -> Check(more, ord.active)
          [] OTHER                           -> booked
  BY DEF Updated
<1>2. new.comp \in [StockItems -> Nat] /\ new.warehouse \in Warehouses
  BY StockAssumption
<1>3. /\ Moves(clear, w, o) /\ Same(clear, w, o)
      /\ \/ clear.order[o].open = <<>>
         \/ clear = w /\ ~released /\ stays /\ new.warehouse = ord.warehouse /\ new.comp = ord.comp
      /\ IF released THEN clear.order[o].reserveBool = FALSE
                     ELSE clear = w /\ (~Covers(ord) \/ ~ord.reserveBool
                                        \/ (stays /\ new.warehouse = ord.warehouse /\ new.comp = ord.comp))
  <2>1. CASE released
    <3>1. clear = ReleasePreviousComposition(w, o, stockStatus)
      BY <2>1
    <3> HIDE DEF clear, stockStatus, released
    <3> QED BY <1>0, <2>1, <3>1, ReleasePreviousIs
  <2>2. CASE ~released
    <3>1. clear = w
      BY <2>2
    <3>2. Moves(w, w, o) /\ Same(w, w, o)
      BY DEF Moves, Same
    <3>3. ord.open = <<>> \/ (stays /\ new.warehouse = ord.warehouse /\ new.comp = ord.comp)
      BY <1>0, <2>2
    <3>4. \/ ~Covers(ord) \/ ~ord.reserveBool
          \/ stays /\ new.warehouse = ord.warehouse /\ new.comp = ord.comp
      BY <1>0, <2>2
    <3> HIDE DEF clear, released, flowChanged, stays
    <3> QED BY <2>2, <3>1, <3>2, <3>3, <3>4
  <2> QED BY <2>1, <2>2
<1>4. IsOrder(clear.order[o]) /\ IsWorld(clear)
  BY <1>3 DEF Moves, IsWorld
<1>e. Exactly(w) => Exactly(clear)
  <2>1. CASE released
    <3>1. clear = ReleasePreviousComposition(w, o, stockStatus)
      BY <2>1
    <3> HIDE DEF clear, stockStatus
    <3> QED BY <1>0, <3>1, ReleasePreviousExact
  <2>2. CASE ~released
    BY <2>2
  <2> QED BY <2>1, <2>2
<1>5. /\ IsOrder(next) /\ next.open = clear.order[o].open /\ next.reserveBool = clear.order[o].reserveBool
      /\ next.warehouse = new.warehouse /\ next.comp = new.comp /\ next.active = clear.order[o].active
      /\ stays => next.policy = clear.order[o].policy
  <2>1. /\ IsOrder(kept) /\ kept.open = clear.order[o].open /\ kept.reserveBool = clear.order[o].reserveBool
        /\ kept.warehouse = new.warehouse /\ kept.comp = new.comp /\ kept.active = clear.order[o].active
        /\ kept.policy = clear.order[o].policy
    <3> HIDE DEF clear
    <3> QED BY <1>2, <1>4 DEF IsOrder, Fields
  <2> HIDE DEF kept, flowChanged
  <2> QED BY <2>1 DEF IsOrder, Fields
<1> HIDE DEF clear, next, stockStatus
<1>6. Known(next)
  <2>1. CASE next.open = <<>>
    BY <2>1 DEF Known, Settled, AsItIs
  <2>2. CASE next.open # <<>>
    <3>1. clear = w /\ stays /\ next.open = ord.open /\ next.warehouse = ord.warehouse /\ next.comp = ord.comp
          /\ next.reserveBool = ord.reserveBool /\ next.policy = ord.policy
      BY <1>3, <1>5, <2>2
    <3>2. AsItIs(next)
      BY <1>0, <3>1, SettledAlike
    <3> QED BY <2>2, <3>1, <3>2 DEF Known, Settled
  <2> QED BY <2>1, <2>2
<1>7. Moves(saved, clear, o) /\ saved.order[o] = next
  BY <1>4, <1>5, SetsStill, SetsIs
<1>8. next.open = <<>> \/ (~released /\ stays)
  BY <1>3, <1>5
<1>9. (stays => next.policy = ord.policy) /\ (Covers(ord) => Covers(next))
  <2>1. stays => next.policy = ord.policy
    BY <1>3, <1>5 DEF Same
  <2>2. next.warehouse # None
    BY <1>2, <1>5, StockAssumption
  <2> HIDE DEF stays, released
  <2> QED BY <1>3, <1>5, <2>1, <2>2 DEF Covers
<1>f. fit => Exactly(saved)
  <2> SUFFICES ASSUME Covers(ord), Exactly(w) PROVE Exactly(saved)
    OBVIOUS
  <2>1. \A r \in Rows : Asks(next, r) = Asks(clear.order[o], r)
    <3>1. CASE ~clear.order[o].reserveBool
      BY <1>5, <3>1 DEF Asks
    <3>2. CASE clear.order[o].reserveBool
      <4>1. ~released
        BY <1>3, <3>2
      <4>2. clear = w /\ new.warehouse = ord.warehouse /\ new.comp = ord.comp
        BY <1>3, <3>2, <4>1
      <4> QED BY <1>5, <4>2, AsksAlike
    <3> QED BY <3>1, <3>2
  <2> QED BY <1>4, <1>5, <1>e, <2>1, SetsExact
<1>g. next.active = ord.active
  BY <1>3, <1>5 DEF Same
<1> HIDE DEF saved, fit
<1>10. IsWorld(saved) /\ Moves(saved, w, o)
  BY <1>3, <1>7, MovesTwice DEF Moves
<1>11. /\ Moves(booked, w, o) /\ Known(booked.order[o])
       /\ stays => booked.order[o].policy = ord.policy
       /\ (stays /\ released /\ stockStatus = "CONSUMED") \/ (Covers(ord) => Covers(booked.order[o]))
       /\ fit => Exactly(booked)
       /\ booked.order[o].active = ord.active
       /\ stays /\ released => booked.order[o].open = <<>> /\ booked.order[o].reserveBool
  <2>1. CASE stays /\ released
    <3> DEFINE v == ReserveCorrectedComposition(saved, o)
    <3>1. booked = v
      BY <2>1
    <3>2. /\ Moves(v, saved, o) /\ Same(v, saved, o) /\ v.order[o].open = saved.order[o].open
          /\ v.order[o].reserveBool = TRUE
      BY <1>10, ReserveCorrectedIs
    <3>9. fit => Exactly(v)
      BY <1>10, <1>f, ReserveCorrectedExact
    <3> HIDE DEF v, booked, released, stays
    <3>10. v.order[o].active = ord.active
      BY <1>7, <1>g, <3>2 DEF Same
    <3>3. v.order[o].open = <<>>
      BY <1>7, <1>8, <2>1, <3>2
    <3>4. Known(v.order[o])
      BY <3>3 DEF Known, Settled, AsItIs
    <3>5. v.order[o].policy = next.policy /\ v.order[o].warehouse # None
      BY <1>2, <1>5, <1>7, <3>2, StockAssumption DEF Same
    <3>6. Moves(v, w, o)
      BY <1>10, <3>2, MovesTwice
    <3>7. v.order[o].policy = ord.policy
      BY <1>9, <2>1, <3>5
    <3>8. stockStatus = "CONSUMED" \/ Covers(v.order[o])
      BY <1>0, <1>r, <2>1, <3>5, <3>7 DEF Covers
    <3> QED BY <2>1, <3>1, <3>2, <3>3, <3>4, <3>6, <3>7, <3>8, <3>9, <3>10
  <2>2. CASE stays /\ ~released /\ stockStatus = "RESERVED"
    <3>1. booked = ReconcileCurrentReservation(saved, o)
      BY <2>2
    <3>2. Moves(ReconcileCurrentReservation(saved, o), saved, o)
          /\ ReconcileCurrentReservation(saved, o).order = saved.order
      BY <1>10, ReconcileCurrentIs
    <3>4. fit => Exactly(ReconcileCurrentReservation(saved, o))
      BY <1>10, <1>f, CurrentExact
    <3> HIDE DEF booked, released, stays
    <3>3. Moves(booked, w, o) /\ booked.order[o] = next
      BY <1>7, <1>10, <3>1, <3>2, MovesTwice
    <3> QED BY <1>6, <1>9, <1>g, <2>2, <3>1, <3>3, <3>4
  <2>3. CASE ~(stays /\ released) /\ ~(stays /\ ~released /\ stockStatus = "RESERVED")
    <3>1. booked = saved
      BY <2>3
    <3> HIDE DEF booked, released, stays
    <3> QED BY <1>6, <1>7, <1>9, <1>10, <1>f, <1>g, <2>3, <3>1
  <2> QED BY <2>1, <2>2, <2>3
<1> HIDE DEF booked
<1>12. IsWorld(booked) /\ AsItIs(booked.order[o])
  BY <1>11 DEF Moves, Known, Settled
<1>13. ASSUME NEW u, NEW b, Goal(u) PROVE Goal(Check(u, b))
  <2>1. IsWorld(Check(u, b)) /\ Check(u, b).order = u.order /\ Check(u, b).stock = u.stock
        /\ (Check(u, b).ok => u.ok)
    BY <1>13, CheckIs DEF Moves
  <2>2. Exactly(u) => Exactly(Check(u, b))
    BY <1>13, CheckExact DEF Moves
  <2> QED BY <1>13, <2>1, <2>2 DEF Moves, Total
<1>14. CASE flowChanged
  <2>1. Updated(w, o, new, rolls) = Check(booked, rolls = {})
    BY <1>1, <1>14
  <2>2. Goal(booked)
    BY <1>11, <1>14
  <2> QED BY <1>13, <2>1, <2>2 DEF fit
<1>15. CASE stays /\ rolls # {}
  <2>1. \E b : Updated(w, o, new, rolls) = RollBack(booked, o, b)
    BY <1>1, <1>15
  <2>2. PICK b : Updated(w, o, new, rolls) = RollBack(booked, o, b)
    BY <2>1
  <2>3. Moves(RollBack(booked, o, b), booked, o) /\ RollBack(booked, o, b).order[o].open = <<>>
        /\ (RollBack(booked, o, b).ok => Covers(RollBack(booked, o, b).order[o]))
    BY <1>12, RollBackIs
  <2>4. fit /\ ord.active => Exactly(RollBack(booked, o, b))
    BY <1>11, <1>12, RollBackExact DEF Known
  <2> DEFINE v == RollBack(booked, o, b)
  <2> HIDE DEF v, stays
  <2>5. Moves(v, w, o) /\ Known(v.order[o])
    BY <1>11, <2>3, MovesTwice DEF Known, Settled, AsItIs, v
  <2>6. Goal(v)
    BY <1>15, <2>3, <2>4, <2>5 DEF v
  <2> QED BY <2>2, <2>6 DEF v, fit
<1>16. CASE stays /\ rolls = {} /\ released
  <2>1. Updated(w, o, new, rolls) = Check(more, ord.active)
    BY <1>1, <1>16
  <2>2. /\ Moves(more, w, o) /\ Known(more.order[o]) /\ (Covers(ord) => Covers(more.order[o]))
        /\ fit /\ ord.active => Exactly(more)
    <3>1. CASE stockStatus = "CONSUMED"
      <4> DEFINE v == ConsumeCorrectedComposition(booked, o)
      <4>1. more = v
        BY <3>1
      <4>2. Moves(v, booked, o) /\ Same(v, booked, o) /\ Settled(v.order[o]) /\ v.order[o].reserveBool = FALSE
        BY <1>12, ConsumeCorrectedIs
      <4>3. fit /\ ord.active => Exactly(v)
        <5> HIDE DEF stays, released
        <5> QED BY <1>11, <1>12, <1>16, ConsumeCorrectedExact
      <4> HIDE DEF v, more, released
      <4>4. v.order[o].policy = "CONSUMED"
        BY <1>0, <1>11, <1>16, <3>1, <4>2 DEF Same
      <4> QED BY <1>11, <4>1, <4>2, <4>3, <4>4, MovesTwice DEF Known, Covers
    <3>2. CASE stockStatus # "CONSUMED"
      BY <1>11, <3>2
    <3> QED BY <3>1, <3>2
  <2> HIDE DEF more
  <2> DEFINE z == Check(more, ord.active)
  <2>3. IsWorld(z) /\ z.order = more.order /\ z.stock = more.stock /\ (z.ok => ord.active)
    BY <2>2, CheckIs DEF Moves
  <2>4. Exactly(more) => Exactly(z)
    BY <2>2, CheckExact DEF Moves
  <2> HIDE DEF z
  <2>5. Moves(z, w, o) /\ Known(z.order[o]) /\ (Covers(ord) => Covers(z.order[o]))
    BY <2>2, <2>3 DEF Moves, Total
  <2>6. Goal(z)
    BY <2>2, <2>3, <2>4, <2>5
  <2> QED BY <2>1, <2>6 DEF z, fit
<1>17. CASE stays /\ rolls = {} /\ ~released
  <2>1. Updated(w, o, new, rolls) = booked
    BY <1>1, <1>17
  <2> QED BY <1>11, <1>17, <2>1 DEF fit
<1> QED BY <1>14, <1>15, <1>16, <1>17

-----------------------------------------------------------------------------
\* The invariant.

SaleInv ==
  /\ IsWorld(world) /\ moved \in [Rows -> Int]
  /\ \A o \in Orders : Known(order[o])
  /\ StockConserved

\* What a transaction on one order writes keeps the balance of all of them.
LEMMA TransactionKeeps ==
  ASSUME SaleInv, NEW o \in Orders, NEW w, w = world, NEW v, Moves(v, w, o), Known(v.order[o]), Becomes(v)
  PROVE  SaleInv'
<1>1. order' = v.order /\ stock' = v.stock /\ moved' = moved /\ order = w.order /\ stock = w.stock
  BY DEF Becomes, world
<1>2. IsWorld(w) /\ IsWorld(v)
  BY DEF SaleInv, Moves
<1>3. IsWorld(world')
  BY <1>1, <1>2 DEF IsWorld, world
<1>4. \A p \in Orders : Known(w.order[p]) /\ Known(v.order[p])
  BY <1>1 DEF SaleInv, Moves
<1>5. StockConserved'
  <2> SUFFICES ASSUME NEW r \in Rows
               PROVE  v.stock[r].onHand + SumOver(Orders, [p \in Orders |-> Out(v.order[p])[r]])
                        = OnHand[r] + moved[r]
    BY <1>1 DEF StockConserved
  <2> DEFINE f == [p \in Orders |-> Out(w.order[p])[r]]
             g == [p \in Orders |-> Out(v.order[p])[r]]
  <2>1. \A p \in Orders : f[p] \in Int /\ g[p] \in Int
    BY <1>2, <1>4, OutType DEF IsWorld, Known, Settled
  <2>2. \A p \in Orders \ {o} : g[p] = f[p]
    BY DEF Moves
  <2>3. v.stock[r].onHand + g[o] = w.stock[r].onHand + f[o]
    BY DEF Moves, Total
  <2>4. w.stock[r].onHand + SumOver(Orders, f) = OnHand[r] + moved[r]
    BY <1>1 DEF SaleInv, StockConserved
  <2>5. w.stock[r].onHand \in Int /\ v.stock[r].onHand \in Int
    BY <1>2 DEF IsWorld
  <2> HIDE DEF f, g
  <2>6. IsFiniteSet(Orders)
    BY StockAssumption
  <2>7. SumOver(Orders, g) = SumOver(Orders, f) - f[o] + g[o]
    BY <2>1, <2>2, <2>6, SumUpdate
  <2>8. SumOver(Orders, f) \in Int
    BY <2>1, <2>6, SumInt
  <2>9. f[o] \in Int /\ g[o] \in Int
    BY <2>1
  <2>10. v.stock[r].onHand + SumOver(Orders, g) = OnHand[r] + moved[r]
    BY <2>3, <2>4, <2>5, <2>7, <2>8, <2>9
  <2> QED BY <2>10 DEF g
<1> QED BY <1>1, <1>3, <1>4, <1>5 DEF SaleInv

\* The policy covers the marks of the orders.
PolicyInv == \A o \in Orders : Covers(order[o])

\* A transaction that keeps it for its order keeps it.
LEMMA CoversKept ==
  ASSUME PolicyInv, NEW o \in Orders, NEW w, w = world, NEW v, Moves(v, w, o), Covers(v.order[o]), Becomes(v)
  PROVE  PolicyInv'
<1>1. order' = v.order /\ order = w.order
  BY DEF Becomes, world
<1> QED BY <1>1 DEF PolicyInv, Moves

\* Of the orders, RESTORE finds none in a state with it that is reserved.
RestoresUnreserved ==
  \A o \in Orders, t \in Transitions :
    t.plan = <<"RESTORE">> /\ t.flow = order[o].flow /\ order[o].state \in t.from => ~order[o].reserveBool

\* The stock status that the policy reads off a list of stock actions.
LEMMA StatusFacts ==
  ASSUME NEW plan \in Plans, NEW old
  PROVE  /\ Has(plan, "CONSUME") => StatusAfter(plan, old) = "CONSUMED"
         /\ plan = <<>> => StatusAfter(plan, old) = old
         /\ plan = <<"RESERVE">> => StatusAfter(plan, old) = "RESERVED"
<1>1. ~Has(<<>>, "CONSUME") /\ ~Has(<<"RESERVE">>, "CONSUME")
  BY DEF Has
<1> QED BY <1>1 DEF StatusAfter

\* A transition takes out what the order needs, and records it.
LEMMA AdvanceKeeps ==
  ASSUME SaleInv, NEW o \in Orders, NEW t \in Transitions, Advance(o, t)
  PROVE  SaleInv' /\ (RestoresUnreserved /\ PolicyInv => PolicyInv')
<1>1. PICK w : w = world
  OBVIOUS
<1> DEFINE ord == w.order[o]
           at == [ord EXCEPT !.warehouse = IF @ = None THEN t.assign ELSE @]
           placed == Sets(w, o, at)
           done == Run(placed, o, t.plan)
           new == [done.order[o] EXCEPT
                    !.state = t.to,
                    !.replay = IF t.plan = <<>> THEN @ ELSE t.plan = <<"RESERVE">>,
                    !.policy = StatusAfter(t.plan, @),
                    !.trail = IF t.to \in Boundaries THEN @ \cup {<<t.to, ord.policy = "RESERVED">>} ELSE @]
           v == Sets(done, o, new)
<1>2. Becomes(v)
  BY <1>1 DEF Advance, world
<1>3. IsWorld(w) /\ Known(ord) /\ IsOrder(ord)
  BY <1>1 DEF SaleInv, world, IsWorld
<1>4. t.plan \in Plans
  BY StockAssumption
<1>5. /\ IsOrder(at) /\ at.open = ord.open /\ at.reserveBool = ord.reserveBool
      /\ at.comp = ord.comp /\ at.policy = ord.policy
      /\ at.warehouse = IF ord.warehouse = None THEN t.assign ELSE ord.warehouse
  BY <1>3 DEF IsOrder, Fields
<1> HIDE DEF at
<1>6. Settled(at)
  <2>1. CASE ord.open = <<>>
    BY <1>5, <2>1 DEF Settled, AsItIs
  <2>2. CASE ord.open # <<>>
    <3>1. AsItIs(ord) /\ ~ord.reserveBool
      BY <1>3, <2>2 DEF Known, Settled
    <3>2. ord.warehouse # None
      BY <2>2, <3>1, StockAssumption DEF AsItIs
    <3>3. AsItIs(at)
      BY <1>5, <3>1, <3>2, SettledAlike
    <3> QED BY <1>5, <3>1, <3>3 DEF Settled
  <2> QED BY <2>1, <2>2
<1>7. Moves(placed, w, o) /\ placed.order[o] = at /\ IsWorld(placed)
  BY <1>3, <1>5, SetsStill, SetsIs
<1> HIDE DEF placed
<1>8. IsWorld(done) /\ (done.ok =>
        /\ Moves(done, placed, o) /\ Same(done, placed, o) /\ Settled(done.order[o])
        /\ done.order[o].open # <<>> => (t.plan = <<>> /\ ord.open # <<>>) \/ Has(t.plan, "CONSUME")
        /\ done.order[o].reserveBool =>
             \/ t.plan \in {<<>>, <<"RESTORE">>} /\ ord.reserveBool
             \/ t.plan = <<"RESERVE">> /\ (ord.reserveBool \/ at.warehouse # None))
  BY <1>4, <1>5, <1>6, <1>7, RunIs
<1> HIDE DEF done
<1>9. IsOrder(done.order[o])
  BY <1>8 DEF IsWorld
<1>10. /\ IsOrder(new) /\ new.open = done.order[o].open /\ new.reserveBool = done.order[o].reserveBool
       /\ new.warehouse = done.order[o].warehouse /\ new.comp = done.order[o].comp
       /\ new.policy = StatusAfter(t.plan, done.order[o].policy)
  BY <1>9 DEF IsOrder, Fields
<1> HIDE DEF new
<1>11. Moves(v, done, o) /\ v.order[o] = new /\ (v.ok => done.ok)
  BY <1>8, <1>10, SetsStill, SetsIs
<1>12. done.ok
  BY <1>2, <1>11 DEF Becomes
<1> HIDE DEF v
<1>13. Moves(v, w, o)
  BY <1>7, <1>8, <1>11, <1>12, MovesTwice
<1>14. Settled(new)
  <2>1. AsItIs(new)
    BY <1>8, <1>10, <1>12, SettledAlike DEF Settled
  <2> QED BY <1>8, <1>10, <1>12, <2>1 DEF Settled
<1>15. new.open # <<>> => new.policy = "CONSUMED"
  <2> SUFFICES ASSUME new.open # <<>> PROVE new.policy = "CONSUMED"
    OBVIOUS
  <2>1. CASE Has(t.plan, "CONSUME")
    BY <1>4, <1>10, <2>1, StatusFacts
  <2>2. CASE t.plan = <<>> /\ ord.open # <<>>
    <3>1. new.policy = done.order[o].policy
      BY <1>4, <1>10, <2>2, StatusFacts
    <3>2. done.order[o].policy = ord.policy
      BY <1>5, <1>7, <1>8, <1>12 DEF Same
    <3> QED BY <1>3, <2>2, <3>1, <3>2 DEF Known
  <2> QED BY <1>8, <1>10, <1>12, <2>1, <2>2
<1>16. Known(v.order[o])
  BY <1>11, <1>14, <1>15 DEF Known
<1>17. RestoresUnreserved /\ Covers(ord) => Covers(new)
  <2> SUFFICES ASSUME RestoresUnreserved, Covers(ord), new.reserveBool
               PROVE  new.policy = "RESERVED" /\ new.warehouse # None
    BY DEF Covers
  <2>0. t.plan = <<"RESTORE">> => ~ord.reserveBool
    BY <1>1 DEF RestoresUnreserved, Advance, world
  <2>1. new.warehouse = at.warehouse /\ (ord.reserveBool => at.warehouse # None)
    BY <1>5, <1>7, <1>8, <1>10, <1>12 DEF Same, Covers
  <2>2. CASE t.plan = <<"RESERVE">>
    BY <1>4, <1>8, <1>10, <1>12, <2>1, <2>2, StatusFacts
  <2>3. CASE t.plan = <<>> /\ ord.reserveBool
    <3>1. new.policy = done.order[o].policy
      BY <1>4, <1>10, <2>3, StatusFacts
    <3>2. done.order[o].policy = ord.policy
      BY <1>5, <1>7, <1>8, <1>12 DEF Same
    <3> QED BY <2>1, <2>3, <3>1, <3>2 DEF Covers
  <2> QED BY <1>8, <1>10, <1>12, <2>0, <2>2, <2>3
<1>18. RestoresUnreserved /\ PolicyInv => Covers(v.order[o])
  BY <1>1, <1>11, <1>17 DEF PolicyInv, world
<1> QED BY <1>1, <1>2, <1>13, <1>16, <1>18, TransactionKeeps, CoversKept

\* A saved edit keeps the invariants.
LEMMA UpdateKeeps ==
  ASSUME SaleInv, NEW o \in Orders, NEW new \in Edits[o], NEW rolls, Update(o, new, rolls)
  PROVE  SaleInv' /\ (PolicyInv => PolicyInv')
<1>1. PICK w : w = world
  OBVIOUS
<1> DEFINE v == Updated(w, o, new, rolls)
<1>2. Becomes(v)
  BY <1>1 DEF Update
<1>3. IsWorld(w) /\ Known(w.order[o])
  BY <1>1 DEF SaleInv, world
<1>4. Moves(v, w, o) /\ Known(v.order[o])
  BY <1>3, UpdatedIs
<1>5. PolicyInv => Covers(v.order[o])
  BY <1>1, <1>2, <1>3, UpdatedIs DEF PolicyInv, world, Becomes
<1> HIDE DEF v
<1> QED BY <1>1, <1>2, <1>4, <1>5, TransactionKeeps, CoversKept

\* A rollback caused by a total, payment or date keeps the invariants.
LEMMA CorrectKeeps ==
  ASSUME SaleInv, NEW o \in Orders, NEW b \in Rollbacks, Correct(o, b)
  PROVE  SaleInv' /\ (PolicyInv => PolicyInv')
<1>1. PICK w : w = world
  OBVIOUS
<1> DEFINE v == RollBack(w, o, b)
<1>2. Becomes(v)
  BY <1>1 DEF Correct
<1>3. IsWorld(w) /\ AsItIs(w.order[o])
  BY <1>1 DEF SaleInv, world, Known, Settled
<1>4. Moves(v, w, o) /\ v.order[o].open = <<>> /\ Covers(v.order[o])
  BY <1>2, <1>3, RollBackIs DEF Becomes
<1>5. Known(v.order[o])
  BY <1>4 DEF Known, Settled, AsItIs
<1> HIDE DEF v
<1> QED BY <1>1, <1>2, <1>4, <1>5, TransactionKeeps, CoversKept

\* A deletion keeps the invariants.
LEMMA DeactivateKeeps ==
  ASSUME SaleInv, NEW o \in Orders, Deactivate(o)
  PROVE  SaleInv' /\ (PolicyInv => PolicyInv')
<1>1. PICK w : w = world
  OBVIOUS
<1> DEFINE ord == w.order[o]
           back == IF ord.warehouse = None THEN w ELSE Restore(w, o, FALSE)
           done == IF Policy(ord) = "RESERVED" THEN Run(back, o, <<"REVERT">>) ELSE back
           new == [done.order[o] EXCEPT !.active = FALSE]
           v == Sets(done, o, new)
<1>2. Becomes(v)
  BY <1>1 DEF Deactivate, world
<1>3. IsWorld(w) /\ AsItIs(ord)
  BY <1>1 DEF SaleInv, world, Known, Settled
<1>4. Moves(back, w, o) /\ back.order[o].open = <<>> /\ (back.order[o].reserveBool => ord.reserveBool)
  <2>1. CASE ord.warehouse = None
    BY <1>3, <2>1, StockAssumption DEF Moves, AsItIs
  <2>2. CASE ord.warehouse # None
    BY <1>3, <2>2, RestoreIs
  <2> QED BY <2>1, <2>2
<1> HIDE DEF back
<1>5. IsWorld(done) /\ (done.ok => /\ Moves(done, w, o) /\ done.order[o].open = <<>>
                                  /\ (Covers(ord) => ~done.order[o].reserveBool))
  <2>1. CASE Policy(ord) = "RESERVED"
    <3> DEFINE u == Run(back, o, <<"REVERT">>)
    <3>1. done = u
      BY <2>1
    <3>2. IsWorld(back) /\ Settled(back.order[o]) /\ <<"REVERT">> \in Plans
      BY <1>4 DEF Moves, Settled, AsItIs, Plans
    <3>3. ~Has(<<"REVERT">>, "CONSUME") /\ <<"REVERT">> # <<>>
      BY DEF Has
    <3>4. <<"REVERT">> \notin {<<"RESTORE">>, <<"RESERVE">>}
      <4>1. <<"REVERT">>[1] = "REVERT" /\ <<"RESTORE">>[1] = "RESTORE" /\ <<"RESERVE">>[1] = "RESERVE"
        OBVIOUS
      <4> QED BY <4>1
    <3>5. IsWorld(u) /\ (u.ok => Moves(u, back, o) /\ u.order[o].open = <<>> /\ ~u.order[o].reserveBool)
      BY <3>2, <3>3, <3>4, RunIs
    <3> HIDE DEF u, done
    <3> QED BY <1>4, <3>1, <3>5, MovesTwice
  <2>2. CASE Policy(ord) # "RESERVED"
    BY <1>4, <2>2 DEF Moves, Covers, Policy
  <2> QED BY <2>1, <2>2
<1> HIDE DEF done
<1>6. IsOrder(done.order[o])
  BY <1>5 DEF IsWorld
<1>7. IsOrder(new) /\ new.open = done.order[o].open /\ new.reserveBool = done.order[o].reserveBool
  BY <1>6 DEF IsOrder, Fields
<1> HIDE DEF new
<1>8. Moves(v, done, o) /\ v.order[o] = new /\ (v.ok => done.ok)
  BY <1>5, <1>7, SetsStill, SetsIs
<1>9. done.ok
  BY <1>2, <1>8 DEF Becomes
<1> HIDE DEF v
<1>10. Moves(v, w, o)
  BY <1>5, <1>8, <1>9, MovesTwice
<1>11. Known(v.order[o])
  BY <1>5, <1>7, <1>8, <1>9 DEF Known, Settled, AsItIs
<1>12. PolicyInv => Covers(v.order[o])
  BY <1>1, <1>5, <1>7, <1>8, <1>9 DEF PolicyInv, world, Covers
<1> QED BY <1>1, <1>2, <1>10, <1>11, <1>12, TransactionKeeps, CoversKept

\* Only the activity of an order changes.
LEMMA ActiveStill ==
  ASSUME NEW ord, IsOrder(ord), Known(ord), NEW active \in BOOLEAN
  PROVE  LET new == [ord EXCEPT !.active = active] IN
         IsOrder(new) /\ Known(new) /\ new.open = ord.open /\ (Covers(ord) => Covers(new))
<1> DEFINE new == [ord EXCEPT !.active = active]
<1>1. /\ IsOrder(new) /\ new.open = ord.open /\ new.reserveBool = ord.reserveBool
      /\ new.warehouse = ord.warehouse /\ new.comp = ord.comp /\ new.policy = ord.policy
  BY DEF IsOrder, Fields
<1> HIDE DEF new
<1>2. AsItIs(ord) => AsItIs(new)
  BY <1>1, SettledAlike
<1>3. IsOrder(new) /\ Known(new) /\ new.open = ord.open /\ (Covers(ord) => Covers(new))
  BY <1>1, <1>2 DEF Known, Settled, Covers
<1> QED BY <1>3 DEF new

\* A restoration of the order keeps the invariants.
LEMMA ReactivateKeeps ==
  ASSUME SaleInv, NEW o \in Orders, Reactivate(o)
  PROVE  SaleInv' /\ (PolicyInv => PolicyInv')
<1>1. PICK w : w = world
  OBVIOUS
<1> DEFINE new == [w.order[o] EXCEPT !.active = TRUE]
           v == Sets(w, o, new)
<1>2. Becomes(v)
  BY <1>1 DEF Reactivate, world
<1>3. IsWorld(w) /\ Known(w.order[o]) /\ IsOrder(w.order[o])
  BY <1>1 DEF SaleInv, world, IsWorld
<1>4. IsOrder(new) /\ Known(new) /\ new.open = w.order[o].open /\ (Covers(w.order[o]) => Covers(new))
  BY <1>3, ActiveStill
<1> HIDE DEF new
<1>5. Moves(v, w, o) /\ v.order[o] = new
  BY <1>3, <1>4, SetsStill, SetsIs
<1> HIDE DEF v
<1>6. PolicyInv => Covers(w.order[o])
  BY <1>1 DEF PolicyInv, world
<1> QED BY <1>1, <1>2, <1>4, <1>5, <1>6, TransactionKeeps, CoversKept

\* A retry of the reservation keeps the invariants.
LEMMA RetryKeeps ==
  ASSUME SaleInv, NEW o \in Orders, RetryReservation(o)
  PROVE  SaleInv' /\ (PolicyInv => PolicyInv')
<1>1. PICK w : w = world
  OBVIOUS
<1> DEFINE v == Reconcile(w, o)
<1>2. Becomes(v)
  BY <1>1 DEF RetryReservation
<1>3. IsWorld(w) /\ Known(w.order[o])
  BY <1>1 DEF SaleInv, world
<1>4. Moves(v, w, o) /\ v.order = w.order
  BY <1>3, ReconcileIs, StockStill
<1> HIDE DEF v
<1>5. PolicyInv => Covers(v.order[o])
  BY <1>1, <1>4 DEF PolicyInv, world
<1> QED BY <1>1, <1>2, <1>3, <1>4, <1>5, TransactionKeeps, CoversKept

\* Switching an import batch keeps the invariants.
LEMMA LoteKeeps ==
  ASSUME SaleInv, NEW active \in BOOLEAN, SetLoteActive(active)
  PROVE  SaleInv' /\ (PolicyInv => PolicyInv')
<1>1. /\ order' = [p \in Orders |-> IF p \in Lote THEN [order[p] EXCEPT !.active = active] ELSE order[p]]
      /\ stock' = stock /\ moved' = moved
  BY DEF SetLoteActive, Becomes, world
<1>2. \A p \in Orders : IsOrder(order[p]) /\ Known(order[p])
  BY DEF SaleInv, IsWorld, world
<1>3. \A p \in Orders : /\ IsOrder(order'[p]) /\ Known(order'[p]) /\ order'[p].open = order[p].open
                        /\ Covers(order[p]) => Covers(order'[p])
  <2> TAKE p \in Orders
  <2>1. PICK ord : ord = order[p]
    OBVIOUS
  <2>2. IsOrder(ord) /\ Known(ord)
    BY <1>2, <2>1
  <2>3. order'[p] = IF p \in Lote THEN [ord EXCEPT !.active = active] ELSE ord
    BY <1>1, <2>1
  <2>4. CASE p \in Lote
    <3>1. LET new == [ord EXCEPT !.active = active] IN IsOrder(new) /\ Known(new) /\ new.open = ord.open
                                                             /\ (Covers(ord) => Covers(new))
      BY <2>2, ActiveStill
    <3> QED BY <2>1, <2>3, <2>4, <3>1
  <2>5. CASE p \notin Lote
    BY <2>1, <2>2, <2>3, <2>5
  <2> QED BY <2>4, <2>5
<1>4. IsWorld(world')
  BY <1>1, <1>3 DEF SaleInv, IsWorld, world
<1>5. StockConserved'
  <2>1. \A p \in Orders : Out(order'[p]) = Out(order[p])
    BY <1>3 DEF Out
  <2>2. \A r \in Rows : [p \in Orders |-> Out(order'[p])[r]] = [p \in Orders |-> Out(order[p])[r]]
    BY <2>1
  <2> QED BY <1>1, <2>2, Zenon DEF SaleInv, StockConserved
<1> QED BY <1>1, <1>3, <1>4, <1>5 DEF SaleInv, PolicyInv

\* What others bring in or take is counted as such.
LEMMA MoveKeeps ==
  ASSUME SaleInv, NEW r \in Rows, NEW d \in {-1, 1}, Move(r, d)
  PROVE  SaleInv' /\ (PolicyInv => PolicyInv')
<1>1. /\ stock' = [stock EXCEPT ![r].onHand = @ + d] /\ moved' = [moved EXCEPT ![r] = @ + d]
      /\ order' = order
  BY DEF Move
<1>2. stock \in [Rows -> [onHand : Int, reserved : Int]] /\ moved \in [Rows -> Int]
  BY DEF SaleInv, IsWorld, world
<1>3. stock' \in [Rows -> [onHand : Int, reserved : Int]] /\ moved' \in [Rows -> Int]
  BY <1>1, <1>2
<1>4. IsWorld(world')
  BY <1>1, <1>3 DEF SaleInv, IsWorld, world
<1>5. StockConserved'
  <2> SUFFICES ASSUME NEW x \in Rows
               PROVE  stock'[x].onHand + SumOver(Orders, [p \in Orders |-> Out(order[p])[x]]) = OnHand[x] + moved'[x]
    BY <1>1, Zenon DEF StockConserved
  <2>1. PICK n : n = SumOver(Orders, [p \in Orders |-> Out(order[p])[x]])
    OBVIOUS
  <2>2. PICK w : w = world
    OBVIOUS
  <2>3. n \in Int
    <3> DEFINE f == [p \in Orders |-> Out(w.order[p])[x]]
    <3>1. \A p \in Orders : IsOrder(w.order[p]) /\ AsItIs(w.order[p])
      BY <2>2 DEF SaleInv, IsWorld, world, Known, Settled
    <3>2. \A p \in Orders : f[p] \in Int
      BY <3>1, OutType
    <3>3. n = SumOver(Orders, f)
      BY <2>1, <2>2 DEF world
    <3> HIDE DEF f
    <3> QED BY <3>2, <3>3, StockAssumption, SumInt
  <2>4. stock[x].onHand + n = OnHand[x] + moved[x]
    BY <2>1, Zenon DEF SaleInv, StockConserved
  <2>5. OnHand[x] \in Int
    BY StockAssumption DEF Rows
  <2>6. stock'[x].onHand = stock[x].onHand + (IF x = r THEN d ELSE 0)
        /\ moved'[x] = moved[x] + (IF x = r THEN d ELSE 0)
    BY <1>1, <1>2
  <2>7. stock'[x].onHand + n = OnHand[x] + moved'[x]
    BY <1>2, <2>3, <2>4, <2>5, <2>6
  <2> QED BY <2>1, <2>7
<1> QED BY <1>1, <1>3, <1>4, <1>5 DEF SaleInv, PolicyInv

-----------------------------------------------------------------------------
\* The reserved column, step by step.

\* The variables are exact if the world that they become is.
LEMMA ExactAfter ==
  ASSUME NEW v, IsWorld(v), Exactly(v), Becomes(v)
  PROVE  Exact'
<1>1. order' = v.order /\ stock' = v.stock
  BY DEF Becomes
<1>2. \A r \in Rows : Expected(world', r) = Expected(v, r)
  BY <1>1, Zenon DEF Expected, world
<1>3. \A r \in Rows : v.stock[r].reserved = Expected(v, r)
  BY DEF Exactly, ExactAt
<1> QED BY <1>1, <1>2, <1>3 DEF Exact

\* The world that the variables are is exact if they are.
LEMMA ExactBefore ==
  ASSUME Exact, NEW w, w = world
  PROVE  Exactly(w)
<1>1. w.stock = stock
  BY DEF world
<1>2. \A r \in Rows : stock[r].reserved = Expected(w, r)
  BY DEF Exact
<1> QED BY <1>1, <1>2 DEF Exactly, ExactAt

\* A transition keeps the column exact: a warehouse is assigned to unreserved orders only.
LEMMA AdvanceExact ==
  ASSUME SaleInv, PolicyInv, Exact, NEW o \in Orders, Honest(order[o]), NEW t \in Transitions, Advance(o, t)
  PROVE  Exact'
<1>1. PICK w : w = world
  OBVIOUS
<1> DEFINE ord == w.order[o]
           at == [ord EXCEPT !.warehouse = IF @ = None THEN t.assign ELSE @]
           placed == Sets(w, o, at)
           done == Run(placed, o, t.plan)
           new == [done.order[o] EXCEPT
                    !.state = t.to,
                    !.replay = IF t.plan = <<>> THEN @ ELSE t.plan = <<"RESERVE">>,
                    !.policy = StatusAfter(t.plan, @),
                    !.trail = IF t.to \in Boundaries THEN @ \cup {<<t.to, ord.policy = "RESERVED">>} ELSE @]
           v == Sets(done, o, new)
<1>2. Becomes(v)
  BY <1>1 DEF Advance, world
<1>3. IsWorld(w) /\ Known(ord) /\ IsOrder(ord) /\ Covers(ord) /\ Honest(ord) /\ Exactly(w)
  BY <1>1, ExactBefore DEF SaleInv, PolicyInv, world, IsWorld
<1>4. t.plan \in Plans /\ (t.plan = <<"CONSUME">> => ord.reserveBool)
  BY <1>1, <1>3, StockAssumption DEF Advance, Honest, world
<1>5. /\ IsOrder(at) /\ at.open = ord.open /\ at.reserveBool = ord.reserveBool /\ at.active = ord.active
      /\ at.comp = ord.comp /\ at.replay = ord.replay
      /\ at.warehouse = IF ord.warehouse = None THEN t.assign ELSE ord.warehouse
  BY <1>3 DEF IsOrder, Fields
<1> HIDE DEF at
<1>6. Settled(at)
  <2>1. CASE ord.open = <<>>
    BY <1>5, <2>1 DEF Settled, AsItIs
  <2>2. CASE ord.open # <<>>
    <3>1. AsItIs(ord) /\ ~ord.reserveBool
      BY <1>3, <2>2 DEF Known, Settled
    <3>2. ord.warehouse # None
      BY <2>2, <3>1, StockAssumption DEF AsItIs
    <3>3. AsItIs(at)
      BY <1>5, <3>1, <3>2, SettledAlike
    <3> QED BY <1>5, <3>1, <3>3 DEF Settled
  <2> QED BY <2>1, <2>2
<1>7. \A r \in Rows : Asks(at, r) = Asks(ord, r)
  <2>1. CASE ~ord.reserveBool
    BY <1>5, <2>1 DEF Asks
  <2>2. CASE ord.reserveBool
    <3>1. at.warehouse = ord.warehouse
      BY <1>3, <1>5, <2>2 DEF Covers
    <3> QED BY <1>5, <3>1, AsksAlike
  <2> QED BY <2>1, <2>2
<1>8. IsWorld(placed) /\ placed.order[o] = at /\ Exactly(placed)
  BY <1>3, <1>5, <1>7, SetsIs, SetsExact
<1> HIDE DEF placed
<1>9. IsWorld(done)
  BY <1>4, <1>6, <1>8, RunIs
<1>10. IsOrder(done.order[o])
  BY <1>9 DEF IsWorld
<1>11. /\ IsOrder(new) /\ new.reserveBool = done.order[o].reserveBool /\ new.active = done.order[o].active
       /\ new.warehouse = done.order[o].warehouse /\ new.comp = done.order[o].comp
  <2> HIDE DEF done
  <2> QED BY <1>10 DEF IsOrder, Fields
<1>12. done.ok
  <2>1. v.ok <=> done.ok
    <3> HIDE DEF done, new
    <3> QED BY <1>9, <1>11, SetsIs
  <2> QED BY <1>2, <2>1 DEF Becomes
<1>13. Exactly(done)
  BY <1>3, <1>4, <1>5, <1>6, <1>8, <1>12, RunExact DEF Honest
<1> HIDE DEF done
<1> HIDE DEF new
<1>14. \A r \in Rows : Asks(new, r) = Asks(done.order[o], r)
  BY <1>11, AsksAlike
<1>15. IsWorld(v) /\ Exactly(v)
  BY <1>9, <1>11, <1>13, <1>14, SetsIs, SetsExact
<1> HIDE DEF v
<1> QED BY <1>2, <1>15, ExactAfter

\* A saved edit keeps the reserved column exact.
LEMMA UpdateExact ==
  ASSUME SaleInv, PolicyInv, Exact, NEW o \in Orders, NEW new \in Edits[o], NEW rolls, Update(o, new, rolls)
  PROVE  Exact'
<1>1. PICK w : w = world
  OBVIOUS
<1> DEFINE v == Updated(w, o, new, rolls)
<1>2. Becomes(v) /\ (rolls # {} => w.order[o].active)
  BY <1>1 DEF Update, CanRollBack, world
<1>3. IsWorld(w) /\ Known(w.order[o]) /\ Covers(w.order[o]) /\ Exactly(w)
  BY <1>1, ExactBefore DEF SaleInv, PolicyInv, world
<1>4. IsWorld(v) /\ (v.ok => Exactly(v))
  BY <1>2, <1>3, UpdatedIs DEF Moves
<1>5. v.ok
  BY <1>2 DEF Becomes
<1> HIDE DEF v
<1> QED BY <1>2, <1>4, <1>5, ExactAfter

\* A rollback keeps the reserved column exact.
LEMMA CorrectExact ==
  ASSUME SaleInv, Exact, NEW o \in Orders, NEW b \in Rollbacks, Correct(o, b)
  PROVE  Exact'
<1>1. PICK w : w = world
  OBVIOUS
<1> DEFINE v == RollBack(w, o, b)
<1>2. Becomes(v) /\ w.order[o].active
  BY <1>1 DEF Correct, CanRollBack, world
<1>3. IsWorld(w) /\ Settled(w.order[o]) /\ Exactly(w)
  BY <1>1, ExactBefore DEF SaleInv, world, Known
<1>4. IsWorld(v)
  BY <1>3, RollBackIs DEF Moves, Settled
<1>5. Exactly(v)
  BY <1>2, <1>3, RollBackExact
<1> HIDE DEF v
<1> QED BY <1>2, <1>4, <1>5, ExactAfter

\* A deletion that takes the mark away gives the units back.
LEMMA DeactivateExact ==
  ASSUME SaleInv, Exact, NEW o \in Orders, Honest(order[o]), Deactivate(o), ~order'[o].reserveBool
  PROVE  Exact'
<1>1. PICK w : w = world
  OBVIOUS
<1> DEFINE ord == w.order[o]
           back == IF ord.warehouse = None THEN w ELSE Restore(w, o, FALSE)
           done == IF Policy(ord) = "RESERVED" THEN Run(back, o, <<"REVERT">>) ELSE back
           new == [done.order[o] EXCEPT !.active = FALSE]
           v == Sets(done, o, new)
<1>2. Becomes(v) /\ ord.active
  BY <1>1 DEF Deactivate, world
<1>3. IsWorld(w) /\ Settled(ord) /\ Exactly(w)
  BY <1>1, ExactBefore DEF SaleInv, world, Known
<1>4. IsWorld(back) /\ Exactly(back)
  BY <1>3, RestoreIs, RestoreExact DEF Moves, Settled
<1>5. IsWorld(done) /\ (done.ok => Exactly(done))
  <2>1. CASE Policy(ord) = "RESERVED"
    <3> DEFINE u == Run(back, o, <<"REVERT">>)
    <3>0. done = u
      BY <2>1
    <3>1. ord.reserveBool /\ ord.open = <<>>
      BY <1>3, <2>1 DEF Policy, Settled
    <3>2. back.order[o].open = <<>> /\ back.order[o].reserveBool
      <4>1. CASE ord.warehouse = None
        BY <3>1, <4>1
      <4>2. CASE ord.warehouse # None
        BY <1>3, <3>1, <4>2, RestoreIs DEF Settled
      <4> QED BY <4>1, <4>2
    <3> HIDE DEF back
    <3>3. Settled(back.order[o]) /\ <<"REVERT">> \in Plans
      BY <3>2 DEF Settled, AsItIs, Plans
    <3>4. <<"REVERT">> # <<"CONSUME">>
      <4>1. <<"REVERT">>[1] = "REVERT" /\ <<"CONSUME">>[1] = "CONSUME"
        OBVIOUS
      <4> QED BY <4>1
    <3>5. IsWorld(u)
      BY <1>4, <3>3, RunIs
    <3>6. u.ok => Exactly(u)
      BY <1>4, <3>2, <3>3, <3>4, RunExact
    <3> QED BY <3>0, <3>5, <3>6
  <2>2. CASE Policy(ord) # "RESERVED"
    BY <1>4, <2>2
  <2> QED BY <2>1, <2>2
<1> HIDE DEF done
<1>6. IsOrder(done.order[o])
  BY <1>5 DEF IsWorld
<1>7. IsOrder(new) /\ new.reserveBool = done.order[o].reserveBool
  BY <1>6 DEF IsOrder, Fields
<1> HIDE DEF new
<1>8. IsWorld(v) /\ v.order[o] = new /\ (v.ok => done.ok)
  BY <1>5, <1>7, SetsIs
<1>9. done.ok /\ ~new.reserveBool
  BY <1>2, <1>8 DEF Becomes
<1>10. \A r \in Rows : Asks(new, r) = Asks(done.order[o], r)
  BY <1>7, <1>9 DEF Asks
<1>11. Exactly(v)
  BY <1>5, <1>7, <1>9, <1>10, SetsExact
<1> HIDE DEF v
<1> QED BY <1>2, <1>8, <1>11, ExactAfter

\* Deletion and restoration change the activity of their order.
LEMMA DeactivateInactive ==
  ASSUME SaleInv, NEW o \in Orders, Deactivate(o)
  PROVE  order[o].active /\ order'[o].active = FALSE
<1>1. PICK w : w = world
  OBVIOUS
<1> DEFINE ord == w.order[o]
           back == IF ord.warehouse = None THEN w ELSE Restore(w, o, FALSE)
           done == IF Policy(ord) = "RESERVED" THEN Run(back, o, <<"REVERT">>) ELSE back
           new == [done.order[o] EXCEPT !.active = FALSE]
           v == Sets(done, o, new)
<1>2. Becomes(v) /\ order[o].active
  BY <1>1 DEF Deactivate, world
<1>3. IsWorld(w) /\ Settled(ord)
  BY <1>1 DEF SaleInv, world, Known
<1>4. IsWorld(back) /\ Settled(back.order[o])
  BY <1>3, RestoreIs DEF Moves, Settled, AsItIs
<1> HIDE DEF back
<1>5. IsWorld(done)
  <2>1. <<"REVERT">> \in Plans
    BY DEF Plans
  <2> QED BY <1>4, <2>1, RunIs
<1> HIDE DEF done
<1>6. IsOrder(done.order[o])
  BY <1>5 DEF IsWorld
<1>7. IsOrder(new) /\ new.active = FALSE
  BY <1>6 DEF IsOrder, Fields
<1> HIDE DEF new
<1>8. v.order[o] = new
  BY <1>5, <1>7, SetsIs
<1> QED BY <1>2, <1>7, <1>8 DEF Becomes

\* A restored order is active again.
LEMMA ReactivateActive ==
  ASSUME SaleInv, NEW o \in Orders, Reactivate(o)
  PROVE  ~order[o].active /\ order'[o].active = TRUE
<1>1. PICK w : w = world
  OBVIOUS
<1> DEFINE new == [w.order[o] EXCEPT !.active = TRUE]
<1>2. Becomes(Sets(w, o, new)) /\ ~order[o].active
  BY <1>1 DEF Reactivate, world
<1>3. IsWorld(w) /\ IsOrder(w.order[o])
  BY <1>1 DEF SaleInv, world, IsWorld
<1>4. IsOrder(new) /\ new.active = TRUE
  BY <1>3 DEF IsOrder, Fields
<1> HIDE DEF new
<1> QED BY <1>2, <1>3, <1>4, SetsIs DEF Becomes

\* A restored order without the mark asks for nothing.
LEMMA ReactivateExact ==
  ASSUME SaleInv, Exact, NEW o \in Orders, Reactivate(o), ~order'[o].reserveBool
  PROVE  Exact'
<1>1. PICK w : w = world
  OBVIOUS
<1> DEFINE new == [w.order[o] EXCEPT !.active = TRUE]
           v == Sets(w, o, new)
<1>2. Becomes(v)
  BY <1>1 DEF Reactivate, world
<1>3. IsWorld(w) /\ IsOrder(w.order[o]) /\ Exactly(w)
  BY <1>1, ExactBefore DEF SaleInv, world, IsWorld
<1>4. IsOrder(new) /\ new.reserveBool = w.order[o].reserveBool
  BY <1>3 DEF IsOrder, Fields
<1> HIDE DEF new
<1>5. IsWorld(v) /\ v.order[o] = new
  BY <1>3, <1>4, SetsIs
<1>6. ~new.reserveBool
  BY <1>2, <1>5 DEF Becomes
<1>7. \A r \in Rows : Asks(new, r) = Asks(w.order[o], r)
  BY <1>4, <1>6 DEF Asks
<1>8. Exactly(v)
  BY <1>3, <1>4, <1>7, SetsExact
<1> HIDE DEF v
<1> QED BY <1>2, <1>5, <1>8, ExactAfter

\* A retry keeps the reserved column exact.
LEMMA RetryExact ==
  ASSUME SaleInv, Exact, NEW o \in Orders, RetryReservation(o)
  PROVE  Exact'
<1>1. PICK w : w = world
  OBVIOUS
<1> DEFINE v == Reconcile(w, o)
<1>2. Becomes(v)
  BY <1>1 DEF RetryReservation
<1>3. IsWorld(w) /\ Exactly(w)
  BY <1>1, ExactBefore DEF SaleInv
<1>4. IsWorld(v) /\ Exactly(v)
  BY <1>3, ReconcileIs, ReconcileExact DEF Exactly, Elsewhere
<1> HIDE DEF v
<1> QED BY <1>2, <1>4, ExactAfter

\* A batch changes what is expected only through orders that are marked.
LEMMA LoteExact ==
  ASSUME SaleInv, Exact, NEW active \in BOOLEAN, SetLoteActive(active),
         \A o \in Orders : order'[o].active = order[o].active \/ ~order'[o].reserveBool
  PROVE  Exact'
<1>1. PICK w : w = world
  OBVIOUS
<1> DEFINE news == [p \in Orders |-> IF p \in Lote THEN [order[p] EXCEPT !.active = active] ELSE order[p]]
<1>2. PICK v : v = [w EXCEPT !.order = news]
  OBVIOUS
<1>3. IsWorld(w) /\ Exactly(w) /\ w.order = order
  BY <1>1, ExactBefore DEF SaleInv, world
<1>4. v.order = news /\ v.stock = w.stock /\ DOMAIN v = DOMAIN w
  BY <1>2, <1>3 DEF IsWorld
<1>5. Becomes(v)
  BY <1>1, <1>2 DEF SetLoteActive, world
<1>6. \A p \in Orders :
        /\ IsOrder(v.order[p]) /\ v.order[p].reserveBool = w.order[p].reserveBool
        /\ v.order[p].warehouse = w.order[p].warehouse /\ v.order[p].comp = w.order[p].comp
  <2> TAKE p \in Orders
  <2>1. IsOrder(w.order[p])
    BY <1>3 DEF IsWorld
  <2>2. v.order[p] = w.order[p] \/ v.order[p] = [w.order[p] EXCEPT !.active = active]
    BY <1>3, <1>4
  <2> QED BY <2>1, <2>2 DEF IsOrder, Fields
<1>7. \A p \in Orders, r \in Rows : Asks(v.order[p], r) = Asks(w.order[p], r)
  <2> TAKE p \in Orders, r \in Rows
  <2>1. v.order[p].active = w.order[p].active \/ ~v.order[p].reserveBool
    BY <1>3, <1>5 DEF Becomes
  <2>2. CASE ~v.order[p].reserveBool
    BY <1>6, <2>2 DEF Asks
  <2>3. CASE v.order[p].active = w.order[p].active
    BY <1>6, <2>3, AsksAlike
  <2> QED BY <2>1, <2>2, <2>3
<1>8. IsWorld(v)
  BY <1>3, <1>4, <1>6 DEF IsWorld
<1>9. Exactly(v)
  BY <1>3, <1>4, <1>7, <1>8, SameAsks DEF Exactly
<1> QED BY <1>5, <1>8, <1>9, ExactAfter

\* Documents of other sources touch no reservation.
LEMMA MoveExact ==
  ASSUME SaleInv, Exact, NEW r \in Rows, NEW d \in {-1, 1}, Move(r, d)
  PROVE  Exact'
<1>1. order' = order /\ stock' = [stock EXCEPT ![r].onHand = @ + d]
  BY DEF Move
<1>2. stock \in [Rows -> [onHand : Int, reserved : Int]]
  BY DEF SaleInv, IsWorld, world
<1>3. \A x \in Rows : stock'[x].reserved = stock[x].reserved
  BY <1>1, <1>2
<1>4. \A x \in Rows : Expected(world', x) = Expected(world, x)
  BY <1>1, Zenon DEF Expected, world
<1> QED BY <1>3, <1>4 DEF Exact

-----------------------------------------------------------------------------
\* The invariant holds of the opening stock and orders that hold nothing.
LEMMA InitSale == Init => SaleInv
<1> SUFFICES ASSUME Init PROVE SaleInv
  OBVIOUS
<1>1. \A o \in Orders : IsOrder(order[o]) /\ order[o].open = <<>>
  BY StockAssumption DEF Init, IsOrder, Fields
<1>2. stock \in [Rows -> [onHand : Int, reserved : Int]] /\ moved \in [Rows -> Int]
      /\ \A r \in Rows : stock[r].onHand = OnHand[r] /\ OnHand[r] \in Nat /\ moved[r] = 0
  BY StockAssumption DEF Init, Rows
<1>3. IsWorld(world)
  BY <1>1, <1>2 DEF IsWorld, world, Init
<1>4. \A o \in Orders : Known(order[o])
  BY <1>1 DEF Known, Settled, AsItIs
<1>5. StockConserved
  <2> SUFFICES ASSUME NEW r \in Rows
               PROVE  stock[r].onHand + SumOver(Orders, [o \in Orders |-> Out(order[o])[r]]) = OnHand[r] + moved[r]
    BY DEF StockConserved
  <2>1. PICK f : f = [o \in Orders |-> Out(order[o])[r]]
    OBVIOUS
  <2>2. \A o \in Orders : f[o] = 0
    BY <1>1, <2>1 DEF Out
  <2>3. SumOver(Orders, f) = 0
    BY <2>2, StockAssumption, SumZero
  <2> QED BY <1>2, <2>1, <2>3
<1> QED BY <1>2, <1>3, <1>4, <1>5 DEF SaleInv

\* The inductive invariant: worlds are well typed, every order is settled and its policy
\* knows what is out for it, and stock is conserved.
THEOREM SaleInvAlways == Spec => []SaleInv
<1>1. SaleInv /\ [Next]_vars => SaleInv'
  <2> SUFFICES ASSUME SaleInv, [Next]_vars PROVE SaleInv'
    OBVIOUS
  <2>1. CASE UNCHANGED vars
    BY <2>1 DEF vars, SaleInv, IsWorld, world, StockConserved
  <2>2. ASSUME NEW o \in Orders,
               \/ \E t \in Transitions : Advance(o, t)
               \/ \E new \in Edits[o], rolls \in {{}} \cup {{b} : b \in Rollbacks} : Update(o, new, rolls)
               \/ \E b \in Rollbacks : Correct(o, b)
               \/ Deactivate(o) \/ Reactivate(o) \/ RetryReservation(o)
        PROVE  SaleInv'
    BY <2>2, AdvanceKeeps, UpdateKeeps, CorrectKeeps, DeactivateKeeps, ReactivateKeeps, RetryKeeps
  <2>3. CASE \E active \in BOOLEAN : SetLoteActive(active)
    BY <2>3, LoteKeeps
  <2>4. CASE \E r \in Rows, d \in {-1, 1} : Move(r, d)
    BY <2>4, MoveKeeps
  <2> QED BY <2>1, <2>2, <2>3, <2>4 DEF Next
<1> QED BY <1>1, InitSale, PTL DEF Spec

\* No sequence of transitions, edits, rollbacks, deletions and retries creates or loses
\* a unit: on hand and out together are the opening stock and what others moved.
THEOREM StockIsConserved == Spec => []StockConserved
<1>1. SaleInv => StockConserved
  BY DEF SaleInv
<1> QED BY <1>1, SaleInvAlways, PTL

\* An order has at most one OUT document open, for the composition and the warehouse that
\* it has now, and is not reserved at the same time: no double consumption by an edit, a
\* rollback or a transition after another.
THEOREM ConsumedOnceAlways == Spec => []ConsumedOnce
<1>1. SaleInv => ConsumedOnce
  BY DEF SaleInv, Known, Settled, AsItIs, ConsumedOnce
<1> QED BY <1>1, SaleInvAlways, PTL

\* While RESTORE finds no reserved order, a marked order is one that the policy takes for
\* reserved and has a warehouse.
THEOREM PolicyInvAlways == Spec /\ []RestoresUnreserved => []PolicyInv
<1>1. SaleInv /\ PolicyInv /\ RestoresUnreserved /\ [Next]_vars => PolicyInv'
  <2> SUFFICES ASSUME SaleInv, PolicyInv, RestoresUnreserved, [Next]_vars PROVE PolicyInv'
    OBVIOUS
  <2>1. CASE UNCHANGED vars
    BY <2>1 DEF vars, PolicyInv
  <2>2. ASSUME NEW o \in Orders,
               \/ \E t \in Transitions : Advance(o, t)
               \/ \E new \in Edits[o], rolls \in {{}} \cup {{b} : b \in Rollbacks} : Update(o, new, rolls)
               \/ \E b \in Rollbacks : Correct(o, b)
               \/ Deactivate(o) \/ Reactivate(o) \/ RetryReservation(o)
        PROVE  PolicyInv'
    BY <2>2, AdvanceKeeps, UpdateKeeps, CorrectKeeps, DeactivateKeeps, ReactivateKeeps, RetryKeeps
  <2>3. CASE \E active \in BOOLEAN : SetLoteActive(active)
    BY <2>3, LoteKeeps
  <2>4. CASE \E r \in Rows, d \in {-1, 1} : Move(r, d)
    BY <2>4, MoveKeeps
  <2> QED BY <2>1, <2>2, <2>3, <2>4 DEF Next
<1>2. Init => PolicyInv
  BY DEF Init, PolicyInv, Covers
<1> QED BY <1>1, <1>2, SaleInvAlways, PTL DEF Spec

\* Under the same condition the edit policy knows of every unit that an order holds, so
\* that no edit changes a composition and leaves its stock behind.
THEOREM PolicyAlwaysCovers == Spec /\ []RestoresUnreserved => []PolicyCoversStock
<1>1. SaleInv /\ PolicyInv => PolicyCoversStock
  BY DEF SaleInv, PolicyInv, Known, Settled, Covers, PolicyCoversStock, Policy
<1> QED BY <1>1, SaleInvAlways, PolicyInvAlways, PTL

\* Under the same condition every step keeps the reserved column what the orders expect,
\* but those whose faults ReservedKept names: a history that claims what the mark denies,
\* and a change of activity that leaves the mark.
THEOREM ReservedAlwaysKept == Spec /\ []RestoresUnreserved => ReservedKept
<1>1. SaleInv /\ PolicyInv /\ [Next]_vars =>
        [Exact /\ (\A o \in Orders : /\ Honest(order[o])
                                     /\ order'[o].active = order[o].active \/ ~order'[o].reserveBool)
         => Exact']_vars
  <2> SUFFICES ASSUME SaleInv, PolicyInv, Next, Exact,
                      \A o \in Orders : Honest(order[o]),
                      \A o \in Orders : order'[o].active = order[o].active \/ ~order'[o].reserveBool
               PROVE  Exact'
    OBVIOUS
  <2>1. ASSUME NEW o \in Orders,
               \/ \E t \in Transitions : Advance(o, t)
               \/ \E new \in Edits[o], rolls \in {{}} \cup {{b} : b \in Rollbacks} : Update(o, new, rolls)
               \/ \E b \in Rollbacks : Correct(o, b)
               \/ Deactivate(o) \/ Reactivate(o) \/ RetryReservation(o)
        PROVE  Exact'
    <3>1. CASE \E t \in Transitions : Advance(o, t)
      BY <3>1, AdvanceExact
    <3>2. CASE \E new \in Edits[o], rolls \in {{}} \cup {{b} : b \in Rollbacks} : Update(o, new, rolls)
      BY <3>2, UpdateExact
    <3>3. CASE \E b \in Rollbacks : Correct(o, b)
      BY <3>3, CorrectExact
    <3>4. CASE Deactivate(o)
      <4>1. ~order'[o].reserveBool
        <5>1. order[o].active /\ order'[o].active = FALSE
          BY <3>4, DeactivateInactive
        <5> QED BY <5>1
      <4> QED BY <3>4, <4>1, DeactivateExact
    <3>5. CASE Reactivate(o)
      <4>1. ~order'[o].reserveBool
        <5>1. ~order[o].active /\ order'[o].active = TRUE
          BY <3>5, ReactivateActive
        <5> QED BY <5>1
      <4> QED BY <3>5, <4>1, ReactivateExact
    <3>6. CASE RetryReservation(o)
      BY <3>6, RetryExact
    <3> QED BY <2>1, <3>1, <3>2, <3>3, <3>4, <3>5, <3>6
  <2>2. CASE \E active \in BOOLEAN : SetLoteActive(active)
    BY <2>2, LoteExact
  <2>3. CASE \E r \in Rows, d \in {-1, 1} : Move(r, d)
    BY <2>3, MoveExact
  <2> QED BY <2>1, <2>2, <2>3 DEF Next
<1> QED BY <1>1, SaleInvAlways, PolicyInvAlways, PTL DEF Spec, ReservedKept
-----------------------------------------------------------------------------
\* The steps of each operation, in the order they come in.
Steps ==
  [start |-> {"mark", "reserve", "commit"}, update |-> {"write"}, cancel |-> {"release", "finish"},
   close |-> {"release", "out", "in", "finish"}, auto |-> {"release", "out", "in", "finish"}]

\* An operation under way.
Operation ==
  [op : DOMAIN Steps, order : ProductionOrders, pc : UNION {Steps[op] : op \in DOMAIN Steps},
   seen : Nat, need : Nat, left : BOOLEAN, boot : BOOLEAN]

\* Each worker is free or at a step of its operation.
WorkerType ==
  /\ worker \in [Workers -> Operation \cup {Idle}]
  /\ \A w \in Workers : worker[w] # Idle => worker[w].pc \in Steps[worker[w].op]

\* Balances and postings are numbers.
StockTypes ==
  /\ held \in [ProductionOrders -> Int] /\ reserved \in Int /\ onHand \in Int
  /\ consumed \in [ProductionOrders -> Nat] /\ finished \in [ProductionOrders -> Nat]
  /\ usage \in Usages

\* No order is ever PARTIAL: the transaction that writes it rolls back.
OrderTypes ==
  /\ status \in [ProductionOrders -> Statuses \ {"PARTIAL"}]
  /\ quantity \in [ProductionOrders -> Nat]

\* Dates, timers, launched runs and the process.
TimerTypes ==
  /\ timer \in [ProductionOrders -> {"none", "past", "near", "far"}]
  /\ date \in [ProductionOrders -> {"past", "near", "far"}]
  /\ runs \subseteq ProductionOrders /\ queue \subseteq ProductionOrders
  /\ proc \in {"up", "down", "booting"}

ProductionTypes == OrderTypes /\ StockTypes /\ TimerTypes /\ WorkerType

\* A process that is down has no operation, run or timer; one that serves has no order left to visit.
DownIsEmpty ==
  /\ proc = "down" => /\ worker = [w \in Workers |-> Idle]
                      /\ runs = {} /\ timer = [o \in ProductionOrders |-> "none"]
  /\ proc = "up" => queue = {}

\* Something will close the order, or its automatic run has failed.
Watched(o) ==
  \/ o \in lost \cup queue \cup runs \/ timer[o] # "none"
  \/ \E w \in Workers : worker[w].op = "auto" /\ worker[w].order = o

\* The timer is set before the start commits, so a start about to commit counts.
StartedOrStarting(o) ==
  status[o] = "IN_PROGRESS" \/ \E w \in Workers : worker[w].pc = "commit" /\ worker[w].order = o

WatchInv ==
  \A o \in ProductionOrders : proc # "down" /\ StartedOrStarting(o) => Watched(o)

\* The orders that start-up has still to visit are as it found them, and only it works on them.
QueueInv ==
  \A o \in queue :
    /\ status[o] = "IN_PROGRESS" /\ timer[o] = "none" /\ o \notin runs
    /\ \A w \in Workers : worker[w].order = o => worker[w].boot /\ worker[w].op = "auto"

\* An order between operations.
AtRest(o) ==
  /\ status[o] = "IN_PROGRESS" => quantity[o] >= 1
  /\ held[o] = IF status[o] = "IN_PROGRESS" THEN Need(o) ELSE 0
  /\ consumed[o] = IF status[o] = "COMPLETED" THEN 1 ELSE 0
  /\ finished[o] = consumed[o]

\* What the order holds and has posted.
Carries(o, h, c, f) == held[o] = h /\ consumed[o] = c /\ finished[o] = f

\* What an operation has done to its order when it is at each step.
InStep(x, o) ==
  /\ x.pc \in {"mark", "reserve"} => status[o] = "DRAFT" /\ quantity[o] >= 1 /\ ~x.left
  /\ x.pc = "commit" => status[o] = "DRAFT" /\ quantity[o] >= 1 /\ Carries(o, Need(o), 0, 0)
  /\ x.pc = "write" => status[o] = "DRAFT" /\ ~x.left
  /\ x.pc = "release" => status[o] = "IN_PROGRESS" /\ ~x.left /\ (x.op # "cancel" => x.seen >= 1)
  /\ x.pc = "out" => Carries(o, 0, 0, 0) /\ x.need >= 1 /\ x.seen >= 1 /\ x.left
  /\ x.pc = "in" => Carries(o, 0, 1, 0) /\ x.seen >= 1 /\ x.left
  /\ x.pc = "finish" => IF x.op = "cancel" THEN Carries(o, 0, 0, 0) ELSE Carries(o, 0, 1, 1)

Sound(o) ==
  /\ (\A w \in Workers : worker[w].order = o => ~worker[w].left) => AtRest(o)
  /\ \A w \in Workers : worker[w].order = o => InStep(worker[w], o)

\* No two operations are at one order.  The code does not enforce it: the use cases read the
\* order without locking it, and two requests for one order can pass the same checks.
OneAtATime ==
  \A v, w \in Workers : worker[v].order = worker[w].order => v = w \/ worker[v] = Idle

\* Every order that was not cut short is where its operation has left it.
SoundInv == \A o \in ProductionOrders \ diverged : Sound(o)


Pcs == UNION {Steps[op] : op \in DOMAIN Steps}

\* The steps of each kind of operation.
LEMMA StepsAre ==
  /\ DOMAIN Steps = {"start", "update", "cancel", "close", "auto"}
  /\ Steps.start = {"mark", "reserve", "commit"} /\ Steps.update = {"write"}
  /\ Steps.cancel = {"release", "finish"}
  /\ Steps.close = {"release", "out", "in", "finish"} /\ Steps.auto = Steps.close
  BY DEF Steps

\* All the places an operation can be at.
LEMMA PcsAre == Pcs = {"mark", "reserve", "commit", "write", "release", "out", "in", "finish"}
<1>1. Pcs = UNION {Steps.start, Steps.update, Steps.cancel, Steps.close, Steps.auto}
  BY StepsAre DEF Pcs
<1> QED BY <1>1, StepsAre

\* What an order needs is a number of units, and not none when it has items.
LEMMA NeedNat ==
  ASSUME ProductionTypes, NEW o \in ProductionOrders
  PROVE  Need(o) \in Nat /\ (quantity[o] >= 1 => Need(o) >= 1)
<1>1. quantity[o] \in Nat /\ usage \in Nat /\ usage >= 1
  BY ProductionAssumption DEF ProductionTypes, OrderTypes, StockTypes
<1>2. \A a, b \in Nat : a * b \in Nat /\ (a >= 1 /\ b >= 1 => a * b >= 1)
  OBVIOUS
<1> QED BY <1>1, <1>2 DEF Need

\* A free worker is at no step of any operation.
LEMMA IdleIs ==
  /\ Idle.order = "none" /\ Idle.pc = "idle" /\ Idle.op = "none" /\ Idle.left = FALSE
  /\ Idle \notin Operation
  BY StepsAre DEF Idle, Operation

\* A worker that is not free works on an order, at a step of its operation.
LEMMA Working ==
  ASSUME ProductionTypes, NEW w \in Workers, worker[w] # Idle
  PROVE  /\ worker[w] \in Operation /\ worker[w].pc \in Steps[worker[w].op]
         /\ worker[w].order \in ProductionOrders
  BY DEF ProductionTypes, WorkerType, Operation

\* The same, known by the step it is at.
LEMMA AtPc ==
  ASSUME ProductionTypes, NEW w \in Workers, worker[w].pc # "idle"
  PROVE  /\ worker[w] # Idle /\ worker[w] \in Operation /\ worker[w].pc \in Steps[worker[w].op]
         /\ worker[w].order \in ProductionOrders
  BY Working, IdleIs

\* An operation that goes on to another step is an operation.
LEMMA MovedTo ==
  ASSUME NEW x \in Operation, NEW p \in Pcs, NEW n \in Nat, NEW b \in BOOLEAN
  PROVE  /\ [x EXCEPT !.pc = p] \in Operation
         /\ [x EXCEPT !.pc = p, !.left = b] \in Operation
         /\ [x EXCEPT !.need = n, !.left = b, !.pc = p] \in Operation
  BY DEF Operation, Pcs

\* What the going on changes, field by field.
LEMMA OperationFields ==
  ASSUME NEW x \in Operation, NEW p, NEW n, NEW b
  PROVE  /\ LET y == [x EXCEPT !.pc = p] IN
              /\ y.op = x.op /\ y.order = x.order /\ y.pc = p /\ y.seen = x.seen /\ y.need = x.need
              /\ y.left = x.left /\ y.boot = x.boot
         /\ LET y == [x EXCEPT !.pc = p, !.left = b] IN
              /\ y.op = x.op /\ y.order = x.order /\ y.pc = p /\ y.seen = x.seen /\ y.need = x.need
              /\ y.left = b /\ y.boot = x.boot
         /\ LET y == [x EXCEPT !.need = n, !.left = b, !.pc = p] IN
              /\ y.op = x.op /\ y.order = x.order /\ y.pc = p /\ y.seen = x.seen /\ y.need = n
              /\ y.left = b /\ y.boot = x.boot
  BY DEF Operation

\* What Begins puts in a free place.
LEMMA BeginsIs ==
  ASSUME NEW w \in Workers, NEW op \in DOMAIN Steps, NEW o \in ProductionOrders, NEW n \in Nat,
         NEW b \in BOOLEAN, Begins(w, op, o, n, b)
  PROVE  \E y \in Operation :
           /\ Goes(w, y) /\ y.pc \in Steps[y.op] /\ y.pc = FirstStep(op, o)
           /\ y.op = op /\ y.order = o /\ y.seen = n /\ ~y.left
<1> DEFINE y == [Idle EXCEPT !.op = op, !.order = o, !.pc = FirstStep(op, o), !.seen = n, !.boot = b]
<1>1. FirstStep(op, o) \in Steps[op]
  BY StepsAre DEF FirstStep
<1>2. FirstStep(op, o) \in Pcs
  BY <1>1 DEF Pcs
<1>4. y \in Operation
  BY <1>1, <1>2 DEF Idle, Operation, Pcs
<1>5. /\ y.op = op /\ y.order = o /\ y.seen = n /\ ~y.left /\ y.pc = FirstStep(op, o)
  BY DEF Idle
<1>6. Goes(w, y)
  BY DEF Begins
<1> HIDE DEF y
<1> QED BY <1>1, <1>4, <1>5, <1>6

\* A visit of start-up (RunProductionTimeUsecase awaited by onApplicationBootstrap) is marked as such.
LEMMA BootBegins ==
  ASSUME NEW w \in Workers, NEW o \in ProductionOrders, NEW n \in Nat, Begins(w, "auto", o, n, TRUE)
  PROVE  \E y : Goes(w, y) /\ y.order = o /\ y.op = "auto" /\ y.boot
<1> DEFINE y == [Idle EXCEPT !.op = "auto", !.order = o, !.pc = FirstStep("auto", o), !.seen = n, !.boot = TRUE]
<1>1. y.op = "auto" /\ y.order = o /\ y.boot
  BY DEF Idle
<1>2. Goes(w, y)
  BY DEF Begins
<1> HIDE DEF y
<1> QED BY <1>1, <1>2


\* A worker that takes up an operation, goes on with it or ends it.
LEMMA TypesGo ==
  ASSUME WorkerType, NEW w \in Workers, NEW x \in Operation \cup {Idle}, Goes(w, x),
         x # Idle => x.pc \in Steps[x.op]
  PROVE  WorkerType'
  BY DEF WorkerType, Goes

\* A worker that goes on to a step of the operation it is at.
LEMMA TypesAdvance ==
  ASSUME WorkerType, NEW w \in Workers, worker[w] \in Operation,
         worker[w].op \in DOMAIN Steps, NEW p \in Steps[worker[w].op], NEW n \in Nat, NEW b \in BOOLEAN,
         \/ Goes(w, [worker[w] EXCEPT !.pc = p])
         \/ Goes(w, [worker[w] EXCEPT !.pc = p, !.left = b])
         \/ Goes(w, [worker[w] EXCEPT !.need = n, !.left = b, !.pc = p])
  PROVE  WorkerType'
<1> DEFINE x == worker[w]
           y1 == [x EXCEPT !.pc = p]
           y2 == [x EXCEPT !.pc = p, !.left = b]
           y3 == [x EXCEPT !.need = n, !.left = b, !.pc = p]
<1>1. p \in Pcs
  BY DEF Pcs
<1>2. x \in Operation
  OBVIOUS
<1>3. y1 \in Operation /\ y2 \in Operation /\ y3 \in Operation
  BY <1>1, <1>2, MovedTo
<1>4. y1.pc = p /\ y1.op = x.op /\ y2.pc = p /\ y2.op = x.op /\ y3.pc = p /\ y3.op = x.op
  BY <1>2, OperationFields
<1>5. Goes(w, y1) \/ Goes(w, y2) \/ Goes(w, y3)
  OBVIOUS
<1>6. p \in Steps[x.op]
  OBVIOUS
<1> HIDE DEF y1, y2, y3
<1>7. CASE Goes(w, y1)
  BY <1>3, <1>4, <1>6, <1>7, TypesGo
<1>8. CASE Goes(w, y2)
  BY <1>3, <1>4, <1>6, <1>8, TypesGo
<1>9. CASE Goes(w, y3)
  BY <1>3, <1>4, <1>6, <1>9, TypesGo
<1> QED BY <1>5, <1>7, <1>8, <1>9

\* A worker that ends its operation.
LEMMA TypesIdle ==
  ASSUME WorkerType, NEW w \in Workers, Goes(w, Idle)
  PROVE  WorkerType'
  BY TypesGo

\* The scheduler sets a timer or launches a run.
LEMMA TypesSchedule ==
  ASSUME TimerTypes, NEW o \in ProductionOrders, NEW d \in Waits \cup {date[o]}, Schedules(o, d),
         proc' \in {"up", "down", "booting"}, queue' \subseteq queue
  PROVE  TimerTypes'
<1>1. d \in {"past", "near", "far"}
  BY ProductionAssumption DEF TimerTypes
<1> QED BY <1>1 DEF TimerTypes, Schedules

\* An operation that throws keeps the types.
LEMMA TypesThrow ==
  ASSUME ProductionTypes, NEW w \in Workers, Throws(w), usage' = usage
  PROVE  ProductionTypes'
<1>1. CASE worker[w].boot
  <2>1. Exit
    BY <1>1 DEF Throws
  <2>2. OrderTypes' /\ StockTypes'
    BY <2>1 DEF Exit, ProductionTypes, OrderTypes, StockTypes, orderVars, stockVars
  <2>3. TimerTypes'
    BY <2>1 DEF Exit, ProductionTypes, TimerTypes
  <2>4. WorkerType'
    BY <2>1 DEF Exit, ProductionTypes, WorkerType
  <2> QED BY <2>2, <2>3, <2>4 DEF ProductionTypes
<1>2. CASE ~worker[w].boot
  <2>1. WorkerType'
    BY <1>2, TypesIdle DEF Throws, ProductionTypes
  <2>2. OrderTypes' /\ StockTypes' /\ TimerTypes'
    BY <1>2
       DEF Throws, ProductionTypes, OrderTypes, StockTypes, TimerTypes, orderVars, stockVars,
           procVars
  <2> QED BY <2>1, <2>2 DEF ProductionTypes
<1> QED BY <1>1, <1>2

\* The steps of an operation keep the types.
LEMMA TypesWork ==
  ASSUME ProductionTypes, NEW w \in Workers, Works(w)
  PROVE  ProductionTypes'
<1> DEFINE x == worker[w]
           o == x.order
<1>0. OrderTypes /\ StockTypes /\ TimerTypes /\ WorkerType
  BY DEF ProductionTypes
<1>1. CASE Mark(w)
  <2>1. x \in Operation /\ x.pc = "mark" /\ x.pc \in Steps[x.op]
    BY <1>1, AtPc DEF Mark
  <2>2. x.op = "start"
    BY <2>1, StepsAre DEF Operation
  <2>4. WorkerType'
    BY <1>0, <1>1, <2>1, <2>2, StepsAre, TypesAdvance DEF Mark
  <2> QED BY <1>0, <1>1, <2>4
             DEF Mark, ProductionTypes, OrderTypes, StockTypes, TimerTypes, orderVars, stockVars,
                 timerVars, faultVars, procVars
<1>2. CASE Reserve(w)
  <2>1. x \in Operation /\ x.pc = "reserve" /\ x.pc \in Steps[x.op] /\ o \in ProductionOrders
    BY <1>2, AtPc DEF Reserve
  <2>2. x.op = "start" /\ Need(o) \in Nat
    BY <2>1, StepsAre, NeedNat DEF Operation
  <2>3. CASE onHand - reserved >= Need(o)
    <3> DEFINE b == Need(o) > 0
    <3>2. WorkerType'
      <4>1. Goes(w, [x EXCEPT !.pc = "commit", !.left = b])
        BY <1>2, <2>3 DEF Reserve
      <4>2. b \in BOOLEAN
        OBVIOUS
      <4> HIDE DEF b
      <4> QED BY <1>0, <4>1, <4>2, <2>1, <2>2, StepsAre, TypesAdvance
    <3>3. PICK d \in Waits : Schedules(o, d)
      BY <1>2, <2>3 DEF Reserve
    <3>4. TimerTypes'
      BY <1>0, <1>2, <2>1, <2>3, <3>3, TypesSchedule DEF Reserve, procVars, TimerTypes
    <3>5. OrderTypes' /\ StockTypes'
      BY <1>0, <1>2, <2>1, <2>2, <2>3 DEF Reserve, OrderTypes, StockTypes, orderVars, faultVars
    <3> QED BY <3>2, <3>4, <3>5 DEF ProductionTypes
  <2>4. CASE ~(onHand - reserved >= Need(o))
    BY <1>2, <2>4, TypesThrow DEF Reserve, faultVars
  <2> QED BY <2>3, <2>4
<1>3. CASE Commit(w)
  <2>1. o \in ProductionOrders
    BY <1>3, AtPc DEF Commit
  <2>2. WorkerType'
    BY <1>0, <1>3, TypesIdle DEF Commit
  <2> QED BY <1>0, <1>3, <2>1, <2>2
             DEF Commit, ProductionTypes, OrderTypes, StockTypes, TimerTypes, stockVars, timerVars,
                 faultVars, procVars, Statuses
<1>4. CASE Write(w)
  <2>1. x \in Operation /\ o \in ProductionOrders
    BY <1>4, AtPc DEF Write
  <2>2. CASE status[o] = "DRAFT" \/ x.seen = 0
    <3>1. WorkerType'
      BY <1>0, <1>4, <2>2, TypesIdle DEF Write
    <3>2. x.seen \in Nat
      BY <2>1 DEF Operation
    <3> QED BY <1>0, <1>4, <2>1, <2>2, <3>1, <3>2
               DEF Write, ProductionTypes, OrderTypes, StockTypes, TimerTypes, stockVars,
                   timerVars, faultVars, procVars
  <2>3. CASE ~(status[o] = "DRAFT" \/ x.seen = 0)
    BY <1>4, <2>3, TypesThrow DEF Write, faultVars
  <2> QED BY <2>2, <2>3
<1>5. CASE Release(w)
  <2>1. x \in Operation /\ x.pc = "release" /\ x.pc \in Steps[x.op] /\ o \in ProductionOrders
    BY <1>5, AtPc DEF Release
  <2>2. x.op \in {"cancel", "close", "auto"} /\ Need(o) \in Nat
    BY <2>1, StepsAre, NeedNat DEF Operation
  <2>3. CASE reserved >= Need(o)
    <3> DEFINE b == Need(o) > 0
               p == IF x.op = "cancel" THEN "finish" ELSE "out"
               n == Need(o)
    <3>2. WorkerType'
      <4>1. Goes(w, [x EXCEPT !.need = n, !.left = b, !.pc = p])
        BY <1>5, <2>3 DEF Release
      <4>2. p \in Steps[x.op]
        BY <2>2, StepsAre
      <4>3. b \in BOOLEAN
        OBVIOUS
      <4>4. n \in Nat
        BY <2>2
      <4>5. x.op \in DOMAIN Steps
        BY <2>2, StepsAre
      <4> HIDE DEF b, p, n
      <4> QED BY <1>0, <4>1, <2>1, <4>2, <4>3, <4>4, <4>5, TypesAdvance
    <3>3. OrderTypes' /\ StockTypes' /\ TimerTypes'
      BY <1>0, <1>5, <2>1, <2>2, <2>3
         DEF Release, OrderTypes, StockTypes, TimerTypes, orderVars, faultVars, timerVars, procVars
    <3> QED BY <3>2, <3>3 DEF ProductionTypes
  <2>4. CASE ~(reserved >= Need(o))
    BY <1>5, <2>4, TypesThrow DEF Release, faultVars
  <2> QED BY <2>3, <2>4
<1>6. CASE PostOut(w)
  <2>1. x \in Operation /\ x.pc = "out" /\ x.pc \in Steps[x.op] /\ o \in ProductionOrders
    BY <1>6, AtPc DEF PostOut
  <2>2. x.op \in {"close", "auto"} /\ x.need \in Nat
    BY <2>1, StepsAre DEF Operation
  <2>3. CASE x.need = 0 \/ onHand - reserved >= x.need
    <3>2. WorkerType'
      BY <1>0, <1>6, <2>1, <2>2, <2>3, StepsAre, TypesAdvance DEF PostOut
    <3>3. OrderTypes' /\ StockTypes' /\ TimerTypes'
      BY <1>0, <1>6, <2>1, <2>2, <2>3
         DEF PostOut, OrderTypes, StockTypes, TimerTypes, faultVars, timerVars, procVars
    <3> QED BY <3>2, <3>3 DEF ProductionTypes
  <2>4. CASE ~(x.need = 0 \/ onHand - reserved >= x.need)
    BY <1>6, <2>4, TypesThrow DEF PostOut, faultVars
  <2> QED BY <2>3, <2>4
<1>7. CASE PostIn(w)
  <2>1. x \in Operation /\ x.pc = "in" /\ x.pc \in Steps[x.op] /\ o \in ProductionOrders
    BY <1>7, AtPc DEF PostIn
  <2>2. x.op \in {"close", "auto"}
    BY <2>1, StepsAre DEF Operation
  <2>4. WorkerType'
    BY <1>0, <1>7, <2>1, <2>2, StepsAre, TypesAdvance DEF PostIn
  <2>5. finished' \in [ProductionOrders -> Nat]
    BY <1>0, <1>7, <2>1 DEF PostIn, StockTypes
  <2> QED BY <1>0, <1>7, <2>4, <2>5
             DEF PostIn, ProductionTypes, OrderTypes, StockTypes, TimerTypes, stockVars, timerVars,
                 faultVars, procVars
<1>8. CASE Finish(w)
  <2>1. o \in ProductionOrders
    BY <1>8, AtPc DEF Finish
  <2>2. WorkerType'
    BY <1>0, <1>8, TypesIdle DEF Finish
  <2>3. OrderTypes'
    BY <1>0, <1>8, <2>1 DEF Finish, OrderTypes, Statuses
  <2>4. StockTypes' /\ TimerTypes'
    BY <1>0, <1>8, <2>1 DEF Finish, StockTypes, TimerTypes, stockVars, timerVars, faultVars
  <2> QED BY <2>2, <2>3, <2>4 DEF ProductionTypes
<1> QED BY <1>1, <1>2, <1>3, <1>4, <1>5, <1>6, <1>7, <1>8 DEF Works


\* Everything else keeps the types as well.
LEMMA TypesBegin ==
  ASSUME WorkerType, NEW w \in Workers, NEW op \in DOMAIN Steps, NEW o \in ProductionOrders,
         NEW n \in Nat, NEW b \in BOOLEAN, Begins(w, op, o, n, b)
  PROVE  WorkerType'
<1>1. PICK y \in Operation : Goes(w, y) /\ y.pc \in Steps[y.op]
  BY BeginsIs
<1> QED BY <1>1, TypesGo

\* Every step of the production orders keeps the types.
LEMMA TypesStep ==
  ASSUME ProductionTypes, [ProductionNext]_productionVars
  PROVE  ProductionTypes'
<1>0. OrderTypes /\ StockTypes /\ TimerTypes /\ WorkerType
  BY DEF ProductionTypes
<1> USE DEF ProductionTypes
<1>1. ASSUME NEW o \in ProductionOrders, Create(o) PROVE ProductionTypes'
  <2>1. OrderTypes'
    BY <1>0, <1>1, ProductionAssumption DEF Create, OrderTypes, Statuses
  <2> QED BY <1>0, <1>1, <2>1
             DEF Create, StockTypes, TimerTypes, WorkerType, stockVars, timerVars, faultVars,
                 procVars
<1>2. ASSUME NEW o \in ProductionOrders, TimePasses(o) PROVE ProductionTypes'
  <2>1. TimerTypes'
    BY <1>0, <1>2 DEF TimePasses, TimerTypes, procVars
  <2> QED BY <1>0, <1>2, <2>1
             DEF TimePasses, OrderTypes, StockTypes, WorkerType, orderVars, stockVars, faultVars
<1>3. ASSUME NEW o \in ProductionOrders, TimerFires(o) PROVE ProductionTypes'
  <2>1. TimerTypes'
    BY <1>0, <1>3 DEF TimerFires, TimerTypes, procVars
  <2> QED BY <1>0, <1>3, <2>1
             DEF TimerFires, OrderTypes, StockTypes, WorkerType, orderVars, stockVars, faultVars
<1>4. ASSUME NEW o \in ProductionOrders, ExtraTime(o) PROVE ProductionTypes'
  <2>1. PICK d \in Waits : Schedules(o, d)
    BY <1>4 DEF ExtraTime
  <2>2. TimerTypes'
    BY <1>0, <1>4, <2>1, TypesSchedule DEF ExtraTime, procVars, TimerTypes
  <2> QED BY <1>0, <1>4, <2>2
             DEF ExtraTime, OrderTypes, StockTypes, WorkerType, orderVars, stockVars
<1>5. ASSUME NEW o \in ProductionOrders, NEW w \in Workers, AutomaticRun(w, o) PROVE ProductionTypes'
  <2>1. WorkerType'
    <3>1. CASE CanBegin("auto", o)
      <4>1. Begins(w, "auto", o, quantity[o], FALSE) /\ quantity[o] \in Nat
        BY <1>0, <1>5, <3>1 DEF AutomaticRun, OrderTypes
      <4> QED BY <1>0, <4>1, StepsAre, TypesBegin
    <3>2. CASE ~CanBegin("auto", o)
      BY <1>0, <1>5, <3>2 DEF AutomaticRun, WorkerType
    <3> QED BY <3>1, <3>2
  <2>2. TimerTypes'
    BY <1>0, <1>5 DEF AutomaticRun, TimerTypes, procVars
  <2> QED BY <1>0, <1>5, <2>1, <2>2
             DEF AutomaticRun, OrderTypes, StockTypes, orderVars, stockVars, faultVars
<1>6. ASSUME NEW w \in Workers, NEW o \in ProductionOrders, NEW op \in {"start", "update", "cancel", "close"},
             Request(w, op, o)
      PROVE  ProductionTypes'
  <2>1. PICK q \in Quantities : Begins(w, op, o, q, FALSE)
    BY <1>6 DEF Request
  <2>2. q \in Nat /\ op \in DOMAIN Steps
    BY ProductionAssumption, StepsAre
  <2>3. WorkerType'
    BY <1>0, <2>1, <2>2, TypesBegin
  <2> QED BY <1>0, <1>6, <2>3
             DEF Request, OrderTypes, StockTypes, TimerTypes, orderVars, stockVars, timerVars,
                 faultVars, procVars
<1>7. ASSUME NEW w \in Workers, Works(w) PROVE ProductionTypes'
  BY <1>7, TypesWork
<1>8. ASSUME NEW w \in Workers, Error(w) PROVE ProductionTypes'
  BY <1>8, TypesThrow DEF Error
<1>9. CASE EditRecipe
  BY <1>0, <1>9
     DEF EditRecipe, OrderTypes, StockTypes, TimerTypes, WorkerType, orderVars, stockVars,
         timerVars, procVars
<1>10. CASE TakenElsewhere
  <2>1. onHand' \in Int
    BY <1>0, <1>10 DEF TakenElsewhere, StockTypes
  <2> QED BY <1>0, <1>10, <2>1
             DEF TakenElsewhere, OrderTypes, StockTypes, TimerTypes, WorkerType, orderVars,
                 timerVars, procVars
<1>11. CASE Crash
  <2>1. OrderTypes' /\ StockTypes'
    BY <1>0, <1>11 DEF Crash, Exit, OrderTypes, StockTypes, orderVars, stockVars
  <2>2. TimerTypes'
    BY <1>0, <1>11 DEF Crash, Exit, TimerTypes
  <2>3. WorkerType'
    BY <1>0, <1>11 DEF Crash, Exit, WorkerType
  <2> QED BY <2>1, <2>2, <2>3
<1>12. CASE Restart
  BY <1>0, <1>12
     DEF Restart, OrderTypes, StockTypes, TimerTypes, WorkerType, orderVars, stockVars, timerVars,
         faultVars
<1>13. CASE Listens
  BY <1>0, <1>13
     DEF Listens, OrderTypes, StockTypes, TimerTypes, WorkerType, orderVars, stockVars, timerVars,
         faultVars
<1>14. ASSUME NEW o \in ProductionOrders, BootTimer(o) PROVE ProductionTypes'
  <2>1. TimerTypes'
    BY <1>0, <1>14, TypesSchedule DEF BootTimer, TimerTypes
  <2> QED BY <1>0, <1>14, <2>1
             DEF BootTimer, OrderTypes, StockTypes, WorkerType, orderVars, stockVars, faultVars
<1>15. ASSUME NEW o \in ProductionOrders, NEW w \in Workers, BootRun(w, o) PROVE ProductionTypes'
  <2>1. Begins(w, "auto", o, quantity[o], TRUE) /\ quantity[o] \in Nat
    BY <1>0, <1>15 DEF BootRun, OrderTypes
  <2>2. WorkerType'
    BY <1>0, <2>1, StepsAre, TypesBegin
  <2> QED BY <1>0, <1>15, <2>2
             DEF BootRun, OrderTypes, StockTypes, TimerTypes, orderVars, stockVars, timerVars,
                 faultVars, procVars
<1>16. CASE UNCHANGED productionVars
  BY <1>0, <1>16
     DEF productionVars, OrderTypes, StockTypes, TimerTypes, WorkerType, orderVars, stockVars,
         timerVars, faultVars, procVars
<1> HIDE DEF ProductionTypes
<1> QED BY <1>1, <1>2, <1>3, <1>4, <1>5, <1>6, <1>7, <1>8, <1>9, <1>10, <1>11, <1>12, <1>13, <1>14,
           <1>15, <1>16
        DEF ProductionNext, Runs, Boots


\* A process that has ended has nothing under way.
LEMMA WorkingUp ==
  ASSUME ProductionTypes, DownIsEmpty, NEW w \in Workers, worker[w] # Idle
  PROVE  proc # "down"
  BY DEF DownIsEmpty

\* While the process is up, only its queue matters, and that never grows but in Restart.
LEMMA DownSame ==
  ASSUME DownIsEmpty, proc # "down", proc' = proc, queue' \subseteq queue
  PROVE  DownIsEmpty'
  BY DEF DownIsEmpty

\* Goes changes the operation of one worker.
LEMMA WentIs ==
  ASSUME WorkerType, NEW w \in Workers, NEW x, Goes(w, x)
  PROVE  worker'[w] = x /\ \A v \in Workers \ {w} : worker'[v] = worker[v]
  BY DEF WorkerType, Goes

\* An operation that goes on, without touching an order or a timer, leaves every order watched.
LEMMA WatchAdvance ==
  ASSUME ProductionTypes, DownIsEmpty, WatchInv, NEW w \in Workers, NEW x, Goes(w, x),
         worker[w] # Idle, x.op = worker[w].op, x.order = worker[w].order, x.pc # "commit",
         status' = status, timer' = timer, runs' = runs, lost' = lost, queue' = queue, proc' = proc
  PROVE  WatchInv' /\ DownIsEmpty'
<1>1. proc # "down"
  BY WorkingUp
<1>2. worker'[w] = x /\ \A v \in Workers \ {w} : worker'[v] = worker[v]
  BY WentIs DEF ProductionTypes
<1>3. DownIsEmpty'
  BY <1>1, DownSame
<1>4. ASSUME NEW o \in ProductionOrders, StartedOrStarting(o)'
      PROVE  Watched(o)'
  <2>1. StartedOrStarting(o)
    BY <1>2, <1>4 DEF StartedOrStarting
  <2>2. Watched(o)
    BY <1>1, <2>1 DEF WatchInv
  <2> QED BY <1>2, <2>2 DEF Watched
<1> QED BY <1>3, <1>4 DEF WatchInv

\* So does one that throws: an automatic run that ends so gives its order up.
LEMMA WatchThrow ==
  ASSUME ProductionTypes, DownIsEmpty, WatchInv, NEW w \in Workers, Throws(w), worker[w] # Idle
  PROVE  WatchInv' /\ DownIsEmpty'
<1>1. proc # "down"
  BY WorkingUp
<1>2. CASE worker[w].boot
  <2>1. Exit
    BY <1>2 DEF Throws
  <2> QED BY <2>1 DEF Exit, WatchInv, DownIsEmpty
<1>3. CASE ~worker[w].boot
  <2>1. worker'[w] = Idle /\ \A v \in Workers \ {w} : worker'[v] = worker[v]
    BY <1>3, WentIs DEF Throws, ProductionTypes
  <2>2. /\ status' = status /\ timer' = timer /\ runs' = runs /\ queue' = queue /\ proc' = proc
        /\ lost' = IF worker[w].op = "auto" THEN lost \cup {worker[w].order} ELSE lost
    BY <1>3 DEF Throws, orderVars, procVars
  <2>3. DownIsEmpty'
    BY <1>1, <2>2, DownSame
  <2>4. ASSUME NEW o \in ProductionOrders, StartedOrStarting(o)'
        PROVE  Watched(o)'
    <3>1. StartedOrStarting(o)
      BY <2>1, <2>2, <2>4, IdleIs DEF StartedOrStarting
    <3>2. Watched(o)
      BY <1>1, <3>1 DEF WatchInv
    <3>3. CASE worker[w].op = "auto" /\ worker[w].order = o
      BY <2>2, <3>3 DEF Watched
    <3>4. CASE ~(worker[w].op = "auto" /\ worker[w].order = o)
      BY <2>1, <2>2, <3>2, <3>4 DEF Watched
    <3> QED BY <3>3, <3>4
  <2> QED BY <2>3, <2>4 DEF WatchInv
<1> QED BY <1>2, <1>3

\* Setting the timer is enough for an order, and changes nothing for the others.
LEMMA WatchSchedule ==
  ASSUME ProductionTypes, WatchInv, proc # "down", NEW p \in ProductionOrders, NEW d, Schedules(p, d),
         d # "none", queue' = queue \/ queue' = queue \ {p},
         \A v \in Workers : worker'[v].op = worker[v].op /\ worker'[v].order = worker[v].order,
         NEW o \in ProductionOrders, o # p => StartedOrStarting(o)
  PROVE  Watched(o)'
<1>1. CASE o = p
  BY <1>1 DEF Schedules, Watched, ProductionTypes, TimerTypes
<1>2. CASE o # p
  <2>1. Watched(o)
    BY <1>2 DEF WatchInv
  <2>2. timer'[o] = timer[o] /\ runs \subseteq runs' /\ lost' = lost \ {p}
    BY <1>2 DEF Schedules, ProductionTypes, TimerTypes
  <2> QED BY <1>2, <2>1, <2>2 DEF Watched
<1> QED BY <1>1, <1>2

\* A manufacture date lies some distance away.
LEMMA WaitsAre == \A d \in Waits : d # "none" /\ d \in {"past", "near", "far"}
  BY ProductionAssumption

\* The steps of an operation leave every started order watched: a start sets the timer
\* before it commits, and a closing ends what was to be watched.
LEMMA WatchWork ==
  ASSUME ProductionTypes, DownIsEmpty, WatchInv, NEW w \in Workers, Works(w)
  PROVE  WatchInv' /\ DownIsEmpty'
<1> DEFINE x == worker[w]
           p == x.order
<1>0. WorkerType
  BY DEF ProductionTypes
<1>1. CASE Mark(w)
  <2>1. x # Idle /\ x \in Operation
    BY <1>1, AtPc DEF Mark
  <2> DEFINE y == [x EXCEPT !.pc = "reserve"]
  <2>2. y.op = x.op /\ y.order = x.order /\ y.pc # "commit"
    BY <2>1, OperationFields
  <2>3. Goes(w, y) /\ UNCHANGED <<status, timer, runs, lost, queue, proc>>
    BY <1>1 DEF Mark, orderVars, timerVars, procVars
  <2> HIDE DEF y
  <2> QED BY <2>1, <2>2, <2>3, WatchAdvance
<1>2. CASE Reserve(w)
  <2>1. x # Idle /\ x \in Operation /\ p \in ProductionOrders
    BY <1>2, AtPc DEF Reserve
  <2>2. CASE onHand - reserved >= Need(p)
    <3> DEFINE b == Need(p) > 0
               y == [x EXCEPT !.pc = "commit", !.left = b]
    <3>1. y.op = x.op /\ y.order = x.order
      BY <2>1, OperationFields
    <3>2. Goes(w, y) /\ status' = status /\ queue' = queue /\ proc' = proc
      BY <1>2, <2>2 DEF Reserve, orderVars, procVars
    <3>3. PICK d \in Waits : Schedules(p, d)
      BY <1>2, <2>2 DEF Reserve
    <3> HIDE DEF y
    <3>4. worker'[w] = y /\ \A v \in Workers \ {w} : worker'[v] = worker[v]
      BY <1>0, <3>2, WentIs
    <3>5. proc # "down" /\ DownIsEmpty'
      BY <2>1, <3>2, WorkingUp, DownSame
    <3>6. \A v \in Workers : worker'[v].op = worker[v].op /\ worker'[v].order = worker[v].order
      BY <3>1, <3>4
    <3>7. ASSUME NEW o \in ProductionOrders, StartedOrStarting(o)'
          PROVE  Watched(o)'
      <4>1. o # p => StartedOrStarting(o)
        BY <3>1, <3>2, <3>4, <3>7 DEF StartedOrStarting
      <4> QED BY <2>1, <3>2, <3>3, <3>5, <3>6, <4>1, WatchSchedule, WaitsAre
    <3> QED BY <3>5, <3>7 DEF WatchInv
  <2>3. CASE ~(onHand - reserved >= Need(p))
    BY <1>2, <2>1, <2>3, WatchThrow DEF Reserve
  <2> QED BY <2>2, <2>3
<1>3. CASE Commit(w)
  <2>1. x # Idle /\ x \in Operation /\ x.pc = "commit" /\ x.pc \in Steps[x.op] /\ p \in ProductionOrders
    BY <1>3, AtPc DEF Commit
  <2>2. x.op # "auto"
    BY <2>1, StepsAre
  <2>3. worker'[w] = Idle /\ \A v \in Workers \ {w} : worker'[v] = worker[v]
    BY <1>0, <1>3, WentIs DEF Commit
  <2>4. /\ status' = [status EXCEPT ![p] = "IN_PROGRESS"]
        /\ UNCHANGED <<timer, runs, lost, queue, proc>>
    BY <1>3 DEF Commit, timerVars, procVars
  <2>5. proc # "down" /\ DownIsEmpty'
    BY <2>1, <2>4, WorkingUp, DownSame
  <2>6. ASSUME NEW o \in ProductionOrders, StartedOrStarting(o)'
        PROVE  Watched(o)'
    <3>1. StartedOrStarting(o)
      BY <2>1, <2>3, <2>4, <2>6, IdleIs DEF StartedOrStarting, ProductionTypes, OrderTypes
    <3>2. Watched(o)
      BY <2>5, <3>1 DEF WatchInv
    <3> QED BY <2>2, <2>3, <2>4, <3>2 DEF Watched
  <2> QED BY <2>5, <2>6 DEF WatchInv
<1>4. CASE Write(w)
  <2>1. x # Idle /\ x \in Operation /\ x.pc = "write" /\ x.pc \in Steps[x.op] /\ p \in ProductionOrders
    BY <1>4, AtPc DEF Write
  <2>2. x.op # "auto"
    BY <2>1, StepsAre
  <2>3. CASE status[p] = "DRAFT" \/ x.seen = 0
    <3>1. worker'[w] = Idle /\ \A v \in Workers \ {w} : worker'[v] = worker[v]
      BY <1>0, <1>4, <2>3, WentIs DEF Write
    <3>2. UNCHANGED <<status, timer, runs, lost, queue, proc>>
      BY <1>4, <2>3 DEF Write, timerVars, procVars
    <3>3. proc # "down" /\ DownIsEmpty'
      BY <2>1, <3>2, WorkingUp, DownSame
    <3>4. ASSUME NEW o \in ProductionOrders, StartedOrStarting(o)'
          PROVE  Watched(o)'
      <4>1. StartedOrStarting(o)
        BY <3>1, <3>2, <3>4, IdleIs DEF StartedOrStarting
      <4>2. Watched(o)
        BY <3>3, <4>1 DEF WatchInv
      <4> QED BY <2>2, <3>1, <3>2, <4>2 DEF Watched
    <3> QED BY <3>3, <3>4 DEF WatchInv
  <2>4. CASE ~(status[p] = "DRAFT" \/ x.seen = 0)
    BY <1>4, <2>1, <2>4, WatchThrow DEF Write
  <2> QED BY <2>3, <2>4
<1>5. CASE Release(w)
  <2>1. x # Idle /\ x \in Operation
    BY <1>5, AtPc DEF Release
  <2>2. CASE reserved >= Need(p)
    <3> DEFINE b == Need(p) > 0
               q == IF x.op = "cancel" THEN "finish" ELSE "out"
               n == Need(p)
               y == [x EXCEPT !.need = n, !.left = b, !.pc = q]
    <3>1. y.op = x.op /\ y.order = x.order /\ y.pc = q
      <4> HIDE DEF n, b, q
      <4> QED BY <2>1, OperationFields
    <3>2. Goes(w, y) /\ UNCHANGED <<status, timer, runs, lost, queue, proc>>
      BY <1>5, <2>2 DEF Release, orderVars, timerVars, procVars
    <3>3. q # "commit"
      OBVIOUS
    <3> HIDE DEF y, q
    <3> QED BY <2>1, <3>1, <3>2, <3>3, WatchAdvance
  <2>3. CASE ~(reserved >= Need(p))
    BY <1>5, <2>1, <2>3, WatchThrow DEF Release
  <2> QED BY <2>2, <2>3
<1>6. CASE PostOut(w)
  <2>1. x # Idle /\ x \in Operation
    BY <1>6, AtPc DEF PostOut
  <2>2. CASE x.need = 0 \/ onHand - reserved >= x.need
    <3> DEFINE y == [x EXCEPT !.pc = "in"]
    <3>1. y.op = x.op /\ y.order = x.order /\ y.pc # "commit"
      BY <2>1, OperationFields
    <3>2. Goes(w, y) /\ UNCHANGED <<status, timer, runs, lost, queue, proc>>
      BY <1>6, <2>2 DEF PostOut, timerVars, procVars
    <3> HIDE DEF y
    <3> QED BY <2>1, <3>1, <3>2, WatchAdvance
  <2>3. CASE ~(x.need = 0 \/ onHand - reserved >= x.need)
    BY <1>6, <2>1, <2>3, WatchThrow DEF PostOut
  <2> QED BY <2>2, <2>3
<1>7. CASE PostIn(w)
  <2>1. x # Idle /\ x \in Operation
    BY <1>7, AtPc DEF PostIn
  <2> DEFINE y == [x EXCEPT !.pc = "finish"]
  <2>2. y.op = x.op /\ y.order = x.order /\ y.pc # "commit"
    BY <2>1, OperationFields
  <2>3. Goes(w, y) /\ UNCHANGED <<status, timer, runs, lost, queue, proc>>
    BY <1>7 DEF PostIn, timerVars, procVars
  <2> HIDE DEF y
  <2> QED BY <2>1, <2>2, <2>3, WatchAdvance
<1>8. CASE Finish(w)
  <2>1. x # Idle /\ p \in ProductionOrders
    BY <1>8, AtPc DEF Finish
  <2>2. worker'[w] = Idle /\ \A v \in Workers \ {w} : worker'[v] = worker[v]
    BY <1>0, <1>8, WentIs DEF Finish
  <2>3. /\ status'[p] \in {"CANCELLED", "COMPLETED"}
        /\ \A o \in ProductionOrders \ {p} : status'[o] = status[o]
    BY <1>8, <2>1 DEF Finish, ProductionTypes, OrderTypes
  <2>4. UNCHANGED <<timer, runs, lost, proc>> /\ (queue' = queue \/ queue' = queue \ {p})
    BY <1>8 DEF Finish, timerVars
  <2>5. proc # "down" /\ DownIsEmpty'
    BY <2>1, <2>4, WorkingUp, DownSame
  <2>6. \A v \in Workers \ {w} : ~(worker[v].order = p /\ worker[v].pc = "commit")
    BY <1>8 DEF Finish, RowFree
  <2>7. ASSUME NEW o \in ProductionOrders, StartedOrStarting(o)'
        PROVE  Watched(o)'
    <3>1. o # p
      BY <2>2, <2>3, <2>6, <2>7, IdleIs DEF StartedOrStarting
    <3>2. StartedOrStarting(o)
      BY <2>2, <2>3, <2>7, <3>1, IdleIs DEF StartedOrStarting
    <3>3. Watched(o)
      BY <2>5, <3>2 DEF WatchInv
    <3> QED BY <2>2, <2>4, <3>1, <3>3 DEF Watched
  <2> QED BY <2>5, <2>7 DEF WatchInv
<1> QED BY <1>1, <1>2, <1>3, <1>4, <1>5, <1>6, <1>7, <1>8 DEF Works


\* Every step of the production orders does.
LEMMA WatchStep ==
  ASSUME ProductionTypes, DownIsEmpty, WatchInv, [ProductionNext]_productionVars
  PROVE  WatchInv' /\ DownIsEmpty'
<1>0. WorkerType
  BY DEF ProductionTypes
<1>a. ASSUME proc # "down" \/ UNCHANGED <<worker, runs, timer>>, status' = status, worker' = worker,
             timer' = timer, runs' = runs, lost' = lost, queue' = queue, proc' = proc
      PROVE  WatchInv' /\ DownIsEmpty'
  <2>1. DownIsEmpty'
    BY <1>a DEF DownIsEmpty
  <2>2. \A o \in ProductionOrders : StartedOrStarting(o)' = StartedOrStarting(o) /\ Watched(o)' = Watched(o)
    BY <1>a DEF StartedOrStarting, Watched
  <2> QED BY <1>a, <2>1, <2>2 DEF WatchInv
<1>b. ASSUME NEW w \in Workers, NEW op \in DOMAIN Steps, NEW p \in ProductionOrders, NEW n \in Nat, NEW b \in BOOLEAN,
             worker[w] = Idle, Begins(w, op, p, n, b), proc # "down",
             op = "auto" \/ runs' = runs, runs \ {p} \subseteq runs', lost' = lost,
             status' = status, timer' = timer, queue' = queue, proc' = proc
      PROVE  WatchInv' /\ DownIsEmpty'
  <2>1. PICK y \in Operation : Goes(w, y) /\ y.op = op /\ y.order = p /\ y.pc = FirstStep(op, p)
    BY <1>b, BeginsIs
  <2>2. y.pc # "commit"
    BY <2>1 DEF FirstStep
  <2>4. worker'[w] = y /\ \A v \in Workers \ {w} : worker'[v] = worker[v]
    BY <1>0, <2>1, WentIs
  <2>5. DownIsEmpty'
    BY <1>b, DownSame
  <2>6. ASSUME NEW o \in ProductionOrders, StartedOrStarting(o)'
        PROVE  Watched(o)'
    <3>1. Watched(o)
      <4>1. StartedOrStarting(o)
        BY <1>b, <2>2, <2>4, <2>6 DEF StartedOrStarting
      <4> QED BY <1>b, <4>1 DEF WatchInv
    <3>2. CASE o \in lost \cup queue \cup runs'
      BY <1>b, <3>2 DEF Watched
    <3>3. CASE o \in runs \ runs'
      <4>1. o = p /\ op = "auto"
        BY <1>b, <3>3
      <4> QED BY <2>1, <2>4, <4>1 DEF Watched
    <3>4. CASE timer[o] # "none"
      BY <1>b, <3>4 DEF Watched
    <3>5. ASSUME NEW v \in Workers, worker[v].op = "auto", worker[v].order = o
          PROVE  Watched(o)'
      <4>1. v # w
        BY <1>b, <3>5, IdleIs
      <4> QED BY <2>4, <3>5, <4>1 DEF Watched
    <3> QED BY <3>1, <3>2, <3>3, <3>4, <3>5 DEF Watched
  <2> QED BY <2>5, <2>6 DEF WatchInv
<1>1. ASSUME NEW o \in ProductionOrders, Create(o) PROVE WatchInv' /\ DownIsEmpty'
  <2>1. /\ proc = "up" /\ status' = [status EXCEPT ![o] = "DRAFT"]
        /\ UNCHANGED <<worker, timer, runs, lost, queue, proc>>
    BY <1>1 DEF Create, timerVars, procVars
  <2>2. DownIsEmpty'
    BY <2>1, DownSame
  <2>3. ASSUME NEW q \in ProductionOrders, StartedOrStarting(q)'
        PROVE  Watched(q)'
    <3>1. StartedOrStarting(q)
      BY <2>1, <2>3 DEF StartedOrStarting, ProductionTypes, OrderTypes
    <3> QED BY <2>1, <3>1 DEF WatchInv, Watched
  <2> QED BY <2>2, <2>3 DEF WatchInv
<1>2. ASSUME NEW o \in ProductionOrders, TimePasses(o) PROVE WatchInv' /\ DownIsEmpty'
  BY <1>2, <1>a DEF TimePasses, orderVars, procVars
<1>3. ASSUME NEW o \in ProductionOrders, TimerFires(o) PROVE WatchInv' /\ DownIsEmpty'
  <2>1. /\ timer[o] # "none" /\ timer' = [timer EXCEPT ![o] = "none"] /\ runs' = runs \cup {o}
        /\ UNCHANGED <<worker, status, lost, queue, proc>>
    BY <1>3 DEF TimerFires, orderVars, procVars
  <2>2. proc # "down" /\ DownIsEmpty'
    BY <2>1, DownSame DEF DownIsEmpty
  <2>3. ASSUME NEW q \in ProductionOrders, StartedOrStarting(q)'
        PROVE  Watched(q)'
    <3>1. StartedOrStarting(q)
      BY <2>1, <2>3 DEF StartedOrStarting
    <3>2. Watched(q)
      BY <2>2, <3>1 DEF WatchInv
    <3>3. timer'[q] = IF q = o THEN "none" ELSE timer[q]
      BY <2>1 DEF ProductionTypes, TimerTypes
    <3> QED BY <2>1, <3>2, <3>3 DEF Watched
  <2> QED BY <2>2, <2>3 DEF WatchInv
<1>4. ASSUME NEW o \in ProductionOrders, ExtraTime(o) PROVE WatchInv' /\ DownIsEmpty'
  <2>1. PICK d \in Waits : Schedules(o, d)
    BY <1>4 DEF ExtraTime
  <2>2. proc = "up" /\ UNCHANGED <<worker, status, queue, proc>>
    BY <1>4 DEF ExtraTime, orderVars, procVars
  <2>3. DownIsEmpty'
    BY <2>2, DownSame
  <2>4. ASSUME NEW q \in ProductionOrders, StartedOrStarting(q)'
        PROVE  Watched(q)'
    <3>1. StartedOrStarting(q)
      BY <2>2, <2>4 DEF StartedOrStarting
    <3> QED BY <2>1, <2>2, <3>1, WatchSchedule, WaitsAre
  <2> QED BY <2>3, <2>4 DEF WatchInv
<1>5. ASSUME NEW o \in ProductionOrders, NEW w \in Workers, AutomaticRun(w, o) PROVE WatchInv' /\ DownIsEmpty'
  <2>1. /\ o \in runs /\ runs' = runs \ {o} /\ worker[w] = Idle
        /\ UNCHANGED <<status, timer, queue, proc>>
    BY <1>5 DEF AutomaticRun, orderVars, procVars
  <2>2. proc # "down"
    BY <2>1 DEF DownIsEmpty
  <2>3. CASE CanBegin("auto", o)
    <3>1. Begins(w, "auto", o, quantity[o], FALSE) /\ lost' = lost
      BY <1>5, <2>3 DEF AutomaticRun
    <3>2. quantity[o] \in Nat /\ "auto" \in DOMAIN Steps
      BY StepsAre DEF ProductionTypes, OrderTypes
    <3> QED BY <1>b, <2>1, <2>2, <3>1, <3>2
  <2>4. CASE ~CanBegin("auto", o)
    <3>1. lost' = lost \cup {o} /\ worker' = worker
      BY <1>5, <2>4 DEF AutomaticRun
    <3>2. DownIsEmpty'
      BY <2>1, <2>2, DownSame
    <3>3. ASSUME NEW q \in ProductionOrders, StartedOrStarting(q)'
          PROVE  Watched(q)'
      <4>1. StartedOrStarting(q)
        BY <2>1, <3>1, <3>3 DEF StartedOrStarting
      <4> QED BY <2>1, <2>2, <3>1, <4>1 DEF WatchInv, Watched
    <3> QED BY <3>2, <3>3 DEF WatchInv
  <2> QED BY <2>3, <2>4
<1>6. ASSUME NEW w \in Workers, NEW o \in ProductionOrders, NEW op \in {"start", "update", "cancel", "close"},
             Request(w, op, o)
      PROVE  WatchInv' /\ DownIsEmpty'
  <2>1. PICK q \in Quantities : Begins(w, op, o, q, FALSE)
    BY <1>6 DEF Request
  <2>2. q \in Nat /\ op \in DOMAIN Steps
    BY ProductionAssumption, StepsAre
  <2>3. proc # "down" /\ worker[w] = Idle /\ UNCHANGED <<status, timer, runs, lost, queue, proc>>
    BY <1>6 DEF Request, orderVars, timerVars, procVars
  <2> QED BY <1>b, <2>1, <2>2, <2>3
<1>7. ASSUME NEW w \in Workers, Works(w) PROVE WatchInv' /\ DownIsEmpty'
  BY <1>7, WatchWork
<1>8. ASSUME NEW w \in Workers, Error(w) PROVE WatchInv' /\ DownIsEmpty'
  BY <1>8, WatchThrow DEF Error
<1>9. CASE EditRecipe
  BY <1>9, <1>a DEF EditRecipe, orderVars, timerVars, procVars
<1>10. CASE TakenElsewhere
  BY <1>10, <1>a DEF TakenElsewhere, orderVars, timerVars, procVars
<1>11. CASE Crash
  BY <1>11 DEF Crash, Exit, DownIsEmpty, WatchInv
<1>12. CASE Restart
  <2>1. /\ proc = "down" /\ proc' = "booting" /\ queue' = {o \in ProductionOrders : status[o] = "IN_PROGRESS"}
        /\ worker' = worker /\ status' = status
    BY <1>12 DEF Restart, orderVars
  <2>2. \A w \in Workers : worker'[w].pc # "commit"
    BY <2>1, IdleIs DEF DownIsEmpty
  <2>3. DownIsEmpty'
    BY <2>1 DEF DownIsEmpty
  <2>4. ASSUME NEW q \in ProductionOrders, StartedOrStarting(q)'
        PROVE  Watched(q)'
    BY <2>1, <2>2, <2>4 DEF StartedOrStarting, Watched
  <2> QED BY <2>3, <2>4 DEF WatchInv
<1>13. CASE Listens
  <2>1. /\ proc = "booting" /\ proc' = "up" /\ queue = {}
        /\ UNCHANGED <<status, timer, runs, lost, queue, worker>>
    BY <1>13 DEF Listens, orderVars, timerVars
  <2>2. DownIsEmpty'
    BY <2>1 DEF DownIsEmpty
  <2>3. ASSUME NEW q \in ProductionOrders, StartedOrStarting(q)'
        PROVE  Watched(q)'
    <3>1. StartedOrStarting(q)
      BY <2>1, <2>3 DEF StartedOrStarting
    <3> QED BY <2>1, <3>1 DEF WatchInv, Watched
  <2> QED BY <2>2, <2>3 DEF WatchInv
<1>14. ASSUME NEW o \in ProductionOrders, BootTimer(o) PROVE WatchInv' /\ DownIsEmpty'
  <2>1. /\ Schedules(o, date[o]) /\ proc = "booting" /\ proc' = proc /\ queue' = queue \ {o}
        /\ UNCHANGED <<worker, status>>
    BY <1>14 DEF BootTimer, orderVars
  <2>2. date[o] # "none"
    BY DEF ProductionTypes, TimerTypes
  <2>3. DownIsEmpty'
    BY <2>1, DownSame
  <2>4. ASSUME NEW q \in ProductionOrders, StartedOrStarting(q)'
        PROVE  Watched(q)'
    <3>1. StartedOrStarting(q)
      BY <2>1, <2>4 DEF StartedOrStarting
    <3> QED BY <2>1, <2>2, <3>1, WatchSchedule
  <2> QED BY <2>3, <2>4 DEF WatchInv
<1>15. ASSUME NEW o \in ProductionOrders, NEW w \in Workers, BootRun(w, o) PROVE WatchInv' /\ DownIsEmpty'
  <2>1. /\ Begins(w, "auto", o, quantity[o], TRUE) /\ proc # "down" /\ worker[w] = Idle
        /\ UNCHANGED <<status, timer, runs, lost, queue, proc>>
    BY <1>15 DEF BootRun, orderVars, timerVars, procVars
  <2>2. quantity[o] \in Nat /\ "auto" \in DOMAIN Steps
    BY StepsAre DEF ProductionTypes, OrderTypes
  <2> QED BY <1>b, <2>1, <2>2
<1>16. CASE UNCHANGED productionVars
  BY <1>16, <1>a DEF productionVars, orderVars, timerVars, procVars
<1> QED BY <1>1, <1>2, <1>3, <1>4, <1>5, <1>6, <1>7, <1>8, <1>9, <1>10, <1>11, <1>12, <1>13, <1>14,
           <1>15, <1>16
        DEF ProductionNext, Runs, Boots


\* What start-up has still to visit is as Restart found it, whatever a worker does elsewhere.
LEMMA QueueGo ==
  ASSUME ProductionTypes, QueueInv, NEW w \in Workers, NEW y, Goes(w, y),
         y = Idle \/ (y.order = worker[w].order /\ y.op = worker[w].op /\ (y.boot <=> worker[w].boot)),
         queue' \subseteq queue,
         \A o \in queue' : status'[o] = status[o] /\ timer'[o] = timer[o] /\ o \notin runs'
  PROVE  QueueInv'
<1>1. worker'[w] = y /\ \A v \in Workers \ {w} : worker'[v] = worker[v]
  BY WentIs DEF ProductionTypes
<1>2. Idle.order \notin queue'
  BY IdleIs, ProductionAssumption DEF ProductionTypes, TimerTypes
<1>3. ASSUME NEW o \in queue', NEW v \in Workers, worker'[v].order = o
      PROVE  worker'[v].boot /\ worker'[v].op = "auto"
  BY <1>1, <1>2, <1>3 DEF QueueInv
<1>4. \A o \in queue' : status'[o] = "IN_PROGRESS" /\ timer'[o] = "none" /\ o \notin runs'
  BY DEF QueueInv
<1> QED BY <1>3, <1>4 DEF QueueInv

\* Or when no worker does anything.
LEMMA QueueStay ==
  ASSUME QueueInv, queue' \subseteq queue, status' = status, worker' = worker,
         \A o \in queue' : timer'[o] = timer[o] /\ o \notin runs'
  PROVE  QueueInv'
  BY DEF QueueInv

\* An empty queue has nothing to visit.
LEMMA QueueEmpty == ASSUME queue' = {} PROVE QueueInv'
  BY DEF QueueInv

\* An operation that throws either ends the process or touches no order.
LEMMA QueueThrow ==
  ASSUME ProductionTypes, QueueInv, NEW w \in Workers, Throws(w)
  PROVE  QueueInv'
<1>1. CASE worker[w].boot
  BY <1>1, QueueEmpty DEF Throws, Exit
<1>2. CASE ~worker[w].boot
  <2>1. Goes(w, Idle) /\ UNCHANGED <<status, timer, runs, queue>>
    BY <1>2 DEF Throws, orderVars, procVars
  <2> QED BY <2>1, QueueGo DEF QueueInv
<1> QED BY <1>1, <1>2

\* Only the visits of start-up work on the orders that it has still to visit.
LEMMA QueueWork ==
  ASSUME ProductionTypes, QueueInv, NEW w \in Workers, Works(w),
         NEW p \in ProductionOrders, worker[w].order = p
  PROVE  QueueInv'
<1> DEFINE x == worker[w]
<1>1. CASE Mark(w)
  <2>1. x \in Operation
    BY <1>1, AtPc DEF Mark
  <2> DEFINE y == [x EXCEPT !.pc = "reserve"]
  <2>2. y.op = x.op /\ y.order = x.order /\ (y.boot <=> x.boot)
    BY <2>1, OperationFields
  <2>3. Goes(w, y) /\ UNCHANGED <<status, timer, runs, queue>>
    BY <1>1 DEF Mark, orderVars, timerVars, procVars
  <2> HIDE DEF y
  <2> QED BY <2>2, <2>3, QueueGo DEF QueueInv
<1>2. CASE Reserve(w)
  <2>1. x \in Operation /\ x.pc = "reserve" /\ x.pc \in Steps[x.op]
    BY <1>2, AtPc DEF Reserve
  <2>2. p \notin queue
    BY <2>1, StepsAre DEF QueueInv, Operation
  <2>3. CASE onHand - reserved >= Need(p)
    <3> DEFINE b == Need(p) > 0
               y == [x EXCEPT !.pc = "commit", !.left = b]
    <3>1. y.op = x.op /\ y.order = x.order /\ (y.boot <=> x.boot)
      <4> HIDE DEF b
      <4> QED BY <2>1, OperationFields
    <3>2. Goes(w, y) /\ UNCHANGED <<status, queue>>
      BY <1>2, <2>3 DEF Reserve, orderVars, procVars
    <3>3. PICK d \in Waits : Schedules(p, d)
      BY <1>2, <2>3 DEF Reserve
    <3> HIDE DEF y, b
    <3>4. \A o \in queue' : timer'[o] = timer[o] /\ o \notin runs'
      BY <2>2, <3>2, <3>3 DEF Schedules, QueueInv, ProductionTypes, TimerTypes
    <3> QED BY <3>1, <3>2, <3>4, QueueGo
  <2>4. CASE ~(onHand - reserved >= Need(p))
    BY <1>2, <2>4, QueueThrow DEF Reserve
  <2> QED BY <2>3, <2>4
<1>3. CASE Commit(w)
  <2>1. x \in Operation /\ x.pc = "commit" /\ x.pc \in Steps[x.op]
    BY <1>3, AtPc DEF Commit
  <2>2. p \notin queue
    BY <2>1, StepsAre DEF QueueInv, Operation
  <2>3. Goes(w, Idle) /\ UNCHANGED <<timer, runs, queue>> /\ status' = [status EXCEPT ![p] = "IN_PROGRESS"]
    BY <1>3 DEF Commit, timerVars, procVars
  <2>4. \A o \in queue' : status'[o] = status[o] /\ timer'[o] = timer[o] /\ o \notin runs'
    BY <2>2, <2>3 DEF QueueInv, ProductionTypes, TimerTypes, OrderTypes
  <2> QED BY <2>3, <2>4, QueueGo
<1>4. CASE Write(w)
  <2>1. CASE status[p] = "DRAFT" \/ x.seen = 0
    <3>1. Goes(w, Idle) /\ UNCHANGED <<status, timer, runs, queue>>
      BY <1>4, <2>1 DEF Write, timerVars, procVars
    <3> QED BY <3>1, QueueGo DEF QueueInv
  <2>2. CASE ~(status[p] = "DRAFT" \/ x.seen = 0)
    BY <1>4, <2>2, QueueThrow DEF Write
  <2> QED BY <2>1, <2>2
<1>5. CASE Release(w)
  <2>1. x \in Operation
    BY <1>5, AtPc DEF Release
  <2>2. CASE reserved >= Need(p)
    <3> DEFINE b == Need(p) > 0
               q == IF x.op = "cancel" THEN "finish" ELSE "out"
               n == Need(p)
               y == [x EXCEPT !.need = n, !.left = b, !.pc = q]
    <3>1. y.op = x.op /\ y.order = x.order /\ (y.boot <=> x.boot)
      <4> HIDE DEF n, b, q
      <4> QED BY <2>1, OperationFields
    <3>2. Goes(w, y) /\ UNCHANGED <<status, timer, runs, queue>>
      BY <1>5, <2>2 DEF Release, orderVars, timerVars, procVars
    <3> HIDE DEF y
    <3> QED BY <3>1, <3>2, QueueGo DEF QueueInv
  <2>3. CASE ~(reserved >= Need(p))
    BY <1>5, <2>3, QueueThrow DEF Release
  <2> QED BY <2>2, <2>3
<1>6. CASE PostOut(w)
  <2>1. x \in Operation
    BY <1>6, AtPc DEF PostOut
  <2>2. CASE x.need = 0 \/ onHand - reserved >= x.need
    <3> DEFINE y == [x EXCEPT !.pc = "in"]
    <3>1. y.op = x.op /\ y.order = x.order /\ (y.boot <=> x.boot)
      BY <2>1, OperationFields
    <3>2. Goes(w, y) /\ UNCHANGED <<status, timer, runs, queue>>
      BY <1>6, <2>2 DEF PostOut, timerVars, procVars
    <3> HIDE DEF y
    <3> QED BY <3>1, <3>2, QueueGo DEF QueueInv
  <2>3. CASE ~(x.need = 0 \/ onHand - reserved >= x.need)
    BY <1>6, <2>3, QueueThrow DEF PostOut
  <2> QED BY <2>2, <2>3
<1>7. CASE PostIn(w)
  <2>1. x \in Operation
    BY <1>7, AtPc DEF PostIn
  <2> DEFINE y == [x EXCEPT !.pc = "finish"]
  <2>2. y.op = x.op /\ y.order = x.order /\ (y.boot <=> x.boot)
    BY <2>1, OperationFields
  <2>3. Goes(w, y) /\ UNCHANGED <<status, timer, runs, queue>>
    BY <1>7 DEF PostIn, timerVars, procVars
  <2> HIDE DEF y
  <2> QED BY <2>2, <2>3, QueueGo DEF QueueInv
<1>8. CASE Finish(w)
  <2>1. Goes(w, Idle) /\ UNCHANGED <<timer, runs>> /\ queue' = IF x.boot THEN queue \ {p} ELSE queue
    BY <1>8 DEF Finish, timerVars
  <2>2. \A o \in ProductionOrders \ {p} : status'[o] = status[o]
    BY <1>8 DEF Finish, ProductionTypes, OrderTypes
  <2>3. p \notin queue' /\ queue' \subseteq queue
    BY <2>1 DEF QueueInv
  <2>4. \A o \in queue' : status'[o] = status[o] /\ timer'[o] = timer[o] /\ o \notin runs'
    BY <2>1, <2>2, <2>3 DEF QueueInv, ProductionTypes, TimerTypes
  <2> QED BY <2>1, <2>3, <2>4, QueueGo
<1> QED BY <1>1, <1>2, <1>3, <1>4, <1>5, <1>6, <1>7, <1>8 DEF Works

\* Every step of the production orders leaves the queue so.
LEMMA QueueStep ==
  ASSUME ProductionTypes, DownIsEmpty, QueueInv, [ProductionNext]_productionVars
  PROVE  QueueInv'
<1>0. WorkerType /\ queue \subseteq ProductionOrders
  BY DEF ProductionTypes, TimerTypes
<1>1. ASSUME NEW o \in ProductionOrders, Create(o) PROVE QueueInv'
  BY <1>1, QueueEmpty DEF Create, procVars, DownIsEmpty
<1>2. ASSUME NEW o \in ProductionOrders, TimePasses(o) PROVE QueueInv'
  BY <1>2, QueueStay DEF TimePasses, orderVars, procVars, QueueInv
<1>3. ASSUME NEW o \in ProductionOrders, TimerFires(o) PROVE QueueInv'
  <2>1. /\ timer[o] # "none" /\ timer' = [timer EXCEPT ![o] = "none"] /\ runs' = runs \cup {o}
        /\ UNCHANGED <<status, queue, worker>>
    BY <1>3 DEF TimerFires, orderVars, procVars
  <2>2. o \notin queue
    BY <2>1 DEF QueueInv
  <2>3. \A q \in queue' : timer'[q] = timer[q] /\ q \notin runs'
    BY <1>0, <2>1, <2>2 DEF QueueInv, ProductionTypes, TimerTypes
  <2> QED BY <2>1, <2>3, QueueStay
<1>4. ASSUME NEW o \in ProductionOrders, ExtraTime(o) PROVE QueueInv'
  BY <1>4, QueueEmpty DEF ExtraTime, procVars, DownIsEmpty
<1>5. ASSUME NEW o \in ProductionOrders, NEW w \in Workers, AutomaticRun(w, o) PROVE QueueInv'
  <2>1. /\ o \in runs /\ runs' = runs \ {o}
        /\ UNCHANGED <<status, timer, queue>>
    BY <1>5 DEF AutomaticRun, orderVars, procVars
  <2>2. o \notin queue /\ \A q \in queue : q \notin runs'
    BY <2>1 DEF QueueInv
  <2>3. CASE CanBegin("auto", o)
    <3>1. Begins(w, "auto", o, quantity[o], FALSE) /\ quantity[o] \in Nat /\ "auto" \in DOMAIN Steps
      BY <1>5, <2>3, StepsAre DEF AutomaticRun, ProductionTypes, OrderTypes
    <3>2. PICK y : Goes(w, y) /\ y.order = o
      <4> DEFINE z == [Idle EXCEPT !.op = "auto", !.order = o, !.pc = FirstStep("auto", o),
                                   !.seen = quantity[o], !.boot = FALSE]
      <4>1. z.order = o
        BY DEF Idle
      <4>2. Goes(w, z)
        BY <3>1 DEF Begins
      <4> HIDE DEF z
      <4> QED BY <4>1, <4>2
    <3>3. worker'[w] = y /\ \A v \in Workers \ {w} : worker'[v] = worker[v]
      BY <1>0, <3>2, WentIs
    <3>4. ASSUME NEW q \in queue, NEW v \in Workers, worker'[v].order = q
          PROVE  worker'[v].boot /\ worker'[v].op = "auto"
      BY <2>2, <3>2, <3>3, <3>4 DEF QueueInv
    <3> QED BY <2>1, <2>2, <3>4 DEF QueueInv
  <2>4. CASE ~CanBegin("auto", o)
    <3>1. worker' = worker
      BY <1>5, <2>4 DEF AutomaticRun
    <3> QED BY <2>1, <2>2, <3>1, QueueStay
  <2> QED BY <2>3, <2>4
<1>6. ASSUME NEW w \in Workers, NEW o \in ProductionOrders, NEW op \in {"start", "update", "cancel", "close"},
             Request(w, op, o)
      PROVE  QueueInv'
  BY <1>6, QueueEmpty DEF Request, procVars, DownIsEmpty
<1>7. ASSUME NEW w \in Workers, Works(w) PROVE QueueInv'
  <2>1. worker[w].pc # "idle"
    BY <1>7 DEF Works, Mark, Reserve, Commit, Write, Release, PostOut, PostIn, Finish
  <2>2. worker[w].order \in ProductionOrders
    BY <2>1, AtPc
  <2> QED BY <1>7, <2>2, QueueWork
<1>8. ASSUME NEW w \in Workers, Error(w) PROVE QueueInv'
  BY <1>8, QueueThrow DEF Error
<1>9. CASE EditRecipe
  BY <1>9, QueueStay DEF EditRecipe, orderVars, timerVars, procVars, QueueInv
<1>10. CASE TakenElsewhere
  BY <1>10, QueueStay DEF TakenElsewhere, orderVars, timerVars, procVars, QueueInv
<1>11. CASE Crash
  BY <1>11, QueueEmpty DEF Crash, Exit
<1>12. CASE Restart
  <2>1. /\ proc = "down" /\ queue' = {o \in ProductionOrders : status[o] = "IN_PROGRESS"}
        /\ UNCHANGED <<worker, status, timer, runs>>
    BY <1>12 DEF Restart, orderVars, timerVars
  <2>2. Idle.order \notin queue'
    BY <2>1, IdleIs, ProductionAssumption
  <2>3. /\ timer = [o \in ProductionOrders |-> "none"] /\ runs = {}
        /\ \A w \in Workers : worker[w] = Idle
    BY <2>1 DEF DownIsEmpty
  <2> QED BY <2>1, <2>2, <2>3 DEF QueueInv
<1>13. CASE Listens
  BY <1>13, QueueEmpty DEF Listens
<1>14. ASSUME NEW o \in ProductionOrders, BootTimer(o) PROVE QueueInv'
  <2>1. /\ Schedules(o, date[o]) /\ queue' = queue \ {o}
        /\ UNCHANGED <<worker, status>>
    BY <1>14 DEF BootTimer, orderVars
  <2>2. \A q \in queue' : timer'[q] = timer[q] /\ q \notin runs'
    BY <1>0, <2>1 DEF Schedules, QueueInv, ProductionTypes, TimerTypes
  <2> QED BY <2>1, <2>2, QueueStay
<1>15. ASSUME NEW o \in ProductionOrders, NEW w \in Workers, BootRun(w, o) PROVE QueueInv'
  <2>1. /\ Begins(w, "auto", o, quantity[o], TRUE)
        /\ UNCHANGED <<status, timer, runs, queue>>
    BY <1>15 DEF BootRun, orderVars, timerVars, procVars
  <2>2. quantity[o] \in Nat /\ "auto" \in DOMAIN Steps
    BY StepsAre DEF ProductionTypes, OrderTypes
  <2>3. PICK y : Goes(w, y) /\ y.order = o /\ y.op = "auto" /\ y.boot
    BY <2>1, <2>2, BootBegins
  <2>4. worker'[w] = y /\ \A v \in Workers \ {w} : worker'[v] = worker[v]
    BY <1>0, <2>3, WentIs
  <2>5. ASSUME NEW q \in queue, NEW v \in Workers, worker'[v].order = q
        PROVE  worker'[v].boot /\ worker'[v].op = "auto"
    BY <2>3, <2>4, <2>5 DEF QueueInv
  <2> QED BY <2>1, <2>5 DEF QueueInv
<1>16. CASE UNCHANGED productionVars
  BY <1>16, QueueStay DEF productionVars, orderVars, timerVars, procVars, QueueInv
<1> QED BY <1>1, <1>2, <1>3, <1>4, <1>5, <1>6, <1>7, <1>8, <1>9, <1>10, <1>11, <1>12, <1>13, <1>14,
           <1>15, <1>16
        DEF ProductionNext, Runs, Boots


\* While operations are alone with their orders, nobody else is at the order of one.
LEMMA Alone ==
  ASSUME ProductionTypes, OneAtATime, NEW w \in Workers, worker[w] # Idle, NEW v \in Workers \ {w}
  PROVE  worker[v].order # worker[w].order
<1>1. worker[w].order \in ProductionOrders
  BY Working
<1>2. worker[v] = Idle => worker[v].order \notin ProductionOrders
  BY IdleIs, ProductionAssumption
<1> QED BY <1>1, <1>2 DEF OneAtATime

\* An order that neither changes nor is worked on differently.
LEMMA SoundKept ==
  ASSUME NEW o \in ProductionOrders, Sound(o), usage' = usage,
         status'[o] = status[o], quantity'[o] = quantity[o], held'[o] = held[o],
         consumed'[o] = consumed[o], finished'[o] = finished[o],
         \A v \in Workers : worker'[v].order = o \/ worker[v].order = o => worker'[v] = worker[v]
  PROVE  Sound(o)'
<1>1. Need(o)' = Need(o)
  BY DEF Need
<1>2. AtRest(o)' = AtRest(o)
  BY <1>1 DEF AtRest
<1>3. \A v \in Workers : worker'[v].order = o => (InStep(worker[v], o)' = InStep(worker[v], o))
  BY <1>1 DEF InStep, Carries
<1> QED BY <1>2, <1>3 DEF Sound

\* The order of an operation that is alone with it.
LEMMA SoundAlone ==
  ASSUME NEW o \in ProductionOrders, NEW w \in Workers, InStep(worker[w], o)',
         worker'[w].left \/ AtRest(o)', worker'[w].order = o,
         \A v \in Workers \ {w} : worker'[v].order # o
  PROVE  Sound(o)'
  BY DEF Sound

\* An order that nobody works on is at rest.
LEMMA SoundFree ==
  ASSUME NEW o \in ProductionOrders, AtRest(o)', \A v \in Workers : worker'[v].order # o
  PROVE  Sound(o)'
  BY DEF Sound

\* What an operation does to its own order is all that it does to orders.
LEMMA SoundOthers ==
  ASSUME ProductionTypes, SoundInv, NEW w \in Workers, NEW y, Goes(w, y),
         NEW p \in ProductionOrders, worker[w].order = p, y = Idle \/ y.order = p, diverged \subseteq diverged', usage' = usage,
         \A o \in ProductionOrders \ {p} :
           /\ status'[o] = status[o] /\ quantity'[o] = quantity[o] /\ held'[o] = held[o]
           /\ consumed'[o] = consumed[o] /\ finished'[o] = finished[o],
         p \in diverged' \/ Sound(p)'
  PROVE  SoundInv'
<1>1. worker'[w] = y /\ \A v \in Workers \ {w} : worker'[v] = worker[v]
  BY WentIs DEF ProductionTypes
<1>2. Idle.order \notin ProductionOrders
  BY IdleIs, ProductionAssumption
<1>3. ASSUME NEW o \in ProductionOrders \ diverged', o # p
      PROVE  Sound(o)'
  <2>1. Sound(o)
    BY <1>3 DEF SoundInv
  <2>2. \A v \in Workers : worker'[v].order = o \/ worker[v].order = o => worker'[v] = worker[v]
    BY <1>1, <1>2, <1>3
  <2> QED BY <1>3, <2>1, <2>2, SoundKept
<1> QED BY <1>3 DEF SoundInv

\* An operation that ends early has changed nothing, or its order has diverged.
LEMMA SoundExit ==
  ASSUME SoundInv, Exit, usage' = usage
  PROVE  SoundInv'
<1>1. /\ worker' = [w \in Workers |-> Idle]
      /\ UNCHANGED <<status, quantity, held, consumed, finished>>
      /\ diverged' = diverged \cup {worker[w].order : w \in {v \in Workers : worker[v].left}}
  BY DEF Exit, orderVars, stockVars
<1>2. ASSUME NEW o \in ProductionOrders \ diverged'
      PROVE  Sound(o)'
  <2>1. \A w \in Workers : worker[w].order = o => ~worker[w].left
    BY <1>1, <1>2
  <2>2. AtRest(o)
    BY <1>1, <1>2, <2>1 DEF SoundInv, Sound
  <2>3. AtRest(o)'
    BY <1>1, <2>2 DEF AtRest, Need
  <2>4. \A v \in Workers : worker'[v].order # o
    BY <1>1, IdleIs, ProductionAssumption
  <2> QED BY <2>3, <2>4, SoundFree
<1> QED BY <1>2 DEF SoundInv

\* An operation that throws is the same, for the order it was at.
LEMMA SoundThrow ==
  ASSUME ProductionTypes, SoundInv, OneAtATime, NEW w \in Workers, Throws(w), worker[w] # Idle,
         usage' = usage
  PROVE  SoundInv'
<1>p. PICK p \in ProductionOrders : worker[w].order = p
  BY Working
<1>1. CASE worker[w].boot
  BY <1>1, SoundExit DEF Throws
<1>2. CASE ~worker[w].boot
  <2>1. /\ Goes(w, Idle)
        /\ diverged' = IF worker[w].left THEN diverged \cup {p} ELSE diverged
        /\ UNCHANGED <<status, quantity, held, consumed, finished>>
    BY <1>2, <1>p DEF Throws, orderVars, stockVars
  <2>3. ASSUME p \notin diverged' PROVE Sound(p)'
    <3>1. p \notin diverged /\ ~worker[w].left
      BY <2>1, <2>3, <1>p
    <3>2. \A v \in Workers : worker[v].order = p => ~worker[v].left
      BY <1>p, <3>1, Alone
    <3>3. AtRest(p)
      BY <3>1, <3>2 DEF SoundInv, Sound
    <3>4. AtRest(p)'
      BY <2>1, <3>3 DEF AtRest, Need
    <3>5. \A v \in Workers : worker'[v].order # p
      <4>1. worker'[w] = Idle /\ \A v \in Workers \ {w} : worker'[v] = worker[v]
        BY <2>1, WentIs DEF ProductionTypes
      <4> QED BY <1>p, <4>1, Alone, IdleIs, ProductionAssumption
    <3> QED BY <3>4, <3>5, SoundFree
  <2>4. diverged \subseteq diverged'
    BY <2>1
  <2>5. /\ status' = status /\ quantity' = quantity /\ held' = held /\ consumed' = consumed /\ finished' = finished
    BY <2>1
  <2> QED BY <1>p, <2>1, <2>3, <2>4, <2>5, SoundOthers
<1> QED BY <1>1, <1>2

\* An order that an operation is alone with is where that operation has left it.
LEMMA SoundMine ==
  ASSUME ProductionTypes, SoundInv, OneAtATime, NEW w \in Workers, worker[w] # Idle,
         NEW p \in ProductionOrders, worker[w].order = p, p \notin diverged
  PROVE  InStep(worker[w], p) /\ (worker[w].left \/ AtRest(p))
<1>1. Sound(p)
  BY DEF SoundInv
<1>2. \A v \in Workers \ {w} : worker[v].order # p
  BY Alone
<1>3. ~worker[w].left => \A v \in Workers : worker[v].order = p => ~worker[v].left
  BY <1>2
<1> QED BY <1>1, <1>3 DEF Sound


\* The steps of an operation take its order from rest to rest: StartProductionOrder reserves
\* what it needs, CloseProductionOrder releases that and posts each document once.
LEMMA SoundWork ==
  ASSUME ProductionTypes, SoundInv, OneAtATime, NEW w \in Workers, Works(w),
         NEW p \in ProductionOrders, worker[w].order = p
  PROVE  SoundInv'
<1> DEFINE x == worker[w]
<1>0. WorkerType /\ OrderTypes /\ StockTypes
  BY DEF ProductionTypes
<1>a. ASSUME NEW y, Goes(w, y), y = Idle \/ y.order = p, p \in ProductionOrders, x # Idle
      PROVE  /\ worker'[w] = y
             /\ \A v \in Workers \ {w} : worker'[v].order # p
    <2>1. worker'[w] = y /\ \A v \in Workers \ {w} : worker'[v] = worker[v]
      BY <1>0, <1>a, WentIs
    <2> QED BY <1>a, <2>1, Alone
<1>i. Idle.order \notin ProductionOrders
  BY IdleIs, ProductionAssumption
<1>1. CASE Mark(w)
  <2>1. x # Idle /\ x \in Operation /\ x.pc = "mark" /\ p \in ProductionOrders
    BY <1>1, AtPc DEF Mark
  <2> DEFINE y == [x EXCEPT !.pc = "reserve"]
  <2>2. y.order = p /\ y.pc = "reserve" /\ (y.left <=> x.left)
    BY <2>1, OperationFields
  <2>3. Goes(w, y) /\ UNCHANGED <<status, quantity, held, consumed, finished, diverged, usage>>
    BY <1>1 DEF Mark, orderVars, stockVars, faultVars
  <2> HIDE DEF y
  <2>4. ASSUME p \notin diverged PROVE Sound(p)'
    <3>1. status[p] = "DRAFT" /\ quantity[p] >= 1 /\ ~x.left /\ AtRest(p)
      BY <2>1, <2>4, SoundMine DEF InStep
    <3>2. worker'[w] = y /\ \A v \in Workers \ {w} : worker'[v].order # p
      BY <1>a, <2>1, <2>2, <2>3
    <3>3. AtRest(p)'
      BY <2>3, <3>1 DEF AtRest, Need
    <3>4. InStep(worker[w], p)'
      BY <2>2, <2>3, <3>1, <3>2 DEF InStep
    <3> QED BY <2>1, <2>2, <3>2, <3>3, <3>4, SoundAlone
  <2> QED BY <2>1, <2>2, <2>3, <2>4, SoundOthers
<1>2. CASE Reserve(w)
  <2>1. x # Idle /\ x \in Operation /\ x.pc = "reserve" /\ p \in ProductionOrders
    BY <1>2, AtPc DEF Reserve
  <2>2. CASE onHand - reserved >= Need(p)
    <3> DEFINE b == Need(p) > 0
               y == [x EXCEPT !.pc = "commit", !.left = b]
    <3>1. y.order = p /\ y.pc = "commit" /\ (y.left <=> b)
      <4> HIDE DEF b
      <4> QED BY <2>1, OperationFields
    <3>2. /\ Goes(w, y) /\ held' = [held EXCEPT ![p] = @ + Need(p)]
          /\ UNCHANGED <<status, quantity, consumed, finished, diverged, usage>>
      BY <1>2, <2>2 DEF Reserve, orderVars, faultVars
    <3>b. b <=> Need(p) > 0
      OBVIOUS
    <3> HIDE DEF y, b
    <3>4. ASSUME p \notin diverged PROVE Sound(p)'
      <4>1. status[p] = "DRAFT" /\ quantity[p] >= 1 /\ ~x.left /\ AtRest(p)
        BY <2>1, <3>4, SoundMine DEF InStep
      <4>2. worker'[w] = y /\ \A v \in Workers \ {w} : worker'[v].order # p
        BY <1>a, <2>1, <3>1, <3>2
      <4>3. Need(p) >= 1 /\ Need(p) \in Nat /\ Need(p)' = Need(p)
        BY <2>1, <3>2, <4>1, NeedNat DEF Need
      <4>4. b
        BY <3>b, <4>3
      <4>5. held[p] = 0 /\ consumed[p] = 0 /\ finished[p] = 0
        BY <4>1 DEF AtRest
      <4>6. held'[p] = Need(p)
        BY <1>0, <2>1, <3>2, <4>3, <4>5 DEF StockTypes
      <4>7. InStep(worker[w], p)'
        BY <3>1, <3>2, <4>1, <4>2, <4>3, <4>5, <4>6 DEF InStep, Carries
      <4> QED BY <2>1, <3>1, <4>2, <4>4, <4>7, SoundAlone
    <3>5. \A o \in ProductionOrders \ {p} : held'[o] = held[o]
      BY <1>0, <2>1, <3>2 DEF StockTypes
    <3> QED BY <2>1, <3>1, <3>2, <3>4, <3>5, SoundOthers
  <2>3. CASE ~(onHand - reserved >= Need(p))
    BY <1>2, <2>1, <2>3, SoundThrow DEF Reserve, faultVars
  <2> QED BY <2>2, <2>3
<1>3. CASE Commit(w)
  <2>1. x # Idle /\ x \in Operation /\ x.pc = "commit" /\ p \in ProductionOrders
    BY <1>3, AtPc DEF Commit
  <2>2. /\ Goes(w, Idle) /\ status' = [status EXCEPT ![p] = "IN_PROGRESS"]
        /\ UNCHANGED <<quantity, held, consumed, finished, diverged, usage>>
    BY <1>3 DEF Commit, stockVars, faultVars
  <2>3. ASSUME p \notin diverged PROVE Sound(p)'
    <3>1. quantity[p] >= 1 /\ Carries(p, Need(p), 0, 0)
      BY <2>1, <2>3, SoundMine DEF InStep
    <3>2. status'[p] = "IN_PROGRESS" /\ Need(p)' = Need(p)
      BY <1>0, <2>1, <2>2 DEF OrderTypes, Need
    <3>3. AtRest(p)'
      BY <2>2, <3>1, <3>2 DEF AtRest, Carries
    <3>4. \A v \in Workers : worker'[v].order # p
      BY <1>a, <1>i, <2>1, <2>2
    <3> QED BY <2>1, <3>3, <3>4, SoundFree
  <2>4. \A o \in ProductionOrders \ {p} : status'[o] = status[o]
    BY <1>0, <2>2 DEF OrderTypes
  <2> QED BY <2>1, <2>2, <2>3, <2>4, SoundOthers
<1>4. CASE Write(w)
  <2>1. x # Idle /\ x \in Operation /\ x.pc = "write" /\ p \in ProductionOrders
    BY <1>4, AtPc DEF Write
  <2>2. CASE status[p] = "DRAFT" \/ x.seen = 0
    <3>1. /\ Goes(w, Idle) /\ quantity' = [quantity EXCEPT ![p] = x.seen]
          /\ UNCHANGED <<status, held, consumed, finished, diverged, usage>>
      BY <1>4, <2>2 DEF Write, stockVars, faultVars
    <3>2. ASSUME p \notin diverged PROVE Sound(p)'
      <4>1. status[p] = "DRAFT" /\ AtRest(p)
        BY <2>1, <3>2, SoundMine DEF InStep
      <4>2. AtRest(p)'
        BY <3>1, <4>1 DEF AtRest
      <4>3. \A v \in Workers : worker'[v].order # p
        BY <1>a, <1>i, <2>1, <3>1
      <4> QED BY <2>1, <4>2, <4>3, SoundFree
    <3>3. \A o \in ProductionOrders \ {p} : quantity'[o] = quantity[o]
      BY <1>0, <3>1 DEF OrderTypes
    <3> QED BY <2>1, <3>1, <3>2, <3>3, SoundOthers
  <2>3. CASE ~(status[p] = "DRAFT" \/ x.seen = 0)
    BY <1>4, <2>1, <2>3, SoundThrow DEF Write, faultVars
  <2> QED BY <2>2, <2>3
<1>5. CASE Release(w)
  <2>1. x # Idle /\ x \in Operation /\ x.pc = "release" /\ p \in ProductionOrders
    BY <1>5, AtPc DEF Release
  <2>2. CASE reserved >= Need(p)
    <3> DEFINE b == Need(p) > 0
               q == IF x.op = "cancel" THEN "finish" ELSE "out"
               n == Need(p)
               y == [x EXCEPT !.need = n, !.left = b, !.pc = q]
    <3>1. y.order = p /\ y.op = x.op /\ y.pc = q /\ y.seen = x.seen /\ y.need = n /\ (y.left <=> b)
      <4> HIDE DEF n, b, q
      <4> QED BY <2>1, OperationFields
    <3>2. /\ Goes(w, y) /\ held' = [held EXCEPT ![p] = @ - Need(p)]
          /\ UNCHANGED <<status, quantity, consumed, finished, diverged, usage>>
      BY <1>5, <2>2 DEF Release, orderVars, faultVars
    <3>b. b <=> Need(p) > 0
      OBVIOUS
    <3> HIDE DEF y, b
    <3>4. ASSUME p \notin diverged PROVE Sound(p)'
      <4>1. status[p] = "IN_PROGRESS" /\ (x.op # "cancel" => x.seen >= 1) /\ AtRest(p)
        BY <2>1, <3>4, SoundMine DEF InStep
      <4>2. worker'[w] = y /\ \A v \in Workers \ {w} : worker'[v].order # p
        BY <1>a, <2>1, <3>1, <3>2
      <4>3. Need(p) >= 1 /\ Need(p) \in Nat
        BY <2>1, <4>1, NeedNat DEF AtRest
      <4>4. b
        BY <3>b, <4>3
      <4>5. held[p] = Need(p) /\ consumed[p] = 0 /\ finished[p] = 0
        BY <4>1 DEF AtRest
      <4>6. held'[p] = 0 /\ consumed'[p] = 0 /\ finished'[p] = 0
        BY <1>0, <2>1, <3>2, <4>3, <4>5 DEF StockTypes
      <4>7. InStep(worker[w], p)'
        BY <3>1, <4>1, <4>2, <4>3, <4>4, <4>6 DEF InStep, Carries
      <4> QED BY <2>1, <3>1, <4>2, <4>4, <4>7, SoundAlone
    <3>5. \A o \in ProductionOrders \ {p} : held'[o] = held[o]
      BY <1>0, <2>1, <3>2 DEF StockTypes
    <3> QED BY <2>1, <3>1, <3>2, <3>4, <3>5, SoundOthers
  <2>3. CASE ~(reserved >= Need(p))
    BY <1>5, <2>1, <2>3, SoundThrow DEF Release, faultVars
  <2> QED BY <2>2, <2>3
<1>6. CASE PostOut(w)
  <2>1. x # Idle /\ x \in Operation /\ x.pc = "out" /\ p \in ProductionOrders
    BY <1>6, AtPc DEF PostOut
  <2>2. CASE x.need = 0 \/ onHand - reserved >= x.need
    <3> DEFINE y == [x EXCEPT !.pc = "in"]
    <3>1. y.order = p /\ y.pc = "in" /\ y.seen = x.seen /\ (y.left <=> x.left)
      BY <2>1, OperationFields
    <3>2. /\ Goes(w, y) /\ consumed' = [consumed EXCEPT ![p] = IF x.need > 0 THEN @ + 1 ELSE @]
          /\ UNCHANGED <<status, quantity, held, finished, diverged, usage>>
      BY <1>6, <2>2 DEF PostOut, faultVars
    <3> HIDE DEF y
    <3>4. ASSUME p \notin diverged PROVE Sound(p)'
      <4>1. Carries(p, 0, 0, 0) /\ x.need >= 1 /\ x.seen >= 1 /\ x.left
        BY <2>1, <3>4, SoundMine DEF InStep
      <4>2. worker'[w] = y /\ \A v \in Workers \ {w} : worker'[v].order # p
        BY <1>a, <2>1, <3>1, <3>2
      <4>n. x.need \in Nat
        BY <2>1 DEF Operation
      <4>3. consumed'[p] = 1 /\ held'[p] = 0 /\ finished'[p] = 0
        BY <1>0, <2>1, <3>2, <4>1, <4>n DEF StockTypes, Carries
      <4>4. InStep(worker[w], p)'
        BY <3>1, <4>1, <4>2, <4>3 DEF InStep, Carries
      <4> QED BY <2>1, <3>1, <4>1, <4>2, <4>4, SoundAlone
    <3>5. \A o \in ProductionOrders \ {p} : consumed'[o] = consumed[o]
      BY <1>0, <2>1, <3>2 DEF StockTypes
    <3> QED BY <2>1, <3>1, <3>2, <3>4, <3>5, SoundOthers
  <2>3. CASE ~(x.need = 0 \/ onHand - reserved >= x.need)
    BY <1>6, <2>1, <2>3, SoundThrow DEF PostOut, faultVars
  <2> QED BY <2>2, <2>3
<1>7. CASE PostIn(w)
  <2>1. x # Idle /\ x \in Operation /\ x.pc = "in" /\ x.pc \in Steps[x.op] /\ p \in ProductionOrders
    BY <1>7, AtPc DEF PostIn
  <2> DEFINE y == [x EXCEPT !.pc = "finish"]
  <2>2. y.order = p /\ y.op = x.op /\ y.pc = "finish" /\ y.seen = x.seen /\ (y.left <=> x.left)
    BY <2>1, OperationFields
  <2>3. /\ Goes(w, y) /\ finished' = [finished EXCEPT ![p] = IF x.seen > 0 THEN @ + 1 ELSE @]
        /\ UNCHANGED <<status, quantity, held, consumed, diverged, usage>>
    BY <1>7 DEF PostIn, stockVars, faultVars
  <2>4. x.op # "cancel"
    BY <2>1, StepsAre DEF Operation
  <2> HIDE DEF y
  <2>5. ASSUME p \notin diverged PROVE Sound(p)'
    <3>1. Carries(p, 0, 1, 0) /\ x.seen >= 1 /\ x.left
      BY <2>1, <2>5, SoundMine DEF InStep
    <3>2. worker'[w] = y /\ \A v \in Workers \ {w} : worker'[v].order # p
      BY <1>a, <2>1, <2>2, <2>3
    <3>n. x.seen \in Nat
      BY <2>1 DEF Operation
    <3>3. consumed'[p] = 1 /\ held'[p] = 0 /\ finished'[p] = 1
      BY <1>0, <2>1, <2>3, <3>1, <3>n DEF StockTypes, Carries
    <3>4. InStep(worker[w], p)'
      BY <2>2, <2>4, <3>2, <3>3 DEF InStep, Carries
    <3> QED BY <2>1, <2>2, <3>1, <3>2, <3>4, SoundAlone
  <2>6. \A o \in ProductionOrders \ {p} : finished'[o] = finished[o]
    BY <1>0, <2>1, <2>3 DEF StockTypes
  <2> QED BY <2>1, <2>2, <2>3, <2>5, <2>6, SoundOthers
<1>8. CASE Finish(w)
  <2>1. x # Idle /\ x.pc = "finish" /\ p \in ProductionOrders
    BY <1>8, AtPc DEF Finish
  <2>2. Goes(w, Idle) /\ UNCHANGED <<held, consumed, finished, diverged, usage>>
    BY <1>8 DEF Finish, stockVars, faultVars
  <2>3. \A o \in ProductionOrders \ {p} : status'[o] = status[o] /\ quantity'[o] = quantity[o]
    BY <1>0, <1>8 DEF Finish, OrderTypes
  <2>4. status'[p] = IF x.op = "cancel" THEN "CANCELLED" ELSE "COMPLETED"
    BY <1>0, <1>8, <2>1 DEF Finish, OrderTypes
  <2>5. ASSUME p \notin diverged PROVE Sound(p)'
    <3>1. IF x.op = "cancel" THEN Carries(p, 0, 0, 0) ELSE Carries(p, 0, 1, 1)
      BY <2>1, <2>5, SoundMine DEF InStep
    <3>2. AtRest(p)'
      BY <2>2, <2>4, <3>1 DEF AtRest, Carries
    <3>3. \A v \in Workers : worker'[v].order # p
      BY <1>a, <1>i, <2>1, <2>2
    <3> QED BY <2>1, <3>2, <3>3, SoundFree
  <2> QED BY <2>1, <2>2, <2>3, <2>5, SoundOthers
<1> QED BY <1>1, <1>2, <1>3, <1>4, <1>5, <1>6, <1>7, <1>8 DEF Works


\* A step that leaves an order's own state and the operations alone.
LEMMA SoundStay ==
  ASSUME SoundInv, UNCHANGED <<status, quantity, held, consumed, finished, worker, usage>>, diverged' = diverged
  PROVE  SoundInv'
<1>1. ASSUME NEW o \in ProductionOrders \ diverged' PROVE Sound(o)'
  <2>1. Sound(o)
    BY <1>1 DEF SoundInv
  <2> QED BY <1>1, <2>1, SoundKept
<1> QED BY <1>1 DEF SoundInv

\* An operation begins on an order that is at rest and where it may begin.
LEMMA SoundBegin ==
  ASSUME ProductionTypes, SoundInv, OneAtATime', NEW w \in Workers, worker[w] = Idle,
         NEW op \in DOMAIN Steps, NEW p \in ProductionOrders, CanBegin(op, p),
         NEW n \in Nat, op \notin {"start", "update", "cancel"} => n = quantity[p],
         NEW b \in BOOLEAN, Begins(w, op, p, n, b),
         UNCHANGED <<status, quantity, held, consumed, finished, usage, diverged>>
  PROVE  SoundInv'
<1>0. WorkerType
  BY DEF ProductionTypes
<1>1. PICK y \in Operation : Goes(w, y) /\ y.pc = FirstStep(op, p) /\ y.op = op /\ y.order = p /\ y.seen = n /\ ~y.left
  BY BeginsIs
<1>2. worker'[w] = y /\ \A v \in Workers \ {w} : worker'[v] = worker[v]
  BY <1>0, <1>1, WentIs
<1>3. Idle.order \notin ProductionOrders /\ worker'[w] # Idle
  BY <1>1, <1>2, IdleIs, ProductionAssumption
<1>4. \A v \in Workers \ {w} : worker'[v].order # p
  BY <1>1, <1>2, <1>3 DEF OneAtATime
<1>5. ASSUME NEW o \in ProductionOrders \ diverged', o # p PROVE Sound(o)'
  <2>1. Sound(o)
    BY <1>5 DEF SoundInv
  <2>2. \A v \in Workers : worker'[v].order = o \/ worker[v].order = o => worker'[v] = worker[v]
    BY <1>1, <1>2, <1>3, <1>5
  <2> QED BY <1>5, <2>1, <2>2, SoundKept
<1>6. ASSUME p \notin diverged PROVE Sound(p)'
  <2>1. \A v \in Workers : worker[v].order # p
    BY <1>2, <1>3, <1>4
  <2>2. AtRest(p)
    BY <1>6, <2>1 DEF SoundInv, Sound
  <2>3. AtRest(p)'
    BY <2>2 DEF AtRest, Need
  <2>4. op \in {"start", "update", "cancel", "close", "auto"}
    BY StepsAre
  <2>5. /\ y.pc \in {"mark", "reserve"} => status[p] = "DRAFT" /\ quantity[p] >= 1
        /\ y.pc = "write" => status[p] = "DRAFT"
        /\ y.pc = "finish" => op = "cancel" /\ status[p] = "DRAFT"
        /\ y.pc \notin {"commit", "out", "in"}
    BY <1>1, <2>4 DEF FirstStep, CanBegin
  <2>6. y.pc = "release" => /\ status[p] = "IN_PROGRESS"
                            /\ op \notin {"start", "update"}
    BY <1>1, <2>4 DEF FirstStep, CanBegin, ProductionTypes, OrderTypes
  <2>7. y.pc = "release" => (op # "cancel" => n >= 1)
    BY <2>2, <2>6 DEF AtRest
  <2>8. y.pc = "finish" => Carries(p, 0, 0, 0)
    BY <2>2, <2>5 DEF AtRest, Carries
  <2>9. InStep(worker[w], p)'
    BY <1>1, <1>2, <2>5, <2>6, <2>7, <2>8 DEF InStep, Carries
  <2> QED BY <1>1, <1>2, <1>4, <2>3, <2>9, SoundAlone
<1> QED BY <1>5, <1>6 DEF SoundInv

\* Every step of the production orders keeps the orders that have not diverged sound.
LEMMA SoundStep ==
  ASSUME ProductionTypes, QueueInv, SoundInv, OneAtATime, OneAtATime',
         [ProductionNext]_productionVars
  PROVE  SoundInv'
<1>1. ASSUME NEW o \in ProductionOrders, Create(o) PROVE SoundInv'
  <2>1. PICK q \in Quantities : quantity' = [quantity EXCEPT ![o] = q]
    BY <1>1 DEF Create
  <2>2. /\ status[o] = "ABSENT" /\ status' = [status EXCEPT ![o] = "DRAFT"]
        /\ UNCHANGED <<held, consumed, finished, usage, worker, diverged>>
    BY <1>1 DEF Create, stockVars, faultVars
  <2>3. ASSUME NEW p \in ProductionOrders \ diverged', p # o PROVE Sound(p)'
    <3>1. Sound(p) /\ status'[p] = status[p] /\ quantity'[p] = quantity[p]
      BY <2>1, <2>2, <2>3 DEF SoundInv, ProductionTypes, OrderTypes
    <3> QED BY <2>2, <2>3, <3>1, SoundKept
  <2>4. ASSUME o \notin diverged PROVE Sound(o)'
    <3>1. Sound(o)
      BY <2>4 DEF SoundInv
    <3>2. \A v \in Workers : worker[v].order = o => worker[v].pc = "finish" \/ worker[v].pc = "in" \/ worker[v].pc = "out"
      <4>1. SUFFICES ASSUME NEW v \in Workers, worker[v].order = o
                     PROVE  worker[v].pc \in {"finish", "in", "out"}
        OBVIOUS
      <4>2. worker[v] # Idle
        BY <4>1, IdleIs, ProductionAssumption
      <4>3. worker[v].pc \in Pcs
        BY <4>2, Working DEF Operation, Pcs
      <4>4. InStep(worker[v], o)
        BY <3>1, <4>1 DEF Sound
      <4> QED BY <2>2, <4>3, <4>4, PcsAre DEF InStep
    <3>3. status'[o] = "DRAFT"
      BY <2>2 DEF ProductionTypes, OrderTypes
    <3>4. AtRest(o) => AtRest(o)'
      BY <2>2, <3>3 DEF AtRest
    <3>5. ASSUME NEW v \in Workers, worker'[v].order = o PROVE InStep(worker[v], o)'
      <4>1. InStep(worker[v], o) /\ worker[v].pc \in {"finish", "in", "out"}
        BY <2>2, <3>1, <3>2, <3>5 DEF Sound
      <4> QED BY <2>2, <4>1 DEF InStep, Carries
    <3> QED BY <2>2, <3>1, <3>4, <3>5 DEF Sound
  <2> QED BY <2>2, <2>3, <2>4 DEF SoundInv
<1>2. ASSUME NEW o \in ProductionOrders, TimePasses(o) PROVE SoundInv'
  BY <1>2, SoundStay DEF TimePasses, orderVars, stockVars, faultVars
<1>3. ASSUME NEW o \in ProductionOrders, TimerFires(o) PROVE SoundInv'
  BY <1>3, SoundStay DEF TimerFires, orderVars, stockVars, faultVars
<1>4. ASSUME NEW o \in ProductionOrders, ExtraTime(o) PROVE SoundInv'
  BY <1>4, SoundStay DEF ExtraTime, orderVars, stockVars
<1>5. ASSUME NEW o \in ProductionOrders, NEW w \in Workers, AutomaticRun(w, o) PROVE SoundInv'
  <2>1. worker[w] = Idle /\ UNCHANGED <<status, quantity, held, consumed, finished, usage, diverged>>
    BY <1>5 DEF AutomaticRun, orderVars, stockVars, faultVars
  <2>2. CASE CanBegin("auto", o)
    <3>1. Begins(w, "auto", o, quantity[o], FALSE) /\ quantity[o] \in Nat /\ "auto" \in DOMAIN Steps
      BY <1>5, <2>2, StepsAre DEF AutomaticRun, ProductionTypes, OrderTypes
    <3> QED BY <2>1, <2>2, <3>1, SoundBegin
  <2>3. CASE ~CanBegin("auto", o)
    <3>1. worker' = worker
      BY <1>5, <2>3 DEF AutomaticRun
    <3> QED BY <2>1, <3>1, SoundStay
  <2> QED BY <2>2, <2>3
<1>6. ASSUME NEW w \in Workers, NEW o \in ProductionOrders, NEW op \in {"start", "update", "cancel", "close"},
             Request(w, op, o)
      PROVE  SoundInv'
  <2>1. PICK q \in Quantities : (op # "update" => q = quantity[o]) /\ Begins(w, op, o, q, FALSE)
    BY <1>6 DEF Request
  <2>2. q \in Nat /\ op \in DOMAIN Steps
    BY ProductionAssumption, StepsAre
  <2>3. /\ worker[w] = Idle /\ CanBegin(op, o)
        /\ UNCHANGED <<status, quantity, held, consumed, finished, usage, diverged>>
    BY <1>6 DEF Request, orderVars, stockVars, faultVars
  <2>4. op \notin {"start", "update", "cancel"} => q = quantity[o]
    BY <2>1
  <2> QED BY <2>1, <2>2, <2>3, <2>4, SoundBegin
<1>7. ASSUME NEW w \in Workers, Works(w) PROVE SoundInv'
  <2>1. worker[w].pc # "idle"
    BY <1>7 DEF Works, Mark, Reserve, Commit, Write, Release, PostOut, PostIn, Finish
  <2>2. worker[w].order \in ProductionOrders
    BY <2>1, AtPc
  <2> QED BY <1>7, <2>2, SoundWork
<1>8. ASSUME NEW w \in Workers, Error(w) PROVE SoundInv'
  BY <1>8, SoundThrow DEF Error
<1>9. CASE EditRecipe
  <2>1. /\ UNCHANGED <<status, quantity, held, consumed, finished, worker>>
        /\ diverged' = diverged \cup
             {o \in ProductionOrders : held[o] # 0 \/ \E w \in Workers : worker[w].order = o}
    BY <1>9 DEF EditRecipe, orderVars, stockVars
  <2>2. ASSUME NEW o \in ProductionOrders \ diverged' PROVE Sound(o)'
    <3>1. held[o] = 0 /\ \A w \in Workers : worker[w].order # o
      BY <2>1, <2>2
    <3>2. AtRest(o)
      BY <2>1, <2>2, <3>1 DEF SoundInv, Sound
    <3>3. status[o] # "IN_PROGRESS"
      BY <3>1, <3>2, NeedNat DEF AtRest
    <3>4. AtRest(o)'
      BY <2>1, <3>2, <3>3 DEF AtRest
    <3> QED BY <2>1, <3>1, <3>4, SoundFree
  <2> QED BY <2>2 DEF SoundInv
<1>10. CASE TakenElsewhere
  BY <1>10, SoundStay DEF TakenElsewhere, orderVars
<1>11. CASE Crash
  BY <1>11, SoundExit DEF Crash
<1>12. CASE Restart
  BY <1>12, SoundStay DEF Restart, orderVars, stockVars, faultVars
<1>13. CASE Listens
  BY <1>13, SoundStay DEF Listens, orderVars, stockVars, faultVars
<1>14. ASSUME NEW o \in ProductionOrders, BootTimer(o) PROVE SoundInv'
  BY <1>14, SoundStay DEF BootTimer, orderVars, stockVars, faultVars
<1>15. ASSUME NEW o \in ProductionOrders, NEW w \in Workers, BootRun(w, o) PROVE SoundInv'
  <2>1. /\ worker[w] = Idle /\ Begins(w, "auto", o, quantity[o], TRUE) /\ date[o] = "past" /\ o \in queue
        /\ UNCHANGED <<status, quantity, held, consumed, finished, usage, diverged>>
    BY <1>15 DEF BootRun, orderVars, stockVars, faultVars
  <2>2. quantity[o] \in Nat /\ "auto" \in DOMAIN Steps
    BY StepsAre DEF ProductionTypes, OrderTypes
  <2>3. CanBegin("auto", o)
    BY <2>1 DEF CanBegin, QueueInv
  <2> QED BY <2>1, <2>2, <2>3, SoundBegin
<1>16. CASE UNCHANGED productionVars
  BY <1>16, SoundStay DEF productionVars, orderVars, stockVars, faultVars
<1> QED BY <1>1, <1>2, <1>3, <1>4, <1>5, <1>6, <1>7, <1>8, <1>9, <1>10, <1>11, <1>12, <1>13, <1>14,
           <1>15, <1>16
        DEF ProductionNext, Runs, Boots


\* All of it holds when there is no order yet.
LEMMA ProductionBegins == ProductionInit => ProductionTypes /\ DownIsEmpty /\ WatchInv /\ QueueInv /\ SoundInv
<1> SUFFICES ASSUME ProductionInit
             PROVE  ProductionTypes /\ DownIsEmpty /\ WatchInv /\ QueueInv /\ SoundInv
  OBVIOUS
<1>0. OpeningOnHand \in Int /\ Others \in Int
  BY ProductionAssumption
<1>1. ProductionTypes
  BY <1>0
     DEF ProductionInit, ProductionTypes, OrderTypes, StockTypes, TimerTypes, WorkerType, Statuses
<1>2. DownIsEmpty /\ QueueInv
  BY DEF ProductionInit, DownIsEmpty, QueueInv
<1>3. \A w \in Workers : worker[w].pc # "commit" /\ worker[w].order \notin ProductionOrders
  BY IdleIs, ProductionAssumption DEF ProductionInit
<1>4. WatchInv
  BY <1>3 DEF ProductionInit, WatchInv, StartedOrStarting
<1>5. ASSUME NEW o \in ProductionOrders PROVE Sound(o)
  <2>1. AtRest(o)
    BY DEF ProductionInit, AtRest
  <2> QED BY <1>3, <2>1 DEF Sound
<1> QED BY <1>1, <1>2, <1>4, <1>5 DEF SoundInv

\* What holds however many operations are at one order.
LEMMA ProductionRuns == ProductionSpec => [](ProductionTypes /\ DownIsEmpty /\ WatchInv /\ QueueInv)
<1>1. ProductionInit => ProductionTypes /\ DownIsEmpty /\ WatchInv /\ QueueInv
  BY ProductionBegins
<1>2. ProductionTypes /\ DownIsEmpty /\ WatchInv /\ QueueInv /\ [ProductionNext]_productionVars
      => (ProductionTypes /\ DownIsEmpty /\ WatchInv /\ QueueInv)'
  BY TypesStep, WatchStep, QueueStep
<1> QED BY <1>1, <1>2, PTL DEF ProductionSpec

\* While the process serves, an order IN_PROGRESS whose automatic run has not failed has a
\* timer, a launched run or an operation under way (ProductionOrderExpectedScheduler and its
\* onApplicationBootstrap), however many operations run at once and on whichever orders.
THEOREM StartedIsWatched == ProductionSpec => []InProgressIsWatched
<1>1. DownIsEmpty /\ WatchInv => InProgressIsWatched
  <2> SUFFICES ASSUME DownIsEmpty, WatchInv, NEW o \in ProductionOrders \ lost, proc = "up",
                      status[o] = "IN_PROGRESS"
               PROVE  timer[o] # "none" \/ o \in runs \/ Busy(o)
    BY DEF InProgressIsWatched
  <2>1. Watched(o) /\ queue = {}
    BY DEF WatchInv, StartedOrStarting, DownIsEmpty
  <2> QED BY <2>1 DEF Watched, Busy
<1> QED BY <1>1, ProductionRuns, PTL

\* What holds while no two operations are at one order.
LEMMA SoundAlways == ProductionSpec /\ []OneAtATime => []SoundInv
<1>1. ProductionInit => SoundInv
  BY ProductionBegins
<1>2. /\ ProductionTypes /\ QueueInv /\ SoundInv /\ OneAtATime /\ OneAtATime'
      /\ [ProductionNext]_productionVars
      => SoundInv'
  BY SoundStep
<1> QED BY <1>1, <1>2, ProductionRuns, PTL DEF ProductionSpec

\* While no two operations are at one order at the same time, what an order has reserved
\* between operations is what its items need while it is IN_PROGRESS and nothing otherwise,
\* unless a failure, a crash or a new recipe cut it short (diverged): for any number of
\* orders and operations at once.
THEOREM ReservedAsNeeded == ProductionSpec /\ []OneAtATime => []HoldsWhatItNeeds
<1>1. SoundInv => HoldsWhatItNeeds
  BY DEF SoundInv, Sound, AtRest, HoldsWhatItNeeds, Busy
<1> QED BY <1>1, SoundAlways, PTL

\* Under the same condition, an order has posted its consumption and its product once if it
\* is COMPLETED (PostProductionDocuments) and never otherwise.
THEOREM PostedOnce == ProductionSpec /\ []OneAtATime => []PostedOnceClosed
<1>1. SoundInv => PostedOnceClosed
  BY DEF SoundInv, Sound, AtRest, PostedOnceClosed, Busy
<1> QED BY <1>1, SoundAlways, PTL

\* What two operations at one order could disturb, one operation after another does not: with
\* one worker, as in the run, the same holds without any condition.
LEMMA OneAfterAnother ==
  ASSUME \A v, w \in Workers : v = w
  PROVE  ProductionSpec => [](HoldsWhatItNeeds /\ PostedOnceClosed)
<1>1. OneAtATime
  BY DEF OneAtATime
<1> QED BY <1>1, ReservedAsNeeded, PostedOnce, PTL

=============================================================================
