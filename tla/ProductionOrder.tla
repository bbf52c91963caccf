--------------------------- MODULE ProductionOrder ---------------------------
(***************************************************************************)
(* Production orders: a draft is started, which reserves its materials and *)
(* sets a timer; a user or the timer closes it, which releases the         *)
(* reservation, posts the consumption (OUT) and the product (IN) and marks *)
(* it COMPLETED; a user may cancel it.                                     *)
(*                                                                         *)
(* The use cases read the order without locking its row, and the calls     *)
(* that touch stock are not given their transaction: each commits on its   *)
(* own, so an operation that ends early leaves it behind.  A call of       *)
(* ReserveProductCatalogMaterials is one step here (UnlockedStock has its  *)
(* queries), and so is a posting (InventoryTx has its steps).  One         *)
(* material, one product; an order is its quantity of product.             *)
(***************************************************************************)
EXTENDS Integers, FiniteSets

CONSTANTS
  ProductionOrders,
  Workers,      \* operations that may run at once; one makes them serial
  Quantities,   \* quantities of product an order may carry, 0: no items
  Usages,       \* units of material per unit of product, by recipe version
  Waits,        \* distances a manufacture date may have when an order starts
  OpeningOnHand, Others,  \* units of material, and those reserved elsewhere
  MaxFaults     \* bound on failures, crashes and changes made elsewhere

ASSUME ProductionAssumption ==
  /\ Quantities \subseteq Nat /\ Usages \subseteq Nat \ {0} /\ Usages # {}
  /\ OpeningOnHand \in Nat /\ Others \in 0 .. OpeningOnHand
  /\ Waits \subseteq {"past", "near", "far"}
  /\ "none" \notin ProductionOrders

Statuses == {"ABSENT", "DRAFT", "IN_PROGRESS", "PARTIAL", "COMPLETED", "CANCELLED"}

VARIABLES
  status, quantity,   \* the order and its items, as committed
  date,               \* how far away the manufacture date is
  onHand, reserved,   \* the balance of the material
  usage,              \* the active recipe
  timer, runs,        \* timers set, and automatic runs that were launched
  proc, queue,        \* the process, and the orders its start-up has to visit
  worker,             \* the operations under way
  consumed, finished, \* postings of each order
  faults,             \* failures, crashes and changes made elsewhere, so far
  held, diverged, lost   \* history: see below

orderVars == <<status, quantity, consumed, finished>>
stockVars == <<onHand, reserved, held>>
timerVars == <<date, timer, runs, lost>>
faultVars == <<faults, usage>>
procVars == <<proc, queue>>
productionVars == <<orderVars, stockVars, timerVars, faultVars, procVars, worker, diverged>>

\* held[o]: units that o's own calls reserved and have not released.
\* diverged: orders of which an operation ended between two of its commits, or
\* whose recipe was replaced while they held materials.
\* lost: orders whose automatic run ended without closing them.

Idle == [op |-> "none", order |-> "none", pc |-> "idle", seen |-> 0, need |-> 0,
         left |-> FALSE, boot |-> FALSE]

ProductionInit ==
  /\ status = [o \in ProductionOrders |-> "ABSENT"]
  /\ quantity = [o \in ProductionOrders |-> 0]
  /\ date = [o \in ProductionOrders |-> "past"]
  /\ onHand = OpeningOnHand /\ reserved = Others
  /\ usage \in Usages
  /\ timer = [o \in ProductionOrders |-> "none"] /\ runs = {}
  /\ proc = "up" /\ queue = {}
  /\ worker = [w \in Workers |-> Idle]
  /\ consumed = [o \in ProductionOrders |-> 0] /\ finished = [o \in ProductionOrders |-> 0]
  /\ faults = 0
  /\ held = [o \in ProductionOrders |-> 0] /\ diverged = {} /\ lost = {}

Counts == faults < MaxFaults /\ faults' = faults + 1

\* buildConsumption: items times the recipe that is active now.
Need(o) == quantity[o] * usage

\* A start has updated the order's row and not committed: other writers wait.
RowFree(w, o) ==
  \A v \in Workers \ {w} : ~(worker[v].order = o /\ worker[v].pc \in {"reserve", "commit"})

Goes(w, x) == worker' = [worker EXCEPT ![w] = x]

\* The process ends: transactions roll back, timers and launched runs are gone.
Exit ==
  /\ proc' = "down" /\ queue' = {}
  /\ timer' = [o \in ProductionOrders |-> "none"] /\ runs' = {}
  /\ worker' = [w \in Workers |-> Idle]
  /\ diverged' = diverged \cup {worker[w].order : w \in {v \in Workers : worker[v].left}}
  /\ UNCHANGED <<orderVars, stockVars, date, lost>>

\* An operation throws and its transaction rolls back.  That undoes the
\* PARTIAL which RunProductionTimeUsecase writes before it throws; its caller
\* only logs, but when start-up awaits the run the process ends.
Throws(w) ==
  IF worker[w].boot THEN Exit
  ELSE /\ Goes(w, Idle)
       /\ diverged' = IF worker[w].left THEN diverged \cup {worker[w].order} ELSE diverged
       /\ lost' = IF worker[w].op = "auto" THEN lost \cup {worker[w].order} ELSE lost
       /\ UNCHANGED <<orderVars, stockVars, date, timer, runs, procVars>>

\* Fault: an overdue date leaves the order without a timer.
SchedulesFutureOnly(o, d) ==
  /\ date' = [date EXCEPT ![o] = d]
  /\ timer' = [timer EXCEPT ![o] = IF d = "past" THEN "none" ELSE d]
  /\ runs' = runs
  /\ lost' = lost \ {o}

\* ProductionOrderExpectedScheduler.schedule: an overdue run starts at once.
Schedules(o, d) ==
  /\ date' = [date EXCEPT ![o] = d]
  /\ timer' = [timer EXCEPT ![o] = IF d = "past" THEN "none" ELSE d]
  /\ runs' = IF d = "past" THEN runs \cup {o} ELSE runs
  /\ lost' = lost \ {o}

-----------------------------------------------------------------------------
Create(o) ==
  /\ proc = "up" /\ status[o] = "ABSENT"
  /\ status' = [status EXCEPT ![o] = "DRAFT"]
  /\ \E q \in Quantities : quantity' = [quantity EXCEPT ![o] = q]
  /\ UNCHANGED <<consumed, finished, stockVars, timerVars, faultVars, procVars, worker, diverged>>

\* The statuses from which each operation may begin (assertCan...).
CanBegin(op, o) ==
  CASE op = "start" -> status[o] = "DRAFT" /\ quantity[o] >= 1
    [] op = "update" -> status[o] = "DRAFT"
    [] op = "cancel" -> status[o] \in {"DRAFT", "IN_PROGRESS", "PARTIAL"}
    [] op = "close" -> status[o] = "IN_PROGRESS"
    [] op = "auto" -> status[o] = "IN_PROGRESS" /\ date[o] = "past"

\* Only a started order holds materials, so only its cancellation releases.
FirstStep(op, o) ==
  CASE op = "start" -> "mark"
    [] op = "update" -> "write"
    [] op = "cancel" /\ status[o] = "DRAFT" -> "finish"
    [] OTHER -> "release"

Begins(w, op, o, seen, boot) ==
  Goes(w, [Idle EXCEPT !.op = op, !.order = o, !.pc = FirstStep(op, o),
                       !.seen = seen, !.boot = boot])

\* A user's request reads the order and passes the checks.
Request(w, op, o) ==
  /\ proc = "up" /\ worker[w] = Idle
  /\ CanBegin(op, o)
  /\ \E q \in Quantities :
       /\ op # "update" => q = quantity[o]
       /\ Begins(w, op, o, q, FALSE)
  /\ UNCHANGED <<orderVars, stockVars, timerVars, faultVars, procVars, diverged>>

\* A launched automatic run reads the order, and is refused if it is not
\* IN_PROGRESS (yet) or its date is in the future.
AutomaticRun(w, o) ==
  /\ o \in runs /\ worker[w] = Idle
  /\ runs' = runs \ {o}
  /\ IF CanBegin("auto", o)
       THEN Begins(w, "auto", o, quantity[o], FALSE) /\ UNCHANGED lost
       ELSE lost' = lost \cup {o} /\ UNCHANGED worker
  /\ UNCHANGED <<orderVars, stockVars, date, timer, faultVars, procVars, diverged>>

-----------------------------------------------------------------------------
\* StartProductionOrder: the row is updated first ...
Mark(w) ==
  /\ worker[w].pc = "mark" /\ RowFree(w, worker[w].order)
  /\ Goes(w, [worker[w] EXCEPT !.pc = "reserve"])
  /\ UNCHANGED <<orderVars, stockVars, timerVars, faultVars, procVars, diverged>>

\* ... the materials are reserved in a transaction of their own, and the timer
\* is set before the order's transaction commits.
Reserve(w) ==
  LET o == worker[w].order IN
  /\ worker[w].pc = "reserve"
  /\ IF onHand - reserved >= Need(o)
       THEN /\ reserved' = reserved + Need(o)
            /\ held' = [held EXCEPT ![o] = @ + Need(o)]
            /\ \E d \in Waits : Schedules(o, d)
            /\ Goes(w, [worker[w] EXCEPT !.pc = "commit", !.left = Need(o) > 0])
            /\ UNCHANGED <<orderVars, onHand, procVars, diverged>>
       ELSE Throws(w)
  /\ UNCHANGED faultVars

Commit(w) ==
  /\ worker[w].pc = "commit"
  /\ status' = [status EXCEPT ![worker[w].order] = "IN_PROGRESS"]
  /\ Goes(w, Idle)
  /\ UNCHANGED <<quantity, consumed, finished, stockVars, timerVars, faultVars, procVars, diverged>>

\* UpdateProductionOrder replaces the items; each item added checks the
\* status again, after the row was locked.
Write(w) ==
  LET o == worker[w].order IN
  /\ worker[w].pc = "write" /\ RowFree(w, o)
  /\ IF status[o] = "DRAFT" \/ worker[w].seen = 0
       THEN /\ quantity' = [quantity EXCEPT ![o] = worker[w].seen]
            /\ Goes(w, Idle)
            /\ UNCHANGED <<status, consumed, finished, stockVars, timerVars, procVars, diverged>>
       ELSE Throws(w)
  /\ UNCHANGED faultVars

\* Fault: the release is forgotten.
ReleaseNothing(w) ==
  /\ worker[w].pc = "release"
  /\ Goes(w, [worker[w] EXCEPT !.pc = IF worker[w].op = "cancel" THEN "finish" ELSE "out",
                               !.need = Need(worker[w].order)])
  /\ UNCHANGED <<orderVars, stockVars, timerVars, faultVars, procVars, diverged>>

\* Closing or cancelling a started order: the reservation is released, checked
\* only against what the whole balance has reserved.
Release(w) ==
  LET o == worker[w].order IN
  /\ worker[w].pc = "release"
  /\ IF reserved >= Need(o)
       THEN /\ reserved' = reserved - Need(o)
            /\ held' = [held EXCEPT ![o] = @ - Need(o)]
            /\ Goes(w, [worker[w] EXCEPT !.need = Need(o), !.left = Need(o) > 0,
                         !.pc = IF worker[w].op = "cancel" THEN "finish" ELSE "out"])
            /\ UNCHANGED <<orderVars, onHand, timerVars, procVars, diverged>>
       ELSE Throws(w)
  /\ UNCHANGED faultVars

\* PostProductionDocuments: the materials leave ...
PostOut(w) ==
  LET o == worker[w].order
      n == worker[w].need
  IN /\ worker[w].pc = "out"
     /\ IF n = 0 \/ onHand - reserved >= n
          THEN /\ onHand' = onHand - n
               /\ consumed' = [consumed EXCEPT ![o] = IF n > 0 THEN @ + 1 ELSE @]
               /\ Goes(w, [worker[w] EXCEPT !.pc = "in"])
               /\ UNCHANGED <<status, quantity, finished, reserved, held, timerVars, procVars, diverged>>
          ELSE Throws(w)
     /\ UNCHANGED faultVars

\* ... and the product enters, each in a transaction of its own.
PostIn(w) ==
  LET o == worker[w].order IN
  /\ worker[w].pc = "in"
  /\ finished' = [finished EXCEPT ![o] = IF worker[w].seen > 0 THEN @ + 1 ELSE @]
  /\ Goes(w, [worker[w] EXCEPT !.pc = "finish"])
  /\ UNCHANGED <<status, quantity, consumed, stockVars, timerVars, faultVars, procVars, diverged>>

\* Fault: a closing leaves the order as it was.
FinishUnmarked(w) ==
  LET o == worker[w].order IN
  /\ worker[w].pc = "finish" /\ RowFree(w, o)
  /\ IF worker[w].op = "cancel"
       THEN status' = [status EXCEPT ![o] = "CANCELLED"] /\ quantity' = [quantity EXCEPT ![o] = 0]
       ELSE UNCHANGED <<status, quantity>>
  /\ Goes(w, Idle)
  /\ queue' = IF worker[w].boot THEN queue \ {o} ELSE queue
  /\ UNCHANGED <<consumed, finished, stockVars, timerVars, faultVars, proc, diverged>>

\* The last write of a closing or a cancellation, and its commit.  The timer of
\* a cancelled order stays set.
Finish(w) ==
  LET o == worker[w].order IN
  /\ worker[w].pc = "finish" /\ RowFree(w, o)
  /\ IF worker[w].op = "cancel"
       THEN status' = [status EXCEPT ![o] = "CANCELLED"] /\ quantity' = [quantity EXCEPT ![o] = 0]
       ELSE status' = [status EXCEPT ![o] = "COMPLETED"] /\ UNCHANGED quantity
  /\ Goes(w, Idle)
  /\ queue' = IF worker[w].boot THEN queue \ {o} ELSE queue
  /\ UNCHANGED <<consumed, finished, stockVars, timerVars, faultVars, proc, diverged>>

-----------------------------------------------------------------------------
TimePasses(o) ==
  /\ date[o] # "past"
  /\ date' = [date EXCEPT ![o] = IF @ = "far" THEN "near" ELSE "past"]
  /\ UNCHANGED <<orderVars, stockVars, timer, runs, lost, faultVars, procVars, worker, diverged>>

\* A timer beyond setTimeout's range fires at once.
TimerFires(o) ==
  /\ timer[o] = "far" \/ (timer[o] = "near" /\ date[o] = "past")
  /\ timer' = [timer EXCEPT ![o] = "none"]
  /\ runs' = runs \cup {o}
  /\ UNCHANGED <<orderVars, stockVars, date, lost, faultVars, procVars, worker, diverged>>

\* addExtraTime: the date moves on, perhaps not far enough, and the timer with it.
ExtraTime(o) ==
  /\ proc = "up" /\ Counts
  /\ status[o] = "IN_PROGRESS" /\ \A w \in Workers : RowFree(w, o)
  /\ \E d \in Waits : (date[o] # "past" => d # "past") /\ Schedules(o, d)
  /\ UNCHANGED <<orderVars, stockVars, usage, procVars, worker, diverged>>

\* UpdateProductCatalogRecipe replaces the active recipe.
EditRecipe ==
  /\ proc = "up" /\ Counts
  /\ usage' \in Usages \ {usage}
  /\ diverged' = diverged \cup
       {o \in ProductionOrders : held[o] # 0 \/ \E w \in Workers : worker[w].order = o}
  /\ UNCHANGED <<orderVars, stockVars, timerVars, procVars, worker>>

\* A document of another part of the system takes free units of the material.
TakenElsewhere ==
  /\ proc = "up" /\ Counts
  /\ onHand > reserved
  /\ onHand' \in reserved .. onHand - 1
  /\ UNCHANGED <<orderVars, reserved, held, timerVars, usage, procVars, worker, diverged>>

\* A query or a commit of an operation fails.
Error(w) ==
  /\ worker[w] # Idle /\ Counts
  /\ Throws(w)
  /\ UNCHANGED usage

Crash ==
  /\ proc # "down" /\ Counts
  /\ Exit
  /\ UNCHANGED usage

\* onApplicationBootstrap lists the orders IN_PROGRESS; requests come after it.
Restart ==
  /\ proc = "down"
  /\ proc' = "booting"
  /\ queue' = {o \in ProductionOrders : status[o] = "IN_PROGRESS"}
  /\ UNCHANGED <<orderVars, stockVars, timerVars, faultVars, worker, diverged>>

BootTimer(o) ==
  /\ proc = "booting" /\ o \in queue /\ date[o] # "past"
  /\ \A w \in Workers : ~worker[w].boot
  /\ Schedules(o, date[o])
  /\ queue' = queue \ {o}
  /\ UNCHANGED <<orderVars, stockVars, faultVars, proc, worker, diverged>>

\* An overdue order is closed before the loop goes on.
BootRun(w, o) ==
  /\ proc = "booting" /\ o \in queue /\ date[o] = "past"
  /\ worker[w] = Idle /\ \A v \in Workers : ~worker[v].boot
  /\ Begins(w, "auto", o, quantity[o], TRUE)
  /\ UNCHANGED <<orderVars, stockVars, timerVars, faultVars, procVars, diverged>>

\* Fault: start-up ends before the loop does.
ListensAtOnce ==
  /\ proc = "booting" /\ \A w \in Workers : ~worker[w].boot
  /\ proc' = "up" /\ queue' = {}
  /\ UNCHANGED <<orderVars, stockVars, timerVars, faultVars, worker, diverged>>

Listens ==
  /\ proc = "booting" /\ queue = {}
  /\ proc' = "up"
  /\ UNCHANGED <<orderVars, stockVars, timerVars, faultVars, queue, worker, diverged>>

-----------------------------------------------------------------------------
Works(w) ==
  \/ Mark(w) \/ Reserve(w) \/ Commit(w) \/ Write(w)
  \/ Release(w) \/ PostOut(w) \/ PostIn(w) \/ Finish(w)

Runs(o) == \E w \in Workers : AutomaticRun(w, o)
Boots == Listens \/ \E o \in ProductionOrders : BootTimer(o) \/ \E w \in Workers : BootRun(w, o)

ProductionNext ==
  \/ \E o \in ProductionOrders : Create(o) \/ TimePasses(o) \/ TimerFires(o) \/ ExtraTime(o) \/ Runs(o)
  \/ \E w \in Workers, o \in ProductionOrders, op \in {"start", "update", "cancel", "close"} :
       Request(w, op, o)
  \/ \E w \in Workers : Works(w) \/ Error(w)
  \/ EditRecipe \/ TakenElsewhere \/ Crash \/ Restart \/ Boots

ProductionSpec == ProductionInit /\ [][ProductionNext]_productionVars

\* The clock moves, queries return, due timers fire, and a launched run is not
\* kept waiting by requests; the process manager restarts the process.
Fairness ==
  /\ \A o \in ProductionOrders :
       /\ WF_productionVars(TimePasses(o)) /\ WF_productionVars(TimerFires(o))
       /\ SF_productionVars(Runs(o))
  /\ \A w \in Workers : WF_productionVars(Works(w))
  /\ WF_productionVars(Restart) /\ SF_productionVars(Boots)

LiveSpec == ProductionSpec /\ Fairness

-----------------------------------------------------------------------------
Busy(o) == \E w \in Workers : worker[w].order = o

\* Between operations, an order that no failure cut short reserves exactly its
\* materials while it is IN_PROGRESS and none otherwise: start, close and cancel
\* agree on what they add and take although each computes it anew.
HoldsWhatItNeeds ==
  \A o \in ProductionOrders \ diverged : ~Busy(o) =>
    held[o] = IF status[o] = "IN_PROGRESS" THEN Need(o) ELSE 0

\* Between operations, an order that no failure cut short has posted its
\* consumption and its product once if it is COMPLETED and never otherwise.
PostedOnceClosed ==
  \A o \in ProductionOrders \ diverged : ~Busy(o) =>
    /\ consumed[o] = IF status[o] = "COMPLETED" THEN 1 ELSE 0
    /\ finished[o] = consumed[o]

\* While the process serves, every order IN_PROGRESS whose automatic run has not
\* failed has a timer, a launched run or an operation under way, across restarts,
\* extra time and the requests of users.
InProgressIsWatched ==
  \A o \in ProductionOrders \ lost :
    (proc = "up" /\ status[o] = "IN_PROGRESS") => timer[o] # "none" \/ o \in runs \/ Busy(o)

\* An order that was started is closed or cancelled in the end, through crashes
\* and restarts, unless its automatic run failed or some order was cut short.
StartedEnds ==
  \A o \in ProductionOrders :
    status[o] = "IN_PROGRESS" ~>
      (status[o] \in {"COMPLETED", "CANCELLED"} \/ o \in lost \/ diverged # {})

=============================================================================
