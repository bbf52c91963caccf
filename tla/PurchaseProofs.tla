----------------------------- MODULE PurchaseProofs -----------------------------
(***************************************************************************)
(* Purchases, once and every period.                                       *)
(*                                                                         *)
(* Of a recurring purchase, for any number of requests, days and periods:  *)
(* no period is skipped, and no recorded reminder is sent again.  The      *)
(* invariant is about every copy of the template that may still be         *)
(* written, not only the row itself: a request that holds an old copy may  *)
(* save it at any time.                                                    *)
(*                                                                         *)
(* Of a purchase order, for any number of requests and receptions: its     *)
(* reception status and the stock it brought in are those its receptions   *)
(* add up to.  Both are sums over the confirmed receptions, so each step   *)
(* is followed through the one reception that it confirms.                 *)
(***************************************************************************)
EXTENDS RecurringPurchase, PurchaseOrder, SumTheorems, TLAPS

-----------------------------------------------------------------------------
(* Arithmetic of periods. *)

(* Quotient and remainder. *)
LEMMA DivFacts ==
  ASSUME NEW a \in Nat, NEW n \in Nat \ {0}
  PROVE  /\ a \div n \in Nat
         /\ n * (a \div n) <= a
         /\ a < n * (a \div n) + n
  BY Z3

(* A product grows with its factor. *)
LEMMA MulMono ==
  ASSUME NEW n \in Nat \ {0}, NEW x \in Nat, NEW y \in Nat, x <= y
  PROVE  n * x <= n * y
<1>1. n * (y - x) \in Nat
  BY Z3
<1>2. n * (y - x) = n * y - n * x
  BY Z3
<1>3. QED
  BY <1>1, <1>2, Z3

(* A later day is in no earlier period. *)
LEMMA DivMono ==
  ASSUME NEW a \in Nat, NEW b \in Nat, NEW n \in Nat \ {0}, a <= b
  PROVE  a \div n <= b \div n
<1> DEFINE qa == a \div n
           qb == b \div n
<1>1. qa \in Nat /\ n * qa <= a /\ qb \in Nat /\ b < n * qb + n
  BY DivFacts
<1> HIDE DEF qa, qb
<1>2. SUFFICES ASSUME qb + 1 <= qa PROVE FALSE
  BY <1>1 DEF qa, qb
<1>3. n * (qb + 1) <= n * qa
  BY <1>1, <1>2, MulMono
<1>4. n * (qb + 1) = n * qb + n
  BY <1>1, Z3
<1>5. QED
  BY <1>1, <1>3, <1>4, Z3

(* The first day of a period is in that period. *)
LEMMA DivMul ==
  ASSUME NEW k \in Nat, NEW n \in Nat \ {0}
  PROVE  (n * k) \div n = k
<1> DEFINE q == (n * k) \div n
<1>1. n * k \in Nat
  BY Z3
<1>2. q \in Nat /\ n * q <= n * k /\ n * k < n * q + n
  BY <1>1, DivFacts
<1> HIDE DEF q
<1>3. CASE q + 1 <= k
  <2>1. n * (q + 1) <= n * k
    BY <1>2, <1>3, MulMono
  <2>2. n * (q + 1) = n * q + n
    BY <1>2, Z3
  <2>3. QED
    BY <1>1, <1>2, <2>1, <2>2, Z3
<1>4. CASE k + 1 <= q
  <2>1. n * (k + 1) <= n * q
    BY <1>2, <1>4, MulMono
  <2>2. n * (k + 1) = n * k + n
    BY Z3
  <2>3. QED
    BY <1>1, <1>2, <2>1, <2>2, Z3
<1>5. q = k
  BY <1>2, <1>3, <1>4, Z3
<1>6. QED
  BY <1>5 DEF q

-----------------------------------------------------------------------------
(* The inductive invariant. *)

Statuses == {"ACTIVE", "PAUSED", "CANCELLED"}
Steps == {"idle", "save", "open", "commit", "pay", "remind", "notify", "record"}
Callers == {"none", "user", "job", "register"}
AnyRows == [status : Statuses, due : Nat, last : Int]
Requested == [op : Steps, row : AnyRows, now : Days, by : Callers]

\* A copy of the template, given the payables c: every period before its due date has one.
Dense(c, row) == \A p \in 1 .. Period(row.due) - 1 : c[p] > 0
Near(row) == Period(row.due) <= Period(MaxDay) + 1
Sound(c, row) == Dense(c, row) /\ Near(row)

TypeInv ==
  /\ tpl \in AnyRows /\ today \in Days
  /\ count \in [Periods -> Nat]
  /\ req \in [Actors -> Requested]

RowsInv ==
  /\ Sound(count, tpl)
  /\ \A r \in Actors : req[r].op \in {"save", "commit"} => Sound(count, req[r].row)
  /\ \A r \in Actors : req[r].op = "commit" => req[r].row.due <= MaxDay
  /\ \A r \in Actors : req[r].op \in {"open", "commit"} => req[r].by # "none"

IInv == TypeInv /\ RowsInv

-----------------------------------------------------------------------------
(* Periods of days, in terms of the model. *)

(* A day has a period, and a day up to the last one a period in range. *)
LEMMA PeriodType ==
  ASSUME NEW d \in Nat
  PROVE  Period(d) \in Nat /\ (d <= MaxDay => Period(d) <= Period(MaxDay))
  BY DivFacts, DivMono, RecurringAssumption DEF Period

(* The template moves on by one period exactly. *)
LEMMA NextPeriod ==
  ASSUME NEW row \in AnyRows
  PROVE  /\ MarkGenerated(row) \in AnyRows
         /\ Period(MarkGenerated(row).due) = Period(row.due) + 1
<1>1. row.due \in Nat /\ Period(row.due) \in Nat
  BY PeriodType DEF AnyRows
<1>2. Len * (Period(row.due) + 1) \in Nat
  BY <1>1, RecurringAssumption, Z3
<1>3. (Len * (Period(row.due) + 1)) \div Len = Period(row.due) + 1
  BY <1>1, DivMul, RecurringAssumption
<1>4. MarkGenerated(row) \in AnyRows /\ MarkGenerated(row).due = Len * (Period(row.due) + 1)
  <2> DEFINE day == Len * (Period(row.due) + 1)
             per == Period(row.due)
  <2>1. day \in Nat /\ per \in Int /\ MarkGenerated(row) = [row EXCEPT !.due = day, !.last = per]
    BY <1>1, <1>2 DEF MarkGenerated
  <2> HIDE DEF day, per
  <2>2. MarkGenerated(row) \in AnyRows /\ MarkGenerated(row).due = day
    BY <2>1 DEF AnyRows
  <2>3. QED
    BY <2>2 DEF day
<1>5. QED
  BY <1>3, <1>4 DEF Period

(* What was dense stays so when payables are only added. *)
LEMMA DenseGrows ==
  ASSUME NEW c \in [Periods -> Nat], NEW d \in [Periods -> Nat], NEW row \in AnyRows,
         \A p \in Periods : c[p] <= d[p], Sound(c, row)
  PROVE  Sound(d, row)
<1>1. Period(row.due) \in Nat /\ Period(MaxDay) \in Nat
  BY PeriodType, RecurringAssumption DEF AnyRows
<1>2. ASSUME NEW p \in 1 .. Period(row.due) - 1
      PROVE  d[p] > 0
  <2>1. p \in Periods
    BY <1>1, <1>2 DEF Periods, Sound, Near
  <2>2. c[p] > 0
    BY <1>2 DEF Sound, Dense
  <2>3. QED
    BY <2>1, <2>2
<1>3. QED
  BY <1>2 DEF Sound, Dense

(* A period that was generated lets the due date move on. *)
LEMMA DenseMovesOn ==
  ASSUME NEW d \in [Periods -> Nat], NEW row \in AnyRows, row.due <= MaxDay,
         Sound(d, row), d[Period(row.due)] > 0
  PROVE  Sound(d, MarkGenerated(row))
<1>1. Period(row.due) \in Nat /\ Period(row.due) <= Period(MaxDay) /\ Period(MaxDay) \in Nat
  BY PeriodType, RecurringAssumption DEF AnyRows
<1>2. Period(MarkGenerated(row).due) = Period(row.due) + 1
  BY NextPeriod
<1>3. ASSUME NEW p \in 1 .. Period(row.due)
      PROVE  d[p] > 0
  <2>1. CASE p = Period(row.due)
    BY <2>1
  <2>2. CASE p # Period(row.due)
    BY <1>1, <2>2 DEF Sound, Dense
  <2>3. QED
    BY <2>1, <2>2
<1>4. QED
  BY <1>1, <1>2, <1>3 DEF Sound, Dense, Near

-----------------------------------------------------------------------------
(* Steps. *)

(* The first copy of the template is sound. *)
LEMMA FirstSound ==
  ASSUME NEW c
  PROVE  FirstRow \in AnyRows /\ Sound(c, FirstRow) /\ Idle \in Requested
<1>1. FirstRow \in AnyRows /\ FirstRow.due = Len
  BY RecurringAssumption DEF FirstRow, AnyRows, Statuses
<1>2. Period(Len) = 1
  <2>1. Len * 1 = Len
    BY RecurringAssumption
  <2>2. QED
    BY <2>1, DivMul, RecurringAssumption DEF Period
<1>3. Period(MaxDay) \in Nat
  BY PeriodType, RecurringAssumption
<1>4. Sound(c, FirstRow)
  BY <1>1, <1>2, <1>3 DEF Sound, Dense, Near
<1>5. 0 \in Days
  BY RecurringAssumption DEF Days
<1> HIDE DEF FirstRow
<1>6. Idle \in Requested
  BY <1>1, <1>5 DEF Idle, Requested, Steps, Callers
<1>7. QED
  BY <1>1, <1>4, <1>6

(* A step that leaves the rows alone and gives a request a copy of the     *)
(* template, or none.                                                      *)
LEMMA StepOfOne ==
  ASSUME IInv, NEW r \in Actors, NEW new \in Requested, Goes(r, new),
         UNCHANGED <<tpl, count>>, today' \in Days,
         new.op \in {"save", "commit"} => Sound(count, new.row),
         new.op = "commit" => new.row.due <= MaxDay,
         new.op \in {"open", "commit"} => new.by # "none"
  PROVE  IInv'
<1>1. req' \in [Actors -> Requested]
  BY DEF IInv, TypeInv, Goes
<1>2. \A o \in Actors : req'[o] = IF o = r THEN new ELSE req[o]
  BY DEF IInv, TypeInv, Goes
<1>3. TypeInv'
  BY <1>1 DEF IInv, TypeInv
<1>4. \A o \in Actors : req'[o].op \in {"save", "commit"} => Sound(count, req'[o].row)
  BY <1>2 DEF IInv, RowsInv
<1>5. \A o \in Actors : req'[o].op = "commit" => req'[o].row.due <= MaxDay
  BY <1>2 DEF IInv, RowsInv
<1>6. \A o \in Actors : req'[o].op \in {"open", "commit"} => req'[o].by # "none"
  BY <1>2 DEF IInv, RowsInv
<1>7. RowsInv'
  BY <1>4, <1>5, <1>6 DEF IInv, RowsInv
<1>8. QED
  BY <1>3, <1>7 DEF IInv

(* The same when all the requests are gone.                                *)
LEMMA StepOfAll ==
  ASSUME IInv, UNCHANGED <<tpl, count, today>>,
         req' = req \/ req' = [r \in Actors |-> Idle]
  PROVE  IInv'
<1>1. CASE req' = req
  BY <1>1 DEF IInv, TypeInv, RowsInv
<1>2. CASE req' = [r \in Actors |-> Idle]
  <2>1. Idle \in Requested /\ Idle.op = "idle"
    BY FirstSound DEF Idle
  <2>2. QED
    BY <1>2, <2>1 DEF IInv, TypeInv, RowsInv
<1>3. QED
  BY <1>1, <1>2

(* A copy that was read earlier is saved.                                  *)
LEMMA StepSave ==
  ASSUME IInv, NEW r \in Actors, Save(r)
  PROVE  IInv'
<1>1. Idle \in Requested /\ Idle.op = "idle"
  BY FirstSound DEF Idle
<1>2. Sound(count, req[r].row) /\ req[r].row \in AnyRows
  BY DEF Save, IInv, RowsInv, TypeInv, Requested
<1>3. \A o \in Actors : req'[o] = IF o = r THEN Idle ELSE req[o]
  BY DEF Save, Ends, Goes, IInv, TypeInv
<1>4. TypeInv'
  BY <1>1, <1>2 DEF Save, Ends, Goes, IInv, TypeInv
<1>5. RowsInv'
  BY <1>1, <1>2, <1>3 DEF Save, IInv, RowsInv
<1>6. QED
  BY <1>4, <1>5 DEF IInv

(* The payable of the period is written, and the template moves on, from   *)
(* the copy that the transaction read.                                     *)
LEMMA StepCommit ==
  ASSUME IInv, NEW r \in Actors, Commit(r)
  PROVE  IInv'
<1> DEFINE row == req[r].row
           p == Period(row.due)
           new == req'[r]
<1>1. row \in AnyRows /\ row.due <= MaxDay /\ Sound(count, row) /\ row.due \in Nat
  BY DEF Commit, IInv, RowsInv, TypeInv, Requested, AnyRows
<1>2. p \in Periods
  BY <1>1, PeriodType, RecurringAssumption DEF Periods
<1>3. count' = [count EXCEPT ![p] = @ + 1] /\ tpl' = MarkGenerated(row) /\ today' = today
  BY DEF Commit
<1>4. /\ count' \in [Periods -> Nat]
      /\ \A q \in Periods : count[q] <= count'[q]
      /\ count'[p] > 0
  BY <1>2, <1>3 DEF IInv, TypeInv
<1>5. Sound(count', row)
  BY <1>1, <1>4, DenseGrows DEF IInv, TypeInv
<1>6. Sound(count', MarkGenerated(row)) /\ MarkGenerated(row) \in AnyRows
  BY <1>1, <1>4, <1>5, DenseMovesOn, NextPeriod
<1>7. /\ \A o \in Actors : o # r => req'[o] = req[o]
      /\ req' \in [Actors -> Requested]
      /\ new.op \notin {"save", "open", "commit"}
  <2> DEFINE paying == [req[r] EXCEPT !.op = "pay", !.row = MarkGenerated(row)]
             reminding == [Idle EXCEPT !.op = "remind"]
  <2>1. req[r] \in Requested /\ req[r].by \in {"user", "job", "register"}
    BY DEF Commit, IInv, RowsInv, TypeInv, Requested, Callers
  <2>2. paying \in Requested /\ paying.op = "pay"
    BY <1>6, <2>1 DEF Requested, Steps
  <2>3. Idle \in Requested /\ Idle.op = "idle"
    BY FirstSound DEF Idle
  <2>4. reminding \in Requested /\ reminding.op = "remind"
    BY <2>3 DEF Requested, Steps
  <2>5. PICK next \in {Idle, reminding, paying} : req' = [req EXCEPT ![r] = next]
    <3>1. CASE req[r].by = "user"
      BY <3>1 DEF Commit, Goes
    <3>2. CASE req[r].by = "job"
      BY <3>2 DEF Commit, Goes
    <3>3. CASE req[r].by = "register"
      BY <3>3 DEF Commit, Goes
    <3>4. QED
      BY <2>1, <3>1, <3>2, <3>3
  <2> HIDE DEF paying, reminding
  <2>6. next \in Requested /\ next.op \notin {"save", "open", "commit"}
    BY <2>2, <2>3, <2>4, <2>5
  <2>7. QED
    BY <2>5, <2>6 DEF IInv, TypeInv
<1>8. TypeInv'
  BY <1>3, <1>4, <1>6, <1>7 DEF IInv, TypeInv
<1>9. RowsInv'
  <2>1. ASSUME NEW o \in Actors, req'[o].op \in {"save", "commit"}
        PROVE  Sound(count', req'[o].row)
    BY <1>4, <1>7, <2>1, DenseGrows DEF IInv, TypeInv, RowsInv, Requested
  <2>2. ASSUME NEW o \in Actors, req'[o].op = "commit"
        PROVE  req'[o].row.due <= MaxDay
    BY <1>7, <2>2 DEF IInv, RowsInv
  <2>3. ASSUME NEW o \in Actors, req'[o].op \in {"open", "commit"}
        PROVE  req'[o].by # "none"
    BY <1>7, <2>3 DEF IInv, RowsInv
  <2>4. QED
    BY <1>3, <1>6, <2>1, <2>2, <2>3 DEF RowsInv
<1>10. QED
  BY <1>8, <1>9 DEF IInv

(* A request takes a copy of the template, with another state.             *)
LEMMA StepReadState ==
  ASSUME IInv, NEW r \in Requests, NEW st \in Statuses, ReadState(r, st)
  PROVE  IInv'
<1> DEFINE copy == [tpl EXCEPT !.status = st]
           new == [Idle EXCEPT !.op = "save", !.row = copy]
<1>1. copy \in AnyRows /\ copy.due = tpl.due
  BY DEF IInv, TypeInv, AnyRows
<1>2. Sound(count, copy)
  BY <1>1 DEF IInv, RowsInv, Sound, Dense, Near
<1>3. Goes(r, new) /\ UNCHANGED <<tpl, count, today>>
  BY DEF ReadState, Read, rowVars
<1> HIDE DEF copy
<1>4. new \in Requested /\ new.op = "save" /\ new.row = copy
  BY <1>1, FirstSound DEF Requested, Idle, Steps
<1> HIDE DEF new
<1>5. today' \in Days /\ r \in Actors
  BY <1>3 DEF IInv, TypeInv, Actors
<1>6. QED
  BY <1>2, <1>3, <1>4, <1>5, StepOfOne

(* A generation, or a payment, is asked for.                               *)
LEMMA StepAsks ==
  ASSUME IInv, NEW r \in Requests, Generate(r) \/ Register(r)
  PROVE  IInv'
<1>1. r \in Actors /\ Idle \in Requested /\ tpl \in AnyRows /\ today \in Days
  BY FirstSound DEF Actors, IInv, TypeInv
<1>2. CASE Generate(r)
  <2> DEFINE new == [Idle EXCEPT !.op = "open", !.now = today, !.by = "user"]
  <2>1. new \in Requested /\ new.op = "open" /\ new.by = "user"
    BY <1>1 DEF Requested, Idle, Steps, Callers
  <2>2. Goes(r, new) /\ UNCHANGED <<tpl, count>> /\ today' \in Days
    BY <1>1, <1>2 DEF Generate, rowVars
  <2> HIDE DEF new
  <2>3. QED
    BY <1>1, <2>1, <2>2, StepOfOne
<1>3. CASE Register(r)
  <2> DEFINE opens == [Idle EXCEPT !.op = "open", !.now = tpl.due, !.by = "register"]
             pays == [Idle EXCEPT !.op = "pay", !.row = tpl, !.by = "register"]
  <2>1. tpl.due \in Days
    BY <1>1, <1>3, RecurringAssumption DEF Register, Days, AnyRows
  <2>2. opens \in Requested /\ opens.op = "open" /\ opens.by = "register"
    BY <1>1, <2>1 DEF Requested, Idle, Steps, Callers
  <2>3. pays \in Requested /\ pays.op = "pay"
    BY <1>1 DEF Requested, Idle, Steps, Callers
  <2>4. (Goes(r, opens) \/ Goes(r, pays)) /\ UNCHANGED <<tpl, count>> /\ today' \in Days
    BY <1>1, <1>3 DEF Register, rowVars
  <2> HIDE DEF opens, pays
  <2>5. QED
    BY <1>1, <2>2, <2>3, <2>4, StepOfOne
<1>4. QED
  BY <1>2, <1>3

(* The transaction of the generation reads the template, which is due.     *)
LEMMA StepOpen ==
  ASSUME IInv, NEW r \in Actors, Open(r)
  PROVE  IInv'
<1> DEFINE new == [req[r] EXCEPT !.op = "commit", !.row = tpl]
<1>1. req[r] \in Requested /\ tpl \in AnyRows /\ today \in Days /\ Sound(count, tpl)
  BY DEF IInv, TypeInv, RowsInv
<1>2. req[r].by # "none"
  BY DEF Open, IInv, RowsInv
<1>3. tpl.due <= req[r].now /\ req[r].now <= MaxDay /\ req[r].now \in Nat /\ tpl.due \in Nat
  BY <1>1, RecurringAssumption DEF Open, Opens, IsDue, Requested, Days, AnyRows
<1>4. tpl.due <= MaxDay
  BY <1>3, RecurringAssumption
<1>5. new \in Requested /\ new.op = "commit" /\ new.row = tpl /\ new.by = req[r].by
  BY <1>1 DEF Requested, Steps
<1>6. Goes(r, new) /\ UNCHANGED <<tpl, count>> /\ today' \in Days
  BY <1>1 DEF Open, rowVars
<1> HIDE DEF new
<1>7. QED
  BY <1>1, <1>2, <1>4, <1>5, <1>6, StepOfOne

(* What ends a request, or leads the job on to its reminders.              *)
LEMMA StepGoesOn ==
  ASSUME IInv, NEW r \in Actors, OpenNot(r) \/ Fail(r) \/ Pay(r)
  PROVE  IInv'
<1> DEFINE reminding == [Idle EXCEPT !.op = "remind"]
<1>1. Idle \in Requested /\ Idle.op = "idle" /\ today \in Days
  BY FirstSound DEF Idle, IInv, TypeInv
<1>2. reminding \in Requested /\ reminding.op = "remind"
  BY <1>1 DEF Requested, Idle, Steps
<1>3. (Goes(r, Idle) \/ Goes(r, reminding)) /\ UNCHANGED <<tpl, count>> /\ today' \in Days
  BY <1>1 DEF OpenNot, Fail, Pay, Over, Ends, rowVars
<1> HIDE DEF reminding
<1>4. QED
  BY <1>1, <1>2, <1>3, StepOfOne

(* The job of the day.                                                     *)
LEMMA StepJob ==
  ASSUME IInv, Run \/ Reminding
  PROVE  IInv'
<1> DEFINE opens == [Idle EXCEPT !.op = "open", !.now = today, !.by = "job"]
           reminds == [Idle EXCEPT !.op = "remind"]
           notifies == [Idle EXCEPT !.op = "notify", !.row = tpl]
           records == [req[Job] EXCEPT !.op = "record"]
<1>1. Job \in Actors /\ Idle \in Requested /\ tpl \in AnyRows /\ today \in Days /\ req[Job] \in Requested
  BY FirstSound DEF Actors, IInv, TypeInv
<1>2. opens \in Requested /\ opens.op = "open" /\ opens.by = "job"
  BY <1>1 DEF Requested, Idle, Steps, Callers
<1>3. reminds \in Requested /\ reminds.op = "remind"
  BY <1>1 DEF Requested, Idle, Steps
<1>4. notifies \in Requested /\ notifies.op = "notify"
  BY <1>1 DEF Requested, Idle, Steps
<1>5. records \in Requested /\ records.op = "record"
  BY <1>1 DEF Requested, Steps
<1>6. Idle.op = "idle"
  BY DEF Idle
<1>7. UNCHANGED <<tpl, count>> /\ today' \in Days
  BY <1>1 DEF Run, Reminding, Remind, RemindNot, Notify, Record, rowVars
<1>8. \/ Goes(Job, opens) \/ Goes(Job, reminds) \/ Goes(Job, notifies)
      \/ Goes(Job, records) \/ Goes(Job, Idle)
  BY DEF Run, Reminding, Remind, RemindNot, Notify, Record, Over, Ends
<1> HIDE DEF opens, reminds, notifies, records
<1>9. PICK new \in {opens, reminds, notifies, records, Idle} : Goes(Job, new)
  BY <1>8
<1>10. /\ new \in Requested /\ new.op \notin {"save", "commit"}
       /\ new.op = "open" => new.by # "none"
  BY <1>1, <1>2, <1>3, <1>4, <1>5, <1>6, <1>9
<1>11. QED
  BY <1>1, <1>7, <1>9, <1>10, StepOfOne

(* A day passes, or the process starts again.                              *)
LEMMA StepTime ==
  ASSUME IInv, Tick \/ Restart \/ UNCHANGED vars
  PROVE  IInv'
<1>1. CASE Tick
  <2>1. UNCHANGED <<tpl, count, req>>
    BY <1>1 DEF Tick, rowVars
  <2>2. today' \in Days
    BY <1>1, RecurringAssumption DEF Tick, Days, IInv, TypeInv
  <2>3. QED
    BY <2>1, <2>2 DEF IInv, TypeInv, RowsInv
<1>2. CASE Restart
  BY <1>2, StepOfAll DEF Restart, rowVars
<1>3. CASE UNCHANGED vars
  BY <1>3, StepOfAll DEF vars, rowVars
<1>4. QED
  BY <1>1, <1>2, <1>3

-----------------------------------------------------------------------------
(* What was edited is remembered.                                          *)
LEMMA EditsKept ==
  ASSUME [Next]_vars, "due" \in edits
  PROVE  "due" \in edits'
<1>1. CASE \E r \in Requests : Begins(r)
  BY <1>1 DEF Begins, ReadState, ReadUpdate, Read, Generate, Register
<1>2. CASE \E r \in Actors : Proceeds(r) \/ Fail(r)
  BY <1>2 DEF Proceeds, Save, Open, OpenNot, Commit, Pay, Fail, tallies
<1>3. CASE Run \/ Reminding \/ Tick \/ Restart
  BY <1>3 DEF Run, Reminding, Remind, RemindNot, Notify, Record, Tick, Restart, tallies
<1>4. CASE UNCHANGED vars
  BY <1>4 DEF vars, tallies
<1>5. QED
  BY <1>1, <1>2, <1>3, <1>4 DEF Next

(* A step that is not an edit of the due date.                             *)
LEMMA StepUnedited ==
  ASSUME IInv, [Next]_vars, "due" \notin edits'
  PROVE  IInv'
<1>1. CASE \E r \in Requests : Begins(r)
  <2>1. PICK r \in Requests : Begins(r)
    BY <1>1
  <2>2. ~ \E d \in Days : ReadUpdate(r, d)
    BY DEF ReadUpdate, Read
  <2>3. QED
    BY <2>1, <2>2, StepReadState, StepAsks DEF Begins, Statuses
<1>2. CASE \E r \in Actors : Proceeds(r) \/ Fail(r)
  BY <1>2, StepSave, StepCommit, StepOpen, StepGoesOn DEF Proceeds
<1>3. CASE Run \/ Reminding
  BY <1>3, StepJob
<1>4. CASE Tick \/ Restart \/ UNCHANGED vars
  BY <1>4, StepTime
<1>5. QED
  BY <1>1, <1>2, <1>3, <1>4 DEF Next

(* IInv holds until somebody edits the due date.                           *)
THEOREM IInvAlways ==
  Spec => []("due" \in edits \/ IInv)
<1>1. Init => IInv
  <2> SUFFICES ASSUME Init PROVE IInv
    OBVIOUS
  <2>1. FirstRow \in AnyRows /\ Sound(count, FirstRow) /\ Idle \in Requested /\ Idle.op = "idle"
    BY FirstSound DEF Idle
  <2>2. TypeInv
    BY <2>1, RecurringAssumption DEF Init, TypeInv, Days
  <2>3. RowsInv
    BY <2>1 DEF Init, RowsInv
  <2>4. QED
    BY <2>2, <2>3 DEF IInv
<1>2. ("due" \in edits \/ IInv) /\ [Next]_vars => ("due" \in edits \/ IInv)'
  BY EditsKept, StepUnedited
<1>3. QED
  BY <1>1, <1>2, PTL DEF Spec

(* For any number of requests, periods and days: until somebody edits the  *)
(* due date, every period before the one that is due next has its payable, *)
(* whatever stale copy of the template is saved over it.                   *)
THEOREM NoPeriodSkippedAlways ==
  Spec => []NoPeriodSkipped
<1>1. "due" \in edits \/ IInv => NoPeriodSkipped
  BY DEF IInv, RowsInv, Sound, Dense, NoPeriodSkipped
<1>2. QED
  BY <1>1, IInvAlways, PTL

-----------------------------------------------------------------------------
(* Reminders, whatever users edit. *)

DueDays == 0 .. Len * (Period(MaxDay) + 1)

\* Of a request: a copy of the template that it will save is due within the
\* bound, and one that it generates from is due already.
Copies(x) ==
  /\ x.op = "save" => x.row.due \in DueDays
  /\ x.op = "commit" => x.row.due \in Days
  /\ x.op \in {"open", "commit"} => x.by # "none"

\* While the job is at work its day has not ended, and what it notifies of has
\* not been recorded since it looked.
Notifies ==
  /\ req[Job].op # "idle" => ~ran
  /\ req[Job].op \in {"notify", "record"} => Key(req[Job].row) \in Keys
  /\ req[Job].op = "notify" => Key(req[Job].row) \notin delivered

RemindInv ==
  /\ TypeInv /\ tpl.due \in DueDays
  /\ delivered \subseteq Keys /\ notices \in [Keys -> Nat]
  /\ \A r \in Actors : Copies(req[r])
  /\ Notifies

(* Days, and the day that follows the period of one, are within the bound. *)
LEMMA DaysAreDue ==
  ASSUME NEW d \in Days
  PROVE  d \in DueDays /\ Len * (Period(d) + 1) \in DueDays
<1> DEFINE p == Period(d)
           q == Period(MaxDay)
<1>1. d \in Nat /\ MaxDay \in Nat /\ Len \in Nat \ {0} /\ d <= MaxDay
  BY RecurringAssumption DEF Days
<1>2. p \in Nat /\ q \in Nat /\ p <= q
  BY <1>1, PeriodType
<1>3. MaxDay < Len * q + Len
  BY <1>1, DivFacts DEF Period
<1> HIDE DEF p, q
<1>4. /\ Len * (q + 1) \in Nat /\ Len * (p + 1) \in Nat /\ Len * (p + 1) <= Len * (q + 1)
      /\ Len * (q + 1) = Len * q + Len
  <2>1. p + 1 \in Nat /\ q + 1 \in Nat /\ p + 1 <= q + 1
    BY <1>2
  <2>2. Len * (p + 1) <= Len * (q + 1)
    BY <1>1, <2>1, MulMono
  <2>3. Len * (q + 1) \in Nat /\ Len * (p + 1) \in Nat /\ Len * (q + 1) = Len * q + Len
    BY <1>1, <1>2, Z3
  <2>4. QED
    BY <2>2, <2>3
<1>5. QED
  BY <1>1, <1>2, <1>3, <1>4 DEF DueDays, p, q

\* A request at rest, or about to remind, holds no copy of the template.
LEMMA IdleCopies ==
  /\ Idle \in Requested /\ Copies(Idle) /\ Idle.op = "idle"
  /\ \A op \in {"remind"} : [Idle EXCEPT !.op = op] \in Requested /\ Copies([Idle EXCEPT !.op = op])
<1>1. FirstRow \in AnyRows
  BY RecurringAssumption DEF FirstRow, AnyRows, Statuses
<1>2. QED
  BY <1>1, RecurringAssumption DEF Idle, Requested, Steps, Callers, Days, Copies

(* A step of one request that neither notifies nor records. *)
LEMMA RemindFrame ==
  ASSUME RemindInv, NEW r \in Actors, NEW new \in Requested, Goes(r, new), Copies(new),
         tpl' \in AnyRows, tpl'.due \in DueDays, count' \in [Periods -> Nat],
         UNCHANGED <<today, delivered, notices>>,
         r # Job => (ran' <=> ran),
         r = Job => new.op \notin {"notify", "record"} /\ (new.op = "idle" \/ ~ran')
  PROVE  RemindInv'
<1>1. /\ req' \in [Actors -> Requested] /\ req'[r] = new
      /\ \A q \in Actors \ {r} : req'[q] = req[q]
  BY DEF RemindInv, TypeInv, Goes
<1>2. TypeInv'
  BY <1>1 DEF RemindInv, TypeInv
<1>3. \A q \in Actors : Copies(req'[q])
  BY <1>1 DEF RemindInv
<1>4. Notifies'
  <2>1. CASE r = Job
    BY <1>1, <2>1 DEF Notifies
  <2>2. CASE r # Job
    <3>1. req'[Job] = req[Job] /\ \A row : Key(row)' = Key(row)
      BY <1>1, <2>2 DEF Actors, Key
    <3>2. QED
      BY <2>2, <3>1 DEF RemindInv, Notifies, Key
  <2>3. QED
    BY <2>1, <2>2
<1>5. QED
  BY <1>2, <1>3, <1>4 DEF RemindInv, Copies

(* What a user begins: the job and its day are not concerned. *)
LEMMA RemindBegins ==
  ASSUME RemindInv, NEW r \in Requests, Begins(r)
  PROVE  RemindInv' /\ notices' = notices
<1>1. /\ r \in Actors /\ r # Job /\ Idle \in Requested /\ tpl \in AnyRows /\ today \in Days
      /\ tpl.due \in DueDays /\ count \in [Periods -> Nat]
  BY IdleCopies, RecurringAssumption DEF Actors, RemindInv, TypeInv
<1>2. ASSUME NEW new \in Requested, Copies(new), Goes(r, new),
             UNCHANGED <<rowVars, today, ran, reminderVars>>
      PROVE  RemindInv' /\ notices' = notices
  BY <1>1, <1>2, RemindFrame DEF rowVars, reminderVars
<1>3. ASSUME NEW st \in Statuses, ReadState(r, st) PROVE RemindInv' /\ notices' = notices
  <2> DEFINE copy == [tpl EXCEPT !.status = st]
             new == [Idle EXCEPT !.op = "save", !.row = copy]
  <2>1. copy \in AnyRows /\ copy.due = tpl.due
    BY <1>1 DEF AnyRows
  <2>2. Goes(r, new) /\ UNCHANGED <<rowVars, today, ran, reminderVars>>
    BY <1>3 DEF ReadState, Read
  <2> HIDE DEF copy
  <2>3. new \in Requested /\ new.op = "save" /\ new.row = copy
    BY <1>1, <2>1 DEF Requested, Idle, Steps
  <2> HIDE DEF new
  <2>4. QED
    BY <1>1, <1>2, <2>1, <2>2, <2>3 DEF Copies
<1>4. ASSUME NEW d \in Days, ReadUpdate(r, d) PROVE RemindInv' /\ notices' = notices
  <2> DEFINE copy == [tpl EXCEPT !.due = d]
             new == [Idle EXCEPT !.op = "save", !.row = copy]
  <2>1. copy \in AnyRows /\ copy.due = d
    BY <1>1 DEF AnyRows, Days
  <2>2. Goes(r, new) /\ UNCHANGED <<rowVars, today, ran, reminderVars>>
    BY <1>4 DEF ReadUpdate, Read
  <2> HIDE DEF copy
  <2>3. new \in Requested /\ new.op = "save" /\ new.row = copy
    BY <1>1, <2>1 DEF Requested, Idle, Steps
  <2> HIDE DEF new
  <2>4. QED
    BY <1>2, <2>1, <2>2, <2>3, DaysAreDue DEF Copies
<1>5. CASE Generate(r)
  <2> DEFINE new == [Idle EXCEPT !.op = "open", !.now = today, !.by = "user"]
  <2>1. new \in Requested /\ new.op = "open" /\ new.by = "user"
    BY <1>1 DEF Requested, Idle, Steps, Callers
  <2>2. Goes(r, new) /\ UNCHANGED <<rowVars, today, ran, reminderVars>>
    BY <1>5 DEF Generate
  <2> HIDE DEF new
  <2>3. QED
    BY <1>2, <2>1, <2>2 DEF Copies
<1>6. CASE Register(r)
  <2> DEFINE opens == [Idle EXCEPT !.op = "open", !.now = tpl.due, !.by = "register"]
             pays == [Idle EXCEPT !.op = "pay", !.row = tpl, !.by = "register"]
  <2>1. tpl.due \in Days
    BY <1>1, <1>6, RecurringAssumption DEF Register, Days, AnyRows
  <2>2. opens \in Requested /\ opens.op = "open" /\ opens.by = "register"
    BY <1>1, <2>1 DEF Requested, Idle, Steps, Callers
  <2>3. pays \in Requested /\ pays.op = "pay"
    BY <1>1 DEF Requested, Idle, Steps, Callers
  <2>4. (Goes(r, opens) \/ Goes(r, pays)) /\ UNCHANGED <<rowVars, today, ran, reminderVars>>
    BY <1>6 DEF Register
  <2> HIDE DEF opens, pays
  <2>5. QED
    BY <1>2, <2>2, <2>3, <2>4 DEF Copies
<1>7. QED
  BY <1>3, <1>4, <1>5, <1>6 DEF Begins, Statuses

(* What goes on, of a user or of the job. *)
LEMMA RemindProceeds ==
  ASSUME RemindInv, NEW r \in Actors, Proceeds(r) \/ Fail(r)
  PROVE  RemindInv' /\ notices' = notices
<1> DEFINE x == req[r]
<1>1. /\ x \in Requested /\ Copies(x) /\ Idle \in Requested /\ Copies(Idle) /\ Idle.op = "idle"
      /\ tpl \in AnyRows /\ tpl.due \in DueDays /\ count \in [Periods -> Nat]
      /\ r = Job /\ x.op # "idle" => ~ran
  BY IdleCopies DEF RemindInv, TypeInv, Notifies
<1>2. ASSUME NEW new \in Requested, Copies(new), Goes(r, new), UNCHANGED <<today, reminderVars>>,
             new.op \notin {"notify", "record"}, x.op # "idle",
             r # Job \/ new.op # "idle" => (ran' <=> ran),
             tpl' \in AnyRows, tpl'.due \in DueDays, count' \in [Periods -> Nat]
      PROVE  RemindInv' /\ notices' = notices
  BY <1>1, <1>2, RemindFrame DEF reminderVars
<1>3. CASE Save(r)
  <2>1. x.row \in AnyRows /\ x.row.due \in DueDays
    BY <1>1, <1>3 DEF Save, Copies, Requested
  <2>2. QED
    BY <1>1, <1>2, <1>3, <2>1 DEF Save, Ends
<1>4. CASE Open(r)
  <2> DEFINE new == [x EXCEPT !.op = "commit", !.row = tpl]
  <2>1. tpl.due \in Days
    BY <1>1, <1>4, RecurringAssumption DEF Open, Opens, IsDue, Requested, Days, AnyRows
  <2>2. /\ new \in Requested /\ new.op = "commit" /\ new.row = tpl /\ new.by = x.by
        /\ x.by # "none" /\ x.op = "open"
    BY <1>1, <1>4 DEF Open, Requested, Steps, Copies
  <2>3. Goes(r, new) /\ UNCHANGED <<rowVars, today, ran, reminderVars>>
    BY <1>4 DEF Open
  <2> HIDE DEF new
  <2>4. QED
    BY <1>1, <1>2, <2>1, <2>2, <2>3 DEF Copies, rowVars
<1> DEFINE reminding == [Idle EXCEPT !.op = "remind"]
<1>5. reminding \in Requested /\ reminding.op = "remind" /\ Copies(reminding)
  BY IdleCopies DEF Idle
<1> HIDE DEF reminding
<1>6. CASE OpenNot(r)
  <2>1. (Goes(r, Idle) \/ Goes(r, reminding)) /\ UNCHANGED <<rowVars, today, ran, reminderVars>>
    BY <1>6 DEF OpenNot, reminding
  <2>2. x.op = "open"
    BY <1>6 DEF OpenNot
  <2>3. QED
    BY <1>1, <1>2, <1>5, <2>1, <2>2 DEF rowVars
<1>7. CASE Commit(r)
  <2> DEFINE row == x.row
             paying == [x EXCEPT !.op = "pay", !.row = MarkGenerated(row)]
  <2>1. row \in AnyRows /\ row.due \in Days /\ x.op = "commit"
        /\ x.by \in {"user", "job", "register"}
    BY <1>1, <1>7 DEF Commit, Copies, Requested, Callers
  <2>2. /\ tpl' = MarkGenerated(row) /\ UNCHANGED <<today, ran, reminderVars>>
        /\ count' = [count EXCEPT ![Period(row.due)] = @ + 1]
    BY <1>7 DEF Commit
  <2>3. MarkGenerated(row) \in AnyRows /\ MarkGenerated(row).due \in DueDays
    <3>1. MarkGenerated(row).due = Len * (Period(row.due) + 1)
      BY <2>1 DEF MarkGenerated, AnyRows
    <3>2. QED
      BY <2>1, <3>1, NextPeriod, DaysAreDue
  <2>4. count' \in [Periods -> Nat]
    <3> DEFINE p == Period(row.due)
    <3>1. p \in Periods
      BY <2>1, PeriodType, RecurringAssumption DEF Periods, Days
    <3> HIDE DEF p
    <3>2. [count EXCEPT ![p] = @ + 1] \in [Periods -> Nat]
      BY <1>1, <3>1
    <3>3. QED
      BY <2>2, <3>2 DEF p
  <2>5. paying \in Requested /\ paying.op = "pay"
    BY <1>1, <2>3 DEF Requested, Steps
  <2>6. Goes(r, Idle) \/ Goes(r, reminding) \/ Goes(r, paying)
    <3>1. CASE x.by = "user"
      BY <1>7, <3>1 DEF Commit
    <3>2. CASE x.by = "job"
      BY <1>7, <3>2 DEF Commit, reminding
    <3>3. CASE x.by = "register"
      BY <1>7, <3>3 DEF Commit
    <3>4. QED
      BY <2>1, <3>1, <3>2, <3>3
  <2> HIDE DEF paying, row
  <2>7. Copies(paying)
    BY <2>5 DEF Copies
  <2>8. QED
    BY <1>1, <1>2, <1>5, <2>1, <2>2, <2>3, <2>4, <2>5, <2>6, <2>7
<1>8. CASE Pay(r) \/ Fail(r)
  <2>1. /\ Goes(r, Idle) /\ UNCHANGED <<tpl, count, today, reminderVars>>
        /\ x.op \in {"pay", "open", "commit"}
    BY <1>8 DEF Pay, Fail, Over, Ends, rowVars
  <2>2. r # Job => (ran' <=> ran)
    <3>1. Over(r) => (r # Job => (ran' <=> ran))
      BY Zenon DEF Over
    <3>2. QED
      BY <1>8, <3>1 DEF Pay, Fail
  <2>3. QED
    BY <1>1, <1>2, <2>1, <2>2
<1>9. QED
  BY <1>3, <1>4, <1>6, <1>7, <1>8 DEF Proceeds

(* What a reminder is recorded under. *)
LEMMA KeyInKeys ==
  ASSUME TypeInv, tpl.due \in DueDays, Reminds(tpl)
  PROVE  Key(tpl) \in Keys
  BY DEF Reminds, Key, Keys, DueDays

(* The job looks, notifies of what it found unrecorded, and records it. *)
LEMMA RemindJob ==
  ASSUME RemindInv, Run \/ Reminding
  PROVE  RemindInv' /\ \A k \in delivered : notices'[k] = notices[k]
<1> DEFINE x == req[Job]
           opens == [Idle EXCEPT !.op = "open", !.now = today, !.by = "job"]
           reminds == [Idle EXCEPT !.op = "remind"]
           notifies == [Idle EXCEPT !.op = "notify", !.row = tpl]
           records == [x EXCEPT !.op = "record"]
<1>1. /\ Job \in Actors /\ x \in Requested /\ Copies(x)
      /\ Idle \in Requested /\ Copies(Idle) /\ Idle.op = "idle"
      /\ tpl \in AnyRows /\ tpl.due \in DueDays /\ count \in [Periods -> Nat] /\ today \in Days
      /\ delivered \subseteq Keys /\ notices \in [Keys -> Nat] /\ Notifies
  BY IdleCopies DEF RemindInv, TypeInv, Actors
<1>2. ASSUME NEW new \in Requested, Copies(new), Goes(Job, new), UNCHANGED <<rowVars, today, reminderVars>>,
             new.op \notin {"notify", "record"}, new.op = "idle" \/ ~ran'
      PROVE  RemindInv' /\ \A k \in delivered : notices'[k] = notices[k]
  BY <1>1, <1>2, RemindFrame DEF rowVars, reminderVars
<1>3. CASE Run
  <2>1. opens \in Requested /\ opens.op = "open" /\ opens.by = "job"
    BY <1>1 DEF Requested, Idle, Steps, Callers
  <2>2. reminds \in Requested /\ reminds.op = "remind" /\ Copies(reminds)
    BY IdleCopies DEF Idle
  <2>3. (Goes(Job, opens) \/ Goes(Job, reminds)) /\ ~ran' /\ UNCHANGED <<rowVars, today, reminderVars>>
    BY <1>3 DEF Run
  <2> HIDE DEF opens, reminds
  <2>4. QED
    BY <1>2, <2>1, <2>2, <2>3 DEF Copies
\* One record of the job changes, to n.
<1>4. ASSUME NEW n \in Requested, Copies(n), Goes(Job, n)
      PROVE  /\ req' \in [Actors -> Requested] /\ req'[Job] = n
             /\ \A q \in Actors : Copies(req'[q])
  BY <1>1, <1>4 DEF RemindInv, TypeInv, Goes
<1>5. CASE Remind
  <2>1. notifies \in Requested /\ notifies.op = "notify" /\ notifies.row = tpl
    BY <1>1 DEF Requested, Idle, Steps
  <2>2. /\ Goes(Job, notifies) /\ UNCHANGED <<tpl, count, today, ran, delivered, notices>>
        /\ Key(tpl) \notin delivered /\ x.op = "remind" /\ Reminds(tpl)
    BY <1>5 DEF Remind, rowVars, reminderVars, Reminds
  <2> HIDE DEF notifies
  <2>3. /\ req' \in [Actors -> Requested] /\ req'[Job] = notifies
        /\ \A q \in Actors : Copies(req'[q])
    BY <1>4, <2>1, <2>2 DEF Copies
  <2>4. Key(tpl) \in Keys /\ ~ran
    BY <1>1, <2>2, KeyInKeys DEF RemindInv, Notifies
  <2>5. Notifies'
    BY <2>1, <2>2, <2>3, <2>4 DEF Notifies, Key
  <2>6. TypeInv'
    BY <1>1, <2>2, <2>3 DEF TypeInv
  <2>7. QED
    BY <1>1, <2>2, <2>3, <2>5, <2>6 DEF RemindInv, Copies
<1>6. CASE RemindNot
  BY <1>1, <1>2, <1>6 DEF RemindNot, Over, Ends
<1>7. CASE Notify
  <2>1. records \in Requested /\ records.op = "record" /\ records.row = x.row
    BY <1>1 DEF Requested, Steps
  <2>2. /\ Goes(Job, records) /\ UNCHANGED <<tpl, count, today, ran, delivered>> /\ x.op = "notify"
        /\ notices' = [notices EXCEPT ![Key(x.row)] = @ + 1]
    BY <1>7 DEF Notify, rowVars
  <2> HIDE DEF records
  <2>3. /\ req' \in [Actors -> Requested] /\ req'[Job] = records
        /\ \A q \in Actors : Copies(req'[q])
    BY <1>4, <2>1, <2>2 DEF Copies
  <2>4. Key(x.row) \in Keys /\ Key(x.row) \notin delivered /\ ~ran
    BY <1>1, <2>2 DEF Notifies
  <2>5. notices' \in [Keys -> Nat] /\ \A k \in delivered : notices'[k] = notices[k]
    BY <1>1, <2>2, <2>4
  <2>6. Notifies'
    BY <2>1, <2>2, <2>3, <2>4 DEF Notifies, Key
  <2>7. TypeInv'
    BY <1>1, <2>2, <2>3 DEF TypeInv, RemindInv
  <2>8. QED
    BY <1>1, <2>2, <2>3, <2>5, <2>6, <2>7 DEF RemindInv, Copies
<1>8. CASE Record
  <2>1. /\ Goes(Job, Idle) /\ UNCHANGED <<tpl, count, today, notices>> /\ x.op = "record"
        /\ delivered' = delivered \cup {Key(x.row)}
    BY <1>8 DEF Record, rowVars, Over, Ends
  <2>2. /\ req' \in [Actors -> Requested] /\ req'[Job] = Idle
        /\ \A q \in Actors : Copies(req'[q])
    BY <1>1, <1>4, <2>1
  <2>3. Key(x.row) \in Keys /\ delivered' \subseteq Keys
    BY <1>1, <2>1 DEF Notifies
  <2>4. Notifies'
    BY <1>1, <2>2 DEF Notifies
  <2>5. TypeInv'
    BY <1>1, <2>1, <2>2 DEF TypeInv, RemindInv
  <2>6. QED
    BY <1>1, <2>1, <2>2, <2>3, <2>4, <2>5 DEF RemindInv, Copies
<1>9. QED
  BY <1>3, <1>5, <1>6, <1>7, <1>8 DEF Reminding

(* The day does not pass while the job is at work. *)
LEMMA RemindTime ==
  ASSUME RemindInv, Tick \/ Restart \/ UNCHANGED vars
  PROVE  RemindInv' /\ notices' = notices
<1>1. CASE Tick
  <2>1. UNCHANGED <<tpl, count, req, delivered, notices>> /\ req[Job].op = "idle"
    BY <1>1 DEF Tick, rowVars, reminderVars, RemindInv, Notifies
  <2>2. today' \in Days
    BY <1>1, RecurringAssumption DEF Tick, Days, RemindInv, TypeInv
  <2>3. Notifies'
    BY <2>1 DEF Notifies
  <2>4. QED
    BY <2>1, <2>2, <2>3 DEF RemindInv, TypeInv, Copies
<1>2. CASE Restart
  <2>1. /\ UNCHANGED <<tpl, count, today, delivered, notices>> /\ req' = [r \in Actors |-> Idle]
        /\ Idle \in Requested /\ Copies(Idle) /\ Idle.op = "idle" /\ Job \in Actors
    BY <1>2, IdleCopies DEF Restart, rowVars, reminderVars, Actors
  <2>2. req' \in [Actors -> Requested] /\ \A r \in Actors : req'[r] = Idle
    BY <2>1
  <2>3. Notifies'
    BY <2>1, <2>2 DEF Notifies
  <2>4. TypeInv'
    BY <2>1, <2>2 DEF RemindInv, TypeInv
  <2>5. \A r \in Actors : Copies(req'[r])
    BY <2>1, <2>2
  <2>6. QED
    BY <2>1, <2>3, <2>4, <2>5 DEF RemindInv, Copies
<1>3. CASE UNCHANGED vars
  BY <1>3 DEF vars, rowVars, reminderVars, RemindInv, TypeInv, Notifies, Copies, Key
<1>4. QED
  BY <1>1, <1>2, <1>3

\* The inductive invariant of the reminders: the job works on a day that has not ended, what
\* it is about to notify of was not recorded since it looked, and copies are due in the bound.
THEOREM RemindInvAlways == Spec => []RemindInv
<1>1. Init => RemindInv
  <2> SUFFICES ASSUME Init PROVE RemindInv
    OBVIOUS
  <2>1. Idle \in Requested /\ Copies(Idle) /\ Idle.op = "idle" /\ Job \in Actors
    BY IdleCopies DEF Actors
  <2>2. 0 \in Days /\ Period(0) = 0
    BY RecurringAssumption, DivMul DEF Days, Period
  <2>3. Len \in DueDays
    BY <2>2, DaysAreDue, RecurringAssumption
  <2>4. FirstRow \in AnyRows /\ FirstRow.due = Len
    BY RecurringAssumption DEF FirstRow, AnyRows, Statuses
  <2>5. TypeInv
    BY <2>1, <2>2, <2>4 DEF Init, TypeInv
  <2>6. QED
    BY <2>1, <2>3, <2>4, <2>5 DEF Init, RemindInv, Notifies
<1>2. RemindInv /\ [Next]_vars => RemindInv'
  BY RemindBegins, RemindProceeds, RemindJob, RemindTime DEF Next
<1>3. QED
  BY <1>1, <1>2, PTL DEF Spec

(* For any number of requests, days, edits, failures and restarts: no      *)
(* notification goes out for a reminder that was recorded as delivered.    *)
THEOREM RecordedNotResentAlways == Spec => RecordedNotResent
<1>1. RemindInv /\ [Next]_vars => [\A k \in delivered : notices'[k] = notices[k]]_vars
  <2> SUFFICES ASSUME RemindInv, [Next]_vars
               PROVE  \A k \in delivered : notices'[k] = notices[k]
    OBVIOUS
  <2>1. QED
    BY RemindBegins, RemindProceeds, RemindJob, RemindTime DEF Next
<1>2. QED
  BY <1>1, RemindInvAlways, PTL DEF Spec, RecordedNotResent

-----------------------------------------------------------------------------
(* A purchase order.                                                       *)

Row == [status : {"NONE", "DRAFT", "CONFIRMED"}, received : 0 .. Ordered, accepted : 0 .. Ordered]

Operations ==
  {"none", "send", "process", "processed", "expected", "confirm", "receive", "totals", "cancel", "review", "decide"}

Stages == {"DRAFT", "SENT", "PENDING_RECEIPT_CONFIRMATION", "PARTIAL", "RECEIVED", "CANCELLED"}

InProgress == [op : Operations, seen : Stages \cup {"none"}, what : Receptions \cup Decisions \cup {None}]

PurchaseTypes ==
  /\ rec \in [Receptions -> Row] /\ running \in [Runners -> InProgress]
  /\ status \in Stages
  /\ entered \in Int /\ whole \in Nat /\ back \in Nat /\ overlapped \in BOOLEAN

\* A reception that is written down has received something, and one that is being
\* confirmed is written down.
Written(x) == x \in Receptions /\ rec[x].status # "NONE"
Receives(r) == running[r].op \in {"receive", "totals"}

ReceptionsInv ==
  /\ \A x \in Receptions : rec[x].status # "NONE" => rec[x].received > 0
  /\ \A x \in Receptions : rec[x].status = "NONE" => rec[x] = NoReception
  /\ \A r \in Runners : Receives(r) => Written(running[r].what)
  /\ \A r \in Runners : running[r].op = "totals" =>
       rec[running[r].what].accepted = 0 /\ running[r].seen \in {"RECEIVED", "PARTIAL"}

\* While requests have not overlapped: one runs at a time, the reception it confirms is not
\* confirmed yet, and the totals it read are those it will leave.
SerialInv ==
  ~overlapped =>
    /\ \A r, o \in Runners : r # o => running[r] = Resting \/ running[o] = Resting
    /\ \A r \in Runners : Receives(r) => rec[running[r].what].status = "DRAFT"
    /\ \A r \in Runners : running[r].op = "totals" =>
         running[r].seen = NewStatus(WithConfirmed(running[r].what))

PurchaseInv == PurchaseTypes /\ ReceptionsInv /\ SerialInv /\ ReceptionStatusTrue /\ StockAsRecorded

-----------------------------------------------------------------------------
\* The quantities of the purchase.
LEMMA PurchaseNumbers ==
  /\ Ordered \in Nat \ {0} /\ IsFiniteSet(Receptions)
  /\ \A c \in Counts : c[1] \in 1 .. Ordered /\ c[2] \in 0 .. Ordered
<1>1. \A a, b : \A c \in a \X b : c[1] \in a /\ c[2] \in b
  OBVIOUS
<1> QED BY <1>1, PurchaseAssumption

\* The totals of the receptions are counts.
LEMMA ReceivedSum ==
  ASSUME NEW rows \in [Receptions -> Row]
  PROVE  /\ Received(rows) \in Nat /\ Accepted(rows) \in Nat
         /\ Confirmed(rows) \in SUBSET Receptions /\ IsFiniteSet(Confirmed(rows))
<1>1. Confirmed(rows) \in SUBSET Receptions /\ IsFiniteSet(Confirmed(rows))
  BY PurchaseNumbers, FS_Subset DEF Confirmed
<1>2. \A x \in Confirmed(rows) : [y \in Receptions |-> rows[y].received][x] \in Nat
  BY PurchaseNumbers, <1>1 DEF Row
<1>3. \A x \in Confirmed(rows) : [y \in Receptions |-> rows[y].accepted][x] \in Nat
  BY PurchaseNumbers, <1>1 DEF Row
<1> QED BY <1>1, <1>2, <1>3, SumNat DEF Received, Accepted

\* Only the confirmed receptions count.
LEMMA SameConfirmed ==
  ASSUME NEW rows \in [Receptions -> Row], NEW new \in [Receptions -> Row],
         Confirmed(new) = Confirmed(rows), \A x \in Confirmed(rows) : new[x] = rows[x]
  PROVE  Received(new) = Received(rows) /\ Accepted(new) = Accepted(rows)
<1> DEFINE S == Confirmed(rows)
           f == [y \in Receptions |-> rows[y].received]
           f2 == [y \in Receptions |-> new[y].received]
           g == [y \in Receptions |-> rows[y].accepted]
           g2 == [y \in Receptions |-> new[y].accepted]
<1>1. S \in SUBSET Receptions /\ IsFiniteSet(S)
  BY ReceivedSum
<1>2. \A x \in S : f[x] = f2[x] /\ g[x] = g2[x]
  BY <1>1
<1>3. /\ Received(rows) = SumOver(S, f) /\ Received(new) = SumOver(S, f2)
      /\ Accepted(rows) = SumOver(S, g) /\ Accepted(new) = SumOver(S, g2)
  BY DEF Received, Accepted
<1> HIDE DEF S, f, f2, g, g2
<1>4. SumOver(S, f) = SumOver(S, f2)
  BY <1>1, <1>2, SumSame
<1>5. SumOver(S, g) = SumOver(S, g2)
  BY <1>1, <1>2, SumSame
<1> QED BY <1>3, <1>4, <1>5

\* Confirming a reception adds what was accepted of it.
LEMMA ConfirmAdds ==
  ASSUME PurchaseTypes, NEW x \in Receptions, rec[x].status = "DRAFT"
  PROVE  Accepted(WithConfirmed(x)) = Accepted(rec) + rec[x].accepted
<1> DEFINE new == WithConfirmed(x)
           f == [y \in Receptions |-> rec[y].accepted]
           g == [y \in Receptions |-> new[y].accepted]
<1>1. new \in [Receptions -> Row] /\ \A y \in Receptions : new[y].accepted = rec[y].accepted
  BY DEF WithConfirmed, PurchaseTypes, Row
<1>2. Confirmed(new) = Confirmed(rec) \cup {x} /\ x \notin Confirmed(rec)
  BY DEF WithConfirmed, PurchaseTypes, Row, Confirmed
<1>3. f = g
  BY <1>1
<1>4. IsFiniteSet(Confirmed(rec)) /\ Confirmed(rec) \in SUBSET Receptions
  BY ReceivedSum DEF PurchaseTypes
<1>5. \A y \in Confirmed(rec) \cup {x} : f[y] \in Int
  BY <1>4, PurchaseNumbers DEF PurchaseTypes, Row
<1>6. SumOver(Confirmed(rec) \cup {x}, f) = f[x] + SumOver(Confirmed(rec), f)
  BY <1>2, <1>4, <1>5, SumAdd
<1>7. Accepted(rec) \in Nat /\ rec[x].accepted \in Int
  BY ReceivedSum, PurchaseNumbers DEF PurchaseTypes, Row
<1>8. Accepted(new) = SumOver(Confirmed(rec) \cup {x}, f) /\ Accepted(rec) = SumOver(Confirmed(rec), f)
  BY <1>2, <1>3 DEF Accepted
<1> QED BY <1>6, <1>7, <1>8

\* A purchase that is created has received nothing.
LEMMA InitPurchase == PurchaseInit => PurchaseInv
<1> SUFFICES ASSUME PurchaseInit PROVE PurchaseInv
  OBVIOUS
<1>1. PurchaseTypes
  <2>1. rec \in [Receptions -> Row]
    BY PurchaseNumbers DEF PurchaseInit, Row, NoReception
  <2>2. Resting \in InProgress
    BY DEF Resting, InProgress, Operations
  <2>3. running \in [Runners -> InProgress]
    BY <2>2 DEF PurchaseInit
  <2>4. status \in Stages /\ entered \in Int /\ whole \in Nat /\ back \in Nat
    BY DEF PurchaseInit, Stages
  <2>5. overlapped \in BOOLEAN
    BY DEF PurchaseInit
  <2> QED BY <2>1, <2>3, <2>4, <2>5 DEF PurchaseTypes
<1>2. ReceptionsInv /\ SerialInv
  BY DEF PurchaseInit, ReceptionsInv, SerialInv, NoReception, Resting, Receives
<1>3. Received(rec) = 0 /\ Accepted(rec) = 0
  <2>1. Confirmed(rec) = {}
    BY DEF PurchaseInit, Confirmed, NoReception
  <2> QED BY <2>1, SumEmpty DEF Received, Accepted
<1>4. ReceptionStatusTrue /\ StockAsRecorded
  BY <1>3, PurchaseNumbers DEF PurchaseInit, ReceptionStatusTrue, StockAsRecorded
<1> QED BY <1>1, <1>2, <1>4 DEF PurchaseInv

-----------------------------------------------------------------------------
\* A step that leaves the receptions and the stock alone keeps what is said of them.
LEMMA KeepsStock ==
  ASSUME ReceptionStatusTrue, StockAsRecorded, overlapped => overlapped',
         UNCHANGED <<reception, stockVars>>
  PROVE  ReceptionStatusTrue' /\ StockAsRecorded'
BY DEF ReceptionStatusTrue, StockAsRecorded, stockVars, Received, Accepted, Confirmed

\* A request that begins.
LEMMA ReadsStep ==
  ASSUME PurchaseInv, NEW r \in Runners, NEW op \in Operations \ {"totals"},
         NEW what \in Receptions \cup Decisions \cup {None}, Reads(r, op, what),
         op = "receive" => what \in Receptions /\ rec[what].status = "DRAFT"
  PROVE  PurchaseInv'
<1> USE DEF PurchaseInv
<1>1. /\ UNCHANGED <<orderVars, stockVars>>
      /\ running' = [running EXCEPT ![r] = [op |-> op, seen |-> status, what |-> what]]
      /\ running[r] = Resting
      /\ overlapped' = (overlapped \/ \E o \in Runners : running[o] # Resting)
  BY DEF Reads, Becomes
<1>2. PurchaseTypes'
  <2>1. [op |-> op, seen |-> status, what |-> what] \in InProgress
    BY DEF PurchaseTypes, InProgress
  <2>2. running' \in [Runners -> InProgress]
    BY <1>1, <2>1 DEF PurchaseTypes
  <2> QED BY <1>1, <2>2 DEF PurchaseTypes, orderVars, stockVars
<1>3. ReceptionsInv'
  BY <1>1 DEF PurchaseTypes, ReceptionsInv, Receives, Written, stockVars
<1>4. SerialInv'
  <2> SUFFICES ASSUME ~overlapped' PROVE SerialInv'
    BY DEF SerialInv
  <2>1. \A o \in Runners : o # r => running'[o] = Resting
    BY <1>1 DEF PurchaseTypes
  <2>2. running'[r].op = op /\ running'[r].what = what /\ Resting.op = "none"
    BY <1>1 DEF PurchaseTypes, Resting
  <2> QED BY <1>1, <2>1, <2>2 DEF SerialInv, Receives, stockVars
<1>5. ReceptionStatusTrue' /\ StockAsRecorded'
  BY <1>1, KeepsStock DEF orderVars
<1> QED BY <1>2, <1>3, <1>4, <1>5

\* A request that goes on, or ends, and confirms no reception.
LEMMA ContinuesStep ==
  ASSUME PurchaseTypes, ReceptionsInv, SerialInv, NEW r \in Runners, NEW new \in InProgress,
         new.op \notin {"receive", "totals"}, running[r] # Resting,
         Becomes(r, new), UNCHANGED <<rec, overlapped>>
  PROVE  running' \in [Runners -> InProgress] /\ ReceptionsInv' /\ SerialInv'
<1>1. running' = [running EXCEPT ![r] = new]
  BY DEF Becomes
<1>2. running' \in [Runners -> InProgress]
  BY <1>1 DEF PurchaseTypes
<1>3. ReceptionsInv'
  BY <1>1 DEF PurchaseTypes, ReceptionsInv, Receives, Written
<1>4. SerialInv'
  <2> SUFFICES ASSUME ~overlapped' PROVE SerialInv'
    BY DEF SerialInv
  <2>1. \A o \in Runners : o # r => running'[o] = Resting
    BY <1>1 DEF PurchaseTypes, SerialInv
  <2>2. running'[r].op \notin {"receive", "totals"} /\ Resting.op = "none"
    BY <1>1 DEF PurchaseTypes, Resting
  <2> QED BY <2>1, <2>2 DEF SerialInv, Receives
<1> QED BY <1>2, <1>3, <1>4

\* Nothing runs where a request rests.
LEMMA RestingType == Resting \in InProgress /\ Resting.op = "none"
BY DEF Resting, InProgress, Operations

\* The steps of a request that move no stock.
LEMMA PaperStep ==
  ASSUME PurchaseInv, NEW r \in Runners,
         \/ CommitSend(r) \/ SaveProcessing(r) \/ CommitExpected(r)
         \/ RollbackCancel(r) \/ DecidePayments(r) \/ Decide(r) \/ Breaks(r)
  PROVE  PurchaseInv'
<1> USE DEF PurchaseInv
<1> DEFINE Moves(op) == [running[r] EXCEPT !.op = op]
<1>1. running[r] \in InProgress
  BY DEF PurchaseTypes
<1>2. Moves("processed") \in InProgress /\ Moves("processed").op = "processed"
  BY <1>1 DEF InProgress, Operations
<1>3. Moves("decide") \in InProgress /\ Moves("decide").op = "decide"
  BY <1>1 DEF InProgress, Operations
<1>4. PICK new \in {Resting, Moves("processed"), Moves("decide")} : Becomes(r, new)
  BY DEF CommitSend, SaveProcessing, CommitExpected, RollbackCancel, DecidePayments, Decide, Breaks,
         Leaves
<1>5. running[r] # Resting
  BY RestingType DEF CommitSend, SaveProcessing, CommitExpected, RollbackCancel, DecidePayments,
                     Decide, Breaks
<1>6. UNCHANGED <<reception, stockVars, overlapped>> /\ status' \in Stages
  BY DEF CommitSend, SaveProcessing, CommitExpected, RollbackCancel, DecidePayments, Decide, Breaks,
         orderVars, historyVars, PurchaseTypes, Stages
<1>7. running' \in [Runners -> InProgress] /\ ReceptionsInv' /\ SerialInv'
  <2>1. new \in InProgress /\ new.op \notin {"receive", "totals"}
    BY <1>2, <1>3, <1>4, RestingType
  <2> QED BY <2>1, <1>4, <1>5, <1>6, ContinuesStep DEF stockVars
<1>8. PurchaseTypes'
  BY <1>6, <1>7 DEF PurchaseTypes, stockVars
<1>9. ReceptionStatusTrue' /\ StockAsRecorded'
  BY <1>6, KeepsStock
<1> QED BY <1>7, <1>8, <1>9

\* The steps of the users that move no stock and write no reception.
LEMMA OfficeStep ==
  ASSUME PurchaseInv, UNCHANGED <<status, reception, stockVars, overlapped>>,
         running' = running \/ running' = [r \in Runners |-> Resting]
  PROVE  PurchaseInv'
<1> USE DEF PurchaseInv
<1>1. running' \in [Runners -> InProgress]
  BY RestingType DEF PurchaseTypes
<1>2. PurchaseTypes'
  BY <1>1 DEF PurchaseTypes, stockVars
<1>3. ReceptionsInv' /\ SerialInv'
  <2>1. CASE running' = running
    BY <2>1 DEF ReceptionsInv, SerialInv, Receives, Written, WithConfirmed, stockVars,
                NewStatus, Full, Received, Confirmed
  <2>2. CASE running' = [r \in Runners |-> Resting]
    <3>1. \A r \in Runners : running'[r] = Resting /\ running'[r].op = "none"
      BY <2>2, RestingType
    <3> QED BY <3>1 DEF ReceptionsInv, SerialInv, Receives, stockVars
  <2> QED BY <2>1, <2>2
<1>4. ReceptionStatusTrue' /\ StockAsRecorded'
  BY KeepsStock
<1> QED BY <1>2, <1>3, <1>4

\* A confirmation of the whole purchase brings all of it.
LEMMA ConfirmStep ==
  ASSUME PurchaseInv, NEW r \in Runners, CommitConfirm(r)
  PROVE  PurchaseInv'
<1> USE DEF PurchaseInv
<1>1. /\ running[r].op = "confirm" /\ Becomes(r, Resting)
      /\ entered' = entered + Ordered /\ whole' = whole + 1
      /\ status' = "RECEIVED" /\ reception' = "RECEIVED" /\ UNCHANGED <<rec, back, overlapped>>
  BY DEF CommitConfirm, Leaves, historyVars
<1>2. running' \in [Runners -> InProgress] /\ ReceptionsInv' /\ SerialInv'
  BY <1>1, RestingType, ContinuesStep
<1>3. PurchaseTypes'
  BY <1>1, <1>2, PurchaseNumbers DEF PurchaseTypes, Stages
<1>4. ReceptionStatusTrue'
  BY <1>1 DEF ReceptionStatusTrue, PurchaseTypes
<1>5. StockAsRecorded'
  <2> SUFFICES ASSUME ~overlapped PROVE entered' = Accepted(rec) + Ordered * whole' - Ordered * back
    BY <1>1 DEF StockAsRecorded, Accepted, Confirmed
  <2>1. Accepted(rec) \in Int
    BY ReceivedSum DEF PurchaseTypes
  <2>2. Ordered * (whole + 1) = Ordered * whole + Ordered /\ Ordered * whole \in Int /\ Ordered * back \in Int
    BY PurchaseNumbers, Z3 DEF PurchaseTypes
  <2>3. entered = Accepted(rec) + Ordered * whole - Ordered * back
    BY DEF StockAsRecorded
  <2> QED BY <1>1, <2>1, <2>2, <2>3, PurchaseNumbers DEF PurchaseTypes
<1> QED BY <1>2, <1>3, <1>4, <1>5

\* A cancellation takes the whole purchase back, or nothing.
LEMMA CancelStep ==
  ASSUME PurchaseInv, NEW r \in Runners, CommitCancel(r)
  PROVE  PurchaseInv'
<1> USE DEF PurchaseInv
<1>1. /\ running[r].op = "cancel" /\ Becomes(r, Resting) /\ status' = "CANCELLED"
      /\ \/ entered' = entered - Ordered /\ back' = back + 1
         \/ UNCHANGED <<entered, back>>
      /\ UNCHANGED <<reception, rec, whole, overlapped>>
  BY DEF CommitCancel, Leaves, historyVars
<1>2. running' \in [Runners -> InProgress] /\ ReceptionsInv' /\ SerialInv'
  BY <1>1, RestingType, ContinuesStep
<1>3. PurchaseTypes'
  BY <1>1, <1>2, PurchaseNumbers DEF PurchaseTypes, Stages
<1>4. ReceptionStatusTrue'
  BY <1>1 DEF ReceptionStatusTrue, Received, Confirmed
<1>5. StockAsRecorded'
  <2> SUFFICES ASSUME ~overlapped PROVE entered' = Accepted(rec) + Ordered * whole - Ordered * back'
    BY <1>1 DEF StockAsRecorded, Accepted, Confirmed
  <2>1. Accepted(rec) \in Int
    BY ReceivedSum DEF PurchaseTypes
  <2>2. Ordered * (back + 1) = Ordered * back + Ordered /\ Ordered * whole \in Int /\ Ordered * back \in Int
    BY PurchaseNumbers, Z3 DEF PurchaseTypes
  <2>3. entered = Accepted(rec) + Ordered * whole - Ordered * back
    BY DEF StockAsRecorded
  <2> QED BY <1>1, <2>1, <2>2, <2>3, PurchaseNumbers DEF PurchaseTypes
<1> QED BY <1>2, <1>3, <1>4, <1>5

\* The totals of a reception of which nothing is accepted are read.
LEMMA TotalsStep ==
  ASSUME PurchaseInv, NEW r \in Runners, ReadTotals(r)
  PROVE  PurchaseInv'
<1> USE DEF PurchaseInv
<1> DEFINE x == running[r].what
           new == [op |-> "totals", seen |-> NewStatus(WithConfirmed(x)), what |-> x]
<1>1. /\ running[r].op = "receive" /\ rec[x].accepted = 0
      /\ running' = [running EXCEPT ![r] = new]
      /\ UNCHANGED <<orderVars, stockVars, overlapped>>
  BY DEF ReadTotals, Becomes, historyVars
<1>2. Written(x)
  BY <1>1 DEF ReceptionsInv, Receives
<1>3. running' \in [Runners -> InProgress]
  <2>1. new \in InProgress
    BY <1>2 DEF Written, InProgress, Operations, NewStatus, Stages
  <2> QED BY <1>1, <2>1 DEF PurchaseTypes
<1>4. running[r] # Resting /\ running'[r] = new /\ \A o \in Runners : o # r => running'[o] = running[o]
  BY <1>1, RestingType DEF PurchaseTypes
<1>5. PurchaseTypes'
  BY <1>1, <1>3 DEF PurchaseTypes, orderVars, stockVars
<1>6. ReceptionsInv'
  <2>1. \A o \in Runners : Receives(o)' => Written(running[o].what) /\ running'[o].what = running[o].what
    BY <1>1, <1>2, <1>4 DEF ReceptionsInv, Receives
  <2>2. \A o \in Runners : running'[o].op = "totals" =>
          rec[running'[o].what].accepted = 0 /\ running'[o].seen \in {"RECEIVED", "PARTIAL"}
    BY <1>1, <1>4 DEF ReceptionsInv, NewStatus
  <2> QED BY <1>1, <2>1, <2>2 DEF ReceptionsInv, Written, stockVars
<1>7. SerialInv'
  <2> SUFFICES ASSUME ~overlapped PROVE SerialInv'
    BY <1>1 DEF SerialInv
  <2>1. \A o \in Runners : o # r => running'[o] = Resting /\ Resting.op = "none"
    BY <1>4, RestingType DEF SerialInv
  <2>2. rec[x].status = "DRAFT"
    BY <1>1 DEF SerialInv, Receives
  <2>3. rec' = rec /\ WithConfirmed(x)' = WithConfirmed(x)
    BY <1>1, <1>4 DEF WithConfirmed, stockVars
  <2>4. running'[r].seen = NewStatus(WithConfirmed(x)) /\ running'[r].what = x /\ x = running[r].what
    BY <1>4
  <2>5. \A o, p \in Runners : o # p => running'[o] = Resting \/ running'[p] = Resting
    BY <2>1
  <2>6. \A o \in Runners : Receives(o)' => o = r
    BY <2>1 DEF Receives
  <2>7. \A o \in Runners : running'[o].op = "totals" => o = r
    BY <2>1
  <2>8. \A o \in Runners : Receives(o)' => rec'[running'[o].what].status = "DRAFT"
    BY <2>2, <2>3, <2>4, <2>6
  <2>9. NewStatus(WithConfirmed(running[r].what))' = NewStatus(WithConfirmed(running[r].what))
    BY <2>3, <2>4 DEF NewStatus, Full, Received, Confirmed, WithConfirmed
  <2> QED BY <2>4, <2>5, <2>7, <2>8, <2>9 DEF SerialInv
<1>8. ReceptionStatusTrue' /\ StockAsRecorded'
  BY <1>1, KeepsStock DEF orderVars
<1> QED BY <1>5, <1>6, <1>7, <1>8

\* A reception is confirmed, with the status its totals give the purchase.
LEMMA ReceptionStep ==
  ASSUME PurchaseInv, NEW r \in Runners, CommitReceive(r) \/ CommitTotals(r)
  PROVE  PurchaseInv'
<1> USE DEF PurchaseInv
<1> DEFINE x == running[r].what
           new == WithConfirmed(x)
           AllAccept == \A y \in Receptions : rec[y].received > 0 => rec[y].accepted > 0
<1>1. Receives(r) /\ x \in Receptions /\ rec[x].status # "NONE" /\ rec[x].received > 0
  BY DEF CommitReceive, CommitTotals, ReceptionsInv, Receives, Written
<1>2. PICK st : ConfirmReception(r, x, st) /\ (~overlapped \/ AllAccept => st = NewStatus(new)) /\ st \in Stages
  <2>1. CASE CommitReceive(r)
    BY <2>1 DEF CommitReceive, NewStatus, Stages
  <2>2. CASE CommitTotals(r)
    <3>1. ConfirmReception(r, x, running[r].seen) /\ running[r].op = "totals"
      BY <2>2 DEF CommitTotals
    <3>2. ~AllAccept
      BY <1>1, <3>1 DEF ReceptionsInv, PurchaseTypes, Row
    <3>3. ~overlapped => running[r].seen = NewStatus(new)
      BY <3>1 DEF SerialInv
    <3>4. running[r].seen \in Stages
      BY <3>1 DEF ReceptionsInv, Stages
    <3> QED BY <3>1, <3>2, <3>3, <3>4
  <2> QED BY <2>1, <2>2
<1>3. /\ running' = [running EXCEPT ![r] = Resting]
      /\ rec' = new /\ entered' = entered + rec[x].accepted /\ status' = st
      /\ reception' = IF st = "RECEIVED" THEN "RECEIVED" ELSE "PARTIALLY_RECEIVED"
      /\ UNCHANGED <<whole, back, overlapped>>
  BY <1>2 DEF ConfirmReception, Leaves, Becomes, Enters, historyVars
<1>4. /\ new \in [Receptions -> Row]
      /\ \A y \in Receptions : /\ new[y].accepted = rec[y].accepted /\ new[y].received = rec[y].received
                               /\ y # x => new[y] = rec[y]
      /\ new[x].status = "CONFIRMED"
  BY <1>1 DEF WithConfirmed, PurchaseTypes, Row
<1>5. /\ \A o \in Runners : o # r => running'[o] = running[o]
      /\ running'[r] = Resting /\ Resting.op = "none" /\ running[r] # Resting
      /\ running' \in [Runners -> InProgress]
  BY <1>1, <1>3, RestingType DEF PurchaseTypes, Receives
<1>6. PurchaseTypes'
  BY <1>1, <1>2, <1>3, <1>4, <1>5, PurchaseNumbers DEF PurchaseTypes, Row
<1>7. ReceptionsInv'
  <2>1. \A y \in Receptions : rec'[y].status # "NONE" => rec'[y].received > 0
    BY <1>1, <1>3, <1>4 DEF ReceptionsInv
  <2>2. \A y \in Receptions : rec'[y].status = "NONE" => rec'[y] = NoReception
    BY <1>3, <1>4 DEF ReceptionsInv
  <2>0. /\ rec' = new
        /\ \A y \in Receptions : new[y].accepted = rec[y].accepted
        /\ \A y \in Receptions : rec[y].status # "NONE" => new[y].status # "NONE"
    BY <1>1, <1>3, <1>4
  <2>3. \A o \in Runners : Receives(o)' => Written(running[o].what)'
    <3> HIDE DEF x, new
    <3>1. \A o \in Runners : Receives(o)' => running'[o] = running[o]
      BY <1>5 DEF Receives
    <3>2. \A o \in Runners : Receives(o) => Written(running[o].what)
      BY DEF ReceptionsInv
    <3>3. \A y : Written(y) => Written(y)'
      BY <2>0 DEF Written
    <3>4. \A o \in Runners : Receives(o)' => Receives(o)
      BY <3>1 DEF Receives
    <3> QED BY <3>1, <3>2, <3>3, <3>4 DEF Written
  <2>4. \A o \in Runners : running'[o].op = "totals" =>
          rec'[running'[o].what].accepted = 0 /\ running'[o].seen \in {"RECEIVED", "PARTIAL"}
    <3> HIDE DEF x, new
    <3>1. \A o \in Runners : running'[o].op = "totals" => running'[o] = running[o]
      BY <1>5
    <3>2. \A o \in Runners : running[o].op = "totals" =>
            /\ running[o].what \in Receptions
            /\ rec[running[o].what].accepted = 0 /\ running[o].seen \in {"RECEIVED", "PARTIAL"}
      BY DEF ReceptionsInv, Receives, Written
    <3> QED BY <2>0, <3>1, <3>2
  <2> QED BY <2>1, <2>2, <2>3, <2>4 DEF ReceptionsInv, Receives, Written
<1>8. SerialInv'
  <2> SUFFICES ASSUME ~overlapped PROVE SerialInv'
    BY <1>3 DEF SerialInv
  <2>1. \A o \in Runners : running'[o] = Resting
    BY <1>5 DEF SerialInv
  <2> QED BY <1>5, <2>1 DEF SerialInv, Receives
<1>9. ReceptionStatusTrue'
  <2> SUFFICES ASSUME ~overlapped \/ AllAccept
               PROVE  /\ Received(new) >= Ordered => reception' = "RECEIVED"
                      /\ reception' = "RECEIVED" => Received(new) >= Ordered
    BY <1>3, <1>4 DEF ReceptionStatusTrue, Received, Confirmed
  <2> QED BY <1>2, <1>3 DEF NewStatus, Full
<1>10. StockAsRecorded'
  <2> SUFFICES ASSUME ~overlapped
               PROVE  entered' = Accepted(new) + Ordered * whole - Ordered * back
    BY <1>3 DEF StockAsRecorded, Accepted, Confirmed
  <2>1. rec[x].status = "DRAFT"
    BY <1>1 DEF SerialInv
  <2>2. Accepted(new) = Accepted(rec) + rec[x].accepted
    BY <1>1, <2>1, ConfirmAdds
  <2>3. Accepted(rec) \in Int /\ rec[x].accepted \in Int
    BY <1>1, ReceivedSum, PurchaseNumbers DEF PurchaseTypes, Row
  <2>4. Ordered * whole \in Int /\ Ordered * back \in Int
    BY PurchaseNumbers, Z3 DEF PurchaseTypes
  <2>5. entered = Accepted(rec) + Ordered * whole - Ordered * back
    BY DEF StockAsRecorded
  <2> HIDE DEF x, new
  <2> QED BY <1>3, <2>2, <2>3, <2>4, <2>5 DEF PurchaseTypes
<1> QED BY <1>6, <1>7, <1>8, <1>9, <1>10

\* A reception is written down: the totals of the confirmed ones are the same.
LEMMA CreateStep ==
  ASSUME PurchaseInv, NEW x \in Receptions, NEW c \in Counts, CreateReception(x, c)
  PROVE  PurchaseInv'
<1> USE DEF PurchaseInv
<1> DEFINE row == [status |-> "DRAFT", received |-> c[1], accepted |-> c[2]]
<1>1. /\ rec[x] = NoReception /\ rec' = [rec EXCEPT ![x] = row]
      /\ UNCHANGED <<status, reception, entered, whole, back, running, overlapped>>
  BY DEF CreateReception, orderVars, historyVars
<1>2. row \in Row /\ row.received > 0 /\ row.status = "DRAFT" /\ NoReception.status = "NONE"
  BY PurchaseNumbers DEF Row, NoReception
<1>3. rec' \in [Receptions -> Row] /\ rec'[x] = row /\ \A y \in Receptions : y # x => rec'[y] = rec[y]
  BY <1>1, <1>2 DEF PurchaseTypes
<1>4. \A r \in Runners : Receives(r) => running[r].what \in Receptions \ {x}
  BY <1>1, <1>2 DEF ReceptionsInv, Written
<1>5. PurchaseTypes'
  BY <1>1, <1>3 DEF PurchaseTypes
<1>6. ReceptionsInv'
  <2>1. \A y \in Receptions : /\ rec'[y].status # "NONE" => rec'[y].received > 0
                              /\ rec'[y].status = "NONE" => rec'[y] = NoReception
    BY <1>2, <1>3 DEF ReceptionsInv
  <2>2. \A o \in Runners : Receives(o)' => Written(running[o].what)'
    BY <1>1, <1>3, <1>4 DEF ReceptionsInv, Receives, Written
  <2>3. \A o \in Runners : running[o].op = "totals" =>
          rec'[running[o].what].accepted = 0 /\ running[o].seen \in {"RECEIVED", "PARTIAL"}
    BY <1>3, <1>4 DEF ReceptionsInv, Receives
  <2> QED BY <1>1, <2>1, <2>2, <2>3 DEF ReceptionsInv, Receives
<1>7. Received(rec') = Received(rec) /\ Accepted(rec') = Accepted(rec)
  <2>1. Confirmed(rec') = Confirmed(rec) /\ x \notin Confirmed(rec)
    BY <1>1, <1>2, <1>3 DEF Confirmed
  <2>2. \A y \in Confirmed(rec) : rec'[y] = rec[y]
    BY <1>3, <2>1 DEF Confirmed
  <2> QED BY <1>3, <2>1, <2>2, SameConfirmed DEF PurchaseTypes
<1>8. SerialInv'
  <2> SUFFICES ASSUME ~overlapped PROVE SerialInv'
    BY <1>1 DEF SerialInv
  <2>1. ASSUME NEW o \in Runners, running[o].op = "totals"
        PROVE  running[o].seen = NewStatus(WithConfirmed(running[o].what)')
    <3> DEFINE z == running[o].what
               old == WithConfirmed(z)
               new == [rec' EXCEPT ![z].status = "CONFIRMED"]
    <3>1. z \in Receptions /\ z # x
      BY <1>4, <2>1 DEF Receives
    <3>2. old \in [Receptions -> Row] /\ new \in [Receptions -> Row]
      BY <1>3, <3>1 DEF PurchaseTypes, WithConfirmed, Row
    <3>3. \A y \in Receptions : y # x => old[y] = new[y]
      BY <1>3, <3>1 DEF PurchaseTypes, WithConfirmed, Row
    <3>4. old[x].status = "NONE" /\ new[x].status = "DRAFT"
      BY <1>1, <1>2, <1>3, <3>1 DEF PurchaseTypes, WithConfirmed, Row
    <3>5. Confirmed(new) = Confirmed(old) /\ x \notin Confirmed(old)
      BY <3>3, <3>4 DEF Confirmed
    <3>6. \A y \in Confirmed(old) : new[y] = old[y]
      BY <3>3, <3>5 DEF Confirmed
    <3>7. Received(new) = Received(old)
      BY <3>2, <3>5, <3>6, SameConfirmed
    <3>8. running[o].seen = NewStatus(old)
      BY <2>1 DEF SerialInv
    <3>9. WithConfirmed(z)' = new
      BY <1>1 DEF WithConfirmed
    <3> QED BY <3>7, <3>8, <3>9 DEF NewStatus, Full
  <2>2. \A o, p \in Runners : o # p => running[o] = Resting \/ running[p] = Resting
    BY DEF SerialInv
  <2>3. \A o \in Runners : Receives(o) => rec'[running[o].what].status = "DRAFT"
    BY <1>3, <1>4 DEF SerialInv
  <2> QED BY <1>1, <2>1, <2>2, <2>3 DEF SerialInv, Receives, NewStatus, Full, Received, Confirmed, WithConfirmed
<1>9. StockAsRecorded'
  BY <1>1, <1>7 DEF StockAsRecorded, Accepted, Confirmed
<1>10. ReceptionStatusTrue'
  <2> DEFINE AllAccept == \A y \in Receptions : rec[y].received > 0 => rec[y].accepted > 0
  <2> SUFFICES ASSUME ~overlapped \/ AllAccept'
               PROVE  /\ Received(rec)' >= Ordered => reception = "RECEIVED"
                      /\ reception = "RECEIVED" => Received(rec)' >= Ordered \/ whole > 0
    BY <1>1 DEF ReceptionStatusTrue
  <2>1. ~overlapped \/ AllAccept
    BY <1>1, <1>3 DEF NoReception
  <2>2. Received(rec)' = Received(rec)
    BY <1>7 DEF Received, Confirmed
  <2> QED BY <2>1, <2>2 DEF ReceptionStatusTrue
<1> QED BY <1>5, <1>6, <1>8, <1>9, <1>10

-----------------------------------------------------------------------------
\* Every step keeps the invariant.
LEMMA StepPurchase == PurchaseInv /\ [PurchaseNext]_purchaseVars => PurchaseInv'
<1> SUFFICES ASSUME PurchaseInv, [PurchaseNext]_purchaseVars PROVE PurchaseInv'
  OBVIOUS
<1>1. ASSUME NEW r \in Handlers, Starts(r) PROVE PurchaseInv'
  <2>1. PICK op \in Operations \ {"totals"}, what \in Receptions \cup Decisions \cup {None} :
          Reads(r, op, what) /\ (op = "receive" => what \in Receptions /\ rec[what].status = "DRAFT")
    BY <1>1 DEF Starts, Send, Process, Expect, Confirm, Cancel, Receive, Receivable, Review, Operations
  <2> QED BY <2>1, ReadsStep DEF Runners
<1>2. ASSUME Fire PROVE PurchaseInv'
  <2>1. CASE Reads(Timer, "expected", None)
    BY <2>1, ReadsStep DEF Runners, Operations
  <2>2. CASE ~Expectable
    BY <1>2, <2>2, OfficeStep DEF Fire, orderVars, historyVars
  <2> QED BY <1>2, <2>1, <2>2 DEF Fire
<1>3. ASSUME NEW r \in Runners, Continues(r) \/ Breaks(r) PROVE PurchaseInv'
  BY <1>3, PaperStep, ConfirmStep, CancelStep, TotalsStep, ReceptionStep DEF Continues
<1>4. ASSUME NEW x \in Receptions, NEW c \in Counts, CreateReception(x, c) PROVE PurchaseInv'
  BY <1>4, CreateStep
<1>5. ASSUME RequestProcessing \/ RejectProcessing \/ Post \/ AddExtraTime \/ Reboot PROVE PurchaseInv'
  BY <1>5, OfficeStep
     DEF RequestProcessing, RejectProcessing, Post, AddExtraTime, Reboot, orderVars, historyVars, stockVars
<1>6. ASSUME UNCHANGED purchaseVars PROVE PurchaseInv'
  BY <1>6, OfficeStep DEF purchaseVars, orderVars
<1> QED BY <1>1, <1>2, <1>3, <1>4, <1>5, <1>6 DEF PurchaseNext

\* The invariant of a purchase and of what runs on it.
LEMMA PurchaseInvariant == PurchaseSpec => []PurchaseInv
BY InitPurchase, StepPurchase, PTL DEF PurchaseSpec

(* For any number of requests, receptions, restarts and quantities: the    *)
(* reception status tells what the receptions add up to, where no requests *)
(* overlap or something is accepted of every reception.                    *)
THEOREM ReceptionStatusTruthful == PurchaseSpec => []ReceptionStatusTrue
<1>1. PurchaseInv => ReceptionStatusTrue
  BY DEF PurchaseInv
<1> QED BY <1>1, PurchaseInvariant, PTL

(* For any number of requests, receptions, restarts and quantities: while  *)
(* no requests overlap, the purchase brought in what was accepted and      *)
(* confirmed of it, less what was taken back.                              *)
THEOREM StockOfPurchases == PurchaseSpec => []StockAsRecorded
<1>1. PurchaseInv => StockAsRecorded
  BY DEF PurchaseInv
<1> QED BY <1>1, PurchaseInvariant, PTL
=================================================================================
