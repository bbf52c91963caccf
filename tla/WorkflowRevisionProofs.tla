------------------------- MODULE WorkflowRevisionProofs -------------------------
(***************************************************************************)
(* One revision in force, one draft, drafts only in tests, and whole       *)
(* publications, for any number of requests, orders and revisions, until   *)
(* an edit is saved over a row that changed since it was read.             *)
(***************************************************************************)
EXTENDS WorkflowRevision, TLAPS

\* A revision that was published.
Live(w) == w \in Revs /\ rev[w].status \in {"PUBLISHED", "ARCHIVED"}

\* Of the rows of the family.
CurrentInv ==
  \E w \in Revs : /\ Is(w, "PUBLISHED") /\ rev[w].current
                  /\ \A m \in Revs \ {w} : ~Is(m, "PUBLISHED") /\ ~rev[m].current
DraftInv == \A m, n \in Revs : Is(m, "DRAFT") /\ Is(n, "DRAFT") => m = n
Dense == \A m, n \in Revs : m < n /\ Is(m, "ABSENT") => Is(n, "ABSENT")

\* Of a request about to insert a draft: the numbers before its own are taken,
\* and while its own is free nobody else has made a draft.
Numbered(x) ==
  x.op = "insert" =>
    /\ x.n \in Revs
    /\ \A m \in Revs : m < x.n => ~Is(m, "ABSENT")
    /\ Is(x.n, "ABSENT") => ~HasDraft

Publishing == {"tests", "revert", "migrate"}

\* Of a request that works on a revision: it exists.
Known(x) == x.op \in Publishing \cup {"test"} => x.w \in Revs /\ ~Is(x.w, "ABSENT")

\* Where an order may be put back: on a revision that was published, or on a draft
\* if it is one of the orders D, which were put on a draft by its id.
Kept(D, o, w) == Live(w) \/ (o \in D /\ w \in Revs /\ ~Is(w, "ABSENT"))

\* Of the rows that a publication has written: none is on a draft but its own.
Written(x) ==
  /\ x.undone \subseteq DOMAIN x.mine
  /\ \A o \in DOMAIN x.mine :
       x.op \in Publishing /\ (x.mine[o].wf = x.w \/ Kept(direct, o, x.mine[o].wf))

Good(x) == Numbered(x) /\ Known(x) /\ Written(x)
RequestsInv == \A r \in Requests : Good(req[r])

\* Of an order: where it is, and where its test will put it back.
Placed(o) ==
  /\ Exists(o) => ~Is(order[o].wf, "ABSENT")
  /\ Exists(o) /\ Is(order[o].wf, "DRAFT") => o \in direct \/ test[o].draft = order[o].wf
  /\ test[o] # NoTest => test[o].draft \in Revs /\ Kept(direct, o, test[o].row.wf)
OrdersInv == \A o \in Orders : Placed(o)

Sound == CurrentInv /\ DraftInv /\ Dense /\ RequestsInv /\ OrdersInv

IInv == TypeOK /\ (stale \/ Sound)

TestRows == [draft : 0 .. MaxRevision, row : OrderRows]

-----------------------------------------------------------------------------
(* Types. *)

(* The rows that a transaction has written, with one more. *)
LEMMA MineWrite ==
  ASSUME NEW f \in Mines, NEW o \in Orders, NEW row \in OrderRows
  PROVE  [k \in DOMAIN f \cup {o} |-> IF k = o THEN row ELSE f[k]] \in Mines
<1>1. PICK S \in SUBSET Orders : f \in [S -> OrderRows]
  BY DEF Mines
<1>2. DOMAIN f = S
  BY <1>1
<1>3. [k \in S \cup {o} |-> IF k = o THEN row ELSE f[k]] \in [S \cup {o} -> OrderRows]
  BY <1>1
<1>4. QED
  BY <1>2, <1>3 DEF Mines

(* What a row of Mines holds. *)
LEMMA MineRead ==
  ASSUME NEW f \in Mines
  PROVE  DOMAIN f \subseteq Orders /\ \A o \in DOMAIN f : f[o] \in OrderRows
  BY DEF Mines

(* Constant rows. *)
LEMMA Constants ==
  /\ Absent \in Rows /\ Idle \in ReqRows /\ DOMAIN Idle.mine = {}
  /\ 1 \in Revs
  /\ \A w \in 0 .. MaxRevision : Fresh(w) \in OrderRows
  /\ NoTest \in TestRows
  /\ \A w \in 0 .. MaxRevision, f \in BOOLEAN : At(w, f) \in OrderRows
<1>1. [o \in {} |-> Fresh(0)] \in [{} -> OrderRows]
  OBVIOUS
<1>2. [o \in {} |-> Fresh(0)] \in Mines
  BY <1>1 DEF Mines
<1>3. DOMAIN Idle.mine = {}
  BY DEF Idle
<1>4. QED
  BY <1>2, <1>3, RevisionAssumption DEF Absent, Rows, Statuses, Idle, ReqRows, Revs, Fresh, OrderRows, NoTest, TestRows, At

(* A step of one request leaves the others as they are. *)
LEMMA GoesType ==
  ASSUME TypeOK, NEW r \in Requests, NEW new \in ReqRows, Goes(r, new)
  PROVE  /\ req' \in [Requests -> ReqRows]
         /\ req'[r] = new
         /\ \A q \in Requests : q # r => req'[q] = req[q]
  BY DEF TypeOK, Goes

(* An idle request is good. *)
LEMMA IdleGood == Idle \in ReqRows /\ Good(Idle) /\ Good(Idle)'
<1>1. Idle \in ReqRows /\ DOMAIN Idle.mine = {} /\ Idle.op = "idle" /\ Idle.undone = {}
  BY Constants DEF Idle
<1>2. Good(Idle)
  BY <1>1 DEF Good, Numbered, Known, Written, Publishing
<1>3. Good(Idle)'
  BY <1>1 DEF Good, Numbered, Known, Written, Publishing
<1>4. QED
  BY <1>1, <1>2, <1>3

-----------------------------------------------------------------------------
(* Steps that only the request itself shows. *)

(* What a step that writes no row leaves as it is. *)
LEMMA MarksStay ==
  ASSUME IInv, UNCHANGED marks
  PROVE  UNCHANGED <<stale, direct>> /\ touched' \subseteq Orders
  BY DEF marks, IInv, TypeOK

(* Rows as they were, and a request that is good. *)
LEMMA ReadStep ==
  ASSUME IInv, NEW r \in Requests, NEW new \in ReqRows, Goes(r, new),
         UNCHANGED <<rev, order, test, stale, direct>>, touched' \subseteq Orders,
         Sound => Good(new)
  PROVE  IInv'
<1>1. TypeOK'
  BY GoesType DEF IInv, TypeOK
<1>2. SUFFICES ASSUME ~stale PROVE Sound'
  BY <1>1 DEF IInv
<1>3. Sound /\ Good(new)
  BY <1>2 DEF IInv
<1>4. CurrentInv' /\ DraftInv' /\ Dense'
  BY <1>3 DEF Sound, CurrentInv, DraftInv, Dense, Is
<1>5. OrdersInv'
  BY <1>3 DEF Sound, OrdersInv, Placed, Exists, Kept, Is, Live
<1>6. ASSUME NEW q \in Requests PROVE Good(req[q])'
  <2>1. req'[q] = new \/ req'[q] = req[q]
    BY GoesType DEF IInv
  <2>2. Good(req[q])
    BY <1>3 DEF Sound, RequestsInv
  <2>3. QED
    BY <1>3, <2>1, <2>2 DEF Good, Numbered, Known, Written, Kept, Live, Is, HasDraft
<1>7. QED
  BY <1>4, <1>5, <1>6 DEF Sound, RequestsInv

(* A request that begins: nothing is written, and its revision exists. *)
LEMMA Begun ==
  ASSUME NEW op \in {"family", "save", "test", "tests"}, NEW w \in Revs, NEW row \in Rows,
         ~Is(w, "ABSENT"),
         NEW new, new = [Idle EXCEPT !.op = op, !.w = w, !.row = row]
  PROVE  new \in ReqRows /\ Good(new)
<1>1. Idle \in ReqRows /\ DOMAIN Idle.mine = {} /\ Idle.undone = {}
  BY Constants DEF Idle
<1>2. w \in 0 .. MaxRevision
  BY RevisionAssumption DEF Revs
<1>3. new \in ReqRows /\ new.op = op /\ new.w = w /\ new.mine = Idle.mine /\ new.undone = Idle.undone
  BY <1>1, <1>2 DEF ReqRows
<1>4. QED
  BY <1>1, <1>3 DEF Good, Numbered, Known, Written, Publishing

(* The readings that begin an operation. *)
LEMMA BeginStep ==
  ASSUME IInv, NEW r \in Requests, NEW w \in Revs,
         OpenSource(r, w) \/ ReadEdit(r, w) \/ OpenTest(r, w) \/ ReadDraft(r, w)
  PROVE  IInv'
<1>1. PICK op \in {"family", "save", "test", "tests"} : Reads(r, op, w) /\ ~Is(w, "ABSENT")
  BY DEF OpenSource, ReadEdit, Editable, OpenTest, ReadDraft, Is
<1> DEFINE new == [Idle EXCEPT !.op = op, !.w = w, !.row = rev[w]]
<1>2. rev[w] \in Rows
  BY DEF IInv, TypeOK
<1>3. new \in ReqRows /\ Good(new)
  BY <1>1, <1>2, Begun
<1>4. Goes(r, new) /\ UNCHANGED <<rev, order, test, marks>>
  BY <1>1 DEF Reads
<1> HIDE DEF new
<1>5. QED
  BY <1>3, <1>4, MarksStay, ReadStep

(* The family is read: the number after the greatest. *)
LEMMA NumberStep ==
  ASSUME IInv, NEW r \in Requests, NEW n \in Revs, ReadFamily(r, n)
  PROVE  IInv'
<1> DEFINE x == req[r]
           new == [x EXCEPT !.op = "insert", !.n = n]
<1>1. x \in ReqRows /\ x.op = "family"
  BY DEF IInv, TypeOK, ReadFamily
<1>2. /\ new \in ReqRows /\ new.op = "insert" /\ new.n = n
      /\ new.undone = x.undone /\ new.mine = x.mine
  <2>1. n \in 0 .. MaxRevision
    BY RevisionAssumption DEF Revs
  <2>2. QED
    BY <1>1, <2>1 DEF ReqRows
<1> HIDE DEF new
<1>3. ASSUME Sound PROVE Good(new)
  <2>1. DOMAIN x.mine = {} /\ x.undone \subseteq DOMAIN x.mine
    BY <1>1, <1>3 DEF Sound, RequestsInv, Good, Written, Publishing
  <2>2. \A m \in Revs : m < n => ~Is(m, "ABSENT")
    <3>1. ~Is(n - 1, "ABSENT") /\ n - 1 \in Revs
      BY DEF ReadFamily, Following
    <3>2. \A m \in Revs : m < n - 1 /\ Is(m, "ABSENT") => Is(n - 1, "ABSENT")
      BY <1>3, <3>1 DEF Sound, Dense
    <3>3. \A m \in Revs : m < n => m < n - 1 \/ m = n - 1
      BY RevisionAssumption DEF Revs
    <3>4. QED
      BY <3>1, <3>2, <3>3
  <2>3. QED
    BY <1>2, <2>1, <2>2 DEF Good, Numbered, Known, Written, Publishing, ReadFamily, MayDraft
<1>4. QED
  BY <1>2, <1>3, MarksStay, ReadStep DEF ReadFamily, new

(* The steps of a publication before it commits. *)
LEMMA PublishingStep ==
  ASSUME IInv, NEW r \in Requests,
         \/ ListTests(r) \/ ListPending(r)
         \/ \E o \in Orders : RevertOne(r, o) \/ \E f \in BOOLEAN : Migrate(r, o, f)
  PROVE  IInv'
<1> DEFINE x == req[r]
<1>1. x \in ReqRows /\ x.mine \in Mines /\ DOMAIN x.mine \subseteq Orders /\ x.w \in 0 .. MaxRevision
  BY MineRead DEF IInv, TypeOK, ReqRows
<1>2. Sound => Good(x)
  BY DEF Sound, RequestsInv
<1>3. CASE ListTests(r)
  <2> DEFINE new == [x EXCEPT !.op = "revert", !.todo = TestsOf(x.w)]
  <2>1. /\ new \in ReqRows /\ new.op = "revert" /\ new.w = x.w
        /\ new.undone = x.undone /\ new.mine = x.mine
    BY <1>1 DEF ReqRows, TestsOf
  <2> HIDE DEF new
  <2>2. Sound => Good(new)
    BY <1>2, <1>3, <2>1 DEF Good, Numbered, Known, Written, Publishing, ListTests
  <2>3. QED
    <3>1. UNCHANGED <<rev, order, test, stale, direct>> /\ touched' \subseteq Orders
      BY <1>3 DEF ListTests, IInv, TypeOK
    <3>2. QED
      BY <1>3, <2>1, <2>2, <3>1, ReadStep DEF ListTests, new
<1>4. CASE ListPending(r)
  <2> DEFINE new == [x EXCEPT !.op = "migrate", !.todo = Listed(r)]
  <2>1. /\ new \in ReqRows /\ new.op = "migrate" /\ new.w = x.w
        /\ new.undone = x.undone /\ new.mine = x.mine
    BY <1>1 DEF ReqRows, Listed
  <2> HIDE DEF new
  <2>2. Sound => Good(new)
    BY <1>2, <1>4, <2>1 DEF Good, Numbered, Known, Written, Publishing, ListPending
  <2>3. QED
    BY <1>4, <2>1, <2>2, MarksStay, ReadStep DEF ListPending, new
<1>5. ASSUME NEW o \in Orders, NEW row \in OrderRows, NEW new \in ReqRows,
             x.op \in Publishing, new.op = x.op, new.w = x.w, new.mine = Writes(r, o, row),
             new.undone \subseteq x.undone \cup {o}, Sound => row.wf = x.w \/ Kept(direct, o, row.wf)
      PROVE  Sound => Good(new)
  <2>1. /\ DOMAIN new.mine = DOMAIN x.mine \cup {o} /\ new.mine[o] = row
        /\ \A k \in DOMAIN x.mine : k # o => new.mine[k] = x.mine[k]
    BY <1>5 DEF Writes
  <2>2. QED
    BY <1>2, <1>5, <2>1 DEF Good, Numbered, Known, Written, Publishing
<1>6. ASSUME NEW o \in Orders, RevertOne(r, o) PROVE IInv'
  <2> DEFINE row == Restored(o)
             new == [x EXCEPT !.todo = @ \ {o}, !.undone = @ \cup {o}, !.mine = Writes(r, o, row)]
  <2>1. x.op = "revert" /\ test[o].draft = x.w /\ row \in OrderRows
    BY <1>6 DEF RevertOne, IInv, TypeOK, Restored
  <2>2. ASSUME Sound PROVE Kept(direct, o, row.wf)
    <3>1. x.w \in Revs
      BY <1>2, <2>1, <2>2 DEF Good, Known, Publishing
    <3>2. test[o] # NoTest
      BY <2>1, <3>1 DEF NoTest, Revs
    <3>3. QED
      BY <2>2, <3>2 DEF Sound, OrdersInv, Placed, Restored
  <2> HIDE DEF row
  <2>3. Writes(r, o, row) \in Mines
    BY <1>1, <2>1, MineWrite DEF Writes
  <2>4. /\ new \in ReqRows /\ new.op = x.op /\ new.w = x.w
        /\ new.undone \subseteq x.undone \cup {o} /\ new.mine = Writes(r, o, row)
    BY <1>1, <2>3 DEF ReqRows
  <2> HIDE DEF new
  <2>5. Sound => Good(new)
    BY <1>5, <2>1, <2>2, <2>4 DEF Publishing
  <2>6. QED
    BY <1>6, <2>4, <2>5, MarksStay, ReadStep DEF RevertOne, new, row
<1>7. ASSUME NEW o \in Orders, NEW f \in BOOLEAN, Migrate(r, o, f) PROVE IInv'
  <2> DEFINE row == At(x.w, f)
             new == [x EXCEPT !.todo = @ \ {o}, !.mine = Writes(r, o, row)]
  <2>1. x.op = "migrate" /\ row \in OrderRows /\ row.wf = x.w
    BY <1>1, <1>7, Constants DEF Migrate, At
  <2> HIDE DEF row
  <2>2. Writes(r, o, row) \in Mines
    BY <1>1, <2>1, MineWrite DEF Writes
  <2>3. /\ new \in ReqRows /\ new.op = x.op /\ new.w = x.w
        /\ new.undone \subseteq x.undone \cup {o} /\ new.mine = Writes(r, o, row)
    BY <1>1, <2>2 DEF ReqRows
  <2> HIDE DEF new
  <2>4. Sound => Good(new)
    BY <1>5, <2>1, <2>3 DEF Publishing
  <2>5. QED
    BY <1>7, <2>3, <2>4, MarksStay, ReadStep DEF Migrate, new, row
<1>8. QED
  BY <1>3, <1>4, <1>6, <1>7

-----------------------------------------------------------------------------
(* Steps that write revisions. *)

(* A draft gets its number, if that is still free. *)
LEMMA InsertStep ==
  ASSUME IInv, NEW r \in Requests, InsertDraft(r)
  PROVE  IInv'
<1> DEFINE x == req[r]
           row == [status |-> "DRAFT", current |-> FALSE, base |-> x.w]
<1>0. PICK n \in 0 .. MaxRevision : n = x.n
  BY DEF IInv, TypeOK, ReqRows
<1>1. x \in ReqRows /\ x.op = "insert" /\ Is(n, "ABSENT") /\ rev \in [Revs -> Rows]
  BY <1>0 DEF IInv, TypeOK, InsertDraft
<1>2. row \in Rows /\ row.status = "DRAFT" /\ row.current = FALSE
  BY <1>1 DEF ReqRows, Rows, Statuses
<1>3. rev' = [rev EXCEPT ![n] = row] /\ Goes(r, Idle) /\ UNCHANGED <<order, test, stale, direct, touched>>
  BY <1>0 DEF InsertDraft, Ends, marks
<1> HIDE DEF row
<1>4. TypeOK'
  BY <1>1, <1>2, <1>3, GoesType, IdleGood DEF IInv, TypeOK
<1>5. SUFFICES ASSUME ~stale PROVE Sound'
  BY <1>3, <1>4 DEF IInv
<1>6. Sound /\ Good(x)
  BY <1>5 DEF IInv, Sound, RequestsInv
<1>7. n \in Revs /\ ~HasDraft /\ \A m \in Revs : m < n => ~Is(m, "ABSENT")
  BY <1>0, <1>1, <1>6 DEF Good, Numbered
<1>8. /\ Is(n, "DRAFT")' /\ ~rev'[n].current
      /\ \A m \in Revs : m # n => rev'[m] = rev[m]
  BY <1>1, <1>2, <1>3, <1>7 DEF Is
<1>9. CurrentInv'
  BY <1>1, <1>6, <1>7, <1>8 DEF Sound, CurrentInv, Is
<1>10. DraftInv'
  BY <1>7, <1>8 DEF DraftInv, HasDraft, Is
<1>11. Dense'
  BY <1>6, <1>7, <1>8 DEF Sound, Dense, Is
<1>12. \A m \in Revs : Live(m) <=> Live(m)'
  BY <1>1, <1>8 DEF Live, Is
<1>14. \A m \in Revs : Is(m, "ABSENT")' => m # n /\ Is(m, "ABSENT")
  BY <1>8 DEF Is
<1>13. \A o, m : Kept(direct, o, m) => Kept(direct, o, m)'
  BY <1>3, <1>12, <1>14 DEF Live, Kept
<1>15. OrdersInv'
  <2> SUFFICES ASSUME NEW o \in Orders PROVE Placed(o)'
    BY DEF OrdersInv
  <2>1. Placed(o) /\ order'[o] = order[o] /\ test'[o] = test[o] /\ order[o].wf \in 0 .. MaxRevision
    BY <1>3, <1>6 DEF Sound, OrdersInv, IInv, TypeOK, OrderRows
  <2>2. Exists(o) => order[o].wf \in Revs
    BY <2>1, RevisionAssumption DEF Exists, Revs
  <2>3. Exists(o) => order[o].wf # n
    BY <1>1, <2>1 DEF Placed
  <2>4. QED
    BY <1>3, <1>8, <1>13, <2>1, <2>2, <2>3 DEF Placed, Exists, Is
<1>16. ASSUME NEW q \in Requests PROVE Good(req[q])'
  <2>1. CASE q = r
    BY <1>3, <2>1, GoesType, IdleGood DEF IInv
  <2>2. CASE q # r
    <3>1. req'[q] = req[q] /\ Good(req[q])
      BY <1>3, <1>6, <2>2, GoesType, IdleGood DEF IInv, Sound, RequestsInv
    <3>2. Numbered(req[q])'
      <4>1. SUFFICES ASSUME req[q].op = "insert" PROVE Numbered(req[q])'
        BY <3>1 DEF Numbered
      <4>2. req[q].n \in Revs /\ \A m \in Revs : m < req[q].n => ~Is(m, "ABSENT")
        BY <3>1, <4>1 DEF Good, Numbered
      <4>3. ~Is(req[q].n, "ABSENT")'
        <5>1. SUFFICES ASSUME Is(req[q].n, "ABSENT"), req[q].n # n PROVE FALSE
          BY <1>14, <3>1, <4>2
        <5>2. req[q].n < n \/ n < req[q].n
          BY <1>7, <4>2, <5>1, RevisionAssumption DEF Revs
        <5>3. QED
          BY <1>1, <1>7, <4>2, <5>1, <5>2
      <4>4. QED
        BY <1>14, <3>1, <4>2, <4>3 DEF Numbered
    <3>3. Known(req[q])'
      BY <1>14, <3>1 DEF Good, Known
    <3>4. Written(req[q])'
      BY <1>13, <3>1 DEF Good, Written
    <3>5. QED
      BY <3>2, <3>3, <3>4 DEF Good
  <2>3. QED
    BY <2>1, <2>2
<1>17. QED
  BY <1>9, <1>10, <1>11, <1>15, <1>16 DEF Sound, RequestsInv

(* A request that ends without a trace. *)
LEMMA FailStep ==
  ASSUME IInv, NEW r \in Requests, Fail(r)
  PROVE  IInv'
  BY IdleGood, MarksStay, ReadStep DEF Fail, Ends

(* An edit is saved: nothing changes, or the row had changed. *)
LEMMA SaveStep ==
  ASSUME IInv, NEW r \in Requests, Save(r)
  PROVE  IInv'
<1>1. req[r].row \in Rows /\ rev \in [Revs -> Rows] /\ stale \in BOOLEAN
  BY DEF IInv, TypeOK, ReqRows
<1>2. TypeOK'
  BY <1>1, GoesType, IdleGood DEF Save, Ends, IInv, TypeOK
<1>3. CASE stale'
  BY <1>2, <1>3 DEF IInv
<1>4. CASE ~stale'
  <2>1. stale' = stale /\ rev' = rev /\ direct' = direct /\ touched' \subseteq Orders
    BY <1>1, <1>4 DEF Save, IInv, TypeOK
  <2>2. QED
    BY <2>1, IdleGood, ReadStep DEF Save, Ends
<1>5. QED
  BY <1>3, <1>4

-----------------------------------------------------------------------------
(* Steps that write orders. *)

(* One order is written, and at most its test and one request. *)
LEMMA OrderWritten ==
  ASSUME IInv, NEW o \in Orders, NEW row \in OrderRows, NEW t \in TestRows,
         order' = [order EXCEPT ![o] = row], test' = [test EXCEPT ![o] = t],
         req' = req \/ \E r \in Requests : Goes(r, Idle),
         UNCHANGED <<rev, stale>>, touched' \subseteq Orders,
         direct' = direct \/ direct' = direct \cup {o},
         Sound => /\ row.wf # 0 => ~Is(row.wf, "ABSENT")
                  /\ row.wf # 0 /\ Is(row.wf, "DRAFT") => o \in direct' \/ t.draft = row.wf
                  /\ t # NoTest => t.draft \in Revs /\ Kept(direct', o, t.row.wf)
  PROVE  IInv'
<1>1. order \in [Orders -> OrderRows] /\ test \in [Orders -> TestRows]
  BY DEF IInv, TypeOK, TestRows
<1>2. /\ req' \in [Requests -> ReqRows]
      /\ \A q \in Requests : req'[q] = req[q] \/ req'[q] = Idle
  <2>1. CASE req' = req
    BY <2>1 DEF IInv, TypeOK
  <2>2. CASE \E r \in Requests : Goes(r, Idle)
    <3>1. PICK r \in Requests : Goes(r, Idle)
      BY <2>2
    <3>2. QED
      BY <3>1, GoesType, IdleGood DEF IInv
  <2>3. QED
    BY <2>1, <2>2
<1>3. order' \in [Orders -> OrderRows] /\ test' \in [Orders -> TestRows]
  BY <1>1
<1>4. TypeOK'
  BY <1>2, <1>3 DEF IInv, TypeOK, TestRows
<1>5. SUFFICES ASSUME ~stale PROVE Sound'
  BY <1>4 DEF IInv
<1>6. Sound
  BY <1>5 DEF IInv
<1>7. CurrentInv' /\ DraftInv' /\ Dense'
  BY <1>6 DEF Sound, CurrentInv, DraftInv, Dense, Is
<1>11. \A k, m : Kept(direct, k, m) => Kept(direct, k, m)'
  BY DEF Kept, Live, Is
<1>8. RequestsInv'
  <2> SUFFICES ASSUME NEW q \in Requests PROVE Good(req[q])'
    BY DEF RequestsInv
  <2>1. CASE req'[q] = Idle
    BY <2>1, IdleGood
  <2>2. CASE req'[q] = req[q]
    <3>1. Good(req[q])
      BY <1>6 DEF Sound, RequestsInv
    <3>2. QED
      BY <1>11, <2>2, <3>1 DEF Good, Numbered, Known, Written, Is, HasDraft
  <2>3. QED
    BY <1>2, <2>1, <2>2
<1>9. OrdersInv'
  <2> SUFFICES ASSUME NEW k \in Orders PROVE Placed(k)'
    BY DEF OrdersInv
  <2>1. CASE k = o
    <3>1. order'[k] = row /\ test'[k] = t
      BY <1>1, <2>1
    <3>2. QED
      BY <1>6, <2>1, <3>1 DEF Placed, Exists, Is, Kept, Live
  <2>2. CASE k # o
    <3>1. order'[k] = order[k] /\ test'[k] = test[k] /\ Placed(k)
      BY <1>1, <1>6, <2>2 DEF Sound, OrdersInv
    <3>2. QED
      BY <1>11, <3>1 DEF Placed, Exists, Is
  <2>3. QED
    BY <2>1, <2>2
<1>10. QED
  BY <1>7, <1>8, <1>9 DEF Sound

(* A test that is left alone, as OrderWritten wants it. *)
LEMMA SameTest ==
  ASSUME IInv, NEW o \in Orders
  PROVE  /\ test[o] \in TestRows /\ test = [test EXCEPT ![o] = test[o]]
         /\ order[o] \in OrderRows
         /\ Sound => Placed(o)
         /\ Sound => (test[o] # NoTest => Kept(direct \cup {o}, o, test[o].row.wf))
  BY DEF Placed, Kept, IInv, TypeOK, TestRows, Sound, OrdersInv

(* The rows of r itself and of others are written: the marks stay orders. *)
LEMMA TouchesType ==
  ASSUME IInv, NEW r \in Requests, NEW S \in SUBSET Orders, NEW w, Touches(r, S, w)
  PROVE  touched' \subseteq Orders
  BY DEF Touches, IInv, TypeOK

(* An order is put on a revision by its id, moved on or repaired. *)
LEMMA PlacingStep ==
  ASSUME IInv, NEW r \in Requests, NEW o \in Orders,
         \/ \E w \in 0 .. MaxRevision : Assigns(r, o, w)
         \/ \E f \in BOOLEAN : Advance(r, o, f) \/ \E w \in Revs : Repair(r, o, w, f)
  PROVE  IInv'
<1>1. ASSUME NEW w \in 0 .. MaxRevision, Assigns(r, o, w) PROVE IInv'
  <2> DEFINE row == Fresh(w)
  <2>1. row \in OrderRows /\ row.wf = w
    BY Constants DEF Fresh
  <2>2. /\ order' = [order EXCEPT ![o] = row] /\ UNCHANGED <<rev, test, req, stale>>
        /\ touched' \subseteq Orders
        /\ direct' = IF w # 0 /\ Is(w, "DRAFT") THEN direct \cup {o} ELSE direct
        /\ w # 0 => ~Is(w, "ABSENT")
    BY <1>1, TouchesType DEF Assigns
  <2> HIDE DEF row
  <2>3. Sound => /\ row.wf # 0 => ~Is(row.wf, "ABSENT")
                 /\ row.wf # 0 /\ Is(row.wf, "DRAFT") => o \in direct'
                 /\ test[o] # NoTest => test[o].draft \in Revs /\ Kept(direct', o, test[o].row.wf)
    BY <2>1, <2>2, SameTest DEF Placed
  <2>4. QED
    BY <2>1, <2>2, <2>3, SameTest, OrderWritten
<1>2. ASSUME NEW f \in BOOLEAN, Advance(r, o, f) PROVE IInv'
  <2> DEFINE row == [order[o] EXCEPT !.final = f]
  <2>1. row \in OrderRows /\ row.wf = order[o].wf
    BY SameTest DEF OrderRows
  <2>2. /\ order' = [order EXCEPT ![o] = row] /\ UNCHANGED <<test, rev, req, stale, direct>>
        /\ touched' \subseteq Orders
    BY <1>2, TouchesType DEF Advance
  <2> HIDE DEF row
  <2>3. Sound => /\ row.wf # 0 => ~Is(row.wf, "ABSENT")
                 /\ row.wf # 0 /\ Is(row.wf, "DRAFT") => o \in direct' \/ test[o].draft = row.wf
                 /\ test[o] # NoTest => test[o].draft \in Revs /\ Kept(direct', o, test[o].row.wf)
    BY <2>1, <2>2, SameTest DEF Placed, Exists
  <2>4. QED
    BY <2>1, <2>2, <2>3, SameTest, OrderWritten
<1>3. ASSUME NEW f \in BOOLEAN, NEW w \in Revs, Repair(r, o, w, f) PROVE IInv'
  <2> DEFINE row == At(w, f)
  <2>1. w \in 0 .. MaxRevision
    BY RevisionAssumption DEF Revs
  <2>2. row \in OrderRows /\ row.wf = w
    BY <2>1, Constants DEF At
  <2>3. /\ order' = [order EXCEPT ![o] = row] /\ UNCHANGED <<test, rev, req, stale, direct>>
        /\ touched' \subseteq Orders /\ Is(w, "PUBLISHED")
    BY <1>3, TouchesType DEF Repair
  <2> HIDE DEF row
  <2>4. ~Is(w, "ABSENT") /\ ~Is(w, "DRAFT")
    BY <2>3 DEF Is
  <2>5. Sound => (test[o] # NoTest => test[o].draft \in Revs /\ Kept(direct', o, test[o].row.wf))
    BY <2>3, SameTest DEF Placed
  <2>6. QED
    BY <2>2, <2>3, <2>4, <2>5, SameTest, OrderWritten
<1>4. QED
  BY <1>1, <1>2, <1>3

(* A test begins: the order it takes was on a published revision, or on a draft by its id. *)
LEMMA StartTestStep ==
  ASSUME IInv, NEW r \in Requests, NEW o \in Orders, StartTest(r, o)
  PROVE  IInv'
<1> DEFINE x == req[r]
           row == Fresh(x.w)
           t == Session(o, x.w)
<1>1. /\ x \in ReqRows /\ (Sound => Good(x)) /\ x.op = "test"
      /\ order[o] \in OrderRows /\ Exists(o) /\ test[o] = NoTest
  BY SameTest DEF IInv, TypeOK, Sound, RequestsInv, StartTest
<1>2. row \in OrderRows /\ row.wf = x.w
  BY <1>1, Constants DEF ReqRows, Fresh
<1>3. t \in TestRows /\ t.draft = x.w /\ t.row = order[o]
  BY <1>1 DEF Session, TestRows, ReqRows
<1>4. ASSUME Sound
      PROVE  x.w \in Revs /\ ~Is(x.w, "ABSENT") /\ Kept(direct, o, order[o].wf)
  <2>1. x.w \in Revs /\ ~Is(x.w, "ABSENT")
    BY <1>1, <1>4 DEF Good, Known
  <2>2. order[o].wf \in Revs /\ order[o].wf # 0
    BY <1>1, RevisionAssumption DEF Exists, OrderRows, Revs
  <2>3. Placed(o) /\ test[o].draft = 0
    <3>1. Placed(o)
      BY <1>4, SameTest
    <3>2. QED
      BY <1>1, <3>1 DEF NoTest
  <2>4. ~Is(order[o].wf, "ABSENT") /\ (Is(order[o].wf, "DRAFT") => o \in direct)
    BY <1>1, <2>2, <2>3 DEF Placed
  <2>5. rev[order[o].wf].status \in Statuses
    BY <2>2 DEF IInv, TypeOK, Rows
  <2>6. QED
    BY <2>1, <2>2, <2>4, <2>5 DEF Kept, Live, Is, Statuses
<1>5. /\ order' = [order EXCEPT ![o] = row] /\ test' = [test EXCEPT ![o] = t]
      /\ Goes(r, Idle) /\ UNCHANGED <<rev, stale, direct>> /\ touched' \subseteq Orders
  BY TouchesType DEF StartTest, Ends
<1> HIDE DEF row, t
<1>6. QED
  BY <1>2, <1>3, <1>4, <1>5, OrderWritten

(* A test ends: the order goes back to where it was. *)
LEMMA RevertTestStep ==
  ASSUME IInv, NEW r \in Requests, NEW o \in Orders, RevertTest(r, o)
  PROVE  IInv'
<1> DEFINE row == Restored(o)
<1>1. row \in OrderRows
  BY SameTest DEF Restored, TestRows
<1>2. Sound => Kept(direct, o, row.wf)
  BY SameTest DEF Restored, RevertTest, Placed
<1>3. /\ order' = [order EXCEPT ![o] = row] /\ test' = [test EXCEPT ![o] = NoTest]
      /\ UNCHANGED <<rev, req, stale, direct>> /\ touched' \subseteq Orders
  BY TouchesType DEF RevertTest
<1> HIDE DEF row
<1>4. Sound => ~Is(row.wf, "ABSENT") /\ (Is(row.wf, "DRAFT") => o \in direct)
  BY <1>2 DEF Kept, Live, Is
<1>5. QED
  BY <1>1, <1>3, <1>4, Constants, OrderWritten

-----------------------------------------------------------------------------
(* The publication commits: revisions, orders and tests at once. *)
LEMMA PublishStepKeeps ==
  ASSUME IInv, NEW r \in Requests, Publish(r)
  PROVE  IInv'
<1>0. PICK w \in 0 .. MaxRevision : w = req[r].w
  BY DEF IInv, TypeOK, ReqRows
<1>1. PICK row \in Rows : row = req[r].row
  BY DEF IInv, TypeOK, ReqRows
<1>2. PICK undone \in SUBSET Orders : undone = req[r].undone
  BY DEF IInv, TypeOK, ReqRows
<1>3. PICK mine \in Mines : mine = req[r].mine
  BY DEF IInv, TypeOK, ReqRows
<1>4. /\ rev' = Published(w, row) /\ Goes(r, Idle) /\ req[r].op = "migrate"
      /\ order' = [o \in Orders |-> IF o \in DOMAIN mine THEN mine[o] ELSE order[o]]
      /\ test' = [o \in Orders |-> IF o \in undone THEN NoTest ELSE test[o]]
      /\ UNCHANGED <<stale, direct>> /\ touched' \subseteq Orders
  BY <1>0, <1>1, <1>2, <1>3, MineRead, TouchesType DEF Publish, Ends, Sees
<1>5. /\ \A m \in Revs \ {w} :
           rev'[m] = IF Is(m, "PUBLISHED") /\ rev[m].current
                       THEN [rev[m] EXCEPT !.status = "ARCHIVED", !.current = FALSE]
                       ELSE rev[m]
      /\ w \in Revs => rev'[w] = [row EXCEPT !.status = "PUBLISHED", !.current = TRUE]
      /\ rev' = [m \in Revs |-> rev'[m]]
  BY <1>4 DEF Published
<1>6. \A x \in Rows : /\ [x EXCEPT !.status = "PUBLISHED", !.current = TRUE] \in Rows
                      /\ [x EXCEPT !.status = "ARCHIVED", !.current = FALSE] \in Rows
  BY DEF Rows, Statuses
<1>7. TypeOK'
  <2>1. \A m \in Revs : rev[m] \in Rows
    BY DEF IInv, TypeOK
  <2>2. \A m \in Revs : rev'[m] \in Rows
    BY <1>5, <1>6, <2>1
  <2>3. rev' \in [Revs -> Rows]
    BY <1>5, <2>2
  <2>4. order' \in [Orders -> OrderRows]
    BY <1>3, <1>4, MineRead DEF IInv, TypeOK
  <2>5. test' \in [Orders -> TestRows]
    BY <1>4, Constants DEF IInv, TypeOK, TestRows
  <2>6. req' \in [Requests -> ReqRows]
    BY <1>4, GoesType, IdleGood DEF IInv
  <2>7. QED
    BY <1>4, <2>3, <2>4, <2>5, <2>6 DEF IInv, TypeOK, TestRows
<1>8. SUFFICES ASSUME ~stale PROVE Sound'
  BY <1>4, <1>7 DEF IInv
<1>9. Sound /\ Good(req[r])
  BY <1>8 DEF IInv, Sound, RequestsInv
<1>10. w \in Revs /\ ~Is(w, "ABSENT")
  BY <1>0, <1>4, <1>9 DEF Good, Known, Publishing
<1>11. /\ rev'[w].status = "PUBLISHED" /\ rev'[w].current
       /\ \A m \in Revs \ {w} :
            \/ rev'[m] = rev[m] /\ ~(Is(m, "PUBLISHED") /\ rev[m].current)
            \/ /\ Is(m, "PUBLISHED") /\ rev[m].current
               /\ rev'[m].status = "ARCHIVED" /\ ~rev'[m].current
  <2>1. rev'[w].status = "PUBLISHED" /\ rev'[w].current
    BY <1>5, <1>10 DEF Rows
  <2>2. \A x \in Rows : LET y == [x EXCEPT !.status = "ARCHIVED", !.current = FALSE]
                        IN  y.status = "ARCHIVED" /\ ~y.current
    BY DEF Rows
  <2>3. \A m \in Revs : rev[m] \in Rows
    BY DEF IInv, TypeOK
  <2>4. QED
    BY <1>5, <2>1, <2>2, <2>3
<1>12. CurrentInv'
  <2>1. \A m \in Revs \ {w} : ~Is(m, "PUBLISHED")' /\ ~rev'[m].current
    <3>1. PICK c \in Revs : \A m \in Revs \ {c} : ~Is(m, "PUBLISHED") /\ ~rev[m].current
      BY <1>9 DEF Sound, CurrentInv
    <3>2. Is(c, "PUBLISHED") /\ rev[c].current
      BY <1>9, <3>1 DEF Sound, CurrentInv
    <3>3. QED
      BY <1>11, <3>1, <3>2 DEF Is
  <2>2. QED
    BY <1>10, <1>11, <2>1 DEF CurrentInv, Is
<1>13. \A m \in Revs : /\ Is(m, "DRAFT")' => Is(m, "DRAFT")
                       /\ Is(m, "ABSENT")' <=> Is(m, "ABSENT")
                       /\ Live(m) => Live(m)'
  BY <1>10, <1>11 DEF Is, Live
<1>14. Live(w)'
  BY <1>10, <1>11 DEF Live
<1>15. DraftInv' /\ Dense' /\ (HasDraft' => HasDraft)
  BY <1>9, <1>13 DEF Sound, DraftInv, Dense, HasDraft
<1>16. \A o, m : Kept(direct, o, m) => Kept(direct, o, m)'
  BY <1>4, <1>13 DEF Kept, Live
<1>17. RequestsInv'
  <2> SUFFICES ASSUME NEW q \in Requests PROVE Good(req[q])'
    BY DEF RequestsInv
  <2>1. CASE q = r
    BY <1>4, <2>1, GoesType, IdleGood DEF IInv
  <2>2. CASE q # r
    <3>1. req'[q] = req[q] /\ Good(req[q])
      BY <1>4, <1>9, <2>2, GoesType, IdleGood DEF IInv, Sound, RequestsInv
    <3>2. Numbered(req[q])'
      BY <1>13, <1>15, <3>1 DEF Good, Numbered
    <3>3. Known(req[q])'
      BY <1>13, <3>1 DEF Good, Known
    <3>4. Written(req[q])'
      BY <1>16, <3>1 DEF Good, Written
    <3>5. QED
      BY <3>2, <3>3, <3>4 DEF Good
  <2>3. QED
    BY <2>1, <2>2
<1>18. OrdersInv'
  <2> SUFFICES ASSUME NEW o \in Orders PROVE Placed(o)'
    BY DEF OrdersInv
  <2>1. Placed(o) /\ undone \subseteq DOMAIN mine
    BY <1>2, <1>3, <1>9 DEF Sound, OrdersInv, Good, Written
  <2>2. /\ test'[o] = IF o \in undone THEN NoTest ELSE test[o]
        /\ order'[o] = IF o \in DOMAIN mine THEN mine[o] ELSE order[o]
    BY <1>4, Zenon
  <2>3. (test[o] # NoTest => test[o].draft \in Revs /\ Kept(direct, o, test[o].row.wf))'
    <3>1. test'[o] # NoTest => /\ test'[o] = test[o] /\ test[o].draft \in Revs
                               /\ Kept(direct, o, test[o].row.wf)
      BY <2>1, <2>2 DEF Placed
    <3>2. PICK m : m = test[o].row.wf
      OBVIOUS
    <3>3. Kept(direct, o, m) => Kept(direct, o, m)'
      BY <1>16
    <3>4. QED
      BY <3>1, <3>2, <3>3 DEF Kept, Live, Is
  <2>4. CASE o \in DOMAIN mine
    <3>1. order'[o] = mine[o] /\ (mine[o].wf = w \/ Kept(direct, o, mine[o].wf))
      BY <1>0, <1>3, <1>9, <2>2, <2>4 DEF Good, Written
    <3>2. Kept(direct, o, order[o].wf)'
      BY <1>14, <1>16, <3>1 DEF Kept
    <3>3. (~Is(order[o].wf, "ABSENT") /\ (Is(order[o].wf, "DRAFT") => o \in direct))'
      BY <3>2 DEF Kept, Live, Is
    <3>4. QED
      BY <2>3, <3>3 DEF Placed
  <2>5. CASE o \notin DOMAIN mine
    <3>1. order'[o] = order[o] /\ test'[o] = test[o]
      BY <2>1, <2>2, <2>5
    <3>2. Exists(o) => order[o].wf \in Revs
      BY RevisionAssumption DEF IInv, TypeOK, OrderRows, Exists, Revs
    <3>3. (Exists(o) => ~Is(order[o].wf, "ABSENT"))'
      BY <1>13, <2>1, <3>1, <3>2 DEF Placed, Exists, Is
    <3>4. (Exists(o) /\ Is(order[o].wf, "DRAFT") => o \in direct \/ test[o].draft = order[o].wf)'
      BY <1>4, <1>13, <2>1, <3>1, <3>2 DEF Placed, Exists, Is
    <3>5. QED
      BY <2>3, <3>3, <3>4 DEF Placed
  <2>6. QED
    BY <2>4, <2>5
<1>19. QED
  BY <1>12, <1>15, <1>17, <1>18 DEF Sound

-----------------------------------------------------------------------------
(* IInv is an invariant. *)
THEOREM IInvAlways == Spec => []IInv
<1>1. Init => IInv
  <2> SUFFICES ASSUME Init PROVE IInv
    OBVIOUS
  <2>1. \A o \in Orders : order[o] = Fresh(0) /\ test[o] = NoTest
    BY DEF Init
  <2>2. /\ \A w \in Revs : rev[w].status = IF w = 1 THEN "PUBLISHED" ELSE "ABSENT"
        /\ \A w \in Revs : rev[w].current <=> w = 1
        /\ \A w \in Revs : rev[w] \in Rows
    BY RevisionAssumption DEF Init, Absent, Rows, Statuses
  <2>3. TypeOK
    <3>1. rev \in [Revs -> Rows]
      BY <2>2 DEF Init
    <3>2. Fresh(0) \in OrderRows
      BY Constants, RevisionAssumption
    <3>3. order \in [Orders -> OrderRows] /\ test \in [Orders -> TestRows]
      BY <3>2, Constants DEF Init
    <3>4. req \in [Requests -> ReqRows]
      BY IdleGood DEF Init
    <3>5. QED
      BY <3>1, <3>3, <3>4 DEF Init, TypeOK, TestRows
  <2>4. CurrentInv /\ DraftInv /\ Dense
    BY <2>2, Constants, RevisionAssumption DEF CurrentInv, DraftInv, Dense, Is, Revs
  <2>5. RequestsInv
    BY IdleGood DEF Init, RequestsInv
  <2>6. OrdersInv
    BY <2>1 DEF OrdersInv, Placed, Exists, Fresh
  <2>7. QED
    BY <2>3, <2>4, <2>5, <2>6 DEF IInv, Sound
<1>2. IInv /\ [Next]_vars => IInv'
  <2> SUFFICES ASSUME IInv, [Next]_vars PROVE IInv'
    OBVIOUS
  <2>1. ASSUME NEW r \in Requests, FamilyStep(r) PROVE IInv'
    BY <2>1, BeginStep, NumberStep, InsertStep, SaveStep DEF FamilyStep
  <2>2. ASSUME NEW r \in Requests, OrderStep(r) PROVE IInv'
    BY <2>2, PlacingStep DEF OrderStep, CreateOrder, ChangeWorkflow
  <2>3. ASSUME NEW r \in Requests, TestStep(r) PROVE IInv'
    BY <2>3, BeginStep, StartTestStep, RevertTestStep DEF TestStep
  <2>4. ASSUME NEW r \in Requests, PublishStep(r) PROVE IInv'
    BY <2>4, BeginStep, PublishingStep, PublishStepKeeps DEF PublishStep
  <2>5. CASE UNCHANGED vars
    BY <2>5 DEF vars, marks, IInv, TypeOK, Sound, CurrentInv, DraftInv, Dense, RequestsInv, OrdersInv,
                Good, Numbered, Known, Written, Placed, Exists, Kept, Live, Is, HasDraft
  <2>6. QED
    BY <2>1, <2>2, <2>3, <2>4, <2>5, FailStep DEF Next
<1>3. QED
  BY <1>1, <1>2, PTL DEF Spec

(* For any number of requests, orders and revisions: exactly one revision  *)
(* is in force, until an edit is saved over a newer row.                   *)
THEOREM OneCurrentAlways == Spec => []OneCurrent
<1>1. IInv => OneCurrent
  BY DEF IInv, Sound, CurrentInv, OneCurrent
<1>2. QED
  BY <1>1, IInvAlways, PTL

(* There is at most one draft, although its creation reads the family      *)
(* without a lock: the numbers of two that are created at once collide.    *)
THEOREM OneDraftAlways == Spec => []OneDraft
<1>1. IInv => OneDraft
  BY DEF IInv, Sound, DraftInv, OneDraft
<1>2. QED
  BY <1>1, IInvAlways, PTL

(* An order that nobody put on a draft by its id is on a draft only while  *)
(* a test of that draft is active.                                         *)
THEOREM DraftsOnlyInTestsAlways == Spec => []DraftsOnlyInTests
<1>1. IInv => DraftsOnlyInTests
  BY DEF IInv, Sound, OrdersInv, Placed, DraftsOnlyInTests
<1>2. QED
  BY <1>1, IInvAlways, PTL

-----------------------------------------------------------------------------
(* Publications. *)

\* An order as a publication sees it.
Seen(x, o) == IF o \in DOMAIN x.mine THEN x.mine[o] ELSE order[o]

\* Of an order that nobody else has written: a publication at work knows its test of
\* the draft, and once it has listed the orders in flight it has still to place it,
\* or the order is on the draft or no longer in flight.
Followed(x, o) ==
  /\ x.op = "revert" /\ test[o].draft = x.w => o \in x.todo \cup x.undone
  /\ x.op = "migrate" =>
       /\ test[o].draft = x.w => o \in x.undone
       /\ o \notin x.todo /\ Pending(Seen(x, o)) => Seen(x, o).wf = x.w

Names(x) == x.op \in Publishing => x.w \in Revs

PublicationInv ==
  \A r \in Requests : Names(req[r]) /\ \A o \in Orders \ touched : Followed(req[r], o)

(* A request that is not between its list of tests and its commit owes nothing. *)
LEMMA NothingOwed ==
  ASSUME NEW x, x.op \notin {"revert", "migrate"}, NEW o
  PROVE  Followed(x, o) /\ Followed(x, o)'
  BY DEF Followed

(* A step that only its request shows, and perhaps a revision. *)
LEMMA OwnStep ==
  ASSUME IInv, PublicationInv, NEW r \in Requests, NEW new \in ReqRows, Goes(r, new),
         UNCHANGED <<order, test, touched>>, Names(new),
         \A o \in Orders \ touched : Followed(new, o)
  PROVE  PublicationInv'
<1> SUFFICES ASSUME NEW q \in Requests
             PROVE  Names(req[q])' /\ \A o \in Orders \ touched : Followed(req[q], o)'
  BY DEF PublicationInv
<1>1. PICK x : x = req'[q]
  OBVIOUS
<1>2. Names(x) /\ \A o \in Orders \ touched : Followed(x, o)
  BY <1>1, GoesType DEF IInv, PublicationInv
<1>3. QED
  BY <1>1, <1>2 DEF Names, Followed, Seen, Pending

(* Orders are written, by a request that is not, or no longer, in a publication:   *)
(* they are marked, unless the publications at work are all of the revision w.     *)
LEMMA WritingStep ==
  ASSUME IInv, PublicationInv, NEW r \in Requests, NEW S \in SUBSET Orders, NEW w, Touches(r, S, w),
         req'[r] = Idle, \A q \in Requests \ {r} : req'[q] = req[q],
         \A o \in Orders \ S : order'[o] = order[o] /\ test'[o] \in {test[o], NoTest},
         \A q \in Requests \ {r}, o \in S \ touched' :
           InPublication(q) /\ req[q].w = w => Followed(req[q], o)'
  PROVE  PublicationInv'
<1> SUFFICES ASSUME NEW q \in Requests
             PROVE  Names(req[q])' /\ \A o \in Orders \ touched' : Followed(req[q], o)'
  BY DEF PublicationInv
<1>1. CASE q = r
  <2>1. req'[q].op = "idle"
    BY <1>1 DEF Idle
  <2>2. QED
    BY <2>1 DEF Names, Publishing, Followed
<1>2. CASE q # r
  <2>1. PICK x : x = req[q]
    OBVIOUS
  <2>2. req'[q] = x /\ Names(x) /\ \A o \in Orders \ touched : Followed(x, o)
    BY <1>2, <2>1 DEF PublicationInv
  <2>3. CASE ~InPublication(q)
    BY <2>1, <2>2, <2>3 DEF InPublication, Names, Followed
  <2>4. CASE InPublication(q)
    <3>1. x.w \in Revs
      BY <2>1, <2>2, <2>4 DEF InPublication, Names, Publishing
    <3>2. touched \subseteq touched' /\ (x.w # w => S \subseteq touched')
      BY <1>2, <2>1, <2>4 DEF Touches
    <3>3. ASSUME NEW o \in Orders \ touched', o \notin S PROVE Followed(x, o)'
      <4>1. Followed(x, o) /\ order'[o] = order[o] /\ test'[o] \in {test[o], NoTest}
        BY <2>2, <3>2, <3>3
      <4>2. NoTest.draft # x.w
        BY <3>1 DEF NoTest, Revs
      <4>3. QED
        BY <4>1, <4>2 DEF Followed, Seen, Pending
    <3>4. ASSUME NEW o \in Orders \ touched', o \in S PROVE Followed(x, o)'
      BY <1>2, <2>1, <2>4, <3>2, <3>4
    <3>5. \A o \in Orders \ touched' : Followed(x, o)'
      BY <3>3, <3>4
    <3>6. QED
      BY <2>2, <3>5 DEF Names, Followed, Seen, Pending
  <2>5. QED
    BY <2>3, <2>4
<1>3. QED
  BY <1>1, <1>2

(* One order is written outside a publication, and at most its test. *)
LEMMA OneWritten ==
  ASSUME IInv, PublicationInv, NEW r \in Requests, NEW o \in Orders, Touches(r, {o}, 0),
         NEW row, NEW t, order' = [order EXCEPT ![o] = row], test' = [test EXCEPT ![o] = t],
         Goes(r, Idle) \/ (Starts(r) /\ UNCHANGED req)
  PROVE  PublicationInv'
<1>1. req'[r] = Idle /\ \A q \in Requests \ {r} : req'[q] = req[q]
  BY GoesType, IdleGood DEF IInv, Starts
<1>2. \A k \in Orders \ {o} : order'[k] = order[k] /\ test'[k] \in {test[k], NoTest}
  BY DEF IInv, TypeOK
<1>3. \A q \in Requests : InPublication(q) => req[q].w # 0
  BY DEF PublicationInv, Names, InPublication, Publishing, Revs
<1>4. QED
  BY <1>1, <1>2, <1>3, WritingStep

(* Orders outside a publication, and tests. *)
LEMMA OrdersBeside ==
  ASSUME IInv, PublicationInv, NEW r \in Requests, NEW o \in Orders,
         \/ \E w \in 0 .. MaxRevision : Assigns(r, o, w)
         \/ \E f \in BOOLEAN : Advance(r, o, f) \/ \E w \in Revs : Repair(r, o, w, f)
         \/ StartTest(r, o) \/ RevertTest(r, o)
  PROVE  PublicationInv'
<1>1. test = [test EXCEPT ![o] = test[o]]
  BY SameTest
<1>2. /\ Touches(r, {o}, 0) /\ (Goes(r, Idle) \/ (Starts(r) /\ UNCHANGED req))
      /\ \E row : order' = [order EXCEPT ![o] = row]
      /\ \E t : test' = [test EXCEPT ![o] = t]
  BY <1>1 DEF Assigns, Advance, Repair, StartTest, RevertTest, Ends
<1>3. QED
  BY <1>2, OneWritten

(* The readings that begin an operation, the steps of drafts and edits, and failures. *)
LEMMA FamilyBeside ==
  ASSUME IInv, PublicationInv, NEW r \in Requests,
         \/ \E w \in Revs : \/ OpenSource(r, w) \/ ReadEdit(r, w) \/ OpenTest(r, w)
                            \/ ReadDraft(r, w) \/ ReadFamily(r, w)
         \/ InsertDraft(r) \/ Save(r) \/ Fail(r)
  PROVE  PublicationInv'
<1>0. ASSUME NEW new \in ReqRows, Goes(r, new), UNCHANGED <<order, test, touched>>,
             new.op \notin {"revert", "migrate"}, Names(new)
      PROVE  PublicationInv'
  BY <1>0, NothingOwed, OwnStep
<1>1. ASSUME NEW w \in Revs, OpenSource(r, w) \/ ReadEdit(r, w) \/ OpenTest(r, w) \/ ReadDraft(r, w)
      PROVE  PublicationInv'
  <2>1. PICK op \in {"family", "save", "test", "tests"} : Reads(r, op, w) /\ ~Is(w, "ABSENT")
    BY <1>1 DEF OpenSource, ReadEdit, Editable, OpenTest, ReadDraft, Is
  <2> DEFINE new == [Idle EXCEPT !.op = op, !.w = w, !.row = rev[w]]
  <2>2. rev[w] \in Rows
    BY DEF IInv, TypeOK
  <2>3. new \in ReqRows
    BY <2>1, <2>2, Begun
  <2>4. new.op = op /\ new.w = w
    BY DEF Idle
  <2>5. Goes(r, new) /\ UNCHANGED <<order, test, touched>>
    BY <2>1 DEF Reads, marks
  <2> HIDE DEF new
  <2>6. QED
    BY <1>0, <2>3, <2>4, <2>5 DEF Names
<1>2. ASSUME NEW n \in Revs, ReadFamily(r, n) PROVE PublicationInv'
  <2> DEFINE new == [req[r] EXCEPT !.op = "insert", !.n = n]
  <2>1. n \in 0 .. MaxRevision /\ req[r] \in ReqRows
    BY RevisionAssumption DEF Revs, IInv, TypeOK
  <2>2. new \in ReqRows /\ new.op = "insert"
    BY <2>1 DEF ReqRows
  <2>3. Goes(r, new) /\ UNCHANGED <<order, test, touched>>
    BY <1>2 DEF ReadFamily, marks
  <2> HIDE DEF new
  <2>4. QED
    BY <1>0, <2>2, <2>3 DEF Names, Publishing
<1>3. CASE InsertDraft(r) \/ Save(r) \/ Fail(r)
  <2>1. Goes(r, Idle) /\ UNCHANGED <<order, test, touched>>
    BY <1>3 DEF InsertDraft, Save, Fail, Ends, marks
  <2>2. Idle \in ReqRows /\ Idle.op = "idle"
    BY IdleGood DEF Idle
  <2>3. QED
    BY <1>0, <2>1, <2>2 DEF Names, Publishing
<1>4. QED
  BY <1>1, <1>2, <1>3

(* A publication lists its tests, lists the orders in flight, and writes them one by one. *)
LEMMA PublicationAtWork ==
  ASSUME IInv, PublicationInv, NEW r \in Requests,
         \/ ListTests(r) \/ ListPending(r)
         \/ \E o \in Orders : RevertOne(r, o) \/ \E f \in BOOLEAN : Migrate(r, o, f)
  PROVE  PublicationInv'
<1> DEFINE x == req[r]
<1>1. /\ x \in ReqRows /\ x.mine \in Mines /\ DOMAIN x.mine \subseteq Orders /\ x.w \in 0 .. MaxRevision
      /\ \A o \in Orders \ touched : Followed(x, o)
  BY MineRead DEF IInv, TypeOK, ReqRows, PublicationInv
<1>2. x.w \in Revs
  BY DEF PublicationInv, Names, Publishing, ListTests, ListPending, RevertOne, Migrate
<1>3. CASE ListTests(r)
  <2> DEFINE new == [x EXCEPT !.op = "revert", !.todo = TestsOf(x.w)]
  <2>1. new \in ReqRows /\ new.op = "revert" /\ new.w = x.w /\ new.todo = TestsOf(x.w)
    BY <1>1 DEF ReqRows, TestsOf
  <2>2. /\ Goes(r, new) /\ UNCHANGED <<order, test>>
        /\ touched' = IF \E q \in Requests : InPublication(q) THEN touched ELSE {}
    BY <1>3 DEF ListTests
  <2> HIDE DEF new
  <2>3. Names(new) /\ \A o \in Orders : Followed(new, o)
    BY <1>2, <2>1 DEF Names, Followed, TestsOf
  <2>4. CASE UNCHANGED touched
    BY <2>1, <2>2, <2>3, <2>4, OwnStep
  <2>5. CASE \A q \in Requests : ~InPublication(q)
    <3> SUFFICES ASSUME NEW q \in Requests PROVE Names(req[q])' /\ \A o \in Orders : Followed(req[q], o)'
      BY DEF PublicationInv
    <3>1. PICK y : y = req'[q]
      OBVIOUS
    <3>2. Names(y) /\ \A o \in Orders : Followed(y, o)
      BY <2>1, <2>2, <2>3, <2>5, <3>1, GoesType, NothingOwed DEF IInv, PublicationInv, InPublication
    <3>3. QED
      BY <2>2, <3>1, <3>2 DEF Names, Followed, Seen, Pending
  <2>6. QED
    BY <2>2, <2>4, <2>5
<1>4. ASSUME NEW new \in ReqRows, Goes(r, new), UNCHANGED <<rev, order, test, marks>>, new.w = x.w,
             \A o \in Orders \ touched : Followed(new, o)
      PROVE  PublicationInv'
  BY <1>2, <1>4, OwnStep DEF Names, marks
<1>5. CASE ListPending(r)
  <2> DEFINE new == [x EXCEPT !.op = "migrate", !.todo = Listed(r)]
  <2>1. /\ new \in ReqRows /\ new.op = "migrate" /\ new.w = x.w /\ new.todo = Listed(r)
        /\ new.undone = x.undone /\ new.mine = x.mine
    BY <1>1 DEF ReqRows, Listed
  <2>2. Goes(r, new) /\ x.op = "revert" /\ x.todo = {} /\ UNCHANGED <<rev, order, test, marks>>
    BY <1>5 DEF ListPending
  <2> HIDE DEF new
  <2>3. \A o \in Orders \ touched : Followed(new, o)
    BY <1>1, <2>1, <2>2 DEF Followed, Listed, Seen, Sees
  <2>4. QED
    BY <1>4, <2>1, <2>2, <2>3
<1>6. ASSUME NEW o \in Orders, RevertOne(r, o) PROVE PublicationInv'
  <2> DEFINE row == Restored(o)
             new == [x EXCEPT !.todo = @ \ {o}, !.undone = @ \cup {o}, !.mine = Writes(r, o, row)]
  <2>1. x.op = "revert" /\ row \in OrderRows
    BY <1>6 DEF RevertOne, IInv, TypeOK, Restored
  <2> HIDE DEF row
  <2>2. Writes(r, o, row) \in Mines
    BY <1>1, <2>1, MineWrite DEF Writes
  <2>3. /\ new \in ReqRows /\ new.op = x.op /\ new.w = x.w
        /\ new.todo = x.todo \ {o} /\ new.undone = x.undone \cup {o}
    BY <1>1, <2>2 DEF ReqRows
  <2>4. Goes(r, new) /\ UNCHANGED <<rev, order, test, marks>>
    BY <1>6 DEF RevertOne, row
  <2> HIDE DEF new
  <2>5. \A k \in Orders \ touched : Followed(new, k)
    BY <1>1, <2>1, <2>3 DEF Followed
  <2>6. QED
    BY <1>4, <2>3, <2>4, <2>5
<1>7. ASSUME NEW o \in Orders, NEW f \in BOOLEAN, Migrate(r, o, f) PROVE PublicationInv'
  <2> DEFINE row == At(x.w, f)
             new == [x EXCEPT !.todo = @ \ {o}, !.mine = Writes(r, o, row)]
  <2>1. x.op = "migrate" /\ row \in OrderRows /\ row.wf = x.w
    BY <1>1, <1>7, Constants DEF Migrate, At
  <2>2. Goes(r, new) /\ UNCHANGED <<rev, order, test, marks>>
    BY <1>7 DEF Migrate
  <2> HIDE DEF row
  <2>3. Writes(r, o, row) \in Mines
    BY <1>1, <2>1, MineWrite DEF Writes
  <2>4. /\ new \in ReqRows /\ new.op = x.op /\ new.w = x.w
        /\ new.todo = x.todo \ {o} /\ new.undone = x.undone /\ new.mine = Writes(r, o, row)
    BY <1>1, <2>3 DEF ReqRows
  <2> HIDE DEF new
  <2>5. /\ Seen(new, o) = row
        /\ \A k \in Orders : k # o => Seen(new, k) = Seen(x, k)
    BY <2>4 DEF Seen, Writes
  <2>6. ASSUME NEW k \in Orders \ touched PROVE Followed(new, k)
    <3>1. Followed(x, k)
      BY <1>1, <2>6
    <3>2. CASE k = o
      BY <2>1, <2>4, <2>5, <3>1, <3>2 DEF Followed
    <3>3. CASE k # o
      BY <2>1, <2>4, <2>5, <3>1, <3>3 DEF Followed
    <3>4. QED
      BY <3>2, <3>3
  <2>7. QED
    BY <1>4, <2>2, <2>4, <2>6
<1>8. QED
  BY <1>3, <1>5, <1>6, <1>7

(* When a publication commits, an order that nobody else has written is in no test *)
(* of its revision, and on it if it is in flight.                                  *)
LEMMA Commit ==
  ASSUME IInv, PublicationInv, NEW r \in Requests, Publish(r)
  PROVE  /\ touched \subseteq touched'
         /\ \A o \in Orders \ touched' :
              /\ test'[o].draft # req[r].w
              /\ Pending(order'[o]) => order'[o].wf = req[r].w
<1>1. touched \subseteq touched'
  BY DEF Publish, Touches
<1> SUFFICES ASSUME NEW o \in Orders \ touched'
             PROVE  /\ test'[o].draft # req[r].w
                    /\ Pending(order'[o]) => order'[o].wf = req[r].w
  BY <1>1
<1>2. req[r].w \in Revs /\ Followed(req[r], o) /\ req[r].op = "migrate" /\ req[r].todo = {}
  BY <1>1 DEF PublicationInv, Names, Publishing, Publish
<1>3. /\ order'[o] = Seen(req[r], o)
      /\ test'[o] = IF o \in req[r].undone THEN NoTest ELSE test[o]
  BY DEF Publish, Sees, Seen
<1>4. NoTest.draft # req[r].w
  BY <1>2 DEF NoTest, Revs
<1>5. QED
  BY <1>2, <1>3, <1>4 DEF Followed

(* A publication commits beside another one: of the same revision, it has done what the *)
(* other owes; of another revision, what it writes is marked.                           *)
LEMMA CommitBeside ==
  ASSUME IInv, PublicationInv, NEW r \in Requests, Publish(r)
  PROVE  PublicationInv'
<1> DEFINE S == DOMAIN req[r].mine
           w == req[r].w
<1>1. S \subseteq Orders /\ Touches(r, S, w) /\ Goes(r, Idle)
  BY MineRead DEF IInv, TypeOK, ReqRows, Publish, Ends
<1>2. req'[r] = Idle /\ \A q \in Requests \ {r} : req'[q] = req[q]
  BY <1>1, GoesType, IdleGood DEF IInv
<1>3. \A o \in Orders \ S : order'[o] = order[o] /\ test'[o] \in {test[o], NoTest}
  BY DEF Publish, Sees
<1>4. ASSUME NEW q \in Requests \ {r}, NEW o \in S \ touched', InPublication(q), req[q].w = w
      PROVE  Followed(req[q], o)'
  <2>1. o \in Orders \ touched'
    BY <1>1, <1>4
  <2>2. test'[o].draft # w /\ (Pending(order'[o]) => order'[o].wf = w)
    BY <2>1, Commit
  <2>3. PICK y : y = req[q] /\ y = req'[q]
    BY <1>2, <1>4
  <2>4. Followed(y, o)
    BY <2>1, <2>3, Commit DEF PublicationInv
  <2>5. QED
    BY <1>4, <2>2, <2>3, <2>4 DEF Followed, Seen, Pending
<1> HIDE DEF S, w
<1>5. QED
  BY <1>1, <1>2, <1>3, <1>4, WritingStep

\* The inductive invariant of publications.
THEOREM PublicationInvAlways == Spec => []PublicationInv
<1>1. Init => PublicationInv
  <2>1. Idle.op = "idle"
    BY DEF Idle
  <2>2. QED
    BY <2>1, NothingOwed DEF Init, PublicationInv, Names, Publishing
<1>2. IInv /\ PublicationInv /\ [Next]_vars => PublicationInv'
  <2> SUFFICES ASSUME IInv, PublicationInv, [Next]_vars PROVE PublicationInv'
    OBVIOUS
  <2>1. CASE UNCHANGED vars
    BY <2>1 DEF vars, marks, PublicationInv, Names, Followed, Seen, Pending
  <2>2. ASSUME NEW r \in Requests, FamilyStep(r) \/ Fail(r) PROVE PublicationInv'
    BY <2>2, FamilyBeside DEF FamilyStep
  <2>3. ASSUME NEW r \in Requests, OrderStep(r) PROVE PublicationInv'
    BY <2>3, OrdersBeside DEF OrderStep, CreateOrder, ChangeWorkflow
  <2>4. ASSUME NEW r \in Requests, TestStep(r) PROVE PublicationInv'
    BY <2>4, FamilyBeside, OrdersBeside DEF TestStep
  <2>5. ASSUME NEW r \in Requests, PublishStep(r) PROVE PublicationInv'
    BY <2>5, FamilyBeside, PublicationAtWork, CommitBeside DEF PublishStep
  <2>6. QED
    BY <2>1, <2>2, <2>3, <2>4, <2>5 DEF Next
<1>3. QED
  BY <1>1, <1>2, IInvAlways, PTL DEF Spec

\* A revision comes into force by its publication only, until an edit is saved over a newer row.
LEMMA OnlyByPublication ==
  ASSUME IInv, Next, ~stale', NEW w \in Revs, ComesIntoForce(w)
  PROVE  \E r \in Requests : Publish(r) /\ req[r].w = w
<1>0. rev \in [Revs -> Rows] /\ rev' # rev
  BY DEF IInv, TypeOK, ComesIntoForce
<1>1. PICK r \in Requests : InsertDraft(r) \/ Save(r) \/ Publish(r)
  <2>1. PICK r \in Requests : FamilyStep(r) \/ OrderStep(r) \/ TestStep(r) \/ PublishStep(r) \/ Fail(r)
    BY DEF Next
  <2>2. FamilyStep(r) => InsertDraft(r) \/ Save(r)
    BY <1>0 DEF FamilyStep, OpenSource, ReadFamily, ReadEdit, Reads
  <2>3. ~OrderStep(r)
    BY <1>0 DEF OrderStep, CreateOrder, ChangeWorkflow, Assigns, Advance, Repair
  <2>4. ~TestStep(r)
    BY <1>0 DEF TestStep, OpenTest, StartTest, RevertTest, Reads
  <2>5. PublishStep(r) => Publish(r)
    BY <1>0 DEF PublishStep, ReadDraft, ListTests, ListPending, RevertOne, Migrate, Reads
  <2>6. QED
    BY <1>0, <2>1, <2>2, <2>3, <2>4, <2>5 DEF Fail
<1>2. ~Save(r)
  BY <1>0 DEF Save
<1>3. ~InsertDraft(r)
  <2> SUFFICES ASSUME InsertDraft(r) PROVE FALSE
    OBVIOUS
  <2>1. rev' = [rev EXCEPT ![req[r].n] = [status |-> "DRAFT", current |-> FALSE, base |-> req[r].w]]
    BY DEF InsertDraft
  <2>2. ~rev'[w].current \/ rev'[w] = rev[w]
    BY <1>0, <2>1
  <2>3. QED
    BY <2>2 DEF ComesIntoForce
<1>4. rev'[w] = Published(req[r].w, req[r].row)[w]
  BY <1>1, <1>2, <1>3 DEF Publish
<1>5. CASE w = req[r].w
  BY <1>1, <1>2, <1>3, <1>5
<1>6. CASE w # req[r].w
  <2>1. \/ rev'[w] = rev[w]
        \/ rev'[w] = [rev[w] EXCEPT !.status = "ARCHIVED", !.current = FALSE]
    BY <1>4, <1>6 DEF Published
  <2>2. QED
    BY <1>0, <2>1 DEF ComesIntoForce, Rows
<1>7. QED
  BY <1>5, <1>6

(* For any number of requests, orders and revisions, whatever publications, tests, *)
(* edits and order requests meet: when a revision comes into force, every order in *)
(* flight is on it and in no test of it, except those that somebody else wrote     *)
(* while its publication reverted the tests and moved the orders.                  *)
THEOREM PublicationCompleteAlways == Spec => PublicationComplete
<1> DEFINE Whole == ~stale' => \A w \in Revs : ComesIntoForce(w) =>
                      \A o \in Orders \ touched' :
                        /\ test'[o].draft # w
                        /\ Pending(order'[o]) => order'[o].wf = w
<1>1. IInv /\ PublicationInv /\ [Next]_vars => [Whole]_vars
  <2> SUFFICES ASSUME IInv, PublicationInv, Next, ~stale', NEW w \in Revs, ComesIntoForce(w),
                      NEW o \in Orders \ touched'
               PROVE  test'[o].draft # w /\ (Pending(order'[o]) => order'[o].wf = w)
    OBVIOUS
  <2>1. PICK r \in Requests : Publish(r) /\ req[r].w = w
    BY OnlyByPublication
  <2>2. QED
    BY <2>1, Commit
<1>2. QED
  BY <1>1, IInvAlways, PublicationInvAlways, PTL DEF Spec, PublicationComplete
===============================================================================
