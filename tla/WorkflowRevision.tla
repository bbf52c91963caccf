---------------------------- MODULE WorkflowRevision ----------------------------
(***************************************************************************)
(* The revisions of one family of workflows: drafts, edits, tests of a     *)
(* draft on real orders, the publication of a draft, which migrates the    *)
(* orders in flight, and the repair of an order.                           *)
(*                                                                         *)
(* Workflow rows are read without a lock and saved whole.  Order rows are  *)
(* locked, and what a publication writes on them is its own until it       *)
(* commits.  Where the rules of a revision lead an order is data: a state  *)
(* of it, final or not.  A cancelled order is one in a state that is not   *)
(* final, as the rules demand of it; deleted orders and stock are left out.*)
(***************************************************************************)
EXTENDS Integers

CONSTANTS
  Requests,
  Orders,       \* by creation
  MaxRevision   \* bound: revisions of the family

ASSUME RevisionAssumption == Orders \subseteq Nat /\ MaxRevision \in Nat \ {0}

VARIABLES
  rev,     \* workflows: lifecycle status, is_current, based_on_workflow_id
  order,   \* sale_orders: revision, or 0 outside the family, and whether the state is final
  test,    \* the active row of workflow_draft_test_sessions of each order
  req,     \* requests in progress
  stale,   \* history: an edit was saved over a row that had changed since it was read
  direct,  \* history: orders put on a draft by its id
  touched  \* history: orders that others wrote while a publication reverted and migrated

marks == <<stale, direct, touched>>
vars == <<rev, order, test, req, marks>>

Revs == 1 .. MaxRevision
Statuses == {"ABSENT", "DRAFT", "PUBLISHED", "ARCHIVED"}
Rows == [status : Statuses, current : BOOLEAN, base : 0 .. MaxRevision]
Absent == [status |-> "ABSENT", current |-> FALSE, base |-> 0]
OrderRows == [wf : 0 .. MaxRevision, final : BOOLEAN]
Fresh(w) == [wf |-> w, final |-> FALSE]
NoTest == [draft |-> 0, row |-> Fresh(0)]
Idle == [op |-> "idle", w |-> 0, row |-> Absent, n |-> 0,
         todo |-> {}, undone |-> {}, mine |-> [o \in {} |-> Fresh(0)]]

Init ==
  /\ rev = [w \in Revs |-> IF w = 1 THEN [status |-> "PUBLISHED", current |-> TRUE, base |-> 0] ELSE Absent]
  /\ order = [o \in Orders |-> Fresh(0)]
  /\ test = [o \in Orders |-> NoTest]
  /\ req = [r \in Requests |-> Idle]
  /\ stale = FALSE /\ direct = {} /\ touched = {}

-----------------------------------------------------------------------------
Goes(r, new) == req' = [req EXCEPT ![r] = new]
Ends(r) == Goes(r, Idle)
Starts(r) == req[r] = Idle

\* An operation begins with the row of a revision.
Reads(r, op, w) ==
  /\ Starts(r) /\ Goes(r, [Idle EXCEPT !.op = op, !.w = w, !.row = rev[w]])
  /\ UNCHANGED <<rev, order, test, marks>>

\* An error, a refusal, or an answer that writes nothing: the transaction leaves no trace.
Fail(r) == req[r] # Idle /\ Ends(r) /\ UNCHANGED <<rev, order, test, marks>>

Is(w, status) == rev[w].status = status
HasDraft == \E m \in Revs : Is(m, "DRAFT")
\* ux_workflows_current_family
IndexAllows(w, row) == row.current => \A m \in Revs \ {w} : ~rev[m].current
\* The lock of an order's row.
Free(r, o) == \A q \in Requests \ {r} : o \notin DOMAIN req[q].mine
Exists(o) == order[o].wf # 0

\* A publication is between the list of its tests and its commit.
InPublication(q) == req[q].op \in {"revert", "migrate"}

\* The orders S are written; those of r itself belong to a publication of w, or w is 0.
Touches(r, S, w) ==
  touched' = IF \E q \in Requests \ {r} : InPublication(q) /\ req[q].w # w
             THEN touched \cup S ELSE touched

-----------------------------------------------------------------------------
(* Drafts and edits. *)

OpenSource(r, w) == rev[w].status \in {"PUBLISHED", "ARCHIVED"} /\ Reads(r, "family", w)

\* Fault: the draft that exists is not looked for.
MayDraftAgain(row) == row.status = "PUBLISHED"

\* The family has no draft, and the source was published when it was read.
MayDraft(row) == ~HasDraft /\ row.status = "PUBLISHED"

\* One more than the greatest revision.
Following(n) ==
  /\ n - 1 \in Revs /\ ~Is(n - 1, "ABSENT")
  /\ \A m \in Revs : m >= n => Is(m, "ABSENT")

\* Otherwise the draft that exists is the answer, or there is none.
ReadFamily(r, n) ==
  /\ req[r].op = "family" /\ MayDraft(req[r].row) /\ Following(n)
  /\ Goes(r, [req[r] EXCEPT !.op = "insert", !.n = n])
  /\ UNCHANGED <<rev, order, test, marks>>

\* ux_workflows_family_revision refuses a number that is taken.
InsertDraft(r) ==
  /\ req[r].op = "insert" /\ Is(req[r].n, "ABSENT")
  /\ rev' = [rev EXCEPT ![req[r].n] = [status |-> "DRAFT", current |-> FALSE, base |-> req[r].w]]
  /\ Ends(r) /\ UNCHANGED <<order, test, marks>>

\* A draft is edited; of a published revision only the rules are.
Editable(w) == rev[w].status \in {"DRAFT", "PUBLISHED"}

ReadEdit(r, w) == Editable(w) /\ Reads(r, "save", w)

\* The row as it was read is written, its status too.
Save(r) ==
  /\ req[r].op = "save" /\ IndexAllows(req[r].w, req[r].row)
  /\ rev' = [rev EXCEPT ![req[r].w] = req[r].row]
  /\ stale' = (stale \/ rev[req[r].w] # req[r].row)
  /\ Ends(r) /\ UNCHANGED <<order, test, direct, touched>>

-----------------------------------------------------------------------------
(* Orders outside a publication: each is one transaction under the row lock. *)

\* An order is put on the initial state of a revision that somebody names by its
\* id: any that exists will do, a draft or an archived one too.
Assigns(r, o, w) ==
  /\ Starts(r) /\ Free(r, o)
  /\ w \in {0} \cup {m \in Revs : ~Is(m, "ABSENT")}
  /\ order' = [order EXCEPT ![o] = Fresh(w)]
  /\ direct' = IF w # 0 /\ Is(w, "DRAFT") THEN direct \cup {o} ELSE direct
  /\ Touches(r, {o}, 0)
  /\ UNCHANGED <<rev, test, req, stale>>

\* A creation, or the assignment of an order that has no workflow.
CreateOrder(r, o, w) == ~Exists(o) /\ w # 0 /\ Assigns(r, o, w)

\* An edit names another workflow, of another family too; a test stays active.
ChangeWorkflow(r, o, w) == Exists(o) /\ w # order[o].wf /\ Assigns(r, o, w)

\* A transition, by a user or automatic, or the rollback after a payment: anywhere
\* in the order's own revision, and from a final state too.
Advance(r, o, f) ==
  /\ Starts(r) /\ Exists(o) /\ Free(r, o)
  /\ order' = [order EXCEPT ![o].final = f]
  /\ Touches(r, {o}, 0)
  /\ UNCHANGED <<rev, test, req, stale, direct>>

At(w, f) == [wf |-> w, final |-> f]

\* The order is placed anew by the rules of the current revision.
Repair(r, o, w, f) ==
  /\ Starts(r) /\ Exists(o) /\ Free(r, o)
  /\ ~order[o].final /\ Is(w, "PUBLISHED") /\ rev[w].current
  /\ order' = [order EXCEPT ![o] = At(w, f)]
  /\ Touches(r, {o}, 0)
  /\ UNCHANGED <<rev, test, req, stale, direct>>

-----------------------------------------------------------------------------
(* Tests of a draft: getDraft, then the lock of the order. *)

OpenTest(r, w) == Is(w, "DRAFT") /\ Reads(r, "test", w)

Session(o, w) == [draft |-> w, row |-> order[o]]

StartTest(r, o) ==
  /\ req[r].op = "test" /\ Exists(o) /\ Free(r, o)
  /\ ~order[o].final /\ test[o] = NoTest
  /\ test' = [test EXCEPT ![o] = Session(o, req[r].w)]
  /\ order' = [order EXCEPT ![o] = Fresh(req[r].w)]
  /\ Touches(r, {o}, 0)
  /\ Ends(r) /\ UNCHANGED <<rev, stale, direct>>

\* Fault: the order is left on the draft.
RestoredNot(o) == order[o]

\* The order as it was when its test began.
Restored(o) == test[o].row

RevertTest(r, o) ==
  /\ Starts(r) /\ test[o] # NoTest /\ Free(r, o)
  /\ order' = [order EXCEPT ![o] = Restored(o)]
  /\ test' = [test EXCEPT ![o] = NoTest]
  /\ Touches(r, {o}, 0)
  /\ UNCHANGED <<rev, req, stale, direct>>

-----------------------------------------------------------------------------
(* Publication, in one transaction. *)

ReadDraft(r, w) == Is(w, "DRAFT") /\ Reads(r, "tests", w)

TestsOf(w) == {o \in Orders : test[o].draft = w}

ListTests(r) ==
  /\ req[r].op = "tests"
  /\ Goes(r, [req[r] EXCEPT !.op = "revert", !.todo = TestsOf(req[r].w)])
  /\ touched' = IF \E q \in Requests : InPublication(q) THEN touched ELSE {}
  /\ UNCHANGED <<rev, order, test, stale, direct>>

\* What the transaction sees of an order, and writes on it.
Sees(r, o) == IF o \in DOMAIN req[r].mine THEN req[r].mine[o] ELSE order[o]
Writes(r, o, row) == [k \in DOMAIN req[r].mine \cup {o} |-> IF k = o THEN row ELSE req[r].mine[k]]

\* A test that somebody else has reverted makes the publication fail.
RevertOne(r, o) ==
  /\ req[r].op = "revert" /\ o \in req[r].todo /\ Free(r, o) /\ test[o].draft = req[r].w
  /\ Goes(r, [req[r] EXCEPT !.todo = @ \ {o}, !.undone = @ \cup {o}, !.mine = Writes(r, o, Restored(o))])
  /\ UNCHANGED <<rev, order, test, marks>>

Pending(row) == row.wf # 0 /\ ~row.final

\* Fault: the query runs outside the transaction.
ListedOutside(r) == {o \in Orders : Pending(order[o])}

\* listPendingFamilyOrders
Listed(r) == {o \in Orders : Pending(Sees(r, o))}

ListPending(r) ==
  /\ req[r].op = "revert" /\ req[r].todo = {}
  /\ Goes(r, [req[r] EXCEPT !.op = "migrate", !.todo = Listed(r)])
  /\ UNCHANGED <<rev, order, test, marks>>

\* The oldest of the list is locked, read again and placed by the rules of the draft.
Migrate(r, o, f) ==
  /\ req[r].op = "migrate" /\ o \in req[r].todo /\ \A k \in req[r].todo : o <= k
  /\ Free(r, o)
  /\ Goes(r, [req[r] EXCEPT !.todo = @ \ {o}, !.mine = Writes(r, o, At(req[r].w, f))])
  /\ UNCHANGED <<rev, order, test, marks>>

\* Fault: the revision in force stays.
PublishedBeside(w, row) == [rev EXCEPT ![w] = [row EXCEPT !.status = "PUBLISHED", !.current = TRUE]]

Published(w, row) ==
  [m \in Revs |->
     IF m = w THEN [row EXCEPT !.status = "PUBLISHED", !.current = TRUE]
     ELSE IF Is(m, "PUBLISHED") /\ rev[m].current
            THEN [rev[m] EXCEPT !.status = "ARCHIVED", !.current = FALSE]
            ELSE rev[m]]

Publish(r) ==
  /\ req[r].op = "migrate" /\ req[r].todo = {}
  /\ rev' = Published(req[r].w, req[r].row)
  /\ order' = [o \in Orders |-> Sees(r, o)]
  /\ test' = [o \in Orders |-> IF o \in req[r].undone THEN NoTest ELSE test[o]]
  /\ Touches(r, DOMAIN req[r].mine, req[r].w)
  /\ Ends(r) /\ UNCHANGED <<stale, direct>>

-----------------------------------------------------------------------------
FamilyStep(r) ==
  \/ \E w \in Revs : OpenSource(r, w) \/ ReadFamily(r, w) \/ ReadEdit(r, w)
  \/ InsertDraft(r) \/ Save(r)

OrderStep(r) ==
  \E o \in Orders :
    \/ \E w \in 0 .. MaxRevision : CreateOrder(r, o, w) \/ ChangeWorkflow(r, o, w)
    \/ \E f \in BOOLEAN : Advance(r, o, f) \/ \E w \in Revs : Repair(r, o, w, f)

TestStep(r) ==
  \/ \E w \in Revs : OpenTest(r, w)
  \/ \E o \in Orders : StartTest(r, o) \/ RevertTest(r, o)

PublishStep(r) ==
  \/ \E w \in Revs : ReadDraft(r, w)
  \/ ListTests(r) \/ ListPending(r) \/ Publish(r)
  \/ \E o \in Orders : RevertOne(r, o) \/ \E f \in BOOLEAN : Migrate(r, o, f)

Next == \E r \in Requests : FamilyStep(r) \/ OrderStep(r) \/ TestStep(r) \/ PublishStep(r) \/ Fail(r)

Spec == Init /\ [][Next]_vars

-----------------------------------------------------------------------------
\* Rows that a transaction has written on some of the orders.
Mines == UNION {[S -> OrderRows] : S \in SUBSET Orders}
ReqRows == [op : {"idle", "family", "insert", "save", "test", "tests", "revert", "migrate"},
            w : 0 .. MaxRevision, row : Rows, n : 0 .. MaxRevision,
            todo : SUBSET Orders, undone : SUBSET Orders, mine : Mines]

TypeOK ==
  /\ rev \in [Revs -> Rows] /\ order \in [Orders -> OrderRows]
  /\ test \in [Orders -> [draft : 0 .. MaxRevision, row : OrderRows]]
  /\ req \in [Requests -> ReqRows]
  /\ stale \in BOOLEAN /\ direct \subseteq Orders /\ touched \subseteq Orders

\* Exactly one revision of the family is in force, whatever publications and
\* edits cross each other, until an edit is saved over a newer row.
OneCurrent ==
  ~stale =>
    \E w \in Revs : /\ Is(w, "PUBLISHED") /\ rev[w].current
                    /\ \A m \in Revs \ {w} : ~Is(m, "PUBLISHED") /\ ~rev[m].current

\* A family has at most one draft, although its creation reads the family
\* without a lock and no index says so: the number of the revision decides.
OneDraft == ~stale => \A m, n \in Revs : Is(m, "DRAFT") /\ Is(n, "DRAFT") => m = n

\* An order that nobody put on a draft by its id is on a draft only while a test of
\* that draft is active, however tests, edits of it, repairs and publications meet.
DraftsOnlyInTests ==
  ~stale => \A o \in Orders \ direct :
              Exists(o) /\ Is(order[o].wf, "DRAFT") => test[o].draft = order[o].wf

ComesIntoForce(w) == rev'[w].current /\ ~rev[w].current

\* When a revision comes into force, every order in flight is on it and in no test of
\* it, except those that somebody else wrote while its publication was at work.
PublicationComplete ==
  [][~stale' => \A w \in Revs : ComesIntoForce(w) =>
       \A o \in Orders \ touched' :
         /\ test'[o].draft # w
         /\ Pending(order'[o]) => order'[o].wf = w]_vars
===============================================================================
