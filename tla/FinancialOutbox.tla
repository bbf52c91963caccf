---------------------------- MODULE FinancialOutbox ----------------------------
(***************************************************************************)
(* The outbox of the financial operations and the publishers that empty it.*)
(* A row is written by the transaction whose change it tells of.  Every    *)
(* process runs a publisher: a timer starts a transaction that locks due   *)
(* rows, emits each to the connected clients, notes the outcome and        *)
(* commits.  An emission cannot be taken back when the transaction is.     *)
(*                                                                         *)
(* Rows are numbered in the order of occurred_at.  Of the back-off delays  *)
(* only their order in time matters: a row is due or not yet.              *)
(***************************************************************************)
EXTENDS Naturals, FiniteSets

CONSTANTS
  Publishers,    \* processes of the application
  Events,        \* rows that may be written, numbered as they occur
  BatchLimit,    \* LIMIT of the query
  MAX_ATTEMPTS,  \* attempts before a row is dead-lettered
  MaxRetries,    \* bound: manual retries of a row
  MaxLosses      \* bound: transactions of a publisher that are lost

ASSUME OutboxAssumption ==
  /\ Events \subseteq Nat
  /\ MAX_ATTEMPTS \in Nat \ {0} /\ BatchLimit \in Nat \ {0}
  /\ MaxRetries \in Nat /\ MaxLosses \in Nat

VARIABLES
  \* financial_outbox_events: the rows with each column set, and their counters
  written, published, dead, due, attempts, manual_retry_count,
  \* publishers in a run; the rows each locked and has still to serve, emitted, failed to emit
  running, todo, done, failed,
  sent,    \* how often each row was emitted in full
  undone,  \* how often an emission was followed by the loss of its transaction
  losses   \* transactions lost so far

table == <<written, published, dead, due, attempts, manual_retry_count>>
held == <<running, todo, done, failed>>
outboxVars == <<table, held, sent, undone, losses>>

OutboxInit ==
  /\ written = {} /\ published = {} /\ dead = {} /\ due = {}
  /\ attempts = [e \in Events |-> 0] /\ manual_retry_count = [e \in Events |-> 0]
  /\ running = {}
  /\ todo = [p \in Publishers |-> {}]
  /\ done = [p \in Publishers |-> {}] /\ failed = [p \in Publishers |-> {}]
  /\ sent = [e \in Events |-> 0] /\ undone = [e \in Events |-> 0]
  /\ losses = 0

-----------------------------------------------------------------------------
LockedBy(p) == todo[p] \cup done[p] \cup failed[p]
Locked == UNION {LockedBy(p) : p \in Publishers}

Ready == (written \cap due) \ (published \cup dead)

\* writeAuditAndOutbox, by the transaction of the operation.  occurred_at is
\* the time that transaction began: rows may become visible out of order.
Write(e) ==
  /\ e \notin written
  /\ written' = written \cup {e} /\ due' = due \cup {e}
  /\ UNCHANGED <<published, dead, attempts, manual_retry_count, held, sent, undone, losses>>

\* The oldest due rows nobody locked, up to the limit.
Selected(b) ==
  LET free == Ready \ Locked IN
  /\ b \subseteq free
  /\ \A e \in b, d \in free \ b : e < d
  /\ Cardinality(b) <= BatchLimit
  /\ b = free \/ Cardinality(b) = BatchLimit

\* A timer tick while the previous run goes on does nothing.
Start(p, b) ==
  /\ p \notin running /\ Selected(b)
  /\ running' = running \cup {p} /\ todo' = [todo EXCEPT ![p] = b]
  /\ UNCHANGED <<table, done, failed, sent, undone, losses>>

NextOf(p) == {e \in todo[p] : \A d \in todo[p] : e <= d}

\* Fault: the row counts as published although emitting it threw.
ThrowsSwallowed(p, e) ==
  /\ done' = [done EXCEPT ![p] = @ \cup {e}]
  /\ UNCHANGED <<failed, sent>>

Throws(p, e) ==
  /\ failed' = [failed EXCEPT ![p] = @ \cup {e}]
  /\ UNCHANGED <<done, sent>>

Emits(p, e) ==
  /\ done' = [done EXCEPT ![p] = @ \cup {e}]
  /\ sent' = [sent EXCEPT ![e] = @ + 1]
  /\ UNCHANGED failed

\* The next row is emitted, or a socket throws, and an UPDATE notes which.
Serve(p) ==
  \E e \in NextOf(p) :
    /\ todo' = [todo EXCEPT ![p] = @ \ {e}]
    /\ Emits(p, e) \/ Throws(p, e)
    /\ UNCHANGED <<table, running, undone, losses>>

\* finally: the flag is reset, the locks are gone.
Stops(p) ==
  /\ running' = running \ {p}
  /\ todo' = [todo EXCEPT ![p] = {}]
  /\ done' = [done EXCEPT ![p] = {}] /\ failed' = [failed EXCEPT ![p] = {}]

\* Fault: a manual retry does not raise the limit.
LastAttemptEver(e) == attempts[e] + 1 >= MAX_ATTEMPTS

LastAttempt(e) == attempts[e] + 1 >= MAX_ATTEMPTS * (manual_retry_count[e] + 1)

\* Fault: failures are not counted.
AttemptsOfPublished(p) ==
  [e \in Events |-> attempts[e] + IF e \in done[p] THEN 1 ELSE 0]

AttemptsAfter(p) ==
  [e \in Events |-> attempts[e] + IF e \in done[p] \cup failed[p] THEN 1 ELSE 0]

CommitBatch(p) ==
  /\ p \in running /\ todo[p] = {} /\ Stops(p)
  /\ published' = published \cup done[p]
  /\ due' = due \ failed[p]
  /\ dead' = (dead \ failed[p]) \cup {e \in failed[p] : LastAttempt(e)}
  /\ attempts' = AttemptsAfter(p)
  /\ UNCHANGED <<written, manual_retry_count, sent, undone, losses>>

\* An UPDATE fails, which aborts the whole transaction, or the process dies
\* and starts again: the timer tries again.
LoseBatch(p) ==
  /\ p \in running /\ losses < MaxLosses /\ losses' = losses + 1
  /\ undone' = [e \in Events |-> undone[e] + IF e \in done[p] THEN 1 ELSE 0]
  /\ Stops(p)
  /\ UNCHANGED <<table, sent>>

\* next_attempt_at has come.
Elapse(e) ==
  /\ e \in written \ due /\ due' = due \cup {e}
  /\ UNCHANGED <<written, published, dead, attempts, manual_retry_count, held, sent, undone, losses>>

Retried(e) == [manual_retry_count EXCEPT ![e] = @ + 1]

RetryDeadLetter(e) ==
  /\ e \in dead \ published /\ manual_retry_count[e] < MaxRetries
  /\ dead' = dead \ {e} /\ due' = due \cup {e} /\ manual_retry_count' = Retried(e)
  /\ UNCHANGED <<written, published, attempts, held, sent, undone, losses>>

-----------------------------------------------------------------------------
Publishes(p) == (\E b \in SUBSET Events : Start(p, b)) \/ Serve(p) \/ CommitBatch(p)

OutboxNext ==
  \/ \E e \in Events : Write(e) \/ Elapse(e) \/ RetryDeadLetter(e)
  \/ \E p \in Publishers : Publishes(p) \/ LoseBatch(p)

\* Every process has its timer, and clocks advance.
OutboxFairness ==
  /\ \A p \in Publishers : WF_outboxVars(Publishes(p))
  /\ \A e \in Events : WF_outboxVars(Elapse(e))

OutboxSpec == OutboxInit /\ [][OutboxNext]_outboxVars
FairOutboxSpec == OutboxSpec /\ OutboxFairness

-----------------------------------------------------------------------------
(* Properties.                                                             *)

\* The rows are rows of the table, and counters stay within their bounds.
OutboxTypeOK ==
  /\ written \in SUBSET Events /\ published \in SUBSET Events
  /\ dead \in SUBSET Events /\ due \in SUBSET Events
  /\ attempts \in [Events -> Nat] /\ manual_retry_count \in [Events -> 0..MaxRetries]
  /\ running \in SUBSET Publishers
  /\ todo \in [Publishers -> SUBSET Events]
  /\ done \in [Publishers -> SUBSET Events] /\ failed \in [Publishers -> SUBSET Events]
  /\ sent \in [Events -> Nat] /\ undone \in [Events -> Nat] /\ losses \in 0..MaxLosses

\* A row that counts as published was emitted, and more often than once only
\* when a transaction that had emitted it was lost: several processes and
\* overlapping ticks of the timers of runOnce send nothing twice.
SentOnceUnlessLost ==
  \A e \in Events :
    /\ e \in published => sent[e] = undone[e] + 1
    /\ sent[e] <= undone[e] + 1

\* Every round, the first and each one that retryDeadLetter begins, has all
\* its attempts: a row is dead exactly when the attempts of its rounds are
\* used up without publishing it.
RoundsComplete ==
  \A e \in Events :
    LET n == MAX_ATTEMPTS * manual_retry_count[e] IN
    /\ e \in dead <=> e \notin published /\ attempts[e] = n + MAX_ATTEMPTS
    /\ attempts[e] \in n .. (n + MAX_ATTEMPTS)

\* What was published stays so: no run of another publisher, failure or manual
\* retry touches the row.
PublishedForGood ==
  [][\A e \in published :
       /\ e \in published' /\ e \notin dead' /\ attempts'[e] = attempts[e]
       /\ manual_retry_count'[e] = manual_retry_count[e]]_outboxVars

\* Every row is published or dead-lettered in the end, however many rows fail
\* before it in the order of the query of runOnce.
Delivered == \A e \in Events : e \in written ~> e \in published \cup dead
===============================================================================
