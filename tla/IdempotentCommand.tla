--------------------------- MODULE IdempotentCommand ---------------------------
(***************************************************************************)
(* The idempotency records of the financial commands, one database step at *)
(* a time: runIdempotent of the income operations, and the variant of the  *)
(* cancellation of an order, which locks the order first and looks for the *)
(* record in two ways, depending on whether the order has active payments. *)
(*                                                                         *)
(* A row inserted by a transaction is invisible until it commits; another  *)
(* insertion of the same key waits for that, and takes the key when the    *)
(* first one rolled back.  The result of an execution is named by the      *)
(* attempt that executed it.                                               *)
(***************************************************************************)
EXTENDS FiniteSets

CONSTANTS
  Attempts,     \* calls of the API, first ones and retries
  Keys,         \* scope and idempotency key
  CancelKeys,   \* the keys of cancellations of one order
  Requests,     \* contents of a command, compared by their hash
  NoResolution, \* the request to cancel an order without payments to resolve
  None

ASSUME CommandAssumption ==
  /\ CancelKeys \subseteq Keys /\ NoResolution \in Requests
  /\ None \notin Attempts \cup Keys \cup Requests
  /\ Attempts \cap {"REUSED", "IN_PROGRESS", "ERROR", "LOST"} = {}
  /\ None \notin {"REUSED", "IN_PROGRESS", "ERROR", "LOST"}

VARIABLES
  att,       \* each attempt: where it is, its key and request, the status of the row it inserted
  rec,       \* financial_idempotency_records that are committed
  holder,    \* the attempt whose insertion of the key is not committed
  order,     \* the attempt that holds the lock of the order
  active,    \* the order has payments that are pending or posted
  effects,   \* by key, the attempts whose changes are committed
  answer     \* what each attempt was answered

vars == <<att, rec, holder, order, active, effects, answer>>

Outcomes == {"REUSED", "IN_PROGRESS", "ERROR", "LOST"}
NoRow == [status |-> "NONE", req |-> None, by |-> None]
Idle == [pc |-> "idle", key |-> None, req |-> None, status |-> "NONE"]

Init ==
  /\ att = [a \in Attempts |-> Idle]
  /\ rec = [k \in Keys |-> NoRow]
  /\ holder = [k \in Keys |-> None]
  /\ order = None /\ active \in BOOLEAN
  /\ effects = [k \in Keys |-> {}]
  /\ answer = [a \in Attempts |-> None]

-----------------------------------------------------------------------------
Goes(a, pc) == att' = [att EXCEPT ![a].pc = pc]

\* The transaction ends, by commit or rollback, and its locks with it.
Unlocks(a) ==
  /\ holder' = [k \in Keys |-> IF holder[k] = a THEN None ELSE holder[k]]
  /\ order' = IF order = a THEN None ELSE order

\* Fault: the row that was inserted outlives the rollback.
EndsKeepingRow(a, x) ==
  /\ Goes(a, "done") /\ answer' = [answer EXCEPT ![a] = x]
  /\ order' = (IF order = a THEN None ELSE order)
  /\ UNCHANGED <<holder, rec, active, effects>>

\* Nothing of the transaction remains; the caller is answered.
Ends(a, x) ==
  /\ Goes(a, "done") /\ answer' = [answer EXCEPT ![a] = x]
  /\ Unlocks(a)
  /\ UNCHANGED <<rec, active, effects>>

Send(a, k, q) ==
  /\ att[a] = Idle
  /\ att' = [att EXCEPT ![a] =
       [pc |-> IF k \in CancelKeys THEN "lock" ELSE "insert", key |-> k, req |-> q, status |-> "NONE"]]
  /\ UNCHANGED <<rec, holder, order, active, effects, answer>>

\* Cancellation: client, order and active payments are locked first.
LockOrder(a) ==
  /\ att[a].pc = "lock" /\ order = None /\ order' = a
  /\ Goes(a, IF active THEN "insert" ELSE "find")
  /\ UNCHANGED <<rec, holder, active, effects, answer>>

\* The record of an earlier attempt decides the answer.
AnswersFrom(a) ==
  LET row == rec[att[a].key] IN
  Ends(a, IF row.req # att[a].req THEN "REUSED"
          ELSE IF row.status = "COMPLETED" THEN row.by ELSE "IN_PROGRESS")

\* Fault: the set of resolutions is compared with the payments before the record is looked for.
FindPriorLate(a) ==
  /\ att[a].pc = "find"
  /\ \/ att[a].req # NoResolution /\ Ends(a, "ERROR")
     \/ /\ att[a].req = NoResolution /\ rec[att[a].key].status = "NONE" /\ Goes(a, "insert")
        /\ UNCHANGED <<rec, holder, order, active, effects, answer>>
     \/ att[a].req = NoResolution /\ rec[att[a].key].status # "NONE" /\ AnswersFrom(a)

\* An order without active payments: the record is looked for, and only a
\* request without resolutions goes on.
FindPrior(a) ==
  /\ att[a].pc = "find"
  /\ \/ rec[att[a].key].status # "NONE" /\ AnswersFrom(a)
     \/ /\ rec[att[a].key].status = "NONE" /\ att[a].req # NoResolution
        /\ Ends(a, "ERROR")
     \/ /\ rec[att[a].key].status = "NONE" /\ att[a].req = NoResolution
        /\ Goes(a, "insert")
        /\ UNCHANGED <<rec, holder, order, active, effects, answer>>

\* INSERT ... ON CONFLICT DO NOTHING, once nobody's insertion of the key is open.
Insert(a) ==
  LET k == att[a].key IN
  /\ att[a].pc = "insert" /\ holder[k] = None
  /\ \/ /\ rec[k].status = "NONE"
        /\ holder' = [holder EXCEPT ![k] = a]
        /\ att' = [att EXCEPT ![a] = [@ EXCEPT !.pc = "run", !.status = "IN_PROGRESS"]]
     \/ rec[k].status # "NONE" /\ Goes(a, "prior") /\ UNCHANGED holder
  /\ UNCHANGED <<rec, order, active, effects, answer>>

ReadPrior(a) == att[a].pc = "prior" /\ AnswersFrom(a)

\* A cancellation resolves exactly the active payments; anything may throw.
MayAct(a) == att[a].key \in CancelKeys => (active <=> att[a].req # NoResolution)

Act(a) ==
  /\ att[a].pc = "run" /\ MayAct(a) /\ Goes(a, "record")
  /\ UNCHANGED <<rec, holder, order, active, effects, answer>>

Throw(a) == att[a].pc = "run" /\ Ends(a, "ERROR")

\* Fault: the row is left as it was inserted.
RecordSkipped(a) ==
  /\ att[a].pc = "record" /\ Goes(a, "commit")
  /\ UNCHANGED <<rec, holder, order, active, effects, answer>>

Record(a) ==
  /\ att[a].pc = "record"
  /\ att' = [att EXCEPT ![a] = [@ EXCEPT !.pc = "commit", !.status = "COMPLETED"]]
  /\ UNCHANGED <<rec, holder, order, active, effects, answer>>

\* Changes, record and outbox become visible together.  A cancellation may
\* leave posted payments, kept as credit, on the order.
Commit(a) ==
  LET k == att[a].key IN
  /\ att[a].pc = "commit" /\ Goes(a, "reply")
  /\ rec' = [rec EXCEPT ![k] = [status |-> att[a].status, req |-> att[a].req, by |-> a]]
  /\ effects' = [effects EXCEPT ![k] = @ \cup {a}]
  /\ \/ UNCHANGED active
     \/ k \in CancelKeys /\ active' = FALSE
  /\ Unlocks(a)
  /\ UNCHANGED answer

Reply(a) == att[a].pc = "reply" /\ Ends(a, a)

\* The connection or the process breaks: an open transaction is rolled back.
Lose(a) == att[a].pc \notin {"idle", "done"} /\ Ends(a, "LOST")

\* The order gets a payment, or its payments are closed, by other operations.
PaymentsChange ==
  /\ order = None /\ active' = ~active
  /\ UNCHANGED <<att, rec, holder, order, effects, answer>>

-----------------------------------------------------------------------------
Works(a) ==
  LockOrder(a) \/ FindPrior(a) \/ Insert(a) \/ ReadPrior(a)
  \/ Act(a) \/ Throw(a) \/ Record(a) \/ Commit(a) \/ Reply(a)

Next ==
  \/ \E a \in Attempts :
       (\E k \in Keys, q \in Requests : Send(a, k, q)) \/ Works(a) \/ Lose(a)
  \/ PaymentsChange

\* The database and the process serve every call that they accepted.
Fairness == \A a \in Attempts : WF_vars(Works(a))

Spec == Init /\ [][Next]_vars
FairSpec == Spec /\ Fairness

-----------------------------------------------------------------------------
(* Properties.                                                             *)

PCs == {"idle", "lock", "find", "insert", "prior", "run", "record", "commit", "reply", "done"}
RowStatuses == {"NONE", "IN_PROGRESS", "COMPLETED"}

TypeOK ==
  /\ att \in [Attempts -> [pc : PCs, key : Keys \cup {None}, req : Requests \cup {None},
                           status : RowStatuses]]
  /\ \A a \in Attempts : att[a].pc = "idle" <=> att[a].key = None
  /\ \A a \in Attempts : att[a].key = None <=> att[a].req = None
  /\ rec \in [Keys -> [status : RowStatuses, req : Requests \cup {None}, by : Attempts \cup {None}]]
  /\ holder \in [Keys -> Attempts \cup {None}]
  /\ order \in Attempts \cup {None} /\ active \in BOOLEAN
  /\ effects \in [Keys -> SUBSET Attempts]
  /\ answer \in [Attempts -> Attempts \cup Outcomes \cup {None}]

\* A command takes effect at most once for a key, however its retries overlap
\* with the first call, its rollback or its lost answer.
AtMostOnce == \A k \in Keys : \A a, b \in effects[k] : a = b

\* Whoever is told a result is told the one execution that took effect, of the
\* same request.
AnswersAgree ==
  \A a \in Attempts : answer[a] \in Attempts =>
    /\ answer[a] \in effects[att[a].key]
    /\ att[answer[a]].req = att[a].req

\* A retry of the same request is never told that the key was used for another
\* one, and nobody ever sees a record that is still in progress.
NoFalseRefusal ==
  \A a \in Attempts :
    /\ answer[a] # "IN_PROGRESS"
    /\ answer[a] = "REUSED" => rec[att[a].key].req # att[a].req

\* Every call is answered, also one that waits for the same key to be free.
Answered == \A a \in Attempts : att[a].pc # "idle" ~> answer[a] # None

\* The records implement the promise: once done, a command is never answered
\* with an error, whatever payments it left active and whichever way the
\* cancellation looks for its record.
Promise == INSTANCE OnceOnly WITH
  asked <- [a \in Attempts |-> [key |-> att[a].key, req |-> att[a].req]],
  done <- [k \in Keys |-> [req |-> rec[k].req, by |-> rec[k].by]]

KeepsPromise == Promise!Spec
===============================================================================
